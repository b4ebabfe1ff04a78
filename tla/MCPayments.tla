----------------------------- MODULE MCPayments -----------------------------
(***************************************************************************)
(* Small instances of Payments for TLC.                                    *)
(***************************************************************************)
EXTENDS PaymentsEscrow, TLC

CONSTANTS u1, u2, usd, q1, q2, q3, k1, k2, k3, k4, h1, h2, d1, d2

MCUsers  == {u1, u2}
MCTier   == [u \in MCUsers |-> 2]
MCSystem == SystemKinds \X {usd}

\* 5 units in the wallet of u1: any two of the quotes overdraw it.
Price(user, amount, fee, receive) ==
    [user |-> user, from |-> usd, to |-> usd, amount |-> amount, fee |-> fee,
     receive |-> receive, usd |-> amount]

\* q1 has a spread: of the 4 debited, 1 is the fee and 2 are received.
MCTerms ==
    (q1 :> Price(u1, 4, 1, 2)) @@ (q2 :> Price(u1, 3, 1, 2)) @@
    (q3 :> Price(u2, 2, 0, 2))

\* Two keys share q1; q1 is large enough to need an approval; u2 can pay
\* back only what k1 brought.
Asks(kind, user, to, q) == [kind |-> kind, user |-> user, to |-> to, quote |-> q]
MCOrder ==
    (k1 :> Asks("transfer", u1, u2, q1)) @@ (k2 :> Asks("withdrawal", u1, u1, q1)) @@
    (k3 :> Asks("withdrawal", u1, u1, q2)) @@ (k4 :> Asks("transfer", u2, u1, q3))

\* Two withdrawals that may wait together, the first with a spread, and a
\* transfer that competes for the quote of the second.
MCHeldTerms == (q1 :> Price(u1, 3, 1, 1)) @@ (q2 :> Price(u1, 2, 0, 2))

MCHeldOrder ==
    (k1 :> Asks("withdrawal", u1, u1, q1)) @@ (k2 :> Asks("withdrawal", u1, u1, q2)) @@
    (k3 :> Asks("transfer", u1, u2, q2))

MCOpening ==
    [a \in (MCUsers \X {usd}) \cup MCSystem |->
        CASE a = <<u1, usd>>              -> 5
          [] a = <<"EXTERNAL_RAIL", usd>> -> -5
          [] OTHER                        -> 0]

MCOpened == {<<u1, usd>>}

Symmetric == Permutations({h1, h2}) \cup Permutations({d1, d2})
=============================================================================
