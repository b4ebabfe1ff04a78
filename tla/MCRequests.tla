----------------------------- MODULE MCRequests -----------------------------
(***************************************************************************)
(* A small instance of Requests: one user of tier 1 who applies for tier   *)
(* 2, and one wallet.  Transfers worth 600 and 1000 USD together exceed    *)
(* the day of tier 1, and a withdrawal of 600 carries the JSON of the      *)
(* first transfer.  At 9.99 units for a dollar these are whole after the   *)
(* fee of 0.1 percent; the inverse of the one rate in the feed values them.*)
(***************************************************************************)
EXTENDS Requests, TLC

CONSTANTS u1, k1, k2, h1, h2, r1

MCApplicant == r1 :> u1
MCTarget    == r1 :> 2
MCStartTier == u1 :> 1

MCRate  == <<"USD", "UGX">> :> Frac(999, 100)
MCValue == ("USD" :> Whole(1)) @@ ("UGX" :> Frac(100, 999))

Asks(side, amount) ==
    [from |-> "UGX", to |-> "UGX", rail |-> "internal", country |-> "UG",
     side |-> side, amount |-> amount]

MCBodies == {"some", "large", "out"}

MCBody ==
    [some  |-> [user |-> u1, kind |-> "transfer.initiate", json |-> "q600",
                ask |-> Asks("to", 6000)],
     large |-> [user |-> u1, kind |-> "transfer.initiate", json |-> "q1000",
                ask |-> Asks("from", 10000)],
     out   |-> [user |-> u1, kind |-> "withdrawal.initiate", json |-> "q600",
                ask |-> Asks("to", 6000)]]

Symmetric == Permutations(Keys) \cup Permutations(Handlers)
=============================================================================
