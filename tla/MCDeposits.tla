----------------------------- MODULE MCDeposits -----------------------------
(***************************************************************************)
(* A small instance of Deposits: two deposits for w1, which exists, and    *)
(* one for w2, which exists only after a transfer or when its user opens   *)
(* it: until then it stays pending in a batch of two.  The two transfers   *)
(* out of w1 need the deposits: a projection that is too high by the first *)
(* would pass the second.                                                  *)
(***************************************************************************)
EXTENDS Deposits, TLC

CONSTANTS w1, w2, d1, d2, d3, m1, m2, i1

MCDeposit ==
    (d1 :> [to |-> w1, amount |-> 1, required |-> 2]) @@
    (d2 :> [to |-> w1, amount |-> 1, required |-> 1]) @@
    (d3 :> [to |-> w2, amount |-> 1, required |-> 1])

MCMove ==
    (m1 :> [from |-> w1, to |-> w2, amount |-> 2]) @@
    (m2 :> [from |-> w1, to |-> w2, amount |-> 2])

MCOpening == (w1 :> 2) @@ (w2 :> 0)
=============================================================================
