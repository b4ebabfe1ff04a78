------------------------------ MODULE MCPayouts ------------------------------
(***************************************************************************)
(* Small instances of Payouts for TLC.                                     *)
(***************************************************************************)
EXTENDS Payouts, TLC

CONSTANTS mobile, onchain, bank, d1, d2, x1, x2, p1, p2

Symmetric ==
    Permutations({d1, d2}) \cup Permutations({x1, x2}) \cup Permutations({p1, p2})
=============================================================================
