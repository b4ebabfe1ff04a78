------------------------------- MODULE Escrow -------------------------------
(***************************************************************************)
(* What the approval queue does to SUSPENSE (README, key invariant 4:      *)
(* "Funds are reserved by debiting the user wallet into a SUSPENSE         *)
(* account; on approval, suspense -> external rail; on rejection, suspense *)
(* -> wallet").  A withdrawal is held at most once, is decided only once   *)
(* it is held, and no more often than there are admins who may have found  *)
(* it waiting; a decision, whatever it is, releases an amount of its own,  *)
(* which need not be the one that was held.                                *)
(***************************************************************************)
EXTENDS Integers, Functions

CONSTANTS
    Withdrawals,
    Pots,     \* the SUSPENSE accounts
    Pot,      \* in [Withdrawals -> Pots]: where a withdrawal is held
    Amount,   \* in [Withdrawals -> Nat]: what is held for it
    Released, \* in [Withdrawals -> Nat]: what a decision takes out
    Admins,   \* in Nat
    Opening   \* in [Pots -> Int]: what a pot begins with

VARIABLES
    held,      \* the withdrawals that were held
    decisions, \* per withdrawal: decisions made
    suspense   \* per pot: the money in it

vars == <<held, decisions, suspense>>

Init ==
    /\ held = {}
    /\ decisions = [w \in Withdrawals |-> 0]
    /\ suspense = Opening

Hold(w) ==
    /\ w \notin held
    /\ held' = held \cup {w}
    /\ suspense' = [suspense EXCEPT ![Pot[w]] = @ + Amount[w]]
    /\ UNCHANGED decisions

\* Approved (paid to the rail) or rejected (refunded to the wallet).
Decide(w) ==
    /\ w \in held
    /\ decisions[w] < Admins
    /\ decisions' = [decisions EXCEPT ![w] = @ + 1]
    /\ suspense' = [suspense EXCEPT ![Pot[w]] = @ - Released[w]]
    /\ UNCHANGED held

Next == \E w \in Withdrawals : Hold(w) \/ Decide(w)

Spec == Init /\ [][Next]_vars

\* What a withdrawal leaves in its pot: all of it while it waits, the spread
\* once it is decided, and less with every decision after that.
Left == [w \in Withdrawals |->
            (IF w \in held THEN Amount[w] ELSE 0) - decisions[w] * Released[w]]

HeldIn(p) == {w \in Withdrawals : Pot[w] = p}

\* What is in SUSPENSE is accounted for by the withdrawals, to the unit.
SuspenseAddsUp ==
    \A p \in Pots : suspense[p] = Opening[p] + SumFunctionOnSet(Left, HeldIn(p))
=============================================================================
