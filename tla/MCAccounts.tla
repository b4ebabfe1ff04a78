----------------------------- MODULE MCAccounts -----------------------------
(***************************************************************************)
(* A small instance of Accounts.                                           *)
(***************************************************************************)
EXTENDS Accounts, TLC

CONSTANTS h1, h2, c1, s1, s2

MCPurpose == c1 :> "EMAIL_VERIFY"

Symmetric == Permutations(Handlers) \cup Permutations(Sessions)
=============================================================================
