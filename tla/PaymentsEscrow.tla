--------------------------- MODULE PaymentsEscrow ---------------------------
(***************************************************************************)
(* The refinement mapping from Payments to Escrow.  What was held and how  *)
(* often it was decided are read off the postings; the pots are the        *)
(* SUSPENSE ledger accounts themselves.                                    *)
(***************************************************************************)
EXTENDS Payments

WithdrawalKeys == {k \in Keys : ~IsTransfer(k)}

HeldKeys == {k \in WithdrawalKeys : postings[k]["reserve"] > 0}

Decisions(k) == postings[k]["approve"] + postings[k]["reject"]

\* Of a currency without a SUSPENSE account there is nothing to hold.
SuspenseIn(book, c) == IF <<"SUSPENSE", c>> \in System THEN book[<<"SUSPENSE", c>>] ELSE 0

E == INSTANCE Escrow WITH
        Withdrawals <- WithdrawalKeys,
        Pots        <- Currencies,
        Pot         <- [k \in WithdrawalKeys |-> Currency(k)],
        Amount      <- [k \in WithdrawalKeys |-> Debit(k)],
        Released    <- [k \in WithdrawalKeys |-> Release(k)],
        Admins      <- Cardinality(Deciders),
        Opening     <- [c \in Currencies |-> SuspenseIn(Opening, c)],
        held        <- HeldKeys,
        decisions   <- [k \in WithdrawalKeys |-> Decisions(k)],
        suspense    <- [c \in Currencies |-> SuspenseIn(balance, c)]

\* Every step of the services and of the decide route is a step of Escrow
\* or leaves it alone: a withdrawal is held once and is never decided before
\* it is held; admins that overlap may decide it several times, but an item
\* that was decided admits no further admin.
ImplementsEscrow == E!Spec

\* SUSPENSE is off by the spread of each decision and the whole of each
\* repeated one, and by nothing else.
SuspenseAddsUp == E!SuspenseAddsUp
=============================================================================
