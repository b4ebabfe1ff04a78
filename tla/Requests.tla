------------------------------ MODULE Requests ------------------------------
(***************************************************************************)
(* What stands between an HTTP request and the ledger: the idempotency     *)
(* middleware, the KYC tier, the limits of the tier and the fraud engine,  *)
(* composed with the KYC workflow that sets the tier.  Payments has the    *)
(* ledger; here funds suffice and wallets are active, and in exchange the  *)
(* reads on this.db are separate steps: the middleware's row, the          *)
(* transaction found by key, the tier, the limits and the fraud counts     *)
(* are each read at a time of their own, and acted on later.               *)
(*                                                                         *)
(* A body stands for the whole of a request: who sends it, to which route, *)
(* and the JSON it carries.  The JSON names the quote the request spends,  *)
(* one for each JSON, made for that user and priced by Pricing from what   *)
(* was asked; the quote names the currency, and so the wallet.  One JSON   *)
(* may be sent to two routes.                                              *)
(***************************************************************************)
EXTENDS Kyc, Fraud, Pricing

CONSTANTS
    Keys,     \* idempotency keys
    Bodies,
    Body,     \* user, kind and JSON of a request, and the ask its quote answered
    Handlers, \* concurrent requests
    Admins,   \* how many may have an approval item open at a time
    Oldest,   \* bound: the age no transaction outgrows
    Value     \* of a unit of each currency in USD, by which the rates agree

ASSUME FinitelyManyKeys == IsFiniteSet(Keys)

ASSUME ValueAssumption ==
    /\ Value["USD"] = Whole(1)
    /\ \A p \in DOMAIN Rate :
          /\ \A c \in {p[1], p[2]} : Value[c] \in [n : Nat \ {0}, d : Nat \ {0}]
          /\ Rate[p] = Over(Value[p[1]], Value[p[2]])

ASSUME BodiesAssumption ==
    /\ "none" \notin Bodies
    /\ \A b \in Bodies :
          /\ Body[b].user \in Users
          /\ Body[b].kind \in {"transfer.initiate", "withdrawal.initiate"}
          /\ Body[b].ask.rail \in DOMAIN RailBps
          /\ Body[b].ask.amount \in Nat
          /\ QuotesOf(Body[b].ask) # {}
          /\ GetRate(Body[b].ask.from, "USD") # {}
          /\ Body[b].json # "none"
    /\ \A a, b \in Bodies :
          Body[a].json = Body[b].json =>
              Body[a].user = Body[b].user /\ Body[a].ask = Body[b].ask

ASSUME AdminsAssumption == Admins \in Nat
ASSUME OldestAssumption == Oldest \in {"day", "month", "old"}

VARIABLES idem, txn, handler

requestVars == <<idem, txn, handler>>
vars == <<tier, record, screening, idem, txn, handler>>

\* KYC_LIMITS, in USD, and WITHDRAWAL_AUTO_APPROVE_USD.
SingleTxUsd == <<50, 1000, 10000, 100000>>
DailyUsd    == <<50, 1000, 10000, 100000>>
MonthlyUsd  == <<200, 5000, 50000, 1000000>>
AutoApprove == 1000

\* The IdempotencyKey row: the hash of the JSON, not the route; a stored
\* response is never changed.
NoRow == [json |-> "none", answered |-> FALSE]
Row(b) == [json |-> Body[b].json, answered |-> FALSE]

(***************************************************************************)
(* The Transaction row.  enqueued: a payout's outbox row exists.  readers: *)
(* admins that have read its approval item PENDING and are to decide.      *)
(* History: tier is the tier its request was checked with, window the age  *)
(* as the limits see it, direct says that the row has counted against the  *)
(* limits ever since it was made, completed that it was COMPLETED once.    *)
(***************************************************************************)
NoTxn == [status |-> "NONE", body |-> "none", tier |-> 0, window |-> "day",
          direct |-> FALSE, completed |-> FALSE, enqueued |-> FALSE, readers |-> 0]
TxnType ==
    {NoTxn} \cup
    [status : {"REQUIRES_APPROVAL", "PROCESSING", "COMPLETED", "FAILED",
               "CANCELLED"},
     body : Bodies, tier : 0..3, window : {"day", "month", "old"},
     direct : BOOLEAN, completed : BOOLEAN, enqueued : BOOLEAN,
     readers : 0..Admins]

\* What a request holds; stale: rows written by others since its snapshot.
Idle == [pc |-> "idle"]
HandlerType ==
    {Idle} \cup
    [pc : {"new", "accepted", "answering"}, key : Keys, body : Bodies] \cup
    [pc : {"checked"}, key : Keys, body : Bodies, tier : 0..3] \cup
    [pc : {"open", "limited"}, key : Keys, body : Bodies, tier : 0..3,
     stale : SUBSET {"quote", "wallet"}] \cup
    [pc : {"vetted"}, key : Keys, body : Bodies, tier : 0..3,
     stale : SUBSET {"quote", "wallet"}, held : BOOLEAN]

TypeOK ==
    /\ KycTypeOK
    /\ idem \in [Keys -> [json : {Body[b].json : b \in Bodies} \cup {"none"},
                         answered : BOOLEAN]]
    /\ txn \in [Keys -> TxnType]
    /\ handler \in [Handlers -> HandlerType]

Init ==
    /\ KycInit
    /\ idem = [k \in Keys |-> NoRow]
    /\ txn = [k \in Keys |-> NoTxn]
    /\ handler = [h \in Handlers |-> Idle]

-----------------------------------------------------------------------------
(***************************************************************************)
(* What the checks read.                                                   *)
(***************************************************************************)
MinTier(b) == IF Body[b].kind = "transfer.initiate" THEN 1 ELSE 2

Terms == [b \in Bodies |-> CHOOSE q \in QuotesOf(Body[b].ask) : TRUE]

\* A transfer counts as what is received, a withdrawal as what is taken.
UsdAmount ==
    [b \in Bodies |->
        Times(IF Body[b].kind = "transfer.initiate" THEN Terms[b].receive
              ELSE Terms[b].amount,
              CHOOSE r \in GetRate(Terms[b].from, "USD") : TRUE)]

\* In whole dollars, as the limits and thresholds are.
UsdOf == [b \in Bodies |-> UsdAmount[b].n \div UsdAmount[b].d]

Made == {k \in Keys : txn[k].status # "NONE"}
UserOf(k) == Body[txn[k].body].user
Usd(S) == SumFunctionOnSet([k \in Keys |-> UsdOf[txn[k].body]], S)

Counted(windows) ==
    {k \in Made : /\ txn[k].status \in {"COMPLETED", "PROCESSING", "PENDING"}
                  /\ txn[k].window \in windows}

\* LimitService.assertWithinLimits, on whatever is committed by now.
WithinLimits(b, t) ==
    LET spent(windows) == Usd({k \in Counted(windows) : UserOf(k) = Body[b].user})
    IN  /\ UsdOf[b] <= SingleTxUsd[t + 1]
        /\ spent({"day"}) + UsdOf[b] <= DailyUsd[t + 1]
        /\ spent({"day", "month"}) + UsdOf[b] <= MonthlyUsd[t + 1]

\* What the fraud rules may find: COMPLETED transactions are those here;
\* devices and other traffic may be anything, except that no code ever
\* marks a device as trusted.
Completed(u) == {k \in Made : UserOf(k) = u /\ txn[k].status = "COMPLETED"}

Facts(completed) ==
    [fingerprint : BOOLEAN, abroad : {FALSE}, trusted : {FALSE}, failedOtp : {0},
     withdrawals : {0, 4, 5}, transfers : {0, 9, 10}, sharers : {1, 2, 3},
     completed : {completed}]

Event(b, blacklisted) ==
    [kind |-> Body[b].kind, usd |-> UsdOf[b], success |-> TRUE,
     blacklisted |-> blacklisted]

\* By body and by the number of COMPLETED transactions.
Verdicts ==
    [b \in Bodies |-> [n \in 0..Cardinality(Keys) |->
        {Verdict(Event(b, blacklisted), f) : blacklisted \in BOOLEAN, f \in Facts(n)}]]

\* The wallet row is written by every posting: a reservation too, but not
\* by a transfer under review.
WritesWallet(x) == Body[x.body].kind = "withdrawal.initiate" \/ ~x.held

\* Rows of another open transaction that this one's commit has written.
SameQuote(b, c) == Body[b].json = Body[c].json

SharesQuoteOnly(x, y) == {r \in {"quote"} : SameQuote(x.body, y.body)}
Shares(x, y) ==
    {r \in {"quote"} : SameQuote(x.body, y.body)} \cup
    {r \in {"wallet"} : /\ WritesWallet(y)
                        /\ Body[x.body].user = Body[y.body].user
                        /\ Terms[x.body].from = Terms[y.body].from}

Open(x) == x.pc \in {"open", "limited", "vetted"}

-----------------------------------------------------------------------------
(***************************************************************************)
(* consumeIdempotencyKey: find the row; with none, create it in a second   *)
(* step.  A row with another JSON is a 409 and an answered one is replayed *)
(* (Refuse); a row without an answer lets the request through again, and   *)
(* to whatever route: the endpoint on the row is not compared.             *)
(***************************************************************************)
Receive(h, k, b) ==
    /\ handler[h] = Idle
    /\ \/ /\ idem[k] = NoRow
          /\ handler' = [handler EXCEPT ![h] = [pc |-> "new", key |-> k, body |-> b]]
       \/ /\ idem[k] = Row(b)
          /\ handler' = [handler EXCEPT ![h] = [pc |-> "accepted", key |-> k, body |-> b]]
    /\ UNCHANGED <<kycVars, idem, txn>>

Refuse(h, k, b) ==
    /\ handler[h] = Idle
    /\ idem[k] # NoRow
    /\ idem[k].json # Body[b].json \/ idem[k].answered
    /\ UNCHANGED vars

\* The key is the row's primary key: of two that found none, one creates it
\* and the other fails with a unique violation, a 500 (Drop).
RowIsFreeUnchecked(k) == TRUE
RowIsFree(k) == idem[k] = NoRow

Claim(h) ==
    /\ handler[h].pc = "new"
    /\ LET k == handler[h].key
       IN  /\ RowIsFree(k)
           /\ idem' = [idem EXCEPT ![k] = Row(handler[h].body)]
    /\ handler' = [handler EXCEPT ![h].pc = "accepted"]
    /\ UNCHANGED <<kycVars, txn>>

\* sendInternal and executeWithdrawal find the transaction of the key, ...
FindReplay(h) ==
    /\ handler[h].pc = "accepted"
    /\ txn[handler[h].key].status # "NONE"
    /\ handler' = [handler EXCEPT ![h].pc = "answering"]
    /\ UNCHANGED <<kycVars, idem, txn>>

\* ... or read the user and refuse a tier that is too low.
TierSufficesForTransfer(t, b) == t >= 1
TierSuffices(t, b) == t >= MinTier(b)

ReadTier(h) ==
    /\ handler[h].pc = "accepted"
    /\ LET k == handler[h].key  b == handler[h].body  t == tier[Body[b].user]
       IN  /\ txn[k].status = "NONE"
           /\ TierSuffices(t, b)
           /\ handler' = [handler EXCEPT ![h] =
                 [pc |-> "checked", key |-> k, body |-> b, tier |-> t]]
    /\ UNCHANGED <<kycVars, idem, txn>>

\* BEGIN, and the quote is still to be consumed in this snapshot; one for
\* two currencies is refused for a transfer (transfer-service.ts:84).
Begin(h) ==
    /\ handler[h].pc = "checked"
    /\ LET x == handler[h]
       IN  /\ \A k \in Made : ~SameQuote(txn[k].body, x.body)
           /\ Body[x.body].kind = "transfer.initiate" =>
                 Terms[x.body].from = Terms[x.body].to
           /\ handler' = [handler EXCEPT ![h] =
                 [pc |-> "open", key |-> x.key, body |-> x.body, tier |-> x.tier,
                  stale |-> {}]]
    /\ UNCHANGED <<kycVars, idem, txn>>

\* On another connection, so on whatever is committed by now, with the
\* tier read before the transaction; then the fraud engine, on what is
\* committed by then.  Both may throw (Drop).
CheckLimits(h) ==
    /\ handler[h].pc = "open"
    /\ WithinLimits(handler[h].body, handler[h].tier)
    /\ handler' = [handler EXCEPT ![h].pc = "limited"]
    /\ UNCHANGED <<kycVars, idem, txn>>

Judge(h) ==
    /\ handler[h].pc = "limited"
    /\ LET x == handler[h]
           n == Cardinality(Completed(Body[x.body].user))
           atOnce(verdict) ==
              /\ verdict = "ALLOW"
              /\ Body[x.body].kind = "withdrawal.initiate" =>
                    UsdOf[x.body] < AutoApprove
       IN  \E verdict \in Verdicts[x.body][n] \ {"BLOCK"} :
              handler' = [handler EXCEPT ![h] =
                 [pc |-> "vetted", key |-> x.key, body |-> x.body, tier |-> x.tier,
                  stale |-> x.stale, held |-> ~atOnce(verdict)]]
    /\ UNCHANGED <<kycVars, idem, txn>>

\* COMMIT: nobody wrote a row this one writes, and the key is unique.
MayCommit(x) ==
    /\ x.pc = "vetted"
    /\ "quote" \notin x.stale
    /\ WritesWallet(x) => "wallet" \notin x.stale
    /\ txn[x.key].status = "NONE"

CommittedStatusByDefault(x) == IF x.held THEN "REQUIRES_APPROVAL" ELSE "PENDING"
CommittedStatus(x) ==
    IF x.held THEN "REQUIRES_APPROVAL"
    ELSE IF Body[x.body].kind = "transfer.initiate" THEN "COMPLETED" ELSE "PROCESSING"

Commit(h) ==
    /\ MayCommit(handler[h])
    /\ LET x == handler[h]
       IN  /\ txn' = [txn EXCEPT ![x.key] =
                 [status |-> CommittedStatus(x), body |-> x.body, tier |-> x.tier,
                  window |-> "day", direct |-> ~x.held,
                  completed |-> CommittedStatus(x) = "COMPLETED",
                  enqueued |-> CommittedStatus(x) = "PROCESSING", readers |-> 0]]
           /\ handler' = [g \in Handlers |->
                 IF g = h THEN [pc |-> "answering", key |-> x.key, body |-> x.body]
                 ELSE IF Open(handler[g])
                 THEN [handler[g] EXCEPT !.stale = @ \cup Shares(handler[g], x)]
                 ELSE handler[g]]
    /\ UNCHANGED <<kycVars, idem>>

\* storeIdempotentResponse.
Store(h) ==
    /\ handler[h].pc = "answering"
    /\ idem' = [idem EXCEPT ![handler[h].key].answered = TRUE]
    /\ handler' = [handler EXCEPT ![h] = Idle]
    /\ UNCHANGED <<kycVars, txn>>

\* A check fails, the commit is refused, the client is gone, the process
\* stops: the request ends and what it has committed stays.
Drop(h) ==
    /\ handler[h] # Idle
    /\ handler' = [handler EXCEPT ![h] = Idle]
    /\ UNCHANGED <<kycVars, idem, txn>>

-----------------------------------------------------------------------------
(***************************************************************************)
(* What happens to a transaction later.                                    *)
(***************************************************************************)
\* An admin finds the item of a held withdrawal PENDING, which it is as
\* long as nobody has decided; deciding a transfer changes no transaction.
ReadItem(k) ==
    /\ txn[k].status = "REQUIRES_APPROVAL"
    /\ Body[txn[k].body].kind = "withdrawal.initiate"
    /\ txn[k].readers < Admins
    /\ txn' = [txn EXCEPT ![k].readers = @ + 1]
    /\ UNCHANGED <<kycVars, idem, handler>>

\* The decision, on an item found by id: the status is set whatever it is by
\* now.  The fee and the amount of a quote for two currencies do not add up,
\* and the decision of its withdrawal throws (GiveUp).
Decide(k, status) ==
    /\ txn[k].readers > 0
    /\ Terms[txn[k].body].from = Terms[txn[k].body].to
    /\ txn' = [txn EXCEPT ![k].status = status,
                          ![k].enqueued = @ \/ status = "PROCESSING",
                          ![k].readers = @ - 1]
    /\ UNCHANGED <<kycVars, idem, handler>>

GiveUp(k) ==
    /\ txn[k].readers > 0
    /\ txn' = [txn EXCEPT ![k].readers = @ - 1]
    /\ UNCHANGED <<kycVars, idem, handler>>

\* The payout dispatcher, once for each time the job is run, and a report of
\* the provider: each writes over whatever the other, or an admin, has
\* written.  Payouts has when they run.
Dispatch(k) ==
    /\ txn[k].enqueued
    /\ txn' = [txn EXCEPT ![k].status = "PROCESSING"]
    /\ UNCHANGED <<kycVars, idem, handler>>

Report(k, status) ==
    /\ txn[k].enqueued
    /\ txn' = [txn EXCEPT ![k].status = status,
                          ![k].direct = @ /\ status # "FAILED",
                          ![k].completed = @ \/ status = "COMPLETED"]
    /\ UNCHANGED <<kycVars, idem, handler>>

\* createdAt falls out of the last 24 hours, then of the last 30 days.
Age(k) ==
    /\ txn[k].status # "NONE"
    /\ txn[k].window \notin {Oldest, "old"}
    /\ txn' = [txn EXCEPT ![k].window = IF @ = "day" THEN "month" ELSE "old"]
    /\ UNCHANGED <<kycVars, idem, handler>>

Next ==
    \/ \E h \in Handlers :
          \/ \E k \in Keys, b \in Bodies : Receive(h, k, b) \/ Refuse(h, k, b)
          \/ Claim(h) \/ FindReplay(h) \/ ReadTier(h) \/ Begin(h)
          \/ CheckLimits(h) \/ Judge(h) \/ Commit(h) \/ Store(h) \/ Drop(h)
    \/ \E k \in Keys :
          \/ ReadItem(k) \/ GiveUp(k) \/ Dispatch(k)
          \/ \E status \in {"PROCESSING", "CANCELLED"} : Decide(k, status)
          \/ \E status \in {"COMPLETED", "FAILED"} : Report(k, status)
          \/ Age(k)
    \/ KycNext /\ UNCHANGED requestVars

Spec == Init /\ [][Next]_vars

-----------------------------------------------------------------------------
(***************************************************************************)
(* A key stands for one body: whatever the order in which requests with it *)
(* arrive, fail and are sent again, the transaction made under the key is  *)
(* of the JSON the middleware has on record, and every request past the    *)
(* middleware carries that JSON.  The route is not bound.                  *)
(***************************************************************************)
KeyBindsBody ==
    /\ \A k \in Made : Body[txn[k].body].json = idem[k].json
    /\ \A h \in Handlers :
          handler[h].pc \notin {"idle", "new"} =>
              Body[handler[h].body].json = idem[handler[h].key].json

(***************************************************************************)
(* What a wallet has spent in 24 hours, or in 30 days, stays within the    *)
(* limit of the highest tier its requests were checked with, although the  *)
(* limits are read outside the transaction: two that overlap meet on the   *)
(* wallet row.  Only what has counted all along is bounded: not a          *)
(* withdrawal that was held and approved, nor one reported failed and then *)
(* completed.  Requests from two wallets of a user do not meet.            *)
(***************************************************************************)
WalletStaysWithinLimit ==
    \A b \in Bodies :
        LET spent(windows) ==
                {k \in Counted(windows) :
                    /\ txn[k].direct
                    /\ UserOf(k) = Body[b].user
                    /\ Terms[txn[k].body].from = Terms[b].from}
            bounded(S, limit) == \E k \in S : Usd(S) <= limit[txn[k].tier + 1]
        IN  /\ spent({"day"}) # {} => bounded(spent({"day"}), DailyUsd)
            /\ spent({"day", "month"}) # {} =>
                  bounded(spent({"day", "month"}), MonthlyUsd)

(***************************************************************************)
(* No money moves without an officer's approval: for each transaction      *)
(* there is a record of its user, for a tier that allows it, that was      *)
(* approved, unless the user had such a tier from the start.  The approval *)
(* may have been taken back since.                                         *)
(***************************************************************************)
MovesFollowReview ==
    \A k \in Made :
        \/ StartTier[UserOf(k)] >= MinTier(txn[k].body)
        \/ \E r \in Records :
              /\ Applicant[r] = UserOf(k)
              /\ Target[r] >= MinTier(txn[k].body)
              /\ record[r].approved

(***************************************************************************)
(* A first transaction of 1000 USD or more never moves money by itself,    *)
(* with or without a device fingerprint: one that did had another of the   *)
(* user COMPLETED before it, although the count of those is read outside   *)
(* the transaction and a COMPLETED status may be overwritten afterwards.   *)
(***************************************************************************)
LargeFirstIsHeld ==
    \A k \in Made :
        txn[k].direct /\ UsdOf[txn[k].body] >= 1000 =>
            \E j \in Made \ {k} :
                /\ UserOf(j) = UserOf(k)
                /\ txn[j].completed

(***************************************************************************)
(* The fraud rules add up: for a request about to be judged, whatever the  *)
(* rules may find, more of it never makes the verdict milder, nor does a   *)
(* larger amount, and a blacklisted address is always a BLOCK.             *)
(***************************************************************************)
Erratic ==
    {b \in Bodies : \E blacklisted \in BOOLEAN, f \in NearThresholds :
        ~IsMonotoneAt(Event(b, blacklisted), f)}

VerdictIsMonotone ==
    \A h \in Handlers :
        handler[h].pc = "limited" => handler[h].body \notin Erratic

(***************************************************************************)
(* The limits count neither too little nor too much, whatever rows the     *)
(* feed has for the two currencies (direct, inverse, or both by way of     *)
(* USD) and whichever side the user asked for: what a request counts for   *)
(* is at least the value of what arrives, and at most the value of what is *)
(* taken.  Rates are those of the quote: no row is added in between.       *)
(***************************************************************************)
MisCounted ==
    {b \in Bodies :
        ~ /\ AtMost(Times(Terms[b].receive, Value[Terms[b].to]), UsdAmount[b])
          /\ AtMost(UsdAmount[b], Times(Terms[b].amount, Value[Terms[b].from]))}

CountedIsFair ==
    \A h \in Handlers : handler[h].pc = "open" => handler[h].body \notin MisCounted
=============================================================================
