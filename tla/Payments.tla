------------------------------ MODULE Payments ------------------------------
(***************************************************************************)
(* The money-moving core: TransferService, WithdrawalService, QuoteService *)
(* .consume, LedgerService.post and the admin routes that decide a held    *)
(* withdrawal or suspend a user.  Several API processes serve requests     *)
(* against one PostgreSQL database.                                        *)
(*                                                                         *)
(* A request runs in three steps, because the code reads at three times:   *)
(*   Check  - the reads made on this.db before the transaction opens;      *)
(*   Enter  - BEGIN ISOLATION LEVEL SERIALIZABLE: every read of the        *)
(*            transaction sees the database as of this moment;             *)
(*   one of the commits - the writes become visible, all or none, and only *)
(*            if no row the transaction writes was written by another one  *)
(*            since its snapshot ("could not serialize access").           *)
(* Rows whose conflicts matter are quotes and wallets: LedgerService.post  *)
(* updates the wallet row of every wallet it touches, so two postings that *)
(* touch one wallet always meet on that row.                               *)
(*                                                                         *)
(* An idempotency key stands for one request: Order[k].  The middleware    *)
(* refuses a key that comes back with another JSON (it does not compare    *)
(* the route; a client is taken not to reuse a key on the other one), and  *)
(* the unique column Transaction.idempotencyKey makes the key the          *)
(* transaction's name.                                                     *)
(***************************************************************************)
EXTENDS Integers, FiniteSets, Functions

CONSTANTS
    Users, Currencies, Quotes,
    Keys,        \* idempotency keys, hence transactions
    Handlers,    \* concurrent executions of a transfer or withdrawal
    Deciders,    \* concurrent executions of POST /admin/approvals/decide
    Tier,        \* KYC tier of a user, 0..3
    Order,       \* the request sent under a key
    Terms,       \* the prices and the owner a quote was created with
    AutoApprove, \* WITHDRAWAL_AUTO_APPROVE_USD
    System,      \* the system ledger accounts that were seeded
    Opening,     \* credits minus debits of each account at the start
    Opened       \* the wallets that exist at the start

SystemKinds == {"SUSPENSE", "EXTERNAL_RAIL", "SYSTEM_FEE"}

\* Wallet rows, unique per user and currency, and the ledger accounts.
Wallets  == Users \X Currencies
Accounts == Wallets \cup System

Memos == {"p2p", "send", "reserve", "approve", "reject"}

OrderType == [kind : {"transfer", "withdrawal"}, user : Users, to : Users,
              quote : Quotes]
TermsType == [user : Users, from : Currencies, to : Currencies,
              amount : Nat, fee : Nat, receive : Nat, usd : Nat]

(***************************************************************************)
(* QuoteService.create refuses an amount below its fee, and a spread is    *)
(* never negative, so in one currency what is received is at most what is  *)
(* left after the fee.                                                     *)
(***************************************************************************)
ASSUME ConstantsAssumption ==
    /\ Users \cap SystemKinds = {}
    /\ System \subseteq SystemKinds \X Currencies
    /\ Tier \in [Users -> 0..3]
    /\ Order \in [Keys -> OrderType]
    /\ Terms \in [Quotes -> TermsType]
    /\ \A q \in Quotes :
          /\ Terms[q].fee <= Terms[q].amount
          /\ Terms[q].from = Terms[q].to =>
                Terms[q].receive <= Terms[q].amount - Terms[q].fee
    /\ AutoApprove \in Nat
    /\ Opened \subseteq Wallets
    /\ Opening \in [Accounts -> Int]
    /\ \A w \in Wallets : Opening[w] >= 0

\* A table has finitely many rows, and the books are sums over them; there
\* are finitely many admins.
ASSUME FinitelyManyRows ==
    /\ IsFiniteSet(Users) /\ IsFiniteSet(Currencies) /\ IsFiniteSet(Keys)
    /\ IsFiniteSet(Deciders)

VARIABLES
    balance,      \* per account: sum of its credits minus its debits
    postings,     \* per transaction and memo: postings made
    walletStatus, \* Wallet.status, "NONE" while there is no row
    userStatus,   \* User.status
    quote,        \* PaymentQuote.status; LAPSED is ACTIVE past expiresAt
    status,       \* Transaction.status, "NONE" while there is no row
    item,         \* ApprovalQueueItem.status of the transaction
    outbox,       \* OutboxMessage rows written for the transaction
    handler,      \* executions of sendInternal and executeWithdrawal
    decider       \* executions of the decide route

ledgerVars == <<balance, postings>>
vars == <<balance, postings, walletStatus, userStatus, quote, status, item,
          outbox, handler, decider>>

Rows == Quotes \cup Wallets

Idle       == [pc |-> "idle"]
Checked(k) == [pc |-> "checked", key |-> k]
Entered(k, review, writes) ==
    [pc |-> "entered", key |-> k, review |-> review, writes |-> writes,
     doomed |-> FALSE]
HandlerType ==
    {Idle} \cup {Checked(k) : k \in Keys} \cup
    [pc : {"entered"}, key : Keys, review : BOOLEAN, writes : SUBSET Rows,
     doomed : BOOLEAN]
Holding(k, decision) == [pc |-> "read", key |-> k, decision |-> decision]
DeciderType ==
    {Idle} \cup [pc : {"read"}, key : Keys, decision : {"APPROVED", "REJECTED"}]

TypeOK ==
    /\ balance \in [Accounts -> Int]
    /\ postings \in [Keys -> [Memos -> Nat]]
    /\ walletStatus \in [Wallets -> {"NONE", "ACTIVE", "FROZEN"}]
    /\ userStatus \in [Users -> {"ACTIVE", "SUSPENDED"}]
    /\ quote \in [Quotes -> {"NONE", "ACTIVE", "LAPSED", "CONSUMED"}]
    /\ status \in [Keys -> {"NONE", "REQUIRES_APPROVAL", "PROCESSING",
                            "COMPLETED", "CANCELLED"}]
    /\ item \in [Keys -> {"NONE", "PENDING", "APPROVED", "REJECTED"}]
    /\ outbox \in [Keys -> Nat]
    /\ handler \in [Handlers -> HandlerType]
    /\ decider \in [Deciders -> DeciderType]

Init ==
    /\ balance = Opening
    /\ postings = [k \in Keys |-> [m \in Memos |-> 0]]
    /\ walletStatus = [w \in Wallets |-> IF w \in Opened THEN "ACTIVE" ELSE "NONE"]
    /\ userStatus = [u \in Users |-> "ACTIVE"]
    /\ quote = [q \in Quotes |-> "NONE"]
    /\ status = [k \in Keys |-> "NONE"]
    /\ item = [k \in Keys |-> "NONE"]
    /\ outbox = [k \in Keys |-> 0]
    /\ handler = [h \in Handlers |-> Idle]
    /\ decider = [d \in Deciders |-> Idle]

-----------------------------------------------------------------------------
(***************************************************************************)
(* What a request asks for.                                                *)
(***************************************************************************)
TermsOf(k)  == Terms[Order[k].quote]
Currency(k) == TermsOf(k).from
Source(k)   == <<Order[k].user, Currency(k)>>
Target(k)   == <<Order[k].to, Currency(k)>>
IsTransfer(k) == Order[k].kind = "transfer"

SystemAccount(kind, k) == <<kind, Currency(k)>>

\* The quote's fromAmount includes the fee; a transfer takes net plus fee.
Debit(k) ==
    IF IsTransfer(k) THEN TermsOf(k).receive + TermsOf(k).fee ELSE TermsOf(k).amount

\* The decide route adds the transaction's amount, toAmount of the quote,
\* to the fee: what it releases, whatever was reserved.
Release(k) == TermsOf(k).fee + TermsOf(k).receive

MinTier(k) == IF IsTransfer(k) THEN 1 ELSE 2

\* Wallet rows the transaction writes.  A transfer under review posts
\* nothing, but ensureWallet has run by then.
WalletsWritten(k, review) ==
    IF ~IsTransfer(k) THEN {Source(k)}
    ELSE IF ~review THEN {Source(k), Target(k)}
    ELSE {w \in {Target(k)} : walletStatus[w] = "NONE"}

QuoteLeftUnwritten(k) == {}
QuoteWritten(k) == {Order[k].quote}

WriteSet(k, review) == QuoteWritten(k) \cup WalletsWritten(k, review)

\* An open transaction that writes one of the rows another one committed
\* can no longer commit: first updater wins.
DisturbReadCommitted(x, rows) == x

Disturb(x, rows) ==
    IF x.pc = "entered" /\ x.writes \cap rows # {}
    THEN [x EXCEPT !.doomed = TRUE]
    ELSE x

\* LedgerService.post: the legs, and one more posting of the transaction.
\* Each call passes a fresh random transferId, so the guard of post against
\* a transferId already posted rejects none of them.
Post(k, memo, after) ==
    /\ balance' = after
    /\ postings' = [postings EXCEPT ![k][memo] = @ + 1]

TransferLegs(k) ==
    [balance EXCEPT ![Source(k)] = @ - Debit(k),
                    ![Target(k)] = @ + TermsOf(k).receive,
                    ![SystemAccount("SYSTEM_FEE", k)] = @ + TermsOf(k).fee]

RailShareWithFee(k) == TermsOf(k).amount
RailShare(k) == TermsOf(k).amount - TermsOf(k).fee

SendLegs(k) ==
    [balance EXCEPT ![Source(k)] = @ - Debit(k),
                    ![SystemAccount("EXTERNAL_RAIL", k)] = @ + RailShare(k),
                    ![SystemAccount("SYSTEM_FEE", k)] = @ + TermsOf(k).fee]

\* The fee is not reserved.
ReserveLegsNet(k) ==
    [balance EXCEPT ![Source(k)] = @ - RailShare(k),
                    ![SystemAccount("SUSPENSE", k)] = @ + RailShare(k)]

ReserveLegs(k) ==
    [balance EXCEPT ![Source(k)] = @ - Debit(k),
                    ![SystemAccount("SUSPENSE", k)] = @ + Debit(k)]

ApproveLegs(k) ==
    [balance EXCEPT ![SystemAccount("SUSPENSE", k)] = @ - Release(k),
                    ![SystemAccount("EXTERNAL_RAIL", k)] = @ + TermsOf(k).receive,
                    ![SystemAccount("SYSTEM_FEE", k)] = @ + TermsOf(k).fee]

RejectLegs(k) ==
    [balance EXCEPT ![SystemAccount("SUSPENSE", k)] = @ - Release(k),
                    ![Source(k)] = @ + Release(k)]

SystemAccounts(kinds, k) == {SystemAccount(kind, k) : kind \in kinds}

Enqueued(k) == [outbox EXCEPT ![k] = @ + 1]

-----------------------------------------------------------------------------
(***************************************************************************)
(* Quotes.                                                                 *)
(***************************************************************************)
CreateQuote(q) ==
    /\ quote[q] = "NONE"
    /\ quote' = [quote EXCEPT ![q] = "ACTIVE"]
    /\ UNCHANGED <<ledgerVars, walletStatus, userStatus, status, item, outbox,
                   handler, decider>>

\* Time passes expiresAt.  No row changes: consume sets EXPIRED and throws,
\* which rolls the update back.
Lapse(q) ==
    /\ quote[q] = "ACTIVE"
    /\ quote' = [quote EXCEPT ![q] = "LAPSED"]
    /\ UNCHANGED <<ledgerVars, walletStatus, userStatus, status, item, outbox,
                   handler, decider>>

(***************************************************************************)
(* Requests.                                                               *)
(***************************************************************************)
\* A replayed key answers with the transaction it made.
Replay(h, k) ==
    /\ handler[h] = Idle
    /\ status[k] # "NONE"
    /\ UNCHANGED vars

Check(h, k) ==
    /\ handler[h] = Idle
    /\ status[k] = "NONE"
    /\ userStatus[Order[k].user] = "ACTIVE"
    /\ Tier[Order[k].user] >= MinTier(k)
    /\ IsTransfer(k) =>
          /\ Order[k].user # Order[k].to
          /\ userStatus[Order[k].to] # "SUSPENDED"
    /\ handler' = [handler EXCEPT ![h] = Checked(k)]
    /\ UNCHANGED <<ledgerVars, walletStatus, userStatus, quote, status, item,
                   outbox, decider>>

\* Everything the transaction reads and tests, in its snapshot: the quote,
\* the wallet, the funds, then the limits and the fraud verdict, which is
\* any (BLOCK is an Abort).
Enter(h) ==
    /\ handler[h].pc = "checked"
    /\ LET k == handler[h].key
       IN  /\ quote[Order[k].quote] = "ACTIVE"
           /\ TermsOf(k).user = Order[k].user
           /\ IsTransfer(k) => TermsOf(k).from = TermsOf(k).to
           /\ walletStatus[Source(k)] = "ACTIVE"
           /\ balance[Source(k)] >= Debit(k)
           /\ \E review \in BOOLEAN :
                 /\ ~IsTransfer(k) /\ TermsOf(k).usd >= AutoApprove => review
                 /\ handler' = [handler EXCEPT ![h] =
                                   Entered(k, review, WriteSet(k, review))]
    /\ UNCHANGED <<ledgerVars, walletStatus, userStatus, quote, status, item,
                   outbox, decider>>

\* Neither the write conflict on the quote nor the unique key is enforced.
MayCommitUnchecked(h) == handler[h].pc = "entered"

\* COMMIT is possible: no conflict, and the key's row does not exist yet.
MayCommit(h) ==
    /\ handler[h].pc = "entered"
    /\ ~handler[h].doomed
    /\ status[handler[h].key] = "NONE"

\* What every commit does besides its own writes: the quote is consumed,
\* the request answered, and open transactions that conflict are doomed.
Commit(h) ==
    /\ quote' = [quote EXCEPT ![Order[handler[h].key].quote] = "CONSUMED"]
    /\ handler' = [g \in Handlers |->
                      IF g = h THEN Idle
                      ELSE Disturb(handler[g], handler[h].writes)]
    /\ UNCHANGED <<userStatus, decider>>

\* ensureWallet: the row is created with the default status.
EnsureWalletPending(w) ==
    walletStatus' = [walletStatus EXCEPT ![w] = IF @ = "NONE" THEN "PENDING" ELSE @]

EnsureWallet(w) ==
    walletStatus' = [walletStatus EXCEPT ![w] = IF @ = "NONE" THEN "ACTIVE" ELSE @]

SettleTransfer(h) ==
    LET k == handler[h].key
    IN  /\ MayCommit(h)
        /\ IsTransfer(k) /\ ~handler[h].review
        /\ SystemAccounts({"SYSTEM_FEE"}, k) \subseteq System
        /\ EnsureWallet(Target(k))
        /\ Post(k, "p2p", TransferLegs(k))
        /\ status' = [status EXCEPT ![k] = "COMPLETED"]
        /\ Commit(h)
        /\ UNCHANGED <<item, outbox>>

\* No money moves and nothing is reserved.
QueueTransfer(h) ==
    LET k == handler[h].key
    IN  /\ MayCommit(h)
        /\ IsTransfer(k) /\ handler[h].review
        /\ EnsureWallet(Target(k))
        /\ status' = [status EXCEPT ![k] = "REQUIRES_APPROVAL"]
        /\ item' = [item EXCEPT ![k] = "PENDING"]
        /\ Commit(h)
        /\ UNCHANGED <<ledgerVars, outbox>>

\* Auto-approved: the wallet pays the rail, and the payout is enqueued.
SendWithdrawal(h) ==
    LET k == handler[h].key
    IN  /\ MayCommit(h)
        /\ ~IsTransfer(k) /\ ~handler[h].review
        /\ SystemAccounts({"EXTERNAL_RAIL", "SYSTEM_FEE"}, k) \subseteq System
        /\ Post(k, "send", SendLegs(k))
        /\ status' = [status EXCEPT ![k] = "PROCESSING"]
        /\ outbox' = Enqueued(k)
        /\ Commit(h)
        /\ UNCHANGED <<walletStatus, item>>

\* Held for approval: the wallet pays SUSPENSE.
Reserve(h) ==
    LET k == handler[h].key
    IN  /\ MayCommit(h)
        /\ ~IsTransfer(k) /\ handler[h].review
        /\ SystemAccounts({"SUSPENSE"}, k) \subseteq System
        /\ Post(k, "reserve", ReserveLegs(k))
        /\ status' = [status EXCEPT ![k] = "REQUIRES_APPROVAL"]
        /\ item' = [item EXCEPT ![k] = "PENDING"]
        /\ Commit(h)
        /\ UNCHANGED walletStatus

ReserveAndDispatch(h) == Reserve(h) /\ outbox' = Enqueued(handler[h].key)

ReserveWithdrawal(h) == Reserve(h) /\ UNCHANGED outbox

\* Any throw, a serialization failure, a unique violation on the key, a
\* lost connection or a crash: the transaction rolls back.
Abort(h) ==
    /\ handler[h].pc # "idle"
    /\ handler' = [handler EXCEPT ![h] = Idle]
    /\ UNCHANGED <<ledgerVars, walletStatus, userStatus, quote, status, item,
                   outbox, decider>>

-----------------------------------------------------------------------------
(***************************************************************************)
(* The decide route.  The item is read, and found PENDING, before the      *)
(* transaction opens; inside it the item is updated by its id alone.  The  *)
(* transaction reads nothing else that can change, so BEGIN and COMMIT are *)
(* one step: of two that overlap, the second aborts on the item's row.     *)
(***************************************************************************)
ReadItem(d, k, decision) ==
    /\ decider[d] = Idle
    /\ item[k] = "PENDING"
    /\ decider' = [decider EXCEPT ![d] = Holding(k, decision)]
    /\ UNCHANGED <<ledgerVars, walletStatus, userStatus, quote, status, item,
                   outbox, handler>>

DecisionUnrecorded(d) == item

Decision(d) == [item EXCEPT ![decider[d].key] = decider[d].decision]

Decide(d, rows) ==
    /\ item' = Decision(d)
    /\ decider' = [decider EXCEPT ![d] = Idle]
    /\ handler' = [h \in Handlers |-> Disturb(handler[h], rows)]
    /\ UNCHANGED <<walletStatus, userStatus, quote>>

\* fee.add(net) throws unless both amounts are in one currency.
ApproveWithdrawal(d) ==
    LET k == decider[d].key
    IN  /\ decider[d].pc = "read" /\ decider[d].decision = "APPROVED"
        /\ ~IsTransfer(k)
        /\ TermsOf(k).from = TermsOf(k).to
        /\ SystemAccounts(SystemKinds, k) \subseteq System
        /\ Post(k, "approve", ApproveLegs(k))
        /\ status' = [status EXCEPT ![k] = "PROCESSING"]
        /\ outbox' = Enqueued(k)
        /\ Decide(d, {})

RejectWithdrawal(d) ==
    LET k == decider[d].key
    IN  /\ decider[d].pc = "read" /\ decider[d].decision = "REJECTED"
        /\ ~IsTransfer(k)
        /\ TermsOf(k).from = TermsOf(k).to
        /\ SystemAccounts({"SUSPENSE"}, k) \subseteq System
        /\ Post(k, "reject", RejectLegs(k))
        /\ status' = [status EXCEPT ![k] = "CANCELLED"]
        /\ Decide(d, {Source(k)})
        /\ UNCHANGED outbox

\* A decision on a transfer is recorded, and nothing else happens.
DecideTransfer(d) ==
    /\ decider[d].pc = "read" /\ IsTransfer(decider[d].key)
    /\ Decide(d, {})
    /\ UNCHANGED <<ledgerVars, status, outbox>>

DecideAborts(d) ==
    /\ decider[d].pc = "read"
    /\ decider' = [decider EXCEPT ![d] = Idle]
    /\ UNCHANGED <<ledgerVars, walletStatus, userStatus, quote, status, item,
                   outbox, handler>>

(***************************************************************************)
(* Suspending a user freezes the wallets that exist; creating a wallet is  *)
(* guarded by the access token only.  Both write wallet rows.              *)
(***************************************************************************)
WalletsOf(u) == {w \in Wallets : w[1] = u /\ walletStatus[w] # "NONE"}

Suspend(u) ==
    /\ userStatus' = [userStatus EXCEPT ![u] = "SUSPENDED"]
    /\ walletStatus' = [w \in Wallets |-> IF w \in WalletsOf(u) THEN "FROZEN"
                                                              ELSE walletStatus[w]]
    /\ handler' = [h \in Handlers |-> Disturb(handler[h], WalletsOf(u))]
    /\ UNCHANGED <<ledgerVars, quote, status, item, outbox, decider>>

OpenWallet(w) ==
    /\ walletStatus[w] = "NONE"
    /\ walletStatus' = [walletStatus EXCEPT ![w] = "ACTIVE"]
    /\ handler' = [h \in Handlers |-> Disturb(handler[h], {w})]
    /\ UNCHANGED <<ledgerVars, userStatus, quote, status, item, outbox, decider>>

HandlerStep(h) ==
    \/ \E k \in Keys : Replay(h, k) \/ Check(h, k)
    \/ Enter(h)
    \/ SettleTransfer(h)
    \/ QueueTransfer(h)
    \/ SendWithdrawal(h)
    \/ ReserveWithdrawal(h)
    \/ Abort(h)

DeciderStep(d) ==
    \/ \E k \in Keys, decision \in {"APPROVED", "REJECTED"} : ReadItem(d, k, decision)
    \/ ApproveWithdrawal(d)
    \/ RejectWithdrawal(d)
    \/ DecideTransfer(d)
    \/ DecideAborts(d)

Next ==
    \/ \E q \in Quotes : CreateQuote(q) \/ Lapse(q)
    \/ \E h \in Handlers : HandlerStep(h)
    \/ \E d \in Deciders : DeciderStep(d)
    \/ \E u \in Users : Suspend(u)
    \/ \E w \in Wallets : OpenWallet(w)

Spec == Init /\ [][Next]_vars

-----------------------------------------------------------------------------
(***************************************************************************)
(* Properties.                                                             *)
(***************************************************************************)
\* No user wallet is ever overdrawn, however requests on it interleave.
\* assertWalletHasFunds reads the balance in the snapshot and the debit is
\* committed later: what stands between is the conflict on the wallet row.
NoOverdraft == \A w \in Wallets : balance[w] >= 0

AccountsIn(c) == {a \in Accounts : a[2] = c}

\* The books balance in each currency after every step (assertBooksBalance
\* of reconciliation.ts), over both ways a withdrawal is booked.
BooksBalance ==
    \A c \in Currencies :
        SumFunctionOnSet(balance, AccountsIn(c)) =
        SumFunctionOnSet(Opening, AccountsIn(c))

\* A quote pays for one transaction: two keys that race with one quote
\* cannot both get a Transaction row, even when neither touches a wallet
\* (transfers under review), and a used quote is CONSUMED.
QuoteSpentOnce ==
    /\ \A j, k \in Keys :
          j # k /\ status[j] # "NONE" /\ status[k] # "NONE" =>
              Order[j].quote # Order[k].quote
    /\ \A k \in Keys : status[k] # "NONE" => quote[Order[k].quote] = "CONSUMED"

Debits(k) == postings[k]["p2p"] + postings[k]["send"] + postings[k]["reserve"]

\* A key takes money from its sender's wallet once and no more, whatever
\* retries overlap: once when its transaction exists, unless it is a
\* transfer under review or decided upon, which takes nothing.
DebitedOnce ==
    \A k \in Keys :
        Debits(k) = IF status[k] = "NONE" \/ (IsTransfer(k) /\ item[k] # "NONE")
                    THEN 0 ELSE 1

\* While a withdrawal waits in the queue its money is in SUSPENSE: reserved
\* once, not released, not enqueued for payout, even if several admins have
\* read the item.
PendingIsReserved ==
    \A k \in Keys :
        item[k] = "PENDING" /\ ~IsTransfer(k) =>
            /\ status[k] = "REQUIRES_APPROVAL"
            /\ postings[k]["reserve"] = 1
            /\ postings[k]["approve"] = 0 /\ postings[k]["reject"] = 0
            /\ outbox[k] = 0

\* A payout is enqueued only together with the posting that pays the rail
\* for it, in both the automatic path and the approval path.
DispatchIsFunded ==
    \A k \in Keys : outbox[k] = postings[k]["send"] + postings[k]["approve"]

\* A frozen wallet is never debited: a request that saw it ACTIVE before the
\* suspension committed cannot commit after it.
FrozenKeepsFunds ==
    [][\A w \in Wallets : walletStatus[w] = "FROZEN" => balance'[w] >= balance[w]]_vars

-----------------------------------------------------------------------------
(***************************************************************************)
(* What the documentation says and the code does not do.                   *)
(***************************************************************************)
\* One payout job per withdrawal ("Every money-moving POST is idempotent").
PaidOutOnce == \A k \in Keys : outbox[k] <= 1

\* "on approval, suspense -> external rail; on rejection, suspense ->
\* wallet": a decision takes out of SUSPENSE what was reserved.
DecisionEmptiesSuspense ==
    \A k \in Keys :
        postings[k]["approve"] + postings[k]["reject"] = 1 =>
            Release(k) = Debit(k) * postings[k]["reserve"]

\* "No money moves until approved": once approved, it has moved.
ApprovalMovesMoney ==
    \A k \in Keys : item[k] = "APPROVED" => Debits(k) = 1
=============================================================================
