--------------------------- MODULE PaymentsProofs ---------------------------
(***************************************************************************)
(* Theorems about Payments, for every value of its constants that meets    *)
(* ConstantsAssumption: any number of users, wallets, quotes, keys, API    *)
(* processes and admins.                                                   *)
(***************************************************************************)
EXTENDS Payments, SumProofs

-----------------------------------------------------------------------------
(***************************************************************************)
(* The inductive invariant.  InFlight is the reason the checks made in a   *)
(* snapshot still hold at commit: while no conflicting row was written,    *)
(* what the transaction read of its quote and of the wallet it debits is   *)
(* still so.  Untouched and Held relate rows that one transaction writes   *)
(* together.                                                               *)
(***************************************************************************)
SnapshotHolds(h) ==
    LET k == handler[h].key
    IN  /\ quote[Order[k].quote] \in {"ACTIVE", "LAPSED"}
        /\ Source(k) \in handler[h].writes =>
              walletStatus[Source(k)] = "ACTIVE" /\ balance[Source(k)] >= Debit(k)

FlightOK(h) ==
    handler[h].pc = "entered" =>
        /\ Order[handler[h].key].quote \in handler[h].writes
        /\ ~IsTransfer(handler[h].key) \/ ~handler[h].review =>
              Source(handler[h].key) \in handler[h].writes
        /\ ~handler[h].doomed => SnapshotHolds(h)

InFlight == \A h \in Handlers : FlightOK(h)

Untouched ==
    \A k \in Keys :
        status[k] = "NONE" =>
            /\ item[k] = "NONE"
            /\ outbox[k] = 0
            /\ \A m \in Memos : postings[k][m] = 0

Held ==
    \A d \in Deciders : decider[d].pc = "read" => item[decider[d].key] # "NONE"

\* What relates the rows of one transaction to each other.
Bookkeeping ==
    /\ Untouched /\ Held /\ DebitedOnce /\ PendingIsReserved /\ DispatchIsFunded

IInv == TypeOK /\ InFlight /\ NoOverdraft /\ QuoteSpentOnce /\ Bookkeeping

-----------------------------------------------------------------------------
(***************************************************************************)
(* Lemmas on the constants and on the operators.                           *)
(***************************************************************************)
\* What a request names exists, and its amounts are not negative.
LEMMA RequestFacts ==
    ASSUME NEW k \in Keys
    PROVE  /\ Order[k].quote \in Quotes
           /\ Source(k) \in Wallets /\ Target(k) \in Wallets
           /\ Debit(k) \in Nat /\ Release(k) \in Nat
           /\ RailShare(k) \in Int
           /\ TermsOf(k).fee \in Nat /\ TermsOf(k).receive \in Nat
           /\ IsTransfer(k) \in BOOLEAN
<1>1. Order[k] \in OrderType
  BY ConstantsAssumption
<1>2. Order[k].quote \in Quotes /\ Order[k].user \in Users /\ Order[k].to \in Users
  BY <1>1 DEF OrderType
<1>3. TermsOf(k) \in TermsType
  BY <1>2, ConstantsAssumption DEF TermsOf
<1>4. QED
  BY <1>2, <1>3 DEF TermsType, Source, Target, Currency, Wallets, Debit, Release,
     RailShare, IsTransfer

\* A user's wallet is never a system account.
LEMMA SystemIsNotWallet ==
    ASSUME NEW kind \in SystemKinds, NEW k \in Keys
    PROVE  SystemAccount(kind, k) \notin Wallets
BY ConstantsAssumption DEF SystemAccount, Wallets

\* The records a handler goes through.
LEMMA HandlerFacts ==
    ASSUME TypeOK, NEW h \in Handlers
    PROVE  /\ handler[h].pc \in {"idle", "checked", "entered"}
           /\ handler[h].pc = "idle" => handler[h] = Idle
           /\ handler[h].pc # "idle" => handler[h].key \in Keys
           /\ handler[h].pc = "entered" =>
                 /\ handler[h].review \in BOOLEAN /\ handler[h].doomed \in BOOLEAN
                 /\ handler[h].writes \subseteq Rows
BY DEF TypeOK, HandlerType, Idle, Checked

\* The records a decider goes through.
LEMMA DeciderFacts ==
    ASSUME TypeOK, NEW d \in Deciders, decider[d].pc = "read"
    PROVE  decider[d].key \in Keys /\ decider[d].decision \in {"APPROVED", "REJECTED"}
BY DEF TypeOK, DeciderType, Idle

\* Disturb changes nothing but the doomed flag, and leaves a transaction
\* free to commit only if none of its rows was written.
LEMMA DisturbFacts ==
    ASSUME NEW x \in HandlerType, NEW rows
    PROVE  /\ Disturb(x, rows) \in HandlerType
           /\ Disturb(x, rows).pc = x.pc
           /\ x.pc # "entered" => Disturb(x, rows) = x
           /\ x.pc = "entered" =>
                 /\ Disturb(x, rows).key = x.key
                 /\ Disturb(x, rows).review = x.review
                 /\ Disturb(x, rows).writes = x.writes
                 /\ ~Disturb(x, rows).doomed => ~x.doomed /\ x.writes \cap rows = {}
<1>1. CASE x.pc = "entered" /\ x.writes \cap rows # {}
  <2>1. x \in [pc : {"entered"}, key : Keys, review : BOOLEAN, writes : SUBSET Rows,
              doomed : BOOLEAN]
    BY <1>1 DEF HandlerType, Idle, Checked
  <2>2. Disturb(x, rows) = [x EXCEPT !.doomed = TRUE]
    BY <1>1 DEF Disturb
  <2>3. Disturb(x, rows) \in HandlerType
    BY <2>1, <2>2 DEF HandlerType
  <2>4. /\ Disturb(x, rows).pc = x.pc
        /\ Disturb(x, rows).key = x.key
        /\ Disturb(x, rows).review = x.review
        /\ Disturb(x, rows).writes = x.writes
        /\ Disturb(x, rows).doomed
    BY <2>1, <2>2
  <2>5. QED
    BY <1>1, <2>3, <2>4
<1>2. CASE ~(x.pc = "entered" /\ x.writes \cap rows # {})
  <2>1. Disturb(x, rows) = x
    BY <1>2 DEF Disturb
  <2>2. QED
    BY <1>2, <2>1
<1>3. QED
  BY <1>1, <1>2

\* The legs of each posting: which wallet pays, how much, and that no other
\* wallet loses anything.
LEMMA LegFacts ==
    ASSUME TypeOK, NEW k \in Keys
    PROVE  /\ SystemAccounts({"SYSTEM_FEE"}, k) \subseteq System =>
                 /\ TransferLegs(k) \in [Accounts -> Int]
                 /\ \A w \in Wallets \ {Source(k)} : TransferLegs(k)[w] >= balance[w]
                 /\ TransferLegs(k)[Source(k)] >= balance[Source(k)] - Debit(k)
           /\ SystemAccounts({"EXTERNAL_RAIL", "SYSTEM_FEE"}, k) \subseteq System =>
                 /\ SendLegs(k) \in [Accounts -> Int]
                 /\ \A w \in Wallets \ {Source(k)} : SendLegs(k)[w] >= balance[w]
                 /\ SendLegs(k)[Source(k)] >= balance[Source(k)] - Debit(k)
           /\ SystemAccounts({"SUSPENSE"}, k) \subseteq System =>
                 /\ ReserveLegs(k) \in [Accounts -> Int]
                 /\ \A w \in Wallets \ {Source(k)} : ReserveLegs(k)[w] >= balance[w]
                 /\ ReserveLegs(k)[Source(k)] >= balance[Source(k)] - Debit(k)
                 /\ RejectLegs(k) \in [Accounts -> Int]
                 /\ \A w \in Wallets : RejectLegs(k)[w] >= balance[w]
           /\ SystemAccounts(SystemKinds, k) \subseteq System =>
                 /\ ApproveLegs(k) \in [Accounts -> Int]
                 /\ \A w \in Wallets : ApproveLegs(k)[w] >= balance[w]
<1> DEFINE fee == SystemAccount("SYSTEM_FEE", k)
           rail == SystemAccount("EXTERNAL_RAIL", k)
           suspense == SystemAccount("SUSPENSE", k)
<1>1. fee \notin Wallets /\ rail \notin Wallets /\ suspense \notin Wallets
  BY SystemIsNotWallet DEF SystemKinds
<1>2. balance \in [Accounts -> Int] /\ Wallets \subseteq Accounts /\ System \subseteq Accounts
  BY DEF TypeOK, Accounts
<1>3. /\ fee # rail /\ fee # suspense /\ rail # suspense
  BY DEF SystemAccount
<1>a. /\ SystemAccounts({"SYSTEM_FEE"}, k) = {fee}
      /\ SystemAccounts({"EXTERNAL_RAIL", "SYSTEM_FEE"}, k) = {rail, fee}
      /\ SystemAccounts({"SUSPENSE"}, k) = {suspense}
      /\ SystemAccounts(SystemKinds, k) = {suspense, rail, fee}
  BY DEF SystemAccounts, SystemKinds
<1> HIDE DEF fee, rail, suspense
<1>4. ASSUME fee \in System
      PROVE  /\ TransferLegs(k) \in [Accounts -> Int]
             /\ \A w \in Wallets \ {Source(k)} : TransferLegs(k)[w] >= balance[w]
             /\ TransferLegs(k)[Source(k)] >= balance[Source(k)] - Debit(k)
  BY <1>1, <1>2, <1>4, RequestFacts DEF TransferLegs, fee
<1>5. ASSUME rail \in System, fee \in System
      PROVE  /\ SendLegs(k) \in [Accounts -> Int]
             /\ \A w \in Wallets \ {Source(k)} : SendLegs(k)[w] >= balance[w]
             /\ SendLegs(k)[Source(k)] >= balance[Source(k)] - Debit(k)
  BY <1>1, <1>2, <1>3, <1>5, RequestFacts DEF SendLegs, fee, rail
<1>6. ASSUME suspense \in System
      PROVE  /\ ReserveLegs(k) \in [Accounts -> Int]
             /\ \A w \in Wallets \ {Source(k)} : ReserveLegs(k)[w] >= balance[w]
             /\ ReserveLegs(k)[Source(k)] >= balance[Source(k)] - Debit(k)
             /\ RejectLegs(k) \in [Accounts -> Int]
             /\ \A w \in Wallets : RejectLegs(k)[w] >= balance[w]
  BY <1>1, <1>2, <1>6, RequestFacts DEF ReserveLegs, RejectLegs, suspense
<1>7. ASSUME suspense \in System, rail \in System, fee \in System
      PROVE  /\ ApproveLegs(k) \in [Accounts -> Int]
             /\ \A w \in Wallets : ApproveLegs(k)[w] >= balance[w]
  BY <1>1, <1>2, <1>3, <1>7, RequestFacts DEF ApproveLegs, fee, rail, suspense
<1>8. QED
  BY <1>a, <1>4, <1>5, <1>6, <1>7

-----------------------------------------------------------------------------
(***************************************************************************)
(* Transactions in flight.                                                 *)
(***************************************************************************)
\* A step that only disturbs an open transaction leaves its snapshot true
\* unless it dooms it, if outside the rows it writes no quote is spent, no
\* wallet loses money and no wallet stops being ACTIVE.
LEMMA StillInFlight ==
    ASSUME TypeOK, NEW h \in Handlers, FlightOK(h), NEW rows,
           handler'[h] = Disturb(handler[h], rows),
           \A q \in Quotes \ rows :
              quote[q] \in {"ACTIVE", "LAPSED"} => quote'[q] \in {"ACTIVE", "LAPSED"},
           \A w \in Wallets \ rows : balance'[w] >= balance[w],
           \A w \in Wallets \ rows :
              walletStatus[w] = "ACTIVE" => walletStatus'[w] = "ACTIVE",
           balance' \in [Accounts -> Int]
    PROVE  FlightOK(h)'
<1> SUFFICES ASSUME handler'[h].pc = "entered"
             PROVE  FlightOK(h)'
  BY DEF FlightOK
<1>1. handler[h] \in HandlerType
  BY DEF TypeOK
<1>2. /\ handler[h].pc = "entered"
      /\ handler'[h].key = handler[h].key
      /\ handler'[h].review = handler[h].review
      /\ handler'[h].writes = handler[h].writes
      /\ ~handler'[h].doomed => ~handler[h].doomed /\ handler[h].writes \cap rows = {}
  BY <1>1, DisturbFacts
<1> DEFINE k == handler[h].key
<1>3. k \in Keys
  BY <1>2, HandlerFacts
<1>4. Order[k].quote \in Quotes /\ Source(k) \in Wallets /\ Debit(k) \in Nat
  BY <1>3, RequestFacts
<1>5. ASSUME ~handler'[h].doomed
      PROVE  SnapshotHolds(h)'
  <2>1. SnapshotHolds(h) /\ Order[k].quote \notin rows
    BY <1>2, <1>5 DEF FlightOK
  <2>2. quote'[Order[k].quote] \in {"ACTIVE", "LAPSED"}
    BY <1>4, <2>1 DEF SnapshotHolds
  <2>3. ASSUME Source(k) \in handler[h].writes
        PROVE  walletStatus'[Source(k)] = "ACTIVE" /\ balance'[Source(k)] >= Debit(k)
    <3>1. Source(k) \notin rows
      BY <1>2, <1>5, <2>3
    <3>2. walletStatus[Source(k)] = "ACTIVE" /\ balance[Source(k)] >= Debit(k)
      BY <2>1, <2>3 DEF SnapshotHolds
    <3>3. balance[Source(k)] \in Int /\ balance'[Source(k)] \in Int
      BY <1>4 DEF TypeOK, Accounts
    <3>4. QED
      BY <1>4, <3>1, <3>2, <3>3
  <2>4. QED
    BY <1>2, <2>2, <2>3 DEF SnapshotHolds, Source, Debit, Currency, TermsOf, IsTransfer
<1>6. QED
  BY <1>2, <1>5 DEF FlightOK, Source, Currency, TermsOf, IsTransfer

-----------------------------------------------------------------------------
(***************************************************************************)
(* Commits of a transfer or a withdrawal.                                  *)
(***************************************************************************)
\* What holds of a transaction that may commit, and what Commit does.
LEMMA CommitFacts ==
    ASSUME TypeOK, InFlight, NEW h \in Handlers, MayCommit(h), Commit(h)
    PROVE  /\ handler[h].key \in Keys
           /\ status[handler[h].key] = "NONE"
           /\ handler[h].review \in BOOLEAN
           /\ Order[handler[h].key].quote \in handler[h].writes
           /\ ~IsTransfer(handler[h].key) \/ ~handler[h].review =>
                 Source(handler[h].key) \in handler[h].writes
           /\ SnapshotHolds(h)
           /\ handler' \in [Handlers -> HandlerType]
           /\ quote' \in [Quotes -> {"NONE", "ACTIVE", "LAPSED", "CONSUMED"}]
<1>1. handler[h].pc = "entered" /\ ~handler[h].doomed
  BY DEF MayCommit
<1>2. handler[h].key \in Keys /\ handler[h].review \in BOOLEAN
  BY <1>1, HandlerFacts
<1>3. FlightOK(h)
  BY DEF InFlight
<1>4. handler' \in [Handlers -> HandlerType]
  <2>1. \A g \in Handlers : Disturb(handler[g], handler[h].writes) \in HandlerType
    BY DisturbFacts DEF TypeOK
  <2>2. Idle \in HandlerType
    BY DEF HandlerType
  <2>3. QED
    BY <2>1, <2>2 DEF Commit
<1>5. quote' \in [Quotes -> {"NONE", "ACTIVE", "LAPSED", "CONSUMED"}]
  BY DEF Commit, TypeOK
<1>6. QED
  BY <1>1, <1>2, <1>3, <1>4, <1>5 DEF FlightOK, MayCommit

\* A commit leaves the other transactions in flight sound.
LEMMA CommitKeepsInFlight ==
    ASSUME TypeOK, InFlight, NEW h \in Handlers, MayCommit(h), Commit(h),
           balance' \in [Accounts -> Int],
           \A w \in Wallets \ handler[h].writes : balance'[w] >= balance[w],
           \A w \in Wallets : walletStatus[w] = "ACTIVE" => walletStatus'[w] = "ACTIVE"
    PROVE  InFlight'
<1> SUFFICES ASSUME NEW g \in Handlers
             PROVE  FlightOK(g)'
  BY DEF InFlight
<1>1. CASE g = h
  <2>1. handler'[h] = Idle
    BY DEF Commit
  <2>2. QED
    BY <1>1, <2>1 DEF FlightOK, Idle
<1>2. CASE g # h
  <2> DEFINE rows == handler[h].writes
  <2>1. handler'[g] = Disturb(handler[g], rows)
    BY <1>2 DEF Commit
  <2>2. \A q \in Quotes \ rows : quote'[q] = quote[q]
    <3>1. Order[handler[h].key].quote \in rows
      BY CommitFacts
    <3>2. QED
      BY <3>1 DEF Commit, TypeOK
  <2>3. FlightOK(g)
    BY DEF InFlight
  <2> HIDE DEF rows
  <2>4. QED
    BY <2>1, <2>2, <2>3, StillInFlight DEF rows
<1>3. QED
  BY <1>1, <1>2

\* The quote of a committing transaction was not spent before.
LEMMA CommitSpendsQuote ==
    ASSUME TypeOK, InFlight, QuoteSpentOnce, NEW h \in Handlers, MayCommit(h), Commit(h),
           NEW s, status' = [status EXCEPT ![handler[h].key] = s]
    PROVE  QuoteSpentOnce'
<1> DEFINE k == handler[h].key
<1>1. /\ k \in Keys
      /\ Order[k].quote \in Quotes
      /\ quote[Order[k].quote] # "CONSUMED"
  BY CommitFacts, RequestFacts DEF SnapshotHolds
<1>2. quote' = [quote EXCEPT ![Order[k].quote] = "CONSUMED"]
  BY DEF Commit
<1>3. \A j \in Keys : j # k => status'[j] = status[j]
  BY DEF TypeOK
<1> HIDE DEF k
<1>4. \A j \in Keys : j # k /\ status[j] # "NONE" => Order[j].quote # Order[k].quote
  BY <1>1 DEF QuoteSpentOnce
<1>5. \A j \in Keys : status'[j] # "NONE" => quote'[Order[j].quote] = "CONSUMED"
  BY <1>1, <1>2, <1>3, RequestFacts DEF QuoteSpentOnce, TypeOK
<1>6. QED
  BY <1>1, <1>3, <1>4, <1>5 DEF QuoteSpentOnce

\* The debit committed now was covered in the snapshot, hence is covered.
LEMMA CommitCoversDebit ==
    ASSUME TypeOK, InFlight, NoOverdraft, NEW h \in Handlers, MayCommit(h), Commit(h),
           ~IsTransfer(handler[h].key) \/ ~handler[h].review,
           balance' \in [Accounts -> Int],
           \A w \in Wallets \ {Source(handler[h].key)} : balance'[w] >= balance[w],
           balance'[Source(handler[h].key)] >=
              balance[Source(handler[h].key)] - Debit(handler[h].key)
    PROVE  /\ NoOverdraft'
           /\ \A w \in Wallets \ handler[h].writes : balance'[w] >= balance[w]
           /\ walletStatus[Source(handler[h].key)] = "ACTIVE"
<1> DEFINE k == handler[h].key
<1>1. /\ k \in Keys /\ Source(k) \in handler[h].writes
      /\ walletStatus[Source(k)] = "ACTIVE" /\ balance[Source(k)] >= Debit(k)
  BY CommitFacts DEF SnapshotHolds
<1>2. Source(k) \in Wallets /\ Debit(k) \in Nat
  BY <1>1, RequestFacts
<1>3. \A w \in Wallets : balance[w] \in Int /\ balance'[w] \in Int
  BY DEF TypeOK, Accounts
<1> HIDE DEF k
<1>4. NoOverdraft'
  BY <1>1, <1>2, <1>3 DEF NoOverdraft, k
<1>5. QED
  BY <1>1, <1>4 DEF k

\* ensureWallet takes no wallet out of use.
LEMMA EnsureWalletFacts ==
    ASSUME TypeOK, NEW v \in Wallets, EnsureWallet(v)
    PROVE  /\ walletStatus' \in [Wallets -> {"NONE", "ACTIVE", "FROZEN"}]
           /\ \A w \in Wallets : walletStatus[w] = "ACTIVE" => walletStatus'[w] = "ACTIVE"
BY DEF EnsureWallet, TypeOK

-----------------------------------------------------------------------------
(***************************************************************************)
(* Bookkeeping: the rows of one transaction.                               *)
(***************************************************************************)
\* A posting counts one more posting of its transaction and memo, and keeps
\* the types of the ledger.
LEMMA PostFacts ==
    ASSUME TypeOK, NEW k \in Keys, NEW m \in Memos, NEW after, Post(k, m, after)
    PROVE  /\ balance' = after
           /\ postings' \in [Keys -> [Memos -> Nat]]
           /\ postings'[k][m] = postings[k][m] + 1
           /\ \A n \in Memos \ {m} : postings'[k][n] = postings[k][n]
           /\ \A j \in Keys \ {k} : postings'[j] = postings[j]
BY DEF Post, TypeOK

\* Enqueuing writes one outbox row for the transaction and none for another.
LEMMA EnqueuedFacts ==
    ASSUME TypeOK, NEW k \in Keys, outbox' = Enqueued(k)
    PROVE  /\ outbox' \in [Keys -> Nat]
           /\ outbox'[k] = outbox[k] + 1
           /\ \A j \in Keys \ {k} : outbox'[j] = outbox[j]
BY DEF Enqueued, TypeOK

\* A step that touches one transaction keeps the books of all if it keeps
\* the books of that one, and reopens no decided item.
LEMMA OneTransaction ==
    ASSUME TypeOK, Bookkeeping, Held', NEW k \in Keys,
           \A j \in Keys \ {k} :
              /\ postings'[j] = postings[j] /\ status'[j] = status[j]
              /\ item'[j] = item[j] /\ outbox'[j] = outbox[j],
           status'[k] # "NONE",
           Debits(k)' = IF IsTransfer(k) /\ item'[k] # "NONE" THEN 0 ELSE 1,
           item'[k] = "PENDING" /\ ~IsTransfer(k) =>
              /\ status'[k] = "REQUIRES_APPROVAL"
              /\ postings'[k]["reserve"] = 1
              /\ postings'[k]["approve"] = 0 /\ postings'[k]["reject"] = 0
              /\ outbox'[k] = 0,
           outbox'[k] = postings'[k]["send"] + postings'[k]["approve"]
    PROVE  Bookkeeping'
<1>1. Untouched'
  BY DEF Untouched, Bookkeeping
<1>2. DebitedOnce'
  BY DEF DebitedOnce, Bookkeeping, Debits, IsTransfer
<1>3. PendingIsReserved'
  BY DEF PendingIsReserved, Bookkeeping, IsTransfer
<1>4. DispatchIsFunded'
  BY DEF DispatchIsFunded, Bookkeeping
<1>5. QED
  BY <1>1, <1>2, <1>3, <1>4 DEF Bookkeeping

\* A step that touches no transaction keeps the books.
LEMMA NoTransaction ==
    ASSUME Bookkeeping, Held', UNCHANGED <<postings, status, item, outbox>>
    PROVE  Bookkeeping'
BY DEF Bookkeeping, Untouched, DebitedOnce, PendingIsReserved, DispatchIsFunded, Debits

-----------------------------------------------------------------------------
(***************************************************************************)
(* One lemma per action that commits.                                      *)
(***************************************************************************)
\* A transfer that settles preserves the invariant.
LEMMA SettleTransferStep ==
    ASSUME IInv, NEW h \in Handlers, NEW k, k = handler[h].key, SettleTransfer(h)
    PROVE  IInv'
<1> USE DEF IInv
<1>1. MayCommit(h) /\ Commit(h) /\ IsTransfer(k) /\ ~handler[h].review
  BY DEF SettleTransfer
<1>2. k \in Keys /\ status[k] = "NONE" /\ Source(k) \in Wallets /\ Target(k) \in Wallets
  BY <1>1, CommitFacts, RequestFacts
<1>3. /\ SystemAccounts({"SYSTEM_FEE"}, k) \subseteq System
      /\ EnsureWallet(Target(k))
      /\ Post(k, "p2p", TransferLegs(k))
      /\ status' = [status EXCEPT ![k] = "COMPLETED"]
      /\ UNCHANGED <<item, outbox, userStatus, decider>>
  BY DEF SettleTransfer, Commit
<1>4. /\ balance' = TransferLegs(k)
      /\ postings' \in [Keys -> [Memos -> Nat]]
      /\ postings'[k]["p2p"] = postings[k]["p2p"] + 1
      /\ \A n \in Memos \ {"p2p"} : postings'[k][n] = postings[k][n]
      /\ \A j \in Keys \ {k} : postings'[j] = postings[j]
  BY <1>2, <1>3, PostFacts DEF Memos
<1>5. /\ balance' \in [Accounts -> Int]
      /\ \A w \in Wallets \ {Source(k)} : balance'[w] >= balance[w]
      /\ balance'[Source(k)] >= balance[Source(k)] - Debit(k)
  BY <1>2, <1>3, <1>4, LegFacts
<1>6. TypeOK'
  BY <1>1, <1>2, <1>3, <1>4, <1>5, CommitFacts, EnsureWalletFacts DEF TypeOK
<1>7. NoOverdraft' /\ \A w \in Wallets \ handler[h].writes : balance'[w] >= balance[w]
  BY <1>1, <1>5, CommitCoversDebit
<1>8. InFlight'
  BY <1>1, <1>2, <1>3, <1>5, <1>7, CommitKeepsInFlight, EnsureWalletFacts
<1>9. QuoteSpentOnce'
  BY <1>1, <1>3, CommitSpendsQuote
<1>10. Bookkeeping'
  <2>1. item[k] = "NONE" /\ outbox[k] = 0 /\ \A m \in Memos : postings[k][m] = 0
    BY <1>2 DEF Bookkeeping, Untouched
  <2>2. Held'
    BY <1>3 DEF Bookkeeping, Held
  <2>3. Debits(k)' = 1
    BY <1>4, <2>1 DEF Debits, Memos
  <2>4. postings'[k]["send"] = 0 /\ postings'[k]["approve"] = 0
    BY <1>4, <2>1 DEF Memos
  <2>5. status'[k] = "COMPLETED" /\ \A j \in Keys \ {k} : status'[j] = status[j]
    BY <1>2, <1>3 DEF TypeOK
  <2>6. QED
    BY <1>2, <1>3, <1>4, <2>1, <2>2, <2>3, <2>4, <2>5, OneTransaction
<1>11. QED
  BY <1>6, <1>7, <1>8, <1>9, <1>10

\* A transfer held for review preserves the invariant.
LEMMA QueueTransferStep ==
    ASSUME IInv, NEW h \in Handlers, NEW k, k = handler[h].key, QueueTransfer(h)
    PROVE  IInv'
<1> USE DEF IInv
<1>1. MayCommit(h) /\ Commit(h) /\ IsTransfer(k) /\ handler[h].review
  BY DEF QueueTransfer
<1>2. k \in Keys /\ status[k] = "NONE" /\ Target(k) \in Wallets
  BY <1>1, CommitFacts, RequestFacts
<1>3. /\ EnsureWallet(Target(k))
      /\ status' = [status EXCEPT ![k] = "REQUIRES_APPROVAL"]
      /\ item' = [item EXCEPT ![k] = "PENDING"]
      /\ UNCHANGED <<balance, postings, outbox, userStatus, decider>>
  BY DEF QueueTransfer, Commit, ledgerVars
<1>4. TypeOK'
  BY <1>1, <1>2, <1>3, CommitFacts, EnsureWalletFacts DEF TypeOK
<1>5. NoOverdraft'
  BY <1>3 DEF NoOverdraft
<1>6. InFlight'
  <2>1. \A w \in Wallets : balance'[w] >= balance[w]
    BY <1>3 DEF TypeOK, Accounts
  <2>2. QED
    BY <1>1, <1>2, <1>3, <1>4, <2>1, CommitKeepsInFlight, EnsureWalletFacts DEF TypeOK
<1>7. QuoteSpentOnce'
  BY <1>1, <1>3, CommitSpendsQuote
<1>8. Bookkeeping'
  <2>1. item[k] = "NONE" /\ outbox[k] = 0 /\ \A m \in Memos : postings[k][m] = 0
    BY <1>2 DEF Bookkeeping, Untouched
  <2>2. /\ status'[k] = "REQUIRES_APPROVAL" /\ item'[k] = "PENDING"
        /\ \A j \in Keys \ {k} : status'[j] = status[j] /\ item'[j] = item[j]
    BY <1>2, <1>3 DEF TypeOK
  <2>3. Held'
    BY <1>3, <1>2, <2>1, <2>2, DeciderFacts DEF Bookkeeping, Held
  <2>4. Debits(k)' = 0 /\ outbox'[k] = postings'[k]["send"] + postings'[k]["approve"]
    BY <1>3, <2>1 DEF Debits, Memos
  <2>5. QED
    BY <1>1, <1>2, <1>3, <2>2, <2>3, <2>4, OneTransaction
<1>9. QED
  BY <1>4, <1>5, <1>6, <1>7, <1>8

\* An auto-approved withdrawal preserves the invariant.
LEMMA SendWithdrawalStep ==
    ASSUME IInv, NEW h \in Handlers, NEW k, k = handler[h].key, SendWithdrawal(h)
    PROVE  IInv'
<1> USE DEF IInv
<1>1. MayCommit(h) /\ Commit(h) /\ ~IsTransfer(k)
  BY DEF SendWithdrawal
<1>2. k \in Keys /\ status[k] = "NONE" /\ Source(k) \in Wallets
  BY <1>1, CommitFacts, RequestFacts
<1>3. /\ SystemAccounts({"EXTERNAL_RAIL", "SYSTEM_FEE"}, k) \subseteq System
      /\ Post(k, "send", SendLegs(k))
      /\ status' = [status EXCEPT ![k] = "PROCESSING"]
      /\ outbox' = Enqueued(k)
      /\ UNCHANGED <<walletStatus, item, userStatus, decider>>
  BY DEF SendWithdrawal, Commit
<1>4. /\ balance' = SendLegs(k)
      /\ postings' \in [Keys -> [Memos -> Nat]]
      /\ postings'[k]["send"] = postings[k]["send"] + 1
      /\ \A n \in Memos \ {"send"} : postings'[k][n] = postings[k][n]
      /\ \A j \in Keys \ {k} : postings'[j] = postings[j]
  BY <1>2, <1>3, PostFacts DEF Memos
<1>5. /\ balance' \in [Accounts -> Int]
      /\ \A w \in Wallets \ {Source(k)} : balance'[w] >= balance[w]
      /\ balance'[Source(k)] >= balance[Source(k)] - Debit(k)
  BY <1>2, <1>3, <1>4, LegFacts
<1>6. /\ outbox' \in [Keys -> Nat]
      /\ outbox'[k] = outbox[k] + 1
      /\ \A j \in Keys \ {k} : outbox'[j] = outbox[j]
  BY <1>2, <1>3, EnqueuedFacts
<1>7. TypeOK'
  BY <1>1, <1>2, <1>3, <1>4, <1>5, <1>6, CommitFacts DEF TypeOK
<1>8. NoOverdraft' /\ \A w \in Wallets \ handler[h].writes : balance'[w] >= balance[w]
  BY <1>1, <1>5, CommitCoversDebit
<1>9. InFlight'
  BY <1>1, <1>3, <1>5, <1>8, CommitKeepsInFlight
<1>10. QuoteSpentOnce'
  BY <1>1, <1>3, CommitSpendsQuote
<1>11. Bookkeeping'
  <2>1. item[k] = "NONE" /\ outbox[k] = 0 /\ \A m \in Memos : postings[k][m] = 0
    BY <1>2 DEF Bookkeeping, Untouched
  <2>2. Held'
    BY <1>3 DEF Bookkeeping, Held
  <2>3. Debits(k)' = 1 /\ outbox'[k] = postings'[k]["send"] + postings'[k]["approve"]
    BY <1>4, <1>6, <2>1 DEF Debits, Memos
  <2>4. status'[k] = "PROCESSING" /\ \A j \in Keys \ {k} : status'[j] = status[j]
    BY <1>2, <1>3 DEF TypeOK
  <2>5. QED
    BY <1>1, <1>2, <1>3, <1>4, <1>6, <2>1, <2>2, <2>3, <2>4, OneTransaction
<1>12. QED
  BY <1>7, <1>8, <1>9, <1>10, <1>11

\* A withdrawal held for approval preserves the invariant.
LEMMA ReserveWithdrawalStep ==
    ASSUME IInv, NEW h \in Handlers, NEW k, k = handler[h].key, ReserveWithdrawal(h)
    PROVE  IInv'
<1> USE DEF IInv
<1>1. MayCommit(h) /\ Commit(h) /\ ~IsTransfer(k)
  BY DEF ReserveWithdrawal, Reserve
<1>2. k \in Keys /\ status[k] = "NONE" /\ Source(k) \in Wallets
  BY <1>1, CommitFacts, RequestFacts
<1>3. /\ SystemAccounts({"SUSPENSE"}, k) \subseteq System
      /\ Post(k, "reserve", ReserveLegs(k))
      /\ status' = [status EXCEPT ![k] = "REQUIRES_APPROVAL"]
      /\ item' = [item EXCEPT ![k] = "PENDING"]
      /\ UNCHANGED <<walletStatus, outbox, userStatus, decider>>
  BY DEF ReserveWithdrawal, Reserve, Commit
<1>4. /\ balance' = ReserveLegs(k)
      /\ postings' \in [Keys -> [Memos -> Nat]]
      /\ postings'[k]["reserve"] = postings[k]["reserve"] + 1
      /\ \A n \in Memos \ {"reserve"} : postings'[k][n] = postings[k][n]
      /\ \A j \in Keys \ {k} : postings'[j] = postings[j]
  BY <1>2, <1>3, PostFacts DEF Memos
<1>5. /\ balance' \in [Accounts -> Int]
      /\ \A w \in Wallets \ {Source(k)} : balance'[w] >= balance[w]
      /\ balance'[Source(k)] >= balance[Source(k)] - Debit(k)
  BY <1>2, <1>3, <1>4, LegFacts
<1>6. TypeOK'
  BY <1>1, <1>2, <1>3, <1>4, <1>5, CommitFacts DEF TypeOK
<1>7. NoOverdraft' /\ \A w \in Wallets \ handler[h].writes : balance'[w] >= balance[w]
  BY <1>1, <1>5, CommitCoversDebit
<1>8. InFlight'
  BY <1>1, <1>3, <1>5, <1>7, CommitKeepsInFlight
<1>9. QuoteSpentOnce'
  BY <1>1, <1>3, CommitSpendsQuote
<1>10. Bookkeeping'
  <2>1. item[k] = "NONE" /\ outbox[k] = 0 /\ \A m \in Memos : postings[k][m] = 0
    BY <1>2 DEF Bookkeeping, Untouched
  <2>2. /\ status'[k] = "REQUIRES_APPROVAL" /\ item'[k] = "PENDING"
        /\ \A j \in Keys \ {k} : status'[j] = status[j] /\ item'[j] = item[j]
    BY <1>2, <1>3 DEF TypeOK
  <2>3. Held'
    BY <1>3, <1>2, <2>1, <2>2, DeciderFacts DEF Bookkeeping, Held
  <2>4. /\ postings'[k]["p2p"] = 0 /\ postings'[k]["send"] = 0
        /\ postings'[k]["reserve"] = 1
        /\ postings'[k]["approve"] = 0 /\ postings'[k]["reject"] = 0
    BY <1>4, <2>1 DEF Memos
  <2>5. Debits(k)' = 1 /\ outbox'[k] = postings'[k]["send"] + postings'[k]["approve"]
        /\ outbox'[k] = 0
    BY <1>3, <2>1, <2>4 DEF Debits
  <2>6. QED
    BY <1>1, <1>2, <1>3, <1>4, <2>2, <2>3, <2>4, <2>5, OneTransaction
<1>11. QED
  BY <1>6, <1>7, <1>8, <1>9, <1>10

-----------------------------------------------------------------------------
(***************************************************************************)
(* Decisions.                                                              *)
(***************************************************************************)
\* What a decision leaves in place: the transaction exists, the item is
\* decided, and no open transaction loses what it read.
LEMMA DecideFacts ==
    ASSUME TypeOK, Bookkeeping, NEW d \in Deciders, decider[d].pc = "read",
           NEW k, k = decider[d].key, NEW rows, Decide(d, rows)
    PROVE  /\ k \in Keys /\ status[k] # "NONE" /\ item[k] # "NONE"
           /\ item' \in [Keys -> {"NONE", "PENDING", "APPROVED", "REJECTED"}]
           /\ item'[k] \in {"APPROVED", "REJECTED"}
           /\ \A j \in Keys \ {k} : item'[j] = item[j]
           /\ decider' \in [Deciders -> DeciderType]
           /\ handler' \in [Handlers -> HandlerType]
           /\ Held'
<1>1. k \in Keys /\ item[k] # "NONE" /\ decider[d].decision \in {"APPROVED", "REJECTED"}
  BY DeciderFacts DEF Bookkeeping, Held
<1>2. status[k] # "NONE"
  BY <1>1 DEF Bookkeeping, Untouched
<1>3. item' = [item EXCEPT ![k] = decider[d].decision]
  BY DEF Decide, Decision
<1>4. /\ item' \in [Keys -> {"NONE", "PENDING", "APPROVED", "REJECTED"}]
      /\ item'[k] \in {"APPROVED", "REJECTED"}
      /\ \A j \in Keys \ {k} : item'[j] = item[j]
  BY <1>1, <1>3 DEF TypeOK
<1>5. decider' = [decider EXCEPT ![d] = Idle] /\ decider' \in [Deciders -> DeciderType]
  BY DEF Decide, TypeOK, DeciderType
<1>6. handler' \in [Handlers -> HandlerType]
  BY DisturbFacts DEF Decide, TypeOK
<1>7. Held'
  <2> SUFFICES ASSUME NEW e \in Deciders, decider'[e].pc = "read"
               PROVE  item'[decider'[e].key] # "NONE"
    BY DEF Held
  <2>1. e # d
    BY <1>5 DEF Idle, TypeOK
  <2>2. decider'[e] = decider[e]
    BY <1>5, <2>1 DEF TypeOK
  <2>3. decider[e].key \in Keys /\ item[decider[e].key] # "NONE"
    BY <2>2, DeciderFacts DEF Bookkeeping, Held
  <2>4. QED
    BY <1>4, <2>2, <2>3
<1>8. QED
  BY <1>1, <1>2, <1>4, <1>5, <1>6, <1>7

\* A decision takes nothing from a wallet, so it keeps what is in flight.
LEMMA DecideKeepsInFlight ==
    ASSUME TypeOK, InFlight, NoOverdraft, NEW d \in Deciders, NEW rows, Decide(d, rows),
           balance' \in [Accounts -> Int], \A w \in Wallets : balance'[w] >= balance[w]
    PROVE  InFlight' /\ NoOverdraft'
<1>1. \A h \in Handlers : handler'[h] = Disturb(handler[h], rows)
  BY DEF Decide
<1>2. walletStatus' = walletStatus /\ quote' = quote
  BY DEF Decide
<1>3. ASSUME NEW h \in Handlers
      PROVE  FlightOK(h)'
  BY <1>1, <1>2, StillInFlight DEF InFlight
<1>4. NoOverdraft'
  <2>1. \A w \in Wallets : balance[w] \in Int /\ balance'[w] \in Int
    BY DEF TypeOK, Accounts
  <2>2. QED
    BY <2>1 DEF NoOverdraft
<1>5. QED
  BY <1>3, <1>4 DEF InFlight

\* An approval preserves the invariant.
LEMMA ApproveWithdrawalStep ==
    ASSUME IInv, NEW d \in Deciders, NEW k, k = decider[d].key, ApproveWithdrawal(d)
    PROVE  IInv'
<1> USE DEF IInv
<1>1. /\ decider[d].pc = "read" /\ ~IsTransfer(k)
      /\ SystemAccounts(SystemKinds, k) \subseteq System
      /\ Post(k, "approve", ApproveLegs(k))
      /\ status' = [status EXCEPT ![k] = "PROCESSING"]
      /\ outbox' = Enqueued(k)
      /\ Decide(d, {})
  BY DEF ApproveWithdrawal
<1>2. /\ k \in Keys /\ status[k] # "NONE" /\ item[k] # "NONE"
      /\ item' \in [Keys -> {"NONE", "PENDING", "APPROVED", "REJECTED"}]
      /\ item'[k] \in {"APPROVED", "REJECTED"}
      /\ \A j \in Keys \ {k} : item'[j] = item[j]
      /\ decider' \in [Deciders -> DeciderType]
      /\ handler' \in [Handlers -> HandlerType]
      /\ Held'
  BY <1>1, DecideFacts
<1>3. /\ balance' = ApproveLegs(k)
      /\ postings' \in [Keys -> [Memos -> Nat]]
      /\ postings'[k]["approve"] = postings[k]["approve"] + 1
      /\ \A n \in Memos \ {"approve"} : postings'[k][n] = postings[k][n]
      /\ \A j \in Keys \ {k} : postings'[j] = postings[j]
  BY <1>1, <1>2, PostFacts DEF Memos
<1>4. balance' \in [Accounts -> Int] /\ \A w \in Wallets : balance'[w] >= balance[w]
  BY <1>1, <1>2, <1>3, LegFacts
<1>5. /\ outbox' \in [Keys -> Nat]
      /\ outbox'[k] = outbox[k] + 1
      /\ \A j \in Keys \ {k} : outbox'[j] = outbox[j]
  BY <1>1, <1>2, EnqueuedFacts
<1>6. TypeOK'
  BY <1>1, <1>2, <1>3, <1>4, <1>5 DEF TypeOK, Decide
<1>7. InFlight' /\ NoOverdraft'
  BY <1>1, <1>4, DecideKeepsInFlight
<1>8. status'[k] = "PROCESSING" /\ \A j \in Keys \ {k} : status'[j] = status[j]
  BY <1>1, <1>2 DEF TypeOK
<1>9. QuoteSpentOnce'
  BY <1>1, <1>2, <1>8 DEF QuoteSpentOnce, Decide
<1>10. Bookkeeping'
  <2>1. Debits(k) = 1 /\ outbox[k] = postings[k]["send"] + postings[k]["approve"]
    BY <1>1, <1>2 DEF Bookkeeping, DebitedOnce, DispatchIsFunded
  <2>2. Debits(k)' = 1
    BY <1>3, <2>1 DEF Debits, Memos
  <2>3. outbox'[k] = postings'[k]["send"] + postings'[k]["approve"]
    BY <1>2, <1>3, <1>5, <2>1 DEF Memos, TypeOK
  <2>4. QED
    BY <1>1, <1>2, <1>3, <1>5, <1>8, <2>2, <2>3, OneTransaction
<1>11. QED
  BY <1>6, <1>7, <1>9, <1>10

\* A rejection preserves the invariant.
LEMMA RejectWithdrawalStep ==
    ASSUME IInv, NEW d \in Deciders, NEW k, k = decider[d].key, RejectWithdrawal(d)
    PROVE  IInv'
<1> USE DEF IInv
<1>1. /\ decider[d].pc = "read" /\ ~IsTransfer(k)
      /\ SystemAccounts({"SUSPENSE"}, k) \subseteq System
      /\ Post(k, "reject", RejectLegs(k))
      /\ status' = [status EXCEPT ![k] = "CANCELLED"]
      /\ UNCHANGED outbox
      /\ Decide(d, {Source(k)})
  BY DEF RejectWithdrawal
<1>2. /\ k \in Keys /\ status[k] # "NONE" /\ item[k] # "NONE"
      /\ item' \in [Keys -> {"NONE", "PENDING", "APPROVED", "REJECTED"}]
      /\ item'[k] \in {"APPROVED", "REJECTED"}
      /\ \A j \in Keys \ {k} : item'[j] = item[j]
      /\ decider' \in [Deciders -> DeciderType]
      /\ handler' \in [Handlers -> HandlerType]
      /\ Held'
  BY <1>1, DecideFacts
<1>3. /\ balance' = RejectLegs(k)
      /\ postings' \in [Keys -> [Memos -> Nat]]
      /\ \A n \in Memos \ {"reject"} : postings'[k][n] = postings[k][n]
      /\ \A j \in Keys \ {k} : postings'[j] = postings[j]
  BY <1>1, <1>2, PostFacts DEF Memos
<1>4. balance' \in [Accounts -> Int] /\ \A w \in Wallets : balance'[w] >= balance[w]
  BY <1>1, <1>2, <1>3, LegFacts
<1>5. TypeOK'
  BY <1>1, <1>2, <1>3, <1>4 DEF TypeOK, Decide
<1>6. InFlight' /\ NoOverdraft'
  BY <1>1, <1>4, DecideKeepsInFlight
<1>7. status'[k] = "CANCELLED" /\ \A j \in Keys \ {k} : status'[j] = status[j]
  BY <1>1, <1>2 DEF TypeOK
<1>8. QuoteSpentOnce'
  BY <1>1, <1>2, <1>7 DEF QuoteSpentOnce, Decide
<1>9. Bookkeeping'
  <2>1. Debits(k) = 1 /\ outbox[k] = postings[k]["send"] + postings[k]["approve"]
    BY <1>1, <1>2 DEF Bookkeeping, DebitedOnce, DispatchIsFunded
  <2>2. Debits(k)' = 1 /\ outbox'[k] = postings'[k]["send"] + postings'[k]["approve"]
    BY <1>1, <1>3, <2>1 DEF Debits, Memos
  <2>3. QED
    BY <1>1, <1>2, <1>3, <1>7, <2>2, OneTransaction
<1>10. QED
  BY <1>5, <1>6, <1>8, <1>9

\* A decision on a transfer preserves the invariant.
LEMMA DecideTransferStep ==
    ASSUME IInv, NEW d \in Deciders, NEW k, k = decider[d].key, DecideTransfer(d)
    PROVE  IInv'
<1> USE DEF IInv
<1>1. /\ decider[d].pc = "read" /\ IsTransfer(k)
      /\ UNCHANGED <<balance, postings, status, outbox>>
      /\ Decide(d, {})
  BY DEF DecideTransfer, ledgerVars
<1>2. /\ k \in Keys /\ status[k] # "NONE" /\ item[k] # "NONE"
      /\ item' \in [Keys -> {"NONE", "PENDING", "APPROVED", "REJECTED"}]
      /\ item'[k] \in {"APPROVED", "REJECTED"}
      /\ \A j \in Keys \ {k} : item'[j] = item[j]
      /\ decider' \in [Deciders -> DeciderType]
      /\ handler' \in [Handlers -> HandlerType]
      /\ Held'
  BY <1>1, DecideFacts
<1>3. TypeOK'
  BY <1>1, <1>2 DEF TypeOK, Decide
<1>4. InFlight' /\ NoOverdraft'
  <2>1. balance' \in [Accounts -> Int] /\ \A w \in Wallets : balance'[w] >= balance[w]
    BY <1>1 DEF TypeOK, Accounts
  <2>2. QED
    BY <1>1, <2>1, DecideKeepsInFlight
<1>5. QuoteSpentOnce'
  BY <1>1 DEF QuoteSpentOnce, Decide
<1>6. Bookkeeping'
  <2>1. Debits(k) = 0 /\ outbox[k] = postings[k]["send"] + postings[k]["approve"]
    BY <1>1, <1>2 DEF Bookkeeping, DebitedOnce, DispatchIsFunded
  <2>2. Debits(k)' = 0
    BY <1>1, <2>1 DEF Debits
  <2>3. QED
    BY <1>1, <1>2, <2>1, <2>2, OneTransaction
<1>7. QED
  BY <1>3, <1>4, <1>5, <1>6

-----------------------------------------------------------------------------
(***************************************************************************)
(* Steps that touch no transaction and no balance.                         *)
(***************************************************************************)
\* Balances and books stay; what is left to show is the types of what
\* changed, and that the transactions in flight stay sound.
LEMMA QuietStep ==
    ASSUME IInv, TypeOK', InFlight', Held',
           UNCHANGED <<balance, postings, status, item, outbox>>,
           \A q \in Quotes : quote[q] = "CONSUMED" => quote'[q] = "CONSUMED"
    PROVE  IInv'
<1>1. NoOverdraft'
  BY DEF NoOverdraft, IInv
<1>2. QuoteSpentOnce'
  BY RequestFacts DEF QuoteSpentOnce, IInv
<1>3. Bookkeeping'
  BY NoTransaction DEF IInv
<1>4. QED
  BY <1>1, <1>2, <1>3 DEF IInv

\* Creating or lapsing a quote preserves the invariant.
LEMMA QuoteStep ==
    ASSUME IInv, NEW q \in Quotes, CreateQuote(q) \/ Lapse(q)
    PROVE  IInv'
<1> USE DEF IInv
<1>1. /\ quote' \in [Quotes -> {"NONE", "ACTIVE", "LAPSED", "CONSUMED"}]
      /\ \A p \in Quotes :
            /\ quote[p] = "CONSUMED" => quote'[p] = "CONSUMED"
            /\ quote[p] \in {"ACTIVE", "LAPSED"} => quote'[p] \in {"ACTIVE", "LAPSED"}
      /\ UNCHANGED <<balance, postings, walletStatus, userStatus, status, item, outbox,
                    handler, decider>>
  BY DEF CreateQuote, Lapse, TypeOK, ledgerVars
<1>2. TypeOK'
  BY <1>1 DEF TypeOK
<1>3. InFlight'
  <2>1. \A h \in Handlers : handler'[h] = Disturb(handler[h], {})
    BY <1>1 DEF Disturb
  <2>2. balance' \in [Accounts -> Int] /\ \A w \in Wallets : balance'[w] >= balance[w]
    BY <1>1 DEF TypeOK, Accounts
  <2>3. QED
    BY <1>1, <2>1, <2>2, StillInFlight DEF InFlight
<1>4. Held'
  BY <1>1 DEF Bookkeeping, Held
<1>5. QED
  BY <1>1, <1>2, <1>3, <1>4, QuietStep

\* Wallet creation and suspension preserve the invariant.
LEMMA WalletStep ==
    ASSUME IInv, (\E u \in Users : Suspend(u)) \/ (\E w \in Wallets : OpenWallet(w))
    PROVE  IInv'
<1> USE DEF IInv
<1>1. PICK rows :
         /\ \A h \in Handlers : handler'[h] = Disturb(handler[h], rows)
         /\ handler' = [h \in Handlers |-> Disturb(handler[h], rows)]
         /\ \A w \in Wallets \ rows :
               walletStatus[w] = "ACTIVE" => walletStatus'[w] = "ACTIVE"
         /\ walletStatus' \in [Wallets -> {"NONE", "ACTIVE", "FROZEN"}]
         /\ userStatus' \in [Users -> {"ACTIVE", "SUSPENDED"}]
         /\ UNCHANGED <<balance, postings, quote, status, item, outbox, decider>>
  <2>1. ASSUME NEW u \in Users, Suspend(u)
        PROVE  /\ handler' = [h \in Handlers |-> Disturb(handler[h], WalletsOf(u))]
               /\ \A w \in Wallets \ WalletsOf(u) :
                     walletStatus[w] = "ACTIVE" => walletStatus'[w] = "ACTIVE"
               /\ walletStatus' \in [Wallets -> {"NONE", "ACTIVE", "FROZEN"}]
               /\ userStatus' \in [Users -> {"ACTIVE", "SUSPENDED"}]
               /\ UNCHANGED <<balance, postings, quote, status, item, outbox, decider>>
    BY <2>1 DEF Suspend, TypeOK, ledgerVars
  <2>2. ASSUME NEW v \in Wallets, OpenWallet(v)
        PROVE  /\ handler' = [h \in Handlers |-> Disturb(handler[h], {v})]
               /\ \A w \in Wallets \ {v} :
                     walletStatus[w] = "ACTIVE" => walletStatus'[w] = "ACTIVE"
               /\ walletStatus' \in [Wallets -> {"NONE", "ACTIVE", "FROZEN"}]
               /\ userStatus' \in [Users -> {"ACTIVE", "SUSPENDED"}]
               /\ UNCHANGED <<balance, postings, quote, status, item, outbox, decider>>
    BY <2>2 DEF OpenWallet, TypeOK, ledgerVars
  <2>3. QED
    BY <2>1, <2>2
<1>2. TypeOK'
  <2>1. handler' \in [Handlers -> HandlerType]
    BY <1>1, DisturbFacts DEF TypeOK
  <2>2. QED
    BY <1>1, <2>1 DEF TypeOK
<1>3. InFlight'
  <2>1. balance' \in [Accounts -> Int] /\ \A w \in Wallets : balance'[w] >= balance[w]
    BY <1>1 DEF TypeOK, Accounts
  <2>2. QED
    BY <1>1, <2>1, StillInFlight DEF InFlight
<1>4. Held'
  BY <1>1 DEF Bookkeeping, Held
<1>5. QED
  BY <1>1, <1>2, <1>3, <1>4, QuietStep

\* The reads before the transaction preserve the invariant.
LEMMA CheckStep ==
    ASSUME IInv, NEW h \in Handlers, NEW k \in Keys, Check(h, k)
    PROVE  IInv'
<1> USE DEF IInv
<1>1. /\ handler' = [handler EXCEPT ![h] = Checked(k)]
      /\ UNCHANGED <<balance, postings, walletStatus, userStatus, quote, status, item,
                    outbox, decider>>
  BY DEF Check, ledgerVars
<1>2. TypeOK'
  BY <1>1 DEF TypeOK, HandlerType
<1>3. InFlight'
  BY <1>1 DEF InFlight, FlightOK, SnapshotHolds, Checked, TypeOK, Source, Currency, TermsOf,
     Debit, IsTransfer
<1>4. Held'
  BY <1>1 DEF Bookkeeping, Held
<1>5. QED
  BY <1>1, <1>2, <1>3, <1>4, QuietStep

\* A rollback preserves the invariant.
LEMMA AbortStep ==
    ASSUME IInv, NEW h \in Handlers, Abort(h)
    PROVE  IInv'
<1> USE DEF IInv
<1>1. /\ handler' = [handler EXCEPT ![h] = Idle]
      /\ UNCHANGED <<balance, postings, walletStatus, userStatus, quote, status, item,
                    outbox, decider>>
  BY DEF Abort, ledgerVars
<1>2. TypeOK'
  BY <1>1 DEF TypeOK, HandlerType
<1>3. InFlight'
  BY <1>1 DEF InFlight, FlightOK, SnapshotHolds, Idle, TypeOK, Source, Currency, TermsOf,
     Debit, IsTransfer
<1>4. Held'
  BY <1>1 DEF Bookkeeping, Held
<1>5. QED
  BY <1>1, <1>2, <1>3, <1>4, QuietStep

\* Opening a transaction preserves the invariant: what it read holds.
LEMMA EnterStep ==
    ASSUME IInv, NEW h \in Handlers, NEW k, k = handler[h].key, Enter(h)
    PROVE  IInv'
<1> USE DEF IInv
<1>1. /\ handler[h].pc = "checked"
      /\ quote[Order[k].quote] = "ACTIVE"
      /\ walletStatus[Source(k)] = "ACTIVE"
      /\ balance[Source(k)] >= Debit(k)
      /\ UNCHANGED <<balance, postings, walletStatus, userStatus, quote, status, item,
                    outbox, decider>>
  BY DEF Enter, ledgerVars
<1>2. PICK review \in BOOLEAN :
         handler' = [handler EXCEPT ![h] = Entered(k, review, WriteSet(k, review))]
  BY DEF Enter
<1>3. k \in Keys /\ Order[k].quote \in Quotes /\ Source(k) \in Wallets /\ Target(k) \in Wallets
  BY <1>1, HandlerFacts, RequestFacts
<1>4. WriteSet(k, review) \subseteq Rows
  BY <1>3 DEF WriteSet, QuoteWritten, WalletsWritten, Rows
<1>5. handler'[h] = Entered(k, review, WriteSet(k, review))
  BY <1>2 DEF TypeOK
<1>6. TypeOK'
  <2>1. Entered(k, review, WriteSet(k, review)) \in HandlerType
    BY <1>3, <1>4 DEF Entered, HandlerType
  <2>2. QED
    BY <1>1, <1>2, <2>1 DEF TypeOK
<1>7. InFlight'
  <2>1. FlightOK(h)'
    <3>1. /\ Order[k].quote \in WriteSet(k, review)
          /\ ~IsTransfer(k) \/ ~review => Source(k) \in WriteSet(k, review)
      BY DEF WriteSet, QuoteWritten, WalletsWritten
    <3>2. /\ handler'[h].key = k /\ handler'[h].review = review
          /\ handler'[h].writes = WriteSet(k, review)
      BY <1>5 DEF Entered
    <3>3. QED
      BY <1>1, <3>1, <3>2 DEF FlightOK, SnapshotHolds, Source, Currency, TermsOf, Debit,
         IsTransfer
  <2>2. ASSUME NEW g \in Handlers, g # h
        PROVE  FlightOK(g)'
    <3>1. handler'[g] = handler[g]
      BY <1>2, <2>2 DEF TypeOK
    <3>2. QED
      BY <1>1, <3>1 DEF InFlight, FlightOK, SnapshotHolds, Source, Currency, TermsOf, Debit,
         IsTransfer
  <2>3. QED
    BY <2>1, <2>2 DEF InFlight
<1>8. Held'
  BY <1>1 DEF Bookkeeping, Held
<1>9. QED
  BY <1>1, <1>6, <1>7, <1>8, QuietStep

\* Reading a pending item preserves the invariant.
LEMMA ReadItemStep ==
    ASSUME IInv, NEW d \in Deciders, NEW k \in Keys,
           NEW decision \in {"APPROVED", "REJECTED"}, ReadItem(d, k, decision)
    PROVE  IInv'
<1> USE DEF IInv
<1>1. /\ item[k] = "PENDING"
      /\ decider' = [decider EXCEPT ![d] = Holding(k, decision)]
      /\ UNCHANGED <<balance, postings, walletStatus, userStatus, quote, status, item,
                    outbox, handler>>
  BY DEF ReadItem, ledgerVars
<1>2. TypeOK'
  BY <1>1 DEF TypeOK, DeciderType, Holding
<1>3. InFlight'
  BY <1>1 DEF InFlight, FlightOK, SnapshotHolds
<1>4. Held'
  BY <1>1 DEF Bookkeeping, Held, Holding, TypeOK
<1>5. QED
  BY <1>1, <1>2, <1>3, <1>4, QuietStep

\* A decision that rolls back preserves the invariant.
LEMMA DecideAbortsStep ==
    ASSUME IInv, NEW d \in Deciders, DecideAborts(d)
    PROVE  IInv'
<1> USE DEF IInv
<1>1. /\ decider' = [decider EXCEPT ![d] = Idle]
      /\ UNCHANGED <<balance, postings, walletStatus, userStatus, quote, status, item,
                    outbox, handler>>
  BY DEF DecideAborts, ledgerVars
<1>2. TypeOK'
  BY <1>1 DEF TypeOK, DeciderType
<1>3. InFlight'
  BY <1>1 DEF InFlight, FlightOK, SnapshotHolds
<1>4. Held'
  BY <1>1 DEF Bookkeeping, Held, Idle, TypeOK
<1>5. QED
  BY <1>1, <1>2, <1>3, <1>4, QuietStep

-----------------------------------------------------------------------------
(***************************************************************************)
(* The theorems.                                                           *)
(***************************************************************************)
\* The invariant holds of the seeded database.
LEMMA InitIInv == Init => IInv
<1> SUFFICES ASSUME Init PROVE IInv
  OBVIOUS
<1>1. TypeOK
  BY ConstantsAssumption DEF Init, TypeOK, HandlerType, DeciderType, Memos
<1>2. InFlight /\ Held
  BY DEF Init, InFlight, FlightOK, Held, Idle
<1>3. NoOverdraft
  BY ConstantsAssumption DEF Init, NoOverdraft
<1>4. QuoteSpentOnce /\ PendingIsReserved
  BY DEF Init, QuoteSpentOnce, PendingIsReserved
<1>5. Untouched /\ DebitedOnce /\ DispatchIsFunded
  BY DEF Init, Untouched, DebitedOnce, DispatchIsFunded, Debits, Memos
<1>6. QED
  BY <1>1, <1>2, <1>3, <1>4, <1>5 DEF IInv, Bookkeeping

\* Every step of the API preserves the invariant.
LEMMA StepIInv == IInv /\ [Next]_vars => IInv'
<1> SUFFICES ASSUME IInv, [Next]_vars PROVE IInv'
  OBVIOUS
<1>1. ASSUME UNCHANGED vars PROVE IInv'
  BY <1>1 DEF vars, IInv, TypeOK, InFlight, FlightOK, SnapshotHolds, NoOverdraft,
     QuoteSpentOnce, Bookkeeping, Untouched, Held, DebitedOnce, Debits, PendingIsReserved,
     DispatchIsFunded
<1>2. ASSUME NEW q \in Quotes, CreateQuote(q) \/ Lapse(q) PROVE IInv'
  BY <1>2, QuoteStep
<1>3. ASSUME NEW h \in Handlers, HandlerStep(h) PROVE IInv'
  <2>1. ASSUME NEW k \in Keys, Replay(h, k) PROVE IInv'
    BY <1>1, <2>1 DEF Replay
  <2>2. ASSUME NEW k \in Keys, Check(h, k) PROVE IInv'
    BY <2>2, CheckStep
  <2>3. CASE Enter(h)
    BY <2>3, EnterStep
  <2>4. CASE SettleTransfer(h)
    BY <2>4, SettleTransferStep
  <2>5. CASE QueueTransfer(h)
    BY <2>5, QueueTransferStep
  <2>6. CASE SendWithdrawal(h)
    BY <2>6, SendWithdrawalStep
  <2>7. CASE ReserveWithdrawal(h)
    BY <2>7, ReserveWithdrawalStep
  <2>8. CASE Abort(h)
    BY <2>8, AbortStep
  <2>9. QED
    BY <1>3, <2>1, <2>2, <2>3, <2>4, <2>5, <2>6, <2>7, <2>8 DEF HandlerStep
<1>4. ASSUME NEW d \in Deciders, DeciderStep(d) PROVE IInv'
  <2>1. ASSUME NEW k \in Keys, NEW decision \in {"APPROVED", "REJECTED"},
               ReadItem(d, k, decision)
        PROVE  IInv'
    BY <2>1, ReadItemStep
  <2>2. CASE ApproveWithdrawal(d)
    BY <2>2, ApproveWithdrawalStep
  <2>3. CASE RejectWithdrawal(d)
    BY <2>3, RejectWithdrawalStep
  <2>4. CASE DecideTransfer(d)
    BY <2>4, DecideTransferStep
  <2>5. CASE DecideAborts(d)
    BY <2>5, DecideAbortsStep
  <2>6. QED
    BY <1>4, <2>1, <2>2, <2>3, <2>4, <2>5 DEF DeciderStep
<1>5. ASSUME (\E u \in Users : Suspend(u)) \/ (\E w \in Wallets : OpenWallet(w)) PROVE IInv'
  BY <1>5, WalletStep
<1>6. QED
  BY <1>1, <1>2, <1>3, <1>4, <1>5 DEF Next

\* The inductive invariant holds in every reachable state.
THEOREM Invariance == Spec => []IInv
BY InitIInv, StepIInv, PTL DEF Spec

\* Every variable keeps its type (the rows the Prisma schema allows).
THEOREM TypeCorrect == Spec => []TypeOK
<1>1. IInv => TypeOK
  BY DEF IInv
<1>2. QED
  BY <1>1, Invariance, PTL

\* No interleaving of transfers, withdrawals, decisions and suspensions
\* overdraws a wallet.
THEOREM WalletsNeverOverdrawn == Spec => []NoOverdraft
<1>1. IInv => NoOverdraft
  BY DEF IInv
<1>2. QED
  BY <1>1, Invariance, PTL

\* A quote pays for at most one transaction.
THEOREM QuotesSpentOnce == Spec => []QuoteSpentOnce
<1>1. IInv => QuoteSpentOnce
  BY DEF IInv
<1>2. QED
  BY <1>1, Invariance, PTL

\* An idempotency key debits its sender's wallet at most once.
THEOREM KeysDebitOnce == Spec => []DebitedOnce
<1>1. IInv => DebitedOnce
  BY DEF IInv, Bookkeeping
<1>2. QED
  BY <1>1, Invariance, PTL

\* The money of a withdrawal that waits for an approval is in SUSPENSE.
THEOREM PendingStaysReserved == Spec => []PendingIsReserved
<1>1. IInv => PendingIsReserved
  BY DEF IInv, Bookkeeping
<1>2. QED
  BY <1>1, Invariance, PTL

\* Every payout job has the posting that funds it.
THEOREM DispatchesFunded == Spec => []DispatchIsFunded
<1>1. IInv => DispatchIsFunded
  BY DEF IInv, Bookkeeping
<1>2. QED
  BY <1>1, Invariance, PTL

\* Only a commit that debits takes money from a wallet, and only from the
\* sender's, which is ACTIVE.
LEMMA DebitNeedsActive ==
    ASSUME IInv, NEW h \in Handlers, NEW k, k = handler[h].key,
           SettleTransfer(h) \/ SendWithdrawal(h) \/ ReserveWithdrawal(h)
    PROVE  /\ \A w \in Wallets \ {Source(k)} : balance'[w] >= balance[w]
           /\ walletStatus[Source(k)] = "ACTIVE"
<1> USE DEF IInv
<1>1. MayCommit(h) /\ Commit(h) /\ (~IsTransfer(k) \/ ~handler[h].review)
  BY DEF SettleTransfer, SendWithdrawal, ReserveWithdrawal, Reserve
<1>2. k \in Keys
  BY <1>1, CommitFacts
<1>3. /\ balance' \in [Accounts -> Int]
      /\ \A w \in Wallets \ {Source(k)} : balance'[w] >= balance[w]
      /\ balance'[Source(k)] >= balance[Source(k)] - Debit(k)
  <2>1. CASE SettleTransfer(h)
    BY <1>2, <2>1, LegFacts DEF SettleTransfer, Post
  <2>2. CASE SendWithdrawal(h)
    BY <1>2, <2>2, LegFacts DEF SendWithdrawal, Post
  <2>3. CASE ReserveWithdrawal(h)
    BY <1>2, <2>3, LegFacts DEF ReserveWithdrawal, Reserve, Post
  <2>4. QED
    BY <2>1, <2>2, <2>3
<1>4. QED
  BY <1>1, <1>3, CommitCoversDebit

\* No single step takes money from a wallet that is not ACTIVE.
LEMMA FrozenStep ==
    ASSUME IInv, [Next]_vars, NEW w \in Wallets, walletStatus[w] = "FROZEN"
    PROVE  balance'[w] >= balance[w]
<1> USE DEF IInv
<1>1. balance[w] \in Int
  BY DEF TypeOK, Accounts
<1>2. CASE balance' = balance
  BY <1>1, <1>2
<1>3. ASSUME NEW h \in Handlers,
             SettleTransfer(h) \/ SendWithdrawal(h) \/ ReserveWithdrawal(h)
      PROVE  balance'[w] >= balance[w]
  BY <1>3, DebitNeedsActive
<1>4. ASSUME NEW d \in Deciders, ApproveWithdrawal(d) \/ RejectWithdrawal(d)
      PROVE  balance'[w] >= balance[w]
  <2>1. decider[d].pc = "read"
    BY <1>4 DEF ApproveWithdrawal, RejectWithdrawal
  <2>2. decider[d].key \in Keys
    BY <2>1, DeciderFacts
  <2>3. QED
    BY <1>4, <2>2, LegFacts DEF ApproveWithdrawal, RejectWithdrawal, Post
<1>5. QED
  BY <1>2, <1>3, <1>4 DEF Next, HandlerStep, DeciderStep, vars, ledgerVars, CreateQuote, Lapse,
     Replay, Check, Enter, QueueTransfer, Abort, ReadItem, DecideTransfer, DecideAborts,
     Suspend, OpenWallet

\* A frozen wallet is never debited, even by a request that read it ACTIVE.
THEOREM FrozenWalletsKeepFunds == Spec => FrozenKeepsFunds
<1>1. IInv /\ [Next]_vars =>
         [\A w \in Wallets : walletStatus[w] = "FROZEN" => balance'[w] >= balance[w]]_vars
  BY FrozenStep
<1>2. QED
  BY <1>1, Invariance, PTL DEF Spec, FrozenKeepsFunds

-----------------------------------------------------------------------------
(***************************************************************************)
(* The books.  Every posting is a chain of moves on accounts of one        *)
(* currency, and what they move adds up to nothing.                        *)
(***************************************************************************)
Moved(b, a, n) == [b EXCEPT ![a] = @ + n]

LEMMA AccountsFinite ==
    ASSUME NEW c \in Currencies
    PROVE  IsFiniteSet(AccountsIn(c)) /\ AccountsIn(c) \subseteq Accounts
<1>1. IsFiniteSet(Wallets)
  BY FinitelyManyRows, FS_Product DEF Wallets
<1>2. IsFiniteSet(SystemKinds)
  <2>1. SystemKinds = (({} \cup {"SUSPENSE"}) \cup {"EXTERNAL_RAIL"}) \cup {"SYSTEM_FEE"}
    BY DEF SystemKinds
  <2>2. IsFiniteSet({} \cup {"SUSPENSE"})
    BY FS_EmptySet, FS_AddElement
  <2>3. IsFiniteSet(({} \cup {"SUSPENSE"}) \cup {"EXTERNAL_RAIL"})
    BY <2>2, FS_AddElement
  <2>4. QED
    BY <2>1, <2>3, FS_AddElement
<1>3. IsFiniteSet(System)
  <2>1. IsFiniteSet(SystemKinds \X Currencies)
    BY <1>2, FinitelyManyRows, FS_Product
  <2>2. QED
    BY <2>1, ConstantsAssumption, FS_Subset
<1>4. IsFiniteSet(Accounts)
  BY <1>1, <1>3, FS_Union DEF Accounts
<1>5. AccountsIn(c) \in SUBSET Accounts
  BY DEF AccountsIn
<1>6. QED
  BY <1>4, <1>5, FS_Subset

\* A move of n on an account changes the sum of its currency by n, and no
\* other sum.
LEMMA MovedSum ==
    ASSUME NEW b \in [Accounts -> Int], NEW a \in Accounts, NEW n \in Int,
           NEW c \in Currencies
    PROVE  /\ Moved(b, a, n) \in [Accounts -> Int]
           /\ SumFunctionOnSet(b, AccountsIn(c)) \in Int
           /\ SumFunctionOnSet(Moved(b, a, n), AccountsIn(c)) =
                 SumFunctionOnSet(b, AccountsIn(c)) + IF a[2] = c THEN n ELSE 0
<1> DEFINE in == AccountsIn(c)
<1>1. IsFiniteSet(in) /\ \A x \in in : x \in Accounts /\ b[x] \in Int
  BY AccountsFinite
<1>2. Moved(b, a, n) \in [Accounts -> Int]
  BY DEF Moved
<1>3. /\ Moved(b, a, n)[a] = b[a] + n
      /\ \A x \in Accounts \ {a} : Moved(b, a, n)[x] = b[x]
  BY DEF Moved
<1>4. a \in in <=> a[2] = c
  BY DEF AccountsIn
<1> HIDE DEF in
<1>5. SumFunctionOnSet(b, in) \in Int
  BY <1>1, SumType
<1>6. CASE a \in in
  <2>1. SumFunctionOnSet(Moved(b, a, n), in) =
            SumFunctionOnSet(b, in) + Moved(b, a, n)[a] - b[a]
    <3>1. \A x \in in : b[x] \in Int
      BY <1>1
    <3>2. Moved(b, a, n)[a] \in Int /\ \A x \in in \ {a} : Moved(b, a, n)[x] = b[x]
      BY <1>1, <1>3
    <3>3. QED
      BY <1>1, <1>6, <3>1, <3>2, SumExcept
  <2>2. QED
    BY <1>2, <1>3, <1>4, <1>5, <1>6, <2>1 DEF in
<1>7. CASE a \notin in
  <2>1. \A x \in in : b[x] \in Int /\ b[x] = Moved(b, a, n)[x]
    BY <1>1, <1>3, <1>7
  <2>2. SumFunctionOnSet(b, in) = SumFunctionOnSet(Moved(b, a, n), in)
    BY <1>1, <2>1, SumSame
  <2>3. QED
    BY <1>2, <1>4, <1>5, <1>7, <2>2 DEF in
<1>8. QED
  BY <1>6, <1>7

\* From the balances b, g takes out of account a1 what it puts into a2 and
\* a3, three accounts of one currency.
IsPosting(b, g, a1, a2, n2, a3, n3) ==
    /\ b \in [Accounts -> Int] /\ g \in [Accounts -> Int]
    /\ a1 \in Accounts /\ a2 \in Accounts /\ a3 \in Accounts
    /\ n2 \in Int /\ n3 \in Int
    /\ a1[2] = a2[2] /\ a2[2] = a3[2]
    /\ a1 # a2 /\ a2 # a3 /\ a1 # a3
    /\ g[a1] = b[a1] - (n2 + n3) /\ g[a2] = b[a2] + n2 /\ g[a3] = b[a3] + n3
    /\ \A a \in Accounts \ {a1, a2, a3} : g[a] = b[a]

\* The same with two accounts.
IsTransferOf(b, g, a1, a2, n) ==
    /\ b \in [Accounts -> Int] /\ g \in [Accounts -> Int]
    /\ a1 \in Accounts /\ a2 \in Accounts /\ n \in Int
    /\ a1[2] = a2[2] /\ a1 # a2
    /\ g[a1] = b[a1] - n /\ g[a2] = b[a2] + n
    /\ \A a \in Accounts \ {a1, a2} : g[a] = b[a]

LEMMA TransferBalances ==
    ASSUME NEW b, NEW g, NEW a1, NEW a2, NEW n, NEW c \in Currencies,
           IsTransferOf(b, g, a1, a2, n)
    PROVE  SumFunctionOnSet(g, AccountsIn(c)) = SumFunctionOnSet(b, AccountsIn(c))
<1> USE DEF IsTransferOf
<1> DEFINE m == -n
           b1 == Moved(b, a1, m)
           b2 == Moved(b1, a2, n)
           Sum(f) == SumFunctionOnSet(f, AccountsIn(c))
<1>1. m \in Int /\ m + n = 0 /\ b[a1] + m = b[a1] - n
  OBVIOUS
<1> HIDE DEF m
<1>2. /\ b1 \in [Accounts -> Int] /\ b1[a1] = b[a1] + m
      /\ \A a \in Accounts \ {a1} : b1[a] = b[a]
  BY <1>1 DEF Moved
<1>3. Sum(b) \in Int /\ Sum(b1) = Sum(b) + IF a1[2] = c THEN m ELSE 0
  BY <1>1, MovedSum
<1> HIDE DEF b1
<1>4. /\ b2 \in [Accounts -> Int] /\ b2[a2] = b1[a2] + n
      /\ \A a \in Accounts \ {a2} : b2[a] = b1[a]
  BY <1>2 DEF Moved
<1>5. Sum(b2) = Sum(b1) + IF a2[2] = c THEN n ELSE 0
  BY <1>2, MovedSum
<1> HIDE DEF b2
<1>6. \A a \in Accounts : g[a] \in Int /\ g[a] = b2[a]
  BY <1>1, <1>2, <1>4
<1>7. Sum(g) = Sum(b2)
  BY <1>6, AccountsFinite, SumSame
<1> HIDE DEF Sum
<1>8. Sum(g) = Sum(b)
  BY <1>1, <1>3, <1>5, <1>7
<1>9. QED
  BY <1>8 DEF Sum

\* A posting of three entries is two transfers out of one account.
LEMMA PostingBalances ==
    ASSUME NEW b, NEW g, NEW a1, NEW a2, NEW n2, NEW a3, NEW n3, NEW c \in Currencies,
           IsPosting(b, g, a1, a2, n2, a3, n3)
    PROVE  SumFunctionOnSet(g, AccountsIn(c)) = SumFunctionOnSet(b, AccountsIn(c))
<1> USE DEF IsPosting
<1> DEFINE e == [a \in Accounts |->
                    IF a = a1 THEN b[a] - n2 ELSE IF a = a2 THEN b[a] + n2 ELSE b[a]]
<1>1. e \in [Accounts -> Int]
  OBVIOUS
<1>2. /\ e[a1] = b[a1] - n2 /\ e[a2] = b[a2] + n2
      /\ \A a \in Accounts \ {a1, a2} : e[a] = b[a]
  OBVIOUS
<1> HIDE DEF e
<1>3. IsTransferOf(b, e, a1, a2, n2)
  BY <1>1, <1>2 DEF IsTransferOf
<1>4. IsTransferOf(e, g, a1, a3, n3)
  BY <1>1, <1>2 DEF IsTransferOf
<1>5. QED
  BY <1>3, <1>4, TransferBalances

\* Each posting keeps the books, if a transfer is between two wallets.
LEMMA LegsBalance ==
    ASSUME TypeOK, NEW k \in Keys, NEW c \in Currencies
    PROVE  LET total(b) == SumFunctionOnSet(b, AccountsIn(c))
           IN  /\ /\ IsTransfer(k) /\ Order[k].user # Order[k].to
                  /\ SystemAccounts({"SYSTEM_FEE"}, k) \subseteq System
                  => total(TransferLegs(k)) = total(balance)
               /\ /\ ~IsTransfer(k)
                  /\ SystemAccounts({"EXTERNAL_RAIL", "SYSTEM_FEE"}, k) \subseteq System
                  => total(SendLegs(k)) = total(balance)
               /\ SystemAccounts({"SUSPENSE"}, k) \subseteq System =>
                     /\ total(ReserveLegs(k)) = total(balance)
                     /\ total(RejectLegs(k)) = total(balance)
               /\ SystemAccounts(SystemKinds, k) \subseteq System =>
                     total(ApproveLegs(k)) = total(balance)
<1> DEFINE fee == SystemAccount("SYSTEM_FEE", k)
           rail == SystemAccount("EXTERNAL_RAIL", k)
           suspense == SystemAccount("SUSPENSE", k)
           total(b) == SumFunctionOnSet(b, AccountsIn(c))
           source == Source(k)
           target == Target(k)
           amount == TermsOf(k).amount
           receive == TermsOf(k).receive
           charge == TermsOf(k).fee
<1>1. /\ SystemAccounts({"SYSTEM_FEE"}, k) = {fee}
      /\ SystemAccounts({"EXTERNAL_RAIL", "SYSTEM_FEE"}, k) = {rail, fee}
      /\ SystemAccounts({"SUSPENSE"}, k) = {suspense}
      /\ SystemAccounts(SystemKinds, k) = {suspense, rail, fee}
  BY DEF SystemAccounts, SystemKinds
<1>2. /\ source[2] = Currency(k) /\ target[2] = Currency(k)
      /\ fee[2] = Currency(k) /\ rail[2] = Currency(k) /\ suspense[2] = Currency(k)
  BY DEF Source, Target, SystemAccount
<1>3. /\ balance \in [Accounts -> Int]
      /\ source \in Accounts /\ target \in Accounts /\ System \subseteq Accounts
  BY RequestFacts DEF TypeOK, Accounts
<1>4. /\ fee # rail /\ fee # suspense /\ rail # suspense
      /\ source # fee /\ source # rail /\ source # suspense /\ target # fee
      /\ Order[k].user # Order[k].to => source # target
  <2>1. source \in Wallets /\ target \in Wallets
    BY RequestFacts
  <2>2. fee \notin Wallets /\ rail \notin Wallets /\ suspense \notin Wallets
    BY SystemIsNotWallet DEF SystemKinds
  <2>3. fee # rail /\ fee # suspense /\ rail # suspense
    BY DEF SystemAccount
  <2>4. Order[k].user # Order[k].to => source # target
    BY DEF Source, Target
  <2>5. QED
    BY <2>1, <2>2, <2>3, <2>4
<1>5. /\ Debit(k) \in Int /\ Release(k) \in Int /\ RailShare(k) \in Int
      /\ receive \in Int /\ charge \in Int /\ amount \in Int
      /\ Debit(k) = IF IsTransfer(k) THEN receive + charge ELSE amount
      /\ Release(k) = charge + receive
      /\ RailShare(k) = amount - charge
  <2>1. TermsOf(k) \in TermsType
    BY RequestFacts, ConstantsAssumption DEF TermsOf
  <2>2. amount \in Nat
    BY <2>1 DEF TermsType
  <2>3. QED
    BY <2>2, RequestFacts DEF Debit, Release, RailShare
<1> HIDE DEF fee, rail, suspense, source, target, amount, receive, charge
<1>6. ASSUME fee \in System, IsTransfer(k), Order[k].user # Order[k].to
      PROVE  total(TransferLegs(k)) = total(balance)
  <2>1. receive + charge = Debit(k)
    BY <1>5, <1>6
  <2>2. TransferLegs(k) = [balance EXCEPT ![source] = @ - Debit(k), ![target] = @ + receive,
                                          ![fee] = @ + charge]
    BY DEF TransferLegs, fee, source, target, receive, charge
  <2>3. IsPosting(balance, TransferLegs(k), source, target, receive, fee, charge)
    BY <1>2, <1>3, <1>4, <1>5, <1>6, <2>1, <2>2 DEF IsPosting
  <2>4. QED
    BY <2>3, PostingBalances
<1>7. ASSUME rail \in System, fee \in System, ~IsTransfer(k)
      PROVE  total(SendLegs(k)) = total(balance)
  <2>1. RailShare(k) + charge = Debit(k)
    BY <1>5, <1>7
  <2>2. SendLegs(k) = [balance EXCEPT ![source] = @ - Debit(k), ![rail] = @ + RailShare(k),
                                      ![fee] = @ + charge]
    BY DEF SendLegs, fee, source, rail, charge
  <2>3. IsPosting(balance, SendLegs(k), source, rail, RailShare(k), fee, charge)
    BY <1>2, <1>3, <1>4, <1>5, <1>7, <2>1, <2>2 DEF IsPosting
  <2>4. QED
    BY <2>3, PostingBalances
<1>8. ASSUME suspense \in System
      PROVE  total(ReserveLegs(k)) = total(balance)
  <2>1. ReserveLegs(k) = [balance EXCEPT ![source] = @ - Debit(k), ![suspense] = @ + Debit(k)]
    BY DEF ReserveLegs, suspense, source
  <2>2. IsTransferOf(balance, ReserveLegs(k), source, suspense, Debit(k))
    BY <1>2, <1>3, <1>4, <1>5, <1>8, <2>1 DEF IsTransferOf
  <2>3. QED
    BY <2>2, TransferBalances
<1>9. ASSUME suspense \in System
      PROVE  total(RejectLegs(k)) = total(balance)
  <2>1. RejectLegs(k) = [balance EXCEPT ![suspense] = @ - Release(k), ![source] = @ + Release(k)]
    BY DEF RejectLegs, suspense, source
  <2>2. IsTransferOf(balance, RejectLegs(k), suspense, source, Release(k))
    BY <1>2, <1>3, <1>4, <1>5, <1>9, <2>1 DEF IsTransferOf
  <2>3. QED
    BY <2>2, TransferBalances
<1>10. ASSUME suspense \in System, rail \in System, fee \in System
       PROVE  total(ApproveLegs(k)) = total(balance)
  <2>1. receive + charge = Release(k)
    BY <1>5
  <2>2. ApproveLegs(k) = [balance EXCEPT ![suspense] = @ - Release(k), ![rail] = @ + receive,
                                         ![fee] = @ + charge]
    BY DEF ApproveLegs, fee, suspense, rail, receive, charge
  <2>3. IsPosting(balance, ApproveLegs(k), suspense, rail, receive, fee, charge)
    BY <1>2, <1>3, <1>4, <1>5, <1>10, <2>1, <2>2 DEF IsPosting
  <2>4. QED
    BY <2>3, PostingBalances
<1> HIDE DEF total
<1>11. QED
  BY <1>1, <1>6, <1>7, <1>8, <1>9, <1>10 DEF total

\* A transfer past its first check is between two users.
TwoSided ==
    \A h \in Handlers :
        handler[h].pc # "idle" /\ IsTransfer(handler[h].key) =>
            Order[handler[h].key].user # Order[handler[h].key].to

LEMMA TwoSidedStep ==
    ASSUME TypeOK, TwoSided, [Next]_vars
    PROVE  TwoSided'
<1> SUFFICES ASSUME NEW h \in Handlers
             PROVE  \/ handler'[h].pc = "idle"
                    \/ handler[h].pc # "idle" /\ handler'[h].key = handler[h].key
                    \/ IsTransfer(handler'[h].key) =>
                          Order[handler'[h].key].user # Order[handler'[h].key].to
  BY DEF TwoSided, IsTransfer
<1>1. CASE handler' = handler
  BY <1>1, HandlerFacts DEF TwoSided
<1>2. ASSUME NEW rows, handler'[h] = Disturb(handler[h], rows)
      PROVE  handler'[h].pc = "idle" \/ (handler[h].pc # "idle" /\ handler'[h].key = handler[h].key)
  <2>1. handler[h] \in HandlerType
    BY DEF TypeOK
  <2>2. /\ handler'[h].pc = handler[h].pc
        /\ handler[h].pc # "entered" => handler'[h] = handler[h]
        /\ handler[h].pc = "entered" => handler'[h].key = handler[h].key
    BY <1>2, <2>1, DisturbFacts
  <2>3. QED
    BY <2>2
<1>3. ASSUME NEW g \in Handlers, Commit(g)
      PROVE  handler'[h].pc = "idle" \/ (handler[h].pc # "idle" /\ handler'[h].key = handler[h].key)
  <2>1. handler'[h] = Idle \/ handler'[h] = Disturb(handler[h], handler[g].writes)
    BY <1>3 DEF Commit
  <2>2. QED
    BY <1>2, <2>1 DEF Idle
<1>4. ASSUME NEW g \in Handlers, NEW k \in Keys, Check(g, k)
      PROVE  \/ handler'[h] = handler[h]
             \/ handler'[h].key = k /\ (IsTransfer(k) => Order[k].user # Order[k].to)
  <2>1. handler' = [handler EXCEPT ![g] = Checked(k)]
        /\ (IsTransfer(k) => Order[k].user # Order[k].to)
    BY <1>4 DEF Check
  <2>2. QED
    BY <2>1 DEF Checked, TypeOK
<1>5. ASSUME NEW g \in Handlers, Enter(g)
      PROVE  handler'[h] = handler[h] \/ (handler[h].pc # "idle" /\ handler'[h].key = handler[h].key)
  <2>1. PICK review \in BOOLEAN :
           /\ handler[g].pc = "checked"
           /\ handler' = [handler EXCEPT ![g] = Entered(handler[g].key, review,
                                                   WriteSet(handler[g].key, review))]
    BY <1>5 DEF Enter
  <2>2. QED
    BY <2>1 DEF Entered, TypeOK
<1>6. ASSUME NEW g \in Handlers, handler' = [handler EXCEPT ![g] = Idle]
      PROVE  handler'[h] = handler[h] \/ handler'[h].pc = "idle"
  BY <1>6 DEF Idle, TypeOK
<1>7. CASE handler'[h] = handler[h]
  BY <1>7 DEF TwoSided
<1>8. \/ handler' = handler
      \/ \E rows : handler' = [x \in Handlers |-> Disturb(handler[x], rows)]
      \/ \E g \in Handlers : \/ Commit(g) \/ Enter(g)
                             \/ \E k \in Keys : Check(g, k)
                             \/ handler' = [handler EXCEPT ![g] = Idle]
  <2>1. CASE UNCHANGED vars
    BY <2>1 DEF vars
  <2>2. CASE \E q \in Quotes : CreateQuote(q) \/ Lapse(q)
    BY <2>2 DEF CreateQuote, Lapse
  <2>3. CASE \E g \in Handlers : HandlerStep(g)
    BY <2>3 DEF HandlerStep, Replay, SettleTransfer, QueueTransfer, SendWithdrawal,
       ReserveWithdrawal, Reserve, Abort, vars
  <2>4. ASSUME NEW d \in Deciders, DeciderStep(d)
        PROVE  \/ handler' = handler
               \/ \E rows : handler' = [x \in Handlers |-> Disturb(handler[x], rows)]
    <3>1. CASE \E k \in Keys, decision \in {"APPROVED", "REJECTED"} : ReadItem(d, k, decision)
      BY <3>1 DEF ReadItem
    <3>2. CASE ApproveWithdrawal(d) \/ RejectWithdrawal(d) \/ DecideTransfer(d)
      <4>1. Decide(d, {}) \/ Decide(d, {Source(decider[d].key)})
        BY <3>2 DEF ApproveWithdrawal, RejectWithdrawal, DecideTransfer
      <4>2. QED
        BY <4>1 DEF Decide
    <3>3. CASE DecideAborts(d)
      BY <3>3 DEF DecideAborts
    <3>4. QED
      BY <2>4, <3>1, <3>2, <3>3 DEF DeciderStep
  <2>5. CASE \E u \in Users : Suspend(u)
    BY <2>5 DEF Suspend
  <2>6. CASE \E w \in Wallets : OpenWallet(w)
    BY <2>6 DEF OpenWallet
  <2>7. QED
    BY <2>1, <2>2, <2>3, <2>4, <2>5, <2>6 DEF Next
<1>9. CASE \E rows : handler' = [x \in Handlers |-> Disturb(handler[x], rows)]
  BY <1>2, <1>9
<1>10. QED
  BY <1>1, <1>3, <1>4, <1>5, <1>6, <1>7, <1>8, <1>9

\* Only the five postings change a balance.
LEMMA BooksStep ==
    ASSUME IInv, TwoSided, BooksBalance, [Next]_vars
    PROVE  BooksBalance'
<1> USE DEF IInv
<1> SUFFICES ASSUME NEW c \in Currencies
             PROVE  SumFunctionOnSet(balance', AccountsIn(c)) =
                       SumFunctionOnSet(balance, AccountsIn(c))
  BY DEF BooksBalance, AccountsIn
<1> DEFINE total(b) == SumFunctionOnSet(b, AccountsIn(c))
<1>1. CASE balance' = balance
  BY <1>1
<1>2. ASSUME NEW h \in Handlers, SettleTransfer(h)
      PROVE  total(balance') = total(balance)
  <2> DEFINE k == handler[h].key
  <2>1. k \in Keys /\ IsTransfer(k) /\ balance' = TransferLegs(k)
        /\ SystemAccounts({"SYSTEM_FEE"}, k) \subseteq System
        /\ Order[k].user # Order[k].to
    BY <1>2, HandlerFacts DEF SettleTransfer, MayCommit, Post, TwoSided
  <2> HIDE DEF k
  <2>2. QED
    BY <2>1, LegsBalance
<1>3. ASSUME NEW h \in Handlers, SendWithdrawal(h)
      PROVE  total(balance') = total(balance)
  <2> DEFINE k == handler[h].key
  <2>1. k \in Keys /\ ~IsTransfer(k) /\ balance' = SendLegs(k)
        /\ SystemAccounts({"EXTERNAL_RAIL", "SYSTEM_FEE"}, k) \subseteq System
    BY <1>3, HandlerFacts DEF SendWithdrawal, MayCommit, Post
  <2> HIDE DEF k
  <2>2. QED
    BY <2>1, LegsBalance
<1>4. ASSUME NEW h \in Handlers, ReserveWithdrawal(h)
      PROVE  total(balance') = total(balance)
  <2> DEFINE k == handler[h].key
  <2>1. k \in Keys /\ balance' = ReserveLegs(k)
        /\ SystemAccounts({"SUSPENSE"}, k) \subseteq System
    BY <1>4, HandlerFacts DEF ReserveWithdrawal, Reserve, MayCommit, Post
  <2> HIDE DEF k
  <2>2. QED
    BY <2>1, LegsBalance
<1>5. ASSUME NEW d \in Deciders, ApproveWithdrawal(d)
      PROVE  total(balance') = total(balance)
  <2> DEFINE k == decider[d].key
  <2>1. k \in Keys /\ balance' = ApproveLegs(k)
        /\ SystemAccounts(SystemKinds, k) \subseteq System
    BY <1>5, DeciderFacts DEF ApproveWithdrawal, Post
  <2> HIDE DEF k
  <2>2. QED
    BY <2>1, LegsBalance
<1>6. ASSUME NEW d \in Deciders, RejectWithdrawal(d)
      PROVE  total(balance') = total(balance)
  <2> DEFINE k == decider[d].key
  <2>1. k \in Keys /\ balance' = RejectLegs(k)
        /\ SystemAccounts({"SUSPENSE"}, k) \subseteq System
    BY <1>6, DeciderFacts DEF RejectWithdrawal, Post
  <2> HIDE DEF k
  <2>2. QED
    BY <2>1, LegsBalance
<1>7. QED
  BY <1>1, <1>2, <1>3, <1>4, <1>5, <1>6 DEF Next, HandlerStep, DeciderStep, vars, ledgerVars,
     CreateQuote, Lapse, Replay, Check, Enter, QueueTransfer, Abort, ReadItem, DecideTransfer,
     DecideAborts, Suspend, OpenWallet

\* In each currency the accounts of users and system together are worth
\* what they were worth at the start, whichever way a withdrawal is booked.
THEOREM BooksAlwaysBalance == Spec => []BooksBalance
<1>1. Init => BooksBalance /\ TwoSided
  BY DEF Init, BooksBalance, TwoSided, Idle
<1>2. IInv /\ TwoSided /\ [Next]_vars => TwoSided'
  BY TwoSidedStep DEF IInv
<1>3. IInv /\ TwoSided /\ BooksBalance /\ [Next]_vars => BooksBalance'
  BY BooksStep
<1>4. QED
  BY <1>1, <1>2, <1>3, Invariance, PTL DEF Spec
=============================================================================
