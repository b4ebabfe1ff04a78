------------------------------ MODULE Deposits ------------------------------
(***************************************************************************)
(* The chain indexer, which credits wallets for deposits, next to the      *)
(* postings of the services and to the drift job of reconciliation.ts.     *)
(*                                                                         *)
(* LedgerService.post recomputes Wallet.availableBalance from the ledger.  *)
(* The services post under SERIALIZABLE: a transaction whose wallet row    *)
(* was written since its snapshot cannot commit.  The indexer opens its    *)
(* transaction with the default, READ COMMITTED: the sum it reads may be   *)
(* old when it writes the row, and nothing makes it abort.  So the         *)
(* projection and the ledger are two variables here.                       *)
(*                                                                         *)
(* The rows of stablecoin_deposits are there from the start: no code of    *)
(* the repository writes them.                                             *)
(***************************************************************************)
EXTENDS Integers, FiniteSets

CONSTANTS
    Wallets, Deposits,
    Moves,       \* transfers between two wallets, each made once, one at a time
    Indexers,    \* processes that run the indexer loop
    Deposit,     \* wallet, amount and requiredConfirmations of a deposit
    Move,        \* the two wallets and the amount of a move
    Opened,      \* the wallets that exist at the start
    Opening,     \* ledger balance of each wallet at the start
    Batch,       \* how many pending deposits a tick takes
    Faults,      \* bound on failed calls, stopped indexers, dropped blocks
    MaxCredits   \* bound on the credits of one deposit

ASSUME ConstantsAssumption ==
    /\ Deposit \in [Deposits -> [to : Wallets, amount : Nat, required : Nat \ {0}]]
    /\ Move \in [Moves -> [from : Wallets, to : Wallets, amount : Nat]]
    /\ \A m \in Moves : Move[m].from # Move[m].to
    /\ Opened \subseteq Wallets
    /\ Opening \in [Wallets -> Nat]
    /\ Batch \in Nat \ {0}
    /\ Faults \in Nat
    /\ MaxCredits \in Nat \ {0}

VARIABLES
    depth,      \* confirmations of each deposit on its chain
    row,        \* StablecoinDeposit: status and confirmations
    credits,    \* per deposit: postings of the indexer
    ledger,     \* per wallet: credits minus debits of its account
    available,  \* Wallet.availableBalance
    opened,     \* the wallets that have a row
    made,       \* the moves whose transaction exists
    indexer,    \* each process of the indexer loop
    mover,      \* the open transaction of a transfer
    job,        \* the drift job, for any one of the wallets it reads
    faults,     \* faults so far
    overlapped  \* two ticks have run at the same time

chainVars  == <<depth, row, credits>>
walletVars == <<ledger, available, opened>>
vars == <<depth, row, credits, ledger, available, opened, made, indexer, mover,
          job, faults, overlapped>>

Idle == [pc |-> "idle"]

\* A row as the tick read it.
Pending == [dep : Deposits, confirmations : Nat]

Walking(batch) == [pc |-> "walking", batch |-> batch]
Asked(batch, d, c) == [pc |-> "asked", batch |-> batch, dep |-> d, seen |-> c]
Posting(batch, d, c, sum) ==
    [pc |-> "posting", batch |-> batch, dep |-> d, seen |-> c, sum |-> sum]

IndexerType ==
    {Idle} \cup [pc : {"walking"}, batch : SUBSET Pending] \cup
    [pc : {"asked"}, batch : SUBSET Pending, dep : Deposits, seen : Nat] \cup
    [pc : {"posting"}, batch : SUBSET Pending, dep : Deposits, seen : Nat,
     sum : Int]

\* The sums of both wallets as the transaction will project them.
InMove(m, from, to) ==
    [pc |-> "open", move |-> m, from |-> from, to |-> to, doomed |-> FALSE]
MoverType ==
    {Idle} \cup [pc : {"open"}, move : Moves, from : Int, to : Int, doomed : BOOLEAN]

\* quiet: no posting has touched the wallet since its row was read.
HasRead(w, cached) ==
    [pc |-> "read", wallet |-> w, cached |-> cached, quiet |-> TRUE]
HasSummed(w, alarm, quiet) ==
    [pc |-> "summed", wallet |-> w, alarm |-> alarm, quiet |-> quiet]
JobType ==
    {Idle} \cup [pc : {"read"}, wallet : Wallets, cached : Int, quiet : BOOLEAN] \cup
    [pc : {"summed"}, wallet : Wallets, alarm : BOOLEAN, quiet : BOOLEAN]

Confirmations(d) == 0..Deposit[d].required

TypeOK ==
    /\ depth \in [Deposits -> Nat]
    /\ row \in [Deposits -> [status : {"DETECTED", "CONFIRMING", "CREDITED"},
                             confirmations : Nat]]
    /\ \A d \in Deposits : {depth[d], row[d].confirmations} \subseteq Confirmations(d)
    /\ credits \in [Deposits -> 0..MaxCredits]
    /\ ledger \in [Wallets -> Int]
    /\ available \in [Wallets -> Int]
    /\ opened \subseteq Wallets
    /\ made \subseteq Moves
    /\ indexer \in [Indexers -> IndexerType]
    /\ mover \in MoverType
    /\ job \in JobType
    /\ faults \in 0..Faults
    /\ overlapped \in BOOLEAN

Init ==
    /\ depth = [d \in Deposits |-> 0]
    /\ row = [d \in Deposits |-> [status |-> "DETECTED", confirmations |-> 0]]
    /\ credits = [d \in Deposits |-> 0]
    /\ ledger = Opening
    /\ available = Opening
    /\ opened = Opened
    /\ made = {}
    /\ indexer = [i \in Indexers |-> Idle]
    /\ mover = Idle
    /\ job = Idle
    /\ faults = 0
    /\ overlapped = FALSE

-----------------------------------------------------------------------------
(***************************************************************************)
(* A posting writes the rows of the wallets it touches.  Every transaction *)
(* open on one of them under SERIALIZABLE is doomed, and what the drift    *)
(* job has read of them is out of date.                                    *)
(***************************************************************************)
WalletsOfMove(m) == {Move[m].from, Move[m].to}

DoomNone(rows) == UNCHANGED mover

Doom(rows) ==
    mover' = IF mover # Idle /\ WalletsOfMove(mover.move) \cap rows # {}
             THEN [mover EXCEPT !.doomed = TRUE]
             ELSE mover

Disquiet(rows) ==
    job' = IF job # Idle /\ job.wallet \in rows THEN [job EXCEPT !.quiet = FALSE] ELSE job

(***************************************************************************)
(* The chain, and the wallets users open.                                  *)
(***************************************************************************)
Mine(d) ==
    /\ depth[d] < Deposit[d].required
    /\ depth' = [depth EXCEPT ![d] = @ + 1]
    /\ UNCHANGED <<row, credits, walletVars, made, indexer, mover, job, faults,
                   overlapped>>

\* Blocks that are not final yet may be dropped.
Reorganise(d) ==
    /\ depth[d] \in 1..(Deposit[d].required - 1)
    /\ faults < Faults
    /\ faults' = faults + 1
    /\ depth' = [depth EXCEPT ![d] = 0]
    /\ UNCHANGED <<row, credits, walletVars, made, indexer, mover, job, overlapped>>

OpenWallet(w) ==
    /\ w \notin opened
    /\ opened' = opened \cup {w}
    /\ Doom({w})
    /\ UNCHANGED <<chainVars, ledger, available, made, indexer, job, faults,
                   overlapped>>

(***************************************************************************)
(* The indexer.                                                            *)
(***************************************************************************)
Uncredited == {d \in Deposits : row[d].status \in {"DETECTED", "CONFIRMING"}}

\* findMany without an order: any Batch of them.
ReadPending(i) ==
    /\ indexer[i] = Idle
    /\ Uncredited # {}
    /\ \E chosen \in SUBSET Uncredited :
          /\ \/ Cardinality(chosen) = Batch
             \/ Cardinality(Uncredited) <= Batch /\ chosen = Uncredited
          /\ indexer' = [indexer EXCEPT ![i] = Walking(
                {[dep |-> d, confirmations |-> row[d].confirmations] : d \in chosen})]
    /\ overlapped' = (overlapped \/ \E j \in Indexers \ {i} : indexer[j] # Idle)
    /\ UNCHANGED <<chainVars, walletVars, made, mover, job, faults>>

\* The provider answers, or fails and the count that was read stands.
Ask(i) ==
    /\ indexer[i].pc = "walking"
    /\ \E p \in indexer[i].batch :
          LET d == p.dep
              rest == indexer[i].batch \ {p}
          IN  \/ /\ indexer' = [indexer EXCEPT ![i] = Asked(rest, d, depth[d])]
                 /\ UNCHANGED faults
              \/ /\ faults < Faults
                 /\ faults' = faults + 1
                 /\ indexer' = [indexer EXCEPT ![i] = Asked(rest, d, p.confirmations)]
    /\ UNCHANGED <<chainVars, walletVars, made, mover, job, overlapped>>

\* On to the next deposit of the batch.
Proceed(i) ==
    indexer' = [indexer EXCEPT ![i] = IF @.batch = {} THEN Idle ELSE Walking(@.batch)]

Confirmed(i) == indexer[i].seen >= Deposit[indexer[i].dep].required

NotedByAdding(d, c) ==
    [status |-> IF c > 0 THEN "CONFIRMING" ELSE "DETECTED",
     confirmations |-> row[d].confirmations + c]

Noted(d, c) ==
    [status |-> IF c > 0 THEN "CONFIRMING" ELSE "DETECTED", confirmations |-> c]

\* The row is updated by its id alone, whatever became of it since.
NoteConfirmations(i) ==
    /\ indexer[i].pc = "asked" /\ ~Confirmed(i)
    /\ LET d == indexer[i].dep
       IN  row' = [row EXCEPT ![d] = Noted(d, indexer[i].seen)]
    /\ Proceed(i)
    /\ UNCHANGED <<depth, credits, walletVars, made, mover, job, faults, overlapped>>

HasWallet(i) == Deposit[indexer[i].dep].to \in opened

\* Without a wallet the transaction returns and the deposit stays pending.
SkipDepositByThrowing(i) ==
    /\ indexer[i].pc = "asked" /\ Confirmed(i)
    /\ ~HasWallet(i)
    /\ indexer' = [indexer EXCEPT ![i] = Idle]
    /\ UNCHANGED <<chainVars, walletVars, made, mover, job, faults, overlapped>>

SkipDeposit(i) ==
    /\ indexer[i].pc = "asked" /\ Confirmed(i)
    /\ ~HasWallet(i)
    /\ Proceed(i)
    /\ UNCHANGED <<chainVars, walletVars, made, mover, job, faults, overlapped>>

\* The transaction is open: its entries are written and the sum of the
\* account is read, its own credit included.  No status is looked at.
OpenCredit(i) ==
    /\ indexer[i].pc = "asked" /\ Confirmed(i)
    /\ HasWallet(i)
    /\ LET d == indexer[i].dep
           sum == ledger[Deposit[d].to] + Deposit[d].amount
       IN  indexer' = [indexer EXCEPT ![i] =
                          Posting(@.batch, d, @.seen, sum)]
    /\ UNCHANGED <<chainVars, walletVars, made, mover, job, faults, overlapped>>

CreditedRowLost(d, c) == [row[d] EXCEPT !.confirmations = c]
CreditedRow(d, c) == [status |-> "CREDITED", confirmations |-> c]

\* The wallet row is written with that sum, and COMMIT.
CommitCredit(i) ==
    /\ indexer[i].pc = "posting"
    /\ LET d == indexer[i].dep
           w == Deposit[d].to
       IN  /\ credits[d] < MaxCredits
           /\ credits' = [credits EXCEPT ![d] = @ + 1]
           /\ row' = [row EXCEPT ![d] = CreditedRow(d, indexer[i].seen)]
           /\ ledger' = [ledger EXCEPT ![w] = @ + Deposit[d].amount]
           /\ available' = [available EXCEPT ![w] = indexer[i].sum]
           /\ Doom({w})
           /\ Disquiet({w})
    /\ Proceed(i)
    /\ UNCHANGED <<depth, opened, made, faults, overlapped>>

\* A query fails, and the tick with it, or the process dies: an open
\* transaction rolls back, and the next tick starts over.
StopTick(i) ==
    /\ indexer[i] # Idle
    /\ faults < Faults
    /\ faults' = faults + 1
    /\ indexer' = [indexer EXCEPT ![i] = Idle]
    /\ UNCHANGED <<chainVars, walletVars, made, mover, job, overlapped>>

(***************************************************************************)
(* A transfer's transaction, SERIALIZABLE: the funds test and both sums    *)
(* are of its snapshot.  The funds are those of the ledger.                *)
(***************************************************************************)
FundsOfProjection(w) == available[w]
Funds(w) == ledger[w]

EnterMove(m) ==
    LET from == Move[m].from
        to == Move[m].to
    IN  /\ mover = Idle
        /\ m \notin made
        /\ from \in opened
        /\ Funds(from) >= Move[m].amount
        /\ mover' = InMove(m, ledger[from] - Move[m].amount, ledger[to] + Move[m].amount)
        /\ UNCHANGED <<chainVars, walletVars, made, indexer, job, faults, overlapped>>

\* The receiver's wallet is created if there is none.
CommitMove ==
    LET m == mover.move
        from == Move[m].from
        to == Move[m].to
    IN  /\ mover.pc = "open" /\ ~mover.doomed
        /\ ledger' = [ledger EXCEPT ![from] = @ - Move[m].amount,
                                    ![to] = @ + Move[m].amount]
        /\ available' = [available EXCEPT ![from] = mover.from, ![to] = mover.to]
        /\ opened' = opened \cup {to}
        /\ made' = made \cup {m}
        /\ mover' = Idle
        /\ Disquiet(WalletsOfMove(m))
        /\ UNCHANGED <<chainVars, indexer, faults, overlapped>>

AbortMove ==
    /\ mover.pc = "open"
    /\ mover' = Idle
    /\ UNCHANGED <<chainVars, walletVars, made, indexer, job, faults, overlapped>>

(***************************************************************************)
(* walletProjectionDrift: all wallet rows in one query, then the sums of   *)
(* one wallet after the other, in no transaction.                          *)
(***************************************************************************)
ReadWallet(w) ==
    /\ job = Idle
    /\ w \in opened
    /\ job' = HasRead(w, available[w])
    /\ UNCHANGED <<chainVars, walletVars, made, indexer, mover, faults, overlapped>>

DriftsUpwards(cached, sum) == cached > sum
Drifts(cached, sum) == cached # sum

SumWallet(w) ==
    /\ job.pc = "read" /\ w = job.wallet
    /\ job' = HasSummed(w, Drifts(job.cached, ledger[w]), job.quiet)
    /\ UNCHANGED <<chainVars, walletVars, made, indexer, mover, faults, overlapped>>

EndJob ==
    /\ job.pc = "summed"
    /\ job' = Idle
    /\ UNCHANGED <<chainVars, walletVars, made, indexer, mover, faults, overlapped>>

IndexerStep(i) ==
    \/ ReadPending(i)
    \/ Ask(i)
    \/ NoteConfirmations(i)
    \/ SkipDeposit(i)
    \/ OpenCredit(i)
    \/ CommitCredit(i)

Next ==
    \/ \E d \in Deposits : Mine(d) \/ Reorganise(d)
    \/ \E w \in Wallets : OpenWallet(w) \/ ReadWallet(w) \/ SumWallet(w)
    \/ \E i \in Indexers : IndexerStep(i) \/ StopTick(i)
    \/ \E m \in Moves : EnterMove(m)
    \/ CommitMove \/ AbortMove
    \/ EndJob

Spec == Init /\ [][Next]_vars

\* The loop of the indexer never ends (errors are caught around a tick),
\* and the chain goes on.
FairSpec ==
    /\ Spec
    /\ \A i \in Indexers : WF_vars(IndexerStep(i))
    /\ \A d \in Deposits : WF_vars(Mine(d))

-----------------------------------------------------------------------------
(***************************************************************************)
(* Properties.                                                             *)
(***************************************************************************)
\* A deposit is credited once, and is CREDITED from then on, across failed
\* calls, stopped indexers and restarts, as long as no two ticks overlap:
\* neither the posting (a random transferId) nor the row guards against it.
CreditedOnce ==
    ~overlapped =>
        \A d \in Deposits : credits[d] = IF row[d].status = "CREDITED" THEN 1 ELSE 0

\* No wallet is overdrawn, although its projection may be wrong: the funds
\* test reads the ledger.
NoOverdraft == \A w \in Wallets : ledger[w] >= 0

\* A drift lasts until the next transfer at most: whatever deposits have
\* overlapped, a transfer that commits leaves the projections of both its
\* wallets equal to the ledger.
TransferHeals ==
    [][\A m \in made' \ made : \A w \in WalletsOfMove(m) : available'[w] = ledger'[w]]_vars

\* The drift job is right about a wallet, in either direction, unless a
\* posting touched the wallet after its row was read.
ReportIsRight ==
    job.pc = "summed" /\ job.quiet =>
        (job.alarm <=> available[job.wallet] # ledger[job.wallet])

\* A deposit that is confirmed and has a wallet is credited in the end,
\* although others without a wallet stay pending and are taken again and
\* again, provided these alone never fill a batch.
ConfirmedIsCredited ==
    \A d \in Deposits :
        (depth[d] = Deposit[d].required /\ Deposit[d].to \in opened) ~> (credits[d] > 0)
=============================================================================
