--------------------------- MODULE DepositsProofs ---------------------------
(***************************************************************************)
(* Theorems about Deposits, for every value of its constants that meets    *)
(* ConstantsAssumption: any number of wallets, deposits, transfers and     *)
(* indexers, any batch, any number of faults.                              *)
(***************************************************************************)
EXTENDS Deposits, TLAPS

-----------------------------------------------------------------------------
(***************************************************************************)
(* The inductive invariant.  What the open work of each actor holds is     *)
(* related to the rows it was read from.                                   *)
(***************************************************************************)
Busy(i) == indexer[i] # Idle
HasAsked(i) == indexer[i].pc \in {"asked", "posting"}

\* Every count an indexer holds is one the chain has had.
SeenIsReal ==
    \A i \in Indexers :
        /\ HasAsked(i) => indexer[i].seen \in Confirmations(indexer[i].dep)
        /\ Busy(i) => \A p \in indexer[i].batch : p.confirmations \in Confirmations(p.dep)

\* Nothing a tick has still to credit is CREDITED, and it takes no deposit
\* twice.
TickOK(i) ==
    /\ Busy(i) =>
          /\ \A p \in indexer[i].batch : row[p.dep].status # "CREDITED"
          /\ \A p, q \in indexer[i].batch : p.dep = q.dep => p = q
    /\ HasAsked(i) =>
          /\ row[indexer[i].dep].status # "CREDITED"
          /\ \A p \in indexer[i].batch : p.dep # indexer[i].dep

OneTick ==
    ~overlapped =>
        /\ \A i, j \in Indexers : Busy(i) /\ Busy(j) => i = j
        /\ \A i \in Indexers : TickOK(i)

\* A transfer's transaction was opened with the funds, and while it may
\* commit its sums are those of the ledger.
MoverSees ==
    mover.pc = "open" =>
        LET from == Move[mover.move].from
            to == Move[mover.move].to
            amount == Move[mover.move].amount
        IN  /\ ledger[from] >= amount
            /\ ~mover.doomed =>
                  mover.from = ledger[from] - amount /\ mover.to = ledger[to] + amount

\* What the drift job has read of a wallet nobody has posted to since.
JobSees ==
    job.pc = "read" /\ job.quiet => job.cached = available[job.wallet]

IInv ==
    /\ TypeOK /\ SeenIsReal /\ OneTick /\ CreditedOnce
    /\ MoverSees /\ NoOverdraft /\ JobSees /\ ReportIsRight

-----------------------------------------------------------------------------
(***************************************************************************)
(* Lemmas on the constants and on the records.                             *)
(***************************************************************************)
LEMMA ConstantFacts ==
    /\ \A d \in Deposits : /\ Deposit[d].to \in Wallets
                           /\ Deposit[d].amount \in Nat
                           /\ Deposit[d].required \in Nat \ {0}
    /\ \A m \in Moves : /\ Move[m].from \in Wallets /\ Move[m].to \in Wallets
                        /\ Move[m].amount \in Nat
                        /\ Move[m].from # Move[m].to
BY ConstantsAssumption

LEMMA IndexerFacts ==
    ASSUME TypeOK, NEW i \in Indexers
    PROVE  /\ indexer[i] \in IndexerType
           /\ indexer[i].pc \in {"idle", "walking", "asked", "posting"}
           /\ indexer[i].pc = "idle" <=> indexer[i] = Idle
           /\ Busy(i) => indexer[i].batch \in SUBSET Pending
           /\ HasAsked(i) => /\ Busy(i)
                             /\ indexer[i].dep \in Deposits
                             /\ indexer[i].seen \in Nat
           /\ indexer[i].pc = "posting" => indexer[i].sum \in Int
BY DEF TypeOK, IndexerType, Idle, Busy, HasAsked

LEMMA MoverFacts ==
    ASSUME TypeOK
    PROVE  /\ mover \in MoverType
           /\ mover.pc \in {"idle", "open"}
           /\ mover.pc = "idle" <=> mover = Idle
           /\ mover.pc = "open" => /\ mover.move \in Moves
                                   /\ mover.from \in Int /\ mover.to \in Int
                                   /\ mover.doomed \in BOOLEAN
BY DEF TypeOK, MoverType, Idle

LEMMA JobFacts ==
    ASSUME TypeOK
    PROVE  /\ job \in JobType
           /\ job.pc \in {"idle", "read", "summed"}
           /\ job.pc = "idle" <=> job = Idle
           /\ job.pc # "idle" => job.wallet \in Wallets /\ job.quiet \in BOOLEAN
           /\ job.pc = "read" => job.cached \in Int
           /\ job.pc = "summed" => job.alarm \in BOOLEAN
BY DEF TypeOK, JobType, Idle

\* Doom only sets the flag, and it does if a row of the move was written.
LEMMA DoomFacts ==
    ASSUME TypeOK, NEW rows, Doom(rows)
    PROVE  /\ mover' \in MoverType
           /\ mover'.pc = mover.pc
           /\ mover.pc = "open" =>
                 /\ mover'.move = mover.move
                 /\ mover'.from = mover.from /\ mover'.to = mover.to
                 /\ ~mover'.doomed => /\ ~mover.doomed
                                      /\ WalletsOfMove(mover.move) \cap rows = {}
<1>1. CASE mover # Idle /\ WalletsOfMove(mover.move) \cap rows # {}
  <2>1. mover \in [pc : {"open"}, move : Moves, from : Int, to : Int, doomed : BOOLEAN]
    BY <1>1 DEF TypeOK, MoverType
  <2>2. mover' = [mover EXCEPT !.doomed = TRUE]
    BY <1>1 DEF Doom
  <2>3. QED
    BY <2>1, <2>2 DEF MoverType
<1>2. CASE ~(mover # Idle /\ WalletsOfMove(mover.move) \cap rows # {})
  <2>1. mover' = mover
    BY <1>2 DEF Doom
  <2>2. QED
    BY <1>2, <2>1, MoverFacts
<1>3. QED
  BY <1>1, <1>2

\* Disquiet only clears the flag, and it does if the job's wallet was
\* written.
LEMMA DisquietFacts ==
    ASSUME TypeOK, NEW rows, Disquiet(rows)
    PROVE  /\ job' \in JobType
           /\ job'.pc = job.pc
           /\ job.pc # "idle" =>
                 /\ job'.wallet = job.wallet
                 /\ job'.quiet => job.quiet /\ job.wallet \notin rows
           /\ job.pc = "read" => job'.cached = job.cached
           /\ job.pc = "summed" => job'.alarm = job.alarm
<1>1. CASE job # Idle /\ job.wallet \in rows
  <2>1. job' = [job EXCEPT !.quiet = FALSE]
    BY <1>1 DEF Disquiet
  <2>2. CASE job.pc = "read"
    <3>1. job \in [pc : {"read"}, wallet : Wallets, cached : Int, quiet : BOOLEAN]
      BY <2>2 DEF TypeOK, JobType, Idle
    <3>2. QED
      BY <2>1, <2>2, <3>1 DEF JobType
  <2>3. CASE job.pc = "summed"
    <3>1. job \in [pc : {"summed"}, wallet : Wallets, alarm : BOOLEAN, quiet : BOOLEAN]
      BY <2>3 DEF TypeOK, JobType, Idle
    <3>2. QED
      BY <2>1, <2>3, <3>1 DEF JobType
  <2>4. QED
    BY <1>1, <2>2, <2>3, JobFacts
<1>2. CASE ~(job # Idle /\ job.wallet \in rows)
  <2>1. job' = job
    BY <1>2 DEF Disquiet
  <2>2. QED
    BY <1>2, <2>1, JobFacts
<1>3. QED
  BY <1>1, <1>2

LEMMA InitIInv == Init => IInv
<1> SUFFICES ASSUME Init PROVE IInv
  OBVIOUS
<1> USE DEF Init
<1>1. TypeOK
  <2>1. /\ Idle \in IndexerType /\ Idle \in MoverType /\ Idle \in JobType
    BY DEF IndexerType, MoverType, JobType
  <2>2. \A d \in Deposits : 0 \in Confirmations(d)
    BY ConstantFacts DEF Confirmations
  <2>3. row \in [Deposits -> [status : {"DETECTED", "CONFIRMING", "CREDITED"},
                             confirmations : Nat]]
    OBVIOUS
  <2>4. /\ ledger \in [Wallets -> Int] /\ available \in [Wallets -> Int]
        /\ credits \in [Deposits -> 0..MaxCredits] /\ depth \in [Deposits -> Nat]
        /\ faults \in 0..Faults /\ opened \subseteq Wallets /\ made \subseteq Moves
    BY ConstantsAssumption
  <2>5. \A d \in Deposits : {depth[d], row[d].confirmations} \subseteq Confirmations(d)
    BY <2>2
  <2>6. QED
    BY <2>1, <2>3, <2>4, <2>5 DEF TypeOK
<1>2. SeenIsReal /\ OneTick
  BY DEF SeenIsReal, OneTick, TickOK, Busy, HasAsked, Idle
<1>3. CreditedOnce
  BY DEF CreditedOnce
<1>4. MoverSees /\ JobSees /\ ReportIsRight
  BY DEF MoverSees, JobSees, ReportIsRight, Idle
<1>5. NoOverdraft
  BY ConstantsAssumption DEF NoOverdraft
<1>6. QED
  BY <1>1, <1>2, <1>3, <1>4, <1>5 DEF IInv

-----------------------------------------------------------------------------
(***************************************************************************)
(* Types, and the counts the indexers hold.                                *)
(***************************************************************************)
\* A batch of rows as they are, without deposits taken twice.
LEMMA BatchFacts ==
    ASSUME TypeOK, NEW chosen \in SUBSET Deposits,
           NEW batch, batch = {[dep |-> d, confirmations |-> row[d].confirmations] : d \in chosen}
    PROVE  /\ Walking(batch) \in IndexerType
           /\ \A p \in batch : /\ p.dep \in chosen
                              /\ p.confirmations \in Confirmations(p.dep)
           /\ \A p, q \in batch : p.dep = q.dep => p = q
<1>1. \A d \in Deposits : /\ row[d].confirmations \in Nat
                          /\ row[d].confirmations \in Confirmations(d)
  BY DEF TypeOK
<1>2. batch \in SUBSET Pending
  BY <1>1 DEF Pending
<1>3. Walking(batch) \in IndexerType
  BY <1>2 DEF Walking, IndexerType
<1>4. QED
  BY <1>1, <1>3

\* A batch shrinks to what is left of it, and the loop idles when nothing is.
LEMMA ProceedFacts ==
    ASSUME TypeOK, NEW i \in Indexers, Busy(i), Proceed(i)
    PROVE  /\ indexer' \in [Indexers -> IndexerType]
           /\ \A j \in Indexers \ {i} : indexer'[j] = indexer[j]
           /\ \/ indexer'[i] = Idle
              \/ indexer'[i] = Walking(indexer[i].batch)
<1>1. indexer[i].batch \in SUBSET Pending
  BY IndexerFacts
<1>2. Walking(indexer[i].batch) \in IndexerType /\ Idle \in IndexerType
  BY <1>1 DEF Walking, IndexerType
<1>3. /\ indexer' = [indexer EXCEPT ![i] = indexer'[i]]
      /\ indexer'[i] = Idle \/ indexer'[i] = Walking(indexer[i].batch)
  BY DEF Proceed, TypeOK
<1>4. QED
  BY <1>2, <1>3 DEF TypeOK

\* The parts of the invariant that are about one indexer alone.
LEMMA SeenAfter ==
    ASSUME SeenIsReal, NEW i \in Indexers,
           \A j \in Indexers \ {i} : indexer'[j] = indexer[j],
           \/ indexer'[i] = Idle
           \/ indexer'[i] = indexer[i]
           \/ Busy(i) /\ indexer'[i] = Walking(indexer[i].batch)
    PROVE  SeenIsReal'
<1>1. ASSUME NEW j \in Indexers
      PROVE  /\ HasAsked(j)' => indexer'[j].seen \in Confirmations(indexer'[j].dep)
             /\ Busy(j)' => \A p \in indexer'[j].batch : p.confirmations \in Confirmations(p.dep)
  <2>1. CASE indexer'[j] = indexer[j]
    BY <2>1 DEF SeenIsReal, Busy, HasAsked
  <2>2. CASE indexer'[j] = Idle
    BY <2>2 DEF Busy, HasAsked, Idle
  <2>3. CASE Busy(j) /\ indexer'[j] = Walking(indexer[j].batch)
    BY <2>3 DEF Busy, HasAsked, Walking, SeenIsReal
  <2>4. QED
    BY <2>1, <2>2, <2>3
<1>2. QED
  BY <1>1 DEF SeenIsReal, Confirmations

\* The provider's answer is the depth, or the count that was read stands.
LEMMA AskFacts ==
    ASSUME TypeOK, SeenIsReal, NEW i \in Indexers, Ask(i)
    PROVE  /\ Busy(i)
           /\ \E p \in indexer[i].batch, c \in Nat :
                 /\ p.dep \in Deposits /\ c \in Confirmations(p.dep)
                 /\ indexer' = [indexer EXCEPT ![i] = Asked(indexer[i].batch \ {p}, p.dep, c)]
                 /\ Asked(indexer[i].batch \ {p}, p.dep, c) \in IndexerType
           /\ faults' \in 0..Faults
<1>1. Busy(i) /\ indexer[i].batch \in SUBSET Pending
  BY IndexerFacts DEF Ask, Busy, Idle
<1>2. PICK p \in indexer[i].batch :
         \/ /\ indexer' = [indexer EXCEPT ![i] = Asked(indexer[i].batch \ {p}, p.dep, depth[p.dep])]
            /\ UNCHANGED faults
         \/ /\ faults < Faults
            /\ faults' = faults + 1
            /\ indexer' = [indexer EXCEPT ![i] = Asked(indexer[i].batch \ {p}, p.dep, p.confirmations)]
  BY DEF Ask
<1>3. /\ p.dep \in Deposits
      /\ p.confirmations \in Nat /\ p.confirmations \in Confirmations(p.dep)
      /\ depth[p.dep] \in Nat /\ depth[p.dep] \in Confirmations(p.dep)
  BY <1>1, <1>2 DEF Pending, SeenIsReal, TypeOK
<1>4. \A c \in Nat : Asked(indexer[i].batch \ {p}, p.dep, c) \in IndexerType
  BY <1>1, <1>3 DEF Asked, IndexerType
<1>5. faults' \in 0..Faults
  BY <1>2, ConstantsAssumption DEF TypeOK
<1>6. QED
  BY <1>1, <1>2, <1>3, <1>4, <1>5

\* An indexer that has asked: what its next step writes is of the right type.
LEMMA AskedFacts ==
    ASSUME TypeOK, SeenIsReal, NEW i \in Indexers, HasAsked(i)
    PROVE  /\ Busy(i)
           /\ indexer[i].dep \in Deposits
           /\ indexer[i].seen \in Nat
           /\ indexer[i].seen \in Confirmations(indexer[i].dep)
           /\ Deposit[indexer[i].dep].to \in Wallets
           /\ Deposit[indexer[i].dep].amount \in Nat
BY IndexerFacts, ConstantFacts DEF SeenIsReal

LEMMA RowTyped ==
    ASSUME TypeOK, NEW d \in Deposits, NEW status \in {"DETECTED", "CONFIRMING", "CREDITED"},
           NEW c \in Nat, c \in Confirmations(d), depth' = depth,
           row' = [row EXCEPT ![d] = [status |-> status, confirmations |-> c]]
    PROVE  /\ row' \in [Deposits -> [status : {"DETECTED", "CONFIRMING", "CREDITED"},
                                    confirmations : Nat]]
           /\ \A e \in Deposits : {depth'[e], row'[e].confirmations} \subseteq Confirmations(e)
BY DEF TypeOK

LEMMA TypeStep ==
    ASSUME TypeOK, SeenIsReal, [Next]_vars
    PROVE  TypeOK' /\ SeenIsReal'
<1>1. CASE UNCHANGED vars
  BY <1>1 DEF vars, TypeOK, SeenIsReal, Busy, HasAsked, Confirmations
<1>2. ASSUME NEW d \in Deposits, Mine(d) \/ Reorganise(d)
      PROVE  TypeOK' /\ SeenIsReal'
  <2>1. depth' \in [Deposits -> Nat] /\ \A e \in Deposits : depth'[e] \in Confirmations(e)
    BY <1>2, ConstantFacts DEF Mine, Reorganise, TypeOK, Confirmations
  <2>2. faults' \in 0..Faults
    BY <1>2, ConstantsAssumption DEF Mine, Reorganise, TypeOK
  <2>3. TypeOK'
    BY <1>2, <2>1, <2>2 DEF Mine, Reorganise, TypeOK, walletVars, Confirmations
  <2>4. QED
    BY <1>2, <2>3 DEF Mine, Reorganise, SeenIsReal, Busy, HasAsked, Confirmations
<1>3. ASSUME NEW w \in Wallets, OpenWallet(w)
      PROVE  TypeOK' /\ SeenIsReal'
  <2>1. mover' \in MoverType
    BY <1>3, DoomFacts DEF OpenWallet
  <2>2. TypeOK'
    BY <1>3, <2>1 DEF OpenWallet, TypeOK, chainVars, Confirmations
  <2>3. QED
    BY <1>3, <2>2 DEF OpenWallet, SeenIsReal, Busy, HasAsked, Confirmations
<1>4. ASSUME NEW w \in Wallets, ReadWallet(w) \/ SumWallet(w)
      PROVE  TypeOK' /\ SeenIsReal'
  <2>1. ASSUME ReadWallet(w)
        PROVE  job' \in JobType
    BY <2>1 DEF ReadWallet, HasRead, JobType, TypeOK
  <2>2. ASSUME SumWallet(w)
        PROVE  job' \in JobType
    <3>1. job.quiet \in BOOLEAN /\ Drifts(job.cached, ledger[w]) \in BOOLEAN
      BY <2>2, JobFacts DEF SumWallet, Drifts
    <3>2. QED
      BY <2>2, <3>1 DEF SumWallet, HasSummed, JobType
  <2>3. job' \in JobType
    BY <1>4, <2>1, <2>2
  <2>4. TypeOK'
    BY <1>4, <2>3 DEF ReadWallet, SumWallet, TypeOK, chainVars, walletVars, Confirmations
  <2>5. QED
    BY <1>4, <2>4 DEF ReadWallet, SumWallet, SeenIsReal, Busy, HasAsked, Confirmations
<1>5. CASE EndJob
  <2>1. job' \in JobType
    BY <1>5 DEF EndJob, JobType
  <2>2. TypeOK'
    BY <1>5, <2>1 DEF EndJob, TypeOK, chainVars, walletVars, Confirmations
  <2>3. QED
    BY <1>5, <2>2 DEF EndJob, SeenIsReal, Busy, HasAsked, Confirmations
<1>6. ASSUME NEW i \in Indexers, ReadPending(i)
      PROVE  TypeOK' /\ SeenIsReal'
  <2>1. PICK chosen \in SUBSET Uncredited :
           indexer' = [indexer EXCEPT ![i] = Walking(
              {[dep |-> d, confirmations |-> row[d].confirmations] : d \in chosen})]
    BY <1>6 DEF ReadPending
  <2> DEFINE batch == {[dep |-> d, confirmations |-> row[d].confirmations] : d \in chosen}
  <2>2. /\ Walking(batch) \in IndexerType
        /\ \A p \in batch : p.confirmations \in Confirmations(p.dep)
    BY BatchFacts DEF Uncredited
  <2> HIDE DEF batch
  <2>3. indexer' = [indexer EXCEPT ![i] = Walking(batch)]
    BY <2>1 DEF batch
  <2>4. TypeOK'
    BY <1>6, <2>2, <2>3 DEF ReadPending, TypeOK, chainVars, walletVars, Confirmations
  <2>5. ASSUME NEW j \in Indexers
        PROVE  /\ HasAsked(j)' => indexer'[j].seen \in Confirmations(indexer'[j].dep)
               /\ Busy(j)' => \A p \in indexer'[j].batch : p.confirmations \in Confirmations(p.dep)
    <3>1. CASE j = i
      BY <2>2, <2>3, <3>1 DEF TypeOK, Walking, HasAsked
    <3>2. CASE j # i
      BY <2>3, <3>2 DEF TypeOK, SeenIsReal, HasAsked, Busy
    <3>3. QED
      BY <3>1, <3>2
  <2>6. QED
    BY <2>4, <2>5 DEF SeenIsReal, Confirmations
<1>7. ASSUME NEW i \in Indexers, Ask(i)
      PROVE  TypeOK' /\ SeenIsReal'
  <2>1. PICK p \in indexer[i].batch, c \in Nat :
           /\ p.dep \in Deposits /\ c \in Confirmations(p.dep)
           /\ indexer' = [indexer EXCEPT ![i] = Asked(indexer[i].batch \ {p}, p.dep, c)]
           /\ Asked(indexer[i].batch \ {p}, p.dep, c) \in IndexerType
    BY <1>7, AskFacts
  <2>2. TypeOK'
    BY <1>7, <2>1, AskFacts DEF Ask, TypeOK, chainVars, walletVars, Confirmations
  <2>3. ASSUME NEW j \in Indexers
        PROVE  /\ HasAsked(j)' => indexer'[j].seen \in Confirmations(indexer'[j].dep)
               /\ Busy(j)' => \A q \in indexer'[j].batch : q.confirmations \in Confirmations(q.dep)
    <3>1. CASE j = i
      <4>1. /\ indexer'[j].seen = c /\ indexer'[j].dep = p.dep
            /\ indexer'[j].batch = indexer[j].batch \ {p}
        BY <2>1, <3>1 DEF TypeOK, Asked
      <4>2. Busy(j)
        BY <1>7, <3>1, AskFacts
      <4>3. QED
        BY <2>1, <4>1, <4>2 DEF SeenIsReal
    <3>2. CASE j # i
      BY <2>1, <3>2 DEF TypeOK, SeenIsReal, HasAsked, Busy
    <3>3. QED
      BY <3>1, <3>2
  <2>4. QED
    BY <2>2, <2>3 DEF SeenIsReal, Confirmations
<1>8. ASSUME NEW i \in Indexers, NoteConfirmations(i)
      PROVE  TypeOK' /\ SeenIsReal'
  <2>1. HasAsked(i)
    BY <1>8 DEF NoteConfirmations, HasAsked
  <2>2. PICK status \in {"DETECTED", "CONFIRMING"} :
           row' = [row EXCEPT ![indexer[i].dep] =
                     [status |-> status, confirmations |-> indexer[i].seen]]
    BY <1>8 DEF NoteConfirmations, Noted
  <2>3. TypeOK'
    BY <1>8, <2>1, <2>2, AskedFacts, ProceedFacts, RowTyped
    DEF NoteConfirmations, TypeOK, walletVars, Confirmations
  <2>4. QED
    BY <1>8, <2>1, <2>3, AskedFacts, ProceedFacts, SeenAfter DEF NoteConfirmations
<1>9. ASSUME NEW i \in Indexers, SkipDeposit(i)
      PROVE  TypeOK' /\ SeenIsReal'
  <2>1. HasAsked(i)
    BY <1>9 DEF SkipDeposit, HasAsked
  <2>2. TypeOK'
    BY <1>9, <2>1, AskedFacts, ProceedFacts
    DEF SkipDeposit, TypeOK, chainVars, walletVars, Confirmations
  <2>3. QED
    BY <1>9, <2>1, <2>2, AskedFacts, ProceedFacts, SeenAfter DEF SkipDeposit
<1>10. ASSUME NEW i \in Indexers, OpenCredit(i)
       PROVE  TypeOK' /\ SeenIsReal'
  <2>1. HasAsked(i)
    BY <1>10 DEF OpenCredit, HasAsked
  <2> DEFINE d == indexer[i].dep
             sum == ledger[Deposit[d].to] + Deposit[d].amount
             post == Posting(indexer[i].batch, d, indexer[i].seen, sum)
  <2>2. indexer' = [indexer EXCEPT ![i] = post]
    BY <1>10 DEF OpenCredit, TypeOK
  <2>3. sum \in Int
    BY <2>1, AskedFacts DEF TypeOK
  <2>4. indexer[i].batch \in SUBSET Pending
    BY <2>1, AskedFacts, IndexerFacts
  <2>5. /\ post \in IndexerType
        /\ post.batch = indexer[i].batch /\ post.dep = d /\ post.seen = indexer[i].seen
    BY <2>1, <2>3, <2>4, AskedFacts DEF Posting, IndexerType
  <2> HIDE DEF post
  <2>6. TypeOK'
    BY <1>10, <2>2, <2>5 DEF OpenCredit, TypeOK, chainVars, walletVars, Confirmations
  <2>7. ASSUME NEW j \in Indexers
        PROVE  /\ HasAsked(j)' => indexer'[j].seen \in Confirmations(indexer'[j].dep)
               /\ Busy(j)' => \A p \in indexer'[j].batch : p.confirmations \in Confirmations(p.dep)
    <3>1. CASE j = i
      BY <2>1, <2>2, <2>5, <3>1, AskedFacts DEF TypeOK, SeenIsReal
    <3>2. CASE j # i
      BY <2>2, <3>2 DEF TypeOK, SeenIsReal, HasAsked, Busy
    <3>3. QED
      BY <3>1, <3>2
  <2>8. QED
    BY <2>6, <2>7 DEF SeenIsReal, Confirmations
<1>11. ASSUME NEW i \in Indexers, CommitCredit(i)
       PROVE  TypeOK' /\ SeenIsReal'
  <2>1. HasAsked(i) /\ indexer[i].sum \in Int
    BY <1>11, IndexerFacts DEF CommitCredit, HasAsked
  <2> DEFINE d == indexer[i].dep
  <2>2. /\ mover' \in MoverType /\ job' \in JobType
        /\ indexer' \in [Indexers -> IndexerType]
    BY <1>11, <2>1, AskedFacts, DoomFacts, DisquietFacts, ProceedFacts DEF CommitCredit
  <2>3. /\ ledger' \in [Wallets -> Int] /\ available' \in [Wallets -> Int]
    BY <1>11, <2>1, AskedFacts DEF CommitCredit, TypeOK
  <2>4. credits' \in [Deposits -> 0..MaxCredits]
    BY <1>11, <2>1, AskedFacts, ConstantsAssumption DEF CommitCredit, TypeOK
  <2>5. /\ row' \in [Deposits -> [status : {"DETECTED", "CONFIRMING", "CREDITED"},
                                    confirmations : Nat]]
        /\ \A e \in Deposits : {depth'[e], row'[e].confirmations} \subseteq Confirmations(e)
    BY <1>11, <2>1, AskedFacts, RowTyped DEF CommitCredit, CreditedRow
  <2>6. TypeOK'
    BY <1>11, <2>2, <2>3, <2>4, <2>5 DEF CommitCredit, TypeOK, Confirmations
  <2>7. QED
    BY <1>11, <2>1, <2>6, AskedFacts, ProceedFacts, SeenAfter DEF CommitCredit
<1>12. ASSUME NEW i \in Indexers, StopTick(i)
       PROVE  TypeOK' /\ SeenIsReal'
  <2>1. indexer' \in [Indexers -> IndexerType] /\ faults' \in 0..Faults
    BY <1>12, ConstantsAssumption DEF StopTick, TypeOK, IndexerType
  <2>2. TypeOK'
    BY <1>12, <2>1 DEF StopTick, TypeOK, chainVars, walletVars, Confirmations
  <2>3. /\ indexer'[i] = Idle
        /\ \A j \in Indexers \ {i} : indexer'[j] = indexer[j]
    BY <1>12 DEF StopTick, TypeOK
  <2>4. QED
    BY <2>2, <2>3, SeenAfter
<1>13. ASSUME NEW m \in Moves, EnterMove(m)
       PROVE  TypeOK' /\ SeenIsReal'
  <2>1. mover' \in MoverType
    BY <1>13, ConstantFacts DEF EnterMove, InMove, MoverType, TypeOK
  <2>2. TypeOK'
    BY <1>13, <2>1 DEF EnterMove, TypeOK, chainVars, walletVars, Confirmations
  <2>3. QED
    BY <1>13, <2>2 DEF EnterMove, SeenIsReal, Busy, HasAsked, Confirmations
<1>14. CASE CommitMove
  <2>1. mover.move \in Moves /\ mover.from \in Int /\ mover.to \in Int
    BY <1>14, MoverFacts DEF CommitMove
  <2>2. /\ mover' \in MoverType /\ job' \in JobType
    BY <1>14, DisquietFacts DEF CommitMove, MoverType
  <2>3. /\ ledger' \in [Wallets -> Int] /\ available' \in [Wallets -> Int]
        /\ opened' \subseteq Wallets /\ made' \subseteq Moves
    BY <1>14, <2>1, ConstantFacts DEF CommitMove, TypeOK
  <2>4. TypeOK'
    BY <1>14, <2>2, <2>3 DEF CommitMove, TypeOK, chainVars, Confirmations
  <2>5. QED
    BY <1>14, <2>4 DEF CommitMove, SeenIsReal, Busy, HasAsked, Confirmations
<1>15. CASE AbortMove
  <2>1. mover' \in MoverType
    BY <1>15 DEF AbortMove, MoverType
  <2>2. TypeOK'
    BY <1>15, <2>1 DEF AbortMove, TypeOK, chainVars, walletVars, Confirmations
  <2>3. QED
    BY <1>15, <2>2 DEF AbortMove, SeenIsReal, Busy, HasAsked, Confirmations
<1>16. QED
  BY <1>1, <1>2, <1>3, <1>4, <1>5, <1>6, <1>7, <1>8, <1>9, <1>10, <1>11, <1>12, <1>13,
     <1>14, <1>15 DEF Next, IndexerStep

-----------------------------------------------------------------------------
(***************************************************************************)
(* A deposit is credited once.                                             *)
(***************************************************************************)
\* Ticks in which nothing is left to credit that was not before, next to
\* rows that became CREDITED in no tick, stay sound.
LEMMA TickAfter ==
    ASSUME NEW i \in Indexers, TickOK(i), row' = row,
           \/ indexer'[i] = Idle
           \/ indexer'[i] = indexer[i]
           \/ Busy(i) /\ indexer'[i] = Walking(indexer[i].batch)
    PROVE  TickOK(i)'
<1>1. CASE indexer'[i] = Idle
  BY <1>1 DEF TickOK, Busy, HasAsked, Idle
<1>2. CASE indexer'[i] = indexer[i]
  BY <1>2 DEF TickOK, Busy, HasAsked
<1>3. CASE Busy(i) /\ indexer'[i] = Walking(indexer[i].batch)
  BY <1>3 DEF TickOK, Busy, HasAsked, Walking
<1>4. QED
  BY <1>1, <1>2, <1>3

\* A step of the one tick that runs, as far as the others go.
LEMMA StillOneTick ==
    ASSUME OneTick, ~overlapped, NEW i \in Indexers,
           \/ Busy(i)
           \/ \A j \in Indexers \ {i} : ~Busy(j),
           \A j \in Indexers \ {i} : indexer'[j] = indexer[j],
           TickOK(i)'
    PROVE  OneTick'
<1>1. \A j \in Indexers \ {i} : indexer'[j] = Idle
  BY DEF OneTick, Busy
<1>2. \A j \in Indexers \ {i} : TickOK(j)' /\ ~Busy(j)'
  BY <1>1 DEF TickOK, Busy, HasAsked, Idle
<1>3. QED
  BY <1>2 DEF OneTick

LEMMA TickStep ==
    ASSUME TypeOK, SeenIsReal, OneTick, CreditedOnce, [Next]_vars
    PROVE  OneTick' /\ CreditedOnce'
<1>1. CASE UNCHANGED <<row, credits, indexer, overlapped>>
  BY <1>1 DEF OneTick, TickOK, Busy, HasAsked, CreditedOnce
<1> SUFFICES ASSUME ~overlapped'
             PROVE  OneTick' /\ CreditedOnce'
  BY DEF OneTick, CreditedOnce
<1>2. ASSUME NEW i \in Indexers, ReadPending(i)
      PROVE  OneTick' /\ CreditedOnce'
  <2>1. /\ ~overlapped /\ \A j \in Indexers \ {i} : ~Busy(j)
        /\ UNCHANGED <<row, credits>>
    BY <1>2 DEF ReadPending, Busy, chainVars
  <2>2. PICK chosen \in SUBSET Uncredited :
           indexer' = [indexer EXCEPT ![i] = Walking(
              {[dep |-> d, confirmations |-> row[d].confirmations] : d \in chosen})]
    BY <1>2 DEF ReadPending
  <2> DEFINE batch == {[dep |-> d, confirmations |-> row[d].confirmations] : d \in chosen}
  <2>3. /\ \A p \in batch : p.dep \in Uncredited
        /\ \A p, q \in batch : p.dep = q.dep => p = q
    OBVIOUS
  <2> HIDE DEF batch
  <2>4. indexer'[i] = Walking(batch) /\ \A j \in Indexers \ {i} : indexer'[j] = indexer[j]
    BY <2>2 DEF batch, TypeOK
  <2>5. TickOK(i)'
    BY <2>1, <2>3, <2>4 DEF TickOK, HasAsked, Walking, Uncredited
  <2>6. OneTick'
    BY <2>1, <2>4, <2>5, StillOneTick
  <2>7. QED
    BY <2>1, <2>6 DEF CreditedOnce
<1>3. ASSUME NEW i \in Indexers, Ask(i)
      PROVE  OneTick' /\ CreditedOnce'
  <2>1. PICK p \in indexer[i].batch, c \in Nat :
           indexer' = [indexer EXCEPT ![i] = Asked(indexer[i].batch \ {p}, p.dep, c)]
    BY <1>3, AskFacts
  <2>2. Busy(i) /\ ~overlapped /\ UNCHANGED <<row, credits>>
    BY <1>3, AskFacts DEF Ask, chainVars
  <2>3. TickOK(i)
    BY <2>2 DEF OneTick
  <2>4. /\ indexer'[i].batch = indexer[i].batch \ {p} /\ indexer'[i].dep = p.dep
        /\ \A j \in Indexers \ {i} : indexer'[j] = indexer[j]
    BY <2>1 DEF Asked, TypeOK
  <2>5. TickOK(i)'
    BY <2>2, <2>3, <2>4 DEF TickOK
  <2>6. OneTick'
    BY <2>2, <2>4, <2>5, StillOneTick
  <2>7. QED
    BY <2>2, <2>6 DEF CreditedOnce
<1>4. ASSUME NEW i \in Indexers, NoteConfirmations(i)
      PROVE  OneTick' /\ CreditedOnce'
  <2> DEFINE d == indexer[i].dep
  <2>1. /\ HasAsked(i) /\ Busy(i) /\ ~overlapped /\ UNCHANGED credits
        /\ d \in Deposits
    BY <1>4, AskedFacts DEF NoteConfirmations, HasAsked
  <2>2. PICK status \in {"DETECTED", "CONFIRMING"} :
           row' = [row EXCEPT ![d] = [status |-> status, confirmations |-> indexer[i].seen]]
    BY <1>4 DEF NoteConfirmations, Noted
  <2>3. TickOK(i) /\ row[d].status # "CREDITED"
    BY <2>1 DEF OneTick, TickOK
  <2>4. \A e \in Deposits : row'[e].status = "CREDITED" <=> row[e].status = "CREDITED"
    BY <2>1, <2>2, <2>3 DEF TypeOK
  <2>5. /\ \A j \in Indexers \ {i} : indexer'[j] = indexer[j]
        /\ indexer'[i] = Idle \/ indexer'[i] = Walking(indexer[i].batch)
    BY <1>4, <2>1, ProceedFacts DEF NoteConfirmations
  <2>6. \A p \in indexer[i].batch : p.dep \in Deposits
    BY <2>1, IndexerFacts DEF Pending
  <2>7. TickOK(i)'
    <3>1. CASE indexer'[i] = Idle
      BY <3>1 DEF TickOK, Busy, HasAsked, Idle
    <3>2. CASE indexer'[i] = Walking(indexer[i].batch)
      BY <2>1, <2>3, <2>4, <2>6, <3>2 DEF TickOK, HasAsked, Walking
    <3>3. QED
      BY <2>5, <3>1, <3>2
  <2>8. OneTick'
    BY <2>1, <2>5, <2>7, StillOneTick
  <2>9. QED
    BY <2>1, <2>4, <2>8 DEF CreditedOnce
<1>5. ASSUME NEW i \in Indexers, SkipDeposit(i) \/ StopTick(i)
      PROVE  OneTick' /\ CreditedOnce'
  <2>1. /\ Busy(i) /\ ~overlapped /\ UNCHANGED <<row, credits>>
    BY <1>5, AskedFacts DEF SkipDeposit, StopTick, HasAsked, chainVars, Busy
  <2>2. /\ \A j \in Indexers \ {i} : indexer'[j] = indexer[j]
        /\ indexer'[i] = Idle \/ indexer'[i] = Walking(indexer[i].batch)
    <3>1. CASE SkipDeposit(i)
      BY <2>1, <3>1, ProceedFacts DEF SkipDeposit
    <3>2. CASE StopTick(i)
      BY <3>2 DEF StopTick, TypeOK
    <3>3. QED
      BY <1>5, <3>1, <3>2
  <2>3. TickOK(i)'
    BY <2>1, <2>2, TickAfter DEF OneTick
  <2>4. OneTick'
    BY <2>1, <2>2, <2>3, StillOneTick
  <2>5. QED
    BY <2>1, <2>4 DEF CreditedOnce
<1>6. ASSUME NEW i \in Indexers, OpenCredit(i)
      PROVE  OneTick' /\ CreditedOnce'
  <2>1. /\ HasAsked(i) /\ Busy(i) /\ ~overlapped /\ UNCHANGED <<row, credits>>
    BY <1>6, AskedFacts DEF OpenCredit, HasAsked, chainVars
  <2>2. /\ \A j \in Indexers \ {i} : indexer'[j] = indexer[j]
        /\ indexer'[i].batch = indexer[i].batch /\ indexer'[i].dep = indexer[i].dep
    BY <1>6 DEF OpenCredit, Posting, TypeOK
  <2>3. TickOK(i)'
    BY <2>1, <2>2 DEF OneTick, TickOK
  <2>4. OneTick'
    BY <2>1, <2>2, <2>3, StillOneTick
  <2>5. QED
    BY <2>1, <2>4 DEF CreditedOnce
<1>7. ASSUME NEW i \in Indexers, CommitCredit(i)
      PROVE  OneTick' /\ CreditedOnce'
  <2> DEFINE d == indexer[i].dep
  <2>1. HasAsked(i) /\ Busy(i) /\ ~overlapped /\ d \in Deposits
    BY <1>7, AskedFacts DEF CommitCredit, HasAsked
  <2>2. TickOK(i) /\ row[d].status # "CREDITED"
    BY <2>1 DEF OneTick, TickOK
  <2>3. /\ row' = [row EXCEPT ![d] = [status |-> "CREDITED", confirmations |-> indexer[i].seen]]
        /\ credits' = [credits EXCEPT ![d] = credits[d] + 1]
    BY <1>7 DEF CommitCredit, CreditedRow
  <2>4. credits[d] = 0
    BY <2>1, <2>2 DEF CreditedOnce
  <2>5. CreditedOnce'
    BY <2>1, <2>3, <2>4 DEF CreditedOnce, TypeOK
  <2>6. /\ \A j \in Indexers \ {i} : indexer'[j] = indexer[j]
        /\ indexer'[i] = Idle \/ indexer'[i] = Walking(indexer[i].batch)
    BY <1>7, <2>1, ProceedFacts DEF CommitCredit
  <2>7. \A p \in indexer[i].batch : p.dep \in Deposits /\ p.dep # d
    BY <2>1, <2>2, IndexerFacts DEF Pending, TickOK
  <2>8. TickOK(i)'
    <3>1. CASE indexer'[i] = Idle
      BY <3>1 DEF TickOK, Busy, HasAsked, Idle
    <3>2. CASE indexer'[i] = Walking(indexer[i].batch)
      BY <2>1, <2>2, <2>3, <2>7, <3>2 DEF TickOK, HasAsked, Walking, TypeOK
    <3>3. QED
      BY <2>6, <3>1, <3>2
  <2>9. OneTick'
    BY <2>1, <2>6, <2>8, StillOneTick
  <2>10. QED
    BY <2>5, <2>9
<1>8. QED
  BY <1>1, <1>2, <1>3, <1>4, <1>5, <1>6, <1>7
  DEF Next, IndexerStep, vars, chainVars, walletVars, Mine, Reorganise, OpenWallet,
      ReadWallet, SumWallet, EnterMove, CommitMove, AbortMove, EndJob

-----------------------------------------------------------------------------
(***************************************************************************)
(* The ledger, and the transfer's transaction.                             *)
(***************************************************************************)
\* A posting of the indexer only adds, and dooms the transfer if it adds to
\* one of its wallets.
LEMMA CreditKeepsMover ==
    ASSUME TypeOK, MoverSees, NoOverdraft, NEW i \in Indexers, CommitCredit(i)
    PROVE  MoverSees' /\ NoOverdraft'
<1> DEFINE w == Deposit[indexer[i].dep].to
           amount == Deposit[indexer[i].dep].amount
<1>1. w \in Wallets /\ amount \in Nat
  BY IndexerFacts, ConstantFacts DEF CommitCredit, HasAsked
<1>2. ledger' = [ledger EXCEPT ![w] = ledger[w] + amount] /\ Doom({w})
  BY DEF CommitCredit
<1> HIDE DEF w, amount
<1>3. \A v \in Wallets : /\ ledger[v] \in Int /\ ledger'[v] \in Int
                         /\ ledger'[v] >= ledger[v]
                         /\ v # w => ledger'[v] = ledger[v]
  BY <1>1, <1>2 DEF TypeOK
<1>4. NoOverdraft'
  BY <1>3 DEF NoOverdraft
<1>5. ASSUME mover'.pc = "open"
      PROVE  /\ ledger'[Move[mover'.move].from] >= Move[mover'.move].amount
             /\ ~mover'.doomed =>
                   /\ mover'.from = ledger'[Move[mover'.move].from] - Move[mover'.move].amount
                   /\ mover'.to = ledger'[Move[mover'.move].to] + Move[mover'.move].amount
  <2>1. /\ mover.pc = "open" /\ mover.move \in Moves
        /\ mover'.move = mover.move /\ mover'.from = mover.from /\ mover'.to = mover.to
        /\ ~mover'.doomed => ~mover.doomed /\ w \notin WalletsOfMove(mover.move)
    BY <1>2, <1>5, DoomFacts, MoverFacts
  <2>2. /\ Move[mover.move].from \in Wallets /\ Move[mover.move].to \in Wallets
        /\ Move[mover.move].amount \in Nat
    BY <2>1, ConstantFacts
  <2>3. QED
    BY <1>3, <2>1, <2>2 DEF MoverSees, WalletsOfMove
<1>6. QED
  BY <1>4, <1>5 DEF MoverSees

LEMMA CommitKeepsFunds ==
    ASSUME TypeOK, MoverSees, NoOverdraft, CommitMove
    PROVE  MoverSees' /\ NoOverdraft'
<1> DEFINE from == Move[mover.move].from
           to == Move[mover.move].to
           amount == Move[mover.move].amount
<1>1. mover.pc = "open" /\ mover.move \in Moves
  BY MoverFacts DEF CommitMove
<1>2. from \in Wallets /\ to \in Wallets /\ amount \in Nat /\ from # to
  BY <1>1, ConstantFacts
<1>3. ledger[from] >= amount
  BY <1>1 DEF MoverSees
<1>4. ledger' = [ledger EXCEPT ![from] = ledger[from] - amount, ![to] = ledger[to] + amount]
  BY <1>2 DEF CommitMove, TypeOK
<1> HIDE DEF from, to, amount
<1>5. NoOverdraft'
  BY <1>2, <1>3, <1>4 DEF NoOverdraft, TypeOK
<1>6. mover'.pc = "idle"
  BY DEF CommitMove, Idle
<1>7. QED
  BY <1>5, <1>6 DEF MoverSees

LEMMA LedgerStep ==
    ASSUME TypeOK, MoverSees, NoOverdraft, [Next]_vars
    PROVE  MoverSees' /\ NoOverdraft'
<1>1. CASE UNCHANGED <<ledger, mover>>
  BY <1>1 DEF MoverSees, NoOverdraft
<1>2. ASSUME NEW w \in Wallets, OpenWallet(w)
      PROVE  MoverSees' /\ NoOverdraft'
  <2>1. Doom({w}) /\ ledger' = ledger
    BY <1>2 DEF OpenWallet
  <2>2. /\ mover'.pc = mover.pc
        /\ mover.pc = "open" =>
              /\ mover'.move = mover.move
              /\ mover'.from = mover.from /\ mover'.to = mover.to
              /\ ~mover'.doomed => ~mover.doomed
    BY <2>1, DoomFacts
  <2>3. QED
    BY <2>1, <2>2 DEF MoverSees, NoOverdraft
<1>3. ASSUME NEW i \in Indexers, CommitCredit(i)
      PROVE  MoverSees' /\ NoOverdraft'
  BY <1>3, CreditKeepsMover
<1>4. ASSUME NEW m \in Moves, EnterMove(m)
      PROVE  MoverSees' /\ NoOverdraft'
  BY <1>4 DEF EnterMove, InMove, Funds, walletVars, MoverSees, NoOverdraft
<1>5. CASE CommitMove
  BY <1>5, CommitKeepsFunds
<1>6. CASE AbortMove
  BY <1>6 DEF AbortMove, Idle, walletVars, MoverSees, NoOverdraft
<1>7. ASSUME NEW i \in Indexers, IndexerStep(i) \/ StopTick(i)
      PROVE  MoverSees' /\ NoOverdraft'
  <2>1. CASE CommitCredit(i)
    BY <1>3, <2>1
  <2>2. CASE ~CommitCredit(i)
    BY <1>1, <1>7, <2>2 DEF IndexerStep, walletVars, ReadPending, Ask, NoteConfirmations,
       SkipDeposit, OpenCredit, StopTick
  <2>3. QED
    BY <2>1, <2>2
<1>8. ASSUME NEW d \in Deposits, Mine(d) \/ Reorganise(d)
      PROVE  MoverSees' /\ NoOverdraft'
  BY <1>1, <1>8 DEF Mine, Reorganise, walletVars
<1>9. ASSUME NEW w \in Wallets, ReadWallet(w) \/ SumWallet(w)
      PROVE  MoverSees' /\ NoOverdraft'
  BY <1>1, <1>9 DEF ReadWallet, SumWallet, walletVars
<1>10. CASE EndJob
  BY <1>1, <1>10 DEF EndJob, walletVars
<1>11. CASE UNCHANGED vars
  BY <1>1, <1>11 DEF vars
<1>12. QED
  BY <1>2, <1>4, <1>5, <1>6, <1>7, <1>8, <1>9, <1>10, <1>11 DEF Next

-----------------------------------------------------------------------------
(***************************************************************************)
(* The drift job.                                                          *)
(***************************************************************************)
\* A posting that disturbs every wallet it changes leaves what the job has
\* read of a quiet wallet true.
LEMMA StillQuiet ==
    ASSUME TypeOK, JobSees, ReportIsRight, NEW rows, Disquiet(rows),
           \A w \in Wallets \ rows : ledger'[w] = ledger[w] /\ available'[w] = available[w]
    PROVE  JobSees' /\ ReportIsRight'
<1>1. /\ job'.pc = job.pc
      /\ job.pc # "idle" =>
            /\ job'.wallet = job.wallet /\ job.wallet \in Wallets
            /\ job'.quiet => job.quiet /\ job.wallet \notin rows
      /\ job.pc = "read" => job'.cached = job.cached
      /\ job.pc = "summed" => job'.alarm = job.alarm
  BY DisquietFacts, JobFacts
<1>2. JobSees'
  BY <1>1 DEF JobSees
<1>3. ReportIsRight'
  BY <1>1 DEF ReportIsRight
<1>4. QED
  BY <1>2, <1>3

LEMMA JobStep ==
    ASSUME TypeOK, JobSees, ReportIsRight, [Next]_vars
    PROVE  JobSees' /\ ReportIsRight'
<1>1. CASE UNCHANGED <<ledger, available, job>>
  BY <1>1 DEF JobSees, ReportIsRight
<1>2. ASSUME NEW i \in Indexers, CommitCredit(i)
      PROVE  JobSees' /\ ReportIsRight'
  <2>1. Disquiet({Deposit[indexer[i].dep].to})
    BY <1>2 DEF CommitCredit
  <2>2. \A v \in Wallets \ {Deposit[indexer[i].dep].to} :
           ledger'[v] = ledger[v] /\ available'[v] = available[v]
    BY <1>2 DEF CommitCredit, TypeOK
  <2>3. QED
    BY <2>1, <2>2, StillQuiet
<1>3. CASE CommitMove
  <2>1. Disquiet(WalletsOfMove(mover.move))
    BY <1>3 DEF CommitMove
  <2>2. \A v \in Wallets \ WalletsOfMove(mover.move) :
           ledger'[v] = ledger[v] /\ available'[v] = available[v]
    BY <1>3 DEF CommitMove, WalletsOfMove, TypeOK
  <2>3. QED
    BY <2>1, <2>2, StillQuiet
<1>4. ASSUME NEW w \in Wallets, ReadWallet(w)
      PROVE  JobSees' /\ ReportIsRight'
  BY <1>4 DEF ReadWallet, HasRead, walletVars, JobSees, ReportIsRight
<1>5. ASSUME NEW w \in Wallets, SumWallet(w)
      PROVE  JobSees' /\ ReportIsRight'
  <2>1. /\ job.pc = "read" /\ w = job.wallet
        /\ job' = HasSummed(w, Drifts(job.cached, ledger[w]), job.quiet)
        /\ UNCHANGED walletVars
    BY <1>5 DEF SumWallet
  <2>2. /\ job'.pc = "summed" /\ job'.wallet = w /\ job'.quiet = job.quiet
        /\ job'.alarm = (job.cached # ledger[w])
    BY <2>1 DEF HasSummed, Drifts
  <2>3. QED
    BY <2>1, <2>2 DEF walletVars, JobSees, ReportIsRight
<1>6. CASE EndJob
  BY <1>6 DEF EndJob, Idle, JobSees, ReportIsRight
<1>7. ASSUME NEW i \in Indexers, IndexerStep(i) \/ StopTick(i)
      PROVE  JobSees' /\ ReportIsRight'
  <2>1. CASE CommitCredit(i)
    BY <1>2, <2>1
  <2>2. CASE ~CommitCredit(i)
    BY <1>1, <1>7, <2>2 DEF IndexerStep, walletVars, ReadPending, Ask, NoteConfirmations,
       SkipDeposit, OpenCredit, StopTick
  <2>3. QED
    BY <2>1, <2>2
<1>8. ASSUME NEW d \in Deposits, Mine(d) \/ Reorganise(d)
      PROVE  JobSees' /\ ReportIsRight'
  BY <1>1, <1>8 DEF Mine, Reorganise, walletVars
<1>9. ASSUME NEW w \in Wallets, OpenWallet(w)
      PROVE  JobSees' /\ ReportIsRight'
  BY <1>1, <1>9 DEF OpenWallet
<1>10. CASE AbortMove \/ \E m \in Moves : EnterMove(m)
  BY <1>1, <1>10 DEF AbortMove, EnterMove, walletVars
<1>11. CASE UNCHANGED vars
  BY <1>1, <1>11 DEF vars
<1>12. QED
  BY <1>3, <1>4, <1>5, <1>6, <1>7, <1>8, <1>9, <1>10, <1>11 DEF Next

-----------------------------------------------------------------------------
(***************************************************************************)
(* Theorems.                                                               *)
(***************************************************************************)
THEOREM Invariance == Spec => []IInv
<1>1. Init => IInv
  BY InitIInv
<1>2. IInv /\ [Next]_vars => IInv'
  BY TypeStep, TickStep, LedgerStep, JobStep DEF IInv
<1>3. QED
  BY <1>1, <1>2, PTL DEF Spec

\* Rows, wallets and what the loops hold keep their types.
THEOREM TypeCorrect == Spec => []TypeOK
<1>1. IInv => TypeOK
  BY DEF IInv
<1>2. QED
  BY <1>1, Invariance, PTL

\* No deposit is credited twice, whatever fails or stops, as long as no two
\* ticks have overlapped.
THEOREM DepositsCreditedOnce == Spec => []CreditedOnce
<1>1. IInv => CreditedOnce
  BY DEF IInv
<1>2. QED
  BY <1>1, Invariance, PTL

\* No wallet is overdrawn, however wrong its projection is.
THEOREM NeverOverdrawn == Spec => []NoOverdraft
<1>1. IInv => NoOverdraft
  BY DEF IInv
<1>2. QED
  BY <1>1, Invariance, PTL

\* The drift job reports a drift exactly when there is one, unless the
\* wallet was posted to meanwhile.
THEOREM ReportsAreRight == Spec => []ReportIsRight
<1>1. IInv => ReportIsRight
  BY DEF IInv
<1>2. QED
  BY <1>1, Invariance, PTL

\* A transfer that commits was not doomed, so its sums are the ledger's.
LEMMA HealingStep ==
    ASSUME IInv, [Next]_vars, NEW m \in made' \ made, NEW w \in WalletsOfMove(m)
    PROVE  available'[w] = ledger'[w]
<1>1. CommitMove
  BY DEF Next, IndexerStep, vars, Mine, Reorganise, OpenWallet, ReadWallet, SumWallet,
     ReadPending, Ask, NoteConfirmations, SkipDeposit, OpenCredit, CommitCredit, StopTick,
     EnterMove, AbortMove, EndJob
<1> DEFINE from == Move[mover.move].from
           to == Move[mover.move].to
           amount == Move[mover.move].amount
<1>2. /\ m = mover.move /\ m \in Moves
      /\ mover.pc = "open" /\ ~mover.doomed
  BY <1>1, MoverFacts DEF CommitMove, IInv
<1>3. from \in Wallets /\ to \in Wallets /\ amount \in Nat /\ from # to
  BY <1>2, ConstantFacts
<1>4. mover.from = ledger[from] - amount /\ mover.to = ledger[to] + amount
  BY <1>2 DEF IInv, MoverSees
<1>5. /\ ledger' = [ledger EXCEPT ![from] = ledger[from] - amount, ![to] = ledger[to] + amount]
      /\ available' = [available EXCEPT ![from] = mover.from, ![to] = mover.to]
  BY <1>1, <1>3 DEF CommitMove, IInv, TypeOK
<1>6. w = from \/ w = to
  BY <1>2 DEF WalletsOfMove
<1> HIDE DEF from, to, amount
<1>7. QED
  BY <1>3, <1>4, <1>5, <1>6 DEF IInv, TypeOK

\* Whatever overlapped before, a committed transfer leaves the projections
\* of both its wallets equal to the ledger.
THEOREM TransfersHeal == Spec => TransferHeals
<1>1. IInv /\ [Next]_vars =>
         [\A m \in made' \ made : \A w \in WalletsOfMove(m) : available'[w] = ledger'[w]]_vars
  BY HealingStep
<1>2. QED
  BY <1>1, Invariance, PTL DEF Spec, TransferHeals
=============================================================================
