---------------------------- MODULE PayoutsProofs ----------------------------
(***************************************************************************)
(* Theorems about Payouts, for every value of the constants: any number of *)
(* withdrawals, loops, job slots, attempts, restarts and faults.           *)
(***************************************************************************)
EXTENDS Payouts, FiniteSetTheorems, TLAPS

-----------------------------------------------------------------------------
(***************************************************************************)
(* The inductive invariant.                                                *)
(***************************************************************************)
\* A job has an owner while it is active, and an attempt left until it ends.
JobsAreOwned ==
    \A w \in Withdrawals :
        /\ job[w].owner \in Workers <=> job[w].state = "ACTIVE"
        /\ job[w].state \in {"WAITING", "ACTIVE"} => job[w].attempts < Attempts

\* A row about to be marked has its job.
AddedFirst ==
    \A d \in Dispatchers :
        dispatcher[d].pc = "between" => job[dispatcher[d].at].state # "NONE"

\* What a worker holds: a request the provider got, then its reference, or
\* that of a later request, in the payout row.
AcksAreStored ==
    \A x \in Workers :
        /\ worker[x].pc = "sent" => /\ worker[x].of \in Calls
                                    /\ worker[x].request \in 1..requests[worker[x].of]
        /\ worker[x].pc \in {"acked", "done"} /\ worker[x].of \in Calls =>
              ref[worker[x].of] \in 1..requests[worker[x].of]

\* A run is a request that was sent, a worker about to send one (whether or
\* not it still owns the job), or a run the job may still be given.
Loaded(w) == {x \in Workers : worker[x].pc = "loaded" /\ worker[x].of = w}

RunsLeft(w) ==
    IF job[w].state = "WAITING"
    THEN (Attempts - job[w].attempts) + (MaxStalled - job[w].stalls)
    ELSE IF job[w].state = "ACTIVE"
    THEN (Attempts - job[w].attempts) + (MaxStalled - job[w].stalls) - 1
    ELSE 0

Runs(w) == requests[w] + Cardinality(Loaded(w)) + RunsLeft(w)

RunsAreCounted ==
    \A w \in Withdrawals : Runs(w) <= added[w] * (Attempts + MaxStalled)

\* A report is stored after a request, and applied after it is stored.
ReportsAreStored ==
    /\ \A w \in Withdrawals, o \in Outcomes : event[<<w, o>>] # "NONE" => requests[w] >= 1
    /\ \A p \in Processors :
          /\ Busy(processor[p]) => \A r \in processor[p].batch : event[r] # "NONE"
          /\ processor[p].pc = "between" => event[processor[p].at] # "NONE"

QueueInv  == JobsAreOwned /\ PublishedIsQueued /\ AddedFirst
PaidInv   == AcksAreStored /\ CompletedJobHasPaid /\ RunsAreCounted
ReportInv == ReportsAreStored /\ OutcomeWasReported

IInv == TypeOK /\ QueueInv /\ PaidInv /\ ReportInv

-----------------------------------------------------------------------------
(***************************************************************************)
(* Lemmas on the loops, the workers, and on counting.                      *)
(***************************************************************************)
LEMMA LoopFacts ==
    ASSUME NEW Things, NEW loop \in LoopType(Things)
    PROVE  /\ loop.pc = "between" => Busy(loop) /\ loop.at \in Things
           /\ loop.pc = "batch" => Busy(loop)
           /\ Busy(loop) =>
                 /\ loop.batch \subseteq Things
                 /\ \A t \in Things :
                       /\ Between(loop, t) \in LoopType(Things)
                       /\ Between(loop, t).pc = "between" /\ Between(loop, t).at = t
                       /\ Between(loop, t).batch = loop.batch
                       /\ Without(loop, t) \in LoopType(Things)
                       /\ Without(loop, t).pc # "between"
                       /\ Busy(Without(loop, t)) => Without(loop, t).batch \subseteq loop.batch
BY DEF LoopType, Idle, Ended, Busy, Between, Without, Reading

LEMMA ReadingFacts ==
    ASSUME NEW Things, NEW S \in SUBSET Things
    PROVE  /\ Reading(S) \in LoopType(Things) /\ Reading(S).pc = "batch"
           /\ Reading(S).batch = S
           /\ Idle \in LoopType(Things) /\ Idle.pc = "idle"
           /\ Ended \in LoopType(Things) /\ Ended.pc = "ended"
           /\ ~Busy(Idle) /\ ~Busy(Ended)
BY DEF LoopType, Idle, Ended, Busy, Reading

LEMMA WorkerFacts ==
    ASSUME TypeOK, NEW x \in Workers,
           worker[x].pc \notin {"idle", "ended"} \/ Busy(worker[x])
    PROVE  /\ worker[x] \in [pc : {"loaded", "sent", "acked", "done"}, of : Withdrawals,
                             request : Nat]
           /\ Busy(worker[x])
BY DEF TypeOK, WorkerType, Idle, Ended, Busy

LEMMA CountStep ==
    ASSUME NEW S \in SUBSET Workers, NEW T \in SUBSET Workers, NEW x \in Workers,
           T \ {x} = S \ {x}
    PROVE  /\ x \in S => Cardinality(S) = Cardinality(S \ {x}) + 1
           /\ x \notin S => Cardinality(S) = Cardinality(S \ {x})
           /\ x \in T => Cardinality(T) = Cardinality(S \ {x}) + 1
           /\ x \notin T => Cardinality(T) = Cardinality(S \ {x})
           /\ Cardinality(S \ {x}) \in Nat
<1>1. IsFiniteSet(S) /\ IsFiniteSet(T) /\ IsFiniteSet(S \ {x}) /\ S \ {x} \in SUBSET Workers
  BY PayoutsAssumption, FS_Subset
<1>2. /\ Cardinality(S \ {x}) = IF x \in S THEN Cardinality(S) - 1 ELSE Cardinality(S)
      /\ Cardinality(T \ {x}) = IF x \in T THEN Cardinality(T) - 1 ELSE Cardinality(T)
  BY <1>1, FS_RemoveElement
<1>3. Cardinality(S) \in Nat /\ Cardinality(T) \in Nat /\ Cardinality(S \ {x}) \in Nat
  BY <1>1, FS_CardinalityType
<1>4. QED
  BY <1>2, <1>3

LEMMA LoadedType ==
    ASSUME NEW w
    PROVE  /\ Loaded(w) \in SUBSET Workers /\ Loaded(w)' \in SUBSET Workers
           /\ Cardinality(Loaded(w)) \in Nat /\ Cardinality(Loaded(w)') \in Nat
<1>1. Loaded(w) \in SUBSET Workers /\ Loaded(w)' \in SUBSET Workers
  BY DEF Loaded
<1>2. QED
  BY <1>1, PayoutsAssumption, FS_Subset, FS_CardinalityType

\* One worker moves on.
LEMMA WorkerMoves ==
    ASSUME TypeOK, NEW x \in Workers, NEW y \in WorkerType,
           worker' = [worker EXCEPT ![x] = y]
    PROVE  /\ worker' \in [Workers -> WorkerType]
           /\ worker'[x] = y /\ \A z \in Workers \ {x} : worker'[z] = worker[z]
           /\ \A w : /\ y.pc # "loaded" =>
                           Cardinality(Loaded(w)') <= Cardinality(Loaded(w))
                     /\ y.pc # "loaded" /\ worker[x].pc = "loaded" /\ worker[x].of = w =>
                           Cardinality(Loaded(w)') + 1 = Cardinality(Loaded(w))
                     /\ worker[x].pc = "idle" /\ y.of # w =>
                           Cardinality(Loaded(w)') <= Cardinality(Loaded(w))
                     /\ worker[x].pc = "idle" =>
                           Cardinality(Loaded(w)') <= Cardinality(Loaded(w)) + 1
<1>1. worker' \in [Workers -> WorkerType]
  BY DEF TypeOK
<1>2. worker'[x] = y /\ \A z \in Workers \ {x} : worker'[z] = worker[z]
  BY DEF TypeOK
<1>3. ASSUME NEW w
      PROVE  /\ x \in Loaded(w) <=> worker[x].pc = "loaded" /\ worker[x].of = w
             /\ x \in Loaded(w)' <=> y.pc = "loaded" /\ y.of = w
             /\ Loaded(w)' \ {x} = Loaded(w) \ {x}
             /\ Loaded(w) \in SUBSET Workers /\ Loaded(w)' \in SUBSET Workers
  BY <1>2 DEF Loaded
<1>4. ASSUME NEW w
      PROVE  /\ y.pc # "loaded" => Cardinality(Loaded(w)') <= Cardinality(Loaded(w))
             /\ y.pc # "loaded" /\ worker[x].pc = "loaded" /\ worker[x].of = w =>
                   Cardinality(Loaded(w)') + 1 = Cardinality(Loaded(w))
             /\ worker[x].pc = "idle" /\ y.of # w =>
                   Cardinality(Loaded(w)') <= Cardinality(Loaded(w))
             /\ worker[x].pc = "idle" =>
                   Cardinality(Loaded(w)') <= Cardinality(Loaded(w)) + 1
  <2> DEFINE S == Loaded(w)
             T == Loaded(w)'
  <2>1. /\ S \in SUBSET Workers /\ T \in SUBSET Workers /\ T \ {x} = S \ {x}
        /\ x \in S <=> worker[x].pc = "loaded" /\ worker[x].of = w
        /\ x \in T <=> y.pc = "loaded" /\ y.of = w
    BY <1>3
  <2> HIDE DEF S, T
  <2>2. /\ x \in S => Cardinality(S) = Cardinality(S \ {x}) + 1
        /\ x \notin S => Cardinality(S) = Cardinality(S \ {x})
        /\ x \in T => Cardinality(T) = Cardinality(S \ {x}) + 1
        /\ x \notin T => Cardinality(T) = Cardinality(S \ {x})
        /\ Cardinality(S \ {x}) \in Nat
    BY <2>1, CountStep
  <2>3. /\ y.pc # "loaded" => Cardinality(T) <= Cardinality(S)
        /\ y.pc # "loaded" /\ worker[x].pc = "loaded" /\ worker[x].of = w =>
              Cardinality(T) + 1 = Cardinality(S)
        /\ worker[x].pc = "idle" /\ y.of # w => Cardinality(T) <= Cardinality(S)
        /\ worker[x].pc = "idle" => Cardinality(T) <= Cardinality(S) + 1
    BY <2>1, <2>2
  <2>4. QED
    BY <2>3 DEF S, T
<1>5. QED
  BY <1>1, <1>2, <1>4

LEMMA RunsType ==
    ASSUME NEW w \in Withdrawals
    PROVE  /\ TypeOK => RunsLeft(w) \in Int /\ requests[w] \in Nat /\ Runs(w) \in Int
           /\ TypeOK' => RunsLeft(w)' \in Int /\ requests'[w] \in Nat /\ Runs(w)' \in Int
           /\ TypeOK => added[w] * (Attempts + MaxStalled) \in Int
<1>1. Cardinality(Loaded(w)) \in Nat /\ Cardinality(Loaded(w)') \in Nat
  BY LoadedType
<1>2. /\ TypeOK => RunsLeft(w) \in Int /\ requests[w] \in Nat
      /\ TypeOK' => RunsLeft(w)' \in Int /\ requests'[w] \in Nat
  BY PayoutsAssumption DEF TypeOK, JobType, RunsLeft
<1>3. TypeOK => added[w] * (Attempts + MaxStalled) \in Int
  <2>1. \A m \in Nat, n \in Nat : m * n \in Int
    OBVIOUS
  <2>2. TypeOK => added[w] \in Nat /\ Attempts + MaxStalled \in Nat
    BY PayoutsAssumption DEF TypeOK
  <2>3. QED
    BY <2>1, <2>2
<1>4. (TypeOK => Runs(w) \in Int) /\ (TypeOK' => Runs(w)' \in Int)
  <2> DEFINE m == Cardinality(Loaded(w))
             n == Cardinality(Loaded(w)')
             i == RunsLeft(w)
             j == RunsLeft(w)'
  <2>1. m \in Nat /\ n \in Nat /\ (TypeOK => i \in Int) /\ (TypeOK' => j \in Int)
    BY <1>1, <1>2
  <2> HIDE DEF m, n, i, j
  <2>2. TypeOK => requests[w] + m + i \in Int
    BY <1>2, <2>1
  <2>3. TypeOK' => requests'[w] + n + j \in Int
    BY <1>2, <2>1
  <2>4. QED
    BY <2>2, <2>3 DEF m, n, i, j, Runs
<1>5. QED
  BY <1>2, <1>3, <1>4

\* A step that gives no job more runs keeps the count.
LEMMA CountKept ==
    ASSUME TypeOK, TypeOK', RunsAreCounted, added' = added,
           \A w \in Withdrawals : Runs(w)' <= Runs(w)
    PROVE  RunsAreCounted'
<1>1. ASSUME NEW w \in Withdrawals
      PROVE  Runs(w)' <= added'[w] * (Attempts + MaxStalled)
  <2> DEFINE n == Runs(w)
             m == Runs(w)'
             c == added[w] * (Attempts + MaxStalled)
  <2>1. n \in Int /\ m \in Int /\ c \in Int
    BY RunsType
  <2>2. m <= n /\ n <= c
    BY DEF RunsAreCounted
  <2> HIDE DEF n, m, c
  <2>3. m <= c
    BY <2>1, <2>2
  <2>4. QED
    BY <2>3 DEF m, c
<1>2. QED
  BY <1>1 DEF RunsAreCounted

\* What a step adds to one part of the count it takes from another.
LEMMA RunsSum ==
    ASSUME TypeOK, TypeOK', NEW w \in Withdrawals
    PROVE  /\ requests'[w] = requests[w] /\ RunsLeft(w)' <= RunsLeft(w)
                 /\ Cardinality(Loaded(w)') <= Cardinality(Loaded(w))
              => Runs(w)' <= Runs(w)
           /\ requests'[w] = requests[w] /\ RunsLeft(w)' = RunsLeft(w) - 1
                 /\ Cardinality(Loaded(w)') <= Cardinality(Loaded(w)) + 1
              => Runs(w)' <= Runs(w)
           /\ requests'[w] = requests[w] + 1 /\ RunsLeft(w)' <= RunsLeft(w)
                 /\ Cardinality(Loaded(w)') + 1 = Cardinality(Loaded(w))
              => Runs(w)' <= Runs(w)
<1> DEFINE m == Cardinality(Loaded(w))
           n == Cardinality(Loaded(w)')
           i == RunsLeft(w)
           j == RunsLeft(w)'
<1>1. m \in Nat /\ n \in Nat /\ i \in Int /\ j \in Int
  BY LoadedType, RunsType
<1>2. requests[w] \in Nat /\ requests'[w] \in Nat
  BY DEF TypeOK
<1>3. Runs(w) = requests[w] + m + i /\ Runs(w)' = requests'[w] + n + j
  BY DEF Runs
<1> HIDE DEF m, n, i, j
<1>4. /\ requests'[w] = requests[w] /\ j <= i /\ n <= m => Runs(w)' <= Runs(w)
      /\ requests'[w] = requests[w] /\ j = i - 1 /\ n <= m + 1 => Runs(w)' <= Runs(w)
      /\ requests'[w] = requests[w] + 1 /\ j <= i /\ n + 1 = m => Runs(w)' <= Runs(w)
  BY <1>1, <1>2, <1>3
<1>5. QED
  BY <1>4 DEF m, n, i, j

\* Jobs, workers and requests unchanged.
LEMMA PaidKept ==
    ASSUME PaidInv, UNCHANGED <<job, added, requests, ref, worker>>
    PROVE  PaidInv'
BY DEF PaidInv, AcksAreStored, CompletedJobHasPaid, RunsAreCounted, Runs, RunsLeft, Loaded

LEMMA InitIInv == Init => IInv
<1> SUFFICES ASSUME Init PROVE IInv
  OBVIOUS
<1> USE DEF Init
<1>1. TypeOK
  BY PayoutsAssumption
     DEF TypeOK, JobType, JobStates, NoJob, LoopType, WorkerType, Idle
<1>2. QueueInv
  BY PayoutsAssumption DEF QueueInv, JobsAreOwned, PublishedIsQueued, AddedFirst, NoJob, Idle
<1>3. AcksAreStored /\ CompletedJobHasPaid
  BY PayoutsAssumption DEF AcksAreStored, CompletedJobHasPaid, NoJob, Idle
<1>4. RunsAreCounted
  <2>1. ASSUME NEW w \in Withdrawals
        PROVE  Runs(w) = 0 /\ added[w] * (Attempts + MaxStalled) = 0
    <3>1. Loaded(w) = {}
      BY DEF Loaded, Idle
    <3>2. Cardinality(Loaded(w)) = 0
      BY <3>1, FS_EmptySet, Zenon
    <3>3. RunsLeft(w) = 0
      BY DEF RunsLeft, NoJob
    <3>4. added[w] * (Attempts + MaxStalled) = 0
      BY PayoutsAssumption
    <3>5. QED
      BY <3>2, <3>3, <3>4 DEF Runs
  <2>2. QED
    BY <2>1 DEF RunsAreCounted
<1>5. ReportInv
  BY DEF ReportInv, ReportsAreStored, OutcomeWasReported, Reports, Outcomes, Idle, Busy
<1>6. QED
  BY <1>1, <1>2, <1>3, <1>4, <1>5 DEF IInv, PaidInv

-----------------------------------------------------------------------------
(***************************************************************************)
(* The outbox.                                                             *)
(***************************************************************************)
LEMMA CommitStep ==
    ASSUME IInv, NEW w \in Withdrawals, Commit(w)
    PROVE  IInv'
<1> USE DEF IInv
<1>1. TypeOK'
  BY DEF Commit, TypeOK
<1>2. QueueInv'
  BY DEF Commit, TypeOK, QueueInv, JobsAreOwned, PublishedIsQueued, AddedFirst
<1>3. PaidInv'
  BY PaidKept DEF Commit
<1>4. ReportInv'
  BY DEF Commit, TypeOK, ReportInv, ReportsAreStored, OutcomeWasReported, Outcomes
<1>5. QED
  BY <1>1, <1>2, <1>3, <1>4

\* A dispatcher moves on to anything but the middle of a row.
LEMMA DispatcherMoves ==
    ASSUME IInv, NEW d \in Dispatchers, NEW y \in LoopType(Withdrawals), y.pc # "between",
           dispatcher' = [dispatcher EXCEPT ![d] = y],
           row' \in [Withdrawals -> {"NONE", "UNPUBLISHED", "PUBLISHED"}],
           PublishedIsQueued', faults' \in 0..MaxFaults,
           UNCHANGED <<txn, job, added, requests, ref, event, worker, processor>>
    PROVE  IInv'
<1> USE DEF IInv
<1>1. TypeOK'
  BY DEF TypeOK
<1>2. \A e \in Dispatchers : dispatcher'[e] = dispatcher[e] \/ dispatcher'[e].pc # "between"
  BY DEF TypeOK
<1>3. QueueInv'
  BY <1>2 DEF QueueInv, JobsAreOwned, AddedFirst
<1>4. PaidInv'
  BY PaidKept
<1>5. ReportInv'
  BY DEF ReportInv, ReportsAreStored, OutcomeWasReported
<1>6. QED
  BY <1>1, <1>3, <1>4, <1>5

LEMMA DispatcherInv ==
    ASSUME IInv, NEW d \in Dispatchers,
           \/ ReadRows(d) \/ MarkPublished(d) \/ RefuseRow(d) \/ SkipRow(d)
           \/ EndDispatcher(d) \/ StartDispatcher(d)
    PROVE  IInv'
<1> USE DEF IInv
<1>1. dispatcher[d] \in LoopType(Withdrawals)
  BY DEF TypeOK
<1>2. /\ row \in [Withdrawals -> {"NONE", "UNPUBLISHED", "PUBLISHED"}]
      /\ faults \in 0..MaxFaults /\ PublishedIsQueued
      /\ Fault => faults' \in 0..MaxFaults
  BY PayoutsAssumption DEF TypeOK, QueueInv, Fault
<1>3. row' = row /\ job' = job => PublishedIsQueued'
  BY <1>2 DEF PublishedIsQueued
<1>4. CASE ReadRows(d)
  <2> DEFINE S == {w \in Withdrawals : row[w] = "UNPUBLISHED"}
             y == Reading(S)
  <2>1. S \in SUBSET Withdrawals
    OBVIOUS
  <2>2. dispatcher' = [dispatcher EXCEPT ![d] = y]
    BY <1>4 DEF ReadRows
  <2> HIDE DEF S
  <2>3. y \in LoopType(Withdrawals) /\ y.pc # "between"
    BY <2>1, ReadingFacts
  <2> HIDE DEF y
  <2>4. QED
    BY <1>2, <1>3, <1>4, <2>2, <2>3, DispatcherMoves DEF ReadRows
<1>5. CASE MarkPublished(d)
  <2> DEFINE w == dispatcher[d].at
             y == Without(dispatcher[d], w)
  <2>1. /\ dispatcher[d].pc = "between" /\ dispatcher' = [dispatcher EXCEPT ![d] = y]
        /\ row' = [row EXCEPT ![w] = "PUBLISHED"] /\ job' = job
    BY <1>5 DEF MarkPublished
  <2>2. w \in Withdrawals /\ y \in LoopType(Withdrawals) /\ y.pc # "between"
    BY <1>1, <2>1, LoopFacts
  <2>3. job[w].state # "NONE"
    BY <2>1 DEF QueueInv, AddedFirst
  <2> HIDE DEF w, y
  <2>4. PublishedIsQueued'
    BY <1>2, <2>1, <2>2, <2>3 DEF PublishedIsQueued
  <2>5. row' \in [Withdrawals -> {"NONE", "UNPUBLISHED", "PUBLISHED"}]
    BY <1>2, <2>1
  <2>6. QED
    BY <1>2, <1>5, <2>1, <2>2, <2>4, <2>5, DispatcherMoves DEF MarkPublished
<1>6. CASE RefuseRow(d) \/ SkipRow(d)
  <2>1. Busy(dispatcher[d])
    BY <1>1, <1>6, LoopFacts DEF RefuseRow, SkipRow
  <2>2. PICK w \in dispatcher[d].batch :
           dispatcher' = [dispatcher EXCEPT ![d] = Without(dispatcher[d], w)]
    BY <1>6 DEF RefuseRow, SkipRow
  <2> DEFINE y == Without(dispatcher[d], w)
  <2>3. y \in LoopType(Withdrawals) /\ y.pc # "between"
    BY <1>1, <2>1, LoopFacts
  <2>4. dispatcher' = [dispatcher EXCEPT ![d] = y]
    BY <2>2
  <2> HIDE DEF y
  <2>5. /\ faults' \in 0..MaxFaults
        /\ UNCHANGED <<txn, row, job, added, requests, ref, event, worker, processor>>
    BY <1>2, <1>6 DEF RefuseRow, SkipRow
  <2>6. QED
    BY <1>2, <1>3, <2>3, <2>4, <2>5, DispatcherMoves
<1>7. CASE EndDispatcher(d) \/ StartDispatcher(d)
  <2>1. PICK y \in {Idle, Ended} : dispatcher' = [dispatcher EXCEPT ![d] = y]
    BY <1>7 DEF EndDispatcher, StartDispatcher
  <2>2. y \in LoopType(Withdrawals) /\ y.pc # "between"
    BY <2>1, ReadingFacts
  <2>3. /\ faults' \in 0..MaxFaults
        /\ UNCHANGED <<txn, row, job, added, requests, ref, event, worker, processor>>
    BY <1>2, <1>7 DEF EndDispatcher, StartDispatcher
  <2>4. QED
    BY <1>2, <1>3, <2>1, <2>2, <2>3, DispatcherMoves
<1>8. QED
  BY <1>4, <1>5, <1>6, <1>7

\* A job accepted as new may be run Attempts + MaxStalled times.
LEMMA AddJobStep ==
    ASSUME IInv, NEW d \in Dispatchers, AddJob(d)
    PROVE  IInv'
<1> USE DEF IInv
<1>1. PICK w \in dispatcher[d].batch :
         Enqueue(w) /\ dispatcher' = [dispatcher EXCEPT ![d] = Between(dispatcher[d], w)]
  BY DEF AddJob
<1> DEFINE y == Between(dispatcher[d], w)
<1>2. /\ w \in Withdrawals /\ y \in LoopType(Withdrawals) /\ y.pc = "between" /\ y.at = w
      /\ dispatcher' = [dispatcher EXCEPT ![d] = y]
  BY <1>1, LoopFacts DEF AddJob, TypeOK
<1> HIDE DEF y
<1>3. UNCHANGED <<txn, row, requests, ref, event, worker, processor, faults>>
  BY DEF AddJob
<1>4. \/ /\ job[w].state \in {"NONE", "REMOVED"}
         /\ job' = [job EXCEPT ![w] = [NoJob EXCEPT !.state = "WAITING"]]
         /\ added' = [added EXCEPT ![w] = added[w] + 1]
      \/ job[w].state \notin {"NONE", "REMOVED"} /\ UNCHANGED <<job, added>>
  BY <1>1 DEF Enqueue
<1> DEFINE j == [NoJob EXCEPT !.state = "WAITING"]
<1>5. /\ job' \in [Withdrawals -> JobType] /\ added' \in [Withdrawals -> Nat]
      /\ \A v \in Withdrawals : job[v].state # "NONE" => job'[v].state # "NONE"
      /\ job'[w].state # "NONE"
      /\ \A v \in Withdrawals : job'[v].state \in {"COMPLETED", "REMOVED"} => job'[v] = job[v]
      /\ JobsAreOwned'
  <2>1. /\ job \in [Withdrawals -> JobType] /\ added \in [Withdrawals -> Nat]
        /\ JobsAreOwned
    BY DEF TypeOK, QueueInv
  <2>2. /\ j \in JobType /\ j.state = "WAITING" /\ j.owner \notin Workers
        /\ j.attempts < Attempts
    BY PayoutsAssumption DEF JobType, JobStates, NoJob
  <2>3. CASE UNCHANGED <<job, added>> /\ job[w].state \notin {"NONE", "REMOVED"}
    BY <1>2, <2>1, <2>3 DEF JobsAreOwned
  <2>4. CASE job' = [job EXCEPT ![w] = j] /\ added' = [added EXCEPT ![w] = added[w] + 1]
    <3> HIDE DEF j
    <3>1. job'[w] = j /\ \A v \in Withdrawals \ {w} : job'[v] = job[v]
      BY <1>2, <2>1, <2>4
    <3>2. job' \in [Withdrawals -> JobType] /\ added' \in [Withdrawals -> Nat]
      BY <1>2, <2>1, <2>2, <2>4
    <3>3. QED
      BY <2>1, <2>2, <3>1, <3>2 DEF JobsAreOwned
  <2>5. QED
    BY <1>4, <2>3, <2>4
<1>6. TypeOK'
  BY <1>2, <1>3, <1>5 DEF TypeOK
<1>7. QueueInv'
  <2>1. PublishedIsQueued'
    BY <1>3, <1>5 DEF QueueInv, PublishedIsQueued
  <2>2. ASSUME NEW e \in Dispatchers, dispatcher'[e].pc = "between"
        PROVE  job'[dispatcher'[e].at].state # "NONE"
    <3>1. CASE e = d
      BY <1>2, <1>5, <3>1 DEF TypeOK
    <3>2. CASE e # d
      <4>1. dispatcher'[e] = dispatcher[e] /\ dispatcher[e] \in LoopType(Withdrawals)
        BY <1>2, <3>2 DEF TypeOK
      <4>2. dispatcher[e].at \in Withdrawals
        BY <2>2, <4>1, LoopFacts
      <4>3. QED
        BY <1>5, <2>2, <4>1, <4>2 DEF QueueInv, AddedFirst
    <3>3. QED
      BY <3>1, <3>2
  <2>3. QED
    BY <1>5, <2>1, <2>2 DEF QueueInv, AddedFirst
<1>8. AcksAreStored' /\ CompletedJobHasPaid'
  <2>1. AcksAreStored'
    BY <1>3 DEF PaidInv, AcksAreStored
  <2>2. CompletedJobHasPaid'
    BY <1>3, <1>5, PayoutsAssumption DEF PaidInv, CompletedJobHasPaid
  <2>3. QED
    BY <2>1, <2>2
<1>9. RunsAreCounted'
  <2>1. CASE UNCHANGED <<job, added>>
    BY <1>3, <2>1, PaidKept DEF PaidInv
  <2>2. CASE /\ job[w].state \in {"NONE", "REMOVED"}
             /\ job' = [job EXCEPT ![w] = [NoJob EXCEPT !.state = "WAITING"]]
             /\ added' = [added EXCEPT ![w] = added[w] + 1]
    <3>1. ASSUME NEW v \in Withdrawals
          PROVE  Runs(v)' <= added'[v] * (Attempts + MaxStalled)
      <4>1. Runs(v) <= added[v] * (Attempts + MaxStalled)
        BY DEF PaidInv, RunsAreCounted
      <4>2. Cardinality(Loaded(v)') = Cardinality(Loaded(v)) /\ requests'[v] = requests[v]
        BY <1>3 DEF Loaded
      <4>3. CASE v = w
        <5> DEFINE n == Cardinality(Loaded(v))
                   c == Attempts + MaxStalled
        <5>1. n \in Nat /\ c \in Nat /\ requests[v] \in Nat /\ added[v] \in Nat
          BY LoadedType, PayoutsAssumption DEF TypeOK
        <5>2. RunsLeft(v) = 0 /\ RunsLeft(v)' = c
          BY <1>2, <2>2, <4>3, PayoutsAssumption DEF RunsLeft, TypeOK, NoJob
        <5>3. added'[v] = added[v] + 1
          BY <1>2, <2>2, <4>3 DEF TypeOK
        <5>4. Runs(v) = requests[v] + n + 0 /\ Runs(v)' = requests[v] + n + c
          BY <4>2, <5>2 DEF Runs
        <5> HIDE DEF n, c
        <5>5. requests[v] + n + 0 <= added[v] * c
          BY <4>1, <5>4 DEF c
        <5>6. (added[v] + 1) * c = added[v] * c + c /\ added[v] * c \in Nat
          BY <5>1
        <5> DEFINE b == added[v] * c
        <5>7. requests[v] + n + 0 <= b /\ b \in Nat
          BY <5>5, <5>6
        <5> HIDE DEF b
        <5>8. requests[v] + n + c <= b + c
          BY <5>1, <5>7
        <5>9. QED
          BY <5>3, <5>4, <5>6, <5>8 DEF b, c
      <4>4. CASE v # w
        <5>1. added'[v] = added[v] /\ job'[v] = job[v]
          BY <2>2, <4>4 DEF TypeOK
        <5>2. Runs(v)' = Runs(v)
          BY <4>2, <5>1 DEF Runs, RunsLeft
        <5>3. QED
          BY <4>1, <5>1, <5>2
      <4>5. QED
        BY <4>3, <4>4
    <3>2. QED
      BY <3>1 DEF RunsAreCounted
  <2>3. QED
    BY <1>4, <2>1, <2>2
<1>10. ReportInv'
  BY <1>3 DEF ReportInv, ReportsAreStored, OutcomeWasReported
<1>11. QED
  BY <1>6, <1>7, <1>8, <1>9, <1>10 DEF PaidInv

-----------------------------------------------------------------------------
(***************************************************************************)
(* The queue and the payout dispatcher.                                    *)
(***************************************************************************)
LEMMA AcksKept ==
    ASSUME TypeOK, TypeOK', PaidInv, NEW x \in Workers, NEW y,
           worker'[x] = y, \A z \in Workers \ {x} : worker'[z] = worker[z],
           \A w \in Withdrawals : requests[w] <= requests'[w],
           \A w \in Calls : ref[w] \in 1..requests[w] => ref'[w] \in 1..requests'[w],
           y.pc = "sent" => y.of \in Calls /\ y.request \in 1..requests'[y.of],
           y.pc \in {"acked", "done"} /\ y.of \in Calls => ref'[y.of] \in 1..requests'[y.of]
    PROVE  AcksAreStored'
<1>1. ASSUME NEW z \in Workers, z # x
      PROVE  /\ worker'[z].pc = "sent" =>
                   /\ worker'[z].of \in Calls
                   /\ worker'[z].request \in 1..requests'[worker'[z].of]
             /\ worker'[z].pc \in {"acked", "done"} /\ worker'[z].of \in Calls =>
                   ref'[worker'[z].of] \in 1..requests'[worker'[z].of]
  <2>1. worker'[z] = worker[z]
    BY <1>1
  <2>2. ASSUME worker[z].pc = "sent"
        PROVE  worker[z].of \in Calls /\ worker[z].request \in 1..requests'[worker[z].of]
    <3>1. worker[z].of \in Calls /\ worker[z].request \in 1..requests[worker[z].of]
      BY <2>2 DEF PaidInv, AcksAreStored
    <3>2. worker[z].of \in Withdrawals
      BY <3>1, PayoutsAssumption
    <3>3. /\ requests[worker[z].of] <= requests'[worker[z].of]
          /\ requests[worker[z].of] \in Nat /\ requests'[worker[z].of] \in Nat
      BY <3>2 DEF TypeOK
    <3>4. QED
      BY <3>1, <3>3
  <2>3. worker[z].pc \in {"acked", "done"} /\ worker[z].of \in Calls =>
           ref'[worker[z].of] \in 1..requests'[worker[z].of]
    BY DEF PaidInv, AcksAreStored
  <2>4. QED
    BY <2>1, <2>2, <2>3
<1>2. QED
  BY <1>1 DEF AcksAreStored

\* What every step of the queue and of a worker leaves alone, and what is
\* left to show of it.
LEMMA JobKeeps ==
    ASSUME IInv, TypeOK', JobsAreOwned', AcksAreStored', CompletedJobHasPaid',
           OutcomeWasReported', UNCHANGED <<row, added, event, dispatcher, processor>>,
           \A w \in Withdrawals : job[w].state # "NONE" => job'[w].state # "NONE",
           \A w \in Withdrawals : requests[w] <= requests'[w],
           \A w \in Withdrawals : Runs(w)' <= Runs(w)
    PROVE  IInv'
<1> USE DEF IInv
<1>1. PublishedIsQueued'
  BY DEF QueueInv, PublishedIsQueued
<1>2. AddedFirst'
  <2>1. ASSUME NEW d \in Dispatchers, dispatcher[d].pc = "between"
        PROVE  job'[dispatcher[d].at].state # "NONE"
    <3>1. dispatcher[d].at \in Withdrawals
      BY <2>1, LoopFacts DEF TypeOK
    <3>2. QED
      BY <2>1, <3>1 DEF QueueInv, AddedFirst
  <2>2. QED
    BY <2>1 DEF AddedFirst
<1>3. RunsAreCounted'
  BY CountKept DEF PaidInv
<1>4. ReportsAreStored'
  <2>1. ASSUME NEW w \in Withdrawals, NEW o \in Outcomes, event[<<w, o>>] # "NONE"
        PROVE  requests'[w] >= 1
    <3>1. requests[w] >= 1 /\ requests[w] <= requests'[w]
      BY <2>1 DEF ReportInv, ReportsAreStored
    <3>2. requests[w] \in Nat /\ requests'[w] \in Nat
      BY DEF TypeOK
    <3>3. QED
      BY <3>1, <3>2
  <2>2. QED
    BY <2>1 DEF ReportInv, ReportsAreStored
<1>5. QED
  BY <1>1, <1>2, <1>3, <1>4 DEF QueueInv, PaidInv, ReportInv

\* A step of worker x that leaves its job, or another, with no more runs.
LEMMA WorkerKeeps ==
    ASSUME IInv, NEW x \in Workers, NEW y \in WorkerType, NEW w \in Withdrawals, NEW j \in JobType,
           worker' = [worker EXCEPT ![x] = y], y.pc # "loaded",
           job' = [job EXCEPT ![w] = j],
           j.owner \in Workers <=> j.state = "ACTIVE",
           j.state \in {"WAITING", "ACTIVE"} => j.attempts < Attempts,
           job[w].state # "NONE" => j.state # "NONE",
           j.state \in {"COMPLETED", "REMOVED"} /\ w \in Calls =>
               ref[w] \in 1..requests[w],
           RunsLeft(w)' <= RunsLeft(w),
           y.pc # "sent", y.pc \in {"acked", "done"} /\ y.of \in Calls =>
               ref[y.of] \in 1..requests[y.of],
           txn' \in [Withdrawals -> {"NONE", "PROCESSING"} \cup Outcomes], OutcomeWasReported',
           faults' \in 0..MaxFaults,
           UNCHANGED <<row, added, requests, ref, event, dispatcher, processor>>
    PROVE  IInv'
<1> USE DEF IInv
<1>1. /\ worker' \in [Workers -> WorkerType] /\ worker'[x] = y
      /\ \A z \in Workers \ {x} : worker'[z] = worker[z]
      /\ \A v : Cardinality(Loaded(v)') <= Cardinality(Loaded(v))
  BY WorkerMoves
<1>2. TypeOK'
  BY <1>1 DEF TypeOK
<1>3. job'[w] = j /\ \A v \in Withdrawals \ {w} : job'[v] = job[v]
  BY DEF TypeOK
<1>4. JobsAreOwned'
  BY <1>3 DEF QueueInv, JobsAreOwned
<1>5. CompletedJobHasPaid'
  BY <1>3, PayoutsAssumption DEF PaidInv, CompletedJobHasPaid
<1>6. AcksAreStored'
  <2>1. \A v \in Withdrawals : requests[v] <= requests'[v]
    BY DEF TypeOK
  <2>2. QED
    BY <1>1, <1>2, <2>1, AcksKept
<1>7. \A v \in Withdrawals : Runs(v)' <= Runs(v)
  <2>1. ASSUME NEW v \in Withdrawals
        PROVE  RunsLeft(v)' <= RunsLeft(v)
    <3>1. CASE v = w
      BY <3>1
    <3>2. CASE v # w
      <4>1. RunsLeft(v)' = RunsLeft(v) /\ RunsLeft(v) \in Int
        BY <1>3, <3>2, RunsType DEF RunsLeft
      <4>2. QED
        BY <4>1
    <3>3. QED
      BY <3>1, <3>2
  <2>2. QED
    BY <1>1, <1>2, <2>1, RunsSum
<1>8. \A v \in Withdrawals : requests[v] <= requests'[v]
  BY DEF TypeOK
<1>9. \A v \in Withdrawals : job[v].state # "NONE" => job'[v].state # "NONE"
  BY <1>3
<1>10. QED
  BY <1>2, <1>4, <1>5, <1>6, <1>7, <1>8, <1>9, JobKeeps
\* A job taken is a run: one less is left, and one is loaded.
LEMMA TakeJobStep ==
    ASSUME IInv, NEW x \in Workers, NEW w \in Withdrawals, TakeJob(x, w)
    PROVE  IInv'
<1> USE DEF IInv
<1> DEFINE y == [pc |-> "loaded", of |-> w, request |-> 0]
           j == [job[w] EXCEPT !.state = "ACTIVE", !.owner = x]
<1>1. /\ worker[x] = Idle /\ job[w].state = "WAITING"
      /\ worker' = [worker EXCEPT ![x] = y]
      /\ UNCHANGED <<txn, row, added, requests, ref, event, dispatcher, processor, faults>>
  BY DEF TakeJob
<1>2. job' = [job EXCEPT ![w] = j]
  BY DEF TakeJob, TypeOK
<1>3. job[w] \in JobType
  BY DEF TypeOK
<1>4. /\ j \in JobType /\ j.state = "ACTIVE" /\ j.owner = x
      /\ j.attempts = job[w].attempts /\ j.stalls = job[w].stalls
  BY <1>3 DEF JobType, JobStates
<1>5. y \in WorkerType /\ y.pc = "loaded" /\ y.of = w
  BY DEF WorkerType
<1>6. worker[x].pc = "idle"
  BY <1>1 DEF Idle
<1> HIDE DEF y, j
<1>7. /\ worker' \in [Workers -> WorkerType] /\ worker'[x] = y
      /\ \A z \in Workers \ {x} : worker'[z] = worker[z]
      /\ \A v : /\ v # w => Cardinality(Loaded(v)') <= Cardinality(Loaded(v))
                /\ Cardinality(Loaded(v)') <= Cardinality(Loaded(v)) + 1
  BY <1>1, <1>5, <1>6, WorkerMoves
<1>8. job'[w] = j /\ \A v \in Withdrawals \ {w} : job'[v] = job[v]
  BY <1>2 DEF TypeOK
<1>9. TypeOK'
  BY <1>1, <1>2, <1>4, <1>7 DEF TypeOK
<1>10. JobsAreOwned'
  BY <1>1, <1>4, <1>8 DEF QueueInv, JobsAreOwned
<1>11. CompletedJobHasPaid'
  BY <1>1, <1>4, <1>8, PayoutsAssumption DEF PaidInv, CompletedJobHasPaid
<1>12. \A v \in Withdrawals : requests[v] <= requests'[v]
  BY <1>1 DEF TypeOK
<1>13. AcksAreStored'
  BY <1>1, <1>5, <1>7, <1>9, <1>12, AcksKept
<1>14. \A v \in Withdrawals : Runs(v)' <= Runs(v)
  <2>1. RunsLeft(w)' = RunsLeft(w) - 1
    <3>1. RunsLeft(w) = (Attempts - job[w].attempts) + (MaxStalled - job[w].stalls)
      BY <1>1 DEF RunsLeft
    <3>2. RunsLeft(w)' = (Attempts - job'[w].attempts) + (MaxStalled - job'[w].stalls) - 1
      BY <1>4, <1>8 DEF RunsLeft
    <3>3. job'[w].attempts = job[w].attempts /\ job'[w].stalls = job[w].stalls
      BY <1>4, <1>8
    <3>4. job[w].attempts \in Int /\ job[w].stalls \in Int
      BY <1>3 DEF JobType
    <3>5. QED
      BY <3>1, <3>2, <3>3, <3>4, PayoutsAssumption
  <2>2. ASSUME NEW v \in Withdrawals, v # w
        PROVE  RunsLeft(v)' <= RunsLeft(v)
    <3>1. RunsLeft(v)' = RunsLeft(v) /\ RunsLeft(v) \in Int
      BY <1>8, <2>2, RunsType DEF RunsLeft
    <3>2. QED
      BY <3>1
  <2>3. \A v \in Withdrawals : requests'[v] = requests[v]
    BY <1>1
  <2>4. QED
    BY <1>7, <1>9, <2>1, <2>2, <2>3, RunsSum
<1>15. OutcomeWasReported'
  BY <1>1 DEF ReportInv, OutcomeWasReported
<1>16. \A v \in Withdrawals : job[v].state # "NONE" => job'[v].state # "NONE"
  BY <1>4, <1>8
<1>17. QED
  BY <1>1, <1>9, <1>10, <1>11, <1>12, <1>13, <1>14, <1>15, <1>16, JobKeeps

\* A request sent: one more, and one worker less about to send it.
LEMMA SendStep ==
    ASSUME IInv, NEW x \in Workers, Send(x)
    PROVE  IInv'
<1> USE DEF IInv
<1>1. /\ worker[x].pc = "loaded" /\ worker[x].of \in Calls
      /\ worker[x] \in [pc : {"loaded", "sent", "acked", "done"}, of : Withdrawals,
                        request : Nat]
      /\ UNCHANGED <<txn, row, job, added, ref, event, dispatcher, processor, faults>>
  BY WorkerFacts DEF Send
<1>2. PICK w \in Withdrawals : w = worker[x].of
  BY <1>1
<1>3. requests' = [requests EXCEPT ![w] = requests[w] + 1]
  BY <1>2 DEF Send
<1>4. w \in Calls /\ requests[w] \in Nat
  BY <1>1, <1>2 DEF TypeOK
<1> DEFINE y == [worker[x] EXCEPT !.pc = "sent", !.request = requests[w] + 1]
<1>5. /\ y \in WorkerType /\ y.pc = "sent" /\ y.of = w /\ y.request = requests[w] + 1
      /\ worker' = [worker EXCEPT ![x] = y]
  <2>1. \A n \in Nat :
           LET z == [worker[x] EXCEPT !.pc = "sent", !.request = n]
           IN  /\ z \in [pc : {"loaded", "sent", "acked", "done"}, of : Withdrawals,
                         request : Nat]
               /\ z.pc = "sent" /\ z.of = worker[x].of /\ z.request = n
    BY <1>1
  <2>2. requests[w] + 1 \in Nat
    BY <1>4
  <2>3. worker' = [worker EXCEPT ![x] = y]
    BY <1>2 DEF Send, TypeOK
  <2>4. QED
    BY <1>2, <2>1, <2>2, <2>3 DEF WorkerType
<1> HIDE DEF y
<1>6. /\ requests'[w] = requests[w] + 1
      /\ \A v \in Withdrawals \ {w} : requests'[v] = requests[v]
      /\ requests' \in [Withdrawals -> Nat]
  BY <1>3, <1>4 DEF TypeOK
<1>7. /\ worker' \in [Workers -> WorkerType] /\ worker'[x] = y
      /\ \A z \in Workers \ {x} : worker'[z] = worker[z]
      /\ \A v : Cardinality(Loaded(v)') <= Cardinality(Loaded(v))
      /\ Cardinality(Loaded(w)') + 1 = Cardinality(Loaded(w))
  BY <1>1, <1>2, <1>5, WorkerMoves
<1>8. TypeOK'
  BY <1>1, <1>6, <1>7 DEF TypeOK
<1>9. \A v \in Withdrawals : requests[v] <= requests'[v]
  BY <1>4, <1>6 DEF TypeOK
<1>10. \A v \in Calls : ref[v] \in 1..requests[v] => ref'[v] \in 1..requests'[v]
  <2>1. ASSUME NEW v \in Calls, ref[v] \in 1..requests[v]
        PROVE  ref'[v] \in 1..requests'[v]
    <3>1. v \in Withdrawals /\ requests[v] \in Nat /\ requests'[v] \in Nat /\ ref'[v] = ref[v]
      BY <1>1, <1>6, PayoutsAssumption DEF TypeOK
    <3>2. QED
      BY <1>9, <2>1, <3>1
  <2>2. QED
    BY <2>1
<1>11. AcksAreStored'
  <2>1. y.request \in 1..requests'[y.of]
    BY <1>4, <1>5, <1>6
  <2>2. QED
    BY <1>1, <1>4, <1>5, <1>7, <1>8, <1>9, <1>10, <2>1, AcksKept
<1>12. CompletedJobHasPaid'
  BY <1>1, <1>10 DEF PaidInv, CompletedJobHasPaid
<1>13. JobsAreOwned'
  BY <1>1 DEF QueueInv, JobsAreOwned
<1>14. \A v \in Withdrawals : Runs(v)' <= Runs(v)
  <2>1. \A v \in Withdrawals : RunsLeft(v)' = RunsLeft(v) /\ RunsLeft(v) \in Int
    BY <1>1, RunsType DEF RunsLeft
  <2>2. \A v \in Withdrawals : RunsLeft(v)' <= RunsLeft(v)
    BY <2>1
  <2>3. Runs(w)' <= Runs(w)
    BY <1>4, <1>6, <1>7, <1>8, <2>2, RunsSum
  <2>4. ASSUME NEW v \in Withdrawals, v # w
        PROVE  Runs(v)' <= Runs(v)
    BY <1>6, <1>7, <1>8, <2>2, <2>4, RunsSum
  <2>5. QED
    BY <2>3, <2>4
<1>15. OutcomeWasReported'
  <2>1. ASSUME NEW v \in Withdrawals, txn[v] \in Outcomes
        PROVE  event[<<v, txn[v]>>] # "NONE" /\ requests'[v] >= 1
    <3>1. event[<<v, txn[v]>>] # "NONE" /\ requests[v] >= 1
      BY <2>1 DEF ReportInv, OutcomeWasReported
    <3>2. requests[v] <= requests'[v] /\ requests[v] \in Nat /\ requests'[v] \in Nat
      BY <1>6, <1>9 DEF TypeOK
    <3>3. QED
      BY <3>1, <3>2
  <2>2. QED
    BY <1>1, <2>1 DEF OutcomeWasReported
<1>16. QED
  BY <1>1, <1>8, <1>9, <1>11, <1>12, <1>13, <1>14, <1>15, JobKeeps

\* The reference stored is that of a request the provider got.
LEMMA RecordAckStep ==
    ASSUME IInv, NEW x \in Workers, RecordAck(x)
    PROVE  IInv'
<1> USE DEF IInv
<1> DEFINE w == worker[x].of
           y == [worker[x] EXCEPT !.pc = "acked"]
<1>1. /\ worker[x].pc = "sent"
      /\ ref' = [ref EXCEPT ![w] = worker[x].request]
      /\ UNCHANGED <<txn, row, job, added, requests, event, dispatcher, processor, faults>>
  BY DEF RecordAck
<1>2. worker' = [worker EXCEPT ![x] = y]
  BY DEF RecordAck, TypeOK
<1>3. worker[x] \in [pc : {"loaded", "sent", "acked", "done"}, of : Withdrawals, request : Nat]
  BY <1>1, WorkerFacts
<1>4. w \in Calls /\ w \in Withdrawals /\ worker[x].request \in 1..requests[w]
  BY <1>1, <1>3 DEF PaidInv, AcksAreStored
<1>5. y \in WorkerType /\ y.pc = "acked" /\ y.of = w
  BY <1>3 DEF WorkerType
<1> HIDE DEF w, y
<1>6. /\ ref'[w] = worker[x].request /\ \A v \in Withdrawals \ {w} : ref'[v] = ref[v]
      /\ ref' \in [Withdrawals -> Nat]
  BY <1>1, <1>3, <1>4 DEF TypeOK
<1>7. /\ worker' \in [Workers -> WorkerType] /\ worker'[x] = y
      /\ \A z \in Workers \ {x} : worker'[z] = worker[z]
      /\ \A v : Cardinality(Loaded(v)') <= Cardinality(Loaded(v))
  BY <1>2, <1>5, WorkerMoves
<1>8. TypeOK'
  BY <1>1, <1>6, <1>7 DEF TypeOK
<1>9. \A v \in Withdrawals : requests[v] <= requests'[v]
  BY <1>1 DEF TypeOK
<1>10. \A v \in Calls : ref[v] \in 1..requests[v] => ref'[v] \in 1..requests'[v]
  BY <1>1, <1>4, <1>6, PayoutsAssumption
<1>11. AcksAreStored'
  BY <1>1, <1>4, <1>5, <1>6, <1>7, <1>8, <1>9, <1>10, AcksKept
<1>12. CompletedJobHasPaid'
  BY <1>1, <1>10 DEF PaidInv, CompletedJobHasPaid
<1>13. JobsAreOwned' /\ OutcomeWasReported'
  BY <1>1 DEF QueueInv, JobsAreOwned, ReportInv, OutcomeWasReported
<1>14. \A v \in Withdrawals : Runs(v)' <= Runs(v)
  <2>1. \A v \in Withdrawals : RunsLeft(v)' = RunsLeft(v) /\ RunsLeft(v) \in Int
    BY <1>1, RunsType DEF RunsLeft
  <2>2. \A v \in Withdrawals : RunsLeft(v)' <= RunsLeft(v) /\ requests'[v] = requests[v]
    BY <1>1, <2>1
  <2>3. QED
    BY <1>7, <1>8, <2>2, RunsSum
<1>15. QED
  BY <1>1, <1>8, <1>9, <1>11, <1>12, <1>13, <1>14, JobKeeps
\* The statuses a step sets are no outcomes.
LEMMA OutcomesKept ==
    ASSUME ReportInv, UNCHANGED <<event, requests>>,
           \A w \in Withdrawals : txn'[w] = txn[w] \/ txn'[w] = "PROCESSING"
    PROVE  OutcomeWasReported'
BY DEF ReportInv, OutcomeWasReported, Outcomes

LEMMA MarkProcessingStep ==
    ASSUME IInv, NEW x \in Workers, MarkProcessing(x)
    PROVE  IInv'
<1> USE DEF IInv
<1>1. /\ worker[x].pc \in {"acked", "loaded"}
      /\ worker[x] \in [pc : {"loaded", "sent", "acked", "done"}, of : Withdrawals,
                        request : Nat]
      /\ UNCHANGED <<row, job, added, requests, ref, event, dispatcher, processor, faults>>
  BY WorkerFacts DEF MarkProcessing
<1>2. PICK w \in Withdrawals : w = worker[x].of
  BY <1>1
<1>3. txn' = [txn EXCEPT ![w] = "PROCESSING"]
  BY <1>2 DEF MarkProcessing
<1> DEFINE y == [worker[x] EXCEPT !.pc = "done"]
<1>4. y \in WorkerType /\ y.pc = "done" /\ y.of = w /\ worker' = [worker EXCEPT ![x] = y]
  <2>1. worker' = [worker EXCEPT ![x] = y]
    BY DEF MarkProcessing, TypeOK
  <2>2. QED
    BY <1>1, <1>2, <2>1 DEF WorkerType
<1> HIDE DEF y
<1>5. w \in Calls => ref[w] \in 1..requests[w]
  BY <1>2 DEF MarkProcessing, PaidInv, AcksAreStored
<1>6. job' = [job EXCEPT ![w] = job[w]] /\ job[w] \in JobType
  BY <1>1 DEF TypeOK
<1>7. RunsLeft(w)' <= RunsLeft(w)
  <2>1. RunsLeft(w)' = RunsLeft(w) /\ RunsLeft(w) \in Int
    BY <1>1, RunsType DEF RunsLeft
  <2>2. QED
    BY <2>1
<1>8. /\ txn' \in [Withdrawals -> {"NONE", "PROCESSING"} \cup Outcomes]
      /\ \A v \in Withdrawals : txn'[v] = txn[v] \/ txn'[v] = "PROCESSING"
      /\ faults' \in 0..MaxFaults
  BY <1>1, <1>3 DEF TypeOK
<1>9. OutcomeWasReported'
  BY <1>1, <1>8, OutcomesKept
<1>10. /\ job[w].owner \in Workers <=> job[w].state = "ACTIVE"
       /\ job[w].state \in {"WAITING", "ACTIVE"} => job[w].attempts < Attempts
       /\ job[w].state \in {"COMPLETED", "REMOVED"} /\ w \in Calls =>
             ref[w] \in 1..requests[w]
  BY DEF QueueInv, JobsAreOwned, PaidInv, CompletedJobHasPaid
<1>11. QED
  BY <1>1, <1>4, <1>5, <1>6, <1>7, <1>8, <1>9, <1>10, WorkerKeeps

\* A worker lets go of its job: completed, or to be run again.
LEMMA LetGo ==
    ASSUME IInv, NEW x \in Workers, Busy(worker[x]),
           worker' = [worker EXCEPT ![x] = Idle],
           NEW w \in Withdrawals, w = worker[x].of,
           \/ job' = job
           \/ /\ job[w].owner = x
              /\ job' = [job EXCEPT ![w] = NextAttempt(job[w])]
           \/ /\ job[w].owner = x /\ worker[x].pc = "done"
              /\ job' = [job EXCEPT ![w].state = "COMPLETED", ![w].owner = None],
           faults' \in 0..MaxFaults,
           UNCHANGED <<txn, row, added, requests, ref, event, dispatcher, processor>>
    PROVE  IInv'
<1> USE DEF IInv
<1>1. Idle \in WorkerType /\ Idle.pc = "idle"
  BY DEF WorkerType, Idle
<1>2. OutcomeWasReported' /\ txn' \in [Withdrawals -> {"NONE", "PROCESSING"} \cup Outcomes]
  BY DEF ReportInv, OutcomeWasReported, TypeOK
<1>3. /\ job[w] \in JobType /\ job \in [Withdrawals -> JobType]
      /\ job[w].owner \in Workers <=> job[w].state = "ACTIVE"
      /\ job[w].state \in {"WAITING", "ACTIVE"} => job[w].attempts < Attempts
      /\ job[w].state \in {"COMPLETED", "REMOVED"} /\ w \in Calls => ref[w] \in 1..requests[w]
  BY DEF QueueInv, JobsAreOwned, PaidInv, CompletedJobHasPaid, TypeOK
<1>4. RunsLeft(w) \in Int
  BY RunsType
<1>5. CASE job' = job
  <2>1. job' = [job EXCEPT ![w] = job[w]]
    BY <1>3, <1>5
  <2>2. RunsLeft(w)' <= RunsLeft(w)
    BY <1>4, <1>5 DEF RunsLeft
  <2>3. QED
    BY <1>1, <1>2, <1>3, <2>1, <2>2, WorkerKeeps
<1>6. CASE job[w].owner = x /\ job' = [job EXCEPT ![w] = NextAttempt(job[w])]
  <2> DEFINE j == NextAttempt(job[w])
  <2>1. job[w].state = "ACTIVE" /\ job[w].attempts + 1 \in 0..Attempts
    BY <1>3, <1>6, PayoutsAssumption DEF JobType
  <2>2. /\ j \in JobType /\ j.owner = None /\ j.attempts = job[w].attempts + 1
        /\ j.stalls = job[w].stalls
        /\ j.state = IF job[w].attempts + 1 < Attempts THEN "WAITING" ELSE "FAILED"
    BY <1>3, <2>1 DEF NextAttempt, JobType, JobStates
  <2>3. job' = [job EXCEPT ![w] = j]
    BY <1>6
  <2> HIDE DEF j
  <2>4. job'[w] = j
    BY <1>3, <2>3
  <2>5. RunsLeft(w)' <= RunsLeft(w)
    <3>1. /\ job[w].attempts \in 0..Attempts /\ job[w].stalls \in 0..MaxStalled
          /\ job[w].attempts < Attempts
      BY <1>3, <2>1 DEF JobType
    <3>2. RunsLeft(w) = (Attempts - job[w].attempts) + (MaxStalled - job[w].stalls) - 1
      BY <2>1 DEF RunsLeft
    <3>3. RunsLeft(w)' = IF j.state = "WAITING"
                         THEN (Attempts - (job[w].attempts + 1)) + (MaxStalled - job[w].stalls)
                         ELSE 0
      BY <2>2, <2>4 DEF RunsLeft
    <3>4. QED
      BY <3>1, <3>2, <3>3, PayoutsAssumption
  <2>6. /\ j.owner \notin Workers /\ j.state \notin {"ACTIVE", "COMPLETED", "REMOVED", "NONE"}
        /\ j.state = "WAITING" => j.attempts < Attempts
    BY <2>2, PayoutsAssumption
  <2>7. QED
    BY <1>1, <1>2, <2>2, <2>3, <2>5, <2>6, WorkerKeeps
<1>7. CASE /\ job[w].owner = x /\ worker[x].pc = "done"
           /\ job' = [job EXCEPT ![w].state = "COMPLETED", ![w].owner = None]
  <2> DEFINE j == [job[w] EXCEPT !.state = "COMPLETED", !.owner = None]
  <2>1. job' = [job EXCEPT ![w] = j]
    BY <1>3, <1>7
  <2>2. j \in JobType /\ j.owner = None /\ j.state = "COMPLETED"
    BY <1>3 DEF JobType, JobStates
  <2> HIDE DEF j
  <2>3. w \in Calls => ref[w] \in 1..requests[w]
    BY <1>7 DEF PaidInv, AcksAreStored
  <2>4. RunsLeft(w)' <= RunsLeft(w)
    <3>1. job'[w] = j /\ job[w].state = "ACTIVE"
      BY <1>3, <1>7, <2>1
    <3>2. RunsLeft(w)' = 0
      BY <2>2, <3>1 DEF RunsLeft
    <3>3. /\ job[w].attempts \in 0..Attempts /\ job[w].stalls \in 0..MaxStalled
          /\ job[w].attempts < Attempts
      BY <1>3, <3>1 DEF JobType
    <3>4. RunsLeft(w) = (Attempts - job[w].attempts) + (MaxStalled - job[w].stalls) - 1
      BY <3>1 DEF RunsLeft
    <3>5. QED
      BY <3>2, <3>3, <3>4, PayoutsAssumption
  <2>5. QED
    BY <1>1, <1>2, <2>1, <2>2, <2>3, <2>4, PayoutsAssumption, WorkerKeeps
<1>8. QED
  BY <1>5, <1>6, <1>7

LEMMA LetGoStep ==
    ASSUME IInv, NEW x \in Workers, Complete(x) \/ Throw(x)
    PROVE  IInv'
<1> USE DEF IInv
<1>1. Busy(worker[x])
  BY WorkerFacts DEF Complete, Throw
<1>2. PICK w \in Withdrawals : w = worker[x].of
  BY <1>1, WorkerFacts
<1>3. faults' \in 0..MaxFaults
  BY PayoutsAssumption DEF Complete, Throw, Fault, TypeOK
<1>4. /\ worker' = [worker EXCEPT ![x] = Idle]
      /\ UNCHANGED <<txn, row, added, requests, ref, event, dispatcher, processor>>
  BY DEF Complete, Throw
<1>5. \/ job' = job
      \/ /\ job[w].owner = x
         /\ job' = [job EXCEPT ![w] = NextAttempt(job[w])]
      \/ /\ job[w].owner = x /\ worker[x].pc = "done"
         /\ job' = [job EXCEPT ![w].state = "COMPLETED", ![w].owner = None]
  BY <1>2 DEF Complete, Throw, Holds
<1>6. QED
  BY <1>1, <1>2, <1>3, <1>4, <1>5, LetGo

\* A worker stops, its job left active until its lock expires, or starts.
LEMMA StopStep ==
    ASSUME IInv, NEW x \in Workers, StopWorker(x) \/ StartWorker(x)
    PROVE  IInv'
<1> USE DEF IInv
<1>1. PICK y \in {Idle, Ended} : worker' = [worker EXCEPT ![x] = y]
  BY DEF StopWorker, StartWorker
<1>2. y \in WorkerType /\ y.pc \in {"idle", "ended"}
  BY <1>1 DEF WorkerType, Idle, Ended
<1>3. /\ UNCHANGED <<txn, row, job, added, requests, ref, event, dispatcher, processor>>
      /\ faults' \in 0..MaxFaults
  BY PayoutsAssumption DEF StopWorker, StartWorker, Fault, TypeOK
<1>4. /\ worker' \in [Workers -> WorkerType] /\ worker'[x] = y
      /\ \A z \in Workers \ {x} : worker'[z] = worker[z]
      /\ \A w : Cardinality(Loaded(w)') <= Cardinality(Loaded(w))
  BY <1>1, <1>2, WorkerMoves
<1>5. TypeOK'
  BY <1>3, <1>4 DEF TypeOK
<1>6. QueueInv' /\ ReportInv'
  BY <1>3 DEF QueueInv, JobsAreOwned, PublishedIsQueued, AddedFirst,
              ReportInv, ReportsAreStored, OutcomeWasReported
<1>7. AcksAreStored' /\ CompletedJobHasPaid'
  BY <1>2, <1>3, <1>4 DEF PaidInv, AcksAreStored, CompletedJobHasPaid
<1>8. \A w \in Withdrawals : Runs(w)' <= Runs(w)
  <2>1. ASSUME NEW w \in Withdrawals
        PROVE  requests'[w] = requests[w] /\ RunsLeft(w)' <= RunsLeft(w)
    <3>1. RunsLeft(w)' = RunsLeft(w) /\ RunsLeft(w) \in Int
      BY <1>3, RunsType DEF RunsLeft
    <3>2. QED
      BY <1>3, <3>1
  <2>2. QED
    BY <1>4, <1>5, <2>1, RunsSum
<1>9. RunsAreCounted'
  BY <1>3, <1>5, <1>8, CountKept DEF PaidInv
<1>10. QED
  BY <1>5, <1>6, <1>7, <1>9 DEF PaidInv

\* BullMQ takes a job from a worker it has not heard of, or forgets it.
LEMMA QueueStep ==
    ASSUME IInv, NEW w \in Withdrawals, Stall(w) \/ Forget(w)
    PROVE  IInv'
<1> USE DEF IInv
<1>1. /\ job[w] \in JobType /\ job \in [Withdrawals -> JobType]
      /\ job[w].owner \in Workers <=> job[w].state = "ACTIVE"
      /\ job[w].state = "ACTIVE" => job[w].attempts < Attempts
  BY DEF QueueInv, JobsAreOwned, TypeOK
<1>2. /\ faults' \in 0..MaxFaults
      /\ UNCHANGED <<txn, row, added, requests, ref, event, dispatcher, worker, processor>>
  BY PayoutsAssumption DEF Stall, Forget, Fault, TypeOK
<1>3. PICK j \in JobType :
         /\ job' = [job EXCEPT ![w] = j]
         /\ j.owner \notin Workers /\ j.state \in {"WAITING", "FAILED", "REMOVED"}
         /\ j.state = "REMOVED" => job[w].state = "COMPLETED"
         /\ j.state = "WAITING" => /\ job[w].state = "ACTIVE"
                                   /\ j.attempts = job[w].attempts
                                   /\ j.stalls = job[w].stalls + 1
         /\ job[w].state # "NONE"
  <2>1. CASE Stall(w)
    <3> DEFINE m == job[w].stalls < MaxStalled
               j == [job[w] EXCEPT !.owner = None,
                                   !.state = IF m THEN "WAITING" ELSE "FAILED",
                                   !.stalls = IF m THEN job[w].stalls + 1 ELSE job[w].stalls]
    <3>1. job' = [job EXCEPT ![w] = j]
      BY <1>1, <2>1 DEF Stall
    <3>2. (IF m THEN job[w].stalls + 1 ELSE job[w].stalls) \in 0..MaxStalled
      BY <1>1, PayoutsAssumption DEF JobType
    <3>3. /\ j \in JobType /\ j.owner = None /\ j.attempts = job[w].attempts
          /\ j.state = IF m THEN "WAITING" ELSE "FAILED"
          /\ m => j.stalls = job[w].stalls + 1
      BY <1>1, <3>2 DEF JobType, JobStates
    <3>4. job[w].state = "ACTIVE"
      BY <2>1 DEF Stall
    <3> HIDE DEF j
    <3>5. QED
      BY <3>1, <3>3, <3>4, PayoutsAssumption
  <2>2. CASE Forget(w)
    <3> DEFINE j == [job[w] EXCEPT !.state = "REMOVED"]
    <3>1. job' = [job EXCEPT ![w] = j] /\ job[w].state = "COMPLETED"
      BY <1>1, <2>2 DEF Forget
    <3>2. j \in JobType /\ j.owner = job[w].owner /\ j.state = "REMOVED"
      BY <1>1 DEF JobType, JobStates
    <3> HIDE DEF j
    <3>3. QED
      BY <1>1, <3>1, <3>2
  <2>3. QED
    BY <2>1, <2>2
<1>4. job'[w] = j /\ \A v \in Withdrawals \ {w} : job'[v] = job[v]
  BY <1>1, <1>3
<1>5. TypeOK'
  BY <1>1, <1>2, <1>3 DEF TypeOK
<1>6. JobsAreOwned'
  BY <1>1, <1>3, <1>4 DEF QueueInv, JobsAreOwned
<1>7. CompletedJobHasPaid'
  BY <1>2, <1>3, <1>4, PayoutsAssumption DEF PaidInv, CompletedJobHasPaid
<1>8. AcksAreStored' /\ OutcomeWasReported'
  BY <1>2 DEF PaidInv, AcksAreStored, ReportInv, OutcomeWasReported
<1>9. \A v \in Withdrawals : RunsLeft(v)' <= RunsLeft(v)
  <2>1. ASSUME NEW v \in Withdrawals, v # w
        PROVE  RunsLeft(v)' <= RunsLeft(v)
    <3>1. RunsLeft(v)' = RunsLeft(v) /\ RunsLeft(v) \in Int
      BY <1>4, <2>1, RunsType DEF RunsLeft
    <3>2. QED
      BY <3>1
  <2>2. CASE j.state = "WAITING"
    <3>1. job[w].attempts \in Int /\ job[w].stalls \in Int
      BY <1>1 DEF JobType
    <3>2. RunsLeft(w) = (Attempts - job[w].attempts) + (MaxStalled - job[w].stalls) - 1
      BY <1>3, <2>2 DEF RunsLeft
    <3>3. RunsLeft(w)' = (Attempts - job[w].attempts) + (MaxStalled - (job[w].stalls + 1))
      BY <1>3, <1>4, <2>2 DEF RunsLeft
    <3>4. RunsLeft(w)' <= RunsLeft(w)
      BY <3>1, <3>2, <3>3, PayoutsAssumption
    <3>5. QED
      BY <2>1, <3>4
  <2>3. CASE j.state # "WAITING"
    <3>1. RunsLeft(w)' = 0
      BY <1>3, <1>4, <2>3 DEF RunsLeft
    <3>2. RunsLeft(w) >= 0
      <4>1. /\ job[w].attempts \in 0..Attempts /\ job[w].stalls \in 0..MaxStalled
            /\ job[w].state = "ACTIVE" => job[w].attempts < Attempts
        BY <1>1 DEF JobType
      <4>2. QED
        BY <4>1, PayoutsAssumption DEF RunsLeft
    <3>3. RunsLeft(w)' <= RunsLeft(w)
      BY <3>1, <3>2
    <3>4. QED
      BY <2>1, <3>3
  <2>4. QED
    BY <2>2, <2>3
<1>10. \A v \in Withdrawals : Runs(v)' <= Runs(v)
  <2>1. ASSUME NEW v \in Withdrawals
        PROVE  /\ requests'[v] = requests[v]
               /\ Cardinality(Loaded(v)') <= Cardinality(Loaded(v))
    <3>1. Loaded(v)' = Loaded(v) /\ requests'[v] = requests[v]
      BY <1>2 DEF Loaded
    <3>2. Cardinality(Loaded(v)') = Cardinality(Loaded(v))
      BY <3>1, Zenon
    <3>3. QED
      BY <3>1, <3>2, LoadedType
  <2>2. QED
    BY <1>5, <1>9, <2>1, RunsSum
<1>11. \A v \in Withdrawals : requests[v] <= requests'[v]
  BY <1>2 DEF TypeOK
<1>12. \A v \in Withdrawals : job[v].state # "NONE" => job'[v].state # "NONE"
  BY <1>3, <1>4
<1>13. QED
  BY <1>2, <1>5, <1>6, <1>7, <1>8, <1>10, <1>11, <1>12, JobKeeps

-----------------------------------------------------------------------------
(***************************************************************************)
(* Webhooks.                                                               *)
(***************************************************************************)
\* The first report needs a request.
LEMMA ReceiveStep ==
    ASSUME IInv, NEW w \in Withdrawals, NEW o \in Outcomes, Receive(w, o)
    PROVE  IInv'
<1> USE DEF IInv
<1> DEFINE known == {p \in Outcomes : event[<<w, p>>] # "NONE"} \cup {o}
<1>1. /\ Cardinality(known) <= requests[w]
      /\ event' = [event EXCEPT ![<<w, o>>] = IF event[<<w, o>>] = "NONE" THEN "RECEIVED"
                                             ELSE event[<<w, o>>]]
      /\ UNCHANGED <<txn, row, job, added, requests, ref, dispatcher, worker, processor,
                     faults>>
  BY DEF Receive, TypeOK, Reports
<1>2. requests[w] >= 1
  <2>1. known \subseteq Outcomes /\ known # {}
    OBVIOUS
  <2>2. IsFiniteSet(Outcomes)
    <3>1. IsFiniteSet({"FAILED"} \cup {"COMPLETED"})
      BY FS_Singleton, FS_AddElement
    <3>2. {"FAILED"} \cup {"COMPLETED"} = Outcomes
      BY DEF Outcomes
    <3>3. QED
      BY <3>1, <3>2, Zenon
  <2> HIDE DEF known
  <2>3. IsFiniteSet(known)
    BY <2>1, <2>2, FS_Subset
  <2>4. Cardinality(known) \in Nat /\ Cardinality(known) # 0
    BY <2>1, <2>3, FS_CardinalityType, FS_EmptySet
  <2>5. requests[w] \in Nat
    BY DEF TypeOK
  <2>6. QED
    BY <1>1, <2>4, <2>5
<1>3. /\ event' \in [Reports -> {"NONE", "RECEIVED", "PROCESSED", "FAILED"}]
      /\ \A r \in Reports \ {<<w, o>>} : event'[r] = event[r]
      /\ event'[<<w, o>>] # "NONE"
  BY <1>1 DEF TypeOK, Reports
<1>4. TypeOK'
  BY <1>1, <1>3 DEF TypeOK
<1>5. QueueInv' /\ PaidInv'
  <2>1. PaidInv'
    BY <1>1, PaidKept
  <2>2. QED
    BY <1>1, <2>1 DEF QueueInv, JobsAreOwned, PublishedIsQueued, AddedFirst
<1>6. \A r \in Reports : event[r] # "NONE" => event'[r] # "NONE"
  BY <1>3
<1>7. ReportsAreStored'
  <2>1. ASSUME NEW v \in Withdrawals, NEW p \in Outcomes, event'[<<v, p>>] # "NONE"
        PROVE  requests'[v] >= 1
    <3>1. CASE v = w
      BY <1>1, <1>2, <3>1
    <3>2. CASE v # w
      <4>1. <<v, p>> \in Reports \ {<<w, o>>}
        BY <3>2 DEF Reports
      <4>2. QED
        BY <1>1, <1>3, <2>1, <4>1 DEF ReportInv, ReportsAreStored
    <3>3. QED
      BY <3>1, <3>2
  <2>2. ASSUME NEW p \in Processors, Busy(processor'[p]), NEW r \in processor'[p].batch
        PROVE  event'[r] # "NONE"
    <3>1. Busy(processor[p]) /\ r \in processor[p].batch
      BY <1>1, <2>2
    <3>2. r \in Reports
      BY <3>1, LoopFacts DEF TypeOK
    <3>3. QED
      BY <1>6, <3>1, <3>2 DEF ReportInv, ReportsAreStored
  <2>3. ASSUME NEW p \in Processors, processor'[p].pc = "between"
        PROVE  event'[processor'[p].at] # "NONE"
    <3>1. processor'[p] = processor[p] /\ processor[p] \in LoopType(Reports)
      BY <1>1 DEF TypeOK
    <3>2. processor[p].at \in Reports
      BY <2>3, <3>1, LoopFacts
    <3>3. QED
      BY <1>6, <2>3, <3>1, <3>2 DEF ReportInv, ReportsAreStored
  <2>4. QED
    BY <2>1, <2>2, <2>3 DEF ReportsAreStored
<1>8. OutcomeWasReported'
  <2>1. ASSUME NEW v \in Withdrawals, txn[v] \in Outcomes
        PROVE  event'[<<v, txn[v]>>] # "NONE" /\ requests[v] >= 1
    <3>1. <<v, txn[v]>> \in Reports
      BY <2>1 DEF Reports
    <3>2. QED
      BY <1>6, <2>1, <3>1 DEF ReportInv, OutcomeWasReported
  <2>2. QED
    BY <1>1, <2>1 DEF OutcomeWasReported
<1>9. QED
  BY <1>4, <1>5, <1>7, <1>8 DEF ReportInv

\* A processor moves on, with reports that are stored.
LEMMA ProcessorMoves ==
    ASSUME IInv, NEW p \in Processors, NEW y \in LoopType(Reports),
           processor' = [processor EXCEPT ![p] = y],
           Busy(y) => \A r \in y.batch : event[r] # "NONE",
           y.pc = "between" => event[y.at] # "NONE",
           event' \in [Reports -> {"NONE", "RECEIVED", "PROCESSED", "FAILED"}],
           \A r \in Reports : event'[r] = "NONE" <=> event[r] = "NONE",
           txn' \in [Withdrawals -> {"NONE", "PROCESSING"} \cup Outcomes],
           OutcomeWasReported', faults' \in 0..MaxFaults,
           UNCHANGED <<row, job, added, requests, ref, dispatcher, worker>>
    PROVE  IInv'
<1> USE DEF IInv
<1>1. TypeOK'
  BY DEF TypeOK
<1>2. QueueInv' /\ PaidInv'
  <2>1. PaidInv'
    BY PaidKept
  <2>2. QED
    BY <2>1 DEF QueueInv, JobsAreOwned, PublishedIsQueued, AddedFirst
<1>3. ASSUME NEW q \in Processors, Busy(processor'[q]), NEW r \in processor'[q].batch
      PROVE  event'[r] # "NONE"
  <2>1. processor'[q] \in LoopType(Reports)
    BY <1>1 DEF TypeOK
  <2>2. r \in Reports
    BY <1>3, <2>1, LoopFacts
  <2>3. event[r] # "NONE"
    <3>1. CASE q = p
      BY <1>3, <3>1 DEF TypeOK
    <3>2. CASE q # p
      <4>1. processor'[q] = processor[q]
        BY <3>2 DEF TypeOK
      <4>2. QED
        BY <1>3, <4>1 DEF ReportInv, ReportsAreStored
    <3>3. QED
      BY <3>1, <3>2
  <2>4. QED
    BY <2>2, <2>3
<1>4. ASSUME NEW q \in Processors, processor'[q].pc = "between"
      PROVE  event'[processor'[q].at] # "NONE"
  <2>1. processor'[q] \in LoopType(Reports)
    BY <1>1 DEF TypeOK
  <2>2. processor'[q].at \in Reports
    BY <1>4, <2>1, LoopFacts
  <2>3. event[processor'[q].at] # "NONE"
    <3>1. CASE q = p
      BY <1>4, <3>1 DEF TypeOK
    <3>2. CASE q # p
      <4>1. processor'[q] = processor[q]
        BY <3>2 DEF TypeOK
      <4>2. QED
        BY <1>4, <4>1 DEF ReportInv, ReportsAreStored
    <3>3. QED
      BY <3>1, <3>2
  <2>4. QED
    BY <2>2, <2>3
<1>5. \A w \in Withdrawals, o \in Outcomes : event'[<<w, o>>] # "NONE" => requests'[w] >= 1
  <2>1. ASSUME NEW w \in Withdrawals, NEW o \in Outcomes, event'[<<w, o>>] # "NONE"
        PROVE  requests'[w] >= 1
    <3>1. <<w, o>> \in Reports
      BY DEF Reports
    <3>2. event[<<w, o>>] # "NONE"
      BY <2>1, <3>1
    <3>3. QED
      BY <3>2 DEF ReportInv, ReportsAreStored
  <2>2. QED
    BY <2>1
<1>6. QED
  BY <1>1, <1>2, <1>3, <1>4, <1>5 DEF ReportInv, ReportsAreStored

LEMMA ProcessorInv ==
    ASSUME IInv, NEW p \in Processors,
           ReadEvents(p) \/ ApplyEvent(p) \/ MarkProcessed(p) \/ FailEvent(p)
              \/ EndProcessor(p) \/ StartProcessor(p)
    PROVE  IInv'
<1> USE DEF IInv
<1>1. /\ processor[p] \in LoopType(Reports)
      /\ Busy(processor[p]) => \A r \in processor[p].batch : event[r] # "NONE"
      /\ processor[p].pc = "between" => event[processor[p].at] # "NONE"
      /\ event \in [Reports -> {"NONE", "RECEIVED", "PROCESSED", "FAILED"}]
      /\ txn \in [Withdrawals -> {"NONE", "PROCESSING"} \cup Outcomes]
      /\ faults \in 0..MaxFaults /\ (Fault => faults' \in 0..MaxFaults)
  BY PayoutsAssumption DEF TypeOK, ReportInv, ReportsAreStored, Fault
<1>2. ASSUME txn' = txn, requests' = requests,
             \A r \in Reports : event'[r] = "NONE" <=> event[r] = "NONE"
      PROVE  OutcomeWasReported'
  <2>1. ASSUME NEW w \in Withdrawals, txn[w] \in Outcomes
        PROVE  event'[<<w, txn[w]>>] # "NONE" /\ requests[w] >= 1
    <3>1. <<w, txn[w]>> \in Reports
      BY <2>1 DEF Reports
    <3>2. QED
      BY <1>2, <2>1, <3>1 DEF ReportInv, OutcomeWasReported
  <2>2. QED
    BY <1>2, <2>1 DEF OutcomeWasReported
<1>3. CASE ReadEvents(p)
  <2> DEFINE S == {r \in Reports : event[r] = "RECEIVED"}
             y == Reading(S)
  <2>1. S \in SUBSET Reports /\ \A r \in S : event[r] # "NONE"
    OBVIOUS
  <2>2. processor' = [processor EXCEPT ![p] = y]
    BY <1>3 DEF ReadEvents
  <2> HIDE DEF S
  <2>3. y \in LoopType(Reports) /\ y.batch = S /\ y.pc # "between"
    BY <2>1, ReadingFacts
  <2> HIDE DEF y
  <2>4. QED
    BY <1>1, <1>2, <1>3, <2>1, <2>2, <2>3, ProcessorMoves DEF ReadEvents
<1>4. CASE ApplyEvent(p)
  <2>1. PICK r \in processor[p].batch :
           /\ txn' = [txn EXCEPT ![r[1]] = r[2]]
           /\ processor' = [processor EXCEPT ![p] = Between(processor[p], r)]
    BY <1>4 DEF ApplyEvent
  <2> DEFINE y == Between(processor[p], r)
  <2>2. Busy(processor[p]) /\ r \in Reports /\ event[r] # "NONE"
    BY <1>1, <1>4, LoopFacts DEF ApplyEvent
  <2>3. /\ y \in LoopType(Reports) /\ y.batch = processor[p].batch /\ y.at = r
        /\ processor' = [processor EXCEPT ![p] = y]
    BY <1>1, <2>1, <2>2, LoopFacts
  <2> HIDE DEF y
  <2>4. PICK w \in Withdrawals, o \in Outcomes : r = <<w, o>>
    BY <2>2 DEF Reports
  <2>5. txn' = [txn EXCEPT ![w] = o]
    BY <2>1, <2>4
  <2>6. UNCHANGED <<row, job, added, requests, ref, event, dispatcher, worker, faults>>
    BY <1>4 DEF ApplyEvent
  <2>7. requests[w] >= 1
    BY <2>2, <2>4 DEF ReportInv, ReportsAreStored
  <2>8. OutcomeWasReported'
    <3>1. ASSUME NEW v \in Withdrawals, txn'[v] \in Outcomes
          PROVE  event[<<v, txn'[v]>>] # "NONE" /\ requests[v] >= 1
      <4>1. CASE v = w
        BY <1>1, <2>2, <2>4, <2>5, <2>7, <4>1
      <4>2. CASE v # w
        BY <1>1, <2>5, <3>1, <4>2 DEF ReportInv, OutcomeWasReported
      <4>3. QED
        BY <4>1, <4>2
    <3>2. QED
      BY <2>6, <3>1 DEF OutcomeWasReported
  <2>9. txn' \in [Withdrawals -> {"NONE", "PROCESSING"} \cup Outcomes]
    BY <1>1, <2>5
  <2>10. QED
    BY <1>1, <2>2, <2>3, <2>6, <2>8, <2>9, ProcessorMoves
<1>5. CASE MarkProcessed(p) \/ FailEvent(p)
  <2>1. PICK r \in Reports :
           /\ event' = [event EXCEPT ![r] = "PROCESSED"] \/ event' = [event EXCEPT ![r] = "FAILED"]
           /\ event[r] # "NONE"
           /\ processor' = [processor EXCEPT ![p] = Without(processor[p], r)]
    <3>1. CASE FailEvent(p)
      BY <1>1, <3>1, LoopFacts DEF FailEvent
    <3>2. CASE MarkProcessed(p)
      <4>1. processor[p].pc = "between" /\ processor[p].at \in Reports
        BY <1>1, <3>2, LoopFacts DEF MarkProcessed
      <4>2. event[processor[p].at] # "NONE"
        BY <1>1, <4>1
      <4>3. QED
        BY <3>2, <4>1, <4>2 DEF MarkProcessed
    <3>3. QED
      BY <1>5, <3>1, <3>2
  <2> DEFINE y == Without(processor[p], r)
  <2>2. Busy(processor[p])
    BY <1>1, <1>5, LoopFacts DEF MarkProcessed, FailEvent
  <2>3. /\ y \in LoopType(Reports) /\ y.pc # "between"
        /\ Busy(y) => y.batch \subseteq processor[p].batch
        /\ processor' = [processor EXCEPT ![p] = y]
    BY <1>1, <2>1, <2>2, LoopFacts
  <2> HIDE DEF y
  <2>4. /\ event' \in [Reports -> {"NONE", "RECEIVED", "PROCESSED", "FAILED"}]
        /\ \A q \in Reports : event'[q] = "NONE" <=> event[q] = "NONE"
    BY <1>1, <2>1
  <2>5. /\ UNCHANGED <<txn, row, job, added, requests, ref, dispatcher, worker>>
        /\ faults' \in 0..MaxFaults
    BY <1>1, <1>5 DEF MarkProcessed, FailEvent
  <2>6. OutcomeWasReported'
    BY <1>2, <2>4, <2>5
  <2>7. QED
    BY <1>1, <2>2, <2>3, <2>4, <2>5, <2>6, ProcessorMoves
<1>6. CASE EndProcessor(p) \/ StartProcessor(p)
  <2>1. PICK y \in {Idle, Ended} : processor' = [processor EXCEPT ![p] = y]
    BY <1>6 DEF EndProcessor, StartProcessor
  <2>2. y \in LoopType(Reports) /\ y.pc # "between" /\ ~Busy(y)
    BY <2>1, ReadingFacts
  <2>3. /\ UNCHANGED <<txn, row, job, added, requests, ref, event, dispatcher, worker>>
        /\ faults' \in 0..MaxFaults
    BY <1>1, <1>6 DEF EndProcessor, StartProcessor
  <2>4. OutcomeWasReported'
    BY <1>2, <2>3
  <2>5. QED
    BY <1>1, <2>1, <2>2, <2>3, <2>4, ProcessorMoves
<1>7. QED
  BY <1>3, <1>4, <1>5, <1>6

-----------------------------------------------------------------------------
(***************************************************************************)
(* Theorems.                                                               *)
(***************************************************************************)
LEMMA StepIInv ==
    ASSUME IInv, [Next]_vars
    PROVE  IInv'
<1>1. CASE UNCHANGED vars
  <2>1. PaidInv'
    BY <1>1, PaidKept DEF vars, IInv
  <2>2. QED
    BY <1>1, <2>1 DEF vars, IInv, TypeOK, QueueInv, JobsAreOwned, PublishedIsQueued, AddedFirst,
       ReportInv, ReportsAreStored, OutcomeWasReported
<1>2. ASSUME NEW w \in Withdrawals, Commit(w) \/ Stall(w) \/ Forget(w)
      PROVE  IInv'
  BY <1>2, CommitStep, QueueStep
<1>3. ASSUME NEW w \in Withdrawals, NEW o \in Outcomes, Receive(w, o)
      PROVE  IInv'
  BY <1>3, ReceiveStep
<1>4. ASSUME NEW d \in Dispatchers,
             DispatcherStep(d) \/ SkipRow(d) \/ EndDispatcher(d) \/ StartDispatcher(d)
      PROVE  IInv'
  BY <1>4, DispatcherInv, AddJobStep DEF DispatcherStep
<1>5. ASSUME NEW x \in Workers,
             WorkerStep(x) \/ Throw(x) \/ StopWorker(x) \/ StartWorker(x)
      PROVE  IInv'
  BY <1>5, TakeJobStep, SendStep, RecordAckStep, MarkProcessingStep, LetGoStep, StopStep
     DEF WorkerStep
<1>6. ASSUME NEW p \in Processors,
             ProcessorStep(p) \/ FailEvent(p) \/ EndProcessor(p) \/ StartProcessor(p)
      PROVE  IInv'
  BY <1>6, ProcessorInv DEF ProcessorStep
<1>7. QED
  BY <1>1, <1>2, <1>3, <1>4, <1>5, <1>6 DEF Next

THEOREM Invariance == Spec => []IInv
<1>1. QED
  BY InitIInv, StepIInv, PTL DEF Spec

\* Rows, jobs, loops and counters keep their types.
THEOREM TypeCorrect == Spec => []TypeOK
<1>1. IInv => TypeOK
  BY DEF IInv
<1>2. QED
  BY <1>1, Invariance, PTL

\* No crash marks a row whose job is not in the queue.
THEOREM RowsReachTheQueue == Spec => []PublishedIsQueued
<1>1. IInv => PublishedIsQueued
  BY DEF IInv, QueueInv
<1>2. QED
  BY <1>1, Invariance, PTL

\* A completed job has asked the provider and stored a reference of it.
THEOREM CompletedJobsHavePaid == Spec => []CompletedJobHasPaid
<1>1. IInv => CompletedJobHasPaid
  BY DEF IInv, PaidInv
<1>2. QED
  BY <1>1, Invariance, PTL

\* However loops, workers and locks fail, an accepted job asks the provider
\* at most Attempts + MaxStalled times.
THEOREM PaymentsBounded == Spec => []RequestsAreBounded
<1>1. IInv => RequestsAreBounded
  <2> SUFFICES ASSUME IInv, NEW w \in Withdrawals
               PROVE  requests[w] <= added[w] * (Attempts + MaxStalled)
    BY DEF RequestsAreBounded
  <2> DEFINE n == Cardinality(Loaded(w))
             i == RunsLeft(w)
             c == added[w] * (Attempts + MaxStalled)
  <2>1. n \in Nat /\ i \in Int /\ c \in Int /\ requests[w] \in Nat
    BY LoadedType, RunsType DEF IInv
  <2>2. i >= 0
    BY PayoutsAssumption DEF IInv, TypeOK, JobType, QueueInv, JobsAreOwned, RunsLeft
  <2>3. requests[w] + n + i <= c
    BY DEF IInv, PaidInv, RunsAreCounted, Runs
  <2> HIDE DEF n, i, c
  <2>4. requests[w] <= c
    BY <2>1, <2>2, <2>3
  <2>5. QED
    BY <2>4 DEF c
<1>2. QED
  BY <1>1, Invariance, PTL

\* A terminal status comes from a stored report on a request.
THEOREM OutcomesAreReported == Spec => []OutcomeWasReported
<1>1. IInv => OutcomeWasReported
  BY DEF IInv, ReportInv
<1>2. QED
  BY <1>1, Invariance, PTL
=============================================================================
