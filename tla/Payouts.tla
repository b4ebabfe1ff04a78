------------------------------- MODULE Payouts -------------------------------
(***************************************************************************)
(* How a committed withdrawal leaves the platform: the outbox dispatcher,  *)
(* the BullMQ queues, the payout dispatcher, the rail provider, the        *)
(* webhook intake and the webhook processor.                               *)
(*                                                                         *)
(* All of it runs after the commit, outside any transaction: every arrow   *)
(* of the pipeline is a write to PostgreSQL and a write to Redis or to a   *)
(* provider, one after the other, and the process can stop in between.     *)
(* A fault is a failed call or a stopped process; MaxFaults bounds them.   *)
(* A loop ends at its first error outside a try: the worker's entry point  *)
(* prints it, and nothing but a new process, which the code does not       *)
(* start, runs the loop again.                                             *)
(*                                                                         *)
(* BullMQ is external: it refuses a queue name with a colon in it, drops   *)
(* an add whose jobId it still remembers, runs a job again when its        *)
(* handler throws (up to Attempts times) or its worker's lock expires (up  *)
(* to MaxStalled times), and forgets completed jobs in the end.  The       *)
(* provider is external: it may report an outcome for every request it     *)
(* got, any time after it got it.                                          *)
(***************************************************************************)
EXTENDS Integers, FiniteSets

CONSTANTS
    Withdrawals,
    Calls,       \* those whose rail calls a provider; the others are on chain
    Served,      \* those whose topic has a worker (bank:generic has none)
    Refused,     \* those whose topic BullMQ refuses as the name of a queue
    Dispatchers, \* running copies of the outbox loop
    Workers,     \* job slots of the payout dispatchers
    Processors,  \* running copies of the webhook loop
    Attempts,    \* the attempts of a job
    MaxStalled,  \* how often BullMQ restarts a stalled job
    MaxFaults,
    None

ASSUME PayoutsAssumption ==
    /\ Calls \subseteq Withdrawals
    /\ Served \subseteq Withdrawals /\ Refused \subseteq Withdrawals
    /\ Attempts \in Nat \ {0} /\ MaxStalled \in Nat /\ MaxFaults \in Nat
    /\ None \notin Workers /\ IsFiniteSet(Workers)

VARIABLES
    txn,        \* Transaction.status, "NONE" before the commit
    row,        \* the OutboxMessage of the withdrawal
    job,        \* its BullMQ job: state, lock owner, counters
    added,      \* how often the queue accepted the job as new
    requests,   \* provider.send calls the provider received
    ref,        \* the request whose providerRef the payout row holds, 0: none
    event,      \* WebhookEvent.status of a report, "NONE" before the intake
    dispatcher, worker, processor,
    faults      \* the faults so far

vars == <<txn, row, job, added, requests, ref, event, dispatcher, worker,
          processor, faults>>

Outcomes == {"COMPLETED", "FAILED"}
Reports  == Withdrawals \X Outcomes

JobStates == {"NONE", "WAITING", "ACTIVE", "COMPLETED", "FAILED", "REMOVED"}
JobType   == [state : JobStates, owner : Workers \cup {None},
              attempts : 0..Attempts, stalls : 0..MaxStalled]

Idle  == [pc |-> "idle"]
Ended == [pc |-> "ended"]
Busy(loop) == loop \notin {Idle, Ended}
LoopType(Things) ==
    {Idle, Ended} \cup [pc : {"batch"}, batch : SUBSET Things] \cup
    [pc : {"between"}, batch : SUBSET Things, at : Things]
WorkerType ==
    {Idle, Ended} \cup
    [pc : {"loaded", "sent", "acked", "done"}, of : Withdrawals, request : Nat]

TypeOK ==
    /\ txn \in [Withdrawals -> {"NONE", "PROCESSING"} \cup Outcomes]
    /\ row \in [Withdrawals -> {"NONE", "UNPUBLISHED", "PUBLISHED"}]
    /\ job \in [Withdrawals -> JobType]
    /\ added \in [Withdrawals -> Nat]
    /\ requests \in [Withdrawals -> Nat]
    /\ ref \in [Withdrawals -> Nat]
    /\ event \in [Reports -> {"NONE", "RECEIVED", "PROCESSED", "FAILED"}]
    /\ dispatcher \in [Dispatchers -> LoopType(Withdrawals)]
    /\ worker \in [Workers -> WorkerType]
    /\ processor \in [Processors -> LoopType(Reports)]
    /\ faults \in 0..MaxFaults

NoJob == [state |-> "NONE", owner |-> None, attempts |-> 0, stalls |-> 0]

Init ==
    /\ txn = [w \in Withdrawals |-> "NONE"]
    /\ row = [w \in Withdrawals |-> "NONE"]
    /\ job = [w \in Withdrawals |-> NoJob]
    /\ added = [w \in Withdrawals |-> 0]
    /\ requests = [w \in Withdrawals |-> 0]
    /\ ref = [w \in Withdrawals |-> 0]
    /\ event = [r \in Reports |-> "NONE"]
    /\ dispatcher = [d \in Dispatchers |-> Idle]
    /\ worker = [x \in Workers |-> Idle]
    /\ processor = [p \in Processors |-> Idle]
    /\ faults = 0

Fault ==
    /\ faults < MaxFaults
    /\ faults' = faults + 1

\* A loop works through the rows it has read, each in two steps; a row it is
\* done with leaves the batch.  The order is left open: createdAt and
\* receivedAt order the rows, not what they stand for.
Reading(things) == [pc |-> "batch", batch |-> things]
Between(loop, thing) == [pc |-> "between", batch |-> loop.batch, at |-> thing]
Without(loop, thing) ==
    IF loop.batch = {thing} THEN Idle ELSE Reading(loop.batch \ {thing})

-----------------------------------------------------------------------------
(***************************************************************************)
(* The outbox.                                                             *)
(***************************************************************************)
\* SendWithdrawal or ApproveWithdrawal of module Payments: the transaction
\* and its outbox row become visible together.
Commit(w) ==
    /\ txn[w] = "NONE"
    /\ txn' = [txn EXCEPT ![w] = "PROCESSING"]
    /\ row' = [row EXCEPT ![w] = "UNPUBLISHED"]
    /\ UNCHANGED <<job, added, requests, ref, event, dispatcher, worker,
                   processor, faults>>

\* Claiming the rows when they are read.
ReadRowsAndMark(d) ==
    /\ dispatcher[d] = Idle
    /\ \E w \in Withdrawals : row[w] = "UNPUBLISHED"
    /\ dispatcher' = [dispatcher EXCEPT ![d] =
                         Reading({w \in Withdrawals : row[w] = "UNPUBLISHED"})]
    /\ row' = [w \in Withdrawals |->
                  IF row[w] = "UNPUBLISHED" THEN "PUBLISHED" ELSE row[w]]
    /\ UNCHANGED <<txn, job, added, requests, ref, event, worker, processor, faults>>

\* SELECT ... FOR UPDATE SKIP LOCKED outside a transaction: the locks are
\* gone when the statement returns, and another loop reads the same rows.
ReadRows(d) ==
    /\ dispatcher[d] = Idle
    /\ \E w \in Withdrawals : row[w] = "UNPUBLISHED"
    /\ dispatcher' = [dispatcher EXCEPT ![d] =
                         Reading({w \in Withdrawals : row[w] = "UNPUBLISHED"})]
    /\ UNCHANGED <<txn, row, job, added, requests, ref, event, worker,
                   processor, faults>>

\* Queue.add with jobId: the row's id.
Enqueue(w) ==
    IF job[w].state \in {"NONE", "REMOVED"}
    THEN /\ job' = [job EXCEPT ![w] = [NoJob EXCEPT !.state = "WAITING"]]
         /\ added' = [added EXCEPT ![w] = @ + 1]
    ELSE UNCHANGED <<job, added>>

AddJob(d) ==
    /\ dispatcher[d].pc = "batch"
    /\ \E w \in dispatcher[d].batch \ Refused :
          /\ Enqueue(w)
          /\ dispatcher' = [dispatcher EXCEPT ![d] = Between(@, w)]
    /\ UNCHANGED <<txn, row, requests, ref, event, worker, processor, faults>>

MarkPublished(d) ==
    /\ dispatcher[d].pc = "between"
    /\ row' = [row EXCEPT ![dispatcher[d].at] = "PUBLISHED"]
    /\ dispatcher' = [dispatcher EXCEPT ![d] = Without(@, @.at)]
    /\ UNCHANGED <<txn, job, added, requests, ref, event, worker, processor, faults>>

\* The queue of the row's topic cannot be made; the row stays as it is.
RefuseRow(d) ==
    /\ dispatcher[d].pc = "batch"
    /\ \E w \in dispatcher[d].batch \cap Refused :
          dispatcher' = [dispatcher EXCEPT ![d] = Without(@, w)]
    /\ UNCHANGED <<txn, row, job, added, requests, ref, event, worker,
                   processor, faults>>

\* add or the update throws; the error is recorded and the row stays as it is.
SkipRow(d) ==
    /\ Busy(dispatcher[d])
    /\ Fault
    /\ \E w \in dispatcher[d].batch :
          /\ dispatcher[d].pc = "between" => w = dispatcher[d].at
          /\ dispatcher' = [dispatcher EXCEPT ![d] = Without(@, w)]
    /\ UNCHANGED <<txn, row, job, added, requests, ref, event, worker, processor>>

\* The query for the rows throws, or the update that records an error, both
\* outside any try; or the process stops.
EndDispatcher(d) ==
    /\ dispatcher[d] # Ended
    /\ Fault
    /\ dispatcher' = [dispatcher EXCEPT ![d] = Ended]
    /\ UNCHANGED <<txn, row, job, added, requests, ref, event, worker, processor>>

\* A new process runs the loop again.
StartDispatcher(d) ==
    /\ dispatcher[d] = Ended
    /\ dispatcher' = [dispatcher EXCEPT ![d] = Idle]
    /\ UNCHANGED <<txn, row, job, added, requests, ref, event, worker,
                   processor, faults>>

-----------------------------------------------------------------------------
(***************************************************************************)
(* BullMQ and the payout dispatcher.                                       *)
(***************************************************************************)
Holds(x, w) == Busy(worker[x]) /\ worker[x].of = w /\ job[w].owner = x

TakeJob(x, w) ==
    /\ worker[x] = Idle
    /\ w \in Served
    /\ job[w].state = "WAITING"
    /\ job' = [job EXCEPT ![w].state = "ACTIVE", ![w].owner = x]
    /\ worker' = [worker EXCEPT ![x] = [pc |-> "loaded", of |-> w, request |-> 0]]
    /\ UNCHANGED <<txn, row, added, requests, ref, event, dispatcher, processor, faults>>

Send(x) ==
    LET w == worker[x].of
    IN  /\ worker[x].pc = "loaded"
        /\ w \in Calls
        /\ requests' = [requests EXCEPT ![w] = @ + 1]
        /\ worker' = [worker EXCEPT ![x].pc = "sent", ![x].request = requests[w] + 1]
        /\ UNCHANGED <<txn, row, job, added, ref, event, dispatcher, processor, faults>>

RecordAck(x) ==
    /\ worker[x].pc = "sent"
    /\ ref' = [ref EXCEPT ![worker[x].of] = worker[x].request]
    /\ worker' = [worker EXCEPT ![x].pc = "acked"]
    /\ UNCHANGED <<txn, row, job, added, requests, event, dispatcher, processor, faults>>

\* Taking the acknowledgement of the provider for the payment.
MarkCompleted(x) ==
    /\ \/ worker[x].pc = "acked"
       \/ worker[x].pc = "loaded" /\ worker[x].of \notin Calls
    /\ txn' = [txn EXCEPT ![worker[x].of] = "COMPLETED"]
    /\ worker' = [worker EXCEPT ![x].pc = "done"]
    /\ UNCHANGED <<row, job, added, requests, ref, event, dispatcher, processor, faults>>

\* The transaction is set PROCESSING whatever its status is by now.  On
\* chain nothing is sent before.
MarkProcessing(x) ==
    /\ \/ worker[x].pc = "acked"
       \/ worker[x].pc = "loaded" /\ worker[x].of \notin Calls
    /\ txn' = [txn EXCEPT ![worker[x].of] = "PROCESSING"]
    /\ worker' = [worker EXCEPT ![x].pc = "done"]
    /\ UNCHANGED <<row, job, added, requests, ref, event, dispatcher, processor, faults>>

\* BullMQ ignores the result of a worker that has lost the lock.
Complete(x) ==
    LET w == worker[x].of
    IN  /\ worker[x].pc = "done"
        /\ job' = IF Holds(x, w) THEN [job EXCEPT ![w].state = "COMPLETED",
                                                  ![w].owner = None]
                                 ELSE job
        /\ worker' = [worker EXCEPT ![x] = Idle]
        /\ UNCHANGED <<txn, row, added, requests, ref, event, dispatcher,
                       processor, faults>>

\* The job that failed once more: to be run again while attempts remain.
NextAttemptUncounted(j) == [j EXCEPT !.owner = None, !.state = "WAITING"]

NextAttemptUnlimited(j) ==
    [j EXCEPT !.owner = None, !.attempts = @ + 1, !.state = "WAITING"]

NextAttemptSwallowed(j) == [j EXCEPT !.owner = None, !.state = "COMPLETED"]

NextAttempt(j) ==
    [j EXCEPT !.owner = None, !.attempts = @ + 1,
              !.state = IF j.attempts + 1 < Attempts THEN "WAITING" ELSE "FAILED"]

Throw(x) ==
    /\ Busy(worker[x])
    /\ Fault
    /\ LET w == worker[x].of
       IN  job' = IF Holds(x, w) THEN [job EXCEPT ![w] = NextAttempt(@)] ELSE job
    /\ worker' = [worker EXCEPT ![x] = Idle]
    /\ UNCHANGED <<txn, row, added, requests, ref, event, dispatcher, processor>>

StopWorker(x) ==
    /\ worker[x] # Ended
    /\ Fault
    /\ worker' = [worker EXCEPT ![x] = Ended]
    /\ UNCHANGED <<txn, row, job, added, requests, ref, event, dispatcher, processor>>

StartWorker(x) ==
    /\ worker[x] = Ended
    /\ worker' = [worker EXCEPT ![x] = Idle]
    /\ UNCHANGED <<txn, row, job, added, requests, ref, event, dispatcher,
                   processor, faults>>

\* The lock of a job expires: its worker stopped, or is alive and too slow
\* to renew it, and then it goes on with the job it no longer owns.  The
\* workers look for such jobs.
Stall(w) ==
    /\ job[w].state = "ACTIVE"
    /\ \E x \in Workers : worker[x] # Ended
    /\ IF Holds(job[w].owner, w) THEN Fault ELSE UNCHANGED faults
    /\ job' = [job EXCEPT ![w].owner = None,
                  ![w].state = IF job[w].stalls < MaxStalled THEN "WAITING" ELSE "FAILED",
                  ![w].stalls = IF @ < MaxStalled THEN @ + 1 ELSE @]
    /\ UNCHANGED <<txn, row, added, requests, ref, event, dispatcher, worker, processor>>

\* removeOnComplete: 1000 later jobs have pushed it out.
Forget(w) ==
    /\ job[w].state = "COMPLETED"
    /\ job' = [job EXCEPT ![w].state = "REMOVED"]
    /\ UNCHANGED <<txn, row, added, requests, ref, event, dispatcher, worker,
                   processor, faults>>

-----------------------------------------------------------------------------
(***************************************************************************)
(* Webhooks.                                                               *)
(***************************************************************************)
\* The provider reports on a request.  The intake stores a report once,
\* dedupeKey being unique, and acknowledges every copy.
Receive(w, outcome) ==
    LET known == {o \in Outcomes : event[<<w, o>>] # "NONE"}
    IN  /\ Cardinality(known \cup {outcome}) <= requests[w]
        /\ event' = [event EXCEPT ![<<w, outcome>>] =
                        IF @ = "NONE" THEN "RECEIVED" ELSE @]
        /\ UNCHANGED <<txn, row, job, added, requests, ref, dispatcher, worker,
                       processor, faults>>

\* Leaving out the reports on a transaction that has its outcome.
ReadOpenEvents(p) ==
    LET open == {r \in Reports : event[r] = "RECEIVED" /\ txn[r[1]] = "PROCESSING"}
    IN  /\ processor[p] = Idle
        /\ open # {}
        /\ processor' = [processor EXCEPT ![p] = Reading(open)]
        /\ UNCHANGED <<txn, row, job, added, requests, ref, event, dispatcher,
                       worker, faults>>

ReadEvents(p) ==
    /\ processor[p] = Idle
    /\ \E r \in Reports : event[r] = "RECEIVED"
    /\ processor' = [processor EXCEPT ![p] =
                        Reading({r \in Reports : event[r] = "RECEIVED"})]
    /\ UNCHANGED <<txn, row, job, added, requests, ref, event, dispatcher,
                   worker, faults>>

ApplyEvent(p) ==
    /\ processor[p].pc = "batch"
    /\ \E r \in processor[p].batch :
          /\ txn' = [txn EXCEPT ![r[1]] = r[2]]
          /\ processor' = [processor EXCEPT ![p] = Between(@, r)]
    /\ UNCHANGED <<row, job, added, requests, ref, event, dispatcher, worker, faults>>

MarkProcessed(p) ==
    /\ processor[p].pc = "between"
    /\ event' = [event EXCEPT ![processor[p].at] = "PROCESSED"]
    /\ processor' = [processor EXCEPT ![p] = Without(@, @.at)]
    /\ UNCHANGED <<txn, row, job, added, requests, ref, dispatcher, worker, faults>>

\* The handler or the update after it throws: FAILED, and never read again.
FailEvent(p) ==
    /\ Busy(processor[p])
    /\ Fault
    /\ \E r \in processor[p].batch :
          /\ processor[p].pc = "between" => r = processor[p].at
          /\ event' = [event EXCEPT ![r] = "FAILED"]
          /\ processor' = [processor EXCEPT ![p] = Without(@, r)]
    /\ UNCHANGED <<txn, row, job, added, requests, ref, dispatcher, worker>>

\* As EndDispatcher and StartDispatcher.
EndProcessor(p) ==
    /\ processor[p] # Ended
    /\ Fault
    /\ processor' = [processor EXCEPT ![p] = Ended]
    /\ UNCHANGED <<txn, row, job, added, requests, ref, event, dispatcher, worker>>

StartProcessor(p) ==
    /\ processor[p] = Ended
    /\ processor' = [processor EXCEPT ![p] = Idle]
    /\ UNCHANGED <<txn, row, job, added, requests, ref, event, dispatcher,
                   worker, faults>>

DispatcherStep(d) == ReadRows(d) \/ AddJob(d) \/ RefuseRow(d) \/ MarkPublished(d)

WorkerStep(x) ==
    \/ \E w \in Withdrawals : TakeJob(x, w)
    \/ Send(x) \/ RecordAck(x) \/ MarkProcessing(x) \/ Complete(x)

ProcessorStep(p) == ReadEvents(p) \/ ApplyEvent(p) \/ MarkProcessed(p)

Next ==
    \/ \E w \in Withdrawals : Commit(w) \/ Stall(w) \/ Forget(w)
    \/ \E w \in Withdrawals, o \in Outcomes : Receive(w, o)
    \/ \E d \in Dispatchers :
          DispatcherStep(d) \/ SkipRow(d) \/ EndDispatcher(d) \/ StartDispatcher(d)
    \/ \E x \in Workers : WorkerStep(x) \/ Throw(x) \/ StopWorker(x) \/ StartWorker(x)
    \/ \E p \in Processors :
          ProcessorStep(p) \/ FailEvent(p) \/ EndProcessor(p) \/ StartProcessor(p)

(***************************************************************************)
(* A loop that has not ended goes on; so do BullMQ's workers and, while    *)
(* one of them lives, its check for stalled jobs.  Nothing starts a loop   *)
(* or a worker that has ended, makes a client commit, a provider report,   *)
(* or a completed job be forgotten.                                        *)
(***************************************************************************)
Fairness ==
    /\ \A d \in Dispatchers : WF_vars(DispatcherStep(d))
    /\ \A x \in Workers : WF_vars(WorkerStep(x))
    /\ \A p \in Processors : WF_vars(ProcessorStep(p))
    /\ \A w \in Withdrawals : WF_vars(Stall(w))

Spec == Init /\ [][Next]_vars /\ Fairness

-----------------------------------------------------------------------------
(***************************************************************************)
(* Properties.                                                             *)
(***************************************************************************)
\* An outbox row is marked only when its job is in the queue: a crash at any
\* point repeats a job rather than losing it.
PublishedIsQueued ==
    \A w \in Withdrawals : row[w] = "PUBLISHED" => job[w].state # "NONE"

\* A job BullMQ counts as completed has asked the provider and stored the
\* reference of one of its requests, whichever worker completed it.
CompletedJobHasPaid ==
    \A w \in Calls :
        job[w].state \in {"COMPLETED", "REMOVED"} => ref[w] \in 1..requests[w]

\* How often one withdrawal can be paid at most: a job, once accepted, is
\* run Attempts + MaxStalled times, and a run asks the provider once.
RequestsAreBounded ==
    \A w \in Withdrawals : requests[w] <= added[w] * (Attempts + MaxStalled)

\* A withdrawal reaches a terminal status only through a stored report on a
\* request that was sent.
OutcomeWasReported ==
    \A w \in Withdrawals :
        txn[w] \in Outcomes => event[<<w, txn[w]>>] # "NONE" /\ requests[w] >= 1

\* Every committed withdrawal of a rail with a queue and a worker is carried
\* out, or its job has used up its runs, unless all dispatchers or all
\* workers have ended for good: a single failed call or stopped process
\* between two writes strands nothing, as long as somebody goes on.
DispatchingEnded ==
    \/ \A d \in Dispatchers : dispatcher[d] = Ended
    \/ \A x \in Workers : worker[x] = Ended

CommittedIsDispatched ==
    \A w \in Served \ Refused :
        \/ txn[w] # "NONE" ~> job[w].state \in {"COMPLETED", "REMOVED", "FAILED"}
        \/ <>[]DispatchingEnded

\* Every report the intake acknowledged is settled, unless the processors
\* have all ended for good.
ReceivedIsSettled ==
    \A r \in Reports :
        \/ event[r] = "RECEIVED" ~> event[r] \in {"PROCESSED", "FAILED"}
        \/ <>[](\A p \in Processors : processor[p] = Ended)

-----------------------------------------------------------------------------
(***************************************************************************)
(* What the documentation says and the code does not do.                   *)
(***************************************************************************)
\* "Each worker is single-purpose and idempotent": a job that is run again
\* does not pay again.
PaidOnce == \A w \in Withdrawals : requests[w] <= 1

\* "resolves them to terminal transaction states": such a state is final.
TerminalIsFinal ==
    [][\A w \in Withdrawals : txn[w] \in Outcomes => txn'[w] = txn[w]]_vars
=============================================================================
