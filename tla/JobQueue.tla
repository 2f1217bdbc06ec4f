------------------------------ MODULE JobQueue ------------------------------
(***************************************************************************)
(* lib/jobqueue: a queue of jobs in a database, leased to a worker that    *)
(* runs them, retries them and moves the hopeless ones to a dead letter    *)
(* table.  The plain queue (queue/) keeps every message sent; the dedup    *)
(* queue (dedup/) keeps one row per job and remembers the jobs done.       *)
(*                                                                         *)
(* A row's lease is the flag "leased": it is set by a receive or an        *)
(* extension and cleared when the timeout passes.  A run is the goroutine  *)
(* of one received message.                                                *)
(***************************************************************************)
EXTENDS Integers, FiniteSets

CONSTANTS
    Jobs,        \* payloads; in the dedup queue, keys
    BadJobs,     \* those whose payload does not deserialize
    OldJobs,     \* those of a name this version does not register
    MaxReceive,  \* deliveries of one message
    MaxWorkers,  \* jobs that run at the same time
    MaxSends,    \* bound: rows ever inserted
    MaxFaults    \* bound: crashes, stops, slow extensions, panics and failed deletes

ASSUME JobQueueAssumption ==
    /\ BadJobs \cup OldJobs \subseteq Jobs
    /\ {MaxReceive, MaxWorkers} \subseteq Nat \ {0}

VARIABLES
    queueKind,   \* how the queue was created: dedup or not, blockRepeatsOnDLQ, dialect
    rows,        \* queued rows by id: their job, deliveries and lease
    sends,       \* rows ever inserted; ids are given in this order
    dead, done,  \* ids in the dead letter table, jobs recorded as done (dedup)
    checking,    \* jobs whose send has read job_done and not yet inserted
    runs,        \* goroutines: message id, delivery, and where it is
    phase,       \* of the JobQueue object
    ran,         \* history: ids whose job function has returned nil
    slow,        \* history: ids whose lease lapsed under a live run
    faults

queueVars == <<queueKind, rows, sends, dead, done, checking, runs, phase, ran, slow, faults>>
queueTables == <<rows, sends, dead, done>>

Ids == 1..MaxSends
Kinds == [dedup : BOOLEAN, remember : BOOLEAN, block : BOOLEAN, atomic : BOOLEAN]

Without(f, i) == [j \in DOMAIN f \ {i} |-> f[j]]
QueuedJobs == {rows[i].job : i \in DOMAIN rows}
RunsOf(i) == {r \in runs : r.id = i}

----------------------------------------------------------------------------
\* queue.New.
NewPlain == queueKind = [dedup |-> FALSE, remember |-> FALSE, block |-> FALSE, atomic |-> TRUE]

\* dedup.New: dedupeEnabled and blockRepeatsOnDLQ.  A SQLite transaction that
\* has read and then writes fails if another wrote in between, so its sends are
\* atomic; PostgreSQL's are not.
NewDedup == queueKind \in {k \in Kinds : k.dedup /\ (k.block => k.remember)}

\* jobqueue.New: WithDedupQueue chooses the queue, WithDialect the database.
NewJobQueue == NewPlain \/ NewDedup

QueueInit ==
    /\ NewJobQueue
    /\ rows = <<>> /\ sends = 0 /\ dead = {} /\ done = {} /\ checking = {}
    /\ runs = {} /\ phase = "new" /\ ran = {} /\ slow = {} /\ faults = 0

Start ==
    /\ phase = "new"
    /\ phase' = "started"
    /\ UNCHANGED <<queueKind, queueTables, checking, runs, ran, slow, faults>>

\* Enqueue refuses unless the queue is started and not stopping.
Accepting == phase = "started"

Insert(j) ==
    /\ sends < MaxSends
    /\ sends' = sends + 1
    /\ rows' = [i \in DOMAIN rows \cup {sends'} |->
                   IF i = sends' THEN [job |-> j, received |-> 0, leased |-> FALSE] ELSE rows[i]]

\* sendAndGetIDTx of the plain queue.
SendPlain(j) ==
    /\ ~queueKind.dedup
    /\ Accepting
    /\ Insert(j)
    /\ UNCHANGED <<queueKind, dead, done, checking, runs, phase, ran, slow, faults>>

\* isJobDone: a job recorded as done is skipped.
IsJobDone(j) == queueKind.remember /\ j \in done

InsertOnce(j) ==
    IF j \in QueuedJobs THEN UNCHANGED <<rows, sends>> ELSE Insert(j)

\* sendAndGetIDTx of the dedup queue, in one transaction ...
SendDedup(j) ==
    /\ queueKind.dedup /\ queueKind.atomic
    /\ Accepting
    /\ ~IsJobDone(j)
    /\ InsertOnce(j)
    /\ UNCHANGED <<queueKind, dead, done, checking, runs, phase, ran, slow, faults>>

\* ... which under READ COMMITTED is a read and, later, an insert.
SendDedupCheck(j) ==
    /\ queueKind.dedup /\ ~queueKind.atomic
    /\ Accepting
    /\ j \notin checking
    /\ ~IsJobDone(j)
    /\ checking' = checking \cup {j}
    /\ UNCHANGED <<queueKind, queueTables, runs, phase, ran, slow, faults>>

SendDedupInsert(j) ==
    /\ j \in checking
    /\ InsertOnce(j)
    /\ checking' = checking \ {j}
    /\ UNCHANGED <<queueKind, dead, done, runs, phase, ran, slow, faults>>

----------------------------------------------------------------------------
\* Mutant: a message is received once only.
ReceivableFresh == {i \in DOMAIN rows : ~rows[i].leased /\ rows[i].received = 0}

\* receiveTx: the oldest row whose lease is over and that has deliveries left.
Receivable == {i \in DOMAIN rows : ~rows[i].leased /\ rows[i].received < MaxReceive}

\* Mutant: the receipt is counted and no lease is taken.
CountOnly(i) == rows' = [rows EXCEPT ![i].received = @ + 1]

Lease(i) == rows' = [rows EXCEPT ![i].received = @ + 1, ![i].leased = TRUE]

Oldest(i) == i \in Receivable /\ \A k \in Receivable : i <= k

\* receiveAndRun: below the worker limit, receive and start a goroutine.  A
\* message that does not decode is left leased ...
ReceiveAndRun ==
    /\ phase = "started"
    /\ Cardinality(runs) < MaxWorkers
    /\ \E i \in Receivable :
         /\ Oldest(i)
         /\ rows[i].job \notin OldJobs
         /\ Lease(i)
         /\ runs' = IF rows[i].job \in BadJobs THEN runs
                    ELSE runs \cup {[id |-> i, delivery |-> rows[i].received + 1, at |-> "running"]}
    /\ UNCHANGED <<queueKind, sends, dead, done, checking, phase, ran, slow, faults>>

\* ... and one of a name nobody registered panics the receive loop's goroutine,
\* and with it the process.
ReceivePanics ==
    /\ phase = "started"
    /\ Cardinality(runs) < MaxWorkers
    /\ \E i \in Receivable : Oldest(i) /\ rows[i].job \in OldJobs /\ Lease(i)
    /\ phase' = "new" /\ runs' = {} /\ checking' = {}
    /\ UNCHANGED <<queueKind, sends, dead, done, ran, slow, faults>>

\* The timeout passes of a row no goroutine is extending.  Extensions stop
\* when the queue is stopped, while its jobs still run.
Lapse(i) ==
    /\ rows[i].leased
    /\ RunsOf(i) = {} \/ phase = "stopping"
    /\ rows' = [rows EXCEPT ![i].leased = FALSE]
    /\ UNCHANGED <<queueKind, sends, dead, done, checking, runs, phase, ran, slow, faults>>

\* extendMessageTimeout falls behind: the lease lapses under its run.
SlowExtend(i) ==
    /\ faults < MaxFaults /\ faults' = faults + 1
    /\ rows[i].leased
    /\ RunsOf(i) # {}
    /\ rows' = [rows EXCEPT ![i].leased = FALSE]
    /\ slow' = slow \cup {i}
    /\ UNCHANGED <<queueKind, sends, dead, done, checking, runs, phase, ran>>

\* extendTx: unconditional, so the lease is taken back from a later run too.
Extend(i) ==
    /\ phase = "started"
    /\ ~rows[i].leased
    /\ RunsOf(i) # {}
    /\ rows' = [rows EXCEPT ![i].leased = TRUE]
    /\ UNCHANGED <<queueKind, sends, dead, done, checking, runs, phase, ran, slow, faults>>

----------------------------------------------------------------------------
Move(r, to) == runs' = (runs \ {r}) \cup {[r EXCEPT !.at = to]}

JobSucceeds(r) ==
    /\ r.at = "running"
    /\ Move(r, "succeeded")
    /\ ran' = ran \cup {r.id}
    /\ UNCHANGED <<queueKind, queueTables, checking, phase, slow, faults>>

\* handleJobError: a permanent error, or an error of the last delivery, is for
\* the dead letter queue; after any other the message waits for its lease.
JobFails(r) ==
    /\ r.at = "running"
    /\ \E permanent \in BOOLEAN :
         IF permanent \/ r.delivery = MaxReceive
         THEN Move(r, "hopeless")
         ELSE runs' = runs \ {r}
    /\ UNCHANGED <<queueKind, queueTables, checking, phase, ran, slow, faults>>

\* runJob recovers from a panic of the job: the message stays leased.
JobPanics(r) ==
    /\ faults < MaxFaults /\ faults' = faults + 1
    /\ r.at = "running"
    /\ runs' = runs \ {r}
    /\ UNCHANGED <<queueKind, queueTables, checking, phase, ran, slow>>

\* deleteTx of the plain queue.
DeletePlain(i) == rows' = Without(rows, i) /\ UNCHANGED done

\* deleteTx of the dedup queue: a row that is gone is nothing to do.
DeleteDedup(i) ==
    IF i \in DOMAIN rows
    THEN /\ rows' = Without(rows, i)
         /\ done' = IF queueKind.remember THEN done \cup {rows[i].job} ELSE done
    ELSE UNCHANGED <<rows, done>>

\* runJob ends with deleteMessage, which may run into its deadline: "it will
\* be retried".
DeleteMessage(r) ==
    /\ r.at = "succeeded"
    /\ runs' = runs \ {r}
    /\ \/ /\ IF queueKind.dedup THEN DeleteDedup(r.id) ELSE DeletePlain(r.id)
          /\ UNCHANGED faults
       \/ /\ faults < MaxFaults /\ faults' = faults + 1
          /\ UNCHANGED <<rows, done>>
    /\ UNCHANGED <<queueKind, sends, dead, checking, phase, ran, slow>>

\* moveToDeadLetterTx of the plain queue: a missing row is an error.
DeadLetterPlain(i) ==
    /\ UNCHANGED done
    /\ IF i \in DOMAIN rows
       THEN rows' = Without(rows, i) /\ dead' = dead \cup {i}
       ELSE UNCHANGED <<rows, dead>>

\* moveToDeadLetterTx of the dedup queue.
DeadLetterDedup(i) ==
    IF i \in DOMAIN rows
    THEN /\ rows' = Without(rows, i) /\ dead' = dead \cup {i}
         /\ done' = IF queueKind.block THEN done \cup {rows[i].job} ELSE done
    ELSE UNCHANGED <<rows, dead, done>>

\* handlePermanentError and handleMaxRetriesExceeded: OnFailure, then the move,
\* which may run into its deadline.
DeadLetter(r) ==
    /\ r.at = "hopeless"
    /\ runs' = runs \ {r}
    /\ \/ /\ IF queueKind.dedup THEN DeadLetterDedup(r.id) ELSE DeadLetterPlain(r.id)
          /\ UNCHANGED faults
       \/ /\ faults < MaxFaults /\ faults' = faults + 1
          /\ UNCHANGED <<rows, dead, done>>
    /\ UNCHANGED <<queueKind, sends, checking, phase, ran, slow>>

----------------------------------------------------------------------------
\* Stop: no more enqueues and receives; the running jobs are waited for.
Stop ==
    /\ phase = "started"
    /\ faults < MaxFaults /\ faults' = faults + 1
    /\ phase' = "stopping"
    /\ UNCHANGED <<queueKind, queueTables, checking, runs, ran, slow>>

\* The process ends, by a crash or after Stop, and
\* is started again.  Its goroutines and open transactions are gone.
ProcessEnds ==
    /\ \/ phase = "stopping" /\ UNCHANGED faults
       \/ phase = "started" /\ faults < MaxFaults /\ faults' = faults + 1
    /\ phase' = "new"
    /\ runs' = {} /\ checking' = {}
    /\ UNCHANGED <<queueKind, queueTables, ran, slow>>

Sends == \E j \in Jobs : SendPlain(j) \/ SendDedup(j) \/ SendDedupCheck(j) \/ SendDedupInsert(j)
Time == \E i \in DOMAIN rows : Lapse(i)
Finish == \E r \in runs : JobSucceeds(r) \/ JobFails(r) \/ DeleteMessage(r) \/ DeadLetter(r)
Trouble ==
    \/ \E i \in DOMAIN rows : SlowExtend(i) \/ Extend(i)
    \/ \E r \in runs : JobPanics(r)

Deliver == ReceiveAndRun \/ ReceivePanics

QueueNext == Start \/ Sends \/ Deliver \/ Time \/ Finish \/ Trouble \/ Stop \/ ProcessEnds

\* The worker polls, jobs return, timeouts pass and the service manager starts
\* the process again.
QueueFairness ==
    /\ WF_queueVars(Start) /\ WF_queueVars(phase = "stopping" /\ ProcessEnds)
    /\ WF_queueVars(Deliver) /\ WF_queueVars(Time) /\ WF_queueVars(Finish)

QueueSpec == QueueInit /\ [][QueueNext]_queueVars /\ QueueFairness
----------------------------------------------------------------------------
\* A message accepted by the queue is still queued, has been run, or is in the
\* dead letter table, whatever is retried, lapses or crashes.
NothingLost == \A i \in 1..sends : i \in DOMAIN rows \/ i \in ran \/ i \in dead

\* Two goroutines run the same message only if its extension fell behind.
OneRunPerLease == \A r, s \in runs : r # s /\ r.id = s.id => r.id \in slow

\* A job recorded as done is not queued, and so not run, again.
DoneStaysDone == queueKind.atomic => done \cap QueuedJobs = {}

\* The three together: no message is lost, run twice at once, or run again.
MessagesKept == NothingLost /\ OneRunPerLease /\ DoneStaysDone

\* Every message leaves the queue or uses up its deliveries: none waits for a
\* worker, a lease or another message for ever.
MessagesSettle ==
    \A i \in Ids : i \in DOMAIN rows ~>
        (i \notin DOMAIN rows \/ (rows[i].received = MaxReceive /\ RunsOf(i) = {}))
=============================================================================
