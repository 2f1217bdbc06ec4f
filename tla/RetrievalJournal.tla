-------------------------- MODULE RetrievalJournal --------------------------
(***************************************************************************)
(* The journal of retrieval receipts (pkg/store/local/retrievaljournal):   *)
(* receipts are appended to a file in progress, which is renamed to its    *)
(* hash when it is full or the periodic rotator asks.  A batch's content   *)
(* is the sequence of what was written to it; its hash is that sequence.   *)
(***************************************************************************)
EXTENDS Integers, Sequences

CONSTANTS
    Receipts,       \* receipts offered
    FailedReceipts, \* those of failed retrievals
    MaxBatchSize,   \* entries at which a batch is full
    MaxMishaps      \* bound: crashes, short writes and failing system calls

ASSUME JournalAssumption ==
    FailedReceipts \subseteq Receipts /\ MaxBatchSize \in Nat \ {0} /\ MaxMishaps \in Nat

VARIABLES
    wip,            \* egress.car.wip: its content, or Missing
    handle,         \* currBatch: "open", "closed" or "down" when no process runs
    currHash,       \* what has gone into the hash of the current batch
    currSize,       \* the size the journal counts
    holder,         \* mu: what the holder does next, or "free"
    batches,        \* the rotated files: name (a hash) and content
    offered,        \* receipts given to Append
    acked,          \* receipts whose Append returned no error
    taken,          \* receipts in batches removed by their reader
    rotator,        \* PeriodicRotator: "running", "stopping" or "stopped"
    short,          \* history: a write fell short in this batch without a restart since
    mishaps

journalVars == <<wip, handle, currHash, currSize, holder, batches, offered, acked, taken,
                 rotator, short, mishaps>>

Missing == <<"missing">>
Header == "header"
Torn == "torn"
NoOne == [at |-> "free", rcpt |-> Header, by |-> "none"]

Mishap == mishaps < MaxMishaps /\ mishaps' = mishaps + 1
Entries(content) == {content[i] : i \in 1..Len(content)} \ {Header, Torn, "missing"}

\* Mutant: the hash starts anew with the process.
newBatchHashesNothing(truncate) ==
    LET old == IF truncate \/ wip = Missing THEN <<>> ELSE wip
        content == IF old = <<>> THEN <<Header>> ELSE old
    IN  /\ wip' = content /\ currHash' = <<Header>> /\ currSize' = Len(content)
        /\ handle' = "open"

\* newBatch without truncation: what the file holds is hashed again; with
\* truncation, or with nothing in the file, the header is written.
newBatch(truncate) ==
    LET old == IF truncate \/ wip = Missing THEN <<>> ELSE wip
        content == IF old = <<>> THEN <<Header>> ELSE old
    IN  /\ wip' = content /\ currHash' = content /\ currSize' = Len(content)
        /\ handle' = "open"

JournalInit ==
    /\ wip = Missing /\ handle = "down" /\ currHash = <<>> /\ currSize = 0
    /\ holder = NoOne /\ batches = {} /\ offered = {} /\ acked = {} /\ taken = {}
    /\ rotator = "stopped" /\ short = FALSE /\ mishaps = 0

NewFSJournal ==
    /\ handle = "down"
    /\ newBatch(FALSE)
    /\ rotator' = "running" /\ short' = FALSE
    /\ UNCHANGED <<offered, holder, batches, acked, taken, mishaps>>

\* Append: receipts of failed retrievals are not journaled.  The entry goes to
\* the file and to the hash.
AppendReceipt(r) ==
    /\ handle # "down" /\ holder = NoOne /\ r \notin offered
    /\ r \notin FailedReceipts /\ handle = "open"
    /\ offered' = offered \cup {r}
    /\ wip' = Append(wip, r) /\ currHash' = Append(currHash, r) /\ currSize' = currSize + 1
    /\ IF currSize + 1 >= MaxBatchSize + 1
       THEN holder' = [at |-> "rotate", rcpt |-> r, by |-> "append"] /\ UNCHANGED acked
       ELSE acked' = acked \cup {r} /\ UNCHANGED holder
    /\ UNCHANGED <<handle, batches, taken, rotator, short, mishaps>>

\* A write that falls short leaves bytes in the file that are neither hashed
\* nor counted.
AppendFallsShort(r) ==
    /\ handle = "open" /\ holder = NoOne /\ r \notin offered \cup FailedReceipts /\ Mishap
    /\ offered' = offered \cup {r}
    /\ wip' = Append(wip, Torn) /\ short' = TRUE
    /\ UNCHANGED <<handle, currHash, currSize, holder, batches, acked, taken, rotator>>

\* PeriodicRotator.run calls ForceRotate, which leaves a batch without entries.
ForceRotate ==
    /\ rotator = "running" /\ holder = NoOne /\ handle # "down" /\ currSize > 1
    /\ holder' = [at |-> "rotate", rcpt |-> Header, by |-> "rotator"]
    /\ UNCHANGED <<offered, wip, handle, currHash, currSize, batches, acked, taken, rotator, short, mishaps>>

\* rotate: close, rename to the hash ...
rotate ==
    /\ holder.at = "rotate" /\ handle = "open"
    /\ batches' = {b \in batches : b.name # currHash} \cup {[name |-> currHash, content |-> wip, short |-> short]}
    /\ wip' = Missing /\ handle' = "closed"
    /\ holder' = [holder EXCEPT !.at = "newBatch"]
    /\ UNCHANGED <<offered, currHash, currSize, acked, taken, rotator, short, mishaps>>

\* ... and open a new file.  The receipt is acknowledged with the batch.
RotateToNew ==
    /\ holder.at = "newBatch"
    /\ newBatch(TRUE) /\ short' = FALSE
    /\ acked' = IF holder.by = "append" THEN acked \cup {holder.rcpt} ELSE acked
    /\ holder' = NoOne
    /\ UNCHANGED <<offered, batches, taken, rotator, mishaps>>

\* Closing, renaming or opening fails: the file stays closed, and every later
\* call fails until the process restarts.
RotateFails ==
    /\ holder.at \in {"rotate", "newBatch"} /\ (Mishap \/ (handle = "closed" /\ holder.at = "rotate"
                                                       /\ UNCHANGED mishaps))
    /\ handle' = "closed" /\ holder' = NoOne
    /\ UNCHANGED <<offered, wip, currHash, currSize, batches, acked, taken, rotator, short>>

\* List yields the rotated batches alone, whose reader removes those it is done
\* with.
List == {b.name : b \in batches}

RemoveBatch ==
    /\ \E n \in List : \E b \in batches :
          /\ b.name = n
          /\ batches' = batches \ {b} /\ taken' = taken \cup Entries(b.content)
    /\ UNCHANGED <<offered, wip, handle, currHash, currSize, holder, acked, rotator, short, mishaps>>

StopRotator ==
    /\ rotator' = IF rotator = "running" THEN "stopping" ELSE "stopped"
    /\ rotator \in {"running", "stopping"} /\ (rotator = "stopping" => holder.by # "rotator")
    /\ UNCHANGED <<offered, wip, handle, currHash, currSize, holder, batches, acked, taken, short, mishaps>>

\* The process ends, in an append's writes or between them; Close loses nothing.
ProcessDies ==
    /\ handle # "down" /\ Mishap
    /\ handle' = "down" /\ holder' = NoOne /\ rotator' = "stopped"
    /\ UNCHANGED wip \/ (handle = "open" /\ wip # Missing /\ wip' = Append(wip, Torn))
    /\ UNCHANGED <<offered, currHash, currSize, batches, acked, taken, short>>

Close ==
    /\ handle = "open" /\ holder = NoOne /\ rotator = "stopped"
    /\ handle' = "down"
    /\ UNCHANGED <<offered, wip, currHash, currSize, holder, batches, acked, taken, rotator, short, mishaps>>

JournalNext ==
    \/ NewFSJournal \/ ForceRotate \/ rotate \/ RotateToNew \/ RotateFails \/ RemoveBatch
    \/ StopRotator \/ ProcessDies \/ Close
    \/ \E r \in Receipts : AppendReceipt(r) \/ AppendFallsShort(r)

JournalSpec == JournalInit /\ [][JournalNext]_journalVars

----------------------------------------------------------------------------
(* Properties *)

\* A rotated batch is named after its whole content, also what an earlier
\* process wrote, and whatever that process left half written; and its receipts
\* are in no other file.  The exception is a batch in which a write fell short.
\* (newBatch hashes what the file holds; rotate.)
BatchIsItsHash ==
    /\ \A b \in batches : ~b.short => b.name = b.content
    /\ \A b \in batches : Entries(b.content) \cap Entries(wip) = {}

\* A receipt Append has acknowledged is in the file in progress or in a rotated
\* batch until the batch's reader removes it, across failing rotations, crashes
\* and restarts.  (Append, rotate, NewFSJournal.)
AckedIsKept ==
    acked \subseteq Entries(wip) \cup taken \cup UNION {Entries(b.content) : b \in batches}

\* Both: a receipt is in exactly the batches whose names vouch for it.
ReceiptsAreKept == BatchIsItsHash /\ AckedIsKept
=============================================================================
