--------------------------- MODULE AllocationIndex ---------------------------
(***************************************************************************)
(* The allocation store that runs on a plain key-value store               *)
(* (allocationstore.Store over genericstore): an allocation per (digest,   *)
(* space) key, an index of the allocations by allocate task link, and the  *)
(* pending allocations.  Nothing is transactional: every read, write and   *)
(* delete is a step of its own and may fail, and only a mutex per key      *)
(* keeps the calls apart.                                                  *)
(***************************************************************************)
EXTENDS Integers, FiniteSets

CONSTANTS
    Links,           \* allocate task links
    KeyOf,           \* [Links -> keys]: the (digest, space) a task allocates
    NoLink,          \* not a link
    StoreWorkers,    \* the goroutines that call the store
    NoWorker,        \* not a worker
    MaxStoreCalls,   \* bound: calls made
    MaxStoreErrors   \* bound: reads, writes and deletes that fail

ASSUME AllocationIndexAssumption ==
    NoLink \notin Links /\ NoWorker \notin StoreWorkers /\ MaxStoreCalls \in Nat /\ MaxStoreErrors \in Nat

VARIABLES
    records,     \* key -> the link of its allocation, or NoLink
    byTask,      \* the links that have an index entry
    waiting,     \* link -> "none", "empty" or "received": its pending record
    keyLocks,    \* key -> the worker holding its mutex, or NoWorker
    workers,     \* worker -> [op, link, at, prev, left, knows]
    witnessed,   \* history: worker -> whether its link was current, while its lookup ran
    storeCalls,
    storeErrors

indexVars == <<records, byTask, waiting, keyLocks, workers, witnessed, storeCalls, storeErrors>>

AllocationKeys == {KeyOf[l] : l \in Links}
StoreOps == {"Put", "Claim", "MakeCurrent", "Delete", "ReleaseByTask", "GetByTask", "ReleasePending"}
Resting == [op |-> "none", link |-> NoLink, at |-> "idle", prev |-> NoLink, left |-> {}, knows |-> FALSE]

IndexTypeOK ==
    /\ records \in [AllocationKeys -> Links \cup {NoLink}]
    /\ byTask \subseteq Links
    /\ waiting \in [Links -> {"none", "empty", "received"}]
    /\ keyLocks \in [AllocationKeys -> StoreWorkers \cup {NoWorker}]

IndexInit ==
    /\ records = [k \in AllocationKeys |-> NoLink]
    /\ byTask = {}
    /\ waiting = [l \in Links |-> "none"]
    /\ keyLocks = [k \in AllocationKeys |-> NoWorker]
    /\ workers = [w \in StoreWorkers |-> Resting]
    /\ witnessed = [w \in StoreWorkers |-> {}]
    /\ storeCalls = 0
    /\ storeErrors = 0

-----------------------------------------------------------------------------
KeyFor(w) == KeyOf[workers[w].link]

\* The calls that look a task up, and whose answer says whether it is current.
Lookups == {"GetByTask", "ReleaseByTask"}

\* Every lookup in progress witnesses whether its link is current.
Witness ==
    witnessed' = [w \in StoreWorkers |->
        IF workers'[w].op \notin Lookups THEN {} ELSE witnessed[w] \cup {records'[KeyOf[workers'[w].link]] = workers'[w].link}]

StepTo(w, step) == workers' = [workers EXCEPT ![w].at = step]

\* A call returns: the deferred unlock runs.  A lookup has an answer.
ReturnFrom(w, answer) ==
    /\ workers' = [workers EXCEPT ![w] =
           IF @.op \in Lookups /\ answer # "error" THEN [@ EXCEPT !.at = answer, !.prev = NoLink, !.left = {}] ELSE Resting]
    /\ keyLocks' = [k \in AllocationKeys |-> IF keyLocks[k] = w THEN NoWorker ELSE keyLocks[k]]

\* A call starts.  ReleasePending is given the pending record its caller read.
Calls(w, op, l) ==
    /\ workers[w].at = "idle"
    /\ storeCalls < MaxStoreCalls
    /\ storeCalls' = storeCalls + 1
    /\ op = "ReleasePending" => waiting[l] # "none"
    /\ workers' = [workers EXCEPT ![w] =
           [Resting EXCEPT !.op = op, !.link = l, !.knows = op = "ReleasePending" /\ waiting[l] = "received",
            !.at = CASE op \in Lookups -> "lookup"
                     [] op = "ReleasePending" -> "reread"
                     [] OTHER -> "lock"]]
    /\ UNCHANGED <<records, byTask, waiting, keyLocks, storeErrors>>
    /\ Witness

\* The caller takes the answer.
CallEnds(w) ==
    /\ workers[w].at \in {"yes", "no"}
    /\ workers' = [workers EXCEPT ![w] = Resting]
    /\ UNCHANGED <<records, byTask, waiting, keyLocks, storeCalls, storeErrors>>
    /\ Witness

\* The backend fails: the call returns the error where it stands.
BackendFails(w) ==
    /\ workers[w].at \notin {"idle", "lock", "yes", "no"}
    /\ storeErrors < MaxStoreErrors
    /\ storeErrors' = storeErrors + 1
    /\ ReturnFrom(w, "error")
    /\ UNCHANGED <<records, byTask, waiting, storeCalls>>
    /\ Witness

\* Both find the key in the index, holding no lock; only a release then
\* takes the key's lock.
LookedUp(w, next) ==
    /\ workers[w].at = "lookup"
    /\ IF workers[w].link \in byTask
       THEN StepTo(w, next) /\ UNCHANGED keyLocks
       ELSE ReturnFrom(w, "no")
    /\ UNCHANGED <<records, byTask, waiting, storeCalls, storeErrors>>
    /\ Witness

ReleaseByTask(w) == workers[w].op = "ReleaseByTask" /\ LookedUp(w, "lock")
GetByTask(w) == workers[w].op = "GetByTask" /\ LookedUp(w, "read")

\* ReleasePending reads the record again, or keeps what it was given when it
\* is gone: only an upload with a digest has a key to lock.
RereadPending(w) ==
    /\ workers[w].at = "reread"
    /\ LET latest == waiting[workers[w].link]
           digest == IF latest = "none" THEN workers[w].knows ELSE latest = "received"
       IN  workers' = [workers EXCEPT ![w].at = IF digest THEN "lock" ELSE "drop", ![w].knows = FALSE]
    /\ UNCHANGED <<records, byTask, waiting, keyLocks, storeCalls, storeErrors>>
    /\ Witness

LockFree(w) == keyLocks[KeyFor(w)] = NoWorker

LockKey(w) ==
    /\ workers[w].at = "lock"
    /\ LockFree(w)
    /\ keyLocks' = [keyLocks EXCEPT ![KeyFor(w)] = w]
    /\ StepTo(w, "read")
    /\ UNCHANGED <<records, byTask, waiting, storeCalls, storeErrors>>
    /\ Witness

\* What each call does once it has read its key's allocation.
AfterRead(op, l, current) ==
    CASE op = "Put" -> "index"
      [] op = "Claim" -> IF current = NoLink THEN "index" ELSE "no"
      [] op = "MakeCurrent" -> IF current \in {NoLink, l} THEN "no" ELSE "index"
      [] op = "Delete" -> IF current = NoLink THEN "no" ELSE "remove"
      [] op = "ReleaseByTask" -> IF current = l THEN "handover" ELSE "no"
      [] op = "GetByTask" -> IF current = l THEN "yes" ELSE "no"
      [] op = "ReleasePending" -> IF current = l THEN "handover" ELSE "drop"

ReadRecord(w) ==
    /\ workers[w].at = "read"
    /\ LET current == records[KeyFor(w)]
           next == AfterRead(workers[w].op, workers[w].link, current)
       IN  IF next \in {"yes", "no"}
           THEN ReturnFrom(w, next)
           ELSE /\ workers' = [workers EXCEPT ![w].at = next,
                                             ![w].prev = IF next \in {"index", "remove"} THEN current ELSE NoLink]
                /\ UNCHANGED keyLocks
    /\ UNCHANGED <<records, byTask, waiting, storeCalls, storeErrors>>
    /\ Witness

\* handOverClaim lists the pending records, then reads them one by one.
ListPending(w) ==
    /\ workers[w].at = "handover"
    /\ workers' = [workers EXCEPT ![w].at = "scan",
                                 ![w].left = {o \in Links : waiting[o] # "none"}]
    /\ UNCHANGED <<records, byTask, waiting, keyLocks, storeCalls, storeErrors>>
    /\ Witness

\* The first one read that is another received upload of the same content in
\* the space gets the claim; without one the claim is deleted.
HandOver(w) ==
    /\ workers[w].at = "scan"
    /\ LET l == workers[w].link
           Gets(o) == o # l /\ waiting[o] = "received" /\ KeyOf[o] = KeyOf[l]
       IN  \/ workers[w].left = {} /\ StepTo(w, "remove")
           \/ \E o \in workers[w].left :
                 workers' = [workers EXCEPT ![w] =
                     IF Gets(o) THEN [@ EXCEPT !.at = "index", !.prev = o, !.left = {}]
                                ELSE [@ EXCEPT !.left = @ \ {o}]]
    /\ UNCHANGED <<records, byTask, waiting, keyLocks, storeCalls, storeErrors>>
    /\ Witness

-----------------------------------------------------------------------------
\* put, in the order the code writes: the index entry of the new allocation,
\* the record, then the replaced allocation's entry is dropped.  While a claim
\* is handed over, prev names the upload that gets it.
HandsOver(w) == workers[w].op \in {"ReleaseByTask", "ReleasePending"}
NewLink(w) == IF HandsOver(w) THEN workers[w].prev ELSE workers[w].link
OldLink(w) == IF HandsOver(w) THEN workers[w].link ELSE workers[w].prev

\* The call ends, or ReleasePending goes on to delete the pending record.
Written(w) ==
    IF workers[w].op = "ReleasePending"
    THEN StepTo(w, "drop") /\ UNCHANGED keyLocks
    ELSE ReturnFrom(w, "yes")

\* Mutant: the index entry comes after the record.
IndexLate(w) ==
    /\ workers[w].at = "index"
    /\ byTask' = byTask
    /\ StepTo(w, "record")
    /\ UNCHANGED <<records, waiting, keyLocks, storeCalls, storeErrors>>
    /\ Witness

IndexNew(w) ==
    /\ workers[w].at = "index"
    /\ byTask' = byTask \cup {NewLink(w)}
    /\ StepTo(w, "record")
    /\ UNCHANGED <<records, waiting, keyLocks, storeCalls, storeErrors>>
    /\ Witness

PutRecord(w) ==
    /\ workers[w].at = "record"
    /\ records' = [records EXCEPT ![KeyFor(w)] = NewLink(w)]
    /\ IF OldLink(w) \in {NoLink, NewLink(w)}
       THEN Written(w)
       ELSE StepTo(w, "unindex") /\ UNCHANGED keyLocks
    /\ UNCHANGED <<byTask, waiting, storeCalls, storeErrors>>
    /\ Witness

DropReplaced(w) ==
    /\ workers[w].at = "unindex"
    /\ byTask' = byTask \ {OldLink(w)}
    /\ Written(w)
    /\ UNCHANGED <<records, waiting, storeCalls, storeErrors>>
    /\ Witness

\* delete: the record before its index entry.
DeleteRecord(w) ==
    /\ workers[w].at = "remove"
    /\ records' = [records EXCEPT ![KeyFor(w)] = NoLink]
    /\ StepTo(w, "forget")
    /\ UNCHANGED <<byTask, waiting, keyLocks, storeCalls, storeErrors>>
    /\ Witness

ForgetDeleted(w) ==
    /\ workers[w].at = "forget"
    /\ byTask' = byTask \ {IF HandsOver(w) THEN workers[w].link ELSE workers[w].prev}
    /\ Written(w)
    /\ UNCHANGED <<records, waiting, storeCalls, storeErrors>>
    /\ Witness

DeletePending(w) ==
    /\ workers[w].at = "drop"
    /\ waiting' = [waiting EXCEPT ![workers[w].link] = "none"]
    /\ ReturnFrom(w, "yes")
    /\ UNCHANGED <<records, byTask, storeCalls, storeErrors>>
    /\ Witness

\* PutPending: an allocate without a digest, then its upload's digest.
PutPending(l) ==
    /\ waiting[l] # "received"
    /\ waiting' = [waiting EXCEPT ![l] = IF @ = "none" THEN "empty" ELSE "received"]
    /\ UNCHANGED <<records, byTask, keyLocks, workers, storeCalls, storeErrors>>
    /\ Witness

IndexNext ==
    \/ \E w \in StoreWorkers, op \in StoreOps, l \in Links : Calls(w, op, l)
    \/ \E w \in StoreWorkers :
         \/ CallEnds(w) \/ BackendFails(w) \/ ReleaseByTask(w) \/ GetByTask(w) \/ RereadPending(w) \/ LockKey(w) \/ ReadRecord(w)
         \/ ListPending(w) \/ HandOver(w) \/ IndexNew(w) \/ PutRecord(w) \/ DropReplaced(w)
         \/ DeleteRecord(w) \/ ForgetDeleted(w) \/ DeletePending(w)
    \/ \E l \in Links : PutPending(l)

-----------------------------------------------------------------------------
\* put's comment: "A failure at any point leaves the current record indexed".
\* At every moment, between the steps of any calls and after any failure, the
\* link an allocation names has an index entry.
CurrentIsIndexed == \A k \in AllocationKeys : records[k] # NoLink => records[k] \in byTask

\* GetByTask and ReleaseByTask look in the index before the record, holding no
\* lock in between, and still answer as if the store were read at once: their
\* answer was true at some moment of the call.
AnswerWasTrue ==
    \A w \in StoreWorkers :
        workers[w].op \in Lookups /\ workers[w].at \in {"yes", "no"} =>
            (workers[w].at = "yes") \in witnessed[w]

\* An allocation leaves its key only by a call about its own key, and a
\* release takes away no other allocation than the one it names: it never
\* deletes or hands over the claim of a task that has replaced it.
ReleasesOnlyItsOwn ==
    \A k \in AllocationKeys :
        records'[k] # records[k] =>
            \E w \in StoreWorkers :
                /\ workers[w].at \in {"record", "remove"}
                /\ KeyFor(w) = k
                /\ HandsOver(w) => records[k] = workers[w].link

\* The three together, for every step of every call of the store.
IndexIsTrue ==
    [][IndexTypeOK' /\ CurrentIsIndexed' /\ AnswerWasTrue' /\ ReleasesOnlyItsOwn]_indexVars
=============================================================================
