---- MODULE ObjectStores ----
(***************************************************************************)
(* The object stores piri keeps bytes in (src/pkg/store/objectstore): the  *)
(* sharded directory tree (flatfs), a MinIO bucket, and a datastore behind *)
(* an adapter.  Callers put, move and delete objects concurrently.         *)
(*                                                                         *)
(* flatfs writes a temporary file and renames it into place; a write to a  *)
(* key that another write is working on waits for it and, if that one      *)
(* succeeds, returns without doing anything (opMap).  MinIO's calls are    *)
(* single requests to the server, except Move, which copies and then       *)
(* removes.  The datastore adapter reads the whole body and puts it.       *)
(*                                                                         *)
(* Keys name contents, as every caller in piri uses them: the bytes put    *)
(* under a key are always the same, though a body may end early.  A        *)
(* rename error that is not "no such file" is one fault (RetryAttempts and *)
(* the delays between them are left out), and syncs are left out: piri     *)
(* opens both stores with sync = false.                                    *)
(***************************************************************************)
EXTENDS Integers, FiniteSets

CONSTANTS
    Callers,            \* goroutines using the store
    Keys,               \* object keys
    Moves,              \* the pairs <<src, dst>> callers move between
    MaxObjectCalls,     \* bound: calls made
    MaxStoreFaults      \* bound: failed requests, failed renames, crashes

VARIABLES
    backend,    \* "flatfs", "minio" or "datastore", fixed at the start
    layout,     \* the flatfs directory: "none", "blank" (SHARDING created, not
                \* yet written), "written"
    serving,    \* the store is open
    objects,    \* per key: "whole", "torn" (not the bytes offered), "absent"
    temps,      \* temporary files: a set of callers
    ops,        \* flatfs opMap: per key, the caller whose write is under way
    reqs,       \* per caller, its call
    requested, storeFaults

objectVars == <<backend, layout, serving, objects, temps, ops, reqs, requested, storeFaults>>

NoCaller == "no caller"
NoKey == "no key"

\* body: "full" as long as announced, "short" ends early or in an error.
\* alone: no other kind of call has touched its keys since it began.
IdleReq == [op |-> "none", key |-> NoKey, dst |-> NoKey, body |-> "full",
            at |-> "idle", on |-> NoCaller, ok |-> FALSE, alone |-> TRUE]

Active == {p \in Callers : reqs[p].at # "idle"}
KeysOf(r) == {r.key, r.dst} \ {NoKey}
InConflict(r, s) == r.op # s.op /\ KeysOf(r) \cap KeysOf(s) # {}

\* What a body leaves at its key once it is in place.
Stored(r) == IF r.body = "full" THEN "whole" ELSE "torn"

To(p, at) == [reqs EXCEPT ![p].at = at]
Ended(p, ok) == [reqs EXCEPT ![p].at = "return", ![p].ok = ok]
StoreFault == storeFaults < MaxStoreFaults /\ storeFaults' = storeFaults + 1

ObjectInit ==
    /\ backend \in {"flatfs", "minio", "datastore"}
    /\ layout = "none"
    /\ serving = FALSE
    /\ objects = [k \in Keys |-> "absent"]
    /\ temps = {}
    /\ ops = [k \in Keys |-> NoCaller]
    /\ reqs = [p \in Callers |-> IdleReq]
    /\ requested = 0
    /\ storeFaults = 0

----------------------------------------------------------------------------
(* Opening. *)

\* ReadShardFunc: SHARDING is there and holds an identifier; a blank one does
\* not parse, and opening fails from then on.
ReadShardFunc == layout = "written"

\* create: an empty directory gets its SHARDING file, in two writes.
create ==
    /\ backend = "flatfs" /\ ~serving
    /\ layout = "none"
    /\ layout' = "blank"
    /\ UNCHANGED <<backend, serving, objects, temps, ops, reqs, requested, storeFaults>>

\* WriteShardFunc: the identifier is written, and create goes on to open.
WriteShardFunc ==
    /\ backend = "flatfs" /\ ~serving
    /\ layout = "blank"
    /\ storeFaults = 0                     \* the same process: no crash in between
    /\ layout' = "written"
    /\ UNCHANGED <<backend, serving, objects, temps, ops, reqs, requested, storeFaults>>

\* open: leftovers in .temp go, the op map is empty.
open ==
    /\ ~serving
    /\ backend = "flatfs" => ReadShardFunc
    /\ serving' = TRUE
    /\ temps' = {}
    /\ ops' = [k \in Keys |-> NoCaller]
    /\ UNCHANGED <<backend, layout, objects, reqs, requested, storeFaults>>

\* The process dies: calls in flight are gone, files stay.
StoreProcessDies ==
    /\ serving \/ layout = "blank"
    /\ StoreFault
    /\ serving' = FALSE
    /\ reqs' = [p \in Callers |-> IdleReq]
    /\ UNCHANGED <<backend, layout, objects, temps, ops, requested>>

----------------------------------------------------------------------------
(* Calls.  Callers of Move serialise it with deletes of the same keys (the *)
(* comment on rename), so neither begins while the other is under way.     *)

Admissible(r) ==
    \A p \in Active : InConflict(r, reqs[p]) => {r.op, reqs[p].op} # {"move", "delete"}

\* A caller's call begins: every call it conflicts with is no longer alone.
BeginCall(p, r) ==
    /\ serving
    /\ p \notin Active
    /\ requested < MaxObjectCalls
    /\ requested' = requested + 1
    /\ Admissible(r)
    /\ reqs' = [q \in Callers |->
                 IF q = p
                 THEN [r EXCEPT !.alone = \A o \in Active : ~InConflict(r, reqs[o])]
                 ELSE IF q \in Active /\ InConflict(r, reqs[q])
                      THEN [reqs[q] EXCEPT !.alone = FALSE] ELSE reqs[q]]
    /\ UNCHANGED <<backend, layout, serving, objects, temps, ops, storeFaults>>

\* Put, Delete: flatfs goes through the op map, the others act directly.
Put(p, k, body) ==
    BeginCall(p, [IdleReq EXCEPT !.op = "put", !.key = k, !.body = body,
                  !.at = IF backend = "flatfs" THEN "begin" ELSE "act"])

Delete(p, k) ==
    BeginCall(p, [IdleReq EXCEPT !.op = "delete", !.key = k,
                  !.at = IF backend = "flatfs" THEN "begin" ELSE "act"])

\* Move: offered by flatfs and MinIO only.
Move_(p, m) ==
    /\ backend # "datastore"
    /\ BeginCall(p, [IdleReq EXCEPT !.op = "move", !.key = m[1], !.dst = m[2], !.at = "act"])

----------------------------------------------------------------------------
(* flatfs. *)

\* opMap.Begin: register the write, or wait for the one registered.
Begin(p) ==
    LET k == reqs[p].key IN
    /\ reqs[p].at = "begin"
    /\ IF ops[k] = NoCaller
       THEN ops' = [ops EXCEPT ![k] = p] /\ reqs' = To(p, "act")
       ELSE reqs' = [reqs EXCEPT ![p].at = "wait", ![p].on = ops[k]] /\ UNCHANGED ops
    /\ UNCHANGED <<backend, layout, serving, objects, temps, requested, storeFaults>>

\* Mutant: those who waited return with success whatever became of p.
FinishForAll(p, ok) ==
    /\ ops' = [ops EXCEPT ![reqs[p].key] = NoCaller]
    /\ reqs' = [q \in Callers |->
                 IF q # p /\ reqs[q].at = "wait" /\ reqs[q].on = p
                 THEN [reqs[q] EXCEPT !.at = "return", !.ok = TRUE, !.on = NoCaller]
                 ELSE IF q = p THEN [reqs[q] EXCEPT !.at = "return", !.ok = ok] ELSE reqs[q]]

\* opResult.Finish: the key is free, and those who waited on p return
\* without acting if it succeeded, and begin again if not.
Finish_(p, ok) ==
    /\ ops' = [ops EXCEPT ![reqs[p].key] = NoCaller]
    /\ reqs' = [q \in Callers |->
                 CASE q = p -> [reqs[q] EXCEPT !.at = "return", !.ok = ok]
                   [] q # p /\ reqs[q].at = "wait" /\ reqs[q].on = p ->
                        [reqs[q] EXCEPT !.at = IF ok THEN "return" ELSE "begin",
                                        !.ok = ok, !.on = NoCaller]
                   [] OTHER -> reqs[q]]

Flat(p, op, at) == backend = "flatfs" /\ reqs[p].op = op /\ reqs[p].at = at

\* doPut, up to the copy into a temporary file; a body that errs or has the
\* wrong length ends it, and the deferred function removes the file.
doPut(p) ==
    /\ Flat(p, "put", "act")
    /\ IF reqs[p].body = "full"
       THEN /\ temps' = temps \cup {p}
            /\ reqs' = To(p, "rename")
            /\ UNCHANGED ops
       ELSE UNCHANGED temps /\ Finish_(p, FALSE)
    /\ UNCHANGED <<backend, layout, serving, objects, requested, storeFaults>>

\* rename, called by doPut: the file is in place, or an error removes it.
renamePut(p) ==
    /\ Flat(p, "put", "rename")
    /\ temps' = temps \ {p}
    /\ \/ /\ objects' = [objects EXCEPT ![reqs[p].key] = Stored(reqs[p])]
          /\ Finish_(p, TRUE)
          /\ UNCHANGED storeFaults
       \/ /\ StoreFault
          /\ Finish_(p, FALSE)
          /\ UNCHANGED objects
    /\ UNCHANGED <<backend, layout, serving, requested>>

\* doDelete: a file that is not there is deleted.
doDelete(p) ==
    /\ Flat(p, "delete", "act")
    /\ \/ /\ objects' = [objects EXCEPT ![reqs[p].key] = "absent"]
          /\ Finish_(p, TRUE)
          /\ UNCHANGED storeFaults
       \/ /\ objects[reqs[p].key] # "absent"
          /\ StoreFault
          /\ Finish_(p, FALSE)
          /\ UNCHANGED objects
    /\ UNCHANGED <<backend, layout, serving, temps, requested>>

\* What a move leaves: dst holds what src held.
Moved(src, dst) == [objects EXCEPT ![dst] = objects[src], ![src] = "absent"]

\* Move by rename; a missing src is a move already made if dst exists.
flatMove(p) ==
    LET src == reqs[p].key  dst == reqs[p].dst IN
    /\ Flat(p, "move", "act")
    /\ \/ /\ objects[src] # "absent"
          /\ objects' = Moved(src, dst)
          /\ reqs' = Ended(p, TRUE)
          /\ UNCHANGED storeFaults
       \/ /\ objects[src] = "absent"
          /\ reqs' = Ended(p, objects[dst] # "absent")
          /\ UNCHANGED <<objects, storeFaults>>
       \/ /\ StoreFault
          /\ reqs' = Ended(p, FALSE)
          /\ UNCHANGED objects
    /\ UNCHANGED <<backend, layout, serving, temps, ops, requested>>

----------------------------------------------------------------------------
(* MinIO: the server applies one request at a time.  A request may fail    *)
(* with or without having been applied.  PutObject refuses a body that is  *)
(* not as long as announced.                                               *)

Remote(p, op, at) == backend = "minio" /\ reqs[p].op = op /\ reqs[p].at = at

\* One request taking the objects to after, and the call on to next.
Requested(p, after, next) ==
    \/ objects' = after /\ reqs' = next /\ UNCHANGED storeFaults
    \/ StoreFault /\ objects' \in {objects, after} /\ reqs' = Ended(p, FALSE)

minioPut(p) ==
    /\ Remote(p, "put", "act")
    /\ IF reqs[p].body = "full"
       THEN Requested(p, [objects EXCEPT ![reqs[p].key] = Stored(reqs[p])], Ended(p, TRUE))
       ELSE reqs' = Ended(p, FALSE) /\ UNCHANGED <<objects, storeFaults>>
    /\ UNCHANGED <<backend, layout, serving, temps, ops, requested>>

minioDelete(p) ==
    /\ Remote(p, "delete", "act")
    /\ Requested(p, [objects EXCEPT ![reqs[p].key] = "absent"], Ended(p, TRUE))
    /\ UNCHANGED <<backend, layout, serving, temps, ops, requested>>

\* Move, its CopyObject: no such key asks whether dst exists instead.
minioCopy(p) ==
    LET src == reqs[p].key  dst == reqs[p].dst IN
    /\ Remote(p, "move", "act")
    /\ \/ /\ objects[src] # "absent"
          /\ Requested(p, [objects EXCEPT ![dst] = objects[src]], To(p, "copied"))
       \/ /\ objects[src] = "absent"
          /\ reqs' = To(p, "missing")
          /\ UNCHANGED <<objects, storeFaults>>
    /\ UNCHANGED <<backend, layout, serving, temps, ops, requested>>

\* Exists(dst), a request of its own.
minioExists(p) ==
    /\ Remote(p, "move", "missing")
    /\ Requested(p, objects, Ended(p, objects[reqs[p].dst] # "absent"))
    /\ UNCHANGED <<backend, layout, serving, temps, ops, requested>>

\* Move, its RemoveObject of src.
minioRemove(p) ==
    /\ Remote(p, "move", "copied")
    /\ Requested(p, [objects EXCEPT ![reqs[p].key] = "absent"], Ended(p, TRUE))
    /\ UNCHANGED <<backend, layout, serving, temps, ops, requested>>

----------------------------------------------------------------------------
(* The datastore adapter. *)

adapterPut(p) ==
    /\ backend = "datastore" /\ reqs[p].op = "put" /\ reqs[p].at = "act"
    /\ IF reqs[p].body = "full"
       THEN Requested(p, [objects EXCEPT ![reqs[p].key] = Stored(reqs[p])], Ended(p, TRUE))
       ELSE reqs' = Ended(p, FALSE) /\ UNCHANGED <<objects, storeFaults>>
    /\ UNCHANGED <<backend, layout, serving, temps, ops, requested>>

adapterDelete(p) ==
    /\ backend = "datastore" /\ reqs[p].op = "delete" /\ reqs[p].at = "act"
    /\ Requested(p, [objects EXCEPT ![reqs[p].key] = "absent"], Ended(p, TRUE))
    /\ UNCHANGED <<backend, layout, serving, temps, ops, requested>>

\* The call returns to its caller.
ReturnCall(p) ==
    /\ reqs[p].at = "return"
    /\ reqs' = [reqs EXCEPT ![p] = IdleReq]
    /\ UNCHANGED <<backend, layout, serving, objects, temps, ops, requested, storeFaults>>

ObjectStep(p) ==
    \/ \E k \in Keys, b \in {"full", "short"} : Put(p, k, b)
    \/ \E k \in Keys : Delete(p, k)
    \/ \E m \in Moves : Move_(p, m)
    \/ Begin(p) \/ doPut(p) \/ renamePut(p) \/ doDelete(p) \/ flatMove(p)
    \/ minioPut(p) \/ minioDelete(p) \/ minioCopy(p) \/ minioExists(p) \/ minioRemove(p)
    \/ adapterPut(p) \/ adapterDelete(p)
    \/ ReturnCall(p)

ObjectNext ==
    \/ create \/ WriteShardFunc \/ open \/ StoreProcessDies
    \/ \E p \in Callers : ObjectStep(p)

ObjectSpec == ObjectInit /\ [][ObjectNext]_objectVars

----------------------------------------------------------------------------

\* A call that returned success took effect, unless a different kind of call
\* on its keys overlapped it: a put's object is whole, a delete's is gone, a
\* move's is at dst and, with no put of src meanwhile, no longer at src.  A
\* flatfs write that was skipped because another succeeded counts too (opMap).
TakesEffect ==
    \A p \in Callers : LET r == reqs[p] IN
        r.at = "return" /\ r.ok /\ r.alone =>
            CASE r.op = "put" -> objects[r.key] = "whole"
              [] r.op = "delete" -> objects[r.key] = "absent"
              [] r.op = "move" -> objects[r.dst] = "whole" /\ objects[r.key] = "absent"

\* No reader ever finds an object that is not the bytes offered for its key,
\* whatever body failed and whenever the process died (temporary file and
\* rename, doPut); what a write left in .temp belongs to a call under way.
WholeObjects ==
    /\ \A k \in Keys : objects[k] # "torn"
    /\ serving => temps \subseteq {p \in Callers : reqs[p].at = "rename"}

\* An object leaves a key only by a delete of that key or by a move that has
\* put it at dst: an interrupted or repeated move never loses it (Mover).
LeavesByDeleteOrMove ==
    \A k \in Keys : objects[k] = "whole" /\ objects'[k] = "absent" =>
        \E p \in Callers : /\ reqs[p].key = k
                           /\ \/ reqs[p].op = "delete"
                              \/ reqs[p].op = "move" /\ objects'[reqs[p].dst] = "whole"

\* The three together, for every step of every caller of each of the stores.
ObjectsAreKept ==
    [][TakesEffect' /\ WholeObjects' /\ LeavesByDeleteOrMove]_objectVars
====
