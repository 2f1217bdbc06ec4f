---------------------------- MODULE PipelineTasks ----------------------------
(***************************************************************************)
(* The first two stages of the pipeline: an accept enters a blob, a        *)
(* PDPCommP task computes its piece and parks it, a PDPAggregate task      *)
(* folds every buffered piece into aggregates.  A statement or transaction *)
(* of the code is one step; a task that fails or whose process dies is run *)
(* again from its start.                                                   *)
(***************************************************************************)
EXTENDS PipelineRecords

-----------------------------------------------------------------------------
\* Claims.  The bytes arrive under an allocation; an accept's transaction
\* holds the blob's lock from the question whether its piece is live to its
\* commit, as the sweep's finalization does.

Allocate(b) ==
    /\ claim[b] = "none" /\ lock[b] = "free" /\ accepts[b] < MaxAccepts[b]
    /\ claim' = [claim EXCEPT ![b] = "allocated"]
    /\ bytes' = bytes \cup {b}
    /\ UNCHANGED <<accepts, accepting, lock, pipelineRows, commpAt, parked, aggTasks,
                   submission, chain, removals, sweep, faults>>

\* Entry.Enqueue, inside the accept's transaction: the live check ...
EnqueueCheck(b) ==
    /\ claim[b] = "allocated" /\ lock[b] = "free"
    /\ lock' = [lock EXCEPT ![b] = "accept"]
    /\ accepting' = [accepting EXCEPT ![b] = IF Live(b) THEN "live" ELSE "new"]
    /\ UNCHANGED <<claim, accepts, bytes, pipelineRows, commpAt, parked, aggTasks,
                   submission, chain, removals, sweep, faults>>

\* ... and the insert, at the commit.
EnqueueCommit(b) ==
    /\ accepting[b] # "no"
    /\ rows' = IF accepting[b] = "live" \/ b \in Rows THEN rows ELSE Append(rows, b)
    /\ claim' = [claim EXCEPT ![b] = "accepted"]
    /\ accepts' = [accepts EXCEPT ![b] = @ + 1]
    /\ accepting' = [accepting EXCEPT ![b] = "no"]
    /\ lock' = [lock EXCEPT ![b] = "free"]
    /\ UNCHANGED <<bytes, hashed, commpTask, aggClaimed, folded, commpAt, parked, aggTasks,
                   submission, chain, removals, sweep, faults>>

\* The last claim is dropped: RemovePiece queues the removal with it.  With
\* "overtake" a blob may be revived and released again while the sweep is
\* between its first look at the blob and the end of its turn.
RemovePiece(b) ==
    /\ Releases /\ claim[b] = "accepted" /\ lock[b] = "free"
    /\ "overtake" \in Races \/ sweep.at \in {"idle", "next"} \/ sweep.blob # b
    /\ claim' = [claim EXCEPT ![b] = "none"]
    /\ removals' = removals \cup {b}
    /\ UNCHANGED <<accepts, accepting, bytes, lock, pipelineRows, commpAt, parked, aggTasks,
                   submission, chain, sweep, faults>>

-----------------------------------------------------------------------------
\* PDPCommP

CommPGoesTo(b, i, at) == commpAt' = [commpAt EXCEPT ![b][i] = at]

\* CommPTask.spawn and IAmBored: a row that is due and not up for removal is
\* claimed by a new task.
CommPClaim(b, i) ==
    /\ b \in Rows /\ commpTask[b] = NoTask /\ folded[b] = NoRoot /\ b \notin removals
    /\ commpAt[b][i] = "none" /\ \A j \in 1..(i - 1) : commpAt[b][j] # "none"
    /\ commpTask' = [commpTask EXCEPT ![b] = i]
    /\ CommPGoesTo(b, i, "queued")
    /\ UNCHANGED <<claims, rows, hashed, aggClaimed, folded, parked, aggTasks,
                   submission, chain, removals, sweep, faults>>

CommPLoad(b, i) ==
    /\ commpAt[b][i] = "queued"
    /\ CommPGoesTo(b, i, IF commpTask[b] # i THEN "none"
                         ELSE IF b \in hashed THEN "handoff" ELSE "calculate")
    /\ UNCHANGED <<claims, pipelineRows, parked, aggTasks, submission, chain,
                   removals, sweep, faults>>

\* CalculateCommP: the mapping it already has, or a hash of the bytes.
CalculateCommP(b, i) ==
    /\ commpAt[b][i] = "calculate"
    /\ b \in mapping \cup bytes
    /\ mapping' = mapping \cup {b}
    /\ CommPGoesTo(b, i, "park")
    /\ UNCHANGED <<claims, pipelineRows, refs, aggTasks, submission, chain,
                   removals, sweep, faults>>

ParkPiece(b, i) ==
    /\ commpAt[b][i] = "park"
    /\ refs' = refs \cup {PieceOf[b]}
    /\ CommPGoesTo(b, i, "record")
    /\ UNCHANGED <<claims, pipelineRows, mapping, aggTasks, submission, chain,
                   removals, sweep, faults>>

RecordCommP(b, i) ==
    /\ commpAt[b][i] = "record"
    /\ hashed' = hashed \cup ({b} \cap Rows)
    /\ CommPGoesTo(b, i, "handoff")
    /\ UNCHANGED <<claims, rows, commpTask, aggClaimed, folded, parked, aggTasks,
                   submission, chain, removals, sweep, faults>>

\* AggregateTask.spawn; it may be lost, as AddTask swallows errors.
SpawnAggregate(b) ==
    /\ b \in Rows /\ b \notin aggClaimed /\ folded[b] = NoRoot
    /\ aggClaimed' = aggClaimed \cup {b}
    /\ aggTasks' = aggTasks + 1

CommPHandoff(b, i) ==
    /\ commpAt[b][i] = "handoff"
    /\ CommPGoesTo(b, i, "none")
    /\ \/ SpawnAggregate(b)
       \/ UNCHANGED <<aggClaimed, aggTasks>>
    /\ UNCHANGED <<claims, rows, hashed, commpTask, folded, parked, submission, chain,
                   removals, sweep, faults>>

\* Do returns an error or the process dies; the engine runs the task again.
CommPFails(b, i) ==
    /\ commpAt[b][i] \notin {"none", "queued"} /\ Fault
    /\ CommPGoesTo(b, i, "queued")
    /\ UNCHANGED <<claims, pipelineRows, parked, aggTasks, submission, chain,
                   removals, sweep>>

-----------------------------------------------------------------------------
\* PDPAggregate

\* storeAggregate: the rows of an aggregate's blobs are marked with its root.
StoreAggregates(aggregates) ==
    [b \in Blobs |-> IF \E a \in aggregates : b \in ToSet(a)
                     THEN RootOf(CHOOSE a \in aggregates : b \in ToSet(a)) ELSE folded[b]]

\* AggregateTask.Do, its transaction: the buffered rows are locked, folded
\* and marked.  The task is done if they make no aggregate yet.
AggregateFold ==
    LET candidates == SelectSeq(rows, LAMBDA b : b \in hashed /\ folded[b] = NoRoot)
        aggregates == AppendPieces(candidates)
    IN
    /\ aggTasks > 0 /\ agg.at = "idle"
    /\ folded' = StoreAggregates(aggregates)
    /\ agg' = [at |-> IF aggregates = {} THEN "idle" ELSE "submit",
               roots |-> {RootOf(a) : a \in aggregates}]
    /\ aggTasks' = IF aggregates = {} THEN aggTasks - 1 ELSE aggTasks
    /\ UNCHANGED <<claims, rows, hashed, commpTask, aggClaimed, commpAt, parked,
                   sub, add, chain, removals, sweep, faults>>

\* AggregateTask.IAmBored: a hashed row whose spawn was lost.
AggregateBored(b) ==
    /\ b \in hashed /\ SpawnAggregate(b)
    /\ UNCHANGED <<claims, rows, hashed, commpTask, folded, commpAt, parked,
                   submission, chain, removals, sweep, faults>>

\* A run that dies after its fold finds nothing to fold when run again.
AggregateFails ==
    /\ agg.at # "idle" /\ Fault
    /\ agg' = [at |-> "idle", roots |-> {}]
    /\ UNCHANGED <<claims, pipelineRows, commpAt, parked, aggTasks, sub, add,
                   chain, removals, sweep>>
=============================================================================
