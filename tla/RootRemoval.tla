----------------------------- MODULE RootRemoval -----------------------------
(***************************************************************************)
(* The removal sweep, seen from the pipeline and the chain: a pass takes   *)
(* every queued removal through its classification, finalizes the blobs    *)
(* nothing refers to and schedules the deletion of roots all of whose      *)
(* sub-pieces are up for removal.                                          *)
(***************************************************************************)
EXTENDS PipelineRecords

SweepAt(at) == sweep.at = at
sb == sweep.blob
NextBlob == sweep' = [sweep EXCEPT !.at = "next"]

\* processPendingRemovals: the list of a pass.
SweepList ==
    /\ SweepAt("idle") /\ removals # {}
    /\ sweep' = [IdleSweep EXCEPT !.at = "next", !.todo = removals]
    /\ UNCHANGED <<claims, pipelineRows, commpAt, parked, aggTasks, submission, chain,
                   removals, faults>>

\* One blob of the list: are there claims?
SweepClaims(b) ==
    /\ SweepAt("next") /\ b \in sweep.todo
    /\ sweep' = [sweep EXCEPT !.at = IF claim[b] = "none" THEN "row" ELSE "cancel",
                              !.blob = b, !.todo = @ \ {b}]
    /\ UNCHANGED <<claims, pipelineRows, commpAt, parked, aggTasks, submission, chain,
                   removals, faults>>

cancelPendingRemoval ==
    /\ SweepAt("cancel")
    /\ removals' = removals \ {sb}
    /\ lock' = [b \in Blobs |-> IF lock[b] = "sweep" THEN "free" ELSE lock[b]]
    /\ NextBlob
    /\ UNCHANGED <<claim, accepts, accepting, bytes, pipelineRows, commpAt, parked, aggTasks,
                   submission, chain, faults>>

\* A live commP task has not yet recorded the row's commp.
CommPWorking(b) == b \notin hashed /\ commpTask[b] # NoTask /\ commpAt[b][commpTask[b]] # "none"

\* Mutant: a row is cancelled under the task that works on it.
cancelBusyPipelineEntry ==
    LET gone == {b \in Rows : b = sb /\ folded[b] = NoRoot} IN
    /\ SweepAt("row")
    /\ DeleteRows(gone)
    /\ sweep' = [sweep EXCEPT !.at = "mapping", !.active = sb \in Rows \ gone]
    /\ UNCHANGED <<claims, commpAt, parked, aggTasks, submission, chain, removals, faults>>

cancelPipelineEntry ==
    LET gone == {b \in Rows : b = sb /\ folded[b] = NoRoot /\ ~CommPWorking(b)} IN
    /\ SweepAt("row")
    /\ DeleteRows(gone)
    /\ sweep' = [sweep EXCEPT !.at = "mapping", !.active = sb \in Rows \ gone]
    /\ UNCHANGED <<claims, commpAt, parked, aggTasks, submission, chain, removals, faults>>

SweepMapping ==
    /\ SweepAt("mapping")
    /\ sweep' = [sweep EXCEPT !.mapped = sb \in mapping,
                              !.at = IF sb \in mapping THEN "adds"
                                     ELSE IF sweep.active THEN "next" ELSE "lock"]
    /\ UNCHANGED <<claims, pipelineRows, commpAt, parked, aggTasks, submission, chain,
                   removals, faults>>

\* Mutant: adds are looked for only once they are promoted.
PromotedAdds(b) == \E e \in adds : e[3] = PieceOf[b] /\ e[1] \in promoted /\ ~Dead(e[1])

\* Adds that are staged and unconfirmed park the removal.
PendingAdds(b) == \E e \in adds : e[3] = PieceOf[b] /\ e[1] \notin promoted /\ ~Dead(e[1])

SweepAdds ==
    /\ SweepAt("adds")
    /\ sweep' = [sweep EXCEPT !.at = IF PendingAdds(sb) THEN "next" ELSE "pieces"]
    /\ UNCHANGED <<claims, pipelineRows, commpAt, parked, aggTasks, submission, chain,
                   removals, faults>>

\* Mutant: rows whose deletion was confirmed still count.
PieceRowsEver(b) == {e \in pieces : e[3] = PieceOf[b]}

\* The blob's piece rows that are not yet gone from the proof set.
PieceRows(b) == {e \in pieces : e[3] = PieceOf[b] /\ <<e[1], e[2]>> \notin removed}
LeavingRows(b) == {e \in PieceRows(b) : <<e[1], e[2]>> \in scheduled}


\* The piece rows and the piece refs.  A piece without refs is finalized even
\* if its row is still there: unless "park" is among the races, the commP
\* task of such a row, past its mapping, parks the piece before this look.
SweepPieces ==
    /\ SweepAt("pieces")
    /\ "park" \in Races \/ ~sweep.active \/ PieceOf[sb] \in refs
    /\ sweep' = IF LeavingRows(sb) # {} THEN [sweep EXCEPT !.at = "next"]
                ELSE IF PieceRows(sb) # {}
                THEN [sweep EXCEPT !.at = "next", !.live = @ \cup PieceRows(sb)]
                ELSE [sweep EXCEPT !.at = IF PieceOf[sb] \notin refs \/ ~sweep.active
                                          THEN "lock" ELSE "next"]
    /\ UNCHANGED <<claims, pipelineRows, commpAt, parked, aggTasks, submission, chain,
                   removals, faults>>

\* finalizeRemoval: the claims again, under the blob's lock.
FinalizeLock ==
    /\ SweepAt("lock") /\ lock[sb] = "free"
    /\ lock' = [lock EXCEPT ![sb] = "sweep"]
    /\ sweep' = [sweep EXCEPT !.at = IF claim[sb] = "none" THEN "delete" ELSE "cancel"]
    /\ UNCHANGED <<claim, accepts, accepting, bytes, pipelineRows, commpAt, parked, aggTasks,
                   submission, chain, removals, faults>>

\* The bytes go first, and stay gone if the rows do not commit.
FinalizeDelete ==
    /\ SweepAt("delete")
    /\ bytes' = bytes \ {sb}
    /\ sweep' = [sweep EXCEPT !.at = "commit"]
    /\ UNCHANGED <<claim, accepts, accepting, lock, pipelineRows, commpAt, parked, aggTasks,
                   submission, chain, removals, faults>>

\* The bookkeeping of a blob that had a mapping: deleting its piece's refs
\* cascades to every piece and piece-add row that references them.
FinalizeCommit ==
    LET Kept(entries) == {e \in entries : ~sweep.mapped \/ e[3] # PieceOf[sb]} IN
    /\ SweepAt("commit")
    /\ pieces' = Kept(pieces) /\ adds' = Kept(adds)
    /\ refs' = IF sweep.mapped THEN refs \ {PieceOf[sb]} ELSE refs
    /\ mapping' = mapping \ {sb} /\ removals' = removals \ {sb}
    /\ lock' = [lock EXCEPT ![sb] = "free"]
    /\ NextBlob
    /\ UNCHANGED <<claim, accepts, accepting, bytes, pipelineRows, commpAt, aggTasks,
                   submission, tx, sent, promoted, scheduled, removed, faults>>

\* Mutant: a root goes when any of its sub-pieces is up for removal.
RemoveAnyRoot(x, r) ==
    /\ SweepAt("next") /\ sweep.todo = {}
    /\ \E e \in sweep.live : e[1] = x /\ e[2] = r
    /\ scheduled' = scheduled \cup {<<x, r>>}
    /\ sweep' = [sweep EXCEPT !.live = {e \in @ : ~(e[1] = x /\ e[2] = r)}]
    /\ UNCHANGED <<claims, pipelineRows, commpAt, parked, aggTasks, submission, tx, sent, adds,
                   promoted, pieces, removed, removals, faults>>

\* The second loop: a root whose every sub-piece was listed is removed
\* (RemoveRoot sends the deletion and stamps its rows).
RemoveRoot(x, r) ==
    LET listed == {e \in sweep.live : e[1] = x /\ e[2] = r}
        all == {e \in pieces : e[1] = x /\ e[2] = r /\ <<x, r>> \notin removed}
    IN
    /\ SweepAt("next") /\ sweep.todo = {} /\ listed # {}
    /\ scheduled' = IF Cardinality(listed) >= Cardinality(all)
                    THEN scheduled \cup {<<x, r>>} ELSE scheduled
    /\ sweep' = [sweep EXCEPT !.live = @ \ listed]
    /\ UNCHANGED <<claims, pipelineRows, commpAt, parked, aggTasks, submission, tx, sent, adds,
                   promoted, pieces, removed, removals, faults>>

SweepEnds ==
    /\ SweepAt("next") /\ sweep.todo = {} /\ sweep.live = {}
    /\ sweep' = IdleSweep
    /\ UNCHANGED <<claims, pipelineRows, commpAt, parked, aggTasks, submission, chain,
                   removals, faults>>

\* The sweep dies; its open transaction, and the lock with it, is gone.
SweepFails ==
    /\ ~SweepAt("idle") /\ Fault
    /\ sweep' = IdleSweep
    /\ lock' = [b \in Blobs |-> IF lock[b] = "sweep" THEN "free" ELSE lock[b]]
    /\ UNCHANGED <<claim, accepts, accepting, bytes, pipelineRows, commpAt, parked, aggTasks,
                   submission, chain, removals>>

\* External: NextProvingPeriod confirms a scheduled deletion ...
DeletionConfirms(k) ==
    /\ k \in scheduled \ removed
    /\ removed' = removed \cup {k}
    /\ UNCHANGED <<claims, pipelineRows, commpAt, parked, aggTasks, submission, tx, sent, adds,
                   promoted, pieces, scheduled, removals, sweep, faults>>

\* ... or clears the stamp of one that failed.
DeletionFails(k) ==
    /\ k \in scheduled \ removed /\ Fault
    /\ scheduled' = scheduled \ {k}
    /\ UNCHANGED <<claims, pipelineRows, commpAt, parked, aggTasks, submission, tx, sent, adds,
                   promoted, pieces, removed, removals, sweep>>
=============================================================================
