---------------------------- MODULE RootSubmission ----------------------------
(***************************************************************************)
(* The last stage of the pipeline: roots are buffered in                   *)
(* pdp_root_submissions, claimed in batches by PDPAddRoots tasks, sent in  *)
(* an addPieces transaction, and retired once it is confirmed.  The        *)
(* message watcher, Curio's add-piece watcher and the chain are external.  *)
(***************************************************************************)
EXTENDS PipelineRecords

-----------------------------------------------------------------------------
\* SubmissionManager: Submit and flush, run by the aggregate task, and the
\* poll-interval flush of IAmBored.

Buffered(roots) == [r \in Roots |-> IF r \in roots /\ sub[r] = NoSub THEN NoTask ELSE sub[r]]

\* The roots the pipeline rows carry: what the healing statement selects.
CarriedRoots == {folded[b] : b \in Rows} \ {NoRoot}

SubmitRoots ==
    /\ agg.at = "submit"
    /\ sub' = Buffered(agg.roots)
    /\ agg' = [agg EXCEPT !.at = "heal"]
    /\ UNCHANGED <<claims, pipelineRows, commpAt, parked, aggTasks, add, chain,
                   removals, sweep, faults>>

\* flush: the healing statement, INSERT ... SELECT DISTINCT aggregate_root ...
\* ON CONFLICT DO NOTHING.
FlushHeal ==
    /\ agg.at = "heal"
    /\ sub' = Buffered(CarriedRoots)
    /\ agg' = [agg EXCEPT !.at = "claim"]
    /\ UNCHANGED <<claims, pipelineRows, commpAt, parked, aggTasks, add, chain,
                   removals, sweep, faults>>

UnclaimedRoots == {r \in Roots : sub[r] = NoTask}

\* The UPDATE by which a new task claims up to BatchSize unclaimed roots.
Spare(t) == add[t].at = "none" /\ \A r \in Roots : sub[r] # t
ClaimBatch(t, batch) ==
    /\ Spare(t) /\ \A s \in 1..(t - 1) : ~Spare(s)
    /\ batch # {} /\ batch \subseteq UnclaimedRoots
    /\ Cardinality(batch) = BatchSize \/ batch = UnclaimedRoots
    /\ sub' = [r \in Roots |-> IF r \in batch THEN t ELSE sub[r]]
    /\ add' = [add EXCEPT ![t] = [IdleAdd EXCEPT !.at = "queued"]]

\* flush claims full batches while there are some; an AddTask that fails ends it.
FlushClaim ==
    /\ agg.at = "claim" /\ Cardinality(UnclaimedRoots) >= BatchSize
    /\ \E t \in AddTasks, batch \in SUBSET UnclaimedRoots : ClaimBatch(t, batch)
    /\ UNCHANGED <<claims, pipelineRows, commpAt, parked, aggTasks, agg, chain,
                   removals, sweep, faults>>

FlushEnds ==
    /\ agg.at = "claim"
    /\ agg' = [at |-> "idle", roots |-> {}] /\ aggTasks' = aggTasks - 1
    /\ UNCHANGED <<claims, pipelineRows, commpAt, parked, sub, add, chain,
                   removals, sweep, faults>>

\* Mutant: the poll claims what is buffered and heals nothing.
BoredHealsNothing ==
    /\ FALSE
    /\ UNCHANGED vars

\* IAmBored: the same healing statement, then a batch of whatever is
\* unclaimed, partial or not.
BoredHeal ==
    /\ sub # Buffered(CarriedRoots)
    /\ sub' = Buffered(CarriedRoots)
    /\ UNCHANGED <<claims, pipelineRows, commpAt, parked, aggTasks, agg, add, chain,
                   removals, sweep, faults>>

BoredClaim ==
    /\ \E t \in AddTasks, batch \in SUBSET UnclaimedRoots : ClaimBatch(t, batch)
    /\ UNCHANGED <<claims, pipelineRows, commpAt, parked, aggTasks, agg, chain,
                   removals, sweep, faults>>

-----------------------------------------------------------------------------
\* PDPAddRoots

AddGoesTo(t, at) == add' = [add EXCEPT ![t].at = at]

\* loadAggregate finds every position of the root among its rows.
Loadable(r) == \A i \in DOMAIN r : \E b \in Carriers(r) : PieceOf[b] = r[i]

\* AddRootsTask.Do up to the receipts: a batch with a root that does not load,
\* or a piece that resolves to no blob, is an error on every run.
AddLoad(t) ==
    LET claimed == {r \in Roots : sub[r] = t} IN
    /\ add[t].at = "queued"
    /\ \A r \in claimed : Loadable(r) /\ PiecesOf(r) \subseteq {PieceOf[b] : b \in mapping}
    /\ add' = [add EXCEPT ![t] = IF claimed = {} THEN IdleAdd
                                 ELSE [IdleAdd EXCEPT !.at = "partition", !.roots = claimed]]
    /\ UNCHANGED <<claims, pipelineRows, commpAt, parked, aggTasks, agg, sub, chain,
                   removals, sweep, faults>>

\* The sub-pieces of a request, over all its roots, are distinct.
DistinctPieces(roots) ==
    /\ \A r \in roots : IsInjective(r)
    /\ \A r, s \in roots : r # s => PiecesOf(r) \cap PiecesOf(s) = {}

Completed(r) == \E e \in pieces : e[2] = r
InFlight(r) == {e[1] : e \in {f \in adds : f[2] = r /\ ~Dead(f[1])}}

\* Every sub-piece of the roots has its piece ref.
Parked(roots) == UNION {PiecesOf(r) : r \in roots} \subseteq refs


\* AddRoots: the request is split into roots already tracked, roots of a live
\* transaction and new ones; rows of dead transactions are cleared.  With
\* nothing new it waits for the live transactions, if any.
AddRootsPartition(t) ==
    LET roots == add[t].roots
        fresh == {r \in roots : ~Completed(r) /\ InFlight(r) = {}}
        riding == UNION {InFlight(r) : r \in roots}
        dead == {x \in Txs : Dead(x) /\ \E e \in adds : e[1] = x /\ e[2] \in roots}
    IN
    /\ add[t].at = "partition" /\ DistinctPieces(roots)
    /\ Parked(fresh)
    /\ adds' = {e \in adds : e[1] \notin dead}
    /\ add' = [add EXCEPT ![t] = [@ EXCEPT !.at = IF fresh = {} THEN "wait" ELSE "send",
                                           !.fresh = fresh, !.txs = riding]]
    /\ UNCHANGED <<claims, pipelineRows, commpAt, parked, aggTasks, agg, sub, tx, sent,
                   promoted, pieces, scheduled, removed, removals, sweep, faults>>

AddRootsSend(t, x) ==
    /\ add[t].at = "send" /\ tx[x] = "unused" /\ \A y \in 1..(x - 1) : tx[y] # "unused"
    /\ tx' = [tx EXCEPT ![x] = "pending"] /\ sent' = [sent EXCEPT ![x] = add[t].fresh]
    /\ add' = [add EXCEPT ![t] = [@ EXCEPT !.at = "record", !.txs = {x}]]
    /\ UNCHANGED <<claims, pipelineRows, commpAt, parked, aggTasks, agg, sub, adds,
                   promoted, pieces, scheduled, removed, removals, sweep, faults>>

\* recordPieceAdds: one row per sub-piece, which references its piece ref.
RecordPieceAdds(t) ==
    /\ add[t].at = "record"
    /\ Parked(add[t].fresh)
    /\ adds' = adds \cup {<<x, r, p>> \in add[t].txs \X add[t].fresh \X Pieces : p \in PiecesOf(r)}
    /\ AddGoesTo(t, "wait")
    /\ UNCHANGED <<claims, pipelineRows, commpAt, parked, aggTasks, agg, sub, tx, sent,
                   promoted, pieces, scheduled, removed, removals, sweep, faults>>

\* Mutant: the wait does not look at the transaction's success.
WaitForAnyOutcome(t) ==
    /\ add[t].at = "wait"
    /\ \A x \in add[t].txs : tx[x] # "pending"
    /\ AddGoesTo(t, "retire")
    /\ UNCHANGED <<claims, pipelineRows, commpAt, parked, aggTasks, agg, sub, chain,
                   removals, sweep, faults>>

WaitForConfirmation(t) ==
    /\ add[t].at = "wait"
    /\ \A x \in add[t].txs : tx[x] = "confirmed"
    /\ AddGoesTo(t, "retire")
    /\ UNCHANGED <<claims, pipelineRows, commpAt, parked, aggTasks, agg, sub, chain,
                   removals, sweep, faults>>

\* A reverted transaction is an error at once; the task starts over.
WaitFails(t) ==
    /\ add[t].at = "wait"
    /\ \E x \in add[t].txs : Dead(x)
    /\ AddGoesTo(t, "queued")
    /\ UNCHANGED <<claims, pipelineRows, commpAt, parked, aggTasks, agg, sub, chain,
                   removals, sweep, faults>>

\* retire, the end of Do.  Unless "late" is among the races, an aggregate
\* task inserts the roots it folded before they are confirmed and retired.
Retire(t) ==
    /\ add[t].at = "retire"
    /\ "late" \in Races \/ agg.at # "submit" \/ add[t].roots \cap agg.roots = {}
    /\ DeleteRows({b \in Rows : folded[b] \in add[t].roots})
    /\ sub' = [r \in Roots |-> IF sub[r] = t THEN NoSub ELSE sub[r]]
    /\ add' = [add EXCEPT ![t] = IdleAdd]
    /\ UNCHANGED <<claims, commpAt, parked, aggTasks, agg, chain,
                   removals, sweep, faults>>

\* Any other error, a wait that times out, or a crash.  With "send" a crash
\* may lose a transaction that was sent and not recorded.
AddRootsFails(t) ==
    /\ add[t].at \notin {"none", "queued"} /\ Fault
    /\ add[t].at # "record" \/ "send" \in Races
    /\ add' = [add EXCEPT ![t] = [IdleAdd EXCEPT !.at = "queued"]]
    /\ UNCHANGED <<claims, pipelineRows, commpAt, parked, aggTasks, agg, sub, chain,
                   removals, sweep>>

-----------------------------------------------------------------------------
\* External: the chain and Curio's watchers.

TxConfirms(x) ==
    /\ tx[x] = "pending" /\ tx' = [tx EXCEPT ![x] = "confirmed"]
    /\ UNCHANGED <<claims, pipelineRows, commpAt, parked, aggTasks, submission, sent, adds,
                   promoted, pieces, scheduled, removed, removals, sweep, faults>>

TxReverts(x) ==
    /\ tx[x] = "pending" /\ tx' = [tx EXCEPT ![x] = "reverted"] /\ Fault
    /\ UNCHANGED <<claims, pipelineRows, commpAt, parked, aggTasks, submission, sent, adds,
                   promoted, pieces, scheduled, removed, removals, sweep>>

\* The add-piece watcher turns the rows of a confirmed transaction into pieces.
PromotePieces(x) ==
    /\ tx[x] = "confirmed" /\ x \notin promoted /\ \E e \in adds : e[1] = x
    /\ pieces' = pieces \cup {e \in adds : e[1] = x}
    /\ promoted' = promoted \cup {x}
    /\ UNCHANGED <<claims, pipelineRows, commpAt, parked, aggTasks, submission, tx, sent, adds,
                   scheduled, removed, removals, sweep, faults>>
=============================================================================
