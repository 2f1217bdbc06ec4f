----------------------------- MODULE PDPPipeline -----------------------------
(***************************************************************************)
(* The PDP pipeline from accept to chain and back: the tasks that carry a  *)
(* blob's piece into the proof set, and the sweep that takes it out again. *)
(***************************************************************************)
EXTENDS PipelineTasks, RootSubmission, RootRemoval

CommPNext(b, i) ==
    \/ CommPClaim(b, i) \/ CommPLoad(b, i) \/ CalculateCommP(b, i)
    \/ ParkPiece(b, i) \/ RecordCommP(b, i) \/ CommPHandoff(b, i)

AggregateNext == AggregateFold \/ SubmitRoots \/ FlushHeal \/ FlushClaim \/ FlushEnds

BoredNext == BoredHeal \/ BoredClaim

AddRootsNext(t) ==
    \/ AddLoad(t) \/ AddRootsPartition(t) \/ (\E x \in Txs : AddRootsSend(t, x))
    \/ RecordPieceAdds(t) \/ WaitForConfirmation(t) \/ WaitFails(t) \/ Retire(t)

SweepNext ==
    \/ SweepList \/ (\E b \in Blobs : SweepClaims(b)) \/ cancelPendingRemoval
    \/ cancelPipelineEntry \/ SweepMapping \/ SweepAdds \/ SweepPieces
    \/ FinalizeLock \/ FinalizeDelete \/ FinalizeCommit
    \/ (\E x \in Txs, r \in Roots : RemoveRoot(x, r)) \/ SweepEnds

Faults ==
    \/ \E b \in Blobs, i \in CommPTasks : CommPFails(b, i)
    \/ AggregateFails
    \/ \E t \in AddTasks : AddRootsFails(t)
    \/ SweepFails
    \/ \E x \in Txs : TxReverts(x)
    \/ \E k \in Txs \X Roots : DeletionFails(k)

\* What the engine runs: the tasks and the polls of idle handlers.
EngineNext ==
    \/ \E b \in Blobs, i \in CommPTasks : CommPNext(b, i)
    \/ \E b \in Blobs : EnqueueCommit(b) \/ AggregateBored(b)
    \/ AggregateNext \/ BoredNext
    \/ \E t \in AddTasks : AddRootsNext(t)

ChainNext ==
    \/ \E x \in Txs : TxConfirms(x) \/ PromotePieces(x)
    \/ \E k \in Txs \X Roots : DeletionConfirms(k)

Next ==
    \/ \E b \in Blobs : Allocate(b) \/ EnqueueCheck(b) \/ RemovePiece(b)
    \/ EngineNext \/ SweepNext \/ ChainNext \/ Faults

Spec == Init /\ [][Next]_vars

\* The engine does not stop while a task of it can take a step, the sweep is
\* re-armed on an interval, and transactions land.  Which task moves first is
\* left open; clients and faults get no fairness.
Fairness == WF_vars(EngineNext) /\ WF_vars(SweepNext) /\ WF_vars(ChainNext)

FairSpec == Spec /\ Fairness

-----------------------------------------------------------------------------

\* Types.
TypeOK ==
    /\ claim \in [Blobs -> {"none", "allocated", "accepted"}]
    /\ \A b \in Blobs : accepts[b] \in 0..MaxAccepts[b]
    /\ accepting \in [Blobs -> {"no", "live", "new"}]
    /\ bytes \subseteq Blobs /\ lock \in [Blobs -> {"free", "accept", "sweep"}]
    /\ Rows \subseteq Blobs /\ IsInjective(rows)
    /\ hashed \subseteq Rows /\ aggClaimed \subseteq Rows
    /\ commpTask \in [Blobs -> {NoTask} \cup CommPTasks]
    /\ folded \in [Blobs -> {NoRoot} \cup Roots]
    /\ mapping \subseteq Blobs /\ refs \subseteq Pieces /\ aggTasks \in Nat
    /\ sub \in [Roots -> {NoSub, NoTask} \cup AddTasks]
    /\ tx \in [Txs -> {"unused", "pending", "confirmed", "reverted"}]
    /\ adds \cup pieces \subseteq Txs \X Roots \X Pieces
    /\ removals \subseteq Blobs /\ faults \in 0..MaxFaults

\* Claims on content that is not proven: an accepted blob is in the pipeline,
\* staged in a transaction that is not dead, or live in the proof set.  It is
\* what Enqueue's live check and AddRoots' retirement have to keep.
AcceptedCarried == \A b \in Blobs : claim[b] = "accepted" => b \in Rows \/ Live(b)

\* Every buffered or claimed root can be loaded from the pipeline rows that
\* carry it, so the batch it is claimed into does not fail on it forever
\* (loadAggregate, retire, the healing statements).
SubmissionsLoad == \A r \in Roots : sub[r] # NoSub => Loadable(r)

\* Revived content rides the pipeline again under a new root: the row of an
\* accepted blob is retired only with its piece live in the proof set or about
\* to be (calculator.go, AddRootsTask.retire).
RetiredIsProven ==
    [][\A b \in Blobs : claim[b] = "accepted" /\ folded[b] # NoRoot /\ folded'[b] = NoRoot
         => Live(b)']_vars

\* No piece is in two transactions that are not dead: the partition of
\* AddRoots sends a retried batch's roots once.
SentOnce ==
    \A x, y \in Txs : x # y /\ ~Dead(x) /\ ~Dead(y) =>
        \A r \in sent[x], s \in sent[y] : PiecesOf(r) \cap PiecesOf(s) = {}


\* Nothing is proven, staged or folded whose bytes are gone: what the fold's
\* row locks, the sweep's waits and the order of its reads are for.
ProvenHasBytes ==
    /\ \A b \in Blobs : folded[b] # NoRoot => b \in bytes
    /\ \A e \in pieces : <<e[1], e[2]>> \notin removed => \E b \in bytes : PieceOf[b] = e[3]
    /\ \A e \in adds : e[1] \notin promoted /\ ~Dead(e[1]) => \E b \in bytes : PieceOf[b] = e[3]

\* A task never records commp for a removed blob (task_commp.go).
HashedHasBytes == hashed \subseteq bytes

\* A claimed blob has its bytes: finalization looks at the claims again under
\* the lock that every claim takes.
ClaimedHasBytes == \A b \in Blobs : claim[b] # "none" => b \in bytes

\* What is proven or claimed has its bytes (ProvenHasBytes, ClaimedHasBytes)
\* while removals race accepts, folds and transactions.
NeededHasBytes == ProvenHasBytes /\ ClaimedHasBytes

\* Once a removal is off the queue and no claim is left, nothing of the blob
\* is: bytes, pipeline row, mapping, piece refs and piece rows are all gone.
NothingLeftBehind ==
    \A b \in Blobs : claim[b] = "none" /\ b \notin removals =>
        /\ b \notin bytes \cup Rows \cup mapping
        /\ PieceOf[b] \notin refs
        /\ \A e \in pieces : e[3] # PieceOf[b]

\* A root is scheduled for deletion only when each of its sub-pieces belongs
\* to a blob whose removal is queued.
WholeRootsLeave ==
    [][\A k \in scheduled' \ scheduled :
         \A e \in pieces : <<e[1], e[2]>> = k => \E b \in removals : PieceOf[b] = e[3]]_vars

\* An accepted blob's piece becomes live in the proof set, unless its claim
\* is dropped first.
AcceptedProven ==
    \A b \in Blobs : claim[b] = "accepted" ~>
        claim[b] # "accepted" \/ \E e \in pieces : e[3] = PieceOf[b] /\ InProofSet(e)

\* A queued removal ends, unless a claim holds a root the piece is part of.
RemovalEnds ==
    \A b \in Blobs : b \in removals ~>
        b \notin removals \/ \E c \in Blobs : claim[c] # "none"
=============================================================================
