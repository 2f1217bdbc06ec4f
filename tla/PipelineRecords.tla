--------------------------- MODULE PipelineRecords ---------------------------
(***************************************************************************)
(* The tables of the PDP pipeline and what its processes hold in memory.   *)
(*                                                                         *)
(* The rows of pdp_blob_pipeline are `rows`, in the order of created_at,   *)
(* with the columns commp (hashed), commp_task_id, agg_task_id and         *)
(* aggregate_root (folded).                                                *)
(* A blob's claims (allocations and acceptances, modelled in               *)
(* BlobLifecycle) are reduced to the one fact the pipeline asks of them.   *)
(***************************************************************************)
EXTENDS Aggregation

CONSTANTS
    BatchSize,         \* roots per PDPAddRoots task
    MaxTxs,            \* bound: the addPieces transactions that can be sent
    MaxAddTasks,       \* bound: PDPAddRoots tasks alive at once
    MaxAccepts,        \* [Blobs -> Nat], bound: accepts of each blob
    MaxFaults,         \* bound: failed task runs and reverted transactions
    Releases,          \* BOOLEAN: claims may be dropped
    Races              \* which of the known narrow windows may be hit

ASSUME RacesAssumption == Races \subseteq {"park", "late", "send", "overtake"}

\* A blob's commP tasks: the row's own and one left over from a row before it.
CommPTasks == {1, 2}
AddTasks == 1..MaxAddTasks
Txs == 1..MaxTxs
NoTask == 0
NoRoot == <<>>
\* A submission row is missing, unclaimed (NoTask) or claimed by a task.
NoSub == -1

VARIABLES
    claim,      \* [Blobs -> {"none", "allocated", "accepted"}]
    accepts,    \* [Blobs -> 0..MaxAccepts[b]]
    accepting,  \* [Blobs -> {"no", "live", "new"}]: what an accept's transaction read
    bytes,      \* the blobs in the blob store
    lock,       \* [Blobs -> {"free", "accept", "sweep"}]: LockBlob
    rows, hashed, commpTask, aggClaimed, folded,  \* pdp_blob_pipeline
    commpAt,    \* [Blobs -> [CommPTasks -> where the task is]]
    mapping,    \* blobs with a row in pdp_piece_mh_to_commp
    refs,       \* pieces with rows in pdp_piecerefs and the parked tables
    aggTasks,   \* PDPAggregate tasks in harmony_task
    agg,        \* the aggregate task that runs: where it is, and its roots
    sub,        \* [roots -> NoSub, NoTask or a task]: pdp_root_submissions
    add,        \* [AddTasks -> the state of a PDPAddRoots task]
    tx, sent,   \* message_waits_eth, and the roots each transaction carries
    adds,       \* <<tx, root, piece>> of pdp_data_set_piece_adds
    promoted,   \* transactions whose rows have pieces_added
    pieces,     \* <<tx, root, piece>> of pdp_data_set_pieces
    scheduled,  \* <<tx, root>> of the pieces with rm_message_hash
    removed,    \* <<tx, root>> of the pieces with removed = TRUE
    removals,   \* pdp_pending_piece_removals
    sweep,      \* the removal sweep
    faults

claims == <<claim, accepts, accepting, bytes, lock>>
pipelineRows == <<rows, hashed, commpTask, aggClaimed, folded>>
parked == <<mapping, refs>>
submission == <<agg, sub, add>>
chain == <<tx, sent, adds, promoted, pieces, scheduled, removed>>
vars == <<claims, pipelineRows, commpAt, parked, aggTasks, submission, chain,
          removals, sweep, faults>>

Rows == ToSet(rows)

\* The rows that carry a root.
Carriers(r) == {b \in Rows : folded[b] = r}

IdleAdd == [at |-> "none", roots |-> {}, fresh |-> {}, txs |-> {}]
IdleSweep == [at |-> "idle", todo |-> {}, blob |-> NoTask, active |-> FALSE,
              mapped |-> FALSE, live |-> {}]

Init ==
    /\ claim = [b \in Blobs |-> "none"] /\ accepts = [b \in Blobs |-> 0]
    /\ accepting = [b \in Blobs |-> "no"]
    /\ bytes = {} /\ lock = [b \in Blobs |-> "free"]
    /\ rows = <<>> /\ hashed = {} /\ aggClaimed = {}
    /\ commpTask = [b \in Blobs |-> NoTask] /\ folded = [b \in Blobs |-> NoRoot]
    /\ commpAt = [b \in Blobs |-> [i \in CommPTasks |-> "none"]]
    /\ mapping = {} /\ refs = {} /\ aggTasks = 0
    /\ agg = [at |-> "idle", roots |-> {}] 
    /\ sub = [r \in Roots |-> NoSub] /\ add = [t \in AddTasks |-> IdleAdd]
    /\ tx = [x \in Txs |-> "unused"] /\ sent = [x \in Txs |-> {}]
    /\ adds = {} /\ promoted = {} /\ pieces = {}
    /\ scheduled = {} /\ removed = {}
    /\ removals = {} /\ sweep = IdleSweep /\ faults = 0

\* A pipeline row goes: with it the columns it had.
DeleteRows(gone) ==
    /\ rows' = SelectSeq(rows, LAMBDA b : b \notin gone)
    /\ hashed' = hashed \ gone /\ aggClaimed' = aggClaimed \ gone
    /\ commpTask' = [b \in Blobs |-> IF b \in gone THEN NoTask ELSE commpTask[b]]
    /\ folded' = [b \in Blobs |-> IF b \in gone THEN NoRoot ELSE folded[b]]

\* A transaction that failed or reverted: add_message_ok is false.
Dead(x) == tx[x] = "reverted"

\* Entry.Enqueue's question: is the blob's piece on chain, or about to be?
InProofSet(e) == <<e[1], e[2]>> \notin scheduled \cup removed
Live(b) ==
    /\ b \in mapping
    /\ \/ \E e \in pieces : e[3] = PieceOf[b] /\ InProofSet(e)
       \/ \E e \in adds : e[3] = PieceOf[b] /\ e[1] \notin promoted /\ ~Dead(e[1])

Fault == faults < MaxFaults /\ faults' = faults + 1
=============================================================================
