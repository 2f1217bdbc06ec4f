----------------------------- MODULE ProofCache -----------------------------
(***************************************************************************)
(* The proof cache of the proven pieces: the layer a save-cache task       *)
(* stores, the reads the proving task makes of it, and the reclaim that    *)
(* schedules a piece again after the engine gave its task up.              *)
(*                                                                         *)
(* A layer's row is the concatenation of its nodes, NodeSize bytes each;   *)
(* byte j of node i of a piece's layer is the pair <<i, j>>.               *)
(***************************************************************************)
EXTENDS Integers, Sequences, FiniteSets

CONSTANTS
    ProvenPieces,     \* pieces to cache
    NodeSize,         \* bytes of a node (32)
    LayerNodes,       \* nodes of a layer
    MaxFailures,      \* failures after which the engine deletes a task
    MaxCacheTasks,    \* bound: save-cache tasks created
    MaxCacheFaults    \* bound: failed runs of them

ASSUME ProofCacheAssumption ==
    /\ NodeSize \in Nat \ {0} /\ LayerNodes \in Nat \ {0} /\ MaxFailures \in Nat \ {0}
    /\ MaxCacheTasks \in Nat /\ MaxCacheFaults \in Nat

VARIABLES
    saveTask,     \* piece -> its save_cache_task_id, or 0
    engineTasks,  \* harmony_task: task -> its failures so far
    layerRows,    \* pdp_proof_cache_layers: piece -> the bytes of its layer, <<>> without a row
    cacheTasks,   \* tasks created so far
    cacheFaults

cacheVars == <<saveTask, engineTasks, layerRows, cacheTasks, cacheFaults>>

ProofCacheInit ==
    /\ saveTask = [p \in ProvenPieces |-> 0]
    /\ engineTasks = <<>>
    /\ layerRows = [p \in ProvenPieces |-> <<>>]
    /\ cacheTasks = 0
    /\ cacheFaults = 0
-----------------------------------------------------------------------------
Node(i) == [j \in 1..NodeSize |-> <<i, j>>]

\* AddPDPLayer: the nodes of one layer, in index order, concatenated.
LayerBytes == [k \in 1..(LayerNodes * NodeSize) |-> <<(k - 1) \div NodeSize, ((k - 1) % NodeSize) + 1>>]

GetPDPLayerIndex(p) == layerRows[p] # <<>>

\* GetPDPLayer: the row cut into nodes; none for a layer that is not cached.
GetPDPLayer(p) ==
    [i \in 0..((Len(layerRows[p]) \div NodeSize) - 1) |-> SubSeq(layerRows[p], i * NodeSize + 1, (i + 1) * NodeSize)]

\* SQL's substring(bytes FROM from FOR NodeSize), counting from 1: the bytes
\* at those positions that there are.
Present(bytes, from) == {k \in from..(from + NodeSize - 1) : k \in 1..Len(bytes)}
\* Mutant: the first byte is taken for number zero.
FromZero(bytes, index) == LET ks == Present(bytes, index * NodeSize)
                          IN  [j \in 1..Cardinality(ks) |-> bytes[(CHOOSE k \in ks : \A o \in ks : k <= o) + j - 1]]

Substring(bytes, index) == LET ks == Present(bytes, index * NodeSize + 1)
                           IN  [j \in 1..Cardinality(ks) |-> bytes[(CHOOSE k \in ks : \A o \in ks : k <= o) + j - 1]]

\* GetPDPNode: past the end of the layer the substring is shorter than a node,
\* which is no node.
GetPDPNode(p, index) ==
    LET found == Substring(layerRows[p], index)
    IN  IF Len(found) # NodeSize THEN <<>> ELSE found
-----------------------------------------------------------------------------
\* pdpv0's scheduler gives a task to a piece that has neither a task nor a layer.
ScheduleSaveCache(p) ==
    /\ ~GetPDPLayerIndex(p) /\ saveTask[p] = 0
    /\ cacheTasks < MaxCacheTasks
    /\ cacheTasks' = cacheTasks + 1
    /\ saveTask' = [saveTask EXCEPT ![p] = cacheTasks + 1]
    /\ engineTasks' = [t \in DOMAIN engineTasks \cup {cacheTasks + 1} |->
                          IF t \in DOMAIN engineTasks THEN engineTasks[t] ELSE 0]
    /\ UNCHANGED <<layerRows, cacheFaults>>

Gone(t) == engineTasks' = [u \in DOMAIN engineTasks \ {t} |-> engineTasks[u]]

\* The task stores the layer, replacing one that is there, and is done.
AddPDPLayer(p) ==
    /\ saveTask[p] \in DOMAIN engineTasks
    /\ layerRows' = [layerRows EXCEPT ![p] = LayerBytes]
    /\ Gone(saveTask[p])
    /\ UNCHANGED <<saveTask, cacheTasks, cacheFaults>>

\* The task fails, perhaps with its layer stored; the engine deletes it after
\* MaxFailures.
SaveCacheFails(p) ==
    /\ saveTask[p] \in DOMAIN engineTasks
    /\ cacheFaults < MaxCacheFaults
    /\ cacheFaults' = cacheFaults + 1
    /\ layerRows' \in {layerRows, [layerRows EXCEPT ![p] = LayerBytes]}
    /\ LET t == saveTask[p]
       IN  IF engineTasks[t] + 1 >= MaxFailures THEN Gone(t)
           ELSE engineTasks' = [engineTasks EXCEPT ![t] = @ + 1]
    /\ UNCHANGED <<saveTask, cacheTasks>>

\* Mutant: only pieces that are cached count as orphans.
OrphansWithLayer == {p \in ProvenPieces : saveTask[p] # 0 /\ saveTask[p] \notin DOMAIN engineTasks /\ GetPDPLayerIndex(p)}

\* Every minute, pieces whose task no longer exists can be scheduled again.
Orphans == {p \in ProvenPieces : saveTask[p] # 0 /\ saveTask[p] \notin DOMAIN engineTasks}
reclaimOrphanedSaveCaches ==
    /\ Orphans # {}
    /\ saveTask' = [p \in ProvenPieces |-> IF p \in Orphans THEN 0 ELSE saveTask[p]]
    /\ UNCHANGED <<engineTasks, layerRows, cacheTasks, cacheFaults>>

ProofCacheNext ==
    \/ \E p \in ProvenPieces : ScheduleSaveCache(p) \/ AddPDPLayer(p) \/ SaveCacheFails(p)
    \/ reclaimOrphanedSaveCaches

\* The scheduler, the engine's workers and the reclaim's ticker keep running.
ProofCacheFairness ==
    /\ \A p \in ProvenPieces : WF_cacheVars(ScheduleSaveCache(p)) /\ WF_cacheVars(AddPDPLayer(p))
    /\ WF_cacheVars(reclaimOrphanedSaveCaches)

ProofCacheSpec == ProofCacheInit /\ [][ProofCacheNext]_cacheVars /\ ProofCacheFairness
-----------------------------------------------------------------------------
\* Every piece that a task was ever made for is cached at last, however often
\* its task fails before the engine gives it up: "without the reclaim such a
\* piece is never cached and its proofs fail every proving period"
\* (saveCacheTask).
PiecesGetCached ==
    \A p \in ProvenPieces : saveTask[p] # 0 ~> GetPDPLayerIndex(p)

\* The two ways to read a layer agree: a node read alone is the node of the
\* whole layer at that index, and there is none past its end (GetPDPNode's
\* substring arithmetic against GetPDPLayer's slicing).
NodesAgree ==
    \A p \in ProvenPieces, i \in 0..LayerNodes :
        GetPDPNode(p, i) = IF i \in DOMAIN GetPDPLayer(p) THEN Node(i) ELSE <<>>
=============================================================================
