------------------------- MODULE StagingStore_proofs -------------------------
(***************************************************************************)
(* StoreInv is inductive, and under it every step of the staging store is  *)
(* a step of BlobStore or leaves what it promises unchanged.               *)
(***************************************************************************)
EXTENDS StagingStore, TLAPS

HeldSet == {d \in Digests : Held(d)}
DeletingSet == {d \in Digests : op[d] \in Deleting}

\* What a step must do to be a step of BlobStore.
PromiseStep == [Promise!Next]_(Promise!vars)

\* The staging store starts in a state that satisfies the invariant.
LEMMA InitStoreInv == Init => StoreInv
BY NoIdAssumption, NoDigestAssumption
   DEF Init, StoreInv, StoreTypeOK, EntriesOK, OpsOK, Settling, Deleting

\* A step that changes neither what can be read nor the running deletes is a
\* stuttering step of BlobStore.
LEMMA StutterPromise ==
    ASSUME HeldSet' = HeldSet, DeletingSet' = DeletingSet
    PROVE  PromiseStep
BY DEF PromiseStep, HeldSet, DeletingSet, Promise!vars

\* A step that ends deletes, and leaves what can be read, is an EndDelete.
LEMMA EndPromise ==
    ASSUME HeldSet' = HeldSet, DeletingSet' \subseteq DeletingSet
    PROVE  PromiseStep
BY DEF PromiseStep, HeldSet, DeletingSet, Promise!Next, Promise!EndDelete

\* A step that adds the bytes of d is a Store.
LEMMA StorePromise ==
    ASSUME NEW d \in Digests, HeldSet' = HeldSet \cup {d}, DeletingSet' = DeletingSet
    PROVE  PromiseStep
BY DEF PromiseStep, HeldSet, DeletingSet, Promise!Next, Promise!Store

\* Put keeps the invariant and is a Store.
LEMMA PutStep ==
    ASSUME StoreInv, NEW d \in Digests, Put(d)
    PROVE  StoreInv' /\ PromiseStep
<1> USE NoIdAssumption, NoDigestAssumption
        DEF StoreInv, StoreTypeOK, EntriesOK, OpsOK, Settling, Deleting, Put, MarkStored
<1>1. StoreInv'
  OBVIOUS
<1>2. HeldSet' = HeldSet \cup {d} /\ DeletingSet' = DeletingSet
  BY DEF HeldSet, Held, HeldIn, DeletingSet
<1> QED BY <1>1, <1>2, StorePromise

\* Unstaging an upload no entry names changes nothing a reader can see.
LEMMA UnstageStep ==
    ASSUME StoreInv, NEW id \in Ids, Unstage(id)
    PROVE  StoreInv' /\ PromiseStep
<1> USE NoIdAssumption, NoDigestAssumption
        DEF StoreInv, StoreTypeOK, EntriesOK, OpsOK, Settling, Deleting, Unstage, Unnamed, locks
<1>1. StoreInv'
  OBVIOUS
<1>2. HeldSet' = HeldSet /\ DeletingSet' = DeletingSet
  BY DEF HeldSet, Held, HeldIn, DeletingSet
<1> QED BY <1>1, <1>2, StutterPromise

\* Staging is invisible, and recording the entry is a Store.
LEMMA UploadStep ==
    ASSUME StoreInv, NEW id \in Ids, NEW d \in Digests,
           Stage(id, d) \/ RecordStaged(id, d)
    PROVE  StoreInv' /\ PromiseStep
<1> USE NoIdAssumption, NoDigestAssumption
        DEF StoreInv, StoreTypeOK, EntriesOK, OpsOK, Settling, Deleting, MarkStored, locks
<1>1. CASE Stage(id, d)
  <2>1. StoreInv'
    BY <1>1 DEF Stage
  <2>2. HeldSet' = HeldSet /\ DeletingSet' = DeletingSet
    BY <1>1 DEF Stage, HeldSet, Held, HeldIn, DeletingSet
  <2> QED BY <2>1, <2>2, StutterPromise
<1>2. CASE RecordStaged(id, d)
  <2>1. StoreInv'
    BY <1>2 DEF RecordStaged
  <2>2. HeldSet' = HeldSet \cup {d} /\ DeletingSet' = DeletingSet
    BY <1>2 DEF RecordStaged, HeldSet, Held, HeldIn, DeletingSet
  <2> QED BY <2>1, <2>2, StorePromise
<1> QED BY <1>1, <1>2

\* Settle keeps the invariant and never changes what can be read.
LEMMA SettleStep ==
    ASSUME StoreInv, NEW d \in Digests, Settle(d)
    PROVE  StoreInv' /\ PromiseStep
<1> USE NoIdAssumption, NoDigestAssumption
        DEF StoreInv, StoreTypeOK, EntriesOK, OpsOK, Settling, Deleting,
            Lock, GoTo, Unlock, store, HeldSet, Held, HeldIn, DeletingSet
<1>1. CASE SettleLookup(d)
  <2>1. StoreInv'
    BY <1>1 DEF SettleLookup
  <2>2. HeldSet' = HeldSet /\ DeletingSet' = DeletingSet
    BY <1>1 DEF SettleLookup
  <2> QED BY <2>1, <2>2, StutterPromise
<1>2. CASE SettleRename(d)
  <2>1. StoreInv'
    BY <1>2 DEF SettleRename
  <2>2. HeldSet' = HeldSet /\ DeletingSet' = DeletingSet
    BY <1>2 DEF SettleRename
  <2> QED BY <2>1, <2>2, StutterPromise
<1>3. CASE SettleCopy(d)
  <2>1. StoreInv'
    BY <1>3 DEF SettleCopy
  <2>2. HeldSet' = HeldSet /\ DeletingSet' = DeletingSet
    BY <1>3 DEF SettleCopy
  <2> QED BY <2>1, <2>2, StutterPromise
<1>4. CASE SettleUnstage(d)
  <2>1. StoreInv'
    BY <1>4 DEF SettleUnstage
  <2>2. HeldSet' = HeldSet /\ DeletingSet' = DeletingSet
    BY <1>4 DEF SettleUnstage
  <2> QED BY <2>1, <2>2, StutterPromise
<1>5. CASE SettleMoved(d)
  <2>1. StoreInv'
    BY <1>5 DEF SettleMoved
  <2>2. HeldSet' = HeldSet /\ DeletingSet' = DeletingSet
    BY <1>5 DEF SettleMoved
  <2> QED BY <2>1, <2>2, StutterPromise
<1>6. CASE SettleDrop(d)
  <2>1. StoreInv'
    BY <1>6 DEF SettleDrop
  <2>2. HeldSet' = HeldSet /\ DeletingSet' = DeletingSet
    BY <1>6 DEF SettleDrop
  <2> QED BY <2>1, <2>2, StutterPromise
<1> QED BY <1>1, <1>2, <1>3, <1>4, <1>5, <1>6 DEF Settle

\* Delete keeps the invariant, and removes bytes only while it runs.
LEMMA DeleteStep ==
    ASSUME StoreInv, NEW d \in Digests, Delete(d)
    PROVE  StoreInv' /\ PromiseStep
<1> USE NoIdAssumption, NoDigestAssumption
        DEF StoreInv, StoreTypeOK, EntriesOK, OpsOK, Settling, Deleting,
            Lock, GoTo, Unlock, store
<1>1. CASE DeleteKey(d)
  <2>1. StoreInv'
    BY <1>1 DEF DeleteKey
  <2>2. HeldSet' \in {HeldSet, HeldSet \ {d}} /\ DeletingSet' = DeletingSet \cup {d}
    BY <1>1 DEF DeleteKey, HeldSet, Held, HeldIn, DeletingSet
  <2>3. PromiseStep
    BY <2>2 DEF PromiseStep, HeldSet, DeletingSet, Promise!Next, Promise!BeginDelete
  <2> QED BY <2>1, <2>3
<1>2. CASE DeleteLookup(d)
  <2>1. StoreInv'
    BY <1>2 DEF DeleteLookup
  <2>2. HeldSet' = HeldSet /\ DeletingSet' \subseteq DeletingSet
    BY <1>2 DEF DeleteLookup, HeldSet, Held, HeldIn, DeletingSet
  <2> QED BY <2>1, <2>2, EndPromise
<1>3. CASE DeleteUnstage(d)
  <2>1. StoreInv'
    BY <1>3 DEF DeleteUnstage
  <2>2. HeldSet' \in {HeldSet, HeldSet \ {d}} /\ DeletingSet' = DeletingSet /\ d \in DeletingSet
    BY <1>3 DEF DeleteUnstage, HeldSet, Held, HeldIn, DeletingSet
  <2>3. PromiseStep
    BY <2>2, StutterPromise DEF PromiseStep, HeldSet, DeletingSet, Promise!Next, Promise!Remove
  <2> QED BY <2>1, <2>3
<1>4. CASE DeleteDrop(d)
  <2>1. StoreInv'
    BY <1>4 DEF DeleteDrop
  <2>2. HeldSet' = HeldSet /\ DeletingSet' \subseteq DeletingSet
    BY <1>4 DEF DeleteDrop, HeldSet, Held, HeldIn, DeletingSet
  <2> QED BY <2>1, <2>2, EndPromise
<1> QED BY <1>1, <1>2, <1>3, <1>4 DEF Delete

\* Failures, restarts and reads keep the invariant and what can be read.
LEMMA OtherStep ==
    ASSUME StoreInv,
           \/ \E d \in Digests : OpFails(d)
           \/ \E r \in Readers : Get(r)
           \/ Restart
           \/ UNCHANGED vars
    PROVE  StoreInv' /\ PromiseStep
<1> USE NoIdAssumption, NoDigestAssumption
        DEF StoreInv, StoreTypeOK, EntriesOK, OpsOK, Settling, Deleting, store, locks
<1>1. CASE \E d \in Digests : OpFails(d)
  <2>1. PICK d \in Digests : OpFails(d)
    BY <1>1
  <2>2. StoreInv'
    BY <2>1 DEF OpFails, Unlock, GoTo
  <2>3. HeldSet' = HeldSet /\ DeletingSet' \subseteq DeletingSet
    BY <2>1 DEF OpFails, Unlock, GoTo, HeldSet, Held, HeldIn, DeletingSet
  <2> QED BY <2>2, <2>3, EndPromise
<1>2. CASE Restart
  <2>1. StoreInv'
    BY <1>2 DEF Restart
  <2>2. HeldSet' = HeldSet /\ DeletingSet' \subseteq DeletingSet
    BY <1>2 DEF Restart, HeldSet, Held, HeldIn, DeletingSet
  <2> QED BY <2>1, <2>2, EndPromise
<1>3. CASE (\E r \in Readers : Get(r)) \/ UNCHANGED vars
  <2>1. UNCHANGED <<store, locks>>
    BY <1>3 DEF Get, GetKey, GetLookup, GetStaged, GetAgain, vars
  <2>2. StoreInv'
    BY <2>1
  <2>3. HeldSet' = HeldSet /\ DeletingSet' = DeletingSet
    BY <2>1 DEF HeldSet, Held, HeldIn, DeletingSet
  <2> QED BY <2>2, <2>3, StutterPromise
<1> QED BY <1>1, <1>2, <1>3

\* Every step keeps the invariant and is a step of BlobStore or a stutter.
LEMMA EveryStep ==
    ASSUME StoreInv, [Next]_vars
    PROVE  StoreInv' /\ PromiseStep
<1>1. CASE \E d \in Digests : Put(d) \/ Settle(d) \/ Delete(d) \/ OpFails(d)
  <2>1. PICK d \in Digests : Put(d) \/ Settle(d) \/ Delete(d) \/ OpFails(d)
    BY <1>1
  <2> QED BY <2>1, PutStep, SettleStep, DeleteStep, OtherStep
<1>2. CASE \E id \in Ids : Unstage(id)
  BY <1>2, UnstageStep
<1>3. CASE \E id \in Ids, d \in Digests : Stage(id, d) \/ RecordStaged(id, d)
  BY <1>3, UploadStep
<1> QED BY <1>1, <1>2, <1>3, OtherStep DEF Next

\* The entries, the locks and the bytes agree in every reachable state.
THEOREM StoreInvariant == Spec => []StoreInv
<1>1. StoreInv /\ [Next]_vars => StoreInv'
  BY EveryStep
<1> QED BY InitStoreInv, <1>1, PTL DEF Spec

\* The staging store implements BlobStore: what can be read stays readable
\* until a Delete of it runs, for every number of digests, uploads and readers
\* and for either way of moving bytes (pkg/store/blobstore/staging.go).
THEOREM Refinement == Spec => ImplementsBlobStore
<1>1. Init => Promise!Init
  BY DEF Init, Promise!Init, Held, HeldIn, Deleting
<1>2. StoreInv /\ [Next]_vars => [Promise!Next]_(Promise!vars)
  BY EveryStep DEF PromiseStep
<1> QED BY <1>1, <1>2, StoreInvariant, PTL DEF Spec, ImplementsBlobStore, Promise!Spec

\* A Delete that reaches its last step has removed the blob, unless it was
\* stored again while it ran (staging.go:126-142).
THEOREM DeleteIsComplete == Spec => []DeleteDeletes
<1>1. StoreInv => DeleteDeletes
  BY NoDigestAssumption DEF StoreInv, StoreTypeOK, OpsOK, DeleteDeletes, Held, HeldIn, Deleting
<1> QED BY <1>1, StoreInvariant, PTL
=============================================================================
