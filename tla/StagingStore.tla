---------------------------- MODULE StagingStore ----------------------------
(***************************************************************************)
(* The blob store of pkg/store/blobstore/staging.go: bytes received with   *)
(* their digest are put at the digest's key; bytes whose digest was not    *)
(* known are staged under an upload ID, an index entry names the upload    *)
(* that holds a digest, and Settle moves them to the key later.            *)
(*                                                                         *)
(* Settle and Delete of one digest exclude each other (the keyed mutex of  *)
(* line 96), so each digest has at most one of them running: op[d].  Get   *)
(* takes no lock, and its four reads interleave with everything.           *)
(***************************************************************************)
EXTENDS TLC

CONSTANTS
    Digests,    \* the digests blobs are stored under
    Ids,        \* upload IDs, each used for one upload
    Readers,    \* concurrent calls of Get
    NoId,       \* "no entry"
    NoDigest,   \* "no bytes"
    Moves       \* how Settle moves: flatfs renames, MinIO and the others copy

ASSUME MovesAssumption == Moves \subseteq {"rename", "copy"}
ASSUME NoIdAssumption == NoId \notin Ids
ASSUME NoDigestAssumption == NoDigest \notin Digests

VARIABLES
    atKey,      \* the digests with an object at their key
    staged,     \* for each ID, the digest its staged bytes hash to
    index,      \* pdp_staged_blobs: the ID that holds a digest
    finished,   \* IDs whose upload row is gone: never staged again
    op,         \* for each digest, how far the holder of its lock has got
    opId,       \* and the ID that holder found in the index
    stored,     \* history: digests stored again since their lock was taken
    reader,     \* for each reader, the Get it is running
    gap,        \* history: readers whose blob was missing at some moment
    dropped     \* history: readers whose blob's entry was dropped meanwhile

store == <<atKey, staged, index, finished>>
locks == <<op, opId, stored>>
vars == <<store, locks, reader, gap, dropped>>

Settling == {"settleMove", "settleUnstage", "settleDrop"}
Deleting == {"deleteLookup", "deleteUnstage", "deleteDrop"}
Reading == {"lookup", "staged", "again"}
Idle == [at |-> "idle", digest |-> NoDigest, id |-> NoId, got |-> NoDigest]

\* A reader that tried everything, with nothing else running, would find d.
HeldIn(key, stg, idx, d) == d \in key \/ (idx[d] # NoId /\ stg[idx[d]] = d)
Held(d) == HeldIn(atKey, staged, index, d)

\* No entry names the ID, which Unstage's callers must know (line 76).
Unnamed(id) == \A d \in Digests : index[d] # id

StoreTypeOK ==
    /\ atKey \subseteq Digests
    /\ staged \in [Ids -> Digests \cup {NoDigest}]
    /\ index \in [Digests -> Ids \cup {NoId}]
    /\ finished \subseteq Ids
    /\ op \in [Digests -> {"free"} \cup Settling \cup Deleting]
    /\ opId \in [Digests -> Ids \cup {NoId}]
    /\ stored \subseteq Digests

ReaderTypeOK ==
    /\ reader \in [Readers -> [at : {"idle", "hit", "miss"} \cup Reading,
                               digest : Digests \cup {NoDigest},
                               id : Ids \cup {NoId},
                               got : Digests \cup {NoDigest}]]
    /\ gap \subseteq Readers
    /\ dropped \subseteq Readers

\* Every variable has the type its Go and SQL counterparts have.
TypeOK == StoreTypeOK /\ ReaderTypeOK

Init ==
    /\ atKey = {}
    /\ staged = [i \in Ids |-> NoDigest]
    /\ index = [d \in Digests |-> NoId]
    /\ finished = {}
    /\ op = [d \in Digests |-> "free"]
    /\ opId = [d \in Digests |-> NoId]
    /\ stored = {}
    /\ reader = [r \in Readers |-> Idle]
    /\ gap = {}
    /\ dropped = {}

-----------------------------------------------------------------------------
(* History kept by every step that changes the store: which running reads  *)
(* had their blob missing, and whose entry (of the digests E) was dropped. *)
Watch(E) ==
    /\ gap' = gap \cup {r \in Readers : /\ reader[r].at \in Reading
                                        /\ ~HeldIn(atKey', staged', index', reader[r].digest)}
    /\ dropped' = dropped \cup {r \in Readers : /\ reader[r].at \in Reading
                                               /\ reader[r].digest \in E}
    /\ UNCHANGED reader

\* A store of d that lands while d's lock is held is remembered.
MarkStored(d) ==
    /\ stored' = IF op[d] = "free" THEN stored ELSE stored \cup {d}
    /\ UNCHANGED <<op, opId>>

\* The holder of d's lock takes it or goes on to its next step, or releases it.
Lock(d, at, id) ==
    /\ op[d] = "free"
    /\ op' = [op EXCEPT ![d] = at]
    /\ opId' = [opId EXCEPT ![d] = id]
    /\ stored' = stored \ {d}
GoTo(d, at) ==
    /\ op' = [op EXCEPT ![d] = at]
    /\ UNCHANGED <<opId, stored>>
Unlock(d) == GoTo(d, "free")

-----------------------------------------------------------------------------
(* Writers: the PDP service storing uploads.                               *)

\* Put stores a blob whose digest is known.
Put(d) ==
    /\ atKey' = atKey \cup {d}
    /\ MarkStored(d)
    /\ UNCHANGED <<staged, index, finished>>
    /\ Watch({})

\* Stage writes bytes under the upload's ID; a retried PUT writes them again.
Stage(id, d) ==
    /\ id \notin finished
    /\ staged' = [staged EXCEPT ![id] = d]
    /\ UNCHANGED <<atKey, index, finished, locks>>
    /\ Watch({})

\* Unstage drops staged bytes; the caller knows that no entry names the ID.
\* The upload either failed and can be tried again, or is over.
Unstage(id) ==
    /\ Unnamed(id)
    /\ staged' = [staged EXCEPT ![id] = NoDigest]
    /\ finished' \in {finished, finished \cup {id}}
    /\ UNCHANGED <<atKey, index, locks>>
    /\ Watch({})

\* The upload completes: its row goes and the entry naming it is inserted, in
\* one transaction, if no entry for the digest exists (ON CONFLICT DO NOTHING).
RecordStaged(id, d) ==
    /\ id \notin finished
    /\ staged[id] = d
    /\ index[d] = NoId
    /\ index' = [index EXCEPT ![d] = id]
    /\ finished' = finished \cup {id}
    /\ MarkStored(d)
    /\ UNCHANGED <<atKey, staged>>
    /\ Watch({})

-----------------------------------------------------------------------------
(* Settle: find the entry, move the bytes, drop the entry last.            *)

\* Mutant: the entry is dropped before the bytes are moved.
SettleDropsFirst(d) ==
    /\ index[d] # NoId
    /\ Lock(d, "settleDrop", index[d])
    /\ UNCHANGED store
    /\ Watch({})

\* With no entry, Settle returns at once and changes nothing.
SettleLookup(d) ==
    /\ index[d] # NoId
    /\ Lock(d, "settleMove", index[d])
    /\ UNCHANGED store
    /\ Watch({})

\* flatfs renames: the object is at one key or the other, never both.
SettleRename(d) ==
    /\ "rename" \in Moves
    /\ op[d] = "settleMove"
    /\ staged[opId[d]] # NoDigest
    /\ atKey' = atKey \cup {d}
    /\ staged' = [staged EXCEPT ![opId[d]] = NoDigest]
    /\ GoTo(d, "settleDrop")
    /\ UNCHANGED <<index, finished>>
    /\ Watch({})

\* MinIO copies and then removes; a backend that cannot move copies, unless
\* the key already has the bytes, and then unstages.
SettleCopy(d) ==
    /\ "copy" \in Moves
    /\ op[d] = "settleMove"
    /\ staged[opId[d]] # NoDigest
    /\ atKey' = atKey \cup {d}
    /\ GoTo(d, "settleUnstage")
    /\ UNCHANGED <<staged, index, finished>>
    /\ Watch({})

SettleUnstage(d) ==
    /\ op[d] = "settleUnstage"
    /\ staged' = [staged EXCEPT ![opId[d]] = NoDigest]
    /\ GoTo(d, "settleDrop")
    /\ UNCHANGED <<atKey, index, finished>>
    /\ Watch({})

\* The staged bytes are gone: with the key in place, that is a move already
\* made; with neither, the move fails and Settle returns its error.
SettleMoved(d) ==
    /\ op[d] = "settleMove"
    /\ staged[opId[d]] = NoDigest
    /\ IF d \in atKey THEN GoTo(d, "settleDrop") ELSE Unlock(d)
    /\ UNCHANGED store
    /\ Watch({})

SettleDrop(d) ==
    /\ op[d] = "settleDrop"
    /\ index' = [index EXCEPT ![d] = NoId]
    /\ Unlock(d)
    /\ UNCHANGED <<atKey, staged, finished>>
    /\ Watch({d})

-----------------------------------------------------------------------------
(* Delete: the key, then the staged bytes, then the entry.                 *)

\* Mutant: Delete only looks at the staging area.
DeleteSkipsKey(d) ==
    /\ Lock(d, "deleteLookup", NoId)
    /\ UNCHANGED store
    /\ Watch({})

DeleteKey(d) ==
    /\ Lock(d, "deleteLookup", NoId)
    /\ atKey' = atKey \ {d}
    /\ UNCHANGED <<staged, index, finished>>
    /\ Watch({})

DeleteLookup(d) ==
    /\ op[d] = "deleteLookup"
    /\ op' = [op EXCEPT ![d] = IF index[d] = NoId THEN "free" ELSE "deleteUnstage"]
    /\ opId' = [opId EXCEPT ![d] = index[d]]
    /\ UNCHANGED <<store, stored>>
    /\ Watch({})

\* Mutant: Delete drops the entry and leaves the staged bytes.
DeleteSkipsUnstage(d) ==
    /\ op[d] = "deleteUnstage"
    /\ GoTo(d, "deleteDrop")
    /\ UNCHANGED store
    /\ Watch({})

DeleteUnstage(d) ==
    /\ op[d] = "deleteUnstage"
    /\ staged' = [staged EXCEPT ![opId[d]] = NoDigest]
    /\ GoTo(d, "deleteDrop")
    /\ UNCHANGED <<atKey, index, finished>>
    /\ Watch({})

DeleteDrop(d) ==
    /\ op[d] = "deleteDrop"
    /\ index' = [index EXCEPT ![d] = NoId]
    /\ Unlock(d)
    /\ UNCHANGED <<atKey, staged, finished>>
    /\ Watch({d})

\* Any step of a Settle or a Delete can return an error, which releases the
\* lock and leaves what was done.
OpFails(d) ==
    /\ op[d] # "free"
    /\ Unlock(d)
    /\ UNCHANGED store
    /\ Watch({})

\* The node stops and starts again: the locks and the reads are gone, the
\* object store and the database stay.
Restart ==
    /\ op' = [d \in Digests |-> "free"]
    /\ reader' = [r \in Readers |-> Idle]
    /\ UNCHANGED <<store, opId, stored, gap, dropped>>

-----------------------------------------------------------------------------
(* Get: the key, the entry, the staged bytes, the key once more.           *)

\* A read answers with the bytes got, or, with none, goes on (or gives up).
Answer(r, got, otherwise) ==
    reader' = [reader EXCEPT ![r].got = got,
                             ![r].at = IF got = NoDigest THEN otherwise ELSE "hit"]

KeyBytes(d) == IF d \in atKey THEN d ELSE NoDigest

GetKey(r, d) ==
    /\ reader[r].at \in {"idle", "hit", "miss"}
    /\ reader' = [reader EXCEPT ![r] =
         [Idle EXCEPT !.digest = d, !.got = KeyBytes(d),
                      !.at = IF d \in atKey THEN "hit" ELSE "lookup"]]
    /\ gap' = IF Held(d) THEN gap \ {r} ELSE gap \cup {r}
    /\ dropped' = dropped \ {r}
    /\ UNCHANGED <<store, locks>>

GetLookup(r) ==
    /\ reader[r].at = "lookup"
    /\ LET id == index[reader[r].digest] IN
       reader' = [reader EXCEPT ![r].id = id,
                                ![r].at = IF id = NoId THEN "miss" ELSE "staged"]
    /\ UNCHANGED <<store, locks, gap, dropped>>

\* Mutant: the key is not tried again.
GetStagedOnce(r) ==
    /\ reader[r].at = "staged"
    /\ Answer(r, staged[reader[r].id], "miss")
    /\ UNCHANGED <<store, locks, gap, dropped>>

GetStaged(r) ==
    /\ reader[r].at = "staged"
    /\ Answer(r, staged[reader[r].id], "again")
    /\ UNCHANGED <<store, locks, gap, dropped>>

GetAgain(r) ==
    /\ reader[r].at = "again"
    /\ Answer(r, KeyBytes(reader[r].digest), "miss")
    /\ UNCHANGED <<store, locks, gap, dropped>>

-----------------------------------------------------------------------------
Settle(d) == \/ SettleLookup(d) \/ SettleRename(d) \/ SettleCopy(d)
             \/ SettleUnstage(d) \/ SettleMoved(d) \/ SettleDrop(d)
Delete(d) == \/ DeleteKey(d) \/ DeleteLookup(d) \/ DeleteUnstage(d) \/ DeleteDrop(d)
Get(r) == \/ \E d \in Digests : GetKey(r, d)
          \/ GetLookup(r) \/ GetStaged(r) \/ GetAgain(r)

Next ==
    \/ \E d \in Digests : Put(d) \/ Settle(d) \/ Delete(d) \/ OpFails(d)
    \/ \E id \in Ids : Unstage(id)
    \/ \E id \in Ids, d \in Digests : Stage(id, d) \/ RecordStaged(id, d)
    \/ \E r \in Readers : Get(r)
    \/ Restart

Spec == Init /\ [][Next]_vars

-----------------------------------------------------------------------------
(* Properties.                                                             *)

\* BlobStore, with what can be read as what is held.
Promise == INSTANCE BlobStore
             WITH held <- {d \in Digests : Held(d)},
                  deleting <- {d \in Digests : op[d] \in Deleting}

\* The store implements BlobStore: bytes that can be read stay readable until
\* a Delete of them runs (Settle's order of move then entry, line 148, the
\* lock of line 33, and interrupted settles finished by the next).
ImplementsBlobStore == Promise!Spec

\* Settle and Delete never leave a staged copy that no entry names: the entry
\* goes last in both (lines 123-125 and 148), whatever fails in between.
NoUnreferencedBytes ==
    \A id \in finished : staged[id] # NoDigest => ~Unnamed(id)

\* A Delete that reaches its last step has removed the blob, unless it was
\* stored again meanwhile (line 126).
DeleteDeletes ==
    \A d \in Digests : op[d] = "deleteDrop" /\ d \notin stored => ~Held(d)

\* Get never hands out bytes other than the ones asked for: an entry or an ID
\* read earlier is never reused for other bytes (lines 104-121).
HitIsTheBlob ==
    \A r \in Readers : reader[r].at = "hit" => reader[r].got = reader[r].digest

\* Get reports a blob missing only if it was missing at some moment of the
\* read, or its index entry was dropped during the read (lines 104-121).
MissOnlyIfGoneOrDropped ==
    \A r \in Readers : reader[r].at = "miss" => r \in gap \cup dropped

\* The three together, and the types: staged bytes are referred to, and what a
\* Get answers is true, however Settle, Delete, failures and restarts
\* interleave with it.
BytesAreReadable == TypeOK /\ NoUnreferencedBytes /\ HitIsTheBlob /\ MissOnlyIfGoneOrDropped

\* What the comment on Get says: "one that has just been settled is at its key
\* again, so the key is tried once more before reporting it missing"
\* (staging.go:102-103), so a blob held throughout the read is never missed.
NeverMissesAHeldBlob ==
    \A r \in Readers : reader[r].at = "miss" => r \in gap

-----------------------------------------------------------------------------
(* The inductive invariant behind ImplementsBlobStore and DeleteDeletes.   *)

\* An entry names a completed upload, whose staged bytes are the digest's or
\* already gone, and no two entries name the same upload.
EntriesOK ==
    /\ \A d \in Digests : index[d] # NoId =>
          index[d] \in finished /\ staged[index[d]] \in {d, NoDigest}
    /\ \A d, e \in Digests : index[d] = index[e] /\ index[d] # NoId => d = e

\* The lock's holder still has the entry it found, Settle drops it only once
\* the bytes are at the key, and Delete only once they are unstaged.
OpsOK ==
    \A d \in Digests :
        /\ op[d] \in (Settling \cup Deleting) \ {"deleteLookup"} =>
              opId[d] = index[d] /\ index[d] # NoId
        /\ op[d] \in Settling \ {"settleMove"} => d \in atKey
        /\ op[d] = "deleteDrop" => staged[index[d]] = NoDigest
        /\ op[d] \in Deleting /\ d \in atKey => d \in stored

\* Entries, locks and bytes agree at every step of Settle and Delete (the
\* order of staging.go:126-172 under its per-digest lock).
StoreInv == StoreTypeOK /\ EntriesOK /\ OpsOK
=============================================================================
