----------------------------- MODULE BlobUploads -----------------------------
(***************************************************************************)
(* The PUT of an upload: PDPService.UploadPiece.  An upload made for a     *)
(* digest writes the bytes at the digest's key and deletes its row; one    *)
(* made without a digest hashes what it receives, stages it under the      *)
(* upload's ID and then records, step by step, what it found.  uploadLocks *)
(* lets one PUT of an upload in at a time, so put[u] is one process.  No   *)
(* step is inside a transaction that holds an advisory lock.               *)
(***************************************************************************)
EXTENDS BlobRecords

CONSTANT UploadTxMayFail  \* the transaction that ends a hashed upload may fail
ASSUME UploadTxAssumption == UploadTxMayFail \in BOOLEAN

PutAt(u, at) == put[u].at = at
PutGoesTo(u, at) == put' = [put EXCEPT ![u].at = at]
PutEnds(u) == put' = [put EXCEPT ![u] = IdlePut]
Unstaged(u) == staged' = [staged EXCEPT ![u] = NoDigest]

\* The upload's row is read: it must exist and not be discarded.
UploadPiece(u) ==
    /\ PutAt(u, "idle") /\ row[u] = "live"
    /\ PutGoesTo(u, IF DigestOf[rowLink[u]] = NoDigest THEN "row" ELSE "store")
    /\ UNCHANGED <<records, bytes, advisory, tx, w, sweep>>

-----------------------------------------------------------------------------
(* With a digest.                                                          *)

\* The verifying reader lets only the allocated bytes reach the key.
UploadStore(u) ==
    /\ PutAt(u, "store")
    /\ atKey' = atKey \cup {DigestOf[rowLink[u]]}
    /\ PutGoesTo(u, "finish")
    /\ UNCHANGED <<records, staged, advisory, tx, w, sweep>>

\* The transaction deletes the row; if it fails, the bytes are deleted.
UploadFinish(u) ==
    /\ PutAt(u, "finish")
    /\ \/ row' = [row EXCEPT ![u] = "gone"] /\ PutEnds(u)
       \/ UploadTxMayFail /\ PutGoesTo(u, "undo") /\ UNCHANGED row
    /\ UNCHANGED <<alloc, accepted, pendingUpload, pendingDigest, rowLink, entry, removals,
                   pipeline, bytes, advisory, tx, w, sweep>>

UploadUndo(u) ==
    LET d == DigestOf[rowLink[u]] IN
    /\ PutAt(u, "undo")
    /\ atKey' = atKey \ {d}
    /\ staged' = IF entry[d] = NoUpload THEN staged ELSE [staged EXCEPT ![entry[d]] = NoDigest]
    /\ entry' = [entry EXCEPT ![d] = NoUpload]
    /\ PutEnds(u)
    /\ UNCHANGED <<alloc, accepted, pendingUpload, pendingDigest, row, rowLink, removals,
                   pipeline, advisory, tx, w, sweep>>

-----------------------------------------------------------------------------
(* Without a digest: uploadUnhashedPiece.                                  *)

\* The pending record is read here, and written back, digest added, below.
UnhashedGetPending(u) ==
    LET p == pendingUpload[rowLink[u]] IN
    /\ PutAt(u, "row")
    /\ put' = [put EXCEPT ![u] = IF p = NoUpload THEN IdlePut
                                 ELSE [at |-> "receive", digest |-> NoDigest, upload |-> p]]
    /\ UNCHANGED <<records, bytes, advisory, tx, w, sweep>>

\* The data is received, or the receipt fails and what was written is dropped.
UnhashedStage(u) ==
    /\ PutAt(u, "receive")
    /\ \/ \E d \in Digests :
            /\ staged' = [staged EXCEPT ![u] = d]
            /\ put' = [put EXCEPT ![u].at = "digest", ![u].digest = d]
       \/ Unstaged(u) /\ PutEnds(u)
    /\ UNCHANGED <<records, atKey, advisory, tx, w, sweep>>

\* Step 1: PutPending, an upsert of the whole record.
UnhashedRecordDigest(u) ==
    LET l == rowLink[u] IN
    /\ PutAt(u, "digest")
    /\ ~PendingWritten(l)
    /\ pendingUpload' = [pendingUpload EXCEPT ![l] = put[u].upload]
    /\ pendingDigest' = [pendingDigest EXCEPT ![l] = put[u].digest]
    /\ PutGoesTo(u, "claim")
    /\ UNCHANGED <<alloc, accepted, row, rowLink, entry, removals, pipeline,
                   bytes, advisory, tx, w, sweep>>

\* Step 2: Claim, unless (digest, space) is allocated already.  A link that
\* already names another row fails the statement.
UnhashedClaim(u) ==
    LET l == rowLink[u]
        d == put[u].digest
        s == SpaceOf[l]
    IN
    /\ PutAt(u, "claim")
    /\ ~AllocRowWritten(d, s) /\ ~LinkWritten(l)
    /\ \/ alloc[d][s] # NoLink /\ PutGoesTo(u, "has") /\ UNCHANGED alloc
       \/ /\ alloc[d][s] = NoLink /\ RowsOf(l) = {}
          /\ alloc' = [alloc EXCEPT ![d][s] = l] /\ PutGoesTo(u, "has")
       \/ alloc[d][s] = NoLink /\ RowsOf(l) # {} /\ PutEnds(u) /\ UNCHANGED alloc
    /\ UNCHANGED <<accepted, pendingUpload, pendingDigest, row, rowLink, entry, removals,
                   pipeline, bytes, advisory, tx, w, sweep>>

UnhashedHas(u) ==
    /\ PutAt(u, "has")
    /\ PutGoesTo(u, IF Held(put[u].digest) THEN "drop" ELSE "record")
    /\ UNCHANGED <<records, bytes, advisory, tx, w, sweep>>

\* Step 3: the row goes and the upload is recorded as holding the digest, in
\* one transaction, unless the row was discarded or another upload holds it.
UnhashedRecord(u) ==
    LET d == put[u].digest IN
    /\ PutAt(u, "record")
    /\ ~UploadRowWritten(u)
    /\ sweep.at = "commit" /\ sweep.digest = d => sweep.upload = NoUpload
    /\ \/ /\ row[u] = "live" /\ entry[d] = NoUpload
          /\ row' = [row EXCEPT ![u] = "gone"]
          /\ entry' = [entry EXCEPT ![d] = u]
          /\ PutEnds(u)
       \/ /\ row[u] = "live" /\ entry[d] # NoUpload
          /\ PutGoesTo(u, "drop") /\ UNCHANGED <<row, entry>>
       \/ /\ row[u] # "live"
          /\ PutGoesTo(u, "discardData") /\ UNCHANGED <<row, entry>>
    /\ UNCHANGED <<alloc, accepted, pendingUpload, pendingDigest, rowLink, removals,
                   pipeline, bytes, advisory, tx, w, sweep>>

\* The node holds the content already: the data goes, then the row.
UnhashedDrop(u) ==
    /\ PutAt(u, "drop")
    /\ Unstaged(u)
    /\ PutGoesTo(u, "complete")
    /\ UNCHANGED <<records, atKey, advisory, tx, w, sweep>>

UnhashedComplete(u) ==
    /\ PutAt(u, "complete")
    /\ ~UploadRowWritten(u)
    /\ \/ /\ row[u] = "live"
          /\ row' = [row EXCEPT ![u] = "gone"] /\ PutEnds(u)
       \/ row[u] # "live" /\ PutGoesTo(u, "discardData") /\ UNCHANGED row
    /\ UNCHANGED <<alloc, accepted, pendingUpload, pendingDigest, rowLink, entry, removals,
                   pipeline, bytes, advisory, tx, w, sweep>>

-----------------------------------------------------------------------------
(* The allocation was released while the upload completed:                 *)
(* releaseDiscardedUpload.                                                 *)

DiscardedData(u) ==
    /\ PutAt(u, "discardData")
    /\ Unstaged(u)
    /\ PutGoesTo(u, "discardRow")
    /\ UNCHANGED <<records, atKey, advisory, tx, w, sweep>>

DiscardedRow(u) ==
    /\ PutAt(u, "discardRow")
    /\ ~UploadRowWritten(u)
    /\ row' = [row EXCEPT ![u] = "gone"]
    /\ PutGoesTo(u, "discardClaim")
    /\ UNCHANGED <<alloc, accepted, pendingUpload, pendingDigest, rowLink, entry, removals,
                   pipeline, bytes, advisory, tx, w, sweep>>

\* ReleasePending in a transaction of its own: it takes the link's lock and
\* the (digest, space) lock, so it runs when nobody holds them.  Without a
\* pending record it releases what the upload had read and recorded.
DiscardedClaim(u) ==
    LET l == rowLink[u]
        s == SpaceOf[l]
        d == IF pendingUpload[l] # NoUpload THEN pendingDigest[l] ELSE put[u].digest
        holds == HoldsClaim(l, d)
    IN
    /\ PutAt(u, "discardClaim")
    /\ linkLock[l] = Nobody
    /\ d # NoDigest => spaceLock[d][s] = Nobody /\ ~AllocRowWritten(d, s)
    /\ IF holds
       THEN \E heir \in handOverClaim(d, l) :
                /\ heir # NoLink => MayName(heir, d)
                /\ alloc' = [alloc EXCEPT ![d][s] = heir]
       ELSE UNCHANGED alloc
    /\ pendingUpload' = [pendingUpload EXCEPT ![l] = NoUpload]
    /\ pendingDigest' = [pendingDigest EXCEPT ![l] = NoDigest]
    /\ put' = [put EXCEPT ![u] = IF d = NoDigest THEN IdlePut
                                 ELSE [@ EXCEPT !.at = "queue", !.digest = d]]
    /\ UNCHANGED <<accepted, row, rowLink, entry, removals, pipeline, bytes, advisory, tx, w, sweep>>

DiscardedQueue(u) ==
    /\ PutAt(u, "queue")
    /\ removals' = removals \cup {put[u].digest}
    /\ PutEnds(u)
    /\ UNCHANGED <<alloc, accepted, pendingUpload, pendingDigest, row, rowLink, entry,
                   pipeline, bytes, advisory, tx, w, sweep>>

\* The client goes away, a step fails or the node stops: the PUT ends where
\* it is.
PutStops(u) ==
    /\ ~PutAt(u, "idle")
    /\ PutEnds(u)
    /\ UNCHANGED <<records, bytes, advisory, tx, w, sweep>>
=============================================================================
