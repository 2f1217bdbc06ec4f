----------------------------- MODULE BlobRemoval -----------------------------
(***************************************************************************)
(* What happens to a blob behind the handlers' back: the removal sweep     *)
(* (processPendingRemovals, one instance, run by a harmony task), the      *)
(* reaping of discarded uploads, and the settle task that moves an         *)
(* accepted blob's bytes from its upload's key to its own.                 *)
(***************************************************************************)
EXTENDS BlobRecords

SweepAt(at) == sweep.at = at
SweepGoesTo(at) == sweep' = [sweep EXCEPT !.at = at]
UnlockBlobs == blobLock' = [d \in Digests |-> IF blobLock[d] = Sweep THEN Nobody ELSE blobLock[d]]

\* The claims re-check that starts a pass over one queued removal.
SweepStart(d) ==
    /\ SweepAt("idle") /\ d \in removals
    /\ sweep' = [IdleSweep EXCEPT !.at = IF blobHasClaims(d) THEN "cancel" ELSE "pipeline",
                                  !.digest = d]
    /\ UNCHANGED <<records, bytes, advisory, tx, w, put>>

cancelPendingRemoval ==
    /\ SweepAt("cancel")
    /\ removals' = removals \ {sweep.digest}
    /\ sweep' = IdleSweep
    /\ UNCHANGED <<alloc, accepted, pendingUpload, pendingDigest, row, rowLink, entry,
                   pipeline, bytes, advisory, tx, w, put>>

\* Mutant: the bytes go with the pipeline row, before the claims are looked at
\* again under the blob's lock.
cancelPipelineEntryAndBytes ==
    /\ SweepAt("pipeline")
    /\ pipeline' = pipeline \ {sweep.digest} /\ SweepGoesTo("lock")
    /\ staged' = [u \in Uploads |-> IF entry[sweep.digest] = u THEN NoDigest ELSE staged[u]]
    /\ UNCHANGED <<alloc, accepted, pendingUpload, pendingDigest, row, rowLink, entry,
                   removals, atKey, advisory, tx, w, put>>

\* The pipeline row is deleted unless it is folded into an aggregate or a
\* task is working on it; then the removal waits for a later pass.
cancelPipelineEntry ==
    /\ SweepAt("pipeline")
    /\ \/ pipeline' = pipeline \ {sweep.digest} /\ SweepGoesTo("lock")
       \/ sweep.digest \in pipeline /\ sweep' = IdleSweep /\ UNCHANGED pipeline
    /\ UNCHANGED <<alloc, accepted, pendingUpload, pendingDigest, row, rowLink, entry,
                   removals, bytes, advisory, tx, w, put>>

\* finalizeRemoval: the claims again, under the blob's lock.
FinalizeLock ==
    /\ SweepAt("lock")
    /\ blobLock[sweep.digest] = Nobody
    /\ blobLock' = [blobLock EXCEPT ![sweep.digest] = Sweep]
    /\ SweepGoesTo(IF blobHasClaims(sweep.digest) THEN "revived" ELSE "delete")
    /\ UNCHANGED <<records, bytes, linkLock, spaceLock, tx, w, put>>

FinalizeRevived ==
    /\ SweepAt("revived")
    /\ removals' = removals \ {sweep.digest}
    /\ UnlockBlobs
    /\ sweep' = IdleSweep
    /\ UNCHANGED <<alloc, accepted, pendingUpload, pendingDigest, row, rowLink, entry,
                   pipeline, bytes, linkLock, spaceLock, tx, w, put>>

\* The bytes go at once; the staged blob's entry, deleted in the same
\* transaction as the removal, when it commits.
FinalizeDelete ==
    LET d == sweep.digest IN
    /\ SweepAt("delete")
    /\ atKey' = atKey \ {d}
    /\ staged' = IF entry[d] = NoUpload THEN staged ELSE [staged EXCEPT ![entry[d]] = NoDigest]
    /\ sweep' = [sweep EXCEPT !.at = "commit", !.upload = entry[d]]
    /\ UNCHANGED <<records, advisory, tx, w, put>>

FinalizeCommit ==
    LET d == sweep.digest IN
    /\ SweepAt("commit")
    /\ entry' = IF sweep.upload = NoUpload THEN entry ELSE [entry EXCEPT ![d] = NoUpload]
    /\ removals' = removals \ {d}
    /\ UnlockBlobs
    /\ sweep' = IdleSweep
    /\ UNCHANGED <<alloc, accepted, pendingUpload, pendingDigest, row, rowLink, pipeline,
                   bytes, linkLock, spaceLock, tx, w, put>>

\* A statement fails or the node stops; what is not committed is undone.
SweepStops ==
    /\ ~SweepAt("idle")
    /\ sweep' = IdleSweep
    /\ UnlockBlobs
    /\ UNCHANGED <<records, bytes, linkLock, spaceLock, tx, w, put>>

-----------------------------------------------------------------------------
\* Mutant: the row goes and its data stays.
reapDiscardedRows(u) ==
    /\ row[u] = "discarded" /\ put[u].at = "idle"
    /\ row' = [row EXCEPT ![u] = "gone"]
    /\ UNCHANGED <<alloc, accepted, pendingUpload, pendingDigest, rowLink, entry, removals,
                   pipeline, bytes, advisory, tx, w, put, sweep>>

\* discardedUploadAge after the mark, the upload's PUT has ended.
reapDiscardedUploads(u) ==
    /\ row[u] = "discarded" /\ put[u].at = "idle"
    /\ staged' = [staged EXCEPT ![u] = NoDigest]
    /\ row' = [row EXCEPT ![u] = "gone"]
    /\ UNCHANGED <<alloc, accepted, pendingUpload, pendingDigest, rowLink, entry, removals,
                   pipeline, atKey, advisory, tx, w, put, sweep>>

\* The settle task, as the blob store's Settle promises it: an accepted blob
\* that an upload holds moves to its key.
Settle(d) ==
    LET u == entry[d] IN
    /\ d \in pipeline /\ u # NoUpload /\ Held(d)
    /\ atKey' = atKey \cup {d}
    /\ staged' = [staged EXCEPT ![u] = NoDigest]
    /\ entry' = [entry EXCEPT ![d] = NoUpload]
    /\ UNCHANGED <<alloc, accepted, pendingUpload, pendingDigest, row, rowLink, removals,
                   pipeline, advisory, tx, w, put, sweep>>
=============================================================================
