---------------------------- MODULE BlobLifecycle ----------------------------
(***************************************************************************)
(* A blob from its allocation to its removal: the handlers, the uploads    *)
(* and the background tasks over the records they share.                   *)
(***************************************************************************)
EXTENDS BlobHandlers, BlobUploads, BlobRemoval

\* The requests, background tasks and failures a model exercises; "again"
\* lets a task that was given an upload before be allocated again.
CONSTANT Active
ASSUME ActiveAssumption ==
    Active \subseteq Ops \cup {"acceptUnidentified", "sweep", "settle", "stops", "again"}

\* A transaction commits: everything it decided, at once.
Commit(t) ==
    LET s == tx[t].space
        l == tx[t].link
        x == w[t]
    IN
    /\ tx[t].at = "commit"
    /\ alloc' = IF x.allocRow = NoDigest THEN alloc ELSE [alloc EXCEPT ![x.allocRow][s] = x.allocTo]
    /\ accepted' = IF x.acceptRow = NoDigest THEN accepted
                   ELSE [accepted EXCEPT ![x.acceptRow][s] = x.acceptTo]
    /\ pendingUpload' = IF x.pending = "keep" THEN pendingUpload
                        ELSE [pendingUpload EXCEPT ![l] = x.insert]
    /\ pendingDigest' = IF x.pending = "keep" THEN pendingDigest
                        ELSE [pendingDigest EXCEPT ![l] = NoDigest]
    /\ row' = [u \in Uploads |-> IF u = x.insert THEN "live"
                              ELSE IF u = x.mark THEN "discarded" ELSE row[u]]
    /\ rowLink' = IF x.insert = NoUpload THEN rowLink ELSE [rowLink EXCEPT ![x.insert] = l]
    /\ removals' = removals \cup ({x.queue} \ {NoDigest})
    /\ pipeline' = pipeline \cup ({x.enqueue} \ {NoDigest})
    /\ Unlock(t)
    /\ tx' = [tx EXCEPT ![t] = IF x.unstage = NoUpload THEN IdleTx
                               ELSE [IdleTx EXCEPT !.at = "after", !.upload = x.unstage]]
    /\ w' = [w EXCEPT ![t] = NoWrites]
    /\ UNCHANGED <<entry, bytes, put, sweep>>

\* AfterCommit: the data of a discarded upload is dropped.
AfterCommit(t) ==
    /\ tx[t].at = "after"
    /\ Unstaged(tx[t].upload)
    /\ tx' = [tx EXCEPT ![t] = IdleTx]
    /\ UNCHANGED <<records, atKey, advisory, w, put, sweep>>

Rollback(t) ==
    /\ tx' = [tx EXCEPT ![t] = IdleTx]
    /\ w' = [w EXCEPT ![t] = NoWrites]
    /\ Unlock(t)
    /\ UNCHANGED <<records, bytes, put, sweep>>

\* An error, a caller that goes away or a node that stops: what was not
\* committed is undone.
TxStops(t) == tx[t].at # "idle" /\ Rollback(t)

\* What the accept and reject handlers refuse, and the statements that fail on
\* the unique index.
Refused(t) ==
    LET d == tx[t].digest
        l == tx[t].link
        a == accepted[d][tx[t].space]
    IN
    /\ \/ InTx(t, "accept", "link") /\ ~(Pending(l) /\ pendingDigest[l] = d)
       \/ InTx(t, "accept", "blob") /\ ~Held(d)
       \/ InTx(t, "accept", "space") /\ l # NoLink
          /\ \/ ~Unreleased(l, d, tx[t].space)
             \/ alloc[d][tx[t].space] \notin {NoLink, l} /\ ~(RowsOf(l) \subseteq {d})
       \/ InTx(t, "reject", "space") /\ a # NoLink
          /\ IF tx[t].upload # NoUpload THEN a = l ELSE a \in {l, Unidentified}
       \/ /\ tx[t].op \in {"reject", "expire"} /\ tx[t].at \in {"space", "body"}
          /\ \E r \in RowsOf(l) : \E heir \in Heirs(r, l) : ~(RowsOf(heir) \subseteq {r})
    /\ Rollback(t)

Requests(t) ==
    \/ \E l \in Links :
        \/ "allocate" \in Active /\ Allocate(t, l)
        \/ /\ "allocateUnhashed" \in Active
           /\ "again" \in Active \/ \A u \in Uploads : rowLink[u] # l
           /\ AllocateUnhashed(t, l)
        \/ "accept" \in Active /\ AcceptResolve(t, l)
        \/ "reject" \in Active /\ ReleaseAllocation(t, "reject", l)
        \/ "expire" \in Active /\ ReleaseAllocation(t, "expire", l)
    \/ \E d \in Digests, s \in Spaces :
        \/ "accept" \in Active /\ \E l \in Links : Accept(t, l, d, s)
        \/ "acceptUnidentified" \in Active /\ Accept(t, NoLink, d, s)
        \/ "release" \in Active /\ Release(t, d, s)

TxStep(t) ==
    \/ AllocateBody(t)
    \/ AcceptLockPending(t) \/ AcceptLockBlob(t) \/ AcceptBody(t)
    \/ ReleaseLockSpace(t) \/ ReleasePendingBody(t) \/ RejectBody(t)
    \/ Commit(t) \/ AfterCommit(t)

PutStep(u) ==
    \/ UploadPiece(u) \/ UploadStore(u) \/ UploadFinish(u) \/ UploadUndo(u)
    \/ UnhashedGetPending(u) \/ UnhashedStage(u) \/ UnhashedRecordDigest(u)
    \/ UnhashedClaim(u) \/ UnhashedHas(u) \/ UnhashedRecord(u)
    \/ UnhashedDrop(u) \/ UnhashedComplete(u)
    \/ DiscardedData(u) \/ DiscardedRow(u) \/ DiscardedClaim(u) \/ DiscardedQueue(u)

SweepStep ==
    \/ \E d \in Digests : SweepStart(d)
    \/ cancelPendingRemoval \/ cancelPipelineEntry
    \/ FinalizeLock \/ FinalizeRevived \/ FinalizeDelete \/ FinalizeCommit

Stops ==
    \/ \E t \in Txs : TxStops(t)
    \/ \E u \in Uploads : PutStops(u)
    \/ SweepStops

Next ==
    \/ \E t \in Txs : Requests(t) \/ TxStep(t) \/ Refused(t)
    \/ \E u \in Uploads : PutStep(u) \/ reapDiscardedUploads(u)
    \/ "sweep" \in Active /\ SweepStep
    \/ "settle" \in Active /\ \E d \in Digests : Settle(d)
    \/ "stops" \in Active /\ Stops

Spec == Init /\ [][Next]_vars

-----------------------------------------------------------------------------
\* Accepted content is held: whatever uploads, rejects, releases, expiries and
\* the sweep do, the bytes of a blob some space has accepted (Accept found
\* them under the blob's lock) are in the store.
AcceptedHeld ==
    \A d \in Digests : (\E s \in Spaces : accepted[d][s] # NoLink) => Held(d)

\* Where the PUT of an unhashed upload relies on the digest of its data.
Hashed == {"digest", "claim", "has", "record", "queue"}

\* Why accepted content stays held.  Only a transaction that has decided has
\* writes, and what requests, uploads and the sweep carry is what they need.
WellFormed ==
    /\ \A t \in Txs :
        /\ tx[t].at # "commit" => w[t] = NoWrites
        /\ w[t].insert # NoUpload => tx[t].link \in Links
        /\ tx[t].op = "accept" => tx[t].digest \in Digests
        /\ tx[t].op \in {"allocate", "reject", "expire"} => tx[t].link \in Links
        /\ tx[t].at = "body" => tx[t].upload # NoUpload
    /\ \A u \in Uploads :
        /\ row[u] # "unused" => rowLink[u] \in Links
        /\ put[u].at \in {"store", "finish"} => DigestOf[rowLink[u]] # NoDigest
        /\ put[u].at \in Hashed => put[u].digest # NoDigest
    /\ sweep.at # "idle" => sweep.digest \in Digests

\* An upload that holds a blob has completed: nothing will write or drop its
\* data any more.
HoldersAreDone ==
    /\ \A d \in Digests : \A u \in Uploads :
        entry[d] = u => row[u] = "gone" /\ put[u].at = "idle"
    /\ \A d, e \in Digests : entry[d] = entry[e] /\ entry[d] # NoUpload => d = e

\* An upload a transaction discards holds nothing and cannot come to hold
\* anything: its row is marked, or the transaction will mark it.
DiscardedHoldNothing ==
    \A t \in Txs : \A u \in Uploads :
        /\ w[t].mark = u => Unnamed(u) /\ row[u] # "unused"
        /\ w[t].unstage = u => /\ Unnamed(u) /\ row[u] # "unused"
                               /\ row[u] = "live" => w[t].mark = u
        /\ tx[t].at = "after" /\ tx[t].upload = u =>
              Unnamed(u) /\ row[u] \in {"discarded", "gone"}

\* An upload ID is in one transaction's hands until its row is inserted.
IDsAreFresh ==
    /\ \A t \in Txs : \A u \in Uploads :
        /\ w[t].insert = u => row[u] = "unused" /\ \A v \in Txs \ {t} : w[v].insert # u
        /\ tx[t].upload = u => row[u] # "unused"
    /\ \A l \in Links : \A u \in Uploads : pendingUpload[l] = u => row[u] # "unused"
    /\ \A u \in Uploads :
        /\ put[u].at # "idle" => row[u] # "unused"
        /\ \A v \in Uploads : put[u].upload = v => row[v] # "unused"

\* From the moment an accept finds the bytes, it holds the blob's lock; so
\* does the sweep from the moment it finds no claim.
LocksProtect ==
    /\ \A t \in Txs :
        /\ tx[t].op = "accept" /\ tx[t].at \in {"space", "commit"} =>
              blobLock[tx[t].digest] = t /\ Held(tx[t].digest)
        /\ w[t].acceptTo # NoLink => tx[t].op = "accept" /\ w[t].acceptRow = tx[t].digest
    /\ sweep.at \in {"delete", "commit"} =>
          /\ blobLock[sweep.digest] = Sweep
          /\ \A s \in Spaces : accepted[sweep.digest][s] = NoLink

\* The inductive invariant behind AcceptedHeld, when the transaction that ends
\* a hashed upload commits, so that UploadPiece never gets to its Delete.
AcceptedHeldInv ==
    /\ WellFormed /\ HoldersAreDone /\ DiscardedHoldNothing /\ IDsAreFresh
    /\ LocksProtect /\ AcceptedHeld
    /\ \A u \in Uploads : put[u].at # "undo"

\* Bytes go by removal alone: DiscardUpload, a duplicate or discarded upload's
\* Unstage, the reaping of uploads and the settle task never take away the
\* bytes of a blob the store holds; only finalizeRemoval does, and UploadPiece
\* when the transaction that ends it fails.
BytesGoByRemoval ==
    [][\A d \in Digests : Held(d) /\ ~Held(d)' =>
        \/ sweep.at = "delete" /\ sweep.digest = d
        \/ \E u \in Uploads : put[u].at = "undo" /\ DigestOf[rowLink[u]] = d]_vars

\* An allocation released first is not accepted (Accept's re-check under the
\* locks): an acceptance that names an allocation is committed while that
\* allocation's pending record, or the space's allocation of the blob, exists.
AcceptsUnreleased ==
    [][\A d \in Digests, s \in Spaces : \A l \in Links :
        accepted[d][s] # l /\ accepted'[d][s] = l =>
            IF DigestOf[l] = NoDigest THEN Pending(l) ELSE alloc[d][s] # NoLink]_vars


\* Staged data is always referred to: by a live or discarded row the expiry
\* task reaps, by a PUT that is running, or by the blob it holds
\* ("never data nothing refers to", uploadUnhashedPiece).
StagedDataReferenced ==
    \A u \in Uploads : staged[u] # NoDigest =>
        row[u] \in {"live", "discarded"} \/ put[u].at # "idle" \/ ~Unnamed(u)

\* One task link never has two uploads to record a digest from
\* (AllocateUnhashed).
OneUploadPerTask ==
    \A u, v \in Uploads :
        /\ row[u] = "live" /\ row[v] = "live" /\ rowLink[u] = rowLink[v]
        /\ DigestOf[rowLink[u]] = NoDigest
        => u = v

\* The upload record and the pending allocation of AllocateUnhashed commit
\* together and go together: a live upload with no PUT running has its
\* pending record.
NeitherWithoutTheOther ==
    \A u \in Uploads :
        row[u] = "live" /\ put[u].at = "idle" /\ DigestOf[rowLink[u]] = NoDigest
        => pendingUpload[rowLink[u]] = u

\* A claim made by an upload without a digest can be released: it is the
\* claim of a pending allocation, or accepted, or its PUT is still running.
ClaimsAreOwned ==
    \A d \in Digests, l \in Links :
        DigestOf[l] = NoDigest /\ alloc[d][SpaceOf[l]] = l =>
            \/ Pending(l) /\ pendingDigest[l] = d
            \/ accepted[d][SpaceOf[l]] = l
            \/ \E u \in Uploads : rowLink[u] = l /\ put[u].at # "idle"

\* The upload of a pending allocation has completed, and no PUT runs.
Received(l) ==
    /\ Pending(l) /\ pendingDigest[l] # NoDigest /\ row[pendingUpload[l]] = "gone"
    /\ \A u \in Uploads : rowLink[u] = l => put[u].at = "idle"

\* A received upload stays claimed: rejecting or expiring another upload of
\* the same content in the space hands the claim over to it (handOverClaim),
\* so (digest, space) is allocated while it is pending.
ReceivedIsClaimed ==
    \A l \in Links : Received(l) => alloc[pendingDigest[l]][SpaceOf[l]] # NoLink

\* What a completed upload stored is held while its allocation is pending.
ReceivedIsHeld == \A l \in Links : Received(l) => Held(pendingDigest[l])

\* The step that takes the last claim on held bytes away queues them for
\* removal (removeIfUnclaimed, Release, expireAllocation).
QueuesTheLast ==
    \A d \in Digests : blobHasClaims(d) /\ ~blobHasClaims(d)' /\ Held(d) =>
        d \in removals' \/ \E u \in Uploads : put'[u].at = "queue" /\ put'[u].digest = d
=============================================================================
