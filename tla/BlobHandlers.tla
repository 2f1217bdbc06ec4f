----------------------------- MODULE BlobHandlers -----------------------------
(***************************************************************************)
(* The UCAN handlers that change a blob's records, /blob/allocate (with    *)
(* and without a digest), /blob/accept, /blob/reject and /blob/release,    *)
(* and the expiry of pending allocations.  Each is one transaction: it     *)
(* takes its locks in the order LockPending, LockBlob, Lock, decides, and  *)
(* commits.                                                                *)
(***************************************************************************)
EXTENDS BlobRecords

\* A request, at the point where it next waits for a lock or has decided.
Started(op, at, l, s, d, u) ==
    [op |-> op, at |-> at, link |-> l, space |-> s, digest |-> d, upload |-> u]

InTx(t, op, at) == tx[t].op = op /\ tx[t].at = at

\* The transaction has decided what to write.
Decide(t, writes) ==
    /\ tx' = [tx EXCEPT ![t].at = "commit"]
    /\ w' = [w EXCEPT ![t] = writes]

\* Mutants: the lock is not taken.
LockPendingSkipped(t, l) == UNCHANGED linkLock
LockBlobSkipped(t, d) == UNCHANGED blobLock

LockPending(t, l) == linkLock[l] = Nobody /\ linkLock' = [linkLock EXCEPT ![l] = t]
LockBlob(t, d) == blobLock[d] = Nobody /\ blobLock' = [blobLock EXCEPT ![d] = t]
Lock(t, d, s) ==
    /\ spaceLock[d][s] \in {t, Nobody}
    /\ spaceLock' = [spaceLock EXCEPT ![d][s] = t]

\* The end of a transaction: its advisory locks go with it.
Unlock(h) ==
    /\ linkLock' = [l \in Links |-> IF linkLock[l] = h THEN Nobody ELSE linkLock[l]]
    /\ blobLock' = [d \in Digests |-> IF blobLock[d] = h THEN Nobody ELSE blobLock[d]]
    /\ spaceLock' = [d \in Digests |-> [s \in Spaces |->
                        IF spaceLock[d][s] = h THEN Nobody ELSE spaceLock[d][s]]]

\* An upload ID nobody has been given.
Fresh(u) == row[u] = "unused" /\ \A t \in Txs : w[t].insert # u

-----------------------------------------------------------------------------
(* Allocate, with a digest.                                                *)

Allocate(t, l) ==
    /\ tx[t].at = "idle" /\ DigestOf[l] # NoDigest
    /\ LockBlob(t, DigestOf[l])
    /\ tx' = [tx EXCEPT ![t] = Started("allocate", "space", l, SpaceOf[l], DigestOf[l], NoUpload)]
    /\ UNCHANGED <<records, bytes, linkLock, spaceLock, w, put, sweep>>

\* With the bytes here there is nothing to upload; an allocation the space
\* already has is then left as it is, otherwise it is put for this task.
AllocateBody(t) ==
    LET d == tx[t].digest
        s == tx[t].space
        put_ == [NoWrites EXCEPT !.allocRow = d, !.allocTo = tx[t].link]
    IN
    /\ InTx(t, "allocate", "space")
    /\ Lock(t, d, s)
    /\ \/ /\ Held(d) /\ alloc[d][s] # NoLink
          /\ Decide(t, NoWrites)
       \/ /\ Held(d) /\ alloc[d][s] = NoLink /\ ~AllocRowWritten(d, s)
          /\ Decide(t, put_)
       \/ /\ ~Held(d) /\ ~AllocRowWritten(d, s)
          /\ \E u \in Uploads : Fresh(u) /\ Decide(t, [put_ EXCEPT !.insert = u])
    /\ UNCHANGED <<records, bytes, linkLock, blobLock, put, sweep>>

-----------------------------------------------------------------------------
(* Allocate, without a digest: a retry of the same task gets the upload    *)
(* the task already has.                                                   *)

AllocateUnhashed(t, l) ==
    LET decide(writes) ==
            /\ tx' = [tx EXCEPT ![t] =
                         Started("allocateUnhashed", "commit", l, SpaceOf[l], NoDigest, NoUpload)]
            /\ w' = [w EXCEPT ![t] = writes]
    IN
    /\ tx[t].at = "idle" /\ DigestOf[l] = NoDigest
    /\ LockPending(t, l)
    /\ \/ Pending(l) /\ decide(NoWrites)
       \/ /\ ~Pending(l)
          /\ \E u \in Uploads :
                Fresh(u) /\ decide([NoWrites EXCEPT !.insert = u, !.pending = "make"])
    /\ UNCHANGED <<records, bytes, blobLock, spaceLock, put, sweep>>

-----------------------------------------------------------------------------
(* Accept.                                                                 *)

\* The digest of an accept without one is resolved from the pending record
\* before any lock is taken.
AcceptResolve(t, l) ==
    /\ tx[t].at = "idle" /\ DigestOf[l] = NoDigest
    /\ Pending(l) /\ pendingDigest[l] # NoDigest
    /\ tx' = [tx EXCEPT ![t] =
                 Started("accept", "link", l, SpaceOf[l], pendingDigest[l], NoUpload)]
    /\ UNCHANGED <<records, bytes, advisory, w, put, sweep>>

\* Under the link's lock the record must still be the one the digest came
\* from.
AcceptLockPending(t) ==
    /\ InTx(t, "accept", "link")
    /\ LockPending(t, tx[t].link)
    /\ Pending(tx[t].link) /\ pendingDigest[tx[t].link] = tx[t].digest
    /\ tx' = [tx EXCEPT ![t].at = "blob"]
    /\ UNCHANGED <<records, bytes, blobLock, spaceLock, w, put, sweep>>

\* The bytes are looked for under the blob's lock.
AcceptLockBlob(t) ==
    /\ InTx(t, "accept", "blob")
    /\ LockBlob(t, tx[t].digest)
    /\ Held(tx[t].digest)
    /\ tx' = [tx EXCEPT ![t].at = "space"]
    /\ UNCHANGED <<records, bytes, linkLock, spaceLock, w, put, sweep>>

\* An accept that names the digest starts with the blob's lock.  Its link is
\* NoLink when the upload service sent only the put's link, which leaves the
\* allocation unknown.
Accept(t, l, d, s) ==
    /\ tx[t].at = "idle"
    /\ l # NoLink => DigestOf[l] = d /\ SpaceOf[l] = s
    /\ LockBlob(t, d)
    /\ Held(d)
    /\ tx' = [tx EXCEPT ![t] = Started("accept", "space", l, s, d, NoUpload)]
    /\ UNCHANGED <<records, bytes, linkLock, spaceLock, w, put, sweep>>

\* Mutant: an allocation released meanwhile is accepted.
UnreleasedUnchecked(l, d, s) == TRUE

\* An allocation made with a digest is released once the space holds none.
Unreleased(l, d, s) == (l # NoLink /\ DigestOf[l] # NoDigest) => alloc[d][s] # NoLink

\* The acceptance, the pipeline row and, through MakeCurrent, the allocation
\* it accepted, when the space's allocation is another one.
AcceptBody(t) ==
    LET d == tx[t].digest
        s == tx[t].space
        l == tx[t].link
        replaced == l # NoLink /\ alloc[d][s] \notin {NoLink, l}
    IN
    /\ InTx(t, "accept", "space")
    /\ Lock(t, d, s)
    /\ Unreleased(l, d, s)
    /\ replaced => MayName(l, d) /\ ~AllocRowWritten(d, s)
    /\ Decide(t, [NoWrites EXCEPT
                    !.acceptRow = d,
                    !.acceptTo = IF l = NoLink THEN Unidentified ELSE l,
                    !.enqueue = d,
                    !.allocRow = IF replaced THEN d ELSE NoDigest,
                    !.allocTo = IF replaced THEN l ELSE NoLink])
    /\ UNCHANGED <<records, bytes, linkLock, blobLock, put, sweep>>

-----------------------------------------------------------------------------
(* Reject and expire.                                                      *)

\* Both lock the task's link and read its pending record.  With none, a
\* reject looks for an allocation that names the task, and there is nothing
\* to expire.  Any pending allocation may have expired.
ReleaseAllocation(t, op, l) ==
    LET started(at, d, u) == tx' = [tx EXCEPT ![t] = Started(op, at, l, SpaceOf[l], d, u)] IN
    /\ tx[t].at = "idle" /\ op \in {"reject", "expire"}
    /\ LockPending(t, l)
    /\ \/ /\ Pending(l)
          /\ started(IF pendingDigest[l] = NoDigest THEN "body" ELSE "space",
                     pendingDigest[l], pendingUpload[l])
       \/ /\ ~Pending(l) /\ op = "reject"
          /\ \E d \in RowsOf(l) : started("space", d, NoUpload)
    /\ UNCHANGED <<records, bytes, blobLock, spaceLock, w, put, sweep>>


\* Only an acceptance of this allocation refuses the reject; an accepted
\* allocation that expires only loses its pending record.
ReleaseLockSpace(t) ==
    LET d == tx[t].digest
        accepted_ == accepted[d][tx[t].space] = tx[t].link
    IN
    /\ tx[t].op \in {"reject", "expire"} /\ tx[t].at = "space" /\ tx[t].upload # NoUpload
    /\ Lock(t, d, tx[t].space)
    /\ \/ /\ ~accepted_
          /\ tx' = [tx EXCEPT ![t].at = "body"] /\ UNCHANGED w
       \/ /\ accepted_ /\ tx[t].op = "expire"
          /\ Decide(t, [NoWrites EXCEPT !.pending = "drop"])
    /\ UNCHANGED <<records, bytes, linkLock, blobLock, put, sweep>>


\* ListSpaces on both stores, with this transaction's own writes in sight.
StillClaimed(d, s, allocation, acceptance) ==
    \/ allocation # NoLink \/ acceptance # NoLink
    \/ \E x \in Spaces \ {s} : alloc[d][x] # NoLink \/ accepted[d][x] # NoLink

\* DiscardUpload: the row is marked unless it was, or is gone; the data of an
\* upload that holds a blob is left to the blob's removal.
MarkDiscarded(u) == IF row[u] = "live" THEN u ELSE NoUpload
DropData(u) == IF Unnamed(u) THEN u ELSE NoUpload

\* DiscardUpload and ReleasePending: the upload is marked, the digest read
\* again and its claim released, the record dropped.  A reject then queues
\* the bytes unless they are claimed; an expiry queues them in any case.
ReleasePendingBody(t) ==
    LET l == tx[t].link
        s == tx[t].space
        u == tx[t].upload
        d == pendingDigest[l]
        holds == HoldsClaim(l, d)
    IN
    /\ tx[t].op \in {"reject", "expire"} /\ tx[t].at = "body"
    /\ IF d = NoDigest THEN UNCHANGED spaceLock ELSE Lock(t, d, s) /\ ~AllocRowWritten(d, s)
    /\ \E heir \in handOverClaim(d, l) :
        /\ holds /\ heir # NoLink => MayName(heir, d)
        /\ Decide(t, [NoWrites EXCEPT
              !.pending = "drop",
              !.mark = MarkDiscarded(u),
              !.unstage = DropData(u),
              !.allocRow = IF holds THEN d ELSE NoDigest,
              !.allocTo = IF holds THEN heir ELSE NoLink,
              !.queue = IF \/ d = NoDigest
                           \/ /\ tx[t].op = "reject"
                              /\ StillClaimed(d, s, IF holds THEN heir ELSE alloc[d][s],
                                              accepted[d][s])
                        THEN NoDigest ELSE d])
    /\ UNCHANGED <<records, bytes, linkLock, blobLock, put, sweep>>

\* ReleaseByTask, then removeIfUnclaimed: the row that names the link goes to
\* an heir or away, on top of the writes the caller has made.
ReleaseByTask(t, l, d, s, writes, decide(_, _)) ==
    \E r \in RowsOf(l) : \E heir \in handOverClaim(r, l) :
        /\ ~AllocRowWritten(r, s)
        /\ heir # NoLink => MayName(heir, r)
        /\ decide(t, [writes EXCEPT
              !.allocRow = r, !.allocTo = heir,
              !.queue = IF StillClaimed(d, s, IF r = d THEN heir ELSE alloc[d][s], NoLink)
                        THEN NoDigest ELSE d])

\* An allocation made with a digest, or one whose pending record is gone:
\* refused if accepted (by this allocation or by one that is not known), and
\* nothing to do if the space accepted the blob through another one.
RejectBody(t) ==
    LET d == tx[t].digest
        s == tx[t].space
        l == tx[t].link
    IN
    /\ InTx(t, "reject", "space") /\ tx[t].upload = NoUpload
    /\ Lock(t, d, tx[t].space)
    /\ \/ /\ accepted[d][s] \in Links \ {l} \/ (accepted[d][s] = NoLink /\ RowsOf(l) = {})
          /\ Decide(t, NoWrites)
       \/ /\ accepted[d][s] = NoLink
          /\ ReleaseByTask(t, l, d, s, NoWrites, Decide)
    /\ UNCHANGED <<records, bytes, linkLock, blobLock, put, sweep>>

-----------------------------------------------------------------------------
(* Release.                                                                *)

\* The allocation the acceptance accepted is released, wherever it is the
\* current one; without a known one, the allocation of the blob.
Release(t, d, s) ==
    LET a == accepted[d][s]
        released == [NoWrites EXCEPT !.acceptRow = d]
        queued(now) == IF StillClaimed(d, s, now, NoLink) THEN NoDigest ELSE d
        decide(_t, writes) ==
            /\ tx' = [tx EXCEPT ![t] = Started("release", "commit", NoLink, s, d, NoUpload)]
            /\ w' = [w EXCEPT ![t] = writes]
    IN
    /\ tx[t].at = "idle"
    /\ Lock(t, d, s)
    /\ \/ a \in Links /\ ReleaseByTask(t, a, d, s, released, decide)
       \/ /\ a \in Links /\ RowsOf(a) = {}
          /\ decide(t, [released EXCEPT !.queue = queued(alloc[d][s])])
       \/ /\ a \notin Links /\ ~AllocRowWritten(d, s)
          /\ decide(t, [released EXCEPT !.allocRow = d, !.queue = queued(NoLink)])
    /\ UNCHANGED <<records, bytes, linkLock, blobLock, put, sweep>>
=============================================================================
