----------------------------- MODULE BlobRecords -----------------------------
(***************************************************************************)
(* The state the life of a blob is kept in, and the store operations on    *)
(* it: the tables ucan_allocations, ucan_pending_allocations,              *)
(* ucan_acceptances, pdp_piece_uploads, pdp_staged_blobs,                  *)
(* pdp_pending_piece_removals and pdp_blob_pipeline, the advisory locks    *)
(* that order their changes, the bytes in the blob store, and the          *)
(* transactions in flight.                                                 *)
(*                                                                         *)
(* A transaction takes its locks one at a time, reads the committed tables *)
(* (PostgreSQL's READ COMMITTED, the default the node runs with), keeps    *)
(* what it writes apart in w[t], and applies it all when it commits.       *)
(* Between the reads and the commit everything else may run, except a      *)
(* statement that waits for a row the transaction has written.             *)
(*                                                                         *)
(* An allocate task's link is the CID of its arguments, so it fixes the    *)
(* space and whether, and which, digest was named.                         *)
(***************************************************************************)
CONSTANTS
    Digests, Spaces,
    Links,          \* links of /blob/allocate tasks
    Uploads,        \* upload IDs; each is handed out once
    Txs,            \* requests and expiries in flight at one time
    SpaceOf,        \* the space a link allocates in
    DigestOf,       \* the digest a link names, NoDigest if it names none
    NoDigest, NoLink, NoUpload, Nobody,
    Sweep,          \* the removal sweep, as a holder of locks
    Unidentified    \* "accepted, but not said through which allocation"

ASSUME SpaceOfAssumption == SpaceOf \in [Links -> Spaces]
ASSUME DigestOfAssumption == DigestOf \in [Links -> Digests \cup {NoDigest}]
ASSUME NullAssumption ==
    /\ NoDigest \notin Digests /\ NoUpload \notin Uploads
    /\ NoLink \notin Links /\ Unidentified \notin Links /\ Unidentified # NoLink
    /\ Nobody \notin Txs /\ Sweep \notin Txs /\ Sweep # Nobody

VARIABLES
    alloc,          \* ucan_allocations: the link that holds (digest, space)
    accepted,       \* ucan_acceptances: the link accepted for (digest, space)
    pendingUpload,  \* ucan_pending_allocations: the upload of a link, ...
    pendingDigest,  \* ... and the digest its data was found to have
    row,            \* pdp_piece_uploads: unused, live, discarded or gone
    rowLink,        \* the link an upload was made for
    atKey,          \* blob store: digests with bytes at their key
    staged,         \* blob store: what the bytes staged under an ID hash to
    entry,          \* pdp_staged_blobs: the upload that holds a digest
    removals,       \* pdp_pending_piece_removals
    pipeline,       \* pdp_blob_pipeline, and pieces live on chain
    linkLock, blobLock, spaceLock,  \* who holds LockPending, LockBlob, Lock
    tx,             \* for each transaction, what it is doing
    w,              \* and what it will write when it commits
    put,            \* for each upload, the PUT being received
    sweep           \* the removal sweep

records == <<alloc, accepted, pendingUpload, pendingDigest, row, rowLink, entry,
             removals, pipeline>>
bytes == <<atKey, staged>>
advisory == <<linkLock, blobLock, spaceLock>>
vars == <<records, bytes, advisory, tx, w, put, sweep>>

Holders == Txs \cup {Sweep, Nobody}
Ops == {"none", "allocate", "allocateUnhashed", "accept", "reject", "release", "expire"}
Points == {"idle", "link", "blob", "space", "body", "commit", "after"}

-----------------------------------------------------------------------------
(* What a transaction is doing, and its writes.                            *)

IdleTx == [op |-> "none", at |-> "idle", link |-> NoLink, space |-> NoLink,
           digest |-> NoDigest, upload |-> NoUpload]

\* The allocation of (allocRow, space) becomes allocTo and the acceptance of
\* (acceptRow, space) acceptTo; the pending record of the link is made or
\* dropped; the upload row `mark` is marked discarded and `insert` inserted;
\* `queue` is queued for removal and `enqueue` enters the pipeline; the data
\* of `unstage` is dropped after the commit.
NoWrites == [allocRow |-> NoDigest, allocTo |-> NoLink,
             acceptRow |-> NoDigest, acceptTo |-> NoLink, pending |-> "keep",
             mark |-> NoUpload, insert |-> NoUpload,
             queue |-> NoDigest, enqueue |-> NoDigest, unstage |-> NoUpload]

IdleSweep == [at |-> "idle", digest |-> NoDigest, upload |-> NoUpload]

IdlePut == [at |-> "idle", digest |-> NoDigest, upload |-> NoUpload]

-----------------------------------------------------------------------------
(* Reads.                                                                  *)

Held(d) == d \in atKey \/ (entry[d] # NoUpload /\ staged[entry[d]] = d)
Unnamed(u) == \A d \in Digests : entry[d] # u

\* Any acceptance or allocation of the digest, in any space.
blobHasClaims(d) ==
    \E s \in Spaces : alloc[d][s] # NoLink \/ accepted[d][s] # NoLink

Pending(l) == pendingUpload[l] # NoUpload

\* The received uploads a released claim on (digest, space) may go to.
Heirs(d, l) ==
    {m \in Links \ {l} : Pending(m) /\ pendingDigest[m] = d /\ SpaceOf[m] = SpaceOf[l]}

\* The digests whose allocation row in the link's space names the link; the
\* unique index on the column allows one.
RowsOf(l) == {d \in Digests : alloc[d][SpaceOf[l]] = l}

-----------------------------------------------------------------------------
(* Rows written and not yet committed: a writer of the same row waits.     *)

AllocRowWritten(d, s) ==
    \E t \in Txs : tx[t].at = "commit" /\ w[t].allocRow = d /\ tx[t].space = s
LinkWritten(l) ==
    \E t \in Txs : tx[t].at = "commit" /\ w[t].allocRow # NoDigest /\ w[t].allocTo = l
PendingWritten(l) ==
    \E t \in Txs : tx[t].at = "commit" /\ w[t].pending # "keep" /\ tx[t].link = l
UploadRowWritten(u) ==
    \E t \in Txs : tx[t].at = "commit" /\ w[t].mark = u

\* The unique index on ucan_allocations (allocation): a link that names
\* another row, committed or not, cannot be written to this one.
MayName(l, d) == RowsOf(l) \subseteq {d} /\ ~LinkWritten(l)

-----------------------------------------------------------------------------
(* Releasing a claim on (digest, space).                                   *)

\* A released upload drops the claim only if it is its own.
HoldsClaim(l, d) == d # NoDigest /\ alloc[d][SpaceOf[l]] = l

\* Mutant: a released claim is always deleted.
handOverToNobody(d, l) == {NoLink}

\* Whoever takes over a released claim on (digest, space): another received
\* upload of the content in the space, or nobody.
handOverClaim(d, l) == IF Heirs(d, l) = {} THEN {NoLink} ELSE Heirs(d, l)

-----------------------------------------------------------------------------
TxRecord == [op : Ops, at : Points, link : Links \cup {NoLink},
             space : Spaces \cup {NoLink}, digest : Digests \cup {NoDigest},
             upload : Uploads \cup {NoUpload}]
Writes == [allocRow : Digests \cup {NoDigest}, allocTo : Links \cup {NoLink},
           acceptRow : Digests \cup {NoDigest},
           acceptTo : Links \cup {NoLink, Unidentified},
           pending : {"keep", "make", "drop"},
           mark : Uploads \cup {NoUpload}, insert : Uploads \cup {NoUpload},
           queue : Digests \cup {NoDigest}, enqueue : Digests \cup {NoDigest},
           unstage : Uploads \cup {NoUpload}]
PutPoints == {"idle", "row", "receive", "store", "finish", "undo", "digest", "claim", "has",
              "record", "drop", "complete", "discardData", "discardRow", "discardClaim", "queue"}
PutRecord == [at : PutPoints, digest : Digests \cup {NoDigest},
              upload : Uploads \cup {NoUpload}]
SweepRecord == [at : {"idle", "cancel", "pipeline", "lock", "delete", "commit", "revived"},
                digest : Digests \cup {NoDigest}, upload : Uploads \cup {NoUpload}]

TypeOK ==
    /\ alloc \in [Digests -> [Spaces -> Links \cup {NoLink}]]
    /\ accepted \in [Digests -> [Spaces -> Links \cup {NoLink, Unidentified}]]
    /\ pendingUpload \in [Links -> Uploads \cup {NoUpload}]
    /\ pendingDigest \in [Links -> Digests \cup {NoDigest}]
    /\ row \in [Uploads -> {"unused", "live", "discarded", "gone"}]
    /\ rowLink \in [Uploads -> Links \cup {NoLink}]
    /\ atKey \subseteq Digests
    /\ staged \in [Uploads -> Digests \cup {NoDigest}]
    /\ entry \in [Digests -> Uploads \cup {NoUpload}]
    /\ removals \subseteq Digests
    /\ pipeline \subseteq Digests
    /\ linkLock \in [Links -> Holders]
    /\ blobLock \in [Digests -> Holders]
    /\ spaceLock \in [Digests -> [Spaces -> Holders]]
    /\ tx \in [Txs -> TxRecord]
    /\ w \in [Txs -> Writes]
    /\ put \in [Uploads -> PutRecord]
    /\ sweep \in SweepRecord

Init ==
    /\ alloc = [d \in Digests |-> [s \in Spaces |-> NoLink]]
    /\ accepted = [d \in Digests |-> [s \in Spaces |-> NoLink]]
    /\ pendingUpload = [l \in Links |-> NoUpload]
    /\ pendingDigest = [l \in Links |-> NoDigest]
    /\ row = [u \in Uploads |-> "unused"]
    /\ rowLink = [u \in Uploads |-> NoLink]
    /\ atKey = {}
    /\ staged = [u \in Uploads |-> NoDigest]
    /\ entry = [d \in Digests |-> NoUpload]
    /\ removals = {}
    /\ pipeline = {}
    /\ linkLock = [l \in Links |-> Nobody]
    /\ blobLock = [d \in Digests |-> Nobody]
    /\ spaceLock = [d \in Digests |-> [s \in Spaces |-> Nobody]]
    /\ tx = [t \in Txs |-> IdleTx]
    /\ w = [t \in Txs |-> NoWrites]
    /\ put = [u \in Uploads |-> IdlePut]
    /\ sweep = IdleSweep
=============================================================================
