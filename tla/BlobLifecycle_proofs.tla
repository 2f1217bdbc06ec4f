------------------------- MODULE BlobLifecycle_proofs -------------------------
(***************************************************************************)
(* Accepted content stays held, for any digests, spaces, links, uploads    *)
(* and transactions.                                                       *)
(***************************************************************************)
EXTENDS BlobLifecycle, TLAPS

IInv == TypeOK /\ AcceptedHeldInv

\* The advisory locks after a step that takes some: a blob's lock changes
\* only from Nobody's.
LocksTaken ==
    /\ linkLock' \in [Links -> Holders]
    /\ blobLock' \in [Digests -> Holders]
    /\ spaceLock' \in [Digests -> [Spaces -> Holders]]
    /\ \A d \in Digests : blobLock'[d] # blobLock[d] => blobLock[d] = Nobody

\* A transaction before its commit: what it is doing, r, and what it will
\* write, x, keep the invariant.
Sound(t, r, x) ==
    /\ r \in TxRecord /\ x \in Writes /\ r.at # "after"
    /\ r.at # "commit" => x = NoWrites
    /\ r.op = "accept" => r.digest \in Digests
    /\ r.op = "accept" /\ r.at \in {"space", "commit"} =>
          blobLock'[r.digest] = t /\ Held(r.digest)
    /\ r.op \in {"allocate", "reject", "expire"} => r.link \in Links
    /\ r.at = "body" => r.upload # NoUpload
    /\ r.upload # NoUpload => row[r.upload] # "unused"
    /\ x.insert # NoUpload =>
          /\ r.link \in Links /\ row[x.insert] = "unused"
          /\ \A v \in Txs \ {t} : w[v].insert # x.insert
    /\ x.mark # NoUpload => Unnamed(x.mark) /\ row[x.mark] # "unused"
    /\ x.unstage # NoUpload =>
          /\ Unnamed(x.unstage) /\ row[x.unstage] # "unused"
          /\ row[x.unstage] = "live" => x.mark = x.unstage
    /\ x.acceptTo # NoLink => r.op = "accept" /\ x.acceptRow = r.digest

USE SpaceOfAssumption, DigestOfAssumption, NullAssumption

-----------------------------------------------------------------------------
\* The parts of the invariant, one by one, in a step that leaves most of what
\* they speak of alone.
LEMMA WellFormedFrame ==
    ASSUME WellFormed, UNCHANGED <<tx, w, row, rowLink, put>>,
           sweep'.at # "idle" => sweep'.digest \in Digests
    PROVE  WellFormed'
BY Zenon DEF WellFormed

LEMMA HoldersFrame ==
    ASSUME HoldersAreDone, UNCHANGED <<row, put>>,
           \A d \in Digests : entry'[d] \in {entry[d], NoUpload}
    PROVE  HoldersAreDone'
<1>1. \A d \in Digests : \A u \in Uploads : entry'[d] = u => entry[d] = u
  BY Zenon
<1>2. \A d, e \in Digests : entry'[d] = entry'[e] /\ entry'[d] # NoUpload =>
         entry[d] = entry[e] /\ entry[d] # NoUpload
  BY Zenon
<1>3. \A d \in Digests : \A u \in Uploads : entry'[d] = u => row'[u] = "gone" /\ put'[u].at = "idle"
  BY Zenon, <1>1 DEF HoldersAreDone
<1>4. \A d, e \in Digests : entry'[d] = entry'[e] /\ entry'[d] # NoUpload => d = e
  BY Zenon, <1>2 DEF HoldersAreDone
<1> QED
  BY Zenon, <1>3, <1>4 DEF HoldersAreDone

LEMMA DiscardedKept ==
    ASSUME DiscardedHoldNothing,
           \A t \in Txs : \A u \in Uploads :
              /\ w'[t].mark = u => w[t].mark = u
              /\ w'[t].unstage = u => w[t].unstage = u /\ w'[t].mark = w[t].mark
              /\ tx'[t].at = "after" => tx[t].at = "after" /\ tx'[t].upload = tx[t].upload,
           \A t \in Txs : \A u \in Uploads :
              w[t].mark = u \/ w[t].unstage = u \/ (tx[t].at = "after" /\ tx[t].upload = u) =>
                 (Unnamed(u) => Unnamed(u)'),
           \A u \in Uploads : row'[u] = row[u] \/ (row[u] # "unused" /\ row'[u] = "gone")
    PROVE  DiscardedHoldNothing'
<1>1. ASSUME NEW t \in Txs, NEW u \in Uploads, w'[t].mark = u
      PROVE  Unnamed(u)' /\ row'[u] # "unused"
  <2>1. w[t].mark = u
    BY Zenon, <1>1
  <2>2. Unnamed(u) /\ row[u] # "unused"
    BY Zenon, <2>1 DEF DiscardedHoldNothing
  <2> QED
    BY Zenon, <2>1, <2>2
<1>2. ASSUME NEW t \in Txs, NEW u \in Uploads, w'[t].unstage = u
      PROVE  Unnamed(u)' /\ row'[u] # "unused" /\ (row'[u] = "live" => w'[t].mark = u)
  <2>1. w[t].unstage = u /\ w'[t].mark = w[t].mark
    BY Zenon, <1>2
  <2>2. Unnamed(u) /\ row[u] # "unused" /\ (row[u] = "live" => w[t].mark = u)
    BY Zenon, <2>1 DEF DiscardedHoldNothing
  <2> QED
    BY Zenon, <2>1, <2>2
<1>3. ASSUME NEW t \in Txs, NEW u \in Uploads, tx'[t].at = "after", tx'[t].upload = u
      PROVE  Unnamed(u)' /\ row'[u] \in {"discarded", "gone"}
  <2>1. tx[t].at = "after" /\ tx[t].upload = u
    BY Zenon, <1>3
  <2>2. Unnamed(u) /\ row[u] \in {"discarded", "gone"}
    BY Zenon, <2>1 DEF DiscardedHoldNothing
  <2>3. Unnamed(u)'
    BY Zenon, <2>1, <2>2
  <2> QED
    BY <2>2, <2>3
<1> QED
  BY <1>1, <1>2, <1>3 DEF DiscardedHoldNothing

LEMMA DiscardedFrame ==
    ASSUME DiscardedHoldNothing, UNCHANGED <<tx, w, row>>,
           \A d \in Digests : entry'[d] \in {entry[d], NoUpload}
    PROVE  DiscardedHoldNothing'
<1>1. \A u \in Uploads : Unnamed(u) => Unnamed(u)'
  BY Zenon DEF Unnamed
<1> QED
  BY Zenon, <1>1, DiscardedKept

LEMMA FreshKept ==
    ASSUME IDsAreFresh,
           \A t \in Txs : \A u \in Uploads :
              (w'[t].insert = u => w[t].insert = u) /\ (tx'[t].upload = u => tx[t].upload = u),
           \A u \in Uploads : row'[u] = "unused" <=> row[u] = "unused",
           \A l \in Links : \A u \in Uploads : pendingUpload'[l] = u => row[u] # "unused",
           \A u \in Uploads :
              /\ put'[u].at # "idle" => row[u] # "unused"
              /\ \A v \in Uploads : put'[u].upload = v => row[v] # "unused"
    PROVE  IDsAreFresh'
<1>1. ASSUME NEW t \in Txs, NEW u \in Uploads, w'[t].insert = u
      PROVE  row'[u] = "unused" /\ \A x \in Txs \ {t} : w'[x].insert # u
  <2>1. w[t].insert = u
    BY Zenon, <1>1
  <2>2. row[u] = "unused" /\ \A x \in Txs \ {t} : w[x].insert # u
    BY <2>1 DEF IDsAreFresh
  <2> QED
    BY Zenon, <2>2
<1>2. ASSUME NEW t \in Txs, NEW u \in Uploads, tx'[t].upload = u
      PROVE  row'[u] # "unused"
  <2>1. tx[t].upload = u
    BY Zenon, <1>2
  <2> QED
    BY Zenon, <2>1 DEF IDsAreFresh
<1>3. /\ \A l \in Links : \A u \in Uploads : pendingUpload'[l] = u => row'[u] # "unused"
      /\ \A u \in Uploads :
          /\ put'[u].at # "idle" => row'[u] # "unused"
          /\ \A v \in Uploads : put'[u].upload = v => row'[v] # "unused"
  BY Zenon
<1> QED
  BY <1>1, <1>2, <1>3 DEF IDsAreFresh

LEMMA FreshFrame ==
    ASSUME IDsAreFresh, UNCHANGED <<tx, w, row, put, pendingUpload>>
    PROVE  IDsAreFresh'
BY Zenon DEF IDsAreFresh

LEMMA LocksFrame ==
    ASSUME LocksProtect, WellFormed, UNCHANGED <<tx, w>>,
           \A d \in Digests : \A t \in Txs : blobLock[d] = t /\ Held(d) => blobLock'[d] = t /\ Held(d)',
           sweep'.at \in {"delete", "commit"} =>
              blobLock'[sweep'.digest] = Sweep /\ \A s \in Spaces : accepted'[sweep'.digest][s] = NoLink
    PROVE  LocksProtect'
<1>1. ASSUME NEW t \in Txs, tx[t].op = "accept", tx[t].at \in {"space", "commit"}
      PROVE  blobLock'[tx[t].digest] = t /\ Held(tx[t].digest)'
  <2>1. tx[t].digest \in Digests /\ blobLock[tx[t].digest] = t /\ Held(tx[t].digest)
    BY Zenon, <1>1 DEF WellFormed, LocksProtect
  <2> QED
    BY Zenon, <2>1
<1> QED
  BY Zenon, <1>1 DEF LocksProtect

-----------------------------------------------------------------------------
\* A step of a handler before its commit, which changes only its own state
\* and takes locks, keeps the invariant if what it carries is sound.
LEMMA HandlerStep ==
    ASSUME IInv, NEW t \in Txs, NEW r, NEW x, Sound(t, r, x), LocksTaken,
           tx' = [tx EXCEPT ![t] = r], w' = [w EXCEPT ![t] = x],
           UNCHANGED <<records, bytes, put, sweep>>
    PROVE  IInv'
<1> USE DEF IInv, AcceptedHeldInv
<1>1. TypeOK'
  BY DEF TypeOK, Sound, LocksTaken, records, bytes
<1>2. WellFormed'
  BY DEF TypeOK, Sound, WellFormed, records
<1>3. HoldersAreDone'
  BY DEF HoldersAreDone, records
<1>4. DiscardedHoldNothing'
  BY DEF TypeOK, Sound, DiscardedHoldNothing, Unnamed, records
<1>5. IDsAreFresh'
  BY DEF TypeOK, Sound, IDsAreFresh, records
<1>6. LocksProtect'
  BY DEF TypeOK, Sound, LocksTaken, LocksProtect, WellFormed, Held, records, bytes
<1>7. AcceptedHeld' /\ \A u \in Uploads : put'[u].at # "undo"
  BY DEF AcceptedHeld, Held, records, bytes
<1> QED
  BY <1>1, <1>2, <1>3, <1>4, <1>5, <1>6, <1>7

-----------------------------------------------------------------------------
(* Records built from parts of the right types.                            *)

LEMMA StartedType ==
    ASSUME NEW op \in Ops, NEW at \in Points, NEW l \in Links \cup {NoLink},
           NEW s \in Spaces \cup {NoLink}, NEW d \in Digests \cup {NoDigest},
           NEW u \in Uploads \cup {NoUpload}
    PROVE  Started(op, at, l, s, d, u) \in TxRecord
BY DEF Started, TxRecord

LEMMA MovedType ==
    ASSUME NEW r \in TxRecord, NEW at \in Points
    PROVE  /\ [r EXCEPT !.at = at] \in TxRecord
           /\ [r EXCEPT !.at = at].at = at
           /\ [r EXCEPT !.at = at].op = r.op
           /\ [r EXCEPT !.at = at].link = r.link
           /\ [r EXCEPT !.at = at].space = r.space
           /\ [r EXCEPT !.at = at].digest = r.digest
           /\ [r EXCEPT !.at = at].upload = r.upload
BY DEF TxRecord

LEMMA InsertType ==
    ASSUME NEW x \in Writes, NEW u \in Uploads
    PROVE  /\ [x EXCEPT !.insert = u] \in Writes
           /\ [x EXCEPT !.insert = u].insert = u
           /\ [x EXCEPT !.insert = u].mark = x.mark
           /\ [x EXCEPT !.insert = u].unstage = x.unstage
           /\ [x EXCEPT !.insert = u].acceptTo = x.acceptTo
BY DEF Writes

LEMMA NoWritesType ==
    /\ NoWrites \in Writes
    /\ NoWrites.insert = NoUpload /\ NoWrites.mark = NoUpload
    /\ NoWrites.unstage = NoUpload /\ NoWrites.acceptTo = NoLink
BY DEF NoWrites, Writes

\* What the invariant says of one transaction.
LEMMA InFlight ==
    ASSUME IInv, NEW t \in Txs
    PROVE  /\ tx[t] \in TxRecord /\ w[t] \in Writes
           /\ tx[t].upload # NoUpload => tx[t].upload \in Uploads /\ row[tx[t].upload] # "unused"
           /\ tx[t].at # "commit" => w[t] = NoWrites
           /\ tx[t].op = "accept" => tx[t].digest \in Digests
           /\ tx[t].op = "accept" /\ tx[t].at \in {"space", "commit"} =>
                 blobLock[tx[t].digest] = t /\ Held(tx[t].digest)
           /\ tx[t].op \in {"allocate", "reject", "expire"} => tx[t].link \in Links
           /\ tx[t].at = "body" => tx[t].upload # NoUpload
<1>1. tx[t] \in TxRecord /\ w[t] \in Writes
  BY DEF IInv, TypeOK
<1>2. tx[t].upload # NoUpload => tx[t].upload \in Uploads
  BY <1>1 DEF TxRecord
<1>3. tx[t].upload \in Uploads => row[tx[t].upload] # "unused"
  BY DEF IInv, AcceptedHeldInv, IDsAreFresh
<1>4. WellFormed /\ LocksProtect
  BY DEF IInv, AcceptedHeldInv
<1> QED
  BY <1>1, <1>2, <1>3, <1>4 DEF WellFormed, LocksProtect

\* A transaction that decides on the writes x.
LEMMA DecideStep ==
    ASSUME IInv, NEW t \in Txs, NEW x \in Writes, Decide(t, x), LocksTaken,
           tx[t].op = "accept" => blobLock'[tx[t].digest] = t /\ Held(tx[t].digest),
           x.insert # NoUpload => /\ tx[t].link \in Links /\ row[x.insert] = "unused"
                                  /\ \A v \in Txs \ {t} : w[v].insert # x.insert,
           x.mark # NoUpload => Unnamed(x.mark) /\ row[x.mark] # "unused",
           x.unstage # NoUpload => /\ Unnamed(x.unstage) /\ row[x.unstage] # "unused"
                                   /\ row[x.unstage] = "live" => x.mark = x.unstage,
           x.acceptTo # NoLink => tx[t].op = "accept" /\ x.acceptRow = tx[t].digest,
           UNCHANGED <<records, bytes, put, sweep>>
    PROVE  IInv'
<1> DEFINE r == [tx[t] EXCEPT !.at = "commit"]
<1>1. tx' = [tx EXCEPT ![t] = r] /\ w' = [w EXCEPT ![t] = x]
  BY DEF Decide
<1>2. /\ r \in TxRecord /\ r.at = "commit" /\ r.op = tx[t].op /\ r.link = tx[t].link
      /\ r.digest = tx[t].digest /\ r.upload = tx[t].upload
  BY Zenon, InFlight, MovedType DEF Points
<1> HIDE DEF r
<1>3. Sound(t, r, x)
  BY <1>2, InFlight DEF Sound
<1> QED
  BY Zenon, <1>1, <1>3, HandlerStep

-----------------------------------------------------------------------------
(* The handlers.                                                           *)

LEMMA AllocateStep ==
    ASSUME IInv, NEW t \in Txs, NEW l \in Links, Allocate(t, l)
    PROVE  IInv'
<1> DEFINE r == Started("allocate", "space", l, SpaceOf[l], DigestOf[l], NoUpload)
<1>1. w[t] = NoWrites /\ w' = [w EXCEPT ![t] = NoWrites]
  BY DEF Allocate, IInv, TypeOK, AcceptedHeldInv, WellFormed
<1>2. Sound(t, r, NoWrites)
  BY Zenon, NoWritesType, StartedType DEF Sound, Started, Ops, Points
<1>3. LocksTaken
  BY DEF Allocate, LockBlob, LocksTaken, IInv, TypeOK, Holders
<1> QED
  BY Zenon, <1>1, <1>2, <1>3, HandlerStep DEF Allocate

LEMMA AllocateUnhashedStep ==
    ASSUME IInv, NEW t \in Txs, NEW l \in Links, AllocateUnhashed(t, l)
    PROVE  IInv'
<1> DEFINE r == Started("allocateUnhashed", "commit", l, SpaceOf[l], NoDigest, NoUpload)
<1>1. r \in TxRecord
  BY StartedType DEF Ops, Points
<1>2. LocksTaken
  BY Zenon DEF AllocateUnhashed, LockPending, LocksTaken, IInv, TypeOK, Holders
<1>3. /\ tx' = [tx EXCEPT ![t] = r]
      /\ \/ w' = [w EXCEPT ![t] = NoWrites]
         \/ \E u \in Uploads :
               /\ Fresh(u)
               /\ w' = [w EXCEPT ![t] = [NoWrites EXCEPT !.insert = u, !.pending = "make"]]
  BY Zenon DEF AllocateUnhashed
<1>4. CASE w' = [w EXCEPT ![t] = NoWrites]
  <2>1. Sound(t, r, NoWrites)
    BY <1>1, NoWritesType DEF Sound, Started
  <2> QED
    BY Zenon, <1>2, <1>3, <1>4, <2>1, HandlerStep DEF AllocateUnhashed
<1>5. ASSUME NEW u \in Uploads, Fresh(u),
             w' = [w EXCEPT ![t] = [NoWrites EXCEPT !.insert = u, !.pending = "make"]]
      PROVE  IInv'
  <2> DEFINE x == [NoWrites EXCEPT !.insert = u, !.pending = "make"]
  <2>1. /\ x \in Writes /\ x.insert = u /\ x.mark = NoUpload /\ x.unstage = NoUpload
        /\ x.acceptTo = NoLink
    BY Zenon DEF NoWrites, Writes
  <2>2. r.link = l /\ r.at = "commit" /\ r.op = "allocateUnhashed" /\ r.upload = NoUpload
    BY DEF Started
  <2> HIDE DEF x, r
  <2>3. Sound(t, r, x)
    BY <1>1, <1>5, <2>1, <2>2 DEF Sound, Fresh
  <2> QED
    BY Zenon, <1>2, <1>3, <1>5, <2>3, HandlerStep DEF AllocateUnhashed, x
<1> QED
  BY Zenon, <1>3, <1>4, <1>5

LEMMA AllocateBodyStep ==
    ASSUME IInv, NEW t \in Txs, AllocateBody(t)
    PROVE  IInv'
<1> DEFINE put_ == [NoWrites EXCEPT !.allocRow = tx[t].digest, !.allocTo = tx[t].link]
<1>1. /\ tx[t] \in TxRecord /\ tx[t].op = "allocate" /\ tx[t].at = "space"
      /\ tx[t].link \in Links
      /\ tx[t].upload # NoUpload => row[tx[t].upload] # "unused"
  BY Zenon, InFlight DEF AllocateBody, InTx
<1>2. LocksTaken
  BY Zenon DEF AllocateBody, Lock, LocksTaken, IInv, TypeOK, Holders
<1>3. /\ put_ \in Writes /\ put_.insert = NoUpload /\ put_.mark = NoUpload
      /\ put_.unstage = NoUpload /\ put_.acceptTo = NoLink
  BY Zenon, <1>1 DEF Writes, NoWrites, TxRecord
<1>4. \/ Decide(t, NoWrites) \/ Decide(t, put_)
      \/ \E u \in Uploads : Fresh(u) /\ Decide(t, [put_ EXCEPT !.insert = u])
  BY Zenon DEF AllocateBody
<1> HIDE DEF put_
<1>5. ASSUME NEW x \in Writes, x.mark = NoUpload, x.unstage = NoUpload, x.acceptTo = NoLink,
             x.insert = NoUpload \/ (x.insert \in Uploads /\ Fresh(x.insert)), Decide(t, x)
      PROVE  IInv'
  BY Zenon, <1>1, <1>2, <1>5, DecideStep DEF Fresh, AllocateBody
<1> QED
  BY Zenon, <1>3, <1>4, <1>5, NoWritesType, InsertType

LEMMA AcceptResolveStep ==
    ASSUME IInv, NEW t \in Txs, NEW l \in Links, AcceptResolve(t, l)
    PROVE  IInv'
<1> DEFINE r == Started("accept", "link", l, SpaceOf[l], pendingDigest[l], NoUpload)
<1>1. w' = [w EXCEPT ![t] = NoWrites] /\ tx' = [tx EXCEPT ![t] = r]
  BY InFlight DEF AcceptResolve, IInv, TypeOK
<1>2. pendingDigest[l] \in Digests
  BY DEF AcceptResolve, IInv, TypeOK
<1>3. Sound(t, r, NoWrites)
  BY Zenon, <1>2, NoWritesType, StartedType DEF Sound, Started, Ops, Points
<1>4. LocksTaken
  BY DEF AcceptResolve, LocksTaken, IInv, TypeOK, advisory
<1> QED
  BY Zenon, <1>1, <1>3, <1>4, HandlerStep DEF AcceptResolve

LEMMA AcceptStep ==
    ASSUME IInv, NEW t \in Txs, NEW l \in Links \cup {NoLink}, NEW d \in Digests,
           NEW s \in Spaces, Accept(t, l, d, s)
    PROVE  IInv'
<1> DEFINE r == Started("accept", "space", l, s, d, NoUpload)
<1>1. w' = [w EXCEPT ![t] = NoWrites] /\ tx' = [tx EXCEPT ![t] = r]
  BY InFlight DEF Accept, IInv, TypeOK
<1>2. LocksTaken
  BY DEF Accept, LockBlob, LocksTaken, IInv, TypeOK, Holders
<1>3. blobLock'[d] = t /\ Held(d)
  BY DEF Accept, LockBlob, IInv, TypeOK
<1>4. Sound(t, r, NoWrites)
  BY Zenon, <1>3, NoWritesType, StartedType DEF Sound, Started, Ops, Points
<1> QED
  BY Zenon, <1>1, <1>2, <1>4, HandlerStep DEF Accept

\* The steps in which a request only takes a lock and goes on.
LEMMA MoveStep ==
    ASSUME IInv, NEW t \in Txs, NEW at \in Points \ {"commit", "after"},
           tx' = [tx EXCEPT ![t].at = at], tx[t].at # "commit", LocksTaken,
           tx[t].op = "accept" /\ at = "space" =>
               blobLock'[tx[t].digest] = t /\ Held(tx[t].digest),
           at = "body" => tx[t].upload # NoUpload,
           UNCHANGED <<records, bytes, w, put, sweep>>
    PROVE  IInv'
<1> DEFINE r == [tx[t] EXCEPT !.at = at]
<1>1. w' = [w EXCEPT ![t] = NoWrites] /\ tx' = [tx EXCEPT ![t] = r]
  BY InFlight DEF IInv, TypeOK
<1>2. Sound(t, r, NoWrites)
  BY InFlight, MovedType, NoWritesType DEF Sound
<1> QED
  BY Zenon, <1>1, <1>2, HandlerStep

LEMMA AcceptLockPendingStep ==
    ASSUME IInv, NEW t \in Txs, AcceptLockPending(t)
    PROVE  IInv'
<1>1. LocksTaken
  BY Zenon DEF AcceptLockPending, LockPending, LocksTaken, IInv, TypeOK, Holders
<1> QED
  BY Zenon, <1>1, MoveStep DEF AcceptLockPending, InTx, Points

LEMMA AcceptLockBlobStep ==
    ASSUME IInv, NEW t \in Txs, AcceptLockBlob(t)
    PROVE  IInv'
<1>1. LocksTaken
  BY Zenon DEF AcceptLockBlob, LockBlob, LocksTaken, IInv, TypeOK, Holders
<1>2. blobLock'[tx[t].digest] = t
  BY InFlight DEF AcceptLockBlob, InTx, LockBlob, IInv, TypeOK
<1> QED
  BY Zenon, <1>1, <1>2, MoveStep DEF AcceptLockBlob, InTx, Points

LEMMA AcceptBodyStep ==
    ASSUME IInv, NEW t \in Txs, AcceptBody(t)
    PROVE  IInv'
<1>1. /\ tx[t].op = "accept" /\ tx[t].at = "space" /\ tx[t] \in TxRecord
      /\ tx[t].digest \in Digests
  BY Zenon, InFlight DEF AcceptBody, InTx
<1>2. LocksTaken /\ blobLock' = blobLock
  BY Zenon DEF AcceptBody, Lock, LocksTaken, IInv, TypeOK, Holders
<1> DEFINE replaced == tx[t].link # NoLink /\ alloc[tx[t].digest][tx[t].space] \notin {NoLink, tx[t].link}
           a == IF tx[t].link = NoLink THEN Unidentified ELSE tx[t].link
           m == IF replaced THEN tx[t].digest ELSE NoDigest
           n == IF replaced THEN tx[t].link ELSE NoLink
           x == [NoWrites EXCEPT !.acceptRow = tx[t].digest, !.acceptTo = a,
                                 !.enqueue = tx[t].digest, !.allocRow = m, !.allocTo = n]
<1>3. /\ Decide(t, x)
      /\ a \in Links \cup {NoLink, Unidentified} /\ m \in Digests \cup {NoDigest}
      /\ n \in Links \cup {NoLink}
  BY Zenon, <1>1 DEF AcceptBody, TxRecord
<1> HIDE DEF a, m, n
<1>4. /\ x \in Writes /\ x.insert = NoUpload /\ x.mark = NoUpload /\ x.unstage = NoUpload
      /\ x.acceptRow = tx[t].digest
  BY Zenon, <1>1, <1>3 DEF NoWrites, Writes
<1> HIDE DEF x
<1>5. blobLock[tx[t].digest] = t /\ Held(tx[t].digest)
  BY Zenon, <1>1, InFlight
<1>6. UNCHANGED <<records, bytes, put, sweep>>
  BY Zenon DEF AcceptBody
<1> QED
  BY Zenon, <1>1, <1>2, <1>3, <1>4, <1>5, <1>6, DecideStep

LEMMA ReleaseAllocationStep ==
    ASSUME IInv, NEW t \in Txs, NEW l \in Links, NEW op \in {"reject", "expire"},
           ReleaseAllocation(t, op, l)
    PROVE  IInv'
<1>1. PICK at \in {"space", "body"}, d \in Digests \cup {NoDigest}, u \in Uploads \cup {NoUpload} :
        /\ tx' = [tx EXCEPT ![t] = Started(op, at, l, SpaceOf[l], d, u)]
        /\ u # NoUpload => u = pendingUpload[l]
        /\ at = "body" => u # NoUpload
  <2>1. CASE Pending(l)
    <3> DEFINE at == IF pendingDigest[l] = NoDigest THEN "body" ELSE "space"
    <3>1. tx' = [tx EXCEPT ![t] =
                    Started(op, at, l, SpaceOf[l], pendingDigest[l], pendingUpload[l])]
      BY <2>1 DEF ReleaseAllocation
    <3>2. /\ at \in {"space", "body"} /\ pendingDigest[l] \in Digests \cup {NoDigest}
          /\ pendingUpload[l] \in Uploads \cup {NoUpload} /\ pendingUpload[l] # NoUpload
      BY <2>1 DEF IInv, TypeOK, Pending
    <3> QED
      BY Zenon, <3>1, <3>2
  <2>2. CASE ~Pending(l)
    <3>1. PICK d \in RowsOf(l) : tx' = [tx EXCEPT ![t] =
                                    Started(op, "space", l, SpaceOf[l], d, NoUpload)]
      BY <2>2 DEF ReleaseAllocation
    <3> QED
      BY Zenon, <3>1 DEF RowsOf
  <2> QED
    BY <2>1, <2>2
<1> DEFINE r == Started(op, at, l, SpaceOf[l], d, u)
<1>2. w' = [w EXCEPT ![t] = NoWrites]
  BY InFlight DEF ReleaseAllocation, IInv, TypeOK
<1>3. LocksTaken
  BY DEF ReleaseAllocation, LockPending, LocksTaken, IInv, TypeOK, Holders
<1>4. u # NoUpload => row[u] # "unused"
  BY <1>1 DEF IInv, AcceptedHeldInv, IDsAreFresh
<1>5. r \in TxRecord
  BY StartedType DEF Ops, Points
<1>6. Sound(t, r, NoWrites)
  BY <1>1, <1>4, <1>5, NoWritesType DEF Sound, Started
<1> QED
  BY Zenon, <1>1, <1>2, <1>3, <1>6, HandlerStep DEF ReleaseAllocation

LEMMA ReleaseLockSpaceStep ==
    ASSUME IInv, NEW t \in Txs, ReleaseLockSpace(t)
    PROVE  IInv'
<1>1. LocksTaken
  BY Zenon DEF ReleaseLockSpace, Lock, LocksTaken, IInv, TypeOK, Holders
<1>2. tx[t].op \in {"reject", "expire"} /\ tx[t].at = "space" /\ tx[t].upload # NoUpload
  BY DEF ReleaseLockSpace
<1>3. CASE tx' = [tx EXCEPT ![t].at = "body"] /\ UNCHANGED w
  BY Zenon, <1>1, <1>2, <1>3, MoveStep DEF ReleaseLockSpace, Points
<1>4. CASE Decide(t, [NoWrites EXCEPT !.pending = "drop"])
  <2> DEFINE x == [NoWrites EXCEPT !.pending = "drop"]
  <2>1. /\ x \in Writes /\ x.insert = NoUpload /\ x.mark = NoUpload /\ x.unstage = NoUpload
        /\ x.acceptTo = NoLink
    BY DEF NoWrites, Writes
  <2> HIDE DEF x
  <2>2. Decide(t, x)
    BY <1>4 DEF x
  <2> QED
    BY <1>1, <1>2, <2>1, <2>2, DecideStep DEF ReleaseLockSpace
<1> QED
  BY <1>3, <1>4 DEF ReleaseLockSpace

LEMMA HandOverType ==
    ASSUME NEW d, NEW l, NEW heir \in handOverClaim(d, l)
    PROVE  heir \in Links \cup {NoLink}
BY DEF handOverClaim, Heirs

LEMMA ReleasePendingBodyStep ==
    ASSUME IInv, NEW t \in Txs, ReleasePendingBody(t)
    PROVE  IInv'
<1> DEFINE u == tx[t].upload
           x(a, b, q) == [NoWrites EXCEPT !.pending = "drop", !.mark = MarkDiscarded(u),
                             !.unstage = DropData(u), !.allocRow = a, !.allocTo = b, !.queue = q]
<1>1. /\ tx[t] \in TxRecord /\ tx[t].op \in {"reject", "expire"} /\ tx[t].at = "body"
      /\ tx[t].link \in Links /\ u \in Uploads /\ row[u] # "unused"
  BY Zenon, InFlight DEF ReleasePendingBody
<1>2. LocksTaken
  <2>1. UNCHANGED <<linkLock, blobLock>>
    BY DEF ReleasePendingBody
  <2>2. spaceLock' \in [Digests -> [Spaces -> Holders]]
    <3>1. CASE pendingDigest[tx[t].link] = NoDigest
      BY <3>1 DEF ReleasePendingBody, IInv, TypeOK
    <3>2. CASE pendingDigest[tx[t].link] # NoDigest
      <4>1. Lock(t, pendingDigest[tx[t].link], tx[t].space)
        BY <3>2 DEF ReleasePendingBody
      <4> QED
        BY Zenon, <4>1 DEF Lock, IInv, TypeOK, Holders
    <3> QED
      BY <3>1, <3>2
  <2> QED
    BY <2>1, <2>2 DEF LocksTaken, IInv, TypeOK
<1>3. PICK a \in Digests \cup {NoDigest}, b \in Links \cup {NoLink},
           q \in Digests \cup {NoDigest} : Decide(t, x(a, b, q))
  <2> DEFINE l == tx[t].link
             d == pendingDigest[l]
             holds == HoldsClaim(l, d)
  <2>1. d \in Digests \cup {NoDigest}
    BY <1>1 DEF IInv, TypeOK
  <2>2. PICK heir \in handOverClaim(d, l) :
          Decide(t, x(IF holds THEN d ELSE NoDigest, IF holds THEN heir ELSE NoLink,
                      IF \/ d = NoDigest
                         \/ /\ tx[t].op = "reject"
                            /\ StillClaimed(d, tx[t].space,
                                            IF holds THEN heir ELSE alloc[d][tx[t].space],
                                            accepted[d][tx[t].space])
                      THEN NoDigest ELSE d))
    BY Zenon DEF ReleasePendingBody
  <2>3. heir \in Links \cup {NoLink}
    BY HandOverType
  <2> HIDE DEF x
  <2> QED
    BY <2>1, <2>2, <2>3
<1>4. /\ MarkDiscarded(u) \in Uploads \cup {NoUpload} /\ DropData(u) \in Uploads \cup {NoUpload}
      /\ MarkDiscarded(u) # NoUpload => MarkDiscarded(u) = u /\ row[u] = "live"
      /\ DropData(u) # NoUpload => DropData(u) = u /\ Unnamed(u)
      /\ row[u] = "live" => MarkDiscarded(u) = u
  BY <1>1 DEF MarkDiscarded, DropData
<1>5. row[u] = "live" => Unnamed(u)
  BY Zenon, <1>1 DEF IInv, AcceptedHeldInv, HoldersAreDone, Unnamed
<1>6. /\ x(a, b, q) \in Writes
      /\ x(a, b, q).insert = NoUpload /\ x(a, b, q).acceptTo = NoLink
      /\ x(a, b, q).mark = MarkDiscarded(u) /\ x(a, b, q).unstage = DropData(u)
  BY Zenon, <1>4 DEF NoWrites, Writes
<1> HIDE DEF x
<1> QED
  BY Zenon, <1>1, <1>2, <1>3, <1>4, <1>5, <1>6, DecideStep DEF ReleasePendingBody

LEMMA RejectBodyStep ==
    ASSUME IInv, NEW t \in Txs, RejectBody(t)
    PROVE  IInv'
<1>1. tx[t].op = "reject" /\ tx[t] \in TxRecord /\ tx[t].link \in Links
  BY Zenon, InFlight DEF RejectBody, InTx
<1>2. LocksTaken
  BY Zenon DEF RejectBody, Lock, LocksTaken, IInv, TypeOK, Holders
<1>3. CASE Decide(t, NoWrites)
  BY Zenon, <1>1, <1>2, <1>3, NoWritesType, DecideStep DEF RejectBody
<1>4. CASE ReleaseByTask(t, tx[t].link, tx[t].digest, tx[t].space, NoWrites, Decide)
  <2>1. PICK r \in Digests, heir \in Links \cup {NoLink}, q \in Digests \cup {NoDigest} :
          Decide(t, [NoWrites EXCEPT !.allocRow = r, !.allocTo = heir, !.queue = q])
    BY Zenon, <1>1, <1>4, HandOverType DEF ReleaseByTask, RowsOf, TxRecord
  <2> DEFINE x == [NoWrites EXCEPT !.allocRow = r, !.allocTo = heir, !.queue = q]
  <2>2. /\ x \in Writes /\ x.insert = NoUpload /\ x.mark = NoUpload
        /\ x.unstage = NoUpload /\ x.acceptTo = NoLink
    BY Zenon DEF NoWrites, Writes
  <2> HIDE DEF x
  <2>3. Decide(t, x)
    BY <2>1 DEF x
  <2> QED
    BY Zenon, <1>1, <1>2, <2>2, <2>3, DecideStep DEF RejectBody
<1> QED
  BY Zenon, <1>3, <1>4 DEF RejectBody

\* A transaction ends with nothing to write, and its locks with it.
LEMMA TxEnds ==
    ASSUME IInv, NEW t \in Txs,
           tx' = [tx EXCEPT ![t] = IdleTx], w' = [w EXCEPT ![t] = NoWrites],
           linkLock' \in [Links -> Holders], blobLock' \in [Digests -> Holders],
           spaceLock' \in [Digests -> [Spaces -> Holders]],
           \A d \in Digests : \A h \in Holders \ {t} : blobLock[d] = h => blobLock'[d] = h,
           atKey' = atKey, staged' \in [Uploads -> Digests \cup {NoDigest}],
           \A d \in Digests : Held(d) => Held(d)',
           UNCHANGED <<records, put, sweep>>
    PROVE  IInv'
<1> USE DEF IInv, AcceptedHeldInv
<1>1. /\ IdleTx \in TxRecord /\ IdleTx.op = "none" /\ IdleTx.at = "idle"
      /\ IdleTx.upload = NoUpload
  BY DEF IdleTx, TxRecord, Ops, Points
<1>2. /\ tx'[t] = IdleTx /\ w'[t] = NoWrites
      /\ \A v \in Txs \ {t} : tx'[v] = tx[v] /\ w'[v] = w[v]
  BY Zenon DEF TypeOK
<1>3. UNCHANGED <<row, rowLink, entry, accepted, pendingUpload>>
  BY Zenon DEF records
<1>4. TypeOK'
  BY Zenon, <1>1, NoWritesType DEF TypeOK, records
<1>5. WellFormed'
  <2>1. ASSUME NEW v \in Txs
        PROVE  /\ tx'[v].at # "commit" => w'[v] = NoWrites
               /\ w'[v].insert # NoUpload => tx'[v].link \in Links
               /\ tx'[v].op = "accept" => tx'[v].digest \in Digests
               /\ tx'[v].op \in {"allocate", "reject", "expire"} => tx'[v].link \in Links
               /\ tx'[v].at = "body" => tx'[v].upload # NoUpload
    <3>1. CASE v = t
      BY Zenon, <1>1, <1>2, <3>1, NoWritesType
    <3>2. CASE v # t
      BY Zenon, <1>2, <3>2 DEF WellFormed
    <3> QED
      BY Zenon, <3>1, <3>2
  <2> QED
    BY Zenon, <1>3, <2>1 DEF WellFormed
<1>6. HoldersAreDone'
  BY Zenon, <1>3, HoldersFrame
<1>7. DiscardedHoldNothing'
  <2>1. \A u \in Uploads : Unnamed(u) => Unnamed(u)'
    BY Zenon, <1>3 DEF Unnamed
  <2>2. \A u \in Uploads : IdleTx.at # "after" /\ NoWrites.mark # u /\ NoWrites.unstage # u
    BY Zenon, <1>1, NoWritesType
  <2>3. ASSUME NEW v \in Txs, NEW u \in Uploads
        PROVE  /\ w'[v].mark = u => w[v].mark = u
               /\ w'[v].unstage = u => w[v].unstage = u /\ w'[v].mark = w[v].mark
               /\ tx'[v].at = "after" => tx[v].at = "after" /\ tx'[v].upload = tx[v].upload
    <3>1. CASE v = t
      BY Zenon, <1>2, <2>2, <3>1
    <3>2. CASE v # t
      BY Zenon, <1>2, <3>2
    <3> QED
      BY Zenon, <3>1, <3>2
  <2> QED
    BY Zenon, <1>3, <2>1, <2>3, DiscardedKept
<1>8. IDsAreFresh'
  <2>1. \A u \in Uploads : IdleTx.upload # u /\ NoWrites.insert # u
    BY Zenon, <1>1, NoWritesType
  <2>2. ASSUME NEW v \in Txs, NEW u \in Uploads
        PROVE  (w'[v].insert = u => w[v].insert = u) /\ (tx'[v].upload = u => tx[v].upload = u)
    <3>1. CASE v = t
      BY Zenon, <1>2, <2>1, <3>1
    <3>2. CASE v # t
      BY Zenon, <1>2, <3>2
    <3> QED
      BY Zenon, <3>1, <3>2
  <2>3. /\ \A l \in Links : \A u \in Uploads : pendingUpload'[l] = u => row[u] # "unused"
        /\ \A u \in Uploads :
            /\ put'[u].at # "idle" => row[u] # "unused"
            /\ \A v \in Uploads : put'[u].upload = v => row[v] # "unused"
    BY <1>3 DEF IDsAreFresh
  <2> QED
    BY Zenon, <1>3, <2>2, <2>3, FreshKept
<1>9. LocksProtect'
  <2>1. ASSUME NEW v \in Txs, tx'[v].op = "accept", tx'[v].at \in {"space", "commit"}
        PROVE  blobLock'[tx'[v].digest] = v /\ Held(tx[v].digest)'
    <3>1. v # t
      BY Zenon, <1>1, <1>2, <2>1
    <3>2. /\ tx'[v] = tx[v] /\ tx[v].digest \in Digests /\ v \in Holders \ {t}
          /\ blobLock[tx[v].digest] = v /\ Held(tx[v].digest)
      BY Zenon, <1>2, <2>1, <3>1 DEF WellFormed, LocksProtect, Holders
    <3> QED
      BY Zenon, <3>2
  <2>2. ASSUME NEW v \in Txs, w'[v].acceptTo # NoLink
        PROVE  tx'[v].op = "accept" /\ w'[v].acceptRow = tx'[v].digest
    <3>1. v # t
      BY Zenon, <1>2, <2>2, NoWritesType
    <3>2. tx'[v] = tx[v] /\ w'[v] = w[v]
      BY Zenon, <1>2, <3>1
    <3>3. w[v].acceptTo # NoLink => tx[v].op = "accept" /\ w[v].acceptRow = tx[v].digest
      BY Zenon DEF LocksProtect
    <3> QED
      BY Zenon, <2>2, <3>2, <3>3
  <2>3. ASSUME sweep'.at \in {"delete", "commit"}
        PROVE  /\ blobLock'[sweep'.digest] = Sweep
               /\ \A s \in Spaces : accepted'[sweep'.digest][s] = NoLink
    <3>1. /\ sweep' = sweep /\ sweep.digest \in Digests /\ blobLock[sweep.digest] = Sweep
          /\ \A s \in Spaces : accepted[sweep.digest][s] = NoLink
      BY Zenon, <2>3 DEF LocksProtect, WellFormed
    <3>2. Sweep \in Holders \ {t}
      BY Zenon DEF Holders
    <3> QED
      BY Zenon, <1>3, <3>1, <3>2
  <2> QED
    BY Zenon, <2>1, <2>2, <2>3 DEF LocksProtect
<1>10. AcceptedHeld' /\ \A u \in Uploads : put'[u].at # "undo"
  BY Zenon, <1>3 DEF AcceptedHeld
<1> QED
  BY <1>4, <1>5, <1>6, <1>7, <1>8, <1>9, <1>10

LEMMA AfterCommitStep ==
    ASSUME IInv, NEW t \in Txs, AfterCommit(t)
    PROVE  IInv'
<1> USE DEF IInv, AcceptedHeldInv
<1>1. tx[t].upload # NoUpload => Unnamed(tx[t].upload)
  BY InFlight DEF AfterCommit, DiscardedHoldNothing
<1>2. w' = [w EXCEPT ![t] = NoWrites]
  BY DEF AfterCommit, TypeOK, WellFormed
<1>3. /\ staged' \in [Uploads -> Digests \cup {NoDigest}]
      /\ \A u \in Uploads : u # tx[t].upload => staged'[u] = staged[u]
  BY DEF AfterCommit, Unstaged, TypeOK
<1>4. \A d \in Digests : Held(d) => Held(d)'
  <2>1. \A d \in Digests : entry[d] # NoUpload => staged'[entry[d]] = staged[entry[d]]
    BY <1>1, <1>3 DEF Unnamed, TypeOK
  <2> QED
    BY Zenon, <2>1 DEF AfterCommit, Held, records
<1>5. /\ linkLock' \in [Links -> Holders] /\ blobLock' \in [Digests -> Holders]
      /\ spaceLock' \in [Digests -> [Spaces -> Holders]] /\ blobLock' = blobLock
  BY Zenon DEF AfterCommit, TypeOK, advisory
<1> QED
  BY Zenon, <1>2, <1>3, <1>4, <1>5, TxEnds DEF AfterCommit

LEMMA RollbackStep ==
    ASSUME IInv, NEW t \in Txs, Rollback(t)
    PROVE  IInv'
<1>1. /\ linkLock' \in [Links -> Holders] /\ blobLock' \in [Digests -> Holders]
      /\ spaceLock' \in [Digests -> [Spaces -> Holders]]
  BY DEF Rollback, Unlock, IInv, TypeOK, Holders
<1>2. \A d \in Digests : \A h \in Holders \ {t} : blobLock[d] = h => blobLock'[d] = h
  BY DEF Rollback, Unlock
<1>3. /\ atKey' = atKey /\ staged' \in [Uploads -> Digests \cup {NoDigest}]
      /\ \A d \in Digests : Held(d) => Held(d)'
  BY Zenon DEF Rollback, IInv, TypeOK, Held, records, bytes
<1> QED
  BY Zenon, <1>1, <1>2, <1>3, TxEnds DEF Rollback

LEMMA CommitStep ==
    ASSUME IInv, NEW t \in Txs, Commit(t)
    PROVE  IInv'
<1> USE DEF IInv, AcceptedHeldInv
<1>1. TypeOK'
  <2>1. w[t] \in Writes /\ tx[t] \in TxRecord
    BY InFlight
  <2>2. /\ w[t].allocTo \in Links \cup {NoLink} /\ w[t].acceptTo \in Links \cup {NoLink, Unidentified}
        /\ w[t].insert \in Uploads \cup {NoUpload} /\ w[t].queue \in Digests \cup {NoDigest}
        /\ w[t].enqueue \in Digests \cup {NoDigest} /\ tx[t].link \in Links \cup {NoLink}
        /\ w[t].unstage \in Uploads \cup {NoUpload}
    BY <2>1 DEF Writes, TxRecord
  <2>3. /\ alloc' \in [Digests -> [Spaces -> Links \cup {NoLink}]]
        /\ accepted' \in [Digests -> [Spaces -> Links \cup {NoLink, Unidentified}]]
    BY Zenon, <2>2 DEF Commit, TypeOK
  <2>4. /\ pendingUpload' \in [Links -> Uploads \cup {NoUpload}]
        /\ pendingDigest' \in [Links -> Digests \cup {NoDigest}]
        /\ row' \in [Uploads -> {"unused", "live", "discarded", "gone"}]
        /\ rowLink' \in [Uploads -> Links \cup {NoLink}]
    BY Zenon, <2>2 DEF Commit, TypeOK
  <2>5. removals' \subseteq Digests /\ pipeline' \subseteq Digests
    BY <2>2 DEF Commit, TypeOK
  <2>6. /\ linkLock' \in [Links -> Holders] /\ blobLock' \in [Digests -> Holders]
        /\ spaceLock' \in [Digests -> [Spaces -> Holders]]
    BY DEF Commit, Unlock, TypeOK, Holders
  <2>7. IdleTx \in TxRecord /\ [IdleTx EXCEPT !.at = "after", !.upload = w[t].unstage] \in TxRecord
    BY Zenon, <2>2 DEF IdleTx, TxRecord, Ops, Points
  <2>8. tx' \in [Txs -> TxRecord] /\ w' \in [Txs -> Writes]
    BY <2>7, NoWritesType DEF Commit, TypeOK
  <2> QED
    BY <2>3, <2>4, <2>5, <2>6, <2>8 DEF Commit, TypeOK, bytes
<1>2. WellFormed'
  BY NoWritesType DEF Commit, TypeOK, WellFormed, IDsAreFresh, DiscardedHoldNothing, IdleTx
<1>3. HoldersAreDone'
  BY DEF Commit, TypeOK, HoldersAreDone, DiscardedHoldNothing, IDsAreFresh, Unnamed
<1>4. DiscardedHoldNothing'
  BY NoWritesType DEF Commit, TypeOK, DiscardedHoldNothing, IDsAreFresh, Unnamed, IdleTx
<1>5. IDsAreFresh'
  BY NoWritesType DEF Commit, TypeOK, DiscardedHoldNothing, IDsAreFresh, IdleTx
<1>6. \A d \in Digests : Held(d) => Held(d)'
  BY DEF Commit, Held, bytes
<1>7. LocksProtect'
  <2>1. ASSUME NEW v \in Txs, v # t
        PROVE  tx'[v] = tx[v] /\ w'[v] = w[v]
    BY <2>1 DEF Commit, TypeOK
  <2>2. tx'[t].op = "none" /\ w'[t].acceptTo = NoLink
    BY NoWritesType DEF Commit, TypeOK, IdleTx
  <2>3. \A d \in Digests : blobLock[d] # t => blobLock'[d] = blobLock[d]
    BY DEF Commit, Unlock, TypeOK
  <2>4. sweep.at \in {"delete", "commit"} => \A s \in Spaces : accepted'[sweep.digest][s] = NoLink
    BY DEF Commit, TypeOK, LocksProtect, WellFormed
  <2> QED
    BY <1>6, <2>1, <2>2, <2>3, <2>4 DEF Commit, LocksProtect, WellFormed
<1>8. AcceptedHeld' /\ \A u \in Uploads : put'[u].at # "undo"
  BY <1>6 DEF Commit, TypeOK, AcceptedHeld, LocksProtect, WellFormed
<1> QED
  BY <1>1, <1>2, <1>3, <1>4, <1>5, <1>7, <1>8

\* A release decides as soon as it has its lock.
LEMMA ReleaseStep ==
    ASSUME IInv, NEW t \in Txs, NEW d \in Digests, NEW s \in Spaces, Release(t, d, s)
    PROVE  IInv'
<1> DEFINE r == Started("release", "commit", NoLink, s, d, NoUpload)
           Harmless(x) == /\ x \in Writes /\ x.insert = NoUpload /\ x.mark = NoUpload
                          /\ x.unstage = NoUpload /\ x.acceptTo = NoLink
           released == [NoWrites EXCEPT !.acceptRow = d]
<1>1. LocksTaken
  BY Zenon DEF Release, Lock, LocksTaken, IInv, TypeOK, Holders
<1>2. r \in TxRecord /\ r.op = "release" /\ r.at = "commit" /\ r.upload = NoUpload
  BY Zenon, StartedType DEF Started, Ops, Points
<1>3. tx' = [tx EXCEPT ![t] = r]
  BY Zenon DEF Release, ReleaseByTask
<1>4. ASSUME NEW m \in Digests, NEW heir \in Links \cup {NoLink}, NEW q \in {NoDigest, d}
      PROVE  /\ Harmless([released EXCEPT !.allocRow = m, !.allocTo = heir, !.queue = q])
             /\ Harmless([released EXCEPT !.allocRow = m, !.queue = q])
             /\ Harmless([released EXCEPT !.queue = q])
  BY Zenon DEF NoWrites, Writes
<1>5. \/ \E m \in RowsOf(accepted[d][s]) : \E heir \in handOverClaim(m, accepted[d][s]) :
            \E q \in {NoDigest, d} :
            w' = [w EXCEPT ![t] = [released EXCEPT !.allocRow = m, !.allocTo = heir, !.queue = q]]
      \/ \E q \in {NoDigest, d} : w' = [w EXCEPT ![t] = [released EXCEPT !.queue = q]]
      \/ \E q \in {NoDigest, d} :
            w' = [w EXCEPT ![t] = [released EXCEPT !.allocRow = d, !.queue = q]]
  BY Zenon DEF Release, ReleaseByTask
<1>6. RowsOf(accepted[d][s]) \subseteq Digests
  BY DEF RowsOf
<1> HIDE DEF Harmless, released
<1>7. PICK x : Harmless(x) /\ w' = [w EXCEPT ![t] = x]
  BY Zenon, <1>4, <1>5, <1>6, HandOverType
<1> USE DEF Harmless
<1> HIDE DEF r
<1>8. Sound(t, r, x)
  BY <1>2, <1>7 DEF Sound
<1> QED
  BY Zenon, <1>1, <1>3, <1>7, <1>8, HandlerStep DEF Release

-----------------------------------------------------------------------------
(* The uploads.                                                            *)

\* What the invariant says of a PUT that is running: its upload holds nothing.
LEMMA Putting ==
    ASSUME IInv, NEW u \in Uploads, put[u].at # "idle"
    PROVE  /\ Unnamed(u) /\ row[u] # "unused" /\ rowLink[u] \in Links
           /\ put[u] \in PutRecord /\ put[u].at # "undo"
           /\ put[u].upload # NoUpload => row[put[u].upload] # "unused"
<1>1. put[u] \in PutRecord
  BY DEF IInv, TypeOK
<1>2. put[u].upload # NoUpload => put[u].upload \in Uploads
  BY <1>1 DEF PutRecord
<1> QED
  BY <1>1, <1>2 DEF IInv, AcceptedHeldInv, WellFormed, HoldersAreDone, IDsAreFresh, Unnamed

\* A step of a PUT goes to p.  It may complete or drop its own upload, write
\* or drop its own data, and write the tables of claims; it names no blob.
LEMMA PutKeeps ==
    ASSUME IInv, NEW u \in Uploads, NEW p \in PutRecord, put' = [put EXCEPT ![u] = p],
           p.at # "undo", p.at # "idle" => Unnamed(u) /\ row[u] # "unused",
           p.at \in {"store", "finish"} => DigestOf[rowLink[u]] # NoDigest,
           p.at \in Hashed => p.digest # NoDigest,
           p.upload # NoUpload => row[p.upload] # "unused",
           staged' \in [Uploads -> Digests \cup {NoDigest}],
           \A v \in Uploads : staged'[v] # staged[v] => Unnamed(v),
           atKey \subseteq atKey', atKey' \subseteq Digests,
           row' = row \/ (row[u] # "unused" /\ row' = [row EXCEPT ![u] = "gone"]),
           alloc' \in [Digests -> [Spaces -> Links \cup {NoLink}]],
           pendingUpload' \in [Links -> Uploads \cup {NoUpload}],
           \A l \in Links : \A v \in Uploads : pendingUpload'[l] = v => row[v] # "unused",
           pendingDigest' \in [Links -> Digests \cup {NoDigest}],
           removals' \subseteq Digests,
           UNCHANGED <<accepted, rowLink, entry, pipeline, advisory, tx, w, sweep>>
    PROVE  IInv'
<1> USE DEF IInv, AcceptedHeldInv
<1>1. TypeOK'
  BY Zenon DEF TypeOK, advisory
<1>2. WellFormed'
  BY Zenon DEF TypeOK, WellFormed
<1>3. /\ \A v \in Uploads : row'[v] = row[v] \/ (v = u /\ row[v] # "unused" /\ row'[v] = "gone")
      /\ put'[u] = p /\ \A v \in Uploads \ {u} : put'[v] = put[v]
  BY DEF TypeOK
<1>4. HoldersAreDone'
  <2>1. ASSUME NEW d \in Digests, NEW v \in Uploads, entry'[d] = v
        PROVE  row'[v] = "gone" /\ put'[v].at = "idle"
    <3>1. entry[d] = v /\ row[v] = "gone" /\ put[v].at = "idle"
      BY Zenon, <2>1 DEF HoldersAreDone
    <3>2. v = u => p.at = "idle"
      BY Zenon, <3>1 DEF Unnamed
    <3> QED
      BY Zenon, <1>3, <3>1, <3>2
  <2> QED
    BY Zenon, <2>1 DEF HoldersAreDone
<1>5. DiscardedHoldNothing' /\ IDsAreFresh'
  <2>1. \A v \in Uploads : Unnamed(v) => Unnamed(v)'
    BY Zenon DEF Unnamed
  <2>2. \A v \in Uploads : row'[v] = "unused" <=> row[v] = "unused"
    BY <1>3
  <2>3. \A v \in Uploads :
           /\ put'[v].at # "idle" => row[v] # "unused"
           /\ \A x \in Uploads : put'[v].upload = x => row[x] # "unused"
    <3>1. \A v \in Uploads : put[v].at # "idle" => row[v] # "unused"
      BY DEF IDsAreFresh
    <3>2. \A v, x \in Uploads : put[v].upload = x => row[x] # "unused"
      BY DEF IDsAreFresh
    <3> QED
      BY <1>3, <3>1, <3>2
  <2> QED
    BY Zenon, <1>3, <2>1, <2>2, <2>3, DiscardedKept, FreshKept
<1>6. \A d \in Digests : Held(d) => Held(d)'
  BY DEF TypeOK, Held, Unnamed
<1>7. LocksProtect'
  BY Zenon, <1>6 DEF LocksProtect, WellFormed, advisory
<1>8. AcceptedHeld' /\ \A v \in Uploads : put'[v].at # "undo"
  BY Zenon, <1>6 DEF TypeOK, AcceptedHeld
<1> QED
  BY <1>1, <1>2, <1>3, <1>4, <1>5, <1>7, <1>8

\* The tables a PUT leaves alone keep their types.
LEMMA TablesKept ==
    ASSUME IInv
    PROVE  /\ alloc \in [Digests -> [Spaces -> Links \cup {NoLink}]]
           /\ pendingUpload \in [Links -> Uploads \cup {NoUpload}]
           /\ \A l \in Links : \A v \in Uploads : pendingUpload[l] = v => row[v] # "unused"
           /\ pendingDigest \in [Links -> Digests \cup {NoDigest}]
           /\ removals \subseteq Digests /\ atKey \subseteq Digests
           /\ staged \in [Uploads -> Digests \cup {NoDigest}]
BY Zenon DEF IInv, TypeOK, AcceptedHeldInv, IDsAreFresh

\* A PUT at p goes on at another point.
LEMMA PutMoves ==
    ASSUME NEW p \in PutRecord,
           NEW at \in PutPoints
    PROVE  /\ [p EXCEPT !.at = at] \in PutRecord
           /\ [p EXCEPT !.at = at].at = at
           /\ [p EXCEPT !.at = at].digest = p.digest
           /\ [p EXCEPT !.at = at].upload = p.upload
BY DEF PutRecord

\* Where a PUT is after it has gone to `at', and that nothing it carries is
\* unused.
At(u, at, p) ==
    /\ put' = [put EXCEPT ![u] = p] /\ p.at = at /\ p.digest = put[u].digest
    /\ p.upload # NoUpload => row[p.upload] # "unused"

LEMMA PutGoes ==
    ASSUME IInv, NEW u \in Uploads, put[u].at # "idle" \/ row[u] = "live",
           NEW at \in PutPoints,
           PutGoesTo(u, at)
    PROVE  \E p \in PutRecord : At(u, at, p)
<1> DEFINE p == [put[u] EXCEPT !.at = at]
<1>1. put[u] \in PutRecord
  BY DEF IInv, TypeOK
<1>2. put[u].upload # NoUpload => put[u].upload \in Uploads
  BY Zenon, <1>1 DEF PutRecord
<1>3. put[u].upload # NoUpload => row[put[u].upload] # "unused"
  BY <1>2 DEF IInv, AcceptedHeldInv, IDsAreFresh
<1>4. p \in PutRecord /\ p.at = at /\ p.digest = put[u].digest /\ p.upload = put[u].upload
  BY <1>1, PutMoves
<1>5. put' = [put EXCEPT ![u] = p]
  BY DEF PutGoesTo
<1> HIDE DEF p
<1> QED
  BY Zenon, <1>3, <1>4, <1>5 DEF At

LEMMA PutIsOver ==
    ASSUME NEW u \in Uploads, PutEnds(u)
    PROVE  \E p \in PutRecord : /\ put' = [put EXCEPT ![u] = p]
                                /\ p.at = "idle" /\ p.upload = NoUpload
<1>1. IdlePut \in PutRecord /\ IdlePut.at = "idle" /\ IdlePut.upload = NoUpload
  BY DEF IdlePut, PutRecord, PutPoints
<1> QED
  BY Zenon, <1>1 DEF PutEnds

LEMMA UploadPieceStep ==
    ASSUME IInv, NEW u \in Uploads, UploadPiece(u)
    PROVE  IInv'
<1>1. Unnamed(u) /\ row[u] = "live"
  BY DEF UploadPiece, IInv, AcceptedHeldInv, HoldersAreDone, Unnamed
<1>2. PICK at \in {"row", "store"} :
        PutGoesTo(u, at) /\ (at = "store" => DigestOf[rowLink[u]] # NoDigest)
  BY DEF UploadPiece
<1>3. PICK p \in PutRecord : At(u, at, p)
  BY <1>1, <1>2, PutGoes DEF PutPoints
<1> QED
  BY Zenon, <1>1, <1>2, <1>3, PutKeeps, TablesKept DEF At, Hashed, UploadPiece, records, bytes

LEMMA UploadStoreStep ==
    ASSUME IInv, NEW u \in Uploads, UploadStore(u)
    PROVE  IInv'
<1>1. /\ put[u].at = "store" /\ Unnamed(u) /\ row[u] # "unused"
      /\ DigestOf[rowLink[u]] \in Digests
  BY Putting DEF UploadStore, PutAt, IInv, AcceptedHeldInv, WellFormed
<1>2. PICK p \in PutRecord : At(u, "finish", p)
  BY <1>1, PutGoes DEF UploadStore, PutPoints
<1> QED
  BY Zenon, <1>1, <1>2, PutKeeps, TablesKept DEF At, Hashed, UploadStore, records

LEMMA UploadFinishStep ==
    ASSUME UploadTxMayFail = FALSE, IInv, NEW u \in Uploads, UploadFinish(u)
    PROVE  IInv'
<1>1. row[u] # "unused" /\ PutEnds(u) /\ row' = [row EXCEPT ![u] = "gone"]
  BY Zenon, Putting DEF UploadFinish, PutAt
<1>2. PICK p \in PutRecord : /\ put' = [put EXCEPT ![u] = p]
                             /\ p.at = "idle" /\ p.upload = NoUpload
  BY <1>1, PutIsOver
<1> QED
  BY Zenon, <1>1, <1>2, PutKeeps, TablesKept DEF UploadFinish, Hashed, bytes

\* The same, as PutKeeps takes it.
Onward(u, p) ==
    /\ put' = [put EXCEPT ![u] = p] /\ p.at # "undo"
    /\ p.at # "idle" => Unnamed(u) /\ row[u] # "unused"
    /\ p.at \in {"store", "finish"} => DigestOf[rowLink[u]] # NoDigest
    /\ p.at \in Hashed => p.digest # NoDigest
    /\ p.upload # NoUpload => row[p.upload] # "unused"

LEMMA PutGoesOn ==
    ASSUME IInv, NEW u \in Uploads, put[u].at # "idle",
           NEW at \in PutPoints \ {"undo", "store", "finish"}, PutGoesTo(u, at),
           at \in Hashed => put[u].at \in Hashed
    PROVE  \E p \in PutRecord : Onward(u, p)
<1>1. PICK p \in PutRecord : At(u, at, p)
  BY PutGoes
<1>2. Unnamed(u) /\ row[u] # "unused" /\ (put[u].at \in Hashed => put[u].digest # NoDigest)
  BY Putting DEF IInv, AcceptedHeldInv, WellFormed
<1> QED
  BY Zenon, <1>1, <1>2 DEF At, Onward

LEMMA PutStopsHere ==
    ASSUME NEW u \in Uploads, PutEnds(u)
    PROVE  \E p \in PutRecord : Onward(u, p)
BY PutIsOver DEF Onward, Hashed

LEMMA UnhashedGetPendingStep ==
    ASSUME IInv, NEW u \in Uploads, UnhashedGetPending(u)
    PROVE  IInv'
<1> DEFINE v == pendingUpload[rowLink[u]]
           r == [at |-> "receive", digest |-> NoDigest, upload |-> v]
<1>1. Unnamed(u) /\ row[u] # "unused" /\ rowLink[u] \in Links
  BY Zenon, Putting DEF UnhashedGetPending, PutAt
<1>2. UNCHANGED <<records, bytes, advisory, tx, w, sweep>>
  BY Zenon DEF UnhashedGetPending
<1>3. CASE v = NoUpload
  <2>1. PutEnds(u)
    BY Zenon, <1>3 DEF UnhashedGetPending, PutEnds
  <2>2. PICK p \in PutRecord : Onward(u, p)
    BY <2>1, PutStopsHere
  <2> QED
    BY Zenon, <1>2, <2>2, PutKeeps, TablesKept DEF Onward, records, bytes
<1>4. CASE v # NoUpload
  <2>1. v \in Uploads /\ row[v] # "unused"
    BY Zenon, <1>1, <1>4, TablesKept
  <2>2. r \in PutRecord /\ r.at = "receive" /\ r.upload = v
    BY <2>1 DEF PutRecord, PutPoints
  <2>3. put' = [put EXCEPT ![u] = r]
    BY <1>4 DEF UnhashedGetPending
  <2> HIDE DEF r, v
  <2>4. PICK p \in PutRecord : Onward(u, p)
    BY Zenon, <1>1, <2>1, <2>2, <2>3 DEF Onward, Hashed
  <2> QED
    BY Zenon, <1>2, <2>4, PutKeeps, TablesKept DEF Onward, records, bytes
<1> QED
  BY <1>3, <1>4

LEMMA UnhashedStageStep ==
    ASSUME IInv, NEW u \in Uploads, UnhashedStage(u)
    PROVE  IInv'
<1>1. /\ Unnamed(u) /\ row[u] # "unused" /\ put[u] \in PutRecord
      /\ put[u].upload # NoUpload => row[put[u].upload] # "unused"
  BY Putting DEF UnhashedStage, PutAt
<1>2. UNCHANGED <<records, atKey, advisory, tx, w, sweep>>
  BY DEF UnhashedStage
<1>3. ASSUME NEW d \in Digests
      PROVE  LET r == [put[u] EXCEPT !.at = "digest", !.digest = d] IN
             r \in PutRecord /\ r.at = "digest" /\ r.digest = d /\ r.upload = put[u].upload
  BY Zenon, <1>1 DEF PutRecord, PutPoints
<1>4. CASE Unstaged(u) /\ PutEnds(u)
  <2>1. PICK p \in PutRecord : Onward(u, p)
    BY <1>4, PutStopsHere
  <2> QED
    BY Zenon, <1>1, <1>2, <1>4, <2>1, PutKeeps, TablesKept DEF Onward, Unstaged, records
<1>5. CASE ~(Unstaged(u) /\ PutEnds(u))
  <2>1. PICK d \in Digests : /\ staged' = [staged EXCEPT ![u] = d]
                             /\ put' = [put EXCEPT ![u].at = "digest", ![u].digest = d]
    BY <1>5 DEF UnhashedStage
  <2> DEFINE r == [put[u] EXCEPT !.at = "digest", !.digest = d]
  <2>2. put' = [put EXCEPT ![u] = r]
    BY Zenon, <2>1 DEF IInv, TypeOK
  <2>3. r \in PutRecord /\ r.at = "digest" /\ r.digest = d /\ r.upload = put[u].upload
    BY Zenon, <1>3
  <2> HIDE DEF r
  <2>4. PICK p \in PutRecord : Onward(u, p)
    BY Zenon, <1>1, <2>2, <2>3 DEF Onward, Hashed
  <2>5. /\ staged' \in [Uploads -> Digests \cup {NoDigest}]
        /\ \A v \in Uploads : staged'[v] # staged[v] => Unnamed(v)
    BY <1>1, <2>1, TablesKept
  <2> QED
    BY Zenon, <1>2, <2>4, <2>5, PutKeeps, TablesKept DEF Onward, records
<1> QED
  BY <1>4, <1>5

LEMMA UnhashedRecordDigestStep ==
    ASSUME IInv, NEW u \in Uploads, UnhashedRecordDigest(u)
    PROVE  IInv'
<1>1. put[u].at = "digest" /\ PutGoesTo(u, "claim")
  BY Zenon DEF UnhashedRecordDigest, PutAt
<1>2. PICK p \in PutRecord : Onward(u, p)
  BY Zenon, <1>1, PutGoesOn DEF PutPoints, Hashed
<1>3. /\ rowLink[u] \in Links /\ put[u] \in PutRecord
      /\ put[u].upload # NoUpload => row[put[u].upload] # "unused"
  BY <1>1, Putting
<1>4. put[u].upload \in Uploads \cup {NoUpload} /\ put[u].digest \in Digests \cup {NoDigest}
  BY <1>3 DEF PutRecord
<1>5. /\ pendingUpload' \in [Links -> Uploads \cup {NoUpload}]
      /\ \A l \in Links : \A v \in Uploads : pendingUpload'[l] = v => row[v] # "unused"
      /\ pendingDigest' \in [Links -> Digests \cup {NoDigest}]
  BY Zenon, <1>3, <1>4, TablesKept DEF UnhashedRecordDigest
<1> QED
  BY Zenon, <1>2, <1>5, PutKeeps, TablesKept DEF UnhashedRecordDigest, Onward, bytes

LEMMA UnhashedClaimStep ==
    ASSUME IInv, NEW u \in Uploads, UnhashedClaim(u)
    PROVE  IInv'
<1>1. put[u].at = "claim" /\ (PutGoesTo(u, "has") \/ PutEnds(u))
  BY DEF UnhashedClaim, PutAt
<1>2. PICK p \in PutRecord : Onward(u, p)
  BY <1>1, PutGoesOn, PutStopsHere DEF PutPoints, Hashed
<1>3. rowLink[u] \in Links
  BY <1>1, Putting
<1>4. alloc' \in [Digests -> [Spaces -> Links \cup {NoLink}]]
  <2>1. alloc' = alloc \/ alloc' = [alloc EXCEPT ![put[u].digest][SpaceOf[rowLink[u]]] = rowLink[u]]
    BY Zenon DEF UnhashedClaim
  <2> QED
    BY <1>3, <2>1, TablesKept
<1> QED
  BY Zenon, <1>2, <1>4, PutKeeps, TablesKept DEF UnhashedClaim, Onward, bytes

LEMMA UnhashedHasStep ==
    ASSUME IInv, NEW u \in Uploads, UnhashedHas(u)
    PROVE  IInv'
<1>1. PICK at \in {"drop", "record"} : PutGoesTo(u, at)
  BY DEF UnhashedHas
<1>2. PICK p \in PutRecord : Onward(u, p)
  BY <1>1, PutGoesOn DEF UnhashedHas, PutAt, PutPoints, Hashed
<1>3. UNCHANGED <<records, bytes, advisory, tx, w, sweep>>
  BY DEF UnhashedHas
<1> QED
  BY Zenon, <1>2, <1>3, PutKeeps, TablesKept DEF Onward, records, bytes


\* An upload comes to hold a blob: its row is live, so nobody discards it.
LEMMA UnhashedNames ==
    ASSUME IInv, NEW u \in Uploads, NEW d \in Digests, put[u].at = "record",
           put[u].digest = d, row[u] = "live", entry[d] = NoUpload, ~UploadRowWritten(u),
           row' = [row EXCEPT ![u] = "gone"], entry' = [entry EXCEPT ![d] = u], PutEnds(u),
           UNCHANGED <<alloc, accepted, pendingUpload, pendingDigest, rowLink, removals,
                       pipeline, bytes, advisory, tx, w, sweep>>
    PROVE  IInv'
<1> USE DEF IInv, AcceptedHeldInv
<1>1. PICK p \in PutRecord : Onward(u, p) /\ p.at = "idle" /\ p.upload = NoUpload
  BY Zenon, PutIsOver DEF Onward, Hashed
<1>2. Unnamed(u)
  BY Zenon, Putting
<1>3. \A t \in Txs : w[t].mark # u
  <2>1. SUFFICES ASSUME NEW t \in Txs, w[t].mark = u PROVE FALSE
    OBVIOUS
  <2>2. tx[t].at # "commit"
    BY <2>1 DEF UploadRowWritten
  <2> QED
    BY Zenon, <2>1, <2>2, NoWritesType DEF WellFormed
<1>4. \A t \in Txs : w[t].unstage # u /\ (tx[t].at = "after" => tx[t].upload # u)
  BY Zenon, <1>3 DEF DiscardedHoldNothing
<1>5. TypeOK'
  BY Zenon, <1>1 DEF TypeOK, bytes, advisory, Onward
<1>6. WellFormed'
  BY Zenon, <1>1 DEF TypeOK, WellFormed, Onward
<1>7. /\ row'[u] = "gone" /\ \A v \in Uploads \ {u} : row'[v] = row[v]
      /\ entry'[d] = u /\ \A e \in Digests \ {d} : entry'[e] = entry[e]
      /\ put'[u] = p /\ \A v \in Uploads \ {u} : put'[v] = put[v]
  BY Zenon, <1>1 DEF TypeOK, Onward
<1>8. HoldersAreDone'
  <2>1. ASSUME NEW e \in Digests, NEW v \in Uploads, entry'[e] = v
        PROVE  row'[v] = "gone" /\ put'[v].at = "idle"
    <3>1. CASE e = d
      BY Zenon, <1>1, <1>7, <2>1, <3>1
    <3>2. CASE e # d
      <4>1. entry[e] = v /\ v # u
        BY Zenon, <1>2, <1>7, <2>1, <3>2 DEF Unnamed
      <4> QED
        BY <1>7, <4>1 DEF HoldersAreDone
    <3> QED
      BY Zenon, <3>1, <3>2
  <2>2. ASSUME NEW e \in Digests, NEW f \in Digests, entry'[e] = entry'[f], entry'[e] # NoUpload
        PROVE  e = f
    <3>1. \A x \in Digests : entry'[x] = u => x = d
      BY <1>2, <1>7 DEF Unnamed
    <3>2. CASE entry'[e] = u
      BY Zenon, <2>2, <3>1, <3>2
    <3>3. CASE entry'[e] # u
      <4>1. entry[e] = entry'[e] /\ entry[f] = entry'[f]
        BY Zenon, <1>7, <2>2, <3>3
      <4> QED
        BY <2>2, <4>1 DEF HoldersAreDone
    <3> QED
      BY Zenon, <3>2, <3>3
  <2> QED
    BY Zenon, <2>1, <2>2 DEF HoldersAreDone
<1>9. DiscardedHoldNothing' /\ IDsAreFresh'
  <2>1. ASSUME NEW t \in Txs, NEW v \in Uploads,
               w[t].mark = v \/ w[t].unstage = v \/ (tx[t].at = "after" /\ tx[t].upload = v)
        PROVE  Unnamed(v) => Unnamed(v)'
    <3>1. v # u
      BY Zenon, <1>3, <1>4, <2>1
    <3> QED
      BY Zenon, <1>7, <3>1 DEF Unnamed
  <2>2. \A v \in Uploads : row'[v] = row[v] \/ (row[v] # "unused" /\ row'[v] = "gone")
    BY <1>7
  <2>3. \A v \in Uploads : row'[v] = "unused" <=> row[v] = "unused"
    BY <1>7
  <2>4. \A v \in Uploads :
           /\ put'[v].at # "idle" => row[v] # "unused"
           /\ \A x \in Uploads : put'[v].upload = x => row[x] # "unused"
    <3>1. \A v \in Uploads : put[v].at # "idle" => row[v] # "unused"
      BY DEF IDsAreFresh
    <3>2. \A v, x \in Uploads : put[v].upload = x => row[x] # "unused"
      BY DEF IDsAreFresh
    <3>3. \A x \in Uploads : p.upload # x
      BY Zenon, <1>1
    <3> QED
      BY <1>1, <1>7, <3>1, <3>2, <3>3
  <2>5. \A l \in Links : \A v \in Uploads : pendingUpload'[l] = v => row[v] # "unused"
    BY Zenon, TablesKept
  <2>6. DiscardedHoldNothing'
    BY Zenon, <2>1, <2>2, DiscardedKept
  <2> QED
    BY Zenon, <2>3, <2>4, <2>5, <2>6, FreshKept
<1>10. \A e \in Digests : Held(e) => Held(e)'
  BY Zenon DEF TypeOK, Held, bytes
<1>11. LocksProtect'
  BY Zenon, <1>10 DEF LocksProtect, WellFormed, advisory
<1>12. AcceptedHeld' /\ \A v \in Uploads : put'[v].at # "undo"
  BY Zenon, <1>1, <1>10 DEF TypeOK, AcceptedHeld, Onward
<1> QED
  BY <1>5, <1>6, <1>7, <1>8, <1>9, <1>11, <1>12

LEMMA UnhashedRecordStep ==
    ASSUME IInv, NEW u \in Uploads, UnhashedRecord(u)
    PROVE  IInv'
<1>1. /\ put[u].at = "record" /\ ~UploadRowWritten(u)
      /\ UNCHANGED <<alloc, accepted, pendingUpload, pendingDigest, rowLink, removals,
                     pipeline, bytes, advisory, tx, w, sweep>>
  BY Zenon DEF UnhashedRecord, PutAt
<1>2. CASE row[u] = "live" /\ entry[put[u].digest] = NoUpload
  <2>1. put[u].digest \in Digests
    <3>1. put[u] \in PutRecord /\ put[u].digest # NoDigest
      BY Zenon, <1>1 DEF IInv, TypeOK, AcceptedHeldInv, WellFormed, Hashed
    <3> QED
      BY <3>1 DEF PutRecord
  <2> QED
    BY Zenon, <1>1, <1>2, <2>1, UnhashedNames DEF UnhashedRecord
<1>3. CASE ~(row[u] = "live" /\ entry[put[u].digest] = NoUpload)
  <2>1. PICK at \in {"drop", "discardData"} : PutGoesTo(u, at)
    BY Zenon, <1>3 DEF UnhashedRecord
  <2>2. PICK p \in PutRecord : Onward(u, p)
    BY <1>1, <2>1, PutGoesOn DEF PutPoints, Hashed
  <2>3. UNCHANGED <<row, entry>>
    BY <1>3 DEF UnhashedRecord
  <2> QED
    BY Zenon, <1>1, <2>2, <2>3, PutKeeps, TablesKept DEF Onward, bytes
<1> QED
  BY <1>2, <1>3

LEMMA UnhashedDropStep ==
    ASSUME IInv, NEW u \in Uploads, UnhashedDrop(u) \/ DiscardedData(u)
    PROVE  IInv'
<1>1. PICK at \in {"complete", "discardRow"} : put[u].at # "idle" /\ PutGoesTo(u, at)
  BY Zenon DEF UnhashedDrop, DiscardedData, PutAt
<1>2. PICK p \in PutRecord : Onward(u, p)
  BY <1>1, PutGoesOn DEF PutPoints, Hashed
<1>3. Unstaged(u) /\ UNCHANGED <<records, atKey, advisory, tx, w, sweep>>
  BY DEF UnhashedDrop, DiscardedData
<1>4. Unnamed(u)
  BY <1>1, Putting
<1>5. /\ staged' \in [Uploads -> Digests \cup {NoDigest}]
      /\ \A v \in Uploads : staged'[v] # staged[v] => Unnamed(v)
  BY <1>3, <1>4, TablesKept DEF Unstaged
<1> QED
  BY Zenon, <1>2, <1>3, <1>5, PutKeeps, TablesKept DEF Onward, records

LEMMA RowGoesStep ==
    ASSUME IInv, NEW u \in Uploads, UnhashedComplete(u) \/ DiscardedRow(u)
    PROVE  IInv'
<1>1. put[u].at # "idle"
  BY Zenon DEF UnhashedComplete, DiscardedRow, PutAt
<1>2. PutEnds(u) \/ \E at \in {"discardData", "discardClaim"} : PutGoesTo(u, at)
  BY DEF UnhashedComplete, DiscardedRow
<1>3. PICK p \in PutRecord : Onward(u, p)
  BY <1>1, <1>2, PutGoesOn, PutStopsHere DEF PutPoints, Hashed
<1>4. /\ row' = row \/ row' = [row EXCEPT ![u] = "gone"]
      /\ UNCHANGED <<alloc, accepted, pendingUpload, pendingDigest, rowLink, entry, removals,
                     pipeline, bytes, advisory, tx, w, sweep>>
  BY DEF UnhashedComplete, DiscardedRow
<1>5. row[u] # "unused"
  BY <1>1, Putting
<1> QED
  BY Zenon, <1>3, <1>4, <1>5, PutKeeps, TablesKept DEF Onward, bytes

LEMMA DiscardedClaimStep ==
    ASSUME IInv, NEW u \in Uploads, DiscardedClaim(u)
    PROVE  IInv'
<1> DEFINE l == rowLink[u]
           d == IF pendingUpload[l] # NoUpload THEN pendingDigest[l] ELSE put[u].digest
           r == [put[u] EXCEPT !.at = "queue", !.digest = d]
<1>1. /\ Unnamed(u) /\ row[u] # "unused" /\ l \in Links /\ put[u] \in PutRecord
      /\ put[u].upload # NoUpload => row[put[u].upload] # "unused"
  BY Putting DEF DiscardedClaim, PutAt
<1>2. d \in Digests \cup {NoDigest}
  BY Zenon, <1>1, TablesKept DEF PutRecord
<1>3. UNCHANGED <<accepted, row, rowLink, entry, removals, pipeline, bytes, advisory, tx, w, sweep>>
  BY DEF DiscardedClaim
<1>4. /\ pendingUpload' \in [Links -> Uploads \cup {NoUpload}]
      /\ \A m \in Links : \A v \in Uploads : pendingUpload'[m] = v => row[v] # "unused"
      /\ pendingDigest' \in [Links -> Digests \cup {NoDigest}]
  BY Zenon, TablesKept DEF DiscardedClaim
<1>5. alloc' \in [Digests -> [Spaces -> Links \cup {NoLink}]]
  <2>1. CASE HoldsClaim(l, d)
    <3>1. PICK heir \in handOverClaim(d, l) : alloc' = [alloc EXCEPT ![d][SpaceOf[l]] = heir]
      BY Zenon, <2>1 DEF DiscardedClaim
    <3>2. heir \in Links \cup {NoLink}
      BY <3>1, HandOverType
    <3> HIDE DEF d, l
    <3> QED
      BY Zenon, <3>1, <3>2, TablesKept
  <2>2. CASE ~HoldsClaim(l, d)
    BY <2>2, TablesKept DEF DiscardedClaim
  <2> QED
    BY <2>1, <2>2
<1>6. PICK p \in PutRecord : Onward(u, p)
  <2>1. CASE d = NoDigest
    <3>1. PutEnds(u)
      BY <2>1 DEF DiscardedClaim, PutEnds
    <3> QED
      BY <3>1, PutStopsHere
  <2>2. CASE d # NoDigest
    <3>1. put' = [put EXCEPT ![u] = r]
      BY <2>2 DEF DiscardedClaim
    <3> HIDE DEF d
    <3>2. r \in PutRecord /\ r.at = "queue" /\ r.digest = d /\ r.upload = put[u].upload
      BY Zenon, <1>1, <1>2 DEF PutRecord, PutPoints
    <3> HIDE DEF r
    <3> QED
      BY Zenon, <1>1, <2>2, <3>1, <3>2 DEF Onward
  <2> QED
    BY <2>1, <2>2
<1> QED
  BY Zenon, <1>3, <1>4, <1>5, <1>6, PutKeeps, TablesKept DEF Onward, bytes

LEMMA DiscardedQueueStep ==
    ASSUME IInv, NEW u \in Uploads, DiscardedQueue(u)
    PROVE  IInv'
<1>1. PICK p \in PutRecord : Onward(u, p)
  BY PutStopsHere DEF DiscardedQueue
<1>2. put[u].digest \in Digests
  <2>1. put[u] \in PutRecord /\ put[u].digest # NoDigest
    BY Zenon DEF DiscardedQueue, PutAt, IInv, TypeOK, AcceptedHeldInv, WellFormed, Hashed
  <2> QED
    BY <2>1 DEF PutRecord
<1>3. removals' \subseteq Digests
  BY <1>2, TablesKept DEF DiscardedQueue
<1> QED
  BY Zenon, <1>1, <1>3, PutKeeps, TablesKept DEF DiscardedQueue, Onward, bytes

LEMMA PutStopsStep ==
    ASSUME IInv, NEW u \in Uploads, PutStops(u)
    PROVE  IInv'
<1>1. PICK p \in PutRecord : Onward(u, p)
  BY PutStopsHere DEF PutStops
<1> QED
  BY Zenon, <1>1, PutKeeps, TablesKept DEF PutStops, Onward, records, bytes

\* A discarded upload is reaped: the step of a PUT that stays idle.
LEMMA ReapStep ==
    ASSUME IInv, NEW u \in Uploads, reapDiscardedUploads(u)
    PROVE  IInv'
<1>1. /\ put[u] \in PutRecord /\ put' = [put EXCEPT ![u] = put[u]] /\ put[u].at = "idle"
      /\ row[u] # "unused" /\ Unnamed(u)
  BY DEF reapDiscardedUploads, IInv, TypeOK, AcceptedHeldInv, HoldersAreDone, Unnamed
<1>2. put[u].upload # NoUpload => row[put[u].upload] # "unused"
  <2>1. put[u].upload # NoUpload => put[u].upload \in Uploads
    BY <1>1 DEF PutRecord
  <2> QED
    BY <2>1 DEF IInv, AcceptedHeldInv, IDsAreFresh
<1>3. /\ staged' \in [Uploads -> Digests \cup {NoDigest}]
      /\ \A v \in Uploads : staged'[v] # staged[v] => Unnamed(v)
  BY <1>1, TablesKept DEF reapDiscardedUploads
<1>4. PICK p \in PutRecord : Onward(u, p)
  BY Zenon, <1>1, <1>2 DEF Onward, Hashed
<1>5. /\ row[u] # "unused" /\ row' = [row EXCEPT ![u] = "gone"]
      /\ UNCHANGED <<alloc, accepted, pendingUpload, pendingDigest, rowLink, entry, removals,
                     pipeline, atKey, advisory, tx, w, sweep>>
  BY <1>1 DEF reapDiscardedUploads
<1> QED
  BY Zenon, <1>3, <1>4, <1>5, PutKeeps, TablesKept DEF Onward

-----------------------------------------------------------------------------
(* The sweep and the settle task.                                          *)

\* The sweep's lock goes, or comes if nobody held it.
SweepLocks ==
    \/ UNCHANGED blobLock
    \/ UnlockBlobs
    \/ /\ blobLock[sweep.digest] = Nobody
       /\ blobLock' = [blobLock EXCEPT ![sweep.digest] = Sweep]

\* No transaction's lock changes when the sweep's do.
LEMMA SweepLocksSpare ==
    ASSUME IInv, SweepLocks
    PROVE  /\ blobLock' \in [Digests -> Holders]
           /\ \A d \in Digests : \A t \in Txs : blobLock[d] = t => blobLock'[d] = t
<1>1. blobLock \in [Digests -> Holders] /\ {Sweep, Nobody} \subseteq Holders
  BY DEF IInv, TypeOK, Holders
<1>2. Sweep \notin Txs /\ Nobody \notin Txs
  OBVIOUS
<1>3. CASE UNCHANGED blobLock
  BY <1>1, <1>3
<1>4. CASE UnlockBlobs
  BY <1>1, <1>2, <1>4 DEF UnlockBlobs
<1>5. CASE /\ blobLock[sweep.digest] = Nobody
           /\ blobLock' = [blobLock EXCEPT ![sweep.digest] = Sweep]
  BY Zenon, <1>1, <1>2, <1>5
<1> QED
  BY <1>3, <1>4, <1>5 DEF SweepLocks

\* A step of the sweep that deletes nothing.  It may change the queue of
\* removals and the pipeline; if it goes on to delete, it has found no claim
\* under the blob's lock.
LEMMA SweepKeeps ==
    ASSUME IInv, NEW x \in SweepRecord, sweep' = x,
           x.at # "idle" => x.digest \in Digests,
           x.at \in {"delete", "commit"} =>
              blobLock'[x.digest] = Sweep /\ \A s \in Spaces : accepted[x.digest][s] = NoLink,
           SweepLocks, removals' \subseteq Digests, pipeline' \subseteq Digests,
           UNCHANGED <<alloc, accepted, pendingUpload, pendingDigest, row, rowLink, entry,
                       bytes, linkLock, spaceLock, tx, w, put>>
    PROVE  IInv'
<1> USE DEF IInv, AcceptedHeldInv
<1>1. /\ blobLock' \in [Digests -> Holders]
      /\ \A d \in Digests : \A t \in Txs : blobLock[d] = t => blobLock'[d] = t
  BY SweepLocksSpare
<1>2. TypeOK'
  BY Zenon, <1>1 DEF TypeOK, bytes
<1>3. WellFormed' /\ HoldersAreDone' /\ IDsAreFresh'
  BY Zenon, WellFormedFrame, HoldersFrame, FreshFrame
<1>4. DiscardedHoldNothing'
  BY Zenon DEF DiscardedHoldNothing, Unnamed
<1>5. LocksProtect'
  <2>1. \A d \in Digests : Held(d) => Held(d)'
    BY Zenon DEF Held, bytes
  <2> QED
    BY Zenon, <1>1, <2>1, LocksFrame
<1>6. AcceptedHeld' /\ \A u \in Uploads : put'[u].at # "undo"
  BY Zenon DEF AcceptedHeld, Held, bytes
<1> QED
  BY <1>2, <1>3, <1>4, <1>5, <1>6

LEMMA IdleSweepType == IdleSweep \in SweepRecord /\ IdleSweep.at = "idle"
BY DEF IdleSweep, SweepRecord

\* The sweep goes on, with the same digest.
LEMMA SweepMoves ==
    ASSUME IInv, sweep.at # "idle",
           NEW at \in {"cancel", "pipeline", "lock", "delete", "commit", "revived"},
           SweepGoesTo(at)
    PROVE  \E x \in SweepRecord : sweep' = x /\ x.at = at /\ x.digest = sweep.digest
                                  /\ x.digest \in Digests
<1> DEFINE x == [sweep EXCEPT !.at = at]
<1>1. sweep \in SweepRecord /\ sweep.digest \in Digests
  BY Zenon DEF IInv, TypeOK, AcceptedHeldInv, WellFormed
<1>2. x \in SweepRecord /\ x.at = at /\ x.digest = sweep.digest
  BY <1>1 DEF SweepRecord
<1>3. sweep' = x
  BY DEF SweepGoesTo
<1> HIDE DEF x
<1> QED
  BY <1>1, <1>2, <1>3

LEMMA SweepStartStep ==
    ASSUME IInv, NEW d \in Digests, SweepStart(d)
    PROVE  IInv'
<1>1. ASSUME NEW at \in {"cancel", "pipeline"}
      PROVE  LET x == [IdleSweep EXCEPT !.at = at, !.digest = d] IN
             x \in SweepRecord /\ x.at = at /\ x.digest = d
  BY Zenon DEF IdleSweep, SweepRecord
<1>2. PICK at \in {"cancel", "pipeline"} : sweep' = [IdleSweep EXCEPT !.at = at, !.digest = d]
  BY Zenon DEF SweepStart
<1>3. PICK x \in SweepRecord : sweep' = x /\ x.at = at /\ x.digest = d
  BY Zenon, <1>1, <1>2
<1>4. removals \subseteq Digests /\ pipeline \subseteq Digests
  BY DEF IInv, TypeOK
<1>5. UNCHANGED <<records, bytes, advisory, tx, w, put>>
  BY DEF SweepStart
<1> QED
  BY <1>3, <1>4, <1>5, SweepKeeps DEF SweepLocks, records, advisory

LEMMA SweepRestsStep ==
    ASSUME IInv, cancelPendingRemoval \/ FinalizeRevived \/ SweepStops
    PROVE  IInv'
<1>1. sweep' = IdleSweep
  BY DEF cancelPendingRemoval, FinalizeRevived, SweepStops
<1>2. removals' \subseteq Digests /\ pipeline' \subseteq Digests
  BY Zenon DEF cancelPendingRemoval, FinalizeRevived, SweepStops, IInv, TypeOK, records
<1>3. SweepLocks
  BY DEF cancelPendingRemoval, FinalizeRevived, SweepStops, SweepLocks, advisory
<1>4. UNCHANGED <<alloc, accepted, pendingUpload, pendingDigest, row, rowLink, entry,
                  bytes, linkLock, spaceLock, tx, w, put>>
  BY DEF cancelPendingRemoval, FinalizeRevived, SweepStops, records, advisory
<1> QED
  BY Zenon, <1>1, <1>2, <1>3, <1>4, IdleSweepType, SweepKeeps

LEMMA cancelPipelineEntryStep ==
    ASSUME IInv, cancelPipelineEntry
    PROVE  IInv'
<1>1. PICK x \in SweepRecord : sweep' = x /\ x.at \in {"idle", "lock"}
                               /\ (x.at # "idle" => x.digest \in Digests)
  BY Zenon, IdleSweepType, SweepMoves DEF cancelPipelineEntry, SweepAt
<1>2. removals \subseteq Digests /\ pipeline' \subseteq Digests
  BY Zenon DEF cancelPipelineEntry, IInv, TypeOK
<1> QED
  BY Zenon, <1>1, <1>2, SweepKeeps DEF cancelPipelineEntry, SweepLocks, advisory

LEMMA FinalizeLockStep ==
    ASSUME IInv, FinalizeLock
    PROVE  IInv'
<1> DEFINE at == IF blobHasClaims(sweep.digest) THEN "revived" ELSE "delete"
<1>1. PICK x \in SweepRecord : sweep' = x /\ x.at = at /\ x.digest = sweep.digest
                               /\ x.digest \in Digests
  BY Zenon, SweepMoves DEF FinalizeLock, SweepAt
<1>2. at # "revived" => \A s \in Spaces : accepted[sweep.digest][s] = NoLink
  BY DEF blobHasClaims
<1>3. at \in {"revived", "delete"}
  OBVIOUS
<1> HIDE DEF at
<1>4. /\ SweepLocks /\ blobLock'[sweep.digest] = Sweep
      /\ UNCHANGED <<records, bytes, linkLock, spaceLock, tx, w, put>>
  BY Zenon, <1>1 DEF FinalizeLock, SweepLocks, IInv, TypeOK
<1>5. removals \subseteq Digests /\ pipeline \subseteq Digests
  BY DEF IInv, TypeOK
<1> QED
  BY Zenon, <1>1, <1>2, <1>3, <1>4, <1>5, SweepKeeps DEF records

\* The bytes of a digest go: no acceptance names it, and no accept holds its
\* lock; the bytes of other digests are under other keys.
LEMMA FinalizeDeleteStep ==
    ASSUME IInv, FinalizeDelete
    PROVE  IInv'
<1> USE DEF IInv, AcceptedHeldInv
<1> DEFINE d == sweep.digest
           x == [sweep EXCEPT !.at = "commit", !.upload = entry[d]]
<1>1. /\ sweep.at = "delete" /\ d \in Digests /\ sweep \in SweepRecord
      /\ entry[d] \in Uploads \cup {NoUpload} /\ blobLock[d] = Sweep
      /\ \A s \in Spaces : accepted[d][s] = NoLink
  BY DEF FinalizeDelete, SweepAt, WellFormed, LocksProtect, TypeOK
<1>2. x \in SweepRecord /\ x.at = "commit" /\ x.digest = d /\ sweep' = x
  BY Zenon, <1>1 DEF FinalizeDelete, SweepRecord
<1> HIDE DEF x
<1>3. UNCHANGED <<alloc, accepted, pendingUpload, pendingDigest, row, rowLink, entry, removals,
                  pipeline, linkLock, blobLock, spaceLock, tx, w, put>>
  BY DEF FinalizeDelete, records, advisory
<1>4. /\ atKey' = atKey \ {d} /\ staged' \in [Uploads -> Digests \cup {NoDigest}]
      /\ \A u \in Uploads : u # entry[d] => staged'[u] = staged[u]
  BY <1>1 DEF FinalizeDelete, TypeOK
<1>5. \A e \in Digests \ {d} : Held(e) => Held(e)'
  <2>1. SUFFICES ASSUME NEW e \in Digests \ {d}, Held(e) PROVE Held(e)'
    BY Zenon
  <2>2. e \in atKey => e \in atKey'
    BY Zenon, <1>4
  <2>3. CASE entry[e] # NoUpload /\ staged[entry[e]] = e
    <3>1. entry[e] \in Uploads /\ entry[e] # entry[d]
      BY Zenon, <1>1, <2>3 DEF HoldersAreDone, TypeOK
    <3> QED
      BY Zenon, <1>3, <1>4, <2>3, <3>1 DEF Held
  <2> QED
    BY Zenon, <2>1, <2>2, <2>3 DEF Held
<1>6. TypeOK'
  BY Zenon, <1>2, <1>3, <1>4 DEF TypeOK
<1>7. WellFormed' /\ HoldersAreDone' /\ IDsAreFresh'
  BY Zenon, <1>1, <1>2, <1>3, WellFormedFrame, HoldersFrame, FreshFrame
<1>8. DiscardedHoldNothing'
  BY Zenon, <1>3 DEF DiscardedHoldNothing, Unnamed
<1>9. LocksProtect'
  <2>1. \A e \in Digests : \A t \in Txs : blobLock[e] = t => e # d
    BY Zenon, <1>1
  <2> QED
    BY Zenon, <1>1, <1>2, <1>3, <1>5, <2>1, LocksFrame
<1>10. AcceptedHeld' /\ \A u \in Uploads : put'[u].at # "undo"
  BY Zenon, <1>1, <1>3, <1>5 DEF AcceptedHeld
<1> QED
  BY <1>6, <1>7, <1>8, <1>9, <1>10

LEMMA FinalizeCommitStep ==
    ASSUME IInv, FinalizeCommit
    PROVE  IInv'
<1> USE DEF IInv, AcceptedHeldInv
<1> DEFINE d == sweep.digest
<1>1. /\ sweep.at = "commit" /\ d \in Digests /\ blobLock[d] = Sweep
      /\ \A s \in Spaces : accepted[d][s] = NoLink
  BY Zenon DEF FinalizeCommit, SweepAt, WellFormed, LocksProtect
<1>2. /\ sweep' = IdleSweep
      /\ UNCHANGED <<alloc, accepted, pendingUpload, pendingDigest, row, rowLink, pipeline,
                     bytes, linkLock, spaceLock, tx, w, put>>
  BY DEF FinalizeCommit
<1>3. /\ blobLock' \in [Digests -> Holders]
      /\ \A e \in Digests : \A t \in Txs : blobLock[e] = t => blobLock'[e] = t
  BY SweepLocksSpare DEF FinalizeCommit, SweepLocks
<1>4. /\ entry' \in [Digests -> Uploads \cup {NoUpload}] /\ entry'[d] \in {entry[d], NoUpload}
      /\ \A e \in Digests \ {d} : entry'[e] = entry[e]
      /\ removals' \subseteq Digests
  BY Zenon, <1>1 DEF FinalizeCommit, TypeOK
<1> HIDE DEF d
<1>5. \A e \in Digests \ {d} : Held(e) => Held(e)'
  BY Zenon, <1>2, <1>4 DEF Held, bytes
<1>6. TypeOK'
  BY <1>2, <1>3, <1>4, IdleSweepType DEF TypeOK, bytes
<1>7. WellFormed' /\ IDsAreFresh'
  BY Zenon, <1>2, IdleSweepType, WellFormedFrame, FreshFrame
<1>8. \A e \in Digests : entry'[e] \in {entry[e], NoUpload}
  BY Zenon, <1>4
<1>9. HoldersAreDone' /\ DiscardedHoldNothing'
  BY Zenon, <1>2, <1>8, HoldersFrame, DiscardedFrame
<1>10. LocksProtect'
  <2>1. \A e \in Digests : \A t \in Txs : blobLock[e] = t => e # d
    BY Zenon, <1>1
  <2> QED
    BY Zenon, <1>2, <1>3, <1>5, <2>1, IdleSweepType, LocksFrame
<1>11. AcceptedHeld' /\ \A u \in Uploads : put'[u].at # "undo"
  BY <1>1, <1>2, <1>5 DEF AcceptedHeld
<1> QED
  BY <1>6, <1>7, <1>9, <1>10, <1>11

\* The bytes move to the blob's key; they are not another blob's.
LEMMA SettleStep ==
    ASSUME IInv, NEW d \in Digests, Settle(d)
    PROVE  IInv'
<1> USE DEF IInv, AcceptedHeldInv
<1>1. entry[d] \in Uploads
  BY DEF Settle, TypeOK
<1>2. UNCHANGED <<alloc, accepted, pendingUpload, pendingDigest, row, rowLink, removals,
                  pipeline, advisory, tx, w, put, sweep>>
  BY Zenon DEF Settle
<1>3. /\ atKey' = atKey \cup {d} /\ staged' \in [Uploads -> Digests \cup {NoDigest}]
      /\ \A u \in Uploads : u # entry[d] => staged'[u] = staged[u]
      /\ entry' \in [Digests -> Uploads \cup {NoUpload}] /\ entry'[d] = NoUpload
      /\ \A e \in Digests \ {d} : entry'[e] = entry[e]
  BY <1>1 DEF Settle, TypeOK
<1>4. \A e \in Digests : Held(e) => Held(e)'
  BY <1>1, <1>3 DEF Held, HoldersAreDone, TypeOK
<1>5. TypeOK'
  BY <1>2, <1>3 DEF TypeOK, advisory
<1>6. WellFormed' /\ IDsAreFresh'
  BY Zenon, <1>2, WellFormedFrame, FreshFrame DEF WellFormed
<1>7. \A e \in Digests : entry'[e] \in {entry[e], NoUpload}
  BY Zenon, <1>3
<1>8. HoldersAreDone' /\ DiscardedHoldNothing'
  BY Zenon, <1>2, <1>7, HoldersFrame, DiscardedFrame
<1>9. LocksProtect'
  BY Zenon, <1>2, <1>4 DEF LocksProtect, WellFormed, advisory
<1>10. AcceptedHeld' /\ \A u \in Uploads : put'[u].at # "undo"
  BY <1>2, <1>4 DEF AcceptedHeld
<1> QED
  BY <1>5, <1>6, <1>8, <1>9, <1>10

-----------------------------------------------------------------------------
(* Every step, and the theorem.                                            *)

LEMMA InitHolds == Init => IInv
<1> SUFFICES ASSUME Init PROVE IInv
  OBVIOUS
<1> USE DEF Init
<1>1. /\ IdleTx \in TxRecord /\ IdleTx.op = "none" /\ IdleTx.at = "idle" /\ IdleTx.upload = NoUpload
  BY DEF IdleTx, TxRecord, Ops, Points
<1>2. /\ NoWrites \in Writes /\ NoWrites.mark = NoUpload /\ NoWrites.insert = NoUpload
      /\ NoWrites.unstage = NoUpload /\ NoWrites.acceptTo = NoLink
  BY Zenon DEF NoWrites, Writes
<1>3. IdlePut \in PutRecord /\ IdlePut.at = "idle" /\ IdlePut.upload = NoUpload
  BY Zenon DEF IdlePut, PutRecord, PutPoints
<1>4. TypeOK
  BY Zenon, <1>1, <1>2, <1>3, IdleSweepType DEF TypeOK, Holders
<1>5. WellFormed /\ HoldersAreDone
  BY Zenon, <1>1, <1>2, <1>3, IdleSweepType DEF WellFormed, HoldersAreDone, Hashed
<1>6. DiscardedHoldNothing /\ IDsAreFresh
  BY Zenon, <1>1, <1>2, <1>3 DEF DiscardedHoldNothing, IDsAreFresh
<1>7. LocksProtect /\ AcceptedHeld /\ \A u \in Uploads : put[u].at # "undo"
  BY Zenon, <1>1, <1>2, <1>3, IdleSweepType DEF LocksProtect, AcceptedHeld
<1> QED
  BY <1>4, <1>5, <1>6, <1>7 DEF IInv, AcceptedHeldInv

LEMMA RequestsStep ==
    ASSUME IInv, NEW t \in Txs, Requests(t)
    PROVE  IInv'
BY AllocateStep, AllocateUnhashedStep, AcceptResolveStep, ReleaseAllocationStep, AcceptStep,
   ReleaseStep DEF Requests

LEMMA TxStepStep ==
    ASSUME IInv, NEW t \in Txs, TxStep(t) \/ Refused(t) \/ TxStops(t)
    PROVE  IInv'
BY Zenon, AllocateBodyStep, AcceptLockPendingStep, AcceptLockBlobStep, AcceptBodyStep,
   ReleaseLockSpaceStep, ReleasePendingBodyStep, RejectBodyStep, CommitStep, AfterCommitStep,
   RollbackStep DEF TxStep, Refused, TxStops

LEMMA PutStepStep ==
    ASSUME UploadTxMayFail = FALSE, IInv, NEW u \in Uploads, PutStep(u)
    PROVE  IInv'
<1>1. ~UploadUndo(u)
  BY Zenon DEF UploadUndo, PutAt, IInv, AcceptedHeldInv
<1> QED
  BY Zenon, <1>1, UploadPieceStep, UploadStoreStep, UploadFinishStep, UnhashedGetPendingStep,
     UnhashedStageStep, UnhashedRecordDigestStep, UnhashedClaimStep, UnhashedHasStep,
     UnhashedRecordStep, UnhashedDropStep, RowGoesStep, DiscardedClaimStep, DiscardedQueueStep
     DEF PutStep

LEMMA SweepStepStep ==
    ASSUME IInv, SweepStep \/ SweepStops
    PROVE  IInv'
BY SweepStartStep, SweepRestsStep, cancelPipelineEntryStep, FinalizeLockStep,
   FinalizeDeleteStep, FinalizeCommitStep DEF SweepStep

LEMMA Stutters ==
    ASSUME IInv, UNCHANGED vars
    PROVE  IInv'
<1> USE DEF vars, records, bytes, advisory
<1>1. TypeOK'
  BY DEF IInv, TypeOK
<1>2. (WellFormed /\ HoldersAreDone /\ DiscardedHoldNothing /\ IDsAreFresh)'
  BY Zenon, WellFormedFrame, HoldersFrame, DiscardedFrame, FreshFrame
     DEF IInv, AcceptedHeldInv, WellFormed
<1>3. (LocksProtect /\ AcceptedHeld /\ \A u \in Uploads : put[u].at # "undo")'
  BY Zenon DEF IInv, AcceptedHeldInv, LocksProtect, AcceptedHeld, Held
<1> QED
  BY <1>1, <1>2, <1>3 DEF IInv, AcceptedHeldInv

LEMMA NextStep ==
    ASSUME UploadTxMayFail = FALSE, IInv, [Next]_vars
    PROVE  IInv'
BY Zenon, RequestsStep, TxStepStep, PutStepStep, ReapStep, SweepStepStep, SettleStep, PutStopsStep,
   Stutters DEF Next, Stops

\* The inductive invariant of the life of a blob holds in every reachable state,
\* for any number of spaces, digests, tasks, uploads and transactions, as long
\* as the transaction that ends a hashed upload (UploadPiece) commits.
THEOREM LifecycleInvariant == ASSUME UploadTxMayFail = FALSE PROVE Spec => [](TypeOK /\ AcceptedHeldInv)
<1>1. IInv /\ [Next]_vars => IInv'
  BY Zenon, NextStep
<1>2. IInv => TypeOK /\ AcceptedHeldInv
  BY DEF IInv
<1> QED
  BY <1>1, <1>2, InitHolds, PTL DEF Spec

\* Accepted content is held: no interleaving of uploads, rejects, releases,
\* expiries, settles and removal sweeps, with any request, PUT or sweep stopped at
\* any point, takes away the bytes of a blob that some space has accepted.
THEOREM AcceptedStaysHeld == ASSUME UploadTxMayFail = FALSE PROVE Spec => []AcceptedHeld
<1>1. TypeOK /\ AcceptedHeldInv => AcceptedHeld
  BY DEF AcceptedHeldInv
<1> QED
  BY <1>1, LifecycleInvariant, PTL
=============================================================================
