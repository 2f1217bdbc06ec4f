------------------------------ MODULE Retrieval ------------------------------
(***************************************************************************)
(* The read path: byte ranges in the three object stores, the HTTP         *)
(* response of blob/retrieve and space/content/retrieve, the section       *)
(* reader that the proving tasks read pieces with, and the reader that     *)
(* verifies an upload while it is read (lib/verifyread).                   *)
(*                                                                         *)
(* One blob: byte i of its content is the number i, so a body shows which  *)
(* bytes of the blob it holds.  The blob is removed and stored again by    *)
(* others while a request runs.  Requests, the section reader and the      *)
(* verifying reader share nothing but the stored blob, so a behaviour uses *)
(* one of them.                                                            *)
(***************************************************************************)
EXTENDS Integers, Sequences

CONSTANTS
    MaxLength,     \* bound: length of the blob
    MaxReads       \* bound: requests and reads made

VARIABLES
    use,        \* which of the three reads: "retrieve", "prove" or "upload"
    store,      \* the object store behind the node
    length,     \* length of the blob
    held,       \* the blob is in the store
    allocated,  \* the space has an allocation of it
    get,        \* the retrieval request: [kind, range, at, size]
    response,   \* its answer: [status, length, partial, body, broken]
    section,    \* the section reader: [size, off], and what its last read gave
    source,     \* what the verified upload still has to send
    reader,     \* verifyread.Reader: [checks, bytesRead, done, finalErr, out, told]
    reads

retrievalVars == <<use, store, length, held, allocated, get, response, section, source, reader, reads>>

NoEnd == -1
Whole == [start |-> 0, end |-> NoEnd]
Content == [i \in 1..length |-> i]
NoGet == [kind |-> "none", range |-> Whole, at |-> "idle", size |-> 0]
NoResponse == [status |-> 0, length |-> 0, partial |-> FALSE, body |-> <<>>, broken |-> FALSE]
Unread == [at |-> 0, want |-> 0, got |-> <<>>, err |-> "none"]
NoSection == [size |-> -1, off |-> 0, last |-> Unread]

\* The asked bytes, by the HTTP meaning of an inclusive range.
Asked(r) == SubSeq(Content, r.start + 1, IF r.end = NoEnd THEN length ELSE r.end + 1)
-----------------------------------------------------------------------------
Ranged(r) == r.start > 0 \/ r.end # NoEnd

rangeSatisfiable(r, size) ==
    /\ ~(size > 0 /\ r.start >= size)
    /\ r.end # NoEnd => r.start <= r.end /\ r.end < size

\* flatfs checks every range, minio only a range that was asked for, and the
\* datastore adapter refuses a start at the end of an empty object too.
flatGets(r, size) == rangeSatisfiable(r, size)
minioGets(r, size) == Ranged(r) => rangeSatisfiable(r, size)
adapterGets(r, size) == Ranged(r) => r.start < size /\ (r.end # NoEnd => r.start <= r.end /\ r.end < size)

Gets(r, size) ==
    \/ store = "flatfs" /\ flatGets(r, size)
    \/ store = "minio" /\ minioGets(r, size)
    \/ store = "datastore" /\ adapterGets(r, size)

\* The bodies: a seek and a copy of end - start + 1 bytes, a range header, a
\* slice up to end + 1.
flatBody(r) ==
    LET rest == SubSeq(Content, r.start + 1, length)
    IN  IF r.end = NoEnd THEN rest ELSE SubSeq(rest, 1, r.end - r.start + 1)
SetRange(start, end) == IF end = 0 /\ start > 0 THEN Whole.end ELSE end
minioBody(r) ==
    IF ~Ranged(r) THEN Content
    ELSE LET rEnd == SetRange(r.start, IF r.end = NoEnd THEN 0 ELSE r.end)
         IN  SubSeq(Content, r.start + 1, IF rEnd = NoEnd THEN length ELSE rEnd + 1)
adapterBody(r) == SubSeq(Content, r.start + 1, IF r.end = NoEnd THEN length ELSE r.end + 1)

Body(r) ==
    CASE store = "flatfs" -> flatBody(r)
      [] store = "minio" -> minioBody(r)
      [] store = "datastore" -> adapterBody(r)

\* getObject: what the stores answer, in the blobstore's errors.
getObject(r) ==
    IF ~held THEN "NotFound" ELSE IF Gets(r, length) THEN "ok" ELSE "RangeNotSatisfiable"
-----------------------------------------------------------------------------
\* The UCAN server hands a request to its handler: /blob/retrieve has no range,
\* /space/content/retrieve always has both ends (a request without a range
\* arrives as 0-0).
contentRangeToBlobstoreRange(r) == [start |-> r.start, end |-> r.end]
GetRequest(kind, r) ==
    /\ use = "retrieve" /\ get.at = "idle"
    /\ reads < MaxReads
    /\ reads' = reads + 1
    /\ get' = [kind |-> kind, size |-> 0,
               range |-> IF kind = "blob" THEN Whole ELSE contentRangeToBlobstoreRange(r),
               at |-> IF kind = "blob" THEN "read" ELSE "allocation"]
    /\ response' = NoResponse
    /\ UNCHANGED <<use, store, length, held, allocated, section, source, reader>>

\* ErrorResponse: a status and a message, never blob bytes.
ErrorResponse(status) ==
    /\ response' = [NoResponse EXCEPT !.status = status]
    /\ get' = [get EXCEPT !.at = "answered"]

\* content/retrieve looks the allocation up first; the lookup may fail.
CheckAllocation ==
    /\ get.at = "allocation"
    /\ \/ allocated /\ get' = [get EXCEPT !.at = "read"] /\ UNCHANGED response
       \/ ~allocated /\ ErrorResponse(404)
       \/ ErrorResponse(500)
    /\ UNCHANGED <<use, store, length, held, allocated, section, source, reader, reads>>

\* StoreReader.Read: the object is looked up and its size taken.  The bytes
\* of a datastore object are in hand; the others are opened when read.
Read ==
    /\ get.at = "read"
    /\ LET found == getObject(get.range)
       IN  \/ found = "ok" /\ get' = [get EXCEPT !.at = "open", !.size = length] /\ UNCHANGED response
           \/ found = "NotFound" /\ ErrorResponse(404)
           \/ found = "RangeNotSatisfiable" /\ ErrorResponse(416)
           \/ ErrorResponse(500)
    /\ UNCHANGED <<use, store, length, held, allocated, section, source, reader, reads>>

\* Retrieve: the headers come from the size and the range, the body from the
\* store, which no longer has it when the blob was removed in between.
LengthOf(r, size) == IF r.end = NoEnd THEN size ELSE r.end - r.start + 1
Retrieve ==
    /\ get.at = "open"
    /\ LET r == get.range
           contentLength == IF get.kind = "blob" THEN get.size ELSE LengthOf(r, get.size)
           gone == store # "datastore" /\ ~held
       IN  response' = [status |-> IF contentLength = get.size THEN 200 ELSE 206,
                        length |-> contentLength,
                        partial |-> contentLength # get.size,
                        body |-> IF gone THEN <<>> ELSE Body(r),
                        broken |-> gone]
    /\ get' = [get EXCEPT !.at = "answered"]
    /\ UNCHANGED <<use, store, length, held, allocated, section, source, reader, reads>>

Respond_ ==
    /\ get.at = "answered"
    /\ get' = NoGet
    /\ response' = NoResponse
    /\ UNCHANGED <<use, store, length, held, allocated, section, source, reader, reads>>

\* Uploads, releases and removals by others.
BlobComesOrGoes ==
    /\ use # "upload"
    /\ held' = ~held
    /\ UNCHANGED <<use, store, length, allocated, get, response, section, source, reader, reads>>
SpaceAllocatesOrReleases ==
    /\ use = "retrieve"
    /\ allocated' = ~allocated
    /\ UNCHANGED <<use, store, length, held, get, response, section, source, reader, reads>>
-----------------------------------------------------------------------------
\* GetSharedPieceReader: a piece that resolves to a stored blob gets a reader.
GetSharedPieceReader ==
    /\ use = "prove"
    /\ reads < MaxReads
    /\ reads' = reads + 1
    /\ getObject(Whole) = "ok"
    /\ section' = [NoSection EXCEPT !.size = length]
    /\ UNCHANGED <<use, store, length, held, allocated, get, response, source, reader>>

\* ReadAt: one ranged get, cut at the size taken when the reader was made.
ReadAt(off, len) ==
    IF len = 0 THEN [at |-> off, want |-> 0, got |-> <<>>, err |-> "none"]
    ELSE IF off >= section.size THEN [at |-> off, want |-> len, got |-> <<>>, err |-> "EOF"]
    ELSE LET last == off + len - 1
             end == IF last >= section.size THEN section.size - 1 ELSE last
             r == [start |-> off, end |-> end]
             body == Body(r)
         IN  IF getObject(r) # "ok" THEN [at |-> off, want |-> len, got |-> <<>>, err |-> "error"]
             ELSE [at |-> off, want |-> len, got |-> body, err |-> IF Len(body) < len THEN "EOF" ELSE "none"]


ReadSection(len) ==
    LET n == ReadAt(section.off, len)
    IN  section' = [section EXCEPT !.last = n, !.off = @ + Len(n.got)]

\* Seek: a negative position is refused and the offset stays.
Seek(offset, whence) ==
    LET abs == offset + (CASE whence = "start" -> 0 [] whence = "current" -> section.off [] whence = "end" -> section.size)
    IN  section' = [section EXCEPT !.off = IF abs < 0 THEN @ ELSE abs, !.last = Unread]

UseSection ==
    /\ section.size >= 0
    /\ reads < MaxReads
    /\ reads' = reads + 1
    /\ \/ \E len \in 0..MaxLength : ReadSection(len)
       \/ \E offset \in -1..1, whence \in {"start", "current", "end"} : Seek(offset, whence)
    /\ UNCHANGED <<use, store, length, held, allocated, get, response, source, reader>>
-----------------------------------------------------------------------------
\* What an uploader may send: the blob, less, more, or other bytes.
Uploads_ == {SubSeq(Content, 1, n) : n \in 0..length} \cup {Content \o <<0>>, [i \in 1..length |-> 0]}

\* New checks a digest and a size, NewHashing a size alone.
NewReader(checks, src) ==
    /\ use = "upload" /\ reader = <<>>
    /\ source' = src
    /\ reader' = <<[checks |-> checks, bytesRead |-> 0, done |-> FALSE, finalErr |-> "none",
                    hashed |-> <<>>, out |-> <<>>, told |-> "none"]>>
    /\ UNCHANGED <<use, store, length, held, allocated, get, response, section, reads>>

\* At EOF: the size before the digest.
AtEOF(v) ==
    IF v.bytesRead # length THEN "ErrSizeMismatch"
    ELSE IF v.checks = "digest" /\ v.hashed # Content THEN "ErrHashMismatch"
    ELSE "none"

\* Read: the source gives a chunk, with or without its EOF, or fails.
Chunk(v, chunk, ends) ==
    IF v.bytesRead + Len(chunk) > length
    THEN [v EXCEPT !.finalErr = "ErrSizeMismatch", !.told = "ErrSizeMismatch"]
    ELSE LET taken == [v EXCEPT !.bytesRead = @ + Len(chunk), !.hashed = @ \o chunk, !.out = @ \o chunk]
             verdict == AtEOF(taken)
         IN  IF ~ends THEN [taken EXCEPT !.told = "none"]
             ELSE [taken EXCEPT !.done = TRUE, !.finalErr = verdict,
                                !.told = IF verdict = "none" THEN "EOF" ELSE verdict]

ReadVerified ==
    /\ reader # <<>>
    /\ LET v == reader[1]
       IN  \/ /\ v.finalErr # "none"
              /\ reader' = <<[v EXCEPT !.told = v.finalErr]>>
              /\ UNCHANGED source
           \/ /\ v.finalErr = "none" /\ v.done
              /\ reader' = <<[v EXCEPT !.told = "EOF"]>>
              /\ UNCHANGED source
           \/ /\ v.finalErr = "none" /\ ~v.done
              /\ \E n \in 0..Len(source) :
                    /\ \E ends \in {FALSE} \cup {n = Len(source)} :
                          reader' = <<Chunk(v, SubSeq(source, 1, n), ends)>>
                    /\ source' = SubSeq(source, n + 1, Len(source))
           \/ /\ v.finalErr = "none" /\ ~v.done
              /\ reader' = <<[v EXCEPT !.told = "error"]>>
              /\ UNCHANGED source
    /\ UNCHANGED <<use, store, length, held, allocated, get, response, section, reads>>

Sum(v) == IF v.done /\ v.finalErr = "none" THEN v.hashed ELSE <<-1>>
-----------------------------------------------------------------------------
RetrievalInit ==
    /\ use \in {"retrieve", "prove", "upload"}
    /\ store \in {"flatfs", "minio", "datastore"}
    /\ length \in 0..MaxLength
    /\ held \in BOOLEAN
    /\ allocated \in BOOLEAN
    /\ get = NoGet
    /\ response = NoResponse
    /\ section = NoSection
    /\ source = <<>>
    /\ reader = <<>>
    /\ reads = 0

RetrievalNext ==
    \/ GetRequest("blob", Whole)
    \/ \E s, e \in 0..MaxLength : GetRequest("content", [start |-> s, end |-> e])
    \/ CheckAllocation \/ Read \/ Retrieve \/ Respond_
    \/ BlobComesOrGoes \/ SpaceAllocatesOrReleases
    \/ GetSharedPieceReader \/ UseSection
    \/ \E checks \in {"digest", "size"}, src \in Uploads_ : NewReader(checks, src)
    \/ ReadVerified

RetrievalSpec == RetrievalInit /\ [][RetrievalNext]_retrievalVars
-----------------------------------------------------------------------------
\* Whatever the store, a 2xx answer whose body does not break off holds exactly
\* the bytes asked for, announces their number, and is a 206 just when they are
\* not the whole blob; and a 416 is given only for a range the blob does not
\* have (blob.Retrieve over the three object stores' Get and Body).
ServedIsTheRange ==
    /\ response.status \in {200, 206} /\ ~response.broken =>
         /\ response.body = Asked(get.range)
         /\ Len(response.body) = response.length
         /\ (response.status = 206) = (Len(response.body) # length)
    /\ response.status = 416 => get.kind = "content" /\ (get.range.start > get.range.end \/ get.range.end >= length)

\* The section reader gives the bytes at its position, as many as were asked
\* for or all up to the end, and reports the end only there, through any
\* sequence of reads and seeks (s3SectionReader over ranged gets).
SectionInPlace ==
    LET l == section.last
        till == IF l.at + l.want > length THEN length ELSE l.at + l.want
    IN  section.size >= 0 /\ l.err # "error" =>
          /\ l.got = SubSeq(Content, l.at + 1, till)
          /\ l.want > 0 => (l.err = "EOF") = (l.at + l.want > length)
          /\ l.want > 0 /\ l.got # <<>> => section.off = l.at + Len(l.got)

\* The verifying reader says EOF only after it handed out exactly the expected
\* bytes, however the source cuts them up and fails in between; it never hands
\* out more than expected, and its Sum is the digest of all that it handed out.
VerifiedIsExact ==
    reader # <<>> =>
        LET v == reader[1]
        IN  /\ Len(v.out) <= length
            /\ v.told = "EOF" =>
                 /\ v.out = Content \/ (v.checks = "size" /\ Len(v.out) = length)
                 /\ Sum(v) = v.out

=============================================================================
