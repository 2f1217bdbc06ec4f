------------------------------- MODULE Access -------------------------------
(***************************************************************************)
(* Delegations on demand.  As a client the node asks the signing service   *)
(* for a delegation before each signature and keeps it in a cache          *)
(* (CachingProofService, proofServiceSigner); as a server it answers       *)
(* /access/grant and /blob/release, which both rest on the invocation that *)
(* caused them, behind the checks its routes are served with               *)
(* (ucanhandlers).  Time is a clock that other steps do not stop.          *)
(***************************************************************************)
EXTENDS Integers, Sequences

CONSTANTS
    Callers_,      \* goroutines of the node that need a signature
    Commands,      \* the pdp/sign commands: create, add, remove, delete
    MinTTL,        \* time a cached delegation must still be valid for
    Validity,      \* time a granted delegation is valid for
    MaxClock       \* bound: the clock

ASSUME AccessAssumption == MinTTL \in Nat /\ Validity \in Nat /\ MaxClock \in Nat

VARIABLES
    clock,
    proofCache,    \* command -> the expiry of the cached delegation; Never; 0 without one
    signing,       \* caller -> [at, cmd, proof, since, cached]
    grant,         \* the /access/grant request being answered, and its answer
    release        \* the /blob/release request being answered, and its answer

accessVars == <<clock, proofCache, signing, grant, release>>

Never == MaxClock + Validity + 1
Unsigned == [at |-> "idle", cmd |-> "none", proof |-> 0, since |-> 0, cached |-> FALSE]
-----------------------------------------------------------------------------
Tick ==
    /\ clock < MaxClock
    /\ clock' = clock + 1
    /\ UNCHANGED <<proofCache, signing, grant, release>>

\* Mutant: the margin is added on the wrong side.
StillAlive(exp) == exp # 0 /\ (exp = Never \/ clock < exp + MinTTL)

\* The cached delegation never expires, or not before MinTTL has passed.
StillFresh(exp) == exp # 0 /\ (exp = Never \/ clock + MinTTL < exp)

\* RequestAccess for one of the Sign calls: the cache, under its read lock.
RequestAccess(c, cmd) ==
    /\ signing[c].at = "idle"
    /\ signing' = [signing EXCEPT ![c] =
          IF StillFresh(proofCache[cmd])
          THEN [at |-> "sign", cmd |-> cmd, proof |-> proofCache[cmd], since |-> clock, cached |-> TRUE]
          ELSE [Unsigned EXCEPT !.at = "fetch", !.cmd = cmd]]
    /\ UNCHANGED <<clock, proofCache, grant, release>>

\* requestDelegation: the service grants a delegation, or the request, the
\* receipt or its container is no good.  Nothing keeps two callers from
\* fetching at once.
requestDelegation(c) ==
    /\ signing[c].at = "fetch"
    /\ \/ signing' = [signing EXCEPT ![c] = Unsigned]
       \/ \E exp \in {clock + Validity, Never} :
             signing' = [signing EXCEPT ![c].at = "store", ![c].proof = exp]
    /\ UNCHANGED <<clock, proofCache, grant, release>>

\* Under the write lock, the last one to come stays in the cache.
StoreDelegation(c) ==
    /\ signing[c].at = "store"
    /\ proofCache' = [proofCache EXCEPT ![signing[c].cmd] = signing[c].proof]
    /\ signing' = [signing EXCEPT ![c].at = "sign", ![c].since = clock]
    /\ UNCHANGED <<clock, grant, release>>

\* The signing service checks the proof when the invocation arrives.
Sign(c) ==
    /\ signing[c].at = "sign"
    /\ signing' = [signing EXCEPT ![c].at = IF clock < signing[c].proof THEN "signed" ELSE "refused"]
    /\ UNCHANGED <<clock, proofCache, grant, release>>

SignEnds(c) ==
    /\ signing[c].at \in {"signed", "refused"}
    /\ signing' = [signing EXCEPT ![c] = Unsigned]
    /\ UNCHANGED <<clock, proofCache, grant, release>>
-----------------------------------------------------------------------------
\* A request: the capabilities asked for, whether it names a cause and carries
\* it, and what is true of the cause; on which routes and over which subject.
Causes == [carried : BOOLEAN, forRequester : BOOLEAN, byUploadService : BOOLEAN,
           command : {"replica/allocate", "assert/index", "other"}, decodes : BOOLEAN, authorized : BOOLEAN,
           digest : {"d1", "d2"}]
Abilities == {"blob/retrieve", "other"}
NoGrant == [at |-> "idle", wants |-> <<>>, cause |-> {}, out |-> "none", granted |-> <<>>]

\* NewRPC and NewRetrieval: which invocations reach the handlers of a group.
Admits(group, selfSigned, overNode) ==
    \/ group = "rpc" /\ ~selfSigned /\ overNode
    \/ group = "retrieval" /\ overNode
    \/ group \in {"rpc open", "retrieval space"}

GrantRequest(wants, cause) ==
    /\ grant.at = "idle"
    /\ Admits("rpc open", TRUE, FALSE)
    /\ grant' = [NoGrant EXCEPT !.at = "asked", !.wants = wants, !.cause = cause]
    /\ UNCHANGED <<clock, proofCache, signing, release>>

\* grantUcan1BlobRetrieve: the checks, in the code's order.
grantUcan1BlobRetrieve(cause) ==
    IF cause = {} THEN "MissingCause"
    ELSE LET c == CHOOSE x \in cause : TRUE
         IN  IF ~c.forRequester \/ ~c.byUploadService THEN "InvalidCause"
             ELSE IF c.command = "other" THEN "UnknownCause"
             ELSE IF ~c.decodes THEN "InvalidCause"
             ELSE IF ~c.authorized THEN "UnauthorizedCause"
             ELSE "ok"

grantUcan1Capability(ability, cause) ==
    IF ability = "blob/retrieve" THEN grantUcan1BlobRetrieve(cause) ELSE "UnknownAbility"

GrantFails(why) == grant' = [grant EXCEPT !.at = "answered", !.out = why, !.granted = <<>>]

\* NewGrantHandler: nothing asked, an unknown cause, then one capability after
\* the other; the first that is refused fails the whole request.
NewGrantHandler ==
    /\ grant.at = "asked"
    /\ IF grant.wants = <<>> THEN GrantFails("MissingCapability")
       ELSE IF \E c \in grant.cause : ~c.carried THEN GrantFails("UnknownCause")
       ELSE LET out == grantUcan1Capability(Head(grant.wants), grant.cause)
            IN  IF out # "ok" THEN GrantFails(out)
                ELSE grant' = [grant EXCEPT
                        !.wants = Tail(@),
                        !.granted = Append(@, [digest |-> (CHOOSE c \in grant.cause : TRUE).digest,
                                               expires |-> clock + Validity]),
                        !.at = IF Tail(grant.wants) = <<>> THEN "answered" ELSE "asked",
                        !.out = "ok"]
    /\ UNCHANGED <<clock, proofCache, signing, release>>

GrantEnds ==
    /\ grant.at = "answered"
    /\ grant' = NoGrant
    /\ UNCHANGED <<clock, proofCache, signing, release>>
-----------------------------------------------------------------------------
\* A release: the blob it is for, the task it names as its cause, and the
\* invocations that came with it, with what is true of each.
Invocations == [task : {"t1", "t2"}, command : {"blob/remove", "other"}, decodes : BOOLEAN,
                overSpace : BOOLEAN, digest : {"d1", "d2"}, authorized : BOOLEAN]
NoRelease == [at |-> "idle", cause |-> "t1", digest |-> "d1", carried |-> <<>>, out |-> "none"]

ReleaseRequest(carried) ==
    /\ release.at = "idle"
    /\ Admits("rpc", FALSE, TRUE)
    /\ release' = [NoRelease EXCEPT !.at = "asked", !.carried = carried]
    /\ UNCHANGED <<clock, proofCache, signing, grant>>

\* validateReleaseCause: the first invocation carried for the task that is the
\* cause, then the checks in the code's order.
validateReleaseCause(r) ==
    LET named == SelectSeq(r.carried, LAMBDA i : i.task = r.cause)
    IN  IF named = <<>> \/ Head(named).command # "blob/remove" THEN "UnknownCause"
        ELSE IF /\ Head(named).decodes /\ Head(named).overSpace
                /\ Head(named).digest = r.digest /\ Head(named).authorized
        THEN "ok" ELSE "InvalidCause"

NewBlobReleaseHandler ==
    /\ release.at = "asked"
    /\ release' = [release EXCEPT !.at = "answered", !.out = validateReleaseCause(release)]
    /\ UNCHANGED <<clock, proofCache, signing, grant>>

ReleaseEnds ==
    /\ release.at = "answered"
    /\ release' = NoRelease
    /\ UNCHANGED <<clock, proofCache, signing, grant>>
-----------------------------------------------------------------------------
AccessInit ==
    /\ clock = 1
    /\ proofCache = [cmd \in Commands |-> 0]
    /\ signing = [c \in Callers_ |-> Unsigned]
    /\ grant = NoGrant
    /\ release = NoRelease

ClientNext ==
    \/ Tick
    \/ \E c \in Callers_ :
         \/ \E cmd \in Commands : RequestAccess(c, cmd)
         \/ requestDelegation(c) \/ StoreDelegation(c) \/ Sign(c) \/ SignEnds(c)

GrantNext ==
    \/ \E wants \in {<<>>} \cup {<<a>> : a \in Abilities} \cup (Abilities \X Abilities) :
         GrantRequest(wants, {}) \/ \E c \in Causes : GrantRequest(wants, {c})
    \/ NewGrantHandler \/ GrantEnds

ReleaseNext ==
    \/ ReleaseRequest(<<>>)
    \/ \E i, j \in Invocations : ReleaseRequest(<<i, j>>)
    \/ NewBlobReleaseHandler \/ ReleaseEnds

\* A granted request is justified: its cause came with it, is the upload
\* service's, for the requester and authorized, every delegation is for the
\* cause's blob, and a request is granted as a whole or not at all.  A release
\* goes ahead only when an authorized removal of that blob from that space is
\* the cause it carries (grantUcan1BlobRetrieve and the loop of
\* NewGrantHandler; validateReleaseCause).
GrantsAreJustified ==
    /\ release.out = "ok" =>
        \E i \in DOMAIN release.carried : LET c == release.carried[i] IN
            /\ c.task = release.cause /\ c.command = "blob/remove" /\ c.authorized
            /\ c.overSpace /\ c.digest = release.digest
    /\ grant.at = "answered" =>
        /\ grant.granted = <<>> <=> grant.out # "ok"
        /\ grant.granted # <<>> =>
             \E c \in grant.cause :
                 /\ c.carried /\ c.forRequester /\ c.byUploadService /\ c.authorized /\ c.command # "other"
                 /\ \A i \in DOMAIN grant.granted : grant.granted[i].digest = c.digest

\* A signature requested within MinTTL of taking its delegation from the cache
\* is not refused for an expired one, whatever the callers that fetch at the
\* same time left in the cache ("the minimum time a cached delegation should
\* still be valid for before it expires", caching.go).
CachedProofLasts ==
    \A c \in Callers_ :
        signing[c].at = "sign" /\ signing[c].cached /\ clock <= signing[c].since + MinTTL => clock < signing[c].proof

\* Both: what the node may do on another's authority.
AuthorityHolds == GrantsAreJustified /\ CachedProofLasts
=============================================================================
