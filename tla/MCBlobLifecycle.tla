--------------------------- MODULE MCBlobLifecycle ---------------------------
(***************************************************************************)
(* The instances of BlobLifecycle that TLC checks.  A run takes one or     *)
(* more scenarios, and `scenario` says which one a behaviour is in:        *)
(*   hashed    two spaces share a blob allocated with its digest;          *)
(*   contents  one task without a digest may receive either of two blobs;  *)
(*   stopped   one request at a time, and its upload stops or is expired;  *)
(*   same      two tasks of a space receive the same blob;                 *)
(*   retry     a task is allocated again, and uploads stop or fail;        *)
(*   failed    two spaces share a blob, and a second upload of it fails.   *)
(***************************************************************************)
EXTENDS BlobLifecycle, Integers, FiniteSets, TLC

CONSTANTS
    Scenarios,
    d1, d2, s1, s2,     \* digests and spaces
    h1, h2,             \* links that name d1, in s1 and in s2
    x1, x2              \* links that name no digest, both in s1

VARIABLE scenario

MCSpaceOf == [l \in Links |-> IF l = h2 THEN s2 ELSE s1]
MCDigestOf == [l \in Links |-> IF l \in {h1, h2} THEN d1 ELSE NoDigest]

\* What belongs to each scenario.
Tasks == [hashed |-> {h1, h2}, contents |-> {x1}, stopped |-> {x1}, same |-> {x1, x2},
          retry |-> {h1, x1}, failed |-> {h1, h2}]
Contents == [hashed |-> {d1}, contents |-> {d1, d2}, stopped |-> {d1}, same |-> {d1},
             retry |-> {d1}, failed |-> {d1}]
InSpaces == [hashed |-> {s1, s2}, contents |-> {s1}, stopped |-> {s1}, same |-> {s1},
             retry |-> {s1}, failed |-> {s1, s2}]
Operations ==
    [hashed |-> {"allocate", "accept", "reject", "release"},
     contents |-> {"allocateUnhashed", "accept", "reject", "expire", "release"},
     stopped |-> {"allocateUnhashed", "accept", "reject", "expire", "release"},
     same |-> {"allocateUnhashed", "accept", "reject", "expire"},
     retry |-> {"allocate", "allocateUnhashed", "reject"},
     failed |-> {"allocate", "accept", "reject", "release"}]
MaxRequests == [hashed |-> 2, contents |-> 2, stopped |-> 1, same |-> 2, retry |-> 1, failed |-> 1]

\* The requests in progress, the uploads and the sweep are the scenario's.
InScenario ==
    /\ \A t \in Txs : tx[t].at \notin {"idle", "after"} =>
         /\ tx[t].op \in Operations[scenario]
         /\ \/ tx[t].link \in Tasks[scenario]
            \/ tx[t].link = NoLink /\ (scenario = "hashed" \/ tx[t].op = "release")
         /\ tx[t].digest \in Contents[scenario] \cup {NoDigest} /\ tx[t].space \in InSpaces[scenario]
    /\ Cardinality({t \in Txs : tx[t].at # "idle"}) <= MaxRequests[scenario]
    /\ \A u \in Uploads : put[u].digest \in Contents[scenario] \cup {NoDigest}
    /\ scenario \in {"retry", "failed"} \/ \A u \in Uploads : put[u].at # "undo"
    /\ scenario \in {"hashed", "contents", "stopped"} \/ sweep.at = "idle"

\* Uploads stop in three scenarios, two of them with the sweep.  A task that has
\* had an upload is allocated again in a retry, and in "same" while it is pending.
Usual ==
    /\ scenario \in {"hashed", "stopped", "retry"} \/ \A u \in Uploads : ~PutStops(u)
    /\ scenario = "retry" \/ \A t \in Txs :
         tx[t].at = "idle" /\ tx'[t].op = "allocateUnhashed" =>
             \/ \A u \in Uploads : rowLink[u] # tx'[t].link
             \/ scenario = "same" /\ Pending(tx'[t].link)

ScenarioInit == scenario \in Scenarios /\ Init
ScenarioNext == UNCHANGED scenario /\ Next /\ InScenario' /\ Usual
ScenarioSpec == ScenarioInit /\ [][ScenarioNext]_<<vars, scenario>>

\* Received uploads, and the records of an upload, where no upload stops: a
\* received upload stays claimed and held (ReceivedIsClaimed, ReceivedIsHeld).
ReceivedIsKept == scenario = "same" => ReceivedIsClaimed /\ ReceivedIsHeld

\* Uploads, pending records and claims go together (OneUploadPerTask,
\* NeitherWithoutTheOther, ClaimsAreOwned).
RecordsGoTogether ==
    scenario = "same" => OneUploadPerTask /\ NeitherWithoutTheOther /\ ClaimsAreOwned


Symmetry == Permutations(Txs) \cup Permutations(Uploads)
=============================================================================
