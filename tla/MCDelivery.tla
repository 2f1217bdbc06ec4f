----------------------------- MODULE MCDelivery ------------------------------
(***************************************************************************)
(* The instances of four components that share no state, each checked on   *)
(* its own: the job queue, the publisher, the proof cache and the init     *)
(* command.  `part` is the component that runs; the others stay as they    *)
(* are initially.                                                          *)
(***************************************************************************)
EXTENDS JobQueue, Publisher, ProofCache, Registration

CONSTANTS
    n1, n2,     \* the nodes that publish
    p1, p2,     \* the pieces to cache
    k1          \* the one context of all claims

VARIABLE part

regVars == <<setVars, initVars, losses>>
deliveryVars == <<part, queueVars, pubVars, cacheVars, regVars>>

MCContextOf == [c \in Claims |-> k1]

DeliveryInit ==
    /\ part \in {"queue", "publisher", "cache", "init"}
    /\ QueueInit /\ PubInit /\ ProofCacheInit /\ RegInit
    /\ part # "queue" => NewPlain
    /\ part # "publisher" => specless = {}

QueueDoes(A) == part = "queue" /\ A /\ UNCHANGED <<part, pubVars, cacheVars, regVars>>
PublisherDoes(A) == part = "publisher" /\ A /\ UNCHANGED <<part, queueVars, cacheVars, regVars>>
CacheDoes(A) == part = "cache" /\ A /\ UNCHANGED <<part, queueVars, pubVars, regVars>>
InitDoes(A) == part = "init" /\ A /\ UNCHANGED <<part, queueVars, pubVars, cacheVars>>

DeliveryNext ==
    \/ QueueDoes(QueueNext)
    \/ PublisherDoes(PubNext)
    \/ CacheDoes(ProofCacheNext)
    \/ InitDoes(RegNext)

\* The fairness of each component.  `part` never changes, so fairness of a
\* disjunction of steps of different parts is fairness of each of them.
Fair(q, b, c, i) == QueueDoes(q) \/ PublisherDoes(b) \/ CacheDoes(c) \/ InitDoes(i)
DeliveryFairness ==
    /\ WF_deliveryVars(Fair(Start, Releases, reclaimOrphanedSaveCaches, Initializing))
    /\ WF_deliveryVars(Fair(phase = "stopping" /\ ProcessEnds, Flush, ScheduleSaveCache(p1), Settles))
    /\ WF_deliveryVars(Fair(Deliver, Publishes(n1), ScheduleSaveCache(p2), FALSE))
    /\ WF_deliveryVars(Fair(Time, Publishes(n2), AddPDPLayer(p1), FALSE))
    /\ WF_deliveryVars(Fair(Finish, FALSE, AddPDPLayer(p2), FALSE))
    /\ SF_deliveryVars(PublisherDoes(Do(n1)))
    /\ SF_deliveryVars(PublisherDoes(Do(n2)))

DeliverySpec == DeliveryInit /\ [][DeliveryNext]_deliveryVars /\ DeliveryFairness
=============================================================================
