------------------------------ MODULE Publisher ------------------------------
(***************************************************************************)
(* pkg/service/publisher and pkg/store/ipnistore: location claims queued   *)
(* by /blob/accept, withdrawn by /blob/release, and published in batches   *)
(* on the node's IPNI advertisement chain.                                 *)
(*                                                                         *)
(* A claim advertises a context (its space and content).  The chain is the *)
(* sequence of claims its head leads to.  Row locks are not a variable: a  *)
(* row is locked while an open release has deleted it or a publisher's     *)
(* transaction has loaded it.  The engine that runs tasks is Curio's.      *)
(***************************************************************************)
EXTENDS Integers, SequencesExt

CONSTANTS
    Claims, ContextOf,   \* location claims, and the context each advertises
    NoClaim,
    OldClaims,           \* claims that may have been queued before rows held a spec
    Nodes,
    BatchSize,           \* publishBatchSize
    MaxTasks,            \* bound: publish tasks ever created
    MaxTroubles          \* bound: crashes, reassignments, failed commits and tasks given up

ASSUME PublisherAssumption ==
    /\ OldClaims \subseteq Claims /\ NoClaim \notin Claims
    /\ BatchSize \in Nat \ {0}

VARIABLES
    specless,   \* the claims of rows without a spec
    adverts,    \* ipni_pending_adverts, oldest first: claim and publish_task_id (0: NULL)
    claim,      \* where a claim is: new, accepted, withdrawing, releasing, released
    tasks,      \* publish tasks the engine has: id to owner
    created,    \* tasks ever created
    mu,         \* the publishing lock of each node: "free", "publish" or a claim
    pub,        \* PublishClaimed on each node
    chain, contexts,    \* the head, as what it leads to, and ipni_contexts
    announced,  \* the chain the announced indexers know
    troubles

pubVars == <<specless, adverts, claim, tasks, created, mu, pub, chain, contexts, announced, troubles>>

Contexts == {ContextOf[c] : c \in Claims}
Idle == [at |-> "idle", task |-> 0, batch |-> <<>>, oldHead |-> <<>>, new |-> <<>>]

Queued == {adverts[i].claim : i \in DOMAIN adverts}
RowsOf(t) == SelectSeq(adverts, LAMBDA r : r.task = t)
LoadedBy(n) == {pub[n].batch[i] : i \in DOMAIN pub[n].batch}
Loaded == UNION {LoadedBy(n) : n \in Nodes}
Deleted == {c \in Claims : claim[c] = "releasing"}

PubInit ==
    /\ specless \in SUBSET OldClaims
    /\ adverts = [i \in 1..Cardinality(specless) |-> [claim |-> SetToSeq(specless)[i], task |-> 0]]
    /\ claim = [c \in Claims |-> IF c \in specless THEN "accepted" ELSE "new"]
    /\ tasks = <<>> /\ created = 0
    /\ mu = [n \in Nodes |-> "free"] /\ pub = [n \in Nodes |-> Idle]
    /\ chain = <<>> /\ contexts = [k \in Contexts |-> NoClaim]
    /\ announced = <<>> /\ troubles = 0

Trouble_ == troubles < MaxTroubles /\ troubles' = troubles + 1
----------------------------------------------------------------------------
\* DBQueue.Enqueue: a claim already queued is left as it is.
Enqueue(c) == adverts' = IF c \in Queued THEN adverts ELSE Append(adverts, [claim |-> c, task |-> 0])

\* Publish, in the accept's transaction, at its commit; the indexing service is
\* told after it (CacheClaim), once, which changes nothing here.
Publish(c) ==
    /\ claim[c] = "new"
    /\ claim' = [claim EXCEPT ![c] = "accepted"]
    /\ Enqueue(c)
    /\ UNCHANGED <<specless, tasks, created, mu, pub, chain, contexts, announced, troubles>>

\* Withdraw, called in a release's transaction: take the publishing lock ...
Withdraw(c, n) ==
    /\ claim[c] = "accepted"
    /\ mu[n] = "free"
    /\ mu' = [mu EXCEPT ![n] = c]
    /\ claim' = [claim EXCEPT ![c] = "withdrawing"]
    /\ UNCHANGED <<specless, adverts, tasks, created, pub, chain, contexts, announced, troubles>>

\* Mutant: a claim that is being published is dequeued all the same.
DequeueAtOnce(c, n) ==
    /\ mu[n] = c
    /\ mu' = [mu EXCEPT ![n] = "free"]
    /\ claim' = [claim EXCEPT ![c] = "releasing"]
    /\ UNCHANGED <<specless, adverts, tasks, created, pub, chain, contexts, announced, troubles>>

\* ... Dequeue, which waits for a publisher that has loaded the row, and let go
\* of the lock.  The row stays locked until the release ends.
Dequeue(c, n) ==
    /\ mu[n] = c
    /\ c \notin Loaded
    /\ mu' = [mu EXCEPT ![n] = "free"]
    /\ claim' = [claim EXCEPT ![c] = "releasing"]
    /\ UNCHANGED <<specless, adverts, tasks, created, pub, chain, contexts, announced, troubles>>

\* The release commits, or rolls back.
ReleaseEnds(c) ==
    /\ claim[c] = "releasing"
    /\ \/ /\ claim' = [claim EXCEPT ![c] = "released"]
          /\ adverts' = SelectSeq(adverts, LAMBDA r : r.claim # c)
          /\ UNCHANGED troubles
       \/ /\ claim' = [claim EXCEPT ![c] = "accepted"]
          /\ UNCHANGED adverts
          /\ Trouble_
    /\ UNCHANGED <<specless, tasks, created, mu, pub, chain, contexts, announced>>
----------------------------------------------------------------------------
\* Mutant: orphans stay assigned.
ReclaimIdle ==
    /\ \E i \in DOMAIN adverts : adverts[i].task \notin DOMAIN tasks \cup {0}
    /\ tasks = <<>> /\ created = 0
    /\ UNCHANGED pubVars

\* flush: reclaimOrphans ...
ReclaimOrphans ==
    /\ \E i \in DOMAIN adverts : adverts[i].task \notin DOMAIN tasks \cup {0}
    /\ adverts' = [i \in DOMAIN adverts |->
                     IF adverts[i].task \in DOMAIN tasks THEN adverts[i] ELSE [adverts[i] EXCEPT !.task = 0]]
    /\ UNCHANGED <<specless, claim, tasks, created, mu, pub, chain, contexts, announced, troubles>>

\* claimBatch: the oldest unclaimed rows; it waits for a row that is locked.
Unclaimed == SelectSeq([i \in DOMAIN adverts |-> i], LAMBDA i : adverts[i].task = 0)
ClaimBatch == ToSet(SubSeq(Unclaimed, 1, IF Len(Unclaimed) < BatchSize THEN Len(Unclaimed) ELSE BatchSize))

\* ... then schedule: a task and its batch, or none if no row is unclaimed.
Schedule(n) ==
    /\ created < MaxTasks
    /\ ClaimBatch # {}
    /\ \A i \in ClaimBatch : adverts[i].claim \notin Deleted \cup Loaded
    /\ created' = created + 1
    /\ tasks' = [t \in DOMAIN tasks \cup {created'} |-> IF t = created' THEN n ELSE tasks[t]]
    /\ adverts' = [i \in DOMAIN adverts |-> IF i \in ClaimBatch THEN [adverts[i] EXCEPT !.task = created'] ELSE adverts[i]]
    /\ UNCHANGED <<specless, claim, mu, pub, chain, contexts, announced, troubles>>

\* Do: the worker that owns the task starts PublishClaimed, under the lock.
Do(n) ==
    /\ pub[n].at = "idle"
    /\ mu[n] = "free"
    /\ \E t \in DOMAIN tasks :
         /\ tasks[t] = n
         /\ pub' = [pub EXCEPT ![n] = [Idle EXCEPT !.at = "locked", !.task = t]]
    /\ mu' = [mu EXCEPT ![n] = "publish"]
    /\ UNCHANGED <<specless, adverts, claim, tasks, created, chain, contexts, announced, troubles>>

\* Claimed: the rows of the task, locked; an open release or another publisher
\* that holds one of them is waited for.
Claimed(n) ==
    LET batch == [i \in DOMAIN RowsOf(pub[n].task) |-> RowsOf(pub[n].task)[i].claim]
    IN  /\ pub[n].at = "locked"
        /\ ToSet(batch) \cap (Deleted \cup Loaded) = {}
        /\ pub' = [pub EXCEPT ![n].at = "loaded", ![n].batch = batch]
        /\ UNCHANGED <<specless, adverts, claim, tasks, created, mu, chain, contexts, announced, troubles>>

\* A row without a usable spec is skipped; go-ipni-tools skips a claim that its
\* context already advertises.
Specs(n) == SelectSeq(pub[n].batch, LAMBDA c : c \notin specless)
LastFor(s, k, none) ==
    LET of == SelectSeq(s, LAMBDA c : ContextOf[c] = k) IN IF of = <<>> THEN none ELSE Last(of)

\* PublishBatch of go-ipni-tools: read the head and the contexts (LoadContexts),
\* and store the new advertisements.
PublishBatch(n) ==
    /\ pub[n].at = "loaded"
    /\ pub' = [pub EXCEPT ![n].at = "built", ![n].oldHead = chain,
                          ![n].new = SelectSeq(Specs(n), LAMBDA c : contexts[ContextOf[c]] # c)]
    /\ UNCHANGED <<specless, adverts, claim, tasks, created, mu, chain, contexts, announced, troubles>>

\* Mutant: the head is replaced whatever it is now.
HeadReplaced(n) == pub[n].at = "built"

\* ReplaceHead: compare and swap.
HeadUnmoved(n) == chain = pub[n].oldHead

\* CommitBatch, Retire and the commit of the transaction: the contexts, the
\* head and the rows change together.
CommitBatch(n) ==
    /\ pub[n].at = "built"
    /\ IF pub[n].new = <<>>
       THEN UNCHANGED <<chain, contexts>>
       ELSE /\ HeadUnmoved(n)
            /\ chain' = pub[n].oldHead \o pub[n].new
            /\ contexts' = [k \in Contexts |-> LastFor(pub[n].new, k, contexts[k])]
    /\ adverts' = SelectSeq(adverts, LAMBDA r : r.task # pub[n].task)
    /\ pub' = [pub EXCEPT ![n] = [Idle EXCEPT !.at = "committed", !.task = pub[n].task]]
    /\ UNCHANGED <<specless, claim, tasks, created, mu, announced, troubles>>

\* After the commit the head is announced; a failure to is only logged.  The
\* engine removes the task.
Announce(n) ==
    /\ pub[n].at = "committed"
    /\ announced' \in {announced, chain}
    /\ pub' = [pub EXCEPT ![n] = Idle]
    /\ mu' = [mu EXCEPT ![n] = "free"]
    /\ tasks' = [t \in DOMAIN tasks \ {pub[n].task} |-> tasks[t]]
    /\ UNCHANGED <<specless, adverts, claim, created, chain, contexts, troubles>>

----------------------------------------------------------------------------
\* A run fails, on a head that moved or any error before the commit, and is
\* rolled back.  The engine tries the task again, and gives up after MaxFailures.
PublishFails(n) ==
    /\ pub[n].at \in {"locked", "loaded", "built"}
    /\ \/ pub[n].new # <<>> /\ ~HeadUnmoved(n) /\ UNCHANGED <<troubles, tasks>>
       \/ Trouble_ /\ tasks' \in {tasks, [t \in DOMAIN tasks \ {pub[n].task} |-> tasks[t]]}
    /\ pub' = [pub EXCEPT ![n] = Idle]
    /\ mu' = [mu EXCEPT ![n] = "free"]
    /\ UNCHANGED <<specless, adverts, claim, created, chain, contexts, announced>>

\* The engine gives a task to another node, because its owner crashed or only
\* because it took too long and still runs.
Reassign(t, n) ==
    /\ Trouble_
    /\ tasks[t] # n
    /\ tasks' = [tasks EXCEPT ![t] = n]
    /\ UNCHANGED <<specless, adverts, claim, created, mu, pub, chain, contexts, announced>>

Crash(n) ==
    /\ Trouble_
    /\ pub' = [pub EXCEPT ![n] = Idle]
    /\ mu' = [mu EXCEPT ![n] = "free"]
    /\ claim' = [c \in Claims |-> IF mu[n] = c THEN "accepted" ELSE claim[c]]
    /\ UNCHANGED <<specless, adverts, tasks, created, chain, contexts, announced>>

Releases == \E c \in Claims : ReleaseEnds(c) \/ \E n \in Nodes : Dequeue(c, n)
Publishing == \E n \in Nodes : Do(n) \/ Claimed(n) \/ PublishBatch(n) \/ CommitBatch(n) \/ Announce(n)
Flush == ReclaimOrphans \/ \E n \in Nodes : Schedule(n)

PubNext ==
    \/ \E c \in Claims : Publish(c) \/ \E n \in Nodes : Withdraw(c, n)
    \/ Releases \/ Flush \/ Publishing
    \/ \E n \in Nodes : PublishFails(n) \/ Crash(n) \/ \E t \in DOMAIN tasks : Reassign(t, n)

\* A run that has begun goes on, or fails.
Publishes(n) ==
    pub[n].at # "idle" /\ (Claimed(n) \/ PublishBatch(n) \/ CommitBatch(n) \/ Announce(n) \/ PublishFails(n))

\* The ticker flushes, the engine runs the tasks it has and retries a batch
\* whose head moved, and the releases that have begun end.
PubFairness ==
    /\ WF_pubVars(Releases) /\ WF_pubVars(Flush)
    /\ \A n \in Nodes : WF_pubVars(Publishes(n))
    /\ \A n \in Nodes : SF_pubVars(Do(n))

PubSpec == PubInit /\ [][PubNext]_pubVars /\ PubFairness
----------------------------------------------------------------------------
\* No location of a released blob is published after its release has committed,
\* on whichever node the two run: Withdraw's promise.
ReleasedStaysOut ==
    [][\A c \in Claims : claim[c] = "released" =>
          Len(SelectSeq(chain', LAMBDA x : x = c)) <= Len(SelectSeq(chain, LAMBDA x : x = c))]_pubVars

\* The chain holds an advertisement for what ipni_contexts says is advertised,
\* and it is the latest of its context: no batch is published twice, none is
\* cut off by a head another node moved.
ChainMatchesContexts ==
    /\ \A k \in Contexts : contexts[k] = LastFor(chain, k, NoClaim)
    /\ \A i \in 1..Len(chain) : \A j \in 1..(i - 1) :
          ContextOf[chain[i]] = ContextOf[chain[j]] =>
            chain[i] # chain[j] \/ \E m \in (j + 1)..(i - 1) : ContextOf[chain[m]] = ContextOf[chain[i]] /\ chain[m] # chain[i]
    /\ IsPrefix(announced, chain)

\* Every queued claim is advertised or withdrawn, whatever task fails or node
\* crashes: a row is never left stamped with a task nobody will run.
QueuedIsServed ==
    \A c \in Claims : c \in Queued ~> c \notin Queued
=============================================================================
