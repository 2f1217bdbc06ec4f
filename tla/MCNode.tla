------------------------------- MODULE MCNode --------------------------------
(***************************************************************************)
(* The instances of the components that share no state with each other or  *)
(* with the blob and pipeline specifications, each checked on its own.     *)
(* `part` is the component that runs; the others stay in one initial       *)
(* state.                                                                  *)
(***************************************************************************)
EXTENDS Installation, NodeAPI, NodeStart, DynamicConfig, RetrievalJournal,
        ObjectStores, AllocationIndex, Retrieval, PieceInfo, Access, AggregateTree

CONSTANTS key1, key2    \* object keys that a move goes between

VARIABLE part

MCMinorOf == [v \in Versions |-> IF v = 4 THEN 2 ELSE 1]
MCRaws == {[type |-> "string", n |-> 2, frac |-> FALSE], [type |-> "float", n |-> 3, frac |-> FALSE]}
MCMoves == {<<key1, key2>>}
MCKeyOf == [l \in Links |-> "key"]
MCRawSizes == 0..1100

setupVars == <<instVars, setVars, apiVars, losses, startVars>>
storeVars == <<cfgVars, journalVars, objectVars, indexVars>>
serveVars == <<retrievalVars, infoVars, accessVars, treeVars>>
nodeVars == <<part, setupVars, storeVars, serveVars>>

\* A component that does not run has one initial state.
Fixed(p, pred) == part # p => pred

NodeInit ==
    /\ part \in {"install", "api", "start", "config", "journal", "objects", "index",
                 "retrieval", "info", "client", "grant", "release", "tree"}
    /\ InstInit /\ Fixed("install", solo.v = None)
    /\ ApiInit /\ StartInit
    /\ CfgInit /\ Fixed("config", ~persister)
    /\ JournalInit
    /\ ObjectInit /\ Fixed("objects", backend = "flatfs")
    /\ IndexInit
    /\ RetrievalInit /\ Fixed("retrieval", use = "retrieve" /\ store = "flatfs" /\ length = 0 /\ ~held /\ ~allocated)
    /\ PieceInfoInit /\ Fixed("info", receiptBackend = "postgres")
    /\ AccessInit
    /\ TreeInit /\ Fixed("tree", pieces = <<1>>)

SetupNext ==
    \/ part = "install" /\ InstNext /\ UNCHANGED <<setVars, apiVars, losses, startVars>>
    \/ part = "api" /\ ApiNext /\ UNCHANGED <<instVars, startVars>>
    \/ part = "start" /\ StartNext /\ UNCHANGED <<instVars, setVars, apiVars, losses>>

StoreNext ==
    \/ part = "config" /\ CfgNext /\ UNCHANGED <<journalVars, objectVars, indexVars>>
    \/ part = "journal" /\ JournalNext /\ UNCHANGED <<cfgVars, objectVars, indexVars>>
    \/ part = "objects" /\ ObjectNext /\ UNCHANGED <<cfgVars, journalVars, indexVars>>
    \/ part = "index" /\ IndexNext /\ UNCHANGED <<cfgVars, journalVars, objectVars>>

ServeNext ==
    \/ part = "retrieval" /\ RetrievalNext /\ UNCHANGED <<infoVars, accessVars, treeVars>>
    \/ part = "info" /\ PieceInfoNext /\ UNCHANGED <<retrievalVars, accessVars, treeVars>>
    \/ part = "client" /\ ClientNext /\ UNCHANGED <<retrievalVars, infoVars, treeVars>>
    \/ part = "grant" /\ GrantNext /\ UNCHANGED <<retrievalVars, infoVars, treeVars>>
    \/ part = "release" /\ ReleaseNext /\ UNCHANGED <<retrievalVars, infoVars, treeVars>>
    \/ part = "tree" /\ TreeNext /\ UNCHANGED <<retrievalVars, infoVars, accessVars>>

NodeNext ==
    /\ UNCHANGED part
    /\ \/ SetupNext /\ UNCHANGED <<storeVars, serveVars>>
       \/ StoreNext /\ UNCHANGED <<setupVars, serveVars>>
       \/ ServeNext /\ UNCHANGED <<setupVars, storeVars>>

NodeSpec == NodeInit /\ [][NodeNext]_nodeVars
=============================================================================
