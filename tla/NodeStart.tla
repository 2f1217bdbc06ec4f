------------------------------ MODULE NodeStart ------------------------------
(***************************************************************************)
(* A node's process from start to stop: the components fx builds, the      *)
(* start hooks it runs in order and the stop hooks it runs in the opposite *)
(* one, for `piri serve` and for the node inside `piri init`; the wallet   *)
(* commands beside it; and what a start leaves in the database             *)
(* (provisionPDPState).  The key store is a LevelDB directory, which one   *)
(* process has open at a time.                                             *)
(***************************************************************************)
EXTENDS Integers, Sequences

CONSTANTS
    Owners,          \* wallet addresses
    NoOwner,         \* not an address
    MaxStarts,       \* bound: processes started
    MaxInFlight      \* bound: HTTP requests in flight

ASSUME NodeStartAssumption == NoOwner \notin Owners /\ MaxStarts \in Nat /\ MaxInFlight \in Nat

VARIABLES
    walletKeys,      \* addresses whose key is in the key store
    keyLock,         \* who has the key store open: "none", "node" or "tool"
    pdpKey,          \* the address of eth_keys' role 'pdp', or NoOwner
    serviceRow,      \* whether pdp_services has its row
    configured,      \* the owner address of the configuration file, or NoOwner
    process,         \* [at, mode, owner, hook, failed]
    storesOpen,      \* the object stores
    listening,       \* the HTTP server
    engineOn,        \* the task engine
    inFlight,        \* HTTP requests being served
    tool,            \* the wallet command: [at, op, key]
    starts

stateVars == <<walletKeys, pdpKey, serviceRow, configured>>
partVars == <<storesOpen, listening, engineOn, inFlight>>
startVars == <<stateVars, keyLock, process, partVars, tool, starts>>

\* The hooks in the order fx appends them: the routes are built first, with the
\* stores they need, then the PDP module's invocations run.
Hooks == <<"stores", "echo", "keystore", "provision", "engine", "pipeline", "wallet">>

Down == [at |-> "down", mode |-> "none", owner |-> NoOwner, hook |-> 0, failed |-> FALSE]
NoTool == [at |-> "idle", op |-> "none", key |-> NoOwner]

StartInit ==
    /\ walletKeys = {} /\ keyLock = "none" /\ pdpKey = NoOwner /\ serviceRow = FALSE
    /\ configured = NoOwner /\ process = Down
    /\ storesOpen = FALSE /\ listening = FALSE /\ engineOn = FALSE /\ inFlight = 0
    /\ tool = NoTool /\ starts = 0

-----------------------------------------------------------------------------
\* The node is built: the stores are opened, and the engine takes tasks from
\* its construction on.
Build(mode, owner, at) ==
    /\ process.at = "down" /\ keyLock = "none" /\ starts < MaxStarts
    /\ starts' = starts + 1
    /\ process' = [at |-> at, mode |-> mode, owner |-> owner, hook |-> 1, failed |-> FALSE]
    /\ keyLock' = "node" /\ storesOpen' = TRUE /\ engineOn' = TRUE
    /\ UNCHANGED <<stateVars, listening, inFlight, tool>>

fullServer == configured # NoOwner /\ Build("full", configured, "starting")

\* init imports the key of its wallet file before it starts the node.
BuildInitNode(owner) == Build("init", owner, "built")

Import(a) == walletKeys' = walletKeys \cup {a}

InitImports ==
    /\ process.at = "built"
    /\ Import(process.owner)
    /\ process' = [process EXCEPT !.at = "starting"]
    /\ UNCHANGED <<pdpKey, serviceRow, configured, keyLock, partVars, tool, starts>>

Starting(h) == process.at = "starting" /\ Hooks[process.hook] = h

Started ==
    process' = IF process.hook = Len(Hooks) THEN [process EXCEPT !.at = "running"]
               ELSE [process EXCEPT !.hook = @ + 1]

\* A hook that fails: those that were started are stopped again.
StartFails ==
    process' = [process EXCEPT !.at = "stopping", !.hook = @ - 1, !.failed = TRUE]

\* Hooks with nothing to do at the start, and startPipeline's.
StartQuietly ==
    /\ \E h \in {"stores", "keystore", "engine", "pipeline"} : Starting(h)
    /\ Started
    /\ UNCHANGED <<stateVars, keyLock, partVars, tool, starts>>

\* The server listens in a goroutine; an address in use is only logged.
StartEchoServer ==
    /\ Starting("echo")
    /\ listening' \in BOOLEAN
    /\ Started
    /\ UNCHANGED <<stateVars, keyLock, storesOpen, engineOn, inFlight, tool, starts>>

\* provisionPDPState: the owner's key, then the service's row, each only when
\* there is none; the database may fail.
provisionKey ==
    /\ Starting("provision")
    /\ \/ /\ process.owner \in walletKeys
          /\ pdpKey' = IF pdpKey = NoOwner THEN process.owner ELSE pdpKey
          /\ process' = [process EXCEPT !.at = "provisioning"]
       \/ StartFails /\ UNCHANGED pdpKey
    /\ UNCHANGED <<walletKeys, serviceRow, configured, keyLock, partVars, tool, starts>>

provisionRow ==
    /\ process.at = "provisioning"
    /\ \/ serviceRow' = TRUE /\ process' = [process EXCEPT !.at = "starting", !.hook = @ + 1]
       \/ StartFails /\ UNCHANGED serviceRow
    /\ UNCHANGED <<walletKeys, pdpKey, configured, keyLock, partVars, tool, starts>>

InitializeWallet ==
    /\ Starting("wallet")
    /\ IF process.owner \in walletKeys THEN Started ELSE StartFails
    /\ UNCHANGED <<stateVars, keyLock, partVars, tool, starts>>

-----------------------------------------------------------------------------
\* A signal, or the end of init, which writes the configuration.
Stops ==
    /\ process.at = "running"
    /\ process' = [process EXCEPT !.at = "stopping", !.hook = Len(Hooks)]
    /\ configured' \in IF process.mode = "init" THEN {configured, process.owner} ELSE {configured}
    /\ UNCHANGED <<walletKeys, pdpKey, serviceRow, keyLock, partVars, tool, starts>>

Exits ==
    /\ process' = Down
    /\ storesOpen' = FALSE /\ listening' = FALSE /\ engineOn' = FALSE /\ inFlight' = 0
    /\ keyLock' = IF keyLock = "node" THEN "none" ELSE keyLock

\* Shutdown stops listening at once, and returns when no request is left.
StopEcho ==
    \/ listening /\ listening' = FALSE /\ UNCHANGED <<inFlight, process>>
    \/ /\ ~listening /\ inFlight = 0
       /\ process' = [process EXCEPT !.hook = @ - 1]
       /\ UNCHANGED <<listening, inFlight>>

\* Mutant: the stop hooks run in the order of the start hooks.
StopsStoresFirst(h) ==
    /\ storesOpen' = FALSE
    /\ engineOn' = (engineOn /\ h # "engine")
    /\ keyLock' = IF h = "keystore" THEN "none" ELSE keyLock

\* The stop hooks, last started first.
StopPart(h) ==
    /\ storesOpen' = (storesOpen /\ h # "stores")
    /\ engineOn' = (engineOn /\ h # "engine")
    /\ keyLock' = IF h = "keystore" THEN "none" ELSE keyLock

StopHook ==
    /\ process.at = "stopping" /\ process.hook > 0
    /\ StopPart(Hooks[process.hook])
    /\ IF Hooks[process.hook] = "echo" THEN StopEcho
       ELSE process' = [process EXCEPT !.hook = @ - 1] /\ UNCHANGED <<listening, inFlight>>
    /\ UNCHANGED <<stateVars, tool, starts>>

\* All hooks have run; or the stop timed out, which skips the rest; or the
\* process is killed.
ProcessExits ==
    /\ process.at # "down"
    /\ Exits
    /\ UNCHANGED <<stateVars, tool, starts>>

\* Requests, which are taken from the moment the server listens.
Arrives ==
    /\ listening /\ inFlight < MaxInFlight
    /\ inFlight' = inFlight + 1
    /\ UNCHANGED <<stateVars, keyLock, process, storesOpen, listening, engineOn, tool, starts>>

Answered ==
    /\ inFlight > 0
    /\ inFlight' = inFlight - 1
    /\ UNCHANGED <<stateVars, keyLock, process, storesOpen, listening, engineOn, tool, starts>>

-----------------------------------------------------------------------------
\* The wallet commands have the key store open until they exit.
OpenKeyStore(op, a) ==
    /\ tool.at = "idle" /\ keyLock = "none"
    /\ keyLock' = "tool"
    /\ tool' = [at |-> "open", op |-> op, key |-> a]
    /\ UNCHANGED <<stateVars, process, partVars, starts>>

doImport ==
    /\ tool.at = "open" /\ tool.op = "import"
    /\ Import(tool.key)
    /\ tool' = NoTool /\ keyLock' = "none"
    /\ UNCHANGED <<pdpKey, serviceRow, configured, process, partVars, starts>>

doList ==
    /\ tool.at = "open" /\ tool.op = "list"
    /\ tool' = NoTool /\ keyLock' = "none"
    /\ UNCHANGED <<stateVars, process, partVars, starts>>

\* The operator names another owner in the configuration.
Configure(a) ==
    /\ process.at = "down" /\ configured' = a
    /\ UNCHANGED <<walletKeys, pdpKey, serviceRow, keyLock, process, partVars, tool, starts>>

StartNext ==
    \/ fullServer \/ InitImports \/ StartQuietly \/ StartEchoServer \/ provisionKey \/ provisionRow
    \/ InitializeWallet \/ Stops \/ StopHook \/ ProcessExits \/ Arrives \/ Answered \/ doImport \/ doList
    \/ \E a \in Owners :
          BuildInitNode(a) \/ OpenKeyStore("import", a) \/ OpenKeyStore("list", a) \/ Configure(a)

-----------------------------------------------------------------------------
\* A request is served with the object stores open until it is answered, also
\* one that came before the start was over, or one the shutdown waits for; so
\* does the task engine work, except when a start that failed is undone: the
\* engine's stop hook is not among the hooks that were started then.
\* (StartEchoServer's and the stores' hooks, in fx's order.)
StoresOutliveWork ==
    /\ inFlight > 0 => storesOpen
    /\ engineOn /\ ~process.failed => storesOpen

\* A node that runs has its owner's key in the wallet, a key to sign with that
\* came from the wallet, and the service's row, whatever the starts before it
\* left half done (provisionPDPState, InitializeWallet).
RunningIsProvisioned ==
    process.at = "running" =>
        process.owner \in walletKeys /\ pdpKey \in walletKeys /\ serviceRow

\* Both, through every order of starts, failed starts, stops and exits.
NodeRunsWhole == StoresOutliveWork /\ RunningIsProvisioned
=============================================================================
