------------------------------ MODULE NodeAPI ------------------------------
(***************************************************************************)
(* The node's HTTP APIs (pkg/pdp/httpapi, pkg/admin/httpapi): the handlers *)
(* of the servers, the error middleware, and the clients with the commands *)
(* built on them, over a network that loses requests and answers and a     *)
(* node that may restart.  An answer is its status code and the kind of    *)
(* its body.  What the piece, root and configuration operations do is      *)
(* modelled elsewhere: here they answer with any of their error kinds.     *)
(***************************************************************************)
EXTENDS ProofSets

CONSTANTS Clients

VARIABLES
    endpoint,     \* what each client takes the server to be: "piri" or "generic"
    calls         \* each client's call: request, place, answer and result

apiVars == <<endpoint, calls>>

LogMutations == {"setLogLevel", "setLogLevelRegex"}
Mutations == {"createProofSet", "addRoots", "removeRoot", "allocatePiece", "uploadPiece",
              "registerProvider", "updateConfig", "reloadConfig"} \cup LogMutations
Queries == {"proofSetStatus", "getProofSet", "proofSetState", "listProofSets",
            "providerStatus", "findPiece", "getConfig", "listLogLevels"}
Unsupported == {"parkPiece", "has", "resolve", "calculateCommP", "pieceURL"}

NoAnswer == [code |-> 0, body |-> "none"]
NoCall == [op |-> "none", form |-> "good", at |-> "idle", tx |-> NoTx, did |-> FALSE,
           answer |-> NoAnswer, created |-> FALSE, result |-> "none", wait |-> FALSE]

ApiInit ==
    /\ SetsInit
    /\ endpoint = [c \in Clients |-> "unknown"]
    /\ calls = [c \in Clients |-> NoCall]

Answer(code, body) == [code |-> code, body |-> body]
Success(a) == a.code \in 200..299

----------------------------------------------------------------------------
(* The error middleware *)

typeErrorStatusMap ==
    [NotFound |-> 404, InvalidInput |-> 400, Unauthorized |-> 401,
     Conflict |-> 409, PayloadTooLarge |-> 413]

\* Mutant: what has no kind is taken for the caller's mistake.
UnmappedIsBadRequest(kind) ==
    IF kind \in DOMAIN typeErrorStatusMap THEN typeErrorStatusMap[kind] ELSE 400

\* extractErrorInfo: a recovered panic and an unmapped kind are a 500.
extractErrorInfo(kind) ==
    IF kind \in DOMAIN typeErrorStatusMap THEN typeErrorStatusMap[kind] ELSE 500

HandleError(kind) == Answer(extractErrorInfo(kind), "error")

\* Bind and parameter errors are InvalidInput where the handler returns them,
\* and a plain text 400 where it answers itself.
Bound(form, answer) == IF form = "bad" THEN HandleError("InvalidInput") ELSE answer
Parsed(form, answer) == IF form = "bad" THEN Answer(400, "text") ELSE answer
Returned(o, answer) == IF o = "ok" THEN answer ELSE HandleError(o)

----------------------------------------------------------------------------
(* The handlers, given the form of the request and the service's outcome *)

handleCreateProofSet(f, o) == Bound(f, Returned(o, Answer(201, "json")))

handleGetProofSetCreationStatus(f, o) == Parsed(f, Returned(o, Answer(200, "json")))

\* Every error of the service is a 500 in plain text.
handleGetProofSet(f, o) ==
    Parsed(f, IF o = "ok" THEN Answer(200, "json") ELSE Answer(500, "text"))

handleGetProofSetState(f, o) == Parsed(f, Returned(o, Answer(200, "json")))

handleListProofSet(o) == Returned(o, Answer(200, "json"))

handleAddRootToProofSet(f, o) == Bound(f, Returned(o, Answer(201, "json")))

\* 204 carries no body, whatever JSON is given to it.
handleDeleteRootFromProofSet(f, o) ==
    Parsed(f, IF o = "ok" THEN Answer(204, "empty") ELSE Answer(500, "text"))

\* An allocation is 201; a piece held already is 200.
handlePreparePiece(f, o) ==
    Bound(f, IF o = "exists" THEN Answer(200, "json") ELSE Returned(o, Answer(201, "json")))

limitUploadBody(f, answer) ==
    IF f = "large" THEN HandleError("PayloadTooLarge") ELSE answer

handlePieceUpload(f, o) ==
    limitUploadBody(f, Parsed(f, Returned(o, Answer(204, "empty"))))

handleRegisterProvider(f, o) == Bound(f, Returned(o, Answer(201, "json")))

handleGetProviderStatus(o) == Returned(o, Answer(200, "json"))

\* Every error is answered by the handler itself.
handleFindPiece(f, o) ==
    Parsed(f, CASE o = "ok"       -> Answer(200, "json")
                [] o = "NotFound" -> Answer(404, "text")
                [] OTHER          -> Answer(500, "text"))

listLogLevels == Answer(200, "json")

\* A level or a system the logging library does not know is refused by it.
setLogLevel(f, o) == Parsed(f, IF o = "ok" THEN Answer(200, "empty") ELSE Answer(400, "text"))
setLogLevelRegex(f, o) == Parsed(f, IF o = "ok" THEN Answer(200, "empty") ELSE Answer(400, "text"))

GetConfigValues == Answer(200, "json")

\* A body that does not bind or has no updates, and the registry's errors.
PatchConfig(f, o) ==
    IF f = "bad" THEN Answer(400, "error")
    ELSE CASE o = "ok"           -> Answer(200, "json")
           [] o = "InvalidInput" -> Answer(400, "error")
           [] OTHER              -> Answer(500, "error")

\* A node without a configuration file has no bridge to reload with.
PostReload(o) ==
    CASE o = "ok"       -> Answer(200, "json")
      [] o = "NoBridge" -> Answer(503, "error")
      [] OTHER          -> Answer(500, "error")

AdminRoutes(op, f, o) ==
    CASE op = "listLogLevels"    -> listLogLevels
      [] op = "setLogLevel"      -> setLogLevel(f, o)
      [] op = "setLogLevelRegex" -> setLogLevelRegex(f, o)
      [] op = "getConfig"        -> GetConfigValues
      [] op = "updateConfig"     -> PatchConfig(f, o)
      [] op = "reloadConfig"     -> PostReload(o)

\* RegisterRoutes: uploads and the ping need no token.
jwtMiddleware(op, f, answer) ==
    IF f = "noToken" /\ op # "uploadPiece" THEN HandleError("Unauthorized") ELSE answer

RegisterRoutes(op, f, o) ==
    jwtMiddleware(op, f,
        CASE op = "createProofSet"   -> handleCreateProofSet(f, o)
          [] op = "proofSetStatus"   -> handleGetProofSetCreationStatus(f, o)
          [] op = "getProofSet"      -> handleGetProofSet(f, o)
          [] op = "proofSetState"    -> handleGetProofSetState(f, o)
          [] op = "listProofSets"    -> handleListProofSet(o)
          [] op = "addRoots"         -> handleAddRootToProofSet(f, o)
          [] op = "removeRoot"       -> handleDeleteRootFromProofSet(f, o)
          [] op = "allocatePiece"    -> handlePreparePiece(f, o)
          [] op = "uploadPiece"      -> handlePieceUpload(f, o)
          [] op = "registerProvider" -> handleRegisterProvider(f, o)
          [] op = "providerStatus"   -> handleGetProviderStatus(o)
          [] op = "findPiece"        -> handleFindPiece(f, o)
          [] OTHER                   -> AdminRoutes(op, f, o))

\* The forms a request to an operation can have.
FormsOf(op) ==
    {"good"} \cup (IF op \in {"listProofSets", "providerStatus", "getConfig", "listLogLevels",
                              "reloadConfig"} THEN {} ELSE {"bad"})
             \cup (IF op = "uploadPiece" THEN {"large"} ELSE {"noToken"})

----------------------------------------------------------------------------
(* The service's outcomes *)

\* What the operations modelled elsewhere may answer.
ServiceOutcomes(op) ==
    CASE op = "addRoots" -> {"ok", "InvalidInput", "NotFound", "Unauthorized", "Other"}
      [] op = "allocatePiece" -> {"ok", "exists", "InvalidInput", "Other"}
      [] op = "uploadPiece" -> {"ok", "NotFound", "InvalidInput", "PayloadTooLarge", "Conflict", "Other"}
      [] op = "removeRoot" -> {"ok", "NotFound", "Other"}
      [] op = "updateConfig" -> {"ok", "InvalidInput", "NotPersisted"}
      [] op = "reloadConfig" -> {"ok", "NoBridge", "InvalidFile"}
      [] op \in LogMutations -> {"ok", "UnknownLevel"}

\* Reads: of the proof sets by their state, of a piece by the resolver.
QueryOutcomes(op, t) ==
    CASE op = "proofSetStatus" -> {IF GetProofSetStatus(t) = "NotFound" THEN "NotFound" ELSE "ok"}
      [] op \in {"getProofSet", "proofSetState"} -> {GetProofSet(t)}
      [] op = "findPiece" -> {"ok", "NotFound", "Other"}
      [] OTHER -> {"ok"}

----------------------------------------------------------------------------
(* The client's reading of an answer *)

verifySuccess(a) == Success(a)
getJsonResponse(a) == Success(a) /\ a.body = "json"

ClientCreateProofSet(a) == a.code = 201 /\ a.body = "json"

\* A generic server's answer is read for its status alone.
ClientAddRoots(e, a) ==
    IF e = "generic" THEN verifySuccess(a) ELSE a.code = 201 /\ a.body = "json"

\* The status is not looked at: any JSON is taken for the answer.
ClientRemoveRoot(e, a) == e = "generic" \/ a.body \in {"json", "error"}

\* From a generic server an allocation must carry a Location, which this server
\* does not send.
ClientAllocatePiece(e, a) ==
    a.body = "json" /\ (a.code = 200 \/ (a.code = 201 /\ e = "piri"))

ClientRegisterProvider(a) == a.code = 201 /\ a.body = "json"

ClientGetProofSetStatus(a) == getJsonResponse(a)
ClientGetProofSet(a) == getJsonResponse(a)
ClientGetProofSetState(a) == getJsonResponse(a)
ClientListProofSet(a) == getJsonResponse(a)
ClientGetProviderStatus(a) == getJsonResponse(a)

\* The admin client.
adminGetJSON(a) == Success(a) /\ a.body = "json"
adminVerifySuccess(a) == Success(a)
AdminUpdateConfig(a) == Success(a) /\ a.body = "json"
AdminReloadConfig(a) == Success(a) /\ a.body = "json"

Accepts(op, e, a) ==
    CASE op = "createProofSet"   -> ClientCreateProofSet(a)
      [] op = "addRoots"         -> ClientAddRoots(e, a)
      [] op = "removeRoot"       -> ClientRemoveRoot(e, a)
      [] op = "allocatePiece"    -> ClientAllocatePiece(e, a)
      [] op = "uploadPiece"      -> verifySuccess(a)
      [] op = "registerProvider" -> ClientRegisterProvider(a)
      [] op = "proofSetStatus"   -> ClientGetProofSetStatus(a)
      [] op = "getProofSet"      -> ClientGetProofSet(a)
      [] op = "proofSetState"    -> ClientGetProofSetState(a)
      [] op = "listProofSets"    -> ClientListProofSet(a)
      [] op = "providerStatus"   -> ClientGetProviderStatus(a)
      [] op = "updateConfig"     -> AdminUpdateConfig(a)
      [] op = "reloadConfig"     -> AdminReloadConfig(a)
      [] op \in LogMutations     -> adminVerifySuccess(a)
      [] OTHER                   -> adminGetJSON(a)

\* The log commands insist on a level and a system or an expression.
RequiresLevel(op, f) == op \in LogMutations /\ f = "bad"

\* Methods that return an error without a request.
Refuses(op, e, f) ==
    \/ op \in Unsupported \/ RequiresLevel(op, f)
    \/ op \in {"proofSetState", "listProofSets"} /\ e = "generic"

----------------------------------------------------------------------------
(* Actions *)

\* The server is pinged; it says what it is unless the ping fails.
detectServerType(c) ==
    \/ endpoint' = [endpoint EXCEPT ![c] = "piri"] /\ UNCHANGED losses
    \/ Lose /\ endpoint' = [endpoint EXCEPT ![c] = "generic"]

New(c) ==
    /\ endpoint[c] = "unknown"
    /\ detectServerType(c)
    /\ UNCHANGED <<setVars, calls>>

sendRequest(c) ==
    /\ endpoint[c] # "unknown" /\ calls[c].op = "none"
    /\ \E op \in Mutations \cup Queries \cup Unsupported :
       \E f \in IF op \in Unsupported THEN {"good"} ELSE FormsOf(op),
          t \in IF op \in {"proofSetStatus", "getProofSet", "proofSetState"} THEN 1..2 ELSE {NoTx},
          w \in IF op = "createProofSet" THEN BOOLEAN ELSE {FALSE} :
          calls' = [calls EXCEPT ![c] = [NoCall EXCEPT
                        !.op = op, !.form = f, !.tx = t, !.wait = w,
                        !.at = IF Refuses(op, endpoint[c], f) THEN "done" ELSE "request",
                        !.result = IF Refuses(op, endpoint[c], f) THEN "error" ELSE "none"]]
    /\ UNCHANGED <<setVars, endpoint, losses>>

\* The answer to c's request, with the service's outcome o and whether it did
\* what was asked.
Respond(c, o, d) ==
    calls' = [calls EXCEPT ![c].at = "response", ![c].did = d,
                           ![c].created = (calls[c].op = "proofSetStatus" /\ calls[c].tx \in dataSets),
                           ![c].answer = RegisterRoutes(calls[c].op, calls[c].form, o)]

Arrived(c, op) == calls[c].at = "request" /\ calls[c].op = op
Reaches(c) == calls[c].form = "good"

\* A request the service does not get to see.
Reject(c) ==
    /\ calls[c].at = "request" /\ ~Reaches(c)
    /\ Respond(c, "ok", FALSE)
    /\ UNCHANGED <<setVars, endpoint, losses>>

\* CreateProofSet: the transaction is sent and then recorded.
ServeCreate(c) ==
    /\ Reaches(c)
    /\ \/ /\ Arrived(c, "createProofSet") /\ SendCreate
          /\ calls' = [calls EXCEPT ![c].at = "record", ![c].tx = Cardinality(DOMAIN txs')]
          /\ UNCHANGED <<creates, losses>>
       \/ /\ Arrived(c, "createProofSet") /\ ~RequireProviderRegistered
          /\ Respond(c, "Other", FALSE)
          /\ UNCHANGED <<txs, creates, losses>>
       \/ /\ calls[c].at = "record"
          /\ \/ RecordCreate(calls[c].tx) /\ Respond(c, "ok", TRUE) /\ UNCHANGED losses
             \/ Lose /\ Respond(c, "Other", TRUE) /\ UNCHANGED creates
          /\ UNCHANGED txs
    /\ UNCHANGED <<registry, dataSets, maxPiece, endpoint>>

ServeRegister(c) ==
    /\ Arrived(c, "registerProvider") /\ Reaches(c)
    /\ \/ RegisterProvider /\ Respond(c, "ok", TRUE)
       \/ GetProviderStatus /\ Respond(c, "Conflict", FALSE) /\ UNCHANGED registry
    /\ UNCHANGED <<txs, creates, dataSets, maxPiece, endpoint, losses>>

\* The other mutations.  An error without a kind may come after the
\* transaction was sent.
ServeOther(c) ==
    /\ Reaches(c)
    /\ \E op \in Mutations \ {"createProofSet", "registerProvider"} :
          /\ Arrived(c, op)
          /\ \E o \in ServiceOutcomes(op), partway \in BOOLEAN :
                Respond(c, o, o \in {"ok", "exists"} \/ (o = "Other" /\ partway))
          /\ IF op = "addRoots" THEN cachedMaxPieceSizeLog2 ELSE UNCHANGED maxPiece
    /\ UNCHANGED <<registry, txs, creates, dataSets, endpoint, losses>>

ServeQuery(c) ==
    /\ Reaches(c) /\ calls[c].at = "request" /\ calls[c].op \in Queries
    /\ \E o \in QueryOutcomes(calls[c].op, calls[c].tx) : Respond(c, o, o = "ok")
    /\ UNCHANGED <<setVars, endpoint, losses>>

ReadAnswer(c) ==
    /\ calls[c].at = "response"
    /\ LET k == calls[c]
           ok == Accepts(k.op, endpoint[c], k.answer)
       IN  calls' = [calls EXCEPT ![c] = [k EXCEPT !.at = "done",
                                                   !.result = IF ok THEN "ok" ELSE "error"]]
    /\ UNCHANGED <<setVars, endpoint, losses>>

checkStatus(c) ==
    /\ calls' = [calls EXCEPT ![c] = [NoCall EXCEPT !.op = "proofSetStatus", !.at = "request",
                                                    !.tx = calls[c].tx, !.wait = TRUE]]
    /\ UNCHANGED <<setVars, endpoint, losses>>

\* create --wait goes on to poll the status ...
doCreate(c) ==
    /\ calls[c].at = "done" /\ calls[c].wait /\ calls[c].result = "ok"
    /\ calls[c].op = "createProofSet"
    /\ checkStatus(c)

\* ... until the proof set is there.
pollProofSetStatus(c) ==
    /\ calls[c].at = "done" /\ calls[c].wait /\ calls[c].result = "ok"
    /\ calls[c].op = "proofSetStatus" /\ ~calls[c].created
    /\ checkStatus(c)

Return(c) ==
    /\ calls[c].at = "done"
    /\ calls' = [calls EXCEPT ![c] = NoCall]
    /\ UNCHANGED <<setVars, endpoint, losses>>

\* The request or the answer is lost: the client has an error, whatever the
\* server did; a handler that is recording a creation may still do so.
ConnectionLost(c) ==
    /\ calls[c].at \in {"request", "record", "response"} /\ Lose
    /\ calls' = [calls EXCEPT ![c].at = "done", ![c].result = "error"]
    /\ UNCHANGED creates \/ (calls[c].at = "record" /\ RecordCreate(calls[c].tx))
    /\ UNCHANGED <<registry, txs, dataSets, maxPiece, endpoint>>

\* The node restarts: every call it was serving is cut off.
NodeRestarts ==
    /\ Lose /\ maxPiece' = FALSE
    /\ calls' = [c \in Clients |-> IF calls[c].at \in {"idle", "done"} THEN calls[c]
                                   ELSE [calls[c] EXCEPT !.at = "done", !.result = "error"]]
    /\ UNCHANGED <<registry, txs, creates, dataSets, endpoint>>

ApiChain ==
    /\ ConfirmRegistration \/ ConfirmCreate \/ FailCreate \/ WatchCreates
    /\ UNCHANGED apiVars

ApiNext ==
    \/ \E c \in Clients :
          \/ New(c) \/ sendRequest(c) \/ Reject(c) \/ ServeCreate(c) \/ ServeRegister(c)
          \/ ServeOther(c) \/ ServeQuery(c) \/ ReadAnswer(c) \/ doCreate(c)
          \/ pollProofSetStatus(c) \/ Return(c) \/ ConnectionLost(c)
    \/ NodeRestarts \/ ApiChain

ApiSpec == ApiInit /\ [][ApiNext]_<<setVars, apiVars, losses>>

----------------------------------------------------------------------------
(* Properties *)

\* What a client concludes is true of the node: success only if the service
\* did what was asked, and a creation so acknowledged is recorded; a refusal
\* (4xx) only if it did not; and following an acknowledged creation never ends
\* in "not found", across restarts and lost answers.  Removing a root is left
\* out: its client does not look at the status.  (The handlers, the error
\* middleware and the client's methods.)
AnswersAreTrue ==
    \A c \in Clients : LET k == calls[c] IN
        /\ k.result = "ok" /\ k.op # "removeRoot" => k.did
        /\ k.result = "ok" /\ k.op = "createProofSet" => k.tx \in creates
        /\ k.answer.code \in 400..499 => ~k.did
        /\ k.wait /\ k.op = "proofSetStatus" => k.answer.code # 404
=============================================================================
