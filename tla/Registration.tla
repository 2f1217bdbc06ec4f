---------------------------- MODULE Registration ----------------------------
(***************************************************************************)
(* piri init (cmd/cli/setup/register.go): six steps that register the      *)
(* provider, set up its proof set, register the node with the delegator    *)
(* and write the configuration.  The command may end at any step, by an    *)
(* error or with the process, and the operator runs it again.              *)
(***************************************************************************)
EXTENDS ProofSets

VARIABLES
    init,         \* the command: its step, its creation transaction, its proof set
    delegator,    \* the proof set the delegator has for this node
    config,       \* the configuration file: absent, truncated, or its proof set
    imported,     \* whether the wallet key is in the keystore
    cut           \* history: a run ended between sending a creation and its proof set

initVars == <<init, delegator, config, imported, cut>>

Absent == -1
Truncated == -2
NotRunning == [at |-> "idle", tx |-> NoTx, id |-> NoTx]
At(s) == init.at = s
Goto(s) == init' = [init EXCEPT !.at = s]
Ends == init' = NotRunning

RegInit ==
    /\ SetsInit
    /\ init = NotRunning /\ delegator = NoTx /\ config = Absent /\ imported = FALSE
    /\ cut = FALSE

----------------------------------------------------------------------------
(* Step 1: the flags *)

Flags == [network : {"none", "known", "unknown"}, base : {"none", "valid", "broken"}, scheme : BOOLEAN,
          s3 : {"none", "part", "full"}, baseS3 : {"none", "valid", "broken"},
          db : {"none", "sqlite", "postgres", "postgresNoURL", "other"}]

\* loadBaseConfig refuses what telemetry setup would refuse at startup.
loadBaseConfig(f) == f.base = "valid"

\* loadPresets: exactly one of a known --network and a --base-config.
loadPresets(f) ==
    \/ f.network = "known" /\ f.base = "none"
    \/ f.network = "none" /\ loadBaseConfig(f)

\* The S3 flags come with both an endpoint and a bucket prefix, the database type
\* is a known one and PostgreSQL comes with a URL.
storageFlags(f) == f.s3 # "part" /\ f.db \notin {"other", "postgresNoURL"}

\* The base configuration's S3 is used, and so checked, where no S3 flag is given;
\* its database type is taken as it is, and one the node does not know is SQLite.
mergeBaseConfig(f) == f.network = "none" /\ f.s3 = "none" => f.baseS3 # "broken"

\* scheme: the public URL, and the PLC directory if given, have one.
parseAndValidateFlags(f) ==
    loadPresets(f) /\ f.scheme /\ storageFlags(f) /\ mergeBaseConfig(f)

doInit ==
    /\ At("idle")
    /\ \E f \in Flags : parseAndValidateFlags(f)
    /\ Goto("node")
    /\ UNCHANGED <<setVars, losses, delegator, config, imported, cut>>

----------------------------------------------------------------------------
(* Steps 2 to 6 *)

\* createNode imports the wallet before it starts the application, which checks
\* for it.
createNode ==
    /\ At("node") /\ Goto("register")
    /\ imported' = TRUE
    /\ UNCHANGED <<setVars, losses, delegator, config, cut>>

\* registerWithContract: registered already, or send and poll.
registerWithContract ==
    /\ \/ At("register") /\ GetProviderStatus /\ Goto("proofSet") /\ UNCHANGED registry
       \/ At("register") /\ RegisterProvider /\ Goto("awaitRegistration")
       \/ At("awaitRegistration") /\ GetProviderStatus /\ Goto("proofSet") /\ UNCHANGED registry
    /\ UNCHANGED <<txs, creates, dataSets, maxPiece, losses, delegator, config, imported, cut>>


\* setupProofSet: more than one proof set is an error, one is used, none is
\* created.
setupProofSet ==
    /\ At("proofSet")
    /\ \/ Cardinality(ListProofSets) > 1 /\ Ends /\ UNCHANGED txs
       \/ \E t \in ListProofSets :
             /\ Cardinality(ListProofSets) = 1
             /\ init' = [init EXCEPT !.at = "delegator", !.id = t] /\ UNCHANGED txs
       \/ /\ ListProofSets = {} /\ SendCreate
          /\ init' = [init EXCEPT !.at = "record", !.tx = Cardinality(DOMAIN txs')]
    /\ UNCHANGED <<registry, creates, dataSets, maxPiece, losses, delegator, config, imported, cut>>

RecordOwnCreate ==
    /\ At("record") /\ Goto("awaitProofSet")
    /\ RecordCreate(init.tx)
    /\ UNCHANGED <<registry, txs, dataSets, maxPiece, losses, delegator, config, imported, cut>>

\* The poll of GetProofSetStatus ends only with a proof set.
AwaitProofSet ==
    /\ At("awaitProofSet") /\ GetProofSetStatus(init.tx) = "created"
    /\ init' = [init EXCEPT !.at = "delegator", !.id = init.tx]
    /\ UNCHANGED <<setVars, losses, delegator, config, imported, cut>>

\* registerWithDelegator: register unless registered, then request the proofs.
registerWithDelegator ==
    /\ At("delegator") /\ Goto("proofs")
    /\ delegator' = IF delegator = NoTx THEN init.id ELSE delegator
    /\ UNCHANGED <<setVars, losses, config, imported, cut>>

\* encodeProofChain refuses a container that does not decode or is empty.
encodeProofChain ==
    /\ At("proofs")
    /\ \E decodes, some \in BOOLEAN :
          IF decodes /\ some THEN Goto("write") ELSE Ends
    /\ UNCHANGED <<setVars, losses, delegator, config, imported, cut>>

\* The configuration file is created, which truncates it, and written; if it
\* cannot be created the configuration goes to stdout alone.
generateConfig ==
    /\ \/ At("write") /\ config' = Truncated /\ Goto("written")
       \/ At("write") /\ UNCHANGED config /\ Ends
       \/ At("written") /\ config' = init.id /\ Ends
    /\ UNCHANGED <<setVars, losses, delegator, imported, cut>>

\* An error of the chain, the database or the delegator, or the end of the
\* process.  A new process looks the maximum piece size up again.
InitAborts ==
    /\ ~At("idle") /\ Lose
    /\ Ends /\ maxPiece' = FALSE
    /\ cut' = (cut \/ At("record") \/ At("awaitProofSet"))
    /\ UNCHANGED <<registry, txs, creates, dataSets, delegator, config, imported>>

Initializing ==
    \/ createNode \/ registerWithContract \/ setupProofSet \/ RecordOwnCreate
    \/ AwaitProofSet \/ registerWithDelegator \/ encodeProofChain \/ generateConfig

Chain ==
    /\ ConfirmRegistration \/ ConfirmCreate \/ FailCreate \/ (~At("idle") /\ WatchCreates)
    /\ UNCHANGED initVars

RegNext == doInit \/ Initializing \/ InitAborts \/ Chain

Settles ==
    /\ ConfirmRegistration \/ ConfirmCreate \/ (~At("idle") /\ WatchCreates)
    /\ UNCHANGED initVars

\* The chain includes what was sent, the watcher runs while the process does,
\* and the command goes on.
RegFairness ==
    /\ WF_<<setVars, initVars, losses>>(Initializing)
    /\ WF_<<setVars, initVars, losses>>(Settles)

RegSpec == RegInit /\ [][RegNext]_<<setVars, initVars, losses>> /\ RegFairness

----------------------------------------------------------------------------
(* Properties *)

\* However often init is interrupted and run again, a configuration it has
\* written names the proof set the delegator has for this node, and that proof
\* set is on the chain and known to the node: one of several is never picked.
\* (setupProofSet, registerWithDelegator.)
ConfigMatchesDelegator ==
    config \in Tx => delegator = config /\ config \in dataSets /\ txs[config] = "confirmed"

\* However often init fails and is run again, it creates one proof set, as long
\* as no run ended between sending the creation and seeing its proof set.
\* (setupProofSet reuses what ListProofSets finds.)
OneProofSet == ~cut => Cardinality(DOMAIN txs) <= 1


=============================================================================
