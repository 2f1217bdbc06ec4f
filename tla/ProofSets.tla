----------------------------- MODULE ProofSets -----------------------------
(***************************************************************************)
(* Registering a provider and creating proof sets: what PDPService keeps   *)
(* in its database, what it asks of the chain, and Curio's watcher that    *)
(* turns a confirmed creation into a row of pdp_data_sets.  The proof set  *)
(* of a creation has the number of its transaction.                        *)
(***************************************************************************)
EXTENDS Integers, FiniteSets

CONSTANTS
    MaxTx,        \* bound: creation transactions ever sent
    MaxLosses     \* bound: crashes, lost messages and failures of other services

ASSUME ProofSetsAssumption == MaxLosses \in Nat /\ MaxTx \in Nat /\ MaxTx > MaxLosses

VARIABLES
    registry,     \* the provider's registration: "none", "sent" or "confirmed"
    txs,          \* creation transactions sent, and what the chain made of them
    creates,      \* pdp_data_set_creates and message_waits_eth: those recorded
    dataSets,     \* pdp_data_sets
    maxPiece,     \* cached MaxPieceSizeLog2: whether it has been looked up
    losses

setVars == <<registry, txs, creates, dataSets, maxPiece>>

Tx == 1..MaxTx
NoTx == 0
Lose == losses < MaxLosses /\ losses' = losses + 1

SetsInit ==
    /\ registry = "none" /\ txs = <<>> /\ creates = {} /\ dataSets = {}
    /\ maxPiece = FALSE /\ losses = 0

----------------------------------------------------------------------------
\* GetProviderStatus reads the chain alone.
GetProviderStatus == registry = "confirmed"

RequireProviderRegistered == GetProviderStatus

\* RegisterProvider fires the transaction without recording it; it refuses a
\* provider that is registered already.
RegisterProvider == ~GetProviderStatus /\ registry' = "sent"

\* CreateProofSet up to the send: provider checked, signature obtained.
SendCreate ==
    /\ RequireProviderRegistered
    /\ Cardinality(DOMAIN txs) < MaxTx
    /\ txs' = [t \in 1..(Cardinality(DOMAIN txs) + 1) |-> IF t \in DOMAIN txs THEN txs[t] ELSE "sent"]

\* Then both tracking rows in one transaction.
RecordCreate(t) == creates' = creates \cup {t}


\* GetProofSetStatus: not found, or the id once the data set is there.
GetProofSetStatus(t) ==
    IF t \notin creates THEN "NotFound" ELSE IF t \in dataSets THEN "created" ELSE "pending"

ListProofSets == dataSets

GetProofSet(t) == IF t \in dataSets THEN "ok" ELSE "NotFound"

\* cachedMaxPieceSizeLog2 keeps the first answer for the life of the process.
cachedMaxPieceSizeLog2 == maxPiece' = TRUE

----------------------------------------------------------------------------
(* The chain, and Curio's watcher in the running process *)

ConfirmRegistration ==
    /\ registry = "sent" /\ registry' = "confirmed"
    /\ UNCHANGED <<txs, creates, dataSets, maxPiece, losses>>

ConfirmCreate ==
    /\ \E t \in DOMAIN txs : txs[t] = "sent" /\ txs' = [txs EXCEPT ![t] = "confirmed"]
    /\ UNCHANGED <<registry, creates, dataSets, maxPiece, losses>>

\* The chain rejects the transaction; the watcher records that and creates
\* nothing.
FailCreate ==
    /\ Lose
    /\ \E t \in DOMAIN txs : txs[t] = "sent" /\ txs' = [txs EXCEPT ![t] = "failed"]
    /\ UNCHANGED <<registry, creates, dataSets, maxPiece>>

WatchCreates ==
    /\ \E t \in creates \ dataSets :
          txs[t] = "confirmed" /\ dataSets' = dataSets \cup {t}
    /\ UNCHANGED <<registry, txs, creates, maxPiece, losses>>
=============================================================================
