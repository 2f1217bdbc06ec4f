------------------------------ MODULE PieceInfo ------------------------------
(***************************************************************************)
(* What the node says about a blob's piece: the piece resolver and its     *)
(* cache, the /pdp/accept receipts that AcceptPieces stores for the pieces *)
(* of an aggregate, the receipt store in its two forms (Postgres, and a    *)
(* key-value store with an index by task), and the /pdp/info handler that  *)
(* puts them together.                                                     *)
(*                                                                         *)
(* A blob's piece is a function of its content, so a resolver entry is the *)
(* blob and the direction it was looked up in.                             *)
(***************************************************************************)
EXTENDS Integers, FiniteSets

CONSTANTS
    InfoBlobs,        \* blobs
    MaxAggregates,    \* bound: aggregates made
    MaxInfoFaults     \* bound: removals, errors and crashes

ASSUME PieceInfoAssumption ==
    MaxAggregates \in Nat /\ MaxInfoFaults \in Nat

VARIABLES
    receiptBackend,  \* "postgres" or "keyvalue"
    mhToCommp,       \* blobs with a row in pdp_piece_mh_to_commp
    resolverCache,   \* set of <<"toBlob" or "toPiece", blob>>
    aggregates,      \* aggregate -> the blobs whose pieces it holds
    stored,          \* receipts stored by CID: set of [blob, aggregate]
    byRan,           \* blob -> the aggregate its /pdp/accept receipt names, or 0
    accepter,        \* the AddRoots task's AcceptPieces: [agg, todo, made, at]
    acceptedAggs,    \* aggregates whose AcceptPieces returned without error
    info,            \* the /pdp/info request: [blob, at, agg]
    infoFaults

infoVars == <<receiptBackend, mhToCommp, resolverCache, aggregates, stored, byRan, accepter, acceptedAggs, info, infoFaults>>
resolveVars == <<receiptBackend, aggregates, stored, byRan, acceptedAggs>>

NoAccept == [agg |-> 0, todo |-> {}, made |-> {}, at |-> "idle"]
NoInfo == [blob |-> "none", at |-> "idle", agg |-> 0]

PieceInfoInit ==
    /\ receiptBackend \in {"postgres", "keyvalue"}
    /\ mhToCommp = {}
    /\ resolverCache = {}
    /\ aggregates = <<>>
    /\ stored = {}
    /\ byRan = [b \in InfoBlobs |-> 0]
    /\ accepter = NoAccept
    /\ acceptedAggs = {}
    /\ info = NoInfo
    /\ infoFaults = 0

InfoFault == infoFaults < MaxInfoFaults /\ infoFaults' = infoFaults + 1
-----------------------------------------------------------------------------
\* The rows the resolver reads: written with a blob's commP, deleted with it.
RowComes(b) ==
    /\ b \notin mhToCommp
    /\ mhToCommp' = mhToCommp \cup {b}
    /\ UNCHANGED <<resolverCache, accepter, info, infoFaults, resolveVars>>

RowGoes(b) ==
    /\ InfoFault
    /\ b \in mhToCommp
    /\ mhToCommp' = mhToCommp \ {b}
    /\ UNCHANGED <<resolverCache, accepter, info, resolveVars>>

\* The cache, then the row, which is cached; no row is no error.
Unresolved(way, b) == <<way, b>> \notin resolverCache /\ b \notin mhToCommp

ResolveToBlob(b) ==
    /\ <<"toBlob", b>> \in resolverCache \/ b \in mhToCommp
    /\ resolverCache' = resolverCache \cup {<<"toBlob", b>>}

ResolveToPiece(b) ==
    /\ <<"toPiece", b>> \in resolverCache \/ b \in mhToCommp
    /\ resolverCache' = resolverCache \cup {<<"toPiece", b>>}

\* The LRU drops an entry when it is full, and all of them at a restart.
Evict ==
    /\ resolverCache # {}
    /\ resolverCache' = {}
    /\ UNCHANGED <<mhToCommp, accepter, info, infoFaults, resolveVars>>
-----------------------------------------------------------------------------
\* The pipeline aggregates pieces; a blob that was removed and uploaded again
\* is aggregated again.
MakeAggregate(bs) ==
    /\ Cardinality(DOMAIN aggregates) < MaxAggregates
    /\ bs \subseteq mhToCommp /\ bs # {}
    /\ LET n == Cardinality(DOMAIN aggregates) + 1
       IN  aggregates' = [i \in 1..n |-> IF i = n THEN bs ELSE aggregates[i]]
    /\ UNCHANGED <<mhToCommp, resolverCache, accepter, info, infoFaults, receiptBackend, stored, byRan, acceptedAggs>>

\* The AddRoots task calls AcceptPieces, again after a failure.
StartAccept(a) ==
    /\ accepter.at = "idle"
    /\ a \notin acceptedAggs
    /\ accepter' = [agg |-> a, todo |-> aggregates[a], made |-> {}, at |-> "resolve"]
    /\ UNCHANGED <<mhToCommp, resolverCache, info, infoFaults, resolveVars>>

\* Mutant: a piece that is not found is left out.
SkipMissing ==
    /\ accepter.at = "resolve" /\ accepter.todo # {}
    /\ \E b \in accepter.todo :
          \/ /\ ResolveToBlob(b)
             /\ accepter' = [accepter EXCEPT !.todo = @ \ {b}, !.made = @ \cup {b}]
          \/ /\ Unresolved("toBlob", b)
             /\ accepter' = [accepter EXCEPT !.todo = @ \ {b}] /\ UNCHANGED resolverCache
    /\ UNCHANGED <<mhToCommp, info, infoFaults, resolveVars>>

\* GenerateReceipts: every piece is resolved to its blob before any receipt is
\* stored; one that is not found fails the call.
GenerateReceipts ==
    /\ accepter.at = "resolve" /\ accepter.todo # {}
    /\ \E b \in accepter.todo :
          \/ /\ ResolveToBlob(b)
             /\ accepter' = [accepter EXCEPT !.todo = @ \ {b}, !.made = @ \cup {b}]
          \/ /\ Unresolved("toBlob", b)
             /\ accepter' = NoAccept /\ UNCHANGED resolverCache
    /\ UNCHANGED <<mhToCommp, info, infoFaults, resolveVars>>

\* AcceptPieces stores the receipts one after the other, then returns.
AcceptPieces ==
    /\ accepter.at = "resolve" /\ accepter.todo = {}
    /\ IF accepter.made = {}
       THEN acceptedAggs' = acceptedAggs \cup {accepter.agg} /\ accepter' = NoAccept
       ELSE accepter' = [accepter EXCEPT !.at = "put"] /\ UNCHANGED acceptedAggs
    /\ UNCHANGED <<mhToCommp, resolverCache, info, infoFaults, receiptBackend, aggregates, stored, byRan>>

Receipt(b, a) == [blob |-> b, aggregate |-> a]

\* PostgresStore.Put: the receipt and its index entry in one transaction.
PutReceiptTx(b) ==
    /\ receiptBackend = "postgres" /\ accepter.at = "put" /\ b \in accepter.made
    /\ stored' = stored \cup {Receipt(b, accepter.agg)}
    /\ byRan' = [byRan EXCEPT ![b] = accepter.agg]
    /\ accepter' = [accepter EXCEPT !.made = @ \ {b}, !.at = "resolve"]
    /\ UNCHANGED <<mhToCommp, resolverCache, info, infoFaults, receiptBackend, aggregates, acceptedAggs>>

\* Store.Put: the receipt, then its index entry.
PutReceipt(b) ==
    /\ receiptBackend = "keyvalue" /\ accepter.at = "put" /\ b \in accepter.made
    /\ stored' = stored \cup {Receipt(b, accepter.agg)}
    /\ accepter' = [accepter EXCEPT !.at = "index", !.todo = {b}]
    /\ UNCHANGED <<mhToCommp, resolverCache, info, infoFaults, receiptBackend, aggregates, byRan, acceptedAggs>>

IndexReceipt(b) ==
    /\ accepter.at = "index" /\ b \in accepter.todo
    /\ byRan' = [byRan EXCEPT ![b] = accepter.agg]
    /\ accepter' = [accepter EXCEPT !.made = @ \ {b}, !.todo = {}, !.at = "resolve"]
    /\ UNCHANGED <<mhToCommp, resolverCache, info, infoFaults, receiptBackend, aggregates, stored, acceptedAggs>>

\* A read or a write fails, or the process stops: the task is run again.
AcceptFails ==
    /\ InfoFault
    /\ accepter.at # "idle"
    /\ accepter' = NoAccept
    /\ UNCHANGED <<mhToCommp, resolverCache, info, resolveVars>>
-----------------------------------------------------------------------------
\* /pdp/info: resolve, or compute the commP; then the receipt by its task, in
\* the key-value store the index first and the receipt after it.
InfoRequest(b) ==
    /\ info.at = "idle"
    /\ \/ ResolveToPiece(b) /\ info' = [blob |-> b, at |-> "receipt", agg |-> 0]
       \/ /\ Unresolved("toPiece", b)
          /\ info' = [blob |-> b, at |-> "commp", agg |-> 0] /\ UNCHANGED resolverCache
    /\ UNCHANGED <<mhToCommp, accepter, infoFaults, resolveVars>>

\* CalculateCommP stores the row, or fails because the blob is not there; the
\* request is answered either way.
InfoCommP ==
    /\ info.at = "commp"
    /\ mhToCommp' \in {mhToCommp, mhToCommp \cup {info.blob}}
    /\ info' = NoInfo
    /\ UNCHANGED <<resolverCache, accepter, infoFaults, resolveVars>>

\* GetByRan: no entry is an error; an entry names the receipt that is read.
GetByRan ==
    /\ info.at = "receipt"
    /\ info' = IF byRan[info.blob] = 0 THEN NoInfo
               ELSE [info EXCEPT !.at = "read", !.agg = byRan[info.blob]]
    /\ UNCHANGED <<mhToCommp, resolverCache, accepter, infoFaults, resolveVars>>

\* The receipt found names the blob's piece, as the handler checks, and the
\* request is answered; an entry that leads nowhere ends it for good.
InfoAnswer ==
    /\ info.at = "read"
    /\ info' = IF Receipt(info.blob, info.agg) \in stored THEN NoInfo ELSE [info EXCEPT !.at = "dangling"]
    /\ UNCHANGED <<mhToCommp, resolverCache, accepter, infoFaults, resolveVars>>

PieceInfoNext ==
    \/ \E b \in InfoBlobs : RowComes(b) \/ RowGoes(b) \/ PutReceiptTx(b) \/ PutReceipt(b) \/ IndexReceipt(b) \/ InfoRequest(b)
    \/ \E bs \in SUBSET InfoBlobs : MakeAggregate(bs)
    \/ \E a \in DOMAIN aggregates : StartAccept(a)
    \/ Evict \/ GenerateReceipts \/ AcceptPieces \/ AcceptFails
    \/ InfoCommP \/ GetByRan \/ InfoAnswer
-----------------------------------------------------------------------------
\* An aggregate whose AcceptPieces returned without error has, for every one of
\* its pieces, a receipt that can be found by its task and read, through
\* failures between the receipts and between a receipt and its index entry, and
\* /pdp/info never follows an index entry to a receipt that is not there
\* (PieceAcceptor.AcceptPieces, receiptstore Put and GetByRan).
AcceptedIsReadable ==
    /\ \A a \in acceptedAggs : \A b \in aggregates[a] : byRan[b] # 0
    /\ \A b \in InfoBlobs : byRan[b] # 0 => Receipt(b, byRan[b]) \in stored /\ b \in aggregates[byRan[b]]
    /\ info.at # "dangling"
=============================================================================
