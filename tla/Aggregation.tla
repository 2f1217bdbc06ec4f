----------------------------- MODULE Aggregation -----------------------------
(***************************************************************************)
(* How pieces are folded into aggregates (aggregator.Append).  A root is   *)
(* determined by the sequence of its pieces, so it IS that sequence here.  *)
(***************************************************************************)
EXTENDS Integers, FiniteSets, SequencesExt

CONSTANTS
    Blobs,             \* digests
    PieceOf,           \* [Blobs -> pieces]: the commP of each blob
    PaddedSize,        \* [pieces -> Nat \ {0}]
    MinAggregateSize   \* the aggregation threshold

Pieces == {PieceOf[b] : b \in Blobs}

ASSUME PieceAssumption == PaddedSize \in [Pieces -> Nat \ {0}]

SizeOf(b) == PaddedSize[PieceOf[b]]
RootOf(blobs) == [i \in DOMAIN blobs |-> PieceOf[blobs[i]]]
PiecesOf(r) == ToSet(r)

\* InsertOrderedByDescendingSize: before the first piece that is not larger.
InsertBySize(buffered, b) ==
    InsertAt(buffered, 1 + Cardinality({i \in DOMAIN buffered : SizeOf(buffered[i]) > SizeOf(b)}), b)

\* aggregator.Append: a piece over the threshold is an aggregate of its own,
\* smaller ones are buffered until together they reach it.
AppendPieces(blobs) ==
    LET Step(s, b) ==
          IF SizeOf(b) > MinAggregateSize
          THEN [s EXCEPT !.aggregates = @ \cup {<<b>>}]
          ELSE LET buffered == InsertBySize(s.buffered, b)
                   total == s.total + SizeOf(b)
               IN  IF total >= MinAggregateSize
                   THEN [aggregates |-> s.aggregates \cup {buffered}, buffered |-> <<>>, total |-> 0]
                   ELSE [s EXCEPT !.buffered = buffered, !.total = total]
    IN  FoldLeft(Step, [aggregates |-> {}, buffered |-> <<>>, total |-> 0], blobs).aggregates

\* Every root the blobs at hand can be folded into.
Roots == {RootOf(a) : a \in UNION {AppendPieces(s) : s \in UNION {SetToSeqs(S) : S \in SUBSET Blobs}}}
=============================================================================
