---------------------------- MODULE AggregateTree ----------------------------
(***************************************************************************)
(* The Merkle tree of an aggregate and the inclusion proof of each of its  *)
(* pieces (pkg/pdp/aggregation/aggregator/aggregate.go), loop iteration by *)
(* loop iteration, and the two size units of a piece (pkg/pdp/piecesize).  *)
(*                                                                         *)
(* Sizes are padded sizes counted in pieces of 128 bytes.  A commitment is *)
(* the term it hashes, in prefix form: <<i>> for piece i, <<-size>> for    *)
(* zeros, 0 followed by the two children for an inner node.                *)
(***************************************************************************)
EXTENDS Integers, SequencesExt

CONSTANTS
    PieceSizes,          \* the padded sizes a piece may have, powers of two
    MaxPieces,           \* bound: pieces of one aggregate
    RawSizes,            \* raw sizes, in bytes, an upload may have
    MinPaddedSize,       \* piecesize: the least limit, and the default one
    CurioMaxPaddedSize   \* piecesize: the largest tree Curio builds in memory

VARIABLES
    pieces,     \* the padded sizes of the pieces, as given to NewAggregate
    stack,      \* the frames built so far
    pushed,     \* how many pieces are on the stack
    visit,      \* the traversal: [parents, index, node]
    proofs,     \* the inclusion proofs so far
    treeStage   \* "check", "push", "pad", "visit", "done" or "failed"

treeVars == <<pieces, stack, pushed, visit, proofs, treeStage>>

Leaf(size, commP) == [size |-> size, commP |-> commP, kids |-> <<>>]
isLeaf(frame) == frame.kids = <<>>
DataCommitment(i) == <<i>>
zeroCommForSize(size) == <<-size>>
computeNode(left, right) == <<0>> \o left \o right
isRightNode(index) == index % 2 = 1

\* The two topmost frames are merged as long as they are equally large.
RECURSIVE reduceStack(_)
reduceStack(s) ==
    IF Len(s) > 1 /\ s[Len(s) - 1].size = s[Len(s)].size
    THEN LET left == s[Len(s) - 1]
             right == s[Len(s)]
         IN  reduceStack(Append(SubSeq(s, 1, Len(s) - 2),
                 [size |-> 2 * left.size,
                  commP |-> computeNode(left.commP, right.commP),
                  kids |-> <<left, right>>]))
    ELSE s

\* The zero padding that makes room for the next merge.
padStack(s) ==
    LET size == s[Len(s)].size IN reduceStack(Append(s, Leaf(size, zeroCommForSize(size))))

\* Mutant: the node itself is taken for its sibling.
SwappedProof(parents, index) ==
    [i \in DOMAIN parents |->
        parents[Len(parents) - i + 1].kids[IF isRightNode(index \div 2^(i - 1)) THEN 2 ELSE 1].commP]

\* The sibling of every node on the way up, from the leaf to the root.
getProof(parents, index) ==
    [i \in DOMAIN parents |->
        parents[Len(parents) - i + 1].kids[IF isRightNode(index \div 2^(i - 1)) THEN 1 ELSE 2].commP]

NotVisiting == [parents |-> <<>>, index |-> 0, node |-> Leaf(0, <<>>)]

TreeInit ==
    /\ pieces \in UNION {[1..n -> PieceSizes] : n \in 1..MaxPieces}
    /\ stack = <<>>
    /\ pushed = 0
    /\ visit = NotVisiting
    /\ proofs = <<>>
    /\ treeStage = "check"

\* "sancheck everything": the pieces come largest first.
Sancheck ==
    /\ treeStage = "check"
    /\ IF \E i \in 2..Len(pieces) : pieces[i] > pieces[i - 1]
       THEN treeStage' = "failed" /\ UNCHANGED <<stack, pushed>>
       ELSE /\ stack' = <<Leaf(pieces[1], DataCommitment(1))>>
            /\ pushed' = 1
            /\ treeStage' = "push"
    /\ UNCHANGED <<pieces, visit, proofs>>

PushPiece ==
    /\ treeStage = "push"
    /\ pushed < Len(pieces)
    /\ pushed' = pushed + 1
    /\ stack' = reduceStack(Append(stack, Leaf(pieces[pushed'], DataCommitment(pushed'))))
    /\ UNCHANGED <<pieces, visit, proofs, treeStage>>

\* visitLeaves starts at the root's left child, or at the root when it is the
\* only piece.
StartVisit(root) ==
    IF isLeaf(root)
    THEN [parents |-> <<>>, index |-> 0, node |-> root]
    ELSE [parents |-> <<root>>, index |-> 0, node |-> root.kids[1]]

PadTree ==
    /\ treeStage = "push"
    /\ pushed = Len(pieces)
    /\ IF Len(stack) > 1
       THEN stack' = padStack(stack) /\ UNCHANGED <<visit, treeStage>>
       ELSE visit' = StartVisit(stack[1]) /\ treeStage' = "visit" /\ UNCHANGED stack
    /\ UNCHANGED <<pieces, pushed, proofs>>

DownAndLeft ==
    /\ treeStage = "visit"
    /\ ~isLeaf(visit.node)
    /\ visit' = [parents |-> Append(visit.parents, visit.node),
                 index |-> visit.index * 2,
                 node |-> visit.node.kids[1]]
    /\ UNCHANGED <<pieces, stack, pushed, proofs, treeStage>>

\* "go up until we're at a left node", then to its right sibling.
RECURSIVE UpAndRight(_, _)
UpAndRight(parents, index) ==
    IF isRightNode(index) /\ parents # <<>>
    THEN UpAndRight(Front(parents), index \div 2)
    ELSE IF parents = <<>>
         THEN NotVisiting
         ELSE [parents |-> parents, index |-> index + 1, node |-> Last(parents).kids[2]]

\* The visitor: the leaf must be the next piece, and gets its proof.  It stops
\* the traversal after the last piece, before the padding is visited.
VisitLeaf ==
    /\ treeStage = "visit"
    /\ isLeaf(visit.node)
    /\ LET piece == Len(proofs) + 1
       IN  IF visit.node.commP # DataCommitment(piece)
           THEN treeStage' = "failed" /\ UNCHANGED <<visit, proofs>>
           ELSE /\ proofs' = Append(proofs, [path |-> getProof(visit.parents, visit.index),
                                             index |-> visit.index])
                /\ IF piece = Len(pieces)
                   THEN treeStage' = "done" /\ visit' = NotVisiting
                   ELSE treeStage' = treeStage /\ visit' = UpAndRight(visit.parents, visit.index)
    /\ UNCHANGED <<pieces, stack, pushed>>

TreeNext == Sancheck \/ PushPiece \/ PadTree \/ DownAndLeft \/ VisitLeaf

\* What a verifier does with a proof: fold the path from the leaf up.
RECURSIVE RootBy(_, _, _)
RootBy(commP, path, index) ==
    IF path = <<>>
    THEN commP
    ELSE RootBy(IF isRightNode(index) THEN computeNode(Head(path), commP) ELSE computeNode(commP, Head(path)),
                Tail(path), index \div 2)

\* NewAggregate gives every piece of every descending list a proof that leads
\* from its commitment to the aggregate's root, at the offset where the sizes
\* of the pieces before it end, and fails on no other list.
ProofsLeadToTheRoot ==
    /\ treeStage = "failed" => \E i \in 2..Len(pieces) : pieces[i] > pieces[i - 1]
    /\ \A i \in DOMAIN proofs :
         /\ RootBy(DataCommitment(i), proofs[i].path, proofs[i].index) = stack[1].commP
         /\ proofs[i].index * pieces[i] = FoldLeft(+, 0, SubSeq(pieces, 1, i - 1))
         /\ pieces[i] * 2^Len(proofs[i].path) = stack[1].size
    /\ treeStage = "done" => Len(proofs) = Len(pieces)

-----------------------------------------------------------------------------
\* piecesize.  Padding puts 254 bits into every 32-byte leaf of a tree whose
\* size is a power of two (libforge).
PowersOfTwo == {2^k : k \in 7..20}
UnpaddedSizeToV1TreeHeightAndPadding(raw) ==
    LET bytes == 32 * ((8 * raw + 253) \div 254)
    IN  CHOOSE p \in PowersOfTwo : p >= bytes /\ \A q \in PowersOfTwo : q >= bytes => p <= q
MaxDataSize(padded) == padded - padded \div 128

MaxRawForPadded(padded) == MaxDataSize(padded)

PaddedForRaw(raw) == IF raw < 127 THEN 128 ELSE UnpaddedSizeToV1TreeHeightAndPadding(raw)

ValidatePaddedSize(padded) ==
    padded \in PowersOfTwo /\ padded \in MinPaddedSize..CurioMaxPaddedSize

\* Limits: zero stands for the default.
MaxPadded(limit) == IF limit = 0 THEN MinPaddedSize ELSE limit
MaxRaw(limit) == MaxRawForPadded(MaxPadded(limit))
CheckRaw(limit, n) == n <= MaxRaw(limit)

\* Under every limit an operator can configure, CheckRaw admits exactly the
\* raw sizes whose padded tree is within the limit: no admitted blob is larger
\* than what Curio proves, none that fits is refused.
LimitIsExact ==
    \A limit \in {0} \cup {p \in PowersOfTwo : ValidatePaddedSize(p)}, raw \in RawSizes :
        /\ CheckRaw(limit, raw) <=> PaddedForRaw(raw) <= MaxPadded(limit)
        /\ CheckRaw(limit, raw) => PaddedForRaw(raw) <= CurioMaxPaddedSize

\* Both: what is admitted can be aggregated and proved.
AggregateIsSound == ProofsLeadToTheRoot /\ LimitIsExact
=============================================================================
