---------------------------- MODULE MCPDPPipeline ----------------------------
(***************************************************************************)
(* Instances of PDPPipeline.  A blob's piece is the blob itself unless the *)
(* instance says otherwise.                                                *)
(***************************************************************************)
EXTENDS PDPPipeline

CONSTANTS b1, b2

OwnPiece == [b \in Blobs |-> b]
AllSmall == [p \in Blobs |-> 1]
FirstLarge == [p \in Blobs |-> IF p = b1 THEN 3 ELSE 2]
Once == [b \in Blobs |-> 1]
FirstTwice == [b \in Blobs |-> IF b = b1 THEN 2 ELSE 1]
=============================================================================
