------------------------------ MODULE BlobStore ------------------------------
(***************************************************************************)
(* What the blob store promises its callers, whatever moves underneath:    *)
(* a digest's bytes are held from the moment they are stored, and they can *)
(* only go away while a Delete of that digest is running.  Settling,       *)
(* retried uploads and node restarts are invisible at this level.          *)
(*                                                                         *)
(* This is the interface blobstore.Blobstore as pkg/pdp/service uses it.   *)
(***************************************************************************)
CONSTANT Digests

VARIABLES
    held,       \* the digests whose bytes a reader can get
    deleting    \* the digests a Delete is working on

vars == <<held, deleting>>

Init == /\ held = {}
        /\ deleting = {}

\* The bytes of d are stored, by a Put or by an upload whose digest is found.
Store(d) == /\ held' = held \cup {d}
            /\ UNCHANGED deleting

\* A Delete starts; it may drop the bytes with its first step.
BeginDelete(d) == /\ deleting' = deleting \cup {d}
                  /\ held' \in {held, held \ {d}}

\* A running Delete drops the bytes.
Remove(d) == /\ d \in deleting
             /\ held' = held \ {d}
             /\ UNCHANGED deleting

\* Deletes return, fail, or are cut off by a restart.
EndDelete == /\ deleting' \in SUBSET deleting
             /\ UNCHANGED held

Next == \/ \E d \in Digests : Store(d) \/ BeginDelete(d) \/ Remove(d)
        \/ EndDelete

Spec == Init /\ [][Next]_vars
=============================================================================
