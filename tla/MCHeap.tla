------------------------------- MODULE MCHeap -------------------------------
(***************************************************************************)
(* Small instances of Heap, with the header and page sizes in proportion.  *)
(* Headers that are off the list are never read: states that differ only   *)
(* there are one state (the VIEW).                                         *)
(***************************************************************************)
EXTENDS Heap

OnList == <<[a \in linked |-> <<size[a], used[a], next[a], prev[a]>>], want, asked, bytes>>
=============================================================================
