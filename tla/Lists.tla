------------------------------- MODULE Lists --------------------------------
(***************************************************************************)
(* xtRemoveFromList of xtkernel/list.c, as the sequence of the nodes.  Its *)
(* loop goes on WHILE the next node is the one to remove, so it unlinks    *)
(* the successor of the second node or else the second node itself; then   *)
(* the node it was given is freed, linked or not.  Without a node to       *)
(* unlink it does nothing and returns XT_NOT_FOUND.                        *)
(***************************************************************************)
EXTENDS Naturals, Sequences, SequencesExt

Victim(i) == IF i = 2 THEN 3 ELSE 2

xtRemoveFromList(list, i) ==
    IF Victim(i) > Len(list) THEN list ELSE RemoveAt(list, Victim(i))

(* The node i has been freed and is still linked. *)
Dangles(list, i) == i > 0 /\ Victim(i) <= Len(list) /\ Victim(i) # i
=============================================================================
