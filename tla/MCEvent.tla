------------------------------ MODULE MCEvent ------------------------------
(***************************************************************************)
(* Small instances of Event.  One waits for both events, one for either,   *)
(* in the opposite order, or names one twice; `s' only signals and resets. *)
(***************************************************************************)
EXTENDS Event

CONSTANTS w, v, s, a, b

Wait(es, all, timed) == [events |-> es, all |-> all, timed |-> timed]

(* Two waiters that share events, with and without a time limit. *)
SharedWaits == [t \in Threads |->
    CASE t = w -> {Wait(<<a, b>>, TRUE, TRUE)}
      [] t = v -> {Wait(<<b, a>>, FALSE, FALSE), Wait(<<a, a>>, FALSE, FALSE)}
      [] OTHER -> {}]
=============================================================================
