----------------------------- MODULE MCHandles ------------------------------
(* Two threads of the first program, and one of the process it creates.    *)
(* Tables of four entries: the three standard handles leave one of the     *)
(* first table free.                                                       *)
EXTENDS Handles

CONSTANTS t1, t2, t3

ThreeThreads == [t \in {t1, t2, t3} |-> IF t = t3 THEN 2 ELSE 1]
StdoutOrHighest == {STDOUT, HANDLE_ENTRIES ^ HANDLE_LEVELS - 1}
ThreadSymmetry == Permutations({t1, t2})
=============================================================================
