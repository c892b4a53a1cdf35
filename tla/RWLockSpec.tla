---------------------------- MODULE RWLockSpec ----------------------------
(***************************************************************************)
(* What the readers-writer lock of a file promises to the callers of       *)
(* xtReadFile and xtWriteFile: any number of threads hold it for reading,  *)
(* or exactly one thread holds it for writing.  Nothing is said about      *)
(* queues, sleeping or spinlocks.                                          *)
(***************************************************************************)
CONSTANT Threads

VARIABLE held       \* held[t]: the mode in which thread t holds the lock

Mode == {"none", "read", "write"}

Init == held = [t \in Threads |-> "none"]

GrantRead(t) ==
    /\ held[t] = "none"
    /\ \A u \in Threads : held[u] # "write"
    /\ held' = [held EXCEPT ![t] = "read"]

GrantWrite(t) ==
    /\ \A u \in Threads : held[u] = "none"
    /\ held' = [held EXCEPT ![t] = "write"]

Release(t) ==
    /\ held[t] # "none"
    /\ held' = [held EXCEPT ![t] = "none"]

Next == \E t \in Threads : GrantRead(t) \/ GrantWrite(t) \/ Release(t)

Spec == Init /\ [][Next]_held
=============================================================================
