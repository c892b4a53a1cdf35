------------------------------ MODULE MCMutex ------------------------------
EXTENDS Mutex, TLC

Symmetric == Permutations(Threads)
=============================================================================
