----------------------------- MODULE MCProcess ------------------------------
(* A kernel process with one thread at the start, and one user process.    *)
EXTENDS Process
=============================================================================
