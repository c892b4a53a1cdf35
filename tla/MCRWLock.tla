----------------------------- MODULE MCRWLock -----------------------------
(* Small instances of RWLock.                                              *)
EXTENDS RWLock
=============================================================================
