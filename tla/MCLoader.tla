----------------------------- MODULE MCLoader -------------------------------
(* A library, which a program may be too, and a driver that imports it and *)
(* a file that does not exist.                                             *)
EXTENDS Loader, TLC

CONSTANTS r1, r2, b1

SomeFiles == {"lib", "bad", "gone"}
NotGone == SomeFiles \ {"gone"}
TheirImports == [f \in SomeFiles |->
    IF f = "bad" THEN <<"lib", "gone">> ELSE <<>>]
TwoRegions == <<Region(1, 14), Region(15, 10)>>
Symmetry == Permutations(Runners)
=============================================================================
