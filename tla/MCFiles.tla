------------------------------ MODULE MCFiles -------------------------------
(* Two names, an archive of three blocks, one disk.                        *)
EXTENDS Files

CONSTANTS d1, d2

NothingOrB == {<<>>, <<"b">>}
DriverSymmetry == Permutations(Drivers)
SmallArchive == <<<<"a">>, <<"x">>, <<"a", "b">>>>
=============================================================================
