------------------------------- MODULE MCFAT --------------------------------
(* A volume of a few clusters, names of one and of two entries.            *)
EXTENDS FAT

ThreeNames == [a |-> 12, b |-> 13, l |-> 14]
FewPaths == {<<"a">>, <<"l">>, <<"a", "b">>}
=============================================================================
