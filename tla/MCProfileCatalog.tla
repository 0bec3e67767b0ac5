--------------------------- MODULE MCProfileCatalog ---------------------------
(***************************************************************************)
(* Two instances, one directory path reached by a symbolic link and one    *)
(* plain one, three directory inodes and one file name.                    *)
(***************************************************************************)
EXTENDS ProfileCatalog, TLC

CONSTANTS i1, i2, linked, plain, d1, d2, d3

MCInstances == {i1, i2}
MCPaths == {linked, plain}
MCSymlinked == {linked}
MCDirs == {d1, d2, d3}

\* Directory inodes and instances are interchangeable.
MCSymmetry == Permutations(MCDirs) \cup Permutations(MCInstances)
=============================================================================
