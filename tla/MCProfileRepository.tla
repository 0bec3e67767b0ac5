------------------------- MODULE MCProfileRepository -------------------------
(***************************************************************************)
(* One directory with two names, two files and the texts of two profiles   *)
(* and of a file that is none.                                             *)
(***************************************************************************)
EXTENDS ProfileRepository, TLC

CONSTANTS i1, i2, d1, f1, f2, t1, t2, bad

MCInstances == {i1, i2}
MCDirs == {d1}
MCFiles == {f1, f2}
MCTexts == {t1, t2, bad}
MCProfiles == {t1, t2}

\* Nothing orders the instances, the files or the texts of profiles.
MCSymmetry == Permutations(MCInstances) \cup Permutations(MCFiles) \cup Permutations(MCProfiles)
=============================================================================
