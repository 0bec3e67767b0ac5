-------------------------- MODULE MCInstanceScanner --------------------------
(***************************************************************************)
(* A PATH of two entries, a native program and the Snap's, a Flatpak       *)
(* installation.                                                           *)
(***************************************************************************)
EXTENDS InstanceScanner

CONSTANTS native, snapped

MCPrograms == {native, snapped}
MCSnapPrograms == {snapped}
=============================================================================
