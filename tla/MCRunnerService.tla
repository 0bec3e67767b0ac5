---------------------------- MODULE MCRunnerService ----------------------------
(***************************************************************************)
(* One instance that is its own program, one started through flatpak; one  *)
(* profile each.                                                           *)
(***************************************************************************)
EXTENDS RunnerService

CONSTANTS native, flatpak, office

MCInstances == {native, flatpak}
MCWrapped == {flatpak}
MCNames == {office}
================================================================================
