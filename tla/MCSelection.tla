------------------------------ MODULE MCSelection ------------------------------
(***************************************************************************)
(* One installation of each packaging; the runner service and the settings *)
(* module, and, where the constants say so, remmina-krunner --rescan.      *)
(***************************************************************************)
EXTENDS Selection

CONSTANTS service, settings, native, flatpak, snap

MCInstances == {native, flatpak, snap}
MCBackend == [i \in Instances |->
    CASE i = native -> "native" [] i = flatpak -> "flatpak" [] OTHER -> "snap"]
\* The service's PATH may lack what the settings module's has.
MCSeenByAll == [p \in Processes |-> Instances]
MCSeen == [p \in Processes |-> IF p = Service THEN Instances \ {native} ELSE Instances]
MCRank == [i \in Instances |-> CASE i = native -> 0 [] i = flatpak -> 1 [] OTHER -> 2]
================================================================================
