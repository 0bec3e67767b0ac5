------------------------------ MODULE Selection ------------------------------
(***************************************************************************)
(* Which Remmina is selected: the registry (core/instance_registry.cpp,    *)
(* core/selection_policy.cpp) in every process that has one, the settings  *)
(* module on top of one of them (kcm/), and the configuration file they    *)
(* share (core/kconfig_selection_store.cpp).                               *)
(*                                                                         *)
(* A process is one thread, but the processes are several, and             *)
(* rescanAndRepair scans (which runs programs), reads the file and writes  *)
(* it in three steps that interleave with the other processes and with     *)
(* installations that come and go.                                         *)
(***************************************************************************)
EXTENDS Naturals, FiniteSets

CONSTANTS
    Processes,    \* those with a registry: the runner service, the settings module,
                  \* runs of remmina-krunner --rescan
    Service, Settings,
    Instances,    \* Remmina installations
    Backend,      \* the packaging each one comes from
    Rank,         \* their place in the scanner's order: native, Flatpak, Snap
    Seen,         \* those that a process can find by its own PATH, if they are there
    MaxChanges,   \* bound: changes of the machine, and selections the user applies
    None

ASSUME SelectionAssumption ==
    /\ Service \in Processes /\ Settings \in Processes \ {Service}
    /\ Backend \in [Instances -> {"native", "flatpak", "snap"}]
    /\ Rank \in [Instances -> Nat] /\ \A i, j \in Instances : Rank[i] = Rank[j] => i = j
    /\ \A some \in (SUBSET Instances) \ {{}} : \E i \in some : \A j \in some : Rank[i] <= Rank[j]
    /\ Seen \in [Processes -> SUBSET Instances]
    /\ MaxChanges \in Nat
    /\ None \notin Instances

Choices == Instances \cup {None}

\* The backends whose failure a scan reports; looking through PATH cannot fail.
Fallible == {"flatpak", "snap"}

VARIABLES
    \* the machine (outside src/)
    installed,        \* the installations there are
    broken,           \* backends that cannot be asked at the moment
    changes,          \* how many changes have happened
    store,            \* selectedInstance in remmina-krunnerrc
    up,               \* the service and the settings module, once they have started
    \* each process: where it is in rescanAndRepair, and what it has found so far
    pc, scanned, failed, saved,
    \* its InstanceRegistry: snapshot_ and selectionSynchronized_
    instances, selectedId, synced,
    \* InstanceSettingsModel
    items, pendingId, persistedId,
    applied,          \* Plasma owes the service a Config() for settings just applied
    \* history
    overwritten,      \* another process wrote the file after this one took its selection
    raced,            \* another process wrote the file after this call read it
    steady            \* the stored installation has been there ever since it was stored

machineVars  == <<installed, broken, changes>>
rescanVars   == <<pc, scanned, failed, saved>>
registryVars == <<instances, selectedId, synced>>
modelVars    == <<items, pendingId, persistedId>>
vars == <<machineVars, store, up, rescanVars, registryVars, modelVars, applied, overwritten, raced, steady>>

Init ==
    /\ installed \in SUBSET Instances /\ broken = {} /\ changes = 0
    /\ store \in Choices
    /\ up = {} /\ pc = [p \in Processes |-> "idle"]
    /\ scanned = [p \in Processes |-> {}] /\ failed = [p \in Processes |-> {}]
    /\ saved = [p \in Processes |-> None]
    /\ instances = [p \in Processes |-> {}] /\ selectedId = [p \in Processes |-> None]
    /\ synced = [p \in Processes |-> FALSE]
    /\ items = {} /\ pendingId = None /\ persistedId = None
    /\ applied = FALSE
    /\ overwritten = [p \in Processes |-> FALSE] /\ raced = [p \in Processes |-> FALSE]
    /\ steady = (store \in installed)

-----------------------------------------------------------------------------
(* The machine.                                                            *)

OneChange == changes < MaxChanges /\ changes' = changes + 1

Install(i) ==
    /\ OneChange /\ i \notin installed
    /\ installed' = installed \cup {i}
    /\ UNCHANGED <<broken, store, up, rescanVars, registryVars, modelVars, applied, overwritten, raced, steady>>

Remove(i) ==
    /\ OneChange /\ i \in installed
    /\ installed' = installed \ {i} /\ steady' = (steady /\ store # i)
    /\ UNCHANGED <<broken, store, up, rescanVars, registryVars, modelVars, applied,
                   overwritten, raced>>

\* flatpak list starts or ceases to fail; a Snap launcher starts or ceases to dangle.
Flip(b) ==
    /\ OneChange
    /\ broken' = (broken \ {b}) \cup ({b} \ broken)
    /\ UNCHANGED <<installed, store, up, rescanVars, registryVars, modelVars, applied, overwritten, raced, steady>>

-----------------------------------------------------------------------------
(* The file: writeSelectedId rewrites one key under KConfig's lock, or      *)
(* fails and leaves it.                                                    *)

Stored(p, id) ==
    /\ store' = id
    /\ overwritten' = [q \in Processes |-> q # p]
    /\ raced' = [q \in Processes |-> q # p]
    /\ steady' = (id \in installed)

NotStored(p) ==
    /\ overwritten' = [overwritten EXCEPT ![p] = raced[p]]
    /\ UNCHANGED <<store, raced, steady>>

-----------------------------------------------------------------------------
(* rescanAndRepair, in every process.                                      *)

\* The service starts or serves Config, the settings open or reload, the command
\* line runs: each first scans (as of one moment), and does nothing else until it
\* is through.
Rescan(p) ==
    /\ pc[p] = "idle" /\ pc' = [pc EXCEPT ![p] = "read"]
    /\ scanned' = [scanned EXCEPT ![p] = {i \in installed \cap Seen[p] : Backend[i] \notin broken}]
    /\ failed' = [failed EXCEPT ![p] = broken]
    /\ applied' = (applied /\ p # Service)
    /\ UNCHANGED <<machineVars, store, up, saved, registryVars, modelVars,
                   overwritten, raced, steady>>

Read(p) ==
    /\ pc[p] = "read" /\ pc' = [pc EXCEPT ![p] = "repair"]
    /\ saved' = [saved EXCEPT ![p] = store] /\ raced' = [raced EXCEPT ![p] = FALSE]
    /\ UNCHANGED <<machineVars, store, up, scanned, failed, registryVars, modelVars, applied,
                   overwritten, steady>>

\* Mutant of Decision: a saved id is kept although its instance is gone.
DecisionKeepsSaved(found, id) ==
    IF id # None \/ found = {} THEN id
    ELSE CHOOSE i \in found : \A j \in found : Rank[i] <= Rank[j]

\* validateSelection: the saved instance if it was found, else the first there is.
Decision(found, id) ==
    IF id \in found THEN id
    ELSE IF found = {} THEN None
    ELSE CHOOSE i \in found : \A j \in found : Rank[i] <= Rank[j]

\* Mutant of MayWrite: a backend that failed does not stop the repair.
MayAlwaysWrite(p) == TRUE

\* The saved instance was not found, but a backend that failed could have it.
MayWrite(p) == \A i \in {saved[p]} \ {None} : Backend[i] \notin failed[p]

\* InstanceSettingsModel::load, once the registry has answered.
Loaded(found, id) == items' = found /\ persistedId' = id /\ pendingId' = id

\* Mutant of Keep: the registry believes every selection it made is in the file.
KeepAsSynced(p, id, written) ==
    /\ instances' = [instances EXCEPT ![p] = scanned[p]]
    /\ selectedId' = [selectedId EXCEPT ![p] = id]
    /\ synced' = [synced EXCEPT ![p] = TRUE]

\* The new snapshot_, and whether its selection is known to be in the file.
Keep(p, id, written) ==
    /\ instances' = [instances EXCEPT ![p] = scanned[p]]
    /\ selectedId' = [selectedId EXCEPT ![p] = id]
    /\ synced' = [synced EXCEPT ![p] = written]

\* A call of rescanAndRepair is over.
Done(p) ==
    /\ pc' = [pc EXCEPT ![p] = "idle"]
    /\ scanned' = [scanned EXCEPT ![p] = {}] /\ failed' = [failed EXCEPT ![p] = {}]
    /\ saved' = [saved EXCEPT ![p] = None]

\* The decision, the write it may need and the new snapshot.  The command line has
\* nothing more to do, and its registry goes with it (End).
Repair(p) ==
    /\ pc[p] = "repair"
    /\ LET id == Decision(scanned[p], saved[p]) IN
           /\ \/ id = saved[p] /\ NotStored(p) /\ Keep(p, id, TRUE)
              \/ id # saved[p] /\ MayWrite(p) /\ Stored(p, id) /\ Keep(p, id, TRUE)
              \/ id # saved[p] /\ NotStored(p) /\ Keep(p, id, FALSE)
           /\ IF p = Settings THEN Loaded(scanned[p], id) ELSE UNCHANGED modelVars
    /\ up' = up \cup {p} /\ Done(p)
    /\ UNCHANGED <<machineVars, applied>>

\* The scan or the file throws: a running service keeps its last snapshot, the
\* settings module shows nothing; a service that was starting, or a command line, ends.
Throws(p) ==
    /\ pc[p] # "idle"
    /\ Done(p)
    /\ IF p = Settings THEN Loaded({}, None) /\ up' = up \cup {p} ELSE UNCHANGED <<modelVars, up>>
    /\ UNCHANGED <<machineVars, store, registryVars, applied, overwritten, raced, steady>>

\* The process ends, between two steps of whatever it was doing.
End(p) ==
    /\ p \in up \/ pc[p] # "idle"
    /\ up' = up \ {p} /\ Done(p)
    /\ instances' = [instances EXCEPT ![p] = {}]
    /\ selectedId' = [selectedId EXCEPT ![p] = None]
    /\ synced' = [synced EXCEPT ![p] = FALSE]
    /\ IF p = Settings THEN Loaded({}, None) ELSE UNCHANGED modelVars
    /\ UNCHANGED <<machineVars, store, applied, overwritten, raced, steady>>

-----------------------------------------------------------------------------
(* The settings module, between calls.                                     *)

SettingsIdle == Settings \in up /\ pc[Settings] = "idle"

\* selectPending: the user picks another row.
SelectPending(i) ==
    /\ SettingsIdle /\ i \in items
    /\ pendingId' = i
    /\ UNCHANGED <<machineVars, store, up, rescanVars, registryVars, items, persistedId,
                   applied, overwritten, raced, steady>>

Defaults ==
    /\ SettingsIdle
    /\ pendingId' = Decision(items, None)
    /\ UNCHANGED <<machineVars, store, up, rescanVars, registryVars, items, persistedId,
                   applied, overwritten, raced, steady>>

\* Mutant of Selected: the model and the registry part ways.
SelectedNotKept(id) ==
    /\ persistedId' = id
    /\ UNCHANGED <<selectedId, synced>>

\* select succeeded: the registry and the model both take the selection.
Selected(id) ==
    /\ persistedId' = id
    /\ selectedId' = [selectedId EXCEPT ![Settings] = id]
    /\ synced' = [synced EXCEPT ![Settings] = TRUE]

\* save, of a selection that differs from the one that was loaded: Plasma then has
\* the service told.  A write that fails changes nothing.  select need not write a
\* selection that it has and that is in the file; save never asks for that one, which
\* is the one that was loaded (SettingsShowTheSelection).
Apply ==
    /\ SettingsIdle /\ OneChange
    /\ pendingId # persistedId /\ pendingId \in items \cap instances[Settings]
    /\ Stored(Settings, pendingId) /\ Selected(pendingId)
    /\ applied' = TRUE
    /\ UNCHANGED <<installed, broken, up, rescanVars, instances, items, pendingId>>

-----------------------------------------------------------------------------
Machine ==
    \/ \E i \in Instances : Install(i) \/ Remove(i)
    \/ \E b \in Fallible : Flip(b)

Registry(p) == Rescan(p) \/ Read(p) \/ Repair(p) \/ Throws(p) \/ End(p)

User == (\E i \in Instances : SelectPending(i)) \/ Defaults \/ Apply

Next == Machine \/ (\E p \in Processes : Registry(p)) \/ User

Spec == Init /\ [][Next]_vars

-----------------------------------------------------------------------------
TypeOK ==
    /\ installed \subseteq Instances /\ broken \subseteq Fallible /\ changes \in 0 .. MaxChanges
    /\ store \in Choices /\ up \subseteq Processes
    /\ pc \in [Processes -> {"idle", "read", "repair"}]
    /\ scanned \in [Processes -> SUBSET Instances] /\ failed \in [Processes -> SUBSET Fallible]
    /\ saved \in [Processes -> Choices]
    /\ instances \in [Processes -> SUBSET Instances] /\ selectedId \in [Processes -> Choices]
    /\ synced \in [Processes -> BOOLEAN]
    /\ items \subseteq Instances /\ pendingId \in items \cup {None}
    /\ persistedId \in items \cup {None}
    /\ overwritten \in [Processes -> BOOLEAN] /\ raced \in [Processes -> BOOLEAN]
    /\ applied \in BOOLEAN /\ steady \in BOOLEAN

\* No registry ever offers a selection outside its own scan, and one that believes
\* its selection is in the file is right, unless another process wrote the file.
SyncedMeansStored ==
    \A p \in Processes :
        /\ selectedId[p] \in instances[p] \cup {None}
        /\ synced[p] /\ ~overwritten[p] => selectedId[p] = store

\* A repair that no other process interferes with replaces a saved selection only
\* if the scan could look for it and did not find it.
RepairIsJustified ==
    [][\A p \in Processes :
         Repair(p) /\ store' # store /\ ~raced[p] /\ store # None =>
             store \notin scanned[p] /\ Backend[store] \notin failed[p]]_vars

\* The settings module shows its registry's scan and selection, or, after a load
\* that failed, nothing.
SettingsShowTheSelection ==
    \/ items = instances[Settings] /\ persistedId = selectedId[Settings]
    \/ items = {} /\ persistedId = None /\ pendingId = None

-----------------------------------------------------------------------------
(* What the documents say and the code does not do.                        *)

\* "Preserve the saved selection if the same instance remains available"
\* (design.md:136).  Not when it was saved while another process was between its
\* scan and its repair.
SavedSelectionIsKept ==
    [][(\E p \in Processes : Repair(p)) /\ steady => store' = store]_vars

\* "Changing or automatically replacing the selected instance clears the snapshot
\* and watchers" (design.md:216-217) of the runner, which needs to learn of it.
\* Not when it was replaced by the settings module's own scan, or --rescan.
ServiceUsesTheSelection ==
    Service \in up /\ overwritten[Service] /\ ~applied /\ (\A p \in Processes : pc[p] = "idle")
    /\ store \in installed /\ broken = {} => selectedId[Service] = store

-----------------------------------------------------------------------------
(* The inductive invariant behind the safety properties, in named parts.   *)

\* What a call read is what the file holds, unless another process wrote it since.
ReadInv == \A p \in Processes : pc[p] = "repair" /\ ~raced[p] => saved[p] = store

IInv == TypeOK /\ ReadInv /\ SyncedMeansStored /\ SettingsShowTheSelection
=============================================================================
