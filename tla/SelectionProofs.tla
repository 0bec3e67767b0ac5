--------------------------- MODULE SelectionProofs ---------------------------
(***************************************************************************)
(* Proofs about Selection, for every set of processes and installations.   *)
(* What makes the properties inductive is ReadInv: between reading the     *)
(* file and repairing it, a process knows what the file holds unless       *)
(* another one wrote it, which is the exception the properties make.       *)
(***************************************************************************)
EXTENDS Selection, TLAPS

USE SelectionAssumption DEF machineVars, rescanVars, registryVars, modelVars

\* validateSelection answers an installation it was given, or none.
LEMMA DecisionType ==
    ASSUME NEW found \in SUBSET Instances, NEW id \in Choices
    PROVE  /\ Decision(found, id) \in found \cup {None}
           /\ id \in found => Decision(found, id) = id
  <1>1. CASE id \in found
    BY <1>1 DEF Decision
  <1>2. CASE found = {}
    BY <1>2 DEF Decision
  <1>3. CASE id \notin found /\ found # {}
    <2>1. \E i \in found : \A j \in found : Rank[i] <= Rank[j]
      BY <1>3
    <2> QED BY <1>3, <2>1 DEF Decision
  <1> QED BY <1>1, <1>2, <1>3

\* A call that ends leaves nothing of what it found.
LEMMA DoneType ==
    ASSUME TypeOK, NEW p \in Processes, Done(p)
    PROVE  /\ pc' \in [Processes -> {"idle", "read", "repair"}]
           /\ scanned' \in [Processes -> SUBSET Instances]
           /\ failed' \in [Processes -> SUBSET Fallible]
           /\ saved' \in [Processes -> Choices]
           /\ pc'[p] = "idle" /\ \A q \in Processes \ {p} : pc'[q] = pc[q] /\ saved'[q] = saved[q]
  BY DEF TypeOK, Done, Choices

LEMMA StoredType ==
    ASSUME TypeOK, NEW p \in Processes, NEW id \in Choices, Stored(p, id)
    PROVE  /\ store' \in Choices /\ steady' \in BOOLEAN
           /\ overwritten' \in [Processes -> BOOLEAN] /\ raced' \in [Processes -> BOOLEAN]
           /\ \A q \in Processes : raced'[q] <=> q # p
           /\ \A q \in Processes : overwritten'[q] <=> q # p
  <1>1. \A q \in Processes : (q # p) \in BOOLEAN
    OBVIOUS
  <1>2. overwritten' \in [Processes -> BOOLEAN] /\ \A q \in Processes : overwritten'[q] <=> q # p
    BY <1>1 DEF Stored
  <1>3. raced' \in [Processes -> BOOLEAN] /\ \A q \in Processes : raced'[q] <=> q # p
    BY <1>1 DEF Stored
  <1>4. store' \in Choices
    BY DEF Stored
  <1>5. steady' \in BOOLEAN
    BY DEF Stored
  <1> QED BY <1>2, <1>3, <1>4, <1>5

\* The call that repairs reads what it found, and answers a selection in it.
LEMMA RepairTypes ==
    ASSUME TypeOK, NEW p \in Processes
    PROVE  /\ Decision(scanned[p], saved[p]) \in scanned[p] \cup {None}
           /\ Decision(scanned[p], saved[p]) \in Choices
           /\ saved[p] \in scanned[p] => Decision(scanned[p], saved[p]) = saved[p]
           /\ scanned[p] \subseteq Instances
  <1>1. scanned[p] \in SUBSET Instances /\ saved[p] \in Choices
    BY DEF TypeOK
  <1> QED BY <1>1, DecisionType DEF Choices

\* The initial states are well-typed.
LEMMA InitType == Init => TypeOK
  <1> SUFFICES ASSUME Init PROVE TypeOK
    OBVIOUS
  <1>1. steady \in BOOLEAN
    BY DEF Init
  <1>2. /\ installed \subseteq Instances /\ broken \subseteq Fallible
        /\ store \in Choices /\ up \subseteq Processes
    BY DEF Init
  <1>6. changes = 0
    BY DEF Init
  <1>7. changes \in 0 .. MaxChanges
    BY <1>6
  <1>8. applied \in BOOLEAN
    BY DEF Init
  <1>3. /\ pc \in [Processes -> {"idle", "read", "repair"}]
        /\ scanned \in [Processes -> SUBSET Instances]
        /\ failed \in [Processes -> SUBSET Fallible] /\ saved \in [Processes -> Choices]
    BY DEF Init, Choices
  <1>4. /\ instances \in [Processes -> SUBSET Instances]
        /\ selectedId \in [Processes -> Choices] /\ synced \in [Processes -> BOOLEAN]
        /\ overwritten \in [Processes -> BOOLEAN] /\ raced \in [Processes -> BOOLEAN]
    BY DEF Init, Choices
  <1>5. /\ items \subseteq Instances /\ pendingId \in items \cup {None}
        /\ persistedId \in items \cup {None}
    BY DEF Init
  <1> QED BY <1>1, <1>2, <1>3, <1>4, <1>5, <1>7, <1>8 DEF TypeOK

\* Every step of the machine or of the user keeps the types.
LEMMA OtherType == TypeOK /\ (Machine \/ User) => TypeOK'
  <1> SUFFICES ASSUME TypeOK, Machine \/ User PROVE TypeOK'
    OBVIOUS
  <1>1. ASSUME OneChange PROVE changes' \in 0 .. MaxChanges
    BY <1>1 DEF OneChange, TypeOK
  <1>2. ASSUME NEW i \in Instances, Install(i) \/ Remove(i) PROVE TypeOK'
    BY <1>1, <1>2 DEF Install, Remove, TypeOK
  <1>3. ASSUME NEW b \in Fallible, Flip(b) PROVE TypeOK'
    BY <1>1, <1>3 DEF Flip, TypeOK
  <1>4. ASSUME NEW i \in Instances, SelectPending(i) PROVE TypeOK'
    BY <1>4 DEF SelectPending, TypeOK
  <1>5. CASE Defaults
    <2>1. pendingId' \in items \cup {None}
      BY <1>5, DecisionType DEF Defaults, TypeOK, Choices
    <2> QED BY <1>5, <2>1 DEF Defaults, TypeOK
  <1>6. CASE Apply
    <2>1. changes' \in 0 .. MaxChanges /\ pendingId \in items /\ items \subseteq Instances
      BY <1>1, <1>6 DEF Apply, TypeOK
    <2>2. /\ store' \in Choices /\ steady' \in BOOLEAN
          /\ overwritten' \in [Processes -> BOOLEAN] /\ raced' \in [Processes -> BOOLEAN]
      BY <1>6, <2>1, StoredType DEF Apply, TypeOK, Choices
    <2>3. /\ persistedId' = pendingId /\ selectedId' \in [Processes -> Choices]
          /\ synced' \in [Processes -> BOOLEAN]
      BY <1>6, <2>1 DEF Apply, Selected, TypeOK, Choices
    <2> QED BY <1>6, <2>1, <2>2, <2>3 DEF Apply, TypeOK
  <1> QED BY <1>2, <1>3, <1>4, <1>5, <1>6 DEF Machine, User

\* Every step of a registry keeps the types.
LEMMA RegistryType ==
    ASSUME TypeOK, NEW p \in Processes, Registry(p) PROVE TypeOK'
  <1>1. CASE Rescan(p)
    <2>1. {i \in installed : Backend[i] \notin broken} \subseteq Instances /\ broken \subseteq Fallible
      BY DEF TypeOK
    <2>2. pc' \in [Processes -> {"idle", "read", "repair"}]
      BY <1>1 DEF Rescan, TypeOK
    <2>3. scanned' \in [Processes -> SUBSET Instances] /\ failed' \in [Processes -> SUBSET Fallible]
      BY <1>1, <2>1 DEF Rescan, TypeOK
    <2>4. applied' \in BOOLEAN
      BY <1>1 DEF Rescan, TypeOK
    <2> QED BY <1>1, <2>2, <2>3, <2>4 DEF Rescan, TypeOK
  <1>2. CASE Read(p)
    BY <1>2 DEF Read, TypeOK
  <1>3. CASE Repair(p)
    <2> DEFINE id == Decision(scanned[p], saved[p])
    <2>1. id \in scanned[p] \cup {None} /\ id \in Choices /\ scanned[p] \subseteq Instances
      BY RepairTypes
    <2> HIDE DEF id
    <2>2. /\ store' \in Choices /\ steady' \in BOOLEAN
          /\ overwritten' \in [Processes -> BOOLEAN] /\ raced' \in [Processes -> BOOLEAN]
      <3>1. Stored(p, id) \/ NotStored(p)
        BY <1>3 DEF Repair, id
      <3> QED BY <2>1, <3>1, StoredType DEF NotStored, TypeOK
    <2>3. /\ instances' \in [Processes -> SUBSET Instances]
          /\ selectedId' \in [Processes -> Choices] /\ synced' \in [Processes -> BOOLEAN]
      <3>1. PICK written \in BOOLEAN : Keep(p, id, written)
        BY <1>3 DEF Repair, id
      <3>2. instances' \in [Processes -> SUBSET Instances]
        BY <3>1 DEF Keep, TypeOK
      <3>3. selectedId' \in [Processes -> Choices]
        BY <2>1, <3>1 DEF Keep, TypeOK
      <3>4. synced' \in [Processes -> BOOLEAN]
        BY <3>1 DEF Keep, TypeOK
      <3> QED BY <3>2, <3>3, <3>4
    <2>4. items' \subseteq Instances /\ pendingId' \in items' \cup {None}
          /\ persistedId' \in items' \cup {None}
      <3>1. Loaded(scanned[p], id) \/ UNCHANGED modelVars
        BY <1>3 DEF Repair, id
      <3> QED BY <2>1, <3>1 DEF Loaded, TypeOK
    <2>5. up' \subseteq Processes /\ UNCHANGED <<machineVars, applied>> /\ Done(p)
      BY <1>3 DEF Repair, TypeOK
    <2> QED BY <2>2, <2>3, <2>4, <2>5, DoneType DEF TypeOK
  <1>4. CASE Throws(p)
    <2>1. items' \subseteq Instances /\ pendingId' \in items' \cup {None}
          /\ persistedId' \in items' \cup {None} /\ up' \subseteq Processes
      BY <1>4 DEF Throws, Loaded, TypeOK
    <2>2. Done(p)
      BY <1>4 DEF Throws
    <2> QED BY <1>4, <2>1, <2>2, DoneType DEF Throws, TypeOK
  <1>5. CASE End(p)
    <2>1. items' \subseteq Instances /\ pendingId' \in items' \cup {None}
          /\ persistedId' \in items' \cup {None} /\ up' \subseteq Processes
      BY <1>5 DEF End, Loaded, TypeOK
    <2>2. Done(p)
      BY <1>5 DEF End
    <2>3. /\ instances' \in [Processes -> SUBSET Instances]
          /\ selectedId' \in [Processes -> Choices] /\ synced' \in [Processes -> BOOLEAN]
      BY <1>5 DEF End, TypeOK, Choices
    <2> QED BY <1>5, <2>1, <2>2, <2>3, DoneType DEF End, TypeOK
  <1> QED BY <1>1, <1>2, <1>3, <1>4, <1>5 DEF Registry

\* No step makes a call forget that another process wrote the file after it read.
LEMMA NextRead == TypeOK /\ ReadInv /\ [Next]_vars => ReadInv'
  <1> SUFFICES ASSUME TypeOK, ReadInv, [Next]_vars, NEW q \in Processes,
                      pc'[q] = "repair", ~raced'[q]
               PROVE  saved'[q] = store'
    BY DEF ReadInv
  <1>1. ASSUME UNCHANGED <<store, pc, saved, raced>> PROVE saved'[q] = store'
    BY <1>1 DEF ReadInv
  <1>2. CASE Machine
    BY <1>1, <1>2 DEF Machine, Install, Remove, Flip
  <1>3. ASSUME NEW i \in Instances, SelectPending(i) PROVE saved'[q] = store'
    BY <1>1, <1>3 DEF SelectPending
  <1>4. CASE Defaults
    BY <1>1, <1>4 DEF Defaults
  <1>5. CASE Apply
    <2>1. pc' = pc /\ saved' = saved /\ pc[Settings] = "idle"
      BY <1>5 DEF Apply, SettingsIdle
    <2>2. Stored(Settings, pendingId)
      BY <1>5 DEF Apply
    <2> QED BY <2>1, <2>2 DEF Stored
  <1>6. ASSUME NEW p \in Processes, Rescan(p) PROVE saved'[q] = store'
    BY <1>6 DEF Rescan, ReadInv, TypeOK
  <1>7. ASSUME NEW p \in Processes, Read(p) PROVE saved'[q] = store'
    BY <1>7 DEF Read, ReadInv, TypeOK
  <1>8. ASSUME NEW p \in Processes, Done(p), UNCHANGED store /\ raced'[q] = raced[q]
        PROVE  saved'[q] = store'
    BY <1>8, DoneType DEF ReadInv
  <1>9. ASSUME NEW p \in Processes, Repair(p) PROVE saved'[q] = store'
    <2>1. Done(p) /\ q # p
      BY <1>9, DoneType DEF Repair
    <2>2. UNCHANGED <<store, raced>>
      BY <1>9, <2>1 DEF Repair, Stored, NotStored
    <2> QED BY <1>8, <2>1, <2>2
  <1>10. ASSUME NEW p \in Processes, Throws(p) \/ End(p) PROVE saved'[q] = store'
    BY <1>8, <1>10 DEF Throws, End
  <1>11. CASE UNCHANGED vars
    BY <1>1, <1>11 DEF vars
  <1> QED BY <1>2, <1>3, <1>4, <1>5, <1>6, <1>7, <1>9, <1>10, <1>11 DEF Next, Registry, User

\* A step that changes neither the file nor a registry keeps SyncedMeansStored.
LEMMA SyncedKept ==
    ASSUME SyncedMeansStored, UNCHANGED <<store, overwritten, registryVars>>
    PROVE  SyncedMeansStored'
  BY DEF SyncedMeansStored

\* No step makes a registry believe of its selection what is not so.
LEMMA NextSynced == TypeOK /\ ReadInv /\ SyncedMeansStored /\ SettingsShowTheSelection /\ [Next]_vars
                        => SyncedMeansStored'
  <1> SUFFICES ASSUME TypeOK, ReadInv, SyncedMeansStored, SettingsShowTheSelection, [Next]_vars
               PROVE  SyncedMeansStored'
    OBVIOUS
  <1>1. CASE Machine
    BY <1>1, SyncedKept DEF Machine, Install, Remove, Flip
  <1>2. ASSUME NEW i \in Instances, SelectPending(i) PROVE SyncedMeansStored'
    BY <1>2, SyncedKept DEF SelectPending
  <1>3. CASE Defaults
    BY <1>3, SyncedKept DEF Defaults
  <1>4. CASE Apply
    <2>1. /\ Stored(Settings, pendingId) /\ Selected(pendingId) /\ instances' = instances
          /\ pendingId \in instances[Settings] /\ pendingId \in Choices
      BY <1>4 DEF Apply, TypeOK, Choices
    <2>2. store' = pendingId /\ \A q \in Processes : overwritten'[q] <=> q # Settings
      BY <2>1, StoredType DEF Stored
    <2>3. /\ selectedId'[Settings] = pendingId
          /\ \A q \in Processes \ {Settings} : selectedId'[q] = selectedId[q]
      BY <2>1 DEF Selected, TypeOK
    <2> QED BY <2>1, <2>2, <2>3 DEF SyncedMeansStored
  <1>5. ASSUME NEW p \in Processes, Rescan(p) \/ Read(p) \/ Throws(p) PROVE SyncedMeansStored'
    BY <1>5, SyncedKept DEF Rescan, Read, Throws
  <1>6. ASSUME NEW p \in Processes, End(p) PROVE SyncedMeansStored'
    <2>1. /\ selectedId'[p] = None /\ ~synced'[p] /\ store' = store /\ overwritten' = overwritten
          /\ \A q \in Processes \ {p} : /\ selectedId'[q] = selectedId[q] /\ synced'[q] = synced[q]
                                        /\ instances'[q] = instances[q]
      BY <1>6 DEF End, TypeOK
    <2> QED BY <2>1 DEF SyncedMeansStored
  <1>7. ASSUME NEW p \in Processes, Repair(p) PROVE SyncedMeansStored'
    <2> DEFINE id == Decision(scanned[p], saved[p])
    <2>1. id \in scanned[p] \cup {None} /\ id \in Choices
      BY RepairTypes
    <2>2. PICK written \in BOOLEAN :
            /\ Keep(p, id, written)
            /\ \/ written /\ id = saved[p] /\ NotStored(p)
               \/ written /\ Stored(p, id)
               \/ ~written /\ NotStored(p)
      BY <1>7 DEF Repair
    <2>3. pc[p] = "repair"
      BY <1>7 DEF Repair
    <2> HIDE DEF id
    <2>4. instances'[p] = scanned[p] /\ selectedId'[p] = id /\ (synced'[p] <=> written)
      BY <2>2 DEF Keep, TypeOK
    <2>5. \A q \in Processes \ {p} : /\ instances'[q] = instances[q]
                                     /\ selectedId'[q] = selectedId[q] /\ synced'[q] = synced[q]
      BY <2>2 DEF Keep, TypeOK
    <2>6. CASE NotStored(p)
      <3>1. store' = store /\ \A q \in Processes \ {p} : overwritten'[q] = overwritten[q]
        BY <2>6 DEF NotStored, TypeOK
      <3>2. overwritten'[p] = raced[p]
        BY <2>6 DEF NotStored, TypeOK
      <3>3. id = store \/ ~written \/ raced[p] \/ Stored(p, id)
        BY <2>2, <2>3 DEF ReadInv
      <3>4. id = store' \/ ~written \/ raced[p]
        BY <3>1, <3>3 DEF Stored
      <3> QED BY <2>1, <2>4, <2>5, <3>1, <3>2, <3>4 DEF SyncedMeansStored
    <2>7. CASE Stored(p, id)
      <3>1. store' = id /\ \A q \in Processes : overwritten'[q] <=> q # p
        BY <2>1, <2>7, StoredType DEF Stored
      <3> QED BY <2>1, <2>4, <2>5, <3>1 DEF SyncedMeansStored
    <2> QED BY <2>2, <2>6, <2>7
  <1>8. CASE UNCHANGED vars
    BY <1>8, SyncedKept DEF vars
  <1> QED BY <1>1, <1>2, <1>3, <1>4, <1>5, <1>6, <1>7, <1>8 DEF Next, Registry, User

\* No step makes the settings module show another selection than its registry has.
LEMMA NextShow == TypeOK /\ SettingsShowTheSelection /\ [Next]_vars => SettingsShowTheSelection'
  <1> SUFFICES ASSUME TypeOK, SettingsShowTheSelection, [Next]_vars
               PROVE  SettingsShowTheSelection'
    OBVIOUS
  <1>1. ASSUME UNCHANGED <<instances, selectedId, modelVars>> PROVE SettingsShowTheSelection'
    BY <1>1 DEF SettingsShowTheSelection
  <1>2. CASE Machine
    BY <1>1, <1>2 DEF Machine, Install, Remove, Flip
  <1>3. ASSUME NEW i \in Instances, SelectPending(i) PROVE SettingsShowTheSelection'
    BY <1>3 DEF SelectPending, SettingsShowTheSelection
  <1>4. CASE Defaults
    <2>1. items = {} => pendingId' = None
      BY <1>4 DEF Defaults, Decision
    <2> QED BY <1>4, <2>1 DEF Defaults, SettingsShowTheSelection
  <1>5. CASE Apply
    <2>1. /\ Selected(pendingId) /\ instances' = instances /\ items' = items
          /\ pendingId \in items
      BY <1>5 DEF Apply
    <2>2. items = instances[Settings]
      BY <2>1 DEF SettingsShowTheSelection
    <2>3. selectedId'[Settings] = persistedId'
      BY <2>1 DEF Selected, TypeOK
    <2> QED BY <2>1, <2>2, <2>3 DEF SettingsShowTheSelection
  <1>6. ASSUME NEW p \in Processes, Rescan(p) \/ Read(p) PROVE SettingsShowTheSelection'
    BY <1>1, <1>6 DEF Rescan, Read
  <1>7. ASSUME NEW p \in Processes, Repair(p) PROVE SettingsShowTheSelection'
    <2> DEFINE id == Decision(scanned[p], saved[p])
    <2>1. PICK written \in BOOLEAN : Keep(p, id, written)
      BY <1>7 DEF Repair
    <2>2. IF p = Settings THEN Loaded(scanned[p], id) ELSE UNCHANGED modelVars
      BY <1>7 DEF Repair
    <2> HIDE DEF id
    <2>3. CASE p = Settings
      <3>1. instances'[Settings] = scanned[p] /\ selectedId'[Settings] = id
        BY <2>1, <2>3 DEF Keep, TypeOK
      <3> QED BY <2>2, <2>3, <3>1 DEF Loaded, SettingsShowTheSelection
    <2>4. CASE p # Settings
      <3>1. /\ instances'[Settings] = instances[Settings]
            /\ selectedId'[Settings] = selectedId[Settings]
        BY <2>1, <2>4 DEF Keep, TypeOK
      <3> QED BY <2>2, <2>4, <3>1 DEF SettingsShowTheSelection
    <2> QED BY <2>3, <2>4
  <1>8. ASSUME NEW p \in Processes, Throws(p) PROVE SettingsShowTheSelection'
    <2>1. CASE p = Settings
      BY <1>8, <2>1 DEF Throws, Loaded, SettingsShowTheSelection
    <2>2. CASE p # Settings
      BY <1>1, <1>8, <2>2 DEF Throws
    <2> QED BY <2>1, <2>2
  <1>9. ASSUME NEW p \in Processes, End(p) PROVE SettingsShowTheSelection'
    <2>1. CASE p = Settings
      BY <1>9, <2>1 DEF End, Loaded, SettingsShowTheSelection
    <2>2. CASE p # Settings
      <3>1. /\ instances'[Settings] = instances[Settings]
            /\ selectedId'[Settings] = selectedId[Settings] /\ UNCHANGED modelVars
        BY <1>9, <2>2 DEF End, TypeOK
      <3> QED BY <3>1 DEF SettingsShowTheSelection
    <2> QED BY <2>1, <2>2
  <1>10. CASE UNCHANGED vars
    BY <1>1, <1>10 DEF vars
  <1> QED BY <1>2, <1>3, <1>4, <1>5, <1>6, <1>7, <1>8, <1>9, <1>10 DEF Next, Registry, User

\* IInv holds in every reachable state, whatever the processes and installations.
THEOREM SelectionInvariant == Spec => []IInv
  <1>1. Init => IInv
    <2> SUFFICES ASSUME Init PROVE IInv
      OBVIOUS
    <2>1. TypeOK
      BY InitType
    <2>2. ReadInv
      BY DEF Init, ReadInv
    <2>3. SyncedMeansStored
      BY DEF Init, SyncedMeansStored
    <2>4. SettingsShowTheSelection
      BY DEF Init, SettingsShowTheSelection
    <2> QED BY <2>1, <2>2, <2>3, <2>4 DEF IInv
  <1>2. IInv /\ [Next]_vars => IInv'
    <2> SUFFICES ASSUME IInv, [Next]_vars PROVE IInv'
      OBVIOUS
    <2>1. TypeOK'
      BY OtherType, RegistryType DEF IInv, Next, TypeOK, vars
    <2> QED BY <2>1, NextRead, NextSynced, NextShow DEF IInv
  <1> QED BY <1>1, <1>2, PTL DEF Spec

\* Every variable keeps its type.
THEOREM SelectionTypeOK == Spec => []TypeOK
  <1>1. IInv => TypeOK
    BY DEF IInv
  <1> QED BY <1>1, SelectionInvariant, PTL

\* InstanceRegistry: its selection is in its scan, and in the file when it says so.
THEOREM SelectionSyncedMeansStored == Spec => []SyncedMeansStored
  <1>1. IInv => SyncedMeansStored
    BY DEF IInv
  <1> QED BY <1>1, SelectionInvariant, PTL

\* InstanceSettingsModel shows what its registry has, or nothing.
THEOREM SelectionSettingsShow == Spec => []SettingsShowTheSelection
  <1>1. IInv => SettingsShowTheSelection
    BY DEF IInv
  <1> QED BY <1>1, SelectionInvariant, PTL

\* rescanAndRepair gives up a saved installation only if it was looked for in vain.
THEOREM SelectionRepairIsJustified == Spec => RepairIsJustified
  <1>1. IInv /\ [Next]_vars =>
          [\A p \in Processes :
             Repair(p) /\ store' # store /\ ~raced[p] /\ store # None =>
                 store \notin scanned[p] /\ Backend[store] \notin failed[p]]_vars
    <2> SUFFICES ASSUME IInv, NEW p \in Processes,
                        Repair(p), store' # store, ~raced[p], store # None
                 PROVE  store \notin scanned[p] /\ Backend[store] \notin failed[p]
      OBVIOUS
    <2> DEFINE id == Decision(scanned[p], saved[p])
    <2>1. saved[p] = store
      BY DEF IInv, ReadInv, Repair
    <2>2. id # saved[p] /\ MayWrite(p)
      BY DEF Repair, NotStored
    <2>3. store \notin scanned[p]
      BY <2>1, <2>2, RepairTypes DEF IInv
    <2>4. Backend[store] \notin failed[p]
      BY <2>1, <2>2 DEF MayWrite
    <2> QED BY <2>3, <2>4
  <1> QED BY <1>1, SelectionInvariant, PTL DEF Spec, RepairIsJustified
==============================================================================
