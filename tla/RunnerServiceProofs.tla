------------------------- MODULE RunnerServiceProofs -------------------------
(***************************************************************************)
(* Proofs about RunnerService, for every set of instances and profiles and *)
(* every value of the bounds.  The inductive invariant IInv is type        *)
(* correctness, the agreement of the sessions, and two facts about what is *)
(* held between calls: whose token it is (TokenInv) and what a clean       *)
(* snapshot lists (SnapshotInv).  The action properties follow from it,    *)
(* because only Run starts a process.                                      *)
(***************************************************************************)
EXTENDS RunnerService, TLAPS

USE ServiceAssumption, NewConnectionAssumption, NoLaunchAssumption

\* What the catalog answers keeps its type, whichever way records() ends.
LEMMA CatalogRecordsType ==
    ASSUME TypeOK, NEW i \in Instances,
           NEW how \in {"reused", "clean", "unverified", "failed"}, CatalogRecords(i, how)
    PROVE  /\ catalogFor' \in Instances /\ records' \subseteq Record
           /\ hasClean' \in BOOLEAN /\ dirty' \in BOOLEAN /\ pending' \in BOOLEAN
           /\ listed' \subseteq Profiles
  <1>1. records' \subseteq Record
    BY DEF CatalogRecords, TypeOK, OnDisk
  <1>2. listed' \subseteq Profiles
    BY <1>1 DEF CatalogRecords, TypeOK, Record
  <1>3. catalogFor' \in Instances
    BY DEF CatalogRecords
  <1>4. hasClean' \in BOOLEAN /\ dirty' \in BOOLEAN
    BY DEF CatalogRecords
  <1>5. pending' \in BOOLEAN
    BY DEF CatalogRecords, TypeOK
  <1> QED BY <1>1, <1>2, <1>3, <1>4, <1>5

\* Every way records() ends leaves a snapshot that SnapshotInv accepts.
LEMMA CatalogRecordsSnapshot ==
    ASSUME TypeOK, SnapshotInv, NEW i \in Instances,
           NEW how \in {"reused", "clean", "unverified", "failed"}, CatalogRecords(i, how),
           content' = content
    PROVE  SnapshotInv'
  <1>1. CASE how = "reused"
    <2>1. hasClean /\ catalogFor = i /\ catalogFor' = i /\ records' = records /\ ~dirty
      BY <1>1 DEF CatalogRecords
    <2>2. listed \subseteq listed' /\ dirty' = FALSE /\ (pending' <=> pending)
      BY <1>1 DEF CatalogRecords, TypeOK
    <2> QED BY <2>1, <2>2 DEF SnapshotInv
  <1>2. CASE how = "clean"
    <2>1. records' = OnDisk(i) /\ catalogFor' = i
      BY <1>2 DEF CatalogRecords
    <2>2. \A r \in records' : r.id \in listed'
      BY <1>2 DEF CatalogRecords
    <2> QED BY <2>1, <2>2 DEF SnapshotInv, OnDisk
  <1>3. CASE how \in {"unverified", "failed"}
    BY <1>3 DEF CatalogRecords, SnapshotInv
  <1> QED BY <1>1, <1>2, <1>3

\* What a request holds.
LEMMA RequestType ==
    ASSUME TypeOK, NEW id \in Profiles \cup {NewConnection}, NEW r \in Request(id)
    PROVE  r \in Launch /\ r.instance = selectedId /\ r.id = id /\ r.token = activationToken
  <1>1. Selected \in Instances /\ Selected = selectedId
    BY DEF Request, Selected, TypeOK
  <1>2. r.ver \in Versions
    <2>1. CASE id = NewConnection
      BY <2>1 DEF Request, Versions
    <2>2. CASE id # NewConnection
      BY <2>2 DEF Request, Resolve, TypeOK, Record
    <2> QED BY <2>1, <2>2
  <1>3. r = [instance |-> Selected, id |-> id, ver |-> r.ver, token |-> activationToken]
    BY DEF Request
  <1> QED BY <1>1, <1>2, <1>3 DEF Launch, TypeOK

\* The initial states are well-typed.
LEMMA InitType == Init => TypeOK
  <1> SUFFICES ASSUME Init PROVE TypeOK
    OBVIOUS
  <1>1. 0 .. 1 \subseteq Versions /\ 0 \in 0 .. MaxChanges /\ 0 \in 0 .. MaxTokens
    BY DEF Versions
  <1>2. content \in [Profiles -> Versions]
    <2>1. [Profiles -> 0 .. 1] \subseteq [Profiles -> Versions]
      BY <1>1
    <2> QED BY <2>1 DEF Init
  <1>3. instances \subseteq Instances /\ selectedId \in instances \cup {NoInstance}
    BY DEF Init, Scans
  <1>4. changes \in 0 .. MaxChanges /\ issued \in 0 .. MaxTokens
    BY <1>1 DEF Init
  <1> QED BY <1>2, <1>3, <1>4 DEF Init, TypeOK

\* Every step keeps the types.
LEMMA NextType == TypeOK /\ [Next]_vars => TypeOK'
  <1> SUFFICES ASSUME TypeOK, [Next]_vars PROVE TypeOK'
    OBVIOUS
  <1> USE DEF machineVars, registryVars, catalogVars, serviceVars
  <1>1. CASE UNCHANGED vars
    BY <1>1 DEF vars, TypeOK
  <1>2. ASSUME NEW i \in Instances, ChangeInstallation(i) PROVE TypeOK'
    <2>1. changes' \in 0 .. MaxChanges
      BY <1>2 DEF ChangeInstallation, OneChange, TypeOK
    <2> QED BY <1>2, <2>1 DEF ChangeInstallation, TypeOK
  <1>3. ASSUME NEW id \in Profiles, ChangeProfile(id) PROVE TypeOK'
    <2>1. changes' \in 0 .. MaxChanges /\ {0, changes + 2} \subseteq Versions
      BY <1>3 DEF ChangeProfile, OneChange, TypeOK, Versions
    <2>2. content' \in [Profiles -> Versions]
      BY <1>3, <2>1 DEF ChangeProfile, TypeOK
    <2>3. pending' \in BOOLEAN
      BY <1>3 DEF ChangeProfile, TypeOK
    <2> QED BY <1>3, <2>1, <2>2, <2>3 DEF ChangeProfile, TypeOK
  <1>4. CASE Deliver
    BY <1>4 DEF Deliver, TypeOK
  <1>5. CASE MatchNothing
    BY <1>5 DEF MatchNothing, TypeOK
  <1>6. CASE MatchNoInstance
    BY <1>6 DEF MatchNoInstance, EndActiveSession, TypeOK
  <1>7. CASE MatchLookup
    <2>1. Selected \in Instances
      BY <1>7 DEF MatchLookup, Selected, TypeOK
    <2>2. PICK how \in {"reused", "clean", "unverified", "failed"} : CatalogRecords(Selected, how)
      BY <1>7 DEF MatchLookup
    <2>3. /\ catalogFor' \in Instances /\ records' \subseteq Record
          /\ hasClean' \in BOOLEAN /\ dirty' \in BOOLEAN /\ pending' \in BOOLEAN
          /\ listed' \subseteq Profiles
      BY <2>1, <2>2, CatalogRecordsType
    <2>4. sessionActive' \in BOOLEAN /\ catalogSession' \in BOOLEAN /\ idleTimer' \in BOOLEAN
      BY <1>7 DEF MatchLookup, Answered, Unanswered
    <2> QED BY <1>7, <2>3, <2>4 DEF MatchLookup, TypeOK
  <1>8. CASE SetActivationToken
    <2>1. issued' \in 0 .. MaxTokens /\ issued + 1 \in 1 .. MaxTokens
      BY <1>8 DEF SetActivationToken, TypeOK
    <2> QED BY <1>8, <2>1 DEF SetActivationToken, TypeOK
  <1>9. ASSUME NEW id \in Profiles \cup {NewConnection}, Run(id) PROVE TypeOK'
    <2>1. launched' \in Launch \cup {NoLaunch}
      BY <1>9, RequestType DEF Run
    <2>2. idleTimer' \in BOOLEAN /\ sessionActive' \in BOOLEAN /\ catalogSession' \in BOOLEAN
      BY <1>9 DEF Run, EndActiveSession, TypeOK
    <2> QED BY <1>9, <2>1, <2>2 DEF Run, TypeOK
  <1>10. CASE RunNothing
    BY <1>10 DEF RunNothing, EndActiveSession, TypeOK
  <1>11. CASE Teardown
    BY <1>11 DEF Teardown, TypeOK
  <1>12. CASE Timeout
    BY <1>12 DEF Timeout, EndActiveSession, TypeOK
  <1>13. CASE Config
    <2>1. instances' \subseteq Instances /\ selectedId' \in instances' \cup {NoInstance}
      BY <1>13 DEF Config, Rescanned, Scans, TypeOK
    <2> QED BY <1>13, <2>1 DEF Config, CatalogReset, TypeOK
  <1>14. CASE Restart
    <2>1. instances' \subseteq Instances /\ selectedId' \in instances' \cup {NoInstance}
      BY <1>14 DEF Restart, Rescanned, Scans, TypeOK
    <2> QED BY <1>14, <2>1 DEF Restart, CatalogReset, TypeOK
  <1> QED BY <1>1, <1>2, <1>3, <1>4, <1>5, <1>6, <1>7, <1>8, <1>9, <1>10, <1>11, <1>12, <1>13, <1>14
          DEF Next, Machine, Service, Match

\* The three sessions begin and end in the same steps.
LEMMA NextSessions == TypeOK /\ SessionsAgree /\ [Next]_vars => SessionsAgree'
  <1> SUFFICES ASSUME TypeOK, SessionsAgree, [Next]_vars PROVE SessionsAgree'
    OBVIOUS
  <1> USE DEF catalogVars, serviceVars, SessionsAgree
  <1>1. CASE UNCHANGED vars
    BY <1>1 DEF vars
  <1>2. CASE Machine
    BY <1>2 DEF Machine, ChangeInstallation, ChangeProfile, Deliver
  <1>3. CASE MatchNothing \/ SetActivationToken
    BY <1>3 DEF MatchNothing, SetActivationToken
  <1>4. ASSUME EndActiveSession PROVE SessionsAgree'
    BY <1>4 DEF EndActiveSession, TypeOK
  <1>5. CASE MatchNoInstance \/ RunNothing \/ Timeout
    BY <1>4, <1>5 DEF MatchNoInstance, RunNothing, Timeout
  <1>6. ASSUME NEW id \in Profiles \cup {NewConnection}, Run(id) PROVE SessionsAgree'
    BY <1>4, <1>6 DEF Run
  <1>7. CASE MatchLookup
    BY <1>7 DEF MatchLookup, Answered, Unanswered
  <1>8. CASE Teardown \/ Config \/ Restart
    BY <1>8 DEF Teardown, Config, Restart, CatalogReset
  <1> QED BY <1>1, <1>2, <1>3, <1>5, <1>6, <1>7, <1>8 DEF Next, Service, Match

\* No call but SetActivationToken leaves a token behind, and no other step takes
\* its caller away.
LEMMA NextToken == TokenInv /\ [Next]_vars => TokenInv'
  <1> SUFFICES ASSUME TokenInv, [Next]_vars PROVE TokenInv'
    OBVIOUS
  <1> USE DEF serviceVars, TokenInv
  <1>1. CASE UNCHANGED vars
    BY <1>1 DEF vars
  <1>2. CASE Machine
    BY <1>2 DEF Machine, ChangeInstallation, ChangeProfile, Deliver
  <1>3. CASE SetActivationToken
    BY <1>3 DEF SetActivationToken
  <1>4. ASSUME NEW id \in Profiles \cup {NewConnection}, Run(id) PROVE TokenInv'
    BY <1>4 DEF Run
  <1>5. CASE Match \/ RunNothing \/ Teardown \/ Timeout \/ Config \/ Restart
    BY <1>5 DEF Match, MatchNothing, MatchNoInstance, MatchLookup, RunNothing, Teardown,
                Timeout, Config, Restart
  <1> QED BY <1>1, <1>2, <1>3, <1>4, <1>5 DEF Next, Service

\* A change of a listed profile queues an event; any other step either leaves the
\* snapshot and the files alone, reads the files again, or drops the snapshot.
LEMMA NextSnapshot == TypeOK /\ SnapshotInv /\ [Next]_vars => SnapshotInv'
  <1> SUFFICES ASSUME TypeOK, SnapshotInv, [Next]_vars PROVE SnapshotInv'
    OBVIOUS
  <1> USE DEF machineVars, catalogVars
  <1>1. ASSUME UNCHANGED <<content, catalogFor, records, hasClean, dirty, pending, listed>>
        PROVE  SnapshotInv'
    BY <1>1 DEF SnapshotInv
  <1>2. ASSUME NEW id \in Profiles, ChangeProfile(id) PROVE SnapshotInv'
    <2>1. UNCHANGED <<catalogFor, records, hasClean, dirty, listed>>
      BY <1>2 DEF ChangeProfile
    <2>2. ASSUME NEW r \in records, hasClean, ~dirty', ~pending' PROVE r.ver = content'[r.id]
      <3>1. r.id \in Profiles /\ r.id[1] = catalogFor /\ ~pending
        BY <1>2, <2>2 DEF ChangeProfile, SnapshotInv, TypeOK, Record
      <3>2. id # r.id
        BY <1>2, <2>2, <3>1 DEF ChangeProfile
      <3>3. content'[r.id] = content[r.id]
        BY <1>2, <3>1, <3>2 DEF ChangeProfile, TypeOK
      <3> QED BY <2>1, <2>2, <3>1, <3>3 DEF SnapshotInv
    <2> QED BY <2>1, <2>2 DEF SnapshotInv
  <1>3. CASE Deliver
    BY <1>3 DEF Deliver, SnapshotInv
  <1>4. CASE MatchLookup
    <2>1. Selected \in Instances /\ content' = content
      BY <1>4 DEF MatchLookup, Selected, TypeOK
    <2>2. PICK how \in {"reused", "clean", "unverified", "failed"} : CatalogRecords(Selected, how)
      BY <1>4 DEF MatchLookup
    <2> QED BY <2>1, <2>2, CatalogRecordsSnapshot
  <1>5. CASE Config \/ Restart
    BY <1>5 DEF Config, Restart, CatalogReset, SnapshotInv
  <1>6. CASE MatchNothing \/ MatchNoInstance \/ SetActivationToken \/ RunNothing
             \/ Teardown \/ Timeout
    BY <1>1, <1>6 DEF MatchNothing, MatchNoInstance, SetActivationToken, RunNothing, Teardown, Timeout
  <1>7. ASSUME NEW id \in Profiles \cup {NewConnection}, Run(id) PROVE SnapshotInv'
    BY <1>1, <1>7 DEF Run
  <1>8. ASSUME NEW i \in Instances, ChangeInstallation(i) PROVE SnapshotInv'
    BY <1>1, <1>8 DEF ChangeInstallation
  <1>9. CASE UNCHANGED vars
    BY <1>1, <1>9 DEF vars
  <1> QED BY <1>2, <1>3, <1>4, <1>5, <1>6, <1>7, <1>8, <1>9 DEF Next, Machine, Service, Match

\* The inductive invariant holds in every reachable state.
THEOREM ServiceInvariant == Spec => []IInv
  <1>1. Init => IInv
    BY InitType DEF Init, IInv, SessionsAgree, TokenInv, SnapshotInv
  <1>2. IInv /\ [Next]_vars => IInv'
    BY NextType, NextSessions, NextToken, NextSnapshot DEF IInv
  <1> QED BY <1>1, <1>2, PTL DEF Spec

\* The types hold, and the selection is always one of the last scan.
THEOREM ServiceTypeOK == Spec => []TypeOK
  <1>1. IInv => TypeOK
    BY DEF IInv
  <1> QED BY <1>1, ServiceInvariant, PTL

\* The service's session, the catalog's and the timer live and die together.
THEOREM ServiceSessionsAgree == Spec => []SessionsAgree
  <1>1. IInv => SessionsAgree
    BY DEF IInv
  <1> QED BY <1>1, ServiceInvariant, PTL

\* Only Run starts a process, and what it starts was asked of the launcher.
LEMMA OnlyRunLaunches ==
    ASSUME TypeOK, Next, launched' # NoLaunch
    PROVE  \E id \in Profiles \cup {NewConnection} :
              Run(id) /\ launched' \in Request(id) /\ launched'.id = id
                      /\ launched'.instance = selectedId /\ launched'.token = activationToken
  <1>1. PICK id \in Profiles \cup {NewConnection} : Run(id)
    BY DEF Next, Machine, ChangeInstallation, ChangeProfile, Deliver, Service, Match, MatchNothing,
           MatchNoInstance, MatchLookup, SetActivationToken, RunNothing, Teardown, Timeout,
           Config, Restart
  <1>2. launched' \in Request(id)
    BY <1>1 DEF Run
  <1> QED BY <1>1, <1>2, RequestType

\* A launch carries the token its own caller gave just before, or none.
THEOREM ServiceTokenIsTheCallers == Spec => TokenIsTheCallers
  <1>1. IInv /\ [Next]_vars => [launched' # NoLaunch =>
                                  launched'.token \in offered \cup {NoToken}]_vars
    BY OnlyRunLaunches DEF IInv, TokenInv
  <1> QED BY <1>1, ServiceInvariant, PTL DEF Spec, TokenIsTheCallers

\* What a request for a profile says of it.
LEMMA RequestOfProfile ==
    ASSUME IInv, NEW id \in Profiles, NEW r \in Request(id)
    PROVE  /\ id[1] = selectedId /\ content[id] # 0 /\ id \in listed
           /\ r.ver = content[id] \/ pending
  <1>1. id # NewConnection /\ Selected = selectedId /\ Selected # NoInstance
    BY DEF Request, Selected
  <1>2. PICK s \in Resolve(Selected, id) : r.ver = s.ver
    BY <1>1 DEF Request
  <1>3. /\ catalogFor = Selected /\ hasClean /\ ~dirty /\ content[id] # 0
        /\ s \in records /\ s.id = id
    BY <1>2 DEF Resolve
  <1>4. id[1] = catalogFor /\ id \in listed /\ (~pending => s.ver = content[id])
    BY <1>3 DEF IInv, SnapshotInv
  <1> QED BY <1>1, <1>2, <1>3, <1>4

\* What is opened is a profile of the selected instance that is there, unchanged
\* since it was listed unless the catalog could not know.
THEOREM ServiceLaunchIsCurrent == Spec => LaunchIsCurrent
  <1>1. ASSUME IInv, [Next]_vars
        PROVE  [launched' # NoLaunch /\ launched'.id \in Profiles =>
                  /\ launched'.id[1] = launched'.instance /\ launched'.instance = selectedId
                  /\ content[launched'.id] # 0
                  /\ launched'.ver = content[launched'.id] \/ pending]_vars
    <2> SUFFICES ASSUME Next, launched' # NoLaunch, launched'.id \in Profiles
                 PROVE  /\ launched'.id[1] = launched'.instance /\ launched'.instance = selectedId
                        /\ content[launched'.id] # 0
                        /\ launched'.ver = content[launched'.id] \/ pending
      BY <1>1
    <2>1. launched' \in Request(launched'.id) /\ launched'.instance = selectedId
      BY <1>1, OnlyRunLaunches DEF IInv
    <2> QED BY <1>1, <2>1, RequestOfProfile
  <1> QED BY <1>1, ServiceInvariant, PTL DEF Spec, LaunchIsCurrent

\* Nothing listed before the settings were applied can be opened after it.
THEOREM ServiceLaunchesOnlyListed == Spec => LaunchesOnlyListed
  <1>1. ASSUME IInv, [Next]_vars
        PROVE  [launched' # NoLaunch /\ launched'.id \in Profiles =>
                  launched'.id \in listed]_vars
    <2> SUFFICES ASSUME Next, launched' # NoLaunch, launched'.id \in Profiles
                 PROVE  launched'.id \in listed
      BY <1>1
    <2>1. launched' \in Request(launched'.id)
      BY <1>1, OnlyRunLaunches DEF IInv
    <2> QED BY <1>1, <2>1, RequestOfProfile
  <1> QED BY <1>1, ServiceInvariant, PTL DEF Spec, LaunchesOnlyListed

\* Neither Teardown nor the timer makes a result the user may still choose unusable.
THEOREM ServiceActionableAfterTeardown == Spec => ActionableAfterTeardown
  <1>1. Teardown \/ Timeout => Actionable' = Actionable
    BY DEF Teardown, Timeout, Actionable, Resolve, Selected, machineVars, registryVars
  <1> QED BY <1>1, PTL DEF ActionableAfterTeardown
==============================================================================
