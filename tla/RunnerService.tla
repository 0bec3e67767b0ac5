---------------------------- MODULE RunnerService ----------------------------
(***************************************************************************)
(* The D-Bus runner (dbus/runner_service.cpp) and the launcher it drives   *)
(* (core/remmina_launcher.cpp), over the registry's last scan and the      *)
(* profile catalog, while installations and profiles come and go.          *)
(*                                                                         *)
(* The service is one thread: a D-Bus call runs to its end, so each is one *)
(* action, with every call it makes on the catalog.  What may happen       *)
(* inside ProfileCatalog::records is the subject of ProfileCatalog; here   *)
(* it ends in one of its four ways (reuse, clean, unverified, failed).     *)
(***************************************************************************)
EXTENDS Naturals, FiniteSets

CONSTANTS
    Instances,   \* Remmina installations
    Wrapped,     \* those started through a program that outlives them (flatpak)
    Names,       \* profile files of an instance
    MaxTokens,   \* bound: activation tokens KRunner issues
    MaxChanges,  \* bound: changes of profiles and installations
    NoInstance, NoToken, NoLaunch, NewConnection

ASSUME ServiceAssumption ==
    /\ Wrapped \subseteq Instances
    /\ MaxTokens \in Nat /\ MaxChanges \in Nat
    /\ NoInstance \notin Instances /\ NoToken \notin Nat

\* An opaque profile id is a digest of the instance id and the file's path.
Profiles == Instances \X Names

ASSUME NewConnectionAssumption == NewConnection \notin Profiles

Versions == 0 .. MaxChanges + 1
Record   == [id : Profiles, ver : Versions]
Launch   == [instance : Instances, id : Profiles \cup {NewConnection},
             ver : Versions, token : (1 .. MaxTokens) \cup {NoToken}]
ASSUME NoLaunchAssumption == NoLaunch \notin Launch

VARIABLES
    \* the machine (outside src/)
    installed,        \* the installations there are
    content,          \* the version of every profile file; 0: no such file
    changes,          \* how many changes have happened
    \* InstanceRegistry::snapshot
    instances, selectedId,
    \* ProfileCatalog, between calls; pending: an event of its watches is queued
    catalogFor, records, catalogSession, hasClean, dirty, pending,
    \* RunnerService; idleTimer: the timer is running
    sessionActive, idleTimer, activationToken,
    \* history
    issued,           \* tokens given so far
    offered,          \* the token the client gave in the call just before, if any
    listed,           \* profiles lookups have read since the settings were applied
    launched          \* the process started by the last step, if any

machineVars  == <<installed, content, changes>>
registryVars == <<instances, selectedId>>
catalogVars  == <<catalogFor, records, catalogSession, hasClean, dirty, pending>>
serviceVars  == <<sessionActive, idleTimer, activationToken>>
vars == <<machineVars, registryVars, catalogVars, serviceVars, issued, offered, listed, launched>>

-----------------------------------------------------------------------------
(* What the service works with.                                            *)

\* Everything the scan of the backends that did not fail can find.
Scans == SUBSET installed

\* Mutant of Rescanned: the selection stays when its instance is gone.
RescannedOnly == instances' \in Scans /\ UNCHANGED selectedId

\* rescanAndRepair answers a scan and a selection in it; empty if the scan is.
Rescanned ==
    /\ instances' \in Scans
    /\ IF instances' = {} THEN selectedId' = NoInstance ELSE selectedId' \in instances'

Selected == IF selectedId \in instances THEN selectedId ELSE NoInstance

OnDisk(i) == {r \in Record : r.id[1] = i /\ r.ver = content[r.id] /\ r.ver # 0}

\* ProfileCatalog::resolve, of a directory nobody moved (see ProfileCatalog).
Resolve(i, id) ==
    IF catalogFor = i /\ hasClean /\ ~dirty /\ content[id] # 0
    THEN {r \in records : r.id = id} ELSE {}

Actionable == {id \in Profiles : Selected # NoInstance /\ Resolve(Selected, id) # {}}

Init ==
    /\ installed \in SUBSET Instances
    /\ content \in [Profiles -> 0 .. 1] /\ changes = 0
    /\ instances \in Scans
    /\ IF instances = {} THEN selectedId = NoInstance ELSE selectedId \in instances
    /\ catalogFor = NoInstance /\ records = {} /\ catalogSession = FALSE
    /\ hasClean = FALSE /\ dirty = FALSE /\ pending = FALSE
    /\ sessionActive = FALSE /\ idleTimer = FALSE /\ activationToken = NoToken
    /\ issued = 0 /\ offered = {} /\ listed = {} /\ launched = NoLaunch

-----------------------------------------------------------------------------
(* The machine.                                                            *)

OneChange == changes < MaxChanges /\ changes' = changes + 1

\* Another program installs or removes a Remmina.
ChangeInstallation(i) ==
    /\ OneChange
    /\ installed' = (installed \ {i}) \cup ({i} \ installed)
    /\ launched' = NoLaunch
    /\ UNCHANGED <<content, registryVars, catalogVars, serviceVars, issued, offered, listed>>

\* Another program writes or removes a profile: watched while a snapshot is clean.
ChangeProfile(id) ==
    /\ OneChange
    /\ \E v \in {0, changes + 2} : v # content[id] /\ content' = [content EXCEPT ![id] = v]
    /\ pending' = (pending \/ (hasClean /\ catalogFor = id[1]))
    /\ launched' = NoLaunch
    /\ UNCHANGED <<installed, registryVars, catalogFor, records, catalogSession, hasClean,
                   dirty, serviceVars, issued, offered, listed>>

\* Mutant of Deliver: a change matters to a session only.
DeliverInSession ==
    /\ pending /\ pending' = FALSE /\ dirty' = (dirty \/ catalogSession)
    /\ launched' = NoLaunch
    /\ UNCHANGED <<machineVars, registryVars, catalogFor, records, catalogSession, hasClean,
                   serviceVars, issued, offered, listed>>

\* The event loop runs the watcher's callback: markDirty.
Deliver ==
    /\ pending /\ pending' = FALSE /\ dirty' = TRUE
    /\ launched' = NoLaunch
    /\ UNCHANGED <<machineVars, registryVars, catalogFor, records, catalogSession, hasClean,
                   serviceVars, issued, offered, listed>>

-----------------------------------------------------------------------------
(* The catalog's calls.                                                    *)

\* ProfileCatalog::records, all but its session flag.
CatalogRecords(i, how) ==
    /\ how = "reused" <=> catalogFor = i /\ hasClean /\ catalogSession /\ ~dirty
    /\ catalogFor' = i
    /\ hasClean' = (how \in {"reused", "clean"})
    /\ dirty' = (how \in {"unverified", "failed"})
    /\ pending' = (how = "reused" /\ pending)
    /\ CASE how = "reused" -> records' = records
         [] how = "failed" -> records' \in {records, {}, OnDisk(i)}
         [] OTHER          -> records' = OnDisk(i)
    /\ listed' = IF how = "failed" THEN listed ELSE listed \cup {r.id : r \in records'}

CatalogReset ==
    /\ catalogFor' = NoInstance /\ records' = {} /\ catalogSession' = FALSE
    /\ hasClean' = FALSE /\ dirty' = FALSE /\ pending' = FALSE
    /\ listed' = {}

\* endActiveSession, and the part of it that ends the catalog's session.
EndActiveSession ==
    /\ idleTimer' = FALSE /\ sessionActive' = FALSE
    /\ catalogSession' = (catalogSession /\ ~sessionActive)

-----------------------------------------------------------------------------
(* The D-Bus calls.                                                        *)

\* Mutant of MatchNothing: the empty query leaves the token for a later Run.
MatchKeepsToken ==
    /\ offered' = {} /\ launched' = NoLaunch
    /\ UNCHANGED <<machineVars, registryVars, catalogVars, sessionActive, idleTimer,
                   activationToken, issued, listed>>

\* Match of an ignored query, or of the creation command: only the token goes.
MatchNothing ==
    /\ activationToken' = NoToken /\ offered' = {} /\ launched' = NoLaunch
    /\ UNCHANGED <<machineVars, registryVars, catalogVars, sessionActive, idleTimer,
                   issued, listed>>

MatchNoInstance ==
    /\ Selected = NoInstance
    /\ activationToken' = NoToken /\ EndActiveSession
    /\ offered' = {} /\ launched' = NoLaunch
    /\ UNCHANGED <<machineVars, registryVars, catalogFor, records, hasClean, dirty,
                   pending, issued, listed>>

\* Mutant of Answered: the idle timer is armed by the first lookup only.
AnsweredLate ==
    /\ sessionActive' = TRUE /\ catalogSession' = TRUE /\ idleTimer' = sessionActive

\* A lookup that is answered keeps its session until the timer runs out.
Answered == sessionActive' = TRUE /\ catalogSession' = TRUE /\ idleTimer' = TRUE

\* Mutant of Unanswered: a failed lookup leaves the session to the timer.
UnansweredKeepsSession ==
    /\ sessionActive' = TRUE /\ catalogSession' = TRUE /\ UNCHANGED idleTimer

\* A lookup that fails, in the catalog or after it, ends the session.
Unanswered == sessionActive' = FALSE /\ catalogSession' = FALSE /\ idleTimer' = FALSE

MatchLookup ==
    /\ Selected # NoInstance
    /\ activationToken' = NoToken
    /\ \E how \in {"reused", "clean", "unverified", "failed"} :
        /\ CatalogRecords(Selected, how)
        /\ (how # "failed" /\ Answered) \/ Unanswered
    /\ offered' = {} /\ launched' = NoLaunch
    /\ UNCHANGED <<machineVars, registryVars, issued>>

SetActivationToken ==
    /\ issued < MaxTokens
    /\ issued' = issued + 1
    /\ activationToken' = issued + 1 /\ offered' = {issued + 1}
    /\ launched' = NoLaunch
    /\ UNCHANGED <<machineVars, registryVars, catalogVars, sessionActive, idleTimer, listed>>

\* launch: startDetached can succeed only when the instance's program is there.
Starts(i) == i \in installed \cup Wrapped

\* Mutant of Request: any instance the catalog lists profiles of will do.
RequestOfListed(id) ==
    {[instance |-> id[1], id |-> id, ver |-> r.ver, token |-> activationToken] :
         r \in {r \in records : id # NewConnection /\ r.id = id}}

\* What Run of an id asks the launcher to start (create, connect), if anything.
Request(id) ==
    IF Selected = NoInstance THEN {}
    ELSE {[instance |-> Selected, id |-> id, ver |-> v, token |-> activationToken] :
              v \in IF id = NewConnection THEN {0} ELSE {r.ver : r \in Resolve(Selected, id)}}

\* Run: the token is spent whatever happens; a launch that fails is notified.
Run(id) ==
    /\ launched' \in {NoLaunch} \cup {r \in Request(id) : Starts(r.instance)}
    /\ activationToken' = NoToken /\ offered' = {}
    /\ EndActiveSession
    /\ UNCHANGED <<machineVars, registryVars, catalogFor, records, hasClean, dirty,
                   pending, issued, listed>>

\* Run of an action, of an error row or of a malformed id: nothing to start.
RunNothing ==
    /\ activationToken' = NoToken /\ offered' = {} /\ launched' = NoLaunch
    /\ EndActiveSession
    /\ UNCHANGED <<machineVars, registryVars, catalogFor, records, hasClean, dirty,
                   pending, issued, listed>>

\* Mutant of Teardown: it resets the catalog instead of ending its session.
TeardownForgets ==
    /\ idleTimer' = FALSE /\ activationToken' = NoToken /\ sessionActive' = FALSE
    /\ CatalogReset
    /\ offered' = {} /\ launched' = NoLaunch
    /\ UNCHANGED <<machineVars, registryVars, issued>>

Teardown ==
    /\ idleTimer' = FALSE /\ activationToken' = NoToken /\ sessionActive' = FALSE
    /\ catalogSession' = FALSE
    /\ offered' = {} /\ launched' = NoLaunch
    /\ UNCHANGED <<machineVars, registryVars, catalogFor, records, hasClean, dirty,
                   pending, issued, listed>>

\* The 30 s timer of a client that never tore its session down.
Timeout ==
    /\ idleTimer
    /\ activationToken' = NoToken /\ EndActiveSession
    /\ launched' = NoLaunch
    /\ UNCHANGED <<machineVars, registryVars, catalogFor, records, hasClean, dirty,
                   pending, issued, offered, listed>>

\* Mutant of Config: what is listed of the old selection stays.
ConfigKeepsCatalog ==
    /\ idleTimer' = FALSE /\ activationToken' = NoToken /\ sessionActive' = FALSE
    /\ catalogSession' = FALSE
    /\ Rescanned
    /\ listed' = {} /\ offered' = {} /\ launched' = NoLaunch
    /\ UNCHANGED <<machineVars, catalogFor, records, hasClean, dirty, pending, issued>>

\* Config: the settings were applied.  A scan that throws keeps the last one.
Config ==
    /\ idleTimer' = FALSE /\ activationToken' = NoToken /\ sessionActive' = FALSE
    /\ Rescanned \/ UNCHANGED registryVars
    /\ CatalogReset
    /\ offered' = {} /\ launched' = NoLaunch
    /\ UNCHANGED <<machineVars, issued>>

\* The service ends (log-out, crash) and D-Bus activates another, which scans first.
Restart ==
    /\ Rescanned /\ CatalogReset
    /\ idleTimer' = FALSE /\ activationToken' = NoToken /\ sessionActive' = FALSE
    /\ offered' = {} /\ launched' = NoLaunch
    /\ UNCHANGED <<machineVars, issued>>

-----------------------------------------------------------------------------
Machine ==
    \/ \E i \in Instances : ChangeInstallation(i)
    \/ \E id \in Profiles : ChangeProfile(id)
    \/ Deliver

Match == MatchNothing \/ MatchNoInstance \/ MatchLookup

Service ==
    \/ Match \/ SetActivationToken \/ RunNothing \/ Teardown \/ Timeout \/ Config \/ Restart
    \/ \E id \in Profiles \cup {NewConnection} : Run(id)

Next == Machine \/ Service

\* A running timer fires.
Fairness == WF_vars(Timeout)

Spec == Init /\ [][Next]_vars
FairSpec == Spec /\ Fairness

-----------------------------------------------------------------------------
TypeOK ==
    /\ installed \subseteq Instances /\ content \in [Profiles -> Versions]
    /\ changes \in 0 .. MaxChanges
    /\ instances \subseteq Instances /\ selectedId \in instances \cup {NoInstance}
    /\ catalogFor \in Instances \cup {NoInstance} /\ records \subseteq Record
    /\ catalogSession \in BOOLEAN /\ hasClean \in BOOLEAN
    /\ dirty \in BOOLEAN /\ pending \in BOOLEAN
    /\ sessionActive \in BOOLEAN /\ idleTimer \in BOOLEAN
    /\ activationToken \in (1 .. MaxTokens) \cup {NoToken}
    /\ issued \in 0 .. MaxTokens /\ offered \subseteq 1 .. MaxTokens
    /\ listed \subseteq Profiles /\ launched \in Launch \cup {NoLaunch}

\* The service's session, the catalog's session and the idle timer live and die
\* together, so that no lookup of a later session is answered without reading the
\* profiles again, and no session outlives a client that went away.
SessionsAgree ==
    /\ sessionActive <=> catalogSession
    /\ sessionActive <=> idleTimer

\* A process gets the activation token its own caller gave just before, or none:
\* a token left by an abandoned activation is never passed to a later launch.
TokenIsTheCallers ==
    [][launched' # NoLaunch => launched'.token \in offered \cup {NoToken}]_vars

\* A connection that is opened belongs to the selected instance, and its profile
\* is there; if it changed since it was listed, the catalog was not yet told.
LaunchIsCurrent ==
    [][launched' # NoLaunch /\ launched'.id \in Profiles =>
         /\ launched'.id[1] = launched'.instance /\ launched'.instance = selectedId
         /\ content[launched'.id] # 0
         /\ launched'.ver = content[launched'.id] \/ pending]_vars

\* Nothing listed before the settings were applied can be opened after it.
LaunchesOnlyListed ==
    [][launched' # NoLaunch /\ launched'.id \in Profiles => launched'.id \in listed]_vars

\* A result can be run after KRunner has torn its session down, or the timer has
\* (Plasma tears down before it runs the result the user chose).
ActionableAfterTeardown == [][Teardown \/ Timeout => Actionable' = Actionable]_vars

\* A session whose client falls silent ends.
SilentClientIsReleased == ([]<><<MatchLookup>>_vars) \/ (sessionActive ~> ~sessionActive)

-----------------------------------------------------------------------------
(* The inductive invariant behind the safety properties, in named parts.   *)

\* The token the service holds is the one its caller gave just before.
TokenInv == activationToken \in offered \cup {NoToken}

\* A clean snapshot lists profiles of its own instance, all of them read since the
\* settings were applied; until an event is queued they are as on disk.
SnapshotInv ==
    hasClean =>
        \A r \in records :
            /\ r.id[1] = catalogFor /\ r.id \in listed
            /\ ~dirty /\ ~pending => r.ver = content[r.id]

IInv == TypeOK /\ SessionsAgree /\ TokenInv /\ SnapshotInv
=============================================================================
