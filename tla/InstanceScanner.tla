--------------------------- MODULE InstanceScanner ---------------------------
(***************************************************************************)
(* InstanceScanner::scan (core/instance_scanner.cpp), which runs flatpak   *)
(* through ProcessProbe, on a machine where installations come and go      *)
(* while it looks.                                                         *)
(*                                                                         *)
(* The look through PATH takes no time here; the probe does, and the Snap  *)
(* launcher is looked at before and after it.                              *)
(***************************************************************************)
EXTENDS ProcessProbe, FiniteSets, SequencesExt

CONSTANTS
    PathEntries,   \* the entries of PATH, numbered in their order
    Programs,      \* canonical paths of executables called remmina
    SnapPrograms,  \* those that are the Snap launcher or lie under the Snap mount root
    Refs,          \* Flatpak installations of Remmina, numbered in the scanner's order
    Other,         \* a line of flatpak list that is not about Remmina
    MaxChanges,    \* bound: changes of the machine during one scan
    NoProgram

ASSUME ScannerAssumption ==
    /\ PathEntries \subseteq Nat /\ Refs \subseteq Nat /\ Other \notin Refs
    /\ SnapPrograms \subseteq Programs /\ NoProgram \notin Programs
    /\ IsFiniteSet(Refs) /\ MaxChanges \in Nat

VARIABLES
    \* the machine (outside src/)
    onPath,     \* the program an entry of PATH leads to
    flatpak,    \* is the flatpak command executable?
    installed,  \* the Flatpak installations of Remmina
    launcher,   \* the Snap launcher: "absent", "dangling", "plain" (no program), "program"
    changes,
    \* scan()
    at,             \* the place in it: "idle", "flatpak", "probe", "snap"
    launcherFound,  \* snapLauncherInfo could be resolved at the beginning
    result,
    \* history of the running scan: what has been there all the time, and at any time
    always, ever

machineVars == <<onPath, flatpak, installed, launcher, changes>>
scanVars    == <<at, launcherFound, result>>
vars        == <<probeVars, machineVars, scanVars, always, ever>>

NoResult == [kind |-> "none", native |-> {}, flatpak |-> <<>>, snap |-> FALSE, failed |-> {}]

\* What there is of each packaging now; without its command there is no Flatpak.
There ==
    [native  |-> {onPath[e] : e \in PathEntries} \ (SnapPrograms \cup {NoProgram}),
     flatpak |-> IF flatpak THEN installed ELSE {},
     snap    |-> {"snap"} \cap (IF launcher = "program" THEN {"snap"} ELSE {})]
Nothing == [native |-> {}, flatpak |-> {}, snap |-> {}]

Init ==
    /\ ProbeInit
    /\ onPath \in [PathEntries -> Programs \cup {NoProgram}] /\ flatpak \in BOOLEAN
    /\ installed \in SUBSET Refs /\ launcher \in {"absent", "dangling", "plain", "program"}
    /\ changes = 0
    /\ at = "idle" /\ launcherFound = FALSE /\ result = NoResult
    /\ always = Nothing /\ ever = Nothing

-----------------------------------------------------------------------------
(* The machine.                                                            *)

Changed ==
    /\ IF at = "idle" THEN UNCHANGED <<changes, always, ever>>
       ELSE /\ changes < MaxChanges /\ changes' = changes + 1
            /\ always' = [k \in DOMAIN always |-> always[k] \cap There'[k]]
            /\ ever' = [k \in DOMAIN ever |-> ever[k] \cup There'[k]]
    /\ UNCHANGED <<probeVars, scanVars>>

\* Something is installed on PATH, removed or replaced.
ChangePath(e, p) ==
    /\ onPath[e] # p /\ onPath' = [onPath EXCEPT ![e] = p]
    /\ UNCHANGED <<flatpak, installed, launcher>> /\ Changed

ChangeFlatpak ==
    /\ flatpak' = ~flatpak /\ UNCHANGED <<onPath, installed, launcher>> /\ Changed

ChangeInstalled(r) ==
    /\ installed' = (IF r \in installed THEN installed \ {r} ELSE installed \cup {r})
    /\ UNCHANGED <<onPath, flatpak, launcher>> /\ Changed

ChangeLauncher(l) ==
    /\ launcher # l /\ launcher' = l /\ UNCHANGED <<onPath, flatpak, installed>> /\ Changed

\* flatpak list as it may print what it finds: in any order, perhaps a line twice,
\* and lines about other applications.
Listings(S) ==
    {lines \in BoundedSeq(S \cup {Other}, Cardinality(S) + 1) : S \subseteq ToSet(lines)}

-----------------------------------------------------------------------------
(* scan()                                                                  *)

\* Mutant of Natives: what the Snap provides on PATH counts as native.
NativesOfSnap ==
    {e \in PathEntries : /\ onPath[e] # NoProgram
                         /\ \A d \in PathEntries : d < e => onPath[d] # onPath[e]}

\* The entries of PATH that make an instance: the first with each program, unless
\* the program belongs to the Snap.
Natives ==
    {e \in PathEntries : /\ onPath[e] \notin SnapPrograms \cup {NoProgram}
                         /\ \A d \in PathEntries : d < e => onPath[d] # onPath[e]}

ScanNative ==
    /\ at = "idle" /\ at' = "flatpak"
    /\ result' = [NoResult EXCEPT !.native = {<<e, onPath[e]>> : e \in Natives}]
    /\ launcherFound' = (launcher \in {"plain", "program"})
    /\ always' = There /\ ever' = There
    /\ UNCHANGED <<probeVars, machineVars>>

\* Without an executable flatpak there is nothing to ask.
SkipFlatpak ==
    /\ at = "flatpak" /\ ~flatpak /\ at' = "snap"
    /\ UNCHANGED <<probeVars, machineVars, launcherFound, result, always, ever>>

AskFlatpak ==
    /\ at = "flatpak" /\ flatpak /\ at' = "probe" /\ Start
    /\ UNCHANGED <<machineVars, launcherFound, result, always, ever>>

\* flatpak has started; it looks at the installations and begins to write.
FlatpakStarts ==
    /\ at = "probe" /\ flatpak
    /\ \E lines \in Listings(installed) : Started(lines)
    /\ UNCHANGED <<machineVars, scanVars, always, ever>>

\* Mutant of Parsed: every line is taken for an installation of Remmina.
ParsedAll(lines) == ToSet(lines)

\* parseFlatpakInstallations: each installation once, the others dropped ...
Parsed(lines) == ToSet(lines) \ {Other}

\* ... in the scanner's order.
Sorted(S) == CHOOSE s \in SetToSeqs(S) : \A i, j \in DOMAIN s : i < j => s[i] < s[j]

\* Mutant of Listed: a probe that failed is an empty list.
ListedAnyway == [result EXCEPT !.flatpak = Sorted(Parsed(output))]

\* The result with the answer of the probe: a failed one means that the backend failed.
Listed ==
    IF status = "Success" THEN [result EXCEPT !.flatpak = Sorted(Parsed(output))]
    ELSE [result EXCEPT !.failed = @ \cup {"flatpak"}]

TakeAnswer ==
    /\ at = "probe" /\ ProbeReturns
    /\ at' = "snap" /\ result' = Listed
    /\ UNCHANGED <<machineVars, launcherFound, always, ever>>

\* The Snap launcher: QFileInfo remembers whether it could be resolved at the beginning,
\* and looks only now whether it is a link, and executable.
ScanSnap ==
    /\ at = "snap" /\ at' = "idle" /\ changes' = 0
    /\ result' = [result EXCEPT
           !.kind = "scan",
           !.snap = launcherFound /\ launcher = "program",
           !.failed = @ \cup (IF ~launcherFound /\ launcher # "absent" THEN {"snap"} ELSE {})]
    /\ UNCHANGED <<probeVars, onPath, flatpak, installed, launcher, launcherFound, always, ever>>

-----------------------------------------------------------------------------
Machine ==
    \/ \E e \in PathEntries, p \in Programs \cup {NoProgram} : ChangePath(e, p)
    \/ ChangeFlatpak
    \/ \E r \in Refs : ChangeInstalled(r)
    \/ \E l \in {"absent", "dangling", "plain", "program"} : ChangeLauncher(l)

Flatpak == at = "probe" /\ ChildStep /\ UNCHANGED <<machineVars, scanVars, always, ever>>

\* What the process does by itself once a scan has begun.
ScanStep ==
    \/ SkipFlatpak \/ AskFlatpak \/ TakeAnswer \/ ScanSnap
    \/ at = "probe" /\ RunStep /\ UNCHANGED <<machineVars, scanVars, always, ever>>

Next == Machine \/ ScanNative \/ FlatpakStarts \/ Flatpak \/ ScanStep

\* A scan goes on and time passes. Nothing is assumed of what runs.
Spec == Init /\ [][Next]_vars /\ WF_vars(ScanStep)

-----------------------------------------------------------------------------
(* Properties                                                              *)

\* Every variable has its type, and no more output than the limit is ever kept.
TypeOK ==
    /\ child \in {"none", "running", "succeeded", "failed"}
    /\ \A lines \in {unwritten, pipe, fetched, output} : ToSet(lines) \subseteq Refs \cup {Other}
    /\ Len(output) <= Limit
    /\ qstate \in {"NotRunning", "Starting", "Running"} /\ killed \in BOOLEAN
    /\ pc \in {"idle", "start", "head", "wait", "final", "kill", "grace", "done"}
    /\ now \in 0 .. Timeout + Grace /\ until \in 0 .. Timeout + Grace
    /\ status \in {"none", "Success", "Failed", "TimedOut", "OutputTooLarge"}
    /\ deferred \in BOOLEAN
    /\ onPath \in [PathEntries -> Programs \cup {NoProgram}] /\ flatpak \in BOOLEAN
    /\ installed \subseteq Refs /\ changes \in 0 .. MaxChanges
    /\ at \in {"idle", "flatpak", "probe", "snap"} /\ launcherFound \in BOOLEAN
    /\ result.native \subseteq PathEntries \X Programs /\ ToSet(result.flatpak) \subseteq Refs
    /\ result.failed \subseteq {"flatpak", "snap"}

\* A scan reports every installation that was there all the time it took, or says that
\* its backend failed (instance_scanner.cpp:245): only then may a selection that was not
\* found be given up. This is what Selection assumes of a scan.
NothingIsMissed ==
    result.kind = "scan" =>
        /\ always.native \subseteq {n[2] : n \in result.native}
        /\ always.flatpak \subseteq ToSet(result.flatpak) \/ "flatpak" \in result.failed
        /\ always.snap = {} \/ result.snap \/ "snap" \in result.failed

\* It reports none that was not there at some moment of it, nor one packaging's
\* installation as another's (instance_scanner.cpp:221).
NothingIsInvented ==
    result.kind = "scan" =>
        /\ {n[2] : n \in result.native} \subseteq ever.native
        /\ ToSet(result.flatpak) \subseteq ever.flatpak
        /\ result.snap => ever.snap # {}

\* run() never returns while its program runs, unless it has killed it and handed the
\* process over to the event loop, which deletes it at its end (qt_process_probe.cpp:33).
NoProcessIsLost == pc \in {"idle", "done"} /\ child = "running" => killed /\ deferred

\* A scan comes to an end whatever the programs it runs do (qt_process_probe.cpp:88).
ScanEnds == at # "idle" ~> at = "idle"
=============================================================================
