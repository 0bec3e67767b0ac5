-------------------------- MODULE InstallTransaction --------------------------
(***************************************************************************)
(* The transaction of packaging/install.sh: stage the new files beside     *)
(* their destinations, set the installed ones aside, move the new ones in, *)
(* discard what was set aside; and the EXIT trap that undoes it.  Between  *)
(* any two commands a signal may come, any command may fail, the script    *)
(* may be killed, and another program may put a file at a destination      *)
(* (the lock keeps other installers out).                                  *)
(*                                                                         *)
(* A move is a rename within one directory: it happens or it does not.     *)
(***************************************************************************)
EXTENDS Naturals

CONSTANTS
    N,              \* the installed files, in the order of destination_paths
    MaxIntrusions   \* bound: files other programs put at the destinations

ASSUME InstallAssumption == N \in Nat \ {0} /\ MaxIntrusions \in Nat

Slots == 1 .. N

VARIABLES
    dest, stage, backup,   \* what each destination, staged and backup path holds
    original,              \* history: what each destination held at the start
    \* the script's variables, one element for each file
    staged,                \* staged_paths is set
    reserved,              \* backup_paths is set
    had,                   \* had_original
    setAside,              \* backup_intended
    replacing,             \* replacement_intended
    active,                \* transaction_active
    whole,                 \* rollback_ok; its negation is preserve_backups
    status,                \* how the script exits
    pc, at,                \* the next command, and the file it is about
    cut, killed,           \* history: the trap did not run to its end; and why
    committed,             \* history: all the new files were in place
    intrusions,            \* how many files other programs have put there
    late                   \* history: one came between a look at a file and its removal

fileVars  == <<dest, stage, backup>>
pathVars  == <<staged, reserved, had, setAside, replacing>>
phaseVars == <<active, whole, status>>
pastVars  == <<original, cut, killed, committed, intrusions, late>>
vars == <<fileVars, pathVars, phaseVars, pc, at, pastVars>>

Contents == {"none", "old", "reservation", "new", "other"}

Preparing    == {"stage", "fill", "stop"}
SettingAside == {"reserve", "clear", "intend", "setAside"}
Replacing    == {"replace", "moveIn", "forget"}
Cleanup      == {"rollback", "restore", "takeBack", "tidyStage", "tidyBackup"}
Main         == Preparing \cup SettingAside \cup Replacing \cup {"commit", "discard", "post"}

Init ==
    /\ dest \in [Slots -> {"none", "old"}] /\ original = dest
    /\ stage = [i \in Slots |-> "none"] /\ backup = [i \in Slots |-> "none"]
    /\ staged = [i \in Slots |-> FALSE] /\ reserved = [i \in Slots |-> FALSE]
    /\ had = [i \in Slots |-> FALSE] /\ setAside = [i \in Slots |-> FALSE]
    /\ replacing = [i \in Slots |-> FALSE]
    /\ active = FALSE /\ whole = TRUE /\ status = "ok"
    /\ pc = "stage" /\ at = 1
    /\ cut = FALSE /\ killed = FALSE /\ committed = FALSE /\ intrusions = 0 /\ late = FALSE

-----------------------------------------------------------------------------
(* The flow of the script.                                                 *)

Go(command, i) == pc' = command /\ at' = i

\* Mutant of Onward: it goes one file too far.
OnwardPast(same, next) == IF at <= N THEN Go(same, at + 1) ELSE Go(next, 1)

\* The next file, or the next part of the script.
Onward(same, next) == IF at < N THEN Go(same, at + 1) ELSE Go(next, 1)

\* The EXIT trap: cleanup, which rolls back while the transaction is active.
ExitTrap(how) ==
    /\ status' = how
    /\ IF active THEN Go("rollback", N) ELSE Go("tidyStage", 1)

-----------------------------------------------------------------------------
(* Staging, and stopping the runner that is installed.                     *)

\* mktemp
Stage ==
    /\ pc = "stage" /\ Onward("stage", "fill")
    /\ stage' = [stage EXCEPT ![at] = "reservation"] /\ staged' = [staged EXCEPT ![at] = TRUE]
    /\ UNCHANGED <<dest, backup, reserved, had, setAside, replacing, phaseVars, pastVars>>

\* install, and the rewritten metadata
Fill ==
    /\ pc = "fill" /\ Onward("fill", "stop")
    /\ stage' = [stage EXCEPT ![at] = "new"]
    /\ UNCHANGED <<dest, backup, pathVars, phaseVars, pastVars>>

\* stop_installed_runner, then transaction_active=1
Stop ==
    /\ pc = "stop" /\ Go("reserve", 1) /\ active' = TRUE
    /\ UNCHANGED <<fileVars, pathVars, whole, status, pastVars>>

-----------------------------------------------------------------------------
(* Setting the installed files aside.                                      *)

\* Reserve a backup name if there is something to set aside.
Reserve ==
    /\ pc = "reserve"
    /\ IF dest[at] = "none"
       THEN Onward("reserve", "replace") /\ UNCHANGED <<had, backup, reserved>>
       ELSE /\ Go("clear", at) /\ had' = [had EXCEPT ![at] = TRUE]
            /\ backup' = [backup EXCEPT ![at] = "reservation"]
            /\ reserved' = [reserved EXCEPT ![at] = TRUE]
    /\ UNCHANGED <<dest, stage, staged, setAside, replacing, phaseVars, pastVars>>

\* rm -f of the reservation, so that the backup path exists only as a backup
Clear ==
    /\ pc = "clear" /\ Go("intend", at)
    /\ backup' = [backup EXCEPT ![at] = "none"]
    /\ UNCHANGED <<dest, stage, pathVars, phaseVars, pastVars>>

Intend ==
    /\ pc = "intend" /\ Go("setAside", at)
    /\ setAside' = [setAside EXCEPT ![at] = TRUE]
    /\ UNCHANGED <<fileVars, staged, reserved, had, replacing, phaseVars, pastVars>>

SetAside ==
    /\ pc = "setAside" /\ Onward("reserve", "replace")
    /\ dest[at] # "none"
    /\ backup' = [backup EXCEPT ![at] = dest[at]] /\ dest' = [dest EXCEPT ![at] = "none"]
    /\ UNCHANGED <<stage, pathVars, phaseVars, pastVars>>

-----------------------------------------------------------------------------
(* Moving the new files in, and the end of the transaction.                *)

Replace ==
    /\ pc = "replace" /\ Go("moveIn", at)
    /\ replacing' = [replacing EXCEPT ![at] = TRUE]
    /\ UNCHANGED <<fileVars, staged, reserved, had, setAside, phaseVars, pastVars>>

MoveIn ==
    /\ pc = "moveIn" /\ Go("forget", at)
    /\ dest' = [dest EXCEPT ![at] = stage[at]] /\ stage' = [stage EXCEPT ![at] = "none"]
    /\ UNCHANGED <<backup, pathVars, phaseVars, pastVars>>

Forget ==
    /\ pc = "forget" /\ Onward("replace", "commit")
    /\ staged' = [staged EXCEPT ![at] = FALSE]
    /\ UNCHANGED <<fileVars, reserved, had, setAside, replacing, phaseVars, pastVars>>

\* Mutant of Commit: the transaction stays active while the backups go.
CommitLate ==
    /\ pc = "commit" /\ Go("discard", 1)
    /\ committed' = TRUE
    /\ UNCHANGED <<fileVars, pathVars, phaseVars, original, cut, killed, intrusions, late>>

\* transaction_active=0
Commit ==
    /\ pc = "commit" /\ Go("discard", 1)
    /\ active' = FALSE /\ committed' = TRUE
    /\ UNCHANGED <<fileVars, pathVars, whole, status, original, cut, killed, intrusions, late>>

\* Mutant of Discard: the names are forgotten before the backups are removed.
DiscardForgotten ==
    /\ pc = "discard" /\ Onward("discard", "post")
    /\ reserved' = [reserved EXCEPT ![at] = FALSE]
    /\ UNCHANGED <<fileVars, staged, had, setAside, replacing, phaseVars, pastVars>>

Discard ==
    /\ pc = "discard" /\ Onward("discard", "post")
    /\ backup' = [backup EXCEPT ![at] = IF reserved[at] THEN "none" ELSE @]
    /\ reserved' = [reserved EXCEPT ![at] = FALSE]
    /\ UNCHANGED <<dest, stage, staged, had, setAside, replacing, phaseVars, pastVars>>

\* --rescan and kbuildsycoca6; when one fails, the script says so and exits 70.
Post ==
    /\ pc = "post"
    /\ \E how \in {"ok", "notRefreshed"} : ExitTrap(how)
    /\ UNCHANGED <<fileVars, pathVars, active, whole, pastVars>>

-----------------------------------------------------------------------------
(* The EXIT trap.                                                          *)

\* rollback_transaction takes the files in reverse order; a step that fails is
\* remembered, and the backups are then kept and mentioned.
RolledBack(ok) ==
    /\ whole' = (whole /\ ok)
    /\ replacing' = [replacing EXCEPT ![at] = FALSE]
    /\ IF at > 1 THEN Go("rollback", at - 1) /\ UNCHANGED status
       ELSE Go("tidyStage", 1) /\ status' = IF whole' THEN status ELSE "restoreFailed"

\* The original was set aside: whatever is at its place goes first.
ClearWay ==
    /\ pc = "rollback" /\ setAside[at] /\ backup[at] # "none"
    /\ \/ dest' = [dest EXCEPT ![at] = "none"] /\ UNCHANGED whole
       \/ dest[at] # "none" /\ whole' = FALSE /\ UNCHANGED dest
    /\ Go("restore", at)
    /\ UNCHANGED <<stage, backup, pathVars, active, status, pastVars>>

Restore ==
    /\ pc = "restore"
    /\ \/ /\ dest[at] = "none"
          /\ dest' = [dest EXCEPT ![at] = backup[at]] /\ backup' = [backup EXCEPT ![at] = "none"]
          /\ reserved' = [reserved EXCEPT ![at] = FALSE]
          /\ setAside' = [setAside EXCEPT ![at] = FALSE]
          /\ RolledBack(TRUE)
       \/ UNCHANGED <<dest, backup, reserved, setAside>> /\ RolledBack(FALSE)
    /\ UNCHANGED <<stage, staged, had, active, pastVars>>

\* The original was about to be set aside, and is still there, or is not.
NotSetAside ==
    /\ pc = "rollback" /\ setAside[at] /\ backup[at] = "none"
    /\ IF dest[at] # "none"
       THEN /\ reserved' = [reserved EXCEPT ![at] = FALSE]
            /\ setAside' = [setAside EXCEPT ![at] = FALSE] /\ RolledBack(TRUE)
       ELSE UNCHANGED <<reserved, setAside>> /\ RolledBack(FALSE)
    /\ UNCHANGED <<fileVars, staged, had, active, pastVars>>

\* There was no original, and the new file is no longer staged.
MovedIn == ~had[at] /\ replacing[at] /\ ~(staged[at] /\ stage[at] # "none") /\ dest[at] # "none"

\* Mutant of Identify: the file is removed without a look at its identity.
IdentifyNothing ==
    /\ pc = "rollback" /\ ~setAside[at] /\ MovedIn /\ Go("takeBack", at)
    /\ UNCHANGED <<fileVars, pathVars, phaseVars, pastVars>>

\* Is it the one that was staged (device and inode)?
Identify ==
    /\ pc = "rollback" /\ ~setAside[at] /\ MovedIn
    /\ \/ dest[at] = "new" /\ Go("takeBack", at) /\ UNCHANGED <<replacing, whole, status>>
       \/ RolledBack(FALSE)
    /\ UNCHANGED <<fileVars, staged, reserved, had, setAside, active, pastVars>>

\* Then it is removed again.
TakeBack ==
    /\ pc = "takeBack"
    /\ \/ dest' = [dest EXCEPT ![at] = "none"] /\ RolledBack(TRUE)
       \/ UNCHANGED dest /\ RolledBack(FALSE)
    /\ UNCHANGED <<stage, backup, staged, reserved, had, setAside, active, pastVars>>

NothingToUndo ==
    /\ pc = "rollback" /\ ~setAside[at] /\ ~MovedIn /\ RolledBack(TRUE)
    /\ UNCHANGED <<fileVars, staged, reserved, had, setAside, active, pastVars>>

\* rm -f of what is still staged; it may fail, and the status says so.
TidyStage ==
    /\ pc = "tidyStage" /\ Go("tidyBackup", at)
    /\ \/ stage' = [stage EXCEPT ![at] = IF staged[at] THEN "none" ELSE @] /\ UNCHANGED status
       \/ staged[at] /\ stage[at] # "none" /\ status' = "leftovers" /\ UNCHANGED stage
    /\ UNCHANGED <<dest, backup, pathVars, active, whole, pastVars>>

\* Mutant of Expendable: the backups go, rolled back or not.
AnyBackup == reserved[at] /\ backup[at] # "none"

\* A backup that need not be kept.
Expendable == whole /\ reserved[at] /\ backup[at] # "none"

TidyBackup ==
    /\ pc = "tidyBackup" /\ Onward("tidyStage", "ended")
    /\ \/ backup' = [backup EXCEPT ![at] = IF Expendable THEN "none" ELSE @] /\ UNCHANGED status
       \/ Expendable /\ status' = "leftovers" /\ UNCHANGED backup
    /\ UNCHANGED <<dest, stage, pathVars, active, whole, pastVars>>

-----------------------------------------------------------------------------
(* What comes from outside.                                                *)

\* A command fails (set -e), or HUP, INT or TERM is trapped, which exits.
Interrupt ==
    /\ pc \in Main /\ ExitTrap("failed")
    /\ UNCHANGED <<fileVars, pathVars, active, whole, pastVars>>

\* A signal in cleanup: its trap exits, and the EXIT trap is no longer set.
InterruptCleanup ==
    /\ pc \in Cleanup /\ Go("ended", 1) /\ status' = "failed" /\ cut' = TRUE
    /\ UNCHANGED <<fileVars, pathVars, active, whole, original, killed, committed, intrusions, late>>

Kill ==
    /\ pc # "ended" /\ Go("ended", 1) /\ status' = "failed" /\ cut' = TRUE /\ killed' = TRUE
    /\ UNCHANGED <<fileVars, pathVars, active, whole, original, committed, intrusions, late>>

\* Another program puts a file at a destination that is free or was replaced.
Intrude(i) ==
    /\ intrusions < MaxIntrusions /\ intrusions' = intrusions + 1
    /\ dest[i] \in {"none", "new"} /\ dest' = [dest EXCEPT ![i] = "other"]
    /\ late' = (late \/ (pc = "takeBack" /\ i = at))
    /\ UNCHANGED <<stage, backup, pathVars, phaseVars, pc, at, original, cut, killed, committed>>

-----------------------------------------------------------------------------
Transaction ==
    \/ Stage \/ Fill \/ Stop \/ Reserve \/ Clear \/ Intend \/ SetAside
    \/ Replace \/ MoveIn \/ Forget \/ Commit \/ Discard \/ Post

Undo ==
    \/ ClearWay \/ Restore \/ NotSetAside \/ Identify \/ TakeBack \/ NothingToUndo
    \/ TidyStage \/ TidyBackup

Outside == Interrupt \/ InterruptCleanup \/ Kill \/ \E i \in Slots : Intrude(i)

Next == Transaction \/ Undo \/ Outside

Spec == Init /\ [][Next]_vars

-----------------------------------------------------------------------------
TypeOK ==
    /\ dest \in [Slots -> Contents] /\ stage \in [Slots -> Contents]
    /\ backup \in [Slots -> Contents] /\ original \in [Slots -> {"none", "old"}]
    /\ staged \in [Slots -> BOOLEAN] /\ reserved \in [Slots -> BOOLEAN]
    /\ had \in [Slots -> BOOLEAN] /\ setAside \in [Slots -> BOOLEAN]
    /\ replacing \in [Slots -> BOOLEAN]
    /\ active \in BOOLEAN /\ whole \in BOOLEAN
    /\ status \in {"ok", "notRefreshed", "failed", "restoreFailed", "leftovers"}
    /\ pc \in Main \cup Cleanup \cup {"ended"} /\ at \in Slots
    /\ cut \in BOOLEAN /\ killed \in BOOLEAN /\ committed \in BOOLEAN
    /\ intrusions \in 0 .. MaxIntrusions /\ late \in BOOLEAN

\* Whatever fails, and whenever the script is interrupted or killed, an installed
\* file that is not yet replaced for good is at its place or in its backup.
OriginalsSurvive ==
    ~committed => \A i \in Slots : original[i] = "old" => "old" \in {dest[i], backup[i]}

\* A script that came to its end (and that no other program meddled with) has
\* installed every file, or has everything as it was, or says that it has not;
\* it reports success only in the first case.
EndsWhole ==
    pc = "ended" /\ ~cut /\ intrusions = 0 =>
        IF committed THEN \A i \in Slots : dest[i] = "new"
        ELSE status \notin {"ok", "notRefreshed"} /\ (dest = original \/ ~whole)

\* It leaves nothing of its own behind, unless it says so.
NothingLeftOver ==
    pc = "ended" /\ ~cut /\ status \notin {"restoreFailed", "leftovers"} =>
        \A i \in Slots : stage[i] = "none" /\ backup[i] = "none"

\* Undoing a first installation removes no file that another program has put at
\* the place of one that was moved in, unless it came between the look at what is
\* there and its removal.
SparesOthers ==
    [][\A i \in Slots : pc \in Cleanup /\ ~had[i] /\ dest[i] = "other" /\ ~late
           => dest'[i] = "other"]_vars

-----------------------------------------------------------------------------
\* "performs an atomic user-local upgrade" (README.md:82).  Not when a second
\* signal comes while the first is being cleaned up after.
InstallIsAtomic ==
    pc = "ended" /\ ~killed /\ intrusions = 0 =>
        (\A i \in Slots : dest[i] = "new") \/ dest = original \/ ~whole
=============================================================================
