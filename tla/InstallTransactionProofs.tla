----------------------- MODULE InstallTransactionProofs -----------------------
(***************************************************************************)
(* Proofs about InstallTransaction, for any number of files: its types,     *)
(* that no installed file is lost before the new ones are all in place, and *)
(* that a script that comes to its end leaves things as it says: all done,  *)
(* or all undone, and nothing of its own left over.                         *)
(*                                                                         *)
(* The script never looks for a file: what it knows of one is whether it    *)
(* has set backup_intended.  The invariant says what that tells it, and     *)
(* what each part of the script has done with the files before it.          *)
(***************************************************************************)
EXTENDS InstallTransaction, TLAPS

Originals == {i \in Slots : original[i] = "old"}

\* A file that is not said to be set aside is at its place.
Untouched == \A i \in Originals : ~setAside[i] => dest[i] = "old"

\* One that is said to be is in its backup, or still there with no backup at all.
Aside == \A i \in Originals :
    setAside[i] => \/ backup[i] = "old"
                   \/ dest[i] = "old" /\ backup[i] = "none"

\* The files are set aside one after the other, and all of them before the first
\* new one is moved in.
Progress ==
    /\ pc \in Preparing => \A i \in Originals : ~setAside[i]
    /\ pc \in SettingAside => \A i \in Originals :
           /\ i < at => setAside[i] /\ backup[i] = "old"
           /\ i > at => ~setAside[i]
    /\ pc \in {"reserve", "clear", "intend"} /\ at \in Originals => ~setAside[at]
    /\ pc \in {"intend", "setAside"} => backup[at] = "none"
    /\ pc = "setAside" => setAside[at]
    /\ pc \in Replacing => \A i \in Originals : setAside[i] /\ backup[i] = "old"

\* The rollback has put back all the files it has been through, if nothing failed.
PutBack ==
    /\ pc \in {"rollback", "restore", "takeBack"} /\ whole =>
           \A i \in Originals : i > at => dest[i] = "old"
    /\ pc = "takeBack" => at \notin Originals
    /\ pc \in {"tidyStage", "tidyBackup"} /\ whole => \A i \in Originals : dest[i] = "old"

\* Before the end of the transaction a script that changes files is active.
Guarded ==
    /\ pc \in Main => active \/ pc \in Preparing
    /\ pc \notin {"discard", "post"}

Recoverable == Untouched /\ Aside /\ Progress /\ PutBack /\ Guarded

InstallInvariant == TypeOK /\ (~committed => Recoverable)

\* What is staged and what is set aside has a name the script remembers, and what the
\* clean-up has passed is gone, or the script says so.
Complaint == status \in {"restoreFailed", "leftovers"}
Tidied(i) == stage[i] = "none" /\ backup[i] = "none"

Named ==
    /\ \A i \in Slots : stage[i] # "none" => staged[i]
    /\ \A i \in Slots : backup[i] # "none" => reserved[i]
    /\ pc = "stage" => \A i \in Slots : i < at => staged[i]
    /\ pc = "fill" => \A i \in Slots : staged[i]
    /\ pc \in {"clear", "intend", "setAside"} => reserved[at] /\ had[at]
    /\ pc = "forget" => stage[at] = "none"
    /\ \A i \in Slots : setAside[i] => had[i]
    /\ pc = "restore" => had[at]
    /\ pc = "takeBack" /\ ~late => dest[at] = "new"

TidyInv ==
    /\ pc \in Main => whole
    /\ pc \in {"tidyStage", "tidyBackup"} /\ ~whole => Complaint
    /\ pc \in {"tidyStage", "tidyBackup"} /\ ~Complaint => \A i \in Slots : i < at => Tidied(i)
    /\ pc = "tidyBackup" /\ ~Complaint => stage[at] = "none"
    /\ pc = "ended" /\ ~cut /\ ~Complaint => \A i \in Slots : Tidied(i)

\* Where the new files are, as long as no other program meddles.
NewFiles ==
    /\ pc \in Preparing => dest = original
    /\ pc = "fill" => \A i \in Slots : i < at => stage[i] = "new"
    /\ pc \in {"stop"} \cup SettingAside => \A i \in Slots : stage[i] = "new"
    /\ pc \in Replacing => \A i \in Slots :
           /\ i > at => stage[i] = "new"
           /\ i < at => dest[i] = "new"
    /\ pc \in {"replace", "moveIn"} => stage[at] = "new"
    /\ pc = "moveIn" => replacing[at]
    /\ pc = "forget" => dest[at] = "new"
    /\ pc = "commit" => \A i \in Slots : dest[i] = "new"

\* A place that was free before is free, or has a new file that the rollback can tell.
Undoable ==
    /\ \A i \in Slots \ Originals :
           /\ ~had[i] /\ dest[i] \in {"none", "new"}
           /\ dest[i] = "new" /\ whole => replacing[i] /\ stage[i] = "none"
    /\ pc \in {"rollback", "restore", "takeBack"} /\ whole =>
           \A i \in Slots \ Originals : i > at => dest[i] = "none"
    /\ pc \in {"tidyStage", "tidyBackup"} /\ whole => \A i \in Slots \ Originals : dest[i] = "none"
    /\ pc = "ended" /\ ~cut /\ whole => dest = original

\* How the script says that it failed.
Reported == pc \in Cleanup \cup {"ended"} => status \notin {"ok", "notRefreshed"}

\* After the commit the new files stay, and nothing is rolled back.
Installed ==
    /\ ~active /\ pc \in {"discard", "post", "tidyStage", "tidyBackup", "ended"}
    /\ intrusions = 0 => \A i \in Slots : dest[i] = "new"

EndInvariant ==
    /\ InstallInvariant /\ Named /\ TidyInv
    /\ ~committed => Reported
    /\ ~committed /\ intrusions = 0 => NewFiles /\ Undoable
    /\ committed => Installed

-----------------------------------------------------------------------------
USE InstallAssumption DEF fileVars, pathVars, phaseVars, pastVars

\* Where the script goes on, and with which file.
LEMMA OnwardType ==
    ASSUME at \in Slots, NEW same, NEW next, Onward(same, next)
    PROVE  /\ pc' \in {same, next} /\ at' \in Slots
           /\ (pc' = same /\ at' = at + 1) \/ (pc' = next /\ at' = 1 /\ at = N)
  BY DEF Slots, Onward, Go

LEMMA ExitTrapType ==
    ASSUME TypeOK, NEW how \in {"ok", "notRefreshed", "failed"}, ExitTrap(how)
    PROVE  /\ pc' \in Cleanup /\ at' \in Slots /\ status' \in {"ok", "notRefreshed", "failed"}
           /\ (active /\ pc' = "rollback" /\ at' = N) \/ (~active /\ pc' = "tidyStage")
  BY DEF TypeOK, ExitTrap, Go, Slots, Cleanup

\* A step of the rollback that went well changes nothing in what is remembered of it.
LEMMA RolledBackType ==
    ASSUME TypeOK, NEW ok \in BOOLEAN, RolledBack(ok)
    PROVE  /\ whole' \in BOOLEAN /\ (whole' => whole /\ ok)
           /\ replacing' \in [Slots -> BOOLEAN]
           /\ status' \in {status, "restoreFailed"}
           /\ at' \in Slots
           /\ (pc' = "rollback" /\ at' = at - 1) \/ (pc' = "tidyStage" /\ at = 1)
  <1>1. whole' = (whole /\ ok)
    BY DEF RolledBack
  <1>2. whole' \in BOOLEAN /\ (whole' => whole /\ ok)
    BY <1>1
  <1>3. replacing' \in [Slots -> BOOLEAN]
    BY DEF TypeOK, RolledBack
  <1>4. /\ status' \in {status, "restoreFailed"}
        /\ at' \in Slots
        /\ (pc' = "rollback" /\ at' = at - 1) \/ (pc' = "tidyStage" /\ at = 1)
    BY DEF TypeOK, RolledBack, Go, Slots
  <1> QED BY <1>2, <1>3, <1>4

LEMMA TransactionType == ASSUME TypeOK, Transaction PROVE TypeOK'
  <1>1. CASE Stage
    BY <1>1, OnwardType DEF TypeOK, Stage, Go, Contents, Main, Preparing, SettingAside,
       Replacing, Cleanup
  <1>2. CASE Fill
    BY <1>2, OnwardType DEF TypeOK, Fill, Go, Contents, Main, Preparing, SettingAside,
       Replacing, Cleanup
  <1>3. CASE Stop
    BY <1>3, OnwardType DEF TypeOK, Stop, Go, Slots, Contents, Main, Preparing, SettingAside,
       Replacing, Cleanup
  <1>4. CASE Reserve
    BY <1>4, OnwardType DEF TypeOK, Reserve, Go, Contents, Main, Preparing, SettingAside,
       Replacing, Cleanup
  <1>5. CASE Clear
    BY <1>5, OnwardType DEF TypeOK, Clear, Go, Contents, Main, Preparing, SettingAside,
       Replacing, Cleanup
  <1>6. CASE Intend
    BY <1>6, OnwardType DEF TypeOK, Intend, Go, Contents, Main, Preparing, SettingAside,
       Replacing, Cleanup
  <1>7. CASE SetAside
    BY <1>7, OnwardType DEF TypeOK, SetAside, Go, Contents, Main, Preparing, SettingAside,
       Replacing, Cleanup
  <1>8. CASE Replace
    BY <1>8, OnwardType DEF TypeOK, Replace, Go, Contents, Main, Preparing, SettingAside,
       Replacing, Cleanup
  <1>9. CASE MoveIn
    BY <1>9, OnwardType DEF TypeOK, MoveIn, Go, Contents, Main, Preparing, SettingAside,
       Replacing, Cleanup
  <1>10. CASE Forget
    BY <1>10, OnwardType DEF TypeOK, Forget, Go, Contents, Main, Preparing, SettingAside,
       Replacing, Cleanup
  <1>11. CASE Commit
    <2>1. active' \in BOOLEAN /\ committed' \in BOOLEAN
      BY <1>11 DEF Commit
    <2>2. pc' \in Main /\ at' \in Slots
      BY <1>11 DEF Commit, Go, Main, Slots
    <2> QED BY <1>11, <2>1, <2>2 DEF TypeOK, Commit
  <1>12. CASE Discard
    BY <1>12, OnwardType DEF TypeOK, Discard, Go, Contents, Main, Preparing, SettingAside,
       Replacing, Cleanup
  <1>13. CASE Post
    <2>1. pc' \in Cleanup /\ at' \in Slots /\ status' \in {"ok", "notRefreshed", "failed"}
      BY <1>13, ExitTrapType DEF Post
    <2> QED BY <1>13, <2>1 DEF TypeOK, Post
  <1> QED BY <1>1, <1>2, <1>3, <1>4, <1>5, <1>6, <1>7, <1>8, <1>9, <1>10, <1>11, <1>12, <1>13 DEF Transaction

LEMMA UndoType == ASSUME TypeOK, Undo PROVE TypeOK'
  <1>1. CASE ClearWay
    BY <1>1, OnwardType DEF TypeOK, ClearWay, Go, Contents, Cleanup
  <1>2. CASE Restore
    BY <1>2, RolledBackType DEF TypeOK, Restore, Go, Contents, Cleanup
  <1>3. CASE NotSetAside
    <2>1. (dest[at] # "none" /\ RolledBack(TRUE)) \/ RolledBack(FALSE)
      BY <1>3 DEF NotSetAside
    <2>2. /\ whole' \in BOOLEAN /\ replacing' \in [Slots -> BOOLEAN] /\ at' \in Slots
          /\ status' \in {status, "restoreFailed"} /\ pc' \in {"rollback", "tidyStage"}
      BY <2>1, RolledBackType
    <2>3. setAside' \in [Slots -> BOOLEAN] /\ reserved' \in [Slots -> BOOLEAN]
      BY <1>3 DEF TypeOK, NotSetAside
    <2> QED BY <1>3, <2>2, <2>3 DEF TypeOK, NotSetAside, Cleanup
  <1>4. CASE Identify
    BY <1>4, RolledBackType DEF TypeOK, Identify, Go, Contents, Cleanup
  <1>5. CASE TakeBack
    BY <1>5, RolledBackType DEF TypeOK, TakeBack, Go, Contents, Cleanup
  <1>6. CASE NothingToUndo
    BY <1>6, RolledBackType DEF TypeOK, NothingToUndo, Go, Contents, Cleanup
  <1>7. CASE TidyStage
    BY <1>7, OnwardType DEF TypeOK, TidyStage, Go, Contents, Cleanup
  <1>8. CASE TidyBackup
    BY <1>8, OnwardType DEF TypeOK, TidyBackup, Go, Contents, Cleanup
  <1> QED BY <1>1, <1>2, <1>3, <1>4, <1>5, <1>6, <1>7, <1>8 DEF Undo

LEMMA OutsideType == ASSUME TypeOK, Outside PROVE TypeOK'
  <1>1. CASE Interrupt
    BY <1>1, ExitTrapType DEF TypeOK, Interrupt
  <1>2. CASE InterruptCleanup
    BY <1>2 DEF TypeOK, InterruptCleanup, Go, Slots
  <1>3. CASE Kill
    BY <1>3 DEF TypeOK, Kill, Go, Slots
  <1>4. ASSUME NEW i \in Slots, Intrude(i) PROVE TypeOK'
    <2>1. late' \in BOOLEAN
      BY <1>4 DEF Intrude
    <2>2. intrusions' \in 0 .. MaxIntrusions
      BY <1>4 DEF Intrude, TypeOK
    <2>3. dest' \in [Slots -> Contents]
      BY <1>4 DEF Intrude, TypeOK, Contents
    <2> QED BY <1>4, <2>1, <2>2, <2>3 DEF TypeOK, Intrude
  <1> QED BY <1>1, <1>2, <1>3, <1>4 DEF Outside

-----------------------------------------------------------------------------
(* The actions keep the invariant.  A step that is not the commit starts and *)
(* ends before it.                                                          *)

LEMMA PreparingRecoverable ==
    ASSUME TypeOK, Recoverable, Stage \/ Fill \/ Stop
    PROVE  Recoverable'
  <1>1. /\ pc' \in Preparing \/ (pc' = "reserve" /\ at' = 1 /\ active')
        /\ \A i \in Originals : ~setAside[i]
        /\ UNCHANGED <<dest, backup, setAside, original>>
    <2>1. CASE Stage
      BY <2>1, OnwardType DEF Stage, Preparing, Recoverable, Progress, TypeOK
    <2>2. CASE Fill
      BY <2>2, OnwardType DEF Fill, Preparing, Recoverable, Progress, TypeOK
    <2>3. CASE Stop
      BY <2>3 DEF Stop, Go, Preparing, Recoverable, Progress, TypeOK
    <2> QED BY <2>1, <2>2, <2>3
  <1>2. Untouched' /\ Aside'
    BY <1>1 DEF Recoverable, Untouched, Aside, Originals
  <1>3. Progress'
    BY <1>1 DEF Progress, Preparing, SettingAside, Replacing, Originals, Slots
  <1>4. PutBack' /\ Guarded'
    BY <1>1 DEF PutBack, Guarded, Preparing
  <1> QED BY <1>2, <1>3, <1>4 DEF Recoverable

LEMMA ReserveRecoverable ==
    ASSUME TypeOK, Recoverable, Reserve
    PROVE  Recoverable'
  <1>1. at \in Originals => ~setAside[at] /\ dest[at] = "old"
    BY DEF Reserve, Recoverable, Progress, Untouched
  <1>2. UNCHANGED <<dest, setAside, original, active>> /\ active
    BY DEF Reserve, Recoverable, Guarded, Main, SettingAside, Preparing
  <1>3. \A i \in Slots : backup'[i] = backup[i] \/ (i = at /\ dest[at] # "none")
    BY DEF Reserve, TypeOK
  <1>4. \A i \in Originals : (i < at => setAside[i] /\ backup'[i] = "old") /\ (i > at => ~setAside[i])
    BY <1>3 DEF Reserve, Recoverable, Progress, SettingAside, Originals, TypeOK, Slots
  <1>5. \/ /\ dest[at] = "none" /\ at \notin Originals
           /\ (pc' = "reserve" /\ at' = at + 1) \/ (pc' = "replace" /\ at' = 1 /\ at = N)
        \/ pc' = "clear" /\ at' = at
    BY <1>1, OnwardType DEF Reserve, Go, TypeOK
  <1>6. Untouched'
    BY <1>2 DEF Recoverable, Untouched, Originals
  <1>7. Aside'
    BY <1>1, <1>2, <1>3 DEF Recoverable, Aside, Originals
  <1>8. Progress'
    <2>1. CASE pc' = "clear" /\ at' = at
      BY <2>1, <1>1, <1>2, <1>4 DEF Progress, Preparing, SettingAside, Replacing, Originals
    <2>2. CASE pc' = "reserve" /\ at' = at + 1 /\ at \notin Originals
      <3>1. \A i \in Originals : /\ i < at + 1 => setAside[i] /\ backup'[i] = "old"
                                 /\ i > at => ~setAside[i]
        BY <1>4, <2>2 DEF Originals, TypeOK, Slots
      <3>2. at + 1 > at
        BY DEF TypeOK, Slots
      <3> QED BY <2>2, <3>1, <3>2, <1>2 DEF Progress, Preparing, SettingAside, Replacing, Originals, TypeOK, Slots
    <2>3. CASE pc' = "replace" /\ at = N /\ at \notin Originals
      <3>1. \A i \in Originals : setAside[i] /\ backup'[i] = "old"
        BY <1>4, <2>3 DEF Originals, Slots
      <3> QED BY <2>3, <3>1, <1>2 DEF Progress, Preparing, SettingAside, Replacing, Originals
    <2> QED BY <1>5, <2>1, <2>2, <2>3
  <1>9. PutBack' /\ Guarded'
    BY <1>2, <1>5 DEF PutBack, Guarded, Main, SettingAside, Replacing
  <1> QED BY <1>6, <1>7, <1>8, <1>9 DEF Recoverable

LEMMA ClearRecoverable ==
    ASSUME TypeOK, Recoverable, Clear \/ Intend
    PROVE  Recoverable'
  <1>1. at \in Originals => ~setAside[at] /\ dest[at] = "old"
    BY DEF Clear, Intend, Recoverable, Progress, Untouched
  <1>2. /\ UNCHANGED <<dest, original, active, at>> /\ active
        /\ pc' \in {"intend", "setAside"} /\ backup'[at] = "none"
        /\ pc' = "intend" => UNCHANGED setAside
        /\ pc' = "setAside" => setAside'[at]
        /\ \A i \in Slots \ {at} : backup'[i] = backup[i] /\ setAside'[i] = setAside[i]
    <2>1. CASE Clear
      BY <2>1 DEF Clear, Go, Recoverable, Guarded, Main, SettingAside, Preparing, TypeOK
    <2>2. CASE Intend
      BY <2>2 DEF Intend, Go, Recoverable, Progress, Guarded, Main, SettingAside, Preparing,
         TypeOK
    <2> QED BY <2>1, <2>2
  <1>3. Untouched'
    BY <1>1, <1>2 DEF Recoverable, Untouched, Originals
  <1>4. Aside'
    BY <1>1, <1>2 DEF Recoverable, Aside, Originals
  <1>5. Progress'
    <2>1. \A i \in Originals : (i < at => setAside'[i] /\ backup'[i] = "old") /\ (i > at => ~setAside'[i])
      BY <1>2 DEF Clear, Intend, Recoverable, Progress, SettingAside, Originals, TypeOK, Slots
    <2> QED BY <2>1, <1>1, <1>2 DEF Progress, Preparing, SettingAside, Replacing, Originals
  <1>6. PutBack' /\ Guarded'
    BY <1>2 DEF PutBack, Guarded, Main, SettingAside
  <1> QED BY <1>3, <1>4, <1>5, <1>6 DEF Recoverable

LEMMA SetAsideRecoverable ==
    ASSUME TypeOK, Recoverable, SetAside
    PROVE  Recoverable'
  <1>1. at \in Originals => dest[at] = "old"
    BY DEF SetAside, Recoverable, Progress, Aside, Untouched
  <1>2. /\ UNCHANGED <<setAside, original, active>> /\ active
        /\ \A i \in Slots \ {at} : backup'[i] = backup[i] /\ dest'[i] = dest[i]
        /\ backup'[at] = dest[at]
        /\ (pc' = "reserve" /\ at' = at + 1) \/ (pc' = "replace" /\ at' = 1 /\ at = N)
    BY OnwardType DEF SetAside, Recoverable, Guarded, Main, SettingAside, Preparing, TypeOK
  <1>3. \A i \in Originals : (i <= at => setAside[i] /\ backup'[i] = "old") /\ (i > at => ~setAside[i])
    <2>1. setAside[at]
      BY DEF SetAside, Recoverable, Progress
    <2>2. \A i \in Originals : (i < at => setAside[i] /\ backup[i] = "old") /\ (i > at => ~setAside[i])
      BY DEF SetAside, Recoverable, Progress, SettingAside
    <2> QED BY <1>1, <1>2, <2>1, <2>2 DEF Originals, TypeOK, Slots
  <1>4. Untouched'
    BY <1>2, <1>3 DEF Recoverable, Untouched, Originals, TypeOK, Slots
  <1>5. Aside'
    BY <1>1, <1>2 DEF Recoverable, Aside, Originals
  <1>6. Progress'
    <2>1. CASE pc' = "reserve" /\ at' = at + 1
      BY <2>1, <1>2, <1>3 DEF Progress, Preparing, SettingAside, Replacing, Originals, TypeOK,
         Slots
    <2>2. CASE pc' = "replace" /\ at = N
      BY <2>2, <1>2, <1>3 DEF Progress, Preparing, SettingAside, Replacing, Originals, Slots
    <2> QED BY <1>2, <2>1, <2>2
  <1>7. PutBack' /\ Guarded'
    BY <1>2 DEF PutBack, Guarded, Main, SettingAside, Replacing
  <1> QED BY <1>4, <1>5, <1>6, <1>7 DEF Recoverable

LEMMA ReplacingRecoverable ==
    ASSUME TypeOK, Recoverable, Replace \/ MoveIn \/ Forget
    PROVE  Recoverable'
  <1>1. \A i \in Originals : setAside[i] /\ backup[i] = "old"
    BY DEF Replace, MoveIn, Forget, Recoverable, Progress, Replacing
  <1>2. active
    BY DEF Replace, MoveIn, Forget, Recoverable, Guarded, Main, Replacing, Preparing
  <1>3. UNCHANGED <<setAside, backup, original, active>> /\ pc' \in Replacing \cup {"commit"}
    BY OnwardType DEF Replace, MoveIn, Forget, Go, Replacing, TypeOK
  <1>4. Untouched' /\ Aside'
    BY <1>1, <1>3 DEF Untouched, Aside, Originals
  <1>5. Progress'
    BY <1>1, <1>3 DEF Progress, Preparing, SettingAside, Replacing, Originals
  <1>6. PutBack' /\ Guarded'
    BY <1>2, <1>3 DEF PutBack, Guarded, Replacing
  <1> QED BY <1>4, <1>5, <1>6 DEF Recoverable

\* A step of the rollback that goes on to the next file.  If it went well, the
\* file it was about is back.
LEMMA RolledBackRecoverable ==
    ASSUME TypeOK, Recoverable, pc \in {"rollback", "restore", "takeBack"},
           NEW ok \in BOOLEAN, RolledBack(ok), UNCHANGED <<original, active>>,
           ok /\ at \in Originals => dest'[at] = "old",
           \A i \in Slots \ {at} : dest'[i] = dest[i],
           Untouched', Aside'
    PROVE  Recoverable'
  <1>1. whole' \in BOOLEAN /\ (whole' => whole /\ ok)
    BY RolledBackType
  <1>2. (pc' = "rollback" /\ at' = at - 1) \/ (pc' = "tidyStage" /\ at = 1)
    BY RolledBackType
  <1>3. whole' => \A i \in Originals : i >= at => dest'[i] = "old"
    <2>1. whole => \A i \in Originals : i > at => dest[i] = "old"
      BY DEF Recoverable, PutBack
    <2> QED BY <1>1, <2>1 DEF Originals, TypeOK, Slots
  <1>4. PutBack'
    <2>1. CASE pc' = "rollback" /\ at' = at - 1
      BY <2>1, <1>3 DEF PutBack, Originals, TypeOK, Slots
    <2>2. CASE pc' = "tidyStage" /\ at = 1
      BY <2>2, <1>3 DEF PutBack, Originals, TypeOK, Slots
    <2> QED BY <1>2, <2>1, <2>2
  <1>5. Progress' /\ Guarded'
    BY <1>2 DEF Progress, Guarded, Main, Preparing, SettingAside, Replacing
  <1> QED BY <1>4, <1>5 DEF Recoverable

LEMMA RestoreRecoverable ==
    ASSUME TypeOK, Recoverable, ClearWay \/ Restore
    PROVE  Recoverable'
  <1>1. CASE ClearWay
    <2>1. at \in Originals => backup[at] = "old"
      BY <1>1 DEF ClearWay, Recoverable, Aside
    <2>2. /\ UNCHANGED <<backup, setAside, original, active, at>> /\ pc' = "restore"
          /\ \A i \in Slots \ {at} : dest'[i] = dest[i]
      BY <1>1 DEF ClearWay, Go, TypeOK
    <2>3. setAside[at]
      BY <1>1 DEF ClearWay
    <2>4. Untouched' /\ Aside'
      BY <2>1, <2>2, <2>3 DEF Recoverable, Untouched, Aside, Originals
    <2>5. PutBack'
      <3>1. whole => \A i \in Originals : i > at => dest[i] = "old"
        BY <1>1 DEF ClearWay, Recoverable, PutBack
      <3>2. whole' => whole
        BY <1>1 DEF ClearWay
      <3> QED BY <2>2, <3>1, <3>2 DEF PutBack, Originals, TypeOK, Slots
    <2>6. Progress' /\ Guarded'
      BY <2>2 DEF Progress, Guarded, Main, Preparing, SettingAside, Replacing
    <2> QED BY <2>4, <2>5, <2>6 DEF Recoverable
  <1>2. CASE Restore
    <2>1. CASE dest[at] = "none" /\ RolledBack(TRUE) /\ dest' = [dest EXCEPT ![at] = backup[at]]
               /\ backup' = [backup EXCEPT ![at] = "none"]
               /\ setAside' = [setAside EXCEPT ![at] = FALSE]
      <3>1. at \in Originals => backup[at] = "old"
        BY <2>1 DEF Recoverable, Untouched, Aside
      <3>2. /\ dest'[at] = backup[at] /\ ~setAside'[at] /\ UNCHANGED <<original, active>>
            /\ \A i \in Slots \ {at} : /\ dest'[i] = dest[i] /\ backup'[i] = backup[i]
                                       /\ setAside'[i] = setAside[i]
        BY <1>2, <2>1 DEF Restore, TypeOK
      <3>3. Untouched' /\ Aside'
        BY <3>1, <3>2 DEF Recoverable, Untouched, Aside, Originals
      <3> QED BY <1>2, <2>1, <3>1, <3>2, <3>3, RolledBackRecoverable DEF Restore
    <2>2. CASE UNCHANGED <<dest, backup, setAside>> /\ RolledBack(FALSE)
      <3>1. UNCHANGED <<original, active>>
        BY <1>2 DEF Restore
      <3>2. Untouched' /\ Aside'
        BY <2>2, <3>1 DEF Recoverable, Untouched, Aside, Originals
      <3> QED BY <1>2, <2>2, <3>1, <3>2, RolledBackRecoverable DEF Restore
    <2> QED BY <1>2, <2>1, <2>2 DEF Restore
  <1> QED BY <1>1, <1>2

LEMMA NotSetAsideRecoverable ==
    ASSUME TypeOK, Recoverable, NotSetAside
    PROVE  Recoverable'
  <1>1. UNCHANGED <<dest, backup, original, active>>
    BY DEF NotSetAside
  <1>2. CASE dest[at] # "none" /\ setAside' = [setAside EXCEPT ![at] = FALSE] /\ RolledBack(TRUE)
    <2>1. at \in Originals => dest[at] = "old"
      BY DEF NotSetAside, Recoverable, Aside
    <2>2. ~setAside'[at] /\ \A i \in Slots \ {at} : setAside'[i] = setAside[i]
      BY <1>2 DEF TypeOK
    <2>3. Untouched' /\ Aside'
      BY <1>1, <2>1, <2>2 DEF Recoverable, Untouched, Aside, Originals
    <2> QED BY <1>1, <1>2, <2>1, <2>3, RolledBackRecoverable DEF NotSetAside
  <1>3. CASE UNCHANGED setAside /\ RolledBack(FALSE)
    <2>1. Untouched' /\ Aside'
      BY <1>1, <1>3 DEF Recoverable, Untouched, Aside, Originals
    <2> QED BY <1>1, <1>3, <2>1, RolledBackRecoverable DEF NotSetAside
  <1> QED BY <1>2, <1>3 DEF NotSetAside

LEMMA TakeBackRecoverable ==
    ASSUME TypeOK, Recoverable, Identify \/ TakeBack \/ NothingToUndo
    PROVE  Recoverable'
  <1>1. UNCHANGED <<backup, setAside, original, active>>
    BY DEF Identify, TakeBack, NothingToUndo
  <1>2. CASE NothingToUndo
    <2>1. at \in Originals => dest[at] = "old"
      BY <1>2 DEF NothingToUndo, Recoverable, Untouched
    <2>2. UNCHANGED dest
      BY <1>2 DEF NothingToUndo
    <2>3. Untouched' /\ Aside'
      BY <1>1, <2>2 DEF Recoverable, Untouched, Aside, Originals
    <2> QED BY <1>1, <1>2, <2>1, <2>2, <2>3, RolledBackRecoverable DEF NothingToUndo
  <1>3. CASE Identify
    <2>1. UNCHANGED dest
      BY <1>3 DEF Identify
    <2>2. Untouched' /\ Aside'
      BY <1>1, <2>1 DEF Recoverable, Untouched, Aside, Originals
    <2>3. CASE RolledBack(FALSE)
      BY <1>1, <1>3, <2>1, <2>2, <2>3, RolledBackRecoverable DEF Identify
    <2>4. CASE dest[at] = "new" /\ Go("takeBack", at) /\ UNCHANGED whole
      <3>1. at \notin Originals
        BY <1>3, <2>4 DEF Identify, Recoverable, Untouched
      <3>2. PutBack'
        BY <1>1, <1>3, <2>1, <2>4, <3>1 DEF Identify, Go, Recoverable, PutBack, Originals
      <3>3. Progress' /\ Guarded'
        BY <2>4 DEF Go, Progress, Guarded, Main, Preparing, SettingAside, Replacing
      <3> QED BY <2>2, <3>2, <3>3 DEF Recoverable
    <2> QED BY <1>3, <2>3, <2>4 DEF Identify
  <1>4. CASE TakeBack
    <2>1. at \notin Originals
      BY <1>4 DEF TakeBack, Recoverable, PutBack
    <2>2. \A i \in Slots \ {at} : dest'[i] = dest[i]
      BY <1>4 DEF TakeBack, TypeOK
    <2>3. Untouched' /\ Aside'
      BY <1>1, <2>1, <2>2 DEF Recoverable, Untouched, Aside, Originals
    <2>4. PICK ok \in BOOLEAN : RolledBack(ok)
      BY <1>4 DEF TakeBack
    <2> QED BY <1>1, <1>4, <2>1, <2>2, <2>3, <2>4, RolledBackRecoverable DEF TakeBack
  <1> QED BY <1>2, <1>3, <1>4

LEMMA TidyRecoverable ==
    ASSUME TypeOK, Recoverable, TidyStage \/ TidyBackup
    PROVE  Recoverable'
  <1>1. UNCHANGED <<dest, setAside, whole, original, active>>
    BY DEF TidyStage, TidyBackup
  <1>2. whole => \A i \in Originals : dest[i] = "old"
    BY DEF TidyStage, TidyBackup, Recoverable, PutBack
  <1>3. \A i \in Slots : backup'[i] = backup[i] \/ (whole /\ backup'[i] = "none")
    BY DEF TidyStage, TidyBackup, Expendable, TypeOK
  <1>4. pc' \in {"tidyStage", "tidyBackup", "ended"}
    BY OnwardType DEF TidyStage, TidyBackup, Go, TypeOK
  <1>5. Untouched' /\ Aside'
    BY <1>1, <1>2, <1>3 DEF Recoverable, Untouched, Aside, Originals
  <1>6. PutBack'
    BY <1>1, <1>2, <1>4 DEF PutBack, Originals
  <1>7. Progress' /\ Guarded'
    BY <1>4 DEF Progress, Guarded, Main, Preparing, SettingAside, Replacing
  <1> QED BY <1>5, <1>6, <1>7 DEF Recoverable

LEMMA OutsideRecoverable ==
    ASSUME TypeOK, Recoverable, Outside
    PROVE  Recoverable'
  <1>1. CASE Interrupt
    <2>1. UNCHANGED <<dest, backup, setAside, whole, original, active>>
      BY <1>1 DEF Interrupt
    <2>2. (active /\ pc' = "rollback" /\ at' = N) \/ (~active /\ pc' = "tidyStage")
      BY <1>1, ExitTrapType DEF Interrupt
    <2>3. ~active => \A i \in Originals : dest[i] = "old"
      BY <1>1 DEF Interrupt, Recoverable, Guarded, Progress, Untouched
    <2>4. Untouched' /\ Aside'
      BY <2>1 DEF Recoverable, Untouched, Aside, Originals
    <2>5. PutBack'
      BY <2>1, <2>2, <2>3 DEF PutBack, Originals, Slots
    <2>6. Progress' /\ Guarded'
      BY <2>2 DEF Progress, Guarded, Main, Preparing, SettingAside, Replacing
    <2> QED BY <2>4, <2>5, <2>6 DEF Recoverable
  <1>2. CASE InterruptCleanup \/ Kill
    <2>1. UNCHANGED <<dest, backup, setAside, original>> /\ pc' = "ended"
      BY <1>2 DEF InterruptCleanup, Kill, Go
    <2>2. Untouched' /\ Aside'
      BY <2>1 DEF Recoverable, Untouched, Aside, Originals
    <2>3. Progress' /\ PutBack' /\ Guarded'
      BY <2>1 DEF Progress, PutBack, Guarded, Main, Preparing, SettingAside, Replacing
    <2> QED BY <2>2, <2>3 DEF Recoverable
  <1>3. ASSUME NEW i \in Slots, Intrude(i) PROVE Recoverable'
    <2>1. UNCHANGED <<backup, setAside, whole, original, active, pc, at>>
      BY <1>3 DEF Intrude
    <2>2. \A j \in Slots : dest[j] = "old" => dest'[j] = "old"
      BY <1>3 DEF Intrude, TypeOK
    <2>3. Untouched' /\ Aside'
      BY <2>1, <2>2 DEF Recoverable, Untouched, Aside, Originals
    <2>4. Progress' /\ Guarded'
      BY <2>1 DEF Recoverable, Progress, Guarded, Originals
    <2>5. PutBack'
      BY <2>1, <2>2 DEF Recoverable, PutBack, Originals
    <2> QED BY <2>3, <2>4, <2>5 DEF Recoverable
  <1> QED BY <1>1, <1>2, <1>3 DEF Outside

-----------------------------------------------------------------------------
LEMMA InstallInvariantInit == ASSUME Init PROVE InstallInvariant
  <1>1. TypeOK
    <2>1. /\ dest \in [Slots -> Contents] /\ stage \in [Slots -> Contents]
          /\ backup \in [Slots -> Contents] /\ original \in [Slots -> {"none", "old"}]
      BY DEF Init, Contents
    <2>2. /\ staged \in [Slots -> BOOLEAN] /\ reserved \in [Slots -> BOOLEAN]
          /\ had \in [Slots -> BOOLEAN] /\ setAside \in [Slots -> BOOLEAN]
          /\ replacing \in [Slots -> BOOLEAN]
      BY DEF Init
    <2>3. /\ active \in BOOLEAN /\ whole \in BOOLEAN /\ cut \in BOOLEAN
          /\ killed \in BOOLEAN /\ committed \in BOOLEAN /\ late \in BOOLEAN
      BY DEF Init
    <2> QED BY <2>1, <2>2, <2>3 DEF Init, TypeOK, Main, Preparing, Slots
  <1>2. Recoverable
    BY DEF Init, Recoverable, Untouched, Aside, Progress, PutBack, Guarded,
           Originals, Main, Preparing, SettingAside, Replacing
  <1> QED BY <1>1, <1>2 DEF InstallInvariant

\* Every variable keeps its type, and until all the new files are in place the
\* script can tell where each installed file is.
THEOREM InstallIsRecoverable == Spec => []InstallInvariant
  <1>1. InstallInvariant /\ [Next]_vars => InstallInvariant'
    <2> SUFFICES ASSUME InstallInvariant, [Next]_vars PROVE InstallInvariant'
      OBVIOUS
    <2>1. CASE UNCHANGED vars
      <3>1. TypeOK'
        BY <2>1 DEF vars, InstallInvariant, TypeOK
      <3>2. ASSUME Recoverable PROVE Untouched' /\ Aside'
        BY <2>1, <3>2 DEF vars, Recoverable, Untouched, Aside, Originals
      <3>3. ASSUME Recoverable PROVE Progress' /\ PutBack' /\ Guarded'
        BY <2>1, <3>3 DEF vars, Recoverable, Progress, PutBack, Guarded, Originals
      <3>4. committed' = committed
        BY <2>1 DEF vars
      <3> QED BY <3>1, <3>2, <3>3, <3>4 DEF InstallInvariant, Recoverable
    <2>2. CASE Next
      <3>1. TypeOK'
        BY <2>2, TransactionType, UndoType, OutsideType DEF Next, InstallInvariant
      <3>2. ASSUME ~committed' PROVE Recoverable'
        <4>1. ~committed /\ ~Commit
          <5>1. ~Commit
            BY <3>2 DEF Commit
          <5>2. CASE Transaction
            BY <3>2, <5>1, <5>2 DEF Transaction, Stage, Fill, Stop, Reserve, Clear, Intend,
                  SetAside, Replace, MoveIn, Forget, Discard, Post
          <5>3. CASE Undo
            <6>1. committed' = committed
              <7>1. CASE ClearWay
                BY <7>1 DEF ClearWay
              <7>2. CASE Restore
                BY <7>2 DEF Restore
              <7>3. CASE NotSetAside
                BY <7>3 DEF NotSetAside
              <7>4. CASE Identify
                BY <7>4 DEF Identify
              <7>5. CASE TakeBack
                BY <7>5 DEF TakeBack
              <7>6. CASE NothingToUndo
                BY <7>6 DEF NothingToUndo
              <7>7. CASE TidyStage
                BY <7>7 DEF TidyStage
              <7>8. CASE TidyBackup
                BY <7>8 DEF TidyBackup
              <7> QED BY <5>3, <7>1, <7>2, <7>3, <7>4, <7>5, <7>6, <7>7, <7>8 DEF Undo
            <6> QED BY <3>2, <5>1, <6>1
          <5>4. CASE Outside
            <6>1. CASE Interrupt \/ InterruptCleanup \/ Kill
              BY <3>2, <5>1, <6>1 DEF Interrupt, InterruptCleanup, Kill
            <6>2. ASSUME NEW i \in Slots, Intrude(i) PROVE ~committed /\ ~Commit
              <7>1. UNCHANGED committed
                BY <6>2 DEF Intrude
              <7> QED BY <3>2, <5>1, <7>1
            <6> QED BY <5>4, <6>1, <6>2 DEF Outside
          <5> QED BY <2>2, <5>1, <5>2, <5>3, <5>4 DEF Next
        <4>2. TypeOK /\ Recoverable
          BY <4>1 DEF InstallInvariant
        <4>3. ~Discard /\ ~Post
          BY <4>2 DEF Recoverable, Guarded, Discard, Post
        <4>4. CASE Transaction
          BY <4>1, <4>2, <4>3, <4>4, PreparingRecoverable, ReserveRecoverable, ClearRecoverable,
             SetAsideRecoverable, ReplacingRecoverable DEF Transaction
        <4>5. CASE Undo
          BY <4>2, <4>5, RestoreRecoverable, NotSetAsideRecoverable, TakeBackRecoverable,
             TidyRecoverable DEF Undo
        <4> QED BY <2>2, <4>2, <4>4, <4>5, OutsideRecoverable DEF Next
      <3> QED BY <3>1, <3>2 DEF InstallInvariant
    <2> QED BY <2>1, <2>2
  <1> QED BY <1>1, InstallInvariantInit, PTL DEF Spec

\* No failing command, signal or kill loses an installed file before the new ones
\* are all in place.
THEOREM InstallLosesNothing == Spec => []OriginalsSurvive
  <1>1. InstallInvariant => OriginalsSurvive
    BY DEF InstallInvariant, Recoverable, Untouched, Aside, OriginalsSurvive, Originals
  <1> QED BY <1>1, InstallIsRecoverable, PTL

\* Every variable keeps its type.
THEOREM InstallTypeOK == Spec => []TypeOK
  <1>1. InstallInvariant => TypeOK
    BY DEF InstallInvariant
  <1> QED BY <1>1, InstallIsRecoverable, PTL

-----------------------------------------------------------------------------
(* What is staged or set aside has a name, and the script ends as it says.  *)

LEMMA TransactionNamed ==
    ASSUME TypeOK, Named, Transaction
    PROVE  Named'
  <1>1. CASE Stage
    BY <1>1, OnwardType DEF Stage, Named, TypeOK, Slots
  <1>2. CASE Fill
    BY <1>2, OnwardType DEF Fill, Named, TypeOK, Slots
  <1>3. CASE Stop
    BY <1>3 DEF Stop, Go, Named, TypeOK, Slots
  <1>4. CASE Reserve
    <2>1. CASE dest[at] = "none"
      BY <1>4, <2>1, OnwardType DEF Reserve, Named, TypeOK, Slots
    <2>2. CASE dest[at] # "none"
      <3>1. /\ pc' = "clear" /\ at' = at /\ UNCHANGED <<stage, staged, setAside>>
            /\ reserved'[at] /\ had'[at]
        BY <1>4, <2>2 DEF Reserve, Go, TypeOK
      <3>2. \A i \in Slots : (reserved[i] => reserved'[i]) /\ (had[i] => had'[i])
        BY <1>4, <2>2 DEF Reserve, TypeOK
      <3>3. \A i \in Slots : i = at \/ backup'[i] = backup[i]
        BY <1>4, <2>2 DEF Reserve, TypeOK
      <3> QED BY <3>1, <3>2, <3>3 DEF Named
    <2> QED BY <2>1, <2>2
  <1>5. CASE Clear
    BY <1>5 DEF Clear, Go, Named, TypeOK, Slots
  <1>6. CASE Intend
    BY <1>6 DEF Intend, Go, Named, TypeOK, Slots
  <1>7. CASE SetAside
    <2>1. pc' \in {"reserve", "replace"}
      BY <1>7, OnwardType DEF SetAside, TypeOK
    <2>2. reserved[at] /\ \A i \in Slots \ {at} : backup'[i] = backup[i]
      BY <1>7 DEF SetAside, Named, TypeOK
    <2>3. \A i \in Slots : backup'[i] # "none" => reserved[i]
      BY <2>2 DEF Named
    <2> QED BY <1>7, <2>1, <2>3 DEF SetAside, Named
  <1>8. CASE Replace
    BY <1>8 DEF Replace, Go, Named, TypeOK, Slots
  <1>9. CASE MoveIn
    BY <1>9 DEF MoveIn, Go, Named, TypeOK, Slots
  <1>10. CASE Forget
    BY <1>10, OnwardType DEF Forget, Named, TypeOK, Slots
  <1>11. CASE Commit
    BY <1>11 DEF Commit, Go, Named, TypeOK, Slots
  <1>12. CASE Discard
    BY <1>12, OnwardType DEF Discard, Named, TypeOK, Slots
  <1>13. CASE Post
    BY <1>13, ExitTrapType DEF Post, Named, TypeOK, Slots
  <1> QED BY <1>1, <1>2, <1>3, <1>4, <1>5, <1>6, <1>7, <1>8, <1>9, <1>10, <1>11, <1>12, <1>13 DEF Transaction

LEMMA UndoNamed ==
    ASSUME TypeOK, Named, Undo
    PROVE  Named'
  <1>1. CASE ClearWay
    BY <1>1 DEF ClearWay, Go, Named, TypeOK, Slots
  <1>2. CASE Restore
    <2>1. pc' \in {"rollback", "tidyStage"}
      BY <1>2, RolledBackType DEF Restore
    <2>2. \A i \in Slots : (setAside'[i] => setAside[i]) /\ (backup'[i] # "none" => reserved'[i])
      <3>1. CASE UNCHANGED <<backup, reserved, setAside>>
        BY <3>1 DEF Named
      <3>2. CASE /\ backup' = [backup EXCEPT ![at] = "none"]
                 /\ reserved' = [reserved EXCEPT ![at] = FALSE]
                 /\ setAside' = [setAside EXCEPT ![at] = FALSE]
        BY <3>2 DEF Named, TypeOK
      <3> QED BY <1>2, <3>1, <3>2 DEF Restore
    <2> QED BY <1>2, <2>1, <2>2 DEF Restore, Named
  <1>3. CASE NotSetAside
    BY <1>3, RolledBackType DEF NotSetAside, Named, TypeOK, Slots
  <1>4. CASE Identify
    BY <1>4, RolledBackType DEF Identify, Go, Named, TypeOK, Slots
  <1>5. CASE TakeBack
    BY <1>5, RolledBackType DEF TakeBack, Named, TypeOK, Slots
  <1>6. CASE NothingToUndo
    BY <1>6, RolledBackType DEF NothingToUndo, Named, TypeOK, Slots
  <1>7. CASE TidyStage
    BY <1>7 DEF TidyStage, Go, Named, TypeOK, Slots
  <1>8. CASE TidyBackup
    BY <1>8, OnwardType DEF TidyBackup, Named, TypeOK, Slots
  <1> QED BY <1>1, <1>2, <1>3, <1>4, <1>5, <1>6, <1>7, <1>8 DEF Undo

LEMMA OutsideNamed ==
    ASSUME TypeOK, Named, Outside
    PROVE  Named'
  <1>1. CASE Interrupt
    BY <1>1, ExitTrapType DEF Interrupt, Named
  <1>2. CASE InterruptCleanup \/ Kill
    BY <1>2 DEF InterruptCleanup, Kill, Go, Named
  <1>3. ASSUME NEW i \in Slots, Intrude(i) PROVE Named'
    BY <1>3 DEF Intrude, Named, TypeOK, Slots
  <1> QED BY <1>1, <1>2, <1>3 DEF Outside

LEMMA TransactionTidy ==
    ASSUME TypeOK, Named, TidyInv, Transaction
    PROVE  TidyInv'
  <1>1. whole' /\ pc' \in Main \cup {"rollback", "tidyStage"} /\ (pc' = "tidyStage" => at' = 1)
    <2>1. CASE Stage \/ Fill
      BY <2>1, OnwardType DEF Stage, Fill, TidyInv, Main, Preparing, TypeOK
    <2>2. CASE Stop \/ Clear \/ Intend \/ Replace \/ MoveIn
      BY <2>2 DEF Stop, Clear, Intend, Replace, MoveIn, Go, TidyInv, Main, Preparing,
                  SettingAside, Replacing
    <2>3. CASE Reserve \/ SetAside
      BY <2>3, OnwardType DEF Reserve, SetAside, Go, TidyInv, Main, SettingAside, Replacing, TypeOK
    <2>4. CASE Forget \/ Discard
      BY <2>4, OnwardType DEF Forget, Discard, TidyInv, Main, Replacing, TypeOK
    <2>5. CASE Commit
      BY <2>5 DEF Commit, Go, TidyInv, Main
    <2>6. CASE Post
      BY <2>6 DEF Post, ExitTrap, Go, TidyInv, Main
    <2> QED BY <2>1, <2>2, <2>3, <2>4, <2>5, <2>6 DEF Transaction
  <1> QED BY <1>1 DEF TidyInv, Main, Preparing, SettingAside, Replacing, Slots

LEMMA UndoTidy ==
    ASSUME TypeOK, Named, TidyInv, Undo
    PROVE  TidyInv'
  <1>1. ASSUME NEW ok \in BOOLEAN, RolledBack(ok) PROVE TidyInv'
    <2>1. (pc' = "rollback" \/ (pc' = "tidyStage" /\ at' = 1))
      BY <1>1 DEF RolledBack, Go
    <2>2. pc' = "tidyStage" /\ ~whole' => status' = "restoreFailed"
      BY <1>1, RolledBackType DEF RolledBack, Go
    <2> QED BY <2>1, <2>2 DEF TidyInv, Complaint, Main, Preparing, SettingAside, Replacing, Slots
  <1>2. CASE ClearWay
    BY <1>2 DEF ClearWay, Go, TidyInv, Main, Preparing, SettingAside, Replacing
  <1>3. CASE Restore
    BY <1>1, <1>3 DEF Restore
  <1>4. CASE NotSetAside
    BY <1>1, <1>4 DEF NotSetAside
  <1>5. CASE Identify
    <2>1. CASE Go("takeBack", at)
      BY <2>1 DEF Go, TidyInv, Main, Preparing, SettingAside, Replacing
    <2> QED BY <1>1, <1>5, <2>1 DEF Identify
  <1>6. CASE TakeBack
    BY <1>1, <1>6 DEF TakeBack
  <1>7. CASE NothingToUndo
    BY <1>1, <1>7 DEF NothingToUndo
  <1>8. CASE TidyStage
    <2>1. pc' = "tidyBackup" /\ at' = at /\ UNCHANGED <<whole, backup>>
      BY <1>8 DEF TidyStage, Go
    <2>2. (Complaint => Complaint') /\ (~Complaint' => stage'[at] = "none")
      BY <1>8 DEF TidyStage, Complaint, Named, TypeOK
    <2>3. \A i \in Slots : stage[i] = "none" => stage'[i] = "none"
      BY <1>8 DEF TidyStage, TypeOK
    <2> QED BY <1>8, <2>1, <2>2, <2>3 DEF TidyStage, TidyInv, Tidied, Main, Preparing, SettingAside, Replacing
  <1>9. CASE TidyBackup
    <2>1. UNCHANGED <<whole, stage>> /\ pc = "tidyBackup"
      BY <1>9 DEF TidyBackup
    <2>2. (Complaint => Complaint') /\ (~Complaint' => backup'[at] = "none")
      BY <1>9 DEF TidyBackup, TidyInv, Expendable, Complaint, Named, TypeOK
    <2>3. \A i \in Slots : backup[i] = "none" => backup'[i] = "none"
      BY <1>9 DEF TidyBackup, TypeOK
    <2>4. ~Complaint' => \A i \in Slots : i <= at => Tidied(i)'
      BY <2>1, <2>2, <2>3 DEF TidyInv, Tidied, TypeOK, Slots
    <2>5. (pc' = "tidyStage" /\ at' = at + 1) \/ (pc' = "ended" /\ at = N)
      BY <1>9, OnwardType DEF TidyBackup, TypeOK
    <2>6. CASE pc' = "tidyStage" /\ at' = at + 1
      BY <2>1, <2>2, <2>4, <2>6 DEF TidyInv, TypeOK, Slots, Main, Preparing, SettingAside, Replacing
    <2>7. CASE pc' = "ended" /\ at = N
      BY <2>1, <2>2, <2>4, <2>7 DEF TidyInv, TypeOK, Slots, Main, Preparing, SettingAside, Replacing
    <2> QED BY <2>5, <2>6, <2>7
  <1> QED BY <1>2, <1>3, <1>4, <1>5, <1>6, <1>7, <1>8, <1>9 DEF Undo

LEMMA OutsideTidy ==
    ASSUME TypeOK, Named, TidyInv, Outside
    PROVE  TidyInv'
  <1>1. CASE Interrupt
    BY <1>1 DEF Interrupt, ExitTrap, Go, TidyInv, Main, Preparing, SettingAside, Replacing, Slots
  <1>2. CASE InterruptCleanup \/ Kill
    BY <1>2 DEF InterruptCleanup, Kill, Go, TidyInv, Main, Preparing, SettingAside, Replacing
  <1>3. ASSUME NEW i \in Slots, Intrude(i) PROVE TidyInv'
    BY <1>3 DEF Intrude, TidyInv, Tidied, Complaint
  <1> QED BY <1>1, <1>2, <1>3 DEF Outside

-----------------------------------------------------------------------------
(* Before the commit: where the new files are, and what of them can be      *)
(* taken back.                                                              *)

\* Only another program's file counts as an intrusion, and only the commit commits.
LEMMA HistoryGrows ==
    ASSUME TypeOK, Next
    PROVE  /\ intrusions' = 0 => intrusions = 0 /\ \A i \in Slots : ~Intrude(i)
           /\ ~committed' => ~committed /\ ~Commit
           /\ committed' => committed \/ Commit
  <1>1. CASE Transaction
    <2>1. intrusions' = intrusions /\ (Commit => committed') /\ (~Commit => committed' = committed)
      <3>1. CASE Commit
        BY <3>1 DEF Commit
      <3>2. CASE ~Commit
        <4>1. CASE Stage \/ Fill \/ Stop \/ Reserve \/ Clear \/ Intend
          BY <3>2, <4>1 DEF Stage, Fill, Stop, Reserve, Clear, Intend
        <4>2. CASE SetAside \/ Replace \/ MoveIn \/ Forget
          BY <3>2, <4>2 DEF SetAside, Replace, MoveIn, Forget
        <4>3. CASE Discard \/ Post
          BY <3>2, <4>3 DEF Discard, Post
        <4> QED BY <1>1, <3>2, <4>1, <4>2, <4>3 DEF Transaction
      <3> QED BY <3>1, <3>2
    <2>2. \A i \in Slots : Intrude(i) => intrusions' # intrusions
      BY DEF Intrude, TypeOK
    <2> QED BY <2>1, <2>2
  <1>2. CASE Undo
    <2>1. intrusions' = intrusions /\ committed' = committed /\ pc \in Cleanup
      <3>1. CASE ClearWay \/ Restore \/ NotSetAside
        BY <3>1 DEF ClearWay, Restore, NotSetAside, Cleanup
      <3>2. CASE Identify \/ TakeBack \/ NothingToUndo
        BY <3>2 DEF Identify, TakeBack, NothingToUndo, Cleanup
      <3>3. CASE TidyStage \/ TidyBackup
        BY <3>3 DEF TidyStage, TidyBackup, Cleanup
      <3> QED BY <1>2, <3>1, <3>2, <3>3 DEF Undo
    <2>2. \A i \in Slots : Intrude(i) => intrusions' # intrusions
      BY DEF Intrude, TypeOK
    <2>3. ~Commit
      BY <2>1 DEF Commit, Cleanup
    <2> QED BY <2>1, <2>2, <2>3
  <1>3. CASE Interrupt \/ InterruptCleanup \/ Kill
    <2>1. intrusions' = intrusions /\ committed' = committed /\ pc' # "discard"
      BY <1>3 DEF Interrupt, InterruptCleanup, Kill, ExitTrap, Go
    <2>2. \A i \in Slots : Intrude(i) => intrusions' # intrusions
      BY DEF Intrude, TypeOK
    <2>3. ~Commit
      BY <2>1 DEF Commit, Go
    <2> QED BY <2>1, <2>2, <2>3
  <1>4. ASSUME NEW i \in Slots, Intrude(i) PROVE intrusions' > 0 /\ committed' = committed /\ ~Commit
    BY <1>4 DEF Intrude, TypeOK, Commit, Go
  <1> QED BY <1>1, <1>2, <1>3, <1>4 DEF Next, Outside

LEMMA StepReported ==
    ASSUME TypeOK, Recoverable, Reported, Next, ~committed'
    PROVE  Reported'
  <1>1. CASE Transaction
    <2>1. pc' \in Main
      <3>1. CASE Stage \/ Fill \/ Stop
        BY <3>1, OnwardType DEF Stage, Fill, Stop, Go, Main, Preparing, SettingAside, TypeOK
      <3>2. CASE Reserve \/ Clear \/ Intend \/ SetAside
        BY <3>2, OnwardType DEF Reserve, Clear, Intend, SetAside, Go, Main, SettingAside,
           Replacing, TypeOK
      <3>3. CASE Replace \/ MoveIn \/ Forget
        BY <3>3, OnwardType DEF Replace, MoveIn, Forget, Go, Main, Replacing, TypeOK
      <3>4. ~Commit /\ ~Discard /\ ~Post
        BY DEF Commit, Discard, Post, Recoverable, Guarded
      <3> QED BY <1>1, <3>1, <3>2, <3>3, <3>4 DEF Transaction
    <2> QED BY <2>1 DEF Reported, Main, Preparing, SettingAside, Replacing, Cleanup
  <1>2. CASE Undo
    <2>1. pc \in Cleanup /\ status' \in {status, "restoreFailed", "leftovers"}
      <3>1. CASE ClearWay
        BY <3>1 DEF ClearWay, Cleanup
      <3>2. CASE Restore
        BY <3>2, RolledBackType DEF Restore, Cleanup
      <3>3. CASE NotSetAside
        BY <3>3, RolledBackType DEF NotSetAside, Cleanup
      <3>4. CASE Identify
        BY <3>4, RolledBackType DEF Identify, Cleanup
      <3>5. CASE TakeBack
        BY <3>5, RolledBackType DEF TakeBack, Cleanup
      <3>6. CASE NothingToUndo
        BY <3>6, RolledBackType DEF NothingToUndo, Cleanup
      <3>7. CASE TidyStage
        BY <3>7 DEF TidyStage, Cleanup
      <3>8. CASE TidyBackup
        BY <3>8 DEF TidyBackup, Cleanup
      <3> QED BY <1>2, <3>1, <3>2, <3>3, <3>4, <3>5, <3>6, <3>7, <3>8 DEF Undo
    <2> QED BY <2>1 DEF Reported
  <1>3. CASE Interrupt \/ InterruptCleanup \/ Kill
    BY <1>3 DEF Interrupt, InterruptCleanup, Kill, ExitTrap, Go, Reported
  <1>4. ASSUME NEW i \in Slots, Intrude(i) PROVE Reported'
    BY <1>4 DEF Intrude, Reported
  <1> QED BY <1>1, <1>2, <1>3, <1>4 DEF Next, Outside

LEMMA TransactionNewFiles ==
    ASSUME TypeOK, Recoverable, Named, TidyInv, NewFiles, Undoable, Transaction, ~Commit
    PROVE  NewFiles' /\ Undoable'
  <1>. USE DEF Recoverable
  <1>1. CASE Stage
    <2>1. pc' \in {"stage", "fill"} /\ (pc' = "fill" => at' = 1) /\ UNCHANGED <<dest, original, had, replacing, whole>>
      BY <1>1, OnwardType DEF Stage, TypeOK
    <2>2. dest = original
      BY <1>1 DEF Stage, NewFiles, Preparing
    <2>3. NewFiles'
      BY <2>1, <2>2 DEF NewFiles, Preparing, SettingAside, Replacing, Slots
    <2>4. Undoable'
      BY <2>1, <2>2 DEF Undoable, Originals, TypeOK
    <2> QED BY <2>3, <2>4
  <1>2. CASE Fill
    <2>1. UNCHANGED <<dest, original, had, replacing, whole>>
      BY <1>2 DEF Fill
    <2>2. dest = original
      BY <1>2 DEF Fill, NewFiles, Preparing
    <2>3. \A i \in Slots : i <= at => stage'[i] = "new"
      BY <1>2 DEF Fill, NewFiles, TypeOK, Slots
    <2>4. (pc' = "fill" /\ at' = at + 1) \/ (pc' = "stop" /\ at = N)
      BY <1>2, OnwardType DEF Fill, TypeOK
    <2>5. NewFiles'
      <3>1. CASE pc' = "fill" /\ at' = at + 1
        BY <2>1, <2>2, <2>3, <3>1 DEF NewFiles, Preparing, SettingAside, Replacing, Slots, TypeOK
      <3>2. CASE pc' = "stop" /\ at = N
        BY <2>1, <2>2, <2>3, <3>2 DEF NewFiles, Preparing, SettingAside, Replacing, Slots, TypeOK
      <3> QED BY <2>4, <3>1, <3>2
    <2>6. Undoable'
      BY <2>1, <2>2, <2>4 DEF Undoable, Originals, TypeOK
    <2> QED BY <2>5, <2>6
  <1>3. CASE Stop \/ Clear \/ Intend
    <2>1. /\ pc' \in SettingAside /\ UNCHANGED <<dest, stage, original, had, replacing, whole>>
          /\ pc \in {"stop"} \cup SettingAside
      BY <1>3 DEF Stop, Clear, Intend, Go, SettingAside
    <2>2. NewFiles'
      BY <2>1 DEF NewFiles, Preparing, SettingAside, Replacing
    <2>3. Undoable'
      BY <2>1 DEF Undoable, Originals, SettingAside
    <2> QED BY <2>2, <2>3
  <1>4. CASE Reserve
    <2>1. /\ pc' \in {"reserve", "clear"} \/ (pc' = "replace" /\ at' = 1)
          /\ UNCHANGED <<dest, stage, original, replacing, whole>>
      BY <1>4, OnwardType DEF Reserve, Go, TypeOK
    <2>2. whole /\ \A i \in Slots : stage[i] = "new"
      BY <1>4 DEF Reserve, TidyInv, Main, SettingAside, NewFiles
    <2>3. \A i \in Slots : had'[i] = had[i] \/ (i = at /\ dest[i] # "none")
      BY <1>4 DEF Reserve, TypeOK
    <2>4. NewFiles'
      BY <2>1, <2>2 DEF NewFiles, Preparing, SettingAside, Replacing, Slots
    <2>5. \A i \in Slots \ Originals : dest[i] = "none" /\ ~had'[i]
      BY <2>2, <2>3 DEF Undoable
    <2>6. Undoable'
      BY <2>1, <2>2, <2>5 DEF Undoable, Originals
    <2> QED BY <2>4, <2>6
  <1>5. CASE SetAside
    <2>1. /\ pc' = "reserve" \/ (pc' = "replace" /\ at' = 1)
          /\ UNCHANGED <<stage, original, had, replacing, whole>>
      BY <1>5, OnwardType DEF SetAside, TypeOK
    <2>2. \A i \in Slots : stage[i] = "new"
      BY <1>5 DEF SetAside, SettingAside, NewFiles
    <2>3. \A i \in Slots : dest'[i] \in {dest[i], "none"}
      BY <1>5 DEF SetAside, TypeOK
    <2>4. NewFiles'
      BY <2>1, <2>2 DEF NewFiles, Preparing, SettingAside, Replacing, Slots
    <2>5. Undoable'
      BY <2>1, <2>2, <2>3 DEF Undoable, Originals
    <2> QED BY <2>4, <2>5
  <1>6. CASE Replace
    <2>1. pc' = "moveIn" /\ UNCHANGED <<at, dest, stage, original, had, whole>>
      BY <1>6 DEF Replace, Go
    <2>2. replacing'[at] /\ \A i \in Slots : replacing[i] => replacing'[i]
      BY <1>6 DEF Replace, TypeOK
    <2>3. NewFiles'
      BY <1>6, <2>1, <2>2 DEF Replace, NewFiles, Preparing, SettingAside, Replacing
    <2>4. Undoable'
      BY <2>1, <2>2 DEF Undoable, Originals
    <2> QED BY <2>3, <2>4
  <1>7. CASE MoveIn
    <2>1. pc' = "forget" /\ UNCHANGED <<at, original, had, whole, replacing>>
      BY <1>7 DEF MoveIn, Go
    <2>2. replacing[at] /\ dest'[at] = "new" /\ stage'[at] = "none"
      BY <1>7 DEF MoveIn, NewFiles, TypeOK
    <2>3. \A i \in Slots \ {at} : dest'[i] = dest[i] /\ stage'[i] = stage[i]
      BY <1>7 DEF MoveIn, TypeOK
    <2>4. \A i \in Slots : (i > at => stage[i] = "new") /\ (i < at => dest[i] = "new")
      <3>1. pc \in Replacing
        BY <1>7 DEF MoveIn, Replacing
      <3> QED BY <3>1 DEF NewFiles
    <2>5. \A i \in Slots : (i > at => stage'[i] = "new") /\ (i < at => dest'[i] = "new")
      BY <2>3, <2>4 DEF TypeOK, Slots
    <2>6. NewFiles'
      BY <2>1, <2>2, <2>5 DEF NewFiles, Preparing, SettingAside, Replacing
    <2>7. Undoable'
      BY <2>1, <2>2, <2>3 DEF Undoable, Originals
    <2> QED BY <2>6, <2>7
  <1>8. CASE Forget
    <2>1. UNCHANGED <<dest, stage, original, had, whole, replacing>>
      BY <1>8 DEF Forget
    <2>2. dest[at] = "new" /\ \A i \in Slots : (i > at => stage[i] = "new") /\ (i < at => dest[i] = "new")
      <3>1. pc = "forget" /\ pc \in Replacing
        BY <1>8 DEF Forget, Replacing
      <3> QED BY <3>1 DEF NewFiles
    <2>3. (pc' = "replace" /\ at' = at + 1) \/ (pc' = "commit" /\ at = N)
      BY <1>8, OnwardType DEF Forget, TypeOK
    <2>4. CASE pc' = "replace" /\ at' = at + 1
      <3>1. \A i \in Slots : (i > at + 1 => stage[i] = "new") /\ (i < at + 1 => dest[i] = "new")
        BY <2>2 DEF TypeOK, Slots
      <3>2. at + 1 \in Slots => stage[at + 1] = "new"
        BY <2>2 DEF TypeOK, Slots
      <3>3. at + 1 \in Slots
        BY <1>8, <2>4, OnwardType DEF Forget, TypeOK
      <3> QED BY <2>1, <2>4, <3>1, <3>2, <3>3 DEF NewFiles, Undoable, Originals, Preparing, SettingAside, Replacing
    <2>5. CASE pc' = "commit" /\ at = N
      <3>1. \A i \in Slots : dest[i] = "new"
        BY <2>2, <2>5 DEF Slots
      <3> QED BY <2>1, <2>5, <3>1 DEF NewFiles, Undoable, Originals, Preparing, SettingAside, Replacing
    <2> QED BY <2>3, <2>4, <2>5
  <1>9. ~Discard /\ ~Post
    BY DEF Discard, Post, Guarded
  <1> QED BY <1>1, <1>2, <1>3, <1>4, <1>5, <1>6, <1>7, <1>8, <1>9 DEF Transaction

\* In the clean-up nothing is left to say of where the new files are.
LEMMA CleaningUp ==
    ASSUME pc' \in Cleanup \cup {"ended"}
    PROVE  NewFiles'
  BY DEF NewFiles, Cleanup, Preparing, SettingAside, Replacing

\* A step of the rollback that goes on: if it went well, the place it was about is free
\* again if it was free before.
LEMMA RolledBackUndoable ==
    ASSUME TypeOK, Undoable, pc \in {"rollback", "restore", "takeBack"},
           NEW ok \in BOOLEAN, RolledBack(ok), UNCHANGED <<stage, original, had>>,
           ok /\ whole => dest'[at] = "none" \/ at \in Originals,
           \A i \in Slots \ Originals : dest'[i] = dest[i] \/ (i = at /\ dest'[i] = "none")
    PROVE  NewFiles' /\ Undoable'
  <1>1. whole' => whole /\ ok
    BY RolledBackType
  <1>2. (pc' = "rollback" /\ at' = at - 1) \/ (pc' = "tidyStage" /\ at = 1)
    BY RolledBackType
  <1>3. whole' => \A i \in Slots \ Originals : i >= at => dest'[i] = "none"
    <2>1. whole => \A i \in Slots \ Originals : i > at => dest[i] = "none"
      BY DEF Undoable
    <2> QED BY <1>1, <2>1 DEF TypeOK, Slots
  <1>4. \A i \in Slots : i = at \/ replacing'[i] = replacing[i]
    BY DEF RolledBack, TypeOK
  <1>5. \A i \in Slots \ Originals : /\ ~had[i] /\ dest'[i] \in {"none", "new"}
                                     /\ dest'[i] = "new" /\ whole' => replacing'[i] /\ stage[i] = "none"
    <2>1. ASSUME NEW i \in Slots \ Originals
          PROVE  /\ ~had[i] /\ dest[i] \in {"none", "new"}
                 /\ dest[i] = "new" /\ whole => replacing[i] /\ stage[i] = "none"
      BY DEF Undoable
    <2>2. whole' => (dest'[at] = "none" \/ at \in Originals)
      BY <1>1
    <2> QED BY <1>1, <1>4, <2>1, <2>2
  <1>6. Undoable'
    <2>1. CASE pc' = "rollback" /\ at' = at - 1
      BY <1>3, <1>5, <2>1 DEF Undoable, Originals, TypeOK, Slots
    <2>2. CASE pc' = "tidyStage" /\ at = 1
      BY <1>3, <1>5, <2>2 DEF Undoable, Originals, TypeOK, Slots
    <2> QED BY <1>2, <2>1, <2>2
  <1> QED BY <1>2, <1>6, CleaningUp DEF Cleanup

LEMMA UndoNewFiles ==
    ASSUME TypeOK, Recoverable, Named, Undoable, Undo
    PROVE  NewFiles' /\ Undoable'
  <1>1. \A i \in Slots \ Originals : ~had[i] /\ ~setAside[i]
    BY DEF Undoable, Named
  <1>2. CASE ClearWay
    <2>1. at \in Originals
      BY <1>1, <1>2 DEF ClearWay, TypeOK
    <2>2. /\ pc' = "restore" /\ UNCHANGED <<at, stage, original, had, replacing>>
          /\ whole' => whole
          /\ \A i \in Slots \ Originals : dest'[i] = dest[i]
      BY <1>2, <2>1 DEF ClearWay, Go, TypeOK, Originals
    <2>3. Undoable'
      BY <1>2, <2>2 DEF Undoable, Originals, ClearWay
    <2> QED BY <2>2, <2>3, CleaningUp DEF Cleanup
  <1>3. CASE Restore
    <2>1. at \in Originals
      BY <1>1, <1>3 DEF Restore, Named, TypeOK
    <2>2. PICK ok \in BOOLEAN : RolledBack(ok)
      BY <1>3 DEF Restore
    <2>3. \A i \in Slots \ Originals : dest'[i] = dest[i]
      BY <1>3, <2>1 DEF Restore, TypeOK, Originals
    <2> QED BY <1>3, <2>1, <2>2, <2>3, RolledBackUndoable DEF Restore
  <1>4. CASE NotSetAside
    <2>1. at \in Originals
      BY <1>1, <1>4 DEF NotSetAside, TypeOK
    <2>2. PICK ok \in BOOLEAN : RolledBack(ok)
      BY <1>4 DEF NotSetAside
    <2> QED BY <1>4, <2>1, <2>2, RolledBackUndoable DEF NotSetAside
  <1>5. CASE Identify
    <2>1. CASE RolledBack(FALSE)
      BY <1>5, <2>1, RolledBackUndoable DEF Identify
    <2>2. CASE Go("takeBack", at) /\ UNCHANGED <<replacing, whole>>
      <3>1. Undoable'
        BY <1>5, <2>2 DEF Identify, Go, Undoable, Originals
      <3> QED BY <2>2, <3>1, CleaningUp DEF Go, Cleanup
    <2> QED BY <1>5, <2>1, <2>2 DEF Identify
  <1>6. CASE TakeBack
    <2>1. CASE dest' = [dest EXCEPT ![at] = "none"] /\ RolledBack(TRUE)
      <3>1. dest'[at] = "none" /\ \A i \in Slots : i # at => dest'[i] = dest[i]
        BY <2>1 DEF TypeOK
      <3> QED BY <1>6, <2>1, <3>1, RolledBackUndoable DEF TakeBack
    <2>2. CASE UNCHANGED dest /\ RolledBack(FALSE)
      BY <1>6, <2>2, RolledBackUndoable DEF TakeBack
    <2> QED BY <1>6, <2>1, <2>2 DEF TakeBack
  <1>7. CASE NothingToUndo
    <2>1. whole => dest[at] = "none" \/ at \in Originals
      BY <1>7 DEF NothingToUndo, MovedIn, Undoable, TypeOK
    <2> QED BY <1>7, <2>1, RolledBackUndoable DEF NothingToUndo
  <1>8. CASE TidyStage
    <2>1. pc' = "tidyBackup" /\ UNCHANGED <<dest, original, had, replacing, whole>>
      BY <1>8 DEF TidyStage, Go
    <2>2. \A i \in Slots : stage[i] = "none" => stage'[i] = "none"
      BY <1>8 DEF TidyStage, TypeOK
    <2>3. Undoable'
      BY <1>8, <2>1, <2>2 DEF Undoable, Originals, TidyStage
    <2> QED BY <2>1, <2>3, CleaningUp DEF Cleanup
  <1>9. CASE TidyBackup
    <2>1. pc' \in {"tidyStage", "ended"} /\ UNCHANGED <<dest, stage, original, had, replacing, whole>>
      BY <1>9, OnwardType DEF TidyBackup, TypeOK
    <2>2. whole => dest = original
      <3>1. whole => \A i \in Originals : dest[i] = "old"
        BY <1>9 DEF TidyBackup, Recoverable, PutBack
      <3>2. whole => \A i \in Slots \ Originals : dest[i] = "none"
        BY <1>9 DEF TidyBackup, Undoable
      <3>3. whole => \A i \in Slots : dest[i] = original[i]
        BY <3>1, <3>2 DEF TypeOK, Originals
      <3> QED BY <3>3 DEF TypeOK
    <2>3. Undoable'
      BY <1>9, <2>1, <2>2 DEF Undoable, Originals, TidyBackup
    <2> QED BY <2>1, <2>3, CleaningUp DEF Cleanup
  <1> QED BY <1>2, <1>3, <1>4, <1>5, <1>6, <1>7, <1>8, <1>9 DEF Undo

LEMMA InterruptNewFiles ==
    ASSUME TypeOK, Recoverable, NewFiles, Undoable, Interrupt \/ InterruptCleanup \/ Kill
    PROVE  NewFiles' /\ Undoable'
  <1>1. UNCHANGED <<dest, stage, original, had, replacing, whole>>
    BY DEF Interrupt, InterruptCleanup, Kill
  <1>2. CASE Interrupt
    <2>1. (active /\ pc' = "rollback" /\ at' = N) \/ (~active /\ pc' = "tidyStage")
      BY <1>2, ExitTrapType DEF Interrupt
    <2>2. ~active => \A i \in Slots \ Originals : dest[i] = "none"
      <3>1. ~active => dest = original
        BY <1>2 DEF Interrupt, Recoverable, Guarded, NewFiles
      <3> QED BY <3>1 DEF Originals, TypeOK
    <2>3. Undoable'
      BY <1>1, <2>1, <2>2 DEF Undoable, Originals, Slots
    <2> QED BY <2>1, <2>3, CleaningUp DEF Cleanup
  <1>3. CASE InterruptCleanup \/ Kill
    <2>1. pc' = "ended" /\ cut'
      BY <1>3 DEF InterruptCleanup, Kill, Go
    <2>2. Undoable'
      BY <1>1, <2>1 DEF Undoable, Originals
    <2> QED BY <2>1, <2>2, CleaningUp
  <1> QED BY <1>2, <1>3

-----------------------------------------------------------------------------
(* After the commit.                                                        *)

LEMMA StepInstalled ==
    ASSUME TypeOK, Next, committed', committed => Installed,
           ~committed /\ intrusions = 0 => NewFiles
    PROVE  Installed'
  <1>1. CASE Commit
    <2>1. pc' = "discard" /\ ~active' /\ UNCHANGED <<dest, intrusions>> /\ pc = "commit"
      BY <1>1 DEF Commit, Go
    <2>2. intrusions = 0 => \A i \in Slots : dest[i] = "new"
      BY <2>1 DEF Installed, NewFiles
    <2> QED BY <2>1, <2>2 DEF Installed
  <1>2. CASE ~Commit
    <2>1. Installed
      BY <1>2, HistoryGrows
    <2>2. CASE Transaction
      <3>1. Discard \/ Post
        BY <1>2, <2>1, <2>2 DEF Installed, Transaction, Stage, Fill, Stop, Reserve, Clear, Intend,
           SetAside, Replace, MoveIn, Forget
      <3>2. UNCHANGED <<dest, active, intrusions>>
        BY <3>1 DEF Discard, Post
      <3>3. pc' \in {"discard", "post", "tidyStage"}
        BY <2>1, <3>1, OnwardType DEF Discard, Post, ExitTrap, Go, Installed, TypeOK
      <3> QED BY <2>1, <3>2, <3>3 DEF Installed
    <2>3. CASE Undo
      <3>1. TidyStage \/ TidyBackup
        BY <2>1, <2>3 DEF Installed, Undo, ClearWay, Restore, NotSetAside, Identify, TakeBack,
           NothingToUndo
      <3>2. UNCHANGED <<dest, active, intrusions>>
        BY <3>1 DEF TidyStage, TidyBackup
      <3>3. pc' \in {"tidyStage", "tidyBackup", "ended"}
        BY <3>1, OnwardType DEF TidyStage, TidyBackup, Go, TypeOK
      <3> QED BY <2>1, <3>2, <3>3 DEF Installed
    <2>4. CASE Interrupt \/ InterruptCleanup \/ Kill
      <3>1. UNCHANGED <<dest, active, intrusions>>
        BY <2>4 DEF Interrupt, InterruptCleanup, Kill
      <3>2. pc' \in {"tidyStage", "ended"}
        BY <2>1, <2>4 DEF Interrupt, InterruptCleanup, Kill, ExitTrap, Go, Installed
      <3> QED BY <2>1, <3>1, <3>2 DEF Installed
    <2>5. ASSUME NEW i \in Slots, Intrude(i) PROVE Installed'
      <3>1. UNCHANGED <<active, pc>> /\ intrusions' # 0
        BY <2>5 DEF Intrude, TypeOK
      <3> QED BY <2>1, <3>1 DEF Installed
    <2> QED BY <2>2, <2>3, <2>4, <2>5 DEF Next, Outside
  <1> QED BY <1>1, <1>2

-----------------------------------------------------------------------------
\* From the first command to the last, the script remembers the name of all that it
\* leaves beside the destinations, and can tell which of the new files are its own.
THEOREM InstallCleansUp == Spec => []EndInvariant
  <1>1. Init => EndInvariant
    <2> SUFFICES ASSUME Init PROVE EndInvariant
      OBVIOUS
    <2>1. Named /\ TidyInv /\ Reported /\ ~committed
      BY DEF Init, Named, TidyInv, Reported, Slots, Cleanup
    <2>2. NewFiles /\ Undoable
      <3>1. NewFiles
        BY DEF Init, NewFiles, Preparing, SettingAside, Replacing
      <3>2. \A i \in Slots \ Originals : dest[i] = "none" /\ ~had[i]
        BY DEF Init, Originals
      <3> QED BY <3>1, <3>2 DEF Init, Undoable
    <2> QED BY <2>1, <2>2, InstallInvariantInit DEF EndInvariant
  <1>2. EndInvariant /\ InstallInvariant' /\ [Next]_vars => EndInvariant'
    <2> SUFFICES ASSUME EndInvariant, InstallInvariant', [Next]_vars PROVE EndInvariant'
      OBVIOUS
    <2>1. CASE UNCHANGED vars
      <3>1. Named' /\ TidyInv' /\ (Reported => Reported') /\ (Installed => Installed')
        BY <2>1 DEF vars, EndInvariant, Named, TidyInv, Tidied, Complaint, Reported, Installed
      <3>2. (NewFiles => NewFiles') /\ (Undoable => Undoable')
        BY <2>1 DEF vars, NewFiles, Undoable, Originals
      <3>3. committed' = committed /\ intrusions' = intrusions
        BY <2>1 DEF vars
      <3> QED BY <3>1, <3>2, <3>3 DEF EndInvariant
    <2>2. CASE Next
      <3>1. TypeOK /\ Named /\ TidyInv
        BY DEF EndInvariant, InstallInvariant
      <3>2. Named'
        BY <2>2, <3>1, TransactionNamed, UndoNamed, OutsideNamed DEF Next
      <3>3. TidyInv'
        BY <2>2, <3>1, TransactionTidy, UndoTidy, OutsideTidy DEF Next
      <3>4. ~committed' => ~committed /\ ~Commit /\ Recoverable /\ Reported
        BY <2>2, <3>1, HistoryGrows DEF EndInvariant, InstallInvariant
      <3>5. ~committed' => Reported'
        BY <2>2, <3>1, <3>4, StepReported
      <3>6. ASSUME ~committed', intrusions' = 0 PROVE NewFiles' /\ Undoable'
        <4>1. intrusions = 0 /\ \A i \in Slots : ~Intrude(i)
          BY <2>2, <3>1, <3>6, HistoryGrows
        <4>2. NewFiles /\ Undoable
          BY <3>4, <3>6, <4>1 DEF EndInvariant
        <4>3. CASE Transaction
          BY <3>1, <3>4, <3>6, <4>2, <4>3, TransactionNewFiles
        <4>4. CASE Undo
          BY <3>1, <3>4, <3>6, <4>2, <4>4, UndoNewFiles
        <4>5. CASE Outside
          BY <3>1, <3>4, <3>6, <4>1, <4>2, <4>5, InterruptNewFiles DEF Outside
        <4> QED BY <2>2, <4>3, <4>4, <4>5 DEF Next
      <3>7. committed' => Installed'
        BY <2>2, <3>1, StepInstalled DEF EndInvariant
      <3> QED BY <3>2, <3>3, <3>5, <3>6, <3>7 DEF EndInvariant
    <2> QED BY <2>1, <2>2
  <1> QED BY <1>1, <1>2, InstallIsRecoverable, PTL DEF Spec

\* A script that came to its end, and that no other program meddled with, has installed
\* every file, or has everything as it was, or says that it has not.
THEOREM InstallEndsWhole == Spec => []EndsWhole
  <1>1. EndInvariant => EndsWhole
    BY DEF EndInvariant, EndsWhole, Installed, Reported, Undoable
  <1> QED BY <1>1, InstallCleansUp, PTL

\* It leaves nothing of its own behind, unless it says so.
THEOREM InstallLeavesNothingOver == Spec => []NothingLeftOver
  <1>1. EndInvariant => NothingLeftOver
    BY DEF EndInvariant, NothingLeftOver, TidyInv, Tidied, Complaint
  <1> QED BY <1>1, InstallCleansUp, PTL

\* The clean-up (install.sh:282) removes no file of another program from a place that was
\* free before the installation, unless it was put there between the look and the removal.
\* This is said of the clean-up alone: on the way forward MoveIn (install.sh:461) replaces such
\* a file, and where there was an original, ClearWay (install.sh:290) removes it.
THEOREM InstallSparesOthers == Spec => SparesOthers
  <1>. DEFINE Spared == \A i \in Slots : pc \in Cleanup /\ ~had[i] /\ dest[i] = "other" /\ ~late
                                           => dest'[i] = "other"
  <1>1. EndInvariant /\ [Next]_vars => [Spared]_vars
    <2> SUFFICES ASSUME EndInvariant, Next, NEW i \in Slots,
                        pc \in Cleanup, ~had[i], dest[i] = "other", ~late
                 PROVE  dest'[i] = "other"
      OBVIOUS
    <2>1. TypeOK /\ Named /\ ~setAside[i]
      BY DEF EndInvariant, InstallInvariant, Named
    <2>2. ~Transaction
      BY DEF Transaction, Stage, Fill, Stop, Reserve, Clear, Intend, SetAside, Replace, MoveIn,
             Forget, Commit, Discard, Post, Cleanup
    <2>3. CASE ClearWay \/ Restore
      <3>1. at # i
        BY <2>1, <2>3 DEF ClearWay, Restore, Named
      <3> QED BY <2>1, <2>3, <3>1 DEF ClearWay, Restore, TypeOK
    <2>4. CASE TakeBack
      <3>1. at # i
        BY <2>1, <2>4 DEF TakeBack, Named
      <3> QED BY <2>1, <2>4, <3>1 DEF TakeBack, TypeOK
    <2>5. CASE NotSetAside \/ Identify \/ NothingToUndo \/ TidyStage \/ TidyBackup
      BY <2>5 DEF NotSetAside, Identify, NothingToUndo, TidyStage, TidyBackup
    <2>6. CASE Interrupt \/ InterruptCleanup \/ Kill
      BY <2>6 DEF Interrupt, InterruptCleanup, Kill
    <2>7. ASSUME NEW j \in Slots, Intrude(j) PROVE dest'[i] = "other"
      BY <2>1, <2>7 DEF Intrude, TypeOK
    <2> QED BY <2>2, <2>3, <2>4, <2>5, <2>6, <2>7 DEF Next, Undo, Outside
  <1>2. [][Spared]_vars => SparesOthers
    BY PTL DEF SparesOthers
  <1> QED BY <1>1, <1>2, InstallCleansUp, PTL DEF Spec
=============================================================================
