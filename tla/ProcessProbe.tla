---------------------------- MODULE ProcessProbe ----------------------------
(***************************************************************************)
(* QtProcessProbe::run (platform/qt_process_probe.cpp): run a program,     *)
(* take its standard output if it ends well, in time and within a limit,   *)
(* and never leave it running unattended.                                  *)
(*                                                                         *)
(* Time is counted in ticks, output in lines. The program, the pipe and    *)
(* what QProcess has noticed of them are separate: QProcess learns of      *)
(* output and of the end of the program only while the code waits.         *)
(***************************************************************************)
EXTENDS Naturals, Sequences

CONSTANTS
    Timeout,     \* timeoutMilliseconds, in ticks
    Grace,       \* reapingGraceMilliseconds, in ticks
    Limit        \* maximumStandardOutputBytes, in lines

ASSUME ProbeAssumption ==
    Timeout \in Nat \ {0} /\ Grace \in Nat \ {0} /\ Limit \in Nat

VARIABLES
    \* the program (outside src/)
    child,      \* "none", "running", "succeeded", "failed" (an exit code, a crash, a kill)
    unwritten,  \* what it has still to write
    pipe,       \* what it has written and QProcess has not read
    \* QProcess
    qstate, fetched,
    killed,     \* kill() was called
    \* run()
    pc, now, until, output, status,
    deferred    \* deferReaping took the process over

childVars == <<child, unwritten, pipe>>
procVars  == <<qstate, fetched, killed>>
runVars   == <<pc, now, until, output, status>>
probeVars == <<childVars, procVars, runVars, deferred>>

ProbeInit ==
    /\ child = "none" /\ unwritten = <<>> /\ pipe = <<>>
    /\ qstate = "NotRunning" /\ fetched = <<>> /\ killed = FALSE
    /\ pc = "idle" /\ now = 0 /\ until = 0 /\ output = <<>> /\ status = "none"
    /\ deferred = FALSE

-----------------------------------------------------------------------------
(* The program.                                                            *)

ChildWrites ==
    /\ child = "running" /\ unwritten # <<>>
    /\ pipe' = Append(pipe, Head(unwritten)) /\ unwritten' = Tail(unwritten)
    /\ UNCHANGED <<child, procVars, runVars, deferred>>

ChildSucceeds ==
    /\ child = "running" /\ unwritten = <<>> /\ child' = "succeeded"
    /\ UNCHANGED <<unwritten, pipe, procVars, runVars, deferred>>

\* It crashes, exits with a code, or dies of the signal sent.
ChildFails ==
    /\ child = "running" /\ child' = "failed"
    /\ UNCHANGED <<unwritten, pipe, procVars, runVars, deferred>>

-----------------------------------------------------------------------------
(* run()                                                                   *)

\* The deadline of the wait that run() is in.
WaitEnds == IF pc = "grace" THEN until ELSE Timeout

\* Time passes while run() waits, and may pass between two waits.
Tick ==
    /\ pc \in {"start", "head", "wait", "grace"} /\ now < WaitEnds
    /\ now' = now + 1
    /\ UNCHANGED <<childVars, procVars, pc, until, output, status, deferred>>

Start ==
    /\ pc = "idle" /\ pc' = "start" /\ now' = 0 /\ qstate' = "Starting" /\ status' = "none"
    /\ output' = <<>> /\ fetched' = <<>> /\ killed' = FALSE
    /\ UNCHANGED <<childVars, until, deferred>>

\* waitForStarted: the program runs, and will write these lines.
Started(lines) ==
    /\ pc = "start" /\ child = "none"
    /\ child' = "running" /\ unwritten' = lines /\ pipe' = <<>>
    /\ qstate' = "Running" /\ pc' = "head"
    /\ UNCHANGED <<fetched, killed, now, until, output, status, deferred>>

StartFails ==
    /\ pc = "start" /\ qstate' = "NotRunning"
    /\ status' = (IF now >= Timeout THEN "TimedOut" ELSE "Failed") /\ pc' = "done"
    /\ UNCHANGED <<childVars, fetched, killed, now, until, output, deferred>>

\* Mutant of Stop: the program is left alone.
StopAtOnce(result) == status' = result /\ pc' = "done"

\* stoppedProbeResult: the program is to be killed before run() returns.
Stop(result) == status' = result /\ pc' = "kill"

\* The program has been forked, but does not start in time.
StartTimesOut ==
    /\ pc = "start" /\ now >= Timeout
    /\ child' = "running" /\ unwritten' = <<>> /\ pipe' = <<>>
    /\ Stop("TimedOut")
    /\ UNCHANGED <<procVars, now, until, output, deferred>>

\* Mutant of Excess: as much as fits is taken.
ExcessIgnored == FALSE

\* appendBoundedStandardOutput fails: there is more than the limit allows.
Excess == Len(output) + Len(fetched) > Limit

Appended == output' = output \o fetched /\ fetched' = <<>>

\* The loop's condition, its read and its look at the clock.
LoopEnds ==
    /\ pc = "head" /\ qstate = "NotRunning" /\ pc' = "final"
    /\ UNCHANGED <<childVars, procVars, now, until, output, status, deferred>>

LoopReads ==
    /\ pc = "head" /\ qstate # "NotRunning"
    /\ \/ Excess /\ Stop("OutputTooLarge") /\ UNCHANGED <<output, fetched>>
       \/ ~Excess /\ Appended /\ now >= Timeout /\ Stop("TimedOut")
       \/ ~Excess /\ Appended /\ now < Timeout /\ pc' = "wait" /\ UNCHANGED status
    /\ UNCHANGED <<childVars, qstate, killed, now, until, deferred>>

\* waitForReadyRead: output has come,
Ready ==
    /\ pc = "wait" /\ pipe # <<>>
    /\ fetched' = fetched \o pipe /\ pipe' = <<>> /\ pc' = "head"
    /\ UNCHANGED <<child, unwritten, qstate, killed, now, until, output, status, deferred>>

\* or the program has ended, and QProcess has drained its output,
Ended ==
    /\ pc = "wait" /\ child \in {"succeeded", "failed"}
    /\ fetched' = fetched \o pipe /\ pipe' = <<>> /\ qstate' = "NotRunning" /\ pc' = "head"
    /\ UNCHANGED <<child, unwritten, killed, now, until, output, status, deferred>>

\* Mutant of Expired: nobody looks at the clock after a wait.
ExpiredNever == FALSE

\* The wait for output was in vain.
Expired == now >= Timeout

\* or the time is over,
WaitTimesOut ==
    /\ pc = "wait" /\ Expired /\ Stop("TimedOut")
    /\ UNCHANGED <<childVars, procVars, now, until, output, deferred>>

\* or waiting fails while the program runs and there is time left.
WaitFails ==
    /\ pc = "wait" /\ now < Timeout /\ Stop("Failed")
    /\ UNCHANGED <<childVars, procVars, now, until, output, deferred>>

\* Mutant of Whole: what the last wait brought is not read.
WholeUnread(lines) == output' = output /\ fetched' = <<>>

\* The rest of the output is read after the program has ended.
Whole(lines) == output' = output \o lines /\ fetched' = <<>>

Judge ==
    /\ pc = "final" /\ pc' = "done"
    /\ \/ Excess /\ status' = "OutputTooLarge" /\ UNCHANGED <<output, fetched>>
       \/ ~Excess /\ Whole(fetched) /\ child = "succeeded" /\ status' = "Success"
       \/ ~Excess /\ Whole(fetched) /\ child # "succeeded" /\ status' = "Failed"
    /\ UNCHANGED <<childVars, qstate, killed, now, until, deferred>>

\* killAndReapOrDefer
Kill ==
    /\ pc = "kill" /\ pc' = "grace"
    /\ killed' = TRUE /\ until' = now + Grace
    /\ UNCHANGED <<childVars, qstate, fetched, now, output, status, deferred>>

Reap ==
    /\ pc = "grace" /\ child # "running" /\ qstate' = "NotRunning" /\ pc' = "done"
    /\ UNCHANGED <<childVars, fetched, killed, now, until, output, status, deferred>>

\* deferReaping: the program has not ended in time, or QProcess has not noticed. The event
\* loop will delete the process, however many wait for that.
Defer ==
    /\ pc = "grace" /\ now >= until /\ deferred' = TRUE /\ pc' = "done"
    /\ UNCHANGED <<childVars, procVars, now, until, output, status>>

\* run() returns. A program that still runs is no longer its concern.
ProbeReturns ==
    /\ pc = "done" /\ pc' = "idle" /\ now' = 0 /\ until' = 0
    /\ status' = "none" /\ output' = <<>> /\ fetched' = <<>> /\ killed' = FALSE
    /\ qstate' = "NotRunning" /\ child' = "none" /\ unwritten' = <<>> /\ pipe' = <<>>
    /\ deferred' = FALSE

RunStep ==
    \/ Tick \/ StartFails \/ StartTimesOut \/ LoopEnds \/ LoopReads
    \/ Ready \/ Ended \/ WaitTimesOut \/ WaitFails \/ Judge \/ Kill \/ Reap \/ Defer

ChildStep == ChildWrites \/ ChildSucceeds \/ ChildFails
=============================================================================
