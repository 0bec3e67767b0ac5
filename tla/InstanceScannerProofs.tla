------------------------ MODULE InstanceScannerProofs ------------------------
(***************************************************************************)
(* Proofs about InstanceScanner and the ProcessProbe it runs, for any PATH, *)
(* programs, installations, limits and times: the types, that no program    *)
(* is left running unattended, that a scan misses nothing that was there    *)
(* all the time and invents nothing.                                        *)
(*                                                                         *)
(* The output of flatpak is in four places at a time: in the program, in    *)
(* the pipe, in QProcess and in what run() has kept.  The invariant follows *)
(* it through them: together they hold what was installed when flatpak      *)
(* looked, and only a program that has written all of it can succeed.       *)
(***************************************************************************)
EXTENDS InstanceScanner, FiniteSetTheorems, TLAPS

Lines == Refs \cup {Other}

\* What is anywhere between flatpak and the scanner.
Stream == ToSet(output) \cup ToSet(fetched) \cup ToSet(pipe) \cup ToSet(unwritten)

ProbeTypes ==
    /\ child \in {"none", "running", "succeeded", "failed"}
    /\ unwritten \in Seq(Lines) /\ pipe \in Seq(Lines)
    /\ fetched \in Seq(Lines) /\ output \in Seq(Lines) /\ Len(output) <= Limit
    /\ qstate \in {"NotRunning", "Starting", "Running"} /\ killed \in BOOLEAN
    /\ pc \in {"idle", "start", "head", "wait", "final", "kill", "grace", "done"}
    /\ now \in 0 .. Timeout + Grace /\ until \in 0 .. Timeout + Grace
    /\ status \in {"none", "Success", "Failed", "TimedOut", "OutputTooLarge"}
    /\ deferred \in BOOLEAN

Findings == [native : SUBSET Programs, flatpak : SUBSET Refs, snap : SUBSET {"snap"}]
Results == [kind : {"none", "scan"}, native : SUBSET (PathEntries \X Programs),
            flatpak : Seq(Refs), snap : BOOLEAN, failed : SUBSET {"flatpak", "snap"}]

ScanTypes ==
    /\ onPath \in [PathEntries -> Programs \cup {NoProgram}] /\ flatpak \in BOOLEAN
    /\ installed \subseteq Refs /\ changes \in 0 .. MaxChanges
    /\ launcher \in {"absent", "dangling", "plain", "program"}
    /\ at \in {"idle", "flatpak", "probe", "snap"} /\ launcherFound \in BOOLEAN
    /\ result \in Results /\ always \in Findings /\ ever \in Findings

\* Where run() is and what has become of its program.
Attended ==
    /\ pc = "idle" => unwritten = <<>> /\ pipe = <<>> /\ fetched = <<>> /\ output = <<>>
    /\ pc \in {"idle", "start"} => child = "none"
    /\ pc = "start" => fetched = <<>> /\ output = <<>> /\ unwritten = <<>> /\ pipe = <<>>
    /\ pc \in {"start", "head", "wait", "final", "kill"} => now <= Timeout
    /\ pc = "head" => qstate # "Starting"
    /\ pc = "wait" => qstate = "Running"
    /\ pc = "final" => qstate = "NotRunning"
    /\ pc \in {"head", "final"} /\ qstate = "NotRunning" =>
           child \in {"succeeded", "failed"} /\ pipe = <<>>
    /\ child = "succeeded" => unwritten = <<>>
    /\ pc \in {"kill", "grace"} => status # "Success"
    /\ pc = "grace" => killed
    /\ pc = "done" /\ child = "running" => killed /\ deferred

\* What flatpak printed is on its way, all of it as long as flatpak has not failed.
Listing ==
    /\ at = "probe" <=> pc # "idle"
    /\ at # "idle" => Stream \subseteq ever.flatpak \cup {Other}
    /\ pc \in {"head", "wait", "final"} /\ child \in {"running", "succeeded"} =>
           always.flatpak \subseteq Stream
    /\ pc = "done" /\ status = "Success" => always.flatpak \subseteq ToSet(output)

\* What the scan has found, against what was there all the time and at any time.
Witnessed ==
    /\ at # "idle" =>
           /\ result.kind = "none"
           /\ always.native \subseteq There.native /\ There.native \subseteq ever.native
           /\ always.flatpak \subseteq There.flatpak /\ There.flatpak \subseteq ever.flatpak
           /\ always.snap \subseteq There.snap /\ There.snap \subseteq ever.snap
    /\ at # "idle" \/ result.kind = "scan" =>
           /\ always.native \subseteq {n[2] : n \in result.native}
           /\ {n[2] : n \in result.native} \subseteq ever.native
    /\ at \in {"flatpak", "probe"} => result.flatpak = <<>>
    /\ at = "snap" \/ result.kind = "scan" =>
           /\ always.flatpak \subseteq ToSet(result.flatpak) \/ "flatpak" \in result.failed
           /\ ToSet(result.flatpak) \subseteq ever.flatpak
    /\ result.kind = "scan" =>
           /\ always.snap = {} \/ result.snap \/ "snap" \in result.failed
           /\ result.snap => ever.snap # {}

ScannerInvariant == ProbeTypes /\ ScanTypes /\ Attended /\ Listing /\ Witnessed

-----------------------------------------------------------------------------
(* Facts about sequences and numbers.                                       *)

LEMMA EmptyLines == ToSet(<<>>) = {} /\ \A S : <<>> \in Seq(S)
  BY DEF ToSet

LEMMA LinesType == ASSUME NEW S, NEW s \in Seq(S) PROVE ToSet(s) \subseteq S
  BY DEF ToSet

LEMMA LinesWiden == ASSUME NEW T, NEW S \in SUBSET T, NEW s \in Seq(S) PROVE s \in Seq(T)
  OBVIOUS

\* Lines that are read are behind those that were read before.
LEMMA LinesRead ==
    ASSUME NEW S, NEW s \in Seq(S), NEW t \in Seq(S)
    PROVE  /\ s \o t \in Seq(S) /\ Len(s \o t) = Len(s) + Len(t)
           /\ ToSet(s \o t) = ToSet(s) \cup ToSet(t)
  <1>1. s \o t \in Seq(S) /\ Len(s \o t) = Len(s) + Len(t)
    OBVIOUS
  <1>2. \A i \in DOMAIN (s \o t) : (s \o t)[i] \in ToSet(s) \cup ToSet(t)
    BY DEF ToSet
  <1>3. \A i \in DOMAIN s : (s \o t)[i] = s[i] /\ i \in DOMAIN (s \o t)
    OBVIOUS
  <1>4. \A i \in DOMAIN t : (s \o t)[Len(s) + i] = t[i] /\ Len(s) + i \in DOMAIN (s \o t)
    OBVIOUS
  <1>5. ToSet(s \o t) \subseteq ToSet(s) \cup ToSet(t)
    BY <1>2 DEF ToSet
  <1>6. ToSet(s) \subseteq ToSet(s \o t)
    BY <1>3 DEF ToSet
  <1>7. ToSet(t) \subseteq ToSet(s \o t)
    BY <1>4 DEF ToSet
  <1> QED BY <1>1, <1>5, <1>6, <1>7

\* A line that moves on from one place to the next is lost from neither.
LEMMA LineMoves ==
    ASSUME NEW S, NEW p \in Seq(S), NEW u \in Seq(S), u # <<>>
    PROVE  /\ Append(p, Head(u)) \in Seq(S) /\ Tail(u) \in Seq(S)
           /\ ToSet(Append(p, Head(u))) \cup ToSet(Tail(u)) = ToSet(p) \cup ToSet(u)
  <1>1. Len(u) \in Nat \ {0} /\ Head(u) = u[1] /\ u[1] \in S
    OBVIOUS
  <1>2. Append(p, Head(u)) \in Seq(S) /\ Tail(u) \in Seq(S)
    BY <1>1
  <1>3. ToSet(Append(p, Head(u))) = ToSet(p) \cup {u[1]}
    <2>1. DOMAIN Append(p, Head(u)) = DOMAIN p \cup {Len(p) + 1}
      BY <1>1
    <2>2. \A i \in DOMAIN p : Append(p, Head(u))[i] = p[i]
      BY <1>1
    <2>3. Append(p, Head(u))[Len(p) + 1] = u[1]
      BY <1>1
    <2> QED BY <2>1, <2>2, <2>3 DEF ToSet
  <1>4. ToSet(u) = {u[1]} \cup ToSet(Tail(u))
    <2>1. \A i \in DOMAIN u : i = 1 \/ (i - 1 \in DOMAIN Tail(u) /\ Tail(u)[i - 1] = u[i])
      BY <1>1
    <2>2. \A i \in DOMAIN Tail(u) : i + 1 \in DOMAIN u /\ Tail(u)[i] = u[i + 1]
      BY <1>1
    <2>3. 1 \in DOMAIN u
      BY <1>1
    <2>4. ToSet(u) \subseteq {u[1]} \cup ToSet(Tail(u))
      BY <2>1 DEF ToSet
    <2>5. ToSet(Tail(u)) \subseteq ToSet(u)
      BY <2>2 DEF ToSet
    <2>6. u[1] \in ToSet(u)
      BY <2>3 DEF ToSet
    <2> QED BY <2>4, <2>5, <2>6
  <1> QED BY <1>2, <1>3, <1>4

\* Of numbers there is a least one.
LEMMA LeastNumber ==
    ASSUME NEW S \in SUBSET Nat, S # {}
    PROVE  \E e \in S : \A f \in S : ~(f < e)
  <1>. DEFINE R == {ss \in Nat \X Nat : ss[1] < ss[2]}
  <1>1. IsWellFoundedOn(R, Nat)
    BY NatLessThanWellFounded DEF OpToRel
  <1>. HIDE DEF R
  <1>2. PICK e \in S : \A f \in S : ~(<<f, e>> \in R)
    BY <1>1, WFMin
  <1>3. \A f \in S : ~(f < e)
    BY <1>2 DEF R
  <1> QED BY <1>3

\* Finitely many numbers have a greatest.
LEMMA GreatestNumber ==
    ASSUME NEW S \in SUBSET Nat, IsFiniteSet(S), S # {}
    PROVE  \E m \in S : \A e \in S : e <= m
  <1>. DEFINE T == {n \in Nat : \E U \in SUBSET Nat : /\ IsFiniteSet(U) /\ Cardinality(U) = n /\ U # {}
                                                  /\ ~\E m \in U : \A e \in U : e <= m}
  <1>1. SUFFICES T = {}
    <2>1. Cardinality(S) \in Nat
      BY FS_CardinalityType
    <2> QED BY <2>1
  <1>2. SUFFICES ASSUME NEW n \in T, \A k \in T : ~(k < n) PROVE FALSE
    BY LeastNumber
  <1>3. PICK U \in SUBSET Nat : /\ IsFiniteSet(U) /\ Cardinality(U) = n /\ U # {}
                               /\ ~\E m \in U : \A e \in U : e <= m
    OBVIOUS
  <1>4. PICK u \in U : TRUE
    BY <1>3
  <1>. DEFINE V == U \ {u}
  <1>5. IsFiniteSet(V) /\ Cardinality(V) = n - 1 /\ V \in SUBSET Nat
    BY <1>3, <1>4, FS_RemoveElement
  <1>6. V # {}
    BY <1>3, <1>4
  <1>7. n \in Nat /\ n - 1 \in Nat /\ n - 1 < n
    <2>1. Cardinality(V) \in Nat
      BY <1>5, FS_CardinalityType
    <2> QED BY <1>5, <2>1
  <1>8. n - 1 \notin T
    BY <1>2, <1>7
  <1>9. PICK m \in V : \A e \in V : e <= m
    BY <1>5, <1>6, <1>7, <1>8
  <1>10. \A e \in U : e <= IF u <= m THEN m ELSE u
    BY <1>4, <1>9
  <1> QED BY <1>3, <1>4, <1>9, <1>10

\* They can be put in ascending order.
LEMMA AscendingOrder ==
    ASSUME NEW S \in SUBSET Nat, IsFiniteSet(S)
    PROVE  \E s \in [1 .. Cardinality(S) -> S] : \A i, j \in 1 .. Cardinality(S) : i < j => s[i] < s[j]
  <1>. DEFINE Orders(U) == \E s \in [1 .. Cardinality(U) -> U] :
                               \A i, j \in 1 .. Cardinality(U) : i < j => s[i] < s[j]
              T == {n \in Nat : \E U \in SUBSET Nat : IsFiniteSet(U) /\ Cardinality(U) = n /\ ~Orders(U)}
  <1>1. SUFFICES T = {}
    <2>1. Cardinality(S) \in Nat
      BY FS_CardinalityType
    <2> QED BY <2>1
  <1>2. SUFFICES ASSUME NEW n \in T, \A k \in T : ~(k < n) PROVE FALSE
    BY LeastNumber
  <1>3. PICK U \in SUBSET Nat : IsFiniteSet(U) /\ Cardinality(U) = n /\ ~Orders(U)
    OBVIOUS
  <1>4. U # {}
    <2>1. ASSUME U = {} PROVE FALSE
      <3>1. Cardinality(U) = 0
        BY <2>1, FS_EmptySet
      <3>2. 1 .. Cardinality(U) = {} /\ <<>> \in [1 .. Cardinality(U) -> U]
        BY <3>1
      <3>3. \A i, j \in 1 .. Cardinality(U) : i < j => <<>>[i] < <<>>[j]
        BY <3>2
      <3>4. Orders(U)
        BY <3>2, <3>3
      <3> QED BY <1>3, <3>4
    <2> QED BY <2>1
  <1>5. PICK m \in U : \A e \in U : e <= m
    BY <1>3, <1>4, GreatestNumber
  <1>. DEFINE V == U \ {m}
  <1>6. IsFiniteSet(V) /\ Cardinality(V) = n - 1 /\ V \in SUBSET Nat
    BY <1>3, <1>5, FS_RemoveElement
  <1>7. n \in Nat /\ n - 1 \in Nat /\ n - 1 < n
    <2>1. Cardinality(V) \in Nat
      BY <1>6, FS_CardinalityType
    <2> QED BY <1>6, <2>1
  <1>8. n - 1 \notin T
    BY <1>2, <1>7
  <1>9. Orders(V)
    BY <1>6, <1>7, <1>8
  <1>10. PICK s \in [1 .. n - 1 -> V] : \A i, j \in 1 .. n - 1 : i < j => s[i] < s[j]
    BY <1>6, <1>9
  <1>. DEFINE t == [i \in 1 .. n |-> IF i = n THEN m ELSE s[i]]
  <1>11. t \in [1 .. n -> U]
    BY <1>7, <1>10
  <1>12. \A i, j \in 1 .. n : i < j => t[i] < t[j]
    <2>1. \A i \in 1 .. n - 1 : s[i] \in U /\ s[i] # m
      BY <1>10
    <2>2. \A e \in U : e \in Nat /\ e <= m
      BY <1>3, <1>5
    <2>3. m \in Nat /\ \A i \in 1 .. n - 1 : s[i] \in Nat /\ s[i] < m
      <3>1. m \in Nat
        BY <1>5, <2>2
      <3>2. ASSUME NEW i \in 1 .. n - 1 PROVE s[i] \in Nat /\ s[i] < m
        <4>1. s[i] \in Nat /\ s[i] <= m /\ s[i] # m
          BY <2>1, <2>2
        <4> QED BY <3>1, <4>1
      <3> QED BY <3>1, <3>2
    <2> QED BY <1>7, <1>10, <2>3
  <1> QED BY <1>3, <1>11, <1>12

\* The scanner's order has every installation, and nothing else.
LEMMA SortedIsExact ==
    ASSUME NEW S \in SUBSET Nat, IsFiniteSet(S)
    PROVE  Sorted(S) \in Seq(S) /\ ToSet(Sorted(S)) = S
  <1>. DEFINE n == Cardinality(S)
  <1>1. n \in Nat
    BY FS_CardinalityType
  <1>2. PICK s \in [1 .. n -> S] : \A i, j \in 1 .. n : i < j => s[i] < s[j]
    BY AscendingOrder
  <1>3. s \in SetToSeqs(S)
    <2>1. \A i, j \in 1 .. n : i # j => s[i] # s[j]
      <3>1. \A i \in 1 .. n : s[i] \in Nat
        BY <1>2
      <3>2. \A i, j \in 1 .. n : i # j => i < j \/ j < i
        BY <1>1
      <3> QED BY <1>2, <3>1, <3>2
    <2> QED BY <1>2, <2>1 DEF SetToSeqs
  <1>4. Sorted(S) \in SetToSeqs(S)
    <2>1. DOMAIN s = 1 .. n
      BY <1>2
    <2>2. \E r \in SetToSeqs(S) : \A i, j \in DOMAIN r : i < j => r[i] < r[j]
      BY <1>2, <1>3, <2>1
    <2> QED BY <2>2 DEF Sorted
  <1>5. Sorted(S) \in [1 .. n -> S] /\ \A i, j \in 1 .. n : i # j => Sorted(S)[i] # Sorted(S)[j]
    BY <1>4 DEF SetToSeqs
  <1>6. Sorted(S) \in Injection(1 .. n, S)
    BY <1>5 DEF Injection, IsInjective
  <1>7. Sorted(S) \in Surjection(1 .. n, S)
    <2>1. IsFiniteSet(1 .. n) /\ Cardinality(1 .. n) = n
      BY <1>1, FS_Interval
    <2> QED BY <1>6, <2>1, FS_Injection
  <1>8. ToSet(Sorted(S)) = S
    <2>1. \A e \in S : \E i \in 1 .. n : Sorted(S)[i] = e
      BY <1>7 DEF Surjection
    <2>2. DOMAIN Sorted(S) = 1 .. n /\ \A i \in 1 .. n : Sorted(S)[i] \in S
      BY <1>5
    <2>. HIDE DEF n
    <2> QED BY <2>1, <2>2 DEF ToSet
  <1>9. Sorted(S) \in Seq(S)
    BY <1>1, <1>5
  <1> QED BY <1>8, <1>9

-----------------------------------------------------------------------------
(* The probe: its types, and that it leaves no program behind.              *)

LEMMA ChildAttended ==
    ASSUME ProbeTypes, Attended, ChildStep
    PROVE  ProbeTypes' /\ Attended'
  <1>1. CASE ChildWrites
    <2>1. pipe' \in Seq(Lines) /\ unwritten' \in Seq(Lines)
      BY <1>1, LineMoves DEF ChildWrites, ProbeTypes
    <2>2. ProbeTypes'
      BY <1>1, <2>1 DEF ChildWrites, ProbeTypes, procVars, runVars
    <2>3. Attended'
      BY <1>1 DEF ChildWrites, ProbeTypes, Attended, procVars, runVars
    <2> QED BY <2>2, <2>3
  <1>2. CASE ChildSucceeds \/ ChildFails
    BY <1>2 DEF ChildSucceeds, ChildFails, ProbeTypes, Attended, procVars, runVars
  <1> QED BY <1>1, <1>2 DEF ChildStep

LEMMA RunTypes ==
    ASSUME ProbeTypes, Attended, RunStep
    PROVE  ProbeTypes'
  <1>. USE ProbeAssumption
  <1>1. CASE Tick
    <2>1. now' \in 0 .. Timeout + Grace
      BY <1>1 DEF Tick, WaitEnds, ProbeTypes
    <2> QED BY <1>1, <2>1 DEF Tick, ProbeTypes, childVars, procVars
  <1>2. CASE StartFails
    BY <1>2 DEF StartFails, ProbeTypes, childVars
  <1>3. CASE StartTimesOut
    BY <1>3, EmptyLines DEF StartTimesOut, Stop, ProbeTypes, procVars
  <1>4. CASE LoopEnds
    BY <1>4 DEF LoopEnds, ProbeTypes, childVars, procVars
  <1>5. CASE LoopReads
    <2>1. /\ output' \in Seq(Lines) /\ fetched' \in Seq(Lines) /\ Len(output') <= Limit
      <3>1. CASE UNCHANGED <<output, fetched>>
        BY <3>1 DEF ProbeTypes
      <3>2. CASE ~Excess /\ Appended
        <4>1. output' = output \o fetched /\ fetched' = <<>>
          BY <3>2 DEF Appended
        <4>2. output \o fetched \in Seq(Lines) /\ Len(output \o fetched) = Len(output) + Len(fetched)
          BY LinesRead DEF ProbeTypes
        <4>3. Len(output) \in Nat /\ Len(fetched) \in Nat
          BY DEF ProbeTypes
        <4>4. Len(output) + Len(fetched) <= Limit
          BY <3>2, <4>3 DEF Excess
        <4> QED BY <4>1, <4>2, <4>4, EmptyLines
      <3> QED BY <1>5, <3>1, <3>2 DEF LoopReads
    <2>2. pc' \in {"kill", "wait"} /\ status' \in {status, "OutputTooLarge", "TimedOut"}
      BY <1>5 DEF LoopReads, Stop
    <2> QED BY <1>5, <2>1, <2>2 DEF LoopReads, ProbeTypes, childVars
  <1>6. CASE Ready
    <2>1. fetched' \in Seq(Lines)
      BY <1>6, LinesRead DEF Ready, ProbeTypes
    <2> QED BY <1>6, <2>1, EmptyLines DEF Ready, ProbeTypes
  <1>7. CASE Ended
    <2>1. fetched' \in Seq(Lines)
      BY <1>7, LinesRead DEF Ended, ProbeTypes
    <2> QED BY <1>7, <2>1, EmptyLines DEF Ended, ProbeTypes
  <1>8. CASE WaitTimesOut \/ WaitFails
    BY <1>8 DEF WaitTimesOut, WaitFails, Stop, ProbeTypes, childVars, procVars
  <1>9. CASE Judge
    <2>1. /\ output' \in Seq(Lines) /\ fetched' \in Seq(Lines) /\ Len(output') <= Limit
      <3>1. CASE UNCHANGED <<output, fetched>>
        BY <3>1 DEF ProbeTypes
      <3>2. CASE ~Excess /\ Whole(fetched)
        <4>1. output' = output \o fetched /\ fetched' = <<>>
          BY <3>2 DEF Whole
        <4>2. output \o fetched \in Seq(Lines) /\ Len(output \o fetched) = Len(output) + Len(fetched)
          BY LinesRead DEF ProbeTypes
        <4>3. Len(output) \in Nat /\ Len(fetched) \in Nat
          BY DEF ProbeTypes
        <4>4. Len(output) + Len(fetched) <= Limit
          BY <3>2, <4>3 DEF Excess
        <4> QED BY <4>1, <4>2, <4>4, EmptyLines
      <3> QED BY <1>9, <3>1, <3>2 DEF Judge
    <2>2. pc' = "done" /\ status' \in {"Success", "Failed", "OutputTooLarge"}
      BY <1>9 DEF Judge
    <2> QED BY <1>9, <2>1, <2>2 DEF Judge, ProbeTypes, childVars
  <1>10. CASE Kill
    <2>1. until' \in 0 .. Timeout + Grace
      BY <1>10 DEF Kill, ProbeTypes, Attended
    <2> QED BY <1>10, <2>1 DEF Kill, ProbeTypes, childVars
  <1>11. CASE Reap
    BY <1>11 DEF Reap, ProbeTypes, childVars
  <1>12. CASE Defer
    BY <1>12 DEF Defer, ProbeTypes, childVars, procVars
  <1> QED BY <1>1, <1>2, <1>3, <1>4, <1>5, <1>6, <1>7, <1>8, <1>9, <1>10, <1>11, <1>12 DEF RunStep

LEMMA RunAttended ==
    ASSUME ProbeTypes, Attended, RunStep
    PROVE  Attended'
  <1>. USE ProbeAssumption DEF ProbeTypes
  <1>1. CASE Tick
    BY <1>1 DEF Tick, WaitEnds, Attended, childVars, procVars
  <1>2. CASE StartFails
    BY <1>2 DEF StartFails, Attended, childVars
  <1>3. CASE StartTimesOut
    BY <1>3 DEF StartTimesOut, Stop, Attended, procVars
  <1>4. CASE LoopEnds
    BY <1>4 DEF LoopEnds, Attended, childVars, procVars
  <1>5. CASE LoopReads
    <2>1. (pc' = "kill" /\ status' # "Success") \/ (pc' = "wait" /\ now < Timeout)
      BY <1>5 DEF LoopReads, Stop
    <2>2. pc = "head" /\ qstate # "NotRunning" /\ UNCHANGED <<childVars, qstate, killed, now, until, deferred>>
      BY <1>5 DEF LoopReads
    <2>3. UNCHANGED <<child, unwritten, pipe, qstate, now, deferred>>
      BY <2>2 DEF childVars
    <2> QED BY <2>1, <2>2, <2>3 DEF Attended
  <1>6. CASE Ready
    BY <1>6 DEF Ready, Attended
  <1>7. CASE Ended
    BY <1>7 DEF Ended, Attended
  <1>8. CASE WaitTimesOut \/ WaitFails
    BY <1>8 DEF WaitTimesOut, WaitFails, Stop, Attended, childVars, procVars
  <1>9. CASE Judge
    BY <1>9 DEF Judge, Attended, childVars
  <1>10. CASE Kill
    BY <1>10 DEF Kill, Attended, childVars
  <1>11. CASE Reap
    BY <1>11 DEF Reap, Attended, childVars
  <1>12. CASE Defer
    BY <1>12 DEF Defer, Attended, childVars, procVars
  <1> QED BY <1>1, <1>2, <1>3, <1>4, <1>5, <1>6, <1>7, <1>8, <1>9, <1>10, <1>11, <1>12 DEF RunStep

LEMMA CallAttended ==
    ASSUME ProbeTypes, Attended, Start \/ ProbeReturns
    PROVE  ProbeTypes' /\ Attended'
  <1>0. 0 \in 0 .. Timeout + Grace /\ 0 <= Timeout /\ 0 <= Limit
    BY ProbeAssumption
  <1>1. CASE Start
    <2>1. ProbeTypes'
      BY <1>0, <1>1, EmptyLines DEF Start, ProbeTypes, childVars
    <2>2. Attended'
      BY <1>0, <1>1 DEF Start, Attended, childVars
    <2> QED BY <2>1, <2>2
  <1>2. CASE ProbeReturns
    <2>1. ProbeTypes'
      BY <1>0, <1>2, EmptyLines DEF ProbeReturns, ProbeTypes
    <2>2. Attended'
      BY <1>0, <1>2 DEF ProbeReturns, Attended
    <2> QED BY <2>1, <2>2
  <1> QED BY <1>1, <1>2

LEMMA StartedAttended ==
    ASSUME ProbeTypes, Attended, NEW lines \in Seq(Lines), Started(lines)
    PROVE  ProbeTypes' /\ Attended'
  BY EmptyLines DEF Started, ProbeTypes, Attended

-----------------------------------------------------------------------------
(* What the probe does to the lines that are on their way.                  *)

LEMMA ChildStream ==
    ASSUME ProbeTypes, ChildStep
    PROVE  /\ Stream' = Stream /\ UNCHANGED <<pc, status, output>>
           /\ child' \in {child, "succeeded", "failed"} /\ child = "running"
  <1>1. CASE ChildWrites
    <2>1. ToSet(pipe') \cup ToSet(unwritten') = ToSet(pipe) \cup ToSet(unwritten)
      BY <1>1, LineMoves DEF ChildWrites, ProbeTypes
    <2>2. output' = output /\ fetched' = fetched
      BY <1>1 DEF ChildWrites, procVars, runVars
    <2>3. Stream' = Stream
      BY <2>1, <2>2 DEF Stream
    <2> QED BY <1>1, <2>3 DEF ChildWrites, runVars
  <1>2. CASE ChildSucceeds \/ ChildFails
    BY <1>2 DEF ChildSucceeds, ChildFails, Stream, procVars, runVars
  <1> QED BY <1>1, <1>2 DEF ChildStep

LEMMA RunStream ==
    ASSUME ProbeTypes, RunStep
    PROVE  /\ Stream' \subseteq Stream
           /\ pc' \in {"head", "wait", "final"} =>
                  /\ Stream' = Stream /\ child' = child /\ pc \in {"head", "wait", "final"}
           /\ pc # "idle" /\ pc' # "idle"
  <1>1. CASE Tick
    <2>1. UNCHANGED <<child, unwritten, pipe, fetched, output, pc>>
      BY <1>1 DEF Tick, childVars, procVars
    <2> QED BY <1>1, <2>1 DEF Tick, Stream
  <1>2. CASE StartFails
    BY <1>2 DEF StartFails, Stream, childVars
  <1>3. CASE StartTimesOut
    BY <1>3, EmptyLines DEF StartTimesOut, Stop, Stream, procVars
  <1>4. CASE LoopEnds
    BY <1>4 DEF LoopEnds, Stream, childVars, procVars
  <1>5. CASE LoopReads
    <2>1. ToSet(output') \cup ToSet(fetched') = ToSet(output) \cup ToSet(fetched)
      <3>1. UNCHANGED <<output, fetched>> \/ (output' = output \o fetched /\ fetched' = <<>>)
        BY <1>5 DEF LoopReads, Appended
      <3>2. ToSet(output \o fetched) = ToSet(output) \cup ToSet(fetched)
        BY LinesRead DEF ProbeTypes
      <3> QED BY <3>1, <3>2, EmptyLines
    <2>2. UNCHANGED <<child, unwritten, pipe>>
      BY <1>5 DEF LoopReads, childVars
    <2>3. Stream' = Stream
      BY <2>1, <2>2 DEF Stream
    <2> QED BY <1>5, <2>2, <2>3 DEF LoopReads, Stop
  <1>6. CASE Ready \/ Ended
    <2>1. ToSet(fetched') \cup ToSet(pipe') = ToSet(fetched) \cup ToSet(pipe)
      <3>1. fetched' = fetched \o pipe /\ pipe' = <<>>
        BY <1>6 DEF Ready, Ended
      <3>2. ToSet(fetched \o pipe) = ToSet(fetched) \cup ToSet(pipe)
        BY LinesRead DEF ProbeTypes
      <3> QED BY <3>1, <3>2, EmptyLines
    <2>2. UNCHANGED <<child, unwritten, output>>
      BY <1>6 DEF Ready, Ended
    <2>3. Stream' = Stream
      BY <2>1, <2>2 DEF Stream
    <2> QED BY <1>6, <2>2, <2>3 DEF Ready, Ended
  <1>7. CASE WaitTimesOut \/ WaitFails
    BY <1>7 DEF WaitTimesOut, WaitFails, Stop, Stream, childVars, procVars
  <1>8. CASE Judge
    <2>1. ToSet(output') \cup ToSet(fetched') = ToSet(output) \cup ToSet(fetched)
      <3>1. UNCHANGED <<output, fetched>> \/ (output' = output \o fetched /\ fetched' = <<>>)
        BY <1>8 DEF Judge, Whole
      <3>2. ToSet(output \o fetched) = ToSet(output) \cup ToSet(fetched)
        BY LinesRead DEF ProbeTypes
      <3> QED BY <3>1, <3>2, EmptyLines
    <2>2. UNCHANGED <<child, unwritten, pipe>>
      BY <1>8 DEF Judge, childVars
    <2>3. Stream' = Stream
      BY <2>1, <2>2 DEF Stream
    <2> QED BY <1>8, <2>2, <2>3 DEF Judge
  <1>9. CASE Kill \/ Reap
    BY <1>9 DEF Kill, Reap, Stream, childVars
  <1>10. CASE Defer
    BY <1>10 DEF Defer, Stream, childVars, procVars
  <1> QED BY <1>1, <1>2, <1>3, <1>4, <1>5, <1>6, <1>7, <1>8, <1>9, <1>10 DEF RunStep

\* A probe succeeds only with all that its program wrote.
LEMMA SuccessIsWhole ==
    ASSUME ProbeTypes, Attended, RunStep, pc' = "done", status' = "Success"
    PROVE  pc = "final" /\ child = "succeeded" /\ Stream \subseteq ToSet(output')
  <1>1. Judge /\ status' = "Success"
    <2>1. ~StartFails
      BY DEF StartFails
    <2>2. ~(Reap \/ Defer)
      BY DEF Reap, Defer, Attended
    <2>3. ~(Tick \/ StartTimesOut \/ LoopEnds \/ LoopReads \/ Ready \/ Ended \/ WaitTimesOut \/ WaitFails \/ Kill)
      BY DEF Tick, StartTimesOut, LoopEnds, LoopReads, Ready, Ended, WaitTimesOut, WaitFails, Kill, Stop
    <2> QED BY <2>1, <2>2, <2>3 DEF RunStep
  <1>2. pc = "final" /\ child = "succeeded" /\ output' = output \o fetched
    BY <1>1 DEF Judge, Whole
  <1>3. unwritten = <<>> /\ pipe = <<>>
    BY <1>2 DEF Attended
  <1>4. ToSet(output') = ToSet(output) \cup ToSet(fetched)
    BY <1>2, LinesRead DEF ProbeTypes
  <1> QED BY <1>2, <1>3, <1>4, EmptyLines DEF Stream

-----------------------------------------------------------------------------
(* The scan.                                                                *)

LEMMA ThereTypes == ASSUME ScannerAssumption, ScanTypes PROVE There \in Findings
  <1>1. There.native \subseteq Programs
    BY DEF ScanTypes, There
  <1>2. There.flatpak \subseteq Refs
    BY DEF ScanTypes, There
  <1>3. There.snap \subseteq {"snap"}
    BY DEF There
  <1> QED BY <1>1, <1>2, <1>3 DEF Findings, There

\* What the machine changes takes nothing from what was seen and adds nothing to
\* what was there all the time.
LEMMA MachineMoves ==
    ASSUME ScannerAssumption, ScanTypes, Machine
    PROVE  /\ ScanTypes' /\ UNCHANGED <<probeVars, scanVars>>
           /\ always'.native \subseteq always.native /\ ever.native \subseteq ever'.native
           /\ always'.flatpak \subseteq always.flatpak /\ ever.flatpak \subseteq ever'.flatpak
           /\ always'.snap \subseteq always.snap /\ ever.snap \subseteq ever'.snap
           /\ at # "idle" =>
                  /\ always'.native \subseteq There'.native /\ There'.native \subseteq ever'.native
                  /\ always'.flatpak \subseteq There'.flatpak /\ There'.flatpak \subseteq ever'.flatpak
                  /\ always'.snap \subseteq There'.snap /\ There'.snap \subseteq ever'.snap
  <1>. DEFINE MachineTypes ==
                  /\ onPath \in [PathEntries -> Programs \cup {NoProgram}] /\ flatpak \in BOOLEAN
                  /\ installed \subseteq Refs /\ launcher \in {"absent", "dangling", "plain", "program"}
  <1>1. Changed
    BY DEF Machine, ChangePath, ChangeFlatpak, ChangeInstalled, ChangeLauncher
  <1>2. UNCHANGED <<probeVars, scanVars>>
    BY <1>1 DEF Changed
  <1>3. MachineTypes'
    <2>1. ASSUME NEW e \in PathEntries, NEW p \in Programs \cup {NoProgram}, ChangePath(e, p)
          PROVE  MachineTypes'
      BY <2>1 DEF ChangePath, ScanTypes
    <2>2. CASE ChangeFlatpak
      BY <2>2 DEF ChangeFlatpak, ScanTypes
    <2>3. ASSUME NEW r \in Refs, ChangeInstalled(r) PROVE MachineTypes'
      BY <2>3 DEF ChangeInstalled, ScanTypes
    <2>4. ASSUME NEW l \in {"absent", "dangling", "plain", "program"}, ChangeLauncher(l) PROVE MachineTypes'
      BY <2>4 DEF ChangeLauncher, ScanTypes
    <2> QED BY <2>1, <2>2, <2>3, <2>4 DEF Machine
  <1>4. There' \in Findings
    <2>1. There'.native \subseteq Programs
      BY <1>3 DEF There
    <2>2. There'.flatpak \subseteq Refs
      BY <1>3 DEF There
    <2>3. There'.snap \subseteq {"snap"}
      BY DEF There
    <2> QED BY <2>1, <2>2, <2>3 DEF Findings, There
  <1>5. always \in Findings /\ ever \in Findings
    BY DEF ScanTypes
  <1>6. CASE at = "idle"
    <2>1. UNCHANGED <<changes, always, ever>>
      BY <1>1, <1>6 DEF Changed
    <2>2. ScanTypes'
      BY <1>2, <1>3, <2>1 DEF ScanTypes, scanVars
    <2> QED BY <1>2, <1>6, <2>1, <2>2
  <1>7. CASE at # "idle"
    <2>1. /\ changes < MaxChanges /\ changes' = changes + 1
          /\ always' = [k \in DOMAIN always |-> always[k] \cap There'[k]]
          /\ ever' = [k \in DOMAIN ever |-> ever[k] \cup There'[k]]
      BY <1>1, <1>7 DEF Changed
    <2>2. DOMAIN always = {"native", "flatpak", "snap"} /\ DOMAIN ever = {"native", "flatpak", "snap"}
      BY <1>5 DEF Findings
    <2>3. /\ always'.native = always.native \cap There'.native
          /\ always'.flatpak = always.flatpak \cap There'.flatpak
          /\ always'.snap = always.snap \cap There'.snap
      BY <2>1, <2>2
    <2>4. /\ ever'.native = ever.native \cup There'.native
          /\ ever'.flatpak = ever.flatpak \cup There'.flatpak
          /\ ever'.snap = ever.snap \cup There'.snap
      BY <2>1, <2>2
    <2>5. always' \in Findings
      <3>1. always' = [native |-> always'.native, flatpak |-> always'.flatpak, snap |-> always'.snap]
        BY <2>1, <2>2
      <3>2. always'.native \subseteq Programs /\ always'.flatpak \subseteq Refs /\ always'.snap \subseteq {"snap"}
        BY <1>5, <2>3 DEF Findings
      <3> QED BY <3>1, <3>2 DEF Findings
    <2>6. ever' \in Findings
      <3>1. ever' = [native |-> ever'.native, flatpak |-> ever'.flatpak, snap |-> ever'.snap]
        BY <2>1, <2>2
      <3>2. ever'.native \subseteq Programs
        BY <1>4, <1>5, <2>4 DEF Findings
      <3>3. ever'.flatpak \subseteq Refs
        BY <1>4, <1>5, <2>4 DEF Findings
      <3>4. ever'.snap \subseteq {"snap"}
        BY <1>4, <1>5, <2>4 DEF Findings
      <3> QED BY <3>1, <3>2, <3>3, <3>4 DEF Findings
    <2>7. changes' \in 0 .. MaxChanges
      BY <2>1 DEF ScanTypes, ScannerAssumption
    <2>8. ScanTypes'
      BY <1>2, <1>3, <2>5, <2>6, <2>7 DEF ScanTypes, scanVars
    <2> QED BY <1>2, <2>3, <2>4, <2>8
  <1> QED BY <1>6, <1>7

LEMMA MachineStep ==
    ASSUME ScannerAssumption, ScannerInvariant, Machine
    PROVE  ScannerInvariant'
  <1>. USE DEF ScannerInvariant
  <1>1. /\ ScanTypes' /\ UNCHANGED <<probeVars, scanVars>>
        /\ always'.native \subseteq always.native /\ ever.native \subseteq ever'.native
        /\ always'.flatpak \subseteq always.flatpak /\ ever.flatpak \subseteq ever'.flatpak
        /\ always'.snap \subseteq always.snap /\ ever.snap \subseteq ever'.snap
        /\ at # "idle" =>
               /\ always'.native \subseteq There'.native /\ There'.native \subseteq ever'.native
               /\ always'.flatpak \subseteq There'.flatpak /\ There'.flatpak \subseteq ever'.flatpak
               /\ always'.snap \subseteq There'.snap /\ There'.snap \subseteq ever'.snap
    BY MachineMoves
  <1>2. UNCHANGED <<child, unwritten, pipe, qstate, fetched, killed>>
    BY <1>1 DEF probeVars, childVars, procVars
  <1>3. UNCHANGED <<pc, now, until, output, status, deferred, at, launcherFound, result>>
    BY <1>1 DEF probeVars, runVars, scanVars
  <1>4. ProbeTypes'
    BY <1>2, <1>3 DEF ProbeTypes
  <1>5. Attended'
    BY <1>2, <1>3 DEF Attended
  <1>6. Stream' = Stream
    BY <1>2, <1>3 DEF Stream
  <1>7. Listing'
    BY <1>1, <1>2, <1>3, <1>6 DEF Listing
  <1>8. Witnessed'
    BY <1>1, <1>3 DEF Witnessed
  <1> QED BY <1>1, <1>4, <1>5, <1>7, <1>8

\* Nothing that only the probe does changes what the scan has found.
LEMMA ScanUntouched ==
    ASSUME ScanTypes, Witnessed, UNCHANGED <<machineVars, scanVars, always, ever>>
    PROVE  ScanTypes' /\ Witnessed'
  <1>1. UNCHANGED <<onPath, flatpak, installed, launcher, changes>>
    BY DEF machineVars
  <1>2. UNCHANGED <<at, launcherFound, result, always, ever>>
    BY DEF scanVars
  <1>3. There' = There
    BY <1>1 DEF There
  <1>4. ScanTypes'
    BY <1>1, <1>2 DEF ScanTypes
  <1>5. Witnessed'
    BY <1>2, <1>3 DEF Witnessed
  <1> QED BY <1>4, <1>5

LEMMA ProbeStep ==
    ASSUME ProbeAssumption, ScannerInvariant, Flatpak \/ (at = "probe" /\ RunStep /\ UNCHANGED <<machineVars, scanVars, always, ever>>)
    PROVE  ScannerInvariant'
  <1>. USE DEF ScannerInvariant
  <1>1. UNCHANGED <<machineVars, scanVars, always, ever>> /\ at = "probe"
    BY DEF Flatpak
  <1>2. UNCHANGED <<at, always, ever>>
    BY <1>1 DEF scanVars
  <1>3. ScanTypes' /\ Witnessed'
    BY <1>1, ScanUntouched
  <1>4. CASE Flatpak
    <2>1. ChildStep
      BY <1>4 DEF Flatpak
    <2>2. ProbeTypes' /\ Attended'
      BY <2>1, ChildAttended
    <2>3. /\ Stream' = Stream /\ UNCHANGED <<pc, status, output>>
          /\ child' \in {child, "succeeded", "failed"} /\ child = "running"
      BY <2>1, ChildStream
    <2>4. Listing'
      BY <1>2, <2>3 DEF Listing
    <2> QED BY <1>3, <2>2, <2>4
  <1>5. CASE RunStep
    <2>1. ProbeTypes' /\ Attended'
      BY <1>5, RunTypes, RunAttended
    <2>2. /\ Stream' \subseteq Stream
          /\ pc' \in {"head", "wait", "final"} =>
                 /\ Stream' = Stream /\ child' = child /\ pc \in {"head", "wait", "final"}
          /\ pc # "idle" /\ pc' # "idle"
      BY <1>5, RunStream
    <2>3. ASSUME pc' = "done", status' = "Success"
          PROVE  pc = "final" /\ child = "succeeded" /\ Stream \subseteq ToSet(output')
      BY <1>5, <2>3, SuccessIsWhole
    <2>4. always'.flatpak \subseteq ToSet(output') \/ ~(pc' = "done" /\ status' = "Success")
      BY <1>2, <2>3 DEF Listing
    <2>5. Listing'
      BY <1>1, <1>2, <2>2, <2>4 DEF Listing
    <2> QED BY <1>3, <2>1, <2>5
  <1> QED BY <1>4, <1>5

\* flatpak prints every installation, and no line about Remmina that is not about one.
LEMMA FlatpakStartsStep ==
    ASSUME ProbeAssumption, ScannerAssumption, ScannerInvariant, FlatpakStarts
    PROVE  ScannerInvariant'
  <1>. USE DEF ScannerInvariant
  <1>1. PICK lines \in Listings(installed) : Started(lines)
    BY DEF FlatpakStarts
  <1>2. at = "probe" /\ flatpak /\ UNCHANGED <<machineVars, scanVars, always, ever>>
    BY DEF FlatpakStarts
  <1>3. lines \in Seq(installed \cup {Other}) /\ installed \subseteq ToSet(lines)
    BY <1>1 DEF Listings, BoundedSeq, SeqOf
  <1>4. ToSet(lines) \subseteq installed \cup {Other}
    BY <1>3, LinesType
  <1>5. lines \in Seq(Lines)
    <2>1. installed \cup {Other} \subseteq Lines
      BY DEF ScanTypes, Lines
    <2> QED BY <1>3, <2>1
  <1>6. ProbeTypes' /\ Attended'
    BY <1>1, <1>5, StartedAttended
  <1>7. ScanTypes' /\ Witnessed'
    BY <1>2, ScanUntouched
  <1>8. /\ pc' = "head" /\ unwritten' = lines /\ pipe' = <<>> /\ fetched' = <<>> /\ output' = <<>>
        /\ pc = "start"
    BY <1>1 DEF Started, Attended
  <1>9. Stream' = ToSet(lines)
    BY <1>8, EmptyLines DEF Stream
  <1>10. UNCHANGED <<at, always, ever>>
    BY <1>2 DEF scanVars
  <1>11. There.flatpak = installed
    BY <1>2 DEF There
  <1>12. always.flatpak \subseteq installed /\ installed \subseteq ever.flatpak
    BY <1>2, <1>11 DEF Witnessed
  <1>13. Listing'
    BY <1>2, <1>3, <1>4, <1>8, <1>9, <1>10, <1>12 DEF Listing
  <1> QED BY <1>6, <1>7, <1>13

\* The first entry of PATH with a program makes the instance: none is left out.
LEMMA NativesAreThere ==
    ASSUME ScannerAssumption, ScanTypes
    PROVE  /\ {<<e, onPath[e]>> : e \in Natives} \subseteq PathEntries \X Programs
           /\ {n[2] : n \in {<<e, onPath[e]>> : e \in Natives}} = There.native
  <1>1. There.native = {onPath[e] : e \in PathEntries} \ (SnapPrograms \cup {NoProgram})
    BY DEF There
  <1>2. \A e \in Natives : e \in PathEntries /\ onPath[e] \in There.native /\ onPath[e] \in Programs
    BY <1>1 DEF Natives, ScanTypes
  <1>3. ASSUME NEW p \in There.native
        PROVE  \E e \in Natives : onPath[e] = p
    <2>. DEFINE E == {e \in PathEntries : onPath[e] = p}
    <2>1. E # {} /\ E \in SUBSET Nat
      BY <1>1, <1>3 DEF ScannerAssumption
    <2>2. PICK e \in E : \A f \in E : ~(f < e)
      BY <2>1, LeastNumber
    <2>3. e \in Natives
      <3>1. e \in PathEntries /\ onPath[e] = p /\ p \notin SnapPrograms \cup {NoProgram}
        BY <1>1, <1>3, <2>2
      <3>2. \A d \in PathEntries : d < e => onPath[d] # p
        BY <2>2
      <3> QED BY <3>1, <3>2 DEF Natives
    <2> QED BY <2>2, <2>3
  <1>4. {<<e, onPath[e]>> : e \in Natives} \subseteq PathEntries \X Programs
    BY <1>2
  <1>5. \A n \in {<<e, onPath[e]>> : e \in Natives} : n[2] \in There.native
    BY <1>2
  <1>6. ASSUME NEW p \in There.native
        PROVE  \E n \in {<<e, onPath[e]>> : e \in Natives} : n[2] = p
    <2>1. PICK e \in Natives : onPath[e] = p
      BY <1>3
    <2>2. <<e, onPath[e]>> \in {<<d, onPath[d]>> : d \in Natives} /\ <<e, onPath[e]>>[2] = p
      BY <2>1
    <2> QED BY <2>2
  <1> QED BY <1>4, <1>5, <1>6

LEMMA ScanNativeStep ==
    ASSUME ScannerAssumption, ScannerInvariant, ScanNative
    PROVE  ScannerInvariant'
  <1>. USE DEF ScannerInvariant
  <1>1. UNCHANGED <<probeVars, machineVars>> /\ at = "idle" /\ at' = "flatpak"
    BY DEF ScanNative
  <1>2. always' = There /\ ever' = There /\ There' = There
    BY <1>1 DEF ScanNative, There, machineVars
  <1>3. There \in Findings
    BY ThereTypes
  <1>. DEFINE found == {<<e, onPath[e]>> : e \in Natives}
  <1>4. found \subseteq PathEntries \X Programs /\ {n[2] : n \in found} = There.native
    BY NativesAreThere
  <1>. HIDE DEF found
  <1>5. result' = [kind |-> "none", native |-> found, flatpak |-> <<>>, snap |-> FALSE, failed |-> {}]
    BY DEF ScanNative, NoResult, found
  <1>6. result' \in Results
    BY <1>4, <1>5, EmptyLines DEF Results
  <1>7. UNCHANGED <<onPath, flatpak, installed, launcher, changes>> /\ launcherFound' \in BOOLEAN
    BY <1>1 DEF ScanNative, machineVars
  <1>8. ScanTypes'
    BY <1>1, <1>2, <1>3, <1>6, <1>7 DEF ScanTypes
  <1>9. UNCHANGED <<child, unwritten, pipe, qstate, fetched, killed>>
    BY <1>1 DEF probeVars, childVars, procVars
  <1>10. UNCHANGED <<pc, now, until, output, status, deferred>>
    BY <1>1 DEF probeVars, runVars
  <1>11. ProbeTypes' /\ Attended'
    BY <1>9, <1>10 DEF ProbeTypes, Attended
  <1>12. pc = "idle" /\ Stream' = {}
    BY <1>1, <1>9, <1>10, EmptyLines DEF Listing, Attended, Stream
  <1>13. Listing'
    BY <1>1, <1>10, <1>12 DEF Listing
  <1>14. Witnessed'
    BY <1>1, <1>2, <1>4, <1>5 DEF Witnessed
  <1> QED BY <1>8, <1>11, <1>13, <1>14

LEMMA SkipFlatpakStep ==
    ASSUME ScannerInvariant, SkipFlatpak
    PROVE  ScannerInvariant'
  <1>. USE DEF ScannerInvariant
  <1>1. at = "flatpak" /\ ~flatpak /\ at' = "snap" /\ UNCHANGED <<probeVars, machineVars, launcherFound, result, always, ever>>
    BY DEF SkipFlatpak
  <1>2. UNCHANGED <<onPath, flatpak, installed, launcher, changes>>
    BY <1>1 DEF machineVars
  <1>3. There' = There /\ There.flatpak = {}
    BY <1>1, <1>2 DEF There
  <1>4. UNCHANGED <<child, unwritten, pipe, qstate, fetched, killed>>
    BY <1>1 DEF probeVars, childVars, procVars
  <1>5. UNCHANGED <<pc, now, until, output, status, deferred>>
    BY <1>1 DEF probeVars, runVars
  <1>6. ProbeTypes' /\ Attended'
    BY <1>4, <1>5 DEF ProbeTypes, Attended
  <1>7. ScanTypes'
    BY <1>1, <1>2 DEF ScanTypes
  <1>8. pc = "idle" /\ Stream' = {}
    BY <1>1, <1>4, <1>5, EmptyLines DEF Listing, Attended, Stream
  <1>9. Listing'
    BY <1>1, <1>5, <1>8 DEF Listing
  <1>10. always.flatpak = {} /\ result.flatpak = <<>> /\ result.kind = "none"
    BY <1>1, <1>3 DEF Witnessed
  <1>11. Witnessed'
    BY <1>1, <1>3, <1>10, EmptyLines DEF Witnessed
  <1> QED BY <1>6, <1>7, <1>9, <1>11

LEMMA AskFlatpakStep ==
    ASSUME ProbeAssumption, ScannerInvariant, AskFlatpak
    PROVE  ScannerInvariant'
  <1>. USE DEF ScannerInvariant
  <1>1. /\ at = "flatpak" /\ at' = "probe" /\ Start
        /\ UNCHANGED <<machineVars, launcherFound, result, always, ever>>
    BY DEF AskFlatpak
  <1>2. ProbeTypes' /\ Attended'
    BY <1>1, CallAttended
  <1>3. UNCHANGED <<onPath, flatpak, installed, launcher, changes>>
    BY <1>1 DEF machineVars
  <1>4. There' = There
    BY <1>3 DEF There
  <1>5. ScanTypes'
    BY <1>1, <1>3 DEF ScanTypes
  <1>6. pc' = "start"
    BY <1>1 DEF Start
  <1>7. Stream' = {}
    BY <1>2, <1>6, EmptyLines DEF Attended, Stream
  <1>8. Listing'
    BY <1>1, <1>6, <1>7 DEF Listing
  <1>9. Witnessed'
    BY <1>1, <1>4 DEF Witnessed
  <1> QED BY <1>2, <1>5, <1>8, <1>9

\* A list that has been taken is all that flatpak printed about Remmina.
LEMMA TakeAnswerStep ==
    ASSUME ProbeAssumption, ScannerAssumption, ScannerInvariant, TakeAnswer
    PROVE  ScannerInvariant'
  <1>. USE DEF ScannerInvariant
  <1>1. /\ at = "probe" /\ at' = "snap" /\ ProbeReturns /\ result' = Listed
        /\ UNCHANGED <<machineVars, launcherFound, always, ever>>
    BY DEF TakeAnswer
  <1>2. ProbeTypes' /\ Attended'
    BY <1>1, CallAttended
  <1>3. UNCHANGED <<onPath, flatpak, installed, launcher, changes>>
    BY <1>1 DEF machineVars
  <1>4. There' = There
    BY <1>3 DEF There
  <1>5. pc = "done" /\ pc' = "idle"
    BY <1>1 DEF ProbeReturns
  <1>6. Stream' = {}
    BY <1>2, <1>5, EmptyLines DEF Attended, Stream
  <1>7. Listing'
    BY <1>1, <1>5, <1>6 DEF Listing
  <1>8. result \in Results
    BY DEF ScanTypes
  <1>9. always.flatpak \subseteq Refs /\ ToSet(output) \subseteq Refs \cup {Other}
    BY LinesType DEF ScanTypes, Findings, ProbeTypes, Lines
  <1>10. ToSet(output) \subseteq ever.flatpak \cup {Other}
    BY <1>1 DEF Listing, Stream
  <1>11. CASE status = "Success"
    <2>. DEFINE S == ToSet(output) \ {Other}
    <2>1. S \in SUBSET Refs /\ S \in SUBSET Nat /\ IsFiniteSet(S)
      BY <1>9, FS_Subset DEF ScannerAssumption
    <2>2. Sorted(S) \in Seq(S) /\ ToSet(Sorted(S)) = S
      BY <2>1, SortedIsExact
    <2>3. result' = [result EXCEPT !.flatpak = Sorted(S)]
      BY <1>1, <1>11 DEF Listed, Parsed
    <2>. HIDE DEF S
    <2>4. Sorted(S) \in Seq(Refs)
      <3>1. S \subseteq Refs
        BY <2>1
      <3> QED BY <2>2, <3>1, LinesWiden
    <2>5. result' = [kind |-> result.kind, native |-> result.native, flatpak |-> Sorted(S),
                     snap |-> result.snap, failed |-> result.failed]
      BY <1>8, <2>3 DEF Results
    <2>6. result' \in Results
      BY <1>8, <2>4, <2>5 DEF Results
    <2>7. ScanTypes'
      BY <1>1, <1>3, <2>6 DEF ScanTypes
    <2>8. always.flatpak \subseteq S
      <3>1. always.flatpak \subseteq ToSet(output)
        BY <1>5, <1>11 DEF Listing
      <3> QED BY <1>9, <3>1 DEF S, ScannerAssumption
    <2>9. S \subseteq ever.flatpak
      BY <1>10 DEF S
    <2>10. Witnessed'
      BY <1>1, <1>4, <2>2, <2>5, <2>8, <2>9 DEF Witnessed
    <2> QED BY <1>2, <1>7, <2>7, <2>10
  <1>12. CASE status # "Success"
    <2>1. result' = [result EXCEPT !.failed = result.failed \cup {"flatpak"}]
      BY <1>1, <1>12 DEF Listed
    <2>2. result' = [kind |-> result.kind, native |-> result.native, flatpak |-> result.flatpak,
                     snap |-> result.snap, failed |-> result.failed \cup {"flatpak"}]
      BY <1>8, <2>1 DEF Results
    <2>3. result' \in Results
      BY <1>8, <2>2 DEF Results
    <2>4. ScanTypes'
      BY <1>1, <1>3, <2>3 DEF ScanTypes
    <2>5. result.flatpak = <<>>
      BY <1>1 DEF Witnessed
    <2>6. Witnessed'
      BY <1>1, <1>4, <2>2, <2>5, EmptyLines DEF Witnessed
    <2> QED BY <1>2, <1>7, <2>4, <2>6
  <1> QED BY <1>11, <1>12

LEMMA ScanSnapStep ==
    ASSUME ScannerAssumption, ScannerInvariant, ScanSnap
    PROVE  ScannerInvariant'
  <1>. USE DEF ScannerInvariant
  <1>. DEFINE snap == launcherFound /\ launcher = "program"
              missed == IF ~launcherFound /\ launcher # "absent" THEN {"snap"} ELSE {}
  <1>1. /\ at = "snap" /\ at' = "idle" /\ changes' = 0
        /\ UNCHANGED <<probeVars, onPath, flatpak, installed, launcher, launcherFound, always, ever>>
    BY DEF ScanSnap
  <1>2. result \in Results
    BY DEF ScanTypes
  <1>3. result' = [kind |-> "scan", native |-> result.native, flatpak |-> result.flatpak,
                   snap |-> snap, failed |-> result.failed \cup missed]
    BY <1>2 DEF ScanSnap, Results
  <1>4. snap \in BOOLEAN /\ missed \subseteq {"snap"}
    BY DEF ScanTypes
  <1>5. always.snap = {} \/ snap \/ "snap" \in missed
    <2>1. always.snap \subseteq There.snap
      BY <1>1 DEF Witnessed
    <2>2. There.snap # {} => launcher = "program"
      BY DEF There
    <2> QED BY <2>1, <2>2 DEF ScanTypes
  <1>6. snap => ever.snap # {}
    <2>1. There.snap \subseteq ever.snap
      BY <1>1 DEF Witnessed
    <2>2. launcher = "program" => There.snap = {"snap"}
      BY DEF There
    <2> QED BY <2>1, <2>2
  <1>. HIDE DEF snap, missed
  <1>7. result' \in Results
    BY <1>2, <1>3, <1>4 DEF Results
  <1>8. changes' \in 0 .. MaxChanges
    BY <1>1 DEF ScannerAssumption
  <1>9. ScanTypes'
    BY <1>1, <1>7, <1>8 DEF ScanTypes
  <1>10. UNCHANGED <<child, unwritten, pipe, qstate, fetched, killed>>
    BY <1>1 DEF probeVars, childVars, procVars
  <1>11. UNCHANGED <<pc, now, until, output, status, deferred>>
    BY <1>1 DEF probeVars, runVars
  <1>12. ProbeTypes' /\ Attended'
    BY <1>10, <1>11 DEF ProbeTypes, Attended
  <1>13. pc = "idle"
    BY <1>1 DEF Listing
  <1>14. Listing'
    BY <1>1, <1>11, <1>13 DEF Listing
  <1>15. Witnessed'
    BY <1>1, <1>3, <1>5, <1>6 DEF Witnessed
  <1> QED BY <1>9, <1>12, <1>14, <1>15

LEMMA ScannerInit ==
    ASSUME ProbeAssumption, ScannerAssumption, Init
    PROVE  ScannerInvariant
  <1>1. ProbeInit
    BY DEF Init
  <1>0. /\ 0 \in 0 .. Timeout + Grace /\ 0 <= Timeout /\ 0 <= Limit
        /\ 0 \in 0 .. MaxChanges
    BY DEF ProbeAssumption, ScannerAssumption
  <1>2. ProbeTypes
    BY <1>0, <1>1, EmptyLines DEF ProbeInit, ProbeTypes
  <1>3. Attended
    BY <1>0, <1>1 DEF ProbeInit, Attended
  <1>4. result \in Results /\ always \in Findings /\ ever \in Findings
    BY EmptyLines DEF Init, NoResult, Nothing, Results, Findings
  <1>5. ScanTypes
    <2>1. at \in {"idle", "flatpak", "probe", "snap"} /\ launcherFound \in BOOLEAN /\ changes \in 0 .. MaxChanges
      BY <1>0 DEF Init
    <2>2. onPath \in [PathEntries -> Programs \cup {NoProgram}] /\ flatpak \in BOOLEAN /\ installed \subseteq Refs
      BY DEF Init
    <2>3. launcher \in {"absent", "dangling", "plain", "program"}
      BY DEF Init
    <2> QED BY <1>4, <2>1, <2>2, <2>3 DEF ScanTypes
  <1>6. Listing
    BY <1>1 DEF ProbeInit, Init, Listing
  <1>7. Witnessed
    BY DEF Init, NoResult, Witnessed
  <1> QED BY <1>2, <1>3, <1>5, <1>6, <1>7 DEF ScannerInvariant

LEMMA ScannerStep ==
    ASSUME ProbeAssumption, ScannerAssumption, ScannerInvariant, [Next]_vars
    PROVE  ScannerInvariant'
  <1>1. CASE Machine
    BY <1>1, MachineStep
  <1>2. CASE ScanNative
    BY <1>2, ScanNativeStep
  <1>3. CASE FlatpakStarts
    BY <1>3, FlatpakStartsStep
  <1>4. CASE Flatpak
    BY <1>4, ProbeStep
  <1>5. CASE ScanStep
    BY <1>5, SkipFlatpakStep, AskFlatpakStep, TakeAnswerStep, ScanSnapStep, ProbeStep DEF ScanStep
  <1>6. CASE UNCHANGED vars
    <2>1. UNCHANGED <<probeVars, machineVars, scanVars, always, ever>>
      BY <1>6 DEF vars
    <2>2. UNCHANGED <<child, unwritten, pipe, qstate, fetched, killed>>
      BY <2>1 DEF probeVars, childVars, procVars
    <2>3. UNCHANGED <<pc, now, until, output, status, deferred>>
      BY <2>1 DEF probeVars, runVars
    <2>4. ScanTypes' /\ Witnessed'
      BY <2>1, ScanUntouched DEF ScannerInvariant
    <2>5. ProbeTypes' /\ Attended'
      BY <2>2, <2>3 DEF ScannerInvariant, ProbeTypes, Attended
    <2>6. Stream' = Stream
      BY <2>2, <2>3 DEF Stream
    <2>7. Listing'
      BY <2>1, <2>2, <2>3, <2>6 DEF ScannerInvariant, Listing, scanVars
    <2> QED BY <2>4, <2>5, <2>7 DEF ScannerInvariant
  <1> QED BY <1>1, <1>2, <1>3, <1>4, <1>5, <1>6 DEF Next

-----------------------------------------------------------------------------
(* Theorems                                                                 *)

\* The invariant holds in every run of a scanner: InstanceScanner::scan and the
\* QtProcessProbe::run that it waits for.
THEOREM ScannerKeepsInvariant == Spec => []ScannerInvariant
  <1>1. Init => ScannerInvariant
    BY ScannerInit, ProbeAssumption, ScannerAssumption
  <1>2. ScannerInvariant /\ [Next]_vars => ScannerInvariant'
    BY ScannerStep, ProbeAssumption, ScannerAssumption
  <1> QED BY <1>1, <1>2, PTL DEF Spec

\* Every variable keeps its type, and run() never keeps more output than its limit
\* (appendBoundedStandardOutput).
THEOREM ScannerTypesHold == Spec => []TypeOK
  <1>1. ScannerInvariant => TypeOK
    <2>1. ASSUME ProbeTypes PROVE \A lines \in {unwritten, pipe, fetched, output} : ToSet(lines) \subseteq Refs \cup {Other}
      BY <2>1, LinesType DEF ProbeTypes, Lines
    <2>2. ASSUME ScanTypes PROVE /\ result.native \subseteq PathEntries \X Programs
                                 /\ ToSet(result.flatpak) \subseteq Refs
                                 /\ result.failed \subseteq {"flatpak", "snap"}
      BY <2>2, LinesType DEF ScanTypes, Results
    <2> QED BY <2>1, <2>2 DEF ScannerInvariant, ProbeTypes, ScanTypes, TypeOK
  <1> QED BY <1>1, ScannerKeepsInvariant, PTL

\* run() leaves no program behind that it has not handed to the event loop, for any
\* timeout, grace and interleaving (killAndReapOrDefer).
THEOREM ProbeLosesNoProcess == Spec => []NoProcessIsLost
  <1>1. ScannerInvariant => NoProcessIsLost
    BY DEF ScannerInvariant, Attended, NoProcessIsLost
  <1> QED BY <1>1, ScannerKeepsInvariant, PTL

\* A scan that says nothing of a failed backend has seen whatever was installed all the
\* time: what Selection relies on before it gives a selection up (InstanceScanner::scan).
THEOREM ScanMissesNothing == Spec => []NothingIsMissed
  <1>1. ScannerInvariant => NothingIsMissed
    BY DEF ScannerInvariant, Witnessed, NothingIsMissed
  <1> QED BY <1>1, ScannerKeepsInvariant, PTL

\* A scan reports only what was installed at some moment of it, under its own packaging
\* (InstanceScanner::scan).
THEOREM ScanInventsNothing == Spec => []NothingIsInvented
  <1>1. ScannerInvariant => NothingIsInvented
    BY DEF ScannerInvariant, Witnessed, NothingIsInvented
  <1> QED BY <1>1, ScannerKeepsInvariant, PTL
=============================================================================
