------------------------ MODULE ProfileRepositoryProofs ------------------------
(***************************************************************************)
(* Proofs about ProfileRepository, for every number of instances,          *)
(* directories, entries, files and texts and every bound on the changes.   *)
(*                                                                         *)
(* IInv needs no assumption on the clock or on the links: it carries the   *)
(* types, that a snapshot shows a file once and that the cache is bounded  *)
(* by the last answer. FreshInv is inductive on top of it when writes have *)
(* instants of their own and links settle: what the cache holds under the  *)
(* signature of a file is what that file holds.                            *)
(***************************************************************************)
EXTENDS ProfileRepository, WellFoundedInduction, TLAPS

-----------------------------------------------------------------------------
(* Operators of the model.                                                 *)

\* A set of natural numbers that is not empty has a least element.
LEMMA LeastEntry ==
    ASSUME NEW S \in SUBSET Nat, S # {}
    PROVE  \E e \in S : \A f \in S : e <= f
<1>. DEFINE R == {ss \in Nat \X Nat : ss[1] < ss[2]}
<1>1. IsWellFoundedOn(R, Nat)
    BY NatLessThanWellFounded DEF OpToRel
<1>. HIDE DEF R
<1>2. PICK e \in S : \A f \in S : ~(<<f, e>> \in R)
    BY <1>1, WFMin
<1>3. \A f \in S : ~(f < e)
    BY <1>2 DEF R
<1>. QED BY <1>3

\* The first candidate of load()'s sorted list is one of those still to be shown.
LEMMA FirstIsOne ==
    ASSUME todo \subseteq Candidate, todo # {}
    PROVE  FirstCandidate \in todo
<1>. DEFINE S == {c.entry : c \in todo}
<1>1. S \in SUBSET Nat /\ S # {}
    BY RepositoryAssumption DEF Candidate
<1>2. PICK e \in S : \A f \in S : e <= f
    BY <1>1, LeastEntry
<1>3. \E c \in todo : \A d \in todo : c.entry <= d.entry
    BY <1>2
<1>. QED BY <1>3 DEF FirstCandidate

\* No candidate is the record that stands for none.
LEMMA NoneIsNone == NoCandidate \notin Candidate
BY RepositoryAssumption DEF NoCandidate, Candidate

LEMMA DirectoryType ==
    ASSUME scope \in Instances \X Dirs
    PROVE  Directory \in Dirs
BY DEF Directory

\* What a look at an entry tells.
LEMMA LookType ==
    ASSUME FileSystemType, Directory \in Dirs, NEW e \in Entries, Look(e) # NoCandidate
    PROVE  /\ Look(e) \in Candidate
           /\ Look(e).entry = e
           /\ Look(e).file = link[Directory][e]
           /\ Look(e).sig = sig[Look(e).file]
<1>1. link[Directory][e] \in Files \cup {NoFile}
    BY DEF FileSystemType
<1>2. link[Directory][e] # NoFile
    BY DEF Look
<1>3. Look(e) = [entry |-> e, file |-> link[Directory][e], sig |-> sig[link[Directory][e]]]
    BY <1>2 DEF Look
<1>4. sig[link[Directory][e]] \in Instants
    BY <1>1, <1>2 DEF FileSystemType
<1>. QED BY <1>1, <1>2, <1>3, <1>4 DEF Candidate

\* A cached result has a signature and a text.
LEMMA CachedType ==
    ASSUME CacheType, NEW f \in Files, cache[f] # NotCached
    PROVE  cache[f].sig \in Instants /\ cache[f].text \in Texts
BY DEF CacheType

\* While a load has a directory, that is one of Dirs.
LEMMA ScopeInCall ==
    ASSUME LocalInv, pc \in {"open", "list", "next", "parse", "verify"}
    PROVE  scope \in Instances \X Dirs /\ Directory \in Dirs
BY DirectoryType DEF LocalInv, Parsing

\* While an entry is parsed there is a candidate for it.
LEMMA CandidateInParse ==
    ASSUME LocalInv, pc \in {"parse", "verify"}
    PROVE  candidate \in Candidate /\ attempt \in 1 .. 2
BY DEF LocalInv, Parsing

\* The second look is at the entry of the candidate.
LEMMA SeenType ==
    ASSUME FileSystemType, LocalInv, pc = "verify", Seen # NoCandidate
    PROVE  /\ Seen \in Candidate
           /\ Seen.entry = candidate.entry
           /\ Seen.file = link[Directory][candidate.entry]
           /\ Seen.sig = sig[Seen.file]
<1>1. candidate.entry \in Entries
    BY CandidateInParse DEF Candidate
<1>. QED BY <1>1, ScopeInCall, LookType DEF Seen

-----------------------------------------------------------------------------
(* Every variable has its type.                                            *)

LEMMA InitType == Init => TypeOK
<1>. SUFFICES ASSUME Init PROVE TypeOK
    OBVIOUS
<1>. USE RepositoryAssumption
<1>1. FileSystemType
    BY DEF Init, FileSystemType, Instants
<1>2. CacheType
    BY DEF Init, CacheType
<1>3. CallType
    BY DEF Init, CallType
<1>4. AnswerType
    BY DEF Init, AnswerType
<1>. QED BY <1>1, <1>2, <1>3, <1>4 DEF TypeOK

LEMMA FileSystemTypeStep ==
    ASSUME TypeOK, [Next]_vars
    PROVE  FileSystemType'
<1>. USE RepositoryAssumption
<1>. USE DEF TypeOK, FileSystemType, Instants
<1>1. ASSUME NEW f \in Files, NEW t \in Texts, Write(f, t) PROVE FileSystemType'
    BY <1>1 DEF Write
<1>2. ASSUME NEW d \in Dirs, NEW e \in Entries, NEW f \in Files \cup {NoFile}, Relink(d, e, f)
      PROVE  FileSystemType'
    BY <1>2 DEF Relink
<1>3. ASSUME NEW d \in Dirs, Chmod(d) PROVE FileSystemType'
    BY <1>3 DEF Chmod
<1>4. ASSUME NEW i \in Instances, NEW d \in Dirs \cup {NoDir}, Relocate(i, d) PROVE FileSystemType'
    BY <1>4 DEF Relocate
<1>5. ASSUME NEW i \in Instances, Load(i) PROVE FileSystemType'
    BY <1>5 DEF Load
<1>6. ASSUME NEW e \in Entries, Inspect(e) PROVE FileSystemType'
    BY <1>6 DEF Inspect
<1>7. CASE Gone \/ Stable \/ Retry \/ GiveUp
    BY <1>7 DEF Gone, Stable, Retry, GiveUp
<1>8. CASE LocateFails \/ Open \/ DirectoryUnreadable \/ EndListing \/ SkipProcessed \/ Hit
           \/ Miss \/ Parse \/ Finish
    BY <1>8 DEF LocateFails, Open, DirectoryUnreadable, EndListing, SkipProcessed, Hit, Miss,
                Parse, Finish, fsVars
<1>9. CASE UNCHANGED vars
    BY <1>9 DEF vars, fsVars
<1>. QED
    BY <1>1, <1>2, <1>3, <1>4, <1>5, <1>6, <1>7, <1>8, <1>9 DEF Next, FileSystem, Step

LEMMA CacheTypeStep ==
    ASSUME TypeOK, LocalInv, [Next]_vars
    PROVE  CacheType'
<1>. USE RepositoryAssumption
<1>. USE DEF TypeOK, CacheType, Instants
<1>1. CASE FileSystem
    BY <1>1 DEF FileSystem, Write, Relink, Chmod, Relocate, Changed, cacheVars
<1>2. ASSUME NEW i \in Instances, Load(i) PROVE CacheType'
    <2>1. located[i] \in Dirs \cup {NoDir}
        BY DEF FileSystemType
    <2>. QED BY <1>2, <2>1 DEF Load, Scoped
<1>3. CASE Miss
    <2>1. UNCHANGED scope /\ cache' = [cache EXCEPT ![FirstCandidate.file] = NotCached]
        BY <1>3 DEF Miss
    <2>. QED BY <2>1
<1>4. CASE Stable
    <2>1. /\ UNCHANGED scope /\ pc = "verify"
          /\ cache' = Kept(parsed) \/ cache' = [cache EXCEPT ![candidate.file] = NotCached]
        BY <1>4 DEF Stable
    <2>2. candidate.sig \in Nat /\ (parsed = Failed \/ parsed \in Texts)
        BY <2>1, CandidateInParse DEF Candidate, CallType
    <2>. QED BY <2>1, <2>2 DEF Kept
<1>5. CASE Retry \/ GiveUp
    BY <1>5 DEF Retry, GiveUp, Forgotten
<1>6. CASE Finish
    BY <1>6 DEF Finish, Evicted
<1>7. ASSUME NEW e \in Entries, Inspect(e) PROVE CacheType'
    BY <1>7 DEF Inspect, cacheVars
<1>8. CASE LocateFails \/ Open \/ DirectoryUnreadable \/ EndListing \/ SkipProcessed \/ Hit
           \/ Parse \/ Gone
    BY <1>8 DEF LocateFails, Open, DirectoryUnreadable, EndListing, SkipProcessed, Hit, Parse,
                Gone, cacheVars
<1>9. CASE UNCHANGED vars
    BY <1>9 DEF vars, cacheVars
<1>. QED BY <1>1, <1>2, <1>3, <1>4, <1>5, <1>6, <1>7, <1>8, <1>9 DEF Next, Step

\* Return leaves a call's variables as they are between calls.
LEMMA ReturnedCall ==
    ASSUME NEW kind, NEW theRows, NEW thePrints, Return(kind, theRows, thePrints)
    PROVE  CallType'
BY DEF Return, CallType

\* Show adds what belongs to the candidate.
LEMMA ShownTypes ==
    ASSUME CallType, NEW c \in Candidate, NEW result \in Texts \cup {Failed}, Show(c, result)
    PROVE  processed' \subseteq Files /\ rows' \subseteq Row /\ prints' \subseteq FilePrint
<1>1. c.file \in Files /\ PrintOf(c) \in FilePrint
    BY DEF Candidate, PrintOf, FilePrint
<1>2. result \in Profiles => [entry |-> c.entry, file |-> c.file, text |-> result] \in Row
    BY RepositoryAssumption DEF Candidate, Row
<1>. QED BY <1>1, <1>2 DEF Show, CallType

LEMMA CallTypeStep ==
    ASSUME TypeOK, LocalInv, [Next]_vars
    PROVE  CallType'
<1>. USE DEF TypeOK
<1>1. CASE FileSystem \/ UNCHANGED vars
    BY <1>1 DEF FileSystem, Write, Relink, Chmod, Relocate, Changed, vars, callVars, CallType
<1>2. ASSUME NEW i \in Instances, Load(i) PROVE CallType'
    BY <1>2 DEF Load, CallType
<1>3. CASE LocateFails \/ DirectoryUnreadable \/ Finish
    BY <1>3, ReturnedCall DEF LocateFails, DirectoryUnreadable, Finish, ReturnError
<1>4. CASE Open
    BY <1>4 DEF Open, CallType
<1>5. CASE EndListing
    BY <1>5 DEF EndListing, FirstOfEach, CallType
<1>6. ASSUME NEW e \in Entries, Inspect(e) PROVE CallType'
    <2>1. {Look(e)} \ {NoCandidate} \subseteq Candidate
        BY <1>6, ScopeInCall, LookType DEF Inspect
    <2>. QED BY <1>6, <2>1 DEF Inspect, CallType
<1>7. CASE SkipProcessed
    BY <1>7 DEF SkipProcessed, CallType
<1>8. CASE Hit
    <2>1. FirstCandidate \in Candidate /\ FirstCandidate.file \in Files
        BY <1>8, FirstIsOne DEF Hit, CallType, Candidate
    <2>2. cache[FirstCandidate.file].text \in Texts
        BY <1>8, <2>1, CachedType DEF Hit, Unchanged
    <2>3. processed' \subseteq Files /\ rows' \subseteq Row /\ prints' \subseteq FilePrint
        BY <1>8, <2>1, <2>2, ShownTypes DEF Hit
    <2>. QED BY <1>8, <2>1, <2>3 DEF Hit, CallType
<1>9. CASE Miss
    BY <1>9, FirstIsOne DEF Miss, CallType
<1>10. CASE Parse
    <2>1. parsed' \in Texts \cup {Failed}
        BY <1>10, CandidateInParse, ScopeInCall DEF Parse, FileSystemType, Candidate
    <2>. QED BY <1>10, <2>1 DEF Parse, CallType
<1>11. CASE Gone
    BY <1>11 DEF Gone, CallType
<1>12. CASE Stable
    <2>1. candidate \in Candidate /\ candidate.file \in Files
        BY <1>12, CandidateInParse DEF Stable, Candidate
    <2>2. /\ processed' \subseteq Files /\ rows' \subseteq Row /\ prints' \subseteq FilePrint
          /\ active' \subseteq Files
        BY <1>12, <2>1, ShownTypes DEF Stable, CallType
    <2>. QED BY <1>12, <2>2 DEF Stable, CallType
<1>13. CASE Retry
    BY <1>13, SeenType, CandidateInParse DEF Retry, MayRetry, CallType
<1>14. CASE GiveUp
    <2>1. Seen.file \in Files /\ PrintOf(Seen) \in FilePrint
        BY <1>14, SeenType DEF GiveUp, Candidate, PrintOf, FilePrint
    <2>. QED BY <1>14, <2>1 DEF GiveUp, CallType
<1>. QED
    BY <1>1, <1>2, <1>3, <1>4, <1>5, <1>6, <1>7, <1>8, <1>9, <1>10, <1>11, <1>12, <1>13, <1>14
    DEF Next, Step

LEMMA AnswerTypeStep ==
    ASSUME TypeOK, [Next]_vars
    PROVE  AnswerType'
<1>. USE DEF TypeOK
<1>1. ASSUME NEW f \in Files, NEW t \in Texts, Write(f, t) PROVE AnswerType'
    BY <1>1 DEF Write, Changed, answerVars, AnswerType
<1>2. ASSUME NEW d \in Dirs, NEW e \in Entries, NEW f \in Files \cup {NoFile}, Relink(d, e, f)
      PROVE  AnswerType'
    BY <1>2 DEF Relink, Changed, answerVars, AnswerType
<1>3. ASSUME NEW d \in Dirs, Chmod(d) PROVE AnswerType'
    BY <1>3 DEF Chmod, Changed, answerVars, AnswerType
<1>4. ASSUME NEW i \in Instances, NEW d \in Dirs \cup {NoDir}, Relocate(i, d) PROVE AnswerType'
    BY <1>4 DEF Relocate, Changed, answerVars, AnswerType
<1>5. ASSUME NEW i \in Instances, Load(i) PROVE AnswerType'
    BY <1>5 DEF Load, AnswerType, FileSystemType
<1>6. CASE LocateFails \/ DirectoryUnreadable \/ Finish
    BY <1>6 DEF LocateFails, DirectoryUnreadable, Finish, ReturnError, Return, AnswerType, CallType
<1>7. ASSUME NEW e \in Entries, Inspect(e) PROVE AnswerType'
    BY <1>7 DEF Inspect, answerVars, AnswerType
<1>8. CASE Open \/ EndListing \/ SkipProcessed \/ Hit \/ Miss
    BY <1>8 DEF Open, EndListing, SkipProcessed, Hit, Miss, answerVars, AnswerType
<1>9. CASE Parse
    BY <1>9 DEF Parse, answerVars, AnswerType
<1>10. CASE Gone \/ Stable \/ Retry \/ GiveUp
    BY <1>10 DEF Gone, Stable, Retry, GiveUp, answerVars, AnswerType
<1>11. CASE UNCHANGED vars
    BY <1>11 DEF vars, answerVars, AnswerType
<1>. QED
    BY <1>1, <1>2, <1>3, <1>4, <1>5, <1>6, <1>7, <1>8, <1>9, <1>10, <1>11
    DEF Next, FileSystem, Step

-----------------------------------------------------------------------------
(* The locals of a call.                                                   *)

LEMMA LocalInvStep ==
    ASSUME TypeOK, LocalInv, [Next]_vars
    PROVE  LocalInv'
<1>. USE DEF LocalInv, Parsing, Loading
<1>1. CASE FileSystem \/ UNCHANGED vars
    BY <1>1 DEF FileSystem, Write, Relink, Chmod, Relocate, Changed, vars, callVars, cacheVars,
                answerVars
<1>2. ASSUME NEW i \in Instances, Load(i) PROVE LocalInv'
    BY <1>2 DEF Load, TypeOK, FileSystemType
<1>3. CASE LocateFails \/ DirectoryUnreadable \/ Finish
    BY <1>3 DEF LocateFails, DirectoryUnreadable, Finish, ReturnError, Return
<1>4. CASE Open
    BY <1>4 DEF Open, cacheVars, answerVars
<1>5. CASE EndListing
    BY <1>5 DEF EndListing, cacheVars, answerVars
<1>6. ASSUME NEW e \in Entries, Inspect(e) PROVE LocalInv'
    BY <1>6 DEF Inspect, cacheVars, answerVars
<1>7. CASE SkipProcessed \/ Hit
    BY <1>7 DEF SkipProcessed, Hit, cacheVars, answerVars
<1>8. CASE Miss
    BY <1>8, FirstIsOne DEF Miss, answerVars, TypeOK, CallType
<1>9. CASE Parse
    BY <1>9 DEF Parse, cacheVars, answerVars
<1>10. CASE Gone \/ Stable \/ GiveUp
    BY <1>10 DEF Gone, Stable, GiveUp, cacheVars, answerVars
<1>11. CASE Retry
    <2>1. Seen \in Candidate /\ attempt + 1 \in 1 .. 2
        BY <1>11, SeenType, CandidateInParse DEF Retry, MayRetry, TypeOK
    <2>. QED BY <1>11, <2>1 DEF Retry, answerVars
<1>. QED
    BY <1>1, <1>2, <1>3, <1>4, <1>5, <1>6, <1>7, <1>8, <1>9, <1>10, <1>11 DEF Next, Step

-----------------------------------------------------------------------------
(* A snapshot shows a file once, and the cache is bounded by it.           *)

\* Showing a file that no row and no fingerprint has yet keeps them together.
LEMMA ShowKeeps ==
    ASSUME ShownInv, NEW c, NEW result, Unshown(c), Show(c, result),
           active' = active \cup {c.file} \/ active' = active
    PROVE  ShownInv'
<1>. DEFINE added == IF result \in Profiles
                     THEN {[entry |-> c.entry, file |-> c.file, text |-> result]} ELSE {}
<1>1. /\ rows' = rows \cup added
      /\ \A r, s \in added : r = s
      /\ \A r \in added : r.file = c.file
      /\ prints' = prints \cup {PrintOf(c)} /\ PrintOf(c).file = c.file
      /\ processed' = processed \cup {c.file} /\ c.file \notin processed
    BY DEF Show, PrintOf, Unshown
<1>. HIDE DEF added
<1>2. \A p \in prints : p.file # c.file
    BY <1>1 DEF ShownInv
<1>3. \A r \in rows : r.file # c.file
    BY <1>2 DEF ShownInv
<1>4. \A r, s \in rows' : r.file = s.file => r = s
    BY <1>1, <1>3 DEF ShownInv
<1>5. \A p, q \in prints' : p.file = q.file => p = q
    BY <1>1, <1>2 DEF ShownInv
<1>6. \A p \in prints' : p.file \in processed'
    BY <1>1 DEF ShownInv
<1>7. /\ \A r \in rows' : \E p \in prints' : p.file = r.file
      /\ \A f \in active' : \E p \in prints' : p.file = f
    BY <1>1 DEF ShownInv
<1>. QED BY <1>4, <1>5, <1>6, <1>7 DEF ShownInv

LEMMA ShownInvStep ==
    ASSUME TypeOK, LocalInv, ShownInv, [Next]_vars
    PROVE  ShownInv'
<1>1. CASE FileSystem \/ UNCHANGED vars
    BY <1>1 DEF FileSystem, Write, Relink, Chmod, Relocate, Changed, vars, callVars, ShownInv
<1>2. ASSUME NEW i \in Instances, Load(i) PROVE ShownInv'
    BY <1>2 DEF Load, ShownInv
<1>3. CASE LocateFails \/ DirectoryUnreadable \/ Finish
    BY <1>3 DEF LocateFails, DirectoryUnreadable, Finish, ReturnError, Return, ShownInv
<1>4. ASSUME NEW e \in Entries, Inspect(e) PROVE ShownInv'
    BY <1>4 DEF Inspect, ShownInv
<1>5. CASE Open \/ EndListing \/ SkipProcessed \/ Miss \/ Parse \/ Gone \/ Retry
    BY <1>5 DEF Open, EndListing, SkipProcessed, Miss, Parse, Gone, Retry, ShownInv
<1>6. CASE Hit
    BY <1>6, ShowKeeps DEF Hit
<1>7. CASE Stable
    BY <1>7, ShowKeeps DEF Stable, ShownInv
<1>8. CASE GiveUp
    <2>1. /\ processed' = processed \cup {Seen.file} /\ UNCHANGED <<active, rows>>
          /\ prints' = IF Seen.file \in processed THEN prints ELSE prints \cup {PrintOf(Seen)}
          /\ PrintOf(Seen).file = Seen.file
        BY <1>8 DEF GiveUp, PrintOf
    <2>2. CASE Seen.file \in processed
        BY <2>1, <2>2 DEF ShownInv
    <2>3. CASE Seen.file \notin processed
        <3>1. \A p \in prints : p.file # Seen.file
            BY <2>3 DEF ShownInv
        <3>. QED BY <2>1, <2>3, <3>1 DEF ShownInv
    <2>. QED BY <2>2, <2>3
<1>. QED BY <1>1, <1>2, <1>3, <1>4, <1>5, <1>6, <1>7, <1>8 DEF Next, Step

\* A step of a load that does not return leaves the call without an answer.
LEMMA StepAnswers ==
    ASSUME LocalInv, Step
    PROVE  \/ LocateFails \/ DirectoryUnreadable \/ Finish
           \/ UNCHANGED answerVars /\ outcome = "none" /\ answerPrints = {}
<1>1. ASSUME NEW e \in Entries, Inspect(e)
      PROVE  UNCHANGED answerVars /\ outcome = "none" /\ answerPrints = {}
    BY <1>1 DEF Inspect, LocalInv, Loading
<1>2. CASE Open \/ EndListing \/ SkipProcessed \/ Hit \/ Miss
    BY <1>2 DEF Open, EndListing, SkipProcessed, Hit, Miss, LocalInv, Loading
<1>3. CASE Parse \/ Gone \/ Stable \/ Retry \/ GiveUp
    BY <1>3 DEF Parse, Gone, Stable, Retry, GiveUp, LocalInv, Loading
<1>. QED BY <1>1, <1>2, <1>3 DEF Step

LEMMA OneRowPerFileStep ==
    ASSUME LocalInv, ShownInv, OneRowPerFile, [Next]_vars
    PROVE  OneRowPerFile'
<1>1. CASE FileSystem \/ UNCHANGED vars
    BY <1>1 DEF FileSystem, Write, Relink, Chmod, Relocate, Changed, vars, answerVars,
                OneRowPerFile
<1>2. ASSUME NEW i \in Instances, Load(i) PROVE OneRowPerFile'
    BY <1>2 DEF Load, OneRowPerFile
<1>3. CASE LocateFails \/ DirectoryUnreadable
    BY <1>3 DEF LocateFails, DirectoryUnreadable, ReturnError, Return, OneRowPerFile
<1>4. CASE Finish
    BY <1>4 DEF Finish, Return, ShownInv, OneRowPerFile
<1>5. CASE UNCHANGED answerVars
    BY <1>5 DEF answerVars, OneRowPerFile
<1>. QED BY <1>1, <1>2, <1>3, <1>4, <1>5, StepAnswers DEF Next

LEMMA CacheIsBoundedStep ==
    ASSUME LocalInv, ShownInv, CacheIsBounded, [Next]_vars
    PROVE  CacheIsBounded'
<1>1. CASE FileSystem \/ UNCHANGED vars
    BY <1>1 DEF FileSystem, Write, Relink, Chmod, Relocate, Changed, vars, answerVars, cacheVars,
                CacheIsBounded
<1>2. ASSUME NEW i \in Instances, Load(i) PROVE CacheIsBounded'
    BY <1>2 DEF Load, CacheIsBounded
<1>3. CASE LocateFails \/ DirectoryUnreadable
    BY <1>3 DEF LocateFails, DirectoryUnreadable, ReturnError, Return, CacheIsBounded
<1>4. CASE Finish
    BY <1>4 DEF Finish, Return, Evicted, ShownInv, CacheIsBounded
<1>5. CASE UNCHANGED answerVars /\ outcome = "none"
    BY <1>5 DEF answerVars, CacheIsBounded
<1>. QED BY <1>1, <1>2, <1>3, <1>4, <1>5, StepAnswers DEF Next

-----------------------------------------------------------------------------
(* The invariant that needs no assumption on the file system.              *)

LEMMA InitIInv == Init => IInv
<1>. SUFFICES ASSUME Init PROVE IInv
    OBVIOUS
<1>1. TypeOK
    BY InitType
<1>2. LocalInv
    BY DEF Init, LocalInv, Parsing, Loading
<1>3. ShownInv /\ OneRowPerFile /\ CacheIsBounded
    BY DEF Init, ShownInv, OneRowPerFile, CacheIsBounded
<1>. QED BY <1>1, <1>2, <1>3 DEF IInv

LEMMA NextIInv == IInv /\ [Next]_vars => IInv'
<1>. SUFFICES ASSUME IInv, [Next]_vars PROVE IInv'
    OBVIOUS
<1>1. TypeOK'
    BY FileSystemTypeStep, CacheTypeStep, CallTypeStep, AnswerTypeStep DEF IInv, TypeOK
<1>2. LocalInv' /\ ShownInv'
    BY LocalInvStep, ShownInvStep DEF IInv
<1>3. OneRowPerFile' /\ CacheIsBounded'
    BY OneRowPerFileStep, CacheIsBoundedStep DEF IInv
<1>. QED BY <1>1, <1>2, <1>3 DEF IInv

\* The inductive invariant of every behaviour, however the clock ticks and the links move.
THEOREM RepositoryIInv == Spec => []IInv
BY InitIInv, NextIInv, PTL DEF Spec

\* Every variable of ProfileRepository::load, its cache and its file system keeps its type.
THEOREM RepositoryTypeOK == Spec => []TypeOK
<1>1. IInv => TypeOK
    BY DEF IInv
<1>. QED BY <1>1, RepositoryIInv, PTL

\* A snapshot of load() shows a file once, whatever entries lead to it and however they
\* move meanwhile, and fingerprints the file of every row.
THEOREM RepositoryOneRowPerFile == Spec => []OneRowPerFile
<1>1. IInv => OneRowPerFile
    BY DEF IInv
<1>. QED BY <1>1, RepositoryIInv, PTL

\* After a load that succeeds cache_ knows only files of its answer.
THEOREM RepositoryCacheIsBounded == Spec => []CacheIsBounded
<1>1. IInv => CacheIsBounded
    BY DEF IInv
<1>. QED BY <1>1, RepositoryIInv, PTL

-----------------------------------------------------------------------------
(* What the cache holds is current, when every write has an instant of its *)
(* own and links settle.                                                   *)

\* A step of a load leaves the file system alone, but for what it has looked at again.
LEMMA StepReads ==
    ASSUME Step \/ (\E i \in Instances : Load(i)) \/ UNCHANGED vars
    PROVE  UNCHANGED <<located, accessible, link, text, sig, clock>> /\ strayed' \subseteq strayed
<1>1. ASSUME NEW i \in Instances, Load(i)
      PROVE  UNCHANGED <<located, accessible, link, text, sig, clock>> /\ strayed' \subseteq strayed
    BY <1>1 DEF Load
<1>2. ASSUME NEW e \in Entries, Inspect(e)
      PROVE  UNCHANGED <<located, accessible, link, text, sig, clock>> /\ strayed' \subseteq strayed
    BY <1>2 DEF Inspect
<1>3. CASE Gone \/ Stable \/ Retry \/ GiveUp
    BY <1>3 DEF Gone, Stable, Retry, GiveUp
<1>4. CASE LocateFails \/ Open \/ DirectoryUnreadable \/ EndListing \/ SkipProcessed \/ Hit
           \/ Miss \/ Parse \/ Finish
    BY <1>4 DEF LocateFails, Open, DirectoryUnreadable, EndListing, SkipProcessed, Hit, Miss,
                Parse, Finish, fsVars
<1>5. CASE UNCHANGED vars
    BY <1>5 DEF vars, fsVars
<1>. QED BY <1>1, <1>2, <1>3, <1>4, <1>5 DEF Step

\* A stable parse that could be read is what the second look agreed about.
Learned ==
    /\ Stable /\ parsed # Failed /\ Unshown(candidate)
    /\ cache' = [cache EXCEPT ![candidate.file] = [sig |-> candidate.sig, text |-> parsed]]

\* Nothing else enters the cache.
LEMMA CacheStep ==
    ASSUME TypeOK, LocalInv, [Next]_vars
    PROVE  Learned \/ \A f \in Files : cache'[f] \in {cache[f], NotCached}
<1>. USE DEF TypeOK, CacheType
<1>1. CASE FileSystem \/ UNCHANGED vars
    BY <1>1 DEF FileSystem, Write, Relink, Chmod, Relocate, Changed, vars, cacheVars
<1>2. ASSUME NEW i \in Instances, Load(i) PROVE \A f \in Files : cache'[f] \in {cache[f], NotCached}
    BY <1>2 DEF Load, Scoped
<1>3. CASE Miss
    BY <1>3 DEF Miss
<1>4. CASE Stable
    BY <1>4 DEF Stable, Kept, Learned
<1>5. CASE Retry \/ GiveUp
    BY <1>5 DEF Retry, GiveUp, Forgotten
<1>6. CASE Finish
    BY <1>6 DEF Finish, Evicted
<1>7. ASSUME NEW e \in Entries, Inspect(e) PROVE UNCHANGED cache
    BY <1>7 DEF Inspect, cacheVars
<1>8. CASE LocateFails \/ Open \/ DirectoryUnreadable \/ EndListing \/ SkipProcessed \/ Hit
           \/ Parse \/ Gone
    BY <1>8 DEF LocateFails, Open, DirectoryUnreadable, EndListing, SkipProcessed, Hit, Parse,
                Gone, cacheVars
<1>. QED BY <1>1, <1>2, <1>3, <1>4, <1>5, <1>6, <1>7, <1>8 DEF Next, Step

\* What was learned is of the file, the signature and the text that the file has now.
LEMMA LearnedIsCurrent ==
    ASSUME IInv, ParseInv, Stable
    PROVE  /\ candidate.file \in Files /\ candidate.sig = sig[candidate.file]
           /\ parsed # Failed => parsed = text[candidate.file]
<1>1. pc = "verify" /\ Seen # NoCandidate /\ Seen.file = candidate.file /\ Seen.sig = candidate.sig
    BY DEF Stable, Same
<1>2. /\ Seen.file = link[Directory][candidate.entry] /\ Seen.sig = sig[Seen.file]
      /\ Seen \in Candidate
    BY <1>1, SeenType DEF IInv, TypeOK
<1>. QED BY <1>1, <1>2 DEF ParseInv, Candidate

\* Candidates come from looks at entries that were not listed yet.
LEMMA TodoStep ==
    ASSUME TypeOK, LocalInv, [Next]_vars
    PROVE  \/ todo' \subseteq todo
           \/ \E e \in unlisted : /\ Inspect(e) /\ Look(e) # NoCandidate
                                  /\ todo' = todo \cup {Look(e)}
<1>1. CASE FileSystem \/ UNCHANGED vars
    BY <1>1 DEF FileSystem, Write, Relink, Chmod, Relocate, Changed, vars, callVars
<1>2. ASSUME NEW i \in Instances, Load(i) PROVE todo' \subseteq todo
    BY <1>2 DEF Load
<1>3. CASE LocateFails \/ DirectoryUnreadable \/ Finish
    BY <1>3 DEF LocateFails, DirectoryUnreadable, Finish, ReturnError, Return
<1>4. ASSUME NEW e \in Entries, Inspect(e)
      PROVE  /\ e \in unlisted
             /\ IF Look(e) = NoCandidate THEN todo' = todo ELSE todo' = todo \cup {Look(e)}
    <2>1. e \in unlisted /\ todo' = todo \cup ({Look(e)} \ {NoCandidate})
        BY <1>4 DEF Inspect
    <2>2. Look(e) = NoCandidate => todo' = todo
        BY <2>1
    <2>3. Look(e) # NoCandidate => {Look(e)} \ {NoCandidate} = {Look(e)}
        OBVIOUS
    <2>. QED BY <2>1, <2>2, <2>3
<1>5. CASE Open \/ SkipProcessed \/ Hit \/ Miss
    BY <1>5 DEF Open, SkipProcessed, Hit, Miss
<1>6. CASE EndListing
    BY <1>6 DEF EndListing, FirstOfEach
<1>7. CASE Parse \/ Gone \/ Stable \/ Retry \/ GiveUp
    BY <1>7 DEF Parse, Gone, Stable, Retry, GiveUp
<1>. QED BY <1>1, <1>2, <1>3, <1>4, <1>5, <1>6, <1>7 DEF Next, Step

\* A candidate is parsed when it was the next one of the list, or was found at a retry.
LEMMA CandidateStep ==
    ASSUME TypeOK, LocalInv, [Next]_vars, Parsing'
    PROVE  \/ Parsing /\ UNCHANGED candidate /\ (pc' = pc \/ Parse)
           \/ Miss /\ candidate' = FirstCandidate /\ FirstCandidate \in todo
           \/ Retry /\ pc = "verify" /\ Seen # NoCandidate /\ candidate' = Seen
<1>. USE DEF Parsing
<1>1. CASE FileSystem \/ UNCHANGED vars
    BY <1>1 DEF FileSystem, Write, Relink, Chmod, Relocate, Changed, vars, callVars
<1>2. ASSUME NEW i \in Instances, Load(i) PROVE FALSE
    BY <1>2 DEF Load
<1>3. CASE LocateFails \/ DirectoryUnreadable \/ Finish
    BY <1>3 DEF LocateFails, DirectoryUnreadable, Finish, ReturnError, Return
<1>4. ASSUME NEW e \in Entries, Inspect(e) PROVE FALSE
    BY <1>4 DEF Inspect
<1>5. CASE Open \/ EndListing \/ SkipProcessed \/ Hit \/ Gone \/ Stable \/ GiveUp
    BY <1>5 DEF Open, EndListing, SkipProcessed, Hit, Gone, Stable, GiveUp
<1>6. CASE Miss
    BY <1>6, FirstIsOne DEF Miss, TypeOK, CallType
<1>7. CASE Parse
    BY <1>7 DEF Parse
<1>8. CASE Retry
    BY <1>8 DEF Retry
<1>. QED BY <1>1, <1>2, <1>3, <1>4, <1>5, <1>6, <1>7, <1>8 DEF Next, Step

LEMMA ClockInvStep ==
    ASSUME FineClock, IInv, IInv', ClockInv, [Next]_vars
    PROVE  ClockInv'
<1>. USE DEF IInv, TypeOK, Instants
<1>1. clock' \in Nat /\ clock \in Nat /\ clock <= clock' /\ \A f \in Files : sig'[f] <= clock'
    <2>. USE DEF FileSystemType, ClockInv
    <2>1. ASSUME NEW f \in Files, NEW t \in Texts, Write(f, t)
          PROVE  clock <= clock' /\ \A g \in Files : sig'[g] <= clock'
        BY <2>1 DEF Write
    <2>2. CASE \/ \E d \in Dirs, e \in Entries, f \in Files \cup {NoFile} : Relink(d, e, f)
               \/ \E d \in Dirs : Chmod(d)
               \/ \E i \in Instances, d \in Dirs \cup {NoDir} : Relocate(i, d)
        <3>1. UNCHANGED sig /\ clock' = clock + 1
            BY <2>2 DEF Relink, Chmod, Relocate
        <3>. QED BY <3>1
    <2>3. CASE UNCHANGED <<sig, clock>>
        BY <2>3
    <2>. QED BY <2>1, <2>2, <2>3, StepReads DEF Next, FileSystem
<1>2. ASSUME NEW f \in Files, cache'[f] # NotCached PROVE cache'[f].sig <= clock'
    <2>1. CASE Learned
        <3>1. candidate.sig <= clock /\ candidate.sig \in Nat
            BY <2>1, CandidateInParse DEF Learned, Stable, ClockInv, Parsing, Candidate
        <3>2. CASE f = candidate.file
            BY <1>1, <2>1, <3>1, <3>2 DEF Learned, CacheType
        <3>3. CASE f # candidate.file
            <4>1. cache'[f] = cache[f]
                BY <2>1, <3>3 DEF Learned, CacheType
            <4>2. cache[f].sig <= clock /\ cache[f].sig \in Nat
                BY <1>2, <4>1, CachedType DEF ClockInv
            <4>. QED BY <1>1, <4>1, <4>2
        <3>. QED BY <3>2, <3>3
    <2>2. CASE cache'[f] \in {cache[f], NotCached}
        <3>1. cache[f].sig <= clock /\ cache[f].sig \in Nat /\ cache'[f] = cache[f]
            BY <1>2, <2>2, CachedType DEF ClockInv
        <3>. QED BY <1>1, <3>1
    <2>. QED BY <2>1, <2>2, CacheStep
<1>3. ASSUME NEW c \in todo' PROVE c.sig <= clock'
    <2>1. ASSUME NEW d \in todo PROVE d.sig <= clock /\ d.sig \in Nat
        BY DEF CallType, Candidate, ClockInv
    <2>2. ASSUME NEW e \in unlisted, Inspect(e), Look(e) # NoCandidate
          PROVE  Look(e).sig <= clock /\ Look(e).sig \in Nat
        BY <2>2, ScopeInCall, LookType DEF Inspect, CallType, Candidate, ClockInv
    <2>3. c.sig <= clock /\ c.sig \in Nat
        BY <2>1, <2>2, TodoStep
    <2>. QED BY <1>1, <2>3
<1>4. ASSUME Parsing' PROVE candidate'.sig <= clock'
    <2>1. CASE Parsing /\ UNCHANGED candidate
        BY <1>1, <2>1, CandidateInParse DEF Parsing, ClockInv, Candidate
    <2>2. CASE candidate' = FirstCandidate /\ FirstCandidate \in todo
        BY <1>1, <2>2 DEF CallType, Candidate, ClockInv
    <2>3. CASE pc = "verify" /\ Seen # NoCandidate /\ candidate' = Seen
        BY <1>1, <2>3, SeenType DEF Candidate, ClockInv
    <2>. QED BY <1>4, <2>1, <2>2, <2>3, CandidateStep
<1>. QED BY <1>1, <1>2, <1>3, <1>4 DEF ClockInv

\* An entry of the directory that comes to lead elsewhere had not strayed and now has; its
\* step changes nothing else that the load reads.
LEMMA LinkStep ==
    ASSUME LinksSettle, IInv, [Next]_vars, NEW e \in Entries, scope \in Instances \X Dirs,
           UNCHANGED scope
    PROVE  \/ link'[Directory'][e] = link[Directory][e]
           \/ /\ e \notin strayed /\ e \in strayed' /\ link'[Directory'][e] # link[Directory][e]
              /\ UNCHANGED <<text, sig, callVars>>
<1>. USE DEF IInv, TypeOK, FileSystemType
<1>1. Directory' = Directory /\ Directory \in Dirs
    BY DirectoryType DEF Directory
<1>2. ASSUME NEW d \in Dirs, NEW g \in Entries, NEW f \in Files \cup {NoFile}, Relink(d, g, f)
      PROVE  \/ link'[Directory][e] = link[Directory][e]
             \/ /\ e \notin strayed /\ e \in strayed' /\ link'[Directory][e] # link[Directory][e]
                /\ UNCHANGED <<text, sig, callVars>>
    <2>1. /\ g \notin strayed /\ f # link[d][g] /\ strayed' = strayed \cup {g}
          /\ link' = [link EXCEPT ![d][g] = f] /\ UNCHANGED <<text, sig, callVars>>
        BY <1>2 DEF Relink, Changed
    <2>2. CASE g = e /\ d = Directory
        <3>1. link'[Directory][e] = f
            BY <1>1, <2>1, <2>2
        <3>. QED BY <2>1, <2>2, <3>1
    <2>3. CASE g # e \/ d # Directory
        BY <1>1, <2>1, <2>3
    <2>. QED BY <2>2, <2>3
<1>3. CASE \/ \E f \in Files, t \in Texts : Write(f, t)
           \/ \E d \in Dirs : Chmod(d)
           \/ \E i \in Instances, d \in Dirs \cup {NoDir} : Relocate(i, d)
    BY <1>1, <1>3 DEF Write, Chmod, Relocate
<1>4. CASE UNCHANGED link
    BY <1>1, <1>4
<1>. QED BY <1>1, <1>2, <1>3, <1>4, StepReads DEF Next, FileSystem

\* An entry stops to have strayed when it is looked at, or when a load begins.
LEMMA StrayedStep ==
    ASSUME [Next]_vars, NEW e \in strayed, e \notin strayed'
    PROVE  \/ Inspect(e)
           \/ e = candidate.entry /\ (Gone \/ Stable \/ Retry \/ GiveUp)
           \/ \E i \in Instances : Load(i)
<1>1. CASE FileSystem
    BY <1>1 DEF FileSystem, Write, Relink, Chmod, Relocate
<1>2. ASSUME NEW g \in Entries, Inspect(g) PROVE g = e
    BY <1>2 DEF Inspect
<1>3. CASE Gone \/ Stable \/ Retry \/ GiveUp
    BY <1>3 DEF Gone, Stable, Retry, GiveUp
<1>4. CASE LocateFails \/ Open \/ DirectoryUnreadable \/ EndListing \/ SkipProcessed \/ Hit
           \/ Miss \/ Parse \/ Finish
    BY <1>4 DEF LocateFails, Open, DirectoryUnreadable, EndListing, SkipProcessed, Hit, Miss,
                Parse, Finish, fsVars
<1>5. CASE UNCHANGED vars
    BY <1>5 DEF vars, fsVars
<1>. QED BY <1>1, <1>2, <1>3, <1>4, <1>5 DEF Next, Step

\* Only a call changes the scope.
LEMMA ScopeStep ==
    ASSUME [Next]_vars, ~ \E i \in Instances : Load(i)
    PROVE  UNCHANGED scope
<1>1. CASE FileSystem \/ UNCHANGED vars
    BY <1>1 DEF FileSystem, Write, Relink, Chmod, Relocate, Changed, vars, cacheVars
<1>2. ASSUME NEW e \in Entries, Inspect(e) PROVE UNCHANGED scope
    BY <1>2 DEF Inspect, cacheVars
<1>3. CASE LocateFails \/ Open \/ DirectoryUnreadable \/ EndListing \/ SkipProcessed \/ Hit
           \/ Miss \/ Parse \/ Finish
    BY <1>3 DEF LocateFails, Open, DirectoryUnreadable, EndListing, SkipProcessed, Hit, Miss,
                Parse, Finish, cacheVars
<1>4. CASE Gone \/ Stable \/ Retry \/ GiveUp
    BY <1>4 DEF Gone, Stable, Retry, GiveUp, cacheVars
<1>. QED BY <1>1, <1>2, <1>3, <1>4 DEF Next, Step

\* A candidate stays settled, unless its entry is looked at again.
LEMMA SettledStep ==
    ASSUME LinksSettle, IInv, [Next]_vars, scope \in Instances \X Dirs, UNCHANGED scope,
           NEW c \in Candidate, Settled(c), c.entry \in strayed => c.entry \in strayed'
    PROVE  c.entry \notin strayed' => link'[Directory'][c.entry] = c.file
<1>1. c.entry \in Entries
    BY DEF Candidate
<1>2. \/ link'[Directory'][c.entry] = link[Directory][c.entry]
      \/ c.entry \in strayed'
    BY <1>1, LinkStep
<1>. QED BY <1>2 DEF Settled

LEMMA LookedInvStep ==
    ASSUME LinksSettle, IInv, IInv', LookedInv, [Next]_vars
    PROVE  LookedInv'
<1>. USE DEF IInv, TypeOK
<1>1. ASSUME NEW c \in todo', NEW d \in todo', c.entry = d.entry PROVE c = d
    <2>1. ASSUME NEW e \in unlisted, NEW x \in todo PROVE x.entry # e
        BY DEF LookedInv
    <2>2. ASSUME NEW e \in unlisted, Inspect(e), Look(e) # NoCandidate PROVE Look(e).entry = e
        BY <2>2, ScopeInCall, LookType DEF Inspect, CallType
    <2>3. \A x, y \in todo : x.entry = y.entry => x = y
        BY DEF LookedInv
    <2>. QED BY <1>1, <2>1, <2>2, <2>3, TodoStep
<1>2. ASSUME NEW c \in todo' PROVE c.entry \notin unlisted'
    <2>1. CASE \E i \in Instances : Load(i)
        BY <1>2, <2>1 DEF Load, LookedInv
    <2>2. CASE Open
        BY <1>2, <2>2 DEF Open, LocalInv
    <2>3. ASSUME NEW e \in Entries, Inspect(e) PROVE c.entry \notin unlisted'
        <3>1. unlisted' = unlisted \ {e} /\ c \in todo \cup ({Look(e)} \ {NoCandidate})
            BY <1>2, <2>3 DEF Inspect
        <3>2. CASE c \in todo
            BY <3>1, <3>2 DEF LookedInv
        <3>3. CASE c = Look(e) /\ Look(e) # NoCandidate
            BY <2>3, <3>1, <3>3, ScopeInCall, LookType DEF Inspect
        <3>. QED BY <3>1, <3>2, <3>3
    <2>4. CASE ~Open /\ ~ \E e \in Entries : Inspect(e)
        <3>1. unlisted' \subseteq unlisted
            <4>1. CASE FileSystem \/ UNCHANGED vars
                BY <4>1 DEF FileSystem, Write, Relink, Chmod, Relocate, Changed, vars, callVars
            <4>2. CASE \E i \in Instances : Load(i)
                BY <4>2 DEF Load
            <4>3. CASE LocateFails \/ DirectoryUnreadable \/ Finish
                BY <4>3 DEF LocateFails, DirectoryUnreadable, Finish, ReturnError, Return
            <4>4. CASE EndListing \/ SkipProcessed \/ Hit \/ Miss
                BY <4>4 DEF EndListing, SkipProcessed, Hit, Miss
            <4>5. CASE Parse \/ Gone \/ Stable \/ Retry \/ GiveUp
                BY <4>5 DEF Parse, Gone, Stable, Retry, GiveUp
            <4>. QED BY <2>4, <4>1, <4>2, <4>3, <4>4, <4>5 DEF Next, Step
        <3>2. c \in todo
            BY <1>2, <2>4, TodoStep DEF CallType
        <3>. QED BY <3>1, <3>2 DEF LookedInv
    <2>. QED BY <2>2, <2>3, <2>4
<1>3. ASSUME Parsing', NEW c \in todo' PROVE c.entry # candidate'.entry
    <2>1. c \in todo
        <3>1. \A e \in Entries : ~Inspect(e)
            BY <1>3 DEF Inspect, Parsing
        <3>. QED BY <3>1, TodoStep DEF CallType
    <2>2. CASE Parsing /\ UNCHANGED candidate
        BY <2>1, <2>2 DEF LookedInv
    <2>3. CASE Miss /\ candidate' = FirstCandidate /\ FirstCandidate \in todo
        BY <1>3, <2>1, <2>3 DEF Miss, LookedInv
    <2>4. CASE pc = "verify" /\ Seen # NoCandidate /\ candidate' = Seen
        BY <2>1, <2>4, SeenType DEF LookedInv, Parsing
    <2>. QED BY <1>3, <2>2, <2>3, <2>4, CandidateStep
<1>4. ASSUME NEW c \in todo' PROVE Settled(c)'
    <2>1. pc' \notin {"idle", "lost", "open"} /\ c \in Candidate
        BY <1>4 DEF LocalInv, CallType
    <2>2. ~ \E i \in Instances : Load(i)
        BY <2>1 DEF Load
    <2>3. UNCHANGED scope /\ scope \in Instances \X Dirs
        <3>1. UNCHANGED scope
            BY <2>2, ScopeStep
        <3>2. scope' \in Instances \X Dirs
            <4>1. pc' \in {"open", "list", "next"} \/ Parsing'
                BY <2>1 DEF CallType, Parsing
            <4>. QED BY <4>1 DEF LocalInv
        <3>. QED BY <3>1, <3>2
    <2>4. CASE c \in todo
        <3>1. c.entry \in strayed /\ c.entry \notin strayed' => FALSE
            <4>. SUFFICES ASSUME c.entry \in strayed, c.entry \notin strayed' PROVE FALSE
                OBVIOUS
            <4>1. CASE Inspect(c.entry)
                BY <2>4, <4>1 DEF Inspect, LookedInv
            <4>2. CASE c.entry = candidate.entry /\ (Gone \/ Stable \/ Retry \/ GiveUp)
                BY <2>4, <4>2 DEF Gone, Stable, Retry, GiveUp, LookedInv, Parsing
            <4>. QED BY <2>2, <4>1, <4>2, StrayedStep
        <3>2. Settled(c)
            BY <2>4 DEF LookedInv
        <3>. QED BY <2>1, <2>3, <3>1, <3>2, SettledStep DEF Settled
    <2>5. ASSUME NEW e \in unlisted, Inspect(e), Look(e) # NoCandidate, c = Look(e)
          PROVE  Settled(c)'
        <3>1. /\ Look(e).entry = e /\ Look(e).file = link[Directory][e]
              /\ UNCHANGED <<link, scope>>
            BY <2>3, <2>5, ScopeInCall, LookType DEF Inspect, CallType
        <3>. QED BY <2>5, <3>1 DEF Settled, Directory
    <2>. QED BY <2>4, <2>5, TodoStep
<1>5. ASSUME Parsing' PROVE Settled(candidate)'
    <2>1. ~ \E i \in Instances : Load(i)
        BY <1>5 DEF Load, Parsing
    <2>2. UNCHANGED scope /\ scope \in Instances \X Dirs
        <3>1. UNCHANGED scope
            BY <2>1, ScopeStep
        <3>2. scope' \in Instances \X Dirs
            BY <1>5 DEF LocalInv
        <3>. QED BY <3>1, <3>2
    <2>3. CASE Parsing /\ UNCHANGED candidate /\ (pc' = pc \/ Parse)
        <3>1. ~Gone /\ ~Stable /\ ~Retry /\ ~GiveUp /\ \A e \in Entries : ~Inspect(e)
            BY <2>3 DEF Gone, Stable, Retry, GiveUp, Inspect, Parse, Parsing
        <3>2. candidate \in Candidate /\ Settled(candidate)
            BY <2>3 DEF LocalInv, LookedInv
        <3>3. candidate.entry \in strayed => candidate.entry \in strayed'
            BY <2>1, <3>1, <3>2, StrayedStep DEF Candidate
        <3>. QED BY <2>2, <2>3, <3>2, <3>3, SettledStep DEF Settled
    <2>4. CASE Miss /\ candidate' = FirstCandidate /\ FirstCandidate \in todo
        BY <2>4 DEF Miss, fsVars, LookedInv, Settled, Directory
    <2>5. CASE Retry /\ pc = "verify" /\ Seen # NoCandidate /\ candidate' = Seen
        BY <2>2, <2>5, SeenType DEF Retry, Settled, Directory
    <2>. QED BY <1>5, <2>3, <2>4, <2>5, CandidateStep
<1>. QED BY <1>1, <1>2, <1>3, <1>4, <1>5 DEF LookedInv

LEMMA ParseInvStep ==
    ASSUME FineClock, LinksSettle, IInv, IInv', ClockInv, LookedInv, ParseInv, [Next]_vars
    PROVE  ParseInv'
<1>. USE DEF IInv, TypeOK
<1>. SUFFICES ASSUME pc' = "verify", parsed' # Failed,
                     link'[Directory'][candidate'.entry] = candidate'.file,
                     sig'[candidate'.file] = candidate'.sig
              PROVE  parsed' = text'[candidate'.file]
    BY DEF ParseInv
<1>1. CASE Parse
    <2>1. /\ UNCHANGED <<link, scope, candidate, text, sig>>
          /\ parsed' = text[link[Directory][candidate.entry]]
        BY <1>1 DEF Parse, fsVars, cacheVars
    <2>. QED BY <2>1 DEF Directory
<1>2. CASE UNCHANGED <<text, sig, link, scope, callVars>>
    BY <1>2 DEF callVars, Directory, ParseInv
<1>3. ASSUME NEW f \in Files, NEW t \in Texts, Write(f, t) PROVE parsed' = text'[candidate'.file]
    <2>1. /\ UNCHANGED <<link, scope, callVars>> /\ text' = [text EXCEPT ![f] = t]
          /\ sig' = [sig EXCEPT ![f] = clock + 1]
        BY <1>3 DEF Write, Changed, cacheVars
    <2>2. /\ pc = "verify" /\ candidate \in Candidate /\ candidate.sig <= clock
          /\ UNCHANGED <<candidate, parsed>>
        BY <2>1, CandidateInParse DEF callVars, ClockInv, Parsing
    <2>3. candidate.file \in Files /\ candidate.sig \in Nat /\ clock \in Nat
        BY <2>2 DEF Candidate, Instants, FileSystemType
    <2>4. candidate.file # f
        <3>1. f = candidate.file => sig'[candidate.file] = clock + 1
            BY <2>1 DEF FileSystemType
        <3>. QED BY <2>2, <2>3, <3>1
    <2>. QED BY <2>1, <2>2, <2>3, <2>4 DEF Directory, ParseInv, FileSystemType
<1>4. ASSUME NEW d \in Dirs, NEW e \in Entries, NEW f \in Files \cup {NoFile}, Relink(d, e, f)
      PROVE  parsed' = text'[candidate'.file]
    <2>1. UNCHANGED <<text, sig, scope, callVars>>
        BY <1>4 DEF Relink, Changed, cacheVars
    <2>2. pc = "verify" /\ candidate \in Candidate /\ UNCHANGED <<candidate, parsed>>
        BY <2>1, CandidateInParse DEF callVars
    <2>3. candidate.entry \in Entries /\ scope \in Instances \X Dirs
        BY <2>2, ScopeInCall DEF Candidate
    <2>4. CASE link'[Directory'][candidate.entry] = link[Directory][candidate.entry]
        BY <2>1, <2>2, <2>4 DEF ParseInv
    <2>5. CASE /\ candidate.entry \notin strayed
               /\ link'[Directory'][candidate.entry] # link[Directory][candidate.entry]
        <3>1. link[Directory][candidate.entry] = candidate.file
            BY <2>2, <2>5 DEF LookedInv, Settled, Parsing
        <3>. QED BY <2>2, <2>5, <3>1
    <2>. QED BY <2>1, <2>3, <2>4, <2>5, LinkStep
<1>5. CASE \/ \E d \in Dirs : Chmod(d)
           \/ \E i \in Instances, d \in Dirs \cup {NoDir} : Relocate(i, d)
    BY <1>2, <1>5 DEF Chmod, Relocate, Changed, cacheVars
<1>6. CASE UNCHANGED vars
    BY <1>2, <1>6 DEF vars, fsVars, cacheVars
<1>7. ASSUME NEW i \in Instances, Load(i) PROVE FALSE
    BY <1>7 DEF Load
<1>8. ASSUME NEW e \in Entries, Inspect(e) PROVE FALSE
    BY <1>8 DEF Inspect
<1>9. CASE LocateFails \/ Open \/ DirectoryUnreadable \/ EndListing \/ SkipProcessed \/ Hit
           \/ Miss \/ Finish
    BY <1>9 DEF LocateFails, Open, DirectoryUnreadable, EndListing, SkipProcessed, Hit, Miss,
                Finish, ReturnError, Return
<1>10. CASE Gone \/ Stable \/ Retry \/ GiveUp
    BY <1>10 DEF Gone, Stable, Retry, GiveUp
<1>. QED
    BY <1>1, <1>3, <1>4, <1>5, <1>6, <1>7, <1>8, <1>9, <1>10 DEF Next, FileSystem, Step

\* What a cached result is of: nothing newer than the cache knows.
LEMMA CacheIsCurrentStep ==
    ASSUME FineClock, IInv, IInv', ClockInv, ParseInv, CacheIsCurrent, [Next]_vars
    PROVE  CacheIsCurrent'
<1>. USE DEF IInv, TypeOK
<1>. SUFFICES ASSUME NEW f \in Files, cache'[f] # NotCached, cache'[f].sig = sig'[f]
              PROVE  cache'[f].text = text'[f]
    BY DEF CacheIsCurrent
<1>1. ASSUME NEW g \in Files, NEW t \in Texts, Write(g, t) PROVE cache'[f].text = text'[f]
    <2>1. /\ UNCHANGED cache /\ text' = [text EXCEPT ![g] = t]
          /\ sig' = [sig EXCEPT ![g] = clock + 1]
        BY <1>1 DEF Write, Changed, cacheVars
    <2>2. cache[f].sig <= clock /\ cache[f].sig \in Nat /\ clock \in Nat
        BY <2>1, CachedType DEF ClockInv, Instants, FileSystemType
    <2>3. f # g
        BY <2>1, <2>2 DEF FileSystemType
    <2>. QED BY <2>1, <2>3 DEF FileSystemType, CacheIsCurrent
<1>2. CASE Learned
    <2>1. /\ UNCHANGED <<text, sig>>
          /\ cache' = [cache EXCEPT ![candidate.file] = [sig |-> candidate.sig, text |-> parsed]]
          /\ parsed = text[candidate.file] /\ candidate.file \in Files
        BY <1>2, StepReads, LearnedIsCurrent DEF Learned, Step
    <2>2. CASE f = candidate.file
        BY <2>1, <2>2 DEF CacheType
    <2>3. CASE f # candidate.file
        BY <2>1, <2>3 DEF CacheType, CacheIsCurrent
    <2>. QED BY <2>2, <2>3
<1>3. CASE cache'[f] = cache[f] /\ UNCHANGED <<text, sig>>
    BY <1>3 DEF CacheIsCurrent
<1>4. (\E g \in Files, t \in Texts : Write(g, t)) \/ UNCHANGED <<text, sig>>
    BY StepReads DEF Next, FileSystem, Relink, Chmod, Relocate
<1>. QED BY <1>1, <1>2, <1>3, <1>4, CacheStep

\* A load remembers every text that a file holds while it runs.
LEMMA HeldStep ==
    ASSUME IInv, HeldInv, [Next]_vars, Loading, Loading'
    PROVE  \A f \in Files : held[f] \subseteq held'[f] /\ text'[f] \in held'[f]
<1>. USE DEF IInv, TypeOK
<1>1. \A f \in Files : text[f] \in held[f]
    BY DEF HeldInv
<1>2. ASSUME NEW g \in Files, NEW t \in Texts, Write(g, t)
      PROVE  \A f \in Files : held[f] \subseteq held'[f] /\ text'[f] \in held'[f]
    BY <1>1, <1>2 DEF Write, FileSystemType, AnswerType
<1>3. CASE FileSystem /\ ~ \E g \in Files, t \in Texts : Write(g, t)
    BY <1>1, <1>3 DEF FileSystem, Relink, Chmod, Relocate
<1>4. CASE UNCHANGED <<text, held>>
    BY <1>1, <1>4
<1>5. ASSUME NEW i \in Instances, Load(i) PROVE FALSE
    BY <1>5 DEF Load, Loading
<1>6. CASE LocateFails \/ DirectoryUnreadable \/ Finish
    BY <1>6 DEF LocateFails, DirectoryUnreadable, Finish, ReturnError, Return, Loading
<1>7. ASSUME NEW e \in Entries, Inspect(e) PROVE UNCHANGED <<text, held>>
    BY <1>7 DEF Inspect
<1>8. CASE Open \/ EndListing \/ SkipProcessed \/ Hit \/ Miss \/ Parse
    BY <1>4, <1>8 DEF Open, EndListing, SkipProcessed, Hit, Miss, Parse, fsVars
<1>9. CASE Gone \/ Stable \/ Retry \/ GiveUp
    BY <1>4, <1>9 DEF Gone, Stable, Retry, GiveUp
<1>10. CASE UNCHANGED vars
    BY <1>4, <1>10 DEF vars, fsVars
<1>. QED BY <1>2, <1>3, <1>4, <1>5, <1>6, <1>7, <1>8, <1>9, <1>10 DEF Next, Step

\* A call begins with what every file holds, and with no row and no candidate.
LEMMA LoadHolds ==
    ASSUME IInv, NEW i \in Instances, Load(i), rows = {}
    PROVE  HeldInv'
<1>1. /\ held' = [f \in Files |-> {text[f]}] /\ UNCHANGED <<text, rows, todo>>
      /\ pc' # "idle" /\ todo = {}
    BY DEF Load, IInv, LocalInv
<1>. QED BY <1>1 DEF HeldInv, Loading

\* Between calls no row is shown.
LEMMA IdleShows ==
    ASSUME NEW kind, NEW theRows, NEW thePrints, Return(kind, theRows, thePrints)
    PROVE  HeldInv' /\ rows' = {}
BY DEF Return, HeldInv, Loading

\* Where the rows of a load come from: out of the cache, or from a verified parse.
LEMMA RowsStep ==
    ASSUME IInv, ParseInv, HeldInv, [Next]_vars, Loading, NEW r \in rows', r \notin rows
    PROVE  r.text \in held[r.file] /\ r.file \in Files
<1>. USE DEF IInv, TypeOK
<1>1. CASE Hit
    <2>1. /\ FirstCandidate \in todo /\ Unchanged(FirstCandidate)
          /\ r = [entry |-> FirstCandidate.entry, file |-> FirstCandidate.file,
                  text |-> cache[FirstCandidate.file].text]
        BY <1>1, FirstIsOne DEF Hit, Show, CallType
    <2>. QED BY <2>1 DEF HeldInv, CallType, Candidate
<1>2. CASE Stable
    <2>1. /\ parsed \in Profiles
          /\ r = [entry |-> candidate.entry, file |-> candidate.file, text |-> parsed]
        BY <1>2 DEF Stable, Show
    <2>2. parsed # Failed
        BY <2>1, RepositoryAssumption
    <2>. QED BY <1>2, <2>1, <2>2, LearnedIsCurrent DEF HeldInv
<1>3. CASE FileSystem \/ UNCHANGED vars
    BY <1>3 DEF FileSystem, Write, Relink, Chmod, Relocate, Changed, vars, callVars
<1>4. ASSUME NEW i \in Instances, Load(i) PROVE FALSE
    BY <1>4 DEF Load, Loading
<1>5. CASE LocateFails \/ DirectoryUnreadable \/ Finish
    BY <1>5 DEF LocateFails, DirectoryUnreadable, Finish, ReturnError, Return
<1>6. ASSUME NEW e \in Entries, Inspect(e) PROVE FALSE
    BY <1>6 DEF Inspect
<1>7. CASE Open \/ EndListing \/ SkipProcessed \/ Miss \/ Parse \/ Gone \/ Retry \/ GiveUp
    BY <1>7 DEF Open, EndListing, SkipProcessed, Miss, Parse, Gone, Retry, GiveUp
<1>. QED BY <1>1, <1>2, <1>3, <1>4, <1>5, <1>6, <1>7 DEF Next, Step

LEMMA HeldInvStep ==
    ASSUME IInv, IInv', ParseInv, HeldInv, CacheIsCurrent, [Next]_vars, Loading, Loading'
    PROVE  HeldInv'
<1>. USE DEF IInv, TypeOK
<1>1. \A f \in Files : held[f] \subseteq held'[f] /\ text'[f] \in held'[f]
    BY HeldStep
<1>2. ASSUME NEW r \in rows' PROVE r.text \in held'[r.file]
    <2>1. CASE r \in rows
        BY <1>1, <2>1 DEF HeldInv, CallType, Row
    <2>2. CASE r \notin rows
        BY <1>1, <2>2, RowsStep
    <2>. QED BY <2>1, <2>2
<1>3. ASSUME NEW c \in todo', cache'[c.file] # NotCached, cache'[c.file].sig = c.sig
      PROVE  cache'[c.file].text \in held'[c.file]
    <2>1. c.file \in Files
        BY DEF CallType, Candidate
    <2>2. CASE Learned /\ c.file = candidate.file
        <3>1. /\ cache' = [cache EXCEPT ![candidate.file] = [sig |-> candidate.sig, text |-> parsed]]
              /\ parsed = text[candidate.file]
            BY <2>2, LearnedIsCurrent DEF Learned
        <3>2. cache'[c.file].text = text[c.file]
            BY <2>1, <2>2, <3>1 DEF CacheType
        <3>. QED BY <1>1, <2>1, <3>2 DEF HeldInv
    <2>3. CASE cache'[c.file] = cache[c.file]
        <3>1. CASE c \in todo
            BY <1>1, <1>3, <2>1, <2>3, <3>1 DEF HeldInv, Unchanged
        <3>2. ASSUME NEW e \in unlisted, Inspect(e), Look(e) # NoCandidate, c = Look(e)
              PROVE  cache'[c.file].text \in held'[c.file]
            <4>1. c.sig = sig[c.file]
                BY <3>2, ScopeInCall, LookType DEF Inspect, CallType
            <4>2. cache[c.file].text = text[c.file]
                BY <1>3, <2>1, <2>3, <4>1 DEF CacheIsCurrent
            <4>. QED BY <1>1, <2>1, <2>3, <4>2 DEF HeldInv
        <3>. QED BY <3>1, <3>2, TodoStep
    <2>4. CASE Learned /\ c.file # candidate.file
        <3>1. cache'[c.file] = cache[c.file]
            BY <2>1, <2>4 DEF Learned, CacheType
        <3>. QED BY <2>3, <3>1
    <2>. QED BY <1>3, <2>1, <2>2, <2>3, <2>4, CacheStep
<1>. QED BY <1>1, <1>2, <1>3 DEF HeldInv, Unchanged

\* Where a call begins and where it ends.
LEMMA LoadingStep ==
    ASSUME [Next]_vars
    PROVE  \/ Loading /\ Loading'
           \/ ~Loading /\ (\E i \in Instances : Load(i))
           \/ Loading /\ (LocateFails \/ DirectoryUnreadable \/ Finish)
           \/ ~Loading /\ ~Loading' /\ UNCHANGED <<callVars, answerVars>>
              /\ (FileSystem \/ UNCHANGED vars)
<1>. USE DEF Loading
<1>1. CASE FileSystem \/ UNCHANGED vars
    BY <1>1 DEF FileSystem, Write, Relink, Chmod, Relocate, Changed, vars, callVars
<1>2. ASSUME NEW i \in Instances, Load(i) PROVE ~Loading
    BY <1>2 DEF Load
<1>3. CASE LocateFails \/ DirectoryUnreadable \/ Finish
    BY <1>3 DEF LocateFails, DirectoryUnreadable, Finish
<1>4. ASSUME NEW e \in Entries, Inspect(e) PROVE Loading /\ Loading'
    BY <1>4 DEF Inspect
<1>5. CASE Open \/ EndListing \/ SkipProcessed \/ Hit \/ Miss \/ Parse
    BY <1>5 DEF Open, EndListing, SkipProcessed, Hit, Miss, Parse
<1>6. CASE Gone \/ Stable \/ Retry \/ GiveUp
    BY <1>6 DEF Gone, Stable, Retry, GiveUp
<1>. QED BY <1>1, <1>2, <1>3, <1>4, <1>5, <1>6 DEF Next, Step

\* Between calls nothing is remembered and no row is shown.
LEMMA IdleIsEmpty ==
    ASSUME IInv, HeldInv, ~Loading
    PROVE  rows = {} /\ held = [f \in Files |-> {}] /\ todo = {}
<1>1. held = [f \in Files |-> {}] /\ \A r \in rows : r.file \in Files /\ r.text \in held[r.file]
    BY DEF HeldInv, IInv, TypeOK, CallType, Row
<1>2. rows = {}
    BY <1>1
<1>. QED BY <1>1, <1>2 DEF IInv, LocalInv, Loading

LEMMA HeldInvNext ==
    ASSUME IInv, IInv', ParseInv, HeldInv, CacheIsCurrent, [Next]_vars
    PROVE  HeldInv'
<1>1. CASE Loading /\ Loading'
    BY <1>1, HeldInvStep
<1>2. CASE ~Loading /\ (\E i \in Instances : Load(i))
    BY <1>2, IdleIsEmpty, LoadHolds
<1>3. CASE LocateFails \/ DirectoryUnreadable \/ Finish
    BY <1>3, IdleShows DEF LocateFails, DirectoryUnreadable, Finish, ReturnError
<1>4. CASE ~Loading /\ ~Loading' /\ UNCHANGED <<callVars, answerVars>> /\ (FileSystem \/ UNCHANGED vars)
    <2>1. UNCHANGED held
        BY <1>4 DEF FileSystem, Write, Relink, Chmod, Relocate, vars
    <2>. QED BY <1>4, <2>1, IdleIsEmpty DEF callVars, HeldInv
<1>. QED BY <1>1, <1>2, <1>3, <1>4, LoadingStep

LEMMA InitFreshInv == Init => FreshInv
<1>. SUFFICES ASSUME Init PROVE FreshInv
    OBVIOUS
<1>1. ClockInv /\ LookedInv /\ ParseInv
    BY DEF Init, ClockInv, LookedInv, ParseInv, Parsing
<1>2. HeldInv /\ CacheIsCurrent
    BY DEF Init, HeldInv, Loading, CacheIsCurrent
<1>. QED BY <1>1, <1>2 DEF FreshInv

LEMMA NextFreshInv ==
    ASSUME FineClock, LinksSettle
    PROVE  IInv /\ IInv' /\ FreshInv /\ [Next]_vars => FreshInv'
<1>. SUFFICES ASSUME IInv, IInv', FreshInv, [Next]_vars PROVE FreshInv'
    OBVIOUS
<1>. USE DEF FreshInv
<1>1. ClockInv' /\ LookedInv'
    BY ClockInvStep, LookedInvStep
<1>2. ParseInv'
    BY ParseInvStep
<1>3. HeldInv' /\ CacheIsCurrent'
    BY HeldInvNext, CacheIsCurrentStep
<1>. QED BY <1>1, <1>2, <1>3

\* The inductive invariant when every write has an instant of its own and links settle.
THEOREM RepositoryFreshInv ==
    ASSUME FineClock, LinksSettle
    PROVE  Spec => [](IInv /\ FreshInv)
<1>1. Init => IInv /\ FreshInv
    BY InitIInv, InitFreshInv
<1>2. (IInv /\ FreshInv) /\ [Next]_vars => (IInv /\ FreshInv)'
    BY NextIInv, NextFreshInv
<1>. QED BY <1>1, <1>2, PTL DEF Spec

\* A result that the next load may use out of cache_ is what its file holds, in every
\* interleaving of writes and links with listing, parsing and verifying.
THEOREM RepositoryCacheIsCurrent ==
    ASSUME FineClock, LinksSettle
    PROVE  Spec => []CacheIsCurrent
<1>1. IInv /\ FreshInv => CacheIsCurrent
    BY DEF FreshInv
<1>. QED BY <1>1, RepositoryFreshInv, PTL

-----------------------------------------------------------------------------
(* A quiet load shows its directory as it is.                              *)

\* The eligible candidates are what a look at their entries tells.
LEMMA EligibleType ==
    ASSUME FileSystemType, Directory \in Dirs
    PROVE  /\ Eligible \subseteq Candidate
           /\ \A c \in Eligible : /\ c = Look(c.entry) /\ c.file = link[Directory][c.entry]
                                  /\ c.sig = sig[c.file]
<1>. SUFFICES ASSUME NEW c \in Eligible
              PROVE  /\ c \in Candidate /\ c = Look(c.entry)
                     /\ c.file = link[Directory][c.entry] /\ c.sig = sig[c.file]
    OBVIOUS
<1>1. PICK e \in Entries : c = Look(e) /\ Look(e) # NoCandidate
    BY DEF Eligible
<1>. QED BY <1>1, LookType

\* A file has one first candidate.
LEMMA OneFirst ==
    ASSUME FileSystemType, Directory \in Dirs,
           NEW c \in FirstOfEach(Eligible), NEW d \in FirstOfEach(Eligible), c.file = d.file
    PROVE  c = d
<1>1. c \in Eligible /\ d \in Eligible /\ c.entry <= d.entry /\ d.entry <= c.entry
    BY DEF FirstOfEach
<1>2. c.entry \in Nat /\ d.entry \in Nat
    BY <1>1, EligibleType, RepositoryAssumption DEF Candidate
<1>3. c.entry = d.entry
    BY <1>1, <1>2
<1>. QED BY <1>1, <1>3, EligibleType

\* What is eligible depends on the links and the signatures only.
LEMMA EligibleStays ==
    ASSUME UNCHANGED <<link, sig, scope>>
    PROVE  /\ Eligible' = Eligible
           /\ FirstOfEach(Eligible)' = FirstOfEach(Eligible)
           /\ \A e \in Entries : Look(e)' = Look(e)
<1>1. \A e : Look(e)' = Look(e)
    BY DEF Look, Directory, NoCandidate
<1>2. Eligible' = Eligible
    BY <1>1 DEF Eligible, NoCandidate
<1>. QED BY <1>1, <1>2 DEF FirstOfEach

\* A candidate that is yet to be shown is of a file that was not shown.
LEMMA AheadIsUnshown ==
    ASSUME FileSystemType, Directory \in Dirs, Ahead \subseteq FirstOfEach(Eligible), ShowsExactly,
           NEW c \in Ahead
    PROVE  Unshown(c)
<1>. SUFFICES ASSUME c.file \in processed PROVE FALSE
    BY DEF Unshown
<1>1. PICK d \in Shown : d.file = c.file
    BY DEF ShowsExactly
<1>2. c = d
    BY <1>1, OneFirst DEF Shown
<1>. QED BY <1>2 DEF Shown

\* To show a candidate with what its file holds is to show one more exactly.
LEMMA ShowAdvances ==
    ASSUME ShowsExactly, NEW c, Show(c, text[c.file]), Shown' = Shown \cup {c}, UNCHANGED text
    PROVE  ShowsExactly'
<1>1. processed' = {d.file : d \in Shown'}
    BY DEF Show, ShowsExactly
<1>2. prints' = {PrintOf(d) : d \in Shown'}
    BY DEF Show, ShowsExactly
<1>3. (\A d : RowOf(d)' = RowOf(d)) /\ RowOf(c) = [entry |-> c.entry, file |-> c.file, text |-> text[c.file]]
    BY DEF RowOf
<1>4. rows = {RowOf(d) : d \in {b \in Shown : text[b.file] \in Profiles}}
    BY DEF ShowsExactly
<1>5. rows' = rows \cup (IF text[c.file] \in Profiles THEN {RowOf(c)} ELSE {})
    BY <1>3 DEF Show
<1>6. rows' = {RowOf(d) : d \in {b \in Shown' : text[b.file] \in Profiles}}
    BY <1>4, <1>5
<1>7. rows' = {RowOf(d)' : d \in {b \in Shown' : text'[b.file] \in Profiles}}
    BY <1>3, <1>6
<1>8. prints' = {PrintOf(d)' : d \in Shown'}
    BY <1>2 DEF PrintOf
<1>. QED BY <1>1, <1>7, <1>8 DEF ShowsExactly

\* When nothing more is shown, what was shown stays exact.
LEMMA ShownStays ==
    ASSUME ShowsExactly, UNCHANGED <<processed, prints, rows, text>>, Shown' = Shown
    PROVE  ShowsExactly'
<1>1. (\A d : RowOf(d)' = RowOf(d)) /\ (\A d : PrintOf(d)' = PrintOf(d))
    BY DEF RowOf, PrintOf
<1>. QED BY <1>1 DEF ShowsExactly

LEMMA EmptyInvStep ==
    ASSUME EmptyInv, [Next]_vars
    PROVE  EmptyInv'
<1>. USE DEF EmptyInv
<1>1. CASE FileSystem \/ UNCHANGED vars
    BY <1>1 DEF FileSystem, Write, Relink, Chmod, Relocate, Changed, vars, callVars
<1>2. ASSUME NEW i \in Instances, Load(i) PROVE EmptyInv'
    BY <1>2 DEF Load
<1>3. CASE LocateFails \/ DirectoryUnreadable \/ Finish
    BY <1>3 DEF LocateFails, DirectoryUnreadable, Finish, ReturnError, Return
<1>4. ASSUME NEW e \in Entries, Inspect(e) PROVE EmptyInv'
    BY <1>4 DEF Inspect
<1>5. CASE Open \/ EndListing \/ SkipProcessed \/ Hit \/ Miss
    BY <1>5 DEF Open, EndListing, SkipProcessed, Hit, Miss
<1>6. CASE Parse \/ Gone \/ Stable \/ Retry \/ GiveUp
    BY <1>6 DEF Parse, Gone, Stable, Retry, GiveUp
<1>. QED BY <1>1, <1>2, <1>3, <1>4, <1>5, <1>6 DEF Next, Step

\* Changes of the file system disturb; a step of the load leaves the file system alone.
LEMMA QuietStep ==
    ASSUME [Next]_vars, ~disturbed'
    PROVE  \/ UNCHANGED vars
           \/ \E i \in Instances : Load(i)
           \/ Step /\ ~disturbed /\ UNCHANGED <<located, accessible, link, text, sig>>
                   /\ (Finish \/ LocateFails \/ UNCHANGED scope)
<1>1. ~FileSystem
    BY DEF FileSystem, Write, Relink, Chmod, Relocate, Changed
<1>2. ASSUME NEW e \in Entries, Inspect(e)
      PROVE  ~disturbed /\ UNCHANGED <<located, accessible, link, text, sig, scope>>
    BY <1>2 DEF Inspect, cacheVars
<1>3. CASE LocateFails \/ DirectoryUnreadable \/ Finish
    BY <1>3 DEF LocateFails, DirectoryUnreadable, Finish, fsVars, cacheVars, Step
<1>4. CASE Open \/ EndListing \/ SkipProcessed \/ Hit \/ Miss
    BY <1>4 DEF Open, EndListing, SkipProcessed, Hit, Miss, fsVars, cacheVars, Step
<1>5. CASE Parse
    BY <1>5 DEF Parse, fsVars, cacheVars, Step
<1>6. CASE Gone \/ Stable \/ Retry \/ GiveUp
    BY <1>6 DEF Gone, Stable, Retry, GiveUp, cacheVars, Step
<1>. QED BY <1>1, <1>2, <1>3, <1>4, <1>5, <1>6 DEF Next, Step

\* The second look of a quiet load agrees with the first.
LEMMA QuietLook ==
    ASSUME FileSystemType, Directory \in Dirs, ~disturbed, QuietShowing, Parsing
    PROVE  /\ candidate \in FirstOfEach(Eligible) /\ candidate \in Candidate
           /\ Seen = candidate /\ Seen # NoCandidate /\ Same(Seen, candidate)
<1>1. candidate \in FirstOfEach(Eligible)
    BY DEF QuietShowing, Ahead
<1>2. candidate \in Eligible
    BY <1>1 DEF FirstOfEach
<1>. QED BY <1>1, <1>2, EligibleType, NoneIsNone DEF Seen, Same

LEMMA QuietListingStep ==
    ASSUME IInv, QuietListing, [Next]_vars
    PROVE  QuietListing'
<1>. SUFFICES ASSUME ~disturbed', pc' = "list"
              PROVE  todo' = {Look(e)' : e \in Entries \ unlisted'} \ {NoCandidate}
    BY DEF QuietListing, NoCandidate
<1>1. CASE UNCHANGED vars
    <2>1. \A e : Look(e)' = Look(e)
        BY <1>1 DEF vars, fsVars, cacheVars, Look, Directory, NoCandidate
    <2>. QED BY <1>1, <2>1 DEF vars, callVars, QuietListing
<1>2. CASE \E i \in Instances : Load(i)
    BY <1>2 DEF Load
<1>3. CASE Open
    <2>1. todo' = {} /\ unlisted' = Entries
        BY <1>3 DEF Open, IInv, LocalInv
    <2>. QED BY <2>1
<1>4. ASSUME NEW e \in Entries, Inspect(e), ~disturbed
      PROVE  todo' = {Look(d)' : d \in Entries \ unlisted'} \ {NoCandidate}
    <2>1. /\ todo = {Look(d) : d \in Entries \ unlisted} \ {NoCandidate}
          /\ todo' = todo \cup ({Look(e)} \ {NoCandidate})
          /\ e \in unlisted /\ unlisted' = unlisted \ {e}
        BY <1>4 DEF Inspect, QuietListing
    <2>2. \A d : Look(d)' = Look(d)
        BY <1>4 DEF Inspect, cacheVars, Look, Directory, NoCandidate
    <2>3. todo' = {Look(d) : d \in (Entries \ unlisted) \cup {e}} \ {NoCandidate}
        BY <2>1
    <2>4. Entries \ unlisted' = (Entries \ unlisted) \cup {e}
        BY <2>1
    <2>. QED BY <2>2, <2>3, <2>4
<1>5. CASE LocateFails \/ DirectoryUnreadable \/ Finish \/ EndListing \/ SkipProcessed \/ Hit \/ Miss
    BY <1>5 DEF LocateFails, DirectoryUnreadable, Finish, ReturnError, Return, EndListing,
                SkipProcessed, Hit, Miss
<1>6. CASE Parse \/ Gone \/ Stable \/ Retry \/ GiveUp
    BY <1>6 DEF Parse, Gone, Stable, Retry, GiveUp
<1>. QED BY <1>1, <1>2, <1>3, <1>4, <1>5, <1>6, QuietStep DEF Step

\* What is listed is all there is, and the first names of it are ahead.
LEMMA QuietEnd ==
    ASSUME IInv, EmptyInv, QuietListing, ~disturbed, EndListing, UNCHANGED <<link, text, sig, scope>>
    PROVE  Ahead' \subseteq FirstOfEach(Eligible)' /\ ShowsExactly'
<1>1. todo' = FirstOfEach(Eligible) /\ pc' = "next"
    BY DEF EndListing, QuietListing, Eligible
<1>2. Ahead' = FirstOfEach(Eligible)'
    BY <1>1, EligibleStays DEF Ahead, Parsing
<1>3. Shown' = {}
    BY <1>2 DEF Shown
<1>4. processed' = {} /\ prints' = {} /\ rows' = {}
    BY DEF EndListing, EmptyInv
<1>. QED BY <1>2, <1>3, <1>4 DEF ShowsExactly

LEMMA QuietShowingStep ==
    ASSUME IInv, CacheIsCurrent, EmptyInv, QuietListing, QuietShowing, QuietParse, [Next]_vars
    PROVE  QuietShowing'
<1>. DEFINE Goal == /\ Ahead' \subseteq FirstOfEach(Eligible)' /\ (Parsing' => candidate' \notin todo')
                    /\ ShowsExactly'
<1>. SUFFICES ASSUME ~disturbed', pc' = "next" \/ Parsing' PROVE Goal
    BY DEF QuietShowing
<1>1. CASE UNCHANGED vars
    <2>1. Ahead' = Ahead /\ Parsing' = Parsing /\ disturbed' = disturbed
        BY <1>1 DEF vars, callVars, Ahead, Parsing
    <2>2. FirstOfEach(Eligible)' = FirstOfEach(Eligible)
        BY <1>1, EligibleStays DEF vars, fsVars, cacheVars
    <2>3. Shown' = Shown /\ UNCHANGED <<processed, prints, rows, text, pc, candidate, todo>>
        BY <1>1, <2>1, <2>2 DEF Shown, vars, fsVars, callVars
    <2>. QED BY <2>1, <2>2, <2>3, ShownStays DEF QuietShowing
<1>2. CASE \E i \in Instances : Load(i)
    BY <1>2 DEF Load, Parsing
<1>3. CASE Step /\ ~disturbed /\ UNCHANGED <<located, accessible, link, text, sig>>
           /\ (Finish \/ LocateFails \/ UNCHANGED scope)
    <2>1. CASE LocateFails \/ DirectoryUnreadable \/ Finish \/ Open
        BY <2>1 DEF LocateFails, DirectoryUnreadable, Finish, ReturnError, Return, Open, Parsing
    <2>2. ASSUME NEW e \in Entries, Inspect(e) PROVE Goal
        BY <2>2 DEF Inspect, Parsing
    <2>. SUFFICES ASSUME EndListing \/ SkipProcessed \/ Hit \/ Miss \/ Parse \/ Gone \/ Stable
                         \/ Retry \/ GiveUp
                  PROVE  Goal
        BY <1>3, <2>1, <2>2 DEF Step
    <2>3. UNCHANGED scope
        BY DEF EndListing, SkipProcessed, Hit, Miss, Parse, Gone, Stable, Retry, GiveUp, cacheVars
    <2>4. FirstOfEach(Eligible)' = FirstOfEach(Eligible)
        BY <1>3, <2>3, EligibleStays
    <2>5. FileSystemType /\ LocalInv /\ CallType
        BY DEF IInv, TypeOK
    <2>6. CASE EndListing
        <3>1. ~Parsing'
            BY <2>6 DEF EndListing, Parsing
        <3>. QED BY <1>3, <2>3, <2>6, <3>1, QuietEnd
    <2>. SUFFICES ASSUME SkipProcessed \/ Hit \/ Miss \/ Parse \/ Gone \/ Stable \/ Retry \/ GiveUp
                  PROVE  Goal
        BY <2>6
    <2>7. pc \in {"next", "parse", "verify"}
        BY DEF SkipProcessed, Hit, Miss, Parse, Gone, Stable, Retry, GiveUp
    <2>8. Directory \in Dirs
        BY <2>5, <2>7, ScopeInCall
    <2>9. Ahead \subseteq FirstOfEach(Eligible) /\ (Parsing => candidate \notin todo) /\ ShowsExactly
        BY <1>3, <2>7 DEF QuietShowing, Parsing
    <2>10. ASSUME SkipProcessed \/ Hit \/ Miss
           PROVE  /\ FirstCandidate \in todo /\ FirstCandidate \in Ahead /\ Unshown(FirstCandidate)
                  /\ Ahead = todo /\ pc = "next"
        <3>1. FirstCandidate \in todo /\ pc = "next"
            BY <2>5, <2>10, FirstIsOne DEF SkipProcessed, Hit, Miss, CallType
        <3>2. Ahead = todo
            BY <3>1 DEF Ahead, Parsing
        <3>. QED BY <2>5, <2>8, <2>9, <3>1, <3>2, AheadIsUnshown
    <2>11. CASE SkipProcessed
        BY <2>10, <2>11 DEF SkipProcessed
    <2>12. CASE Hit
        <3>1. /\ todo' = todo \ {FirstCandidate} /\ pc' = "next" /\ Unchanged(FirstCandidate)
              /\ Show(FirstCandidate, cache[FirstCandidate.file].text)
            BY <2>10, <2>12 DEF Hit
        <3>2. Ahead' = Ahead \ {FirstCandidate} /\ ~Parsing'
            BY <2>10, <2>12, <3>1 DEF Ahead, Parsing
        <3>3. Shown' = Shown \cup {FirstCandidate}
            BY <2>4, <2>9, <2>10, <2>12, <3>2 DEF Shown
        <3>4. FirstCandidate \in Eligible
            BY <2>9, <2>10, <2>12 DEF FirstOfEach
        <3>5. FirstCandidate.file \in Files /\ FirstCandidate.sig = sig[FirstCandidate.file]
            BY <2>5, <2>8, <3>4, EligibleType DEF Candidate
        <3>6. cache[FirstCandidate.file].text = text[FirstCandidate.file]
            BY <3>1, <3>5 DEF CacheIsCurrent, Unchanged
        <3>7. ShowsExactly'
            BY <1>3, <2>9, <3>1, <3>3, <3>6, ShowAdvances
        <3>. QED BY <2>4, <2>9, <3>2, <3>7
    <2>13. CASE Miss
        <3>1. /\ todo' = todo \ {FirstCandidate} /\ pc' = "parse" /\ candidate' = FirstCandidate
              /\ UNCHANGED <<processed, prints, rows>>
            BY <2>13 DEF Miss
        <3>2. Ahead' = Ahead /\ candidate' \notin todo'
            BY <2>10, <2>13, <3>1 DEF Ahead, Parsing
        <3>3. Shown' = Shown
            BY <2>4, <3>2 DEF Shown
        <3>. QED BY <1>3, <2>4, <2>9, <3>1, <3>2, <3>3, ShownStays
    <2>14. CASE Parse
        <3>1. pc = "parse" /\ pc' = "verify" /\ UNCHANGED <<todo, candidate, processed, prints, rows>>
            BY <2>14 DEF Parse
        <3>2. Ahead' = Ahead /\ Parsing
            BY <3>1 DEF Ahead, Parsing
        <3>3. Shown' = Shown
            BY <2>4, <3>2 DEF Shown
        <3>. QED BY <1>3, <2>4, <2>9, <3>1, <3>2, <3>3, ShownStays
    <2>15. ASSUME Gone \/ Stable \/ Retry \/ GiveUp
           PROVE  /\ candidate \in FirstOfEach(Eligible) /\ candidate \in Ahead /\ Unshown(candidate)
                  /\ Stable /\ pc = "verify" /\ Ahead = todo \cup {candidate}
        <3>1. pc = "verify" /\ Parsing
            BY <2>15 DEF Gone, Stable, Retry, GiveUp, Parsing
        <3>2. Ahead = todo \cup {candidate}
            BY <3>1 DEF Ahead
        <3>3. Seen # NoCandidate /\ Same(Seen, candidate)
            BY <1>3, <2>5, <2>8, <3>1, QuietLook
        <3>4. Stable
            BY <2>15, <3>3 DEF Gone, Retry, GiveUp
        <3>. QED BY <2>5, <2>8, <2>9, <3>1, <3>2, <3>4, AheadIsUnshown
    <2>16. CASE Stable
        <3>1. /\ Show(candidate, parsed) /\ pc' = "next" /\ UNCHANGED todo
            BY <2>15, <2>16 DEF Stable
        <3>2. Ahead' = Ahead \ {candidate} /\ ~Parsing'
            BY <2>9, <2>15, <2>16, <3>1 DEF Ahead, Parsing
        <3>3. Shown' = Shown \cup {candidate}
            BY <2>4, <2>9, <2>15, <2>16, <3>2 DEF Shown
        <3>4. parsed = text[candidate.file]
            BY <1>3, <2>15, <2>16 DEF QuietParse
        <3>5. ShowsExactly'
            BY <1>3, <2>9, <3>1, <3>3, <3>4, ShowAdvances
        <3>. QED BY <2>4, <2>9, <3>2, <3>5
    <2>. QED BY <2>11, <2>12, <2>13, <2>14, <2>15, <2>16
<1>. QED BY <1>1, <1>2, <1>3, QuietStep

LEMMA QuietParseStep ==
    ASSUME IInv, QuietShowing, QuietParse, [Next]_vars
    PROVE  QuietParse'
<1>. SUFFICES ASSUME ~disturbed', pc' = "verify" PROVE parsed' = text'[candidate'.file]
    BY DEF QuietParse
<1>1. CASE UNCHANGED vars
    BY <1>1 DEF vars, fsVars, callVars, QuietParse
<1>2. CASE Parse
    <2>1. /\ pc = "parse" /\ ~disturbed /\ UNCHANGED <<text, candidate>>
          /\ parsed' = text[link[Directory][candidate.entry]]
        BY <1>2 DEF Parse, fsVars
    <2>2. candidate \in FirstOfEach(Eligible) /\ Directory \in Dirs /\ FileSystemType
        BY <2>1, QuietLook, ScopeInCall DEF IInv, TypeOK, Parsing
    <2>3. candidate \in Eligible
        BY <2>2 DEF FirstOfEach
    <2>. QED BY <2>1, <2>2, <2>3, EligibleType
<1>3. CASE Gone \/ Stable \/ Retry \/ GiveUp
    BY <1>3 DEF Gone, Stable, Retry, GiveUp
<1>4. CASE Open \/ EndListing \/ SkipProcessed \/ Hit \/ Miss
    BY <1>4 DEF Open, EndListing, SkipProcessed, Hit, Miss
<1>5. CASE LocateFails \/ DirectoryUnreadable \/ Finish
    BY <1>5 DEF LocateFails, DirectoryUnreadable, Finish, ReturnError, Return
<1>6. ASSUME NEW e \in Entries, Inspect(e) PROVE FALSE
    BY <1>6 DEF Inspect
<1>7. ASSUME NEW i \in Instances, Load(i) PROVE FALSE
    BY <1>7 DEF Load
<1>. QED BY <1>1, <1>2, <1>3, <1>4, <1>5, <1>6, <1>7, QuietStep DEF Step

\* When all first names have been shown, the rows are those of the directory.
LEMMA AllShown ==
    ASSUME FileSystemType, Directory \in Dirs, ShowsExactly, Shown = FirstOfEach(Eligible)
    PROVE  LET names(f) == {e \in Entries : link[Directory][e] = f} IN
           /\ prints = {[file |-> f, sig |-> sig[f]] : f \in {g \in Files : names(g) # {}}}
           /\ rows = {r \in Row : /\ r.text = text[r.file] /\ r.text \in Profiles
                                  /\ r.entry \in names(r.file)
                                  /\ \A e \in names(r.file) : r.entry <= e}
<1>. DEFINE names(f) == {e \in Entries : link[Directory][e] = f}
            First(c) == /\ c \in Candidate /\ c.sig = sig[c.file] /\ c.entry \in names(c.file)
                        /\ \A e \in names(c.file) : c.entry <= e
<1>1. ASSUME NEW e \in Entries, NEW f \in Files, link[Directory][e] = f
      PROVE  Look(e) = [entry |-> e, file |-> f, sig |-> sig[f]] /\ Look(e) \in Eligible
    <2>1. f # NoFile
        BY RepositoryAssumption
    <2>2. Look(e) = [entry |-> e, file |-> f, sig |-> sig[f]]
        BY <1>1, <2>1 DEF Look
    <2>3. Look(e).file # NoCandidate.file
        BY <2>1, <2>2 DEF NoCandidate
    <2>. QED BY <2>2, <2>3 DEF Eligible
<1>2. ASSUME NEW c \in FirstOfEach(Eligible) PROVE First(c)
    <2>1. c \in Eligible /\ c \in Candidate /\ c.sig = sig[c.file] /\ link[Directory][c.entry] = c.file
        BY EligibleType DEF FirstOfEach
    <2>2. ASSUME NEW e \in names(c.file) PROVE c.entry <= e
        <3>1. Look(e).file = c.file /\ Look(e).entry = e /\ Look(e) \in Eligible
            BY <1>1, <2>1 DEF Candidate
        <3>. QED BY <3>1 DEF FirstOfEach
    <2>. QED BY <2>1, <2>2 DEF Candidate
<1>3. ASSUME NEW c, First(c) PROVE c \in FirstOfEach(Eligible)
    <2>1. Look(c.entry) = [entry |-> c.entry, file |-> c.file, sig |-> sig[c.file]]
          /\ Look(c.entry) \in Eligible
        BY <1>1, <1>3 DEF Candidate
    <2>2. c = [entry |-> c.entry, file |-> c.file, sig |-> sig[c.file]]
        BY <1>3 DEF Candidate
    <2>3. ASSUME NEW d \in Eligible, d.file = c.file PROVE c.entry <= d.entry
        <3>1. d.entry \in names(c.file)
            BY <2>3, EligibleType DEF Candidate
        <3>. QED BY <1>3, <3>1
    <2>. QED BY <2>1, <2>2, <2>3 DEF FirstOfEach
<1>4. ASSUME NEW f \in Files, names(f) # {}
      PROVE  \E c \in FirstOfEach(Eligible) : c.file = f
    <2>1. PICK e \in names(f) : \A d \in names(f) : e <= d
        BY <1>4, LeastEntry, RepositoryAssumption
    <2>2. First([entry |-> e, file |-> f, sig |-> sig[f]])
        BY <2>1 DEF FileSystemType, Candidate
    <2>. QED BY <1>3, <2>2
<1>. HIDE DEF names, First
<1>5. prints = {[file |-> f, sig |-> sig[f]] : f \in {g \in Files : names(g) # {}}}
    <2>1. ASSUME NEW c \in FirstOfEach(Eligible)
          PROVE  PrintOf(c) = [file |-> c.file, sig |-> sig[c.file]] /\ c.file \in Files /\ names(c.file) # {}
        BY <1>2 DEF First, PrintOf, Candidate
    <2>2. prints = {PrintOf(c) : c \in FirstOfEach(Eligible)}
        BY DEF ShowsExactly
    <2>3. ASSUME NEW p \in prints
          PROVE  p \in {[file |-> f, sig |-> sig[f]] : f \in {g \in Files : names(g) # {}}}
        BY <2>1, <2>2
    <2>4. ASSUME NEW f \in Files, names(f) # {} PROVE [file |-> f, sig |-> sig[f]] \in prints
        BY <1>4, <2>1, <2>2, <2>4
    <2>. QED BY <2>3, <2>4
<1>6. rows = {r \in Row : /\ r.text = text[r.file] /\ r.text \in Profiles
                          /\ r.entry \in names(r.file) /\ \A e \in names(r.file) : r.entry <= e}
    <2>1. rows = {RowOf(c) : c \in {d \in FirstOfEach(Eligible) : text[d.file] \in Profiles}}
        BY DEF ShowsExactly
    <2>2. ASSUME NEW r \in rows
          PROVE  /\ r \in Row /\ r.text = text[r.file] /\ r.text \in Profiles
                 /\ r.entry \in names(r.file) /\ \A e \in names(r.file) : r.entry <= e
        <3>1. PICK c \in FirstOfEach(Eligible) : text[c.file] \in Profiles /\ r = RowOf(c)
            BY <2>1
        <3>. QED BY <1>2, <3>1, RepositoryAssumption DEF First, RowOf, Row, Candidate
    <2>3. ASSUME NEW r \in Row, r.text = text[r.file], r.text \in Profiles,
                 r.entry \in names(r.file), \A e \in names(r.file) : r.entry <= e
          PROVE  r \in rows
        <3>. DEFINE c == [entry |-> r.entry, file |-> r.file, sig |-> sig[r.file]]
        <3>1. First(c)
            BY <2>3 DEF First, Row, Candidate, FileSystemType
        <3>2. r = RowOf(c) /\ text[c.file] \in Profiles
            BY <2>3 DEF Row, RowOf
        <3>. QED BY <1>3, <2>1, <3>1, <3>2
    <2>. QED BY <2>2, <2>3
<1>. QED BY <1>5, <1>6 DEF names

LEMMA QuietLoadStep ==
    ASSUME IInv, QuietShowing, QuietLoadIsExact, [Next]_vars
    PROVE  QuietLoadIsExact'
<1>. SUFFICES ASSUME outcome' = "snapshot", ~disturbed' PROVE QuietLoadIsExact'
    BY DEF QuietLoadIsExact
<1>1. CASE UNCHANGED vars
    BY <1>1 DEF vars, fsVars, cacheVars, answerVars, Directory, QuietLoadIsExact
<1>2. ASSUME NEW i \in Instances, Load(i) PROVE FALSE
    BY <1>2 DEF Load
<1>3. CASE Finish
    <2>1. /\ ~disturbed /\ pc = "next" /\ todo = {} /\ answer' = rows /\ answerPrints' = prints
          /\ UNCHANGED <<link, text, sig, scope>>
        BY <1>3 DEF Finish, Return, fsVars
    <2>2. Ahead = {} /\ ShowsExactly /\ FileSystemType /\ Directory \in Dirs
        BY <2>1, ScopeInCall DEF Ahead, Parsing, QuietShowing, IInv, TypeOK
    <2>3. Shown = FirstOfEach(Eligible)
        BY <2>2 DEF Shown
    <2>4. Directory' = Directory
        BY <2>1 DEF Directory
    <2>. QED BY <2>1, <2>2, <2>3, <2>4, AllShown DEF QuietLoadIsExact
<1>4. CASE Step /\ ~Finish
    BY <1>4, StepAnswers DEF IInv, LocateFails, DirectoryUnreadable, ReturnError, Return, answerVars
<1>. QED BY <1>1, <1>2, <1>3, <1>4, QuietStep

LEMMA InitQuietInv == Init => QuietInv
BY DEF Init, QuietInv, EmptyInv, QuietListing, QuietShowing, QuietParse, QuietLoadIsExact, Parsing

LEMMA NextQuietInv == IInv /\ FreshInv /\ QuietInv /\ [Next]_vars => QuietInv'
<1>. SUFFICES ASSUME IInv, FreshInv, QuietInv, [Next]_vars PROVE QuietInv'
    OBVIOUS
<1>1. EmptyInv' /\ QuietListing'
    BY EmptyInvStep, QuietListingStep DEF QuietInv
<1>2. QuietShowing'
    BY QuietShowingStep DEF QuietInv, FreshInv
<1>3. QuietParse' /\ QuietLoadIsExact'
    BY QuietParseStep, QuietLoadStep DEF QuietInv
<1>. QED BY <1>1, <1>2, <1>3 DEF QuietInv

\* A load() during which nothing changed and every read succeeded answers exactly the
\* profiles of its directory, each by the first of its names, with a fingerprint for every
\* file: what it takes from cache_ is as good as what it parses.
THEOREM RepositoryQuietLoadIsExact ==
    ASSUME FineClock, LinksSettle
    PROVE  Spec => []QuietLoadIsExact
<1>1. Init => IInv /\ FreshInv /\ QuietInv
    BY InitIInv, InitFreshInv, InitQuietInv
<1>2. (IInv /\ FreshInv /\ QuietInv) /\ [Next]_vars => (IInv /\ FreshInv /\ QuietInv)'
    BY NextIInv, NextFreshInv, NextQuietInv
<1>3. IInv /\ FreshInv /\ QuietInv => QuietLoadIsExact
    BY DEF QuietInv
<1>. QED BY <1>1, <1>2, <1>3, PTL DEF Spec

-----------------------------------------------------------------------------
(* The repository implements ProfileListing.                               *)

\* Rows of different files have one text for each file, and it is that row's.
LEMMA RowTexts ==
    ASSUME NEW S \in SUBSET Row, \A r, s \in S : r.file = s.file => r = s
    PROVE  /\ TextsOf(S) \in Listing!Answers
           /\ \A f \in DOMAIN TextsOf(S) : \E r \in S : r.file = f /\ TextsOf(S)[f] = r.text
<1>1. ASSUME NEW f \in DOMAIN TextsOf(S)
      PROVE  \E r \in S : r.file = f /\ TextsOf(S)[f] = r.text
    <2>1. PICK r \in S : r.file = f
        BY DEF TextsOf
    <2>2. (CHOOSE s \in S : s.file = f) = r
        BY <2>1
    <2>. QED BY <2>1, <2>2 DEF TextsOf
<1>2. DOMAIN TextsOf(S) \in SUBSET Files
    BY DEF TextsOf, Row
<1>3. \A f \in DOMAIN TextsOf(S) : TextsOf(S)[f] \in Texts
    BY <1>1 DEF Row
<1>4. TextsOf(S) = [f \in DOMAIN TextsOf(S) |-> TextsOf(S)[f]]
    BY DEF TextsOf
<1>5. TextsOf(S) \in [DOMAIN TextsOf(S) -> Texts]
    BY <1>3, <1>4
<1>. QED BY <1>1, <1>2, <1>5 DEF Listing!Answers

\* The initial states are initial states of the promise.
LEMMA InitListing == Init => Listing!Init
<1>. SUFFICES ASSUME Init PROVE Listing!Init
    OBVIOUS
<1>1. text \in [Files -> Texts] /\ Loading = FALSE /\ held = [f \in Files |-> {}] /\ answer = {}
    BY DEF Init, Loading
<1>2. AnswerTexts = [f \in {} |-> {}]
    BY <1>1 DEF AnswerTexts, TextsOf
<1>. QED BY <1>1, <1>2 DEF Listing!Init

\* A return is an answer of the promise, with the rows that were shown or with none.
LEMMA ReturnListing ==
    ASSUME IInv, IInv', HeldInv, Loading, UNCHANGED text, NEW kind, NEW theRows, NEW thePrints,
           theRows \subseteq rows, Return(kind, theRows, thePrints)
    PROVE  Listing!Answer
<1>1. Loading = TRUE /\ Loading' = FALSE /\ held' = [f \in Files |-> {}] /\ answer' = theRows
    BY DEF Return, Loading
<1>2. answer' \in SUBSET Row /\ \A r, s \in answer' : r.file = s.file => r = s
    BY DEF IInv, TypeOK, AnswerType, OneRowPerFile
<1>3. AnswerTexts' = TextsOf(answer')
    BY DEF AnswerTexts, TextsOf
<1>4. AnswerTexts' \in Listing!Answers
    BY <1>2, <1>3, RowTexts
<1>5. ASSUME NEW f \in DOMAIN AnswerTexts' PROVE AnswerTexts'[f] \in held[f]
    <2>1. PICK r \in answer' : r.file = f /\ AnswerTexts'[f] = r.text
        BY <1>2, <1>3, RowTexts
    <2>. QED BY <1>1, <2>1 DEF HeldInv
<1>. QED BY <1>1, <1>4, <1>5 DEF Listing!Answer

\* Every step is a step of the promise or leaves what it speaks of as it was.
LEMMA NextListing ==
    ASSUME IInv, IInv', HeldInv, [Next]_vars
    PROVE  [Listing!Next]_(Listing!vars)
<1>. DEFINE Still == UNCHANGED <<text, Loading, held, AnswerTexts>>
<1>1. Still => UNCHANGED Listing!vars
    BY DEF Listing!vars
<1>2. ASSUME NEW f \in Files, NEW t \in Texts, Write(f, t) PROVE Listing!Write
    <2>1. UNCHANGED Loading /\ UNCHANGED AnswerTexts
        BY <1>2 DEF Write, Changed, callVars, answerVars, Loading, AnswerTexts, TextsOf
    <2>. QED BY <1>2, <2>1 DEF Write, Listing!Write
<1>3. ASSUME NEW i \in Instances, Load(i) PROVE Listing!Call
    <2>1. Loading = FALSE /\ Loading' = TRUE
        BY <1>3 DEF Load, Loading
    <2>2. UNCHANGED <<text, AnswerTexts>> /\ held' = [f \in Files |-> {text[f]}]
        BY <1>3 DEF Load, AnswerTexts, TextsOf
    <2>. QED BY <2>1, <2>2 DEF Listing!Call
<1>4. CASE LocateFails \/ DirectoryUnreadable
    <2>1. Loading /\ UNCHANGED text /\ Return("error", {}, {})
        BY <1>4 DEF LocateFails, DirectoryUnreadable, ReturnError, fsVars, Loading
    <2>. QED BY <2>1, ReturnListing DEF Listing!Next
<1>5. CASE Finish
    <2>1. Loading /\ UNCHANGED text /\ Return("snapshot", rows, prints)
        BY <1>5 DEF Finish, fsVars, Loading
    <2>. QED BY <2>1, ReturnListing DEF Listing!Next
<1>6. CASE FileSystem /\ ~ \E f \in Files, t \in Texts : Write(f, t)
    <2>1. UNCHANGED <<text, held, callVars, answerVars>>
        BY <1>6 DEF FileSystem, Relink, Chmod, Relocate, Changed
    <2>2. Still
        BY <2>1 DEF callVars, answerVars, Loading, AnswerTexts, TextsOf
    <2>. QED BY <1>1, <2>2
<1>7. CASE UNCHANGED vars
    <2>1. Still
        BY <1>7 DEF vars, fsVars, callVars, answerVars, Loading, AnswerTexts, TextsOf
    <2>. QED BY <1>1, <2>1
<1>8. ASSUME Loading, Loading', UNCHANGED <<text, held, answerVars>> PROVE Still
    <2>1. Loading = TRUE /\ Loading' = TRUE
        BY <1>8 DEF Loading
    <2>2. UNCHANGED AnswerTexts
        BY <1>8 DEF answerVars, AnswerTexts, TextsOf
    <2>. QED BY <1>8, <2>1, <2>2
<1>9. ASSUME NEW e \in Entries, Inspect(e) PROVE Still
    BY <1>8, <1>9 DEF Inspect, Loading
<1>10. CASE Open \/ EndListing \/ SkipProcessed \/ Hit \/ Miss \/ Parse
    <2>1. Still
        BY <1>8, <1>10 DEF Open, EndListing, SkipProcessed, Hit, Miss, Parse, fsVars, Loading
    <2>. QED BY <1>1, <2>1
<1>11. CASE Gone \/ Stable \/ Retry \/ GiveUp
    <2>1. Still
        BY <1>8, <1>11 DEF Gone, Stable, Retry, GiveUp, Loading
    <2>. QED BY <1>1, <2>1
<1>. QED
    BY <1>1, <1>2, <1>3, <1>4, <1>5, <1>6, <1>7, <1>9, <1>10, <1>11
    DEF Next, FileSystem, Step, Listing!Next

\* ProfileRepository::load implements ProfileListing: no profile of a snapshot is older than
\* the call that answers it, or another file's.
THEOREM RepositoryKeepsPromise ==
    ASSUME FineClock, LinksSettle
    PROVE  Spec => KeepsPromise
<1>1. Init => Listing!Init
    BY InitListing
<1>2. (IInv /\ FreshInv) /\ (IInv /\ FreshInv)' /\ [Next]_vars => [Listing!Next]_(Listing!vars)
    BY NextListing DEF FreshInv
<1>3. Spec => Listing!Spec
    BY <1>1, <1>2, RepositoryFreshInv, PTL DEF Spec, Listing!Spec
<1>. QED BY <1>3 DEF KeepsPromise
=============================================================================
