------------------------- MODULE ProfileRepository -------------------------
(***************************************************************************)
(* ProfileRepository::load (core/profile_repository.cpp) with its cache of *)
(* parse results, against a file system that changes at any step.          *)
(*                                                                         *)
(* A file is known by its canonical path; several directory entries may    *)
(* lead to one file, and an entry may come to lead to another. What stat   *)
(* tells of a file beside its identity (device, inode, size, times) is its *)
(* signature, here the instant of its last write. The parser opens the     *)
(* entry by its path, so it reads what the entry leads to by then.         *)
(***************************************************************************)
EXTENDS Naturals, FiniteSets

CONSTANTS
    Instances,    \* Remmina installations
    Dirs,         \* profile directories, by host path
    Entries,      \* names ending in .remmina, numbered in name order
    Files,        \* canonical paths of files
    Texts,        \* contents of a file
    Profiles,     \* those that parse to a profile
    MaxChanges,   \* bound: changes of the file system
    FineClock,    \* is every write at an instant of its own?
    LinksSettle,  \* does an entry move at most once between two looks at it?
    NoFile, NoDir, NoScope, NotCached, Failed

ASSUME RepositoryAssumption ==
    /\ Entries \subseteq Nat /\ Profiles \subseteq Texts
    /\ MaxChanges \in Nat /\ FineClock \in BOOLEAN /\ LinksSettle \in BOOLEAN
    /\ NoFile \notin Files /\ NoDir \notin Dirs /\ Failed \notin Texts
    /\ NoScope \notin Instances \X Dirs
    /\ NotCached \notin [sig : Nat, text : Texts]

VARIABLES
    \* the file system (outside src/)
    located,     \* the directory the locator finds for an instance, or NoDir
    accessible,  \* the directories that can be listed and searched
    link,        \* the file each entry of each directory leads to
    text, sig,   \* what each file holds, and when that was written
    clock,
    strayed,     \* history: entries that moved since the load last looked at them
    \* ProfileRepository
    scope,       \* activeInstanceId_ and activeDirectory_
    cache,       \* cache_ of the active scope
    \* the running load
    pc, unlisted, todo, candidate, attempt, parsed,
    active, processed, rows, prints,
    \* the last answer, and history about it
    outcome, answer, answerPrints,
    held,        \* what each file has held since the load was called
    disturbed    \* the file system changed, or a read failed, since then

fsVars     == <<located, accessible, link, text, sig, clock, strayed>>
cacheVars  == <<scope, cache>>
callVars   == <<pc, unlisted, todo, candidate, attempt, parsed, active, processed, rows, prints>>
answerVars == <<outcome, answer, answerPrints>>
vars       == <<fsVars, cacheVars, callVars, answerVars, held, disturbed>>

Instants  == Nat
Candidate == [entry : Entries, file : Files, sig : Instants]
Row       == [entry : Entries, file : Files, text : Texts]
FilePrint == [file : Files, sig : Instants]
PrintOf(c) == [file |-> c.file, sig |-> c.sig]
NoCandidate == [entry |-> 0, file |-> NoFile, sig |-> 0]

Loading   == pc # "idle"
Directory == scope[2]

Init ==
    /\ located \in [Instances -> Dirs \cup {NoDir}] /\ accessible = Dirs
    /\ link \in [Dirs -> [Entries -> Files \cup {NoFile}]]
    /\ text \in [Files -> Texts] /\ sig = [f \in Files |-> 0] /\ clock = 0
    /\ strayed = {}
    /\ scope = NoScope /\ cache = [f \in Files |-> NotCached]
    /\ pc = "idle" /\ unlisted = {} /\ todo = {} /\ candidate = NoCandidate
    /\ attempt = 0 /\ parsed = Failed
    /\ active = {} /\ processed = {} /\ rows = {} /\ prints = {}
    /\ outcome = "none" /\ answer = {} /\ answerPrints = {}
    /\ held = [f \in Files |-> {}] /\ disturbed = FALSE

-----------------------------------------------------------------------------
(* The file system.                                                        *)

Changed ==
    /\ clock < MaxChanges
    /\ disturbed' = TRUE
    /\ UNCHANGED <<cacheVars, callVars, answerVars>>

\* A program writes a file, in place or by renaming a new one over it. With a
\* coarse clock the write may carry the time of the one before.
Write(f, t) ==
    /\ Changed
    /\ clock' = clock + 1
    /\ text' = [text EXCEPT ![f] = t]
    /\ sig' \in {[sig EXCEPT ![f] = clock + 1]}
                \cup (IF FineClock THEN {} ELSE {[sig EXCEPT ![f] = @]})
    /\ held' = IF Loading THEN [held EXCEPT ![f] = @ \cup {t}] ELSE held
    /\ UNCHANGED <<located, accessible, link, strayed>>

\* A symbolic link is retargeted, or an entry is made, removed or made ineligible.
Relink(d, e, f) ==
    /\ Changed
    /\ LinksSettle => e \notin strayed
    /\ f # link[d][e]
    /\ clock' = clock + 1
    /\ link' = [link EXCEPT ![d][e] = f]
    /\ strayed' = strayed \cup {e}
    /\ UNCHANGED <<located, accessible, text, sig, held>>

\* A directory loses or gains the permission to be read and searched.
Chmod(d) ==
    /\ Changed
    /\ clock' = clock + 1
    /\ accessible' = IF d \in accessible THEN accessible \ {d} ELSE accessible \cup {d}
    /\ UNCHANGED <<located, link, text, sig, strayed, held>>

Relocate(i, d) ==
    /\ Changed
    /\ clock' = clock + 1
    /\ d # located[i]
    /\ located' = [located EXCEPT ![i] = d]
    /\ UNCHANGED <<accessible, link, text, sig, strayed, held>>

-----------------------------------------------------------------------------
(* load(): locate, list                                                    *)

\* The call is over; its locals are gone.
Return(kind, theRows, thePrints) ==
    /\ outcome' = kind /\ answer' = theRows /\ answerPrints' = thePrints
    /\ pc' = "idle" /\ unlisted' = {} /\ todo' = {} /\ candidate' = NoCandidate
    /\ attempt' = 0 /\ parsed' = Failed
    /\ active' = {} /\ processed' = {} /\ rows' = {} /\ prints' = {}
    /\ held' = [f \in Files |-> {}]

ReturnError == Return("error", {}, {})

\* cache_ as a load in scope s finds it: another scope starts empty.
Scoped(s) == IF scope = s THEN cache ELSE [f \in Files |-> NotCached]

\* The call: a directory that cannot be located clears the cache and fails
\* later, in LocateFails; else the cache belongs to its scope from here on.
Load(i) ==
    /\ pc = "idle"
    /\ IF located[i] = NoDir
       THEN scope' = NoScope /\ cache' = [f \in Files |-> NotCached] /\ pc' = "lost"
       ELSE scope' = <<i, located[i]>> /\ cache' = Scoped(<<i, located[i]>>) /\ pc' = "open"
    /\ held' = [f \in Files |-> {text[f]}]
    /\ disturbed' = FALSE
    /\ strayed' = {}
    /\ outcome' = "none" /\ answerPrints' = {}
    /\ UNCHANGED <<located, accessible, link, text, sig, clock, answer,
                   unlisted, todo, candidate, attempt, parsed, active, processed, rows, prints>>

LocateFails ==
    /\ pc = "lost"
    /\ ReturnError
    /\ UNCHANGED <<fsVars, cacheVars, disturbed>>

\* opendir, and the permission to list and search.
Open ==
    /\ pc = "open" /\ Directory \in accessible
    /\ pc' = "list" /\ unlisted' = Entries
    /\ UNCHANGED <<fsVars, cacheVars, answerVars, held, disturbed, todo, candidate,
                   attempt, parsed, active, processed, rows, prints>>

\* The directory is found unreadable at any look at it: when it is opened, while it is
\* listed, or after a parse. The cache stays.
DirectoryUnreadable ==
    /\ pc \in {"open", "list", "verify"} /\ Directory \notin accessible
    /\ pc = "list" => unlisted # {}
    /\ ReturnError
    /\ UNCHANGED <<fsVars, cacheVars, disturbed>>

\* What a look at an entry finds: nothing eligible, or a candidate.
Look(e) ==
    LET f == link[Directory][e] IN
    IF f = NoFile THEN NoCandidate ELSE [entry |-> e, file |-> f, sig |-> sig[f]]

\* readdir gives the entries in any order; each is looked at when it comes.
Inspect(e) ==
    /\ pc = "list" /\ e \in unlisted /\ Directory \in accessible
    /\ unlisted' = unlisted \ {e}
    /\ todo' = todo \cup ({Look(e)} \ {NoCandidate})
    /\ strayed' = strayed \ {e}
    /\ UNCHANGED <<located, accessible, link, text, sig, clock, cacheVars, answerVars, held,
                   disturbed, pc, candidate, attempt, parsed, active, processed, rows, prints>>

\* Mutant of FirstOfEach: any entry of a file will do.
AnyOfEach(S) == {c \in S : \A d \in S : d.file = c.file => c.entry >= d.entry}

\* The candidates without those whose file an earlier name already leads to.
FirstOfEach(S) == {c \in S : \A d \in S : d.file = c.file => c.entry <= d.entry}

EndListing ==
    /\ pc = "list" /\ unlisted = {}
    /\ pc' = "next" /\ todo' = FirstOfEach(todo)
    /\ UNCHANGED <<fsVars, cacheVars, answerVars, held, disturbed, unlisted, candidate,
                   attempt, parsed, active, processed, rows, prints>>

-----------------------------------------------------------------------------
(* load(): each candidate in name order                                    *)

FirstCandidate == CHOOSE c \in todo : \A d \in todo : c.entry <= d.entry

\* A cached result is of the very signature that was listed.
Unchanged(c) == cache[c.file] # NotCached /\ cache[c.file].sig = c.sig

\* A result becomes part of the snapshot: always its fingerprint, and a row if it is a profile.
Show(c, result) ==
    /\ processed' = processed \cup {c.file}
    /\ prints' = prints \cup {PrintOf(c)}
    /\ rows' = rows \cup (IF result \in Profiles
                          THEN {[entry |-> c.entry, file |-> c.file, text |-> result]} ELSE {})

\* Mutant of Unshown: what was parsed is shown.
UnshownOrNot(c) == TRUE

\* processedIdentities does not have the file: no other entry has led to it so far.
Unshown(c) == c.file \notin processed

\* An entry that another one turned into during its parse is not shown twice.
SkipProcessed ==
    /\ pc = "next" /\ todo # {} /\ ~Unshown(FirstCandidate)
    /\ todo' = todo \ {FirstCandidate}
    /\ UNCHANGED <<fsVars, cacheVars, answerVars, held, disturbed, pc, unlisted, candidate,
                   attempt, parsed, active, processed, rows, prints>>

Hit ==
    /\ pc = "next" /\ todo # {} /\ Unshown(FirstCandidate)
    /\ Unchanged(FirstCandidate)
    /\ todo' = todo \ {FirstCandidate}
    /\ active' = active \cup {FirstCandidate.file}
    /\ Show(FirstCandidate, cache[FirstCandidate.file].text)
    /\ UNCHANGED <<fsVars, cacheVars, answerVars, held, disturbed, pc, unlisted, candidate,
                   attempt, parsed>>

Miss ==
    /\ pc = "next" /\ todo # {} /\ Unshown(FirstCandidate)
    /\ ~Unchanged(FirstCandidate)
    /\ cache' = [cache EXCEPT ![FirstCandidate.file] = NotCached]
    /\ candidate' = FirstCandidate /\ todo' = todo \ {FirstCandidate}
    /\ attempt' = 1 /\ pc' = "parse"
    /\ UNCHANGED <<fsVars, scope, answerVars, held, disturbed, unlisted, parsed, active,
                   processed, rows, prints>>

\* The parser reads what the path leads to now, or fails to read it.
Parse ==
    LET f == link[Directory][candidate.entry] IN
    /\ pc = "parse" /\ pc' = "verify"
    /\ \/ f # NoFile /\ Directory \in accessible /\ parsed' = text[f] /\ UNCHANGED disturbed
       \/ parsed' = Failed /\ disturbed' = TRUE
    /\ UNCHANGED <<fsVars, cacheVars, answerVars, held, unlisted, todo, candidate, attempt,
                   active, processed, rows, prints>>

Seen == Look(candidate.entry)

\* The second look finds nothing eligible any more: the entry is dropped.
Gone ==
    /\ pc = "verify" /\ Directory \in accessible /\ Seen = NoCandidate
    /\ pc' = "next" /\ candidate' = NoCandidate /\ attempt' = 0 /\ parsed' = Failed
    /\ strayed' = strayed \ {candidate.entry}
    /\ UNCHANGED <<located, accessible, link, text, sig, clock, cacheVars, answerVars, held,
                   disturbed, unlisted, todo, active, processed, rows, prints>>

\* Mutant of Same: a parse is not verified.
SameAlways(a, b) == TRUE

\* Identity and signature are those of the first look.
Same(a, b) == a.file = b.file /\ a.sig = b.sig

\* Mutant of Kept: a result that could not be read is remembered as a malformed one.
KeptAlways(result) ==
    [cache EXCEPT ![candidate.file] =
        [sig |-> candidate.sig, text |-> IF result = Failed THEN CHOOSE t \in Texts : t \notin Profiles
                                         ELSE result]]

\* The cache with a stable result, unless it could not be read.
Kept(result) ==
    IF result = Failed THEN cache
    ELSE [cache EXCEPT ![candidate.file] = [sig |-> candidate.sig, text |-> result]]

\* The second look agrees with the first: the result stands, unless its file has
\* been shown through another entry meanwhile.
Stable ==
    /\ pc = "verify" /\ Directory \in accessible
    /\ Seen # NoCandidate /\ Same(Seen, candidate)
    /\ pc' = "next" /\ candidate' = NoCandidate /\ attempt' = 0 /\ parsed' = Failed
    /\ strayed' = strayed \ {candidate.entry}
    /\ \/ /\ Unshown(candidate)
          /\ Show(candidate, parsed)
          /\ active' = active \cup {candidate.file} /\ cache' = Kept(parsed)
       \/ /\ ~Unshown(candidate)
          /\ cache' = [cache EXCEPT ![candidate.file] = NotCached]
          /\ UNCHANGED <<active, processed, rows, prints>>
    /\ UNCHANGED <<located, accessible, link, text, sig, clock, scope, answerVars, held,
                   disturbed, unlisted, todo>>

Forgotten == [cache EXCEPT ![candidate.file] = NotCached, ![Seen.file] = NotCached]

\* Mutant of MayRetry: as long as the file keeps changing.
MayRetryAlways == TRUE

\* One bounded retry.
MayRetry == attempt < 2

\* It does not: what was found instead is parsed in a second attempt ...
Retry ==
    /\ pc = "verify" /\ Directory \in accessible /\ MayRetry
    /\ Seen # NoCandidate /\ ~Same(Seen, candidate)
    /\ pc' = "parse" /\ attempt' = attempt + 1 /\ parsed' = Failed
    /\ candidate' = Seen /\ cache' = Forgotten
    /\ strayed' = strayed \ {candidate.entry}
    /\ UNCHANGED <<located, accessible, link, text, sig, clock, scope, answerVars, held,
                   disturbed, unlisted, todo, active, processed, rows, prints>>

\* ... and after that only its fingerprint is shown, for the catalog to notice.
GiveUp ==
    /\ pc = "verify" /\ Directory \in accessible /\ ~MayRetry
    /\ Seen # NoCandidate /\ ~Same(Seen, candidate)
    /\ pc' = "next" /\ candidate' = NoCandidate /\ attempt' = 0 /\ parsed' = Failed
    /\ cache' = Forgotten
    /\ strayed' = strayed \ {candidate.entry}
    /\ processed' = processed \cup {Seen.file}
    /\ prints' = IF Seen.file \in processed THEN prints ELSE prints \cup {PrintOf(Seen)}
    /\ UNCHANGED <<located, accessible, link, text, sig, clock, scope, answerVars, held,
                   disturbed, unlisted, todo, active, rows>>

\* Mutant of Evicted: what was not used stays.
EvictedNever == cache

\* The cache without what this load did not use.
Evicted == [f \in Files |-> IF f \in active THEN cache[f] ELSE NotCached]

Finish ==
    /\ pc = "next" /\ todo = {}
    /\ cache' = Evicted
    /\ Return("snapshot", rows, prints)
    /\ UNCHANGED <<fsVars, scope, disturbed>>

-----------------------------------------------------------------------------
FileSystem ==
    \/ \E f \in Files, t \in Texts : Write(f, t)
    \/ \E d \in Dirs, e \in Entries, f \in Files \cup {NoFile} : Relink(d, e, f)
    \/ \E d \in Dirs : Chmod(d)
    \/ \E i \in Instances, d \in Dirs \cup {NoDir} : Relocate(i, d)

Step ==
    \/ LocateFails \/ Open \/ DirectoryUnreadable \/ EndListing
    \/ \E e \in Entries : Inspect(e)
    \/ SkipProcessed \/ Hit \/ Miss \/ Parse \/ Gone \/ Stable \/ Retry \/ GiveUp \/ Finish

Next == FileSystem \/ (\E i \in Instances : Load(i)) \/ Step

Spec == Init /\ [][Next]_vars

-----------------------------------------------------------------------------
(* Properties                                                              *)

FileSystemType ==
    /\ located \in [Instances -> Dirs \cup {NoDir}] /\ accessible \subseteq Dirs
    /\ link \in [Dirs -> [Entries -> Files \cup {NoFile}]]
    /\ text \in [Files -> Texts] /\ sig \in [Files -> Instants] /\ clock \in Instants
    /\ strayed \subseteq Entries

CacheType ==
    /\ scope \in (Instances \X Dirs) \cup {NoScope}
    /\ cache \in [Files -> [sig : Instants, text : Texts] \cup {NotCached}]

CallType ==
    /\ pc \in {"idle", "lost", "open", "list", "next", "parse", "verify"}
    /\ unlisted \subseteq Entries /\ todo \subseteq Candidate
    /\ candidate \in Candidate \cup {NoCandidate} /\ attempt \in 0 .. 2
    /\ parsed \in Texts \cup {Failed}
    /\ active \subseteq Files /\ processed \subseteq Files
    /\ rows \subseteq Row /\ prints \subseteq FilePrint

AnswerType ==
    /\ outcome \in {"none", "error", "snapshot"}
    /\ answer \subseteq Row /\ answerPrints \subseteq FilePrint
    /\ held \in [Files -> SUBSET Texts] /\ disturbed \in BOOLEAN

\* Every variable has its type.
TypeOK == FileSystemType /\ CacheType /\ CallType /\ AnswerType

\* A cached result whose signature is that of the file now is what the file
\* holds now: the next load may use it (profile_repository.cpp:524). Writes at
\* instants of their own are assumed, and links that settle.
CacheIsCurrent ==
    \A f \in Files : cache[f] # NotCached /\ cache[f].sig = sig[f] => cache[f].text = text[f]

\* A snapshot shows a file once, whatever entries lead to it and however they
\* move meanwhile, and fingerprints the file of every row (profile_repository.cpp:581):
\* a row that no fingerprint covers is one whose change the catalog cannot see.
OneRowPerFile ==
    /\ \A r, s \in answer : r.file = s.file => r = s
    /\ \A p, q \in answerPrints : p.file = q.file => p = q
    /\ outcome = "snapshot" => \A r \in answer : \E p \in answerPrints : p.file = r.file

\* After a load that succeeds the cache knows only files of its answer
\* (profile_repository.cpp:618): it does not grow with the files that have come and gone.
CacheIsBounded ==
    outcome = "snapshot" => \A f \in Files : cache[f] # NotCached => \E p \in answerPrints : p.file = f

\* A load during which nothing changed and every read succeeded answers exactly the
\* profiles of its directory, each by the first of its names (profile_repository.cpp:411),
\* with a fingerprint for every file.
QuietLoadIsExact ==
    outcome = "snapshot" /\ ~disturbed =>
        LET names(f) == {e \in Entries : link[Directory][e] = f} IN
        /\ answerPrints = {[file |-> f, sig |-> sig[f]] : f \in {g \in Files : names(g) # {}}}
        /\ answer = {r \in Row : /\ r.text = text[r.file] /\ r.text \in Profiles
                                 /\ r.entry \in names(r.file)
                                 /\ \A e \in names(r.file) : r.entry <= e}

\* Rows as the promise sees them: a text for each file.
TextsOf(S) == [f \in {r.file : r \in S} |-> (CHOOSE r \in S : r.file = f).text]
AnswerTexts == TextsOf(answer)

Listing == INSTANCE ProfileListing WITH
    File <- Files, Text <- Texts, text <- text, loading <- Loading, held <- held,
    answer <- AnswerTexts

\* The repository keeps the promise of ProfileListing: no profile is older than the call
\* that answers it, or another file's.
KeepsPromise == Listing!Spec
-----------------------------------------------------------------------------
(* The inductive invariants behind the safety properties, in named parts.  *)

Parsing == pc \in {"parse", "verify"}

\* What the locals of a call are at each place in it.
LocalInv ==
    /\ pc \in {"open", "list", "next"} \/ Parsing => scope \in Instances \X Dirs
    /\ Parsing => candidate \in Candidate /\ attempt \in 1 .. 2
    /\ pc \in {"idle", "lost", "open"} => todo = {} /\ unlisted = {}
    /\ pc \in {"next", "parse", "verify"} => unlisted = {}
    /\ ~Parsing => attempt = 0 /\ candidate = NoCandidate
    /\ ~Parsing \/ pc = "parse" => parsed = Failed
    /\ Loading => outcome = "none" /\ answerPrints = {}

\* Rows, fingerprints and used cache entries of the running load belong together.
ShownInv ==
    /\ \A r, s \in rows : r.file = s.file => r = s
    /\ \A p, q \in prints : p.file = q.file => p = q
    /\ \A p \in prints : p.file \in processed
    /\ \A r \in rows : \E p \in prints : p.file = r.file
    /\ \A f \in active : \E p \in prints : p.file = f

\* Nothing is later than now.
ClockInv ==
    /\ \A f \in Files : sig[f] <= clock
    /\ \A f \in Files : cache[f] # NotCached => cache[f].sig <= clock
    /\ \A c \in todo : c.sig <= clock
    /\ Parsing => candidate.sig <= clock

\* An entry that has not moved since it was looked at leads to the file that was found.
Settled(c) == c.entry \notin strayed => link[Directory][c.entry] = c.file

LookedInv ==
    /\ \A c, d \in todo : c.entry = d.entry => c = d
    /\ \A c \in todo : c.entry \notin unlisted
    /\ Parsing => \A c \in todo : c.entry # candidate.entry
    /\ \A c \in todo : Settled(c)
    /\ Parsing => Settled(candidate)

\* What was parsed is what the file holds, if the second look is going to agree.
ParseInv ==
    pc = "verify" /\ parsed # Failed /\ link[Directory][candidate.entry] = candidate.file
    /\ sig[candidate.file] = candidate.sig => parsed = text[candidate.file]

\* What is shown, or may be shown out of the cache, was held during the load.
HeldInv ==
    /\ Loading => \A f \in Files : text[f] \in held[f]
    /\ ~Loading => held = [f \in Files |-> {}]
    /\ \A r \in rows : r.text \in held[r.file]
    /\ \A c \in todo : Unchanged(c) => cache[c.file].text \in held[c.file]

\* What a quiet load has done so far. The candidates of the directory as it is are
\* exactly those that it has shown or has yet to show, each file by its first name.
Eligible == {Look(e) : e \in Entries} \ {NoCandidate}
Ahead    == todo \cup (IF Parsing THEN {candidate} ELSE {})
Shown    == FirstOfEach(Eligible) \ Ahead
RowOf(c) == [entry |-> c.entry, file |-> c.file, text |-> text[c.file]]

\* Nothing is shown before the listing has ended.
EmptyInv == pc \in {"idle", "lost", "open", "list"} =>
    processed = {} /\ rows = {} /\ prints = {}

QuietListing ==
    ~disturbed /\ pc = "list" =>
        todo = {Look(e) : e \in Entries \ unlisted} \ {NoCandidate}

ShowsExactly ==
    /\ processed = {c.file : c \in Shown}
    /\ prints = {PrintOf(c) : c \in Shown}
    /\ rows = {RowOf(c) : c \in {d \in Shown : text[d.file] \in Profiles}}

QuietShowing ==
    ~disturbed /\ (pc = "next" \/ Parsing) =>
        /\ Ahead \subseteq FirstOfEach(Eligible) /\ (Parsing => candidate \notin todo)
        /\ ShowsExactly

QuietParse == ~disturbed /\ pc = "verify" => parsed = text[candidate.file]

QuietInv == EmptyInv /\ QuietListing /\ QuietShowing /\ QuietParse /\ QuietLoadIsExact

IInv == TypeOK /\ LocalInv /\ ShownInv /\ OneRowPerFile /\ CacheIsBounded
FreshInv == ClockInv /\ LookedInv /\ ParseInv /\ HeldInv /\ CacheIsCurrent
=============================================================================
