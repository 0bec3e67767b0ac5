--------------------------- MODULE ProfileCatalog ---------------------------
(***************************************************************************)
(* The catalog of Remmina profiles (core/profile_catalog.cpp) and the      *)
(* watcher it installs (platform/qt_profile_watcher.cpp), running against  *)
(* a file system that other programs change at any moment.                 *)
(*                                                                         *)
(* One call of records() is several steps here, because the file system    *)
(* may change between any two of them: locate and list the directory, read *)
(* the listed files one by one in name order, install the watches, list    *)
(* and read again to verify, and commit or give up.                        *)
(***************************************************************************)
EXTENDS Naturals, FiniteSets

CONSTANTS
    Instances,       \* Remmina installations the service may select
    Paths,           \* profile directory paths the locator may answer
    SymlinkedPaths,  \* those reached through a symbolic link (its parent is watched)
    Dirs,            \* directory inodes, each under its canonical path
    Files,           \* profile file names, numbered in name order
    MaxChanges,      \* bound: file-system changes in a behaviour
    Granularity,     \* consecutive versions that one size/mtime fingerprint confuses
    SyncCallbacks,   \* may the watcher call back while records() runs?
    NoInstance, NoPath, NoDir

ASSUME CatalogAssumption ==
    /\ SymlinkedPaths \subseteq Paths
    /\ Files \subseteq Nat
    /\ MaxChanges \in Nat
    /\ Granularity \in Nat \ {0}
    /\ SyncCallbacks \in BOOLEAN
    /\ NoInstance \notin Instances /\ NoPath \notin Paths /\ NoDir \notin Dirs

VARIABLES
    \* the file system (outside src/)
    located,         \* the directory path the locator finds for each instance
    at,              \* the directory inode each path names
    content,         \* the version of each file of each directory; 0: no such file
    clock,           \* how many changes have happened
    \* QtProfileWatcher
    watchPath, watchDir, watchedFiles,  \* what the installed watches are attached to
    pending,         \* an event of the installed watches waits in the event loop
    renamed,         \* history: what the watched path leads to has been renamed since
    \* ProfileCatalog
    records, cleanDirectory, cleanFingerprint, selected,
    sessionActive, dirty, hasClean, callbackActive,
    \* the running call of records()
    pc, round, todo, retried, loaded, candidate,
    answer,          \* what the last call of records() returned
    \* history: the client's session and every record that was current during it
    open, seen

fsVars      == <<located, at, content, clock>>
watchVars   == <<watchPath, watchDir, watchedFiles, pending, renamed>>
catalogVars == <<records, cleanDirectory, cleanFingerprint, selected,
                 sessionActive, dirty, hasClean, callbackActive>>
callVars    == <<pc, round, todo, retried, loaded, candidate, answer>>
vars        == <<fsVars, watchVars, catalogVars, callVars, open, seen>>

Versions == 0 .. MaxChanges + 1
Record   == [file : Files, dir : Dirs, ver : Versions \ {0}]
FilePrint    == [file : Files, mark : Nat]
Snapshot == [path : Paths \cup {NoPath}, dir : Dirs \cup {NoDir},
             recs : SUBSET Record, prints : SUBSET FilePrint]
NoSnapshot == [path |-> NoPath, dir |-> NoDir, recs |-> {}, prints |-> {}]

\* What a file fingerprint (path, size, modification time in ms) tells of a record.
PrintOf(r) == [file |-> r.file, mark |-> r.ver \div Granularity]

\* The profiles in directory d, and those an instance has right now.
RecordsIn(d) == {r \in Record : r.dir = d /\ r.ver = content[d][r.file]}
Current(i) == RecordsIn(at[located[i]])

\* The profiles the running call can come across: those, and the ones in the
\* directory it is reading, if the locator has since turned to another.
Visible(i) == IF loaded.path = NoPath THEN Current(i)
              ELSE Current(i) \cup RecordsIn(at[loaded.path])

Init ==
    /\ located \in [Instances -> Paths]
    /\ at \in [Paths -> Dirs] /\ \A p, q \in Paths : at[p] = at[q] => p = q
    /\ content \in [Dirs -> [Files -> 0 .. 1]] /\ clock = 0
    /\ watchPath = NoPath /\ watchDir = NoDir /\ watchedFiles = {} /\ pending = FALSE
    /\ renamed = FALSE
    /\ records = {} /\ cleanDirectory = NoPath /\ cleanFingerprint = NoDir
    /\ selected = NoInstance
    /\ sessionActive = FALSE /\ dirty = FALSE /\ hasClean = FALSE /\ callbackActive = FALSE
    /\ pc = "idle" /\ round = 0 /\ todo = {} /\ retried = FALSE
    /\ loaded = NoSnapshot /\ candidate = NoSnapshot
    /\ answer = {} /\ open = FALSE /\ seen = {}

-----------------------------------------------------------------------------
(* The file system. A change reaches the event loop when an installed      *)
(* inotify watch covers it: Qt watches a directory for entries created,    *)
(* moved, deleted or given attributes, and a file for these and for        *)
(* writes; neither reports that the watched directory itself was renamed.  *)

\* Every file-system change is one tick; what becomes current is seen by an open session.
Changed(notified) ==
    /\ clock < MaxChanges
    /\ clock' = clock + 1
    /\ pending' = (pending \/ notified)
    /\ UNCHANGED <<watchPath, watchDir, catalogVars, callVars, open>>
    /\ seen' = IF open THEN seen \cup Visible(selected)' ELSE seen

\* A program writes into an existing file.
Edit(d, f) ==
    /\ content[d][f] # 0
    /\ content' = [content EXCEPT ![d][f] = clock + 2]
    /\ UNCHANGED <<located, at, watchedFiles, renamed>>
    /\ Changed(<<d, f>> \in watchedFiles)

\* A program creates a file, or renames a new one over it: another inode.
Put(d, f) ==
    /\ content' = [content EXCEPT ![d][f] = clock + 2]
    /\ UNCHANGED <<located, at, renamed>>
    /\ Changed(watchDir = d \/ <<d, f>> \in watchedFiles)
    /\ watchedFiles' = watchedFiles \ {<<d, f>>}

Delete(d, f) ==
    /\ content[d][f] # 0
    /\ content' = [content EXCEPT ![d][f] = 0]
    /\ UNCHANGED <<located, at, renamed>>
    /\ Changed(watchDir = d \/ <<d, f>> \in watchedFiles)
    /\ watchedFiles' = watchedFiles \ {<<d, f>>}

\* The path comes to name another directory.
Swap(p, d) ==
    /\ \A q \in Paths : at[q] # d
    /\ at' = [at EXCEPT ![p] = d]
    /\ UNCHANGED <<located, content, watchedFiles>>

\* A symbolic link on the way is retargeted: its parent is watched.
Retarget(p, d) ==
    /\ p \in SymlinkedPaths /\ Swap(p, d)
    /\ Changed(watchPath = p) /\ UNCHANGED renamed

\* The directory, which may be a link's target, or one above it is renamed away, and
\* another takes its place: only the parents of links are watched.
Rename(p, d) ==
    /\ Swap(p, d)
    /\ renamed' = (renamed \/ p = watchPath) /\ Changed(FALSE)

\* A profile directory of higher precedence appears, or the configured one changes.
Relocate(i, p) ==
    /\ p # located[i]
    /\ located' = [located EXCEPT ![i] = p]
    /\ UNCHANGED <<at, content, watchedFiles, renamed>>
    /\ Changed(FALSE)

-----------------------------------------------------------------------------
(* QtProfileWatcher and the catalog's callback.                            *)

\* QtProfileWatcher::clear: the watches go, and queued events of them are dropped.
ClearWatcher ==
    /\ watchPath' = NoPath /\ watchDir' = NoDir /\ watchedFiles' = {} /\ pending' = FALSE
    /\ renamed' = FALSE

\* The directory that the canonical paths of a snapshot's files lead to: since it was taken,
\* links may have been retargeted, and directories renamed.
Homes(s) ==
    IF s.path \in SymlinkedPaths /\ at[s.path] # s.dir THEN Dirs ELSE {at[s.path]}

WatchedBy(s, home) == {<<home, p.file>> : p \in s.prints}

\* addPaths succeeds only when every path exists (and inotify has watches left).
CanWatch(s, home) == \A w \in WatchedBy(s, home) : content[w[1]][w[2]] # 0

\* The event loop runs the callback: between calls, or within one when the
\* watcher may call back synchronously.
Deliver ==
    /\ pending /\ pending' = FALSE
    /\ pc = "idle" \/ SyncCallbacks
    /\ dirty' = (dirty \/ callbackActive)
    /\ UNCHANGED <<fsVars, watchPath, watchDir, watchedFiles, renamed, records, cleanDirectory,
                   cleanFingerprint, selected, sessionActive, hasClean, callbackActive,
                   callVars, open, seen>>

-----------------------------------------------------------------------------
(* ProfileCatalog::records.                                                *)

Reusable(i) == selected = i /\ hasClean /\ sessionActive /\ ~dirty

\* A later keystroke of the session is answered from the snapshot.
Reuse(i) ==
    /\ pc = "idle" /\ Reusable(i)
    /\ answer' = records
    /\ UNCHANGED <<fsVars, watchVars, catalogVars, pc, round, todo, retried, loaded,
                   candidate, open, seen>>

\* clearSnapshotAndWatches
ClearSnapshotAndWatches ==
    /\ records' = {} /\ cleanDirectory' = NoPath /\ cleanFingerprint' = NoDir
    /\ hasClean' = FALSE /\ callbackActive' = FALSE
    /\ ClearWatcher

\* Any other call starts a refresh; another instance first clears everything.
BeginRefresh(i) ==
    /\ pc = "idle" /\ ~Reusable(i)
    /\ IF selected \in {i, NoInstance}
       THEN UNCHANGED <<records, cleanDirectory, cleanFingerprint, hasClean, dirty,
                        callbackActive, watchVars>>
       ELSE ClearSnapshotAndWatches /\ dirty' = FALSE
    /\ selected' = i /\ sessionActive' = TRUE
    /\ pc' = "locate" /\ round' = 0 /\ answer' = {}
    /\ open' = TRUE
    /\ seen' = IF open /\ selected = i THEN seen ELSE Current(i)
    /\ UNCHANGED <<fsVars, todo, retried, loaded, candidate>>

\* ProfileRepository::load: find the directory and list it.
Locate ==
    /\ pc = "locate" /\ pc' = "read"
    /\ LET p == located[selected] IN
           /\ loaded' = [path |-> p, dir |-> at[p], recs |-> {}, prints |-> {}]
           /\ todo' = RecordsIn(at[p])
    /\ retried' = FALSE
    /\ UNCHANGED <<fsVars, watchVars, catalogVars, round, candidate, answer, open, seen>>

\* One listed file: parse it and inspect it again, at most twice. A file that is
\* gone is skipped, one that changed both times gives a fingerprint but no record;
\* a cache hit on the listed signature is not inspected again.
ReadFile ==
    /\ pc = "read"
    /\ \E r \in todo :
        /\ \A s \in todo : r.file <= s.file
        /\ LET now == {s \in RecordsIn(at[loaded.path]) : s.file = r.file} IN
           \/ /\ r \in now \/ ~retried
              /\ todo' = todo \ {r} /\ retried' = FALSE
              /\ loaded' = [loaded EXCEPT !.recs = @ \cup {r}, !.prints = @ \cup {PrintOf(r)}]
           \/ /\ r \notin now /\ (now = {} \/ retried)
              /\ todo' = todo \ {r} /\ retried' = FALSE
              /\ loaded' = [loaded EXCEPT !.prints = @ \cup {PrintOf(s) : s \in now}]
           \/ /\ r \notin now /\ now # {} /\ ~retried
              /\ todo' = (todo \ {r}) \cup now /\ retried' = TRUE
              /\ UNCHANGED loaded
    /\ UNCHANGED <<fsVars, watchVars, catalogVars, pc, round, candidate, answer, open, seen>>

\* Mutant of Abandon: the guard forgets the watches and the callback.
AbandonKeepsWatches ==
    /\ hasClean' = FALSE /\ dirty' = TRUE
    /\ UNCHANGED <<callbackActive, watchVars>>
    /\ pc' = "idle" /\ round' = 0 /\ todo' = {} /\ retried' = FALSE
    /\ loaded' = NoSnapshot /\ candidate' = NoSnapshot

\* RefreshGuard: a refresh that does not commit leaves nothing to trust.
Abandon ==
    /\ hasClean' = FALSE /\ dirty' = TRUE /\ callbackActive' = FALSE
    /\ ClearWatcher
    /\ pc' = "idle" /\ round' = 0 /\ todo' = {} /\ retried' = FALSE
    /\ loaded' = NoSnapshot /\ candidate' = NoSnapshot

\* No directory, or an unreadable one (repositoryError).
LoadFails ==
    /\ pc \in {"locate", "read"}
    /\ Abandon
    /\ records' = {} /\ cleanDirectory' = NoPath /\ cleanFingerprint' = NoDir
    /\ sessionActive' = TRUE /\ answer' = {}
    /\ UNCHANGED <<fsVars, selected, open, seen>>

\* An exception leaves records() from any of its steps.
Throw ==
    /\ pc # "idle"
    /\ Abandon
    /\ answer' = {}
    /\ UNCHANGED <<fsVars, records, cleanDirectory, cleanFingerprint, selected,
                   sessionActive, open, seen>>

\* The first load is the candidate of round 1.
FirstLoadDone ==
    /\ pc = "read" /\ todo = {} /\ round = 0
    /\ candidate' = loaded /\ round' = 1 /\ pc' = "install"
    /\ UNCHANGED <<fsVars, watchVars, catalogVars, todo, retried, loaded, answer, open, seen>>

\* installWatches: the records become visible, the watches replace the old ones.
InstallWatches ==
    /\ pc = "install"
    /\ \E home \in Homes(candidate) :
           CanWatch(candidate, home) /\ watchedFiles' = WatchedBy(candidate, home)
    /\ records' = candidate.recs /\ hasClean' = FALSE
    /\ callbackActive' = TRUE /\ dirty' = FALSE
    /\ watchPath' = candidate.path /\ watchDir' = at[candidate.path]
    /\ pending' = FALSE /\ renamed' = FALSE
    /\ pc' = "locate"
    /\ UNCHANGED <<fsVars, cleanDirectory, cleanFingerprint, selected, sessionActive,
                   round, todo, retried, loaded, candidate, answer, open, seen>>

\* A watch cannot be installed: the records are served unverified, once.
InstallFails ==
    /\ pc = "install"
    /\ Abandon
    /\ records' = candidate.recs /\ answer' = candidate.recs
    /\ UNCHANGED <<fsVars, cleanDirectory, cleanFingerprint, selected, sessionActive,
                   open, seen>>

\* Mutant of Equivalent: the two loads agree when they read the same directory.
EquivalentPlaces(s, t) == s.path = t.path /\ s.dir = t.dir

\* equivalentSnapshot
Equivalent(s, t) == s.path = t.path /\ s.dir = t.dir /\ s.prints = t.prints

VerifyDone == pc = "read" /\ todo = {} /\ round > 0

\* installCleanSnapshot and commit: nothing changed since the watches were installed.
Commit ==
    /\ VerifyDone /\ ~dirty /\ Equivalent(candidate, loaded)
    /\ records' = loaded.recs /\ answer' = loaded.recs
    /\ cleanDirectory' = loaded.path /\ cleanFingerprint' = loaded.dir
    /\ hasClean' = TRUE
    /\ pc' = "idle" /\ round' = 0 /\ loaded' = NoSnapshot /\ candidate' = NoSnapshot
    /\ UNCHANGED <<fsVars, watchVars, selected, sessionActive, dirty, callbackActive,
                   todo, retried, open, seen>>

\* Mutant of SecondRound: the directory may be tried again without end.
AnotherRound ==
    /\ VerifyDone /\ ~dirty /\ ~Equivalent(candidate, loaded)
    /\ records' = loaded.recs
    /\ candidate' = loaded /\ round' = round + 1 /\ pc' = "install"
    /\ UNCHANGED <<fsVars, watchVars, cleanDirectory, cleanFingerprint, selected,
                   sessionActive, dirty, hasClean, callbackActive, todo, retried,
                   loaded, answer, open, seen>>

\* The directory changed meanwhile: once more, with what was read as the candidate.
SecondRound ==
    /\ VerifyDone /\ ~dirty /\ ~Equivalent(candidate, loaded) /\ round = 1
    /\ records' = loaded.recs
    /\ candidate' = loaded /\ round' = 2 /\ pc' = "install"
    /\ UNCHANGED <<fsVars, watchVars, cleanDirectory, cleanFingerprint, selected,
                   sessionActive, dirty, hasClean, callbackActive, todo, retried,
                   loaded, answer, open, seen>>

\* It keeps changing: the last records are served unverified, once.
GiveUp ==
    /\ VerifyDone /\ (dirty \/ (~Equivalent(candidate, loaded) /\ round = 2))
    /\ Abandon
    /\ records' = loaded.recs /\ answer' = loaded.recs
    /\ UNCHANGED <<fsVars, cleanDirectory, cleanFingerprint, selected, sessionActive,
                   open, seen>>

-----------------------------------------------------------------------------
(* The catalog's other operations, between calls of records().             *)

\* Mutant of EndSession: the catalog keeps the session, the client thinks it over.
EndSessionKeepsIt ==
    /\ pc = "idle"
    /\ open' = FALSE /\ seen' = {} /\ answer' = {}
    /\ UNCHANGED <<fsVars, watchVars, catalogVars, pc, round, todo, retried, loaded,
                   candidate>>

EndSession ==
    /\ pc = "idle"
    /\ sessionActive' = FALSE
    /\ open' = FALSE /\ seen' = {} /\ answer' = {}
    /\ UNCHANGED <<fsVars, watchVars, records, cleanDirectory, cleanFingerprint, selected,
                   dirty, hasClean, callbackActive, pc, round, todo, retried, loaded,
                   candidate>>

Reset ==
    /\ pc = "idle"
    /\ ClearSnapshotAndWatches
    /\ selected' = NoInstance /\ sessionActive' = FALSE /\ dirty' = FALSE
    /\ open' = FALSE /\ seen' = {} /\ answer' = {}
    /\ UNCHANGED <<fsVars, pc, round, todo, retried, loaded, candidate>>

\* resolve(i, id): an opaque id stands for an instance and a canonical file path.
\* It answers the record it listed, or nothing.
Resolve(i, j, f) ==
    IF /\ selected = i /\ j = i /\ ~dirty /\ hasClean
       /\ at[cleanDirectory] = cleanFingerprint
       /\ content[at[cleanDirectory]][f] # 0
    THEN {r \in records : r.file = f}
    ELSE {}

-----------------------------------------------------------------------------
Environment ==
    \/ \E d \in Dirs, f \in Files : Edit(d, f) \/ Put(d, f) \/ Delete(d, f)
    \/ \E p \in Paths, d \in Dirs : Retarget(p, d) \/ Rename(p, d)
    \/ \E i \in Instances, p \in Paths : Relocate(i, p)

CallStep ==
    \/ Locate \/ ReadFile \/ LoadFails \/ Throw \/ FirstLoadDone \/ InstallWatches
    \/ InstallFails \/ Commit \/ SecondRound \/ GiveUp

Client ==
    \/ \E i \in Instances : Reuse(i) \/ BeginRefresh(i)
    \/ EndSession \/ Reset

Next == Environment \/ Deliver \/ CallStep \/ Client

\* records() runs to its end, and the event loop runs when it has.
Fairness == WF_vars(CallStep) /\ WF_vars(Deliver)

Spec == Init /\ [][Next]_vars
FairSpec == Spec /\ Fairness

-----------------------------------------------------------------------------
TypeOK ==
    /\ located \in [Instances -> Paths] /\ at \in [Paths -> Dirs]
    /\ content \in [Dirs -> [Files -> Versions]] /\ clock \in 0 .. MaxChanges
    /\ watchPath \in Paths \cup {NoPath} /\ watchDir \in Dirs \cup {NoDir}
    /\ watchedFiles \subseteq Dirs \X Files /\ pending \in BOOLEAN
    /\ renamed \in BOOLEAN
    /\ records \subseteq Record /\ cleanDirectory \in Paths \cup {NoPath}
    /\ cleanFingerprint \in Dirs \cup {NoDir} /\ selected \in Instances \cup {NoInstance}
    /\ sessionActive \in BOOLEAN /\ dirty \in BOOLEAN
    /\ hasClean \in BOOLEAN /\ callbackActive \in BOOLEAN
    /\ pc \in {"idle", "locate", "read", "install"} /\ round \in 0 .. 2
    /\ todo \subseteq Record /\ retried \in BOOLEAN
    /\ loaded \in Snapshot /\ candidate \in Snapshot
    /\ answer \subseteq Record /\ open \in BOOLEAN /\ seen \subseteq Record

\* No change is lost between reading the profiles and trusting what was read: a
\* snapshot that is clean, not dirty and about which no event is queued is what
\* the directory holds now (install, then verify; README "Profile discovery").
\* The directory itself must not have been renamed away meanwhile.
CleanIsCurrent ==
    hasClean /\ ~dirty /\ ~pending /\ ~renamed => records = RecordsIn(at[cleanDirectory])

\* A refresh that ends in any way but a commit leaves no snapshot to reuse, no
\* watch and no live callback; one that commits leaves all three, on one path.
WatchesMatchSnapshot ==
    pc = "idle" =>
        /\ hasClean <=> callbackActive
        /\ hasClean <=> watchPath # NoPath
        /\ hasClean => watchPath = cleanDirectory /\ selected # NoInstance

\* What the README says of the watcher: creating, editing, renaming or removing
\* profiles marks the snapshot dirty, so one the next lookup reuses lists what the
\* directory path it came from holds (README.md:145-148). Not true when the
\* directory itself is renamed away and another takes its place: Qt does not report
\* a move of the directory it watches, and its parent is not watched unless a link is there.
EveryChangeInvalidates ==
    pc = "idle" /\ hasClean /\ sessionActive /\ ~dirty /\ ~pending
        => records = RecordsIn(at[cleanDirectory])

Promise == INSTANCE SessionListing

\* Every listing consists of profiles current during the client's session: no
\* step of the catalog can show what another session, another instance or an
\* unfinished call left in records_.
ListsOnlyTheSession == Promise!Spec

-----------------------------------------------------------------------------
(* The inductive invariant behind these properties, in named parts.        *)

\* The callback lives exactly as long as the watches.
CallbackInv ==
    /\ callbackActive <=> watchPath # NoPath
    /\ pc = "idle" => (hasClean <=> callbackActive)
    /\ hasClean => callbackActive /\ watchPath = cleanDirectory /\ (round = 0 \/ pc = "install")
    /\ pc \in {"locate", "read"} /\ round > 0 => callbackActive /\ watchPath = candidate.path

\* What a running call works on.
CallInv ==
    /\ pc # "idle" => selected # NoInstance
    /\ pc = "idle" => round = 0
    /\ pc = "install" => round > 0
    /\ hasClean => selected # NoInstance
    /\ pc = "read" => loaded.path # NoPath /\ loaded.dir # NoDir
    /\ pc # "idle" /\ round > 0 => candidate.path # NoPath /\ candidate.dir # NoDir
    /\ pc = "idle" => loaded = NoSnapshot /\ candidate = NoSnapshot
    /\ pc # "read" => todo = {}

\* Nothing has happened to the watched directory that the catalog does not know of.
Quiet == ~pending /\ ~dirty /\ ~renamed

\* While all is quiet the watches are on the directory the path names, and, in a
\* verifying round, on every file of the candidate.
WatchInv ==
    Quiet /\ watchPath # NoPath =>
        /\ watchDir = at[watchPath]
        /\ round > 0 /\ pc \in {"locate", "read"} /\ candidate.dir = watchDir =>
               \A p \in candidate.prints : <<watchDir, p.file>> \in watchedFiles

\* While all is quiet a verifying load has listed exactly the files there are, and
\* what it holds of a watched file is current.
VerifyInv ==
    pc = "read" /\ round > 0 /\ Quiet /\ loaded.path = watchPath /\ loaded.dir = candidate.dir =>
        /\ loaded.dir = watchDir
        /\ \A f \in Files : content[watchDir][f] # 0 =>
               (\E r \in todo : r.file = f) \/ (\E p \in loaded.prints : p.file = f)
        /\ \A r \in todo \cup loaded.recs : <<watchDir, r.file>> \in watchedFiles =>
               r \in RecordsIn(watchDir)
        /\ \A p \in loaded.prints : <<watchDir, p.file>> \in watchedFiles =>
               \E r \in loaded.recs : r.file = p.file

\* While all is quiet a clean snapshot is current, and every file of it is watched.
CleanInv ==
    hasClean /\ Quiet =>
        /\ records = RecordsIn(watchDir)
        /\ \A f \in Files : content[watchDir][f] # 0 => <<watchDir, f>> \in watchedFiles

\* Every record of a load has its fingerprint there.
PrintInv == \A r \in loaded.recs : PrintOf(r) \in loaded.prints

IInv == /\ TypeOK /\ CallbackInv /\ CallInv /\ WatchInv /\ VerifyInv
        /\ CleanInv /\ PrintInv

\* What the refinement needs: all that a call holds has been current in the session.
SessionInv ==
    /\ open <=> sessionActive
    /\ pc # "idle" => open
    /\ open => selected # NoInstance /\ Visible(selected) \subseteq seen
    /\ todo \cup loaded.recs \cup candidate.recs \subseteq seen
    /\ pc = "idle" /\ open /\ hasClean => records \subseteq seen
=============================================================================
