------------------------ MODULE ProfileCatalogProofs ------------------------
(***************************************************************************)
(* Proofs about the profile catalog, for every value of its constants.     *)
(***************************************************************************)
EXTENDS ProfileCatalog, TLAPS

\* There is a record for each file of the directory.
LEMMA RecordOfFile ==
    ASSUME content \in [Dirs -> [Files -> Versions]], NEW d \in Dirs,
           NEW f \in Files, content[d][f] # 0
    PROVE  \E r \in RecordsIn(d) : r.file = f
<1>. DEFINE r == [file |-> f, dir |-> d, ver |-> content[d][f]]
<1>1. content[d][f] \in Versions \ {0}
    OBVIOUS
<1>2. r \in Record /\ r.file = f /\ r.dir = d /\ r.ver = content[d][f]
    BY <1>1 DEF Record
<1>. QED BY <1>2 DEF RecordsIn

\* The fingerprint of a record is one.
LEMMA PrintOfType ==
    ASSUME NEW r \in Record PROVE PrintOf(r) \in FilePrint /\ PrintOf(r).file = r.file
<1>1. r.ver \in Nat /\ Granularity \in Nat \ {0} /\ r.file \in Files
    BY CatalogAssumption DEF Record, Versions
<1>2. r.ver \div Granularity \in Nat
    BY <1>1, SMT
<1>. QED BY <1>1, <1>2 DEF PrintOf, FilePrint

LEMMA TypeInit == Init => TypeOK
<1>. SUFFICES ASSUME Init PROVE TypeOK
    OBVIOUS
<1>1. 0 .. 1 \subseteq Versions /\ 0 \in 0 .. MaxChanges
    BY CatalogAssumption DEF Versions
<1>2. content \in [Dirs -> [Files -> Versions]]
    <2>1. [Dirs -> [Files -> 0 .. 1]] \subseteq [Dirs -> [Files -> Versions]]
        BY <1>1
    <2>. QED BY <2>1 DEF Init
<1>3. NoSnapshot \in Snapshot
    BY DEF NoSnapshot, Snapshot
<1>4. located \in [Instances -> Paths] /\ at \in [Paths -> Dirs] /\ clock \in 0 .. MaxChanges
    BY <1>1 DEF Init
<1>5. round \in 0 .. 2 /\ pc \in {"idle", "locate", "read", "install"}
    BY DEF Init
<1>. QED BY <1>2, <1>3, <1>4, <1>5 DEF Init, TypeOK

\* A change of one file keeps the contents well-typed.
LEMMA ContentType ==
    ASSUME content \in [Dirs -> [Files -> Versions]], NEW d \in Dirs, NEW f \in Files,
           NEW v \in Versions
    PROVE  [content EXCEPT ![d][f] = v] \in [Dirs -> [Files -> Versions]]
<1>1. [content[d] EXCEPT ![f] = v] \in [Files -> Versions]
    OBVIOUS
<1>. QED BY <1>1

\* A change counts one tick and leaves the catalog and its call alone.
LEMMA ChangedType ==
    ASSUME TypeOK, NEW b \in BOOLEAN, Changed(b), located' \in [Instances -> Paths],
           at' \in [Paths -> Dirs]
    PROVE  /\ clock' \in 0 .. MaxChanges /\ clock + 2 \in Versions
           /\ pending' \in BOOLEAN /\ seen' \subseteq Record
<1>1. clock' \in 0 .. MaxChanges /\ clock + 2 \in Versions
    BY CatalogAssumption DEF TypeOK, Changed, Versions
<1>2. seen' \subseteq Record
    BY DEF TypeOK, Changed, Visible, Current, RecordsIn
<1>3. pending' \in BOOLEAN
    BY DEF TypeOK, Changed
<1>. QED BY <1>1, <1>2, <1>3

LEMMA EnvironmentType == TypeOK /\ Environment => TypeOK'
<1>. SUFFICES ASSUME TypeOK, Environment PROVE TypeOK'
    OBVIOUS
<1>1. ASSUME NEW d \in Dirs, NEW f \in Files, Edit(d, f) \/ Put(d, f) \/ Delete(d, f)
      PROVE  TypeOK'
    <2>1. PICK b \in BOOLEAN : Changed(b) /\ located' = located /\ at' = at
        <3>1. CASE Edit(d, f)
            <4>. WITNESS (<<d, f>> \in watchedFiles) \in BOOLEAN
            <4>. QED BY <3>1 DEF Edit
        <3>2. CASE Put(d, f) \/ Delete(d, f)
            <4>. WITNESS (watchDir = d \/ <<d, f>> \in watchedFiles) \in BOOLEAN
            <4>. QED BY <3>2 DEF Put, Delete
        <3>. QED BY <1>1, <3>1, <3>2
    <2>2. clock' \in 0 .. MaxChanges /\ clock + 2 \in Versions
          /\ pending' \in BOOLEAN /\ seen' \subseteq Record
        BY <2>1, ChangedType DEF TypeOK
    <2>3. 0 \in Versions
        BY CatalogAssumption DEF Versions
    <2>4. content' \in [Dirs -> [Files -> Versions]]
        <3>1. content' = [content EXCEPT ![d][f] = clock + 2]
              \/ content' = [content EXCEPT ![d][f] = 0]
            BY <1>1 DEF Edit, Put, Delete
        <3>2. content \in [Dirs -> [Files -> Versions]]
            BY DEF TypeOK
        <3>3. [content EXCEPT ![d][f] = clock + 2] \in [Dirs -> [Files -> Versions]]
            BY <3>2, <2>2, ContentType
        <3>4. [content EXCEPT ![d][f] = 0] \in [Dirs -> [Files -> Versions]]
            BY <3>2, <2>3, ContentType
        <3>. QED BY <3>1, <3>3, <3>4
    <2>5. watchedFiles' \subseteq Dirs \X Files /\ renamed' \in BOOLEAN
        BY <1>1 DEF TypeOK, Edit, Put, Delete
    <2>. QED BY <2>1, <2>2, <2>4, <2>5 DEF TypeOK, Changed, catalogVars, callVars
<1>2. ASSUME NEW p \in Paths, NEW d \in Dirs, Retarget(p, d) \/ Rename(p, d)
      PROVE  TypeOK'
    <2>1. at' \in [Paths -> Dirs] /\ located' = located /\ content' = content
          /\ watchedFiles' = watchedFiles
        <3>1. Swap(p, d)
            BY <1>2 DEF Retarget, Rename
        <3>. QED BY <3>1 DEF TypeOK, Swap
    <2>4. renamed' \in BOOLEAN
        BY <1>2 DEF TypeOK, Retarget, Rename
    <2>2. PICK b \in BOOLEAN : Changed(b)
        <3>1. Retarget(p, d) => Changed(watchPath = p)
            BY DEF Retarget
        <3>2. Rename(p, d) => Changed(FALSE)
            BY DEF Rename
        <3>. QED BY <1>2, <3>1, <3>2
    <2>3. clock' \in 0 .. MaxChanges /\ pending' \in BOOLEAN /\ seen' \subseteq Record
        BY <2>1, <2>2, ChangedType DEF TypeOK
    <2>. QED BY <2>1, <2>2, <2>3, <2>4 DEF TypeOK, Changed, catalogVars, callVars
<1>3. ASSUME NEW i \in Instances, NEW p \in Paths, Relocate(i, p)
      PROVE  TypeOK'
    <2>1. located' \in [Instances -> Paths] /\ at' = at /\ content' = content
          /\ watchedFiles' = watchedFiles /\ renamed' = renamed /\ Changed(FALSE)
        BY <1>3 DEF TypeOK, Relocate
    <2>2. clock' \in 0 .. MaxChanges /\ pending' \in BOOLEAN /\ seen' \subseteq Record
        BY <2>1, ChangedType DEF TypeOK
    <2>. QED BY <2>1, <2>2 DEF TypeOK, Changed, catalogVars, callVars
<1>. QED BY <1>1, <1>2, <1>3 DEF Environment

LEMMA SnapshotType == NoSnapshot \in Snapshot
BY DEF NoSnapshot, Snapshot

\* A refresh that is given up resets the call, well-typed.
LEMMA AbandonType ==
    ASSUME Abandon
    PROVE  /\ hasClean' \in BOOLEAN /\ dirty' \in BOOLEAN /\ callbackActive' \in BOOLEAN
           /\ watchPath' \in Paths \cup {NoPath} /\ watchDir' \in Dirs \cup {NoDir}
           /\ watchedFiles' \subseteq Dirs \X Files /\ pending' \in BOOLEAN
           /\ renamed' \in BOOLEAN
           /\ pc' \in {"idle", "locate", "read", "install"} /\ round' \in 0 .. 2
           /\ todo' \subseteq Record /\ retried' \in BOOLEAN
           /\ loaded' \in Snapshot /\ candidate' \in Snapshot
<1>1. round' \in 0 .. 2 /\ pc' \in {"idle", "locate", "read", "install"}
    BY DEF Abandon
<1>2. loaded' \in Snapshot /\ candidate' \in Snapshot
    BY SnapshotType DEF Abandon
<1>. QED BY <1>1, <1>2 DEF Abandon, ClearWatcher

\* So does forgetting the snapshot and its watches.
LEMMA ClearType ==
    ASSUME ClearSnapshotAndWatches
    PROVE  /\ records' \subseteq Record /\ cleanDirectory' \in Paths \cup {NoPath}
           /\ cleanFingerprint' \in Dirs \cup {NoDir} /\ hasClean' \in BOOLEAN
           /\ callbackActive' \in BOOLEAN
           /\ watchPath' \in Paths \cup {NoPath} /\ watchDir' \in Dirs \cup {NoDir}
           /\ watchedFiles' \subseteq Dirs \X Files /\ pending' \in BOOLEAN
           /\ renamed' \in BOOLEAN
BY DEF ClearSnapshotAndWatches, ClearWatcher

\* A step of records() keeps what it holds well-typed.
LEMMA CallType == TypeOK /\ CallInv /\ CallStep => TypeOK'
<1>. SUFFICES ASSUME TypeOK, CallInv, CallStep PROVE TypeOK'
    OBVIOUS
<1>. USE DEF fsVars, watchVars, catalogVars
<1>0. candidate \in Snapshot /\ loaded \in Snapshot /\ todo \subseteq Record
    BY DEF TypeOK
<1>1. CASE Locate
    <2>1. located[selected] \in Paths /\ at[located[selected]] \in Dirs
        BY <1>1 DEF Locate, TypeOK, CallInv
    <2>2. loaded' \in Snapshot /\ todo' \subseteq Record /\ retried' \in BOOLEAN
        BY <1>1, <2>1 DEF Locate, Snapshot, RecordsIn
    <2>. QED BY <1>1, <2>2 DEF Locate, TypeOK
<1>2. CASE ReadFile
    <2>1. PICK r \in todo :
            LET now == {s \in RecordsIn(at[loaded.path]) : s.file = r.file} IN
            \/ /\ todo' = todo \ {r} /\ retried' = FALSE
               /\ loaded' = [loaded EXCEPT !.recs = @ \cup {r}, !.prints = @ \cup {PrintOf(r)}]
            \/ /\ todo' = todo \ {r} /\ retried' = FALSE
               /\ loaded' = [loaded EXCEPT !.prints = @ \cup {PrintOf(s) : s \in now}]
            \/ /\ todo' = (todo \ {r}) \cup now /\ retried' = TRUE
               /\ loaded' = loaded
        BY <1>2 DEF ReadFile
    <2>. DEFINE now == {s \in RecordsIn(at[loaded.path]) : s.file = r.file}
    <2>2. now \subseteq Record /\ r \in Record
        BY <1>0 DEF RecordsIn
    <2>3. PrintOf(r) \in FilePrint /\ \A s \in now : PrintOf(s) \in FilePrint
        BY <2>2, PrintOfType
    <2>4. todo' \subseteq Record /\ retried' \in BOOLEAN
        BY <2>1, <2>2, <1>0
    <2>5. loaded' \in Snapshot
        <3>1. /\ loaded.path \in Paths \cup {NoPath} /\ loaded.dir \in Dirs \cup {NoDir}
              /\ loaded.recs \cup {r} \subseteq Record
              /\ loaded.prints \cup {PrintOf(r)} \subseteq FilePrint
              /\ loaded.prints \cup {PrintOf(s) : s \in now} \subseteq FilePrint
            BY <2>2, <2>3, <1>0 DEF Snapshot
        <3>2. [loaded EXCEPT !.recs = @ \cup {r}, !.prints = @ \cup {PrintOf(r)}] \in Snapshot
            BY <1>0, <3>1 DEF Snapshot
        <3>3. [loaded EXCEPT !.prints = @ \cup {PrintOf(s) : s \in now}] \in Snapshot
            BY <1>0, <3>1 DEF Snapshot
        <3>. QED BY <2>1, <3>2, <3>3, <1>0
    <2>. QED BY <1>2, <2>4, <2>5 DEF ReadFile, TypeOK
<1>3. CASE LoadFails
    <2>1. Abandon
        BY <1>3 DEF LoadFails
    <2>. QED BY <1>3, <2>1, AbandonType DEF LoadFails, TypeOK
<1>4. CASE Throw
    <2>1. Abandon
        BY <1>4 DEF Throw
    <2>. QED BY <1>4, <2>1, AbandonType DEF Throw, TypeOK
<1>5. CASE FirstLoadDone
    BY <1>5 DEF FirstLoadDone, TypeOK
<1>6. CASE InstallWatches
    <2>1. candidate.path \in Paths /\ candidate.dir \in Dirs
        BY <1>0, <1>6 DEF InstallWatches, CallInv, Snapshot
    <2>2. watchPath' \in Paths \cup {NoPath} /\ watchDir' \in Dirs \cup {NoDir}
        BY <1>6, <2>1 DEF InstallWatches, TypeOK
    <2>3. Homes(candidate) \subseteq Dirs /\ \A q \in candidate.prints : q.file \in Files
        BY <1>0, <2>1 DEF Homes, TypeOK, Snapshot, FilePrint
    <2>4. watchedFiles' \subseteq Dirs \X Files
        BY <1>6, <2>3 DEF InstallWatches, WatchedBy
    <2>5. records' \subseteq Record
        BY <1>0, <1>6 DEF InstallWatches, Snapshot
    <2>. QED BY <1>6, <2>2, <2>4, <2>5 DEF InstallWatches, TypeOK
<1>7. CASE InstallFails
    <2>1. candidate.recs \subseteq Record /\ Abandon
        BY <1>0, <1>7 DEF Snapshot, InstallFails
    <2>. QED BY <1>7, <2>1, AbandonType DEF InstallFails, TypeOK
<1>. loaded.recs \subseteq Record /\ loaded.path \in Paths \cup {NoPath}
         /\ loaded.dir \in Dirs \cup {NoDir}
    BY <1>0 DEF Snapshot
<1>8. CASE Commit
    BY <1>8, SnapshotType DEF Commit, TypeOK
<1>9. CASE SecondRound
    BY <1>9 DEF SecondRound, TypeOK
<1>10. CASE GiveUp
    <2>1. Abandon
        BY <1>10 DEF GiveUp
    <2>. QED BY <1>10, <2>1, AbandonType DEF GiveUp, TypeOK
<1>. QED BY <1>1, <1>2, <1>3, <1>4, <1>5, <1>6, <1>7, <1>8, <1>9, <1>10 DEF CallStep

\* So do the catalog's other operations and the delivery of an event.
LEMMA ClientType == TypeOK /\ (Client \/ Deliver) => TypeOK'
<1>. SUFFICES ASSUME TypeOK, Client \/ Deliver PROVE TypeOK'
    OBVIOUS
<1>. USE DEF fsVars, watchVars, catalogVars, callVars
<1>1. ASSUME NEW i \in Instances, Reuse(i) PROVE TypeOK'
    BY <1>1 DEF Reuse, TypeOK
<1>2. ASSUME NEW i \in Instances, BeginRefresh(i) PROVE TypeOK'
    <2>1. seen' \subseteq Record
        BY <1>2 DEF BeginRefresh, Current, RecordsIn, TypeOK
    <2>2. CASE selected \in {i, NoInstance}
        BY <1>2, <2>1, <2>2 DEF BeginRefresh, TypeOK
    <2>3. CASE selected \notin {i, NoInstance}
        <3>1. ClearSnapshotAndWatches /\ dirty' = FALSE
            BY <1>2, <2>3 DEF BeginRefresh
        <3>2. /\ selected' = i /\ sessionActive' = TRUE /\ pc' = "locate" /\ round' = 0
              /\ answer' = {} /\ open' = TRUE
              /\ UNCHANGED <<located, at, content, clock, todo, retried, loaded, candidate>>
            BY <1>2 DEF BeginRefresh
        <3>3. /\ records' \subseteq Record /\ cleanDirectory' \in Paths \cup {NoPath}
              /\ cleanFingerprint' \in Dirs \cup {NoDir} /\ hasClean' \in BOOLEAN
              /\ callbackActive' \in BOOLEAN
              /\ watchPath' \in Paths \cup {NoPath} /\ watchDir' \in Dirs \cup {NoDir}
              /\ watchedFiles' \subseteq Dirs \X Files /\ pending' \in BOOLEAN
              /\ renamed' \in BOOLEAN
            BY <3>1, ClearType
        <3>4. /\ round' \in 0 .. 2 /\ pc' \in {"idle", "locate", "read", "install"}
              /\ selected' \in Instances \cup {NoInstance}
              /\ sessionActive' \in BOOLEAN /\ open' \in BOOLEAN /\ answer' \subseteq Record
            BY <3>2
        <3>5. dirty' \in BOOLEAN
            BY <3>1
        <3>. QED BY <2>1, <3>2, <3>3, <3>4, <3>5 DEF TypeOK
    <2>. QED BY <2>2, <2>3
<1>3. CASE EndSession
    BY <1>3 DEF EndSession, TypeOK
<1>4. CASE Reset
    <2>1. ClearSnapshotAndWatches
        BY <1>4 DEF Reset
    <2>. QED BY <1>4, <2>1, ClearType DEF Reset, TypeOK
<1>5. CASE Deliver
    <2>1. dirty' \in BOOLEAN /\ pending' \in BOOLEAN
        BY <1>5 DEF Deliver, TypeOK
    <2>. QED BY <1>5, <2>1 DEF Deliver, TypeOK
<1>. QED BY <1>1, <1>2, <1>3, <1>4, <1>5 DEF Client

-----------------------------------------------------------------------------
(* The control of a call, its callback and its watches.                    *)

\* A type-correct state stays one, given what the call works on.
LEMMA TypeStep == TypeOK /\ CallInv /\ [Next]_vars => TypeOK'
<1>1. TypeOK /\ UNCHANGED vars => TypeOK'
    BY DEF TypeOK, vars, fsVars, watchVars, catalogVars, callVars
<1>. QED BY <1>1, EnvironmentType, CallType, ClientType DEF Next

\* No change of the file system touches the catalog or a call.
LEMMA EnvironmentFrame ==
    Environment => UNCHANGED <<catalogVars, callVars, open, watchPath, watchDir>>
BY DEF Environment, Edit, Put, Delete, Retarget, Rename, Swap, Relocate, Changed

LEMMA CallInvInit == Init => CallInv /\ CallbackInv
BY CatalogAssumption DEF Init, CallInv, CallbackInv

LEMMA CallInvStep == TypeOK /\ CallInv /\ [Next]_vars => CallInv'
<1>. SUFFICES ASSUME TypeOK, CallInv, [Next]_vars PROVE CallInv'
    OBVIOUS
<1>. USE CatalogAssumption DEF CallInv, fsVars, watchVars, catalogVars, callVars
<1>1. CASE UNCHANGED vars
    BY <1>1 DEF vars
<1>2. CASE Environment
    BY <1>2, EnvironmentFrame
<1>3. CASE Deliver
    BY <1>3 DEF Deliver
<1>4. CASE Locate
    <2>1. located[selected] \in Paths /\ at[located[selected]] \in Dirs
        BY <1>4 DEF Locate, TypeOK
    <2>. QED BY <1>4, <2>1 DEF Locate
<1>5. CASE ReadFile
    <2>1. loaded'.path = loaded.path /\ loaded'.dir = loaded.dir
        BY <1>5 DEF ReadFile, TypeOK, Snapshot
    <2>. QED BY <1>5, <2>1 DEF ReadFile
<1>6. CASE LoadFails \/ Throw \/ InstallFails \/ GiveUp
    BY <1>6 DEF LoadFails, Throw, InstallFails, GiveUp, Abandon
<1>7. CASE FirstLoadDone
    BY <1>7 DEF FirstLoadDone
<1>8. CASE InstallWatches
    BY <1>8 DEF InstallWatches
<1>9. CASE Commit
    BY <1>9 DEF Commit, VerifyDone
<1>10. CASE SecondRound
    BY <1>10 DEF SecondRound, VerifyDone
<1>11. ASSUME NEW i \in Instances, Reuse(i) \/ BeginRefresh(i) PROVE CallInv'
    BY <1>11 DEF Reuse, BeginRefresh, ClearSnapshotAndWatches
<1>12. CASE EndSession \/ Reset
    BY <1>12 DEF EndSession, Reset, ClearSnapshotAndWatches
<1>. QED BY <1>1, <1>2, <1>3, <1>4, <1>5, <1>6, <1>7, <1>8, <1>9, <1>10, <1>11, <1>12
         DEF Next, CallStep, Client

\* Whatever way a refresh ends, callback, watches and clean snapshot go together.
LEMMA CallbackStep == TypeOK /\ CallInv /\ CallbackInv /\ [Next]_vars => CallbackInv'
<1>. SUFFICES ASSUME TypeOK, CallInv, CallbackInv, [Next]_vars PROVE CallbackInv'
    OBVIOUS
<1>. USE CatalogAssumption DEF CallInv, CallbackInv, fsVars, watchVars, catalogVars, callVars
<1>1. CASE UNCHANGED vars
    BY <1>1 DEF vars
<1>2. CASE Environment
    BY <1>2, EnvironmentFrame
<1>3. CASE Deliver
    BY <1>3 DEF Deliver
<1>4. CASE Locate \/ ReadFile \/ FirstLoadDone
    <2>1. /\ UNCHANGED <<callbackActive, watchPath, hasClean, cleanDirectory>>
          /\ pc # "idle" /\ pc' # "idle"
          /\ \/ pc' = "install"
             \/ pc' = "read" /\ UNCHANGED <<round, candidate>>
        BY <1>4 DEF Locate, ReadFile, FirstLoadDone
    <2>2. pc \in {"locate", "read"}
        BY <1>4 DEF Locate, ReadFile, FirstLoadDone
    <2>. QED BY <2>1, <2>2
<1>5. CASE LoadFails \/ Throw \/ InstallFails \/ GiveUp
    BY <1>5 DEF LoadFails, Throw, InstallFails, GiveUp, Abandon, ClearWatcher
<1>6. CASE InstallWatches
    BY <1>6 DEF InstallWatches
<1>7. CASE Commit
    BY <1>7 DEF Commit, VerifyDone, Equivalent
<1>8. CASE SecondRound
    BY <1>8 DEF SecondRound, VerifyDone
<1>9. ASSUME NEW i \in Instances, Reuse(i) PROVE CallbackInv'
    BY <1>9 DEF Reuse
<1>10. ASSUME NEW i \in Instances, BeginRefresh(i) PROVE CallbackInv'
    BY <1>10 DEF BeginRefresh, ClearSnapshotAndWatches, ClearWatcher
<1>11. CASE EndSession \/ Reset
    BY <1>11 DEF EndSession, Reset, ClearSnapshotAndWatches, ClearWatcher
<1>. QED BY <1>1, <1>2, <1>3, <1>4, <1>5, <1>6, <1>7, <1>8, <1>9, <1>10, <1>11
         DEF Next, CallStep, Client

-----------------------------------------------------------------------------
(* What the watches see. QuietChange is the heart of it: a change that     *)
(* leaves all quiet leaves the watched directory with the files it had,    *)
(* and every watched file with its version.                                *)

LEMMA QuietChange ==
    ASSUME TypeOK, WatchInv, watchPath # NoPath, Environment, Quiet'
    PROVE  /\ Quiet /\ watchDir \in Dirs /\ watchDir' = watchDir
           /\ watchPath' = watchPath /\ at'[watchPath] = watchDir
           /\ \A f \in Files :
                 /\ content'[watchDir][f] # 0 <=> content[watchDir][f] # 0
                 /\ <<watchDir, f>> \in watchedFiles' <=> <<watchDir, f>> \in watchedFiles
                 /\ <<watchDir, f>> \in watchedFiles =>
                        content'[watchDir][f] = content[watchDir][f]
<1>1. Quiet /\ watchDir' = watchDir /\ watchPath' = watchPath /\ clock + 2 # 0
    <2>1. UNCHANGED <<dirty, watchDir, watchPath>>
        BY EnvironmentFrame DEF catalogVars
    <2>2. pending => pending'
        BY DEF Environment, Edit, Put, Delete, Retarget, Rename, Swap, Relocate, Changed
    <2>3. renamed => renamed'
        BY DEF Environment, Edit, Put, Delete, Retarget, Rename, Swap, Relocate
    <2>4. clock + 2 # 0
        BY CatalogAssumption DEF TypeOK
    <2>. QED BY <2>1, <2>2, <2>3, <2>4 DEF Quiet
<1>2. watchDir = at[watchPath] /\ watchDir \in Dirs /\ watchPath \in Paths
    BY <1>1 DEF WatchInv, TypeOK
<1>3. at'[watchPath] = watchDir
    <2>1. ASSUME NEW q \in Paths, NEW d \in Dirs, Retarget(q, d) \/ Rename(q, d)
          PROVE  at'[watchPath] = watchDir
        <3>1. ~pending' /\ ~renamed'
            BY DEF Quiet
        <3>2. watchPath # q
            BY <2>1, <3>1 DEF Retarget, Rename, Changed
        <3>3. at' = [at EXCEPT ![q] = d]
            BY <2>1 DEF Retarget, Rename, Swap
        <3>. QED BY <1>2, <3>2, <3>3 DEF TypeOK
    <2>2. \/ UNCHANGED at
          \/ \E q \in Paths, d \in Dirs : Retarget(q, d) \/ Rename(q, d)
        BY DEF Environment, Edit, Put, Delete, Relocate
    <2>. QED BY <1>2, <2>1, <2>2
<1>4. ASSUME NEW g \in Files
      PROVE  /\ content'[watchDir][g] # 0 <=> content[watchDir][g] # 0
             /\ <<watchDir, g>> \in watchedFiles' <=> <<watchDir, g>> \in watchedFiles
             /\ <<watchDir, g>> \in watchedFiles =>
                    content'[watchDir][g] = content[watchDir][g]
    <2>. USE DEF TypeOK
    <2>1. ASSUME NEW d \in Dirs, NEW f \in Files, Edit(d, f) PROVE <1>4!2
        BY <1>1, <1>2, <2>1 DEF Edit, Changed, Quiet
    <2>2. ASSUME NEW d \in Dirs, NEW f \in Files, Put(d, f) \/ Delete(d, f) PROVE <1>4!2
        <3>1. d # watchDir
            BY <1>1, <2>2 DEF Put, Delete, Changed, Quiet
        <3>. QED BY <1>1, <1>2, <2>2, <3>1 DEF Put, Delete
    <2>3. ASSUME NEW q \in Paths, NEW d \in Dirs, Retarget(q, d) \/ Rename(q, d) PROVE <1>4!2
        BY <2>3 DEF Retarget, Rename, Swap
    <2>4. ASSUME NEW i \in Instances, NEW q \in Paths, Relocate(i, q) PROVE <1>4!2
        BY <2>4 DEF Relocate
    <2>. QED BY <2>1, <2>2, <2>3, <2>4 DEF Environment
<1>. QED BY <1>1, <1>2, <1>3, <1>4

\* Once the event is delivered, the catalog knows.
LEMMA DeliverKnown ==
    ASSUME TypeOK, CallbackInv, Deliver, watchPath # NoPath PROVE ~Quiet'
BY DEF Deliver, CallbackInv, Quiet, TypeOK

LEMMA WatchInit == Init => WatchInv /\ VerifyInv /\ CleanInv /\ PrintInv
BY DEF Init, WatchInv, VerifyInv, CleanInv, PrintInv, NoSnapshot

LEMMA WatchStep ==
    TypeOK /\ CallInv /\ CallbackInv /\ WatchInv /\ [Next]_vars => WatchInv'
<1>. SUFFICES ASSUME TypeOK, CallInv, CallbackInv, WatchInv, [Next]_vars,
                     Quiet', watchPath' # NoPath
              PROVE  /\ watchDir' = at'[watchPath']
                     /\ round' > 0 /\ pc' \in {"locate", "read"} /\ candidate.dir' = watchDir' =>
                            \A p \in candidate.prints' : <<watchDir', p.file>> \in watchedFiles'
    BY DEF WatchInv
<1>. DEFINE Goal == /\ watchDir' = at'[watchPath']
                    /\ round' > 0 /\ pc' \in {"locate", "read"} /\ candidate.dir' = watchDir' =>
                        \A p \in candidate.prints' : <<watchDir', p.file>> \in watchedFiles'
<1>. USE DEF fsVars, watchVars, catalogVars, callVars
<1>1. CASE UNCHANGED vars
    BY <1>1 DEF vars, WatchInv, Quiet
<1>2. CASE Environment
    <2>1. UNCHANGED <<watchPath, watchDir, round, pc, candidate>>
        BY <1>2, EnvironmentFrame
    <2>2. Quiet /\ at'[watchPath] = watchDir
          /\ \A f \in Files : <<watchDir, f>> \in watchedFiles => <<watchDir, f>> \in watchedFiles'
        BY <1>2, <2>1, QuietChange
    <2>3. \A p \in candidate.prints : p.file \in Files
        BY DEF TypeOK, Snapshot, FilePrint
    <2>. QED BY <2>1, <2>2, <2>3 DEF WatchInv
<1>3. CASE Deliver
    BY <1>3, DeliverKnown DEF Deliver
<1>4. CASE Locate \/ ReadFile \/ FirstLoadDone
    <2>1. /\ UNCHANGED <<fsVars, watchVars, catalogVars>> /\ pc' # "locate"
          /\ \/ pc' = "install"
             \/ pc \in {"locate", "read"} /\ UNCHANGED <<round, candidate>>
        BY <1>4 DEF Locate, ReadFile, FirstLoadDone
    <2>. QED BY <2>1 DEF WatchInv, Quiet
<1>5. CASE LoadFails \/ Throw \/ InstallFails \/ GiveUp
    BY <1>5 DEF LoadFails, Throw, InstallFails, GiveUp, Abandon, ClearWatcher
<1>6. CASE InstallWatches
    <2>1. PICK home \in Homes(candidate) :
            /\ watchDir' = at[candidate.path] /\ watchPath' = candidate.path /\ at' = at
            /\ candidate' = candidate /\ watchedFiles' = WatchedBy(candidate, home)
        BY <1>6 DEF InstallWatches
    <2>2. candidate.dir = watchDir' => home = watchDir'
        BY <2>1 DEF Homes
    <2>. QED BY <2>1, <2>2 DEF WatchedBy
<1>7. CASE Commit \/ SecondRound
    BY <1>7 DEF Commit, SecondRound, WatchInv, Quiet
<1>8. ASSUME NEW i \in Instances, Reuse(i) PROVE Goal
    BY <1>8 DEF Reuse, WatchInv, Quiet
<1>9. ASSUME NEW i \in Instances, BeginRefresh(i) PROVE Goal
    BY <1>9 DEF BeginRefresh, ClearSnapshotAndWatches, ClearWatcher, WatchInv, Quiet
<1>10. CASE EndSession \/ Reset
    BY <1>10 DEF EndSession, Reset, ClearSnapshotAndWatches, ClearWatcher, WatchInv, Quiet
<1>. QED BY <1>1, <1>2, <1>3, <1>4, <1>5, <1>6, <1>7, <1>8, <1>9, <1>10
         DEF Next, CallStep, Client

LEMMA PrintStep == TypeOK /\ PrintInv /\ [Next]_vars => PrintInv'
<1>. SUFFICES ASSUME TypeOK, PrintInv, [Next]_vars PROVE PrintInv'
    OBVIOUS
<1>. USE DEF PrintInv, PrintOf
<1>1. CASE UNCHANGED loaded
    BY <1>1
<1>2. CASE Locate
    BY <1>2 DEF Locate
<1>3. CASE ReadFile
    <2>1. loaded \in Snapshot
        BY DEF TypeOK
    <2>2. \/ UNCHANGED loaded
          \/ \E r \in todo : loaded' = [loaded EXCEPT !.recs = @ \cup {r},
                                                      !.prints = @ \cup {PrintOf(r)}]
          \/ \E r \in todo : loaded' =
                [loaded EXCEPT !.prints = @ \cup {PrintOf(s) : s \in
                    {t \in RecordsIn(at[loaded.path]) : t.file = r.file}}]
        BY <1>3 DEF ReadFile
    <2>. QED BY <2>1, <2>2 DEF Snapshot
<1>4. CASE LoadFails \/ Throw \/ InstallFails \/ GiveUp \/ Commit
    BY <1>4 DEF LoadFails, Throw, InstallFails, GiveUp, Commit, Abandon, NoSnapshot
<1>5. CASE Environment \/ Client \/ Deliver \/ FirstLoadDone \/ InstallWatches \/ SecondRound
    <2>1. Environment => UNCHANGED loaded
        BY EnvironmentFrame DEF callVars
    <2>2. Client => UNCHANGED loaded
        BY DEF Client, Reuse, BeginRefresh, EndSession, Reset
    <2>3. Deliver \/ FirstLoadDone \/ InstallWatches \/ SecondRound => UNCHANGED loaded
        BY DEF Deliver, FirstLoadDone, InstallWatches, SecondRound, callVars
    <2>. QED BY <1>1, <1>5, <2>1, <2>2, <2>3
<1>. QED BY <1>1, <1>2, <1>3, <1>4, <1>5 DEF Next, CallStep, vars, callVars

\* Reading keeps a verifying load in step with the directory as long as all is quiet.
LEMMA VerifyStep ==
    TypeOK /\ CallInv /\ CallbackInv /\ WatchInv /\ VerifyInv /\ [Next]_vars => VerifyInv'
<1>. SUFFICES ASSUME TypeOK, CallInv, CallbackInv, WatchInv, VerifyInv, [Next]_vars,
                     pc' = "read", round' > 0, Quiet', loaded.path' = watchPath',
                     loaded.dir' = candidate.dir'
              PROVE  (/\ loaded.dir = watchDir
                      /\ \A f \in Files : content[watchDir][f] # 0 =>
                            (\E r \in todo : r.file = f) \/ (\E p \in loaded.prints : p.file = f)
                      /\ \A r \in todo \cup loaded.recs : <<watchDir, r.file>> \in watchedFiles =>
                            r \in RecordsIn(watchDir)
                      /\ \A p \in loaded.prints : <<watchDir, p.file>> \in watchedFiles =>
                            \E r \in loaded.recs : r.file = p.file)'
    BY DEF VerifyInv
<1>. DEFINE Goal == /\ loaded.dir = watchDir
                    /\ \A f \in Files : content[watchDir][f] # 0 =>
                          (\E r \in todo : r.file = f) \/ (\E p \in loaded.prints : p.file = f)
                    /\ \A r \in todo \cup loaded.recs : <<watchDir, r.file>> \in watchedFiles =>
                          r \in RecordsIn(watchDir)
                    /\ \A p \in loaded.prints : <<watchDir, p.file>> \in watchedFiles =>
                          \E r \in loaded.recs : r.file = p.file
<1>. todo \subseteq Record /\ loaded \in Snapshot /\ loaded.recs \subseteq Record
     /\ loaded.prints \subseteq FilePrint
    BY DEF TypeOK, Snapshot
<1>1. CASE UNCHANGED vars
    BY <1>1 DEF vars, fsVars, watchVars, catalogVars, callVars, VerifyInv, Quiet, RecordsIn
<1>2. CASE Environment
    <2>1. UNCHANGED <<watchPath, watchDir, round, pc, candidate, loaded, todo>>
        BY <1>2, EnvironmentFrame DEF callVars
    <2>2. watchPath # NoPath
        BY <2>1 DEF CallInv
    <2>3. /\ Quiet
          /\ \A f \in Files :
                 /\ content'[watchDir][f] # 0 <=> content[watchDir][f] # 0
                 /\ <<watchDir, f>> \in watchedFiles' <=> <<watchDir, f>> \in watchedFiles
                 /\ <<watchDir, f>> \in watchedFiles =>
                        content'[watchDir][f] = content[watchDir][f]
        BY <1>2, <2>2, QuietChange
    <2>4. Goal
        BY <2>1, <2>3 DEF VerifyInv
    <2>5. \A r \in todo \cup loaded.recs : r.file \in Files
        BY DEF Record
    <2>6. \A p \in loaded.prints : p.file \in Files
        BY DEF FilePrint
    <2>. QED BY <2>1, <2>3, <2>4, <2>5, <2>6 DEF RecordsIn
<1>3. CASE Deliver
    <2>1. watchPath # NoPath
        BY <1>3 DEF Deliver, callVars, CallInv
    <2>. QED BY <1>3, <2>1, DeliverKnown
<1>4. CASE Locate
    <2>1. watchPath \in Paths /\ watchPath = located[selected]
        BY <1>4 DEF Locate, watchVars, fsVars, catalogVars, CallInv, TypeOK
    <2>2. /\ Quiet /\ watchPath # NoPath
          /\ UNCHANGED <<watchPath, watchDir, watchedFiles, content>>
          /\ loaded' = [path |-> watchPath, dir |-> at[watchPath], recs |-> {}, prints |-> {}]
          /\ todo' = RecordsIn(at[watchPath])
        BY <1>4, <2>1, CatalogAssumption DEF Locate, watchVars, fsVars, catalogVars, Quiet
    <2>3. watchDir = at[watchPath] /\ watchDir \in Dirs
        BY <2>1, <2>2 DEF WatchInv, TypeOK
    <2>4. \A f \in Files : content[watchDir][f] # 0 => \E r \in todo' : r.file = f
        BY <2>2, <2>3, RecordOfFile DEF TypeOK
    <2>. QED BY <2>2, <2>3, <2>4 DEF RecordsIn
<1>5. CASE ReadFile
    <2>1. /\ UNCHANGED <<watchPath, watchDir, watchedFiles, content, round, candidate>>
          /\ Quiet /\ pc = "read"
        BY <1>5 DEF ReadFile, watchVars, fsVars, catalogVars, Quiet
    <2>2. loaded'.path = loaded.path /\ loaded'.dir = loaded.dir
        BY <1>5 DEF ReadFile, Snapshot
    <2>3. watchPath = loaded.path /\ watchPath \in Paths /\ watchDir = at[watchPath]
          /\ watchDir \in Dirs
        BY <2>1, <2>2 DEF WatchInv, CallInv, TypeOK, Snapshot
    <2>4. Goal
        BY <2>1, <2>2 DEF VerifyInv
    <2>5. PICK r \in todo :
            LET now == {s \in RecordsIn(at[loaded.path]) : s.file = r.file} IN
            \/ /\ todo' = todo \ {r}
               /\ loaded' = [loaded EXCEPT !.recs = @ \cup {r}, !.prints = @ \cup {PrintOf(r)}]
            \/ /\ r \notin now /\ todo' = todo \ {r}
               /\ loaded' = [loaded EXCEPT !.prints = @ \cup {PrintOf(s) : s \in now}]
            \/ /\ now # {} /\ todo' = (todo \ {r}) \cup now /\ loaded' = loaded
        BY <1>5 DEF ReadFile
    <2>. DEFINE now == {s \in RecordsIn(watchDir) : s.file = r.file}
    <2>6. content[watchDir][r.file] # 0 => now # {}
        BY <2>3, RecordOfFile DEF Record, TypeOK
    <2>7. PrintOf(r).file = r.file /\ \A s \in now : PrintOf(s).file = r.file
        BY PrintOfType DEF RecordsIn
    <2>8. CASE /\ todo' = todo \ {r} 
               /\ loaded' = [loaded EXCEPT !.recs = @ \cup {r}, !.prints = @ \cup {PrintOf(r)}]
        <3>1. loaded'.recs = loaded.recs \cup {r} /\ loaded'.prints = loaded.prints \cup {PrintOf(r)}
            BY <2>8 DEF Snapshot
        <3>. QED BY <2>1, <2>2, <2>4, <2>7, <2>8, <3>1 DEF RecordsIn
    <2>9. CASE /\ r \notin now /\ todo' = todo \ {r}
               /\ loaded' = [loaded EXCEPT !.prints = @ \cup {PrintOf(s) : s \in now}]
        <3>1. loaded'.recs = loaded.recs /\ loaded'.prints = loaded.prints \cup {PrintOf(s) : s \in now}
            BY <2>9 DEF Snapshot
        <3>2. <<watchDir, r.file>> \notin watchedFiles
            BY <2>4, <2>9
        <3>. QED BY <2>1, <2>2, <2>4, <2>6, <2>7, <2>9, <3>1, <3>2 DEF RecordsIn
    <2>10. CASE now # {} /\ todo' = (todo \ {r}) \cup now /\ loaded' = loaded
        BY <2>1, <2>2, <2>4, <2>10 DEF RecordsIn
    <2>. QED BY <2>3, <2>5, <2>8, <2>9, <2>10
<1>6. CASE LoadFails \/ Throw \/ InstallFails \/ GiveUp \/ Commit
    BY <1>6 DEF LoadFails, Throw, InstallFails, GiveUp, Abandon, Commit
<1>7. CASE FirstLoadDone \/ InstallWatches \/ SecondRound
    BY <1>7 DEF FirstLoadDone, InstallWatches, SecondRound
<1>8. CASE Client
    BY <1>8 DEF Client, Reuse, BeginRefresh, EndSession, Reset, CallInv
<1>. QED BY <1>1, <1>2, <1>3, <1>4, <1>5, <1>6, <1>7, <1>8 DEF Next, CallStep

\* A commit of a quiet round is the directory as it is; what invalidates a clean
\* snapshot is always known.
LEMMA CleanStep ==
    TypeOK /\ CallInv /\ CallbackInv /\ WatchInv /\ VerifyInv /\ PrintInv /\ CleanInv /\ [Next]_vars
        => CleanInv'
<1>. SUFFICES ASSUME TypeOK, CallInv, CallbackInv, WatchInv, VerifyInv, PrintInv, CleanInv,
                     [Next]_vars, hasClean', Quiet'
              PROVE  (/\ records = RecordsIn(watchDir)
                      /\ \A f \in Files :
                             content[watchDir][f] # 0 => <<watchDir, f>> \in watchedFiles)'
    BY DEF CleanInv
<1>. DEFINE Goal == /\ records = RecordsIn(watchDir)
                    /\ \A f \in Files :
                           content[watchDir][f] # 0 => <<watchDir, f>> \in watchedFiles
<1>. USE DEF fsVars, watchVars, catalogVars, callVars
<1>1. ASSUME UNCHANGED <<content, watchPath, watchDir, watchedFiles, pending, renamed,
                         records, hasClean, dirty>>
      PROVE  Goal'
    BY <1>1 DEF CleanInv, Quiet, RecordsIn
<1>2. CASE Environment
    <2>1. UNCHANGED <<records, hasClean, watchDir>>
        BY <1>2, EnvironmentFrame
    <2>2. watchPath # NoPath
        BY <2>1 DEF CallbackInv
    <2>3. /\ Quiet /\ watchDir \in Dirs
          /\ \A f \in Files :
                 /\ content'[watchDir][f] # 0 <=> content[watchDir][f] # 0
                 /\ <<watchDir, f>> \in watchedFiles' <=> <<watchDir, f>> \in watchedFiles
                 /\ <<watchDir, f>> \in watchedFiles =>
                        content'[watchDir][f] = content[watchDir][f]
        BY <1>2, <2>2, QuietChange
    <2>4. Goal
        BY <2>1, <2>3 DEF CleanInv
    <2>5. \A f \in Files : content'[watchDir][f] = content[watchDir][f]
        BY <2>3, <2>4
    <2>. QED BY <2>1, <2>3, <2>4, <2>5 DEF RecordsIn, Record
<1>3. CASE Deliver
    <2>1. watchPath # NoPath
        BY <1>3 DEF Deliver, CallbackInv
    <2>. QED BY <1>3, <2>1, DeliverKnown
<1>4. CASE Commit
    <2>1. /\ Quiet /\ pc = "read" /\ round > 0 /\ todo = {} /\ watchPath # NoPath
          /\ loaded.path = watchPath /\ loaded.dir = candidate.dir
          /\ loaded.prints = candidate.prints
          /\ UNCHANGED <<content, watchDir, watchedFiles>> /\ records' = loaded.recs
        BY <1>4 DEF Commit, VerifyDone, Equivalent, CallbackInv, Quiet
    <2>2. /\ loaded.dir = watchDir
          /\ \A f \in Files : content[watchDir][f] # 0 => \E p \in loaded.prints : p.file = f
          /\ \A r \in loaded.recs : <<watchDir, r.file>> \in watchedFiles =>
                r \in RecordsIn(watchDir)
          /\ \A p \in loaded.prints : <<watchDir, p.file>> \in watchedFiles =>
                \E r \in loaded.recs : r.file = p.file
        BY <2>1 DEF VerifyInv
    <2>3. \A p \in loaded.prints : <<watchDir, p.file>> \in watchedFiles
        BY <2>1, <2>2 DEF WatchInv
    <2>4. \A r \in loaded.recs : r \in RecordsIn(watchDir)
        <3>1. ASSUME NEW r \in loaded.recs PROVE <<watchDir, r.file>> \in watchedFiles
            <4>1. r \in Record
                BY DEF TypeOK, Snapshot
            <4>2. PrintOf(r) \in loaded.prints /\ PrintOf(r).file = r.file
                BY <4>1, PrintOfType DEF PrintInv
            <4>. QED BY <4>2, <2>3
        <3>. QED BY <2>2, <3>1
    <2>5. ASSUME NEW s \in RecordsIn(watchDir) PROVE s \in loaded.recs
        <3>1. s.file \in Files /\ content[watchDir][s.file] # 0
            BY DEF RecordsIn, Record
        <3>2. PICK r \in loaded.recs : r.file = s.file
            BY <2>2, <2>3, <3>1
        <3>3. r \in RecordsIn(watchDir)
            BY <2>4
        <3>4. r = s
            BY <3>2, <3>3 DEF RecordsIn, Record
        <3>. QED BY <3>4
    <2>. QED BY <2>1, <2>2, <2>3, <2>4, <2>5 DEF RecordsIn
<1>5. CASE LoadFails \/ Throw \/ InstallFails \/ GiveUp \/ InstallWatches
    BY <1>5 DEF LoadFails, Throw, InstallFails, GiveUp, Abandon, InstallWatches
<1>6. CASE SecondRound
    BY <1>6 DEF SecondRound, VerifyDone, CallbackInv
<1>7. CASE Locate \/ ReadFile \/ FirstLoadDone \/ UNCHANGED vars
    BY <1>1, <1>7 DEF Locate, ReadFile, FirstLoadDone, vars
<1>8. ASSUME NEW i \in Instances, Reuse(i) \/ BeginRefresh(i) PROVE Goal'
    BY <1>1, <1>8 DEF Reuse, BeginRefresh, ClearSnapshotAndWatches
<1>9. CASE EndSession \/ Reset
    BY <1>1, <1>9 DEF EndSession, Reset, ClearSnapshotAndWatches
<1>. QED BY <1>2, <1>3, <1>4, <1>5, <1>6, <1>7, <1>8, <1>9 DEF Next, CallStep, Client

-----------------------------------------------------------------------------
\* The parts together are inductive.
THEOREM CatalogInvariant == Spec => []IInv
<1>1. Init => IInv
    BY TypeInit, CallInvInit, WatchInit DEF IInv
<1>2. IInv /\ [Next]_vars => IInv'
    BY TypeStep, CallInvStep, CallbackStep, WatchStep, VerifyStep, CleanStep,
       PrintStep DEF IInv
<1>. QED BY <1>1, <1>2, PTL DEF Spec

\* Every variable of the catalog, its watcher and its call keeps its type.
THEOREM CatalogTypeOK == Spec => []TypeOK
<1>1. IInv => TypeOK
    BY DEF IInv
<1>. QED BY <1>1, CatalogInvariant, PTL

\* However many files, directories and changes there are: a clean snapshot that
\* no delivered or queued event questions is what its directory holds.
THEOREM CatalogCleanIsCurrent == Spec => []CleanIsCurrent
<1>1. IInv => CleanIsCurrent
    <2>. SUFFICES ASSUME IInv, hasClean, ~dirty, ~pending, ~renamed
                  PROVE  records = RecordsIn(at[cleanDirectory])
        BY DEF CleanIsCurrent
    <2>1. watchPath = cleanDirectory /\ watchPath # NoPath
        BY DEF IInv, CallbackInv
    <2>2. Quiet
        BY <2>1 DEF Quiet
    <2>. QED BY <2>1, <2>2 DEF IInv, CleanInv, WatchInv
<1>. QED BY <1>1, CatalogInvariant, PTL

\* Between calls, a clean snapshot, its watches and a live callback come together.
THEOREM CatalogWatchesMatchSnapshot == Spec => []WatchesMatchSnapshot
<1>1. IInv => WatchesMatchSnapshot
    BY DEF IInv, CallbackInv, CallInv, WatchesMatchSnapshot
<1>. QED BY <1>1, CatalogInvariant, PTL

-----------------------------------------------------------------------------
(* The promise to the client: SessionListing.                              *)

\* A change shows an open session what it makes current.
LEMMA ChangeSeen ==
    ASSUME SessionInv, Environment
    PROVE  /\ open' = open /\ seen \subseteq seen'
           /\ open => Visible(selected)' \subseteq seen'
<1>1. /\ open' = open
      /\ seen' = IF open THEN seen \cup Visible(selected)' ELSE seen
    BY DEF Environment, Edit, Put, Delete, Retarget, Rename, Swap, Relocate, Changed
<1>. QED BY <1>1

LEMMA SessionStep == IInv /\ SessionInv /\ [Next]_vars => SessionInv'
<1>. SUFFICES ASSUME IInv, SessionInv, [Next]_vars PROVE SessionInv'
    OBVIOUS
<1>. TypeOK /\ CallInv /\ CallbackInv
    BY DEF IInv
<1>. USE CatalogAssumption DEF fsVars, watchVars, catalogVars, callVars
<1>1. CASE UNCHANGED vars
    BY <1>1 DEF vars, SessionInv, Visible, Current, RecordsIn
<1>2. CASE Environment
    <2>1. UNCHANGED <<catalogVars, callVars>>
        BY <1>2, EnvironmentFrame
    <2>. QED BY <1>2, <2>1, ChangeSeen DEF SessionInv
<1>3. CASE Deliver
    BY <1>3 DEF Deliver, SessionInv, Visible, Current, RecordsIn
<1>12. CASE EndSession
    BY <1>12 DEF EndSession, SessionInv, CallInv, NoSnapshot
<1>4. CASE Locate
    <2>1. todo' \subseteq Current(selected) /\ Visible(selected)' = Current(selected)
        BY <1>4 DEF Locate, Visible, Current, RecordsIn
    <2>2. Current(selected) \subseteq seen
        BY <1>4 DEF Locate, SessionInv, Visible
    <2>. QED BY <1>4, <2>1, <2>2 DEF Locate, SessionInv
<1>5. CASE ReadFile
    <2>1. RecordsIn(at[loaded.path]) \subseteq seen
        BY <1>5 DEF ReadFile, SessionInv, Visible, CallInv
    <2>2. loaded \in Snapshot
        BY DEF TypeOK
    <2>3. todo' \cup loaded'.recs \subseteq todo \cup loaded.recs \cup RecordsIn(at[loaded.path])
        BY <1>5, <2>2 DEF ReadFile, Snapshot
    <2>4. loaded'.path = loaded.path
        BY <1>5, <2>2 DEF ReadFile, Snapshot
    <2>5. Visible(selected)' = Visible(selected)
        BY <1>5, <2>4 DEF ReadFile, Visible, Current, RecordsIn
    <2>. QED BY <1>5, <2>1, <2>3, <2>5 DEF ReadFile, SessionInv
<1>6. CASE LoadFails \/ Throw \/ InstallFails \/ GiveUp
    <2>1. /\ UNCHANGED <<fsVars, selected, open, seen>>
          /\ sessionActive' = TRUE \/ sessionActive' = sessionActive
          /\ Abandon /\ pc # "idle"
        BY <1>6 DEF LoadFails, Throw, InstallFails, GiveUp, VerifyDone
    <2>2. Visible(selected)' \subseteq Visible(selected)
        BY <2>1 DEF Abandon, Visible, Current, RecordsIn, NoSnapshot
    <2>3. open' /\ sessionActive' /\ open /\ (open' <=> sessionActive')
        <3>1. open /\ sessionActive
            BY <2>1 DEF SessionInv
        <3>2. open' = open /\ (sessionActive' = TRUE \/ sessionActive' = sessionActive)
            BY <2>1
        <3>. QED BY <3>1, <3>2
    <2>4. ~hasClean' /\ todo' \cup loaded'.recs \cup candidate'.recs = {}
        BY <2>1 DEF Abandon, NoSnapshot
    <2>5. selected' # NoInstance /\ Visible(selected)' \subseteq seen'
        BY <2>1, <2>2, <2>3 DEF SessionInv
    <2>. QED BY <2>1, <2>3, <2>4, <2>5 DEF SessionInv
<1>7. CASE Commit
    <2>1. Visible(selected)' \subseteq Visible(selected)
        BY <1>7 DEF Commit, Visible, Current, RecordsIn, NoSnapshot
    <2>. QED BY <1>7, <2>1 DEF Commit, VerifyDone, SessionInv, NoSnapshot
<1>8. CASE FirstLoadDone \/ InstallWatches \/ SecondRound
    <2>1. Visible(selected)' = Visible(selected)
        BY <1>8 DEF FirstLoadDone, InstallWatches, SecondRound, Visible, Current, RecordsIn
    <2>. QED BY <1>8, <2>1 DEF FirstLoadDone, InstallWatches, SecondRound, VerifyDone, SessionInv
<1>9. ASSUME NEW i \in Instances, Reuse(i) PROVE SessionInv'
    BY <1>9 DEF Reuse, SessionInv, Visible, Current, RecordsIn
<1>10. ASSUME NEW i \in Instances, BeginRefresh(i) PROVE SessionInv'
    <2>1. loaded.path = NoPath /\ loaded.recs = {} /\ candidate.recs = {} /\ todo = {}
        BY <1>10 DEF BeginRefresh, CallInv, NoSnapshot
    <2>2. Visible(selected)' = Current(i)
        BY <1>10, <2>1 DEF BeginRefresh, Visible, Current, RecordsIn
    <2>3. open /\ selected = i => Current(i) \subseteq seen
        BY <2>1 DEF SessionInv, Visible
    <2>4. /\ selected' = i /\ open' = TRUE /\ sessionActive' = TRUE /\ pc' = "locate"
          /\ seen' = IF open /\ selected = i THEN seen ELSE Current(i)
          /\ UNCHANGED <<todo, loaded, candidate>>
        BY <1>10 DEF BeginRefresh
    <2>. QED BY <2>1, <2>2, <2>3, <2>4 DEF SessionInv
<1>11. CASE Reset
    BY <1>11 DEF Reset, ClearSnapshotAndWatches, SessionInv, CallInv, NoSnapshot
<1>. QED BY <1>1, <1>2, <1>3, <1>4, <1>5, <1>6, <1>7, <1>8, <1>9, <1>10, <1>11, <1>12
         DEF Next, CallStep, Client

\* Every step of the catalog is a step of the promise, or none.
LEMMA PromiseStep == IInv /\ SessionInv /\ TypeOK' /\ [Next]_vars => [Promise!Next]_Promise!vars
<1>. SUFFICES ASSUME IInv, SessionInv, TypeOK', [Next]_vars
              PROVE  Promise!Next \/ UNCHANGED <<open, seen, answer>>
    BY DEF Promise!vars
<1>. TypeOK /\ CallInv /\ seen' \subseteq Record
    BY DEF IInv, TypeOK
<1>. USE DEF fsVars, watchVars, catalogVars, callVars, Promise!Next
<1>1. CASE Environment
    <2>1. UNCHANGED answer /\ open' = open /\ seen \subseteq seen'
        BY <1>1, EnvironmentFrame, ChangeSeen
    <2>2. CASE open
        BY <2>1, <2>2 DEF Promise!Change
    <2>3. CASE ~open
        BY <1>1, <2>1, <2>3 DEF Environment, Edit, Put, Delete, Retarget, Rename, Swap, Relocate, Changed
    <2>. QED BY <2>2, <2>3
<1>2. CASE Deliver \/ Locate \/ ReadFile \/ FirstLoadDone \/ InstallWatches \/ SecondRound
    BY <1>2 DEF Deliver, Locate, ReadFile, FirstLoadDone, InstallWatches, SecondRound
<1>3. CASE LoadFails \/ Throw \/ InstallFails \/ GiveUp \/ Commit
    <2>1. UNCHANGED <<open, seen>> /\ open /\ answer' \subseteq seen
        BY <1>3 DEF LoadFails, Throw, InstallFails, GiveUp, Commit, VerifyDone, SessionInv
    <2>. QED BY <2>1 DEF Promise!Answer
<1>4. ASSUME NEW i \in Instances, Reuse(i) PROVE Promise!Answer
    BY <1>4 DEF Reuse, Reusable, SessionInv, Promise!Answer
<1>5. ASSUME NEW i \in Instances, BeginRefresh(i) PROVE Promise!Open
    BY <1>5 DEF BeginRefresh, Promise!Open
<1>6. CASE EndSession \/ Reset
    BY <1>6 DEF EndSession, Reset, Promise!Close
<1>7. CASE UNCHANGED vars
    BY <1>7 DEF vars
<1>. QED BY <1>1, <1>2, <1>3, <1>4, <1>5, <1>6, <1>7 DEF Next, CallStep, Client

\* The catalog implements SessionListing: it never lists what was not current
\* at some moment of the client's session.
THEOREM CatalogKeepsPromise == Spec => ListsOnlyTheSession
<1>1. Init => SessionInv /\ Promise!Init
    BY CatalogAssumption DEF Init, SessionInv, NoSnapshot, Promise!Init
<1>2. IInv /\ SessionInv /\ [Next]_vars => SessionInv'
    BY SessionStep
<1>3. IInv' => TypeOK'
    BY DEF IInv
<1>4. IInv /\ IInv' /\ SessionInv /\ [Next]_vars => [Promise!Next]_Promise!vars
    BY <1>3, PromiseStep
<1>. QED BY <1>1, <1>2, <1>4, CatalogInvariant, PTL
         DEF Spec, ListsOnlyTheSession, Promise!Spec
=============================================================================
