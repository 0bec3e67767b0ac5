---------------------------- MODULE ProfileLocator ----------------------------
(***************************************************************************)
(* locateProfileDirectoryDetailed (core/profile_locator.cpp): the search   *)
(* for the directory of an instance's profiles. The custom directory of    *)
(* the preferences comes first, but that of a sandboxed instance must lie  *)
(* in its sandbox, whose roots are resolved link by link. Each step reads  *)
(* the file system once; others change it in between. A path is a sequence *)
(* of names and absolute; it is clean, but preferences and the targets of  *)
(* links are raw, with a ".." wherever somebody put one.                   *)
(***************************************************************************)
EXTENDS Integers, Sequences, FiniteSets, SequencesExt, FiniteSetsExt

CONSTANTS
    Names,                \* of files
    Kinds,                \* of instances: some of "native", "flatpak", "snap"
    RootOf,               \* the modelled root of a sandboxed kind's data
    CandidatesOf,         \* the directories to try for a kind, in this order
    Customs,              \* custom directories that preferences may name, by kind
    Targets,              \* where a place may link to, by kind and place; NoPath if it is no link
    Directories,          \* the statuses a place may have, by kind and place
    MaximumSymbolicLinks,
    MaxChanges,           \* changes by others during the search
    NoPath,
    Garbled,              \* preferences that cannot be read, or name no absolute path
    Unreadable, Nowhere   \* answers that are no path: ProfileLocationError

Paths == Seq(Names)
RawPaths == Seq(Names \cup {".."})

ASSUME LocatorAssumption ==
    /\ Kinds \subseteq {"native", "flatpak", "snap"}
    /\ MaximumSymbolicLinks \in Nat /\ MaxChanges \in Nat /\ "common" \in Names /\ ".." \notin Names
    /\ {NoPath, Garbled, Unreadable, Nowhere} \cap RawPaths = {} /\ Unreadable # Nowhere
    /\ \A k \in Kinds :
           /\ k # "native" => RootOf[k] \in Paths \ {<<>>}
           /\ CandidatesOf[k] \in Seq(Paths) /\ Customs[k] \subseteq RawPaths
           /\ \A p \in DOMAIN Targets[k] : Targets[k][p] \subseteq RawPaths \cup {NoPath}
           /\ \A p \in DOMAIN Directories[k] :
                  Directories[k][p] \subseteq {"invalid", "unreadable", "readable"}

VARIABLES
    kind,         \* of the instance
    links,        \* the target of each place, or NoPath
    status,       \* the status of each directory
    preference,   \* the custom directory in the preferences, NoPath or Garbled
    pc,           \* what the search does next
    path,         \* the path that is being resolved
    followed,     \* the links followed for it
    resolved,     \* the resolved root, and the resolved parent of a snap's root
    roots,        \* verifiedSandboxRoots
    custom,       \* the custom directory as it was read
    candidate,    \* the candidate to look at next
    answer,       \* a path, or Unreadable or Nowhere
    changes,
    hadStatus,    \* history: what status has been during the search
    hadCustom,    \* history: what reading the preference would have given
    linksChanged  \* history

world == <<kind, links, status, preference, changes, hadStatus, hadCustom, linksChanged>>

walk == <<path, followed>>

vars == <<world, walk, pc, resolved, roots, custom, candidate, answer>>

-----------------------------------------------------------------------------
(* Links                                                                   *)

\* cleanAbsolutePath: a ".." takes away the name before it, whatever that name stands for.
Clean(p) ==
    LET cleaned[n \in 0 .. Len(p)] ==
            IF n = 0 THEN <<>>
            ELSE IF p[n] = ".." THEN Front(cleaned[n - 1]) ELSE Append(cleaned[n - 1], p[n])
    IN cleaned[Len(p)]

IsLink(p) == p \in DOMAIN links /\ links[p] # NoPath
Linked(p) == {n \in DOMAIN p : IsLink(SubSeq(p, 1, n))}

\* The path with its first link replaced by the name, made clean, of what that points to.
Stepped(p) ==
    LET linked == Linked(p)
    IN IF linked = {} THEN p
       ELSE Clean(links[SubSeq(p, 1, Min(linked))]) \o SubSeq(p, Min(linked) + 1, Len(p))

\* The kernel goes name by name. It follows a link where it meets it and leaves the rest for
\* later, so that a ".." leads out of the place that has been reached, not out of a name.
\* (What a ".." leads out of exists.)
Met(p) == {n \in DOMAIN p : IsLink(Clean(SubSeq(p, 1, n)))}
Opened(p) == links[Clean(SubSeq(p, 1, Min(Met(p))))] \o SubSeq(p, Min(Met(p)) + 1, Len(p))

\* The place that a path reaches through so many links at most, NoPath if there are more.
Reached[n \in 0 .. MaximumSymbolicLinks] ==
    [p \in RawPaths |->
        IF Met(p) = {} THEN Clean(p) ELSE IF n = 0 THEN NoPath ELSE Reached[n - 1][Opened(p)]]
Real(p) == Reached[MaximumSymbolicLinks][p]

\* directoryStatus, which leaves the way to the kernel
StatusAt(p, s) == LET place == Real(p) IN IF place \in DOMAIN s THEN s[place] ELSE "invalid"
DirectoryStatus(p) == StatusAt(p, status)

\* pathBelow: the path is the root or below it.
PathBelow(p, root) == IsPrefix(root, p)

-----------------------------------------------------------------------------
Home(k) == Front(RootOf[k])
Common(k) == Append(Home(k), "common")

\* The functions that take each value from the set it is given.
Selections(sets) ==
    {f \in [DOMAIN sets -> UNION Range(sets)] : \A p \in DOMAIN sets : f[p] \in sets[p]}

\* customDataDirectory: preferences that are unreadable, malformed or name a relative path
\* are as good as none (test malformedAndUnreadablePreferencesFallBack).
Read(p) == IF p \in {NoPath, Garbled} THEN NoPath ELSE Clean(p)

Init ==
    /\ kind \in Kinds
    /\ links \in Selections(Targets[kind]) /\ status \in Selections(Directories[kind])
    /\ preference \in Customs[kind] \cup {NoPath, Garbled}
    /\ pc = IF kind = "native" THEN "preference" ELSE "root"
    /\ path = IF kind = "native" THEN NoPath ELSE RootOf[kind]
    /\ followed = 0 /\ resolved = [root |-> NoPath, home |-> NoPath]
    /\ roots = {} /\ custom = NoPath /\ candidate = 1 /\ answer = NoPath
    /\ changes = 0 /\ hadStatus = {status} /\ hadCustom = {Read(preference)} /\ linksChanged = FALSE

-----------------------------------------------------------------------------
(* resolvedPathForContainment                                              *)

Resolving == pc \in {"root", "home", "common", "custom"}

\* Mutant of FollowedNow: links are not counted.
FollowedForgotten == followed

FollowedNow == followed + 1

Follow ==
    /\ Resolving /\ Linked(path) # {} /\ followed < MaximumSymbolicLinks
    /\ path' = Stepped(path) /\ followed' = FollowedNow
    /\ UNCHANGED <<world, pc, resolved, roots, custom, candidate, answer>>

\* The resolution is over: there is no link left, or there were too many.
Resolved(goal) == pc = goal /\ (Linked(path) = {} \/ followed = MaximumSymbolicLinks)
Resolution == IF Linked(path) = {} THEN path ELSE NoPath

Resolve(goal, p) == pc' = goal /\ path' = p /\ followed' = 0

\* The search goes on with something else than a resolution.
GoOn(step) == Resolve(step, NoPath)

-----------------------------------------------------------------------------
(* verifiedSandboxRoots                                                    *)

Root(lexical, real) == [lexical |-> lexical, resolved |-> real]

ResolveRoot ==
    /\ Resolved("root") /\ resolved' = [resolved EXCEPT !.root = Resolution]
    /\ IF Resolution = NoPath THEN GoOn("preference") /\ UNCHANGED roots
       ELSE IF kind = "flatpak"
       THEN GoOn("preference") /\ roots' = {Root(RootOf[kind], Resolution)}
       ELSE Resolve("home", Home(kind)) /\ UNCHANGED roots
    /\ UNCHANGED <<world, custom, candidate, answer>>

\* The root is a revision: right below the snap's directory, and not the common one.
IsRevision(root, home) ==
    /\ PathBelow(root, home) /\ Len(root) = Len(home) + 1 /\ Last(root) # "common"

ResolveHome ==
    /\ Resolved("home") /\ resolved' = [resolved EXCEPT !.home = Resolution]
    /\ IF Resolution = NoPath \/ ~IsRevision(resolved.root, Resolution) THEN GoOn("preference")
       ELSE Resolve("common", Common(kind))
    /\ UNCHANGED <<world, roots, custom, candidate, answer>>

\* The root as it is called, the revision's own name, and the data common to revisions.
ResolveCommon ==
    /\ Resolved("common") /\ GoOn("preference")
    /\ roots' = IF Resolution # Append(resolved.home, "common") THEN {}
                ELSE {Root(RootOf[kind], resolved.root),
                      Root(Append(Home(kind), Last(resolved.root)), resolved.root),
                      Root(Common(kind), Resolution)}
    /\ UNCHANGED <<world, resolved, custom, candidate, answer>>

-----------------------------------------------------------------------------
(* sandboxCustomLocation                                                   *)

ReadPreference ==
    /\ pc = "preference" /\ custom' = Read(preference)
    /\ IF custom' = NoPath \/ (kind # "native" /\ roots = {}) THEN GoOn("candidates")
       ELSE IF kind = "native" THEN GoOn("check")
       ELSE Resolve("custom", custom')
    /\ UNCHANGED <<world, resolved, roots, candidate, answer>>

\* Mutant of InRoot: the name of the directory is enough.
InRootByName(root) == Resolution # NoPath /\ PathBelow(custom, root.lexical)

\* The custom directory is in the sandbox by its name and in truth.
InRoot(root) ==
    /\ Resolution # NoPath
    /\ PathBelow(custom, root.lexical) /\ PathBelow(Resolution, root.resolved)

ResolveCustom ==
    /\ Resolved("custom")
    /\ GoOn(IF \E root \in roots : InRoot(root) THEN "check" ELSE "candidates")
    /\ UNCHANGED <<world, resolved, roots, custom, candidate, answer>>

-----------------------------------------------------------------------------
(* existingLocation, locateProfileDirectoryDetailed                        *)

\* Mutant of Settles: a directory that cannot be read is passed over.
SettlesIfReadable(s) == s = "readable"

\* A directory that is there is the answer, or it is the reason that there is none.
Settles(s) == s # "invalid"

Answer(a) == answer' = a /\ pc' = "done" /\ UNCHANGED <<world, walk, resolved, roots, custom, candidate>>
AnswerWith(p) == Answer(IF DirectoryStatus(p) = "readable" THEN p ELSE Unreadable)

CheckCustom ==
    /\ pc = "check" /\ Settles(DirectoryStatus(custom)) /\ AnswerWith(custom)

PassCustom ==
    /\ pc = "check" /\ ~Settles(DirectoryStatus(custom)) /\ GoOn("candidates")
    /\ UNCHANGED <<world, resolved, roots, custom, candidate, answer>>

Candidate == CandidatesOf[kind][candidate]

CheckCandidate ==
    /\ pc = "candidates" /\ candidate <= Len(CandidatesOf[kind])
    /\ Settles(DirectoryStatus(Candidate)) /\ AnswerWith(Candidate)

PassCandidate ==
    /\ pc = "candidates" /\ candidate <= Len(CandidatesOf[kind])
    /\ ~Settles(DirectoryStatus(Candidate)) /\ candidate' = candidate + 1
    /\ UNCHANGED <<world, walk, pc, resolved, roots, custom, answer>>

NotFound ==
    /\ pc = "candidates" /\ candidate > Len(CandidatesOf[kind]) /\ Answer(Nowhere)

Search ==
    \/ Follow \/ ResolveRoot \/ ResolveHome \/ ResolveCommon
    \/ ReadPreference \/ ResolveCustom
    \/ CheckCustom \/ PassCustom \/ CheckCandidate \/ PassCandidate \/ NotFound

-----------------------------------------------------------------------------
(* Others                                                                  *)

Change ==
    /\ pc # "done" /\ changes < MaxChanges /\ changes' = changes + 1
    /\ UNCHANGED <<kind, walk, pc, resolved, roots, custom, candidate, answer>>

SetPreference(p) ==
    /\ Change /\ p # preference
    /\ preference' = p /\ hadCustom' = hadCustom \cup {Read(p)}
    /\ UNCHANGED <<links, status, hadStatus, linksChanged>>

SetStatus(d, s) ==
    /\ Change /\ s # status[d]
    /\ status' = [status EXCEPT ![d] = s] /\ hadStatus' = hadStatus \cup {status'}
    /\ UNCHANGED <<links, preference, hadCustom, linksChanged>>

SetLink(p, target) ==
    /\ Change /\ target # links[p]
    /\ links' = [links EXCEPT ![p] = target] /\ linksChanged' = TRUE
    /\ UNCHANGED <<status, preference, hadStatus, hadCustom>>

Next ==
    \/ Search
    \/ \E p \in Customs[kind] \cup {NoPath, Garbled} : SetPreference(p)
    \/ \E d \in DOMAIN status : \E s \in Directories[kind][d] : SetStatus(d, s)
    \/ \E p \in DOMAIN links : \E t \in Targets[kind][p] : SetLink(p, t)

Spec == Init /\ [][Next]_vars /\ WF_vars(Search)

-----------------------------------------------------------------------------
(* Properties                                                              *)

\* What may be answered in a sandbox: the revision in use and the common data of a snap, the
\* data of a Flatpak, if these are where they should be.
Sandbox ==
    IF kind = "flatpak" THEN {Real(RootOf[kind])} \ {NoPath}
    ELSE {p \in {Real(RootOf[kind]), Real(Common(kind))} \ {NoPath} :
             IsStrictPrefix(Real(Home(kind)), p)}

\* No ".." stands behind a link in what a link points to. The program takes such a ".." for
\* the parent of a name (profile_locator.cpp:146) and the kernel for that of a place, so that
\* without this the two come to different places, and a directory that is outside is
\* accepted: the design claims more (docs/plans/2026-08-12-remmina-krunner-design.md:179).
Straight ==
    \A p \in DOMAIN links : links[p] # NoPath =>
        \A n \in DOMAIN links[p] : links[p][n] = ".." => \A m \in Met(links[p]) : m > n

\* The custom directory of a sandboxed instance is searched only if the place the kernel
\* takes its name to is in its sandbox (profile_locator.cpp:286): no link on the way leads
\* out, and no other revision is reached, however the preferences and the directories change
\* during the search.
SandboxHolds ==
    pc = "check" /\ kind # "native" /\ ~linksChanged /\ Straight =>
        \E root \in Sandbox : IsPrefix(root, Real(custom))

\* The roots of the sandbox, as they are, if everything is where it should be.
TrueRoots ==
    LET root == Real(RootOf[kind])
        home == Real(Home(kind))
        common == Append(home, "common")
    IN IF root = NoPath THEN {}
       ELSE IF kind = "flatpak" THEN {Root(RootOf[kind], root)}
       ELSE IF home # NoPath /\ IsRevision(root, home) /\ Real(Common(kind)) = common
       THEN {Root(RootOf[kind], root), Root(Append(Home(kind), Last(root)), root),
             Root(Common(kind), common)}
       ELSE {}

\* The custom directory p may be searched.
Allowed(p) ==
    /\ p # NoPath
    /\ kind # "native" =>
         /\ Real(p) # NoPath
         /\ \E root \in TrueRoots : PathBelow(p, root.lexical) /\ PathBelow(Real(p), root.resolved)

\* What precedes a directory in the search is there for the taking only if it was seen
\* absent during the search (profile_locator.cpp:329): profiles of a directory of lower
\* precedence are never listed because a better one could not be read just then. (A custom
\* directory precedes the others only while the preferences can be read.)
Had(p, s) == \E old \in hadStatus : StatusAt(p, old) = s
Absent(p) == Had(p, "invalid")
SkipsCustom == \E p \in hadCustom : Allowed(p) => Absent(p)
AbsentBefore(n) == SkipsCustom /\ \A i \in 1 .. n - 1 : Absent(CandidatesOf[kind][i])

AnswerIsJustified ==
    pc = "done" /\ ~linksChanged /\ Straight =>
        \/ answer = Nowhere /\ AbsentBefore(Len(CandidatesOf[kind]) + 1)
        \/ LET s == IF answer = Unreadable THEN "unreadable" ELSE "readable"
               is(p) == Had(p, s) /\ answer \in {p, Unreadable}
           IN \/ \E p \in hadCustom : Allowed(p) /\ is(p)
              \/ \E n \in DOMAIN CandidatesOf[kind] : is(CandidatesOf[kind][n]) /\ AbsentBefore(n)

\* A search ends, also among links that lead round in circles.
SearchEnds == <>(pc = "done")
=============================================================================
