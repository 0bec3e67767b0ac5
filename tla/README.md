# Verification of remmina-krunner

TLA+ models of the parts of remmina-krunner whose correctness depends on order:
the profile catalog and the profile repository against a file system that others
change, the search for the profile directory, the scan for installations and the
programs it runs, the D-Bus service against its clients and its clock, the choice of an
installation by several processes that share one configuration file, and the
installer's transaction - and of the algorithms whose correctness depends on bytes: the
key-file reader, the profile parser, the query parser and the matcher.  TLC checks them
on small instances, TLAPS proves every safety property of the passing runs for every instance.

Run in this directory:

    tlc -workers 2 -config catalog.cfg MCProfileCatalog
    tlc -workers 2 -config service.cfg MCRunnerService
    tlc -workers 2 -config selection.cfg MCSelection
    tlc -workers 2 -config install.cfg InstallTransaction
    tlc -workers 2 -config repository.cfg MCProfileRepository
    tlc -workers 2 -config scan.cfg MCInstanceScanner
    tlc -workers 2 -config lookup.cfg MCProfileLookup
    tlc -workers 2 -config locate.cfg MCProfileLocator
    tlapm ProfileCatalogProofs.tla      # and the other modules named ...Proofs

## 1. The system

KRunner starts `remmina-krunner` through D-Bus and sends it every query.  The
service lists the profiles of the selected Remmina installation and starts that
installation when the user picks a row.  A settings module in Plasma selects the
installation; `remmina-krunner --rescan` (run by the installer) repairs the
selection.  Everything is single-threaded within a process; the concurrency is
between processes, and between a process and the file system.

| Component | State it keeps | Operations | Talks to |
| --- | --- | --- | --- |
| `ProfileCatalog` (core/profile_catalog) | last records, the directory and inode they came from, session / dirty / clean flags, the watcher's callback | `records`, `resolve`, `markDirty`, `endSession`, `reset` | repository (calls), watcher (call, callback) |
| `QtProfileWatcher` (platform/) | installed paths, generation, callback | `replacePaths`, `clear` | inotify through Qt |
| `ProfileRepository` (core/) | parse cache by instance, directory and file | `load` | locator, key-file reader, parser |
| `profile_locator` (core/) | none | `locateProfileDirectoryDetailed` | the file system |
| key-file reader, parser, matcher (core/) | none | pure functions | - |
| `RunnerService` (dbus/) | session flag, idle timer, activation token | `Match`, `Run`, `Teardown`, `Config`, `SetActivationToken`, time-out | registry, catalog, launcher |
| `RemminaLauncher` (core/) | none | `create`, `connect` | registry, catalog, process launcher, notifier |
| `InstanceScanner`, `QtProcessProbe` | none | `scan`, `run` | PATH, `flatpak list`, the Snap launcher |
| `InstanceRegistry`, `validateSelection` (core/) | last scan, selection, "is it saved" | `rescanAndRepair`, `select`, `snapshot` | scanner, selection store |
| `KConfigSelectionStore` (core/) | `remmina-krunnerrc` | read, write | the file every process shares |
| `InstanceSettingsModel`, `RemminaRunnerConfig` (kcm/) | rows, pending and persisted selection | `load`, `selectPending`, `save`, `defaults` | its own registry |
| `packaging/install.sh`, `uninstall.sh` | four installed files, backups, staged files, a lock | one transaction with rollback | the file system, signals |
| `scripts/publish_release.sh` | a draft release and its assets | a resumable publication | the forge |

What is hard here, and what makes each part correct:

- **Catalog.** A profile may change between being read and being watched; a
  refresh may fail or throw at any step; an event may belong to watches that are
  gone.  Correct: what it trusts is current (`CleanIsCurrent`), an unfinished
  refresh leaves nothing behind (`WatchesMatchSnapshot`), and a listing consists
  of what the client's own session could see (`ListsOnlyTheSession`).
- **Service.** The client may send its calls in any order, vanish, or let the
  timer fire; settings, profiles and installations change in between.  Correct:
  a token never reaches another activation's process, a launch is of a current
  profile of the selection, sessions end.
- **Selection.** A scan is long, backends fail for a while, writes fail, and
  several processes repair the same file.  Correct: a selection is given up only
  when it was looked for, and no process believes something saved that is not.
- **Installer.** Signals and failing commands in the middle of a four-file
  transaction, and of its rollback.  Correct: no installed file is lost
  (`OriginalsSurvive`), and the end is all new, all old, or reported (`EndsWhole`).
- **Repository.** A file changes while it is parsed, its name comes to lead elsewhere,
  a directory loses its permissions half-way, and a cache outlives all of this.
  Correct: the cache is current (`CacheIsCurrent`), a row is what its own file held
  during the load (`KeepsPromise`), once per file (`OneRowPerFile`).
- **Scanner and probe.** A program that hangs, floods its output, crashes, or ends as it
  is killed, while installations come and go.  Correct: what was there is reported, or
  the backend is reported as failed (`NothingIsMissed`); no process is forgotten while it runs (`NoProcessIsLost`).
- **Locator.** A sandboxed instance's custom directory may be looked at only if it is in the
  sandbox in truth and not by name only (`SandboxHolds`); an unreadable directory must not be passed over
  in favour of a lesser one (`AnswerIsJustified`); links may be circular (`SearchEnds`).
- **Reader, parser, matcher.** Limits, overridden keys, escapes, half characters; the
  order of rows must not depend on that of files.
- **Publication.** Interrupted and repeated runs (not modelled).

The full list of hazards, each at its line, is in `PROJECT.json`.

## 2. Modules

| Module | Models | Lines up with the code |
| --- | --- | --- |
| `ProfileCatalog` | `ProfileCatalog`, `QtProfileWatcher`, the loop of `ProfileRepository::load`, and a file system | one variable per member; `pc`, `round`, `todo`, `loaded`, `candidate` are the locals of `records()` and `load()` |
| `SessionListing` | what the catalog promises its client (abstract) | - |
| `RunnerService` | `RunnerService`, `RemminaLauncher`, the catalog between calls | one action per D-Bus call and way it ends |
| `Selection` | `InstanceRegistry`, `validateSelection`, the store, the settings model, in each process | `Rescan`, `Read`, `Repair` are the three steps of `rescanAndRepair` |
| `InstallTransaction` | the transaction of `install.sh`, its rollback and its traps | one action per command that changes a file or a flag; `pc` and `at` are the place in the script and its `index` |
| `ProfileRepository` | `ProfileRepository::load`, its cache, and a file system with links | `pc`, `todo`, `candidate`, `attempt`, `parsed`, `active`, `processed`, `rows`, `prints` are the locals of `load`; one action per look at the file system |
| `ProfileListing` | what a load promises (abstract) | - |
| `ProcessProbe` | `QtProcessProbe::run`, a program and a clock | `pc` is the place in `run`; the program's own state and what `QProcess` knows of it are apart |
| `InstanceScanner` | `InstanceScanner::scan` with the probe in the middle, and a machine | `at` is the place in `scan` |
| `KeyFileText` | the functions of core/key_file_reader.cpp over the bytes of a line, and grammars they are checked against | one operator per function |
| `KeyFileReader` | the loop of `readAllowedKeyFileValuesWithError` | one variable per local, one action per way through the loop's body |
| `Matcher` | core/matcher.cpp | one operator per function |
| `ProfileLookup` | the reader on bytes, `parseRemminaProfile` and the matcher on what comes out | the composition of the three modules above |
| `ProfileLocator` | `locateProfileDirectoryDetailed` against links and permissions that change | `pc` is the place in the search; one action per link followed or directory looked at |
| `MC...` | constants for TLC | - |
| `...Proofs` | theorems of the module they extend | - |

Operators whose comment begins with "Mutant of" are not part of the
specification: each is a plausible mistake in the operator that follows it, and
the property it breaks is the evidence that the property depends on that code.

### ProfileCatalog

A call of `records()` is split wherever the file system may change in between:
`BeginRefresh` (instance switch, session flag), `Locate` (find and list the
directory), `ReadFile` once per listed file, `InstallWatches`, the verifying
`Locate`/`ReadFile`, and `Commit`, `SecondRound` or `GiveUp`.  `LoadFails` is
`repositoryError`, `Throw` an exception, and both go through `Abandon`, which is
what `RefreshGuard` does.  `InstallFails` is a watch that cannot be had.

The file system keeps, per directory inode and file name, a version number; a
path names an inode (`at`) and the locator names a path (`located`).  `Edit`
keeps the inode of a file, `Put` gives it another one (a rename over it) and so
detaches its watch; `Retarget` and `Rename` let a path name another directory, by changing
a link or by moving directories; `Relocate` is the locator changing its mind.  Which of these an inotify watch reports follows
Qt's flags: entries of a watched directory, writes to a watched file, and, for a
path with a symbolic link, changes in the link's parent, which `watchPaths`
adds.  Nothing reports that a watched directory was itself renamed, be its path plain or the
directory a link's target (section 5): `renamed` remembers it, and `CleanIsCurrent` makes it
an exception.
A fingerprint is a version divided by `Granularity`, because the code compares
size and milliseconds: consecutive edits may be indistinguishable.  Parsing is
reading a version.  The parse cache is left to `ProfileRepository`, whose
`CacheIsCurrent` justifies it: a hit answers what reading the file at listing time
would have, which is the first disjunct of `ReadFile`.

`open` and `seen` are history variables: the client's session and every record
that was current at some moment of it.  `SessionListing` is the contract over
them, and `ProfileCatalog` implements it with the identity mapping: an answer is
a subset of `seen`.  It is deliberately weak: since files are read one after
another, a listing need never have been current as a whole.

### RunnerService

D-Bus calls are not interleaved with each other (one thread), so each is one
action.  `CatalogRecords` summarises what `ProfileCatalog` shows of a call: it
ends reused, clean, unverified or failed, with the flags those ends leave.
`Resolve` is the catalog's, for a directory nobody moved.  `Run` is `create`
(the id `NewConnection`) or `connect`; any launch may fail, and a launch of an
installation that is gone can only succeed if its program outlives it
(`Wrapped`: Flatpak).  `Timeout` is the idle timer, `Restart` the end of the
process and its activation with a scan.  `offered`, `listed` and `launched`
are history.

### Selection

Every process has its registry; the settings module has its model besides.  `Seen` are
the installations that a process can find at all: each builds PATH from its own environment.
`Rescan` takes the scan as of one moment, `Read` the saved id, and `Repair`
decides, writes and keeps, in the order of `rescanAndRepair`; other processes
step in between.  `MayWrite` is the rule that a saved selection whose backend
failed is not replaced in the file.  `Stored` is a write that succeeded; one
that fails changes nothing but what the registry knows.  `Loaded` is the
settings model taking the answer; `Apply` is `save` with `select`.  `End` may
interrupt any process anywhere.  `overwritten` and `raced` remember whether
another process wrote the file, the exception the properties make.

### InstallTransaction

One function per bash array (`staged` and `reserved` say that `staged_paths` and
`backup_paths` are set, `had`, `setAside`, `replacing` are `had_original`,
`backup_intended`, `replacement_intended`) and one for what each destination,
stage and backup path holds.  `whole` is `rollback_ok`, whose negation becomes
`preserve_backups`.  `original_moved` and `replacement_moved` are written and
never read, so they are left out.  Between any two commands `Interrupt` may come: a
command that fails under `set -e` and a trapped signal both lead to the EXIT trap.  In
`cleanup` that trap is gone while the others remain, so a signal there ends the
script (`InterruptCleanup`); `Kill` ends it anywhere.  A move is one rename in one
directory and is not torn.  `Intrude` is another program that writes where there
is nothing or a new file; the look at a file and its removal are two steps
(`Identify`, `TakeBack`), and `late` remembers a write in between.

### ProfileRepository

The file system has directories that an instance may be located in, entries that lead to
files (directly or as links: the entry is what has a name, the file what has an identity),
texts, and signatures.  A load takes one step for each look at it: the locator, the
directory, each entry as it is listed (`Inspect`), each parse (`Parse`) and each second
look (`Stable`, `Gone`, `Retry`, `GiveUp`).  The parser opens the entry by name, so it reads
what the entry leads to by then.  `Hit` is the use of the cache, `Miss` its removal before
the first attempt, `Kept` its filling, `Evicted` the removal of what the load did not use.
A write gives a file a signature it never had (`FineClock`): the code compares inode, size
and both times in nanoseconds.  With a clock that is coarser than two writes,
`CacheIsCurrent` fails, as it must.  The second assumption, `LinksSettle`, is that an entry
is relinked at most once between two looks: if it moves to another file and back
while it is parsed, both looks agree and the text is the other file's.

`ProfileListing` is the contract: an answer holds, per file, a text that this very file had
at some moment of the load.  `KeepsPromise` is the refinement, with `held` as the history of
texts and the rows of the answer as a function from files to texts.

### InstanceScanner and ProcessProbe

A probe's program writes lines into a pipe, succeeds, fails, or hangs.  `QProcess` learns of
this only while `run` waits (`Ready`, `Ended`), and `Tick` lets time pass there.
`LoopReads` is one round of the loop: read within the limit, look at the clock, wait.
What ends before its time goes through `Kill` and then `Reap` or, when the program survives
the grace period, `Defer`.  A deferred program is left to the event loop; `run` waits for none of
them, so nothing is claimed of how many there are or how long they stay.  In the scan around it, installations, the flatpak command and
the Snap launcher come and go; `QFileInfo` answers for the launcher from a look taken at
the beginning, except where it looks again.  `always` and `ever` are histories: what was there
throughout the scan, and at some moment of it.

### KeyFileReader, KeyFileText, Matcher, ProfileLookup

A file grows by pieces of an alphabet: bytes at the borders of UTF-8, syntactic bytes
(blanks, brackets, backslash, line ends), or whole lines.  `KeyFileText` makes a line
out of the bytes, `KeyFileReader` runs the loop on it, `ProfileLookup` makes profiles of
values and matches what a user types against them.  Every algorithm stands beside a
definition that is written without its loop: UTF-8 as cuts into encodings of code points,
decoding by which backslashes begin an escape, a line as a grammar over its parts,
a query by which places belong to which word, an answer by which tokens stand in which fields.
Sorting is by rank (`InOrder`): the place of a member is how many are before it.  Bytes of
characters beyond ASCII are taken for those of letters in a key's locale, and only ASCII
letters have two cases.  The limits
(4096 lines, 1 MiB, 16 KiB per line) are constants that the instance makes small enough
to be reached.

### ProfileLocator

Places may be links, with targets inside and outside the sandbox, and directories have one
of the statuses `directoryStatus` tells.  Paths are clean; preferences and the targets of links
are raw, with a `..` wherever somebody put one, and `Clean` is `cleanAbsolutePath`, which takes
away the name before it.  Preferences that cannot be read, or that name no absolute path
(`Garbled`), are as good as none: the test `malformedAndUnreadablePreferencesFallBack` asks for
this.  `resolvedPathForContainment` is `Follow`, one
link at a time; `ResolveRoot`, `ResolveHome` and `ResolveCommon` are the three
resolutions of `verifiedSandboxRoots`; then come the preference and the candidates.
The world changes between any two steps.  What the properties compare the code with does
not follow its shortcut: `Real` is the kernel's resolution, which goes name by name, follows a link
where it meets it, and takes a `..` for the parent of the place it has reached (`Reached`).  It
takes for granted that what a `..` leads out of exists; and `directoryStatus` asks it, not the
code's resolution.  `TrueRoots` are the sandbox's roots by it.  The two resolutions agree when
no `..` stands behind a link within what a link points to, which is `Straight`; `SandboxHolds`
and `AnswerIsJustified` speak of such links only (section 5 has what happens otherwise), while a
`..` in the preferences, and one in a target before any link, are in the run.  That the modelled root is consistent with the three
homes is not modelled, for the scanner derives all three from it.

## 3. Runs

| Run | Checks | Bounds |
| --- | --- | --- |
| `catalog` | `TypeOK`, `CleanIsCurrent`, `WatchesMatchSnapshot`, `ListsOnlyTheSession` | 2 instances, a linked and a plain path, 3 directories, 1 file name, 3 changes, `Granularity` 2, callbacks at any step |
| `service` | `TypeOK`, `SessionsAgree`, `TokenIsTheCallers`, `LaunchIsCurrent`, `LaunchesOnlyListed`, `ActionableAfterTeardown`, `SilentClientIsReleased` | 2 instances (one wrapped), 1 profile each, 2 tokens, 3 changes |
| `selection` | `TypeOK`, `SyncedMeansStored`, `SettingsShowTheSelection`, `RepairIsJustified` | service and settings, one installation per packaging, of which the service's PATH lacks the native one, 2 changes |
| `install` | `TypeOK`, `OriginalsSurvive`, `EndsWhole`, `NothingLeftOver`, `SparesOthers` | the 4 files of the script, 1 intrusion, each file installed before or not |
| `repository` | `TypeOK`, `CacheIsCurrent`, `OneRowPerFile`, `CacheIsBounded`, `QuietLoadIsExact`, `KeepsPromise` | 2 instances that may share a directory, 2 names, 2 files, 3 texts of which one is no profile, 3 changes by others |
| `scan` | `TypeOK`, `NothingIsMissed`, `NothingIsInvented`, `NoProcessIsLost`, `ScanEnds` | 2 entries of PATH, a native program and the Snap's, 1 Flatpak installation, 1 change per scan, a probe of 1 tick, 1 line of output and 1 tick of grace |
| `lookup` | `ReaderIsExact`, `Utf8IsExact`, `DecodeIsExact`, `LineIsExact`, `AnswerIsExact` | 3 alphabets, 4 pieces to a file and to a query, 2 profiles; 3 lines, 17 bytes, 9 bytes per line |
| `locate` | `SandboxHolds`, `AnswerIsJustified`, `SearchEnds` | one instance of each kind, every combination of links and statuses given, a preference and a target with a `..`, 2 links to follow, 1 change |
| `catalog_rename` | refutes `EveryChangeInvalidates` | 1 change |
| `install_interrupted` | refutes `InstallIsAtomic` | as `install` |
| `selection_race`, `selection_replace` | refute `SavedSelectionIsKept`, `ServiceUsesTheSelection` | as `selection`, with one PATH for all |

Why the bounds are enough to be interesting: three changes are one during the
first load, one during the verification and one after the commit; the third
directory lets a path lead elsewhere, and on to a third place; symmetry is
over directory inodes and instances only, which no definition orders.  In the
service, two tokens are what it takes to confuse two activations, and three
changes let an installation go, a profile change and come back.  In the
selection, three installations are one per rank, and the two changes include
what the user applies.  In the repository, two names and two files are what it takes for
an entry to turn into a file that another entry has shown, and three changes let an entry move
between the two attempts and a file be written besides.  A probe needs a tick to be late,
a line to be within the limit and one to be beyond it; the change falls before, during or after
the probe.  In the lookup, four pieces reach past every limit and make a key twice
in a section, in two sections, or before any; single bytes at every border of UTF-8 and
of the syntax are among the pieces.  The locator's instance has a link of every effect: out of
the sandbox, into another revision, in a circle, and through a `..` beside another link.  The installer's four files are all there are, and one
intrusion suffices since the properties look at one file at a time.  The proofs of
section 4 remove the bounds for every safety property; `MaxChanges`,
`MaxTokens`, `MaxIntrusions` and the like stay as finite but arbitrary numbers.

**Fairness.**  `SilentClientIsReleased` needs `WF(Timeout)`: the timer is
a single-shot `QTimer` of the service's own event loop, so once it runs it fires
unless it is stopped or started again; the property says that a session ends
unless lookups go on for ever.  `ScanEnds` needs `WF(ScanStep)`: the thread that scans goes on,
and time passes while it waits.  `SearchEnds` needs `WF(Search)`: a
sequential function goes on.  Nothing is assumed of clients, of the machine, or of
the programs that a scan runs.

**Deadlock** is checked in the runs of the service, the catalog and the selection,
which can always take another call, and of the repository and the scanner; the
installer, the search for a directory and the lookup end.

## 4. Proofs

| Module | Theorems |
| --- | --- |
| `ProfileCatalogProofs` | `CatalogInvariant`; from it `CatalogTypeOK`, `CatalogCleanIsCurrent`, `CatalogWatchesMatchSnapshot`, `CatalogKeepsPromise` |
| `RunnerServiceProofs` | `ServiceInvariant`; from it `ServiceTypeOK`, `ServiceSessionsAgree`, `ServiceTokenIsTheCallers`, `ServiceLaunchIsCurrent`, `ServiceLaunchesOnlyListed`, `ServiceActionableAfterTeardown` |
| `SelectionProofs` | `SelectionInvariant`; from it `SelectionTypeOK`, `SelectionSyncedMeansStored`, `SelectionSettingsShow`, `SelectionRepairIsJustified` |
| `InstallTransactionProofs` | `InstallIsRecoverable`; from it `InstallTypeOK`, `InstallLosesNothing`; `InstallCleansUp`; from it `InstallEndsWhole`, `InstallLeavesNothingOver`; `InstallSparesOthers` |
| `ProfileRepositoryProofs` | `RepositoryIInv`; from it `RepositoryTypeOK`, `RepositoryOneRowPerFile`, `RepositoryCacheIsBounded`; `RepositoryFreshInv`; from it `RepositoryCacheIsCurrent`, `RepositoryKeepsPromise`; `RepositoryQuietLoadIsExact` |
| `InstanceScannerProofs` | `ScannerKeepsInvariant`; from it `ScannerTypesHold`, `ProbeLosesNoProcess`, `ScanMissesNothing`, `ScanInventsNothing` |
| `ProfileLocatorProofs` | `LocatorKeepsInvariant`; from it `LocatorKeepsToTheSandbox`, `LocatorAnswersInOrder` |
| `ProfileLookupProofs` | `LookupTakesExactlyUtf8`, `LookupDecodesExactly`, `LookupReadsLinesExactly`; `ReaderKeepsInvariant`; from it `ReaderTypesHold`, `ReaderReturnsTheLast`; `LookupKeepsInvariant`; from it `LookupReadsFilesExactly`, `LookupAnswersExactly` |

All hold for every value of the constants that satisfies the assumptions of the
modules, which TLC evaluates in every run.  The assumptions are:

- `CatalogAssumption`, `SelectionAssumption`, `InstallAssumption`, `RepositoryAssumption`,
  `ServiceAssumption` and two small ones of `RunnerService`: the sets are of the right kind, a bound is a number,
  what stands for "none" is no member of what it is none of.
- `ScannerAssumption`, `ProbeAssumption`, `LocatorAssumption`: the same for
  the scanner's entries, the probe's times and the locator's places.  Targets of links and
  preferences are any sequences of names and `..`; `Straight` is a condition of the two
  properties and no assumption.
- `ReaderAssumption`, `LookupAssumption`: limits are numbers, files and queries are made of bytes,
  the keys the parser asks for are allowed ones, and the two marks for a value that is absent or
  cannot be decoded are no strings of bytes.

The arguments:

- **Catalog.** `CleanIsCurrent` is not inductive: that the verifying load found the
  same as the candidate says nothing unless changes in between would have been
  reported.  The invariant `IInv` says so piece by piece.  Call a state *quiet*
  when no event is queued, nothing is dirty and nothing the path leads to was renamed.  While
  all is quiet the watches are on the directory the path names (`WatchInv`), a
  verifying load has listed exactly the files there are and what it holds of a watched
  file is current (`VerifyInv`), and a clean snapshot is current and all its files
  are watched (`CleanInv`).  `CallbackInv` and `CallInv` cover the failures, `PrintInv` that each record has its fingerprint, so that
  equal fingerprints mean that every file of the directory is watched - which is why
  coarse fingerprints do no harm.
- **Refinement.** With `SessionInv` (all that a call holds has been seen in the
  session) every step of the catalog is a `Change`, `Open`, `Answer`, `Close` or
  stutter of `SessionListing`.
- **Service.** `TokenInv` (the token held is the caller's) and `SnapshotInv` (a clean
  snapshot is of its own instance, was listed since the settings were applied, and
  is as on disk until an event is queued) carry the five action properties.
- **Selection.** `ReadInv`: between read and repair, what was read is what the file
  holds unless another process wrote it.
- **Installer.** `OriginalsSurvive` alone does not say where a file is.  The
  invariant, which holds until the commit, does: a file whose `backup_intended` is not
  set is at its place (`Untouched`); one whose flag is set is in its backup, or still in
  place with no backup at all (`Aside`, which needs the reservation to be removed
  before the flag is set).  `Progress` says what the forward loops have done,
  `PutBack` that a rollback without a failure has restored the files it has passed,
  which is what allows `TidyBackup` to remove backups.  Behind the commit and in the
  clean-up a second invariant takes over (`EndInvariant`): the new files stay after a
  commit, all are old again after a rollback without a failure and without intruders, and
  what is left of stages and backups is what the clean-up has not reached or has reported.
- **Repository.** `IInv` needs nothing of the file system: a file is shown only when it is
  not among the processed ones, so rows, fingerprints and used cache entries stay together
  (`ShownInv`).  `RepositoryFreshInv`, and what follows from it, assumes `FineClock` and
  `LinksSettle`.  `CacheIsCurrent` is not inductive: a result enters the cache after the
  second look, and what was parsed before it is what the file holds only if neither the
  file nor the link changed in between.  `ParseInv` says so for a second look that is going
  to agree; it is kept because a write gives a signature later than any known (`ClockInv`),
  and because an entry that left the candidate's file cannot be back before it is looked at
  again (`LookedInv`, with `strayed`).  `HeldInv` carries the rows: a text was held by
  its file during the load when it was parsed and verified, or when its cached result
  agreed with the signature that was listed.  `QuietLoadIsExact` has an invariant of its own,
  `QuietInv`: in a load that nothing disturbs, the entries ahead and those passed together are
  exactly the names of the directory as it is, and what is shown are those of them that lead to a
  profile and to no file shown before.
- **Refinement.** Under the same assumptions a write, a call and a return are `Write`,
  `Call` and `Answer` of `ProfileListing`; every other step is a stutter.

- **Scanner and probe.** What `flatpak list` says is followed through four places: not
  yet written, in the pipe, fetched by `QProcess`, in the output.  All of it was there at some moment of
  the scan, and as long as the program has not failed it covers what was there throughout
  (`Listing`, with `Attended` for where the program and the probe are).  What the scan has
  reported so far stands against the same two histories (`Witnessed`).
- **Locator.** The code resolves a name one link at a time while the world stands still between
  two changes; the kernel goes from place to place, which `Reached` defines by recursion, as `End`
  does for the code's way.  As long as every link is `Straight`, name and place go the same way:
  making the rest of a path clean before or after a link is followed makes no difference
  (`StraightIsReal`).  `OnTheWay` says that where the code stands leads to where the path it began
  with leads, so that a completed resolution is the kernel's.  That functions like these exist
  at all is shown by the least-number principle: among the lengths for which there is none, none
  is least.
- **Clean-up of the installer.** `InstallSparesOthers` is about the clean-up of a first
  installation alone: there, a file that is another program's at its look is not the one it
  removes.  On the way forward `MoveIn` replaces whatever has come to the destination, and
  `ClearWay` removes it to put an original back; for these nothing of the kind holds.
- **Reader.** Each of the loop's four summaries - section seen, inside the section, values, keys
  with a value that is none - is stated of the lines passed, and a new line is the last of them.
- **Bytes.** `isValidUtf8` and `decodeValue` walk from left to right, which the model writes as
  functions that recur from right to left.  For UTF-8, the bytes from a place on fall into
  characters exactly if the function is true there (`Falls`): one direction adds the first
  character's end to the cuts, the other removes it.  For decoding, the bytes kept from a place on
  are counted, and the escapes from there on are those of the whole because an escape ends
  where the next byte begins (`DecodesFrom`).  No induction theorem is used: a last place at which the
  statement fails would be a largest number without it.
- **Lines.** The code trims, looks for the first equals sign and trims again; the grammar says
  that there are parts.  Each cut by the grammar is at the places the code finds (`CutOfEntry`,
  `FormOfHeader`), because a key holds no equals sign, begins and ends with no blank and a value
  begins with none; and the places the code finds make a cut (`EntryOfCut`, `HeaderOfForm`).
  `ValidKeyIsKey` is the same for the brackets of a locale.

- **Lookup.** The reader's invariant is proved for any sets of names and values, so that
  it holds of the lines cut out of bytes, file after file; the list of profiles goes up by path
  (`Listed`).
- **Query.** The places typed that have no typed place before them are the beginnings of words,
  and the word of a place is the number of beginnings up to it.  Between the beginning of a
  word and its last place nothing but that word stands (`WordIs`, `WordEnds`), so the tokens, which the
  model cuts at the beginnings in ascending order, are the words (`TokensAreWords`).
- **Matcher.** What a profile is worth is the least, over the tokens, of the greatest over its
  fields; each threshold of the score is a statement about all tokens and some field
  (`RelevanceIs`).  Comparing strings is deciding at the first place that differs, the end of a
  string being less than any byte, which is a strict order of all strings (`PrecedesItself`,
  `PrecedesFurther`, `PrecedesOrNot`); so `Before` is one of all matches whose files
  differ (`MatchesAreOrdered`).  A finite set in a strict order of all of it is laid out by
  ranks, and equal orders by equal ranks (`InOrderIs`, `OrderedTheSame`): the stable sort's answer
  depends on the set of profiles alone (`MatchesAre`).

Only model-checked, with the reason:

- `SilentClientIsReleased`, `ScanEnds` and `SearchEnds`: liveness under
  fairness, and `ENABLED`, are out of the prover's reach.

## 5. Where documents and code differ

Four runs refute what a document says; `PROJECT.json` ("findings") quotes the lines.

1. `catalog_rename`: renaming the profile directory itself, or the directory a link leads to,
   is not noticed during a session.  A new session reads again, and `resolve` compares the inode.
2. `selection_race`: a save that falls between another process's scan and repair
   may be undone.
3. `selection_replace`: an automatic repair by one process is not announced to the
   running service.
4. `install_interrupted`: a second signal ends the rollback half-way, and nothing
   says that some files are now only in hidden backup files.

Three more are visible in the source and have no run.

- `Run` does not verify that the selected installation is still there, as
  docs/plans/2026-08-12-remmina-krunner-design.md (lines 239-241) asks
  (core/remmina_launcher.cpp:88 looks in the registry's last scan).
- A fallback that could not be saved is shown by the settings module as the persisted selection
  (kcm/instance_settings_model.cpp:80).
- The containment of a sandboxed instance's custom directory, which the same document claims for
  resolved paths (lines 179-181), is decided on link targets whose `..` was collapsed by name
  (core/profile_locator.cpp:146, 43).  When `app/side` is a link to `out/side` and `app/mine` one to
  `app/side/../old`, line 286 compares `app/old` and accepts, while the kernel takes `app/mine` to
  `out/old`.  Without the conjunct `Straight`, TLC finds this in the instance of `locate` as a
  violation of `SandboxHolds`.

## 6. Not modelled, and the plan

Not modelled:

- `scripts/publish_release.sh`: its state is on a forge whose answers the script compares;
  nothing of it runs with the program.
- `packaging/uninstall.sh`, and in `install.sh` the checks of the bundle and the platform, the
  lock and the directories made.
- D-Bus marshalling, widgets, translated texts, build and CI scripts: no state of their own.
- `consistentModeledSandboxRoot` of the locator and `symlinkParentPaths` of the repository:
  properties of how a path is spelt; the catalog's watches take "the path has a link" as given.
- Two clients of one service are not distinguished; the interface is made for KRunner alone.
- Time finer than the order of events: that a user waits longer than the idle timer between two
  calls, or that a clock has no tick between two writes.

Planned, in this order:

1. The service that D-Bus may start between `stop_installed_runner` and the moves of the
   installer, and its lock with the uninstaller.
2. A composition of `RunnerService` with `Selection`.
