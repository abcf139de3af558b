# Specifications of dunnage

dunnage shrinks build directories: it removes what nobody will build again, and
compresses or shares what is left, while builds go on in the same directories.
This directory holds TLA+ models of its core, the TLC configurations that check
them on small instances, and proofs for TLAPS of what must hold for any number
of units, targets and builds. Paths below are relative to the repository;
line numbers are in `PROJECT.json`, which maps each definition to the code it
stands for.

    tlc -config EngineBuilds.cfg MCEngine      # model-check one configuration
    tlapm Engine_proofs.tla                    # check the proofs; also EngineSteady_proofs,
                                               # Session_proofs, Daemon_proofs, Seed_proofs,
                                               # Probe_proofs, Guards_proofs, Selection_proofs

## The system

| Part | State | Operations | What makes it correct |
|---|---|---|---|
| **Engine** (`src/engine.rs`) | locks held, the scanned inodes, the round, the plan, one action under way | take guards, scan, sweep temp files, plan each pass, stage, check, swap in, tell the passes, go round again, let go | no path ever loses its bytes, mode or mtime; no temp file is left that could be removed; locks are let go of |
| **Dedupe, compress** (`src/dedupe.rs`, `src/compress.rs`) | candidates, hashes, the index | plan, `replaced`, `rewritten` | only equal bytes are shared; what is shared stays shared |
| **Hash index** (`src/index.rs`) | stamp → hash, shared mark; a file on disk | get, put, expire, load, save | an entry that a file hits holds that file's hash |
| **Session** (`src/session.rs`) | the inventory, what was chosen from it, the groups left to visit | find, choose, visit each group, visit again, save | removals spare what is being built; the run ends |
| **Evict, orphans, doc, incremental** (`src/evict.rs`, `src/orphans.rs`, `src/eco/cargo/doc.rs`, `.../incremental.rs`) | victims chosen before any lock | plan again under the lock | what became used, or owned, meanwhile is kept |
| **Daemon** (`src/daemon/mod.rs`) | units, last build, due time, visited build; `daemon.json` | look, discover, run a session, mark, sleep | every build is attended to once it is cold; the daemon comes to rest |
| **Known build dirs** (`src/known.rs`) | a list of dirs and how long it holds | discover, load, save | it never hides a dir from a run that must see it |
| **Seed** (`src/seed.rs`, `src/session.rs`) | positions left, locks on the source's units, the file under way, the index | choose, lock, copy, register, save | what is copied of a unit is whole and of one moment; the index is told the truth, and loses nothing |
| **Cargo home, stores, module cache, SwiftPM** (`src/eco/cargo/home.rs`, `store.rs`, `go.rs`, `swiftpm.rs` in `src/eco/`) | modes of dirs, a lock file outside the units | guards that are shared or immutable, lift and put back | nothing its owner wrote is lost, no dir stays writable |
| **What a session is asked for** (`src/main.rs`, `src/config.rs`, `src/session.rs`) | none | flags over the file, the check of a request, `keeps` | nothing is removed that was not asked for, what is skipped is left alone |
| **Inventory, walk, adapters** (`src/inventory.rs`, `src/eco/`) | none | find build dirs, read git's files, whose a dir is | a dir is found once, in the group of its repository, and given up only when forgotten |
| **Platform layer** (`src/sys/`) | what a file system can do, per device | try it out in a dir, put the dir's mtime back | an idle unit still looks idle; what a killed probe leaves goes |

The parts meet in few places. The session hands the engine the units of one
group at a time, with the passes; the engine asks each pass for a plan and tells
every pass what it replaced or rewrote. Sessions exclude each other by the run
lock. Builds and the engine exclude each other by cargo's own lock file in each
profile dir (`Guard::Lock`); where a build tool has none (`Guard::Quiet`) only
the age of files and a look at the processes stand between them. A run also holds the one lock
file of a cargo home or a SwiftPM scratch dir (`Guard::Shared`); a store and Go's
module cache have none (`Guard::Immutable`). All else is the
file system: builds, users and a killed run's remains are found there, by the
state of the files alone.

What is hard to get right, and hardly reached by tests:

- a build between any two calls of the engine, with a lock or without one;
- what is read before a lock is taken, or before a file is swapped, and used after;
- a failure, a stop or a kill between two calls, and the next run after it;
- passes that feed each other under the locks, round after round;
- a lock that is a file inside the dir that is removed;
- a daemon that goes by mtimes its own runs change, and a probe that must not;
- git's files, read once and believed, where a worktree was moved or forgotten;
- dirs made writable for a batch, beside a user and the tool that owns them.

`PROJECT.json` lists these as hazards, each at its line with the properties
about it.

## The modules

### BuildDirs: what a user is promised

The abstract specification: paths with contents, modes and mtimes. A build does
what it likes. The tool changes no content and no mode, and no mtime either,
but where it may hardlink, when an mtime may move forward (`DESIGN.md`, "Safety
invariants" 3 and 4). `Engine` is shown to implement it (`KeepsPromise`), the
refinement mapping being what a reader sees through each path.

### Engine: one run over files

State: directory entries (`name`), temp files beside them (`temp` of the step under
way, `left` of which nobody knows any more), inodes (`file`), the index in memory
and on disk, and the run (`pc`, `locked`, `scan`, `plan`, `batch`, `job`, `report`).
Each system call that a build or a kill may fall between is a step: `Sweep`, `Plan`,
`StageBatch`/`Stage`/`Clone`/`Backend`/`Finish` for compress batches,
`StartReplace`/`Copy`/`HeldStill`/`Rename`/`LinkRest`/`Tell` for a replacement,
`EndPass`, `Release`, `Save`; `LetGo`, `Crash` and the failing forms of the calls
besides. `stage_copy` is two of them, `Stage` the look at the group and `Clone` the
copy, since a build without a lock may write in between. The removal of a temp file
after a failed step fails in silence: the file goes to `left` (`DropTemp`,
`CopyLeft`), and the path to `report.kept`, a ghost. A removal in the sweep that
fails ends the run (`SweepFails`). At most `MaxLeft` paths have such files beside
them at a time. Builds create, rewrite (in place or by a new file, through any
hardlink), link and delete.

A hash is the content: SHA-256 is taken to have no collisions. All files have one
size, so that the size buckets of dedupe are one. A tick of the clock is the
min-age. What a file system and the build tools on it do is a choice of `device`:
whether it clones or dedupe was asked to link, whether it compresses, whether inode
numbers are used again; whether build tools rewrite files in place, whether they
link files (`links`: none, within a unit, or any), in which units they take no lock,
and for how many ticks.

### Session: one `apply`, unit by unit

State: per unit the lock file at its path (a number, so that one unlinked and
made again is another lock), whether it has files and an `incremental/`, when it
was last built; per target its tag, `doc/` and its ownership; the builds and
what they have open; the session's inventory, its queue of groups, and one
engine run (guards, scan, passes in pipeline order, plans, removals, rounds). A
unit or a target goes entry by entry (`RemoveBeside`, `RemoveLockfile`,
`RemoveSome`, `RemoveFiles`), for a build may come in between and a kill leaves
the rest; `doc/` and `incremental/`, which hold no lock, go in one step or half.
One number, `Idle`, stands for the idle days of the three passes that have some.
What the lossless passes do inside a unit is one step here (`WorkOn`), as the
engine's steps on files are `Engine`'s.

Ghosts: `unlinked` (units whose lock file a run has removed, and units without a
lock whose files it has), `count` and `known.count` (builds seen by the inventory).

### Daemon: when it looks and what it remembers

Dates are timers: `age`, `left`, `untilWalk`, `sleep` are how long since or until,
up to the largest bound that tells anything apart, so that time may go on for ever
in a finite model. `stamp[u]` numbers the values of `last_built`: it grows when
something changes in a later second than the last change (a tick), as two changes in
one second cannot be told apart. A run's own renames may or may not show in it
(`Acts`): it is the newest mtime at the top of the unit. The session is reduced to
groups, locks, busy units, budgets and the second visit. A session's list lacks the
units that the config leaves alone (`setup.skips`, `Request::keeps`); the daemon
does not ask the config, finds them due, and marks them visited though nobody was
there. Users clean a unit also while a session has it locked. What the next look
reads anew (`last`, `left`) is forgotten at the end of a look.

Ghosts: `seen` and `finished`, the builds a visit that was not cut short began with.

### Seed: a new checkout's build dirs, copied from a sibling's

State: the files on both sides with a version, which a write moves (what an mtime
tells), and their contents, `Torn` while a build or the copy is half way; which
build dirs the destination has, which units of the source have a lock file and
which are being built; the run lock, the index on disk and in memory; and the
seed (`pc`, its positions, the units it listed, locked and found busy, the files
its walk has left, the stamp it read). `Begin` and `Lock` are `Session::seed`;
`Enter` is the check that the destination is not there and the listing of the
source's units, `TryLock` and `MakeDir` come before the walk, `Stat`, `Create`,
`Fill` and `Register` are one file of it, `Leave` and `Save` end a position and
the session. `GiveUp` is any call that fails, and a kill: the code handles both
alike, by letting go of all it holds and saving nothing. Not so a stamp that cannot
be read in `register`, which is passed over while the seed goes on and saves: without
that of the source nothing is told to the index, without that of the copy the source
alone is marked (`SourceMarked`). Beside it builds go on
in the source (`Open`, `Close`, under the unit's lock) and in the destination
(`BuildCopy`, where nothing keeps them out), users remove what was seeded, and
another session shares files and tells the index.

An inode goes by its path here: what the index has of an inode that has left its
path nothing in a seed looks up. A file outside all units (`doc/`, say) is as one
in a unit without a lock file.

Ghosts: `copied` (files of listed units copied and not written since), `met`
(files a build wrote between two calls on them), `unread` (files whose stamp `register`
could not read), `told` (what another session has
told the index).

### Selection and Front: what a session decides before its locks

`SessionRun::run` first checks the request, finds the build dirs, keeps those it
may work on and puts them in groups; nothing of that is looked at again. So
`Selection` has no state: it says what `discover`, `owner`, `git_link`, `keeps`,
`from_config`, the flags over the file and `check` make of any world (what a look at
each dir says, what is in its `.git`, which adapters claim it, which workspaces its
dep-info names), any roots, any command line and any config file. Dirs are numbered
in the order of their paths, so the walk's order and "the first workspace there" are
minima. `Front` extends `Session` with it: before a session's first step (`Before`)
what `Selection` decides is right for every one of these inputs.

### Probe: what a file system can do

`sys/unix.rs` finds out by making two files in a dir, cloning one over the other and
so on, and remembers the answer for the device. State: per dir its mtime, the probe
files in it (whose, and whether he still lives), per unit its lock, per process
where it is (`pc`, `probe`), what it remembers (`cache`) and what its scan found to
sweep. A probe is `stat`, make, try, remove (each of its own two files by itself,
and either removal may fail unnoticed), put the mtime back. A probe file goes by its
name, of a process number and a counter, so a later process may make one of the same
name; an inventory probes without a lock, a run sweeps and probes in its units under
theirs, `status` probes beside both. Ghosts: `built` (when a build last changed a
dir), `marred` (dirs where a kill or a failing call met a probe), `met` (dirs two
probes were in at once).

### Guards: compress where cargo's own lock is not the guard

One module for four kinds of place, chosen at the start: a store (files written in
pieces, trimmed by their tool), Go's module cache (read-only dirs, lifted for one
batch), the cargo home and a SwiftPM scratch dir (one lock file outside the units).
State: modes, files with a number for their bytes and stamp, which are an hour old
or compressed, temp copies; the lock file at its path and who has which open (a
number, as in `Session`); the run (`pc`, its guard, its scan, its batch). `Look`,
`OpenLock`, `TryLock`, `TakeUnit` and `Scan` are the guards and the scan of
`run_with`, `Sweep` its stale temps, `NextBatch` ... `BatchDone` are
`apply_compress` with `lift_dirs`; `Stage` and `CloneAs` are the check and the copy of
`stage_copy`, between which the owner may write; `Kill` a kill at any point. Beside it are the
tool (which writes under its lock where there is one), `go clean`, a user who
changes modes, and a cleaner that takes the lock file. Calls fail (the sweep's, the
copy's, the removal's, the rename's and the put-back's), but no more often than
`MaxTroubles` with kills. Every file has one name here; the code lifts the parents of
all names a file has among the units, so that with hardlinks across dirs a batch may
lift more dirs than it has files. Ghosts: `want` (the mode its owner last gave a dir), `left`,
`meddled`, `paused`, `late`, `lost`, `swept`, `kept` (copies that a run could not remove
or was cut short over).

### The proof modules

`Engine_proofs` (what every device has), `EngineSteady_proofs` (what a steady one has
besides), `Session_proofs`, `Daemon_proofs`, `Seed_proofs`, `Probe_proofs`,
`Guards_proofs` and `Selection_proofs` hold the theorems, below.

## What the runs check

| Run | Bounds | What it shows |
|---|---|---|
| `EngineBuilds` | 3 files, 2 units, one build step, 2 rounds; XFS clones and ext4 hardlinks, with numbers used again, for 2 ticks; clones and HFS+ hardlinks with compression, and clones+compression without locks, for one; all contents; mixed modes | `InductiveInv`, the invariants of the proofs (`IInv`, `SteadyInv`, `DoneInv`). `Deduped`: a run that met no build and skipped nothing leaves no two equal files unshared. `IndexSound`: no entry lies about a file (of a unit with a lock). `NoForeignBytes`: nor do the checks and re-checks of the tier without locks put bytes at a path no build put there. `KeepsPromise`: `BuildDirs`. |
| `EngineFailing` | as above on one file system and without builds, four inodes, every call may fail, and so may the removal of a temp file, beside one path at a time; a stop or budget at any time, a kill, two rounds | `NoTempsLeft` after a run that ends, also one after a kill or after a refused removal: what is beside a path then, that very run could not remove; `KeepsPromise` through all of it; under fairness `LocksReleased`. |
| `EngineStaleIndex` | 4 files, inode numbers used again, a kill | violation, below |
| `SessionLossy` | 2 units of a target, one build process, one build, a kill, failing and half-way removals, files in use, budgets, second visits; evict, orphans, incremental or doc | `IInv`, the invariant of the proofs; `Exclusion`; `KnownBuildsSpared`; `NewBuildsSpared`: evict and incremental take nothing of what was built since they chose it. |
| `SessionLive` | 3 units (one quiet and young at first, one made after the inventory), 2 groups, 2 rounds, one build and 2 ticks; nothing lossy, or evict; a tree of 8 dirs with a checkout, a worktree, a target out of tree and a build dir in a build dir, what git's files may say of them, 64 command lines, 32 lists of removing passes with their limits and 5 families of the config file | `LosslessAlone`, `LosslessFindsGuards`; `QuietSpared`: nothing young, or where nobody could look for a build, is removed without a lock; under fairness `BuildsGetOn`. `FoundOnce`, `GroupsApart`, `OrphansForgotten`, `SkippedLeftAlone`, `FlagsOverFile`: the front half, for each of these inputs. |
| `SessionLateUnit`, `SessionTwice` | 2 units | violations, below |
| `DaemonLooks` | a locked unit and a quiet one, made later; one build or clean; one budget that runs out, manual run or kill; a list that holds 1 tick, or one of 2 with the first unit left alone; all timers of 1 to 3 ticks | `DaemonInv`, the invariant of the proofs; `VisitedIsDone`: what the daemon, or its state file, takes for visited was, in full, but for what the config leaves alone. Under fairness `Settles`: it gets to every unit and comes to rest. |
| `SeedBeside` | 2 positions of one unit and one file each, one of the units without a lock file at first; 2 seeds, 1 write by builds on either side, 1 other session; a file system that clones and one that does not | `Inv`, the invariant of the proofs; `CopiesAgree`: what is copied of a listed unit is whole, and of the moment its lock was taken. `MarkedTogether`: both sides are marked, so that the next dedupe leaves them alone, and a copy whose stamp could not be read hits no entry. `IndexSound`; `IndexKept`: no session is overwritten. |
| `ProbeStatus` | a run, a status and a build over a profile and an entry of it; 2 ticks, one kill or failing call | `IInv`, the invariant of the proofs; `LeftFilesStay`: what a run left in a unit is there when another comes to sweep it, whoever probes meanwhile; `IdleUnlessMet`: an idle profile looks idle after a probe that met no other; `UnitsSwept`: a run at work in a unit has swept it. |
| `Guards` | 2 dirs with a file each, batches of one, 2 writes a file, one kill or failing call; each of the four kinds | `IInv`, the invariant of the proofs; `OnlyThoseLeft`, `OneBatchAtMost`: which dirs may be found writable; `NothingLeftBehind`: no copy but what the last run could not remove or was cut short over, and that of a dir the user changed; `FloorKept`: what is swapped in is over a file not written for an hour, unless it was written after the last look; `LossInWindow`: nor is a write lost but one after that look; `SharedApart`: under one lock file the tool and the run are never both at work, and all units are in or out. |
| `DaemonCutShort` | two build systems in one checkout | violation, below |

Why these bounds. Three files are the smallest case with a hardlinked pair and a
third file to share with, or three clusters of one content; four are what the stale
index takes. Two units in one target are what it takes for one to be busy while the
other goes; two groups, for a second visit with another between. One build step at
any point finds each window between two calls; a window that takes two build steps
to go wrong is not explored. Two rounds let passes feed each other, and the bound on
rounds bite. One tick of min-age makes files old or young; the daemon's interval is
longer than its min-age and shorter than a walk's, so that each of the three decides
a wake. Without locks `EngineBuilds` says nothing of a run that lasts longer than a
day, `QUIET_MIN_AGE`: then a file written before a stamp was taken may be old when
the next pass scans. Two processes are what it takes for a probe to meet a probe;
two dirs with batches of one, for one dir to be lifted while another is not, and for
what is left of one batch to be told from what is left of two (TLC takes the two for
each other: `Symmetry` renames a dir along with its file). A seed handles one
position, and one file, after another: two positions are what it takes for one to be
done while the next is under way, and the second seed is for what is there already,
or was and is removed. Larger units are the proofs' part: `Inv` is proved for any.

Deadlock is checked except in the `Session` runs, where everything may have been
removed and no build is left to start: the system may really stop there.

Fairness. `Engine`: weak fairness of the run's own steps, for a run is one
thread and waits for nobody (every lock is only tried). `Session`: the same for
the session; weak for a build's end; strong for a build that waits on its lock,
as a run may take and drop it many times while the kernel's queue for `flock`
serves whoever sleeps on it. `Daemon`: its loop goes on, the service manager
starts it again (`src/daemon/service.rs` asks for that), builds and manual runs
end, and time passes. Nothing is assumed of builds starting, of users, of
budgets or of kills. The bound on these (`MaxTroubles`) does carry `Settles`: a
budget too short for its group every time keeps the daemon from ever finishing
with it, and nothing in the code prevents that (the budget starts before the
guards and the scan, `session.rs`, `Control::interrupt`).

## Where the code differs from what it says

Each of the first four is a run that TLC ends with a counterexample, listed under
`findings`.

- `EngineStaleIndex`: the index is saved only at the end of a session. After a
  kill, on a file system that uses inode numbers again, an entry of an inode
  that is gone can be hit by another file with that number, size and mtime (the
  mtime is one that dedupe itself restored), and the next run shares foreign
  bytes over it.
- `SessionLateUnit`: a profile dir made after the inventory is in no list of
  busy units, so its target is removed while it is built.
- `SessionTwice`: a group out of budget is visited again with the units of the
  inventory, those its first visit removed included; the missing lock file ends
  the session with an error.
- `DaemonCutShort`: `mark_visited` keeps one report per path, though a checkout
  with two build systems has two groups under one path: the later report hides
  that the earlier was cut short, and its units count as visited.

Each of these is a configuration beside the runs, which TLC ends with a
counterexample too (`tlc -config X.cfg M`):

| Configuration | Module | What it violates |
|---|---|---|
| `EngineQuietIndex` | `MCEngine` | `NoForeignBytes`, where builds take no lock and there are two ticks: `engine.rs:463` reads the new inode's stamp after the rename and `dedupe.rs:117` hashes some time after the stamp was read, so that a build in between leaves an entry with another file's hash, which the next run believes |
| `ProbeHides` | `MCProbe` | `BuildsShow`: a probe without a lock puts back the mtime a build has moved in between, and the build does not show (`eco/cargo/mod.rs`, `last_built`: "When cargo last worked in a profile dir") |
| `ProbeTwice` | `MCProbe` | `IdleStaysIdle`: two probes in one dir put back each other's mtimes, and an idle unit looks just built |
| `ProbeReadOnly` | `MCProbe` | `FilesystemAnswers`: asked first of a dir nobody may write (Go's module cache), the answer is "nothing", and stands for the whole device ("It is a question about a filesystem", `sys/mod.rs`) |
| `ProbeLeft` | `MCProbe` | `AllSwept`: a probe file that a kill leaves beside the units is swept by no run, though "one left behind by a kill is swept by the next run like any other temp" (`sys/mod.rs`) |
| `ProbeBeside` | `MCProbe` | `RunsGoOn`: a run that scans while `status` probes in a unit finds the probe file gone when it sweeps, and ends with an error; `status` "takes no locks and changes nothing" (`DESIGN.md`) |
| `ModCacheLeftover` | `MCGuards` | `LeftoversGo`: copies a killed run left in a read-only dir cannot be removed, and every later run ends there; "Leftovers of a crashed run are removed by the next one" (`model.rs:14`) |
| `ModCacheCleaned` | `MCGuards` | `StopsOverWritable`: a dir that is gone at the put-back ends the run with the complaint that it was left writable (`engine.rs:702`) |
| `SharedSwept` | `MCGuards` | `LockGuards`: a cleaner takes the lock file while the tool has it, the run makes another (`engine.rs:264`), and both are at work |
| `SelectionShared` | `MCSelection` | `SharedKept`: a target two checkouts share is given up for the first of them that is there, once git has forgotten it, while the other lives (`eco/cargo/mod.rs:50`) |
| `SelectionUnreadable` | `MCSelection` | `UnreadableKept`: a worktree's record that cannot be read is taken for one that is gone (`inventory.rs:308`: unreadable is not gone) |
| `SelectionFlags` | `MCSelection` | `FlagTaken`: a good command line is refused for a limit in the config file of a pass it left out (`config.rs:3`: a flag always wins) |

Others met while modelling, with no configuration of their own:

- For a checkout that is gone `git_link` knows no family, so its build dirs lose
  what the config file says of that family: `skip` ("Leave this family alone
  entirely.") does not hold them back, and with `--lossy orphans` they go.
  `SkippedLeftAlone` speaks of families that are known.
- `is_project_gone` takes any error for gone; `orphans.rs` looks again under the
  lock, at `NotFound` only, so nothing is removed for it.
- "a build since the inventory keeps everything" (`orphans.rs:81`) is not what the
  second look does for a checkout that is gone: it asks for the checkout, not for
  builds.
- A root named inside a build dir is walked, so a build dir in a build dir is found
  where an outer root alone would not (`eco/mod.rs:174`). `FoundOnce` allows this.
- `session.rs:761` has it that only `compress` runs over the cargo home; with
  `dedupe` asked for, that runs too, a few lines below.
- `eco.units` lists profile dirs by their lock file (`seed.rs:183`), which a seeded
  build dir has not until it is built, as lock files are left behind
  (`seed.rs:206`); nor has a new profile. Such a unit of the source is neither
  locked nor left out, and is copied while a build writes there, though
  `DESIGN.md:441` has it that "nothing half-written is ever copied". `CopiesAgree`
  is about listed units for that reason.
- The check for a build dir (`seed.rs:164`) is made once, before the locks. A build
  that starts in the new checkout after it has its files truncated and filled
  (`sys/unix.rs:101`) by a seed that is to be "Never into a live target"
  (`DESIGN.md:444`).
- `register` (`seed.rs:254`) files the source's hash under the copy's stamp, read
  after the copy: "Both sides of a clone hold the same bytes", unless a build
  wrote one of them in between. Hence the exception of `met` in `IndexSound`.
- "marked shared on both sides" (`seed.rs:149`) is not so of a copy whose stamp cannot be
  read (`seed.rs:262`): its source is marked, and the next dedupe takes the two for a
  pair of which one side is shared. Nothing is lost by it. `MarkedTogether` says what
  the index has then.
- The removals after a failed step (`engine.rs:753`, `767`, `817`) are not looked
  at: the temp file stays until the next run's sweep. Hence `report.kept` in
  `NoTempsLeft` and `kept` in `NothingLeftBehind`.
- `mark_visited` takes a unit that the config leaves alone for visited: `keeps`
  (`session.rs:611`) drops it only after the check that there is anything to do, and
  the report does not say so. `VisitedIsDone` is about the other units.
- `DESIGN.md:111` takes the "largest recently built target" as the source; the code
  takes the one most recently built.

- A kill between the renames of a hardlink group (`engine.rs:802`) leaves it
  on two inodes, though `DESIGN.md:237` has groups "never half-done": no bytes
  are lost and the next run finishes.
- A removal is `remove_dir_all`, which unlinks `.cargo-lock` in the middle: from
  then on a build may lock a new file in the dir that is going. Hence the
  exception of `unlinked` in `Exclusion` and `KnownBuildsSpared`, and hence
  `LosslessAlone`, which needs none.
- `last_built` has whole seconds: two builds in one are one, for evict and for
  the daemon.
- A run's own renames look like a build to the daemon, which visits the unit
  once more (`docs/architecture.md:275` says work happens once per build). It
  comes to rest after that: `Settles`.
- With a list of build dirs that holds longer than min-age, a unit that was
  cleaned and built again can be on the daemon's list and not on the run's, and
  is marked visited unseen. `DaemonLooks` therefore lets users clean only where
  the list is the shorter-lived.

## What is proved

`Engine_proofs.tla`, for any files, units, contents, devices, batches, rounds, builds,
failures and kills:

- `EngineInductive`: `Spec => []IInv`, with `IInv == TypeOK /\ PcInv /\ ScanInv /\
  SwapInv /\ LiveInv /\ TempInv`: what a run is about to do is of groups of its
  scan, those are apart, the first path of a group is swapped first, and every name
  is of a file.
- `NoTempStays`: `NoTempsLeft`, which allows for refused removals: what is beside a
  path of a locked unit when a run ends, the run itself was refused there. `LeftInv`
  carries that from the end of the sweep on, and `TempInv` that nothing else is
  there: from the sweep on, a temp file in a locked unit is the staged copy of a
  group of the batch, or the one in hand. A copy is its own (`Private`) until the
  rename: what is written to it is read by nobody.

`EngineSteady_proofs.tla`, likewise, for devices that are `Steady`: inode numbers do
not come back, builds lock their units, and build tools that write in place do so
neither where dedupe hardlinks nor where they link files across units. The code leaves
no choice: outside it the properties fail. `EngineStaleIndex` has numbers that come
back, `EngineQuietIndex` builds without locks, `DESIGN.md` names hardlinks under
in-place writers; and a file of a unit nobody locked, linked into one that is locked,
is written under the run.

- `SteadyInductive`: `Spec => []SteadyInv`. What is known of an inode (by
  the index, the scan, the plan) is of its past, and no inode is as it was with other
  bytes: `EntryInv` of the index, `StampInv` of the scan, `ReadInv` of a group and its
  paths, `PairInv` of the two files of a planned share, `StagedInv` of compressed
  copies, `JobInv` of the file being swapped in. The last holds from the check before
  the rename to the word to the passes, for no build is in the unit.
- `BytesAreOwn`, `IndexTellsTruth`: `NoForeignBytes` and `IndexSound`, which need each
  other. A hit in the index is why files are shared; what is shared is what the index
  is told of.
- `RunsAreInvisible`: `KeepsPromise`, the refinement of `BuildDirs`. Init maps to Init;
  every step of builds to `Build`; a rename, the linking of the rest of a group and
  `BackendLive` to `Tend` or a stutter, from `StandsIn`: what comes in reads as what was
  there, but for an mtime that moves forward where files are hardlinked; all else
  changes nothing a reader sees.
- `DedupeIsDone`: `Deduped`, where besides no call fails and no run was killed so far.
  Its invariant is `DoneInv` (`DoneInductive`), which at the end of a pass says the same.
  `CleanInv`: there is no temp file but in a run's hands; `FreshInv`: until a pass
  applies something the scan is of the files as they are. So a file in scope is in the
  scan, and two equal ones are candidates, hashed and in the plan, or shared before:
  `PairsInv`, which then goes through the pass with `Underway`. A step takes one group
  out of the plan, and it must not undo another: `OwnInv` says that what is shared from
  is never what is replaced, and that a group has its inode for itself and for as long
  as it is planned; `MidInv` that the paths done with have what comes in and that the
  index still knows the source. The hypotheses are needed, TLC finds
  `Deduped` violated without either. Where `LinkRest` fails in compress, a group is left
  on two inodes, but nothing counts as applied, so dedupe plans over the scan from
  before. On HFS+ a hardlinked temp file that a killed run left counts in the scan of
  the next, whose sweep then makes that scan stale, and the file is left to the run
  after.
- `InductiveHolds`: `InductiveInv == IInv /\ SteadyInv /\ DoneInv`.

`Session_proofs.tla`, for any sets of units, targets, groups and builds, any
requests, budgets, failures and kills:

- `Inductive`: `Spec => []IInv`, with `IInv == TypeOK /\ LockInv /\ GroupInv`.
- `Typed`: `TypeOK`.
- `Excluded`: `Exclusion`. By itself it is not inductive: it needs that all
  processes meet at one file. `LockInv` says so: until a run unlinks it, the
  file a build or a run has open is the one at the path, at most one of them has
  its lock, and a locked unit has its lock held.
- `KnownBuildsAreSpared`: `KnownBuildsSpared`, an action property. It needs
  `GroupInv` besides: once the guards are taken, every unit of the group that
  the inventory lists is locked or busy, so a removal that no busy unit refuses
  has only locked ones under it, and `Exclusion` does the rest.
- `QuietUnitsAreSpared`: `QuietSpared`, for units without a lock, from `QuietInv`:
  what is planned over is what was scanned, of files old enough, with every unit of
  the group in the run or busy, and those where nobody could look are `unsure`.
- `NewBuildsAreSpared`: `NewBuildsSpared`, an action property, where `Idle` is a tick
  at least and evict has no size cap. `NewInv` carries it: what was chosen was idle
  then, so a build since then has a later second than the one the inventory has; and a
  plan has only units that the scan under the lock found as old as the inventory did,
  where no build can get in after the scan. Both hypotheses are the code's: `last_built`
  has whole seconds, so of a unit that the cap takes though it was just built, or that
  zero idle days choose, another build in that second does not show.
- `LosslessIsAlone`, `GuardsStay`: `LosslessAlone` and `LosslessFindsGuards`, from
  a second invariant: with nothing lossy asked for, plans hold no removal,
  `unlinked` stays empty, a lock file once there stays, and what the inventory
  lists has one.

`Daemon_proofs.tla`, for any units, groups, families, setups and timers:

- `DaemonTyped`: `TypeOK`, `StampInv` (what was read of a unit is no newer than the
  unit), `SessionInv` (the shape of a session) and `ListInv` (a unit that the list of
  build dirs lacks is younger than the list).
- `DaemonInductive`: `DaemonInv`, which adds `ReadyInv` and `CountInv`, under two
  hypotheses. `ReadyInv` follows a unit that the config does not leave alone from
  the look that found it cold to the end of the session: as long as nobody built in
  it, it is in the session's list, and either still to be visited, or visited in
  full, or busy, or in a group that was cut short; the last two keep `mark_visited`
  from marking it. `CountInv`: what counts as visited was.
- `VisitedAreDone`: `VisitedIsDone`, from `CountInv`. `OneGroupEach`: each family has
  one build system; `DaemonCutShort` shows what happens with two. `ListsFit`: where
  users clean, the list of build dirs holds no longer than min-age; what happens
  otherwise is among the divergences above.

`Seed_proofs.tla`, for any positions, units, files and contents, any builds, other
sessions, failures and kills:

- `SeedInductive`: `Spec => []Inv`, with `Inv == TypeOK /\ BuildInv /\ WalkInv /\
  OnceInv /\ CopiesAgree`.
- `CopiesWhole`: `CopiesAgree`. It rests on the locks: a build and the seed never
  hold one unit (`BuildInv`); from the listing to the end of the walk every listed
  unit is held or busy, and the walk has no file of a busy one (`WalkInv`); and what
  was copied the walk does not open again (`OnceInv`), without which a copy would
  be torn a second time.
- `OthersKept`: `IndexKept`, through a second invariant, `LockInv`: the seed has
  loaded its index under the run lock, and an entry of it that is of a file as it
  is now stays as it was told.
- `IndexStaysSound`: `IndexSound`, through `IndexInv`: nothing is known of a file
  beyond its version, so a write moves it past every entry (`BoundIn`); and a file
  no build came to while it was copied is, until it is registered, what was read.
- `PairsMarked`: `MarkedTogether`, through `MarkInv`, of every copied file but the
  one under way. Of a copy whose stamp could not be read it says that the index knows
  nothing of the copy as it is: an entry for its path is of an older version. It needs
  `IndexInv`: an entry that is of the source as it is at the
  save was of the source as it was read, so `register` found it.

`Probe_proofs.tla`, for any dirs, units, devices, processes and builds, any kills and
failing calls:

- `LeftFilesWait`, `IdleKept`: `LeftFilesStay` and `IdleUnlessMet`, from
  `IInv == TypeOK /\ ClockInv /\ ProbeInv /\ MetInv /\ HoldsInv /\ SweptInv /\
  LeftFilesStay /\ IdleUnlessMet` (`ProbeInductive`). `HoldsInv` is what carries the
  second: a probe that has moved the mtime of a dir has in `before` one that no build is
  older than. The first: a file goes only by the process that made it, or by the sweep
  that has it on its list, and the one process with the run lock makes and removes none
  of its own while it sweeps; one that is made meanwhile under a name left takes its place.
- `UnitsAreSwept`: `UnitsSwept`, from `SweptInv`: a unit is locked by one run, and what
  dead runs left there is, from the scan on, among what that run has still to sweep.

`Guards_proofs.tla`, for any dirs, files, kinds of place, batches and writes:

- `LeftAsFound`, `FloorIsKept`, `LossIsInWindow`, `SharedIsApart`: `OnlyThoseLeft`,
  `FloorKept`, `LossInWindow` and `SharedApart`, from `IInv == TypeOK /\ RunInv /\
  GuardInv /\ ModeInv /\ SeenInv /\ CopyInv /\ LiftInv /\ LeftoverInv /\
  OnlyThoseLeft` (`GuardsInductive`). `ModeInv`: what is put back read-only is what
  its owner wants so. `SeenInv`: a file that still has the stamp of the scan has not
  been written since, and was old then. `CopyInv`: a file in hand has one copy, of
  what it was at some time since the scan; if it still has the stamp of the scan at
  the last look, the copy has its bytes, also where it was written between the first
  look and the copy. `GuardInv`: as long as nobody took the lock file, the tool and
  the run have the same one open, so not both its lock; and no unit is in a run
  without it. Hence under a shared lock even the window is closed.
- `OneBatchIsLeft`: `OneBatchAtMost`, from `LiftInv`: only the dirs of the batch under
  way are lifted, so a kill or a failing put-back adds no more of them than a batch.
- `NothingIsLeft`: `NothingLeftBehind`, from `LeftoverInv`: a copy is one that the run
  has yet to sweep, the one of a file in hand, in a dir the run can still write to, one
  that is in `kept`, or in a dir whose mode someone else has changed. A run that begins
  takes from `kept` what is in its units: it sweeps that, or ends.

`Selection_proofs.tla`, for any tree, worlds, roots, command lines and config files:

- `FoundOnceHolds`, `GroupsApartHold`, `OrphansAreForgotten`, `SkippedAreSpared`,
  `FlagsWinOverFile`: the five properties of `Front`, of every state a session
  starts in. They hold of the operators, and rest on `TreeAssumption` (a dir's
  ancestors come before it and are a chain), `RegistryAssumption` and
  `WorldAssumption` (what can be looked at is in dirs that can). That the nearest
  `.git` above a dir and the first workspace there exist is well-foundedness of the
  naturals.

The other assumptions are `EngineAssumption`, `SessionAssumption`,
`RequestsAssumption`, `DaemonAssumption`, `SeedAssumption`, `GuardsAssumption` and
`ProbeAssumption`: the kinds of the constants, and that `Engine` and `Guards` have
finitely many files, which they count. TLC evaluates all of them in every run of their
modules. No proof uses how large a bound is.

Only model-checked: `Deduped`, `IndexSound`, `NoForeignBytes` and `KeepsPromise` on the
devices of `EngineBuilds` and `EngineFailing` that are not `Steady`, within their
bounds. Out of TLAPS's reach: `BuildsGetOn`, `LocksReleased`, `Settles`, which rest on
fairness.

## What is not modelled

- Texts: reports, argument parsing, errors, the service unit, and the formats of the
  index, of the list of build dirs and of `daemon.json`.
- How an adapter recognises a dir by name and content, what `check` of a store
  refuses, and what dep-info, toolchain files and `advise` read: they are data of a
  world, or for reports only.
- Dry runs and the byte accounts, which change nothing.
- Of seed, symlinks, which sibling is the source, and `worktree add`, which asks git
  and then seeds. Of the cargo home, dedupe, which is `Engine`'s with hardlinks.
- `cargo clean` beside a run in `Session` (`Daemon` has it).
- A device that is mounted anew, or changed, under the answer a process keeps of it
  (`sys/unix.rs:151`): in `Probe` what a device can do is a constant, so nothing there
  says that an answer stays true.
- macOS's and Windows's system calls; those of Unix are modelled where they are
  called.

`PROJECT.json` says why for each part.

## Plan

The remaining pure parts against reference definitions: the evict cap,
`whole_targets`, canonical order in dedupe, the index's bytes.
