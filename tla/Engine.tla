------------------------------- MODULE Engine -------------------------------
(***************************************************************************)
(* One run of the engine over the files of its build dirs (src/engine.rs), *)
(* with the lossless passes it drives (src/dedupe.rs, src/compress.rs),    *)
(* the scan they plan from (src/model.rs) and the hash index they share    *)
(* (src/index.rs).  Every file system call that another process or a crash *)
(* can fall between is a step of its own.                                  *)
(*                                                                         *)
(* Builds run beside the engine.  A build takes the lock of its unit, so   *)
(* it never writes in a unit the engine has locked, unless the unit is in  *)
(* device.lockless: its build tool has no lock to take (Guard::Quiet).     *)
(*                                                                         *)
(* All files here have one size and live on one device: the case in which  *)
(* the size buckets and the size in a stamp tell nothing apart.            *)
(***************************************************************************)
EXTENDS Naturals, FiniteSets, FiniteSetsExt

CONSTANTS
  Path,            \* file names, numbered in sorted order
  Unit,            \* build dirs
  UnitOf,          \* [Path -> Unit]
  Ino,             \* inode numbers; a path's first inode has its number
  Data,            \* file contents
  Mode,            \* permission bits
  ModeOf,          \* [Path -> Mode]: the bits a build gives a new file
  Contents,        \* what the files may hold at first: a subset of [Path -> Data]
  Devices,         \* file systems the build dirs may live on, and the builds there
  MayFail,         \* whether a call on one file may fail
  MayInterrupt,    \* whether a stop flag or a deadline may come due
  UntilSettled,    \* Options::until_settled
  Batch,           \* COMPRESS_BATCH
  MaxRounds,       \* MAX_ROUNDS
  MaxBuilds, MaxCrashes, MaxLeft,  \* bounds of the model
  None             \* no inode, no entry, no job

FileType == [data : Data, mtime : Nat, mode : Mode, compressed : BOOLEAN]
StampType == [ino : Ino, mtime : Nat]
NoStamp == [ino |-> None, mtime |-> 0]
MemberType ==
  [stamp : StampType, mode : Mode, compressed : BOOLEAN, nlink : Nat, paths : SUBSET Path]
ActionType ==
  [source : Path \cup {0}, source_stamp : StampType \cup {NoStamp}, member : MemberType]
EntryType == [mtime : Nat, hash : Data, shared : BOOLEAN]
JobType == [action : ActionType, todo : SUBSET Path]

ASSUME EngineAssumption ==
  /\ Path \subseteq Ino \ {0}
  /\ Ino \subseteq Nat
  /\ IsFiniteSet(Path)
  /\ UnitOf \in [Path -> Unit]
  /\ ModeOf \in [Path -> Mode]
  /\ Contents \subseteq [Path -> Data]
  /\ Devices \subseteq [how : {"Clone", "Link", "none"},   \* how dedupe shares
                         compresses : BOOLEAN,             \* whether files can be compressed
                         reuses : BOOLEAN,                 \* whether inode numbers come back
                         rewrites : BOOLEAN,               \* whether builds rewrite inodes in place
                         links : {"none", "unit", "any"},  \* second names they give a file: in which units
                         lockless : SUBSET Unit,           \* units whose builds take no lock
                         ticks : Nat \ {0}]                \* bound of the model: the last clock
  /\ {MayFail, MayInterrupt, UntilSettled} \subseteq BOOLEAN
  /\ {Batch, MaxRounds} \subseteq Nat \ {0}
  /\ {MaxBuilds, MaxCrashes, MaxLeft} \subseteq Nat
  /\ None \notin Ino \cup Data \cup FileType \cup EntryType \cup JobType

VARIABLES
  device,    \* the file system and its builds; it never changes
  name,      \* [Path -> Ino or None]: the directory entries
  temp,      \* [Path -> Ino or None]: the temp file in use next to each path
  left,      \* [Path -> SUBSET Ino]: those next to it that could not be removed
  file,      \* [Ino -> file or None]: the inodes
  clock,     \* one tick is the min-age of a pass: a run fits in a tick
  builds,    \* steps builds have taken
  written,   \* [Path -> SUBSET Data]: all that builds ever put at a path
  crashes,   \* crashes so far
  disk,      \* the saved hash index
  pc,        \* where the run is
  locked,    \* the units under the run's locks
  scan,      \* the model the passes plan from
  index,     \* the hash index in memory
  pass,      \* the pass at work
  plan,      \* its actions not yet looked at
  batch,     \* compress: the members with a staged copy
  job,       \* the group being swapped in
  report     \* rounds, applied, progressed, interrupted, skipped, kept

fsVars == <<name, temp, left, file>>
runVars == <<pc, locked, scan, index, pass, plan, batch, job, report>>
outside == <<device, clock, builds, written, crashes>>
vars == <<fsVars, outside, disk, runVars>>

----------------------------------------------------------------------------
(* The file system *)

Links(n, i) == {p \in Path : n[p] = i}
Beside(l, i) == {p \in Path : i \in l[p]}
Nlink(i) ==
  Cardinality(Links(name, i)) + Cardinality(Links(temp, i)) + Cardinality(Beside(left, i))

\* An inode with no name left is gone.
Reaped(f) ==
  [i \in Ino |->
    IF Links(name', i) \cup Links(temp', i) \cup Beside(left', i) = {} THEN None ELSE f[i]]

\* What a build leaves at path p.
New(d, time, p) == [data |-> d, mtime |-> time, mode |-> ModeOf[p], compressed |-> FALSE]

\* The inode numbers a new file may get.  A file system that never reuses one
\* gives the next number nothing remembers.
Remembered(i) ==
  \/ disk[i] # None \/ index[i] # None
  \/ \E m \in scan \cup batch : m.stamp.ino = i
  \/ \E a \in plan : i \in {a.member.stamp.ino, a.source_stamp.ino}
NewIno ==
  LET free == {i \in Ino : file[i] = None}
      new == {i \in free : ~Remembered(i)}
  IN  IF device.reuses THEN free ELSE {i \in new : \A j \in new : i <= j}

Stamp(p) ==
  IF name[p] = None THEN NoStamp ELSE [ino |-> name[p], mtime |-> file[name[p]].mtime]

Bytes(p) == IF name[p] = None THEN None ELSE file[name[p]].data

----------------------------------------------------------------------------
(* Scanning and planning *)

\* One group per inode and unit, with the paths to it inside that unit.
Group(u, i) ==
  [stamp |-> [ino |-> i, mtime |-> file[i].mtime],
   mode |-> file[i].mode,
   compressed |-> file[i].compressed,
   nlink |-> Nlink(i),
   paths |-> {p \in Links(name, i) : UnitOf[p] = u}]
Scan(units) ==
  {Group(UnitOf[p], name[p]) : p \in {q \in Path : UnitOf[q] \in units /\ name[q] # None}}

\* HashIndex::get: a hit needs the mtime of the entry.
Hit(ix, stamp) == ix[stamp.ino] # None /\ ix[stamp.ino].mtime = stamp.mtime
Shared(stamp) == Hit(index, stamp) /\ index[stamp.ino].shared
Entry(stamp, hash, shared) == [mtime |-> stamp.mtime, hash |-> hash, shared |-> shared]

\* No link from elsewhere, and at least min-age old.
Eligible(m) == m.nlink = Cardinality(m.paths) /\ m.stamp.mtime < clock

Rewrite(m) == [source |-> 0, source_stamp |-> NoStamp, member |-> m]
CompressPlan ==
  {Rewrite(m) : m \in {g \in scan : /\ device.compresses
                                    /\ Eligible(g)
                                    /\ ~g.compressed
                                    /\ ~Shared(g.stamp)}}

\* Mutant of Candidates: off by one, a pair is not worth hashing.
CandidatesFromThree ==
  LET fit == {m \in scan : device.how # "none" /\ Eligible(m)}
  IN  IF Cardinality(fit) > 2 THEN fit ELSE {}
\* A size only one file has is not hashed.
Candidates ==
  LET fit == {m \in scan : device.how # "none" /\ Eligible(m)}
  IN  IF Cardinality(fit) > 1 THEN fit ELSE {}

\* The files the index does not know are read now, through their first path;
\* one that cannot be read stays unknown.
HashedIndex ==
  LET unknown == {m \in Candidates : ~Hit(index, m.stamp) /\ name[Min(m.paths)] # None}
  IN  [i \in Ino |->
        IF \E m \in unknown : m.stamp.ino = i
        THEN LET m == CHOOSE g \in unknown : g.stamp.ino = i
             IN  Entry(m.stamp, Bytes(Min(m.paths)), FALSE)
        ELSE index[i]]

\* canonical_order: shared first, then compressed, then oldest, then by path.
Before(a, b, ix) ==
  LET shared(m) == ix[m.stamp.ino].shared IN
  \/ shared(a) /\ ~shared(b)
  \/ /\ shared(a) = shared(b)
     /\ \/ a.compressed /\ ~b.compressed
        \/ /\ a.compressed = b.compressed
           /\ \/ a.stamp.mtime < b.stamp.mtime
              \/ a.stamp.mtime = b.stamp.mtime /\ Min(a.paths) < Min(b.paths)

\* Within each group of equal hash, every member not shared yet is to be
\* replaced from the canonical one.
DedupePlan(ix) ==
  LET hashed == {m \in Candidates : Hit(ix, m.stamp)}
      twins(m) == {g \in hashed : ix[g.stamp.ino].hash = ix[m.stamp.ino].hash}
      canonical(m) == CHOOSE c \in twins(m) : \A g \in twins(m) \ {c} : Before(c, g, ix)
  IN  {[source |-> Min(canonical(m).paths),
        source_stamp |-> canonical(m).stamp,
        member |-> m] :
          m \in {g \in hashed : g # canonical(g) /\ ~ix[g.stamp.ino].shared}}

FirstPath(a) == Min(a.member.paths)
FirstAction(A) == CHOOSE a \in A : \A b \in A : FirstPath(a) <= FirstPath(b)
FirstActions(n) ==
  {a \in plan : Cardinality({b \in plan : FirstPath(b) < FirstPath(a)}) < n}

----------------------------------------------------------------------------
(* The run *)

\* Two fields are the model's own: how many steps builds had taken by then, and
\* next to which paths the run was refused the removal of a temp file.
Report(begun) == [rounds |-> 1, applied |-> FALSE, progressed |-> FALSE,
                  interrupted |-> FALSE, skipped |-> {}, begun |-> begun, kept |-> {}]
NoIndex == [i \in Ino |-> None]

\* Every partition of the paths of a unit into hardlink groups, by the first path.
Leaders ==
  {l \in [Path -> Path] :
     \A p \in Path : /\ l[p] = p \/ (device.links # "none" /\ l[p] < p)
                    /\ l[l[p]] = l[p]
                    /\ UnitOf[l[p]] = UnitOf[p]}

Init ==
  /\ device \in Devices
  /\ \E leader \in Leaders, bytes \in Contents :
       /\ name = leader
       /\ \A p \in Path : bytes[p] = bytes[leader[p]]
       /\ file = [i \in Ino |-> IF \E p \in Path : leader[p] = i THEN New(bytes[i], 0, i) ELSE None]
       /\ written = [p \in Path |-> {bytes[p]}]
  /\ temp = [p \in Path |-> None]
  /\ left = [p \in Path |-> {}]
  /\ clock = 1
  /\ builds = 0
  /\ crashes = 0
  /\ disk = NoIndex
  /\ pc = "idle"
  /\ locked = {}
  /\ scan = {}
  /\ index = NoIndex
  /\ pass = "compress"
  /\ plan = {}
  /\ batch = {}
  /\ job = None
  /\ report = Report(0)

\* The index is loaded, the units no build holds are locked and scanned.
Begin(units) ==
  /\ pc = "idle"
  /\ units # {}
  /\ pc' = "sweep"
  /\ locked' = units
  /\ scan' = Scan(units)
  /\ index' = disk
  /\ report' = Report(builds)
  /\ UNCHANGED <<fsVars, outside, disk, pass, plan, batch, job>>

\* Temp files an earlier run left go, after the scan that listed them.
Sweep(p) ==
  /\ pc = "sweep"
  /\ UnitOf[p] \in locked
  /\ \/ /\ temp[p] # None
        /\ temp' = [temp EXCEPT ![p] = None]
        /\ left' = left
     \/ \E i \in left[p] :
          /\ left' = [left EXCEPT ![p] = @ \ {i}]
          /\ temp' = temp
  /\ name' = name
  /\ file' = Reaped(file)
  /\ UNCHANGED <<outside, disk, runVars>>

\* Mutant of NoneStale: what a run could not remove stays.
NoneStaleInUse == \A p \in Path : UnitOf[p] \in locked => temp[p] = None
NoneStale == \A p \in Path : UnitOf[p] \in locked => temp[p] = None /\ left[p] = {}

Swept ==
  /\ pc = "sweep"
  /\ NoneStale
  /\ pc' = "plan"
  /\ UNCHANGED <<fsVars, outside, disk, locked, scan, index, pass, plan, batch, job, report>>

Plan ==
  /\ pc = "plan"
  /\ pc' = "act"
  /\ \/ pass = "compress" /\ plan' = CompressPlan /\ index' = index
     \/ pass = "dedupe" /\ index' = HashedIndex /\ plan' = DedupePlan(index')
  /\ report' = [report EXCEPT !.applied = FALSE, !.skipped = {}]
  /\ UNCHANGED <<fsVars, outside, disk, locked, scan, pass, batch, job>>

\* Before an action and before a compress batch the run looks whether it
\* should let go.
LetGo ==
  /\ MayInterrupt
  /\ pc = "act"
  /\ plan # {}
  /\ pc' = "release"
  /\ plan' = {}
  /\ report' = [report EXCEPT !.interrupted = TRUE]
  /\ UNCHANGED <<fsVars, outside, disk, locked, scan, index, pass, batch, job>>

\* check_group: every path locked, no link from elsewhere, no path changed.
CheckGroup(m) ==
  /\ \A p \in m.paths : UnitOf[p] \in locked
  /\ m.nlink = Cardinality(m.paths)
  /\ \A p \in m.paths : Stamp(p) = m.stamp

Skip(m) == report' = [report EXCEPT !.skipped = @ \cup {m}]
\* The removal of a temp file fails, next to so many paths at a time.
Refused == MayFail /\ Cardinality({p \in Path : left[p] # {}}) < MaxLeft

\* A failed step skips m and removes the temp file next to p.  Nobody looks
\* whether the removal fails: the file is left then.
DropTemp(m, p) ==
  /\ temp' = [temp EXCEPT ![p] = None]
  /\ name' = name
  /\ \/ left' = left /\ Skip(m)
     \/ /\ Refused
        /\ left' = [left EXCEPT ![p] = @ \cup {temp[p]}]
        /\ report' = [report EXCEPT !.skipped = @ \cup {m}, !.kept = @ \cup {p}]
  /\ file' = Reaped(file)

\* Mutant of RestoreMeta: the mtime stays what the copy got.
RestoreModeOnly(f, m) == [f EXCEPT !.mode = m.mode]
\* restore_meta: the mtime and the mode of the member it stands in for.
RestoreMeta(f, m) == [f EXCEPT !.mtime = m.stamp.mtime, !.mode = m.mode]

\* A private copy of what path p holds, with the mtime and mode of m, at the
\* temp name next to m's first path.
CopyTo(m, p) ==
  /\ name[p] # None
  /\ \E i \in NewIno :
       /\ temp' = [temp EXCEPT ![Min(m.paths)] = i]
       /\ name' = name
       /\ left' = left
       /\ file' = Reaped([file EXCEPT ![i] = RestoreMeta(file[name[p]], m)])
\* clone_as fails half-way and so does the removal: the copy is there, as
\* clone_file made it, and nobody knows.
CopyLeft(m, p) ==
  /\ Refused
  /\ name[p] # None
  /\ \E i \in NewIno :
       /\ left' = [left EXCEPT ![Min(m.paths)] = @ \cup {i}]
       /\ UNCHANGED <<name, temp>>
       /\ file' = Reaped([file EXCEPT ![i] = [file[name[p]] EXCEPT !.mtime = clock]])
  /\ report' = [report EXCEPT !.skipped = @ \cup {m}, !.kept = @ \cup {Min(m.paths)}]

(* Compress: stage the copies of a batch, compress them all, swap each in. *)

StageBatch ==
  /\ pc = "act" /\ pass = "compress" /\ batch = {}
  /\ plan # {}
  /\ pc' = "stage"
  /\ batch' = {a.member : a \in FirstActions(Batch)}
  /\ UNCHANGED <<fsVars, outside, disk, locked, scan, index, pass, plan, job, report>>

\* The members of the batch not yet staged are those still in the plan.
Unstaged == {a \in plan : a.member \in batch}

\* stage_copy looks at the group, and then copies it: in two steps, for a build
\* that takes no lock may write in between.
Stage ==
  /\ pc = "stage"
  /\ Unstaged # {}
  /\ LET a == FirstAction(Unstaged)
         m == a.member
     IN \/ /\ CheckGroup(m)
           /\ pc' = "clone"
           /\ UNCHANGED <<plan, batch, report>>
        \/ /\ ~CheckGroup(m) \/ MayFail
           /\ plan' = plan \ {a}
           /\ batch' = batch \ {m}
           /\ Skip(m)
           /\ pc' = "stage"
  /\ UNCHANGED <<fsVars, outside, disk, locked, scan, index, pass, job>>

Clone ==
  /\ pc = "clone"
  /\ pc' = "stage"
  /\ LET a == FirstAction(Unstaged)
         m == a.member
         first == Min(m.paths)
     IN /\ plan' = plan \ {a}
        /\ \/ /\ CopyTo(m, first)
              /\ UNCHANGED <<batch, report>>
           \/ /\ name[first] = None \/ NewIno = {} \/ MayFail
              /\ batch' = batch \ {m}
              /\ Skip(m)
              /\ UNCHANGED fsVars
           \/ /\ CopyLeft(m, first)
              /\ batch' = batch \ {m}
  /\ UNCHANGED <<outside, disk, locked, scan, index, pass, job>>

\* The backend compresses what it can, and leaves its own mtime on it.
Backend ==
  /\ pc = "stage"
  /\ Unstaged = {}
  /\ pc' = "finish"
  /\ \E done \in SUBSET batch :
       file' = [i \in Ino |->
                 IF \E m \in done : temp[Min(m.paths)] = i
                 THEN [file[i] EXCEPT !.compressed = TRUE, !.mtime = clock]
                 ELSE file[i]]
  /\ UNCHANGED <<name, temp, left, outside, disk, locked, scan, index, pass, plan, batch, job, report>>

FirstStaged == CHOOSE m \in batch : \A g \in batch : Min(m.paths) <= Min(g.paths)

Finish ==
  /\ pc = "finish"
  /\ batch # {}
  /\ LET m == FirstStaged
         p == Min(m.paths)
         fit == file[temp[p]].compressed /\ CheckGroup(m)
     IN /\ batch' = batch \ {m}
        /\ \/ /\ fit
              /\ file' = [file EXCEPT ![temp[p]] = RestoreMeta(@, m)]
              /\ job' = [action |-> Rewrite(m), todo |-> m.paths]
              /\ pc' = "rename"
              /\ UNCHANGED <<name, temp, left, report>>
           \/ /\ ~fit \/ MayFail
              /\ DropTemp(m, p)
              /\ UNCHANGED <<job, pc>>
  /\ UNCHANGED <<outside, disk, locked, scan, index, pass, plan>>

\* Mutant of BatchDone: the next batch is staged, be there one or not.
BatchDoneStages ==
  /\ pc = "finish"
  /\ batch = {}
  /\ pc' = "stage"
  /\ batch' = {a.member : a \in FirstActions(Batch)}
  /\ UNCHANGED <<fsVars, outside, disk, locked, scan, index, pass, plan, job, report>>

BatchDone ==
  /\ pc = "finish"
  /\ batch = {}
  /\ pc' = "act"
  /\ UNCHANGED <<fsVars, outside, disk, locked, scan, index, pass, plan, batch, job, report>>

(* Dedupe: replace a member from the canonical inode. *)

\* Mutant of CheckReplace: files with other permissions are linked as well.
CheckReplaceAnyMode(a) ==
  /\ UnitOf[a.source] \in locked
  /\ CheckGroup(a.member)
  /\ a.source_stamp.ino # a.member.stamp.ino
  /\ Stamp(a.source) = a.source_stamp
CheckReplace(a) ==
  /\ UnitOf[a.source] \in locked
  /\ CheckGroup(a.member)
  /\ a.source_stamp.ino # a.member.stamp.ino
  /\ Stamp(a.source) = a.source_stamp
  /\ device.how = "Link" => file[name[a.source]].mode = a.member.mode

StartReplace ==
  /\ pc = "act" /\ pass = "dedupe"
  /\ plan # {}
  /\ LET a == FirstAction(plan)
     IN /\ plan' = plan \ {a}
        /\ \/ /\ CheckReplace(a)
              /\ job' = [action |-> a, todo |-> a.member.paths]
              /\ pc' = "copy"
              /\ UNCHANGED report
           \/ /\ ~CheckReplace(a) \/ MayFail
              /\ Skip(a.member)
              /\ UNCHANGED <<job, pc>>
  /\ UNCHANGED <<fsVars, outside, disk, locked, scan, index, pass, batch>>

\* The group at hand is done with; GiveUp tells that it was skipped.
Turn ==
  /\ job' = None
  /\ pc' = IF pass = "compress" THEN "finish" ELSE "act"
GiveUp == Skip(job.action.member) /\ Turn

\* clone_as, or link_as: the source's own inode, its mtime moved to the later
\* of the two.
Copy ==
  /\ pc = "copy"
  /\ LET a == job.action
         m == a.member
     IN \/ /\ device.how = "Clone"
           /\ CopyTo(m, a.source)
           /\ pc' = "held"
           /\ UNCHANGED <<job, report>>
        \/ /\ device.how = "Link"
           /\ name[a.source] # None
           /\ temp' = [temp EXCEPT ![Min(m.paths)] = name[a.source]]
           /\ file' = [file EXCEPT ![name[a.source]].mtime = Max({@, m.stamp.mtime})]
           /\ UNCHANGED <<name, left>>
           /\ pc' = "rename"
           /\ UNCHANGED <<job, report>>
        \/ /\ name[a.source] = None \/ (device.how = "Clone" /\ NewIno = {}) \/ MayFail
           /\ GiveUp
           /\ UNCHANGED fsVars
  /\ UNCHANGED <<outside, disk, locked, scan, index, pass, plan, batch>>

\* Mutant of HeldStill: the source is not looked at again.
HeldStillAssumed ==
  /\ pc = "held"
  /\ pc' = "rename"
  /\ UNCHANGED <<fsVars, job, report>>
  /\ UNCHANGED <<outside, disk, locked, scan, index, pass, plan, batch>>

\* held_still: bytes written into the source while it was copied do not go in.
\* A clone_as that fails with its copy made ends here as well.
HeldStill ==
  /\ pc = "held"
  /\ LET a == job.action
         still == Stamp(a.source) = a.source_stamp
     IN \/ still /\ pc' = "rename" /\ UNCHANGED <<fsVars, job, report>>
        \/ /\ ~still \/ MayFail
           /\ DropTemp(a.member, Min(a.member.paths))
           /\ Turn
  /\ UNCHANGED <<outside, disk, locked, scan, index, pass, plan, batch>>

(* swap_in: rename over the first path, link and rename for each other one. *)

NextPath == Min(job.todo)

Rename ==
  /\ pc = "rename"
  /\ \/ /\ name' = [name EXCEPT ![NextPath] = temp[NextPath]]
        /\ temp' = [temp EXCEPT ![NextPath] = None]
        /\ left' = left
        /\ file' = Reaped(file)
        /\ job' = [job EXCEPT !.todo = @ \ {NextPath}]
        /\ pc' = IF job'.todo = {} THEN "tell" ELSE "link"
        /\ UNCHANGED report
     \/ /\ MayFail
        /\ DropTemp(job.action.member, NextPath)
        /\ Turn
  /\ UNCHANGED <<outside, disk, locked, scan, index, pass, plan, batch>>

\* Mutant of LinkRest: unlink, then link, as if no crash fell between.
LinkRestUnlinking ==
  /\ pc = "link"
  /\ LET first == Min(job.action.member.paths)
     IN /\ name[first] # None
        /\ temp' = [temp EXCEPT ![NextPath] = name[first]]
        /\ name' = [name EXCEPT ![NextPath] = None]
        /\ left' = left
        /\ file' = Reaped(file)
        /\ pc' = "rename"
  /\ UNCHANGED <<job, report, outside, disk, locked, scan, index, pass, plan, batch>>

LinkRest ==
  /\ pc = "link"
  /\ LET first == Min(job.action.member.paths)
     IN \/ /\ name[first] # None
           /\ temp' = [temp EXCEPT ![NextPath] = name[first]]
           /\ pc' = "rename"
           /\ UNCHANGED <<name, left, file, job, report>>
        \/ /\ name[first] = None \/ MayFail
           /\ GiveUp
           /\ UNCHANGED fsVars
  /\ UNCHANGED <<outside, disk, locked, scan, index, pass, plan, batch>>

\* Mutant of ToldReplaced: the new inode keeps what its number stood for.
ToldReplacedKept(a, new) ==
  [index EXCEPT ![a.source_stamp.ino].shared = TRUE, ![a.member.stamp.ino] = None]
\* Pass::replaced and Pass::rewritten, with the stamp read at the first path:
\* the hash goes from the old inode to the new one.
ToldReplaced(a, new) ==
  LET ix == [index EXCEPT ![a.source_stamp.ino].shared = TRUE,
                          ![a.member.stamp.ino] = None]
  IN  IF Hit(index, a.source_stamp)
      THEN [ix EXCEPT ![new.ino] = Entry(new, index[a.source_stamp.ino].hash, TRUE)]
      ELSE index
ToldRewritten(m, new) ==
  IF Hit(index, m.stamp)
  THEN [index EXCEPT ![m.stamp.ino] = None,
                     ![new.ino] = Entry(new, index[m.stamp.ino].hash, FALSE)]
  ELSE index

Tell ==
  /\ pc = "tell"
  /\ LET a == job.action
         new == Stamp(Min(a.member.paths))
     IN /\ new # NoStamp
        /\ index' = IF pass = "compress" THEN ToldRewritten(a.member, new)
                                         ELSE ToldReplaced(a, new)
  /\ pc' = IF pass = "compress" THEN "finish" ELSE "act"
  /\ job' = None
  /\ report' = [report EXCEPT !.applied = TRUE, !.progressed = TRUE]
  /\ UNCHANGED <<fsVars, outside, disk, locked, scan, pass, plan, batch>>

(* The end of a pass, of a round and of the run. *)

Again ==
  /\ UntilSettled
  /\ report.progressed
  /\ report.rounds < MaxRounds

EndPass ==
  /\ pc = "act"
  /\ plan = {} /\ batch = {}
  /\ scan' = IF report.applied THEN Scan(locked) ELSE scan
  /\ IF pass = "compress"
     THEN pass' = "dedupe" /\ pc' = "plan" /\ UNCHANGED report
     ELSE IF Again
          THEN /\ pass' = "compress"
               /\ pc' = "plan"
               /\ report' = [report EXCEPT !.rounds = @ + 1, !.progressed = FALSE]
          ELSE pc' = "release" /\ UNCHANGED <<pass, report>>
  /\ UNCHANGED <<fsVars, outside, disk, locked, index, plan, batch, job>>

Release ==
  /\ pc = "release"
  /\ pc' = "save"
  /\ locked' = {}
  /\ scan' = {}
  /\ UNCHANGED <<fsVars, outside, disk, index, pass, plan, batch, job, report>>

\* HashIndex::expire and save: an entry no run looks up goes in time, and the
\* file is swapped whole.  Where no inode number comes back, an entry without a
\* file is never looked up, and is as good as gone.
Live(ix) ==
  [i \in Ino |-> IF \E p \in Path : ix[i] # None /\ Stamp(p) = [ino |-> i, mtime |-> ix[i].mtime]
                 THEN ix[i] ELSE None]
Save ==
  /\ pc = "save"
  /\ pc' = "idle"
  /\ disk' \in (IF device.reuses THEN {index} ELSE {}) \cup {Live(index)}
  /\ index' = NoIndex
  /\ pass' = "compress"
  /\ report' = Report(0)
  /\ UNCHANGED <<fsVars, outside, locked, scan, plan, batch, job>>

\* The locks go with the process, and so does all it had in memory.
Lost ==
  /\ pc' = "idle"
  /\ locked' = {}
  /\ scan' = {}
  /\ index' = NoIndex
  /\ pass' = "compress"
  /\ plan' = {}
  /\ batch' = {}
  /\ job' = None
  /\ report' = Report(0)
  /\ UNCHANGED disk

\* A temp file that cannot be removed before the first round ends the run.
SweepFails ==
  /\ MayFail
  /\ pc = "sweep"
  /\ ~NoneStale
  /\ Lost
  /\ UNCHANGED <<fsVars, outside>>

\* The path just replaced is gone again: the run ends with the error, and the
\* index is not saved.  One that is there and cannot be read ends it as a crash
\* at this point does.
TellFails ==
  /\ pc = "tell" /\ pass = "dedupe"
  /\ name[Min(job.action.member.paths)] = None
  /\ Lost
  /\ UNCHANGED <<fsVars, outside>>

\* For a compressed group it is one more skipped file.
RewrittenGone ==
  /\ pc = "tell" /\ pass = "compress"
  /\ MayFail \/ name[Min(job.action.member.paths)] = None
  /\ GiveUp
  /\ UNCHANGED <<fsVars, outside, disk, locked, scan, index, pass, plan, batch>>

Crash ==
  /\ pc # "idle"
  /\ crashes < MaxCrashes
  /\ crashes' = crashes + 1
  /\ Lost
  /\ UNCHANGED <<fsVars, device, clock, builds, written>>

----------------------------------------------------------------------------
(* Builds and time *)

MayBuild(p) ==
  /\ builds < MaxBuilds
  /\ UnitOf[p] \notin locked \/ UnitOf[p] \in device.lockless
  /\ builds' = builds + 1

\* Path p with the other names of the group the engine is giving a new inode
\* just then: to a build they are one file all along.
Aliases(p) ==
  IF job # None /\ p \in job.action.member.paths THEN job.action.member.paths ELSE {p}
Wrote(paths, d) ==
  written' = [q \in Path |-> IF q \in paths THEN written[q] \cup {d} ELSE written[q]]

\* The old name goes and a new file takes it.
BuildCreate(p, d) ==
  /\ MayBuild(p)
  /\ \E i \in NewIno :
       /\ name' = [name EXCEPT ![p] = i]
       /\ UNCHANGED <<temp, left>>
       /\ file' = Reaped([file EXCEPT ![i] = New(d, clock, p)])
  /\ Wrote(Aliases(p), d)
  /\ UNCHANGED <<device, clock, crashes, disk, runVars>>

\* rustc truncates its output: every name of the inode reads the new bytes.
BuildRewrite(p, d) ==
  /\ device.rewrites
  /\ name[p] # None
  /\ MayBuild(p)
  /\ file' = [file EXCEPT ![name[p]] = [@ EXCEPT !.data = d, !.mtime = clock,
                                                 !.compressed = FALSE]]
  /\ Wrote(UNION {Aliases(q) : q \in Links(name, name[p])}, d)
  /\ UNCHANGED <<name, temp, left, device, clock, crashes, disk, runVars>>

\* cargo uplifts an artifact: a second name for the same inode.
BuildLink(p, q) ==
  /\ device.links = "any" \/ (device.links = "unit" /\ UnitOf[p] = UnitOf[q])
  /\ name[q] # None /\ name[p] # name[q]
  /\ MayBuild(p)
  /\ name' = [name EXCEPT ![p] = name[q]]
  /\ UNCHANGED <<temp, left>>
  /\ file' = Reaped(file)
  /\ Wrote(Aliases(p), Bytes(q))
  /\ UNCHANGED <<device, clock, crashes, disk, runVars>>

BuildDelete(p) ==
  /\ name[p] # None
  /\ MayBuild(p)
  /\ name' = [name EXCEPT ![p] = None]
  /\ UNCHANGED <<temp, left>>
  /\ file' = Reaped(file)
  /\ UNCHANGED <<device, clock, written, crashes, disk, runVars>>

Tick ==
  /\ pc = "idle"
  /\ clock < device.ticks
  /\ clock' = clock + 1
  /\ UNCHANGED <<fsVars, device, builds, written, crashes, disk, runVars>>

Run ==
  \/ \E p \in Path : Sweep(p)
  \/ Swept \/ SweepFails \/ Plan \/ LetGo
  \/ StageBatch \/ Stage \/ Clone \/ Backend \/ Finish \/ BatchDone
  \/ StartReplace \/ Copy \/ HeldStill
  \/ Rename \/ LinkRest \/ Tell \/ TellFails \/ RewrittenGone
  \/ EndPass \/ Release \/ Save

Build ==
  \E p \in Path :
    \/ \E d \in Data : BuildCreate(p, d) \/ BuildRewrite(p, d)
    \/ \E q \in Path : BuildLink(p, q)
    \/ BuildDelete(p)

Next ==
  \/ \E units \in SUBSET Unit : Begin(units)
  \/ Run
  \/ Crash
  \/ Build
  \/ Tick

Spec == Init /\ [][Next]_vars

\* One thread does the run and waits for nobody: it takes its next step.
FairSpec == Spec /\ WF_vars(Run)
----------------------------------------------------------------------------
(* Properties *)

ReportType ==
  [rounds : 1 .. MaxRounds, applied : BOOLEAN, progressed : BOOLEAN, interrupted : BOOLEAN,
   skipped : SUBSET MemberType, begun : Nat, kept : SUBSET Path]

\* The shape of the state.
TypeOK ==
  /\ device \in Devices
  /\ name \in [Path -> Ino \cup {None}]
  /\ temp \in [Path -> Ino \cup {None}]
  /\ left \in [Path -> SUBSET Ino]
  /\ file \in [Ino -> FileType \cup {None}]
  /\ \A i \in Ino : file[i] # None => file[i].mtime <= clock
  /\ clock \in 1 .. device.ticks
  /\ builds \in 0 .. MaxBuilds
  /\ crashes \in 0 .. MaxCrashes
  /\ written \in [Path -> SUBSET Data]
  /\ disk \in [Ino -> EntryType \cup {None}]
  /\ index \in [Ino -> EntryType \cup {None}]
  /\ pc \in {"idle", "sweep", "plan", "act", "stage", "clone", "finish", "copy", "held",
             "rename", "link", "tell", "release", "save"}
  /\ locked \subseteq Unit
  /\ pass \in {"compress", "dedupe"}
  /\ scan \subseteq MemberType /\ batch \subseteq scan
  /\ plan \subseteq ActionType
  /\ job \in JobType \cup {None}
  /\ report \in ReportType

\* The bytes at a path are bytes some build put at that very path: no hash, no
\* copy and no crash lets another file's bytes land under it (DESIGN.md,
\* "Safety tier without a build lock" 5, and the grouping of dedupe.rs).
NoForeignBytes ==
  \A p \in Path : name[p] # None => Bytes(p) \in written[p]

\* Where builds lock what they write.
Locked(p) == UnitOf[p] \notin device.lockless

\* Every index entry that a file would hit holds the hash of that file's bytes:
\* model.rs calls a stamp the "identity and version of a file", and dedupe
\* groups by the hash of the entry without reading the file.  While a group is
\* swapped in, the new inode waits to be told to the index; what is saved
\* counts when a run loads it.  Where builds take no lock it is not so: one may
\* write into the new inode before its stamp is read for the index.
Sound(ix) ==
  \A p \in Path :
    LET s == Stamp(p) IN
    Locked(p) /\ s # NoStamp /\ ix[s.ino] # None /\ ix[s.ino].mtime = s.mtime
      => ix[s.ino].hash = Bytes(p)
IndexSound ==
  IF pc = "idle" THEN Sound(disk)
                 ELSE pc \in {"rename", "link", "tell"} \/ Sound(index)

\* The paths a run could share: in a locked unit, old enough, without links
\* from elsewhere.
InScope(p) ==
  /\ UnitOf[p] \in locked
  /\ name[p] # None
  /\ file[name[p]].mtime < clock
  /\ Nlink(name[p]) = Cardinality({q \in Links(name, name[p]) : UnitOf[q] = UnitOf[p]})

\* A run that was not told to let go, skipped nothing in its last pass and met
\* no build has shared every pair of equal files in its units: they are one
\* inode, or at least one of them is marked as a clone (two clusters shared
\* before are left apart, as dedupe.rs says).
Deduped ==
  /\ pc = "release" /\ device.how # "none"
  /\ ~report.interrupted /\ report.skipped = {} /\ report.begun = builds
  => \A p, q \in Path :
       InScope(p) /\ InScope(q) /\ Bytes(p) = Bytes(q)
         => name[p] = name[q] \/ Shared(Stamp(p)) \/ Shared(Stamp(q))

\* A run that ends leaves a temp file in its units only where a removal was
\* refused it: each failure path removes its own, and what a crash or an earlier
\* run left there is gone (DESIGN.md, invariant 3).
NoTempsLeft ==
  \A p \in Path : pc = "release" /\ UnitOf[p] \in locked =>
    temp[p] = None /\ (left[p] # {} => p \in report.kept)

\* To a build that locks, and to whoever reads its files, a run is invisible:
\* bytes and modes stay what builds made them, and an mtime never moves back.
Promise == INSTANCE BuildDirs WITH
  Absent <- None,
  mayAge <- device.how = "Link",
  content <- [p \in Path |-> IF Locked(p) THEN Bytes(p) ELSE None],
  mode <- [p \in Path |-> IF Locked(p) /\ name[p] # None THEN file[name[p]].mode ELSE ModeOf[p]],
  mtime <- [p \in Path |-> IF Locked(p) THEN Stamp(p).mtime ELSE 0]
KeepsPromise == Promise!Spec

\* The locks of a run are let go of: passes cannot feed each other for ever,
\* and no skipped group keeps a run at it.
LocksReleased == locked # {} ~> locked = {}

----------------------------------------------------------------------------
(* What the properties rest on *)

\* The actions there are, and the members of a batch that have their copy.
Acting == plan \cup (IF job = None THEN {} ELSE {job.action})
Staged == {m \in batch : \A a \in plan : a.member # m}

\* Where the run is, and what it has at hand there.
PcInv ==
  /\ job # None <=> pc \in {"copy", "held", "rename", "link", "tell"}
  /\ pc \in {"stage", "clone", "finish"} => pass = "compress"
  /\ pc = "clone" => Unstaged # {}
  /\ pc \in {"copy", "held"} => pass = "dedupe"
  /\ pc \in {"idle", "sweep", "plan", "release", "save"} => plan = {}
  /\ pass = "dedupe" \/ pc \notin {"stage", "clone", "finish", "rename", "link", "tell"} => batch = {}
  /\ pc \notin {"stage", "clone"} => batch = Staged
  /\ pc \in {"idle", "save"} => locked = {} /\ scan = {}

\* The groups of a scan are apart, and what is done is done to old ones of them.
ScanInv ==
  /\ \A m \in scan : m.paths # {} /\ \E u \in locked : \A p \in m.paths : UnitOf[p] = u
  /\ \A m, n \in scan : m # n => m.paths \cap n.paths = {}
  /\ \A m \in batch : m.stamp.mtime < clock
  /\ \A a \in Acting :
       /\ a.member \in scan /\ a.member.stamp.mtime < clock
       /\ pass = "compress" => a = Rewrite(a.member)
       /\ pass = "dedupe" =>
            \E c \in scan : /\ c # a.member /\ c.stamp.mtime < clock
                            /\ a.source = Min(c.paths) /\ a.source_stamp = c.stamp

\* How far a group is swapped in: its first path goes first.
SwapInv ==
  job # None =>
    LET paths == job.action.member.paths IN
    /\ job.action.member \notin batch
    /\ job.todo \subseteq paths
    /\ pc \in {"copy", "held"} => job.todo = paths
    /\ pc = "rename" => job.todo # {} /\ (Min(paths) \in job.todo => job.todo = paths)
    /\ pc = "link" => job.todo # {} /\ Min(paths) \notin job.todo
    /\ pc = "tell" => job.todo = {}

\* Every name is of a file.
LiveInv ==
  \A p \in Path : (name[p] # None => file[name[p]] # None) /\ (temp[p] # None => file[temp[p]] # None)

\* The temp files of a run are those it is about to rename, and a copy is its own
\* until then.
Private(p) ==
  /\ temp[p] # None
  /\ \A q \in Path : name[q] # temp[p] /\ (q # p => temp[q] # temp[p])
CopyAtHand ==
  \/ pc = "held"
  \/ pc = "rename" /\ job.todo = job.action.member.paths
                   /\ (pass = "compress" \/ device.how # "Link")
TempInv ==
  /\ pc \notin {"idle", "sweep", "save"} =>
       \A p \in Path : UnitOf[p] \in locked /\ temp[p] # None =>
         \/ \E m \in Staged : p = Min(m.paths)
         \/ pc = "held" /\ p = Min(job.action.member.paths)
         \/ pc = "rename" /\ p = NextPath
  /\ \A m \in Staged : Private(Min(m.paths))
  /\ pc = "rename" => temp[NextPath] # None
  /\ CopyAtHand => Private(Min(job.action.member.paths))

\* What is left beside a path, a removal was refused there in this run.
LeftInv ==
  pc \notin {"idle", "sweep", "save"} =>
    \A p \in Path : UnitOf[p] \in locked /\ left[p] # {} => p \in report.kept

\* The invariant of every device.
IInv == TypeOK /\ PcInv /\ ScanInv /\ SwapInv /\ LiveInv /\ TempInv

\* What the rest takes of the device: numbers do not come back, builds lock their
\* units, and one that writes in place writes to files of its own unit alone.
Steady ==
  /\ ~device.reuses
  /\ device.lockless = {}
  /\ device.rewrites => device.how # "Link" /\ device.links # "any"

\* Whoever writes in place writes within a unit.
UnitInv ==
  device.rewrites =>
    \A p, q \in Path : name[p] # None /\ name[p] = name[q] => UnitOf[p] = UnitOf[q]

\* What is known of an inode is of the past: if it reads as then, it is as it was.
Is(stamp) == file[stamp.ino] # None /\ file[stamp.ino].mtime = stamp.mtime
Known(i) == disk[i] # None \/ index[i] # None \/ \E m \in scan : m.stamp.ino = i
EntryInv(ix) ==
  \A i \in Ino : ix[i] # None =>
    /\ ix[i].mtime < clock
    /\ file[i] # None =>
         /\ ix[i].mtime <= file[i].mtime
         /\ ix[i].mtime = file[i].mtime => ix[i].hash = file[i].data
StampInv ==
  \A m \in scan : file[m.stamp.ino] # None =>
    m.stamp.mtime <= file[m.stamp.ino].mtime /\ file[m.stamp.ino].mode = m.mode

\* The paths of a group hold its bytes, and both files of a planned pair the same.
ReadInv ==
  \A m \in scan : \A p \in m.paths :
    m.stamp.mtime < clock /\ Is(m.stamp) /\ name[p] # None => Bytes(p) = file[m.stamp.ino].data
PairInv ==
  pass = "dedupe" =>
    \A a \in Acting : Is(a.source_stamp) /\ Is(a.member.stamp) =>
      file[a.source_stamp.ino].data = file[a.member.stamp.ino].data

\* A staged copy is of an inode nobody knows, and of the bytes of its group.
StagedInv ==
  \A m \in Staged :
    LET i == temp[Min(m.paths)] IN
    ~Known(i) /\ (Is(m.stamp) => file[i].data = file[m.stamp.ino].data)

\* What goes in for a group is what was there, but for an mtime that two names now
\* share, and what the index will be told of it is true.
StandsIn(i) ==
  LET a == job.action
      m == a.member
      told == IF pass = "compress" THEN m.stamp ELSE a.source_stamp
  IN  /\ Is(m.stamp) => file[i].data = file[m.stamp.ino].data
      /\ file[i].mode = m.mode
      /\ m.stamp.mtime <= file[i].mtime /\ file[i].mtime < clock
      /\ pass = "compress" \/ device.how # "Link" => file[i].mtime = m.stamp.mtime
      /\ Hit(index, told) => index[told.ino].hash = file[i].data
JobInv ==
  job # None =>
    LET a == job.action
        first == Min(a.member.paths)
    IN  /\ \A p \in job.todo : Stamp(p) = a.member.stamp
        /\ a.source_stamp.ino # a.member.stamp.ino
        /\ pc \in {"copy", "held"} =>
             /\ Stamp(a.source) = a.source_stamp
             /\ device.how = "Link" => file[name[a.source]].mode = a.member.mode
        /\ pc = "held" => device.how = "Clone" /\ StandsIn(temp[first])
        /\ pc = "rename" => StandsIn(temp[NextPath]) /\ (first \notin job.todo => name[first] = temp[NextPath])
        /\ pc \in {"link", "tell"} => name[first] # None /\ StandsIn(name[first])

\* The invariant of a steady device.
SteadyInv ==
  Steady =>
    /\ UnitInv
    /\ EntryInv(disk) /\ EntryInv(index) /\ StampInv
    /\ ReadInv /\ PairInv /\ StagedInv /\ JobInv
    /\ NoForeignBytes

\* What Deduped rests on, besides, until the first crash and where no call fails.  No
\* temp file is left over; while no build came since the run began and nothing was
\* applied, the scan is of the files as they are.
Calm == report.begun = builds /\ report.skipped = {} /\ ~report.interrupted
CleanInv ==
  /\ report.begun <= builds
  /\ \A p \in Path : temp[p] # None => pc \notin {"idle", "sweep", "save"} /\ UnitOf[p] \in locked
  /\ \A p \in Path : left[p] = {}
  /\ pc = "release" => pass = "dedupe" \/ report.interrupted
FreshInv ==
  /\ report.begun = builds
  /\ \/ pc \in {"sweep", "plan"}
     \/ pc \in {"act", "stage", "clone", "finish", "copy", "held"} /\ ~report.applied
  => scan = Scan(locked)

\* In a dedupe pass, the inode that comes in for a group is that of no group, a group has
\* its inode for itself, what is shared from is not replaced, and the index knows it as
\* long as it is as it was; the paths done with have what comes in; ...
Deduping == pass = "dedupe" /\ pc \in {"act", "copy", "held", "rename", "link", "tell", "release"}
Incoming ==
  CASE pc = "held" -> temp[Min(job.action.member.paths)]
    [] pc = "rename" -> temp[NextPath]
    [] pc \in {"link", "tell"} -> name[Min(job.action.member.paths)]
    [] OTHER -> None
OwnInv ==
  \A a \in Acting :
    /\ Incoming # a.member.stamp.ino
    /\ \A p \in Path : temp[p] # a.member.stamp.ino
    /\ \A p \in Path : name[p] = a.member.stamp.ino =>
         IF job # None /\ a = job.action THEN p \in job.todo ELSE p \in a.member.paths
    /\ \A b \in Acting : a.source_stamp.ino # b.member.stamp.ino
    /\ Is(a.source_stamp) => Hit(index, a.source_stamp)
MidInv ==
  job # None =>
    /\ Hit(index, job.action.source_stamp)
    /\ \A p \in job.action.member.paths \ job.todo : name[p] = Incoming

\* ... and of two equal files one is shared, on its way in or to be replaced.
Underway(p) ==
  \/ \E a \in Acting : p \in a.member.paths
  \/ pc \in {"rename", "link", "tell"} /\ name[p] = Incoming
PairsInv ==
  \A p, q \in Path :
    InScope(p) /\ InScope(q) /\ Bytes(p) = Bytes(q) /\ name[p] # name[q] =>
      Shared(Stamp(p)) \/ Shared(Stamp(q)) \/ Underway(p) \/ Underway(q)

DoneInv ==
  Steady /\ ~MayFail /\ crashes = 0 =>
    /\ CleanInv /\ FreshInv
    /\ Deduping /\ Calm /\ device.how # "none" => OwnInv /\ MidInv /\ PairsInv

\* What every step keeps, on every device and on a steady one.
InductiveInv == IInv /\ LeftInv /\ SteadyInv /\ DoneInv

=============================================================================
