------------------------------ MODULE Guards ------------------------------
(***************************************************************************)
(* Compress under the guards other than cargo's own lock file (engine.rs). *)
(* Guard::Immutable: nobody locks a store, whose entries never get other   *)
(* bytes (eco/store.rs), or Go's module cache, whose dirs are read-only    *)
(* and are lifted for one batch (eco/go.rs).  Guard::Shared: one lock file *)
(* outside the units is for all of them, in the cargo home                 *)
(* (eco/cargo/home.rs) and for a SwiftPM scratch dir (eco/swiftpm.rs),     *)
(* whose lock is in the temp dir.  The run lock leaves one such run at a   *)
(* time; what it works beside are the tool and the user.                   *)
(***************************************************************************)
EXTENDS Integers, FiniteSets

CONSTANTS
    Dirs, Files, DirOf,
    Nobody,        \* no file
    Kinds,         \* where the run may work
    BatchSize,     \* COMPRESS_BATCH
    MaxVer,        \* bound on what the owner writes
    MaxTroubles    \* bound on kills and failing calls

ASSUME GuardsAssumption ==
    /\ IsFiniteSet(Files) /\ DirOf \in [Files -> Dirs] /\ Nobody \notin Files
    /\ Kinds \subseteq {"store", "modules", "home", "scratch"} /\ BatchSize \in Nat \ {0}
    /\ MaxVer \in Nat /\ MaxTroubles \in Nat

VARIABLES
    kind,          \* where the run works; it never changes
    file,          \* the lock file at its path, a number; 0 when there is none
    tool, inside,  \* the one its tool has open, and whether it has its lock
    mode,          \* of each dir
    there, ver,    \* the files, and a number for their stamp and their bytes
    old,           \* those whose mtime is an hour back
    packed,        \* those that are compressed
    open,          \* store entries their writer is not done with
    temps,         \* temp copies: of which file, and which bytes
    pc, cur, rest, \* the step of the run, the file it swaps, what a step still visits
    ours, asked, held,             \* the lock file the run has open, what it said, the units held
    todo, seen, stale,             \* of the scan
    staged, shrunk, lifted, unput, \* of the batch
    troubles,
    want,          \* ghost: the mode its owner last gave a dir
    left,          \* ghost: dirs a kill or a failing put-back left writable
    meddled,       \* ghost: dirs whose mode was changed under a batch or a leftover
    paused,        \* ghost: entries whose writer paused for an hour
    late, lost,    \* ghost: a write since the last look; files overwritten
    refused, told, \* ghost: a leftover ended a run; the dir a run complained of
    kept,          \* ghost: copies a run left that was cut short or could not remove them
    swept          \* ghost: the lock file was taken away while someone had it open

lock == <<file, tool, inside>>
cache == <<kind, lock, mode, there, ver, old, packed, open, temps>>
guard == <<ours, asked, held>>
scan == <<todo, seen, stale>>
batch == <<staged, shrunk, lifted, unput>>
run == <<pc, cur, rest, guard, scan, batch>>
ghosts == <<want, left, meddled, paused, late, lost, refused, told, kept, swept>>
vars == <<cache, run, troubles, ghosts>>

\* lifts_read_only_dirs
Lifts == kind = "modules"
\* Guard::Shared
Shared == kind \in {"home", "scratch"}

Modes == {"ro", "rw", "gone"}
Locks == 0 .. 3  \* a number is used again once nobody has the file
CopyType == [file : Files, ver : Nat]
Copy(f, v) == [file |-> f, ver |-> v]
In(d) == {f \in Files : DirOf[f] = d}

TypeOK ==
    /\ kind \in Kinds
    /\ mode \in [Dirs -> Modes] /\ want \in [Dirs -> {"ro", "rw"}]
    /\ ver \in [Files -> Nat] /\ seen \in [Files -> Nat]
    /\ there \subseteq Files /\ old \subseteq Files /\ packed \subseteq Files
    /\ open \subseteq Files /\ paused \subseteq Files /\ lost \subseteq Files
    /\ todo \subseteq Files /\ staged \subseteq Files /\ shrunk \subseteq Files
    /\ lifted \subseteq Dirs /\ unput \subseteq Dirs
    /\ left \subseteq Dirs /\ meddled \subseteq Dirs /\ told \subseteq Dirs
    /\ temps \subseteq CopyType /\ stale \subseteq CopyType /\ kept \subseteq CopyType
    /\ pc \in {"idle", "guard", "batch", "lift", "stage", "copy", "backend", "finish",
              "rename", "restore"}
    /\ cur \in Files \cup {Nobody}
    /\ rest \subseteq IF pc \in {"guard", "lift"} THEN Dirs ELSE Files
    /\ troubles \in Nat /\ late \in BOOLEAN /\ refused \in BOOLEAN
    /\ file \in Locks /\ tool \in Locks /\ ours \in Locks
    /\ inside \in BOOLEAN /\ swept \in BOOLEAN
    /\ asked \in {"no", "open", "held", "busy"} /\ held \subseteq Dirs

Init ==
    /\ kind \in Kinds
    /\ mode \in [Dirs -> IF Lifts THEN {"ro", "rw"} ELSE {"rw"}] /\ want = mode
    /\ there = IF Lifts THEN Files ELSE {}
    /\ ver = [f \in Files |-> IF Lifts THEN 1 ELSE 0] /\ seen = ver
    /\ old = {} /\ packed = {} /\ open = {} /\ temps = {}
    /\ pc = "idle" /\ cur = Nobody /\ rest = {}
    /\ todo = {} /\ stale = {} /\ staged = {} /\ shrunk = {} /\ lifted = {} /\ unput = {}
    /\ troubles = 0
    /\ left = {} /\ meddled = {} /\ paused = {} /\ late = FALSE /\ lost = {}
    /\ refused = FALSE /\ told = {} /\ kept = {}
    /\ file \in (IF Shared THEN {0, 1} ELSE {0}) /\ tool = 0 /\ inside = FALSE
    /\ ours = 0 /\ asked = "no" /\ held = {} /\ swept = FALSE

Trouble == troubles < MaxTroubles /\ troubles' = troubles + 1
Fine == UNCHANGED troubles
CanWrite(f) == mode[DirOf[f]] = "rw"

----------------------------------------------------------------------------
(* The tool that owns the cache, and the user.                             *)

\* Where there is a lock, its tool writes under it.
MayWrite == Shared => inside

NewFile == CHOOSE n \in Locks \ {0} : n \notin {file, tool, ours}
Opened == IF file = 0 THEN NewFile ELSE file

\* The tool opens the lock file, making it where there is none, ...
OpenTool ==
    /\ Shared /\ tool = 0
    /\ tool' = Opened /\ file' = Opened
    /\ UNCHANGED <<kind, inside, mode, there, ver, old, packed, open, temps, run, troubles, ghosts>>

\* ... waits for it, ...
LockTool ==
    /\ tool # 0 /\ ~inside /\ ~(asked = "held" /\ ours = tool)
    /\ inside' = TRUE
    /\ UNCHANGED <<kind, file, tool, mode, there, ver, old, packed, open, temps,
                   run, troubles, ghosts>>

\* ... and is done, or is killed half way.
CloseTool ==
    /\ inside /\ tool' = 0 /\ inside' = FALSE /\ open' = {}
    /\ UNCHANGED <<kind, file, mode, there, ver, old, packed, temps, run, troubles, ghosts>>

\* A cleaner takes the lock file.
SweepLock ==
    /\ file # 0 /\ file' = 0
    /\ swept' = (swept \/ file \in {tool, ours})
    /\ UNCHANGED <<kind, tool, inside, mode, there, ver, old, packed, open, temps, run, troubles,
                   want, left, meddled, paused, late, lost, refused, told, kept>>

\* The file has other bytes, or is another: its mtime is now.
Written(fs) ==
    /\ ver' = [f \in Files |-> IF f \in fs THEN ver[f] + 1 ELSE ver[f]]
    /\ old' = old \ fs /\ packed' = packed \ fs
    /\ late' = (late \/ (pc = "rename" /\ cur \in fs))

Begin(f) ==
    /\ ~Lifts /\ f \notin there /\ CanWrite(f) /\ MayWrite /\ ver[f] < MaxVer
    /\ there' = there \cup {f} /\ open' = open \cup {f} /\ Written({f})
    /\ UNCHANGED <<kind, lock, mode, temps, run, troubles,
                   want, left, meddled, paused, lost, refused, told, kept, swept>>

Append(f) ==
    /\ f \in open \cap there /\ MayWrite /\ ver[f] < MaxVer /\ Written({f})
    /\ UNCHANGED <<kind, lock, mode, there, open, temps, run, troubles,
                   want, left, meddled, paused, lost, refused, told, kept, swept>>

Close(f) ==
    /\ f \in open /\ open' = open \ {f}
    /\ UNCHANGED <<kind, lock, mode, there, ver, old, packed, temps, run, troubles, ghosts>>

\* An hour goes by, which nobody looks at where there is a lock.
Age(f) ==
    /\ ~Shared /\ f \in there \ old /\ old' = old \cup {f}
    /\ paused' = IF f \in open THEN paused \cup {f} ELSE paused
    /\ UNCHANGED <<kind, lock, mode, there, ver, packed, open, temps, run, troubles,
                   want, left, meddled, late, lost, refused, told, kept, swept>>

Trim(f) ==
    /\ ~Lifts /\ f \in there \ open /\ CanWrite(f) /\ MayWrite
    /\ there' = there \ {f} /\ old' = old \ {f} /\ packed' = packed \ {f}
    /\ UNCHANGED <<kind, lock, mode, ver, open, temps, run, troubles, ghosts>>

\* go clean -modcache
Clean(d) ==
    /\ Lifts /\ mode[d] # "gone"
    /\ mode' = [mode EXCEPT ![d] = "gone"]
    /\ there' = there \ In(d) /\ old' = old \ In(d) /\ packed' = packed \ In(d)
    /\ temps' = {t \in temps : DirOf[t.file] # d}
    /\ UNCHANGED <<kind, lock, ver, open, run, troubles, ghosts>>

\* A module is renamed into place, read-only.
Unpack(d) ==
    /\ Lifts /\ mode[d] = "gone" /\ \A f \in In(d) : ver[f] < MaxVer
    /\ mode' = [mode EXCEPT ![d] = "ro"] /\ want' = [want EXCEPT ![d] = "ro"]
    /\ there' = there \cup In(d) /\ Written(In(d))
    /\ left' = left \ {d}
    /\ UNCHANGED <<kind, lock, open, temps, run, troubles,
                   meddled, paused, lost, refused, told, kept, swept>>

Chmod(d, m) ==
    /\ Lifts /\ mode[d] \notin {"gone", m}
    /\ mode' = [mode EXCEPT ![d] = m] /\ want' = [want EXCEPT ![d] = m]
    /\ meddled' = IF d \in lifted \/ \E t \in temps : DirOf[t.file] = d
                  THEN meddled \cup {d} ELSE meddled
    /\ UNCHANGED <<kind, lock, there, ver, old, packed, open, temps, run, troubles,
                   left, paused, late, lost, refused, told, kept, swept>>

----------------------------------------------------------------------------
(* The run.                                                                *)

\* Of the cargo home, a lock file that is not there is an error.
Look ==
    /\ pc = "idle" /\ Shared /\ (kind = "home" => file # 0)
    /\ pc' = "guard" /\ rest' = Dirs
    /\ UNCHANGED <<cache, cur, guard, scan, batch, troubles, ghosts>>

\* try_guard, for the first unit.
OpenLock ==
    /\ pc = "guard" /\ rest # {} /\ asked = "no"
    /\ ours' = Opened /\ file' = Opened /\ asked' = "open"
    /\ UNCHANGED <<kind, tool, inside, mode, there, ver, old, packed, open, temps, pc, cur, rest,
                   held, scan, batch, troubles, ghosts>>

Busy == inside /\ tool = ours

TryLock ==
    /\ pc = "guard" /\ asked = "open"
    /\ asked' = (IF Busy THEN "busy" ELSE "held")
    /\ ours' = (IF Busy THEN 0 ELSE ours)
    /\ UNCHANGED <<cache, pc, cur, rest, held, scan, batch, troubles, ghosts>>

\* Mutant of Granted: each unit asks for itself, and meets the lock the run has.
GrantedAgain(d) == asked = "held" /\ held = {}

\* A shared guard is tried once.
Granted(d) == asked = "held"

TakeUnit(d) ==
    /\ pc = "guard" /\ d \in rest /\ asked \in {"held", "busy"}
    /\ rest' = rest \ {d} /\ held' = (IF Granted(d) THEN held \cup {d} ELSE held)
    /\ UNCHANGED <<cache, pc, cur, ours, asked, scan, batch, troubles, ghosts>>

\* The units the run is in.
Units == IF Shared THEN held ELSE Dirs

\* Mutant of Candidates: no age floor.
AnyAge == {f \in there \ packed : DirOf[f] \in Units}

\* What compress plans, its own min-age set to nothing, of a scan that in a unit
\* nobody locks leaves out what is under an hour all the same.
Candidates == {f \in there \ packed : DirOf[f] \in Units /\ (Shared \/ f \in old)}

Scan ==
    /\ IF Shared THEN pc = "guard" /\ rest = {} ELSE pc = "idle"
    /\ pc' = "batch"
    /\ todo' = Candidates /\ seen' = ver /\ stale' = {t \in temps : DirOf[t.file] \in Units}
    /\ told' = {} /\ kept' = {t \in kept : DirOf[t.file] \notin Units}
    /\ UNCHANGED <<cache, cur, rest, guard, batch, troubles,
                   want, left, meddled, paused, late, lost, refused, swept>>

Gone == todo' = {} /\ stale' = {} /\ staged' = {} /\ shrunk' = {} /\ unput' = {}
        /\ lifted' = {} /\ rest' = {} /\ cur' = Nobody /\ pc' = "idle"
        /\ seen' = [f \in Files |-> 0] /\ ours' = 0 /\ asked' = "no" /\ held' = {}

\* A temp that cannot be removed, or is no longer there, ends the run.
Sweep(t) ==
    /\ pc = "batch" /\ t \in stale
    /\ \/ /\ t \in temps /\ CanWrite(t.file) /\ Fine
          /\ temps' = temps \ {t} /\ stale' = stale \ {t}
          /\ UNCHANGED <<pc, cur, rest, guard, todo, seen, batch, refused, kept>>
       \/ /\ IF t \in temps /\ CanWrite(t.file) THEN Trouble ELSE Fine
          /\ Gone /\ kept' = kept \cup (temps \cap stale) /\ UNCHANGED temps
          /\ refused' = (refused \/ (t \in temps /\ ~CanWrite(t.file)))
    /\ UNCHANGED <<kind, lock, mode, there, ver, old, packed, open,
                   want, left, meddled, paused, late, lost, told, swept>>

\* Mutant of ToLift: all that will be needed is lifted at once.
LiftAll(fs) == {DirOf[f] : f \in todo}

\* A file here has one name, so no more dirs than files; the code lifts the parents of
\* every name a file has among the units.
ToLift(fs) == {DirOf[f] : f \in fs}

\* A run that is stopped or out of budget stops here too.
NextBatch(fs) ==
    /\ pc = "batch" /\ stale = {} /\ fs \subseteq todo /\ fs # {}
    /\ Cardinality(fs) <= BatchSize /\ (Cardinality(fs) = BatchSize \/ fs = todo)
    /\ todo' = todo \ fs /\ staged' = fs /\ shrunk' = {} /\ unput' = {}
    /\ IF Lifts THEN pc' = "lift" /\ rest' = ToLift(fs)
                ELSE pc' = "stage" /\ rest' = fs
    /\ UNCHANGED <<cache, cur, guard, seen, stale, lifted, troubles, ghosts>>

End ==
    /\ pc = "batch" /\ stale = {} /\ Gone
    /\ UNCHANGED <<cache, troubles, ghosts>>

\* A dir that cannot be lifted is left as it is.
Lift(d) ==
    /\ pc = "lift" /\ d \in rest
    /\ \/ /\ mode[d] = "ro" /\ Fine
          /\ mode' = [mode EXCEPT ![d] = "rw"] /\ lifted' = lifted \cup {d}
       \/ mode[d] = "ro" /\ Trouble /\ UNCHANGED <<kind, lock, mode, lifted>>
       \/ mode[d] # "ro" /\ Fine /\ UNCHANGED <<kind, lock, mode, lifted>>
    /\ IF rest = {d} THEN pc' = "stage" /\ rest' = staged
                     ELSE rest' = rest \ {d} /\ UNCHANGED pc
    /\ UNCHANGED <<kind, lock, there, ver, old, packed, open, temps, cur, guard, scan,
                   staged, shrunk, unput, ghosts>>

\* check_group: the file is the one that was scanned.
Unchanged(f) == f \in there /\ ver[f] = seen[f]

\* stage_copy: the check, ...
Stage(f) ==
    /\ pc = "stage" /\ f \in rest
    /\ \/ Unchanged(f) /\ Fine /\ pc' = "copy" /\ cur' = f /\ UNCHANGED <<rest, staged>>
       \/ /\ IF Unchanged(f) THEN Trouble ELSE Fine
          /\ staged' = staged \ {f} /\ rest' = rest \ {f}
          /\ pc' = (IF rest' = {} THEN "backend" ELSE pc) /\ UNCHANGED cur
    /\ UNCHANGED <<cache, guard, scan, shrunk, lifted, unput, ghosts>>

\* ... and the copy, of what the file is by then.  What a failing copy leaves is
\* removed, or cannot be, which nobody tells.
CloneAs ==
    LET f == cur
        made == {Copy(f, ver[f])} IN
    /\ pc = "copy"
    /\ \/ /\ f \in there /\ CanWrite(f) /\ Fine
          /\ temps' = temps \cup made /\ UNCHANGED <<staged, kept>>
       \/ /\ f \notin there \/ ~CanWrite(f)
          /\ staged' = staged \ {f} /\ Fine /\ UNCHANGED <<temps, kept>>
       \/ /\ f \in there /\ CanWrite(f) /\ Trouble /\ staged' = staged \ {f}
          /\ \/ UNCHANGED <<temps, kept>>
             \/ temps' = temps \cup made /\ kept' = kept \cup made
    /\ rest' = rest \ {f} /\ cur' = Nobody
    /\ pc' = IF rest' = {} THEN "backend" ELSE "stage"
    /\ UNCHANGED <<kind, lock, mode, there, ver, old, packed, open, guard, scan,
                   shrunk, lifted, unput,
                   want, left, meddled, paused, late, lost, refused, told, swept>>

\* Mutant of After: a batch that swapped its last file in is done.
AfterHasty(files) == IF files # {} THEN "finish" ELSE "batch"

After(files) == IF files # {} THEN "finish" ELSE IF lifted # {} THEN "restore" ELSE "batch"

Backend(fs) ==
    /\ pc = "backend" /\ fs \subseteq staged
    /\ shrunk' = fs /\ rest' = staged /\ pc' = After(staged)
    /\ UNCHANGED <<cache, cur, guard, scan, staged, lifted, unput, troubles, ghosts>>

CopyOf(f) == {t \in temps : t.file = f}

\* Mutant of Dropped: a copy that is of no use is forgotten.
Forgotten(f) == {}

\* What finish_compress removes of a copy it does not swap in.
Dropped(f) == CopyOf(f)

\* The copy is removed, because it is of no use or a call failed, or cannot be, which
\* nobody tells.
Drop(f, useless) ==
    /\ \/ /\ IF useless THEN Fine ELSE Trouble
          /\ temps' = (IF CanWrite(f) THEN temps \ Dropped(f) ELSE temps) /\ UNCHANGED kept
       \/ Trouble /\ kept' = kept \cup CopyOf(f) /\ UNCHANGED temps
    /\ rest' = rest \ {f} /\ pc' = After(rest') /\ cur' = Nobody

\* Mutant of Steady: nothing is looked at again.
NotAsked(f) == TRUE

\* The backend took its time: the file is looked at once more.
Steady(f) == Unchanged(f)

\* try_finish_compress, up to the swap.
Finish(f) ==
    LET useful == f \in shrunk /\ CopyOf(f) # {} /\ Steady(f) IN
    /\ pc = "finish" /\ f \in rest
    /\ \/ /\ useful /\ Fine /\ pc' = "rename" /\ cur' = f /\ late' = FALSE
          /\ UNCHANGED <<temps, rest, kept>>
       \/ Drop(f, ~useful) /\ UNCHANGED late
    /\ UNCHANGED <<kind, lock, mode, there, ver, old, packed, open, guard, scan, batch,
                   want, left, meddled, paused, lost, refused, told, swept>>

\* rename_over; the mtime is the member's.
Rename ==
    LET f == cur IN
    /\ pc = "rename"
    /\ \/ \E t \in CopyOf(f) :
            /\ CanWrite(f) /\ Fine
            /\ ver' = [ver EXCEPT ![f] = t.ver] /\ there' = there \cup {f}
            /\ old' = old \cup {f} /\ packed' = packed \cup {f}
            /\ lost' = IF f \in there /\ ver[f] # t.ver THEN lost \cup {f} ELSE lost
            /\ temps' = temps \ {t} /\ UNCHANGED kept
            /\ rest' = rest \ {f} /\ pc' = After(rest') /\ cur' = Nobody
       \/ /\ Drop(f, CopyOf(f) = {} \/ ~CanWrite(f))
          /\ UNCHANGED <<there, ver, old, packed, lost>>
    /\ UNCHANGED <<kind, lock, mode, open, guard, scan, batch,
                   want, left, meddled, paused, late, refused, told, swept>>

\* Every dir is put back before the first failure is told.  A put-back fails for a
\* dir that is gone, or for any other reason.
PutBack(d) ==
    /\ pc = "restore" /\ d \in lifted
    /\ \/ /\ mode[d] # "gone" /\ Fine
          /\ mode' = [mode EXCEPT ![d] = "ro"] /\ lifted' = lifted \ {d}
          /\ UNCHANGED <<unput, left>>
       \/ /\ IF mode[d] = "gone" THEN Fine /\ UNCHANGED left
                               ELSE Trouble /\ left' = left \cup {d}
          /\ unput' = unput \cup {d}
          /\ lifted' = lifted \ {d} /\ UNCHANGED mode
    /\ UNCHANGED <<kind, lock, there, ver, old, packed, open, temps, pc, cur, rest, guard, scan,
                   staged, shrunk,
                   want, meddled, paused, late, lost, refused, told, kept, swept>>

BatchDone ==
    /\ pc = "restore" /\ lifted = {} /\ Fine
    /\ IF unput = {} THEN /\ pc' = "batch"
                          /\ UNCHANGED <<cur, rest, guard, scan, batch, told>>
                     ELSE Gone /\ \E d \in unput : told' = {d}
    /\ UNCHANGED <<cache, want, left, meddled, paused, late, lost, refused, kept, swept>>

Kill ==
    /\ pc # "idle" /\ Trouble /\ Gone
    /\ left' = left \cup lifted /\ kept' = temps
    /\ UNCHANGED <<cache, want, meddled, paused, late, lost, refused, told, swept>>

Owner ==
    \/ \E f \in Files : Begin(f) \/ Append(f) \/ Close(f) \/ Age(f) \/ Trim(f)
    \/ OpenTool \/ LockTool \/ CloseTool \/ SweepLock
    \/ \E d \in Dirs : Clean(d) \/ Unpack(d) \/ \E m \in {"ro", "rw"} : Chmod(d, m)

Step ==
    \/ Look \/ OpenLock \/ TryLock \/ Scan \/ End \/ CloneAs \/ Rename \/ BatchDone
    \/ \E t \in stale : Sweep(t)
    \/ \E fs \in SUBSET Files : NextBatch(fs) \/ Backend(fs)
    \/ \E f \in Files : Stage(f) \/ Finish(f)
    \/ \E d \in Dirs : TakeUnit(d) \/ Lift(d) \/ PutBack(d)

Next == Owner \/ Step \/ Kill

Spec == Init /\ [][Next]_vars

----------------------------------------------------------------------------
(* Properties.                                                             *)

Astray == {d \in Dirs \ meddled : mode[d] \notin {"gone", want[d]}}

\* A dir is as its owner left it, but while a batch has it lifted, and after a kill
\* or a put-back that failed (apply_compress; DESIGN.md:741).
OnlyThoseLeft == Astray \subseteq lifted \cup left

\* Each kill, and each failing call, leaves the dirs of one batch writable at most,
\* whose files have one name each (apply_compress lifts per batch; DESIGN.md:741).
OneBatchAtMost == pc = "idle" => Cardinality(Astray) <= BatchSize * troubles

\* Between runs no copy lies in a cache but in a dir whose mode the user changed under
\* it, and those that the last run there was cut short over or could not remove: what
\* earlier runs left it swept, what it made itself it swapped in or removed
\* (finish_compress, run_with).
NothingLeftBehind ==
    pc = "idle" => \A t \in temps : DirOf[t.file] \in meddled \/ t \in kept

\* A write is overwritten only when it comes between the last look and the rename
\* (try_finish_compress).
LossInWindow == [][late \/ lost' = lost]_vars

\* Units under one shared guard are all in or all out (run, engine.rs:298); where
\* nobody takes the lock file away, the tool and the run are never both at work, and
\* nothing the tool wrote is overwritten.
SharedApart ==
    Shared =>
        /\ pc \notin {"idle", "guard"} => held = IF asked = "held" THEN Dirs ELSE {}
        /\ ~swept => (inside => asked # "held") /\ lost = {}

\* Where nobody locks, what a run swaps over a file is over one that was not written
\* for an hour, and that its writer was done with or paused over for that hour, unless
\* it was written between the last look and the rename (scan_all, check_group).
FloorKept ==
    [][\A f \in packed' \ packed :
            ~Shared /\ f \in there /\ ~late => f \in old /\ (f \in open => f \in paused)]_vars

\* What the run has yet to copy, and what it has a copy of that it will still finish.
Coming == todo \cup CASE pc = "lift" -> staged [] pc \in {"stage", "copy"} -> rest [] OTHER -> {}
InHand == CASE pc \in {"stage", "copy"} -> staged \ rest [] pc = "backend" -> staged
            [] pc \in {"finish", "rename"} -> rest [] OTHER -> {}

\* What the theorems of Guards_proofs rest on: where the run is, ...
RunInv ==
    /\ pc \in {"idle", "guard", "batch"} => lifted = {}
    /\ pc \in {"idle", "guard"} => staged = {} /\ todo = {}
    /\ pc # "batch" => stale = {}
    /\ todo \cap staged = {}
    /\ pc \in {"stage", "copy", "finish", "rename"} => rest \subseteq staged
    /\ IF pc \in {"copy", "rename"} THEN cur \in rest ELSE cur = Nobody

\* ... who has which lock file open, and which units are the run's for it, ...
GuardInv ==
    /\ inside => tool # 0
    /\ asked \in {"open", "held"} <=> ours # 0
    /\ pc = "idle" => asked = "no" /\ held = {}
    /\ asked \in {"no", "open"} => held = {} /\ (pc = "guard" => rest = Dirs)
    /\ pc = "guard" => held = IF asked = "held" THEN Dirs \ rest ELSE {}
    /\ Shared /\ pc \notin {"idle", "guard"} => held = IF asked = "held" THEN Dirs ELSE {}
    /\ Shared /\ held = {} => todo = {} /\ staged = {}
    /\ ~swept => /\ tool \in {0, file} /\ ours \in {0, file}
                 /\ inside => asked # "held"
    /\ Shared /\ ~swept => ~late /\ lost = {}

\* ... that what is put back is what the owner wants, ...
ModeInv ==
    /\ \A d \in lifted : want[d] = "ro" \/ d \in meddled
    /\ \A d \in Dirs : mode[d] = "ro" => want[d] = "ro" \/ d \in meddled

\* ... that a file with the stamp of the scan has not been written since, ...
SeenInv ==
    /\ \A f \in (old \ packed) \cap open : f \in paused
    /\ \A f \in Coming \cup InHand :
          /\ seen[f] <= ver[f]
          /\ ~Shared /\ f \in there /\ seen[f] = ver[f] => f \in old /\ (f \in open => f \in paused)

\* ... that a file in hand has one copy, of what it was since the scan, and is as it was
\* scanned when it is swapped over, unless it was written since the last look, ...
CopyInv ==
    /\ \A t \in temps \ stale :
          /\ t.file \notin Coming
          /\ t.file \in InHand =>
                /\ seen[t.file] <= t.ver /\ t.ver <= ver[t.file]
                /\ \A s \in temps : s.file = t.file => s = t
    /\ pc = "rename" /\ ~late => ver[cur] = seen[cur]

\* ... that the dirs of one batch are lifted at a time, and left by one trouble, ...
LiftInv ==
    /\ IsFiniteSet(lifted) /\ Cardinality(lifted) <= BatchSize
    /\ pc = "lift" => lifted \cup rest \subseteq ToLift(staged)
                      /\ Cardinality(staged) <= BatchSize
    /\ IsFiniteSet(left) /\ Cardinality(left) <= BatchSize * troubles

\* ... and that a copy is one to be swept, one of a file in hand that can be removed, or
\* one that was left.
LeftoverInv ==
    \A t \in temps :
        \/ DirOf[t.file] \in meddled \/ t \in kept \cup stale
        \/ t.file \in InHand /\ mode[DirOf[t.file]] = "rw"

IInv ==
    TypeOK /\ RunInv /\ GuardInv /\ ModeInv /\ SeenInv /\ CopyInv /\ LiftInv /\ LeftoverInv
        /\ OnlyThoseLeft

\* home.rs:6: "What guards it is cargo's own `.package-cache`"; a run makes a lock file
\* that a temp dir cleaner took (engine.rs:264), and then there may be two.
LockGuards == ~(inside /\ asked = "held")

\* model.rs:14: "Leftovers of a crashed run are removed by the next one."
LeftoversGo == ~refused

\* engine.rs:702: "A dir left writable is what its tool set out to prevent: the run
\* stops and says where."
StopsOverWritable == [][told' \in {told, {}} \/ \E d \in told' : mode[d] = "rw"]_vars
=============================================================================
