------------------------------- MODULE Probe -------------------------------
(***************************************************************************)
(* What a file system can do is found out by trying it on files in one of  *)
(* its dirs (sys/unix.rs), and the first dir asked about answers for its   *)
(* device.  A probe puts the dir's mtime back, which tells when a build    *)
(* last worked there.  The inventory asks before any lock is taken, and    *)
(* status, which takes none, asks beside runs and builds.                  *)
(***************************************************************************)
EXTENDS Integers

CONSTANTS
    Procs,        \* processes of the tool
    Runner,       \* those that have the run lock: one at most
    Builds,       \* builds, each with the lock of one unit
    None,         \* nobody; no probe
    Dirs,         \* dirs a probe may be in
    Units,        \* profile dirs
    UnitOf,       \* the unit of each dir that is a top-level entry of one
    Early,        \* where an inventory asks: a target, or the dir of the
                  \* first file of its scan
    Writable,     \* the dirs this user may make files in
    Devices, DeviceOf,
    Can,          \* what each file system can do
    MaxClock,     \* bound on time
    MaxTroubles   \* bound on kills and failing calls

AllCaps == {"clone", "compress"}
Unknown == {"not asked yet"}
Entries == DOMAIN UnitOf

Steps == {"stat", "write", "clone", "remove", "restore"}
ProbeType == [dir : Dirs, step : Steps, before : Int, found : SUBSET AllCaps]

ASSUME ProbeAssumption ==
    /\ Runner \subseteq Procs /\ Units \subseteq Dirs /\ Early \subseteq Dirs
    /\ Writable \subseteq Dirs
    /\ Entries \subseteq Dirs \ Units /\ UnitOf \in [Entries -> Units]
    /\ DeviceOf \in [Dirs -> Devices] /\ Can \in [Devices -> SUBSET AllCaps]
    /\ MaxClock \in Nat /\ MaxTroubles \in Nat
    /\ None \notin Procs \cup Builds \cup ProbeType
    /\ Procs \cap Builds = {}
    /\ \A p, q \in Runner : p = q

VARIABLES
    clock, troubles,
    mtime,        \* of each dir
    files,        \* probe files: where, whose, and whether he still runs
    lock,         \* of each unit: the process or the build that has it
    pc,           \* of each process
    probe,        \* the probe each process is at
    cache,        \* what each process knows of each device
    temps,        \* what the scan of a run has found to sweep
    built,        \* ghost: when a build last made or removed a file in a dir
    marred,       \* ghost: dirs where a kill or a failing call met a probe
    met,          \* ghost: dirs two probes were in at once
    failed        \* ghost: a run ended over a file it could not sweep

procVars == <<pc, probe, cache, temps>>
ghosts == <<built, marred, met, failed>>
vars == <<clock, troubles, mtime, files, lock, procVars, ghosts>>

FileType == [dir : Dirs, by : Procs, kind : {"source", "copy"}, live : BOOLEAN]

TypeOK ==
    /\ clock \in Nat /\ troubles \in Nat
    /\ mtime \in [Dirs -> Int]
    /\ files \subseteq FileType
    /\ lock \in [Units -> Procs \cup Builds \cup {None}]
    /\ pc \in [Procs -> {"idle", "inventory", "guarded", "sweeping", "locked"}]
    /\ probe \in [Procs -> ProbeType \cup {None}]
    /\ cache \in [Procs -> [Devices -> (SUBSET AllCaps) \cup {Unknown}]]
    /\ temps \in [Procs -> SUBSET FileType]
    /\ built \in [Entries -> Int]
    /\ marred \subseteq Dirs /\ met \subseteq Dirs
    /\ failed \in BOOLEAN

Unasked == [e \in Devices |-> Unknown]

Init ==
    /\ clock = 1 /\ troubles = 0
    /\ mtime = [d \in Dirs |-> 0]
    /\ files = {}
    /\ lock = [u \in Units |-> None]
    /\ pc = [p \in Procs |-> "idle"]
    /\ probe = [p \in Procs |-> None]
    /\ cache = [p \in Procs |-> Unasked]
    /\ temps = [p \in Procs |-> {}]
    /\ built = [d \in Entries |-> 0]
    /\ marred = {} /\ met = {} /\ failed = FALSE

At(p, step) == probe[p] # None /\ probe[p].step = step
Goto(p, step) == probe' = [probe EXCEPT ![p].step = step]
Mine(p) == {f \in files : f.by = p /\ f.live}
\* Whether its process still runs or not, a file goes by its name: a process may
\* have the number of one that is gone.
Same(f, g) == f.dir = g.dir /\ f.by = g.by /\ f.kind = g.kind
Put(f) == {g \in files : ~Same(f, g)} \cup {f}
\* What a process leaves when it ends.
Orphaned(p) == (files \ Mine(p)) \cup {[f EXCEPT !.live = FALSE] : f \in Mine(p)}
Touched(d) == mtime' = [mtime EXCEPT ![d] = clock]
Free(p) == [u \in Units |-> IF lock[u] = p THEN None ELSE lock[u]]
File(p, kind) == [dir |-> probe[p].dir, by |-> p, kind |-> kind, live |-> TRUE]

----------------------------------------------------------------------------
(* A probe.                                                                *)

\* One answer per device is kept.
Known(p, d) == cache[p][DeviceOf[d]] # Unknown

\* What probe_with finds, the source being there or not.
Answer(p, written) ==
    IF written THEN Can[DeviceOf[probe[p].dir]] ELSE {}

Others(p, d) == {q \in Procs \ {p} : probe[q] # None /\ probe[q].dir = d}

Ask(p, d) ==
    /\ probe[p] = None
    /\ \/ pc[p] = "inventory" /\ d \in Early
       \/ pc[p] = "locked" /\ d \in Units /\ lock[d] = p
    /\ ~Known(p, d)
    /\ probe' = [probe EXCEPT ![p] =
                    [dir |-> d, step |-> "stat", before |-> 0, found |-> {}]]
    /\ met' = IF Others(p, d) = {} THEN met ELSE met \cup {d}
    /\ UNCHANGED <<clock, troubles, mtime, files, lock, pc, cache, temps,
                   built, marred, failed>>

Stat(p) ==
    /\ At(p, "stat")
    /\ probe' = [probe EXCEPT ![p].before = mtime[probe[p].dir], ![p].step = "write"]
    /\ UNCHANGED <<clock, troubles, mtime, files, lock, pc, cache, temps, ghosts>>

\* A dir this user cannot write to answers like a file system that can do nothing.
Write(p) ==
    /\ At(p, "write")
    /\ IF probe[p].dir \in Writable
       THEN /\ files' = Put(File(p, "source"))
            /\ Touched(probe[p].dir)
            /\ Goto(p, "clone")
       ELSE Goto(p, "restore") /\ UNCHANGED <<files, mtime>>
    /\ UNCHANGED <<clock, troubles, lock, pc, cache, temps, ghosts>>

\* The copy is made before the call that may refuse to share its blocks.
Clone(p) ==
    /\ At(p, "clone")
    /\ LET there == File(p, "source") \in files
       IN  /\ probe' = [probe EXCEPT ![p].found = Answer(p, there), ![p].step = "remove"]
           /\ IF there
              THEN files' = Put(File(p, "copy")) /\ Touched(probe[p].dir)
              ELSE UNCHANGED <<files, mtime>>
    /\ UNCHANGED <<clock, troubles, lock, pc, cache, temps, ghosts>>

\* Mutant of Own: whatever has the prefix goes.
OwnByPrefix(p) == {f \in files : f.dir = probe[p].dir}

\* The files of this very probe.
Own(p) == {f \in Mine(p) : f.dir = probe[p].dir}

\* One that cannot be removed stays, and nobody is told.
RemoveProbe(p) ==
    /\ At(p, "remove")
    /\ \E gone \in SUBSET Own(p) :
          /\ \/ gone = Own(p) /\ troubles' = troubles
             \/ gone # Own(p) /\ troubles < MaxTroubles /\ troubles' = troubles + 1
          /\ files' = files \ gone
          /\ IF gone # {} THEN Touched(probe[p].dir) ELSE UNCHANGED mtime
    /\ Goto(p, "restore")
    /\ UNCHANGED <<clock, lock, pc, cache, temps, ghosts>>

\* Mutant of PutBack: the dir gets the time of now.
PutBackNow(p) == [mtime EXCEPT ![probe[p].dir] = clock]

\* Mutant of PutBack: the dir stays as the probe left it.
PutBackNot(p) == mtime

\* What it was before is put back, whatever happened there since.
PutBack(p) == [mtime EXCEPT ![probe[p].dir] = probe[p].before]

Restore(p) ==
    /\ At(p, "restore")
    /\ mtime' = PutBack(p)
    /\ cache' = [cache EXCEPT ![p][DeviceOf[probe[p].dir]] = probe[p].found]
    /\ probe' = [probe EXCEPT ![p] = None]
    /\ UNCHANGED <<clock, troubles, files, lock, pc, temps, ghosts>>

\* The mtime of a dir that belongs to another user cannot be set: nobody is told.
RestoreFails(p) ==
    /\ At(p, "restore") /\ troubles < MaxTroubles
    /\ troubles' = troubles + 1
    /\ marred' = marred \cup {probe[p].dir}
    /\ cache' = [cache EXCEPT ![p][DeviceOf[probe[p].dir]] = probe[p].found]
    /\ probe' = [probe EXCEPT ![p] = None]
    /\ UNCHANGED <<clock, mtime, files, lock, pc, temps, built, met, failed>>

----------------------------------------------------------------------------
(* A process: an inventory and, in a run, units under their locks.         *)

Start(p) ==
    /\ pc[p] = "idle"
    /\ pc' = [pc EXCEPT ![p] = "inventory"]
    /\ UNCHANGED <<clock, troubles, mtime, files, lock, probe, cache, temps, ghosts>>

\* An answer lives as long as its process: a daemon's from session to session.
Finish(p) ==
    /\ pc[p] = "inventory" /\ probe[p] = None
    /\ pc' = [pc EXCEPT ![p] = "idle"]
    /\ \/ UNCHANGED <<cache, files>>
       \/ cache' = [cache EXCEPT ![p] = Unasked] /\ files' = Orphaned(p)
    /\ UNCHANGED <<clock, troubles, mtime, lock, probe, temps, ghosts>>

TakeLock(p, u) ==
    /\ pc[p] = "inventory" /\ probe[p] = None /\ p \in Runner
    /\ lock[u] = None
    /\ lock' = [lock EXCEPT ![u] = p]
    /\ pc' = [pc EXCEPT ![p] = "guarded"]
    /\ UNCHANGED <<clock, troubles, mtime, files, probe, cache, temps, ghosts>>

\* The scan of a unit takes every file with the prefix for one a kill left.
Within(u) == {u} \cup {d \in Entries : UnitOf[d] = u}
\* Mutant of TempsIn: the scan does not go down.
TempsAtTop(u) == {f \in files : f.dir = u}
TempsIn(u) == {f \in files : f.dir \in Within(u)}

Scan(p, u) ==
    /\ pc[p] = "guarded" /\ lock[u] = p
    /\ temps' = [temps EXCEPT ![p] = TempsIn(u)]
    /\ pc' = [pc EXCEPT ![p] = "sweeping"]
    /\ UNCHANGED <<clock, troubles, mtime, files, lock, probe, cache, ghosts>>

Sweep(p, f) ==
    /\ pc[p] = "sweeping" /\ f \in temps[p]
    /\ \E g \in files : Same(f, g)
    /\ files' = {g \in files : ~Same(f, g)}
    /\ Touched(f.dir)
    /\ temps' = [temps EXCEPT ![p] = {g \in @ : ~Same(f, g)}]
    /\ UNCHANGED <<clock, troubles, lock, pc, probe, cache, built, met, failed>>
    /\ marred' = marred \cup {f.dir}

Swept(p) ==
    /\ pc[p] = "sweeping" /\ temps[p] = {}
    /\ pc' = [pc EXCEPT ![p] = "locked"]
    /\ UNCHANGED <<clock, troubles, mtime, files, lock, probe, cache, temps, ghosts>>

\* A file that has gone by itself is an error, and ends the session.
SweepFails(p, f) ==
    /\ pc[p] = "sweeping" /\ f \in temps[p]
    /\ \A g \in files : ~Same(f, g)
    /\ failed' = TRUE
    /\ pc' = [pc EXCEPT ![p] = "idle"]
    /\ lock' = Free(p)
    /\ temps' = [temps EXCEPT ![p] = {}]
    /\ UNCHANGED <<clock, troubles, mtime, files, probe, cache, built, marred, met>>

Release(p) ==
    /\ pc[p] = "locked" /\ probe[p] = None
    /\ pc' = [pc EXCEPT ![p] = "inventory"]
    /\ lock' = Free(p)
    /\ UNCHANGED <<clock, troubles, mtime, files, probe, cache, temps, ghosts>>

\* Its files stay, and the mtime they moved.
Kill(p) ==
    /\ pc[p] # "idle" /\ troubles < MaxTroubles
    /\ troubles' = troubles + 1
    /\ files' = Orphaned(p)
    /\ marred' = IF probe[p] = None THEN marred ELSE marred \cup {probe[p].dir}
    /\ lock' = Free(p)
    /\ pc' = [pc EXCEPT ![p] = "idle"]
    /\ probe' = [probe EXCEPT ![p] = None]
    /\ cache' = [cache EXCEPT ![p] = Unasked]
    /\ temps' = [temps EXCEPT ![p] = {}]
    /\ UNCHANGED <<clock, mtime, built, met, failed>>

----------------------------------------------------------------------------
(* Builds, and time.                                                       *)

BuildBegins(b, u) ==
    /\ lock[u] = None /\ \A v \in Units : lock[v] # b
    /\ lock' = [lock EXCEPT ![u] = b]
    /\ UNCHANGED <<clock, troubles, mtime, files, procVars, ghosts>>

BuildWrites(b, d) ==
    /\ lock[UnitOf[d]] = b
    /\ Touched(d)
    /\ built' = [built EXCEPT ![d] = clock]
    /\ UNCHANGED <<clock, troubles, files, lock, procVars, marred, met, failed>>

BuildEnds(b, u) ==
    /\ lock[u] = b
    /\ lock' = [lock EXCEPT ![u] = None]
    /\ UNCHANGED <<clock, troubles, mtime, files, procVars, ghosts>>

Tick ==
    /\ clock < MaxClock
    /\ clock' = clock + 1
    /\ UNCHANGED <<troubles, mtime, files, lock, procVars, ghosts>>

Probing(p) ==
    \/ \E d \in Dirs : Ask(p, d)
    \/ Stat(p) \/ Write(p) \/ Clone(p) \/ RemoveProbe(p) \/ Restore(p) \/ RestoreFails(p)

Working(p) ==
    \/ Start(p) \/ Finish(p) \/ Swept(p) \/ Release(p)
    \/ \E u \in Units : TakeLock(p, u) \/ Scan(p, u)
    \/ \E f \in temps[p] : Sweep(p, f) \/ SweepFails(p, f)

Building(b) ==
    \/ \E u \in Units : BuildBegins(b, u) \/ BuildEnds(b, u)
    \/ \E d \in Entries : BuildWrites(b, d)

Next ==
    \/ \E p \in Procs : Probing(p) \/ Working(p) \/ Kill(p)
    \/ \E b \in Builds : Building(b)
    \/ Tick

Spec == Init /\ [][Next]_vars

----------------------------------------------------------------------------
(* What must hold.                                                         *)

\* What runs left in a unit, killed or unable to remove it, waits for the run that
\* sweeps it: only the file of a process that has no run lock can be gone by then,
\* and end the session (engine.rs, run_with; sys/mod.rs, probe_path).
LeftFilesStay ==
    \A p \in Procs : \A f \in temps[p] : f.by \in Runner => \E g \in files : Same(f, g)

\* An idle profile still looks idle after a probe: no entry of it is newer than
\* the last build made it (sys/mod.rs, probing_in).  A kill, a call that fails and
\* a sweep move the mtime of a dir, as any removal does.
Idle(d) == (\A p \in Procs : probe[p] = None \/ probe[p].dir # d) => mtime[d] <= built[d]
IdleStaysIdle == \A d \in Entries \ marred : Idle(d)

\* Where no two processes probe one dir at once.
IdleUnlessMet == \A d \in Entries \ (marred \cup met) : Idle(d)

\* What a killed run left in a unit is gone once the next is at work there
\* (sys/mod.rs, probe_path; engine.rs, run_with).
UnitsSwept ==
    \A p \in Procs, u \in Units :
        pc[p] = "locked" /\ lock[u] = p =>
            \A f \in files : f.dir \in Within(u) => f.live \/ f.by \notin Runner

\* The same of all dirs, there being one unit: "one left behind by a kill is swept by the next run like
\* any other temp" (sys/mod.rs).
AllSwept ==
    \A p \in Procs : pc[p] = "locked" => \A f \in files : f.live

\* An entry is as new as the last build made it: "When cargo last worked in a
\* profile dir: the newest mtime among its top-level entries" (eco/cargo/mod.rs).
BuildsShow == \A d \in Entries : mtime[d] >= built[d]

\* The answer is the file system's: "It is a question about a filesystem"
\* (sys/mod.rs).
FilesystemAnswers ==
    \A p \in Procs, e \in Devices : cache[p][e] # Unknown => cache[p][e] = Can[e]

\* A status beside a run never ends it: it "takes no locks and changes nothing"
\* (DESIGN.md).
RunsGoOn == ~failed

\* Why: a probe holds the mtime from before it, or another probes beside it and that
\* is known.
ProbeInv ==
    \A p \in Procs :
        /\ probe[p] # None => pc[p] \in {"inventory", "locked"}
        /\ temps[p] # {} => pc[p] = "sweeping"
        /\ pc[p] \in {"guarded", "sweeping", "locked"} => p \in Runner

MetInv ==
    \A p, q \in Procs :
        p # q /\ probe[p] # None /\ probe[q] # None /\ probe[p].dir = probe[q].dir
            => probe[p].dir \in met

Holds(p, d) ==
    probe[p] # None /\ probe[p].dir = d =>
        IF probe[p].step = "stat" THEN mtime[d] <= built[d] ELSE probe[p].before <= built[d]

HoldsInv == \A p \in Procs, d \in Entries \ (marred \cup met) : Holds(p, d)

ClockInv == \A d \in Entries : built[d] <= clock

\* A run has the lock of one unit, and of what killed runs left there it has still to
\* sweep what is there.
SweptInv ==
    \A p \in Procs, u \in Units :
        lock[u] = p =>
            /\ p \in Runner /\ pc[p] \in {"guarded", "sweeping", "locked"}
            /\ \A v \in Units : lock[v] = p => v = u
            /\ pc[p] # "guarded" =>
                   \A f \in files : f.dir \in Within(u) =>
                       f.live \/ f.by \notin Runner \/ \E g \in temps[p] : Same(f, g)

IInv ==
    TypeOK /\ ClockInv /\ ProbeInv /\ MetInv /\ HoldsInv /\ SweptInv
        /\ LeftFilesStay /\ IdleUnlessMet

=============================================================================
