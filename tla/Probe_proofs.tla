---------------------------- MODULE Probe_proofs ----------------------------
(***************************************************************************)
(* What probes leave behind, for any processes, builds, dirs and devices.  *)
(***************************************************************************)
EXTENDS Probe, TLAPS

USE ProbeAssumption

LEMMA TypeInit == Init => TypeOK
<1> SUFFICES ASSUME Init PROVE TypeOK
  OBVIOUS
<1>1. Unasked \in [Devices -> (SUBSET AllCaps) \cup {Unknown}]
  BY DEF Unasked
<1>2. mtime \in [Dirs -> Int] /\ built \in [Entries -> Int]
  BY DEF Init
<1>3. probe \in [Procs -> ProbeType \cup {None}] /\ temps \in [Procs -> SUBSET FileType]
  BY DEF Init
<1> QED
  BY <1>1, <1>2, <1>3 DEF Init, TypeOK

\* The whole state of a probe that has gone on.
LEMMA Gone ==
  ASSUME TypeOK, NEW p \in Procs, probe[p] # None
  PROVE  /\ probe[p] \in ProbeType
         /\ probe[p].dir \in Dirs
         /\ DeviceOf[probe[p].dir] \in Devices
         /\ Can[DeviceOf[probe[p].dir]] \subseteq AllCaps
  BY DEF TypeOK, ProbeType

LEMMA AnswerType ==
  ASSUME TypeOK, NEW p \in Procs, probe[p] # None, NEW there \in BOOLEAN
  PROVE  Answer(p, there) \subseteq AllCaps
  BY Gone DEF Answer

\* One file more, and those of a process that ends.
LEMMA PutType ==
  ASSUME TypeOK, NEW f \in FileType PROVE Put(f) \subseteq FileType
  BY DEF Put, TypeOK

LEMMA OrphanedType ==
  ASSUME TypeOK, NEW p \in Procs
  PROVE  /\ Orphaned(p) \subseteq FileType
         /\ \A f \in Orphaned(p) : f \in files \/ f.by = p
         /\ \A f \in files : \E g \in Orphaned(p) : Same(f, g)
<1> files \subseteq FileType
  BY DEF TypeOK
<1>1. ASSUME NEW f \in Mine(p)
      PROVE  /\ [f EXCEPT !.live = FALSE] \in FileType
             /\ [f EXCEPT !.live = FALSE].by = p
             /\ Same(f, [f EXCEPT !.live = FALSE])
  <2>1. f \in FileType /\ f.by = p
    BY <1>1 DEF Mine
  <2>2. [f EXCEPT !.live = FALSE] \in FileType
    BY <2>1 DEF FileType
  <2>3. [f EXCEPT !.live = FALSE].by = p
    BY <2>1 DEF FileType
  <2>4. Same(f, [f EXCEPT !.live = FALSE])
    BY <2>1 DEF FileType, Same
  <2> QED
    BY <2>2, <2>3, <2>4
<1>2. Orphaned(p) \subseteq FileType
  BY <1>1 DEF Orphaned
<1>3. ASSUME NEW f \in Orphaned(p) PROVE f \in files \/ f.by = p
  <2>1. CASE f \in files
    BY <2>1
  <2>2. CASE f \notin files
    <3>1. PICK g \in Mine(p) : f = [g EXCEPT !.live = FALSE]
      BY <2>2 DEF Orphaned
    <3> QED
      BY <1>1, <3>1
  <2> QED
    BY <2>1, <2>2
<1>4. ASSUME NEW f \in files PROVE \E g \in Orphaned(p) : Same(f, g)
  <2>1. CASE f \in Mine(p)
    BY <1>1, <2>1 DEF Orphaned
  <2>2. CASE f \notin Mine(p)
    BY <2>2 DEF Orphaned, Same
  <2> QED
    BY <2>1, <2>2
<1> QED
  BY <1>2, <1>3, <1>4

LEMMA TypeStep == TypeOK /\ [Next]_vars => TypeOK'
<1> SUFFICES ASSUME TypeOK, [Next]_vars PROVE TypeOK'
  OBVIOUS
<1> USE DEF procVars, ghosts
<1>0. clock \in Int /\ mtime \in [Dirs -> Int]
  BY DEF TypeOK
<1>1. ASSUME NEW p \in Procs, Probing(p) PROVE TypeOK'
  <2>1. ASSUME NEW d \in Dirs, Ask(p, d) PROVE TypeOK'
    <3>1. [dir |-> d, step |-> "stat", before |-> 0, found |-> {}] \in ProbeType
      BY DEF ProbeType, Steps
    <3> QED
      BY <1>1, <2>1, <3>1 DEF Ask, TypeOK
  <2>2. CASE Stat(p)
    <3>1. [probe[p] EXCEPT !.before = mtime[probe[p].dir], !.step = "write"] \in ProbeType
      <4>1. probe[p] \in ProbeType /\ probe[p].dir \in Dirs
        BY <2>2, Gone DEF Stat, At
      <4>2. mtime[probe[p].dir] \in Int
        BY <1>0, <4>1
      <4> QED
        BY <4>1, <4>2 DEF ProbeType, Steps
    <3> QED
      BY <1>1, <2>2, <3>1 DEF Stat, At, TypeOK
  <2>3. CASE Write(p)
    <3>1. probe[p] \in ProbeType /\ probe[p].dir \in Dirs
      BY <2>3, Gone DEF Write, At
    <3>2. File(p, "source") \in FileType
      BY <3>1 DEF File, FileType
    <3>3. /\ [probe[p] EXCEPT !.step = "clone"] \in ProbeType
          /\ [probe[p] EXCEPT !.step = "restore"] \in ProbeType
      BY <3>1 DEF ProbeType, Steps
    <3>4. files' \subseteq FileType /\ mtime' \in [Dirs -> Int]
      <4>1. CASE probe[p].dir \in Writable
        BY <1>0, <2>3, <3>1, <3>2, <4>1, PutType DEF Write, Touched
      <4>2. CASE probe[p].dir \notin Writable
        BY <1>0, <2>3, <4>2 DEF Write, TypeOK
      <4> QED
        BY <4>1, <4>2
    <3>5. probe' \in [Procs -> ProbeType \cup {None}]
      BY <2>3, <3>3 DEF Write, Goto, TypeOK
    <3> QED
      BY <1>1, <2>3, <3>4, <3>5 DEF Write, TypeOK
  <2>4. CASE Clone(p)
    <3> DEFINE there == File(p, "source") \in files
    <3>0. probe[p] # None /\ there \in BOOLEAN
      BY <2>4 DEF Clone, At
    <3> HIDE DEF there
    <3>1. probe[p] \in ProbeType /\ probe[p].dir \in Dirs /\ Answer(p, there) \subseteq AllCaps
      BY <3>0, Gone, AnswerType
    <3> USE DEF there
    <3>2. File(p, "copy") \in FileType
      BY <3>1 DEF File, FileType
    <3>3. [probe[p] EXCEPT !.found = Answer(p, there), !.step = "remove"] \in ProbeType
      BY <3>1 DEF ProbeType, Steps
    <3>4. Put(File(p, "copy")) \subseteq FileType
      BY <3>2, PutType
    <3> QED
      BY <1>0, <1>1, <2>4, <3>1, <3>3, <3>4 DEF Clone, Touched, TypeOK
  <2>5. CASE RemoveProbe(p)
    <3>1. probe[p] \in ProbeType /\ probe[p].dir \in Dirs
      BY <2>5, Gone DEF RemoveProbe, At
    <3>2. [probe[p] EXCEPT !.step = "restore"] \in ProbeType
      BY <3>1 DEF ProbeType, Steps
    <3>3. files' \subseteq FileType /\ mtime' \in [Dirs -> Int] /\ troubles' \in Nat
      BY <1>0, <2>5, <3>1 DEF RemoveProbe, Touched, TypeOK
    <3> QED
      BY <1>1, <2>5, <3>2, <3>3 DEF RemoveProbe, Goto, TypeOK
  <2>6. CASE Restore(p) \/ RestoreFails(p)
    <3>1. probe[p] \in ProbeType /\ probe[p].dir \in Dirs /\ DeviceOf[probe[p].dir] \in Devices
      BY <2>6, Gone DEF Restore, RestoreFails, At
    <3>2. probe[p].before \in Int /\ probe[p].found \subseteq AllCaps
      BY <3>1 DEF ProbeType
    <3>3. CASE Restore(p)
      BY <1>1, <3>1, <3>2, <3>3 DEF Restore, PutBack, TypeOK
    <3>4. CASE RestoreFails(p)
      BY <1>1, <3>1, <3>2, <3>4 DEF RestoreFails, TypeOK
    <3> QED
      BY <2>6, <3>3, <3>4
  <2> QED
    BY <1>1, <2>1, <2>2, <2>3, <2>4, <2>5, <2>6 DEF Probing
<1>2. ASSUME NEW p \in Procs, Working(p) PROVE TypeOK'
  <2>1. CASE Start(p) \/ Swept(p)
    BY <1>2, <2>1 DEF Start, Swept, TypeOK
  <2>2. CASE Finish(p)
    <3>1. Unasked \in [Devices -> (SUBSET AllCaps) \cup {Unknown}]
      BY DEF Unasked
    <3>2. cache' \in [Procs -> [Devices -> (SUBSET AllCaps) \cup {Unknown}]]
      <4>1. cache' = cache \/ cache' = [cache EXCEPT ![p] = Unasked]
        BY <2>2 DEF Finish
      <4> QED
        BY <3>1, <4>1 DEF TypeOK
    <3>3. pc' \in [Procs -> {"idle", "inventory", "guarded", "sweeping", "locked"}]
      BY <2>2 DEF Finish, TypeOK
    <3>4. files' \subseteq FileType
      BY <2>2, OrphanedType DEF Finish, TypeOK
    <3> QED
      BY <2>2, <3>2, <3>3, <3>4 DEF Finish, TypeOK
  <2>3. CASE Release(p)
    BY <1>2, <2>3 DEF Release, Free, TypeOK
  <2>4. ASSUME NEW u \in Units, TakeLock(p, u) \/ Scan(p, u) PROVE TypeOK'
    <3>1. CASE TakeLock(p, u)
      BY <1>2, <3>1 DEF TakeLock, TypeOK
    <3>2. CASE Scan(p, u)
      <4>1. TempsIn(u) \subseteq FileType
        BY DEF TempsIn, TypeOK
      <4> QED
        BY <1>2, <3>2, <4>1 DEF Scan, TypeOK
    <3> QED
      BY <2>4, <3>1, <3>2
  <2>5. ASSUME NEW f \in temps[p], Sweep(p, f) \/ SweepFails(p, f) PROVE TypeOK'
    <3>1. f \in FileType /\ f.dir \in Dirs
      BY DEF TypeOK, FileType
    <3>2. CASE Sweep(p, f)
      BY <1>0, <1>2, <3>1, <3>2 DEF Sweep, Touched, TypeOK
    <3>3. CASE SweepFails(p, f)
      BY <1>2, <3>1, <3>3 DEF SweepFails, Free, TypeOK
    <3> QED
      BY <2>5, <3>2, <3>3
  <2> QED
    BY <1>2, <2>1, <2>2, <2>3, <2>4, <2>5 DEF Working
<1>3. ASSUME NEW p \in Procs, Kill(p) PROVE TypeOK'
  <2>1. Unasked \in [Devices -> (SUBSET AllCaps) \cup {Unknown}]
    BY DEF Unasked
  <2>2. files' \subseteq FileType
    BY <1>3, OrphanedType DEF Kill
  <2>3. marred' \subseteq Dirs
    BY <1>3, Gone DEF Kill, TypeOK
  <2> QED
    BY <1>3, <2>1, <2>2, <2>3 DEF Kill, Free, TypeOK
<1>4. ASSUME NEW b \in Builds, Building(b) PROVE TypeOK'
  <2>1. ASSUME NEW u \in Units, BuildBegins(b, u) \/ BuildEnds(b, u) PROVE TypeOK'
    BY <2>1 DEF BuildBegins, BuildEnds, TypeOK
  <2>2. ASSUME NEW d \in Entries, BuildWrites(b, d) PROVE TypeOK'
    BY <1>0, <2>2 DEF BuildWrites, Touched, TypeOK
  <2> QED
    BY <1>4, <2>1, <2>2 DEF Building
<1>5. CASE Tick
  BY <1>5 DEF Tick, TypeOK
<1>6. CASE UNCHANGED vars
  BY <1>6 DEF vars, TypeOK
<1> QED
  BY <1>1, <1>2, <1>3, <1>4, <1>5, <1>6 DEF Next
-----------------------------------------------------------------------------
(* What a probe knows of the file system, and who stays beside whom *)

\* Going on, a probe changes nothing but its step.
LEMMA GoneOn ==
  ASSUME TypeOK, NEW p \in Procs, probe[p] # None, NEW step, Goto(p, step)
  PROVE  /\ probe'[p].dir = probe[p].dir /\ probe'[p].step = step
         /\ probe'[p].before = probe[p].before /\ probe'[p].found = probe[p].found
         /\ \A q \in Procs \ {p} : probe'[q] = probe[q]
<1>1. probe[p] \in ProbeType
  BY Gone
<1>2. probe'[p] = [probe[p] EXCEPT !.step = step]
  BY DEF Goto, TypeOK
<1> QED
  BY <1>1, <1>2 DEF Goto, TypeOK, ProbeType

\* While a process probes, it stays where it is, or is done, or is killed.
LEMMA Stays ==
  ASSUME TypeOK, ProbeInv, [Next]_vars, NEW q \in Procs, probe[q] # None, probe'[q] # None
  PROVE  probe'[q].dir = probe[q].dir
<1> USE DEF procVars, ghosts, At
<1>1. ASSUME NEW p \in Procs, Probing(p) PROVE probe'[q].dir = probe[q].dir
  <2>1. probe[p] # None => probe[p] \in ProbeType
    BY Gone
  <2>2. ASSUME NEW d \in Dirs, Ask(p, d) PROVE probe'[q].dir = probe[q].dir
    BY <2>2 DEF Ask, TypeOK
  <2>3. CASE Stat(p)
    BY <2>1, <2>3 DEF Stat, TypeOK, ProbeType
  <2>4. CASE Write(p) \/ RemoveProbe(p)
    <3>1. ASSUME NEW step, Goto(p, step), probe[p] # None PROVE probe'[q].dir = probe[q].dir
      BY <3>1, GoneOn
    <3> QED
      BY <2>4, <3>1 DEF Write, RemoveProbe
  <2>5. CASE Clone(p)
    BY <2>1, <2>5 DEF Clone, TypeOK, ProbeType
  <2>6. CASE Restore(p) \/ RestoreFails(p)
    BY <2>6 DEF Restore, RestoreFails, TypeOK
  <2> QED
    BY <1>1, <2>2, <2>3, <2>4, <2>5, <2>6 DEF Probing
<1>2. ASSUME NEW p \in Procs, Working(p) \/ Kill(p) PROVE probe'[q].dir = probe[q].dir
  BY <1>2 DEF Working, Kill, Start, Finish, Swept, Release, TakeLock, Scan, Sweep, SweepFails,
            TypeOK
<1>3. ASSUME NEW b \in Builds, Building(b) PROVE probe'[q].dir = probe[q].dir
  BY <1>3 DEF Building, BuildBegins, BuildEnds, BuildWrites
<1>4. CASE Tick \/ UNCHANGED vars
  BY <1>4 DEF Tick, vars
<1> QED
  BY <1>1, <1>2, <1>3, <1>4 DEF Next

\* Who begins a probe asks for it.
LEMMA Begins ==
  ASSUME TypeOK, [Next]_vars, NEW q \in Procs, probe[q] = None, probe'[q] # None
  PROVE  \E d \in Dirs : Ask(q, d)
<1> USE DEF procVars, ghosts, At
<1>1. ASSUME NEW p \in Procs, Probing(p) PROVE \E d \in Dirs : Ask(q, d)
  <2>1. CASE \E d \in Dirs : Ask(p, d)
    <3>1. PICK d \in Dirs : Ask(p, d)
      BY <2>1
    <3>2. p = q
      BY <3>1 DEF Ask, TypeOK
    <3> QED
      BY <3>1, <3>2
  <2>2. CASE Stat(p) \/ Write(p) \/ Clone(p) \/ RemoveProbe(p) \/ Restore(p) \/ RestoreFails(p)
    <3>1. probe[p] # None /\ p # q
      BY <2>2 DEF Stat, Write, Clone, RemoveProbe, Restore, RestoreFails
    <3>2. probe'[q] = probe[q]
      BY <2>2, <3>1 DEF Stat, Write, Clone, RemoveProbe, Restore, RestoreFails, Goto, TypeOK
    <3> QED
      BY <3>2
  <2> QED
    BY <1>1, <2>1, <2>2 DEF Probing
<1>2. ASSUME NEW p \in Procs, Working(p) \/ Kill(p) PROVE FALSE
  BY <1>2 DEF Working, Kill, Start, Finish, Swept, Release, TakeLock, Scan, Sweep, SweepFails,
            TypeOK
<1>3. ASSUME NEW b \in Builds, Building(b) PROVE FALSE
  BY <1>3 DEF Building, BuildBegins, BuildEnds, BuildWrites
<1>4. CASE Tick \/ UNCHANGED vars
  BY <1>4 DEF Tick, vars
<1> QED
  BY <1>1, <1>2, <1>3, <1>4 DEF Next

\* Dirs that were met stay met.
LEMMA Grows == [Next]_vars => met \subseteq met' /\ marred \subseteq marred'
  BY ZenonT(30) DEF Next, vars, procVars, ghosts, Probing, Working, Building, Ask, Stat, Write, Clone,
         RemoveProbe, Restore, RestoreFails, Start, Finish, Swept, Release, TakeLock, Scan,
         Sweep, SweepFails, Kill, BuildBegins, BuildEnds, BuildWrites, Tick

LEMMA MetStep == TypeOK /\ ProbeInv /\ MetInv /\ [Next]_vars => MetInv'
<1> SUFFICES ASSUME TypeOK, ProbeInv, MetInv, [Next]_vars, NEW p \in Procs, NEW q \in Procs,
                    p # q, probe'[p] # None, probe'[q] # None,
                    probe'[p].dir = probe'[q].dir
             PROVE  probe'[p].dir \in met'
  BY DEF MetInv
<1>1. CASE probe[p] # None /\ probe[q] # None
  BY <1>1, Stays, Grows DEF MetInv
<1>2. ASSUME NEW i \in Procs, NEW j \in Procs, i # j, probe[i] = None,
             probe'[i] # None, probe'[j] # None, probe'[i].dir = probe'[j].dir
      PROVE  probe'[i].dir \in met'
  <2>1. PICK d \in Dirs : Ask(i, d)
    BY <1>2, Begins
  <2>2. probe'[i].dir = d /\ probe'[j] = probe[j]
    BY <1>2, <2>1 DEF Ask, TypeOK
  <2>3. j \in Others(i, d)
    BY <1>2, <2>2 DEF Others
  <2> QED
    BY <2>1, <2>2, <2>3 DEF Ask
<1> QED
  BY <1>1, <1>2

LEMMA ProbeStep == TypeOK /\ ProbeInv /\ [Next]_vars => ProbeInv'
<1> SUFFICES ASSUME TypeOK, ProbeInv, [Next]_vars PROVE ProbeInv'
  OBVIOUS
<1> USE DEF procVars, ghosts, At
<1>1. ASSUME NEW p \in Procs, Probing(p) PROVE ProbeInv'
  <2>1. pc' = pc /\ temps' = temps
    BY <1>1 DEF Probing, Ask, Stat, Write, Clone, RemoveProbe, Restore, RestoreFails
  <2>2. \A q \in Procs \ {p} : probe'[q] = probe[q]
    BY <1>1 DEF Probing, Ask, Stat, Write, Clone, RemoveProbe, Restore, RestoreFails, Goto, TypeOK
  <2>3. probe'[p] # None => pc[p] \in {"inventory", "locked"}
    BY <1>1 DEF Probing, Ask, Stat, Write, Clone, RemoveProbe, Restore, RestoreFails, ProbeInv
  <2> QED
    BY <2>1, <2>2, <2>3 DEF ProbeInv
<1>2. ASSUME NEW p \in Procs, Working(p) PROVE ProbeInv'
  <2>1. probe' = probe
    BY <1>2 DEF Working, Start, Finish, Swept, Release, TakeLock, Scan, Sweep, SweepFails
  <2>2. CASE Start(p) \/ Finish(p) \/ Swept(p) \/ Release(p)
    BY <1>2, <2>1, <2>2 DEF Start, Finish, Swept, Release, ProbeInv, TypeOK
  <2>3. ASSUME NEW u \in Units, TakeLock(p, u) \/ Scan(p, u) PROVE ProbeInv'
    <3>1. CASE TakeLock(p, u)
      BY <1>2, <2>1, <3>1 DEF TakeLock, ProbeInv, TypeOK
    <3>2. CASE Scan(p, u)
      BY <1>2, <2>1, <3>2 DEF Scan, ProbeInv, TypeOK
    <3> QED
      BY <2>3, <3>1, <3>2
  <2>4. ASSUME NEW f \in temps[p], Sweep(p, f) \/ SweepFails(p, f) PROVE ProbeInv'
    <3>1. CASE Sweep(p, f)
      BY <2>1, <3>1 DEF Sweep, ProbeInv, TypeOK
    <3>2. CASE SweepFails(p, f)
      BY <2>1, <3>2 DEF SweepFails, ProbeInv, TypeOK
    <3> QED
      BY <2>4, <3>1, <3>2
  <2> QED
    BY <1>2, <2>2, <2>3, <2>4 DEF Working
<1>3. ASSUME NEW p \in Procs, Kill(p) PROVE ProbeInv'
  BY <1>3 DEF Kill, ProbeInv, TypeOK
<1>4. ASSUME NEW b \in Builds, Building(b) PROVE ProbeInv'
  BY <1>4 DEF Building, BuildBegins, BuildEnds, BuildWrites, ProbeInv
<1>5. CASE Tick \/ UNCHANGED vars
  BY <1>5 DEF Tick, vars, ProbeInv
<1> QED
  BY <1>1, <1>2, <1>3, <1>4, <1>5 DEF Next

-----------------------------------------------------------------------------
(* What a dir looks like *)

LEMMA ClockStep == TypeOK /\ ClockInv /\ [Next]_vars => ClockInv'
<1> SUFFICES ASSUME TypeOK, ClockInv, [Next]_vars PROVE ClockInv'
  OBVIOUS
<1> USE DEF procVars, ghosts
<1>1. ASSUME NEW b \in Builds, Building(b) PROVE ClockInv'
  BY <1>1 DEF Building, BuildBegins, BuildEnds, BuildWrites, ClockInv, TypeOK
<1>2. CASE Tick
  BY <1>2 DEF Tick, ClockInv, TypeOK
<1>3. ASSUME NEW p \in Procs, Probing(p) \/ Working(p) \/ Kill(p) PROVE ClockInv'
  BY <1>3 DEF Probing, Working, Ask, Stat, Write, Clone, RemoveProbe, Restore, RestoreFails,
              Start, Finish, Swept, Release, TakeLock, Scan, Sweep, SweepFails, Kill, ClockInv
<1> QED
  BY <1>1, <1>2, <1>3 DEF Next, vars, ClockInv

\* What is known of one dir.
Known1(d) == Idle(d) /\ \A p \in Procs : Holds(p, d)

LEMMA Parts ==
  IdleUnlessMet /\ HoldsInv <=> \A d \in Entries \ (marred \cup met) : Known1(d)
  BY DEF IdleUnlessMet, HoldsInv, Known1

\* A dir where no time moved, and whose probe did not either, is as known as before.
LEMMA Quiet ==
  ASSUME NEW d \in Entries, Known1(d), mtime'[d] = mtime[d], built'[d] = built[d],
         \A q \in Procs :
            /\ probe[q] # None /\ probe[q].dir = d => probe'[q] = probe[q]
            /\ probe'[q] # None /\ probe'[q].dir = d => probe'[q] = probe[q]
  PROVE  Known1(d)'
<1>1. Idle(d)'
  BY DEF Known1, Idle
<1>2. ASSUME NEW q \in Procs PROVE Holds(q, d)'
  BY <1>2 DEF Known1, Holds
<1> QED
  BY <1>1, <1>2 DEF Known1

\* Nobody else probes a dir no two have met in.
LEMMA Alone ==
  ASSUME MetInv, NEW d, d \notin met, NEW p \in Procs, probe[p] # None, probe[p].dir = d
  PROVE  \A q \in Procs \ {p} : probe[q] # None => probe[q].dir # d
  BY DEF MetInv

\* A probe that goes on keeps what it has put aside.
LEMMA GoesOn ==
  ASSUME TypeOK, MetInv, NEW d \in Entries, d \notin met, Known1(d), built' = built,
         NEW p \in Procs, probe[p] # None, probe[p].dir = d,
         probe'[p] # None, probe'[p].dir = d, probe'[p].step # "stat",
         probe'[p].before <= built[d],
         \A q \in Procs \ {p} : probe'[q] = probe[q]
  PROVE  Known1(d)'
<1>1. Idle(d)'
  BY DEF Idle
<1>2. ASSUME NEW q \in Procs PROVE Holds(q, d)'
  <2>1. CASE q = p
    BY <2>1 DEF Holds
  <2>2. CASE q # p
    BY <2>2, Alone DEF Holds
  <2> QED
    BY <2>1, <2>2
<1> QED
  BY <1>1, <1>2 DEF Known1

LEMMA KnownStep ==
  ASSUME TypeOK, ClockInv, ProbeInv, MetInv, [Next]_vars,
         NEW d \in Entries, d \notin marred' \cup met', Known1(d)
  PROVE  Known1(d)'
<1> USE DEF procVars, ghosts, At
<1>0. d \in Dirs /\ d \notin marred \cup met
  BY Grows
<1>1. ASSUME NEW p \in Procs, Probing(p) PROVE Known1(d)'
  <2>0. built' = built /\ \A q \in Procs \ {p} : probe'[q] = probe[q]
    BY <1>1 DEF Probing, Ask, Stat, Write, Clone, RemoveProbe, Restore, RestoreFails, Goto, TypeOK
  <2>1. ASSUME NEW c \in Dirs, Ask(p, c) PROVE Known1(d)'
    <3>1. /\ mtime' = mtime /\ probe[p] = None /\ probe'[p].dir = c /\ probe'[p] # None
          /\ probe'[p].step = "stat"
      <4>1. [dir |-> c, step |-> "stat", before |-> 0, found |-> {}] \in ProbeType
        BY DEF ProbeType, Steps
      <4> QED
        BY <2>1, <4>1 DEF Ask, TypeOK
    <3>2. CASE c # d
      BY <2>0, <3>1, <3>2, Quiet
    <3>3. CASE c = d
      <4>1. \A q \in Procs : probe[q] = None \/ probe[q].dir # d
        BY <1>0, <2>1, <3>1, <3>3 DEF Ask, Others
      <4>2. mtime'[d] <= built'[d]
        BY <2>0, <3>1, <4>1 DEF Known1, Idle
      <4> QED
        BY <2>0, <3>1, <3>3, <4>1, <4>2 DEF Known1, Idle, Holds
    <3> QED
      BY <3>2, <3>3
  <2>2. CASE Stat(p)
    <3>1. /\ mtime' = mtime /\ probe[p] # None /\ probe[p].step = "stat" /\ probe'[p] # None
          /\ probe'[p].dir = probe[p].dir /\ probe'[p].step = "write"
          /\ probe'[p].before = mtime[probe[p].dir]
      BY <2>2, Gone DEF Stat, TypeOK, ProbeType
    <3>2. CASE probe[p].dir # d
      BY <2>0, <3>1, <3>2, Quiet
    <3>3. CASE probe[p].dir = d
      <4>1. probe'[p].before <= built[d]
        BY <3>1, <3>3 DEF Known1, Holds
      <4> QED
        BY <1>0, <2>0, <3>1, <3>3, <4>1, GoesOn
    <3> QED
      BY <3>2, <3>3
  <2>3. CASE Write(p) \/ Clone(p) \/ RemoveProbe(p)
    <3>1. /\ probe[p] # None /\ probe[p].step # "stat" /\ probe'[p] # None
          /\ probe'[p].dir = probe[p].dir /\ probe'[p].step # "stat"
          /\ probe'[p].before = probe[p].before
      <4>1. probe[p] # None /\ probe[p].step # "stat" /\ probe[p] \in ProbeType
        BY <2>3, Gone DEF Write, Clone, RemoveProbe
      <4>2. \/ \E step \in {"clone", "restore"} : probe'[p] = [probe[p] EXCEPT !.step = step]
            \/ \E found \in SUBSET AllCaps :
                  probe'[p] = [probe[p] EXCEPT !.found = found, !.step = "remove"]
        <5> DEFINE there == File(p, "source") \in files
        <5>1. CASE Write(p)
          <6>1. p \in DOMAIN probe
            BY DEF TypeOK
          <6> QED
            BY <5>1, <6>1 DEF Write, Goto
        <5>2. CASE Clone(p)
          <6>1. there \in BOOLEAN
                /\ probe' = [probe EXCEPT ![p].found = Answer(p, there), ![p].step = "remove"]
            BY <5>2 DEF Clone
          <6> HIDE DEF there
          <6> QED
            BY <4>1, <6>1, AnswerType DEF TypeOK
        <5>3. CASE RemoveProbe(p)
          BY <5>3 DEF RemoveProbe, Goto, TypeOK
        <5> QED
          BY <2>3, <5>1, <5>2, <5>3
      <4>3. probe'[p] # None
        <5>1. \A step \in Steps : [probe[p] EXCEPT !.step = step] \in ProbeType
          BY <4>1 DEF ProbeType
        <5>2. \A found \in SUBSET AllCaps :
                [probe[p] EXCEPT !.found = found, !.step = "remove"] \in ProbeType
          BY <4>1 DEF ProbeType, Steps
        <5> QED
          BY <4>2, <5>1, <5>2 DEF Steps
      <4> QED
        BY <4>1, <4>2, <4>3 DEF ProbeType
    <3>2. CASE probe[p].dir # d
      <4>1. mtime'[d] = mtime[d]
        BY <1>0, <2>3, <3>2 DEF Write, Clone, RemoveProbe, Touched, TypeOK
      <4> QED
        BY <2>0, <3>1, <3>2, <4>1, Quiet
    <3>3. CASE probe[p].dir = d
      <4>1. probe'[p].before <= built[d]
        BY <3>1, <3>3 DEF Known1, Holds
      <4> QED
        BY <1>0, <2>0, <3>1, <3>3, <4>1, GoesOn
    <3> QED
      BY <3>2, <3>3
  <2>4. CASE Restore(p)
    <3>1. probe[p] # None /\ probe[p].step = "restore" /\ probe'[p] = None
      BY <2>4 DEF Restore, TypeOK
    <3>2. CASE probe[p].dir # d
      <4>1. mtime'[d] = mtime[d]
        BY <1>0, <2>4, <3>2 DEF Restore, PutBack, TypeOK
      <4> QED
        BY <2>0, <3>1, <3>2, <4>1, Quiet
    <3>3. CASE probe[p].dir = d
      <4>1. mtime'[d] <= built'[d]
        BY <1>0, <2>0, <2>4, <3>1, <3>3 DEF Restore, PutBack, TypeOK, Known1, Holds
      <4>2. \A q \in Procs : probe'[q] # None => probe'[q].dir # d
        BY <1>0, <2>0, <3>1, <3>3, Alone
      <4> QED
        BY <4>1, <4>2 DEF Known1, Idle, Holds
    <3> QED
      BY <3>2, <3>3
  <2>5. CASE RestoreFails(p)
    <3>1. probe[p] # None /\ probe[p].dir # d /\ probe'[p] = None /\ mtime' = mtime
      BY <2>5 DEF RestoreFails, TypeOK
    <3> QED
      BY <2>0, <3>1, Quiet
  <2> QED
    BY <1>1, <2>1, <2>2, <2>3, <2>4, <2>5 DEF Probing
<1>2. ASSUME NEW p \in Procs, Working(p) PROVE Known1(d)'
  <2>1. built' = built /\ probe' = probe
    BY <1>2 DEF Working, Start, Finish, Swept, Release, TakeLock, Scan, Sweep, SweepFails
  <2>2. mtime'[d] = mtime[d]
    BY <1>0, <1>2 DEF Working, Start, Finish, Swept, Release, TakeLock, Scan, Sweep, SweepFails,
                      Touched, TypeOK
  <2> QED
    BY <2>1, <2>2, Quiet
<1>3. ASSUME NEW p \in Procs, Kill(p) PROVE Known1(d)'
  <2>1. mtime' = mtime /\ built' = built /\ probe' = [probe EXCEPT ![p] = None]
        /\ (probe[p] # None => probe[p].dir # d)
    BY <1>3 DEF Kill
  <2> QED
    BY <2>1, Quiet DEF TypeOK
<1>4. ASSUME NEW b \in Builds, Building(b) PROVE Known1(d)'
  <2>0. probe' = probe
    BY <1>4 DEF Building, BuildBegins, BuildEnds, BuildWrites
  <2>1. CASE mtime'[d] = mtime[d] /\ built'[d] = built[d]
    BY <2>0, <2>1, Quiet
  <2>2. CASE mtime'[d] = clock /\ built'[d] = clock
    <3>1. clock \in Int /\ built[d] \in Int /\ built[d] <= clock
      BY DEF TypeOK, ClockInv
    <3>2. Idle(d)'
      BY <2>2, <3>1 DEF Idle
    <3>3. ASSUME NEW q \in Procs PROVE Holds(q, d)'
      <4>1. probe[q] # None => probe[q].before \in Int
        BY Gone DEF ProbeType
      <4> QED
        BY <2>0, <2>2, <3>1, <4>1 DEF Known1, Holds
    <3> QED
      BY <3>2, <3>3 DEF Known1
  <2>3. \/ mtime'[d] = mtime[d] /\ built'[d] = built[d]
        \/ mtime'[d] = clock /\ built'[d] = clock
    BY <1>0, <1>4 DEF Building, BuildBegins, BuildEnds, BuildWrites, Touched, TypeOK
  <2> QED
    BY <2>1, <2>2, <2>3
<1>5. CASE Tick \/ UNCHANGED vars
  <2>1. mtime' = mtime /\ built' = built /\ probe' = probe
    BY <1>5 DEF Tick, vars
  <2> QED
    BY <2>1, Quiet
<1> QED
  BY <1>1, <1>2, <1>3, <1>4, <1>5 DEF Next

-----------------------------------------------------------------------------
(* What killed runs have left *)

\* What the one who has the lock of a unit has still to sweep there is known to him.
AllKnown(p, u) ==
  \A f \in files : f.dir \in Within(u) =>
      f.live \/ f.by \notin Runner \/ \E g \in temps[p] : Same(f, g)

Holder(p, u) ==
  /\ p \in Runner /\ pc[p] \in {"guarded", "sweeping", "locked"}
  /\ \A v \in Units : lock[v] = p => v = u
  /\ pc[p] # "guarded" => AllKnown(p, u)

\* A step that leaves him, his lock and the files of his unit alone.
LEMMA HolderStays ==
  ASSUME NEW p \in Procs, NEW u \in Units, Holder(p, u), lock[u] = p,
         \A v \in Units : lock'[v] = p => lock[v] = p, pc'[p] = pc[p], temps'[p] = temps[p],
         \A f \in files' : f \in files \/ f.live \/ f.by \notin Runner
  PROVE  Holder(p, u)'
  BY DEF Holder, AllKnown

LEMMA SweptStep == TypeOK /\ SweptInv /\ [Next]_vars => SweptInv'
<1> SUFFICES ASSUME TypeOK, SweptInv, [Next]_vars, NEW p \in Procs, NEW u \in Units, lock'[u] = p
             PROVE  Holder(p, u)'
  BY DEF SweptInv, Holder, AllKnown
<1> USE DEF procVars, ghosts
<1>0. lock[u] = p => Holder(p, u)
  BY DEF SweptInv, Holder, AllKnown
<1>1. ASSUME NEW q \in Procs, Probing(q) PROVE Holder(p, u)'
  <2>1. lock' = lock /\ pc' = pc /\ temps' = temps
    BY <1>1 DEF Probing, Ask, Stat, Write, Clone, RemoveProbe, Restore, RestoreFails
  <2>2. \A f \in files' : f \in files \/ f.live
    BY <1>1 DEF Probing, Ask, Stat, Write, Clone, RemoveProbe, Restore, RestoreFails, Put, File
  <2> QED
    BY <1>0, <2>1, <2>2, HolderStays
<1>2. ASSUME NEW q \in Procs \ {p}, Working(q) PROVE Holder(p, u)'
  <2>1. pc'[p] = pc[p] /\ temps'[p] = temps[p]
    BY <1>2 DEF Working, Start, Finish, Swept, Release, TakeLock, Scan, Sweep, SweepFails, TypeOK
  <2>2. \A v \in Units : lock'[v] = p => lock[v] = p
    <3>1. p # None
      BY DEF TypeOK
    <3> QED
      BY <1>2, <3>1 DEF Working, Start, Finish, Swept, Release, TakeLock, Scan, Sweep, SweepFails,
                        Free, TypeOK
  <2>3. \A f \in files' : f \in files \/ f.by = q
    BY <1>2, OrphanedType
    DEF Working, Start, Finish, Swept, Release, TakeLock, Scan, Sweep, SweepFails
  <2>4. lock[u] = p /\ Holder(p, u) /\ q \notin Runner
    BY <1>0, <2>2 DEF Holder
  <2> QED
    BY <2>1, <2>2, <2>3, <2>4, HolderStays
<1>3. CASE Working(p)
  <2>1. CASE Start(p) \/ Finish(p)
    <3>1. lock[u] = p /\ pc[p] \in {"idle", "inventory"}
      BY <2>1 DEF Start, Finish
    <3> QED
      BY <1>0, <3>1 DEF Holder
  <2>2. CASE Swept(p)
    <3>1. /\ lock' = lock /\ files' = files /\ temps' = temps /\ pc[p] = "sweeping"
          /\ pc'[p] = "locked"
      BY <2>2 DEF Swept, TypeOK
    <3> QED
      BY <1>0, <3>1 DEF Holder, AllKnown
  <2>3. CASE Release(p)
    <3>1. lock'[u] = IF lock[u] = p THEN None ELSE lock[u]
      BY <2>3 DEF Release, Free
    <3> QED
      BY <3>1
  <2>4. ASSUME NEW w \in Units, TakeLock(p, w) PROVE Holder(p, u)'
    <3>1. \A v \in Units : lock[v] # p
      BY <2>4 DEF TakeLock, SweptInv
    <3>2. \A v \in Units : lock'[v] = p => v = w
      BY <2>4, <3>1 DEF TakeLock, TypeOK
    <3>3. p \in Runner /\ pc'[p] = "guarded"
      BY <2>4 DEF TakeLock, TypeOK
    <3> QED
      BY <3>2, <3>3 DEF Holder
  <2>5. ASSUME NEW w \in Units, Scan(p, w) PROVE Holder(p, u)'
    <3>1. lock' = lock /\ files' = files /\ pc'[p] = "sweeping" /\ temps'[p] = TempsIn(w)
      BY <2>5 DEF Scan, TypeOK
    <3>2. w = u
      BY <1>0, <2>5, <3>1 DEF Scan, Holder
    <3>3. AllKnown(p, u)'
      BY <3>1, <3>2 DEF AllKnown, TempsIn, Same
    <3> QED
      BY <1>0, <3>1, <3>3 DEF Holder
  <2>6. ASSUME NEW g \in temps[p], Sweep(p, g) PROVE Holder(p, u)'
    <3>1. /\ lock' = lock /\ pc' = pc /\ temps'[p] = {h \in temps[p] : ~Same(g, h)}
          /\ files' = {f \in files : ~Same(g, f)} /\ pc[p] = "sweeping"
      BY <2>6 DEF Sweep, TypeOK
    <3>2. AllKnown(p, u)
      BY <1>0, <3>1 DEF Holder
    <3>3. ASSUME NEW f \in files', f.dir \in Within(u), ~f.live, f.by \in Runner
          PROVE  \E h \in temps'[p] : Same(f, h)
      <4>1. f \in files /\ ~Same(g, f)
        BY <3>1, <3>3
      <4>2. PICK h \in temps[p] : Same(f, h)
        BY <3>2, <3>3, <4>1 DEF AllKnown
      <4>3. ~Same(g, h)
        BY <4>1, <4>2 DEF Same
      <4> QED
        BY <3>1, <4>2, <4>3
    <3>4. AllKnown(p, u)'
      BY <3>3 DEF AllKnown
    <3> QED
      BY <1>0, <3>1, <3>4 DEF Holder
  <2>7. ASSUME NEW g \in temps[p], SweepFails(p, g) PROVE Holder(p, u)'
    <3>1. lock'[u] = IF lock[u] = p THEN None ELSE lock[u]
      BY <2>7 DEF SweepFails, Free
    <3> QED
      BY <3>1
  <2> QED
    BY <1>3, <2>1, <2>2, <2>3, <2>4, <2>5, <2>6, <2>7 DEF Working
<1>4. ASSUME NEW q \in Procs, Kill(q) PROVE Holder(p, u)'
  <2>1. \A v \in Units : lock'[v] = IF lock[v] = q THEN None ELSE lock[v]
    BY <1>4 DEF Kill, Free
  <2>2. q # p /\ p # None
    BY <2>1
  <2>3. lock[u] = p /\ \A v \in Units : lock'[v] = p => lock[v] = p
    BY <2>1, <2>2
  <2>4. pc'[p] = pc[p] /\ temps'[p] = temps[p]
    BY <1>4, <2>2 DEF Kill, TypeOK
  <2>5. q \notin Runner
    BY <1>0, <2>2, <2>3 DEF Holder
  <2>6. \A f \in files' : f \in files \/ f.by = q
    BY <1>4, OrphanedType DEF Kill
  <2> QED
    BY <1>0, <2>3, <2>4, <2>5, <2>6, HolderStays
<1>5. ASSUME NEW b \in Builds, Building(b) PROVE Holder(p, u)'
  <2>1. pc' = pc /\ temps' = temps /\ files' = files
    BY <1>5 DEF Building, BuildBegins, BuildEnds, BuildWrites
  <2>2. b # p /\ p # None
    OBVIOUS
  <2>3. \A v \in Units : lock'[v] = p => lock[v] = p
    BY <1>5, <2>2 DEF Building, BuildBegins, BuildEnds, BuildWrites, TypeOK
  <2> QED
    BY <1>0, <2>1, <2>3, HolderStays
<1>6. CASE Tick \/ UNCHANGED vars
  <2>1. lock' = lock /\ pc' = pc /\ temps' = temps /\ files' = files
    BY <1>6 DEF Tick, vars
  <2> QED
    BY <1>0, <2>1, HolderStays
<1> QED
  BY <1>1, <1>2, <1>3, <1>4, <1>5, <1>6 DEF Next

\* Who has the run lock does not probe while he sweeps, and he is the only one: the
\* files of a run go by its own sweep, or come again under the same name.
LEMMA StayStep ==
  ASSUME TypeOK, ProbeInv, LeftFilesStay, [Next]_vars PROVE LeftFilesStay'
<1> SUFFICES ASSUME NEW p \in Procs, NEW f \in temps'[p], f.by \in Runner
             PROVE  \E g \in files' : Same(f, g)
  BY DEF LeftFilesStay
<1> USE DEF procVars, ghosts, At
<1>1. CASE \E u \in Units : Scan(p, u)
  <2>1. PICK u \in Units : Scan(p, u)
    BY <1>1
  <2>2. f \in files /\ files' = files
    BY <2>1 DEF Scan, TempsIn, TypeOK
  <2> QED
    BY <2>2 DEF Same
<1>2. CASE ~\E u \in Units : Scan(p, u)
  <2>1. f \in temps[p]
    <3>1. ASSUME NEW q \in Procs, Probing(q) PROVE temps' = temps
      BY <3>1 DEF Probing, Ask, Stat, Write, Clone, RemoveProbe, Restore, RestoreFails
    <3>2. ASSUME NEW q \in Procs, Working(q) PROVE f \in temps[p]
      <4>1. CASE Start(q) \/ Finish(q) \/ Swept(q) \/ Release(q)
        BY <4>1 DEF Start, Finish, Swept, Release
      <4>2. ASSUME NEW u \in Units, TakeLock(q, u) PROVE f \in temps[p]
        BY <4>2 DEF TakeLock
      <4>3. ASSUME NEW u \in Units, Scan(q, u) PROVE f \in temps[p]
        <5>1. q # p
          BY <1>2, <4>3
        <5> QED
          BY <4>3, <5>1 DEF Scan, TypeOK
      <4>4. ASSUME NEW g \in temps[q], Sweep(q, g) \/ SweepFails(q, g) PROVE f \in temps[p]
        <5>1. temps \in [Procs -> SUBSET FileType]
          BY DEF TypeOK
        <5>2. CASE Sweep(q, g)
          BY <5>1, <5>2 DEF Sweep
        <5>3. CASE SweepFails(q, g)
          BY <5>1, <5>3 DEF SweepFails
        <5> QED
          BY <4>4, <5>2, <5>3
      <4> QED
        BY <3>2, <4>1, <4>2, <4>3, <4>4 DEF Working
    <3>3. ASSUME NEW q \in Procs, Kill(q) PROVE f \in temps[p]
      BY <3>3 DEF Kill, TypeOK
    <3>4. ASSUME NEW b \in Builds, Building(b) PROVE temps' = temps
      BY <3>4 DEF Building, BuildBegins, BuildEnds, BuildWrites
    <3>5. CASE Tick \/ UNCHANGED vars
      BY <3>5 DEF Tick, vars
    <3> QED
      BY <3>1, <3>2, <3>3, <3>4, <3>5 DEF Next
  <2>2. PICK g \in files : Same(f, g)
    BY <2>1 DEF LeftFilesStay
  <2>3. pc[p] = "sweeping" /\ p \in Runner /\ probe[p] = None
    BY <2>1 DEF ProbeInv
  <2>4. g.by = p
    BY <2>2, <2>3 DEF Same
  <2>5. CASE files \subseteq files'
    BY <2>2, <2>5
  <2>6. ASSUME NEW h, files' = Put(h) PROVE \E k \in files' : Same(f, k)
    BY <2>2, <2>6 DEF Put, Same
  <2>7. ASSUME NEW q \in Procs, files' = Orphaned(q) PROVE \E k \in files' : Same(f, k)
    <3>1. PICK k \in files' : Same(g, k)
      BY <2>2, <2>7, OrphanedType
    <3> QED
      BY <2>2, <3>1 DEF Same
  <2>8. ASSUME NEW q \in Procs, Probing(q) PROVE \E k \in files' : Same(f, k)
    <3>1. CASE RemoveProbe(q)
      <4>1. q # p
        BY <2>3, <3>1 DEF RemoveProbe
      <4>2. g \notin Own(q)
        BY <2>4, <4>1 DEF Own, Mine
      <4> QED
        BY <2>2, <3>1, <4>2 DEF RemoveProbe
    <3>2. CASE ~RemoveProbe(q)
      <4>1. files' = files \/ \E h : files' = Put(h)
        BY <2>8, <3>2 DEF Probing, Ask, Stat, Write, Clone, Restore, RestoreFails
      <4> QED
        BY <2>5, <2>6, <4>1
    <3> QED
      BY <3>1, <3>2
  <2>9. ASSUME NEW q \in Procs, Working(q) PROVE \E k \in files' : Same(f, k)
    <3>1. CASE \E h \in temps[q] : Sweep(q, h)
      <4>1. PICK h \in temps[q] : Sweep(q, h)
        BY <3>1
      <4>2. q = p
        <5>1. q \in Runner
          BY <4>1 DEF Sweep, ProbeInv
        <5> QED
          BY <2>3, <5>1
      <4>3. ~Same(h, f)
        BY <4>1, <4>2 DEF Sweep, TypeOK
      <4>4. ~Same(h, g)
        BY <2>2, <4>3 DEF Same
      <4> QED
        BY <2>2, <4>1, <4>4 DEF Sweep
    <3>2. CASE ~\E h \in temps[q] : Sweep(q, h)
      <4>1. files' = files \/ files' = Orphaned(q)
        BY <2>9, <3>2 DEF Working, Start, Finish, Swept, Release, TakeLock, Scan, SweepFails
      <4> QED
        BY <2>5, <2>7, <4>1
    <3> QED
      BY <3>1, <3>2
  <2>10. ASSUME NEW q \in Procs, Kill(q) PROVE \E k \in files' : Same(f, k)
    BY <2>7, <2>10 DEF Kill
  <2>11. ASSUME NEW b \in Builds, Building(b) PROVE files' = files
    BY <2>11 DEF Building, BuildBegins, BuildEnds, BuildWrites
  <2>12. CASE Tick \/ UNCHANGED vars
    BY <2>5, <2>12 DEF Tick, vars
  <2> QED
    BY <2>5, <2>8, <2>9, <2>10, <2>11, <2>12 DEF Next
<1> QED
  BY <1>1, <1>2

-----------------------------------------------------------------------------

LEMMA Inductive == IInv /\ [Next]_vars => IInv'
<1> SUFFICES ASSUME IInv, [Next]_vars PROVE IInv'
  OBVIOUS
<1>1. TypeOK' /\ ClockInv' /\ ProbeInv' /\ MetInv' /\ SweptInv' /\ LeftFilesStay'
  BY TypeStep, ClockStep, ProbeStep, MetStep, SweptStep, StayStep DEF IInv
<1>2. \A d \in Entries \ (marred' \cup met') : Known1(d)'
  BY KnownStep, Parts, Grows DEF IInv
<1>3. IdleUnlessMet' /\ HoldsInv'
  BY <1>2 DEF IdleUnlessMet, HoldsInv, Known1
<1> QED
  BY <1>1, <1>3 DEF IInv

LEMMA Initially == Init => IInv
<1> SUFFICES ASSUME Init PROVE IInv
  OBVIOUS
<1>1. TypeOK
  BY TypeInit
<1>2. ClockInv /\ ProbeInv /\ MetInv /\ HoldsInv
  BY DEF Init, ClockInv, ProbeInv, MetInv, HoldsInv, Holds
<1>3. LeftFilesStay /\ IdleUnlessMet
  BY DEF Init, LeftFilesStay, IdleUnlessMet, Idle
<1>4. SweptInv
  BY DEF Init, SweptInv
<1> QED
  BY <1>1, <1>2, <1>3, <1>4 DEF IInv

\* The inductive invariant: what a probe holds of a dir's mtime, who met whom, and what
\* the run has still to sweep (unix.rs, probe; sys/mod.rs, probing_in).
THEOREM ProbeInductive == Spec => []IInv
  BY Initially, Inductive, PTL DEF Spec

\* What killed runs left in a unit is gone before a run works there, however many
\* were killed and whoever builds and probes meanwhile (engine.rs, run_with).
THEOREM UnitsAreSwept == Spec => []UnitsSwept
<1>1. SweptInv /\ ProbeInv => UnitsSwept
  BY DEF SweptInv, ProbeInv, UnitsSwept
<1>2. IInv => UnitsSwept
  BY <1>1 DEF IInv
<1> QED
  BY Initially, Inductive, <1>2, PTL DEF Spec

\* What runs left in a unit a later run finds where its scan saw it, whoever is killed,
\* probes or cannot remove its files meanwhile: no run's own leavings end a session
\* (engine.rs, run_with).
THEOREM LeftFilesWait == Spec => []LeftFilesStay
<1>1. IInv => LeftFilesStay
  BY DEF IInv
<1> QED
  BY Initially, Inductive, <1>1, PTL DEF Spec

\* A probe leaves no entry of a profile newer than builds made it, unless two were
\* at it at once, or one was killed there or failed (sys/mod.rs, probing_in).
THEOREM IdleKept == Spec => []IdleUnlessMet
<1>1. IInv => IdleUnlessMet
  BY DEF IInv
<1> QED
  BY Initially, Inductive, <1>1, PTL DEF Spec
=============================================================================
