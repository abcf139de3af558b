--------------------------- MODULE Session_proofs ---------------------------
(***************************************************************************)
(* What holds of Session for every number of units, targets, builds and    *)
(* groups: the shape of the state, that builds and runs keep apart, and    *)
(* that no removal begins over a build in a unit the inventory lists.      *)
(***************************************************************************)
EXTENDS Session, TLAPS

USE SessionAssumption

-----------------------------------------------------------------------------
(* The shape of the state *)

LEMMA PassCount == LastPass = 5
  BY DEF LastPass, Passes

LEMMA Update ==
  ASSUME NEW S, NEW V, NEW f \in [S -> V], NEW x, NEW v \in V
  PROVE  [f EXCEPT ![x] = v] \in [S -> V]
  OBVIOUS

LEMMA NothingKnownType == NothingKnown \in KnownType
  BY DEF NothingKnown, KnownType

LEMMA LetAllGoType == LetAllGo => RunType'
<1> SUFFICES ASSUME LetAllGo PROVE RunType'
  OBVIOUS
<1> USE DEF LetAllGo
<1>1. group' \in Nat /\ rounds' \in Nat
  OBVIOUS
<1>2. pass' \in 1 .. LastPass
  BY PassCount
<1>3. held' \in [Unit -> Nat] /\ last' \in [Unit -> Nat]
  OBVIOUS
<1>4. todo' \subseteq Unit /\ locked' \subseteq Unit /\ busy' \subseteq Unit /\ unsure' \subseteq Unit
  OBVIOUS
<1>5. plan' \subseteq ActionType /\ removing' \subseteq ActionType
  OBVIOUS
<1>6. /\ second' \in BOOLEAN /\ tried' \in BOOLEAN /\ applied' \in BOOLEAN
      /\ progressed' \in BOOLEAN
  OBVIOUS
<1> QED
  BY <1>1, <1>2, <1>3, <1>4, <1>5, <1>6 DEF RunType

LEMMA EndsType ==
  ASSUME NEW why, Ends(why)
  PROVE  GroupsType' /\ RunType'
  BY NothingKnownType, LetAllGoType DEF Ends, GroupsType

LEMMA TypeInit == Init => TypeOK
<1> SUFFICES ASSUME Init PROVE TypeOK
  OBVIOUS
<1> USE DEF Init
<1>1. DirsType
  BY DEF DirsType
<1>2. OutsideType
  BY DEF OutsideType, JobType, ReasonType
<1>3. GroupsType
  BY NothingKnownType DEF GroupsType
<1>4. RunType
  <2>1. /\ group \in Nat /\ rounds \in Nat /\ pass \in 1 .. LastPass
        /\ held \in [Unit -> Nat] /\ last \in [Unit -> Nat]
    BY PassCount
  <2>2. todo \subseteq Unit /\ locked \subseteq Unit /\ busy \subseteq Unit /\ unsure \subseteq Unit
    OBVIOUS
  <2>3. plan \subseteq ActionType /\ removing \subseteq ActionType
    OBVIOUS
  <2>4. /\ second \in BOOLEAN /\ tried \in BOOLEAN /\ applied \in BOOLEAN
        /\ progressed \in BOOLEAN
    OBVIOUS
  <2> QED
    BY <2>1, <2>2, <2>3, <2>4 DEF RunType
<1> QED
  BY <1>1, <1>2, <1>3, <1>4 DEF TypeOK

LEMMA InventoryType ==
  ASSUME TypeOK, NEW chosen \in SUBSET Unit
  PROVE  Inventory(chosen) \in KnownType
  BY DEF Inventory, KnownType, TypeOK, DirsType, OutsideType, FoundUnits, Whole, OldCaches, IdleUnits,
         UnitsOf, ReasonType

LEMMA SelectionType ==
  ASSUME TypeOK
  PROVE  Selections(FoundUnits) \subseteq SUBSET Unit
  BY DEF Selections, FoundUnits, IdleUnits

LEMMA PlanType ==
  ASSUME TypeOK
  PROVE  Plans \subseteq SUBSET ActionType
<1>1. known \in KnownType /\ locked \subseteq Unit
  BY DEF TypeOK, GroupsType, RunType
<1>2. OrphansPlan \subseteq ActionType
  BY <1>1 DEF OrphansPlan, KnownType, ActionType
<1>3. EvictPlan \subseteq ActionType
  <2>1. known.whole \subseteq Target /\ known.chosen \subseteq Unit
    BY <1>1 DEF KnownType
  <2>2. \A t \in known.whole : [at |-> "target", target |-> t, unit |-> 0] \in ActionType
    BY <2>1 DEF ActionType
  <2>3. \A u \in known.chosen : [at |-> "unit", target |-> TargetOf[u], unit |-> u] \in ActionType
    BY <2>1 DEF ActionType
  <2> QED
    BY <2>2, <2>3 DEF EvictPlan
<1>4. DocPlan \subseteq ActionType
  BY <1>1 DEF DocPlan, KnownType, ActionType
<1>5. \A units \in SUBSET locked : WorkPlan(units) \subseteq ActionType
  BY <1>1 DEF WorkPlan, ActionType
<1>6. IncrementalPlan \subseteq ActionType
  BY <1>1 DEF IncrementalPlan, KnownType, ActionType
<1>7. asked \subseteq {"orphans", "evict", "incremental", "doc"}
  BY RequestsAssumption DEF TypeOK, OutsideType
<1> QED
  BY <1>2, <1>3, <1>4, <1>5, <1>6, <1>7 DEF Plans, LossyPlan

LEMMA TouchedType ==
  ASSUME DirsType, NEW u \in Unit, clock \in Nat, Touched(u)
  PROVE  /\ files' \in [Unit -> BOOLEAN]
         /\ built' \in [Unit -> Nat] /\ count' \in [Unit -> Nat]
<1>1. files' \in [Unit -> BOOLEAN]
  BY Update DEF DirsType, Touched
<1>2. built' \in [Unit -> Nat] /\ count' \in [Unit -> Nat]
  BY DEF DirsType, Touched
<1> QED
  BY <1>1, <1>2

LEMMA ScanType ==
  ASSUME TypeOK, ScanAll
  PROVE  last' \in [Unit -> Nat] /\ unsure' \subseteq Unit
  BY DEF ScanAll, TypeOK, DirsType, RunType

\* One step per action of Next.
LEMMA TypeStep == TypeOK /\ [Next]_vars => TypeOK'
<1> SUFFICES ASSUME TypeOK, [Next]_vars PROVE TypeOK'
  OBVIOUS
<1> USE DEF TypeOK, dirVars, outside, world, groupVars, guardVars, scanVars, passVars,
            planVars, runVars, sessionVars
<1>1. CASE Start
  <2>1. known' \in KnownType
    BY <1>1, InventoryType, SelectionType DEF Start
  <2>2. GroupsType'
    BY <1>1, <2>1 DEF Start, GroupsType
  <2> QED
    BY <1>1, <2>2 DEF Start, DirsType, OutsideType, RunType
<1>2. CASE NextGroup
  <2>1. PICK g \in Nat, twice \in BOOLEAN : Open(g, twice)
    BY <1>2 DEF NextGroup, First, GroupsType
  <2>2. RunType'
    BY <2>1 DEF Open, RunType, GroupsType, KnownType
  <2>3. GroupsType'
    BY <1>2, <2>1 DEF NextGroup, Open, GroupsType, First
  <2> QED
    BY <1>2, <2>2, <2>3 DEF NextGroup, DirsType, OutsideType
<1>3. CASE Done \/ GuardFails \/ ScanFails
  BY <1>3, EndsType DEF Done, GuardFails, ScanFails, DirsType, OutsideType
<1>4. CASE Guard
  <2>1. PICK u \in Unit : TakeLock(u) \/ LookForBuild(u)
    BY <1>4 DEF Guard, First, RunType
  <2>2. locked' \subseteq Unit /\ busy' \subseteq Unit /\ unsure' \subseteq Unit
        /\ held' \in [Unit -> Nat]
    <3>1. CASE TakeLock(u)
      <4>1. held \in [Unit -> Nat] /\ lockfile[u] \in Nat
        BY DEF RunType, DirsType
      <4>2. held' = held \/ held' = [held EXCEPT ![u] = lockfile[u]]
        BY <3>1 DEF TakeLock
      <4> QED
        BY <3>1, <4>1, <4>2 DEF TakeLock, RunType
    <3>2. CASE LookForBuild(u)
      BY <3>2 DEF LookForBuild, RunType
    <3> QED
      BY <2>1, <3>1, <3>2
  <2>3. RunType'
    BY <1>4, <2>2 DEF Guard, RunType
  <2> QED
    BY <1>4, <2>3 DEF Guard, DirsType, OutsideType, GroupsType
<1>5. CASE Scan
  BY <1>5, ScanType DEF Scan, DirsType, OutsideType, GroupsType, RunType
<1>6. CASE Plan
  <2>1. plan' \subseteq ActionType
    BY <1>6, PlanType DEF Plan
  <2> QED
    BY <1>6, <2>1 DEF Plan, DirsType, OutsideType, GroupsType, RunType
<1>7. CASE LetGo
  <2>1. again' \subseteq Nat
    BY <1>7 DEF LetGo, GroupsType, RunType
  <2> QED
    BY <1>7, <2>1, LetAllGoType DEF LetGo, DirsType, OutsideType, GroupsType
<1>8. CASE Act
  <2>1. PICK a \in plan : /\ Refuse(a) \/ RemoveDoc(a) \/ RemoveCache(a) \/ BeginRemoval(a) \/ WorkOn(a)
                          /\ plan' = plan \ {a}
    BY <1>8 DEF Act
  <2>2. a \in ActionType
    BY DEF RunType
  <2>3. inUse' \subseteq Unit
    <3>1. a.at = "files" => a.unit \in Unit
      BY <2>2 DEF ActionType
    <3> QED
      BY <2>1, <3>1 DEF RunType, Refuse, RemoveDoc, RemoveCache, BeginRemoval, WorkOn
  <2>4. RunType'
    BY <1>8, <2>1, <2>2, <2>3 DEF Act, RunType, Refuse, RemoveDoc, RemoveCache, BeginRemoval, WorkOn
  <2>5. DirsType'
    BY <2>1, <2>2
    DEF DirsType, OutsideType, Refuse, RemoveDoc, RemoveCache, BeginRemoval, WorkOn, ActionType
  <2>6. OutsideType'
    BY <1>8, <2>1, <2>2
    DEF Act, OutsideType, Refuse, RemoveDoc, RemoveCache, BeginRemoval, WorkOn, ActionType
  <2>7. GroupsType'
    BY <1>8, <2>1 DEF Act, GroupsType, Refuse, RemoveDoc, RemoveCache, BeginRemoval, WorkOn
  <2> QED
    BY <2>4, <2>5, <2>6, <2>7
<1>9. CASE Remove
  <2>1. PICK a \in removing :
          \/ RemoveBeside(a)
          \/ \E u \in Victims(a) : RemoveLockfile(u) \/ RemoveSome(u) \/ RemoveFiles(u)
          \/ Removed(a)
          \/ RemovalFails(a)
    BY <1>9 DEF Remove
  <2>2. a \in ActionType
    BY DEF RunType
  <2>3. UNCHANGED <<count, outside, groupVars, group, second, todo, held, busy,
                    scanVars, passVars, plan, tried>>
    BY <1>9 DEF Remove
  <2>4. CASE RemoveBeside(a)
    BY <2>2, <2>3, <2>4 DEF RemoveBeside, DirsType, OutsideType, GroupsType, RunType
  <2>5. CASE \E u \in Victims(a) : RemoveLockfile(u) \/ RemoveSome(u) \/ RemoveFiles(u)
    <3>1. PICK u \in Unit : RemoveLockfile(u) \/ RemoveSome(u) \/ RemoveFiles(u)
      BY <2>2, <2>5 DEF Victims, InUnit, UnitsOf, ActionType
    <3>2. lockfile' \in [Unit -> Nat]
      BY <3>1, Update DEF RemoveLockfile, RemoveSome, RemoveFiles, DirsType
    <3>3. unlinked' \subseteq Unit
      BY <3>1 DEF RemoveLockfile, RemoveSome, RemoveFiles, OutsideType
    <3>4. files' \in [Unit -> BOOLEAN] /\ cache' \in [Unit -> BOOLEAN]
      BY <3>1, Update DEF RemoveLockfile, RemoveSome, RemoveFiles, DirsType
    <3>5. built' \in [Unit -> Nat]
      BY <3>1, Update DEF RemoveLockfile, RemoveSome, RemoveFiles, DirsType, OutsideType
    <3>6. DirsType'
      BY <2>3, <3>1, <3>2, <3>4, <3>5 DEF RemoveLockfile, RemoveSome, RemoveFiles, DirsType
    <3>7. UNCHANGED <<asked, reason, job, opened, clock, crashes, pc, groupVars, runVars>>
      BY <2>3, <3>1 DEF RemoveLockfile, RemoveSome, RemoveFiles
    <3> QED
      BY <3>3, <3>6, <3>7 DEF OutsideType, GroupsType, RunType
  <2>6. CASE Removed(a) \/ RemovalFails(a)
    BY <2>3, <2>6 DEF Removed, RemovalFails, DirsType, OutsideType, GroupsType, RunType
  <2> QED
    BY <2>1, <2>4, <2>5, <2>6
<1>10. CASE EndPass
  <2>1. CASE NextPass \/ NextRound
    <3>1. last' \in [Unit -> Nat] /\ unsure' \subseteq Unit
      BY <2>1, ScanType DEF NextPass, NextRound, ScanAgain, RunType
    <3>2. pass' \in 1 .. LastPass /\ rounds' \in Nat
      BY <2>1, PassCount DEF NextPass, NextRound, RunType
    <3>3. progressed' \in BOOLEAN
      BY <2>1 DEF NextPass, NextRound, Progress
    <3>4. RunType'
      BY <2>1, <3>1, <3>2, <3>3 DEF NextPass, NextRound, NoteBusy, RunType
    <3> QED
      BY <1>10, <2>1, <3>4 DEF EndPass, NextPass, NextRound, DirsType, OutsideType, GroupsType
  <2>2. CASE EndRun
    BY <1>10, <2>2, LetAllGoType DEF EndPass, EndRun, DirsType, OutsideType, GroupsType
  <2> QED
    BY <1>10, <2>1, <2>2 DEF EndPass
<1>11. CASE Crash
  BY <1>11, EndsType DEF Crash, DirsType, OutsideType
<1>12. ASSUME NEW b \in Build, BuildLocks(b) \/ BuildEnds(b) PROVE TypeOK'
  <2>1. job[b].unit \in Unit
    BY <1>12 DEF BuildLocks, BuildEnds, OutsideType
  <2>2. /\ job' \in [Build -> JobType]
        /\ \A c \in Build : job'[c].at # "idle" => job'[c].unit \in Unit
    BY <1>12, <2>1 DEF BuildLocks, BuildEnds, OutsideType, JobType
  <2>3. CASE BuildLocks(b)
    <3>1. DirsType'
      BY <2>1, <2>3, TouchedType DEF BuildLocks, DirsType, OutsideType
    <3> QED
      BY <2>2, <2>3, <3>1 DEF BuildLocks, OutsideType, GroupsType, RunType
  <2>4. CASE BuildEnds(b)
    <3>1. built' \in [Unit -> Nat]
      BY <2>1, <2>4 DEF BuildEnds, DirsType, OutsideType
    <3>2. doc' \in [Target -> BOOLEAN] /\ cache' \in [Unit -> BOOLEAN]
      BY <2>4, Update DEF BuildEnds, DirsType
    <3> QED
      BY <2>2, <2>4, <3>1, <3>2 DEF BuildEnds, DirsType, OutsideType, GroupsType, RunType
  <2> QED
    BY <1>12, <2>3, <2>4
<1>13. ASSUME NEW b \in Build, NEW u \in Unit, BuildOpens(b, u) PROVE TypeOK'
  <2>1. opened' \in Nat /\ lockfile' \in [Unit -> Nat]
    <3>1. opened' \in Nat
      BY <1>13 DEF BuildOpens, OutsideType
    <3> QED
      BY <1>13, <3>1 DEF BuildOpens, DirsType
  <2>2. /\ job' \in [Build -> JobType]
        /\ \A c \in Build : job'[c].at # "idle" => job'[c].unit \in Unit
    BY <1>13, <2>1 DEF BuildOpens, OutsideType, JobType
  <2>3. tag' \in [Target -> BOOLEAN] /\ built' \in [Unit -> Nat]
    BY <1>13 DEF BuildOpens, DirsType, OutsideType
  <2> QED
    BY <1>13, <2>1, <2>2, <2>3 DEF BuildOpens, DirsType, OutsideType, GroupsType, RunType
<1>14. ASSUME NEW b \in Build, NEW u \in Unit, BuildQuietly(b, u) PROVE TypeOK'
  <2>1. /\ job' \in [Build -> JobType]
        /\ \A c \in Build : job'[c].at # "idle" => job'[c].unit \in Unit
    BY <1>14 DEF BuildQuietly, OutsideType, JobType
  <2>2. DirsType'
    BY <1>14, TouchedType DEF BuildQuietly, DirsType, OutsideType
  <2> QED
    BY <1>14, <2>1, <2>2 DEF BuildQuietly, OutsideType, GroupsType, RunType
<1>15. ASSUME NEW t \in Target, NEW why \in ReasonType, Disown(t, why) PROVE TypeOK'
  BY <1>15 DEF Disown, DirsType, OutsideType, GroupsType, RunType
<1>16. CASE Tick
  BY <1>16 DEF Tick, DirsType, OutsideType, GroupsType, RunType
<1>17. CASE UNCHANGED vars
  BY <1>17 DEF vars, DirsType, OutsideType, GroupsType, RunType
<1> QED
  BY <1>1, <1>2, <1>3, <1>4, <1>5, <1>6, <1>7, <1>8, <1>9, <1>10, <1>11, <1>12, <1>13,
     <1>14, <1>15, <1>16, <1>17 DEF Next, Run, ReasonType

-----------------------------------------------------------------------------
(* The lock files *)

LEMMA LockInit == Init => LockInv
  BY DEF Init, LockInv

\* Steps that leave the lock files, who holds them, and the builds alone.
LEMMA LockKept ==
  ASSUME LockInv, UNCHANGED <<lockfile, job>>, unlinked \subseteq unlinked',
         \/ UNCHANGED held /\ locked' \subseteq locked
         \/ held' = [u \in Unit |-> 0] /\ locked' = {},
         OutsideType
  PROVE  LockInv'
<1>1. CASE UNCHANGED held /\ locked' \subseteq locked
  BY <1>1 DEF LockInv
<1>2. CASE held' = [u \in Unit |-> 0] /\ locked' = {}
  BY <1>2 DEF LockInv, OutsideType
<1> QED
  BY <1>1, <1>2

LEMMA LockStep == TypeOK /\ LockInv /\ [Next]_vars => LockInv'
<1> SUFFICES ASSUME TypeOK, LockInv, [Next]_vars PROVE LockInv'
  OBVIOUS
<1> USE DEF TypeOK, dirVars, outside, world, groupVars, guardVars, scanVars, passVars,
            planVars, runVars, sessionVars
<1>1. CASE Start \/ NextGroup \/ Scan \/ Plan \/ UNCHANGED vars
  BY <1>1, LockKept DEF Start, NextGroup, Open, Scan, Plan, vars
<1>2. CASE Done \/ GuardFails \/ ScanFails \/ Crash \/ LetGo
  BY <1>2, LockKept DEF Done, GuardFails, ScanFails, Crash, Ends, LetGo, LetAllGo
<1>3. CASE EndPass
  BY <1>3, LockKept DEF EndPass, NextPass, NextRound, NoteBusy, EndRun, LetAllGo
<1>4. CASE Act
  <2>1. UNCHANGED lockfile
    BY <1>4 DEF Act, Refuse, RemoveDoc, RemoveCache, BeginRemoval, WorkOn
  <2> QED
    BY <1>4, <2>1, LockKept DEF Act
<1>5. CASE Guard
  <2>1. PICK u \in Unit : TakeLock(u) \/ LookForBuild(u)
    BY <1>5 DEF Guard, First, RunType
  <2>2. UNCHANGED <<lockfile, unlinked, job>>
    BY <1>5 DEF Guard
  <2>3. CASE TakeLock(u) /\ ~LockTaken(u, lockfile[u])
    <3>1. /\ held' = [held EXCEPT ![u] = lockfile[u]]
          /\ locked' = locked \cup {u}
          /\ lockfile[u] # 0
      BY <2>3 DEF TakeLock
    <3>2. \A b \in Build : BuildsIn(b, u) => job[b].lock # lockfile[u]
      BY <2>3 DEF LockTaken
    <3>3. \A v \in Unit : held'[v] = IF v = u THEN lockfile[u] ELSE held[v]
      BY <3>1 DEF RunType
    <3>4. \A b \in Build : job[b].at = "builds" /\ job[b].unit \notin Quiet =>
                              held'[job[b].unit] # job[b].lock
      BY <3>2, <3>3 DEF LockInv, BuildsIn, OutsideType
    <3> QED
      BY <2>2, <3>1, <3>3, <3>4 DEF LockInv, RunType
  <2>4. CASE TakeLock(u) /\ LockTaken(u, lockfile[u])
    BY <2>2, <2>4, LockKept DEF TakeLock
  <2>5. CASE LookForBuild(u)
    BY <2>2, <2>5 DEF LookForBuild, LockInv
  <2> QED
    BY <2>1, <2>3, <2>4, <2>5
<1>6. CASE Remove
  <2>1. PICK a \in removing :
          \/ RemoveBeside(a)
          \/ \E u \in Victims(a) : RemoveLockfile(u) \/ RemoveSome(u) \/ RemoveFiles(u)
          \/ Removed(a)
          \/ RemovalFails(a)
    BY <1>6 DEF Remove
  <2>2. UNCHANGED <<job, held>>
    BY <1>6 DEF Remove
  <2>3. CASE RemoveBeside(a) \/ Removed(a) \/ RemovalFails(a)
    BY <2>2, <2>3, LockKept DEF RemoveBeside, Removed, RemovalFails
  <2>4. ASSUME NEW u, RemoveSome(u) \/ RemoveFiles(u) PROVE LockInv'
    BY <2>2, <2>4, LockKept DEF RemoveSome, RemoveFiles
  <2>5. ASSUME NEW u, RemoveLockfile(u) PROVE LockInv'
    <3>1. /\ unlinked' = unlinked \cup {u} /\ UNCHANGED locked
          /\ \A v \in Unit \ unlinked' : lockfile'[v] = lockfile[v]
      BY <2>5 DEF RemoveLockfile, DirsType
    <3> QED
      BY <2>2, <3>1 DEF LockInv, OutsideType
  <2> QED
    BY <2>1, <2>3, <2>4, <2>5
<1>7. ASSUME NEW b \in Build, BuildLocks(b) PROVE LockInv'
  <2>1. UNCHANGED <<lockfile, unlinked, held, locked>>
    BY <1>7 DEF BuildLocks
  <2>2. /\ job[b].unit \notin Quiet => held[job[b].unit] # job[b].lock
        /\ job[b].at = "opened"
    BY <1>7 DEF BuildLocks, LockTaken
  <2>3. \A c \in Build : job'[c] = IF c = b THEN [job[b] EXCEPT !.at = "builds"] ELSE job[c]
    BY <1>7 DEF BuildLocks, OutsideType
  <2>4. /\ job'[b].at = "builds" /\ job'[b].unit = job[b].unit /\ job'[b].lock = job[b].lock
        /\ \A c \in Build \ {b} : job'[c] = job[c]
    BY <2>3 DEF OutsideType, JobType
  <2> QED
    BY <2>1, <2>2, <2>4 DEF LockInv
<1>8. ASSUME NEW b \in Build, BuildEnds(b) PROVE LockInv'
  <2>1. UNCHANGED <<lockfile, unlinked, held, locked>>
    BY <1>8 DEF BuildEnds
  <2>2. job'[b].at = "idle" /\ \A c \in Build \ {b} : job'[c] = job[c]
    BY <1>8 DEF BuildEnds, OutsideType
  <2> QED
    BY <2>1, <2>2 DEF LockInv
<1>9. ASSUME NEW b \in Build, NEW u \in Unit, BuildQuietly(b, u) PROVE LockInv'
  <2>1. UNCHANGED <<lockfile, unlinked, held, locked>>
    BY <1>9 DEF BuildQuietly
  <2>2. job'[b].unit \in Quiet /\ \A c \in Build \ {b} : job'[c] = job[c]
    BY <1>9 DEF BuildQuietly, OutsideType
  <2> QED
    BY <2>1, <2>2 DEF LockInv
<1>10. ASSUME NEW b \in Build, NEW u \in Unit, BuildOpens(b, u) PROVE LockInv'
  <2>1. UNCHANGED <<unlinked, held, locked>> /\ u \notin Quiet /\ opened' \in Nat \ {0}
    BY <1>10 DEF BuildOpens, OutsideType
  <2>2. \A v \in Unit : lockfile'[v] = IF v = u /\ lockfile[u] = 0 THEN opened' ELSE lockfile[v]
    BY <1>10 DEF BuildOpens, DirsType
  <2>3. /\ job'[b].at = "opened" /\ job'[b].unit = u /\ job'[b].lock = lockfile'[u]
        /\ \A c \in Build \ {b} : job'[c] = job[c]
    BY <1>10 DEF BuildOpens, OutsideType
  <2>4. lockfile'[u] # 0
    BY <2>1, <2>2
  <2>5. \A v \in Unit \ (Quiet \cup unlinked) : held[v] # 0 => held[v] = lockfile'[v]
    BY <2>2 DEF LockInv
  <2>6. \A c \in Build \ {b} :
          job[c].at # "idle" /\ job[c].unit \notin Quiet =>
            /\ job[c].lock # 0
            /\ job[c].unit \notin unlinked => job[c].lock = lockfile'[job[c].unit]
    BY <2>2 DEF LockInv, OutsideType
  <2> QED
    BY <2>1, <2>3, <2>4, <2>5, <2>6 DEF LockInv
<1>11. ASSUME NEW t \in Target, NEW why \in ReasonType, Disown(t, why) PROVE LockInv'
  BY <1>11, LockKept DEF Disown
<1>12. CASE Tick
  BY <1>12, LockKept DEF Tick
<1> QED
  BY <1>1, <1>2, <1>3, <1>4, <1>5, <1>6, <1>7, <1>8, <1>9, <1>10, <1>11, <1>12
  DEF Next, Run, ReasonType


-----------------------------------------------------------------------------
(* What a run has looked at *)

LEMMA GroupInit == Init => GroupInv
  BY DEF Init, GroupInv

LEMMA LetAllGoGroup ==
  ASSUME LetAllGo, pc' \in {"idle", "next"}
  PROVE  GroupInv'
  BY DEF LetAllGo, GroupInv

\* Steps a run makes no progress in, whatever the builds do meanwhile.
LEMMA GroupKept ==
  ASSUME GroupInv, UNCHANGED <<pc, known, group, todo, locked, busy, removing>>,
         unlinked \subseteq unlinked'
  PROVE  GroupInv'
  BY DEF GroupInv

LEMMA GroupStep == TypeOK /\ LockInv /\ GroupInv /\ [Next]_vars => GroupInv'
<1> SUFFICES ASSUME TypeOK, LockInv, GroupInv, [Next]_vars PROVE GroupInv'
  OBVIOUS
<1> USE DEF TypeOK, dirVars, outside, world, groupVars, guardVars, scanVars, passVars,
            planVars, runVars, sessionVars
<1>1. CASE Start
  BY <1>1 DEF Start, GroupInv
<1>2. CASE NextGroup
  <2>1. PICK g, twice : Open(g, twice)
    BY <1>2 DEF NextGroup
  <2>2. UNCHANGED <<unlinked, known>> /\ pc = "next"
    BY <1>2 DEF NextGroup
  <2>3. locked = {} /\ removing = {}
    BY <2>2 DEF GroupInv
  <2> QED
    BY <2>1, <2>2, <2>3 DEF Open, GroupInv
<1>3. CASE Done \/ GuardFails \/ ScanFails \/ Crash
  BY <1>3, LetAllGoGroup DEF Done, GuardFails, ScanFails, Crash, Ends
<1>4. CASE LetGo
  BY <1>4, LetAllGoGroup DEF LetGo
<1>5. CASE Guard
  <2>1. PICK u \in todo : /\ TakeLock(u) \/ LookForBuild(u)
                          /\ todo' = todo \ {u}
    BY <1>5 DEF Guard, First
  <2>2. /\ UNCHANGED <<pc, known, group, removing, unlinked>> /\ pc = "lock"
    BY <1>5 DEF Guard
  <2>3. \/ locked' = locked \cup {u} /\ busy' = busy
        \/ locked' = locked /\ busy' = busy \cup {u}
    BY <2>1 DEF TakeLock, LookForBuild
  <2> QED
    BY <2>1, <2>2, <2>3 DEF GroupInv
<1>6. CASE Scan \/ Plan
  BY <1>6 DEF Scan, Plan, GroupInv
<1>7. CASE Act
  <2>1. PICK a \in plan : Refuse(a) \/ RemoveDoc(a) \/ RemoveCache(a) \/ BeginRemoval(a) \/ WorkOn(a)
    BY <1>7 DEF Act
  <2>2. /\ UNCHANGED <<unlinked, known, group, todo, locked, busy>>
        /\ pc = "act" /\ pc' \in {"act", "remove"}
        /\ pc' = "act" => removing' = removing
    BY <1>7, <2>1 DEF Act, Refuse, RemoveDoc, RemoveCache, BeginRemoval, WorkOn
  <2> QED
    BY <2>2 DEF GroupInv
<1>8. CASE Remove
  <2>1. PICK a \in removing :
          \/ RemoveBeside(a)
          \/ \E u \in Victims(a) : RemoveLockfile(u) \/ RemoveSome(u) \/ RemoveFiles(u)
          \/ Removed(a)
          \/ RemovalFails(a)
    BY <1>8 DEF Remove
  <2>2. UNCHANGED <<known, group, todo, busy>> /\ pc = "remove"
    BY <1>8 DEF Remove
  <2>3. CASE \/ RemoveBeside(a)
             \/ \E u \in Victims(a) : RemoveLockfile(u) \/ RemoveSome(u) \/ RemoveFiles(u)
    <3>1. UNCHANGED <<pc, locked, removing>> /\ unlinked \subseteq unlinked'
      BY <2>3 DEF RemoveBeside, RemoveLockfile, RemoveSome, RemoveFiles
    <3> QED
      BY <2>2, <3>1, GroupKept
  <2>4. CASE RemovalFails(a)
    BY <2>2, <2>4 DEF RemovalFails, GroupInv
  \* A unit that is gone had its lock file removed by the run that held it.
  <2>5. CASE Removed(a)
    <3>1. \A u \in locked \ (Quiet \cup unlinked) : lockfile[u] # 0
      BY DEF LockInv, RunType
    <3>2. \A u \in Victims(a) : lockfile[u] = 0
      BY <2>5 DEF Removed, Gone, Missing
    <3>3. /\ locked' = locked \ Victims(a) /\ UNCHANGED unlinked
          /\ removing' = {} /\ pc' = "act"
      BY <2>5 DEF Removed
    <3>4. \A u \in locked \ (Quiet \cup unlinked) : u \in locked'
      BY <3>1, <3>2, <3>3
    <3> QED
      BY <2>2, <3>3, <3>4 DEF GroupInv
  <2> QED
    BY <2>1, <2>3, <2>4, <2>5
<1>9. CASE EndPass
  <2>1. CASE NextPass \/ NextRound
    BY <1>9, <2>1 DEF EndPass, NextPass, NextRound, NoteBusy, GroupInv
  <2>2. CASE EndRun
    BY <2>2, LetAllGoGroup DEF EndRun
  <2> QED
    BY <1>9, <2>1, <2>2 DEF EndPass
<1>10. ASSUME NEW b \in Build,
              BuildLocks(b) \/ BuildEnds(b)
                \/ \E u \in Unit : BuildOpens(b, u) \/ BuildQuietly(b, u)
       PROVE  GroupInv'
  BY <1>10, GroupKept DEF BuildLocks, BuildEnds, BuildOpens, BuildQuietly
<1>11. ASSUME NEW t \in Target, NEW why \in ReasonType, Disown(t, why) PROVE GroupInv'
  BY <1>11, GroupKept DEF Disown
<1>12. CASE Tick \/ UNCHANGED vars
  BY <1>12, GroupKept DEF Tick, vars
<1> QED
  BY <1>1, <1>2, <1>3, <1>4, <1>5, <1>6, <1>7, <1>8, <1>9, <1>10, <1>11, <1>12
  DEF Next, Run, ReasonType

-----------------------------------------------------------------------------
(* The theorems *)

THEOREM Inductive == Spec => []IInv
<1>1. Init => IInv
  BY TypeInit, LockInit, GroupInit DEF IInv
<1>2. IInv /\ [Next]_vars => IInv'
  BY TypeStep, LockStep, GroupStep DEF IInv
<1> QED
  BY <1>1, <1>2, PTL DEF Spec

\* Every reachable state has the shape TypeOK gives it.
THEOREM Typed == Spec => []TypeOK
  BY Inductive, PTL DEF IInv

LEMMA LocksExclude == IInv => Exclusion
<1> SUFFICES ASSUME IInv, NEW u \in locked \ (Quiet \cup unlinked), NEW b \in Build, BuildsIn(b, u)
             PROVE  FALSE
  BY DEF Exclusion
<1>1. held[u] = lockfile[u]
  BY DEF IInv, TypeOK, RunType, LockInv
<1>2. job[b].lock = lockfile[u] /\ held[u] # job[b].lock
  BY DEF IInv, LockInv, BuildsIn
<1> QED
  BY <1>1, <1>2

\* A build and a run are never at work in one unit whose lock file no run has
\* removed: the two would hold one lock.
THEOREM Excluded == Spec => []Exclusion
  BY Inductive, LocksExclude, PTL

\* What the guards on a removal come to, in the state it begins in.
LEMMA VictimsLocked ==
  ASSUME IInv, pc = "act", NEW a \in plan, a.at # "files", ~Refused(a),
         NEW u \in (known.units \cap Victims(a)) \ (unlinked \cup Quiet)
  PROVE  u \in locked
<1>1. CASE InUnit(a)
  BY <1>1 DEF Refused, Victims
<1>2. CASE ~InUnit(a)
  <2>1. Inside(a.target) # {} /\ busy \cap UnitsOf(a.target) = {} /\ TargetOf[u] = a.target
    BY <1>2 DEF Refused, Victims, UnitsOf
  <2>2. GroupOf[a.target] = group
    BY <2>1 DEF IInv, GroupInv, Inside, UnitsOf
  <2>3. u \in busy \cup locked
    BY <2>1, <2>2 DEF IInv, GroupInv
  <2>4. u \in Unit
    BY DEF IInv, TypeOK, GroupsType, KnownType
  <2> QED
    BY <2>1, <2>3, <2>4 DEF UnitsOf
<1> QED
  BY <1>1, <1>2

LEMMA NotRefused ==
  ASSUME IInv, pc = "act", NEW a \in plan, a.at # "files", ~Refused(a),
         NEW u \in (known.units \cap Victims(a)) \ (unlinked \cup Quiet),
         NEW b \in Build
  PROVE  ~BuildsIn(b, u)
  BY VictimsLocked, LocksExclude DEF Exclusion

\* The removal that begins is of an action no guard refuses.
LEMMA BeginsAllowed ==
  ASSUME TypeOK, GroupInv, [Next]_vars, NEW a \in plan, Removes(a)
  PROVE  ~Refused(a)
<1> USE DEF TypeOK, dirVars, outside, world, groupVars, guardVars, scanVars, passVars,
            planVars, runVars, sessionVars
<1>1. pc = "act" /\ removing = {} /\ plan # {} /\ a \in ActionType
  BY DEF Removes, GroupInv, RunType
<1>2. \/ removing' = {a}
      \/ a.at = "doc" /\ doc[a.target] /\ ~doc'[a.target]
      \/ a.at = "cache" /\ cache[a.unit] /\ ~cache'[a.unit]
  BY DEF Removes
<1>3. a.target \in Target /\ (a.at = "cache" => a.unit \in Unit)
  BY <1>1 DEF ActionType
<1>4. CASE Act
  <2>1. PICK c \in plan : Refuse(c) \/ RemoveDoc(c) \/ RemoveCache(c) \/ BeginRemoval(c) \/ WorkOn(c)
    BY <1>4 DEF Act
  <2>2. CASE Refuse(c) \/ WorkOn(c)
    BY <1>1, <1>2, <2>2 DEF Refuse, WorkOn
  <2>3. CASE BeginRemoval(c)
    <3>1. c = a
      BY <1>2, <2>3 DEF BeginRemoval
    <3> QED
      BY <2>3, <3>1 DEF BeginRemoval
  <2>4. CASE RemoveDoc(c)
    <3>1. a.at = "doc" /\ c.at = "doc" /\ a.target = c.target
      BY <1>1, <1>2, <1>3, <2>4 DEF RemoveDoc, DirsType
    <3> QED
      BY <2>4, <3>1 DEF RemoveDoc, Refused, InUnit
  <2>5. CASE RemoveCache(c)
    <3>1. a.at = "cache" /\ c.at = "cache" /\ a.unit = c.unit
      BY <1>1, <1>2, <1>3, <2>5 DEF RemoveCache, DirsType
    <3> QED
      BY <2>5, <3>1 DEF RemoveCache, Refused, InUnit
  <2> QED
    BY <2>1, <2>2, <2>3, <2>4, <2>5
<1>5. CASE LetGo \/ ScanFails \/ Crash
  BY <1>1, <1>2, <1>5 DEF LetGo, ScanFails, Crash, Ends, LetAllGo
<1>6. ASSUME NEW b \in Build, BuildEnds(b) PROVE FALSE
  <2>1. job[b].unit \in Unit
    BY <1>6 DEF BuildEnds, OutsideType
  <2>2. removing' = {}
    BY <1>1, <1>6 DEF BuildEnds
  <2>3. /\ doc[a.target] => doc'[a.target]
        /\ a.at = "cache" /\ cache[a.unit] => cache'[a.unit]
    BY <1>3, <1>6, <2>1 DEF BuildEnds, DirsType
  <2> QED
    BY <1>2, <2>2, <2>3
<1>7. ASSUME NEW b \in Build,
             BuildLocks(b) \/ \E u \in Unit : BuildOpens(b, u) \/ BuildQuietly(b, u)
      PROVE  FALSE
  BY <1>1, <1>2, <1>7 DEF BuildLocks, BuildOpens, BuildQuietly
<1>8. CASE (\E t \in Target, why \in ReasonType : Disown(t, why)) \/ Tick \/ UNCHANGED vars
  BY <1>1, <1>2, <1>8 DEF Disown, Tick, vars
<1>9. ~(Start \/ NextGroup \/ Done \/ Guard \/ GuardFails \/ Scan \/ Plan \/ Remove \/ EndPass)
  BY <1>1 DEF Start, NextGroup, Done, Guard, GuardFails, Scan, Plan, Remove, EndPass
<1> QED
  BY <1>4, <1>5, <1>6, <1>7, <1>8, <1>9 DEF Next, Run, ReasonType

\* No removal begins in a target while a unit of it that the inventory lists is
\* being built, unless a run has taken the unit's lock file: each such unit was
\* tried, none was busy, so all are locked, and builds keep out of those.
THEOREM KnownBuildsAreSpared == Spec => KnownBuildsSpared
<1> DEFINE Spared ==
      \A a \in plan : Removes(a) =>
        \A u \in (known.units \cap Victims(a)) \ (unlinked \cup Quiet) :
          \A b \in Build : ~BuildsIn(b, u)
<1>1. IInv /\ [Next]_vars => Spared
  <2> SUFFICES ASSUME IInv, [Next]_vars, NEW a \in plan, Removes(a),
                      NEW u \in (known.units \cap Victims(a)) \ (unlinked \cup Quiet),
                      NEW b \in Build
               PROVE  ~BuildsIn(b, u)
    OBVIOUS
  <2>1. ~Refused(a) /\ pc = "act" /\ a.at # "files"
    BY BeginsAllowed DEF IInv, Removes
  <2> QED
    BY <2>1, NotRefused
<1>2. IInv /\ [Next]_vars => [Spared]_vars
  BY <1>1
<1> QED
  BY <1>2, Inductive, PTL DEF Spec, KnownBuildsSpared

-----------------------------------------------------------------------------
(* Units without a lock *)

LEMMA QuietInit == Init => QuietInv
  BY DEF Init, QuietInv

LEMMA QuietKept ==
  ASSUME QuietInv, OutsideType, \A u \in Quiet : lockfile'[u] = lockfile[u],
         \A u \in Unit : files[u] => files'[u],
         UNCHANGED <<pc, known, group, todo, locked, busy, unlinked, unsure, last>>,
         locked \subseteq Unit, clock' \in Nat, clock <= clock', last \in [Unit -> Nat]
  PROVE  QuietInv'
<1>1. \A u \in locked : last[u] + Floor <= clock => last[u] + Floor <= clock'
  <2> SUFFICES ASSUME NEW u \in locked, last[u] + Floor <= clock PROVE last[u] + Floor <= clock'
    OBVIOUS
  <2>1. last[u] \in Nat /\ clock \in Nat /\ Floor \in Nat
    BY DEF OutsideType
  <2> QED
    BY <2>1
<1>2. \A u \in Quiet : lockfile'[u] = 0
  BY DEF QuietInv
<1> QED
  BY <1>1, <1>2 DEF QuietInv

LEMMA LetAllGoQuiet ==
  ASSUME QuietInv, UNCHANGED lockfile, pc' \in {"idle", "next"}
  PROVE  QuietInv'
  BY DEF QuietInv

\* What a scan finds of the locked units.
LEMMA ScanAllQuiet ==
  ASSUME TypeOK, AllThere, ScanAll, \A u \in Quiet : lockfile[u] = 0
  PROVE  /\ unsure \subseteq unsure'
         /\ \A u \in locked \cap Quiet :
              files[u] /\ (u \in unsure' \/ last'[u] + Floor <= clock)
<1> SUFFICES ASSUME NEW u \in locked \cap Quiet
             PROVE  files[u] /\ (u \in unsure' \/ last'[u] + Floor <= clock)
  BY DEF ScanAll
<1>1. u \in Unit /\ built[u] \in Nat /\ clock \in Nat /\ Floor \in Nat
  BY DEF TypeOK, RunType, DirsType, OutsideType
<1>2. files[u]
  BY DEF AllThere, Missing
<1>3. last'[u] = built[u] /\ (clock - built[u] < Floor => u \in unsure')
  BY <1>1 DEF ScanAll
<1> QED
  BY <1>1, <1>2, <1>3

LEMMA QuietStep == TypeOK /\ GroupInv /\ QuietInv /\ [Next]_vars => QuietInv'
<1> SUFFICES ASSUME TypeOK, GroupInv, QuietInv, [Next]_vars PROVE QuietInv'
  OBVIOUS
<1> USE DEF TypeOK, dirVars, outside, world, groupVars, guardVars, scanVars, passVars,
            planVars, runVars, sessionVars
<1>0. /\ locked \subseteq Unit /\ last \in [Unit -> Nat] /\ clock \in Nat
      /\ lockfile \in [Unit -> Nat] /\ files \in [Unit -> BOOLEAN]
  BY DEF RunType, OutsideType, DirsType
<1>1. CASE Start
  BY <1>1 DEF Start, QuietInv
<1>2. CASE NextGroup
  <2>1. PICK g, twice : Open(g, twice)
    BY <1>2 DEF NextGroup
  <2>2. UNCHANGED <<lockfile, unlinked, known>> /\ pc = "next"
    BY <1>2 DEF NextGroup
  <2>3. locked = {}
    BY <2>2 DEF GroupInv
  <2> QED
    BY <2>1, <2>2, <2>3 DEF Open, QuietInv
<1>3. CASE Done \/ GuardFails \/ ScanFails \/ Crash
  BY <1>3, LetAllGoQuiet DEF Done, GuardFails, ScanFails, Crash, Ends
<1>4. CASE LetGo
  BY <1>4, LetAllGoQuiet DEF LetGo
<1>5. CASE Guard
  <2>1. PICK u \in todo : /\ TakeLock(u) \/ LookForBuild(u)
                          /\ todo' = todo \ {u}
    BY <1>5 DEF Guard, First
  <2>2. UNCHANGED <<lockfile, pc, known, group, unlinked>> /\ pc = "lock"
    BY <1>5 DEF Guard
  <2>3. \/ locked' = locked \cup {u} /\ busy' = busy /\ (u \in Blind => u \in unsure')
        \/ locked' = locked /\ busy' = busy \cup {u}
    BY <2>1 DEF TakeLock, LookForBuild
  <2>4. unsure \subseteq unsure'
    BY <2>1 DEF TakeLock, LookForBuild
  <2> QED
    BY <2>1, <2>2, <2>3, <2>4 DEF QuietInv
<1>6. CASE Scan
  <2>1. ScanAll /\ AllThere /\ UNCHANGED <<world, known, guardVars>> /\ pc = "lock"
    BY <1>6 DEF Scan
  <2> QED
    BY <2>1, ScanAllQuiet DEF QuietInv
<1>7. CASE Plan
  BY <1>7 DEF Plan, QuietInv
<1>8. CASE Act
  <2>1. PICK a \in plan : Refuse(a) \/ RemoveDoc(a) \/ RemoveCache(a) \/ BeginRemoval(a) \/ WorkOn(a)
    BY <1>8 DEF Act
  <2>2. /\ UNCHANGED <<lockfile, files, unlinked, clock, known, group, todo, locked, busy, unsure, last>>
        /\ pc = "act" /\ pc' \in {"act", "remove"}
    BY <1>8, <2>1 DEF Act, Refuse, RemoveDoc, RemoveCache, BeginRemoval, WorkOn
  <2> QED
    BY <2>2 DEF QuietInv
<1>9. CASE Remove
  <2>1. PICK a \in removing :
          \/ RemoveBeside(a)
          \/ \E u \in Victims(a) : RemoveLockfile(u) \/ RemoveSome(u) \/ RemoveFiles(u)
          \/ Removed(a)
          \/ RemovalFails(a)
    BY <1>9 DEF Remove
  <2>2. UNCHANGED <<known, group, todo, busy, unsure, last, clock>> /\ pc = "remove"
    BY <1>9 DEF Remove
  <2>3. a \in ActionType
    BY DEF RunType
  <2>4. CASE RemoveBeside(a) \/ RemovalFails(a)
    BY <2>2, <2>4 DEF RemoveBeside, RemovalFails, QuietInv
  <2>5. ASSUME NEW u \in Victims(a), RemoveLockfile(u) \/ RemoveSome(u)
        PROVE  QuietInv'
    <3>1. UNCHANGED <<files, pc, locked>> /\ unlinked \subseteq unlinked'
      BY <2>5 DEF RemoveLockfile, RemoveSome
    <3>2. \A v \in Quiet : lockfile'[v] = 0
      BY <2>5, <1>0 DEF RemoveLockfile, RemoveSome, QuietInv
    <3> QED
      BY <2>2, <3>1, <3>2 DEF QuietInv
  <2>6. ASSUME NEW u \in Victims(a), RemoveFiles(u)
        PROVE  QuietInv'
    <3>1. /\ UNCHANGED <<lockfile, pc, locked>> /\ unlinked \subseteq unlinked'
          /\ u \in Quiet => u \in unlinked'
      BY <2>6 DEF RemoveFiles
    <3>2. \A v \in Unit \ {u} : files'[v] = files[v]
      BY <2>6, <1>0 DEF RemoveFiles
    <3> QED
      BY <2>2, <3>1, <3>2 DEF QuietInv
  \* A unit that is gone had its files taken by the run.
  <2>7. CASE Removed(a)
    <3>1. /\ locked' = locked \ Victims(a) /\ UNCHANGED <<lockfile, files, unlinked>>
          /\ pc' = "act"
      BY <2>7 DEF Removed
    <3>2. \A u \in Victims(a) : ~files[u]
      BY <2>7 DEF Removed, Gone, Missing
    <3>3. \A u \in (locked \cap Quiet) \ unlinked : u \in locked'
      BY <2>2, <3>1, <3>2 DEF QuietInv
    <3> QED
      BY <2>2, <3>1, <3>3 DEF QuietInv
  <2> QED
    BY <2>1, <2>4, <2>5, <2>6, <2>7
<1>10. CASE EndPass
  <2>1. UNCHANGED <<lockfile, files, unlinked, clock, known>> /\ pc = "act"
    BY <1>10 DEF EndPass
  <2>2. CASE NextPass \/ NextRound
    <3>1. /\ ScanAgain /\ UNCHANGED <<group, todo, locked>> /\ busy \subseteq busy'
          /\ pc' = "plan"
      BY <2>2 DEF NextPass, NextRound, NoteBusy
    <3>2. CASE applied \/ tried
      <4>1. AllThere /\ ScanAll
        BY <1>10, <3>1, <3>2 DEF EndPass, ScanAgain
      <4> QED
        BY <2>1, <3>1, <4>1, ScanAllQuiet DEF QuietInv
    <3>3. CASE ~(applied \/ tried)
      BY <2>1, <3>1, <3>3 DEF ScanAgain, QuietInv
    <3> QED
      BY <3>2, <3>3
  <2>3. CASE EndRun
    BY <2>1, <2>3, LetAllGoQuiet DEF EndRun
  <2> QED
    BY <1>10, <2>2, <2>3 DEF EndPass
<1>11. ASSUME NEW b \in Build, BuildLocks(b) \/ \E u \in Unit : BuildQuietly(b, u)
       PROVE  QuietInv'
  <2>1. \A u \in Unit : files[u] => files'[u]
    BY <1>11, <1>0 DEF BuildLocks, BuildQuietly, Touched
  <2> QED
    BY <1>11, <1>0, <2>1, QuietKept DEF BuildLocks, BuildQuietly
<1>12. ASSUME NEW b \in Build, NEW u \in Unit, BuildOpens(b, u)
       PROVE  QuietInv'
  <2>1. \A v \in Quiet : lockfile'[v] = lockfile[v]
    BY <1>12, <1>0 DEF BuildOpens
  <2> QED
    BY <1>12, <1>0, <2>1, QuietKept DEF BuildOpens
<1>13. CASE (\E b \in Build : BuildEnds(b)) \/ (\E t \in Target, why \in ReasonType : Disown(t, why))
  BY <1>13, <1>0, QuietKept DEF BuildEnds, Disown
<1>14. CASE Tick \/ UNCHANGED vars
  BY <1>14, <1>0, QuietKept DEF Tick, vars
<1> QED
  BY <1>1, <1>2, <1>3, <1>4, <1>5, <1>6, <1>7, <1>8, <1>9, <1>10, <1>11, <1>12, <1>13, <1>14
  DEF Next, Run, ReasonType

LEMMA QuietInvariant == Spec => []QuietInv
<1>1. IInv /\ QuietInv /\ [Next]_vars => QuietInv'
  BY QuietStep DEF IInv
<1> QED
  BY <1>1, QuietInit, Inductive, PTL DEF Spec

\* A removal takes a unit without a lock only where one could look for a build
\* and no file was young, whatever passes, rounds, visits and failures there are:
\* each such unit was looked at, none was busy or unsure.
THEOREM QuietUnitsAreSpared == Spec => QuietSpared
<1> DEFINE Spared ==
      \A a \in plan : Removes(a) =>
        \A u \in (known.units \cap Victims(a) \cap Quiet) \ unlinked :
          u \in locked \ Blind /\ last[u] + Floor <= clock
<1>1. IInv /\ QuietInv /\ [Next]_vars => Spared
  <2> SUFFICES ASSUME IInv, QuietInv, [Next]_vars, NEW a \in plan, Removes(a),
                      NEW u \in (known.units \cap Victims(a) \cap Quiet) \ unlinked
               PROVE  u \in locked \ Blind /\ last[u] + Floor <= clock
    OBVIOUS
  <2>1. ~Refused(a) /\ pc = "act"
    BY BeginsAllowed DEF IInv, Removes
  <2>2. u \in locked /\ u \notin unsure
    <3>1. CASE InUnit(a)
      BY <2>1, <3>1 DEF Refused, Victims
    <3>2. CASE ~InUnit(a)
      <4>1. /\ Inside(a.target) # {} /\ TargetOf[u] = a.target /\ u \in UnitsOf(a.target)
            /\ busy \cap UnitsOf(a.target) = {} /\ unsure \cap UnitsOf(a.target) = {}
        BY <2>1, <3>2 DEF Refused, Victims, UnitsOf
      <4>2. GroupOf[a.target] = group
        BY <4>1 DEF IInv, GroupInv, Inside, UnitsOf
      <4>3. u \in busy \cup locked
        BY <2>1, <4>1, <4>2 DEF QuietInv, IInv, GroupInv
      <4> QED
        BY <4>1, <4>3
    <3> QED
      BY <3>1, <3>2
  <2> QED
    BY <2>1, <2>2 DEF QuietInv
<1>2. IInv /\ QuietInv /\ [Next]_vars => [Spared]_vars
  BY <1>1
<1> QED
  BY <1>2, Inductive, QuietInvariant, PTL DEF Spec, QuietSpared

-----------------------------------------------------------------------------
(* Runs of the lossless passes alone *)

\* Nothing is removed, so no lock file goes, and every unit the inventory lists
\* keeps its own.
NothingGoes ==
  /\ \A a \in plan : a.at = "files"
  /\ removing = {} /\ unlinked = {}
  /\ \A u \in (known.units \cup todo) \ Quiet : lockfile[u] # 0
  /\ failed # "guard"
LosslessInv == asked = {} => NothingGoes

LEMMA LosslessStep == TypeOK /\ LosslessInv /\ [Next]_vars => LosslessInv'
<1> SUFFICES ASSUME TypeOK, LosslessInv, [Next]_vars, asked' = {} PROVE NothingGoes'
  BY DEF LosslessInv
<1> USE DEF dirVars, outside, world, groupVars, guardVars, scanVars, passVars, planVars,
            runVars, sessionVars
<1>1. asked = {}
  BY DEF Next, Run, Start, NextGroup, Done, Guard, GuardFails, Scan, ScanFails, Plan, LetGo, Act,
         Remove, EndPass, Crash, BuildLocks, BuildEnds, BuildOpens, BuildQuietly, Disown, Tick, vars
<1>2. NothingGoes
  BY <1>1 DEF LosslessInv
<1> USE <1>1, <1>2
<1>3. CASE Start
  <2>1. PICK chosen \in Selections(FoundUnits) : known' = Inventory(chosen)
    BY <1>3 DEF Start
  <2>2. \A u \in known'.units \ Quiet : lockfile[u] # 0
    BY <2>1 DEF Inventory, FoundUnits, Present
  <2> QED
    BY <1>3, <2>2 DEF Start, NothingGoes
<1>4. CASE NextGroup
  BY <1>4 DEF NextGroup, Open, NothingGoes
<1>5. CASE Guard \/ Scan
  BY <1>5 DEF Guard, Scan, NothingGoes
<1>6. CASE Done \/ ScanFails \/ Crash
  BY <1>6 DEF Done, ScanFails, Crash, Ends, LetAllGo, NothingKnown, NothingGoes
<1>7. ~GuardFails
  <2> SUFFICES ASSUME NEW u \in First(todo), u \notin Quiet, lockfile[u] = 0 PROVE FALSE
    BY DEF GuardFails
  <2> QED
    BY DEF First, NothingGoes
<1>8. CASE LetGo
  BY <1>8 DEF LetGo, LetAllGo, NothingGoes
<1>9. CASE Plan
  <2>1. plan' \in Plans
    BY <1>9 DEF Plan
  <2>2. plan' = {} \/ \E units \in SUBSET locked : plan' = WorkPlan(units)
    BY <2>1 DEF Plans
  <2> QED
    BY <1>9, <2>2 DEF Plan, WorkPlan, NothingGoes
<1>10. CASE Act
  <2>1. PICK a \in plan : /\ Refuse(a) \/ RemoveDoc(a) \/ RemoveCache(a) \/ BeginRemoval(a) \/ WorkOn(a)
                          /\ plan' = plan \ {a}
    BY <1>10 DEF Act
  <2>2. a.at = "files"
    BY DEF NothingGoes
  <2>3. UNCHANGED <<removing, lockfile>>
    BY <2>1, <2>2 DEF Refuse, RemoveDoc, RemoveCache, BeginRemoval, WorkOn
  <2> QED
    BY <1>10, <2>1, <2>3 DEF Act, NothingGoes
<1>11. ~Remove
  BY DEF Remove, NothingGoes
<1>12. CASE EndPass
  BY <1>12 DEF EndPass, NextPass, NoteBusy, NextRound, EndRun, LetAllGo, NothingGoes
<1>13. CASE \E b \in Build : BuildLocks(b) \/ BuildEnds(b)
                             \/ \E u \in Unit : BuildQuietly(b, u)
  BY <1>13 DEF BuildLocks, BuildEnds, BuildQuietly, NothingGoes
<1>14. ASSUME NEW b \in Build, NEW u \in Unit, BuildOpens(b, u)
       PROVE  NothingGoes'
  <2>1. \A v \in Unit : lockfile[v] # 0 => lockfile'[v] # 0
    BY <1>14 DEF BuildOpens, TypeOK, DirsType
  <2>2. known.units \cup todo \subseteq Unit
    BY DEF TypeOK, GroupsType, KnownType, RunType
  <2> QED
    BY <1>14, <2>1, <2>2 DEF BuildOpens, NothingGoes
<1>15. CASE (\E t \in Target, why \in ReasonType : Disown(t, why)) \/ Tick \/ UNCHANGED vars
  BY <1>15 DEF Disown, Tick, vars, NothingGoes
<1> QED
  BY <1>3, <1>4, <1>5, <1>6, <1>7, <1>8, <1>9, <1>10, <1>11, <1>12, <1>13, <1>14, <1>15
  DEF Next, Run, ReasonType

LEMMA LosslessInvariant == Spec => []LosslessInv
<1>1. Init => LosslessInv
  BY DEF Init, NothingKnown, NothingGoes, LosslessInv
<1>2. IInv /\ LosslessInv /\ [Next]_vars => LosslessInv'
  BY LosslessStep DEF IInv
<1> QED
  BY <1>1, <1>2, Inductive, PTL DEF Spec

\* With the lossless passes alone, a run and a build are never at work in one
\* unit that has a lock, with no exception (DESIGN.md, "Safety invariants" 1).
THEOREM LosslessIsAlone == Spec => []LosslessAlone
<1>1. IInv /\ LosslessInv => LosslessAlone
  BY LocksExclude DEF LosslessInv, NothingGoes, Exclusion, LosslessAlone, LockedAlone
<1> QED
  BY <1>1, Inductive, LosslessInvariant, PTL

\* With the lossless passes alone, no session ends for a missing guard, however
\* often a group is visited again: a unit once listed keeps its lock file.
THEOREM GuardsStay == Spec => []LosslessFindsGuards
<1>1. LosslessInv => LosslessFindsGuards
  BY DEF LosslessInv, NothingGoes, LosslessFindsGuards, GuardsFound
<1> QED
  BY <1>1, LosslessInvariant, PTL

-----------------------------------------------------------------------------
(* What was built since the inventory *)

\* The size cap aside, what is chosen was idle for a tick at least.
Patient == Idle > 0 /\ ~Capped

LEMMA NewInit == Init => NewInv
  BY DEF Init, NothingKnown, Aged, NewInv

\* Whoever writes in a unit does it now.
LEMMA BuiltNow ==
  ASSUME TypeOK, TypeOK', [Next]_vars, NEW v \in Unit
  PROVE  /\ built'[v] \in {built[v], clock} /\ clock <= clock'
         /\ count'[v] = count[v] \/ built'[v] = clock
<1> USE DEF dirVars, outside, world, groupVars, guardVars, scanVars, passVars, planVars,
            runVars, sessionVars
<1>1. /\ built \in [Unit -> Nat] /\ count \in [Unit -> Nat] /\ clock \in Nat /\ clock' \in Nat
      /\ \A b \in Build : job[b].at # "idle" => job[b].unit \in Unit
  BY DEF TypeOK, DirsType, OutsideType
<1>2. CASE Tick
  BY <1>1, <1>2 DEF Tick
<1>3. ASSUME UNCHANGED <<clock, count>>, NEW x, built' = built \/ built' = [built EXCEPT ![x] = clock]
      PROVE  /\ built'[v] \in {built[v], clock} /\ clock <= clock'
             /\ count'[v] = count[v]
  BY <1>1, <1>3
<1>4. CASE Act
  <2>1. PICK a \in plan : Refuse(a) \/ RemoveDoc(a) \/ RemoveCache(a) \/ BeginRemoval(a) \/ WorkOn(a)
    BY <1>4 DEF Act
  <2>2. /\ built' = built \/ built' = [built EXCEPT ![a.unit] = clock]
        /\ count' = count
    BY <2>1 DEF Refuse, RemoveDoc, RemoveCache, BeginRemoval, WorkOn
  <2> QED
    BY <1>3, <1>4, <2>2 DEF Act
<1>5. CASE Remove
  <2>1. PICK a \in removing :
          \/ RemoveBeside(a)
          \/ \E u \in Victims(a) : RemoveLockfile(u) \/ RemoveSome(u) \/ RemoveFiles(u)
          \/ Removed(a)
          \/ RemovalFails(a)
    BY <1>5 DEF Remove
  <2>2. \E x : built' = built \/ built' = [built EXCEPT ![x] = clock]
    BY <2>1 DEF RemoveBeside, RemoveLockfile, RemoveSome, RemoveFiles, Removed, RemovalFails
  <2> QED
    BY <1>3, <1>5, <2>2 DEF Remove
<1>6. ASSUME NEW b \in Build, NEW u \in Unit, BuildOpens(b, u) \/ BuildEnds(b)
      PROVE  /\ built'[v] \in {built[v], clock} /\ clock <= clock' /\ count'[v] = count[v]
  <2>1. /\ UNCHANGED <<clock, count>>
        /\ \E x : built' = built \/ built' = [built EXCEPT ![x] = clock]
    BY <1>6 DEF BuildEnds, BuildOpens
  <2> QED
    BY <1>3, <2>1
<1>7. ASSUME NEW u \in Unit, Touched(u), clock' = clock
      PROVE  /\ built'[v] \in {built[v], clock} /\ clock <= clock'
             /\ count'[v] = count[v] \/ built'[v] = clock
  BY <1>1, <1>7 DEF Touched
<1>8. ASSUME NEW b \in Build, BuildLocks(b) \/ \E u \in Unit : BuildQuietly(b, u)
      PROVE  clock' = clock /\ \E u \in Unit : Touched(u)
  BY <1>1, <1>8 DEF BuildLocks, BuildQuietly
<1>9. CASE UNCHANGED <<built, clock, count>>
  BY <1>1, <1>9
<1>10. ASSUME NEW b \in Build, BuildEnds(b)
       PROVE  /\ built'[v] \in {built[v], clock} /\ clock <= clock' /\ count'[v] = count[v]
  BY <1>6, <1>10
<1> QED
  BY <1>2, <1>4, <1>5, <1>6, <1>7, <1>8, <1>9, <1>10
  DEF Next, Run, Start, NextGroup, Done, Guard, GuardFails, Scan, ScanFails, Plan, LetGo, EndPass,
      Crash, Disown, vars, ReasonType

\* No build gets to work in a unit whose lock a run has.
LEMMA NoneGetsIn ==
  ASSUME IInv, [Next]_vars, NEW u \in locked \ (Quiet \cup unlinked)
  PROVE  count'[u] = count[u]
<1> USE DEF dirVars, outside, world, groupVars, guardVars, scanVars, passVars, planVars,
            runVars, sessionVars
<1>1. /\ u \in Unit /\ count \in [Unit -> Nat]
      /\ \A b \in Build : job[b].at # "idle" => job[b].unit \in Unit
  BY DEF IInv, TypeOK, DirsType, OutsideType, RunType
<1>2. ASSUME NEW b \in Build, BuildLocks(b) PROVE count'[u] = count[u]
  <2>1. job[b].at = "opened" /\ held[job[b].unit] # job[b].lock /\ Touched(job[b].unit)
    BY <1>2 DEF BuildLocks, LockTaken
  <2>2. job[b].unit # u
    BY <2>1, <1>1 DEF IInv, LockInv
  <2> QED
    BY <1>1, <2>1, <2>2 DEF Touched
<1>3. ASSUME NEW b \in Build, NEW v \in Unit, BuildQuietly(b, v) PROVE count'[u] = count[u]
  BY <1>1, <1>3 DEF BuildQuietly, Touched
<1>4. CASE Act
  BY <1>4 DEF Act, Refuse, RemoveDoc, RemoveCache, BeginRemoval, WorkOn
<1>5. CASE UNCHANGED count
  BY <1>5
<1> QED
  BY <1>2, <1>3, <1>4, <1>5
  DEF Next, Run, Start, NextGroup, Done, Guard, GuardFails, Scan, ScanFails, Plan, LetGo, Remove,
      EndPass, Crash, BuildOpens, BuildEnds, Disown, Tick, vars, ReasonType

\* A plan of evict or incremental is over what was scanned as old as the inventory
\* has it.
LEMMA PlansAged ==
  ASSUME TypeOK, \A t \in known.whole : known.units \cap UnitsOf(t) \subseteq known.chosen,
         Passes[pass] \in {"evict", "incremental"},
         NEW p \in Plans, NEW a \in p, NEW u \in known.units \cap Victims(a)
  PROVE  u \in Aged /\ last[u] = known.last[u]
<1>1. p \in {EvictPlan, IncrementalPlan, {}}
  BY DEF Plans, LossyPlan
<1>2. CASE p = EvictPlan
  <2> DEFINE whole == {t \in known.whole : \A v \in known.units \cap UnitsOf(t) : Evictable(v)}
  <2>1. \/ \E t \in whole : a = [at |-> "target", target |-> t, unit |-> 0]
        \/ \E v \in known.chosen : a = [at |-> "unit", target |-> TargetOf[v], unit |-> v] /\ Evictable(v)
    BY <1>2 DEF EvictPlan
  <2>2. CASE \E t \in whole : a = [at |-> "target", target |-> t, unit |-> 0]
    <3>1. PICK t \in whole : a = [at |-> "target", target |-> t, unit |-> 0]
      BY <2>2
    <3>2. u \in known.units \cap UnitsOf(t)
      BY <3>1 DEF Victims, InUnit
    <3> QED
      BY <3>1, <3>2 DEF Evictable, Aged
  <2>3. CASE \E v \in known.chosen : a = [at |-> "unit", target |-> TargetOf[v], unit |-> v] /\ Evictable(v)
    BY <2>3 DEF Victims, InUnit, Evictable, Aged
  <2> QED
    BY <2>1, <2>2, <2>3
<1>3. CASE p = IncrementalPlan
  BY <1>3 DEF IncrementalPlan, Victims, InUnit, Evictable, Aged
<1> QED
  BY <1>1, <1>2, <1>3

\* What a scan finds as old as the inventory has it, no build was in since.
LEMMA ScanAllNew ==
  ASSUME Patient, TypeOK, NewInv, ScanAll, NEW u \in Aged \cap locked, last'[u] = known.last[u]
  PROVE  count[u] = known.count[u]
<1>1. u \in Unit /\ built[u] \in Nat /\ known.last[u] \in Nat
  BY DEF TypeOK, RunType, DirsType, GroupsType, KnownType
<1>2. built[u] = known.last[u]
  BY <1>1 DEF ScanAll
<1>3. ~(known.last[u] + Idle <= built[u])
  BY <1>1, <1>2 DEF Patient
<1> QED
  BY <1>3 DEF NewInv

LEMMA NewStep ==
  ASSUME Patient, IInv, TypeOK', NewInv, [Next]_vars
  PROVE  NewInv'
<1> USE DEF dirVars, outside, world, groupVars, guardVars, scanVars, passVars, planVars,
            runVars, sessionVars
<1>0. /\ TypeOK
      /\ built \in [Unit -> Nat] /\ built' \in [Unit -> Nat] /\ clock \in Nat /\ clock' \in Nat
      /\ known.last \in [Unit -> Nat] /\ Aged \subseteq Unit
      /\ \A u \in Unit : built[u] <= clock
  BY DEF IInv, TypeOK, DirsType, OutsideType, GroupsType, KnownType, NewInv, Aged
<1>1. \A u \in Unit : built'[u] <= clock'
  <2> SUFFICES ASSUME NEW u \in Unit PROVE built'[u] <= clock'
    OBVIOUS
  <2>1. built'[u] \in {built[u], clock} /\ clock <= clock'
    BY <1>0, BuiltNow
  <2> QED
    BY <1>0, <2>1
<1>2. CASE Start
  <2>1. PICK chosen \in Selections(FoundUnits) : known' = Inventory(chosen)
    BY <1>2 DEF Start
  <2>2. chosen = IdleUnits(FoundUnits) /\ FoundUnits \subseteq Unit
    BY <2>1 DEF Selections, Patient, FoundUnits
  <2>3. /\ known'.units = FoundUnits /\ known'.chosen = chosen /\ known'.last = built
        /\ known'.count = count /\ known'.caches = OldCaches(FoundUnits)
        /\ known'.whole = Whole(FoundUnits, chosen)
    BY <2>1 DEF Inventory
  <2>4. /\ UNCHANGED <<built, clock, count>> /\ pc' = "next"
    BY <1>2 DEF Start
  <2>5. \A u \in Aged' : u \in FoundUnits /\ clock - built[u] >= Idle
    BY <2>2, <2>3 DEF Aged, OldCaches, IdleUnits
  <2>6. ASSUME NEW u \in Aged'
        PROVE  known'.last[u] + Idle <= clock' /\ count'[u] = known'.count[u]
    <3>1. u \in Unit /\ clock - built[u] >= Idle
      BY <2>2, <2>5
    <3>2. built[u] \in Nat /\ Idle \in Nat
      BY <1>0, <3>1
    <3>3. built[u] + Idle <= clock
      BY <1>0, <3>1, <3>2
    <3> QED
      BY <2>3, <2>4, <3>3
  <2>7. \A t \in known'.whole : known'.units \cap UnitsOf(t) \subseteq known'.chosen
    BY <2>3 DEF Whole
  <2> QED
    BY <1>1, <2>4, <2>6, <2>7 DEF NewInv, UnitsOf
<1>3. CASE known' = NothingKnown /\ pc' = "idle"
  <2>1. Aged' = {} /\ known'.whole = {}
    BY <1>3 DEF Aged, NothingKnown
  <2> QED
    BY <1>1, <1>3, <2>1 DEF NewInv
<1>4. CASE known' = known
  <2>1. \A u \in Aged' :
          /\ u \in Unit
          /\ known'.last[u] + Idle <= clock'
          /\ count'[u] # known'.count[u] => known'.last[u] + Idle <= built'[u]
    <3> SUFFICES ASSUME NEW u \in Aged
                 PROVE  /\ known.last[u] + Idle <= clock'
                        /\ count'[u] # known.count[u] => known.last[u] + Idle <= built'[u]
      BY <1>0, <1>4 DEF Aged
    <3>1. u \in Unit /\ built[u] \in Nat /\ built'[u] \in Nat /\ known.last[u] \in Nat
      BY <1>0
    <3>2. /\ built'[u] \in {built[u], clock} /\ clock <= clock'
          /\ count'[u] = count[u] \/ built'[u] = clock
      BY <1>0, <3>1, BuiltNow
    <3>3. /\ known.last[u] + Idle <= clock
          /\ count[u] # known.count[u] => known.last[u] + Idle <= built[u]
      BY DEF NewInv
    <3>4. built[u] <= clock
      BY <1>0, <3>1
    <3> QED
      BY <1>0, <3>1, <3>2, <3>3, <3>4
  <2>2. \A t \in known'.whole : known'.units \cap UnitsOf(t)' \subseteq known'.chosen
    BY <1>4 DEF NewInv, UnitsOf
  <2>3. ASSUME pc' \in {"plan", "act", "remove"}, NEW u \in (Aged \cap locked') \ (unlinked' \cup Quiet),
               last'[u] = known.last[u]
        PROVE  count'[u] = known.count[u]
    <3>1. CASE ScanAll /\ UNCHANGED <<count, locked>>
      BY <1>0, <2>3, <3>1, ScanAllNew
    <3>2. CASE /\ pc \in {"plan", "act", "remove"} /\ last' = last /\ locked' \subseteq locked
               /\ unlinked \subseteq unlinked'
      <4>1. u \in locked \ (Quiet \cup unlinked)
        BY <2>3, <3>2
      <4>2. count'[u] = count[u]
        BY <4>1, NoneGetsIn
      <4> QED
        BY <2>3, <3>2, <4>1, <4>2 DEF NewInv
    <3>3. CASE Remove
      <4>1. PICK a \in removing :
              \/ RemoveBeside(a)
              \/ \E v \in Victims(a) : RemoveLockfile(v) \/ RemoveSome(v) \/ RemoveFiles(v)
              \/ Removed(a)
              \/ RemovalFails(a)
        BY <3>3 DEF Remove
      <4>2. locked' \subseteq locked /\ unlinked \subseteq unlinked'
        BY <4>1 DEF RemoveBeside, RemoveLockfile, RemoveSome, RemoveFiles, Removed, RemovalFails
      <4> QED
        BY <3>2, <3>3, <4>2 DEF Remove
    <3>4. CASE Scan
      BY <3>1, <3>4 DEF Scan
    <3>5. CASE EndPass
      <4>1. pc = "act" /\ UNCHANGED <<count, unlinked>>
        BY <3>5 DEF EndPass
      <4>2. CASE NextPass \/ NextRound
        BY <3>1, <3>2, <4>1, <4>2 DEF NextPass, NextRound, ScanAgain, NoteBusy
      <4>3. CASE EndRun
        BY <2>3, <4>3 DEF EndRun
      <4> QED
        BY <3>5, <4>2, <4>3 DEF EndPass
    <3>6. CASE Act
      BY <3>2, <3>6 DEF Act
    <3>7. ASSUME NEW b \in Build,
                 BuildLocks(b) \/ BuildEnds(b)
                   \/ \E v \in Unit : BuildOpens(b, v) \/ BuildQuietly(b, v)
          PROVE  /\ UNCHANGED <<pc, last, locked, unlinked>>
      BY <3>7 DEF BuildLocks, BuildEnds, BuildOpens, BuildQuietly
    <3>8. CASE \/ Plan \/ Tick \/ UNCHANGED vars
               \/ \E t \in Target, why \in ReasonType : Disown(t, why)
      BY <2>3, <3>2, <3>8 DEF Plan, Tick, Disown, vars
    <3>9. CASE Start \/ NextGroup \/ Done \/ Guard \/ GuardFails \/ ScanFails \/ LetGo \/ Crash
      BY <2>3, <3>9 DEF Start, NextGroup, Open, Done, Guard, GuardFails, ScanFails, LetGo, Crash, Ends
    <3> QED
      BY <2>3, <3>2, <3>3, <3>4, <3>5, <3>6, <3>7, <3>8, <3>9 DEF Next, Run, ReasonType
  <2>4. ASSUME pc' \in {"act", "remove"}, Passes[pass'] \in {"evict", "incremental"},
               NEW a \in plan', NEW u \in known.units \cap Victims(a)
        PROVE  u \in Aged /\ last'[u] = known.last[u]
    <3>1. CASE Plan
      <4>1. plan' \in Plans /\ UNCHANGED <<pass, last>>
        BY <3>1 DEF Plan
      <4>2. \A t \in known.whole : known.units \cap UnitsOf(t) \subseteq known.chosen
        BY DEF NewInv
      <4> QED
        BY <1>0, <2>4, <4>1, <4>2, PlansAged
    <3>2. CASE pc \in {"act", "remove"} /\ plan' \subseteq plan /\ UNCHANGED <<pass, last>>
      BY <2>4, <3>2 DEF NewInv
    <3>3. CASE Act
      BY <3>2, <3>3 DEF Act
    <3>4. CASE Remove
      BY <3>2, <3>4 DEF Remove
    <3>5. ASSUME NEW b \in Build,
                 BuildLocks(b) \/ BuildEnds(b)
                   \/ \E v \in Unit : BuildOpens(b, v) \/ BuildQuietly(b, v)
          PROVE  UNCHANGED <<pc, plan, pass, last>>
      BY <3>5 DEF BuildLocks, BuildEnds, BuildOpens, BuildQuietly
    <3>6. CASE \/ Tick \/ UNCHANGED vars
               \/ \E t \in Target, why \in ReasonType : Disown(t, why)
      BY <2>4, <3>2, <3>6 DEF Tick, Disown, vars
    <3>7. CASE Start \/ NextGroup \/ Done \/ Guard \/ GuardFails \/ Scan \/ ScanFails \/ LetGo
               \/ EndPass \/ Crash
      BY <2>4, <3>7 DEF Start, NextGroup, Open, Done, Guard, GuardFails, Scan, ScanFails, LetGo,
                        EndPass, NextPass, NextRound, EndRun, Crash, Ends
    <3> QED
      BY <2>4, <3>1, <3>2, <3>3, <3>4, <3>5, <3>6, <3>7 DEF Next, Run, ReasonType
  <2>5. Aged' = Aged
    BY <1>4 DEF Aged
  <2> QED
    BY <1>1, <1>4, <2>1, <2>2, <2>3, <2>4, <2>5 DEF NewInv, Victims, UnitsOf, InUnit
<1>5. CASE Remove
  BY <1>4, <1>5 DEF Remove
<1> QED
  BY <1>2, <1>3, <1>4, <1>5
  DEF Next, Run, NextGroup, Done, Guard, GuardFails, Scan, ScanFails, Plan, LetGo, Act, EndPass,
      Crash, Ends, BuildLocks, BuildEnds, BuildOpens, BuildQuietly, Disown, Tick, vars, ReasonType

LEMMA NewInvariant == Patient => (Spec => []NewInv)
<1> SUFFICES ASSUME Patient PROVE Spec => []NewInv
  OBVIOUS
<1>1. IInv /\ NewInv /\ TypeOK' /\ [Next]_vars => NewInv'
  BY NewStep
<1> QED
  BY <1>1, NewInit, Inductive, Typed, PTL DEF Spec

\* Where an idle unit has been idle for a tick and there is no size cap, evict takes no
\* unit, and incremental nothing from one, that a build was in since the inventory chose
\* it, whatever was rescanned, removed half way or visited again in between.
THEOREM NewBuildsAreSpared == Idle > 0 /\ ~Capped => (Spec => NewBuildsSpared)
<1> SUFFICES ASSUME Patient PROVE Spec => NewBuildsSpared
  BY DEF Patient
<1> DEFINE Spared ==
      \A a \in plan :
        Removes(a) /\ Passes[pass] \in {"evict", "incremental"} =>
          \A u \in (known.units \cap Victims(a)) \ (unlinked \cup Quiet) :
            count[u] = known.count[u]
<1>1. IInv /\ NewInv /\ [Next]_vars => Spared
  <2> SUFFICES ASSUME IInv, NewInv, [Next]_vars, NEW a \in plan, Removes(a),
                      Passes[pass] \in {"evict", "incremental"},
                      NEW u \in (known.units \cap Victims(a)) \ (unlinked \cup Quiet)
               PROVE  count[u] = known.count[u]
    OBVIOUS
  <2>1. ~Refused(a) /\ pc = "act" /\ a.at # "files"
    BY BeginsAllowed DEF IInv, Removes
  <2>2. u \in locked
    BY <2>1, VictimsLocked
  <2> QED
    BY <2>1, <2>2 DEF NewInv
<1>2. IInv /\ NewInv /\ [Next]_vars => [Spared]_vars
  BY <1>1
<1> QED
  BY <1>2, Inductive, NewInvariant, PTL DEF Spec, NewBuildsSpared
=============================================================================
