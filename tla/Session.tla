------------------------------ MODULE Session ------------------------------
(***************************************************************************)
(* One Session::apply, unit by unit: the inventory taken before any lock   *)
(* (src/session.rs, src/inventory.rs), the groups it is visited in, the    *)
(* guards the engine takes on their units (src/engine.rs, run_with), and   *)
(* the removals of the lossy passes orphans, evict, incremental and doc    *)
(* under them.  What the lossless passes do inside a unit is module        *)
(* Engine's; here it is one step, WorkOn.                                  *)
(*                                                                         *)
(* A lock is a file at a path, and what a build or a run locks is the file *)
(* it opened.  lockfile tells which file is at the path now, so that one   *)
(* unlinked with its dir and made again by the next build is another lock. *)
(***************************************************************************)
EXTENDS Naturals, FiniteSets, Sequences

CONSTANTS
  Unit,            \* profile dirs, numbered in sorted order
  Target,          \* build dirs
  TargetOf,        \* [Unit -> Target]
  Group,           \* families, numbered in the order they are visited
  GroupOf,         \* [Target -> Group]
  Quiet,           \* units under Guard::Quiet; the others have Guard::Lock
  Blind,           \* quiet units where nobody can look for a build tool
  Later,           \* units no build has made yet
  Build,           \* build processes
  Requests,        \* sets of lossy passes that may be asked for
  Floor,           \* QUIET_MIN_AGE, in ticks
  Idle,            \* ticks without a build after which a unit is idle
  Capped,          \* whether evict also has a size cap
  WholeTargets,    \* --evict-whole-target
  HasBudget,       \* whether the locks of a group are held for a time only
  MayFail,         \* whether a removal may fail half way, or find a file in use
  MaxClock, MaxBuilds, MaxCrashes, MaxRounds  \* bounds of the model

ASSUME SessionAssumption ==
  /\ Unit \subseteq Nat /\ IsFiniteSet(Unit)
  /\ TargetOf \in [Unit -> Target]
  /\ Group \subseteq Nat /\ IsFiniteSet(Group)
  /\ GroupOf \in [Target -> Group]
  /\ Quiet \subseteq Unit
  /\ Blind \subseteq Quiet
  /\ Later \subseteq Unit
  /\ {Capped, WholeTargets, HasBudget, MayFail} \subseteq BOOLEAN
  /\ {Floor, Idle, MaxClock, MaxBuilds, MaxCrashes, MaxRounds} \subseteq Nat
ASSUME RequestsAssumption == Requests \subseteq SUBSET {"orphans", "evict", "incremental", "doc"}

VARIABLES
  lockfile,  \* [Unit -> Nat]: the file at .cargo-lock; 0: none
  files,     \* [Unit -> BOOLEAN]: whether anything else is in the dir
  cache,     \* [Unit -> BOOLEAN]: incremental/, in a unit of cargo's
  built,     \* [Unit -> Nat]: Ecosystem::last_used
  count,     \* [Unit -> Nat]: builds that have worked in the unit
  tag,       \* [Target -> BOOLEAN]: CACHEDIR.TAG
  doc,       \* [Target -> BOOLEAN]: doc/
  asked,     \* the lossy passes every session is asked for; it never changes
  reason,    \* [Target -> ...]: why the build dir has no owner, or "none"
  job,       \* [Build -> what a build process is at]
  opened,    \* builds started so far; a new lock file gets their number
  unlinked,  \* units whose lock file a run has removed, or whose files if it has none
  clock, crashes,
  pc,        \* where the session is
  known,     \* its inventory, and what was chosen from it
  queue,     \* groups not visited yet
  again,     \* groups to visit once more
  failed,    \* whether the last session ended in an error, and which
  \* One engine run:
  group, second,     \* the group, and whether it is visited again
  todo,              \* units whose guard is still to be taken
  held,              \* [Unit -> Nat]: the lock files it holds open; 0: none
  locked, busy,      \* units in the run, and units left out
  unsure,            \* quiet units a check said "maybe" of
  last,              \* [Unit -> Nat]: last_used, as scanned
  pass, rounds,
  plan, removing,    \* actions to come, and the removal under way
  inUse,             \* units of which a file was found in use in this pass
  tried, applied, progressed

dirVars == <<lockfile, files, cache, built, count, tag, doc>>
outside == <<asked, reason, job, opened, clock, crashes>>
world == <<dirVars, unlinked, outside>>
groupVars == <<known, queue, again, failed>>
guardVars == <<group, second, todo, held, locked, busy>>
scanVars == <<unsure, last>>
passVars == <<pass, rounds, progressed>>
planVars == <<plan, removing, inUse, tried, applied>>
runVars == <<guardVars, scanVars, passVars, planVars>>
sessionVars == <<pc, groupVars, runVars>>
vars == <<world, sessionVars>>

----------------------------------------------------------------------------
(* Build dirs, as an adapter sees them *)

UnitsOf(t) == {u \in Unit : TargetOf[u] = t}

\* Mutant of Present: any dir of a build dir.
PresentAlways(u) == TRUE
\* A profile dir is a unit for its lock file; a unit without one, for its dir.
Present(u) == IF u \in Quiet THEN files[u] ELSE lockfile[u] # 0
Claimed(t) == IF UnitsOf(t) \subseteq Quiet THEN \E u \in UnitsOf(t) : files[u]
                                             ELSE tag[t]
FoundUnits == {u \in Unit : Claimed(TargetOf[u]) /\ Present(u)}

----------------------------------------------------------------------------
(* What is chosen before any lock is taken *)

\* evict::select: the idle units, then under a cap the least recently built
\* ones, as many as it takes.
IdleUnits(units) == {u \in units : clock - built[u] >= Idle}
BuiltBefore(u, v) == built[u] < built[v] \/ (built[u] = built[v] /\ u < v)
Selections(units) ==
  LET idle == IdleUnits(units)
      kept == units \ idle
  IN  {idle} \cup (IF Capped
                   THEN {idle \cup {u \in kept : ~BuiltBefore(newest, u)} : newest \in kept}
                   ELSE {})

\* evict::whole_targets.
Whole(units, chosen) ==
  IF WholeTargets
  THEN {t \in Target : units \cap UnitsOf(t) # {} /\ units \cap UnitsOf(t) \subseteq chosen}
  ELSE {}

\* incremental::select.
OldCaches(units) == {u \in IdleUnits(units) : cache[u]}

NothingKnown == [units |-> {}, last |-> [u \in Unit |-> 0], chosen |-> {}, whole |-> {},
                 caches |-> {}, orphans |-> {}, docs |-> {}, count |-> [u \in Unit |-> 0]]

\* count is the model's own: the builds the inventory knows of.
Inventory(chosen) ==
  [units |-> FoundUnits,
   last |-> built,
   chosen |-> chosen,
   whole |-> Whole(FoundUnits, chosen),
   caches |-> OldCaches(FoundUnits),
   orphans |-> {[target |-> t, reason |-> reason[t]] :
                  t \in {s \in Target : Claimed(s) /\ reason[s] # "none"}},
   docs |-> {t \in Target : Claimed(t) /\ doc[t]},
   count |-> count]

----------------------------------------------------------------------------
(* One engine run *)

Passes == <<"orphans", "evict", "incremental", "doc", "lossless">>
LastPass == Len(Passes)

Inside(t) == locked \cap UnitsOf(t)

BuildsIn(b, u) == job[b].at = "builds" /\ job[b].unit = u
LockTaken(u, lock) ==
  \/ held[u] = lock
  \/ \E b \in Build : BuildsIn(b, u) /\ job[b].lock = lock

\* Pass::plan of the lossy passes: what was chosen, looked at again under the
\* lock.  "at" names the dir that goes.
\* Mutant of Evictable: the inventory is trusted.
EvictableAsKnown(u) == u \in locked
Evictable(u) == u \in locked /\ last[u] = known.last[u]
HasNoOwner(o) ==
  /\ Inside(o.target) # {}
  /\ \/ o.reason = "checkout" /\ reason[o.target] = "checkout"
     \/ /\ o.reason = "project" /\ reason[o.target] = "project"
        /\ \A u \in Inside(o.target) : clock - last[u] >= Idle
OrphansPlan == {[at |-> "target", target |-> o.target, unit |-> 0] :
                  o \in {p \in known.orphans : HasNoOwner(p)}}
EvictPlan ==
  LET whole == {t \in known.whole : \A u \in known.units \cap UnitsOf(t) : Evictable(u)}
  IN  {[at |-> "target", target |-> t, unit |-> 0] : t \in whole}
      \cup {[at |-> "unit", target |-> TargetOf[u], unit |-> u] :
              u \in {v \in known.chosen : TargetOf[v] \notin whole /\ Evictable(v)}}
IncrementalPlan == {[at |-> "cache", target |-> TargetOf[u], unit |-> u] :
                      u \in {v \in known.caches : Evictable(v) /\ cache[v]}}
DocPlan == {[at |-> "doc", target |-> t, unit |-> 0] :
              t \in {s \in known.docs : Inside(s) # {} /\ doc[s]}}
WorkPlan(units) == {[at |-> "files", target |-> TargetOf[u], unit |-> u] : u \in units}

LossyPlan == [orphans |-> OrphansPlan, evict |-> EvictPlan,
              incremental |-> IncrementalPlan, doc |-> DocPlan]

Plans ==
  IF Passes[pass] = "lossless" THEN {WorkPlan(units) : units \in SUBSET locked}
  ELSE {IF Passes[pass] \in asked THEN LossyPlan[Passes[pass]] ELSE {}}

\* Action::Remove takes a unit or a dir inside one, RemoveTarget what is around.
InUnit(a) == a.at \in {"unit", "cache"}

\* Mutants of Refused: busy units, and unsure ones, do not count.
RefusedUnlocked(a) ==
  IF InUnit(a) THEN a.unit \notin locked \/ a.unit \in unsure
               ELSE Inside(a.target) = {} \/ unsure \cap UnitsOf(a.target) # {}
RefusedSure(a) ==
  IF InUnit(a) THEN a.unit \notin locked
               ELSE Inside(a.target) = {} \/ busy \cap UnitsOf(a.target) # {}

\* The engine's own guard on a removal.
Refused(a) ==
  IF InUnit(a)
  THEN a.unit \notin locked \/ a.unit \in unsure
  ELSE \/ Inside(a.target) = {}
       \/ busy \cap UnitsOf(a.target) # {}
       \/ unsure \cap UnitsOf(a.target) # {}

\* Every unit a removal takes or takes from, known to the inventory or not.
Victims(a) == IF InUnit(a) THEN {a.unit} ELSE UnitsOf(a.target)

----------------------------------------------------------------------------
(* The session *)

Init ==
  /\ asked \in Requests
  /\ lockfile = [u \in Unit |-> IF u \in Later \cup Quiet THEN 0 ELSE 1]
  /\ files = [u \in Unit |-> u \notin Later]
  /\ cache = [u \in Unit |-> "incremental" \in asked /\ u \notin Later \cup Quiet]
  /\ built = [u \in Unit |-> 0]
  /\ count = [u \in Unit |-> 0]
  /\ tag = [t \in Target |-> \E u \in UnitsOf(t) : u \notin Later]
  /\ doc = [t \in Target |-> "doc" \in asked /\ \E u \in UnitsOf(t) : u \notin Later]
  /\ reason \in [Target -> IF "orphans" \in asked THEN {"none", "checkout", "project"}
                                                   ELSE {"none"}]
  /\ job = [b \in Build |-> [at |-> "idle", unit |-> 0, lock |-> 0]]
  /\ opened = 1
  /\ unlinked = {}
  /\ clock = Idle
  /\ crashes = 0
  /\ pc = "idle"
  /\ known = NothingKnown /\ queue = {} /\ again = {} /\ failed = "no"
  /\ group = 0 /\ second = FALSE /\ todo = {}
  /\ held = [u \in Unit |-> 0]
  /\ locked = {} /\ busy = {} /\ unsure = {}
  /\ last = [u \in Unit |-> 0]
  /\ pass = 1 /\ rounds = 1 /\ progressed = FALSE
  /\ plan = {} /\ removing = {} /\ inUse = {} /\ tried = FALSE /\ applied = FALSE

Start ==
  /\ pc = "idle"
  /\ \E t \in Target : Claimed(t)
  /\ pc' = "next"
  /\ \E chosen \in Selections(FoundUnits) : known' = Inventory(chosen)
  /\ queue' = {GroupOf[t] : t \in {s \in Target : Claimed(s)}}
  /\ again' = {}
  /\ failed' = "no"
  /\ UNCHANGED <<world, runVars>>

\* Mutant of LetAllGo: the run forgets its lock files, and leaves them open.
LetAllGoOpen ==
  /\ group' = 0 /\ second' = FALSE /\ todo' = {}
  /\ held' = held
  /\ locked' = {} /\ busy' = {} /\ unsure' = {}
  /\ last' = [u \in Unit |-> 0]
  /\ pass' = 1 /\ rounds' = 1 /\ progressed' = FALSE
  /\ plan' = {} /\ removing' = {} /\ inUse' = {} /\ tried' = FALSE /\ applied' = FALSE

\* At the end of a run its locks go, and with them all it knew.
LetAllGo ==
  /\ group' = 0 /\ second' = FALSE /\ todo' = {}
  /\ held' = [u \in Unit |-> 0]
  /\ locked' = {} /\ busy' = {} /\ unsure' = {}
  /\ last' = [u \in Unit |-> 0]
  /\ pass' = 1 /\ rounds' = 1 /\ progressed' = FALSE
  /\ plan' = {} /\ removing' = {} /\ inUse' = {} /\ tried' = FALSE /\ applied' = FALSE

Ends(why) ==
  /\ pc' = "idle"
  /\ known' = NothingKnown /\ queue' = {} /\ again' = {}
  /\ failed' = why
  /\ LetAllGo

Open(g, twice) ==
  /\ pc' = "lock"
  /\ group' = g /\ second' = twice
  /\ todo' = {u \in known.units : GroupOf[TargetOf[u]] = g}
  /\ UNCHANGED <<held, locked, busy, scanVars, passVars, planVars>>

First(S) == {n \in S : \A m \in S : n <= m}

\* Every group once, then those that ran out of budget once more.
NextGroup ==
  /\ pc = "next"
  /\ \/ \E g \in First(queue) :
          /\ Open(g, FALSE)
          /\ queue' = queue \ {g}
          /\ again' = again
     \/ \E g \in First(again) :
          /\ queue = {}
          /\ Open(g, TRUE)
          /\ again' = again \ {g}
          /\ queue' = queue
  /\ UNCHANGED <<world, known, failed>>

Done ==
  /\ pc = "next"
  /\ queue = {} /\ again = {}
  /\ Ends("no")
  /\ UNCHANGED world

(* Taking the guards of a group, in sorted order. *)

\* Mutant of TakeLock: a busy unit is passed over without a note.
TakeLockSilently(u) ==
  /\ u \notin Quiet
  /\ lockfile[u] # 0
  /\ IF LockTaken(u, lockfile[u])
     THEN UNCHANGED <<locked, held>>
     ELSE locked' = locked \cup {u} /\ held' = [held EXCEPT ![u] = lockfile[u]]
  /\ UNCHANGED <<busy, unsure>>

\* Another: a lock that is taken is no reason to leave the unit out.
TakeLockAnyway(u) ==
  /\ u \notin Quiet
  /\ lockfile[u] # 0
  /\ locked' = locked \cup {u}
  /\ held' = IF LockTaken(u, lockfile[u]) THEN held ELSE [held EXCEPT ![u] = lockfile[u]]
  /\ UNCHANGED <<busy, unsure>>

\* Another: the file is dropped, and the lock with it, once it was taken.
TakeLockDropped(u) ==
  /\ u \notin Quiet
  /\ lockfile[u] # 0
  /\ IF LockTaken(u, lockfile[u])
     THEN busy' = busy \cup {u} /\ locked' = locked
     ELSE locked' = locked \cup {u} /\ busy' = busy
  /\ UNCHANGED <<held, unsure>>

\* ProfileLock::try_lock_file.
TakeLock(u) ==
  /\ u \notin Quiet
  /\ lockfile[u] # 0
  /\ IF LockTaken(u, lockfile[u])
     THEN busy' = busy \cup {u} /\ UNCHANGED <<locked, held>>
     ELSE /\ locked' = locked \cup {u}
          /\ held' = [held EXCEPT ![u] = lockfile[u]]
          /\ busy' = busy
  /\ unsure' = unsure

\* sys::tool_running: a build there, none, or nobody can tell.
LookForBuild(u) ==
  /\ u \in Quiet
  /\ IF u \notin Blind /\ \E b \in Build : BuildsIn(b, u)
     THEN busy' = busy \cup {u} /\ UNCHANGED <<locked, unsure>>
     ELSE /\ locked' = locked \cup {u}
          /\ unsure' = IF u \in Blind THEN unsure \cup {u} ELSE unsure
          /\ busy' = busy
  /\ held' = held

Guard ==
  /\ pc = "lock"
  /\ \E u \in First(todo) :
       /\ TakeLock(u) \/ LookForBuild(u)
       /\ todo' = todo \ {u}
  /\ UNCHANGED <<world, pc, groupVars, group, second, last, passVars, planVars>>

\* "A missing Guard::Lock file is an error": the whole session ends with it.
GuardFails ==
  /\ pc = "lock"
  /\ \E u \in First(todo) : u \notin Quiet /\ lockfile[u] = 0
  /\ Ends("guard")
  /\ UNCHANGED world

\* scan_all: when each locked unit was last used, and which quiet ones hold
\* young files.  A unit that is not there any more is an error.
Missing(u) == lockfile[u] = 0 /\ ~files[u]
AllThere == \A u \in locked : ~Missing(u)
ScanAll ==
  /\ last' = [u \in Unit |-> IF u \in locked THEN built[u] ELSE 0]
  /\ unsure' = unsure \cup {u \in locked \cap Quiet : clock - built[u] < Floor}

Scan ==
  /\ pc = "lock"
  /\ todo = {}
  /\ AllThere
  /\ ScanAll
  /\ pc' = "plan"
  /\ UNCHANGED <<world, groupVars, guardVars, passVars, planVars>>

ScanFails ==
  /\ \/ pc = "lock" /\ todo = {}
     \/ pc = "act" /\ plan = {} /\ (applied \/ tried)
  /\ ~AllThere
  /\ Ends("scan")
  /\ UNCHANGED world

(* The passes. *)

Plan ==
  /\ pc = "plan"
  /\ pc' = "act"
  /\ plan' \in Plans
  /\ inUse' = {} /\ tried' = FALSE /\ applied' = FALSE
  /\ UNCHANGED <<world, groupVars, guardVars, scanVars, passVars, removing>>

\* Before an action: the locks of the group were held for long enough.
LetGo ==
  /\ HasBudget
  /\ pc = "act"
  /\ plan # {}
  /\ pc' = "next"
  /\ again' = IF second THEN again ELSE again \cup {group}
  /\ LetAllGo
  /\ UNCHANGED <<world, known, queue, failed>>

\* The removals of one plan are of dirs apart from each other: their order
\* makes no difference.
Refuse(a) ==
  /\ a.at # "files"
  /\ Refused(a)
  /\ tried' = TRUE
  /\ UNCHANGED <<dirVars, pc, removing, inUse, applied>>

RemoveDoc(a) ==
  /\ a.at = "doc"
  /\ ~Refused(a)
  /\ tried' = TRUE
  /\ \/ applied' = TRUE /\ doc' = [doc EXCEPT ![a.target] = FALSE]
     \/ MayFail /\ UNCHANGED <<applied, doc>>
  /\ UNCHANGED <<lockfile, files, cache, built, count, tag, pc, removing, inUse>>

\* Half gone, the dir is a newer entry of its unit.
RemoveCache(a) ==
  /\ a.at = "cache"
  /\ ~Refused(a)
  /\ tried' = TRUE
  /\ \/ applied' = TRUE /\ cache' = [cache EXCEPT ![a.unit] = FALSE] /\ built' = built
     \/ MayFail /\ built' = [built EXCEPT ![a.unit] = clock] /\ UNCHANGED <<applied, cache>>
  /\ UNCHANGED <<lockfile, files, count, tag, doc, pc, removing, inUse>>

BeginRemoval(a) ==
  /\ a.at \in {"target", "unit"}
  /\ ~Refused(a)
  /\ tried' = TRUE
  /\ removing' = {a}
  /\ pc' = "remove"
  /\ UNCHANGED <<dirVars, inUse, applied>>

\* A lossless pass: its temp files and renames are newer entries in the unit.
\* A file that a build has in use it leaves alone.
WorkOn(a) ==
  /\ a.at = "files"
  /\ applied' = TRUE
  /\ built' = IF files[a.unit] THEN [built EXCEPT ![a.unit] = clock] ELSE built
  /\ \/ inUse' = inUse
     \/ MayFail /\ inUse' = inUse \cup {a.unit}
  /\ UNCHANGED <<lockfile, files, cache, count, tag, doc, pc, removing, tried>>

Act ==
  /\ pc = "act"
  /\ \E a \in plan :
       /\ Refuse(a) \/ RemoveDoc(a) \/ RemoveCache(a) \/ BeginRemoval(a) \/ WorkOn(a)
       /\ plan' = plan \ {a}
  /\ UNCHANGED <<unlinked, outside, groupVars, guardVars, scanVars, passVars>>

(* remove_dir_all takes the entries of a dir one by one, in no order. *)

RemoveBeside(a) ==
  /\ a.at = "target"
  /\ tag[a.target] \/ doc[a.target]
  /\ tag' = [tag EXCEPT ![a.target] = FALSE]
  /\ doc' = [doc EXCEPT ![a.target] = FALSE]
  /\ UNCHANGED <<lockfile, files, cache, built, unlinked, pc, locked, removing, inUse, applied>>

RemoveLockfile(u) ==
  /\ lockfile[u] # 0
  /\ lockfile' = [lockfile EXCEPT ![u] = 0]
  /\ unlinked' = unlinked \cup {u}
  /\ UNCHANGED <<files, cache, built, tag, doc, pc, locked, removing, inUse, applied>>

\* What is still there of a dir that is being emptied is newer than before.
RemoveSome(u) ==
  /\ files[u]
  /\ built' = [built EXCEPT ![u] = clock]
  /\ UNCHANGED <<lockfile, files, cache, tag, doc, unlinked, pc, locked, removing, inUse, applied>>

RemoveFiles(u) ==
  /\ files[u]
  /\ files' = [files EXCEPT ![u] = FALSE]
  /\ cache' = [cache EXCEPT ![u] = FALSE]
  /\ unlinked' = IF u \in Quiet THEN unlinked \cup {u} ELSE unlinked
  /\ UNCHANGED <<lockfile, built, tag, doc, pc, locked, removing, inUse, applied>>

Gone(a) ==
  /\ \A u \in Victims(a) : Missing(u)
  /\ a.at = "target" => ~tag[a.target] /\ ~doc[a.target]

Removed(a) ==
  /\ Gone(a)
  /\ removing' = {} /\ applied' = TRUE
  /\ locked' = locked \ Victims(a)
  /\ pc' = "act"
  /\ UNCHANGED <<lockfile, files, cache, built, tag, doc, unlinked, inUse>>

\* The units stay in the run, though they may have turned out to be in use.  A
\* dir a build put something back into is not empty, and fails as well.
RemovalFails(a) ==
  /\ MayFail \/ \E u \in Victims(a) : lockfile[u] \notin {0, held[u]}
  /\ removing' = {}
  /\ pc' = "act"
  /\ inUse' \in {inUse, inUse \cup (Victims(a) \cap locked)}
  /\ UNCHANGED <<lockfile, files, cache, built, tag, doc, unlinked, locked, applied>>

Remove ==
  /\ pc = "remove"
  /\ \E a \in removing :
       \/ RemoveBeside(a)
       \/ \E u \in Victims(a) : RemoveLockfile(u) \/ RemoveSome(u) \/ RemoveFiles(u)
       \/ Removed(a)
       \/ RemovalFails(a)
  /\ UNCHANGED <<count, outside, groupVars, group, second, todo, held, busy,
                 scanVars, passVars, plan, tried>>

(* Between the passes: a unit found in use counts as busy (note_busy), and what
   changed something or was tried is rescanned. *)

NoteBusy ==
  /\ busy' = busy \cup (inUse \cap locked)
  /\ UNCHANGED <<group, second, todo, held, locked>>

Progress == progressed \/ applied
ScanAgain == IF applied \/ tried THEN ScanAll ELSE UNCHANGED scanVars

NextPass ==
  /\ pass < LastPass
  /\ pass' = pass + 1 /\ rounds' = rounds
  /\ progressed' = Progress
  /\ NoteBusy
  /\ ScanAgain
  /\ pc' = "plan"
  /\ UNCHANGED planVars

NextRound ==
  /\ pass = LastPass
  /\ Progress /\ rounds < MaxRounds
  /\ pass' = 1 /\ rounds' = rounds + 1
  /\ progressed' = FALSE
  /\ NoteBusy
  /\ ScanAgain
  /\ pc' = "plan"
  /\ UNCHANGED planVars

EndRun ==
  /\ pass = LastPass
  /\ ~Progress \/ rounds = MaxRounds
  /\ LetAllGo
  /\ pc' = "next"

EndPass ==
  /\ pc = "act"
  /\ plan = {}
  /\ applied \/ tried => AllThere
  /\ NextPass \/ NextRound \/ EndRun
  /\ UNCHANGED <<world, groupVars>>

Crash ==
  /\ pc # "idle"
  /\ crashes < MaxCrashes
  /\ crashes' = crashes + 1
  /\ Ends("crashed")
  /\ UNCHANGED <<dirVars, unlinked, asked, reason, job, opened, clock>>

----------------------------------------------------------------------------
(* Builds, checkouts and time *)

\* Anything left of a build dir.  Only in one made anew does cargo put its tag.
Exists(t) == tag[t] \/ doc[t] \/ \E u \in UnitsOf(t) : ~Missing(u)

Touched(u) ==
  /\ files' = [files EXCEPT ![u] = TRUE]
  /\ built' = [built EXCEPT ![u] = clock]
  /\ count' = [count EXCEPT ![u] = @ + 1]

BuildOpens(b, u) ==
  /\ u \notin Quiet
  /\ job[b].at = "idle"
  /\ opened <= MaxBuilds
  /\ opened' = opened + 1
  /\ lockfile' = [lockfile EXCEPT ![u] = IF @ = 0 THEN opened' ELSE @]
  /\ built' = IF lockfile[u] = 0 THEN [built EXCEPT ![u] = clock] ELSE built
  /\ job' = [job EXCEPT ![b] = [at |-> "opened", unit |-> u, lock |-> lockfile'[u]]]
  /\ tag' = [tag EXCEPT ![TargetOf[u]] = @ \/ ~Exists(TargetOf[u])]
  /\ UNCHANGED <<files, cache, count, doc, asked, reason, unlinked, clock, crashes, sessionVars>>

BuildLocks(b) ==
  /\ job[b].at = "opened"
  /\ ~LockTaken(job[b].unit, job[b].lock)
  /\ job' = [job EXCEPT ![b].at = "builds"]
  /\ Touched(job[b].unit)
  /\ UNCHANGED <<lockfile, cache, tag, doc, asked, reason, opened, unlinked, clock, crashes, sessionVars>>

BuildQuietly(b, u) ==
  /\ u \in Quiet
  /\ job[b].at = "idle"
  /\ opened <= MaxBuilds
  /\ opened' = opened + 1
  /\ job' = [job EXCEPT ![b] = [at |-> "builds", unit |-> u, lock |-> 0]]
  /\ Touched(u)
  /\ UNCHANGED <<lockfile, cache, tag, doc, asked, reason, unlinked, clock, crashes, sessionVars>>

\* What it wrote last is as old as its end.  It may have been a cargo doc, and
\* it may have compiled a workspace member.
BuildEnds(b) ==
  /\ job[b].at = "builds"
  /\ job' = [job EXCEPT ![b] = [at |-> "idle", unit |-> 0, lock |-> 0]]
  /\ built' = [built EXCEPT ![job[b].unit] = clock]
  /\ \/ doc' = doc
     \/ "doc" \in asked /\ doc' = [doc EXCEPT ![TargetOf[job[b].unit]] = TRUE]
  /\ \/ cache' = cache
     \/ /\ "incremental" \in asked /\ job[b].unit \notin Quiet /\ files[job[b].unit]
        /\ cache' = [cache EXCEPT ![job[b].unit] = TRUE]
  /\ UNCHANGED <<lockfile, files, count, tag, asked, reason, opened, unlinked, clock, crashes,
                 sessionVars>>

\* git worktree remove and repair, a branch switched there and back.
Disown(t, why) ==
  /\ "orphans" \in asked
  /\ reason[t] # why
  /\ reason' = [reason EXCEPT ![t] = why]
  /\ UNCHANGED <<dirVars, asked, job, opened, unlinked, clock, crashes, sessionVars>>

Tick ==
  /\ clock < MaxClock
  /\ clock' = clock + 1
  /\ UNCHANGED <<dirVars, asked, reason, job, opened, unlinked, crashes, sessionVars>>

Run ==
  \/ NextGroup \/ Done
  \/ Guard \/ GuardFails \/ Scan \/ ScanFails
  \/ Plan \/ LetGo \/ Act \/ Remove \/ EndPass

Next ==
  \/ Start \/ Run \/ Crash
  \/ \E b \in Build : BuildLocks(b) \/ BuildEnds(b)
                      \/ \E u \in Unit : BuildOpens(b, u) \/ BuildQuietly(b, u)
  \/ \E t \in Target, why \in {"none", "checkout", "project"} : Disown(t, why)
  \/ Tick

Spec == Init /\ [][Next]_vars

\* The run waits for no build; a build ends, and one that waits for its lock
\* gets it in the end, as flock wakes those asleep on it.
FairSpec ==
  /\ Spec
  /\ WF_vars(Run)
  /\ \A b \in Build : SF_vars(BuildLocks(b)) /\ WF_vars(BuildEnds(b))
----------------------------------------------------------------------------
(* Properties *)

ActionType == [at : {"target", "doc"}, target : Target, unit : {0}]
              \cup [at : {"unit", "cache", "files"}, target : Target, unit : Unit]
ReasonType == {"none", "checkout", "project"}
JobType == [at : {"idle", "opened", "builds"}, unit : Unit \cup {0}, lock : Nat]
KnownType ==
  [units : SUBSET Unit, last : [Unit -> Nat], chosen : SUBSET Unit, whole : SUBSET Target,
   caches : SUBSET Unit,
   orphans : SUBSET [target : Target, reason : ReasonType], docs : SUBSET Target,
   count : [Unit -> Nat]]

DirsType ==
  /\ lockfile \in [Unit -> Nat] /\ built \in [Unit -> Nat] /\ count \in [Unit -> Nat]
  /\ files \in [Unit -> BOOLEAN] /\ cache \in [Unit -> BOOLEAN]
  /\ tag \in [Target -> BOOLEAN] /\ doc \in [Target -> BOOLEAN]
OutsideType ==
  /\ asked \in Requests
  /\ reason \in [Target -> ReasonType]
  /\ job \in [Build -> JobType]
  /\ \A b \in Build : job[b].at # "idle" => job[b].unit \in Unit
  /\ opened \in Nat /\ clock \in Nat /\ crashes \in Nat
  /\ unlinked \subseteq Unit
GroupsType ==
  /\ pc \in {"idle", "next", "lock", "plan", "act", "remove"}
  /\ known \in KnownType
  /\ queue \subseteq Nat /\ again \subseteq Nat
RunType ==
  /\ group \in Nat /\ second \in BOOLEAN
  /\ todo \subseteq Unit /\ locked \subseteq Unit /\ busy \subseteq Unit /\ unsure \subseteq Unit
  /\ inUse \subseteq Unit
  /\ held \in [Unit -> Nat] /\ last \in [Unit -> Nat]
  /\ pass \in 1 .. LastPass /\ rounds \in Nat
  /\ plan \subseteq ActionType /\ removing \subseteq ActionType
  /\ tried \in BOOLEAN /\ applied \in BOOLEAN /\ progressed \in BOOLEAN

\* The shape of the state.
TypeOK == DirsType /\ OutsideType /\ GroupsType /\ RunType

\* A build and the run are never at work in one unit, unless a run has removed
\* the unit's lock file: then the two may hold two files, both of them once
\* .cargo-lock (DESIGN.md, "Safety invariants" 1).
Exclusion ==
  \A u \in locked \ (Quiet \cup unlinked) : \A b \in Build : ~BuildsIn(b, u)

\* Why it holds: as long as no run has unlinked it, the lock file a run or a
\* build has open is the one at the path, so all of them meet at one lock.
LockInv ==
  /\ \A u \in Unit \ (Quiet \cup unlinked) :
       held[u] # 0 => held[u] = lockfile[u]
  /\ \A b \in Build : job[b].at # "idle" /\ job[b].unit \notin Quiet =>
       /\ job[b].lock # 0
       /\ job[b].unit \notin unlinked => job[b].lock = lockfile[job[b].unit]
       /\ job[b].at = "builds" => held[job[b].unit] # job[b].lock
  /\ \A u \in locked \ Quiet : held[u] # 0

\* A run has looked at every unit of its group that the inventory lists.
GroupInv ==
  /\ \A u \in locked \cup todo : GroupOf[TargetOf[u]] = group
  /\ pc \in {"idle", "next"} => locked = {}
  /\ pc \notin {"idle", "next"} =>
       \A u \in known.units \ (Quiet \cup unlinked) :
         GroupOf[TargetOf[u]] = group => u \in todo \cup locked \cup busy
  /\ pc \in {"plan", "act", "remove"} => todo = {}
  /\ pc # "remove" => removing = {}

\* The inductive invariant of the proofs in Session_proofs.
IInv == TypeOK /\ LockInv /\ GroupInv

\* Exclusion with no exception, as "Safety invariants" 1 has it, where nothing
\* is removed: while a lossless run works on a unit it holds the lock that keeps
\* builds out.
LockedAlone == \A u \in locked \ Quiet : \A b \in Build : ~BuildsIn(b, u)
LosslessAlone == asked = {} => LockedAlone

\* What goes with a removal, be it a unit, its incremental/, a target or its
\* doc/.
Removes(a) ==
  /\ pc = "act"
  /\ a \in plan /\ a.at # "files"
  /\ \/ removing' = {a}
     \/ a.at = "doc" /\ doc[a.target] /\ ~doc'[a.target]
     \/ a.at = "cache" /\ cache[a.unit] /\ ~cache'[a.unit]

\* No removal begins in a target while a unit of it that the inventory lists
\* is being built (DESIGN.md, "Orphans pass": "a target with a running build
\* is never touched"), unless a run has taken that unit's lock file.
KnownBuildsSpared ==
  [][\A a \in plan : Removes(a) =>
       \A u \in (known.units \cap Victims(a)) \ (unlinked \cup Quiet) :
         \A b \in Build : ~BuildsIn(b, u)]_vars

\* A removal takes a quiet unit only where one could look for a build and saw
\* none, and no file in it was young when it was scanned (DESIGN.md, "Safety
\* tier without a build lock"), whatever pass and round it comes in, unless a
\* run has taken the unit's files before.
QuietSpared ==
  [][\A a \in plan : Removes(a) =>
       \A u \in (known.units \cap Victims(a) \cap Quiet) \ unlinked :
         u \in locked \ Blind /\ last[u] + Floor <= clock]_vars

\* Why it holds: every quiet unit of the group was looked at, is there until a
\* run takes its files, and is unsure where it was young or nobody could look.
QuietInv ==
  /\ \A u \in Quiet : lockfile[u] = 0
  /\ pc \notin {"idle", "next"} =>
       /\ \A u \in (known.units \cap Quiet) \ unlinked :
            GroupOf[TargetOf[u]] = group => u \in todo \cup locked \cup busy
       /\ locked \cap Blind \subseteq unsure
  /\ pc \in {"plan", "act", "remove"} =>
       \A u \in locked \cap Quiet :
         /\ u \in unlinked \/ files[u]
         /\ u \in unsure \/ last[u] + Floor <= clock

\* The same of every build in the target, as that sentence has it.
BuildsSpared ==
  [][\A a \in plan : Removes(a) =>
       \A u \in Victims(a) : \A b \in Build : ~BuildsIn(b, u)]_vars

\* evict takes no unit, and incremental nothing from a unit, that was built
\* since the inventory chose it (evict.rs: "a build that ran after the inventory
\* keeps its profile", incremental.rs: "keeps its cache"), with the same
\* exception.
NewBuildsSpared ==
  [][\A a \in plan :
       Removes(a) /\ Passes[pass] \in {"evict", "incremental"} =>
         \A u \in (known.units \cap Victims(a)) \ (unlinked \cup Quiet) :
           count[u] = known.count[u]]_vars

\* Why it holds, where every unit chosen was idle for at least a tick: what was built
\* since is newer than what the inventory says of it, no build gets into a unit that is
\* locked, and a plan has only units that were scanned as old as the inventory has them.
Aged == known.chosen \cup known.caches
NewInv ==
  /\ \A u \in Unit : built[u] <= clock
  /\ \A t \in known.whole : known.units \cap UnitsOf(t) \subseteq known.chosen
  /\ \A u \in Aged :
       /\ known.last[u] + Idle <= clock
       /\ count[u] # known.count[u] => known.last[u] + Idle <= built[u]
  /\ pc \in {"plan", "act", "remove"} =>
       \A u \in (Aged \cap locked) \ (unlinked \cup Quiet) :
         last[u] = known.last[u] => count[u] = known.count[u]
  /\ pc \in {"act", "remove"} /\ Passes[pass] \in {"evict", "incremental"} =>
       \A a \in plan : \A u \in known.units \cap Victims(a) :
         u \in Aged /\ last[u] = known.last[u]

\* A session does not fail over what it removed itself: a group that ran out
\* of budget is visited once more (session.rs, Control::lock_budget).
GuardsFound == failed # "guard"

\* A lossless session never meets a unit without its guard: the units of the
\* inventory that vanish meanwhile were removed by nobody but a lossy pass.
LosslessFindsGuards == asked = {} => GuardsFound

\* A build that waits for its lock gets to work: runs let go of every lock, the
\* one of a dir removed meanwhile included.
BuildsGetOn == \A b \in Build : job[b].at = "opened" ~> job[b].at = "builds"

=============================================================================
