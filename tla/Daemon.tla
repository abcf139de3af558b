------------------------------- MODULE Daemon -------------------------------
(***************************************************************************)
(* `dunnage daemon run` (src/daemon/mod.rs): when it looks, which units it *)
(* counts as due, the session it runs (src/session.rs, the run lock and    *)
(* the order of the groups), the list of build dirs that may stand in for  *)
(* a walk (src/known.rs), and what it remembers across restarts.           *)
(*                                                                         *)
(* Time runs in ticks, and every date of the code is a timer here: how     *)
(* long ago, or how long until.  A last_built is told from another by a    *)
(* number, stamp, that grows whenever a new second shows in it.            *)
(***************************************************************************)
EXTENDS Naturals, FiniteSets, FiniteSetsExt

CONSTANTS
  Unit,            \* build dirs, of one unit each
  Group,           \* families of one build system each, in the order of visits
  GroupOf,         \* [Unit -> Group]
  Family,
  FamilyOf,        \* [Group -> Family]
  Quiet,           \* units whose builds take no lock
  Later,           \* units no build has made yet
  MinAge, QuietAge, Interval, Rediscover,   \* in ticks
  Setups,          \* how long a list of build dirs holds, whether users clean, and the
                   \* units the config has a session leave alone
  MaxBuilds,       \* a bound of the model: builds, and cleans
  MaxTroubles      \* another: runs out of budget, manual runs, and kills

ASSUME DaemonAssumption ==
  /\ Group \subseteq Nat /\ IsFiniteSet(Unit)
  /\ GroupOf \in [Unit -> Group]
  /\ FamilyOf \in [Group -> Family]
  /\ Quiet \subseteq Unit /\ Later \subseteq Unit
  /\ {MinAge, QuietAge, Interval, Rediscover} \subseteq Nat \ {0}
  /\ Setups \subseteq [every : Nat, cleans : BOOLEAN, skips : SUBSET Unit]
  /\ {MaxBuilds, MaxTroubles} \subseteq Nat

VARIABLES
  setup,      \* one of Setups; it never changes
  there,      \* units there are
  stamp,      \* [Unit -> Nat]: last_built
  age,        \* [Unit -> Nat]: ticks since then, up to the unit's floor
  coldFor,    \* [Unit -> Nat]: ticks since a build wrote, up to the floor
  work,       \* units with files the passes have not been over
  building,   \* units a build is at work in
  list,       \* known.rs: the dirs, and how long they still hold
  lock,       \* who has the run lock
  pc,         \* where the daemon is
  units,      \* State::units, by dir
  last, left, \* [Unit -> Nat]: last_built_unix, and the ticks until due_unix
  visited,    \* [Unit -> Nat]: visited_build_unix; 0: none
  untilWalk,  \* ticks until the next discovery
  rediscover, \* Request::rediscover
  ready, sleep,
  saved,      \* daemon.json
  dirs,       \* the inventory of the session
  queue, again, second,         \* its groups to visit
  group, locked,                \* the visit under way
  outcome,    \* [Family -> the last report under that path]
  busy,       \* units of any report's busy list
  seen,       \* [Unit -> Nat]: the stamps when the last visit began
  finished,   \* [Unit -> Nat]: the stamps the last visit that was done began with
  builds, troubles

world == <<setup, there, stamp, age, coldFor, work, building>>
counters == <<builds, troubles>>
state == <<units, last, left, visited, untilWalk, rediscover, ready, sleep>>
visit == <<queue, again, second, group, locked, outcome, busy, seen, finished>>
session == <<dirs, visit>>
vars == <<world, counters, list, lock, pc, state, saved, session>>

Floor(u) == IF u \in Quiet THEN Max({MinAge, QuietAge}) ELSE MinAge
Down(n) == IF n > 0 THEN n - 1 ELSE 0

NoList == [dirs |-> {}, left |-> 0]

Init ==
  /\ setup \in Setups
  /\ there = Unit \ Later
  /\ stamp = [u \in Unit |-> IF u \in Later THEN 0 ELSE 1]
  /\ age = [u \in Unit |-> Floor(u)] /\ coldFor = age
  /\ work = there /\ building = {}
  /\ list = NoList
  /\ lock = "free"
  /\ pc = "down"
  /\ units = {} /\ ready = {}
  /\ last = [u \in Unit |-> 0] /\ left = last /\ visited = last
  /\ untilWalk = 0 /\ sleep = 0 /\ rediscover = FALSE
  /\ saved = [units |-> {}, visited |-> visited]
  /\ dirs = {} /\ queue = {} /\ again = {} /\ second = FALSE /\ group = 0 /\ locked = {}
  /\ outcome = [f \in Family |-> "none"] /\ busy = {}
  /\ seen = visited /\ finished = visited
  /\ builds = 0 /\ troubles = 0

----------------------------------------------------------------------------
(* A look *)

Pending(u) == last[u] > visited[u]

\* It starts from the file the last one left.
Start ==
  /\ pc = "down"
  /\ pc' = "look"
  /\ units' = saved.units /\ visited' = saved.visited
  /\ untilWalk' = 0 /\ rediscover' = FALSE
  /\ UNCHANGED <<world, counters, list, lock, last, left, ready, sleep, saved, session>>

\* Mutant of Carried: a unit found again starts anew.
CarriedNone(u) == 0
\* discover: what was known of a unit found again.
Carried(u) == IF u \in units THEN visited[u] ELSE 0

Discover ==
  IF untilWalk = 0
  THEN /\ units' = there
       /\ visited' = [u \in Unit |-> IF u \in there THEN Carried(u) ELSE 0]
       /\ untilWalk' = Rediscover
       /\ rediscover' = TRUE
  ELSE UNCHANGED <<units, visited, untilWalk, rediscover>>

Refresh ==
  /\ last' = [u \in Unit |-> IF u \in units' \cap there THEN stamp[u] ELSE 0]
  /\ left' = [u \in Unit |-> Floor(u) - age[u]]
  /\ ready' = {u \in units' : Pending(u)' /\ left'[u] = 0}

Look ==
  /\ pc = "look"
  /\ Discover
  /\ Refresh
  /\ pc' = IF ready' = {} THEN "write" ELSE "find"
  /\ UNCHANGED <<world, counters, list, lock, sleep, saved, session>>

----------------------------------------------------------------------------
(* The session it runs *)

\* known::discover: the list while it holds, each dir claimed again; or a walk,
\* that writes the list.  A root that changed at its top asks for a walk at any
\* time.
Found(walk, found) ==
  \/ /\ ~walk
     /\ list.left > 0
     /\ found = list.dirs \cap there
     /\ list' = list
  \/ /\ found = there
     /\ list' = [dirs |-> there, left |-> setup.every]

\* What the config leaves alone is left out only after the check that there is anything:
\* the daemon, that does not ask the config, counts it as visited all the same.
Find ==
  /\ pc = "find"
  /\ \E found \in {there, list.dirs \cap there} :
       /\ Found(rediscover, found)
       /\ dirs' = found \ setup.skips
       /\ pc' = IF found = {} THEN "write" ELSE "lock"
  /\ UNCHANGED <<world, counters, lock, state, saved, visit>>

NoSession ==
  /\ dirs' = {} /\ queue' = {} /\ again' = {} /\ second' = FALSE
  /\ group' = 0 /\ locked' = {}
  /\ outcome' = [f \in Family |-> "none"] /\ busy' = {}
  /\ seen' = [u \in Unit |-> 0]

\* The run lock is tried; while another run holds it, the units stay pending.
TakeLock ==
  /\ pc = "lock"
  /\ \/ /\ lock = "free"
        /\ lock' = "daemon"
        /\ pc' = "next"
        /\ queue' = {GroupOf[u] : u \in dirs}
        /\ UNCHANGED <<dirs, again, second, group, locked, outcome, busy, seen>>
     \/ /\ lock # "free"
        /\ pc' = "write"
        /\ NoSession
        /\ lock' = lock
  /\ UNCHANGED <<world, counters, list, state, saved, finished>>

\* The groups in order; then, once more, those that ran out of lock budget.
Members(g) == {u \in dirs : GroupOf[u] = g}

SecondVisits ==
  /\ pc = "next"
  /\ queue = {} /\ again # {} /\ ~second
  /\ queue' = again
  /\ again' = {} /\ second' = TRUE
  /\ UNCHANGED <<world, counters, list, lock, pc, state, saved, dirs, group, locked, outcome,
                 busy, seen, finished>>

\* A unit is locked, or a build is at work in it.  A look at the processes may
\* miss the build of a quiet unit.
Visit ==
  /\ pc = "next"
  /\ queue # {}
  /\ LET g == Min(queue) IN
       /\ Members(g) \subseteq there
       /\ group' = g
       /\ queue' = queue \ {g}
       /\ \E missed \in SUBSET (Quiet \cap building) :
            /\ locked' = Members(g) \ (building \ missed)
            /\ busy' = busy \cup ((Members(g) \cap building) \ missed)
  /\ seen' = stamp
  /\ pc' = "visit"
  /\ UNCHANGED <<world, counters, list, lock, state, saved, dirs, again, second, outcome,
                 finished>>

\* A unit that is not there any more when it is locked or scanned is an error, and
\* the session ends with it.
VisitFails ==
  /\ \/ pc = "next" /\ queue # {} /\ ~(Members(Min(queue)) \subseteq there)
     \/ pc = "visit" /\ ~(locked \subseteq there)
  /\ pc' = "write"
  /\ lock' = "free"
  /\ NoSession
  /\ UNCHANGED <<world, counters, list, state, saved, finished>>

\* last_built has whole seconds: two changes in one are one.
Touched(us) ==
  /\ stamp' = [u \in Unit |-> IF u \in us /\ (age[u] > 0 \/ stamp[u] = 0)
                              THEN stamp[u] + 1 ELSE stamp[u]]
  /\ age' = [u \in Unit |-> IF u \in us THEN 0 ELSE age[u]]

\* A run changes files that are cold, if there is anything to do among them.
\* Its renames are changes that last_built shows.
Cold(us) == {u \in us \cap there : coldFor[u] = Floor(u)}
Acts(us, acted) ==
  /\ acted \subseteq Cold(us)
  /\ acted # {} => Cold(us) \cap work # {}
  /\ Touched(acted)

VisitEnds == group' = 0 /\ locked' = {} /\ seen' = [u \in Unit |-> 0]

VisitDone ==
  /\ pc = "visit"
  /\ pc' = "next"
  /\ \E acted \in SUBSET locked : Acts(locked, acted)
  /\ work' = work \ Cold(locked)
  /\ outcome' = [outcome EXCEPT ![FamilyOf[group]] = "done"]
  /\ finished' = [u \in Unit |-> IF u \in locked THEN seen[u] ELSE finished[u]]
  /\ VisitEnds
  /\ UNCHANGED <<setup, there, coldFor, building, counters, list, lock, state, saved, dirs,
                 queue, again, second, busy>>

Trouble == troubles < MaxTroubles /\ troubles' = troubles + 1

\* The budget ran out: part of the work is done.
VisitLetsGo ==
  /\ pc = "visit"
  /\ Trouble
  /\ pc' = "next"
  /\ \E acted \in SUBSET locked :
       /\ Acts(locked, acted)
       /\ work' \in {work, work \ acted}
  /\ outcome' = [outcome EXCEPT ![FamilyOf[group]] = "early"]
  /\ again' = IF second THEN again ELSE again \cup {group}
  /\ VisitEnds
  /\ UNCHANGED <<setup, there, coldFor, building, builds, list, lock, state,
                 saved, dirs, queue, second, busy, finished>>

LetGoEarly == \E f \in Family : outcome[f] = "early"

\* Mutant of MarkVisited: with last_built as it is after the run.
MarkVisitedNow ==
  visited' = [u \in Unit |-> IF ~LetGoEarly /\ u \in ready \ busy THEN stamp[u] ELSE visited[u]]
\* mark_visited, with what the look before the run had read.
MarkVisited ==
  visited' = [u \in Unit |-> IF ~LetGoEarly /\ u \in ready \ busy THEN last[u] ELSE visited[u]]

Marked ==
  /\ pc = "next"
  /\ queue = {} /\ (second \/ again = {})
  /\ pc' = "write"
  /\ MarkVisited
  /\ rediscover' = FALSE
  /\ lock' = "free"
  /\ NoSession
  /\ UNCHANGED <<world, counters, list, units, last, left, untilWalk, ready, sleep, saved,
                 finished>>

----------------------------------------------------------------------------
(* Between looks *)

\* Mutant of Wakes: the interval is no cap.
WakesForDue ==
  Min({left[u] : u \in {v \in units : Pending(v) /\ left[v] > 0}} \cup {Interval + Rediscover})
\* next_wake: what is pending though its time is past was busy.
Wakes ==
  Min({left[u] : u \in {v \in units : Pending(v) /\ left[v] > 0}} \cup {Interval, untilWalk})

\* What the next look reads anew.
Forgotten == last' = [u \in Unit |-> 0] /\ left' = last'

Write ==
  /\ pc = "write"
  /\ pc' = "asleep"
  /\ saved' = [units |-> units, visited |-> visited]
  /\ sleep' = Max({Wakes, 1})
  /\ ready' = {}
  /\ Forgotten
  /\ UNCHANGED <<world, counters, list, lock, units, visited, untilWalk, rediscover, session>>

Wake ==
  /\ pc = "asleep"
  /\ sleep = 0
  /\ pc' = "look"
  /\ UNCHANGED <<world, counters, list, lock, state, saved, session>>

\* daemon.json is swapped whole.  The run lock goes with the process.
Crash ==
  /\ pc # "down"
  /\ Trouble
  /\ pc' = "down"
  /\ lock' = IF lock = "daemon" THEN "free" ELSE lock
  /\ units' = {} /\ visited' = [u \in Unit |-> 0] /\ ready' = {}
  /\ Forgotten
  /\ untilWalk' = 0 /\ rediscover' = FALSE /\ sleep' = 0
  /\ NoSession
  /\ UNCHANGED <<world, builds, list, saved, finished>>

----------------------------------------------------------------------------
(* The others: builds, users, manual runs, time *)

MayBuild == builds < MaxBuilds /\ builds' = builds + 1

\* A build waits for the lock, which is a file in the unit: where there is no unit
\* any more it makes another.
Shut(u) == u \in (locked \cap there) \ Quiet

\* A build writes at its begin and at its end.
Writes(u) ==
  /\ Touched({u})
  /\ coldFor' = [coldFor EXCEPT ![u] = 0]
  /\ work' = work \cup {u}

BuildBegins(u) ==
  /\ u \notin building /\ ~Shut(u)
  /\ MayBuild
  /\ Writes(u)
  /\ building' = building \cup {u}
  /\ there' = there \cup {u}
  /\ UNCHANGED <<setup, troubles, list, lock, pc, state, saved, session>>

BuildEnds(u) ==
  /\ u \in building
  /\ Writes(u)
  /\ building' = building \ {u}
  /\ UNCHANGED <<setup, there, counters, list, lock, pc, state, saved, session>>

\* A build dir deleted by hand, also under a session that has locked it, or cargo clean.
Clean(u) ==
  /\ setup.cleans
  /\ u \in there \ building
  /\ MayBuild
  /\ there' = there \ {u}
  /\ work' = work \ {u}
  /\ UNCHANGED <<setup, stamp, age, coldFor, building, troubles, list, lock, pc,
                 state, saved, session>>

\* A manual run finds build dirs of its own before it tries the run lock.
ManualBegins ==
  /\ Trouble
  /\ \E walk \in BOOLEAN : \E found \in {there, list.dirs \cap there} : Found(walk, found)
  /\ lock' = IF lock = "free" THEN "manual" ELSE lock
  /\ UNCHANGED <<world, builds, pc, state, saved, session>>

ManualEnds ==
  /\ lock = "manual"
  /\ lock' = "free"
  /\ LET us == there \ building IN
       \E acted \in SUBSET us : Acts(us, acted) /\ work' \in {work, work \ acted}
  /\ UNCHANGED <<setup, there, coldFor, building, counters, list, pc, state, saved, session>>

Older(timer) == [u \in Unit |-> Min({timer[u] + 1, Floor(u)})]

Tick ==
  /\ age' = Older(age)
  /\ coldFor' = Older(coldFor)
  /\ list' = IF list.left > 1 THEN [list EXCEPT !.left = @ - 1] ELSE NoList
  /\ left' = [u \in Unit |-> Down(left[u])]
  /\ untilWalk' = Down(untilWalk)
  /\ sleep' = Down(sleep)
  /\ UNCHANGED <<setup, there, stamp, work, building, counters, lock, pc, units, last, visited,
                 rediscover, ready, saved, session>>

Daemon ==
  \/ Look \/ Find \/ TakeLock \/ SecondVisits \/ Visit \/ VisitFails \/ VisitDone
  \/ VisitLetsGo \/ Marked \/ Write \/ Wake

Next ==
  \/ Start \/ Daemon \/ Crash
  \/ \E u \in Unit : BuildBegins(u) \/ BuildEnds(u) \/ Clean(u)
  \/ ManualBegins \/ ManualEnds
  \/ Tick

Spec == Init /\ [][Next]_vars

\* The service manager keeps the daemon up; builds and manual runs end; time
\* goes on.
FairSpec ==
  /\ Spec
  /\ WF_vars(Start) /\ WF_vars(Daemon)
  /\ \A u \in Unit : WF_vars(BuildEnds(u))
  /\ WF_vars(ManualEnds)
  /\ WF_vars(Tick)
----------------------------------------------------------------------------
(* Properties *)

\* The shape of the state; the daemon never sleeps longer than its interval.
TypeOK ==
  /\ setup \in Setups
  /\ there \subseteq Unit /\ work \subseteq there /\ building \subseteq there
  /\ stamp \in [Unit -> Nat] /\ seen \in [Unit -> Nat] /\ finished \in [Unit -> Nat]
  /\ last \in [Unit -> Nat] /\ visited \in [Unit -> Nat]
  /\ age \in [Unit -> Nat] /\ coldFor \in [Unit -> Nat] /\ left \in [Unit -> Nat]
  /\ \A u \in Unit : age[u] <= Floor(u) /\ coldFor[u] <= Floor(u) /\ left[u] <= Floor(u)
  /\ list \in [dirs : SUBSET Unit, left : Nat]
  /\ lock \in {"free", "daemon", "manual"}
  /\ pc \in {"down", "look", "find", "lock", "next", "visit", "write", "asleep"}
  /\ units \subseteq Unit /\ ready \subseteq units /\ dirs \subseteq Unit
  /\ locked \subseteq dirs /\ busy \subseteq dirs
  /\ saved \in [units : SUBSET Unit, visited : [Unit -> Nat]]
  /\ untilWalk \in 0 .. Rediscover /\ sleep \in 0 .. Interval
  /\ rediscover \in BOOLEAN /\ second \in BOOLEAN
  /\ queue \subseteq Group /\ again \subseteq Group /\ group \in Group \cup {0}
  /\ outcome \in [Family -> {"none", "done", "early"}]

\* A unit whose last build counts as visited was visited since, unless the config has
\* sessions leave it alone: a visit that was not cut short locked it with that build in
\* it (daemon/mod.rs, mark_visited: "The units in `ready` the run finished with").  So
\* does the state file that a restarted daemon goes by.
VisitedIsDone ==
  \A u \in there \ setup.skips : stamp[u] \in {visited[u], saved.visited[u]} => finished[u] = stamp[u]

\* What the theorems of Daemon_proofs rest on: what was read of a unit is no newer than
\* the unit, ...
StampInv ==
  \A u \in Unit :
    /\ u \in there => stamp[u] > 0
    /\ {visited[u], saved.visited[u], last[u]} \subseteq 0 .. stamp[u]
    /\ pc = "visit" => /\ {visited[u], saved.visited[u], last[u]} \subseteq 0 .. seen[u]
                       /\ seen[u] <= stamp[u]

\* ... a daemon that is down is after nothing, a visit is of a whole group, and there is
\* no third one, ...
SessionInv ==
  /\ pc = "down" => ready = {}
  /\ pc \notin {"next", "visit"} => locked = {} /\ busy = {}
  /\ pc = "visit" => group \in Group /\ Members(group) \subseteq locked \cup busy
  /\ second => again = {}

\* ... a unit that the list of build dirs lacks is younger than the list; and while
\* nobody cleans, none that the daemon has is lacking once the list was asked for, ...
ListInv ==
  /\ list.left <= setup.every
  /\ \A u \in there \ list.dirs : list.left > 0 => age[u] + list.left <= setup.every
  /\ ~setup.cleans =>
       /\ units \cup saved.units \subseteq there
       /\ \/ list.left = 0 \/ units \subseteq list.dirs
          \/ pc = "look" /\ untilWalk = 0
          \/ rediscover /\ pc \notin {"lock", "next", "visit"}

\* ... a unit the session runs for, and that nobody came to since the look, is as old as
\* it was, in the session if it is anywhere, and to be visited still, visited or busy, ...
ReadyInv ==
  \A u \in ready : stamp[u] = last[u] =>
    /\ age[u] = Floor(u)
    /\ pc \in {"lock", "next", "visit"} /\ u \in there \ setup.skips => u \in dirs
    /\ pc \in {"next", "visit"} /\ u \in dirs =>
         \/ GroupOf[u] \in queue \cup again
         \/ pc = "visit" /\ GroupOf[u] = group
         \/ finished[u] = stamp[u] \/ u \in busy
         \/ outcome[FamilyOf[GroupOf[u]]] = "early"

\* ... and what counts as visited was, or has gone since.
CountInv ==
  \A u \in Unit \ setup.skips :
    stamp[u] > 0 /\ stamp[u] \in {visited[u], saved.visited[u]} =>
      finished[u] = stamp[u] \/ (u \notin there /\ age[u] = Floor(u))

DaemonInv == TypeOK /\ StampInv /\ SessionInv /\ ListInv /\ ReadyInv /\ CountInv

\* Where they hold: each family has one build system, and users who clean have a list
\* of build dirs that is the shorter-lived.
OneGroupEach == \A g, h \in Group : FamilyOf[g] = FamilyOf[h] => g = h
ListsFit == \A s \in Setups : s.cleans => s.every <= MinAge

\* When builds have come to an end and budgets suffice, every unit is visited,
\* also one made meanwhile, and stays so: the changes of the run itself, which
\* look like a build, do not keep it going for ever.
Settles == <>[](\A u \in there : u \in units /\ visited[u] = stamp[u])

=============================================================================
