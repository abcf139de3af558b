---------------------------- MODULE Daemon_proofs ----------------------------
(***************************************************************************)
(* What the daemon takes for visited was, for any units, groups, families  *)
(* and timers, any builds, cleans, manual runs, budgets and kills.         *)
(***************************************************************************)
EXTENDS Daemon, WellFoundedInduction, TLAPS

USE DaemonAssumption

----------------------------------------------------------------------------
(* Numbers *)

\* A set of numbers that is not empty has a least one.
LEMMA LeastExists ==
  ASSUME NEW S \in SUBSET Nat, S # {}
  PROVE  \E m \in S : \A n \in S : m <= n
<1>1. PICK m \in S : \A n \in S : ~(<<n, m>> \in OpToRel(<, Nat))
  BY NatLessThanWellFounded, WFMin, Zenon
<1>2. \A n \in S : ~(n < m)
  BY <1>1 DEF OpToRel
<1> QED
  BY <1>2

LEMMA MinIsLeast ==
  ASSUME NEW S \in SUBSET Nat, S # {}
  PROVE  Min(S) \in S /\ \A n \in S : Min(S) <= n
  BY LeastExists DEF Min

\* Of two numbers the greater.
LEMMA MaxOfTwo ==
  ASSUME NEW m \in Nat, NEW n \in Nat
  PROVE  Max({m, n}) \in {m, n} /\ m <= Max({m, n}) /\ n <= Max({m, n})
<1>1. \E x \in {m, n} : \A y \in {m, n} : x >= y
  <2>1. CASE m >= n
    BY <2>1
  <2>2. CASE n >= m
    BY <2>2
  <2> QED
    BY <2>1, <2>2
<1> QED
  BY <1>1 DEF Max

\* A floor is min-age at least.
LEMMA Floors == \A u \in Unit : Floor(u) \in Nat /\ MinAge <= Floor(u) /\ Floor(u) > 0
<1>1. Max({MinAge, QuietAge}) \in Nat /\ MinAge <= Max({MinAge, QuietAge})
  BY MaxOfTwo
<1> QED
  BY <1>1 DEF Floor

\* A tick older, up to the floor.
LEMMA OlderIs ==
  ASSUME NEW timer \in [Unit -> Nat], \A u \in Unit : timer[u] <= Floor(u)
  PROVE  /\ Older(timer) \in [Unit -> Nat]
         /\ \A u \in Unit : /\ Older(timer)[u] = IF timer[u] = Floor(u) THEN timer[u] ELSE timer[u] + 1
                            /\ Older(timer)[u] <= Floor(u)
<1>1. ASSUME NEW u \in Unit
      PROVE  Min({timer[u] + 1, Floor(u)}) = IF timer[u] = Floor(u) THEN timer[u] ELSE timer[u] + 1
  <2>1. {timer[u] + 1, Floor(u)} \in SUBSET Nat /\ timer[u] \in Nat /\ timer[u] <= Floor(u)
    BY Floors
  <2> DEFINE m == Min({timer[u] + 1, Floor(u)})
  <2>2. m \in {timer[u] + 1, Floor(u)} /\ m <= timer[u] + 1 /\ m <= Floor(u)
    BY <2>1, MinIsLeast
  <2> HIDE DEF m
  <2>3. m = IF timer[u] = Floor(u) THEN timer[u] ELSE timer[u] + 1
    BY <2>1, <2>2, Floors
  <2> QED
    BY <2>3 DEF m
<1> QED
  BY <1>1, Floors DEF Older

----------------------------------------------------------------------------
(* Types *)

LEMMA TypeInit == Init => TypeOK
<1> SUFFICES ASSUME Init PROVE TypeOK
  OBVIOUS
<1>1. age = [u \in Unit |-> Floor(u)] /\ coldFor = age /\ left = [u \in Unit |-> 0]
  BY DEF Init
<1>2. age \in [Unit -> Nat] /\ coldFor \in [Unit -> Nat] /\ left \in [Unit -> Nat]
      /\ \A u \in Unit : age[u] <= Floor(u) /\ coldFor[u] <= Floor(u) /\ left[u] <= Floor(u)
  BY <1>1, Floors
<1>3. list \in [dirs : SUBSET Unit, left : Nat]
      /\ saved \in [units : SUBSET Unit, visited : [Unit -> Nat]]
  BY DEF Init, NoList
<1>4. /\ stamp \in [Unit -> Nat] /\ seen \in [Unit -> Nat] /\ finished \in [Unit -> Nat]
      /\ last \in [Unit -> Nat] /\ visited \in [Unit -> Nat]
  BY DEF Init
<1>5. rediscover \in BOOLEAN /\ second \in BOOLEAN
  BY Zenon DEF Init
<1> QED
  BY <1>2, <1>3, <1>4, <1>5 DEF Init, TypeOK

\* What changes when files do.
LEMMA TouchedIs ==
  ASSUME TypeOK, NEW us, Touched(us)
  PROVE  /\ stamp' \in [Unit -> Nat] /\ age' \in [Unit -> Nat]
         /\ \A u \in Unit :
              /\ age'[u] <= Floor(u) /\ stamp[u] <= stamp'[u]
              /\ u \notin us => stamp'[u] = stamp[u] /\ age'[u] = age[u]
              /\ u \in us => stamp'[u] > 0 /\ age'[u] = 0
              /\ u \in us /\ age[u] > 0 => stamp'[u] # stamp[u]
  BY Floors DEF Touched, TypeOK

LEMMA TypeStep == TypeOK /\ SessionInv /\ [Next]_vars => TypeOK'
<1> SUFFICES ASSUME TypeOK, SessionInv, [Next]_vars PROVE TypeOK'
  OBVIOUS
<1> USE DEF world, counters, state, visit, session
<1>0. /\ \A u \in Unit : Floor(u) \in Nat /\ Floor(u) > 0
      /\ [u \in Unit |-> 0] \in [Unit -> Nat]
  BY Floors
<1>1. CASE Start
  <2>1. rediscover' \in BOOLEAN
    BY <1>1, Zenon DEF Start
  <2>2. 0 \in 0 .. Rediscover /\ ready = {}
    BY <1>1 DEF Start, SessionInv
  <2> QED
    BY <1>1, <2>1, <2>2 DEF Start, TypeOK
<1>2. CASE Look
  <2>0. rediscover' \in BOOLEAN
    <3>1. rediscover \in BOOLEAN
      BY DEF TypeOK
    <3> QED
      BY <1>2, <3>1, Zenon DEF Look, Discover
  <2>1. units' \subseteq Unit /\ visited' \in [Unit -> Nat] /\ untilWalk' \in 0 .. Rediscover
    BY <1>2 DEF Look, Discover, Carried, TypeOK
  <2>2. last' \in [Unit -> Nat] /\ left' \in [Unit -> Nat] /\ ready' \subseteq units'
    BY <1>0, <1>2 DEF Look, Refresh, TypeOK
  <2>3. \A u \in Unit : left'[u] <= Floor(u)
    BY <1>0, <1>2 DEF Look, Refresh, TypeOK
  <2> QED
    BY <1>2, <2>0, <2>1, <2>2, <2>3 DEF Look, TypeOK
<1>3. CASE Find
  <2>1. PICK found \in {there, list.dirs \cap there} :
          /\ Found(rediscover, found)
          /\ dirs' = found \ setup.skips
          /\ pc' = IF found = {} THEN "write" ELSE "lock"
    BY <1>3 DEF Find
  <2>2. list' \in [dirs : SUBSET Unit, left : Nat] /\ dirs' \subseteq Unit
    BY <2>1 DEF Found, TypeOK
  <2>3. locked = {} /\ busy = {}
    BY <1>3 DEF Find, SessionInv
  <2> QED
    BY <1>3, <2>1, <2>2, <2>3 DEF Find, TypeOK
<1>4. CASE TakeLock
  <2>1. queue' \subseteq Group /\ again' \subseteq Group /\ group' \in Group \cup {0}
    <3>1. dirs \subseteq Unit /\ again \subseteq Group /\ group \in Group \cup {0}
      BY DEF TypeOK
    <3>2. {GroupOf[u] : u \in dirs} \subseteq Group
      BY <3>1 DEF DaemonAssumption
    <3>3. queue' \in {{GroupOf[u] : u \in dirs}, {}}
      BY <1>4 DEF TakeLock, NoSession
    <3>4. again' \in {again, {}} /\ group' \in {group, 0}
      BY <1>4 DEF TakeLock, NoSession
    <3> QED
      BY <3>1, <3>2, <3>3, <3>4
  <2>2. /\ locked' \subseteq dirs' /\ busy' \subseteq dirs' /\ dirs' \subseteq Unit
        /\ outcome' \in [Family -> {"none", "done", "early"}] /\ seen' \in [Unit -> Nat]
        /\ second' \in BOOLEAN
    BY <1>4, <1>0 DEF TakeLock, NoSession, TypeOK
  <2> QED
    BY <1>4, <2>1, <2>2 DEF TakeLock, TypeOK
<1>5. CASE SecondVisits
  BY <1>5 DEF SecondVisits, TypeOK
<1>6. CASE Visit
  <2> DEFINE g == Min(queue)
  <2>1. /\ group' = g /\ queue' \subseteq queue /\ locked' \subseteq Members(g)
        /\ busy' \subseteq busy \cup Members(g)
    BY <1>6 DEF Visit
  <2>2. queue \in SUBSET Nat /\ queue # {} /\ queue \subseteq Group
    BY <1>6 DEF Visit, TypeOK
  <2>3. g \in Group
    BY <2>2, MinIsLeast
  <2>4. Members(g) \subseteq dirs
    BY DEF Members
  <2> QED
    BY <1>6, <2>1, <2>3, <2>4 DEF Visit, TypeOK
<1>7. CASE VisitFails
  BY <1>0, <1>7 DEF VisitFails, NoSession, TypeOK
<1>8. CASE VisitDone
  <2>1. PICK acted \in SUBSET locked : Acts(locked, acted)
    BY <1>8 DEF VisitDone
  <2>2. /\ stamp' \in [Unit -> Nat] /\ age' \in [Unit -> Nat]
        /\ \A u \in Unit : age'[u] <= Floor(u)
    BY <2>1, TouchedIs DEF Acts
  <2>3. /\ outcome' \in [Family -> {"none", "done", "early"}] /\ finished' \in [Unit -> Nat]
        /\ work' \subseteq there
    BY <1>8 DEF VisitDone, TypeOK
  <2> QED
    BY <1>0, <1>8, <2>2, <2>3 DEF VisitDone, VisitEnds, TypeOK
<1>9. CASE VisitLetsGo
  <2>1. PICK acted \in SUBSET locked : Acts(locked, acted) /\ work' \in {work, work \ acted}
    BY <1>9 DEF VisitLetsGo
  <2>2. /\ stamp' \in [Unit -> Nat] /\ age' \in [Unit -> Nat]
        /\ \A u \in Unit : age'[u] <= Floor(u)
    BY <2>1, TouchedIs DEF Acts
  <2>3. outcome' \in [Family -> {"none", "done", "early"}]
    BY <1>9 DEF VisitLetsGo, TypeOK
  <2>4. work' \subseteq there
    BY <2>1 DEF TypeOK
  <2>5. again' \subseteq Group
    BY <1>9 DEF VisitLetsGo, SessionInv, TypeOK
  <2> QED
    BY <1>0, <1>9, <2>2, <2>3, <2>4, <2>5 DEF VisitLetsGo, VisitEnds, TypeOK
<1>10. CASE Marked
  <2>1. visited' \in [Unit -> Nat]
    BY <1>10 DEF Marked, MarkVisited, TypeOK
  <2> QED
    BY <1>0, <1>10, <2>1 DEF Marked, NoSession, TypeOK
<1>11. CASE Write
  <2>1. Wakes \in 0 .. Interval
    <3> DEFINE S == {left[u] : u \in {v \in units : Pending(v) /\ left[v] > 0}}
                      \cup {Interval, untilWalk}
    <3>1. S \in SUBSET Nat /\ Interval \in S
      BY DEF TypeOK
    <3>2. Min(S) \in S /\ Min(S) <= Interval
      BY <3>1, MinIsLeast
    <3> QED
      BY <3>1, <3>2 DEF Wakes
  <2>2. Max({Wakes, 1}) \in 0 .. Interval
    <3>1. Wakes \in Nat /\ 1 \in Nat /\ 1 \in 0 .. Interval
      BY <2>1
    <3> QED
      BY <2>1, <3>1, MaxOfTwo
  <2>3. saved' \in [units : SUBSET Unit, visited : [Unit -> Nat]]
    BY <1>11 DEF Write, TypeOK
  <2> QED
    BY <1>0, <1>11, <2>2, <2>3 DEF Write, Forgotten, TypeOK
<1>12. CASE Wake
  BY <1>12 DEF Wake, TypeOK
<1>13. CASE Crash
  <2>1. rediscover' \in BOOLEAN /\ second' \in BOOLEAN
    BY <1>13, Zenon DEF Crash, NoSession
  <2> QED
    BY <1>0, <1>13, <2>1 DEF Crash, NoSession, Forgotten, TypeOK
<1>14. ASSUME NEW u \in Unit, BuildBegins(u) \/ BuildEnds(u) PROVE TypeOK'
  <2>1. Touched({u}) /\ coldFor' = [coldFor EXCEPT ![u] = 0] /\ work' = work \cup {u}
    BY <1>14 DEF BuildBegins, BuildEnds, Writes
  <2>2. /\ stamp' \in [Unit -> Nat] /\ age' \in [Unit -> Nat]
        /\ \A v \in Unit : age'[v] <= Floor(v)
    BY <2>1, TouchedIs
  <2>3. coldFor' \in [Unit -> Nat] /\ \A v \in Unit : coldFor'[v] <= Floor(v)
    BY <1>0, <2>1 DEF TypeOK
  <2>4. there' \subseteq Unit /\ work' \subseteq there' /\ building' \subseteq there'
    BY <1>14, <2>1 DEF BuildBegins, BuildEnds, TypeOK
  <2> QED
    <3>1. UNCHANGED <<setup, list, lock, pc, state, saved, session>>
      BY <1>14 DEF BuildBegins, BuildEnds
    <3> QED
      BY <2>2, <2>3, <2>4, <3>1 DEF TypeOK
<1>15. ASSUME NEW u \in Unit, Clean(u) PROVE TypeOK'
  BY <1>15 DEF Clean, TypeOK
<1>16. CASE ManualBegins
  <2>1. list' \in [dirs : SUBSET Unit, left : Nat]
    BY <1>16 DEF ManualBegins, Found, TypeOK
  <2> QED
    BY <1>16, <2>1 DEF ManualBegins, TypeOK
<1>17. CASE ManualEnds
  <2>1. PICK acted \in SUBSET (there \ building) :
          Acts(there \ building, acted) /\ work' \in {work, work \ acted}
    BY <1>17 DEF ManualEnds
  <2>2. /\ stamp' \in [Unit -> Nat] /\ age' \in [Unit -> Nat]
        /\ \A u \in Unit : age'[u] <= Floor(u)
    BY <2>1, TouchedIs DEF Acts
  <2>3. work' \subseteq there
    BY <2>1 DEF TypeOK
  <2> QED
    BY <1>17, <2>2, <2>3 DEF ManualEnds, TypeOK
<1>18. CASE Tick
  <2>1. /\ age' \in [Unit -> Nat] /\ coldFor' \in [Unit -> Nat]
        /\ \A u \in Unit : age'[u] <= Floor(u) /\ coldFor'[u] <= Floor(u)
    BY <1>18, OlderIs DEF Tick, TypeOK
  <2>2. left' \in [Unit -> Nat] /\ \A u \in Unit : left'[u] <= Floor(u)
    BY <1>0, <1>18 DEF Tick, Down, TypeOK
  <2>3. list' \in [dirs : SUBSET Unit, left : Nat]
    BY <1>18 DEF Tick, NoList, TypeOK
  <2>4. untilWalk' \in 0 .. Rediscover /\ sleep' \in 0 .. Interval
    BY <1>18 DEF Tick, Down, TypeOK
  <2> QED
    BY <1>18, <2>1, <2>2, <2>3, <2>4 DEF Tick, TypeOK
<1>19. CASE UNCHANGED vars
  BY <1>19 DEF vars, TypeOK
<1> QED
  BY <1>1, <1>2, <1>3, <1>4, <1>5, <1>6, <1>7, <1>8, <1>9, <1>10, <1>11, <1>12, <1>13, <1>14,
     <1>15, <1>16, <1>17, <1>18, <1>19
  DEF Next, Daemon
----------------------------------------------------------------------------
(* What a step does to the units *)

\* A stamp grows; and a unit that is as old as can be told stays so, and where it is,
\* unless it grows.
Still(u) ==
  /\ stamp[u] <= stamp'[u]
  /\ age[u] = Floor(u) /\ stamp'[u] = stamp[u] => age'[u] = Floor(u) /\ (u \in there' => u \in there)
  /\ u \in there' => u \in there \/ stamp'[u] > 0

LEMMA Moves ==
  ASSUME TypeOK, [Next]_vars
  PROVE  \A u \in Unit : Still(u)
<1> USE DEF world, counters, state, visit, session
<1>0. \A u \in Unit : stamp[u] \in Nat /\ age[u] \in Nat /\ Floor(u) \in Nat /\ Floor(u) > 0
  BY Floors DEF TypeOK
<1>1. ASSUME NEW us, Touched(us), there' \subseteq there \cup us PROVE \A u \in Unit : Still(u)
  <2> SUFFICES ASSUME NEW u \in Unit PROVE Still(u)
    OBVIOUS
  <2>1. CASE u \in us
    BY <1>0, <1>1, <2>1, TouchedIs DEF Still
  <2>2. CASE u \notin us
    BY <1>0, <1>1, <2>2, TouchedIs DEF Still
  <2> QED
    BY <2>1, <2>2
<1>2. ASSUME UNCHANGED <<stamp, age>>, there' \subseteq there PROVE \A u \in Unit : Still(u)
  BY <1>0, <1>2 DEF Still
<1>3. CASE VisitDone \/ VisitLetsGo \/ ManualEnds
  <2>1. \E us, acted : Acts(us, acted) /\ there' = there
    BY <1>3 DEF VisitDone, VisitLetsGo, ManualEnds
  <2>2. PICK acted : Touched(acted) /\ there' = there
    BY <2>1 DEF Acts
  <2> QED
    BY <1>1, <2>2
<1>4. ASSUME NEW u \in Unit, BuildBegins(u) \/ BuildEnds(u) PROVE \A v \in Unit : Still(v)
  <2>1. Touched({u}) /\ there' \subseteq there \cup {u}
    BY <1>4 DEF BuildBegins, BuildEnds, Writes
  <2> QED
    BY <1>1, <2>1
<1>5. ASSUME NEW u \in Unit, Clean(u) PROVE \A v \in Unit : Still(v)
  BY <1>2, <1>5 DEF Clean
<1>6. CASE Tick
  BY <1>0, <1>6, OlderIs DEF Tick, Still, TypeOK
<1>7. CASE Start \/ Look \/ Find \/ TakeLock \/ SecondVisits \/ Visit \/ VisitFails
           \/ Marked \/ Write \/ Wake \/ Crash \/ ManualBegins \/ UNCHANGED vars
  BY <1>2, <1>7 DEF Start, Look, Find, TakeLock, SecondVisits, Visit, VisitFails, Marked,
                    Write, Wake, Crash, ManualBegins, vars
<1> QED
  BY <1>3, <1>4, <1>5, <1>6, <1>7 DEF Next, Daemon

LEMMA SetupStays == [Next]_vars => setup' = setup
  BY DEF Next, Daemon, Start, Look, Find, TakeLock, SecondVisits, Visit, VisitFails, VisitDone,
         VisitLetsGo, Marked, Write, Wake, Crash, BuildBegins, BuildEnds, Clean, ManualBegins,
         ManualEnds, Tick, Acts, Touched, world, vars

----------------------------------------------------------------------------
(* What was read, and the session *)

LEMMA StampStep == TypeOK /\ StampInv /\ [Next]_vars => StampInv'
<1> SUFFICES ASSUME TypeOK, StampInv, [Next]_vars, NEW u \in Unit
             PROVE  /\ u \in there' => stamp'[u] > 0
                    /\ {visited'[u], saved'.visited[u], last'[u]} \subseteq 0 .. stamp'[u]
                    /\ pc' = "visit" =>
                         /\ {visited'[u], saved'.visited[u], last'[u]} \subseteq 0 .. seen'[u]
                         /\ seen'[u] <= stamp'[u]
  BY DEF StampInv
<1> USE DEF world, counters, state, visit, session
<1>0. /\ stamp[u] \in Nat /\ stamp'[u] \in Nat /\ stamp[u] <= stamp'[u]
      /\ visited[u] \in Nat /\ saved.visited[u] \in Nat /\ last[u] \in Nat /\ seen[u] \in Nat
      /\ visited[u] <= stamp[u] /\ saved.visited[u] <= stamp[u] /\ last[u] <= stamp[u]
  <2>1. stamp'[u] \in Nat
    <3>1. CASE UNCHANGED stamp
      BY <3>1 DEF TypeOK
    <3>2. ASSUME NEW us, Touched(us) PROVE stamp'[u] \in Nat
      BY <3>2, TouchedIs
    <3> QED
      BY <3>1, <3>2 DEF Next, Daemon, Start, Look, Find, TakeLock, SecondVisits, Visit,
             VisitFails, VisitDone, VisitLetsGo, Marked, Write, Wake, Crash, BuildBegins,
             BuildEnds, Clean, ManualBegins, ManualEnds, Tick, Acts, Writes, vars
  <2> QED
    BY <2>1, Moves DEF Still, TypeOK, StampInv
<1>1. u \in there' => stamp'[u] > 0
  BY <1>0, Moves DEF Still, StampInv
<1>2. visited'[u] \in {visited[u], saved.visited[u], last[u], 0}
  <2>1. CASE Look
    BY <2>1 DEF Look, Discover, Carried
  <2>2. CASE Marked
    BY <2>2 DEF Marked, MarkVisited
  <2>3. CASE Crash
    BY <2>3 DEF Crash
  <2>4. CASE Start
    BY <2>4 DEF Start
  <2>5. CASE UNCHANGED visited
    BY <2>5
  <2> QED
    BY <2>1, <2>2, <2>3, <2>4, <2>5
    DEF Next, Daemon, Find, TakeLock, SecondVisits, Visit, VisitFails, VisitDone, VisitLetsGo,
        Write, Wake, BuildBegins, BuildEnds, Clean, ManualBegins, ManualEnds, Tick, vars
<1>3. saved'.visited[u] \in {visited[u], saved.visited[u]}
  <2>1. CASE Write
    BY <2>1 DEF Write
  <2>2. CASE UNCHANGED saved
    BY <2>2
  <2> QED
    BY <2>1, <2>2
    DEF Next, Daemon, Start, Look, Find, TakeLock, SecondVisits, Visit, VisitFails, VisitDone,
        VisitLetsGo, Marked, Wake, Crash, BuildBegins, BuildEnds, Clean, ManualBegins,
        ManualEnds, Tick, vars
<1>4. last'[u] \in {last[u], stamp[u], 0}
  <2>1. CASE Look
    BY <2>1 DEF Look, Refresh
  <2>2. CASE Write \/ Crash
    BY <2>2 DEF Write, Crash, Forgotten
  <2>3. CASE UNCHANGED last
    BY <2>3
  <2> QED
    BY <2>1, <2>2, <2>3
    DEF Next, Daemon, Start, Find, TakeLock, SecondVisits, Visit, VisitFails, VisitDone,
        VisitLetsGo, Marked, Wake, BuildBegins, BuildEnds, Clean, ManualBegins, ManualEnds,
        Tick, vars
<1>5. visited'[u] <= stamp'[u] /\ saved'.visited[u] <= stamp'[u] /\ last'[u] <= stamp'[u]
      /\ visited'[u] \in Nat /\ saved'.visited[u] \in Nat /\ last'[u] \in Nat
  BY <1>0, <1>2, <1>3, <1>4
<1>6. ASSUME pc' = "visit"
      PROVE  /\ visited'[u] <= seen'[u] /\ saved'.visited[u] <= seen'[u] /\ last'[u] <= seen'[u]
             /\ seen'[u] <= stamp'[u] /\ seen'[u] \in Nat
  <2>1. \/ pc = "visit" /\ UNCHANGED <<visited, saved, last, seen>>
        \/ UNCHANGED <<visited, saved, last, stamp>> /\ seen' = stamp
    BY <1>6 DEF Next, Daemon, Start, Look, Find, TakeLock, SecondVisits, Visit,
             VisitFails, VisitDone, VisitLetsGo, Marked, Write, Wake, Crash, BuildBegins,
             BuildEnds, Clean, ManualBegins, ManualEnds, Tick, vars
  <2>2. CASE pc = "visit" /\ UNCHANGED <<visited, saved, last, seen>>
    <3>1. /\ visited[u] <= seen[u] /\ saved.visited[u] <= seen[u] /\ last[u] <= seen[u]
          /\ seen[u] <= stamp[u]
      BY <1>0, <2>2 DEF StampInv
    <3> QED
      BY <1>0, <2>2, <3>1
  <2>3. CASE UNCHANGED <<visited, saved, last, stamp>> /\ seen' = stamp
    BY <1>0, <2>3
  <2> QED
    BY <2>1, <2>2, <2>3
<1> QED
  BY <1>0, <1>1, <1>5, <1>6

LEMMA SessionStep == TypeOK /\ SessionInv /\ [Next]_vars => SessionInv'
<1> SUFFICES ASSUME TypeOK, SessionInv, [Next]_vars PROVE SessionInv'
  OBVIOUS
<1> USE DEF world, counters, state, visit, session
<1>1. CASE Start \/ Look \/ Find \/ Wake \/ Write
  BY <1>1 DEF Start, Look, Find, Wake, Write, SessionInv, Members
<1>2. CASE TakeLock
  BY <1>2 DEF TakeLock, NoSession, SessionInv
<1>3. CASE SecondVisits
  BY <1>3 DEF SecondVisits, SessionInv
<1>4. CASE Visit
  <2> DEFINE g == Min(queue)
  <2>1. g \in Group
    <3>1. queue \in SUBSET Nat /\ queue # {} /\ queue \subseteq Group
      BY <1>4 DEF Visit, TypeOK
    <3> QED
      BY <3>1, MinIsLeast
  <2> HIDE DEF g
  <2>2. /\ pc = "next" /\ pc' = "visit" /\ group' = g /\ dirs' = dirs
        /\ UNCHANGED <<again, second>>
    BY <1>4 DEF Visit, g
  <2>3. PICK missed \in SUBSET (Quiet \cap building) :
          /\ locked' = Members(g) \ (building \ missed)
          /\ busy' = busy \cup ((Members(g) \cap building) \ missed)
    BY <1>4 DEF Visit, g
  <2>4. Members(group)' = Members(g)
    BY <2>2 DEF Members
  <2>5. Members(g) \subseteq locked' \cup busy'
    BY <2>3
  <2> QED
    BY <2>1, <2>2, <2>4, <2>5 DEF SessionInv
<1>5. CASE VisitFails \/ Marked \/ Crash
  BY <1>5 DEF VisitFails, Marked, Crash, NoSession, SessionInv
<1>6. CASE VisitDone
  BY <1>6 DEF VisitDone, SessionInv
<1>7. CASE VisitLetsGo
  BY <1>7 DEF VisitLetsGo, SessionInv
<1>8. ASSUME NEW u \in Unit, BuildBegins(u) \/ BuildEnds(u) \/ Clean(u) PROVE SessionInv'
  BY <1>8 DEF BuildBegins, BuildEnds, Clean, SessionInv, Members
<1>9. CASE ManualBegins \/ ManualEnds \/ Tick \/ UNCHANGED vars
  BY <1>9 DEF ManualBegins, ManualEnds, Tick, vars, SessionInv, Members
<1> QED
  BY <1>1, <1>2, <1>3, <1>4, <1>5, <1>6, <1>7, <1>8, <1>9 DEF Next, Daemon
----------------------------------------------------------------------------
(* The list of build dirs *)

\* Nobody but a tick makes a unit older; one that appears is new.
LEMMA Ages ==
  ASSUME TypeOK, [Next]_vars, ~Tick
  PROVE  \A u \in Unit : /\ age'[u] \in Nat /\ age'[u] <= age[u]
                         /\ u \in there' => u \in there \/ age'[u] = 0
<1> USE DEF world, counters, state, visit, session
<1>0. \A u \in Unit : age[u] \in Nat
  BY DEF TypeOK
<1>1. ASSUME NEW us, Touched(us), there' \subseteq there \cup us
      PROVE  \A u \in Unit : /\ age'[u] \in Nat /\ age'[u] <= age[u]
                             /\ u \in there' => u \in there \/ age'[u] = 0
  <2>1. \A u \in Unit : IF u \in us THEN age'[u] = 0 ELSE age'[u] = age[u]
    BY <1>1, TouchedIs
  <2> QED
    BY <1>0, <1>1, <2>1
<1>2. CASE VisitDone \/ VisitLetsGo \/ ManualEnds
  <2>1. \E us, acted : Acts(us, acted) /\ there' = there
    BY <1>2 DEF VisitDone, VisitLetsGo, ManualEnds
  <2>2. PICK acted : Touched(acted) /\ there' = there
    BY <2>1 DEF Acts
  <2> QED
    BY <1>1, <2>2
<1>3. ASSUME NEW v \in Unit, BuildBegins(v) \/ BuildEnds(v)
      PROVE  Touched({v}) /\ there' \subseteq there \cup {v}
  BY <1>3 DEF BuildBegins, BuildEnds, Writes
<1>4. CASE age' = age /\ there' \subseteq there
  BY <1>0, <1>4
<1> QED
  BY <1>1, <1>2, <1>3, <1>4
  DEF Next, Daemon, Start, Look, Find, TakeLock, SecondVisits, Visit, VisitFails, Marked, Write,
      Wake, Crash, Clean, ManualBegins, vars

\* The list is the one there was, a tick nearer its end, or of all there is.
LEMMA Lists ==
  ASSUME TypeOK, [Next]_vars
  PROVE  \/ list' = list
         \/ list'.dirs = there' /\ list'.left = setup.every
         \/ Tick /\ list'.left = 0
         \/ Tick /\ list'.dirs = list.dirs /\ list'.left = list.left - 1 /\ list.left > 1
<1> USE DEF world, counters, state, visit, session
<1>1. CASE Find
  BY <1>1 DEF Find, Found
<1>2. CASE ManualBegins
  BY <1>2 DEF ManualBegins, Found
<1>3. CASE Tick
  BY <1>3 DEF Tick, NoList, TypeOK
<1> QED
  BY <1>1, <1>2, <1>3
  DEF Next, Daemon, Start, Look, TakeLock, SecondVisits, Visit, VisitFails, VisitDone,
      VisitLetsGo, Marked, Write, Wake, Crash, BuildBegins, BuildEnds, Clean, ManualEnds, vars

LEMMA ListStep == TypeOK /\ TypeOK' /\ ListInv /\ [Next]_vars => ListInv'
<1> SUFFICES ASSUME TypeOK, TypeOK', ListInv, [Next]_vars PROVE ListInv'
  OBVIOUS
<1>0. setup' = setup /\ setup.every \in Nat /\ list.left \in Nat /\ list.left <= setup.every
  <2>1. setup' = setup
    BY DEF Next, Daemon, Start, Look, Find, TakeLock, SecondVisits, Visit, VisitFails, VisitDone,
      VisitLetsGo, Marked, Write, Wake, Crash, BuildBegins, BuildEnds, Clean, ManualBegins,
      ManualEnds, Tick, vars, world
  <2> QED
    BY <2>1 DEF ListInv, TypeOK
<1>1. list'.left <= setup'.every
  BY <1>0, Lists
<1>2. ASSUME NEW u \in there' \ list'.dirs, list'.left > 0
      PROVE  age'[u] + list'.left <= setup'.every
  <2>0. u \in Unit /\ age[u] \in Nat
    BY DEF TypeOK
  <2>1. CASE Tick
    <3>1. age'[u] \in {age[u], age[u] + 1} /\ u \in there
      BY <2>0, <2>1, OlderIs DEF Tick, TypeOK, world
    <3>2. list'.left = list.left - 1 /\ list.left > 0 /\ list'.dirs = list.dirs
      BY <1>2, <2>1 DEF Tick, NoList, TypeOK
    <3>3. age[u] + list.left <= setup.every
      BY <1>2, <3>1, <3>2 DEF ListInv
    <3> QED
      BY <1>0, <1>2, <2>0, <3>1, <3>2, <3>3
  <2>2. CASE ~Tick
    <3>1. list' = list
      BY <1>2, <2>2, Lists
    <3>2. age'[u] \in Nat /\ age'[u] <= age[u] /\ (u \in there \/ age'[u] = 0)
      BY <1>2, <2>0, <2>2, Ages
    <3> QED
      BY <1>0, <1>2, <2>0, <3>1, <3>2 DEF ListInv
  <2> QED
    BY <2>1, <2>2
<1>3. ASSUME ~setup'.cleans
      PROVE  /\ units' \cup saved'.units \subseteq there'
             /\ \/ list'.left = 0 \/ units' \subseteq list'.dirs
                \/ pc' = "look" /\ untilWalk' = 0
                \/ rediscover' /\ pc' \notin {"lock", "next", "visit"}
  <2> USE DEF world, counters, state, visit, session
  <2>0. /\ units \subseteq there /\ saved.units \subseteq there
        /\ \/ list.left = 0 \/ units \subseteq list.dirs
           \/ pc = "look" /\ untilWalk = 0
           \/ rediscover /\ pc \notin {"lock", "next", "visit"}
    BY <1>0, <1>3 DEF ListInv
  <2>1. there \subseteq there'
    BY <1>0, <1>3 DEF Next, Daemon, Start, Look, Find, TakeLock, SecondVisits, Visit, VisitFails,
      VisitDone, VisitLetsGo, Marked, Write, Wake, Crash, BuildBegins, BuildEnds, Clean,
      ManualBegins, ManualEnds, Tick, vars
  <2>2. units' \in {units, there, saved.units, {}} /\ saved'.units \in {saved.units, units}
    <3>1. CASE Look
      BY <3>1 DEF Look, Discover
    <3>2. CASE Start \/ Write \/ Crash
      BY <3>2 DEF Start, Write, Crash
    <3>3. CASE UNCHANGED <<units, saved>>
      BY <3>3
    <3> QED
      BY <3>1, <3>2, <3>3
      DEF Next, Daemon, Find, TakeLock, SecondVisits, Visit, VisitFails, VisitDone, VisitLetsGo,
          Marked, Wake, BuildBegins, BuildEnds, Clean, ManualBegins, ManualEnds, Tick, vars
  <2>3. CASE Start \/ Crash
    <3>1. (pc' = "look" /\ untilWalk' = 0) \/ units' = {}
      BY <2>3 DEF Start, Crash
    <3> QED
      BY <2>0, <2>1, <2>2, <3>1
  <2>4. CASE Look
    <3>1. pc' \in {"write", "find"} /\ list' = list
      BY <2>4 DEF Look
    <3>2. CASE untilWalk = 0
      <4>1. rediscover' = TRUE
        BY <2>4, <3>2, Zenon DEF Look, Discover
      <4> QED
        BY <2>0, <2>1, <2>2, <3>1, <4>1
    <3>3. CASE untilWalk # 0
      <4>1. units' = units /\ rediscover' = rediscover
        BY <2>4, <3>3, Zenon DEF Look, Discover
      <4> QED
        BY <2>0, <2>1, <2>2, <3>1, <3>3, <4>1
    <3> QED
      BY <3>2, <3>3
  <2>5. ASSUME units' = units, list'.dirs = there'
        PROVE  units' \subseteq list'.dirs
    BY <2>0, <2>1, <2>5
  <2>6. CASE Find
    <3>1. units' = units /\ rediscover' = rediscover /\ pc = "find" /\ pc' \in {"write", "lock"}
      BY <2>6 DEF Find
    <3>2. CASE rediscover
      <4>1. list'.dirs = there'
        BY <2>6, <3>2 DEF Find, Found
      <4> QED
        BY <2>0, <2>1, <2>2, <2>5, <3>1, <4>1
    <3>3. CASE ~rediscover
      <4>1. list' = list \/ list'.dirs = there'
        BY <2>6 DEF Find, Found
      <4> QED
        BY <2>0, <2>1, <2>2, <2>5, <3>1, <3>3, <4>1
    <3> QED
      BY <3>2, <3>3
  <2>7. CASE ManualBegins
    <3>1. UNCHANGED <<units, rediscover, pc, untilWalk>> /\ (list' = list \/ list'.dirs = there')
      BY <2>7 DEF ManualBegins, Found
    <3> QED
      BY <2>0, <2>1, <2>2, <2>5, <3>1
  <2>8. CASE Tick
    <3>1. UNCHANGED <<units, rediscover, pc>> /\ (untilWalk = 0 => untilWalk' = 0)
      BY <2>8 DEF Tick, Down
    <3>2. \/ list'.left = 0
          \/ list'.dirs = list.dirs /\ list'.left = list.left - 1 /\ list.left > 1
      BY <2>8 DEF Tick, NoList, TypeOK
    <3> QED
      BY <1>0, <2>0, <2>1, <2>2, <3>1, <3>2
  <2>9. CASE Marked
    <3>1. UNCHANGED <<units, list>> /\ pc = "next"
      BY <2>9 DEF Marked
    <3> QED
      BY <2>0, <2>1, <2>2, <3>1
  <2>10. CASE TakeLock \/ SecondVisits \/ Visit \/ VisitFails \/ VisitDone \/ VisitLetsGo
    <3>1. UNCHANGED <<units, list, rediscover>> /\ pc \in {"lock", "next", "visit"}
      BY <2>10 DEF TakeLock, SecondVisits, Visit, VisitFails, VisitDone, VisitLetsGo
    <3> QED
      BY <2>0, <2>1, <2>2, <3>1
  <2>11. CASE Write \/ Wake
    <3>1. UNCHANGED <<units, list, rediscover>> /\ pc \in {"write", "asleep"}
          /\ pc' \in {"look", "asleep"}
      BY <2>11 DEF Write, Wake
    <3> QED
      BY <2>0, <2>1, <2>2, <3>1
  <2>12. CASE UNCHANGED <<units, list, rediscover, pc, untilWalk>>
    BY <2>0, <2>1, <2>2, <2>12
  <2> QED
    BY <2>0, <2>1, <2>2, <2>3, <2>4, <2>6, <2>7, <2>8, <2>9, <2>10, <2>11, <2>12
    DEF Next, Daemon, BuildBegins, BuildEnds, Clean, ManualEnds, vars
<1> QED
  BY <1>1, <1>2, <1>3 DEF ListInv
----------------------------------------------------------------------------
(* The units a session runs for *)

\* One that nobody came to was that already, and stays as old and where it is.
LEMMA Kept ==
  ASSUME TypeOK, TypeOK', StampInv, SessionInv, ReadyInv, [Next]_vars, ~Look,
         NEW u \in ready', stamp'[u] = last'[u]
  PROVE  /\ u \in ready /\ u \in Unit /\ stamp[u] = last[u]
         /\ stamp'[u] = stamp[u] /\ stamp[u] \in Nat
         /\ age'[u] = Floor(u)
         /\ u \in there' => u \in there
<1> USE DEF world, counters, state, visit, session
<1>1. CASE ready' = {}
  BY <1>1
<1>2. CASE ready' = ready /\ last' = last
  <2>1. /\ u \in ready /\ u \in Unit /\ stamp[u] \in Nat /\ last[u] \in Nat /\ stamp'[u] \in Nat
        /\ last[u] <= stamp[u] /\ stamp[u] <= stamp'[u]
    BY <1>2, Moves DEF TypeOK, StampInv, Still
  <2>2. stamp[u] = last[u] /\ stamp'[u] = stamp[u]
    BY <1>2, <2>1
  <2>3. age[u] = Floor(u)
    BY <2>1, <2>2 DEF ReadyInv
  <2> QED
    BY <2>1, <2>2, <2>3, Moves DEF Still
<1>3. CASE Start \/ Write \/ Crash
  BY <1>1, <1>2, <1>3 DEF Start, Write, Crash, SessionInv
<1> QED
  BY <1>2, <1>3
  DEF Next, Daemon, Find, TakeLock, SecondVisits, Visit, VisitFails, VisitDone, VisitLetsGo,
      Marked, Wake, BuildBegins, BuildEnds, Clean, ManualBegins, ManualEnds, Tick, vars

\* A look takes what is as old as can be told.
LEMMA LookTakes ==
  ASSUME TypeOK, Look, NEW u \in ready'
  PROVE  age'[u] = Floor(u) /\ pc' \in {"find", "write"} /\ finished' = finished
         /\ u \in Unit
<1>1. age' = age /\ pc' \in {"find", "write"} /\ finished' = finished
  BY DEF Look, world, session, visit
<1>2. u \in Unit
  BY DEF Look, Refresh, Discover, TypeOK
<1>3. Floor(u) - age[u] = 0
  BY <1>2 DEF Look, Refresh
<1> QED
  BY <1>1, <1>2, <1>3, Floors DEF TypeOK

\* The list, while it holds, has them.
LEMMA FindHas ==
  ASSUME TypeOK, ListInv, ReadyInv, ListsFit, Find,
         NEW u \in ready, stamp[u] = last[u], u \in there \ setup.skips
  PROVE  u \in dirs'
<1>1. PICK found \in {there, list.dirs \cap there} :
        Found(rediscover, found) /\ dirs' = found \ setup.skips
  BY DEF Find
<1>2. CASE found = there
  BY <1>1, <1>2
<1>3. CASE found # there
  <2>1. ~rediscover /\ list.left > 0 /\ found = list.dirs \cap there /\ pc = "find"
    BY <1>1, <1>3 DEF Found, Find
  <2>2. u \in units /\ u \in Unit
    BY DEF TypeOK
  <2>3. setup \in Setups /\ setup.every \in Nat /\ list.left \in Nat /\ age[u] = Floor(u)
    BY <2>2 DEF TypeOK, ReadyInv
  <2>4. CASE setup.cleans
    <3>1. setup.every <= MinAge
      BY <2>3, <2>4 DEF ListsFit
    <3>2. ~(age[u] + list.left <= setup.every)
      BY <2>1, <2>2, <2>3, <3>1, Floors
    <3>3. u \in list.dirs
      BY <2>1, <2>2, <3>2 DEF ListInv
    <3> QED
      BY <1>1, <2>1, <3>3
  <2>5. CASE ~setup.cleans
    BY <1>1, <2>1, <2>2, <2>5 DEF ListInv
  <2> QED
    BY <2>4, <2>5
<1> QED
  BY <1>2, <1>3

LEMMA ReadyStep ==
  ASSUME TypeOK, TypeOK', StampInv, SessionInv, ListInv, ReadyInv, OneGroupEach, ListsFit,
         [Next]_vars
  PROVE  ReadyInv'
<1> SUFFICES ASSUME NEW u \in ready', stamp'[u] = last'[u]
             PROVE  /\ age'[u] = Floor(u)
                    /\ pc' \in {"lock", "next", "visit"} /\ u \in there' \ setup'.skips => u \in dirs'
                    /\ pc' \in {"next", "visit"} /\ u \in dirs' =>
                         \/ GroupOf[u] \in queue' \cup again'
                         \/ pc' = "visit" /\ GroupOf[u] = group'
                         \/ finished'[u] = stamp'[u] \/ u \in busy'
                         \/ outcome'[FamilyOf[GroupOf[u]]] = "early"
  BY DEF ReadyInv, Floor
<1> USE DEF world, counters, state, visit, session
<1>1. CASE Look
  BY <1>1, LookTakes
<1>2. CASE ~Look
  <2>0. /\ u \in ready /\ u \in Unit /\ stamp[u] = last[u] /\ setup' = setup
        /\ stamp'[u] = stamp[u] /\ stamp[u] \in Nat
        /\ age'[u] = Floor(u)
        /\ u \in there' => u \in there
    BY <1>2, Kept, SetupStays
  <2>1. /\ pc \in {"lock", "next", "visit"} /\ u \in there \ setup.skips => u \in dirs
        /\ pc \in {"next", "visit"} /\ u \in dirs =>
             \/ GroupOf[u] \in queue \cup again
             \/ pc = "visit" /\ GroupOf[u] = group
             \/ finished[u] = stamp[u] \/ u \in busy
             \/ outcome[FamilyOf[GroupOf[u]]] = "early"
    BY <2>0 DEF ReadyInv
  <2>2. CASE Find
    <3>1. u \in there \ setup.skips => u \in dirs'
      BY <2>0, <2>2, FindHas
    <3> QED
      BY <2>0, <2>2, <3>1 DEF Find
  <2>3. CASE TakeLock
    BY <2>0, <2>1, <2>3 DEF TakeLock
  <2>4. CASE SecondVisits
    <3>1. queue' \cup again' = queue \cup again /\ pc = "next" /\ pc' = pc
          /\ UNCHANGED <<dirs, finished, busy, outcome>>
      BY <2>4 DEF SecondVisits
    <3> QED
      BY <2>0, <2>1, <3>1
  <2>5. CASE Visit
    <3>1. /\ pc = "next" /\ pc' = "visit" /\ queue \subseteq queue' \cup {group'}
          /\ busy \subseteq busy' /\ UNCHANGED <<dirs, finished, again, outcome>>
      BY <2>5 DEF Visit
    <3> QED
      BY <2>0, <2>1, <3>1
  <2>6. CASE VisitDone
    <3>1. pc = "visit" /\ pc' = "next" /\ UNCHANGED <<dirs, queue, again, busy>>
      BY <2>6 DEF VisitDone
    <3>2. finished'[u] = IF u \in locked THEN seen[u] ELSE finished[u]
      BY <2>0, <2>6 DEF VisitDone
    <3>3. seen[u] = stamp[u]
      <4>1. last[u] <= seen[u] /\ seen[u] <= stamp[u] /\ seen[u] \in Nat
        BY <2>0, <3>1 DEF StampInv, TypeOK
      <4> QED
        BY <2>0, <4>1
    <3>4. group \in Group /\ Members(group) \subseteq locked \cup busy
      BY <3>1 DEF SessionInv
    <3>5. u \in dirs /\ GroupOf[u] = group => finished'[u] = stamp[u] \/ u \in busy
      BY <3>2, <3>3, <3>4 DEF Members
    <3>6. outcome[FamilyOf[GroupOf[u]]] = "early" /\ GroupOf[u] # group =>
            outcome'[FamilyOf[GroupOf[u]]] = "early"
      <4>1. GroupOf[u] # group => FamilyOf[GroupOf[u]] # FamilyOf[group]
        BY <2>0, <3>4 DEF OneGroupEach
      <4>2. FamilyOf[GroupOf[u]] \in Family
        BY <2>0
      <4> QED
        BY <2>6, <4>1, <4>2 DEF VisitDone, TypeOK
    <3> QED
      BY <2>0, <2>1, <3>1, <3>2, <3>3, <3>5, <3>6
  <2>7. CASE VisitLetsGo
    <3>1. pc = "visit" /\ pc' = "next" /\ UNCHANGED <<dirs, queue, busy, finished>>
          /\ again \subseteq again'
      BY <2>7 DEF VisitLetsGo
    <3>2. outcome' = [outcome EXCEPT ![FamilyOf[group]] = "early"]
      BY <2>7 DEF VisitLetsGo
    <3>3. FamilyOf[GroupOf[u]] \in Family /\ (GroupOf[u] = group => FamilyOf[GroupOf[u]] = FamilyOf[group])
      BY <2>0
    <3>4. outcome[FamilyOf[GroupOf[u]]] = "early" \/ GroupOf[u] = group =>
            outcome'[FamilyOf[GroupOf[u]]] = "early"
      BY <3>2, <3>3 DEF TypeOK
    <3> QED
      BY <2>0, <2>1, <3>1, <3>4
  <2>8. CASE pc' \notin {"lock", "next", "visit"}
    BY <2>0, <2>8
  <2>9. CASE UNCHANGED <<pc, dirs, queue, again, group, finished, busy, outcome>>
    BY <2>0, <2>1, <2>9
  <2> QED
    BY <1>2, <2>2, <2>3, <2>4, <2>5, <2>6, <2>7, <2>8, <2>9
    DEF Next, Daemon, Start, VisitFails, Marked, Write, Wake, Crash, BuildBegins, BuildEnds,
        Clean, ManualBegins, ManualEnds, Tick, vars
<1> QED
  BY <1>1, <1>2
----------------------------------------------------------------------------
(* What counts as visited *)

\* What counted before still does, if nobody came to it.
LEMMA CountedStays ==
  ASSUME TypeOK, TypeOK', StampInv, CountInv, [Next]_vars, NEW u \in Unit \ setup.skips,
         stamp'[u] > 0, stamp'[u] \in {visited[u], saved.visited[u]}
  PROVE  finished'[u] = stamp'[u] \/ (u \notin there' /\ age'[u] = Floor(u))
<1> USE DEF world, counters, state, visit, session
<1>1. /\ stamp[u] \in Nat /\ stamp'[u] \in Nat /\ stamp[u] <= stamp'[u]
      /\ visited[u] <= stamp[u] /\ saved.visited[u] <= stamp[u]
      /\ visited[u] \in Nat /\ saved.visited[u] \in Nat
  BY Moves DEF TypeOK, StampInv, Still
<1>2. stamp'[u] = stamp[u]
  BY <1>1
<1>3. finished[u] = stamp[u] \/ (u \notin there /\ age[u] = Floor(u))
  BY <1>2 DEF CountInv
<1>4. CASE u \notin there /\ age[u] = Floor(u)
  BY <1>2, <1>4, Moves DEF Still
<1>5. CASE finished[u] = stamp[u]
  <2>1. CASE VisitDone
    <3>1. pc = "visit" /\ finished'[u] = IF u \in locked THEN seen[u] ELSE finished[u]
      BY <2>1 DEF VisitDone
    <3>2. visited[u] <= seen[u] /\ saved.visited[u] <= seen[u] /\ seen[u] <= stamp[u] /\ seen[u] \in Nat
      BY <3>1 DEF StampInv, TypeOK
    <3>3. seen[u] = stamp[u]
      BY <1>1, <1>2, <3>2
    <3> QED
      BY <1>2, <1>5, <3>1, <3>3
  <2>2. CASE UNCHANGED finished
    BY <1>2, <1>5, <2>2
  <2> QED
    BY <2>1, <2>2
    DEF Next, Daemon, Start, Look, Find, TakeLock, SecondVisits, Visit, VisitFails, VisitLetsGo,
        Marked, Write, Wake, Crash, BuildBegins, BuildEnds, Clean, ManualBegins, ManualEnds,
        Tick, vars
<1> QED
  BY <1>3, <1>4, <1>5

\* What a session marks was visited in it, unless it has gone.
LEMMA MarkedIsDone ==
  ASSUME TypeOK, SessionInv, ReadyInv, Marked,
         NEW u \in ready \ busy, u \notin setup.skips, ~LetGoEarly, stamp[u] = last[u]
  PROVE  finished'[u] = stamp'[u] \/ (u \notin there' /\ age'[u] = Floor(u))
<1>1. /\ pc = "next" /\ queue = {} /\ (second \/ again = {})
      /\ UNCHANGED <<stamp, age, there, finished>>
  BY DEF Marked, world
<1>2. again = {}
  BY <1>1 DEF SessionInv
<1>3. u \in Unit /\ FamilyOf[GroupOf[u]] \in Family
  BY DEF TypeOK
<1>4. outcome[FamilyOf[GroupOf[u]]] # "early"
  BY <1>3 DEF LetGoEarly
<1>5. /\ age[u] = Floor(u)
      /\ u \in there => u \in dirs
      /\ u \in dirs => finished[u] = stamp[u]
  BY <1>1, <1>2, <1>4 DEF ReadyInv
<1> QED
  BY <1>1, <1>5

LEMMA CountStep ==
  ASSUME TypeOK, TypeOK', StampInv, SessionInv, ReadyInv, CountInv, [Next]_vars
  PROVE  CountInv'
<1> SUFFICES ASSUME NEW u \in Unit \ setup.skips, stamp'[u] > 0,
                    stamp'[u] \in {visited'[u], saved'.visited[u]}
             PROVE  finished'[u] = stamp'[u] \/ (u \notin there' /\ age'[u] = Floor(u))
  BY SetupStays DEF CountInv, Floor
<1> USE DEF world, counters, state, visit, session
<1>1. stamp[u] \in Nat /\ stamp'[u] \in Nat
  BY DEF TypeOK
<1>2. CASE Marked
  <2>1. saved' = saved /\ stamp' = stamp
    BY <1>2 DEF Marked
  <2>2. visited'[u] = IF ~LetGoEarly /\ u \in ready \ busy THEN last[u] ELSE visited[u]
    BY <1>2 DEF Marked, MarkVisited
  <2>3. CASE stamp'[u] \in {visited[u], saved.visited[u]}
    BY <2>3, CountedStays
  <2>4. CASE stamp'[u] \notin {visited[u], saved.visited[u]}
    <3>1. ~LetGoEarly /\ u \in ready \ busy /\ stamp[u] = last[u]
      BY <2>1, <2>2, <2>4
    <3> QED
      BY <1>2, <3>1, MarkedIsDone
  <2> QED
    BY <2>3, <2>4
<1>3. CASE ~Marked
  <2>1. visited'[u] \in {visited[u], saved.visited[u], 0}
    <3>1. CASE Look
      BY <3>1 DEF Look, Discover, Carried
    <3>2. CASE Start
      BY <3>2 DEF Start
    <3>3. CASE Crash
      BY <3>3 DEF Crash
    <3>4. CASE UNCHANGED visited
      BY <3>4
    <3> QED
      BY <1>3, <3>1, <3>2, <3>3, <3>4
      DEF Next, Daemon, Find, TakeLock, SecondVisits, Visit, VisitFails, VisitDone, VisitLetsGo,
          Write, Wake, BuildBegins, BuildEnds, Clean, ManualBegins, ManualEnds, Tick, vars
  <2>2. saved'.visited[u] \in {visited[u], saved.visited[u]}
    <3>1. CASE Write
      BY <3>1 DEF Write
    <3>2. CASE UNCHANGED saved
      BY <3>2
    <3> QED
      BY <3>1, <3>2
      DEF Next, Daemon, Start, Look, Find, TakeLock, SecondVisits, Visit, VisitFails, VisitDone,
          VisitLetsGo, Marked, Wake, Crash, BuildBegins, BuildEnds, Clean, ManualBegins,
          ManualEnds, Tick, vars
  <2>3. stamp'[u] \in {visited[u], saved.visited[u]}
    BY <1>1, <2>1, <2>2
  <2> QED
    BY <2>3, CountedStays
<1> QED
  BY <1>2, <1>3

----------------------------------------------------------------------------
(* The theorems *)

LEMMA InductiveInit == Init => DaemonInv
<1> SUFFICES ASSUME Init PROVE DaemonInv
  OBVIOUS
<1>1. TypeOK
  BY TypeInit
<1>2. StampInv
  BY <1>1 DEF Init, StampInv
<1>3. SessionInv
  BY DEF Init, SessionInv
<1>4. ListInv
  BY <1>1 DEF Init, ListInv, NoList, TypeOK
<1>5. ReadyInv
  BY DEF Init, ReadyInv
<1>6. CountInv
  BY DEF Init, CountInv
<1> QED
  BY <1>1, <1>2, <1>3, <1>4, <1>5, <1>6 DEF DaemonInv

LEMMA InductiveStep == OneGroupEach /\ ListsFit /\ DaemonInv /\ [Next]_vars => DaemonInv'
<1> SUFFICES ASSUME OneGroupEach, ListsFit, DaemonInv, [Next]_vars PROVE DaemonInv'
  OBVIOUS
<1>1. TypeOK /\ StampInv /\ SessionInv /\ ListInv /\ ReadyInv /\ CountInv
  BY DEF DaemonInv
<1>2. TypeOK'
  BY <1>1, TypeStep
<1> QED
  BY <1>1, <1>2, StampStep, SessionStep, ListStep, ReadyStep, CountStep DEF DaemonInv

\* The state has its shape, what was read of a unit is no newer than the unit, and the
\* session and the list of build dirs are about the units there are, whatever the
\* groups, the families and the lists (daemon/mod.rs; session.rs; known.rs).
THEOREM DaemonTyped == Spec => [](TypeOK /\ StampInv /\ SessionInv /\ ListInv)
<1>1. Init => TypeOK /\ StampInv /\ SessionInv /\ ListInv
  BY InductiveInit DEF DaemonInv
<1>2. TypeOK /\ StampInv /\ SessionInv /\ ListInv /\ [Next]_vars
        => (TypeOK /\ StampInv /\ SessionInv /\ ListInv)'
  <2> SUFFICES ASSUME TypeOK, StampInv, SessionInv, ListInv, [Next]_vars
               PROVE  (TypeOK /\ StampInv /\ SessionInv /\ ListInv)'
    OBVIOUS
  <2>1. TypeOK'
    BY TypeStep
  <2> QED
    BY <2>1, StampStep, SessionStep, ListStep
<1> QED
  BY <1>1, <1>2, PTL DEF Spec

\* With a build system for each family and lists that fit, all of the inductive
\* invariant holds.
THEOREM DaemonInductive == OneGroupEach /\ ListsFit => (Spec => []DaemonInv)
<1> SUFFICES ASSUME OneGroupEach /\ ListsFit PROVE Spec => []DaemonInv
  OBVIOUS
<1>1. DaemonInv /\ [Next]_vars => DaemonInv'
  BY InductiveStep
<1> QED
  BY <1>1, InductiveInit, PTL DEF Spec

\* A unit that counts as visited, in the daemon or in its file, and that the config does
\* not have sessions leave alone, had a visit that was not cut short and began with the
\* unit's last build in it (daemon/mod.rs, mark_visited).
THEOREM VisitedAreDone == OneGroupEach /\ ListsFit => (Spec => []VisitedIsDone)
<1> SUFFICES ASSUME OneGroupEach /\ ListsFit PROVE Spec => []VisitedIsDone
  OBVIOUS
<1>1. DaemonInv => VisitedIsDone
  BY DEF DaemonInv, TypeOK, StampInv, CountInv, VisitedIsDone
<1> QED
  BY <1>1, DaemonInductive, PTL

=============================================================================
