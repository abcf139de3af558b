---------------------------- MODULE Seed_proofs ----------------------------
(***************************************************************************)
(* What a seed copies of the units it found, for any number of positions,  *)
(* units and files, any builds on both sides, and any other sessions.      *)
(***************************************************************************)
EXTENDS Seed, TLAPS

USE SeedAssumption

\* There is one first position.
LEMMA FirstUnique ==
  ASSUME NEW S \in SUBSET Nat, NEW p, NEW q, First(p, S), First(q, S)
  PROVE  p = q
<1>1. p \in Nat /\ q \in Nat /\ p <= q /\ q <= p
  BY DEF First
<1> QED
  BY <1>1

\* Of what is left of a set, the first is the first of the set no more.
LEMMA FirstGone ==
  ASSUME NEW S \in SUBSET Nat, NEW p, First(p, S), NEW q \in S \ {p}
  PROVE  ~First(q, S)
  BY FirstUnique DEF First

LEMMA WrittenType ==
  ASSUME file \in [Side -> [File -> FileType]],
         NEW s \in Side, NEW f \in File, NEW d \in Data \cup {Torn, Gone},
         Written(s, f, d)
  PROVE  file' \in [Side -> [File -> FileType]]
<1>1. file[s] \in [File -> FileType] /\ file[s][f] \in FileType
  OBVIOUS
<1>2. [ver |-> file[s][f].ver + 1, data |-> d] \in FileType
  BY <1>1 DEF FileType
<1> QED
  BY <1>1, <1>2 DEF Written

\* What a write leaves alone.
LEMMA WrittenElsewhere ==
  ASSUME file \in [Side -> [File -> FileType]],
         NEW s \in Side, NEW f \in File, NEW d, Written(s, f, d)
  PROVE  /\ file'[s][f].data = d
         /\ \A t \in Side, g \in File : t # s \/ g # f => file'[t][g] = file[t][g]
  BY DEF Written

LEMMA NoEntryType == NoIndex \in [Side -> [File -> EntryType]]
  BY DEF NoIndex, NoEntry, EntryType

-----------------------------------------------------------------------------
(* The shape of the state *)

LEMMA TypeInit == Init => TypeOK
<1> SUFFICES ASSUME Init PROVE TypeOK
  OBVIOUS
<1>1. PICK d \in Data, new \in SUBSET {f \in File : UnitOf[f] \in Unlisted} :
        \E known \in SUBSET (File \ new) :
          /\ file = [s \in Side |-> [f \in File |->
               IF s = "source" /\ f \notin new THEN [ver |-> 1, data |-> d]
                                               ELSE [ver |-> 0, data |-> Gone]]]
          /\ disk = [NoIndex EXCEPT !["source"] = [f \in File |->
               IF f \in known THEN [ver |-> 1, hash |-> d, shared |-> FALSE] ELSE NoEntry]]
  BY Zenon DEF Init
<1>2. file \in [Side -> [File -> FileType]]
  BY <1>1 DEF FileType
<1>3. disk \in [Side -> [File -> EntryType]]
  <2> PICK known \in SUBSET (File \ new) :
        disk = [NoIndex EXCEPT !["source"] = [f \in File |->
          IF f \in known THEN [ver |-> 1, hash |-> d, shared |-> FALSE] ELSE NoEntry]]
    BY <1>1
  <2>1. [f \in File |-> IF f \in known THEN [ver |-> 1, hash |-> d, shared |-> FALSE]
                                       ELSE NoEntry] \in [File -> EntryType]
    BY DEF EntryType, NoEntry
  <2> QED
    BY <2>1, NoEntryType
<1>4. index \in [Side -> [File -> EntryType]]
  BY NoEntryType DEF Init
<1> QED
  BY <1>2, <1>3, <1>4 DEF Init, TypeOK

LEMMA TypeStep == Inv /\ [Next]_vars => TypeOK'
<1> SUFFICES ASSUME Inv, [Next]_vars PROVE TypeOK'
  OBVIOUS
<1> USE DEF Inv, TypeOK, world, tool, walk, job, ghosts, counters
<1>0. at \in File <=> pc \in {"create", "fill", "register"}
  BY DEF WalkInv
<1>1. CASE Begin
  BY <1>1 DEF Begin, Positions
<1>2. CASE Lock
  BY <1>2 DEF Lock
<1>3. ASSUME NEW p \in Pos, Enter(p) PROVE TypeOK'
  <2>1. held = {} /\ busy = {}
    BY <1>3 DEF Enter, WalkInv, Walking
  <2> QED
    BY <1>3, <2>1 DEF Enter, UnitsAt
<1>4. ASSUME NEW p \in Pos, MakeDir(p) PROVE TypeOK'
  BY <1>4 DEF MakeDir
<1>5. ASSUME NEW p \in Pos, Leave(p) PROVE TypeOK'
  BY <1>5 DEF Leave, LeavePosition
<1>6. ASSUME NEW u \in Unit, TryLock(u) PROVE TypeOK'
  BY <1>6 DEF TryLock, First
<1>7. ASSUME NEW f \in File, Stat(f) PROVE TypeOK'
  <2>1. file["source"][f].ver \in Nat
    BY DEF Side, FileType
  <2> QED
    BY <1>7, <2>1 DEF Stat
<1>8. CASE Create
  <2>1. file' \in [Side -> [File -> FileType]]
    BY <1>0, <1>8, WrittenType DEF Create, Side
  <2> QED
    BY <1>8, <2>1 DEF Create
<1>9. CASE Fill
  <2>1. file["source"][at].data \in Data \cup {Torn, Gone}
    BY <1>0, <1>9 DEF Fill, Side, FileType
  <2>2. file' \in [Side -> [File -> FileType]]
    BY <1>0, <1>9, <2>1, WrittenType DEF Fill, Side
  <2> QED
    BY <1>0, <1>9, <2>2 DEF Fill
<1>10. CASE Register
  <2>1. at \in File
    BY <1>0, <1>10 DEF Register
  <2>2. [index["source"][at] EXCEPT !.shared = TRUE] \in EntryType
    <3>1. index["source"][at] \in EntryType
      BY <2>1 DEF Side
    <3> QED
      BY <3>1 DEF EntryType
  <2>3. [ver |-> file["copy"][at].ver, hash |-> index["source"][at].hash, shared |-> TRUE]
          \in EntryType
    BY <2>1 DEF Side, EntryType, FileType
  <2>4. /\ Registered(index) \in [Side -> [File -> EntryType]]
        /\ SourceMarked(index) \in [Side -> [File -> EntryType]]
    BY <2>1, <2>2, <2>3 DEF Registered, SourceMarked, Side
  <2>5. index' \in [Side -> [File -> EntryType]]
    BY <1>10, <2>4 DEF Register
  <2> QED
    BY <1>10, <2>1, <2>5 DEF Register
<1>11. CASE Save
  BY <1>11, NoEntryType DEF Save, End, LeavePosition
<1>12. CASE GiveUp
  BY <1>12, NoEntryType DEF GiveUp, End, LeavePosition
<1>13. ASSUME NEW u \in Unit, StartBuild(u) \/ EndBuild(u) PROVE TypeOK'
  BY <1>13 DEF StartBuild, EndBuild
<1>14. ASSUME NEW f \in File, Open(f) PROVE TypeOK'
  <2>1. file' \in [Side -> [File -> FileType]]
    BY <1>14, WrittenType DEF Open, Side
  <2> QED
    BY <1>14, <2>1 DEF Open, Meets
<1>15. ASSUME NEW f \in File, Close(f) PROVE TypeOK'
  <2>1. file' \in [Side -> [File -> FileType]]
    BY <1>15, WrittenType DEF Close, Side
  <2> QED
    BY <1>15, <2>1 DEF Close, Meets
<1>16. ASSUME NEW f \in File, BuildCopy(f) PROVE TypeOK'
  <2>1. file' \in [Side -> [File -> FileType]]
    BY <1>16, WrittenType DEF BuildCopy, Side
  <2>2. Place(f) \in Pos
    BY DEF Place
  <2>3. made' \subseteq Pos /\ writes' \in Nat
    <3>1. made' = made \cup {Place(f)} /\ writes' = writes + 1
      BY <1>16 DEF BuildCopy
    <3>2. made \subseteq Pos /\ writes \in Nat
      OBVIOUS
    <3>3. made' \subseteq Pos
      BY <2>2, <3>1, <3>2
    <3>4. writes' \in Nat
      BY <3>1, <3>2
    <3> QED
      BY <3>3, <3>4
  <2>4. copied' \subseteq File /\ met' \subseteq File
    BY <1>16 DEF BuildCopy, Meets
  <2>5. UNCHANGED <<clones, lockFiles, building, tool, job, unread, told, seeds, runs>>
    BY <1>16 DEF BuildCopy
  <2> QED
    BY <2>1, <2>3, <2>4, <2>5
<1>17. ASSUME NEW p \in Pos, RemoveCopy(p) PROVE TypeOK'
  <2>1. [f \in File |-> [file["copy"][f] EXCEPT !.data = IF Place(f) = p THEN Gone ELSE @]]
          \in [File -> FileType]
    BY SMTT(30) DEF Side, FileType
  <2>2. file' \in [Side -> [File -> FileType]]
    BY <1>17, <2>1 DEF RemoveCopy
  <2> QED
    BY <1>17, <2>2 DEF RemoveCopy
<1>18. CASE RunBegins \/ RunGivesUp
  <2>1. CASE RunBegins
    BY <2>1 DEF RunBegins
  <2>2. CASE RunGivesUp
    BY <2>2 DEF RunGivesUp
  <2> QED
    BY <1>18, <2>1, <2>2
<1>19. ASSUME NEW f \in File, RunEnds(f) PROVE TypeOK'
  <2>1. file' \in [Side -> [File -> FileType]]
    BY <1>19, WrittenType DEF RunEnds, Side
  <2>2. /\ file["source"][f].ver + 1 \in Nat
        /\ [ver |-> file["source"][f].ver + 1, hash |-> file["source"][f].data,
            shared |-> TRUE] \in EntryType
    BY <1>19 DEF RunEnds, Side, FileType, EntryType
  <2>3. disk' \in [Side -> [File -> EntryType]] /\ told' \in [File -> Nat]
    BY <1>19, <2>2 DEF RunEnds, Side
  <2> QED
    BY <1>19, <2>1, <2>3 DEF RunEnds
<1>20. CASE UNCHANGED vars
  BY <1>20 DEF vars
<1> QED
  BY <1>1, <1>2, <1>3, <1>4, <1>5, <1>6, <1>7, <1>8, <1>9, <1>10, <1>11, <1>12, <1>13,
     <1>14, <1>15, <1>16, <1>17, <1>18, <1>19, <1>20 DEF Next, SeedStep, Others
-----------------------------------------------------------------------------
(* The walk *)

LEMMA RestInit == Init => BuildInv /\ WalkInv /\ OnceInv /\ CopiesAgree
<1> SUFFICES ASSUME Init PROVE BuildInv /\ WalkInv /\ OnceInv /\ CopiesAgree
  OBVIOUS
<1>1. BuildInv
  <2> SUFFICES ASSUME NEW f \in File PROVE file["source"][f].data # Torn
    BY DEF BuildInv, Init
  <2> PICK d \in Data, new \in SUBSET {g \in File : UnitOf[g] \in Unlisted} :
        file = [s \in Side |-> [g \in File |->
          IF s = "source" /\ g \notin new THEN [ver |-> 1, data |-> d]
                                          ELSE [ver |-> 0, data |-> Gone]]]
    BY Zenon DEF Init
  <2> QED
    BY DEF Side
<1> QED
  BY <1>1 DEF Init, WalkInv, Walking, OnceInv, CopiesAgree

LEMMA BuildStep == Inv /\ [Next]_vars => BuildInv'
<1> SUFFICES ASSUME Inv, [Next]_vars PROVE BuildInv'
  OBVIOUS
<1> USE DEF Inv, BuildInv, world, tool, walk, job, ghosts, counters
<1>0. /\ file \in [Side -> [File -> FileType]]
      /\ at \in File <=> pc \in {"create", "fill", "register"}
  BY DEF TypeOK, WalkInv
<1>1. CASE UNCHANGED <<file, held, building>>
  BY <1>1
<1>2. CASE Begin \/ Lock \/ Register \/ RunBegins \/ RunGivesUp \/ UNCHANGED vars
  <2>1. UNCHANGED <<file, held, building>>
    BY <1>2 DEF Begin, Lock, Register, RunBegins, RunGivesUp, vars
  <2> QED
    BY <1>1, <2>1
<1>3. ASSUME NEW p \in Pos, Enter(p) \/ MakeDir(p) PROVE BuildInv'
  BY <1>3 DEF Enter, MakeDir
<1>4. ASSUME NEW p \in Pos, Leave(p) PROVE BuildInv'
  BY <1>4 DEF Leave, LeavePosition
<1>5. CASE Save \/ GiveUp
  BY <1>5 DEF Save, GiveUp, End, LeavePosition
<1>6. ASSUME NEW u \in Unit, TryLock(u) PROVE BuildInv'
  BY <1>6 DEF TryLock
<1>7. ASSUME NEW f \in File, Stat(f) PROVE BuildInv'
  BY <1>7 DEF Stat
<1>8. CASE Create
  <2>1. \A f \in File : file'["source"][f] = file["source"][f]
    BY <1>0, <1>8, WrittenElsewhere DEF Create, Side
  <2> QED
    BY <1>8, <2>1 DEF Create
<1>9. CASE Fill
  <2>1. \A f \in File : file'["source"][f] = file["source"][f]
    BY <1>0, <1>9, WrittenElsewhere DEF Fill, Side
  <2> QED
    BY <1>9, <2>1 DEF Fill
<1>10. ASSUME NEW u \in Unit, StartBuild(u) PROVE BuildInv'
  BY <1>10 DEF StartBuild
<1>11. ASSUME NEW u \in Unit, EndBuild(u) PROVE BuildInv'
  BY <1>11 DEF EndBuild
<1>12. ASSUME NEW f \in File, Open(f) PROVE BuildInv'
  <2>1. \A g \in File : g # f => file'["source"][g] = file["source"][g]
    BY <1>0, <1>12, WrittenElsewhere DEF Open, Side
  <2> QED
    BY <1>12, <2>1 DEF Open
<1>13. ASSUME NEW f \in File, Close(f) PROVE BuildInv'
  <2>1. \A g \in File : g # f => file'["source"][g] = file["source"][g]
    BY <1>0, <1>13, WrittenElsewhere DEF Close, Side
  <2>2. UnitOf[f] \in building
    BY <1>13 DEF Close
  <2> QED
    BY <1>13, <2>1, <2>2 DEF Close
<1>14. ASSUME NEW f \in File, BuildCopy(f) PROVE BuildInv'
  <2>1. \A g \in File : file'["source"][g] = file["source"][g]
    BY <1>0, <1>14, WrittenElsewhere DEF BuildCopy, Side
  <2> QED
    BY <1>14, <2>1 DEF BuildCopy
<1>15. ASSUME NEW p \in Pos, RemoveCopy(p) PROVE BuildInv'
  <2>1. file'["source"] = file["source"]
    BY <1>0, <1>15 DEF RemoveCopy, Side
  <2> QED
    BY <1>15, <2>1 DEF RemoveCopy
<1>16. ASSUME NEW f \in File, RunEnds(f) PROVE BuildInv'
  <2>1. \A g \in File : g # f => file'["source"][g] = file["source"][g]
    BY <1>0, <1>16, WrittenElsewhere DEF RunEnds, Side
  <2>2. file'["source"][f].data \in Data
    BY <1>0, <1>16, WrittenElsewhere DEF RunEnds, Side
  <2> QED
    BY <1>16, <2>1, <2>2 DEF RunEnds
<1> QED
  BY <1>2, <1>3, <1>4, <1>5, <1>6, <1>7, <1>8, <1>9, <1>10, <1>11, <1>12, <1>13,
     <1>14, <1>15, <1>16 DEF Next, SeedStep, Others

LEMMA WalkStep == Inv /\ [Next]_vars => WalkInv'
<1> SUFFICES ASSUME Inv, [Next]_vars PROVE WalkInv'
  OBVIOUS
<1> USE DEF Inv, WalkInv, Walking, Skipped, Place, world, tool, walk, job, ghosts, counters
<1>0. TypeOK
  OBVIOUS
<1>1. ASSUME UNCHANGED <<pc, queue, units, held, busy, left, at>> PROVE WalkInv'
  BY <1>1
<1>2. CASE Begin
  BY <1>0, <1>2 DEF Begin, TypeOK
<1>3. CASE Lock
  BY <1>0, <1>3 DEF Lock, TypeOK
<1>4. ASSUME NEW p \in Pos, Enter(p) PROVE WalkInv'
  BY <1>0, <1>4 DEF Enter, UnitsAt, TypeOK
<1>5. ASSUME NEW p \in Pos, MakeDir(p) PROVE WalkInv'
  BY <1>0, <1>5 DEF MakeDir, TypeOK
<1>6. ASSUME NEW p \in Pos, Leave(p) PROVE WalkInv'
  BY <1>0, <1>6 DEF Leave, LeavePosition, TypeOK
<1>7. CASE Save \/ GiveUp
  BY <1>0, <1>7 DEF Save, GiveUp, End, LeavePosition, TypeOK
<1>8. ASSUME NEW u \in Unit, TryLock(u) PROVE WalkInv'
  BY <1>0, <1>8 DEF TryLock, TypeOK
<1>9. ASSUME NEW f \in File, Stat(f) PROVE WalkInv'
  BY <1>0, <1>9 DEF Stat, TypeOK
<1>10. CASE Create
  BY <1>0, <1>10 DEF Create, TypeOK
<1>11. CASE Fill
  BY <1>0, <1>11 DEF Fill, TypeOK
<1>12. CASE Register
  BY <1>0, <1>12 DEF Register, TypeOK
<1>13. CASE Others \/ UNCHANGED vars
  <2>1. UNCHANGED job
    BY <1>13 DEF Others, StartBuild, EndBuild, Open, Close, BuildCopy, RemoveCopy,
                 RunBegins, RunEnds, RunGivesUp, vars
  <2> QED
    BY <1>1, <2>1
<1> QED
  BY <1>2, <1>3, <1>4, <1>5, <1>6, <1>7, <1>8, <1>9, <1>10, <1>11, <1>12, <1>13
     DEF Next, SeedStep
LEMMA OnceStep == Inv /\ [Next]_vars => OnceInv'
<1> SUFFICES ASSUME Inv, [Next]_vars, pc' \notin {"idle", "chosen"},
                    NEW f \in copied', Place(f) \in queue'
             PROVE  /\ Walking' /\ First(Place(f), queue') /\ f \notin left'
                    /\ f = at' => pc' = "register"
  BY DEF OnceInv, Place
<1> USE DEF Inv, OnceInv, Walking, world, tool, walk, job, ghosts, counters
<1>0. TypeOK /\ queue \in SUBSET Nat
  BY DEF TypeOK
<1>1. ASSUME f \in copied, UNCHANGED <<pc, queue, left, at>>
      PROVE  /\ Walking' /\ First(Place(f), queue') /\ f \notin left'
             /\ f = at' => pc' = "register"
  BY <1>1
<1>2. CASE Begin
  BY <1>2 DEF Begin
<1>3. CASE Lock
  BY <1>3 DEF Lock
<1>4. ASSUME NEW p \in Pos, Enter(p) PROVE FALSE
  BY <1>4 DEF Enter
<1>5. ASSUME NEW p \in Pos, MakeDir(p) PROVE FALSE
  BY <1>5 DEF MakeDir
<1>6. ASSUME NEW p \in Pos, Leave(p) PROVE FALSE
  <2>1. First(Place(f), queue) /\ First(p, queue) /\ Place(f) # p
    BY <1>6 DEF Leave, LeavePosition
  <2> QED
    BY <1>0, <2>1, FirstUnique
<1>7. CASE Save \/ GiveUp
  BY <1>7 DEF Save, GiveUp, End
<1>8. ASSUME NEW u \in Unit, TryLock(u) PROVE FALSE
  BY <1>8 DEF TryLock
<1>9. ASSUME NEW g \in File, Stat(g)
      PROVE  /\ Walking' /\ First(Place(f), queue') /\ f \notin left'
             /\ f = at' => pc' = "register"
  <2>1. f \in copied /\ f \notin left /\ First(Place(f), queue) /\ g \in left /\ queue' = queue
    BY <1>9 DEF Stat
  <2>2. at \notin File
    BY <1>9 DEF Stat, WalkInv
  <2> QED
    BY <1>0, <1>9, <2>1, <2>2 DEF Stat, TypeOK
<1>10. CASE Create
  BY <1>10 DEF Create
<1>11. CASE Fill
  <2>1. CASE f = at
    BY <1>0, <1>11, <2>1 DEF Fill, WalkInv, TypeOK
  <2>2. CASE f # at
    BY <1>11, <2>2 DEF Fill
  <2> QED
    BY <2>1, <2>2
<1>12. CASE Register
  <2>1. f \in copied /\ f \in File /\ at' = None
    BY <1>12 DEF Register, TypeOK
  <2> QED
    BY <1>12, <2>1 DEF Register
<1>13. CASE Others \/ UNCHANGED vars
  <2>1. UNCHANGED job
    BY <1>13 DEF Others, StartBuild, EndBuild, Open, Close, BuildCopy, RemoveCopy,
                 RunBegins, RunEnds, RunGivesUp, vars
  <2>2. f \in copied
    BY <1>13 DEF Others, StartBuild, EndBuild, Open, Close, BuildCopy, RemoveCopy,
                 RunBegins, RunEnds, RunGivesUp, vars
  <2> QED
    BY <1>1, <2>1, <2>2
<1> QED
  BY <1>2, <1>3, <1>4, <1>5, <1>6, <1>7, <1>8, <1>9, <1>10, <1>11, <1>12, <1>13
     DEF Next, SeedStep
-----------------------------------------------------------------------------
(* The copies *)

\* A copy stands as long as neither side is written and its unit is locked or
\* not as before.
LEMMA CopyStands ==
  ASSUME CopiesAgree, NEW f \in copied,
         file'["copy"][f].data = file["copy"][f].data,
         file'["source"][f].data = file["source"][f].data \/ UnitOf[f] \notin held',
         UnitOf[f] \in busy' => UnitOf[f] \in busy,
         UnitOf[f] \in held' => UnitOf[f] \in held
  PROVE  /\ file'["copy"][f].data # Torn
         /\ UnitOf[f] \notin busy'
         /\ UnitOf[f] \in held' => file'["copy"][f].data = file'["source"][f].data
  BY DEF CopiesAgree

LEMMA CopiesStep == Inv /\ [Next]_vars => CopiesAgree'
<1> SUFFICES ASSUME Inv, [Next]_vars, NEW f \in copied'
             PROVE  /\ file'["copy"][f].data # Torn
                    /\ UnitOf[f] \notin busy'
                    /\ UnitOf[f] \in held' => file'["copy"][f].data = file'["source"][f].data
  BY DEF CopiesAgree
<1> DEFINE Good == /\ file'["copy"][f].data # Torn
                   /\ UnitOf[f] \notin busy'
                   /\ UnitOf[f] \in held' => file'["copy"][f].data = file'["source"][f].data
<1> USE DEF world, tool, walk, job, ghosts, counters
<1>0. /\ CopiesAgree /\ OnceInv /\ WalkInv /\ BuildInv
      /\ file \in [Side -> [File -> FileType]]
      /\ copied \subseteq File
      /\ held \subseteq units /\ busy \subseteq units /\ units \subseteq Unit
      /\ {"copy", "source"} \subseteq Side
  BY DEF Inv, TypeOK, Side
<1>1. ASSUME f \in copied, UNCHANGED file,
             held' = held \/ held' = {}, busy' = busy \/ busy' = {}
      PROVE  Good
  BY <1>0, <1>1, CopyStands
<1>2. CASE Begin \/ Register \/ RunBegins \/ RunGivesUp \/ UNCHANGED vars
  <2>1. f \in copied /\ UNCHANGED <<file, held, busy>>
    BY <1>2 DEF Begin, Register, RunBegins, RunGivesUp, vars
  <2> QED
    BY <1>1, <2>1
<1>3. CASE Lock
  BY <1>3 DEF Lock
<1>4. ASSUME NEW p \in Pos, Enter(p) \/ MakeDir(p) \/ Leave(p) PROVE Good
  <2>1. f \in copied /\ UNCHANGED file /\ (held' = held \/ held' = {}) /\ (busy' = busy \/ busy' = {})
    BY <1>4 DEF Enter, MakeDir, Leave, LeavePosition
  <2> QED
    BY <1>1, <2>1
<1>5. CASE Save \/ GiveUp
  <2>1. f \in copied /\ UNCHANGED file /\ held' = {} /\ busy' = {}
    BY <1>5 DEF Save, GiveUp, End, LeavePosition
  <2> QED
    BY <1>1, <2>1
<1>6. ASSUME NEW u \in Unit, TryLock(u) PROVE Good
  <2>1. f \in copied /\ UNCHANGED file /\ pc = "locking" /\ u \in units
    BY <1>6 DEF TryLock, First
  <2>2. Place(f) \notin queue
    BY <1>0, <2>1 DEF OnceInv, Walking
  <2>3. PosOf[u] \in queue
    BY <1>0, <2>1 DEF WalkInv, First
  <2>4. UnitOf[f] # u
    BY <2>2, <2>3 DEF Place
  <2>5. held' \subseteq held \cup {u} /\ busy' \subseteq busy \cup {u}
    BY <1>6 DEF TryLock
  <2> QED
    BY <1>0, <2>1, <2>4, <2>5, CopyStands
<1>7. ASSUME NEW g \in File, Stat(g) PROVE Good
  <2>1. f \in copied /\ UNCHANGED <<file, held, busy>>
    BY <1>7 DEF Stat
  <2> QED
    BY <1>1, <2>1
<1>8. CASE Create
  <2>1. f \in copied /\ UNCHANGED <<held, busy>> /\ pc = "create" /\ at \in File
    BY <1>0, <1>8 DEF Create, WalkInv
  <2>2. f # at
    <3> SUFFICES ASSUME f = at PROVE FALSE
      OBVIOUS
    <3>1. Place(f) \in queue
      BY <1>0, <2>1 DEF WalkInv, First
    <3> QED
      BY <1>0, <2>1, <3>1 DEF OnceInv
  <2>3. file'["copy"][f] = file["copy"][f] /\ file'["source"][f] = file["source"][f]
    BY <1>0, <1>8, <2>1, <2>2, WrittenElsewhere DEF Create
  <2> QED
    BY <1>0, <2>1, <2>3, CopyStands
<1>9. CASE Fill
  <2>1. UNCHANGED <<units, held, busy>> /\ pc = "fill" /\ at \in File
    BY <1>0, <1>9 DEF Fill, WalkInv
  <2>2. file'["source"] = file["source"]
    BY <1>0, <1>9 DEF Fill, Written
  <2>3. CASE f = at
    <3>1. file'["copy"][at].data = file["source"][at].data
      BY <1>0, <1>9, <2>1, WrittenElsewhere DEF Fill
    <3>2. UnitOf[at] \notin busy
      BY <1>0, <2>1 DEF WalkInv, Skipped
    <3>3. CASE at \in copied
      <4>1. Place(at) \in queue
        BY <1>0, <2>1 DEF WalkInv, First
      <4> QED
        BY <1>0, <2>1, <3>3, <4>1 DEF OnceInv
    <3>4. CASE at \notin copied
      <4>1. UnitOf[at] \in units
        BY <1>9, <2>3, <3>4 DEF Fill
      <4>2. UnitOf[at] \in held
        BY <1>0, <2>1, <3>2, <4>1 DEF WalkInv, Walking
      <4>3. file["source"][at].data # Torn
        BY <1>0, <2>1, <4>2 DEF BuildInv
      <4> QED
        BY <2>1, <2>2, <2>3, <3>1, <3>2, <4>3
    <3> QED
      BY <3>3, <3>4
  <2>4. CASE f # at
    <3>1. f \in copied
      BY <1>9, <2>4 DEF Fill
    <3>2. file'["copy"][f] = file["copy"][f]
      BY <1>0, <1>9, <2>1, <2>4, <3>1, WrittenElsewhere DEF Fill
    <3> QED
      BY <1>0, <2>1, <2>2, <3>1, <3>2, CopyStands
  <2> QED
    BY <2>3, <2>4
<1>10. ASSUME NEW u \in Unit, StartBuild(u) \/ EndBuild(u) PROVE Good
  <2>1. f \in copied /\ UNCHANGED <<file, held, busy>>
    BY <1>10 DEF StartBuild, EndBuild
  <2> QED
    BY <1>1, <2>1
<1>11. ASSUME NEW g \in File, Open(g) \/ Close(g) PROVE Good
  <2>1. /\ f \in copied /\ UNCHANGED <<held, busy>> /\ UnitOf[g] \in building
        /\ \E d : Written("source", g, d)
    BY <1>11 DEF Open, Close
  <2>2. file'["copy"][f] = file["copy"][f]
    BY <1>0, <2>1, WrittenElsewhere
  <2>3. file'["source"][f] = file["source"][f] \/ UnitOf[f] \notin held
    BY <1>0, <2>1, WrittenElsewhere DEF BuildInv
  <2> QED
    BY <1>0, <2>1, <2>2, <2>3, CopyStands
<1>12. ASSUME NEW g \in File, BuildCopy(g) PROVE Good
  <2>1. f \in copied /\ f # g /\ UNCHANGED <<held, busy>>
    BY <1>12 DEF BuildCopy
  <2>2. file'["copy"][f] = file["copy"][f] /\ file'["source"][f] = file["source"][f]
    BY <1>0, <1>12, <2>1, WrittenElsewhere DEF BuildCopy
  <2> QED
    BY <1>0, <2>1, <2>2, CopyStands
<1>13. ASSUME NEW p \in Pos, RemoveCopy(p) PROVE Good
  <2>1. f \in copied /\ Place(f) # p /\ UNCHANGED <<held, busy>>
    BY <1>13 DEF RemoveCopy
  <2>2. file'["source"] = file["source"]
    BY <1>0, <1>13 DEF RemoveCopy
  <2>3. file'["copy"] =
          [g \in File |-> [file["copy"][g] EXCEPT !.data = IF Place(g) = p THEN Gone ELSE @]]
    BY <1>0, <1>13 DEF RemoveCopy
  <2>4. file["copy"][f] \in FileType
    BY <1>0, <2>1
  <2>5. file'["copy"][f].data = file["copy"][f].data
    BY <1>0, <2>1, <2>3, <2>4 DEF FileType
  <2> QED
    BY <1>0, <2>1, <2>2, <2>5, CopyStands
<1>14. ASSUME NEW g \in File, RunEnds(g) PROVE Good
  <2>1. /\ f \in copied /\ UNCHANGED <<held, busy>>
        /\ Written("source", g, file["source"][g].data)
    BY <1>14 DEF RunEnds
  <2>2. file'["copy"][f] = file["copy"][f] /\ file'["source"][f].data = file["source"][f].data
    BY <1>0, <2>1, WrittenElsewhere
  <2> QED
    BY <1>0, <2>1, <2>2, CopyStands
<1> QED
  BY <1>2, <1>3, <1>4, <1>5, <1>6, <1>7, <1>8, <1>9, <1>10, <1>11, <1>12, <1>13, <1>14
     DEF Next, SeedStep, Others

-----------------------------------------------------------------------------
(* The index *)

LEMMA KeptInit == Init => LockInv /\ IndexKept
<1> SUFFICES ASSUME Init PROVE LockInv /\ IndexKept
  OBVIOUS
<1>1. \A f \in File : told[f] = 0
  BY DEF Init
<1>2. \A f \in File : file["source"][f].ver \in Nat
  BY TypeInit DEF TypeOK, FileType, Side
<1> QED
  BY <1>1, <1>2 DEF Init, LockInv, IndexKept, KeptIn

LEMMA MarkedTwice ==
  ASSUME NEW ver, NEW hash, NEW mark
  PROVE  [[ver |-> ver, hash |-> hash, shared |-> mark] EXCEPT !.shared = mark]
           = [ver |-> ver, hash |-> hash, shared |-> mark]
  OBVIOUS

LEMMA KeptStep == Inv /\ LockInv /\ IndexKept /\ [Next]_vars => LockInv' /\ IndexKept'
<1> SUFFICES ASSUME Inv, LockInv, IndexKept, [Next]_vars PROVE LockInv' /\ IndexKept'
  OBVIOUS
<1> USE DEF world, tool, walk, job, ghosts, counters
<1>0. /\ file \in [Side -> [File -> FileType]] /\ told \in [File -> Nat]
      /\ {"copy", "source"} \subseteq Side
      /\ \A f \in File : file["source"][f].ver \in Nat /\ told[f] \in Nat
      /\ at \in File <=> pc \in {"create", "fill", "register"}
      /\ index \in [Side -> [File -> EntryType]] /\ disk \in [Side -> [File -> EntryType]]
      /\ runLock \in {"free", "seed", "run"}
  BY DEF Inv, TypeOK, Side, FileType, WalkInv
\* What leaves the sources and what was told alone has the index to look after.
<1>1. ASSUME UNCHANGED told, file'["source"] = file["source"],
             KeptIn(disk) => disk'["source"] = disk["source"] \/ KeptIn(disk)',
             runLock' = "seed" <=> pc' \notin {"idle", "chosen"},
             runLock' = "seed" => KeptIn(index)'
      PROVE  LockInv' /\ IndexKept'
  BY <1>1 DEF LockInv, IndexKept, KeptIn
<1>2. ASSUME UNCHANGED <<told, disk, runLock, pc, index>>, file'["source"] = file["source"]
      PROVE  LockInv' /\ IndexKept'
  BY <1>2 DEF LockInv, IndexKept, KeptIn
<1>3. CASE Begin
  <2>1. /\ UNCHANGED <<told, disk, runLock, index, file>> /\ pc = "idle" /\ pc' = "chosen"
    BY <1>3 DEF Begin
  <2> QED
    BY <1>1, <2>1 DEF LockInv
<1>4. CASE Lock
  BY <1>4 DEF Lock, LockInv, IndexKept, KeptIn
<1>5. ASSUME NEW p \in Pos, Enter(p) \/ MakeDir(p) \/ Leave(p) PROVE LockInv' /\ IndexKept'
  <2>1. /\ UNCHANGED <<told, disk, runLock, index, file>>
        /\ {pc, pc'} \cap {"idle", "chosen"} = {}
    BY <1>5 DEF Enter, MakeDir, Leave
  <2> QED
    BY <2>1 DEF LockInv, IndexKept, KeptIn
<1>6. ASSUME NEW u \in Unit, TryLock(u) PROVE LockInv' /\ IndexKept'
  BY <1>2, <1>6 DEF TryLock
<1>7. ASSUME NEW f \in File, Stat(f) PROVE LockInv' /\ IndexKept'
  <2>1. /\ UNCHANGED <<told, disk, runLock, index, file>>
        /\ {pc, pc'} \cap {"idle", "chosen"} = {}
    BY <1>7 DEF Stat
  <2> QED
    BY <2>1 DEF LockInv, IndexKept, KeptIn
<1>8. CASE Create \/ Fill
  <2>1. /\ UNCHANGED <<told, disk, runLock, index>>
        /\ {pc, pc'} \cap {"idle", "chosen"} = {}
    BY <1>8 DEF Create, Fill
  <2>2. file'["source"] = file["source"]
    BY <1>0, <1>8 DEF Create, Fill, Written
  <2> QED
    BY <2>1, <2>2 DEF LockInv, IndexKept, KeptIn
<1>9. CASE Register
  <2>1. /\ UNCHANGED <<told, disk, runLock, file>> /\ at \in File
        /\ {pc, pc'} \cap {"idle", "chosen"} = {} /\ runLock = "seed"
    BY <1>0, <1>9 DEF Register, LockInv
  <2>2. KeptIn(index)
    BY <2>1 DEF LockInv
  <2>3. \A f \in File : f # at => /\ Registered(index)["source"][f] = index["source"][f]
                                  /\ SourceMarked(index)["source"][f] = index["source"][f]
    BY <1>0, <2>1 DEF Registered, SourceMarked
  <2>4. /\ Registered(index)["source"][at] = [index["source"][at] EXCEPT !.shared = TRUE]
        /\ SourceMarked(index)["source"][at] = [index["source"][at] EXCEPT !.shared = TRUE]
    BY <1>0, <2>1 DEF Registered, SourceMarked
  <2>5. KeptIn(index)'
    <3> SUFFICES ASSUME NEW f \in File, told[f] # 0, told[f] = file["source"][f].ver
                 PROVE  index'["source"][f] =
                          [ver |-> told[f], hash |-> file["source"][f].data, shared |-> TRUE]
      BY <2>1 DEF KeptIn
    <3>1. index["source"][f] = [ver |-> told[f], hash |-> file["source"][f].data, shared |-> TRUE]
      BY <2>2 DEF KeptIn
    <3>2. index' \in {index, Registered(index), SourceMarked(index)}
      BY <1>9 DEF Register
    <3>3. CASE index' = index
      BY <3>1, <3>3
    <3>4. CASE index' \in {Registered(index), SourceMarked(index)} /\ f # at
      BY <2>3, <3>1, <3>4
    <3>5. CASE index' \in {Registered(index), SourceMarked(index)} /\ f = at
      <4>1. index'["source"][f] = [index["source"][f] EXCEPT !.shared = TRUE]
        BY <2>4, <3>5
      <4> DEFINE r == [ver |-> told[f], hash |-> file["source"][f].data, shared |-> TRUE]
      <4>2. [r EXCEPT !.shared = TRUE] = r
        BY MarkedTwice
      <4>3. index["source"][f] = r
        BY <3>1
      <4> HIDE DEF r
      <4>4. index'["source"][f] = r
        BY <4>1, <4>2, <4>3
      <4> QED
        BY <4>4 DEF r
    <3> QED
      BY <3>2, <3>3, <3>4, <3>5
  <2> QED
    BY <1>1, <2>1, <2>5
<1>10. CASE Save
  <2>1. /\ UNCHANGED <<told, file>> /\ disk' = index /\ pc = "save" /\ pc' = "idle"
        /\ runLock' # "seed"
    BY <1>10 DEF Save, End
  <2>2. KeptIn(index)
    BY <2>1 DEF LockInv
  <2>3. KeptIn(disk)'
    BY <2>1, <2>2 DEF KeptIn
  <2> QED
    BY <1>1, <2>1, <2>3
<1>11. CASE GiveUp
  <2>1. UNCHANGED <<told, file, disk>> /\ pc' = "idle" /\ runLock' # "seed"
    BY <1>11 DEF GiveUp, End
  <2> QED
    BY <1>1, <2>1
<1>12. ASSUME NEW u \in Unit, StartBuild(u) \/ EndBuild(u) PROVE LockInv' /\ IndexKept'
  BY <1>2, <1>12 DEF StartBuild, EndBuild
<1>13. ASSUME NEW f \in File, Open(f) \/ Close(f) PROVE LockInv' /\ IndexKept'
  <2>1. UNCHANGED <<told, disk, runLock, pc, index>> /\ \E d : Written("source", f, d)
    BY <1>13 DEF Open, Close
  <2>2. /\ file'["source"][f].ver = file["source"][f].ver + 1
        /\ \A g \in File : g # f => file'["source"][g] = file["source"][g]
    BY <1>0, <2>1 DEF Written
  <2>3. \A g \in File : told[g] <= file["source"][g].ver
    BY DEF LockInv
  <2>4. \A g \in File : \/ file'["source"][g] = file["source"][g]
                        \/ file'["source"][g].ver # told[g]
    BY <1>0, <2>2, <2>3
  <2>5. \A g \in File : told'[g] <= file'["source"][g].ver
    <3> SUFFICES ASSUME NEW g \in File PROVE told[g] <= file'["source"][g].ver
      BY <2>1
    <3>1. CASE g # f
      BY <2>2, <2>3, <3>1
    <3>2. CASE g = f
      BY <1>0, <2>2, <2>3, <3>2
    <3> QED
      BY <3>1, <3>2
  <2>6. IndexKept'
    BY <2>1, <2>4 DEF IndexKept, KeptIn
  <2>7. runLock' = "seed" => KeptIn(index)'
    BY <2>1, <2>4 DEF LockInv, KeptIn
  <2> QED
    BY <2>1, <2>5, <2>6, <2>7 DEF LockInv
<1>14. ASSUME NEW f \in File, BuildCopy(f) PROVE LockInv' /\ IndexKept'
  <2>1. file'["source"] = file["source"]
    BY <1>0, <1>14 DEF BuildCopy, Written
  <2> QED
    BY <1>2, <1>14, <2>1 DEF BuildCopy
<1>15. ASSUME NEW p \in Pos, RemoveCopy(p) PROVE LockInv' /\ IndexKept'
  <2>1. file'["source"] = file["source"]
    BY <1>0, <1>15 DEF RemoveCopy
  <2> QED
    BY <1>2, <1>15, <2>1 DEF RemoveCopy
<1>16. CASE RunBegins \/ RunGivesUp
  <2>1. UNCHANGED <<told, disk, pc, index, file>> /\ runLock # "seed" /\ runLock' # "seed"
    BY <1>16 DEF RunBegins, RunGivesUp
  <2> QED
    BY <1>1, <2>1 DEF LockInv
<1>17. ASSUME NEW f \in File, RunEnds(f) PROVE LockInv' /\ IndexKept'
  <2> DEFINE ver == file["source"][f].ver + 1
  <2>1. /\ runLock = "run" /\ runLock' = "free" /\ UNCHANGED pc
        /\ Written("source", f, file["source"][f].data)
        /\ disk' = [disk EXCEPT !["source"][f] =
             [ver |-> ver, hash |-> file["source"][f].data, shared |-> TRUE]]
        /\ told' = [told EXCEPT ![f] = ver]
    BY <1>17 DEF RunEnds
  <2>2. /\ file'["source"][f] = [ver |-> ver, data |-> file["source"][f].data]
        /\ \A g \in File : g # f => file'["source"][g] = file["source"][g]
    BY <1>0, <2>1 DEF Written
  <2>3. /\ disk'["source"][f] = [ver |-> ver, hash |-> file["source"][f].data, shared |-> TRUE]
        /\ \A g \in File : g # f => disk'["source"][g] = disk["source"][g]
    BY <1>0, <2>1
  <2>4. told'[f] = ver /\ \A g \in File : g # f => told'[g] = told[g]
    BY <1>0, <2>1
  <2>5. IndexKept'
    <3> SUFFICES ASSUME NEW g \in File, told'[g] # 0, told'[g] = file'["source"][g].ver
                 PROVE  disk'["source"][g] =
                          [ver |-> told'[g], hash |-> file'["source"][g].data, shared |-> TRUE]
      BY DEF IndexKept, KeptIn
    <3>1. CASE g = f
      <4>1. file'["source"][f].data = file["source"][f].data
        BY <2>2
      <4> HIDE DEF ver
      <4> QED
        BY <2>3, <2>4, <3>1, <4>1
    <3>2. CASE g # f
      BY <2>2, <2>3, <2>4, <3>2 DEF IndexKept, KeptIn
    <3> QED
      BY <3>1, <3>2
  <2>6. \A g \in File : told'[g] <= file'["source"][g].ver
    <3> SUFFICES ASSUME NEW g \in File PROVE told'[g] <= file'["source"][g].ver
      OBVIOUS
    <3>1. CASE g = f
      BY <1>0, <2>2, <2>4, <3>1
    <3>2. CASE g # f
      BY <2>2, <2>4, <3>2 DEF LockInv
    <3> QED
      BY <3>1, <3>2
  <2> QED
    BY <2>1, <2>5, <2>6 DEF LockInv
<1>18. CASE UNCHANGED vars
  BY <1>2, <1>18 DEF vars
<1> QED
  BY <1>3, <1>4, <1>5, <1>6, <1>7, <1>8, <1>9, <1>10, <1>11, <1>12, <1>13, <1>14,
     <1>15, <1>16, <1>17, <1>18 DEF Next, SeedStep, Others

\* A write is of one file.
LEMMA WriteFrame ==
  ASSUME TypeOK, NEW s \in Side, NEW f \in File, NEW d \in Data \cup {Torn}, Written(s, f, d)
  PROVE  /\ file'[s][f] = [ver |-> file[s][f].ver + 1, data |-> d]
         /\ \A t \in Side, g \in File : t # s \/ g # f => file'[t][g] = file[t][g]
  BY DEF TypeOK, Written

LEMMA CopyFrame ==
  ASSUME TypeOK, NEW f \in File, NEW d \in Data \cup {Torn}, Written("copy", f, d)
  PROVE  \A t \in Side, g \in File : t # "copy" \/ g # f => file'[t][g] = file[t][g]
<1>1. "copy" \in Side
  BY DEF Side
<1> QED
  BY <1>1, WriteFrame, ZenonT(30)

\* A write moves a file past all that is known of it, and lets what is known be.
LEMMA WriteSound ==
  ASSUME TypeOK, NEW s \in Side, NEW f \in File, NEW d \in Data \cup {Torn}, Written(s, f, d),
         met \subseteq met', NEW ix \in [Side -> [File -> EntryType]], BoundIn(ix), SoundIn(ix)
  PROVE  /\ \A t \in Side, g \in File : ix[t][g].ver <= file'[t][g].ver
         /\ \A t \in Side, g \in File :
              /\ file'[t][g].data # Gone /\ ix[t][g].ver = file'[t][g].ver /\ g \notin met'
              => ix[t][g].hash = file'[t][g].data
<1>1. /\ file'[s][f] = [ver |-> file[s][f].ver + 1, data |-> d]
      /\ \A t \in Side, g \in File : t # s \/ g # f => file'[t][g] = file[t][g]
  BY WriteFrame
<1>2. file[s][f].ver \in Nat /\ ix[s][f].ver \in Nat /\ ix[s][f].ver <= file[s][f].ver
  BY DEF TypeOK, FileType, EntryType, BoundIn
<1>3. ix[s][f].ver < file'[s][f].ver
  BY <1>1, <1>2
<1>4. \A t \in Side, g \in File : ix[t][g].ver <= file'[t][g].ver
  <2> SUFFICES ASSUME NEW t \in Side, NEW g \in File PROVE ix[t][g].ver <= file'[t][g].ver
    OBVIOUS
  <2>1. CASE t = s /\ g = f
    BY <1>1, <1>2, <2>1
  <2>2. CASE t # s \/ g # f
    BY <1>1, <2>2 DEF BoundIn
  <2> QED
    BY <2>1, <2>2
<1>5. \A t \in Side, g \in File :
        /\ file'[t][g].data # Gone /\ ix[t][g].ver = file'[t][g].ver /\ g \notin met'
        => ix[t][g].hash = file'[t][g].data
  <2> SUFFICES ASSUME NEW t \in Side, NEW g \in File, file'[t][g].data # Gone,
                      ix[t][g].ver = file'[t][g].ver, g \notin met'
               PROVE  ix[t][g].hash = file'[t][g].data
    OBVIOUS
  <2>1. t # s \/ g # f
    BY <1>1, <1>2
  <2> QED
    BY <1>1, <2>1 DEF SoundIn
<1> QED
  BY <1>4, <1>5

LEMMA SoundInit == Init => IndexInv /\ IndexSound
<1> SUFFICES ASSUME Init PROVE IndexInv /\ IndexSound
  OBVIOUS
<1>1. PICK d \in Data, new \in SUBSET {f \in File : UnitOf[f] \in Unlisted} :
        \E known \in SUBSET (File \ new) :
          /\ file = [s \in Side |-> [f \in File |->
               IF s = "source" /\ f \notin new THEN [ver |-> 1, data |-> d]
                                              ELSE [ver |-> 0, data |-> Gone]]]
          /\ disk = [NoIndex EXCEPT !["source"] = [f \in File |->
               IF f \in known THEN [ver |-> 1, hash |-> d, shared |-> FALSE] ELSE NoEntry]]
  BY DEF Init
<1>2. PICK known \in SUBSET (File \ new) :
          /\ file = [s \in Side |-> [f \in File |->
               IF s = "source" /\ f \notin new THEN [ver |-> 1, data |-> d]
                                              ELSE [ver |-> 0, data |-> Gone]]]
          /\ disk = [NoIndex EXCEPT !["source"] = [f \in File |->
               IF f \in known THEN [ver |-> 1, hash |-> d, shared |-> FALSE] ELSE NoEntry]]
  BY <1>1
<1>3. \A s \in Side, f \in File :
        \/ file[s][f] = [ver |-> 0, data |-> Gone] /\ disk[s][f] = NoEntry
        \/ /\ file[s][f] = [ver |-> 1, data |-> d]
           /\ disk[s][f] \in {NoEntry, [ver |-> 1, hash |-> d, shared |-> FALSE]}
  <2> SUFFICES ASSUME NEW s \in Side, NEW f \in File
               PROVE \/ file[s][f] = [ver |-> 0, data |-> Gone] /\ disk[s][f] = NoEntry
                     \/ /\ file[s][f] = [ver |-> 1, data |-> d]
                        /\ disk[s][f] \in {NoEntry, [ver |-> 1, hash |-> d, shared |-> FALSE]}
    OBVIOUS
  <2>1. CASE s = "copy"
    BY <1>2, <2>1 DEF NoIndex, Side
  <2>2. CASE s = "source" /\ f \in new
    BY <1>2, <2>2 DEF NoIndex, Side
  <2>3. CASE s = "source" /\ f \notin new
    BY <1>2, <2>3 DEF NoIndex, Side
  <2> QED
    BY <2>1, <2>2, <2>3 DEF Side
<1>4. \A s \in Side, f \in File : index[s][f] = NoEntry
  BY DEF Init, NoIndex
<1>5. BoundIn(index) /\ BoundIn(disk)
  BY <1>3, <1>4 DEF BoundIn, NoEntry
<1>6. SoundIn(index) /\ SoundIn(disk)
  BY <1>3, <1>4 DEF SoundIn, NoEntry
<1> QED
  BY <1>3, <1>5, <1>6 DEF Init, IndexInv, IndexSound

LEMMA SoundStep == Inv /\ LockInv /\ IndexInv /\ IndexSound /\ [Next]_vars => IndexInv' /\ IndexSound'
<1> SUFFICES ASSUME Inv, LockInv, IndexInv, IndexSound, [Next]_vars PROVE IndexInv' /\ IndexSound'
  OBVIOUS
<1> USE DEF world, tool, walk, job, ghosts, counters
<1>0. /\ TypeOK /\ file \in [Side -> [File -> FileType]]
      /\ "copy" \in Side /\ "source" \in Side /\ "copy" # "source"
      /\ \A s \in Side, f \in File : file[s][f].ver \in Nat
      /\ at \in File <=> pc \in {"create", "fill", "register"}
      /\ index \in [Side -> [File -> EntryType]] /\ disk \in [Side -> [File -> EntryType]]
      /\ BoundIn(index) /\ BoundIn(disk) /\ SoundIn(index) /\ SoundIn(disk)
      /\ Torn \in Data \cup {Torn} /\ Gone \notin Data \cup {Torn}
  BY SeedAssumption DEF Inv, TypeOK, Side, FileType, WalkInv, IndexInv, IndexSound
\* Where no file and no index changes, it is a matter of where the seed is.
<1>1. ASSUME UNCHANGED <<file, met>>, {index', disk'} \subseteq {index, disk},
             pc' \notin {"create", "fill", "register"}
      PROVE  IndexInv' /\ IndexSound'
  <2>1. BoundIn(index)' /\ BoundIn(disk)' /\ SoundIn(index)' /\ SoundIn(disk)'
    BY <1>0, <1>1 DEF BoundIn, SoundIn
  <2> QED
    BY <1>1, <2>1 DEF IndexInv, IndexSound
<1>2. ASSUME UNCHANGED <<file, met, index, disk, pc, at, meta>>
      PROVE  IndexInv' /\ IndexSound'
  BY <1>2 DEF IndexInv, IndexSound, BoundIn, SoundIn, Hit
\* A write, wherever the seed is.
<1>3. ASSUME NEW s \in Side, NEW f \in File, NEW d \in Data \cup {Torn}, Written(s, f, d),
             met \subseteq met', UNCHANGED <<index, disk>>
      PROVE  /\ \A t \in Side, g \in File : file'[t][g].ver = 0 => file'[t][g].data = Gone
             /\ BoundIn(index)' /\ BoundIn(disk)' /\ IndexSound'
  <2> DEFINE Fits(ix) ==
        /\ \A t \in Side, g \in File : ix[t][g].ver <= file'[t][g].ver
        /\ \A t \in Side, g \in File :
             /\ file'[t][g].data # Gone /\ ix[t][g].ver = file'[t][g].ver /\ g \notin met'
             => ix[t][g].hash = file'[t][g].data
  <2>1. ASSUME NEW ix \in [Side -> [File -> EntryType]], BoundIn(ix), SoundIn(ix)
        PROVE  Fits(ix)
    BY <1>0, <1>3, <2>1, WriteSound
  <2>2. Fits(index) /\ Fits(disk)
    <3> HIDE DEF Fits
    <3> QED
      BY <1>0, <2>1
  <2>3. BoundIn(index)' /\ SoundIn(index)' /\ BoundIn(disk)' /\ SoundIn(disk)'
    BY <1>3, <2>2 DEF BoundIn, SoundIn
  <2>4. /\ file'[s][f] = [ver |-> file[s][f].ver + 1, data |-> d]
        /\ \A t \in Side, g \in File : t # s \/ g # f => file'[t][g] = file[t][g]
    BY <1>0, <1>3, WriteFrame
  <2>5. file[s][f].ver + 1 # 0
    BY <1>0
  <2>6. \A t \in Side, g \in File : file'[t][g].ver = 0 => file'[t][g].data = Gone
    BY <2>4, <2>5 DEF IndexInv
  <2> QED
    BY <2>3, <2>6 DEF IndexSound
<1>4. CASE Begin
  BY <1>1, <1>4 DEF Begin
<1>5. CASE Lock
  BY <1>1, <1>5 DEF Lock
<1>6. ASSUME NEW p \in Pos, Enter(p) \/ MakeDir(p) \/ Leave(p) PROVE IndexInv' /\ IndexSound'
  <2>1. UNCHANGED <<file, met, index, disk>> /\ pc' \notin {"create", "fill", "register"}
    BY <1>6 DEF Enter, MakeDir, Leave
  <2> QED
    BY <1>1, <2>1
<1>7. ASSUME NEW u \in Unit, TryLock(u) PROVE IndexInv' /\ IndexSound'
  BY <1>2, <1>7 DEF TryLock
<1>8. ASSUME NEW f \in File, Stat(f) PROVE IndexInv' /\ IndexSound'
  <2>1. UNCHANGED <<file, met, index, disk>>
    BY <1>8 DEF Stat
  <2>2. CASE file["source"][f].data = Gone
    BY <1>1, <1>8, <2>1, <2>2 DEF Stat
  <2>3. CASE file["source"][f].data # Gone
    <3>1. pc' = "create" /\ at' = f /\ meta' = file["source"][f].ver
      BY <1>8, <2>3 DEF Stat
    <3>2. BoundIn(index)' /\ BoundIn(disk)' /\ SoundIn(index)' /\ SoundIn(disk)'
      BY <1>0, <2>1 DEF BoundIn, SoundIn
    <3> QED
      BY <2>1, <2>3, <3>1, <3>2 DEF IndexInv, IndexSound
  <2> QED
    BY <2>2, <2>3
<1>9. CASE Create
  <2>1. /\ UNCHANGED <<index, disk, met, at, meta>> /\ Written("copy", at, Torn) /\ at \in File
        /\ pc = "create" /\ pc' = "fill"
    BY <1>0, <1>9 DEF Create
  <2>2. file'["source"][at] = file["source"][at]
    <3>1. \A t \in Side, g \in File : t # "copy" \/ g # at => file'[t][g] = file[t][g]
      <4>1. TypeOK /\ "copy" \in Side /\ at \in File /\ Torn \in Data \cup {Torn}
        BY <1>0, <2>1
      <4>2. Written("copy", at, Torn)
        BY <2>1
      <4> QED
        BY <4>1, <4>2, CopyFrame
    <3> QED
      BY <1>0, <2>1, <3>1
  <2> QED
    BY <1>0, <1>3, <2>1, <2>2 DEF IndexInv
<1>10. CASE Fill
  <2> DEFINE d == file["source"][at].data
  <2>1. /\ UNCHANGED <<index, disk, met, at, meta>> /\ Written("copy", at, d) /\ at \in File
        /\ pc = "fill" /\ pc' = "register"
    BY <1>0, <1>10 DEF Fill
  <2>2. d \in Data \cup {Torn}
    BY <1>0, <2>1 DEF IndexInv, FileType
  <2>3. file'["source"][at] = file["source"][at] /\ file'["copy"][at].data = d
    <3> HIDE DEF d
    <3>1. /\ file'["copy"][at] = [ver |-> file["copy"][at].ver + 1, data |-> d]
          /\ \A t \in Side, g \in File : t # "copy" \/ g # at => file'[t][g] = file[t][g]
      BY <1>0, <2>1, <2>2, WriteFrame
    <3>2. file'["source"][at] = file["source"][at]
      BY <1>0, <2>1, <3>1
    <3>3. file'["copy"][at].data = d
      BY <3>1
    <3> QED
      BY <3>2, <3>3
  <2>4. ASSUME at \notin met
        PROVE  /\ index["source"][at].ver <= meta /\ meta = file["source"][at].ver
               /\ Hit(index, "source", at, meta) => index["source"][at].hash = d
    BY <1>0, <2>1, <2>4 DEF IndexInv, BoundIn, SoundIn, Hit
  <2>5. /\ \A t \in Side, g \in File : file'[t][g].ver = 0 => file'[t][g].data = Gone
        /\ BoundIn(index)' /\ BoundIn(disk)' /\ IndexSound'
    BY <1>0, <1>3, <2>1, <2>2
  <2>6. meta = file["source"][at].ver => meta <= file["source"][at].ver
    BY <1>0, <2>1
  <2> HIDE DEF d
  <2> QED
    BY <2>1, <2>3, <2>4, <2>5, <2>6 DEF IndexInv, Hit
<1>11. CASE Register
  <2>1. /\ UNCHANGED <<file, met, disk>> /\ at \in File /\ pc = "register" /\ pc' = "walk"
    BY <1>0, <1>11 DEF Register
  <2>2. CASE index' = index
    BY <1>1, <1>11, <2>1, <2>2 DEF Register
  <2>3. CASE index' = SourceMarked(index)
    <3>1. \A s \in Side, f \in File : /\ index'[s][f].ver = index[s][f].ver
                                      /\ index'[s][f].hash = index[s][f].hash
      BY <1>0, <2>1, <2>3 DEF SourceMarked, EntryType, Side
    <3>2. BoundIn(index)' /\ SoundIn(index)' /\ BoundIn(disk)' /\ SoundIn(disk)'
      BY <1>0, <2>1, <3>1 DEF BoundIn, SoundIn
    <3> QED
      BY <1>0, <2>1, <3>2 DEF IndexInv, IndexSound
  <2>4. CASE Known /\ index' = Registered(index)
    <3>1. /\ index' = Registered(index)
          /\ index["source"][at].ver = meta
          /\ at \notin met => index["source"][at].hash = file["copy"][at].data
      BY <2>1, <2>4 DEF Known, IndexInv, Hit
    <3>2. /\ index'["source"][at].ver = index["source"][at].ver
          /\ index'["source"][at].hash = index["source"][at].hash
          /\ index'["copy"][at].ver = file["copy"][at].ver
          /\ index'["copy"][at].hash = index["source"][at].hash
          /\ \A s \in Side, f \in File : f # at => index'[s][f] = index[s][f]
      BY <1>0, <2>1, <3>1 DEF Registered, EntryType, Side
    <3>3. BoundIn(index)'
      <4> SUFFICES ASSUME NEW s \in Side, NEW f \in File PROVE index'[s][f].ver <= file[s][f].ver
        BY <2>1 DEF BoundIn
      <4>1. CASE f # at
        BY <1>0, <3>2, <4>1 DEF BoundIn
      <4>2. CASE f = at /\ s = "source"
        BY <1>0, <2>1, <3>2, <4>2 DEF BoundIn
      <4>3. CASE f = at /\ s = "copy"
        BY <1>0, <2>1, <3>2, <4>3
      <4> QED
        BY <4>1, <4>2, <4>3 DEF Side
    <3>4. SoundIn(index)'
      <4> SUFFICES ASSUME NEW s \in Side, NEW f \in File, file[s][f].data # Gone,
                          index'[s][f].ver = file[s][f].ver, f \notin met
                   PROVE  index'[s][f].hash = file[s][f].data
        BY <2>1 DEF SoundIn
      <4>1. CASE f # at
        <5>1. index'[s][f] = index[s][f]
          BY <3>2, <4>1
        <5> QED
          BY <1>0, <5>1 DEF SoundIn
      <4>2. CASE f = at /\ s = "source"
        <5>1. index[s][f].ver = file[s][f].ver /\ index'[s][f].hash = index[s][f].hash
          BY <3>2, <4>2
        <5> QED
          BY <1>0, <5>1 DEF SoundIn
      <4>3. CASE f = at /\ s = "copy"
        BY <3>1, <3>2, <4>3
      <4> QED
        BY <4>1, <4>2, <4>3 DEF Side
    <3>5. BoundIn(disk)' /\ SoundIn(disk)'
      BY <1>0, <2>1 DEF BoundIn, SoundIn
    <3> QED
      BY <2>1, <3>3, <3>4, <3>5 DEF IndexInv, IndexSound
  <2> QED
    BY <1>11, <2>2, <2>3, <2>4 DEF Register
<1>12. CASE Save \/ GiveUp
  <2>1. /\ UNCHANGED <<file, met>> /\ index' = NoIndex /\ disk' \in {index, disk} /\ pc' = "idle"
    BY <1>12 DEF Save, GiveUp, End
  <2>2. BoundIn(disk)' /\ SoundIn(disk)'
    BY <1>0, <2>1 DEF BoundIn, SoundIn
  <2>3. \A s \in Side, f \in File : index'[s][f].ver = 0
    BY <2>1 DEF NoIndex, NoEntry
  <2>4. BoundIn(index)' /\ SoundIn(index)'
    BY <1>0, <2>1, <2>3 DEF BoundIn, SoundIn, IndexInv
  <2> QED
    BY <2>1, <2>2, <2>4 DEF IndexInv, IndexSound
<1>13. ASSUME NEW u \in Unit, StartBuild(u) \/ EndBuild(u) PROVE IndexInv' /\ IndexSound'
  BY <1>2, <1>13 DEF StartBuild, EndBuild
<1>14. ASSUME NEW f \in File, Open(f) \/ Close(f) PROVE IndexInv' /\ IndexSound'
  <2>1. /\ UNCHANGED <<index, disk, pc, at, meta>> /\ met \subseteq met'
        /\ f = at /\ pc \in {"create", "fill"} => at \in met'
    BY <1>14 DEF Open, Close, Meets
  <2>2. PICK d \in Data \cup {Torn} : Written("source", f, d)
    BY <1>0, <1>14 DEF Open, Close
  <2>3. /\ file'["source"][f] = [ver |-> file["source"][f].ver + 1, data |-> d]
        /\ \A t \in Side, g \in File : t # "source" \/ g # f => file'[t][g] = file[t][g]
    <3>1. TypeOK /\ "source" \in Side /\ "copy" \in Side /\ d \in Data \cup {Torn}
      BY <1>0, <2>2
    <3> QED
      BY <2>2, <3>1, WriteFrame
  <2>4. ASSUME at \in File
        PROVE  /\ file'["copy"][at] = file["copy"][at]
               /\ file["source"][at].ver <= file'["source"][at].ver
               /\ at # f => file'["source"][at] = file["source"][at]
               /\ file'["source"][at].data = Gone => file["source"][at].data = Gone
    BY <1>0, <2>3, <2>4 DEF Side
  <2>5. /\ \A t \in Side, g \in File : file'[t][g].ver = 0 => file'[t][g].data = Gone
        /\ BoundIn(index)' /\ BoundIn(disk)' /\ IndexSound'
    BY <1>0, <1>3, <2>1, <2>2
  <2>6. ASSUME pc \in {"create", "fill"}
        PROVE  /\ file'["source"][at].data # Gone
               /\ at \notin met' => file'["source"][at].ver = meta
    BY <1>0, <2>1, <2>4, <2>6 DEF IndexInv
  <2>7. ASSUME pc = "register", at \notin met'
        PROVE  /\ index["source"][at].ver <= meta /\ meta <= file'["source"][at].ver
               /\ Hit(index, "source", at, meta) => index["source"][at].hash = file'["copy"][at].data
    <3>1. /\ index["source"][at].ver <= meta /\ meta <= file["source"][at].ver
          /\ Hit(index, "source", at, meta) => index["source"][at].hash = file["copy"][at].data
          /\ at \in File /\ meta \in Nat
      BY <1>0, <2>1, <2>7 DEF IndexInv, TypeOK
    <3>2. meta <= file'["source"][at].ver
      <4>1. file["source"][at].ver \in Nat /\ file'["source"][at].ver \in Nat
        <5>1. CASE at = f
          BY <1>0, <2>3, <3>1, <5>1
        <5>2. CASE at # f
          BY <1>0, <2>4, <3>1, <5>2
        <5> QED
          BY <5>1, <5>2
      <4>2. file["source"][at].ver <= file'["source"][at].ver
        BY <2>4, <3>1
      <4> QED
        BY <3>1, <4>1, <4>2
    <3> QED
      BY <2>4, <3>1, <3>2
  <2> QED
    BY <2>1, <2>5, <2>6, <2>7 DEF IndexInv, Hit
<1>15. ASSUME NEW f \in File, BuildCopy(f) PROVE IndexInv' /\ IndexSound'
  <2>1. /\ UNCHANGED <<index, disk, pc, at, meta>> /\ met \subseteq met'
        /\ f = at /\ pc = "register" => at \in met'
    BY <1>15 DEF BuildCopy, Meets
  <2>2. PICK d \in Data : Written("copy", f, d)
    BY <1>15 DEF BuildCopy
  <2>3. \A t \in Side, g \in File : t # "copy" \/ g # f => file'[t][g] = file[t][g]
    <3>1. TypeOK /\ "source" \in Side /\ "copy" \in Side /\ d \in Data \cup {Torn}
      BY <1>0, <2>2
    <3> QED
      BY <2>2, <3>1, CopyFrame
  <2>4. /\ \A t \in Side, g \in File : file'[t][g].ver = 0 => file'[t][g].data = Gone
        /\ BoundIn(index)' /\ BoundIn(disk)' /\ IndexSound'
    BY <1>0, <1>3, <2>1, <2>2
  <2>5. at \in File => file'["source"][at] = file["source"][at]
    BY <1>0, <2>3
  <2>6. at \in File /\ at # f => file'["copy"][at] = file["copy"][at]
    BY <1>0, <2>3
  <2> QED
    BY <1>0, <2>1, <2>4, <2>5, <2>6 DEF IndexInv, Hit
<1>16. ASSUME NEW p \in Pos, RemoveCopy(p) PROVE IndexInv' /\ IndexSound'
  <2>1. UNCHANGED <<index, disk, pc, met>> /\ pc = "idle"
    BY <1>16 DEF RemoveCopy
  <2>2. \A s \in Side, f \in File :
          /\ file'[s][f].ver = file[s][f].ver
          /\ file'[s][f].data \in {file[s][f].data, Gone}
    BY <1>0, <1>16 DEF RemoveCopy, FileType, Side
  <2>3. BoundIn(index)' /\ BoundIn(disk)'
    BY <1>0, <2>1, <2>2 DEF BoundIn
  <2>4. SoundIn(index)' /\ SoundIn(disk)'
    <3>1. ASSUME NEW ix, SoundIn(ix), NEW s \in Side, NEW f \in File, file'[s][f].data # Gone,
                 ix[s][f].ver = file'[s][f].ver, f \notin met
          PROVE  ix[s][f].hash = file'[s][f].data
      <4>1. file'[s][f].data = file[s][f].data /\ file'[s][f].ver = file[s][f].ver
        BY <2>2, <3>1
      <4> QED
        BY <3>1, <4>1 DEF SoundIn
    <3>2. \A s \in Side, f \in File :
            file'[s][f].data # Gone /\ f \notin met =>
              /\ index[s][f].ver = file'[s][f].ver => index[s][f].hash = file'[s][f].data
              /\ disk[s][f].ver = file'[s][f].ver => disk[s][f].hash = file'[s][f].data
      BY <1>0, <3>1
    <3> QED
      BY <2>1, <3>2 DEF SoundIn
  <2>5. \A s \in Side, f \in File : file'[s][f].ver = 0 => file'[s][f].data = Gone
    BY <2>2 DEF IndexInv
  <2> QED
    BY <2>1, <2>3, <2>4, <2>5 DEF IndexInv, IndexSound
<1>17. CASE RunBegins \/ RunGivesUp
  <2>1. UNCHANGED <<file, met, index, disk, pc, at, meta>>
    BY <1>17 DEF RunBegins, RunGivesUp
  <2> QED
    BY <1>2, <2>1
<1>18. ASSUME NEW f \in File, RunEnds(f) PROVE IndexInv' /\ IndexSound'
  <2> DEFINE ver == file["source"][f].ver + 1
             d == file["source"][f].data
  <2>1. /\ pc' \in {"idle", "chosen"} /\ UNCHANGED <<index, met>>
        /\ Written("source", f, d) /\ d \in Data /\ d \in Data \cup {Torn} /\ met \subseteq met'
        /\ disk' = [disk EXCEPT !["source"][f] = [ver |-> ver, hash |-> d, shared |-> TRUE]]
    BY <1>18 DEF RunEnds, LockInv
  <2>2. /\ file'["source"][f] = [ver |-> ver, data |-> d]
        /\ \A t \in Side, g \in File : t # "source" \/ g # f => file'[t][g] = file[t][g]
    BY <1>0, <2>1, WriteFrame
  <2>3. BoundIn(index)' /\ SoundIn(index)'
    <3> HIDE DEF d
    <3>1. ASSUME NEW ix \in [Side -> [File -> EntryType]], BoundIn(ix), SoundIn(ix)
          PROVE  /\ \A t \in Side, g \in File : ix[t][g].ver <= file'[t][g].ver
                 /\ \A t \in Side, g \in File :
                      /\ file'[t][g].data # Gone /\ ix[t][g].ver = file'[t][g].ver /\ g \notin met'
                      => ix[t][g].hash = file'[t][g].data
      BY <1>0, <2>1, <3>1, WriteSound
    <3>2. /\ \A t \in Side, g \in File : index[t][g].ver <= file'[t][g].ver
          /\ \A t \in Side, g \in File :
               /\ file'[t][g].data # Gone /\ index[t][g].ver = file'[t][g].ver /\ g \notin met'
               => index[t][g].hash = file'[t][g].data
      BY <1>0, <3>1
    <3> QED
      BY <2>1, <3>2 DEF BoundIn, SoundIn
  <2>4. /\ disk'["source"][f] = [ver |-> ver, hash |-> d, shared |-> TRUE]
        /\ \A t \in Side, g \in File : t # "source" \/ g # f => disk'[t][g] = disk[t][g]
    BY <1>0, <2>1
  <2>5. ver \in Nat /\ ver # 0 /\ ver <= ver
    BY <1>0
  <2> HIDE DEF ver, d
  <2>6. BoundIn(disk)'
    <3> SUFFICES ASSUME NEW t \in Side, NEW g \in File
                 PROVE  disk'[t][g].ver <= file'[t][g].ver
      BY DEF BoundIn
    <3>1. CASE t = "source" /\ g = f
      BY <2>2, <2>4, <2>5, <3>1
    <3>2. CASE t # "source" \/ g # f
      BY <1>0, <2>2, <2>4, <3>2 DEF BoundIn
    <3> QED
      BY <3>1, <3>2
  <2>7. SoundIn(disk)'
    BY <1>0, <2>1, <2>2, <2>4 DEF SoundIn
  <2>8. \A t \in Side, g \in File : file'[t][g].ver = 0 => file'[t][g].data = Gone
    BY <2>2, <2>5 DEF IndexInv
  <2> QED
    BY <2>1, <2>3, <2>6, <2>7, <2>8 DEF IndexInv, IndexSound
<1>19. CASE UNCHANGED vars
  BY <1>2, <1>19 DEF vars
<1> QED
  BY <1>4, <1>5, <1>6, <1>7, <1>8, <1>9, <1>10, <1>11, <1>12, <1>13, <1>14, <1>15,
     <1>16, <1>17, <1>18, <1>19 DEF Next, SeedStep, Others

\* An entry carried to another version.
LEMMA EntryAt ==
  ASSUME NEW e \in EntryType, NEW ver \in Nat
  PROVE  [e EXCEPT !.ver = ver] = [ver |-> ver, hash |-> e.hash, shared |-> e.shared]
BY DEF EntryType

LEMMA MarkStep == Inv /\ LockInv /\ IndexInv /\ MarkInv /\ [Next]_vars => MarkInv'
<1> SUFFICES ASSUME Inv, LockInv, IndexInv, MarkInv, [Next]_vars PROVE MarkInv'
  OBVIOUS
<1> USE DEF world, tool, walk, job, ghosts, counters
<1>0. /\ TypeOK /\ copied \subseteq File
      /\ "copy" \in Side /\ "source" \in Side /\ "copy" # "source"
      /\ at \in File <=> pc \in {"create", "fill", "register"}
      /\ index \in [Side -> [File -> EntryType]]
      /\ None \notin File
  BY SeedAssumption DEF Inv, TypeOK, Side, WalkInv
\* Out of a session that copies there is nothing to show.
<1>1. ASSUME pc' \in {"idle", "chosen"} PROVE MarkInv'
  BY <1>1 DEF MarkInv
\* Nor of a file that is as it was.
<1>2. ASSUME clones' = clones, pc' \notin {"idle", "chosen"} => pc \notin {"idle", "chosen"},
             clones /\ pc' \in {"fill", "register"} =>
               index'["copy"][at'].ver < file'["copy"][at'].ver,
             \A g \in copied' \ met' : g # at' =>
               /\ g \in copied \ met /\ g # at
               /\ g \in unread' <=> g \in unread
               /\ index'["copy"][g] = index["copy"][g]
               /\ file'["copy"][g].ver = file["copy"][g].ver
               /\ index'["source"][g].ver = file'["source"][g].ver =>
                    /\ index'["source"][g] = index["source"][g]
                    /\ file'["source"][g].ver = file["source"][g].ver
      PROVE  MarkInv'
  <2> SUFFICES ASSUME pc' \notin {"idle", "chosen"}, clones', NEW g \in copied' \ met', g # at'
               PROVE  PairTold(g)'
    BY <1>2 DEF MarkInv
  <2>1. /\ g \in copied \ met /\ g # at
        /\ g \in unread' <=> g \in unread
        /\ index'["copy"][g] = index["copy"][g]
        /\ file'["copy"][g].ver = file["copy"][g].ver
        /\ index'["source"][g].ver = file'["source"][g].ver =>
             /\ index'["source"][g] = index["source"][g]
             /\ file'["source"][g].ver = file["source"][g].ver
    BY <1>2
  <2>2. PairTold(g)
    BY <1>2, <2>1 DEF MarkInv
  <2> QED
    BY <2>1, <2>2 DEF PairTold, Hit
<1>3. ASSUME UNCHANGED <<clones, file, index, at, copied, unread>>, met \subseteq met', pc' = pc
      PROVE  MarkInv'
  BY <1>2, <1>3 DEF MarkInv
<1>4. CASE Begin \/ Save \/ GiveUp
  <2>1. pc' \in {"idle", "chosen"}
    BY <1>4 DEF Begin, Save, GiveUp, End
  <2> QED
    BY <1>1, <2>1
<1>5. CASE Lock
  <2>1. copied' = {} /\ pc' = "next"
    BY <1>5 DEF Lock
  <2> QED
    BY <2>1 DEF MarkInv
<1>6. ASSUME NEW p \in Pos, Enter(p) \/ MakeDir(p) \/ Leave(p) PROVE MarkInv'
  <2>1. /\ UNCHANGED <<clones, file, index, copied, met, unread>> /\ pc \notin {"idle", "chosen"}
        /\ at' = at \/ pc = "walk"
        /\ pc' \notin {"fill", "register"}
    BY <1>6 DEF Enter, MakeDir, Leave
  <2> QED
    BY <1>0, <1>2, <2>1
<1>7. ASSUME NEW u \in Unit, TryLock(u) PROVE MarkInv'
  BY <1>3, <1>7 DEF TryLock
<1>8. ASSUME NEW f \in File, Stat(f) PROVE MarkInv'
  <2>1. /\ UNCHANGED <<clones, file, index, copied, met, unread>>
        /\ pc = "walk" /\ pc' \notin {"fill", "register"}
    BY <1>8 DEF Stat
  <2> QED
    BY <1>0, <1>2, <2>1
<1>9. CASE Create
  <2>1. /\ UNCHANGED <<clones, index, at, copied, met, unread>> /\ Written("copy", at, Torn)
        /\ at \in File /\ pc = "create"
    BY <1>0, <1>9 DEF Create
  <2>2. \A t \in Side, g \in File : t # "copy" \/ g # at => file'[t][g] = file[t][g]
    BY <1>0, <2>1, CopyFrame
  <2>3. index'["copy"][at'].ver < file'["copy"][at'].ver
    <3>1. file'["copy"][at].ver = file["copy"][at].ver + 1
      BY <1>0, <2>1 DEF Written, TypeOK
    <3>2. index["copy"][at].ver \in Nat /\ file["copy"][at].ver \in Nat
      BY <1>0, <2>1 DEF TypeOK, EntryType, FileType
    <3>3. index["copy"][at].ver <= file["copy"][at].ver
      BY <1>0, <2>1 DEF IndexInv, BoundIn
    <3> QED
      BY <2>1, <3>1, <3>2, <3>3
  <2>4. \A g \in copied : g # at => g \in File
    BY <1>0
  <2> QED
    BY <1>0, <1>2, <2>1, <2>2, <2>3, <2>4
<1>10. CASE Fill
  <2>1. /\ UNCHANGED <<clones, index, at, met, unread>> /\ copied' \subseteq copied \cup {at}
        /\ Written("copy", at, file["source"][at].data) /\ at \in File /\ pc = "fill"
    BY <1>0, <1>10 DEF Fill
  <2>2. file["source"][at].data \in Data \cup {Torn}
    BY <1>0, <2>1 DEF IndexInv, TypeOK, FileType
  <2>3. \A t \in Side, g \in File : t # "copy" \/ g # at => file'[t][g] = file[t][g]
    BY <1>0, <2>1, <2>2, CopyFrame
  <2>4. clones => index'["copy"][at'].ver < file'["copy"][at'].ver
    <3>1. file'["copy"][at].ver = file["copy"][at].ver + 1
      BY <1>0, <2>1 DEF Written, TypeOK
    <3>2. index["copy"][at].ver \in Nat /\ file["copy"][at].ver \in Nat
      BY <1>0, <2>1 DEF TypeOK, EntryType, FileType
    <3>3. clones => index["copy"][at].ver < file["copy"][at].ver
      BY <2>1 DEF MarkInv
    <3> QED
      BY <2>1, <3>1, <3>2, <3>3
  <2> QED
    BY <1>0, <1>2, <2>1, <2>3, <2>4
<1>11. CASE Register
  <2>1. /\ UNCHANGED <<clones, file, copied, met>> /\ at \in File
        /\ pc = "register" /\ pc' = "walk" /\ at' = None
        /\ \/ /\ index' = IF Known THEN Registered(index) ELSE index
              /\ unread' = unread \ {at}
           \/ /\ index' \in {index, SourceMarked(index)}
              /\ unread' = unread \cup {at}
    BY <1>0, <1>11 DEF Register
  <2>2. /\ \A g \in File : g # at => /\ index'["source"][g] = index["source"][g]
                                    /\ index'["copy"][g] = index["copy"][g]
        /\ index' = Registered(index) =>
             /\ index'["source"][at] = [index["source"][at] EXCEPT !.shared = TRUE]
             /\ index'["copy"][at] = [ver |-> file["copy"][at].ver,
                                      hash |-> index["source"][at].hash, shared |-> TRUE]
        /\ index' \in {index, SourceMarked(index)} => index'["copy"][at] = index["copy"][at]
    <3>1. index' \in {index, Registered(index), SourceMarked(index)}
      BY <2>1
    <3>2. /\ Registered(index)["source"][at] = [index["source"][at] EXCEPT !.shared = TRUE]
          /\ Registered(index)["copy"][at] = [ver |-> file["copy"][at].ver,
                                             hash |-> index["source"][at].hash, shared |-> TRUE]
          /\ \A s \in Side, g \in File : g # at => Registered(index)[s][g] = index[s][g]
      BY <1>0, <2>1 DEF Registered, Side
    <3>3. /\ SourceMarked(index)["copy"][at] = index["copy"][at]
          /\ \A s \in Side, g \in File : g # at => SourceMarked(index)[s][g] = index[s][g]
      BY <1>0, <2>1 DEF SourceMarked, Side
    <3>4. \A s \in Side, g \in File : g # at => index'[s][g] = index[s][g]
      BY <3>1, <3>2, <3>3
    <3> QED
      BY <1>0, <3>2, <3>3, <3>4
  <2>3. index["source"][at] \in EntryType
    BY <1>0, <2>1
  \* One that hits what the file is now, hit what it was when it was read.
  <2>4. ASSUME clones, at \notin met, at \notin unread',
               Hit(index', "source", at, file["source"][at].ver)
        PROVE  Known /\ index' = Registered(index)
    <3> SUFFICES ASSUME ~Known PROVE FALSE
      BY <2>1, <2>4
    <3>1. index' = index
      BY <2>1, <2>4
    <3>2. index["source"][at].ver <= meta /\ meta <= file["source"][at].ver
      BY <2>1, <2>4 DEF IndexInv
    <3>3. index["source"][at].ver = file["source"][at].ver /\ file["source"][at].ver # 0
      BY <2>4, <3>1 DEF Hit
    <3>4. file["source"][at].ver \in Nat /\ meta \in Nat
      BY <1>0, <2>1 DEF TypeOK, FileType
    <3>5. meta = file["source"][at].ver
      BY <3>2, <3>3, <3>4
    <3> QED
      BY <2>4, <3>3, <3>5 DEF Known, Hit
  <2> SUFFICES ASSUME clones, NEW g \in copied \ met PROVE PairTold(g)'
    BY <2>1 DEF MarkInv
  <2>5. CASE g # at
    <3>1. index'["source"][g] = index["source"][g] /\ index'["copy"][g] = index["copy"][g]
      BY <1>0, <2>2, <2>5
    <3>2. PairTold(g) /\ (g \in unread' <=> g \in unread)
      BY <2>1, <2>5 DEF MarkInv
    <3> QED
      BY <2>1, <3>1, <3>2 DEF PairTold, Hit
  <2>6. CASE g = at /\ g \in unread'
    <3>1. index["copy"][at].ver < file["copy"][at].ver
      BY <2>1 DEF MarkInv
    <3>2. index["copy"][at].ver \in Nat /\ file["copy"][at].ver \in Nat
      BY <1>0, <2>1 DEF TypeOK, EntryType, FileType
    <3>3. CASE index'["copy"][at] = index["copy"][at]
      BY <2>1, <2>6, <3>1, <3>2, <3>3 DEF PairTold
    <3>4. CASE index'["copy"][at] # index["copy"][at]
      BY <2>1, <2>2, <2>6, <3>4
    <3> QED
      BY <3>3, <3>4
  <2>7. CASE g = at /\ g \notin unread'
    <3> SUFFICES ASSUME Hit(index', "source", at, file["source"][at].ver)
                 PROVE  /\ index'["source"][at].shared
                        /\ index'["copy"][at]
                             = [index'["source"][at] EXCEPT !.ver = file["copy"][at].ver]
      BY <2>1, <2>7 DEF PairTold
    <3>1. Known /\ index' = Registered(index)
      BY <2>1, <2>4, <2>7
    <3>2. PICK e \in EntryType : e = index["source"][at]
      BY <2>3
    <3>3. e = [ver |-> e.ver, hash |-> e.hash, shared |-> e.shared]
      BY DEF EntryType
    <3>4. index'["source"][at] = [ver |-> e.ver, hash |-> e.hash, shared |-> TRUE]
      BY <2>2, <3>1, <3>2, <3>3
    <3>5. index'["copy"][at] = [ver |-> file["copy"][at].ver, hash |-> e.hash, shared |-> TRUE]
      BY <2>2, <3>1, <3>2
    <3>6. index'["source"][at] \in EntryType /\ file["copy"][at].ver \in Nat
      <4>1. e.ver \in Nat /\ e.hash \in Data \cup {Torn}
        BY DEF EntryType
      <4>2. file["copy"][at] \in FileType
        BY <1>0, <2>1 DEF TypeOK
      <4> QED
        BY <3>4, <4>1, <4>2 DEF EntryType, FileType
    <3>7. [index'["source"][at] EXCEPT !.ver = file["copy"][at].ver] = index'["copy"][at]
      <4>1. /\ index'["source"][at].hash = e.hash
            /\ index'["source"][at].shared = TRUE
        BY <3>4
      <4>2. \A r \in EntryType, ver \in Nat :
              [r EXCEPT !.ver = ver] = [ver |-> ver, hash |-> r.hash, shared |-> r.shared]
        BY EntryAt
      <4>3. [index'["source"][at] EXCEPT !.ver = file["copy"][at].ver]
              = [ver |-> file["copy"][at].ver, hash |-> index'["source"][at].hash,
                 shared |-> index'["source"][at].shared]
        BY <3>6, <4>2, Zenon
      <4> QED
        BY <3>5, <4>1, <4>3, Zenon
    <3>8. index'["source"][at].shared
      BY <3>4
    <3> QED
      BY <3>7, <3>8, Zenon
  <2> QED
    BY <2>5, <2>6, <2>7
<1>12. ASSUME NEW u \in Unit, StartBuild(u) \/ EndBuild(u) PROVE MarkInv'
  BY <1>3, <1>12 DEF StartBuild, EndBuild
<1>13. ASSUME NEW f \in File, Open(f) \/ Close(f) PROVE MarkInv'
  <2>1. UNCHANGED <<clones, index, pc, at, copied, unread>> /\ met \subseteq met'
    BY <1>13 DEF Open, Close, Meets
  <2>2. PICK d \in Data \cup {Torn} : Written("source", f, d)
    BY <1>0, <1>13 DEF Open, Close
  <2>3. /\ file'["source"][f] = [ver |-> file["source"][f].ver + 1, data |-> d]
        /\ \A t \in Side, g \in File : t # "source" \/ g # f => file'[t][g] = file[t][g]
    BY <1>0, <2>2, WriteFrame
  <2>4. index["source"][f].ver <= file["source"][f].ver
    BY <1>0 DEF IndexInv, BoundIn
  <2>5. index["source"][f].ver \in Nat /\ file["source"][f].ver \in Nat
    BY <1>0 DEF TypeOK, EntryType, FileType
  <2>6. index["source"][f].ver # file'["source"][f].ver
    BY <2>3, <2>4, <2>5
  <2>7. clones /\ pc \in {"fill", "register"} => index["copy"][at].ver < file'["copy"][at].ver
    BY <1>0, <2>3 DEF MarkInv
  <2> QED
    BY <1>0, <1>2, <2>1, <2>3, <2>6, <2>7
<1>14. ASSUME NEW f \in File, BuildCopy(f) PROVE MarkInv'
  <2>1. /\ UNCHANGED <<clones, index, pc, at, unread>> /\ met \subseteq met'
        /\ copied' = copied \ {f}
    BY <1>14 DEF BuildCopy, Meets
  <2>2. PICK d \in Data : Written("copy", f, d)
    BY <1>14 DEF BuildCopy
  <2>3. \A t \in Side, g \in File : t # "copy" \/ g # f => file'[t][g] = file[t][g]
    BY <1>0, <2>2, CopyFrame
  <2>4. clones /\ pc \in {"fill", "register"} => index["copy"][at].ver < file'["copy"][at].ver
    <3> SUFFICES ASSUME clones, pc \in {"fill", "register"}
                 PROVE  index["copy"][at].ver < file'["copy"][at].ver
      OBVIOUS
    <3>1. index["copy"][at].ver < file["copy"][at].ver /\ at \in File
      BY <1>0 DEF MarkInv
    <3>2. index["copy"][at].ver \in Nat /\ file["copy"][at].ver \in Nat
      BY <1>0, <3>1 DEF TypeOK, EntryType, FileType
    <3>3. CASE at = f
      <4>1. file'["copy"][at].ver = file["copy"][at].ver + 1
        BY <1>0, <2>2, <3>3 DEF Written, TypeOK
      <4> QED
        BY <3>1, <3>2, <4>1
    <3>4. CASE at # f
      BY <1>0, <2>3, <3>1, <3>4
    <3> QED
      BY <3>3, <3>4
  <2> QED
    BY <1>0, <1>2, <2>1, <2>3, <2>4
<1>15. ASSUME NEW p \in Pos, RemoveCopy(p) PROVE MarkInv'
  <2>1. pc' = "idle"
    BY <1>15 DEF RemoveCopy
  <2> QED
    BY <1>1, <2>1
<1>16. CASE RunBegins \/ RunGivesUp
  BY <1>3, <1>16 DEF RunBegins, RunGivesUp
<1>17. ASSUME NEW f \in File, RunEnds(f) PROVE MarkInv'
  <2>1. pc' \in {"idle", "chosen"}
    BY <1>17 DEF RunEnds, LockInv
  <2> QED
    BY <1>1, <2>1
<1>18. CASE UNCHANGED vars
  BY <1>3, <1>18 DEF vars
<1> QED
  BY <1>4, <1>5, <1>6, <1>7, <1>8, <1>9, <1>10, <1>11, <1>12, <1>13, <1>14, <1>15,
     <1>16, <1>17, <1>18 DEF Next, SeedStep, Others

-----------------------------------------------------------------------------
(* The theorems *)

\* The shape of the state, the walk's and the copies' agreement with units
\* that are locked, hold together in every state of a seed.
THEOREM SeedInductive == Spec => []Inv
<1>1. Init => Inv
  BY TypeInit, RestInit DEF Inv
<1>2. Inv /\ [Next]_vars => Inv'
  BY TypeStep, BuildStep, WalkStep, OnceStep, CopiesStep DEF Inv
<1> QED
  BY <1>1, <1>2, PTL DEF Spec

\* Whatever builds, other sessions and failures there are beside a seed (one
\* that fails half way included), what it copied of a unit it listed is whole,
\* and of one moment (seed.rs, seed).
THEOREM CopiesWhole == Spec => []CopiesAgree
<1>1. Inv => CopiesAgree
  BY DEF Inv
<1> QED
  BY <1>1, SeedInductive, PTL

\* A seed never saves over what another session has told the index: it loads
\* the index under the run lock, and marks entries but drops none.
THEOREM OthersKept == Spec => []IndexKept
<1>1. Init => LockInv /\ IndexKept
  BY KeptInit
<1>2. Inv /\ LockInv /\ IndexKept /\ [Next]_vars => LockInv' /\ IndexKept'
  BY KeptStep
<1> QED
  BY <1>1, <1>2, SeedInductive, PTL DEF Spec

\* No entry of the index lies about a file it is hit by, whatever is written
\* beside the seed: a hash goes to a copy for the version that was read, and a
\* file that a build came to in the middle of its copy is the one exception
\* (seed.rs, register).
THEOREM IndexStaysSound == Spec => []IndexSound
<1>1. Init => IndexInv /\ IndexSound /\ LockInv /\ IndexKept
  BY SoundInit, KeptInit
<1>2. Inv /\ LockInv /\ IndexKept /\ IndexInv /\ IndexSound /\ [Next]_vars =>
        IndexInv' /\ IndexSound' /\ LockInv' /\ IndexKept'
  BY SoundStep, KeptStep
<1> QED
  BY <1>1, <1>2, SeedInductive, PTL DEF Spec

\* When a seed comes to save, no copy whose stamp could be read is marked on one
\* side only: the next dedupe leaves alone what shares its blocks already.  One
\* whose stamp could not is not known at all (seed.rs, register).
THEOREM PairsMarked == Spec => []MarkedTogether
<1>1. Init => IndexInv /\ IndexSound /\ LockInv /\ IndexKept /\ MarkInv
  BY SoundInit, KeptInit DEF Init, MarkInv
<1>2. Inv /\ LockInv /\ IndexKept /\ IndexInv /\ IndexSound /\ MarkInv /\ [Next]_vars =>
        IndexInv' /\ IndexSound' /\ LockInv' /\ IndexKept' /\ MarkInv'
  BY SoundStep, KeptStep, MarkStep
<1>3. Inv /\ MarkInv => MarkedTogether
  <2> SUFFICES ASSUME Inv, MarkInv, pc = "save", clones, NEW f \in copied \ met
               PROVE  PairTold(f)
    BY DEF MarkedTogether
  <2>1. f # at
    BY DEF Inv, TypeOK, WalkInv
  <2> QED
    BY <2>1 DEF MarkInv
<1> QED
  BY <1>1, <1>2, <1>3, SeedInductive, PTL DEF Spec
=============================================================================
