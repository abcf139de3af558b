---------------------------- MODULE Engine_proofs ----------------------------
(***************************************************************************)
(* What holds of a run of the engine for any files, units, builds, rounds, *)
(* failures and crashes.                                                   *)
(***************************************************************************)
EXTENDS Engine, FiniteSetTheorems, WellFoundedInduction, TLAPS

----------------------------------------------------------------------------
(* Numbers *)

\* A set of numbers that is not empty has a least one.
LEMMA LeastExists ==
  ASSUME NEW D \in SUBSET Nat, D # {}
  PROVE  \E d \in D : \A e \in D : d <= e
<1>1. PICK d \in D : \A e \in D : ~(<<e, d>> \in OpToRel(<, Nat))
  BY NatLessThanWellFounded, WFMin, Zenon
<1>2. \A e \in D : ~(e < d)
  BY <1>1 DEF OpToRel
<1> QED BY <1>2

LEMMA MinIsLeast ==
  ASSUME NEW D \in SUBSET Nat, D # {}
  PROVE  Min(D) \in D /\ \A e \in D : Min(D) <= e
BY LeastExists DEF Min

LEMMA PathsAreNumbers == Path \subseteq Nat /\ Path \subseteq Ino /\ 0 \notin Path
BY EngineAssumption

LEMMA FirstOfPaths ==
  ASSUME NEW S \in SUBSET Path, S # {}
  PROVE  Min(S) \in S /\ Min(S) \in Path
<1>1. S \in SUBSET Nat
  BY PathsAreNumbers
<1> QED BY <1>1, MinIsLeast

\* Of two numbers the greater.
LEMMA MaxOfTwo ==
  ASSUME NEW a \in Nat, NEW b \in Nat
  PROVE  /\ Max({a, b}) \in {a, b}
         /\ a <= Max({a, b}) /\ b <= Max({a, b})
<1>1. \E x \in {a, b} : \A y \in {a, b} : x >= y
  <2>1. CASE a >= b
    BY <2>1
  <2>2. CASE b >= a
    BY <2>2
  <2> QED BY <2>1, <2>2
<1> DEFINE x == CHOOSE x \in {a, b} : \A y \in {a, b} : x >= y
<1>2. x \in {a, b} /\ \A y \in {a, b} : x >= y
  BY <1>1
<1> QED BY <1>2 DEF Max

\* Of actions the first there is.
LEMMA FirstActionIn ==
  ASSUME NEW A \in SUBSET ActionType, A # {}, \A a \in A : a.member.paths # {}
  PROVE  FirstAction(A) \in A
<1> DEFINE D == {FirstPath(a) : a \in A}
<1>1. \A a \in A : FirstPath(a) \in Nat
  BY FirstOfPaths, PathsAreNumbers DEF ActionType, MemberType, FirstPath
<1>2. D \in SUBSET Nat /\ D # {}
  BY <1>1
<1>3. PICK d \in D : \A e \in D : d <= e
  BY <1>2, LeastExists
<1>4. \E a \in A : \A b \in A : FirstPath(a) <= FirstPath(b)
  BY <1>3
<1> QED BY <1>4 DEF FirstAction

LEMMA FirstStagedIn ==
  ASSUME batch \in SUBSET MemberType, batch # {}, \A m \in batch : m.paths # {}
  PROVE  FirstStaged \in batch
<1> DEFINE D == {Min(m.paths) : m \in batch}
<1>1. \A m \in batch : Min(m.paths) \in Nat
  BY FirstOfPaths, PathsAreNumbers DEF MemberType
<1>2. D \in SUBSET Nat /\ D # {}
  BY <1>1
<1>3. PICK d \in D : \A e \in D : d <= e
  BY <1>2, LeastExists
<1>4. \E m \in batch : \A g \in batch : Min(m.paths) <= Min(g.paths)
  BY <1>3
<1> QED BY <1>4 DEF FirstStaged

----------------------------------------------------------------------------
(* Inodes *)

\* Reaping takes no inode that has a name.
LEMMA ReapKeeps ==
  ASSUME NEW f \in [Ino -> FileType \cup {None}], file' = Reaped(f),
         name' \in [Path -> Ino \cup {None}], temp' \in [Path -> Ino \cup {None}]
  PROVE  /\ file' \in [Ino -> FileType \cup {None}]
         /\ \A i \in Ino : file'[i] \in {f[i], None}
         /\ \A q \in Path : name'[q] # None => name'[q] \in Ino /\ file'[name'[q]] = f[name'[q]]
         /\ \A q \in Path : temp'[q] # None => temp'[q] \in Ino /\ file'[temp'[q]] = f[temp'[q]]
<1>1. \A i \in Ino : file'[i] = IF Links(name', i) \cup Links(temp', i) \cup Beside(left', i) = {} THEN None ELSE f[i]
  BY DEF Reaped
<1>2. file' \in [Ino -> FileType \cup {None}]
  BY DEF Reaped
<1>3. \A q \in Path : name'[q] # None => name'[q] \in Ino /\ file'[name'[q]] = f[name'[q]]
  <2> SUFFICES ASSUME NEW q \in Path, name'[q] # None
               PROVE  name'[q] \in Ino /\ file'[name'[q]] = f[name'[q]]
    OBVIOUS
  <2>1. name'[q] \in Ino
    OBVIOUS
  <2>2. q \in Links(name', name'[q])
    BY DEF Links
  <2> QED BY <1>1, <2>1, <2>2
<1>4. \A q \in Path : temp'[q] # None => temp'[q] \in Ino /\ file'[temp'[q]] = f[temp'[q]]
  <2> SUFFICES ASSUME NEW q \in Path, temp'[q] # None
               PROVE  temp'[q] \in Ino /\ file'[temp'[q]] = f[temp'[q]]
    OBVIOUS
  <2>1. temp'[q] \in Ino
    OBVIOUS
  <2>2. q \in Links(temp', temp'[q])
    BY DEF Links
  <2> QED BY <1>1, <2>1, <2>2
<1> QED BY <1>1, <1>2, <1>3, <1>4

\* A file is no absence of one, nor is a job or an entry.
LEMMA NoneIsNone ==
  /\ \A f \in FileType : f # None
  /\ \A e \in EntryType : e # None
  /\ \A j \in JobType : j # None
  /\ \A i \in Ino : i # None
  /\ \A d \in Data : d # None
BY EngineAssumption

LEMMA NewInoIsFree == NewIno \subseteq {i \in Ino : file[i] = None}
BY DEF NewIno

\* A file with another mtime and mode is the same file else.
LEMMA Restored ==
  ASSUME NEW f \in FileType, NEW m \in MemberType
  PROVE  /\ RestoreMeta(f, m) \in FileType
         /\ RestoreMeta(f, m).data = f.data
         /\ RestoreMeta(f, m).mtime = m.stamp.mtime
         /\ RestoreMeta(f, m).mode = m.mode
BY DEF FileType, MemberType, StampType, RestoreMeta

\* Moving an mtime leaves the rest of a file.
LEMMA MovedTime ==
  ASSUME NEW f \in FileType, NEW t \in Nat
  PROVE  /\ [f EXCEPT !.mtime = t] \in FileType
         /\ [f EXCEPT !.mtime = t].data = f.data
         /\ [f EXCEPT !.mtime = t].mode = f.mode
         /\ [f EXCEPT !.mtime = t].mtime = t
BY DEF FileType

\* A private copy: one new inode, with a temp name.
LEMMA CopyEffect ==
  ASSUME TypeOK, LiveInv, NEW m \in MemberType, m.paths # {}, NEW p \in Path, CopyTo(m, p)
  PROVE  /\ name[p] # None /\ name[p] \in Ino /\ file[name[p]] \in FileType
         /\ name' = name
         /\ \E i \in NewIno :
              /\ i \in Ino /\ file[i] = None
              /\ temp' = [temp EXCEPT ![Min(m.paths)] = i]
              /\ file' \in [Ino -> FileType \cup {None}]
              /\ file'[i] \in FileType
              /\ file'[i].data = file[name[p]].data
              /\ file'[i].mtime = m.stamp.mtime /\ file'[i].mode = m.mode
              /\ \A j \in Ino : j # i => file'[j] \in {file[j], None}
              /\ \A q \in Path : name[q] # None => name[q] # i /\ file'[name[q]] = file[name[q]]
              /\ \A q \in Path : temp[q] # None =>
                   temp[q] # i /\ (q # Min(m.paths) => file'[temp[q]] = file[temp[q]])
<1> DEFINE c == RestoreMeta(file[name[p]], m)
<1>1. PICK i \in NewIno : /\ temp' = [temp EXCEPT ![Min(m.paths)] = i]
                          /\ name' = name
                          /\ file' = Reaped([file EXCEPT ![i] = c])
  BY DEF CopyTo
<1>2. i \in Ino /\ file[i] = None
  BY <1>1, NewInoIsFree
<1>3. name[p] # None /\ name[p] \in Ino /\ file[name[p]] \in FileType
  BY DEF CopyTo, LiveInv, TypeOK
<1>4. Min(m.paths) \in Path
  BY FirstOfPaths DEF MemberType
<1>5. /\ c \in FileType /\ c.data = file[name[p]].data
      /\ c.mtime = m.stamp.mtime /\ c.mode = m.mode
  BY <1>3, Restored
<1> DEFINE f == [file EXCEPT ![i] = c]
<1> HIDE DEF c
<1>6. f \in [Ino -> FileType \cup {None}]
  BY <1>2, <1>5 DEF TypeOK
<1>7. name' \in [Path -> Ino \cup {None}] /\ temp' \in [Path -> Ino \cup {None}]
  BY <1>1, <1>2 DEF TypeOK
<1>8. /\ f[i] = c /\ \A j \in Ino : j # i => f[j] = file[j]
  BY <1>2 DEF TypeOK
<1>9. /\ \A q \in Path : name[q] # None => name[q] # i
      /\ \A q \in Path : temp[q] # None => temp[q] # i
  BY <1>2 DEF LiveInv
<1>10. file' = Reaped(f)
  BY <1>1
<1> HIDE DEF f
<1>11. /\ file' \in [Ino -> FileType \cup {None}]
       /\ \A j \in Ino : file'[j] \in {f[j], None}
       /\ \A q \in Path : name'[q] # None => name'[q] \in Ino /\ file'[name'[q]] = f[name'[q]]
       /\ \A q \in Path : temp'[q] # None => temp'[q] \in Ino /\ file'[temp'[q]] = f[temp'[q]]
  BY <1>6, <1>7, <1>10, ReapKeeps
<1>12. file'[i] = c
  <2>1. temp'[Min(m.paths)] = i /\ i # None
    BY <1>1, <1>2, <1>4, NoneIsNone DEF TypeOK
  <2> QED BY <1>4, <1>8, <1>11, <2>1
<1>13. \A j \in Ino : j # i => file'[j] \in {file[j], None}
  BY <1>8, <1>11
<1>14. \A q \in Path : name[q] # None => name[q] # i /\ file'[name[q]] = file[name[q]]
  <2>1. name' = name
    BY <1>1
  <2> HIDE DEF c
  <2> QED BY <2>1, <1>8, <1>9, <1>11
<1>15. \A q \in Path : temp[q] # None =>
         temp[q] # i /\ (q # Min(m.paths) => file'[temp[q]] = file[temp[q]])
  <2>1. \A q \in Path : temp[q] # None /\ q # Min(m.paths) => temp'[q] = temp[q] /\ temp[q] \in Ino
    BY <1>1, <1>4 DEF TypeOK
  <2> QED BY <1>8, <1>9, <1>11, <2>1
<1>16. /\ i \in Ino /\ file[i] = None
       /\ temp' = [temp EXCEPT ![Min(m.paths)] = i]
       /\ file' \in [Ino -> FileType \cup {None}]
       /\ file'[i] \in FileType
       /\ file'[i].data = file[name[p]].data
       /\ file'[i].mtime = m.stamp.mtime /\ file'[i].mode = m.mode
  BY <1>1, <1>2, <1>5, <1>11, <1>12
<1> HIDE <1>1, <1>2, <1>11
<1> QED
  <2>1. name' = name
    BY <1>1
  <2> QED BY <1>1, <1>3, <1>13, <1>14, <1>15, <1>16, <2>1

\* A temp file goes, or it is left: every other file is as it was.
LEMMA DropEffect ==
  ASSUME TypeOK, NEW m, NEW p \in Path, DropTemp(m, p)
  PROVE  /\ name' = name /\ temp' = [temp EXCEPT ![p] = None]
         /\ file' \in [Ino -> FileType \cup {None}]
         /\ \A j \in Ino : file'[j] \in {file[j], None}
         /\ \A q \in Path : name[q] # None => file'[name[q]] = file[name[q]]
         /\ \A q \in Path : temp[q] # None /\ q # p => file'[temp[q]] = file[temp[q]]
<1>1. name' = name /\ temp' = [temp EXCEPT ![p] = None] /\ file' = Reaped(file)
  BY DEF DropTemp
<1>2. name' \in [Path -> Ino \cup {None}] /\ temp' \in [Path -> Ino \cup {None}]
  BY <1>1 DEF TypeOK
<1>3. file \in [Ino -> FileType \cup {None}]
  BY DEF TypeOK
<1>4. /\ file' \in [Ino -> FileType \cup {None}]
      /\ \A j \in Ino : file'[j] \in {file[j], None}
      /\ \A q \in Path : name'[q] # None => name'[q] \in Ino /\ file'[name'[q]] = file[name'[q]]
      /\ \A q \in Path : temp'[q] # None => temp'[q] \in Ino /\ file'[temp'[q]] = file[temp'[q]]
  BY <1>1, <1>2, <1>3, ReapKeeps
<1>5. \A q \in Path : q # p => temp'[q] = temp[q]
  BY <1>1 DEF TypeOK
<1> QED BY <1>1, <1>4, <1>5

----------------------------------------------------------------------------
(* Scans and plans *)

\* What a scan holds, wherever every name is of a file.
LEMMA ScanHolds ==
  ASSUME TypeOK, LiveInv, NEW units \in SUBSET Unit
  PROVE  /\ Scan(units) \subseteq MemberType
         /\ \A m \in Scan(units) :
              /\ m.paths # {}
              /\ \E u \in units : \A p \in m.paths : UnitOf[p] = u
              /\ file[m.stamp.ino] # None
              /\ m.stamp.mtime = file[m.stamp.ino].mtime
              /\ m.mode = file[m.stamp.ino].mode
              /\ \A p \in m.paths : name[p] = m.stamp.ino
         /\ \A m, n \in Scan(units) : m # n => m.paths \cap n.paths = {}
<1> DEFINE Scanned == {q \in Path : UnitOf[q] \in units /\ name[q] # None}
<1>1. \A m \in Scan(units) : \E p \in Scanned : m = Group(UnitOf[p], name[p])
  BY DEF Scan
<1>2. ASSUME NEW p \in Scanned
      PROVE  LET g == Group(UnitOf[p], name[p]) IN
             /\ g \in MemberType
             /\ p \in g.paths
             /\ \A q \in g.paths : q \in Path /\ UnitOf[q] = UnitOf[p] /\ name[q] = name[p]
             /\ g.stamp.ino = name[p] /\ file[name[p]] # None
             /\ g.stamp.mtime = file[name[p]].mtime
             /\ g.mode = file[name[p]].mode
  <2>1. name[p] \in Ino /\ file[name[p]] # None /\ file[name[p]] \in FileType
    BY DEF LiveInv, TypeOK
  <2>2. Nlink(name[p]) \in Nat
    <3>1. /\ Links(name, name[p]) \subseteq Path /\ Links(temp, name[p]) \subseteq Path
          /\ Beside(left, name[p]) \subseteq Path
      BY DEF Links, Beside
    <3>2. /\ IsFiniteSet(Links(name, name[p])) /\ IsFiniteSet(Links(temp, name[p]))
          /\ IsFiniteSet(Beside(left, name[p]))
      BY <3>1, EngineAssumption, FS_Subset
    <3>3. /\ Cardinality(Links(name, name[p])) \in Nat
          /\ Cardinality(Links(temp, name[p])) \in Nat
          /\ Cardinality(Beside(left, name[p])) \in Nat
      BY <3>2, FS_CardinalityType
    <3> QED BY <3>3 DEF Nlink
  <2>3. /\ [ino |-> name[p], mtime |-> file[name[p]].mtime] \in StampType
        /\ file[name[p]].mode \in Mode /\ file[name[p]].compressed \in BOOLEAN
    BY <2>1 DEF FileType, StampType
  <2>4. {q \in Links(name, name[p]) : UnitOf[q] = UnitOf[p]} \in SUBSET Path
    BY DEF Links
  <2>5. Group(UnitOf[p], name[p]) \in MemberType
    BY <2>2, <2>3, <2>4 DEF Group, MemberType
  <2>6. /\ p \in Group(UnitOf[p], name[p]).paths
        /\ \A q \in Group(UnitOf[p], name[p]).paths :
             q \in Path /\ UnitOf[q] = UnitOf[p] /\ name[q] = name[p]
    BY DEF Group, Links
  <2>7. /\ Group(UnitOf[p], name[p]).stamp.ino = name[p]
        /\ Group(UnitOf[p], name[p]).stamp.mtime = file[name[p]].mtime
        /\ Group(UnitOf[p], name[p]).mode = file[name[p]].mode
    BY DEF Group
  <2> QED BY <2>1, <2>5, <2>6, <2>7
<1>3. Scan(units) \subseteq MemberType
  BY <1>1, <1>2
<1>4. ASSUME NEW m \in Scan(units)
      PROVE  /\ m.paths # {}
             /\ \E u \in units : \A p \in m.paths : UnitOf[p] = u
             /\ file[m.stamp.ino] # None
             /\ m.stamp.mtime = file[m.stamp.ino].mtime
             /\ m.mode = file[m.stamp.ino].mode
             /\ \A p \in m.paths : name[p] = m.stamp.ino
  <2>1. PICK p \in Scanned : m = Group(UnitOf[p], name[p])
    BY <1>1
  <2> QED BY <1>2, <2>1
<1>5. ASSUME NEW m \in Scan(units), NEW n \in Scan(units), NEW p \in m.paths, p \in n.paths
      PROVE  m = n
  <2>1. PICK q \in Scanned : m = Group(UnitOf[q], name[q])
    BY <1>1
  <2>2. PICK r \in Scanned : n = Group(UnitOf[r], name[r])
    BY <1>1
  <2>3. p \in Group(UnitOf[q], name[q]).paths /\ p \in Group(UnitOf[r], name[r]).paths
    BY <1>5, <2>1, <2>2
  <2>4. UnitOf[p] = UnitOf[q] /\ name[p] = name[q]
    BY <2>3 DEF Group, Links
  <2>5. UnitOf[p] = UnitOf[r] /\ name[p] = name[r]
    BY <2>3 DEF Group, Links
  <2> QED BY <2>1, <2>2, <2>4, <2>5
<1> QED BY <1>3, <1>4, <1>5

\* Among files of one hash the canonical one stands before all others.
LEMMA CanonicalExists ==
  ASSUME NEW T \in SUBSET MemberType, T # {}, NEW ix \in [Ino -> EntryType \cup {None}],
         \A m \in T : m.paths # {} /\ ix[m.stamp.ino] # None,
         \A m, n \in T : m # n => m.paths \cap n.paths = {}
  PROVE  \E c \in T : \A g \in T \ {c} : Before(c, g, ix)
<1>1. \A m \in T : /\ ix[m.stamp.ino].shared \in BOOLEAN /\ m.compressed \in BOOLEAN
                   /\ m.stamp.mtime \in Nat
                   /\ Min(m.paths) \in Nat /\ Min(m.paths) \in m.paths
  <2> SUFFICES ASSUME NEW m \in T
               PROVE  /\ ix[m.stamp.ino].shared \in BOOLEAN /\ m.compressed \in BOOLEAN
                      /\ m.stamp.mtime \in Nat
                      /\ Min(m.paths) \in Nat /\ Min(m.paths) \in m.paths
    OBVIOUS
  <2>1. m.stamp.ino \in Ino /\ m.stamp.mtime \in Nat /\ m.compressed \in BOOLEAN
    BY DEF MemberType, StampType
  <2>2. ix[m.stamp.ino] \in EntryType
    BY <2>1
  <2>3. ix[m.stamp.ino].shared \in BOOLEAN
    BY <2>2 DEF EntryType
  <2>4. m.paths \in SUBSET Path
    BY DEF MemberType
  <2> QED BY <2>1, <2>3, <2>4, FirstOfPaths, PathsAreNumbers
<1> DEFINE S == {m \in T : ix[m.stamp.ino].shared}
           T1 == IF S = {} THEN T ELSE S
           C == {m \in T1 : m.compressed}
           T2 == IF C = {} THEN T1 ELSE C
<1>2. T1 \subseteq T /\ T1 # {} /\ T2 \subseteq T1 /\ T2 # {}
  OBVIOUS
<1>3. PICK t \in {m.stamp.mtime : m \in T2} : \A e \in {m.stamp.mtime : m \in T2} : t <= e
  <2>1. {m.stamp.mtime : m \in T2} \in SUBSET Nat /\ {m.stamp.mtime : m \in T2} # {}
    BY <1>1, <1>2
  <2> HIDE DEF T2
  <2> QED BY <2>1, LeastExists
<1> DEFINE T3 == {m \in T2 : m.stamp.mtime = t}
<1>4. T3 # {} /\ T3 \subseteq T2
  BY <1>3
<1>5. PICK s \in {Min(m.paths) : m \in T3} : \A e \in {Min(m.paths) : m \in T3} : s <= e
  <2>1. T3 \subseteq T /\ T3 # {}
    BY <1>2, <1>4, Zenon
  <2> HIDE DEF T3
  <2>2. {Min(m.paths) : m \in T3} \in SUBSET Nat /\ {Min(m.paths) : m \in T3} # {}
    BY <1>1, <2>1
  <2> QED BY <2>2, LeastExists
<1>6. PICK c \in T3 : Min(c.paths) = s
  BY <1>5
<1>7. c \in T2 /\ c \in T1 /\ c \in T /\ c.stamp.mtime = t
  BY <1>2, <1>6
<1>8. ASSUME NEW g \in T \ {c}
      PROVE  Before(c, g, ix)
  <2> DEFINE sc == ix[c.stamp.ino].shared
             sg == ix[g.stamp.ino].shared
  <2>1. sc \in BOOLEAN /\ sg \in BOOLEAN
    BY <1>1, <1>7
  <2>2. CASE sc /\ ~sg
    BY <2>2 DEF Before
  <2>3. CASE ~(sc /\ ~sg)
    <3>1. sc = sg /\ g \in T1
      BY <1>7, <2>1, <2>3
    <3>2. CASE c.compressed /\ ~g.compressed
      BY <3>1, <3>2 DEF Before
    <3>3. CASE ~(c.compressed /\ ~g.compressed)
      <4>1. c.compressed = g.compressed /\ g \in T2
        BY <1>1, <1>7, <3>1, <3>3
      <4>2. t <= g.stamp.mtime
        BY <1>3, <4>1
      <4>3. CASE g.stamp.mtime # t
        <5>1. c.stamp.mtime < g.stamp.mtime
          BY <1>1, <1>7, <4>2, <4>3
        <5> QED BY <3>1, <4>1, <5>1 DEF Before
      <4>4. CASE g.stamp.mtime = t
        <5>1. g \in T3
          BY <4>1, <4>4
        <5>2. s <= Min(g.paths)
          BY <1>5, <5>1
        <5>3. Min(c.paths) # Min(g.paths)
          BY <1>1, <1>7
        <5>4. Min(c.paths) < Min(g.paths)
          BY <1>1, <1>6, <1>7, <5>2, <5>3
        <5> QED BY <1>7, <3>1, <4>1, <4>4, <5>4 DEF Before
      <4> QED BY <4>3, <4>4
    <3> QED BY <3>2, <3>3
  <2> QED BY <2>2, <2>3
<1> QED BY <1>7, <1>8

\* What dedupe plans: each action replaces a group of the scan by another one that
\* the index gives the same hash.
LEMMA DedupePlanHolds ==
  ASSUME scan \in SUBSET MemberType, NEW ix \in [Ino -> EntryType \cup {None}],
         \A m \in scan : m.paths # {},
         \A m, n \in scan : m # n => m.paths \cap n.paths = {},
         NEW a \in DedupePlan(ix)
  PROVE  /\ a \in ActionType
         /\ a.member \in scan /\ a.member.stamp.mtime < clock
         /\ \E c \in scan :
              /\ c # a.member /\ c.stamp.mtime < clock
              /\ a.source = Min(c.paths) /\ a.source_stamp = c.stamp
              /\ Hit(ix, c.stamp) /\ Hit(ix, a.member.stamp)
              /\ ix[c.stamp.ino].hash = ix[a.member.stamp.ino].hash
<1> DEFINE hashed == {m \in Candidates : Hit(ix, m.stamp)}
           twins(m) == {g \in hashed : ix[g.stamp.ino].hash = ix[m.stamp.ino].hash}
           canonical(m) == CHOOSE c \in twins(m) : \A g \in twins(m) \ {c} : Before(c, g, ix)
<1>1. DedupePlan(ix) =
        {[source |-> Min(canonical(m).paths), source_stamp |-> canonical(m).stamp, member |-> m] :
          m \in {g \in hashed : g # canonical(g) /\ ~ix[g.stamp.ino].shared}}
  BY DEF DedupePlan
<1>2. PICK m \in hashed :
        /\ m # canonical(m)
        /\ a = [source |-> Min(canonical(m).paths), source_stamp |-> canonical(m).stamp,
                member |-> m]
  <2> HIDE DEF hashed, canonical
  <2> QED BY <1>1
<1>3. Candidates \subseteq {g \in scan : g.stamp.mtime < clock}
  BY DEF Candidates, Eligible
<1>4. /\ hashed \subseteq scan
      /\ \A g \in hashed : g.stamp.mtime < clock /\ Hit(ix, g.stamp) /\ ix[g.stamp.ino] # None
  BY <1>3 DEF Hit
<1> HIDE DEF hashed
<1> DEFINE c == canonical(m)
<1>5. c \in twins(m)
  <2> DEFINE T == twins(m)
  <2>1. m \in T /\ T \subseteq hashed
    BY <1>2
  <2>2. T \in SUBSET MemberType /\ T # {}
    BY <1>4, <2>1
  <2>3. /\ \A g \in T : g.paths # {} /\ ix[g.stamp.ino] # None
        /\ \A g, n \in T : g # n => g.paths \cap n.paths = {}
    BY <1>4, <2>1
  <2> HIDE DEF T
  <2>4. \E e \in T : \A g \in T \ {e} : Before(e, g, ix)
    BY <2>2, <2>3, CanonicalExists
  <2>5. (CHOOSE e \in T : \A g \in T \ {e} : Before(e, g, ix)) \in T
    BY <2>4
  <2> QED BY <2>5 DEF T
<1> HIDE DEF canonical
<1>6. /\ m \in scan /\ m.stamp.mtime < clock /\ Hit(ix, m.stamp)
      /\ c \in scan /\ c.stamp.mtime < clock /\ Hit(ix, c.stamp) /\ c # m
      /\ ix[c.stamp.ino].hash = ix[m.stamp.ino].hash
  BY <1>2, <1>4, <1>5
<1>7. a.member = m /\ a.source = Min(c.paths) /\ a.source_stamp = c.stamp
  BY <1>2
<1>8. a \in ActionType
  <2>1. m \in MemberType /\ c.stamp \in StampType /\ c.paths \in SUBSET Path /\ c.paths # {}
    BY <1>6 DEF MemberType
  <2>2. Min(c.paths) \in Path
    BY <2>1, FirstOfPaths
  <2>3. a = [source |-> Min(c.paths), source_stamp |-> c.stamp, member |-> m]
    BY <1>2
  <2> HIDE DEF c
  <2> QED BY <2>1, <2>2, <2>3 DEF ActionType
<1> HIDE DEF c
<1> QED BY <1>6, <1>7, <1>8

----------------------------------------------------------------------------
(* What is at hand *)

LEMMA MemberFacts ==
  ASSUME TypeOK, ScanInv, NEW m \in scan
  PROVE  /\ m \in MemberType /\ m.paths \in SUBSET Path /\ m.paths # {}
         /\ m.stamp \in StampType /\ m.stamp.ino \in Ino /\ m.stamp.mtime \in Nat /\ m.mode \in Mode
         /\ Min(m.paths) \in m.paths /\ Min(m.paths) \in Path
         /\ \A p \in m.paths : UnitOf[p] \in locked
<1>1. m \in MemberType
  BY DEF TypeOK
<1>2. m.paths # {} /\ \A p \in m.paths : UnitOf[p] \in locked
  BY DEF ScanInv
<1>3. m.paths \in SUBSET Path /\ m.stamp \in StampType /\ m.mode \in Mode
  BY <1>1 DEF MemberType
<1> QED BY <1>1, <1>2, <1>3, FirstOfPaths DEF StampType

LEMMA Apart ==
  ASSUME TypeOK, ScanInv, NEW m \in scan, NEW n \in scan, m # n
  PROVE  Min(m.paths) # Min(n.paths) /\ Min(m.paths) \notin n.paths /\ Min(n.paths) \notin m.paths
<1>1. Min(m.paths) \in m.paths /\ Min(n.paths) \in n.paths
  BY MemberFacts
<1>2. m.paths \cap n.paths = {}
  BY DEF ScanInv
<1> QED BY <1>1, <1>2

LEMMA ActionFacts ==
  ASSUME TypeOK, ScanInv, NEW a \in plan
  PROVE  /\ a \in ActionType /\ a.member \in scan /\ a.member \in MemberType
         /\ a.member.stamp.mtime < clock
         /\ pass = "compress" => a = Rewrite(a.member)
<1>1. a \in ActionType
  BY DEF TypeOK
<1>2. a \in Acting
  BY DEF Acting
<1> QED BY <1>1, <1>2 DEF ScanInv, TypeOK

LEMMA JobFacts ==
  ASSUME TypeOK, ScanInv, SwapInv, job # None
  PROVE  /\ job \in JobType /\ job.action \in ActionType
         /\ job.action.member \in scan /\ job.action.member.stamp.mtime < clock
         /\ job.todo \in SUBSET Path
         /\ job.todo # {} => NextPath \in job.todo /\ NextPath \in Path
         /\ job.action.member \notin batch
         /\ job.todo \subseteq job.action.member.paths
<1>1. job \in JobType
  BY DEF TypeOK
<1>2. job.action \in ActionType /\ job.todo \in SUBSET Path
  BY <1>1 DEF JobType
<1>3. job.action \in Acting
  BY DEF Acting
<1>4. job.action.member \in scan /\ job.action.member.stamp.mtime < clock
  BY <1>3 DEF ScanInv
<1>5. job.todo # {} => NextPath \in job.todo /\ NextPath \in Path
  BY <1>2, FirstOfPaths DEF NextPath
<1>6. job.action.member \notin batch /\ job.todo \subseteq job.action.member.paths
  BY DEF SwapInv
<1> QED BY <1>1, <1>2, <1>4, <1>5, <1>6

LEMMA BatchFacts ==
  ASSUME TypeOK
  PROVE  batch \subseteq scan /\ Staged \subseteq batch
BY DEF TypeOK, Staged

\* The member of a batch that is staged next.
LEMMA UnstagedFacts ==
  ASSUME TypeOK, ScanInv, pass = "compress", Unstaged # {}
  PROVE  LET a == FirstAction(Unstaged)
             m == a.member IN
         /\ a \in plan /\ m \in batch /\ a = Rewrite(m)
         /\ m \in scan /\ m \in MemberType /\ m.paths # {} /\ m.stamp.mtime < clock
         /\ Min(m.paths) \in Path
         /\ \A b \in plan : b.member = m => b = a
<1>0. PICK a : a = FirstAction(Unstaged)
  OBVIOUS
<1>1. a \in plan /\ a.member \in batch
  <2>1. Unstaged \subseteq plan
    BY DEF Unstaged
  <2>2. \A b \in Unstaged : b.member.paths # {}
    BY <2>1, ActionFacts, MemberFacts
  <2>3. Unstaged \in SUBSET ActionType
    BY <2>1 DEF TypeOK
  <2>4. a \in Unstaged
    BY <1>0, <2>2, <2>3, FirstActionIn
  <2> QED BY <2>4 DEF Unstaged
<1>2. /\ a.member \in scan /\ a.member \in MemberType /\ a.member.paths # {}
      /\ a.member.stamp.mtime < clock
      /\ Min(a.member.paths) \in Path /\ a = Rewrite(a.member)
  BY <1>1, ActionFacts, MemberFacts
<1>3. \A b \in plan : b.member = a.member => b = a
  BY <1>2, ActionFacts
<1> QED BY <1>0, <1>1, <1>2, <1>3

----------------------------------------------------------------------------
(* The invariant of every device *)

LEMMA InitHolds == ASSUME Init PROVE IInv
<1>1. PICK leader \in [Path -> Path], bytes \in Contents :
        /\ name = leader
        /\ file = [i \in Ino |-> IF \E p \in Path : leader[p] = i THEN New(bytes[i], 0, i) ELSE None]
        /\ written = [p \in Path |-> {bytes[p]}]
  BY DEF Init, Leaders
<1>2. bytes \in [Path -> Data] /\ ModeOf \in [Path -> Mode]
  BY EngineAssumption
<1>3. \A i \in Ino : /\ file[i] \in FileType \cup {None}
                     /\ file[i] # None => file[i].mtime = 0
  <2> SUFFICES ASSUME NEW i \in Ino
               PROVE  /\ file[i] \in FileType \cup {None}
                      /\ file[i] # None => file[i].mtime = 0
    OBVIOUS
  <2>1. CASE \E p \in Path : leader[p] = i
    <3>1. file[i] = New(bytes[i], 0, i)
      BY <1>1, <2>1
    <3>2. i \in Path
      BY <2>1
    <3> QED BY <1>2, <3>1, <3>2 DEF New, FileType
  <2>2. CASE ~\E p \in Path : leader[p] = i
    BY <1>1, <2>2
  <2> QED BY <2>1, <2>2
<1>4. file \in [Ino -> FileType \cup {None}]
  BY <1>1, <1>3
<1>5. \A p \in Path : name[p] \in Ino /\ file[name[p]] # None
  <2> SUFFICES ASSUME NEW p \in Path PROVE name[p] \in Ino /\ file[name[p]] # None
    OBVIOUS
  <2>1. name[p] = leader[p] /\ leader[p] \in Path /\ leader[p] \in Ino
    BY <1>1, PathsAreNumbers
  <2>2. file[name[p]] = New(bytes[leader[p]], 0, leader[p])
    BY <1>1, <2>1
  <2>3. file[name[p]] \in FileType
    BY <1>2, <2>1, <2>2 DEF New, FileType
  <2> QED BY <2>1, <2>3, NoneIsNone
<1>6. device \in Devices /\ device.ticks \in Nat \ {0}
  BY EngineAssumption DEF Init
<1>7. name \in [Path -> Ino \cup {None}] /\ written \in [Path -> SUBSET Data]
  <2>1. name \in [Path -> Ino \cup {None}]
    BY <1>1, PathsAreNumbers
  <2>2. \A p \in Path : {bytes[p]} \in SUBSET Data
    BY <1>2
  <2> QED BY <1>1, <2>1, <2>2
<1>8. Report(0) \in ReportType
  BY EngineAssumption DEF Report, ReportType
<1>9. /\ temp = [p \in Path |-> None] /\ left = [p \in Path |-> {}] /\ clock = 1 /\ builds = 0 /\ crashes = 0
      /\ disk = NoIndex /\ pc = "idle" /\ locked = {} /\ scan = {} /\ index = NoIndex
      /\ pass = "compress" /\ plan = {} /\ batch = {} /\ job = None /\ report = Report(0)
  BY DEF Init
<1>10. TypeOK
  BY <1>3, <1>4, <1>6, <1>7, <1>8, <1>9, EngineAssumption DEF TypeOK, NoIndex
<1>11. PcInv
  BY <1>9 DEF PcInv, Staged
<1>12. ScanInv
  BY <1>9 DEF ScanInv, Acting
<1>13. SwapInv
  BY <1>9 DEF SwapInv
<1>14. LiveInv
  BY <1>5, <1>9 DEF LiveInv
<1>15. TempInv
  BY <1>9 DEF TempInv, Staged, CopyAtHand
<1> QED BY <1>10, <1>11, <1>12, <1>13, <1>14, <1>15 DEF IInv

LEMMA LiveStays ==
  ASSUME LiveInv, UNCHANGED fsVars
  PROVE  LiveInv'
BY DEF LiveInv, fsVars

LEMMA BeginKeeps == ASSUME IInv, NEW units \in SUBSET Unit, Begin(units) PROVE IInv'
<1> USE DEF IInv
<1>1. /\ Scan(units) \subseteq MemberType
      /\ \A m \in Scan(units) : m.paths # {} /\ \E u \in units : \A p \in m.paths : UnitOf[p] = u
      /\ \A m, n \in Scan(units) : m # n => m.paths \cap n.paths = {}
  BY ScanHolds
<1>2. /\ pc = "idle" /\ pc' = "sweep" /\ locked' = units /\ scan' = Scan(units) /\ index' = disk
      /\ report' = Report(builds)
      /\ UNCHANGED fsVars
      /\ UNCHANGED <<device, clock, builds, written, crashes, disk, pass, plan, batch, job>>
  BY DEF Begin, outside
<1>3. plan = {} /\ batch = {} /\ job = None
  BY <1>2 DEF PcInv
<1>4. Report(builds) \in ReportType
  BY EngineAssumption DEF Report, ReportType, TypeOK
<1>5. TypeOK'
  BY <1>1, <1>2, <1>3, <1>4 DEF TypeOK, fsVars
<1>6. PcInv'
  BY <1>2, <1>3 DEF PcInv, Staged
<1>7. ScanInv'
  BY <1>1, <1>2, <1>3 DEF ScanInv, Acting
<1>8. SwapInv'
  BY <1>2, <1>3 DEF SwapInv
<1>9. TempInv'
  BY <1>2, <1>3 DEF TempInv, Staged, CopyAtHand
<1> QED BY <1>2, <1>5, <1>6, <1>7, <1>8, <1>9, LiveStays

LEMMA SweptKeeps == ASSUME IInv, Swept PROVE IInv'
<1> USE DEF IInv
<1>1. /\ pc = "sweep" /\ NoneStale /\ pc' = "plan" /\ UNCHANGED fsVars
      /\ UNCHANGED <<device, clock, builds, written, crashes, disk>>
      /\ UNCHANGED <<locked, scan, index, pass, plan, batch, job, report>>
  BY DEF Swept, outside
<1>2. plan = {} /\ batch = {} /\ job = None
  BY <1>1 DEF PcInv
<1>3. TypeOK'
  BY <1>1 DEF TypeOK, fsVars
<1>4. PcInv'
  BY <1>1, <1>2 DEF PcInv, Staged
<1>5. ScanInv'
  BY <1>1, <1>2 DEF ScanInv, Acting
<1>6. SwapInv'
  BY <1>1, <1>2 DEF SwapInv
<1>7. TempInv'
  BY <1>1, <1>2 DEF TempInv, Staged, CopyAtHand, NoneStale, fsVars
<1> QED BY <1>1, <1>3, <1>4, <1>5, <1>6, <1>7, LiveStays

\* The hashes of a plan are read from the files themselves.
LEMMA HashedHolds ==
  ASSUME IInv
  PROVE  /\ HashedIndex \in [Ino -> EntryType \cup {None}]
         /\ \A i \in Ino : \/ HashedIndex[i] = index[i]
                           \/ \E m \in Candidates :
                                /\ m.stamp.ino = i /\ ~Hit(index, m.stamp)
                                /\ name[Min(m.paths)] # None
                                /\ HashedIndex[i] = Entry(m.stamp, Bytes(Min(m.paths)), FALSE)
<1> USE DEF IInv
<1> DEFINE unknown == {m \in Candidates : ~Hit(index, m.stamp) /\ name[Min(m.paths)] # None}
           pick(i) == CHOOSE g \in unknown : g.stamp.ino = i
<1>1. HashedIndex = [i \in Ino |-> IF \E m \in unknown : m.stamp.ino = i
                                   THEN Entry(pick(i).stamp, Bytes(Min(pick(i).paths)), FALSE)
                                   ELSE index[i]]
  BY DEF HashedIndex
<1>2. unknown \subseteq scan
  BY DEF Candidates
<1>3. ASSUME NEW i \in Ino
      PROVE  /\ HashedIndex[i] \in EntryType \cup {None}
             /\ \/ HashedIndex[i] = index[i]
                \/ \E m \in Candidates :
                     /\ m.stamp.ino = i /\ ~Hit(index, m.stamp)
                     /\ name[Min(m.paths)] # None
                     /\ HashedIndex[i] = Entry(m.stamp, Bytes(Min(m.paths)), FALSE)
  <2>1. CASE \E m \in unknown : m.stamp.ino = i
    <3> DEFINE m == pick(i)
    <3>1. m \in unknown /\ m.stamp.ino = i
      <4> HIDE DEF unknown
      <4> QED BY <2>1
    <3>2. HashedIndex[i] = Entry(m.stamp, Bytes(Min(m.paths)), FALSE)
      <4> HIDE DEF unknown
      <4> QED BY <1>1, <2>1
    <3> HIDE DEF m
    <3>3. m \in scan /\ m \in Candidates /\ ~Hit(index, m.stamp) /\ name[Min(m.paths)] # None
      BY <1>2, <3>1
    <3>4. m.stamp.mtime \in Nat /\ Min(m.paths) \in Path
      BY <3>3, MemberFacts
    <3>5. Bytes(Min(m.paths)) \in Data
      <4>1. name[Min(m.paths)] \in Ino /\ file[name[Min(m.paths)]] # None
        BY <3>3, <3>4 DEF LiveInv, TypeOK
      <4>2. file[name[Min(m.paths)]] \in FileType
        BY <4>1 DEF TypeOK
      <4> QED BY <3>3, <4>2 DEF Bytes, FileType
    <3>6. Entry(m.stamp, Bytes(Min(m.paths)), FALSE) \in EntryType
      BY <3>4, <3>5 DEF Entry, EntryType
    <3> QED BY <3>1, <3>2, <3>3, <3>6
  <2>2. CASE ~\E m \in unknown : m.stamp.ino = i
    <3>1. HashedIndex[i] = index[i]
      <4> HIDE DEF unknown
      <4> QED BY <1>1, <2>2
    <3> QED BY <3>1 DEF TypeOK
  <2> QED BY <2>1, <2>2
<1>4. HashedIndex \in [Ino -> EntryType \cup {None}]
  <2> HIDE DEF unknown, pick
  <2>1. DOMAIN HashedIndex = Ino
    BY <1>1
  <2> QED BY <1>1, <1>3, <2>1
<1> QED BY <1>3, <1>4

LEMMA PlanKeeps == ASSUME IInv, Plan PROVE IInv'
<1> USE DEF IInv
<1>1. /\ pc = "plan" /\ pc' = "act"
      /\ report' = [report EXCEPT !.applied = FALSE, !.skipped = {}]
      /\ UNCHANGED fsVars
      /\ UNCHANGED <<device, clock, builds, written, crashes, disk>>
      /\ UNCHANGED <<locked, scan, pass, batch, job>>
  BY DEF Plan, outside
<1>2. plan = {} /\ batch = {} /\ job = None
  BY <1>1 DEF PcInv
<1>3. /\ index' \in [Ino -> EntryType \cup {None}]
      /\ \A a \in plan' :
           /\ a \in ActionType
           /\ a.member \in scan /\ a.member.stamp.mtime < clock
           /\ pass = "compress" => a = Rewrite(a.member)
           /\ pass = "dedupe" => \E c \in scan : /\ c # a.member /\ c.stamp.mtime < clock
                                                 /\ a.source = Min(c.paths)
                                                 /\ a.source_stamp = c.stamp
  <2>1. CASE pass = "compress" /\ plan' = CompressPlan /\ index' = index
    <3> SUFFICES ASSUME NEW a \in plan'
                 PROVE  /\ a \in ActionType
                        /\ a.member \in scan /\ a.member.stamp.mtime < clock
                        /\ a = Rewrite(a.member)
      BY <2>1 DEF TypeOK
    <3>1. PICK m \in scan : Eligible(m) /\ a = Rewrite(m)
      BY <2>1 DEF CompressPlan
    <3>2. a.member = m /\ m \in MemberType
      BY <3>1 DEF Rewrite, TypeOK
    <3>3. Rewrite(m) \in ActionType
      BY <3>2 DEF Rewrite, ActionType
    <3> QED BY <3>1, <3>2, <3>3 DEF Eligible
  <2>2. CASE pass = "dedupe" /\ index' = HashedIndex /\ plan' = DedupePlan(index')
    <3>1. index' \in [Ino -> EntryType \cup {None}]
      BY <2>2, HashedHolds
    <3>2. scan \in SUBSET MemberType /\ \A m \in scan : m.paths # {}
      BY DEF TypeOK, ScanInv
    <3>3. \A m, n \in scan : m # n => m.paths \cap n.paths = {}
      BY DEF ScanInv
    <3>4. \A a \in DedupePlan(index') :
            /\ a \in ActionType
            /\ a.member \in scan /\ a.member.stamp.mtime < clock
            /\ \E c \in scan : /\ c # a.member /\ c.stamp.mtime < clock
                               /\ a.source = Min(c.paths) /\ a.source_stamp = c.stamp
      BY <3>1, <3>2, <3>3, DedupePlanHolds
    <3> QED BY <2>2, <3>1, <3>4
  <2> QED BY <2>1, <2>2 DEF Plan
<1>4. report' \in ReportType
  BY <1>1 DEF TypeOK, ReportType
<1>5. TypeOK'
  BY <1>1, <1>2, <1>3, <1>4 DEF TypeOK, fsVars
<1>6. PcInv'
  BY <1>1, <1>2 DEF PcInv, Staged
<1>7. ScanInv'
  BY <1>1, <1>2, <1>3 DEF ScanInv, Acting
<1>8. SwapInv'
  BY <1>1, <1>2 DEF SwapInv
<1>9. TempInv'
  BY <1>1, <1>2 DEF TempInv, Staged, CopyAtHand, fsVars
<1> QED BY <1>1, <1>5, <1>6, <1>7, <1>8, <1>9, LiveStays

LEMMA LetGoKeeps == ASSUME IInv, LetGo PROVE IInv'
<1> USE DEF IInv
<1>1. /\ pc = "act" /\ pc' = "release" /\ plan' = {}
      /\ report' = [report EXCEPT !.interrupted = TRUE]
      /\ UNCHANGED fsVars
      /\ UNCHANGED <<device, clock, builds, written, crashes, disk>>
      /\ UNCHANGED <<locked, scan, index, pass, batch, job>>
  BY DEF LetGo, outside
<1>2. batch = {} /\ job = None
  BY <1>1 DEF PcInv, Staged
<1>3. report' \in ReportType
  BY <1>1 DEF TypeOK, ReportType
<1>4. TypeOK'
  BY <1>1, <1>2, <1>3 DEF TypeOK, fsVars
<1>5. PcInv'
  BY <1>1, <1>2 DEF PcInv, Staged
<1>6. ScanInv'
  BY <1>1, <1>2 DEF ScanInv, Acting
<1>7. SwapInv'
  BY <1>1, <1>2 DEF SwapInv
<1>8. TempInv'
  BY <1>1, <1>2 DEF TempInv, Staged, CopyAtHand, fsVars
<1> QED BY <1>1, <1>4, <1>5, <1>6, <1>7, <1>8, LiveStays

LEMMA StageBatchKeeps == ASSUME IInv, StageBatch PROVE IInv'
<1> USE DEF IInv
<1>1. /\ pc = "act" /\ pass = "compress" /\ batch = {} /\ pc' = "stage"
      /\ batch' = {a.member : a \in FirstActions(Batch)}
      /\ UNCHANGED fsVars
      /\ UNCHANGED <<device, clock, builds, written, crashes, disk>>
      /\ UNCHANGED <<locked, scan, index, pass, plan, job, report>>
  BY DEF StageBatch, outside
<1>2. job = None
  BY <1>1 DEF PcInv
<1>3. \A m \in batch' : \E a \in plan : m = a.member
  BY <1>1 DEF FirstActions
<1>4. \A m \in batch' : m \in scan /\ m.stamp.mtime < clock
  BY <1>3, ActionFacts
<1>5. Staged' = {} /\ Staged = {}
  BY <1>1, <1>3 DEF Staged
<1>6. TypeOK'
  BY <1>1, <1>4 DEF TypeOK, fsVars
<1>7. PcInv'
  BY <1>1, <1>2 DEF PcInv
<1>8. ScanInv'
  BY <1>1, <1>2, <1>4 DEF ScanInv, Acting
<1>9. SwapInv'
  BY <1>1, <1>2 DEF SwapInv
<1>10. TempInv'
  BY <1>1, <1>2, <1>5 DEF TempInv, CopyAtHand, fsVars
<1> QED BY <1>1, <1>6, <1>7, <1>8, <1>9, <1>10, LiveStays

LEMMA BatchDoneKeeps == ASSUME IInv, BatchDone PROVE IInv'
<1> USE DEF IInv
<1>1. /\ pc = "finish" /\ batch = {} /\ pc' = "act"
      /\ UNCHANGED fsVars
      /\ UNCHANGED <<device, clock, builds, written, crashes, disk>>
      /\ UNCHANGED <<locked, scan, index, pass, plan, batch, job, report>>
  BY DEF BatchDone, outside
<1>2. job = None
  BY <1>1 DEF PcInv
<1>3. TypeOK'
  BY <1>1 DEF TypeOK, fsVars
<1>4. PcInv'
  BY <1>1, <1>2 DEF PcInv, Staged
<1>5. ScanInv'
  BY <1>1, <1>2 DEF ScanInv, Acting
<1>6. SwapInv'
  BY <1>1, <1>2 DEF SwapInv
<1>7. TempInv'
  BY <1>1, <1>2 DEF TempInv, Staged, CopyAtHand, fsVars
<1> QED BY <1>1, <1>3, <1>4, <1>5, <1>6, <1>7, LiveStays

\* A skipped group is one more of the report.
LEMMA SkipKeeps ==
  ASSUME report \in ReportType, NEW m \in MemberType, Skip(m)
  PROVE  report' \in ReportType
BY DEF Skip, ReportType

\* So is a temp file that could not be removed.
LEMMA DropReports ==
  ASSUME report \in ReportType, NEW m \in MemberType, NEW p \in Path,
         \/ Skip(m)
         \/ report' = [report EXCEPT !.skipped = @ \cup {m}, !.kept = @ \cup {p}]
  PROVE  report' \in ReportType
<1>1. CASE Skip(m)
  BY <1>1, SkipKeeps
<1>2. CASE report' = [report EXCEPT !.skipped = @ \cup {m}, !.kept = @ \cup {p}]
  <2>1. report.skipped \cup {m} \in SUBSET MemberType /\ report.kept \cup {p} \in SUBSET Path
    BY DEF ReportType
  <2> QED BY <1>2, <2>1 DEF ReportType
<1> QED BY <1>1, <1>2

LEMMA StartReplaceKeeps == ASSUME IInv, StartReplace PROVE IInv'
<1> USE DEF IInv
<1> DEFINE a == FirstAction(plan)
<1>1. /\ pc = "act" /\ pass = "dedupe" /\ plan # {} /\ plan' = plan \ {a}
      /\ UNCHANGED fsVars
      /\ UNCHANGED <<device, clock, builds, written, crashes, disk>>
      /\ UNCHANGED <<locked, scan, index, pass, batch>>
      /\ \/ /\ job' = [action |-> a, todo |-> a.member.paths]
            /\ pc' = "copy" /\ report' = report
         \/ Skip(a.member) /\ job' = job /\ pc' = pc
  BY DEF StartReplace, outside
<1>2. batch = {} /\ job = None
  BY <1>1 DEF PcInv, Staged
<1>3. a \in plan
  <2>1. \A b \in plan : b.member.paths # {}
    BY ActionFacts, MemberFacts
  <2>2. plan \in SUBSET ActionType
    BY DEF TypeOK
  <2> QED BY <1>1, <2>1, <2>2, FirstActionIn
<1> HIDE DEF a
<1>4. /\ a \in ActionType /\ a.member \in scan /\ a.member \in MemberType
      /\ a.member.paths \in SUBSET Path /\ a.member.paths # {}
  BY <1>3, ActionFacts, MemberFacts
<1>5. a \in Acting /\ plan \subseteq Acting
  BY <1>3 DEF Acting
<1>6. CASE job' = [action |-> a, todo |-> a.member.paths] /\ pc' = "copy" /\ report' = report
  <2>1. job' \in JobType
    BY <1>4, <1>6 DEF JobType
  <2>2. job' # None
    BY <2>1, NoneIsNone
  <2>3. TypeOK'
    BY <1>1, <1>6, <2>1 DEF TypeOK, fsVars
  <2>4. PcInv'
    BY <1>1, <1>2, <1>6, <2>2 DEF PcInv, Staged
  <2>5. Acting' \subseteq Acting
    BY <1>1, <1>5, <1>6 DEF Acting
  <2>6. ScanInv'
    BY <1>1, <1>2, <2>5 DEF ScanInv
  <2>7. SwapInv'
    BY <1>1, <1>2, <1>4, <1>6 DEF SwapInv
  <2>8. TempInv'
    BY <1>1, <1>2, <1>6 DEF TempInv, Staged, CopyAtHand, fsVars
  <2> QED BY <1>1, <2>3, <2>4, <2>6, <2>7, <2>8, LiveStays
<1>7. CASE Skip(a.member) /\ job' = job /\ pc' = pc
  <2>1. report' \in ReportType
    BY <1>4, <1>7, SkipKeeps DEF TypeOK
  <2>2. TypeOK'
    BY <1>1, <1>7, <2>1 DEF TypeOK, fsVars
  <2>3. PcInv'
    BY <1>1, <1>2, <1>7 DEF PcInv, Staged
  <2>4. Acting' \subseteq Acting
    BY <1>1, <1>2, <1>7 DEF Acting
  <2>5. ScanInv'
    BY <1>1, <1>2, <2>4 DEF ScanInv
  <2>6. SwapInv'
    BY <1>2, <1>7 DEF SwapInv
  <2>7. TempInv'
    BY <1>1, <1>2, <1>7 DEF TempInv, Staged, CopyAtHand, fsVars
  <2> QED BY <1>1, <2>2, <2>3, <2>5, <2>6, <2>7, LiveStays
<1> QED BY <1>1, <1>6, <1>7

\* What Tell writes is an index.
LEMMA ToldHolds ==
  ASSUME IInv, Tell
  PROVE  index' \in [Ino -> EntryType \cup {None}]
<1> USE DEF IInv
<1> DEFINE a == job.action
           first == Min(a.member.paths)
           new == Stamp(first)
<1>1. /\ pc = "tell" /\ new # NoStamp
      /\ index' = IF pass = "compress" THEN ToldRewritten(a.member, new) ELSE ToldReplaced(a, new)
  BY DEF Tell
<1>2. job # None
  BY <1>1 DEF PcInv
<1>3. a \in Acting /\ a.member \in scan /\ a.member.stamp \in StampType /\ first \in Path
  BY <1>2, JobFacts, MemberFacts DEF Acting
<1>4. new \in StampType
  <2>1. name[first] # None /\ name[first] \in Ino /\ file[name[first]] \in FileType
    BY <1>1, <1>3 DEF Stamp, LiveInv, TypeOK
  <2> QED BY <2>1 DEF Stamp, StampType, FileType
<1>5. \A s \in StampType, b \in BOOLEAN :
        Hit(index, s) => /\ s.ino \in Ino /\ index[s.ino] \in EntryType
                         /\ Entry(new, index[s.ino].hash, b) \in EntryType
  <2> SUFFICES ASSUME NEW s \in StampType, NEW b \in BOOLEAN, Hit(index, s)
               PROVE  /\ s.ino \in Ino /\ index[s.ino] \in EntryType
                      /\ Entry(new, index[s.ino].hash, b) \in EntryType
    OBVIOUS
  <2>1. s.ino \in Ino /\ index[s.ino] # None
    BY DEF StampType, Hit
  <2>2. index[s.ino] \in EntryType
    BY <2>1 DEF TypeOK
  <2>3. new.mtime \in Nat /\ index[s.ino].hash \in Data
    BY <1>4, <2>2 DEF StampType, EntryType
  <2>4. [mtime |-> new.mtime, hash |-> index[s.ino].hash, shared |-> b] \in EntryType
    BY <2>3 DEF EntryType
  <2> QED BY <2>1, <2>2, <2>4 DEF Entry
<1>6. new.ino \in Ino /\ a.member.stamp.ino \in Ino
  BY <1>3, <1>4 DEF StampType
<1> HIDE DEF new
<1>7. CASE pass = "compress"
  <2>1. CASE Hit(index, a.member.stamp)
    <3> DEFINE e == Entry(new, index[a.member.stamp.ino].hash, FALSE)
    <3>1. e \in EntryType
      BY <1>3, <1>5, <2>1
    <3>2. index' = [index EXCEPT ![a.member.stamp.ino] = None, ![new.ino] = e]
      BY <1>1, <1>7, <2>1 DEF ToldRewritten
    <3> HIDE DEF e, a
    <3> QED BY <1>6, <3>1, <3>2 DEF TypeOK
  <2>2. CASE ~Hit(index, a.member.stamp)
    BY <1>1, <1>7, <2>2 DEF ToldRewritten, TypeOK
  <2> QED BY <2>1, <2>2
<1>8. CASE pass = "dedupe"
  <2>1. CASE Hit(index, a.source_stamp)
    <3>1. a.source_stamp \in StampType
      BY <1>3, <1>8, MemberFacts DEF ScanInv
    <3> DEFINE s == a.source_stamp.ino
               e == Entry(new, index[s].hash, TRUE)
    <3>2. e \in EntryType /\ index[s] \in EntryType /\ s \in Ino
      BY <1>5, <2>1, <3>1
    <3>3. [index[s] EXCEPT !.shared = TRUE] \in EntryType
      BY <3>2 DEF EntryType
    <3> DEFINE g == [index EXCEPT ![s] = [index[s] EXCEPT !.shared = TRUE]]
    <3>4. g \in [Ino -> EntryType \cup {None}]
      BY <3>2, <3>3 DEF TypeOK
    <3>5. index' = [[index EXCEPT ![s].shared = TRUE, ![a.member.stamp.ino] = None]
                      EXCEPT ![new.ino] = e]
      BY <1>1, <1>8, <2>1 DEF ToldReplaced
    <3>6. [index EXCEPT ![s].shared = TRUE, ![a.member.stamp.ino] = None]
            = [g EXCEPT ![a.member.stamp.ino] = None]
      BY <3>2 DEF TypeOK
    <3> HIDE DEF e, a, g, s
    <3> QED BY <1>6, <3>2, <3>4, <3>5, <3>6
  <2>2. CASE ~Hit(index, a.source_stamp)
    BY <1>1, <1>8, <2>2 DEF ToldReplaced, TypeOK
  <2> QED BY <2>1, <2>2
<1> QED BY <1>7, <1>8 DEF TypeOK

LEMMA TellKeeps == ASSUME IInv, Tell PROVE IInv'
<1> USE DEF IInv
<1>1. /\ pc = "tell" /\ pc' = (IF pass = "compress" THEN "finish" ELSE "act")
      /\ job' = None
      /\ report' = [report EXCEPT !.applied = TRUE, !.progressed = TRUE]
      /\ UNCHANGED fsVars
      /\ UNCHANGED <<device, clock, builds, written, crashes, disk>>
      /\ UNCHANGED <<locked, scan, pass, plan, batch>>
  BY DEF Tell, outside
<1>2. Acting' \subseteq Acting /\ Staged' = Staged
  BY <1>1 DEF Acting, Staged
<1>3. report' \in ReportType
  BY <1>1 DEF TypeOK, ReportType
<1>4. TypeOK'
  BY <1>1, <1>3, ToldHolds DEF TypeOK, fsVars
<1>5. PcInv'
  BY <1>1, <1>2 DEF PcInv, TypeOK
<1>6. ScanInv'
  BY <1>1, <1>2 DEF ScanInv
<1>7. SwapInv'
  BY <1>1 DEF SwapInv
<1>8. TempInv'
  BY <1>1, <1>2 DEF TempInv, CopyAtHand, Private, fsVars
<1> QED BY <1>1, <1>4, <1>5, <1>6, <1>7, <1>8, LiveStays

\* With the process goes all it had at hand.
LEMMA LostKeeps ==
  ASSUME IInv, Lost, UNCHANGED fsVars, UNCHANGED <<device, clock, builds, written>>,
         crashes' \in 0 .. MaxCrashes
  PROVE  IInv'
<1> USE DEF IInv
<1>1. /\ pc' = "idle" /\ locked' = {} /\ scan' = {} /\ index' = NoIndex /\ pass' = "compress"
      /\ plan' = {} /\ batch' = {} /\ job' = None /\ report' = Report(0) /\ disk' = disk
  BY DEF Lost
<1>2. Report(0) \in ReportType
  BY EngineAssumption DEF Report, ReportType
<1>3. TypeOK'
  BY <1>1, <1>2 DEF TypeOK, fsVars, NoIndex
<1>4. PcInv'
  BY <1>1 DEF PcInv, Staged
<1>5. ScanInv'
  BY <1>1 DEF ScanInv, Acting
<1>6. SwapInv'
  BY <1>1 DEF SwapInv
<1>7. TempInv'
  BY <1>1 DEF TempInv, Staged, CopyAtHand
<1> QED BY <1>3, <1>4, <1>5, <1>6, <1>7, LiveStays

LEMMA TellFailsKeeps == ASSUME IInv, TellFails PROVE IInv'
BY LostKeeps DEF TellFails, outside, IInv, TypeOK

LEMMA SweepFailsKeeps == ASSUME IInv, SweepFails PROVE IInv'
BY LostKeeps DEF SweepFails, outside, IInv, TypeOK

LEMMA CrashKeeps == ASSUME IInv, Crash PROVE IInv'
<1>1. crashes \in 0 .. MaxCrashes /\ MaxCrashes \in Nat
  BY EngineAssumption DEF IInv, TypeOK
<1>2. crashes' \in 0 .. MaxCrashes
  BY <1>1 DEF Crash
<1> QED BY <1>2, LostKeeps DEF Crash

\* A group given up, with the names as they are.
LEMMA GiveUpKeeps ==
  ASSUME IInv, job # None, GiveUp, UNCHANGED fsVars,
         pc \in {"copy", "link", "tell"},
         UNCHANGED <<device, clock, builds, written, crashes, disk>>,
         UNCHANGED <<locked, scan, index, pass, plan, batch>>
  PROVE  IInv'
<1> USE DEF IInv
<1>1. /\ Skip(job.action.member) /\ job' = None
      /\ pc' = (IF pass = "compress" THEN "finish" ELSE "act")
  BY DEF GiveUp, Turn
<1>2. Acting' \subseteq Acting /\ Staged' = Staged
  BY <1>1 DEF Acting, Staged
<1>3. report' \in ReportType
  <2>1. job.action.member \in MemberType
    BY JobFacts, MemberFacts
  <2> QED BY <1>1, <2>1, SkipKeeps DEF TypeOK
<1>4. TypeOK'
  BY <1>1, <1>3 DEF TypeOK, fsVars
<1>5. PcInv'
  BY <1>1, <1>2 DEF PcInv, TypeOK
<1>6. ScanInv'
  BY <1>1, <1>2 DEF ScanInv
<1>7. SwapInv'
  BY <1>1 DEF SwapInv
<1>8. TempInv'
  BY <1>1, <1>2 DEF TempInv, CopyAtHand, Private, fsVars
<1> QED BY <1>4, <1>5, <1>6, <1>7, <1>8, LiveStays

LEMMA RewrittenGoneKeeps == ASSUME IInv, RewrittenGone PROVE IInv'
<1>1. pc = "tell" /\ job # None
  BY DEF RewrittenGone, IInv, PcInv
<1> QED BY <1>1, GiveUpKeeps DEF RewrittenGone, outside

LEMMA EndPassKeeps == ASSUME IInv, EndPass PROVE IInv'
<1> USE DEF IInv
<1>1. /\ pc = "act" /\ plan = {} /\ batch = {}
      /\ scan' \in {scan, Scan(locked)}
      /\ UNCHANGED fsVars
      /\ UNCHANGED <<device, clock, builds, written, crashes, disk>>
      /\ UNCHANGED <<locked, index, plan, batch, job>>
      /\ pass' \in {"compress", "dedupe"} /\ pc' \in {"plan", "release"}
  BY DEF EndPass, outside, TypeOK
<1>2. job = None
  BY <1>1 DEF PcInv
<1>3. report' \in ReportType
  <2>1. CASE report' = report
    BY <2>1 DEF TypeOK
  <2>2. CASE Again /\ report' = [report EXCEPT !.rounds = @ + 1, !.progressed = FALSE]
    <3>1. MaxRounds \in Nat /\ report.rounds \in 1 .. MaxRounds /\ report.rounds < MaxRounds
      BY <2>2, EngineAssumption DEF TypeOK, ReportType, Again
    <3>2. report.rounds + 1 \in 1 .. MaxRounds
      BY <3>1
    <3> QED BY <2>2, <3>2 DEF TypeOK, ReportType
  <2> QED BY <2>1, <2>2 DEF EndPass
<1>4. /\ scan' \in SUBSET MemberType
      /\ \A m \in scan' : m.paths # {} /\ \E u \in locked : \A p \in m.paths : UnitOf[p] = u
      /\ \A m, n \in scan' : m # n => m.paths \cap n.paths = {}
  <2>1. CASE scan' = scan
    BY <2>1 DEF TypeOK, ScanInv
  <2>2. CASE scan' = Scan(locked)
    BY <2>2, ScanHolds DEF TypeOK
  <2> QED BY <1>1, <2>1, <2>2
<1>5. TypeOK'
  BY <1>1, <1>3, <1>4 DEF TypeOK, fsVars
<1>6. PcInv'
  BY <1>1, <1>2 DEF PcInv, Staged
<1>7. ScanInv'
  BY <1>1, <1>2, <1>4 DEF ScanInv, Acting
<1>8. SwapInv'
  BY <1>1, <1>2 DEF SwapInv
<1>9. TempInv'
  BY <1>1, <1>2 DEF TempInv, Staged, CopyAtHand, fsVars
<1> QED BY <1>1, <1>5, <1>6, <1>7, <1>8, <1>9, LiveStays

LEMMA ReleaseKeeps == ASSUME IInv, Release PROVE IInv'
<1> USE DEF IInv
<1>1. /\ pc = "release" /\ pc' = "save" /\ locked' = {} /\ scan' = {}
      /\ UNCHANGED fsVars
      /\ UNCHANGED <<device, clock, builds, written, crashes, disk>>
      /\ UNCHANGED <<index, pass, plan, batch, job, report>>
  BY DEF Release, outside
<1>2. plan = {} /\ batch = {} /\ job = None
  BY <1>1 DEF PcInv, Staged
<1>3. TypeOK'
  BY <1>1, <1>2 DEF TypeOK, fsVars
<1>4. PcInv'
  BY <1>1, <1>2 DEF PcInv, Staged
<1>5. ScanInv'
  BY <1>1, <1>2 DEF ScanInv, Acting
<1>6. SwapInv'
  BY <1>1, <1>2 DEF SwapInv
<1>7. TempInv'
  BY <1>1, <1>2 DEF TempInv, Staged, CopyAtHand, fsVars
<1> QED BY <1>1, <1>3, <1>4, <1>5, <1>6, <1>7, LiveStays

LEMMA SaveKeeps == ASSUME IInv, Save PROVE IInv'
<1> USE DEF IInv
<1>1. /\ pc = "save" /\ pc' = "idle" /\ disk' \in {index, Live(index)}
      /\ index' = NoIndex /\ pass' = "compress" /\ report' = Report(0)
      /\ UNCHANGED fsVars
      /\ UNCHANGED <<device, clock, builds, written, crashes>>
      /\ UNCHANGED <<locked, scan, plan, batch, job>>
  BY DEF Save, outside
<1>2. plan = {} /\ batch = {} /\ job = None /\ locked = {} /\ scan = {}
  BY <1>1 DEF PcInv, Staged
<1>3. disk' \in [Ino -> EntryType \cup {None}]
  BY <1>1 DEF TypeOK, Live
<1>4. Report(0) \in ReportType
  BY EngineAssumption DEF Report, ReportType
<1>5. TypeOK'
  BY <1>1, <1>2, <1>3, <1>4 DEF TypeOK, fsVars, NoIndex
<1>6. PcInv'
  BY <1>1, <1>2 DEF PcInv, Staged
<1>7. ScanInv'
  BY <1>1, <1>2 DEF ScanInv, Acting
<1>8. SwapInv'
  BY <1>1, <1>2 DEF SwapInv
<1>9. TempInv'
  BY <1>1, <1>2 DEF TempInv, Staged, CopyAtHand, fsVars
<1> QED BY <1>1, <1>5, <1>6, <1>7, <1>8, <1>9, LiveStays

LEMMA TickKeeps == ASSUME IInv, Tick PROVE IInv'
<1> USE DEF IInv
<1>1. /\ pc = "idle" /\ clock < device.ticks /\ clock' = clock + 1
      /\ UNCHANGED fsVars
      /\ UNCHANGED <<device, builds, written, crashes, disk>>
      /\ UNCHANGED <<pc, locked, scan, index, pass, plan, batch, job, report>>
  BY DEF Tick, runVars
<1>2. plan = {} /\ batch = {} /\ job = None /\ locked = {} /\ scan = {}
  BY <1>1 DEF PcInv, Staged
<1>3. device.ticks \in Nat \ {0} /\ clock \in 1 .. device.ticks
  BY EngineAssumption DEF TypeOK
<1>4. \A i \in Ino : file[i] # None => file[i].mtime <= clock + 1
  <2>1. \A i \in Ino : file[i] # None => file[i].mtime \in Nat /\ file[i].mtime <= clock
    BY DEF TypeOK, FileType
  <2> QED BY <1>3, <2>1
<1>5. TypeOK'
  BY <1>1, <1>2, <1>3, <1>4 DEF TypeOK, fsVars
<1>6. PcInv'
  BY <1>1, <1>2 DEF PcInv, Staged
<1>7. ScanInv'
  BY <1>1, <1>2 DEF ScanInv, Acting
<1>8. SwapInv'
  BY <1>1, <1>2 DEF SwapInv
<1>9. TempInv'
  BY <1>1, <1>2 DEF TempInv, Staged, CopyAtHand, fsVars
<1> QED BY <1>1, <1>5, <1>6, <1>7, <1>8, <1>9, LiveStays

\* With inodes taken away only from those without a name, every name is of a file.
LEMMA ReapedHolds ==
  ASSUME TypeOK, file' = Reaped(file),
         name' \in [Path -> Ino \cup {None}], temp' \in [Path -> Ino \cup {None}]
  PROVE  /\ file' \in [Ino -> FileType \cup {None}]
         /\ \A i \in Ino : file'[i] \in {file[i], None}
         /\ \A i \in Ino : file'[i] # None => file'[i].mtime <= clock
         /\ \A q \in Path : name'[q] # None => file'[name'[q]] = file[name'[q]]
         /\ \A q \in Path : temp'[q] # None => file'[temp'[q]] = file[temp'[q]]
<1>1. file \in [Ino -> FileType \cup {None}]
  BY DEF TypeOK
<1>2. /\ file' \in [Ino -> FileType \cup {None}]
      /\ \A i \in Ino : file'[i] \in {file[i], None}
      /\ \A q \in Path : name'[q] # None => name'[q] \in Ino /\ file'[name'[q]] = file[name'[q]]
      /\ \A q \in Path : temp'[q] # None => temp'[q] \in Ino /\ file'[temp'[q]] = file[temp'[q]]
  BY <1>1, ReapKeeps
<1>3. \A i \in Ino : file'[i] # None => file'[i].mtime <= clock
  BY <1>2 DEF TypeOK
<1> QED BY <1>2, <1>3

\* Temp names go: every other file is as it was.
LEMMA NamesGo ==
  ASSUME TypeOK, LiveInv, name' = name, file' = Reaped(file),
         temp' \in [Path -> Ino \cup {None}], \A q \in Path : temp'[q] \in {temp[q], None}
  PROVE  /\ file' \in [Ino -> FileType \cup {None}]
         /\ \A i \in Ino : file'[i] # None => file'[i].mtime <= clock
         /\ LiveInv'
         /\ \A q \in Path : Private(q) /\ temp'[q] = temp[q] => Private(q)'
<1>1. name' \in [Path -> Ino \cup {None}]
  BY DEF TypeOK
<1>2. /\ file' \in [Ino -> FileType \cup {None}]
      /\ \A i \in Ino : file'[i] # None => file'[i].mtime <= clock
      /\ \A q \in Path : name'[q] # None => file'[name'[q]] = file[name'[q]]
      /\ \A q \in Path : temp'[q] # None => file'[temp'[q]] = file[temp'[q]]
  BY <1>1, ReapedHolds
<1>3. LiveInv'
  BY <1>2 DEF LiveInv
<1>4. \A q \in Path : Private(q) /\ temp'[q] = temp[q] => Private(q)'
  BY DEF Private
<1> QED BY <1>2, <1>3, <1>4

\* A temp file of a skipped group goes, or is left.
LEMMA DropHolds ==
  ASSUME TypeOK, LiveInv, NEW m \in MemberType, NEW p \in Path, temp[p] \in Ino, DropTemp(m, p)
  PROVE  /\ name' = name /\ temp' = [temp EXCEPT ![p] = None]
         /\ temp' \in [Path -> Ino \cup {None}] /\ left' \in [Path -> SUBSET Ino]
         /\ file' \in [Ino -> FileType \cup {None}]
         /\ \A i \in Ino : file'[i] # None => file'[i].mtime <= clock
         /\ LiveInv'
         /\ report' \in ReportType
         /\ \A q \in Path : Private(q) /\ q # p => Private(q)'
<1>1. name' = name /\ temp' = [temp EXCEPT ![p] = None] /\ file' = Reaped(file)
  BY DEF DropTemp
<1>2. temp' \in [Path -> Ino \cup {None}] /\ \A q \in Path : temp'[q] \in {temp[q], None}
  BY <1>1 DEF TypeOK
<1>3. /\ file' \in [Ino -> FileType \cup {None}]
      /\ \A i \in Ino : file'[i] # None => file'[i].mtime <= clock
      /\ LiveInv'
      /\ \A q \in Path : Private(q) /\ temp'[q] = temp[q] => Private(q)'
  BY <1>1, <1>2, NamesGo
<1>4. \A q \in Path : q # p => temp'[q] = temp[q]
  BY <1>1 DEF TypeOK
<1>5. left' \in [Path -> SUBSET Ino]
  BY DEF DropTemp, TypeOK
<1>6. report' \in ReportType
  BY DropReports DEF DropTemp, TypeOK
<1> QED BY <1>1, <1>2, <1>3, <1>4, <1>5, <1>6

LEMMA SweepKeeps == ASSUME IInv, NEW p \in Path, Sweep(p) PROVE IInv'
<1> USE DEF IInv
<1>1. /\ pc = "sweep" /\ name' = name /\ file' = Reaped(file)
      /\ UNCHANGED <<device, clock, builds, written, crashes, disk>>
      /\ UNCHANGED <<pc, locked, scan, index, pass, plan, batch, job, report>>
  BY DEF Sweep, outside, runVars
<1>2. plan = {} /\ batch = {} /\ job = None
  BY <1>1 DEF PcInv
<1>3. /\ temp' \in [Path -> Ino \cup {None}] /\ left' \in [Path -> SUBSET Ino]
      /\ \A q \in Path : temp'[q] \in {temp[q], None}
  BY DEF Sweep, TypeOK
<1>4. /\ file' \in [Ino -> FileType \cup {None}]
      /\ \A i \in Ino : file'[i] # None => file'[i].mtime <= clock
      /\ LiveInv'
  BY <1>1, <1>3, NamesGo
<1>5. TypeOK'
  BY <1>1, <1>3, <1>4 DEF TypeOK
<1>6. PcInv'
  BY <1>1, <1>2 DEF PcInv, Staged
<1>7. ScanInv'
  BY <1>1, <1>2 DEF ScanInv, Acting
<1>8. SwapInv'
  BY <1>1, <1>2 DEF SwapInv
<1>9. TempInv'
  BY <1>1, <1>2 DEF TempInv, Staged, CopyAtHand
<1> QED BY <1>4, <1>5, <1>6, <1>7, <1>8, <1>9

\* The copy is a new inode, of nobody else.
LEMMA CopyHolds ==
  ASSUME TypeOK, LiveInv, NEW m \in MemberType, m.paths # {}, m.stamp.mtime < clock,
         NEW p \in Path, CopyTo(m, p)
  PROVE  /\ name' = name /\ left' = left
         /\ temp' \in [Path -> Ino \cup {None}]
         /\ \A q \in Path : q # Min(m.paths) => temp'[q] = temp[q]
         /\ file' \in [Ino -> FileType \cup {None}]
         /\ \A i \in Ino : file'[i] # None => file'[i].mtime <= clock
         /\ LiveInv'
         /\ Private(Min(m.paths))'
         /\ \A q \in Path : Private(q) /\ q # Min(m.paths) => Private(q)'
<1> DEFINE first == Min(m.paths)
<1>1. /\ name' = name
      /\ \E i \in NewIno :
           /\ i \in Ino
           /\ temp' = [temp EXCEPT ![first] = i]
           /\ file' \in [Ino -> FileType \cup {None}]
           /\ file'[i] \in FileType
           /\ file'[i].mtime = m.stamp.mtime
           /\ \A j \in Ino : j # i => file'[j] \in {file[j], None}
           /\ \A q \in Path : name[q] # None => name[q] # i /\ file'[name[q]] = file[name[q]]
           /\ \A q \in Path : temp[q] # None =>
                temp[q] # i /\ (q # first => file'[temp[q]] = file[temp[q]])
  BY CopyEffect
<1>2. PICK i \in NewIno :
           /\ i \in Ino
           /\ temp' = [temp EXCEPT ![first] = i]
           /\ file' \in [Ino -> FileType \cup {None}]
           /\ file'[i] \in FileType
           /\ file'[i].mtime = m.stamp.mtime
           /\ \A j \in Ino : j # i => file'[j] \in {file[j], None}
           /\ \A q \in Path : name[q] # None => name[q] # i /\ file'[name[q]] = file[name[q]]
           /\ \A q \in Path : temp[q] # None =>
                temp[q] # i /\ (q # first => file'[temp[q]] = file[temp[q]])
  BY <1>1
<1>3. first \in Path
  BY FirstOfPaths DEF MemberType
<1> HIDE DEF first
<1>4. temp'[first] = i /\ \A q \in Path : q # first => temp'[q] = temp[q]
  BY <1>2, <1>3 DEF TypeOK
<1>5. temp' \in [Path -> Ino \cup {None}]
  BY <1>2, <1>3 DEF TypeOK
<1>6. file'[i] # None /\ i # None
  BY <1>2, NoneIsNone
<1>7. \A j \in Ino : file'[j] # None => file'[j].mtime <= clock
  <2> SUFFICES ASSUME NEW j \in Ino, file'[j] # None
               PROVE  file'[j].mtime <= clock
    OBVIOUS
  <2>1. CASE j = i
    <3>1. m.stamp.mtime \in Nat /\ clock \in Nat
      BY DEF MemberType, StampType, TypeOK
    <3> QED BY <1>2, <2>1, <3>1
  <2>2. CASE j # i
    BY <1>2, <2>2 DEF TypeOK
  <2> QED BY <2>1, <2>2
<1>8. LiveInv'
  BY <1>1, <1>2, <1>4, <1>6 DEF LiveInv
<1>9. Private(first)'
  BY <1>1, <1>2, <1>3, <1>4, <1>6 DEF Private
<1>10. \A q \in Path : Private(q) /\ q # first => Private(q)'
  BY <1>1, <1>2, <1>3, <1>4 DEF Private
<1>11. left' = left
  BY DEF CopyTo
<1> QED BY <1>1, <1>2, <1>4, <1>5, <1>7, <1>8, <1>9, <1>10, <1>11 DEF first

\* A copy left by a clone that failed half-way is of nobody, either.
LEMMA CopyLeftHolds ==
  ASSUME TypeOK, LiveInv, NEW m \in MemberType, m.paths # {}, NEW p \in Path, CopyLeft(m, p)
  PROVE  /\ name' = name /\ temp' = temp /\ left' \in [Path -> SUBSET Ino]
         /\ file' \in [Ino -> FileType \cup {None}]
         /\ \A i \in Ino : file'[i] # None => file'[i].mtime <= clock
         /\ \E i \in NewIno : \A j \in Ino : j # i => file'[j] \in {file[j], None}
         /\ \A q \in Path : name[q] # None => file'[name[q]] = file[name[q]]
         /\ \A q \in Path : temp[q] # None => file'[temp[q]] = file[temp[q]]
         /\ LiveInv'
         /\ report' \in ReportType
<1> DEFINE c == [file[name[p]] EXCEPT !.mtime = clock]
<1>1. PICK i \in NewIno : /\ left' = [left EXCEPT ![Min(m.paths)] = @ \cup {i}]
                          /\ name' = name /\ temp' = temp
                          /\ file' = Reaped([file EXCEPT ![i] = c])
  BY DEF CopyLeft
<1>2. i \in Ino /\ file[i] = None
  BY <1>1, NewInoIsFree
<1>3. c \in FileType /\ c.mtime = clock /\ clock \in Nat
  <2>1. file[name[p]] \in FileType /\ clock \in Nat
    BY DEF CopyLeft, LiveInv, TypeOK
  <2> QED BY <2>1, MovedTime
<1> DEFINE f == [file EXCEPT ![i] = c]
<1> HIDE DEF c
<1>4. /\ f \in [Ino -> FileType \cup {None}]
      /\ f[i] = c /\ \A j \in Ino : j # i => f[j] = file[j]
  BY <1>2, <1>3 DEF TypeOK
<1>5. name' \in [Path -> Ino \cup {None}] /\ temp' \in [Path -> Ino \cup {None}]
  BY <1>1 DEF TypeOK
<1>6. file' = Reaped(f)
  BY <1>1
<1> HIDE DEF f
<1>7. /\ file' \in [Ino -> FileType \cup {None}]
      /\ \A j \in Ino : file'[j] \in {f[j], None}
      /\ \A q \in Path : name'[q] # None => name'[q] \in Ino /\ file'[name'[q]] = f[name'[q]]
      /\ \A q \in Path : temp'[q] # None => temp'[q] \in Ino /\ file'[temp'[q]] = f[temp'[q]]
  BY <1>4, <1>5, <1>6, ReapKeeps
<1>8. /\ \A q \in Path : name[q] # None => file'[name[q]] = file[name[q]]
      /\ \A q \in Path : temp[q] # None => file'[temp[q]] = file[temp[q]]
  <2>1. name' = name /\ temp' = temp
    BY <1>1
  <2>2. \A q \in Path : (name[q] # None => name[q] # i) /\ (temp[q] # None => temp[q] # i)
    BY <1>2 DEF LiveInv
  <2> QED BY <1>4, <1>7, <2>1, <2>2
<1>9. \A j \in Ino : file'[j] # None => file'[j].mtime <= clock
  BY <1>3, <1>4, <1>7 DEF TypeOK
<1>10. LiveInv'
  BY <1>1, <1>8 DEF LiveInv
<1>11. Min(m.paths) \in Path
  BY FirstOfPaths DEF MemberType
<1>12. left' \in [Path -> SUBSET Ino]
  BY <1>1, <1>2 DEF TypeOK
<1>13. report' \in ReportType
  BY <1>11, DropReports DEF CopyLeft, TypeOK
<1>14. \A j \in Ino : j # i => file'[j] \in {file[j], None}
  BY <1>4, <1>7
<1> QED BY <1>1, <1>7, <1>8, <1>9, <1>10, <1>12, <1>13, <1>14

\* A group skipped before it has a copy.
LEMMA UnstageKeeps ==
  ASSUME IInv, pc \in {"stage", "clone"}, pass = "compress", Unstaged # {},
         pc' = "stage", report' \in ReportType,
         LET a == FirstAction(Unstaged) IN plan' = plan \ {a} /\ batch' = batch \ {a.member},
         name' = name, temp' = temp, left' \in [Path -> SUBSET Ino],
         file' \in [Ino -> FileType \cup {None}], LiveInv',
         \A i \in Ino : file'[i] # None => file'[i].mtime <= clock,
         UNCHANGED <<device, clock, builds, written, crashes, disk>>,
         UNCHANGED <<locked, scan, index, pass, job>>
  PROVE  IInv'
<1> USE DEF IInv
<1>0. PICK a : a = FirstAction(Unstaged)
  OBVIOUS
<1>1. plan' = plan \ {a} /\ batch' = batch \ {a.member} /\ job = None
  BY <1>0 DEF PcInv
<1>2. /\ a \in plan /\ a.member \in batch
      /\ \A b \in plan : b.member = a.member => b = a
  BY <1>0, UnstagedFacts
<1>3. Acting' \subseteq Acting
  BY <1>1 DEF Acting
<1>4. PcInv'
  BY <1>1 DEF PcInv
<1>5. SwapInv'
  BY <1>1 DEF SwapInv
<1>6. TypeOK'
  BY <1>1 DEF TypeOK
<1>7. ScanInv'
  BY <1>1, <1>3 DEF ScanInv
<1>8. Staged' = Staged
  BY <1>1, <1>2 DEF Staged
<1>9. TempInv'
  BY <1>1, <1>8 DEF TempInv, CopyAtHand, Private
<1> QED BY <1>4, <1>5, <1>6, <1>7, <1>9

LEMMA StageKeeps == ASSUME IInv, Stage PROVE IInv'
<1> USE DEF IInv
<1>0. PICK a : a = FirstAction(Unstaged)
  OBVIOUS
<1> DEFINE m == a.member
<1>1. /\ pc = "stage" /\ Unstaged # {}
      /\ UNCHANGED fsVars
      /\ UNCHANGED <<device, clock, builds, written, crashes, disk>>
      /\ UNCHANGED <<locked, scan, index, pass, job>>
      /\ \/ pc' = "clone" /\ UNCHANGED <<plan, batch, report>>
         \/ plan' = plan \ {a} /\ batch' = batch \ {m} /\ Skip(m) /\ pc' = "stage"
  BY <1>0 DEF Stage, outside
<1>2. job = None /\ pass = "compress"
  BY <1>1 DEF PcInv
<1>3. CASE pc' = "clone" /\ UNCHANGED <<plan, batch, report>>
  <2>1. Staged' = Staged /\ Unstaged' = Unstaged /\ Acting' = Acting
    BY <1>1, <1>3 DEF Staged, Unstaged, Acting
  <2>2. TypeOK'
    BY <1>1, <1>3 DEF TypeOK, fsVars
  <2>3. PcInv'
    BY <1>1, <1>2, <1>3, <2>1 DEF PcInv
  <2>4. ScanInv'
    BY <1>1, <1>3, <2>1 DEF ScanInv
  <2>5. SwapInv'
    BY <1>1, <1>2 DEF SwapInv
  <2>6. TempInv'
    BY <1>1, <1>3, <2>1 DEF TempInv, CopyAtHand, Private, fsVars
  <2> QED BY <1>1, <2>2, <2>3, <2>4, <2>5, <2>6, LiveStays
<1>4. CASE plan' = plan \ {a} /\ batch' = batch \ {m} /\ Skip(m) /\ pc' = "stage"
  <2>1. report' \in ReportType
    <3>1. m \in MemberType
      BY <1>0, <1>1, <1>2, UnstagedFacts
    <3> QED BY <1>4, <3>1, SkipKeeps DEF TypeOK
  <2>2. /\ name' = name /\ temp' = temp /\ left' \in [Path -> SUBSET Ino] /\ LiveInv'
        /\ file' \in [Ino -> FileType \cup {None}]
        /\ \A i \in Ino : file'[i] # None => file'[i].mtime <= clock
    BY <1>1, LiveStays DEF fsVars, TypeOK
  <2> QED BY <1>0, <1>1, <1>2, <1>4, <2>1, <2>2, UnstageKeeps
<1> QED BY <1>1, <1>3, <1>4

LEMMA CloneKeeps == ASSUME IInv, Clone PROVE IInv'
<1> USE DEF IInv
<1>0. PICK a : a = FirstAction(Unstaged)
  OBVIOUS
<1> DEFINE m == a.member
<1>1. /\ pc = "clone" /\ pc' = "stage" /\ plan' = plan \ {a}
      /\ UNCHANGED <<device, clock, builds, written, crashes, disk>>
      /\ UNCHANGED <<locked, scan, index, pass, job>>
      /\ \/ CopyTo(m, Min(m.paths)) /\ UNCHANGED <<batch, report>>
         \/ batch' = batch \ {m} /\ Skip(m) /\ UNCHANGED fsVars
         \/ batch' = batch \ {m} /\ CopyLeft(m, Min(m.paths))
  BY <1>0 DEF Clone, outside
<1>2. job = None /\ pass = "compress" /\ Unstaged # {}
  BY <1>1 DEF PcInv
<1>3. /\ a \in plan /\ m \in batch
      /\ m \in scan /\ m \in MemberType /\ m.paths # {} /\ m.stamp.mtime < clock
      /\ Min(m.paths) \in Path
      /\ \A b \in plan : b.member = m => b = a
  BY <1>0, <1>2, UnstagedFacts
<1>4. CASE CopyTo(m, Min(m.paths)) /\ UNCHANGED <<batch, report>>
  <2>1. /\ name' = name /\ left' = left
        /\ temp' \in [Path -> Ino \cup {None}]
        /\ \A q \in Path : q # Min(m.paths) => temp'[q] = temp[q]
        /\ file' \in [Ino -> FileType \cup {None}]
        /\ \A i \in Ino : file'[i] # None => file'[i].mtime <= clock
        /\ LiveInv'
        /\ Private(Min(m.paths))'
        /\ \A q \in Path : Private(q) /\ q # Min(m.paths) => Private(q)'
    BY <1>3, <1>4, CopyHolds
  <2>2. TypeOK'
    BY <1>1, <1>4, <2>1 DEF TypeOK
  <2>3. ScanInv'
    <3>1. Acting' \subseteq Acting
      BY <1>1 DEF Acting
    <3> QED BY <1>1, <1>4, <3>1 DEF ScanInv
  <2>4. Staged' = Staged \cup {m} /\ m \notin Staged
    BY <1>1, <1>3, <1>4 DEF Staged
  <2>5. \A n \in Staged : Min(n.paths) # Min(m.paths) /\ Min(n.paths) \in Path
    BY <1>3, <2>4, BatchFacts, Apart, MemberFacts
  <2>6. \A n \in Staged' : Private(Min(n.paths))'
    <3>1. \A n \in Staged : Private(Min(n.paths))
      BY DEF TempInv
    <3> QED BY <2>1, <2>4, <2>5, <3>1
  <2>7. \A p \in Path : UnitOf[p] \in locked /\ temp'[p] # None =>
          \E n \in Staged' : p = Min(n.paths)
    BY <1>1, <2>1, <2>4 DEF TempInv
  <2>8. TempInv'
    BY <1>1, <2>6, <2>7 DEF TempInv, CopyAtHand
  <2>9. PcInv'
    BY <1>1, <1>2 DEF PcInv
  <2>10. SwapInv'
    BY <1>1, <1>2 DEF SwapInv
  <2> QED BY <2>1, <2>2, <2>3, <2>8, <2>9, <2>10
<1>5. CASE batch' = batch \ {m} /\ Skip(m) /\ UNCHANGED fsVars
  <2>1. report' \in ReportType
    BY <1>3, <1>5, SkipKeeps DEF TypeOK
  <2>2. /\ name' = name /\ temp' = temp /\ left' \in [Path -> SUBSET Ino] /\ LiveInv'
        /\ file' \in [Ino -> FileType \cup {None}]
        /\ \A i \in Ino : file'[i] # None => file'[i].mtime <= clock
    BY <1>5, LiveStays DEF fsVars, TypeOK
  <2> QED BY <1>0, <1>1, <1>2, <1>5, <2>1, <2>2, UnstageKeeps
<1>6. CASE batch' = batch \ {m} /\ CopyLeft(m, Min(m.paths))
  <2>1. /\ name' = name /\ temp' = temp /\ left' \in [Path -> SUBSET Ino]
        /\ file' \in [Ino -> FileType \cup {None}]
        /\ \A i \in Ino : file'[i] # None => file'[i].mtime <= clock
        /\ LiveInv' /\ report' \in ReportType
    BY <1>3, <1>6, CopyLeftHolds
  <2> QED BY <1>0, <1>1, <1>2, <1>6, <2>1, UnstageKeeps
<1> QED BY <1>1, <1>4, <1>5, <1>6

\* The backend touches none but staged copies.
LEMMA BackendEffect ==
  ASSUME IInv, Backend
  PROVE  /\ file' \in [Ino -> FileType \cup {None}]
         /\ \A i \in Ino : file[i] = None <=> file'[i] = None
         /\ \A i \in Ino :
              \/ file'[i] = file[i]
              \/ /\ \E m \in Staged : temp[Min(m.paths)] = i
                 /\ file'[i].data = file[i].data /\ file'[i].mode = file[i].mode
                 /\ file'[i].mtime = clock
<1> USE DEF IInv
<1>1. PICK done \in SUBSET batch :
        file' = [i \in Ino |-> IF \E m \in done : temp[Min(m.paths)] = i
                               THEN [file[i] EXCEPT !.compressed = TRUE, !.mtime = clock]
                               ELSE file[i]]
  BY DEF Backend
<1>2. batch = Staged
  <2>1. Unstaged = {}
    BY DEF Backend
  <2> QED BY <2>1 DEF Unstaged, Staged
<1>3. ASSUME NEW f \in FileType
      PROVE  LET g == [f EXCEPT !.compressed = TRUE, !.mtime = clock] IN
             g \in FileType /\ g.data = f.data /\ g.mode = f.mode /\ g.mtime = clock
  <2>1. clock \in Nat
    BY DEF TypeOK
  <2> QED BY <1>3, <2>1 DEF FileType
<1>4. ASSUME NEW i \in Ino
      PROVE  /\ file'[i] \in FileType \cup {None}
             /\ file[i] = None <=> file'[i] = None
             /\ \/ file'[i] = file[i]
                \/ /\ \E m \in Staged : temp[Min(m.paths)] = i
                   /\ file'[i].data = file[i].data /\ file'[i].mode = file[i].mode
                   /\ file'[i].mtime = clock
  <2>1. CASE \E m \in done : temp[Min(m.paths)] = i
    <3>1. PICK m \in done : temp[Min(m.paths)] = i
      BY <2>1
    <3>2. m \in Staged /\ Min(m.paths) \in Path
      BY <1>2, BatchFacts, MemberFacts
    <3>3. file[i] \in FileType
      BY <3>1, <3>2, NoneIsNone DEF LiveInv, TypeOK
    <3>4. file'[i] = [file[i] EXCEPT !.compressed = TRUE, !.mtime = clock]
      BY <1>1, <2>1
    <3>5. /\ file'[i] \in FileType /\ file'[i].data = file[i].data
          /\ file'[i].mode = file[i].mode /\ file'[i].mtime = clock
      BY <1>3, <3>3, <3>4
    <3> QED BY <3>1, <3>2, <3>3, <3>5, NoneIsNone
  <2>2. CASE ~\E m \in done : temp[Min(m.paths)] = i
    BY <1>1, <2>2 DEF TypeOK
  <2> QED BY <2>1, <2>2
<1>5. file' \in [Ino -> FileType \cup {None}]
  <2>1. DOMAIN file' = Ino
    BY <1>1
  <2> QED BY <1>1, <1>4, <2>1
<1> QED BY <1>4, <1>5

LEMMA BackendKeeps == ASSUME IInv, Backend PROVE IInv'
<1> USE DEF IInv
<1>1. /\ pc = "stage" /\ Unstaged = {} /\ pc' = "finish"
      /\ UNCHANGED <<name, temp, left>>
      /\ UNCHANGED <<device, clock, builds, written, crashes, disk>>
      /\ UNCHANGED <<locked, scan, index, pass, plan, batch, job, report>>
  BY DEF Backend, outside
<1>2. job = None /\ pass = "compress"
  BY <1>1 DEF PcInv
<1>3. file' \in [Ino -> FileType \cup {None}] /\ \A i \in Ino : file[i] = None <=> file'[i] = None
  BY BackendEffect
<1>4. \A i \in Ino : file'[i] # None => file'[i].mtime <= clock
  <2>1. \A i \in Ino : file'[i] = file[i] \/ file'[i].mtime = clock
    BY BackendEffect
  <2>2. clock \in Nat
    BY DEF TypeOK
  <2> QED BY <2>1, <2>2 DEF TypeOK
<1>5. TypeOK'
  BY <1>1, <1>3, <1>4 DEF TypeOK
<1>6. batch = Staged /\ Staged' = Staged
  BY <1>1 DEF Unstaged, Staged
<1>7. PcInv'
  BY <1>1, <1>2, <1>6 DEF PcInv
<1>8. ScanInv'
  BY <1>1 DEF ScanInv, Acting
<1>9. SwapInv'
  BY <1>1, <1>2 DEF SwapInv
<1>10. LiveInv'
  BY <1>1, <1>3 DEF LiveInv, TypeOK
<1>11. TempInv'
  BY <1>1, <1>6 DEF TempInv, CopyAtHand, Private
<1> QED BY <1>5, <1>7, <1>8, <1>9, <1>10, <1>11

\* The member whose turn it is, and its copy.
LEMMA FinishFacts ==
  ASSUME IInv, pc = "finish", batch # {}
  PROVE  LET m == FirstStaged IN
         /\ pass = "compress" /\ job = None /\ batch = Staged
         /\ m \in batch /\ m \in scan /\ m \in MemberType /\ m.paths # {} /\ m.paths \in SUBSET Path
         /\ m.stamp.mtime < clock /\ m.stamp.mtime \in Nat
         /\ Min(m.paths) \in m.paths /\ Min(m.paths) \in Path
         /\ Private(Min(m.paths))
         /\ temp[Min(m.paths)] \in Ino /\ file[temp[Min(m.paths)]] \in FileType
<1> USE DEF IInv
<1> DEFINE m == FirstStaged
<1>1. pass = "compress" /\ job = None /\ batch = Staged
  BY DEF PcInv
<1>2. m \in batch
  <2>1. batch \in SUBSET MemberType /\ \A n \in batch : n.paths # {}
    BY MemberFacts DEF TypeOK
  <2> QED BY <2>1, FirstStagedIn
<1> HIDE DEF m
<1>3. /\ m \in scan /\ m \in MemberType /\ m.paths # {} /\ m.paths \in SUBSET Path
      /\ m.stamp.mtime < clock /\ m.stamp.mtime \in Nat
      /\ Min(m.paths) \in m.paths /\ Min(m.paths) \in Path
  BY <1>2, BatchFacts, MemberFacts DEF ScanInv
<1>4. Private(Min(m.paths))
  BY <1>1, <1>2 DEF TempInv
<1>5. temp[Min(m.paths)] \in Ino /\ file[temp[Min(m.paths)]] \in FileType
  BY <1>3, <1>4 DEF Private, LiveInv, TypeOK
<1> QED BY <1>1, <1>2, <1>3, <1>4, <1>5 DEF m

LEMMA FinishKeeps == ASSUME IInv, Finish PROVE IInv'
<1> USE DEF IInv
<1>0. PICK m : m = FirstStaged
  OBVIOUS
<1> DEFINE p == Min(m.paths)
<1>1. /\ pc = "finish" /\ batch # {} /\ batch' = batch \ {m}
      /\ UNCHANGED <<device, clock, builds, written, crashes, disk>>
      /\ UNCHANGED <<locked, scan, index, pass, plan>>
      /\ \/ /\ file[temp[p]].compressed /\ CheckGroup(m)
            /\ file' = [file EXCEPT ![temp[p]] = RestoreMeta(@, m)]
            /\ job' = [action |-> Rewrite(m), todo |-> m.paths]
            /\ pc' = "rename"
            /\ UNCHANGED <<name, temp, left, report>>
         \/ DropTemp(m, p) /\ UNCHANGED <<job, pc>>
  BY <1>0 DEF Finish, outside
<1>2. /\ pass = "compress" /\ job = None /\ batch = Staged
      /\ m \in batch /\ m \in scan /\ m \in MemberType /\ m.paths # {} /\ m.paths \in SUBSET Path
      /\ m.stamp.mtime < clock /\ m.stamp.mtime \in Nat
      /\ p \in m.paths /\ p \in Path
      /\ Private(p)
      /\ temp[p] \in Ino /\ file[temp[p]] \in FileType
  BY <1>0, <1>1, FinishFacts
<1>3. Staged' = Staged \ {m} /\ batch' = Staged'
  BY <1>1, <1>2 DEF Staged
<1>4. \A n \in Staged' : n \in Staged /\ Min(n.paths) # p /\ Min(n.paths) \in Path
  BY <1>2, <1>3, BatchFacts, Apart, MemberFacts
<1>5. CASE /\ file[temp[p]].compressed /\ CheckGroup(m)
           /\ file' = [file EXCEPT ![temp[p]] = RestoreMeta(@, m)]
           /\ job' = [action |-> Rewrite(m), todo |-> m.paths]
           /\ pc' = "rename"
           /\ UNCHANGED <<name, temp, left, report>>
  <2> DEFINE g == RestoreMeta(file[temp[p]], m)
  <2>1. g \in FileType /\ g.mtime = m.stamp.mtime
    BY <1>2, Restored
  <2>2. file' = [file EXCEPT ![temp[p]] = g]
    BY <1>5
  <2> HIDE DEF g
  <2>3. file' \in [Ino -> FileType \cup {None}]
    BY <1>2, <2>1, <2>2 DEF TypeOK
  <2>4. \A i \in Ino : file'[i] # None => file'[i].mtime <= clock
    <3>1. clock \in Nat
      BY DEF TypeOK
    <3> QED BY <1>2, <2>1, <2>2, <3>1 DEF TypeOK
  <2>5. \A i \in Ino : file[i] # None => file'[i] # None
    BY <1>2, <2>1, <2>2, NoneIsNone DEF TypeOK
  <2>6. job' \in JobType /\ job' # None
    <3>1. Rewrite(m) \in ActionType
      BY <1>2 DEF Rewrite, ActionType
    <3>2. job' \in JobType
      BY <1>2, <1>5, <3>1 DEF JobType
    <3> QED BY <3>2, NoneIsNone
  <2>7. TypeOK'
    BY <1>1, <1>5, <2>3, <2>4, <2>6 DEF TypeOK
  <2>8. PcInv'
    BY <1>1, <1>2, <1>3, <1>5, <2>6 DEF PcInv
  <2>9. job'.action = Rewrite(m) /\ job'.action.member = m /\ job'.todo = m.paths
    BY <1>5 DEF Rewrite
  <2>10. ScanInv'
    <3>1. Acting' \subseteq Acting \cup {Rewrite(m)}
      BY <1>1, <2>9 DEF Acting
    <3>2. Rewrite(m).member = m
      BY DEF Rewrite
    <3> QED BY <1>1, <1>2, <3>1, <3>2 DEF ScanInv
  <2>11. SwapInv'
    BY <1>1, <1>2, <1>5, <2>9 DEF SwapInv
  <2>12. LiveInv'
    BY <1>5, <2>5 DEF LiveInv, TypeOK
  <2>13. NextPath' = p
    BY <2>9 DEF NextPath
  <2>14. \A q \in Path : Private(q) => Private(q)'
    BY <1>5 DEF Private
  <2>15. \A n \in Staged' : Private(Min(n.paths))'
    <3>1. \A n \in Staged : Private(Min(n.paths))
      BY DEF TempInv
    <3> QED BY <1>4, <2>14, <3>1
  <2>16. \A q \in Path : UnitOf[q] \in locked' /\ temp'[q] # None =>
           (\E n \in Staged' : q = Min(n.paths)) \/ q = p
    BY <1>1, <1>3, <1>5 DEF TempInv
  <2>17. temp'[p] # None /\ Private(p)'
    <3>1. Private(p)'
      BY <1>2, <2>14
    <3> QED BY <3>1 DEF Private
  <2>18. TempInv'
    <3>1. Private(Min(job.action.member.paths))'
      BY <2>9, <2>17 DEF Private
    <3> QED BY <1>5, <2>13, <2>15, <2>16, <2>17, <3>1 DEF TempInv
  <2> QED BY <2>7, <2>8, <2>10, <2>11, <2>12, <2>18
<1>6. CASE DropTemp(m, p) /\ UNCHANGED <<job, pc>>
  <2>1. /\ name' = name /\ temp' = [temp EXCEPT ![p] = None]
        /\ temp' \in [Path -> Ino \cup {None}] /\ left' \in [Path -> SUBSET Ino]
        /\ file' \in [Ino -> FileType \cup {None}]
        /\ \A i \in Ino : file'[i] # None => file'[i].mtime <= clock
        /\ LiveInv'
        /\ \A q \in Path : Private(q) /\ q # p => Private(q)'
    BY <1>2, <1>6, DropHolds
  <2>2. report' \in ReportType
    BY <1>2, <1>6, DropHolds
  <2>3. TypeOK'
    BY <1>1, <1>6, <2>1, <2>2 DEF TypeOK
  <2>4. PcInv'
    BY <1>1, <1>2, <1>3, <1>6 DEF PcInv
  <2>5. ScanInv'
    BY <1>1, <1>2, <1>6 DEF ScanInv, Acting
  <2>6. SwapInv'
    BY <1>2, <1>6 DEF SwapInv
  <2>7. \A n \in Staged' : Private(Min(n.paths))'
    BY <1>4, <2>1 DEF TempInv
  <2>8. temp'[p] = None /\ \A q \in Path : q # p => temp'[q] = temp[q]
    BY <1>2, <2>1 DEF TypeOK
  <2>9. \A q \in Path : UnitOf[q] \in locked' /\ temp'[q] # None => \E n \in Staged' : q = Min(n.paths)
    BY <1>1, <1>3, <2>8 DEF TempInv
  <2>10. TempInv'
    BY <1>1, <1>6, <2>7, <2>9 DEF TempInv, CopyAtHand
  <2> QED BY <2>1, <2>3, <2>4, <2>5, <2>6, <2>10
<1> QED BY <1>1, <1>5, <1>6

\* The group at work stands apart from those staged.
LEMMA JobAside ==
  ASSUME IInv, job # None
  PROVE  \A n \in Staged : /\ Min(n.paths) \in Path /\ Min(n.paths) \notin job.action.member.paths
                           /\ Private(Min(n.paths))
<1> USE DEF IInv
<1>1. \A n \in Staged : Private(Min(n.paths))
  BY DEF TempInv
<1>2. \A n \in Staged : n \in scan /\ n # job.action.member
  BY BatchFacts, JobFacts
<1>3. job.action.member \in scan
  BY JobFacts
<1> QED BY <1>1, <1>2, <1>3, Apart, MemberFacts

\* The source of a pair is the first path of another group.
LEMMA SourceFacts ==
  ASSUME IInv, job # None, pass = "dedupe"
  PROVE  \E c \in scan : /\ c # job.action.member /\ c.stamp.mtime < clock
                         /\ job.action.source = Min(c.paths) /\ job.action.source_stamp = c.stamp
                         /\ job.action.source \in Path /\ job.action.source \in c.paths
                         /\ job.action.source_stamp \in StampType
<1> USE DEF IInv
<1>1. job.action \in Acting
  BY DEF Acting
<1>2. PICK c \in scan : /\ c # job.action.member /\ c.stamp.mtime < clock
                        /\ job.action.source = Min(c.paths) /\ job.action.source_stamp = c.stamp
  BY <1>1 DEF ScanInv
<1> QED BY <1>2, MemberFacts

\* link_as: a second name for the source's inode, which takes the later mtime.
LEMMA LinkedEffect ==
  ASSUME TypeOK, LiveInv, NEW q \in Path, name[q] # None, NEW t \in Nat, t < clock,
         file' = [file EXCEPT ![name[q]].mtime = Max({@, t})]
  PROVE  /\ file' \in [Ino -> FileType \cup {None}]
         /\ \A i \in Ino : file'[i] # None => file'[i].mtime <= clock
         /\ \A i \in Ino : file[i] = None <=> file'[i] = None
         /\ \A i \in Ino : i # name[q] => file'[i] = file[i]
         /\ name[q] \in Ino /\ file[name[q]] # None
         /\ file'[name[q]].data = file[name[q]].data
         /\ file'[name[q]].mode = file[name[q]].mode
         /\ file'[name[q]].mtime \in {file[name[q]].mtime, t}
         /\ file[name[q]].mtime <= file'[name[q]].mtime /\ t <= file'[name[q]].mtime
<1> DEFINE i == name[q]
           s == Max({file[i].mtime, t})
           f == [file[i] EXCEPT !.mtime = s]
<1>1. i \in Ino /\ file[i] \in FileType
  BY DEF LiveInv, TypeOK
<1>2. file[i].mtime \in Nat /\ file[i].mtime <= clock /\ file[i] # None
  BY <1>1, NoneIsNone DEF TypeOK, FileType
<1>3. s \in {file[i].mtime, t} /\ file[i].mtime <= s /\ t <= s
  BY <1>2, MaxOfTwo
<1>4. s \in Nat /\ s <= clock
  <2>1. clock \in Nat
    BY DEF TypeOK
  <2> QED BY <1>2, <1>3, <2>1
<1>5. file' = [file EXCEPT ![i] = f]
  OBVIOUS
<1> HIDE DEF s
<1>6. f \in FileType /\ f.data = file[i].data /\ f.mode = file[i].mode /\ f.mtime = s
  BY <1>1, <1>4, MovedTime
<1> HIDE DEF f, i
<1>7. file' \in [Ino -> FileType \cup {None}]
  BY <1>1, <1>5, <1>6 DEF TypeOK
<1>8. file'[i] = f /\ \A j \in Ino : j # i => file'[j] = file[j]
  BY <1>1, <1>5 DEF TypeOK
<1>9. \A j \in Ino : file'[j] # None => file'[j].mtime <= clock
  BY <1>4, <1>6, <1>8 DEF TypeOK
<1>10. \A j \in Ino : file[j] = None <=> file'[j] = None
  BY <1>2, <1>6, <1>8, NoneIsNone
<1> QED BY <1>1, <1>2, <1>3, <1>6, <1>7, <1>8, <1>9, <1>10 DEF i

LEMMA CopyKeeps == ASSUME IInv, Copy PROVE IInv'
<1> USE DEF IInv
<1>0. PICK a : a = job.action
  OBVIOUS
<1> DEFINE m == a.member
           first == Min(m.paths)
<1>1. /\ pc = "copy"
      /\ UNCHANGED <<device, clock, builds, written, crashes, disk>>
      /\ UNCHANGED <<locked, scan, index, pass, plan, batch>>
      /\ \/ /\ device.how = "Clone" /\ CopyTo(m, a.source)
            /\ pc' = "held" /\ UNCHANGED <<job, report>>
         \/ /\ device.how = "Link" /\ name[a.source] # None
            /\ temp' = [temp EXCEPT ![first] = name[a.source]]
            /\ file' = [file EXCEPT ![name[a.source]].mtime = Max({@, m.stamp.mtime})]
            /\ UNCHANGED <<name, left>>
            /\ pc' = "rename" /\ UNCHANGED <<job, report>>
         \/ GiveUp /\ UNCHANGED fsVars
  BY <1>0 DEF Copy, outside
<1>2. job # None /\ pass = "dedupe" /\ batch = {} /\ Staged = {}
  BY <1>1 DEF PcInv, Staged
<1>3. /\ m \in scan /\ m \in MemberType /\ m.paths \in SUBSET Path /\ m.paths # {}
      /\ m.stamp.mtime < clock /\ m.stamp.mtime \in Nat /\ first \in m.paths /\ first \in Path
      /\ job.todo = m.paths /\ a.source \in Path
  <2>1. a.source \in Path
    BY <1>0, <1>2, SourceFacts
  <2>2. job.todo = m.paths
    BY <1>0, <1>1, <1>2 DEF SwapInv
  <2> QED BY <1>0, <1>2, <2>1, <2>2, JobFacts, MemberFacts
<1>4. NextPath = first
  BY <1>3 DEF NextPath
<1>5. \A p \in Path : UnitOf[p] \in locked => temp[p] = None
  BY <1>1, <1>2 DEF TempInv
<1>6. CASE /\ device.how = "Clone" /\ CopyTo(m, a.source)
           /\ pc' = "held" /\ UNCHANGED <<job, report>>
  <2>1. /\ name' = name /\ left' = left
        /\ temp' \in [Path -> Ino \cup {None}]
        /\ \A q \in Path : q # first => temp'[q] = temp[q]
        /\ file' \in [Ino -> FileType \cup {None}]
        /\ \A i \in Ino : file'[i] # None => file'[i].mtime <= clock
        /\ LiveInv'
        /\ Private(first)'
    BY <1>3, <1>6, CopyHolds
  <2>2. TypeOK'
    BY <1>1, <1>6, <2>1 DEF TypeOK
  <2>3. PcInv'
    BY <1>1, <1>2, <1>6 DEF PcInv, Staged
  <2>4. ScanInv'
    BY <1>1, <1>6 DEF ScanInv, Acting
  <2>5. SwapInv'
    BY <1>1, <1>6 DEF SwapInv
  <2>6. TempInv'
    <3>1. Staged' = {}
      BY <1>1, <1>2 DEF Staged
    <3>2. Private(Min(job.action.member.paths))'
      BY <1>0, <1>6, <2>1 DEF Private
    <3>3. \A p \in Path : UnitOf[p] \in locked' /\ temp'[p] # None => p = Min(job'.action.member.paths)
      BY <1>0, <1>1, <1>5, <1>6, <2>1
    <3> QED BY <1>6, <3>1, <3>2, <3>3 DEF TempInv
  <2> QED BY <2>1, <2>2, <2>3, <2>4, <2>5, <2>6
<1>7. CASE /\ device.how = "Link" /\ name[a.source] # None
           /\ temp' = [temp EXCEPT ![first] = name[a.source]]
           /\ file' = [file EXCEPT ![name[a.source]].mtime = Max({@, m.stamp.mtime})]
           /\ UNCHANGED <<name, left>>
           /\ pc' = "rename" /\ UNCHANGED <<job, report>>
  <2>1. /\ file' \in [Ino -> FileType \cup {None}]
        /\ \A i \in Ino : file'[i] # None => file'[i].mtime <= clock
        /\ \A i \in Ino : file[i] = None <=> file'[i] = None
        /\ name[a.source] \in Ino /\ file[name[a.source]] # None
    BY <1>3, <1>7, LinkedEffect
  <2>2. temp'[first] = name[a.source] /\ \A q \in Path : q # first => temp'[q] = temp[q]
    BY <1>3, <1>7 DEF TypeOK
  <2>3. TypeOK'
    <3>1. temp' \in [Path -> Ino \cup {None}]
      BY <1>3, <1>7, <2>1 DEF TypeOK
    <3>2. name' = name /\ left' = left /\ job' = job /\ report' = report /\ pc' = "rename"
      BY <1>7
    <3>3. /\ UNCHANGED <<device, clock, builds, written, crashes, disk>>
          /\ UNCHANGED <<locked, scan, index, pass, plan, batch>>
      BY <1>1
    <3> HIDE DEF m
    <3> QED BY <2>1, <3>1, <3>2, <3>3 DEF TypeOK
  <2>4. PcInv'
    BY <1>1, <1>2, <1>7 DEF PcInv, Staged
  <2>5. ScanInv'
    BY <1>1, <1>7 DEF ScanInv, Acting
  <2>6. SwapInv'
    BY <1>0, <1>1, <1>3, <1>7 DEF SwapInv
  <2>7. LiveInv'
    <3>1. name' = name
      BY <1>7
    <3>2. name \in [Path -> Ino \cup {None}] /\ temp \in [Path -> Ino \cup {None}]
      BY DEF TypeOK
    <3> HIDE DEF m
    <3> QED BY <1>3, <2>1, <2>2, <3>1, <3>2 DEF LiveInv
  <2>8. TempInv'
    <3>1. Staged' = {} /\ NextPath' = first
      BY <1>1, <1>2, <1>4, <1>7 DEF Staged, NextPath
    <3>2. ~CopyAtHand'
      BY <1>1, <1>2, <1>7 DEF CopyAtHand
    <3>3. \A p \in Path : UnitOf[p] \in locked' /\ temp'[p] # None => p = first
      BY <1>1, <1>5, <2>2
    <3>4. temp'[first] # None
      BY <1>7, <2>2
    <3> QED BY <1>7, <3>1, <3>2, <3>3, <3>4 DEF TempInv
  <2> QED BY <2>3, <2>4, <2>5, <2>6, <2>7, <2>8
<1>8. CASE GiveUp /\ UNCHANGED fsVars
  BY <1>1, <1>2, <1>8, GiveUpKeeps
<1> QED BY <1>1, <1>6, <1>7, <1>8

\* A group given up with the temp file it had.
LEMMA DropGiveUpKeeps ==
  ASSUME IInv, pc \in {"held", "rename"}, DropTemp(job.action.member, NextPath), Turn,
         UNCHANGED <<device, clock, builds, written, crashes, disk>>,
         UNCHANGED <<locked, scan, index, pass, plan, batch>>
  PROVE  IInv'
<1> USE DEF IInv
<1>0. PICK p : p = NextPath
  OBVIOUS
<1>1. job # None /\ job.todo # {}
  BY MemberFacts, JobFacts DEF PcInv, SwapInv
<1>2. /\ job' = None
      /\ pc' = (IF pass = "compress" THEN "finish" ELSE "act")
  BY DEF Turn
<1>3. p \in Path /\ p \in job.action.member.paths /\ job.action.member \in MemberType
  BY <1>0, <1>1, JobFacts, MemberFacts
<1>4. DropTemp(job.action.member, p) /\ temp[p] \in Ino
  <2>1. pc = "held" => p = Min(job.action.member.paths)
    BY <1>0, <1>1 DEF SwapInv, NextPath
  <2>2. temp[p] # None
    BY <1>0, <2>1 DEF TempInv, CopyAtHand, Private
  <2> QED BY <1>0, <1>3, <2>2 DEF TypeOK
<1>5. /\ name' = name /\ temp' = [temp EXCEPT ![p] = None]
      /\ temp' \in [Path -> Ino \cup {None}] /\ left' \in [Path -> SUBSET Ino]
      /\ file' \in [Ino -> FileType \cup {None}]
      /\ \A i \in Ino : file'[i] # None => file'[i].mtime <= clock
      /\ LiveInv' /\ report' \in ReportType
      /\ \A q \in Path : Private(q) /\ q # p => Private(q)'
  BY <1>3, <1>4, DropHolds
<1>6. Acting' \subseteq Acting /\ Staged' = Staged
  BY <1>2 DEF Acting, Staged
<1>8. TypeOK'
  BY <1>2, <1>5 DEF TypeOK
<1>9. PcInv'
  BY <1>2, <1>6 DEF PcInv, TypeOK
<1>10. ScanInv'
  BY <1>6 DEF ScanInv
<1>11. SwapInv'
  BY <1>2 DEF SwapInv
<1>12. \A n \in Staged' : Private(Min(n.paths))'
  BY <1>1, <1>3, <1>5, <1>6, JobAside
<1>13. \A q \in Path : UnitOf[q] \in locked' /\ temp'[q] # None => \E n \in Staged' : q = Min(n.paths)
  <2>1. temp'[p] = None /\ \A q \in Path : q # p => temp'[q] = temp[q]
    BY <1>3, <1>5 DEF TypeOK
  <2>2. pc = "held" => p = Min(job.action.member.paths)
    BY <1>0, <1>1 DEF SwapInv, NextPath
  <2>3. \A q \in Path : UnitOf[q] \in locked /\ temp[q] # None => q = p \/ \E n \in Staged : q = Min(n.paths)
    BY <1>0, <2>2 DEF TempInv
  <2> QED BY <1>6, <2>1, <2>3
<1>14. TempInv'
  BY <1>2, <1>12, <1>13 DEF TempInv, CopyAtHand
<1> QED BY <1>5, <1>8, <1>9, <1>10, <1>11, <1>14

LEMMA HeldStillKeeps == ASSUME IInv, HeldStill PROVE IInv'
<1> USE DEF IInv
<1>1. /\ pc = "held"
      /\ UNCHANGED <<device, clock, builds, written, crashes, disk>>
      /\ UNCHANGED <<locked, scan, index, pass, plan, batch>>
      /\ \/ pc' = "rename" /\ UNCHANGED <<job, report>> /\ UNCHANGED fsVars
         \/ DropTemp(job.action.member, Min(job.action.member.paths)) /\ Turn
  BY DEF HeldStill, outside, fsVars
<1>2. job # None /\ job.todo = job.action.member.paths /\ NextPath = Min(job.action.member.paths)
  BY <1>1 DEF PcInv, SwapInv, NextPath
<1>3. job.todo # {}
  BY <1>2, JobFacts, MemberFacts
<1>4. CASE pc' = "rename" /\ UNCHANGED <<job, report>> /\ UNCHANGED fsVars
  <2>1. TypeOK'
    BY <1>1, <1>4 DEF TypeOK, fsVars
  <2>2. PcInv'
    BY <1>1, <1>4 DEF PcInv, Staged
  <2>3. ScanInv'
    BY <1>1, <1>4 DEF ScanInv, Acting
  <2>4. SwapInv'
    BY <1>1, <1>2, <1>3, <1>4 DEF SwapInv
  <2>5. TempInv'
    <3>1. Staged' = Staged /\ NextPath' = NextPath
      BY <1>1, <1>4 DEF Staged, NextPath
    <3>2. Private(Min(job.action.member.paths))
      BY <1>1 DEF TempInv, CopyAtHand
    <3>3. \A n \in Staged : Private(Min(n.paths))
      BY DEF TempInv
    <3>4. /\ \A n \in Staged' : Private(Min(n.paths))'
          /\ Private(Min(job.action.member.paths))'
      BY <1>4, <3>1, <3>2, <3>3 DEF Private, fsVars
    <3>5. temp'[NextPath'] # None
      BY <1>2, <1>4, <3>1, <3>2 DEF Private, fsVars
    <3>6. \A p \in Path : UnitOf[p] \in locked' /\ temp'[p] # None =>
            (\E n \in Staged' : p = Min(n.paths)) \/ p = NextPath'
      BY <1>1, <1>2, <1>4, <3>1 DEF TempInv, fsVars
    <3> QED BY <1>4, <3>4, <3>5, <3>6 DEF TempInv
  <2> QED BY <1>4, <2>1, <2>2, <2>3, <2>4, <2>5, LiveStays
<1>5. CASE DropTemp(job.action.member, Min(job.action.member.paths)) /\ Turn
  BY <1>1, <1>2, <1>5, DropGiveUpKeeps
<1> QED BY <1>1, <1>4, <1>5

\* The next path takes the inode at its temp name.
LEMMA RenameEffect ==
  ASSUME IInv, pc = "rename",
         name' = [name EXCEPT ![NextPath] = temp[NextPath]],
         temp' = [temp EXCEPT ![NextPath] = None],
         file' = Reaped(file)
  PROVE  LET p == NextPath IN
         /\ p \in Path /\ p \in job.todo /\ p \in job.action.member.paths
         /\ temp[p] \in Ino /\ file[temp[p]] \in FileType
         /\ name'[p] = temp[p] /\ temp'[p] = None
         /\ \A q \in Path : q # p => name'[q] = name[q] /\ temp'[q] = temp[q]
         /\ name' \in [Path -> Ino \cup {None}] /\ temp' \in [Path -> Ino \cup {None}]
         /\ file' \in [Ino -> FileType \cup {None}]
         /\ \A i \in Ino : file'[i] \in {file[i], None}
         /\ \A i \in Ino : file'[i] # None => file'[i].mtime <= clock
         /\ \A q \in Path : name'[q] # None => file'[name'[q]] = file[name'[q]]
         /\ \A q \in Path : temp'[q] # None => file'[temp'[q]] = file[temp'[q]]
<1> USE DEF IInv
<1> DEFINE p == NextPath
<1>1. job # None /\ job.todo # {}
  BY DEF PcInv, SwapInv
<1>2. p \in Path /\ p \in job.todo /\ p \in job.action.member.paths
  BY <1>1, JobFacts
<1>3. temp[p] # None
  BY DEF TempInv
<1>4. temp[p] \in Ino /\ file[temp[p]] \in FileType
  BY <1>2, <1>3 DEF LiveInv, TypeOK
<1>5. /\ name'[p] = temp[p] /\ temp'[p] = None
      /\ \A q \in Path : q # p => name'[q] = name[q] /\ temp'[q] = temp[q]
      /\ name' \in [Path -> Ino \cup {None}] /\ temp' \in [Path -> Ino \cup {None}]
  BY <1>2, <1>4 DEF TypeOK
<1> HIDE DEF p
<1>6. /\ file' \in [Ino -> FileType \cup {None}]
      /\ \A i \in Ino : file'[i] \in {file[i], None}
      /\ \A i \in Ino : file'[i] # None => file'[i].mtime <= clock
      /\ \A q \in Path : name'[q] # None => file'[name'[q]] = file[name'[q]]
      /\ \A q \in Path : temp'[q] # None => file'[temp'[q]] = file[temp'[q]]
  BY <1>5, ReapedHolds
<1> QED BY <1>2, <1>4, <1>5, <1>6 DEF p

LEMMA RenameKeeps == ASSUME IInv, Rename PROVE IInv'
<1> USE DEF IInv
<1>0. PICK p : p = NextPath
  OBVIOUS
<1>1. /\ pc = "rename"
      /\ UNCHANGED <<device, clock, builds, written, crashes, disk>>
      /\ UNCHANGED <<locked, scan, index, pass, plan, batch>>
      /\ \/ /\ name' = [name EXCEPT ![NextPath] = temp[NextPath]]
            /\ temp' = [temp EXCEPT ![NextPath] = None]
            /\ left' = left
            /\ file' = Reaped(file)
            /\ job' = [job EXCEPT !.todo = @ \ {NextPath}]
            /\ pc' = (IF job'.todo = {} THEN "tell" ELSE "link")
            /\ report' = report
         \/ DropTemp(job.action.member, NextPath) /\ Turn
  BY DEF Rename, outside
<1>2. CASE DropTemp(job.action.member, NextPath) /\ Turn
  BY <1>1, <1>2, DropGiveUpKeeps
<1>3. CASE /\ name' = [name EXCEPT ![NextPath] = temp[NextPath]]
           /\ temp' = [temp EXCEPT ![NextPath] = None]
           /\ left' = left
           /\ file' = Reaped(file)
           /\ job' = [job EXCEPT !.todo = @ \ {NextPath}]
           /\ pc' = (IF job'.todo = {} THEN "tell" ELSE "link")
           /\ report' = report
  <2>1. /\ p \in Path /\ p \in job.todo /\ p \in job.action.member.paths
        /\ temp[p] \in Ino /\ file[temp[p]] \in FileType
        /\ name'[p] = temp[p] /\ temp'[p] = None
        /\ \A q \in Path : q # p => name'[q] = name[q] /\ temp'[q] = temp[q]
        /\ name' \in [Path -> Ino \cup {None}] /\ temp' \in [Path -> Ino \cup {None}]
        /\ file' \in [Ino -> FileType \cup {None}]
        /\ \A i \in Ino : file'[i] # None => file'[i].mtime <= clock
        /\ \A q \in Path : name'[q] # None => file'[name'[q]] = file[name'[q]]
        /\ \A q \in Path : temp'[q] # None => file'[temp'[q]] = file[temp'[q]]
    BY <1>0, <1>1, <1>3, RenameEffect
  <2>2. job # None /\ job \in JobType /\ job.action.member \notin batch
    BY <1>1, JobFacts DEF PcInv
  <2>3. /\ job' \in JobType /\ job' # None
        /\ job'.action = job.action /\ job'.todo = job.todo \ {p}
    <3>1. \A j \in JobType : LET k == [j EXCEPT !.todo = @ \ {p}] IN
            k \in JobType /\ k.action = j.action /\ k.todo = j.todo \ {p}
      BY DEF JobType
    <3>2. job' = [job EXCEPT !.todo = @ \ {p}]
      BY <1>0, <1>3
    <3>3. job' \in JobType /\ job'.action = job.action /\ job'.todo = job.todo \ {p}
      BY <2>2, <3>1, <3>2
    <3> QED BY <3>3, NoneIsNone
  <2>4. pc' \in {"tell", "link"} /\ (pc' = "tell" <=> job'.todo = {})
    BY <1>3
  <2>5. TypeOK'
    BY <1>1, <1>3, <2>1, <2>3, <2>4 DEF TypeOK
  <2>6. Staged' = Staged
    BY <1>1 DEF Staged
  <2>7. PcInv'
    BY <1>1, <2>2, <2>3, <2>4, <2>6 DEF PcInv
  <2>8. ScanInv'
    <3>1. Acting' = Acting
      BY <1>1, <2>2, <2>3 DEF Acting
    <3> QED BY <1>1, <3>1 DEF ScanInv
  <2>9. SwapInv'
    <3>1. p = Min(job.todo) /\ (Min(job.action.member.paths) \in job.todo => job.todo = job.action.member.paths)
      BY <1>0, <1>1, <2>2 DEF SwapInv, NextPath
    <3>2. Min(job.action.member.paths) \notin job'.todo
      BY <2>3, <3>1
    <3>3. job'.todo \subseteq job'.action.member.paths
      BY <2>2, <2>3 DEF SwapInv
    <3> QED BY <1>1, <2>2, <2>3, <2>4, <3>2, <3>3 DEF SwapInv
  <2>10. LiveInv'
    <3>1. \A q \in Path : name'[q] # None => file[name'[q]] # None
      BY <2>1, NoneIsNone DEF LiveInv
    <3>2. \A q \in Path : temp'[q] # None => file[temp'[q]] # None
      BY <2>1 DEF LiveInv
    <3> QED BY <2>1, <3>1, <3>2 DEF LiveInv
  <2>11. TempInv'
    <3>1. \A n \in Staged : Min(n.paths) \in Path /\ Min(n.paths) # p /\ Private(Min(n.paths))
      BY <2>1, <2>2, JobAside
    <3>2. \A q \in Path : q # p /\ Private(q) => Private(q)'
      BY <2>1 DEF Private
    <3>3. \A n \in Staged' : Private(Min(n.paths))'
      BY <2>6, <3>1, <3>2
    <3>4. \A q \in Path : UnitOf[q] \in locked /\ temp[q] # None => q = p \/ \E n \in Staged : q = Min(n.paths)
      BY <1>0, <1>1 DEF TempInv
    <3>5. \A q \in Path : UnitOf[q] \in locked' /\ temp'[q] # None => \E n \in Staged' : q = Min(n.paths)
      BY <1>1, <2>1, <2>6, <3>4
    <3> QED BY <2>4, <3>3, <3>5 DEF TempInv, CopyAtHand
  <2> QED BY <2>5, <2>7, <2>8, <2>9, <2>10, <2>11
<1> QED BY <1>1, <1>2, <1>3

LEMMA LinkRestKeeps == ASSUME IInv, LinkRest PROVE IInv'
<1> USE DEF IInv
<1>0. PICK p, first : p = NextPath /\ first = Min(job.action.member.paths)
  OBVIOUS
<1>1. /\ pc = "link"
      /\ UNCHANGED <<device, clock, builds, written, crashes, disk>>
      /\ UNCHANGED <<locked, scan, index, pass, plan, batch>>
      /\ \/ /\ name[first] # None
            /\ temp' = [temp EXCEPT ![p] = name[first]]
            /\ pc' = "rename"
            /\ UNCHANGED <<name, left, file, job, report>>
         \/ GiveUp /\ UNCHANGED fsVars
  BY <1>0 DEF LinkRest, outside
<1>2. job # None
  BY <1>1 DEF PcInv
<1>3. CASE GiveUp /\ UNCHANGED fsVars
  BY <1>1, <1>2, <1>3, GiveUpKeeps
<1>4. CASE /\ name[first] # None
           /\ temp' = [temp EXCEPT ![p] = name[first]]
           /\ pc' = "rename"
           /\ UNCHANGED <<name, left, file, job, report>>
  <2>1. job.todo # {} /\ first \notin job.todo
    BY <1>0, <1>1, <1>2 DEF SwapInv
  <2>2. p \in Path /\ p \in job.todo /\ first \in Path /\ p \in job.action.member.paths
        /\ first \in job.action.member.paths
    BY <1>0, <1>2, <2>1, JobFacts, MemberFacts
  <2>3. name[first] \in Ino /\ file[name[first]] # None
    BY <1>4, <2>2 DEF LiveInv, TypeOK
  <2>4. temp'[p] = name[first] /\ \A q \in Path : q # p => temp'[q] = temp[q]
    BY <1>4, <2>2 DEF TypeOK
  <2>5. temp' \in [Path -> Ino \cup {None}]
    BY <1>4, <2>2, <2>3 DEF TypeOK
  <2>6. TypeOK'
    BY <1>1, <1>4, <2>5 DEF TypeOK
  <2>7. Staged' = Staged
    BY <1>1 DEF Staged
  <2>8. PcInv'
    BY <1>1, <1>4, <2>7 DEF PcInv
  <2>9. ScanInv'
    BY <1>1, <1>4 DEF ScanInv, Acting
  <2>10. SwapInv'
    BY <1>0, <1>1, <1>2, <1>4, <2>1 DEF SwapInv
  <2>11. LiveInv'
    BY <1>4, <2>3, <2>4 DEF LiveInv
  <2>12. TempInv'
    <3>1. NextPath' = p /\ Min(job'.action.member.paths) = first
      BY <1>0, <1>4 DEF NextPath
    <3>2. \A n \in Staged : Min(n.paths) \in Path /\ Min(n.paths) # p /\ Private(Min(n.paths))
      BY <1>2, <2>2, JobAside
    <3>3. \A q \in Path : q # p /\ Private(q) => Private(q)'
      <4> SUFFICES ASSUME NEW q \in Path, q # p, Private(q)
                   PROVE  Private(q)'
        OBVIOUS
      <4>1. temp'[q] = temp[q] /\ temp[q] # name[first]
        BY <2>2, <2>4 DEF Private
      <4> QED BY <1>4, <2>4, <4>1 DEF Private
    <3>4. \A n \in Staged' : Private(Min(n.paths))'
      BY <2>7, <3>2, <3>3
    <3>5. \A q \in Path : UnitOf[q] \in locked /\ temp[q] # None => \E n \in Staged : q = Min(n.paths)
      BY <1>1 DEF TempInv
    <3>6. \A q \in Path : UnitOf[q] \in locked' /\ temp'[q] # None =>
            (\E n \in Staged' : q = Min(n.paths)) \/ q = NextPath'
      BY <1>1, <2>4, <2>7, <3>1, <3>5
    <3>7. temp'[NextPath'] # None
      BY <1>4, <2>4, <3>1
    <3>8. ~CopyAtHand'
      <4>1. job'.todo # job'.action.member.paths
        BY <1>4, <2>1, <2>2
      <4> QED BY <1>4, <4>1 DEF CopyAtHand
    <3> QED BY <1>4, <3>4, <3>6, <3>7, <3>8 DEF TempInv
  <2> QED BY <2>6, <2>8, <2>9, <2>10, <2>11, <2>12
<1> QED BY <1>1, <1>3, <1>4

\* A build moves names and files; the run's own state it does not touch, nor its
\* temp files.
LEMMA BuildKeepsRun ==
  ASSUME IInv,
         name' \in [Path -> Ino \cup {None}], temp' = temp, left' = left,
         file' \in [Ino -> FileType \cup {None}],
         \A i \in Ino : file'[i] # None => file'[i].mtime <= clock,
         LiveInv',
         \A q, r \in Path : temp[r] # None /\ name'[q] = temp[r] => \E s \in Path : name[s] = temp[r],
         builds' \in 0 .. MaxBuilds, written' \in [Path -> SUBSET Data],
         UNCHANGED <<device, clock, crashes, disk>>,
         UNCHANGED <<pc, locked, scan, index, pass, plan, batch, job, report>>
  PROVE  IInv'
<1> USE DEF IInv
<1>1. TypeOK'
  BY DEF TypeOK
<1>2. Acting' = Acting /\ Staged' = Staged /\ Unstaged' = Unstaged
  BY DEF Acting, Staged, Unstaged
<1>3. PcInv'
  BY <1>2 DEF PcInv
<1>4. ScanInv'
  BY <1>2 DEF ScanInv
<1>5. SwapInv'
  BY DEF SwapInv
<1>6. TempInv'
  <2>1. \A r \in Path : Private(r) => Private(r)'
    BY DEF Private
  <2>2. NextPath' = NextPath /\ CopyAtHand' = CopyAtHand
    BY DEF NextPath, CopyAtHand
  <2>3. \A n \in Staged' : Private(Min(n.paths))'
    <3>1. \A n \in Staged : Private(Min(n.paths)) /\ Min(n.paths) \in Path
      BY BatchFacts, MemberFacts DEF TempInv
    <3> QED BY <1>2, <2>1, <3>1
  <2>4. CopyAtHand' => Private(Min(job.action.member.paths))'
    <3> SUFFICES ASSUME CopyAtHand PROVE Private(Min(job.action.member.paths))'
      BY <2>2
    <3>1. PICK r : r = Min(job.action.member.paths)
      OBVIOUS
    <3>2. job # None
      BY DEF CopyAtHand, PcInv
    <3>3. r \in Path
      BY <3>1, <3>2, JobFacts, MemberFacts
    <3>4. Private(r)
      BY <3>1 DEF TempInv
    <3>5. Private(r)'
      BY <2>1, <3>3, <3>4
    <3> QED BY <3>1, <3>5 DEF Private
  <2>5. /\ pc = "rename" => temp[NextPath] # None
        /\ pc \notin {"idle", "sweep", "save"} =>
             \A p \in Path : UnitOf[p] \in locked /\ temp[p] # None =>
               \/ \E m \in Staged : p = Min(m.paths)
               \/ pc = "held" /\ p = Min(job.action.member.paths)
               \/ pc = "rename" /\ p = NextPath
    BY DEF TempInv
  <2> QED BY <1>2, <2>2, <2>3, <2>4, <2>5 DEF TempInv
<1> QED BY <1>1, <1>3, <1>4, <1>5, <1>6

LEMMA BuildCounts ==
  ASSUME IInv, NEW p \in Path, MayBuild(p)
  PROVE  builds' \in 0 .. MaxBuilds
BY EngineAssumption DEF MayBuild, IInv, TypeOK

LEMMA WroteHolds ==
  ASSUME IInv, NEW S, NEW d \in Data, Wrote(S, d)
  PROVE  written' \in [Path -> SUBSET Data]
BY DEF Wrote, IInv, TypeOK

LEMMA CreateEffect ==
  ASSUME IInv, NEW p \in Path, NEW d \in Data, BuildCreate(p, d)
  PROVE  \E i \in NewIno :
           /\ i \in Ino /\ file[i] = None
           /\ name'[p] = i /\ \A q \in Path : q # p => name'[q] = name[q]
           /\ temp' = temp /\ left' = left
           /\ name' \in [Path -> Ino \cup {None}]
           /\ file' \in [Ino -> FileType \cup {None}]
           /\ file'[i] = New(d, clock, p) /\ New(d, clock, p) \in FileType
           /\ \A j \in Ino : j # i => file'[j] \in {file[j], None}
           /\ \A q \in Path : name[q] # None => name[q] # i
           /\ \A q \in Path : q # p /\ name[q] # None => file'[name[q]] = file[name[q]]
           /\ \A q \in Path : temp[q] # None => temp[q] # i /\ file'[temp[q]] = file[temp[q]]
<1> USE DEF IInv
<1>1. PICK i \in NewIno : /\ name' = [name EXCEPT ![p] = i] /\ temp' = temp /\ left' = left
                          /\ file' = Reaped([file EXCEPT ![i] = New(d, clock, p)])
  BY DEF BuildCreate
<1>2. i \in Ino /\ file[i] = None /\ i # None
  BY <1>1, NewInoIsFree, NoneIsNone
<1>3. New(d, clock, p) \in FileType
  BY EngineAssumption DEF New, FileType, TypeOK
<1> DEFINE f == [file EXCEPT ![i] = New(d, clock, p)]
<1>4. f \in [Ino -> FileType \cup {None}]
  BY <1>2, <1>3 DEF TypeOK
<1>5. f[i] = New(d, clock, p) /\ \A j \in Ino : j # i => f[j] = file[j]
  BY <1>2 DEF TypeOK
<1>6. /\ name' \in [Path -> Ino \cup {None}] /\ temp' \in [Path -> Ino \cup {None}]
      /\ name'[p] = i /\ \A q \in Path : q # p => name'[q] = name[q]
  BY <1>1, <1>2 DEF TypeOK
<1>7. file' = Reaped(f)
  BY <1>1
<1> HIDE DEF f
<1>8. /\ file' \in [Ino -> FileType \cup {None}]
      /\ \A j \in Ino : file'[j] \in {f[j], None}
      /\ \A q \in Path : name'[q] # None => name'[q] \in Ino /\ file'[name'[q]] = f[name'[q]]
      /\ \A q \in Path : temp'[q] # None => temp'[q] \in Ino /\ file'[temp'[q]] = f[temp'[q]]
  BY <1>4, <1>6, <1>7, ReapKeeps
<1>9. /\ \A q \in Path : name[q] # None => name[q] # i
      /\ \A q \in Path : temp[q] # None => temp[q] # i
  BY <1>2 DEF LiveInv
<1>10. file'[i] = New(d, clock, p)
  BY <1>2, <1>5, <1>6, <1>8
<1>11. \A j \in Ino : j # i => file'[j] \in {file[j], None}
  BY <1>5, <1>8
<1>12. \A q \in Path : q # p /\ name[q] # None => file'[name[q]] = file[name[q]]
  BY <1>5, <1>6, <1>8, <1>9
<1>13. \A q \in Path : temp[q] # None => temp[q] # i /\ file'[temp[q]] = file[temp[q]]
  BY <1>1, <1>5, <1>8, <1>9
<1>14. temp' = temp /\ left' = left /\ name' \in [Path -> Ino \cup {None}]
  BY <1>1, <1>6
<1> HIDE <1>1
<1> QED BY <1>1, <1>2, <1>3, <1>6, <1>8, <1>9, <1>10, <1>11, <1>12, <1>13, <1>14

LEMMA BuildCreateKeeps ==
  ASSUME IInv, NEW p \in Path, NEW d \in Data, BuildCreate(p, d)
  PROVE  IInv'
<1> USE DEF IInv
<1>1. PICK i \in NewIno :
           /\ i \in Ino /\ file[i] = None
           /\ name'[p] = i /\ \A q \in Path : q # p => name'[q] = name[q]
           /\ temp' = temp /\ left' = left
           /\ name' \in [Path -> Ino \cup {None}]
           /\ file' \in [Ino -> FileType \cup {None}]
           /\ file'[i] = New(d, clock, p) /\ New(d, clock, p) \in FileType
           /\ \A j \in Ino : j # i => file'[j] \in {file[j], None}
           /\ \A q \in Path : name[q] # None => name[q] # i
           /\ \A q \in Path : q # p /\ name[q] # None => file'[name[q]] = file[name[q]]
           /\ \A q \in Path : temp[q] # None => temp[q] # i /\ file'[temp[q]] = file[temp[q]]
  BY CreateEffect
<1>2. /\ MayBuild(p) /\ Wrote(Aliases(p), d)
      /\ UNCHANGED <<device, clock, crashes, disk>>
      /\ UNCHANGED <<pc, locked, scan, index, pass, plan, batch, job, report>>
  BY DEF BuildCreate, runVars
<1>3. file'[i].mtime = clock /\ file'[i] # None /\ clock \in Nat
  <2>1. New(d, clock, p) # None /\ New(d, clock, p).mtime = clock
    BY <1>1, NoneIsNone DEF New
  <2>2. clock \in Nat
    BY DEF TypeOK
  <2> QED BY <1>1, <2>1, <2>2
<1>4. \A j \in Ino : file'[j] # None => file'[j].mtime <= clock
  BY <1>1, <1>3 DEF TypeOK
<1>5. LiveInv'
  BY <1>1, <1>3 DEF LiveInv
<1>6. \A q, r \in Path : temp[r] # None /\ name'[q] = temp[r] => \E s \in Path : name[s] = temp[r]
  BY <1>1
<1> QED BY <1>1, <1>2, <1>4, <1>5, <1>6, BuildCounts, WroteHolds, BuildKeepsRun

LEMMA RewriteEffect ==
  ASSUME IInv, NEW p \in Path, NEW d \in Data, BuildRewrite(p, d)
  PROVE  /\ name' = name /\ temp' = temp /\ left' = left
         /\ name[p] \in Ino /\ file[name[p]] \in FileType
         /\ file' \in [Ino -> FileType \cup {None}]
         /\ file'[name[p]] \in FileType
         /\ file'[name[p]].data = d /\ file'[name[p]].mtime = clock
         /\ file'[name[p]].mode = file[name[p]].mode
         /\ \A j \in Ino : j # name[p] => file'[j] = file[j]
<1> USE DEF IInv
<1>1. /\ name' = name /\ temp' = temp /\ left' = left /\ name[p] # None
      /\ file' = [file EXCEPT ![name[p]] = [@ EXCEPT !.data = d, !.mtime = clock, !.compressed = FALSE]]
  BY DEF BuildRewrite
<1>2. PICK i : i = name[p]
  OBVIOUS
<1>3. i \in Ino /\ file[i] \in FileType
  BY <1>1, <1>2 DEF LiveInv, TypeOK
<1> DEFINE g == [file[i] EXCEPT !.data = d, !.mtime = clock, !.compressed = FALSE]
<1>4. g \in FileType /\ g.data = d /\ g.mtime = clock /\ g.mode = file[i].mode
  <2>1. clock \in Nat
    BY DEF TypeOK
  <2> QED BY <1>3, <2>1 DEF FileType
<1>5. file' = [file EXCEPT ![i] = g]
  BY <1>1, <1>2
<1> HIDE DEF g
<1>6. /\ file' \in [Ino -> FileType \cup {None}]
      /\ file'[i] = g /\ \A j \in Ino : j # i => file'[j] = file[j]
  BY <1>3, <1>4, <1>5 DEF TypeOK
<1> QED BY <1>1, <1>2, <1>3, <1>4, <1>6

LEMMA BuildRewriteKeeps ==
  ASSUME IInv, NEW p \in Path, NEW d \in Data, BuildRewrite(p, d)
  PROVE  IInv'
<1> USE DEF IInv
<1>1. /\ name' = name /\ temp' = temp /\ left' = left
      /\ name[p] \in Ino /\ file[name[p]] \in FileType
      /\ file' \in [Ino -> FileType \cup {None}]
      /\ file'[name[p]] \in FileType
      /\ file'[name[p]].mtime = clock
      /\ \A j \in Ino : j # name[p] => file'[j] = file[j]
  BY RewriteEffect
<1>2. /\ MayBuild(p) /\ Wrote(UNION {Aliases(q) : q \in Links(name, name[p])}, d)
      /\ UNCHANGED <<device, clock, crashes, disk>>
      /\ UNCHANGED <<pc, locked, scan, index, pass, plan, batch, job, report>>
  BY DEF BuildRewrite, runVars
<1>3. clock \in Nat /\ name \in [Path -> Ino \cup {None}]
  BY DEF TypeOK
<1>4. \A j \in Ino : file'[j] # None => file'[j].mtime <= clock
  BY <1>1, <1>3 DEF TypeOK
<1>5. LiveInv'
  BY <1>1, NoneIsNone DEF LiveInv, TypeOK
<1>6. \A q, r \in Path : temp[r] # None /\ name'[q] = temp[r] => \E s \in Path : name[s] = temp[r]
  BY <1>1
<1> QED BY <1>1, <1>2, <1>3, <1>4, <1>5, <1>6, BuildCounts, WroteHolds, BuildKeepsRun

\* The other two only move a name.
LEMMA BuildLinkKeeps ==
  ASSUME IInv, NEW p \in Path, NEW q \in Path, BuildLink(p, q)
  PROVE  IInv'
<1> USE DEF IInv
<1>1. /\ name[q] # None /\ name' = [name EXCEPT ![p] = name[q]] /\ temp' = temp /\ left' = left
      /\ file' = Reaped(file) /\ MayBuild(p) /\ Wrote(Aliases(p), Bytes(q))
      /\ UNCHANGED <<device, clock, crashes, disk>>
      /\ UNCHANGED <<pc, locked, scan, index, pass, plan, batch, job, report>>
  BY DEF BuildLink, runVars
<1>2. name[q] \in Ino /\ file[name[q]] \in FileType
  BY <1>1 DEF LiveInv, TypeOK
<1>3. /\ name' \in [Path -> Ino \cup {None}] /\ temp' \in [Path -> Ino \cup {None}]
      /\ name'[p] = name[q] /\ \A r \in Path : r # p => name'[r] = name[r]
  BY <1>1, <1>2 DEF TypeOK
<1>4. /\ file' \in [Ino -> FileType \cup {None}]
      /\ \A i \in Ino : file'[i] # None => file'[i].mtime <= clock
      /\ \A r \in Path : name'[r] # None => file'[name'[r]] = file[name'[r]]
      /\ \A r \in Path : temp'[r] # None => file'[temp'[r]] = file[temp'[r]]
  BY <1>1, <1>3, ReapedHolds
<1>5. LiveInv'
  BY <1>1, <1>2, <1>3, <1>4, NoneIsNone DEF LiveInv
<1>6. Bytes(q) \in Data
  BY <1>1, <1>2 DEF Bytes, FileType
<1>7. \A s, r \in Path : temp[r] # None /\ name'[s] = temp[r] => \E t \in Path : name[t] = temp[r]
  BY <1>3
<1> QED BY <1>1, <1>3, <1>4, <1>5, <1>6, <1>7, BuildCounts, WroteHolds, BuildKeepsRun

LEMMA BuildDeleteKeeps ==
  ASSUME IInv, NEW p \in Path, BuildDelete(p)
  PROVE  IInv'
<1> USE DEF IInv
<1>1. /\ name' = [name EXCEPT ![p] = None] /\ temp' = temp /\ left' = left
      /\ file' = Reaped(file) /\ MayBuild(p) /\ written' = written
      /\ UNCHANGED <<device, clock, crashes, disk>>
      /\ UNCHANGED <<pc, locked, scan, index, pass, plan, batch, job, report>>
  BY DEF BuildDelete, runVars
<1>2. /\ name' \in [Path -> Ino \cup {None}] /\ temp' \in [Path -> Ino \cup {None}]
      /\ name'[p] = None /\ \A r \in Path : r # p => name'[r] = name[r]
  BY <1>1 DEF TypeOK
<1>3. /\ file' \in [Ino -> FileType \cup {None}]
      /\ \A i \in Ino : file'[i] # None => file'[i].mtime <= clock
      /\ \A r \in Path : name'[r] # None => file'[name'[r]] = file[name'[r]]
      /\ \A r \in Path : temp'[r] # None => file'[temp'[r]] = file[temp'[r]]
  BY <1>1, <1>2, ReapedHolds
<1>4. LiveInv'
  BY <1>1, <1>2, <1>3 DEF LiveInv
<1>5. \A s, r \in Path : temp[r] # None /\ name'[s] = temp[r] => \E t \in Path : name[t] = temp[r]
  BY <1>2
<1>6. written' \in [Path -> SUBSET Data]
  BY <1>1 DEF TypeOK
<1> QED BY <1>1, <1>2, <1>3, <1>4, <1>5, <1>6, BuildCounts, BuildKeepsRun

LEMMA IInvHolds == ASSUME IInv, [Next]_vars PROVE IInv'
<1>1. CASE UNCHANGED vars
  BY <1>1 DEF vars, fsVars, outside, runVars, IInv, TypeOK, PcInv, ScanInv, SwapInv, LiveInv, TempInv,
    Acting, Staged, Unstaged, Private, CopyAtHand, NextPath
<1>2. CASE \E units \in SUBSET Unit : Begin(units)
  BY <1>2, BeginKeeps
<1>3. CASE Run
  BY <1>3, SweepKeeps, SweptKeeps, SweepFailsKeeps, PlanKeeps, LetGoKeeps, StageBatchKeeps, StageKeeps, CloneKeeps, BackendKeeps,
    FinishKeeps, BatchDoneKeeps, StartReplaceKeeps, CopyKeeps, HeldStillKeeps, RenameKeeps,
    LinkRestKeeps, TellKeeps, TellFailsKeeps, RewrittenGoneKeeps, EndPassKeeps, ReleaseKeeps,
    SaveKeeps DEF Run
<1>4. CASE Build
  BY <1>4, BuildCreateKeeps, BuildRewriteKeeps, BuildLinkKeeps, BuildDeleteKeeps DEF Build
<1> QED BY <1>1, <1>2, <1>3, <1>4, CrashKeeps, TickKeeps DEF Next

----------------------------------------------------------------------------
(* What holds of every device *)

\* Whatever a device is like, whatever fails, crashes or is built meanwhile: the
\* run knows where it is, what is planned or staged or swapped in is done to groups
\* of its scan, all old enough and apart, and its copies are its own (engine.rs,
\* run_with; compress.rs, plan; dedupe.rs, plan).
THEOREM EngineInductive == Spec => []IInv
<1>1. Init => IInv
  BY InitHolds
<1>2. IInv /\ [Next]_vars => IInv'
  BY IInvHolds
<1> QED BY <1>1, <1>2, PTL DEF Spec

\* The state keeps its shape.
THEOREM EngineTypes == Spec => []TypeOK
<1>1. IInv => TypeOK
  BY DEF IInv
<1> QED BY <1>1, EngineInductive, PTL

\* What a run could not remove it knows of, and what earlier ones left is gone
\* when its first pass begins.
LEMMA LeftInvHolds == ASSUME IInv, LeftInv, [Next]_vars PROVE LeftInv'
<1> DEFINE Easy == /\ left' = left /\ pc \notin {"idle", "sweep", "save"}
                   /\ locked' \subseteq locked /\ report.kept \subseteq report'.kept
           Over == pc' \in {"idle", "sweep", "save"}
<1>1. Easy \/ Over => LeftInv'
  BY DEF LeftInv
<1>2. ASSUME NEW m \in MemberType, NEW p \in Path, DropTemp(m, p), locked' = locked,
             pc \notin {"idle", "sweep", "save"}
      PROVE  LeftInv'
  <2>1. CASE left' = left /\ Skip(m)
    <3>1. report'.kept = report.kept
      BY <2>1 DEF Skip, IInv, TypeOK, ReportType
    <3> QED BY <1>2, <2>1, <3>1 DEF LeftInv
  <2>2. CASE /\ left' = [left EXCEPT ![p] = @ \cup {temp[p]}]
             /\ report' = [report EXCEPT !.skipped = @ \cup {m}, !.kept = @ \cup {p}]
    <3>1. report'.kept = report.kept \cup {p}
      BY <2>2 DEF IInv, TypeOK, ReportType
    <3>2. \A q \in Path : q # p => left'[q] = left[q]
      BY <2>2 DEF IInv, TypeOK
    <3> QED BY <1>2, <2>2, <3>1, <3>2 DEF LeftInv
  <2> QED BY <1>2, <2>1, <2>2 DEF DropTemp
<1>3. CASE UNCHANGED vars
  BY <1>3 DEF vars, fsVars, runVars, LeftInv
<1>4. ASSUME NEW units \in SUBSET Unit, Begin(units) PROVE Over
  BY <1>4 DEF Begin
<1>5. CASE Crash
  BY <1>1, <1>5 DEF Crash, Lost
<1>6. CASE Tick
  BY <1>1, <1>6 DEF Tick, runVars
<1>7. CASE Build
  <2>1. left' = left /\ UNCHANGED <<pc, locked, report>>
    BY <1>7 DEF Build, BuildCreate, BuildRewrite, BuildLink, BuildDelete, runVars
  <2> QED BY <2>1 DEF LeftInv
<1>8. ASSUME NEW p \in Path, Sweep(p) PROVE Over
  BY <1>8 DEF Sweep, runVars
<1>9. CASE Swept
  BY <1>9 DEF Swept, NoneStale, LeftInv, fsVars
<1>10. CASE SweepFails \/ TellFails \/ Save \/ Release
  BY <1>1, <1>10 DEF SweepFails, TellFails, Lost, Save, Release
<1>11. CASE Plan \/ LetGo \/ EndPass \/ Tell
  <2>1. report'.kept = report.kept
    BY <1>11 DEF Plan, LetGo, EndPass, Tell, IInv, TypeOK, ReportType
  <2>2. left' = left /\ locked' = locked /\ pc \notin {"idle", "sweep", "save"}
    BY <1>11 DEF Plan, LetGo, EndPass, Tell, fsVars
  <2> QED BY <1>1, <2>1, <2>2
<1>12. CASE StageBatch \/ BatchDone \/ Backend
  <2>1. left' = left /\ locked' = locked /\ report' = report /\ pc \notin {"idle", "sweep", "save"}
    BY <1>12 DEF StageBatch, BatchDone, Backend, fsVars
  <2> QED BY <1>1, <2>1
<1>13. CASE Stage \/ StartReplace \/ RewrittenGone
  <2>1. report'.kept = report.kept
    BY <1>13 DEF Stage, StartReplace, RewrittenGone, GiveUp, Skip, IInv, TypeOK, ReportType
  <2>2. left' = left /\ locked' = locked /\ pc \notin {"idle", "sweep", "save"}
    BY <1>13 DEF Stage, StartReplace, RewrittenGone, fsVars
  <2> QED BY <1>1, <2>1, <2>2
<1>14. CASE Clone
  <2>0. PICK a : a = FirstAction(Unstaged)
    OBVIOUS
  <2> DEFINE m == a.member
             first == Min(m.paths)
  <2>1. /\ pc = "clone" /\ locked' = locked
        /\ \/ left' = left /\ report' = report
           \/ left' = left /\ Skip(m)
           \/ CopyLeft(m, first)
    BY <1>14, <2>0 DEF Clone, CopyTo, fsVars
  <2>2. CASE left' = left /\ report' = report
    BY <1>1, <2>1, <2>2
  <2>3. CASE left' = left /\ Skip(m)
    <3>1. report'.kept = report.kept
      BY <2>3 DEF Skip, IInv, TypeOK, ReportType
    <3> QED BY <1>1, <2>1, <2>3, <3>1
  <2>4. CASE CopyLeft(m, first)
    <3>1. report'.kept = report.kept \cup {first}
      BY <2>4 DEF CopyLeft, IInv, TypeOK, ReportType
    <3>2. \A q \in Path : q # first => left'[q] = left[q]
      BY <2>4 DEF CopyLeft, IInv, TypeOK
    <3> QED BY <2>1, <3>1, <3>2 DEF LeftInv
  <2> QED BY <2>1, <2>2, <2>3, <2>4
<1>15. CASE Finish
  <2>0. PICK m : m = FirstStaged
    OBVIOUS
  <2>1. /\ pc = "finish" /\ batch # {} /\ locked' = locked
        /\ (left' = left /\ report' = report) \/ DropTemp(m, Min(m.paths))
    BY <1>15, <2>0 DEF Finish
  <2>2. m \in MemberType /\ Min(m.paths) \in Path
    BY <2>0, <2>1, FinishFacts
  <2> QED BY <1>1, <1>2, <2>1, <2>2
<1>16. CASE Copy
  <2>1. /\ pc = "copy" /\ locked' = locked /\ left' = left
        /\ report' = report \/ Skip(job.action.member)
    BY <1>16 DEF Copy, CopyTo, GiveUp, fsVars
  <2>2. report'.kept = report.kept
    BY <2>1 DEF Skip, IInv, TypeOK, ReportType
  <2> QED BY <1>1, <2>1, <2>2
<1>17. CASE HeldStill \/ Rename
  <2>1. /\ pc \in {"held", "rename"} /\ locked' = locked
        /\ \/ left' = left /\ report' = report
           \/ DropTemp(job.action.member, Min(job.action.member.paths))
           \/ DropTemp(job.action.member, NextPath)
    BY <1>17 DEF HeldStill, Rename, fsVars
  <2>2. job # None /\ job.todo # {}
    BY <2>1, JobFacts, MemberFacts DEF IInv, PcInv, SwapInv
  <2>3. /\ job.action.member \in MemberType
        /\ Min(job.action.member.paths) \in Path /\ NextPath \in Path
    BY <2>2, JobFacts, MemberFacts DEF IInv
  <2> QED BY <1>1, <1>2, <2>1, <2>3
<1>18. CASE LinkRest
  <2>1. /\ pc = "link" /\ locked' = locked /\ left' = left
        /\ report' = report \/ Skip(job.action.member)
    BY <1>18 DEF LinkRest, GiveUp, fsVars
  <2>2. report'.kept = report.kept
    BY <2>1 DEF Skip, IInv, TypeOK, ReportType
  <2> QED BY <1>1, <2>1, <2>2
<1>19. CASE Run
  BY <1>1, <1>8, <1>9, <1>10, <1>11, <1>12, <1>13, <1>14, <1>15, <1>16, <1>17, <1>18, <1>19 DEF Run
<1> QED BY <1>1, <1>3, <1>4, <1>5, <1>6, <1>7, <1>19 DEF Next

\* What a temp file is left beside, a removal was refused there in this very run, from
\* the end of its sweep on.
THEOREM LeftInductive == Spec => []LeftInv
<1>1. Init => LeftInv
  BY DEF Init, LeftInv
<1>2. IInv /\ LeftInv /\ [Next]_vars => LeftInv'
  BY LeftInvHolds
<1> QED BY <1>1, <1>2, EngineInductive, PTL DEF Spec

\* A run that comes to its end leaves a temp file in its units only where the removal
\* of one was refused it, be it that calls failed, that it was told to let go, or that
\* a crash or a refusal had left some before: those are gone (engine.rs, the sweep of
\* stale temp files, and the removals after a failed step).
THEOREM NoTempStays == Spec => []NoTempsLeft
<1>1. IInv /\ LeftInv => NoTempsLeft
  <2> SUFFICES ASSUME IInv, LeftInv, NEW p \in Path, pc = "release", UnitOf[p] \in locked
               PROVE  temp[p] = None /\ (left[p] # {} => p \in report.kept)
    BY DEF NoTempsLeft
  <2>1. Staged = {}
    BY DEF IInv, PcInv, Staged
  <2> QED BY <2>1 DEF IInv, TempInv, LeftInv
<1> QED BY <1>1, EngineInductive, LeftInductive, PTL

=============================================================================
