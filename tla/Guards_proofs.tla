-------------------------- MODULE Guards_proofs ----------------------------
(***************************************************************************)
(* Compress under a guard other than cargo's own lock, for any dirs, files  *)
(* and batches.                                                            *)
(***************************************************************************)
EXTENDS Guards, FiniteSetTheorems, TLAPS

USE GuardsAssumption

LEMMA Initially == Init => IInv
<1> SUFFICES ASSUME Init PROVE IInv
  OBVIOUS
<1>1. TypeOK
  <2>1. kind \in Kinds /\ mode \in [Dirs -> Modes] /\ want \in [Dirs -> {"ro", "rw"}]
    BY DEF Init, Modes
  <2>2. file \in Locks /\ tool \in Locks /\ ours \in Locks
    BY DEF Init, Locks
  <2> QED
    BY <2>1, <2>2 DEF Init, TypeOK, Modes
<1>2. RunInv /\ GuardInv /\ ModeInv /\ SeenInv /\ CopyInv
  BY DEF Init, RunInv, GuardInv, ModeInv, SeenInv, CopyInv, Coming, InHand, Shared
<1>3. OnlyThoseLeft
  BY DEF Init, OnlyThoseLeft, Astray
<1>4. LiftInv /\ LeftoverInv
  <2>1. IsFiniteSet({}) /\ Cardinality({}) = 0
    BY FS_EmptySet
  <2> QED
    BY <2>1 DEF Init, LiftInv, LeftoverInv
<1> QED
  BY <1>1, <1>2, <1>3, <1>4 DEF IInv

\* There is a number for a new lock file: two of four at most are taken when there is none.
LEMMA OpenedIsNew ==
  ASSUME TypeOK
  PROVE  Opened \in Locks \ {0} /\ (file = 0 => Opened \notin {tool, ours})
<1>1. CASE file = 0
  <2>1. tool \in 0 .. 3 /\ ours \in 0 .. 3
    BY DEF TypeOK, Locks
  <2>2. \E n \in Locks \ {0} : n \notin {file, tool, ours}
    BY <1>1, <2>1 DEF Locks
  <2> QED
    BY <1>1, <2>2 DEF Opened, NewFile
<1>2. CASE file # 0
  BY <1>2 DEF Opened, TypeOK, Locks
<1> QED
  BY <1>1, <1>2

LEMMA TypeStep == TypeOK /\ [Next]_vars => TypeOK'
<1> SUFFICES ASSUME TypeOK, [Next]_vars PROVE TypeOK'
  OBVIOUS
<1> USE DEF cache, lock, run, guard, scan, batch, ghosts
<1>1. ASSUME NEW f \in Files, Begin(f) PROVE TypeOK'
  BY <1>1 DEF Begin, Written, TypeOK, Modes, Locks, In, Fine, Trouble, CopyType
<1>2. ASSUME NEW f \in Files, Append(f) PROVE TypeOK'
  BY <1>2 DEF Append, Written, TypeOK, Modes, Locks, In, Fine, Trouble, CopyType
<1>3. ASSUME NEW f \in Files, Close(f) PROVE TypeOK'
  BY <1>3 DEF Close, TypeOK, Modes, Locks, In, Fine, Trouble, CopyType
<1>4. ASSUME NEW f \in Files, Age(f) PROVE TypeOK'
  BY <1>4 DEF Age, TypeOK, Modes, Locks, In, Fine, Trouble, CopyType
<1>5. ASSUME NEW f \in Files, Trim(f) PROVE TypeOK'
  BY <1>5 DEF Trim, TypeOK, Modes, Locks, In, Fine, Trouble, CopyType
<1>6. ASSUME NEW d \in Dirs, Clean(d) PROVE TypeOK'
  BY <1>6 DEF Clean, TypeOK, Modes, Locks, In, Fine, Trouble, CopyType
<1>7. ASSUME NEW d \in Dirs, Unpack(d) PROVE TypeOK'
  BY <1>7 DEF Unpack, Written, TypeOK, Modes, Locks, In, Fine, Trouble, CopyType
<1>8. ASSUME NEW d \in Dirs, NEW m \in {"ro", "rw"}, Chmod(d, m) PROVE TypeOK'
  BY <1>8 DEF Chmod, TypeOK, Modes, Locks, In, Fine, Trouble, CopyType
<1>9. CASE Scan
  BY <1>9 DEF Scan, Candidates, Units, TypeOK, Modes, Locks, In, Fine, Trouble, CopyType
<1>10. CASE End
  BY <1>10 DEF End, Gone, TypeOK, Modes, Locks, In, Fine, Trouble, CopyType
<1>11. CASE Rename
  BY <1>11 DEF Rename, Drop, Dropped, CopyOf, After, TypeOK, Modes, Locks, In, Fine, Trouble,
               CopyType
<1>12. CASE BatchDone
  BY <1>12 DEF BatchDone, Gone, TypeOK, Modes, Locks, In, Fine, Trouble, CopyType
<1>13. ASSUME NEW t \in stale, Sweep(t) PROVE TypeOK'
  <2>1. refused' \in BOOLEAN /\ late' \in BOOLEAN
    BY <1>13 DEF Sweep, TypeOK
  <2>2. CASE temps' = temps \ {t}
    BY <1>13, <2>1, <2>2 DEF Sweep, Gone, Fine, Trouble, Locks, TypeOK
  <2>3. CASE temps' = temps
    BY <1>13, <2>1, <2>3 DEF Sweep, Gone, Fine, Trouble, Locks, TypeOK
  <2> QED
    BY <1>13, <2>2, <2>3 DEF Sweep
<1>14. ASSUME NEW fs \in SUBSET Files, NextBatch(fs) PROVE TypeOK'
  BY <1>14 DEF NextBatch, ToLift, TypeOK, Modes, Locks, In, Fine, Trouble, CopyType
<1>15. ASSUME NEW fs \in SUBSET Files, Backend(fs) PROVE TypeOK'
  BY <1>15 DEF Backend, After, TypeOK, Modes, Locks, In, Fine, Trouble, CopyType
<1>16. ASSUME NEW f \in Files, Stage(f) PROVE TypeOK'
  BY <1>16 DEF Stage, Copy, TypeOK, Modes, Locks, In, Fine, Trouble, CopyType
<1>17. ASSUME NEW f \in Files, Finish(f) PROVE TypeOK'
  <2>1. late' \in BOOLEAN
    BY <1>17 DEF Finish, TypeOK
  <2>2. CASE pc' = "rename"
    BY <1>17, <2>1, <2>2 DEF Finish, Drop, Dropped, CopyOf, After, Fine, Trouble, TypeOK
  <2>3. CASE pc' # "rename"
    BY <1>17, <2>1, <2>3 DEF Finish, Drop, Dropped, CopyOf, After, Fine, Trouble, TypeOK
  <2> QED
    BY <2>2, <2>3
<1>18. ASSUME NEW d \in Dirs, Lift(d) PROVE TypeOK'
  BY <1>18 DEF Lift, TypeOK, Modes, Locks, In, Fine, Trouble, CopyType
<1>19. ASSUME NEW d \in Dirs, PutBack(d) PROVE TypeOK'
  BY <1>19 DEF PutBack, TypeOK, Modes, Locks, In, Fine, Trouble, CopyType
<1>20. CASE Kill
  BY <1>20 DEF Kill, Gone, TypeOK, Modes, Locks, In, Fine, Trouble, CopyType
<1>21. CASE UNCHANGED vars
  BY <1>21 DEF vars, TypeOK, Modes, Locks, In, Fine, Trouble, CopyType
<1>22. CASE OpenTool
  BY <1>22, OpenedIsNew DEF OpenTool, TypeOK, Modes, Locks, In, Fine, Trouble, CopyType
<1>23. CASE LockTool
  BY <1>23 DEF LockTool, TypeOK, Modes, Locks, In, Fine, Trouble, CopyType
<1>24. CASE CloseTool
  <2>1. tool' \in Locks /\ open' \subseteq Files
    BY <1>24 DEF CloseTool, Locks
  <2>2. inside' \in BOOLEAN
    BY <1>24, Zenon DEF CloseTool
  <2> QED
    BY <1>24, <2>1, <2>2 DEF CloseTool, TypeOK
<1>25. CASE SweepLock
  BY <1>25 DEF SweepLock, TypeOK, Modes, Locks, In, Fine, Trouble, CopyType
<1>26. CASE Look
  BY <1>26 DEF Look, TypeOK, Modes, Locks, In, Fine, Trouble, CopyType
<1>27. CASE OpenLock
  BY <1>27, OpenedIsNew DEF OpenLock, TypeOK, Modes, Locks, In, Fine, Trouble, CopyType
<1>28. CASE TryLock
  BY <1>28 DEF TryLock, Busy, TypeOK, Modes, Locks, In, Fine, Trouble, CopyType
<1>29. ASSUME NEW d \in Dirs, TakeUnit(d) PROVE TypeOK'
  BY <1>29 DEF TakeUnit, Granted, TypeOK, Modes, Locks, In, Fine, Trouble, CopyType
<1>30. CASE CloneAs
  BY <1>30 DEF CloneAs, Copy, TypeOK, CopyType, Fine, Trouble
<1> QED
  BY <1>1, <1>2, <1>3, <1>4, <1>5, <1>6, <1>7, <1>8, <1>9, <1>10, <1>11,
     <1>12, <1>13, <1>14, <1>15, <1>16, <1>17, <1>18, <1>19, <1>20, <1>21,
     <1>22, <1>23, <1>24, <1>25, <1>26, <1>27, <1>28, <1>29, <1>30
  DEF Next, Owner, Step

LEMMA RunStep == TypeOK /\ RunInv /\ [Next]_vars => RunInv'
<1> SUFFICES ASSUME TypeOK /\ RunInv, [Next]_vars PROVE RunInv'
  OBVIOUS
<1> USE DEF cache, lock, run, guard, scan, batch, ghosts
<1>1. ASSUME NEW f \in Files, Begin(f) PROVE RunInv'
  BY <1>1 DEF Begin, Written, TypeOK, RunInv
<1>2. ASSUME NEW f \in Files, Append(f) PROVE RunInv'
  BY <1>2 DEF Append, Written, TypeOK, RunInv
<1>3. ASSUME NEW f \in Files, Close(f) PROVE RunInv'
  BY <1>3 DEF Close, TypeOK, RunInv
<1>4. ASSUME NEW f \in Files, Age(f) PROVE RunInv'
  BY <1>4 DEF Age, TypeOK, RunInv
<1>5. ASSUME NEW f \in Files, Trim(f) PROVE RunInv'
  BY <1>5 DEF Trim, TypeOK, RunInv
<1>6. ASSUME NEW d \in Dirs, Clean(d) PROVE RunInv'
  BY <1>6 DEF Clean, TypeOK, RunInv
<1>7. ASSUME NEW d \in Dirs, Unpack(d) PROVE RunInv'
  BY <1>7 DEF Unpack, Written, TypeOK, RunInv
<1>8. ASSUME NEW d \in Dirs, NEW m \in {"ro", "rw"}, Chmod(d, m) PROVE RunInv'
  BY <1>8 DEF Chmod, TypeOK, RunInv
<1>9. CASE Scan
  BY <1>9 DEF Scan, Candidates, Units, TypeOK, RunInv
<1>10. CASE End
  BY <1>10 DEF End, Gone, TypeOK, RunInv
<1>11. CASE Rename
  BY <1>11 DEF Rename, Drop, Dropped, CopyOf, After, TypeOK, RunInv
<1>12. CASE BatchDone
  BY <1>12 DEF BatchDone, Gone, TypeOK, RunInv
<1>13. ASSUME NEW t \in stale, Sweep(t) PROVE RunInv'
  BY <1>13 DEF Sweep, Gone, TypeOK, RunInv
<1>14. ASSUME NEW fs \in SUBSET Files, NextBatch(fs) PROVE RunInv'
  BY <1>14 DEF NextBatch, ToLift, TypeOK, RunInv
<1>15. ASSUME NEW fs \in SUBSET Files, Backend(fs) PROVE RunInv'
  BY <1>15 DEF Backend, After, TypeOK, RunInv
<1>16. ASSUME NEW f \in Files, Stage(f) PROVE RunInv'
  BY <1>16 DEF Stage, Copy, TypeOK, RunInv
<1>17. ASSUME NEW f \in Files, Finish(f) PROVE RunInv'
  BY <1>17 DEF Finish, Drop, Dropped, CopyOf, After, Steady, Unchanged, TypeOK, RunInv
<1>18. ASSUME NEW d \in Dirs, Lift(d) PROVE RunInv'
  BY <1>18 DEF Lift, TypeOK, RunInv
<1>19. ASSUME NEW d \in Dirs, PutBack(d) PROVE RunInv'
  BY <1>19 DEF PutBack, TypeOK, RunInv
<1>20. CASE Kill
  BY <1>20 DEF Kill, Gone, TypeOK, RunInv
<1>21. CASE UNCHANGED vars
  BY <1>21 DEF vars, TypeOK, RunInv
<1>22. CASE OpenTool
  BY <1>22 DEF OpenTool, TypeOK, RunInv
<1>23. CASE LockTool
  BY <1>23 DEF LockTool, TypeOK, RunInv
<1>24. CASE CloseTool
  BY <1>24 DEF CloseTool, TypeOK, RunInv
<1>25. CASE SweepLock
  BY <1>25 DEF SweepLock, TypeOK, RunInv
<1>26. CASE Look
  BY <1>26 DEF Look, TypeOK, RunInv
<1>27. CASE OpenLock
  BY <1>27 DEF OpenLock, TypeOK, RunInv
<1>28. CASE TryLock
  BY <1>28 DEF TryLock, Busy, TypeOK, RunInv
<1>29. ASSUME NEW d \in Dirs, TakeUnit(d) PROVE RunInv'
  BY <1>29 DEF TakeUnit, Granted, TypeOK, RunInv
<1>30. CASE CloneAs
  BY <1>30 DEF CloneAs, Copy, TypeOK, RunInv
<1> QED
  BY <1>1, <1>2, <1>3, <1>4, <1>5, <1>6, <1>7, <1>8, <1>9, <1>10, <1>11,
     <1>12, <1>13, <1>14, <1>15, <1>16, <1>17, <1>18, <1>19, <1>20, <1>21,
     <1>22, <1>23, <1>24, <1>25, <1>26, <1>27, <1>28, <1>29, <1>30
  DEF Next, Owner, Step

LEMMA ModeStep == TypeOK /\ RunInv /\ ModeInv /\ [Next]_vars => ModeInv'
<1> SUFFICES ASSUME TypeOK /\ RunInv /\ ModeInv, [Next]_vars PROVE ModeInv'
  OBVIOUS
<1> USE DEF cache, lock, run, guard, scan, batch, ghosts
<1>1. ASSUME NEW f \in Files, Begin(f) PROVE ModeInv'
  BY <1>1 DEF Begin, Written, TypeOK, ModeInv, RunInv
<1>2. ASSUME NEW f \in Files, Append(f) PROVE ModeInv'
  BY <1>2 DEF Append, Written, TypeOK, ModeInv, RunInv
<1>3. ASSUME NEW f \in Files, Close(f) PROVE ModeInv'
  BY <1>3 DEF Close, TypeOK, ModeInv, RunInv
<1>4. ASSUME NEW f \in Files, Age(f) PROVE ModeInv'
  BY <1>4 DEF Age, TypeOK, ModeInv, RunInv
<1>5. ASSUME NEW f \in Files, Trim(f) PROVE ModeInv'
  BY <1>5 DEF Trim, TypeOK, ModeInv, RunInv
<1>6. ASSUME NEW d \in Dirs, Clean(d) PROVE ModeInv'
  BY <1>6 DEF Clean, TypeOK, ModeInv, RunInv
<1>7. ASSUME NEW d \in Dirs, Unpack(d) PROVE ModeInv'
  BY <1>7 DEF Unpack, Written, TypeOK, ModeInv, RunInv
<1>8. ASSUME NEW d \in Dirs, NEW m \in {"ro", "rw"}, Chmod(d, m) PROVE ModeInv'
  BY <1>8 DEF Chmod, TypeOK, ModeInv, RunInv
<1>9. CASE Scan
  BY <1>9 DEF Scan, Candidates, Units, TypeOK, ModeInv, RunInv
<1>10. CASE End
  BY <1>10 DEF End, Gone, TypeOK, ModeInv, RunInv
<1>11. CASE Rename
  BY <1>11 DEF Rename, Drop, Dropped, CopyOf, After, TypeOK, ModeInv, RunInv
<1>12. CASE BatchDone
  BY <1>12 DEF BatchDone, Gone, TypeOK, ModeInv, RunInv
<1>13. ASSUME NEW t \in stale, Sweep(t) PROVE ModeInv'
  BY <1>13 DEF Sweep, Gone, TypeOK, ModeInv, RunInv
<1>14. ASSUME NEW fs \in SUBSET Files, NextBatch(fs) PROVE ModeInv'
  BY <1>14 DEF NextBatch, ToLift, TypeOK, ModeInv, RunInv
<1>15. ASSUME NEW fs \in SUBSET Files, Backend(fs) PROVE ModeInv'
  BY <1>15 DEF Backend, After, TypeOK, ModeInv, RunInv
<1>16. ASSUME NEW f \in Files, Stage(f) PROVE ModeInv'
  BY <1>16 DEF Stage, Copy, TypeOK, ModeInv, RunInv
<1>17. ASSUME NEW f \in Files, Finish(f) PROVE ModeInv'
  BY <1>17 DEF Finish, Drop, Dropped, CopyOf, After, Steady, Unchanged, TypeOK, ModeInv, RunInv
<1>18. ASSUME NEW d \in Dirs, Lift(d) PROVE ModeInv'
  BY <1>18 DEF Lift, TypeOK, ModeInv, RunInv
<1>19. ASSUME NEW d \in Dirs, PutBack(d) PROVE ModeInv'
  BY <1>19 DEF PutBack, TypeOK, ModeInv, RunInv
<1>20. CASE Kill
  BY <1>20 DEF Kill, Gone, TypeOK, ModeInv, RunInv
<1>21. CASE UNCHANGED vars
  BY <1>21 DEF vars, TypeOK, ModeInv, RunInv
<1>22. CASE OpenTool
  BY <1>22 DEF OpenTool, TypeOK, ModeInv, RunInv
<1>23. CASE LockTool
  BY <1>23 DEF LockTool, TypeOK, ModeInv, RunInv
<1>24. CASE CloseTool
  BY <1>24 DEF CloseTool, TypeOK, ModeInv, RunInv
<1>25. CASE SweepLock
  BY <1>25 DEF SweepLock, TypeOK, ModeInv, RunInv
<1>26. CASE Look
  BY <1>26 DEF Look, TypeOK, ModeInv, RunInv
<1>27. CASE OpenLock
  BY <1>27 DEF OpenLock, TypeOK, ModeInv, RunInv
<1>28. CASE TryLock
  BY <1>28 DEF TryLock, Busy, TypeOK, ModeInv, RunInv
<1>29. ASSUME NEW d \in Dirs, TakeUnit(d) PROVE ModeInv'
  BY <1>29 DEF TakeUnit, Granted, TypeOK, ModeInv, RunInv
<1>30. CASE CloneAs
  BY <1>30 DEF CloneAs, Copy, TypeOK, ModeInv, RunInv
<1> QED
  BY <1>1, <1>2, <1>3, <1>4, <1>5, <1>6, <1>7, <1>8, <1>9, <1>10, <1>11,
     <1>12, <1>13, <1>14, <1>15, <1>16, <1>17, <1>18, <1>19, <1>20, <1>21,
     <1>22, <1>23, <1>24, <1>25, <1>26, <1>27, <1>28, <1>29, <1>30
  DEF Next, Owner, Step

LEMMA SeenStep == TypeOK /\ RunInv /\ SeenInv /\ CopyInv /\ [Next]_vars => SeenInv'
<1> SUFFICES ASSUME TypeOK /\ RunInv /\ SeenInv /\ CopyInv, [Next]_vars PROVE SeenInv'
  OBVIOUS
<1> USE DEF cache, lock, run, guard, scan, batch, ghosts
<1>1. ASSUME NEW f \in Files, Begin(f) PROVE SeenInv'
  BY <1>1 DEF Begin, Written, TypeOK, RunInv, SeenInv, Coming, InHand, In, Shared
<1>2. ASSUME NEW f \in Files, Append(f) PROVE SeenInv'
  BY <1>2 DEF Append, Written, TypeOK, RunInv, SeenInv, Coming, InHand, In, Shared
<1>3. ASSUME NEW f \in Files, Close(f) PROVE SeenInv'
  BY <1>3 DEF Close, TypeOK, RunInv, SeenInv, Coming, InHand, In, Shared
<1>4. ASSUME NEW f \in Files, Age(f) PROVE SeenInv'
  BY <1>4 DEF Age, TypeOK, RunInv, SeenInv, Coming, InHand, In, Shared
<1>5. ASSUME NEW f \in Files, Trim(f) PROVE SeenInv'
  BY <1>5 DEF Trim, TypeOK, RunInv, SeenInv, Coming, InHand, In, Shared
<1>6. ASSUME NEW d \in Dirs, Clean(d) PROVE SeenInv'
  BY <1>6 DEF Clean, TypeOK, RunInv, SeenInv, Coming, InHand, In, Shared
<1>7. ASSUME NEW d \in Dirs, Unpack(d) PROVE SeenInv'
  BY <1>7 DEF Unpack, Written, TypeOK, RunInv, SeenInv, Coming, InHand, In, Shared
<1>8. ASSUME NEW d \in Dirs, NEW m \in {"ro", "rw"}, Chmod(d, m) PROVE SeenInv'
  BY <1>8 DEF Chmod, TypeOK, RunInv, SeenInv, Coming, InHand, In, Shared
<1>9. CASE Scan
  BY <1>9 DEF Scan, Candidates, Units, TypeOK, RunInv, SeenInv, Coming, InHand, In, Shared
<1>10. CASE End
  BY <1>10 DEF End, Gone, TypeOK, RunInv, SeenInv, Coming, InHand, In, Shared
<1>11. CASE Rename
  BY <1>11 DEF Rename, Drop, Dropped, CopyOf, After, TypeOK, RunInv, SeenInv, Coming, InHand, In, Shared
<1>12. CASE BatchDone
  BY <1>12 DEF BatchDone, Gone, TypeOK, RunInv, SeenInv, Coming, InHand, In, Shared
<1>13. ASSUME NEW t \in stale, Sweep(t) PROVE SeenInv'
  BY <1>13 DEF Sweep, Gone, TypeOK, RunInv, SeenInv, Coming, InHand, In, Shared
<1>14. ASSUME NEW fs \in SUBSET Files, NextBatch(fs) PROVE SeenInv'
  BY <1>14 DEF NextBatch, ToLift, TypeOK, RunInv, SeenInv, Coming, InHand, In, Shared
<1>15. ASSUME NEW fs \in SUBSET Files, Backend(fs) PROVE SeenInv'
  BY <1>15 DEF Backend, After, TypeOK, RunInv, SeenInv, Coming, InHand, In, Shared
<1>16. ASSUME NEW f \in Files, Stage(f) PROVE SeenInv'
  BY <1>16 DEF Stage, Copy, TypeOK, RunInv, SeenInv, Coming, InHand, In, Shared
<1>17. ASSUME NEW f \in Files, Finish(f) PROVE SeenInv'
  BY <1>17 DEF Finish, Drop, Dropped, CopyOf, After, Steady, Unchanged, TypeOK, RunInv,
               SeenInv, Coming, InHand, In, Shared
<1>18. ASSUME NEW d \in Dirs, Lift(d) PROVE SeenInv'
  BY <1>18 DEF Lift, TypeOK, RunInv, SeenInv, Coming, InHand, In, Shared
<1>19. ASSUME NEW d \in Dirs, PutBack(d) PROVE SeenInv'
  BY <1>19 DEF PutBack, TypeOK, RunInv, SeenInv, Coming, InHand, In, Shared
<1>20. CASE Kill
  BY <1>20 DEF Kill, Gone, TypeOK, RunInv, SeenInv, Coming, InHand, In, Shared
<1>21. CASE UNCHANGED vars
  BY <1>21 DEF vars, TypeOK, RunInv, SeenInv, Coming, InHand, In, Shared
<1>22. CASE OpenTool
  BY <1>22 DEF OpenTool, TypeOK, RunInv, SeenInv, Coming, InHand, In, Shared
<1>23. CASE LockTool
  BY <1>23 DEF LockTool, TypeOK, RunInv, SeenInv, Coming, InHand, In, Shared
<1>24. CASE CloseTool
  BY <1>24 DEF CloseTool, TypeOK, RunInv, SeenInv, Coming, InHand, In, Shared
<1>25. CASE SweepLock
  BY <1>25 DEF SweepLock, TypeOK, RunInv, SeenInv, Coming, InHand, In, Shared
<1>26. CASE Look
  BY <1>26 DEF Look, TypeOK, RunInv, SeenInv, Coming, InHand, In, Shared
<1>27. CASE OpenLock
  BY <1>27 DEF OpenLock, TypeOK, RunInv, SeenInv, Coming, InHand, In, Shared
<1>28. CASE TryLock
  BY <1>28 DEF TryLock, Busy, TypeOK, RunInv, SeenInv, Coming, InHand, In, Shared
<1>29. ASSUME NEW d \in Dirs, TakeUnit(d) PROVE SeenInv'
  BY <1>29 DEF TakeUnit, Granted, TypeOK, RunInv, SeenInv, Coming, InHand, In, Shared
<1>30. CASE CloneAs
  BY <1>30 DEF CloneAs, Copy, TypeOK, RunInv, SeenInv, Coming, InHand, In, Shared
<1> QED
  BY <1>1, <1>2, <1>3, <1>4, <1>5, <1>6, <1>7, <1>8, <1>9, <1>10, <1>11,
     <1>12, <1>13, <1>14, <1>15, <1>16, <1>17, <1>18, <1>19, <1>20, <1>21,
     <1>22, <1>23, <1>24, <1>25, <1>26, <1>27, <1>28, <1>29, <1>30
  DEF Next, Owner, Step

\* The parts of CopyInv: the copies, and the file that is about to be swapped over.
OneCopy(t) ==
    /\ t.file \notin Coming
    /\ t.file \in InHand =>
          /\ seen[t.file] <= t.ver /\ t.ver <= ver[t.file]
          /\ \A s \in temps : s.file = t.file => s = t

Looked == pc = "rename" /\ ~late => ver[cur] = seen[cur]

\* No copy more, and none more to be made or to be finished.
LEMMA CopiesKept ==
  ASSUME TypeOK, TypeOK', \A t \in temps \ stale : OneCopy(t),
         temps' \subseteq temps, temps' \ stale' \subseteq temps \ stale,
         Coming' \subseteq Coming, InHand' \subseteq InHand, seen' = seen,
         \A f \in InHand' : ver[f] <= ver'[f]
  PROVE  \A t \in temps' \ stale' : OneCopy(t)'
<1> SUFFICES ASSUME NEW t \in temps' \ stale' PROVE OneCopy(t)'
  OBVIOUS
<1>1. OneCopy(t) /\ t \in CopyType
  BY DEF TypeOK
<1>2. ASSUME t.file \in InHand' PROVE t.ver <= ver'[t.file]
  <2>1. t.ver <= ver[t.file] /\ ver[t.file] <= ver'[t.file]
    BY <1>1, <1>2 DEF OneCopy
  <2>2. t.ver \in Nat /\ ver[t.file] \in Nat /\ ver'[t.file] \in Nat
    BY <1>1 DEF CopyType, TypeOK
  <2> QED
    BY <2>1, <2>2
<1> QED
  BY <1>1, <1>2 DEF OneCopy

LEMMA CopiesStep ==
  ASSUME TypeOK, TypeOK', RunInv, SeenInv, \A t \in temps \ stale : OneCopy(t), [Next]_vars
  PROVE  \A t \in temps' \ stale' : OneCopy(t)'
<1> USE DEF cache, lock, run, guard, scan, batch, ghosts
<1>0. \A f \in Files : ver[f] <= ver[f]
  BY DEF TypeOK
<1>1. CASE Owner
  <2>1. UNCHANGED <<pc, rest, staged, todo, stale, seen>> /\ temps' \subseteq temps
    BY <1>1 DEF Owner, Begin, Append, Close, Age, Trim, OpenTool, LockTool, CloseTool,
                SweepLock, Clean, Unpack, Chmod
  <2>2. \A f \in Files : ver[f] <= ver'[f]
    BY <1>0, <1>1 DEF Owner, Begin, Append, Close, Age, Trim, OpenTool, LockTool, CloseTool,
                      SweepLock, Clean, Unpack, Chmod, Written, TypeOK
  <2>3. Coming' = Coming /\ InHand' = InHand /\ InHand \subseteq Files
    BY <2>1 DEF Coming, InHand, TypeOK
  <2> QED
    BY <2>1, <2>2, <2>3, CopiesKept
<1>2. ASSUME todo' = {}, pc' \in {"idle", "batch", "guard"} PROVE \A t \in temps' \ stale' : OneCopy(t)'
  BY <1>2 DEF OneCopy, Coming, InHand
<1>3. CASE Look \/ OpenLock \/ TryLock \/ End \/ Kill
  BY <1>2, <1>3 DEF Look, OpenLock, TryLock, End, Kill, Gone, RunInv
<1>4. ASSUME NEW d \in Dirs, TakeUnit(d) PROVE \A t \in temps' \ stale' : OneCopy(t)'
  BY <1>2, <1>4 DEF TakeUnit, RunInv
<1>5. CASE Scan
  <2>1. pc' = "batch" /\ todo' = Candidates /\ stale' = {t \in temps : DirOf[t.file] \in Units}
        /\ temps' = temps
    BY <1>5 DEF Scan
  <2>2. ASSUME NEW t \in temps' \ stale' PROVE t.file \notin Candidates
    BY <2>1, <2>2 DEF Candidates
  <2> QED
    BY <2>1, <2>2 DEF OneCopy, Coming, InHand
<1>6. ASSUME UNCHANGED <<stale, seen, ver>>, temps' \subseteq temps, Coming' \subseteq Coming,
             InHand' \subseteq InHand
      PROVE  \A t \in temps' \ stale' : OneCopy(t)'
  <2>1. InHand' \subseteq Files
    BY DEF InHand, TypeOK
  <2> QED
    BY <1>0, <1>6, <2>1, CopiesKept
<1>7. CASE BatchDone
  <2>1. CASE unput = {}
    <3>1. UNCHANGED <<stale, seen, ver, temps, todo>> /\ pc' = "batch"
      BY <1>7, <2>1 DEF BatchDone
    <3> QED
      BY <1>6, <3>1 DEF Coming, InHand
  <2>2. CASE unput # {}
    BY <1>2, <1>7, <2>2 DEF BatchDone, Gone
  <2> QED
    BY <2>1, <2>2
<1>8. ASSUME NEW s \in stale, Sweep(s) PROVE \A t \in temps' \ stale' : OneCopy(t)'
  <2>1. CASE Gone
    BY <1>2, <2>1 DEF Gone
  <2>2. CASE ~Gone
    <3>1. UNCHANGED <<pc, rest, staged, todo, seen, ver>> /\ temps' = temps \ {s} /\ stale' = stale \ {s}
      BY <1>8, <2>2 DEF Sweep
    <3>2. Coming' = Coming /\ InHand' = InHand /\ InHand \subseteq Files
      BY <3>1 DEF Coming, InHand, TypeOK
    <3> QED
      BY <1>0, <3>1, <3>2, CopiesKept
  <2> QED
    BY <2>1, <2>2
<1>9. ASSUME NEW fs \in SUBSET Files, NextBatch(fs) PROVE \A t \in temps' \ stale' : OneCopy(t)'
  <2>1. /\ pc = "batch" /\ UNCHANGED <<stale, seen, ver, temps>> /\ fs \subseteq todo
        /\ todo' = todo \ fs /\ staged' = fs
        /\ pc' = "lift" \/ (pc' = "stage" /\ rest' = fs)
    BY <1>9 DEF NextBatch
  <2>2. Coming' \subseteq Coming /\ InHand' = {}
    BY <2>1 DEF Coming, InHand
  <2> QED
    BY <1>6, <2>1, <2>2
<1>10. ASSUME NEW d \in Dirs, Lift(d) PROVE \A t \in temps' \ stale' : OneCopy(t)'
  <2>1. /\ pc = "lift" /\ UNCHANGED <<stale, seen, ver, temps, todo, staged>>
        /\ pc' = "lift" \/ (pc' = "stage" /\ rest' = staged)
    BY <1>10 DEF Lift
  <2>2. Coming' \subseteq Coming /\ InHand' = {}
    BY <2>1 DEF Coming, InHand
  <2> QED
    BY <1>6, <2>1, <2>2
<1>11. ASSUME NEW f \in Files, Stage(f) PROVE \A t \in temps' \ stale' : OneCopy(t)'
  <2>1. /\ pc = "stage" /\ UNCHANGED <<stale, seen, ver, temps, todo>>
        /\ \/ pc' = "copy" /\ UNCHANGED <<rest, staged>>
           \/ /\ staged' = staged \ {f} /\ rest' = rest \ {f}
              /\ pc' \in {"stage", "backend"} /\ (pc' = "backend" => rest' = {})
    BY <1>11 DEF Stage
  <2>2. Coming' \subseteq Coming /\ InHand' \subseteq InHand
    BY <2>1 DEF Coming, InHand
  <2> QED
    BY <1>6, <2>1, <2>2
<1>12. CASE CloneAs
  <2>1. /\ pc = "copy" /\ UNCHANGED <<stale, seen, ver, todo>> /\ cur \in rest /\ cur \in Files
        /\ rest \subseteq staged /\ stale = {} /\ rest' = rest \ {cur} /\ cur \notin todo
        /\ pc' \in {"stage", "backend"} /\ (pc' = "backend" => rest' = {})
    BY <1>12 DEF CloneAs, RunInv, TypeOK
  <2>2. Coming' \subseteq Coming \ {cur}
    BY <2>1 DEF Coming
  <2>3. CASE staged' = staged \ {cur}
    <3>1. temps' \subseteq temps \cup {Copy(cur, ver[cur])}
      BY <1>12 DEF CloneAs
    <3>2. InHand' \subseteq InHand /\ cur \notin InHand'
      BY <2>1, <2>3 DEF InHand
    <3>3. \A s \in temps' : s.file # cur => s \in temps
      BY <3>1 DEF Copy
    <3>4. ASSUME NEW t \in temps' \ stale', t \in temps PROVE OneCopy(t)'
      BY <2>1, <2>2, <3>2, <3>3, <3>4 DEF OneCopy
    <3>5. ASSUME NEW t \in temps' \ stale', t \notin temps PROVE OneCopy(t)'
      BY <2>2, <3>2, <3>3, <3>5 DEF OneCopy
    <3> QED
      BY <3>4, <3>5
  <2>4. CASE staged' = staged
    <3>1. temps' = temps \cup {Copy(cur, ver[cur])}
      <4>1. staged' # staged \ {cur}
        BY <2>1, <2>4
      <4> QED
        BY <1>12, <4>1 DEF CloneAs
    <3>2. InHand' = InHand \cup {cur}
      BY <2>1, <2>4 DEF InHand
    <3>3. cur \in Coming /\ \A s \in temps : s.file # cur
      <4>1. cur \in Coming
        BY <2>1 DEF Coming
      <4> QED
        BY <2>1, <4>1 DEF OneCopy
    <3>4. Copy(cur, ver[cur]).file = cur /\ Copy(cur, ver[cur]).ver = ver[cur]
      BY DEF Copy
    <3>5. ASSUME NEW t \in temps' \ stale', t \in temps PROVE OneCopy(t)'
      BY <2>1, <2>2, <3>1, <3>2, <3>3, <3>4, <3>5 DEF OneCopy
    <3>6. ASSUME NEW t \in temps' \ stale', t \notin temps PROVE OneCopy(t)'
      <4>1. t = Copy(cur, ver[cur])
        BY <3>1, <3>6
      <4>2. seen[cur] <= ver[cur] /\ ver[cur] <= ver[cur]
        BY <1>0, <2>1, <3>3 DEF SeenInv
      <4>3. \A s \in temps' : s.file = cur => s = t
        BY <3>1, <3>3, <4>1
      <4> QED
        BY <2>1, <2>2, <3>4, <4>1, <4>2, <4>3 DEF OneCopy
    <3> QED
      BY <3>5, <3>6
  <2> QED
    BY <1>12, <2>3, <2>4 DEF CloneAs
<1>13. ASSUME NEW fs \in SUBSET Files, Backend(fs) PROVE \A t \in temps' \ stale' : OneCopy(t)'
  <2>1. /\ pc = "backend" /\ UNCHANGED <<stale, seen, ver, temps, todo, staged>> /\ rest' = staged
        /\ pc' \in {"finish", "restore", "batch"}
    BY <1>13 DEF Backend, After
  <2>2. Coming' \subseteq Coming /\ InHand' \subseteq InHand
    BY <2>1 DEF Coming, InHand
  <2> QED
    BY <1>6, <2>1, <2>2
<1>14. ASSUME NEW f \in Files, Finish(f) PROVE \A t \in temps' \ stale' : OneCopy(t)'
  <2>1. /\ pc = "finish" /\ UNCHANGED <<stale, seen, ver, todo, staged>>
        /\ pc' \in {"rename", "finish", "restore", "batch"}
        /\ temps' \subseteq temps /\ rest' \subseteq rest
    BY <1>14 DEF Finish, Drop, After
  <2>2. Coming' \subseteq Coming /\ InHand' \subseteq InHand
    BY <2>1 DEF Coming, InHand
  <2> QED
    BY <1>6, <2>1, <2>2
<1>15. CASE Rename
  <2>1. /\ pc = "rename" /\ UNCHANGED <<stale, seen, todo, staged>>
        /\ pc' \in {"finish", "restore", "batch"}
        /\ temps' \subseteq temps /\ rest' = rest \ {cur}
    BY <1>15 DEF Rename, Drop, After
  <2>2. Coming' \subseteq Coming /\ InHand' \subseteq InHand \ {cur} /\ InHand' \subseteq Files
    BY <2>1 DEF Coming, InHand, TypeOK
  <2>3. \A f \in Files \ {cur} : ver'[f] = ver[f]
    BY <1>15 DEF Rename, TypeOK
  <2> QED
    BY <1>0, <2>1, <2>2, <2>3, CopiesKept
<1>16. ASSUME NEW d \in Dirs, PutBack(d) PROVE \A t \in temps' \ stale' : OneCopy(t)'
  BY <1>6, <1>16 DEF PutBack, Coming, InHand
<1>17. CASE UNCHANGED vars
  BY <1>6, <1>17 DEF vars, Coming, InHand
<1> QED
  BY <1>1, <1>3, <1>4, <1>5, <1>7, <1>8, <1>9, <1>10, <1>11, <1>12, <1>13, <1>14, <1>15, <1>16,
     <1>17
  DEF Next, Step

LEMMA LookedStep ==
  ASSUME TypeOK, RunInv, Looked, [Next]_vars PROVE Looked'
<1> SUFFICES ASSUME pc' = "rename", ~late' PROVE ver'[cur'] = seen'[cur']
  BY DEF Looked
<1> USE DEF cache, lock, run, guard, scan, batch, ghosts
<1>1. CASE Owner
  <2>0. UNCHANGED <<pc, cur, seen>>
    BY <1>1 DEF Owner, Begin, Append, Close, Age, Trim, OpenTool, LockTool, CloseTool,
                SweepLock, Clean, Unpack, Chmod
  <2>1. UNCHANGED <<pc, cur, seen>> /\ pc = "rename" /\ cur \in Files
    BY <2>0 DEF RunInv, TypeOK
  <2>2. ~late /\ ver'[cur] = ver[cur]
    <3>1. ASSUME NEW fs \in SUBSET Files, Written(fs) PROVE ~late /\ ver'[cur] = ver[cur]
      BY <2>1, <3>1 DEF Written, TypeOK
    <3>2. ASSUME NEW f \in Files, Begin(f) \/ Append(f) PROVE ~late /\ ver'[cur] = ver[cur]
      BY <3>1, <3>2 DEF Begin, Append
    <3>3. ASSUME NEW d \in Dirs, Unpack(d) PROVE ~late /\ ver'[cur] = ver[cur]
      <4>1. Written(In(d)) /\ In(d) \in SUBSET Files
        BY <3>3 DEF Unpack, In
      <4> QED
        BY <3>1, <4>1
    <3>4. ASSUME NEW f \in Files, Close(f) \/ Age(f) \/ Trim(f) PROVE ~late /\ ver' = ver
      BY <3>4 DEF Close, Age, Trim
    <3>5. ASSUME OpenTool \/ LockTool \/ CloseTool \/ SweepLock PROVE ~late /\ ver' = ver
      BY <3>5 DEF OpenTool, LockTool, CloseTool, SweepLock
    <3>6. ASSUME NEW d \in Dirs, Clean(d) \/ \E m \in {"ro", "rw"} : Chmod(d, m)
          PROVE  ~late /\ ver' = ver
      BY <3>6 DEF Clean, Chmod
    <3> QED
      BY <1>1, <3>2, <3>3, <3>4, <3>5, <3>6 DEF Owner
  <2> QED
    BY <2>1, <2>2 DEF Looked
<1>2. ASSUME NEW f \in Files, Finish(f) PROVE ver'[cur'] = seen'[cur']
  BY <1>2 DEF Finish, Drop, After, Steady, Unchanged
<1>3. CASE UNCHANGED vars
  BY <1>3 DEF vars, Looked
<1> QED
  BY <1>1, <1>2, <1>3 DEF Next, Step, Look, OpenLock, TryLock, TakeUnit, Scan, End, BatchDone,
     Sweep, NextBatch, Backend, Stage, CloneAs, Rename, Drop, After, Lift, PutBack, Kill, Gone

LEMMA CopyStep == TypeOK /\ RunInv /\ SeenInv /\ CopyInv /\ [Next]_vars => CopyInv'
<1> SUFFICES ASSUME TypeOK, RunInv, SeenInv, CopyInv, [Next]_vars PROVE CopyInv'
  OBVIOUS
<1>1. TypeOK'
  BY TypeStep
<1>2. (\A t \in temps \ stale : OneCopy(t)) /\ Looked
  BY DEF CopyInv, OneCopy, Looked
<1>3. \A t \in temps' \ stale' : OneCopy(t)'
  BY <1>1, <1>2, CopiesStep
<1>4. Looked'
  BY <1>2, LookedStep
<1> QED
  BY <1>3, <1>4 DEF CopyInv, OneCopy, Looked

LEMMA LeftStep == TypeOK /\ RunInv /\ ModeInv /\ OnlyThoseLeft /\ [Next]_vars => OnlyThoseLeft'
<1> SUFFICES ASSUME TypeOK /\ RunInv /\ ModeInv /\ OnlyThoseLeft, [Next]_vars PROVE OnlyThoseLeft'
  OBVIOUS
<1> USE DEF cache, lock, run, guard, scan, batch, ghosts
<1>1. ASSUME NEW f \in Files, Begin(f) PROVE OnlyThoseLeft'
  BY <1>1 DEF Begin, Written, TypeOK, RunInv, ModeInv, OnlyThoseLeft, Astray, Modes
<1>2. ASSUME NEW f \in Files, Append(f) PROVE OnlyThoseLeft'
  BY <1>2 DEF Append, Written, TypeOK, RunInv, ModeInv, OnlyThoseLeft, Astray, Modes
<1>3. ASSUME NEW f \in Files, Close(f) PROVE OnlyThoseLeft'
  BY <1>3 DEF Close, TypeOK, RunInv, ModeInv, OnlyThoseLeft, Astray, Modes
<1>4. ASSUME NEW f \in Files, Age(f) PROVE OnlyThoseLeft'
  BY <1>4 DEF Age, TypeOK, RunInv, ModeInv, OnlyThoseLeft, Astray, Modes
<1>5. ASSUME NEW f \in Files, Trim(f) PROVE OnlyThoseLeft'
  BY <1>5 DEF Trim, TypeOK, RunInv, ModeInv, OnlyThoseLeft, Astray, Modes
<1>6. ASSUME NEW d \in Dirs, Clean(d) PROVE OnlyThoseLeft'
  BY <1>6 DEF Clean, TypeOK, RunInv, ModeInv, OnlyThoseLeft, Astray, Modes
<1>7. ASSUME NEW d \in Dirs, Unpack(d) PROVE OnlyThoseLeft'
  BY <1>7 DEF Unpack, Written, TypeOK, RunInv, ModeInv, OnlyThoseLeft, Astray, Modes
<1>8. ASSUME NEW d \in Dirs, NEW m \in {"ro", "rw"}, Chmod(d, m) PROVE OnlyThoseLeft'
  BY <1>8 DEF Chmod, TypeOK, RunInv, ModeInv, OnlyThoseLeft, Astray, Modes
<1>9. CASE Scan
  BY <1>9 DEF Scan, Candidates, Units, TypeOK, RunInv, ModeInv, OnlyThoseLeft, Astray, Modes
<1>10. CASE End
  BY <1>10 DEF End, Gone, TypeOK, RunInv, ModeInv, OnlyThoseLeft, Astray, Modes
<1>11. CASE Rename
  BY <1>11 DEF Rename, Drop, Dropped, CopyOf, After, TypeOK, RunInv, ModeInv, OnlyThoseLeft,
               Astray, Modes
<1>12. CASE BatchDone
  BY <1>12 DEF BatchDone, Gone, TypeOK, RunInv, ModeInv, OnlyThoseLeft, Astray, Modes
<1>13. ASSUME NEW t \in stale, Sweep(t) PROVE OnlyThoseLeft'
  BY <1>13 DEF Sweep, Gone, TypeOK, RunInv, ModeInv, OnlyThoseLeft, Astray, Modes
<1>14. ASSUME NEW fs \in SUBSET Files, NextBatch(fs) PROVE OnlyThoseLeft'
  BY <1>14 DEF NextBatch, ToLift, TypeOK, RunInv, ModeInv, OnlyThoseLeft, Astray, Modes
<1>15. ASSUME NEW fs \in SUBSET Files, Backend(fs) PROVE OnlyThoseLeft'
  BY <1>15 DEF Backend, After, TypeOK, RunInv, ModeInv, OnlyThoseLeft, Astray, Modes
<1>16. ASSUME NEW f \in Files, Stage(f) PROVE OnlyThoseLeft'
  BY <1>16 DEF Stage, Copy, TypeOK, RunInv, ModeInv, OnlyThoseLeft, Astray, Modes
<1>17. ASSUME NEW f \in Files, Finish(f) PROVE OnlyThoseLeft'
  BY <1>17 DEF Finish, Drop, Dropped, CopyOf, After, Steady, Unchanged, TypeOK, RunInv,
               ModeInv, OnlyThoseLeft, Astray, Modes
<1>18. ASSUME NEW d \in Dirs, Lift(d) PROVE OnlyThoseLeft'
  BY <1>18 DEF Lift, TypeOK, RunInv, ModeInv, OnlyThoseLeft, Astray, Modes
<1>19. ASSUME NEW d \in Dirs, PutBack(d) PROVE OnlyThoseLeft'
  BY <1>19 DEF PutBack, TypeOK, RunInv, ModeInv, OnlyThoseLeft, Astray, Modes
<1>20. CASE Kill
  BY <1>20 DEF Kill, Gone, TypeOK, RunInv, ModeInv, OnlyThoseLeft, Astray, Modes
<1>21. CASE UNCHANGED vars
  BY <1>21 DEF vars, TypeOK, RunInv, ModeInv, OnlyThoseLeft, Astray, Modes
<1>22. CASE OpenTool
  BY <1>22 DEF OpenTool, TypeOK, RunInv, ModeInv, OnlyThoseLeft, Astray, Modes
<1>23. CASE LockTool
  BY <1>23 DEF LockTool, TypeOK, RunInv, ModeInv, OnlyThoseLeft, Astray, Modes
<1>24. CASE CloseTool
  BY <1>24 DEF CloseTool, TypeOK, RunInv, ModeInv, OnlyThoseLeft, Astray, Modes
<1>25. CASE SweepLock
  BY <1>25 DEF SweepLock, TypeOK, RunInv, ModeInv, OnlyThoseLeft, Astray, Modes
<1>26. CASE Look
  BY <1>26 DEF Look, TypeOK, RunInv, ModeInv, OnlyThoseLeft, Astray, Modes
<1>27. CASE OpenLock
  BY <1>27 DEF OpenLock, TypeOK, RunInv, ModeInv, OnlyThoseLeft, Astray, Modes
<1>28. CASE TryLock
  BY <1>28 DEF TryLock, Busy, TypeOK, RunInv, ModeInv, OnlyThoseLeft, Astray, Modes
<1>29. ASSUME NEW d \in Dirs, TakeUnit(d) PROVE OnlyThoseLeft'
  BY <1>29 DEF TakeUnit, Granted, TypeOK, RunInv, ModeInv, OnlyThoseLeft, Astray, Modes
<1>30. CASE CloneAs
  BY <1>30 DEF CloneAs, Copy, TypeOK, RunInv, ModeInv, OnlyThoseLeft, Astray, Modes
<1> QED
  BY <1>1, <1>2, <1>3, <1>4, <1>5, <1>6, <1>7, <1>8, <1>9, <1>10, <1>11,
     <1>12, <1>13, <1>14, <1>15, <1>16, <1>17, <1>18, <1>19, <1>20, <1>21,
     <1>22, <1>23, <1>24, <1>25, <1>26, <1>27, <1>28, <1>29, <1>30
  DEF Next, Owner, Step

LEMMA GuardStep == TypeOK /\ RunInv /\ GuardInv /\ CopyInv /\ [Next]_vars => GuardInv'
<1> SUFFICES ASSUME TypeOK /\ RunInv /\ GuardInv /\ CopyInv, [Next]_vars PROVE GuardInv'
  OBVIOUS
<1> USE DEF cache, lock, run, guard, scan, batch, ghosts
<1>1. ASSUME NEW f \in Files, Begin(f) PROVE GuardInv'
  BY <1>1 DEF Begin, MayWrite, Written, TypeOK, RunInv, GuardInv, Shared
<1>2. ASSUME NEW f \in Files, Append(f) PROVE GuardInv'
  BY <1>2 DEF Append, MayWrite, Written, TypeOK, RunInv, GuardInv, Shared
<1>3. ASSUME NEW f \in Files, Close(f) PROVE GuardInv'
  BY <1>3 DEF Close, TypeOK, RunInv, GuardInv, Shared
<1>4. ASSUME NEW f \in Files, Age(f) PROVE GuardInv'
  BY <1>4 DEF Age, TypeOK, RunInv, GuardInv, Shared
<1>5. ASSUME NEW f \in Files, Trim(f) PROVE GuardInv'
  BY <1>5 DEF Trim, TypeOK, RunInv, GuardInv, Shared
<1>6. ASSUME NEW d \in Dirs, Clean(d) PROVE GuardInv'
  BY <1>6 DEF Clean, TypeOK, RunInv, GuardInv, Shared
<1>7. ASSUME NEW d \in Dirs, Unpack(d) PROVE GuardInv'
  BY <1>7 DEF Unpack, Written, Lifts, TypeOK, RunInv, GuardInv, Shared
<1>8. ASSUME NEW d \in Dirs, NEW m \in {"ro", "rw"}, Chmod(d, m) PROVE GuardInv'
  BY <1>8 DEF Chmod, TypeOK, RunInv, GuardInv, Shared
<1>9. CASE Scan
  BY <1>9 DEF Scan, Candidates, Units, TypeOK, RunInv, GuardInv, Shared
<1>10. CASE End
  BY <1>10 DEF End, Gone, TypeOK, RunInv, GuardInv, Shared
<1>11. CASE Rename
  BY <1>11 DEF CopyInv, Coming, InHand, Rename, Drop, Dropped, CopyOf, After, Fine, Trouble,
               TypeOK, CopyType, RunInv, GuardInv, Shared
<1>12. CASE BatchDone
  BY <1>12 DEF BatchDone, Gone, TypeOK, RunInv, GuardInv, Shared
<1>13. ASSUME NEW t \in stale, Sweep(t) PROVE GuardInv'
  BY <1>13 DEF Sweep, Gone, TypeOK, RunInv, GuardInv, Shared
<1>14. ASSUME NEW fs \in SUBSET Files, NextBatch(fs) PROVE GuardInv'
  BY <1>14 DEF NextBatch, ToLift, TypeOK, RunInv, GuardInv, Shared
<1>15. ASSUME NEW fs \in SUBSET Files, Backend(fs) PROVE GuardInv'
  BY <1>15 DEF Backend, After, TypeOK, RunInv, GuardInv, Shared
<1>16. ASSUME NEW f \in Files, Stage(f) PROVE GuardInv'
  BY <1>16 DEF Stage, Copy, TypeOK, RunInv, GuardInv, Shared
<1>17. ASSUME NEW f \in Files, Finish(f) PROVE GuardInv'
  BY <1>17 DEF Finish, Drop, Dropped, CopyOf, After, Steady, Unchanged, TypeOK, RunInv,
               GuardInv, Shared
<1>18. ASSUME NEW d \in Dirs, Lift(d) PROVE GuardInv'
  BY <1>18 DEF Lift, TypeOK, RunInv, GuardInv, Shared
<1>19. ASSUME NEW d \in Dirs, PutBack(d) PROVE GuardInv'
  BY <1>19 DEF PutBack, TypeOK, RunInv, GuardInv, Shared
<1>20. CASE Kill
  BY <1>20 DEF Kill, Gone, TypeOK, RunInv, GuardInv, Shared
<1>21. CASE UNCHANGED vars
  BY <1>21 DEF vars, TypeOK, RunInv, GuardInv, Shared
<1>22. CASE OpenTool
  <2>1. tool = 0 /\ UNCHANGED <<kind, inside, ours, asked, held, pc, rest, todo, staged, late,
                                lost, swept>>
    BY <1>22 DEF OpenTool
  <2>2. tool' = Opened /\ file' = Opened /\ Opened # 0
    BY <1>22, OpenedIsNew DEF OpenTool
  <2>3. ~swept => ours \in {0, file'}
    BY <2>2 DEF GuardInv, Opened
  <2>4. inside = FALSE
    BY <2>1 DEF GuardInv, TypeOK
  <2> QED
    BY <2>1, <2>2, <2>3, <2>4 DEF GuardInv, Shared
<1>23. CASE LockTool
  BY <1>23 DEF LockTool, TypeOK, RunInv, GuardInv, Shared
<1>24. CASE CloseTool
  BY <1>24 DEF CloseTool, TypeOK, RunInv, GuardInv, Shared
<1>25. CASE SweepLock
  BY <1>25 DEF SweepLock, TypeOK, RunInv, GuardInv, Shared
<1>26. CASE Look
  BY <1>26 DEF Look, TypeOK, RunInv, GuardInv, Shared
<1>27. CASE OpenLock
  <2>1. UNCHANGED <<kind, tool, inside, held, pc, rest, todo, staged, late, lost, swept>>
    BY <1>27 DEF OpenLock
  <2>2. /\ ours' = Opened /\ file' = Opened /\ Opened # 0
        /\ asked = "no" /\ asked' = "open" /\ pc = "guard"
    BY <1>27, OpenedIsNew DEF OpenLock
  <2>3. ~swept => tool \in {0, file'}
    BY <2>2 DEF GuardInv, Opened
  <2> QED
    BY <2>1, <2>2, <2>3 DEF GuardInv, Shared
<1>28. CASE TryLock
  BY <1>28 DEF TryLock, Busy, TypeOK, RunInv, GuardInv, Shared
<1>29. ASSUME NEW d \in Dirs, TakeUnit(d) PROVE GuardInv'
  <2>1. UNCHANGED <<kind, file, tool, inside, ours, asked, pc, todo, staged, late, lost, swept>>
    BY <1>29 DEF TakeUnit
  <2>2. pc = "guard" /\ asked \in {"held", "busy"} /\ rest' = rest \ {d} /\ todo = {} /\ staged = {}
    BY <1>29 DEF TakeUnit, RunInv
  <2>3. held' = IF asked = "held" THEN held \cup {d} ELSE held
    BY <1>29 DEF TakeUnit, Granted
  <2>4. held' = IF asked = "held" THEN Dirs \ rest' ELSE {}
    BY <2>2, <2>3 DEF GuardInv
  <2> QED
    BY <2>1, <2>2, <2>4 DEF GuardInv, Shared
<1>30. CASE CloneAs
  BY <1>30 DEF CloneAs, Copy, TypeOK, RunInv, GuardInv, Shared
<1> QED
  BY <1>1, <1>2, <1>3, <1>4, <1>5, <1>6, <1>7, <1>8, <1>9, <1>10, <1>11,
     <1>12, <1>13, <1>14, <1>15, <1>16, <1>17, <1>18, <1>19, <1>20, <1>21,
     <1>22, <1>23, <1>24, <1>25, <1>26, <1>27, <1>28, <1>29, <1>30
  DEF Next, Owner, Step

-----------------------------------------------------------------------------
(* How many dirs a batch has lifted, and one trouble leaves *)

LEMMA DirsOf ==
  ASSUME NEW fs \in SUBSET Files, Cardinality(fs) <= BatchSize
  PROVE  IsFiniteSet(fs) /\ IsFiniteSet(ToLift(fs)) /\ Cardinality(ToLift(fs)) <= BatchSize
<1>1. IsFiniteSet(fs)
  BY FS_Subset
<1> DEFINE dirs == [f \in fs |-> DirOf[f]]
<1>2. dirs \in Surjection(fs, ToLift(fs))
  BY DEF Surjection, ToLift
<1>3. IsFiniteSet(ToLift(fs)) /\ Cardinality(ToLift(fs)) <= Cardinality(fs)
  BY <1>1, <1>2, FS_Surjection
<1>4. Cardinality(fs) \in Nat /\ Cardinality(ToLift(fs)) \in Nat
  BY <1>1, <1>3, FS_CardinalityType
<1> QED
  BY <1>1, <1>3, <1>4

\* What may be left after one trouble more.
LEMMA OneMore ==
  ASSUME NEW S, NEW T, IsFiniteSet(S), IsFiniteSet(T), NEW n \in Nat,
         Cardinality(S) <= BatchSize * n, Cardinality(T) <= BatchSize
  PROVE  IsFiniteSet(S \cup T) /\ Cardinality(S \cup T) <= BatchSize * (n + 1)
<1>1. IsFiniteSet(S \cup T) /\ IsFiniteSet(S \cap T)
  BY FS_Union, FS_Subset
<1>2. /\ Cardinality(S \cup T) = Cardinality(S) + Cardinality(T) - Cardinality(S \cap T)
      /\ Cardinality(S) \in Nat /\ Cardinality(T) \in Nat /\ Cardinality(S \cap T) \in Nat
      /\ Cardinality(S \cup T) \in Nat
  BY <1>1, FS_Union, FS_CardinalityType
<1>3. BatchSize * (n + 1) = BatchSize * n + BatchSize /\ BatchSize * n \in Nat
  OBVIOUS
<1> QED
  BY <1>1, <1>2, <1>3

LEMMA LiftStep == TypeOK /\ RunInv /\ LiftInv /\ [Next]_vars => LiftInv'
<1> SUFFICES ASSUME TypeOK, RunInv, LiftInv, [Next]_vars PROVE LiftInv'
  OBVIOUS
<1> USE DEF cache, lock, run, guard, scan, batch, ghosts
<1>0. /\ Cardinality(lifted) \in Nat /\ Cardinality(left) \in Nat /\ troubles \in Nat
      /\ BatchSize * troubles \in Nat /\ BatchSize * (troubles + 1) = BatchSize * troubles + BatchSize
  BY FS_CardinalityType DEF LiftInv, TypeOK
<1> DEFINE LeftIsFew == IsFiniteSet(left') /\ Cardinality(left') <= BatchSize * troubles'
           LiftedIsFew == IsFiniteSet(lifted') /\ Cardinality(lifted') <= BatchSize
<1>1. ASSUME left' \subseteq left, troubles' \in {troubles, troubles + 1} PROVE LeftIsFew
  <2>1. IsFiniteSet(left') /\ Cardinality(left') <= Cardinality(left) /\ Cardinality(left') \in Nat
    BY <1>1, FS_Subset, FS_CardinalityType DEF LiftInv
  <2> QED
    BY <1>0, <1>1, <2>1 DEF LiftInv
<1>2. ASSUME lifted' \subseteq lifted PROVE LiftedIsFew
  <2>1. IsFiniteSet(lifted') /\ Cardinality(lifted') <= Cardinality(lifted)
        /\ Cardinality(lifted') \in Nat
    BY <1>2, FS_Subset, FS_CardinalityType DEF LiftInv
  <2> QED
    BY <1>0, <2>1 DEF LiftInv
<1>3. ASSUME lifted' \subseteq lifted, left' \subseteq left, troubles' \in {troubles, troubles + 1},
             pc' # "lift"
      PROVE  LiftInv'
  BY <1>1, <1>2, <1>3 DEF LiftInv
<1>4. ASSUME UNCHANGED <<lifted, pc, rest, staged>>, left' \subseteq left,
             troubles' \in {troubles, troubles + 1}
      PROVE  LiftInv'
  BY <1>1, <1>2, <1>4 DEF LiftInv, ToLift
<1>5. CASE Owner
  <2>1. UNCHANGED <<lifted, pc, rest, staged, troubles>>
    BY <1>5 DEF Owner, Begin, Append, Close, Age, Trim, OpenTool, LockTool, CloseTool,
                SweepLock, Clean, Unpack, Chmod
  <2>2. left' \subseteq left
    BY <1>5 DEF Owner, Begin, Append, Close, Age, Trim, OpenTool, LockTool, CloseTool,
                SweepLock, Clean, Unpack, Chmod
  <2> QED
    BY <1>4, <2>1, <2>2
<1>6. CASE Look \/ OpenLock \/ TryLock \/ Scan \/ End
  BY <1>3, <1>6 DEF Look, OpenLock, TryLock, Scan, End, Gone
<1>7. CASE BatchDone
  BY <1>3, <1>7 DEF BatchDone, Gone, Fine
<1>8. CASE Rename
  BY <1>3, <1>8 DEF Rename, Drop, After, Fine, Trouble
<1>9. ASSUME NEW t \in stale, Sweep(t) PROVE LiftInv'
  BY <1>3, <1>9 DEF Sweep, Gone, Fine, Trouble
<1>10. ASSUME NEW fs \in SUBSET Files, NextBatch(fs) PROVE LiftInv'
  <2>1. lifted' = {} /\ left' = left /\ troubles' = troubles /\ staged' = fs
    BY <1>10 DEF NextBatch, RunInv
  <2>2. pc' = "lift" => rest' = ToLift(fs) /\ Cardinality(fs) <= BatchSize
    BY <1>10 DEF NextBatch
  <2> QED
    BY <1>1, <1>2, <2>1, <2>2 DEF LiftInv, ToLift
<1>11. ASSUME NEW fs \in SUBSET Files, Backend(fs) PROVE LiftInv'
  BY <1>3, <1>11 DEF Backend, After
<1>12. ASSUME NEW f \in Files, Stage(f) PROVE LiftInv'
  BY <1>3, <1>12 DEF Stage, Fine, Trouble
<1>13. ASSUME NEW f \in Files, Finish(f) PROVE LiftInv'
  BY <1>3, <1>13 DEF Finish, Drop, After, Fine, Trouble
<1>14. ASSUME NEW d \in Dirs, TakeUnit(d) PROVE LiftInv'
  BY <1>3, <1>14 DEF TakeUnit
<1>15. ASSUME NEW d \in Dirs, Lift(d) PROVE LiftInv'
  <2>1. /\ pc = "lift" /\ d \in rest /\ lifted' \subseteq lifted \cup {d}
        /\ left' = left /\ staged' = staged /\ troubles' \in {troubles, troubles + 1}
        /\ pc' = "lift" => rest' \subseteq rest
    BY <1>15 DEF Lift, Fine, Trouble
  <2>2. lifted' \subseteq ToLift(staged) /\ (pc' = "lift" => rest' \subseteq ToLift(staged))
    BY <2>1 DEF LiftInv
  <2>3. staged \in SUBSET Files /\ Cardinality(staged) <= BatchSize
    BY <2>1 DEF LiftInv, TypeOK
  <2>4. /\ IsFiniteSet(ToLift(staged)) /\ Cardinality(ToLift(staged)) <= BatchSize
        /\ Cardinality(ToLift(staged)) \in Nat
    BY <2>3, DirsOf, FS_CardinalityType
  <2>5. IsFiniteSet(lifted') /\ Cardinality(lifted') <= Cardinality(ToLift(staged))
        /\ Cardinality(lifted') \in Nat
    BY <2>2, <2>4, FS_Subset, FS_CardinalityType
  <2>6. LiftedIsFew
    BY <2>4, <2>5
  <2> QED
    BY <1>1, <2>1, <2>2, <2>3, <2>6 DEF LiftInv, ToLift
<1>16. ASSUME NEW d \in Dirs, PutBack(d) PROVE LiftInv'
  <2>1. pc' = "restore" /\ lifted' \subseteq lifted
    BY <1>16 DEF PutBack
  <2>2. \/ left' = left /\ troubles' = troubles
        \/ left' = left \cup {d} /\ troubles' = troubles + 1
    BY <1>16 DEF PutBack, Fine, Trouble
  <2>3. IsFiniteSet({d}) /\ Cardinality({d}) <= BatchSize
    <3>1. IsFiniteSet({d}) /\ Cardinality({d}) = 1
      BY FS_Singleton
    <3> QED
      BY <3>1
  <2>4. LeftIsFew
    <3>1. CASE left' = left /\ troubles' = troubles
      BY <1>1, <3>1
    <3>2. CASE left' = left \cup {d} /\ troubles' = troubles + 1
      <4>1. IsFiniteSet(left) /\ Cardinality(left) <= BatchSize * troubles
        BY DEF LiftInv
      <4>2. /\ IsFiniteSet(left \cup {d})
            /\ Cardinality(left \cup {d}) <= BatchSize * (troubles + 1)
        BY <1>0, <2>3, <4>1, OneMore
      <4> QED
        BY <3>2, <4>2
    <3> QED
      BY <2>2, <3>1, <3>2
  <2> QED
    BY <1>2, <2>1, <2>4 DEF LiftInv
<1>17. CASE Kill
  <2>1. pc' = "idle" /\ lifted' = {} /\ left' = left \cup lifted /\ troubles' = troubles + 1
    BY <1>17 DEF Kill, Gone, Trouble
  <2>2. LeftIsFew
    BY <1>0, <2>1, OneMore DEF LiftInv
  <2> QED
    BY <1>2, <2>1, <2>2 DEF LiftInv
<1>18. CASE UNCHANGED vars
  BY <1>4, <1>18 DEF vars
<1>19. CASE CloneAs
  BY <1>3, <1>19 DEF CloneAs, Fine, Trouble
<1> QED
  BY <1>5, <1>6, <1>7, <1>8, <1>9, <1>10, <1>11, <1>12, <1>13, <1>14, <1>15, <1>16, <1>17, <1>18,
     <1>19
  DEF Next, Step

-----------------------------------------------------------------------------
(* The copies that no run will come to *)

\* A copy that is to be swept, that its batch will still come to, or that was left.
Minded(t) ==
    \/ DirOf[t.file] \in meddled \/ t \in kept \cup stale
    \/ t.file \in InHand /\ mode[DirOf[t.file]] = "rw"

LEMMA LeftoverStep ==
  TypeOK /\ RunInv /\ CopyInv /\ LeftoverInv /\ [Next]_vars => LeftoverInv'
<1> SUFFICES ASSUME TypeOK, RunInv, CopyInv, LeftoverInv, [Next]_vars, NEW t \in temps'
             PROVE  Minded(t)'
  BY DEF LeftoverInv, Minded
<1> USE DEF cache, lock, run, guard, scan, batch, ghosts
<1>0. t \in temps => Minded(t)
  BY DEF LeftoverInv, Minded
<1>1. meddled \subseteq meddled'
  <2>1. ASSUME Owner PROVE meddled \subseteq meddled'
    BY <2>1 DEF Owner, Begin, Append, Close, Age, Trim, Clean, Unpack, Chmod, OpenTool, LockTool,
                CloseTool, SweepLock
  <2>2. ASSUME Look \/ OpenLock \/ TryLock \/ Scan \/ End \/ CloneAs \/ Rename \/ BatchDone \/ Kill
        PROVE  meddled' = meddled
    BY <2>2 DEF Look, OpenLock, TryLock, Scan, End, CloneAs, Rename, BatchDone, Kill
  <2>3. ASSUME NEW s \in stale, Sweep(s) PROVE meddled' = meddled
    BY <2>3 DEF Sweep
  <2>4. ASSUME NEW fs \in SUBSET Files, NextBatch(fs) \/ Backend(fs) PROVE meddled' = meddled
    BY <2>4 DEF NextBatch, Backend
  <2>5. ASSUME NEW f \in Files, Stage(f) \/ Finish(f) PROVE meddled' = meddled
    BY <2>5 DEF Stage, Finish
  <2>6. ASSUME NEW d \in Dirs, TakeUnit(d) \/ Lift(d) \/ PutBack(d) PROVE meddled' = meddled
    BY <2>6 DEF TakeUnit, Lift, PutBack
  <2> QED
    BY <2>1, <2>2, <2>3, <2>4, <2>5, <2>6 DEF Next, Step, vars
\* Where nothing is minded less.
<1>2. ASSUME t \in temps, kept \subseteq kept', stale \subseteq kept' \cup stale',
             t.file \in InHand /\ mode[DirOf[t.file]] = "rw"
                 => t.file \in InHand' /\ mode'[DirOf[t.file]] = "rw"
      PROVE  Minded(t)'
  BY <1>0, <1>1, <1>2 DEF Minded
<1>3. CASE Owner
  <2>1. UNCHANGED <<kept, stale, pc, rest, staged>> /\ t \in temps
    BY <1>3 DEF Owner, Begin, Append, Close, Age, Trim, OpenTool, LockTool, CloseTool,
                SweepLock, Clean, Unpack, Chmod
  <2>2. InHand' = InHand
    BY <2>1 DEF InHand
  <2>3. ASSUME NEW d \in Dirs, Clean(d) PROVE Minded(t)'
    <3>1. DirOf[t.file] # d /\ mode' = [mode EXCEPT ![d] = "gone"]
      BY <2>3 DEF Clean
    <3>2. mode'[DirOf[t.file]] = mode[DirOf[t.file]]
      BY <3>1 DEF TypeOK
    <3> QED
      BY <1>2, <2>1, <2>2, <3>2
  <2>4. ASSUME NEW d \in Dirs, Unpack(d) PROVE Minded(t)'
    <3>1. mode[d] = "gone" /\ mode' = [mode EXCEPT ![d] = "ro"]
      BY <2>4 DEF Unpack
    <3>2. mode[DirOf[t.file]] = "rw" => mode'[DirOf[t.file]] = "rw"
      BY <3>1 DEF TypeOK
    <3> QED
      BY <1>2, <2>1, <2>2, <3>2
  <2>5. ASSUME NEW d \in Dirs, NEW m \in {"ro", "rw"}, Chmod(d, m) PROVE Minded(t)'
    <3>1. mode' = [mode EXCEPT ![d] = m] /\ (DirOf[t.file] = d => d \in meddled')
      BY <2>1, <2>5 DEF Chmod
    <3>2. CASE DirOf[t.file] = d
      BY <3>1, <3>2 DEF Minded
    <3>3. CASE DirOf[t.file] # d
      <4>1. mode'[DirOf[t.file]] = mode[DirOf[t.file]]
        BY <3>1, <3>3 DEF TypeOK
      <4> QED
        BY <1>2, <2>1, <2>2, <4>1
    <3> QED
      BY <3>2, <3>3
  <2>6. ASSUME UNCHANGED mode PROVE Minded(t)'
    BY <1>2, <2>1, <2>2, <2>6
  <2> QED
    BY <1>3, <2>3, <2>4, <2>5, <2>6 DEF Owner, Begin, Append, Close, Age, Trim, OpenTool,
                                        LockTool, CloseTool, SweepLock
\* Where nothing was in hand or to be swept.
<1>4. CASE Look \/ OpenLock \/ TryLock \/ BatchDone \/ \E d \in Dirs : TakeUnit(d) \/ Lift(d) \/ PutBack(d)
  <2>1. t \in temps /\ kept' = kept /\ stale = {} /\ InHand = {}
    BY <1>4 DEF Look, OpenLock, TryLock, BatchDone, TakeUnit, Lift, PutBack, Gone, RunInv, InHand
  <2> QED
    BY <1>2, <2>1
<1>5. CASE End
  BY <1>2, <1>5 DEF End, InHand
<1>6. CASE Scan
  <2>1. /\ t \in temps /\ pc \in {"idle", "guard"}
        /\ kept' = {s \in kept : DirOf[s.file] \notin Units}
        /\ stale' = {s \in temps : DirOf[s.file] \in Units}
    BY <1>6 DEF Scan
  <2>2. stale = {} /\ InHand = {}
    BY <2>1 DEF RunInv, InHand
  <2> QED
    BY <1>0, <1>1, <2>1, <2>2 DEF Minded
<1>7. ASSUME NEW f \in Files, pc \in {"finish", "rename"}, Drop(f, TRUE) \/ Drop(f, FALSE),
             UNCHANGED <<stale, mode, staged>>
      PROVE  Minded(t)'
  <2>1. /\ t \in temps /\ kept \subseteq kept' /\ stale = {} /\ InHand = rest
        /\ rest' = rest \ {f} /\ (rest' # {} => pc' = "finish")
    BY <1>7 DEF Drop, After, RunInv, InHand
  <2>2. CASE t.file # f
    <3>1. t.file \in InHand => t.file \in InHand'
      BY <2>1, <2>2 DEF InHand
    <3> QED
      BY <1>2, <1>7, <2>1, <3>1
  <2>3. CASE t.file = f
    <3>1. t \in CopyOf(f)
      BY <2>1, <2>3 DEF CopyOf
    <3>2. t \in kept' \/ ~CanWrite(f)
      BY <1>7, <2>1, <3>1 DEF Drop, Dropped
    <3> QED
      BY <1>0, <1>1, <2>1, <2>3, <3>2 DEF Minded, CanWrite
  <2> QED
    BY <2>2, <2>3
<1>8. CASE Rename
  <2>1. pc = "rename" /\ cur \in rest /\ cur \in Files /\ UNCHANGED <<stale, mode, staged>> /\ stale = {}
    BY <1>8 DEF Rename, RunInv, TypeOK
  <2>2. CASE Drop(cur, TRUE) \/ Drop(cur, FALSE)
    BY <1>7, <2>1, <2>2
  <2>3. CASE ~(Drop(cur, TRUE) \/ Drop(cur, FALSE))
    <3>1. PICK s \in CopyOf(cur) : /\ temps' = temps \ {s} /\ kept' = kept
                                   /\ rest' = rest \ {cur} /\ pc' = After(rest')
      BY <1>8, <2>3 DEF Rename
    <3>2. t \in temps /\ t # s /\ s \in temps /\ s.file = cur
      BY <3>1 DEF CopyOf
    <3>3. t.file # cur
      BY <2>1, <3>2 DEF CopyInv, InHand
    <3>4. t.file \in InHand => t.file \in InHand'
      BY <2>1, <3>1, <3>3 DEF InHand, After
    <3> QED
      BY <1>2, <2>1, <3>1, <3>2, <3>4
  <2> QED
    BY <2>2, <2>3
<1>9. ASSUME NEW s \in stale, Sweep(s) PROVE Minded(t)'
  <2>1. pc = "batch" /\ InHand = {} /\ t \in temps /\ kept \subseteq kept'
    BY <1>9 DEF Sweep, InHand
  <2>2. CASE temps' = temps \ {s} /\ stale' = stale \ {s}
    BY <1>0, <1>1, <2>1, <2>2 DEF Minded
  <2>3. CASE kept' = kept \cup (temps \cap stale)
    BY <1>0, <1>1, <2>1, <2>3 DEF Minded
  <2> QED
    BY <1>9, <2>2, <2>3 DEF Sweep
<1>10. ASSUME NEW fs \in SUBSET Files, NextBatch(fs) PROVE Minded(t)'
  BY <1>2, <1>10 DEF NextBatch, InHand
<1>11. ASSUME NEW fs \in SUBSET Files, Backend(fs) PROVE Minded(t)'
  <2>1. /\ pc = "backend" /\ rest' = staged /\ staged' = staged /\ pc' = After(staged)
        /\ t \in temps /\ UNCHANGED <<kept, stale, mode>>
    BY <1>11 DEF Backend
  <2>2. t.file \in InHand => t.file \in InHand'
    BY <2>1 DEF After, InHand
  <2> QED
    BY <1>2, <2>1, <2>2
<1>12. ASSUME NEW f \in Files, Stage(f) PROVE Minded(t)'
  <2>1. /\ pc = "stage" /\ t \in temps /\ UNCHANGED <<kept, stale, mode>> /\ f \in rest
        /\ \/ pc' = "copy" /\ UNCHANGED <<rest, staged>>
           \/ /\ rest' = rest \ {f} /\ staged' = staged \ {f}
              /\ pc' \in {"stage", "backend"} /\ (pc' = "backend" => rest' = {})
    BY <1>12 DEF Stage
  <2>2. t.file \in InHand => t.file \in InHand'
    BY <2>1 DEF InHand
  <2> QED
    BY <1>2, <2>1, <2>2
<1>13. CASE CloneAs
  <2>1. /\ pc = "copy" /\ UNCHANGED <<stale, mode>> /\ kept \subseteq kept' /\ cur \in rest
        /\ rest \subseteq staged /\ rest' = rest \ {cur} /\ staged' \in {staged, staged \ {cur}}
        /\ pc' \in {"stage", "backend"} /\ (pc' = "backend" => rest' = {})
    BY <1>13 DEF CloneAs, RunInv
  <2>2. InHand \subseteq InHand'
    BY <2>1 DEF InHand
  <2>3. CASE t \in temps
    BY <1>2, <2>1, <2>2, <2>3
  <2>4. CASE t \notin temps
    <3>1. t = Copy(cur, ver[cur]) /\ (t \in kept' \/ (CanWrite(cur) /\ staged' = staged))
      BY <1>13, <2>4 DEF CloneAs
    <3>2. t.file = cur
      BY <3>1 DEF Copy
    <3>3. staged' = staged => cur \in InHand'
      BY <2>1 DEF InHand
    <3> QED
      BY <2>1, <3>1, <3>2, <3>3 DEF Minded, CanWrite
  <2> QED
    BY <2>3, <2>4
<1>14. ASSUME NEW f \in Files, Finish(f) PROVE Minded(t)'
  <2>1. pc = "finish" /\ UNCHANGED <<stale, mode, staged>>
    BY <1>14 DEF Finish
  <2>2. CASE Drop(f, TRUE) \/ Drop(f, FALSE)
    BY <1>7, <2>1, <2>2
  <2>3. CASE pc' = "rename" /\ UNCHANGED <<temps, rest, kept>>
    BY <1>2, <2>1, <2>3 DEF InHand
  <2> QED
    BY <1>14, <2>2, <2>3 DEF Finish
<1>15. CASE Kill
  BY <1>15 DEF Kill, Minded
<1>16. CASE UNCHANGED vars
  BY <1>2, <1>16 DEF vars, InHand
<1> QED
  BY <1>3, <1>4, <1>5, <1>6, <1>7, <1>8, <1>9, <1>10, <1>11, <1>12, <1>13, <1>14, <1>15, <1>16
  DEF Next, Step

LEMMA Inductive == IInv /\ [Next]_vars => IInv'
  BY TypeStep, RunStep, ModeStep, SeenStep, CopyStep, LiftStep, LeftoverStep, LeftStep, GuardStep
  DEF IInv

\* The inductive invariant: the run's step, who has which lock file, what is lifted,
\* what was scanned and which copies there are, with any dirs and files, killed and
\* failing however often (engine.rs, run_with and apply_compress).
THEOREM GuardsInductive == Spec => []IInv
  BY Initially, Inductive, PTL DEF Spec

\* Each kill, and each call that fails, leaves the dirs of one batch writable at most,
\* whatever the number of batches (engine.rs, apply_compress).
THEOREM OneBatchIsLeft == Spec => []OneBatchAtMost
<1>1. IInv => OneBatchAtMost
  <2> SUFFICES ASSUME IInv, pc = "idle" PROVE Cardinality(Astray) <= BatchSize * troubles
    BY DEF OneBatchAtMost
  <2>1. Astray \subseteq left
    BY DEF IInv, RunInv, OnlyThoseLeft
  <2>2. IsFiniteSet(left) /\ Cardinality(left) <= BatchSize * troubles /\ troubles \in Nat
    BY DEF IInv, LiftInv, TypeOK
  <2>3. /\ Cardinality(Astray) <= Cardinality(left)
        /\ Cardinality(Astray) \in Nat /\ Cardinality(left) \in Nat
    BY <2>1, <2>2, FS_Subset, FS_CardinalityType
  <2>4. BatchSize * troubles \in Nat
    BY <2>2
  <2> QED
    BY <2>2, <2>3, <2>4
<1> QED
  BY Initially, Inductive, <1>1, PTL DEF Spec

\* Between runs no copy lies in a cache but those the last run there was cut short over
\* or could not remove, and those in a dir whose mode the user changed under them,
\* whatever failed and was killed before (engine.rs, finish_compress and run_with).
THEOREM NothingIsLeft == Spec => []NothingLeftBehind
<1>1. IInv => NothingLeftBehind
  BY DEF IInv, RunInv, LeftoverInv, InHand, NothingLeftBehind
<1> QED
  BY Initially, Inductive, <1>1, PTL DEF Spec

\* Whatever is killed, fails or is changed under a run: no dir is writable against its
\* owner's wish but those of a batch (engine.rs, apply_compress).
THEOREM LeftAsFound == Spec => []OnlyThoseLeft
<1>1. IInv => OnlyThoseLeft
  BY DEF IInv
<1> QED
  BY Initially, Inductive, <1>1, PTL DEF Spec

\* What is swapped over a file nobody locks is over one that was not written for an
\* hour, but for a write between the last look and the rename (engine.rs, scan_all and
\* check_group).
THEOREM FloorIsKept == Spec => FloorKept
<1> DEFINE Kept == \A f \in packed' \ packed :
                     ~Shared /\ f \in there /\ ~late => f \in old /\ (f \in open => f \in paused)
<1>1. IInv /\ [Next]_vars => Kept
  <2> SUFFICES ASSUME IInv, [Next]_vars, NEW f \in packed' \ packed,
                      ~Shared, f \in there, ~late
               PROVE  f \in old /\ (f \in open => f \in paused)
    OBVIOUS
  <2>1. Rename
    BY DEF Next, Owner, Step, vars, cache, lock, run, guard, scan, batch, ghosts, Begin,
           Append, Close, Age, Written,
           Trim, Clean, Unpack, Chmod, OpenTool, LockTool, CloseTool, SweepLock, Look, OpenLock,
           TryLock, TakeUnit, Scan, End, BatchDone, Sweep, NextBatch,
           Backend, Stage, CloneAs, Finish, Lift, PutBack, Kill
  <2>2. pc = "rename" /\ f = cur /\ cur \in rest
    BY <2>1 DEF Rename, IInv, RunInv
  <2>3. f \in InHand /\ seen[f] = ver[f]
    BY <2>2 DEF InHand, IInv, CopyInv
  <2> QED
    BY <2>3 DEF IInv, SeenInv
<1> QED
  BY Initially, Inductive, <1>1, PTL DEF Spec, FloorKept

\* No write is overwritten but one between the last look and the rename (engine.rs,
\* try_finish_compress).
THEOREM LossIsInWindow == Spec => LossInWindow
<1>1. IInv /\ [Next]_vars => late \/ lost' = lost
  <2> SUFFICES ASSUME IInv, [Next]_vars, ~late, lost' # lost PROVE FALSE
    OBVIOUS
  <2>1. Rename
    BY DEF Next, Owner, Step, vars, cache, lock, run, guard, scan, batch, ghosts, Begin,
           Append, Close, Age,
           Trim, Clean, Unpack, Chmod, OpenTool, LockTool, CloseTool, SweepLock, Look, OpenLock,
           TryLock, TakeUnit, Scan, End, BatchDone, Sweep, NextBatch,
           Backend, Stage, CloneAs, Finish, Lift, PutBack, Kill
  <2>2. PICK t \in CopyOf(cur) : ver[cur] # t.ver
    BY <2>1 DEF Rename
  <2>3. t \in temps \ stale /\ t.file = cur /\ cur \in rest /\ pc = "rename"
    BY <2>1, <2>2 DEF Rename, CopyOf, IInv, RunInv
  <2>4. ver[cur] = seen[cur] /\ seen[cur] <= t.ver /\ t.ver <= ver[cur]
    BY <2>3 DEF IInv, CopyInv, InHand
  <2>5. ver[cur] \in Nat /\ t.ver \in Nat
    BY <2>3 DEF IInv, TypeOK, RunInv, CopyType
  <2> QED
    BY <2>2, <2>4, <2>5
<1> QED
  BY Initially, Inductive, <1>1, PTL DEF Spec, LossInWindow

\* Where nobody takes the lock file away, what is under it is never worked on by its tool and by
\* a run at once, and a run has all its units or none (engine.rs, run_with).
THEOREM SharedIsApart == Spec => []SharedApart
<1>1. IInv => SharedApart
  BY DEF IInv, GuardInv, SharedApart
<1> QED
  BY Initially, Inductive, <1>1, PTL DEF Spec
=============================================================================
