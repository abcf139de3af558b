SPECIFICATION Spec
CONSTANTS
  m1 = m1  m2 = m2  f1 = f1  f2 = f2
  Nobody = Nobody
  Dirs = {m1, m2}
  Files = {f1, f2}
  DirOf <- Two
  Kinds = {"scratch"}
  BatchSize = 1
  MaxVer = 2
  MaxTroubles = 1
INVARIANTS LockGuards
