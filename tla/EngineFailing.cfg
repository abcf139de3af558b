SPECIFICATION FairSpec
CONSTANTS
  u = u  v = v  rw = rw  rx = rx  x = x  y = y
  None = None
  Path <- ThreePaths
  Unit <- TwoUnits
  UnitOf <- ThreeUnitOf
  ModeOf <- SameMode
  Ino = {1, 2, 3, 4}
  Data = {x, y}
  Mode = {rw, rx}
  Contents <- XFirst
  Devices <- OnlyApfs
  MayFail = TRUE
  MayInterrupt = TRUE
  UntilSettled = TRUE
  Batch = 2
  MaxRounds = 2
  MaxBuilds = 0
  MaxCrashes = 1
  MaxLeft = 1
INVARIANTS NoTempsLeft
PROPERTIES KeepsPromise LocksReleased
