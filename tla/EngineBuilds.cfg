SPECIFICATION Spec
CONSTANTS
  u = u  v = v  rw = rw  rx = rx  x = x  y = y
  None = None
  Path <- ThreePaths
  Unit <- TwoUnits
  UnitOf <- ThreeUnitOf
  ModeOf <- MixedMode
  Ino = {1, 2, 3, 4, 5}
  Data = {x, y}
  Mode = {rw, rx}
  Contents <- AnyContents
  Devices <- AllDevices
  MayFail = FALSE
  MayInterrupt = FALSE
  UntilSettled = TRUE
  Batch = 2
  MaxRounds = 2
  MaxBuilds = 1
  MaxCrashes = 0
  MaxLeft = 1
SYMMETRY Symmetry
INVARIANTS InductiveInv Deduped IndexSound NoForeignBytes
PROPERTIES KeepsPromise
