SPECIFICATION Spec
CONSTANTS
  u = u  v = v  rw = rw  rx = rx  x = x  y = y
  None = None
  Path <- FourPaths
  Unit <- OneUnit
  UnitOf <- FourUnitOf
  ModeOf <- FourMode
  Ino = {1, 2, 3, 4, 5, 6}
  Data = {x, y}
  Mode = {rw, rx}
  Contents <- AnyContents
  Devices <- OnlyXfs
  MayFail = FALSE
  MayInterrupt = TRUE
  UntilSettled = FALSE
  Batch = 2
  MaxRounds = 3
  MaxBuilds = 0
  MaxCrashes = 1
  MaxLeft = 1
SYMMETRY Symmetry
INVARIANTS NoForeignBytes
