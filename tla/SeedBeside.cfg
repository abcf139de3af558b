SPECIFICATION Spec
CONSTANTS
  a = a  b = b
  x = x  y = y
  Pos = {1, 2}
  Unit = {1, 2}
  File = {a, b}
  PosOf <- OwnPos
  UnitOf <- OwnUnit
  Unlisted = {1}
  Data = {x, y}
  Torn = Torn
  Gone = Gone
  None = None
  MaxWrites = 1
  MaxSeeds = 2
  MaxRuns = 1
SYMMETRY Symmetry
INVARIANTS Inv CopiesAgree MarkedTogether IndexSound IndexKept
