SPECIFICATION Spec
CONSTANTS
  t = t  s = s  b1 = b1  b2 = b2
  Unit = {1, 2}
  Target = {t}
  TargetOf <- OneTarget
  Group = {1}
  GroupOf <- OneFamily
  Quiet = {}
  Blind = {}
  Later = {2}
  Build = {b1, b2}
  Requests <- OnlyOrphans
  Floor = 1
  Idle = 1
  Capped = FALSE
  WholeTargets = TRUE
  HasBudget = TRUE
  MayFail = FALSE
  MaxClock = 1
  MaxBuilds = 1
  MaxCrashes = 0
  MaxRounds = 1
SYMMETRY Symmetry
PROPERTIES BuildsSpared
CHECK_DEADLOCK FALSE
