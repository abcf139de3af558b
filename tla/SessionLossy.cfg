SPECIFICATION Spec
CONSTANTS
  t = t  s = s  b1 = b1  b2 = b2
  Unit = {1, 2}
  Target = {t}
  TargetOf <- OneTarget
  Group = {1}
  GroupOf <- OneFamily
  Quiet = {}
  Blind = {}
  Later = {}
  Build = {b1}
  Requests <- EachLossy
  Floor = 1
  Idle = 1
  Capped = FALSE
  WholeTargets = TRUE
  HasBudget = TRUE
  MayFail = TRUE
  MaxClock = 1
  MaxBuilds = 1
  MaxCrashes = 1
  MaxRounds = 1
INVARIANTS IInv Exclusion
PROPERTIES KnownBuildsSpared NewBuildsSpared
CHECK_DEADLOCK FALSE
