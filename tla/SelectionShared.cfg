SPECIFICATION Spec
CONSTANTS
  t = t  s = s  b1 = b1  b2 = b2
  Unit = {1, 2, 3}
  Target = {t, s}
  TargetOf <- TwoTargets
  Group = {1, 2}
  GroupOf <- TwoFamilies
  Quiet = {3}
  Blind = {}
  Later = {2}
  Build = {b1}
  Requests <- OnlyOrphans
  Floor = 2
  Idle = 1
  Capped = FALSE
  WholeTargets = TRUE
  HasBudget = TRUE
  MayFail = FALSE
  MaxClock = 0
  MaxBuilds = 0
  MaxCrashes = 0
  MaxRounds = 2
  R = R  S = S
  Dir <- Tree
  Above <- Ancestors
  Name <- PathNames
  GitDir = {3}
  Registry <- Adapters
  Repository = {R, S}
  Nothing = Nothing
  World <- Worlds
  Roots <- RootSets
  CommandLine <- CommandLines
  ConfigFile <- ConfigFiles
INVARIANT SharedKept
CHECK_DEADLOCK FALSE
