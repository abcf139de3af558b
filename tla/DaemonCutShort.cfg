SPECIFICATION Spec
CONSTANTS
  one = one  two = two
  Unit = {1, 2}
  Group = {1, 2}
  GroupOf <- UnitGroup
  Family = {one, two}
  FamilyOf <- OneFamily
  Quiet = {}
  Later = {}
  MinAge = 1
  QuietAge = 2
  Interval = 2
  Rediscover = 3
  Setups <- LongAndKept
  MaxBuilds = 0
  MaxTroubles = 3
INVARIANTS VisitedIsDone
