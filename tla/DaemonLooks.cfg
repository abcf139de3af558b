SPECIFICATION FairSpec
CONSTANTS
  one = one  two = two
  Unit = {1, 2}
  Group = {1, 2}
  GroupOf <- UnitGroup
  Family = {one, two}
  FamilyOf <- OwnFamily
  Quiet = {2}
  Later = {2}
  MinAge = 1
  QuietAge = 2
  Interval = 2
  Rediscover = 3
  Setups <- ShortOrKept
  MaxBuilds = 1
  MaxTroubles = 1
INVARIANTS DaemonInv VisitedIsDone
PROPERTIES Settles
