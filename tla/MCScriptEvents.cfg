SPECIFICATION FairSpec
CONSTANTS
  Sources = {s1, s2}
  Handlers = {2, 4}
  Awaits = {1, 3}
  MaxSends = 2
  MaxChanges = 3
  Reenters = {}
INVARIANTS NothingDangles EventReachesAll
PROPERTIES AllGoOn
CHECK_DEADLOCK FALSE
