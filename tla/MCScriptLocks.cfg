SPECIFICATION LocksFairSpec
CONSTANTS
  Objects = {x1, x2, x3, x4}
  NoThread = NoThread
  MaxCount = 2
  Scripts = {}
INVARIANTS LockIsOwned
PROPERTIES WaitersGoOn
CHECK_DEADLOCK FALSE
