SPECIFICATION FairSpec
CONSTANTS
  MaxRequests <- TwoAndNone
  MaxJunk <- JunkFrom1
  Serves = {2}
  Reports = {2}
  Closes = {2}
  Raw = {}
  Blocks = FALSE
  MaxConnections = 2
  CarriesOver = FALSE
INVARIANTS   LastWordsArrive
 
CHECK_DEADLOCK FALSE
