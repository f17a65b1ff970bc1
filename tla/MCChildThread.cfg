SPECIFICATION ThreadFairSpec
CONSTANTS
  MaxCalls = 4
  Kinds = {"sync", "async", "ask", "askAsync"}
  StartsWhen = {"idle"}
  CancelsIn = {"loop"}
  Terminates = TRUE
INVARIANTS NoAssertionFails CalleeOwnsCaller OneFinalSignal
PROPERTIES ReturnsOwnStatus ParentComesBack
CHECK_DEADLOCK FALSE
