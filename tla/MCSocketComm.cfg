SPECIFICATION FairSpec
CONSTANTS
  Outgoing = {o1}
  Accepted = {a1, a2}
  Server = server
  Fds = {3, 4, 5}
  MaxAddresses = 2
  MaxDepth = 2
  MaxCalls = 2
  ClearsAtClose = {a1}
  FailsAtOnce = FALSE
  HandlerDoes <- SafeCalls
INVARIANTS ServerKnowsClients NothingEndsSilently
PROPERTIES EndsAreToldOnce TroubleEnds
CHECK_DEADLOCK FALSE
