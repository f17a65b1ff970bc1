SPECIFICATION HttpSpec
CONSTANTS
  j1 = j1
  j2 = j2
  s1 = s1
  s2 = s2
  p1 = p1
  Requests = {j1, j2, s1, s2, p1}
  NoRequest = NoRequest
  Kind <- AllKinds
  MaxChunks = 2
  AppDoes = {"nextInJson"}
CHECK_DEADLOCK FALSE
INVARIANTS SubthreadIsCancelled
