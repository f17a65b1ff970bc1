SPECIFICATION FairSpec
CONSTANTS
  MaxThreads = 3
  MaxSteps = 2
  RunModes = {{"queue"}, {"queue", "concurrently"}, {"stoprunning"}}
  ScriptDoes = {"delay", "slice", "call", "eval", "fork", "forkAs", "abort", "abortOthers"}
  AbortsOnStack = FALSE
  AppDoes = {"run", "stop"}
  CallbackDoes = {"run"}
INVARIANTS  OneFromQueue SuspendedIsAwaited
PROPERTIES ExecutionsReport
CHECK_DEADLOCK FALSE
