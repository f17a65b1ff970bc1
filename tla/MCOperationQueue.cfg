SPECIFICATION Spec
CONSTANTS
  Ops = {o1, o2, o3}
  NoOp = NoOp
  Timeout = 1
  Delay = 1
  Attributes = {{"timeout", "callback"}, {"sequential", "delay", "fromLast"}}
  AppDoes = {"chain", "abort", "abortAll", "process", "terminate"}
  CallbackDoes = {"queue", "abort"}
  InitiateFails = TRUE
  MaxDepth = 4
INVARIANTS  CompletionReported QueueIsRechecked
 
SYMMETRY AnyOrder
