SPECIFICATION CycleFairSpec
CONSTANTS
  Timers = {}
  Children = {c1, c2}
  Fds = {1}
  Flags = {in}
  TimerDelays = {0, 2}
  CycleMaxRun = 1
  MaxSleep = 2
  WaitCheckInterval = 1
  MilliSecond = 1
  SigChldIgnored = TRUE
  Signals = TRUE
PROPERTIES WaitsEndOnce  
