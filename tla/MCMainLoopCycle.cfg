SPECIFICATION CycleFairSpec
CONSTANTS
  Timers = {t1}
  Children = {}
  Fds = {1, 2}
  Flags = {in}
  TimerDelays = {0, 2}
  CycleMaxRun = 1
  MaxSleep <- NoSleepLimit
  WaitCheckInterval = 1
  MilliSecond = 1
  SigChldIgnored = FALSE
  Signals = FALSE
INVARIANTS NeverOversleeps
PROPERTIES NothingStarves AlwaysYields
