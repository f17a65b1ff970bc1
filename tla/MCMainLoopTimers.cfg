CONSTANTS
  Owners = {o1}
  Nobody = Nobody
  MaxRun = 1
  MaxCoalescing = 1
  Delays = {0, 2}
  Tolerances = {2}
  Skips <- MCSkips
  MaxTime = 3
  MaxSchedules = 3
SPECIFICATION FairSpec
INVARIANTS ListIsConsistent TicketsControlTimers
PROPERTIES CallbacksAreOnTime ImplementsTimerService DueTimersFire
CHECK_DEADLOCK FALSE
