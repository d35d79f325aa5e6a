SPECIFICATION FairSpec
CONSTANTS
  pa = pa  pb = pb  None = None  First = None
  Task <- TwoTasks  Targets <- OneTask  Sig <- MCSig  Default <- MCDefault
  KILL = 9  Fixed <- MCFixed  Caught <- MCCaught  Faults <- MCCaught
INVARIANTS TypeOK ParentParked SleepersWoken OneInterruption NothingRunsBefore
PROPERTY KillTakesEffect
CHECK_DEADLOCK FALSE
