SPECIFICATION Spec
CONSTANTS
  pa = pa  pb = pb  None = None  First = None
  Task <- TwoTasks  Targets <- OneTask  Sig <- MCSig  Default <- MCDefault
  KILL = 9  Fixed <- MCFixed  Caught <- MCCaught  Faults <- MCCaught
INVARIANT KilledAwake
CHECK_DEADLOCK FALSE
