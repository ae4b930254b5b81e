SPECIFICATION Spec
CONSTANTS
  TicksPerHour = 2
  HoursPerDay = 3
  Jumps = {1, 6}
  PollJumps = {1, 6}
  Windows <- MCWindows
  StartTime = 1
  MaxTime = 7
  MaxMishaps = 1
CHECK_DEADLOCK FALSE
INVARIANTS
  HourKept
  InOrder
  NothingMissed
