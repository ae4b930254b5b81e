SPECIFICATION ProbeSpec
CONSTANTS
  Runs <- ReusedAndOther
  MaxTime = 1
  Interval = 1
  MaxUnread = 0
INVARIANTS
  SameProcesses
  MixedHasEnded
PROPERTIES
  NeverBecomesAnother
  NoneMissed
  ImplementsStream
