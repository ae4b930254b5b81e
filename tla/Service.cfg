SPECIFICATION FairSpec
CONSTANTS
  Old = Old
  New = New
  Tools = {tool}
  Starter = Starter
  NoDaemon = NoDaemon
  normal = normal
  slow = slow
  Intervals = {normal, slow}
  Normal = normal
  Period <- MCPeriod
  BlockEvery = 2
  WaitTries = 1
  StartTries = 1
CHECK_DEADLOCK FALSE
INVARIANTS
  ServerIsHolder
PROPERTIES
  StopTakesEffect
  IntervalTakesEffect
  WaitsEnd
