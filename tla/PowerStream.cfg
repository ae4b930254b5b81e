SPECIFICATION PowerSpec
CONSTANTS
  batteries = batteries
  sensors = sensors
  power = power
  Nobody = Nobody
  Logger = Logger
  Monitors = {batteries, sensors, power}
  AtStart = {power}
  Visits <- MCVisits
  Shutdowns <- MCShutdowns
  SlowProbes = {batteries, sensors}
  LongSleeps = TRUE
  SlowPolls = FALSE
CHECK_DEADLOCK FALSE
INVARIANTS
  NothingAfterFree
  ListsGuarded
  PowerAgrees
  BroadcastTells
PROPERTIES
  PollsGoOn
  ShutdownEnds
