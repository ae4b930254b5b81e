SPECIFICATION FairSpec
CONSTANTS
  core = core
  sensor = sensor
  network = network
  a = a
  b = b
  Kinds <- SensorNet
  NoKind <- MCNoKind
  Names = {a, b}
  Clamped = {sensor}
  RefreshUpdates = {network}
  Monitors <- SensorFirst
  EveryTick = {}
  Skippable = {sensor}
  Samples <- PlugSamples
  BlockEvery = 1
  RefreshEvery = 2
  MaxUnread = 0
INVARIANTS
  DistinctUids
  ReleaseKnowsId
  NoGhosts
  OneDevicePerUid
  RecordsFit
PROPERTY
  Converges
