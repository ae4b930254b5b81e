SPECIFICATION Spec
CONSTANTS
  core = core
  sensor = sensor
  network = network
  a = a
  b = b
  Kinds <- CoreNet
  NoKind <- MCNoKind
  Names = {a, b}
  Clamped = {}
  RefreshUpdates = {network}
  Monitors <- CoreFirst
  EveryTick = {core}
  Skippable = {}
  Samples <- ReadingSamples
  BlockEvery = 2
  RefreshEvery = 3
  MaxUnread = 1
INVARIANTS
  Complete
