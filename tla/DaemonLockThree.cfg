SPECIFICATION Spec
CONSTANTS
  Daemons = {d1, d2, d3}
  NoFile = NoFile
  Empty = Empty
  NoOne = NoOne
  Stopper = FALSE
CHECK_DEADLOCK FALSE
INVARIANTS
  OneDaemon
