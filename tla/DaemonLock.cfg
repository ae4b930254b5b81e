SPECIFICATION Spec
CONSTANTS
  Daemons = {d1, d2}
  NoFile = NoFile
  Empty = Empty
  NoOne = NoOne
  Stopper = TRUE
CHECK_DEADLOCK FALSE
INVARIANTS
  SameFileKeepsOut
  LockNotStuck
PROPERTY
  PidfileKept
