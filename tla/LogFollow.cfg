SPECIFICATION FairSpec
CONSTANTS
  FrameSizes = {1, 2}
  Torn = FALSE
  Prompt = TRUE
  MaxFrames = 3
  MaxEpoch = 2
CHECK_DEADLOCK FALSE
INVARIANTS
  NeverFails
  InOrder
PROPERTY
  CatchesUp
