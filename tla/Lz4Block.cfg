SPECIFICATION BlockSpec
CONSTANTS
  Letters = {0, 1}
  Lengths = {1, 7, 9, 13}
  Pasts <- NothingOrSome
  Spares = {0, 3, 9}
  MINMATCH = 4
  LASTLITERALS = 2
  MFLIMIT = 6
  WILDCOPYLENGTH = 5
  DISTANCE_MAX = 8
  RUN_MASK = 3
  ML_MASK = 3
  STRIPE = 5
  FASTLOOP_SAFE_DISTANCE = 10
  BYTE_MAX = 3
  SLACK = 5
INVARIANTS
  RoundTrip
  StaysInside
