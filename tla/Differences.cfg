SPECIFICATION Spec
CONSTANTS
  Half8 = 2
  Half16 = 4
  Half32 = 8
  Half64 = 32
  Page = 4
  Counters <- MCCounters
  Charges <- MCCharges
  Amounts <- MCAmounts
  MaxSince = 3
INVARIANTS
  Exact
  MemoryLags
  ProcessRightToThePage
