SPECIFICATION PingSpec
CONSTANTS
  a = a
  b = b
  c = c
  Items <- MCItems
  MaxLimit = 2
  MaxSkip = 1
  Timeout = 2
  MaxChanges = 2
  MaxRuns = 3
  Replies = 2
INVARIANTS
  DeliveredOnce
  NoneLeftOut
  
PROPERTIES
  FinishedIsSilent
  WalkReturns
