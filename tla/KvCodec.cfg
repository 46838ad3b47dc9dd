SPECIFICATION KvSpec
CONSTANTS
  IntMax = 10
  Scenarios <- MCScenarios
INVARIANTS FreedOnce WithinBuffers
PROPERTY KeepsPromise
CHECK_DEADLOCK FALSE
