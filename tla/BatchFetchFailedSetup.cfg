SPECIFICATION AsyncSpec
CONSTANTS
  MaxBatch = 2
  MaxStray = 1
INVARIANT
  FailedSetupSilent
