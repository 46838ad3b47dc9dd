SPECIFICATION FetchSpec
CONSTANTS
  Msgs <- Reply
  Stops <- SyncSentinel
  OptSet <- MCOpts
  DefaultTimeout = 3
  MaxTimeout = 4
  MaxReplies = 3
  MaxLate = 1
  MaxBatch = 2
INVARIANTS
  GatherTypeOK
  ListInOrder
  WaitsWithinDeadline
  OkMeansStopped
  TimeoutMeansDeadline
  FetchComplete
  FetchPartial
