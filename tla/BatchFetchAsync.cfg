\* Batches of up to two messages and one stray reply: a reply may wait behind
\* the one that ends the batch, and the connection may close before, within
\* and after the batch.
SPECIFICATION AsyncSpec
CONSTANTS
  MaxBatch = 2
  MaxStray = 1
INVARIANTS
  DoneSound
  FailedSilentWhileOpen
PROPERTIES
  SilentAfterDone
  FetchEnds
