SPECIFICATION SysSpec
CONSTANTS
  Flows <- MCFlows
  ServerFlows <- RaisedFlow
  MaxOutstandingAcks = 1
  MaxSequence = 2
  CommitTimeout = 1
  AckTimeout = 1
  MaxLoss = 0
INVARIANT CommitCloses
