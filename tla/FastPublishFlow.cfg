SPECIFICATION SysFairSpec
CONSTANTS
  Flows <- MCFlows
  ServerFlows <- ChangingFlows
  MaxOutstandingAcks = 1
  MaxSequence = 2
  CommitTimeout = 1
  AckTimeout = 3
  MaxLoss = 0
INVARIANT NoMutualWait
PROPERTIES
  CallsReturn
  TerminalErrorSurfaces
