SPECIFICATION SysSpec
CONSTANTS
  Flows <- MCFlows
  ServerFlows <- RaisedFlow
  MaxOutstandingAcks = 1
  MaxSequence = 3
  CommitTimeout = 3
  AckTimeout = 3
  MaxLoss = 1
INVARIANTS
  TypeOK
  NoMissedWakeup
  CommitAckOwned
  ReportedAtMostOnce
  CommitSound
  AckReportSound
  NoClientGap
  WindowBound
PROPERTIES
  SilentOnceClosed
  SessionSpec
