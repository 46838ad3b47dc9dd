SPECIFICATION ContextSpec
CONSTANTS
  MaxStr = 3
  MaxAddresses = 2
  PipeRoom = 1
  MaxOutput = 2
  Calls <- MCCalls
INVARIANTS HandshakeExact EverythingOwned ConnectsAsMeant
PROPERTY ConnectReturns
CHECK_DEADLOCK FALSE
