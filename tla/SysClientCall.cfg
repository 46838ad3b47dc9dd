SPECIFICATION CallSpec
CONSTANTS
  IntMax = 100
  MinExtra = 3
  FirstCapacity = 8
  Overflow = "INVALID_ARG"
  MaxDepth = 2
  FirstCap = 1
  MaxText = 5
  Literals = 1
  StringTexts <- StringsTried
  NumberTexts <- NumbersTried
  ArrLen = 2
  MaxMissing = 1
  Options <- OptionSets
  AllTexts <- OneTexts
  Allocations <- Budgets
  ReplyCounts = {0, 2}
INVARIANTS
  RequestExact
  ParserExact
  NothingLeaked
  StringHasOneOwner
CHECK_DEADLOCK FALSE
