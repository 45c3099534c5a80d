CONSTANTS
  Legs = {option}
  Qty = 2
  MaxPollErrors = 3
  MaxPollWait = 3
  MaxBackoff = 2
  MaxOrders = 2
  Attempts = 2
  MaxTokens = 4
SPECIFICATION LiveTradingSpec
INVARIANTS
  ReportMatchesBroker
  AbandonedIsOnFile
  DriftIsExplained
  TradingTokenSaved
  FewExchanges
PROPERTIES
  EveryOrderEnds
  UnreachableNeverReauths
CHECK_DEADLOCK FALSE
