CONSTANTS
  LtpCache = 2
  LastValidTtl = 2
  FreshMax = 2
  PcrTtl = 3
  Chain <- MCChain
  MaxNow = 4
  Quotes <- MCQuotes
  Limits <- MCLimits
  Lots = {1, 2}
  PriceTick = 4000
  LtpMin = 4000
  LtpMax = 400000000
  OtmThreshold = 4000000
  OtmMinAbs = 240000
  MinAbs = 120000
  PctDen = 2000
  MaxOrders = 2
  Keys = {"sold", "bought"}
  Times = {0, 1, 2}
  RowPrices = {0, 100, 103}
  WindowSec = 1
  FlagPct = 2
  MaxRows = 2
  Indices = {"NIFTY"}
  ExpiryDays = {1, 2, 3}
  StrikePrices <- MCStrikePrices
  FuturePrices <- MCFuturePrices
  StrikeRange = 3
  MaxExpiries = 2
  LastDay = 3
  Calendars <- MCCalendars
  Atms = {"a1", "a2"}
  Horizon = 8
  SignalTtl = 2
  MaxClock = 3
  Strategies = {"NIFTY", "BANKNIFTY"}
  Results <- MCResults
  MaxTrades = 3
  Loggers = {"first", "second"}
  MaxRowsLogged = 3
  MaxNumber = 4
SPECIFICATION DeskSpec
INVARIANTS
  FeedTypeOK
  AgeHonest
  MarksAreFresh
  EntryPricesBounded
  FillBetweenLtpAndLimit
  AverageNearCost
  MatchingSound
  CollectedIsLive
  WeekIsExplained
  StatsMatchTrades
  NumbersGrow
CHECK_DEADLOCK FALSE
