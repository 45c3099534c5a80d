SPECIFICATION PunctualSpec
CONSTANTS
  Atms <- OneAtm
  Expiries <- Tuesday
  Signals <- BearOnly
  NoPos = NoPos
  NoFile = NoFile
  Corrupt = Corrupt
  EntryDays <- MonTue
  TradePnls <- WinOrBreach
  DailyMaxLoss <- LossCap
  PaperTradeMode = TRUE
  DiskMayFail = FALSE
  AuthMayFail = FALSE
  MaxDay = 2
  MaxEntries = 1
  MaxCrashes = 1
  MaxLostSaves = 0
  MaxLostRows = 0
INVARIANT NothingHeldOvernight
PROPERTY PositionsClose
