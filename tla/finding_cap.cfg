SPECIFICATION Spec
CONSTANTS
  Atms <- OneAtm
  Expiries <- Tuesday
  Signals <- BearOnly
  NoPos = NoPos
  NoFile = NoFile
  Corrupt = Corrupt
  EntryDays <- MonTue
  TradePnls <- WinOrBreach
  DailyMaxLoss <- LossCap
  PaperTradeMode = FALSE
  DiskMayFail = FALSE
  AuthMayFail = FALSE
  MaxDay = 1
  MaxEntries = 2
  MaxCrashes = 0
  MaxLostSaves = 0
  MaxLostRows = 0
INVARIANT CapBreachHaltsEntries
