SPECIFICATION Spec
CONSTANTS
  Atms <- TwoAtms
  Expiries <- Tuesday
  Signals <- BearOnly
  NoPos = NoPos
  NoFile = NoFile
  Corrupt = Corrupt
  EntryDays <- MonTue
  TradePnls <- WinOnly
  DailyMaxLoss <- LossCap
  PaperTradeMode = TRUE
  DiskMayFail = TRUE
  AuthMayFail = FALSE
  MaxDay = 2
  MaxEntries = 2
  MaxCrashes = 1
  MaxLostSaves = 1
  MaxLostRows = 1
INVARIANT ExposureExplained
INVARIANT TradesAreLogged
