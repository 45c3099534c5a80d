SPECIFICATION Spec
CONSTANTS
  Atms <- OneAtm
  Expiries <- Tuesday
  Signals <- BearOnly
  NoPos = NoPos
  NoFile = NoFile
  Corrupt = Corrupt
  EntryDays <- MonTue
  TradePnls <- WinOrBreach
  DailyMaxLoss <- LossCap
  PaperTradeMode = FALSE
  DiskMayFail = FALSE
  AuthMayFail = TRUE
  MaxDay = 2
  MaxEntries = 3
  MaxCrashes = 1
  MaxLostSaves = 0
  MaxLostRows = 0
INVARIANT TypeOK
INVARIANT RestartTransparent
INVARIANT DailyHaltSticks
PROPERTY ImplementsJournal
