CONSTANTS
  Second = 2
  Minute = 4
  MaxPerSec = 2
  MaxPerMin = 3
  LowMaxPerSec = 1
  LowMaxPerMin = 2
  MaxNow = 7
  MaxSlots = 6
  Events = {"heartbeat_missing", "heartbeat_stale"}
  DedupWindow = 2
  FlushTimeout = 1
  QueueMax = 1
  MaxAlerts = 3
  MaxClock = 5
  NumSymbols = 2
  MaxThreads = 3
  Traders = {t1, t2, t3}
SPECIFICATION OperationsSpec
INVARIANTS
  QuotaKept
  LowLaneShare
  SleepsOnlyWhileFull
  FlushMeansPosted
  OnePerWindow
  AlarmIsTold
  OneCollector
  DoubleRunExplained
PROPERTIES
  AlertsGoOut
  StopEndsCollection
  DeadOwnerNeverBlocks
CHECK_DEADLOCK FALSE
