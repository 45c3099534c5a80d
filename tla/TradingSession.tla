--------------------------- MODULE TradingSession ---------------------------
(***************************************************************************)
(* One trading process: main.run() with the PCRCreditSpreadStrategy it     *)
(* drives, the paper order manager and tracker, the P&L engine, the risk   *)
(* manager and the state file, under a clock that moves between any two    *)
(* steps, an operator who may create or remove the HALT file, crashes, and *)
(* relaunches by the watch loop or by hand.                                *)
(*                                                                         *)
(* The loop body is cut where a crash leaves something different behind or *)
(* where the code reads the clock, the HALT file or an order result.  pc   *)
(* names the next piece of the body to run, "off" that no process runs.    *)
(***************************************************************************)
EXTENDS Snapshot

CONSTANTS
  EntryDays,        \* trading days that are a Monday or a Tuesday
  TradePnls,        \* gross P&L a closed trade may book
  DailyMaxLoss,     \* settings.DAILY_MAX_LOSS
  PaperTradeMode,   \* settings.PAPER_TRADE_MODE
  DiskMayFail,      \* may a write be lost, or the state file get corrupted?
  AuthMayFail,      \* may the mid-session auth gate give up?
  MaxDay,           \* bound: trading days explored
  MaxEntries,       \* bound: entry attempts that reach an order
  MaxCrashes,       \* bound: crashes
  MaxLostSaves,     \* bound: saves that fail
  MaxLostRows       \* bound: rows that are not written

ASSUME SessionAssumption ==
  /\ EntryDays \subseteq Nat
  /\ TradePnls \subseteq Int
  /\ DailyMaxLoss \in Int /\ DailyMaxLoss < 0
  /\ PaperTradeMode \in BOOLEAN
  /\ DiskMayFail \in BOOLEAN
  /\ AuthMayFail \in BOOLEAN
  /\ MaxDay \in Nat \ {0}
  /\ MaxEntries \in Nat
  /\ MaxCrashes \in Nat
  /\ MaxLostSaves \in Nat
  /\ MaxLostRows \in Nat

VARIABLES
  \* the world
  day, slot,     \* trading day and stretch of that day
  haltFile,      \* does data/HALT exist?
  disk,          \* data/open_positions.json
  rows,          \* rows appended to data/paper_trades.csv
  \* the process
  pc,            \* next piece of the loop body
  why,           \* reason of the exit or save in progress
  plan,          \* the spread enter() is sending orders for
  pos,           \* strat.pos
  tracker,       \* pos_mgr._positions
  pnl,           \* pnl_engine counters
  halted,        \* risk.halted
  notified,      \* risk._paper_cap_notified
  \* history
  orphan,        \* legs left in the tracker by refused closing orders
  haltDay,       \* last day a daily loss halt was completed, 0 before the first
  entries,       \* entry attempts so far
  crashes,       \* crashes so far
  lost,          \* saves that failed so far
  unwritten      \* rows that could not be written so far

world   == <<day, slot, haltFile>>
memory  == <<pos, tracker, pnl, halted, notified, orphan>>
bounds  == <<entries, crashes, lost, unwritten>>
vars == <<day, slot, haltFile, disk, rows, pc, why, plan, pos, tracker,
          pnl, halted, notified, orphan, haltDay, entries, crashes, lost,
          unwritten>>

-----------------------------------------------------------------------------
(* The clock, cut at the times the code compares it with.                   *)

PreOpen     == 0    \* before 09:15
Opening     == 1    \* 09:15 - 09:20
EntryWindow == 2    \* 09:20 - 10:00
Midday      == 3    \* 10:00 - 14:45
ExitTime    == 4    \* 14:45 - 15:00, PCS_EXIT_TIME
ExpiryClose == 5    \* 15:00 - 15:10
Eod         == 6    \* 15:10 - 15:30
Closed      == 7    \* after 15:30

Slots == PreOpen .. Closed

\* Mutant: the 15:10 exit waits until the loop has stopped.
PastEodTooLate   == slot > Eod

InMarketHours    == slot \in Opening .. Eod
InEntryWindow    == slot = EntryWindow
PastExitTime     == slot >= ExitTime
PastExpiryClose  == slot >= ExpiryClose
PastEod          == slot >= Eod
IsEntryDay       == day \in EntryDays

\* ExpiryManager.get_expiry: the nearest expiry that is not in the past.
IsNearestExpiry(e) ==
  /\ e \in Expiries /\ e >= day
  /\ \A f \in Expiries : f >= day => e <= f

-----------------------------------------------------------------------------
Active == pos # NoPos
Up     == pc # "off"

ExitReasons == {"HALT_FILE", "DAILY_LOSS_HALT", "EOD_EXPIRY", "EOD",
                "PCS_STOP", "EXPIRY_CLOSE"}
FlatReasons == {"HALT_FILE", "DAILY_LOSS_HALT", "EOD"}   \* saved as FLAT
LastReasons == {"HALT_FILE", "DAILY_LOSS_HALT"}          \* break the loop

\* Where the body goes on after the save made for a reason.
Continuation(r) ==
  CASE r = "EOD_EXPIRY" -> "eod"
    [] r = "EOD"        -> "monitor"
    [] r = "ENTRY"      -> "sleep"
    [] OTHER            -> "entry"

Pieces == {"off", "top", "halt", "auth", "risk", "expiry", "eod", "monitor",
           "entry", "sell", "hedge", "rollback", "exitShort", "exitLong",
           "record", "log", "save", "sleep"}

\* The process is gone: nothing of it but the files remains.
Vanish ==
  /\ pc' = "off" /\ why' = "none" /\ plan' = NoPos
  /\ pos' = NoPos /\ tracker' = Flat /\ orphan' = Flat
  /\ pnl' = ZeroPnl /\ halted' = FALSE /\ notified' = FALSE

Init ==
  /\ day = 1 /\ slot = PreOpen /\ haltFile = FALSE
  /\ disk = NoFile /\ rows = 0
  /\ pc = "off" /\ why = "none" /\ plan = NoPos
  /\ pos = NoPos /\ tracker = Flat /\ orphan = Flat
  /\ pnl = ZeroPnl /\ halted = FALSE /\ notified = FALSE
  /\ haltDay = 0 /\ entries = 0 /\ crashes = 0 /\ lost = 0 /\ unwritten = 0

-----------------------------------------------------------------------------
(* The world.                                                               *)

Tick ==
  /\ slot < Closed
  /\ slot' = slot + 1
  /\ UNCHANGED <<day, haltFile, disk, rows, pc, why, plan, memory,
                 haltDay, bounds>>

\* A process that sees 15:30 stops, so none lives through a night.
NextDay ==
  /\ slot = Closed /\ ~Up /\ day < MaxDay
  /\ day' = day + 1
  /\ slot' = PreOpen
  /\ UNCHANGED <<haltFile, disk, rows, pc, why, plan, memory, haltDay,
                 bounds>>

\* touch data/HALT, rm data/HALT
TouchHaltFile ==
  /\ haltFile' = ~haltFile
  /\ UNCHANGED <<day, slot, disk, rows, pc, why, plan, memory, haltDay,
                 bounds>>

\* SIGKILL, power loss or an exception the loop does not catch.
Crash ==
  /\ Up /\ crashes < MaxCrashes
  /\ crashes' = crashes + 1
  /\ Vanish
  /\ \/ disk' = disk
     \/ DiskMayFail /\ disk # NoFile /\ disk' = Corrupt
  /\ UNCHANGED <<world, rows, haltDay, entries, lost, unwritten>>

\* run() up to the loop; a corrupt state file is moved out of the way.
Start ==
  /\ ~Up
  /\ LET m == Loaded(disk, day) IN
       /\ pos' = m.pos /\ tracker' = m.tracker /\ orphan' = m.orphan
       /\ pnl' = m.pnl /\ halted' = m.halted
  /\ notified' = FALSE
  /\ disk' = IF disk = Corrupt THEN NoFile ELSE disk
  /\ pc' = "top"
  /\ UNCHANGED <<world, rows, why, plan, haltDay, bounds>>

-----------------------------------------------------------------------------
(* The guards at the head of the loop body.                                 *)

\* The head of the loop outside market hours, and inside them.
CloseMarket ==
  /\ pc = "top" /\ slot = Closed
  /\ Vanish
  /\ UNCHANGED <<world, disk, rows, haltDay, bounds>>

BeginPass ==
  /\ pc = "top" /\ slot # Closed
  /\ pc' = IF InMarketHours THEN "halt" ELSE "sleep"
  /\ UNCHANGED <<world, disk, rows, why, plan, memory, haltDay, bounds>>

\* An exit for reason r: force_exit when a spread is held, the save if not.
BeginExit(r) ==
  /\ why' = r
  /\ pc' = IF Active THEN "exitShort" ELSE "save"

\* Mutant: the HALT file stops the loop without closing the spread.
CheckHaltFileNoExit ==
  /\ pc = "halt"
  /\ \/ haltFile /\ why' = "HALT_FILE" /\ pc' = "save"
     \/ ~haltFile /\ pc' = "auth" /\ why' = why
  /\ UNCHANGED <<world, disk, rows, plan, memory, haltDay, bounds>>

CheckHaltFile ==
  /\ pc = "halt"
  /\ \/ haltFile /\ BeginExit("HALT_FILE")
     \/ ~haltFile /\ pc' = "auth" /\ why' = why
  /\ UNCHANGED <<world, disk, rows, plan, memory, haltDay, bounds>>

\* The auth gate is not due, or the session is valid or was renewed ...
PassAuth ==
  /\ pc = "auth"
  /\ pc' = "risk"
  /\ UNCHANGED <<world, disk, rows, why, plan, memory, haltDay, bounds>>

\* ... or the gate gives up: break, without an exit and without a save.
FailAuth ==
  /\ pc = "auth" /\ AuthMayFail
  /\ Vanish
  /\ UNCHANGED <<world, disk, rows, haltDay, bounds>>

\* check_daily_loss_cap finds the cap breached and still has to say so.
CapBreached == ~halted /\ ~notified /\ pnl.dayRealised < DailyMaxLoss

DailyLossHalt ==
  /\ pc = "risk" /\ ~PaperTradeMode
  /\ halted \/ CapBreached
  /\ halted' = TRUE
  /\ BeginExit("DAILY_LOSS_HALT")
  /\ UNCHANGED <<world, disk, rows, plan, pos, tracker, pnl, notified,
                 orphan, haltDay, bounds>>

PassRisk ==
  /\ pc = "risk"
  /\ PaperTradeMode \/ (~halted /\ ~CapBreached)
  /\ notified' = (notified \/ CapBreached)
  /\ pc' = "expiry"
  /\ UNCHANGED <<world, disk, rows, why, plan, pos, tracker, pnl,
                 halted, orphan, haltDay, bounds>>

CheckExpiryClose ==
  /\ pc = "expiry"
  /\ IF Active /\ PastExpiryClose /\ pos.expiry = day
       THEN BeginExit("EOD_EXPIRY")
       ELSE pc' = "eod" /\ why' = why
  /\ UNCHANGED <<world, disk, rows, plan, memory, haltDay, bounds>>

CheckEod ==
  /\ pc = "eod"
  /\ IF Active /\ PastEod
       THEN BeginExit("EOD")
       ELSE pc' = "monitor" /\ why' = why
  /\ UNCHANGED <<world, disk, rows, plan, memory, haltDay, bounds>>

\* strat.monitor(): on expiry day the time decides before any price does;
\* otherwise fresh prices may show a loss beyond the stop, or not.
ExpiryDue == Active /\ pos.expiry = day /\ PastExitTime

Monitor ==
  /\ pc = "monitor"
  /\ \/ ExpiryDue /\ BeginExit("EXPIRY_CLOSE")
     \/ Active /\ ~ExpiryDue /\ BeginExit("PCS_STOP")
     \/ ~ExpiryDue /\ pc' = "entry" /\ why' = why
  /\ UNCHANGED <<world, disk, rows, plan, memory, haltDay, bounds>>

-----------------------------------------------------------------------------
(* PCRCreditSpreadStrategy.enter                                            *)

MayEnter == ~Active /\ ~halted /\ IsEntryDay /\ InEntryWindow

\* Spot, PCR, expiry, both quotes and enough credit are there ...
AttemptEntry ==
  /\ pc = "entry" /\ MayEnter
  /\ entries < MaxEntries
  /\ \E p \in Position : IsNearestExpiry(p.expiry) /\ plan' = p
  /\ entries' = entries + 1
  /\ pc' = "sell"
  /\ UNCHANGED <<world, disk, rows, why, memory, haltDay, crashes,
                 lost, unwritten>>

\* ... or one of them is missing, or the loop may not enter.
SkipEntry ==
  /\ pc = "entry"
  /\ pc' = "sleep"
  /\ UNCHANGED <<world, disk, rows, why, plan, memory, haltDay, bounds>>

\* Leg 1, SELL the short strike.
SellFilled ==
  /\ pc = "sell"
  /\ tracker' = AddPosition(tracker, ShortSym(plan), "S")
  /\ pc' = "hedge"
  /\ UNCHANGED <<world, disk, rows, why, plan, pos, pnl, halted,
                 notified, orphan, haltDay, bounds>>

SellRefused ==
  /\ pc = "sell"
  /\ plan' = NoPos /\ pc' = "sleep"
  /\ UNCHANGED <<world, disk, rows, why, memory, haltDay, bounds>>

\* Leg 2, BUY the long strike: only now does the strategy hold a position.
HedgeFilled ==
  /\ pc = "hedge"
  /\ tracker' = AddPosition(tracker, LongSym(plan), "B")
  /\ pos' = plan /\ plan' = NoPos
  /\ why' = "ENTRY" /\ pc' = "save"
  /\ UNCHANGED <<world, disk, rows, pnl, halted, notified, orphan,
                 haltDay, bounds>>

\* Mutant: no rollback.
HedgeRefusedNoRollback ==
  /\ pc = "hedge"
  /\ plan' = NoPos /\ pc' = "sleep"
  /\ UNCHANGED <<world, disk, rows, why, memory, haltDay, bounds>>

HedgeRefused ==
  /\ pc = "hedge"
  /\ pc' = "rollback"
  /\ UNCHANGED <<world, disk, rows, why, plan, memory, haltDay, bounds>>

\* BUY the short strike back; enter() does not look at the result.
RollbackFilled ==
  /\ pc = "rollback"
  /\ tracker' = AddPosition(tracker, ShortSym(plan), "B")
  /\ plan' = NoPos /\ pc' = "sleep"
  /\ UNCHANGED <<world, disk, rows, why, pos, pnl, halted, notified,
                 orphan, haltDay, bounds>>

RollbackRefused ==
  /\ pc = "rollback"
  /\ orphan' = AddPosition(orphan, ShortSym(plan), "S")
  /\ plan' = NoPos /\ pc' = "sleep"
  /\ UNCHANGED <<world, disk, rows, why, pos, tracker, pnl, halted,
                 notified, haltDay, bounds>>

-----------------------------------------------------------------------------
(* PCRCreditSpreadStrategy._execute_exit, and what main does with the       *)
(* record it returns.  Neither looks at the status of a closing order.      *)

ExitShortFilled ==
  /\ pc = "exitShort"
  /\ tracker' = AddPosition(tracker, ShortSym(pos), "B")
  /\ pc' = "exitLong"
  /\ UNCHANGED <<world, disk, rows, why, plan, pos, pnl, halted,
                 notified, orphan, haltDay, bounds>>

ExitShortRefused ==
  /\ pc = "exitShort"
  /\ orphan' = AddPosition(orphan, ShortSym(pos), "S")
  /\ pc' = "exitLong"
  /\ UNCHANGED <<world, disk, rows, why, plan, pos, tracker, pnl,
                 halted, notified, haltDay, bounds>>

ExitLongFilled ==
  /\ pc = "exitLong"
  /\ tracker' = AddPosition(tracker, LongSym(pos), "S")
  /\ pos' = NoPos /\ pc' = "record"
  /\ UNCHANGED <<world, disk, rows, why, plan, pnl, halted, notified,
                 orphan, haltDay, bounds>>

ExitLongRefused ==
  /\ pc = "exitLong"
  /\ orphan' = AddPosition(orphan, LongSym(pos), "B")
  /\ pos' = NoPos /\ pc' = "record"
  /\ UNCHANGED <<world, disk, rows, why, plan, tracker, pnl, halted,
                 notified, haltDay, bounds>>

(* log_trade, for a row that is asked for: a row that cannot be written is  *)
(* only logged, and the caller goes on as if it had been.                   *)
AppendRow ==
  \/ rows' = rows + 1 /\ unwritten' = unwritten
  \/ /\ DiskMayFail /\ unwritten < MaxLostRows
     /\ rows' = rows /\ unwritten' = unwritten + 1

\* Mutant: the trade is counted and not logged.
RecordExitUnlogged ==
  /\ pc = "record"
  /\ \E amount \in TradePnls : pnl' = RecordTrade(pnl, amount)
  /\ pc' = "log"
  /\ UNCHANGED <<world, disk, rows, why, plan, pos, tracker, halted,
                 notified, orphan, haltDay, bounds>>

\* pnl_engine.record_trade counts the trade and logs a row of its own ...
RecordExit ==
  /\ pc = "record"
  /\ \E amount \in TradePnls : pnl' = RecordTrade(pnl, amount)
  /\ AppendRow
  /\ pc' = "log"
  /\ UNCHANGED <<world, disk, why, plan, pos, tracker, halted, notified,
                 orphan, haltDay, entries, crashes, lost>>

\* Mutant: the save after an exit is forgotten.
LogExitUnsaved ==
  /\ pc = "log"
  /\ AppendRow
  /\ pc' = Continuation(why)
  /\ UNCHANGED <<world, disk, why, plan, memory, haltDay, entries, crashes,
                 lost>>

\* ... and then main calls trade_logger.log_trade.
LogExit ==
  /\ pc = "log"
  /\ AppendRow
  /\ pc' = "save"
  /\ UNCHANGED <<world, disk, why, plan, memory, haltDay, entries, crashes,
                 lost>>

-----------------------------------------------------------------------------
(* position_persistence.save: replaced atomically, or the exception is      *)
(* swallowed and the old file stays.                                        *)

SnapshotNow ==
  [status |-> IF why \in FlatReasons THEN "FLAT" ELSE "ACTIVE",
   date |-> day, pos |-> pos, tracker |-> tracker, orphan |-> orphan,
   pnl |-> pnl, halted |-> halted]

WriteSnapshot ==
  \/ disk' = SnapshotNow /\ lost' = lost
  \/ /\ DiskMayFail /\ lost < MaxLostSaves
     /\ disk' = disk /\ lost' = lost + 1

SaveAndContinue ==
  /\ pc = "save" /\ why \notin LastReasons
  /\ WriteSnapshot
  /\ pc' = Continuation(why) /\ why' = "none"
  /\ UNCHANGED <<world, rows, plan, memory, haltDay, entries, crashes,
                 unwritten>>

SaveAndBreak ==
  /\ pc = "save" /\ why \in LastReasons
  /\ WriteSnapshot
  /\ Vanish
  /\ haltDay' = IF why = "DAILY_LOSS_HALT" THEN day ELSE haltDay
  /\ UNCHANGED <<world, rows, entries, crashes, unwritten>>

Sleep ==
  /\ pc = "sleep"
  /\ pc' = "top"
  /\ UNCHANGED <<world, disk, rows, why, plan, memory, haltDay, bounds>>

-----------------------------------------------------------------------------
Enter == \/ AttemptEntry \/ SkipEntry
         \/ SellFilled \/ SellRefused
         \/ HedgeFilled \/ HedgeRefused
         \/ RollbackFilled \/ RollbackRefused

Exit == \/ ExitShortFilled \/ ExitShortRefused
        \/ ExitLongFilled \/ ExitLongRefused
        \/ RecordExit \/ LogExit

\* A step of the running process.
Loop == \/ CloseMarket \/ BeginPass \/ CheckHaltFile
        \/ PassAuth \/ FailAuth
        \/ DailyLossHalt \/ PassRisk
        \/ CheckExpiryClose \/ CheckEod \/ Monitor
        \/ Enter \/ Exit
        \/ SaveAndContinue \/ SaveAndBreak \/ Sleep

Next == Tick \/ NextDay \/ TouchHaltFile \/ Crash \/ Start \/ Loop

Spec == Init /\ [][Next]_vars

-----------------------------------------------------------------------------
(* Types.                                                                   *)

TypeOK ==
  /\ day \in 1 .. MaxDay /\ slot \in Slots /\ haltFile \in BOOLEAN
  /\ disk \in Snapshots \cup {NoFile, Corrupt}
  /\ rows \in Nat
  /\ pc \in Pieces
  /\ why \in ExitReasons \cup {"none", "ENTRY"}
  /\ plan \in MaybePosition /\ pos \in MaybePosition
  /\ tracker \in Books /\ orphan \in Books
  /\ pnl \in PnlState
  /\ halted \in BOOLEAN /\ notified \in BOOLEAN
  /\ haltDay \in 0 .. MaxDay
  /\ entries \in Nat /\ crashes \in Nat /\ lost \in Nat /\ unwritten \in Nat

-----------------------------------------------------------------------------
(* Safety.                                                                  *)

\* What the orders already sent should have put into the tracker.
InFlight ==
  IF pc \in {"hedge", "rollback"} THEN ShortLeg(plan)
  ELSE IF pc = "exitLong" THEN LongLeg(pos)
  ELSE Exposure(pos)

(* The tracker explains itself: at every point of the loop, also inside the *)
(* two-leg entry, the rollback and the two-leg exit, and whatever was       *)
(* restored from disk, each open quantity is the recorded spread, the leg   *)
(* in flight, or a leg that a refused closing order left behind.            *)
ExposureExplained ==
  Up => \A s \in Symbols : tracker[s] = InFlight[s] + orphan[s]

(* A crash between two passes of the loop changes next to nothing: a new    *)
(* process would restore exactly the position, the P&L counters and the     *)
(* halt flag that the running one holds, and the very quantities that the   *)
(* tracker holds for them, although the loop saves only after some events.  *)
(* What it may lose, or bring back, are the legs left by refused closing    *)
(* orders and rollbacks: an enter that returns False is not saved           *)
(* (main.py:469-470), and a FLAT file does not restore the tracker.         *)
RestartTransparent ==
  pc \in {"top", "sleep"} =>
    LET m == Loaded(disk, day) IN
      /\ m.pos = pos /\ m.pnl = pnl /\ m.halted = halted
      /\ \A s \in Symbols : m.tracker[s] - m.orphan[s] = tracker[s] - orphan[s]

(* The daily loss halt sticks: on a day that check_daily_loss_cap ended, no *)
(* process launched afterwards sends another opening order, whatever the    *)
(* snapshots in between were and although a flat session restores neither   *)
(* the tracker nor, a day later, anything else.                             *)
DailyHaltSticks ==
  pc \in {"sell", "hedge", "rollback"} => haltDay # day

(* The audit trail: for a trade that any counter knows of, also one in an   *)
(* old snapshot that a lost save left in place, both rows of                *)
(* paper_trades.csv have been tried, the second not yet by a process that   *)
(* is about to: a row is missing only if its own write failed, never        *)
(* because a crash came between the row, the counter and the save.          *)
TradesAreLogged ==
  LET tried == rows + unwritten
  IN /\ Up => 2 * pnl.trades <= tried + (IF pc = "log" THEN 1 ELSE 0)
     /\ disk \in Snapshots => 2 * disk.pnl.trades <= tried

(* The state file is a trade journal.                                       *)
SavedPos == IF disk = NoFile THEN NoPos ELSE disk.pos
SavedOn  == IF disk = NoFile THEN 0 ELSE disk.date
SavedPnl == IF disk = NoFile THEN ZeroPnl ELSE disk.pnl

Journal == INSTANCE TradeJournal
             WITH Spreads <- Position, Amounts <- TradePnls, None <- NoPos,
                  held <- SavedPos, date <- SavedOn,
                  trades <- SavedPnl.dayTrades, booked <- SavedPnl.dayRealised

(* Every change of the state file is a legal journal entry: no position is  *)
(* overwritten, lost or counted twice across crashes, restarts and nights.  *)
ImplementsJournal == Journal!Spec

-----------------------------------------------------------------------------
(* What the documents and comments of the repository say.                   *)

\* position_persistence.py: a flat session means no open positions.
FlatMeansNoPositions ==
  disk \in Snapshots /\ disk.status = "FLAT" => ~HasOpenPositions(disk.tracker)

\* paper_pnl_engine.py: the cumulative counters are persisted across restarts.
CumulativeSurvives ==
  [][~Up /\ pc' # "off" /\ disk # NoFile => pnl'.trades = disk.pnl.trades]_vars

\* axioms.md, GO_LIVE_CHECKLIST.md: a breach of the daily loss cap halts
\* entries.
CapBreachHaltsEntries ==
  pc = "sell" /\ ~PaperTradeMode => pnl.dayRealised >= DailyMaxLoss

\* axioms.md: uncertain exposure halts new entries.
UncertainExposureHaltsEntries ==
  pc = "sell" => orphan = Flat
=============================================================================
