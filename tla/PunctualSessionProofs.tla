------------------------ MODULE PunctualSessionProofs ------------------------
(***************************************************************************)
(* What holds of PunctualSession for every set of strikes, expiries and    *)
(* entry days and every bound on days, entries and crashes, when saves     *)
(* succeed and the mid-session authentication does not give up: no         *)
(* position outlives the day's trading hours.                              *)
(***************************************************************************)
EXTENDS PunctualSession, TradingSessionProofs

(* NothingHeldOvernight is about the state after 15:30 only; what makes it  *)
(* true happens before.  A process that has stopped remembers nothing, and  *)
(* after the midday ticks left nothing in the file either.                  *)
StoppedFlat ==
  ~Up => pos = NoPos /\ (slot > Midday => SavedPos = NoPos)

(* A pass begun after 15:10 has no position left once it is beyond the two  *)
(* forced exits, and can no longer enter; every pass begins in the past.    *)
FlatPieces == {"monitor", "entry", "sleep"}

LatePassFlat ==
  pc \notin {"off", "top"} =>
    /\ seen <= slot
    /\ seen = Eod =>
         /\ pc \in FlatPieces => pos = NoPos /\ SavedPos = NoPos
         /\ pc \notin {"sell", "hedge", "rollback"}
         /\ pc = "save" => pos = NoPos

\* After the close the process only finds out that the market is closed.
ClosedFlat ==
  slot = Closed => /\ pos = NoPos /\ SavedPos = NoPos
                   /\ pc \in {"off", "top", "sleep"}

NightInv ==
  /\ ExposureInv /\ JournalInv
  /\ seen \in Slots
  /\ StoppedFlat /\ LatePassFlat /\ ClosedFlat

-----------------------------------------------------------------------------
(* A step in time is a step of the session, and what it does to the pass.   *)
LEMMA InTimeIsSession == [PunctualNext]_pvars => [Next]_vars
  BY DEF PunctualNext, PunctualTick, WatchedCrash, PunctualLoop, Next, pvars,
     vars

LEMMA NightInit == PunctualInit => NightInv
<1> SUFFICES ASSUME PunctualInit PROVE NightInv
  OBVIOUS
<1>1. ExposureInv /\ JournalInv
  BY ExposureInit, JournalStart DEF PunctualInit
<1>2. seen \in Slots /\ StoppedFlat /\ LatePassFlat /\ ClosedFlat
  BY DEF PunctualInit, Init, Slots, PreOpen, Midday, Closed, StoppedFlat,
     LatePassFlat, ClosedFlat, Up
<1> QED BY <1>1, <1>2 DEF NightInv

LEMMA NightNext ==
  ASSUME ~DiskMayFail, ~AuthMayFail
  PROVE  NightInv /\ [PunctualNext]_pvars => NightInv'
<1> SUFFICES ASSUME NightInv, [PunctualNext]_pvars
             PROVE  seen' \in Slots /\ StoppedFlat' /\ LatePassFlat' /\ ClosedFlat'
  BY InTimeIsSession, ExposureNext, JournalNext DEF NightInv
<1> USE DEF world, memory, bounds, PreOpen, Opening, EntryWindow, Midday,
        ExitTime, Eod, Closed, FlatPieces
<1>type. /\ TypeOK /\ slot \in 0 .. 7 /\ seen \in 0 .. 7
         /\ pos \in Position \cup {NoPos}
  BY DEF NightInv, ExposureInv, TypeOK, Slots, MaybePosition
<1>file. disk' = disk => SavedPos' = SavedPos
  BY DEF SavedPos
<1>kept. pc \notin {"off", "record", "log", "save"} => SavedPos = pos
  BY DEF NightInv, JournalInv, Unwritten, Kept
(* The clock and the operator.                                              *)
<1>1. CASE PunctualTick
  <2>1. /\ slot < 7 /\ slot' = slot + 1 /\ seen' = seen
        /\ UNCHANGED <<disk, pc, pos>>
    BY <1>1 DEF PunctualTick, Tick
  <2>2. StoppedFlat'
    BY <1>1, <1>type, <1>file, <2>1
    DEF PunctualTick, InTime, NightInv, StoppedFlat, Up
  <2>3. LatePassFlat'
    BY <1>type, <1>file, <2>1 DEF NightInv, LatePassFlat
  <2>4. ASSUME slot' = 7
        PROVE  pos = NoPos /\ SavedPos = NoPos /\ pc \in {"off", "top", "sleep"}
    <3>1. slot = 6 /\ (~Up \/ PassDoneIn(6))
      BY <1>1, <1>type, <2>1, <2>4 DEF PunctualTick, InTime
    <3>2. CASE ~Up
      BY <3>1, <3>2 DEF NightInv, StoppedFlat, Up
    <3>3. CASE PassDoneIn(6)
      BY <3>3 DEF NightInv, LatePassFlat, PassDoneIn
    <3> QED BY <3>1, <3>2, <3>3
  <2> QED BY <1>type, <1>file, <2>1, <2>2, <2>3, <2>4 DEF ClosedFlat, Slots
<1>2. CASE NextDay /\ seen' = seen
  BY <1>2, <1>type
  DEF NextDay, NightInv, StoppedFlat, LatePassFlat, ClosedFlat, Up, Slots
<1>3. CASE (TouchHaltFile /\ seen' = seen) \/ UNCHANGED pvars
  <2>1. UNCHANGED <<slot, disk, pc, pos, seen>>
    BY <1>3 DEF TouchHaltFile, pvars, vars
  <2> QED BY <1>file, <2>1
          DEF NightInv, StoppedFlat, LatePassFlat, ClosedFlat, Up
(* The process goes: by a crash before the afternoon, or because the market *)
(* has closed.                                                              *)
<1>4. CASE WatchedCrash
  <2>1. /\ slot <= 3 /\ slot' = slot /\ seen' = seen
        /\ pc' = "off" /\ pos' = NoPos
    BY <1>4 DEF WatchedCrash, Crash, Vanish
  <2> QED BY <1>type, <2>1 DEF StoppedFlat, LatePassFlat, ClosedFlat, Slots
<1>5. CASE CloseMarket /\ PunctualLoop
  <2>1. /\ slot = 7 /\ slot' = slot /\ disk' = disk /\ seen' = slot
        /\ pc' = "off" /\ pos' = NoPos
    BY <1>5 DEF CloseMarket, Vanish, PunctualLoop
  <2>2. SavedPos' = NoPos
    BY <1>file, <2>1 DEF NightInv, ClosedFlat
  <2> QED BY <1>type, <2>1, <2>2
          DEF StoppedFlat, LatePassFlat, ClosedFlat, Slots
(* A relaunched process holds what the file says.                           *)
<1>6. CASE Start /\ seen' = seen
  <2>1. /\ slot' = slot /\ disk' = disk /\ pc' = "top" /\ ~Up
        /\ pos' = SavedPos
    BY <1>6, LoadedResumes DEF Start, NightInv, JournalInv
  <2>2. slot = 7 => SavedPos = NoPos
    BY DEF NightInv, ClosedFlat
  <2>3. SavedPos' = SavedPos
    BY <1>file, <2>1
  <2> QED BY <1>6, <1>type, <2>1, <2>2, <2>3
          DEF StoppedFlat, LatePassFlat, ClosedFlat, Up, Slots
(* The loop body begins and ends a pass.                                    *)
<1>7. CASE BeginPass /\ PunctualLoop
  <2>1. /\ slot # 7 /\ slot' = slot /\ seen' = slot
        /\ UNCHANGED <<disk, pos>>
        /\ pc' = IF slot \in 1 .. 6 THEN "halt" ELSE "sleep"
    BY <1>7 DEF BeginPass, PunctualLoop, InMarketHours
  <2> QED BY <1>type, <2>1
          DEF StoppedFlat, LatePassFlat, ClosedFlat, Up, Slots
<1>8. CASE Sleep /\ PunctualLoop
  <2>1. UNCHANGED <<slot, disk, pos, seen>> /\ pc = "sleep" /\ pc' = "top"
    BY <1>8 DEF Sleep, PunctualLoop
  <2> QED BY <1>type, <1>file, <2>1
          DEF NightInv, StoppedFlat, LatePassFlat, ClosedFlat, Up, Slots
(* Inside a pass the market is open, and the pass knows when it began.      *)
<1> DEFINE Inside == pc \notin {"off", "top", "sleep"} /\ UNCHANGED <<slot, seen>>
<1>open. Inside => /\ slot # 7 /\ slot' # 7 /\ seen <= slot
                   /\ seen' <= slot' /\ seen' \in Slots
  BY <1>type DEF NightInv, LatePassFlat, ClosedFlat, Slots
<1>pass. ASSUME Inside, pc' # "off",
                seen = 6 =>
                  /\ pc' \in {"monitor", "entry", "sleep"} =>
                       pos' = NoPos /\ SavedPos' = NoPos
                  /\ pc' \notin {"sell", "hedge", "rollback"}
                  /\ pc' = "save" => pos' = NoPos
         PROVE  seen' \in Slots /\ StoppedFlat' /\ LatePassFlat' /\ ClosedFlat'
  BY <1>pass, <1>open DEF StoppedFlat, LatePassFlat, ClosedFlat, Up
<1>exit. \A r : BeginExit(r) /\ pos' = pos =>
           \/ pc' = "exitShort"
           \/ pc' = "save" /\ pos' = NoPos
  BY DEF BeginExit, Active
<1> DEFINE Guards == \/ CheckHaltFile \/ PassAuth \/ DailyLossHalt \/ PassRisk
                     \/ CheckExpiryClose
<1>9. CASE Guards /\ seen' = seen
  <2>1. /\ pc \in {"halt", "auth", "risk", "expiry"} /\ slot' = slot
        /\ UNCHANGED <<disk, pos>>
        /\ \/ \E r : BeginExit(r)
           \/ pc' \in {"auth", "risk", "expiry", "eod"}
    BY <1>9 DEF CheckHaltFile, PassAuth, DailyLossHalt, PassRisk,
       CheckExpiryClose
  <2> QED BY <1>9, <1>pass, <1>exit, <2>1
(* The 15:10 exit: a pass that goes on past it holds nothing.               *)
<1>10. CASE CheckEod /\ seen' = seen
  <2>1. /\ pc = "eod" /\ slot' = slot /\ UNCHANGED <<disk, pos>>
        /\ \/ BeginExit("EOD")
           \/ pc' = "monitor" /\ (pos = NoPos \/ ~(slot >= 6))
    BY <1>10 DEF CheckEod, Active, PastEod
  <2>2. CASE BeginExit("EOD")
    BY <1>10, <1>pass, <1>exit, <2>1, <2>2
  <2>3. CASE pc' = "monitor" /\ (pos = NoPos \/ ~(slot >= 6))
    <3>1. seen = 6 => pos = NoPos
      BY <1>type, <1>open, <1>10, <2>1, <2>3
    <3> QED BY <1>10, <1>pass, <1>file, <1>kept, <2>1, <2>3, <3>1
  <2> QED BY <2>1, <2>2, <2>3
<1>11. CASE (Monitor \/ SkipEntry) /\ seen' = seen
  <2>1. /\ pc \in {"monitor", "entry"} /\ slot' = slot /\ UNCHANGED <<disk, pos>>
        /\ \/ pos # NoPos /\ \E r : BeginExit(r)
           \/ pc' \in {"entry", "sleep"}
    BY <1>11 DEF Monitor, SkipEntry, Active, ExpiryDue
  <2>2. seen = 6 => pos = NoPos /\ SavedPos = NoPos
    BY <2>1 DEF NightInv, LatePassFlat
  <2> QED BY <1>11, <1>pass, <1>exit, <1>file, <2>1, <2>2
(* An entry begins inside the window only, long before 15:10.               *)
<1>12. CASE AttemptEntry /\ seen' = seen
  <2>1. /\ pc = "entry" /\ slot = 2 /\ slot' = slot /\ pc' = "sell"
    BY <1>12 DEF AttemptEntry, MayEnter, InEntryWindow
  <2>2. seen # 6
    BY <1>type, <1>open, <1>12, <2>1
  <2> QED BY <1>12, <1>pass, <2>1, <2>2
<1> DEFINE Orders == \/ SellFilled \/ SellRefused \/ HedgeFilled \/ HedgeRefused
                     \/ RollbackFilled \/ RollbackRefused
<1>13. CASE Orders /\ seen' = seen
  <2>1. /\ pc \in {"sell", "hedge", "rollback"} /\ slot' = slot
        /\ pc' \in {"hedge", "rollback", "save", "sleep"}
    BY <1>13 DEF SellFilled, SellRefused, HedgeFilled, HedgeRefused,
       RollbackFilled, RollbackRefused
  <2>2. seen # 6
    BY <2>1 DEF NightInv, LatePassFlat
  <2> QED BY <1>13, <1>pass, <2>1, <2>2
(* The two closing orders leave no position, and the save writes none.      *)
<1>14. CASE Exit /\ seen' = seen
  <2>1. CASE ExitShortFilled \/ ExitShortRefused
    <3>1. pc = "exitShort" /\ slot' = slot /\ pc' = "exitLong"
      BY <2>1 DEF ExitShortFilled, ExitShortRefused
    <3> QED BY <1>14, <1>pass, <3>1
  <2>2. CASE ExitLongFilled \/ ExitLongRefused \/ RecordExit
    <3>1. /\ pc \in {"exitLong", "record"} /\ slot' = slot
          /\ pc' \in {"record", "log"}
      BY <2>2 DEF ExitLongFilled, ExitLongRefused, RecordExit
    <3> QED BY <1>14, <1>pass, <3>1
  <2>3. CASE LogExit
    <3>1. /\ pc = "log" /\ slot' = slot /\ pc' = "save" /\ pos' = pos
          /\ pos = NoPos
      BY <2>3 DEF LogExit, NightInv, ExposureInv, Stage
    <3> QED BY <1>14, <1>pass, <3>1
  <2> QED BY <1>14, <2>1, <2>2, <2>3 DEF Exit
<1>saved. SaveAndContinue \/ SaveAndBreak => SavedPos' = pos
  <2> SUFFICES ASSUME SaveAndContinue \/ SaveAndBreak PROVE SavedPos' = pos
    OBVIOUS
  <2>1. disk' = SnapshotNow
    BY DEF SaveAndContinue, SaveAndBreak, WriteSnapshot
  <2>2. SnapshotNow # NoFile
    BY <1>type, SnapshotTyped, SnapshotAssumption
  <2> QED BY <2>1, <2>2 DEF SavedPos, SnapshotNow
<1>15. CASE SaveAndContinue /\ seen' = seen
  <2>1. /\ pc = "save" /\ slot' = slot /\ pos' = pos
        /\ pc' \in {"eod", "monitor", "sleep", "entry"}
    BY <1>15 DEF SaveAndContinue, Continuation
  <2>2. seen = 6 => pos = NoPos
    BY <2>1 DEF NightInv, LatePassFlat
  <2> QED BY <1>15, <1>pass, <1>saved, <2>1, <2>2
<1>16. CASE SaveAndBreak /\ seen' = seen
  <2>1. /\ pc = "save" /\ slot' = slot /\ pc' = "off" /\ pos' = NoPos
        /\ pos = NoPos
    BY <1>16 DEF SaveAndBreak, Vanish, LastReasons, FlatReasons, NightInv,
       ExposureInv, Stage
  <2>2. SavedPos' = NoPos
    BY <1>16, <1>saved, <2>1
  <2> QED BY <1>type, <1>16, <2>1, <2>2
          DEF StoppedFlat, LatePassFlat, ClosedFlat, Slots
(* Every step of the loop is one of these.                                  *)
<1>17. ASSUME PunctualLoop
       PROVE  \/ CloseMarket \/ BeginPass
              \/ /\ seen' = seen
                 /\ \/ Guards \/ CheckEod \/ Monitor \/ SkipEntry
                    \/ AttemptEntry \/ Orders \/ Exit
                    \/ SaveAndContinue \/ SaveAndBreak \/ Sleep
  <2>1. CASE pc = "top"
    BY <1>17, <2>1
    DEF PunctualLoop, Loop, CheckHaltFile, PassAuth, FailAuth,
        DailyLossHalt, PassRisk, CheckExpiryClose, CheckEod, Monitor, Enter,
        AttemptEntry, SkipEntry, SellFilled, SellRefused, HedgeFilled,
        HedgeRefused, RollbackFilled, RollbackRefused, Exit,
        ExitShortFilled, ExitShortRefused, ExitLongFilled, ExitLongRefused,
        RecordExit, LogExit, SaveAndContinue, SaveAndBreak, Sleep
  <2>2. CASE pc # "top"
    BY <1>17, <2>2 DEF PunctualLoop, Loop, FailAuth, Enter
  <2> QED BY <2>1, <2>2
<1>18. CASE PunctualLoop
  BY <1>18, <1>5, <1>7, <1>8, <1>9, <1>10, <1>11, <1>12, <1>13, <1>14,
     <1>15, <1>16, <1>17
<1> QED BY <1>1, <1>2, <1>3, <1>4, <1>6, <1>18 DEF PunctualNext

(* As long as saves succeed and nobody asks for a login in vain, no spread  *)
(* is held after 15:30, in memory or in the state file: not by a process    *)
(* whose entry filled late, not by one relaunched on an old file, and not   *)
(* by a stop the operator asked for.                                        *)
THEOREM NightCorrect ==
  ASSUME ~DiskMayFail, ~AuthMayFail
  PROVE  PunctualSpec => []NothingHeldOvernight
<1>1. NightInv /\ [PunctualNext]_pvars => NightInv'
  BY NightNext
<1>2. NightInv => NothingHeldOvernight
  BY DEF NightInv, ClosedFlat, NothingHeldOvernight
<1> QED BY NightInit, <1>1, <1>2, PTL DEF PunctualSpec
=============================================================================
