------------------------ MODULE TradingSessionProofs ------------------------
(***************************************************************************)
(* What holds of TradingSession for every set of strikes, expiries and     *)
(* signals, every loss cap and every bound on days, entries, crashes and   *)
(* lost saves and rows.                                                    *)
(***************************************************************************)
EXTENDS TradingSession, TLAPS

-----------------------------------------------------------------------------
(* The operators return what their names say.                               *)

(* The flat book is a book, and so is the result of one fill.               *)
LEMMA FlatTyped == Flat \in Books
  BY DEF Flat, Books

LEMMA AddPositionTyped ==
  ASSUME NEW book \in Books, NEW sym, NEW side
  PROVE  AddPosition(book, sym, side) \in Books
<1> DEFINE new == AddPosition(book, sym, side)
<1>1. \A s \in Symbols : new[s] \in Int
  BY DEF AddPosition, Books
<1>2. new = [s \in Symbols |-> new[s]]
  BY DEF AddPosition, Books
<1> QED BY ONLY <1>1, <1>2 DEF Books

(* Fresh, booked and restored counters are counters.                        *)
LEMMA ZeroTyped == ZeroPnl \in PnlState
  BY DEF ZeroPnl, PnlState

LEMMA RecordTradeTyped ==
  ASSUME NEW p \in PnlState, NEW x \in TradePnls
  PROVE  RecordTrade(p, x) \in PnlState
  BY SessionAssumption DEF RecordTrade, PnlState

LEMMA RestorePnlTyped ==
  ASSUME NEW p \in PnlState, NEW stale
  PROVE  RestorePnl(p, stale) \in PnlState
<1>1. CASE stale
  <2>1. RestorePnl(p, stale) =
          [realised |-> p.realised, trades |-> p.trades,
           dayRealised |-> 0, dayTrades |-> 0]
    BY <1>1 DEF RestorePnl, PnlState
  <2> QED BY <2>1 DEF PnlState
<1>2. CASE ~stale
  BY <1>2 DEF RestorePnl
<1> QED BY <1>1, <1>2

(* load puts a well-formed memory into the new process.                     *)
LEMMA LoadedTyped ==
  ASSUME NEW d \in Snapshots \cup {NoFile, Corrupt}, NEW today \in Nat
  PROVE  Loaded(d, today) \in Memories
<1>1. Fresh \in Memories
  BY FlatTyped, ZeroTyped DEF Fresh, Memories, MaybePosition
<1>2. CASE d \in {NoFile, Corrupt}
  BY <1>1, <1>2 DEF Loaded
<1>3. CASE d \notin {NoFile, Corrupt}
  <2>1. d \in Snapshots
    BY <1>3
  <2> DEFINE stale == d.date # today
  <2>2. CASE d.status = "FLAT"
    BY <1>1, <1>3, <2>1, <2>2, FlatTyped DEF Loaded, Snapshots, Memories
  <2>3. CASE d.status # "FLAT"
    <3>1. Loaded(d, today) =
            [pos |-> d.pos, tracker |-> d.tracker, orphan |-> d.orphan,
             pnl |-> RestorePnl(d.pnl, stale), halted |-> ~stale /\ d.halted]
      BY <1>3, <2>3 DEF Loaded
    <3>2. RestorePnl(d.pnl, stale) \in PnlState
      BY <2>1, RestorePnlTyped DEF Snapshots
    <3> QED BY <2>1, <3>1, <3>2 DEF Snapshots, Memories
  <2> QED BY <2>2, <2>3
<1> QED BY <1>2, <1>3

(* What save writes is a well-formed snapshot.                              *)
LEMMA SnapshotTyped == TypeOK => SnapshotNow \in Snapshots
<1> SUFFICES ASSUME TypeOK PROVE SnapshotNow \in Snapshots
  OBVIOUS
<1>1. day \in Nat
  BY SessionAssumption DEF TypeOK
<1> QED BY <1>1 DEF TypeOK, SnapshotNow, Snapshots, SessionStatus

LEMMA ContinuationTyped == \A r : Continuation(r) \in Pieces \ {"off"}
  BY DEF Continuation, Pieces

-----------------------------------------------------------------------------
(* Types.                                                                   *)

LEMMA TypeInit == Init => TypeOK
<1> SUFFICES ASSUME Init PROVE TypeOK
  OBVIOUS
<1>1. day \in 1 .. MaxDay /\ haltDay \in 0 .. MaxDay
  BY SessionAssumption DEF Init
<1>2. slot \in Slots /\ pc \in Pieces
  BY DEF Init, Slots, PreOpen, Closed, Pieces
<1>3. /\ plan \in MaybePosition /\ pos \in MaybePosition
      /\ tracker \in Books /\ orphan \in Books /\ pnl \in PnlState
  BY FlatTyped, ZeroTyped DEF Init, MaybePosition
<1> QED BY <1>1, <1>2, <1>3 DEF Init, TypeOK

LEMMA TypeNext == TypeOK /\ [Next]_vars => TypeOK'
<1> SUFFICES ASSUME TypeOK, [Next]_vars PROVE TypeOK'
  OBVIOUS
<1> USE DEF TypeOK, world, memory, bounds
<1>vanish. Vanish => /\ pc' \in Pieces /\ why' \in ExitReasons \cup {"none", "ENTRY"}
                     /\ plan' \in MaybePosition /\ pos' \in MaybePosition
                     /\ tracker' \in Books /\ orphan' \in Books
                     /\ pnl' \in PnlState
                     /\ halted' \in BOOLEAN /\ notified' \in BOOLEAN
  BY FlatTyped, ZeroTyped DEF Vanish, Pieces, MaybePosition
<1>exit. \A r \in ExitReasons : BeginExit(r) =>
           /\ pc' \in Pieces /\ why' \in ExitReasons \cup {"none", "ENTRY"}
  BY DEF BeginExit, Pieces
<1>save. WriteSnapshot => /\ disk' \in Snapshots \cup {NoFile, Corrupt}
                          /\ lost' \in Nat
  BY SnapshotTyped DEF WriteSnapshot
<1>row. AppendRow => rows' \in Nat /\ unwritten' \in Nat
  BY DEF AppendRow
<1>1. CASE Tick
  BY <1>1 DEF Tick, Slots, PreOpen, Closed
<1>2. CASE NextDay
  BY <1>2, SessionAssumption DEF NextDay, Slots, PreOpen, Closed
<1>3. CASE TouchHaltFile
  BY <1>3 DEF TouchHaltFile
<1>4. CASE Crash
  BY <1>4, <1>vanish DEF Crash
<1>5. CASE Start
  <2>1. Loaded(disk, day) \in Memories
    BY LoadedTyped, SessionAssumption
  <2>2. /\ pos' \in MaybePosition /\ tracker' \in Books /\ orphan' \in Books
        /\ pnl' \in PnlState /\ halted' \in BOOLEAN
    BY <1>5, <2>1 DEF Start, Memories
  <2> QED BY <1>5, <2>2 DEF Start, Pieces
<1>6. CASE CloseMarket
  BY <1>6, <1>vanish DEF CloseMarket
<1>7. CASE BeginPass
  BY <1>7 DEF BeginPass, Pieces
<1>8. CASE CheckHaltFile
  BY <1>8, <1>exit DEF CheckHaltFile, ExitReasons, Pieces
<1>9. CASE PassAuth
  BY <1>9 DEF PassAuth, Pieces
<1>10. CASE FailAuth
  BY <1>10, <1>vanish DEF FailAuth
<1>11. CASE DailyLossHalt
  <2>1. day \in 0 .. MaxDay
    BY SessionAssumption
  <2> QED BY <1>11, <1>exit, <2>1 DEF DailyLossHalt, ExitReasons
<1>12. CASE PassRisk
  BY <1>12 DEF PassRisk, Pieces, CapBreached
<1>13. CASE CheckExpiryClose
  BY <1>13, <1>exit DEF CheckExpiryClose, ExitReasons, Pieces
<1>14. CASE CheckEod
  BY <1>14, <1>exit DEF CheckEod, ExitReasons, Pieces
<1>15. CASE Monitor
  BY <1>15, <1>exit DEF Monitor, ExitReasons, Pieces
<1>16. CASE Enter
  <2> USE DEF Pieces, MaybePosition
  <2>1. CASE AttemptEntry
    BY <2>1 DEF AttemptEntry
  <2>2. CASE SkipEntry
    BY <2>2 DEF SkipEntry
  <2>3. CASE SellFilled
    BY <2>3, AddPositionTyped DEF SellFilled
  <2>4. CASE SellRefused
    BY <2>4 DEF SellRefused
  <2>5. CASE HedgeFilled
    BY <2>5, AddPositionTyped DEF HedgeFilled
  <2>6. CASE HedgeRefused
    BY <2>6 DEF HedgeRefused
  <2>7. CASE RollbackFilled
    BY <2>7, AddPositionTyped DEF RollbackFilled
  <2>8. CASE RollbackRefused
    BY <2>8, AddPositionTyped DEF RollbackRefused
  <2> QED BY <1>16, <2>1, <2>2, <2>3, <2>4, <2>5, <2>6, <2>7, <2>8 DEF Enter
<1>17. CASE Exit
  <2> USE DEF Pieces, MaybePosition
  <2>1. CASE ExitShortFilled
    BY <2>1, AddPositionTyped DEF ExitShortFilled
  <2>2. CASE ExitShortRefused
    BY <2>2, AddPositionTyped DEF ExitShortRefused
  <2>3. CASE ExitLongFilled
    BY <2>3, AddPositionTyped DEF ExitLongFilled
  <2>4. CASE ExitLongRefused
    BY <2>4, AddPositionTyped DEF ExitLongRefused
  <2>5. CASE RecordExit
    BY <2>5, <1>row, RecordTradeTyped DEF RecordExit
  <2>6. CASE LogExit
    BY <2>6, <1>row DEF LogExit
  <2> QED BY <1>17, <2>1, <2>2, <2>3, <2>4, <2>5, <2>6 DEF Exit
<1>18. CASE SaveAndContinue
  BY <1>18, <1>save, ContinuationTyped DEF SaveAndContinue
<1>19. CASE SaveAndBreak
  BY <1>19, <1>save, <1>vanish DEF SaveAndBreak
<1>20. CASE Sleep
  BY <1>20 DEF Sleep, Pieces
<1>21. CASE UNCHANGED vars
  BY <1>21 DEF vars
<1> QED
  BY <1>1, <1>2, <1>3, <1>4, <1>5, <1>6, <1>7, <1>8, <1>9, <1>10, <1>11,
     <1>12, <1>13, <1>14, <1>15, <1>16, <1>17, <1>18, <1>19, <1>20, <1>21
  DEF Next, Loop

(* The state of the session, of its state file and of the process always    *)
(* has the types the code gives them.                                       *)
THEOREM TypeCorrect == Spec => []TypeOK
  BY TypeInit, TypeNext, PTL DEF Spec

-----------------------------------------------------------------------------
(* Exposure.  ExposureExplained alone is not inductive: what a relaunched   *)
(* process holds depends on the file a dead one wrote, and what an order    *)
(* changes depends on the plan or the position it is sent for.              *)

\* What each piece of the loop body knows of the plan and the position.
Stage ==
  /\ pc \in {"sell", "hedge", "rollback"} => plan \in Position /\ pos = NoPos
  /\ pc \in {"exitShort", "exitLong"} => pos \in Position
  /\ pc \in {"record", "log"} => pos = NoPos
  /\ pc = "save" /\ why \in FlatReasons => pos = NoPos

\* What load makes of the state file explains itself too.
SnapshotExplained ==
  disk \in Snapshots =>
    IF disk.status = "FLAT" THEN disk.pos = NoPos
    ELSE \A s \in Symbols :
           disk.tracker[s] = Exposure(disk.pos)[s] + disk.orphan[s]

ExposureInv == TypeOK /\ Stage /\ SnapshotExplained /\ ExposureExplained

(* The legs of a spread are integer quantities, a spread is the sum of its  *)
(* legs, and no position is no exposure.                                    *)
LEMMA LegsAdd ==
  ASSUME NEW s \in Symbols
  PROVE  /\ Exposure(NoPos)[s] = 0
         /\ \A p \in Position :
              /\ ShortLeg(p)[s] \in Int /\ LongLeg(p)[s] \in Int
              /\ Exposure(p)[s] = ShortLeg(p)[s] + LongLeg(p)[s]
<1>1. Exposure(NoPos)[s] = 0
  BY DEF Exposure, Flat
<1>2. ASSUME NEW p \in Position
      PROVE  /\ ShortLeg(p)[s] \in Int /\ LongLeg(p)[s] \in Int
             /\ Exposure(p)[s] = ShortLeg(p)[s] + LongLeg(p)[s]
  <2>1. ShortLeg(p)[s] \in Int /\ LongLeg(p)[s] \in Int
    BY DEF ShortLeg, LongLeg
  <2>2. Exposure(p) = [t \in Symbols |-> ShortLeg(p)[t] + LongLeg(p)[t]]
    BY NoPosAssumption DEF Exposure
  <2> QED BY <2>1, <2>2
<1> QED BY <1>1, <1>2

(* A fill moves the quantity of a symbol by the leg it opens or closes.     *)
LEMMA FillsAddLegs ==
  ASSUME NEW book \in Books, NEW p \in Position, NEW s \in Symbols
  PROVE  /\ book[s] \in Int
         /\ AddPosition(book, ShortSym(p), "S")[s] = book[s] + ShortLeg(p)[s]
         /\ AddPosition(book, ShortSym(p), "B")[s] = book[s] - ShortLeg(p)[s]
         /\ AddPosition(book, LongSym(p), "B")[s] = book[s] + LongLeg(p)[s]
         /\ AddPosition(book, LongSym(p), "S")[s] = book[s] - LongLeg(p)[s]
<1>1. book[s] \in Int
  BY DEF Books
<1>2. \A sym, side : AddPosition(book, sym, side)[s] =
        IF s = sym THEN book[s] + (IF side = "B" THEN 1 ELSE -1) ELSE book[s]
  BY DEF AddPosition, Books
<1> QED BY <1>1, <1>2 DEF ShortLeg, LongLeg

LEMMA ExposureInit == Init => ExposureInv
  BY TypeInit, SnapshotAssumption
  DEF Init, ExposureInv, Stage, SnapshotExplained, ExposureExplained, Up

(* A process relaunched on an explained state file is explained.            *)
LEMMA LoadedExplained ==
  ASSUME ExposureInv, NEW s \in Symbols
  PROVE  LET m == Loaded(disk, day) IN
           m.tracker[s] = Exposure(m.pos)[s] + m.orphan[s]
<1> DEFINE m == Loaded(disk, day)
<1>1. Fresh.tracker[s] = Exposure(Fresh.pos)[s] + Fresh.orphan[s]
  BY LegsAdd DEF Fresh, Flat
<1>2. CASE disk \in {NoFile, Corrupt}
  BY <1>1, <1>2 DEF Loaded
<1>3. CASE disk \notin {NoFile, Corrupt}
  <2>1. disk \in Snapshots
    BY <1>3 DEF ExposureInv, TypeOK
  <2>2. CASE disk.status = "FLAT"
    <3>1. disk.pos = NoPos
      BY <2>1, <2>2 DEF ExposureInv, SnapshotExplained
    <3>2. m = Fresh \/ (m.pos = NoPos /\ m.tracker = Flat /\ m.orphan = Flat)
      BY <1>3, <2>2, <3>1 DEF Loaded
    <3> QED BY <1>1, <3>2, LegsAdd DEF Flat
  <2>3. CASE disk.status # "FLAT"
    <3>1. /\ m.pos = disk.pos /\ m.tracker = disk.tracker
          /\ m.orphan = disk.orphan
      BY <1>3, <2>3 DEF Loaded
    <3> QED BY <2>1, <2>3, <3>1 DEF ExposureInv, SnapshotExplained
  <2> QED BY <2>2, <2>3
<1> QED BY <1>2, <1>3

LEMMA ExposureNext == ExposureInv /\ [Next]_vars => ExposureInv'
<1> SUFFICES ASSUME ExposureInv, [Next]_vars
             PROVE  Stage' /\ SnapshotExplained' /\ ExposureExplained'
  BY TypeNext DEF ExposureInv
<1> USE DEF world, memory, bounds
<1>type. TypeOK /\ TypeOK'
  BY TypeNext DEF ExposureInv
<1> DEFINE Sending == {"hedge", "rollback", "exitLong"}
(* Steps that touch neither legs nor file, and those that end the process.  *)
<1>disk. ASSUME disk' = disk PROVE SnapshotExplained'
  BY <1>disk DEF ExposureInv, SnapshotExplained
<1>quiet. ASSUME UNCHANGED <<pos, tracker, orphan>>, Up,
                 pc \notin Sending, pc' \notin Sending
          PROVE  ExposureExplained'
  BY <1>quiet DEF ExposureInv, ExposureExplained, InFlight, Up
<1>vanish. Vanish => Stage' /\ ExposureExplained'
  BY DEF Vanish, Stage, ExposureExplained, Up
<1>exit. \A r : BeginExit(r) /\ pos' = pos =>
           Stage' /\ pc' \notin Sending
  <2> SUFFICES ASSUME NEW r, BeginExit(r), pos' = pos
               PROVE  Stage' /\ pc' \notin Sending
    OBVIOUS
  <2>1. pos \in Position \cup {NoPos}
    BY <1>type DEF TypeOK, MaybePosition
  <2> QED BY <2>1 DEF BeginExit, Active, Stage
<1>save. ASSUME WriteSnapshot, pc = "save" PROVE SnapshotExplained'
  <2>1. CASE disk' = disk
    BY <1>disk, <2>1
  <2>2. CASE disk' = SnapshotNow
    <3>1. CASE why \in FlatReasons
      BY <1>save, <2>2, <3>1
      DEF ExposureInv, Stage, SnapshotExplained, SnapshotNow
    <3>2. CASE why \notin FlatReasons
      BY <1>save, <2>2, <3>2
      DEF ExposureInv, SnapshotExplained, SnapshotNow, ExposureExplained,
          InFlight, Up
    <3> QED BY <3>1, <3>2
  <2> QED BY <1>save, <2>1, <2>2 DEF WriteSnapshot
<1>world. CASE Tick \/ NextDay \/ TouchHaltFile \/ UNCHANGED vars
  <2>1. UNCHANGED <<disk, pc, why, plan, pos, tracker, orphan>>
    BY <1>world DEF Tick, NextDay, TouchHaltFile, vars
  <2> QED BY <1>disk, <2>1
          DEF ExposureInv, Stage, ExposureExplained, InFlight, Up
<1>crash. CASE Crash
  <2>1. SnapshotExplained'
    BY <1>crash, <1>disk, SnapshotAssumption DEF Crash, SnapshotExplained
  <2> QED BY <1>crash, <1>vanish, <2>1 DEF Crash
<1>start. CASE Start
  <2>1. Stage' /\ SnapshotExplained'
    BY <1>start, <1>disk, SnapshotAssumption
    DEF Start, Stage, SnapshotExplained
  <2>2. ASSUME NEW s \in Symbols
        PROVE  tracker'[s] = Exposure(pos')[s] + orphan'[s]
    BY <1>start, LoadedExplained DEF Start
  <2>3. InFlight' = Exposure(pos')
    BY <1>start DEF Start, InFlight
  <2> QED BY <2>1, <2>2, <2>3 DEF ExposureExplained
<1>stop. CASE CloseMarket \/ FailAuth
  BY <1>stop, <1>vanish, <1>disk DEF CloseMarket, FailAuth
<1>guards. CASE \/ BeginPass \/ CheckHaltFile \/ PassAuth \/ DailyLossHalt
                \/ PassRisk \/ CheckExpiryClose \/ CheckEod \/ Monitor
                \/ Sleep
  <2>1. UNCHANGED <<disk, pos, tracker, orphan>> /\ Up /\ pc \notin Sending
    BY <1>guards DEF BeginPass, CheckHaltFile, PassAuth, DailyLossHalt,
       PassRisk, CheckExpiryClose, CheckEod, Monitor, Sleep, Up
  <2>2. \/ \E r : BeginExit(r)
        \/ pc' \in {"halt", "sleep", "auth", "risk", "expiry", "eod",
                     "monitor", "entry", "top"}
    BY <1>guards DEF BeginPass, CheckHaltFile, PassAuth, DailyLossHalt,
       PassRisk, CheckExpiryClose, CheckEod, Monitor, Sleep
  <2>3. Stage' /\ pc' \notin Sending
    BY <1>exit, <2>1, <2>2 DEF Stage
  <2> QED BY <1>disk, <1>quiet, <2>1, <2>3
<1>enter. CASE Enter
  <2>0. disk' = disk
    BY <1>enter DEF Enter, AttemptEntry, SkipEntry, SellFilled, SellRefused,
       HedgeFilled, HedgeRefused, RollbackFilled, RollbackRefused
  <2>1. SnapshotExplained'
    BY <1>disk, <2>0
  <2>2. CASE AttemptEntry
    <3>1. Stage'
      BY <2>2 DEF AttemptEntry, MayEnter, Active, Stage
    <3> QED BY <1>quiet, <2>1, <2>2, <3>1 DEF AttemptEntry, Up
  <2>3. CASE SkipEntry
    BY <1>quiet, <2>1, <2>3 DEF SkipEntry, Stage, Up
  <2>4. CASE SellRefused
    BY <1>quiet, <2>1, <2>4 DEF SellRefused, Stage, Up
  <2>5. CASE HedgeRefused
    BY <2>1, <2>5 DEF HedgeRefused, Stage, ExposureInv, ExposureExplained,
       InFlight, Up
  (* The steps that move a leg. *)
  <2>6. CASE SellFilled \/ HedgeFilled \/ RollbackFilled \/ RollbackRefused
    <3>1. plan \in Position /\ pos = NoPos
      BY <2>6 DEF ExposureInv, Stage, SellFilled, HedgeFilled,
         RollbackFilled, RollbackRefused
    <3>2. Stage'
      BY <2>6, <3>1 DEF SellFilled, HedgeFilled, RollbackFilled,
         RollbackRefused, Stage, FlatReasons
    <3>3. ASSUME NEW s \in Symbols
          PROVE  tracker'[s] = InFlight'[s] + orphan'[s]
      <4>1. tracker[s] = InFlight[s] + orphan[s]
        BY <2>6 DEF ExposureInv, ExposureExplained, Up, SellFilled,
           HedgeFilled, RollbackFilled, RollbackRefused
      <4>2. /\ ShortLeg(plan)[s] \in Int /\ LongLeg(plan)[s] \in Int
            /\ Exposure(plan)[s] = ShortLeg(plan)[s] + LongLeg(plan)[s]
            /\ Exposure(NoPos)[s] = 0
        BY <3>1, LegsAdd
      <4>3. tracker \in Books /\ orphan \in Books
        BY <1>type DEF TypeOK
      <4>4. CASE SellFilled
        <5>1. InFlight = Exposure(NoPos) /\ InFlight' = ShortLeg(plan)
          BY <3>1, <4>4 DEF SellFilled, InFlight
        <5> QED BY <3>1, <4>1, <4>2, <4>3, <4>4, <5>1, FillsAddLegs
                DEF SellFilled
      <4>5. CASE HedgeFilled
        <5>1. InFlight = ShortLeg(plan) /\ InFlight' = Exposure(plan)
          BY <3>1, <4>5 DEF HedgeFilled, InFlight
        <5> QED BY <3>1, <4>1, <4>2, <4>3, <4>5, <5>1, FillsAddLegs
                DEF HedgeFilled
      <4>6. CASE RollbackFilled
        <5>1. InFlight = ShortLeg(plan) /\ InFlight' = Exposure(NoPos)
          BY <3>1, <4>6 DEF RollbackFilled, InFlight
        <5> QED BY <3>1, <4>1, <4>2, <4>3, <4>6, <5>1, FillsAddLegs
                DEF RollbackFilled
      <4>7. CASE RollbackRefused
        <5>1. InFlight = ShortLeg(plan) /\ InFlight' = Exposure(NoPos)
          BY <3>1, <4>7 DEF RollbackRefused, InFlight
        <5> QED BY <3>1, <4>1, <4>2, <4>3, <4>7, <5>1, FillsAddLegs
                DEF RollbackRefused
      <4> QED BY <2>6, <4>4, <4>5, <4>6, <4>7
    <3> QED BY <2>1, <3>2, <3>3 DEF ExposureExplained
  <2> QED BY <1>enter, <2>2, <2>3, <2>4, <2>5, <2>6 DEF Enter
<1>leave. CASE Exit
  <2>0. disk' = disk
    BY <1>leave DEF Exit, ExitShortFilled, ExitShortRefused, ExitLongFilled,
       ExitLongRefused, RecordExit, LogExit
  <2>1. SnapshotExplained'
    BY <1>disk, <2>0
  <2>2. CASE RecordExit \/ LogExit
    <3>1. Stage'
      BY <2>2 DEF RecordExit, LogExit, Stage, ExposureInv
    <3> QED BY <1>quiet, <2>1, <2>2, <3>1 DEF RecordExit, LogExit, Up
  <2>3. CASE \/ ExitShortFilled \/ ExitShortRefused
             \/ ExitLongFilled \/ ExitLongRefused
    <3>1. pos \in Position
      BY <2>3 DEF ExposureInv, Stage, ExitShortFilled, ExitShortRefused,
         ExitLongFilled, ExitLongRefused
    <3>2. Stage'
      BY <2>3, <3>1 DEF ExitShortFilled, ExitShortRefused, ExitLongFilled,
         ExitLongRefused, Stage
    <3>3. ASSUME NEW s \in Symbols
          PROVE  tracker'[s] = InFlight'[s] + orphan'[s]
      <4>1. tracker[s] = InFlight[s] + orphan[s]
        BY <2>3 DEF ExposureInv, ExposureExplained, Up, ExitShortFilled,
           ExitShortRefused, ExitLongFilled, ExitLongRefused
      <4>2. /\ ShortLeg(pos)[s] \in Int /\ LongLeg(pos)[s] \in Int
            /\ Exposure(pos)[s] = ShortLeg(pos)[s] + LongLeg(pos)[s]
            /\ Exposure(NoPos)[s] = 0
        BY <3>1, LegsAdd
      <4>3. tracker \in Books /\ orphan \in Books
        BY <1>type DEF TypeOK
      <4>4. CASE ExitShortFilled
        <5>1. InFlight = Exposure(pos) /\ InFlight' = LongLeg(pos)
          BY <4>4 DEF ExitShortFilled, InFlight
        <5> QED BY <3>1, <4>1, <4>2, <4>3, <4>4, <5>1, FillsAddLegs
                DEF ExitShortFilled
      <4>5. CASE ExitShortRefused
        <5>1. InFlight = Exposure(pos) /\ InFlight' = LongLeg(pos)
          BY <4>5 DEF ExitShortRefused, InFlight
        <5> QED BY <3>1, <4>1, <4>2, <4>3, <4>5, <5>1, FillsAddLegs
                DEF ExitShortRefused
      <4>6. CASE ExitLongFilled
        <5>1. InFlight = LongLeg(pos) /\ InFlight' = Exposure(NoPos)
          BY <4>6 DEF ExitLongFilled, InFlight
        <5> QED BY <3>1, <4>1, <4>2, <4>3, <4>6, <5>1, FillsAddLegs
                DEF ExitLongFilled
      <4>7. CASE ExitLongRefused
        <5>1. InFlight = LongLeg(pos) /\ InFlight' = Exposure(NoPos)
          BY <4>7 DEF ExitLongRefused, InFlight
        <5> QED BY <3>1, <4>1, <4>2, <4>3, <4>7, <5>1, FillsAddLegs
                DEF ExitLongRefused
      <4> QED BY <2>3, <4>4, <4>5, <4>6, <4>7
    <3> QED BY <2>1, <3>2, <3>3 DEF ExposureExplained
  <2> QED BY <1>leave, <2>2, <2>3 DEF Exit
<1>persist. CASE SaveAndContinue
  <2>1. pc' \notin {"sell", "hedge", "rollback", "exitShort", "exitLong",
                    "record", "log", "save"}
    BY <1>persist DEF SaveAndContinue, Continuation
  <2>2. Stage'
    BY <2>1 DEF Stage
  <2> QED BY <1>persist, <1>save, <1>quiet, <2>1, <2>2
          DEF SaveAndContinue, Up
<1>break. CASE SaveAndBreak
  BY <1>break, <1>save, <1>vanish DEF SaveAndBreak
<1> QED
  BY <1>world, <1>crash, <1>start, <1>stop, <1>guards, <1>enter, <1>leave,
     <1>persist, <1>break DEF Next, Loop

(* At every point of the loop, across partial entries, rollbacks, refused   *)
(* closing orders, crashes and relaunches, each open quantity of the        *)
(* tracker is the recorded spread, the leg in flight, or a leg that a       *)
(* refused closing order left behind.                                       *)
THEOREM ExposureCorrect == Spec => []ExposureExplained
<1>1. ExposureInv => ExposureExplained
  BY DEF ExposureInv
<1> QED BY ExposureInit, ExposureNext, <1>1, PTL DEF Spec

-----------------------------------------------------------------------------
(* The daily loss halt.  DailyHaltSticks speaks of the steps of an entry    *)
(* only; what makes it inductive is where the halt lives: in the memory of  *)
(* the process that runs, and in a state file of the same day.              *)

HaltKept ==
  haltDay = day =>
    /\ disk \in Snapshots /\ disk.date = day /\ disk.halted
    /\ Up => halted
    /\ pc \notin {"sell", "hedge", "rollback"}

\* A halt under way is one that check_daily_loss_cap decided on.
HaltDecided ==
  /\ why = "DAILY_LOSS_HALT" => halted
  /\ pc = "off" => why = "none"

HaltInv == TypeOK /\ haltDay <= day /\ HaltDecided /\ HaltKept

LEMMA HaltInit == Init => HaltInv
  BY TypeInit DEF Init, HaltInv, HaltDecided, HaltKept

LEMMA HaltNext ==
  ASSUME ~DiskMayFail
  PROVE  HaltInv /\ [Next]_vars => HaltInv'
<1> SUFFICES ASSUME HaltInv, [Next]_vars
             PROVE  haltDay' <= day' /\ HaltDecided' /\ HaltKept'
  BY TypeNext DEF HaltInv
<1> USE DEF world, memory, bounds
<1>type. TypeOK /\ day \in Nat /\ haltDay \in Nat
  BY SessionAssumption DEF HaltInv, TypeOK
(* A step that changes neither file, day nor flag, and opens nothing new.   *)
<1>keep. ASSUME UNCHANGED <<day, disk, halted, haltDay>>, Up, pc' # "off",
                HaltDecided',
                \/ pc' \notin {"sell", "hedge", "rollback"}
                \/ pc \in {"sell", "hedge", "rollback"}
                \/ ~halted
         PROVE  haltDay' <= day' /\ HaltDecided' /\ HaltKept'
  BY <1>keep DEF HaltInv, HaltKept, Up
<1>vanish. ASSUME Vanish, UNCHANGED <<day, disk, haltDay>>
           PROVE  haltDay' <= day' /\ HaltDecided' /\ HaltKept'
  BY <1>vanish DEF Vanish, HaltInv, HaltDecided, HaltKept, Up
<1>written. ASSUME WriteSnapshot PROVE disk' = SnapshotNow
  BY <1>written DEF WriteSnapshot
<1>snapshot. /\ SnapshotNow \in Snapshots
             /\ SnapshotNow.date = day /\ SnapshotNow.halted = halted
  BY <1>type, SnapshotTyped DEF SnapshotNow
<1>1. CASE Tick \/ TouchHaltFile \/ UNCHANGED vars
  <2>1. UNCHANGED <<day, disk, pc, why, halted, haltDay>>
    BY <1>1 DEF Tick, TouchHaltFile, vars
  <2> QED BY <2>1 DEF HaltInv, HaltDecided, HaltKept, Up
<1>2. CASE NextDay
  <2>1. haltDay' < day'
    BY <1>2, <1>type DEF NextDay, HaltInv
  <2>2. HaltDecided'
    BY <1>2 DEF NextDay, HaltInv, HaltDecided
  <2> QED BY <1>type, <1>2, <2>1, <2>2 DEF NextDay, HaltKept
<1>3. CASE Crash
  BY <1>3, <1>vanish DEF Crash
<1>4. CASE Start
  <2>1. HaltDecided'
    BY <1>4 DEF Start, HaltInv, HaltDecided, Up
  <2>2. ASSUME haltDay = day
        PROVE  disk' = disk /\ halted'
    <3>1. disk \in Snapshots /\ disk.date = day /\ disk.halted
      BY <2>2 DEF HaltInv, HaltKept
    <3>2. disk \notin {NoFile, Corrupt}
      BY <3>1, SnapshotAssumption
    <3>3. Loaded(disk, day).halted
      BY <3>1, <3>2 DEF Loaded
    <3> QED BY <1>4, <3>2, <3>3 DEF Start
  <2> QED BY <1>4, <2>1, <2>2 DEF Start, HaltInv, HaltKept
<1>5. CASE CloseMarket \/ FailAuth
  BY <1>5, <1>vanish DEF CloseMarket, FailAuth
<1>6. CASE DailyLossHalt
  <2>1. /\ UNCHANGED <<day, disk, haltDay>> /\ halted'
        /\ pc' \in {"exitShort", "save"}
    BY <1>6 DEF DailyLossHalt, BeginExit
  <2> QED BY <2>1 DEF HaltInv, HaltDecided, HaltKept
<1>7. CASE \/ BeginPass \/ CheckHaltFile \/ PassAuth \/ PassRisk
           \/ CheckExpiryClose \/ CheckEod \/ Monitor \/ Sleep
  <2>1. UNCHANGED <<day, disk, halted, haltDay>> /\ Up
    BY <1>7 DEF BeginPass, CheckHaltFile, PassAuth, PassRisk,
       CheckExpiryClose, CheckEod, Monitor, Sleep, Up
  <2>2. /\ pc' \notin {"off", "sell", "hedge", "rollback"}
        /\ why' = why \/ why' # "DAILY_LOSS_HALT"
    BY <1>7 DEF BeginPass, CheckHaltFile, PassAuth, PassRisk,
       CheckExpiryClose, CheckEod, Monitor, Sleep, BeginExit
  <2>3. HaltDecided'
    BY <2>1, <2>2 DEF HaltInv, HaltDecided
  <2> QED BY <1>keep, <2>1, <2>2, <2>3
<1>8. CASE Enter
  <2>1. UNCHANGED <<day, disk, halted, haltDay>> /\ Up /\ pc' # "off"
    BY <1>8 DEF Enter, AttemptEntry, SkipEntry, SellFilled, SellRefused,
       HedgeFilled, HedgeRefused, RollbackFilled, RollbackRefused, Up
  <2>2. \/ pc' \notin {"sell", "hedge", "rollback"}
        \/ pc \in {"sell", "hedge", "rollback"}
        \/ ~halted
    BY <1>8 DEF Enter, AttemptEntry, MayEnter, SkipEntry, SellFilled,
       SellRefused, HedgeFilled, HedgeRefused, RollbackFilled, RollbackRefused
  <2>3. why' = why \/ why' # "DAILY_LOSS_HALT"
    BY <1>8 DEF Enter, AttemptEntry, SkipEntry, SellFilled, SellRefused,
       HedgeFilled, HedgeRefused, RollbackFilled, RollbackRefused
  <2>4. HaltDecided'
    BY <2>1, <2>3 DEF HaltInv, HaltDecided
  <2> QED BY <1>keep, <2>1, <2>2, <2>4
<1>9. CASE Exit
  <2>1. /\ UNCHANGED <<day, disk, why, halted, haltDay>> /\ Up
        /\ pc' \notin {"off", "sell", "hedge", "rollback"}
    BY <1>9 DEF Exit, ExitShortFilled, ExitShortRefused, ExitLongFilled,
       ExitLongRefused, RecordExit, LogExit, Up
  <2>2. HaltDecided'
    BY <2>1 DEF HaltInv, HaltDecided
  <2> QED BY <1>keep, <2>1, <2>2
<1>10. CASE SaveAndContinue
  <2>1. disk' = SnapshotNow /\ UNCHANGED <<day, halted, haltDay>> /\ Up
    BY <1>10, <1>written DEF SaveAndContinue, Up
  <2>2. /\ why' = "none"
        /\ pc' \notin {"off", "sell", "hedge", "rollback"}
    BY <1>10 DEF SaveAndContinue, Continuation
  <2> QED BY <1>snapshot, <2>1, <2>2 DEF HaltInv, HaltDecided, HaltKept, Up
<1>11. CASE SaveAndBreak
  <2>1. /\ disk' = SnapshotNow /\ day' = day /\ Up
        /\ pc' = "off" /\ why' = "none"
        /\ haltDay' = IF why = "DAILY_LOSS_HALT" THEN day ELSE haltDay
    BY <1>11, <1>written DEF SaveAndBreak, Vanish, Up
  <2>2. ASSUME haltDay' = day PROVE halted
    BY <2>1, <2>2 DEF HaltInv, HaltDecided, HaltKept
  <2> QED BY <1>type, <1>snapshot, <2>1, <2>2
          DEF HaltInv, HaltDecided, HaltKept, Up
<1> QED
  BY <1>1, <1>2, <1>3, <1>4, <1>5, <1>6, <1>7, <1>8, <1>9, <1>10, <1>11
  DEF Next, Loop

(* As long as the state file is written when it is saved, no process sends  *)
(* an opening order on a day that the daily loss guard has ended, however   *)
(* often it is relaunched and with or without a position at the halt.       *)
THEOREM DailyHaltCorrect ==
  ASSUME ~DiskMayFail
  PROVE  Spec => []DailyHaltSticks
<1>1. HaltInv => DailyHaltSticks
  BY DEF HaltInv, HaltKept, DailyHaltSticks
<1>2. HaltInv /\ [Next]_vars => HaltInv'
  BY HaltNext
<1> QED BY HaltInit, <1>1, <1>2, PTL DEF Spec

-----------------------------------------------------------------------------
(* Restarts.  The pieces of the loop body between a change of the memory    *)
(* and the save that follows it are the only ones where a new process would *)
(* restore something else.                                                  *)

Unsaved == {"off", "exitShort", "exitLong", "record", "log", "save"}

Synced == LET m == Loaded(disk, day) IN
            m.pos = pos /\ m.pnl = pnl /\ m.halted = halted

RestartInv == TypeOK /\ Stage /\ (pc \notin Unsaved => Synced)

(* Saving and loading on the same day gives back what was saved.            *)
LEMMA SaveLoad ==
  ASSUME TypeOK, Stage, pc = "save"
  PROVE  LET m == Loaded(SnapshotNow, day) IN
           m.pos = pos /\ m.pnl = pnl /\ m.halted = halted
<1>1. SnapshotNow \in Snapshots /\ SnapshotNow \notin {NoFile, Corrupt}
  BY SnapshotTyped, SnapshotAssumption
<1>2. /\ SnapshotNow.date = day /\ SnapshotNow.pos = pos
      /\ SnapshotNow.pnl = pnl /\ SnapshotNow.halted = halted
  BY DEF SnapshotNow
<1>3. CASE SnapshotNow.status = "FLAT"
  BY <1>1, <1>2, <1>3 DEF Loaded
<1>4. CASE SnapshotNow.status # "FLAT"
  <2> DEFINE m == Loaded(SnapshotNow, day)
  <2>1. /\ m.pos = SnapshotNow.pos
        /\ m.pnl = RestorePnl(SnapshotNow.pnl, FALSE)
    BY <1>1, <1>2, <1>4 DEF Loaded
  <2>2. m.halted = SnapshotNow.halted
    <3>1. SnapshotNow.halted \in BOOLEAN
      BY <1>2 DEF TypeOK
    <3> QED BY <1>1, <1>2, <1>4, <3>1 DEF Loaded
  <2> QED BY <1>2, <2>1, <2>2 DEF RestorePnl
<1> QED BY <1>3, <1>4

LEMMA RestartInit == Init => RestartInv
  BY TypeInit DEF Init, RestartInv, Stage, Unsaved

LEMMA RestartNext ==
  ASSUME ~DiskMayFail
  PROVE  RestartInv /\ ExposureInv /\ [Next]_vars => RestartInv'
<1> SUFFICES ASSUME RestartInv, ExposureInv, [Next]_vars
             PROVE  pc' \notin Unsaved => Synced'
  BY TypeNext, ExposureNext DEF RestartInv, ExposureInv
<1> USE DEF world, memory, bounds
<1>same. ASSUME UNCHANGED <<day, disk, pos, pnl, halted>>,
                pc \notin Unsaved \/ pc' \in Unsaved
         PROVE  pc' \notin Unsaved => Synced'
  BY <1>same DEF RestartInv, Synced
<1>1. CASE Tick \/ TouchHaltFile \/ UNCHANGED vars
  <2>1. UNCHANGED <<day, disk, pc, pos, pnl, halted>>
    BY <1>1 DEF Tick, TouchHaltFile, vars
  <2> QED BY <1>same, <2>1
<1>2. CASE NextDay
  BY <1>2 DEF NextDay, Up, Unsaved
<1>3. CASE Crash \/ CloseMarket \/ FailAuth \/ SaveAndBreak
  BY <1>3 DEF Crash, CloseMarket, FailAuth, SaveAndBreak, Vanish, Unsaved
<1>4. CASE Start
  <2>1. Loaded(disk', day') = Loaded(disk, day)
    BY <1>4 DEF Start, Loaded
  <2> QED BY <1>4, <2>1 DEF Start, Synced
<1>5. CASE DailyLossHalt \/ Exit
  BY <1>5 DEF DailyLossHalt, BeginExit, Exit, ExitShortFilled,
     ExitShortRefused, ExitLongFilled, ExitLongRefused, RecordExit, LogExit,
     Unsaved
<1>6. CASE \/ BeginPass \/ CheckHaltFile \/ PassAuth \/ PassRisk
           \/ CheckExpiryClose \/ CheckEod \/ Monitor \/ Sleep
  <2>1. UNCHANGED <<day, disk, pos, pnl, halted>> /\ pc \notin Unsaved
    BY <1>6 DEF BeginPass, CheckHaltFile, PassAuth, PassRisk,
       CheckExpiryClose, CheckEod, Monitor, Sleep, Unsaved
  <2> QED BY <1>same, <2>1
<1>7. CASE HedgeFilled
  BY <1>7 DEF HedgeFilled, Unsaved
<1>8. CASE Enter /\ ~HedgeFilled
  <2>1. UNCHANGED <<day, disk, pos, pnl, halted>> /\ pc \notin Unsaved
    BY <1>8 DEF Enter, AttemptEntry, SkipEntry, SellFilled, SellRefused,
       HedgeRefused, RollbackFilled, RollbackRefused, Unsaved
  <2> QED BY <1>same, <2>1
<1>9. CASE SaveAndContinue
  <2>1. /\ disk' = SnapshotNow
        /\ UNCHANGED <<day, pos, pnl, halted>> /\ pc = "save"
    BY <1>9 DEF SaveAndContinue, WriteSnapshot
  <2>2. Loaded(disk', day') = Loaded(SnapshotNow, day)
    BY <2>1
  <2> QED BY <2>1, <2>2, SaveLoad DEF RestartInv, Synced
<1> QED
  BY <1>1, <1>2, <1>3, <1>4, <1>5, <1>6, <1>7, <1>8, <1>9 DEF Next, Loop

(* Where both trackers explain themselves by the same spread, they differ   *)
(* only in the legs that refused orders left.                               *)
LEMMA TrackerAgrees ==
  ASSUME ExposureInv, Synced, pc \in {"top", "sleep"}, NEW s \in Symbols
  PROVE  LET m == Loaded(disk, day) IN
           m.tracker[s] - m.orphan[s] = tracker[s] - orphan[s]
<1> DEFINE m == Loaded(disk, day)
<1>1. m.tracker[s] = Exposure(m.pos)[s] + m.orphan[s]
  BY LoadedExplained
<1>2. tracker[s] = Exposure(pos)[s] + orphan[s]
  BY DEF ExposureInv, ExposureExplained, InFlight, Up
<1>3. m.pos = pos
  BY DEF Synced
<1>4. m \in Memories /\ TypeOK
  BY LoadedTyped, SessionAssumption DEF ExposureInv, TypeOK
<1>5. m.orphan[s] \in Int /\ orphan[s] \in Int
  BY <1>4 DEF Memories, TypeOK, Books
<1>6. Exposure(pos)[s] \in Int
  BY <1>4, LegsAdd DEF TypeOK, MaybePosition
<1> HIDE DEF m
<1> QED BY <1>1, <1>2, <1>3, <1>5, <1>6 DEF m

(* As long as saves succeed, a crash between two passes of the loop leaves  *)
(* the next process with the very position, counters, halt flag and spread  *)
(* quantities of the running one; only the legs left by refused closing     *)
(* orders and rollbacks may be missing or be back.                          *)
THEOREM RestartCorrect ==
  ASSUME ~DiskMayFail
  PROVE  Spec => []RestartTransparent
<1>1. RestartInv /\ ExposureInv => RestartTransparent
  BY TrackerAgrees DEF RestartInv, RestartTransparent, Synced, Unsaved
<1>2. RestartInv /\ ExposureInv /\ [Next]_vars => RestartInv'
  BY RestartNext
<1> QED BY RestartInit, ExposureInit, ExposureNext, <1>1, <1>2, PTL DEF Spec

-----------------------------------------------------------------------------
(* The audit trail.  Between record_trade and log_trade one row has not     *)
(* been tried.                                                              *)

Tried == rows + unwritten
LoggedIn(p, n) == 2 * p.trades <= n

AuditInv ==
  /\ TypeOK
  /\ LoggedIn(pnl, IF pc = "log" THEN Tried + 1 ELSE Tried)
  /\ disk \in Snapshots => LoggedIn(disk.pnl, Tried)

(* What a process restores from a logged file is logged.                    *)
LEMMA LoadedLogged ==
  ASSUME AuditInv PROVE LoggedIn(Loaded(disk, day).pnl, Tried)
<1>1. Tried \in Nat /\ LoggedIn(ZeroPnl, Tried)
  BY DEF AuditInv, TypeOK, LoggedIn, ZeroPnl, Tried
<1>2. CASE disk \in {NoFile, Corrupt}
  BY <1>1, <1>2 DEF Loaded, Fresh
<1>3. CASE disk \notin {NoFile, Corrupt}
  <2>1. disk \in Snapshots /\ disk.pnl \in PnlState /\ LoggedIn(disk.pnl, Tried)
    BY <1>3 DEF AuditInv, TypeOK, Snapshots
  <2>2. \A stale \in BOOLEAN : RestorePnl(disk.pnl, stale).trades = disk.pnl.trades
    BY <2>1 DEF RestorePnl, PnlState
  <2>3. \/ Loaded(disk, day).pnl = ZeroPnl
        \/ Loaded(disk, day).pnl = disk.pnl
        \/ \E stale \in BOOLEAN : Loaded(disk, day).pnl = RestorePnl(disk.pnl, stale)
    BY <1>3 DEF Loaded, Fresh
  <2> QED BY <1>1, <2>1, <2>2, <2>3 DEF LoggedIn
<1> QED BY <1>2, <1>3

LEMMA AuditInit == Init => AuditInv
  BY TypeInit, SnapshotAssumption DEF Init, AuditInv, ZeroPnl, LoggedIn, Tried

LEMMA AuditNext == AuditInv /\ [Next]_vars => AuditInv'
<1> SUFFICES ASSUME AuditInv, [Next]_vars
             PROVE  /\ LoggedIn(pnl', IF pc' = "log" THEN Tried' + 1 ELSE Tried')
                    /\ disk' \in Snapshots => LoggedIn(disk'.pnl, Tried')
  BY TypeNext DEF AuditInv
<1> USE DEF world, memory, bounds
<1>type. /\ Tried \in Nat /\ pnl \in PnlState
         /\ disk \in Snapshots => disk.pnl \in PnlState
  BY DEF AuditInv, TypeOK, Snapshots, Tried
<1>same. ASSUME UNCHANGED <<disk, rows, unwritten, pnl>>, pc' = "log" <=> pc = "log"
         PROVE  AuditInv'
  BY <1>same, TypeNext DEF AuditInv, LoggedIn, Tried
<1>vanish. ASSUME Vanish PROVE pnl' = ZeroPnl /\ pc' # "log"
  BY <1>vanish DEF Vanish
<1>row. ASSUME AppendRow PROVE Tried' = Tried + 1
  BY <1>row DEF AppendRow, Tried, AuditInv, TypeOK
<1>1. CASE RecordExit
  <2>1. PICK x \in TradePnls : pnl' = RecordTrade(pnl, x)
    BY <1>1 DEF RecordExit
  <2>2. pnl'.trades = pnl.trades + 1
    BY <2>1 DEF RecordTrade
  <2>3. pc = "record" /\ pc' = "log" /\ Tried' = Tried + 1 /\ disk' = disk
    BY <1>1, <1>row DEF RecordExit
  <2> QED BY <1>type, <2>2, <2>3 DEF AuditInv, LoggedIn, PnlState
<1>2. CASE LogExit
  <2>1. pc = "log" /\ pc' = "save" /\ Tried' = Tried + 1 /\ UNCHANGED <<disk, pnl>>
    BY <1>2, <1>row DEF LogExit
  <2> QED BY <1>type, <2>1 DEF AuditInv, LoggedIn, PnlState
<1>3. CASE Crash \/ CloseMarket \/ FailAuth
  <2>1. /\ pnl' = ZeroPnl /\ pc' # "log" /\ Tried' = Tried
        /\ disk' = disk \/ disk' = Corrupt
    BY <1>3, <1>vanish DEF Crash, CloseMarket, FailAuth, Tried
  <2> QED BY <1>type, <2>1, SnapshotAssumption DEF AuditInv, LoggedIn, ZeroPnl
<1>4. CASE SaveAndContinue \/ SaveAndBreak
  <2>1. /\ pc = "save" /\ Tried' = Tried
        /\ disk' = disk \/ disk' = SnapshotNow
    BY <1>4 DEF SaveAndContinue, SaveAndBreak, WriteSnapshot, Tried
  <2>2. disk' \in Snapshots => LoggedIn(disk'.pnl, Tried')
    BY <2>1 DEF SnapshotNow, AuditInv, LoggedIn
  <2>3. (pnl' = pnl \/ pnl' = ZeroPnl) /\ pc' # "log"
    BY <1>4, <1>vanish DEF SaveAndContinue, SaveAndBreak, Continuation
  <2> QED BY <1>type, <2>1, <2>2, <2>3 DEF AuditInv, LoggedIn, ZeroPnl
<1>5. CASE Start
  <2>1. /\ pnl' = Loaded(disk, day).pnl /\ pc' = "top" /\ Tried' = Tried
        /\ disk' = disk \/ disk' = NoFile
    BY <1>5 DEF Start, Tried
  <2> QED BY <2>1, LoadedLogged, SnapshotAssumption DEF AuditInv, LoggedIn
<1>6. CASE \/ Tick \/ NextDay \/ TouchHaltFile \/ UNCHANGED vars
  BY <1>6, <1>same DEF Tick, NextDay, TouchHaltFile, vars, AuditInv
<1>7. CASE \/ BeginPass \/ CheckHaltFile \/ PassAuth \/ DailyLossHalt
           \/ PassRisk \/ CheckExpiryClose \/ CheckEod \/ Monitor \/ Sleep
  <2>1. UNCHANGED <<disk, rows, unwritten, pnl>> /\ pc # "log" /\ pc' # "log"
    BY <1>7 DEF BeginPass, CheckHaltFile, PassAuth, DailyLossHalt, PassRisk,
       CheckExpiryClose, CheckEod, Monitor, Sleep, BeginExit
  <2> QED BY <1>same, <2>1 DEF AuditInv
<1>8. CASE Enter \/ (Exit /\ ~RecordExit /\ ~LogExit)
  <2>1. UNCHANGED <<disk, rows, unwritten, pnl>> /\ pc # "log" /\ pc' # "log"
    BY <1>8 DEF Enter, AttemptEntry, SkipEntry, SellFilled, SellRefused,
       HedgeFilled, HedgeRefused, RollbackFilled, RollbackRefused, Exit,
       ExitShortFilled, ExitShortRefused, ExitLongFilled, ExitLongRefused
  <2> QED BY <1>same, <2>1 DEF AuditInv
<1> QED
  BY <1>1, <1>2, <1>3, <1>4, <1>5, <1>6, <1>7, <1>8 DEF Next, Loop

(* No counter, in memory or in whatever snapshot is on disk, ever knows of  *)
(* a trade whose two rows have not been tried, also when saves are lost: a  *)
(* counted trade lacks a row only because its own write failed.             *)
THEOREM AuditCorrect == Spec => []TradesAreLogged
<1>1. AuditInv => TradesAreLogged
  BY DEF AuditInv, TradesAreLogged, LoggedIn, Tried, TypeOK
<1> QED BY AuditInit, AuditNext, <1>1, PTL DEF Spec

-----------------------------------------------------------------------------
(* The state file as a journal.  Between two saves the memory differs from  *)
(* the file by at most one entry: nothing, a spread opened, or a spread     *)
(* closed with exactly one trade booked.                                    *)

\* A counter of the state file, as far as it counts today.
Today(counter) == IF SavedOn = day THEN counter ELSE 0

NoTradeSince ==
  /\ pnl.dayTrades = Today(SavedPnl.dayTrades)
  /\ pnl.dayRealised = Today(SavedPnl.dayRealised)

OneTradeSince ==
  /\ pnl.dayTrades = Today(SavedPnl.dayTrades) + 1
  /\ \E x \in TradePnls : pnl.dayRealised = Today(SavedPnl.dayRealised) + x

Opened == SavedPos = NoPos /\ pos \in Position /\ NoTradeSince
Closing == SavedPos \in Position /\ pos = NoPos
Kept == SavedPos = pos /\ NoTradeSince

Unwritten ==
  /\ pc \notin {"off", "record", "log", "save"} => Kept
  /\ pc = "record" => Closing /\ NoTradeSince
  /\ pc = "log" => Closing /\ OneTradeSince
  /\ pc = "save" => Kept \/ Opened \/ (Closing /\ OneTradeSince)

JournalInv ==
  /\ disk # Corrupt
  /\ SavedOn \in Nat /\ SavedOn <= day
  /\ Unwritten

\* One step of the journal, or none.
JournalStep == [Journal!Next]_(Journal!vars)

(* A new process resumes from the last entry of the journal.                *)
LEMMA LoadedResumes ==
  ASSUME ExposureInv, JournalInv
  PROVE  LET m == Loaded(disk, day) IN
           /\ m.pos = SavedPos
           /\ m.pnl.dayTrades = Today(SavedPnl.dayTrades)
           /\ m.pnl.dayRealised = Today(SavedPnl.dayRealised)
<1> DEFINE m == Loaded(disk, day)
<1>1. CASE disk = NoFile
  BY <1>1 DEF Loaded, Fresh, ZeroPnl, SavedPos, SavedPnl, Today
<1>2. CASE disk # NoFile
  <2>1. /\ disk \in Snapshots /\ disk \notin {NoFile, Corrupt}
        /\ SavedPos = disk.pos /\ SavedOn = disk.date /\ SavedPnl = disk.pnl
        /\ disk.pnl \in PnlState
    BY <1>2 DEF ExposureInv, JournalInv, TypeOK, SavedPos, SavedOn, SavedPnl,
       Snapshots
  <2>2. \A stale \in BOOLEAN :
          /\ RestorePnl(disk.pnl, stale).dayTrades =
               IF stale THEN 0 ELSE disk.pnl.dayTrades
          /\ RestorePnl(disk.pnl, stale).dayRealised =
               IF stale THEN 0 ELSE disk.pnl.dayRealised
    BY <2>1 DEF RestorePnl, PnlState
  <2>3. CASE disk.status = "FLAT"
    <3>1. disk.pos = NoPos
      BY <2>1, <2>3 DEF ExposureInv, SnapshotExplained
    <3> QED BY <2>1, <2>3, <3>1 DEF Loaded, Fresh, ZeroPnl, Today
  <2>4. CASE disk.status # "FLAT"
    <3>1. m.pos = disk.pos /\ m.pnl = RestorePnl(disk.pnl, disk.date # day)
      BY <2>1, <2>4 DEF Loaded
    <3> QED BY <2>1, <2>2, <3>1 DEF Today
  <2> QED BY <2>3, <2>4
<1> QED BY <1>1, <1>2

LEMMA JournalStart == Init => JournalInv /\ Journal!Init
  BY SnapshotAssumption, SessionAssumption
  DEF Init, JournalInv, Unwritten, Journal!Init, SavedPos, SavedOn, SavedPnl,
      ZeroPnl

(* Every step of the session is a step of the journal or leaves it alone.   *)
LEMMA JournalNext ==
  ASSUME ~DiskMayFail
  PROVE  ExposureInv /\ JournalInv /\ [Next]_vars => JournalInv' /\ JournalStep
<1> SUFFICES ASSUME ExposureInv, JournalInv, [Next]_vars
             PROVE  JournalInv' /\ JournalStep
  OBVIOUS
<1> USE DEF world, memory, bounds
<1>type. TypeOK /\ day \in Nat /\ pnl \in PnlState
  BY SessionAssumption DEF ExposureInv, TypeOK
(* Steps that do not write the file.                                        *)
<1>quiet. ASSUME disk' = disk PROVE JournalStep
  BY <1>quiet DEF JournalStep, Journal!vars, SavedPos, SavedOn, SavedPnl
<1>file. ASSUME disk' = disk, day' = day, Unwritten' PROVE JournalInv'
  BY <1>file DEF JournalInv, SavedOn
<1>kept. ASSUME UNCHANGED <<disk, day, pos, pnl>>
         PROVE  /\ Kept => Kept'
                /\ Closing /\ OneTradeSince => (Closing /\ OneTradeSince)'
  BY <1>kept DEF Kept, Closing, NoTradeSince, OneTradeSince, Today, SavedPos,
     SavedOn, SavedPnl
<1>gone. ASSUME Vanish PROVE Unwritten'
  BY <1>gone DEF Vanish, Unwritten
<1>world. CASE Tick \/ TouchHaltFile \/ UNCHANGED vars
  <2>1. UNCHANGED <<disk, day, pc, pos, pnl>>
    BY <1>world DEF Tick, TouchHaltFile, vars
  <2>2. Unwritten'
    BY <2>1 DEF JournalInv, Unwritten, Kept, Opened, Closing, NoTradeSince,
       OneTradeSince, Today, SavedPos, SavedOn, SavedPnl
  <2> QED BY <1>quiet, <1>file, <2>1, <2>2
<1>night. CASE NextDay
  <2>1. disk' = disk /\ day' = day + 1 /\ pc' = "off"
    BY <1>night DEF NextDay, Up
  <2> QED BY <1>quiet, <1>type, <2>1 DEF JournalInv, Unwritten, SavedOn
<1>stop. CASE Crash \/ CloseMarket \/ FailAuth
  <2>1. UNCHANGED <<disk, day>> /\ Vanish
    BY <1>stop DEF Crash, CloseMarket, FailAuth
  <2> QED BY <1>quiet, <1>file, <1>gone, <2>1
<1>start. CASE Start
  <2>1. UNCHANGED <<disk, day>> /\ pc' = "top"
    BY <1>start DEF Start, JournalInv
  <2>2. pos' = Loaded(disk, day).pos /\ pnl' = Loaded(disk, day).pnl
    BY <1>start DEF Start
  <2>3. Kept'
    BY <2>1, <2>2, LoadedResumes
    DEF Kept, NoTradeSince, Today, SavedPos, SavedOn, SavedPnl
  <2> QED BY <1>quiet, <1>file, <2>1, <2>3 DEF Unwritten
<1>guards. CASE \/ BeginPass \/ CheckHaltFile \/ PassAuth \/ DailyLossHalt
                \/ PassRisk \/ CheckExpiryClose \/ CheckEod \/ Monitor
                \/ Sleep
  <2>1. /\ UNCHANGED <<disk, day, pos, pnl>>
        /\ pc \notin {"off", "record", "log", "save"}
        /\ pc' \notin {"record", "log"}
    BY <1>guards DEF BeginPass, CheckHaltFile, PassAuth, DailyLossHalt,
       PassRisk, CheckExpiryClose, CheckEod, Monitor, Sleep, BeginExit
  <2>2. Unwritten'
    BY <1>kept, <2>1 DEF JournalInv, Unwritten
  <2> QED BY <1>quiet, <1>file, <2>1, <2>2
<1>enter. CASE Enter /\ ~HedgeFilled
  <2>1. /\ UNCHANGED <<disk, day, pos, pnl>>
        /\ pc \notin {"off", "record", "log", "save"}
        /\ pc' \notin {"record", "log", "save"}
    BY <1>enter DEF Enter, AttemptEntry, SkipEntry, SellFilled, SellRefused,
       HedgeRefused, RollbackFilled, RollbackRefused
  <2>2. Unwritten'
    BY <1>kept, <2>1 DEF JournalInv, Unwritten
  <2> QED BY <1>quiet, <1>file, <2>1, <2>2
<1>open. CASE HedgeFilled
  <2>1. /\ UNCHANGED <<disk, day, pnl>> /\ pc = "hedge" /\ pc' = "save"
        /\ pos' = plan /\ plan \in Position /\ pos = NoPos
    BY <1>open DEF HedgeFilled, ExposureInv, Stage
  <2>2. Opened'
    BY <2>1 DEF JournalInv, Unwritten, Kept, Opened, NoTradeSince, Today,
       SavedPos, SavedOn, SavedPnl
  <2> QED BY <1>quiet, <1>file, <2>1, <2>2 DEF Unwritten
<1>leave. CASE Exit
  <2>1. CASE ExitShortFilled \/ ExitShortRefused
    <3>1. /\ UNCHANGED <<disk, day, pos, pnl>>
          /\ pc = "exitShort" /\ pc' = "exitLong"
      BY <2>1 DEF ExitShortFilled, ExitShortRefused
    <3>2. Unwritten'
      BY <1>kept, <3>1 DEF JournalInv, Unwritten
    <3> QED BY <1>quiet, <1>file, <3>1, <3>2
  <2>2. CASE ExitLongFilled \/ ExitLongRefused
    <3>1. /\ UNCHANGED <<disk, day, pnl>> /\ pc = "exitLong"
          /\ pc' = "record" /\ pos \in Position /\ pos' = NoPos
      BY <2>2 DEF ExitLongFilled, ExitLongRefused, ExposureInv, Stage
    <3>2. Unwritten'
      BY <3>1 DEF JournalInv, Unwritten, Kept, Closing, NoTradeSince, Today,
         SavedPos, SavedOn, SavedPnl
    <3> QED BY <1>quiet, <1>file, <3>1, <3>2
  <2>3. CASE RecordExit
    <3>1. PICK x \in TradePnls : pnl' = RecordTrade(pnl, x)
      BY <2>3 DEF RecordExit
    <3>2. /\ pnl'.dayTrades = pnl.dayTrades + 1
          /\ pnl'.dayRealised = pnl.dayRealised + x
      BY <3>1 DEF RecordTrade
    <3>3. /\ UNCHANGED <<disk, day, pos>> /\ pc = "record" /\ pc' = "log"
      BY <2>3 DEF RecordExit
    <3>4. (Closing /\ OneTradeSince)'
      BY <3>2, <3>3 DEF JournalInv, Unwritten, Closing, NoTradeSince,
         OneTradeSince, Today, SavedPos, SavedOn, SavedPnl
    <3> QED BY <1>quiet, <1>file, <3>3, <3>4 DEF Unwritten
  <2>4. CASE LogExit
    <3>1. /\ UNCHANGED <<disk, day, pos, pnl>>
          /\ pc = "log" /\ pc' = "save"
      BY <2>4 DEF LogExit
    <3>2. Unwritten'
      BY <1>kept, <3>1 DEF JournalInv, Unwritten
    <3> QED BY <1>quiet, <1>file, <3>1, <3>2
  <2> QED BY <1>leave, <2>1, <2>2, <2>3, <2>4 DEF Exit
(* The save itself is the entry of the journal.                             *)
<1>save. CASE SaveAndContinue \/ SaveAndBreak
  <2>1. disk' = SnapshotNow /\ day' = day /\ pc = "save"
    BY <1>save DEF SaveAndContinue, SaveAndBreak, WriteSnapshot
  <2>2. SnapshotNow \in Snapshots /\ SnapshotNow \notin {NoFile, Corrupt}
    BY <1>type, SnapshotTyped, SnapshotAssumption
  <2>3. SavedPos' = pos /\ SavedOn' = day /\ SavedPnl' = pnl
    BY <2>1, <2>2 DEF SavedPos, SavedOn, SavedPnl, SnapshotNow
  <2>4. Unwritten'
    <3>1. CASE SaveAndBreak
      BY <1>gone, <3>1 DEF SaveAndBreak
    <3>2. CASE SaveAndContinue
      <4>1. /\ UNCHANGED <<pos, pnl>>
            /\ pc' \notin {"off", "record", "log", "save"}
        BY <3>2 DEF SaveAndContinue, Continuation
      <4>2. Kept'
        BY <2>1, <2>3, <4>1 DEF Kept, NoTradeSince, Today
      <4> QED BY <4>1, <4>2 DEF Unwritten
    <3> QED BY <1>save, <3>1, <3>2
  <2>5. JournalInv'
    BY <1>type, <2>1, <2>2, <2>3, <2>4 DEF JournalInv
  <2>6. Journal!Entry
    BY <1>type, <2>3 DEF JournalInv, Journal!Entry
  <2>7. \A counter : Journal!Carried(counter) = Today(counter)
    BY <2>3 DEF Journal!Carried, Today
  <2>8. ASSUME Kept PROVE JournalStep
    BY <2>3, <2>6, <2>7, <2>8
    DEF Kept, NoTradeSince, JournalStep, Journal!Next, Journal!Confirm
  <2>9. ASSUME Opened PROVE JournalStep
    BY <2>3, <2>6, <2>7, <2>9
    DEF Opened, NoTradeSince, JournalStep, Journal!Next, Journal!Open
  <2>10. ASSUME Closing /\ OneTradeSince PROVE JournalStep
    BY <2>3, <2>6, <2>7, <2>10, NoPosAssumption
    DEF Closing, OneTradeSince, JournalStep, Journal!Next, Journal!Close
  <2> QED BY <2>1, <2>5, <2>8, <2>9, <2>10 DEF JournalInv, Unwritten
<1> QED
  BY <1>world, <1>night, <1>stop, <1>start, <1>guards, <1>enter, <1>open,
     <1>leave, <1>save DEF Next, Loop

(* As long as saves succeed, the state file is a trade journal: across      *)
(* partial entries, crashes, relaunches and nights each save opens a spread *)
(* where none was held, closes the one held together with exactly one       *)
(* booked trade, or changes nothing.                                        *)
THEOREM JournalCorrect ==
  ASSUME ~DiskMayFail
  PROVE  Spec => ImplementsJournal
<1>1. ExposureInv /\ JournalInv /\ [Next]_vars => JournalInv' /\ JournalStep
  BY JournalNext
<1> QED BY JournalStart, ExposureInit, ExposureNext, <1>1, PTL
        DEF Spec, ImplementsJournal, Journal!Spec, JournalStep
=============================================================================
