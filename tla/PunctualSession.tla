--------------------------- MODULE PunctualSession ---------------------------
(***************************************************************************)
(* TradingSession under the timing its schedule relies on.  The clock of   *)
(* TradingSession may jump over any stretch of the day between two steps;  *)
(* here it may not outrun the process where that matters:                  *)
(*   - run_watch.sh relaunches main.py until 14:40, so a trader that holds *)
(*     a position is running when the afternoon begins, and crashes are    *)
(*     considered up to then only (nobody relaunches afterwards);          *)
(*   - a pass takes about 30 seconds, so at least one whole pass fits in   *)
(*     the twenty minutes from 15:10 to 15:30.                             *)
(***************************************************************************)
EXTENDS TradingSession

VARIABLE seen   \* the stretch of day in which the pass under way began

pvars == <<vars, seen>>

PassDoneIn(t) == pc = "sleep" /\ seen = t

InTime ==
  /\ slot = Midday => Up \/ SavedPos = NoPos
  /\ slot = Eod => ~Up \/ PassDoneIn(Eod)

PunctualTick  == Tick /\ InTime /\ seen' = seen
WatchedCrash  == Crash /\ slot <= Midday /\ seen' = seen
PunctualLoop  == Loop /\ seen' = (IF pc = "top" THEN slot ELSE seen)
WatchedStart  == Start /\ slot <= Midday /\ seen' = seen

PunctualInit == Init /\ seen = PreOpen

PunctualNext ==
  \/ PunctualTick \/ WatchedCrash \/ PunctualLoop
  \/ (NextDay \/ TouchHaltFile \/ Start) /\ seen' = seen

(* The process takes its next step, the watch loop relaunches it while it   *)
(* runs, and real time passes even though the process may close the stretch *)
(* of day in which it could again and again.                                *)
PunctualSpec ==
  /\ PunctualInit /\ [][PunctualNext]_pvars
  /\ WF_pvars(PunctualLoop)
  /\ WF_pvars(WatchedStart)
  /\ SF_pvars(PunctualTick)

-----------------------------------------------------------------------------
(* When the market has closed no position is left, in memory or in the      *)
(* state file: the expiry-day and 15:10 exits catch every spread, also one  *)
(* restored after a crash, filled at the last moment, or saved by a stop.   *)
NothingHeldOvernight ==
  slot = Closed => pos = NoPos /\ SavedPos = NoPos

(* Every position that reaches the state file is eventually saved as        *)
(* closed, however the operator plays with the HALT file.                   *)
PositionsClose ==
  (SavedPos # NoPos) ~> (SavedPos = NoPos)
=============================================================================
