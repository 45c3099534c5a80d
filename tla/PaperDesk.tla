------------------------------ MODULE PaperDesk ------------------------------
(***************************************************************************)
(* The data side of the paper trader: the prices it reads (MarketFeed),    *)
(* the fills and averages made of them (PaperOrder), the matching of those  *)
(* fills with the broker's book (Reconcile), the contracts it picks        *)
(* (ContractTable), the week its signal is about (WeeklySignal), and what  *)
(* is kept of closed trades: statistics (PnlStatistics) and rows           *)
(* (TradeTable).  They share no state: each reads the values of the others *)
(* as inputs, taken here from sets, so one of them moves at a time, the    *)
(* one in focus.                                                           *)
(***************************************************************************)
EXTENDS MarketFeed, PaperOrder, Reconcile, ContractTable, WeeklySignal,
        PnlStatistics, TradeTable

VARIABLE deskFocus        \* the component whose behaviours are explored

feedRest ==
  <<paperVars, reconcileVars, tableVars, signalVars, statisticsVars, tradeTableVars, deskFocus>>
paperRest ==
  <<vars, reconcileVars, tableVars, signalVars, statisticsVars, tradeTableVars, deskFocus>>
reconcileRest ==
  <<vars, paperVars, tableVars, signalVars, statisticsVars, tradeTableVars, deskFocus>>
tableRest ==
  <<vars, paperVars, reconcileVars, signalVars, statisticsVars, tradeTableVars, deskFocus>>
signalRest ==
  <<vars, paperVars, reconcileVars, tableVars, statisticsVars, tradeTableVars, deskFocus>>
statisticsRest ==
  <<vars, paperVars, reconcileVars, tableVars, signalVars, tradeTableVars, deskFocus>>
rowsRest ==
  <<vars, paperVars, reconcileVars, tableVars, signalVars, statisticsVars, deskFocus>>

(* A component that never moves has nothing to read.                        *)
NoRows == [engine |-> <<>>, broker |-> <<>>]
NoFiles == [nse |-> FALSE, nfo |-> {}]

DeskInit ==
  /\ deskFocus \in {"feed", "paper", "reconcile", "table", "signal", "statistics", "rows"}
  /\ Init /\ PaperInit /\ StatisticsInit
  /\ IF deskFocus = "reconcile" THEN ReconcileInit
     ELSE rows = NoRows /\ paired = <<>> /\ flagged = {}
  /\ IF deskFocus = "table" THEN TableInit
     ELSE today = 1 /\ onDisk = NoFiles /\ table = Unread /\ picked = NothingPicked
  /\ IF deskFocus = "signal" THEN SignalInit
     ELSE /\ listed = {} /\ onFile = {} /\ signalClock = 0
          /\ tsymCache = [a \in Atms |-> NoWeek] /\ signalCache = NoSignal
          /\ step = AtRest /\ failed = {} /\ entered = AtRest
  /\ TradeTableInit
  /\ deskFocus # "rows" => csvHeader = "missing"

DeskNext ==
  \/ deskFocus = "feed" /\ Next /\ UNCHANGED feedRest
  \/ deskFocus = "paper" /\ PaperNext /\ UNCHANGED paperRest
  \/ deskFocus = "reconcile" /\ ReconcileNext /\ UNCHANGED reconcileRest
  \/ deskFocus = "table" /\ TableNext /\ UNCHANGED tableRest
  \/ deskFocus = "signal" /\ SignalNext /\ UNCHANGED signalRest
  \/ deskFocus = "statistics" /\ StatisticsNext /\ UNCHANGED statisticsRest
  \/ deskFocus = "rows" /\ TradeTableNext /\ UNCHANGED rowsRest

deskVars ==
  <<vars, paperVars, reconcileVars, tableVars, signalVars, statisticsVars, tradeTableVars, deskFocus>>

DeskSpec == DeskInit /\ [][DeskNext]_deskVars
=============================================================================
