---------------------------- MODULE PnlStatistics ----------------------------
(***************************************************************************)
(* The statistics of PaperPnLEngine: two ledgers, one over all trades and  *)
(* one over the day's, updated trade by trade and carried through          *)
(* open_positions.json.  A process may die before a save, be relaunched on *)
(* the same day or on another one, and finds a snapshot that may be of an  *)
(* earlier day, and then of a flat session that is not taken up at all.    *)
(***************************************************************************)
EXTENDS Amounts, Sequences, FiniteSets, FiniteSetsExt, Functions

CONSTANTS
  Strategies,       \* keys of the per-strategy statistics
  Results,          \* P&L of a closed trade, in rupees
  MaxTrades         \* bound of the instance

ASSUME StatisticsAssumption == Results \subseteq Int /\ MaxTrades \in Nat

VARIABLES
  stats,            \* the engine's ledgers and its list of trades
  saved             \* the snapshot: the same, its session flat or not, its day

statisticsVars == <<stats, saved>>

(* _empty_strat_stats and the zeros of __init__.                            *)
NoTrades == [trades |-> 0, total |-> 0, wins |-> 0]
EmptyLedger ==
  [realised |-> 0, trades |-> 0, wins |-> 0, strategy |-> [s \in Strategies |-> NoTrades],
   peak |-> 0, drawdown |-> 0]

(* trades is _trade_pnls, each with its strategy; earlier (history) is the  *)
(* number of those that were closed on an earlier day.                      *)
EmptyStats ==
  [all |-> EmptyLedger, day |-> EmptyLedger, trades |-> <<>>, earlier |-> 0]
NotSaved == [stats |-> EmptyStats, flat |-> TRUE, stale |-> TRUE]

StatisticsInit == stats = EmptyStats /\ saved = NotSaved

Won(pnl) == IF pnl > 0 THEN 1 ELSE 0

Booked(ledger, strategy, pnl) ==
  LET realised == ledger.realised + pnl
      peak == Larger(ledger.peak, realised)
      mine == ledger.strategy[strategy]
  IN [realised |-> realised, trades |-> ledger.trades + 1, wins |-> ledger.wins + Won(pnl),
      strategy |-> [ledger.strategy EXCEPT ![strategy] =
        [trades |-> mine.trades + 1, total |-> mine.total + pnl,
         wins |-> mine.wins + Won(pnl)]],
      peak |-> peak, drawdown |-> Larger(ledger.drawdown, peak - realised)]

(* record_trade                                                            *)
BookTrade(strategy, pnl) ==
  /\ Len(stats.trades) < MaxTrades
  /\ stats' = [stats EXCEPT
       !.all = Booked(@, strategy, pnl), !.day = Booked(@, strategy, pnl),
       !.trades = Append(@, [strategy |-> strategy, pnl |-> pnl])]
  /\ UNCHANGED saved

SaveStatistics(flat) ==
  /\ saved' = [stats |-> stats, flat |-> flat, stale |-> FALSE]
  /\ UNCHANGED stats

(* restore_state of a new engine, with or without reset_daily.              *)
RestoredWithoutPeak(from, resetDaily) ==
  [all |-> [from.all EXCEPT !.peak = 0],
   day |-> IF resetDaily THEN EmptyLedger ELSE [from.day EXCEPT !.peak = 0],
   trades |-> from.trades,
   earlier |-> IF resetDaily THEN Len(from.trades) ELSE from.earlier]

Restored(from, resetDaily) ==
  [all |-> from.all,
   day |-> IF resetDaily THEN EmptyLedger ELSE from.day,
   trades |-> from.trades,
   earlier |-> IF resetDaily THEN Len(from.trades) ELSE from.earlier]

(* The next process, on the same day or after a night: a flat session of an *)
(* earlier day leaves the new engine as it is.                              *)
RelaunchEngine(nextDay) ==
  LET stale == saved.stale \/ nextDay IN
  /\ saved' = [saved EXCEPT !.stale = stale]
  /\ stats' = IF stale /\ saved.flat THEN EmptyStats ELSE Restored(saved.stats, stale)

StatisticsNext ==
  \/ \E strategy \in Strategies, pnl \in Results : BookTrade(strategy, pnl)
  \/ \E flat \in BOOLEAN : SaveStatistics(flat)
  \/ \E nextDay \in BOOLEAN : RelaunchEngine(nextDay)

StatisticsSpec == StatisticsInit /\ [][StatisticsNext]_statisticsVars

-----------------------------------------------------------------------------
(* What a ledger of the trades ts should say, from its definitions: the     *)
(* peak is the best the running total ever was, from 0 before the first     *)
(* trade, and the drawdown the deepest fall from an earlier total.          *)
Pnls(ts) == [i \in DOMAIN ts |-> ts[i].pnl]
Total(ts, n) == SumFunctionOnSet(Pnls(ts), 1 .. n)
Of(ts, strategy) == {i \in DOMAIN ts : ts[i].strategy = strategy}
Winners(ts, I) == Cardinality({i \in I : ts[i].pnl > 0})

LedgerOf(ts) ==
  [realised |-> Total(ts, Len(ts)), trades |-> Len(ts), wins |-> Winners(ts, DOMAIN ts),
   strategy |-> [s \in Strategies |->
     [trades |-> Cardinality(Of(ts, s)), wins |-> Winners(ts, Of(ts, s)),
      total |-> SumFunctionOnSet(Pnls(ts), Of(ts, s))]],
   peak |-> Max({Total(ts, n) : n \in 0 .. Len(ts)}),
   drawdown |-> Max(UNION {{Total(ts, m) - Total(ts, n) : m \in 0 .. n} :
                           n \in 0 .. Len(ts)})]

(* Whatever saves, deaths and nights lie between the trades, the statistics *)
(* are those of the trades on the list, and the day's those of the trades   *)
(* since the last night: no counter is restored without the ones it must    *)
(* agree with, and none is reset that should go on (restore_state).         *)
StatsMatchTrades ==
  /\ stats.all = LedgerOf(stats.trades)
  /\ stats.day = LedgerOf(SubSeq(stats.trades, stats.earlier + 1, Len(stats.trades)))
=============================================================================
