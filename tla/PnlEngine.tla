------------------------------ MODULE PnlEngine ------------------------------
(***************************************************************************)
(* The realised-P&L counters of PaperPnLEngine that outlive a trade: the   *)
(* cumulative pair and the pair reset every morning.  Win counts, per      *)
(* strategy statistics and drawdowns follow the same two life cycles and   *)
(* are left out.  Amounts are integers in any unit.                        *)
(***************************************************************************)
EXTENDS Integers

PnlState == [realised : Int, trades : Nat, dayRealised : Int, dayTrades : Nat]

ZeroPnl == [realised |-> 0, trades |-> 0, dayRealised |-> 0, dayTrades |-> 0]

\* Mutant: the trade count runs the wrong way.
RecordTradeMiscounted(p, amount) ==
  [realised    |-> p.realised + amount,
   trades      |-> p.trades - 1,
   dayRealised |-> p.dayRealised + amount,
   dayTrades   |-> p.dayTrades + 1]

\* record_trade: one completed trade of the given P&L.
RecordTrade(p, amount) ==
  [realised    |-> p.realised + amount,
   trades      |-> p.trades + 1,
   dayRealised |-> p.dayRealised + amount,
   dayTrades   |-> p.dayTrades + 1]

\* Mutant: the counters of a previous day are kept.
RestorePnlKeepingDay(saved, stale) == saved

\* restore_state(saved, reset_daily=stale).
RestorePnl(saved, stale) ==
  IF stale THEN [saved EXCEPT !.dayRealised = 0, !.dayTrades = 0] ELSE saved
=============================================================================
