------------------------------ MODULE Reconcile ------------------------------
(***************************************************************************)
(* ops/reconcile.py: the rows of paper_orders.csv and of the broker's      *)
(* trade book of one day, and the matching of one with the other.  A row   *)
(* is the key on which two legs may be joined (symbol and side), a time    *)
(* and a price.  One step treats one row of the engine.                    *)
(***************************************************************************)
EXTENDS Amounts, Sequences, FiniteSets, SequencesExt, FiniteSetsExt

CONSTANTS
  Keys,             \* symbol and side
  Times,            \* of a fill
  RowPrices,        \* 0: no fill, or a fill at no price
  WindowSec,        \* DEFAULT_MATCH_WINDOW_SEC
  FlagPct,          \* DEFAULT_FLAG_PRICE_PCT, in percent
  MaxRows           \* bound: rows of each side

ASSUME ReconcileAssumption ==
  Times \subseteq Nat /\ RowPrices \subseteq Nat /\ WindowSec \in Nat /\ MaxRows \in Nat

VARIABLES
  rows,             \* what the two files hold
  paired,           \* for each engine row so far the broker leg of its leg, 0 for none
  flagged           \* engine legs whose pair is in report.flagged

reconcileVars == <<rows, paired, flagged>>

Row == [key : Keys, at : Times, price : RowPrices]

(* _row_to_leg: a row without a positive price is not a leg.  A leg goes by *)
(* its row; rows are read, and legs matched, in the order of the file.      *)
RowToLeg(row) == row.price > 0
Legs(side) == {n \in DOMAIN rows[side] : RowToLeg(rows[side][n])}

ReconcileInit ==
  /\ rows \in [engine : BoundedSeq(Row, MaxRows), broker : BoundedSeq(Row, MaxRows)]
  /\ paired = <<>> /\ flagged = {}

Apart(e, b) == Size(rows.engine[e].at - rows.broker[b].at)

(* Broker legs that nobody has claimed; consumed_broker_ids.                *)
UnclaimedAny == Legs("broker")
Unclaimed == Legs("broker") \ Range(paired)

Joinable(e, b) ==
  /\ e \in Legs("engine") /\ b \in Legs("broker")
  /\ rows.engine[e].key = rows.broker[b].key
  /\ Apart(e, b) <= WindowSec

Candidates(e) == {b \in Unclaimed : Joinable(e, b)}

(* The closest in time; the first of the file when several are.             *)
BestOf(e) ==
  CHOOSE b \in Candidates(e) :
    \A c \in Candidates(e) \ {b} :
      Apart(e, b) < Apart(e, c) \/ (Apart(e, b) = Apart(e, c) /\ b < c)

Drifted(e, b) ==
  LET mine == rows.engine[e].price
  IN 100 * Size(rows.broker[b].price - mine) > FlagPct * mine

MatchLeg ==
  LET e == Len(paired) + 1 IN
  /\ e <= Len(rows.engine)
  /\ IF Candidates(e) = {}
     THEN paired' = Append(paired, 0) /\ flagged' = flagged
     ELSE /\ paired' = Append(paired, BestOf(e))
          /\ flagged' = IF Drifted(e, BestOf(e)) THEN flagged \union {e} ELSE flagged
  /\ UNCHANGED rows

ReconcileNext == MatchLeg

ReconcileSpec == ReconcileInit /\ [][ReconcileNext]_reconcileVars

-----------------------------------------------------------------------------
(* The report of reconcile(): no broker leg explains two engine legs, pairs *)
(* agree, nothing that could still be paired is left over on both sides,    *)
(* no leg left over is closer than the one that was taken, and a drift is    *)
(* flagged whenever it is too large.                                        *)
MatchingSound ==
  Len(paired) = Len(rows.engine) =>
    LET matched == {e \in DOMAIN paired : paired[e] # 0} IN
    /\ Cardinality({paired[e] : e \in matched}) = Cardinality(matched)
    /\ \A e \in matched :
         /\ Joinable(e, paired[e])
         /\ \A b \in Unclaimed : Joinable(e, b) => Apart(e, b) >= Apart(e, paired[e])
         /\ e \in flagged <=> Drifted(e, paired[e])
    /\ \A e \in DOMAIN paired \ matched, b \in Unclaimed : ~Joinable(e, b)
=============================================================================
