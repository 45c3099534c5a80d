------------------------------ MODULE TradeTable ------------------------------
(***************************************************************************)
(* TradeLogger of core/trade_logger.py and its table paper_trades.csv.  A  *)
(* logger numbers its rows on from the last one it finds when it starts; a *)
(* write may fail, and what it had written of the row then stays.  Two     *)
(* traders may write to one table when the PID lock was got around.        *)
(***************************************************************************)
EXTENDS Integers, Sequences

CONSTANTS
  Loggers,          \* one per trader process
  MaxRowsLogged,    \* bound: rows ever written
  MaxNumber         \* bound: numbers a logger gives

ASSUME TableRowsAssumption == MaxRowsLogged \in Nat /\ MaxNumber \in Nat

VARIABLES
  csvRows,          \* the lines of paper_trades.csv: the number that is read
                    \* from it, the one meant (history), and if it has ended
  csvHeader,        \* its header: "current", "old", or "missing" with the file
  counter,          \* _trade_counter of each logger, NoLogger when it is down
  shared,           \* history: two loggers were up at the same time
  misled            \* history: a logger has started from a torn number

tradeTableVars == <<csvRows, csvHeader, counter, shared, misled>>

NoLogger == -1
Line(read, meant, ended) == [read |-> read, meant |-> meant, ended |-> ended]

TradeTableInit ==
  /\ csvHeader \in {"current", "old", "missing"}
  /\ csvRows \in IF csvHeader = "missing" THEN {<<>>}
                 ELSE {<<>>, <<Line(1, 1, TRUE)>>}
  /\ counter = [l \in Loggers |-> NoLogger]
  /\ shared = FALSE /\ misled = FALSE

Up(l) == counter[l] # NoLogger

(* _read_last_counter, after _ensure_csv_header: the number in the last row.*)
LastNumberIgnored(rows) == 0
LastNumber(rows) == IF rows = <<>> THEN 0 ELSE rows[Len(rows)].read

(* A table with other columns is moved away, unless that fails.             *)
OpenTable(l) ==
  /\ ~Up(l)
  /\ \/ csvHeader # "old" /\ csvRows' = csvRows /\ csvHeader' = "current"
     \/ csvHeader = "old" /\ csvRows' = <<>> /\ csvHeader' = "current"
     \/ csvHeader = "old" /\ UNCHANGED <<csvRows, csvHeader>>
  /\ counter' = [counter EXCEPT ![l] = LastNumber(csvRows')]
  /\ shared' = (shared \/ \E m \in Loggers \ {l} : Up(m))
  /\ misled' = (misled \/ \E n \in DOMAIN csvRows' :
                  n = Len(csvRows') /\ csvRows'[n].read # csvRows'[n].meant)

(* What follows a torn row lands on its line.  The number read from it is   *)
(* then the new one, unless the tear came after the old one.                *)
Appended(line) ==
  LET n == Len(csvRows)
      torn == n > 0 /\ ~csvRows[n].ended
  IN IF ~torn THEN {Append(csvRows, line)}
     ELSE {[csvRows EXCEPT ![n] = line]} \union
          (IF csvRows[n].read = csvRows[n].meant
           THEN {[csvRows EXCEPT ![n].ended = line.ended]} ELSE {})

NextNumber(l) ==
  /\ Up(l) /\ counter[l] < MaxNumber /\ Len(csvRows) < MaxRowsLogged
  /\ counter' = [counter EXCEPT ![l] = @ + 1]

LogRow(l) ==
  /\ NextNumber(l)
  /\ csvRows' \in Appended(Line(counter[l] + 1, counter[l] + 1, TRUE))
  /\ UNCHANGED <<csvHeader, shared, misled>>

(* A failed write is only logged.  It leaves nothing, or the beginning of   *)
(* the row, whose number may have lost its last digits.                     *)
LogFails(l) ==
  /\ NextNumber(l)
  /\ \/ UNCHANGED csvRows
     \/ \E read \in 0 .. counter[l] + 1 :
          csvRows' \in Appended(Line(read, counter[l] + 1, FALSE))
  /\ UNCHANGED <<csvHeader, shared, misled>>

EndLogger(l) ==
  /\ Up(l)
  /\ counter' = [counter EXCEPT ![l] = NoLogger]
  /\ UNCHANGED <<csvRows, csvHeader, shared, misled>>

TradeTableNext ==
  \E l \in Loggers : OpenTable(l) \/ LogRow(l) \/ LogFails(l) \/ EndLogger(l)

TradeTableSpec == TradeTableInit /\ [][TradeTableNext]_tradeTableVars

-----------------------------------------------------------------------------
(* The numbers in paper_trades.csv grow from row to row, over relaunches and *)
(* failed writes, so that no trade id comes twice; unless two traders have   *)
(* written at once, or one has counted on from a torn number.  A tear alone  *)
(* does no harm (_read_last_counter, _next_trade_id).                        *)
Intact == {n \in DOMAIN csvRows : csvRows[n].read = csvRows[n].meant}

NumbersGrow ==
  ~shared /\ ~misled =>
    \A i, j \in Intact : i < j => csvRows[i].read < csvRows[j].read
=============================================================================
