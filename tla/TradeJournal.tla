---------------------------- MODULE TradeJournal ----------------------------
(***************************************************************************)
(* What the state file promises to whoever restarts the trader: a journal  *)
(* of one position at a time.  Each entry of the journal carries the       *)
(* trading day it was written on, the position held then, and the trades   *)
(* and P&L booked that day.  A position appears only when none was held,   *)
(* disappears only together with exactly one booked trade, and is never    *)
(* replaced or forgotten, whatever crashes happen between two entries.     *)
(***************************************************************************)
EXTENDS Integers

CONSTANTS
  Spreads,   \* positions that can be held
  Amounts,   \* P&L a trade can book
  None       \* no position

VARIABLES
  held,      \* position of the last entry
  date,      \* day of the last entry, 0 before the first
  trades,    \* trades booked on that day
  booked     \* their P&L

vars == <<held, date, trades, booked>>

Init == held = None /\ date = 0 /\ trades = 0 /\ booked = 0

\* Every entry is dated, no earlier than the one before, and continues from
\* the counters of its day: a new day starts at zero.
Entry == date' \in Nat /\ date' >= date

Carried(counter) == IF date' = date THEN counter ELSE 0

Open ==
  /\ held = None
  /\ Entry
  /\ held' \in Spreads
  /\ trades' = Carried(trades) /\ booked' = Carried(booked)

Close ==
  /\ held # None
  /\ Entry
  /\ held' = None
  /\ trades' = Carried(trades) + 1
  /\ \E x \in Amounts : booked' = Carried(booked) + x

\* An entry that reports no change.
Confirm ==
  /\ Entry
  /\ held' = held
  /\ trades' = Carried(trades) /\ booked' = Carried(booked)

Next == Open \/ Close \/ Confirm

Spec == Init /\ [][Next]_vars
=============================================================================
