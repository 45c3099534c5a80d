------------------------------ MODULE LiveOrder ------------------------------
(***************************************************************************)
(* LiveOrderManager: an order is submitted and polled until the broker     *)
(* says that it is over, the polls fail too often, or the time is up.  The *)
(* broker works on the order all the while, its answers may lag or be      *)
(* lost, and the trader may crash; the next one goes on with the positions *)
(* of the state file, which nobody compares with the broker's.             *)
(***************************************************************************)
EXTENDS Integers, Sequences, FiniteSets, FiniteSetsExt, Functions

CONSTANTS
  Legs,              \* option symbols
  Qty,               \* the quantity of an order
  MaxPollErrors, MaxPollWait, MaxBackoff,   \* settings, and the cap of 2 ** n
  MaxOrders          \* bound of the instance

ASSUME LiveAssumption ==
  /\ Qty \in Nat \ {0} /\ MaxPollErrors \in Nat \ {0}
  /\ MaxPollWait \in Nat /\ MaxBackoff \in Nat \ {0} /\ MaxOrders \in Nat

VARIABLES
  book,              \* the broker's orders: [leg, side, status, filled]
  order,             \* what place_order is doing
  report,            \* history: what place_order said of each order
  tracked,           \* the tracker's quantity of each order
  saved,             \* the same in open_positions.json
  stuck,             \* the orders in stuck_legs.json
  spoilt,            \* history: the orders whose record a bad file has lost
  fileBad,           \* stuck_legs.json cannot be read
  unsaved            \* history: the orders tracked by a process that died unsaved

liveVars == <<book, order, report, tracked, saved, stuck, spoilt, fileBad, unsaved>>

Free == [at |-> "free"]
Down == [at |-> "down"]
Silent == [status |-> "none", fill |-> 0]

Terminal == {"COMPLETE", "REJECTED", "CANCELED"}
Open == {"PENDING", "OPEN"}

LiveInit ==
  /\ book = <<>> /\ order = Free
  /\ report = <<>> /\ tracked = <<>> /\ saved = <<>>
  /\ stuck = {} /\ spoilt = {} /\ fileBad = FALSE /\ unsaved = {}

-----------------------------------------------------------------------------
(* The broker.  An order may fill in parts; a status that the code does not *)
(* know is not the end of the order.                                        *)
Working(o) == book[o].status \notin Terminal \union {"LOST"}

BrokerWorks(o) ==
  /\ o \in DOMAIN book /\ Working(o)
  /\ \E filled \in book[o].filled .. Qty,
        status \in {"OPEN", "REPLACED", "COMPLETE", "REJECTED", "CANCELED"} :
       /\ status = "COMPLETE" <=> filled = Qty
       /\ status = "REJECTED" => filled = 0
       /\ book' = [book EXCEPT ![o] =
            [leg |-> @.leg, side |-> @.side, status |-> status, filled |-> filled]]
  /\ UNCHANGED <<order, report, tracked, saved, stuck, spoilt, fileBad, unsaved>>

(* An answer may be the present state of the order, or say OPEN, with less  *)
(* filled, long after it (or nothing at all).                               *)
Answers(o) ==
  {[status |-> book[o].status, filled |-> book[o].filled]}
    \union [status : Open, filled : 0 .. book[o].filled]

-----------------------------------------------------------------------------
New == Len(book) + 1

Placed(leg, side, status) ==
  book' = Append(book, [leg |-> leg, side |-> side, status |-> status, filled |-> 0])

(* The request was answered with an order number.                           *)
Submit(leg, side) ==
  /\ order = Free /\ New <= MaxOrders
  /\ Placed(leg, side, "PENDING")
  /\ order' = [at |-> "poll", errors |-> 0, waited |-> 0]
  /\ report' = Append(report, Silent) /\ tracked' = Append(tracked, 0)
  /\ UNCHANGED <<saved, stuck, spoilt, fileBad, unsaved>>

(* An exception, no answer or no number in it: rejected, with nothing       *)
(* filled, whether or not the broker has taken the order.                   *)
SubmitFails(leg, side) ==
  /\ order = Free /\ New <= MaxOrders
  /\ \E status \in {"PENDING", "LOST"} : Placed(leg, side, status)
  /\ report' = Append(report, [status |-> "unsent", fill |-> 0])
  /\ tracked' = Append(tracked, 0)
  /\ UNCHANGED <<order, saved, stuck, spoilt, fileBad, unsaved>>

Polling == order.at = "poll"
Now == Len(book)              \* the order being polled is the last one

(* place_order after the polling: the tracker is given the order, which     *)
(* carries the requested quantity, whenever anything was filled.            *)
Finish(status, filled) ==
  /\ report' = [report EXCEPT ![Now] = [status |-> status, fill |-> filled]]
  /\ tracked' = [tracked EXCEPT ![Now] = IF filled > 0 THEN Qty ELSE 0]
  /\ order' = Free
  /\ UNCHANGED <<saved, stuck, spoilt, fileBad, unsaved>>

IsTerminalOrFilling(answer) == answer.status \in Terminal \/ answer.filled > 0
IsTerminal(answer) == answer.status \in Terminal

PollEnds ==
  /\ Polling
  /\ \E answer \in Answers(Now) :
       /\ IsTerminal(answer)
       /\ Finish(answer.status, answer.filled)
  /\ UNCHANGED book

PollUnknown ==
  /\ Polling
  /\ \E answer \in Answers(Now) :
       /\ ~IsTerminal(answer) /\ answer.status \notin Open
       /\ Finish("coerced", answer.filled)
  /\ UNCHANGED book

PollAgain ==
  /\ Polling /\ order.waited < MaxPollWait
  /\ \E answer \in Answers(Now) : ~IsTerminal(answer) /\ answer.status \in Open
  /\ order' = [order EXCEPT !.errors = 0, !.waited = @ + 1]
  /\ UNCHANGED <<book, report, tracked, saved, stuck, spoilt, fileBad, unsaved>>

(* The time is up: a cancellation is tried, and whatever becomes of it the  *)
(* order is reported as rejected, with what the last answer said of it.     *)
PollTimesOut ==
  /\ Polling /\ order.waited >= MaxPollWait
  /\ \E answer \in Answers(Now) :
       /\ ~IsTerminal(answer) /\ answer.status \in Open
       /\ Finish("timeout", answer.filled)
  /\ \/ UNCHANGED book
     \/ Working(Now) /\ book' = [book EXCEPT ![Now].status = "CANCELED"]

Backoff(n) == Min({2 ^ (n - 1), MaxBackoff})
AtMostWait(n) == Min({n, MaxPollWait})

PollFails ==
  /\ Polling /\ order.errors + 1 < MaxPollErrors
  /\ order' = [order EXCEPT !.errors = @ + 1,
                            !.waited = AtMostWait(@ + Backoff(order.errors + 1))]
  /\ UNCHANGED <<book, report, tracked, saved, stuck, spoilt, fileBad, unsaved>>

(* persist_stuck_legs: a file that cannot be read counts as empty; a write  *)
(* that fails is only logged, and may have cut the file short.              *)
PersistForgetting(o) ==
  /\ stuck' = {o} /\ fileBad' = FALSE /\ spoilt' = spoilt

PersistStuckLegs(o) ==
  \/ /\ stuck' = IF fileBad THEN {o} ELSE stuck \union {o}
     /\ spoilt' = IF fileBad THEN spoilt \union stuck ELSE spoilt
     /\ fileBad' = FALSE
  \/ /\ spoilt' = spoilt \union {o} /\ fileBad' \in {fileBad, TRUE}
     /\ UNCHANGED stuck

PollAbandonsNever ==
  /\ Polling /\ order.errors + 1 >= MaxPollErrors
  /\ order' = [order EXCEPT !.errors = 0]
  /\ UNCHANGED <<book, report, tracked, saved, stuck, spoilt, fileBad, unsaved>>

(* OrderPollingAbandoned: the leg is put on file and the exception goes on  *)
(* to the caller.                                                           *)
PollAbandons ==
  /\ Polling /\ order.errors + 1 >= MaxPollErrors
  /\ report' = [report EXCEPT ![Now].status = "abandoned"]
  /\ PersistStuckLegs(Now)
  /\ order' = Free
  /\ UNCHANGED <<book, tracked, saved, unsaved>>

Poll == PollEnds \/ PollUnknown \/ PollAgain \/ PollTimesOut \/ PollFails \/ PollAbandons

-----------------------------------------------------------------------------
(* The caller saves its positions between two orders, and may die at any    *)
(* point; while it writes stuck_legs.json it leaves a file that cannot be   *)
(* read.                                                                    *)
SavePositions ==
  /\ order = Free
  /\ saved' = tracked
  /\ UNCHANGED <<book, order, report, tracked, stuck, spoilt, fileBad, unsaved>>

WritingStuckLegs == Polling /\ order.errors + 1 >= MaxPollErrors

(* What the state file holds of an order.                                   *)
Restored(o) == IF o \in DOMAIN saved THEN saved[o] ELSE 0

Crash ==
  /\ order # Down
  /\ order' = Down
  /\ fileBad' \in IF WritingStuckLegs THEN {fileBad, TRUE} ELSE {fileBad}
  /\ report' = [o \in DOMAIN report |->
       IF report[o] = Silent THEN [Silent EXCEPT !.status = "crashed"] ELSE report[o]]
  /\ unsaved' = unsaved \union {o \in DOMAIN tracked : tracked[o] # Restored(o)}
  /\ UNCHANGED <<book, tracked, saved, stuck, spoilt>>

StartupWithoutLoad ==
  /\ order = Down
  /\ order' = Free
  /\ tracked' = [o \in DOMAIN book |-> 0]
  /\ UNCHANGED <<book, report, saved, stuck, spoilt, fileBad, unsaved>>

(* run() restores the positions of the state file and enters the loop.      *)
Startup ==
  /\ order = Down
  /\ order' = Free
  /\ tracked' = [o \in DOMAIN book |-> Restored(o)]
  /\ UNCHANGED <<book, report, saved, stuck, spoilt, fileBad, unsaved>>

LiveNext ==
  \/ \E leg \in Legs, side \in {"BUY", "SELL"} : Submit(leg, side) \/ SubmitFails(leg, side)
  \/ \E o \in 1 .. MaxOrders : BrokerWorks(o)
  \/ Poll \/ SavePositions \/ Crash \/ Startup

LiveSpec == LiveInit /\ [][LiveNext]_liveVars /\ WF_liveVars(Poll)

-----------------------------------------------------------------------------
(* What place_order says of an order: never more than the broker filled;    *)
(* and when it passes on a final status of the broker, exactly that, from   *)
(* then on.  Only an order that was given up on (no answer, time, unknown   *)
(* status, too many errors) may fill behind the trader's back.              *)
ReportMatchesBroker ==
  \A o \in DOMAIN report :
    /\ report[o].fill <= book[o].filled
    /\ report[o].status \in Terminal \union Open =>
         report[o].fill = book[o].filled

(* An order whose polling was abandoned is in stuck_legs.json for the       *)
(* operator, whatever else is written to the file, unless a write failed or *)
(* a crash had spoilt the file (persist_stuck_legs).                        *)
AbandonedIsOnFile ==
  \A o \in DOMAIN report : report[o].status = "abandoned" => o \in stuck \union spoilt

(* Net positions, of the trader and of the broker.                          *)
Signed(o, quantity) == IF book[o].side = "BUY" THEN quantity ELSE -quantity
Net(quantity, leg) ==
  SumFunctionOnSet([o \in DOMAIN quantity |-> Signed(o, quantity[o])],
                   {o \in DOMAIN quantity : book[o].leg = leg})
EngineMap(leg) == Net(saved, leg)
BrokerMap(leg) == Net([o \in DOMAIN book |-> book[o].filled], leg)

(* While the trader runs, its net position in a leg is the broker's, unless *)
(* an order in that leg is under way, was given up on, filled in part (the  *)
(* tracker counts it whole), or was filled and then forgotten by a crash    *)
(* before the positions were saved: the start after it goes on without it.  *)
Excused(o) ==
  \/ report[o].status \notin Terminal
  \/ 0 < book[o].filled /\ book[o].filled < Qty
  \/ o \in unsaved

DriftIsExplained ==
  order # Down =>
    \A leg \in Legs :
      Net(tracked, leg) # BrokerMap(leg) =>
        \E o \in DOMAIN book : book[o].leg = leg /\ Excused(o)

(* place_order comes back, by an order or by an exception: lagging answers  *)
(* run into the deadline, failing polls into their limit, and a mixture of  *)
(* both into one of the two.                                                *)
EveryOrderEnds == (order.at = "poll") ~> (order.at # "poll")

-----------------------------------------------------------------------------
(* reconcile_startup_positions, the comparison that startup_reconcile.py    *)
(* offers: a row with no quantity left is not there.                        *)
Consistent ==
  LET engine == {leg \in Legs : EngineMap(leg) # 0}
      broker == {leg \in Legs : BrokerMap(leg) # 0}
  IN /\ engine \subseteq broker /\ broker \subseteq engine
     /\ \A leg \in engine \intersect broker : EngineMap(leg) = BrokerMap(leg)

\* SYSTEM_ARCHITECTURE.md: a divergence from the broker halts startup.
DivergenceHaltsStartup ==
  [][order = Down /\ order' # Down => Consistent]_liveVars
=============================================================================
