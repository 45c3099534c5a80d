-------------------------- MODULE LiveTradingProofs -------------------------
(***************************************************************************)
(* The trader against the broker.  What place_order says of an order is    *)
(* what the broker did, what it gave up on is on file, and the net         *)
(* positions of both sides differ only where they may, for any number of   *)
(* orders, any quantity and any limits.  The token in use is the one on    *)
(* file, a broker out of reach costs no login, and one process asks for    *)
(* few tokens, for every number of automated attempts and whatever the     *)
(* broker answers.                                                         *)
(***************************************************************************)
EXTENDS LiveTrading, AmountsProofs, SequenceTheorems

(* The orders and the reports come in pairs.  An order being polled is the  *)
(* last one and nobody has reported on it.                                  *)
Statuses == Terminal \union Open \union {"REPLACED", "LOST"}
BrokerOrder == [leg : Legs, side : {"BUY", "SELL"}, status : Statuses, filled : 0 .. Qty]
Report ==
  [status : Terminal \union {"none", "unsent", "coerced", "timeout", "abandoned", "crashed"},
   fill : 0 .. Qty]

LiveTypes ==
  /\ book \in Seq(BrokerOrder) /\ report \in Seq(Report)
  /\ Len(report) = Len(book)

PolledIsLast == Polling => Now > 0 /\ report[Now].status = "none"

(* A report with a final status of the broker is about an order that is     *)
(* over: nothing the broker does later can change it.                       *)
FinalIsFinal ==
  \A o \in DOMAIN report :
    /\ report[o].fill <= book[o].filled
    /\ report[o].status \in Terminal =>
         book[o].status \in Terminal /\ report[o].fill = book[o].filled

ReportInv == LiveTypes /\ PolledIsLast /\ FinalIsFinal

-----------------------------------------------------------------------------
(* A final answer of the broker is the present state of the order: only     *)
(* answers that say that it is open can be old.                             *)
LEMMA FinalAnswerIsCurrent ==
  ASSUME NEW o, NEW answer \in Answers(o), IsTerminal(answer)
  PROVE  answer.status = book[o].status /\ answer.filled = book[o].filled
BY DEF Answers, IsTerminal, Terminal, Open

(* No answer claims more than was filled.                                   *)
LEMMA AnswerIsBounded ==
  ASSUME NEW o, book[o] \in BrokerOrder, Qty \in Nat, NEW answer \in Answers(o)
  PROVE  answer.filled \in 0 .. Qty /\ answer.filled <= book[o].filled
BY DEF Answers, BrokerOrder

(* place_order ends with a status and a quantity: the report stands if both *)
(* are true of the order, whose record may be replaced by one as full.      *)
LEMMA FinishKeeps ==
  ASSUME ReportInv, Polling, Qty \in Nat,
         NEW status, NEW filled, Finish(status, filled),
         book' = book \/ (Working(Now) /\ book' = [book EXCEPT ![Now].status = "CANCELED"]),
         [status |-> status, fill |-> filled] \in Report,
         filled <= book[Now].filled,
         status \in Terminal =>
           book' = book /\ book[Now].status = status /\ filled = book[Now].filled
  PROVE  ReportInv'
<1>1. Now \in 1 .. Len(book) /\ Now \in 1 .. Len(report)
  BY DEF ReportInv, LiveTypes, PolledIsLast, Now
<1>2. \A o \in 1 .. Len(book) : book[o] \in BrokerOrder
  BY DEF ReportInv, LiveTypes
<1>3. /\ book' \in Seq(BrokerOrder) /\ Len(book') = Len(book)
      /\ \A o \in 1 .. Len(book) : book'[o].filled = book[o].filled
      /\ \A o \in 1 .. Len(book) : o # Now => book'[o] = book[o]
  <2>1. CASE book' = book
    BY <2>1, <1>1 DEF ReportInv, LiveTypes
  <2>2. CASE book' = [book EXCEPT ![Now].status = "CANCELED"]
    BY <2>2, <1>1, <1>2 DEF ReportInv, LiveTypes, BrokerOrder, Statuses, Terminal
  <2> QED
    BY <2>1, <2>2
<1>4. /\ report' \in Seq(Report) /\ Len(report') = Len(report)
      /\ report'[Now] = [status |-> status, fill |-> filled]
      /\ \A o \in 1 .. Len(report) : o # Now => report'[o] = report[o]
  BY <1>1 DEF Finish, ReportInv, LiveTypes
<1>5. LiveTypes'
  BY <1>3, <1>4 DEF ReportInv, LiveTypes
<1>6. PolledIsLast'
  BY DEF PolledIsLast, Polling, Finish, Free
<1>7. FinalIsFinal'
  <2> SUFFICES ASSUME NEW o \in 1 .. Len(book)
               PROVE  /\ report'[o].fill <= book'[o].filled
                      /\ report'[o].status \in Terminal =>
                           /\ book'[o].status \in Terminal
                           /\ report'[o].fill = book'[o].filled
    BY <1>4 DEF FinalIsFinal, ReportInv, LiveTypes, Terminal
  <2>1. CASE o = Now
    BY <2>1, <1>3, <1>4
  <2>2. CASE o # Now
    <3>1. report'[o] = report[o] /\ book'[o] = book[o]
      BY <2>2, <1>3, <1>4 DEF ReportInv, LiveTypes
    <3> QED
      BY <3>1 DEF ReportInv, LiveTypes, FinalIsFinal
  <2> QED
    BY <2>1, <2>2
<1> QED
  BY <1>5, <1>6, <1>7 DEF ReportInv

-----------------------------------------------------------------------------
LEMMA ReportInitially == LiveInit => ReportInv
BY DEF LiveInit, ReportInv, LiveTypes, PolledIsLast, FinalIsFinal, Polling, Free

(* A new order: its record and its report are appended together.            *)
LEMMA AppendKeeps ==
  ASSUME ReportInv, Qty \in Nat,
         NEW leg \in Legs, NEW side \in {"BUY", "SELL"},
         NEW status \in {"PENDING", "LOST"}, Placed(leg, side, status),
         NEW said \in {Silent, [status |-> "unsent", fill |-> 0]},
         report' = Append(report, said),
         Polling' => said = Silent
  PROVE  ReportInv'
<1> DEFINE new == [leg |-> leg, side |-> side, status |-> status, filled |-> 0]
<1>1. new \in BrokerOrder
  BY DEF BrokerOrder, Statuses, Open
<1>2. said \in Report /\ said.fill = 0 /\ said.status \notin Terminal
  BY DEF Report, Silent, Terminal
<1>3. /\ book' = Append(book, new) /\ book' \in Seq(BrokerOrder)
      /\ report' \in Seq(Report) /\ Len(report') = Len(book')
      /\ Len(book') = Len(book) + 1 /\ Len(book) \in Nat /\ Len(report) = Len(book)
  BY <1>1, <1>2 DEF Placed, ReportInv, LiveTypes
<1>4. /\ book'[Len(book) + 1] = new /\ report'[Len(book) + 1] = said
      /\ \A o \in 1 .. Len(book) : book'[o] = book[o] /\ report'[o] = report[o]
  BY <1>1, <1>2, <1>3 DEF ReportInv, LiveTypes
<1>5. PolledIsLast'
  BY <1>3, <1>4 DEF PolledIsLast, Polling, Now, Silent
<1>6. FinalIsFinal'
  <2> SUFFICES ASSUME NEW o \in 1 .. Len(book) + 1
               PROVE  /\ report'[o].fill <= book'[o].filled
                      /\ report'[o].status \in Terminal =>
                           /\ book'[o].status \in Terminal
                           /\ report'[o].fill = book'[o].filled
    BY <1>3 DEF FinalIsFinal, Terminal
  <2>1. CASE o = Len(book) + 1
    BY <2>1, <1>2, <1>4
  <2>2. CASE o # Len(book) + 1
    <3>1. o \in 1 .. Len(book) /\ o \in DOMAIN report
      BY <2>2, <1>3 DEF ReportInv, LiveTypes
    <3> QED
      BY <3>1, <1>4 DEF ReportInv, FinalIsFinal
  <2> QED
    BY <2>1, <2>2
<1> QED
  BY <1>3, <1>5, <1>6 DEF ReportInv, LiveTypes

(* The broker works on orders that are not over, and never takes back what  *)
(* was filled.                                                              *)
LEMMA BrokerWorksKeeps ==
  ASSUME ReportInv, Qty \in Nat, NEW o, BrokerWorks(o)
  PROVE  ReportInv'
<1>1. o \in 1 .. Len(book) /\ book[o] \in BrokerOrder /\ o \in 1 .. Len(report)
  BY DEF BrokerWorks, ReportInv, LiveTypes
<1>2. PICK filled \in book[o].filled .. Qty,
           status \in {"OPEN", "REPLACED", "COMPLETE", "REJECTED", "CANCELED"} :
        book' = [book EXCEPT ![o] =
          [leg |-> @.leg, side |-> @.side, status |-> status, filled |-> filled]]
  BY DEF BrokerWorks
<1>3. filled \in 0 .. Qty /\ book[o].filled <= filled /\ status \in Statuses
  BY <1>1 DEF BrokerOrder, Statuses, Terminal, Open
<1>4. /\ book' \in Seq(BrokerOrder) /\ Len(book') = Len(book)
      /\ book'[o].filled = filled
      /\ \A p \in 1 .. Len(book) : p # o => book'[p] = book[p]
  <2> DEFINE new == [leg |-> book[o].leg, side |-> book[o].side,
                     status |-> status, filled |-> filled]
  <2>1. new \in BrokerOrder
    BY <1>1, <1>3 DEF BrokerOrder
  <2>2. book' = [book EXCEPT ![o] = new]
    BY <1>2
  <2> HIDE DEF new
  <2>3. /\ book' \in Seq(BrokerOrder) /\ Len(book') = Len(book)
        /\ book'[o] = new
        /\ \A p \in 1 .. Len(book) : p # o => book'[p] = book[p]
    BY <1>1, <2>1, <2>2 DEF ReportInv, LiveTypes
  <2> QED
    BY <2>3 DEF new
<1>5. report' = report /\ order' = order
  BY DEF BrokerWorks
<1>6. report[o].status \notin Terminal /\ report[o] \in Report
  BY <1>1 DEF BrokerWorks, Working, ReportInv, LiveTypes, FinalIsFinal
<1>7. FinalIsFinal'
  <2> SUFFICES ASSUME NEW p \in 1 .. Len(book)
               PROVE  /\ report[p].fill <= book'[p].filled
                      /\ report[p].status \in Terminal =>
                           /\ book'[p].status \in Terminal
                           /\ report[p].fill = book'[p].filled
    BY <1>4, <1>5 DEF FinalIsFinal, ReportInv, LiveTypes, Terminal
  <2>1. CASE p = o
    <3>1. report[o].fill <= book[o].filled
      BY <1>1 DEF ReportInv, LiveTypes, FinalIsFinal
    <3> QED
      BY <2>1, <3>1, <1>1, <1>3, <1>4, <1>6 DEF Report, BrokerOrder
  <2>2. CASE p # o
    BY <2>2, <1>4 DEF ReportInv, LiveTypes, FinalIsFinal
  <2> QED
    BY <2>1, <2>2
<1>8. PolledIsLast'
  BY <1>4, <1>5 DEF ReportInv, PolledIsLast, Polling, Now
<1> QED
  BY <1>4, <1>5, <1>7, <1>8 DEF ReportInv, LiveTypes

-----------------------------------------------------------------------------
(* A poll ends the order with a status of the broker, of place_order's own, *)
(* or by an exception, which changes the status of the report only.         *)
LEMMA PollKeeps ==
  ASSUME ReportInv, LiveAssumption, Poll
  PROVE  ReportInv'
<1> USE DEF LiveAssumption
<1>1. ASSUME Polling
      PROVE  /\ Now \in 1 .. Len(book) /\ Now \in 1 .. Len(report)
             /\ book[Now] \in BrokerOrder /\ report[Now] \in Report
  BY <1>1 DEF ReportInv, LiveTypes, PolledIsLast, Now
<1>2. CASE PollEnds
  <2>1. PICK answer \in Answers(Now) :
          IsTerminal(answer) /\ Finish(answer.status, answer.filled)
    BY <1>2 DEF PollEnds
  <2>2. Polling /\ book' = book
    BY <1>2 DEF PollEnds
  <2>3. answer.status = book[Now].status /\ answer.filled = book[Now].filled
    BY <2>1, FinalAnswerIsCurrent
  <2>4. answer.filled \in 0 .. Qty /\ answer.filled <= book[Now].filled
    BY <2>2, <1>1, AnswerIsBounded
  <2>5. [status |-> answer.status, fill |-> answer.filled] \in Report
    BY <2>1, <2>4 DEF Report, IsTerminal
  <2> QED
    BY <2>1, <2>2, <2>3, <2>4, <2>5, FinishKeeps
<1>3. CASE PollUnknown
  <2>1. PICK answer \in Answers(Now) : Finish("coerced", answer.filled)
    BY <1>3 DEF PollUnknown
  <2>2. Polling /\ book' = book
    BY <1>3 DEF PollUnknown
  <2>3. answer.filled \in 0 .. Qty /\ answer.filled <= book[Now].filled
    BY <2>2, <1>1, AnswerIsBounded
  <2>4. [status |-> "coerced", fill |-> answer.filled] \in Report /\ "coerced" \notin Terminal
    BY <2>3 DEF Report, Terminal
  <2> QED
    BY <2>1, <2>2, <2>3, <2>4, FinishKeeps
<1>4. CASE PollTimesOut
  <2>1. PICK answer \in Answers(Now) : Finish("timeout", answer.filled)
    BY <1>4 DEF PollTimesOut
  <2>2. /\ Polling
        /\ book' = book \/ (Working(Now) /\ book' = [book EXCEPT ![Now].status = "CANCELED"])
    BY <1>4 DEF PollTimesOut
  <2>3. answer.filled \in 0 .. Qty /\ answer.filled <= book[Now].filled
    BY <2>2, <1>1, AnswerIsBounded
  <2>4. [status |-> "timeout", fill |-> answer.filled] \in Report /\ "timeout" \notin Terminal
    BY <2>3 DEF Report, Terminal
  <2> QED
    BY <2>1, <2>2, <2>3, <2>4, FinishKeeps
<1>5. CASE PollAgain \/ PollFails
  BY <1>5 DEF PollAgain, PollFails, ReportInv, LiveTypes, PolledIsLast, FinalIsFinal,
              Polling, Now, Working, Terminal
<1>6. CASE PollAbandons
  <2>1. Polling /\ book' = book /\ order' = Free
        /\ report' = [report EXCEPT ![Now].status = "abandoned"]
    BY <1>6 DEF PollAbandons
  <2>2. /\ report' \in Seq(Report) /\ Len(report') = Len(report)
        /\ \A o \in 1 .. Len(report) : report'[o].fill = report[o].fill
        /\ \A o \in 1 .. Len(report) : o # Now => report'[o] = report[o]
        /\ report'[Now].status = "abandoned"
    BY <2>1, <1>1 DEF ReportInv, LiveTypes, Report
  <2>3. PolledIsLast'
    BY <2>1 DEF PolledIsLast, Polling, Free
  <2>4. FinalIsFinal'
    BY <2>1, <2>2 DEF ReportInv, LiveTypes, FinalIsFinal, Terminal
  <2> QED
    BY <2>1, <2>2, <2>3, <2>4 DEF ReportInv, LiveTypes
<1> QED
  BY <1>2, <1>3, <1>4, <1>5, <1>6 DEF Poll

(* A crash in the middle of an order leaves nothing said about it.          *)
LEMMA CrashKeeps ==
  ASSUME ReportInv, Crash, Qty \in Nat
  PROVE  ReportInv'
<1> DEFINE said(o) ==
     IF report[o] = Silent THEN [status |-> "crashed", fill |-> 0] ELSE report[o]
<1>0. [Silent EXCEPT !.status = "crashed"] = [status |-> "crashed", fill |-> 0]
  BY DEF Silent
<1>1. /\ book' = book /\ order' = Down
      /\ report' = [o \in DOMAIN report |-> said(o)]
  BY <1>0 DEF Crash
<1>2. \A o \in 1 .. Len(report) :
        said(o) \in Report /\ (said(o) = report[o] \/ said(o) = [status |-> "crashed", fill |-> 0])
  <2>1. [status |-> "crashed", fill |-> 0] \in Report
    BY DEF Report
  <2>2. \A o \in 1 .. Len(report) : report[o] \in Report
    BY DEF ReportInv, LiveTypes
  <2> QED
    BY <2>1, <2>2
<1> HIDE DEF said
<1>3. /\ report' \in Seq(Report) /\ Len(report') = Len(report)
      /\ DOMAIN report' = 1 .. Len(report)
      /\ \A o \in 1 .. Len(report) : report'[o] = said(o)
  <2>1. DOMAIN report = 1 .. Len(report) /\ Len(report) \in Nat
    BY DEF ReportInv, LiveTypes
  <2>2. report' \in [1 .. Len(report) -> Report]
    BY <1>1, <1>2, <2>1
  <2> QED
    BY <1>1, <2>1, <2>2
<1>4. \A o \in 1 .. Len(report) : book[o] \in BrokerOrder
  BY DEF ReportInv, LiveTypes
<1>5. FinalIsFinal'
  <2> SUFFICES ASSUME NEW o \in 1 .. Len(report)
               PROVE  /\ report'[o].fill <= book[o].filled
                      /\ report'[o].status \in Terminal =>
                           /\ book[o].status \in Terminal
                           /\ report'[o].fill = book[o].filled
    BY <1>1, <1>3 DEF FinalIsFinal
  <2>1. CASE said(o) = report[o]
    BY <2>1, <1>3 DEF ReportInv, LiveTypes, FinalIsFinal
  <2>2. CASE said(o) = [status |-> "crashed", fill |-> 0]
    BY <2>2, <1>3, <1>4 DEF Terminal, BrokerOrder
  <2> QED
    BY <2>1, <2>2, <1>2
<1>6. PolledIsLast'
  BY <1>1 DEF PolledIsLast, Polling, Down
<1> QED
  BY <1>1, <1>3, <1>5, <1>6 DEF ReportInv, LiveTypes

LEMMA ReportStep ==
  ASSUME LiveAssumption, ReportInv, [LiveNext]_liveVars
  PROVE  ReportInv'
<1> USE DEF LiveAssumption
<1>1. ASSUME NEW leg \in Legs, NEW side \in {"BUY", "SELL"}, Submit(leg, side)
      PROVE  ReportInv'
  BY <1>1, AppendKeeps DEF Submit
<1>2. ASSUME NEW leg \in Legs, NEW side \in {"BUY", "SELL"}, SubmitFails(leg, side)
      PROVE  ReportInv'
  <2>1. ~Polling'
    BY <1>2 DEF SubmitFails, Polling, Free
  <2> QED
    BY <1>2, <2>1, AppendKeeps DEF SubmitFails
<1>3. ASSUME NEW o \in 1 .. MaxOrders, BrokerWorks(o)
      PROVE  ReportInv'
  BY <1>3, BrokerWorksKeeps
<1>4. CASE Poll
  BY <1>4, PollKeeps
<1>5. CASE Crash
  BY <1>5, CrashKeeps
<1>6. CASE SavePositions \/ Startup \/ UNCHANGED liveVars
  <2>1. UNCHANGED <<book, report>>
    BY <1>6 DEF SavePositions, Startup, liveVars
  <2>2. order' = order \/ ~Polling'
    BY <1>6 DEF SavePositions, Startup, liveVars, Polling, Free
  <2>3. LiveTypes' /\ FinalIsFinal'
    BY <2>1 DEF ReportInv, LiveTypes, FinalIsFinal
  <2>4. PolledIsLast'
    BY <2>1, <2>2 DEF ReportInv, PolledIsLast, Polling, Now
  <2> QED
    BY <2>3, <2>4 DEF ReportInv
<1> QED
  BY <1>1, <1>2, <1>3, <1>4, <1>5, <1>6 DEF LiveNext

LEMMA ReportMeans == ReportInv => ReportMatchesBroker
<1> SUFFICES ASSUME ReportInv, NEW o \in DOMAIN report,
                    report[o].status \in Open
             PROVE  FALSE
  BY DEF ReportInv, FinalIsFinal, ReportMatchesBroker
<1>1. report[o] \in Report
  BY DEF ReportInv, LiveTypes
<1> QED
  BY <1>1 DEF Report, Terminal, Open

(* What place_order says of an order is never more than the broker filled,  *)
(* and with a final status exactly that, for good (_await_terminal).        *)
THEOREM ReportsCorrect == LiveSpec => []ReportMatchesBroker
BY ReportInitially, ReportStep, ReportMeans, LiveAssumption, PTL DEF LiveSpec

-----------------------------------------------------------------------------
(* A report of an abandoned order is written in the same step as the file,  *)
(* and the file and its losses together only grow.                          *)
OnFileInv == ReportInv /\ AbandonedIsOnFile

LEMMA PersistGrows ==
  ASSUME NEW o, PersistStuckLegs(o)
  PROVE  stuck \union spoilt \union {o} \subseteq stuck' \union spoilt'
BY DEF PersistStuckLegs

LEMMA OnFileStep ==
  ASSUME LiveAssumption, OnFileInv, [LiveNext]_liveVars
  PROVE  OnFileInv'
<1>1. ReportInv'
  BY ReportStep DEF OnFileInv
<1>2. \A o \in 1 .. Len(report) : report[o] \in Report
  BY DEF OnFileInv, ReportInv, LiveTypes
<1>3. CASE PollAbandons
  <2>1. /\ report' = [report EXCEPT ![Now].status = "abandoned"]
        /\ Now \in 1 .. Len(report)
    BY <1>3 DEF PollAbandons, OnFileInv, ReportInv, LiveTypes, PolledIsLast, Now
  <2>2. stuck \union spoilt \union {Now} \subseteq stuck' \union spoilt'
    BY <1>3, PersistGrows DEF PollAbandons
  <2>3. /\ DOMAIN report' = DOMAIN report
        /\ \A o \in DOMAIN report : o # Now => report'[o] = report[o]
    BY <2>1
  <2> QED
    BY <1>1, <2>2, <2>3 DEF OnFileInv, AbandonedIsOnFile
<1>4. CASE PollEnds \/ PollUnknown \/ PollTimesOut
  <2>1. PICK status, filled : /\ status \in Terminal \union {"coerced", "timeout"}
                                /\ Polling /\ Finish(status, filled)
    BY <1>4 DEF PollEnds, PollUnknown, PollTimesOut, IsTerminal
  <2>2. /\ report' = [report EXCEPT ![Now] = [status |-> status, fill |-> filled]]
        /\ stuck' = stuck /\ spoilt' = spoilt /\ status # "abandoned"
        /\ Now \in 1 .. Len(report)
    BY <2>1 DEF Finish, Terminal, OnFileInv, ReportInv, LiveTypes, PolledIsLast, Now
  <2>3. /\ DOMAIN report' = DOMAIN report
        /\ \A o \in DOMAIN report : report'[o].status = "abandoned" => report'[o] = report[o]
    BY <2>2
  <2> QED
    BY <1>1, <2>2, <2>3 DEF OnFileInv, AbandonedIsOnFile
<1>5. CASE Crash
  <2>1. /\ DOMAIN report' = DOMAIN report /\ stuck' = stuck /\ spoilt' = spoilt
        /\ \A o \in DOMAIN report : report'[o].status = "abandoned" => report'[o] = report[o]
    BY <1>5 DEF Crash, Silent
  <2> QED
    BY <1>1, <2>1 DEF OnFileInv, AbandonedIsOnFile
<1>6. ASSUME NEW said \in {Silent, [status |-> "unsent", fill |-> 0]},
             report' = Append(report, said), stuck' = stuck, spoilt' = spoilt
      PROVE  OnFileInv'
  <2>1. /\ DOMAIN report' = 1 .. Len(report) + 1 /\ DOMAIN report = 1 .. Len(report)
        /\ Len(report) \in Nat
        /\ report'[Len(report) + 1] = said
        /\ \A o \in 1 .. Len(report) : report'[o] = report[o]
    BY <1>6 DEF OnFileInv, ReportInv, LiveTypes
  <2>2. said.status # "abandoned"
    BY DEF Silent
  <2> QED
    BY <1>1, <1>6, <2>1, <2>2 DEF OnFileInv, AbandonedIsOnFile
<1>7. CASE \E leg \in Legs, side \in {"BUY", "SELL"} : Submit(leg, side) \/ SubmitFails(leg, side)
  BY <1>6, <1>7 DEF Submit, SubmitFails
<1>8. CASE UNCHANGED <<report, stuck, spoilt>>
  BY <1>1, <1>8 DEF OnFileInv, AbandonedIsOnFile
<1>9. CASE (\E o \in 1 .. MaxOrders : BrokerWorks(o)) \/ PollAgain \/ PollFails
           \/ SavePositions \/ Startup \/ UNCHANGED liveVars
  <2>1. UNCHANGED <<report, stuck, spoilt>>
    BY <1>9 DEF BrokerWorks, PollAgain, PollFails, SavePositions, Startup, liveVars
  <2> QED
    BY <1>8, <2>1
<1> QED
  BY <1>3, <1>4, <1>5, <1>7, <1>9 DEF LiveNext, Poll

LEMMA OnFileInitially == LiveInit => OnFileInv
BY ReportInitially DEF LiveInit, OnFileInv, AbandonedIsOnFile

(* An order given up on after too many failed polls is in stuck_legs.json   *)
(* for the operator, but for a failed write or a spoilt file                *)
(* (persist_stuck_legs), for any number of orders.                          *)
THEOREM AbandonedCorrect == LiveSpec => []AbandonedIsOnFile
<1>1. OnFileInv => AbandonedIsOnFile
  BY DEF OnFileInv
<1> QED
  BY <1>1, OnFileInitially, OnFileStep, LiveAssumption, PTL DEF LiveSpec

-----------------------------------------------------------------------------
(* Net positions.  Order by order: what is tracked of an order with no      *)
(* excuse, or will be restored of it, is what the broker filled.            *)
Held(o) == IF order = Down THEN Restored(o) ELSE tracked[o]

OrdersAgree == \A o \in DOMAIN book : ~Excused(o) => Held(o) = book[o].filled

TrackTypes ==
  /\ tracked \in Seq(0 .. Qty) /\ saved \in Seq(0 .. Qty)
  /\ Len(saved) <= Len(book)
  /\ Len(tracked) <= Len(book)
  /\ order # Down => Len(tracked) = Len(book)
  /\ \/ order \in {Free, Down}
     \/ \E e, w : order = [at |-> "poll", errors |-> e, waited |-> w]

DriftInv == ReportInv /\ TrackTypes /\ OrdersAgree

-----------------------------------------------------------------------------
(* What the trader counts and saves keeps its shape.                        *)
LEMMA TrackTypesStep ==
  ASSUME LiveAssumption, ReportInv, TrackTypes, [LiveNext]_liveVars
  PROVE  TrackTypes'
<1> USE DEF TrackTypes
<1>0. /\ Len(book) \in Nat /\ Qty \in Nat /\ 0 \in 0 .. Qty /\ Qty \in 0 .. Qty
      /\ DOMAIN tracked = 1 .. Len(tracked) /\ DOMAIN saved = 1 .. Len(saved)
      /\ DOMAIN book = 1 .. Len(book)
      /\ Free.at = "free" /\ Down.at = "down"
  BY DEF ReportInv, LiveTypes, LiveAssumption, Free, Down
<1>1. ASSUME NEW leg \in Legs, NEW side \in {"BUY", "SELL"},
             Submit(leg, side) \/ SubmitFails(leg, side)
      PROVE  TrackTypes'
  <2>1. /\ order # Down
        /\ tracked' = Append(tracked, 0) /\ saved' = saved
        /\ order' = Free \/ order' = [at |-> "poll", errors |-> 0, waited |-> 0]
        /\ Len(book') = Len(book) + 1
    <3>1. \E r : book' = Append(book, r)
      BY <1>1 DEF Submit, SubmitFails, Placed
    <3>2. Len(book') = Len(book) + 1
      BY <3>1 DEF ReportInv, LiveTypes
    <3> QED
      BY <1>0, <1>1, <3>2 DEF Submit, SubmitFails, Free, Down
  <2>2. tracked' \in Seq(0 .. Qty) /\ Len(tracked') = Len(tracked) + 1
    BY <1>0, <2>1
  <2> QED
    BY <1>0, <2>1, <2>2
<1>2. ASSUME NEW o \in 1 .. MaxOrders, BrokerWorks(o)
      PROVE  TrackTypes'
  <2>1. UNCHANGED <<order, tracked, saved>>
    BY <1>2 DEF BrokerWorks
  <2>2. Len(book') = Len(book)
    BY <1>2 DEF BrokerWorks, ReportInv, LiveTypes
  <2> QED
    BY <2>1, <2>2
<1>3. CASE PollEnds \/ PollUnknown \/ PollTimesOut
  <2>1. Polling /\ \E status, filled : Finish(status, filled)
    BY <1>3 DEF PollEnds, PollUnknown, PollTimesOut
  <2>2. Len(book') = Len(book)
    <3>1. book' = book \/ book' = [book EXCEPT ![Now].status = "CANCELED"]
      BY <1>3 DEF PollEnds, PollUnknown, PollTimesOut
    <3> QED
      BY <3>1 DEF ReportInv, LiveTypes
  <2>3. order # Down
    BY <1>0, <2>1 DEF Polling
  <2>4. Now \in 1 .. Len(tracked)
    BY <1>0, <2>1, <2>3 DEF ReportInv, PolledIsLast, Now
  <2>5. /\ saved' = saved /\ order' = Free
        /\ \E q \in 0 .. Qty : tracked' = [tracked EXCEPT ![Now] = q]
    BY <1>0, <2>1 DEF Finish
  <2>6. tracked' \in Seq(0 .. Qty) /\ Len(tracked') = Len(tracked)
    BY <2>4, <2>5
  <2> QED
    BY <1>0, <2>2, <2>3, <2>5, <2>6
<1>4. CASE PollAgain \/ PollFails \/ PollAbandons
  <2>1. Polling /\ UNCHANGED <<book, tracked, saved>>
    BY <1>4 DEF PollAgain, PollFails, PollAbandons
  <2>2. PICK e, w : order = [at |-> "poll", errors |-> e, waited |-> w]
    BY <1>0, <2>1 DEF Polling
  <2>3. order' = Free \/ \E d, v : order' = [at |-> "poll", errors |-> d, waited |-> v]
    <3>1. CASE PollAgain
      BY <2>2, <3>1 DEF PollAgain
    <3>2. CASE PollFails
      BY <2>2, <3>2 DEF PollFails
    <3>3. CASE PollAbandons
      BY <3>3 DEF PollAbandons
    <3> QED
      BY <1>4, <3>1, <3>2, <3>3
  <2>4. order # Down
    BY <1>0, <2>1 DEF Polling
  <2> QED
    BY <1>0, <2>1, <2>3, <2>4
<1>5. CASE SavePositions
  BY <1>0, <1>5 DEF SavePositions
<1>6. CASE Crash
  BY <1>0, <1>6 DEF Crash
<1>7. CASE Startup
  <2>1. /\ tracked' = [o \in 1 .. Len(book) |-> Restored(o)]
        /\ UNCHANGED <<book, saved>> /\ order' = Free
    BY <1>0, <1>7 DEF Startup
  <2>2. tracked' \in Seq(0 .. Qty) /\ Len(tracked') = Len(book)
    <3> DEFINE Q == 0 .. Qty
    <3>1. saved \in Seq(Q) /\ 0 \in Q
      BY <1>0
    <3> HIDE DEF Q
    <3>2. \A o : Restored(o) \in Q
      BY <3>1 DEF Restored
    <3>3. tracked' \in [1 .. Len(book) -> Q]
      BY <2>1, <3>2
    <3>4. tracked' \in Seq(Q) /\ Len(tracked') = Len(book)
      BY <1>0, <3>3, SequenceOfLength
    <3> QED
      BY <3>4 DEF Q
  <2> QED
    BY <2>1, <2>2
<1>8. CASE UNCHANGED liveVars
  BY <1>8 DEF liveVars
<1> QED
  BY <1>1, <1>2, <1>3, <1>4, <1>5, <1>6, <1>7, <1>8 DEF LiveNext, Poll

(* An order that a step leaves alone goes on agreeing.                      *)
LEMMA UntouchedAgrees ==
  ASSUME DriftInv, NEW o, o \in DOMAIN book, order # Down, order' # Down,
         tracked'[o] = tracked[o], book'[o].filled = book[o].filled,
         report'[o] = report[o], unsaved' = unsaved, ~Excused(o)'
  PROVE  tracked'[o] = book'[o].filled
BY DEF DriftInv, OrdersAgree, Held, Excused

(* The order being polled ends: it is excused unless all or nothing of it   *)
(* was filled, and so tracked.                                              *)
LEMMA FinishAgrees ==
  ASSUME DriftInv,
         Polling, NEW status, NEW filled, Finish(status, filled),
         book' = book \/ book' = [book EXCEPT ![Now].status = "CANCELED"],
         status \in Terminal => book' = book /\ filled = book[Now].filled
  PROVE  OrdersAgree'
<1>0. PICK n : n = Now
  OBVIOUS
<1>1. /\ n \in 1 .. Len(book) /\ DOMAIN book = 1 .. Len(book) /\ DOMAIN book' = 1 .. Len(book)
      /\ DOMAIN report = 1 .. Len(book) /\ DOMAIN tracked = 1 .. Len(book)
      /\ \A o \in DOMAIN book : book[o] \in BrokerOrder
  BY <1>0 DEF DriftInv, ReportInv, LiveTypes, TrackTypes, PolledIsLast, Now, Polling, Down
<1>2. /\ order # Down /\ order' # Down
      /\ tracked' = [tracked EXCEPT ![n] = IF filled > 0 THEN Qty ELSE 0]
      /\ report' = [report EXCEPT ![n] = [status |-> status, fill |-> filled]]
      /\ unsaved' = unsaved
  BY <1>0 DEF Finish, Polling, Down, Free
<1>3. \A o \in DOMAIN book : book'[o].filled = book[o].filled
  BY <1>1 DEF BrokerOrder
<1>4. SUFFICES ASSUME NEW o \in 1 .. Len(book), ~Excused(o)'
               PROVE  tracked'[o] = book'[o].filled
  BY <1>1, <1>2 DEF OrdersAgree, Held
<1>5. CASE o # n
  BY <1>1, <1>2, <1>3, <1>4, <1>5, UntouchedAgrees
<1>6. CASE o = n
  <2>1. /\ status \in Terminal /\ filled = book[n].filled /\ book' = book
        /\ ~(0 < filled /\ filled < Qty)
    BY <1>0, <1>1, <1>2, <1>4, <1>6 DEF Excused
  <2>2. filled \in 0 .. Qty /\ Qty \in Nat
    BY <1>1, <2>1, LiveAssumption DEF BrokerOrder, LiveAssumption
  <2> QED
    BY <1>1, <1>2, <1>6, <2>1, <2>2
<1> QED
  BY <1>5, <1>6

(* A crash keeps what is on file: an order of which the file knows less     *)
(* than the process is one of the unsaved, and the start restores the rest. *)
LEMMA RestartAgrees ==
  ASSUME DriftInv, Crash \/ Startup
  PROVE  OrdersAgree'
<1>1. /\ DOMAIN book = 1 .. Len(book) /\ DOMAIN report = 1 .. Len(book)
      /\ book' = book /\ saved' = saved
  <2>1. Len(book) \in Nat /\ DOMAIN book = 1 .. Len(book)
    BY DEF DriftInv, ReportInv, LiveTypes
  <2>2. DOMAIN report = 1 .. Len(book)
    BY DEF DriftInv, ReportInv, LiveTypes
  <2>3. book' = book /\ saved' = saved
    <3>1. CASE Crash
      BY <3>1 DEF Crash
    <3>2. CASE Startup
      BY <3>2 DEF Startup
    <3> QED
      BY <3>1, <3>2
  <2> QED
    BY <2>1, <2>2, <2>3
<1>2. SUFFICES ASSUME NEW o \in 1 .. Len(book), ~Excused(o)'
               PROVE  Held(o)' = book[o].filled
  BY <1>1 DEF OrdersAgree
<1>3. CASE Crash
  <2>1. order # Down /\ order' = Down /\ o \in DOMAIN tracked
    BY <1>1, <1>3 DEF Crash, DriftInv, TrackTypes
  <2>2. Held(o)' = Restored(o)
    BY <1>1, <2>1 DEF Held, Restored
  <2>3. unsaved \subseteq unsaved' /\ (tracked[o] # Restored(o) => o \in unsaved')
    BY <1>3, <2>1 DEF Crash
  <2>4. tracked[o] = Restored(o)
    BY <1>2, <2>3 DEF Excused
  <2>5. report'[o].status \in Terminal => report'[o] = report[o]
    BY <1>1, <1>3 DEF Crash, Silent, Terminal
  <2>6. ~Excused(o)
    BY <1>1, <1>2, <2>3, <2>5 DEF Excused
  <2> QED
    BY <1>1, <2>1, <2>2, <2>4, <2>6 DEF DriftInv, OrdersAgree, Held
<1>4. CASE Startup
  <2>1. order = Down /\ order' # Down /\ tracked'[o] = Restored(o) /\ UNCHANGED <<report, unsaved>>
    BY <1>1, <1>4 DEF Startup, Free, Down
  <2>2. ~Excused(o)
    BY <1>1, <1>2, <2>1 DEF Excused
  <2> QED
    BY <1>1, <2>1, <2>2 DEF DriftInv, OrdersAgree, Held
<1> QED
  BY <1>3, <1>4

(* Every order goes on agreeing, one way or the other.                      *)
LEMMA DriftStep ==
  ASSUME LiveAssumption, DriftInv, [LiveNext]_liveVars
  PROVE  DriftInv'
<1>1. ReportInv' /\ TrackTypes'
  BY ReportStep, TrackTypesStep DEF DriftInv
<1> SUFFICES OrdersAgree'
  BY <1>1 DEF DriftInv
<1>2. /\ DOMAIN book = 1 .. Len(book) /\ DOMAIN report = 1 .. Len(book) /\ Len(book) \in Nat
      /\ order # Down => DOMAIN tracked = 1 .. Len(book)
      /\ DOMAIN tracked = 1 .. Len(tracked)
      /\ Free # Down /\ (Polling => order # Down)
  BY DEF DriftInv, ReportInv, LiveTypes, TrackTypes, Free, Down, Polling
<1>3. ASSUME NEW leg \in Legs, NEW side \in {"BUY", "SELL"},
             Submit(leg, side) \/ SubmitFails(leg, side)
      PROVE  OrdersAgree'
  <2>0. PICK n : n = Len(book) + 1
    OBVIOUS
  <2>1. PICK r, said : /\ book' = Append(book, r) /\ tracked' = Append(tracked, 0)
                       /\ report' = Append(report, said) /\ said.status \notin Terminal
    BY <1>3 DEF Submit, SubmitFails, Placed, Silent, Terminal
  <2>2. order # Down /\ order' # Down /\ unsaved' = unsaved
    <3>1. order = Free /\ unsaved' = unsaved
      BY <1>3 DEF Submit, SubmitFails
    <3>2. order' = Free \/ order' = [at |-> "poll", errors |-> 0, waited |-> 0]
      BY <1>3, <3>1 DEF Submit, SubmitFails
    <3>3. [at |-> "poll", errors |-> 0, waited |-> 0].at # Down.at
      BY DEF Down
    <3> QED
      BY <1>2, <3>1, <3>2, <3>3
  <2>3. /\ DOMAIN book' = 1 .. n /\ report'[n] = said
        /\ \A o \in 1 .. Len(book) : /\ book'[o] = book[o] /\ report'[o] = report[o]
                                     /\ tracked'[o] = tracked[o]
    BY <1>2, <2>0, <2>1, <2>2 DEF DriftInv, ReportInv, LiveTypes, TrackTypes
  <2>4. SUFFICES ASSUME NEW o \in 1 .. n, ~Excused(o)'
                 PROVE  tracked'[o] = book'[o].filled
    BY <2>2, <2>3 DEF OrdersAgree, Held
  <2>5. o # n
    BY <2>1, <2>3, <2>4 DEF Excused
  <2>6. o \in 1 .. Len(book)
    <3>1. PICK m \in Nat : m = Len(book)
      BY <1>2
    <3>2. o \in 1 .. (m + 1) /\ o # m + 1
      BY <2>0, <2>4, <2>5, <3>1
    <3>3. o \in 1 .. m
      BY <3>2, OneMore
    <3> QED
      BY <3>1, <3>3
  <2> QED
    BY <1>2, <2>2, <2>3, <2>4, <2>6, UntouchedAgrees
<1>4. ASSUME NEW o \in 1 .. MaxOrders, BrokerWorks(o)
      PROVE  OrdersAgree'
  <2>1. o \in DOMAIN book /\ UNCHANGED <<report, tracked, order, saved, unsaved>>
    BY <1>4 DEF BrokerWorks
  <2>2. DOMAIN book' = DOMAIN book /\ \A p \in DOMAIN book : p # o => book'[p] = book[p]
    BY <1>4 DEF BrokerWorks
  <2>3. report[o].status \notin Terminal
    BY <1>2, <1>4 DEF BrokerWorks, Working, DriftInv, ReportInv, FinalIsFinal
  <2>4. SUFFICES ASSUME NEW p \in DOMAIN book, ~Excused(p)'
                 PROVE  Held(p)' = book'[p].filled
    BY <2>2 DEF OrdersAgree
  <2>5. p # o
    BY <2>1, <2>3, <2>4 DEF Excused
  <2>6. ~Excused(p) /\ book'[p] = book[p] /\ Held(p)' = Held(p)
    BY <2>1, <2>2, <2>4, <2>5 DEF Excused, Held, Restored
  <2> QED
    BY <2>6 DEF DriftInv, OrdersAgree
<1>5. CASE PollEnds
  <2>1. PICK answer \in Answers(Now) : IsTerminal(answer) /\ Finish(answer.status, answer.filled)
    BY <1>5 DEF PollEnds
  <2>2. answer.filled = book[Now].filled
    BY <2>1, FinalAnswerIsCurrent
  <2>3. Polling /\ book' = book
    BY <1>5 DEF PollEnds
  <2> QED
    BY <2>1, <2>2, <2>3, FinishAgrees
<1>6. CASE PollUnknown \/ PollTimesOut
  <2>1. PICK status, filled : status \in {"coerced", "timeout"} /\ Finish(status, filled)
    BY <1>6 DEF PollUnknown, PollTimesOut
  <2>2. Polling /\ (book' = book \/ book' = [book EXCEPT ![Now].status = "CANCELED"])
    BY <1>6 DEF PollUnknown, PollTimesOut
  <2>3. status \notin Terminal
    BY <2>1 DEF Terminal
  <2> QED
    BY <2>1, <2>2, <2>3, FinishAgrees
<1>7. CASE PollAbandons
  <2>0. PICK n : n = Now
    OBVIOUS
  <2>1. /\ order # Down /\ order' # Down /\ UNCHANGED <<book, tracked, unsaved>>
        /\ report' = [report EXCEPT ![n].status = "abandoned"]
    BY <1>2, <1>7, <2>0 DEF PollAbandons
  <2>2. SUFFICES ASSUME NEW o \in 1 .. Len(book), ~Excused(o)'
                 PROVE  tracked'[o] = book'[o].filled
    BY <1>2, <2>1 DEF OrdersAgree, Held
  <2>3. o # n
    <3>1. report \in Seq(Report) /\ o \in 1 .. Len(report)
      BY <2>2 DEF DriftInv, ReportInv, LiveTypes
    <3>2. report[o] \in Report /\ o \in DOMAIN report
      BY <3>1, ElementOfSeq
    <3>3. o = n => report'[o] = [report[o] EXCEPT !.status = "abandoned"]
      BY <2>1, <3>2
    <3>4. o = n => report'[o].status = "abandoned"
      BY <3>2, <3>3 DEF Report
    <3> QED
      BY <2>2, <3>4 DEF Excused, Terminal
  <2>4. report'[o] = report[o]
    BY <1>2, <2>1, <2>3
  <2> QED
    BY <1>2, <2>1, <2>2, <2>4, UntouchedAgrees
<1>8. CASE PollAgain \/ PollFails
  <2>1. UNCHANGED <<book, report, tracked, unsaved>> /\ Polling
    BY <1>8 DEF PollAgain, PollFails
  <2>2. PICK e, w : order = [at |-> "poll", errors |-> e, waited |-> w]
    BY <2>1 DEF DriftInv, TrackTypes, Polling, Free, Down
  <2>3. order' # Down
    BY <1>8, <2>2 DEF PollAgain, PollFails, Down
  <2> QED
    BY <1>2, <2>1, <2>3 DEF DriftInv, OrdersAgree, Held, Excused
<1>9. CASE SavePositions
  BY <1>2, <1>9 DEF SavePositions, DriftInv, OrdersAgree, Held, Excused
<1>10. CASE UNCHANGED liveVars
  BY <1>10 DEF liveVars, DriftInv, OrdersAgree, Held, Excused, Restored
<1>11. CASE Crash \/ Startup
  BY <1>11, RestartAgrees
<1> QED
  BY <1>3, <1>4, <1>5, <1>6, <1>7, <1>8, <1>9, <1>10, <1>11 DEF LiveNext, Poll

LEMMA DriftInitially == LiveInit => DriftInv
<1> SUFFICES ASSUME LiveInit PROVE DriftInv
  OBVIOUS
<1>1. TrackTypes
  BY LiveAssumption DEF LiveInit, TrackTypes, Free, Down, LiveAssumption
<1>2. OrdersAgree
  BY DEF LiveInit, OrdersAgree
<1> QED
  BY <1>1, <1>2, ReportInitially DEF DriftInv

(* Sums over the orders of a leg that agree one by one are equal.           *)
LEMMA DriftMeans == DriftInv => DriftIsExplained
<1> SUFFICES ASSUME DriftInv, order # Down, NEW leg \in Legs,
                    \A o \in DOMAIN book : book[o].leg = leg => ~Excused(o)
             PROVE  Net(tracked, leg) = BrokerMap(leg)
  BY DEF DriftIsExplained
<1> DEFINE S == {o \in DOMAIN book : book[o].leg = leg}
           Tracks == [o \in DOMAIN book |-> Signed(o, tracked[o])]
           Fills == [o \in DOMAIN book |-> Signed(o, [p \in DOMAIN book |-> book[p].filled][o])]
<1>1. DOMAIN tracked = DOMAIN book /\ DOMAIN book = 1 .. Len(book)
  BY DEF DriftInv, TrackTypes, ReportInv, LiveTypes
<1>2. Net(tracked, leg) = SumFunctionOnSet(Tracks, S)
  BY <1>1 DEF Net
<1>3. BrokerMap(leg) = SumFunctionOnSet(Fills, S)
  BY DEF BrokerMap, Net
<1>4. \A o \in S : tracked[o] = book[o].filled /\ tracked[o] \in Int
  BY <1>1, LiveAssumption DEF DriftInv, OrdersAgree, Held, TrackTypes, LiveAssumption
<1>5. \A o \in S : Tracks[o] \in Int /\ Tracks[o] = Fills[o]
  BY <1>4 DEF Signed
<1>6. IsFiniteSet(S)
  <2>1. IsFiniteSet(1 .. Len(book)) /\ S \subseteq 1 .. Len(book)
    BY <1>1, FS_Interval DEF DriftInv, ReportInv, LiveTypes
  <2> QED
    BY <2>1, FS_Subset
<1> HIDE DEF S, Tracks, Fills
<1> QED
  BY <1>2, <1>3, <1>5, <1>6, SumsEqual

(* While the trader runs, its net position in a leg is the broker's but for *)
(* orders under way, given up on, filled in part, or filled and forgotten   *)
(* by a crash before the save, for any number of orders, saves and crashes  *)
(* (LiveOrderManager, position_persistence).                                *)
THEOREM DriftCorrect == LiveSpec => []DriftIsExplained
BY DriftInitially, DriftStep, DriftMeans, LiveAssumption, PTL DEF LiveSpec

-----------------------------------------------------------------------------
(* The session.                                                             *)
Outcomes == {"ok", "unreachable", "refused", "failed"}
Tries == 1 .. Attempts

Resting == [at : {"start", "trading", "dead"}]
Coding == [at : {"code"}, phase : {"auto", "manual", "reauth"}, try : Tries]
Probing == [at : {"probe"}, phase : {"cached", "auto", "manual", "reauth", "gate"},
            try : Tries, seen : Seq(Outcomes)]
Saving == [at : {"save"}, phase : {"auto", "manual", "reauth"}]

SessionTyped ==
  /\ login \in Resting \union Coding \union Probing \union Saving
  /\ exchanges \in Nat /\ attempted \in BOOLEAN

(* What header and file have in common at each place.                       *)
Filed ==
  oauth =>
    /\ login = At("trading") => creds = header /\ header \in passed
    /\ login.at = "probe" /\ login.phase \in {"cached", "gate"} => creds = header
    /\ login.at = "probe" /\ login.phase = "gate" => header \in passed
    /\ login.at = "save" => header \in passed

(* How many exchanges each place may have been reached with.                *)
Counted ==
  /\ exchanges <= Attempts + 2
  /\ ~attempted => exchanges <= Attempts + 1
  /\ login = At("start") => exchanges = 0 /\ ~attempted
  /\ login.at = "code" =>
       /\ login.phase = "reauth" => attempted /\ exchanges <= Attempts + 1
       /\ login.phase = "auto" => ~attempted /\ exchanges <= login.try - 1
       /\ login.phase = "manual" => ~attempted /\ exchanges <= Attempts
  /\ login.at = "probe" =>
       /\ login.phase = "reauth" => attempted
       /\ login.phase = "cached" => ~attempted /\ exchanges = 0
       /\ login.phase = "auto" => ~attempted /\ exchanges <= login.try
       /\ login.phase = "manual" => ~attempted

SessionInv == SessionTyped /\ Filed /\ Counted

-----------------------------------------------------------------------------
LEMMA SessionInvInit == SessionInit => SessionInv
<1> SUFFICES ASSUME SessionInit PROVE SessionInv
  OBVIOUS
<1> USE SessionAssumption DEF SessionInit
<1>1. SessionTyped
  BY DEF SessionTyped, Resting, At
<1>2. Filed
  BY DEF Filed, At
<1>3. Counted
  BY DEF Counted, At
<1> QED BY <1>1, <1>2, <1>3 DEF SessionInv

(* A place has the fields of its kind.                                      *)
LEMMA Places ==
  ASSUME SessionTyped
  PROVE  /\ login.at = "code" => login \in Coding
         /\ login.at = "probe" => login \in Probing
         /\ login.at = "save" => login \in Saving
         /\ login.at \in {"start", "trading", "dead"} => login = At(login.at)
BY DEF SessionTyped, Resting, Coding, Probing, Saving, At

(* A place that is not reached by a login with anything but what it has.    *)
LEMMA GoesToRest ==
  ASSUME SessionInv, NEW place \in {"trading", "dead"}, login' = At(place),
         exchanges' = exchanges, attempted' = attempted, ~oauth' \/ place = "dead"
  PROVE  SessionInv'
<1>1. SessionTyped'
  BY DEF SessionInv, SessionTyped, Resting, At
<1>2. Filed'
  BY DEF Filed, At
<1>3. Counted'
  BY DEF SessionInv, Counted, At
<1> QED BY <1>1, <1>2, <1>3 DEF SessionInv

(* After a failure: one more attempt, the prompt, or the end.               *)
LEMMA FailureKeepsInv ==
  ASSUME SessionInv, NEW phase \in {"cached", "auto", "manual", "reauth"}, NEW try \in Tries,
         login' = AfterFailure(phase, try), attempted' = attempted,
         exchanges' \in Nat, exchanges' <= Attempts + 2,
         ~attempted => exchanges' <= Attempts + 1,
         phase = "cached" => ~attempted /\ exchanges' = 0,
         phase = "auto" => ~attempted /\ exchanges' <= try
  PROVE  SessionInv'
<1> USE SessionAssumption
<1>1. CASE login' = Code("auto", 1) /\ phase = "cached"
  BY <1>1 DEF SessionInv, SessionTyped, Filed, Counted, Code, Coding, Tries, At
<1>2. CASE login' = Code("auto", try + 1) /\ phase = "auto" /\ try < Attempts
  BY <1>2 DEF SessionInv, SessionTyped, Filed, Counted, Code, Coding, Tries, At
<1>3. CASE login' = Code("manual", 1) /\ phase = "auto" /\ try >= Attempts
  BY <1>3 DEF SessionInv, SessionTyped, Filed, Counted, Code, Coding, Tries, At
<1>4. CASE login' = At("dead")
  BY <1>4 DEF SessionInv, SessionTyped, Filed, Counted, Resting, At
<1> QED BY <1>1, <1>2, <1>3, <1>4 DEF AfterFailure, Tries

LEMMA StartKeepsInv ==
  SessionInv /\ (LegacyLogin \/ StartBroken \/ StartCached \/ StartFresh) => SessionInv'
<1> SUFFICES ASSUME SessionInv, LegacyLogin \/ StartBroken \/ StartCached \/ StartFresh
             PROVE  SessionInv'
  OBVIOUS
<1> USE SessionAssumption
<1>1. CASE LegacyLogin
  BY <1>1, GoesToRest DEF LegacyLogin
<1>2. CASE StartBroken
  BY <1>2, GoesToRest DEF StartBroken, Goto
<1>3. CASE StartCached
  <2>1. /\ login = At("start") /\ login' = Validate("cached", 1) /\ header' = creds
        /\ creds' = creds /\ exchanges' = exchanges /\ attempted' = attempted
    BY <1>3 DEF StartCached
  <2>2. login' \in Probing
    BY <2>1, EmptySeq DEF Validate, Probing, Tries
  <2>3. login'.at = "probe" /\ login'.phase = "cached"
    BY <2>1 DEF Validate
  <2>4. login' # At("trading") /\ login' # At("start")
    BY <2>3 DEF At
  <2>5. exchanges = 0 /\ ~attempted
    BY <2>1 DEF SessionInv, Counted
  <2> QED BY <2>1, <2>2, <2>3, <2>4, <2>5 DEF SessionInv, SessionTyped, Filed, Counted
<1>4. CASE StartFresh
  <2>1. /\ login = At("start") /\ login' = Code("auto", 1)
        /\ exchanges' = exchanges /\ attempted' = attempted
    BY <1>4 DEF StartFresh, Goto
  <2>2. exchanges = 0 /\ ~attempted
    BY <2>1 DEF SessionInv, Counted
  <2> QED BY <2>1, <2>2 DEF SessionInv, SessionTyped, Filed, Counted, Code, Coding, Tries, At
<1> QED BY <1>1, <1>2, <1>3, <1>4

LEMMA ExchangeKeepsInv ==
  SessionInv /\ (NoCode \/ ExchangeFails \/ ExchangeWorks) => SessionInv'
<1> SUFFICES ASSUME SessionInv, NoCode \/ ExchangeFails \/ ExchangeWorks PROVE SessionInv'
  OBVIOUS
<1> USE SessionAssumption
<1>1. /\ login.at = "code" /\ login \in Coding
      /\ login.phase \in {"auto", "manual", "reauth"} /\ login.try \in Tries
      /\ exchanges \in Nat /\ attempted' = attempted /\ attempted \in BOOLEAN
  BY Places DEF NoCode, ExchangeFails, ExchangeWorks, Goto, SessionInv, SessionTyped, Coding
<1>2. /\ exchanges + 1 <= Attempts + 2
      /\ ~attempted => exchanges + 1 <= Attempts + 1
      /\ login.phase = "auto" => ~attempted /\ exchanges + 1 <= login.try
      /\ login.phase = "manual" => ~attempted
      /\ login.phase = "reauth" => attempted
  BY <1>1 DEF SessionInv, Counted, Tries
<1>3. CASE NoCode
  <2>1. login' = AfterFailure(login.phase, login.try) /\ exchanges' = exchanges
    BY <1>3 DEF NoCode, Goto
  <2> QED BY <1>1, <1>2, <2>1, FailureKeepsInv DEF Tries
<1>4. CASE ExchangeFails
  <2>1. login' = AfterFailure(login.phase, login.try) /\ exchanges' = exchanges + 1
    BY <1>4 DEF ExchangeFails
  <2> QED BY <1>1, <1>2, <2>1, FailureKeepsInv
<1>5. CASE ExchangeWorks
  <2>1. login' = Validate(login.phase, login.try) /\ exchanges' = exchanges + 1
    BY <1>5 DEF ExchangeWorks
  <2>2. login' \in Probing
    BY <1>1, <2>1, EmptySeq DEF Validate, Probing
  <2>3. login'.at = "probe" /\ login'.phase = login.phase /\ login'.try = login.try
    BY <2>1 DEF Validate
  <2>4. login' # At("trading") /\ login' # At("start")
    BY <2>3 DEF At
  <2>5. SessionTyped'
    BY <1>1, <2>1, <2>2 DEF SessionTyped
  <2>6. Filed'
    BY <1>1, <2>3, <2>4 DEF Filed
  <2>7. Counted'
    BY <1>1, <1>2, <2>1, <2>3, <2>4 DEF Counted
  <2> QED BY <2>5, <2>6, <2>7 DEF SessionInv
<1> QED BY <1>3, <1>4, <1>5

LEMMA SaveKeepsInv == SessionInv /\ SaveCreds => SessionInv'
<1> SUFFICES ASSUME SessionInv, SaveCreds PROVE SessionInv'
  OBVIOUS
<1>1. /\ login.at = "save" /\ login' = At("trading") /\ creds' = header /\ header' = header
      /\ passed' = passed /\ oauth' = oauth
      /\ exchanges' = exchanges /\ attempted' = attempted
  BY DEF SaveCreds
<1>2. SessionTyped'
  BY <1>1 DEF SessionInv, SessionTyped, Resting, At
<1>3. Filed'
  BY <1>1 DEF SessionInv, Filed, At
<1>4. Counted'
  BY <1>1 DEF SessionInv, Counted, At
<1> QED BY <1>2, <1>3, <1>4 DEF SessionInv

LEMMA ProbeKeepsInv == SessionInv /\ (Probe \/ Gate) => SessionInv'
<1> SUFFICES ASSUME SessionInv, Probe \/ Gate PROVE SessionInv'
  OBVIOUS
<1> USE SessionAssumption
<1>1. /\ creds' = creds /\ header' = header /\ passed' = passed /\ oauth' = oauth
      /\ exchanges' = exchanges /\ attempted' = attempted
  BY DEF Probe, Gate, Goto
<1>2. CASE Probe
  <2>1. PICK outcome \in ProbeOutcomes : login' = [login EXCEPT !.seen = Append(@, outcome)]
    BY <1>2 DEF Probe, Goto
  <2>2. login \in Probing /\ outcome \in Outcomes
    BY <1>2, Places DEF Probe, SessionInv, ProbeOutcomes, Outcomes
  <2>3. Append(login.seen, outcome) \in Seq(Outcomes)
    BY <2>2, AppendProperties DEF Probing
  <2>4. login' \in Probing
    BY <2>1, <2>2, <2>3 DEF Probing
  <2>5. login'.at = "probe" /\ login'.phase = login.phase /\ login'.try = login.try
        /\ login.at = "probe"
    BY <2>1, <2>2 DEF Probing
  <2>6. login' # At("trading") /\ login' # At("start")
    BY <2>5 DEF At
  <2>7. SessionTyped'
    BY <1>1, <2>4 DEF SessionInv, SessionTyped
  <2>8. Filed'
    BY <1>1, <2>5, <2>6 DEF SessionInv, Filed
  <2>9. Counted'
    BY <1>1, <2>5, <2>6 DEF SessionInv, Counted
  <2> QED BY <2>7, <2>8, <2>9 DEF SessionInv
<1>3. CASE Gate
  <2>1. login = At("trading") /\ login' = Validate("gate", 1)
    BY <1>3 DEF Gate, Goto
  <2>2. login' \in Probing
    BY <2>1, EmptySeq DEF Validate, Probing, Tries
  <2>3. login'.at = "probe" /\ login'.phase = "gate"
    BY <2>1 DEF Validate
  <2>4. login' # At("trading") /\ login' # At("start")
    BY <2>3 DEF At
  <2>5. SessionTyped'
    BY <1>1, <2>2 DEF SessionInv, SessionTyped
  <2>6. Filed'
    BY <1>1, <2>1, <2>3, <2>4 DEF SessionInv, Filed
  <2>7. Counted'
    BY <1>1, <2>3, <2>4 DEF SessionInv, Counted
  <2> QED BY <2>5, <2>6, <2>7 DEF SessionInv
<1> QED BY <1>2, <1>3

LEMMA JudgeKeepsInv == SessionInv /\ Judge => SessionInv'
<1> SUFFICES ASSUME SessionInv, Judge PROVE SessionInv'
  OBVIOUS
<1> USE SessionAssumption
<1>1. /\ login.at = "probe" /\ login \in Probing
      /\ creds' = creds /\ header' = header /\ oauth' = oauth /\ exchanges' = exchanges
      /\ Validated \/ Rejected
  BY Places DEF Judge, SessionInv
<1>2. /\ login.phase \in {"cached", "auto", "manual", "reauth", "gate"} /\ login.try \in Tries
      /\ exchanges \in Nat /\ attempted \in BOOLEAN
  BY <1>1 DEF Probing, SessionInv, SessionTyped
<1>3. CASE Validated
  <2>1. attempted' = attempted /\ passed' = passed \union {header}
    BY <1>3 DEF Validated
  <2>2. CASE login.phase \in {"cached", "gate"}
    <3>1. login' = At("trading")
      BY <1>3, <2>2 DEF Validated
    <3>2. SessionTyped'
      BY <1>1, <1>2, <2>1, <3>1 DEF SessionTyped, Resting, At
    <3>3. Filed'
      BY <1>1, <2>1, <2>2, <3>1 DEF SessionInv, Filed, At
    <3>4. Counted'
      BY <1>1, <2>1, <3>1 DEF SessionInv, Counted, At
    <3> QED BY <3>2, <3>3, <3>4 DEF SessionInv
  <2>3. CASE login.phase \in {"auto", "manual", "reauth"}
    <3>1. login' = [at |-> "save", phase |-> login.phase]
      BY <1>3, <2>3 DEF Validated
    <3>2. SessionTyped'
      BY <1>1, <1>2, <2>1, <2>3, <3>1 DEF SessionTyped, Saving
    <3>3. Filed'
      BY <1>1, <2>1, <3>1 DEF Filed, At
    <3>4. Counted'
      BY <1>1, <2>1, <3>1 DEF SessionInv, Counted, At
    <3> QED BY <3>2, <3>3, <3>4 DEF SessionInv
  <2> QED BY <1>2, <2>2, <2>3
<1>4. CASE Rejected
  <2>1. CASE login.phase = "gate" /\ ~attempted
    <3>1. login' = Code("reauth", 1) /\ attempted' = TRUE
      BY <1>2, <1>4, <2>1 DEF Rejected
    <3> QED BY <1>1, <1>2, <2>1, <3>1
            DEF SessionInv, SessionTyped, Filed, Counted, Code, Coding, Tries, At
  <2>2. CASE login.phase = "gate" /\ attempted
    <3>1. login' = At("dead") /\ attempted' = attempted
      BY <1>2, <1>4, <2>2 DEF Rejected
    <3> QED BY <1>1, <3>1, GoesToRest
  <2>3. CASE login.phase # "gate"
    <3>1. login' = AfterFailure(login.phase, login.try) /\ attempted' = attempted
      BY <1>2, <1>4, <2>3 DEF Rejected
    <3> QED BY <1>1, <1>2, <2>3, <3>1, FailureKeepsInv DEF SessionInv, Counted
  <2> QED BY <2>1, <2>2, <2>3
<1> QED BY <1>1, <1>3, <1>4

LEMMA SessionInvNext == SessionInv /\ [SessionNext]_sessionVars => SessionInv'
<1> SUFFICES ASSUME SessionInv, [SessionNext]_sessionVars PROVE SessionInv'
  OBVIOUS
<1>1. CASE LegacyLogin \/ StartBroken \/ StartCached \/ StartFresh
  BY <1>1, StartKeepsInv
<1>2. CASE NoCode \/ ExchangeFails \/ ExchangeWorks
  BY <1>2, ExchangeKeepsInv
<1>3. CASE SaveCreds
  BY <1>3, SaveKeepsInv
<1>4. CASE Probe \/ Gate
  BY <1>4, ProbeKeepsInv
<1>5. CASE Judge
  BY <1>5, JudgeKeepsInv
<1>6. CASE Die
  BY <1>6, GoesToRest DEF Die
<1>7. CASE Relaunch
  <2>1. login' = [at |-> "start"] /\ attempted' = FALSE /\ exchanges' = 0
    BY <1>7 DEF Relaunch, At
  <2>2. SessionTyped'
    BY <2>1 DEF SessionTyped, Resting
  <2>3. Filed' /\ Counted'
    BY <2>1, SessionAssumption DEF Filed, Counted, At
  <2> QED BY <2>2, <2>3 DEF SessionInv
<1>8. CASE Expire \/ UNCHANGED sessionVars
  BY <1>8 DEF Expire, sessionVars, SessionInv, SessionTyped, Filed, Counted
<1> QED BY <1>1, <1>2, <1>3, <1>4, <1>5, <1>6, <1>7, <1>8 DEF SessionNext

LEMMA SessionInvariant == SessionSpec => []SessionInv
BY SessionInvInit, SessionInvNext, PTL DEF SessionSpec

-----------------------------------------------------------------------------
LEMMA SessionMeans == SessionInv => TradingTokenSaved /\ FewExchanges
BY DEF SessionInv, Filed, Counted, TradingTokenSaved, FewExchanges

(* The token the trader works with is validated and on file, after a login  *)
(* of any kind and after a renewal in mid-session, so that a relaunch takes *)
(* it up (_initialize_api, _check_mid_session_auth).                        *)
THEOREM TokenCorrect == SessionSpec => []TradingTokenSaved
BY SessionMeans, SessionInvariant, PTL

(* A process never asks for more tokens than its attempts, the prompt and   *)
(* one renewal (reauth_state).                                              *)
THEOREM ExchangesCorrect == SessionSpec => []FewExchanges
BY SessionMeans, SessionInvariant, PTL

LEMMA CodeAfterAnswer ==
  SessionInv /\ [SessionNext]_sessionVars =>
    [login.at = "probe" /\ login'.at = "code" =>
       \E i \in DOMAIN login.seen : login.seen[i] # "unreachable"]_sessionVars
<1> SUFFICES ASSUME SessionInv, SessionNext, login.at = "probe", login'.at = "code"
             PROVE  \E i \in DOMAIN login.seen : login.seen[i] # "unreachable"
  OBVIOUS
<1>1. login \in Probing
  BY Places DEF SessionInv
<1>2. ~Probe
  BY <1>1 DEF Probe, Goto, Probing
<1>3. Judge
  BY <1>2 DEF SessionNext, Expire, LegacyLogin, StartBroken, StartCached, StartFresh, NoCode,
              ExchangeFails, ExchangeWorks, SaveCreds, Gate, Die, Relaunch, Goto, At
<1>4. ~Validated
  BY <1>1 DEF Validated, Probing, At
<1> QED BY <1>3, <1>4 DEF Judge, SessionStands

(* Two probes that did not reach the broker cost no login: a code is asked  *)
(* for only after one that did (validate_oauth_session).                    *)
THEOREM UnreachableCorrect == SessionSpec => UnreachableNeverReauths
BY SessionInvariant, CodeAfterAnswer, PTL DEF SessionSpec, UnreachableNeverReauths

-----------------------------------------------------------------------------
(* The composition: whichever part is in focus, its steps are its own and   *)
(* the other part stands still, so every invariant of either part holds of  *)
(* the trader.                                                              *)
LEMMA LiveTradingSteps ==
  [LiveTradingNext]_liveTradingVars => [LiveNext]_liveVars /\ [SessionNext]_sessionVars
BY DEF LiveTradingNext, liveTradingVars

(* The trader against its broker: reports that say what the broker did,     *)
(* abandoned orders on file, net positions that differ only where they may, *)
(* a saved token, few exchanges and no login for a broker out of reach.     *)
THEOREM LiveTradingCorrect ==
  LiveTradingSpec =>
    /\ [](ReportMatchesBroker /\ AbandonedIsOnFile /\ DriftIsExplained)
    /\ [](TradingTokenSaved /\ FewExchanges)
    /\ UnreachableNeverReauths
<1> DEFINE Whole == OnFileInv /\ DriftInv /\ SessionInv
<1>1. LiveTradingInit => Whole
  BY OnFileInitially, DriftInitially, SessionInvInit DEF LiveTradingInit
<1>2. Whole /\ [LiveTradingNext]_liveTradingVars => Whole'
  BY LiveTradingSteps, OnFileStep, DriftStep, SessionInvNext, LiveAssumption
<1>3. Whole => /\ ReportMatchesBroker /\ AbandonedIsOnFile /\ DriftIsExplained
               /\ TradingTokenSaved /\ FewExchanges
  <2>1. OnFileInv => ReportInv /\ AbandonedIsOnFile
    BY DEF OnFileInv
  <2> QED BY <2>1, ReportMeans, DriftMeans, SessionMeans
<1>4. Whole /\ [LiveTradingNext]_liveTradingVars =>
        [login.at = "probe" /\ login'.at = "code" =>
           \E i \in DOMAIN login.seen : login.seen[i] # "unreachable"]_sessionVars
  BY LiveTradingSteps, CodeAfterAnswer
<1> HIDE DEF Whole
<1> QED BY <1>1, <1>2, <1>3, <1>4, PTL DEF LiveTradingSpec, UnreachableNeverReauths
=============================================================================
