----------------------------- MODULE AlertQueue -----------------------------
(***************************************************************************)
(* NtfyAlertChannel of ops/alerts.py: a caller that must not block stamps  *)
(* the event, puts the alert in a bounded queue and goes on; a daemon      *)
(* thread posts.  flush waits for what is queued or under way.  The caller *)
(* is the trader, which ends without a flush, or heartbeat_check.py, which *)
(* flushes first.  An alert is the number it has among those sent.         *)
(***************************************************************************)
EXTENDS Integers, Sequences, FiniteSets

CONSTANTS
  Events,
  DedupWindow, FlushTimeout,   \* in ticks of the clock
  QueueMax,
  MaxAlerts, MaxClock          \* bounds of the instance

ASSUME AlertAssumption ==
  /\ DedupWindow \in Nat \ {0} /\ FlushTimeout \in Nat /\ QueueMax \in Nat \ {0}

VARIABLES
  clock,          \* time.monotonic(), counted from the boot of the machine
  dedup,          \* _dedup: the last stamp of each event, 0 when there is none
  queue, posting, \* _q, and what the worker has taken out of it (0: nothing)
  caller,         \* what the calling thread is doing
  sent,           \* history: every alert stamped, [event, at, queued]
  posted          \* history: the alerts whose POST has been tried

alertVars == <<clock, dedup, queue, posting, caller, sent, posted>>

Free == [at |-> "free"]
Flushed == [at |-> "flushed"]
Gone == [at |-> "gone"]
Idle == caller \in {Free, Flushed}

AlertInit ==
  /\ clock \in {0, DedupWindow}
  /\ dedup = [e \in Events |-> 0]
  /\ queue = <<>> /\ posting = 0
  /\ caller = Free
  /\ sent = <<>> /\ posted = {}

AlertTick ==
  /\ clock < MaxClock /\ clock' = clock + 1
  /\ UNCHANGED <<dedup, queue, posting, caller, sent, posted>>

Suppressed(e) == clock - dedup[e] < DedupWindow

(* send, under the lock: an event seen within the window is dropped, any    *)
(* other one is stamped before it is known to fit in the queue.            *)
StampAlertUnstamped(e) ==
  /\ Idle /\ Len(sent) < MaxAlerts /\ ~Suppressed(e)
  /\ sent' = Append(sent, [event |-> e, at |-> clock, queued |-> FALSE])
  /\ caller' = [at |-> "put", alert |-> Len(sent) + 1]
  /\ UNCHANGED <<clock, dedup, queue, posting, posted>>

StampAlert(e) ==
  /\ Idle /\ Len(sent) < MaxAlerts /\ ~Suppressed(e)
  /\ dedup' = [dedup EXCEPT ![e] = clock]
  /\ sent' = Append(sent, [event |-> e, at |-> clock, queued |-> FALSE])
  /\ caller' = [at |-> "put", alert |-> Len(sent) + 1]
  /\ UNCHANGED <<clock, queue, posting, posted>>

PutAlert ==
  /\ caller.at = "put" /\ Len(queue) < QueueMax
  /\ queue' = Append(queue, caller.alert)
  /\ sent' = [sent EXCEPT ![caller.alert].queued = TRUE]
  /\ caller' = Free
  /\ UNCHANGED <<clock, dedup, posting, posted>>

DropAlert ==
  /\ caller.at = "put" /\ Len(queue) >= QueueMax
  /\ caller' = Free
  /\ UNCHANGED <<clock, dedup, queue, posting, sent, posted>>

(* The worker, until the process ends.  _post swallows its failures, so an  *)
(* alert that could not be posted is gone and the worker goes on.           *)
TakeAlert ==
  /\ caller # Gone /\ posting = 0 /\ queue # <<>>
  /\ posting' = Head(queue) /\ queue' = Tail(queue)
  /\ UNCHANGED <<clock, dedup, caller, sent, posted>>

PostAlertOrDie ==
  /\ caller # Gone /\ posting > 0
  /\ \E ok \in BOOLEAN :
       /\ posting' = IF ok THEN 0 ELSE -1
       /\ posted' = IF ok THEN posted \union {posting} ELSE posted
  /\ UNCHANGED <<clock, dedup, queue, caller, sent>>

PostAlert ==
  /\ caller # Gone /\ posting > 0
  /\ posting' = 0 /\ posted' = posted \union {posting}
  /\ UNCHANGED <<clock, dedup, queue, caller, sent>>

Unfinished == Len(queue) + (IF posting > 0 THEN 1 ELSE 0)

BeginFlush ==
  /\ Idle
  /\ caller' = [at |-> "flush", deadline |-> clock + FlushTimeout]
  /\ UNCHANGED <<clock, dedup, queue, posting, sent, posted>>

FlushReturnsQueueOnly ==
  /\ caller.at = "flush"
  /\ \/ Len(queue) = 0 /\ caller' = Flushed
     \/ Len(queue) > 0 /\ clock >= caller.deadline /\ caller' = Free
  /\ UNCHANGED <<clock, dedup, queue, posting, sent, posted>>

FlushReturns ==
  /\ caller.at = "flush"
  /\ \/ Unfinished = 0 /\ caller' = Flushed
     \/ Unfinished > 0 /\ clock >= caller.deadline /\ caller' = Free
  /\ UNCHANGED <<clock, dedup, queue, posting, sent, posted>>

(* The process ends, and its daemon thread with it.                         *)
EndProcess ==
  /\ Idle
  /\ caller' = Gone
  /\ UNCHANGED <<clock, dedup, queue, posting, sent, posted>>

Worker == TakeAlert \/ PostAlert

AlertNext ==
  \/ AlertTick
  \/ \E e \in Events : StampAlert(e)
  \/ PutAlert \/ DropAlert \/ Worker
  \/ BeginFlush \/ FlushReturns \/ EndProcess

AlertSpec == AlertInit /\ [][AlertNext]_alertVars /\ WF_alertVars(Worker)

-----------------------------------------------------------------------------
Queued == {n \in DOMAIN sent : sent[n].queued}

(* When flush has said yes, every alert that was queued has been posted, or *)
(* its POST has failed; none is still under way to die with the process     *)
(* (heartbeat_check.py exits right after it).                               *)
FlushMeansPosted == caller = Flushed => Queued \subseteq posted

(* An alert that fails tick after tick goes out once per window: two queued *)
(* alerts of one event are at least a window apart, in whatever order they  *)
(* are posted.                                                              *)
OnePerWindow ==
  \A m, n \in Queued :
    m < n /\ sent[m].event = sent[n].event => sent[n].at - sent[m].at >= DedupWindow

(* Each queued alert is posted or tried, unless the process ends first; no  *)
(* failed POST stops the worker.                                            *)
AlertsGoOut ==
  \A n \in 1 .. MaxAlerts : (n \in Queued) ~> (n \in posted \/ caller = Gone)
=============================================================================
