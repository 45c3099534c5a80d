-------------------------- MODULE OperationsProofs --------------------------
(***************************************************************************)
(* What runs beside the trader's loop: the alert channel and the heartbeat *)
(* script that uses it, the PID lock and the collector's thread; and, with *)
(* QuoteLimiterProofs, their composition, which keeps the invariants of    *)
(* its parts, for every value of the constants.                            *)
(***************************************************************************)
EXTENDS Operations, QuoteLimiterProofs

(* What the alert channel promises its callers, for every set of events,    *)
(* every window, timeout and queue, and what the heartbeat script may       *)
(* conclude from it.                                                        *)
Alerts == 1 .. Len(sent)

(* The inductive invariant.  The stamps of one event are a window apart and *)
(* its entry in _dedup is not older than any of them; what has been queued  *)
(* is in the queue, in the hands of the worker or posted.                   *)
AlertTyped ==
  /\ clock \in Nat
  /\ dedup \in [Events -> Nat]
  /\ sent \in Seq([event : Events, at : Nat, queued : BOOLEAN])
  /\ queue \in Seq(Alerts)
  /\ posting \in {0} \union Alerts
  /\ caller \in {Free, Flushed, Gone} \union [at : {"put"}, alert : Alerts]
                  \union [at : {"flush"}, deadline : Nat]

Stamped ==
  /\ \A n \in Alerts : sent[n].at <= dedup[sent[n].event]
  /\ \A m, n \in Alerts :
       m < n /\ sent[m].event = sent[n].event => sent[n].at - sent[m].at >= DedupWindow

InQueue == {queue[i] : i \in 1 .. Len(queue)}

Traced ==
  /\ \A n \in Alerts : sent[n].queued => n \in posted \union InQueue \union {posting}
  /\ caller = Flushed => queue = <<>> /\ posting = 0

AlertInv == AlertTyped /\ Stamped /\ Traced

-----------------------------------------------------------------------------
LEMMA AlertInvInit == AlertInit => AlertInv
<1> SUFFICES ASSUME AlertInit PROVE AlertInv
  OBVIOUS
<1> USE AlertAssumption DEF AlertInit
<1>1. Alerts = {}
  BY DEF Alerts
<1>2. AlertTyped
  BY <1>1, EmptySeq DEF AlertTyped, Free
<1>3. Stamped /\ Traced
  BY <1>1 DEF Stamped, Traced, Free, Flushed
<1> QED BY <1>2, <1>3 DEF AlertInv

(* What AlertTyped says of single elements.                                 *)
LEMMA AlertElements ==
  ASSUME AlertTyped
  PROVE  /\ Len(sent) \in Nat /\ Len(queue) \in Nat
         /\ \A n \in Alerts : sent[n] \in [event : Events, at : Nat, queued : BOOLEAN]
         /\ \A i \in 1 .. Len(queue) : queue[i] \in Alerts
<1>1. sent \in Seq([event : Events, at : Nat, queued : BOOLEAN]) /\ queue \in Seq(Alerts)
  BY DEF AlertTyped
<1>2. Len(sent) \in Nat /\ Len(queue) \in Nat
  BY <1>1
<1>3. \A n \in Alerts : sent[n] \in [event : Events, at : Nat, queued : BOOLEAN]
  BY <1>1, ElementOfSeq DEF Alerts
<1>4. \A i \in 1 .. Len(queue) : queue[i] \in Alerts
  BY <1>1, ElementOfSeq
<1> QED BY <1>2, <1>3, <1>4

(* A caller is at one place.                                                *)
LEMMA CallerPlaces ==
  ASSUME AlertTyped
  PROVE  /\ caller.at = "put" => caller.alert \in Alerts
         /\ caller.at = "flush" => caller.deadline \in Nat
         /\ Idle => caller.at \notin {"put", "flush"}
BY DEF AlertTyped, Idle, Free, Flushed, Gone

LEMMA StampKeepsInv ==
  ASSUME NEW e \in Events, AlertInv, StampAlert(e)
  PROVE  AlertInv'
<1> USE AlertAssumption DEF AlertInv
<1> DEFINE new == Len(sent) + 1
           alert == [event |-> e, at |-> clock, queued |-> FALSE]
<1>1. /\ Len(sent) \in Nat /\ clock \in Nat /\ dedup[e] \in Nat
      /\ clock - dedup[e] >= DedupWindow
      /\ dedup' = [dedup EXCEPT ![e] = clock]
      /\ caller' = [at |-> "put", alert |-> new]
      /\ clock' = clock /\ queue' = queue /\ posting' = posting /\ posted' = posted
  BY AlertElements DEF StampAlert, Suppressed, AlertTyped
<1>2. sent' = Append(sent, alert)
  BY DEF StampAlert
<1>3. alert \in [event : Events, at : Nat, queued : BOOLEAN]
  BY <1>1
<1>4. /\ sent' \in Seq([event : Events, at : Nat, queued : BOOLEAN])
      /\ Len(sent') = Len(sent) + 1 /\ sent'[new] = alert
      /\ \A n \in Alerts : sent'[n] = sent[n]
  BY <1>2, <1>3, AppendProperties DEF AlertTyped, Alerts
<1>5. Alerts' = Alerts \union {new} /\ new \notin Alerts
  BY <1>1, <1>4 DEF Alerts
<1>6. AlertTyped'
  <2>1. queue' \in Seq(Alerts')
    BY <1>1, <1>5, SeqDef DEF AlertTyped
  <2> QED BY <1>1, <1>4, <1>5, <2>1 DEF AlertTyped
<1>7. Stamped'
  <2>1. \A n \in Alerts : sent[n].event \in Events /\ sent[n].at \in Nat
    BY AlertElements
  <2>2. \A n \in Alerts : sent[n].event = e => clock - sent[n].at >= DedupWindow
    BY <1>1, <2>1 DEF Stamped
  <2>3. \A n \in Alerts : sent'[n].at <= dedup'[sent'[n].event]
    <3> SUFFICES ASSUME NEW n \in Alerts PROVE sent'[n].at <= dedup'[sent'[n].event]
      OBVIOUS
    <3>1. sent'[n] = sent[n] /\ sent[n].event \in Events /\ sent[n].at \in Nat
      BY <1>4, <2>1
    <3>2. CASE sent[n].event = e
      <4>1. dedup'[sent'[n].event] = clock
        BY <1>1, <3>1, <3>2 DEF AlertTyped
      <4> QED BY <1>1, <2>2, <3>1, <3>2, <4>1
    <3>3. CASE sent[n].event # e
      <4>1. dedup'[sent'[n].event] = dedup[sent[n].event]
        BY <1>1, <3>1, <3>3 DEF AlertTyped
      <4> QED BY <3>1, <4>1 DEF Stamped
    <3> QED BY <3>2, <3>3
  <2>4. sent'[new].at <= dedup'[sent'[new].event]
    BY <1>1, <1>4 DEF AlertTyped
  <2>5. \A m, n \in Alerts' :
          m < n /\ sent'[m].event = sent'[n].event => sent'[n].at - sent'[m].at >= DedupWindow
    <3> SUFFICES ASSUME NEW m \in Alerts', NEW n \in Alerts', m < n,
                        sent'[m].event = sent'[n].event
                 PROVE  sent'[n].at - sent'[m].at >= DedupWindow
      OBVIOUS
    <3>1. m \in Alerts
      BY <1>1, <1>5, <1>4 DEF Alerts
    <3>2. CASE n \in Alerts
      BY <1>4, <3>1, <3>2 DEF Stamped
    <3>3. CASE n = new
      BY <1>4, <2>2, <3>1, <3>3
    <3> QED BY <1>5, <3>2, <3>3
  <2> QED BY <1>5, <2>3, <2>4, <2>5 DEF Stamped
<1>8. Traced'
  BY <1>1, <1>4, <1>5 DEF Traced, InQueue, Flushed
<1> QED BY <1>6, <1>7, <1>8

(* Everything else leaves the stamps alone.                                 *)
LEMMA StampsStay ==
  ASSUME AlertInv, dedup' = dedup, Len(sent') = Len(sent),
         \A n \in Alerts : sent'[n].at = sent[n].at /\ sent'[n].event = sent[n].event
  PROVE  Stamped'
BY DEF AlertInv, Stamped, Alerts

LEMMA PutKeepsInv == AlertInv /\ PutAlert => AlertInv'
<1> SUFFICES ASSUME AlertInv, PutAlert PROVE AlertInv'
  OBVIOUS
<1> USE DEF AlertInv, PutAlert
<1> DEFINE n0 == caller.alert
<1>1. n0 \in Alerts /\ Len(sent) \in Nat /\ Len(queue) \in Nat
  BY AlertElements, CallerPlaces
<1>2. /\ sent' \in Seq([event : Events, at : Nat, queued : BOOLEAN])
      /\ Len(sent') = Len(sent) /\ Alerts' = Alerts
      /\ \A n \in Alerts : /\ sent'[n].at = sent[n].at /\ sent'[n].event = sent[n].event
                           /\ n # n0 => sent'[n] = sent[n]
  <2>1. sent[n0] \in [event : Events, at : Nat, queued : BOOLEAN]
    BY <1>1, AlertElements
  <2>2. [sent[n0] EXCEPT !.queued = TRUE] \in [event : Events, at : Nat, queued : BOOLEAN]
    BY <2>1
  <2>3. sent' = [sent EXCEPT ![n0] = [sent[n0] EXCEPT !.queued = TRUE]]
    OBVIOUS
  <2>4. sent' \in Seq([event : Events, at : Nat, queued : BOOLEAN]) /\ Len(sent') = Len(sent)
    BY <1>1, <2>2, <2>3, ExceptSeq DEF AlertTyped, Alerts
  <2>5. \A n \in Alerts : /\ sent'[n].at = sent[n].at /\ sent'[n].event = sent[n].event
                          /\ n # n0 => sent'[n] = sent[n]
    BY <1>1, <2>1, <2>3, AlertElements DEF AlertTyped, Alerts
  <2> QED BY <2>4, <2>5 DEF Alerts
<1>3. /\ queue' \in Seq(Alerts) /\ Len(queue') = Len(queue) + 1
      /\ queue'[Len(queue) + 1] = n0
      /\ \A i \in 1 .. Len(queue) : queue'[i] = queue[i]
  BY <1>1, AppendProperties DEF AlertTyped
<1>4. InQueue \union {n0} \subseteq InQueue'
  BY <1>1, <1>3 DEF InQueue
<1>5. AlertTyped'
  BY <1>2, <1>3 DEF AlertTyped, Free
<1>6. Stamped'
  BY <1>2, StampsStay
<1>7. Traced'
  BY <1>2, <1>4 DEF Traced, Free, Flushed
<1> QED BY <1>5, <1>6, <1>7

LEMMA TakeAlertKeepsInv == AlertInv /\ TakeAlert => AlertInv'
<1> SUFFICES ASSUME AlertInv, TakeAlert PROVE AlertInv'
  OBVIOUS
<1> USE DEF AlertInv, TakeAlert
<1>1. /\ queue \in Seq(Alerts) /\ queue # <<>> /\ Len(queue) \in Nat
      /\ posting = 0 /\ posting' = Head(queue) /\ queue' = Tail(queue)
      /\ sent' = sent /\ Alerts' = Alerts /\ posted' = posted /\ caller' = caller
  BY AlertElements DEF AlertTyped, Alerts
<1>2. /\ Head(queue) = queue[1] /\ Head(queue) \in Alerts /\ Tail(queue) \in Seq(Alerts)
      /\ Len(queue') = Len(queue) - 1
      /\ \A i \in 1 .. Len(queue) - 1 : queue'[i] = queue[i + 1]
  BY <1>1, HeadTailProperties, EmptySeq
<1>3. InQueue \subseteq InQueue' \union {posting'}
  <2> SUFFICES ASSUME NEW i \in 1 .. Len(queue) PROVE queue[i] \in InQueue' \union {posting'}
    BY DEF InQueue
  <2>1. CASE i = 1
    BY <1>1, <1>2, <2>1
  <2>2. CASE i # 1
    <3>1. i - 1 \in 1 .. Len(queue') /\ queue'[i - 1] = queue[i]
      BY <1>1, <1>2, <2>2
    <3> QED BY <3>1 DEF InQueue
  <2> QED BY <2>1, <2>2
<1>4. AlertTyped'
  BY <1>1, <1>2 DEF AlertTyped
<1>5. Stamped'
  BY <1>1, StampsStay
<1>6. Traced'
  <2>1. caller # Flushed
    BY <1>1 DEF Traced
  <2>2. \A n \in Alerts : n # 0
    BY DEF Alerts
  <2> QED BY <1>1, <1>3, <2>1, <2>2 DEF Traced
<1> QED BY <1>4, <1>5, <1>6

LEMMA PostKeepsInv == AlertInv /\ PostAlert => AlertInv'
<1> SUFFICES ASSUME AlertInv, PostAlert PROVE AlertInv'
  OBVIOUS
<1> USE DEF AlertInv, PostAlert
<1>1. Alerts' = Alerts /\ InQueue' = InQueue
  BY DEF Alerts, InQueue
<1>2. AlertTyped'
  BY <1>1 DEF AlertTyped
<1>3. Stamped'
  BY StampsStay
<1>4. Traced'
  BY <1>1 DEF Traced
<1> QED BY <1>2, <1>3, <1>4

(* The caller's other steps and the clock touch neither stamps nor queue.   *)
LEMMA CallerKeepsInv ==
  AlertInv /\ (AlertTick \/ DropAlert \/ BeginFlush \/ FlushReturns \/ EndProcess)
    => AlertInv'
<1> SUFFICES ASSUME AlertInv, AlertTick \/ DropAlert \/ BeginFlush \/ FlushReturns \/ EndProcess
             PROVE  AlertInv'
  OBVIOUS
<1> USE AlertAssumption DEF AlertInv, AlertTick, DropAlert, BeginFlush, FlushReturns, EndProcess
<1>1. /\ dedup' = dedup /\ sent' = sent /\ queue' = queue /\ posting' = posting
      /\ posted' = posted /\ Alerts' = Alerts /\ InQueue' = InQueue
  BY DEF Alerts, InQueue
<1>2. clock' \in Nat
  BY DEF AlertTyped
<1>3. caller' \in {Free, Flushed, Gone} \union [at : {"put"}, alert : Alerts]
                    \union [at : {"flush"}, deadline : Nat]
  BY DEF AlertTyped
<1>4. AlertTyped'
  BY <1>1, <1>2, <1>3 DEF AlertTyped
<1>5. Stamped'
  BY <1>1, StampsStay
<1>6. Traced'
  <2>1. caller' = Flushed => queue = <<>> /\ posting = 0
    <3>1. CASE caller' = caller
      BY <3>1 DEF Traced
    <3>2. CASE FlushReturns /\ Unfinished = 0
      <4>1. Len(queue) = 0 /\ ~ (posting > 0)
        BY <3>2, AlertElements DEF Unfinished
      <4> QED BY <4>1, EmptySeq DEF AlertTyped, Alerts
    <3> QED BY <3>1, <3>2 DEF Free, Flushed, Gone
  <2> QED BY <1>1, <2>1 DEF Traced
<1> QED BY <1>4, <1>5, <1>6

LEMMA AlertInvNext == AlertInv /\ [AlertNext]_alertVars => AlertInv'
<1> SUFFICES ASSUME AlertInv, [AlertNext]_alertVars PROVE AlertInv'
  OBVIOUS
<1>1. ASSUME NEW e \in Events, StampAlert(e) PROVE AlertInv'
  BY <1>1, StampKeepsInv
<1>2. CASE PutAlert
  BY <1>2, PutKeepsInv
<1>3. CASE Worker
  BY <1>3, TakeAlertKeepsInv, PostKeepsInv DEF Worker
<1>4. CASE AlertTick \/ DropAlert \/ BeginFlush \/ FlushReturns \/ EndProcess
  BY <1>4, CallerKeepsInv
<1>5. CASE UNCHANGED alertVars
  BY <1>5 DEF alertVars, AlertInv, AlertTyped, Stamped, Traced, Alerts, InQueue
<1> QED BY <1>1, <1>2, <1>3, <1>4, <1>5 DEF AlertNext

LEMMA AlertInvariant == AlertSpec => []AlertInv
BY AlertInvInit, AlertInvNext, PTL DEF AlertSpec

-----------------------------------------------------------------------------
LEMMA InvMeansPosted == AlertInv => FlushMeansPosted
<1> SUFFICES ASSUME AlertInv, caller = Flushed, NEW n \in Queued PROVE n \in posted
  BY DEF FlushMeansPosted
<1>1. n \in Alerts /\ sent[n].queued
  BY LenProperties DEF AlertInv, AlertTyped, Queued, Alerts
<1>2. InQueue = {} /\ posting = 0
  BY DEF AlertInv, Traced, InQueue
<1> QED BY <1>1, <1>2 DEF AlertInv, Traced, Alerts

(* A flush that says yes leaves nothing behind that was queued, wherever    *)
(* the worker was when it was called (NtfyAlertChannel.flush).              *)
THEOREM FlushCorrect == AlertSpec => []FlushMeansPosted
BY AlertInvariant, InvMeansPosted, PTL

LEMMA InvMeansApart == AlertInv => OnePerWindow
<1> SUFFICES ASSUME AlertInv, NEW m \in Queued, NEW n \in Queued, m < n,
                    sent[m].event = sent[n].event
             PROVE  sent[n].at - sent[m].at >= DedupWindow
  BY DEF OnePerWindow
<1>1. m \in Alerts /\ n \in Alerts
  BY LenProperties DEF AlertInv, AlertTyped, Queued, Alerts
<1> QED BY <1>1 DEF AlertInv, Stamped

(* Two queued alerts of one event are a window apart (NtfyAlertChannel.send *)
(* stamps before it queues).                                                *)
THEOREM DedupCorrect == AlertSpec => []OnePerWindow
BY AlertInvariant, InvMeansApart, PTL

-----------------------------------------------------------------------------
(* The heartbeat script: it sends at most one alert, into an empty queue.   *)
Queued1 == Len(sent) = 1 /\ sent[1].queued

Scripts ==
  {Trading}
    \union [at : {"start"}, open : BOOLEAN, snapshot : {"missing", "stale", "fresh"}]
    \union [at : {"checked", "flushing"}, alarm : BOOLEAN, early : BOOLEAN]
    \union [at : {"ended"}, alarm : BOOLEAN, early : BOOLEAN, flushed : BOOLEAN]

Told ==
  /\ script.at = "start" =>
       /\ sent = <<>> /\ queue = <<>> /\ posting = 0 /\ caller = Free
       /\ \A e \in Events : dedup[e] = 0
  /\ script.at = "checked" /\ script.alarm /\ ~script.early =>
       Queued1 \/ (Len(sent) = 1 /\ caller = [at |-> "put", alert |-> 1] /\ queue = <<>>)
  /\ script.at = "flushing" /\ script.alarm /\ ~script.early => Queued1
  /\ script.at = "ended" /\ script.alarm /\ ~script.early /\ script.flushed => posted # {}

HeartbeatInv == AlertInv /\ script \in Scripts /\ Told

LEMMA HeartbeatInvInit == HeartbeatInit => HeartbeatInv
<1> SUFFICES ASSUME HeartbeatInit PROVE HeartbeatInv
  OBVIOUS
<1>1. AlertInit /\ AlertInv
  BY AlertInvInit DEF HeartbeatInit
<1>2. script \in {Trading} \union
        [at : {"start"}, open : BOOLEAN, snapshot : {"missing", "stale", "fresh"}]
  BY DEF HeartbeatInit
<1>3. script \in Scripts
  BY <1>2 DEF Scripts
<1>4. Told
  BY <1>1, <1>2 DEF Told, AlertInit, Trading
<1> QED BY <1>1, <1>3, <1>4 DEF HeartbeatInv

(* The script and the trader use the channel as AlertNext says.             *)
LEMMA HeartbeatUsesChannel == HeartbeatNext => [AlertNext]_alertVars
<1> SUFFICES ASSUME HeartbeatNext PROVE [AlertNext]_alertVars
  OBVIOUS
<1>1. CASE CheckHeartbeat
  <2>1. EventOf(script.snapshot) \in Events
    BY HeartbeatAssumption DEF EventOf
  <2> QED BY <1>1, <2>1 DEF CheckHeartbeat, AlertNext, alertVars
<1>2. CASE FlushHeartbeat
  BY <1>2 DEF FlushHeartbeat, AlertNext
<1>3. CASE EndHeartbeat
  BY <1>3 DEF EndHeartbeat, AlertNext
<1>4. CASE script # Trading /\ InScript
  BY <1>4 DEF InScript, AlertNext
<1>5. CASE AlertNext
  BY <1>5
<1> QED BY <1>1, <1>2, <1>3, <1>4, <1>5 DEF HeartbeatNext

LEMMA CheckKeepsTold ==
  HeartbeatInv /\ CheckHeartbeat => script' \in Scripts /\ Told'
<1> SUFFICES ASSUME HeartbeatInv, CheckHeartbeat PROVE script' \in Scripts /\ Told'
  OBVIOUS
<1> USE DEF HeartbeatInv
<1> DEFINE alarm == script.open /\ script.snapshot # "fresh"
           event == EventOf(script.snapshot)
<1>1. script \in [at : {"start"}, open : BOOLEAN, snapshot : {"missing", "stale", "fresh"}]
  BY DEF Scripts, CheckHeartbeat, Trading
<1>2. /\ script' = [at |-> "checked", alarm |-> alarm, early |-> clock < DedupWindow]
      /\ IF alarm /\ ~Suppressed(event) THEN StampAlert(event) ELSE UNCHANGED alertVars
  BY DEF CheckHeartbeat
<1>3. script' \in Scripts
  BY <1>1, <1>2 DEF Scripts
<1>4. ASSUME alarm, ~ (clock < DedupWindow)
      PROVE  Len(sent') = 1 /\ caller' = [at |-> "put", alert |-> 1] /\ queue' = <<>>
  <2>1. event \in Events /\ sent = <<>> /\ queue = <<>> /\ dedup[event] = 0 /\ clock \in Nat
    BY <1>1, HeartbeatAssumption DEF Told, AlertInv, AlertTyped, EventOf
  <2>2. ~Suppressed(event)
    BY <1>4, <2>1, AlertAssumption DEF Suppressed
  <2>3. StampAlert(event)
    BY <1>2, <1>4, <2>2
  <2> QED BY <2>1, <2>3 DEF StampAlert
<1>5. Told'
  BY <1>2, <1>4 DEF Told
<1> QED BY <1>3, <1>5

LEMMA FlushKeepsTold ==
  HeartbeatInv /\ FlushHeartbeat => script' \in Scripts /\ Told'
<1> SUFFICES ASSUME HeartbeatInv, FlushHeartbeat PROVE script' \in Scripts /\ Told'
  OBVIOUS
<1> USE DEF HeartbeatInv
<1>1. script \in [at : {"checked"}, alarm : BOOLEAN, early : BOOLEAN]
  BY DEF Scripts, FlushHeartbeat, Trading
<1>2. /\ script' = [script EXCEPT !.at = "flushing"] /\ sent' = sent
      /\ caller.at # "put"
  BY DEF FlushHeartbeat, BeginFlush, Free
<1>3. script' \in [at : {"flushing"}, alarm : BOOLEAN, early : BOOLEAN]
      /\ script'.alarm = script.alarm /\ script'.early = script.early
  BY <1>1, <1>2
<1>4. script' \in Scripts
  BY <1>3 DEF Scripts
<1>5. Told'
  BY <1>1, <1>2, <1>3 DEF Told, Queued1
<1> QED BY <1>4, <1>5

LEMMA EndKeepsTold ==
  HeartbeatInv /\ EndHeartbeat => script' \in Scripts /\ Told'
<1> SUFFICES ASSUME HeartbeatInv, EndHeartbeat PROVE script' \in Scripts /\ Told'
  OBVIOUS
<1> USE DEF HeartbeatInv
<1>1. script \in [at : {"flushing"}, alarm : BOOLEAN, early : BOOLEAN]
  BY DEF Scripts, EndHeartbeat, Trading
<1>2. /\ script' = [at |-> "ended", alarm |-> script.alarm, early |-> script.early,
                    flushed |-> (caller = Flushed)]
      /\ posted' = posted
  BY DEF EndHeartbeat, EndProcess
<1>3. script' \in Scripts
  BY <1>1, <1>2 DEF Scripts
<1>4. ASSUME script.alarm, ~script.early, caller = Flushed PROVE posted # {}
  <2>1. Queued1
    BY <1>1, <1>4 DEF Told
  <2>2. 1 \in Queued
    BY <2>1 DEF Queued, Queued1, AlertInv, AlertTyped
  <2> QED BY <1>4, <2>2, InvMeansPosted DEF FlushMeansPosted
<1>5. Told'
  BY <1>2, <1>4 DEF Told
<1> QED BY <1>3, <1>5

(* While the script waits, nothing else is sent: what is queued stays       *)
(* queued, and what is to be put finds room.                                *)
LEMMA WaitKeepsTold ==
  HeartbeatInv /\ script # Trading /\ InScript /\ UNCHANGED script => Told'
<1> SUFFICES ASSUME HeartbeatInv, script # Trading, InScript, script' = script PROVE Told'
  OBVIOUS
<1> USE AlertAssumption DEF HeartbeatInv, AlertInv
<1>1. CASE script.at = "start"
  <2>1. Len(queue) = 0 /\ caller = Free
    BY <1>1 DEF Told
  <2>2. AlertTick
    BY <1>1, <2>1 DEF Told, InScript, Worker, TakeAlert, PostAlert, PutAlert, DropAlert,
                      FlushReturns, Free
  <2> QED BY <1>1, <2>2 DEF Told, AlertTick
<1>2. ASSUME Queued1 PROVE Queued1'
  <2>1. CASE PutAlert
    <3>1. 1 \in Alerts /\ caller.alert \in Alerts
      BY <1>2, <2>1, CallerPlaces DEF Queued1, Alerts, PutAlert
    <3>2. Len(sent') = Len(sent)
      BY <2>1, <3>1, ExceptSeq DEF PutAlert, AlertTyped, Alerts
    <3>3. sent'[1].queued
      BY <1>2, <2>1, <3>1, AlertElements DEF PutAlert, Queued1, AlertTyped, Alerts
    <3> QED BY <1>2, <3>2, <3>3 DEF Queued1
  <2>2. CASE ~PutAlert
    BY <1>2, <2>2 DEF Queued1, InScript, AlertTick, DropAlert, Worker, TakeAlert, PostAlert,
                      FlushReturns
  <2> QED BY <2>1, <2>2
<1>3. ASSUME Len(sent) = 1, caller = [at |-> "put", alert |-> 1], queue = <<>>
      PROVE  Queued1' \/ (Len(sent') = 1 /\ caller' = caller /\ queue' = <<>>)
  <2>1. CASE PutAlert
    <3>1. 1 \in Alerts /\ sent' = [sent EXCEPT ![1].queued = TRUE]
      BY <1>3, <2>1 DEF Alerts, PutAlert
    <3>2. Len(sent') = 1 /\ sent'[1].queued
      BY <1>3, <3>1, AlertElements DEF AlertTyped, Alerts
    <3> QED BY <3>2 DEF Queued1
  <2>2. CASE AlertTick \/ PostAlert
    BY <1>3, <2>2 DEF AlertTick, PostAlert
  <2>3. ~DropAlert /\ ~TakeAlert /\ ~FlushReturns
    BY <1>3 DEF DropAlert, TakeAlert, FlushReturns
  <2> QED BY <2>1, <2>2, <2>3 DEF InScript, Worker
<1>4. posted \subseteq posted'
  BY DEF InScript, AlertTick, PutAlert, DropAlert, Worker, TakeAlert, PostAlert, FlushReturns
<1>5. CASE script.at # "start"
  BY <1>2, <1>3, <1>4, <1>5 DEF Told
<1> QED BY <1>1, <1>5

LEMMA HeartbeatInvNext ==
  HeartbeatInv /\ [HeartbeatNext]_heartbeatVars => HeartbeatInv'
<1> SUFFICES ASSUME HeartbeatInv, [HeartbeatNext]_heartbeatVars PROVE HeartbeatInv'
  OBVIOUS
<1>1. AlertInv'
  BY HeartbeatUsesChannel, AlertInvNext DEF HeartbeatInv, heartbeatVars, alertVars
<1>2. script' \in Scripts /\ Told'
  <2>1. CASE CheckHeartbeat
    BY <2>1, CheckKeepsTold
  <2>2. CASE FlushHeartbeat
    BY <2>2, FlushKeepsTold
  <2>3. CASE EndHeartbeat
    BY <2>3, EndKeepsTold
  <2>4. CASE script # Trading /\ InScript /\ UNCHANGED script
    BY <2>4, WaitKeepsTold DEF HeartbeatInv
  <2>5. CASE script = Trading /\ UNCHANGED script
    BY <2>5 DEF HeartbeatInv, Told, Trading
  <2>6. CASE UNCHANGED heartbeatVars
    BY <2>6 DEF heartbeatVars, alertVars, HeartbeatInv, Told, Queued1
  <2> QED BY <2>1, <2>2, <2>3, <2>4, <2>5, <2>6 DEF HeartbeatNext
<1> QED BY <1>1, <1>2 DEF HeartbeatInv

(* A heartbeat script that exits with an alarm has told it, unless flush    *)
(* gave up or the machine came up within the last window                    *)
(* (heartbeat_check.check_heartbeat).                                       *)
THEOREM AlarmCorrect == HeartbeatSpec => []AlarmIsTold
<1>1. HeartbeatInv => AlarmIsTold
  BY DEF HeartbeatInv, Told, AlarmIsTold
<1> QED BY <1>1, HeartbeatInvInit, HeartbeatInvNext, PTL DEF HeartbeatSpec

-----------------------------------------------------------------------------
(* The lock.  Of two living traders one was let past it.                    *)
LockInv ==
  /\ trader \in [Traders -> {"new", "checked", "running", "refused", "ended"}]
  /\ pidFile \in Traders \union {NoPid}
  /\ \A t, u \in Traders : t # u /\ Lives(t) /\ Lives(u) => t \in excused \/ u \in excused

LEMMA LockInvInit == LockInit => LockInv
BY DEF LockInit, LockInv, Lives

(* A trader that becomes alive beside another one is excused.               *)
LEMMA CheckKeepsLockInv ==
  ASSUME LockInv, NEW t \in Traders, CheckLock(t)
  PROVE  LockInv'
<1> USE DEF LockInv
<1> DEFINE held == pidFile # NoPid /\ Lives(pidFile)
<1>1. /\ trader[t] = "new" /\ pidFile' = pidFile /\ excused \subseteq excused'
      /\ trader' = [trader EXCEPT ![t] = IF held /\ ~snapshotStale THEN "refused"
                                         ELSE "checked"]
  BY DEF CheckLock
<1>2. \A u \in Traders \ {t} : trader'[u] = trader[u] /\ (Lives(u)' <=> Lives(u))
  BY <1>1 DEF Lives
<1>3. ASSUME NEW u \in Traders \ {t}, Lives(u), Lives(t)' PROVE t \in excused'
  <2>1. ~ (held /\ ~snapshotStale)
    BY <1>1, <1>3 DEF Lives
  <2>2. CASE u # pidFile
    BY <1>3, <2>2 DEF CheckLock
  <2>3. CASE u = pidFile
    BY <1>3, <2>1, <2>3, LockAssumption DEF CheckLock
  <2> QED BY <2>2, <2>3
<1>4. \A u, v \in Traders : u # v /\ Lives(u)' /\ Lives(v)' => u \in excused' \/ v \in excused'
  BY <1>1, <1>2, <1>3
<1> QED BY <1>1, <1>4

LEMMA LockInvNext == LockInv /\ [LockNext]_lockVars => LockInv'
<1> SUFFICES ASSUME LockInv, [LockNext]_lockVars PROVE LockInv'
  OBVIOUS
<1>1. ASSUME NEW t \in Traders, CheckLock(t) PROVE LockInv'
  BY <1>1, CheckKeepsLockInv
<1>2. ASSUME NEW t \in Traders, WriteLock(t) PROVE LockInv'
  BY <1>2 DEF LockInv, WriteLock, Lives
<1>3. ASSUME NEW t \in Traders, ExitTrader(t) PROVE LockInv'
  BY <1>3 DEF LockInv, ExitTrader, Lives
<1>4. ASSUME NEW t \in Traders, KillTrader(t) PROVE LockInv'
  BY <1>4 DEF LockInv, KillTrader, Lives
<1>5. CASE SnapshotAges
  BY <1>5 DEF LockInv, SnapshotAges, Lives
<1>6. CASE UNCHANGED lockVars
  BY <1>6 DEF LockInv, lockVars, Lives
<1> QED BY <1>1, <1>2, <1>3, <1>4, <1>5, <1>6 DEF LockNext

LEMMA InvExplainsDoubleRun == LockInv => DoubleRunExplained
<1> SUFFICES ASSUME LockInv PROVE Cardinality(Live \ excused) <= 1
  BY DEF DoubleRunExplained
<1>1. \A t, u \in Live \ excused : t = u
  BY DEF LockInv, Live, Lives
<1>2. CASE Live \ excused = {}
  BY <1>2, FS_EmptySet
<1>3. CASE Live \ excused # {}
  <2>1. PICK t \in Live \ excused : Live \ excused = {t}
    BY <1>1, <1>3
  <2> QED BY <2>1, FS_Singleton
<1> QED BY <1>2, <1>3

(* Two traders run together only if one of them met a stale snapshot, a     *)
(* trader that was starting too, or a living one whose number was not in    *)
(* the file (main._acquire_pid_lock), however many are launched.            *)
THEOREM LockCorrect == LockSpec => []DoubleRunExplained
BY LockInvInit, LockInvNext, InvExplainsDoubleRun, PTL DEF LockSpec

(* Who is refused is refused for a living owner.                            *)
LEMMA RefusedForTheLiving ==
  LockInv /\ [LockNext]_lockVars =>
    [\A t \in Traders : trader[t] # "refused" /\ trader'[t] = "refused" =>
       pidFile \in Traders /\ Lives(pidFile)]_lockVars
<1> SUFFICES ASSUME LockInv, LockNext, NEW t \in Traders,
                    trader[t] # "refused", trader'[t] = "refused"
             PROVE  pidFile \in Traders /\ Lives(pidFile)
  OBVIOUS
<1>1. PICK u \in Traders : CheckLock(u) \/ WriteLock(u) \/ ExitTrader(u) \/ KillTrader(u)
  BY DEF LockNext, SnapshotAges
<1>2. CheckLock(u) /\ t = u
  BY <1>1 DEF LockInv, CheckLock, WriteLock, ExitTrader, KillTrader
<1> QED BY <1>2 DEF LockInv, CheckLock

(* A PID file left by a dead process keeps no trader out                    *)
(* (main._acquire_pid_lock).                                                *)
THEOREM DeadOwnerCorrect == LockSpec => DeadOwnerNeverBlocks
BY LockInvInit, LockInvNext, RefusedForTheLiving, PTL DEF LockSpec, DeadOwnerNeverBlocks

-----------------------------------------------------------------------------
(* The collector.  A thread that lives is the one the object knows.         *)
CollectorInv ==
  /\ current \in 0 .. MaxThreads
  /\ \A t \in 1 .. MaxThreads : Alive(t) => t = current

LEMMA CollectorInvInit == CollectorInit => CollectorInv
BY CollectorAssumption DEF CollectorInit, CollectorInv, Alive

LEMMA CollectorInvNext == CollectorInv /\ [CollectorNext]_collectorVars => CollectorInv'
<1> SUFFICES ASSUME CollectorInv, [CollectorNext]_collectorVars PROVE CollectorInv'
  OBVIOUS
<1> USE CollectorAssumption DEF CollectorInv
<1>1. CASE StartCollection
  <2>1. /\ current' = current + 1 /\ current < MaxThreads
        /\ thread' = [thread EXCEPT ![current + 1] = At("top", 0)]
    BY <1>1 DEF StartCollection, Launch
  <2>2. \A t \in 1 .. MaxThreads : ~Alive(t)
    BY <1>1 DEF StartCollection, Running
  <2>3. \A t \in 1 .. MaxThreads : t # current + 1 => ~Alive(t)'
    BY <2>1, <2>2 DEF Alive
  <2> QED BY <2>1, <2>3
<1>2. CASE StopCollection \/ JoinReturns
  BY <1>2 DEF StopCollection, JoinReturns, Alive
<1>3. ASSUME NEW t \in 1 .. MaxThreads, ThreadStep(t) PROVE CollectorInv'
  <2>1. current' = current /\ \E place : thread' = [thread EXCEPT ![t] = place]
    BY <1>3 DEF ThreadStep, BeginCycle, NextSymbol, QuoteDone, CycleWait, Step
  <2>2. Alive(t)
    BY <1>3 DEF ThreadStep, BeginCycle, NextSymbol, QuoteDone, CycleWait, Alive, Unborn, Dead
  <2>3. \A u \in 1 .. MaxThreads : u # t => (Alive(u)' <=> Alive(u))
    BY <2>1 DEF Alive
  <2> QED BY <2>1, <2>2, <2>3
<1>4. CASE UNCHANGED collectorVars
  BY <1>4 DEF collectorVars, Alive
<1> QED BY <1>1, <1>2, <1>3, <1>4 DEF CollectorNext

LEMMA InvMeansOneCollector == CollectorInv => OneCollector
<1> SUFFICES ASSUME CollectorInv
             PROVE  Cardinality({t \in 1 .. MaxThreads : Alive(t)}) <= 1
  BY DEF OneCollector
<1>1. \/ {t \in 1 .. MaxThreads : Alive(t)} = {}
      \/ {t \in 1 .. MaxThreads : Alive(t)} = {current}
  BY DEF CollectorInv
<1>2. Cardinality({}) = 0 /\ Cardinality({current}) = 1
  BY FS_EmptySet, FS_Singleton
<1> QED BY <1>1, <1>2

(* However starts and stops follow each other, and however long a thread    *)
(* outlives the stop that gave up on it, no two threads collect             *)
(* (DataCollector.start_collection).                                        *)
THEOREM CollectorCorrect == CollectorSpec => []OneCollector
BY CollectorInvInit, CollectorInvNext, InvMeansOneCollector, PTL DEF CollectorSpec

-----------------------------------------------------------------------------
(* The composition.  A step of the whole is a step or a stutter of each     *)
(* part.                                                                    *)
LEMMA OperationsSteps ==
  [OperationsNext]_operationsVars =>
    /\ [LimiterNext]_limiterVars
    /\ [HeartbeatNext]_heartbeatVars
    /\ [CollectorNext]_collectorVars
    /\ [LockNext]_lockVars
BY DEF OperationsNext, operationsVars, limiterRest, heartbeatRest, collectorRest, lockRest

(* What the components promise one by one holds of the whole: quotas, share *)
(* and sleep of the limiter, the alert channel and the heartbeat script,    *)
(* one collector, and the lock.                                             *)
THEOREM OperationsCorrect ==
  OperationsSpec =>
    /\ []QuotaKept /\ []LowLaneShare /\ []SleepsOnlyWhileFull
    /\ []FlushMeansPosted /\ []OnePerWindow /\ []AlarmIsTold
    /\ []OneCollector /\ []DoubleRunExplained
    /\ DeadOwnerNeverBlocks
<1> DEFINE Whole == LimiterInv /\ HeartbeatInv /\ CollectorInv /\ LockInv
<1>1. OperationsInit => Whole
  BY LimiterInvInit, HeartbeatInvInit, CollectorInvInit, LockInvInit DEF OperationsInit
<1>2. Whole /\ [OperationsNext]_operationsVars => Whole'
  BY OperationsSteps, LimiterInvNext, HeartbeatInvNext, CollectorInvNext, LockInvNext
<1>3. Whole => /\ QuotaKept /\ LowLaneShare /\ SleepsOnlyWhileFull
               /\ FlushMeansPosted /\ OnePerWindow /\ AlarmIsTold
               /\ OneCollector /\ DoubleRunExplained
  <2>1. HeartbeatInv => AlertInv /\ AlarmIsTold
    BY DEF HeartbeatInv, Told, AlarmIsTold
  <2> QED BY <2>1, InvKeepsQuotas, InvNeverOversleeps, InvMeansPosted, InvMeansApart,
             InvMeansOneCollector, InvExplainsDoubleRun
<1>4. Whole /\ [OperationsNext]_operationsVars =>
        [\A t \in Traders : trader[t] # "refused" /\ trader'[t] = "refused" =>
           pidFile \in Traders /\ Lives(pidFile)]_lockVars
  BY OperationsSteps, RefusedForTheLiving
<1> HIDE DEF Whole
<1> QED BY <1>1, <1>2, <1>3, <1>4, PTL DEF OperationsSpec, DeadOwnerNeverBlocks
=============================================================================
