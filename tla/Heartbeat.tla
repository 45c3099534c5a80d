------------------------------ MODULE Heartbeat ------------------------------
(***************************************************************************)
(* tools/heartbeat_check.py over the alert channel: a short-lived process  *)
(* looks at the age of pnl_snapshot.json in market hours, alerts when it   *)
(* is missing or too old, waits for the alert to go out and exits with 1.  *)
(* The other user of the channel is the trader, which never waits.         *)
(***************************************************************************)
EXTENDS AlertQueue

ASSUME HeartbeatAssumption == {"heartbeat_missing", "heartbeat_stale"} \subseteq Events

VARIABLE script           \* what the heartbeat process is doing

heartbeatVars == <<alertVars, script>>

Trading == [at |-> "trader"]

(* What the script finds: the market closed, or open and the snapshot.      *)
HeartbeatInit ==
  /\ AlertInit
  /\ script \in {Trading} \union
       [at : {"start"}, open : BOOLEAN, snapshot : {"missing", "stale", "fresh"}]

EventOf(snapshot) ==
  IF snapshot = "missing" THEN "heartbeat_missing" ELSE "heartbeat_stale"

(* check_heartbeat: the code it returns, and the alert that goes with it.   *)
CheckHeartbeat ==
  /\ script.at = "start" /\ Idle
  /\ LET alarm == script.open /\ script.snapshot # "fresh"
         event == EventOf(script.snapshot)
     IN /\ script' = [at |-> "checked", alarm |-> alarm,
                      early |-> clock < DedupWindow]
        /\ IF alarm /\ ~Suppressed(event) THEN StampAlert(event) ELSE UNCHANGED alertVars

FlushHeartbeatSkipped ==
  /\ script.at = "checked" /\ caller = Free
  /\ caller' = Flushed
  /\ script' = [script EXCEPT !.at = "flushing"]
  /\ UNCHANGED <<clock, dedup, queue, posting, sent, posted>>

FlushHeartbeat ==
  /\ script.at = "checked" /\ caller = Free
  /\ BeginFlush
  /\ script' = [script EXCEPT !.at = "flushing"]

EndHeartbeat ==
  /\ script.at = "flushing" /\ EndProcess
  /\ script' = [at |-> "ended", alarm |-> script.alarm, early |-> script.early,
                flushed |-> (caller = Flushed)]

InScript == AlertTick \/ PutAlert \/ DropAlert \/ Worker \/ FlushReturns

HeartbeatNext ==
  \/ CheckHeartbeat \/ FlushHeartbeat \/ EndHeartbeat
  \/ script # Trading /\ InScript /\ UNCHANGED script
  \/ script = Trading /\ AlertNext /\ UNCHANGED script

HeartbeatSpec ==
  HeartbeatInit /\ [][HeartbeatNext]_heartbeatVars /\ WF_heartbeatVars(Worker /\ UNCHANGED script)

-----------------------------------------------------------------------------
(* An alarm is told: when the script has exited with 1, its alert has been  *)
(* posted or tried, or flush gave up waiting, or the channel took it for a  *)
(* repetition, as it does when the machine came up less than a window ago   *)
(* (dedup.get(event, 0.0) against a clock that counts from boot).           *)
AlarmIsTold ==
  script.at = "ended" /\ script.alarm =>
    posted # {} \/ ~script.flushed \/ script.early
=============================================================================
