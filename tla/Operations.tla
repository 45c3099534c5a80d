----------------------------- MODULE Operations -----------------------------
(***************************************************************************)
(* What runs beside the trader's own loop: the quote limiter shared with   *)
(* the collector, the alert channel and the heartbeat script, the          *)
(* collector's thread and the PID lock.  No two of them have state in      *)
(* common, so a behaviour of the whole is one of each, and it is enough to *)
(* let one of them move at a time: the one in focus.                       *)
(***************************************************************************)
EXTENDS QuoteLimiter, Heartbeat, CollectorThread, SingleInstance

VARIABLE focus        \* the component whose behaviours are explored

limiterRest == <<heartbeatVars, collectorVars, lockVars, focus>>
heartbeatRest == <<limiterVars, collectorVars, lockVars, focus>>
collectorRest == <<limiterVars, heartbeatVars, lockVars, focus>>
lockRest == <<limiterVars, heartbeatVars, collectorVars, focus>>

OperationsInit ==
  /\ focus \in {"limiter", "alerts", "collector", "lock"}
  /\ LimiterInit /\ HeartbeatInit /\ CollectorInit
  /\ LockInit /\ (focus # "lock" => ~snapshotStale)
  /\ focus # "alerts" => script = Trading /\ clock = 0

OperationsNext ==
  \/ focus = "limiter" /\ LimiterNext /\ UNCHANGED limiterRest
  \/ focus = "alerts" /\ HeartbeatNext /\ UNCHANGED heartbeatRest
  \/ focus = "collector" /\ CollectorNext /\ UNCHANGED collectorRest
  \/ focus = "lock" /\ LockNext /\ UNCHANGED lockRest

operationsVars == <<limiterVars, heartbeatVars, collectorVars, lockVars, focus>>

OperationsSpec ==
  /\ OperationsInit /\ [][OperationsNext]_operationsVars
  /\ WF_operationsVars(focus = "alerts" /\ Worker /\ UNCHANGED <<script, heartbeatRest>>)
  /\ \A t \in 1 .. MaxThreads :
       WF_operationsVars(focus = "collector" /\ ThreadStep(t) /\ UNCHANGED collectorRest)
=============================================================================
