--------------------------- MODULE CollectorThread ---------------------------
(***************************************************************************)
(* DataCollector of data_collector.py: start_collection and                *)
(* stop_collection, called one after the other by a controlling thread,    *)
(* against the collecting thread.  stop sets two flags and waits ten       *)
(* seconds; a thread in the middle of a slow quote may outlive the wait.   *)
(***************************************************************************)
EXTENDS Integers, FiniteSets

CONSTANTS
  NumSymbols,       \* symbols polled in one cycle
  MaxThreads        \* bound: collecting threads ever started

ASSUME CollectorAssumption == NumSymbols \in Nat \ {0} /\ MaxThreads \in Nat

VARIABLES
  active,           \* collection_active
  stopEvent,        \* _stop_event
  current,          \* collection_thread: its number, 0 for none
  thread,           \* what each thread is doing
  control           \* the controlling thread

collectorVars == <<active, stopEvent, current, thread, control>>

Unborn == [at |-> "unborn"]
Dead == [at |-> "dead"]
At(place, left) == [at |-> place, left |-> left]

CollectorInit ==
  /\ active = FALSE /\ stopEvent = FALSE /\ current = 0
  /\ thread = [t \in 1 .. MaxThreads |-> Unborn]
  /\ control = "free"

Alive(t) == thread[t] \notin {Unborn, Dead}
Running == current > 0 /\ Alive(current)

Launch ==
  /\ current < MaxThreads
  /\ current' = current + 1
  /\ active' = TRUE /\ stopEvent' = FALSE
  /\ thread' = [thread EXCEPT ![current + 1] = At("top", 0)]

(* A start while a thread is alive does nothing, and so does one that       *)
(* finds no symbols.                                                        *)
StartUnchecked ==
  /\ control = "free"
  /\ Launch
  /\ UNCHANGED control

StartClearingFirst ==
  /\ control = "free"
  /\ IF Running
     THEN active' = TRUE /\ stopEvent' = FALSE /\ UNCHANGED <<current, thread>>
     ELSE Launch
  /\ UNCHANGED control

StartCollection ==
  /\ control = "free" /\ ~Running
  /\ Launch
  /\ UNCHANGED control

StopCollection ==
  /\ control = "free"
  /\ active' = FALSE /\ stopEvent' = TRUE
  /\ control' = IF current > 0 THEN "joining" ELSE "free"
  /\ UNCHANGED <<current, thread>>

(* join: the thread has ended, or the ten seconds are over.                 *)
JoinReturns ==
  /\ control = "joining"
  /\ control' = "free"
  /\ UNCHANGED <<active, stopEvent, current, thread>>

Step(t, place) ==
  /\ thread' = [thread EXCEPT ![t] = place]
  /\ UNCHANGED <<active, stopEvent, current, control>>

(* while self.collection_active                                             *)
BeginCycle(t) ==
  /\ thread[t].at = "top"
  /\ Step(t, IF active THEN At("next", NumSymbols) ELSE Dead)

(* The event is looked at before each symbol; a quote may take as long as   *)
(* its two attempts and the rate limiter let it.                            *)
NextSymbol(t) ==
  /\ thread[t].at = "next"
  /\ Step(t, IF stopEvent \/ thread[t].left = 0
             THEN At("wait", 0) ELSE At("quote", thread[t].left))

QuoteDone(t) ==
  /\ thread[t].at = "quote"
  /\ Step(t, At("next", thread[t].left - 1))

(* _stop_event.wait(5), after a cycle or after a failed one.                *)
CycleWait(t) ==
  /\ thread[t].at = "wait"
  /\ Step(t, IF stopEvent THEN Dead ELSE At("top", 0))

ThreadStep(t) == BeginCycle(t) \/ NextSymbol(t) \/ QuoteDone(t) \/ CycleWait(t)

CollectorNext ==
  \/ StartCollection \/ StopCollection \/ JoinReturns
  \/ \E t \in 1 .. MaxThreads : ThreadStep(t)

CollectorSpec ==
  /\ CollectorInit /\ [][CollectorNext]_collectorVars
  /\ \A t \in 1 .. MaxThreads : WF_collectorVars(ThreadStep(t))

-----------------------------------------------------------------------------
(* At most one thread collects, also when a stop gave up waiting and a      *)
(* start follows it: the quotes of two would share the low lane.            *)
OneCollector == Cardinality({t \in 1 .. MaxThreads : Alive(t)}) <= 1

(* A stop ends the collection in the end, even one that gave up waiting and *)
(* whatever starts come after it while the thread is still alive.           *)
StopEndsCollection ==
  \A t \in 1 .. MaxThreads : (stopEvent /\ current = t) ~> ~Alive(t)
=============================================================================
