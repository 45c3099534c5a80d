---------------------------- MODULE LiveTrading ----------------------------
(***************************************************************************)
(* The trader against the broker: its orders and its session.  The order   *)
(* manager sees of the session only answers that fail, and the model of an *)
(* order already lets any answer fail; so the two are explored one at a    *)
(* time, the one in focus.                                                 *)
(***************************************************************************)
EXTENDS LiveOrder, BrokerSession

VARIABLE focus          \* the part whose behaviours are explored

liveTradingVars == <<liveVars, sessionVars, focus>>

LiveTradingInit ==
  /\ focus \in {"orders", "session"}
  /\ LiveInit /\ SessionInit
  /\ focus = "orders" => issued = 0 /\ ~oauth

LiveTradingNext ==
  \/ focus = "orders" /\ LiveNext /\ UNCHANGED <<sessionVars, focus>>
  \/ focus = "session" /\ SessionNext /\ UNCHANGED <<liveVars, focus>>

LiveTradingSpec ==
  /\ LiveTradingInit /\ [][LiveTradingNext]_liveTradingVars
  /\ WF_liveTradingVars(focus = "orders" /\ Poll /\ UNCHANGED <<sessionVars, focus>>)
=============================================================================
