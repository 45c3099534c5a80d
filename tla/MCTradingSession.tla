-------------------------- MODULE MCTradingSession --------------------------
(* TradingSession on small instances: the values the cfg files give to its  *)
(* constants, and the specification that its liveness is checked under.     *)
EXTENDS TradingSession

OneAtm    == {0}
TwoAtms   == {0, 4}      \* the long strike of one spread is the short of the other
BearOnly  == {"BEAR_CALL"}
BothSides == {"BEAR_CALL", "BULL_PUT"}
MonTue    == {1, 2}
MonOnly   == {1}
Tuesday   == {2}
Monday    == {1}
WinOrBreach == {1, -2}
WinOnly   == {1}
LossCap   == -1
=============================================================================
