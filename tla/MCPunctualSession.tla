-------------------------- MODULE MCPunctualSession --------------------------
(* PunctualSession on a small instance.                                     *)
EXTENDS PunctualSession

OneAtm      == {0}
BearOnly    == {"BEAR_CALL"}
MonTue      == {1, 2}
Tuesday     == {2}
WinOrBreach == {1, -2}
LossCap     == -1
=============================================================================
