----------------------------- MODULE MCPaperDesk -----------------------------
(***************************************************************************)
(* Instance of PaperDesk.  A unit of price is Rs 0.0000125, so that the     *)
(* slippage of 0.05 % of half a tick is a whole number: the tick of Rs 0.05 *)
(* is 4000 units, Rs 50 is 4 000 000.                                       *)
(***************************************************************************)
EXTENDS PaperDesk

MCChain == <<"CE", "PE">>

(* None; half a tick; the tick; Rs 2, below the least OTM slippage;         *)
(* Rs 49.975 and 50, around the threshold; Rs 3200.025; above the maximum.  *)
MCQuotes == {0, 2000, 4000, 160000, 3998000, 4000000, 256002000, 440000000}
MCLimits == {0, 4000, 158000, 3998000, 256004000}

MCStrikePrices == {100, 150, 200, 300}
MCFuturePrices == {0, 120, 125, 290}

(* Weekly expiries from a Monday, a Tuesday, and with a holiday between.    *)
MCCalendars == {{1, 8}, {0, 7}, {2, 9}}

(* A loss, a gain that does not make up for it, and one that does.           *)
MCResults == {-3, 2, 5}
=============================================================================
