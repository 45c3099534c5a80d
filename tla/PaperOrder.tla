----------------------------- MODULE PaperOrder -----------------------------
(***************************************************************************)
(* PaperOrderManager.place_order: the price at which a paper order fills,  *)
(* and what PaperPositionTracker.add_position makes of the fill, for one   *)
(* option symbol.  Prices are whole numbers of a unit small enough for the *)
(* slippage percentage of any quoted price.                                *)
(***************************************************************************)
EXTENDS Amounts

CONSTANTS
  Quotes,                     \* prices a quote may have; 0 is no price
  Limits,                     \* limit prices a caller may ask for
  Lots,                       \* quantities
  PriceTick,                  \* settings.PRICE_TICK
  LtpMin, LtpMax,             \* PAPER_OPTION_LTP_MIN and _MAX
  OtmThreshold, OtmMinAbs, MinAbs, PctDen,  \* SLIPPAGE_*; the rate is 1 / PctDen
  MaxOrders                   \* bound of the instance

ASSUME PaperAssumption ==
  /\ PriceTick \in Nat \ {0} /\ PctDen \in Nat \ {0}
  /\ OtmThreshold \in Int /\ OtmMinAbs \in Nat /\ MinAbs \in Nat
  /\ LtpMin \in Int /\ LtpMax \in Int /\ MaxOrders \in Int
  /\ Quotes \subseteq Int /\ Limits \subseteq Int /\ Lots \subseteq Nat \ {0}

VARIABLES
  position,        \* the tracker's row: [qty, avg], qty 0 when there is none
  basis,           \* history: what the open quantity cost, unrounded
  adds,            \* history: fills averaged since the position was opened
  row              \* the last row of paper_orders.csv

paperVars == <<position, basis, adds, row>>

Flat == [qty |-> 0, avg |-> 0]
NoRow == [status |-> "none"]

PaperInit == position = Flat /\ basis = 0 /\ adds = 0 /\ row = NoRow

(* round(x / tick) * tick for x = n / d: to the nearest tick, the even one  *)
(* when two are equally near.                                               *)
RoundToTick(n, d) ==
  LET q == n \div (d * PriceTick)
      r == 2 * (n % (d * PriceTick))
  IN PriceTick * (IF r > d * PriceTick \/ (r = d * PriceTick /\ q % 2 = 1)
                  THEN q + 1 ELSE q)

Slip(ltp) ==
  IF ltp < OtmThreshold
  THEN Larger((ltp * 3) \div PctDen, OtmMinAbs)
  ELSE Larger(ltp \div PctDen, MinAbs)

(* A caller without a quote may still name a price.                         *)
Ltp(quote, price) == IF quote > 0 THEN quote ELSE price

Sane(ltp) == LtpMin <= ltp /\ ltp <= LtpMax
Crossed(side, price, ltp) == IF side = "BUY" THEN price >= ltp ELSE price <= ltp

FillPastLimit(side, type, price, ltp) ==
  RoundToTick(IF side = "BUY" THEN ltp + Slip(ltp) ELSE ltp - Slip(ltp), 1)

(* The limit bounds the slippage; the tick is applied after it.             *)
Fill(side, type, price, ltp) ==
  LET worst == IF side = "BUY" THEN ltp + Slip(ltp) ELSE ltp - Slip(ltp)
      bound == CASE type = "MKT" -> worst
                 [] type = "LMT" /\ side = "BUY" -> Lesser(price, worst)
                 [] OTHER -> Larger(price, worst)
  IN RoundToTick(bound, 1)

-----------------------------------------------------------------------------
(* add_position: the average moves only when the position grows.            *)
SameDirection(old, signed) == old # 0 /\ (old > 0) = (signed > 0)

NewAverageByFill(fill, signed) ==
  IF position.qty = 0 \/ SameDirection(position.qty, signed)
  THEN RoundToTick(fill, 1) ELSE position.avg

NewAverage(fill, signed) ==
  CASE position.qty = 0 -> RoundToTick(fill, 1)
    [] SameDirection(position.qty, signed) ->
         RoundToTick(position.avg * Size(position.qty) + fill * Size(signed),
                     Size(position.qty + signed))
    [] OTHER -> position.avg

AddPosition(fill, signed) ==
  LET new == position.qty + signed IN
  /\ position' = IF new = 0 THEN Flat ELSE [qty |-> new, avg |-> NewAverage(fill, signed)]
  /\ basis' = CASE new = 0 -> 0
                [] position.qty = 0 \/ SameDirection(position.qty, signed) ->
                     basis + fill * Size(signed)
                [] OTHER -> position.avg * Size(new)
  /\ adds' = CASE new = 0 -> 0
               [] SameDirection(position.qty, signed) -> adds + 1
               [] OTHER -> 1

Signed(side, lots) == IF side = "BUY" THEN lots ELSE -lots

(* Positions never turn over: the strategy trades one quantity, so a fill   *)
(* that reduces a position at most closes it.                               *)
Reduces(signed) ==
  position.qty # 0 /\ ~SameDirection(position.qty, signed) => Size(signed) <= Size(position.qty)

PlaceOrder(side, type, price, quote, lots) ==
  LET ltp == Ltp(quote, price)
      order == [side |-> side, type |-> type, price |-> price, ltp |-> ltp]
      refused(status) == row' = [order |-> order, status |-> status, fill |-> 0]
  IN /\ adds < MaxOrders /\ Reduces(Signed(side, lots))
     /\ \/ /\ ltp <= 0 \/ ~Sane(ltp) \/ (type = "LMT" /\ price <= 0)
           /\ refused("REJECTED")
           /\ UNCHANGED <<position, basis, adds>>
        \/ /\ Sane(ltp) /\ type = "LMT" /\ price > 0 /\ ~Crossed(side, price, ltp)
           /\ refused("CANCELED")
           /\ UNCHANGED <<position, basis, adds>>
        \/ /\ Sane(ltp)
           /\ type = "LMT" => (price > 0 /\ Crossed(side, price, ltp))
           /\ row' = [order |-> order, status |-> "COMPLETE",
                      fill |-> Fill(side, type, price, ltp)]
           /\ AddPosition(Fill(side, type, price, ltp), Signed(side, lots))

PaperNext ==
  \E side \in {"BUY", "SELL"}, type \in {"MKT", "LMT"}, price \in Limits,
     quote \in Quotes, lots \in Lots :
    PlaceOrder(side, type, price, quote, lots)

PaperSpec == PaperInit /\ [][PaperNext]_paperVars

-----------------------------------------------------------------------------
(* A paper fill is never better than the last price and, under a limit,     *)
(* never worse than it, but for the rounding after both: half a tick.       *)
FillBetweenLtpAndLimit ==
  row.status = "COMPLETE" =>
    LET o == row.order
        sign == IF o.side = "BUY" THEN 1 ELSE -1
    IN /\ 2 * sign * (row.fill - o.ltp) >= -PriceTick
       /\ o.type = "LMT" => 2 * sign * (row.fill - o.price) <= PriceTick

(* The average price that unrealised P&L is computed from stays within half *)
(* a tick of the true cost for each fill averaged into it, however fills of *)
(* both directions follow each other (add_position).                        *)
AverageNearCost ==
  2 * Size(position.avg * Size(position.qty) - basis)
    <= adds * PriceTick * Size(position.qty)
=============================================================================
