--------------------------- MODULE PaperDeskProofs --------------------------
(***************************************************************************)
(* The paper trader's books.  Its fills and averages are off by the        *)
(* rounding only, the matching with the broker's book takes the nearest    *)
(* legs, statistics are those of the trades, and row numbers grow, for     *)
(* every price, tick, list of trades and book; and with MarketDataProofs,  *)
(* the composition of all of it.                                           *)
(***************************************************************************)
EXTENDS PaperDesk, MarketDataProofs

(* Fills and averages.                                                      *)
(* Rounding to the tick is off by half a tick at most, the number rounded   *)
(* being a fraction n / d.                                                  *)
LEMMA RoundTyped ==
  ASSUME NEW n \in Int, NEW d \in Nat \ {0}
  PROVE  /\ RoundToTick(n, d) \in Int
         /\ 2 * Size(RoundToTick(n, d) * d - n) <= PriceTick * d
<1> DEFINE k == d * PriceTick
           q == n \div k
           rem == n % k
           r == RoundToTick(n, d)
<1>1. k \in Nat \ {0} /\ PriceTick \in Nat \ {0}
  BY PaperAssumption, ProductPos
<1>2. q \in Int /\ rem \in 0 .. k - 1 /\ n = k * q + rem
  <2> HIDE DEF k
  <2> QED BY <1>1, Division
<1>3. \/ r = PriceTick * q /\ 2 * rem <= k
      \/ r = PriceTick * (q + 1) /\ k <= 2 * rem
  <2>1. r = PriceTick * (IF 2 * rem > k \/ (2 * rem = k /\ q % 2 = 1) THEN q + 1 ELSE q)
    BY DEF RoundToTick
  <2> HIDE DEF q, rem, r, k
  <2> QED BY <1>1, <1>2, <2>1
<1>4. \A m \in Int : (PriceTick * m) * d = k * m /\ PriceTick * m \in Int
  BY <1>1, Assoc
<1>5. k * (q + 1) = k * q + k /\ k * q \in Int
  <2> HIDE DEF k, q
  <2> QED BY <1>1, <1>2, Assoc
<1> DEFINE kq == k * q
<1>6. PriceTick * d = k
  BY <1>1
<1>7. r \in Int
  <2> HIDE DEF q, rem, r, k
  <2> QED BY <1>2, <1>3, <1>4
<1>8. CASE r = PriceTick * q /\ 2 * rem <= k
  <2>1. r * d = kq
    <3> HIDE DEF q, rem, r, k
    <3> QED BY <1>8, <1>2, <1>4
  <2> HIDE DEF q, rem, r, k
  <2>2. kq \in Int /\ n = kq + rem
    BY <1>2, <1>5
  <2> HIDE DEF kq
  <2>3. r * d - n = - rem
    BY <1>1, <1>2, <2>1, <2>2
  <2>4. 2 * Size(r * d - n) <= k
    BY <1>1, <1>2, <2>3, <1>8 DEF Size
  <2> QED BY <1>6, <1>7, <2>4 DEF r
<1>9. CASE r = PriceTick * (q + 1) /\ k <= 2 * rem
  <2>1. r * d = kq + k
    <3> HIDE DEF q, rem, r, k
    <3> QED BY <1>9, <1>2, <1>4, <1>5
  <2> HIDE DEF q, rem, r, k
  <2>2. kq \in Int /\ n = kq + rem
    BY <1>2, <1>5
  <2> HIDE DEF kq
  <2>3. r * d - n = k - rem
    BY <1>1, <1>2, <2>1, <2>2
  <2>4. 2 * Size(r * d - n) <= k
    BY <1>1, <1>2, <2>3, <1>9 DEF Size
  <2> QED BY <1>6, <1>7, <2>4 DEF r
<1> QED BY <1>3, <1>8, <1>9

-----------------------------------------------------------------------------
(* Fills.                                                                   *)
LEMMA SlipTyped ==
  ASSUME NEW ltp \in Int
  PROVE  Slip(ltp) \in Nat
<1>1. (ltp * 3) \div PctDen \in Int /\ ltp \div PctDen \in Int
  BY PaperAssumption, Division
<1>2. \A x \in Int, m \in Nat : Larger(x, m) \in Nat
  BY DEF Larger
<1> QED BY <1>1, <1>2, PaperAssumption DEF Slip

LEMMA FillTyped ==
  ASSUME NEW side \in {"BUY", "SELL"}, NEW type \in {"MKT", "LMT"},
         NEW price \in Int, NEW ltp \in Int,
         type = "LMT" => Crossed(side, price, ltp)
  PROVE  LET fill == Fill(side, type, price, ltp)
             sign == IF side = "BUY" THEN 1 ELSE -1
         IN /\ fill \in Int
            /\ 2 * sign * (fill - ltp) >= -PriceTick
            /\ type = "LMT" => 2 * sign * (fill - price) <= PriceTick
<1> DEFINE slip == Slip(ltp)
           worst == IF side = "BUY" THEN ltp + slip ELSE ltp - slip
           bound == CASE type = "MKT" -> worst
                      [] type = "LMT" /\ side = "BUY" -> Lesser(price, worst)
                      [] OTHER -> Larger(price, worst)
           fill == Fill(side, type, price, ltp)
<1>1. slip \in Nat
  BY SlipTyped
<1>2. fill = RoundToTick(bound, 1)
  BY DEF Fill
<1> HIDE DEF slip, fill
<1>3. /\ bound \in Int
      /\ side = "BUY" => ltp <= bound /\ (type = "LMT" => bound <= price)
      /\ side = "SELL" => bound <= ltp /\ (type = "LMT" => price <= bound)
  BY <1>1 DEF Crossed, Lesser, Larger
<1> HIDE DEF bound
<1>4. fill \in Int /\ 2 * Size(fill * 1 - bound) <= PriceTick * 1
  BY <1>2, <1>3, RoundTyped
<1>5. 2 * (fill - bound) <= PriceTick /\ 2 * (bound - fill) <= PriceTick
  BY <1>3, <1>4, PaperAssumption DEF Size
<1>6. CASE side = "BUY"
  <2>1. 2 * 1 * (fill - ltp) >= -PriceTick
    BY <1>3, <1>4, <1>5, <1>6, PaperAssumption
  <2>2. type = "LMT" => 2 * 1 * (fill - price) <= PriceTick
    BY <1>3, <1>4, <1>5, <1>6, PaperAssumption
  <2> QED BY <1>4, <1>6, <2>1, <2>2 DEF fill
<1>7. CASE side = "SELL"
  <2>1. 2 * (-1) * (fill - ltp) >= -PriceTick
    BY <1>3, <1>4, <1>5, <1>7, PaperAssumption
  <2>2. type = "LMT" => 2 * (-1) * (fill - price) <= PriceTick
    BY <1>3, <1>4, <1>5, <1>7, PaperAssumption
  <2> QED BY <1>4, <1>7, <2>1, <2>2 DEF fill
<1> QED BY <1>6, <1>7

-----------------------------------------------------------------------------
(* The position and its cost.                                               *)
PositionTyped ==
  /\ position \in [qty : Int, avg : Int] /\ basis \in Int /\ adds \in Nat
  /\ position.qty = 0 => position.avg = 0 /\ basis = 0 /\ adds = 0

PaperInv == PositionTyped /\ AverageNearCost /\ FillBetweenLtpAndLimit

LEMMA PaperStarts == PaperInit => PaperInv
<1> SUFFICES ASSUME PaperInit PROVE PaperInv
  OBVIOUS
<1>1. position = [qty |-> 0, avg |-> 0] /\ basis = 0 /\ adds = 0 /\ row.status = "none"
  BY DEF PaperInit, Flat, NoRow
<1>2. PositionTyped
  BY <1>1 DEF PositionTyped
<1>3. AverageNearCost
  BY <1>1, PaperAssumption DEF AverageNearCost, Size
<1> QED BY <1>1, <1>2, <1>3 DEF FillBetweenLtpAndLimit, PaperInv

(* Rounding the weighted average adds at most half a tick for each unit.    *)
LEMMA AverageStep ==
  ASSUME NEW avg \in Int, NEW q \in Nat, NEW cost \in Int, NEW n \in Nat,
         NEW fill \in Int, NEW s \in Nat, q + s \in Nat \ {0},
         2 * Size(avg * q - cost) <= n * PriceTick * q
  PROVE  2 * Size(RoundToTick(avg * q + fill * s, q + s) * (q + s) - (cost + fill * s))
           <= (n + 1) * PriceTick * (q + s)
<1> DEFINE d == q + s
           owed == avg * q
           paid == fill * s
           new == RoundToTick(owed + paid, d) * d
           half == PriceTick * d
           part == n * PriceTick * q
           old == n * PriceTick * d
<1>1. owed \in Int /\ paid \in Int /\ d \in Nat \ {0}
  OBVIOUS
<1>2. 2 * Size(new - (owed + paid)) <= half /\ new \in Int
  <2>1. owed + paid \in Int
    BY <1>1
  <2> HIDE DEF owed, paid, d
  <2>2. RoundToTick(owed + paid, d) \in Int
    BY <1>1, <2>1, RoundTyped
  <2> QED BY <1>1, <2>1, <2>2, RoundTyped
<1>3. half \in Int /\ part \in Int /\ old \in Int /\ part <= old
  <2>1. n * PriceTick \in Nat
    BY PaperAssumption, Product
  <2>2. part <= old
    <3> DEFINE t == n * PriceTick
    <3> HIDE DEF t
    <3>1. t * q <= t * d
      BY <2>1, Monotone DEF t
    <3> QED BY <3>1 DEF t
  <2>3. half \in Int /\ part \in Int /\ old \in Int
    BY <2>1, PaperAssumption
  <2> QED BY <2>2, <2>3
<1>4. (n + 1) * PriceTick * d = old + half
  BY PaperAssumption, <1>1
<1>5. 2 * Size(owed - cost) <= part
  OBVIOUS
<1> HIDE DEF new, owed, paid, half, part, old, d
<1>6. 2 * Size(new - (cost + paid)) <= old + half
  BY <1>1, <1>2, <1>3, <1>5 DEF Size
<1> QED BY <1>4, <1>6 DEF new, owed, paid, d

(* A fill opens, adds to, reduces, closes or turns a position.              *)
LEMMA AddingKeepsAverage ==
  ASSUME PositionTyped, AverageNearCost,
         NEW fill \in Int, NEW signed \in Int, signed # 0,
         AddPosition(fill, signed)
  PROVE  PositionTyped' /\ AverageNearCost'
<1> DEFINE q == position.qty
           avg == position.avg
           new == q + signed
<1>1. q \in Int /\ avg \in Int /\ new \in Int /\ basis \in Int /\ adds \in Nat
  BY DEF PositionTyped
<1>2. q = 0 => basis = 0 /\ adds = 0
  BY DEF PositionTyped
<1>3. 2 * Size(avg * Size(q) - basis) <= adds * PriceTick * Size(q)
  BY DEF AverageNearCost
<1>4. /\ position' = IF new = 0 THEN Flat ELSE [qty |-> new, avg |-> NewAverage(fill, signed)]
      /\ basis' = CASE new = 0 -> 0
                    [] q = 0 \/ SameDirection(q, signed) -> basis + fill * Size(signed)
                    [] OTHER -> avg * Size(new)
      /\ adds' = CASE new = 0 -> 0
                   [] SameDirection(q, signed) -> adds + 1
                   [] OTHER -> 1
      /\ NewAverage(fill, signed) =
           CASE q = 0 -> RoundToTick(fill, 1)
             [] SameDirection(q, signed) ->
                  RoundToTick(avg * Size(q) + fill * Size(signed), Size(new))
             [] OTHER -> avg
  BY DEF AddPosition, NewAverage
<1> HIDE DEF q, avg, new
<1>5. \A x \in Int : Size(x) \in Nat /\ (x # 0 => Size(x) \in Nat \ {0})
  BY DEF Size
<1>6. ASSUME new # 0, NEW a \in Int, NEW c \in Int, NEW n \in Nat,
             position' = [qty |-> new, avg |-> a], basis' = c, adds' = n,
             2 * Size(a * Size(new) - c) <= n * PriceTick * Size(new)
      PROVE  PositionTyped' /\ AverageNearCost'
  <2>1. position'.qty = new /\ position'.avg = a
    BY <1>6
  <2> QED BY <1>1, <1>6, <2>1 DEF PositionTyped, AverageNearCost
<1>7. CASE new = 0
  <2>other. q # 0 /\ ~SameDirection(q, signed)
    BY <1>1, <1>7 DEF SameDirection, new
  <2>1. position' = Flat /\ basis' = 0 /\ adds' = 0
    BY ONLY <1>4, <1>7, <2>other
  <2>flat. /\ position' = [qty |-> 0, avg |-> 0]
           /\ position'.qty = 0 /\ position'.avg = 0
    BY ONLY <2>1 DEF Flat
  <2>2. position'.avg * Size(position'.qty) - basis' = 0
    BY <2>1, <2>flat DEF Size
  <2>3. adds' * PriceTick * Size(position'.qty) = 0
    BY <2>1, <2>flat, PaperAssumption DEF Size
  <2>4. Size(0) = 0
    BY DEF Size
  <2> QED BY <2>1, <2>flat, <2>2, <2>3, <2>4 DEF PositionTyped, AverageNearCost
<1>8. CASE new # 0 /\ q = 0
  <2>1. ~SameDirection(q, signed) /\ new = signed /\ signed # 0
    BY <1>8 DEF SameDirection, new
  <2> DEFINE a == RoundToTick(fill, 1)
             s == Size(signed)
  <2>2. /\ position' = [qty |-> new, avg |-> a] /\ adds' = 1
        /\ basis' = basis + fill * s
    BY <1>4, <1>8, <2>1
  <2>3. a \in Int /\ s \in Nat \ {0} /\ fill * s \in Int
    <3>1. a \in Int
      BY RoundTyped
    <3>2. s \in Nat \ {0}
      BY <1>5, <2>1
    <3> HIDE DEF s
    <3> QED BY <3>1, <3>2
  <2>4. 2 * Size(a * 1 - fill) <= PriceTick * 1
    BY RoundTyped
  <2> HIDE DEF a, s
  <2>5. 2 * Size(a * s - fill * s) <= 1 * PriceTick * s
    <3>1. 2 * (a - fill) <= PriceTick /\ 2 * (fill - a) <= PriceTick
      BY <2>3, <2>4, PaperAssumption DEF Size
    <3>2. s * (2 * (a - fill)) <= s * PriceTick /\ s * (2 * (fill - a)) <= s * PriceTick
      BY <2>3, <3>1, Monotone, PaperAssumption
    <3>3. /\ s * (2 * (a - fill)) = 2 * (a * s - fill * s)
          /\ s * (2 * (fill - a)) = 2 * (fill * s - a * s)
          /\ s * PriceTick = 1 * PriceTick * s
      BY <2>3, PaperAssumption
    <3> DEFINE held == a * s
               paid == fill * s
               half == s * PriceTick
    <3>4. held \in Int /\ paid \in Int /\ half \in Int
      BY <2>3, PaperAssumption
    <3>5. 2 * (held - paid) <= half /\ 2 * (paid - held) <= half
      BY <3>2, <3>3
    <3> HIDE DEF held, paid, half
    <3>6. 2 * Size(held - paid) <= half
      BY <3>4, <3>5, SizeBounded
    <3> QED BY <3>3, <3>6 DEF held, paid, half
  <2>6. basis' = fill * s
    BY <1>2, <1>8, <2>2, <2>3
  <2>7. Size(new) = s
    BY <2>1 DEF s
  <2> QED BY <1>6, <1>8, <2>2, <2>3, <2>5, <2>6, <2>7
<1>9. CASE new # 0 /\ q # 0 /\ SameDirection(q, signed)
  <2> DEFINE a == RoundToTick(avg * Size(q) + fill * Size(signed), Size(new))
             c == basis + fill * Size(signed)
  <2>1. /\ position' = [qty |-> new, avg |-> a] /\ adds' = adds + 1
        /\ basis' = c
    BY <1>4, <1>9
  <2>2. Size(new) = Size(q) + Size(signed) /\ Size(new) \in Nat \ {0}
    BY <1>1, <1>9 DEF SameDirection, Size, new
  <2>3. Size(q) \in Nat /\ Size(signed) \in Nat
    BY <1>1, <1>5
  <2>4. a \in Int /\ c \in Int
    <3> DEFINE x == Size(q)
               y == Size(signed)
    <3> HIDE DEF x, y
    <3>1. avg * x + fill * y \in Int /\ basis + fill * y \in Int
      BY <1>1, <2>3 DEF x, y
    <3> QED BY <3>1, <2>2, RoundTyped DEF x, y
  <2>5. 2 * Size(a * Size(new) - c) <= (adds + 1) * PriceTick * Size(new)
    BY <1>1, <1>3, <2>2, <2>3, AverageStep
  <2> HIDE DEF a, c
  <2> QED BY <1>1, <1>6, <1>9, <2>1, <2>4, <2>5
<1>10. CASE new # 0 /\ q # 0 /\ ~SameDirection(q, signed)
  <2> DEFINE c == avg * Size(new)
  <2>1. /\ position' = [qty |-> new, avg |-> avg] /\ adds' = 1 /\ basis' = c
    BY <1>4, <1>10
  <2>2. c \in Int /\ Size(new) \in Nat
    BY <1>1, <1>5
  <2>3. 2 * Size(c - c) <= 1 * PriceTick * Size(new)
    <3>1. PriceTick * Size(new) \in Nat
      BY <2>2, PaperAssumption, Product
    <3>2. Size(c - c) = 0
      <4> HIDE DEF c
      <4> QED BY <2>2 DEF Size
    <3> QED BY <2>2, <3>1, <3>2, PaperAssumption
  <2>4. 2 * Size(avg * Size(new) - c) <= 1 * PriceTick * Size(new)
    BY <2>3
  <2> HIDE DEF c
  <2> QED BY <1>1, <1>6, <1>10, <2>1, <2>2, <2>4
<1> QED BY <1>7, <1>8, <1>9, <1>10

(* One order of the paper desk.                                             *)
LEMMA PaperStep == PaperInv /\ [PaperNext]_paperVars => PaperInv'
<1> SUFFICES ASSUME PositionTyped, AverageNearCost, FillBetweenLtpAndLimit,
                    [PaperNext]_paperVars
             PROVE  (PositionTyped /\ AverageNearCost /\ FillBetweenLtpAndLimit)'
  BY DEF PaperInv
<1>1. ASSUME UNCHANGED <<position, basis, adds>>
      PROVE  PositionTyped' /\ AverageNearCost'
  BY <1>1 DEF PositionTyped, AverageNearCost
<1>2. CASE UNCHANGED paperVars
  BY <1>1, <1>2 DEF paperVars, FillBetweenLtpAndLimit
<1>3. ASSUME NEW side \in {"BUY", "SELL"}, NEW type \in {"MKT", "LMT"},
             NEW price \in Limits, NEW quote \in Quotes, NEW lots \in Lots,
             PlaceOrder(side, type, price, quote, lots)
      PROVE  (PositionTyped /\ AverageNearCost /\ FillBetweenLtpAndLimit)'
  <2> DEFINE ltp == Ltp(quote, price)
             order == [side |-> side, type |-> type, price |-> price, ltp |-> ltp]
             fill == Fill(side, type, price, ltp)
             signed == Signed(side, lots)
             refused(status) == row' = [order |-> order, status |-> status, fill |-> 0]
  <2>1. price \in Int /\ ltp \in Int /\ signed \in Int /\ signed # 0
    BY PaperAssumption DEF Ltp, Signed
  <2>2. \/ /\ refused("REJECTED") \/ refused("CANCELED")
           /\ UNCHANGED <<position, basis, adds>>
        \/ /\ type = "LMT" => Crossed(side, price, ltp)
           /\ row' = [order |-> order, status |-> "COMPLETE", fill |-> fill]
           /\ AddPosition(fill, signed)
    BY <1>3 DEF PlaceOrder
  <2>3. CASE /\ refused("REJECTED") \/ refused("CANCELED")
             /\ UNCHANGED <<position, basis, adds>>
    <3>1. row'.status # "COMPLETE"
      BY <2>3
    <3> QED BY <1>1, <2>3, <3>1 DEF FillBetweenLtpAndLimit
  <2>4. CASE /\ type = "LMT" => Crossed(side, price, ltp)
             /\ row' = [order |-> order, status |-> "COMPLETE", fill |-> fill]
             /\ AddPosition(fill, signed)
    <3>1. /\ row'.order.side = side /\ row'.order.type = type
          /\ row'.order.price = price /\ row'.order.ltp = ltp
          /\ row'.fill = fill
      BY <2>4
    <3> HIDE DEF ltp, signed
    <3>2. /\ fill \in Int
          /\ LET sign == IF side = "BUY" THEN 1 ELSE -1
             IN /\ 2 * sign * (fill - ltp) >= -PriceTick
                /\ type = "LMT" => 2 * sign * (fill - price) <= PriceTick
      BY <2>1, <2>4, FillTyped
    <3> HIDE DEF fill, order
    <3>3. FillBetweenLtpAndLimit'
      BY <3>1, <3>2 DEF FillBetweenLtpAndLimit
    <3> QED BY <2>1, <2>4, <3>2, <3>3, AddingKeepsAverage
  <2> QED BY <2>2, <2>3, <2>4
<1> QED BY <1>2, <1>3 DEF PaperNext

(* For every quote, limit, side and tick a paper fill is no better than the *)
(* last price and no worse than its limit but for half a tick (_fill).      *)
THEOREM FillCorrect == PaperSpec => []FillBetweenLtpAndLimit
  BY PaperStarts, PaperStep, PTL DEF PaperSpec, PaperInv

(* However fills follow each other, the average times the quantity is       *)
(* within half a tick for each fill and unit of the cost (add_position).    *)
THEOREM AverageCorrect == PaperSpec => []AverageNearCost
  BY PaperStarts, PaperStep, PTL DEF PaperSpec, PaperInv

-----------------------------------------------------------------------------
(* Reconciliation.  So far every pair is of the nearest leg that was left,  *)
(* and what is left over on one side has nothing to join on the other.      *)
SheetsTyped ==
  /\ rows.engine \in Seq(Row) /\ rows.broker \in Seq(Row)
  /\ rows = [engine |-> rows.engine, broker |-> rows.broker]

Paired == {e \in DOMAIN paired : paired[e] # 0}

NearestTaken(e) ==
  /\ Joinable(e, paired[e])
  /\ \A b \in Unclaimed : Joinable(e, b) => Apart(e, b) >= Apart(e, paired[e])
  /\ e \in flagged <=> Drifted(e, paired[e])

MatchInv ==
  /\ SheetsTyped
  /\ paired \in Seq(Nat) /\ Len(paired) <= Len(rows.engine)
  /\ flagged \subseteq DOMAIN paired
  /\ \A e, f \in Paired : paired[e] = paired[f] => e = f
  /\ \A e \in Paired : NearestTaken(e)
  /\ \A e \in DOMAIN paired \ Paired : \A b \in Unclaimed : ~Joinable(e, b)

LEMMA LegsTyped ==
  ASSUME SheetsTyped
  PROVE  /\ Legs("engine") \subseteq Nat \ {0} /\ Legs("broker") \subseteq Nat \ {0}
         /\ \A e \in Legs("engine"), b \in Legs("broker") : Apart(e, b) \in Nat
<1>1. DOMAIN rows.engine \subseteq Nat \ {0} /\ DOMAIN rows.broker \subseteq Nat \ {0}
  BY SequenceTyped DEF SheetsTyped
<1>2. Legs("engine") \subseteq DOMAIN rows.engine /\ Legs("broker") \subseteq DOMAIN rows.broker
  <2>1. rows["engine"] = rows.engine /\ rows["broker"] = rows.broker
    OBVIOUS
  <2> QED BY <2>1 DEF Legs
<1>3. \A e \in DOMAIN rows.engine, b \in DOMAIN rows.broker : rows.engine[e].at \in Nat
        /\ rows.broker[b].at \in Nat
  <2>1. /\ \A e \in DOMAIN rows.engine : rows.engine[e] \in Row
        /\ \A b \in DOMAIN rows.broker : rows.broker[b] \in Row
    BY SequenceTyped DEF SheetsTyped
  <2>2. \A r \in Row : r.at \in Nat
    BY ReconcileAssumption DEF Row
  <2> QED BY <2>1, <2>2
<1>4. \A x, y \in Nat : Size(x - y) \in Nat
  BY DEF Size
<1> QED BY <1>1, <1>2, <1>3, <1>4 DEF Apart

LEMMA CandidatesTyped ==
  ASSUME SheetsTyped, NEW e
  PROVE  Candidates(e) \subseteq Nat \ {0}
<1> SUFFICES ASSUME NEW c \in Candidates(e) PROVE c \in Nat \ {0}
  OBVIOUS
<1>1. c \in Legs("broker")
  BY DEF Candidates, Unclaimed
<1> QED BY <1>1, LegsTyped

(* The leg that is taken is there, and none that could be is nearer.        *)
LEMMA BestIsNearest ==
  ASSUME MatchInv, NEW e, Candidates(e) # {}
  PROVE  /\ BestOf(e) \in Candidates(e)
         /\ \A c \in Candidates(e) : Apart(e, c) >= Apart(e, BestOf(e))
<1> DEFINE C == Candidates(e)
           w == [b \in C |-> Apart(e, b)]
<1>1. C \in SUBSET Nat /\ \A b \in C : Apart(e, b) \in Nat
  <2>1. ASSUME NEW b \in C PROVE e \in Legs("engine") /\ b \in Legs("broker")
    BY DEF Candidates, Joinable
  <2> QED BY <2>1, LegsTyped DEF MatchInv
<1>2. \A b \in C : w[b] = Apart(e, b)
  OBVIOUS
<1>0. C # {}
  OBVIOUS
<1> HIDE DEF C, w
<1>3. \E b \in C : \A c \in C \ {b} : w[b] < w[c] \/ (w[b] = w[c] /\ b < c)
  BY <1>0, <1>1, <1>2, LexicographicLeast
<1>4. \E b \in C : \A c \in C \ {b} : Apart(e, b) < Apart(e, c)
        \/ (Apart(e, b) = Apart(e, c) /\ b < c)
  BY <1>2, <1>3
<1>5. /\ BestOf(e) \in C
      /\ \A c \in C \ {BestOf(e)} :
           Apart(e, BestOf(e)) < Apart(e, c) \/ (Apart(e, BestOf(e)) = Apart(e, c) /\ BestOf(e) < c)
  BY <1>4 DEF BestOf, C
<1> QED BY <1>1, <1>5 DEF C

LEMMA MatchStarts == ReconcileInit => MatchInv
<1> SUFFICES ASSUME ReconcileInit PROVE MatchInv
  OBVIOUS
<1>1. SheetsTyped
  <2>1. BoundedSeq(Row, MaxRows) \subseteq Seq(Row)
    BY ReconcileAssumption DEF BoundedSeq, SeqOf
  <2>2. PICK r : r = rows
    OBVIOUS
  <2>3. r.engine \in BoundedSeq(Row, MaxRows) /\ r.broker \in BoundedSeq(Row, MaxRows)
        /\ r = [engine |-> r.engine, broker |-> r.broker]
    BY <2>2 DEF ReconcileInit
  <2> QED BY <2>1, <2>2, <2>3 DEF SheetsTyped
<1>2. paired = <<>> /\ DOMAIN paired = {} /\ Len(paired) = 0 /\ paired \in Seq(Nat)
  BY DEF ReconcileInit
<1>3. Len(rows.engine) \in Nat
  BY <1>1 DEF SheetsTyped
<1>4. flagged = {}
  BY DEF ReconcileInit
<1> QED BY <1>1, <1>2, <1>3, <1>4 DEF MatchInv, Paired

(* A leg more: who had a nearest partner keeps it, as fewer are left.       *)
LEMMA MatchStep == MatchInv /\ [ReconcileNext]_reconcileVars => MatchInv'
<1> SUFFICES ASSUME MatchInv, [ReconcileNext]_reconcileVars PROVE MatchInv'
  OBVIOUS
<1>1. CASE UNCHANGED reconcileVars
  BY <1>1 DEF reconcileVars, MatchInv, SheetsTyped, Paired, NearestTaken, Joinable, Apart,
    Drifted, Legs, Unclaimed
<1>2. CASE MatchLeg
  <2>20. PICK e : e = Len(paired) + 1
    OBVIOUS
  <2>0. Candidates(e) \subseteq Nat \ {0}
    BY CandidatesTyped DEF MatchInv
  <2>1. PICK b : /\ paired' = Append(paired, b) /\ e <= Len(rows.engine) /\ rows' = rows
                 /\ \/ b = 0 /\ Candidates(e) = {} /\ flagged' = flagged
                    \/ /\ Candidates(e) # {} /\ b = BestOf(e)
                       /\ flagged' = IF Drifted(e, b) THEN flagged \union {e} ELSE flagged
    BY <1>2, <2>20 DEF MatchLeg
  <2>2. b # 0 => /\ b \in Candidates(e) /\ \A c \in Candidates(e) : Apart(e, c) >= Apart(e, b)
                 /\ flagged' = IF Drifted(e, b) THEN flagged \union {e} ELSE flagged
    BY <2>1, BestIsNearest
  <2>3. b = 0 => Candidates(e) = {} /\ flagged' = flagged
    <3>1. BestOf(e) # 0 \/ Candidates(e) = {}
      BY <2>0, BestIsNearest
    <3> QED BY <2>1, <3>1
  <2>4. b \in Nat
    <3> QED BY <2>0, <2>2
  <2>5. /\ paired \in Seq(Nat) /\ Len(paired) \in Nat /\ DOMAIN paired = 1 .. Len(paired)
        /\ paired' \in Seq(Nat) /\ Len(paired') = e
        /\ DOMAIN paired' = DOMAIN paired \union {e} /\ e \notin DOMAIN paired
        /\ paired'[e] = b /\ \A f \in DOMAIN paired : paired'[f] = paired[f]
    BY <2>1, <2>4, <2>20 DEF MatchInv
  <2>6. Unclaimed' = Unclaimed \ {b}
    <3>1. Range(paired') = Range(paired) \union {b}
      BY <2>5 DEF Range
    <3>2. Legs("broker")' = Legs("broker")
      BY <2>1 DEF Legs
    <3> QED BY <3>1, <3>2 DEF Unclaimed
  <2>7. \A f, c : /\ Joinable(f, c)' <=> Joinable(f, c)
                  /\ Drifted(f, c)' <=> Drifted(f, c)
                  /\ Apart(f, c)' = Apart(f, c)
    BY <2>1 DEF Joinable, Drifted, Apart, Legs
  <2>8. Paired' = Paired \union (IF b = 0 THEN {} ELSE {e})
    BY <2>5 DEF Paired
  <2>9. \A f \in DOMAIN paired : f \in flagged' <=> f \in flagged
    BY <2>2, <2>3, <2>5
  <2>10. e \notin flagged
    BY <2>5 DEF MatchInv
  <2>11. flagged' \subseteq DOMAIN paired'
    BY <2>2, <2>3, <2>5 DEF MatchInv
  <2>12. \A f \in Paired : f \in DOMAIN paired /\ paired[f] \notin Unclaimed
    BY DEF Paired, Unclaimed, Range
  <2>13. b # 0 => b \in Unclaimed /\ Joinable(e, b)
    BY <2>2 DEF Candidates
  <2>14. \A f, g \in Paired' : paired'[f] = paired'[g] => f = g
    BY <2>5, <2>8, <2>12, <2>13 DEF MatchInv
  <2>15. ASSUME NEW f \in Paired PROVE NearestTaken(f)'
    <3>1. paired'[f] = paired[f] /\ f \in DOMAIN paired
      BY <2>5, <2>12
    <3>2. NearestTaken(f)
      BY DEF MatchInv
    <3> QED BY <2>6, <2>7, <2>9, <3>1, <3>2 DEF NearestTaken
  <2>16. ASSUME b # 0 PROVE NearestTaken(e)'
    <3>1. Joinable(e, b)'
      BY <2>5, <2>7, <2>13, <2>16
    <3>2. \A c \in Unclaimed' : Joinable(e, c) => Apart(e, c) >= Apart(e, b)
      BY <2>2, <2>6, <2>16 DEF Candidates
    <3>3. e \in flagged' <=> Drifted(e, b)
      BY <2>2, <2>10, <2>16
    <3> QED BY <2>5, <2>7, <3>1, <3>2, <3>3 DEF NearestTaken
  <2>17. \A f \in DOMAIN paired' \ Paired' : \A c \in Unclaimed' : ~Joinable(f, c)'
    <3> SUFFICES ASSUME NEW f \in DOMAIN paired' \ Paired', NEW c \in Unclaimed'
                 PROVE  ~Joinable(f, c)
      BY <2>7
    <3>1. CASE f = e
      BY <2>3, <2>6, <2>8, <3>1 DEF Candidates
    <3>2. CASE f # e
      BY <2>5, <2>6, <2>8, <3>2 DEF MatchInv
    <3> QED BY <3>1, <3>2
  <2>18. \A f \in Paired' : NearestTaken(f)'
    BY <2>8, <2>15, <2>16
  <2>19. SheetsTyped' /\ Len(paired') <= Len(rows'.engine)
    BY <2>1, <2>5 DEF MatchInv, SheetsTyped
  <2> QED BY <2>5, <2>11, <2>14, <2>17, <2>18, <2>19 DEF MatchInv
<1> QED BY <1>1, <1>2 DEF ReconcileNext

LEMMA MatchMeans == MatchInv => MatchingSound
<1> SUFFICES ASSUME MatchInv PROVE MatchingSound
  OBVIOUS
<1> DEFINE T == {paired[e] : e \in Paired}
           f == [e \in Paired |-> paired[e]]
<1>1. IsFiniteSet(Paired)
  <2>1. DOMAIN paired = 1 .. Len(paired) /\ Len(paired) \in Nat
    BY DEF MatchInv
  <2>2. IsFiniteSet(1 .. Len(paired))
    BY <2>1, FS_Interval
  <2> QED BY <2>1, <2>2, FS_Subset DEF Paired
<1>2. f \in Surjection(Paired, T) /\ f \in Injection(Paired, T)
  BY DEF MatchInv, Surjection, Injection, IsInjective
<1>3. Cardinality(T) = Cardinality(Paired)
  <2> HIDE DEF f, T
  <2> QED BY <1>1, <1>2, FS_Surjection
<1> QED BY <1>3 DEF MatchInv, NearestTaken, MatchingSound, Paired

(* For any two books, window and threshold the report of reconcile() pairs  *)
(* no broker leg twice, takes the nearest, flags what drifted and leaves    *)
(* over nothing that could have been paired.                                *)
THEOREM MatchingCorrect == ReconcileSpec => []MatchingSound
BY MatchStarts, MatchStep, MatchMeans, PTL DEF ReconcileSpec

-----------------------------------------------------------------------------
(* One more trade on a list.                                                *)
Trades == [strategy : Strategies, pnl : Int]

LEMMA TradeAppended ==
  ASSUME NEW ts \in Seq(Trades), NEW t \in Trades
  PROVE  /\ Len(ts) \in Nat /\ DOMAIN ts = 1 .. Len(ts)
         /\ \A i \in 1 .. Len(ts) : ts[i] \in Trades
         /\ Append(ts, t) \in Seq(Trades) /\ Len(Append(ts, t)) = Len(ts) + 1
         /\ DOMAIN Append(ts, t) = 1 .. (Len(ts) + 1)
         /\ \A i \in 1 .. Len(ts) : Append(ts, t)[i] = ts[i]
         /\ Append(ts, t)[Len(ts) + 1] = t
  OBVIOUS

LEMMA PnlsTyped ==
  ASSUME NEW ts \in Seq(Trades)
  PROVE  \A i \in 1 .. Len(ts) : Pnls(ts)[i] \in Int /\ Pnls(ts)[i] = ts[i].pnl
<1>1. DOMAIN ts = 1 .. Len(ts) /\ \A i \in 1 .. Len(ts) : ts[i] \in Trades
  OBVIOUS
<1> QED BY <1>1 DEF Pnls, Trades

LEMMA SumAppended ==
  ASSUME NEW ts \in Seq(Trades), NEW t \in Trades, NEW S \in SUBSET (1 .. Len(ts))
  PROVE  LET us == Append(ts, t) IN
         /\ SumFunctionOnSet(Pnls(ts), S) \in Int
         /\ SumFunctionOnSet(Pnls(us), S) = SumFunctionOnSet(Pnls(ts), S)
         /\ SumFunctionOnSet(Pnls(us), S \union {Len(us)}) =
              SumFunctionOnSet(Pnls(ts), S) + t.pnl
<1> DEFINE us == Append(ts, t)
           n == Len(ts)
           f == Pnls(ts)
           g == Pnls(us)
<1>1. /\ n \in Nat /\ us \in Seq(Trades) /\ Len(us) = n + 1
      /\ \A i \in 1 .. n : us[i] = ts[i]
      /\ us[n + 1] = t /\ n + 1 \notin S
  BY TradeAppended
<1>2. IsFiniteSet(S)
  BY <1>1, PartOfInterval
<1> HIDE DEF us, n
<1>3. /\ \A i \in S : f[i] \in Int /\ f[i] = g[i]
      /\ g[n + 1] \in Int /\ g[n + 1] = t.pnl
  BY <1>1, PnlsTyped DEF n
<1> HIDE DEF f, g
<1>4. SumFunctionOnSet(f, S) \in Int
  BY <1>2, <1>3, SumTyped
<1>5. SumFunctionOnSet(g, S) = SumFunctionOnSet(f, S)
  BY <1>2, <1>3, SumsEqual
<1>6. SumFunctionOnSet(g, S \union {n + 1}) = g[n + 1] + SumFunctionOnSet(g, S)
  BY <1>1, <1>2, <1>3, SumWith
<1>7. SumFunctionOnSet(g, S \union {Len(us)}) = SumFunctionOnSet(f, S) + t.pnl
  BY <1>1, <1>3, <1>4, <1>5, <1>6
<1> QED BY <1>4, <1>5, <1>7 DEF f, g, us

LEMMA WinnersAppended ==
  ASSUME NEW ts \in Seq(Trades), NEW t \in Trades, NEW S \in SUBSET (1 .. Len(ts))
  PROVE  LET us == Append(ts, t) IN
         /\ Winners(ts, S) \in Nat
         /\ Winners(us, S) = Winners(ts, S)
         /\ Winners(us, S \union {Len(us)}) = Winners(ts, S) + Won(t.pnl)
<1> DEFINE us == Append(ts, t)
           n == Len(ts)
           W == {i \in S : ts[i].pnl > 0}
           V == {i \in S \union {n + 1} : us[i].pnl > 0}
<1>1. /\ n \in Nat /\ Len(us) = n + 1 /\ us[n + 1] = t /\ n + 1 \notin S
      /\ \A i \in S : us[i] = ts[i]
  BY TradeAppended
<1>0. W \in SUBSET (1 .. n)
  OBVIOUS
<1>2. IsFiniteSet(W) /\ n + 1 \notin W
  BY <1>0, <1>1, PartOfInterval
<1>3. Cardinality(W) \in Nat
  BY <1>2, FS_CardinalityType
<1>4. {i \in S : us[i].pnl > 0} = W
  BY <1>1
<1>5. V = IF t.pnl > 0 THEN W \union {n + 1} ELSE W
  BY <1>1, <1>4
<1> HIDE DEF V
<1>6. Cardinality(V) = Cardinality(W) + Won(t.pnl)
  <2> HIDE DEF W
  <2>1. CASE t.pnl > 0
    BY <1>2, <1>5, <2>1, FS_AddElement DEF Won
  <2>2. CASE ~(t.pnl > 0)
    BY <1>3, <1>5, <2>2 DEF Won
  <2> QED BY <2>1, <2>2
<1> QED BY <1>1, <1>3, <1>4, <1>6 DEF Winners, V

LEMMA OfAppended ==
  ASSUME NEW ts \in Seq(Trades), NEW t \in Trades, NEW s
  PROVE  LET us == Append(ts, t) IN
         /\ Of(ts, s) \in SUBSET (1 .. Len(ts)) /\ Cardinality(Of(ts, s)) \in Nat
         /\ t.strategy # s => Of(us, s) = Of(ts, s)
         /\ t.strategy = s =>
              /\ Of(us, s) = Of(ts, s) \union {Len(us)}
              /\ Cardinality(Of(us, s)) = Cardinality(Of(ts, s)) + 1
<1> DEFINE us == Append(ts, t)
           n == Len(ts)
<1>1. /\ n \in Nat /\ Len(us) = n + 1 /\ us[n + 1] = t
      /\ DOMAIN ts = 1 .. n /\ DOMAIN us = 1 .. (n + 1)
      /\ \A i \in 1 .. n : us[i] = ts[i]
  BY TradeAppended
<1>2. 1 .. (n + 1) = (1 .. n) \union {n + 1} /\ n + 1 \notin 1 .. n
  BY <1>1, OneMore
<1> HIDE DEF us, n
<1>3. Of(ts, s) \in SUBSET (1 .. n)
  BY <1>1 DEF Of
<1>4. /\ t.strategy # s => Of(us, s) = Of(ts, s)
      /\ t.strategy = s => Of(us, s) = Of(ts, s) \union {n + 1}
  BY <1>1, <1>2 DEF Of
<1>5. IsFiniteSet(Of(ts, s)) /\ n + 1 \notin Of(ts, s)
  BY <1>1, <1>2, <1>3, PartOfInterval
<1>6. Cardinality(Of(ts, s)) \in Nat
  BY <1>5, FS_CardinalityType
<1>7. t.strategy = s => Cardinality(Of(us, s)) = Cardinality(Of(ts, s)) + 1
  BY <1>4, <1>5, FS_AddElement
<1> QED BY <1>1, <1>3, <1>4, <1>6, <1>7 DEF us, n

-----------------------------------------------------------------------------
(* What a ledger says of a list of trades, the extremes by what they are.   *)
Totals(ts) == {Total(ts, n) : n \in 0 .. Len(ts)}

PeakOf(ts, x) == x \in Totals(ts) /\ \A y \in Totals(ts) : y <= x

Falls(ts) ==
  UNION {{Total(ts, m) - Total(ts, n) : m \in 0 .. n} : n \in 0 .. Len(ts)}

DrawdownOf(ts, x) == x \in Falls(ts) /\ \A y \in Falls(ts) : y <= x

ShareOf(ts, s) ==
  [trades |-> Cardinality(Of(ts, s)), wins |-> Winners(ts, Of(ts, s)),
   total |-> SumFunctionOnSet(Pnls(ts), Of(ts, s))]

Says(l, ts) ==
  /\ l = [realised |-> Total(ts, Len(ts)), trades |-> Len(ts),
          wins |-> Winners(ts, DOMAIN ts),
          strategy |-> [s \in Strategies |-> ShareOf(ts, s)],
          peak |-> l.peak, drawdown |-> l.drawdown]
  /\ PeakOf(ts, l.peak) /\ DrawdownOf(ts, l.drawdown)

LEMMA TotalTyped ==
  ASSUME NEW ts \in Seq(Trades), NEW n \in 0 .. Len(ts)
  PROVE  Total(ts, n) \in Int
<1>1. \A i \in 1 .. n : Pnls(ts)[i] \in Int
  BY PnlsTyped
<1>2. IsFiniteSet(1 .. n)
  BY FS_Interval
<1> QED BY <1>1, <1>2, SumTyped DEF Total

LEMMA ExtremesTyped ==
  ASSUME NEW ts \in Seq(Trades)
  PROVE  Totals(ts) \subseteq Int /\ Falls(ts) \subseteq Int
<1>1. Totals(ts) \subseteq Int
  BY TotalTyped DEF Totals
<1>2. ASSUME NEW n \in 0 .. Len(ts), NEW m \in 0 .. n
      PROVE  Total(ts, m) - Total(ts, n) \in Int
  <2>1. m \in 0 .. Len(ts)
    OBVIOUS
  <2> QED BY <2>1, TotalTyped
<1> QED BY <1>1, <1>2 DEF Falls

(* A ledger that says what the trades were is the one the definitions give. *)
LEMMA SaysIsLedger ==
  ASSUME NEW ts \in Seq(Trades), NEW l, Says(l, ts)
  PROVE  l = LedgerOf(ts)
<1>1. Max(Totals(ts)) = l.peak
  BY ExtremesTyped, MaxIs DEF Says, PeakOf
<1>2. Max(Falls(ts)) = l.drawdown
  BY ExtremesTyped, MaxIs DEF Says, DrawdownOf
<1>3. LedgerOf(ts) =
        [realised |-> Total(ts, Len(ts)), trades |-> Len(ts),
         wins |-> Winners(ts, DOMAIN ts),
         strategy |-> [s \in Strategies |-> ShareOf(ts, s)],
         peak |-> Max(Totals(ts)), drawdown |-> Max(Falls(ts))]
  BY DEF LedgerOf, Totals, Falls, ShareOf
<1> QED BY <1>1, <1>2, <1>3 DEF Says

LEMMA EmptySays == Says(EmptyLedger, <<>>)
<1> DEFINE ts == <<>>
           f == Pnls(ts)
<1>1. Len(ts) = 0 /\ DOMAIN ts = {} /\ 1 .. 0 = {} /\ 0 .. 0 = {0}
  OBVIOUS
<1>2. \A s : Of(ts, s) = {}
  BY <1>1 DEF Of
<1>3. Winners(ts, {}) = 0 /\ Cardinality({}) = 0
  BY FS_EmptySet DEF Winners
<1>4. SumFunctionOnSet(f, {}) = 0
  BY SumOfNone
<1> HIDE DEF ts, f
<1>5. Total(ts, 0) = 0
  BY <1>1, <1>4 DEF Total, f
<1>6. \A s : ShareOf(ts, s) = NoTrades
  BY <1>2, <1>3, <1>4 DEF ShareOf, NoTrades, f
<1>7. Totals(ts) = {0}
  BY <1>1, <1>5 DEF Totals
<1>8. Falls(ts) = {0}
  BY <1>1, <1>5 DEF Falls
<1>9. PeakOf(ts, 0) /\ DrawdownOf(ts, 0)
  BY <1>7, <1>8 DEF PeakOf, DrawdownOf
<1>10. EmptyLedger =
         [realised |-> Total(ts, Len(ts)), trades |-> Len(ts),
          wins |-> Winners(ts, DOMAIN ts),
          strategy |-> [s \in Strategies |-> ShareOf(ts, s)],
          peak |-> 0, drawdown |-> 0]
  BY <1>1, <1>3, <1>5, <1>6 DEF EmptyLedger
<1>11. EmptyLedger.peak = 0 /\ EmptyLedger.drawdown = 0
  BY DEF EmptyLedger
<1> QED BY <1>9, <1>10, <1>11 DEF Says, ts

(* The totals, shares and extremes of a list with one more trade.           *)
LEMMA TotalsAppended ==
  ASSUME NEW ts \in Seq(Trades), NEW t \in Trades
  PROVE  LET us == Append(ts, t)
             next == Total(ts, Len(ts)) + t.pnl
         IN /\ Total(us, Len(us)) = next
            /\ Totals(us) = Totals(ts) \union {next}
            /\ Falls(us) = Falls(ts) \union {y - next : y \in Totals(us)}
<1> DEFINE us == Append(ts, t)
           n == Len(ts)
           next == Total(ts, n) + t.pnl
<1>1. n \in Nat /\ us \in Seq(Trades) /\ Len(us) = n + 1
  BY TradeAppended
<1>2. 1 .. (n + 1) = (1 .. n) \union {n + 1} /\ 0 .. (n + 1) = (0 .. n) \union {n + 1}
  BY <1>1
<1>3. ASSUME NEW k \in 0 .. n PROVE Total(us, k) = Total(ts, k)
  <2>1. 1 .. k \in SUBSET (1 .. n)
    BY <1>1
  <2> QED BY <2>1, SumAppended DEF Total
<1>4. Total(us, n + 1) = next
  <2>1. 1 .. n \in SUBSET (1 .. n)
    OBVIOUS
  <2>2. SumFunctionOnSet(Pnls(us), (1 .. n) \union {Len(us)}) =
          SumFunctionOnSet(Pnls(ts), 1 .. n) + t.pnl
    BY <2>1, SumAppended
  <2> QED BY <1>1, <1>2, <2>2 DEF Total
<1> HIDE DEF us, n, next
<1>5. Totals(us) = Totals(ts) \union {next}
  BY <1>1, <1>2, <1>3, <1>4 DEF Totals, n
<1>6. Totals(us) = {Total(us, m) : m \in 0 .. (n + 1)}
  BY <1>1 DEF Totals
<1>7. \A x : x \in Falls(ts) <=> \E k \in 0 .. n : \E m \in 0 .. k : x = Total(ts, m) - Total(ts, k)
  BY DEF Falls, n
<1>8. \A x : x \in Falls(us) <=>
        \E k \in 0 .. (n + 1) : \E m \in 0 .. k : x = Total(us, m) - Total(us, k)
  BY <1>1 DEF Falls
<1>9. \A k \in 0 .. n : \A m \in 0 .. k : m \in 0 .. n
  BY <1>1
<1>10. \A x : x \in {y - next : y \in Totals(us)} <=>
               \E m \in 0 .. (n + 1) : x = Total(us, m) - Total(us, n + 1)
  BY <1>4, <1>6
<1>11. \A x : x \in Falls(us) <=>
               \/ \E k \in 0 .. n : \E m \in 0 .. k : x = Total(us, m) - Total(us, k)
               \/ \E m \in 0 .. (n + 1) : x = Total(us, m) - Total(us, n + 1)
  BY <1>2, <1>8, Zenon
<1>12. \A x : (\E k \in 0 .. n : \E m \in 0 .. k : x = Total(us, m) - Total(us, k))
                <=> x \in Falls(ts)
  BY <1>3, <1>7, <1>9, Zenon
<1>13. Falls(us) = Falls(ts) \union {y - next : y \in Totals(us)}
  BY <1>10, <1>11, <1>12
<1> QED BY <1>1, <1>4, <1>5, <1>13 DEF us, n, next

LEMMA ExtremesAppended ==
  ASSUME NEW ts \in Seq(Trades), NEW t \in Trades, NEW p, NEW d,
         PeakOf(ts, p), DrawdownOf(ts, d)
  PROVE  LET us == Append(ts, t)
             next == Total(ts, Len(ts)) + t.pnl
             peak == Larger(p, next)
         IN PeakOf(us, peak) /\ DrawdownOf(us, Larger(d, peak - next))
<1> DEFINE us == Append(ts, t)
           next == Total(ts, Len(ts)) + t.pnl
           peak == Larger(p, next)
           fall == Larger(d, peak - next)
<1>1. /\ Totals(us) = Totals(ts) \union {next}
      /\ Falls(us) = Falls(ts) \union {y - next : y \in Totals(us)}
  BY TotalsAppended
<1>2. Totals(ts) \subseteq Int /\ Falls(ts) \subseteq Int /\ Totals(us) \subseteq Int
  BY ExtremesTyped, TradeAppended
<1>3. next \in Int /\ p \in Int /\ d \in Int
  BY <1>1, <1>2 DEF PeakOf, DrawdownOf
<1> HIDE DEF us, next
<1>4. PeakOf(us, peak)
  BY <1>1, <1>2, <1>3 DEF PeakOf, Larger
<1>5. peak \in Int /\ peak \in Totals(us) /\ \A y \in Totals(us) : y <= peak
  BY <1>2, <1>4 DEF PeakOf
<1> HIDE DEF peak
<1>6. fall \in Falls(us)
  BY <1>1, <1>5 DEF DrawdownOf, Larger
<1>7. ASSUME NEW x \in Falls(us) PROVE x <= fall
  <2>1. CASE x \in Falls(ts)
    BY <1>2, <1>3, <1>5, <2>1 DEF DrawdownOf, Larger
  <2>2. CASE x \in {y - next : y \in Totals(us)}
    <3>1. PICK y \in Totals(us) : x = y - next
      BY <2>2
    <3> QED BY <1>2, <1>3, <1>5, <3>1 DEF Larger
  <2> QED BY <1>1, <2>1, <2>2
<1> QED BY <1>4, <1>6, <1>7 DEF DrawdownOf, us, next, peak

LEMMA ShareAppended ==
  ASSUME NEW ts \in Seq(Trades), NEW t \in Trades, NEW s
  PROVE  ShareOf(Append(ts, t), s) =
           IF s = t.strategy
           THEN [trades |-> ShareOf(ts, s).trades + 1,
                 total |-> ShareOf(ts, s).total + t.pnl,
                 wins |-> ShareOf(ts, s).wins + Won(t.pnl)]
           ELSE ShareOf(ts, s)
<1> DEFINE us == Append(ts, t)
           I == Of(ts, s)
<1>1. /\ I \in SUBSET (1 .. Len(ts))
      /\ t.strategy # s => Of(us, s) = I
      /\ t.strategy = s => /\ Of(us, s) = I \union {Len(us)}
                           /\ Cardinality(Of(us, s)) = Cardinality(I) + 1
  BY OfAppended
<1>2. /\ Winners(us, I) = Winners(ts, I)
      /\ Winners(us, I \union {Len(us)}) = Winners(ts, I) + Won(t.pnl)
  BY <1>1, WinnersAppended
<1>3. /\ SumFunctionOnSet(Pnls(us), I) = SumFunctionOnSet(Pnls(ts), I)
      /\ SumFunctionOnSet(Pnls(us), I \union {Len(us)}) =
           SumFunctionOnSet(Pnls(ts), I) + t.pnl
  BY <1>1, SumAppended
<1> HIDE DEF us, I
<1>4. ShareOf(ts, s) = [trades |-> Cardinality(I), wins |-> Winners(ts, I),
                        total |-> SumFunctionOnSet(Pnls(ts), I)]
  BY DEF ShareOf, I
<1>5. CASE s = t.strategy
  BY <1>1, <1>2, <1>3, <1>4, <1>5 DEF ShareOf, us
<1>6. CASE s # t.strategy
  BY <1>1, <1>2, <1>3, <1>4, <1>6 DEF ShareOf, us
<1> QED BY <1>5, <1>6

(* record_trade keeps a ledger true to the list it appends to.              *)
LEMMA BookedSays ==
  ASSUME NEW ts \in Seq(Trades), NEW t \in Trades, NEW l, Says(l, ts)
  PROVE  Says(Booked(l, t.strategy, t.pnl), Append(ts, t))
<1> DEFINE us == Append(ts, t)
           next == Total(ts, Len(ts)) + t.pnl
           peak == Larger(l.peak, next)
           fall == Larger(l.drawdown, peak - next)
           shares == [s \in Strategies |-> ShareOf(ts, s)]
           mine == shares[t.strategy]
           new == Booked(l, t.strategy, t.pnl)
<1>1. /\ l.realised = Total(ts, Len(ts)) /\ l.trades = Len(ts)
      /\ l.wins = Winners(ts, DOMAIN ts) /\ l.strategy = shares
  BY DEF Says
<1>2. new = [realised |-> next, trades |-> Len(ts) + 1,
             wins |-> Winners(ts, DOMAIN ts) + Won(t.pnl),
             strategy |-> [shares EXCEPT ![t.strategy] =
               [trades |-> mine.trades + 1, total |-> mine.total + t.pnl,
                wins |-> mine.wins + Won(t.pnl)]],
             peak |-> peak, drawdown |-> fall]
  <2> HIDE DEF shares
  <2> QED BY <1>1 DEF Booked
<1>3. Len(ts) + 1 = Len(us) /\ next = Total(us, Len(us))
  BY TradeAppended, TotalsAppended
<1>4. Winners(ts, DOMAIN ts) + Won(t.pnl) = Winners(us, DOMAIN us)
  <2>1. /\ DOMAIN ts = 1 .. Len(ts) /\ DOMAIN us = (1 .. Len(ts)) \union {Len(us)}
    BY TradeAppended, OneMore
  <2> QED BY <2>1, WinnersAppended
<1>5. [shares EXCEPT ![t.strategy] =
        [trades |-> mine.trades + 1, total |-> mine.total + t.pnl,
         wins |-> mine.wins + Won(t.pnl)]] =
        [s \in Strategies |-> ShareOf(us, s)]
  <2>1. t.strategy \in Strategies /\ mine = ShareOf(ts, t.strategy)
    BY DEF Trades
  <2> HIDE DEF us, mine
  <2>2. \A s \in Strategies :
          ShareOf(us, s) =
            IF s = t.strategy
            THEN [trades |-> mine.trades + 1, total |-> mine.total + t.pnl,
                  wins |-> mine.wins + Won(t.pnl)]
            ELSE shares[s]
    BY <2>1, ShareAppended DEF us
  <2> QED BY <2>1, <2>2
<1>6. PeakOf(us, peak) /\ DrawdownOf(us, fall)
  BY ExtremesAppended DEF Says
<1> HIDE DEF us, next, peak, fall, shares, mine, new
<1>7. new.peak = peak /\ new.drawdown = fall
  BY <1>2
<1>8. new = [realised |-> Total(us, Len(us)), trades |-> Len(us),
             wins |-> Winners(us, DOMAIN us),
             strategy |-> [s \in Strategies |-> ShareOf(us, s)],
             peak |-> new.peak, drawdown |-> new.drawdown]
  BY <1>2, <1>3, <1>4, <1>5, <1>7
<1>9. Says(new, us)
  BY <1>6, <1>7, <1>8 DEF Says
<1> QED BY <1>9 DEF new, us

(* The day's trades: none on the morning after, and one more with each.     *)
LEMMA DayAppended ==
  ASSUME NEW ts \in Seq(Trades), NEW t \in Trades, NEW e \in 0 .. Len(ts)
  PROVE  /\ SubSeq(ts, e + 1, Len(ts)) \in Seq(Trades)
         /\ SubSeq(ts, Len(ts) + 1, Len(ts)) = <<>>
         /\ SubSeq(Append(ts, t), e + 1, Len(ts) + 1) =
              Append(SubSeq(ts, e + 1, Len(ts)), t)
<1> DEFINE us == Append(ts, t)
           n == Len(ts)
           old == SubSeq(ts, e + 1, n)
           new == SubSeq(us, e + 1, n + 1)
           more == Append(old, t)
<1>1. /\ n \in Nat /\ us \in Seq(Trades) /\ us[n + 1] = t
      /\ \A i \in 1 .. n : us[i] = ts[i] /\ ts[i] \in Trades
  BY TradeAppended
<1>2. e + 1 \in Int /\ n \in Int /\ n + 1 \in Int /\ e + 1 <= n + 1
  BY <1>1
<1>3. \A i \in e + 1 .. n : ts[i] \in Trades
  BY <1>1
<1>4. \A i \in e + 1 .. n + 1 : us[i] \in Trades
  BY <1>1
<1>5. /\ old \in Seq(Trades)
      /\ Len(old) = n - e
      /\ \A i \in 1 .. n - e : old[i] = ts[e + i]
  <2>1. /\ old \in Seq(Trades)
        /\ Len(old) = IF e + 1 <= n THEN n - (e + 1) + 1 ELSE 0
        /\ \A i \in 1 .. n - (e + 1) + 1 : old[i] = ts[(e + 1) + i - 1]
    BY <1>2, <1>3, SubSeqProperties
  <2> HIDE DEF old
  <2> QED BY <1>2, <2>1
<1>6. /\ new \in Seq(Trades)
      /\ Len(new) = n - e + 1
      /\ \A i \in 1 .. n - e + 1 : new[i] = us[e + i]
  <2>1. /\ new \in Seq(Trades)
        /\ Len(new) = IF e + 1 <= n + 1 THEN n + 1 - (e + 1) + 1 ELSE 0
        /\ \A i \in 1 .. n + 1 - (e + 1) + 1 : new[i] = us[(e + 1) + i - 1]
    BY <1>2, <1>4, SubSeqProperties
  <2> HIDE DEF new
  <2> QED BY <1>2, <2>1
<1>7. /\ more \in Seq(Trades) /\ Len(more) = n - e + 1
      /\ more[n - e + 1] = t
      /\ \A i \in 1 .. n - e : more[i] = ts[e + i]
  <2> HIDE DEF old
  <2> QED BY <1>5, TradeAppended
<1>8. ASSUME NEW i \in 1 .. n - e + 1 PROVE new[i] = more[i]
  <2>1. CASE i = n - e + 1
    <3>1. e + i = n + 1
      BY <1>2, <2>1
    <3> HIDE DEF new, more, us, n
    <3> QED BY <1>1, <1>6, <1>7, <2>1, <3>1
  <2>2. CASE i \in 1 .. n - e
    <3>1. e + i \in 1 .. n
      BY <1>2, <2>2
    <3> HIDE DEF new, more, us, n
    <3> QED BY <1>1, <1>6, <1>7, <2>2, <3>1
  <2> QED BY <1>2, <2>1, <2>2
<1>9. new = more
  <2> HIDE DEF new, more
  <2> QED BY <1>6, <1>7, <1>8, SeqEqual
<1>10. SubSeq(ts, n + 1, n) = <<>>
  BY <1>2, SubSeqEmpty
<1> QED BY <1>5, <1>9, <1>10

-----------------------------------------------------------------------------
(* The engine, and the snapshot a later one starts from.                    *)
TrueTo(st) ==
  /\ st = [all |-> st.all, day |-> st.day, trades |-> st.trades, earlier |-> st.earlier]
  /\ st.trades \in Seq(Trades) /\ st.earlier \in 0 .. Len(st.trades)
  /\ Says(st.all, st.trades)
  /\ Says(st.day, SubSeq(st.trades, st.earlier + 1, Len(st.trades)))

StatsInv ==
  /\ TrueTo(stats) /\ TrueTo(saved.stats)
  /\ saved = [stats |-> saved.stats, flat |-> saved.flat, stale |-> saved.stale]

LEMMA EmptyTrue == TrueTo(EmptyStats)
<1>1. /\ EmptyStats.all = EmptyLedger /\ EmptyStats.day = EmptyLedger
      /\ EmptyStats.trades = <<>> /\ EmptyStats.earlier = 0
      /\ EmptyStats = [all |-> EmptyLedger, day |-> EmptyLedger, trades |-> <<>>,
                       earlier |-> 0]
  BY DEF EmptyStats
<1>2. <<>> \in Seq(Trades) /\ Len(<<>>) = 0
  OBVIOUS
<1>3. SubSeq(<<>>, 1, 0) = <<>>
  BY SubSeqEmpty
<1>4. 0 + 1 = 1 /\ 0 \in 0 .. 0
  OBVIOUS
<1>5. PICK st : st = EmptyStats
  OBVIOUS
<1>6. /\ st.trades \in Seq(Trades) /\ st.earlier \in 0 .. Len(st.trades)
      /\ st = [all |-> st.all, day |-> st.day, trades |-> st.trades,
               earlier |-> st.earlier]
  BY <1>1, <1>2, <1>4, <1>5
<1>7. SubSeq(st.trades, st.earlier + 1, Len(st.trades)) = <<>>
  BY <1>1, <1>2, <1>3, <1>4, <1>5
<1>8. TrueTo(st)
  BY <1>1, <1>5, <1>6, <1>7, EmptySays DEF TrueTo
<1> QED BY <1>5, <1>8

LEMMA RestoredTrue ==
  ASSUME NEW from, TrueTo(from), NEW resetDaily
  PROVE  TrueTo(Restored(from, resetDaily))
<1> DEFINE new == Restored(from, resetDaily)
<1>1. /\ new = [all |-> new.all, day |-> new.day, trades |-> new.trades,
                earlier |-> new.earlier]
      /\ new.all = from.all /\ new.trades = from.trades
      /\ new.day = (IF resetDaily THEN EmptyLedger ELSE from.day)
      /\ new.earlier = (IF resetDaily THEN Len(from.trades) ELSE from.earlier)
  BY DEF Restored
<1> SUFFICES TrueTo(new)
  OBVIOUS
<1> HIDE DEF new
<1>2. Len(from.trades) \in Nat /\ from.trades \in Seq(Trades)
  BY DEF TrueTo
<1>3. SubSeq(from.trades, Len(from.trades) + 1, Len(from.trades)) = <<>>
  BY <1>2, SubSeqEmpty
<1>4. CASE resetDaily
  <2>1. /\ new.earlier = Len(new.trades) /\ new.earlier \in 0 .. Len(new.trades)
        /\ new.trades \in Seq(Trades)
    BY <1>1, <1>2, <1>4
  <2>2. /\ SubSeq(new.trades, new.earlier + 1, Len(new.trades)) = <<>>
        /\ new.day = EmptyLedger
    BY <1>1, <1>3, <1>4
  <2>3. Says(new.all, new.trades)
    BY <1>1 DEF TrueTo
  <2> QED BY <1>1, <2>1, <2>2, <2>3, EmptySays DEF TrueTo
<1>5. CASE ~resetDaily
  BY <1>1, <1>5 DEF TrueTo
<1> QED BY <1>4, <1>5

LEMMA BookingKeeps ==
  ASSUME StatsInv, NEW strategy \in Strategies, NEW pnl \in Results,
         BookTrade(strategy, pnl)
  PROVE  StatsInv'
<1> DEFINE t == [strategy |-> strategy, pnl |-> pnl]
           ts == stats.trades
           e == stats.earlier
           all == Booked(stats.all, strategy, pnl)
           thisDay == Booked(stats.day, strategy, pnl)
           us == Append(ts, t)
<1>1. /\ t \in Trades /\ t.strategy = strategy /\ t.pnl = pnl
  BY StatisticsAssumption DEF Trades
<1>2. /\ ts \in Seq(Trades) /\ e \in 0 .. Len(ts)
      /\ Says(stats.all, ts) /\ Says(stats.day, SubSeq(ts, e + 1, Len(ts)))
  BY DEF StatsInv, TrueTo
<1>3. stats' = [all |-> all, day |-> thisDay, trades |-> us, earlier |-> e] /\ saved' = saved
  BY DEF BookTrade, StatsInv, TrueTo
<1> HIDE DEF t
<1>4. Says(all, us)
  BY <1>1, <1>2, BookedSays
<1>5. Says(thisDay, Append(SubSeq(ts, e + 1, Len(ts)), t))
  BY <1>1, <1>2, DayAppended, BookedSays
<1>6. us \in Seq(Trades) /\ Len(us) = Len(ts) + 1 /\ e \in 0 .. Len(us)
  BY <1>1, <1>2, TradeAppended
<1>7. SubSeq(us, e + 1, Len(us)) = Append(SubSeq(ts, e + 1, Len(ts)), t)
  BY <1>1, <1>2, <1>6, DayAppended
<1> HIDE DEF all, thisDay, us, ts, e
<1>8. TrueTo(stats')
  BY <1>3, <1>4, <1>5, <1>6, <1>7 DEF TrueTo
<1> QED BY <1>3, <1>8 DEF StatsInv

LEMMA StatsStep == StatsInv /\ [StatisticsNext]_statisticsVars => StatsInv'
<1> SUFFICES ASSUME StatsInv, [StatisticsNext]_statisticsVars PROVE StatsInv'
  OBVIOUS
<1>1. CASE UNCHANGED statisticsVars
  BY <1>1 DEF statisticsVars, StatsInv
<1>2. ASSUME NEW flat \in BOOLEAN, SaveStatistics(flat) PROVE StatsInv'
  BY <1>2 DEF SaveStatistics, StatsInv
<1>3. ASSUME NEW nextDay \in BOOLEAN, RelaunchEngine(nextDay) PROVE StatsInv'
  <2>1. /\ saved'.stats = saved.stats
        /\ saved' = [stats |-> saved'.stats, flat |-> saved'.flat, stale |-> saved'.stale]
    BY <1>3 DEF RelaunchEngine, StatsInv
  <2>2. stats' = EmptyStats \/ \E resetDaily : stats' = Restored(saved.stats, resetDaily)
    BY <1>3 DEF RelaunchEngine
  <2>3. TrueTo(stats')
    BY <2>2, EmptyTrue, RestoredTrue DEF StatsInv
  <2> QED BY <2>1, <2>3 DEF StatsInv
<1> QED BY <1>1, <1>2, <1>3, BookingKeeps DEF StatisticsNext

LEMMA StatsStart == StatisticsInit => StatsInv
BY EmptyTrue DEF StatisticsInit, NotSaved, StatsInv

LEMMA StatsMean == StatsInv => StatsMatchTrades
<1> SUFFICES ASSUME StatsInv PROVE StatsMatchTrades
  OBVIOUS
<1>1. /\ stats.trades \in Seq(Trades)
      /\ SubSeq(stats.trades, stats.earlier + 1, Len(stats.trades)) \in Seq(Trades)
  <2>1. PICK ts, e : ts = stats.trades /\ e = stats.earlier
    OBVIOUS
  <2>2. ts \in Seq(Trades) /\ e \in 0 .. Len(ts)
    BY <2>1 DEF StatsInv, TrueTo
  <2>3. \A i \in e + 1 .. Len(ts) : ts[i] \in Trades
    BY <2>2
  <2>4. SubSeq(ts, e + 1, Len(ts)) \in Seq(Trades)
    BY <2>2, <2>3, SubSeqProperties
  <2> QED BY <2>1, <2>2, <2>4
<1> QED BY <1>1, SaysIsLedger DEF StatsInv, TrueTo, StatsMatchTrades

(* However many trades there are, of whatever results, and whatever is      *)
(* saved, lost and restored between them, the statistics are those of the   *)
(* trades on the list (PaperPnLEngine.record_trade, restore_state).         *)
THEOREM StatisticsCorrect == StatisticsSpec => []StatsMatchTrades
BY StatsStart, StatsStep, StatsMean, PTL DEF StatisticsSpec

-----------------------------------------------------------------------------
(* Of loggers that were never up together at most one is up, and it counts  *)
(* on from above every intact row, if it has not read a torn one.           *)
Lines == [read : Nat, meant : Nat, ended : BOOLEAN]

RowsTyped ==
  /\ csvRows \in Seq(Lines)
  /\ counter \in [Loggers -> Nat \union {NoLogger}]

RowsGrow == \A i, j \in Intact : i < j => csvRows[i].read < csvRows[j].read
CountsOn(l) == Up(l) => \A i \in Intact : csvRows[i].read <= counter[l]

RowsInv ==
  /\ RowsTyped
  /\ ~shared => \A l, m \in Loggers : Up(l) /\ Up(m) => l = m
  /\ ~shared /\ ~misled => RowsGrow /\ \A l \in Loggers : CountsOn(l)

LEMMA RowOf ==
  ASSUME NEW lines \in Seq(Lines)
  PROVE  /\ Len(lines) \in Nat
         /\ \A j \in DOMAIN lines : j \in Nat /\ j <= Len(lines) /\ lines[j] \in Lines
              /\ lines[j].read \in Nat
         /\ lines # <<>> => Len(lines) \in DOMAIN lines
<1>1. \A j \in DOMAIN lines : j \in Nat /\ j <= Len(lines) /\ lines[j] \in Lines
  OBVIOUS
<1>2. lines # <<>> => Len(lines) \in DOMAIN lines
  OBVIOUS
<1> QED
  BY <1>1, <1>2 DEF Lines

LEMMA RowsStart == TradeTableInit => RowsInv
<1> SUFFICES ASSUME TradeTableInit PROVE RowsInv
  OBVIOUS
<1> DEFINE one == Line(1, 1, TRUE)
<1>1. one \in Lines
  BY DEF Line, Lines
<1> HIDE DEF one
<1>2. csvRows \in Seq(Lines) /\ DOMAIN csvRows \subseteq {1}
  <2>1. csvRows = <<>> \/ csvRows = <<one>>
    BY DEF TradeTableInit, one
  <2>2. <<one>> \in Seq(Lines) /\ DOMAIN <<one>> = {1}
    BY <1>1
  <2>3. <<>> \in Seq(Lines) /\ DOMAIN <<>> = {}
    OBVIOUS
  <2> QED
    BY <2>1, <2>2, <2>3, Zenon
<1>3. counter \in [Loggers -> Nat \union {NoLogger}] /\ \A l \in Loggers : ~Up(l)
  BY DEF TradeTableInit, Up
<1>4. RowsGrow
  <2> SUFFICES ASSUME NEW i \in Intact, NEW j \in Intact, i < j PROVE FALSE
    BY DEF RowsGrow
  <2>1. i = 1 /\ j = 1
    BY <1>2 DEF Intact
  <2> QED
    BY <2>1
<1> QED
  BY <1>2, <1>3, <1>4 DEF RowsInv, RowsTyped, CountsOn

(* What is written changes the last line only, or adds one.                 *)
LEMMA WrittenLast ==
  ASSUME csvRows \in Seq(Lines), NEW line \in Lines, NEW next \in Appended(line)
  PROVE  /\ next \in Seq(Lines)
         /\ \A j \in DOMAIN next :
              \/ /\ j \in DOMAIN csvRows
                 /\ next[j].read = csvRows[j].read /\ next[j].meant = csvRows[j].meant
              \/ j = Len(next) /\ next[j] = line
<1> DEFINE n == Len(csvRows)
<1>1. n \in Nat /\ DOMAIN csvRows = 1 .. n
  OBVIOUS
<1>2. CASE next = Append(csvRows, line)
  BY <1>1, <1>2
<1>3. CASE n > 0 /\ next = [csvRows EXCEPT ![n] = line]
  BY <1>1, <1>3
<1>4. CASE n > 0 /\ next = [csvRows EXCEPT ![n].ended = line.ended]
  <2> DEFINE last == [csvRows[n] EXCEPT !.ended = line.ended]
  <2>1. csvRows[n] \in Lines /\ n \in DOMAIN csvRows
    BY <1>1, <1>4
  <2>2. last \in Lines /\ last.read = csvRows[n].read /\ last.meant = csvRows[n].meant
    BY <2>1 DEF Lines
  <2>3. next = [csvRows EXCEPT ![n] = last]
    BY <1>4
  <2> HIDE DEF last
  <2> QED
    BY <1>1, <2>1, <2>2, <2>3
<1> QED
  BY <1>1, <1>2, <1>3, <1>4 DEF Appended

(* A number is taken, whatever becomes of its row.                          *)
LEMMA WritingKeepsRows ==
  ASSUME RowsInv, NEW l \in Loggers, LogRow(l) \/ LogFails(l)
  PROVE  RowsInv'
<1> DEFINE taken == counter[l] + 1
<1>1. /\ counter[l] \in Nat /\ Up(l) /\ UNCHANGED <<shared, misled>>
      /\ counter' = [counter EXCEPT ![l] = taken]
  BY DEF LogRow, LogFails, NextNumber, Up, RowsInv, RowsTyped, NoLogger
<1>2. \/ csvRows' = csvRows
      \/ \E line \in Lines : line.meant = taken /\ csvRows' \in Appended(line)
  <2>1. CASE LogRow(l)
    <3> DEFINE line == Line(taken, taken, TRUE)
    <3>1. line \in Lines /\ line.meant = taken
      BY <1>1 DEF Line, Lines
    <3>2. csvRows' \in Appended(line)
      BY <2>1 DEF LogRow
    <3> HIDE DEF line
    <3> QED
      BY <3>1, <3>2
  <2>2. CASE LogFails(l) /\ csvRows' # csvRows
    <3>1. PICK read \in 0 .. taken : csvRows' \in Appended(Line(read, taken, FALSE))
      BY <2>2 DEF LogFails
    <3> DEFINE line == Line(read, taken, FALSE)
    <3>2. line \in Lines /\ line.meant = taken
      BY <1>1 DEF Line, Lines
    <3> HIDE DEF line
    <3> QED
      BY <3>1, <3>2 DEF line
  <2> QED
    BY <2>1, <2>2
<1>3. /\ csvRows' \in Seq(Lines)
      /\ \A j \in DOMAIN csvRows' :
           \/ /\ j \in DOMAIN csvRows
              /\ csvRows'[j].read = csvRows[j].read /\ csvRows'[j].meant = csvRows[j].meant
           \/ j = Len(csvRows') /\ csvRows'[j].meant = taken
  BY <1>2, WrittenLast DEF RowsInv, RowsTyped
<1>4. RowsTyped'
  BY <1>1, <1>3 DEF RowsInv, RowsTyped
<1>5. \A m \in Loggers : Up(m)' => Up(m)
  BY <1>1 DEF Up, RowsInv, RowsTyped
<1>6. ASSUME ~shared, ~misled PROVE RowsGrow' /\ \A m \in Loggers : CountsOn(m)'
  <2>1. /\ \A j \in DOMAIN csvRows : csvRows[j].read \in Nat
        /\ \A j \in DOMAIN csvRows' : csvRows'[j].read \in Nat /\ j \in Nat /\ j <= Len(csvRows')
    BY <1>3, RowOf DEF RowsInv, RowsTyped
  <2>2. \A j \in Intact' :
          \/ /\ j \in Intact /\ csvRows'[j].read = csvRows[j].read
             /\ csvRows[j].read < taken
          \/ j = Len(csvRows') /\ csvRows'[j].read = taken
    <3> SUFFICES ASSUME NEW j \in DOMAIN csvRows', csvRows'[j].read = csvRows'[j].meant
                 PROVE  \/ /\ j \in Intact /\ csvRows'[j].read = csvRows[j].read
                           /\ csvRows[j].read < taken
                        \/ j = Len(csvRows') /\ csvRows'[j].read = taken
      BY DEF Intact
    <3>1. CASE j = Len(csvRows') /\ csvRows'[j].meant = taken
      BY <3>1
    <3>2. CASE /\ j \in DOMAIN csvRows
               /\ csvRows'[j].read = csvRows[j].read /\ csvRows'[j].meant = csvRows[j].meant
      <4>1. j \in Intact
        BY <3>2 DEF Intact
      <4>2. csvRows[j].read <= counter[l]
        BY <1>1, <1>6, <4>1 DEF RowsInv, CountsOn
      <4> QED
        BY <1>1, <2>1, <3>2, <4>1, <4>2
    <3> QED
      BY <1>3, <3>1, <3>2
  <2>3. RowsGrow'
    <3> SUFFICES ASSUME NEW i \in Intact', NEW j \in Intact', i < j
                 PROVE  csvRows'[i].read < csvRows'[j].read
      BY DEF RowsGrow
    <3>1. i \in DOMAIN csvRows' /\ j \in DOMAIN csvRows'
      BY DEF Intact
    <3>2. i # Len(csvRows')
      BY <1>3, <2>1, <3>1
    <3>3. i \in Intact /\ csvRows'[i].read = csvRows[i].read /\ csvRows[i].read < taken
      BY <2>2, <3>2
    <3> QED
      BY <1>6, <2>2, <3>3 DEF RowsInv, RowsGrow
  <2>4. ASSUME NEW m \in Loggers, Up(m)' PROVE \A i \in Intact' : csvRows'[i].read <= counter'[m]
    <3>1. m = l
      BY <1>1, <1>5, <1>6, <2>4 DEF RowsInv
    <3>2. counter'[m] = taken
      BY <1>1, <3>1 DEF RowsInv, RowsTyped
    <3>3. \A i \in Intact' : i \in DOMAIN csvRows'
      BY DEF Intact
    <3> QED
      BY <1>1, <2>1, <2>2, <3>2, <3>3
  <2> QED
    BY <2>3, <2>4 DEF CountsOn
<1> QED
  BY <1>1, <1>4, <1>5, <1>6 DEF RowsInv

(* A logger that starts alone counts on from the last row, the highest of   *)
(* the intact ones if it is one of them.                                    *)
LEMMA OpeningKeepsRows ==
  ASSUME RowsInv, NEW l \in Loggers, OpenTable(l)
  PROVE  RowsInv'
<1> DEFINE first == LastNumber(csvRows')
<1>1. /\ csvRows' = csvRows \/ csvRows' = <<>>
      /\ counter' = [counter EXCEPT ![l] = first]
      /\ ~shared' => ~shared /\ \A m \in Loggers \ {l} : ~Up(m)
      /\ ~misled' => ~misled /\ \A n \in DOMAIN csvRows' :
                       n = Len(csvRows') => csvRows'[n].read = csvRows'[n].meant
  BY DEF OpenTable
<1>2. /\ csvRows' \in Seq(Lines) /\ first \in Nat
      /\ csvRows' # <<>> => Len(csvRows') \in DOMAIN csvRows'
           /\ first = csvRows'[Len(csvRows')].read
  <2>1. csvRows' \in Seq(Lines)
    <3>1. <<>> \in Seq(Lines)
      OBVIOUS
    <3> QED
      BY <1>1, <3>1 DEF RowsInv, RowsTyped
  <2>2. csvRows' # <<>> => Len(csvRows') \in DOMAIN csvRows' /\ csvRows'[Len(csvRows')] \in Lines
    BY <2>1, RowOf
  <2> QED
    BY <2>1, <2>2 DEF LastNumber, Lines
<1> HIDE DEF first
<1>3. RowsTyped'
  BY <1>1, <1>2 DEF RowsInv, RowsTyped
<1>4. ~shared' => \A m \in Loggers : Up(m)' => m = l
  BY <1>1 DEF Up, RowsInv, RowsTyped
<1>5. ASSUME ~shared', ~misled' PROVE RowsGrow' /\ \A m \in Loggers : CountsOn(m)'
  <2>1. RowsGrow'
    <3>1. CASE csvRows' = csvRows
      BY <1>1, <1>5, <3>1 DEF RowsInv, RowsGrow, Intact
    <3>2. CASE csvRows' = <<>>
      BY <3>2 DEF RowsGrow, Intact
    <3> QED
      BY <1>1, <3>1, <3>2
  <2>2. ASSUME NEW i \in Intact' PROVE csvRows'[i].read <= first
    <3>1. i \in DOMAIN csvRows' /\ csvRows' # <<>>
      BY DEF Intact
    <3>2. PICK n : n = Len(csvRows')
      OBVIOUS
    <3>3. n \in DOMAIN csvRows' /\ first = csvRows'[n].read /\ n \in Intact' /\ i <= n
            /\ i \in Nat /\ n \in Nat
      BY <1>1, <1>2, <1>5, <3>1, <3>2, RowOf DEF Intact
    <3>4. i < n => csvRows'[i].read < csvRows'[n].read
      BY <2>1, <3>3 DEF RowsGrow
    <3>5. csvRows'[i].read \in Nat
      BY <1>2, <3>1, RowOf
    <3> QED
      BY <1>2, <3>3, <3>4, <3>5
  <2>3. counter'[l] = first
    BY <1>1 DEF RowsInv, RowsTyped
  <2> QED
    BY <1>4, <1>5, <2>1, <2>2, <2>3 DEF CountsOn
<1> QED
  BY <1>1, <1>3, <1>4, <1>5 DEF RowsInv

LEMMA EndKeepsRows ==
  ASSUME RowsInv, NEW l \in Loggers, EndLogger(l)
  PROVE  RowsInv'
<1>1. /\ UNCHANGED <<csvRows, shared, misled>> /\ RowsTyped'
      /\ \A m \in Loggers : Up(m)' => Up(m) /\ counter'[m] = counter[m]
  BY DEF EndLogger, RowsInv, RowsTyped, Up
<1> QED
  BY <1>1 DEF RowsInv, RowsGrow, CountsOn, Intact

LEMMA RowsStep == RowsInv /\ [TradeTableNext]_tradeTableVars => RowsInv'
<1> SUFFICES ASSUME RowsInv, [TradeTableNext]_tradeTableVars PROVE RowsInv'
  OBVIOUS
<1>1. CASE UNCHANGED tradeTableVars
  BY <1>1 DEF tradeTableVars, RowsInv, RowsTyped, RowsGrow, CountsOn, Intact, Up
<1> QED
  BY <1>1, OpeningKeepsRows, WritingKeepsRows, EndKeepsRows DEF TradeTableNext

LEMMA RowsMean == RowsInv => NumbersGrow
BY DEF RowsInv, NumbersGrow, RowsGrow

(* The numbers in paper_trades.csv grow from row to row, over relaunches    *)
(* and failed writes, for any number of loggers and rows, unless two were   *)
(* up at once or one has counted on from a torn number (_next_trade_id).    *)
THEOREM NumbersCorrect == TradeTableSpec => []NumbersGrow
BY RowsStart, RowsStep, RowsMean, PTL DEF TradeTableSpec

-----------------------------------------------------------------------------
(* The composition: the component in focus moves, the others stand still.   *)
(* A signal that is never asked for has no calendar to be about.            *)
LEMMA DeskSteps ==
  [DeskNext]_deskVars =>
    /\ [Next]_vars /\ [PaperNext]_paperVars /\ [ReconcileNext]_reconcileVars
    /\ [TableNext]_tableVars /\ [StatisticsNext]_statisticsVars
    /\ [TradeTableNext]_tradeTableVars
    /\ IF deskFocus = "signal" THEN [SignalNext]_signalVars ELSE UNCHANGED signalVars
    /\ deskFocus' = deskFocus
BY DEF DeskNext, deskVars, feedRest, paperRest, reconcileRest, tableRest, signalRest,
       statisticsRest, rowsRest

AskedSignalInv == IF deskFocus = "signal" THEN SignalInv ELSE entered = AtRest

LEMMA AskedSignalStep ==
  AskedSignalInv /\ [DeskNext]_deskVars => AskedSignalInv'
<1> SUFFICES ASSUME AskedSignalInv, [DeskNext]_deskVars PROVE AskedSignalInv'
  OBVIOUS
<1>1. /\ IF deskFocus = "signal" THEN [SignalNext]_signalVars ELSE UNCHANGED signalVars
      /\ deskFocus' = deskFocus
  BY DeskSteps
<1>2. CASE deskFocus = "signal"
  BY <1>1, <1>2, SignalInvNext DEF AskedSignalInv
<1>3. CASE deskFocus # "signal"
  BY <1>1, <1>3 DEF AskedSignalInv, signalVars
<1> QED BY <1>2, <1>3

DeskInvariants ==
  /\ FeedTypeInv /\ PaperInv /\ MatchInv /\ TableInv
  /\ AskedSignalInv /\ StatsInv /\ RowsInv

LEMMA DeskStarts == DeskInit => DeskInvariants
<1> SUFFICES ASSUME DeskInit PROVE DeskInvariants
  OBVIOUS
<1>1. Init /\ PaperInit /\ StatisticsInit /\ TradeTableInit
  BY DEF DeskInit
<1>2. MatchInv
  <2>1. CASE deskFocus = "reconcile"
    BY <2>1, MatchStarts DEF DeskInit
  <2>2. CASE deskFocus # "reconcile"
    <3>1. rows = NoRows /\ paired = <<>> /\ flagged = {}
      BY <2>2 DEF DeskInit
    <3>2. /\ rows.engine = <<>> /\ rows.broker = <<>>
          /\ rows = [engine |-> rows.engine, broker |-> rows.broker]
      BY <3>1 DEF NoRows
    <3>3. SheetsTyped
      BY <3>2 DEF SheetsTyped
    <3> QED BY <3>1, <3>2, <3>3 DEF MatchInv, Paired
  <2> QED BY <2>1, <2>2
<1>3. TableInv
  <2>1. CASE deskFocus = "table"
    BY <2>1, TableStarts DEF DeskInit
  <2>2. CASE deskFocus # "table"
    <3>1. today = 1 /\ onDisk = NoFiles /\ table = Unread /\ picked = NothingPicked
      BY <2>2 DEF DeskInit
    <3> QED BY <3>1 DEF TableInv, CollectedIsLive, NothingPicked, NoFiles
  <2> QED BY <2>1, <2>2
<1>4. AskedSignalInv
  BY SignalInvInit DEF DeskInit, AskedSignalInv
<1> QED BY <1>1, <1>2, <1>3, <1>4, FeedTypeInit, PaperStarts, StatsStart, RowsStart
        DEF DeskInvariants

LEMMA DeskStep == DeskInvariants /\ [DeskNext]_deskVars => DeskInvariants'
BY DeskSteps, FeedTypeNext, PaperStep, MatchStep, TableStep, AskedSignalStep, StatsStep,
   RowsStep DEF DeskInvariants

(* What the components promise one by one holds of the whole desk: honest   *)
(* ages and fresh prices, fills and averages near the truth, a sound        *)
(* matching, contracts that trade, the right week, statistics that match    *)
(* the trades, and numbers that grow.                                       *)
THEOREM DeskCorrect ==
  DeskSpec =>
    /\ [](FeedTypeOK /\ AgeHonest /\ MarksAreFresh /\ EntryPricesBounded)
    /\ [](FillBetweenLtpAndLimit /\ AverageNearCost /\ MatchingSound)
    /\ [](CollectedIsLive /\ WeekIsExplained /\ StatsMatchTrades /\ NumbersGrow)
<1>1. DeskInvariants =>
        /\ FeedTypeOK /\ AgeHonest /\ MarksAreFresh /\ EntryPricesBounded
        /\ FillBetweenLtpAndLimit /\ AverageNearCost /\ MatchingSound
        /\ CollectedIsLive /\ WeekIsExplained /\ StatsMatchTrades /\ NumbersGrow
  <2> SUFFICES ASSUME DeskInvariants
               PROVE  /\ FeedTypeOK /\ FeedInv /\ FillBetweenLtpAndLimit /\ AverageNearCost
                      /\ CollectedIsLive /\ WeekIsExplained /\ MatchInv /\ StatsInv /\ RowsInv
    BY FeedMeans, MatchMeans, StatsMean, RowsMean
  <2>1. WeekIsExplained
    BY DEF DeskInvariants, AskedSignalInv, SignalInv, WeekIsExplained, AtRest
  <2> QED BY <2>1 DEF DeskInvariants, FeedTypeInv, PaperInv, TableInv
<1> QED BY <1>1, DeskStarts, DeskStep, PTL DEF DeskSpec
=============================================================================
