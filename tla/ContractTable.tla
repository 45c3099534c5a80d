---------------------------- MODULE ContractTable ----------------------------
(***************************************************************************)
(* SymbolManager of symbol_manager.py: the contract tables it loads once   *)
(* from the symbols directory, and the contracts it picks from them for    *)
(* data collection, today or days later.  A table is kept per index: the   *)
(* days on which its futures and its options expire, its strikes and the   *)
(* sides listed.                                                           *)
(***************************************************************************)
EXTENDS Amounts, FiniteSets, FiniteSetsExt

CONSTANTS
  Indices,          \* NIFTY, BANKNIFTY, FINNIFTY
  ExpiryDays,       \* days on which a contract may expire
  StrikePrices,
  FuturePrices,     \* last prices of an index future; 0 is no price
  StrikeRange,      \* strikes above and below the price: 3
  MaxExpiries,      \* max_expiries_per_index
  LastDay           \* bound of the instance

ASSUME TableAssumption ==
  /\ ExpiryDays \subseteq Nat /\ StrikePrices \subseteq Nat /\ FuturePrices \subseteq Nat
  /\ IsFiniteSet(ExpiryDays) /\ IsFiniteSet(StrikePrices)
  /\ StrikeRange \in Nat /\ MaxExpiries \in Nat \ {0} /\ LastDay \in Nat

VARIABLES
  today,
  onDisk,           \* NSE.csv and NFO.csv of the symbols directory
  table,            \* nse_cash and nse_fo
  picked            \* the last selection

tableVars == <<today, onDisk, table, picked>>

Unread == [nse |-> FALSE, nfo |-> {}]
NothingPicked == [on |-> 0, spot |-> FALSE, futures |-> {}, options |-> {}, price |-> 0]

(* An index: when its futures and options expire, strikes, sides.           *)
Listing ==
  [index : Indices, futures : SUBSET ExpiryDays, expiries : SUBSET ExpiryDays,
   strikes : SUBSET StrikePrices, sides : {{"CE"}, {"CE", "PE"}}]

(* The files: NSE.csv is there, or not; NFO.csv lists one index at most, or *)
(* is missing.                                                              *)
TableInit ==
  /\ today = 1
  /\ onDisk \in [nse : BOOLEAN, nfo : {{l} : l \in Listing} \union {{}}]
  /\ table = Unread /\ picked = NothingPicked

NextDay == today < LastDay /\ today' = today + 1 /\ UNCHANGED <<onDisk, table, picked>>

(* load_symbol_files: a missing NSE.csv raises before anything is read, a   *)
(* missing NFO.csv after NSE.csv was.                                       *)
LoadSymbolFiles ==
  /\ table = Unread
  /\ onDisk.nse
  /\ table' = onDisk
  /\ UNCHANGED <<today, onDisk, picked>>

-----------------------------------------------------------------------------
ActiveAll(expiries) == expiries
Active(expiries) == {e \in expiries : e >= today}

(* get_index_futures: the nearest future that is not expired.               *)
IndexFuture(l) == IF Active(l.futures) = {} THEN {} ELSE {Min(Active(l.futures))}

(* strikeprice.diff().mode(): rows are sorted by strike, so a strike with   *)
(* both sides gives a difference of zero; the most frequent difference, the *)
(* smallest of those, and none when there is one row only.                  *)
Gaps(l) ==
  {Min({t \in l.strikes : t > s}) - s : s \in l.strikes \ {Max(l.strikes)}}
    \union (IF Cardinality(l.sides) = 2 THEN {0} ELSE {})
TimesSeen(l, gap) ==
  IF gap = 0 THEN Cardinality(l.strikes)
  ELSE Cardinality({s \in l.strikes :
         s + gap \in l.strikes /\ \A t \in l.strikes : t <= s \/ t >= s + gap})
StrikeInterval(l) ==
  CHOOSE g \in Gaps(l) : \A h \in Gaps(l) \ {g} :
    TimesSeen(l, g) > TimesSeen(l, h) \/ (TimesSeen(l, g) = TimesSeen(l, h) /\ g < h)

AtmStrike(l, price) ==
  CHOOSE s \in l.strikes : \A t \in l.strikes \ {s} :
    Size(s - price) < Size(t - price) \/ (Size(s - price) = Size(t - price) /\ s < t)

(* get_index_options for one index and expiry: nothing without a future and *)
(* its price, or from a table of one row.                                   *)
IndexOptions(l, expiry, price) ==
  IF IndexFuture(l) = {} \/ price = 0 \/ l.strikes = {} \/ Gaps(l) = {} THEN {}
  ELSE {[index |-> l.index, expiry |-> expiry, strike |-> s, side |-> side] :
         s \in {t \in l.strikes :
                 Size(t - AtmStrike(l, price)) <= StrikeRange * StrikeInterval(l)},
         side \in l.sides}

NearestTwo(l) ==
  {e \in Active(l.expiries) : Cardinality({f \in Active(l.expiries) : f < e}) < MaxExpiries}

(* get_all_index_derivatives: the loop over the expiries keeps what the last *)
(* one gave.                                                                *)
IndexDerivatives(l, price) ==
  IF Active(l.expiries) = {} \/ l.strikes = {} THEN {}
  ELSE IndexOptions(l, Max(NearestTwo(l)), price)

(* get_data_collection_symbols                                              *)
PickSymbols(price) ==
  /\ table # Unread
  /\ picked' = [on |-> today, spot |-> table.nse, price |-> price,
                futures |-> UNION {IndexFuture(l) : l \in table.nfo},
                options |-> UNION {IndexDerivatives(l, price) : l \in table.nfo}]
  /\ UNCHANGED <<today, onDisk, table>>

TableNext ==
  \/ NextDay
  \/ LoadSymbolFiles
  \/ \E price \in FuturePrices : PickSymbols(price)

TableSpec == TableInit /\ [][TableNext]_tableVars

-----------------------------------------------------------------------------
(* However long ago the table was read, what is collected can still be      *)
(* traded on the day it is picked, and no strike listed is nearer to the    *)
(* price than every strike picked (get_index_futures, get_index_options).   *)
CollectedIsLive ==
  /\ \A e \in picked.futures : e >= picked.on
  /\ \A o \in picked.options : o.expiry >= picked.on /\ picked.futures # {}
  /\ picked.options # {} =>
       \A l \in table.nfo : \A s \in l.strikes :
         \E o \in picked.options : Size(o.strike - picked.price) <= Size(s - picked.price)
=============================================================================
