------------------------------- MODULE Spreads -------------------------------
(***************************************************************************)
(* The vertical credit spread of the PCR strategy, its two option legs,    *)
(* and the position tracker's view of open legs.                           *)
(*                                                                         *)
(* A price never appears here: what a spread is, which two symbols it      *)
(* trades and how the tracker nets the fills of one symbol is all the      *)
(* session depends on.  Strikes are counted in NIFTY strike steps of 50    *)
(* points, quantities in multiples of the one order quantity               *)
(* lots * lot_size that every order of a session carries.                  *)
(***************************************************************************)
EXTENDS Integers

CONSTANTS
  Atms,      \* at-the-money strikes the spot can round to, in strike steps
  Expiries,  \* trading days on which a weekly NIFTY option expires
  Signals,   \* signals the PCR rule can give (settings.PCS_NO_PCR_FILTER)
  NoPos      \* the strategy's pos = None

ASSUME SpreadsAssumption ==
  /\ Atms \subseteq Int
  /\ Expiries \subseteq Nat
  /\ Signals \subseteq {"BEAR_CALL", "BULL_PUT"}

ShortOtm == 4   \* PCS_SHORT_OTM_PTS = 200 points
LongOtm  == 8   \* PCS_LONG_OTM_PTS  = 400 points

\* A PCS_Position, reduced to what the symbols and the exit rules depend on.
Position == [signal : Signals, atm : Atms, expiry : Expiries]

ASSUME NoPosAssumption == NoPos \notin Position

MaybePosition == Position \cup {NoPos}

(* A trading symbol is built from expiry, option type and strike.           *)
Symbol(p, otm) ==
  IF p.signal = "BULL_PUT"
    THEN [type |-> "PE", strike |-> p.atm - otm, expiry |-> p.expiry]
    ELSE [type |-> "CE", strike |-> p.atm + otm, expiry |-> p.expiry]

ShortSym(p) == Symbol(p, ShortOtm)
LongSym(p)  == Symbol(p, LongOtm)

Symbols == {ShortSym(p) : p \in Position} \cup {LongSym(p) : p \in Position}

-----------------------------------------------------------------------------
(* PaperPositionTracker._positions as the signed quantity of every symbol.  *)
(* The code deletes a key whose quantity nets to zero, so an absent key and *)
(* a zero are the same thing.                                               *)
Books == [Symbols -> Int]

Flat == [s \in Symbols |-> 0]

\* add_position: a BUY adds one order quantity, a SELL subtracts one.
AddPosition(book, sym, side) ==
  [book EXCEPT ![sym] = @ + (IF side = "B" THEN 1 ELSE -1)]

HasOpenPositions(book) == \E s \in Symbols : book[s] # 0

\* What holding p should look like in the tracker.
ShortLeg(p) == [s \in Symbols |-> IF s = ShortSym(p) THEN -1 ELSE 0]
LongLeg(p)  == [s \in Symbols |-> IF s = LongSym(p) THEN 1 ELSE 0]

Exposure(p) ==
  IF p = NoPos THEN Flat
  ELSE [s \in Symbols |-> ShortLeg(p)[s] + LongLeg(p)[s]]
=============================================================================
