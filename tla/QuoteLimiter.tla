---------------------------- MODULE QuoteLimiter ----------------------------
(***************************************************************************)
(* The quote rate limiter of api_helper.ShoonyaApiPy.  Two lanes share a   *)
(* quota per second and one per minute; the low lane has quotas of its own *)
(* besides, so that the collector cannot use up what the trader needs.     *)
(*                                                                         *)
(* A deque of time stamps is the set of the numbers of the slots it holds: *)
(* slot n was taken at taken[n].at, stamps only grow, so popping from the  *)
(* left while the head is too old removes exactly the slots too old.       *)
(***************************************************************************)
EXTENDS Integers, Sequences, FiniteSets

CONSTANTS
  Second, Minute,              \* window lengths, in ticks of the clock
  MaxPerSec, MaxPerMin,        \* quotas of both lanes together
  LowMaxPerSec, LowMaxPerMin,  \* quotas of the low lane
  MaxNow, MaxSlots             \* bounds of the instance

ASSUME LimiterAssumption ==
  /\ Second \in Nat \ {0} /\ Minute \in Nat \ {0}
  /\ MaxPerSec \in Nat \ {0} /\ MaxPerMin \in Nat \ {0}
  /\ LowMaxPerSec \in Nat \ {0} /\ LowMaxPerMin \in Nat \ {0}

VARIABLES
  now,                         \* time.monotonic()
  taken,                       \* history: every slot ever taken, [at, lane]
  secHits, minHits,            \* _quote_sec_hits, _quote_min_hits
  lowSecHits, lowMinHits,      \* _quote_low_sec_hits, _quote_low_min_hits
  wake                         \* when the caller in each lane stops sleeping

limiterVars == <<now, taken, secHits, minHits, lowSecHits, lowMinHits, wake>>

Lanes == {"high", "low"}
Slots == 1 .. Len(taken)

Smaller(m, n) == IF m <= n THEN m ELSE n
Least(S) == CHOOSE m \in S : \A n \in S : m <= n

LimiterInit ==
  /\ now = 0
  /\ taken = <<>>
  /\ secHits = {} /\ minHits = {} /\ lowSecHits = {} /\ lowMinHits = {}
  /\ wake = [lane \in Lanes |-> 0]

LimiterTick ==
  /\ now < MaxNow
  /\ now' = now + 1
  /\ UNCHANGED <<taken, secHits, minHits, lowSecHits, lowMinHits, wake>>

TrimHitsTooShort(held, width) == {n \in held : taken[n].at > now - width + 1}
TrimHits(held, width) == {n \in held : taken[n].at > now - width}

GlobalSecFull == Cardinality(TrimHits(secHits, Second)) >= MaxPerSec
GlobalMinFull == Cardinality(TrimHits(minHits, Minute)) >= MaxPerMin
LowSecFull ==
  Cardinality(TrimHits(lowSecHits, Second)) >= Smaller(LowMaxPerSec, MaxPerSec)
LowMinFull ==
  Cardinality(TrimHits(lowMinHits, Minute)) >= Smaller(LowMaxPerMin, MaxPerMin)

CanTakeIgnoringLow(lane) == ~GlobalSecFull /\ ~GlobalMinFull
CanTake(lane) ==
  /\ ~GlobalSecFull /\ ~GlobalMinFull
  /\ lane = "low" => ~LowSecFull /\ ~LowMinFull

(* The lock is held from the trimming to the return: one step.             *)
TakeSlot(lane) ==
  LET new == {Len(taken) + 1}
      newLow == IF lane = "low" THEN new ELSE {}
  IN /\ wake[lane] <= now /\ CanTake(lane)
     /\ Len(taken) < MaxSlots
     /\ taken' = Append(taken, [at |-> now, lane |-> lane])
     /\ secHits' = TrimHits(secHits, Second) \union new
     /\ minHits' = TrimHits(minHits, Minute) \union new
     /\ lowSecHits' = TrimHits(lowSecHits, Second) \union newLow
     /\ lowMinHits' = TrimHits(lowMinHits, Minute) \union newLow
     /\ UNCHANGED <<now, wake>>

(* When the first slot of a window leaves it, counted from now.            *)
LeavesLast(held, width) ==
  width - (now - taken[CHOOSE m \in held : \A n \in held : n <= m].at)
Leaves(held, width) == width - (now - taken[Least(TrimHits(held, width))].at)

Waits(lane) ==
  (IF GlobalSecFull THEN {Leaves(secHits, Second)} ELSE {})
  \union (IF GlobalMinFull THEN {Leaves(minHits, Minute)} ELSE {})
  \union (IF lane = "low" /\ LowSecFull THEN {Leaves(lowSecHits, Second)} ELSE {})
  \union (IF lane = "low" /\ LowMinFull THEN {Leaves(lowMinHits, Minute)} ELSE {})

WaitFor(lane) == Smaller(Least(Waits(lane)), Second)

(* A refused attempt trims too, and sleeps outside the lock, for at most a  *)
(* second, before it tries again.                                          *)
SleepForSlot(lane) ==
  /\ wake[lane] <= now /\ ~CanTake(lane)
  /\ secHits' = TrimHits(secHits, Second)
  /\ minHits' = TrimHits(minHits, Minute)
  /\ lowSecHits' = TrimHits(lowSecHits, Second)
  /\ lowMinHits' = TrimHits(lowMinHits, Minute)
  /\ wake' = [wake EXCEPT ![lane] = now + WaitFor(lane)]
  /\ UNCHANGED <<now, taken>>

LimiterNext ==
  \/ LimiterTick
  \/ \E lane \in Lanes : TakeSlot(lane) \/ SleepForSlot(lane)

LimiterSpec == LimiterInit /\ [][LimiterNext]_limiterVars

-----------------------------------------------------------------------------
InWindow(width, lanes) ==
  {n \in Slots : taken[n].at > now - width /\ taken[n].lane \in lanes}

(* Whatever the two lanes do, no second and no minute that ends now holds   *)
(* more slots than its quota: the window slides, it is not a bucket that    *)
(* refills (_acquire_quote_slot).                                           *)
QuotaKept ==
  /\ Cardinality(InWindow(Second, Lanes)) <= MaxPerSec
  /\ Cardinality(InWindow(Minute, Lanes)) <= MaxPerMin

(* The low lane never holds more of a window than its own quota, so the     *)
(* rest of the common quota is there for the trader however busy the        *)
(* collector is ("reserved capacity for high-priority paths").              *)
LowLaneShare ==
  /\ Cardinality(InWindow(Second, {"low"})) <= LowMaxPerSec
  /\ Cardinality(InWindow(Minute, {"low"})) <= LowMaxPerMin

(* A caller that sleeps before its next attempt sleeps only as long as its  *)
(* lane is full: no slot that it could have is let go by                    *)
(* (_acquire_quote_slot waits for the first window to open).                *)
SleepsOnlyWhileFull ==
  \A lane \in Lanes : wake[lane] > now => ~CanTake(lane)
=============================================================================
