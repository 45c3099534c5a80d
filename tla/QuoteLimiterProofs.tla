------------------------- MODULE QuoteLimiterProofs -------------------------
(***************************************************************************)
(* The quotas of the two lanes hold, and no caller oversleeps, for every   *)
(* window length, every quota and every number of slots.                   *)
(***************************************************************************)
EXTENDS QuoteLimiter, AmountsProofs, SequenceTheorems

(* A set of numbers has a least one.                                        *)
LEMMA LeastIsLeast ==
  ASSUME NEW S \in SUBSET Nat, S # {}
  PROVE  Least(S) \in S /\ \A n \in S : Least(S) <= n
<1>1. \E m \in S : \A n \in S : m <= n
  BY LeastNatural
<1> QED BY <1>1 DEF Least

-----------------------------------------------------------------------------
(* The inductive invariant: what is held are slots, in the order of their   *)
(* stamps; every slot of a window is held in the deque of that window, and  *)
(* no deque holds more than its quota.                                      *)
Typed ==
  /\ now \in Nat
  /\ taken \in Seq([at : Nat, lane : Lanes])
  /\ secHits \subseteq Slots /\ minHits \subseteq Slots
  /\ lowSecHits \subseteq Slots /\ lowMinHits \subseteq Slots
  /\ wake \in [Lanes -> Int]

Ordered ==
  /\ \A n \in Slots : taken[n].at <= now
  /\ \A m, n \in Slots : m <= n => taken[m].at <= taken[n].at

Keeps ==
  /\ InWindow(Second, Lanes) \subseteq secHits
  /\ InWindow(Minute, Lanes) \subseteq minHits
  /\ InWindow(Second, {"low"}) \subseteq lowSecHits
  /\ InWindow(Minute, {"low"}) \subseteq lowMinHits

Bounded ==
  /\ Cardinality(secHits) <= MaxPerSec
  /\ Cardinality(minHits) <= MaxPerMin
  /\ Cardinality(lowSecHits) <= LowMaxPerSec
  /\ Cardinality(lowMinHits) <= LowMaxPerMin

(* A window stays full until t when enough of its slots leave it at t or    *)
(* later.                                                                   *)
FullUntil(held, width, quota, t) ==
  Cardinality({n \in held : taken[n].at >= t - width}) >= quota

SleepIsJustified ==
  \A lane \in Lanes : wake[lane] > now =>
    \/ FullUntil(secHits, Second, MaxPerSec, wake[lane])
    \/ FullUntil(minHits, Minute, MaxPerMin, wake[lane])
    \/ lane = "low" /\ FullUntil(lowSecHits, Second, Smaller(LowMaxPerSec, MaxPerSec), wake[lane])
    \/ lane = "low" /\ FullUntil(lowMinHits, Minute, Smaller(LowMaxPerMin, MaxPerMin), wake[lane])

LimiterInv == Typed /\ Ordered /\ Keeps /\ Bounded /\ SleepIsJustified

-----------------------------------------------------------------------------
(* What a deque becomes.                                                    *)

LEMMA StampsAreTimes ==
  ASSUME Typed
  PROVE  now \in Nat /\ Len(taken) \in Nat /\ \A n \in Slots : taken[n].at \in Nat
<1>1. Len(taken) \in Nat
  BY DEF Typed
<1>2. \A n \in 1 .. Len(taken) : taken[n] \in [at : Nat, lane : Lanes]
  BY ElementOfSeq DEF Typed
<1> QED BY <1>1, <1>2 DEF Typed, Slots

LEMMA HeldIsFinite ==
  ASSUME Typed, NEW held, held \subseteq Slots
  PROVE  IsFiniteSet(held) /\ Cardinality(held) \in Nat
<1>1. Len(taken) \in Nat
  BY DEF Typed
<1>2. IsFiniteSet(Slots)
  BY <1>1, FS_Interval DEF Slots
<1>3. IsFiniteSet(held)
  BY <1>2, FS_Subset
<1> QED BY <1>3, FS_CardinalityType

LEMMA TrimKeepsSlots ==
  ASSUME NEW held, held \subseteq Slots, NEW width
  PROVE  TrimHits(held, width) \subseteq held
  BY DEF TrimHits

LEMMA TrimNeverGrows ==
  ASSUME Typed, NEW held, held \subseteq Slots, NEW width
  PROVE  Cardinality(TrimHits(held, width)) <= Cardinality(held)
  BY HeldIsFinite, TrimKeepsSlots, FS_Subset

(* A slot is added to a deque that is not full.                             *)
LEMMA TakeKeepsQuota ==
  ASSUME Typed, NEW held, held \subseteq Slots, NEW width, NEW quota \in Nat,
         Cardinality(TrimHits(held, width)) < quota
  PROVE  Cardinality(TrimHits(held, width) \union {Len(taken) + 1}) <= quota
<1> DEFINE kept == TrimHits(held, width)
<1>1. kept \subseteq Slots
  BY TrimKeepsSlots
<1>2. IsFiniteSet(kept) /\ Cardinality(kept) \in Nat
  BY <1>1, HeldIsFinite
<1>3. Cardinality(kept \union {Len(taken) + 1}) \in {Cardinality(kept), Cardinality(kept) + 1}
  BY <1>2, FS_AddElement
<1> QED BY <1>2, <1>3

(* Trimming takes nothing out of the window that ends now.                  *)
LEMMA TrimKeepsWindow ==
  ASSUME NEW held, NEW width, NEW lanes, InWindow(width, lanes) \subseteq held
  PROVE  InWindow(width, lanes) \subseteq TrimHits(held, width)
  BY DEF InWindow, TrimHits

(* A window stays full while its deque is trimmed before t.                 *)
LEMMA TrimKeepsFull ==
  ASSUME Typed, NEW held, held \subseteq Slots, NEW width \in Nat, NEW quota \in Nat,
         NEW t \in Int, t > now, FullUntil(held, width, quota, t)
  PROVE  FullUntil(TrimHits(held, width), width, quota, t)
<1>1. {n \in held : taken[n].at >= t - width}
        = {n \in TrimHits(held, width) : taken[n].at >= t - width}
  BY StampsAreTimes DEF TrimHits
<1> QED BY <1>1 DEF FullUntil

(* ... and while time passes up to it.                                      *)
LEMMA FullBefore ==
  ASSUME Typed, NEW held, held \subseteq Slots, NEW width \in Nat, NEW quota \in Nat,
         NEW t \in Int, t > now, FullUntil(held, width, quota, t)
  PROVE  Cardinality(TrimHits(held, width)) >= quota
<1> DEFINE late == {n \in held : taken[n].at >= t - width}
<1>1. late \in SUBSET TrimHits(held, width)
  BY StampsAreTimes DEF TrimHits
<1>2. IsFiniteSet(TrimHits(held, width)) /\ Cardinality(TrimHits(held, width)) \in Nat
  BY HeldIsFinite, TrimKeepsSlots
<1>3. Cardinality(late) <= Cardinality(TrimHits(held, width))
  BY <1>1, <1>2, FS_Subset
<1>4. Cardinality(late) \in Nat
  BY HeldIsFinite
<1> QED BY <1>2, <1>3, <1>4 DEF FullUntil

(* A full window stays full until the first of its slots leaves it.         *)
LEMMA FullUntilFirstLeaves ==
  ASSUME Typed, Ordered, NEW held, held \subseteq Slots, NEW width \in Nat,
         NEW quota \in Nat \ {0}, Cardinality(TrimHits(held, width)) >= quota,
         NEW t \in Int, t <= now + Leaves(held, width)
  PROVE  FullUntil(TrimHits(held, width), width, quota, t)
<1> DEFINE kept == TrimHits(held, width)
           first == Least(kept)
<1>1. kept \subseteq Slots /\ IsFiniteSet(kept)
  BY TrimKeepsSlots, HeldIsFinite
<1>2. kept # {}
  BY <1>1, FS_EmptySet
<1>3. first \in kept /\ \A n \in kept : first <= n
  <2>1. kept \in SUBSET Nat
    BY <1>1 DEF Slots
  <2> QED BY <1>2, <2>1, LeastIsLeast
<1>4. taken[first].at >= t - width
  <2>1. taken[first].at \in Nat /\ now \in Nat
    BY <1>1, <1>3, StampsAreTimes
  <2> QED BY <2>1 DEF Leaves
<1>5. \A n \in kept : taken[n].at >= t - width
  <2> SUFFICES ASSUME NEW n \in kept PROVE taken[n].at >= t - width
    OBVIOUS
  <2>1. taken[first].at <= taken[n].at
    BY <1>1, <1>3 DEF Ordered
  <2>2. taken[first].at \in Nat /\ taken[n].at \in Nat
    BY <1>1, <1>3, StampsAreTimes
  <2> QED BY <1>4, <2>1, <2>2
<1>6. {n \in kept : taken[n].at >= t - width} = kept
  BY <1>5
<1> QED BY <1>6 DEF FullUntil

(* One more slot, of that lane, taken now.                                  *)
LEMMA TakeKeepsWindow ==
  ASSUME Typed, NEW held, NEW width \in Nat, NEW lanes, NEW lane \in Lanes,
         InWindow(width, lanes) \subseteq held, now' = now,
         taken' = Append(taken, [at |-> now, lane |-> lane])
  PROVE  InWindow(width, lanes)' \subseteq
           TrimHits(held, width) \union (IF lane \in lanes THEN {Len(taken) + 1} ELSE {})
<1>1. /\ Len(taken) \in Nat /\ Len(taken') = Len(taken) + 1
      /\ \A n \in 1 .. Len(taken) : taken'[n] = taken[n]
      /\ taken'[Len(taken) + 1] = [at |-> now, lane |-> lane]
  BY DEF Typed
<1> SUFFICES ASSUME NEW n \in InWindow(width, lanes)'
             PROVE  n \in TrimHits(held, width)
                      \union (IF lane \in lanes THEN {Len(taken) + 1} ELSE {})
  OBVIOUS
<1>2. n \in 1 .. Len(taken') /\ taken'[n].at > now - width /\ taken'[n].lane \in lanes
  BY DEF InWindow, Slots
<1>3. CASE n = Len(taken) + 1
  BY <1>1, <1>2, <1>3
<1>4. CASE n \in 1 .. Len(taken)
  <2>1. n \in InWindow(width, lanes)
    BY <1>1, <1>2, <1>4 DEF InWindow, Slots
  <2> QED BY <2>1, <1>1, <1>2, <1>4 DEF TrimHits
<1> QED BY <1>1, <1>2, <1>3, <1>4

(* A slot taken leaves a window full that was full: stamps of older slots   *)
(* stay, and there is one slot more at most.                                *)
LEMMA TakeKeepsFull ==
  ASSUME Typed, NEW held, held \subseteq Slots, NEW width \in Nat, NEW quota \in Nat,
         NEW t \in Int, t > now, FullUntil(held, width, quota, t),
         \A n \in Slots : taken'[n] = taken[n],
         NEW next, TrimHits(held, width) \subseteq next,
         next \subseteq TrimHits(held, width) \union {Len(taken) + 1},
         NEW after, \A n : n \in after <=> n \in next /\ taken'[n].at >= t - width
  PROVE  Cardinality(after) >= quota
<1> DEFINE before == {n \in TrimHits(held, width) : taken[n].at >= t - width}
<1>1. Cardinality(before) >= quota
  <2>1. FullUntil(TrimHits(held, width), width, quota, t)
    BY TrimKeepsFull
  <2> QED BY <2>1 DEF FullUntil
<1>2. TrimHits(held, width) \subseteq Slots
  BY TrimKeepsSlots
<1>4. before \in SUBSET after
  BY <1>2
<1>5. IsFiniteSet(after)
  <2>1. IsFiniteSet(TrimHits(held, width))
    BY <1>2, HeldIsFinite
  <2>2. IsFiniteSet(TrimHits(held, width) \union {Len(taken) + 1})
    BY <2>1, FS_AddElement
  <2>3. after \in SUBSET (TrimHits(held, width) \union {Len(taken) + 1})
    OBVIOUS
  <2> QED BY <2>2, <2>3, FS_Subset
<1>6. Cardinality(before) <= Cardinality(after)
  BY <1>4, <1>5, FS_Subset
<1>7. Cardinality(before) \in Nat /\ Cardinality(after) \in Nat
  BY <1>4, <1>5, FS_Subset, FS_CardinalityType
<1> HIDE DEF before
<1> QED BY <1>1, <1>6, <1>7

-----------------------------------------------------------------------------
(* The invariant is inductive.                                              *)

LEMMA LimiterInvInit == LimiterInit => LimiterInv
<1> SUFFICES ASSUME LimiterInit PROVE LimiterInv
  OBVIOUS
<1> USE LimiterAssumption DEF LimiterInit
<1>1. Slots = {}
  BY DEF Slots
<1>2. Typed
  BY EmptySeq DEF Typed
<1>3. Ordered /\ Keeps
  BY <1>1 DEF Ordered, Keeps, InWindow
<1>4. Bounded
  BY FS_EmptySet DEF Bounded
<1>5. SleepIsJustified
  BY DEF SleepIsJustified
<1> QED BY <1>2, <1>3, <1>4, <1>5 DEF LimiterInv

LEMMA TickKeepsInv == LimiterInv /\ LimiterTick => LimiterInv'
<1> SUFFICES ASSUME LimiterInv, LimiterTick PROVE LimiterInv'
  OBVIOUS
<1> USE LimiterAssumption DEF LimiterInv, LimiterTick
<1>1. now \in Nat /\ now' = now + 1 /\ \A n \in Slots : taken[n].at \in Nat
  BY StampsAreTimes
<1>2. Typed'
  BY <1>1 DEF Typed, Slots
<1>3. Ordered'
  BY <1>1 DEF Ordered, Slots
<1>4. Keeps'
  <2>1. \A width \in Nat : \A lanes : InWindow(width, lanes)' \subseteq InWindow(width, lanes)
    BY <1>1 DEF InWindow, Slots
  <2> QED BY <2>1 DEF Keeps
<1>5. Bounded'
  BY DEF Bounded
<1>6. SleepIsJustified'
  <2>1. \A lane \in Lanes : wake[lane] > now' => wake[lane] > now
    BY <1>1 DEF Typed
  <2> QED BY <2>1 DEF SleepIsJustified, FullUntil
<1> QED BY <1>2, <1>3, <1>4, <1>5, <1>6

LEMMA TakeKeepsInv ==
  ASSUME NEW lane \in Lanes, LimiterInv, TakeSlot(lane)
  PROVE  LimiterInv'
<1> USE LimiterAssumption DEF LimiterInv
<1> DEFINE new == {Len(taken) + 1}
           newLow == IF lane = "low" THEN new ELSE {}
<1>1. /\ CanTake(lane)
      /\ taken' = Append(taken, [at |-> now, lane |-> lane])
      /\ secHits' = TrimHits(secHits, Second) \union new
      /\ minHits' = TrimHits(minHits, Minute) \union new
      /\ lowSecHits' = TrimHits(lowSecHits, Second) \union newLow
      /\ lowMinHits' = TrimHits(lowMinHits, Minute) \union newLow
      /\ now' = now /\ wake' = wake
  BY DEF TakeSlot
<1>2. /\ now \in Nat /\ Len(taken) \in Nat
      /\ \A n \in Slots : taken[n].at \in Nat
  BY StampsAreTimes
<1>3. /\ secHits \subseteq Slots /\ minHits \subseteq Slots
      /\ lowSecHits \subseteq Slots /\ lowMinHits \subseteq Slots
  BY DEF Typed
<1>4. /\ TrimHits(secHits, Second) \subseteq Slots /\ TrimHits(minHits, Minute) \subseteq Slots
      /\ TrimHits(lowSecHits, Second) \subseteq Slots
      /\ TrimHits(lowMinHits, Minute) \subseteq Slots
  BY <1>3 DEF TrimHits
<1>5. /\ taken' \in Seq([at : Nat, lane : Lanes]) /\ Len(taken') = Len(taken) + 1
      /\ \A n \in 1 .. Len(taken) : taken'[n] = taken[n]
      /\ taken'[Len(taken) + 1] = [at |-> now, lane |-> lane]
  BY <1>1, <1>2, AppendProperties DEF Typed
<1>6. Slots \subseteq Slots' /\ new \subseteq Slots'
  BY <1>2, <1>5 DEF Slots
<1>7. Typed'
  <2>1. secHits' \subseteq Slots' /\ minHits' \subseteq Slots'
    BY <1>1, <1>4, <1>6
  <2>2. lowSecHits' \subseteq Slots' /\ lowMinHits' \subseteq Slots'
    BY <1>1, <1>4, <1>6
  <2> QED BY <1>1, <1>2, <1>5, <2>1, <2>2 DEF Typed
<1>8. Ordered'
  BY <1>1, <1>2, <1>5 DEF Ordered, Slots
<1>9. Keeps'
  <2>1. InWindow(Second, Lanes)' \subseteq secHits'
    BY <1>1, TakeKeepsWindow DEF Keeps
  <2>2. InWindow(Minute, Lanes)' \subseteq minHits'
    BY <1>1, TakeKeepsWindow DEF Keeps
  <2>3. InWindow(Second, {"low"})' \subseteq lowSecHits'
    BY <1>1, TakeKeepsWindow DEF Keeps
  <2>4. InWindow(Minute, {"low"})' \subseteq lowMinHits'
    BY <1>1, TakeKeepsWindow DEF Keeps
  <2> QED BY <2>1, <2>2, <2>3, <2>4 DEF Keeps
<1>10. Bounded'
  <2>1. /\ Cardinality(TrimHits(secHits, Second)) \in Nat
        /\ Cardinality(TrimHits(minHits, Minute)) \in Nat
        /\ Cardinality(TrimHits(lowSecHits, Second)) \in Nat
        /\ Cardinality(TrimHits(lowMinHits, Minute)) \in Nat
        /\ Cardinality(lowSecHits) \in Nat /\ Cardinality(lowMinHits) \in Nat
    BY <1>3, <1>4, HeldIsFinite
  <2>2. Cardinality(secHits') <= MaxPerSec
    <3>1. Cardinality(TrimHits(secHits, Second)) < MaxPerSec
      BY <1>1, <2>1 DEF CanTake, GlobalSecFull
    <3> QED BY <1>1, <1>3, <3>1, TakeKeepsQuota
  <2>3. Cardinality(minHits') <= MaxPerMin
    <3>1. Cardinality(TrimHits(minHits, Minute)) < MaxPerMin
      BY <1>1, <2>1 DEF CanTake, GlobalMinFull
    <3> QED BY <1>1, <1>3, <3>1, TakeKeepsQuota
  <2>4. Cardinality(lowSecHits') <= LowMaxPerSec
    <3>1. CASE lane = "low"
      <4>1. Cardinality(TrimHits(lowSecHits, Second)) < LowMaxPerSec
        BY <1>1, <2>1, <3>1 DEF CanTake, LowSecFull, Smaller
      <4> QED BY <1>1, <1>3, <3>1, <4>1, TakeKeepsQuota
    <3>2. CASE lane # "low"
      <4>1. lowSecHits' = TrimHits(lowSecHits, Second)
        BY <1>1, <3>2
      <4>2. Cardinality(TrimHits(lowSecHits, Second)) <= Cardinality(lowSecHits)
        BY <1>3, TrimNeverGrows
      <4>3. Cardinality(lowSecHits) <= LowMaxPerSec
        BY DEF Bounded
      <4> QED BY <2>1, <4>1, <4>2, <4>3
    <3> QED BY <3>1, <3>2
  <2>5. Cardinality(lowMinHits') <= LowMaxPerMin
    <3>1. CASE lane = "low"
      <4>1. Cardinality(TrimHits(lowMinHits, Minute)) < LowMaxPerMin
        BY <1>1, <2>1, <3>1 DEF CanTake, LowMinFull, Smaller
      <4> QED BY <1>1, <1>3, <3>1, <4>1, TakeKeepsQuota
    <3>2. CASE lane # "low"
      <4>1. lowMinHits' = TrimHits(lowMinHits, Minute)
        BY <1>1, <3>2
      <4>2. Cardinality(TrimHits(lowMinHits, Minute)) <= Cardinality(lowMinHits)
        BY <1>3, TrimNeverGrows
      <4>3. Cardinality(lowMinHits) <= LowMaxPerMin
        BY DEF Bounded
      <4> QED BY <2>1, <4>1, <4>2, <4>3
    <3> QED BY <3>1, <3>2
  <2> QED BY <2>2, <2>3, <2>4, <2>5 DEF Bounded
<1>11. SleepIsJustified'
  <2> SUFFICES ASSUME NEW other \in Lanes, (wake[other] > now)'
               PROVE  \/ FullUntil(secHits, Second, MaxPerSec, wake[other])'
                      \/ FullUntil(minHits, Minute, MaxPerMin, wake[other])'
                      \/ /\ other = "low"
                         /\ FullUntil(lowSecHits, Second, Smaller(LowMaxPerSec, MaxPerSec), wake[other])'
                      \/ /\ other = "low"
                         /\ FullUntil(lowMinHits, Minute, Smaller(LowMaxPerMin, MaxPerMin), wake[other])'
    BY DEF SleepIsJustified
  <2>1. wake[other] \in Int /\ wake[other] > now /\ wake' = wake
    BY <1>1 DEF Typed
  <2>2. /\ Smaller(LowMaxPerSec, MaxPerSec) \in Nat
        /\ Smaller(LowMaxPerMin, MaxPerMin) \in Nat
    BY DEF Smaller
  <2>9. /\ Second \in Nat /\ Minute \in Nat /\ MaxPerSec \in Nat /\ MaxPerMin \in Nat
        /\ \A n \in Slots : taken'[n] = taken[n]
    BY <1>5 DEF Slots
  <2>7. /\ TrimHits(secHits, Second) \subseteq secHits'
        /\ secHits' \subseteq TrimHits(secHits, Second) \union {Len(taken) + 1}
        /\ TrimHits(minHits, Minute) \subseteq minHits'
        /\ minHits' \subseteq TrimHits(minHits, Minute) \union {Len(taken) + 1}
    BY <1>1
  <2>8. /\ TrimHits(lowSecHits, Second) \subseteq lowSecHits'
        /\ lowSecHits' \subseteq TrimHits(lowSecHits, Second) \union {Len(taken) + 1}
        /\ TrimHits(lowMinHits, Minute) \subseteq lowMinHits'
        /\ lowMinHits' \subseteq TrimHits(lowMinHits, Minute) \union {Len(taken) + 1}
    BY <1>1
  <2>3. CASE FullUntil(secHits, Second, MaxPerSec, wake[other])
    <3> DEFINE late == {n \in secHits' : taken'[n].at >= wake[other] - Second}
    <3>2. \A n : n \in late <=> n \in secHits' /\ taken'[n].at >= wake[other] - Second
      OBVIOUS
    <3> HIDE DEF late
    <3>1. Cardinality(late) >= MaxPerSec
      BY <1>1, <1>3, <2>1, <2>7, <2>9, <2>3, <3>2, TakeKeepsFull
    <3> QED BY <2>1, <3>1 DEF FullUntil, late
  <2>4. CASE FullUntil(minHits, Minute, MaxPerMin, wake[other])
    <3> DEFINE late == {n \in minHits' : taken'[n].at >= wake[other] - Minute}
    <3>2. \A n : n \in late <=> n \in minHits' /\ taken'[n].at >= wake[other] - Minute
      OBVIOUS
    <3> HIDE DEF late
    <3>1. Cardinality(late) >= MaxPerMin
      BY <1>1, <1>3, <2>1, <2>7, <2>9, <2>4, <3>2, TakeKeepsFull
    <3> QED BY <2>1, <3>1 DEF FullUntil, late
  <2>5. CASE other = "low" /\ FullUntil(lowSecHits, Second, Smaller(LowMaxPerSec, MaxPerSec), wake[other])
    <3> DEFINE late == {n \in lowSecHits' : taken'[n].at >= wake[other] - Second}
    <3>2. \A n : n \in late <=> n \in lowSecHits' /\ taken'[n].at >= wake[other] - Second
      OBVIOUS
    <3> HIDE DEF late
    <3>1. Cardinality(late)
            >= Smaller(LowMaxPerSec, MaxPerSec)
      BY <1>1, <1>3, <2>1, <2>2, <2>8, <2>9, <2>5, <3>2, TakeKeepsFull
    <3> QED BY <2>1, <2>5, <3>1 DEF FullUntil, late
  <2>6. CASE other = "low" /\ FullUntil(lowMinHits, Minute, Smaller(LowMaxPerMin, MaxPerMin), wake[other])
    <3> DEFINE late == {n \in lowMinHits' : taken'[n].at >= wake[other] - Minute}
    <3>2. \A n : n \in late <=> n \in lowMinHits' /\ taken'[n].at >= wake[other] - Minute
      OBVIOUS
    <3> HIDE DEF late
    <3>1. Cardinality(late)
            >= Smaller(LowMaxPerMin, MaxPerMin)
      BY <1>1, <1>3, <2>1, <2>2, <2>8, <2>9, <2>6, <3>2, TakeKeepsFull
    <3> QED BY <2>1, <2>6, <3>1 DEF FullUntil, late
  <2> QED BY <2>1, <2>3, <2>4, <2>5, <2>6 DEF SleepIsJustified
<1> QED BY <1>7, <1>8, <1>9, <1>10, <1>11

(* The first slot of a full window leaves it later than now.                *)
LEMMA LeavesLater ==
  ASSUME Typed, NEW held, held \subseteq Slots, NEW width \in Nat,
         NEW quota \in Nat \ {0}, Cardinality(TrimHits(held, width)) >= quota
  PROVE  Leaves(held, width) \in Nat
<1> DEFINE kept == TrimHits(held, width)
<1>1. kept \in SUBSET Slots /\ kept # {}
  BY TrimKeepsSlots, FS_EmptySet
<1>2. Least(kept) \in kept
  <2>1. kept \in SUBSET Nat
    BY <1>1 DEF Slots
  <2> QED BY <1>1, <2>1, LeastIsLeast
<1>3. taken[Least(kept)].at \in Nat /\ taken[Least(kept)].at > now - width /\ now \in Nat
  BY <1>1, <1>2, StampsAreTimes DEF TrimHits
<1> QED BY <1>3 DEF Leaves

LEMMA SleepKeepsInv ==
  ASSUME NEW lane \in Lanes, LimiterInv, SleepForSlot(lane)
  PROVE  LimiterInv'
<1> USE LimiterAssumption DEF LimiterInv
<1> DEFINE lowPerSec == Smaller(LowMaxPerSec, MaxPerSec)
           lowPerMin == Smaller(LowMaxPerMin, MaxPerMin)
<1>1. /\ ~CanTake(lane)
      /\ secHits' = TrimHits(secHits, Second) /\ minHits' = TrimHits(minHits, Minute)
      /\ lowSecHits' = TrimHits(lowSecHits, Second)
      /\ lowMinHits' = TrimHits(lowMinHits, Minute)
      /\ wake' = [wake EXCEPT ![lane] = now + WaitFor(lane)]
      /\ now' = now /\ taken' = taken
  BY DEF SleepForSlot
<1>2. now \in Nat /\ Slots' = Slots
  BY <1>1 DEF Slots, Typed
<1>3. /\ secHits \subseteq Slots /\ minHits \subseteq Slots
      /\ lowSecHits \subseteq Slots /\ lowMinHits \subseteq Slots
  BY DEF Typed
<1>4. /\ TrimHits(secHits, Second) \subseteq Slots /\ TrimHits(minHits, Minute) \subseteq Slots
      /\ TrimHits(lowSecHits, Second) \subseteq Slots
      /\ TrimHits(lowMinHits, Minute) \subseteq Slots
  BY <1>3 DEF TrimHits
<1>5. lowPerSec \in Nat \ {0} /\ lowPerMin \in Nat \ {0}
  BY DEF Smaller
<1>6. /\ Cardinality(TrimHits(secHits, Second)) \in Nat
      /\ Cardinality(TrimHits(minHits, Minute)) \in Nat
      /\ Cardinality(TrimHits(lowSecHits, Second)) \in Nat
      /\ Cardinality(TrimHits(lowMinHits, Minute)) \in Nat
  BY <1>4, HeldIsFinite
<1>7. /\ GlobalSecFull => Leaves(secHits, Second) \in Nat
      /\ GlobalMinFull => Leaves(minHits, Minute) \in Nat
      /\ LowSecFull => Leaves(lowSecHits, Second) \in Nat
      /\ LowMinFull => Leaves(lowMinHits, Minute) \in Nat
  <2>1. GlobalSecFull => Leaves(secHits, Second) \in Nat
    BY <1>3, LeavesLater DEF GlobalSecFull
  <2>2. GlobalMinFull => Leaves(minHits, Minute) \in Nat
    BY <1>3, LeavesLater DEF GlobalMinFull
  <2>3. LowSecFull => Leaves(lowSecHits, Second) \in Nat
    BY <1>3, <1>5, LeavesLater DEF LowSecFull
  <2>4. LowMinFull => Leaves(lowMinHits, Minute) \in Nat
    BY <1>3, <1>5, LeavesLater DEF LowMinFull
  <2> QED BY <2>1, <2>2, <2>3, <2>4
<1>8. WaitFor(lane) \in Int /\ \A wait \in Waits(lane) : WaitFor(lane) <= wait
  <2>1. Waits(lane) \in SUBSET Nat
    BY <1>7 DEF Waits
  <2>2. Waits(lane) # {}
    BY <1>1 DEF Waits, CanTake
  <2>3. Least(Waits(lane)) \in Nat /\ \A wait \in Waits(lane) : Least(Waits(lane)) <= wait
    BY <2>1, <2>2, LeastIsLeast
  <2>4. WaitFor(lane) \in Int /\ WaitFor(lane) <= Least(Waits(lane))
    BY <2>3 DEF WaitFor, Smaller
  <2> QED BY <2>1, <2>3, <2>4
<1>9. Typed'
  BY <1>1, <1>2, <1>4, <1>8 DEF Typed
<1>10. Ordered'
  BY <1>1, <1>2 DEF Ordered
<1>11. Keeps'
  <2>1. \A width, lanes : InWindow(width, lanes)' = InWindow(width, lanes)
    BY <1>1, <1>2 DEF InWindow
  <2>2. InWindow(Second, Lanes)' \subseteq secHits'
    BY <1>1, <2>1, TrimKeepsWindow DEF Keeps
  <2>3. InWindow(Minute, Lanes)' \subseteq minHits'
    BY <1>1, <2>1, TrimKeepsWindow DEF Keeps
  <2>4. InWindow(Second, {"low"})' \subseteq lowSecHits'
    BY <1>1, <2>1, TrimKeepsWindow DEF Keeps
  <2>5. InWindow(Minute, {"low"})' \subseteq lowMinHits'
    BY <1>1, <2>1, TrimKeepsWindow DEF Keeps
  <2> QED BY <2>2, <2>3, <2>4, <2>5 DEF Keeps
<1>12. Bounded'
  <2>1. /\ Cardinality(TrimHits(secHits, Second)) <= Cardinality(secHits)
        /\ Cardinality(TrimHits(minHits, Minute)) <= Cardinality(minHits)
        /\ Cardinality(TrimHits(lowSecHits, Second)) <= Cardinality(lowSecHits)
        /\ Cardinality(TrimHits(lowMinHits, Minute)) <= Cardinality(lowMinHits)
    BY <1>3, TrimNeverGrows
  <2>2. /\ Cardinality(secHits) \in Nat /\ Cardinality(minHits) \in Nat
        /\ Cardinality(lowSecHits) \in Nat /\ Cardinality(lowMinHits) \in Nat
    BY <1>3, HeldIsFinite
  <2> QED BY <1>1, <1>6, <2>1, <2>2 DEF Bounded
<1>13. SleepIsJustified'
  <2> SUFFICES ASSUME NEW other \in Lanes, (wake[other] > now)'
               PROVE  \/ FullUntil(secHits, Second, MaxPerSec, wake[other])'
                      \/ FullUntil(minHits, Minute, MaxPerMin, wake[other])'
                      \/ other = "low" /\ FullUntil(lowSecHits, Second, lowPerSec, wake[other])'
                      \/ other = "low" /\ FullUntil(lowMinHits, Minute, lowPerMin, wake[other])'
    BY DEF SleepIsJustified
  <2> DEFINE t == wake'[other]
  <2>1. t \in Int /\ t > now
    BY <1>1, <1>9 DEF Typed
  <2>2. \/ FullUntil(TrimHits(secHits, Second), Second, MaxPerSec, t)
        \/ FullUntil(TrimHits(minHits, Minute), Minute, MaxPerMin, t)
        \/ other = "low" /\ FullUntil(TrimHits(lowSecHits, Second), Second, lowPerSec, t)
        \/ other = "low" /\ FullUntil(TrimHits(lowMinHits, Minute), Minute, lowPerMin, t)
    <3>1. CASE other = lane
      <4>1. t = now + WaitFor(lane)
        BY <1>1, <3>1 DEF Typed
      <4>2. CASE GlobalSecFull
        <5>1. t <= now + Leaves(secHits, Second)
          BY <1>2, <1>7, <1>8, <4>1, <4>2 DEF Waits
        <5> QED BY <1>3, <2>1, <4>2, <5>1, FullUntilFirstLeaves DEF GlobalSecFull
      <4>3. CASE GlobalMinFull
        <5>1. t <= now + Leaves(minHits, Minute)
          BY <1>2, <1>7, <1>8, <4>1, <4>3 DEF Waits
        <5> QED BY <1>3, <2>1, <4>3, <5>1, FullUntilFirstLeaves DEF GlobalMinFull
      <4>4. CASE lane = "low" /\ LowSecFull
        <5>1. t <= now + Leaves(lowSecHits, Second)
          BY <1>2, <1>7, <1>8, <4>1, <4>4 DEF Waits
        <5> QED BY <1>3, <1>5, <2>1, <3>1, <4>4, <5>1, FullUntilFirstLeaves DEF LowSecFull
      <4>5. CASE lane = "low" /\ LowMinFull
        <5>1. t <= now + Leaves(lowMinHits, Minute)
          BY <1>2, <1>7, <1>8, <4>1, <4>5 DEF Waits
        <5> QED BY <1>3, <1>5, <2>1, <3>1, <4>5, <5>1, FullUntilFirstLeaves DEF LowMinFull
      <4> QED BY <1>1, <4>2, <4>3, <4>4, <4>5 DEF CanTake
    <3>2. CASE other # lane
      <4>1. t = wake[other]
        BY <1>1, <3>2 DEF Typed
      <4>2. CASE FullUntil(secHits, Second, MaxPerSec, t)
        BY <1>3, <2>1, <4>2, TrimKeepsFull
      <4>3. CASE FullUntil(minHits, Minute, MaxPerMin, t)
        BY <1>3, <2>1, <4>3, TrimKeepsFull
      <4>4. CASE other = "low" /\ FullUntil(lowSecHits, Second, lowPerSec, t)
        BY <1>3, <1>5, <2>1, <4>4, TrimKeepsFull
      <4>5. CASE other = "low" /\ FullUntil(lowMinHits, Minute, lowPerMin, t)
        BY <1>3, <1>5, <2>1, <4>5, TrimKeepsFull
      <4> QED BY <2>1, <4>1, <4>2, <4>3, <4>4, <4>5 DEF SleepIsJustified
    <3> QED BY <3>1, <3>2
  <2> QED BY <1>1, <2>2 DEF FullUntil
<1> QED BY <1>9, <1>10, <1>11, <1>12, <1>13

LEMMA LimiterInvNext == LimiterInv /\ [LimiterNext]_limiterVars => LimiterInv'
<1> SUFFICES ASSUME LimiterInv, [LimiterNext]_limiterVars PROVE LimiterInv'
  OBVIOUS
<1>1. CASE LimiterTick
  BY <1>1, TickKeepsInv
<1>2. ASSUME NEW lane \in Lanes, TakeSlot(lane) PROVE LimiterInv'
  BY <1>2, TakeKeepsInv
<1>3. ASSUME NEW lane \in Lanes, SleepForSlot(lane) PROVE LimiterInv'
  BY <1>3, SleepKeepsInv
<1>4. CASE UNCHANGED limiterVars
  BY <1>4 DEF limiterVars, LimiterInv, Typed, Ordered, Keeps, Bounded, SleepIsJustified,
              Slots, InWindow, FullUntil
<1> QED BY <1>1, <1>2, <1>3, <1>4 DEF LimiterNext

LEMMA LimiterInvariant == LimiterSpec => []LimiterInv
BY LimiterInvInit, LimiterInvNext, PTL DEF LimiterSpec

-----------------------------------------------------------------------------
(* Every slot of a window is in its deque, and the deque is within its      *)
(* quota.                                                                   *)
LEMMA InvKeepsQuotas == LimiterInv => QuotaKept /\ LowLaneShare
<1> SUFFICES ASSUME LimiterInv PROVE QuotaKept /\ LowLaneShare
  OBVIOUS
<1> USE LimiterAssumption DEF LimiterInv
<1>1. \A held \in SUBSET Slots : \A window \in SUBSET held :
        /\ Cardinality(held) \in Nat /\ Cardinality(window) \in Nat
        /\ Cardinality(window) <= Cardinality(held)
  <2> TAKE held \in SUBSET Slots
  <2> TAKE window \in SUBSET held
  <2>1. IsFiniteSet(held)
    BY HeldIsFinite
  <2> QED BY <2>1, FS_Subset, FS_CardinalityType
<1>2. /\ secHits \in SUBSET Slots /\ minHits \in SUBSET Slots
      /\ lowSecHits \in SUBSET Slots /\ lowMinHits \in SUBSET Slots
  BY DEF Typed
<1>3. QuotaKept
  BY <1>1, <1>2 DEF QuotaKept, Keeps, Bounded
<1>4. LowLaneShare
  BY <1>1, <1>2 DEF LowLaneShare, Keeps, Bounded
<1> QED BY <1>3, <1>4

(* No window of a second or of a minute, wherever it ends, holds more slots *)
(* than its quota (_acquire_quote_slot).                                    *)
THEOREM LimiterKeepsQuota == LimiterSpec => []QuotaKept
BY LimiterInvariant, InvKeepsQuotas, PTL

(* The low lane never takes more than its own share of a window, so the     *)
(* rest stays for the trader (_acquire_quote_slot, lane "low").             *)
THEOREM LowLaneKeepsItsShare == LimiterSpec => []LowLaneShare
BY LimiterInvariant, InvKeepsQuotas, PTL

LEMMA InvNeverOversleeps == LimiterInv => SleepsOnlyWhileFull
<1> SUFFICES ASSUME LimiterInv, NEW lane \in Lanes, wake[lane] > now
             PROVE  ~CanTake(lane)
  BY DEF SleepsOnlyWhileFull
<1> USE LimiterAssumption DEF LimiterInv
<1>1. /\ secHits \subseteq Slots /\ minHits \subseteq Slots
      /\ lowSecHits \subseteq Slots /\ lowMinHits \subseteq Slots
      /\ wake[lane] \in Int
  BY DEF Typed
<1>2. /\ Smaller(LowMaxPerSec, MaxPerSec) \in Nat
      /\ Smaller(LowMaxPerMin, MaxPerMin) \in Nat
  BY DEF Smaller
<1>3. CASE FullUntil(secHits, Second, MaxPerSec, wake[lane])
  BY <1>1, <1>3, FullBefore DEF CanTake, GlobalSecFull
<1>4. CASE FullUntil(minHits, Minute, MaxPerMin, wake[lane])
  BY <1>1, <1>4, FullBefore DEF CanTake, GlobalMinFull
<1>5. CASE /\ lane = "low"
           /\ FullUntil(lowSecHits, Second, Smaller(LowMaxPerSec, MaxPerSec), wake[lane])
  BY <1>1, <1>2, <1>5, FullBefore DEF CanTake, LowSecFull
<1>6. CASE /\ lane = "low"
           /\ FullUntil(lowMinHits, Minute, Smaller(LowMaxPerMin, MaxPerMin), wake[lane])
  BY <1>1, <1>2, <1>6, FullBefore DEF CanTake, LowMinFull
<1> QED BY <1>3, <1>4, <1>5, <1>6 DEF SleepIsJustified

(* A caller sleeps only while its lane is full, although the other lane     *)
(* goes on taking slots and trimming the deques while it sleeps: nothing    *)
(* it could have had is let go by.                                          *)
THEOREM NobodyOversleeps == LimiterSpec => []SleepsOnlyWhileFull
BY LimiterInvariant, InvNeverOversleeps, PTL
=============================================================================
