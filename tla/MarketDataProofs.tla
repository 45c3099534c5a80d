-------------------------- MODULE MarketDataProofs --------------------------
(***************************************************************************)
(* The data that decisions are made from.  The ages of prices are honest   *)
(* and what a decision uses is as fresh as its caller believes, for every  *)
(* cache period, time to live, age limit and option chain, and however     *)
(* long the broker takes to answer.  An entry trades the week its signal   *)
(* is about, but for a refused search or a contract file without that      *)
(* week, for every calendar and horizon.  The contracts picked for         *)
(* collection are live, for every table.                                   *)
(***************************************************************************)
EXTENDS MarketFeed, WeeklySignal, ContractTable, AmountsProofs, SequenceTheorems

(* Prices.                                                                  *)
(* Readings that are what they say.                                         *)
Prices ==
  {r \in [kind : {"price"}, origin : Nat, age : Int, began : Nat] :
     /\ r.began - r.origin <= r.age
     /\ r.began - r.origin < LastValidTtl + LtpCache}

Pcrs == {r \in [kind : {"pcr"}, ce : Nat, pe : Nat, ts : Nat] : r.ce > 0}

Readings == {None} \union Prices \union Pcrs

(* What may stand in the list of readings for a symbol of the plan.         *)
Suiting(symbol) == IF symbol = "pcr" THEN Pcrs ELSE {None} \union Prices

DeskInv ==
  /\ desk \in [task : {"idle", "monitor", "entry"}, began : Nat, rows : Seq(BOOLEAN),
               reads : Seq(Readings)]
  /\ desk.began <= now
  /\ \A i \in 1 .. Len(desk.reads) : desk.reads[i] \in Suiting(Plan(desk.task)[i])

(* The last valid price of an option, and what the cache holds: a price     *)
(* quoted after it was asked for, or a last valid one that was young enough *)
(* when it was put there.                                                   *)
Valids == {v \in [kind : {"valid"}, origin : Nat, ts : Nat] : v.origin >= v.ts}

Cached ==
  {c \in [kind : {"cached"}, origin : Nat, fetched : Nat, fallback : {None} \union Valids] :
     /\ c.fallback = None => c.origin >= c.fetched
     /\ c.fallback # None => /\ c.origin >= c.fallback.ts
                             /\ c.fetched - c.fallback.ts <= LastValidTtl}

FeedInv ==
  /\ now \in Nat
  /\ DeskInv
  /\ \A s \in Symbols : cache[s] \in {None} \union Cached
  /\ \A s \in Options : lastValid[s] \in {None} \union Valids
  /\ pcrCache \in {None} \union Pcrs
  /\ MarksAreFresh /\ EntryPricesBounded
  /\ cache \in [Symbols -> {None} \union Cached]
  /\ lastValid \in [Options -> {None} \union Valids]

-----------------------------------------------------------------------------
(* What is read next, by the number of readings there are.                  *)
LEMMA NextReading ==
  ASSUME DeskInv, Reading
  PROVE  /\ Len(desk.reads) \in Nat
         /\ Current = Plan(desk.task)[Len(desk.reads) + 1]
         /\ Current \in Symbols \union {"pcr"}
         /\ Current = "pcr" <=> desk.task = "entry" /\ Len(desk.reads) = 1
<1>1. Len(desk.reads) \in Nat
  BY DEF DeskInv
<1>4. Current = Plan(desk.task)[Len(desk.reads) + 1] /\ "pcr" \notin Symbols
  BY DEF Current, Symbols, Options
<1>2. CASE desk.task = "monitor"
  <2>1. Plan(desk.task) = <<"short", "long">>
    BY <1>2 DEF Plan
  <2>2. Len(Plan(desk.task)) = 2 /\ \A i \in {1, 2} : Plan(desk.task)[i] \in Symbols
    BY <2>1 DEF Symbols, Options
  <2>3. Len(desk.reads) + 1 \in {1, 2}
    BY <1>1, <2>2 DEF Reading
  <2>4. Current \in Symbols
    BY <2>2, <2>3 DEF Current
  <2>5. Current # "pcr" /\ desk.task # "entry"
    BY <1>2, <1>4, <2>4
  <2> QED BY <1>1, <1>4, <2>4, <2>5
<1>3. CASE desk.task = "entry"
  <2>1. Plan(desk.task) = <<"spot", "pcr", "short", "long">>
    BY <1>3 DEF Plan
  <2>2. /\ Len(Plan(desk.task)) = 4 /\ Plan(desk.task)[2] = "pcr"
        /\ \A i \in {1, 3, 4} : Plan(desk.task)[i] \in Symbols
    BY <2>1 DEF Symbols, Options
  <2>3. Len(desk.reads) + 1 \in {1, 2, 3, 4}
    BY <1>1, <2>2 DEF Reading
  <2>4. CASE Len(desk.reads) = 1
    <3>1. Current = "pcr"
      BY <1>4, <2>2, <2>4
    <3> QED BY <1>1, <1>3, <1>4, <2>4, <3>1
  <2>5. CASE Len(desk.reads) # 1
    <3>1. \A n \in Nat : n + 1 \in {1, 2, 3, 4} /\ n # 1 => n + 1 \in {1, 3, 4}
      OBVIOUS
    <3>2. Len(desk.reads) + 1 \in {1, 3, 4}
      BY <1>1, <2>3, <2>5, <3>1
    <3>3. Current \in Symbols
      BY <1>4, <2>2, <3>2
    <3>4. Current # "pcr"
      BY <1>4, <3>3
    <3> QED BY <1>1, <1>4, <2>5, <3>3, <3>4
  <2> QED BY <2>4, <2>5
<1> QED BY <1>2, <1>3 DEF Reading, DeskInv

LEMMA RestKeepsDesk ==
  ASSUME now' \in Nat, desk' = Resting
  PROVE  DeskInv'
<1>1. Resting.reads = <<>> /\ Resting.rows = <<>> /\ Resting.task = "idle"
      /\ Resting.began = 0
  BY DEF Resting
<1>2. Resting \in [task : {"idle", "monitor", "entry"}, began : Nat, rows : Seq(BOOLEAN),
                   reads : Seq(Readings)]
  BY EmptySeq DEF Resting
<1> QED BY <1>1, <1>2 DEF DeskInv

(* One more reading of the right kind.                                      *)
LEMMA AppendKeepsDesk ==
  ASSUME DeskInv, Reading, now \in Nat, now' = now,
         NEW reading \in Suiting(Current), NEW some \in Seq(BOOLEAN),
         desk' = [task |-> desk.task, began |-> now, rows |-> some,
                  reads |-> Append(desk.reads, reading)]
  PROVE  DeskInv'
<1>1. /\ Len(desk.reads) \in Nat /\ desk.reads \in Seq(Readings)
      /\ desk.task \in {"idle", "monitor", "entry"}
  BY DEF DeskInv
<1>2. reading \in Readings
  BY DEF Suiting, Readings
<1>3. /\ Append(desk.reads, reading) \in Seq(Readings)
      /\ Len(Append(desk.reads, reading)) = Len(desk.reads) + 1
      /\ \A i \in 1 .. Len(desk.reads) : Append(desk.reads, reading)[i] = desk.reads[i]
      /\ Append(desk.reads, reading)[Len(desk.reads) + 1] = reading
  BY <1>1, <1>2, AppendProperties
<1>4. \A i \in 1 .. Len(desk'.reads) : desk'.reads[i] \in Suiting(Plan(desk'.task)[i])
  <2> SUFFICES ASSUME NEW i \in 1 .. Len(desk.reads) + 1
               PROVE  Append(desk.reads, reading)[i] \in Suiting(Plan(desk.task)[i])
    BY <1>3
  <2>1. CASE i \in 1 .. Len(desk.reads)
    BY <1>3, <2>1 DEF DeskInv
  <2>2. CASE i = Len(desk.reads) + 1
    BY <1>3, <2>2, NextReading
  <2> QED BY <1>1, <2>1, <2>2
<1> QED BY <1>1, <1>3, <1>4 DEF DeskInv

LEMMA GotKeepsDesk ==
  ASSUME DeskInv, Reading, now \in Nat, now' = now,
         NEW reading, Got(reading),
         reading = None \/ reading \in Suiting(Current)
  PROVE  DeskInv'
<1>1. CASE desk' = Resting
  BY <1>1, RestKeepsDesk
<1>2. CASE desk' # Resting
  <2>1. ~ (desk.task = "entry" /\ reading = None /\ Current \in {"spot", "pcr"})
    BY <1>2 DEF Got
  <2>2. reading \in Suiting(Current)
    <3>1. CASE reading = None
      <4>1. Current # "pcr"
        BY <2>1, <3>1, NextReading
      <4> QED BY <3>1, <4>1 DEF Suiting
    <3>2. CASE reading # None
      BY <3>2
    <3> QED BY <3>1, <3>2
  <2>3. desk' = [task |-> desk.task, began |-> now, rows |-> <<>>,
                 reads |-> Append(desk.reads, reading)]
    BY <2>1 DEF Got, DeskInv
  <2> QED BY <2>2, <2>3, AppendKeepsDesk, EmptySeq
<1> QED BY <1>1, <1>2

(* The desk asks, or takes a row, or waits.                                 *)
LEMMA ReadsStayDesk ==
  ASSUME DeskInv, now' \in Nat, now' >= now, now \in Nat,
         NEW began \in {desk.began, now}, NEW some \in Seq(BOOLEAN),
         desk' = [task |-> desk.task, began |-> began, rows |-> some, reads |-> desk.reads]
  PROVE  DeskInv'
BY DEF DeskInv

-----------------------------------------------------------------------------
LEMMA FeedInvInit == Init => FeedInv
<1> SUFFICES ASSUME Init PROVE FeedInv
  OBVIOUS
<1> USE DEF Init
<1>1. now \in Nat
  OBVIOUS
<1>2. DeskInv
  <2>1. Resting \in [task : {"idle", "monitor", "entry"}, began : Nat, rows : Seq(BOOLEAN),
                     reads : Seq(Readings)]
    BY EmptySeq DEF Resting
  <2>2. Resting.began = 0 /\ Len(Resting.reads) = 0
    BY DEF Resting
  <2> QED BY <2>1, <2>2 DEF DeskInv
<1>3. cache \in [Symbols -> {None} \union Cached] /\ lastValid \in [Options -> {None} \union Valids]
  OBVIOUS
<1>4. MarksAreFresh /\ EntryPricesBounded
  BY DEF MarksAreFresh, EntryPricesBounded, Resting
<1> QED BY <1>1, <1>2, <1>3, <1>4 DEF FeedInv

(* Whatever does not decide leaves the readings that were used alone.       *)
LEMMA UsedStays ==
  ASSUME FeedInv, used' = used \/ used' = Resting
  PROVE  MarksAreFresh' /\ EntryPricesBounded'
<1>1. CASE used' = used
  BY <1>1 DEF FeedInv, MarksAreFresh, EntryPricesBounded
<1>2. CASE used' = Resting
  BY <1>2 DEF Resting, MarksAreFresh, EntryPricesBounded
<1> QED BY <1>1, <1>2

(* A cached price comes with the age of the quote it goes back to.          *)
LEMMA CachedKeepsInv == FeedInv /\ ReadCached => FeedInv'
<1> SUFFICES ASSUME FeedInv, ReadCached PROVE FeedInv'
  OBVIOUS
<1> USE FeedAssumption DEF FeedInv
<1> DEFINE c == cache[Current]
           reading == [kind |-> "price", origin |-> c.origin, age |-> CachedAge(Current),
                       began |-> now]
<1>1. /\ Reading /\ Current \in Symbols /\ c # None /\ now - c.fetched < LtpCache
      /\ desk' = [desk EXCEPT !.reads = Append(@, reading), !.began = now]
      /\ now' = now /\ cache' = cache /\ lastValid' = lastValid /\ pcrCache' = pcrCache
      /\ used' = used
  BY DEF ReadCached, AtLtp, CacheHit
<1>2. c \in Cached
  BY <1>1
<1>3. /\ c.origin \in Nat /\ c.fetched \in Nat
      /\ c.fallback = None => c.origin >= c.fetched
      /\ c.fallback # None => /\ c.fallback.ts \in Nat /\ c.origin >= c.fallback.ts
                              /\ c.fetched - c.fallback.ts <= LastValidTtl
  BY <1>2 DEF Cached, Valids
<1> HIDE DEF c
<1>4. reading \in Prices
  <2>1. CachedAge(Current) = now - (IF c.fallback = None THEN c.fetched ELSE c.fallback.ts)
    BY DEF CachedAge, c
  <2>2. CachedAge(Current) \in Int /\ now - c.origin <= CachedAge(Current)
    BY <1>3, <2>1
  <2>3. now - c.origin < LastValidTtl + LtpCache
    BY <1>1, <1>3
  <2> QED BY <1>3, <2>2, <2>3 DEF Prices
<1>5. reading \in Suiting(Current)
  BY <1>1, <1>4 DEF Suiting, Symbols, Options
<1> HIDE DEF reading
<1>6. desk' = [task |-> desk.task, began |-> now, rows |-> desk.rows,
               reads |-> Append(desk.reads, reading)]
  BY <1>1 DEF DeskInv
<1>7. DeskInv'
  BY <1>1, <1>5, <1>6, AppendKeepsDesk DEF DeskInv
<1> QED BY <1>1, <1>7, UsedStays

LEMMA GoodKeepsInv == FeedInv /\ LtpGood => FeedInv'
<1> SUFFICES ASSUME FeedInv, LtpGood PROVE FeedInv'
  OBVIOUS
<1> USE FeedAssumption DEF FeedInv
<1>1. /\ Reading /\ Current \in Symbols /\ Got(Price(now, 0))
      /\ cache' = [cache EXCEPT ![Current] = Fresh]
      /\ lastValid' = IF Current \in Options
                      THEN [lastValid EXCEPT ![Current] =
                              [kind |-> "valid", origin |-> now, ts |-> desk.began]]
                      ELSE lastValid
      /\ now' = now /\ pcrCache' = pcrCache /\ used' = used
  BY DEF LtpGood
<1>2. desk.began \in Nat /\ desk.began <= now
  BY DEF DeskInv
<1>3. Fresh \in Cached
  BY <1>2 DEF Fresh, Cached, None
<1>4. [kind |-> "valid", origin |-> now, ts |-> desk.began] \in Valids
  BY <1>2 DEF Valids
<1>5. Price(now, 0) \in Prices
  BY <1>2 DEF Price, Prices
<1>6. DeskInv'
  BY <1>1, <1>5, GotKeepsDesk DEF Suiting, Symbols, Options
<1>7. cache' \in [Symbols -> {None} \union Cached]
  BY <1>1, <1>3
<1>8. lastValid' \in [Options -> {None} \union Valids]
  BY <1>1, <1>4
<1> QED BY <1>1, <1>6, <1>7, <1>8, UsedStays

LEMMA SuspiciousKeepsInv == FeedInv /\ LtpSuspicious => FeedInv'
<1> SUFFICES ASSUME FeedInv, LtpSuspicious PROVE FeedInv'
  OBVIOUS
<1> USE FeedAssumption DEF FeedInv
<1> DEFINE v == lastValid[Current]
           stand == [kind |-> "cached", origin |-> v.origin, fetched |-> desk.began,
                     fallback |-> v]
<1>1. /\ Reading /\ Current \in Options /\ Current \in Symbols /\ Current # "pcr"
      /\ now' = now /\ lastValid' = lastValid /\ pcrCache' = pcrCache /\ used' = used
  BY DEF LtpSuspicious, Symbols, Options
<1>2. CASE WithinTtl(Current)
  <2>1. /\ cache' = [cache EXCEPT ![Current] = stand]
        /\ Got(Price(v.origin, desk.began - v.ts))
    BY <1>2 DEF LtpSuspicious
  <2>2. v \in Valids /\ v # None /\ desk.began - v.ts <= LastValidTtl
    BY <1>1, <1>2 DEF WithinTtl
  <2>3. v.origin \in Nat /\ v.ts \in Nat /\ v.origin >= v.ts /\ desk.began \in Nat
    BY <2>2 DEF Valids, DeskInv
  <2> HIDE DEF v
  <2>4. stand \in Cached
    BY <2>2, <2>3 DEF Cached
  <2>5. Price(v.origin, desk.began - v.ts) \in Prices
    BY <2>2, <2>3 DEF Price, Prices
  <2>6. DeskInv'
    BY <1>1, <2>1, <2>5, GotKeepsDesk DEF Suiting
  <2>7. cache' \in [Symbols -> {None} \union Cached]
    BY <2>1, <2>4
  <2> QED BY <1>1, <2>6, <2>7, UsedStays
<1>3. CASE ~WithinTtl(Current)
  <2>1. Got(None) /\ cache' = cache
    BY <1>3 DEF LtpSuspicious
  <2>2. DeskInv'
    BY <1>1, <2>1, GotKeepsDesk
  <2> QED BY <1>1, <2>1, <2>2, UsedStays
<1> QED BY <1>2, <1>3

LEMMA PcrKeepsInv ==
  FeedInv /\ (ReadPcrCached \/ ChainUnavailable \/ FinishPcr \/ LtpFails \/ LtpUnresolved)
    => FeedInv'
<1> SUFFICES ASSUME FeedInv,
                    ReadPcrCached \/ ChainUnavailable \/ FinishPcr \/ LtpFails \/ LtpUnresolved
             PROVE  FeedInv'
  OBVIOUS
<1> USE DEF FeedInv
<1>1. /\ Reading /\ now' = now /\ cache' = cache /\ lastValid' = lastValid /\ used' = used
  BY DEF ReadPcrCached, ChainUnavailable, FinishPcr, LtpFails, LtpUnresolved, AtPcr, AtLtp
<1>2. CASE ReadPcrCached
  <2>1. Current = "pcr" /\ pcrCache \in Pcrs /\ Got(pcrCache) /\ pcrCache' = pcrCache
    BY <1>2 DEF ReadPcrCached, AtPcr, PcrHit
  <2>2. DeskInv'
    BY <1>1, <2>1, GotKeepsDesk DEF Suiting
  <2> QED BY <1>1, <2>1, <2>2, UsedStays
<1>3. CASE ChainUnavailable \/ LtpFails \/ LtpUnresolved
  <2>1. Got(None) /\ pcrCache' = pcrCache
    BY <1>3 DEF ChainUnavailable, LtpFails, LtpUnresolved
  <2>2. DeskInv'
    BY <1>1, <2>1, GotKeepsDesk
  <2> QED BY <1>1, <2>1, <2>2, UsedStays
<1>4. CASE FinishPcr
  <2>1. CASE Interest("CE") = 0
    <3>1. Got(None) /\ pcrCache' = pcrCache
      BY <1>4, <2>1 DEF FinishPcr
    <3>2. DeskInv'
      BY <1>1, <3>1, GotKeepsDesk
    <3> QED BY <1>1, <3>1, <3>2, UsedStays
  <2>2. CASE Interest("CE") # 0
    <3>1. Current = "pcr" /\ pcrCache' = PcrRecord /\ Got(PcrRecord)
      BY <1>4, <2>2 DEF FinishPcr, AtPcr
    <3>2. \A side : Interest(side) \in Nat
      <4> SUFFICES ASSUME NEW side PROVE Interest(side) \in Nat
        OBVIOUS
      <4>1. desk.rows \in Seq(BOOLEAN)
        BY DEF DeskInv
      <4>2. Len(desk.rows) \in Nat /\ DOMAIN desk.rows = 1 .. Len(desk.rows)
        BY <4>1, LenProperties
      <4>3. IsFiniteSet(DOMAIN desk.rows)
        BY <4>2, FS_Interval
      <4>4. {i \in DOMAIN desk.rows : desk.rows[i] /\ Chain[i] = side} \in SUBSET DOMAIN desk.rows
        OBVIOUS
      <4> QED BY <4>3, <4>4, FS_Subset, FS_CardinalityType DEF Interest
    <3>3. PcrRecord \in Pcrs
      BY <2>2, <3>2 DEF PcrRecord, Pcrs
    <3>4. DeskInv'
      BY <1>1, <3>1, <3>3, GotKeepsDesk DEF Suiting
    <3> QED BY <1>1, <3>1, <3>3, <3>4, UsedStays
  <2> QED BY <2>1, <2>2
<1> QED BY <1>2, <1>3, <1>4

LEMMA WaitingKeepsInv ==
  FeedInv /\ (\/ Tick \/ AttemptFails \/ AskLtp \/ AskRow
              \/ \E counts \in BOOLEAN : RowAnswered(counts))
    => FeedInv'
<1> SUFFICES ASSUME FeedInv, \/ Tick \/ AttemptFails \/ AskLtp \/ AskRow
                             \/ \E counts \in BOOLEAN : RowAnswered(counts)
             PROVE  FeedInv'
  OBVIOUS
<1> USE DEF FeedInv
<1>1. /\ now' \in Nat /\ now' >= now /\ cache' = cache /\ lastValid' = lastValid
      /\ pcrCache' = pcrCache /\ used' = used
  BY DEF Tick, AttemptFails, AskLtp, AskRow, RowAnswered
<1>2. DeskInv'
  <2>1. desk = [task |-> desk.task, began |-> desk.began, rows |-> desk.rows,
                reads |-> desk.reads]
        /\ desk.rows \in Seq(BOOLEAN)
    BY DEF DeskInv
  <2>2. CASE Tick \/ AttemptFails \/ AskRow
    <3>1. desk' = desk
      BY <2>2 DEF Tick, AttemptFails, AskRow
    <3> QED BY <1>1, <2>1, <3>1, ReadsStayDesk
  <2>3. CASE AskLtp
    <3>1. desk' = [task |-> desk.task, began |-> now, rows |-> desk.rows,
                   reads |-> desk.reads]
      BY <2>1, <2>3 DEF AskLtp
    <3> QED BY <1>1, <2>1, <3>1, ReadsStayDesk
  <2>4. ASSUME NEW counts \in BOOLEAN, RowAnswered(counts) PROVE DeskInv'
    <3>1. Append(desk.rows, counts) \in Seq(BOOLEAN)
      BY <2>1, AppendProperties
    <3>2. desk' = [task |-> desk.task, began |-> desk.began,
                   rows |-> Append(desk.rows, counts), reads |-> desk.reads]
      BY <2>1, <2>4 DEF RowAnswered
    <3> QED BY <1>1, <3>1, <3>2, ReadsStayDesk
  <2> QED BY <2>2, <2>3, <2>4
<1> QED BY <1>1, <1>2, UsedStays

(* What a decision uses was read for it, in the order of its plan.          *)
LEMMA DecideKeepsInv == FeedInv /\ (Mark \/ Enter) => FeedInv'
<1> SUFFICES ASSUME FeedInv, Mark \/ Enter PROVE FeedInv'
  OBVIOUS
<1> USE DEF FeedInv
<1>1. /\ desk' = Resting /\ now' = now /\ cache' = cache /\ lastValid' = lastValid
      /\ pcrCache' = pcrCache
  BY DEF Mark, Enter, Decide
<1>2. DeskInv'
  BY <1>1, RestKeepsDesk
<1>3. CASE Mark /\ MayMark
  <2>1. desk.task = "monitor" /\ Len(desk.reads) = 2 /\ used' = desk
    BY <1>3 DEF Mark, Decide, AllRead, Plan
  <2>2. \A i \in 1 .. 2 : desk.reads[i] \in Prices /\ desk.reads[i].age <= FreshMax
    <3> SUFFICES ASSUME NEW i \in 1 .. 2
                 PROVE  desk.reads[i] \in Prices /\ desk.reads[i].age <= FreshMax
      OBVIOUS
    <3>1. Plan(desk.task)[i] # "pcr" /\ desk.reads[i] \in Suiting(Plan(desk.task)[i])
      BY <2>1 DEF DeskInv, Plan
    <3>2. desk.reads[i] # None /\ desk.reads[i].age <= FreshMax
      BY <1>3 DEF MayMark, Priced
    <3> QED BY <3>1, <3>2 DEF Suiting
  <2>3. MarksAreFresh'
    BY <2>1, <2>2, FeedAssumption DEF MarksAreFresh, Prices
  <2>4. EntryPricesBounded'
    BY <2>1 DEF EntryPricesBounded
  <2> QED BY <1>1, <1>2, <2>3, <2>4
<1>4. CASE Enter /\ MayEnter
  <2>1. desk.task = "entry" /\ Len(desk.reads) = 4 /\ used' = desk
    BY <1>4 DEF Enter, Decide, AllRead, Plan
  <2>2. \A i \in 3 .. 4 : desk.reads[i] \in Prices
    <3> SUFFICES ASSUME NEW i \in 3 .. 4 PROVE desk.reads[i] \in Prices
      OBVIOUS
    <3>1. Plan(desk.task)[i] # "pcr" /\ desk.reads[i] \in Suiting(Plan(desk.task)[i])
      BY <2>1 DEF DeskInv, Plan
    <3>2. desk.reads[i] # None
      BY <1>4 DEF MayEnter, Priced
    <3> QED BY <3>1, <3>2 DEF Suiting
  <2>3. desk.reads[2] \in Pcrs
    BY <2>1 DEF DeskInv, Plan, Suiting
  <2>4. EntryPricesBounded'
    BY <2>1, <2>2, <2>3 DEF EntryPricesBounded, Prices, Pcrs
  <2>5. MarksAreFresh'
    BY <2>1 DEF MarksAreFresh
  <2> QED BY <1>1, <1>2, <2>4, <2>5
<1>5. CASE used' = used
  BY <1>1, <1>2, <1>5, UsedStays
<1> QED BY <1>3, <1>4, <1>5 DEF Mark, Enter, Decide

LEMMA StartKeepsInv ==
  ASSUME NEW task \in {"monitor", "entry"}, FeedInv, StartPass(task)
  PROVE  FeedInv'
<1> USE DEF FeedInv
<1>1. /\ used' = Resting /\ now' = now /\ cache' = cache /\ lastValid' = lastValid
      /\ pcrCache' = pcrCache
      /\ desk' = [task |-> task, began |-> now, rows |-> <<>>, reads |-> <<>>]
  BY DEF StartPass, Resting
<1>2. desk' \in [task : {"idle", "monitor", "entry"}, began : Nat, rows : Seq(BOOLEAN),
                 reads : Seq(Readings)]
  BY <1>1, EmptySeq
<1>3. Len(desk'.reads) = 0 /\ desk'.began = now
  BY <1>1
<1>4. DeskInv'
  BY <1>1, <1>2, <1>3 DEF DeskInv
<1> QED BY <1>1, <1>4, UsedStays

LEMMA FeedInvNext == FeedInv /\ [Next]_vars => FeedInv'
<1> SUFFICES ASSUME FeedInv, [Next]_vars PROVE FeedInv'
  OBVIOUS
<1>1. CASE \/ Tick \/ AttemptFails \/ AskLtp \/ AskRow
           \/ \E counts \in BOOLEAN : RowAnswered(counts)
  BY <1>1, WaitingKeepsInv
<1>2. ASSUME NEW task \in {"monitor", "entry"}, StartPass(task) PROVE FeedInv'
  BY <1>2, StartKeepsInv
<1>3. CASE ReadCached
  BY <1>3, CachedKeepsInv
<1>4. CASE LtpGood
  BY <1>4, GoodKeepsInv
<1>5. CASE LtpSuspicious
  BY <1>5, SuspiciousKeepsInv
<1>6. CASE ReadPcrCached \/ ChainUnavailable \/ FinishPcr \/ LtpFails \/ LtpUnresolved
  BY <1>6, PcrKeepsInv
<1>7. CASE Mark \/ Enter
  BY <1>7, DecideKeepsInv
<1>8. CASE UNCHANGED vars
  BY <1>8 DEF vars, FeedInv, DeskInv, MarksAreFresh, EntryPricesBounded
<1> QED BY <1>1, <1>2, <1>3, <1>4, <1>5, <1>6, <1>7, <1>8 DEF Next

LEMMA FeedInvariant == Spec => []FeedInv
BY FeedInvInit, FeedInvNext, PTL DEF Spec

-----------------------------------------------------------------------------
LEMMA FeedMeans == FeedInv => AgeHonest /\ MarksAreFresh /\ EntryPricesBounded
<1> SUFFICES ASSUME FeedInv PROVE AgeHonest
  BY DEF FeedInv
<1> SUFFICES ASSUME NEW i \in DOMAIN desk.reads, desk.reads[i].kind = "price"
             PROVE  desk.reads[i].began - desk.reads[i].origin <= desk.reads[i].age
  BY DEF AgeHonest
<1>1. desk.reads \in Seq(Readings)
  BY DEF FeedInv, DeskInv
<1>2. desk.reads[i] \in Readings
  BY <1>1, ElementOfSeq, LenProperties
<1> QED BY <1>2 DEF Readings, Prices, Pcrs, None

(* A price is never older than the age that comes with it, also when a      *)
(* substitute is served again from the cache (_get_ltp_with_age).           *)
THEOREM AgeCorrect == Spec => []AgeHonest
BY FeedMeans, FeedInvariant, PTL

(* The monitor compares two legs only if both were quoted at most FreshMax  *)
(* before it asked for them (PcrCreditSpread.monitor).                      *)
THEOREM MarksCorrect == Spec => []MarksAreFresh
BY FeedMeans, FeedInvariant, PTL

(* An entry trades on prices that stood in the market less than the time to *)
(* live of a last valid price and one cache period before (enter).          *)
THEOREM EntryPricesCorrect == Spec => []EntryPricesBounded
BY FeedMeans, FeedInvariant, PTL

-----------------------------------------------------------------------------
(* An attempt under way is for what is read next; if that is a row of the   *)
(* chain, there is one left.                                                *)
Asking ==
  attempt > 0 => Reading /\ (Current = "pcr" => Len(desk.rows) < Len(Chain))

FeedTypeInv == FeedInv /\ FeedTypeOK /\ Asking

(* The lists of a desk are short enough.                                    *)
Fits(d) == Len(d.reads) <= Len(Plan(d.task)) /\ Len(d.rows) <= Len(Chain)

LEMMA ChainLength == Len(Chain) \in Nat
BY FeedAssumption, LenProperties DEF FeedAssumption

LEMMA RestFits == Fits(Resting) /\ Resting.task \in {"idle", "monitor", "entry"}
<1>1. Len(Plan("idle")) = 0 /\ Len(<<>>) = 0
  BY DEF Plan
<1>2. Resting.reads = <<>> /\ Resting.rows = <<>> /\ Resting.task = "idle"
  BY DEF Resting
<1> QED
  BY <1>1, <1>2, ChainLength DEF Fits

LEMMA PlanLength == \A task : Len(Plan(task)) \in Nat
<1> SUFFICES ASSUME NEW task PROVE Len(Plan(task)) \in Nat
  OBVIOUS
<1>1. Plan(task) \in {<<>>, <<"short", "long">>, <<"spot", "pcr", "short", "long">>}
  BY DEF Plan
<1> QED
  BY <1>1

(* One more reading fits where one is due.                                  *)
LEMMA AppendFits ==
  ASSUME FeedInv, Reading, NEW d, NEW reading,
         d.task = desk.task, d.reads = Append(desk.reads, reading),
         Len(d.rows) <= Len(Chain)
  PROVE  Fits(d)
<1>1. Len(desk.reads) \in Nat /\ Len(desk.reads) < Len(Plan(desk.task))
  BY DEF FeedInv, DeskInv, Reading
<1>2. Len(d.reads) = Len(desk.reads) + 1
  <2>1. desk.reads \in Seq(Readings \union {reading})
    BY DEF FeedInv, DeskInv
  <2> QED
    BY <2>1
<1> QED
  BY <1>1, <1>2, PlanLength DEF Fits

LEMMA GotFits ==
  ASSUME FeedInv, Reading, NEW reading, Got(reading)
  PROVE  Fits(desk') /\ desk'.task \in {"idle", "monitor", "entry"}
<1>1. CASE desk' = Resting
  BY <1>1, RestFits
<1>2. CASE desk' = [desk EXCEPT !.reads = Append(@, reading), !.rows = <<>>, !.began = now]
  <2>1. /\ desk'.task = desk.task /\ desk'.reads = Append(desk.reads, reading)
        /\ desk'.rows = <<>> /\ desk.task \in {"idle", "monitor", "entry"}
    BY <1>2 DEF FeedInv, DeskInv
  <2>2. Len(<<>>) <= Len(Chain)
    BY ChainLength
  <2> QED
    BY <2>1, <2>2, AppendFits
<1> QED
  BY <1>1, <1>2 DEF Got

(* The whole invariant from its parts.                                      *)
LEMMA TypesFromParts ==
  ASSUME FeedInv', now' \in 0 .. MaxNow, attempt' \in 0 .. 2,
         Fits(desk'), desk'.task \in {"idle", "monitor", "entry"},
         \A s \in Symbols : cache'[s] # None => cache'[s].fetched \in 0 .. now',
         pcrCache' # None => pcrCache'.ts \in 0 .. now',
         Asking'
  PROVE  FeedTypeInv'
BY DEF FeedTypeInv, FeedTypeOK, Fits

LEMMA FeedTypeNext == FeedTypeInv /\ [Next]_vars => FeedTypeInv'
<1> SUFFICES ASSUME FeedTypeInv, [Next]_vars PROVE FeedTypeInv'
  OBVIOUS
<1>0. FeedInv /\ FeedInv' /\ FeedTypeOK /\ Asking /\ MaxNow \in Nat
  BY FeedInvNext, FeedAssumption DEF FeedTypeInv, FeedAssumption
<1>1. /\ now \in 0 .. MaxNow /\ attempt \in 0 .. 2 /\ Fits(desk)
      /\ desk.task \in {"idle", "monitor", "entry"}
      /\ \A s \in Symbols : cache[s] # None => cache[s].fetched \in 0 .. now
      /\ pcrCache # None => pcrCache.ts \in 0 .. now
  BY <1>0 DEF FeedTypeOK, Fits
<1>2. desk.began \in 0 .. now
  BY <1>0, <1>1 DEF FeedInv, DeskInv
<1>3. CASE Tick
  <2>1. /\ now' \in 0 .. MaxNow /\ now' = now + 1
        /\ UNCHANGED <<attempt, cache, pcrCache, desk>>
    BY <1>0, <1>1, <1>3 DEF Tick
  <2>2. Asking'
    BY <1>0, <2>1 DEF Asking, Reading, Current
  <2>3. \A n \in 0 .. now : n \in 0 .. now'
    BY <1>1, <2>1
  <2> QED
    BY <1>0, <1>1, <2>1, <2>2, <2>3, TypesFromParts
<1>4. CASE AttemptFails
  <2>1. attempt = 1 /\ attempt' = 2 /\ UNCHANGED <<now, cache, pcrCache, desk>>
    BY <1>4 DEF AttemptFails
  <2>2. Asking'
    BY <1>0, <2>1 DEF Asking, Reading, Current
  <2> QED
    BY <1>0, <1>1, <2>1, <2>2, TypesFromParts
<1>5. ASSUME NEW task \in {"monitor", "entry"}, StartPass(task) PROVE FeedTypeInv'
  <2>1. /\ desk.task = "idle" /\ UNCHANGED <<now, attempt, cache, pcrCache>>
        /\ desk' = [task |-> task, began |-> now, rows |-> <<>>, reads |-> <<>>]
    BY <1>5 DEF StartPass, Resting
  <2>2. attempt = 0
    BY <1>0, <1>1, <2>1 DEF Asking, Reading
  <2>3. Fits(desk')
    BY <2>1, PlanLength, ChainLength DEF Fits
  <2> QED
    BY <1>0, <1>1, <2>1, <2>2, <2>3, TypesFromParts DEF Asking
<1>6. CASE AskLtp
  <2>1. /\ Reading /\ Current \in Symbols /\ attempt' = 1 /\ UNCHANGED <<now, cache, pcrCache>>
        /\ desk' = [desk EXCEPT !.began = now]
    BY <1>6 DEF AskLtp, AtLtp, Ask
  <2>2. desk'.task = desk.task /\ desk'.reads = desk.reads /\ desk'.rows = desk.rows
    BY <1>0, <2>1 DEF FeedInv, DeskInv
  <2>3. Asking'
    BY <2>1, <2>2 DEF Asking, Reading, Current, Symbols, Options
  <2> QED
    BY <1>0, <1>1, <2>1, <2>2, <2>3, TypesFromParts DEF Fits
<1>7. CASE AskRow
  <2>1. /\ Reading /\ Len(desk.rows) < Len(Chain) /\ attempt' = 1
        /\ UNCHANGED <<now, cache, pcrCache, desk>>
    BY <1>7 DEF AskRow, AtPcr, Ask
  <2>2. Asking'
    BY <2>1 DEF Asking, Reading, Current
  <2> QED
    BY <1>0, <1>1, <2>1, <2>2, TypesFromParts
<1>8. ASSUME NEW counts \in BOOLEAN, RowAnswered(counts) PROVE FeedTypeInv'
  <2>1. /\ Current = "pcr" /\ attempt > 0 /\ attempt' = 0 /\ UNCHANGED <<now, cache, pcrCache>>
        /\ desk' = [desk EXCEPT !.rows = Append(@, counts)]
    BY <1>8 DEF RowAnswered, Answered
  <2>2. Len(desk.rows) < Len(Chain)
    BY <1>0, <2>1 DEF Asking
  <2>3. /\ desk'.task = desk.task /\ desk'.reads = desk.reads
        /\ desk'.rows = Append(desk.rows, counts) /\ desk.rows \in Seq(BOOLEAN)
    BY <1>0, <2>1 DEF FeedInv, DeskInv
  <2>4. Len(desk'.rows) <= Len(Chain)
    BY <2>2, <2>3, ChainLength
  <2> QED
    BY <1>0, <1>1, <2>1, <2>3, <2>4, TypesFromParts DEF Asking, Fits
<1>9. CASE ReadCached
  <2> DEFINE reading == [kind |-> "price", origin |-> cache[Current].origin,
                         age |-> CachedAge(Current), began |-> now]
  <2>1. /\ Reading /\ attempt = 0 /\ UNCHANGED <<now, attempt, cache, pcrCache>>
        /\ desk' = [desk EXCEPT !.reads = Append(@, reading), !.began = now]
    BY <1>9 DEF ReadCached, AtLtp
  <2> HIDE DEF reading
  <2>2. /\ desk'.task = desk.task /\ desk'.reads = Append(desk.reads, reading)
        /\ desk'.rows = desk.rows
    BY <1>0, <2>1 DEF FeedInv, DeskInv
  <2>3. Fits(desk')
    BY <1>0, <1>1, <2>1, <2>2, AppendFits DEF Fits
  <2> QED
    BY <1>0, <1>1, <2>1, <2>2, <2>3, TypesFromParts DEF Asking
<1>10. CASE LtpGood \/ LtpSuspicious \/ LtpFails \/ LtpUnresolved
            \/ ReadPcrCached \/ ChainUnavailable \/ FinishPcr
  <2>1. /\ Reading /\ now' = now /\ attempt' = 0 /\ \E reading : Got(reading)
    BY <1>10 DEF LtpGood, LtpSuspicious, LtpFails, LtpUnresolved, ReadPcrCached,
                ChainUnavailable, FinishPcr, Answered, AtLtp, AtPcr
  <2>2. Fits(desk') /\ desk'.task \in {"idle", "monitor", "entry"}
    BY <1>0, <2>1, GotFits
  <2>3. \A s \in Symbols : cache'[s] # None => cache'[s].fetched \in 0 .. now'
    <3>1. cache' = cache \/ \E c : cache' = [cache EXCEPT ![Current] = c] /\ c.fetched = desk.began
      <4>1. CASE LtpGood
        <5>1. cache' = [cache EXCEPT ![Current] = Fresh] /\ Fresh.fetched = desk.began
          BY <4>1 DEF LtpGood, Fresh
        <5> QED
          BY <5>1
      <4>2. CASE LtpSuspicious
        <5> DEFINE v == lastValid[Current]
                   stand == [kind |-> "cached", origin |-> v.origin, fetched |-> desk.began,
                             fallback |-> v]
        <5>1. cache' = cache \/ cache' = [cache EXCEPT ![Current] = stand]
          BY <4>2 DEF LtpSuspicious
        <5>2. stand.fetched = desk.began
          OBVIOUS
        <5> HIDE DEF stand
        <5> QED
          BY <5>1, <5>2
      <4>3. CASE ~LtpGood /\ ~LtpSuspicious
        BY <1>10, <4>3 DEF LtpFails, LtpUnresolved, ReadPcrCached, ChainUnavailable, FinishPcr
      <4> QED
        BY <4>1, <4>2, <4>3
    <3>2. cache \in [Symbols -> {None} \union Cached]
      BY <1>0 DEF FeedInv
    <3> QED
      BY <1>1, <1>2, <2>1, <3>1, <3>2
  <2>4. pcrCache' # None => pcrCache'.ts \in 0 .. now'
    <3>1. pcrCache' = pcrCache \/ pcrCache' = PcrRecord
      BY <1>10 DEF LtpGood, LtpSuspicious, LtpFails, LtpUnresolved, ReadPcrCached,
                  ChainUnavailable, FinishPcr
    <3> QED
      BY <1>1, <2>1, <3>1 DEF PcrRecord
  <2> QED
    BY <1>0, <1>1, <2>1, <2>2, <2>3, <2>4, TypesFromParts DEF Asking
<1>11. CASE Mark \/ Enter
  <2>1. /\ AllRead(desk.task) /\ desk' = Resting /\ UNCHANGED <<now, attempt, cache, pcrCache>>
    BY <1>11 DEF Mark, Enter, Decide, AllRead
  <2>2. attempt = 0
    BY <1>0, <1>1, <2>1, PlanLength DEF AllRead, Asking, Reading, FeedInv, DeskInv
  <2> QED
    BY <1>0, <1>1, <2>1, <2>2, RestFits, TypesFromParts DEF Asking
<1>12. CASE UNCHANGED vars
  BY <1>0, <1>12 DEF vars, FeedTypeInv, FeedTypeOK, Asking, Reading, Current
<1> QED
  BY <1>3, <1>4, <1>5, <1>6, <1>7, <1>8, <1>9, <1>10, <1>11, <1>12 DEF Next

LEMMA FeedTypeInit == Init => FeedTypeInv
<1> SUFFICES ASSUME Init PROVE FeedTypeInv
  OBVIOUS
<1>1. FeedInv /\ attempt = 0 /\ now = 0 /\ MaxNow \in Nat /\ desk = Resting
  BY FeedInvInit, FeedAssumption DEF Init, FeedAssumption
<1>2. FeedTypeOK
  BY <1>1, RestFits DEF Init, FeedTypeOK, Fits
<1> QED
  BY <1>1, <1>2 DEF FeedTypeInv, Asking

(* A quote is tried at most twice, no more rows are read than the chain has *)
(* and no more readings taken than the plan asks for, and nothing in a      *)
(* cache is stamped in the future (get_quotes_safe, get_weekly_pcr).        *)
THEOREM FeedTypesCorrect == Spec => []FeedTypeOK
BY FeedTypeInit, FeedTypeNext, PTL DEF Spec, FeedTypeInv

-----------------------------------------------------------------------------
(* The nearest of a set of days.                                            *)
LEMMA NearestDay ==
  ASSUME NEW S \in SUBSET Nat, S # {}
  PROVE  /\ Min(S) \in S /\ \A d \in S : Min(S) <= d
         /\ \A n \in S : (\A d \in S : n <= d) => n = Min(S)
<1>1. Min(S) \in S /\ \A d \in S : Min(S) <= d
  BY MinOfNaturals
<1>2. ASSUME NEW n \in S, \A d \in S : n <= d PROVE n = Min(S)
  <2>1. n <= Min(S) /\ Min(S) <= n /\ n \in Nat /\ Min(S) \in Nat
    BY <1>1, <1>2
  <2> QED BY <2>1
<1> QED BY <1>1, <1>2

(* The inductive invariant: a search that was not refused has no listed day *)
(* behind it, and what is remembered without a doubt is the nearest week.   *)
Nearest == Min(listed)

Searched ==
  step.at = "search" =>
    /\ step.day \in Nat
    /\ step.atm \in Atms
    /\ step.atm \notin failed => \A d \in listed : step.day <= d

Remembered ==
  /\ \A a \in Atms : tsymCache[a] # NoWeek /\ a \notin failed => tsymCache[a] = Nearest
  /\ step.at = "chain" => step.atm \in Atms /\ tsymCache[step.atm] # NoWeek
  /\ signalCache # NoSignal /\ ~signalCache.doubt => signalCache.week = Nearest
  /\ step.at = "enter" /\ ~step.doubt => step.week = Nearest

SignalInv ==
  /\ listed \in SUBSET Nat /\ listed # {} /\ onFile \subseteq listed
  /\ DOMAIN tsymCache = Atms
  /\ Searched /\ Remembered
  /\ WeekIsExplained

LEMMA SignalInvInit == SignalInit => SignalInv
<1> SUFFICES ASSUME SignalInit PROVE SignalInv
  OBVIOUS
<1>1. listed \in SUBSET Nat /\ listed # {} /\ onFile \subseteq listed
  BY SignalAssumption DEF SignalInit
<1>2. Searched /\ Remembered /\ WeekIsExplained
  BY DEF SignalInit, Searched, Remembered, WeekIsExplained, AtRest, NoWeek, NoSignal
<1> QED BY <1>1, <1>2 DEF SignalInv, SignalInit

LEMMA AskKeepsInv ==
  ASSUME NEW atm \in Atms, SignalInv, AskSignal(atm)
  PROVE  SignalInv'
<1> USE DEF SignalInv
<1>1. /\ listed' = listed /\ onFile' = onFile /\ tsymCache' = tsymCache
      /\ signalCache' = signalCache /\ failed' = failed /\ entered' = entered
  BY DEF AskSignal
<1>2. CASE Valid /\ step' = WithSignal(signalCache.week, signalCache.doubt)
  BY <1>1, <1>2 DEF Searched, Remembered, WeekIsExplained, WithSignal, Valid, Nearest
<1>3. CASE tsymCache[atm] # NoWeek /\ step' = [at |-> "chain", atm |-> atm]
  BY <1>1, <1>3 DEF Searched, Remembered, WeekIsExplained, Nearest
<1>4. CASE step' = [at |-> "search", atm |-> atm, day |-> FirstDay]
  BY <1>1, <1>4 DEF Searched, Remembered, WeekIsExplained, FirstDay, Nearest
<1> QED BY <1>2, <1>3, <1>4 DEF AskSignal

LEMMA SearchKeepsInv == SignalInv /\ (SearchRefused \/ SearchAnswered) => SignalInv'
<1> SUFFICES ASSUME SignalInv, SearchRefused \/ SearchAnswered PROVE SignalInv'
  OBVIOUS
<1> USE DEF SignalInv
<1>1. /\ listed' = listed /\ onFile' = onFile /\ signalCache' = signalCache
      /\ entered' = entered /\ step.at = "search" /\ step.day \in Nat /\ step.atm \in Atms
      /\ Nearest' = Nearest /\ WeekIsExplained'
  BY DEF SearchRefused, SearchAnswered, Searched, WeekIsExplained, Nearest
<1>2. ASSUME PassOver, failed \subseteq failed', tsymCache' = tsymCache,
             step.atm \notin failed' => step.day \notin listed
      PROVE  SignalInv'
  <2>1. CASE step' = AtRest
    BY <1>1, <1>2, <2>1 DEF Searched, Remembered, AtRest
  <2>2. CASE step' = [step EXCEPT !.day = @ + 1]
    <3>1. step'.at = "search" /\ step'.atm = step.atm
      BY <1>1, <2>2
    <3>2. CASE step.atm \in failed'
      <4>1. step'.day \in Nat
        BY <1>1, <2>2, <3>2 DEF Searched
      <4> QED BY <1>1, <1>2, <3>1, <3>2, <4>1 DEF Searched, Remembered
    <3>3. CASE step.atm \notin failed'
      <4>1. \A d \in listed : step.day + 1 <= d
        BY <1>1, <1>2, <3>3 DEF Searched
      <4>2. step'.day = step.day + 1
        BY <1>1, <2>2
      <4> QED BY <1>1, <1>2, <3>1, <4>1, <4>2 DEF Searched, Remembered
    <3> QED BY <3>2, <3>3
  <2> QED BY <1>2, <2>1, <2>2 DEF PassOver
<1>3. CASE SearchRefused
  BY <1>2, <1>3 DEF SearchRefused
<1>4. CASE SearchAnswered /\ step.day \notin listed
  BY <1>2, <1>4 DEF SearchAnswered
<1>5. CASE SearchAnswered /\ step.day \in listed
  <2>1. /\ tsymCache' = [tsymCache EXCEPT ![step.atm] = step.day]
        /\ step' = [at |-> "chain", atm |-> step.atm] /\ failed' = failed
    BY <1>5 DEF SearchAnswered
  <2>2. step.atm \notin failed => step.day = Nearest
    BY <1>1, <1>5, NearestDay DEF Searched, Nearest
  <2>3. step.day # NoWeek
    BY <1>1 DEF NoWeek
  <2> QED BY <1>1, <2>1, <2>2, <2>3 DEF Searched, Remembered
<1> QED BY <1>3, <1>4, <1>5

LEMMA ChainKeepsInv == SignalInv /\ (ChainAnswered \/ ChainFails) => SignalInv'
<1> SUFFICES ASSUME SignalInv, ChainAnswered \/ ChainFails PROVE SignalInv'
  OBVIOUS
<1> USE DEF SignalInv
<1>1. /\ listed' = listed /\ onFile' = onFile /\ tsymCache' = tsymCache
      /\ failed' = failed /\ entered' = entered /\ step.at = "chain"
      /\ Nearest' = Nearest /\ WeekIsExplained'
  BY DEF ChainAnswered, ChainFails, WeekIsExplained, Nearest
<1>2. CASE ChainAnswered
  <2> DEFINE doubt == step.atm \in failed
             week == tsymCache[step.atm]
  <2>1. /\ signalCache' = [week |-> week, doubt |-> doubt, ts |-> signalClock]
        /\ step' = [at |-> "enter", week |-> week, doubt |-> doubt]
    BY <1>2 DEF ChainAnswered, WithSignal
  <2>2. ~doubt => week = Nearest
    BY <1>1 DEF Remembered
  <2> QED BY <1>1, <2>1, <2>2 DEF Searched, Remembered
<1>3. CASE ChainFails
  BY <1>1, <1>3 DEF ChainFails, Searched, Remembered, AtRest
<1> QED BY <1>2, <1>3

LEMMA EnterKeepsInv == SignalInv /\ TryEnter => SignalInv'
<1> SUFFICES ASSUME SignalInv, TryEnter PROVE SignalInv'
  OBVIOUS
<1> USE DEF SignalInv
<1>1. /\ listed' = listed /\ onFile' = onFile /\ tsymCache' = tsymCache
      /\ signalCache' = signalCache /\ failed' = failed /\ step.at = "enter"
      /\ step' = AtRest /\ Nearest' = Nearest
  BY DEF TryEnter, Nearest
<1>2. WeekIsExplained'
  <2>1. CASE onFile = {}
    BY <1>1, <2>1 DEF TryEnter, WeekIsExplained
  <2>2. CASE onFile # {}
    <3>1. entered' = [at |-> "done", signal |-> step.week, doubt |-> step.doubt,
                      legs |-> Min(onFile)]
      BY <2>2 DEF TryEnter
    <3>2. ASSUME Min(listed) \in onFile PROVE Min(onFile) = Min(listed)
      <4>1. \A d \in onFile : Min(listed) <= d
        BY NearestDay
      <4>2. onFile \in SUBSET Nat
        OBVIOUS
      <4> QED BY <2>2, <3>2, <4>1, <4>2, NearestDay
    <3>3. ~step.doubt => step.week = Min(listed)
      BY <1>1 DEF Remembered, Nearest
    <3> QED BY <1>1, <3>1, <3>2, <3>3 DEF WeekIsExplained
  <2> QED BY <2>1, <2>2
<1>3. Searched' /\ Remembered'
  BY <1>1 DEF Searched, Remembered, AtRest
<1> QED BY <1>1, <1>2, <1>3

LEMMA SignalInvNext == SignalInv /\ [SignalNext]_signalVars => SignalInv'
<1> SUFFICES ASSUME SignalInv, [SignalNext]_signalVars PROVE SignalInv'
  OBVIOUS
<1>1. ASSUME NEW atm \in Atms, AskSignal(atm) PROVE SignalInv'
  BY <1>1, AskKeepsInv
<1>2. CASE SearchRefused \/ SearchAnswered
  BY <1>2, SearchKeepsInv
<1>3. CASE ChainAnswered \/ ChainFails
  BY <1>3, ChainKeepsInv
<1>4. CASE TryEnter
  BY <1>4, EnterKeepsInv
<1>5. CASE Relaunch
  BY <1>5 DEF Relaunch, SignalInv, Searched, Remembered, WeekIsExplained, AtRest, Nearest
<1>6. CASE SignalTick \/ UNCHANGED signalVars
  BY <1>6 DEF SignalTick, signalVars, SignalInv, Searched, Remembered, WeekIsExplained,
              Nearest
<1> QED BY <1>1, <1>2, <1>3, <1>4, <1>5, <1>6 DEF SignalNext

(* Unless the broker refused to answer one day of the search, the week of   *)
(* the PCR is the week of the legs whenever NFO.csv lists it                *)
(* (get_weekly_pcr, ExpiryManager.get_expiry).                              *)
THEOREM WeekCorrect == SignalSpec => []WeekIsExplained
<1>1. SignalInv => WeekIsExplained
  BY DEF SignalInv
<1> QED BY <1>1, SignalInvInit, SignalInvNext, PTL DEF SignalSpec

-----------------------------------------------------------------------------
(* The contract tables: what an index lists.                                *)
LEMMA ListingTyped ==
  ASSUME NEW l \in Listing
  PROVE  /\ l.futures \in SUBSET Nat /\ l.expiries \in SUBSET Nat /\ l.strikes \in SUBSET Nat
         /\ IsFiniteSet(l.expiries) /\ IsFiniteSet(l.strikes)
         /\ l.sides # {} /\ l.futures \in SUBSET ExpiryDays
<1>1. /\ l.futures \in SUBSET ExpiryDays /\ l.expiries \in SUBSET ExpiryDays
      /\ l.strikes \in SUBSET StrikePrices /\ l.sides # {}
  BY DEF Listing
<1>2. ExpiryDays \subseteq Nat /\ StrikePrices \subseteq Nat
      /\ IsFiniteSet(ExpiryDays) /\ IsFiniteSet(StrikePrices)
  BY TableAssumption
<1>3. IsFiniteSet(l.expiries) /\ IsFiniteSet(l.strikes)
  BY <1>1, <1>2, FS_Subset
<1> QED BY <1>1, <1>2, <1>3

LEMMA FutureIsLive ==
  ASSUME NEW l \in Listing, today \in Nat
  PROVE  \A e \in IndexFuture(l) : e >= today
<1>1. Active(l.futures) \in SUBSET Nat
  BY ListingTyped DEF Active
<1>2. Active(l.futures) # {} => Min(Active(l.futures)) \in Active(l.futures)
  BY <1>1, MinOfNaturals
<1> QED BY <1>2 DEF IndexFuture, Active

(* The nearest expiries that are not over include the nearest of them, so   *)
(* the last of them is not over either.                                     *)
LEMMA LastExpiryIsLive ==
  ASSUME NEW l \in Listing, today \in Nat, Active(l.expiries) # {}
  PROVE  Max(NearestTwo(l)) >= today
<1> DEFINE A == Active(l.expiries)
           N == NearestTwo(l)
<1>1. A \in SUBSET Nat /\ IsFiniteSet(A)
  <2>1. A \in SUBSET l.expiries
    BY DEF Active
  <2>2. IsFiniteSet(A)
    BY <2>1, ListingTyped, FS_Subset
  <2> QED BY <2>1, <2>2, ListingTyped
<1>2. Min(A) \in A /\ \A n \in A : Min(A) <= n
  BY <1>1, MinOfNaturals
<1>3. {f \in A : f < Min(A)} = {}
  BY <1>1, <1>2
<1>4. Cardinality({f \in A : f < Min(A)}) < MaxExpiries
  <2>1. Cardinality({f \in A : f < Min(A)}) = 0
    BY <1>3, FS_EmptySet
  <2> QED BY <2>1, TableAssumption
<1>5. Min(A) \in N /\ N \in SUBSET A
  BY <1>2, <1>4 DEF NearestTwo
<1> HIDE DEF A, N
<1>6. N # {} /\ N \in SUBSET Nat /\ IsFiniteSet(N)
  BY <1>1, <1>5, FS_Subset
<1>7. Max(N) \in N
  BY <1>6, MaxOfFinite
<1> QED BY <1>5, <1>7 DEF A, N, Active

LEMMA GapsTyped ==
  ASSUME NEW l \in Listing
  PROVE  Gaps(l) \in SUBSET Nat
<1> SUFFICES ASSUME NEW g \in Gaps(l) PROVE g \in Nat
  OBVIOUS
<1>1. l.strikes \in SUBSET Nat /\ IsFiniteSet(l.strikes)
  BY ListingTyped
<1>2. CASE g = 0
  BY <1>2
<1>3. CASE g # 0
  <2>1. PICK s \in l.strikes \ {Max(l.strikes)} : g = Min({t \in l.strikes : t > s}) - s
    BY <1>3 DEF Gaps
  <2>2. {t \in l.strikes : t > s} # {}
    <3>1. Max(l.strikes) \in l.strikes /\ s <= Max(l.strikes)
      BY <1>1, MaxOfFinite
    <3> QED BY <1>1, <3>1
  <2>3. Min({t \in l.strikes : t > s}) \in {t \in l.strikes : t > s}
    BY <1>1, <2>2, MinOfNaturals
  <2>4. PICK m \in l.strikes : m > s /\ g = m - s
    BY <2>1, <2>3
  <2> QED BY <1>1, <2>1, <2>4
<1> QED BY <1>2, <1>3

(* There is a most frequent difference, and it is not negative.             *)
LEMMA IntervalTyped ==
  ASSUME NEW l \in Listing, Gaps(l) # {}
  PROVE  StrikeInterval(l) \in Nat
<1> DEFINE G == Gaps(l)
           S == l.strikes
           seen(g) == TimesSeen(l, g)
           w == [g \in G |-> Cardinality(S) - seen(g)]
<1>1. G \in SUBSET Nat /\ G # {}
  BY GapsTyped
<1>2. IsFiniteSet(S) /\ Cardinality(S) \in Nat
  BY ListingTyped, FS_CardinalityType
<1>3. ASSUME NEW g \in G PROVE seen(g) \in Nat /\ seen(g) <= Cardinality(S)
  <2>1. CASE g = 0
    BY <1>2, <2>1 DEF TimesSeen
  <2>2. CASE g # 0
    <3> DEFINE U == {s \in S : s + g \in S /\ \A t \in S : t <= s \/ t >= s + g}
    <3>1. U \in SUBSET S
      OBVIOUS
    <3>2. seen(g) = Cardinality(U)
      BY <2>2 DEF TimesSeen
    <3> HIDE DEF U, S
    <3>3. IsFiniteSet(U) /\ Cardinality(U) <= Cardinality(S)
      BY <1>2, <3>1, FS_Subset
    <3>4. Cardinality(U) \in Nat
      BY <3>3, FS_CardinalityType
    <3> QED BY <3>2, <3>3, <3>4
  <2> QED BY <2>1, <2>2
<1> HIDE DEF seen, S
<1>4. \A g \in G : w[g] = Cardinality(S) - seen(g)
  OBVIOUS
<1> HIDE DEF w
<1>5. \A g \in G : w[g] \in Nat
  BY <1>2, <1>3, <1>4
<1>6. \E g \in G : \A h \in G \ {g} : w[g] < w[h] \/ (w[g] = w[h] /\ g < h)
  <2> HIDE DEF G
  <2> QED BY <1>1, <1>5, LexicographicLeast
<1>7. PICK g \in G : \A h \in G \ {g} : w[g] < w[h] \/ (w[g] = w[h] /\ g < h)
  BY <1>6
<1>8. \A h \in G \ {g} : seen(g) > seen(h) \/ (seen(g) = seen(h) /\ g < h)
  <2> SUFFICES ASSUME NEW h \in G \ {g} PROVE seen(g) > seen(h) \/ (seen(g) = seen(h) /\ g < h)
    OBVIOUS
  <2>1. w[g] < w[h] \/ (w[g] = w[h] /\ g < h)
    BY <1>7
  <2>2. /\ w[g] = Cardinality(S) - seen(g) /\ w[h] = Cardinality(S) - seen(h)
        /\ seen(g) \in Nat /\ seen(h) \in Nat
    BY <1>3, <1>4
  <2> QED BY <1>2, <2>1, <2>2
<1>9. \E x \in G : \A h \in G \ {x} : seen(x) > seen(h) \/ (seen(x) = seen(h) /\ x < h)
  BY <1>8
<1>10. StrikeInterval(l) \in G
  BY <1>9 DEF StrikeInterval, seen
<1> QED BY <1>1, <1>10

(* The strike at the money is the nearest that is listed.                   *)
LEMMA AtmIsNearest ==
  ASSUME NEW l \in Listing, NEW price \in Nat, l.strikes # {}
  PROVE  /\ AtmStrike(l, price) \in l.strikes
         /\ \A s \in l.strikes : Size(AtmStrike(l, price) - price) <= Size(s - price)
<1> DEFINE S == l.strikes
           w == [s \in S |-> Size(s - price)]
<1>1. S \in SUBSET Nat /\ S # {}
  BY ListingTyped
<1>2. \A s \in S : Size(s - price) \in Nat
  BY <1>1 DEF Size
<1>3. \A s \in S : w[s] = Size(s - price)
  OBVIOUS
<1> HIDE DEF S, w
<1>4. \E s \in S : \A t \in S \ {s} : w[s] < w[t] \/ (w[s] = w[t] /\ s < t)
  <2>1. \A s \in S : w[s] \in Nat
    BY <1>2, <1>3
  <2> QED BY <1>1, <2>1, LexicographicLeast
<1>5. \E s \in S : \A t \in S \ {s} :
        Size(s - price) < Size(t - price) \/ (Size(s - price) = Size(t - price) /\ s < t)
  BY <1>3, <1>4
<1>6. /\ AtmStrike(l, price) \in S
      /\ \A t \in S \ {AtmStrike(l, price)} :
           \/ Size(AtmStrike(l, price) - price) < Size(t - price)
           \/ Size(AtmStrike(l, price) - price) = Size(t - price) /\ AtmStrike(l, price) < t
  BY <1>5 DEF AtmStrike, S
<1> QED BY <1>2, <1>6 DEF S

(* What the options picked for an index have of the promise.                *)
LEMMA DerivativesAreLive ==
  ASSUME NEW l \in Listing, NEW price \in Nat, today \in Nat
  PROVE  /\ \A o \in IndexDerivatives(l, price) : o.expiry >= today /\ IndexFuture(l) # {}
         /\ IndexDerivatives(l, price) # {} =>
              \A s \in l.strikes : \E o \in IndexDerivatives(l, price) :
                Size(o.strike - price) <= Size(s - price)
<1> SUFFICES ASSUME IndexDerivatives(l, price) # {}
             PROVE  /\ \A o \in IndexDerivatives(l, price) : o.expiry >= today
                         /\ IndexFuture(l) # {}
                    /\ \A s \in l.strikes : \E o \in IndexDerivatives(l, price) :
                         Size(o.strike - price) <= Size(s - price)
  OBVIOUS
<1> DEFINE E == Max(NearestTwo(l))
           atm == AtmStrike(l, price)
           near == {t \in l.strikes : Size(t - atm) <= StrikeRange * StrikeInterval(l)}
<1>1. /\ Active(l.expiries) # {} /\ l.strikes # {}
      /\ IndexDerivatives(l, price) = IndexOptions(l, E, price)
  BY DEF IndexDerivatives
<1>2. /\ IndexFuture(l) # {} /\ Gaps(l) # {}
      /\ IndexDerivatives(l, price) =
           {[index |-> l.index, expiry |-> E, strike |-> s, side |-> side] : s \in near,
             side \in l.sides}
  BY <1>1 DEF IndexOptions
<1>3. E >= today
  BY <1>1, LastExpiryIsLive
<1>4. atm \in near
  <2>1. atm \in l.strikes /\ atm \in Nat
    BY <1>1, AtmIsNearest, ListingTyped
  <2>2. StrikeRange * StrikeInterval(l) \in Nat
    <3>1. StrikeInterval(l) \in Nat
      BY <1>2, IntervalTyped
    <3> QED BY <3>1, TableAssumption
  <2>3. Size(atm - atm) = 0
    BY <2>1 DEF Size
  <2> QED BY <2>1, <2>2, <2>3
<1>5. PICK side : side \in l.sides
  BY ListingTyped
<1> DEFINE best == [index |-> l.index, expiry |-> E, strike |-> atm, side |-> side]
<1>6. best \in IndexDerivatives(l, price) /\ best.strike = atm
  BY <1>2, <1>4, <1>5
<1>7. \A s \in l.strikes : Size(best.strike - price) <= Size(s - price)
  BY <1>1, <1>6, AtmIsNearest
<1>8. \A o \in IndexDerivatives(l, price) : o.expiry = E
  BY <1>2
<1> HIDE DEF best, E, near, atm
<1> QED BY <1>2, <1>3, <1>6, <1>7, <1>8

-----------------------------------------------------------------------------
(* The inductive invariant: nothing is picked before the table is read, and *)
(* the table is the file.                                                   *)
TableInv ==
  /\ today \in Nat
  /\ onDisk.nfo \in SUBSET Listing /\ \A l, m \in onDisk.nfo : l = m
  /\ table = Unread \/ table = onDisk
  /\ table = Unread => picked = NothingPicked
  /\ CollectedIsLive

LEMMA TableStarts == TableInit => TableInv
<1> SUFFICES ASSUME TableInit PROVE TableInv
  OBVIOUS
<1>1. onDisk.nfo \in SUBSET Listing /\ \A l, m \in onDisk.nfo : l = m
  <2>1. PICK d : d = onDisk
    OBVIOUS
  <2>2. d.nfo \in {{l} : l \in Listing} \union {{}}
    BY <2>1 DEF TableInit
  <2> QED BY <2>1, <2>2
<1> QED BY <1>1 DEF TableInit, TableInv, CollectedIsLive, NothingPicked

(* A table once read stays what was read; what was picked from it is live   *)
(* on the day of the pick.                                                  *)
LEMMA TableStep == TableInv /\ [TableNext]_tableVars => TableInv'
<1> SUFFICES ASSUME TableInv, [TableNext]_tableVars PROVE TableInv'
  OBVIOUS
<1>1. CASE UNCHANGED tableVars
  BY <1>1 DEF tableVars, TableInv, CollectedIsLive
<1>2. CASE NextDay
  BY <1>2 DEF NextDay, TableInv, CollectedIsLive
<1>3. CASE LoadSymbolFiles
  BY <1>3 DEF LoadSymbolFiles, TableInv, CollectedIsLive, NothingPicked
<1>4. ASSUME NEW price \in FuturePrices, PickSymbols(price) PROVE TableInv'
  <2>0. PICK listings : listings = table.nfo
    OBVIOUS
  <2> DEFINE new == [on |-> today, spot |-> table.nse, price |-> price,
                     futures |-> UNION {IndexFuture(l) : l \in listings},
                     options |-> UNION {IndexDerivatives(l, price) : l \in listings}]
  <2>1. /\ picked' = new /\ table' = table /\ today' = today /\ onDisk' = onDisk /\ table # Unread
    BY <1>4, <2>0 DEF PickSymbols
  <2>2. listings \in SUBSET Listing /\ \A l, m \in listings : l = m
    BY <2>0, <2>1 DEF TableInv
  <2>3. price \in Nat /\ today \in Nat
    BY TableAssumption DEF TableInv
  <2>4. \A e \in new.futures : e >= new.on
    BY <2>2, <2>3, FutureIsLive
  <2>5. \A o \in new.options : o.expiry >= new.on /\ new.futures # {}
    <3> SUFFICES ASSUME NEW o \in new.options PROVE o.expiry >= today /\ new.futures # {}
      OBVIOUS
    <3>1. PICK l \in listings : o \in IndexDerivatives(l, price)
      OBVIOUS
    <3>2. o.expiry >= today /\ IndexFuture(l) # {}
      BY <2>2, <2>3, <3>1, DerivativesAreLive
    <3> QED BY <3>1, <3>2
  <2>6. ASSUME new.options # {}, NEW l \in listings, NEW s \in l.strikes
        PROVE  \E o \in new.options : Size(o.strike - new.price) <= Size(s - new.price)
    <3>1. PICK x : x \in new.options
      BY <2>6
    <3>2. PICK m \in listings : x \in IndexDerivatives(m, price)
      BY <3>1
    <3>3. m = l
      BY <2>2
    <3>4. \E o \in IndexDerivatives(l, price) : Size(o.strike - price) <= Size(s - price)
      BY <2>2, <2>3, <3>2, <3>3, DerivativesAreLive
    <3> QED BY <3>4
  <2> HIDE DEF new
  <2>7. CollectedIsLive'
    BY <2>0, <2>1, <2>4, <2>5, <2>6 DEF CollectedIsLive
  <2> QED BY <2>1, <2>7 DEF TableInv
<1> QED BY <1>1, <1>2, <1>3, <1>4 DEF TableNext

(* However long ago the table was read, for every listing, price and day    *)
(* what is collected can still be traded when it is picked, and no listed   *)
(* strike is nearer to the price than every picked one (SymbolManager).     *)
THEOREM ContractsCorrect == TableSpec => []CollectedIsLive
<1>1. TableInv => CollectedIsLive
  BY DEF TableInv
<1> QED BY <1>1, TableStarts, TableStep, PTL DEF TableSpec
=============================================================================
