----------------------------- MODULE MarketFeed -----------------------------
(***************************************************************************)
(* The trader's market data: MarketData's price cache and last valid       *)
(* prices over the broker's quotes (get_quotes_safe and its two attempts), *)
(* and the PCR signal with its own cache.  The trader is one thread: it is *)
(* blocked while a quote is under way, for the slot it waits for, the      *)
(* request and the pause before the second one, and time passes.           *)
(*                                                                         *)
(* What a price is worth is what matters here, not its amount: a price is  *)
(* the moment at which the market quoted it (its origin).                  *)
(***************************************************************************)
EXTENDS Integers, Sequences, FiniteSets

CONSTANTS
  LtpCache,          \* settings.LTP_CACHE_SEC
  LastValidTtl,      \* _LAST_VALID_LTP_TTL
  FreshMax,          \* settings.IC_FRESH_LTP_MAX_AGE_SEC
  PcrTtl,            \* pcr_signal._CACHE_TTL_SEC
  Chain,             \* the rows of the option chain, "CE" or "PE"
  MaxNow             \* bound of the instance

ASSUME FeedAssumption ==
  /\ LtpCache \in Nat \ {0} /\ LastValidTtl \in Nat /\ FreshMax \in Nat
  /\ PcrTtl \in Nat /\ MaxNow \in Nat
  /\ Chain \in Seq({"CE", "PE"})

VARIABLES
  now,               \* time.monotonic()
  attempt,           \* of get_quotes_safe: 0 when no quote is under way
  cache,             \* MarketData._ltp_cache
  lastValid,         \* MarketData._last_valid_option_ltp
  pcrCache,          \* pcr_signal._pcr_cache
  desk,              \* what the trader is reading, and for what
  used               \* history: the readings that a decision just used

vars == <<now, attempt, cache, lastValid, pcrCache, desk, used>>

Options == {"short", "long"}
Symbols == Options \union {"spot"}

None == [kind |-> "none"]

(* What the trader reads for one decision, in order.                       *)
Plan(task) ==
  CASE task = "monitor" -> <<"short", "long">>
    [] task = "entry" -> <<"spot", "pcr", "short", "long">>
    [] OTHER -> <<>>

Resting == [task |-> "idle", began |-> 0, rows |-> <<>>, reads |-> <<>>]
Current == Plan(desk.task)[Len(desk.reads) + 1]
Reading == desk.task # "idle" /\ Len(desk.reads) < Len(Plan(desk.task))

Init ==
  /\ now = 0 /\ attempt = 0
  /\ cache = [s \in Symbols |-> None]
  /\ lastValid = [s \in Options |-> None]
  /\ pcrCache = None
  /\ desk = Resting
  /\ used = Resting

(* Time passes while the trader sleeps between two passes or waits for an  *)
(* answer; what it computes in between takes none.                         *)
Tick ==
  /\ now < MaxNow
  /\ desk.task = "idle" \/ attempt > 0
  /\ now' = now + 1
  /\ UNCHANGED <<attempt, cache, lastValid, pcrCache, desk, used>>

-----------------------------------------------------------------------------
(* get_quotes_safe: at most two attempts.                                  *)
Ask == attempt' = 1

AttemptFailsAlways ==
  /\ attempt > 0
  /\ attempt' = attempt + 1
  /\ UNCHANGED <<now, cache, lastValid, pcrCache, desk, used>>

AttemptFails ==
  /\ attempt = 1
  /\ attempt' = 2
  /\ UNCHANGED <<now, cache, lastValid, pcrCache, desk, used>>

Answered == attempt > 0 /\ attempt' = 0

-----------------------------------------------------------------------------
(* The trader's passes: the monitor marks an open spread, an entry is       *)
(* attempted; both read everything they need one after the other.           *)
Price(origin, age) ==
  [kind |-> "price", origin |-> origin, age |-> age, began |-> desk.began]

(* Readings go on the list; no price ends the attempt, in the monitor only *)
(* after both legs have been asked for.                                    *)
Got(reading) ==
  desk' = IF desk.task = "entry" /\ reading = None /\ Current \in {"spot", "pcr"}
          THEN Resting
          ELSE [desk EXCEPT !.reads = Append(@, reading), !.rows = <<>>, !.began = now]

StartPass(task) ==
  /\ desk.task = "idle"
  /\ desk' = [Resting EXCEPT !.task = task, !.began = now]
  /\ used' = Resting
  /\ UNCHANGED <<now, attempt, cache, lastValid, pcrCache>>

(* now - fetched_ts < LTP_CACHE_SEC                                        *)
CacheHit(s) == cache[s] # None /\ now - cache[s].fetched < LtpCache

CachedAgeOfFetch(s) == now - cache[s].fetched
CachedAge(s) ==
  now - (IF cache[s].fallback = None THEN cache[s].fetched ELSE cache[s].fallback.ts)

AtLtp == Reading /\ Current \in Symbols /\ attempt = 0

ReadCached ==
  /\ AtLtp /\ CacheHit(Current)
  /\ desk' = [desk EXCEPT
       !.reads = Append(@, [kind |-> "price", origin |-> cache[Current].origin,
                            age |-> CachedAge(Current), began |-> now]),
       !.began = now]
  /\ UNCHANGED <<now, attempt, cache, lastValid, pcrCache, used>>

(* An option that is not in the contract table is never asked for.          *)
LtpUnresolved ==
  /\ AtLtp /\ ~CacheHit(Current) /\ Current \in Options
  /\ Got(None)
  /\ UNCHANGED <<now, attempt, cache, lastValid, pcrCache, used>>

(* _get_ltp_with_age takes the time before it asks the broker.             *)
AskLtp ==
  /\ AtLtp /\ ~CacheHit(Current)
  /\ Ask
  /\ desk' = [desk EXCEPT !.began = now]
  /\ UNCHANGED <<now, cache, lastValid, pcrCache, used>>

Fresh == [kind |-> "cached", origin |-> now, fetched |-> desk.began, fallback |-> None]

(* lp in range, or the middle of bid and ask of the same answer.           *)
LtpGood ==
  /\ Reading /\ Current \in Symbols
  /\ Answered
  /\ cache' = [cache EXCEPT ![Current] = Fresh]
  /\ lastValid' = IF Current \in Options
                  THEN [lastValid EXCEPT ![Current] =
                          [kind |-> "valid", origin |-> now, ts |-> desk.began]]
                  ELSE lastValid
  /\ Got(Price(now, 0))
  /\ UNCHANGED <<now, pcrCache, used>>

AnyLastValid(s) == lastValid[s] # None
WithinTtl(s) == lastValid[s] # None /\ desk.began - lastValid[s].ts <= LastValidTtl

(* An option whose lp is the spot price and whose bid and ask are no use:  *)
(* the last valid price stands in if it is recent, with its own age.       *)
LtpSuspicious ==
  /\ Reading /\ Current \in Options
  /\ Answered
  /\ IF WithinTtl(Current)
     THEN LET v == lastValid[Current] IN
          /\ cache' = [cache EXCEPT ![Current] =
               [kind |-> "cached", origin |-> v.origin, fetched |-> desk.began,
                fallback |-> v]]
          /\ Got(Price(v.origin, desk.began - v.ts))
     ELSE Got(None) /\ cache' = cache
  /\ UNCHANGED <<now, lastValid, pcrCache, used>>

(* No answer to either attempt, or one without a price in it.               *)
LtpFails ==
  /\ Reading /\ Current \in Symbols
  /\ Answered
  /\ Got(None)
  /\ UNCHANGED <<now, cache, lastValid, pcrCache, used>>

-----------------------------------------------------------------------------
(* get_weekly_pcr                                                          *)
AtPcr == Reading /\ Current = "pcr" /\ attempt = 0
PcrHit == pcrCache # None /\ now - pcrCache.ts < PcrTtl

ReadPcrCached ==
  /\ AtPcr /\ desk.rows = <<>> /\ PcrHit
  /\ Got(pcrCache)
  /\ UNCHANGED <<now, attempt, cache, lastValid, pcrCache, used>>

(* No contract found, or no chain, or no row of that week in it.           *)
ChainUnavailable ==
  /\ AtPcr /\ desk.rows = <<>> /\ ~PcrHit
  /\ Got(None)
  /\ UNCHANGED <<now, attempt, cache, lastValid, pcrCache, used>>

AskRow ==
  /\ AtPcr /\ Len(desk.rows) < Len(Chain)
  /\ desk.rows = <<>> => ~PcrHit
  /\ Ask
  /\ UNCHANGED <<now, cache, lastValid, pcrCache, desk, used>>

(* A row that fails or has no open interest adds nothing to its side.      *)
RowAnswered(counts) ==
  /\ Reading /\ Current = "pcr"
  /\ Answered
  /\ desk' = [desk EXCEPT !.rows = Append(@, counts)]
  /\ UNCHANGED <<now, cache, lastValid, pcrCache, used>>

Interest(side) == Cardinality({i \in DOMAIN desk.rows : desk.rows[i] /\ Chain[i] = side})
PcrRecord == [kind |-> "pcr", ce |-> Interest("CE"), pe |-> Interest("PE"), ts |-> now]

FinishPcr ==
  /\ AtPcr /\ Len(desk.rows) = Len(Chain)
  /\ IF Interest("CE") = 0
     THEN Got(None) /\ pcrCache' = pcrCache
     ELSE pcrCache' = PcrRecord /\ Got(PcrRecord)
  /\ UNCHANGED <<now, attempt, cache, lastValid, used>>

-----------------------------------------------------------------------------
(* monitor and enter, once everything is read.  The monitor looks at the    *)
(* ages, an entry takes any price it is given.                              *)
Priced(r) == r # None
AllRead(task) == desk.task = task /\ Len(desk.reads) = Len(Plan(task))

MarkIgnoringAge == \A i \in 1 .. 2 : Priced(desk.reads[i])
MayMark == \A i \in 1 .. 2 : Priced(desk.reads[i]) /\ desk.reads[i].age <= FreshMax
MayEnter == \A i \in 3 .. 4 : Priced(desk.reads[i])

Decide(task, accept) ==
  /\ AllRead(task)
  /\ used' = IF accept THEN desk ELSE used
  /\ desk' = Resting
  /\ UNCHANGED <<now, attempt, cache, lastValid, pcrCache>>

Mark == Decide("monitor", MayMark)
Enter == Decide("entry", MayEnter)

Next ==
  \/ Tick
  \/ AttemptFails
  \/ \E task \in {"monitor", "entry"} : StartPass(task)
  \/ ReadCached \/ AskLtp \/ LtpGood \/ LtpSuspicious \/ LtpFails
  \/ LtpUnresolved
  \/ ReadPcrCached \/ ChainUnavailable \/ AskRow \/ FinishPcr
  \/ \E counts \in BOOLEAN : RowAnswered(counts)
  \/ Mark \/ Enter

Spec == Init /\ [][Next]_vars

-----------------------------------------------------------------------------
(* What the variables hold: a quote is tried at most twice                   *)
(* (get_quotes_safe), and nothing cached is stamped in the future.          *)
FeedTypeOK ==
  /\ now \in 0 .. MaxNow /\ attempt \in 0 .. 2
  /\ desk.task \in {"idle", "monitor", "entry"}
  /\ Len(desk.reads) <= Len(Plan(desk.task)) /\ Len(desk.rows) <= Len(Chain)
  /\ \A s \in Symbols : cache[s] # None => cache[s].fetched \in 0 .. now
  /\ pcrCache # None => pcrCache.ts \in 0 .. now

(* No price is older than the age that comes with it, counted from the      *)
(* moment the trader asked; also when a substitute is served again from the *)
(* cache, and when the substitute was itself fetched slowly.                *)
AgeHonest ==
  \A i \in DOMAIN desk.reads :
    desk.reads[i].kind = "price" =>
      desk.reads[i].began - desk.reads[i].origin <= desk.reads[i].age

(* The monitor compares two legs only if each was quoted by the market at   *)
(* most FreshMax before it was asked for.                                   *)
MarksAreFresh ==
  used.task = "monitor" =>
    \A i \in 1 .. 2 : used.reads[i].began - used.reads[i].origin <= FreshMax

(* An entry looks at no ages, but its legs still stood in the market at     *)
(* most LastValidTtl and one cache period before they were asked for, and   *)
(* its PCR has a call side.                                                 *)
EntryPricesBounded ==
  used.task = "entry" =>
    /\ \A i \in 3 .. 4 :
         used.reads[i].began - used.reads[i].origin < LastValidTtl + LtpCache
    /\ used.reads[2].ce > 0
=============================================================================
