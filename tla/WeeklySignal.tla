---------------------------- MODULE WeeklySignal ----------------------------
(***************************************************************************)
(* Which week's options an entry is about.  The PCR comes from the         *)
(* contract that core/pcr_signal.py finds by asking the broker day by day  *)
(* and remembers for the life of the process; the legs come from the       *)
(* nearest expiry that core/expiry_manager.py finds in NFO.csv.  An expiry *)
(* is the number of days from today: the trader runs for one day.          *)
(***************************************************************************)
EXTENDS Integers, FiniteSets, FiniteSetsExt

CONSTANTS
  Calendars,        \* sets of days on which the exchange's contracts expire
  Atms,             \* strikes the spot price may be nearest to
  Horizon,          \* days looked ahead for a contract: 8
  SignalTtl,        \* _CACHE_TTL_SEC
  MaxClock          \* bound of the instance

ASSUME SignalAssumption ==
  /\ Calendars \subseteq SUBSET Nat /\ {} \notin Calendars
  /\ Horizon \in Nat /\ SignalTtl \in Nat /\ MaxClock \in Nat

VARIABLES
  listed,           \* what the exchange lists
  onFile,           \* what NFO.csv lists, perhaps an older file
  signalClock,
  tsymCache,        \* _tsym_cache: the week found for an ATM strike, or NoWeek
  signalCache,      \* _pcr_cache
  step,             \* where the entry attempt is
  failed,           \* history: strikes for which a search was refused
  entered           \* history: the week of the signal and of the legs

signalVars ==
  <<listed, onFile, signalClock, tsymCache, signalCache, step, failed, entered>>

NoWeek == -1
NoSignal == [week |-> NoWeek]
AtRest == [at |-> "rest"]

SignalInit ==
  /\ listed \in Calendars
  /\ onFile \in SUBSET listed
  /\ signalClock = 0
  /\ tsymCache = [a \in Atms |-> NoWeek]
  /\ signalCache = NoSignal
  /\ step = AtRest
  /\ failed = {}
  /\ entered = AtRest

SignalTick ==
  /\ step = AtRest /\ signalClock < MaxClock
  /\ signalClock' = signalClock + 1
  /\ UNCHANGED <<listed, onFile, tsymCache, signalCache, step, failed, entered>>

(* The trader dies and is started again: both caches are in its memory.     *)
Relaunch ==
  /\ tsymCache' = [a \in Atms |-> NoWeek]
  /\ signalCache' = NoSignal
  /\ step' = AtRest /\ failed' = {} /\ entered' = AtRest
  /\ UNCHANGED <<listed, onFile, signalClock>>

Valid == signalCache # NoSignal /\ signalClock - signalCache.ts < SignalTtl
WithSignal(week, doubt) == [at |-> "enter", week |-> week, doubt |-> doubt]

FirstDayTomorrow == 1
FirstDay == 0

(* get_weekly_pcr: the cached value, the remembered contract, or a search.  *)
AskSignal(atm) ==
  /\ step = AtRest
  /\ step' = CASE Valid -> WithSignal(signalCache.week, signalCache.doubt)
               [] tsymCache[atm] # NoWeek -> [at |-> "chain", atm |-> atm]
               [] OTHER -> [at |-> "search", atm |-> atm, day |-> FirstDay]
  /\ UNCHANGED <<listed, onFile, signalClock, tsymCache, signalCache, failed, entered>>

(* _resolve_weekly_tsym, one day: a refused search and a day on which       *)
(* nothing expires are passed over alike.                                   *)
PassOver ==
  step' = IF step.day = Horizon THEN AtRest ELSE [step EXCEPT !.day = @ + 1]

SearchRefused ==
  /\ step.at = "search"
  /\ PassOver
  /\ failed' = failed \union {step.atm}
  /\ UNCHANGED <<listed, onFile, signalClock, tsymCache, signalCache, entered>>

SearchAnswered ==
  /\ step.at = "search"
  /\ IF step.day \in listed
     THEN /\ tsymCache' = [tsymCache EXCEPT ![step.atm] = step.day]
          /\ step' = [at |-> "chain", atm |-> step.atm]
     ELSE PassOver /\ UNCHANGED tsymCache
  /\ UNCHANGED <<listed, onFile, signalClock, signalCache, failed, entered>>

(* The chain of that week and its open interest, or no signal at all.       *)
ChainAnswered ==
  /\ step.at = "chain"
  /\ LET doubt == step.atm \in failed
         week == tsymCache[step.atm]
     IN /\ signalCache' = [week |-> week, doubt |-> doubt, ts |-> signalClock]
        /\ step' = WithSignal(week, doubt)
  /\ UNCHANGED <<listed, onFile, signalClock, tsymCache, failed, entered>>

ChainFails ==
  /\ step.at = "chain"
  /\ step' = AtRest
  /\ UNCHANGED <<listed, onFile, signalClock, tsymCache, signalCache, failed, entered>>

(* ExpiryManager.get_expiry, then enter; without an expiry the tick is      *)
(* skipped.                                                                 *)
TryEnter ==
  /\ step.at = "enter"
  /\ step' = AtRest
  /\ entered' = IF onFile = {} THEN entered
                ELSE [at |-> "done", signal |-> step.week, doubt |-> step.doubt,
                      legs |-> Min(onFile)]
  /\ UNCHANGED <<listed, onFile, signalClock, tsymCache, signalCache, failed>>

SignalNext ==
  \/ SignalTick \/ Relaunch
  \/ \E atm \in Atms : AskSignal(atm)
  \/ SearchRefused \/ SearchAnswered
  \/ ChainAnswered \/ ChainFails
  \/ TryEnter

SignalSpec == SignalInit /\ [][SignalNext]_signalVars

-----------------------------------------------------------------------------
(* An entry trades the week its signal is about, unless a search for the     *)
(* contract had been refused in this process or NFO.csv lacks the week.     *)
WeekIsExplained ==
  entered.at = "done" =>
    entered.signal = entered.legs \/ entered.doubt \/ Min(listed) \notin onFile

(* get_weekly_pcr "Return PCR = pe_oi / ce_oi for the nearest weekly        *)
(* expiry".                                                                 *)
PcrOfNearestWeek == step.at = "enter" => step.week = Min(listed)
=============================================================================
