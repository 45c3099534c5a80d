# flowTrader in TLA+

A verification development for the NIFTY credit-spread trader of this
repository: TLA+ modules translated from the Python source, TLC runs on small
instances, and theorems checked by TLAPS for every value of the constants.

Source paths below are relative to the repository root (`src/` in
`PROJECT.json`). The documents under `docs/` partly describe an older
four-leg system; wherever they and the code differ, the modules follow the code.

## The system

One process, `main.py`, runs from before 09:15 to 15:30 on a trading day. Every
30 seconds it makes one pass over a loop body: kill switch, authentication,
daily loss guard, expiry-day exit, 15:10 exit, monitor, entry. A shell loop
(`run_watch.sh`) relaunches it until 14:40. Everything else is called from that
pass, on one thread, except the alert sender and the data collector.

| part | state it keeps | operations | talks to |
|---|---|---|---|
| trading loop (`main.py`) | reauth flag, time of last auth check | the passes of `run()` | all parts below |
| strategy (`core/pcr_credit_spread.py`) | `pos` | `enter`, `monitor`, `force_exit` | order manager, market data |
| state file (`core/position_persistence.py`) | `data/open_positions.json` | `save`, `load` | strategy, tracker, P&L engine, risk |
| risk manager (`core/risk_manager.py`) | `halted`, notification flag | `check_daily_loss_cap` | P&L engine, alerts |
| P&L engine (`paper/paper_pnl_engine.py`) | cumulative and daily counters | `record_trade`, save, restore | trade logger |
| tracker (`paper/paper_position_tracker.py`) | signed quantity per symbol | `add_position` | order manager |
| trade logger (`core/trade_logger.py`) | `data/paper_trades.csv` | `log_trade` | — |
| paper orders (`paper/paper_order_manager.py`) | order list | `place_order` | market data, tracker, fees |
| live orders (`live/live_order_manager.py`) | — | `place_order`, polling, cancel | broker API |
| market data (`existing/market_data.py`) | quote cache, last valid prices | `get_ltp_with_age`, quote book | broker API |
| broker API (`api_helper.py`) | rate-limit windows, session | quotes, orders, login | broker |
| PCR signal (`core/pcr_signal.py`) | two caches | `get_weekly_pcr` | broker API |
| alerts (`ops/alerts.py`) | queue, dedup table, worker thread | `send`, `flush` | ntfy |
| reconciliation (`ops/`) | — | match engine trades with broker trades, compare positions | CSV files, broker |
| collector (`data_collector.py`) | thread, stop event | start, stop | broker API |
| contract tables (`symbol_manager.py`) | two tables, read once | select futures and options | files, broker |
| PID lock (`main.py`) | `data/pcs.pid` | acquire, release | file system |
| heartbeat script (`tools/heartbeat_check.py`) | — | one check, then exit | alerts |

What is hard in it: the process may die anywhere and restarts from a file it
writes only after some events; writing that file may fail silently; an entry is
two orders and an exit is two orders, each of which may be refused; the operator
may touch the kill switch at any time; the clock moves between any two steps;
and exactly one trading day's counters may survive a restart. `PROJECT.json`
lists every hazard at its line, with the property that watches it. Around the
loop there is real concurrency: the alert sender and its caller, the collecting
thread against start and stop, two lanes in one rate limiter, several traders at
one PID file, and the broker, which works on an order while it is polled.

## Modules

| module | what it is | source |
|---|---|---|
| `Spreads` | a spread, its two symbols, netting of fills in the tracker | `pcr_credit_spread.py`, `paper_order_manager.build_option_symbol`, `paper_position_tracker.py` |
| `PnlEngine` | the counters and what booking and restoring do to them | `paper_pnl_engine.py` |
| `Snapshot` | what `save` writes, what `load` makes of it | `position_persistence.py` |
| `TradingSession` | the loop, its world, crashes and relaunches | `main.run` and all it calls |
| `PunctualSession` | the same under the timing that `run_watch.sh` and the 30 s passes give | `run_watch.sh` |
| `TradeJournal` | the abstract specification that the state file implements | — |
| `QuoteLimiter` | two lanes, four sliding windows, a caller that sleeps | `api_helper._acquire_quote_slot` |
| `AlertQueue`, `Heartbeat` | sender, bounded queue, worker, flush; the script that needs the flush | `ops/alerts.py`, `tools/heartbeat_check.py` |
| `CollectorThread` | start, stop and the collecting thread | `data_collector.py` |
| `SingleInstance` | several traders at one PID file | `main._acquire_pid_lock` |
| `Operations` | the five above composed | — |
| `LiveOrder` | an order from its submission to its report, the broker, crashes and starts from the state file; the comparison with the broker that no start makes | `live/live_order_manager.py`, `main.run`, `ops/startup_reconcile.py` |
| `BrokerSession` | login, validation, the one renewal in mid-session, `cred.yml` | `main._initialize_api`, `main._check_mid_session_auth`, `api_helper.py` |
| `LiveTrading` | the two above composed | — |
| `MarketFeed` | prices with their caches and ages, quote attempts, the PCR | `existing/market_data.py`, `api_helper.get_quotes_safe`, `core/pcr_signal.py`, `enter`, `monitor` |
| `WeeklySignal` | which week the signal and the legs are of | `core/pcr_signal.py`, `core/expiry_manager.py` |
| `PaperOrder` | fill price, limit gate, rounding, average price | `paper_order_manager.py`, `paper_position_tracker.py` |
| `Reconcile` | matching of engine rows with broker rows | `ops/reconcile.py`, `ops/broker_trade_fetcher.py` |
| `ContractTable` | the contracts picked for collection | `symbol_manager.py` |
| `PnlStatistics` | per-strategy statistics, peaks, drawdowns over relaunches | `paper_pnl_engine.py`, `position_persistence.load` |
| `TradeTable` | numbers and rows of `paper_trades.csv` | `core/trade_logger.py` |
| `PaperDesk` | the seven above composed | — |
| `Amounts` | Python's `abs`, `max`, `min` | — |
| `TradingSessionProofs`, `PunctualSessionProofs` | theorems about the session | — |
| `QuoteLimiterProofs`, `OperationsProofs`, `LiveTradingProofs`, `MarketDataProofs`, `PaperDeskProofs` | theorems about the limiter; alerts, collector, PID lock and `Operations`; orders, login and `LiveTrading`; feed, signal and contracts; the paper desk and `PaperDesk` | — |
| `AmountsProofs` | lemmas about numbers, least elements, finite sets and sums | — |
| `MCTradingSession`, `MCPunctualSession`, `MCPaperDesk` | constants for TLC | — |

`Operations`, `LiveTrading` and `PaperDesk` compose components that share no
variables. Every behaviour of such a composition is an interleaving of one
behaviour of each part, and every property here speaks of one part; so each has a
variable `focus` that picks the part that moves while the others rest. That the
properties of the parts are those of the whole is proved for all three
(`OperationsCorrect`, `LiveTradingCorrect`, `DeskCorrect`). Components that do share state are in one module: the
loop and everything it calls (`TradingSession`), the alert channel under the
heartbeat script, orders with the start that follows a crash, prices
with the decisions made on them.

### How state and actions correspond

In `TradingSession` `pc` names the next piece of the loop body. The body is cut where a crash leaves
something different behind, or where the code reads the clock, the HALT file or
the result of an order, so that a `Tick`, a `TouchHaltFile` or a `Crash` may come
in between; the pieces are the sections of `run()` and the orders of `enter` and
`_execute_exit` in their order. Between two such points code runs as one step:
deciding an exit, `BeginExit`, is one step; `record_trade` (`RecordExit`), the
second `log_trade` (`LogExit`) and `save` (`SaveAndContinue`, `SaveAndBreak`) are
one step each, and so is every order. `pos`, `tracker`, `pnl`, `halted` and
`notified` are the fields of the code's objects; `disk` is the state file, `rows`
the length of the trade file, which grows unless the row cannot be written
(`AppendRow`: `log_trade` swallows the exception). A dead process has `pc = "off"` and nothing in
memory (`Vanish`).

History variables, which no guard of the code's actions reads, say what
properties need: `orphan` holds the legs that refused closing orders left behind
(it rides in the snapshot so that it follows the tracker through a restart),
`haltDay` the last day that a daily loss halt was carried through to its save,
`entries`, `crashes`, `lost` and `unwritten` (rows that could not be written) count
what the bounds limit.

In the other modules an action is what the code does without giving others a
chance in between: what is done under a lock (`TakeSlot`, `StampAlert`), one
request and its answer (`Probe`, `LtpGood`), one poll (`PollAgain`), one file
access (`CheckLock`, `WriteLock`). Where the code reads the clock first and asks
later, so do they: `desk.began` is the `now` of `_get_ltp_with_age`. Variables
carry the names of the code's fields; the comment beside each says which. Histories
(`taken`, `sent`, `posted`, `excused`, `spoilt`, `passed`, `used`, `basis`,
`failed`, `misled`, `unsaved`) are read by properties only.

### Abstractions

* Prices, in the session. A price decides which branch is taken (quote there or not, credit
  enough or not, stop beyond the threshold or not, order filled or refused), so
  each such branch is a nondeterministic choice. The P&L of a closed trade is
  any member of `TradePnls`.
* Orders fill whole or not at all, as `PaperOrderManager` does. `main.py` builds
  the paper order manager in live mode too, so this is what `PaperTradeMode =
  FALSE` runs: the mode changes the daily loss guard and nothing else here.
* Quantities are multiples of the one order quantity, strikes are counted in
  steps of 50 points.
* The day is cut into eight stretches at the times the code compares with. Days
  are numbered, only trading days are counted, and a process does not live
  through a night: it would have to miss every pass after 15:30.
* Exceptions that nothing catches are `Crash`.
* A crash may corrupt the state file only in the runs that say so
  (`DiskMayFail`), where the outcome of a save or a row of `paper_trades.csv` may
  also be lost; `save` replaces the file atomically, and both swallow every
  exception.
* In `MarketFeed` a price is the moment at which the market quoted it, since only
  its age is decided on there. In `PaperOrder` prices are whole multiples of
  Rs 0.0000125, small enough for the slippage of 0.05 % of half a tick; there
  rounding is exact where the code has floats.
* A deque of time stamps is the set of the slots it holds; a broker order is its
  leg, side, status and filled quantity; a token is its number.
* What is asked of the broker may be answered, refused, lost or late. A status
  poll may show an earlier state of an order that is still open at that moment.
  In `ProbeOutcomes` a good token may be refused, but a bad one never passes;
  `unreachable` is what `_oauth_post_json` calls transient, a failure to connect or
  a timeout, and `refused` is every other failure, an HTTP error, an empty or
  malformed body included.
* A torn row of `paper_trades.csv` may have lost digits of its number or only
  what follows it; the next row then lands on the same line.

## Runs

| run | question | instance |
|---|---|---|
| `session_live` | Is a relaunch between two passes invisible but for the legs that refused orders left (`RestartTransparent`), does a completed daily halt hold (`DailyHaltSticks`), is the state file a trade journal (`ImplementsJournal`)? | live mode, 2 days, 3 entries, 1 crash, one strike, auth gate may fail |
| `session_disk` | Does the tracker explain itself (`ExposureExplained`) and does a counted trade lack a row only if its own write failed (`TradesAreLogged`), even when a save fails and a crash corrupts the file? | paper mode, 2 days, 2 entries, 1 crash, 1 lost save, 1 lost row, two strikes four steps apart |
| `session_eod` | Is everything closed before the market (`NothingHeldOvernight`) and every saved position eventually closed (`PositionsClose`)? | paper mode, 2 days, 1 entry, 1 crash |
| `operations` | Do the two lanes keep their quotas, leave the trader its share and never oversleep? Does an alert that was queued go out, once per window, before the script ends? Is there one collector, and does a stop end it? Who can get past the PID lock? | two lanes in windows of 2 and 4 ticks; two events, queue of one; two symbols; three traders |
| `live_orders` | What does an order's report mean (`ReportMatchesBroker`), when does the tracker differ from the broker (`DriftIsExplained`), does polling end? Is the trading token saved, and the renewal not wasted? | one leg, quantity 2, two orders; two attempts, four tokens |
| `paper_desk` | How old may a price be that a decision is made on? Are fills, averages, matches, picked contracts, weeks, statistics and trade numbers right? | see `MCPaperDesk` |
| `finding_*` | Does the code do what a document or comment says? | as small as shows it |

Bounds. Two days are the least at which snapshots get stale, with the expiry on
the second: a position can be carried to an expiry day or meet one at once.
Two entries let a second spread meet the remains of a first; `session_live` has
three because a trade that breaches the cap, a re-entry in the same pass and an
entry on the halted day are three. Two strikes four steps apart make the long
strike of one spread the short strike of the other, the only way in which two
spreads can net against each other in the tracker. `WinOrBreach` has one P&L
that is no loss and one that breaches the cap at once. One crash per behaviour,
but at every step of it; clean exits (HALT file, daily halt, auth gate) are
unbounded. One lost save suffices to make file and memory differ, one lost row to make row and
counter differ, and without
a bound on them a position could be closed again for ever. The theorems hold
without any of these bounds.

`operations`: a second of two ticks and a minute of four let slots enter and leave
each window while others stay; the quotas are smaller than the number of slots
taken. Three traders are the least with which the lock's owner may be missing from
the file although a second one lives. `live_orders`: with quantity 2 an order fills
in parts; two orders in one leg net against each other, and the second is
abandoned with the first already on file. More legs add nothing, since no step
and no property relates two of them. `paper_desk`: times to live of two ticks in four let a price
be fresh, cached, substituted, substituted from the cache, and too old;
the prices of `MCQuotes` lie around the sanity band, the tick and the threshold of
the two slippage rates; two rows on each side let one engine leg take the only
candidate of another; contract days one to three, read on day one and used until
day three, let every contract expire under the table; three trades with two saves
between let a peak lie before a relaunch and the fall from it after. The table
holds one index, as each is treated on its own.

Deadlock is checked in the `session_*` runs and the `finding_*` runs of the
session, where operator, process and clock between them can always move.
`operations`, `live_orders`, `paper_desk`, `finding_startup` and `finding_week`
consist of parts that finish (a trader has ended, every order is final, a
matching has treated its last leg, a clock has reached its bound) and switch the
check off.

### What the runs found

* `finding_startup`: after a crash between a fill and the save the next start goes
  on with the state file, whatever the broker holds. `SYSTEM_ARCHITECTURE.md:52`
  says that a divergence halts startup, and `startup_reconcile.py:14` and
  `GO_LIVE_CHECKLIST.md:161` (LIVE-07) that `main.py` makes the comparison; it does
  not, and the function only returns a report. (Nor does `main.py` build the live
  order manager whose orders the run is about.)
* `finding_flat`: the status of closing orders is never read. After a refused
  one the session is saved as FLAT with an open leg in it, which `load` skips.
* `finding_cumulative`: a FLAT snapshot of an earlier day is dropped with the
  cumulative counters in it.
* `finding_exposure`: a refused rollback leaves a naked short and the strategy
  enters again; `escalate_rollback_failure` has no caller.
* `finding_cap`: the stop that breaches the daily cap is followed by an entry in
  the same pass, since the guard sets `halted` only at the head of the next one.
* `finding_week`: a search for the weekly contract that the broker refuses is
  passed over like a day on which nothing expires; the PCR is then that of a later
  week, while the legs are of the nearest.

Modelling also showed a gap that no document speaks about. The halt decided by
`check_daily_loss_cap` is saved only after the forced exit. If the process dies
in between, the HALT file is there at the relaunch and the spread re-entered
(by the path of `finding_cap`) is closed with a gain, then the day can end above
the cap with no halt on file, and the next relaunch trades again.
`DailyHaltSticks` is therefore about halts that were completed.

Other differences that came up while translating, each left as the code has it:

* `record_trade` logs the trade and `main` logs it again, so `paper_trades.csv` has
  two rows per trade, where `trade_logger.py:5` says one; `TradesAreLogged` counts
  both.
* The state file is written after entries, exits and halts only, not "after every
  monitoring cycle" (`position_persistence.py:4`) or per loop
  (`SYSTEM_ARCHITECTURE.md:47`). What else changes is the tracker after a refused
  entry: when the rollback is refused, `enter` returns False, `main.py:469` saves
  nothing, and a relaunch has lost the naked leg. `RestartTransparent` leaves out
  exactly such legs.
* An outage that the gateway answers with HTTP 5xx, an empty body or no JSON is not
  transient (`api_helper.py:309`): it is taken for a refusal of the session and
  spends the one renewal. `UnreachableNeverReauths` speaks of an outage in which
  every probe fails to connect or times out.
* `pnl_snapshot.json` is never written by the trader, although the docstring at
  `paper_pnl_engine.py:210` says "called every cycle" and
  `heartbeat_check.py:36` relies on it. The heartbeat therefore alerts in every
  market hour, and the override of the PID lock depends on a file left by another
  program (`SingleInstance` starts with either).
* The first alert within 60 s of boot is taken for a repetition (`alerts.py:105`
  compares a clock that counts from boot with 0), and an alert that was stamped
  and then dropped by a full queue silences the next one of its event. `AlarmIsTold`
  names both; `OnePerWindow` is about alerts that were queued.
* A start of the collector after a stop that timed out is ignored
  (`data_collector.py:110`): the old thread then ends and nothing collects. Its
  queue of rows is never bounded and never read (line 189).
* `LiveOrderManager` gives the tracker the requested quantity of an order that
  filled in part, and reports as REJECTED an order whose status it does not know
  or whose time is up, also when the broker goes on filling it.
  `DriftIsExplained` lists these, and the orders that a crash forgot before they
  were saved.
* A legacy login sets no bearer header, so its first validation in mid-session
  fails; a token exchange that returns no susertoken leaves the old one in
  place; `cred.yml` is not written atomically (`Die`).
* A quote that is asked a second time with the session key takes no slot of the
  rate limiter (`api_helper.py:401`).
* `get_all_index_derivatives` keeps the options of the last expiry only: the test
  at `symbol_manager.py:680` stands behind the loop. With a call and a put at
  each strike the most frequent difference of strikes is zero
  (`symbol_manager.py:575`), and only the ATM pair is kept, where the comment at
  line 675 counts 14 options per expiry.
* A market sale at a very low price fills at zero or below, and `_row_to_leg`
  then drops the row, while the docstring at `reconcile.py:185` names only
  rejected and cancelled rows.
* `get_summary` reads the list of unmarked symbols before the mark that fills it
  (`paper_pnl_engine.py:165`).
* At 15:30:00 both `is_market_hours` and `is_market_closed_ist` hold.

## Timing and fairness

Safety is checked and proved with a clock that may jump: any stretch of the day
may pass between two steps. The two properties of `session_eod` cannot hold
there, since a process that sleeps from 15:09 to 15:31 closes nothing.
`PunctualSession` adds what the deployment gives:

* the clock leaves the last stretch before the close only after a whole pass in
  it: a pass takes some 30 seconds and the stretch twenty minutes;
* it leaves `Midday` only with a trader running if a position is saved, since
  the watch loop relaunches until 14:40, five minutes before that stretch ends;
  crashes are considered up to then. A trader that dies later is not
  relaunched by anything, and the authentication gate may end it likewise: then
  a position does stay open, which is a limit of the deployment and not
  something these properties claim to exclude;
* fairness: weak on the step of the running process and on the relaunch by the
  watch loop; strong on the clock, since operator and process may keep closing
  the condition under which it may move. There is none on the operator, on
  crashes, on entries or on the outcome of orders.

The other modules assume less. `AlertQueue`: weak fairness of the worker, a thread
that waits for nothing but the queue and a POST with a timeout; the flush may give
up at any time after its deadline. `CollectorThread`: weak fairness of each
collecting thread, whose quotes end by their own timeouts; none of the controlling
thread, which may start and stop at will. `LiveOrder`: weak fairness of the poll,
a loop with a sleep in it; none of the broker, of crashes or of the next order.
No other module has a liveness property.

Exits never need an order to be filled to count as done here: the code forgets
the position whatever the closing orders answered, and `ExposureExplained` is
the property that keeps the leg in sight.

## Proofs

`TradingSessionProofs` proves, for every set of strikes, expiries, signals and
amounts, every cap, mode and bound:

* `TypeCorrect`: `Spec => []TypeOK`, by induction, one case per action over
  typing lemmas for the operators.
* `ExposureCorrect`: `Spec => []ExposureExplained`. Not inductive alone: what a
  relaunched process holds comes from the file, and what an order changes
  depends on the plan or position it is sent for. `ExposureInv` adds `Stage`
  (what each piece of the body knows of `plan` and `pos`) and
  `SnapshotExplained` (a FLAT file has no position, an ACTIVE one explains its
  tracker). The step case of each order is arithmetic over `FillsAddLegs` and
  `LegsAdd`.
* `DailyHaltCorrect`: `~DiskMayFail` implies `Spec => []DailyHaltSticks`.
  `HaltInv` says where a halt lives: in the running process and in a file of
  the same day.
* `RestartCorrect`: `~DiskMayFail` implies `Spec => []RestartTransparent`.
  `RestartInv` holds memory and file together at every piece of the body but
  those between a change and its save. The tracker need not be in it: what the
  running process holds and what a new one would restore are each the spread and
  the legs left behind, by `ExposureInv`, and the spread is the same
  (`TrackerAgrees`).
* `AuditCorrect`: `Spec => []TradesAreLogged`, lost saves, lost rows and corrupt
  files included. `AuditInv` counts the rows that were tried, and allows for the
  one not yet tried between the two log calls.
* `JournalCorrect`: `~DiskMayFail` implies `Spec => ImplementsJournal`, the
  refinement of `TradeJournal`. `JournalInv` bounds how far the memory may be
  ahead of the file at each piece of the body: one spread opened, or one spread
  closed with one trade booked. A save then is one journal entry and every other
  step a stutter. `LoadedResumes` says a new process continues from the last
  entry; it needs `ExposureInv`, since a stale FLAT file is not loaded at all.

The theorems about the other components hold for every value of their constants
and without their bounds:

* `QuoteLimiterProofs`. `LimiterKeepsQuota`, `LowLaneKeepsItsShare`: the invariant
  `LimiterInv` says that each deque holds at least the slots of its window that
  the deque is for, has no more than its quota once trimmed, and that stamps are
  sorted; a slot taken now is in every window, one trimmed now in none.
  `NobodyOversleeps` adds that whoever sleeps found a window full whose oldest
  slot is still in it when the sleep ends.
* `OperationsProofs`. `FlushCorrect` counts: every queued alert is in the queue,
  with the worker or posted, so that nothing unfinished means all posted.
  `DedupCorrect` keeps each queued alert at or before the stamp of its event, and
  those before the last one a window before it. `AlarmCorrect` follows the script
  through its three steps. `LockCorrect`: between two traders that both run
  one is excused, from what each saw in the file at its check. `DeadOwnerCorrect`
  is an action property of the check. `CollectorCorrect`: only the thread in
  `current` may live. `OperationsCorrect`: the composition implies the conjunction
  of all safety properties of its parts; each part's invariant is carried while
  the others rest.
* `LiveTradingProofs`, orders. `ReportsCorrect`: orders over at the broker do not
  change, and those reported with a final status are over. `AbandonedCorrect`.
  `DriftCorrect`: net positions are sums over the orders of a leg, and two sums
  whose terms are equal are equal (`SumsEqual`). `DriftInv` therefore speaks of each
  order: unless excused, what the process holds of it, or while none runs what the
  file holds (`Held`), is what the broker filled. An order that ends is tracked as
  the broker's answer says (`FinishAgrees`); a crash excuses what the file does not
  know and a start restores the rest (`RestartAgrees`); every other step leaves both
  quantities of an order alone (`UntouchedAgrees`).
* `LiveTradingProofs`, login. `TokenCorrect`, `ExchangesCorrect`, `UnreachableCorrect`:
  the invariant ties `header`, `creds` and `passed` to the phase of the login, and the
  number of exchanges to the attempts made. `LiveTradingCorrect` is the composition.
* `MarketDataProofs`, prices. `AgeCorrect`, `MarksCorrect`, `EntryPricesCorrect`: what
  the cache and the last valid prices hold is stamped no later than it was quoted
  (`began` is taken before the request), so every age computed from a stamp is at
  least the true one; the substitute keeps its own stamp when cached.
  `FeedTypesCorrect`: an attempt under way is for the row or the reading that comes
  next, so that each list has room for what the attempt brings.
* `MarketDataProofs`, contracts. `WeekCorrect`: while no search of a strike was
  refused, all days before the one being searched are not listed.
  `ContractsCorrect`: the smallest number of a set, the most frequent difference and
  the nearest strike, each defined by a choice, exist and are what they are named;
  the last of the nearest expiries is not over, since the nearest one is among them.
* `PaperDeskProofs`, orders. `FillCorrect` and `AverageCorrect` rest on one lemma,
  `RoundTyped`: rounding a quotient to the tick moves it by half a tick at most. Each
  fill then adds half a tick per unit to the error of the average (`AverageStep`),
  and one in the other direction starts a new count. The amounts are integers, so
  the statement is about exact rounding, not about floats.
* `PaperDeskProofs`, reconciliation. `MatchingCorrect`: `MatchInv` says of the rows
  treated so far what `MatchingSound` says of all: a leg left over could join nothing
  then, and what is unclaimed only shrinks. That no broker leg is taken twice is an
  injection, from which the count follows.
* `PaperDeskProofs`, statistics. `StatisticsCorrect`: the ledgers are totals, counts,
  a peak and a greatest fall over the list of trades. `BookedSays` is the step: what
  one more trade does to each of them. `StatsInv` says it of the memory and of the
  snapshot, so that a restore of either kind keeps it.
* `PaperDeskProofs`, trade file. `NumbersCorrect`: a logger counts on from above every
  intact row, which a torn number or a second logger can spoil; those are the
  histories `misled` and `shared` that the property names. `DeskCorrect` is the
  composition of the seven parts, with all eleven properties.

`NightCorrect`, in `PunctualSessionProofs`, carries the session's safety over to the
timing of the watch loop: with `~DiskMayFail` and `~AuthMayFail`,
`PunctualSpec => []NothingHeldOvernight`. These are the terms of the run as well: a
save that fails leaves the old position on file, and a gate that gives up ends the
loop with a position in it, as the code does. The property speaks of the time after
15:30, what makes it true lies before. `NightInv` says that a stopped process leaves
nothing on file after midday (`StoppedFlat`), that a pass begun after 15:10 holds
nothing once it is beyond its forced exits and can open nothing (`LatePassFlat`), and
that after the close there is nothing but to find the market closed (`ClosedFlat`).
It stands on `ExposureInv` and `JournalInv`, since a step in time is a step of the
session (`InTimeIsSession`).

Sums, extremes and minima are proved about without recursion. `PnlStatistics` and
`LiveOrder` sum with `SumFunctionOnSet`; `AmountsProofs` shows that such a sum does
not depend on the order in which it is taken (`SumPicks`, `SumWith`, `SumWithout`,
`SumsEqual`). The library's induction theorems take a predicate,
which no installed prover can instantiate, so `NaturalsByInduction` and
`SetsByInduction` put a set in its place and argue by least counterexample over the
well-founded order of the naturals.

The assumptions are the named ones of the modules: the kinds of the constants,
positive windows, quotas, ticks, lots and limits, finitely many expiry days and
strikes, `NoPos`, `NoFile`, `Corrupt` and `NoPid` being none of the values they stand
beside, and a negative cap. TLC evaluates them in the runs.

Every safety property of a passing run, invariants and action properties alike, is
stated by a theorem. Only model-checked are the four liveness properties
(`PositionsClose`, `AlertsGoOut`, `StopEndsCollection`, `EveryOrderEnds`): they rest on
fairness, which is out of the prover's reach. The findings are TLC counterexamples.

## What could come next

The safety halves of the liveness properties, such as that a flush under way
always has the worker alive to end it and that an order being polled has polls
left; the composition of `LiveOrder` with `TradingSession`, once `main.py` builds the
live order manager (today it builds the paper one in either mode, which is what
`TradingSession` models).

## Not modelled

* Fees (`core/fees.py`): arithmetic on a finished fill that no decision reads.
* Browser login (`auth/shoonya_selenium_auth.py`) and the formatting of requests:
  I/O; that a code is captured or not is an outcome in `BrokerSession`.
* `BrokerClient`, imported by `main.py`, is a link to another repository; the branch
  for it in `_check_mid_session_auth` only ends the loop, as a failed gate does.
* Of `market_data.py` the quote book, opening prices, bars and lot sizes, which the
  credit spread strategy does not read; of `live_order_manager.py` the margin
  calls; of `symbol_manager.py` download and conversion and the stock and ETF
  selections, which have no caller; of `strategy_runner.py` everything but the
  market-hours test, an input of `Heartbeat`.
* `close_position` and `clear()`, `escalate_rollback_failure`,
  `startup_reconcile` and the live order manager have no caller in the trader. The
  live order manager is modelled for what it promises, between the crashes and
  starts that `main.py` has; the comparison only as what `finding_startup` asks for.
* A position turning over in the tracker (the opposite side's average is kept):
  the strategy trades one quantity and never does it (`Reduces`).
* A PID reused by an unrelated process; two broker rows of one symbol in the
  comparison of positions; another program that writes the shared `cred.yml`
  (`main.py:99`).
* The offline tools, run by hand on finished data.

`PROJECT.json` lists each part with its status.
