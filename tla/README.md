# golang-trading in TLA+

This directory is a verification development of `golang-trading`: a Go service
that watches the stock and crypto positions of its telegram users, tells them when to
raise a stop or get out, alerts them on price targets, looks for stocks to buy,
and backtests its own rules. One process holds an echo HTTP server, a telegram
bot and a job scheduler; PostgreSQL (through gorm) and an in-memory cache keep
its state; prices and scores come from TradingView, Yahoo and Binance, reports from Gemini.

Contents: 1 inventory, 2 plan, 3 how the modules correspond to the code,
4 runs and bounds, 5 proofs, 6 what the model leaves out, 7 how to run it.
Paths are relative to the repository.

## 1. Inventory

### Components, their state and operations

| Component | State | Operations | How it meets the others |
|---|---|---|---|
| Job scheduler and task executor (`internal/service/scheduler.go`, `task_executor.go`, `repository/job_repo.go`) | tables `jobs`, `task_schedules`, `task_execution_history`; a semaphore channel | `Execute` (POST `/v1/jobs/run`), `RunJobTask` (bot button), `executeJob`, the goroutine per task, `DataCleanUpStrategy` | every strategy below runs in one of its goroutines, beyond the request that started it |
| Position evaluation rules (`service/trading_position.go`) | fields of a position: trailing profit, highest price since it, trailing stop | `EvaluatePositionMonitoring` | called by the monitoring job, the refresh button and the backtest |
| Stock positions (`repository/stock_positions_repo.go`, `strategy/stock_position_monitoring.go`, `service/telegram_bot.go`) | tables `stock_positions`, `stock_position_monitorings` | set, exit, delete, refresh, `EvaluateStockPosition` | shared without a lock between jobs and bot handlers |
| Price alerts (`strategy/stock_price_alert.go`) | cache entries per alert and stock, last price per stock, alert stamp of the row | `Execute`, `sendTelegramMessageAlert` | writes whole position rows back; feeds the cached price that evaluations read |
| Buy signals (`service/send_signal.go`, `strategy/buy_signal_generator.go`) | cache mark per stock, table `user_signal_alerts` | `SendBuySignal`, the generator's workers | scheduler task; reads positions to leave holders out |
| Conversations (`delivery/telegram/setposition.go`, `common.go`, ...) | per user: state, data and expiry in the cache | one handler per text or button, `Cancel` | telebot runs each update in a goroutine of its own |
| Stock analyzer (`strategy/stock_analyzer.go`) | `stock_analyses` rows per stock and timeframe, system parameters in cache | worker pools per symbol | feeds plans, signals and evaluations |
| AI analysis (`repository/gemini_ai_repo.go`, `service/telegram_bot.go`) | `stock_analysis_ai` rows, token budget | look up, call, insert, link | two requests for one stock race |
| Rate limiters (`pkg/telegram/telegram.go`, `pkg/ratelimit`) | token buckets, an edit mutex | `Wait`, `Send`, `Edit` | everything that talks to telegram, Gemini or Yahoo |
| Trade plans and scores (`service/trading.go`, `trading_calculate.go`) | none | `CreateTradePlan`, `calculatePlan`, scores | pure functions over levels |
| Backtest (`service/backtest_service.go`) | one simulated position | the daily loop | reuses the evaluation rules |
| Loading animations, shutdown (`delivery/telegram`, `cmd/server.go`) | stop channels, root context | start, stop, `Shutdown` | closes the database under tasks still running |
| Market data clients, bot views and reports, logging and configuration | none of their own | I/O | not modelled: no state to reason about |

`PROJECT.json` lists each with its files and whether it is modelled.

### What is hard here

* *Interleaving without locks.* Requests, bot handlers and up to
  `max_concurrency` tasks share rows; every writer of a position reads it,
  works for seconds (network calls), and writes the whole copy back with
  gorm's `Updates(&struct)`, which skips zero values but always writes
  `is_active`, a pointer. Claims are read-then-write: a due schedule, an existing position, a cache mark.
* *Lifetimes.* A task outlives its request; its verdict is saved under the
  same context whose expiry ends it; a crash leaves rows that say `running` and nothing at
  start-up looks at them.
* *Rules with memory.* Triggers and stops are recomputed from each market and
  folded into what the row has; whether they can fall back, cross, or disagree with
  the signal takes several evaluations and an adverse market to find out.
* *Partial failure.* A mark is set before what it marks is done (buy signals), a row is
  stamped although sending failed (alerts), a raise is saved although the
  notice about it is not.
* *Bounds.* The semaphore is acquired without a context; payload values of 0
  make channels unbuffered.

`PROJECT.json` lists these hazards at the line where they bite, and says of those without a
property why they have none.

### What makes each component correct

* Scheduler: slots are never leaked or exceeded; a due instant is run once; a
  row that says `running` has an owner; verdicts are final; callers get out again.
* Rules: protection given is not taken back; exits at a level in force are
  signalled; the levels stay in order; a cut loss is told.
* Positions: levels stay sound under lost updates; one active position per user
  and stock; exits and deletions stand; only overtaken copies undo anything.
* Alerts and signals: each event reaches each user who asked, once, and nobody who did not.
* Conversations: what is saved is complete and the user knows what was refused.
* Analyzer, AI: no partial analysis passes for a whole one; the answer shown for an analysis stays its answer.
* Errands behind a loading message: a panic ends one errand, not the process.
* Plans: the entry is near the market, the reward worth the risk, the stop out of the market's reach.
* Backtest: decides from the day it simulates and no later price; exits gain or lose as their reason says.

## 2. Plan

| # | Module | Of | Status |
|---|---|---|---|
| 1 | `RunLedger`, `Scheduler` | scheduler against its abstract ledger | done, proved |
| 2 | `TrailingRules`, `Trailing` | evaluation rules as operators; one position under one monitor | done, proved |
| 3 | `Positions`, `Monitoring` (extend `TrailingRules`) | all writers of a row; what becomes of a verdict: update, record, notice | done, proved |
| 4 | `PriceAlert` | targets, de-duplication by the cache, sending, write-back, overlapping runs | done, proved |
| 5 | `SendSignal`, `SignalJobs` | buy signals: mark, recipients, messages; the worker pools of analyzer and generator, batches | done, proved; liveness by TLC |
| 6 | `Levels`, `SmartEntry`, `PlanSearch`, `PositionScore`, `TradePlans` | the trade plan as operators over candles and levels | done, what they return proved where `Backtest` needs it |
| 7 | `Backtest` (extends `TradePlans`) | the daily loop over the plans and `TrailingRules` | done, proved |
| 8 | `Conversation` | dialogues over two cache entries, concurrent handlers, expiry | done |
| 9 | `Errands` | stop channels and panics behind loading messages, AI answers, tokens | done |
| 10 | `Bot` (extends 8 and 9) | both together, with failing calls and restarts | done, proved |

Every safety and action property of the passing runs is proved; liveness stays with TLC. Left for later: that
`Positions` and `Monitoring` implement an abstract row whose protection nobody takes back, stated as a refinement, and
bounds on the scores of `PositionScore`.

## 3. Modules and code

### RunLedger, Scheduler

`Scheduler` has one record per caller (`call`) and one per task goroutine
(`task`). A *caller* is a request in `Execute` or a bot handler in
`RunJobTask`; its actions follow the code's order: read the due rows (`Execute`, `RunJobTask`), insert a
history row (`OpenHistory`), send on the semaphore and start the goroutine
(`Launch`), write `next_execution` (`Stamp`), go on or `Return`. A *task* runs `FindByID` and its strategy, saves
its verdict (`SaveResult`) and releases its slot (`Release`), with `Timeout` and `Panic` at
any point in between and `CrashRestart` of the whole process. Strategies other than the clean
up are their verdicts; the clean up (`RunCleanUp`) deletes history rows by age, its own among
them, and runs beside the tasks that will update those rows.

Points where the model follows the code and not one's expectations: the send on the semaphore is not under
a context; the loop of `Execute` alone looks at its context;
`next_execution` is computed from the instant taken before the insert and not from
the slot it was due at; a stamp that fails leaves the schedule due; a job run by
hand also moves `next_execution`; an update of a deleted row is no error.

Each database call may fail in any state, which covers the expiry or cancellation of the caller's
context as well. `RunJobTask` takes the first of the job's
schedules, which the preload returns in no fixed order: any schedule. `FindByID`
is merged with the start of the strategy, which sees nothing in between. The instant `executeJob` takes and the
`created_at` of the row are one instant. Auxiliary variables: `disturbed`
(schedules whose claim two calls held at once, or whose stamp failed or was not reached),
`slot` and `manual` in a row, `fault` in a task (what kept it from saving its
outcome). No guard reads them.

`RunLedger` is the abstract specification: a row is opened once, launched at most
once and with a slot free, gets a verdict from a busy task only, and then changes only by being
purged. `Scheduler!Ledger` is the refinement mapping and `LedgerSpec` the claim.

### TrailingRules, Trailing

`TrailingRules` translates `EvaluatePositionMonitoring` and its helpers: the
targets in force (`EffectiveTP`, `EffectiveSL`), the trailing profit (start,
raise, end), the trailing stop, the signal and the status, in the order of the
code, where a later priority may overwrite an earlier verdict. `Judged` is what
the evaluation leaves in the struct and `Saved` what gorm writes of it. Prices are small naturals, with 0 as
Go's zero value, which the code uses for "none". The trigger, 0.97 of the peak,
is floored to a whole price: at these sizes one tick below the peak. What the
rules only compare is a small set: the last candle (`breakout`, `engulfing`, `other`), the technical
recommendation, the score's band. An engulfing candle never changes a verdict: the condition before it
already asks for a strong bullish candle, which excludes it. The last price is any price, which covers the
code's preference of a cached price over the one of the analysis.

`Trailing` is a position that only the monitor writes; `Markets` and `Entries` are constants.

### Positions

Every worker has at most one row in hand: a read action (`ReadToMonitor`,
`ReadToAlert`, `ReadToExit`, `CheckExisting`) takes a copy, other workers act, a
second action writes (`Evaluate`, `Alert`, `Exit`, `Create`), `GiveUp` stands for every error return in
between and for the end of the process. `Merged` is `Updates(&position)`: non-zero fields and `is_active`.
The refresh button reads any position and the job active ones; `ReadToMonitor` is
their union. `Delete` looks up and deletes in one step, the lookup only deciding
which row. `Create` has no uniqueness check, like the table. Auxiliary: `stale`
(workers whose row was written since they read it) and `raced` (keys whose duplicate check was overtaken, or whose exited row an
update brought back).

All positions are taken to have their monitor and alert flags on. Suppressing
repeated price alerts is for `PriceAlert`; here a due alert writes the row back, as the code does even when it
suppresses the message.

### Monitoring

What `Positions` has as one step, `Evaluate`, is here the update of the row, the monitoring record
(`Create`) and the notice (`SendMessageUser`), each of which may fail (`GiveUp`) and leaves what was done before.
There is one position; the score is a number, because whether something is told depends on its rise. `Markets`
and `Scores` go together by the band of the score. A score that is not a number comes from a position without a target and
is written to the row before the JSON of the summary fails. The exit (`ReadToRewrite`, `Rewrite`) looks for the score of
the newest record one level too high in the JSON, reads 0, and leaves the row's alone. A position
is never taken out of monitoring here, which only adds evaluations. A notice counts as telling what its evaluation raised, although its text names a
raised stop or trigger only when that is also the signal. Auxiliary: `told`, `missed`, `stale`, `torn` (an update whose
record failed, overlapped another's or was overwritten).

### PriceAlert

Each run of the job (`job[j]`) reads the active positions at once (`ReadPositions`) and comes to them one
by one, in any order: it passes over a position without candles or whose price reaches nothing
(`PassOver`), or finds the target reached and looks it up in the cache (`Check`, with `Reached` and `Silent`);
then `Send` tries the message and remembers the price, and `Stamp` writes the copy back, after a
silent alert as well. `alerted` is the cache under the code's key, type and stock code: neither the
user nor the exchange is part of it. `Expire` and `Restart` empty it. The price is any of `Price`, or
0 for a missing market price; an entry of 0 reads as no entry, as in `getLastAlertPrice`.

`Position` holds the rows with `price_alert` set, which only the creation of a position writes. The other writers
of a row are one action here, `Rewrite`, since `Positions` has each of them; rows deleted
under the job are in `Positions` too. Whether the bot accepts a message is not modelled: the code
remembers the alert either way, so `sent` counts attempts. Auxiliary: `sent`, `raced`
(entries a second job found due before the first remembered it) and `stale` (job and position written since the job read it).

### SendSignal, SignalJobs

A worker (`Worker == Job \X Slot`) is a goroutine of a pool and has one record, `call`. `SignalJobs` is
what starts workers: an analyzer run screens a list (`Screen`, with stocks that two lists name and two
exchanges that share a code), a generator run reads the newest batch of each stock (`ReadLatest`); `LoopOn` and
`StartWorker` are the loop and the semaphore; `Return` is the wait group and the exit code. An analyzer's worker
starts its timeframes in order and looks at its context before each (`Fetch`), so that a context that ends leaves the
first few; an error of one fails all. `StoreBatch` is one insert. The generator's worker asks for a
price (`Quote`). Both go on in `SendSignal`: subscribers, plan, lookup of the mark, mark, holders, one message after
the other. A failing read after `Mark` loses the signal (`SignalFails`), as the code does.

The payload's minimum score is effectively a switch: `Threshold` replaces every value but 0 by the configured
one. `Latest` groups by stock code alone, as `SELECT DISTINCT ON` does: the same code on two exchanges hides one of
them. Plans are any of `Plan` (how they come about is in `TradePlans`). A mark does not expire while a call for
its signal is under way: its duration is hours, a call takes seconds. The clock is read when an analysis begins and
nowhere else. Left out: the clean-up of old analyses, the text of the messages. Auxiliary: `told`, `raced`
(signals two jobs found unmarked at once), `moved` (users who changed alerts or positions during a call), `cut` (analyses ended by a context).

### Levels, SmartEntry, PlanSearch, PositionScore, TradePlans, Backtest

The first five are operators that translate `trading.go`, `trading_calculate.go` and the scores of
`trading_position.go`, function by function and under the code's names where they allow it. Prices are integers,
a cent to the unit, products round down, percentages are compared by multiplying out;
scores have the scale their comment names. Where Go's order is open (equal scores in `sort.Slice`, the order of a map)
the operators return the set of all outcomes: `CreateTradePlan` is a set of plans. An analysis with too few candles has no ATR and
its plan, without a fitting pair of levels, is the plan of zeros, `NoPlan`. A score that Go computes as
0/0 is `NotANumber`, which fails every comparison and so leaves a position dangerous. Two branches of the code
cannot be taken and are left out with a comment: a momentum above 5 and a bullish or bearish market in
`analyzeMarketConditions`, which compares a summary of at most 2. `findBestSupportEntry` and
`findMovingAverageEntry` have no caller.

`Backtest` is one step per day. `Snapshots` are the analyses a day may have, `LivePrices` what the process may have
in its cache under `KEY_LAST_PRICE` meanwhile: `CreateTradePlan` and the evaluation prefer that price to the past one.
An evaluation is `Evaluate`, `TrailingRules` with the market state computed from the analyses instead of
chosen. A day that cannot be judged, and a failing read of the parameters on any day, is `SkipDay`. The position keeps a raised stop
but neither trigger nor peak, as `BuyOrPass` and `Hold` show; one still open at the end is not counted
and a trade without a gain counts as lost. `StockAnalysis` is what an analysis can hold: the fetch skips candles
without a price, so theirs are positive, but stores a quote without a market price as 0. On such a day, and with
nothing cached, an evaluation takes the last close (`LastPrice`), while `CreateTradePlan` and the backtest's own checks
take the 0: a held position is stopped out at 0, and a plan of the average true range has its entry there. The
exceptions in `ExitsMatchReasons` and `PlansAreSound` are these days and the plan of zeros. A day with several analyses of one timeframe, which inflates
`CalculateSummary`, is not among the snapshots.

### Conversation, Errands, Bot

`Conversation` is one chat. `state` and `data` are the two cache entries; `data` points to a draft, which
handlers that hold the pointer go on changing after the entry is gone (`draft`, by dialogue). A handler
(`hand[h]`) is at the Telegram or database call it waits for; what it does between two calls is one step,
`handleConversation`'s reading of the state included. `AnswerQuestion` and `Complained` are one answer of
/setposition: an answer that does not parse is refused in a message and then stored all the same.
`PressAlert` is held against the state, `SaveExitPosition` against the draft alone. A price below zero passes the
check for a price and is left out of the row (`IsComplete`, `RecordExit`). Entries expire one by one (`Expire`).
The days to hold are asked for, and never stored by `ToStockPositionEntity`; a date that does not parse becomes Go's zero date.

`Errands` are the goroutines behind loading messages. `Replaced` closes the stop channel and replaces the loading message,
which panics when that was never sent: the handlers do not look. `GoSafe` recovers (`Panic`), except
that the AI errand's `OnPanic` closes the channel a second time, outside of any recover, and takes the process
down. `RefreshPosition` closes its channel twice itself and is recovered. `ReadAnalyses`, `TakeTokens`, `StoreAnswer`
and `TellAnswer` are an AI errand: an answer found is shown, else the model is asked and the answer and the link to it are one transaction.

`Bot` composes both, hands the draft of an exit over to an errand (`HandOver`, `RecordExitOf`) and adds
failing calls, aging analyses and `Restart`. One user is enough: users share the analyses alone, so the errands may be anybody's.
Messages that change no state are left out, the frames of the animations among them (one that
is late overwrites the result), as are setting a position from an analysis' button and by AI, whose button is registered
nowhere. Auxiliary: `saved`, `crossed` (drafts two handlers worked on at once), `shown`, `raced` (batches two errands found without an answer).

## 4. Runs, bounds, fairness

| Run | Bounds | Shows |
|---|---|---|
| `Scheduler` | 2 HTTP calls, 1 bot call, 2 schedules (one a clean up; one inactive for cron errors and unknown types), capacity 1, 2 rows, clock to 2 | `TypeOK`, `SlotPerTask`, `RunningIsOwned`, `OncePerSlot`, and `LedgerSpec` |
| `SchedulerLive` | 1 HTTP, 1 bot call, capacity 1 | `CallsReturn`: a caller blocked on the semaphore comes back |
| `SchedulerTimeout` | 1 call, 1 schedule | *violation* of `TimeoutIsReported` |
| `Trailing` | 5 prices, every market of `MCMarkets`, every entry, target and stop, sensible or not | `TypeOK`, `LevelsAreSound`, `ExitsAreSignalled`, `StopsBelowMarket`, `CutLossIsDangerous`, `LevelsOnlyRise` |
| `Positions` | 2 workers, 2 rows of one key, 4 prices, 3 markets | `TypeOK`, `LevelsAreSound`, `OneActivePerKey`, `NothingIsForgotten`, `OnlyStaleCopiesUndo` |
| `PositionsExit` | as above, 1 row | *violation* of `ExitSticks` |
| `Monitoring` | 2 workers, a position with and one without a target, 3 markets, scores 0, 20, 60 and not a number; news of one verdict lost | `TypeOK`, `NewsIsTold`, `ScoresAgree`, `InitialScoreStays` |
| `PriceAlert` | 2 positions of one stock, 2 runs of the job, prices 0 and 3, a stop loss at 3 that may become a raised stop, threshold 100 % | `TypeOK`, `AlertsAreSpaced`, `AlertsAreTrue`, `SilenceHasACause` |
| `PriceAlertOwner` | as above | *violation* of `ReachedIsTold` |
| `Signals` | 1 analyzer run and 1 generator run, 2 workers each at a time, 1 user, 2 stocks of one code, 2 timeframes, a plan over the minimum score and one at it, 1 change by the user or expiry | `TypeOK`, `OneJobTellsOnce`, `BatchesAreWhole`, `SuccessMeansStored`, `OnlyWanted`, and `JobsReturn` under fairness |
| `Backtest` | 4 days, each of 28 snapshots, nothing or one price cached, averages over 2 and 3 candles | `TypeOK`, `PlansAreSound`, `SafePlansAreLive`, `ExitsMatchReasons`, `StopOnlyRises` |
| `Bot` | 2 handlers, 2 dialogues, 2 errands, 4 tokens, prompts of 2, 3 and 5, 2 batches, 2 answers; 2 or 4 surprises | `TypeOK`, `RecordsAreComplete`, `ProcessLives`, `AnswersAreKept` |

Why these bounds: two calls are what it takes to claim one schedule twice, the
third queues at a full semaphore; capacity 1 makes every pair of tasks contend. Two rows are the
smallest number on which a second run of a slot, and a duplicate position, can exist. Two
workers lose an update; a third adds only more of the same, as a copy is
overtaken by one write whichever worker made it. Five prices leave room for an
entry with a stop below, a target above and a peak above that, and a gap through all of them.
For alerts, the move from 3 to 0 is exactly the threshold and a
repeated 3 is below it, two positions share an entry of the cache, and two jobs overlap in it.
Four days are a purchase, a day that raises the stop, one that exits and the next purchase; the snapshots have a
price on either side of every level, the courses of candles that each pattern needs, and a purchase above the market. `Period` and `Recent` are
14 and 10 in the code: shorter averages make short histories reach every branch. In `Bot` a dialogue done as the bot
asks costs nothing, and each surprise (a bad answer, a button or command out of turn, a failing call, an expiry, a panic,
a restart) is counted, so that the eight questions fit beside every pair of faults. Handlers and
errands are symmetric and the properties are invariants. In `Monitoring` two workers overtake one another on one row; of the
three markets two raise the trigger or the stop and one is dangerous; the scores are 0, which an update leaves out, a
dangerous one, a quiet one and NaN.
The theorems of section 5 hold without these bounds.

Deadlock is checked, except in `Signals`, `Backtest` and `Bot`, whose jobs, days and surprises come to an end. Fairness
in `Signals` is weak for the steps inside the jobs taken together: as long as one of their goroutines can go on, one does.
`Scheduler` (`FairSpec` only): weak for the steps of a
runnable caller or task, as Go's scheduler and the database's answer or error
give; strong for the send on the semaphore, since senders blocked on a Go channel
queue in order. There is none for `Execute`, `Panic`, `Timeout`, `Tick` and
`CrashRestart`: nothing must be called, fail or pass. It assumes that a strategy
returns, which `JobsReturn` of `Signals` checks for the analyzer and the generator, whose payload must not say
`max_concurrency` 0 (`SignalJobsAssumption`).
`MaxConcurrency` is positive: the code takes any value and 0 would block the first caller for good.

Three runs show disagreements, listed under "findings": the status `timeout` is
declared and displayed but never written, and a task that times out stays `running`; an exit the bot confirmed is
undone by a job that read the row before; a user whose stop loss is reached hears nothing when
another user was told of the same stock. Two more are read off the operators, without a run of their own:
"Prioritas #1: Cut Loss" (`trading_position.go:73`) loses to the end of a trailing profit (`Signal` of
`TrailingRules`), and "mulai melemah", begins to weaken (`stock_position_monitoring.go:307`), is said of a position in
warning whose score rose (line 257, `ShouldSend` of `Monitoring`).

## 5. Proofs

| Module | Theorem | States |
|---|---|---|
| `SchedulerProofs` | `TypeCorrect`, `SlotsAreTasks`, `RunningRowsAreOwned` | `TypeOK`, `SlotPerTask`, `RunningIsOwned` |
| `SchedulerProofs` | `ImplementsLedger`, `RunsOncePerSlot` | `LedgerSpec`, `OncePerSlot` |
| `TrailingProofs` | `Typed`, `Sound`, `OnlyRise`, `ExitSignal`, `StopBelow`, `CutLossTold` | the six properties of `Trailing` |
| `PositionsProofs` | `PositionsTyped`, `LevelsStaySound`, `OneActive`, `Remembered`, `StaleUndoes` | the five properties of `Positions` |
| `MonitoringProofs` | `MonitoringTyped`, `NewsTold`, `ScoresTheSame`, `InitialStays` | the four properties of `Monitoring` |
| `PriceAlertProofs` | `AlertsTyped`, `Spaced`, `AlertsTrue`, `SilenceCaused` | the four properties of `PriceAlert` |
| `SignalProofs` | `SignalsTypeCorrect`, `OneJobTells`, `ToldAreWanted`, `WholeBatchesOnly`, `SuccessIsStored` | the five invariants of `Signals` |
| `BacktestProofs` | `TypeCorrect`, `SoundPlans`, `SafePlans`, `ReasonsOfExits`, `RisingStop` | the five properties of `Backtest` |
| `BotProofs` | `BotTyped`, `RecordsComplete`, `DiesOfAIOnly`, `ShownAnswersKept` | the four properties of `Bot` |

They hold for any finite or infinite sets of schedules, callers, keys, workers, markets and prices
that meet the named assumptions of the modules (`CronAssumption`: an activation is later than
the instant asked about; a capacity above 0; prices are natural numbers). `SignalJobsAssumption` wants
finitely many stocks and timeframes, a slot for a goroutine per stock and a positive `MaxConcurrency`; `ErrandsAssumption` and `BotAssumption` type
the constants, users' surprises being any number. `BacktestAssumption` says that a day has at least one analysis and that analyses are
of the type `StockAnalysis`; `WeightAssumption` that the timeframes are finitely many and of different weights.

*Scheduler.* `SlotPerTask` counts goroutines, so the invariant has to tie each
goroutine to its row: rows up to `lastId` are in use and no others, a caller in
`acquire` holds a row with no goroutine, no two callers hold the same row (`RowsInUse`,
`RowsOfCalls`), and where a goroutine is agrees with its row (`VerdictsAgree`). With
that, a launch adds one to the count and to `sem`, a release takes one from both.
`RunningIsOwned` and each ledger step follow from the same invariant. `OncePerSlot` needs a second one,
about claims (`Claims`): while a caller holds an undisturbed schedule nobody else
does and what it read is still in the table; a run that was stamped started strictly
before the schedule's `next_execution`, because an activation is later than the
instant it is computed from; so the slot of a new run lies after every run before it, and a run is never before its own slot.

*Trailing.* `TypeOK` and `LevelsAreSound` are inductive together: a trigger lies
between the target it replaced and its peak, a raised stop above the user's and not below the entry. The first lemmas
of `TrailingProofs` say what each rule returns in terms of what it was given, and `PositionsProofs` and `MonitoringProofs` prove
those they need again; the properties about signals then hold in each state for any market.

*Positions.* `LevelsAreSound` is not inductive on its own, since a row is
overwritten with levels judged on a copy of an older state. The invariant says in addition
that the copies in hand are sound (`CopiesAreSound`), that a copy nobody overtook
is the row itself (`FreshCopies`), and that a row without a trigger has no peak
(`Unpeaked`), so that merging field by field cannot pair the trigger of one
evaluation with the lower peak of another. `DuplicatesRaced` extends `OneActivePerKey` to the checks
under way: a row and a check of its key, or two checks, already mean a race.
`OnlyStaleCopiesUndo` follows from the copy being the row itself when nobody wrote in between, and from `Judged` never lowering levels.

*Monitoring.* What is covered (told, lost, or in a verdict under way) only grows, and the invariant says that not the row alone but
every copy in hand is covered (`CopiesAreTold`): a merge then brings no level that is not. What an evaluation
adds to its copy is either raised, which sends a notice, or dangerous, which does too (`FoundTells`). For the scores, a copy
nobody overtook is the row (`FreshCopies`), and unless torn one record at most is on its way and has the row's score (`RecordsOnTheWay`).

*PriceAlert.* `AlertInv` adds to the types that the cache has an entry exactly when a message of
it was tried (`CacheIsTold`), that a job about to send has an alert still due or marked as raced (`PendingIsDue`),
that two jobs about to send the same one have marked it (`RacesAreMarked`), and that a copy
nobody overtook is the row (`FreshCopies`). The third is what lets the first sender's write
leave the second's alert covered.

*SignalJobs.* The types need that a list names a stock once and that a busy worker works for what its job started
(`Placed`). `OneJobTellsOnce` rests on `TellInv`: a call past the mark has its mark set, two of them mean a race, and what was told
has a mark. `WholeInv` follows the analyses of a call to the row, the list and the price request (calls, batches
and lists have every timeframe or a context cut them); `SuccessInv` says of a run which of its stocks are still to come, which
are stored, and that a run through its list has passed each of them.

*Bot.* A handler knows the draft it works on (`Knows`). For the answers, one errand at a time asks for a batch unless marked (`OneAsks`), a
batch being asked for was unanswered (`AskedUnanswered`), and what was shown is linked (`ToldIsLinked`). The process
dies of a panic of a live AI errand only when its message was never sent. For the records, a draft is worked on by one handler or
is crossed (`Overlaps`, `Own`); its handler's place says how far its answers go (`HandFilled`), as the two cache
entries do while nobody works on it (`Answered`); and an exit handed to an errand is out of the dialogues' reach (`Handed`).

*Backtest.* Most of the proof is about `CreateTradePlan`, which searches every pair of candidates, averages over candles and folds
over levels. That what it sorts and divides are numbers at all needs induction over the folds; the prover
cannot instantiate a theorem with an operator parameter, so induction is stated of sets (`Induction`, `SubsetInduction`:
a set with 0 that is closed under successor has every number) and proved from the library theorem that every set of numbers has a
least element. From it follow the types of `MapThenFoldSet`, sums, `FlattenSeq`, `Max` of a set,
pivots and buckets (`FoldExists`, `SumHasType`, `FlattenHasType`, `PivotsAreLevels`, `BucketsHaveType`). Then each stage has a lemma: an
entry is within 5% of the market whichever offer wins (`SmartEntryIsNear`), stops are
below it (`StopsAreBelow`) and targets above it, a pair that fits is 1% away and has its reward, a plan by the average true range
risks at most the three ranges it aims at (`BestAreSound`, `ATRPlanIsSound`), and a status of `safe` excludes a market in the last quarter
above the stop (`SafeStatus`). `PlansAreMade` puts them together for any analyses and any cached price. The invariant `IInv` has four parts:
the plan of the day was made (`PlanOfTheDay`), an open position has a target above its entry or is the plan of zeros,
and was bought after the last trade (`OpenPosition`), and trades do not overlap (`Log`). `TypeOK` says nothing of the terms of
a position, and without `OpenPosition` a target hit need not be a gain: it remembers of the plan what
matters on the day it is sold. The stop is not part of it, since `Hold` may raise it past the target. That no
evaluation closes by the day's own price (`NoExitBetween`) rests on `LastPriceOfMarket`: with nothing cached
the rules see the price the stop and the target were just held against.

*Only model-checked:* `CallsReturn` and `JobsReturn` (liveness under fairness), and the violations of section 4. What is proved
of the recursive functions is their type and bounds, not that they equal another definition.

## 6. What is left out

Components marked `not_modelled` in `PROJECT.json`, each with its reason. In the
modelled ones: wording and layout of messages, dates of a row, the
display of older monitoring records, `last_execution` (read by the job view alone), and the
schedule of jobs by an outside cron that calls the HTTP endpoint.
A cron expression that never fires (robfig returns the zero time, so the schedule is always due) is outside `CronAssumption`.

## 7. Running

    tlc -config MCScheduler.cfg MCScheduler
    tlc -config MCPositions.cfg MCPositions
    tlapm PositionsProofs.tla

and the same for the other configurations and proof modules.
