# Monik: models, checks and proofs

Monik looks for arbitrage between DEX aggregators. It polls providers for
quotes (Level 1), verifies what it found with fresh quotes (Level 2), stores
the verdict in SQLite and sends a Telegram message. It trades nothing. It is one
Python process with one asyncio event loop and one database file, so what can go
wrong is a matter of awaits (any other coroutine may run at each of them),
of commits (a crash may separate any two of them), of cancellations, and of what
the next process makes of the rows the last one left behind.

This directory holds TLA+ modules translated from `src/monik`, TLC
configurations that check them on small instances, and TLAPS proofs of most of
the safety properties for every instance. `PROJECT.json` maps every definition to
the lines it stands for. Paths below are relative to `src/monik` unless they
begin with `docs/`.

Contents: 1 the system, 2 the modules, 3 the runs, 4 fairness, 5 the proofs,
6 where code and documentation disagree, 7 what is not modelled, 8 what is left.

## 1. The system

### Components, their state and their operations

| Component | State | Operations | Hard part |
|---|---|---|---|
| **Level 1 scan** `services/level1` | per scan: semaphore, statistics, candidates | `scan`: fan-out over tokens and amounts, best BUY, SELL quotes, grouping, ranking, deduplication, handoff | time limit in the middle of the fan-out; a capacity read once and spent over many awaits |
| **Level 2 pipeline** `services/level2`, `services/opportunity` | rows `opportunities`, `level2_jobs`, `level2_attempts`, `notifications`; `Level2Worker._tasks` and its semaphore | `submit`, `confirm`, `_finish`, `record_confirmation`, `publish`, `cancel_all` | the verdict is spread over three commits; runs are shielded from cancellation |
| **Recovery** `app/recovery.py` | the same rows | `recover`: interrupted jobs, late jobs and opportunities, interrupted deliveries | it may be killed too; updates without a condition on the old status |
| **Resource manager** `services/resources` | slots, heaps and futures of the gates, breakers | `execute`: admission, gates, attempts, back-off, release | a slot handed over to a waiter that has just timed out |
| **Notification dispatcher** `services/notifications/dispatcher.py` | rows `notifications`, `notification_attempts` | `dispatch_pending` | at-least-once delivery around an answer that may be lost |
| **Scheduler** `services/scheduler` | `_next_runs`, rows `scheduler_executions` | `prepare`, `tick`, `shutdown`; `TaskRunner.run`, `cancel_all` | a shutdown in the middle of a tick; a plan rebuilt from a log |
| **Process** `app/lifecycle.py`, `app/supervisor.py`, `app/main.py` | `_stop`, supervisor state, mark `app.runtime.state` | `startup`, `run`, `request_stop`, `shutdown` | failure, signal or crash at every step |
| **Level 2 verification of amounts** `services/level2/amounts.py`, `routes.py`, `financials.py`; `services/level1/preliminary.py` | the quotes, fees, gas and rate of the amount under way | `verify`, `evaluate` | eight awaits before one decision; every answer may be missing, unreadable, late or for another route |
| **Calculator** `services/calculator` | none | `calculate`, `aggregate_costs`, `evaluate_threshold` | an unknown cost must never pass as zero |
| **Fees, gas, prices** `services/fees`, `gas`, `prices` | cache of fee snapshots, cache of rates | `snapshot_for`, `estimate`, `rate` | shared by all evaluations; sources in order, with their own idea of "not available" |
| **Request merging** `services/resources/dedup.py` | a task per key | `InFlightRegistry.run` | cancellation of the first caller |
| **Provider adapters, HTTP** `infrastructure/providers`, `infrastructure/http` | none | `get_quote`, `validate_fixed_route`, `health_check` | four formats, and an answer that is almost right |
| **Database access** `infrastructure/db` | one connection, `_write_lock`, the thread of aiosqlite | `transaction`, `execute`, reads, `migrate` | cancellation between BEGIN and COMMIT; commands outlive their callers |
| **Configuration and composition** `config`, `app/container.py`, `app/main.py` | none after the start | `load_config`, `build`, `--check-config` | seven parts derived from one document must agree |
| **Health monitor, system notifications** `services/health`, `services/notifications/system.py` | counters per provider; what was reported; the age of the last start message | `record_provider_*`, `probe_providers`, `notify_startup`, `notify_health` | hysteresis; a pass on a snapshot that has grown old; messages that get lost |
| **Telegram commands** `services/commands` | offset in `app_metadata`, handled ids | `poll_once` | at-least-once updates over restarts |
| **Capability registry** `services/registries/capabilities.py` | cache and rows `capabilities` | `status`, `allows_request` | none: nothing records an observation |
| **Registries, domain model, observability** | immutable or write-only | | none of concurrency |

### How they interact

    Application.startup:  detect kind -> recover -> prepare schedule -> startup task
                          -> probe providers -> mark "running" -> notify
    Supervisor -> scheduler_loop -> Scheduler.tick -> TaskRunner -> handlers:
        level1_scan     -> Level1Scanner -> adapters -> ResourceManager -> HTTP
                           Level1Scanner -> create_with_job (one transaction)
                                         -> Level2Worker.submit
                           PreliminaryEvaluator -> fees, rates, gas -> calculator
        notifications   -> NotificationDispatcher -> Telegram
        commands        -> CommandService         -> Telegram
        health          -> SystemNotifier.notify_health -> Telegram
    Level2Worker task -> InFlightRegistry -> Level2Scanner.confirm
                      -> AmountVerifier -> adapters, fees, gas, rates, calculator
                      -> 3 commits -> on_confirmation -> OpportunityService -> publish
    every adapter is wrapped by HealthTrackingAdapter -> HealthMonitor
    Application.shutdown: mark "stopped" -> Scheduler.shutdown -> Worker.cancel_all
                          -> Supervisor.shutdown -> close

Communication is by direct call, by futures (gates), by shared tasks (merged
requests) and, across time and crashes, by rows of the database.

### What makes each component correct

* Level 1 scan: a candidate follows from all the quotes of its context, in
  whatever order they came; the best groups are handed over when the capacity is
  short; the row accounts for the requests; the scan ends and leaves nothing running.
* Pipeline: stored verdict, job, opportunity and notification agree at every
  commit; a finished row never moves; every submission ends; never more runs
  than permits; every job the process left running is found by the recovery.
* Resource manager: slots are conserved, limits hold, nobody waits beside an
  idle slot, nobody is overtaken, every request ends.
* Dispatcher: sent means confirmed; attempts are bounded; a repetition costs a
  restart; order is kept; what is queued is decided.
* Verification: a verdict rests on complete evidence about one route, or there is
  none; every verification ends; equal requests are sent once.
* Database access: a transaction takes effect as a whole or not at all, whoever is
  cancelled; numbers are unique; migrations run once; nobody waits for ever.
* Configuration: what passed validation is usable when built, and what is switched
  off is silent.
* Operator's view: no command is skipped; a reminder is never early; the last word
  about a provider becomes true once the provider stays as it is.
* Scheduler and process: no task too early, none starved; nothing starts after
  a shutdown; the loop is gone before the database closes; work is done only under
  the mark that betrays a crash; a stop ends.

`PROJECT.json` lists the hazards behind these properties with their lines.

## 2. The modules

### Level 1 scan

* `Level1Scan`: one scan. `context` is the task of a token and an amount
  (`TokenCycle._run_amount`), `request` what has become of a request of
  `QuoteCollector._fetch`, `quote` the answer it brought. `EnterSemaphore` and
  `Answer` are its two awaits, `EndBuys` and `EndSells` the ends of the two gathers.
  A context that raises (`AnswerUnexpected`, `EvaluationFails`) ends its token at
  once, because the gather over the amounts does not return exceptions; the other
  contexts of the token go on as tasks nobody awaits, and the actions stay enabled
  for them in every later phase. `TimeOut` and `CancelScan` cancel the tokens that are
  not over. `BeginCreation` groups and ranks; ranking is the guard of `CreateOne`
  (no better group is left) and not a sorted sequence. The evaluation of a pair of
  quotes returns any member of `Results`, the capacity any number up to `Capacity`.
  `Level1Handoff` has the handoff of one group as its two steps.

### Level 2 pipeline

* `ConfirmationPolicy`: the statuses and the two folds `job_status_for` and
  `opportunity_status_for`. The folds only ask which verdicts occur, so the
  verdicts of an opportunity are a set.
* `Level2State`: constants and variables. A job and its opportunity are 1:1 and
  share a name. Variables in three groups: rows, clock, process.
* `Level1Handoff`: the end of a scan. `slots` is the capacity read once by
  `_create_opportunities`, `handoff` the job committed and not yet submitted.
* `Level2Worker`: `task[k]` (waiting for or holding a permit), `CancelAll`.
  The run is a task of its own behind `asyncio.shield`, so that `CancelAll` ends
  the tasks and not the runs.
* `Level2Scanner`: `run[k]` is the await the run is suspended at. The three
  writes of `_finish` are `SaveConfirmation`, `FinishJob`, `FinishOpportunity`;
  `RunFails` is an exception at any of the awaits. A run that is cancelled while it
  verifies writes `cancelled` to its two rows, in two commits.
* `RecoveryService`: `now` is read once (`recNow`). Each of its three lists is read
  once and walked in a finite loop, which removes a row from `recBatch` whatever comes
  of it; the lists of late rows are limited (`BatchLimit`, 500 in the code), that of the
  interrupted jobs is not. Every row is written by a commit of its own, and the process
  may be killed between any two of them.
* `Level2Pipeline`: composes them, adds the passing of deadlines, shutdown, crash
  and restart, and states the properties. After a regular shutdown the database is
  closed before `asyncio.run` cancels the runs, so their rows stay `running`; only a
  shutdown that raises (`ShutdownFails`) leaves it open, and rows become `cancelled`.
* `JobLifecycle`: the abstract specification: which edges a job and an
  opportunity may take, that a verdict follows the matching one of the job, that a
  notification needs a positive verdict. Implemented by `Level2Pipeline` under
  the mapping by name.

### Resource manager

* `PriorityGate`: slots (`active`), waiters (`heap`), resolved futures whose
  owner has not resumed (`granted`), acquired gates (`held`) and the order of
  creation (`older`). `Depart` is the release of everything a request has,
  without an await in between, including `_discard` of a slot it was handed but
  never collected.
* `CircuitBreaker`: the breaker as a record and its operations as functions of
  it. The move from OPEN to HALF_OPEN is lazy, as in the code.
* `ResourceManager`: `execute` as the actions between its awaits. Gates are
  acquired from the widest to the narrowest; those that are free are taken
  without an await, so a request moves to the first busy gate in one step.
  Requests are reused when they have ended, so load is unbounded.

### Notification dispatcher

* `NotificationDispatcher`: rows (`status`, `count`, `ready`, `log`), Telegram
  (`received`) and the pass (`batch`, `step`, `number`, `outcome`). A delivery is
  mark, send, receipt, attempt row, status; the answer to an accepted message may
  be lost. The unique index on (notification, attempt number) is a guard of
  `RecordAttempt`. `fresh` is a history variable for the statement of `InOrder`.

### Scheduler and process

* `Scheduler`: moments are kept as distances from now, so time may pass for ever
  in a finite model: `planned` is the time until the planned run and `age` the
  time since the last recorded success, counted up to the interval. `at` is where
  the loop is suspended. `HandlerEnds` produces any result, because `_execute`
  turns every exception and time-out into one.
* `Application`: extends it with the main coroutine (`main` names the next
  statement of `startup` or `shutdown`), the stop event, the supervisor, the
  mark and the kind of start-up. Any step of `startup` may fail, `mark_stopped`
  may fail, the process may be signalled, interrupted or killed anywhere.

### Verification of amounts

A step of `Verification` reaches from one await of the code to the next.

* `Verification`: `run[c]` is the progress of a caller `c`, a job of Level 2 or an
  evaluation of Level 1: the await it is at (`pc`), its two quotes, gas, rate, the
  results so far and the evidence of the newest (`last`). `VerifyBuy` and
  `VerifySell` are the two fresh quotes (`RouteVerifier.verify`), `FeesArrive`,
  `GasArrives` and `RateArrives` the answers after them, and whatever needs no
  answer (a fresh snapshot, a rate that holds, gas units that are unknown) is passed
  in the same step. Level 2 asks for the gas before the rate, Level 1 the other way.
  `Judge` is the decision; a record that refuses its data ends the coroutine
  (`refused`), an error that is no `MonikError` leaves it (`broken`).
* `ProfitCalculator`: conversion, costs, contradictions, status and threshold as
  operators over integers.
* `DomainRecords`: what the immutable records refuse to hold.
* `InFlightRegistry`, `FeeService`: merged requests, and the snapshots built with
  them. A caller that is cancelled leaves its task running (the shield), and takes
  its entry away.
* `CostSources`: the order of the sources of gas and rates and what each makes of a
  missing, unreadable or lost reply.
* `ProviderRequests`, `ProviderAdapters`: what the four adapters refuse to ask, and
  what they make of an answer; `ValidateFixedRoute` compares it with a route.

### Database access

* `Database`: an operation is one call of a repository: a transaction, a single
  statement, or a pair of reads. `queue` holds the commands handed to the thread of
  the connection, which executes them also when their caller is gone; `view` is what
  the connection sees and `disk` what is committed. `Enter`, `Resume` and `Cancel`
  are the steps of a caller at its await, `Thread` serves the next command, `Fault`
  lets it be refused or meet a locked file. `Stop` ends the process anywhere;
  migrations run before anything else.
* `AtomicStore`: what `transaction()` promises: an operation takes effect whole or
  not at all; one that failed never does; one that was cancelled may. `Database`
  implements it with `applied` the transactions whose rows are all on disk
  (`DatabaseProofs`, `StoreIsAtomic`).

### Configuration and composition

* `ConfigurationSchema`: the validators of the sections and between them, overrides
  from the environment, and the selections made by the registries. `Keys` names the
  keys that a section may have; what the schema types of pydantic refuse and a proof
  relies on (unknown providers, ranks, the size of a scan) is part of the validators.
* `CompositionRoot`: one process after another reads a document and an environment,
  validates, resolves secrets, connects and builds. The built parts are a record;
  the gas source keeps a url for each network. The scope of a scan is computed from
  the configuration again at every cycle. Assumed of the inputs: a document has the
  sections and keys of the schema, a path is overridden once, and the built-in
  endpoints of the providers are https.

### The operator's view

* `HealthMonitor`: counters and states of the providers; `ProbeProviders` is the
  check of the start-up, through the settings of the adapters (`ProviderRequests`).
* `SystemNotifier`: the start message, and passes of `notify_health` on a snapshot.
  Ages replace moments. `told` is a history variable: the last message that Telegram
  acknowledged about a provider.
* `CommandService`: `poll_once` as fetch, handle, store.
* `Operations`: composes them; the passes of both tasks run in the scheduler loop
  one at a time, requests are observed at any moment, a process may end anywhere.

Mutants (`...OffByOne`, `...Early` and the like, each marked "Mutant:") stand
before the definition they deform. They are not part of any next-state relation;
they exist to show that every property can be broken by a plausible bug.

## 3. The runs

| Run | Question | Instance | States |
|---|---|---|---|
| `level2_safety` | do rows agree whatever fails or crashes; does a row that says running belong to the living process; does the pipeline implement `JobLifecycle`? | 2 jobs, 1 permit, queue 2, batches of 1, three kinds of verdict and the time-out, errors, crashes, deadlines | 613,217 |
| `level2_liveness` | does every submission end, is none refused, is a job whose process died settled although start-ups are killed again and again? | 3 jobs, 1 permit, queue 2, errors, crashes, shutdowns, fairness | 113,126 |
| `level2_wiring` (violation) | is a confirmed opportunity published as the application is wired? | 1 job | |
| `level1_scan` | right candidates, best groups, honest row, nothing left running, does it end? | 2 tokens (one nobody may be asked to buy), 2 amounts, 2 providers, 2 requests at once, capacity 1, errors | 590,668 |
| `resource_manager` | slots, idle slots, order; does every request end? | 5 requests, global gate of 4, a provider gate of 1, heaps of 2, cancellations | 15,304 |
| `resource_half_open` (violation) | does a breaker leave HALF_OPEN? | 3 requests, default thresholds 1 and 2 | |
| `notifications` | confirmed, bounded, ordered, decided | 3 notifications, one undeliverable, batches of 2, 2 attempts, one error, one restart | 119,641 |
| `application` | too early, starved, after shutdown, marked, ends | 2 tasks with intervals 3 and 1, any failures and crashes | 9,142 |
| `verification` | does a verdict rest on evidence, are requests merged, does every verification end? | a job with one of three orders, an evaluation of Level 1 on the same fees, time limit 2, clock up to 2, snapshots that hold for a moment | 187,118 |
| `database` | are transactions whole, numbers unique, migrations applied once, does every call end; is it an atomic store? | a migration and a creation of two statements, two numbers, an update, a reader, two faults, stops, cancellations | 661,703 |
| `configuration` | are the built parts usable, is what is off silent? | 615 documents in 10 environments | 16,494 |
| `operations` | commands in turn, reminders apart, is the operator up to date? | one provider, thresholds 1, 2, 2, three updates of which the last is malformed, two processes | 360,928 |

Why these bounds are enough to reach the interesting cases:

* Pipeline: two jobs and one permit make one job wait while another is at any
  commit; a batch of one makes the recovery leave rows behind; the number of
  crashes and restarts is not bounded. `Perishable` is the only bound on time. The
  liveness run takes three jobs so that a queue of two overflows unless the
  capacity is right, and so that several jobs can be interrupted at once, which takes
  the recovery several commits between which it is killed. It leaves out the verdicts
  and the deadlines: they change what is written to a row, not whether it is.
  The safety run gives the worker the handler of confirmations, which the
  container does not, so that `record_confirmation` and `publish` are exercised.
* Level 1 scan: the two amounts of one token are what a failed context leaves
  behind; the other token ends without a request, so that at the time limit one token
  is over and one is not. Two outputs make one provider the best buy, or both;
  two routes make two groups for a capacity of one. Deadlock is off: a scan ends.
* Resource manager: two gates in a row are needed for a request that holds one
  and waits for the next; with five requests, four of them behind the global gate,
  both heaps of two overflow; a slot is handed over at both levels. Numbers of requests and breaker openings are not bounded:
  requests are reused. The application gives every gate the same limit; the run
  makes provider gates narrower, which is what makes waiting at the second gate
  possible. The theorems cover every choice of limits.
* Dispatcher: a batch of two of three notifications leaves one behind, the
  undeliverable one stands in the middle, and one restart may hit any of its
  commits. `MaxErrors` and `MaxRestarts` are bounds, because `log` and `count`
  grow with every restart. Deadlock is off here: a queue that is empty with
  its restarts spent is an end.
* Verification: the first order has two amounts, so that a result of the first
  survives or is lost with the second; the second order has answers that echo another
  amount, no output or no gas; the sell leg of the third has no adapter. The job and
  the evaluation share both fee keys of the first order. With `FreshFor` = 0 and
  `RateTtl` = 1 a snapshot and a rate are fresh in one step of the clock and stale in
  the next; a limit of 2 lets the time-out strike after any of the awaits. 103 for
  100 with gas 2 meets the threshold exactly, 102 misses it. `PathLimit` = 2 stands
  for the 128 characters of a route.
* Database: two statements make a half-written transaction possible; two numbers
  meet; `MaxFaults` = 2 lets a statement and a rollback be refused;
  `MaxLockRetries` = 2 gives one retry. A process may stop at any step.
* Configuration: a valid document and variations of it, up to a few at a time, over
  every section the composition reads; environments with and without the secrets and
  with overrides of several kinds. The model has no liveness: no process has to start.
* Operations: thresholds of 1 and 2 keep the four states apart; one pass of the
  health task may last a tick; an update may be refused by the parser after two that
  are not, and a batch of two leaves one behind.
* Process: the slow task is due on every third run of the fast one, so that they
  are due together and apart; starts and crashes are not bounded.

## 4. Fairness

* Level 1 scan: the time limit expires (a timer of the event loop), handoffs and
  the last write return or raise. Nothing is assumed of the providers and of the
  contexts, so that `ScanEnds` rests on the time limit.
* Pipeline: weak fairness of a submission and of every run (their awaits have time
  limits: the confirmation's, SQLite's busy time-out), and strong fairness of
  `AcquirePermit`: `asyncio.Semaphore` wakes its waiters in FIFO order, so a waiter is
  not passed over for ever. Of the environment: a process that is down is started
  again (`WF StartRecovery`, the service manager), and among start-ups that are killed
  again and again a step of the recovery succeeds infinitely often (`SF RecoveryNext`;
  without it every start-up could die before its first commit). One such step a start
  is enough, because rows are committed one by one: with one transaction around the
  loop (the mutant) it is not. Nothing is assumed of errors, deadlines, shutdowns, of
  the number of crashes or of the scans.
* Resource manager: resolved waiters resume, and four timers fire: the wait for a
  gate, the limit of an attempt, the back-off, the recovery of a breaker.
  `FairLoad`, used only by the run that shows the breaker stuck, adds that requests
  keep coming, so that the violation is not due to silence.
* Dispatcher: the scheduler keeps running passes, awaits end, delays pass, the
  process is started again. Nothing is assumed of Telegram: `Accept` is not fair.
* Process: time passes, the loop is scheduled, every statement of start-up and
  shutdown returns or raises, handlers end. The last is the weakest
  assumption: only `level1_scan` has a time limit of the scheduler, the
  other handlers rest on the limits of the requests they make.
* Verification: the clock goes on and time limits are kept. Nothing is assumed of
  providers, nodes, price services or the database.
* Database: the loop runs what is ready and the thread serves its queue.
* Operations: the loop comes back to the health task again and again (strongly
  fair, since the command task takes its turns), passes end, time passes, and of
  the messages about a provider that are tried again and again one is delivered.
* Configuration: none.

## 5. The proofs

The safety properties of the runs `level2_safety`, `level2_liveness`, `level1_scan`,
`resource_manager`, `notifications`, `application`, `operations`, `verification`,
`database` and `configuration` are proved by TLAPS for every value of the constants that satisfies the
named assumptions of the modules
(`Level2Assumption`, `GateAssumption`, `BreakerAssumption`, `ManagerAssumption`,
`DispatcherAssumption`, `SchedulerAssumption`, `Level1Assumption`,
`ThresholdsAssumption`, `ProvidersAssumption`, `IntervalsAssumption`,
`NoneAssumption`, `UpdatesAssumption`, `AbsentAssumption`, `ProcessesAssumption`,
`RegistryAssumption`, `KeysAssumption`, `AdaptersAssumption`, `RepliesAssumption`,
`OrdersAssumption`, `MetricAssumption`, `DatabaseAssumption`, `DocumentsAssumption`,
`EnvironmentsAssumption`, `DefaultUrlAssumption`, `SwitchesAssumption`): finite sets of jobs, requests and
notifications, positive limits, paths without a gate that occurs twice, fee keys and
positive amounts for every order, one of the three metrics, documents with the keys of the schema, and "none" distinct
from every value. Of what services answer, only the form is assumed: a field is a number,
missing or unreadable.

| Module | Inductive invariant | Why the properties alone are not inductive |
|---|---|---|
| `Level2Proofs` | `Level2Pipeline!IInv` | that a verdict has a stored result depends on what the suspended run holds: `StepFindsRows` says, for every await, what the rows are; `ProcessIsOver`, that a process that is down has no run; `RecoveryFindsRows`, that the list a recovery walks holds every running row not yet written, and only pending rows although it does not look again (this carries `RunningIsOwned` from the crash to the next process, and needs a list without a limit); `SlotsAreFree`, that what a scan may still submit fits. For the refinement (`PipelineImplementsLifecycle`) each action is matched with an abstract one or a stutter, using the invariant at the step it starts from. `NewIsUnattempted`, for `JobsRunOnce`: a task that still waits belongs to a job that was never begun, so that a permit never starts a second run |
| `ResourceManagerProofs` | `TypeOK`, `Placed`, `Counted`, `Balanced` | that slots equal owners needs to know where each request stands: a waiter has exactly the gates before the one it waits for, and is in the heap or handed the slot, never both. `BreakersKept`, for `CircuitsTurnInTime`: a count never stands at its threshold, so that the next answer is the one that turns the circuit |
| `NotificationProofs` | `TypeOK`, `Phases`, `Row`, `UnderWay`, `Budget`, `Confirmed` | the bounds on attempts and confirmations are budgets that depend on the status: a row that may still be sent has one attempt left |
| `ApplicationProofs` | `TypeOK`, `Order`, `Current`, `Distance` | `NeverTooEarly` needs planned run plus age to be at least the interval, and `ShutdownIsFinal` that the plan is empty once the scheduler is shut down; a loop that failed between record and plan is the exception. For the composition root, `RootInv`: from loading on, the configuration is a valid document under the overrides, its secrets are resolved, and what is built and scanned is a function of it. Everything then rests on lemmas about a valid configuration: identities are unique, so an identifier that is enabled has no entry that is not; a list has enabled entries for what the others refer to; and at most `top` tokens have fewer than `top` before them |
| `Level1ScanProofs` | `TypeOK`, `Stage`, `Founded`, `Course` | that a candidate keeps the best buy needs the stage of its context: the sells were asked after all buys had ended, for the partners of the largest output, which exists because the providers are finitely many, and a context that is over is never touched again; `Course` ties the contexts to the phase, so that a cancelled context means a time limit or a cancelled scan |
| `OperationsProofs` | `Places`, `Remembered`, `Observed`, `Counted`, `InTurn`, `Underway` | that no command is skipped needs to know what the batch under way still holds and that what was handled is remembered by this process or lies before the offset (`Forward`, for `CommandsStayAcknowledged`, that the batch under way lies behind the offset); that a reminder is late enough, that `reported` is at most as old as the last message of this process. `HealthSettled` ties the status of a provider to its counters, which `HealthIsHysteretic` needs: the status alone does not say how many failures are left |
| `VerificationProofs` | `Good`, `Shared`, `Sound` | that two tasks of a key mean a cancelled creator needs every task that is awaited by its creator to have its entry, and an answer to be there only for who awaits it; `Shared` ties the await of a caller to the registry, so that a caller never asks twice. `Sound`, for the verdicts: what is known of the amount at each await (both quotes are on the fixed routes and for the right amounts, the gas is unknown or the sum of both legs at some price, the rate has the right currencies and is positive). `DecisionIsSound` then follows the whole calculation: fees that are part of the quote cost nothing, an unknown fee, gas or rate makes it partial, and the metric compares exactly what the evidence says |
| `DatabaseProofs` | `Running`, `Stored`, `Told`, `Counting` | that no half of a transaction is committed depends on the commands in the queue of the thread, also those whose caller is gone. `Running`: whoever has a command under way holds the lock; nothing but reads and its own command is in the queue while a body runs; before a COMMIT nothing of its transaction is left to execute; a statement whose caller was cancelled is followed by its ROLLBACK. `Stored`: SQLite has a transaction open as long as one is under way, only that one has rows that are not committed, and none that are. `Told` relates the answers to the rows, for the refinement: a COMMIT that is answered has been applied, a failed operation never is, and one that ended with its COMMIT still in the queue was cancelled. `Counting`, for the numbers: a call that commits has seen all rows that are committed, and its own row, which the earlier calls have not seen. `WordKept`, for `AnswersAreKept`, is an invariant of `AtomicStore` and reaches `Database` through the refinement |

Some theorems say more than any run checks:

* `NobodyWaitsInACircle` (resource manager): as long as all requests pass the gates in
  one order, one request that is under way can move, so that holding a gate while
  waiting for the next is no deadlock, with or without time-outs. The hypothesis is
  what `ResourceManager._gates_for` does (from the widest to the narrowest), and the
  conclusion what its docstring promises.
  The request that moves is one at the highest gate that anyone waits for or holds.
* `CircuitsAreCounted`, `CircuitsTurnInTime`: the state of a breaker changes only at
  the exact count and after the recovery time-out, with answers that come late and for
  requests admitted in another state.
* `AnswersAreKept`, `NothingIsUndone`, `TransactionsNeverOverlap` (database): what a
  caller was told stays true. The third needs the queue of the thread as well as the
  lock, because a cancelled caller gives the lock back early.
* `JobsRunOnce`, `ResultsAreFinal` (pipeline): no restart repeats a verification or
  replaces its result.
* `HealthFollowsCount`, `HealthIsHysteretic`, `CommandsStayAcknowledged` (operator's
  view): no flapping below the thresholds, and no command after its acknowledgement.

Two attempts at a proof failed for a good reason. `BuiltPartsAreUsable` was false of
the model when two networks share an rpc url or two parts a secret: the built parts now
keep the url of each network. That an unavailable provider only leaves that status by a
success is false of the code (section 6), so `Hysteresis` has that exception.

Each invariant that TLC can evaluate was model-checked before it was proved. A proof has one lemma
for each action or group of actions that touch the same state; the last step of
each theorem is temporal (`PTL`). Facts about `Min`, `Max`, cardinalities and the
hand-over of slots are lemmas of their own.

Only model-checked: the liveness properties (`EverySubmissionEnds`,
`InterruptedIsSettled`, `EveryRequestEnds`, `QueuedIsDecided`, `NoTaskStarves`,
`StopEnds`, `ScanEnds`, `EveryVerificationEnds`, `EveryCallEnds`,
`OperatorIsUpToDate`), because fairness and ENABLED are out of the prover's reach.

## 6. Where code and documentation disagree

Shown by a run:

1. `level2_wiring`: the container builds the worker without `on_confirmation`
   (`app/container.py:594`), so no notification row is ever written.
2. `resource_half_open`: with the default thresholds (one probe, two successes) a
   half-open breaker refuses everything for ever after its first success.

Stated in the modules as properties that are false of the code (marked so where they
are defined), each found violated by TLC when added to the run of its module:

* `Level2Pipeline!RequeuedIsRetried`: a job the recovery requeues stays queued for
  ever; nothing reads queued jobs.
* `Level1Scan!CompleteIsAvailable`: a token whose evaluation raises is dropped, and
  the scan is recorded as complete.
* `NotificationDispatcher!OthersAreDelivered`: a stop between the two commits of a
  refusal leaves a row at which every later pass fails, ahead of everything behind it.
* `Application!SignalStartsNothing`: a tick under way starts the other due tasks
  after the stop signal.
* `Verification!UnavailableGasIsUnknown`: an error of the RPC source of gas ends the
  whole job, where the comments promise an unknown gas and the next source.
* `Verification!ConfirmedIsActual`: the quotes are fresh when they arrive; nobody
  looks at their age again when fees, gas and rate have been awaited.
* `Verification!ErrorsAreNormalized`: a route whose sources do not fit 128 characters
  raises a `ValidationError`, which leaves the job running until a restart.
* `Database!ReadsAreWhole`: a reader can meet the rows of a transaction that is not
  finished, or one half of an entity.
* `Database!TransactionsEnd`: a BEGIN whose caller was cancelled leaves a transaction
  open with the lock free; the next operation starts behind it.
* `CompositionRoot!ScansAcceptedPairs`: the cycle asks providers for pairs that
  `provider_pairs()` would not accept.
* `CompositionRoot!AcceptedIsBuildable`: `--check-config` accepts what cannot be built
  (`docs/OPERATING.md` section 2 presents it as the check before the start).
* `CompositionRoot!EndedIsClosed`: when the build fails, the database stays open.

Present in the models:

* The time limit of a scan throws away the candidates of the tokens that were over
  (the comment at `services/level1/scanner.py:125` says that results already
  received are not thrown away).
* The row of a cancelled scan counts no opportunity, also when some were created.
* A database error while a group is looked up ends the scan with its row `running`.
* `TaskRunner._execute` takes the cancellation of its caller for a result: the
  cancellation arrives through the awaited handler, for which `cancelled()` holds
  (the comment at `runner.py:114` says otherwise).
* A start that fails after a crash marks the process stopped; the next start is
  announced as a plain restart.
* When `mark_stopped` raises, the rest of the shutdown is skipped: runs are then
  cancelled with the database open, and only in this way rows become `cancelled`.
* A `DatabaseError` raised inside a handler is recorded as a failed run; only one
  of the scheduler's own writes leads to SAFE_STOP.
* A regular shutdown leaves jobs `running`; they wait for the recovery of the next start.
* A request admitted by a closed breaker is sent although the breaker opened while
  it waited, and a retry does not ask the breaker.
* The global gate is held while a request waits for its provider.
* Late tasks are not independent: a tick runs them one after another.
* The time limit of a job marks all its amounts failed, also those that had a result.
* After a restart within the interval of start messages the recovery of a provider is
  never announced; the move from RECOVERING to HEALTHY sends a second message of
  recovery; a message that arrived without its acknowledgement is repeated; a
  provider that alternates between failure and success stays "recovering", which
  counts as good.
* An update the parser refuses (`infrastructure/telegram/polling.py:154`) fails the
  poll every time and blocks the commands behind it for ever.
* A provider that the probe of the start-up found unavailable becomes degraded with a
  later failure: the probe stores one failure, and below the failure threshold the
  count decides (`services/health/monitor.py:150`). `docs/architecture/35_STATE_MACHINES.md`
  section 100 lets UNAVAILABLE be left only for RECOVERING. No run shows it; the
  exception in `OperationsProofs!Hysteresis` states it.
* The probe of a degraded provider counts as one failure. The health check of Uniswap
  raises for a wrong routing preference or slippage (unavailable) and reports a
  missing swapper (degraded).
* A provider is unusable for the rate of the native token unless it is the first
  enabled one (`AggregatorQuotePriceProvider`).
* `/stats` always answers zeros (`app/container.py:771`), and `/details` reads a job and
  its confirmation in two reads.
* `level1.interval_seconds`, `level1.enabled`, `level2.enabled`, `scheduler.enabled`
  and the `enabled` of gas, fees and health are read by nothing: scans run every 300 s.
* A scan ends with a scope error every time when no enabled provider declares the
  base network, and may have no pair at all. An override from the environment cannot
  give a list of one element.

## 7. What is not modelled

* In the pipeline a run receives any set of verdicts, and in the scan an evaluation
  returns any result; `Verification` models how they come about, for one network and
  one pair of tokens. The checks of a Level 1 quote (`validation.py`) return any
  answer. The window of the deduplication is "known or not" for each group.
* Decimal arithmetic: the models count in integers, without rounding.
* The SQL of the repositories and the schema; pragmas and the integrity check. Outside
  `Database`, a transaction is one atomic step that may fail.
* The capability registry: nothing records an observation, so that its answer is a
  constant (`Blocked`, `Refused`).
* `RateLimiter` (never configured), `PercentageFeePolicy` (never registered),
  `record_delivery`, `claim_queued`, `Scheduler.trigger`, `recover_interrupted`
  (never called), daily tasks and overlap policies (no such task is registered),
  restarts by the supervisor (its only worker is critical).
* Single paths of modelled functions, which no property rests on:
  - a job whose opportunity is missing (`services/level2/scanner.py:84`): both rows are
    inserted in one transaction and never deleted;
  - a COMMIT that fails with an error of the disk (`infrastructure/db/connection.py:240`)
    and leaves its transaction open: in `Database` a COMMIT meets no such error;
  - the native token as the token of the profit (`services/level2/financials.py:107`,
    `services/level1/preliminary.py:97`), which needs no rate: in `Verification` gas is
    paid in another token than the base, so that the rate is always needed;
  - the wait of the supervisor for the workers it has cancelled
    (`app/supervisor.py:97`) is part of the step `StopWorkers`: a handler that swallows
    its cancellation would prolong it, and `ClosedQuietly` says that none is left by
    then. When `mark_stopped` raises, this wait is never reached; `StopEnds` covers that
    path, `ClosedQuietly` does not.
* `DisabledStaysSilent` speaks of the switches it enumerates and of what the process
  builds. A notification queued while notifications were on is still sent by a later
  process that has a Telegram channel (`services/notifications/dispatcher.py:92`).
* `RemindersAreSpaced` counts from the start of a pass, where the code takes its
  stamp: two messages may follow each other faster by the duration of a pass.
* What a command answers; texts, logs, metrics, redaction; ranges of single numbers in
  a configuration.
* Time is abstract: deadlines pass or do not, delays are distances.

## 8. What is left

1. Theorems: more action properties of the dispatcher and of the verification (what a
   delivery and a merged request may never do in one step).
2. Larger instances of `verification` (two jobs that share fees) and of `operations`
   (two providers), which run longer than a check should.
3. A composition of `Verification` with `Level2Pipeline`, so that the verdicts the
   pipeline stores are those of the evidence; today they meet at the set of verdicts.
4. `CapabilityRegistry`, once something records observations.
