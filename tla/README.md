# Verification of DocsQueueMonitor

DocsQueueMonitor watches the appointment pages of passport service centres and
tells Telegram users when slots open.  This directory holds a TLA+ model of the
parts of it where the order of things matters, the TLC configurations that check
the model on small instances, and TLAPS proofs of its main properties for every
instance.  Paths are relative to the application package (`src/src/app/`) unless
they begin with `docs/`.

## 1. Inventory

One process, one asyncio loop, one SQLite file.  These tasks run in the loop: the
monitoring scheduler, N notification workers, one task per Telegram update, and a
health endpoint.  Code between two awaits runs undisturbed.

| Component | Code | State | Operations | Correct when |
|---|---|---|---|---|
| Availability state machine | `monitoring/state_machine.py`, `domain/` | none | `transition` | an alert needs an armed location and enough confirmations |
| Monitoring service | `monitoring/service.py`, `monitoring/runtime.py` | location rows (durable); armed flags, cooldowns, global throttle (memory) | `check_all_active`, `check_location`, `should_check_location` | one alert for one opening, none missed, the site left alone when it asks for it, no location starved |
| Monitoring scheduler | `monitoring/scheduler.py` | the sleep between cycles, the heartbeat | `_run`, `start`, `stop` | cycles go on after failures, `stop` returns |
| Notification queue | `notifications/queue.py` | the asyncio queue, workers (memory); `notification_events` (durable) | `enqueue`, `start`, `stop`, `_worker`, `_send` | nothing twice, nothing lost, rows true, `stop` returns |
| Notification service | `notifications/service.py` | none | `notify_slots_available`, `alert_admins` | every active subscriber is told, no other user is |
| Subscriptions and users | `subscriptions/`, `users/`, `database/repositories/`, `bot/middlewares/db.py`, `bot/handlers/user.py` | `users`, `subscriptions` (durable); sessions | `ensure_user`, `subscribe`, `unsubscribe`, `unsubscribe_all`, `anonymize_user`, one transaction per update | a tap has the effect the user is told of, deleted users stay silent |
| Browser checker | `monitoring/checkers/browser.py` | the Playwright driver and one Chromium between checks; a context, a page and `cf_post_blocked` within one | `start`, `stop`, `check` | no driver or context is forgotten, checks end, a dead Chromium is replaced, slots are reported only of what was shown |
| HTML checker, page parser | `monitoring/checkers/html.py`, `monitoring/parsers/`, `locations/markers.py` | none | `check`, `parse` | a page without evidence of slots is never called available |
| Checker registry | `monitoring/checkers/registry.py`, `api.py`, `disabled.py` | none | `get` | the configured checker is used |
| Process lifecycle | `main.py` | which task and client is up, the stop event | `run_bot`, `run_seed_only` | producers stop before consumers, a shutdown ends, monitoring starts on a database that is ready |
| Health endpoint | `health/` | a heartbeat read and not yet answered | `GET /health` | a stalled scheduler is reported, a healthy one is not |
| Seeding, schema | `locations/seed.py`, `database/schema.py`, `database/migrations/` | tables and seeded rows (durable) | `upgrade`, `ensure_runtime_schema`, `seed_countries_and_locations` | rows keep what monitoring stored in them |
| Settings, texts, keyboards, logging, scripts | the rest | configuration, wording | | |

**Interactions.**  The scheduler calls the monitoring service; the service asks a
checker, commits a row, and calls `on_available` or `on_admin_alert`.  These put
messages on the notification queue.  Its workers call Telegram and write
`notification_events` and `users`.  Telegram updates change `subscriptions` and
`users`, which the next plan of a cycle and the next fan-out read.  `run_bot`
starts all of these and stops them.  Tasks share the queue and, with the health
endpoint, the scheduler's heartbeat; the rest goes through the database.

**What is hard.**  An alert depends on a durable status and on an armed flag in
memory: a restart or a failed commit parts the two.  A 429 looks through a
latched ERROR to the status before it.  The throttle is armed by a check in the
middle of a cycle that was planned before.  A RetryAfter has a message re-queued
before its old row is cancelled.  Recording SENT may fail after the delivery.
`stop` must reach workers that are asleep behind a backlog, and a scheduler in
the middle of a cycle.  An alert that was decided is kept nowhere but in the
coroutine that is telling of it.  A probe reads the heartbeat before it waits for
the database.  A handler reads the
user before it holds the write lock, and answers before it commits.  The fan-out
reads subscriptions and users in two queries.  Chromium may die, a page may
reload itself, and any call may raise, at every await of a check.  The list at
`"hazards"` in `PROJECT.json` names each one with its line and the properties
about it.

## 2. Modules

`X <- Y` is "Y extends X".

    AvailabilityStateMachine <- MonitoringService <- MonitoringAlerts <- MCAlerts
                             |                    |                   <- AlertsProofs
                             |                    <- MonitoringPacing <- MCPacing
                             |                    |                   <- PacingProofs
                             |                    <- Lifecycle <- MCLifecycle
                             |                    |            <- LifecycleProofs
                             |                    <- MCMonitoring
                             |                    <- MonitoringProofs
                             <- PageParser <- AvailabilityCheckers <- MCCheckers
                                                                   <- CheckersProofs
    NotificationQueue <- MCQueue
                      <- QueueProofs
    Subscriptions <- SubscriptionProofs
                  <- NotificationService <- AlertDelivery <- MCDelivery
                                                          <- DeliveryProofs

AlertsProofs, PacingProofs and LifecycleProofs also extend MonitoringProofs, on
whose type invariant they rest.  The refinements:

| Detailed | Abstract | Property | In the place of |
|---|---|---|---|
| MonitoringAlerts | AvailabilityAlerts, the promise made to users | `OneAlertPerNoSlots` | `clean`, `pending`, armed flags, counters: one bit |
| AlertDelivery | MonitoringService | `MonitorRefined` | one step, "subscribers are notified": a fan-out with two reads and updates between them |
| Lifecycle | MonitoringService | `MonitoringAsSpecified` | a restart: the shutdown, exception or kill that ends a process, and the boot of the next |

**AvailabilityStateMachine** is `transition` as one operator on (status, both
counters, result, armed).  A result keeps what the code tests: its outcome,
whether its reason is the transient 429, and whether dates came with it.

**MonitoringService** is the scheduler task.  `phase` is the await it is suspended
at:

| `phase` | in the code | leaves by |
|---|---|---|
| `sleeping` | the wait in `_run` | `SkipCycle`, `StartCycle`, `PlanFails` |
| `choosing` | between two iterations of the loop of `check_all_active` | `EndCycle`, `AbortCycle`, `Pause`, `BeginCheck` |
| `pausing` | `asyncio.sleep(delay)` | `BeginCheck` |
| `checking` | `check_location` up to its commit | `CheckCommits`, `CommitFails`, `CheckRaises` |
| `announcing` | `check_location` after its commit | `NotifySubscribers`, `NotifyFails`, `SkipNotify`, `AlertAdmins`, `NothingToTell` |

Time is a `Tick` at the awaits that take time.  A timestamp in the future is
kept as the ticks it still forbids something (`cooling`, `limited_for`,
`wake_in`), one in the past as its age, saturated at `AgeCap`, above which no
test tells ages apart.  The streak counters are saturated at the thresholds they
are compared with.  A `Restart` keeps the rows and forgets the rest.

**MonitoringAlerts** adds the history the alert properties speak of: the answers
recorded so far, whether the path from NO_SLOTS is unbroken (`clean`), whether an
opening is unspent.  **AvailabilityAlerts** is the promise made to users, with
two variables and no machinery: NO_SLOTS is seen, later an alert may be made,
once.  `OneAlertPerNoSlots` states that the first implements the second.
**MonitoringPacing** adds clocks outside the process, since those inside are
forgotten by a restart; `PacingTaskSpec` and `PacingFairSpec` add the fairness of
MonitoringService's steps to it.

**Lifecycle** puts MonitoringService into its process.  `main` is the await that
`run_bot` is suspended at:

| `main` | in the code | leaves by |
|---|---|---|
| `exited` | no process | `Launch` |
| `migrating`, `seeding` | `ensure_runtime_schema`; the seed and its commit | `Migrate`, `Seed` |
| `connecting`, `launching` | `get_me`; `browser.start`, after which the queue and the scheduler are started | `Connect`, `StartTasks` |
| `binding` | `start_health_server` | `Bind` |
| `serving` | `asyncio.wait` for the signal or for polling | `BeginShutdown` |
| `stopping`, `draining`, `closing` | `scheduler.stop`, `notify_queue.stop`, `browser.stop` and `aclose` | `StopScheduler`, `StopQueue`, `CloseClients` |
| `unbinding`, `hanging_up`, `disposing` | `stop_health_server`; the wait for polling; `engine.dispose` | `Unbind`, `HangUp`, `Dispose` |

Any await of a boot, and those of the shutdown that are not guarded, may raise
(`MainRaises`), and the process may be killed (`Killed`); both end in
MonitoringService's `Restart`, after which the next process starts on the same
`store`: what the schema has been migrated to, whether locations are there.  The
steps of the scheduler are those of MonitoringService, with the heartbeat.  A
`probe` holds the heartbeat that it has read; `HealthStatus` is the answer.

**PageParser** is `parse_pasport_queue_html` and the HTML checker's reading of a
status, as operators.  A page is one flag for each kind of marker that the parser
looks for; which words make up a kind is a setting of the location.

**AvailabilityCheckers** is what happens behind `checker.check(location)`.  `pc`
is the await that `start`, `stop` or `check` is suspended at:

| `pc` | in the code |
|---|---|
| `closing`, `stopping` | the two awaits of `stop`, called for a start, a lost browser or the shutdown (`purpose`) |
| `starting`, `launching` | the two awaits of `start` |
| `opening`, `scripting` | the two awaits of `_new_context` |
| `loading`, `settling` | `goto`; the wait for known content |
| `selecting`, `polling` | `_select_service`; an iteration of `_wait_service_availability` |
| `reading`, `asking` | `content`; the status of the last navigation |
| `leaving` | the `finally` clause |
| `fetching` | the HTML checker's request |

Each of them may raise (`TryRaises` and its like), with or without a message that
says that the browser is gone.  `browser` tells a handle whose Chromium has died
from one that is connected; `drivers` and `contexts` count what runs outside the
process, whether a variable of the program refers to it or not.  `tab` is what
the page shows, and may change under the check: by a reload while a challenge is
shown, by the script of the form while its request for days is out.  `evidence`
is an observer's: all that the pages of this check have shown of slots.

**NotificationQueue** is the send queue.  A worker's `pc` is the await it is
suspended at, `creating` and `refreshing` being those of `_create_event` before and
after its commit; every `except` clause of `_send` is a path of its own, and every
database call may raise.  Delivery is counted at Telegram's side, so that a
request that raises may yet have been delivered.

**Subscriptions** is every write to `users` and `subscriptions`: one task for each
update, plus the send queue's `_mark_user_blocked`.  `task[t].at` is `reading` (the
user is selected, without a lock), `writing` (the first flush waits for SQLite's
write lock), `applying` (the second flush, under the lock), `telling` (calls to
Telegram, still under the lock, up to the middleware's commit).  `draft` is the
tables as the holder of the lock sees them; others read what was committed.
`overtaken` marks tasks whose read is stale.  The ORM writes only the attributes
that differ from what it has read, which `Net` says.

**NotificationService** extends it with the fan-out: two queries and the
hand-over, between which updates commit.  `always` and `ever` are an observer's
record of who could have been told.

**AlertDelivery** composes NotificationService with MonitoringService, of which
it instantiates the actions by name (`Service!...`) and replaces two: `Tells`
starts the cooldown and the fan-out, and `ToldOrRaised` is its return, after which
the loop goes on.  What is subscribed is no longer a variable that changes at
will, but follows from the table (`Watched`).  `owed` is an observer's: who could
have been told of the pending alert ever since it was committed.  The send queue
takes over where a message is put on it; it is checked by itself, for any
messages.

Names with an underscore (`Pause_NoLimitTest`) are mutated forms of the
definition they precede: plausible slips, kept to show which property would
notice them.  Nothing in the model uses them.

## 3. Runs

| Run | Instance | Shows |
|---|---|---|
| `refresh` | two locations that answer or throttle, delay 1, backoff and idle interval 2, fairness | no check of a cycle begins while the global throttle is in force (`RateLimitHonoured`); every location is checked for ever once throttling ends (`EveryLocationRefreshed`) |
| `alerts` | one location, two confirmations, one result for each branch of the state machine, failed commits, one restart | `AlertIsConfirmed`, `StatusIsLastEvidence`, `EveryOpeningIsTold`, and the refinement `OneAlertPerNoSlots` |
| `pacing` | one location, one result for each branch, every step failing, one restart, clocks outside the process, fairness of the task alone | the per-location backoff survives a restart (`ThrottledLeftAlone`), no failed commit or aborted cycle has one process ask twice within an interval (`AskedOncePerInterval`), idle probes are spaced, one process keeps the cooldown, the scheduler comes back to its next cycle whatever raises (`CyclesGoOn`) |
| `queue` | two messages to one user, two workers, two RetryAfters, two failed transactions, shutdown, one restart, fairness | `DeliveredAtMostOnce`, `SentIsDelivered`; what loses a message (`NothingLost`) or leaves a row behind (`PendingIsInHand`): the transaction that fails under it or the end of the process, and nothing else; `stop` returns and messages move |
| `taps` | one user, two locations, two updates at once, every operation, failures, restarts, fairness | taps are atomic, deletions total, subscribers active unless overtaken, the lock given back |
| `delivery` | one user, one location that opens and closes, one update at a time, an administrator, one restart | the composition refines MonitoringService (`MonitorRefined`); whoever could be told from the commit on is told, or the alert is lost in a way that `AlertsReachSubscribers` names; `EverySubscriberTold`, `NobodyElseTold` |
| `lifecycle` | two processes one after the other on one database, one location that answers or throttles, jitter 1, fairness | nothing is stopped under a task that uses it (`StoppedInOrder`), no plan on an unready database (`ReadyBeforeMonitoring`), shutdowns end (`ShutdownCompletes`) and no cycle begins in one (`ShutdownDescends`), `NoFalseAlarm`, `StallIsReported`, and monitoring inside the process is the one specified alone (`MonitoringAsSpecified`) |
| `checkers` | nine pages (one for each verdict of the parser, and pages with competing evidence), statuses none, 200, 403, 429, 503, one death of Chromium, one call that leaves something open, fairness | `AvailabilityIsShown`, `DriversAccountedFor`, `ContextsAccountedFor`; no call begins a check anew (`CallDescends`), checks end, a dead Chromium is replaced |

The other runs (`starve`, `dates`, `blocked`, `quick_start`) each show one
disagreement between code and text (section 6).

**Bounds.**  Locations share nothing but the throttle, the plan and its order,
for which two are enough; the alert properties are about one.  Two confirmations
are the least that can be counted wrongly; settings of one to five ticks give
both sides of every comparison.  One restart is enough to part memory from rows.
Two workers are enough for one to overtake the other at a re-queued message.  Two
updates of one user are what it takes to lose one of them; users do not interact
but through the lock.  The pages of `checkers` have every pair of evidence whose
order in the parser could matter; one death of Chromium can happen at every
await, and a second finds the checker as the first did.  `delivery` has one of
each: its state is a product of two specifications, and the theorems of section 4
cover any number.  In `lifecycle`, `MaxCrashes` is the number of processes, and two
are what it takes for one to find the rows of another; a jitter of one interval
gives sleeps of both lengths, and the threshold of the heartbeat is checked for
all settings by proof.  Its deadlock check is off because the process may stay
down for good.  The proofs do without all of these bounds.

**Fairness.**  asyncio runs a task that can run, and sleeps end: weak fairness of
the steps of the scheduler (`TaskRuns`), of each worker (`Work(w)`) and of each
update (`Handle(t)`).  That a task can run again is because the awaits end: SQLite
gives up waiting for a lock, aiogram and httpx have timeouts, and so have most calls
of Playwright.  `refresh` also needs that planning and committing succeed
now and then (`DatabaseServes`, strong fairness): a database that fails every
time would leave every location out.  In `checkers`, `CallEnds` says that a call
returns or raises, and `PollingEnds` that the deadline comes although the loop
could go on; a dead Chromium is replaced only if browser checks go on and a
start succeeds at times (strong fairness of `BeginBrowserCheck`,
`StartPlaywright`, `Launch`).  Nothing is assumed of users, of what Telegram
answers, or of what the site shows, except where a property names it.  In
`lifecycle`, main's steps, the scheduler's and time go on (weak fairness of
`MainSteps`, `SchedulerSteps`, `PassTime`), while nothing makes anybody start,
stop, probe or use the bot; `BeginShutdown` is among main's steps only once the
signal is there, since polling need not end.  Each guarded step of main is one
that returns by another component's property: `StopScheduler` by what `lifecycle`
itself checks, `StopQueue` by `StopReturns`, `CloseClients` by `ChecksEnd`.

## 4. Proofs

The theorems hold for any locations, results, messages, workers, users, pages,
statuses, settings and numbers of failures.  The assumptions are those that the
modules name at their constants: positive counts, inhabited sets, bounds that are
natural numbers.

* `MonitoringProofs`.  `MonitoringTypes`: rows, memory and position keep their
  types.  `ThrottleIsHonoured`: with a positive delay, no check begins under the
  throttle; its invariant `LimitRuledOut` says that where a check may begin, the
  limit has been looked at since it was last set.  With a delay of 0 nothing
  looks at the limit between two checks, and the theorem's hypothesis fails.
* `AlertsProofs`.  `AlertsAreConfirmed`, `StatusesAreGenuine`,
  `OpeningsAreTold`, `AlertsImplementPromise`: from one inductive invariant,
  `AlertsInv`.  A stored status says nothing of the past, so each conjunct ties
  the row to the answers recorded: the counter to the run of availability
  answers, the status (and, behind an ERROR, the previous one) to the last
  evidence, the armed flag to an unspent NO_SLOTS.
* `PacingProofs`.  `ThrottledAreLeftAlone`, `IdleProbesAreSpaced`,
  `AlertsAreSpaced`, `QuestionsAreSpaced`: the first three from `PacingInv`, which relates the clocks outside the process
  to what the code can compare.  `ThrottleInRow` says that a throttle which is not
  over is in the row, will be in force there for as long as the clock says, and that
  nothing planned or begun is about the location.  `AgeFromAsking` says that the age
  of the row is no more than the time since the site was asked, or that time is long
  enough, or the last answer was not recorded.  `CooldownInMemory` says that silence
  and remaining cooldown make up the whole of it, within one process.  The fourth
  needs `SpacedByTheSleep` on top of it: what remains of the sleep makes up for what the
  last question lacks of an interval, and a plan is made only when nothing remains.  A
  failed planning read may sleep for less than an interval, but follows a sleep.
  `ClocksOnlyWatch`: every behaviour with the clocks is one of MonitoringService.
* `QueueProofs`.  `NoDuplicates`, `SentRowsAreTrue`, `QueueTypes`: from
  `QueueInv`.  That a message was delivered at most once is not inductive: a
  worker about to send could have a twin.  `OneCopy` says that a message is in one
  place of the queue, or carried by one worker, or neither, and delivered only if
  neither; `Fresh` that what was not submitted is nowhere; `InHand` ties a
  worker's row to its message.
  `MessagesAreKept`, `PendingRowsAreHeld`: step by step, from
  `OwnRows` on top of `QueueInv`.  A worker that has put its message back still holds
  it while it cancels the row; `InCare` does not count that worker, or its next
  step would seem to lose the message.  `OwnRows` says that no two workers are on one
  row, that a row one is on is PENDING, and that a worker on none holds nothing.
* `SubscriptionProofs`.  `TogglesAreAtomic`, `DeletionsAreTotal`,
  `SubscribersStayActive`, `SubsTypes`: from `SubsInv`.  `Alone` is mutual
  exclusion; `Drafted` says that the draft differs from the tables only by what
  its own update does, which holds because nobody else commits meanwhile;
  `UpToDate` that a task which was not overtaken has read the row as it is.
  `UpdatesAreSerial`: a commit does to the tables what its update would do if it ran
  alone at that moment.  Transactions here are not serializable in general, since a
  task reads the user before it has the lock; `SerialInv` says why nothing but
  `is_active` suffers: a user once known stays known, the draft has the block mark that
  is committed, and the draft's subscriptions are computed under the lock.
* `DeliveryProofs`.  The fan-out by itself: `SubscribersAreTold`, `OnlySubscribersAreTold`: from
  `FanInv`, which bounds what was read from both sides by the observer's sets.
  `FanOutOnlyReads`: every behaviour with fan-outs is one of `Subscriptions`, so
  that the theorems about the tables hold beside them.
  In the scheduler task: `TaskFansOut` (the composition implements NotificationService, so
  that the theorems above hold in it), `AlertsAreDelivered` and
  `TaskRefinesMonitoring` (it implements MonitoringService, so that those of
  `MonitoringProofs` do): from `DeliveryInv`, by which a fan-out runs only inside the
  announcement that it belongs to, after its cooldown was started, and `owed` stays
  among those whom the fan-out's own observer has not ruled out.
* `LifecycleProofs`.  `ProcessKeepsMonitoring` (every step is one of
  MonitoringService, or invisible to it), `LifecycleTypes`, `ShutdownIsOrderly`,
  `MonitoringIsReady`, `NoAlarmBetweenCycles`: from `LifecycleInv`.  `Up` says what is
  up at each stage of main, and what the store must hold for the stage to have been
  reached; `Beating` that heartbeat and remaining sleep together stay within one
  interval and its jitter.  `NoAlarmBetweenCycles` needs a jitter of at most three
  intervals, which `config.py` does not demand.  `ThrottleIsHonouredInProcess` and
  `CyclesAreFiniteInProcess` carry theorems of MonitoringService over the refinement.
* `CheckersProofs`.  `CheckersTypes`, `DriversAreStopped`, `ContextsAreClosed`,
  `NoFalseAvailability`: from `CheckersInv`.  `Handles` says which of the handles
  is set at each await of `start` and `stop`, so that a driver is started only
  where none is in use; `Contexts` that the one context not left open is that of
  the check under way; `Verdicts` that what a check is about to answer, and what
  the page shows while it is looked at, is among the evidence.  The last theorem
  applies `Transition` to the result: with no evidence of slots a check never
  brings a location to AVAILABLE or POSSIBLY_AVAILABLE.

**Why things end.**  That something must happen is out of the prover's reach.  What is
proved of it for every instance is the safety part: nobody waits for a thing that
cannot come, and every step goes down a rank.  The definitions stand at the end
of their modules.  `CallDescends` and `ShutdownDescends` are among the properties of
their runs, since they say more than that the end comes: no check is begun again after
a lost browser, and no cycle begins in a shutdown.  The runs leave the others out, for
there TLC checks the liveness property itself; TLC found no counterexample to them on
the instances named here, and can be asked again by adding them to those configurations.

| Theorem | Property | Safety part of | Instance |
|---|---|---|---|
| `NobodyWaitsForEver` | `NobodyIsStranded`: after `stop` no worker waits at an empty queue | `StopReturns` | `queue` |
| `StopIsFinite` | `StoppingDescends`: after `stop` each worker has six steps left at most | `StopReturns` | `queue` |
| `HoldersFinish` | `HolderFinishes`: the holder of the write lock gives it back in two steps, and waits for nobody | `LockGivenBack` | `taps` |
| `ChecksAreFinite` | `CallDescends`: a call of a checker has fourteen awaits at most | `ChecksEnd` | `checkers` |
| `CyclesAreFinite` | `CycleDescends`: a cycle has four steps for each planned location, and one | `CyclesGoOn` | `refresh`, `lifecycle` |
| `ShutdownIsFinite` | `ShutdownDescends`: six stages, each passed once, and no cycle begins among them | `ShutdownCompletes` | `lifecycle` |

The first is not inductive: from two workers and one sentinel left, a step leads to a
worker that is stranded.  `EnoughToLeaveBy` counts: there are at least as many
sentinels in the queue as workers waiting at it.  `stop` puts in one for each worker; a
worker that takes a sentinel leaves for good, and one that takes a message looks at the
stop event before it would wait again.  What the last step to liveness adds is fairness
alone: that the step which goes down is taken.

Only model-checked: the liveness properties (`EveryLocationRefreshed`, `CyclesGoOn`,
`StopReturns`, `QueueMoves`, `LockGivenBack`, `ChecksEnd`, `LostBrowserReplaced`,
`ShutdownCompletes`, `StallIsReported`), as a whole.  The type invariants of monitoring,
of the checkers and of the process are proved (`MonitoringTypes`, `CheckersTypes`,
`LifecycleTypes`) and not among the runs' properties.  Every invariant and every action
property of a passing run is a theorem.

## 5. Not modelled

* Which words are markers, which option of the form is chosen, how dates are
  printed; wording, keyboards, logging, settings, the payload of `/health`; names and
  languages of users, names and addresses of locations.  Diagnostic scripts are run
  by hand.
* Of the schema: what the migration creates but for the tables as a whole and the
  one column that it lacks; the settings of the engine and its sessions.
* The two seconds before the scheduler's first cycle, which are less than a tick.
* Updates that polling leaves under way when the engine is disposed of: to the
  tables each is a transaction that fails, which Subscriptions has.
* `TELEGRAM_SEND_CONCURRENCY` as a semaphore: there are as many workers as
  permits, so it never holds one back.
* The checkers, the queue and the process in one model: MonitoringService takes
  any set of results, NotificationQueue any messages, and what one component needs
  of the next is a property of the latter.

## 6. Where code and documents disagree

Each of these is a run that TLC refutes, with the counterexample as the evidence.

| Run | Said | Done |
|---|---|---|
| `starve` | "Subscribed cities every cycle" (`monitoring/service.py:31`) | a location behind a throttled one is never reached |
| `dates` | dates are "from the last AVAILABLE check" (`database/models.py:123`) | an AVAILABLE check without dates keeps older ones |
| `blocked` | `is_blocked` is "bot blocked by user" (`docs/architecture.md:296`) | it is never cleared: who comes back is told "Subscribed" and passed over by every alert |
| `quick_start` | `alembic upgrade head`, then `docsqueuemonitor --seed` (the repository's `README.md:24-25`) | `--seed` raises: the migration creates `locations` without `last_available_dates`, and only `run_bot` adds it (`main.py:48`, `main.py:188`) |

Seen while reading, without a run:

* "Skip all checks until this UTC time" (`monitoring/runtime.py:17`): with
  `INTER_CHECK_DELAY_SECONDS=0` the limit is not looked at between two checks, and
  the rest of the cycle goes on (`monitoring/service.py:245`).
* The health endpoint excuses everything, a database or a disk out of order
  included, as long as no cycle has completed (`health/server.py:36`): a monitor that
  never completes one is healthy for ever.
* A check that raises is only logged: neither the failure counter nor the
  administrators learn of it (`monitoring/service.py:264`).
* Polling that does not end within 15 seconds is cancelled, and not awaited, before
  the engine is disposed of (`main.py:175`).
* A `getDays` that is refused while the form stops loading is answered NO_SLOTS
  (`monitoring/checkers/browser.py:436`).
* "AVAILABLE --> POSSIBLY_AVAILABLE: ambiguous" (`docs/architecture.md:560`): once
  there are enough confirmations, a mere hint makes or keeps a location AVAILABLE
  (`monitoring/state_machine.py:111`).
* Admin alerts have "dedup + cooldown" (`docs/architecture.md:537`); from the fifth
  failure in a row on, every failed check alerts (`monitoring/state_machine.py:70`).
* The docstring of `transition` says of armed that the location "has not since
  entered UNKNOWN/ERROR/DISABLED"; a 429 that looks through an ERROR arms again.
* The alert cooldown is in memory: a restart forgets it (`docs/architecture.md:496`).
* "Subscribed" is answered before the commit, which may fail; a deletion that
  overtakes a tap leaves a subscriber who is inactive.
* The HTML checker's 429 has another reason than the browser's, so neither the
  throttle nor the backoff hears of it (`monitoring/checkers/html.py:76`).
* `page.evaluate` and `new_context` have no timeout; one that hangs stops all
  monitoring.
* The "bounded async send queue" (`docs/architecture.md:66`) is unbounded;
  `MAX_CONCURRENT_CHECKS` is used nowhere; the default of two confirmations is one
  in `config.py`; the "shared single browser context" (`docs/architecture.md:604`)
  is a new context for each check.

## 7. Plan

1. Progress under fairness is left to TLC; what could still be proved towards it is
   the safety part of `EveryLocationRefreshed` and `QueueMoves`: ranks over the plans of
   several cycles, and over the backlog of a queue that has not been stopped.
2. AvailabilityCheckers composed with MonitoringService, the checkers' results in the
   place of the set `Results`.  The product of the two has too many states for a run
   that says more than its parts; a theorem would be the way to it: an alert rests on
   pages that have shown slots.
