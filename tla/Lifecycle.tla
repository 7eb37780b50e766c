------------------------------ MODULE Lifecycle ------------------------------
(***************************************************************************)
(* The process around the monitoring service: run_bot brings the database, *)
(* Chromium, the send queue, the scheduler and the health server up one    *)
(* after the other, waits for a signal or for polling to end, and takes    *)
(* them down again; the health server reports on the scheduler meanwhile.  *)
(*                                                                         *)
(* The main coroutine and the scheduler task interleave at every await.    *)
(* One process runs at a time; Restart of MonitoringService is its end,    *)
(* after which the next one may be started on the same database.           *)
(***************************************************************************)
EXTENDS MonitoringService

VARIABLES
  main,       \* which await run_bot is suspended at
  signal,     \* stop_event: a signal was received, or the shutdown has begun
  running,    \* the task of the MonitoringScheduler is alive
  workers,    \* so are those of the NotificationQueue
  chromium,   \* a Chromium this process has launched is open
  heartbeat,  \* ticks since last_cycle_finished_at, or Never
  failed,     \* last_cycle_error is set
  probe,      \* the heartbeat a pending GET /health has read, or NoProbe
  schema,     \* what the database has been migrated to
  seeded,     \* the rows of countries and locations are there
  seeding     \* how the last docsqueuemonitor --seed ended

process  == <<main, signal, running, workers, chromium>>
health   == <<heartbeat, failed, probe>>
store    == <<schema, seeded, seeding>>
lifeVars == <<vars, process, health, store>>

\* (Names with an underscore are mutated forms of the definition they precede:
\* plausible slips, kept to show which property would notice them.)
StaleAfter_OneInterval == Interval

\* monitoring_stale_after_seconds
StaleAfter == 4 * Interval

Never   == -1
NoProbe == -2

\* Ages above StaleAfter pass the same tests.
Ages == Never..(StaleAfter + 1)

BootStages == {"migrating", "seeding", "connecting", "launching", "binding"}
StopStages ==
  {"stopping", "draining", "closing", "unbinding", "hanging_up", "disposing"}
Stages == {"exited", "serving"} \cup BootStages \cup StopStages

LifecycleTypeOK ==
  /\ TypeOK
  /\ main \in Stages
  /\ signal \in BOOLEAN /\ running \in BOOLEAN /\ workers \in BOOLEAN
  /\ chromium \in BOOLEAN
  /\ heartbeat \in Ages /\ failed \in BOOLEAN
  /\ probe \in Ages \cup {NoProbe}
  /\ schema \in {"none", "initial", "current"}
  /\ seeded \in BOOLEAN
  /\ seeding \in {"not_run", "done", "raised"}

LifecycleInit ==
  /\ Init /\ subscribed = {}
  /\ main = "exited" /\ signal = FALSE
  /\ running = FALSE /\ workers = FALSE /\ chromium = FALSE
  /\ heartbeat = Never /\ failed = FALSE /\ probe = NoProbe
  /\ schema = "none" /\ seeded = FALSE /\ seeding = "not_run"

-----------------------------------------------------------------------------
(* Coming up *)

\* The main coroutine goes on to its next await.
Reaches(stage) ==
  /\ main' = stage
  /\ UNCHANGED <<vars, health>>

\* docsqueuemonitor --run
Launch ==
  /\ main = "exited" /\ crashes < MaxCrashes
  /\ Reaches("migrating")
  /\ seeding' = "not_run"
  /\ UNCHANGED <<signal, running, workers, chromium, schema, seeded>>

\* ensure_runtime_schema; without the tables its ALTER raises.
Migrate ==
  /\ main = "migrating" /\ schema # "none"
  /\ Reaches("seeding")
  /\ schema' = "current"
  /\ UNCHANGED <<signal, running, workers, chromium, seeded, seeding>>

Seed_Uncommitted ==
  /\ main = "seeding"
  /\ Reaches("connecting")
  /\ UNCHANGED <<signal, running, workers, chromium, store>>

Seed_ResetsStatus ==
  /\ main = "seeding"
  /\ main' = "connecting"
  /\ row' = [l \in Locations |-> NewRow]
  /\ seeded' = TRUE
  /\ UNCHANGED <<memory, wake_in, subscribed, phase, cycle, crashes, health,
                 signal, running, workers, chromium, schema, seeding>>

\* seed_countries_and_locations and its commit: rows that exist keep what
\* monitoring has stored in them.
Seed ==
  /\ main = "seeding"
  /\ Reaches("connecting")
  /\ seeded' = TRUE
  /\ UNCHANGED <<signal, running, workers, chromium, schema, seeding>>

\* bot.get_me; the signal handlers are installed next.
Connect ==
  /\ main = "connecting"
  /\ Reaches("launching")
  /\ UNCHANGED <<signal, running, workers, chromium, store>>

\* browser.start, after which the queue and, unless it is switched off, the
\* scheduler are started at once.  The scheduler's two seconds before its
\* first cycle are less than a tick.
StartTasks ==
  /\ main = "launching"
  /\ Reaches("binding")
  /\ chromium' = TRUE /\ workers' = TRUE
  /\ running' \in BOOLEAN
  /\ UNCHANGED <<signal, store>>

Bind_ClearsStop ==
  /\ main = "binding"
  /\ Reaches("serving")
  /\ signal' = FALSE
  /\ UNCHANGED <<running, workers, chromium, store>>

\* start_health_server, and the polling of Telegram is a task of its own.
Bind ==
  /\ main = "binding"
  /\ Reaches("serving")
  /\ UNCHANGED <<signal, running, workers, chromium, store>>

-----------------------------------------------------------------------------
(* Going down *)

RequestStop ==
  /\ main \in {"launching", "binding", "serving"} /\ ~signal
  /\ signal' = TRUE
  /\ UNCHANGED <<vars, health, store, main, running, workers, chromium>>

\* asyncio.wait returns: for the signal, or because polling has ended, which
\* it may at any time; stop_event is set in either case.
BeginShutdown ==
  /\ main = "serving"
  /\ Reaches("stopping")
  /\ signal' = TRUE
  /\ UNCHANGED <<running, workers, chromium, store>>

StopScheduler_NotAwaited ==
  /\ main = "stopping"
  /\ Reaches("draining")
  /\ UNCHANGED <<signal, running, workers, chromium, store>>

\* scheduler.stop waits for the cycle under way, not only for its check.
StopScheduler ==
  /\ main = "stopping" /\ phase = "sleeping"
  /\ Reaches("draining")
  /\ running' = FALSE
  /\ UNCHANGED <<signal, workers, chromium, store>>

\* notify_queue.stop returns when its workers have.
StopQueue ==
  /\ main = "draining"
  /\ Reaches("closing")
  /\ workers' = FALSE
  /\ UNCHANGED <<signal, running, chromium, store>>

\* browser.stop and http_client.aclose
CloseClients ==
  /\ main = "closing"
  /\ Reaches("unbinding")
  /\ chromium' = FALSE
  /\ UNCHANGED <<signal, running, workers, store>>

\* stop_health_server; what is being answered is cut off.
Unbind ==
  /\ main = "unbinding"
  /\ main' = "hanging_up"
  /\ probe' = NoProbe
  /\ UNCHANGED <<vars, heartbeat, failed, signal, running, workers, chromium, store>>

\* Polling ends, or is cancelled when it has not within 15 seconds.
HangUp ==
  /\ main = "hanging_up"
  /\ Reaches("disposing")
  /\ UNCHANGED <<signal, running, workers, chromium, store>>

\* The process ends, and with it everything it kept in memory.
Exit ==
  /\ Restart
  /\ main' = "exited" /\ signal' = FALSE
  /\ running' = FALSE /\ workers' = FALSE /\ chromium' = FALSE
  /\ heartbeat' = Never /\ failed' = FALSE /\ probe' = NoProbe
  /\ UNCHANGED store

Dispose == main = "disposing" /\ Exit

\* Nothing in run_bot catches what its own awaits raise: asyncio.run cancels
\* the other tasks and the process ends.
MainRaises ==
  main \in BootStages \cup {"closing", "unbinding", "hanging_up", "disposing"} /\ Exit

Killed == main # "exited" /\ Exit

-----------------------------------------------------------------------------
(* The scheduler task *)

MayCycle_IgnoresStop == running

\* _run looks at its stop event before each cycle.
MayCycle == running /\ main # "stopping"

BeginCycle ==
  /\ MayCycle
  /\ StartCycle
  /\ UNCHANGED <<process, health, store>>

\* check_all_active returns, planned or skipped.
CompleteCycle ==
  /\ (MayCycle /\ SkipCycle) \/ EndCycle \/ AbortCycle
  /\ heartbeat' = 0 /\ failed' = FALSE
  /\ UNCHANGED <<process, probe, store>>

FailCycle_Beats ==
  /\ MayCycle
  /\ PlanFails
  /\ heartbeat' = 0 /\ failed' = TRUE
  /\ UNCHANGED <<process, probe, store>>

\* check_all_active raises.
FailCycle ==
  /\ MayCycle
  /\ PlanFails
  /\ failed' = TRUE
  /\ UNCHANGED <<process, heartbeat, probe, store>>

\* A check launches a Chromium when there is none.
AskSite ==
  /\ \E l \in Locations : BeginCheck(l)
  /\ chromium' = TRUE
  /\ UNCHANGED <<main, signal, running, workers, health, store>>

Proceed ==
  /\ Pause \/ FinishCheck \/ Announce
  /\ UNCHANGED <<process, health, store>>

-----------------------------------------------------------------------------
(* The surroundings *)

Older(age) == IF age < 0 THEN age ELSE smaller(age + 1, StaleAfter + 1)

\* The scheduler's sleep is over, or ended by its stop event.
Awake == running /\ phase = "sleeping" /\ (wake_in = 0 \/ main = "stopping")

\* A task that is awake runs before the next tick.
PassTime ==
  /\ ~Awake
  /\ Tick
  /\ heartbeat' = Older(heartbeat) /\ probe' = Older(probe)
  /\ UNCHANGED <<process, failed, store>>

\* Users are only heard while the bot polls, and what they have asked for may
\* be handled until the process ends.
UserActs ==
  /\ main \in {"serving"} \cup StopStages
  /\ ChangeSubscriptions
  /\ UNCHANGED <<process, health, store>>

\* GET /health: the heartbeat is read before check_database is awaited.
ProbeArrives ==
  /\ main \in {"serving", "stopping", "draining", "closing", "unbinding"}
  /\ probe = NoProbe
  /\ probe' = heartbeat
  /\ UNCHANGED <<vars, process, heartbeat, failed, store>>

ProbeAnswered ==
  /\ probe # NoProbe
  /\ probe' = NoProbe
  /\ UNCHANGED <<vars, process, heartbeat, failed, store>>

\* The status the pending probe is answered with, when the database and the
\* disk are found in order or not.  Nothing is wrong before the first cycle.
HealthStatus(inOrder) ==
  IF \/ inOrder /\ probe # Never /\ probe <= StaleAfter
     \/ heartbeat = Never
  THEN 200 ELSE 503

\* alembic upgrade head creates the tables, without last_available_dates.
Upgrade ==
  /\ schema = "none"
  /\ schema' = "initial"
  /\ UNCHANGED <<vars, process, health, seeded, seeding>>

\* docsqueuemonitor --seed, which does not call ensure_runtime_schema.  Beside
\* a process that serves it would find every row there and change nothing.
SeedOnly ==
  /\ main = "exited"
  /\ seeded' = (seeded \/ schema = "current")
  /\ seeding' = IF schema = "current" THEN "done" ELSE "raised"
  /\ UNCHANGED <<vars, process, health, schema>>

MainSteps ==
  \/ Migrate \/ Seed \/ Connect \/ StartTasks \/ Bind
  \/ signal /\ BeginShutdown
  \/ StopScheduler \/ StopQueue \/ CloseClients \/ Unbind \/ HangUp \/ Dispose
  \/ MainRaises

SchedulerSteps == BeginCycle \/ CompleteCycle \/ FailCycle \/ AskSite \/ Proceed

LifecycleNext ==
  \/ Launch \/ MainSteps \/ RequestStop \/ BeginShutdown \/ Killed
  \/ SchedulerSteps \/ PassTime
  \/ UserActs \/ ProbeArrives \/ ProbeAnswered
  \/ Upgrade \/ SeedOnly

LifecycleSpec == LifecycleInit /\ [][LifecycleNext]_lifeVars

(***************************************************************************)
(* asyncio runs main and the scheduler when they can run, and sleeps and   *)
(* checks end.  Nothing makes anybody start, stop, probe or use the bot.   *)
(***************************************************************************)
FairLifecycleSpec ==
  /\ LifecycleSpec
  /\ WF_lifeVars(MainSteps) /\ WF_lifeVars(SchedulerSteps) /\ WF_lifeVars(PassTime)

-----------------------------------------------------------------------------
(* Properties *)

\* The monitoring service inside the process behaves as it was specified and
\* checked alone: booting, seeding and shutting down neither touch the rows
\* nor do anything to a cycle but end the process under it.
MonitoringAsSpecified == Spec

\* "shutdown_started" is followed by the end of the process, whether a signal
\* or the end of polling began it, and a signal during the boot by a shutdown:
\* the cycle that scheduler.stop waits for ends, whatever its checks do.
ShutdownCompletes == signal ~> main = "exited"

\* Shutting down takes nothing from under a task that is alive: alerts go to
\* a queue that has workers, and nobody launches a Chromium that was closed.
StoppedInOrder ==
  /\ running => workers /\ chromium
  /\ phase # "sleeping" => running
  /\ main \in {"unbinding", "hanging_up", "disposing"} => ~chromium

\* No cycle is planned before the tables have every column the queries name
\* and the locations are there.
ReadyBeforeMonitoring == phase # "sleeping" => schema = "current" /\ seeded

\* "Heartbeat for healthchecks": a monitor that is asleep after a cycle that
\* ended well is not reported unavailable while the database and the disk are
\* in order, except to a probe that a cycle has overtaken.
NoFalseAlarm ==
  running /\ phase = "sleeping" /\ ~failed /\ probe = heartbeat
    => HealthStatus(TRUE) = 200

\* One whose cycles raise for ever ends up being reported: to every probe,
\* unless no cycle has ever completed, which counts as a first boot.
StallIsReported ==
  <>[](running /\ failed) =>
    <>[](probe = heartbeat /\ probe # Never => HealthStatus(TRUE) = 503)

\* README, "Quick start": once alembic has upgraded the database, --seed
\* inserts the locations.
SeedAfterUpgrade == [][SeedOnly /\ schema # "none" => seeding' = "done"]_lifeVars

-----------------------------------------------------------------------------
(* Why a shutdown ends, as far as safety can say *)

\* How many awaits of run_bot are left in a shutdown.
StagesLeft ==
  [s \in StopStages \cup {"exited"} |->
     CASE s = "stopping" -> 6 [] s = "draining" -> 5 [] s = "closing" -> 4
       [] s = "unbinding" -> 3 [] s = "hanging_up" -> 2 [] s = "disposing" -> 1
       [] s = "exited" -> 0]

\* A shutdown goes through its stages once, and no cycle begins in it: what
\* scheduler.stop waits for is one cycle at most, which ends (CycleDescends).
ShutdownDescends ==
  [][(main \in StopStages) =>
       /\ main' \in StopStages \cup {"exited"}
       /\ main' = main \/ StagesLeft[main'] < StagesLeft[main]
       /\ phase = "sleeping" => phase' = "sleeping"]_lifeVars
=============================================================================
