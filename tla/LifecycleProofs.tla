--------------------------- MODULE LifecycleProofs ---------------------------
(***************************************************************************)
(* Proofs about the process, for every set of locations and results, every *)
(* value of the settings and any number of restarts.                       *)
(***************************************************************************)
EXTENDS Lifecycle, MonitoringProofs

USE SettingsAssumption

-----------------------------------------------------------------------------
(* The monitoring service inside the process *)

\* Each step of the process is one of the monitoring service, or none.
LEMMA MonitoringStep ==
  ASSUME [LifecycleNext]_lifeVars
  PROVE  [Next]_vars
<1>1. CASE \/ Launch \/ Migrate \/ Seed \/ Connect \/ StartTasks \/ Bind \/ RequestStop
           \/ BeginShutdown \/ StopScheduler \/ StopQueue \/ CloseClients \/ Unbind \/ HangUp
  BY <1>1 DEF Launch, Migrate, Seed, Connect, StartTasks, Bind, RequestStop, BeginShutdown,
              StopScheduler, StopQueue, CloseClients, Unbind, HangUp, Reaches
<1>2. CASE Dispose \/ MainRaises \/ Killed
  BY <1>2 DEF Dispose, MainRaises, Killed, Exit, Next, Surroundings
<1>3. CASE BeginCycle \/ CompleteCycle \/ FailCycle \/ AskSite
  BY <1>3 DEF BeginCycle, CompleteCycle, FailCycle, AskSite, Next, Schedule
<1>4. CASE Proceed
  BY <1>4 DEF Proceed, Next, Schedule
<1>5. CASE PassTime \/ UserActs
  BY <1>5 DEF PassTime, UserActs, Next, Surroundings
<1>6. CASE ProbeArrives \/ ProbeAnswered \/ Upgrade \/ SeedOnly \/ UNCHANGED lifeVars
  BY <1>6 DEF ProbeArrives, ProbeAnswered, Upgrade, SeedOnly, lifeVars
<1>7. QED
  BY <1>1, <1>2, <1>3, <1>4, <1>5, <1>6 DEF LifecycleNext, MainSteps, SchedulerSteps

\* What is proved of the monitoring service alone holds of it in the process:
\* nothing run_bot or --seed does is visible to it, but the end of a process.
THEOREM ProcessKeepsMonitoring == LifecycleSpec => MonitoringAsSpecified
<1>1. LifecycleInit => Init
  BY DEF LifecycleInit
<1>2. [LifecycleNext]_lifeVars => [Next]_vars
  BY MonitoringStep
<1>3. QED
  BY <1>1, <1>2, PTL DEF LifecycleSpec, MonitoringAsSpecified, Spec

-----------------------------------------------------------------------------
(* Type correctness *)

LEMMA FirstAges == Never \in Ages /\ 0 \in Ages
BY DEF Ages, Never, StaleAfter

LEMMA AgesGrow ==
  ASSUME NEW age \in Ages \cup {NoProbe}
  PROVE  /\ Older(age) \in Ages \cup {NoProbe}
         /\ age \in Ages => Older(age) \in Ages
BY DEF Older, Ages, NoProbe, Never, StaleAfter, smaller

LEMMA LifecycleTypeStep ==
  ASSUME LifecycleTypeOK, [LifecycleNext]_lifeVars
  PROVE  LifecycleTypeOK'
<1> USE DEF LifecycleTypeOK, Stages, BootStages, StopStages, process, health, store,
            Ages, NoProbe, Never, StaleAfter
<1>1. TypeOK'
  BY MonitoringStep, TypeStep
<1>2. Never \in Ages /\ 0 \in Ages
  BY FirstAges
<1>3. CASE Launch
  BY <1>1, <1>3 DEF Launch, Reaches
<1>4. CASE Migrate
  BY <1>1, <1>4 DEF Migrate, Reaches
<1>5. CASE Seed
  BY <1>1, <1>5 DEF Seed, Reaches
<1>6. CASE Connect
  BY <1>1, <1>6 DEF Connect, Reaches
<1>7. CASE StartTasks
  BY <1>1, <1>7 DEF StartTasks, Reaches
<1>8. CASE Bind
  BY <1>1, <1>8 DEF Bind, Reaches
<1>9. CASE RequestStop
  BY <1>1, <1>9 DEF RequestStop
<1>10. CASE BeginShutdown
  BY <1>1, <1>10 DEF BeginShutdown, Reaches
<1>11. CASE StopScheduler
  BY <1>1, <1>11 DEF StopScheduler, Reaches
<1>12. CASE StopQueue
  BY <1>1, <1>12 DEF StopQueue, Reaches
<1>13. CASE CloseClients
  BY <1>1, <1>13 DEF CloseClients, Reaches
<1>14. CASE Unbind
  BY <1>1, <1>14 DEF Unbind
<1>15. CASE HangUp
  BY <1>1, <1>15 DEF HangUp, Reaches
<1>16. CASE Dispose \/ MainRaises \/ Killed
  BY <1>1, <1>2, <1>16 DEF Dispose, MainRaises, Killed, Exit
<1>17. CASE BeginCycle
  BY <1>1, <1>17 DEF BeginCycle
<1>18. CASE CompleteCycle
  <2>1. heartbeat' = 0 /\ failed' = FALSE /\ UNCHANGED <<process, probe, store>>
    BY <1>18 DEF CompleteCycle
  <2>2. heartbeat' \in Ages /\ failed' \in BOOLEAN
    BY <1>2, <2>1
  <2>3. /\ main' \in Stages
        /\ signal' \in BOOLEAN /\ running' \in BOOLEAN /\ workers' \in BOOLEAN
        /\ chromium' \in BOOLEAN
    BY <2>1
  <2>4. /\ probe' \in Ages \cup {NoProbe}
        /\ schema' \in {"none", "initial", "current"} /\ seeded' \in BOOLEAN
        /\ seeding' \in {"not_run", "done", "raised"}
    BY <2>1
  <2>5. QED
    BY <1>1, <2>2, <2>3, <2>4
<1>19. CASE FailCycle
  BY <1>1, <1>19 DEF FailCycle
<1>20. CASE AskSite
  BY <1>1, <1>20 DEF AskSite
<1>21. CASE Proceed
  BY <1>1, <1>21 DEF Proceed
<1>22. CASE PassTime
  BY <1>1, <1>22, AgesGrow DEF PassTime
<1>23. CASE UserActs
  BY <1>1, <1>23 DEF UserActs
<1>24. CASE ProbeArrives
  BY <1>1, <1>24 DEF ProbeArrives
<1>25. CASE ProbeAnswered
  BY <1>1, <1>25 DEF ProbeAnswered
<1>26. CASE Upgrade
  BY <1>1, <1>26 DEF Upgrade
<1>27. CASE SeedOnly
  BY <1>1, <1>27 DEF SeedOnly
<1>28. CASE UNCHANGED lifeVars
  BY <1>1, <1>28 DEF lifeVars
<1>29. QED
  BY <1>3, <1>4, <1>5, <1>6, <1>7, <1>8, <1>9, <1>10, <1>11, <1>12, <1>13,
     <1>14, <1>15, <1>16, <1>17, <1>18, <1>19, <1>20, <1>21, <1>22, <1>23,
     <1>24, <1>25, <1>26, <1>27, <1>28
  DEF LifecycleNext, MainSteps, SchedulerSteps

\* The stages of main, the tasks, the heartbeat and the store are well typed.
THEOREM LifecycleTypes == LifecycleSpec => []LifecycleTypeOK
<1>1. LifecycleInit => LifecycleTypeOK
  BY TypeInit, FirstAges DEF LifecycleInit, LifecycleTypeOK, Stages
<1>2. LifecycleTypeOK /\ [LifecycleNext]_lifeVars => LifecycleTypeOK'
  BY LifecycleTypeStep
<1>3. QED
  BY <1>1, <1>2, PTL DEF LifecycleSpec

-----------------------------------------------------------------------------
(* What is open while somebody uses it *)

\* How far main has come tells what is up, and what the store holds.
Up ==
  /\ main \in {"seeding", "connecting", "launching", "binding", "serving"} \cup StopStages
       => schema = "current"
  /\ main \in {"connecting", "launching", "binding", "serving"} \cup StopStages => seeded
  /\ running => main \in {"binding", "serving", "stopping"}
  /\ main \in {"binding", "serving", "stopping"} => workers /\ chromium
  /\ main \in {"unbinding", "hanging_up", "disposing"} => ~chromium
  /\ phase # "sleeping" => running
  /\ main \in {"exited"} \cup (BootStages \ {"binding"}) => heartbeat = Never

\* The wait after a cycle that ended well is over before its heartbeat is old.
Beating ==
  running /\ phase = "sleeping" /\ ~failed
    => heartbeat = Never \/ heartbeat + wake_in <= Interval + Jitter

LifecycleInv == LifecycleTypeOK /\ Up /\ Beating

\* A cycle that ends has the scheduler sleep as long as the loop says.
LEMMA CycleSleeps ==
  ASSUME CompleteCycle
  PROVE  phase' = "sleeping" /\ \E extra \in 0..Jitter : wake_in' = Interval + extra
BY DEF CompleteCycle, SkipCycle, EndCycle, AbortCycle, Rests, Asleep

LEMMA FailSleeps ==
  ASSUME FailCycle
  PROVE  phase' = "sleeping"
BY DEF FailCycle, PlanFails, Rests, Asleep

LEMMA ProceedInCycle ==
  ASSUME Proceed
  PROVE  phase # "sleeping" /\ phase' # "sleeping"
BY DEF Proceed, Pause, FinishCheck, CheckCommits, CommitFails, CheckRaises, Announce,
       NotifySubscribers, NotifyFails, SkipNotify, AlertAdmins, NothingToTell, Onward

LEMMA UpStep ==
  ASSUME LifecycleTypeOK, Up, [LifecycleNext]_lifeVars
  PROVE  Up'
<1> USE DEF LifecycleTypeOK, Up, BootStages, StopStages, process, health, store, vars
<1>1. CASE Launch
  BY <1>1 DEF Launch, Reaches
<1>2. CASE Migrate
  BY <1>2 DEF Migrate, Reaches
<1>3. CASE Seed
  BY <1>3 DEF Seed, Reaches
<1>4. CASE Connect
  BY <1>4 DEF Connect, Reaches
<1>5. CASE StartTasks
  BY <1>5 DEF StartTasks, Reaches
<1>6. CASE Bind
  BY <1>6 DEF Bind, Reaches
<1>7. CASE RequestStop
  BY <1>7 DEF RequestStop
<1>8. CASE BeginShutdown
  BY <1>8 DEF BeginShutdown, Reaches
<1>9. CASE StopScheduler
  BY <1>9 DEF StopScheduler, Reaches
<1>10. CASE StopQueue
  BY <1>10 DEF StopQueue, Reaches
<1>11. CASE CloseClients
  BY <1>11 DEF CloseClients, Reaches
<1>12. CASE Unbind
  BY <1>12 DEF Unbind
<1>13. CASE HangUp
  BY <1>13 DEF HangUp, Reaches
<1>14. CASE Dispose \/ MainRaises \/ Killed
  BY <1>14 DEF Dispose, MainRaises, Killed, Exit, Restart, Asleep
<1>15. CASE BeginCycle
  BY <1>15 DEF BeginCycle, MayCycle
<1>16. CASE CompleteCycle
  <2>1. /\ heartbeat' = 0 /\ UNCHANGED <<process, store>> /\ phase' = "sleeping"
        /\ MayCycle \/ phase # "sleeping"
    BY <1>16, CycleSleeps DEF CompleteCycle, EndCycle, AbortCycle
  <2>2. QED
    BY <2>1 DEF MayCycle
<1>17. CASE FailCycle
  BY <1>17, FailSleeps DEF FailCycle
<1>18. CASE AskSite
  BY <1>18 DEF AskSite, BeginCheck
<1>19. CASE Proceed
  BY <1>19, ProceedInCycle DEF Proceed
<1>20. CASE PassTime
  BY <1>20 DEF PassTime, Tick, cycle, Older, Never
<1>21. CASE UserActs
  BY <1>21 DEF UserActs, ChangeSubscriptions
<1>22. CASE ProbeArrives
  BY <1>22 DEF ProbeArrives
<1>23. CASE ProbeAnswered
  BY <1>23 DEF ProbeAnswered
<1>24. CASE Upgrade
  BY <1>24 DEF Upgrade
<1>25. CASE SeedOnly
  BY <1>25 DEF SeedOnly
<1>26. CASE UNCHANGED lifeVars
  BY <1>26 DEF lifeVars
<1>27. QED
  BY <1>1, <1>2, <1>3, <1>4, <1>5, <1>6, <1>7, <1>8, <1>9, <1>10, <1>11, <1>12,
     <1>13, <1>14, <1>15, <1>16, <1>17, <1>18, <1>19, <1>20, <1>21, <1>22,
     <1>23, <1>24, <1>25, <1>26
  DEF LifecycleNext, MainSteps, SchedulerSteps

\* The heartbeat of a monitor asleep is no older than what it has slept.
LEMMA BeatingStep ==
  ASSUME LifecycleTypeOK, Up, Beating, [LifecycleNext]_lifeVars
  PROVE  Beating'
<1> USE DEF Beating
<1>1. wake_in \in Nat /\ heartbeat \in Ages
  BY DEF LifecycleTypeOK, TypeOK
<1>2. CASE \/ Launch \/ Migrate \/ Seed \/ Connect \/ StartTasks \/ Bind \/ RequestStop
           \/ BeginShutdown \/ StopScheduler \/ StopQueue \/ CloseClients \/ Unbind \/ HangUp
  <2>1. UNCHANGED <<phase, wake_in, heartbeat, failed>>
    BY <1>2 DEF Launch, Migrate, Seed, Connect, StartTasks, Bind, RequestStop, BeginShutdown,
                StopScheduler, StopQueue, CloseClients, Unbind, HangUp, Reaches, vars, health
  <2>2. running' => running \/ heartbeat = Never
    <3>1. CASE StartTasks
      BY <3>1 DEF StartTasks, Up, BootStages
    <3>2. CASE ~StartTasks
      BY <1>2, <3>2
      DEF Launch, Migrate, Seed, Connect, Bind, RequestStop, BeginShutdown,
          StopScheduler, StopQueue, CloseClients, Unbind, HangUp
    <3>3. QED
      BY <3>1, <3>2
  <2>3. QED
    BY <2>1, <2>2
<1>3. CASE Dispose \/ MainRaises \/ Killed
  BY <1>3 DEF Dispose, MainRaises, Killed, Exit
<1>4. CASE BeginCycle
  BY <1>4 DEF BeginCycle, StartCycle
<1>5. CASE CompleteCycle
  <2>1. heartbeat' = 0
    BY <1>5 DEF CompleteCycle
  <2>2. PICK extra \in 0..Jitter : wake_in' = Interval + extra
    BY <1>5, CycleSleeps
  <2>3. QED
    BY <2>1, <2>2
<1>6. CASE FailCycle
  BY <1>6 DEF FailCycle
<1>7. CASE AskSite
  BY <1>7 DEF AskSite, BeginCheck
<1>8. CASE Proceed
  BY <1>8, ProceedInCycle
<1>9. CASE PassTime
  <2>1. UNCHANGED <<running, failed, phase>> /\ wake_in' = larger(wake_in - 1, 0)
    BY <1>9 DEF PassTime, Tick, process
  <2>2. SUFFICES ASSUME running, phase = "sleeping", ~failed, heartbeat # Never
                 PROVE  heartbeat' + wake_in' <= Interval + Jitter
    BY <1>9, <2>1 DEF PassTime, Older, Never
  <2>3. wake_in # 0
    BY <1>9, <2>2 DEF PassTime, Awake
  <2>4. heartbeat' <= heartbeat + 1 /\ heartbeat' \in Int
    BY <1>1, <1>9 DEF PassTime, Older, smaller, Ages, Never, StaleAfter
  <2>5. wake_in' = wake_in - 1
    BY <1>1, <2>1, <2>3 DEF larger
  <2>6. heartbeat + wake_in <= Interval + Jitter
    BY <2>1, <2>2
  <2>7. Interval \in Nat /\ Jitter \in Nat /\ heartbeat \in Int
    BY <1>1, SettingsAssumption DEF Ages, Never
  <2> DEFINE age  == heartbeat'
  <2> DEFINE wait == wake_in'
  <2> DEFINE most == Interval + Jitter
  <2>8. /\ age <= heartbeat + 1 /\ wait = wake_in - 1 /\ heartbeat + wake_in <= most
        /\ age \in Int /\ wait \in Int /\ most \in Int
        /\ wake_in \in Int /\ heartbeat \in Int
    BY <1>1, <2>4, <2>5, <2>6, <2>7
  <2> HIDE DEF age, wait, most
  <2>9. age + wait <= most
    BY <2>8
  <2>10. QED
    BY <2>9 DEF age, wait, most
<1>10. CASE UserActs \/ ProbeArrives \/ ProbeAnswered \/ Upgrade \/ SeedOnly \/ UNCHANGED lifeVars
  BY <1>10 DEF UserActs, ChangeSubscriptions, ProbeArrives, ProbeAnswered, Upgrade, SeedOnly,
               lifeVars, vars, process, health
<1>11. QED
  BY <1>2, <1>3, <1>4, <1>5, <1>6, <1>7, <1>8, <1>9, <1>10
  DEF LifecycleNext, MainSteps, SchedulerSteps

THEOREM LifecycleInvariance == LifecycleSpec => []LifecycleInv
<1>1. LifecycleInit => LifecycleInv
  <2>1. LifecycleInit => Up
    BY DEF LifecycleInit, Init, Up, BootStages, StopStages
  <2>2. LifecycleInit => Beating
    BY DEF LifecycleInit, Beating
  <2>3. LifecycleInit => LifecycleTypeOK
    BY TypeInit, FirstAges DEF LifecycleInit, LifecycleTypeOK, Stages
  <2>4. QED
    BY <2>1, <2>2, <2>3 DEF LifecycleInv
<1>2. LifecycleInv /\ [LifecycleNext]_lifeVars => LifecycleInv'
  BY LifecycleTypeStep, UpStep, BeatingStep DEF LifecycleInv
<1>3. QED
  BY <1>1, <1>2, PTL DEF LifecycleSpec

-----------------------------------------------------------------------------
(* The properties *)

\* Neither a shutdown nor a boot that fails takes anything from under a task.
THEOREM ShutdownIsOrderly == LifecycleSpec => []StoppedInOrder
<1>1. LifecycleInv => StoppedInOrder
  BY DEF LifecycleInv, Up, StoppedInOrder
<1>2. QED
  BY <1>1, LifecycleInvariance, PTL

\* Whatever the order of boots, crashes and --seed: monitoring finds its tables
\* and its locations.
THEOREM MonitoringIsReady == LifecycleSpec => []ReadyBeforeMonitoring
<1>1. LifecycleInv => ReadyBeforeMonitoring
  BY DEF LifecycleInv, Up, ReadyBeforeMonitoring, StopStages
<1>2. QED
  BY <1>1, LifecycleInvariance, PTL

\* The threshold of four intervals is enough for every jitter of up to three;
\* config.py sets no upper bound to MONITORING_JITTER_SECONDS.
THEOREM NoAlarmBetweenCycles ==
  Jitter <= 3 * Interval => (LifecycleSpec => []NoFalseAlarm)
<1> SUFFICES ASSUME Jitter <= 3 * Interval
             PROVE  LifecycleSpec => []NoFalseAlarm
  OBVIOUS
<1>1. LifecycleInv => NoFalseAlarm
  <2> SUFFICES ASSUME LifecycleInv, running, phase = "sleeping", ~failed, probe = heartbeat
               PROVE  HealthStatus(TRUE) = 200
    BY DEF NoFalseAlarm
  <2>1. wake_in \in Nat /\ heartbeat \in Ages
    BY DEF LifecycleInv, LifecycleTypeOK, TypeOK
  <2>2. heartbeat = Never \/ heartbeat <= StaleAfter
    BY <2>1 DEF LifecycleInv, Beating, StaleAfter, Ages, Never
  <2>3. QED
    BY <2>2 DEF HealthStatus
<1>2. QED
  BY <1>1, LifecycleInvariance, PTL

-----------------------------------------------------------------------------
(* A shutdown runs out of stages *)

LEMMA RanksOfStages ==
  /\ StagesLeft["stopping"] = 6 /\ StagesLeft["draining"] = 5
  /\ StagesLeft["closing"] = 4 /\ StagesLeft["unbinding"] = 3
  /\ StagesLeft["hanging_up"] = 2 /\ StagesLeft["disposing"] = 1
  /\ StagesLeft["exited"] = 0
BY DEF StagesLeft, StopStages

\* Going down, main reaches the next stage or the end of the process.
LEMMA ShutdownStages ==
  ASSUME main \in StopStages, [LifecycleNext]_lifeVars
  PROVE  /\ main' \in StopStages \cup {"exited"}
         /\ main' = main \/ StagesLeft[main'] < StagesLeft[main]
<1> USE RanksOfStages DEF StopStages
<1>1. CASE Launch \/ Migrate \/ Seed \/ Connect \/ StartTasks \/ Bind \/ RequestStop
             \/ BeginShutdown
  BY <1>1 DEF Launch, Migrate, Seed, Connect, StartTasks, Bind, RequestStop, BeginShutdown
<1>2. CASE StopScheduler \/ StopQueue \/ CloseClients \/ Unbind \/ HangUp
  BY <1>2 DEF StopScheduler, StopQueue, CloseClients, Unbind, HangUp, Reaches
<1>3. CASE Dispose \/ MainRaises \/ Killed
  BY <1>3 DEF Dispose, MainRaises, Killed, Exit
<1>4. CASE \/ SchedulerSteps \/ PassTime \/ UserActs \/ ProbeArrives \/ ProbeAnswered
           \/ Upgrade \/ SeedOnly \/ UNCHANGED lifeVars
  BY <1>4 DEF SchedulerSteps, BeginCycle, CompleteCycle, FailCycle, AskSite, Proceed,
              PassTime, UserActs, ProbeArrives, ProbeAnswered, Upgrade, SeedOnly,
              lifeVars, process
<1>5. QED
  BY <1>1, <1>2, <1>3, <1>4 DEF LifecycleNext, MainSteps

\* A monitor that sleeps when the process is going down sleeps until its end:
\* after scheduler.stop has been asked for, the scheduler plans no cycle.
LEMMA NoCycleInShutdown ==
  ASSUME Up, main \in StopStages, phase = "sleeping", [LifecycleNext]_lifeVars
  PROVE  phase' = "sleeping"
<1>1. ~MayCycle
  BY DEF Up, MayCycle, StopStages
<1>2. CASE BeginCycle \/ FailCycle
  BY <1>1, <1>2 DEF BeginCycle, FailCycle
<1>3. CASE CompleteCycle
  BY <1>3, CycleSleeps
<1>4. CASE AskSite
  BY <1>4 DEF AskSite, BeginCheck
<1>5. CASE Proceed
  BY <1>5, ProceedInCycle
<1>6. CASE PassTime \/ UserActs
  BY <1>6 DEF PassTime, Tick, UserActs, ChangeSubscriptions
<1>7. CASE Dispose \/ MainRaises \/ Killed
  BY <1>7 DEF Dispose, MainRaises, Killed, Exit, Restart, Asleep
<1>8. CASE \/ Launch \/ Migrate \/ Seed \/ Connect \/ StartTasks \/ Bind \/ RequestStop
           \/ BeginShutdown \/ StopScheduler \/ StopQueue \/ CloseClients \/ Unbind \/ HangUp
           \/ ProbeArrives \/ ProbeAnswered \/ Upgrade \/ SeedOnly \/ UNCHANGED lifeVars
  BY <1>8 DEF Launch, Migrate, Seed, Connect, StartTasks, Bind, RequestStop, BeginShutdown,
              StopScheduler, StopQueue, CloseClients, Unbind, HangUp, Reaches,
              ProbeArrives, ProbeAnswered, Upgrade, SeedOnly, lifeVars, vars
<1>9. QED
  BY <1>2, <1>3, <1>4, <1>5, <1>6, <1>7, <1>8
  DEF LifecycleNext, MainSteps, SchedulerSteps

\* A shutdown has six stages, each passed once, and waits for one cycle at most.
THEOREM ShutdownIsFinite == LifecycleSpec => ShutdownDescends
<1>1. LifecycleInv /\ [LifecycleNext]_lifeVars =>
        (main \in StopStages =>
           /\ main' \in StopStages \cup {"exited"}
           /\ main' = main \/ StagesLeft[main'] < StagesLeft[main]
           /\ phase = "sleeping" => phase' = "sleeping")
  BY ShutdownStages, NoCycleInShutdown DEF LifecycleInv
<1>2. QED
  BY <1>1, LifecycleInvariance, PTL DEF LifecycleSpec, ShutdownDescends

-----------------------------------------------------------------------------
(* What holds of the monitoring service holds of it in the process *)

\* The throttle, through boots, shutdowns and restarts of the process.
THEOREM ThrottleIsHonouredInProcess ==
  Delay > 0 => (LifecycleSpec => RateLimitHonoured)
<1>1. Delay > 0 => (Spec => RateLimitHonoured)
  BY ThrottleIsHonoured
<1>2. LifecycleSpec => Spec
  BY ProcessKeepsMonitoring DEF MonitoringAsSpecified
<1>3. QED
  BY <1>1, <1>2

\* The cycle scheduler.stop waits for is over after four steps for each planned
\* location, and one.
THEOREM CyclesAreFiniteInProcess == LifecycleSpec => CycleDescends
<1>1. LifecycleSpec => Spec
  BY ProcessKeepsMonitoring DEF MonitoringAsSpecified
<1>2. QED
  BY <1>1, CyclesAreFinite
=============================================================================
