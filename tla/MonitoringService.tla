-------------------------- MODULE MonitoringService --------------------------
(***************************************************************************)
(* The scheduler task: MonitoringScheduler._run drives                     *)
(* MonitoringService.check_all_active, which checks the due locations one  *)
(* after the other with check_location.  Everything runs in one asyncio    *)
(* task, so a step of this module is the code between two awaits.          *)
(*                                                                         *)
(* The location rows are durable (SQLite); the armed flags, the cooldowns  *)
(* and the global rate limit live in memory and are lost by a crash.       *)
(*                                                                         *)
(* Time is counted in ticks.  A timestamp is kept as what the code         *)
(* computes from it: how long it still forbids something, or how long ago  *)
(* it was, saturated where no comparison can tell the difference.          *)
(***************************************************************************)
EXTENDS AvailabilityStateMachine

CONSTANTS
  Locations,      \* ids of the active rows of the locations table
  Results,        \* the check results the checkers are let to return
  Cooldown,       \* NOTIFICATION_COOLDOWN_SECONDS
  Backoff,        \* RATE_LIMIT_BACKOFF_SECONDS
  Idle,           \* UNSUBSCRIBED_CHECK_INTERVAL_SECONDS
  Delay,          \* INTER_CHECK_DELAY_SECONDS
  Interval,       \* MONITORING_INTERVAL_SECONDS
  Jitter,         \* MONITORING_JITTER_SECONDS
  MaxCrashes      \* bound on process restarts

\* The ranges config.py gives the settings; ids are integers, so that the
\* plan can be sorted by them.
ASSUME LocationsAssumption == Locations \subseteq Nat
ASSUME ResultsAssumption   == Results \subseteq CheckResult
ASSUME SettingsAssumption  ==
  /\ Cooldown \in Nat /\ Backoff \in Nat /\ Idle \in Nat /\ Delay \in Nat
  /\ Interval \in Nat \ {0} /\ Jitter \in Nat
  /\ MaxCrashes \in Nat

VARIABLES
  row,          \* [Locations -> Row], the locations table
  armed,        \* runtime.armed_from_no_slots
  cooling,      \* ticks until _cooldown_allows says yes again; 0 also for None
  limited_for,  \* ticks until runtime.rate_limited_until; 0 also for None
  wake_in,      \* ticks left of the sleep between two cycles
  subscribed,   \* locations with an active subscription (changed by the bot)
  phase,        \* which await the scheduler task is suspended at
  todo,         \* planned locations this cycle has not reached yet
  preferred,    \* the locations that were subscribed when the plan was made
  first,        \* index = 0 in the loop over the plan
  target,       \* {location_id} of the check_location call under way, or {}
  decision,     \* its decision, once the commit has been made
  crashes       \* restarts so far

memory == <<armed, cooling, limited_for>>
cycle  == <<todo, preferred, first, target, decision>>
vars   == <<row, memory, wake_in, subscribed, phase, cycle, crashes>>

smaller(a, b) == IF a < b THEN a ELSE b
larger(a, b)  == IF a > b THEN a ELSE b

\* No test tells two ages at or above this one apart; "never checked"
\* (last_checked_at is None) passes the same tests as this age does.
AgeCap == larger(Idle, Backoff)

LastErrors == {"none", "http_429_rate_limited", "failure"}

(***************************************************************************)
(* last_available_dates, by where the stored labels came from: the latest  *)
(* check that left the location AVAILABLE, or one before it.               *)
(***************************************************************************)
Labels == {"none", "latest", "older"}

Row == [current_status : LocationStatus, previous_status : LocationStatus,
        available_checks : Nat, failed_checks : Nat,
        last_error : LastErrors, checked_ago : 0..AgeCap, dates : Labels]

NewRow ==
  [current_status |-> "unknown", previous_status |-> "unknown",
   available_checks |-> 0, failed_checks |-> 0,
   last_error |-> "none", checked_ago |-> AgeCap, dates |-> "none"]

NoDecision == Silent("unknown", 0, 0)

Phases == {"sleeping", "choosing", "pausing", "checking", "announcing"}

TypeOK ==
  /\ row \in [Locations -> Row]
  /\ armed \in [Locations -> BOOLEAN]
  /\ cooling \in [Locations -> 0..Cooldown]
  /\ limited_for \in 0..Backoff
  /\ wake_in \in 0..(2 * Interval + Jitter)
  /\ subscribed \subseteq Locations
  /\ phase \in Phases
  /\ todo \subseteq Locations
  /\ preferred \subseteq Locations
  /\ first \in BOOLEAN
  /\ target \subseteq Locations
  /\ decision \in Decision
  /\ crashes \in 0..MaxCrashes

Init ==
  /\ row = [l \in Locations |-> NewRow]
  /\ armed = [l \in Locations |-> FALSE]
  /\ cooling = [l \in Locations |-> 0]
  /\ limited_for = 0
  /\ wake_in = 0
  /\ subscribed \in SUBSET Locations
  /\ phase = "sleeping"
  /\ todo = {} /\ preferred = {} /\ first = TRUE
  /\ target = {} /\ decision = NoDecision
  /\ crashes = 0

-----------------------------------------------------------------------------
(* One location *)

EffectiveStatus_NotOnlyError(l, r) ==
  IF r.limited /\ row[l].previous_status \in
                    {"no_slots", "possibly_available", "available"}
  THEN row[l].previous_status
  ELSE row[l].current_status

\* The status check_location reasons from: a transient 429 looks through a
\* latched ERROR to the status before it.
EffectiveStatus(l, r) ==
  IF r.limited /\ row[l].current_status = "error"
  THEN IF row[l].previous_status \in
            {"no_slots", "possibly_available", "available"}
       THEN row[l].previous_status
       ELSE "unknown"
  ELSE row[l].current_status

ArmedAfter_Sticky(status, was) == status = "no_slots" \/ was

ArmedAfter_OneStep(status, was) ==
  status = "no_slots" \/ (was /\ status = "available")

\* The armed flag after a status: NO_SLOTS sets it, a status that breaks the
\* path clears it, the others keep it.
ArmedAfter(status, was) ==
  \/ status = "no_slots"
  \/ was /\ status \notin {"unknown", "error", "disabled"}

ArmedBefore(l, r) == ArmedAfter(EffectiveStatus(l, r), armed[l])

DecisionFor(l, r) ==
  Transition(EffectiveStatus(l, r), row[l].available_checks,
             row[l].failed_checks, r, ArmedBefore(l, r))

\* The streak counters are only compared with Confirmations and
\* AdminAlertAfter, so they are stored saturated there.
SavedRow(l, r) ==
  LET d == DecisionFor(l, r) IN
  [current_status   |-> d.status,
   previous_status  |-> row[l].current_status,
   available_checks |-> smaller(d.available, Confirmations),
   failed_checks    |-> smaller(d.failed, AdminAlertAfter),
   last_error       |-> IF r.limited THEN "http_429_rate_limited"
                        ELSE IF d.status = "error" THEN "failure" ELSE "none",
   checked_ago      |-> 0,
   dates            |-> IF d.status # "available" THEN row[l].dates
                        ELSE IF r.dates THEN "latest"
                        ELSE IF row[l].dates = "none" THEN "none" ELSE "older"]

\* What check_location changes in memory before it commits.
Remember(l, r) ==
  /\ armed' = [armed EXCEPT ![l] =
                 ArmedAfter(DecisionFor(l, r).status, ArmedBefore(l, r))]
  /\ limited_for' = IF r.limited THEN larger(Backoff, limited_for)
                    ELSE limited_for

DueForCheck_BackoffLast(l) ==
  \/ l \in subscribed
  \/ /\ ~(row[l].last_error = "http_429_rate_limited" /\ row[l].checked_ago < Backoff)
     /\ row[l].checked_ago >= Idle

DueForCheck_NoIdle(l) ==
  ~(row[l].last_error = "http_429_rate_limited" /\ row[l].checked_ago < Backoff)

DueForCheck_OnlySubscribed(l) ==
  /\ ~(row[l].last_error = "http_429_rate_limited" /\ row[l].checked_ago < Backoff)
  /\ l \in subscribed /\ row[l].checked_ago >= Idle

\* should_check_location
DueForCheck(l) ==
  /\ ~(row[l].last_error = "http_429_rate_limited" /\ row[l].checked_ago < Backoff)
  /\ l \in subscribed \/ row[l].checked_ago >= Idle

-----------------------------------------------------------------------------
(* The cycle *)

\* The next location of the plan: subscribed ones first, then by id.
NextLocation(l) ==
  LET class == IF todo \cap preferred # {} THEN todo \cap preferred ELSE todo
  IN  l \in class /\ \A k \in class : l <= k

Asleep(ticks) ==
  /\ phase' = "sleeping" /\ wake_in' = ticks
  /\ todo' = {} /\ preferred' = {} /\ first' = TRUE
  /\ target' = {} /\ decision' = NoDecision

\* The wait between two cycles, lengthened by random.uniform(0, jitter).
Rests(delay) == \E extra \in 0..Jitter : Asleep(delay + extra)

\* The loop goes on to the next location.
Onward ==
  /\ phase' = "choosing" /\ first' = FALSE
  /\ target' = {} /\ decision' = NoDecision
  /\ UNCHANGED <<wake_in, todo, preferred>>

\* The global limit is in force: the cycle ends before it has a plan.
SkipCycle ==
  /\ phase = "sleeping" /\ wake_in = 0
  /\ limited_for > 0
  /\ Rests(Interval)
  /\ UNCHANGED <<row, memory, subscribed, crashes>>

\* Plan the cycle from one read of the database.
StartCycle ==
  /\ phase = "sleeping" /\ wake_in = 0
  /\ limited_for = 0
  /\ phase' = "choosing"
  /\ todo' = {l \in Locations : DueForCheck(l)}
  /\ preferred' = subscribed
  /\ UNCHANGED <<row, memory, wake_in, subscribed, first, target, decision, crashes>>

PlanFails_EndsTask ==
  /\ phase = "sleeping" /\ wake_in = 0
  /\ limited_for = 0
  /\ phase' = "ended"
  /\ UNCHANGED <<row, memory, wake_in, subscribed, cycle, crashes>>

\* The planning read raises: the scheduler doubles its delay, up to 600 s.
PlanFails ==
  /\ phase = "sleeping" /\ wake_in = 0
  /\ limited_for = 0
  /\ Rests(smaller(2 * Interval, 600))
  /\ UNCHANGED <<row, memory, subscribed, crashes>>

EndCycle ==
  /\ phase = "choosing" /\ todo = {}
  /\ Rests(Interval)
  /\ UNCHANGED <<row, memory, subscribed, crashes>>

\* A check of this cycle armed the global limit; only looked at when a delay
\* is configured.
AbortCycle ==
  /\ phase = "choosing" /\ todo # {}
  /\ ~first /\ Delay > 0 /\ limited_for > 0
  /\ Rests(Interval)
  /\ UNCHANGED <<row, memory, subscribed, crashes>>

Pause_NoLimitTest ==
  /\ phase = "choosing" /\ todo # {}
  /\ ~first /\ Delay > 0
  /\ phase' = "pausing"
  /\ UNCHANGED <<row, memory, wake_in, subscribed, cycle, crashes>>

\* asyncio.sleep(delay); how many ticks it takes is left open.
Pause ==
  /\ phase = "choosing" /\ todo # {}
  /\ ~first /\ Delay > 0 /\ limited_for = 0
  /\ phase' = "pausing"
  /\ UNCHANGED <<row, memory, wake_in, subscribed, cycle, crashes>>

BeginCheck(l) ==
  /\ \/ phase = "choosing" /\ (first \/ Delay = 0)
     \/ phase = "pausing"
  /\ NextLocation(l)
  /\ phase' = "checking" /\ target' = {l} /\ todo' = todo \ {l}
  /\ UNCHANGED <<row, memory, wake_in, subscribed, preferred, first, decision, crashes>>

\* The checker answers and the row, its counters and its CheckEvent commit.
CheckCommits(l, r) ==
  /\ phase = "checking" /\ l \in target
  /\ Remember(l, r)
  /\ row' = [row EXCEPT ![l] = SavedRow(l, r)]
  /\ decision' = DecisionFor(l, r)
  /\ phase' = "announcing"
  /\ UNCHANGED <<cooling, wake_in, subscribed, todo, preferred, first, target, crashes>>

CommitFails_Retried(l, r) ==
  /\ phase = "checking" /\ l \in target
  /\ Remember(l, r)
  /\ phase' = "choosing" /\ todo' = todo \cup target
  /\ target' = {} /\ decision' = NoDecision
  /\ UNCHANGED <<row, cooling, subscribed, wake_in, preferred, first, crashes>>

\* The checker answers and the commit raises (a locked database): the row is
\* rolled back, memory is not.
CommitFails(l, r) ==
  /\ phase = "checking" /\ l \in target
  /\ Remember(l, r)
  /\ Onward
  /\ UNCHANGED <<row, cooling, subscribed, crashes>>

\* Reading the row or running the checker raises.
CheckRaises ==
  /\ phase = "checking"
  /\ Onward
  /\ UNCHANGED <<row, memory, subscribed, crashes>>

NotifySubscribers_Unrecorded(l) ==
  /\ phase = "announcing" /\ l \in target
  /\ decision.notify /\ cooling[l] = 0
  /\ Onward
  /\ UNCHANGED <<row, memory, subscribed, crashes>>

\* on_available: subscribers of l are notified.
NotifySubscribers(l) ==
  /\ phase = "announcing" /\ l \in target
  /\ decision.notify /\ cooling[l] = 0
  /\ cooling' = [cooling EXCEPT ![l] = Cooldown]
  /\ Onward
  /\ UNCHANGED <<row, armed, limited_for, subscribed, crashes>>

\* on_available raises after the cooldown has been started.
NotifyFails(l) ==
  /\ phase = "announcing" /\ l \in target
  /\ decision.notify /\ cooling[l] = 0
  /\ cooling' = [cooling EXCEPT ![l] = Cooldown]
  /\ Onward
  /\ UNCHANGED <<row, armed, limited_for, subscribed, crashes>>

\* notify_skipped_cooldown
SkipNotify(l) ==
  /\ phase = "announcing" /\ l \in target
  /\ decision.notify /\ cooling[l] > 0
  /\ Onward
  /\ UNCHANGED <<row, memory, subscribed, crashes>>

\* on_admin_alert: one message per administrator.
AlertAdmins(l) ==
  /\ phase = "announcing" /\ l \in target
  /\ decision.alert
  /\ Onward
  /\ UNCHANGED <<row, memory, subscribed, crashes>>

NothingToTell ==
  /\ phase = "announcing" /\ ~decision.notify /\ ~decision.alert
  /\ Onward
  /\ UNCHANGED <<row, memory, subscribed, crashes>>

-----------------------------------------------------------------------------
(* The surroundings *)

\* Time passes at the awaits that take time: a sleep, or a check.
Tick ==
  /\ phase \in {"sleeping", "pausing", "checking"}
  /\ limited_for' = larger(limited_for - 1, 0)
  /\ wake_in' = larger(wake_in - 1, 0)
  /\ cooling' = [l \in Locations |-> larger(cooling[l] - 1, 0)]
  /\ row' = [l \in Locations |->
       [row[l] EXCEPT !.checked_ago = smaller(@ + 1, AgeCap)]]
  /\ UNCHANGED <<armed, subscribed, phase, cycle, crashes>>

\* Users change what is subscribed, at any await of the scheduler; one update
\* may end all the subscriptions of its user.
ChangeSubscriptions ==
  /\ subscribed' \in SUBSET Locations
  /\ UNCHANGED <<row, memory, wake_in, phase, cycle, crashes>>

\* The process dies anywhere and is started again; rows survive, and seeding
\* does not touch their status.
Restart ==
  /\ crashes < MaxCrashes
  /\ crashes' = crashes + 1
  /\ armed' = [l \in Locations |-> FALSE]
  /\ cooling' = [l \in Locations |-> 0]
  /\ limited_for' = 0
  /\ Asleep(0)
  /\ UNCHANGED <<row, subscribed>>

\* The scheduler's own steps, from waking up to starting a check.
Schedule ==
  \/ SkipCycle \/ StartCycle \/ PlanFails \/ EndCycle \/ AbortCycle \/ Pause
  \/ \E l \in Locations : BeginCheck(l)

\* A check comes to its end.
FinishCheck ==
  \/ \E l \in Locations, r \in Results : CheckCommits(l, r)
  \/ \E l \in Locations, r \in Results : CommitFails(l, r)
  \/ CheckRaises

\* What the committed decision asks for is done.
Announce ==
  \/ \E l \in Locations : NotifySubscribers(l) \/ NotifyFails(l)
  \/ \E l \in Locations : SkipNotify(l) \/ AlertAdmins(l)
  \/ NothingToTell

Surroundings ==
  \/ Tick
  \/ ChangeSubscriptions
  \/ Restart

Next == Schedule \/ FinishCheck \/ Announce \/ Surroundings

Spec == Init /\ [][Next]_vars

(***************************************************************************)
(* asyncio runs a task that can run, its sleeps end, and the checkers      *)
(* bound every wait by a timeout.                                          *)
(***************************************************************************)
TaskRuns ==
  WF_vars(Tick) /\ WF_vars(Schedule) /\ WF_vars(FinishCheck) /\ WF_vars(Announce)

TaskSpec == Spec /\ TaskRuns

\* A database that fails now and then does not fail every time it is asked.
DatabaseServes ==
  /\ SF_vars(StartCycle)
  /\ \A l \in Locations : SF_vars(\E r \in Results : CheckCommits(l, r))

FairSpec == TaskSpec /\ DatabaseServes

-----------------------------------------------------------------------------
(* Properties *)

\* No location is asked while the global throttle is in force, although the
\* throttle is only looked at when a cycle starts and between two of its
\* checks (runtime.py, "skip all checks until this UTC time").
RateLimitHonoured ==
  [][phase # "checking" /\ phase' = "checking" => limited_for = 0]_vars

\* The inductive invariant that RateLimitHonoured follows from: a check can
\* only be begun where the limit has been ruled out since it was last set.
LimitRuledOut ==
  phase = "pausing" \/ (phase = "choosing" /\ first) => limited_for = 0

\* The scheduler comes back to its next cycle for ever: not even a database
\* that raises every time, an alert that raises every time, or a site that
\* throttles for ever ends its task.
CyclesGoOn == []<>(phase = "sleeping" /\ wake_in = 0)

\* Once the site has stopped throttling, every location is checked and
\* recorded again and again: the plan, its order, the aborted cycles and the
\* per-location backoff never leave one out for good.
EveryLocationRefreshed ==
  <>[](limited_for = 0) => \A l \in Locations : []<>(row[l].checked_ago = 0)

\* "Subscribed cities every cycle" (should_check_location): a location that
\* stays subscribed is asked again and again, whatever the others answer.
SubscribedNeverStarved ==
  \A l \in Locations : <>[](l \in subscribed) => []<>(l \in target)

-----------------------------------------------------------------------------
(* Why a cycle ends, as far as safety can say *)

\* How many steps may follow before the next location is taken from the plan.
StepsLeft ==
  [p \in Phases |-> CASE p = "checking" -> 4 [] p = "announcing" -> 3
                      [] p = "choosing" -> 2 [] p = "pausing" -> 1
                      [] p = "sleeping" -> 0]

\* The plan of a cycle only shrinks, whatever users subscribe to meanwhile, and
\* no location is taken from it twice.  Every step of the scheduler takes one
\* from it or brings the next one nearer: a cycle is over after four steps for
\* each planned location, and one, whatever checks, commits and callbacks
\* raise.
CycleDescends ==
  [][phase # "sleeping" =>
       /\ todo' \subseteq todo
       /\ todo' = todo => StepsLeft[phase'] <= StepsLeft[phase]
       /\ Schedule \/ FinishCheck \/ Announce =>
            todo' # todo \/ StepsLeft[phase'] < StepsLeft[phase]]_vars
=============================================================================
