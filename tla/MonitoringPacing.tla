--------------------------- MODULE MonitoringPacing ---------------------------
(***************************************************************************)
(* MonitoringService with clocks of an observer outside the process, who   *)
(* sees when the site is asked and when subscribers are told.  The clocks  *)
(* follow the steps, hold none of them back, and survive a restart.        *)
(***************************************************************************)
EXTENDS MonitoringService

VARIABLES
  throttled_for,  \* ticks until the last recorded 429 of a location is over
  asked_ago,      \* ticks since a location was last asked, saturated at LongestGap
  ours,           \* the last question to a location was this process's
  unrecorded,     \* the last question to a location left no record (yet)
  quiet_for,      \* ticks since its last alert, saturated at Cooldown
  restarted       \* the process was restarted since its last alert

clocks == <<throttled_for, asked_ago, ours, unrecorded, quiet_for, restarted>>
pacingVars == <<vars, clocks>>

LongestGap == larger(Idle, Interval)

ClocksTypeOK ==
  /\ throttled_for \in [Locations -> 0..Backoff]
  /\ asked_ago \in [Locations -> 0..LongestGap]
  /\ ours \in [Locations -> BOOLEAN]
  /\ unrecorded \in [Locations -> BOOLEAN]
  /\ quiet_for \in [Locations -> 0..Cooldown]
  /\ restarted \in [Locations -> BOOLEAN]

PacingInit ==
  /\ Init
  /\ throttled_for = [l \in Locations |-> 0]
  /\ asked_ago = [l \in Locations |-> LongestGap]
  /\ ours = [l \in Locations |-> FALSE]
  /\ unrecorded = [l \in Locations |-> FALSE]
  /\ quiet_for = [l \in Locations |-> Cooldown]
  /\ restarted = [l \in Locations |-> FALSE]

Asked(l) ==
  /\ asked_ago' = [asked_ago EXCEPT ![l] = 0]
  /\ ours' = [ours EXCEPT ![l] = TRUE]
  /\ unrecorded' = [unrecorded EXCEPT ![l] = TRUE]
  /\ UNCHANGED <<throttled_for, quiet_for, restarted>>

Recorded(l, r) ==
  /\ unrecorded' = [unrecorded EXCEPT ![l] = FALSE]
  /\ throttled_for' = [throttled_for EXCEPT ![l] = IF r.limited THEN Backoff ELSE @]
  /\ UNCHANGED <<asked_ago, ours, quiet_for, restarted>>

Told(l) ==
  /\ quiet_for' = [quiet_for EXCEPT ![l] = 0]
  /\ restarted' = [restarted EXCEPT ![l] = FALSE]
  /\ UNCHANGED <<throttled_for, asked_ago, ours, unrecorded>>

TimePasses ==
  /\ throttled_for' = [l \in Locations |-> larger(throttled_for[l] - 1, 0)]
  /\ asked_ago' = [l \in Locations |-> smaller(asked_ago[l] + 1, LongestGap)]
  /\ quiet_for' = [l \in Locations |-> smaller(quiet_for[l] + 1, Cooldown)]
  /\ UNCHANGED <<ours, unrecorded, restarted>>

ProcessRestarts ==
  /\ restarted' = [l \in Locations |-> TRUE]
  /\ ours' = [l \in Locations |-> FALSE]
  /\ UNCHANGED <<throttled_for, asked_ago, unrecorded, quiet_for>>

PacingNext ==
  \/ \E l \in Locations : BeginCheck(l) /\ Asked(l)
  \/ \E l \in Locations, r \in Results : CheckCommits(l, r) /\ Recorded(l, r)
  \/ \E l \in Locations : NotifySubscribers(l) /\ Told(l)
  \/ Tick /\ TimePasses
  \/ Restart /\ ProcessRestarts
  \/ (SkipCycle \/ StartCycle \/ PlanFails \/ EndCycle \/ AbortCycle \/ Pause)
       /\ UNCHANGED clocks
  \/ \E l \in Locations, r \in Results : CommitFails(l, r) /\ UNCHANGED clocks
  \/ CheckRaises /\ UNCHANGED clocks
  \/ \E l \in Locations : (NotifyFails(l) \/ SkipNotify(l)) /\ UNCHANGED clocks
  \/ \E l \in Locations : AlertAdmins(l) /\ UNCHANGED clocks
  \/ NothingToTell /\ UNCHANGED clocks
  \/ ChangeSubscriptions /\ UNCHANGED clocks

PacingSpec == PacingInit /\ [][PacingNext]_pacingVars

\* The clocks hold no step back: the service's fairness is asked for unchanged.
PacingTaskSpec == PacingSpec /\ TaskRuns
PacingFairSpec == PacingTaskSpec /\ DatabaseServes

-----------------------------------------------------------------------------
(* Properties *)

\* A location that answered 429 is left alone for the whole backoff, by this
\* process and by the next: the throttle is in last_error and last_checked_at
\* even when the row keeps the status it had before the 429.
ThrottledLeftAlone ==
  [][\A l \in Locations : BeginCheck(l) => throttled_for[l] = 0]_pacingVars

\* "Others at most once per idle interval": a location nobody was subscribed
\* to when the cycle was planned was not asked within the last idle interval,
\* unless its last check failed to be recorded, which has it asked again in
\* the next cycle.
IdleProbesSpaced ==
  [][\A l \in Locations :
       BeginCheck(l) /\ l \notin preferred
         => asked_ago[l] >= Idle \/ unrecorded[l]]_pacingVars

\* One process never asks a location twice within the interval of its cycles,
\* also when the first answer was lost to a failed commit, the check or its
\* alert raised, the cycle was aborted, or the next plan could not be read.
\* (A restarted process asks at once.)
AskedOncePerInterval ==
  [][\A l \in Locations :
       BeginCheck(l) => asked_ago[l] >= Interval \/ ~ours[l]]_pacingVars

\* "Subject to cooldown": subscribers are not alerted twice about a location
\* within the cooldown, unless by two processes, the second of which has
\* forgotten it.
CooldownWithinProcess ==
  [][\A l \in Locations :
       NotifySubscribers(l) => quiet_for[l] >= Cooldown \/ restarted[l]]_pacingVars
-----------------------------------------------------------------------------
(* The inductive invariant the properties follow from *)

\* A throttle that is not over is in the row, and will stay in force there for
\* as long; neither the plan nor a check that was begun is about the location.
ThrottleInRow(l) ==
  throttled_for[l] > 0 =>
    /\ row[l].last_error = "http_429_rate_limited"
    /\ row[l].checked_ago + throttled_for[l] <= Backoff
    /\ l \notin todo
    /\ phase = "checking" => l \notin target

\* Unless the last question to a location left no record, its row is not older
\* than that question, and an idle interval of the row is one of the site's:
\* who was planned without a subscriber had one.
AgeFromAsking(l) ==
  \/ unrecorded[l]
  \/ asked_ago[l] >= Idle
  \/ asked_ago[l] >= row[l].checked_ago /\ l \notin todo \ preferred

\* What the silence still lacks of the cooldown is in memory, in this process.
CooldownInMemory(l) ==
  restarted[l] \/ quiet_for[l] + cooling[l] >= Cooldown

PacingInv ==
  /\ TypeOK /\ ClocksTypeOK
  /\ target \cap todo = {}
  /\ phase \notin {"checking", "announcing"} => target = {}
  /\ \A l \in Locations : ThrottleInRow(l) /\ AgeFromAsking(l) /\ CooldownInMemory(l)

\* What follows for AskedOncePerInterval, given the types: the sleep that is
\* left makes up for what the question lacks of an interval, and a plan is only
\* made when there is no sleep left.  A failed planning read may sleep for less
\* than an interval (600 s), which is then already over.
SpacedByTheSleep ==
  \A l \in Locations : ours[l] =>
    /\ phase = "sleeping" => asked_ago[l] + wake_in >= Interval
    /\ l \in todo => asked_ago[l] >= Interval
=============================================================================
