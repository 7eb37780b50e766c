--------------------------- MODULE MonitoringProofs ---------------------------
(***************************************************************************)
(* Proofs about MonitoringService, for every set of locations, of results  *)
(* and every value of the settings: its types and the global throttle.     *)
(* AlertsProofs and PacingProofs rest on them.                             *)
(***************************************************************************)
EXTENDS MonitoringService, TLAPS

USE ConfirmationsAssumption, LocationsAssumption, ResultsAssumption, SettingsAssumption

-----------------------------------------------------------------------------
(* Type correctness *)

\* What Transition decides, branch by branch.
LEMMA TransitionBranches ==
  ASSUME NEW current \in LocationStatus, NEW available \in Nat, NEW failed \in Nat,
         NEW r \in CheckResult, NEW was \in BOOLEAN
  PROVE  LET d == Transition(current, available, failed, r, was) IN
         /\ d \in Decision
         /\ r.limited => d = Silent(current, available, failed)
         /\ ~r.limited /\ r.outcome = "no_slots" => d = Silent("no_slots", 0, 0)
         /\ ~r.limited /\ r.outcome \notin AvailabilityOutcomes \cup {"no_slots"} =>
              /\ d.status \in {"error", "unknown"}
              /\ d.available = 0 /\ ~d.notify
         /\ ~r.limited /\ r.outcome \in AvailabilityOutcomes =>
              IF available + 1 < Confirmations
              THEN d = Silent("possibly_available", available + 1, 0)
              ELSE /\ d.status = "available" /\ d.available = available + 1
                   /\ d.notify = (was /\ current \in {"no_slots", "possibly_available"})
<1> DEFINE d == Transition(current, available, failed, r, was)
<1> USE DEF Silent, Decision, LocationStatus
<1>1. r.outcome \in CheckOutcome /\ r.limited \in BOOLEAN
  BY DEF CheckResult
<1>2. CASE r.limited
  BY <1>1, <1>2 DEF Transition
<1>3. CASE ~r.limited /\ r.outcome \in FailureOutcomes
  <2>1. d = [status |-> "error", available |-> 0, failed |-> failed + 1,
             notify |-> FALSE, alert |-> failed + 1 >= AdminAlertAfter]
    BY <1>1, <1>3 DEF Transition, FailureOutcomes, AvailabilityOutcomes
  <2>2. r.outcome \notin AvailabilityOutcomes /\ r.outcome # "no_slots"
    BY <1>3 DEF FailureOutcomes, AvailabilityOutcomes
  <2>3. d \in Decision
    BY <2>1 DEF AdminAlertAfter
  <2>4. QED
    BY <1>1, <1>3, <2>1, <2>2, <2>3
<1>4. CASE ~r.limited /\ r.outcome = "unknown"
  BY <1>1, <1>4 DEF Transition, FailureOutcomes, AvailabilityOutcomes
<1>5. CASE ~r.limited /\ r.outcome = "no_slots"
  BY <1>1, <1>5 DEF Transition, FailureOutcomes, AvailabilityOutcomes
<1>6. CASE ~r.limited /\ r.outcome \in AvailabilityOutcomes
  <2>1. r.outcome # "no_slots" /\ r.outcome # "unknown" /\ r.outcome \notin FailureOutcomes
    BY <1>6 DEF FailureOutcomes, AvailabilityOutcomes
  <2>2. d = IF available + 1 < Confirmations
            THEN Silent("possibly_available", available + 1, 0)
            ELSE [Silent("available", available + 1, 0) EXCEPT !.notify =
                    was /\ current \in {"no_slots", "possibly_available"}]
    <3>1. d = IF Confirmed(available + 1)
              THEN [Silent("available", available + 1, 0) EXCEPT !.notify =
                      was /\ current \in {"no_slots", "possibly_available"}]
              ELSE Silent("possibly_available", available + 1, 0)
      BY <1>1, <1>6, <2>1 DEF Transition
    <3>2. Confirmed(available + 1) = ~(available + 1 < Confirmations)
      BY DEF Confirmed
    <3>3. QED
      BY <3>1, <3>2
  <2>3. CASE available + 1 < Confirmations
    BY <1>1, <1>6, <2>1, <2>2, <2>3
  <2>4. CASE ~(available + 1 < Confirmations)
    <3>1. d = [status |-> "available", available |-> available + 1, failed |-> 0,
               notify |-> (was /\ current \in {"no_slots", "possibly_available"}),
               alert |-> FALSE]
      BY <2>2, <2>4
    <3>2. d \in Decision
      BY <3>1
    <3>3. QED
      BY <1>1, <1>6, <2>1, <2>4, <3>1, <3>2
  <2>5. QED
    BY <2>3, <2>4
<1>7. QED
  BY <1>1, <1>2, <1>3, <1>4, <1>5, <1>6 DEF CheckOutcome

LEMMA AgeCapType == AgeCap \in Nat
BY DEF AgeCap, larger

\* A check decides well-typed, and stores a well-typed row.
LEMMA CheckType ==
  ASSUME TypeOK, NEW l \in Locations, NEW r \in Results
  PROVE  /\ EffectiveStatus(l, r) \in LocationStatus
         /\ ArmedBefore(l, r) \in BOOLEAN
         /\ DecisionFor(l, r) \in Decision
         /\ SavedRow(l, r) \in Row
<1>1. row[l] \in Row /\ armed[l] \in BOOLEAN /\ r \in CheckResult
  BY DEF TypeOK
<1>2. EffectiveStatus(l, r) \in LocationStatus
  BY <1>1 DEF EffectiveStatus, Row, LocationStatus
<1>3. ArmedBefore(l, r) \in BOOLEAN
  BY DEF ArmedBefore, ArmedAfter
<1>4. DecisionFor(l, r) \in Decision
  BY <1>1, <1>2, <1>3, TransitionBranches DEF DecisionFor, Row
<1>5. SavedRow(l, r) \in Row
  BY <1>1, <1>4, AgeCapType
  DEF SavedRow, Row, Decision, LastErrors, Labels, smaller, AdminAlertAfter
<1>6. QED
  BY <1>2, <1>3, <1>4, <1>5

LEMMA TypeInit == Init => TypeOK
<1>1. NewRow \in Row
  BY AgeCapType DEF NewRow, Row, LocationStatus, LastErrors, Labels
<1>2. NoDecision \in Decision
  BY DEF NoDecision, Silent, Decision, LocationStatus
<1>3. QED
  BY <1>1, <1>2 DEF Init, TypeOK, Phases

LEMMA TypeStep == TypeOK /\ [Next]_vars => TypeOK'
<1> SUFFICES ASSUME TypeOK, [Next]_vars
             PROVE  TypeOK'
  OBVIOUS
<1> USE DEF memory, cycle, Phases
<1>0. NoDecision \in Decision
  BY DEF NoDecision, Silent, Decision, LocationStatus
<1>1. CASE SkipCycle \/ PlanFails \/ EndCycle \/ AbortCycle
  <2>1. Interval \in 0..(2 * Interval) /\ smaller(2 * Interval, 600) \in 0..(2 * Interval)
    BY DEF smaller
  <2>2. \E delay \in 0..(2 * Interval) : Rests(delay)
    BY <1>1, <2>1 DEF SkipCycle, PlanFails, EndCycle, AbortCycle
  <2>3. UNCHANGED <<row, armed, cooling, limited_for, subscribed, crashes>>
    BY <1>1 DEF SkipCycle, PlanFails, EndCycle, AbortCycle
  <2>4. wake_in' \in 0..(2 * Interval + Jitter)
    BY <2>2 DEF Rests, Asleep
  <2>5. /\ phase' = "sleeping" /\ first' = TRUE
        /\ todo' = {} /\ preferred' = {} /\ target' = {} /\ decision' = NoDecision
    BY <2>2 DEF Rests, Asleep
  <2>6. QED
    BY <1>0, <2>3, <2>4, <2>5 DEF TypeOK
<1>2. CASE StartCycle
  BY <1>2 DEF TypeOK, StartCycle
<1>3. CASE Pause
  BY <1>3 DEF TypeOK, Pause
<1>4. ASSUME NEW l \in Locations, BeginCheck(l)
      PROVE  TypeOK'
  BY <1>4 DEF TypeOK, BeginCheck
<1>5. ASSUME NEW l \in Locations, NEW r \in Results, Remember(l, r)
      PROVE  /\ armed' \in [Locations -> BOOLEAN]
             /\ limited_for' \in 0..Backoff
  BY <1>5, CheckType DEF TypeOK, Remember, ArmedAfter, larger
<1>6. ASSUME NEW l \in Locations, NEW r \in Results, CheckCommits(l, r)
      PROVE  TypeOK'
  <2>1. row' \in [Locations -> Row] /\ decision' \in Decision
    BY <1>6, CheckType DEF TypeOK, CheckCommits
  <2>2. QED
    BY <1>5, <1>6, <2>1 DEF TypeOK, CheckCommits
<1>7. ASSUME NEW l \in Locations, NEW r \in Results, CommitFails(l, r)
      PROVE  TypeOK'
  BY <1>0, <1>5, <1>7 DEF TypeOK, CommitFails, Onward
<1>8. ASSUME NEW l \in Locations, NotifySubscribers(l) \/ NotifyFails(l)
      PROVE  TypeOK'
  <2>1. cooling' \in [Locations -> 0..Cooldown]
    BY <1>8 DEF TypeOK, NotifySubscribers, NotifyFails
  <2>2. QED
    BY <1>0, <1>8, <2>1 DEF TypeOK, NotifySubscribers, NotifyFails, Onward
<1>9. CASE CheckRaises \/ NothingToTell \/ \E l \in Locations : SkipNotify(l) \/ AlertAdmins(l)
  BY <1>0, <1>9 DEF TypeOK, CheckRaises, NothingToTell, SkipNotify, AlertAdmins, Onward
<1>10. CASE Tick
  <2>1. row' \in [Locations -> Row]
    <3>1. ASSUME NEW l \in Locations
          PROVE  [row[l] EXCEPT !.checked_ago = smaller(@ + 1, AgeCap)] \in Row
      BY AgeCapType DEF TypeOK, Row, smaller
    <3>2. QED
      BY <1>10, <3>1 DEF Tick
  <2>2. cooling' \in [Locations -> 0..Cooldown]
    BY <1>10 DEF TypeOK, Tick, larger
  <2>3. QED
    BY <1>10, <2>1, <2>2 DEF TypeOK, Tick, larger
<1>11. CASE ChangeSubscriptions
  BY <1>11 DEF TypeOK, ChangeSubscriptions
<1>12. CASE Restart
  BY <1>0, <1>12 DEF TypeOK, Restart, Asleep
<1>13. CASE UNCHANGED vars
  BY <1>13 DEF TypeOK, vars
<1>14. QED
  BY <1>1, <1>2, <1>3, <1>4, <1>6, <1>7, <1>8, <1>9, <1>10, <1>11, <1>12, <1>13
  DEF Next, Schedule, FinishCheck, Announce, Surroundings

\* The rows, the memory and the scheduler's position are well typed.
THEOREM MonitoringTypes == Spec => []TypeOK
<1>1. Init => TypeOK
  BY TypeInit
<1>2. TypeOK /\ [Next]_vars => TypeOK'
  BY TypeStep
<1>3. QED
  BY <1>1, <1>2, PTL DEF Spec

-----------------------------------------------------------------------------
(* The global throttle *)

LEMMA LimitStep == TypeOK /\ LimitRuledOut /\ [Next]_vars => LimitRuledOut'
<1> SUFFICES ASSUME TypeOK, LimitRuledOut, [Next]_vars
             PROVE  LimitRuledOut'
  OBVIOUS
<1> USE DEF LimitRuledOut, memory, cycle
<1>1. CASE SkipCycle \/ PlanFails \/ EndCycle \/ AbortCycle \/ Restart
  BY <1>1 DEF SkipCycle, PlanFails, EndCycle, AbortCycle, Restart, Asleep, Rests
<1>2. CASE StartCycle \/ Pause
  BY <1>2 DEF StartCycle, Pause
<1>3. CASE \E l \in Locations : BeginCheck(l)
  BY <1>3 DEF BeginCheck
<1>4. CASE \E l \in Locations, r \in Results : CheckCommits(l, r) \/ CommitFails(l, r)
  BY <1>4 DEF CheckCommits, CommitFails, Onward
<1>5. CASE CheckRaises \/ Announce
  BY <1>5 DEF CheckRaises, Announce, NotifySubscribers, NotifyFails, SkipNotify,
              AlertAdmins, NothingToTell, Onward
<1>6. CASE Tick
  BY <1>6 DEF Tick, TypeOK, larger
<1>7. CASE ChangeSubscriptions
  BY <1>7 DEF ChangeSubscriptions
<1>8. CASE UNCHANGED vars
  BY <1>8 DEF vars
<1>9. QED
  BY <1>1, <1>2, <1>3, <1>4, <1>5, <1>6, <1>7, <1>8
  DEF Next, Schedule, FinishCheck, Surroundings

\* With a delay between checks, no check begins under the global throttle.
THEOREM ThrottleIsHonoured == Delay > 0 => (Spec => RateLimitHonoured)
<1> SUFFICES ASSUME Delay > 0
             PROVE  Spec => RateLimitHonoured
  OBVIOUS
<1>1. Init => LimitRuledOut
  BY DEF Init, LimitRuledOut
<1>2. TypeOK /\ LimitRuledOut /\ [Next]_vars => LimitRuledOut'
  BY LimitStep
<1>3. ASSUME TypeOK, LimitRuledOut, [Next]_vars, phase # "checking", phase' = "checking"
      PROVE  limited_for = 0
  <2>1. \E l \in Locations : BeginCheck(l)
    BY <1>3 DEF Next, Schedule, FinishCheck, Announce, Surroundings, vars, SkipCycle,
                StartCycle, PlanFails, EndCycle, AbortCycle, Pause, CheckCommits, CommitFails,
                CheckRaises, NotifySubscribers, NotifyFails, SkipNotify, AlertAdmins,
                NothingToTell, Tick, ChangeSubscriptions, Restart, Asleep, Rests, Onward
  <2>2. QED
    BY <1>3, <2>1 DEF BeginCheck, LimitRuledOut
<1>4. TypeOK /\ LimitRuledOut /\ [Next]_vars
        => (phase # "checking" /\ phase' = "checking" => limited_for = 0)
  BY <1>3
<1>5. QED
  BY <1>1, <1>2, <1>4, MonitoringTypes, PTL DEF Spec, RateLimitHonoured

-----------------------------------------------------------------------------
(* A cycle runs out of steps *)

LEMMA RanksOfPhases ==
  /\ StepsLeft["checking"] = 4 /\ StepsLeft["announcing"] = 3
  /\ StepsLeft["choosing"] = 2 /\ StepsLeft["pausing"] = 1
  /\ StepsLeft["sleeping"] = 0
BY DEF StepsLeft, Phases

\* Inside a cycle each step of the scheduler takes a location from the plan or
\* comes nearer to the next one.
LEMMA SchedulerDescends ==
  ASSUME TypeOK, phase # "sleeping", Schedule \/ FinishCheck \/ Announce
  PROVE  /\ todo' \subseteq todo
         /\ todo' # todo \/ StepsLeft[phase'] < StepsLeft[phase]
<1> USE RanksOfPhases
<1>1. CASE SkipCycle \/ StartCycle \/ PlanFails
  BY <1>1 DEF SkipCycle, StartCycle, PlanFails
<1>2. CASE EndCycle \/ AbortCycle
  <2>1. Rests(Interval) /\ phase = "choosing"
    BY <1>2 DEF EndCycle, AbortCycle
  <2>2. todo' = {} /\ phase' = "sleeping"
    BY <2>1 DEF Rests, Asleep
  <2>3. QED
    BY <2>1, <2>2
<1>3. CASE Pause
  BY <1>3 DEF Pause, cycle
<1>4. CASE \E l \in Locations : BeginCheck(l)
  BY <1>4 DEF BeginCheck, NextLocation
<1>5. CASE FinishCheck
  BY <1>5 DEF FinishCheck, CheckCommits, CommitFails, CheckRaises, Onward
<1>6. CASE Announce
  BY <1>6 DEF Announce, NotifySubscribers, NotifyFails, SkipNotify, AlertAdmins,
              NothingToTell, Onward
<1>7. QED
  BY <1>1, <1>2, <1>3, <1>4, <1>5, <1>6 DEF Schedule

\* Time, users and the end of the process do not lengthen a cycle.
LEMMA OthersDoNotAscend ==
  ASSUME TypeOK, Surroundings \/ UNCHANGED vars
  PROVE  todo' \subseteq todo /\ StepsLeft[phase'] <= StepsLeft[phase]
<1>1. StepsLeft[phase] \in Nat
  BY RanksOfPhases DEF TypeOK, Phases
<1>2. CASE Tick \/ ChangeSubscriptions \/ UNCHANGED vars
  BY <1>1, <1>2 DEF Tick, ChangeSubscriptions, vars, cycle
<1>3. CASE Restart
  <2>1. todo' = {} /\ phase' = "sleeping"
    BY <1>3 DEF Restart, Asleep
  <2>2. QED
    BY <1>1, <2>1, RanksOfPhases
<1>4. QED
  BY <1>2, <1>3 DEF Surroundings

\* A cycle is over after four steps for each planned location, and one.
THEOREM CyclesAreFinite == Spec => CycleDescends
<1>1. ASSUME TypeOK, TypeOK', [Next]_vars, phase # "sleeping"
      PROVE  /\ todo' \subseteq todo
             /\ todo' = todo => StepsLeft[phase'] <= StepsLeft[phase]
             /\ Schedule \/ FinishCheck \/ Announce =>
                  todo' # todo \/ StepsLeft[phase'] < StepsLeft[phase]
  <2>1. StepsLeft[phase] \in Nat /\ StepsLeft[phase'] \in Nat
    BY <1>1, RanksOfPhases DEF TypeOK, Phases
  <2>2. CASE Schedule \/ FinishCheck \/ Announce
    BY <1>1, <2>1, <2>2, SchedulerDescends
  <2>3. CASE ~(Schedule \/ FinishCheck \/ Announce)
    BY <1>1, <2>3, OthersDoNotAscend DEF Next
  <2>4. QED
    BY <2>2, <2>3
<1>2. TypeOK /\ TypeOK' /\ [Next]_vars =>
        (phase # "sleeping" =>
           /\ todo' \subseteq todo
           /\ todo' = todo => StepsLeft[phase'] <= StepsLeft[phase]
           /\ Schedule \/ FinishCheck \/ Announce =>
                todo' # todo \/ StepsLeft[phase'] < StepsLeft[phase])
  BY <1>1
<1>3. QED
  BY <1>2, MonitoringTypes, PTL DEF Spec, CycleDescends
=============================================================================
