---------------------------- MODULE DeliveryProofs ----------------------------
(***************************************************************************)
(* Proofs about the fan-out of an alert, by itself and awaited by the      *)
(* scheduler task, for any users, locations, results, settings and number  *)
(* of updates and restarts.                                                *)
(***************************************************************************)
EXTENDS AlertDelivery, TLAPS

-----------------------------------------------------------------------------
(* The fan-out of an alert *)

LEMMA FanInitial == FanInit => FanInv
BY DEF FanInit, FanInv

\* While the fan-out is between two steps, the observer only loses users from
\* "always" and only adds to "ever".
LEMMA WatchKeeps ==
  ASSUME FanInv, Beside
  PROVE  FanInv'
BY DEF FanInv, Beside, Observe, reading, watch

LEMMA FanStep == FanInv /\ [FanNext]_fanVars => FanInv'
<1> SUFFICES ASSUME FanInv, [FanNext]_fanVars PROVE FanInv'
  OBVIOUS
<1>1. ASSUME NEW l \in Locations, NotifyBegins(l) PROVE FanInv'
  BY <1>1 DEF NotifyBegins, FanInv, svars, tables
<1>2. CASE ListSubscriptions
  BY <1>2 DEF ListSubscriptions, FanInv, svars, tables, watch
<1>3. CASE LoadUsers
  BY <1>3 DEF LoadUsers, FanInv, svars, tables, watch
<1>4. CASE HandOver \/ FanOutRaises \/ (Restart /\ Done({}))
  BY <1>4 DEF HandOver, FanOutRaises, Done, FanInv
<1>5. CASE AlertAdmins \/ Between
  BY <1>5 DEF AlertAdmins, Between, reading, FanInv, watch
<1>6. CASE Beside
  BY <1>6, WatchKeeps
<1>7. CASE UNCHANGED fanVars
  BY <1>7 DEF fanVars, fan, watch, svars, tables, FanInv
<1>8. QED
  BY <1>1, <1>2, <1>3, <1>4, <1>5, <1>6, <1>7 DEF FanNext

THEOREM FanInvariance == FanSpec => []FanInv
BY FanInitial, FanStep, PTL DEF FanSpec

\* Whoever could be told during the whole fan-out is told, for any users and
\* any updates that commit between its reads.
THEOREM SubscribersAreTold == FanSpec => EverySubscriberTold
<1>1. FanInv /\ [FanNext]_fanVars => [HandOver => always \subseteq told']_fanVars
  BY DEF FanInv, HandOver, Done
<1>2. QED
  BY <1>1, FanInvariance, PTL DEF FanSpec, EverySubscriberTold

\* Nobody is told who was not subscribed and active during the fan-out.
THEOREM OnlySubscribersAreTold == FanSpec => NobodyElseTold
<1>1. FanInv /\ [FanNext]_fanVars =>
        [HandOver => told' \subseteq ever.subscribed \cap ever.reachable]_fanVars
  BY DEF FanInv, HandOver, Done
<1>2. QED
  BY <1>1, FanInvariance, PTL DEF FanSpec, NobodyElseTold

\* The fan-out disturbs nothing: what holds of Subscriptions holds beside it.
THEOREM FanOutOnlyReads == FanSpec => SubsSpec
<1>1. FanInit => Init
  BY DEF FanInit
<1>2. [FanNext]_fanVars => [SubsNext]_svars
  <2> SUFFICES ASSUME [FanNext]_fanVars PROVE [SubsNext]_svars
    OBVIOUS
  <2>1. CASE UNCHANGED svars
    BY <2>1
  <2>2. CASE SubsNext
    BY <2>2
  <2>3. QED
    BY <2>1, <2>2 DEF FanNext, SubsNext, NotifyBegins, ListSubscriptions, LoadUsers,
                      HandOver, FanOutRaises, AlertAdmins, Between, fanVars
<1>3. QED
  BY <1>1, <1>2, PTL DEF FanSpec, SubsSpec

-----------------------------------------------------------------------------
(* The fan-out inside the scheduler task *)

LEMMA FanOutStep == [DeliveryNext]_deliveryVars => [FanNext]_fanVars
<1> SUFFICES ASSUME [DeliveryNext]_deliveryVars PROVE [FanNext]_fanVars
  OBVIOUS
<1>1. CASE TaskSteps
  BY <1>1 DEF TaskSteps, FanNext
<1>2. CASE CheckEnds
  BY <1>2 DEF CheckEnds, fanVars
<1>3. CASE AdminsAlerted
  BY <1>3 DEF AdminsAlerted, FanNext
<1>4. ASSUME NEW l \in Locations, Tells(l) PROVE FanNext
  BY <1>4 DEF Tells, FanNext
<1>5. CASE Reads \/ ToldOrRaised
  BY <1>5 DEF Reads, ToldOrRaised, FanNext
<1>6. CASE Updates
  BY <1>6 DEF Updates, FanNext
<1>7. CASE ProcessRestarts
  BY <1>7 DEF ProcessRestarts, FanNext
<1>8. CASE UNCHANGED deliveryVars
  BY <1>8 DEF deliveryVars
<1>9. QED
  BY <1>1, <1>2, <1>3, <1>4, <1>5, <1>6, <1>7, <1>8 DEF DeliveryNext

\* The fan-out that the scheduler task awaits is the one of
\* NotificationService: what is proved of it holds inside the task.
THEOREM TaskFansOut == DeliverySpec => FanSpec
<1>1. DeliveryInit => FanInit
  BY DEF DeliveryInit
<1>2. QED
  BY <1>1, FanOutStep, PTL DEF DeliverySpec, FanSpec

-----------------------------------------------------------------------------
(* The invariant *)

LEMMA DeliveryInitial == DeliveryInit => DeliveryInv
BY DEF DeliveryInit, DeliveryInv, FanInit, Service!Init

\* A decision asks for subscribers or for administrators, not for both.
LEMMA OneAudience ==
  ASSUME NEW current, NEW available, NEW failed, NEW r \in Service!CheckResult, NEW was,
         NEW d, d = Service!Transition(current, available, failed, r, was)
  PROVE  ~(d.notify /\ d.alert)
<1> USE DEF Service!Silent
<1>1. r.outcome \in Service!CheckOutcome /\ r.limited \in BOOLEAN
  BY DEF Service!CheckResult
<1>2. CASE r.limited
  BY <1>1, <1>2 DEF Service!Transition
<1>3. CASE ~r.limited /\ r.outcome \in Service!FailureOutcomes
  <2>1. d.notify = FALSE
    BY <1>1, <1>3 DEF Service!Transition, Service!FailureOutcomes, Service!AvailabilityOutcomes
  <2>2. QED
    BY <2>1
<1>4. CASE ~r.limited /\ r.outcome \in {"unknown", "no_slots"}
  BY <1>1, <1>4 DEF Service!Transition, Service!FailureOutcomes, Service!AvailabilityOutcomes
<1>5. CASE ~r.limited /\ r.outcome \in Service!AvailabilityOutcomes
  <2>1. r.outcome # "no_slots" /\ r.outcome # "unknown" /\ r.outcome \notin Service!FailureOutcomes
    BY <1>5 DEF Service!FailureOutcomes, Service!AvailabilityOutcomes
  <2>2. d.alert = FALSE
    BY <1>1, <1>5, <2>1 DEF Service!Transition
  <2>3. QED
    BY <2>2
<1>6. QED
  BY <1>1, <1>2, <1>3, <1>4, <1>5 DEF Service!CheckOutcome

\* What the scheduler does between fan-outs.
LEMMA TaskKeeps ==
  ASSUME DeliveryInv, TaskSteps
  PROVE  DeliveryInv'
<1> USE DEF DeliveryInv, Service!memory, Service!cycle, Service!Asleep, Service!Onward
<1>1. stage = "idle" /\ stage' = "idle" /\ owed' = {}
  BY DEF TaskSteps, Between, reading
<1>2. CASE Service!SkipCycle \/ Service!PlanFails \/ Service!EndCycle \/ Service!AbortCycle
  BY <1>1, <1>2 DEF Service!SkipCycle, Service!PlanFails, Service!EndCycle,
                    Service!AbortCycle, Service!Rests
<1>3. CASE Service!StartCycle \/ Service!Pause
  BY <1>1, <1>3 DEF Service!StartCycle, Service!Pause
<1>4. ASSUME NEW l \in Locations, Service!BeginCheck(l) PROVE DeliveryInv'
  BY <1>1, <1>4 DEF Service!BeginCheck
<1>5. CASE Service!CheckRaises
  BY <1>1, <1>5 DEF Service!CheckRaises
<1>6. CASE Service!Tick
  <2>1. UNCHANGED <<phase, target, decision, crashes>>
    BY <1>6 DEF Service!Tick
  <2>2. cooling' = [l \in Locations |-> Service!larger(cooling[l] - 1, 0)]
    BY <1>6 DEF Service!Tick
  <2>3. \A l \in Locations : Service!larger(cooling[l] - 1, 0) \in Nat
    BY DEF Service!larger
  <2>4. cooling' \in [Locations -> Nat]
    BY <2>2, <2>3
  <2>5. QED
    BY <1>1, <2>1, <2>4
<1>7. ASSUME NEW l \in Locations, NEW r \in Results, Service!CommitFails(l, r)
      PROVE DeliveryInv'
  BY <1>1, <1>7 DEF Service!CommitFails
<1>8. CASE Service!NothingToTell \/ \E l \in Locations : Service!SkipNotify(l)
  BY <1>1, <1>8 DEF Service!NothingToTell, Service!SkipNotify
<1>9. QED
  BY <1>2, <1>3, <1>4, <1>5, <1>6, <1>7, <1>8 DEF TaskSteps, Service!Schedule

\* The commit that decides: whoever can be told now is owed the alert.
LEMMA CheckEndKeeps ==
  ASSUME DeliveryInv, CheckEnds
  PROVE  DeliveryInv'
<1>1. PICK l \in Locations, r \in Results :
        /\ Service!CheckCommits(l, r)
        /\ owed' = IF decision'.notify THEN Eligible(l) ELSE {}
  BY DEF CheckEnds
<1>2. /\ phase = "checking" /\ phase' = "announcing" /\ target = {l}
      /\ UNCHANGED <<target, cooling, crashes>>
      /\ decision' = Service!DecisionFor(l, r)
  BY <1>1 DEF Service!CheckCommits, DeliveryInv
<1>3. stage = "idle" /\ stage' = "idle" /\ UNCHANGED <<subs, users>>
  BY <1>2 DEF CheckEnds, DeliveryInv, fan, svars, tables
<1>4. ~(decision'.notify /\ decision'.alert)
  BY <1>2, OneAudience, DeliveryAssumption DEF Service!DecisionFor
<1>5. \A k \in target' : owed' \subseteq Eligible(k)'
  BY <1>1, <1>2, <1>3 DEF Eligible, Subscribed, Reachable
<1>6. QED
  BY <1>1, <1>2, <1>3, <1>4, <1>5 DEF DeliveryInv

LEMMA TellingKeeps ==
  ASSUME DeliveryInv, FanInv, NEW l \in Locations, Tells(l)
  PROVE  DeliveryInv'
<1>1. cooling' = [cooling EXCEPT ![l] = Cooldown] /\ cooling' \in [Locations -> Nat]
  BY DeliveryAssumption DEF Tells, DeliveryInv
<1>2. /\ phase = "announcing" /\ target = {l} /\ decision.notify
      /\ stage = "idle" /\ stage' = "listing" /\ about' = l
      /\ always' = Eligible(l)
      /\ UNCHANGED <<phase, target, decision, crashes, owed>>
  BY DEF Tells, DeliveryInv, NotifyBegins, Eligible, inner
<1>3. owed \subseteq Eligible(l)
  BY <1>2 DEF DeliveryInv
<1>4. cooling'[l] = Cooldown
  BY <1>1 DEF DeliveryInv
<1>5. QED
  BY <1>1, <1>2, <1>3, <1>4 DEF DeliveryInv

LEMMA ReadingKeeps ==
  ASSUME DeliveryInv, Reads
  PROVE  DeliveryInv'
<1>1. /\ stage \in {"listing", "loading"} /\ stage' \in {"loading", "handing_over"}
      /\ UNCHANGED <<about, always, phase, target, decision, crashes, cooling, owed>>
  BY DEF Reads, ListSubscriptions, LoadUsers, inner, watch
<1>2. QED
  BY <1>1 DEF DeliveryInv

LEMMA ReturnKeeps ==
  ASSUME DeliveryInv, ToldOrRaised \/ AdminsAlerted \/ ProcessRestarts
  PROVE  DeliveryInv'
<1>1. CASE ToldOrRaised
  BY <1>1 DEF ToldOrRaised, HandOver, FanOutRaises, Done, Service!Onward, DeliveryInv
<1>2. CASE AdminsAlerted
  BY <1>2 DEF AdminsAlerted, AlertAdmins, Service!AlertAdmins, Service!Onward,
              Service!memory, DeliveryInv
<1>3. CASE ProcessRestarts
  BY <1>3 DEF ProcessRestarts, Done, Service!Restart, Service!Asleep, DeliveryInv
<1>4. QED
  BY <1>1, <1>2, <1>3

\* An update takes nobody into what is owed, and out of it whom it takes out
\* of what the fan-out's observer has.
LEMMA UpdatesKeep ==
  ASSUME DeliveryInv, Updates
  PROVE  DeliveryInv'
<1>1. /\ UNCHANGED <<phase, target, decision, crashes, cooling, stage, about>>
      /\ owed' = {u \in owed : u \in Reachable(users') /\ {u} \X target \subseteq subs'}
      /\ Observe
  BY DEF Updates, Beside, inner, reading
<1>2. ASSUME NEW l \in target, owed \subseteq Users
      PROVE owed' \subseteq Eligible(l)'
  BY <1>1, <1>2 DEF Eligible, Subscribed, Reachable
<1>3. CASE stage = "idle"
  <2>1. phase = "announcing" => \A l \in target : owed' \subseteq Eligible(l)'
    BY <1>2, <1>3 DEF DeliveryInv, Eligible, Subscribed
  <2>2. QED
    BY <1>1, <1>3, <2>1 DEF DeliveryInv
<1>4. CASE stage # "idle"
  <2>1. target = {about} /\ owed \subseteq always
    BY <1>4 DEF DeliveryInv
  <2>2. always' = always \cap Subscribed(subs', about) \cap Reachable(users')
    BY <1>1, <1>4 DEF Observe
  <2>3. \A u \in owed' : u \in always /\ <<u, about>> \in subs' /\ u \in Reachable(users')
    BY <1>1, <2>1
  <2>4. owed' \subseteq always'
    BY <2>2, <2>3 DEF Subscribed, Reachable
  <2>5. QED
    BY <1>1, <1>4, <2>4 DEF DeliveryInv
<1>5. QED
  BY <1>3, <1>4

LEMMA DeliveryStep ==
  DeliveryInv /\ FanInv /\ [DeliveryNext]_deliveryVars => DeliveryInv'
<1> SUFFICES ASSUME DeliveryInv, FanInv, [DeliveryNext]_deliveryVars PROVE DeliveryInv'
  OBVIOUS
<1>1. CASE UNCHANGED deliveryVars
  BY <1>1 DEF deliveryVars, fanVars, fan, watch, inner, svars, tables, DeliveryInv,
              Eligible
<1>2. CASE DeliveryNext
  BY <1>2, TaskKeeps, CheckEndKeeps, TellingKeeps, ReadingKeeps, ReturnKeeps, UpdatesKeep
     DEF DeliveryNext
<1>3. QED
  BY <1>1, <1>2

THEOREM DeliveryInvariance == DeliverySpec => [](DeliveryInv /\ FanInv)
<1>1. DeliverySpec => []FanInv
  BY TaskFansOut, FanInvariance, PTL
<1>2. QED
  BY <1>1, DeliveryInitial, DeliveryStep, PTL DEF DeliverySpec

-----------------------------------------------------------------------------
(* What becomes of an alert *)

\* Whoever could be told from the decision to the last message is, unless the
\* cooldown, an exception or the end of the process comes in between.
THEOREM AlertsAreDelivered == DeliverySpec => AlertsReachSubscribers
<1> DEFINE Outcome ==
      \/ owed \subseteq told'
      \/ stage = "idle" /\ \E l \in target : cooling[l] > 0
      \/ FanOutRaises /\ ~HandOver
      \/ crashes' # crashes
<1>1. ASSUME DeliveryInv, FanInv, DeliveryNext, phase = "announcing", phase' # "announcing"
      PROVE  Outcome
  <2>1. CASE TaskSteps
    <3>1. stage = "idle"
      BY <2>1 DEF TaskSteps, Between
    <3>2. CASE Service!Schedule
      BY <1>1, <3>2 DEF Service!Schedule, Service!SkipCycle, Service!StartCycle,
         Service!PlanFails, Service!EndCycle, Service!AbortCycle, Service!Pause,
         Service!BeginCheck
    <3>3. CASE \/ Service!CheckRaises \/ Service!Tick
               \/ \E l \in Locations, r \in Results : Service!CommitFails(l, r)
      BY <1>1, <3>3 DEF Service!CheckRaises, Service!Tick, Service!CommitFails
    <3>4. CASE \E l \in Locations : Service!SkipNotify(l)
      BY <3>1, <3>4 DEF Service!SkipNotify
    <3>5. CASE Service!NothingToTell
      BY <1>1, <3>5 DEF Service!NothingToTell, DeliveryInv
    <3>6. QED
      BY <2>1, <3>2, <3>3, <3>4, <3>5 DEF TaskSteps
  <2>2. CASE CheckEnds
    BY <1>1, <2>2 DEF CheckEnds, Service!CheckCommits
  <2>3. CASE AdminsAlerted
    BY <1>1, <2>3 DEF AdminsAlerted, Service!AlertAdmins, DeliveryInv
  <2>4. CASE (\E l \in Locations : Tells(l)) \/ Reads \/ Updates
    BY <1>1, <2>4 DEF Tells, Reads, Updates, inner
  <2>5. CASE ToldOrRaised
    <3>1. CASE HandOver
      BY <1>1, <3>1 DEF HandOver, Done, DeliveryInv, FanInv
    <3>2. CASE FanOutRaises /\ ~HandOver
      BY <3>2
    <3>3. QED
      BY <2>5, <3>1, <3>2 DEF ToldOrRaised
  <2>6. CASE ProcessRestarts
    BY <1>1, <2>6 DEF ProcessRestarts, Service!Restart, DeliveryInv
  <2>7. QED
    BY <1>1, <2>1, <2>2, <2>3, <2>4, <2>5, <2>6 DEF DeliveryNext
<1>2. DeliveryInv /\ FanInv /\ [DeliveryNext]_deliveryVars =>
        [phase = "announcing" /\ phase' # "announcing" => Outcome]_deliveryVars
  BY <1>1
<1> HIDE DEF Outcome
<1>3. QED
  BY <1>2, DeliveryInvariance, PTL DEF DeliverySpec, AlertsReachSubscribers, Outcome

-----------------------------------------------------------------------------
(* The task refines MonitoringService *)

\* Between fan-outs the two specifications speak of the same state.
LEMMA SameBetween ==
  ASSUME stage = "idle", stage' = "idle", UNCHANGED subs
  PROVE  CooledWhenTold = cooling /\ CooledWhenTold' = cooling' /\ Watched' = Watched
BY DEF CooledWhenTold, Watched

LEMMA SameOperators ==
  /\ Service!NoDecision = Monitor!NoDecision
  /\ Service!AgeCap = Monitor!AgeCap
  /\ \A a, b : /\ Service!smaller(a, b) = Monitor!smaller(a, b)
               /\ Service!larger(a, b) = Monitor!larger(a, b)
BY DEF Service!NoDecision, Monitor!NoDecision, Service!Silent, Monitor!Silent,
       Service!AgeCap, Monitor!AgeCap, Service!smaller, Monitor!smaller,
       Service!larger, Monitor!larger

\* What is decided and remembered does not depend on the cooldowns.
LEMMA SameDecision ==
  ASSUME NEW l, NEW r
  PROVE  /\ Service!DecisionFor(l, r) = Monitor!DecisionFor(l, r)
         /\ Service!Remember(l, r) <=> Monitor!Remember(l, r)
         /\ Service!SavedRow(l, r) = Monitor!SavedRow(l, r)
<1>1. Service!ArmedBefore(l, r) = Monitor!ArmedBefore(l, r)
  BY DEF Service!ArmedBefore, Monitor!ArmedBefore, Service!ArmedAfter, Monitor!ArmedAfter,
         Service!EffectiveStatus, Monitor!EffectiveStatus
<1>2. Service!DecisionFor(l, r) = Monitor!DecisionFor(l, r)
  BY <1>1 DEF Service!DecisionFor, Monitor!DecisionFor, Service!EffectiveStatus,
     Monitor!EffectiveStatus, Service!Transition, Monitor!Transition, Service!Silent,
     Monitor!Silent, Service!Confirmed, Monitor!Confirmed, Service!FailureOutcomes,
     Monitor!FailureOutcomes, Service!AvailabilityOutcomes, Monitor!AvailabilityOutcomes,
     Service!AdminAlertAfter, Monitor!AdminAlertAfter
<1>3. QED
  BY <1>1, <1>2 DEF Service!Remember, Monitor!Remember, Service!ArmedAfter,
     Monitor!ArmedAfter, Service!larger, Monitor!larger, Service!SavedRow, Monitor!SavedRow,
     Service!smaller, Monitor!smaller, Service!AdminAlertAfter, Monitor!AdminAlertAfter

LEMMA TaskRefines == TaskSteps => Monitor!Next
<1> SUFFICES ASSUME TaskSteps PROVE Monitor!Next
  OBVIOUS
<1> USE DEF Monitor!Next, Monitor!Schedule, Monitor!FinishCheck, Monitor!Announce,
            Monitor!Surroundings, Service!memory, Monitor!memory, Service!cycle,
            Monitor!cycle, Service!Asleep, Monitor!Asleep, Service!Onward, Monitor!Onward
<1>1. CooledWhenTold = cooling /\ CooledWhenTold' = cooling' /\ Watched' = Watched
  BY SameBetween DEF TaskSteps, Between, reading, svars, tables
<1> USE SameOperators
<1>2. CASE Service!SkipCycle
  BY <1>1, <1>2 DEF Service!SkipCycle, Monitor!SkipCycle, Service!Rests, Monitor!Rests
<1>3. CASE Service!PlanFails
  BY <1>1, <1>3 DEF Service!PlanFails, Monitor!PlanFails, Service!Rests, Monitor!Rests
<1>4. CASE Service!EndCycle \/ Service!AbortCycle
  BY <1>1, <1>4 DEF Service!EndCycle, Monitor!EndCycle, Service!AbortCycle,
                    Monitor!AbortCycle, Service!Rests, Monitor!Rests
<1>5. CASE Service!StartCycle
  BY <1>1, <1>5 DEF Service!StartCycle, Monitor!StartCycle, Service!DueForCheck,
                    Monitor!DueForCheck
<1>6. CASE Service!Pause \/ \E l \in Locations : Service!BeginCheck(l)
  BY <1>1, <1>6 DEF Service!Pause, Monitor!Pause, Service!BeginCheck, Monitor!BeginCheck,
                    Service!NextLocation, Monitor!NextLocation
<1>7. CASE Service!CheckRaises
  BY <1>1, <1>7 DEF Service!CheckRaises, Monitor!CheckRaises
<1>8. CASE Service!Tick
  BY <1>1, <1>8 DEF Service!Tick, Monitor!Tick
<1>9. CASE \E l \in Locations, r \in Results : Service!CommitFails(l, r)
  BY <1>1, <1>9, SameDecision DEF Service!CommitFails, Monitor!CommitFails
<1>10. CASE Service!NothingToTell \/ \E l \in Locations : Service!SkipNotify(l)
  BY <1>1, <1>10 DEF Service!NothingToTell, Monitor!NothingToTell, Service!SkipNotify,
                     Monitor!SkipNotify
<1>11. QED
  BY <1>2, <1>3, <1>4, <1>5, <1>6, <1>7, <1>8, <1>9, <1>10 DEF TaskSteps, Service!Schedule

\* The fan-out's return is the moment at which subscribers are notified, or
\* at which that fails; its cooldown is on by then in both.
LEMMA ReturnRefines ==
  ASSUME DeliveryInv, ToldOrRaised
  PROVE  \E l \in Locations : Monitor!NotifySubscribers(l) \/ Monitor!NotifyFails(l)
<1>1. /\ stage # "idle" /\ stage' = "idle"
      /\ UNCHANGED <<svars, row, armed, cooling, limited_for, crashes>>
      /\ Service!Onward
  BY DEF ToldOrRaised, HandOver, FanOutRaises, Done
<1>2. /\ phase = "announcing" /\ target = {about} /\ about \in Locations
      /\ decision.notify /\ cooling[about] = Cooldown
      /\ cooling \in [Locations -> Nat]
  BY <1>1 DEF DeliveryInv
<1>3. CooledWhenTold[about] = 0
  BY <1>1, <1>2 DEF CooledWhenTold
<1>4. CooledWhenTold' = [CooledWhenTold EXCEPT ![about] = Cooldown]
  <2>1. CooledWhenTold' = cooling
    BY <1>1 DEF CooledWhenTold
  <2>2. CooledWhenTold = [cooling EXCEPT ![about] = 0]
    BY <1>1 DEF CooledWhenTold
  <2>3. cooling = [[cooling EXCEPT ![about] = 0] EXCEPT ![about] = cooling[about]]
    BY <1>2
  <2>4. QED
    BY <1>2, <2>1, <2>2, <2>3
<1>5. Watched' = Watched
  BY <1>1 DEF Watched, svars, tables
<1>6. Monitor!Onward
  BY <1>1, SameOperators DEF Service!Onward, Monitor!Onward
<1>7. Monitor!NotifySubscribers(about)
  BY <1>1, <1>2, <1>3, <1>4, <1>5, <1>6 DEF Monitor!NotifySubscribers
<1>8. QED
  BY <1>2, <1>7

\* Until then MonitoringService sees nothing of the fan-out.
LEMMA FanOutIsHidden ==
  ASSUME DeliveryInv, Reads \/ \E l \in Locations : Tells(l)
  PROVE  UNCHANGED Monitor!vars
<1> USE DEF Monitor!vars, Monitor!memory, Monitor!cycle, inner
<1>1. CASE Reads
  <2>1. stage # "idle" /\ stage' # "idle" /\ UNCHANGED <<svars, about, inner, cooling>>
    BY <1>1 DEF Reads, ListSubscriptions, LoadUsers
  <2>2. CooledWhenTold' = CooledWhenTold /\ Watched' = Watched
    BY <2>1 DEF CooledWhenTold, Watched, svars, tables
  <2>3. QED
    BY <2>1, <2>2
<1>2. ASSUME NEW l \in Locations, Tells(l) PROVE UNCHANGED Monitor!vars
  <2>1. /\ stage = "idle" /\ stage' = "listing" /\ about' = l
        /\ cooling[l] = 0 /\ cooling' = [cooling EXCEPT ![l] = Cooldown]
        /\ UNCHANGED <<svars, inner>>
    BY <1>2 DEF Tells, NotifyBegins
  <2>2. Watched' = Watched
    BY <2>1 DEF Watched, svars, tables
  <2>3. CooledWhenTold' = [[cooling EXCEPT ![l] = Cooldown] EXCEPT ![l] = 0]
    BY <2>1 DEF CooledWhenTold
  <2>4. [[cooling EXCEPT ![l] = Cooldown] EXCEPT ![l] = 0] = cooling
    BY <2>1 DEF DeliveryInv
  <2>5. CooledWhenTold' = CooledWhenTold
    BY <2>1, <2>3, <2>4 DEF CooledWhenTold
  <2>6. QED
    BY <2>1, <2>2, <2>5
<1>3. QED
  BY <1>1, <1>2

LEMMA DeliveryRefines ==
  ASSUME DeliveryInv, [DeliveryNext]_deliveryVars
  PROVE  [Monitor!Next]_(Monitor!vars)
<1> USE SameOperators DEF Monitor!Next, Monitor!FinishCheck, Monitor!Announce,
        Monitor!Surroundings, Service!memory, Monitor!memory, Monitor!cycle
<1>1. CASE TaskSteps
  BY <1>1, TaskRefines
<1>2. CASE CheckEnds
  <2>1. PICK l \in Locations, r \in Results : Service!CheckCommits(l, r)
    BY <1>2 DEF CheckEnds
  <2>2. stage = "idle" /\ stage' = "idle" /\ UNCHANGED subs
    BY <1>2, <2>1 DEF CheckEnds, Service!CheckCommits, DeliveryInv, fan, svars, tables
  <2>3. Monitor!CheckCommits(l, r)
    BY <2>1, <2>2, SameBetween, SameDecision DEF Service!CheckCommits, Monitor!CheckCommits
  <2>4. QED
    BY <2>3
<1>3. CASE AdminsAlerted
  <2>1. PICK l \in Locations : Service!AlertAdmins(l)
    BY <1>3 DEF AdminsAlerted
  <2>2. stage = "idle" /\ stage' = "idle" /\ UNCHANGED subs
    BY <1>3 DEF AdminsAlerted, AlertAdmins, svars, tables
  <2>3. Monitor!AlertAdmins(l)
    BY <2>1, <2>2, SameBetween DEF Service!AlertAdmins, Monitor!AlertAdmins,
       Service!Onward, Monitor!Onward
  <2>4. QED
    BY <2>3
<1>4. CASE Reads \/ \E l \in Locations : Tells(l)
  BY <1>4, FanOutIsHidden
<1>5. CASE ToldOrRaised
  BY <1>5, ReturnRefines
<1>6. CASE Updates
  <2>1. UNCHANGED <<inner, cooling, stage, about>>
    BY <1>6 DEF Updates, Beside, reading
  <2>2. CooledWhenTold' = CooledWhenTold
    BY <2>1 DEF CooledWhenTold
  <2>3. Watched' \in SUBSET Locations
    BY DEF Watched
  <2>4. Monitor!ChangeSubscriptions
    BY <2>1, <2>2, <2>3 DEF Monitor!ChangeSubscriptions, inner
  <2>5. QED
    BY <2>4
<1>7. CASE ProcessRestarts
  <2>1. stage' = "idle" /\ UNCHANGED subs /\ Service!Restart
    BY <1>7 DEF ProcessRestarts, Done, Restart, tables
  <2>2. CooledWhenTold' = cooling' /\ Watched' = Watched
    BY <2>1 DEF CooledWhenTold, Watched
  <2>3. Monitor!Restart
    BY <2>1, <2>2 DEF Service!Restart, Monitor!Restart, Service!Asleep, Monitor!Asleep
  <2>4. QED
    BY <2>3
<1>8. CASE UNCHANGED deliveryVars
  BY <1>8 DEF deliveryVars, fanVars, fan, inner, svars, tables, Monitor!vars,
              CooledWhenTold, Watched
<1>9. QED
  BY <1>1, <1>2, <1>3, <1>4, <1>5, <1>6, <1>7, <1>8 DEF DeliveryNext

\* What MonitoringService takes for one step, with subscriptions that change
\* at will, is what the fan-out and the updates do: its properties hold of the
\* whole.
THEOREM TaskRefinesMonitoring == DeliverySpec => MonitorRefined
<1>1. DeliveryInit => Monitor!Init
  BY SameOperators DEF DeliveryInit, FanInit, Service!Init, Monitor!Init, CooledWhenTold,
     Watched, Service!NewRow, Monitor!NewRow
<1>2. QED
  BY <1>1, DeliveryRefines, DeliveryInvariance, PTL
     DEF DeliverySpec, MonitorRefined, Monitor!Spec
=============================================================================
