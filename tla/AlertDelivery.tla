---------------------------- MODULE AlertDelivery ----------------------------
(***************************************************************************)
(* The scheduler task with the on_available callback it awaits: checks of  *)
(* MonitoringService, the fan-out of NotificationService and the updates   *)
(* of Subscriptions in one process.  What MonitoringService takes for one  *)
(* step, "subscribers are notified", is the fan-out with its reads here,   *)
(* and the subscriptions it plans by are those in the table.               *)
(***************************************************************************)
EXTENDS NotificationService

CONSTANTS
  Confirmations, Results, Cooldown, Backoff, Idle, Delay, Interval, Jitter, MaxCrashes

VARIABLES
  row, armed, cooling, limited_for, wake_in, phase, todo, preferred, first,
  target, decision, crashes,   \* of the scheduler task, as in MonitoringService
  owed   \* observer: users eligible ever since the pending alert was decided

inner == <<row, armed, limited_for, wake_in, phase, todo, preferred, first,
           target, decision, crashes>>
deliveryVars == <<fanVars, inner, cooling, owed>>

\* Locations somebody is subscribed to.
Watched == {l \in Locations : \E u \in Users : <<u, l>> \in subs}

Service == INSTANCE MonitoringService WITH subscribed <- Watched

\* As MonitoringService assumes of them.
ASSUME DeliveryAssumption ==
  Results \subseteq Service!CheckResult /\ Cooldown \in Nat /\ MaxCrashes \in Nat

(***************************************************************************)
(* check_location starts the cooldown before it awaits the callback, and   *)
(* MonitoringService when the callback has returned.                       *)
(***************************************************************************)
CooledWhenTold ==
  IF stage = "idle" THEN cooling ELSE [cooling EXCEPT ![about] = 0]

Monitor ==
  INSTANCE MonitoringService WITH subscribed <- Watched, cooling <- CooledWhenTold

DeliveryInit ==
  /\ FanInit
  /\ Service!Init
  /\ owed = {}

Eligible(l) == Subscribed(subs, l) \cap Reachable(users)

\* The scheduler plans, sleeps or waits for the site, or has nobody to tell.
TaskSteps ==
  /\ Between
  /\ \/ Service!Schedule \/ Service!CheckRaises \/ Service!Tick
     \/ \E l \in Locations, r \in Results : Service!CommitFails(l, r)
     \/ \E l \in Locations : Service!SkipNotify(l)
     \/ Service!NothingToTell
  /\ owed' = {}

CheckEnds ==
  /\ UNCHANGED <<svars, fan, watch>>
  /\ \E l \in Locations, r \in Results :
       /\ Service!CheckCommits(l, r)
       /\ owed' = IF decision'.notify THEN Eligible(l) ELSE {}

AdminsAlerted ==
  /\ AlertAdmins
  /\ \E l \in Locations : Service!AlertAdmins(l)
  /\ UNCHANGED owed

Tells_CooldownAfter(l) ==
  /\ phase = "announcing" /\ l \in target
  /\ decision.notify /\ cooling[l] = 0
  /\ NotifyBegins(l)
  /\ UNCHANGED <<inner, cooling, owed>>

\* check_location awaits on_available.
Tells(l) ==
  /\ phase = "announcing" /\ l \in target
  /\ decision.notify /\ cooling[l] = 0
  /\ NotifyBegins(l)
  /\ cooling' = [cooling EXCEPT ![l] = Cooldown]
  /\ UNCHANGED <<inner, owed>>

Reads ==
  /\ ListSubscriptions \/ LoadUsers
  /\ UNCHANGED <<inner, cooling, owed>>

\* on_available returns or raises, and the loop goes on either way.
ToldOrRaised ==
  /\ HandOver \/ FanOutRaises
  /\ Service!Onward
  /\ UNCHANGED <<row, armed, cooling, limited_for, crashes>>
  /\ owed' = {}

Updates ==
  /\ \/ \E t \in Tasks, op \in Ops, u \in Users, l \in Locations : Receive(t, op, u, l)
     \/ \E t \in Tasks : Handle(t)
     \/ \E u \in Users : Block(u)
  /\ Beside
  /\ UNCHANGED <<inner, cooling>>
  /\ owed' = {u \in owed : u \in Reachable(users') /\ {u} \X target \subseteq subs'}

ProcessRestarts ==
  /\ Restart /\ Done({})
  /\ Service!Restart
  /\ owed' = {}

DeliveryNext ==
  \/ TaskSteps \/ CheckEnds \/ AdminsAlerted
  \/ \E l \in Locations : Tells(l)
  \/ Reads \/ ToldOrRaised
  \/ Updates \/ ProcessRestarts

DeliverySpec == DeliveryInit /\ [][DeliveryNext]_deliveryVars

-----------------------------------------------------------------------------
(* Properties *)

\* With the fan-out for "subscribers are notified", and whatever users do in
\* the middle of it, the scheduler task behaves as MonitoringService.
MonitorRefined == Monitor!Spec

\* An alert that was decided reaches everybody who could be told of it from
\* the commit to the last message.  It is lost for them only when the cooldown
\* is on, when a read of the fan-out raises, or when the process ends: it is
\* kept nowhere but in the coroutine.
AlertsReachSubscribers ==
  [][phase = "announcing" /\ phase' # "announcing" =>
       \/ owed \subseteq told'
       \/ stage = "idle" /\ \E l \in target : cooling[l] > 0
       \/ FanOutRaises /\ ~HandOver
       \/ crashes' # crashes]_deliveryVars

\* The inductive invariant both follow from, with FanInv: a fan-out runs only
\* inside the announcement it belongs to, after its cooldown has started, and
\* whom it owes a message is among those its observer has not ruled out.
DeliveryInv ==
  /\ cooling \in [Locations -> Nat] /\ crashes \in Nat
  /\ phase \in {"checking", "announcing"} => \E l \in Locations : target = {l}
  /\ phase = "announcing" =>
       /\ ~(decision.notify /\ decision.alert)
       /\ ~decision.notify => owed = {}
       /\ stage = "idle" => \A l \in target : owed \subseteq Eligible(l)
  /\ stage # "idle" =>
       /\ phase = "announcing" /\ target = {about} /\ about \in Locations
       /\ decision.notify /\ cooling[about] = Cooldown
       /\ owed \subseteq always
=============================================================================
