----------------------------- MODULE AlertsProofs -----------------------------
(***************************************************************************)
(* Proofs about MonitoringService with its history: which alerts it sends, *)
(* and what they rest on.                                                  *)
(***************************************************************************)
EXTENDS MonitoringAlerts, MonitoringProofs

USE ConfirmationsAssumption, LocationsAssumption, ResultsAssumption, SettingsAssumption

-----------------------------------------------------------------------------
(* What an answer makes of a location *)

LEMMA AnswerDecides ==
  ASSUME NEW current \in LocationStatus, NEW available \in Nat, NEW failed \in Nat,
         NEW r \in CheckResult, NEW was \in BOOLEAN
  PROVE  LET d == Transition(current, available, failed, r, was) IN
         /\ d \in Decision
         /\ r.limited => d = Silent(current, available, failed)
         /\ IsNoSlots(r) => d = Silent("no_slots", 0, 0)
         /\ IsBroken(r) =>
              /\ d.status \in {"error", "unknown"}
              /\ d.available = 0 /\ ~d.notify
         /\ IsAvailable(r) /\ available + 1 < Confirmations =>
              d = Silent("possibly_available", available + 1, 0)
         /\ IsAvailable(r) /\ available + 1 >= Confirmations =>
              /\ d.status = "available" /\ d.available = available + 1
              /\ d.notify = (was /\ current \in {"no_slots", "possibly_available"})
BY TransitionBranches DEF IsNoSlots, IsAvailable, IsBroken

-----------------------------------------------------------------------------
(* The inductive invariant of the alerts *)

LEMMA AlertsInvInit == AlertsInit => AlertsInv
<1> SUFFICES ASSUME AlertsInit
             PROVE  AlertsInv
  OBVIOUS
<1>1. TypeOK
  BY TypeInit DEF AlertsInit
<1>2. HistoryTypeOK
  BY DEF AlertsInit, HistoryTypeOK, LocationStatus
<1>3. \A l \in Locations : Spent(l) /\ Counted(l) /\ Evident(l) /\ Ready(l) /\ Pending(l)
  BY DEF AlertsInit, Init, NewRow, Spent, Counted, Evident, Ready, Pending
<1>4. ~decision.notify /\ target = {}
  BY DEF AlertsInit, Init, NoDecision, Silent
<1>5. QED
  BY <1>1, <1>2, <1>3, <1>4 DEF AlertsInv

\* A location keeps its part of the invariant as long as what it speaks of
\* stays the same; the age of the row and its dates are not among that.
LEMMA LocationFrame ==
  ASSUME NEW l \in Locations,
         Spent(l), Counted(l), Evident(l), Ready(l),
         row'[l].current_status = row[l].current_status,
         row'[l].previous_status = row[l].previous_status,
         row'[l].available_checks = row[l].available_checks,
         armed'[l] = armed[l], seen'[l] = seen[l], streak'[l] = streak[l],
         evidence'[l] = evidence[l], clean'[l] = clean[l]
  PROVE  Spent(l)' /\ Counted(l)' /\ Evident(l)' /\ Ready(l)'
BY DEF Spent, Counted, Evident, Ready

\* Steps that only move the scheduler, and leave no alert pending.
LEMMA SchedulerFrame ==
  ASSUME AlertsInv, TypeOK', UNCHANGED <<row, armed, history>>,
         ~decision'.notify, \A k, l \in target' : k = l
  PROVE  AlertsInv'
<1>1. HistoryTypeOK'
  BY DEF AlertsInv, HistoryTypeOK, history
<1>2. \A l \in Locations : Spent(l)' /\ Counted(l)' /\ Evident(l)' /\ Ready(l)'
  BY LocationFrame DEF AlertsInv, history
<1>3. \A l \in Locations : Pending(l)'
  BY DEF Pending
<1>4. QED
  BY <1>1, <1>2, <1>3 DEF AlertsInv

LEMMA NoDecisionIsSilent == ~NoDecision.notify
BY DEF NoDecision, Silent

LEMMA ScheduleKeeps ==
  ASSUME AlertsInv, TypeOK', Schedule, UNCHANGED history
  PROVE  AlertsInv'
<1>1. UNCHANGED <<row, armed>>
  BY DEF Schedule, SkipCycle, StartCycle, PlanFails, EndCycle, AbortCycle, Pause,
         BeginCheck, memory
<1>2. ~decision'.notify
  BY NoDecisionIsSilent
  DEF Schedule, SkipCycle, StartCycle, PlanFails, EndCycle, AbortCycle, Pause,
      BeginCheck, Asleep, Rests, cycle, AlertsInv
<1>3. \A k, l \in target' : k = l
  BY DEF Schedule, SkipCycle, StartCycle, PlanFails, EndCycle, AbortCycle, Pause,
         BeginCheck, Asleep, Rests, cycle, AlertsInv
<1>4. QED
  BY <1>1, <1>2, <1>3, SchedulerFrame

LEMMA OnwardKeeps ==
  ASSUME AlertsInv, TypeOK', Onward, UNCHANGED <<row, armed, history>>
  PROVE  AlertsInv'
BY NoDecisionIsSilent, SchedulerFrame DEF Onward

LEMMA SurroundingsKeep ==
  ASSUME AlertsInv, TypeOK', UNCHANGED history,
         Tick \/ ChangeSubscriptions
  PROVE  AlertsInv'
<1>1. UNCHANGED <<armed, phase, target, decision>>
  BY DEF Tick, ChangeSubscriptions, memory, cycle
<1>2. \A l \in Locations :
        /\ row'[l].current_status = row[l].current_status
        /\ row'[l].previous_status = row[l].previous_status
        /\ row'[l].available_checks = row[l].available_checks
  <2>1. CASE Tick
    BY <2>1 DEF Tick, AlertsInv, TypeOK, Row
  <2>2. CASE ChangeSubscriptions
    BY <2>2 DEF ChangeSubscriptions
  <2>3. QED
    BY <2>1, <2>2
<1>3. HistoryTypeOK'
  BY DEF AlertsInv, HistoryTypeOK, history
<1>4. \A l \in Locations : Spent(l)' /\ Counted(l)' /\ Evident(l)' /\ Ready(l)'
  BY <1>1, <1>2, LocationFrame DEF AlertsInv, history
<1>5. \A l \in Locations : Pending(l)'
  BY <1>1, <1>2 DEF AlertsInv, Pending, history
<1>6. QED
  BY <1>1, <1>3, <1>4, <1>5 DEF AlertsInv

\* The alert uses "no slots" up; the location is AVAILABLE and its counter full.
LEMMA NotifyKeeps ==
  ASSUME AlertsInv, TypeOK', NEW l \in Locations, NotifySubscribers(l), Alerted(l)
  PROVE  AlertsInv'
<1>1. UNCHANGED <<row, armed, streak, evidence, clean>> /\ target' = {} /\ decision' = NoDecision
  BY DEF NotifySubscribers, Alerted, Onward
<1>2. HistoryTypeOK' /\ seen'[l] = FALSE /\ \A k \in Locations \ {l} : seen'[k] = seen[k]
  BY DEF Alerted, AlertsInv, HistoryTypeOK
<1>3. row[l].current_status = "available" /\ row[l].available_checks = Confirmations
  BY DEF NotifySubscribers, AlertsInv, Pending, Counted
<1>4. ASSUME NEW k \in Locations
      PROVE  Spent(k)' /\ Counted(k)' /\ Evident(k)' /\ Ready(k)'
  <2>1. CASE k = l
    BY <1>1, <1>3, <2>1 DEF AlertsInv, Spent, Counted, Evident, Ready
  <2>2. CASE k # l
    BY <1>1, <1>2, <2>2, LocationFrame DEF AlertsInv
  <2>3. QED
    BY <2>1, <2>2
<1>5. QED
  BY <1>1, <1>2, <1>4, NoDecisionIsSilent DEF AlertsInv, Pending

\* A restart disarms every location and keeps its row.
LEMMA RestartKeeps ==
  ASSUME AlertsInv, TypeOK', Restart, Forgotten
  PROVE  AlertsInv'
<1>1. UNCHANGED <<row, seen, streak, evidence>> /\ target' = {} /\ decision' = NoDecision
  BY DEF Restart, Forgotten, Asleep
<1>2. \A l \in Locations : armed'[l] = FALSE /\ clean'[l] = (clean[l] /\ streak[l] = 0)
  BY DEF Restart, Forgotten
<1>3. HistoryTypeOK'
  BY DEF Forgotten, AlertsInv, HistoryTypeOK
<1>4. ASSUME NEW l \in Locations
      PROVE  Spent(l)' /\ Counted(l)' /\ Evident(l)' /\ Ready(l)'
  BY <1>1, <1>2 DEF AlertsInv, Spent, Counted, Evident, Ready
<1>5. QED
  BY <1>1, <1>3, <1>4, NoDecisionIsSilent DEF AlertsInv, Pending

\* A recorded check keeps the invariant at its own location: one case per
\* kind of answer.
LEMMA RecordedAtTarget ==
  ASSUME AlertsInv, NEW l \in Locations, NEW r \in Results,
         CheckCommits(l, r), Recorded(l, r)
  PROVE  Spent(l)' /\ Counted(l)' /\ Evident(l)' /\ Ready(l)' /\ Pending(l)'
<1> DEFINE d   == DecisionFor(l, r)
           cur == row[l].current_status
           eff == EffectiveStatus(l, r)
           ab  == ArmedBefore(l, r)
<1>1. /\ TypeOK /\ HistoryTypeOK /\ r \in CheckResult
      /\ Spent(l) /\ Counted(l) /\ Evident(l) /\ Ready(l)
      /\ row[l] \in Row /\ armed[l] \in BOOLEAN
      /\ row[l].available_checks \in 0..Confirmations
  BY DEF AlertsInv, TypeOK, HistoryTypeOK, Counted
<1>2. row[l].available_checks \in Nat /\ row[l].failed_checks \in Nat
  BY <1>1 DEF Row
<1>3. /\ row'[l].current_status = d.status
      /\ row'[l].previous_status = cur
      /\ row'[l].available_checks = smaller(d.available, Confirmations)
      /\ armed'[l] = ArmedAfter(d.status, ab)
      /\ decision' = d
  BY <1>1 DEF CheckCommits, SavedRow, Remember, TypeOK
<1>4. /\ seen'[l] = (seen[l] \/ IsNoSlots(r))
      /\ streak'[l] = IF r.limited THEN streak[l]
                      ELSE IF IsAvailable(r) THEN smaller(streak[l] + 1, Confirmations)
                      ELSE 0
      /\ evidence'[l] = IF IsNoSlots(r) \/ IsAvailable(r) THEN d.status ELSE evidence[l]
      /\ clean'[l] = ((clean[l] \/ IsNoSlots(r)) /\ ~IsBroken(r))
  BY <1>1, <1>3 DEF Recorded, Answered, HistoryTypeOK
<1>5. eff \in LocationStatus /\ ab \in BOOLEAN
  BY <1>1, CheckType
<1>6. d = Transition(eff, row[l].available_checks, row[l].failed_checks, r, ab)
  BY DEF DecisionFor
<1>7. \/ r.limited
      \/ IsNoSlots(r) /\ ~r.limited
      \/ IsBroken(r) /\ ~r.limited
      \/ IsAvailable(r) /\ ~r.limited
  BY DEF IsBroken
<1>8. CASE r.limited
  <2>1. d.status = eff /\ d.available = row[l].available_checks /\ ~d.notify
    BY <1>1, <1>2, <1>5, <1>6, <1>8, AnswerDecides DEF Silent
  <2>2. UNCHANGED <<seen[l], streak[l], evidence[l], clean[l]>>
    BY <1>1, <1>4, <1>8 DEF IsNoSlots, IsAvailable, IsBroken, HistoryTypeOK
  <2>3. row'[l].available_checks = row[l].available_checks
    BY <1>1, <1>3, <2>1 DEF smaller
  <2>4. eff # "error" /\ (cur # "error" => eff = cur)
    BY <1>8 DEF EffectiveStatus
  <2>5. cur = "error" => eff = "unknown" \/ eff = row[l].previous_status
    BY <1>8 DEF EffectiveStatus
  <2>6. ab = ArmedAfter(eff, armed[l])
    BY DEF ArmedBefore
  <2>7. Spent(l)'
    BY <1>1, <1>3, <2>1, <2>2, <2>3, <2>4, <2>5, <2>6 DEF Spent, ArmedAfter
  <2>8. Counted(l)' /\ Evident(l)'
    BY <1>1, <1>3, <2>1, <2>2, <2>3, <2>4, <2>5 DEF Counted, Evident
  <2>9. Ready(l)' /\ Pending(l)'
    BY <1>1, <1>3, <2>1, <2>2, <2>4, <2>6 DEF Ready, Pending, ArmedAfter
  <2>10. QED
    BY <2>7, <2>8, <2>9
<1>9. CASE IsNoSlots(r) /\ ~r.limited
  <2>1. d.status = "no_slots" /\ d.available = 0 /\ ~d.notify
    BY <1>1, <1>2, <1>5, <1>6, <1>9, AnswerDecides DEF Silent
  <2>2. seen'[l] /\ streak'[l] = 0 /\ evidence'[l] = "no_slots"
    BY <1>4, <1>9, <2>1 DEF IsNoSlots, IsAvailable, AvailabilityOutcomes
  <2>3. QED
    BY <1>3, <2>1, <2>2 DEF Spent, Counted, Evident, Ready, Pending, smaller
<1>10. CASE IsBroken(r) /\ ~r.limited
  <2>1. d.status \in {"error", "unknown"} /\ d.available = 0 /\ ~d.notify
    BY <1>1, <1>2, <1>5, <1>6, <1>10, AnswerDecides
  <2>2. /\ seen'[l] = seen[l] /\ streak'[l] = 0
        /\ evidence'[l] = evidence[l] /\ clean'[l] = FALSE
    BY <1>1, <1>4, <1>10 DEF IsBroken, HistoryTypeOK
  <2>3. armed'[l] = FALSE
    BY <1>3, <2>1 DEF ArmedAfter
  <2>4. row'[l].available_checks = 0
    BY <1>3, <2>1 DEF smaller
  <2>5. QED
    BY <1>1, <1>3, <2>1, <2>2, <2>3, <2>4 DEF Spent, Counted, Evident, Ready, Pending
<1>11. CASE IsAvailable(r) /\ ~r.limited
  <2> DEFINE count == row[l].available_checks + 1
  <2>1. eff = cur /\ ab = ArmedAfter(cur, armed[l])
    BY <1>11 DEF EffectiveStatus, ArmedBefore
  <2>2. /\ seen'[l] = seen[l] /\ clean'[l] = clean[l]
        /\ streak'[l] = smaller(count, Confirmations) /\ evidence'[l] = d.status
    BY <1>1, <1>4, <1>11
    DEF IsAvailable, IsNoSlots, IsBroken, AvailabilityOutcomes, Counted, HistoryTypeOK
  <2>3. CASE count < Confirmations
    <3>1. d.status = "possibly_available" /\ d.available = count /\ ~d.notify
      BY <1>1, <1>2, <1>5, <1>6, <1>11, <2>3, AnswerDecides DEF Silent
    <3>2. armed'[l] = ab /\ row'[l].available_checks = count /\ streak'[l] = count
      BY <1>3, <1>5, <2>2, <2>3, <3>1 DEF ArmedAfter, smaller
    <3>3. ~seen[l] => ~ab
      BY <1>1, <1>2, <2>1, <2>3 DEF Spent, ArmedAfter, Row, LocationStatus
    <3>4. clean[l] => ab
      BY <1>1, <1>2, <2>1, <2>3 DEF Ready, Counted, ArmedAfter
    <3>5. QED
      BY <1>1, <1>2, <1>3, <2>2, <3>1, <3>2, <3>3, <3>4
      DEF Spent, Counted, Evident, Ready, Pending
  <2>4. CASE ~(count < Confirmations)
    <3>1. /\ d.status = "available" /\ d.available = count
          /\ d.notify = (ab /\ eff \in {"no_slots", "possibly_available"})
      BY <1>1, <1>2, <1>5, <1>6, <1>11, <2>4, AnswerDecides
    <3>2. row'[l].available_checks = Confirmations /\ streak'[l] = Confirmations
      BY <1>1, <1>3, <2>2, <2>4, <3>1 DEF smaller
    <3>3. d.notify => seen[l]
      BY <1>1, <2>1, <3>1 DEF Spent, ArmedAfter
    <3>4. QED
      BY <1>1, <1>3, <2>2, <3>1, <3>2, <3>3 DEF Spent, Counted, Evident, Ready, Pending
  <2>5. QED
    BY <2>3, <2>4
<1>12. QED
  BY <1>7, <1>8, <1>9, <1>10, <1>11

LEMMA RecordedKeeps ==
  ASSUME AlertsInv, TypeOK', NEW l \in Locations, NEW r \in Results,
         CheckCommits(l, r), Recorded(l, r)
  PROVE  AlertsInv'
<1>1. row'[l].current_status = DecisionFor(l, r).status
  BY DEF CheckCommits, SavedRow, AlertsInv, TypeOK
<1>2. DecisionFor(l, r).status \in LocationStatus
  BY CheckType DEF AlertsInv, Decision
<1>3. HistoryTypeOK'
  <2>1. streak[l] \in 0..Confirmations /\ smaller(streak[l] + 1, Confirmations) \in 0..Confirmations
    BY DEF AlertsInv, HistoryTypeOK, smaller
  <2>2. streak' \in [Locations -> 0..Confirmations]
    BY <2>1 DEF Recorded, AlertsInv, HistoryTypeOK
  <2>3. evidence' \in [Locations -> LocationStatus]
    BY <1>1, <1>2 DEF Recorded, AlertsInv, HistoryTypeOK
  <2>4. /\ seen' \in [Locations -> BOOLEAN] /\ bell' \in [Locations -> BOOLEAN]
        /\ clean' \in [Locations -> BOOLEAN]
    BY DEF Recorded, Answered, AlertsInv, HistoryTypeOK
  <2>5. QED
    BY <2>2, <2>3, <2>4 DEF HistoryTypeOK
<1>4. phase' = "announcing" /\ target' = target /\ l \in target
  BY DEF CheckCommits
<1>5. ASSUME NEW k \in Locations
      PROVE  Spent(k)' /\ Counted(k)' /\ Evident(k)' /\ Ready(k)' /\ Pending(k)'
  <2>1. CASE k = l
    BY <2>1, RecordedAtTarget
  <2>2. CASE k # l
    <3>1. row'[k] = row[k] /\ armed'[k] = armed[k]
      BY <2>2 DEF CheckCommits, Remember, AlertsInv, TypeOK
    <3>2. /\ seen'[k] = seen[k] /\ streak'[k] = streak[k]
          /\ evidence'[k] = evidence[k] /\ clean'[k] = clean[k]
      BY <2>2 DEF Recorded, Answered, AlertsInv, HistoryTypeOK
    <3>3. Pending(k)'
      BY <1>4, <2>2 DEF AlertsInv, Pending
    <3>4. QED
      BY <3>1, <3>2, <3>3, LocationFrame DEF AlertsInv
  <2>3. QED
    BY <2>1, <2>2
<1>6. QED
  BY <1>3, <1>4, <1>5 DEF AlertsInv

\* A failed commit changes the armed flag under a row that stays: it can only
\* arm a location that has "no slots" to use, or whose status is settled.
LEMMA UnrecordedAtTarget ==
  ASSUME AlertsInv, NEW l \in Locations, NEW r \in Results,
         CommitFails(l, r), Unrecorded(l, r)
  PROVE  Spent(l)' /\ Counted(l)' /\ Evident(l)' /\ Ready(l)'
<1> DEFINE d   == DecisionFor(l, r)
           cur == row[l].current_status
           eff == EffectiveStatus(l, r)
           ab  == ArmedBefore(l, r)
<1>1. /\ TypeOK /\ HistoryTypeOK /\ r \in CheckResult
      /\ Spent(l) /\ Counted(l) /\ Evident(l) /\ Ready(l)
      /\ row[l] \in Row /\ armed[l] \in BOOLEAN
  BY DEF AlertsInv, TypeOK
<1>2. /\ row' = row /\ armed'[l] = ArmedAfter(d.status, ab)
      /\ streak' = streak /\ evidence' = evidence
      /\ seen'[l] = (seen[l] \/ IsNoSlots(r))
      /\ clean'[l] = (clean[l] /\ (streak[l] = 0 \/ ~IsBroken(r)))
  BY <1>1 DEF CommitFails, Remember, Unrecorded, Answered, HistoryTypeOK, TypeOK
<1>3. eff \in LocationStatus /\ ab = ArmedAfter(eff, armed[l]) /\ ab \in BOOLEAN
  BY <1>1, CheckType DEF ArmedBefore
<1>4. row[l].available_checks \in Nat /\ row[l].failed_checks \in Nat
  BY <1>1 DEF Row
<1>5. Counted(l)' /\ Evident(l)'
  BY <1>1, <1>2 DEF Counted, Evident
<1>6. d = Transition(eff, row[l].available_checks, row[l].failed_checks, r, ab)
  BY DEF DecisionFor
<1>7. IsNoSlots(r) => d.status = "no_slots"
  BY <1>1, <1>3, <1>4, <1>6, AnswerDecides DEF Silent
<1>8. r.limited => d.status = eff
  BY <1>1, <1>3, <1>4, <1>6, AnswerDecides DEF Silent
<1>9. IsAvailable(r) => d.status \in {"available", "possibly_available"}
  BY <1>1, <1>3, <1>4, <1>6, AnswerDecides DEF Silent
<1>10. IsBroken(r) => d.status \in {"error", "unknown"}
  BY <1>1, <1>3, <1>4, <1>6, AnswerDecides
<1>11. r.limited \/ IsNoSlots(r) \/ IsBroken(r) \/ IsAvailable(r)
  BY DEF IsBroken
<1>12. cur = "error" => eff \in {"error", "unknown", row[l].previous_status}
  BY DEF EffectiveStatus
<1>13. cur # "error" => eff = cur
  BY DEF EffectiveStatus
<1>14. ~seen'[l] => (armed'[l] => armed[l])
  <2>1. ~seen[l] => eff # "no_slots"
    BY <1>1, <1>12, <1>13 DEF Spent
  <2>2. ~seen'[l] => (ab => armed[l])
    BY <1>2, <1>3, <2>1 DEF ArmedAfter
  <2>3. ~seen'[l] => d.status # "no_slots"
    BY <1>2, <1>8, <1>9, <1>10, <1>11, <2>1
  <2>4. QED
    BY <1>2, <2>2, <2>3 DEF ArmedAfter
<1>15. Spent(l)'
  BY <1>1, <1>2, <1>14 DEF Spent, HistoryTypeOK
<1>16. Ready(l)'
  <2>1. ASSUME clean'[l], streak[l] \in 1..(Confirmations - 1)
        PROVE  armed'[l]
    <3>1. clean[l] /\ ~IsBroken(r) /\ cur = "possibly_available" /\ armed[l]
      BY <1>1, <1>2, <2>1 DEF Ready
    <3>2. eff = "possibly_available" /\ ab
      BY <1>3, <1>13, <3>1 DEF ArmedAfter
    <3>3. d.status \notin {"unknown", "error", "disabled"}
      BY <1>7, <1>8, <1>9, <1>11, <3>1, <3>2
    <3>4. QED
      BY <1>2, <3>2, <3>3 DEF ArmedAfter
  <2>2. QED
    BY <1>1, <1>2, <2>1 DEF Ready
<1>17. QED
  BY <1>5, <1>15, <1>16

LEMMA UnrecordedKeeps ==
  ASSUME AlertsInv, TypeOK', NEW l \in Locations, NEW r \in Results,
         CommitFails(l, r), Unrecorded(l, r)
  PROVE  AlertsInv'
<1>1. HistoryTypeOK'
  BY DEF Unrecorded, Answered, AlertsInv, HistoryTypeOK
<1>2. row' = row /\ target' = {} /\ decision' = NoDecision
  BY DEF CommitFails, Onward
<1>3. ASSUME NEW k \in Locations
      PROVE  Spent(k)' /\ Counted(k)' /\ Evident(k)' /\ Ready(k)'
  <2>1. CASE k = l
    BY <2>1, UnrecordedAtTarget
  <2>2. CASE k # l
    <3>1. /\ armed'[k] = armed[k] /\ seen'[k] = seen[k] /\ streak'[k] = streak[k]
          /\ evidence'[k] = evidence[k] /\ clean'[k] = clean[k]
      BY <2>2 DEF CommitFails, Remember, Unrecorded, Answered, AlertsInv, TypeOK, HistoryTypeOK
    <3>2. QED
      BY <1>2, <3>1, LocationFrame DEF AlertsInv
  <2>3. QED
    BY <2>1, <2>2
<1>4. QED
  BY <1>1, <1>2, <1>3, NoDecisionIsSilent DEF AlertsInv, Pending

\* Every step with its history is a step of the service.
LEMMA AlertsNextIsNext == AlertsNext => Next
BY DEF AlertsNext, Next, Schedule, FinishCheck, Announce, Surroundings

LEMMA AlertsInvStep == AlertsInv /\ [AlertsNext]_alertVars => AlertsInv'
<1> SUFFICES ASSUME AlertsInv, [AlertsNext]_alertVars
             PROVE  AlertsInv'
  OBVIOUS
<1>1. TypeOK'
  BY TypeStep, AlertsNextIsNext DEF AlertsInv, alertVars
<1>2. CASE \E l \in Locations, r \in Results : CheckCommits(l, r) /\ Recorded(l, r)
  BY <1>1, <1>2, RecordedKeeps
<1>3. CASE \E l \in Locations, r \in Results : CommitFails(l, r) /\ Unrecorded(l, r)
  BY <1>1, <1>3, UnrecordedKeeps
<1>4. CASE \E l \in Locations : NotifySubscribers(l) /\ Alerted(l)
  BY <1>1, <1>4, NotifyKeeps
<1>5. CASE Restart /\ Forgotten
  BY <1>1, <1>5, RestartKeeps
<1>6. CASE Schedule /\ UNCHANGED history
  BY <1>1, <1>6, ScheduleKeeps
<1>7. CASE /\ UNCHANGED history
           /\ \/ CheckRaises \/ NothingToTell
              \/ \E l \in Locations : NotifyFails(l) \/ SkipNotify(l) \/ AlertAdmins(l)
  <2>1. Onward /\ UNCHANGED <<row, armed>>
    BY <1>7 DEF CheckRaises, NothingToTell, NotifyFails, SkipNotify, AlertAdmins, memory
  <2>2. QED
    BY <1>1, <1>7, <2>1, OnwardKeeps
<1>8. CASE UNCHANGED history /\ (Tick \/ ChangeSubscriptions)
  BY <1>1, <1>8, SurroundingsKeep
<1>9. CASE UNCHANGED alertVars
  <2>1. UNCHANGED <<row, armed, phase, target, decision, history>>
    BY <1>9 DEF alertVars, vars, memory, cycle
  <2>2. HistoryTypeOK'
    BY <2>1 DEF AlertsInv, HistoryTypeOK, history
  <2>3. \A l \in Locations : Spent(l)' /\ Counted(l)' /\ Evident(l)' /\ Ready(l)'
    BY <2>1, LocationFrame DEF AlertsInv, history
  <2>4. \A l \in Locations : Pending(l)'
    BY <2>1 DEF AlertsInv, Pending, history
  <2>5. QED
    BY <1>1, <2>1, <2>2, <2>3, <2>4 DEF AlertsInv
<1>10. QED
  BY <1>2, <1>3, <1>4, <1>5, <1>6, <1>7, <1>8, <1>9 DEF AlertsNext

LEMMA AlertsInvariance == AlertsSpec => []AlertsInv
<1>1. AlertsInit => AlertsInv
  BY AlertsInvInit
<1>2. AlertsInv /\ [AlertsNext]_alertVars => AlertsInv'
  BY AlertsInvStep
<1>3. QED
  BY <1>1, <1>2, PTL DEF AlertsSpec

-----------------------------------------------------------------------------
(* The theorems *)

\* A decision to notify rests on the configured number of recorded
\* confirmations in a row.
THEOREM AlertsAreConfirmed == AlertsSpec => []AlertIsConfirmed
<1>1. AlertsInv => AlertIsConfirmed
  BY DEF AlertsInv, Pending, AlertIsConfirmed, TypeOK
<1>2. QED
  BY <1>1, AlertsInvariance, PTL

\* No status that users see is older than what the site last said.
THEOREM StatusesAreGenuine == AlertsSpec => []StatusIsLastEvidence
<1>1. AlertsInv => StatusIsLastEvidence
  BY DEF AlertsInv, Evident, StatusIsLastEvidence
<1>2. QED
  BY <1>1, AlertsInvariance, PTL

\* The service implements the promise: no alert without a "no slots" that
\* was not used up by an earlier one.
THEOREM AlertsImplementPromise == AlertsSpec => OneAlertPerNoSlots
<1> USE DEF Promise!Init, Promise!Next, Promise!SeeNoSlots, Promise!Alert, Promise!vars
<1>1. AlertsInit => Promise!Init
  BY DEF AlertsInit
<1>2. ASSUME AlertsInv, [AlertsNext]_alertVars
      PROVE  [Promise!Next]_(Promise!vars)
  <2>1. ASSUME NEW l \in Locations, NEW r \in Results, Answered(l, r)
        PROVE  [Promise!Next]_(Promise!vars)
    <3>1. CASE IsNoSlots(r)
      <4>1. Promise!SeeNoSlots(l)
        BY <2>1, <3>1 DEF Answered
      <4>2. QED
        BY <4>1
    <3>2. CASE ~IsNoSlots(r)
      BY <1>2, <2>1, <3>2 DEF Answered, AlertsInv, HistoryTypeOK
    <3>3. QED
      BY <3>1, <3>2
  <2>2. ASSUME NEW l \in Locations, NotifySubscribers(l), Alerted(l)
        PROVE  Promise!Next
    <3>1. seen[l]
      BY <1>2, <2>2 DEF NotifySubscribers, AlertsInv, Pending
    <3>2. Promise!Alert(l)
      BY <2>2, <3>1 DEF Alerted
    <3>3. QED
      BY <3>2
  <2>3. CASE UNCHANGED <<seen, bell>>
    BY <2>3
  <2>4. CASE \E l \in Locations, r \in Results : CheckCommits(l, r) /\ Recorded(l, r)
    BY <2>1, <2>4 DEF Recorded
  <2>5. CASE \E l \in Locations, r \in Results : CommitFails(l, r) /\ Unrecorded(l, r)
    BY <2>1, <2>5 DEF Unrecorded
  <2>6. QED
    BY <1>2, <2>2, <2>3, <2>4, <2>5 DEF AlertsNext, alertVars, history, Forgotten
<1>3. QED
  BY <1>1, <1>2, AlertsInvariance, PTL DEF AlertsSpec, OneAlertPerNoSlots, Promise!Spec

\* An opening that gets its confirmations on an unbroken path is decided on.
THEOREM OpeningsAreTold == AlertsSpec => EveryOpeningIsTold
<1>1. ASSUME AlertsInv, [AlertsNext]_alertVars, NEW l \in Locations,
             clean[l], streak[l] < Confirmations, streak'[l] = Confirmations
      PROVE  decision'.notify
  <2>1. PICK k \in Locations, r \in Results : CheckCommits(k, r) /\ Recorded(k, r)
    BY <1>1 DEF AlertsNext, alertVars, history, Unrecorded, Alerted, Forgotten,
                AlertsInv, HistoryTypeOK
  <2>2. /\ TypeOK /\ HistoryTypeOK /\ Ready(l) /\ Counted(l)
        /\ row[l] \in Row /\ armed[l] \in BOOLEAN /\ r \in CheckResult
    BY <1>1 DEF AlertsInv, TypeOK
  <2>3. k = l
    BY <1>1, <2>1, <2>2 DEF Recorded, HistoryTypeOK
  <2>4. IsAvailable(r) /\ ~r.limited /\ streak[l] + 1 = Confirmations
    BY <1>1, <2>1, <2>2, <2>3 DEF Recorded, HistoryTypeOK, smaller, IsAvailable
  <2>5. /\ row[l].current_status \in {"no_slots", "possibly_available"}
        /\ row[l].current_status = "possibly_available" => armed[l]
    <3>1. streak[l] \in Nat
      BY <2>2 DEF HistoryTypeOK
    <3>2. streak[l] = 0 \/ streak[l] \in 1..(Confirmations - 1)
      BY <2>4, <3>1
    <3>3. QED
      BY <1>1, <2>2, <3>2 DEF Ready
  <2>6. EffectiveStatus(l, r) = row[l].current_status /\ ArmedBefore(l, r) = TRUE
    BY <2>2, <2>4, <2>5 DEF EffectiveStatus, ArmedBefore, ArmedAfter
  <2>7. row[l].available_checks + 1 = Confirmations /\ row[l].failed_checks \in Nat
        /\ row[l].available_checks \in Nat
    BY <2>2, <2>4 DEF Counted, Row
  <2>8. DecisionFor(l, r).notify
    <3> DEFINE d  == DecisionFor(l, r)
               ab == ArmedBefore(l, r)
    <3>1. d = Transition(EffectiveStatus(l, r), row[l].available_checks,
                         row[l].failed_checks, r, ab)
      BY DEF DecisionFor
    <3>2. EffectiveStatus(l, r) \in LocationStatus /\ ab \in BOOLEAN
      BY <2>2, CheckType
    <3>3. row[l].available_checks + 1 >= Confirmations
      BY <2>7
    <3>4. d.notify = (ab /\ EffectiveStatus(l, r) \in {"no_slots", "possibly_available"})
      BY <2>2, <2>4, <2>7, <3>1, <3>2, <3>3, AnswerDecides
    <3>5. QED
      BY <2>5, <2>6, <3>4
  <2>9. QED
    BY <2>1, <2>3, <2>8 DEF CheckCommits
<1>2. AlertsInv /\ [AlertsNext]_alertVars
        => (\A l \in Locations :
              clean[l] /\ streak[l] < Confirmations /\ streak'[l] = Confirmations
                => decision'.notify)
  BY <1>1
<1>3. QED
  BY <1>2, AlertsInvariance, PTL DEF AlertsSpec, EveryOpeningIsTold
=============================================================================
