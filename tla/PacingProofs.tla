---------------------------- MODULE PacingProofs ----------------------------
(***************************************************************************)
(* Proofs about MonitoringService with an observer's clocks: how often the *)
(* site is asked and subscribers are told, for any locations, results,     *)
(* settings and number of restarts.                                        *)
(***************************************************************************)
EXTENDS MonitoringPacing, MonitoringProofs

USE ConfirmationsAssumption, LocationsAssumption, ResultsAssumption, SettingsAssumption

\* Every step with its clocks is a step of the service.
LEMMA PacingNextIsNext == [PacingNext]_pacingVars => [Next]_vars
BY DEF PacingNext, pacingVars, Next, Schedule, FinishCheck, Announce, Surroundings

\* The clocks hold nothing back from what is proved of the service alone.
THEOREM ClocksOnlyWatch == PacingSpec => Spec
<1>1. PacingInit => Init
  BY DEF PacingInit
<1>2. QED
  BY <1>1, PacingNextIsNext, PTL DEF PacingSpec, Spec

-----------------------------------------------------------------------------
(* The clocks keep their types *)

\* A clock counts down to 0, or up to its cap, and stays there.
LEMMA CountsDown ==
  ASSUME NEW cap \in Nat, NEW n \in 0..cap
  PROVE  /\ larger(n - 1, 0) \in 0..cap
         /\ larger(n - 1, 0) = IF n = 0 THEN 0 ELSE n - 1
BY DEF larger

LEMMA CountsUp ==
  ASSUME NEW cap \in Nat, NEW n \in 0..cap
  PROVE  /\ smaller(n + 1, cap) \in 0..cap
         /\ smaller(n + 1, cap) = IF n = cap THEN cap ELSE n + 1
BY DEF smaller

LEMMA LongestGapType ==
  LongestGap \in Nat /\ Idle <= LongestGap /\ Interval <= LongestGap
BY DEF LongestGap, larger

LEMMA ClocksStep == ClocksTypeOK /\ [PacingNext]_pacingVars => ClocksTypeOK'
<1> SUFFICES ASSUME ClocksTypeOK, [PacingNext]_pacingVars
             PROVE  ClocksTypeOK'
  OBVIOUS
<1> USE DEF ClocksTypeOK
<1>1. ASSUME NEW l \in Locations, Asked(l)
      PROVE  ClocksTypeOK'
  BY <1>1, LongestGapType DEF Asked
<1>2. ASSUME NEW l \in Locations, NEW r \in Results, Recorded(l, r)
      PROVE  ClocksTypeOK'
  BY <1>2 DEF Recorded
<1>3. ASSUME NEW l \in Locations, Told(l)
      PROVE  ClocksTypeOK'
  BY <1>3 DEF Told
<1>4. CASE TimePasses
  <2>1. /\ throttled_for' \in [Locations -> 0..Backoff]
        /\ asked_ago' \in [Locations -> 0..LongestGap]
        /\ quiet_for' \in [Locations -> 0..Cooldown]
    BY <1>4, CountsDown, CountsUp, LongestGapType DEF TimePasses
  <2>2. QED
    BY <1>4, <2>1 DEF TimePasses
<1>5. CASE ProcessRestarts
  BY <1>5 DEF ProcessRestarts
<1>6. CASE UNCHANGED clocks
  BY <1>6 DEF clocks
<1>7. QED
  BY <1>1, <1>2, <1>3, <1>4, <1>5, <1>6 DEF PacingNext, pacingVars

-----------------------------------------------------------------------------
(* The invariant *)

LEMMA PacingInitial == PacingInit => PacingInv
<1> SUFFICES ASSUME PacingInit
             PROVE  PacingInv
  OBVIOUS
<1>1. TypeOK
  BY TypeInit DEF PacingInit
<1>2. ClocksTypeOK
  BY LongestGapType DEF PacingInit, ClocksTypeOK
<1>3. target = {} /\ todo = {}
  BY DEF PacingInit, Init
<1>4. \A l \in Locations : ThrottleInRow(l) /\ AgeFromAsking(l) /\ CooldownInMemory(l)
  BY LongestGapType DEF PacingInit, Init, ThrottleInRow, AgeFromAsking, CooldownInMemory
<1>5. QED
  BY <1>1, <1>2, <1>3, <1>4 DEF PacingInv

\* Steps that record nothing and ask nobody: the plan only shrinks, and a
\* cooldown only starts anew.
LEMMA IdleFrame ==
  ASSUME PacingInv, TypeOK', UNCHANGED <<row, clocks>>,
         \A l \in Locations : cooling'[l] = cooling[l] \/ cooling'[l] = Cooldown,
         todo' = {} \/ (todo' = todo /\ preferred' = preferred),
         target' = {} \/ (target' = target /\ phase' = phase)
  PROVE  PacingInv'
<1>1. ClocksTypeOK'
  BY DEF PacingInv, ClocksTypeOK, clocks
<1>2. target' \cap todo' = {} /\ (phase' \notin {"checking", "announcing"} => target' = {})
  BY DEF PacingInv
<1>3. ASSUME NEW l \in Locations
      PROVE  ThrottleInRow(l)' /\ AgeFromAsking(l)' /\ CooldownInMemory(l)'
  <2>1. ThrottleInRow(l) /\ AgeFromAsking(l) /\ CooldownInMemory(l)
    BY DEF PacingInv
  <2>2. ThrottleInRow(l)'
    BY <2>1 DEF ThrottleInRow, clocks
  <2>3. AgeFromAsking(l)'
    BY <2>1 DEF AgeFromAsking, clocks
  <2>4. CooldownInMemory(l)'
    <3>1. quiet_for[l] \in Nat /\ quiet_for' = quiet_for /\ restarted' = restarted
      BY DEF PacingInv, ClocksTypeOK, clocks
    <3>2. CASE cooling'[l] = cooling[l]
      BY <2>1, <3>1, <3>2 DEF CooldownInMemory
    <3>3. CASE cooling'[l] = Cooldown
      BY <3>1, <3>3 DEF CooldownInMemory
    <3>4. QED
      BY <3>2, <3>3
  <2>5. QED
    BY <2>2, <2>3, <2>4
<1>4. QED
  BY <1>1, <1>2, <1>3 DEF PacingInv

LEMMA QuietStepsKeep ==
  ASSUME PacingInv, TypeOK', UNCHANGED clocks,
         \/ SkipCycle \/ PlanFails \/ EndCycle \/ AbortCycle \/ Pause
         \/ \E l \in Locations, r \in Results : CommitFails(l, r)
         \/ \E l \in Locations : NotifyFails(l) \/ SkipNotify(l) \/ AlertAdmins(l)
         \/ CheckRaises \/ NothingToTell \/ ChangeSubscriptions
  PROVE  PacingInv'
<1>1. CASE SkipCycle \/ PlanFails \/ EndCycle \/ AbortCycle
  <2>1. todo' = {} /\ target' = {} /\ UNCHANGED <<row, cooling>>
    BY <1>1 DEF SkipCycle, PlanFails, EndCycle, AbortCycle, Rests, Asleep,
                memory
  <2>2. QED
    BY <2>1, IdleFrame
<1>2. CASE Pause
  <2>1. target' = {} /\ UNCHANGED <<todo, preferred, row, cooling>>
    BY <1>2 DEF Pause, PacingInv, memory, cycle
  <2>2. QED
    BY <2>1, IdleFrame
<1>3. ASSUME NEW l \in Locations, NotifyFails(l)
      PROVE  PacingInv'
  <2>1. target' = {} /\ UNCHANGED <<todo, preferred, row>>
    BY <1>3 DEF NotifyFails, Onward
  <2>2. \A k \in Locations : cooling'[k] = cooling[k] \/ cooling'[k] = Cooldown
    BY <1>3 DEF NotifyFails, PacingInv, TypeOK
  <2>3. QED
    BY <2>1, <2>2, IdleFrame
<1>4. CASE \/ \E l \in Locations, r \in Results : CommitFails(l, r)
           \/ \E l \in Locations : SkipNotify(l) \/ AlertAdmins(l)
           \/ CheckRaises \/ NothingToTell
  <2>1. target' = {} /\ UNCHANGED <<todo, preferred, row, cooling>>
    BY <1>4 DEF CommitFails, SkipNotify, AlertAdmins, CheckRaises, NothingToTell, Onward, memory
  <2>2. QED
    BY <2>1, IdleFrame
<1>5. CASE ChangeSubscriptions
  <2>1. UNCHANGED <<target, phase, todo, preferred, row, cooling>>
    BY <1>5 DEF ChangeSubscriptions, memory, cycle
  <2>2. QED
    BY <2>1, IdleFrame
<1>6. QED
  BY <1>1, <1>2, <1>3, <1>4, <1>5

\* The plan leaves out whom the row shows to be throttled, and, without a
\* subscriber, whom it shows to have been recorded within the idle interval.
LEMMA PlanKeeps ==
  ASSUME PacingInv, TypeOK', StartCycle, UNCHANGED clocks
  PROVE  PacingInv'
<1>1. /\ phase' = "choosing" /\ target' = {} /\ UNCHANGED <<row, cooling>>
      /\ preferred' = subscribed /\ todo' = {l \in Locations : DueForCheck(l)}
  BY DEF StartCycle, PacingInv, memory
<1>2. ClocksTypeOK'
  BY DEF PacingInv, ClocksTypeOK, clocks
<1>3. ASSUME NEW l \in Locations
      PROVE  ThrottleInRow(l)' /\ AgeFromAsking(l)' /\ CooldownInMemory(l)'
  <2>1. /\ ThrottleInRow(l) /\ AgeFromAsking(l) /\ CooldownInMemory(l)
        /\ throttled_for[l] \in Nat /\ asked_ago[l] \in Nat /\ row[l].checked_ago \in Nat
    BY DEF PacingInv, TypeOK, ClocksTypeOK, Row
  <2>2. ThrottleInRow(l)'
    <3>1. ASSUME throttled_for[l] > 0
          PROVE  l \notin todo'
      BY <1>1, <2>1, <3>1 DEF ThrottleInRow, DueForCheck
    <3>2. QED
      BY <1>1, <2>1, <3>1 DEF ThrottleInRow, clocks
  <2>3. AgeFromAsking(l)'
    <3>1. ASSUME l \in todo' \ preferred'
          PROVE  row[l].checked_ago >= Idle
      BY <1>1, <3>1 DEF DueForCheck
    <3>2. QED
      BY <1>1, <2>1, <3>1 DEF AgeFromAsking, clocks
  <2>4. CooldownInMemory(l)'
    BY <1>1, <2>1 DEF CooldownInMemory, clocks
  <2>5. QED
    BY <2>2, <2>3, <2>4
<1>4. QED
  BY <1>1, <1>2, <1>3 DEF PacingInv

LEMMA AskingKeeps ==
  ASSUME PacingInv, TypeOK', ClocksTypeOK', NEW l \in Locations, BeginCheck(l), Asked(l)
  PROVE  PacingInv'
<1>1. /\ phase' = "checking" /\ target' = {l} /\ todo' = todo \ {l} /\ l \in todo
      /\ UNCHANGED <<row, cooling, preferred, throttled_for, quiet_for, restarted>>
  BY DEF BeginCheck, NextLocation, memory, Asked
<1>2. ASSUME NEW k \in Locations
      PROVE  ThrottleInRow(k)' /\ AgeFromAsking(k)' /\ CooldownInMemory(k)'
  <2>1. ThrottleInRow(k) /\ AgeFromAsking(k) /\ CooldownInMemory(k)
    BY DEF PacingInv
  <2>2. ThrottleInRow(k)'
    BY <1>1, <2>1 DEF ThrottleInRow
  <2>3. AgeFromAsking(k)'
    <3>1. CASE k = l
      BY <3>1 DEF AgeFromAsking, Asked, PacingInv, ClocksTypeOK
    <3>2. CASE k # l
      <4>1. asked_ago'[k] = asked_ago[k] /\ unrecorded'[k] = unrecorded[k]
        BY <3>2 DEF Asked, PacingInv, ClocksTypeOK
      <4>2. QED
        BY <1>1, <2>1, <4>1 DEF AgeFromAsking
    <3>3. QED
      BY <3>1, <3>2
  <2>4. CooldownInMemory(k)'
    BY <1>1, <2>1 DEF CooldownInMemory
  <2>5. QED
    BY <2>2, <2>3, <2>4
<1>3. QED
  BY <1>1, <1>2 DEF PacingInv

LEMMA RecordingKeeps ==
  ASSUME PacingInv, TypeOK', ClocksTypeOK', NEW l \in Locations, NEW r \in Results,
         CheckCommits(l, r), Recorded(l, r)
  PROVE  PacingInv'
<1>1. /\ phase = "checking" /\ phase' = "announcing" /\ l \in target /\ l \notin todo
      /\ UNCHANGED <<todo, preferred, target, cooling, asked_ago, quiet_for, restarted>>
  BY DEF CheckCommits, Recorded, PacingInv
<1>2. ASSUME NEW k \in Locations
      PROVE  ThrottleInRow(k)' /\ AgeFromAsking(k)' /\ CooldownInMemory(k)'
  <2>1. /\ ThrottleInRow(k) /\ AgeFromAsking(k) /\ CooldownInMemory(k)
        /\ throttled_for[k] \in Nat /\ asked_ago[k] \in Nat
    BY DEF PacingInv, ClocksTypeOK
  <2>2. CASE k = l
    <3>1. /\ row'[k].checked_ago = 0
          /\ r.limited => row'[k].last_error = "http_429_rate_limited"
      BY <2>2 DEF CheckCommits, SavedRow, PacingInv, TypeOK
    <3>2. /\ unrecorded'[k] = FALSE
          /\ throttled_for'[k] = IF r.limited THEN Backoff ELSE throttled_for[k]
      BY <2>2 DEF Recorded, PacingInv, ClocksTypeOK
    <3>3. ~(throttled_for[k] > 0)
      BY <1>1, <2>1, <2>2 DEF ThrottleInRow
    <3>4. ThrottleInRow(k)'
      BY <1>1, <2>1, <2>2, <3>1, <3>2, <3>3 DEF ThrottleInRow
    <3>5. AgeFromAsking(k)'
      BY <1>1, <2>1, <2>2, <3>1 DEF AgeFromAsking
    <3>6. CooldownInMemory(k)'
      BY <1>1, <2>1 DEF CooldownInMemory
    <3>7. QED
      BY <3>4, <3>5, <3>6
  <2>3. CASE k # l
    <3>1. row'[k] = row[k] /\ unrecorded'[k] = unrecorded[k] /\ throttled_for'[k] = throttled_for[k]
      BY <2>3 DEF CheckCommits, Recorded, PacingInv, TypeOK, ClocksTypeOK
    <3>2. QED
      BY <1>1, <2>1, <3>1 DEF ThrottleInRow, AgeFromAsking, CooldownInMemory
  <2>4. QED
    BY <2>2, <2>3
<1>3. QED
  BY <1>1, <1>2 DEF PacingInv

LEMMA TellingKeeps ==
  ASSUME PacingInv, TypeOK', ClocksTypeOK', NEW l \in Locations, NotifySubscribers(l), Told(l)
  PROVE  PacingInv'
<1>1. /\ target' = {} /\ phase' = "choosing"
      /\ UNCHANGED <<row, todo, preferred, throttled_for, asked_ago, unrecorded>>
  BY DEF NotifySubscribers, Onward, Told
<1>2. ASSUME NEW k \in Locations
      PROVE  ThrottleInRow(k)' /\ AgeFromAsking(k)' /\ CooldownInMemory(k)'
  <2>1. ThrottleInRow(k) /\ AgeFromAsking(k) /\ CooldownInMemory(k)
    BY DEF PacingInv
  <2>2. ThrottleInRow(k)' /\ AgeFromAsking(k)'
    BY <1>1, <2>1 DEF ThrottleInRow, AgeFromAsking
  <2>3. CooldownInMemory(k)'
    <3>1. CASE k = l
      <4>1. quiet_for'[k] = 0 /\ cooling'[k] = Cooldown
        BY <3>1 DEF NotifySubscribers, Told, PacingInv, TypeOK, ClocksTypeOK
      <4>2. QED
        BY <4>1 DEF CooldownInMemory
    <3>2. CASE k # l
      <4>1. /\ quiet_for'[k] = quiet_for[k] /\ cooling'[k] = cooling[k]
            /\ restarted'[k] = restarted[k]
        BY <3>2 DEF NotifySubscribers, Told, PacingInv, TypeOK, ClocksTypeOK
      <4>2. QED
        BY <2>1, <4>1 DEF CooldownInMemory
    <3>3. QED
      BY <3>1, <3>2
  <2>4. QED
    BY <2>2, <2>3
<1>3. QED
  BY <1>1, <1>2 DEF PacingInv

\* A tick moves the row's age and the observer's clocks by the same amount,
\* except where they are saturated.
LEMMA TickKeeps ==
  ASSUME PacingInv, TypeOK', ClocksTypeOK', Tick, TimePasses
  PROVE  PacingInv'
<1>1. UNCHANGED <<phase, todo, preferred, target, unrecorded, restarted>>
  BY DEF Tick, TimePasses, cycle
<1>2. ASSUME NEW l \in Locations
      PROVE  ThrottleInRow(l)' /\ AgeFromAsking(l)' /\ CooldownInMemory(l)'
  <2>1. ThrottleInRow(l) /\ AgeFromAsking(l) /\ CooldownInMemory(l)
    BY DEF PacingInv
  <2>2. PICK age \in 0..AgeCap : age = row[l].checked_ago
    BY DEF PacingInv, TypeOK, Row
  <2>3. PICK next \in 0..AgeCap :
          next = row'[l].checked_ago /\ next = IF age = AgeCap THEN AgeCap ELSE age + 1
    <3>1. row'[l].checked_ago = smaller(age + 1, AgeCap)
      BY <2>2 DEF Tick, PacingInv, TypeOK, Row
    <3>2. QED
      BY <3>1, AgeCapType, CountsUp
  <2>4. row'[l].last_error = row[l].last_error
    BY DEF Tick, PacingInv, TypeOK, Row
  <2>5. Idle <= AgeCap /\ Backoff <= AgeCap
    BY DEF AgeCap, larger
  <2>6. ThrottleInRow(l)'
    <3>1. PICK t \in 0..Backoff : t = throttled_for[l]
      BY DEF PacingInv, ClocksTypeOK
    <3>2. PICK u \in 0..Backoff : u = throttled_for'[l] /\ u = IF t = 0 THEN 0 ELSE t - 1
      BY <3>1, CountsDown DEF TimePasses
    <3>3. u > 0 => t > 0 /\ (age + t <= Backoff => next + u <= Backoff)
      BY <3>2, <2>3, AgeCapType
    <3>4. QED
      BY <1>1, <2>1, <2>2, <2>3, <2>4, <3>1, <3>2, <3>3 DEF ThrottleInRow
  <2>7. AgeFromAsking(l)'
    <3>1. PICK a \in 0..LongestGap : a = asked_ago[l]
      BY DEF PacingInv, ClocksTypeOK
    <3>2. PICK b \in 0..LongestGap :
            b = asked_ago'[l] /\ b = IF a = LongestGap THEN LongestGap ELSE a + 1
      BY <3>1, CountsUp, LongestGapType DEF TimePasses
    <3>3. (a >= Idle => b >= Idle) /\ (a >= age => b >= Idle \/ b >= next)
      BY <3>2, <2>3, AgeCapType, LongestGapType
    <3>4. QED
      BY <1>1, <2>1, <2>2, <2>3, <3>1, <3>2, <3>3 DEF AgeFromAsking
  <2>8. CooldownInMemory(l)'
    <3>1. PICK q \in 0..Cooldown, c \in 0..Cooldown : q = quiet_for[l] /\ c = cooling[l]
      BY DEF PacingInv, TypeOK, ClocksTypeOK
    <3>2. PICK p \in 0..Cooldown : p = quiet_for'[l] /\ p = IF q = Cooldown THEN Cooldown ELSE q + 1
      BY <3>1, CountsUp DEF TimePasses
    <3>3. PICK d \in 0..Cooldown : d = cooling'[l] /\ d = IF c = 0 THEN 0 ELSE c - 1
      BY <3>1, CountsDown DEF Tick
    <3>4. q + c >= Cooldown => p + d >= Cooldown
      BY <3>2, <3>3
    <3>5. QED
      BY <1>1, <2>1, <3>1, <3>2, <3>3, <3>4 DEF CooldownInMemory
  <2>9. QED
    BY <2>6, <2>7, <2>8
<1>3. QED
  BY <1>1, <1>2 DEF PacingInv

LEMMA RestartKeeps ==
  ASSUME PacingInv, TypeOK', ClocksTypeOK', Restart, ProcessRestarts
  PROVE  PacingInv'
<1>1. /\ target' = {} /\ todo' = {} /\ restarted' = [l \in Locations |-> TRUE]
      /\ UNCHANGED <<row, throttled_for, asked_ago, unrecorded>>
  BY DEF Restart, Asleep, ProcessRestarts
<1>2. \A l \in Locations : ThrottleInRow(l)' /\ AgeFromAsking(l)' /\ CooldownInMemory(l)'
  BY <1>1 DEF PacingInv, ThrottleInRow, AgeFromAsking, CooldownInMemory
<1>3. QED
  BY <1>1, <1>2 DEF PacingInv

LEMMA PacingStep == PacingInv /\ [PacingNext]_pacingVars => PacingInv'
<1> SUFFICES ASSUME PacingInv, [PacingNext]_pacingVars
             PROVE  PacingInv'
  OBVIOUS
<1>1. TypeOK' /\ ClocksTypeOK'
  BY PacingNextIsNext, TypeStep, ClocksStep DEF PacingInv
<1>2. ASSUME NEW l \in Locations, BeginCheck(l), Asked(l)
      PROVE  PacingInv'
  BY <1>1, <1>2, AskingKeeps
<1>3. ASSUME NEW l \in Locations, NEW r \in Results, CheckCommits(l, r), Recorded(l, r)
      PROVE  PacingInv'
  BY <1>1, <1>3, RecordingKeeps
<1>4. ASSUME NEW l \in Locations, NotifySubscribers(l), Told(l)
      PROVE  PacingInv'
  BY <1>1, <1>4, TellingKeeps
<1>5. CASE Tick /\ TimePasses
  BY <1>1, <1>5, TickKeeps
<1>6. CASE Restart /\ ProcessRestarts
  BY <1>1, <1>6, RestartKeeps
<1>7. CASE StartCycle /\ UNCHANGED clocks
  BY <1>1, <1>7, PlanKeeps
<1>8. CASE /\ UNCHANGED clocks
           /\ \/ SkipCycle \/ PlanFails \/ EndCycle \/ AbortCycle \/ Pause
              \/ \E l \in Locations, r \in Results : CommitFails(l, r)
              \/ \E l \in Locations : NotifyFails(l) \/ SkipNotify(l) \/ AlertAdmins(l)
              \/ CheckRaises \/ NothingToTell \/ ChangeSubscriptions
  BY <1>1, <1>8, QuietStepsKeep
<1>9. CASE UNCHANGED pacingVars
  <2>1. UNCHANGED <<row, clocks, cooling, todo, preferred, target, phase>>
    BY <1>9 DEF pacingVars, vars, memory, cycle
  <2>2. QED
    BY <1>1, <2>1, IdleFrame
<1>10. QED
  BY <1>2, <1>3, <1>4, <1>5, <1>6, <1>7, <1>8, <1>9 DEF PacingNext

LEMMA PacingInvariance == PacingSpec => []PacingInv
BY PacingInitial, PacingStep, PTL DEF PacingSpec

-----------------------------------------------------------------------------
(* What the sleep between two cycles makes up for *)

\* Steps that ask nobody and do not put anybody on the plan, and that leave the
\* scheduler where it sleeps, or awake, or send it to sleep for an interval at
\* least: a failed planning read excepted, which only follows a sleep.
LEMMA RestKeepsSpacing ==
  ASSUME TypeOK, ClocksTypeOK, TypeOK', SpacedByTheSleep, UNCHANGED <<asked_ago, ours>>,
         todo' \subseteq todo,
         phase' = "sleeping" => wake_in' >= Interval \/ UNCHANGED <<phase, wake_in>>
  PROVE  SpacedByTheSleep'
<1> SUFFICES ASSUME NEW l \in Locations, ours[l]
             PROVE  /\ phase' = "sleeping" => asked_ago[l] + wake_in' >= Interval
                    /\ l \in todo' => asked_ago[l] >= Interval
  BY DEF SpacedByTheSleep
<1>1. asked_ago[l] \in Nat /\ wake_in' \in Nat
  BY LongestGapType DEF ClocksTypeOK, TypeOK
<1>2. /\ phase = "sleeping" => asked_ago[l] + wake_in >= Interval
      /\ l \in todo => asked_ago[l] >= Interval
  BY DEF SpacedByTheSleep
<1>3. CASE phase' = "sleeping" /\ wake_in' >= Interval
  BY <1>1, <1>2, <1>3
<1>4. CASE ~(phase' = "sleeping" /\ wake_in' >= Interval)
  BY <1>2, <1>4
<1>5. QED
  BY <1>3, <1>4

\* Where the sleep is over, every question is an interval old.
LEMMA AwakeIsSpaced ==
  ASSUME ClocksTypeOK, SpacedByTheSleep, phase = "sleeping", wake_in = 0,
         NEW l \in Locations, ours[l]
  PROVE  asked_ago[l] >= Interval
<1>1. asked_ago[l] \in Nat /\ asked_ago[l] + 0 >= Interval
  BY LongestGapType DEF ClocksTypeOK, SpacedByTheSleep
<1>2. QED
  BY <1>1

LEMMA SpacingStep ==
  ASSUME PacingInv, PacingInv', SpacedByTheSleep, PacingNext
  PROVE  SpacedByTheSleep'
<1>1. TypeOK /\ ClocksTypeOK /\ TypeOK' /\ ClocksTypeOK'
  BY DEF PacingInv
<1>2. ASSUME NEW l \in Locations, BeginCheck(l), Asked(l)
      PROVE  SpacedByTheSleep'
  <2>1. phase' = "checking" /\ todo' = todo \ {l}
    BY <1>2 DEF BeginCheck
  <2>2. \A k \in Locations \ {l} : asked_ago'[k] = asked_ago[k] /\ ours'[k] = ours[k]
    BY <1>1, <1>2 DEF Asked, ClocksTypeOK
  <2>3. QED
    BY <2>1, <2>2 DEF SpacedByTheSleep
<1>3. CASE Tick /\ TimePasses
  <2> SUFFICES ASSUME NEW l \in Locations, ours[l]
               PROVE  /\ phase = "sleeping" => asked_ago'[l] + wake_in' >= Interval
                      /\ l \in todo => asked_ago'[l] >= Interval
    BY <1>3 DEF Tick, TimePasses, cycle, SpacedByTheSleep
  <2>1. PICK a \in 0..LongestGap : a = asked_ago[l]
    BY <1>1 DEF ClocksTypeOK
  <2>2. PICK b \in 0..LongestGap :
          b = asked_ago'[l] /\ b = IF a = LongestGap THEN LongestGap ELSE a + 1
    BY <1>3, <2>1, CountsUp, LongestGapType DEF TimePasses
  <2>3. PICK s \in Nat : s = wake_in
    BY <1>1 DEF TypeOK
  <2>4. PICK u \in Nat : u = wake_in' /\ u = IF s = 0 THEN 0 ELSE s - 1
    BY <1>3, <2>3 DEF Tick, larger
  <2>5. (a + s >= Interval => b + u >= Interval) /\ (a >= Interval => b >= Interval)
    BY <2>2, <2>4, LongestGapType
  <2>6. QED
    BY <2>1, <2>2, <2>3, <2>4, <2>5 DEF SpacedByTheSleep
<1>4. CASE Restart /\ ProcessRestarts
  BY <1>4 DEF ProcessRestarts, SpacedByTheSleep
<1>5. CASE StartCycle /\ UNCHANGED clocks
  <2>1. /\ phase = "sleeping" /\ wake_in = 0 /\ phase' = "choosing"
        /\ asked_ago' = asked_ago /\ ours' = ours
    BY <1>5 DEF StartCycle, clocks
  <2>2. QED
    BY <1>1, <2>1, AwakeIsSpaced DEF SpacedByTheSleep
<1>6. CASE PlanFails /\ UNCHANGED clocks
  <2>1. /\ phase = "sleeping" /\ wake_in = 0 /\ todo' = {}
        /\ asked_ago' = asked_ago /\ ours' = ours
    BY <1>6 DEF PlanFails, Rests, Asleep, clocks
  <2>2. ASSUME NEW l \in Locations, ours[l]
        PROVE  asked_ago[l] + wake_in' >= Interval
    <3>1. asked_ago[l] >= Interval
      BY <1>1, <2>1, <2>2, AwakeIsSpaced
    <3>2. PICK a \in Nat, u \in Nat : a = asked_ago[l] /\ u = wake_in'
      BY <1>1, LongestGapType DEF ClocksTypeOK, TypeOK
    <3>3. a + u >= Interval
      BY <3>1, <3>2
    <3>4. QED
      BY <3>2, <3>3
  <2>3. QED
    BY <2>1, <2>2 DEF SpacedByTheSleep
<1>7. CASE (SkipCycle \/ EndCycle \/ AbortCycle) /\ UNCHANGED clocks
  <2>1. todo' = {} /\ asked_ago' = asked_ago /\ ours' = ours
    BY <1>7 DEF SkipCycle, EndCycle, AbortCycle, Rests, Asleep, clocks
  <2>2. PICK extra \in 0..Jitter : wake_in' = Interval + extra
    BY <1>7 DEF SkipCycle, EndCycle, AbortCycle, Rests, Asleep
  <2>3. Interval + extra >= Interval
    BY <2>2
  <2>4. QED
    BY <1>1, <2>1, <2>2, <2>3, RestKeepsSpacing
<1>8. CASE /\ UNCHANGED clocks
           /\ \/ Pause
              \/ \E l \in Locations, r \in Results : CommitFails(l, r)
              \/ \E l \in Locations : NotifyFails(l) \/ SkipNotify(l) \/ AlertAdmins(l)
              \/ CheckRaises \/ NothingToTell
  <2>1. /\ phase' # "sleeping" /\ todo' = todo /\ asked_ago' = asked_ago /\ ours' = ours
    BY <1>8 DEF Pause, cycle, CommitFails, NotifyFails, SkipNotify, AlertAdmins,
                CheckRaises, NothingToTell, Onward, clocks
  <2>2. QED
    BY <1>1, <2>1, RestKeepsSpacing
<1>9. ASSUME NEW l \in Locations, NEW r \in Results, CheckCommits(l, r), Recorded(l, r)
      PROVE  SpacedByTheSleep'
  <2>1. /\ phase' # "sleeping" /\ todo' = todo /\ asked_ago' = asked_ago /\ ours' = ours
    BY <1>9 DEF CheckCommits, Recorded
  <2>2. QED
    BY <1>1, <2>1, RestKeepsSpacing
<1>10. ASSUME NEW l \in Locations, NotifySubscribers(l), Told(l)
       PROVE  SpacedByTheSleep'
  <2>1. /\ phase' # "sleeping" /\ todo' = todo /\ asked_ago' = asked_ago /\ ours' = ours
    BY <1>10 DEF NotifySubscribers, Told, Onward
  <2>2. QED
    BY <1>1, <2>1, RestKeepsSpacing
<1>11. CASE ChangeSubscriptions /\ UNCHANGED clocks
  <2>1. UNCHANGED <<phase, wake_in, todo, asked_ago, ours>>
    BY <1>11 DEF ChangeSubscriptions, cycle, clocks
  <2>2. QED
    BY <1>1, <2>1, RestKeepsSpacing
<1>12. QED
  BY <1>2, <1>3, <1>4, <1>5, <1>6, <1>7, <1>8, <1>9, <1>10, <1>11 DEF PacingNext

-----------------------------------------------------------------------------
(* The theorems *)

\* A location that answered 429 is not asked again before the backoff is over,
\* by whichever process.
THEOREM ThrottledAreLeftAlone == PacingSpec => ThrottledLeftAlone
<1>1. PacingInv => (\A l \in Locations : BeginCheck(l) => throttled_for[l] = 0)
  BY DEF PacingInv, ClocksTypeOK, ThrottleInRow, BeginCheck, NextLocation
<1>2. QED
  BY <1>1, PacingInvariance, PTL DEF PacingSpec, ThrottledLeftAlone

\* A location without subscribers is asked at most once per idle interval,
\* as long as its checks are recorded.
THEOREM IdleProbesAreSpaced == PacingSpec => IdleProbesSpaced
<1>1. PacingInv =>
        (\A l \in Locations :
           BeginCheck(l) /\ l \notin preferred => asked_ago[l] >= Idle \/ unrecorded[l])
  BY DEF PacingInv, AgeFromAsking, BeginCheck, NextLocation
<1>2. QED
  BY <1>1, PacingInvariance, PTL DEF PacingSpec, IdleProbesSpaced

\* Neither a failed commit, nor whatever else raises or aborts a cycle, has one
\* process ask the site twice about a location within an interval.
THEOREM QuestionsAreSpaced == PacingSpec => AskedOncePerInterval
<1>1. PacingInit => SpacedByTheSleep
  BY DEF PacingInit, SpacedByTheSleep
<1>2. PacingInv /\ PacingInv' /\ SpacedByTheSleep /\ [PacingNext]_pacingVars => SpacedByTheSleep'
  <2>1. CASE UNCHANGED pacingVars
    BY <2>1 DEF SpacedByTheSleep, pacingVars, vars, cycle, clocks
  <2>2. QED
    BY <2>1, SpacingStep
<1>3. SpacedByTheSleep =>
        (\A l \in Locations : BeginCheck(l) => asked_ago[l] >= Interval \/ ~ours[l])
  BY DEF SpacedByTheSleep, BeginCheck, NextLocation
<1>4. QED
  BY <1>1, <1>2, <1>3, PacingInvariance, PTL DEF PacingSpec, AskedOncePerInterval

\* One process does not alert twice about a location within the cooldown.
THEOREM AlertsAreSpaced == PacingSpec => CooldownWithinProcess
<1>1. ASSUME PacingInv, NEW l \in Locations, NotifySubscribers(l)
      PROVE  quiet_for[l] >= Cooldown \/ restarted[l]
  <2>1. cooling[l] = 0 /\ quiet_for[l] \in Nat /\ CooldownInMemory(l)
    BY <1>1 DEF NotifySubscribers, PacingInv, ClocksTypeOK
  <2>2. QED
    BY <2>1 DEF CooldownInMemory
<1>2. PacingInv =>
        (\A l \in Locations : NotifySubscribers(l) => quiet_for[l] >= Cooldown \/ restarted[l])
  BY <1>1
<1>3. QED
  BY <1>2, PacingInvariance, PTL DEF PacingSpec, CooldownWithinProcess
=============================================================================
