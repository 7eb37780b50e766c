--------------------------- MODULE MonitoringAlerts ---------------------------
(***************************************************************************)
(* MonitoringService with a memory of what the site answered.  The history *)
(* variables follow the steps and hold none of them back; the program has  *)
(* no counterpart for them, and a restart does not erase them.             *)
(***************************************************************************)
EXTENDS MonitoringService

VARIABLES
  seen,      \* the site answered "no slots" since the last alert
  bell,      \* flips with every alert
  streak,    \* recorded availability answers in a row, 429s not counted
  evidence,  \* the status the last conclusive recorded answer stands for
  clean      \* "no slots" was recorded, and nothing broke the path since

history == <<seen, bell, streak, evidence, clean>>
alertVars == <<vars, history>>

IsNoSlots(r)   == ~r.limited /\ r.outcome = "no_slots"
IsAvailable(r) == ~r.limited /\ r.outcome \in AvailabilityOutcomes
IsBroken(r)    == ~r.limited /\ ~IsNoSlots(r) /\ ~IsAvailable(r)

HistoryTypeOK ==
  /\ seen \in [Locations -> BOOLEAN]
  /\ bell \in [Locations -> BOOLEAN]
  /\ streak \in [Locations -> 0..Confirmations]
  /\ evidence \in [Locations -> LocationStatus]
  /\ clean \in [Locations -> BOOLEAN]

AlertsInit ==
  /\ Init
  /\ seen = [l \in Locations |-> FALSE]
  /\ bell = [l \in Locations |-> FALSE]
  /\ streak = [l \in Locations |-> 0]
  /\ evidence = [l \in Locations |-> "unknown"]
  /\ clean = [l \in Locations |-> FALSE]

\* The site's answer r for l has arrived, recorded or not.
Answered(l, r) ==
  /\ seen' = [seen EXCEPT ![l] = @ \/ IsNoSlots(r)]
  /\ UNCHANGED bell

Recorded(l, r) ==
  /\ Answered(l, r)
  /\ streak' = [streak EXCEPT ![l] =
       IF r.limited THEN @
       ELSE IF IsAvailable(r) THEN smaller(@ + 1, Confirmations) ELSE 0]
  /\ evidence' = [evidence EXCEPT ![l] =
       IF IsNoSlots(r) \/ IsAvailable(r) THEN row'[l].current_status ELSE @]
  /\ clean' = [clean EXCEPT ![l] = (@ \/ IsNoSlots(r)) /\ ~IsBroken(r)]

\* A failure that goes unrecorded spoils the path of a location that is
\* between its first and its last confirmation.
Unrecorded(l, r) ==
  /\ Answered(l, r)
  /\ clean' = [clean EXCEPT ![l] = @ /\ (streak[l] = 0 \/ ~IsBroken(r))]
  /\ UNCHANGED <<streak, evidence>>

Alerted(l) ==
  /\ seen' = [seen EXCEPT ![l] = FALSE]
  /\ bell' = [bell EXCEPT ![l] = ~@]
  /\ UNCHANGED <<streak, evidence, clean>>

\* So does a restart, which forgets that the location was armed.
Forgotten ==
  /\ clean' = [l \in Locations |-> clean[l] /\ streak[l] = 0]
  /\ UNCHANGED <<seen, bell, streak, evidence>>

AlertsNext ==
  \/ \E l \in Locations, r \in Results : CheckCommits(l, r) /\ Recorded(l, r)
  \/ \E l \in Locations, r \in Results : CommitFails(l, r) /\ Unrecorded(l, r)
  \/ \E l \in Locations : NotifySubscribers(l) /\ Alerted(l)
  \/ Restart /\ Forgotten
  \/ Schedule /\ UNCHANGED history
  \/ CheckRaises /\ UNCHANGED history
  \/ \E l \in Locations : NotifyFails(l) /\ UNCHANGED history
  \/ \E l \in Locations : (SkipNotify(l) \/ AlertAdmins(l)) /\ UNCHANGED history
  \/ NothingToTell /\ UNCHANGED history
  \/ Tick /\ UNCHANGED history
  \/ ChangeSubscriptions /\ UNCHANGED history

AlertsSpec == AlertsInit /\ [][AlertsNext]_alertVars

-----------------------------------------------------------------------------
(* Properties *)

Promise ==
  INSTANCE AvailabilityAlerts WITH Locations <- Locations, seen <- seen, bell <- bell

\* "No repeat until back to NO_SLOTS": whatever the interleaving of failures,
\* throttled checks that look through an ERROR, lost commits and restarts,
\* check_location alerts at most once for every time the site was seen
\* without slots.
OneAlertPerNoSlots == Promise!Spec

\* A decision to notify rests on Confirmations recorded availability answers
\* in a row, although the counter they are counted in survives restarts,
\* failed commits and statuses recovered by a 429.
AlertIsConfirmed ==
  \A l \in target : decision.notify => streak[l] = Confirmations

\* The converse: when the slots of a location that was recorded full get
\* confirmed, and no failure, restart or lost failure came in between,
\* check_location decides to notify.
EveryOpeningIsTold ==
  [][\A l \in Locations :
       clean[l] /\ streak[l] < Confirmations /\ streak'[l] = Confirmations
         => decision'.notify]_alertVars

\* A status users are shown is what the site last said, or ERROR or UNKNOWN:
\* the status a 429 restores from previous_status is never an older one.
StatusIsLastEvidence ==
  \A l \in Locations :
    row[l].current_status \notin {"error", "unknown"}
      => row[l].current_status = evidence[l]

\* Location.last_available_dates holds "date labels from the last AVAILABLE
\* check" whenever subscribers are about to be told of them.
AnnouncedDatesAreLatest ==
  \A l \in target : decision.notify => row[l].dates # "older"

-----------------------------------------------------------------------------
(* The inductive invariant the properties follow from *)

\* A location whose "no slots" is used up has no way to another alert: not
\* from its status, nor from the one a 429 would restore, nor by counting
\* confirmations from an armed AVAILABLE.
Spent(l) ==
  ~seen[l] =>
    /\ row[l].current_status # "no_slots"
    /\ row[l].current_status = "error"
         => row[l].previous_status # "no_slots" /\ ~armed[l]
    /\ armed[l] => /\ row[l].current_status # "possibly_available"
                   /\ row[l].current_status = "available"
                        => row[l].available_checks = Confirmations

\* The stored counter counts recorded availability answers in a row.
Counted(l) == row[l].available_checks = streak[l]

\* The status, and the one a 429 would restore, are the last evidence.
Evident(l) ==
  /\ row[l].current_status \notin {"error", "unknown"}
       => row[l].current_status = evidence[l]
  /\ row[l].current_status = "error" /\ row[l].previous_status \notin {"error", "unknown"}
       => row[l].previous_status = evidence[l]

\* An unbroken path is waiting for its first confirmation in NO_SLOTS, or
\* for a later one, armed, in POSSIBLY_AVAILABLE.
Ready(l) ==
  clean[l] =>
    /\ streak[l] = 0 => row[l].current_status = "no_slots"
    /\ streak[l] \in 1..(Confirmations - 1)
         => row[l].current_status = "possibly_available" /\ armed[l]

\* A pending alert is due, confirmed, and about a location shown AVAILABLE.
Pending(l) ==
  l \in target /\ decision.notify =>
    seen[l] /\ streak[l] = Confirmations /\ row[l].current_status = "available"

AlertsInv ==
  /\ TypeOK /\ HistoryTypeOK
  /\ \A l \in Locations : Spent(l) /\ Counted(l) /\ Evident(l) /\ Ready(l) /\ Pending(l)
  /\ phase # "announcing" => ~decision.notify
  /\ \A k, l \in target : k = l
=============================================================================
