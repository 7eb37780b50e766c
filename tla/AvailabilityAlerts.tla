-------------------------- MODULE AvailabilityAlerts --------------------------
(***************************************************************************)
(* What monitoring promises its subscribers, without saying how: for each  *)
(* location, an alert is only ever given after the location was seen       *)
(* without slots, and not again before it is seen without slots again.     *)
(***************************************************************************)
CONSTANT Locations

VARIABLES
  seen,     \* NO_SLOTS was seen since the last alert
  bell      \* flips with every alert

vars == <<seen, bell>>

Init ==
  /\ seen = [l \in Locations |-> FALSE]
  /\ bell = [l \in Locations |-> FALSE]

SeeNoSlots(l) ==
  /\ seen' = [seen EXCEPT ![l] = TRUE]
  /\ UNCHANGED bell

Alert(l) ==
  /\ seen[l]
  /\ seen' = [seen EXCEPT ![l] = FALSE]
  /\ bell' = [bell EXCEPT ![l] = ~bell[l]]

Next == \E l \in Locations : SeeNoSlots(l) \/ Alert(l)

Spec == Init /\ [][Next]_vars
=============================================================================
