---------------------- MODULE AvailabilityStateMachine ----------------------
(***************************************************************************)
(* The pure status machine of src/src/app/monitoring/state_machine.py: one *)
(* check result, applied to a location's status and its two streak         *)
(* counters, gives a decision.  It holds no state; MonitoringService owns  *)
(* the row the decision is written to and the "armed" flag it is given.    *)
(*                                                                         *)
(* A result keeps what the decision depends on: the outcome, whether the   *)
(* reason is "http_429_rate_limited", and whether the details carry a      *)
(* non-empty list of dates.  Response metadata and texts are left out.     *)
(***************************************************************************)
EXTENDS Integers

CONSTANT Confirmations      \* AVAILABILITY_CONFIRMATIONS

\* AvailabilityStateMachine.__init__ raises ValueError below 1.
ASSUME ConfirmationsAssumption == Confirmations \in Nat \ {0}

LocationStatus ==
  {"unknown", "no_slots", "possibly_available", "available", "error", "disabled"}

FailureOutcomes ==
  {"page_unavailable", "structure_changed", "captcha", "server_error",
   "empty_response", "redirect", "location_gone", "timeout", "network_error"}

AvailabilityOutcomes == {"possibly_available", "available"}

CheckOutcome ==
  FailureOutcomes \cup AvailabilityOutcomes \cup {"no_slots", "unknown"}

CheckResult == [outcome : CheckOutcome, limited : BOOLEAN, dates : BOOLEAN]

Decision ==
  [status : LocationStatus, available : Nat, failed : Nat,
   notify : BOOLEAN, alert : BOOLEAN]

\* The failed check on which the administrators are told, and every one after.
AdminAlertAfter == 5

\* A decision that tells nobody.
Silent(status, available, failed) ==
  [status |-> status, available |-> available, failed |-> failed,
   notify |-> FALSE, alert |-> FALSE]

\* Enough availability answers in a row to call the location AVAILABLE.
\* (Names with an underscore are mutated forms of the definition they precede:
\* plausible slips, kept to show which property would notice them.)
Confirmed_OneEarly(count) == count + 1 >= Confirmations

Confirmed(count) == count >= Confirmations

(***************************************************************************)
(* transition(): the tests in the order the code makes them.  Its last     *)
(* return ("unhandled_outcome") is unreachable: the outcomes tested before *)
(* it are all of CheckOutcome.                                             *)
(***************************************************************************)
Transition(current, available, failed, result, armed) ==
  LET count == available + 1 IN
  CASE result.limited ->
         Silent(current, available, failed)
    [] ~result.limited /\ result.outcome \in FailureOutcomes ->
         [Silent("error", 0, failed + 1)
            EXCEPT !.alert = failed + 1 >= AdminAlertAfter]
    [] ~result.limited /\ result.outcome = "unknown" ->
         Silent("unknown", 0, failed + 1)
    [] ~result.limited /\ result.outcome = "no_slots" ->
         Silent("no_slots", 0, 0)
    [] ~result.limited /\ result.outcome \in AvailabilityOutcomes ->
         IF Confirmed(count)
         THEN [Silent("available", count, 0)
                 EXCEPT !.notify =
                   armed /\ current \in {"no_slots", "possibly_available"}]
         ELSE Silent("possibly_available", count, 0)

=============================================================================
