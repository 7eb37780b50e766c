------------------------------ MODULE MCAlerts ------------------------------
(* Small instances of the monitoring service with its history. *)
EXTENDS MonitoringAlerts

Answer(outcome)   == [outcome |-> outcome, limited |-> FALSE, dates |-> FALSE]
AnswerWithDates   == [outcome |-> "available", limited |-> FALSE, dates |-> TRUE]
Throttled == [outcome |-> "page_unavailable", limited |-> TRUE, dates |-> FALSE]

\* One representative of every branch of Transition.
EveryBranch ==
  {Answer("no_slots"), Answer("possibly_available"), Answer("timeout"),
   Answer("unknown"), AnswerWithDates, Throttled}

\* Availability with a list of dates and, from the HTML parser, without.
DatesOrNot == {Answer("no_slots"), Answer("possibly_available"), AnswerWithDates}
=============================================================================
