------------------------------ MODULE MCPacing ------------------------------
(* A small instance of the monitoring service with an observer's clocks. *)
EXTENDS MonitoringPacing

Answer(outcome)   == [outcome |-> outcome, limited |-> FALSE, dates |-> FALSE]
AnswerWithDates   == [outcome |-> "available", limited |-> FALSE, dates |-> TRUE]
Throttled == [outcome |-> "page_unavailable", limited |-> TRUE, dates |-> FALSE]

\* One representative of every branch of Transition.
EveryBranch ==
  {Answer("no_slots"), Answer("possibly_available"), Answer("timeout"),
   Answer("unknown"), AnswerWithDates, Throttled}

\* What matters to the throttle: the site answers, or throttles.
AnswerOrThrottle == {Answer("no_slots"), Throttled}
=============================================================================
