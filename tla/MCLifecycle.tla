----------------------------- MODULE MCLifecycle -----------------------------
(* Small instances of the process with its scheduler. *)
EXTENDS Lifecycle

Answer(outcome) == [outcome |-> outcome, limited |-> FALSE, dates |-> FALSE]
Throttled == [outcome |-> "page_unavailable", limited |-> TRUE, dates |-> FALSE]

\* What matters to pacing: the site answers, or throttles.
AnswerOrThrottle == {Answer("no_slots"), Throttled}
=============================================================================
