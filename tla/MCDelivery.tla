------------------------------ MODULE MCDelivery ------------------------------
(* A small instance of the scheduler task with its fan-out. *)
EXTENDS AlertDelivery

Answer(outcome) == [outcome |-> outcome, limited |-> FALSE, dates |-> FALSE]

\* Slots that come and go: all that an alert needs.
ComeAndGo == {Answer("no_slots"), Answer("available"), Answer("timeout")}
=============================================================================
