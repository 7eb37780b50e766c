----------------------------- MODULE MCCheckers -----------------------------
(* A small instance of the checkers. *)
EXTENDS AvailabilityCheckers

\* One page for each verdict of the parser, and pages with several kinds of
\* evidence, of which the first has to decide.
Bare == [f \in DOMAIN BlankPage |-> FALSE]
SomePages ==
  {BlankPage, Bare,
   [Bare EXCEPT !.title = TRUE],
   [Bare EXCEPT !.challenge = TRUE, !.hint = TRUE],
   [Bare EXCEPT !.challenge = TRUE, !.queue = TRUE, !.dates = TRUE],
   [Bare EXCEPT !.queue = TRUE, !.form = TRUE],
   [Bare EXCEPT !.queue = TRUE, !.form = TRUE, !.hint = TRUE],
   [Bare EXCEPT !.queue = TRUE, !.form = TRUE, !.dates = TRUE],
   [Bare EXCEPT !.queue = TRUE, !.form = TRUE, !.dates = TRUE, !.full = TRUE]}
=============================================================================
