----------------------------- MODULE PageParser -----------------------------
(***************************************************************************)
(* parse_pasport_queue_html and the HTML checker's reading of an HTTP      *)
(* answer, as pure operators.  A page is what the parser looks for in it,  *)
(* one flag for each kind of marker; the markers themselves are a setting  *)
(* of the location and are left out.                                       *)
(***************************************************************************)
EXTENDS AvailabilityStateMachine

Page ==
  [blank     : BOOLEAN,   \* nothing but white space
   queue     : BOOLEAN,   \* has_queue_signal
   challenge : BOOLEAN,   \* challenge_bits, and one of captcha_markers
   full      : BOOLEAN,   \* one of no_slots_markers
   dates     : BOOLEAN,   \* an option with a value in the select of dates
   hint      : BOOLEAN,   \* one of available_markers
   form      : BOOLEAN,   \* the select of services or its caption
   title     : BOOLEAN]   \* the heading of the electronic queue

Facts == {"queue", "challenge", "full", "dates", "hint", "form", "title"}

\* A blank page has no markers; every mark of the form is a queue signal too.
Consistent(p) ==
  /\ p.blank => \A f \in Facts : ~p[f]
  /\ p.form => p.queue

Parse_ChallengeLast(p) ==
  IF p.full                         THEN "no_slots"
  ELSE IF p.dates                   THEN "available"
  ELSE IF p.hint                    THEN "possibly_available"
  ELSE IF ~p.queue /\ p.challenge   THEN "captcha"
  ELSE "unknown"

\* parse_pasport_queue_html: the first evidence in its order decides.  The
\* second test for hits with dates is unreachable behind the first for dates.
Parse(p) ==
  IF p.blank                        THEN "empty_response"
  ELSE IF ~p.queue /\ p.challenge   THEN "captcha"
  ELSE IF p.full                    THEN "no_slots"
  ELSE IF p.dates                   THEN "available"
  ELSE IF p.hint                    THEN "possibly_available"
  ELSE IF p.form                    THEN "unknown"
  ELSE IF p.title                   THEN "structure_changed"
  ELSE "unknown"

\* A result whose reason is not the transient 429.
Plain(outcome) == [outcome |-> outcome, limited |-> FALSE, dates |-> FALSE]

\* HtmlAvailabilityChecker.check once the page has arrived.  Its reason for a
\* 429 begins with "http_429:", which is not the reason of the browser's.
HtmlResult(p, status) ==
  Plain(IF status >= 500 THEN "server_error"
        ELSE IF /\ status >= 400
                /\ Parse(p) \notin AvailabilityOutcomes \cup {"no_slots"}
                /\ ~(status = 403 /\ Parse(p) = "captcha")
             THEN "page_unavailable"
        ELSE Parse(p))
=============================================================================
