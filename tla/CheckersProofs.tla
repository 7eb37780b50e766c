---------------------------- MODULE CheckersProofs ----------------------------
(***************************************************************************)
(* Proofs about the checkers, for any pages, statuses and number of        *)
(* failures.  TypeOK is split in two, since few steps change both the      *)
(* records of a check (Data) and the life of Chromium (Control); Handles   *)
(* and Contexts relate the counters to it, Verdicts the results to what    *)
(* the pages have shown.                                                   *)
(***************************************************************************)
EXTENDS AvailabilityCheckers, TLAPS

-----------------------------------------------------------------------------
(* Results, pages and tabs *)

\* A result of which only the outcome matters (CheckResult in domain/entities.py).
LEMMA PlainIsResult ==
  ASSUME NEW outcome \in CheckOutcome
  PROVE  Plain(outcome) \in CheckResult /\ Plain(outcome).outcome = outcome
BY DEF Plain, CheckResult

\* The result of a 429 (browser.py).
LEMMA ThrottledIsResult == Throttled \in CheckResult
BY DEF Throttled, CheckResult, CheckOutcome, FailureOutcomes

\* A result stays one when a server error or found dates are put into it.
LEMMA OverruledIsResult ==
  ASSUME NEW r \in CheckResult
  PROVE  /\ [r EXCEPT !.outcome = "server_error"] \in CheckResult
         /\ [r EXCEPT !.dates = TRUE] \in CheckResult
BY DEF CheckResult, CheckOutcome, FailureOutcomes

\* The outcomes that the checkers name are members of CheckOutcome.
LEMMA Outcomes ==
  /\ \A o \in {"timeout", "network_error", "server_error", "page_unavailable",
              "captcha", "empty_response", "structure_changed"} : o \in FailureOutcomes
  /\ FailureOutcomes \subseteq CheckOutcome
  /\ \A o \in {"available", "possibly_available", "no_slots", "unknown"} : o \in CheckOutcome
BY DEF CheckOutcome, FailureOutcomes, AvailabilityOutcomes

\* The parser classifies every page.
LEMMA ParseIsOutcome ==
  ASSUME NEW p \in Page
  PROVE  Parse(p) \in CheckOutcome
BY Outcomes DEF Parse, Page

\* The parser speaks of slots only where the page shows them.
LEMMA ParseIsGrounded ==
  ASSUME NEW p \in Page
  PROVE  /\ Parse(p) = "available" => "dates" \in Shown(p)
         /\ Parse(p) = "possibly_available" => "hint" \in Shown(p)
BY DEF Parse, Page, Shown

\* The HTML checker answers with the parser's outcome or a failure.
LEMMA HtmlIsResult ==
  ASSUME NEW p \in Page, NEW s \in Nat
  PROVE  /\ HtmlResult(p, s) \in CheckResult
         /\ HtmlResult(p, s).outcome \in {"server_error", "page_unavailable", Parse(p)}
BY ParseIsOutcome, PlainIsResult, Outcomes DEF HtmlResult

\* The tab before the first navigation.
LEMMA NoTabIsTab == NoTab \in Tab
BY DEF NoTab, Tab, Page, BlankPage, FormStates

\* A tab stays one after every change the steps make to it.
LEMMA TabKeepsType ==
  ASSUME NEW t \in Tab, NEW p \in Page, NEW s \in Nat, NEW f \in FormStates,
         NEW g \in FormStates
  PROVE  /\ [t EXCEPT !.page = p, !.answered = s, !.status = s] \in Tab
         /\ [t EXCEPT !.form = f, !.seen = g] \in Tab
         /\ [t EXCEPT !.form = f] \in Tab
         /\ [t EXCEPT !.seen = f] \in Tab
         /\ [t EXCEPT !.page = p, !.answered = s, !.form = f] \in Tab
         /\ t.page \in Page /\ t.form \in FormStates
BY DEF Tab

-----------------------------------------------------------------------------
(* What each step preserves *)

\* Every step of start, stop and check keeps the handles in order.
LEMMA HandlesStep ==
  ASSUME TypeOK, Handles, [Next]_vars
  PROVE  Handles'
<1>1. CASE CheckWithoutPage
  BY <1>1, LimitsAssumption DEF CheckWithoutPage, Returns, Plain, process,
       counts, NoTab, call, vars, BlankPage, TypeOK, Handles, Starting,
       Trying, Displaying
<1>2. CASE BeginHtmlCheck
  BY <1>2, LimitsAssumption DEF BeginHtmlCheck, Begins, process, counts,
       Plain, call, vars, TypeOK, Handles, Starting, Trying, Displaying
<1>3. CASE BeginBrowserCheck
  BY <1>3, LimitsAssumption DEF BeginBrowserCheck, Begins, StopOr, process,
       counts, BrowserAlive, Plain, call, vars, TypeOK, Handles, Starting,
       Trying, Displaying
<1>4. CASE CloseBrowser
  BY <1>4, LimitsAssumption DEF CloseBrowser, AfterStop, call, process,
       counts, vars, TypeOK, Handles, Starting, Trying, Displaying
<1>5. CASE StopPlaywright
  BY <1>5, LimitsAssumption DEF StopPlaywright, AfterStop, call, counts,
       process, vars, TypeOK, Handles, Starting, Trying, Displaying
<1>6. CASE StopPlaywrightRaises
  BY <1>6, LimitsAssumption DEF StopPlaywrightRaises, AfterStop, call,
       process, counts, vars, TypeOK, Handles, Starting, Trying, Displaying
<1>7. CASE StartPlaywright
  BY <1>7, LimitsAssumption DEF StartPlaywright, call, counts, process, vars,
       TypeOK, Handles, Starting, Trying, Displaying
<1>8. CASE Launch
  BY <1>8, LimitsAssumption DEF Launch, call, counts, process, vars, TypeOK,
       Handles, Starting, Trying, Displaying
<1>9. CASE StartRaises
  BY <1>9, LimitsAssumption DEF StartRaises, Returns, Plain, call, counts,
       NoTab, process, vars, BlankPage, TypeOK, Handles, Starting, Trying,
       Displaying
<1>10. CASE \E p \in Pages, s \in Statuses : HtmlAnswers(p, s)
  BY <1>10, LimitsAssumption DEF HtmlAnswers, Returns, process, counts, Shown,
       HtmlResult, Plain, NoTab, call, vars, BlankPage, TypeOK, Handles,
       Starting, Trying, Displaying
<1>11. CASE \E p \in Pages, s \in Statuses : Goto(p, s)
  BY <1>11, LimitsAssumption DEF Goto, Leaves, Throttled, process, counts,
       Shown, NoTab, call, vars, BlankPage, TypeOK, Handles, Starting, Trying,
       Displaying
<1>12. CASE HtmlRaises \/ HtmlEscapes
  BY <1>12, LimitsAssumption DEF HtmlRaises, HtmlEscapes, Returns, Plain, process, counts,
       NoTab, call, vars, BlankPage, TypeOK, Handles, Starting, Trying,
       Displaying
<1>13. CASE NewContext
  BY <1>13, LimitsAssumption DEF NewContext, call, counts, process, vars,
       TypeOK, Handles, Starting, Trying, Displaying
<1>14. CASE AddInitScript
  BY <1>14, LimitsAssumption DEF AddInitScript, process, counts, call, vars,
       TypeOK, Handles, Starting, Trying, Displaying
<1>15. CASE Settle
  BY <1>15, LimitsAssumption DEF Settle, call, process, counts, vars, TypeOK,
       Handles, Starting, Trying, Displaying
<1>16. CASE \E f \in FormStates : SelectService(f)
  BY <1>16, LimitsAssumption DEF SelectService, process, counts, call, vars,
       TypeOK, Handles, Starting, Trying, Displaying
<1>17. CASE SelectNothing
  BY <1>17, LimitsAssumption DEF SelectNothing, call, process, counts, vars,
       TypeOK, Handles, Starting, Trying, Displaying
<1>18. CASE Read
  BY <1>18, LimitsAssumption DEF Read, Plain, process, counts, call, vars,
       TypeOK, Handles, Starting, Trying, Displaying
<1>19. CASE Ask
  BY <1>19, LimitsAssumption DEF Ask, Leaves, Throttled, process, counts,
       NoTab, call, vars, BlankPage, TypeOK, Handles, Starting, Trying,
       Displaying
<1>20. CASE Deadline
  BY <1>20, LimitsAssumption DEF Deadline, Plain, Resolved, process, counts,
       call, vars, TypeOK, Handles, Starting, Trying, Displaying
<1>21. CASE \E outcome \in Failure, lost \in BOOLEAN : TryRaises(outcome, lost)
  BY <1>21, LimitsAssumption DEF TryRaises, Raise, Trying, Plain, StopOr,
       process, NoTab, Displaying, call, counts, vars, BlankPage, TypeOK,
       Handles, Starting
<1>22. CASE \E outcome \in Failure, lost \in BOOLEAN : InitScriptRaises(outcome, lost)
  BY <1>22, LimitsAssumption DEF InitScriptRaises, Raise, Plain, StopOr,
       process, NoTab, call, counts, vars, BlankPage, TypeOK, Handles,
       Starting, Trying, Displaying
<1>23. CASE LeaveTry
  BY <1>23, LimitsAssumption DEF LeaveTry, Returns, counts, Plain, NoTab,
       call, process, vars, BlankPage, TypeOK, Handles, Starting, Trying,
       Displaying
<1>24. CASE CloseContextRaises
  BY <1>24, LimitsAssumption DEF CloseContextRaises, Returns, process, Plain,
       NoTab, call, counts, vars, BlankPage, TypeOK, Handles, Starting,
       Trying, Displaying
<1>25. CASE Poll
  BY <1>25, LimitsAssumption DEF Poll, Plain, Resolved, process, counts, call,
       vars, TypeOK, Handles, Tab, FormStates, Starting, Trying, Displaying
<1>26. CASE Shutdown
  BY <1>26, LimitsAssumption DEF Shutdown, StopOr, process, counts, call,
       vars, TypeOK, Handles, Starting, Trying, Displaying
<1>27. CASE \E f \in FormStates : GetDaysAnswers(f)
  BY <1>27, LimitsAssumption DEF GetDaysAnswers, process, counts, call, vars,
       TypeOK, Handles, Starting, Trying, Displaying
<1>28. CASE \E f \in FormStates : GetDaysBlocked(f)
  BY <1>28, LimitsAssumption DEF GetDaysBlocked, process, counts, call, vars,
       TypeOK, Handles, Starting, Trying, Displaying
<1>29. CASE \E p \in Pages, s \in Statuses : Reload(p, s)
  BY <1>29, LimitsAssumption DEF Reload, process, counts, Displaying, Shown,
       call, vars, Trying, TypeOK, Handles, Starting
<1>30. CASE BrowserDies
  BY <1>30, LimitsAssumption DEF BrowserDies, call, process, counts, vars,
       TypeOK, Handles, Starting, Trying, Displaying
<1>31. CASE UNCHANGED vars
  BY <1>31 DEF vars, call, process, counts, TypeOK, Handles
<1> QED
  BY <1>1, <1>2, <1>3, <1>4, <1>5, <1>6, <1>7, <1>8, <1>9, <1>10, <1>11,
       <1>12, <1>13, <1>14, <1>15, <1>16, <1>17, <1>18, <1>19, <1>20, <1>21,
       <1>22, <1>23, <1>24, <1>25, <1>26, <1>27, <1>28, <1>29, <1>30, <1>31
     DEF Next, BeginCheck, Proceed, Surroundings

\* Every step keeps the contexts accounted for.
LEMMA ContextsStep ==
  ASSUME TypeOK, Handles, Contexts, [Next]_vars
  PROVE  Contexts'
<1>1. CASE CheckWithoutPage
  BY <1>1, LimitsAssumption DEF CheckWithoutPage, Returns, Plain, process,
       counts, NoTab, call, vars, BlankPage, TypeOK, Handles, Contexts,
       Starting, Trying, Displaying
<1>2. CASE BeginHtmlCheck
  BY <1>2, LimitsAssumption DEF BeginHtmlCheck, Begins, process, counts,
       Plain, call, vars, TypeOK, Handles, Contexts, Starting, Trying,
       Displaying
<1>3. CASE BeginBrowserCheck
  BY <1>3, LimitsAssumption DEF BeginBrowserCheck, Begins, StopOr, process,
       counts, BrowserAlive, Plain, call, vars, TypeOK, Handles, Contexts,
       Starting, Trying, Displaying
<1>4. CASE CloseBrowser
  BY <1>4, LimitsAssumption DEF CloseBrowser, AfterStop, call, process,
       counts, vars, TypeOK, Handles, Contexts, Starting, Trying, Displaying
<1>5. CASE StopPlaywright
  BY <1>5, LimitsAssumption DEF StopPlaywright, AfterStop, call, counts,
       process, vars, TypeOK, Handles, Contexts, Starting, Trying, Displaying
<1>6. CASE StopPlaywrightRaises
  BY <1>6, LimitsAssumption DEF StopPlaywrightRaises, AfterStop, call,
       process, counts, vars, TypeOK, Handles, Contexts, Starting, Trying,
       Displaying
<1>7. CASE StartPlaywright
  BY <1>7, LimitsAssumption DEF StartPlaywright, call, counts, process, vars,
       TypeOK, Handles, Contexts, Starting, Trying, Displaying
<1>8. CASE Launch
  BY <1>8, LimitsAssumption DEF Launch, call, counts, process, vars, TypeOK,
       Handles, Contexts, Starting, Trying, Displaying
<1>9. CASE StartRaises
  BY <1>9, LimitsAssumption DEF StartRaises, Returns, Plain, call, counts,
       NoTab, process, vars, BlankPage, TypeOK, Handles, Contexts, Starting,
       Trying, Displaying
<1>10. CASE \E p \in Pages, s \in Statuses : HtmlAnswers(p, s)
  BY <1>10, LimitsAssumption DEF HtmlAnswers, Returns, process, counts, Shown,
       HtmlResult, Plain, NoTab, call, vars, BlankPage, TypeOK, Handles,
       Contexts, Starting, Trying, Displaying
<1>11. CASE \E p \in Pages, s \in Statuses : Goto(p, s)
  BY <1>11, LimitsAssumption DEF Goto, Leaves, Throttled, process, counts,
       Shown, NoTab, call, vars, BlankPage, TypeOK, Handles, Contexts,
       Starting, Trying, Displaying
<1>12. CASE HtmlRaises \/ HtmlEscapes
  BY <1>12, LimitsAssumption DEF HtmlRaises, HtmlEscapes, Returns, Plain, process, counts,
       NoTab, call, vars, BlankPage, TypeOK, Handles, Contexts, Starting,
       Trying, Displaying
<1>13. CASE NewContext
  BY <1>13, LimitsAssumption DEF NewContext, call, counts, process, vars,
       TypeOK, Handles, Contexts, Starting, Trying, Displaying
<1>14. CASE AddInitScript
  BY <1>14, LimitsAssumption DEF AddInitScript, process, counts, call, vars,
       TypeOK, Handles, Contexts, Starting, Trying, Displaying
<1>15. CASE Settle
  BY <1>15, LimitsAssumption DEF Settle, call, process, counts, vars, TypeOK,
       Handles, Contexts, Starting, Trying, Displaying
<1>16. CASE \E f \in FormStates : SelectService(f)
  BY <1>16, LimitsAssumption DEF SelectService, process, counts, call, vars,
       TypeOK, Handles, Contexts, Starting, Trying, Displaying
<1>17. CASE SelectNothing
  BY <1>17, LimitsAssumption DEF SelectNothing, call, process, counts, vars,
       TypeOK, Handles, Contexts, Starting, Trying, Displaying
<1>18. CASE Read
  BY <1>18, LimitsAssumption DEF Read, Plain, process, counts, call, vars,
       TypeOK, Handles, Contexts, Starting, Trying, Displaying
<1>19. CASE Ask
  BY <1>19, LimitsAssumption DEF Ask, Leaves, Throttled, process, counts,
       NoTab, call, vars, BlankPage, TypeOK, Handles, Contexts, Starting,
       Trying, Displaying
<1>20. CASE Deadline
  BY <1>20, LimitsAssumption DEF Deadline, Plain, Resolved, process, counts,
       call, vars, TypeOK, Handles, Contexts, Starting, Trying, Displaying
<1>21. CASE \E outcome \in Failure, lost \in BOOLEAN : TryRaises(outcome, lost)
  BY <1>21, LimitsAssumption DEF TryRaises, Raise, Trying, Plain, StopOr,
       process, NoTab, Displaying, call, counts, vars, BlankPage, TypeOK,
       Handles, Contexts, Starting
<1>22. CASE \E outcome \in Failure, lost \in BOOLEAN : InitScriptRaises(outcome, lost)
  BY <1>22, LimitsAssumption DEF InitScriptRaises, Raise, Plain, StopOr,
       process, NoTab, call, counts, vars, BlankPage, TypeOK, Handles,
       Contexts, Starting, Trying, Displaying
<1>23. CASE LeaveTry
  BY <1>23, LimitsAssumption DEF LeaveTry, Returns, counts, Plain, NoTab,
       call, process, vars, BlankPage, TypeOK, Handles, Contexts, Starting,
       Trying, Displaying
<1>24. CASE CloseContextRaises
  BY <1>24, LimitsAssumption DEF CloseContextRaises, Returns, process, Plain,
       NoTab, call, counts, vars, BlankPage, TypeOK, Handles, Contexts,
       Starting, Trying, Displaying
<1>25. CASE Poll
  BY <1>25, LimitsAssumption DEF Poll, Plain, Resolved, process, counts, call,
       vars, TypeOK, Handles, Contexts, Tab, FormStates, Starting, Trying,
       Displaying
<1>26. CASE Shutdown
  BY <1>26, LimitsAssumption DEF Shutdown, StopOr, process, counts, call,
       vars, TypeOK, Handles, Contexts, Starting, Trying, Displaying
<1>27. CASE \E f \in FormStates : GetDaysAnswers(f)
  BY <1>27, LimitsAssumption DEF GetDaysAnswers, process, counts, call, vars,
       TypeOK, Handles, Contexts, Starting, Trying, Displaying
<1>28. CASE \E f \in FormStates : GetDaysBlocked(f)
  BY <1>28, LimitsAssumption DEF GetDaysBlocked, process, counts, call, vars,
       TypeOK, Handles, Contexts, Starting, Trying, Displaying
<1>29. CASE \E p \in Pages, s \in Statuses : Reload(p, s)
  BY <1>29, LimitsAssumption DEF Reload, process, counts, Displaying, Shown,
       call, vars, Trying, TypeOK, Handles, Contexts, Starting
<1>30. CASE BrowserDies
  BY <1>30, LimitsAssumption DEF BrowserDies, call, process, counts, vars,
       TypeOK, Handles, Contexts, Starting, Trying, Displaying
<1>31. CASE UNCHANGED vars
  BY <1>31 DEF vars, call, process, counts, TypeOK, Handles, Contexts
<1> QED
  BY <1>1, <1>2, <1>3, <1>4, <1>5, <1>6, <1>7, <1>8, <1>9, <1>10, <1>11,
       <1>12, <1>13, <1>14, <1>15, <1>16, <1>17, <1>18, <1>19, <1>20, <1>21,
       <1>22, <1>23, <1>24, <1>25, <1>26, <1>27, <1>28, <1>29, <1>30, <1>31
     DEF Next, BeginCheck, Proceed, Surroundings

\* The local variables of a check that are records.
Data == tab \in Tab /\ verdict \in CheckResult /\ result \in CheckResult

\* The records of a check keep their types.
LEMMA DataStep ==
  ASSUME Data, [Next]_vars
  PROVE  Data'
<1>1. CASE CheckWithoutPage
  BY <1>1, PlainIsResult, NoTabIsTab, Outcomes DEF CheckWithoutPage, Returns,
       Data
<1>2. CASE BeginHtmlCheck
  BY <1>2, PlainIsResult, Outcomes DEF BeginHtmlCheck, Begins, Data
<1>3. CASE BeginBrowserCheck
  BY <1>3, PlainIsResult, Outcomes DEF BeginBrowserCheck, Begins, Data
<1>4. CASE CloseBrowser
  BY <1>4 DEF CloseBrowser, call, Data
<1>5. CASE StopPlaywright
  BY <1>5 DEF StopPlaywright, call, Data
<1>6. CASE StopPlaywrightRaises
  BY <1>6 DEF StopPlaywrightRaises, call, Data
<1>7. CASE StartPlaywright
  BY <1>7 DEF StartPlaywright, call, Data
<1>8. CASE Launch
  BY <1>8 DEF Launch, call, Data
<1>9. CASE StartRaises
  BY <1>9, PlainIsResult, NoTabIsTab, Outcomes DEF StartRaises, Returns, call,
       Data
<1>10. ASSUME NEW p \in Pages, NEW s \in Statuses, HtmlAnswers(p, s)
       PROVE  Data'
  BY <1>10, HtmlIsResult, PlainIsResult, NoTabIsTab, Outcomes, PagesAssumption, StatusesAssumption DEF
       HtmlAnswers, Returns, Data
<1>11. ASSUME NEW p \in Pages, NEW s \in Statuses, Goto(p, s)
       PROVE  Data'
  <2>1. p \in Page /\ s \in Nat
    BY PagesAssumption, StatusesAssumption
  <2>2. CASE s = 429
    BY <1>11, <2>2, NoTabIsTab, ThrottledIsResult DEF Goto, Leaves, Data
  <2>3. CASE s # 429
    BY <1>11, <2>1, <2>3, NoTabIsTab DEF Goto, Data, Tab
  <2> QED  BY <2>2, <2>3
<1>12. CASE HtmlRaises \/ HtmlEscapes
  BY <1>12, PlainIsResult, NoTabIsTab, Outcomes DEF HtmlRaises, HtmlEscapes, Returns, Data
<1>13. CASE NewContext
  BY <1>13 DEF NewContext, call, Data
<1>14. CASE AddInitScript
  BY <1>14 DEF AddInitScript, call, Data
<1>15. CASE Settle
  BY <1>15 DEF Settle, call, Data
<1>16. ASSUME NEW f \in FormStates, SelectService(f)
       PROVE  Data'
  BY <1>16 DEF SelectService, Tab, Data
<1>17. CASE SelectNothing
  BY <1>17 DEF SelectNothing, call, Data
<1>18. CASE Read
  BY <1>18, PlainIsResult, ParseIsOutcome DEF Read, Tab, call, Data
<1>19. CASE Ask
  <2>1. verdict' \in {Throttled, [verdict EXCEPT !.outcome = "server_error"], verdict}
    BY <1>19 DEF Ask, Leaves
  <2>2. tab' = NoTab /\ result' = result
    BY <1>19 DEF Ask, Leaves
  <2> QED  BY <2>1, <2>2, ThrottledIsResult, OverruledIsResult, NoTabIsTab DEF Data
<1>20. CASE Deadline
  BY <1>20, PlainIsResult, Outcomes DEF Deadline, Resolved, Tab, FormStates,
       Data
<1>21. ASSUME NEW outcome \in Failure, NEW lost \in BOOLEAN, TryRaises(outcome, lost)
       PROVE  Data'
  BY <1>21, PlainIsResult, Outcomes, NoTabIsTab DEF TryRaises, Raise, Failure,
       Data
<1>22. ASSUME NEW outcome \in Failure, NEW lost \in BOOLEAN, InitScriptRaises(outcome, lost)
       PROVE  Data'
  BY <1>22, PlainIsResult, Outcomes, NoTabIsTab DEF InitScriptRaises, Raise,
       Failure, Data
<1>23. CASE LeaveTry
  BY <1>23, PlainIsResult, Outcomes, NoTabIsTab DEF LeaveTry, Returns, Data
<1>24. CASE CloseContextRaises
  BY <1>24, PlainIsResult, Outcomes, NoTabIsTab DEF CloseContextRaises,
       Returns, Data
<1>25. CASE Poll
  <2>1. tab.form \in FormStates
    BY DEF Data, Tab
  <2>2. CASE tab.form = "dates"
    <3>1. /\ verdict' = [Plain("available") EXCEPT !.dates = TRUE]
          /\ tab' = [tab EXCEPT !.form = "plain", !.seen = "plain"]
          /\ result' = result
      BY <1>25, <2>2 DEF Poll, Resolved
    <3>2. verdict' \in CheckResult
      BY <3>1, PlainIsResult, OverruledIsResult, Outcomes
    <3> QED  BY <3>1, <3>2 DEF Data, Tab, FormStates
  <2>3. CASE tab.form \in {"message", "empty"}
    BY <1>25, <2>3, PlainIsResult, Outcomes DEF Poll, Resolved, Data, Tab, FormStates
  <2>4. CASE tab.form \in {"loading", "plain"}
    BY <1>25, <2>4 DEF Poll, Data, Tab, FormStates
  <2> QED  BY <2>1, <2>2, <2>3, <2>4 DEF FormStates
<1>26. CASE Shutdown
  BY <1>26 DEF Shutdown, call, Data
<1>27. ASSUME NEW f \in FormStates, GetDaysAnswers(f)
       PROVE  Data'
  BY <1>27 DEF GetDaysAnswers, Tab, FormStates, Data
<1>28. ASSUME NEW f \in FormStates, GetDaysBlocked(f)
       PROVE  Data'
  BY <1>28 DEF GetDaysBlocked, Tab, FormStates, Data
<1>29. ASSUME NEW p \in Pages, NEW s \in Statuses, Reload(p, s)
       PROVE  Data'
  BY <1>29, TabKeepsType, PagesAssumption, StatusesAssumption DEF Reload,
       FormStates, Data
<1>30. CASE BrowserDies
  BY <1>30 DEF BrowserDies, call, Data
<1>31. CASE UNCHANGED vars
  BY <1>31 DEF vars, call, Data
<1> QED
  BY <1>1, <1>2, <1>3, <1>4, <1>5, <1>6, <1>7, <1>8, <1>9, <1>10, <1>11,
       <1>12, <1>13, <1>14, <1>15, <1>16, <1>17, <1>18, <1>19, <1>20, <1>21,
       <1>22, <1>23, <1>24, <1>25, <1>26, <1>27, <1>28, <1>29, <1>30, <1>31
     DEF Next, BeginCheck, Proceed, Surroundings

\* The other variables.
Control ==
  /\ enabled \in BOOLEAN
  /\ playwright \in BOOLEAN
  /\ browser \in {"none", "alive", "dead"}
  /\ pc \in {"idle", "fetching", "leaving", "down"} \cup Starting \cup Trying
  /\ purpose \in {"boot", "check", "lost", "shutdown"}
  /\ context \in BOOLEAN
  /\ post_blocked \in BOOLEAN
  /\ evidence \subseteq {"dates", "hint"}
  /\ slips \in 0..MaxSlips /\ undead \in 0..MaxSlips
  /\ deaths \in 0..MaxDeaths

\* So do the other variables but the two counters.
LEMMA ControlStep ==
  ASSUME Data, Control, [Next]_vars
  PROVE  Control'
<1>1. CASE CheckWithoutPage
  BY <1>1, LimitsAssumption DEF CheckWithoutPage, Returns, process, counts,
       call, Control, Starting, Displaying, Trying
<1>2. CASE BeginHtmlCheck
  BY <1>2, LimitsAssumption DEF BeginHtmlCheck, Begins, process, counts, call,
       Control, Starting, Displaying, Trying
<1>3. CASE BeginBrowserCheck
  BY <1>3, LimitsAssumption DEF BeginBrowserCheck, Begins, StopOr, process,
       counts, BrowserAlive, call, Control, Starting, Displaying, Trying
<1>4. CASE CloseBrowser
  BY <1>4, LimitsAssumption DEF CloseBrowser, AfterStop, call, process,
       counts, Control, Starting, Displaying, Trying
<1>5. CASE StopPlaywright
  BY <1>5, LimitsAssumption DEF StopPlaywright, AfterStop, call, counts,
       process, Control, Starting, Displaying, Trying
<1>6. CASE StopPlaywrightRaises
  <2>1. undead' \in 0..MaxSlips
    BY <1>6, LimitsAssumption DEF StopPlaywrightRaises, Control
  <2>2. pc' \in {"starting", "leaving", "down"}
    BY <1>6 DEF StopPlaywrightRaises, AfterStop, Control
  <2> QED  BY <1>6, <2>1, <2>2 DEF StopPlaywrightRaises, call, Control, Starting
<1>7. CASE StartPlaywright
  BY <1>7, LimitsAssumption DEF StartPlaywright, call, counts, process,
       Control, Starting, Displaying, Trying
<1>8. CASE Launch
  BY <1>8, LimitsAssumption DEF Launch, call, counts, process, Control,
       Starting, Displaying, Trying
<1>9. CASE StartRaises
  BY <1>9, LimitsAssumption DEF StartRaises, Returns, call, counts, process,
       Control, Starting, Displaying, Trying
<1>10. ASSUME NEW p \in Pages, NEW s \in Statuses, HtmlAnswers(p, s)
       PROVE  Control'
  BY <1>10, LimitsAssumption DEF HtmlAnswers, Returns, process, counts, call,
       Control, Starting, Displaying, Trying, Shown
<1>11. ASSUME NEW p \in Pages, NEW s \in Statuses, Goto(p, s)
       PROVE  Control'
  BY <1>11, LimitsAssumption DEF Goto, Leaves, process, counts, call, Control,
       Starting, Displaying, Trying, Shown
<1>12. CASE HtmlRaises \/ HtmlEscapes
  BY <1>12, LimitsAssumption DEF HtmlRaises, HtmlEscapes, Returns, process, counts, call,
       Control, Starting, Displaying, Trying
<1>13. CASE NewContext
  BY <1>13, LimitsAssumption DEF NewContext, call, counts, process, Control,
       Starting, Displaying, Trying
<1>14. CASE AddInitScript
  BY <1>14, LimitsAssumption DEF AddInitScript, process, counts, call,
       Control, Starting, Displaying, Trying
<1>15. CASE Settle
  BY <1>15, LimitsAssumption DEF Settle, call, process, counts, Control,
       Starting, Displaying, Trying
<1>16. ASSUME NEW f \in FormStates, SelectService(f)
       PROVE  Control'
  BY <1>16, LimitsAssumption DEF SelectService, process, counts, call,
       Control, Starting, Displaying, Trying, Shown
<1>17. CASE SelectNothing
  BY <1>17, LimitsAssumption DEF SelectNothing, call, process, counts,
       Control, Starting, Displaying, Trying
<1>18. CASE Read
  BY <1>18, LimitsAssumption DEF Read, process, counts, call, Control,
       Starting, Displaying, Trying
<1>19. CASE Ask
  BY <1>19, LimitsAssumption DEF Ask, Leaves, process, counts, call, Control,
       Starting, Displaying, Trying
<1>20. CASE Deadline
  BY <1>20, LimitsAssumption DEF Deadline, Resolved, process, counts, call,
       Control, Starting, Displaying, Trying
<1>21. ASSUME NEW outcome \in Failure, NEW lost \in BOOLEAN, TryRaises(outcome, lost)
       PROVE  Control'
  BY <1>21, LimitsAssumption DEF TryRaises, Raise, Trying, StopOr, process,
       Displaying, call, counts, Control, Starting
<1>22. ASSUME NEW outcome \in Failure, NEW lost \in BOOLEAN, InitScriptRaises(outcome, lost)
       PROVE  Control'
  BY <1>22, LimitsAssumption DEF InitScriptRaises, Raise, StopOr, process,
       call, counts, Control, Starting, Displaying, Trying
<1>23. CASE LeaveTry
  BY <1>23, LimitsAssumption DEF LeaveTry, Returns, counts, call, process,
       Control, Starting, Displaying, Trying
<1>24. CASE CloseContextRaises
  <2>1. slips' \in 0..MaxSlips
    BY <1>24, LimitsAssumption DEF CloseContextRaises, Control
  <2> QED  BY <1>24, <2>1 DEF CloseContextRaises, Returns, process, Control
<1>25. CASE Poll
  <2>1. pc' \in {"polling", "asking"}
    BY <1>25 DEF Poll, Resolved, Data, Tab, FormStates
  <2>2. UNCHANGED <<enabled, process, purpose, context, post_blocked, evidence, counts>>
    BY <1>25 DEF Poll
  <2> QED  BY <2>1, <2>2 DEF process, counts, Control, Trying, Displaying
<1>26. CASE Shutdown
  BY <1>26, LimitsAssumption DEF Shutdown, StopOr, process, counts, call,
       Control, Starting, Displaying, Trying
<1>27. ASSUME NEW f \in FormStates, GetDaysAnswers(f)
       PROVE  Control'
  BY <1>27, LimitsAssumption DEF GetDaysAnswers, process, counts, call,
       Control, Starting, Displaying, Trying, Shown
<1>28. ASSUME NEW f \in FormStates, GetDaysBlocked(f)
       PROVE  Control'
  BY <1>28, LimitsAssumption DEF GetDaysBlocked, process, counts, call,
       Control, Starting, Displaying, Trying
<1>29. ASSUME NEW p \in Pages, NEW s \in Statuses, Reload(p, s)
       PROVE  Control'
  BY <1>29, LimitsAssumption DEF Reload, process, counts, Displaying, call,
       Trying, Control, Starting, Shown
<1>30. CASE BrowserDies
  BY <1>30, LimitsAssumption DEF BrowserDies, call, process, counts, Control,
       Starting, Displaying, Trying
<1>31. CASE UNCHANGED vars
  BY <1>31 DEF vars, call, process, counts, Control, Starting, Trying, Displaying
<1> QED
  BY <1>1, <1>2, <1>3, <1>4, <1>5, <1>6, <1>7, <1>8, <1>9, <1>10, <1>11,
       <1>12, <1>13, <1>14, <1>15, <1>16, <1>17, <1>18, <1>19, <1>20, <1>21,
       <1>22, <1>23, <1>24, <1>25, <1>26, <1>27, <1>28, <1>29, <1>30, <1>31
     DEF Next, BeginCheck, Proceed, Surroundings

\* A step makes no verdict of slots that no page has shown.
LEMMA VerdictsStep ==
  ASSUME Data, Control, Handles, Verdicts, [Next]_vars
  PROVE  Verdicts'
<1>1. CASE CheckWithoutPage
  BY <1>1 DEF CheckWithoutPage, Returns, Plain, process, counts, call, Data,
       Control, Handles, Verdicts, Grounded, Displaying
<1>2. CASE BeginHtmlCheck
  BY <1>2 DEF BeginHtmlCheck, Begins, process, counts, Plain, call, Data,
       Control, Handles, Verdicts, Grounded, Displaying
<1>3. CASE BeginBrowserCheck
  BY <1>3 DEF BeginBrowserCheck, Begins, StopOr, process, counts,
       BrowserAlive, Plain, call, Data, Control, Handles, Verdicts, Grounded,
       Displaying
<1>4. CASE CloseBrowser
  BY <1>4 DEF CloseBrowser, AfterStop, call, process, counts, Data, Control,
       Handles, Verdicts, Grounded, Displaying
<1>5. CASE StopPlaywright
  BY <1>5 DEF StopPlaywright, AfterStop, call, counts, process, Data, Control,
       Handles, Verdicts, Grounded, Displaying
<1>6. CASE StopPlaywrightRaises
  BY <1>6 DEF StopPlaywrightRaises, AfterStop, call, process, counts, Data,
       Control, Handles, Verdicts, Grounded, Displaying
<1>7. CASE StartPlaywright
  BY <1>7 DEF StartPlaywright, call, counts, process, Data, Control, Handles,
       Verdicts, Grounded, Displaying
<1>8. CASE Launch
  BY <1>8 DEF Launch, call, counts, process, Data, Control, Handles, Verdicts,
       Grounded, Displaying
<1>9. CASE StartRaises
  BY <1>9 DEF StartRaises, Returns, Plain, call, counts, process, Data,
       Control, Handles, Verdicts, Grounded, Displaying
<1>10. ASSUME NEW p \in Pages, NEW s \in Statuses, HtmlAnswers(p, s)
       PROVE  Verdicts'
  <2>1. p \in Page /\ s \in Nat
    BY PagesAssumption, StatusesAssumption
  <2>2. HtmlResult(p, s).outcome \in {"server_error", "page_unavailable", Parse(p)}
    BY <2>1, HtmlIsResult
  <2>3. /\ HtmlResult(p, s).outcome = "available" => "dates" \in Shown(p)
        /\ HtmlResult(p, s).outcome = "possibly_available" => "hint" \in Shown(p)
    BY <2>1, <2>2, ParseIsGrounded
  <2> QED  BY <1>10, <2>3 DEF HtmlAnswers, Returns, Verdicts, Grounded, Plain, Displaying
<1>11. ASSUME NEW p \in Pages, NEW s \in Statuses, Goto(p, s)
       PROVE  Verdicts'
  <2>1. Grounded(verdict)' /\ Grounded(result)'
    BY <1>11 DEF Goto, Leaves, Throttled, Handles, Verdicts, Grounded
  <2>2. pc' \in Displaying => tab'.page = p /\ tab'.form = "plain"
    BY <1>11 DEF Goto, Leaves, NoTab, Displaying
  <2>3. pc' # "idle" /\ purpose' # "boot" /\ evidence' = evidence \cup Shown(p)
    BY <1>11 DEF Goto, Leaves, Handles, Starting
  <2> QED  BY <2>1, <2>2, <2>3 DEF Verdicts
<1>12. CASE HtmlRaises \/ HtmlEscapes
  BY <1>12 DEF HtmlRaises, HtmlEscapes, Returns, Plain, process, counts, call, Data,
       Control, Handles, Verdicts, Grounded, Displaying
<1>13. CASE NewContext
  BY <1>13 DEF NewContext, call, counts, process, Data, Control, Handles,
       Verdicts, Grounded, Displaying
<1>14. CASE AddInitScript
  BY <1>14 DEF AddInitScript, process, counts, call, Data, Control, Handles,
       Verdicts, Grounded, Displaying
<1>15. CASE Settle
  BY <1>15 DEF Settle, call, process, counts, Data, Control, Handles,
       Verdicts, Grounded, Displaying
<1>16. ASSUME NEW f \in FormStates, SelectService(f)
       PROVE  Verdicts'
  <2>1. tab'.page = tab.page /\ tab'.form = f
    BY <1>16 DEF SelectService, Data, Tab
  <2> QED  BY <1>16, <2>1 DEF SelectService, process, counts, Handles, Verdicts, Grounded, Displaying
<1>17. CASE SelectNothing
  BY <1>17 DEF SelectNothing, call, process, counts, Data, Control, Handles,
       Verdicts, Grounded, Displaying
<1>18. CASE Read
  <2>1. tab.page \in Page
    BY DEF Data, Tab
  <2>2. /\ Parse(tab.page) = "available" => "dates" \in Shown(tab.page)
        /\ Parse(tab.page) = "possibly_available" => "hint" \in Shown(tab.page)
    BY <2>1, ParseIsGrounded
  <2>3. /\ Shown(tab.page) \subseteq evidence
        /\ tab.form = "dates" => "dates" \in evidence
        /\ Grounded(result) /\ purpose # "boot"
    BY <1>18 DEF Read, Handles, Verdicts, Displaying
  <2>4. verdict'.outcome = Parse(tab.page)
    BY <1>18 DEF Read, Plain
  <2>5. UNCHANGED <<tab, evidence, result, purpose>> /\ pc' = "asking"
    BY <1>18 DEF Read
  <2>6. Grounded(verdict)'
    BY <2>2, <2>3, <2>4, <2>5 DEF Grounded
  <2>7. Grounded(result)'
    BY <2>3, <2>5 DEF Grounded
  <2>8. Shown(tab.page)' \subseteq evidence' /\ (tab'.form = "dates" => "dates" \in evidence')
    BY <2>3, <2>5
  <2> QED  BY <2>3, <2>5, <2>6, <2>7, <2>8 DEF Verdicts
<1>19. CASE Ask
  <2>1. verdict'.outcome \in {"page_unavailable", "server_error", verdict.outcome}
    BY <1>19 DEF Ask, Leaves, Throttled, Data, CheckResult
  <2> QED  BY <1>19, <2>1 DEF Ask, Leaves, process, counts, Handles, Verdicts, Grounded, Displaying
<1>20. CASE Deadline
  <2>1. tab'.page = tab.page /\ tab'.form = "plain"
    BY <1>20 DEF Deadline, Resolved, Data, Tab
  <2> QED
    BY <1>20, <2>1 DEF Deadline, Resolved, Plain, process, counts, Handles, Verdicts,
                      Grounded, Displaying
<1>21. ASSUME NEW outcome \in Failure, NEW lost \in BOOLEAN, TryRaises(outcome, lost)
       PROVE  Verdicts'
  <2>1. verdict'.outcome = outcome /\ UNCHANGED <<result, evidence>>
    BY <1>21 DEF TryRaises, Raise, Plain
  <2>2. pc' \notin Displaying \cup {"idle"} /\ purpose' # "boot"
    BY <1>21 DEF TryRaises, Raise, StopOr, Handles, Trying, Displaying
  <2>3. Grounded(verdict)'
    BY <2>1 DEF Grounded, Failure
  <2>4. Grounded(result)'
    BY <2>1 DEF Grounded, Verdicts
  <2> QED  BY <2>2, <2>3, <2>4 DEF Verdicts
<1>22. ASSUME NEW outcome \in Failure, NEW lost \in BOOLEAN, InitScriptRaises(outcome, lost)
       PROVE  Verdicts'
  <2>1. verdict'.outcome = outcome /\ UNCHANGED <<result, evidence>>
    BY <1>22 DEF InitScriptRaises, Raise, Plain
  <2>2. pc' \notin Displaying \cup {"idle"} /\ purpose' # "boot"
    BY <1>22 DEF InitScriptRaises, Raise, StopOr, Handles, Displaying
  <2>3. Grounded(verdict)'
    BY <2>1 DEF Grounded, Failure
  <2>4. Grounded(result)'
    BY <2>1 DEF Grounded, Verdicts
  <2> QED  BY <2>2, <2>3, <2>4 DEF Verdicts
<1>23. CASE LeaveTry
  BY <1>23 DEF LeaveTry, Returns, counts, Plain, call, process, Data, Control,
       Handles, Verdicts, Grounded, Displaying
<1>24. CASE CloseContextRaises
  BY <1>24 DEF CloseContextRaises, Returns, process, Plain, call, counts,
       Data, Control, Handles, Verdicts, Grounded, Displaying
<1>25. CASE Poll
  <2>1. tab \in Tab /\ tab.form \in FormStates
    BY DEF Data, Tab
  <2>2. /\ Shown(tab.page) \subseteq evidence
        /\ tab.form = "dates" => "dates" \in evidence
        /\ Grounded(result) /\ Grounded(verdict) /\ purpose # "boot"
    BY <1>25 DEF Poll, Handles, Verdicts, Displaying
  <2>3. UNCHANGED <<purpose, result, evidence>>
    BY <1>25 DEF Poll
  <2>4. CASE tab.form = "dates"
    <3>1. /\ verdict' = [Plain("available") EXCEPT !.dates = TRUE]
          /\ tab' = [tab EXCEPT !.form = "plain", !.seen = "plain"]
          /\ pc' = "asking"
      BY <1>25, <2>4 DEF Poll, Resolved
    <3>2. verdict'.outcome = "available" /\ tab'.page = tab.page /\ tab'.form = "plain"
      BY <3>1, <2>1 DEF Plain, Tab
    <3> QED  BY <2>2, <2>3, <2>4, <3>1, <3>2 DEF Verdicts, Grounded
  <2>5. CASE tab.form \in {"message", "empty"}
    <3>1. /\ verdict' = Plain("no_slots")
          /\ tab' = [tab EXCEPT !.form = "plain", !.seen = "plain"]
          /\ pc' = "asking"
      BY <1>25, <2>5 DEF Poll, Resolved
    <3>2. verdict'.outcome = "no_slots" /\ tab'.page = tab.page /\ tab'.form = "plain"
      BY <3>1, <2>1 DEF Plain, Tab
    <3> QED  BY <2>2, <2>3, <3>1, <3>2 DEF Verdicts, Grounded
  <2>6. CASE tab.form \in {"loading", "plain"}
    <3>1. tab' = [tab EXCEPT !.seen = tab.form] /\ UNCHANGED <<verdict, pc>>
      BY <1>25, <2>6 DEF Poll
    <3>2. tab'.page = tab.page /\ tab'.form = tab.form /\ pc' = "polling"
      BY <3>1, <2>1, <1>25 DEF Tab, Poll
    <3> QED  BY <2>2, <2>3, <3>1, <3>2 DEF Verdicts, Grounded
  <2> QED  BY <2>1, <2>4, <2>5, <2>6 DEF FormStates
<1>26. CASE Shutdown
  BY <1>26 DEF Shutdown, StopOr, process, counts, call, Data, Control,
       Handles, Verdicts, Grounded, Displaying
<1>27. ASSUME NEW f \in FormStates, GetDaysAnswers(f)
       PROVE  Verdicts'
  <2>1. tab'.page = tab.page /\ tab'.form = f
    BY <1>27 DEF GetDaysAnswers, Data, Tab
  <2> QED  BY <1>27, <2>1 DEF GetDaysAnswers, process, counts, Handles, Verdicts, Grounded, Displaying
<1>28. ASSUME NEW f \in FormStates, GetDaysBlocked(f)
       PROVE  Verdicts'
  <2>1. tab'.page = tab.page /\ tab'.form = f
    BY <1>28 DEF GetDaysBlocked, Data, Tab
  <2> QED  BY <1>28, <2>1 DEF GetDaysBlocked, process, counts, Handles, Verdicts, Grounded, Displaying
<1>29. ASSUME NEW p \in Pages, NEW s \in Statuses, Reload(p, s)
       PROVE  Verdicts'
  <2>1. tab'.page = p /\ tab'.form = "plain"
    BY <1>29 DEF Reload, Data, Tab
  <2> QED  BY <1>29, <2>1 DEF Reload, process, counts, Handles, Verdicts, Grounded, Displaying
<1>30. CASE BrowserDies
  BY <1>30 DEF BrowserDies, call, process, counts, Data, Control, Handles,
       Verdicts, Grounded, Displaying
<1>31. CASE UNCHANGED vars
  BY <1>31 DEF vars, call, process, counts, Verdicts, Grounded
<1> QED
  BY <1>1, <1>2, <1>3, <1>4, <1>5, <1>6, <1>7, <1>8, <1>9, <1>10, <1>11,
       <1>12, <1>13, <1>14, <1>15, <1>16, <1>17, <1>18, <1>19, <1>20, <1>21,
       <1>22, <1>23, <1>24, <1>25, <1>26, <1>27, <1>28, <1>29, <1>30, <1>31
     DEF Next, BeginCheck, Proceed, Surroundings

-----------------------------------------------------------------------------
(* The invariant and the theorems *)

\* The two counters are typed by the relations of Handles and Contexts.
LEMMA TypesSplit ==
  /\ TypeOK => Data /\ Control
  /\ Data /\ Control /\ Handles /\ Contexts => TypeOK
BY LimitsAssumption DEF TypeOK, Data, Control, Handles, Contexts

\* The strengthened invariant holds of every behaviour of the checkers.
LEMMA CheckersInvariant == Spec => []CheckersInv
<1>1. Init => CheckersInv
  <2>1. SUFFICES ASSUME Init PROVE CheckersInv
    OBVIOUS
  <2>2. Data
    BY <2>1, NoTabIsTab, PlainIsResult, Outcomes DEF Init, Data
  <2>3. pc \in {"starting", "idle"} /\ enabled \in BOOLEAN
    BY <2>1 DEF Init
  <2>4. Control
    <3>1. slips \in 0..MaxSlips /\ undead \in 0..MaxSlips /\ deaths \in 0..MaxDeaths
      BY <2>1, LimitsAssumption DEF Init
    <3>2. playwright = FALSE /\ context = FALSE /\ post_blocked = FALSE
      BY <2>1 DEF Init
    <3>3. browser = "none" /\ purpose = "boot" /\ evidence = {}
      BY <2>1 DEF Init
    <3> QED  BY <2>3, <3>1, <3>2, <3>3 DEF Control, Starting
  <2>5. Handles
    BY <2>1, <2>3 DEF Init, Handles
  <2>6. Contexts
    BY <2>1, <2>3 DEF Init, Contexts
  <2>7. Verdicts
    BY <2>1, <2>3 DEF Init, Verdicts, Grounded, Plain, Displaying
  <2> QED  BY <2>2, <2>4, <2>5, <2>6, <2>7, TypesSplit DEF CheckersInv
<1>2. CheckersInv /\ [Next]_vars => CheckersInv'
  <2>1. SUFFICES ASSUME CheckersInv, [Next]_vars PROVE CheckersInv'
    OBVIOUS
  <2>2. TypeOK /\ Handles /\ Contexts /\ Verdicts /\ Data /\ Control
    BY <2>1, TypesSplit DEF CheckersInv
  <2>3. Handles'
    BY <2>1, <2>2, HandlesStep
  <2>4. Contexts'
    BY <2>1, <2>2, ContextsStep
  <2>5. Verdicts'
    BY <2>1, <2>2, VerdictsStep
  <2>6. Data' /\ Control'
    BY <2>1, <2>2, DataStep, ControlStep
  <2>7. TypeOK'
    <3>1. /\ slips' \in 0..MaxSlips /\ undead' \in 0..MaxSlips
      BY <2>6 DEF Control
    <3>2. drivers' = undead' + 0 \/ drivers' = undead' + 1
      BY <2>3 DEF Handles
    <3>3. contexts' = slips' + 0 \/ contexts' = slips' + 1
      BY <2>4 DEF Contexts
    <3>4. drivers' \in 0..(MaxSlips + 1) /\ contexts' \in 0..(MaxSlips + 1)
      BY <3>1, <3>2, <3>3, LimitsAssumption
    <3> QED  BY <3>4, <2>6 DEF TypeOK, Data, Control
  <2> QED  BY <2>3, <2>4, <2>5, <2>7 DEF CheckersInv
<1> QED  BY <1>1, <1>2, PTL DEF Spec

\* The handles, the counters and the local variables keep their types.
THEOREM CheckersTypes == Spec => []TypeOK
BY CheckersInvariant, PTL DEF CheckersInv

\* No driver is forgotten, whatever launches, closes and stops raise.
THEOREM DriversAreStopped == Spec => []DriversAccountedFor
<1>1. CheckersInv => DriversAccountedFor
  BY DEF CheckersInv, Handles, DriversAccountedFor
<1> QED  BY <1>1, CheckersInvariant, PTL

\* Between two checks only those contexts are open whose script or close raised.
THEOREM ContextsAreClosed == Spec => []ContextsAccountedFor
<1>1. CheckersInv => ContextsAccountedFor
  BY DEF CheckersInv, TypeOK, Contexts, ContextsAccountedFor, Displaying
<1> QED  BY <1>1, CheckersInvariant, PTL

\* For every page and every status: availability is reported only of what a page
\* of the same check has shown.
THEOREM NoFalseAvailability == Spec => []AvailabilityIsShown
<1>1. CheckersInv => AvailabilityIsShown
  <2>1. SUFFICES ASSUME CheckersInv, evidence = {},
                        NEW current \in LocationStatus, NEW armed \in BOOLEAN
                 PROVE  Transition(current, Confirmations, 0, result, armed).status
                          \in {current, "unknown", "no_slots", "error"}
    BY DEF CheckersInv, Verdicts, Grounded, AvailabilityIsShown
  <2>2. /\ result.limited \in BOOLEAN
        /\ result.outcome \in FailureOutcomes \cup {"no_slots", "unknown"}
    BY <2>1 DEF CheckersInv, TypeOK, Verdicts, Grounded, CheckResult, CheckOutcome,
                AvailabilityOutcomes
  <2>3. CASE result.limited
    BY <2>3, <2>2 DEF Transition, Silent
  <2>4. CASE ~result.limited /\ result.outcome \in FailureOutcomes
    BY <2>4 DEF Transition, Silent, FailureOutcomes, AvailabilityOutcomes, Confirmed
  <2>5. CASE ~result.limited /\ result.outcome = "no_slots"
    BY <2>5 DEF Transition, Silent, FailureOutcomes, AvailabilityOutcomes, Confirmed
  <2>6. CASE ~result.limited /\ result.outcome = "unknown"
    BY <2>6 DEF Transition, Silent, FailureOutcomes, AvailabilityOutcomes, Confirmed
  <2> QED  BY <2>2, <2>3, <2>4, <2>5, <2>6
<1> QED  BY <1>1, CheckersInvariant, PTL

-----------------------------------------------------------------------------
(* Why a check ends, as far as safety can say *)

LEMMA AwaitsAreCounted ==
  ASSUME NEW at \in {"idle", "fetching", "leaving", "down"} \cup Starting \cup Trying, NEW why
  PROVE  AwaitsLeft(at, why) \in 0..14
BY DEF AwaitsLeft, Starting, Trying, Displaying

\* Where a stop is suspended first, and where its caller goes on, is nearer to
\* the end than where it was called.
LEMMA StopsDescend ==
  /\ AwaitsLeft(StopOr("leaving"), "lost") \in 1..3
  /\ pc = "closing" /\ purpose \in {"boot", "check", "lost", "shutdown"} =>
       /\ AwaitsLeft("stopping", purpose) < AwaitsLeft(pc, purpose)
       /\ AwaitsLeft(AfterStop, purpose) < AwaitsLeft(pc, purpose)
  /\ pc = "stopping" /\ purpose \in {"boot", "check", "lost", "shutdown"} =>
       AwaitsLeft(AfterStop, purpose) < AwaitsLeft(pc, purpose)
<1>1. AwaitsLeft(StopOr("leaving"), "lost") \in 1..3
  BY DEF StopOr, AwaitsLeft
<1>2. ASSUME purpose \in {"boot", "check"}
      PROVE  AwaitsLeft(AfterStop, purpose) = 12
  BY <1>2 DEF AfterStop, AwaitsLeft
<1>3. ASSUME purpose \in {"lost", "shutdown"}
      PROVE  AwaitsLeft(AfterStop, purpose) \in 0..1
  BY <1>3 DEF AfterStop, AwaitsLeft
<1>4. /\ purpose \in {"boot", "check"} =>
           AwaitsLeft("closing", purpose) = 14 /\ AwaitsLeft("stopping", purpose) = 13
      /\ purpose \in {"lost", "shutdown"} =>
           AwaitsLeft("closing", purpose) = 3 /\ AwaitsLeft("stopping", purpose) = 2
  BY DEF AwaitsLeft
<1>5. QED
  BY <1>1, <1>2, <1>3, <1>4

LEMMA RaiseDescends ==
  ASSUME TypeOK, pc \in Trying, NEW outcome, NEW lost \in BOOLEAN, Raise(outcome, lost)
  PROVE  AwaitsLeft(pc', purpose') < AwaitsLeft(pc, purpose)
<1>1. AwaitsLeft(pc, purpose) \in 4..10
  BY DEF AwaitsLeft, Trying, Displaying
<1>2. AwaitsLeft(pc', purpose') \in 1..3
  <2>1. CASE lost
    BY <2>1, StopsDescend DEF Raise
  <2>2. CASE ~lost
    BY <2>2 DEF Raise, AwaitsLeft
  <2>3. QED
    BY <2>1, <2>2
<1>3. QED
  BY <1>1, <1>2

LEMMA ProceedDescends ==
  ASSUME TypeOK, Proceed
  PROVE  AwaitsLeft(pc', purpose') < AwaitsLeft(pc, purpose)
<1> USE DEF call
<1>0. purpose \in {"boot", "check", "lost", "shutdown"}
  BY DEF TypeOK
<1>1. CASE CloseBrowser
  BY <1>0, <1>1, StopsDescend DEF CloseBrowser
<1>2. CASE StopPlaywright
  BY <1>0, <1>2, StopsDescend DEF StopPlaywright
<1>3. CASE StopPlaywrightRaises
  BY <1>0, <1>3, StopsDescend DEF StopPlaywrightRaises
<1>4. CASE StartPlaywright
  BY <1>4 DEF StartPlaywright, AwaitsLeft
<1>5. CASE Launch
  BY <1>5 DEF Launch, AwaitsLeft
<1>6. CASE StartRaises
  BY <1>6 DEF StartRaises, Returns, AwaitsLeft
<1>7. ASSUME NEW p \in Pages, NEW s \in Statuses, HtmlAnswers(p, s)
      PROVE  AwaitsLeft(pc', purpose') < AwaitsLeft(pc, purpose)
  BY <1>7 DEF HtmlAnswers, Returns, AwaitsLeft
<1>8. ASSUME NEW p \in Pages, NEW s \in Statuses, Goto(p, s)
      PROVE  AwaitsLeft(pc', purpose') < AwaitsLeft(pc, purpose)
  BY <1>8 DEF Goto, Leaves, AwaitsLeft
<1>9. CASE HtmlRaises \/ HtmlEscapes
  BY <1>9 DEF HtmlRaises, HtmlEscapes, Returns, AwaitsLeft
<1>10. CASE NewContext
  BY <1>10 DEF NewContext, AwaitsLeft
<1>11. CASE AddInitScript
  BY <1>11 DEF AddInitScript, AwaitsLeft
<1>12. CASE Settle
  BY <1>12 DEF Settle, AwaitsLeft
<1>13. ASSUME NEW f \in FormStates, SelectService(f)
       PROVE  AwaitsLeft(pc', purpose') < AwaitsLeft(pc, purpose)
  BY <1>13 DEF SelectService, AwaitsLeft
<1>14. CASE SelectNothing
  BY <1>14 DEF SelectNothing, AwaitsLeft
<1>15. CASE Read
  BY <1>15 DEF Read, AwaitsLeft
<1>16. CASE Ask
  BY <1>16 DEF Ask, Leaves, AwaitsLeft
<1>17. CASE Deadline
  BY <1>17 DEF Deadline, Resolved, AwaitsLeft
<1>18. ASSUME NEW outcome \in Failure, NEW lost \in BOOLEAN,
              TryRaises(outcome, lost) \/ InitScriptRaises(outcome, lost)
       PROVE  AwaitsLeft(pc', purpose') < AwaitsLeft(pc, purpose)
  BY <1>18, RaiseDescends DEF TryRaises, InitScriptRaises, Trying
<1>19. CASE LeaveTry \/ CloseContextRaises
  BY <1>19 DEF LeaveTry, CloseContextRaises, Returns, AwaitsLeft
<1>20. QED
  BY <1>1, <1>2, <1>3, <1>4, <1>5, <1>6, <1>7, <1>8, <1>9, <1>10, <1>11, <1>12, <1>13,
     <1>14, <1>15, <1>16, <1>17, <1>18, <1>19 DEF Proceed

\* At most fourteen awaits are between the call of a checker and its answer,
\* polls of the form apart, whatever is raised on the way: ChecksEnd needs no
\* more than that each of them ends.
THEOREM ChecksAreFinite == Spec => CallDescends
<1> DEFINE Descends ==
      pc # "idle" =>
        /\ AwaitsLeft(pc', purpose') <= AwaitsLeft(pc, purpose)
        /\ Proceed => AwaitsLeft(pc', purpose') < AwaitsLeft(pc, purpose)
<1>1. TypeOK /\ TypeOK' /\ [Next]_vars => [Descends]_vars
  <2> SUFFICES ASSUME TypeOK, TypeOK', Next, pc # "idle" PROVE Descends
    OBVIOUS
  <2> DEFINE new == AwaitsLeft(pc', purpose')
             old == AwaitsLeft(pc, purpose)
  <2>1. new \in 0..14 /\ old \in 0..14
    BY AwaitsAreCounted DEF TypeOK
  <2>2. Proceed => new < old
    BY ProceedDescends
  <2>3. ~Proceed => new <= old
    <3>1. CASE Poll
      <4>1. pc = "polling" /\ pc' \in {"polling", "asking"}
        BY <3>1 DEF Poll, Resolved, TypeOK, Tab, FormStates
      <4>2. old = 5 /\ new \in 4..5
        BY <4>1 DEF AwaitsLeft
      <4>3. QED
        BY <4>2
    <3>2. CASE Surroundings
      <4>1. new = old
        BY <3>2 DEF Surroundings, GetDaysAnswers, GetDaysBlocked, Reload, BrowserDies, call
      <4>2. QED
        BY <2>1, <4>1
    <3>3. CASE BeginCheck \/ Shutdown
      BY <3>3 DEF BeginCheck, CheckWithoutPage, BeginHtmlCheck, BeginBrowserCheck, Shutdown
    <3>4. QED
      BY <3>1, <3>2, <3>3 DEF Next
  <2> HIDE DEF new, old
  <2>4. new <= old /\ (Proceed => new < old)
    BY <2>1, <2>2, <2>3
  <2>5. QED
    BY <2>4 DEF new, old
<1>2. QED
  BY <1>1, CheckersTypes, PTL DEF Spec, CallDescends
=============================================================================
