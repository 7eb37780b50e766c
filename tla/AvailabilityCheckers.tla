------------------------- MODULE AvailabilityCheckers -------------------------
(***************************************************************************)
(* The checkers behind CheckerRegistry.get, and the one Chromium that the  *)
(* browser checker shares between checks.  Checks come one at a time, from *)
(* the scheduler task; pc names the await the current one is suspended at. *)
(* Chromium may die, and a page may reload itself (as a Cloudflare         *)
(* challenge does when it is passed), between any two of its steps.        *)
(*                                                                         *)
(* Playwright is not part of the repository; what may happen at a call of  *)
(* it is that it returns or raises.  Time is left out: that a wait is over *)
(* is a step that can be taken at any time.                                *)
(***************************************************************************)
EXTENDS PageParser

CONSTANTS
  Pages,      \* the pages the site is let to show
  Statuses,   \* the HTTP statuses it is let to answer, 0 for no response
  MaxDeaths,  \* bound on the deaths of Chromium
  MaxSlips    \* bound on the contexts and drivers a raising call leaves open

ASSUME PagesAssumption == Pages \subseteq Page
ASSUME StatusesAssumption == Statuses \subseteq Nat
ASSUME LimitsAssumption == MaxDeaths \in Nat /\ MaxSlips \in Nat

VARIABLES
  enabled,      \* PLAYWRIGHT_ENABLED
  playwright,   \* self._playwright is set
  browser,      \* self._browser: none, connected (alive) or not (dead)
  drivers,      \* Playwright drivers running
  contexts,     \* contexts open in the Chromium of self._browser
  pc,           \* where start, stop or check is suspended
  purpose,      \* what start and stop were called for
  context,      \* the local variable context is set
  tab,          \* what the page of the current check shows
  post_blocked, \* cf_post_blocked
  verdict,      \* the local variables outcome and available_dates
  result,       \* the result of the last check
  evidence,     \* what the pages of the current check have shown of slots
  slips,        \* contexts left open in this Chromium by a call that raised
  undead,       \* drivers left running by a stop that raised
  deaths        \* deaths of Chromium so far

process == <<playwright, browser, drivers, contexts>>
call    == <<purpose, context, tab, post_blocked, verdict>>
counts  == <<slips, undead, deaths>>
vars    == <<enabled, process, pc, call, result, evidence, counts>>

\* What the script of the service form is doing, as _ALPINE_STATE_JS sees it:
\* loading, done with dates, with a message or with neither; or no script.
FormStates == {"loading", "dates", "message", "empty", "plain"}

\* answered is the status of the last navigation, status the local variable;
\* form the state of the service form, seen what the last poll saw of it.
Tab == [page : Page, answered : Nat, status : Nat,
        form : FormStates, seen : FormStates]

BlankPage == [blank |-> TRUE, queue |-> FALSE, challenge |-> FALSE,
              full |-> FALSE, dates |-> FALSE, hint |-> FALSE,
              form |-> FALSE, title |-> FALSE]

NoTab == [page |-> BlankPage, answered |-> 0, status |-> 0,
          form |-> "plain", seen |-> "plain"]

Starting   == {"closing", "stopping", "starting", "launching"}
Displaying == {"settling", "selecting", "polling", "reading", "asking"}
Trying     == {"opening", "scripting", "loading"} \cup Displaying

TypeOK ==
  /\ enabled \in BOOLEAN
  /\ playwright \in BOOLEAN
  /\ browser \in {"none", "alive", "dead"}
  /\ drivers \in 0..(MaxSlips + 1)
  /\ contexts \in 0..(MaxSlips + 1)
  /\ pc \in {"idle", "fetching", "leaving", "down"} \cup Starting \cup Trying
  /\ purpose \in {"boot", "check", "lost", "shutdown"}
  /\ context \in BOOLEAN
  /\ tab \in Tab
  /\ post_blocked \in BOOLEAN
  /\ verdict \in CheckResult
  /\ result \in CheckResult
  /\ evidence \subseteq {"dates", "hint"}
  /\ slips \in 0..MaxSlips /\ undead \in 0..MaxSlips
  /\ deaths \in 0..MaxDeaths

\* run_bot awaits browser.start() before anything else uses the checker.
Init ==
  /\ enabled \in BOOLEAN
  /\ playwright = FALSE /\ browser = "none" /\ drivers = 0 /\ contexts = 0
  /\ pc = IF enabled THEN "starting" ELSE "idle"
  /\ purpose = "boot"
  /\ context = FALSE /\ tab = NoTab /\ post_blocked = FALSE
  /\ verdict = Plain("unknown") /\ result = Plain("unknown")
  /\ evidence = {}
  /\ slips = 0 /\ undead = 0 /\ deaths = 0

\* check() returns r; the call's local variables are gone.
Returns(r) ==
  /\ pc' = "idle"
  /\ result' = r
  /\ purpose' = "check" /\ context' = FALSE /\ tab' = NoTab
  /\ post_blocked' = FALSE /\ verdict' = Plain("unknown")

-----------------------------------------------------------------------------
(* start and stop *)

StopOr_DriverForgotten(next) == IF browser # "none" THEN "closing" ELSE next

\* Where stop() is suspended first; with nothing to stop it returns at once.
StopOr(next) ==
  IF browser # "none" THEN "closing"
  ELSE IF playwright THEN "stopping"
  ELSE next

\* Where the caller of stop() goes on.
AfterStop ==
  CASE purpose \in {"boot", "check"} -> "starting"
    [] purpose = "lost"              -> "leaving"
    [] purpose = "shutdown"          -> "down"

\* browser.close(): the handle is dropped, whether it raised or not.
CloseBrowser ==
  /\ pc = "closing"
  /\ browser' = "none" /\ contexts' = 0 /\ slips' = 0
  /\ pc' = IF playwright THEN "stopping" ELSE AfterStop
  /\ UNCHANGED <<enabled, playwright, drivers, call, result, evidence, undead, deaths>>

\* playwright.stop() ends the driver, and Chromium with it.
StopPlaywright ==
  /\ pc = "stopping"
  /\ playwright' = FALSE /\ drivers' = drivers - 1
  /\ pc' = AfterStop
  /\ UNCHANGED <<enabled, browser, contexts, call, result, evidence, counts>>

\* playwright.stop() raises and leaves the driver running: suppressed.
StopPlaywrightRaises ==
  /\ pc = "stopping" /\ undead < MaxSlips
  /\ playwright' = FALSE /\ undead' = undead + 1
  /\ pc' = AfterStop
  /\ UNCHANGED <<enabled, browser, drivers, contexts, call, result, evidence, slips, deaths>>

StartPlaywright ==
  /\ pc = "starting"
  /\ playwright' = TRUE /\ drivers' = drivers + 1
  /\ pc' = "launching"
  /\ UNCHANGED <<enabled, browser, contexts, call, result, evidence, counts>>

Launch ==
  /\ pc = "launching"
  /\ browser' = "alive"
  /\ pc' = IF purpose = "boot" THEN "idle" ELSE "opening"
  /\ UNCHANGED <<enabled, playwright, drivers, contexts, call, result, evidence, counts>>

\* start() raises: a check answers browser_start_failed; at boot the process
\* ends, and its driver with it.
StartRaises ==
  /\ pc \in {"starting", "launching"}
  /\ IF purpose = "boot"
     THEN /\ pc' = "down" /\ playwright' = FALSE /\ drivers' = 0
          /\ UNCHANGED <<call, result>>
     ELSE /\ Returns(Plain("network_error"))
          /\ UNCHANGED <<playwright, drivers>>
  /\ UNCHANGED <<enabled, browser, contexts, evidence, counts>>

\* run_bot has stopped the scheduler, and so the checks, before the browser.
Shutdown ==
  /\ pc = "idle"
  /\ purpose' = "shutdown"
  /\ pc' = StopOr("down")
  /\ UNCHANGED <<enabled, process, context, tab, post_blocked, verdict, result, evidence, counts>>

-----------------------------------------------------------------------------
(* One check *)

BrowserAlive_HandleSet == browser # "none"

\* _browser_alive
BrowserAlive == browser = "alive"

\* CheckerRegistry.get hands out a checker that needs no page: no public API,
\* a disabled location, or a browser checker that is disabled.
CheckWithoutPage ==
  /\ pc = "idle"
  /\ Returns(Plain("unknown"))
  /\ evidence' = {}
  /\ UNCHANGED <<enabled, process, counts>>

\* A check begins; nothing is known of the result of the last one.
Begins == purpose' = "check" /\ evidence' = {} /\ result' = Plain("unknown")

\* The HTML checker: client.get.
BeginHtmlCheck ==
  /\ pc = "idle"
  /\ pc' = "fetching"
  /\ Begins
  /\ UNCHANGED <<enabled, process, context, tab, post_blocked, verdict, counts>>

\* The browser checker: _ensure_browser restarts a Chromium that is gone.
BeginBrowserCheck ==
  /\ pc = "idle" /\ enabled
  /\ pc' = IF BrowserAlive THEN "opening" ELSE StopOr("starting")
  /\ Begins
  /\ UNCHANGED <<enabled, process, context, tab, post_blocked, verdict, counts>>

\* What a page shows of slots, if it is not the challenge in front of it.
Shown(p) == {f \in {"dates", "hint"} : p[f] /\ (p.challenge => p.queue)}

HtmlAnswers(p, s) ==
  /\ pc = "fetching" /\ s # 0
  /\ Returns(HtmlResult(p, s))
  /\ evidence' = evidence \cup Shown(p)
  /\ UNCHANGED <<enabled, process, counts>>

HtmlRaises ==
  /\ pc = "fetching"
  /\ \E outcome \in {"timeout", "network_error"} : Returns(Plain(outcome))
  /\ UNCHANGED <<enabled, process, evidence, counts>>

\* Any other exception leaves check(), which has no result then; for the caller
\* it is CheckRaises of MonitoringService.
HtmlEscapes ==
  /\ pc = "fetching"
  /\ Returns(Plain("unknown"))
  /\ UNCHANGED <<enabled, process, evidence, counts>>

NewContext ==
  /\ pc = "opening" /\ browser = "alive"
  /\ contexts' = contexts + 1
  /\ pc' = "scripting"
  /\ UNCHANGED <<enabled, playwright, browser, drivers, call, result, evidence, counts>>

\* Only now does check() know the context that it is to close.
AddInitScript ==
  /\ pc = "scripting" /\ browser = "alive"
  /\ context' = TRUE
  /\ pc' = "loading"
  /\ UNCHANGED <<enabled, process, purpose, tab, post_blocked, verdict, result, evidence, counts>>

\* The try block is left with this verdict, for its finally clause.
Leaves(v) == pc' = "leaving" /\ verdict' = v /\ tab' = NoTab

Throttled == [outcome |-> "page_unavailable", limited |-> TRUE, dates |-> FALSE]

\* new_page and goto.
Goto(p, s) ==
  /\ pc = "loading" /\ browser = "alive"
  /\ evidence' = evidence \cup Shown(p)
  /\ IF s = 429 THEN Leaves(Throttled)
     ELSE /\ tab' = [NoTab EXCEPT !.page = p, !.answered = s, !.status = s]
          /\ pc' = "settling"
          /\ UNCHANGED verdict
  /\ UNCHANGED <<enabled, process, purpose, context, post_blocked, result, counts>>

\* The wait for known content, or 2.5 seconds instead if it raises.
Settle ==
  /\ pc = "settling" /\ browser = "alive"
  /\ pc' = "selecting"
  /\ UNCHANGED <<enabled, process, call, result, evidence, counts>>

\* _select_service finds a service and selects it.
SelectService(f) ==
  /\ pc = "selecting" /\ browser = "alive"
  /\ tab.page.form
  /\ tab' = [tab EXCEPT !.form = f, !.seen = f]
  /\ evidence' = evidence \cup (IF f = "dates" THEN {"dates"} ELSE {})
  /\ pc' = "polling"
  /\ UNCHANGED <<enabled, process, purpose, context, post_blocked, verdict, result, counts>>

\* The location is configured otherwise, there is no service to select, or the
\* lookup raises.
SelectNothing ==
  /\ pc = "selecting"
  /\ pc' = "reading"
  /\ UNCHANGED <<enabled, process, call, result, evidence, counts>>

\* _wait_service_availability returns v.
Resolved(v) ==
  /\ verdict' = v
  /\ tab' = [tab EXCEPT !.form = "plain", !.seen = "plain"]
  /\ pc' = "asking"

\* An iteration of _wait_service_availability.  A form that is done with
\* neither dates nor message counts as NO_SLOTS, blocked or not.
Poll ==
  /\ pc = "polling" /\ browser = "alive"
  /\ CASE tab.form = "dates" -> Resolved([Plain("available") EXCEPT !.dates = TRUE])
       [] tab.form \in {"message", "empty"} -> Resolved(Plain("no_slots"))
       [] tab.form \in {"loading", "plain"} ->
            tab' = [tab EXCEPT !.seen = tab.form] /\ UNCHANGED <<verdict, pc>>
  /\ UNCHANGED <<enabled, process, purpose, context, post_blocked, result, evidence, counts>>

Deadline_NotWhileLoading ==
  /\ pc = "polling" /\ browser = "alive" /\ tab.seen # "loading"
  /\ Resolved(Plain(IF post_blocked THEN "captcha" ELSE "unknown"))
  /\ UNCHANGED <<enabled, process, purpose, context, post_blocked, result, evidence, counts>>

\* The deadline: what is answered rests on the last poll, which is stale, and
\* on post_blocked as it is now.
Deadline ==
  /\ pc = "polling" /\ browser = "alive"
  /\ Resolved(Plain(IF post_blocked THEN "captcha"
                    ELSE IF tab.seen = "loading" THEN "timeout"
                    ELSE "unknown"))
  /\ UNCHANGED <<enabled, process, purpose, context, post_blocked, result, evidence, counts>>

Read ==
  /\ pc = "reading" /\ browser = "alive"
  /\ verdict' = Plain(Parse(tab.page))
  /\ pc' = "asking"
  /\ UNCHANGED <<enabled, process, purpose, context, tab, post_blocked, result, evidence, counts>>

\* The status of the last navigation, or that of the first if it cannot be
\* had: a 429 and a server error overrule what was read.
Ask ==
  /\ pc = "asking" /\ browser = "alive"
  /\ \E status \in {tab.status} \cup ({tab.answered} \ {0}) :
       Leaves(IF status = 429 THEN Throttled
              ELSE IF status >= 500 THEN [verdict EXCEPT !.outcome = "server_error"]
              ELSE verdict)
  /\ UNCHANGED <<enabled, process, purpose, context, post_blocked, result, evidence, counts>>

Raise_Retries(outcome, lost) ==
  /\ verdict' = Plain(outcome) /\ tab' = NoTab
  /\ IF lost THEN pc' = StopOr("starting") /\ purpose' = "check"
     ELSE pc' = "leaving" /\ UNCHANGED purpose
  /\ UNCHANGED <<enabled, process, context, post_blocked, result, evidence, undead, deaths>>

\* A call of the try block raises.  An exception that says that the browser is
\* gone has it stopped first.
Raise(outcome, lost) ==
  /\ verdict' = Plain(outcome) /\ tab' = NoTab
  /\ IF lost THEN pc' = StopOr("leaving") /\ purpose' = "lost"
     ELSE pc' = "leaving" /\ UNCHANGED purpose
  /\ UNCHANGED <<enabled, process, context, post_blocked, result, evidence, undead, deaths>>

Failure == {"timeout", "network_error"}

TryRaises(outcome, lost) ==
  /\ pc \in Trying \ {"scripting"}
  /\ Raise(outcome, lost)
  /\ UNCHANGED slips

\* add_init_script raises inside _new_context: check() never learns of the
\* context, which stays open as long as this Chromium runs.
InitScriptRaises(outcome, lost) ==
  /\ pc = "scripting"
  /\ slips' = IF browser = "alive" THEN slips + 1 ELSE slips
  /\ slips' <= MaxSlips
  /\ Raise(outcome, lost)

LeaveTry_NotIfThrottled ==
  /\ pc = "leaving"
  /\ contexts' = IF context /\ browser = "alive" /\ ~verdict.limited
                 THEN contexts - 1 ELSE contexts
  /\ Returns(verdict)
  /\ UNCHANGED <<enabled, playwright, browser, drivers, evidence, counts>>

\* The finally clause closes the context, if there is one.
LeaveTry ==
  /\ pc = "leaving"
  /\ contexts' = IF context /\ browser = "alive" THEN contexts - 1 ELSE contexts
  /\ Returns(verdict)
  /\ UNCHANGED <<enabled, playwright, browser, drivers, evidence, counts>>

\* context.close() raises and leaves the context open: suppressed.
CloseContextRaises ==
  /\ pc = "leaving" /\ context /\ browser = "alive" /\ slips < MaxSlips
  /\ slips' = slips + 1
  /\ Returns(verdict)
  /\ UNCHANGED <<enabled, process, evidence, undead, deaths>>

-----------------------------------------------------------------------------
(* The surroundings *)

\* The form's request for days is answered.
GetDaysAnswers(f) ==
  /\ pc = "polling" /\ tab.form \in {"loading", "plain"}
  /\ f \in {"dates", "message", "empty"}
  /\ tab' = [tab EXCEPT !.form = f]
  /\ evidence' = evidence \cup (IF f = "dates" THEN {"dates"} ELSE {})
  /\ UNCHANGED <<enabled, process, pc, purpose, context, post_blocked, verdict, result, counts>>

\* Cloudflare refuses a request of the page (403 or 503), at any time since the
\* listener was registered.  If it is the one the form waits for, what the
\* script of the form makes of that is up to the site.
GetDaysBlocked(f) ==
  /\ pc \in {"loading"} \cup Displaying
  /\ \/ f = tab.form
     \/ pc = "polling" /\ tab.form = "loading" /\ f \in {"message", "empty"}
  /\ post_blocked' = TRUE
  /\ tab' = [tab EXCEPT !.form = f]
  /\ UNCHANGED <<enabled, process, pc, purpose, context, verdict, result, evidence, counts>>

\* A challenge is passed, or not, and the page loads again.
Reload(p, s) ==
  /\ pc \in Displaying /\ tab.page.challenge
  /\ tab' = [tab EXCEPT !.page = p, !.answered = s, !.form = "plain"]
  /\ evidence' = evidence \cup Shown(p)
  /\ UNCHANGED <<enabled, process, pc, purpose, context, post_blocked, verdict, result, counts>>

BrowserDies ==
  /\ browser = "alive" /\ deaths < MaxDeaths
  /\ browser' = "dead" /\ contexts' = 0 /\ slips' = 0
  /\ deaths' = deaths + 1
  /\ UNCHANGED <<enabled, playwright, drivers, pc, call, result, evidence, undead>>

-----------------------------------------------------------------------------
(* The specification *)

\* The steps by which a call goes on, returning or raising.
Proceed ==
  \/ CloseBrowser \/ StopPlaywright \/ StopPlaywrightRaises
  \/ StartPlaywright \/ Launch \/ StartRaises
  \/ \E p \in Pages, s \in Statuses : HtmlAnswers(p, s) \/ Goto(p, s)
  \/ HtmlRaises \/ HtmlEscapes
  \/ NewContext \/ AddInitScript \/ Settle
  \/ \E f \in FormStates : SelectService(f)
  \/ SelectNothing \/ Read \/ Ask \/ Deadline
  \/ \E outcome \in Failure, lost \in BOOLEAN :
       TryRaises(outcome, lost) \/ InitScriptRaises(outcome, lost)
  \/ LeaveTry \/ CloseContextRaises

\* The scheduler has a location checked.
BeginCheck == CheckWithoutPage \/ BeginHtmlCheck \/ BeginBrowserCheck

Surroundings ==
  \/ \E f \in FormStates : GetDaysAnswers(f) \/ GetDaysBlocked(f)
  \/ \E p \in Pages, s \in Statuses : Reload(p, s)
  \/ BrowserDies

Next == BeginCheck \/ Proceed \/ Poll \/ Shutdown \/ Surroundings

Spec == Init /\ [][Next]_vars

\* Every call of Playwright or of the network ends, in one way or the other.
CallEnds == pc # "polling" /\ Proceed

\* So do those of the polling loop, which may go on for ever nevertheless: what
\* ends it is the deadline, or a Chromium that is gone.
PollingEnds ==
  \/ Deadline
  \/ /\ pc = "polling" /\ browser = "dead"
     /\ \E outcome \in Failure, lost \in BOOLEAN : TryRaises(outcome, lost)

\* Checks of browser locations go on, and Chromium can be started at times.
FairSpec ==
  /\ Spec
  /\ WF_vars(CallEnds) /\ WF_vars(PollingEnds)
  /\ SF_vars(BeginBrowserCheck) /\ SF_vars(StartPlaywright) /\ SF_vars(Launch)

-----------------------------------------------------------------------------
(* Properties *)

\* The inductive invariant behind the three that follow, in three parts.

\* Where stop and start are, and what they have found and left.
Handles ==
  /\ drivers = undead + (IF playwright THEN 1 ELSE 0)
  /\ browser # "none" => playwright
  /\ pc = "closing" => browser # "none"
  /\ pc = "stopping" => browser = "none" /\ playwright
  /\ pc = "starting" => browser = "none" /\ ~playwright
  /\ pc = "launching" => browser = "none" /\ playwright
  /\ pc = "down" => ~playwright
  /\ purpose = "lost" => pc \in {"closing", "stopping", "leaving"}
  /\ pc \in {"starting", "launching"} => purpose \in {"boot", "check"}
  /\ purpose = "boot" => undead = 0 /\ pc \in {"starting", "launching", "idle", "down"}

\* The context of the current check is the one that is not left open.
Contexts ==
  /\ contexts = slips + (IF browser = "alive" /\ (context \/ pc = "scripting")
                         THEN 1 ELSE 0)
  /\ browser # "alive" => slips = 0
  /\ context => \/ pc \in {"loading", "leaving"} \cup Displaying
                \/ pc \in {"closing", "stopping"} /\ purpose = "lost"

\* What a verdict says of slots, a page of the same check has shown.
Grounded(r) ==
  /\ r.outcome = "available" => "dates" \in evidence
  /\ r.outcome = "possibly_available" => "hint" \in evidence

Verdicts ==
  /\ Grounded(result) /\ Grounded(verdict)
  /\ pc = "idle" \/ purpose = "boot" => verdict = Plain("unknown")
  /\ pc \in Displaying =>
       /\ Shown(tab.page) \subseteq evidence
       /\ tab.form = "dates" => "dates" \in evidence

CheckersInv == TypeOK /\ Handles /\ Contexts /\ Verdicts

\* "Unknown / changed structure / CAPTCHA / empty body -> UNKNOWN or ERROR,
\* never AVAILABLE" (docs/architecture.md:569): a check brings a location
\* closer to AVAILABLE only if a page of that check has shown dates or the
\* choice of a day, and calls it available only if one has shown dates.
AvailabilityIsShown ==
  pc = "idle" =>
    /\ result.outcome = "available" => "dates" \in evidence
    /\ evidence = {} =>
         \A current \in LocationStatus, armed \in BOOLEAN :
           Transition(current, Confirmations, 0, result, armed).status
             \in {current, "unknown", "no_slots", "error"}

\* No Playwright driver is forgotten: there is the one in use, and one for
\* every stop that raised; none is in use after the shutdown.
DriversAccountedFor ==
  /\ drivers = undead + (IF playwright THEN 1 ELSE 0)
  /\ pc = "down" => ~playwright

\* Between two checks no context is open but those whose init script or whose
\* close raised: neither a throttled page, nor an exception, nor a Chromium
\* that died and was replaced leaves one behind.
ContextsAccountedFor ==
  pc = "idle" => contexts = slips

\* A check ends, whatever raises, and however long the form is loading.
ChecksEnd == (pc # "idle") ~> (pc \in {"idle", "down"})

\* A Chromium that has died is replaced, whatever the exceptions said that
\* were met on the way.
LostBrowserReplaced == (browser = "dead") ~> (browser = "alive" \/ pc = "down")

-----------------------------------------------------------------------------
(* Why a check ends, as far as safety can say *)

\* The most awaits that are left to the call from where it is, a stop of a
\* lost browser in the middle of it included.
AwaitsLeft(at, why) ==
  CASE at = "closing"   -> IF why \in {"boot", "check"} THEN 14 ELSE 3
    [] at = "stopping"  -> IF why \in {"boot", "check"} THEN 13 ELSE 2
    [] at = "starting"  -> 12
    [] at = "launching" -> 11
    [] at = "opening"   -> 10
    [] at = "scripting" -> 9
    [] at = "loading"   -> 8
    [] at = "settling"  -> 7
    [] at = "selecting" -> 6
    [] at \in {"polling", "reading"}  -> 5
    [] at = "asking"    -> 4
    [] at \in {"leaving", "fetching"} -> 1
    [] at \in {"idle", "down"}        -> 0

\* Every return and every exception brings a call nearer to its end, and
\* nothing that Chromium or the page does takes it further from it: a lost
\* browser is stopped once, and no check is begun again.
CallDescends ==
  [][pc # "idle" =>
       /\ AwaitsLeft(pc', purpose') <= AwaitsLeft(pc, purpose)
       /\ Proceed => AwaitsLeft(pc', purpose') < AwaitsLeft(pc, purpose)]_vars
=============================================================================
