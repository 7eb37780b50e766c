------------------------- MODULE NotificationService -------------------------
(***************************************************************************)
(* The fan-out of an alert: notify_slots_available reads the subscriptions *)
(* of a location, then their users, and hands a message for each to the    *)
(* send queue, while the updates of Subscriptions go on.  The scheduler    *)
(* awaits it, so that one fan-out runs at a time.                          *)
(***************************************************************************)
EXTENDS Subscriptions

CONSTANT Admins   \* ADMIN_TELEGRAM_IDS

VARIABLES
  stage,     \* which read the fan-out is at, or "idle"
  about,     \* the location it is about
  listed,    \* users of the subscriptions it has read
  told,      \* those the last step handed to the queue messages for
  always,    \* observer: users eligible ever since the fan-out began
  ever       \* observer: users subscribed, and users active, at some time since

fan     == <<stage, about, listed, told>>
reading == <<stage, about, listed>>
watch   == <<always, ever>>
fanVars == <<svars, fan, watch>>

Subscribed(pairs, l) == {u \in Users : <<u, l>> \in pairs}
Reachable(rows) == {u \in Users : rows[u].active /\ ~rows[u].blocked}

FanTypeOK ==
  /\ stage \in {"idle", "listing", "loading", "handing_over"}
  /\ about \in Locations
  /\ listed \subseteq Users
  /\ told \subseteq Users \cup Admins
  /\ always \subseteq Users
  /\ ever \in [subscribed : SUBSET Users, reachable : SUBSET Users]

NothingSeen == [subscribed |-> {}, reachable |-> {}]

FanInit ==
  /\ Init
  /\ stage = "idle" /\ about = Free.location /\ listed = {} /\ told = {}
  /\ always = {} /\ ever = NothingSeen

\* on_available
NotifyBegins(l) ==
  /\ stage = "idle"
  /\ stage' = "listing" /\ about' = l /\ told' = {}
  /\ always' = Subscribed(subs, l) \cap Reachable(users)
  /\ ever' = [subscribed |-> Subscribed(subs, l), reachable |-> Reachable(users)]
  /\ UNCHANGED <<svars, listed>>

ListSubscriptions_AnyState ==
  /\ stage = "listing"
  /\ listed' = {u \in Users : users[u].known}
  /\ stage' = "loading"
  /\ UNCHANGED <<svars, about, told, watch>>

ListSubscriptions_DirtyRead ==
  /\ stage = "listing"
  /\ listed' = Subscribed(IF lock = {} THEN subs ELSE draft.subs, about)
  /\ stage' = "loading"
  /\ UNCHANGED <<svars, about, told, watch>>

\* list_active_for_location; the session holds no read transaction open.
ListSubscriptions ==
  /\ stage = "listing"
  /\ listed' = Subscribed(subs, about)
  /\ stage' = "loading"
  /\ UNCHANGED <<svars, about, told, watch>>

LoadUsers_GivesUp ==
  /\ stage = "loading"
  /\ listed' = IF lock = {} THEN listed \cap Reachable(users) ELSE {}
  /\ stage' = "handing_over"
  /\ UNCHANGED <<svars, about, told, watch>>

\* The users are a query of their own; the inactive and the blocked are
\* passed over.
LoadUsers ==
  /\ stage = "loading"
  /\ listed' = listed \cap Reachable(users)
  /\ stage' = "handing_over"
  /\ UNCHANGED <<svars, about, told, watch>>

Done(recipients) ==
  /\ stage' = "idle" /\ told' = recipients
  /\ listed' = {} /\ always' = {} /\ ever' = NothingSeen
  /\ UNCHANGED about

\* put() on an unbounded queue does not wait: all are handed over at once.
HandOver ==
  /\ stage = "handing_over"
  /\ Done(listed)
  /\ UNCHANGED svars

\* A read raises before anybody has been told.
FanOutRaises ==
  /\ stage \in {"listing", "loading", "handing_over"}
  /\ Done({})
  /\ UNCHANGED svars

AlertAdmins ==
  /\ stage = "idle"
  /\ told' = Admins
  /\ UNCHANGED <<svars, stage, about, listed, watch>>

\* No fan-out is under way, and the scheduler does something else.
Between ==
  /\ stage = "idle"
  /\ told' = {}
  /\ UNCHANGED <<svars, reading, watch>>

Observe ==
  IF stage = "idle" THEN UNCHANGED watch
  ELSE /\ always' = always \cap Subscribed(subs', about) \cap Reachable(users')
       /\ ever' = [subscribed |-> ever.subscribed \cup Subscribed(subs', about),
                   reachable  |-> ever.reachable \cup Reachable(users')]

\* An update goes on while the fan-out waits for the database.
Beside == told' = {} /\ UNCHANGED reading /\ Observe

FanNext ==
  \/ \E l \in Locations : NotifyBegins(l)
  \/ ListSubscriptions \/ LoadUsers \/ HandOver \/ FanOutRaises
  \/ AlertAdmins \/ Between
  \/ \E t \in Tasks, op \in Ops, u \in Users, l \in Locations :
       Receive(t, op, u, l) /\ Beside
  \/ \E t \in Tasks : Handle(t) /\ Beside
  \/ \E u \in Users : Block(u) /\ Beside
  \/ Restart /\ Done({})

FanSpec == FanInit /\ [][FanNext]_fanVars

-----------------------------------------------------------------------------
(* Properties *)

\* Every user who was subscribed, active and not blocked all the while gets a
\* message, whatever the others do between the two reads.
EverySubscriberTold == [][HandOver => always \subseteq told']_fanVars

\* Nobody gets one who was not subscribed at some time of the fan-out and
\* active at some time of it: one who deletes the account, or unsubscribes,
\* before an alert is made is not told.
NobodyElseTold ==
  [][HandOver => told' \subseteq ever.subscribed \cap ever.reachable]_fanVars

\* The inductive invariant both follow from.
FanInv ==
  /\ stage \in {"loading", "handing_over"} =>
       always \subseteq listed /\ listed \subseteq ever.subscribed
  /\ stage = "handing_over" => listed \subseteq ever.reachable
  /\ stage = "listing" =>
       /\ always \subseteq Subscribed(subs, about)
       /\ Subscribed(subs, about) \subseteq ever.subscribed
  /\ stage # "idle" =>
       /\ always \subseteq Reachable(users)
       /\ Reachable(users) \subseteq ever.reachable
=============================================================================
