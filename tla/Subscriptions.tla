---------------------------- MODULE Subscriptions ----------------------------
(***************************************************************************)
(* Telegram updates as concurrent transactions on the users and            *)
(* subscriptions tables.  Each update is a task with a session of its own, *)
(* committed by the middleware after the handler has returned.             *)
(*                                                                         *)
(* SQLite is used through a driver that begins a transaction at the first  *)
(* write.  So the user is read before the write lock is taken, and         *)
(* everything after the first flush, calls to Telegram included, happens   *)
(* under the lock: other sessions wait for it until their timeout, and     *)
(* meanwhile read what was committed last.                                 *)
(***************************************************************************)
EXTENDS Naturals, FiniteSets

CONSTANTS
  Users,      \* Telegram users
  Locations,  \* active locations
  Tasks       \* places for updates handled at the same time

ASSUME InhabitedAssumption == Users # {} /\ Locations # {}

VARIABLES
  users,      \* [Users -> UserRow], the users table
  subs,       \* the <<user, location>> pairs with an active subscription
  lock,       \* {t} for the task t inside a write transaction, or {}
  draft,      \* the tables as the holder of the lock sees them
  task,       \* [Tasks -> Task], the update under way in each place
  overtaken,  \* tasks whose user was changed by another since they read it
  banned      \* users who block the bot in Telegram now

tables == <<users, subs>>
svars  == <<tables, lock, draft, task, overtaken, banned>>

UserRow == [known : BOOLEAN, active : BOOLEAN, blocked : BOOLEAN]
Stranger == [known |-> FALSE, active |-> FALSE, blocked |-> FALSE]
Newcomer == [known |-> TRUE, active |-> TRUE, blocked |-> FALSE]

\* What an update asks for.  "visit" is every handler that only records the
\* visit and shows something; "forbidden" is the send queue, to which
\* Telegram has answered that the user blocks the bot.
Ops == {"visit", "toggle", "unsubscribe", "unsubscribe_all", "delete", "forbidden"}

Task == [at : {"free", "reading", "writing", "applying", "telling"},
         op : Ops, user : Users, location : Locations, seen : UserRow]

Draft == [users : [Users -> UserRow], subs : SUBSET (Users \X Locations)]

Free == [at |-> "free", op |-> "visit", user |-> CHOOSE u \in Users : TRUE,
         location |-> CHOOSE l \in Locations : TRUE, seen |-> Stranger]

NoDraft == [users |-> [u \in Users |-> Stranger], subs |-> {}]

TypeOK ==
  /\ users \in [Users -> UserRow]
  /\ subs \subseteq Users \X Locations
  /\ lock \subseteq Tasks
  /\ draft \in Draft
  /\ task \in [Tasks -> Task]
  /\ overtaken \subseteq Tasks
  /\ banned \subseteq Users

Init ==
  /\ users = [u \in Users |-> Stranger]
  /\ subs = {}
  /\ lock = {} /\ draft = NoDraft
  /\ task = [t \in Tasks |-> Free]
  /\ overtaken = {}
  /\ banned = {}

-----------------------------------------------------------------------------
(* Reading the user *)

\* An update of u arrives, or Telegram answers Forbidden to a message to u.
Receive(t, op, u, l) ==
  /\ task[t].at = "free"
  /\ (op = "forbidden") = (u \in banned)
  /\ task' = [task EXCEPT ![t] =
       [at |-> "reading", op |-> op, user |-> u, location |-> l, seen |-> Stranger]]
  /\ UNCHANGED <<tables, lock, draft, overtaken, banned>>

ReadUser(t) ==
  /\ task[t].at = "reading"
  /\ task' = [task EXCEPT ![t].at = "writing", ![t].seen = users[task[t].user]]
  /\ overtaken' = overtaken \ {t}
  /\ UNCHANGED <<tables, lock, draft, banned>>

-----------------------------------------------------------------------------
(* The transaction *)

\* The ORM writes the attributes that differ from what it read.
Net(read, value, stored) == IF value = read THEN stored ELSE value

\* (Names with an underscore are mutated forms of the definition they precede:
\* plausible slips, kept to show which property would notice them.)
EnsuredRow_KeepsActive(seen, row) ==
  IF ~seen.known THEN Newcomer ELSE row

EnsuredRow(seen, row) ==
  IF ~seen.known THEN Newcomer
  ELSE [row EXCEPT !.active = Net(seen.active, TRUE, row.active)]

EnsureUser_Unlocked(t) ==
  LET u == task[t].user IN
  /\ task[t].at = "writing" /\ task[t].op # "forbidden"
  /\ task[t].seen.known = users[u].known
  /\ lock' = lock \cup {t}
  /\ draft' = [users |-> [users EXCEPT ![u] = EnsuredRow(task[t].seen, users[u])],
               subs  |-> subs]
  /\ task' = [task EXCEPT ![t].at = "applying"]
  /\ UNCHANGED <<tables, overtaken, banned>>

\* ensure_user flushes, which takes the write lock.  Inserting a user that
\* another update inserted meanwhile violates the unique telegram_id instead.
EnsureUser(t) ==
  LET u == task[t].user IN
  /\ task[t].at = "writing" /\ task[t].op # "forbidden"
  /\ lock = {}
  /\ task[t].seen.known = users[u].known
  /\ lock' = {t}
  /\ draft' = [users |-> [users EXCEPT ![u] = EnsuredRow(task[t].seen, users[u])],
               subs  |-> subs]
  /\ task' = [task EXCEPT ![t].at = "applying"]
  /\ UNCHANGED <<tables, overtaken, banned>>

SubsAfter_Swapped(t, before) ==
  IF task[t].op = "toggle" THEN before \cup {<<task[t].location, task[t].user>>} ELSE before

SubsAfter_DeleteKeeps(t, before) ==
  LET this == {<<task[t].user, task[t].location>>}
  IN  CASE task[t].op = "toggle" -> (before \ this) \cup (this \ before)
        [] task[t].op = "unsubscribe" -> before \ this
        [] task[t].op = "unsubscribe_all" -> before \ ({task[t].user} \X Locations)
        [] OTHER -> before

\* The subscriptions after the update, from those it reads under the lock.
SubsAfter(t, before) ==
  LET u == task[t].user
      mine == {u} \X Locations
      this == {<<u, task[t].location>>}
  IN  CASE task[t].op = "toggle" -> (before \ this) \cup (this \ before)
        [] task[t].op = "unsubscribe" -> before \ this
        [] task[t].op \in {"unsubscribe_all", "delete"} -> before \ mine
        [] OTHER -> before

\* The handler's second flush: the lists it works from are read after the first.
Apply(t) ==
  /\ task[t].at = "applying"
  /\ draft' =
       [users |-> IF task[t].op = "delete"
                  THEN [draft.users EXCEPT ![task[t].user].active = FALSE]
                  ELSE draft.users,
        subs  |-> SubsAfter(t, draft.subs)]
  /\ task' = [task EXCEPT ![t].at = "telling"]
  /\ UNCHANGED <<tables, lock, overtaken, banned>>

Release(t) ==
  /\ lock' = lock \ {t}
  /\ draft' = IF t \in lock THEN NoDraft ELSE draft
  /\ task' = [task EXCEPT ![t] = Free]

\* Those who have read the user and not yet written have read an older row.
Overtake(t) ==
  overtaken' = (overtaken \ {t}) \cup
    {s \in Tasks \ {t} : task[s].user = task[t].user /\ task[s].at = "writing"}

\* The calls to Telegram return and the middleware commits.
Commit(t) ==
  /\ task[t].at = "telling"
  /\ users' = draft.users /\ subs' = draft.subs
  /\ Release(t)
  /\ Overtake(t)
  /\ UNCHANGED banned

\* _mark_user_blocked: the write and its commit, without an await of anybody
\* else between them.
MarkBlocked(t) ==
  LET u == task[t].user
      seen == task[t].seen
  IN
  /\ task[t].at = "writing" /\ task[t].op = "forbidden"
  /\ lock = {}
  /\ users' = IF ~seen.known THEN users
              ELSE [users EXCEPT ![u].blocked = TRUE,
                                 ![u].active = Net(seen.active, FALSE, @)]
  /\ Release(t)
  /\ Overtake(t)
  /\ UNCHANGED <<subs, banned>>

Fails_KeepsSession(t) ==
  /\ task[t].at # "free"
  /\ task' = [task EXCEPT ![t] = Free]
  /\ overtaken' = overtaken \ {t}
  /\ UNCHANGED <<tables, lock, draft, banned>>

\* Any await may raise: the wait for the lock is over, the insert collides,
\* the commit is refused, Telegram refuses an edit or an answer.  Closing the
\* session rolls the transaction back.
Fails(t) ==
  /\ task[t].at # "free"
  /\ Release(t)
  /\ overtaken' = overtaken \ {t}
  /\ UNCHANGED <<tables, banned>>

\* The process dies and is started again: no session survives.
Restart ==
  /\ task' = [t \in Tasks |-> Free]
  /\ lock' = {} /\ draft' = NoDraft /\ overtaken' = {}
  /\ UNCHANGED <<tables, banned>>

\* Users block and unblock the bot in Telegram, which does not tell the bot.
Block(u) ==
  /\ banned' \in {banned \cup {u}, banned \ {u}}
  /\ UNCHANGED <<tables, lock, draft, task, overtaken>>

Handle(t) ==
  \/ ReadUser(t) \/ EnsureUser(t) \/ Apply(t) \/ Commit(t) \/ MarkBlocked(t) \/ Fails(t)

SubsNext ==
  \/ \E t \in Tasks, op \in Ops, u \in Users, l \in Locations : Receive(t, op, u, l)
  \/ \E t \in Tasks : Handle(t)
  \/ Restart
  \/ \E u \in Users : Block(u)

SubsSpec == Init /\ [][SubsNext]_svars

\* asyncio runs every task that can run; waits for the lock and for Telegram
\* time out.
FairSubsSpec == SubsSpec /\ \A t \in Tasks : WF_svars(Handle(t))

-----------------------------------------------------------------------------
(* Properties *)

\* A tap on a city turns around the subscription the database holds when the
\* tap takes effect, and nothing else, although the user was read before the
\* lock and other taps of the same user commit in between: no update is lost.
ToggleFlips ==
  [][\A t \in Tasks : Commit(t) /\ task[t].op = "toggle" =>
       LET this == <<task[t].user, task[t].location>> IN
       \A s \in Users \X Locations : (s \in subs') = (IF s = this THEN s \notin subs ELSE s \in subs)
    ]_svars

\* "Your subscriptions were disabled": a deletion leaves no subscription that
\* another update created while it was under way, and an inactive user.
DeletionIsTotal ==
  [][\A t \in Tasks : Commit(t) /\ task[t].op = "delete" =>
       /\ ~users'[task[t].user].active
       /\ \A l \in Locations : <<task[t].user, l>> \notin subs']_svars

\* A subscriber is left inactive, and so is never told, only where a deletion
\* or a Forbidden overtook the update between its read and its write.
ActiveUnlessOvertaken ==
  [][\A t \in Tasks : Commit(t) /\ task[t].op # "delete" /\ t \notin overtaken =>
       users'[task[t].user].active]_svars

\* Whatever raises inside a handler, the database is given back: the
\* scheduler and the queue write to the same file.
LockGivenBack == lock # {} ~> lock = {}

\* is_blocked is "bot blocked by user": an update that the user has just made
\* leaves a row that does not say so.
VisitorIsNotBlocked ==
  [][\A t \in Tasks :
       Commit(t) /\ task[t].user \notin banned => ~users'[task[t].user].blocked]_svars

-----------------------------------------------------------------------------
(* The inductive invariant of the first three *)

\* One task at most is inside a transaction.
Alone ==
  /\ \A s, t \in lock : s = t
  /\ \A t \in Tasks : task[t].at \in {"applying", "telling"} <=> t \in lock

\* The draft is the tables with what this update changes, and no more.
Drafted(t) ==
  LET u == task[t].user
      this == {<<u, task[t].location>>}
  IN
  /\ t \in lock => \A v \in Users \ {u} : draft.users[v] = users[v]
  /\ task[t].at = "applying" => draft.subs = subs
  /\ task[t].at = "telling" /\ task[t].op = "toggle" =>
       draft.subs = (subs \ this) \cup (this \ subs)
  /\ task[t].at = "telling" /\ task[t].op = "delete" =>
       ~draft.users[u].active /\ draft.subs \cap ({u} \X Locations) = {}

\* A task that was not overtaken has read the row as it is, and makes it active.
UpToDate(t) ==
  t \notin overtaken =>
    /\ task[t].at = "writing" => task[t].seen = users[task[t].user]
    /\ t \in lock /\ ~(task[t].at = "telling" /\ task[t].op = "delete") =>
         draft.users[task[t].user].active

SubsInv == TypeOK /\ Alone /\ \A t \in Tasks : Drafted(t) /\ UpToDate(t)

-----------------------------------------------------------------------------
(* The effect of a transaction, and the end of it *)

\* Each commit has the effect its update would have if it ran alone on what is
\* committed at that moment: the subscriptions are those it asked for, no other
\* user's row changes, is_blocked is left as others have written it.  Of what
\* it read earlier, only is_active may be out of date, and only if it was
\* overtaken.
UpdatesSerialize ==
  [][\A t \in Tasks : Commit(t) =>
       LET u == task[t].user IN
       /\ subs' = SubsAfter(t, subs)
       /\ \A v \in Users \ {u} : users'[v] = users[v]
       /\ users'[u].known /\ users'[u].blocked = users[u].blocked
       /\ t \notin overtaken => users'[u].active = (task[t].op # "delete")]_svars

\* What this follows from, with SubsInv.
UnknownAreStrangers == \A u \in Users : ~users[u].known => users[u] = Stranger

Serial(t) ==
  LET u == task[t].user IN
  /\ task[t].at = "writing" /\ task[t].seen.known => users[u].known
  /\ t \in lock => draft.users[u].known /\ draft.users[u].blocked = users[u].blocked
  /\ task[t].at = "telling" => draft.subs = SubsAfter(t, subs)

SerialInv == UnknownAreStrangers /\ \A t \in Tasks : Serial(t)

\* While the lock is held nobody else gets it, and each step of its holder is
\* the second flush or gives it back: two steps at most, none of which waits
\* for another task.
HolderFinishes ==
  [][\A t \in lock :
       /\ lock' \subseteq lock
       /\ t \in lock' => task'[t].at \in {task[t].at, "telling"}
       /\ Handle(t) =>
            \/ task[t].at = "applying" /\ task'[t].at = "telling"
            \/ t \notin lock']_svars
=============================================================================
