-------------------------- MODULE SubscriptionProofs --------------------------
(***************************************************************************)
(* Proofs about Subscriptions, for any users, locations and number of      *)
(* updates handled at once.                                                *)
(***************************************************************************)
EXTENDS Subscriptions, TLAPS

LEMMA FreeIsTask == Free \in Task /\ Stranger \in UserRow /\ NoDraft \in Draft
<1>1. Stranger \in UserRow
  BY DEF Stranger, UserRow
<1>2. (CHOOSE u \in Users : TRUE) \in Users /\ (CHOOSE l \in Locations : TRUE) \in Locations
  BY InhabitedAssumption
<1>3. Free \in Task
  BY <1>1, <1>2 DEF Free, Task, Ops
<1>4. NoDraft \in Draft
  BY <1>1 DEF NoDraft, Draft
<1>5. QED
  BY <1>1, <1>3, <1>4

\* The row after ensure_user is a row, and an active one if it was read as it is.
LEMMA EnsuredIsRow ==
  ASSUME NEW seen \in UserRow, NEW r \in UserRow
  PROVE  /\ EnsuredRow(seen, r) \in UserRow
         /\ seen = r => EnsuredRow(seen, r).active
BY DEF EnsuredRow, UserRow, Newcomer, Net

LEMMA SubsAfterIsSubs ==
  ASSUME NEW t \in Tasks, TypeOK, NEW before \in SUBSET (Users \X Locations)
  PROVE  SubsAfter(t, before) \subseteq Users \X Locations
<1>1. task[t].user \in Users /\ task[t].location \in Locations
  BY DEF TypeOK, Task
<1>2. QED
  BY <1>1 DEF SubsAfter

LEMMA ReleaseTypes ==
  ASSUME TypeOK, NEW t \in Tasks, Release(t)
  PROVE  lock' \subseteq Tasks /\ draft' \in Draft /\ task' \in [Tasks -> Task]
BY FreeIsTask DEF TypeOK, Release

LEMMA SubsTypesStep == TypeOK /\ [SubsNext]_svars => TypeOK'
<1> SUFFICES ASSUME TypeOK, [SubsNext]_svars PROVE TypeOK'
  OBVIOUS
<1>1. ASSUME NEW t \in Tasks, NEW op \in Ops, NEW u \in Users, NEW l \in Locations,
             Receive(t, op, u, l)
      PROVE  TypeOK'
  <2>1. [at |-> "reading", op |-> op, user |-> u, location |-> l, seen |-> Stranger] \in Task
    BY FreeIsTask DEF Task
  <2>2. QED
    BY <1>1, <2>1 DEF Receive, TypeOK, tables
<1>2. ASSUME NEW t \in Tasks, ReadUser(t) PROVE TypeOK'
  <2>1. users[task[t].user] \in UserRow
    BY DEF TypeOK, Task
  <2>2. [task[t] EXCEPT !.at = "writing", !.seen = users[task[t].user]] \in Task
    BY <2>1 DEF TypeOK, Task
  <2>3. task' = [task EXCEPT ![t] = [task[t] EXCEPT !.at = "writing", !.seen = users[task[t].user]]]
    BY <1>2 DEF ReadUser, TypeOK
  <2>4. QED
    BY <1>2, <2>2, <2>3 DEF ReadUser, TypeOK, tables
<1>3. ASSUME NEW t \in Tasks, EnsureUser(t) PROVE TypeOK'
  <2>1. task[t].user \in Users /\ task[t].seen \in UserRow /\ users[task[t].user] \in UserRow
    BY DEF TypeOK, Task
  <2>2. EnsuredRow(task[t].seen, users[task[t].user]) \in UserRow
    BY <2>1, EnsuredIsRow
  <2>3. draft' \in Draft
    BY <1>3, <2>2 DEF EnsureUser, TypeOK, Draft
  <2>4. [task[t] EXCEPT !.at = "applying"] \in Task
    BY DEF TypeOK, Task
  <2>5. task' = [task EXCEPT ![t] = [task[t] EXCEPT !.at = "applying"]]
    BY <1>3 DEF EnsureUser, TypeOK
  <2>6. QED
    BY <1>3, <2>3, <2>4, <2>5 DEF EnsureUser, TypeOK, tables
<1>4. ASSUME NEW t \in Tasks, Apply(t) PROVE TypeOK'
  <2>1. draft.users \in [Users -> UserRow] /\ draft.subs \in SUBSET (Users \X Locations)
    BY DEF TypeOK, Draft
  <2>2. SubsAfter(t, draft.subs) \subseteq Users \X Locations
    BY <2>1, SubsAfterIsSubs
  <2>3. task[t].user \in Users
    BY DEF TypeOK, Task
  <2>4. [draft.users[task[t].user] EXCEPT !.active = FALSE] \in UserRow
    BY <2>1, <2>3 DEF UserRow
  <2>5. [draft.users EXCEPT ![task[t].user].active = FALSE]
          = [draft.users EXCEPT ![task[t].user] = [draft.users[task[t].user] EXCEPT !.active = FALSE]]
    BY <2>1, <2>3
  <2>6. draft' \in Draft
    BY <1>4, <2>1, <2>2, <2>4, <2>5 DEF Apply, Draft
  <2>7. [task[t] EXCEPT !.at = "telling"] \in Task
    BY DEF TypeOK, Task
  <2>8. task' = [task EXCEPT ![t] = [task[t] EXCEPT !.at = "telling"]]
    BY <1>4 DEF Apply, TypeOK
  <2>9. QED
    BY <1>4, <2>6, <2>7, <2>8 DEF Apply, TypeOK, tables
<1>5. ASSUME NEW t \in Tasks, Commit(t) PROVE TypeOK'
  <2>1. draft.users \in [Users -> UserRow] /\ draft.subs \in SUBSET (Users \X Locations)
    BY DEF TypeOK, Draft
  <2>2. Release(t)
    BY <1>5 DEF Commit
  <2>3. QED
    BY <1>5, <2>1, <2>2, ReleaseTypes DEF Commit, Overtake, TypeOK
<1>6. ASSUME NEW t \in Tasks, MarkBlocked(t) PROVE TypeOK'
  <2>1. task[t].user \in Users /\ task[t].seen \in UserRow /\ users[task[t].user] \in UserRow
    BY DEF TypeOK, Task
  <2> DEFINE marked == [users[task[t].user] EXCEPT !.blocked = TRUE,
                          !.active = Net(task[t].seen.active, FALSE, @)]
  <2>2. marked \in UserRow
    BY <2>1 DEF UserRow, Net
  <2>3. users' \in [Users -> UserRow]
    <3>1. users' = users \/ users' = [users EXCEPT ![task[t].user] = marked]
      BY <1>6, <2>1 DEF MarkBlocked, TypeOK
    <3>2. QED
      BY <3>1, <2>1, <2>2 DEF TypeOK
  <2>4. Release(t)
    BY <1>6 DEF MarkBlocked
  <2>5. QED
    BY <1>6, <2>3, <2>4, ReleaseTypes DEF MarkBlocked, Overtake, TypeOK
<1>7. ASSUME NEW t \in Tasks, Fails(t) PROVE TypeOK'
  BY <1>7, ReleaseTypes DEF Fails, TypeOK, tables
<1>8. CASE Restart
  BY <1>8, FreeIsTask DEF Restart, TypeOK, tables
<1>9. ASSUME NEW u \in Users, Block(u) PROVE TypeOK'
  BY <1>9 DEF Block, TypeOK, tables
<1>10. CASE UNCHANGED svars
  BY <1>10 DEF svars, tables, TypeOK
<1>11. QED
  BY <1>1, <1>2, <1>3, <1>4, <1>5, <1>6, <1>7, <1>8, <1>9, <1>10 DEF SubsNext, Handle

\* Before a transaction the draft is nobody's, and the steps that leave the
\* tables, the lock and the draft alone only move a task towards its write.
LEMMA InvariantStep == SubsInv /\ [SubsNext]_svars => SubsInv'
<1> SUFFICES ASSUME SubsInv, [SubsNext]_svars PROVE SubsInv'
  OBVIOUS
<1>0. TypeOK'
  BY SubsTypesStep DEF SubsInv
<1> USE DEF SubsInv
<1>1. ASSUME NEW t \in Tasks, NEW op \in Ops, NEW u \in Users, NEW l \in Locations,
             Receive(t, op, u, l)
      PROVE  SubsInv'
  <2>1. /\ task'[t].at = "reading" /\ task[t].at = "free"
        /\ \A s \in Tasks \ {t} : task'[s] = task[s]
        /\ UNCHANGED <<users, subs, lock, draft, overtaken>>
    BY <1>1 DEF Receive, TypeOK, tables
  <2>2. Alone'
    BY <2>1 DEF Alone
  <2>3. ASSUME NEW s \in Tasks PROVE Drafted(s)' /\ UpToDate(s)'
    BY <2>1, <2>2 DEF Drafted, UpToDate, Alone
  <2>4. QED
    BY <1>0, <2>2, <2>3
<1>2. ASSUME NEW t \in Tasks, ReadUser(t) PROVE SubsInv'
  <2>1. /\ task[t].at = "reading"
        /\ task'[t].at = "writing" /\ task'[t].user = task[t].user
        /\ task'[t].seen = users[task[t].user]
        /\ \A s \in Tasks \ {t} : task'[s] = task[s]
        /\ UNCHANGED <<users, subs, lock, draft>>
        /\ overtaken' = overtaken \ {t}
    BY <1>2 DEF ReadUser, TypeOK, Task, tables
  <2>2. Alone'
    BY <2>1 DEF Alone
  <2>3. ASSUME NEW s \in Tasks PROVE Drafted(s)' /\ UpToDate(s)'
    BY <2>1, <2>2 DEF Drafted, UpToDate, Alone
  <2>4. QED
    BY <1>0, <2>2, <2>3
<1>3. ASSUME NEW t \in Tasks, EnsureUser(t) PROVE SubsInv'
  <2> DEFINE u == task[t].user
  <2>1. /\ task[t].at = "writing"
        /\ task'[t] = [task[t] EXCEPT !.at = "applying"]
        /\ \A s \in Tasks \ {t} : task'[s] = task[s]
        /\ lock = {} /\ lock' = {t}
        /\ UNCHANGED <<users, subs, overtaken>>
    BY <1>3 DEF EnsureUser, TypeOK, tables
  <2>2. /\ task'[t].at = "applying" /\ task'[t].user = u /\ u \in Users
        /\ task[t].seen \in UserRow /\ users[u] \in UserRow
    BY <2>1 DEF TypeOK, Task
  <2>3. /\ draft'.subs = subs
        /\ draft'.users = [users EXCEPT ![u] = EnsuredRow(task[t].seen, users[u])]
    BY <1>3 DEF EnsureUser
  <2>4. /\ draft'.users[u] = EnsuredRow(task[t].seen, users[u])
        /\ \A v \in Users \ {u} : draft'.users[v] = users[v]
    BY <2>2, <2>3 DEF TypeOK
  <2>5. t \notin overtaken => draft'.users[u].active
    BY <2>1, <2>2, <2>4, EnsuredIsRow DEF UpToDate
  <2>6. Alone'
    BY <2>1, <2>2 DEF Alone
  <2>7. ASSUME NEW s \in Tasks PROVE Drafted(s)' /\ UpToDate(s)'
    <3>1. CASE s = t
      BY <3>1, <2>1, <2>2, <2>3, <2>4, <2>5 DEF Drafted, UpToDate
    <3>2. CASE s # t
      BY <3>2, <2>1, <2>6 DEF Drafted, UpToDate, Alone
    <3>3. QED
      BY <3>1, <3>2
  <2>8. QED
    BY <1>0, <2>6, <2>7
<1>4. ASSUME NEW t \in Tasks, Apply(t) PROVE SubsInv'
  <2> DEFINE u == task[t].user
             this == {<<u, task[t].location>>}
  <2>1. /\ task[t].at = "applying"
        /\ task'[t] = [task[t] EXCEPT !.at = "telling"]
        /\ \A s \in Tasks \ {t} : task'[s] = task[s]
        /\ UNCHANGED <<users, subs, lock, overtaken>>
    BY <1>4 DEF Apply, TypeOK, tables
  <2>2. /\ task'[t].at = "telling" /\ task'[t].user = u /\ u \in Users
        /\ task'[t].op = task[t].op /\ task'[t].location = task[t].location
        /\ draft.users \in [Users -> UserRow] /\ t \in lock /\ draft.subs = subs
    BY <2>1 DEF TypeOK, Task, Draft, Alone, Drafted
  <2>3. /\ draft'.subs = SubsAfter(t, subs)
        /\ draft'.users = IF task[t].op = "delete"
                           THEN [draft.users EXCEPT ![u].active = FALSE]
                           ELSE draft.users
    BY <1>4, <2>2 DEF Apply
  <2>4. \A v \in Users \ {u} : draft'.users[v] = users[v]
    BY <2>2, <2>3 DEF Drafted
  <2>5. task[t].op = "toggle" => draft'.subs = (subs \ this) \cup (this \ subs)
    BY <2>3 DEF SubsAfter
  <2>6. task[t].op = "delete" =>
          ~draft'.users[u].active /\ draft'.subs \cap ({u} \X Locations) = {}
    <3>1. task[t].op = "delete" => draft'.subs = subs \ ({u} \X Locations)
      BY <2>3 DEF SubsAfter
    <3>2. task[t].op = "delete" => ~draft'.users[u].active
      BY <2>2, <2>3 DEF UserRow
    <3>3. QED
      BY <3>1, <3>2
  <2>7. t \notin overtaken /\ task[t].op # "delete" => draft'.users[u].active
    BY <2>1, <2>2, <2>3 DEF UpToDate
  <2>8. Alone'
    BY <2>1, <2>2 DEF Alone
  <2>9. ASSUME NEW s \in Tasks PROVE Drafted(s)' /\ UpToDate(s)'
    <3>1. CASE s = t
      BY <3>1, <2>1, <2>2, <2>4, <2>5, <2>6, <2>7 DEF Drafted, UpToDate
    <3>2. CASE s # t
      BY <3>2, <2>1, <2>2, <2>8 DEF Drafted, UpToDate, Alone
    <3>3. QED
      BY <3>1, <3>2
  <2>10. QED
    BY <1>0, <2>8, <2>9
<1>5. ASSUME NEW t \in Tasks, Commit(t) \/ MarkBlocked(t) PROVE SubsInv'
  <2>0. Release(t) /\ lock \subseteq {t}
    <3>1. CASE Commit(t)
      BY <3>1 DEF Commit, Alone
    <3>2. CASE MarkBlocked(t)
      BY <3>2 DEF MarkBlocked
    <3>3. QED
      BY <1>5, <3>1, <3>2
  <2>1. /\ task'[t] = Free /\ Free.at = "free"
        /\ \A s \in Tasks \ {t} : task'[s] = task[s]
        /\ lock \subseteq {t} /\ lock' = {}
    <3>1. Free.at = "free"
      BY DEF Free
    <3>2. task' = [task EXCEPT ![t] = Free] /\ lock' = {}
      BY <2>0 DEF Release
    <3>3. QED
      BY <2>0, <3>1, <3>2 DEF TypeOK
  <2>2. \A v \in Users \ {task[t].user} : users'[v] = users[v]
    <3>1. CASE Commit(t)
      BY <3>1 DEF Commit, Alone, Drafted
    <3>2. CASE MarkBlocked(t)
      BY <3>2 DEF MarkBlocked, TypeOK
    <3>3. QED
      BY <1>5, <3>1, <3>2
  <2>3. overtaken' = (overtaken \ {t}) \cup
          {s \in Tasks \ {t} : task[s].user = task[t].user /\ task[s].at = "writing"}
    BY <1>5 DEF Commit, MarkBlocked, Overtake
  <2>4. Alone'
    BY <2>1 DEF Alone
  <2>5. ASSUME NEW s \in Tasks PROVE Drafted(s)' /\ UpToDate(s)'
    <3>1. CASE s = t
      BY <3>1, <2>1 DEF Drafted, UpToDate
    <3>2. CASE s # t
      <4>1. task'[s] = task[s] /\ s \notin lock' /\ task[s].at \notin {"applying", "telling"}
        BY <3>2, <2>1 DEF Alone
      <4>2. task[s].user \in Users
        BY DEF TypeOK, Task
      <4>3. QED
        BY <3>2, <4>1, <4>2, <2>2, <2>3 DEF Drafted, UpToDate
    <3>3. QED
      BY <3>1, <3>2
  <2>6. QED
    BY <1>0, <2>4, <2>5
<1>6. ASSUME NEW t \in Tasks, Fails(t) PROVE SubsInv'
  <2>1. /\ task'[t] = Free /\ Free.at = "free"
        /\ \A s \in Tasks \ {t} : task'[s] = task[s]
        /\ lock' = lock \ {t} /\ (t \notin lock => draft' = draft)
        /\ overtaken' = overtaken \ {t}
        /\ UNCHANGED <<users, subs>>
    BY <1>6 DEF Fails, Release, TypeOK, Free, tables
  <2>2. Alone'
    BY <2>1 DEF Alone
  <2>3. ASSUME NEW s \in Tasks PROVE Drafted(s)' /\ UpToDate(s)'
    <3>1. CASE s = t
      BY <3>1, <2>1 DEF Drafted, UpToDate
    <3>2. CASE s # t /\ t \notin lock
      BY <3>2, <2>1 DEF Drafted, UpToDate
    <3>3. CASE s # t /\ t \in lock
      BY <3>3, <2>1 DEF Drafted, UpToDate, Alone
    <3>4. QED
      BY <3>1, <3>2, <3>3
  <2>4. QED
    BY <1>0, <2>2, <2>3
<1>7. CASE Restart
  <2>1. /\ \A s \in Tasks : task'[s] = Free /\ Free.at = "free"
        /\ lock' = {}
    BY <1>7 DEF Restart, Free
  <2>2. Alone'
    BY <2>1 DEF Alone
  <2>3. ASSUME NEW s \in Tasks PROVE Drafted(s)' /\ UpToDate(s)'
    BY <2>1 DEF Drafted, UpToDate
  <2>4. QED
    BY <1>0, <2>2, <2>3
<1>8. CASE (\E u \in Users : Block(u)) \/ UNCHANGED svars
  <2>1. UNCHANGED <<users, subs, lock, draft, task, overtaken>>
    BY <1>8 DEF Block, svars, tables
  <2>2. QED
    BY <1>0, <2>1 DEF Alone, Drafted, UpToDate
<1>9. QED
  BY <1>1, <1>2, <1>3, <1>4, <1>5, <1>6, <1>7, <1>8 DEF SubsNext, Handle

THEOREM SubsInvariance == SubsSpec => []SubsInv
<1>1. Init => SubsInv
  <2> SUFFICES ASSUME Init PROVE SubsInv
    OBVIOUS
  <2>1. TypeOK
    BY FreeIsTask DEF Init, TypeOK, NoDraft
  <2>2. \A t \in Tasks : task[t] = Free /\ Free.at = "free"
    BY DEF Init, Free
  <2>3. QED
    BY <2>1, <2>2 DEF Init, SubsInv, Alone, Drafted, UpToDate
<1>2. QED
  BY <1>1, InvariantStep, PTL DEF SubsSpec

\* The tables, the sessions and the draft keep their types.
THEOREM SubsTypes == SubsSpec => []TypeOK
<1>1. SubsInv => TypeOK
  BY DEF SubsInv
<1>2. QED
  BY <1>1, SubsInvariance, PTL

\* No tap is lost and none takes effect twice: the commit of a toggle turns
\* around what is committed then.
THEOREM TogglesAreAtomic == SubsSpec => ToggleFlips
<1>1. SubsInv /\ [SubsNext]_svars =>
        [\A t \in Tasks : Commit(t) /\ task[t].op = "toggle" =>
           LET this == <<task[t].user, task[t].location>> IN
           \A s \in Users \X Locations :
             (s \in subs') = (IF s = this THEN s \notin subs ELSE s \in subs)]_svars
  <2> SUFFICES ASSUME SubsInv, NEW t \in Tasks, Commit(t), task[t].op = "toggle",
                      NEW s \in Users \X Locations
               PROVE  (s \in subs') = (IF s = <<task[t].user, task[t].location>>
                                        THEN s \notin subs ELSE s \in subs)
    OBVIOUS
  <2> DEFINE this == {<<task[t].user, task[t].location>>}
  <2>1. subs' = (subs \ this) \cup (this \ subs)
    BY DEF Commit, SubsInv, Drafted
  <2>2. QED
    BY <2>1
<1>2. QED
  BY <1>1, SubsInvariance, PTL DEF SubsSpec, ToggleFlips

\* A committed deletion leaves an inactive user without subscriptions,
\* whatever was committed while it was under way.
THEOREM DeletionsAreTotal == SubsSpec => DeletionIsTotal
<1>1. SubsInv /\ [SubsNext]_svars =>
        [\A t \in Tasks : Commit(t) /\ task[t].op = "delete" =>
           /\ ~users'[task[t].user].active
           /\ \A l \in Locations : <<task[t].user, l>> \notin subs']_svars
  BY DEF Commit, SubsInv, Drafted
<1>2. QED
  BY <1>1, SubsInvariance, PTL DEF SubsSpec, DeletionIsTotal

\* An update that nothing overtook leaves its user active.
THEOREM SubscribersStayActive == SubsSpec => ActiveUnlessOvertaken
<1>1. SubsInv /\ [SubsNext]_svars =>
        [\A t \in Tasks : Commit(t) /\ task[t].op # "delete" /\ t \notin overtaken =>
           users'[task[t].user].active]_svars
  BY DEF Commit, SubsInv, Alone, UpToDate
<1>2. QED
  BY <1>1, SubsInvariance, PTL DEF SubsSpec, ActiveUnlessOvertaken

-----------------------------------------------------------------------------
(* The effect of a transaction *)

\* A task that is neither writing nor in a transaction owes nothing to SerialInv.
LEMMA OthersStaySerial ==
  ASSUME SubsInv, SerialInv, NEW s \in Tasks,
         task'[s] = task[s], s \in lock' => s \in lock /\ draft' = draft,
         UNCHANGED <<users, subs>>, task[s].at = "telling" => s \in lock'
  PROVE  Serial(s)'
BY DEF SubsInv, SerialInv, Serial, Alone, SubsAfter

LEMMA CommitSerializes ==
  ASSUME SubsInv, SerialInv, NEW t \in Tasks, Commit(t)
  PROVE  LET u == task[t].user IN
         /\ subs' = SubsAfter(t, subs)
         /\ \A v \in Users \ {u} : users'[v] = users[v]
         /\ users'[u].known /\ users'[u].blocked = users[u].blocked
         /\ t \notin overtaken => users'[u].active = (task[t].op # "delete")
<1> DEFINE u == task[t].user
<1>1. t \in lock /\ task[t].at = "telling" /\ users' = draft.users /\ subs' = draft.subs
      /\ u \in Users /\ draft.users \in [Users -> UserRow]
  BY DEF Commit, SubsInv, Alone, TypeOK, Task, Draft
<1>2. subs' = SubsAfter(t, subs) /\ users'[u].known /\ users'[u].blocked = users[u].blocked
  BY <1>1 DEF SerialInv, Serial
<1>3. \A v \in Users \ {u} : users'[v] = users[v]
  BY <1>1 DEF SubsInv, Drafted
<1>4. task[t].op = "delete" => ~users'[u].active
  BY <1>1 DEF SubsInv, Drafted
<1>5. t \notin overtaken /\ task[t].op # "delete" => users'[u].active
  BY <1>1 DEF SubsInv, UpToDate
<1>6. users'[u].active \in BOOLEAN
  BY <1>1 DEF UserRow
<1>7. t \notin overtaken => users'[u].active = (task[t].op # "delete")
  BY <1>4, <1>5, <1>6
<1>8. QED
  BY <1>2, <1>3, <1>7

LEMMA SerialStep == SubsInv /\ SerialInv /\ [SubsNext]_svars => SerialInv'
<1> SUFFICES ASSUME SubsInv, SerialInv, [SubsNext]_svars PROVE SerialInv'
  OBVIOUS
<1>0. TypeOK /\ Alone /\ UnknownAreStrangers /\ \A s \in Tasks : Serial(s)
  BY DEF SubsInv, SerialInv
<1>1. ASSUME NEW t \in Tasks, NEW op \in Ops, NEW u \in Users, NEW l \in Locations,
             Receive(t, op, u, l)
      PROVE  SerialInv'
  <2>1. /\ task'[t].at = "reading" /\ task[t].at = "free"
        /\ \A s \in Tasks \ {t} : task'[s] = task[s]
        /\ UNCHANGED <<users, subs, lock, draft>>
    BY <1>0, <1>1 DEF Receive, TypeOK, tables
  <2>2. ASSUME NEW s \in Tasks PROVE Serial(s)'
    <3>1. CASE s = t
      BY <1>0, <2>1, <3>1 DEF Serial, Alone
    <3>2. CASE s # t
      BY <1>0, <2>1, <3>2, OthersStaySerial DEF Alone
    <3>3. QED
      BY <3>1, <3>2
  <2>3. QED
    BY <1>0, <2>1, <2>2 DEF SerialInv, UnknownAreStrangers
<1>2. ASSUME NEW t \in Tasks, ReadUser(t) PROVE SerialInv'
  <2>1. /\ task[t].at = "reading"
        /\ task'[t].at = "writing" /\ task'[t].user = task[t].user
        /\ task'[t].seen = users[task[t].user]
        /\ \A s \in Tasks \ {t} : task'[s] = task[s]
        /\ UNCHANGED <<users, subs, lock, draft>>
    BY <1>0, <1>2 DEF ReadUser, TypeOK, Task, tables
  <2>2. ASSUME NEW s \in Tasks PROVE Serial(s)'
    <3>1. CASE s = t
      BY <1>0, <2>1, <3>1 DEF Serial, Alone
    <3>2. CASE s # t
      BY <1>0, <2>1, <3>2, OthersStaySerial DEF Alone
    <3>3. QED
      BY <3>1, <3>2
  <2>3. QED
    BY <1>0, <2>1, <2>2 DEF SerialInv, UnknownAreStrangers
<1>3. ASSUME NEW t \in Tasks, EnsureUser(t) PROVE SerialInv'
  <2> DEFINE u == task[t].user
             seen == task[t].seen
  <2>1. /\ task[t].at = "writing"
        /\ task'[t] = [task[t] EXCEPT !.at = "applying"]
        /\ \A s \in Tasks \ {t} : task'[s] = task[s]
        /\ lock = {} /\ lock' = {t} /\ seen.known = users[u].known
        /\ draft'.users = [users EXCEPT ![u] = EnsuredRow(seen, users[u])]
        /\ UNCHANGED <<users, subs>>
    BY <1>0, <1>3 DEF EnsureUser, TypeOK, tables
  <2>2. /\ task'[t].at = "applying" /\ task'[t].user = u /\ u \in Users
        /\ seen \in UserRow /\ users[u] \in UserRow
    BY <1>0, <2>1 DEF TypeOK, Task
  <2>3. draft'.users[u] = EnsuredRow(seen, users[u])
    BY <1>0, <2>1, <2>2 DEF TypeOK
  <2>4. EnsuredRow(seen, users[u]).known /\ EnsuredRow(seen, users[u]).blocked = users[u].blocked
    <3>1. ~users[u].known => ~users[u].blocked
      BY <1>0, <2>2 DEF UnknownAreStrangers, Stranger
    <3>2. CASE seen.known
      BY <2>1, <2>2, <3>2 DEF EnsuredRow, UserRow
    <3>3. CASE ~seen.known
      <4>1. users[u].blocked = FALSE
        BY <2>1, <2>2, <3>1, <3>3 DEF UserRow
      <4>2. QED
        BY <3>3, <4>1 DEF EnsuredRow, Newcomer
    <3>4. QED
      BY <3>2, <3>3
  <2>5. ASSUME NEW s \in Tasks PROVE Serial(s)'
    <3>1. CASE s = t
      <4>1. users' = users
        BY <2>1
      <4>2. Serial(t)'
        BY <2>2, <2>3, <2>4, <4>1 DEF Serial
      <4>3. QED
        BY <3>1, <4>2
    <3>2. CASE s # t
      BY <1>0, <2>1, <3>2, OthersStaySerial DEF Alone
    <3>3. QED
      BY <3>1, <3>2
  <2>6. QED
    BY <1>0, <2>1, <2>5 DEF SerialInv, UnknownAreStrangers
<1>4. ASSUME NEW t \in Tasks, Apply(t) PROVE SerialInv'
  <2> DEFINE u == task[t].user
  <2>1. /\ task[t].at = "applying"
        /\ task'[t] = [task[t] EXCEPT !.at = "telling"]
        /\ \A s \in Tasks \ {t} : task'[s] = task[s]
        /\ UNCHANGED <<users, subs, lock>>
    BY <1>0, <1>4 DEF Apply, TypeOK, tables
  <2>2. /\ task'[t].at = "telling" /\ task'[t].user = u /\ u \in Users
        /\ task'[t].op = task[t].op /\ task'[t].location = task[t].location
        /\ draft.users \in [Users -> UserRow] /\ t \in lock /\ draft.subs = subs
        /\ \A s \in lock : s = t
    BY <1>0, <2>1 DEF TypeOK, Task, Draft, SubsInv, Alone, Drafted
  <2>3. draft'.subs = SubsAfter(t, subs) /\ SubsAfter(t, subs)' = SubsAfter(t, subs)
    BY <1>4, <2>1, <2>2 DEF Apply, SubsAfter
  <2>4. draft'.users[u].known = draft.users[u].known
        /\ draft'.users[u].blocked = draft.users[u].blocked
    <3>1. draft.users[u] \in UserRow
      BY <2>2
    <3>2. draft'.users[u] = draft.users[u]
          \/ draft'.users[u] = [draft.users[u] EXCEPT !.active = FALSE]
      BY <1>4, <2>2 DEF Apply
    <3>3. QED
      BY <3>1, <3>2 DEF UserRow
  <2>5. ASSUME NEW s \in Tasks PROVE Serial(s)'
    <3>1. CASE s = t
      BY <1>0, <2>1, <2>2, <2>3, <2>4, <3>1 DEF Serial
    <3>2. CASE s # t
      BY <1>0, <2>1, <2>2, <3>2, OthersStaySerial DEF Alone
    <3>3. QED
      BY <3>1, <3>2
  <2>6. QED
    BY <1>0, <2>1, <2>5 DEF SerialInv, UnknownAreStrangers
<1>5. ASSUME NEW t \in Tasks, Commit(t) \/ MarkBlocked(t) PROVE SerialInv'
  <2> DEFINE u == task[t].user
  <2>0. Release(t) /\ lock \subseteq {t} /\ u \in Users
    <3>1. CASE Commit(t)
      BY <1>0, <3>1 DEF Commit, Alone, TypeOK, Task
    <3>2. CASE MarkBlocked(t)
      BY <1>0, <3>2 DEF MarkBlocked, TypeOK, Task
    <3>3. QED
      BY <1>5, <3>1, <3>2
  <2>1. /\ task'[t].at = "free" /\ lock' = {}
        /\ \A s \in Tasks \ {t} : task'[s] = task[s]
    BY <1>0, <2>0 DEF TypeOK, Release, Free
  <2>2. /\ \A v \in Users \ {u} : users'[v] = users[v]
        /\ users'[u].known \/ users'[u] = users[u]
    <3>1. CASE Commit(t)
      BY <3>1, CommitSerializes
    <3>2. CASE MarkBlocked(t)
      <4>1. task[t].seen.known => users[u].known
        BY <1>0, <3>2 DEF MarkBlocked, Serial
      <4>2. users[u] \in UserRow
        BY <1>0, <2>0 DEF TypeOK
      <4>3. QED
        BY <1>0, <2>0, <3>2, <4>1, <4>2 DEF MarkBlocked, TypeOK, UserRow
    <3>3. QED
      BY <1>5, <3>1, <3>2
  <2>3. UnknownAreStrangers'
    BY <1>0, <2>0, <2>2 DEF UnknownAreStrangers
  <2>4. ASSUME NEW s \in Tasks PROVE Serial(s)'
    <3>1. CASE s = t
      BY <2>1, <3>1 DEF Serial
    <3>2. CASE s # t
      <4>1. task'[s] = task[s] /\ s \notin lock' /\ task[s].at \notin {"applying", "telling"}
        BY <1>0, <2>0, <2>1, <3>2 DEF Alone
      <4>2. task[s].user \in Users
        BY <1>0 DEF TypeOK, Task
      <4>3. QED
        BY <1>0, <2>2, <4>1, <4>2 DEF Serial
    <3>3. QED
      BY <3>1, <3>2
  <2>5. QED
    BY <2>3, <2>4 DEF SerialInv
<1>6. ASSUME NEW t \in Tasks, Fails(t) PROVE SerialInv'
  <2>1. /\ task'[t].at = "free" /\ lock' = lock \ {t}
        /\ \A s \in Tasks \ {t} : task'[s] = task[s]
        /\ t \notin lock => draft' = draft
        /\ UNCHANGED <<users, subs>>
    BY <1>0, <1>6 DEF Fails, Release, TypeOK, Free, tables
  <2>2. ASSUME NEW s \in Tasks PROVE Serial(s)'
    <3>1. CASE s = t
      BY <2>1, <3>1 DEF Serial
    <3>2. CASE s # t
      BY <1>0, <2>1, <3>2, OthersStaySerial DEF Alone
    <3>3. QED
      BY <3>1, <3>2
  <2>3. QED
    BY <1>0, <2>1, <2>2 DEF SerialInv, UnknownAreStrangers
<1>7. CASE Restart
  <2>1. /\ \A s \in Tasks : task'[s] = Free /\ Free.at = "free"
        /\ lock' = {} /\ users' = users
    BY <1>7 DEF Restart, Free, tables
  <2>2. QED
    BY <1>0, <2>1 DEF SerialInv, Serial, UnknownAreStrangers
<1>8. CASE (\E u \in Users : Block(u)) \/ UNCHANGED svars
  <2>1. UNCHANGED <<users, subs, lock, draft, task>>
    BY <1>8 DEF Block, svars, tables
  <2>2. QED
    BY <1>0, <2>1 DEF SerialInv, Serial, UnknownAreStrangers, SubsAfter
<1>9. QED
  BY <1>1, <1>2, <1>3, <1>4, <1>5, <1>6, <1>7, <1>8 DEF SubsNext, Handle

\* Whatever was committed between the read of an update and its write, its
\* commit does to the tables what the update would have done alone, but for
\* the is_active of an overtaken one.
THEOREM UpdatesAreSerial == SubsSpec => UpdatesSerialize
<1>1. Init => SerialInv
  <2> SUFFICES ASSUME Init PROVE SerialInv
    OBVIOUS
  <2>1. \A t \in Tasks : task[t] = Free /\ Free.at = "free"
    BY DEF Init, Free
  <2>2. QED
    BY <2>1 DEF Init, SerialInv, Serial, UnknownAreStrangers
<1>2. SubsInv /\ SerialInv /\ [SubsNext]_svars =>
        [\A t \in Tasks : Commit(t) =>
           LET u == task[t].user IN
           /\ subs' = SubsAfter(t, subs)
           /\ \A v \in Users \ {u} : users'[v] = users[v]
           /\ users'[u].known /\ users'[u].blocked = users[u].blocked
           /\ t \notin overtaken => users'[u].active = (task[t].op # "delete")]_svars
  BY CommitSerializes
<1>3. QED
  BY <1>1, <1>2, SerialStep, SubsInvariance, PTL DEF SubsSpec, UpdatesSerialize

LEMMA HandleMovesOn ==
  ASSUME TypeOK, NEW t \in Tasks, Handle(t)
  PROVE  task'[t].at # task[t].at
<1>1. CASE ReadUser(t)
  BY <1>1 DEF ReadUser, TypeOK, Task
<1>2. CASE EnsureUser(t)
  BY <1>2 DEF EnsureUser, TypeOK, Task
<1>3. CASE Apply(t)
  BY <1>3 DEF Apply, TypeOK, Task
<1>4. CASE Commit(t) \/ MarkBlocked(t) \/ Fails(t)
  BY <1>4 DEF Commit, MarkBlocked, Fails, Release, TypeOK, Free
<1>5. QED
  BY <1>1, <1>2, <1>3, <1>4 DEF Handle

\* No transaction waits for another one that waits for it: once a task has the
\* lock, its own two steps are all that stands between it and the release.
THEOREM HoldersFinish == SubsSpec => HolderFinishes
<1>1. SubsInv /\ [SubsNext]_svars =>
        [\A t \in lock :
           /\ lock' \subseteq lock
           /\ t \in lock' => task'[t].at \in {task[t].at, "telling"}
           /\ Handle(t) =>
                \/ task[t].at = "applying" /\ task'[t].at = "telling"
                \/ t \notin lock']_svars
  <2> SUFFICES ASSUME SubsInv, SubsNext, NEW t \in lock
               PROVE  /\ lock' \subseteq lock
                      /\ t \in lock' => task'[t].at \in {task[t].at, "telling"}
                      /\ Handle(t) =>
                           \/ task[t].at = "applying" /\ task'[t].at = "telling"
                           \/ t \notin lock'
    OBVIOUS
  <2>1. TypeOK /\ t \in Tasks /\ task[t].at \in {"applying", "telling"}
    BY DEF SubsInv, TypeOK, Alone
  <2>2. ASSUME NEW s \in Tasks, Handle(s)
        PROVE  /\ lock' \subseteq lock
               /\ t \in lock' => task'[t].at \in {task[t].at, "telling"}
               /\ s = t => \/ task[t].at = "applying" /\ task'[t].at = "telling"
                           \/ t \notin lock'
    <3>1. CASE ReadUser(s)
      BY <2>1, <3>1 DEF ReadUser, TypeOK
    <3>2. CASE EnsureUser(s)
      BY <3>2 DEF EnsureUser
    <3>3. CASE Apply(s)
      BY <2>1, <3>3 DEF Apply, TypeOK
    <3>4. CASE Commit(s) \/ MarkBlocked(s) \/ Fails(s)
      BY <2>1, <3>4 DEF Commit, MarkBlocked, Fails, Release, TypeOK
    <3>5. QED
      BY <2>2, <3>1, <3>2, <3>3, <3>4 DEF Handle
  <2>3. CASE \E s \in Tasks, op \in Ops, u \in Users, l \in Locations : Receive(s, op, u, l)
    <3>1. PICK s \in Tasks, op \in Ops, u \in Users, l \in Locations : Receive(s, op, u, l)
      BY <2>3
    <3>2. s # t /\ lock' = lock /\ task'[t] = task[t]
      BY <2>1, <3>1 DEF Receive, TypeOK
    <3>3. ~Handle(t)
      BY <2>1, <3>2, HandleMovesOn
    <3>4. QED
      BY <3>2, <3>3
  <2>4. CASE Restart
    BY <2>4 DEF Restart
  <2>5. CASE \E u \in Users : Block(u)
    <3>1. lock' = lock /\ task' = task
      BY <2>5 DEF Block
    <3>2. ~Handle(t)
      BY <2>1, <3>1, HandleMovesOn
    <3>3. QED
      BY <3>1, <3>2
  <2>6. QED
    BY <2>1, <2>2, <2>3, <2>4, <2>5 DEF SubsNext
<1>2. QED
  BY <1>1, SubsInvariance, PTL DEF SubsSpec, HolderFinishes
=============================================================================
