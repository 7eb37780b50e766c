-------------------------- MODULE NotificationQueue --------------------------
(***************************************************************************)
(* The Telegram send queue: an unbounded asyncio.Queue drained by worker   *)
(* tasks, each of which records a notification_events row, sends, and      *)
(* records how it went.  A worker's pc names the await it is suspended at. *)
(*                                                                         *)
(* The rows and what Telegram delivered are durable; the queue, the        *)
(* workers and what they hold are lost with the process.  The semaphore is *)
(* left out: start() makes as many workers as it has places, so that it    *)
(* never holds one back.                                                   *)
(***************************************************************************)
EXTENDS Naturals, Sequences, FiniteSets

CONSTANTS
  Messages,     \* the messages to be sent, one per alert and recipient
  Users,        \* rows of the users table
  Recipient,    \* [Messages -> Users]
  Empty,        \* the message without text that stop() puts, and "no message"
  Workers,      \* the notify-worker tasks
  MaxRetries,   \* bound on the RetryAfter answers
  MaxFaults,    \* bound on the database transactions that raise
  MaxRestarts   \* bound on the restarts of the process

ASSUME EmptyAssumption   == Empty \notin Messages
ASSUME RecipientAssumption == Recipient \in [Messages -> Users]
ASSUME WorkersAssumption == IsFiniteSet(Workers) /\ Workers # {}
ASSUME BoundsAssumption  ==
  MaxRetries \in Nat /\ MaxFaults \in Nat /\ MaxRestarts \in Nat

VARIABLES
  queue,      \* the asyncio.Queue
  stopping,   \* the _stop event
  pc,         \* where each worker is suspended
  job,        \* the message each worker holds, or Empty
  event,      \* the id of the event row it created for that message, or 0
  events,     \* the notification_events table; a row's id is its place
  submitted,  \* messages enqueued so far
  delivered,  \* how often Telegram delivered each message
  blocked,    \* users whose is_blocked is set (and whose is_active is cleared)
  retries, faults, restarts

worker == <<pc, job, event>>
counts == <<retries, faults, restarts>>
vars   == <<queue, stopping, worker, events, submitted, delivered, blocked, counts>>

Running == {"idle", "creating", "refreshing", "sending", "confirming",
            "backing_off", "cancelling", "blocking", "failing"}
Ended   == {"done", "dead"}

EventStatus == {"pending", "sent", "failed", "cancelled"}

TypeOK ==
  /\ queue \in Seq(Messages \cup {Empty})
  /\ stopping \in BOOLEAN
  /\ pc \in [Workers -> Running \cup Ended]
  /\ job \in [Workers -> Messages \cup {Empty}]
  /\ event \in [Workers -> 0..Len(events)]
  /\ events \in Seq([message : Messages, status : EventStatus])
  /\ submitted \subseteq Messages
  /\ delivered \in [Messages -> Nat]
  /\ blocked \subseteq Users
  /\ retries \in 0..MaxRetries /\ faults \in 0..MaxFaults /\ restarts \in 0..MaxRestarts

Started ==
  /\ queue' = <<>>
  /\ stopping' = FALSE
  /\ pc' = [w \in Workers |-> "idle"]
  /\ job' = [w \in Workers |-> Empty]
  /\ event' = [w \in Workers |-> 0]

Init ==
  /\ queue = <<>>
  /\ stopping = FALSE
  /\ pc = [w \in Workers |-> "idle"]
  /\ job = [w \in Workers |-> Empty]
  /\ event = [w \in Workers |-> 0]
  /\ events = <<>>
  /\ submitted = {}
  /\ delivered = [m \in Messages |-> 0]
  /\ blocked = {}
  /\ retries = 0 /\ faults = 0 /\ restarts = 0

-----------------------------------------------------------------------------
(* enqueue, start and stop *)

\* run_bot stops the scheduler, the only producer, before it stops the queue.
Enqueue(m) ==
  /\ ~stopping
  /\ m \notin submitted
  /\ submitted' = submitted \cup {m}
  /\ queue' = Append(queue, m)
  /\ UNCHANGED <<stopping, worker, events, delivered, blocked, counts>>

Stop_OneForAll ==
  /\ ~stopping
  /\ stopping' = TRUE
  /\ queue' = Append(queue, Empty)
  /\ UNCHANGED <<worker, events, submitted, delivered, blocked, counts>>

\* One message without text for every worker ever started, dead ones included.
Stop ==
  /\ ~stopping
  /\ stopping' = TRUE
  /\ queue' = queue \o [i \in 1..Cardinality(Workers) |-> Empty]
  /\ UNCHANGED <<worker, events, submitted, delivered, blocked, counts>>

\* The process ends, by a crash or after gather() returned, and is started
\* again: nothing of the queue is kept.
Restart ==
  /\ restarts < MaxRestarts
  /\ restarts' = restarts + 1
  /\ Started
  /\ UNCHANGED <<events, submitted, delivered, blocked, retries, faults>>

-----------------------------------------------------------------------------
(* A worker *)

\* The worker lets go of its message and suspends at, or ends in, p.
Release(w, p) ==
  /\ pc' = [pc EXCEPT ![w] = p]
  /\ job' = [job EXCEPT ![w] = Empty]
  /\ event' = [event EXCEPT ![w] = 0]

Goto(w, p) ==
  /\ pc' = [pc EXCEPT ![w] = p]
  /\ UNCHANGED <<job, event>>

\* (Names with an underscore are mutated forms of the definition they precede:
\* plausible slips, kept to show which property would notice them.)
LoopAgain_Leaves(w) == Release(w, "done")

\* Back at "while not self._stop.is_set()".
LoopAgain(w) == Release(w, IF stopping THEN "done" ELSE "idle")

\* An exception leaves _worker: the task ends, and nothing restarts it.
Dies(w) ==
  /\ faults < MaxFaults
  /\ faults' = faults + 1
  /\ Release(w, "dead")
  /\ UNCHANGED <<queue, stopping, events, submitted, delivered, blocked, retries, restarts>>

SetStatus(w, status) ==
  events' = [events EXCEPT ![event[w]].status = status]

\* queue.get(): a message to send, or the empty one to leave by.
Take(w) ==
  /\ pc[w] = "idle" /\ queue # <<>>
  /\ queue' = Tail(queue)
  /\ IF Head(queue) = Empty
     THEN Release(w, "done")
     ELSE /\ pc' = [pc EXCEPT ![w] = "creating"]
          /\ job' = [job EXCEPT ![w] = Head(queue)]
          /\ UNCHANGED event
  /\ UNCHANGED <<stopping, events, submitted, delivered, blocked, counts>>

CreateEvent_Optimistic(w) ==
  /\ pc[w] = "creating"
  /\ events' = Append(events, [message |-> job[w], status |-> "sent"])
  /\ event' = [event EXCEPT ![w] = Len(events) + 1]
  /\ pc' = [pc EXCEPT ![w] = "refreshing"]
  /\ UNCHANGED <<queue, stopping, job, submitted, delivered, blocked, counts>>

\* _create_event commits its PENDING row.  The worker is on that row from now
\* on, although event_id is only known to it after the refresh.
CreateEvent(w) ==
  /\ pc[w] = "creating"
  /\ events' = Append(events, [message |-> job[w], status |-> "pending"])
  /\ event' = [event EXCEPT ![w] = Len(events) + 1]
  /\ pc' = [pc EXCEPT ![w] = "refreshing"]
  /\ UNCHANGED <<queue, stopping, job, submitted, delivered, blocked, counts>>

RefreshEvent(w) ==
  /\ pc[w] = "refreshing"
  /\ Goto(w, "sending")
  /\ UNCHANGED <<queue, stopping, events, submitted, delivered, blocked, counts>>

\* _create_event raises, outside the try block: before its commit, or after it,
\* with the row stored.
CreateEventRaises(w) ==
  /\ pc[w] \in {"creating", "refreshing"}
  /\ Dies(w)

\* send_message returns.
SendReturns(w) ==
  /\ pc[w] = "sending"
  /\ delivered' = [delivered EXCEPT ![job[w]] = @ + 1]
  /\ Goto(w, "confirming")
  /\ UNCHANGED <<queue, stopping, events, submitted, blocked, counts>>

SendRaises_Retried(w) ==
  /\ pc[w] = "sending"
  /\ \/ UNCHANGED delivered
     \/ delivered' = [delivered EXCEPT ![job[w]] = @ + 1]
  /\ Goto(w, "backing_off")
  /\ UNCHANGED <<queue, stopping, events, submitted, blocked, counts>>

\* send_message raises neither RetryAfter nor Forbidden: the request was
\* refused or lost, or delivered and only the answer lost.
SendRaises(w) ==
  /\ pc[w] = "sending"
  /\ \/ UNCHANGED delivered
     \/ delivered' = [delivered EXCEPT ![job[w]] = @ + 1]
  /\ Goto(w, "failing")
  /\ UNCHANGED <<queue, stopping, events, submitted, blocked, counts>>

SendRetryAfter(w) ==
  /\ pc[w] = "sending"
  /\ retries < MaxRetries
  /\ retries' = retries + 1
  /\ Goto(w, "backing_off")
  /\ UNCHANGED <<queue, stopping, events, submitted, delivered, blocked, faults, restarts>>

SendForbidden(w) ==
  /\ pc[w] = "sending"
  /\ Goto(w, "blocking")
  /\ UNCHANGED <<queue, stopping, events, submitted, delivered, blocked, counts>>

Requeue_NotWhenStopping(w) ==
  /\ pc[w] = "backing_off"
  /\ queue' = IF stopping THEN queue ELSE Append(queue, job[w])
  /\ Goto(w, "cancelling")
  /\ UNCHANGED <<stopping, events, submitted, delivered, blocked, counts>>

\* The sleep is over; the message goes to the back of the queue, also when
\* the queue is being stopped.
Requeue(w) ==
  /\ pc[w] = "backing_off"
  /\ queue' = Append(queue, job[w])
  /\ Goto(w, "cancelling")
  /\ UNCHANGED <<stopping, events, submitted, delivered, blocked, counts>>

MarkBlocked_Message(w) ==
  /\ pc[w] = "blocking"
  /\ blocked' = blocked \cup {job[w]}
  /\ Goto(w, "failing")
  /\ UNCHANGED <<queue, stopping, events, submitted, delivered, counts>>

MarkBlocked(w) ==
  /\ pc[w] = "blocking"
  /\ blocked' = blocked \cup {Recipient[job[w]]}
  /\ Goto(w, "failing")
  /\ UNCHANGED <<queue, stopping, events, submitted, delivered, counts>>

\* _finalize_event
Finalize(w, at, status) ==
  /\ pc[w] = at
  /\ SetStatus(w, status)
  /\ LoopAgain(w)
  /\ UNCHANGED <<queue, stopping, submitted, delivered, blocked, counts>>

FinalizeSent(w)      == Finalize(w, "confirming", "sent")
FinalizeCancelled_Skipped(w) ==
  /\ pc[w] = "cancelling"
  /\ LoopAgain(w)
  /\ UNCHANGED <<queue, stopping, events, submitted, delivered, blocked, counts>>

FinalizeCancelled(w) == Finalize(w, "cancelling", "cancelled")
FinalizeFailed(w)    == Finalize(w, "failing", "failed")

\* Recording SENT raises inside the try block: the except clause records
\* FAILED of a message that was delivered.
FinalizeSentRaises(w) ==
  /\ pc[w] = "confirming"
  /\ faults < MaxFaults
  /\ faults' = faults + 1
  /\ Goto(w, "failing")
  /\ UNCHANGED <<queue, stopping, events, submitted, delivered, blocked, retries, restarts>>

\* A database call inside an except clause raises.
HandlerRaises(w) ==
  /\ pc[w] \in {"cancelling", "blocking", "failing"}
  /\ Dies(w)

Work(w) ==
  \/ Take(w) \/ CreateEvent(w) \/ RefreshEvent(w) \/ CreateEventRaises(w)
  \/ SendReturns(w) \/ SendRaises(w) \/ SendRetryAfter(w) \/ SendForbidden(w)
  \/ Requeue(w) \/ MarkBlocked(w)
  \/ FinalizeSent(w) \/ FinalizeCancelled(w) \/ FinalizeFailed(w)
  \/ FinalizeSentRaises(w) \/ HandlerRaises(w)

Next ==
  \/ \E m \in Messages : Enqueue(m)
  \/ Stop
  \/ Restart
  \/ \E w \in Workers : Work(w)

Spec == Init /\ [][Next]_vars

\* asyncio runs every worker that can run; requests time out, sleeps and
\* transactions end.
FairSpec == Spec /\ \A w \in Workers : WF_vars(Work(w))

-----------------------------------------------------------------------------
(* Properties *)

Carrying == {"creating", "refreshing", "sending", "backing_off"}

\* A message still on its way: waiting in the queue, or held by a worker
\* that has not sent it.
Queued(m)   == \E i \in DOMAIN queue : queue[i] = m
Carried(m)  == \E w \in Workers : job[w] = m /\ pc[w] \in Carrying

\* No subscriber gets the same alert twice, whatever RetryAfter, lost
\* answers, failed transactions, shutdown and restarts do: a message is only
\* put back when Telegram said that it did not take it.
DeliveredAtMostOnce == \A m \in Messages : delivered[m] <= 1

\* notification_events tells the truth when it says SENT, whichever workers
\* die and whenever the process is restarted.
SentIsDelivered ==
  \A i \in DOMAIN events :
    events[i].status = "sent" => delivered[events[i].message] > 0

Settled(m) ==
  \E i \in DOMAIN events :
    events[i].message = m /\ events[i].status \in {"sent", "failed"}

\* A message is seen to: it waits, somebody works on it, or the table says how
\* it ended.  A worker that cancels its row has put the message back, and is
\* no longer the one to keep it.
InCare(m) ==
  \/ Queued(m) \/ Settled(m)
  \/ \E w \in Workers : job[w] = m /\ pc[w] # "cancelling"

\* Every message that is submitted is seen to until it is recorded as SENT or
\* FAILED; only the end of the process, or the failed transaction of the
\* worker that holds this very message, loses it.
NothingLost ==
  [][\A m \in submitted' :
       (m \in submitted => InCare(m)) =>
         InCare(m)' \/ Restart \/ \E w \in Workers : job[w] = m /\ Dies(w)]_vars

OnRow(i) == \E w \in Workers : event[w] = i

\* An event row is PENDING only while the worker that created it is on it,
\* unless that worker died on it, or the process did: neither shutdown nor the
\* failures of the other workers leave one behind.
PendingIsInHand ==
  [][\A i \in DOMAIN events' :
       events'[i].status = "pending" /\ (i \in DOMAIN events => OnRow(i)) =>
         OnRow(i)' \/ Restart \/ \E w \in Workers : event[w] = i /\ Dies(w)]_vars

\* stop() returns: every worker leaves its loop, those asleep for a
\* RetryAfter and those behind a backlog included.
StopReturns == stopping ~> (~stopping \/ \A w \in Workers : pc[w] \in Ended)

\* A message does not wait for ever, unless the queue is being stopped or
\* every worker has died of a failed transaction.
QueueMoves ==
  \A m \in Messages :
    Queued(m) ~> (~Queued(m) \/ stopping \/ \A w \in Workers : pc[w] = "dead")

-----------------------------------------------------------------------------
(* The inductive invariant the first two follow from *)

\* Where the message a worker holds has its event row.
Recorded == {"refreshing", "sending", "backing_off", "confirming", "cancelling",
             "blocking", "failing"}

\* A message is in one place of the queue, or carried by one worker, or
\* neither; only where it is neither can it have been delivered.
OneCopy ==
  /\ \A m \in Messages : Queued(m) \/ Carried(m) => delivered[m] = 0
  /\ \A m \in Messages : ~(Queued(m) /\ Carried(m))
  /\ \A i, j \in DOMAIN queue : queue[i] \in Messages /\ queue[i] = queue[j] => i = j
  /\ \A v, w \in Workers :
       pc[v] \in Carrying /\ pc[w] \in Carrying /\ job[v] = job[w] => v = w

Fresh == \A m \in Messages \ submitted :
           ~Queued(m) /\ delivered[m] = 0 /\ \A w \in Workers : job[w] # m

InHand ==
  \A w \in Workers :
    /\ pc[w] \in Carrying \cup Recorded => job[w] \in Messages
    /\ pc[w] \in Recorded =>
         event[w] \in DOMAIN events /\ events[event[w]].message = job[w]
    /\ pc[w] = "confirming" => delivered[job[w]] > 0

QueueInv ==
  TypeOK /\ OneCopy /\ Fresh /\ InHand /\ DeliveredAtMostOnce /\ SentIsDelivered

-----------------------------------------------------------------------------
(* What the other two follow from, given the first invariant *)

\* The row a worker is on is PENDING and its own; a worker on none holds
\* nothing.
OwnRows ==
  \A w \in Workers :
    /\ pc[w] \notin Recorded => event[w] = 0
    /\ pc[w] \notin Carrying \cup Recorded => job[w] = Empty
    /\ pc[w] \in Recorded =>
         /\ events[event[w]].status = "pending"
         /\ \A v \in Workers \ {w} : event[v] # event[w]

-----------------------------------------------------------------------------
(* Why stop() returns, as far as safety can say *)

Waiting   == {w \in Workers : pc[w] = "idle"}
Sentinels == {i \in DOMAIN queue : queue[i] = Empty}

\* The inductive form of the next one: a waiting worker can take at most one
\* empty message, and one that takes another message waits no more.
EnoughToLeaveBy == stopping => Cardinality(Waiting) <= Cardinality(Sentinels)

\* Once stop() has been called nobody waits at an empty queue, where it would
\* wait for ever: not behind a backlog, and not after others have died.
NobodyIsStranded == stopping /\ Waiting # {} => queue # <<>>

\* The most steps that a worker can still make before it looks at _stop.
StepsLeft ==
  [p \in Running \cup Ended |->
     CASE p = "idle" -> 6
       [] p = "creating" -> 5
       [] p = "refreshing" -> 4
       [] p = "sending" -> 3
       [] p \in {"confirming", "backing_off", "blocking"} -> 2
       [] p \in {"cancelling", "failing"} -> 1
       [] p \in Ended -> 0]

\* Once stop() has been called every step of a worker takes it nearer to its
\* end, and nobody takes it further from it: no RetryAfter and no backlog keeps
\* a worker in its loop.
StoppingDescends ==
  [][stopping /\ stopping' =>
       \A w \in Workers :
         /\ StepsLeft[pc'[w]] <= StepsLeft[pc[w]]
         /\ Work(w) => StepsLeft[pc'[w]] < StepsLeft[pc[w]]]_vars
=============================================================================
