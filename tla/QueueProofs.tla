------------------------------ MODULE QueueProofs ------------------------------
(***************************************************************************)
(* Proofs about the send queue, for every set of messages and workers and  *)
(* any number of retries, faults and restarts.                             *)
(***************************************************************************)
EXTENDS NotificationQueue, FiniteSetTheorems, TLAPS

USE EmptyAssumption, RecipientAssumption, BoundsAssumption

LEMMA WorkerCount == Cardinality(Workers) \in Nat
BY WorkersAssumption, FS_CardinalityType

LEMMA QueueInit == Init => QueueInv
<1> SUFFICES ASSUME Init
             PROVE  QueueInv
  OBVIOUS
<1> USE DEF Init
<1>1. TypeOK
  <2>1. Len(events) = 0
    OBVIOUS
  <2>2. queue \in Seq(Messages \cup {Empty})
    OBVIOUS
  <2>3. events \in Seq([message : Messages, status : EventStatus])
    OBVIOUS
  <2>4. event \in [Workers -> 0..Len(events)]
    BY <2>1
  <2>5. stopping \in BOOLEAN /\ submitted \subseteq Messages /\ blocked \subseteq Users
    OBVIOUS
  <2>6. pc \in [Workers -> Running \cup Ended] /\ job \in [Workers -> Messages \cup {Empty}]
    BY DEF Running
  <2>7. delivered \in [Messages -> Nat]
    OBVIOUS
  <2>8. retries \in 0..MaxRetries /\ faults \in 0..MaxFaults /\ restarts \in 0..MaxRestarts
    OBVIOUS
  <2>9. QED
    BY <2>2, <2>3, <2>4, <2>5, <2>6, <2>7, <2>8, Zenon DEF TypeOK
<1>2. \A m \in Messages : ~Queued(m) /\ ~Carried(m)
  BY DEF Queued, Carried, Carrying
<1>3. OneCopy /\ Fresh
  BY <1>2 DEF OneCopy, Fresh, Carrying
<1>4. InHand /\ DeliveredAtMostOnce /\ SentIsDelivered
  BY DEF InHand, DeliveredAtMostOnce, SentIsDelivered, Carrying, Recorded
<1>5. QED
  BY <1>1, <1>3, <1>4 DEF QueueInv

-----------------------------------------------------------------------------
(* What the sequence operations do to the queue *)

LEMMA AppendToQueue ==
  ASSUME TypeOK, NEW m \in Messages \cup {Empty}, queue' = Append(queue, m)
  PROVE  /\ queue' \in Seq(Messages \cup {Empty})
         /\ DOMAIN queue' = 1..(Len(queue) + 1)
         /\ \A i \in DOMAIN queue : i \in DOMAIN queue' /\ queue'[i] = queue[i]
         /\ queue'[Len(queue) + 1] = m
BY DEF TypeOK

LEMMA TailOfQueue ==
  ASSUME TypeOK, queue # <<>>, queue' = Tail(queue)
  PROVE  /\ queue' \in Seq(Messages \cup {Empty})
         /\ Head(queue) = queue[1] /\ 1 \in DOMAIN queue
         /\ \A i \in DOMAIN queue' : i + 1 \in DOMAIN queue /\ queue'[i] = queue[i + 1]
BY DEF TypeOK

LEMMA StopTail ==
  ASSUME TypeOK, queue' = queue \o [i \in 1..Cardinality(Workers) |-> Empty]
  PROVE  /\ queue' \in Seq(Messages \cup {Empty})
         /\ Len(queue') = Len(queue) + Cardinality(Workers)
         /\ \A i \in DOMAIN queue' :
              IF i \in DOMAIN queue THEN queue'[i] = queue[i] ELSE queue'[i] = Empty
<1> DEFINE s == [i \in 1..Cardinality(Workers) |-> Empty]
<1>1. s \in Seq(Messages \cup {Empty}) /\ Len(s) = Cardinality(Workers)
  <2> DEFINE n == Cardinality(Workers)
  <2>1. n \in Nat
    BY WorkerCount
  <2> HIDE DEF n
  <2>2. [i \in 1..n |-> Empty] \in Seq(Messages \cup {Empty}) /\ Len([i \in 1..n |-> Empty]) = n
    BY <2>1
  <2>3. QED
    BY <2>2 DEF n
<1>2. queue \in Seq(Messages \cup {Empty})
  BY DEF TypeOK
<1>3. queue' = queue \o s
  OBVIOUS
<1>4. \A i \in 1..Len(s) : s[i] = Empty
  BY WorkerCount
<1> HIDE DEF s
<1>5. queue' \in Seq(Messages \cup {Empty}) /\ Len(queue') = Len(queue) + Len(s)
  <2> DEFINE M == Messages \cup {Empty}
  <2> HIDE DEF M
  <2>1. s \in Seq(M) /\ queue \in Seq(M)
    BY <1>1, <1>2 DEF M
  <2>2. queue \o s \in Seq(M) /\ Len(queue \o s) = Len(queue) + Len(s)
    BY <2>1
  <2>3. QED
    BY <1>3, <2>2 DEF M
<1>6. Len(queue) \in Nat /\ Len(s) \in Nat /\ DOMAIN queue = 1..Len(queue)
      /\ DOMAIN queue' = 1..(Len(queue) + Len(s))
  BY <1>1, <1>2, <1>5
<1>7. \A i \in 1..(Len(queue) + Len(s)) :
        queue'[i] = IF i <= Len(queue) THEN queue[i] ELSE s[i - Len(queue)]
  BY <1>1, <1>2, <1>3, <1>6
<1>8. ASSUME NEW i \in DOMAIN queue'
      PROVE  IF i \in DOMAIN queue THEN queue'[i] = queue[i] ELSE queue'[i] = Empty
  <2>1. CASE i <= Len(queue)
    BY <2>1, <1>6, <1>7
  <2>2. CASE ~(i <= Len(queue))
    <3>1. i - Len(queue) \in 1..Len(s) /\ i \notin DOMAIN queue
      <4> DEFINE n == Len(queue)
                 k == Len(s)
      <4>1. n \in Nat /\ k \in Nat /\ i \in 1..(n + k) /\ ~(i <= n)
        BY <2>2, <1>6
      <4> HIDE DEF n, k
      <4>2. i - n \in 1..k /\ i \notin 1..n
        BY <4>1
      <4>3. QED
        BY <4>2, <1>6 DEF n, k
    <3>2. QED
      BY <2>2, <3>1, <1>4, <1>6, <1>7
  <2>3. QED
    BY <2>1, <2>2
<1>9. QED
  BY <1>1, <1>5, <1>8

LEMMA AppendToEvents ==
  ASSUME TypeOK, NEW e \in [message : Messages, status : EventStatus],
         events' = Append(events, e)
  PROVE  /\ events' \in Seq([message : Messages, status : EventStatus])
         /\ DOMAIN events' = 1..(Len(events) + 1) /\ Len(events') = Len(events) + 1
         /\ \A i \in DOMAIN events : i \in DOMAIN events' /\ events'[i] = events[i]
         /\ events'[Len(events) + 1] = e
BY DEF TypeOK

LEMMA StatusOfEvent ==
  ASSUME TypeOK, NEW w \in Workers, NEW status \in EventStatus,
         event[w] \in DOMAIN events, SetStatus(w, status)
  PROVE  /\ events' \in Seq([message : Messages, status : EventStatus])
         /\ DOMAIN events' = DOMAIN events /\ Len(events') = Len(events)
         /\ \A i \in DOMAIN events : events'[i].message = events[i].message
         /\ \A i \in DOMAIN events :
              events'[i].status = IF i = event[w] THEN status ELSE events[i].status
<1> DEFINE E == [message : Messages, status : EventStatus]
<1>1. events \in Seq(E) /\ event[w] \in 1..Len(events) /\ Len(events) \in Nat
  BY DEF TypeOK
<1>2. \A i \in 1..Len(events) : events[i] \in E
  <2> HIDE DEF E
  <2>1. QED
    BY <1>1
<1>3. [events[event[w]] EXCEPT !.status = status] \in E
  <2>1. events[event[w]] \in E
    BY <1>1, <1>2
  <2> DEFINE e == events[event[w]]
  <2>2. e \in [message : Messages, status : EventStatus]
    BY <2>1
  <2> HIDE DEF e
  <2>3. [e EXCEPT !.status = status] = [message |-> e.message, status |-> status]
    BY <2>2
  <2>4. [e EXCEPT !.status = status] \in [message : Messages, status : EventStatus]
    BY <2>2, <2>3
  <2>5. QED
    BY <2>4 DEF e
<1>4. events' = [events EXCEPT ![event[w]] = [events[event[w]] EXCEPT !.status = status]]
  BY DEF SetStatus
<1>5. events' \in Seq(E) /\ Len(events') = Len(events) /\ DOMAIN events' = DOMAIN events
  <2> HIDE DEF E
  <2>1. QED
    BY <1>1, <1>3, <1>4
<1>6. \A i \in DOMAIN events :
        events'[i] = IF i = event[w] THEN [events[i] EXCEPT !.status = status] ELSE events[i]
  <2> HIDE DEF E
  <2>1. QED
    BY <1>1, <1>4
<1>7. QED
  BY <1>1, <1>2, <1>5, <1>6

-----------------------------------------------------------------------------
(* Producers, stop and restart *)

LEMMA EnqueueKeeps ==
  ASSUME QueueInv, NEW m \in Messages, Enqueue(m)
  PROVE  QueueInv'
<1> USE DEF worker, counts
<1>1. TypeOK /\ OneCopy /\ Fresh /\ InHand /\ DeliveredAtMostOnce /\ SentIsDelivered
  BY DEF QueueInv
<1>2. /\ queue' \in Seq(Messages \cup {Empty})
      /\ DOMAIN queue' = 1..(Len(queue) + 1) /\ DOMAIN queue = 1..Len(queue) /\ Len(queue) \in Nat
      /\ \A i \in DOMAIN queue : i \in DOMAIN queue' /\ queue'[i] = queue[i]
      /\ queue'[Len(queue) + 1] = m
  BY <1>1, AppendToQueue DEF Enqueue, TypeOK
<1>3. ~Queued(m) /\ ~Carried(m) /\ delivered[m] = 0
  BY <1>1 DEF Enqueue, Fresh, Carried
<1>4. \A n \in Messages : (Queued(n)' <=> n = m \/ Queued(n)) /\ (Carried(n)' <=> Carried(n))
  BY <1>2 DEF Queued, Carried, Enqueue
<1>5. TypeOK'
  BY <1>1, <1>2 DEF TypeOK, Enqueue
<1>6. OneCopy'
  <2>1. \A i, j \in DOMAIN queue' : queue'[i] \in Messages /\ queue'[i] = queue'[j] => i = j
    BY <1>1, <1>2, <1>3 DEF OneCopy, Queued
  <2>2. QED
    BY <1>1, <1>3, <1>4, <2>1 DEF OneCopy, Enqueue
<1>7. Fresh'
  BY <1>1, <1>4 DEF Fresh, Enqueue
<1>8. InHand' /\ DeliveredAtMostOnce' /\ SentIsDelivered'
  BY <1>1 DEF InHand, DeliveredAtMostOnce, SentIsDelivered, Enqueue
<1>9. QED
  BY <1>5, <1>6, <1>7, <1>8 DEF QueueInv

LEMMA StopKeeps ==
  ASSUME QueueInv, Stop
  PROVE  QueueInv'
<1> USE DEF worker, counts
<1>1. TypeOK /\ OneCopy /\ Fresh /\ InHand /\ DeliveredAtMostOnce /\ SentIsDelivered
  BY DEF QueueInv
<1>2. /\ queue' \in Seq(Messages \cup {Empty})
      /\ \A i \in DOMAIN queue' :
           IF i \in DOMAIN queue THEN queue'[i] = queue[i] ELSE queue'[i] = Empty
  BY <1>1, StopTail DEF Stop
<1>3. \A n \in Messages : (Queued(n)' => Queued(n)) /\ (Carried(n)' <=> Carried(n))
  BY <1>2 DEF Queued, Carried, Stop
<1>4. TypeOK'
  BY <1>1, <1>2 DEF TypeOK, Stop
<1>5. OneCopy'
  BY <1>1, <1>2, <1>3 DEF OneCopy, Stop
<1>6. Fresh'
  BY <1>1, <1>3 DEF Fresh, Stop
<1>7. InHand' /\ DeliveredAtMostOnce' /\ SentIsDelivered'
  BY <1>1 DEF InHand, DeliveredAtMostOnce, SentIsDelivered, Stop
<1>8. QED
  BY <1>4, <1>5, <1>6, <1>7 DEF QueueInv

LEMMA RestartKeeps ==
  ASSUME QueueInv, Restart
  PROVE  QueueInv'
<1> USE DEF Restart, Started
<1>1. TypeOK /\ Fresh /\ DeliveredAtMostOnce /\ SentIsDelivered
  BY DEF QueueInv
<1>2. \A n \in Messages : ~Queued(n)' /\ ~Carried(n)'
  BY DEF Queued, Carried, Carrying
<1>3. TypeOK'
  <2>1. Len(events) \in Nat /\ events' = events
    BY <1>1 DEF TypeOK
  <2>2. queue' \in Seq(Messages \cup {Empty})
    OBVIOUS
  <2>3. event' \in [Workers -> 0..Len(events)]
    BY <2>1
  <2>4. restarts' \in 0..MaxRestarts
    BY <1>1 DEF TypeOK
  <2>5. QED
    BY <1>1, <2>1, <2>2, <2>3, <2>4 DEF TypeOK, Running
<1>4. OneCopy' /\ Fresh'
  BY <1>1, <1>2 DEF OneCopy, Fresh, Carrying
<1>5. InHand' /\ DeliveredAtMostOnce' /\ SentIsDelivered'
  BY <1>1 DEF InHand, DeliveredAtMostOnce, SentIsDelivered, Carrying, Recorded
<1>6. QED
  BY <1>3, <1>4, <1>5 DEF QueueInv

-----------------------------------------------------------------------------
(* What the steps of a worker have in common *)

\* A step that leaves the queue alone, and after which no worker carries
\* what it did not carry before, makes no copies.
LEMMA CopiesKept ==
  ASSUME OneCopy, queue' = queue, delivered' = delivered,
         \A w \in Workers :
           pc'[w] \in Carrying => pc[w] \in Carrying /\ job'[w] = job[w]
  PROVE  OneCopy'
<1>1. \A m \in Messages : (Queued(m)' <=> Queued(m)) /\ (Carried(m)' => Carried(m))
  BY DEF Queued, Carried
<1>2. QED
  BY <1>1 DEF OneCopy

\* A message is not picked up by anybody before it is submitted.
LEMMA FreshKept ==
  ASSUME Fresh, queue' = queue, delivered' = delivered, submitted' = submitted,
         \A w \in Workers : job'[w] = job[w] \/ job'[w] = Empty
  PROVE  Fresh'
<1>1. \A m \in Messages : Queued(m)' <=> Queued(m)
  BY DEF Queued
<1>2. QED
  BY <1>1 DEF Fresh

\* The worker keeps its message and its event row.
LEMMA GotoTypes ==
  ASSUME TypeOK, NEW w \in Workers, NEW p \in Running, Goto(w, p)
  PROVE  /\ pc' \in [Workers -> Running \cup Ended] /\ job' = job /\ event' = event
         /\ pc'[w] = p /\ \A v \in Workers \ {w} : pc'[v] = pc[v]
BY DEF TypeOK, Goto

LEMMA ReleaseTypes ==
  ASSUME TypeOK, NEW w \in Workers, NEW p \in Running \cup Ended, Release(w, p)
  PROVE  /\ pc' \in [Workers -> Running \cup Ended]
         /\ job' \in [Workers -> Messages \cup {Empty}]
         /\ event' \in [Workers -> 0..Len(events)]
         /\ pc'[w] = p /\ job'[w] = Empty /\ event'[w] = 0
         /\ \A v \in Workers \ {w} :
              pc'[v] = pc[v] /\ job'[v] = job[v] /\ event'[v] = event[v]
<1>1. Len(events) \in Nat
  BY DEF TypeOK
<1>2. 0 \in 0..Len(events)
  BY <1>1
<1>3. event' \in [Workers -> 0..Len(events)]
  BY <1>2 DEF TypeOK, Release
<1>4. QED
  BY <1>3 DEF TypeOK, Release

\* A worker that lets go of its message and touches nothing else.
LEMMA ReleaseKeeps ==
  ASSUME QueueInv, NEW w \in Workers, NEW p \in {"idle", "done", "dead"}, Release(w, p),
         events' = events, queue' = queue, delivered' = delivered, submitted' = submitted
  PROVE  OneCopy' /\ Fresh' /\ InHand' /\ DeliveredAtMostOnce' /\ SentIsDelivered'
<1>1. TypeOK /\ OneCopy /\ Fresh /\ InHand /\ DeliveredAtMostOnce /\ SentIsDelivered
  BY DEF QueueInv
<1>2. /\ pc'[w] = p /\ job'[w] = Empty /\ p \notin Carrying \cup Recorded
      /\ \A v \in Workers \ {w} : pc'[v] = pc[v] /\ job'[v] = job[v] /\ event'[v] = event[v]
  BY <1>1, ReleaseTypes DEF Running, Ended, Carrying, Recorded
<1>3. OneCopy'
  BY <1>1, <1>2, CopiesKept
<1>4. Fresh'
  BY <1>1, <1>2, FreshKept
<1>5. InHand'
  BY <1>1, <1>2 DEF InHand, Recorded
<1>6. QED
  BY <1>1, <1>3, <1>4, <1>5 DEF DeliveredAtMostOnce, SentIsDelivered

\* A worker that goes on to a place where it has a row and is not, or no
\* longer, confirming or carrying something it was not carrying already.
LEMMA GotoKeeps ==
  ASSUME QueueInv, NEW w \in Workers,
         NEW p \in Recorded \ {"confirming"}, pc[w] \in Recorded,
         p \in Carrying => pc[w] \in Carrying, Goto(w, p),
         events' = events, queue' = queue, delivered' = delivered, submitted' = submitted
  PROVE  OneCopy' /\ Fresh' /\ InHand' /\ DeliveredAtMostOnce' /\ SentIsDelivered'
<1>1. TypeOK /\ OneCopy /\ Fresh /\ InHand /\ DeliveredAtMostOnce /\ SentIsDelivered
  BY DEF QueueInv
<1>2. /\ job' = job /\ event' = event
      /\ pc'[w] = p /\ \A v \in Workers \ {w} : pc'[v] = pc[v]
  BY <1>1, GotoTypes DEF Recorded, Running
<1>3. OneCopy'
  BY <1>1, <1>2, CopiesKept
<1>4. Fresh'
  BY <1>1, <1>2, FreshKept
<1>5. InHand'
  <2>1. ASSUME NEW v \in Workers
        PROVE  pc'[v] \in Recorded => pc[v] \in Recorded
    BY <1>2
  <2>2. \A v \in Workers : pc'[v] = "confirming" => pc[v] = "confirming"
    BY <1>2
  <2>3. \A v \in Workers : pc'[v] \in Carrying => pc[v] \in Carrying
    BY <1>2
  <2>4. QED
    BY <1>1, <1>2, <2>1, <2>2, <2>3 DEF InHand
<1>6. QED
  BY <1>1, <1>3, <1>4, <1>5 DEF DeliveredAtMostOnce, SentIsDelivered

-----------------------------------------------------------------------------
(* The steps of a worker *)

LEMMA TakeKeeps ==
  ASSUME QueueInv, NEW w \in Workers, Take(w)
  PROVE  QueueInv'
<1> USE DEF worker, counts
<1>1. TypeOK /\ OneCopy /\ Fresh /\ InHand /\ DeliveredAtMostOnce /\ SentIsDelivered
  BY DEF QueueInv
<1>2. /\ queue' \in Seq(Messages \cup {Empty})
      /\ Head(queue) = queue[1] /\ 1 \in DOMAIN queue
      /\ \A i \in DOMAIN queue' : i + 1 \in DOMAIN queue /\ queue'[i] = queue[i + 1]
  BY <1>1, TailOfQueue DEF Take
<1> DEFINE m == queue[1]
<1>3. m \in Messages \cup {Empty}
  BY <1>1, <1>2 DEF TypeOK
<1>4. \A i \in DOMAIN queue' : i \in Nat \ {0}
  BY <1>2
<1>5. \A n \in Messages : Queued(n)' => Queued(n) /\ n # m
  <2>1. SUFFICES ASSUME NEW n \in Messages, NEW i \in DOMAIN queue', queue'[i] = n
                 PROVE  Queued(n) /\ n # m
    BY DEF Queued
  <2>2. i + 1 \in DOMAIN queue /\ queue[i + 1] = n /\ i + 1 # 1
    BY <1>2, <1>4, <2>1
  <2>3. n # m
    BY <1>1, <1>2, <2>2 DEF OneCopy
  <2>4. QED
    BY <2>2, <2>3 DEF Queued
<1>6. \A i, j \in DOMAIN queue' : queue'[i] \in Messages /\ queue'[i] = queue'[j] => i = j
  <2>1. SUFFICES ASSUME NEW i \in DOMAIN queue', NEW j \in DOMAIN queue',
                        queue'[i] \in Messages, queue'[i] = queue'[j]
                 PROVE  i = j
    OBVIOUS
  <2>2. i + 1 = j + 1
    BY <1>1, <1>2, <2>1 DEF OneCopy
  <2>3. QED
    BY <1>4, <2>2
<1>7. CASE m = Empty
  <2>1. Release(w, "done")
    BY <1>2, <1>7 DEF Take
  <2>2. /\ pc' \in [Workers -> Running \cup Ended]
        /\ job' \in [Workers -> Messages \cup {Empty}]
        /\ event' \in [Workers -> 0..Len(events)]
        /\ pc'[w] = "done" /\ job'[w] = Empty
        /\ \A v \in Workers \ {w} :
             pc'[v] = pc[v] /\ job'[v] = job[v] /\ event'[v] = event[v]
    BY <1>1, <2>1, ReleaseTypes DEF Ended
  <2>3. TypeOK'
    BY <1>1, <1>2, <2>2 DEF TypeOK, Take
  <2>4. \A n \in Messages : Carried(n)' => Carried(n)
    BY <2>2 DEF Carried, Carrying
  <2>5. OneCopy'
    <3>1. \A v \in Workers :
            pc'[v] \in Carrying => v # w /\ pc[v] \in Carrying /\ job'[v] = job[v]
      BY <2>2 DEF Carrying
    <3>2. \A u, v \in Workers :
            pc'[u] \in Carrying /\ pc'[v] \in Carrying /\ job'[u] = job'[v] => u = v
      BY <1>1, <3>1 DEF OneCopy
    <3>3. QED
      BY <1>1, <1>5, <1>6, <2>4, <3>2 DEF OneCopy, Take
  <2>6. Fresh'
    BY <1>1, <1>5, <2>2 DEF Fresh, Take
  <2>7. InHand' /\ DeliveredAtMostOnce' /\ SentIsDelivered'
    BY <1>1, <2>2 DEF InHand, DeliveredAtMostOnce, SentIsDelivered, Carrying, Recorded, Take
  <2>8. QED
    BY <2>3, <2>5, <2>6, <2>7 DEF QueueInv
<1>8. CASE m \in Messages
  <2>1. m # Empty /\ Queued(m)
    BY <1>2, <1>8 DEF Queued
  <2>2. /\ pc' = [pc EXCEPT ![w] = "creating"] /\ job' = [job EXCEPT ![w] = m]
        /\ event' = event
    BY <1>2, <2>1 DEF Take
  <2>3. /\ pc' \in [Workers -> Running \cup Ended]
        /\ job' \in [Workers -> Messages \cup {Empty}]
        /\ pc'[w] = "creating" /\ job'[w] = m
        /\ \A v \in Workers \ {w} : pc'[v] = pc[v] /\ job'[v] = job[v]
    BY <1>1, <1>8, <2>2 DEF TypeOK, Running
  <2>4. TypeOK'
    BY <1>1, <1>2, <2>2, <2>3 DEF TypeOK, Take
  <2>5. \A n \in Messages : Carried(n)' => Carried(n) \/ n = m
    BY <2>3 DEF Carried, Carrying
  <2>6. delivered[m] = 0 /\ ~Carried(m) /\ m \in submitted
    BY <1>1, <1>8, <2>1 DEF OneCopy, Fresh
  <2>7. \A u, v \in Workers :
          pc'[u] \in Carrying /\ pc'[v] \in Carrying /\ job'[u] = job'[v] => u = v
    <3>1. \A v \in Workers \ {w} : ~(pc'[v] \in Carrying /\ job'[v] = m)
      BY <2>3, <2>6 DEF Carried
    <3>2. QED
      BY <1>1, <2>3, <3>1 DEF OneCopy
  <2>8. OneCopy'
    BY <1>1, <1>5, <1>6, <2>5, <2>6, <2>7 DEF OneCopy, Take
  <2>9. Fresh'
    BY <1>1, <1>5, <2>3, <2>6 DEF Fresh, Take
  <2>10. InHand' /\ DeliveredAtMostOnce' /\ SentIsDelivered'
    BY <1>1, <1>8, <2>2, <2>3
       DEF InHand, DeliveredAtMostOnce, SentIsDelivered, Carrying, Recorded, Take
  <2>11. QED
    BY <2>4, <2>8, <2>9, <2>10 DEF QueueInv
<1>9. QED
  BY <1>3, <1>7, <1>8

LEMMA CreateEventKeeps ==
  ASSUME QueueInv, NEW w \in Workers, CreateEvent(w)
  PROVE  QueueInv'
<1> USE DEF worker, counts
<1>1. TypeOK /\ OneCopy /\ Fresh /\ InHand /\ DeliveredAtMostOnce /\ SentIsDelivered
  BY DEF QueueInv
<1> DEFINE e == [message |-> job[w], status |-> "pending"]
<1>2. job[w] \in Messages
  BY <1>1 DEF InHand, CreateEvent, Carrying
<1>3. e \in [message : Messages, status : EventStatus]
  BY <1>2 DEF EventStatus
<1>4. /\ events' \in Seq([message : Messages, status : EventStatus])
      /\ DOMAIN events' = 1..(Len(events) + 1) /\ Len(events') = Len(events) + 1
      /\ \A i \in DOMAIN events : i \in DOMAIN events' /\ events'[i] = events[i]
      /\ events'[Len(events) + 1] = e
  BY <1>1, <1>3, AppendToEvents DEF CreateEvent
<1>5. Len(events) \in Nat /\ DOMAIN events = 1..Len(events)
  BY <1>1 DEF TypeOK
<1>6. /\ pc' \in [Workers -> Running \cup Ended]
      /\ pc'[w] = "refreshing" /\ \A v \in Workers \ {w} : pc'[v] = pc[v]
  BY <1>1 DEF TypeOK, Running, CreateEvent
<1>7. event'[w] = Len(events) + 1 /\ \A v \in Workers \ {w} : event'[v] = event[v]
  BY <1>1 DEF TypeOK, CreateEvent
<1>8. event' \in [Workers -> 0..Len(events')]
  <2>1. Len(events) + 1 \in 0..(Len(events) + 1) /\ 0..Len(events) \subseteq 0..(Len(events) + 1)
    BY <1>5
  <2>2. event' = [event EXCEPT ![w] = Len(events) + 1]
    BY DEF CreateEvent
  <2>3. event \in [Workers -> 0..(Len(events) + 1)]
    BY <1>1, <2>1 DEF TypeOK
  <2>4. event' \in [Workers -> 0..(Len(events) + 1)]
    BY <2>1, <2>2, <2>3
  <2>5. QED
    BY <1>4, <2>4
<1>9. TypeOK'
  BY <1>1, <1>4, <1>6, <1>8 DEF TypeOK, CreateEvent
<1>10. OneCopy'
  <2>1. \A v \in Workers : pc'[v] \in Carrying => pc[v] \in Carrying /\ job'[v] = job[v]
    BY <1>6 DEF Carrying, CreateEvent
  <2>2. QED
    BY <1>1, <2>1, CopiesKept DEF CreateEvent
<1>11. Fresh'
  BY <1>1, FreshKept DEF CreateEvent
<1>12. InHand'
  <2>1. ASSUME NEW v \in Workers
        PROVE  pc'[v] \in Recorded =>
                 event'[v] \in DOMAIN events' /\ events'[event'[v]].message = job'[v]
    <3>1. CASE v = w
      BY <3>1, <1>4, <1>5, <1>7 DEF CreateEvent
    <3>2. CASE v # w
      BY <3>2, <1>1, <1>4, <1>6, <1>7 DEF InHand, CreateEvent
    <3>3. QED
      BY <3>1, <3>2
  <2>2. QED
    BY <1>1, <1>2, <1>6, <2>1 DEF InHand, Carrying, Recorded, CreateEvent
<1>13. DeliveredAtMostOnce'
  BY <1>1 DEF DeliveredAtMostOnce, CreateEvent
<1>14. SentIsDelivered'
  <2>1. \A i \in DOMAIN events' : i \in DOMAIN events \/ i = Len(events) + 1
    BY <1>4, <1>5
  <2>2. e.status # "sent"
    OBVIOUS
  <2>3. QED
    BY <1>1, <1>4, <2>1, <2>2 DEF SentIsDelivered, CreateEvent
<1>15. QED
  BY <1>9, <1>10, <1>11, <1>12, <1>13, <1>14 DEF QueueInv

LEMMA DiesKeeps ==
  ASSUME QueueInv, NEW w \in Workers, Dies(w)
  PROVE  QueueInv'
<1> USE DEF worker, counts
<1>1. TypeOK
  BY DEF QueueInv
<1>2. Release(w, "dead")
  BY DEF Dies
<1>3. /\ pc' \in [Workers -> Running \cup Ended]
      /\ job' \in [Workers -> Messages \cup {Empty}]
      /\ event' \in [Workers -> 0..Len(events)]
  BY <1>1, <1>2, ReleaseTypes DEF Ended
<1>4. faults' \in 0..MaxFaults
  BY <1>1 DEF Dies, TypeOK
<1>5. TypeOK'
  BY <1>1, <1>3, <1>4 DEF TypeOK, Dies
<1>6. OneCopy' /\ Fresh' /\ InHand' /\ DeliveredAtMostOnce' /\ SentIsDelivered'
  BY <1>2, ReleaseKeeps DEF Dies
<1>7. QED
  BY <1>5, <1>6 DEF QueueInv

\* Telegram has the message, whether it says so or not.
LEMMA DeliveryKeeps ==
  ASSUME QueueInv, NEW w \in Workers, pc[w] = "sending",
         NEW p \in {"confirming", "failing"}, Goto(w, p),
         delivered' = [delivered EXCEPT ![job[w]] = @ + 1],
         UNCHANGED <<queue, stopping, events, submitted, blocked, counts>>
  PROVE  QueueInv'
<1> USE DEF worker, counts
<1>1. TypeOK /\ OneCopy /\ Fresh /\ InHand /\ DeliveredAtMostOnce /\ SentIsDelivered
  BY DEF QueueInv
<1> DEFINE m == job[w]
<1>2. m \in Messages /\ Carried(m)
  BY <1>1 DEF InHand, Carrying, Carried
<1>3. delivered[m] = 0 /\ ~Queued(m) /\ m \in submitted
  BY <1>1, <1>2 DEF OneCopy, Fresh
<1>4. /\ delivered' \in [Messages -> Nat] /\ delivered'[m] = 1
      /\ \A n \in Messages \ {m} : delivered'[n] = delivered[n]
  BY <1>1, <1>2, <1>3 DEF TypeOK
<1>5. /\ pc' \in [Workers -> Running \cup Ended] /\ job' = job /\ event' = event
      /\ pc'[w] = p /\ \A v \in Workers \ {w} : pc'[v] = pc[v]
  BY <1>1, GotoTypes DEF Running
<1>6. TypeOK'
  BY <1>1, <1>4, <1>5 DEF TypeOK
<1>7. \A v \in Workers : pc'[v] \in Carrying => pc[v] \in Carrying /\ job[v] # m
  <2>1. \A v \in Workers : pc'[v] \in Carrying => v # w /\ pc[v] \in Carrying
    BY <1>5 DEF Carrying
  <2>2. pc[w] \in Carrying
    BY DEF Carrying
  <2>3. QED
    BY <1>1, <2>1, <2>2 DEF OneCopy
<1>8. \A n \in Messages : (Queued(n)' <=> Queued(n)) /\ (Carried(n)' => Carried(n) /\ n # m)
  BY <1>5, <1>7 DEF Queued, Carried
<1>9. OneCopy'
  BY <1>1, <1>3, <1>4, <1>5, <1>7, <1>8 DEF OneCopy
<1>10. Fresh'
  BY <1>1, <1>3, <1>4, <1>5, <1>8 DEF Fresh
<1>11. InHand'
  <2>1. \A n \in Messages : delivered[n] > 0 => delivered'[n] > 0
    BY <1>4
  <2>2. ASSUME NEW v \in Workers
        PROVE  /\ pc'[v] \in Carrying \cup Recorded => pc[v] \in Carrying \cup Recorded
               /\ pc'[v] \in Recorded => pc[v] \in Recorded
               /\ pc'[v] = "confirming" => v = w \/ pc[v] = "confirming"
    BY <1>5 DEF Carrying, Recorded
  <2>3. ASSUME NEW v \in Workers, pc'[v] = "confirming"
        PROVE  delivered'[job'[v]] > 0
    <3>1. CASE v = w
      BY <3>1, <1>4, <1>5
    <3>2. CASE v # w
      <4>1. pc[v] = "confirming" /\ job[v] \in Messages /\ delivered[job[v]] > 0
        BY <3>2, <1>1, <1>5, <2>3 DEF InHand, Recorded
      <4>2. QED
        BY <4>1, <2>1, <1>5
    <3>3. QED
      BY <3>1, <3>2
  <2>4. QED
    BY <1>1, <1>5, <2>2, <2>3 DEF InHand
<1>12. DeliveredAtMostOnce'
  BY <1>1, <1>4 DEF DeliveredAtMostOnce
<1>13. SentIsDelivered'
  <2>1. \A i \in DOMAIN events : events[i].message \in Messages
    <3>1. \A i \in DOMAIN events : events[i] \in [message : Messages, status : EventStatus]
      <4> DEFINE E == [message : Messages, status : EventStatus]
      <4>1. events \in Seq(E)
        BY <1>1 DEF TypeOK
      <4> HIDE DEF E
      <4>2. \A i \in DOMAIN events : events[i] \in E
        BY <4>1
      <4>3. QED
        BY <4>2 DEF E
    <3>2. QED
      BY <3>1
  <2>2. \A n \in Messages : delivered[n] > 0 => delivered'[n] > 0
    BY <1>4
  <2>3. QED
    BY <1>1, <2>1, <2>2 DEF SentIsDelivered
<1>14. QED
  BY <1>6, <1>9, <1>10, <1>11, <1>12, <1>13 DEF QueueInv

\* Where the refresh and a send that Telegram did not take lead: no row and no
\* queue changes.
LEMMA RefusalKeeps ==
  ASSUME QueueInv, NEW w \in Workers,
         RefreshEvent(w) \/ SendRetryAfter(w) \/ SendForbidden(w) \/ MarkBlocked(w)
           \/ FinalizeSentRaises(w) \/ (pc[w] = "sending" /\ Goto(w, "failing")
                 /\ UNCHANGED <<queue, stopping, events, submitted, delivered, blocked, counts>>)
  PROVE  QueueInv'
<1> USE DEF worker, counts
<1>1. TypeOK
  BY DEF QueueInv
<1>2. PICK p \in {"sending", "backing_off", "blocking", "failing"} :
        Goto(w, p) /\ pc[w] \in Recorded /\ (p \in Carrying => pc[w] \in Carrying)
  BY DEF RefreshEvent, SendRetryAfter, SendForbidden, MarkBlocked, FinalizeSentRaises,
         Recorded, Carrying
<1>3. queue' = queue /\ events' = events /\ delivered' = delivered /\ submitted' = submitted
      /\ stopping' = stopping
  BY DEF RefreshEvent, SendRetryAfter, SendForbidden, MarkBlocked, FinalizeSentRaises
<1>4. /\ pc' \in [Workers -> Running \cup Ended] /\ job' = job /\ event' = event
  BY <1>1, <1>2, GotoTypes DEF Running
<1>5. retries' \in 0..MaxRetries /\ faults' \in 0..MaxFaults /\ restarts' \in 0..MaxRestarts
  BY <1>1 DEF TypeOK, RefreshEvent, SendRetryAfter, SendForbidden, MarkBlocked,
              FinalizeSentRaises
<1>6. blocked' \subseteq Users
  <2>1. CASE MarkBlocked(w)
    <3>1. job[w] \in Messages
      BY <2>1 DEF MarkBlocked, QueueInv, InHand, Recorded
    <3>2. QED
      BY <1>1, <2>1, <3>1 DEF TypeOK, MarkBlocked
  <2>2. CASE ~MarkBlocked(w)
    BY <1>1, <2>2 DEF TypeOK, RefreshEvent, SendRetryAfter, SendForbidden,
                       FinalizeSentRaises
  <2>3. QED
    BY <2>1, <2>2
<1>7. TypeOK'
  BY <1>1, <1>3, <1>4, <1>5, <1>6 DEF TypeOK
<1>8. OneCopy' /\ Fresh' /\ InHand' /\ DeliveredAtMostOnce' /\ SentIsDelivered'
  <2>1. p \in Recorded \ {"confirming"}
    BY <1>2 DEF Recorded
  <2>2. QED
    BY <1>2, <1>3, <2>1, GotoKeeps
<1>9. QED
  BY <1>7, <1>8 DEF QueueInv

LEMMA SendRaisesKeeps ==
  ASSUME QueueInv, NEW w \in Workers, SendRaises(w)
  PROVE  QueueInv'
<1>1. CASE UNCHANGED delivered
  BY <1>1, RefusalKeeps DEF SendRaises
<1>2. CASE delivered' = [delivered EXCEPT ![job[w]] = @ + 1]
  BY <1>2, DeliveryKeeps DEF SendRaises
<1>3. QED
  BY <1>1, <1>2 DEF SendRaises

LEMMA SendReturnsKeeps ==
  ASSUME QueueInv, NEW w \in Workers, SendReturns(w)
  PROVE  QueueInv'
BY DeliveryKeeps DEF SendReturns

LEMMA RequeueKeeps ==
  ASSUME QueueInv, NEW w \in Workers, Requeue(w)
  PROVE  QueueInv'
<1> USE DEF worker, counts
<1>1. TypeOK /\ OneCopy /\ Fresh /\ InHand /\ DeliveredAtMostOnce /\ SentIsDelivered
  BY DEF QueueInv
<1> DEFINE m == job[w]
<1>2. m \in Messages /\ Carried(m) /\ pc[w] \in Carrying \cap Recorded
  BY <1>1 DEF InHand, Carrying, Recorded, Carried, Requeue
<1>3. delivered[m] = 0 /\ ~Queued(m) /\ m \in submitted
  BY <1>1, <1>2 DEF OneCopy, Fresh
<1>4. /\ queue' \in Seq(Messages \cup {Empty})
      /\ DOMAIN queue' = 1..(Len(queue) + 1) /\ DOMAIN queue = 1..Len(queue) /\ Len(queue) \in Nat
      /\ \A i \in DOMAIN queue : i \in DOMAIN queue' /\ queue'[i] = queue[i]
      /\ queue'[Len(queue) + 1] = m
  BY <1>1, <1>2, AppendToQueue DEF Requeue, TypeOK
<1>5. Goto(w, "cancelling") /\ "cancelling" \in Running
  BY DEF Requeue, Running
<1>6. /\ pc' \in [Workers -> Running \cup Ended] /\ job' = job /\ event' = event
      /\ pc'[w] = "cancelling" /\ \A v \in Workers \ {w} : pc'[v] = pc[v]
  BY <1>1, <1>5, GotoTypes
<1>7. TypeOK'
  BY <1>1, <1>4, <1>6 DEF TypeOK, Requeue
<1>8. \A v \in Workers : pc'[v] \in Carrying => pc[v] \in Carrying /\ job[v] # m
  <2>1. \A v \in Workers : pc'[v] \in Carrying => v # w /\ pc[v] \in Carrying
    BY <1>6 DEF Carrying
  <2>2. QED
    BY <1>1, <1>2, <2>1 DEF OneCopy
<1>9. \A n \in Messages : (Queued(n)' <=> n = m \/ Queued(n)) /\ (Carried(n)' => Carried(n) /\ n # m)
  <2>1. \A n \in Messages : Queued(n)' <=> n = m \/ Queued(n)
    BY <1>4 DEF Queued
  <2>2. QED
    BY <1>6, <1>8, <2>1 DEF Carried
<1>10. OneCopy'
  <2>1. \A i, j \in DOMAIN queue' : queue'[i] \in Messages /\ queue'[i] = queue'[j] => i = j
    BY <1>1, <1>3, <1>4 DEF OneCopy, Queued
  <2>2. \A u, v \in Workers :
          pc'[u] \in Carrying /\ pc'[v] \in Carrying /\ job'[u] = job'[v] => u = v
    BY <1>1, <1>6, <1>8 DEF OneCopy
  <2>3. QED
    BY <1>1, <1>3, <1>9, <2>1, <2>2 DEF OneCopy, Requeue
<1>11. Fresh'
  BY <1>1, <1>3, <1>6, <1>9 DEF Fresh, Requeue
<1>12. InHand'
  <2>1. \A v \in Workers :
          /\ pc'[v] \in Carrying \cup Recorded => pc[v] \in Carrying \cup Recorded
          /\ pc'[v] \in Recorded => pc[v] \in Recorded
          /\ pc'[v] = "confirming" => pc[v] = "confirming"
    BY <1>2, <1>6 DEF Carrying, Recorded
  <2>2. QED
    BY <1>1, <1>6, <2>1 DEF InHand, Requeue
<1>13. DeliveredAtMostOnce' /\ SentIsDelivered'
  BY <1>1 DEF DeliveredAtMostOnce, SentIsDelivered, Requeue
<1>14. QED
  BY <1>7, <1>10, <1>11, <1>12, <1>13 DEF QueueInv

LEMMA FinalizeKeeps ==
  ASSUME QueueInv, NEW w \in Workers,
         FinalizeSent(w) \/ FinalizeCancelled(w) \/ FinalizeFailed(w)
  PROVE  QueueInv'
<1> USE DEF worker, counts
<1>1. TypeOK /\ OneCopy /\ Fresh /\ InHand /\ DeliveredAtMostOnce /\ SentIsDelivered
  BY DEF QueueInv
<1>2. PICK at \in {"confirming", "cancelling", "failing"}, status \in EventStatus :
        Finalize(w, at, status) /\ (status = "sent" => at = "confirming")
  BY DEF FinalizeSent, FinalizeCancelled, FinalizeFailed, EventStatus
<1>3. pc[w] \in Recorded /\ event[w] \in DOMAIN events /\ events[event[w]].message = job[w]
      /\ job[w] \in Messages
  BY <1>1, <1>2 DEF Finalize, Recorded, InHand
<1>4. /\ events' \in Seq([message : Messages, status : EventStatus])
      /\ DOMAIN events' = DOMAIN events /\ Len(events') = Len(events)
      /\ \A i \in DOMAIN events : events'[i].message = events[i].message
      /\ \A i \in DOMAIN events :
           events'[i].status = IF i = event[w] THEN status ELSE events[i].status
  BY <1>1, <1>2, <1>3, StatusOfEvent DEF Finalize
<1>5. PICK p \in {"idle", "done"} : Release(w, p)
  BY <1>2 DEF Finalize, LoopAgain
<1>6. /\ pc' \in [Workers -> Running \cup Ended]
      /\ job' \in [Workers -> Messages \cup {Empty}]
      /\ event' \in [Workers -> 0..Len(events)]
      /\ pc'[w] = p /\ job'[w] = Empty /\ event'[w] = 0
      /\ \A v \in Workers \ {w} :
           pc'[v] = pc[v] /\ job'[v] = job[v] /\ event'[v] = event[v]
  BY <1>1, <1>5, ReleaseTypes DEF Running, Ended
<1>7. TypeOK'
  BY <1>1, <1>2, <1>4, <1>6 DEF TypeOK, Finalize
<1>8. \A v \in Workers : pc'[v] \in Carrying \cup Recorded => v # w
  BY <1>6 DEF Carrying, Recorded
<1>9. OneCopy'
  BY <1>1, <1>2, <1>6, <1>8, CopiesKept DEF Finalize
<1>10. Fresh'
  BY <1>1, <1>2, <1>6, FreshKept DEF Finalize
<1>11. InHand'
  <2>1. delivered' = delivered
    BY <1>2 DEF Finalize
  <2>2. ASSUME NEW v \in Workers, pc'[v] \in Carrying \cup Recorded
        PROVE  v # w /\ pc'[v] = pc[v] /\ job'[v] = job[v] /\ event'[v] = event[v]
    BY <1>6, <1>8, <2>2
  <2>3. \A v \in Workers : pc'[v] \in Recorded =>
          event'[v] \in DOMAIN events' /\ events'[event'[v]].message = job'[v]
    BY <1>1, <1>4, <2>2 DEF InHand
  <2>4. \A v \in Workers : pc'[v] = "confirming" => pc'[v] \in Recorded
    BY DEF Recorded
  <2>5. QED
    BY <1>1, <2>1, <2>2, <2>3, <2>4 DEF InHand
<1>12. DeliveredAtMostOnce'
  BY <1>1, <1>2 DEF DeliveredAtMostOnce, Finalize
<1>13. SentIsDelivered'
  <2>1. delivered' = delivered
    BY <1>2 DEF Finalize
  <2>2. status = "sent" => delivered[events[event[w]].message] > 0
    BY <1>1, <1>2, <1>3 DEF InHand, Finalize
  <2>3. QED
    BY <1>1, <1>4, <2>1, <2>2 DEF SentIsDelivered
<1>14. QED
  BY <1>7, <1>9, <1>10, <1>11, <1>12, <1>13 DEF QueueInv

-----------------------------------------------------------------------------
(* The theorems *)

LEMMA QueueStep == QueueInv /\ [Next]_vars => QueueInv'
<1> SUFFICES ASSUME QueueInv, [Next]_vars
             PROVE  QueueInv'
  OBVIOUS
<1>1. CASE \E m \in Messages : Enqueue(m)
  BY <1>1, EnqueueKeeps
<1>2. CASE Stop
  BY <1>2, StopKeeps
<1>3. CASE Restart
  BY <1>3, RestartKeeps
<1>4. ASSUME NEW w \in Workers, Work(w)
      PROVE  QueueInv'
  <2>1. CASE Take(w)
    BY <2>1, TakeKeeps
  <2>2. CASE CreateEvent(w)
    BY <2>2, CreateEventKeeps
  <2>3. CASE CreateEventRaises(w) \/ HandlerRaises(w)
    BY <2>3, DiesKeeps DEF CreateEventRaises, HandlerRaises
  <2>4. CASE SendReturns(w)
    BY <2>4, SendReturnsKeeps
  <2>5. CASE SendRaises(w)
    BY <2>5, SendRaisesKeeps
  <2>6. CASE \/ RefreshEvent(w) \/ SendRetryAfter(w) \/ SendForbidden(w)
             \/ MarkBlocked(w) \/ FinalizeSentRaises(w)
    BY <2>6, RefusalKeeps
  <2>7. CASE Requeue(w)
    BY <2>7, RequeueKeeps
  <2>8. CASE FinalizeSent(w) \/ FinalizeCancelled(w) \/ FinalizeFailed(w)
    BY <2>8, FinalizeKeeps
  <2>9. QED
    BY <1>4, <2>1, <2>2, <2>3, <2>4, <2>5, <2>6, <2>7, <2>8 DEF Work
<1>5. CASE UNCHANGED vars
  <2>1. /\ TypeOK' = TypeOK /\ OneCopy' = OneCopy /\ Fresh' = Fresh /\ InHand' = InHand
        /\ DeliveredAtMostOnce' = DeliveredAtMostOnce /\ SentIsDelivered' = SentIsDelivered
    BY <1>5 DEF vars, worker, counts, TypeOK, OneCopy, Fresh, InHand, DeliveredAtMostOnce,
                SentIsDelivered, Queued, Carried
  <2>2. QED
    BY <2>1 DEF QueueInv
<1>6. QED
  BY <1>1, <1>2, <1>3, <1>4, <1>5 DEF Next

LEMMA QueueInvariance == Spec => []QueueInv
BY QueueInit, QueueStep, PTL DEF Spec

\* Whatever Telegram answers, whichever workers die, whenever the queue is
\* stopped or the process restarted: no message is delivered a second time.
THEOREM NoDuplicates == Spec => []DeliveredAtMostOnce
<1>1. QueueInv => DeliveredAtMostOnce
  BY DEF QueueInv
<1>2. QED
  BY <1>1, QueueInvariance, PTL

\* A row that says SENT is about a message Telegram has delivered.
THEOREM SentRowsAreTrue == Spec => []SentIsDelivered
<1>1. QueueInv => SentIsDelivered
  BY DEF QueueInv
<1>2. QED
  BY <1>1, QueueInvariance, PTL

\* The queue, the workers and the event table keep their types.
THEOREM QueueTypes == Spec => []TypeOK
<1>1. QueueInv => TypeOK
  BY DEF QueueInv
<1>2. QED
  BY <1>1, QueueInvariance, PTL

-----------------------------------------------------------------------------
(* What the queue owes: which steps lose a message, or leave a row behind *)

\* What the two properties say of a step.
MessagesKept ==
  \A m \in submitted' :
    (m \in submitted => InCare(m)) =>
      InCare(m)' \/ Restart \/ \E w \in Workers : job[w] = m /\ Dies(w)

RowsHeld ==
  \A i \in DOMAIN events' :
    events'[i].status = "pending" /\ (i \in DOMAIN events => OnRow(i)) =>
      OnRow(i)' \/ Restart \/ \E w \in Workers : event[w] = i /\ Dies(w)

GoodStep == OwnRows' /\ MessagesKept /\ RowsHeld

\* Producers, stop(), and restarts.
LEMMA EnqueueKeepsRows ==
  ASSUME QueueInv, OwnRows, NEW m \in Messages, Enqueue(m)
  PROVE  GoodStep
<1> USE DEF worker, counts
<1>1. TypeOK
  BY DEF QueueInv
<1>2. /\ DOMAIN queue' = 1..(Len(queue) + 1) /\ Len(queue) \in Nat
      /\ \A i \in DOMAIN queue : i \in DOMAIN queue' /\ queue'[i] = queue[i]
      /\ queue'[Len(queue) + 1] = m
  BY <1>1, AppendToQueue DEF Enqueue, TypeOK
<1>3. Len(queue) + 1 \in DOMAIN queue'
  BY <1>2
<1>4. Queued(m)' /\ \A n \in Messages : Queued(n) => Queued(n)'
  BY <1>2, <1>3 DEF Queued
<1>5. OwnRows'
  BY DEF OwnRows, Enqueue
<1>6. RowsHeld
  BY DEF RowsHeld, OnRow, Enqueue
<1>7. MessagesKept
  BY <1>1, <1>4 DEF MessagesKept, InCare, Enqueue, Settled, TypeOK
<1>8. QED
  BY <1>5, <1>6, <1>7 DEF GoodStep

LEMMA StopKeepsRows ==
  ASSUME QueueInv, OwnRows, Stop
  PROVE  GoodStep
<1> USE DEF worker, counts
<1>1. TypeOK
  BY DEF QueueInv
<1>2. \A n \in Messages : Queued(n) => Queued(n)'
  <2>1. queue \in Seq(Messages \cup {Empty}) /\ queue' \in Seq(Messages \cup {Empty})
    BY <1>1, StopTail DEF TypeOK, Stop
  <2>2. Len(queue') = Len(queue) + Cardinality(Workers)
    BY <1>1, StopTail DEF Stop
  <2>3. \A i \in DOMAIN queue : i \in DOMAIN queue'
    <3> DEFINE k == Len(queue)
               n == Cardinality(Workers)
    <3>1. k \in Nat /\ n \in Nat /\ DOMAIN queue = 1..k /\ DOMAIN queue' = 1..(k + n)
      BY <2>1, <2>2, WorkerCount
    <3> HIDE DEF k, n
    <3>2. QED
      BY <3>1
  <2>4. \A i \in DOMAIN queue : queue'[i] = queue[i]
    BY <1>1, <2>3, StopTail DEF Stop
  <2>5. QED
    BY <2>3, <2>4 DEF Queued
<1>3. OwnRows'
  BY DEF OwnRows, Stop
<1>4. RowsHeld
  BY DEF RowsHeld, OnRow, Stop
<1>5. MessagesKept
  BY <1>1, <1>2 DEF MessagesKept, InCare, Stop, Settled, TypeOK
<1>6. QED
  BY <1>3, <1>4, <1>5 DEF GoodStep

LEMMA RestartKeepsRows ==
  ASSUME QueueInv, OwnRows, Restart
  PROVE  GoodStep
<1>1. OwnRows'
  BY DEF Restart, Started, OwnRows, Recorded
<1>2. QED
  BY <1>1 DEF GoodStep, RowsHeld, MessagesKept

-----------------------------------------------------------------------------
(* The steps of a worker *)

LEMMA DiesKeepsRows ==
  ASSUME QueueInv, OwnRows, NEW w \in Workers, Dies(w)
  PROVE  GoodStep
<1>1. TypeOK
  BY DEF QueueInv
<1>2. UNCHANGED <<queue, events, submitted>>
  BY DEF Dies
<1>3. /\ pc'[w] = "dead" /\ job'[w] = Empty /\ event'[w] = 0
      /\ \A v \in Workers \ {w} :
           pc'[v] = pc[v] /\ job'[v] = job[v] /\ event'[v] = event[v]
  BY <1>1, ReleaseTypes DEF Dies, Ended
<1>4. OwnRows'
  <2>1. \A v \in Workers : pc[v] \in Recorded => event[v] # 0
    BY <1>1 DEF QueueInv, InHand, TypeOK
  <2>2. "dead" \notin Carrying \cup Recorded
    BY DEF Carrying, Recorded
  <2>3. QED
    BY <1>3, <2>1, <2>2 DEF OwnRows, Dies
<1>5. MessagesKept
  <2> SUFFICES ASSUME NEW n \in submitted, InCare(n), job[w] # n
               PROVE  InCare(n)'
    BY <1>2 DEF MessagesKept
  <2>1. CASE Queued(n) \/ Settled(n)
    BY <1>2, <2>1 DEF InCare, Queued, Settled
  <2>2. ASSUME NEW v \in Workers, job[v] = n, pc[v] # "cancelling"
        PROVE  InCare(n)'
    BY <1>3, <2>2 DEF InCare
  <2>3. QED
    BY <2>1, <2>2 DEF InCare
<1>6. RowsHeld
  <2> SUFFICES ASSUME NEW i \in DOMAIN events, OnRow(i), event[w] # i
               PROVE  OnRow(i)'
    BY <1>2 DEF RowsHeld
  <2>1. QED
    BY <1>3 DEF OnRow
<1>7. QED
  BY <1>4, <1>5, <1>6 DEF GoodStep

\* A worker that goes on with its message and its row.
LEMMA GotoKeepsRows ==
  ASSUME QueueInv, OwnRows, NEW w \in Workers,
         pc[w] \in Recorded \ {"cancelling"}, NEW p \in Recorded \ {"cancelling"},
         Goto(w, p), UNCHANGED <<events, queue, submitted>>
  PROVE  GoodStep
<1>1. TypeOK
  BY DEF QueueInv
<1>2. /\ job' = job /\ event' = event
      /\ pc'[w] = p /\ \A v \in Workers \ {w} : pc'[v] = pc[v]
  BY <1>1, GotoTypes DEF Recorded, Running
<1>3. OwnRows'
  BY <1>2 DEF OwnRows
<1>4. RowsHeld
  BY <1>2 DEF RowsHeld, OnRow
<1>5. MessagesKept
  <2>1. \A v \in Workers : pc[v] # "cancelling" => pc'[v] # "cancelling"
    BY <1>2
  <2>2. \A m \in Messages : Queued(m)' = Queued(m) /\ Settled(m)' = Settled(m)
    BY DEF Queued, Settled
  <2>3. QED
    BY <1>1, <1>2, <2>1, <2>2 DEF MessagesKept, InCare, TypeOK
<1>6. QED
  BY <1>3, <1>4, <1>5 DEF GoodStep

LEMMA SendKeepsRows ==
  ASSUME QueueInv, OwnRows, NEW w \in Workers,
         \/ SendReturns(w) \/ SendRaises(w) \/ SendRetryAfter(w) \/ SendForbidden(w)
         \/ MarkBlocked(w) \/ FinalizeSentRaises(w) \/ RefreshEvent(w)
  PROVE  GoodStep
<1>1. CASE SendReturns(w)
  BY <1>1, GotoKeepsRows DEF SendReturns, Recorded
<1>2. CASE SendRaises(w)
  BY <1>2, GotoKeepsRows DEF SendRaises, Recorded
<1>3. CASE SendRetryAfter(w)
  BY <1>3, GotoKeepsRows DEF SendRetryAfter, Recorded
<1>4. CASE SendForbidden(w)
  BY <1>4, GotoKeepsRows DEF SendForbidden, Recorded
<1>5. CASE MarkBlocked(w)
  BY <1>5, GotoKeepsRows DEF MarkBlocked, Recorded
<1>6. CASE FinalizeSentRaises(w)
  BY <1>6, GotoKeepsRows DEF FinalizeSentRaises, Recorded
<1>7. CASE RefreshEvent(w)
  BY <1>7, GotoKeepsRows DEF RefreshEvent, Recorded
<1>8. QED
  BY <1>1, <1>2, <1>3, <1>4, <1>5, <1>6, <1>7

LEMMA RequeueKeepsRows ==
  ASSUME QueueInv, OwnRows, NEW w \in Workers, Requeue(w)
  PROVE  GoodStep
<1> USE DEF worker, counts
<1>1. TypeOK /\ job[w] \in Messages /\ pc[w] \in Recorded
  BY DEF QueueInv, InHand, Carrying, Recorded, Requeue
<1>m. PICK m \in Messages : m = job[w]
  BY <1>1
<1>2. /\ DOMAIN queue' = 1..(Len(queue) + 1) /\ Len(queue) \in Nat
      /\ \A i \in DOMAIN queue : i \in DOMAIN queue' /\ queue'[i] = queue[i]
      /\ queue'[Len(queue) + 1] = m
  BY <1>m, <1>1, AppendToQueue DEF Requeue, TypeOK
<1>3. Len(queue) + 1 \in DOMAIN queue'
  BY <1>2
<1>4. Queued(m)' /\ \A n \in Messages : Queued(n) => Queued(n)'
  BY <1>2, <1>3 DEF Queued
<1>5. /\ job' = job /\ event' = event /\ pc'[w] = "cancelling"
      /\ \A v \in Workers \ {w} : pc'[v] = pc[v]
  BY <1>1, GotoTypes DEF Requeue, Running
<1>6. OwnRows'
  <2>1. "cancelling" \in Recorded
    BY DEF Recorded
  <2>2. QED
    BY <1>1, <1>5, <2>1 DEF OwnRows, Requeue
<1>7. RowsHeld
  BY <1>5 DEF RowsHeld, OnRow, Requeue
<1>8. MessagesKept
  <2> SUFFICES ASSUME NEW n \in submitted, InCare(n)
               PROVE  InCare(n)'
    BY DEF MessagesKept, Requeue
  <2> USE DEF InCare
  <2>1. Queued(n) \/ Settled(n) \/ \E v \in Workers : job[v] = n /\ pc[v] # "cancelling"
    OBVIOUS
  <2>2. n \in Messages
    BY <1>1 DEF TypeOK
  <2>3. CASE n = m
    BY <1>4, <2>3
  <2>4. CASE n # m
    <3>1. CASE Queued(n) \/ Settled(n)
      BY <1>4, <2>2, <3>1 DEF Settled, Requeue
    <3>2. ASSUME NEW v \in Workers, job[v] = n, pc[v] # "cancelling"
          PROVE  job'[v] = n /\ pc'[v] # "cancelling"
      BY <1>m, <1>5, <2>4, <3>2
    <3>3. QED
      BY <2>1, <3>1, <3>2
  <2>5. QED
    BY <2>3, <2>4
<1>9. QED
  BY <1>6, <1>7, <1>8 DEF GoodStep

LEMMA CreateEventKeepsRows ==
  ASSUME QueueInv, OwnRows, NEW w \in Workers, CreateEvent(w)
  PROVE  GoodStep
<1> USE DEF worker, counts
<1>1. TypeOK /\ job[w] \in Messages
  BY DEF QueueInv, InHand, Carrying, CreateEvent
<1>2. Len(events) \in Nat /\ DOMAIN events = 1..Len(events)
  BY <1>1 DEF TypeOK
<1>3. PICK e \in [message : Messages, status : EventStatus] :
        e = [message |-> job[w], status |-> "pending"]
  BY <1>1 DEF EventStatus
<1>4. PICK k \in Nat : k = Len(events) + 1
  BY <1>2
<1>5. /\ DOMAIN events' = 1..k /\ events'[k] = e
      /\ \A i \in DOMAIN events : i \in DOMAIN events' /\ events'[i] = events[i] /\ i # k
  BY <1>1, <1>2, <1>3, <1>4, AppendToEvents DEF CreateEvent
<1>6. \A i \in DOMAIN events' : i \in DOMAIN events \/ i = k
  BY <1>2, <1>4, <1>5
<1>7. /\ pc'[w] = "refreshing" /\ event'[w] = k /\ job' = job
      /\ \A v \in Workers \ {w} : pc'[v] = pc[v] /\ event'[v] = event[v]
  BY <1>1, <1>4 DEF TypeOK, CreateEvent
<1>8. event[w] = 0 /\ pc[w] = "creating" /\ k # 0
  BY <1>2, <1>4 DEF OwnRows, CreateEvent, Recorded
<1>9. OwnRows'
  <2>1. ASSUME NEW v \in Workers \ {w}
        PROVE  event[v] # k /\ (pc[v] \in Recorded => event[v] \in DOMAIN events)
    BY <1>2, <1>5, <1>8 DEF OwnRows, QueueInv, InHand
  <2>2. ASSUME NEW v \in Workers \ {w}
        PROVE  /\ pc'[v] \notin Recorded => event'[v] = 0
               /\ pc'[v] \notin Carrying \cup Recorded => job'[v] = Empty
               /\ pc'[v] \in Recorded =>
                    /\ events'[event'[v]].status = "pending"
                    /\ \A u \in Workers \ {v} : event'[u] # event'[v]
    BY <1>5, <1>7, <2>1 DEF OwnRows
  <2>3. "refreshing" \in Recorded
    BY DEF Recorded
  <2>4. events'[k].status = "pending"
    BY <1>3, <1>5
  <2>5. QED
    BY <1>7, <2>1, <2>2, <2>3, <2>4 DEF OwnRows
<1>10. RowsHeld
  <2> SUFFICES ASSUME NEW i \in DOMAIN events', i \in DOMAIN events => OnRow(i)
               PROVE  \E v \in Workers : event'[v] = i
    BY DEF RowsHeld, OnRow
  <2>1. CASE i = k
    BY <1>7, <2>1
  <2>2. CASE i # k
    <3>1. i \in DOMAIN events
      BY <1>6, <2>2
    <3>2. PICK v \in Workers : event[v] = i
      BY <3>1 DEF OnRow
    <3>3. v # w
      BY <1>2, <1>8, <3>1, <3>2
    <3>4. QED
      BY <1>7, <3>2, <3>3
  <2>3. QED
    BY <2>1, <2>2
<1>11. MessagesKept
  <2>1. \A m \in Messages : Queued(m)' = Queued(m) /\ (Settled(m) => Settled(m)')
    BY <1>5 DEF Queued, Settled, CreateEvent
  <2>2. \A v \in Workers : pc[v] # "cancelling" => pc'[v] # "cancelling"
    BY <1>7
  <2>3. QED
    BY <1>1, <1>7, <2>1, <2>2 DEF MessagesKept, InCare, CreateEvent, TypeOK
<1>12. QED
  BY <1>9, <1>10, <1>11 DEF GoodStep

LEMMA TakeKeepsRows ==
  ASSUME QueueInv, OwnRows, NEW w \in Workers, Take(w)
  PROVE  GoodStep
<1> USE DEF worker, counts
<1>1. TypeOK /\ pc[w] \notin Carrying \cup Recorded /\ event[w] = 0 /\ job[w] = Empty
  BY DEF QueueInv, OwnRows, Take, Carrying, Recorded
<1>2. /\ Head(queue) = queue[1] /\ 1 \in DOMAIN queue
      /\ DOMAIN queue' = 1..(Len(queue) - 1) /\ DOMAIN queue = 1..Len(queue)
      /\ Len(queue) \in Nat
      /\ \A i \in DOMAIN queue' : queue'[i] = queue[i + 1]
  BY <1>1 DEF Take, TypeOK
<1>3. PICK m \in Messages \cup {Empty} : m = queue[1]
  BY <1>1, <1>2 DEF TypeOK
<1>4. \A n \in Messages \ {m} : Queued(n) => Queued(n)'
  <2> SUFFICES ASSUME NEW n \in Messages \ {m}, NEW i \in DOMAIN queue, queue[i] = n
               PROVE  Queued(n)'
    BY DEF Queued
  <2>1. i # 1
    BY <1>3
  <2>2. i - 1 \in DOMAIN queue' /\ (i - 1) + 1 = i
    BY <1>2, <2>1
  <2>3. queue'[i - 1] = n
    BY <1>2, <2>2
  <2>4. QED
    BY <2>2, <2>3 DEF Queued
<1>5. PICK p \in {"creating", "done"} :
        /\ pc'[w] = p /\ event' = event
        /\ p = "creating" <=> m # Empty
        /\ job'[w] = m
        /\ \A v \in Workers \ {w} : pc'[v] = pc[v] /\ job'[v] = job[v]
  <2>1. CASE m = Empty
    <3>1. Release(w, "done")
      BY <1>2, <1>3, <2>1 DEF Take
    <3>2. event' = event
      BY <1>1, <3>1 DEF Release, TypeOK
    <3>3. QED
      BY <1>1, <2>1, <3>1, <3>2, ReleaseTypes DEF Ended
  <2>2. CASE m # Empty
    BY <1>1, <1>2, <1>3, <2>2 DEF Take, TypeOK
  <2>3. QED
    BY <2>1, <2>2
<1>6. OwnRows'
  <2>1. p \notin Recorded /\ (p \notin Carrying => m = Empty)
    BY <1>5 DEF Recorded, Carrying
  <2>2. QED
    BY <1>1, <1>5, <2>1 DEF OwnRows, Take
<1>7. RowsHeld
  BY <1>5 DEF RowsHeld, OnRow, Take
<1>8. MessagesKept
  <2> SUFFICES ASSUME NEW n \in submitted, InCare(n)
               PROVE  InCare(n)'
    BY DEF MessagesKept, Take
  <2> USE DEF InCare
  <2>1. Queued(n) \/ Settled(n) \/ \E v \in Workers : job[v] = n /\ pc[v] # "cancelling"
    OBVIOUS
  <2>2. n \in Messages
    BY <1>1 DEF TypeOK
  <2>3. CASE n = m
    BY <1>5, <2>3
  <2>4. CASE n # m
    <3>1. CASE Queued(n) \/ Settled(n)
      BY <1>4, <2>2, <2>4, <3>1 DEF Settled, Take
    <3>2. ASSUME NEW v \in Workers, job[v] = n, pc[v] # "cancelling"
          PROVE  job'[v] = n /\ pc'[v] # "cancelling"
      BY <1>1, <1>5, <2>2, <3>2, EmptyAssumption
    <3>3. QED
      BY <2>1, <3>1, <3>2
  <2>5. QED
    BY <2>3, <2>4
<1>9. QED
  BY <1>6, <1>7, <1>8 DEF GoodStep

LEMMA FinalizeKeepsRows ==
  ASSUME QueueInv, OwnRows, NEW w \in Workers,
         FinalizeSent(w) \/ FinalizeCancelled(w) \/ FinalizeFailed(w)
  PROVE  GoodStep
<1> USE DEF worker, counts
<1>1. TypeOK
  BY DEF QueueInv
<1>2. PICK at \in {"confirming", "cancelling", "failing"}, status \in EventStatus :
        /\ Finalize(w, at, status) /\ status # "pending"
        /\ at = "cancelling" \/ status \in {"sent", "failed"}
  BY DEF FinalizeSent, FinalizeCancelled, FinalizeFailed, EventStatus
<1>3. PICK k \in DOMAIN events : k = event[w]
  BY <1>2 DEF QueueInv, InHand, Recorded, Finalize
<1>4. pc[w] = at /\ events[k].message = job[w] /\ events[k].status = "pending"
      /\ \A v \in Workers \ {w} : event[v] # k
  BY <1>2, <1>3 DEF QueueInv, InHand, OwnRows, Recorded, Finalize
<1>5. /\ DOMAIN events' = DOMAIN events
      /\ \A i \in DOMAIN events : events'[i].message = events[i].message
      /\ \A i \in DOMAIN events :
           events'[i].status = IF i = k THEN status ELSE events[i].status
  BY <1>1, <1>2, <1>3, StatusOfEvent DEF Finalize
<1>6. PICK p \in {"idle", "done"} : Release(w, p)
  BY <1>2 DEF Finalize, LoopAgain
<1>7. /\ pc'[w] = p /\ job'[w] = Empty /\ event'[w] = 0
      /\ \A v \in Workers \ {w} :
           pc'[v] = pc[v] /\ job'[v] = job[v] /\ event'[v] = event[v]
  BY <1>1, <1>6, ReleaseTypes DEF Running, Ended
<1>8. OwnRows'
  <2>1. p \notin Carrying \cup Recorded
    BY DEF Carrying, Recorded
  <2>2. ASSUME NEW v \in Workers, pc[v] \in Recorded
        PROVE  event[v] \in DOMAIN events /\ event[v] # 0
    BY <1>1, <2>2 DEF QueueInv, InHand, TypeOK
  <2>3. QED
    BY <1>4, <1>5, <1>7, <2>1, <2>2 DEF OwnRows
<1>9. RowsHeld
  <2> SUFFICES ASSUME NEW i \in DOMAIN events, OnRow(i), events'[i].status = "pending"
               PROVE  \E v \in Workers : event'[v] = i
    BY <1>5 DEF RowsHeld, OnRow
  <2>1. i # k
    BY <1>2, <1>5
  <2>2. PICK v \in Workers : event[v] = i
    BY DEF OnRow
  <2>3. QED
    BY <1>3, <1>7, <2>1, <2>2
<1>10. MessagesKept
  <2> SUFFICES ASSUME NEW n \in submitted, InCare(n)
               PROVE  InCare(n)'
    BY <1>2 DEF MessagesKept, Finalize
  <2> USE DEF InCare
  <2>1. Queued(n) \/ Settled(n) \/ \E v \in Workers : job[v] = n /\ pc[v] # "cancelling"
    OBVIOUS
  <2>2. CASE Queued(n)
    BY <1>2, <2>2 DEF Queued, Finalize
  <2>3. CASE Settled(n)
    <3>1. PICK i \in DOMAIN events : events[i].message = n /\ events[i].status \in {"sent", "failed"}
      BY <2>3 DEF Settled
    <3>2. i # k
      BY <1>4, <3>1
    <3>3. QED
      BY <1>5, <3>1, <3>2 DEF Settled
  <2>4. ASSUME NEW v \in Workers, job[v] = n, pc[v] # "cancelling"
        PROVE  Settled(n)' \/ (job'[v] = n /\ pc'[v] # "cancelling")
    <3>1. CASE v = w
      <4>1. status \in {"sent", "failed"} /\ events[k].message = n
        BY <1>2, <1>4, <2>4, <3>1
      <4>2. QED
        BY <1>5, <4>1 DEF Settled
    <3>2. CASE v # w
      BY <1>7, <2>4, <3>2
    <3>3. QED
      BY <3>1, <3>2
  <2>5. QED
    BY <2>1, <2>2, <2>3, <2>4
<1>11. QED
  BY <1>8, <1>9, <1>10 DEF GoodStep

-----------------------------------------------------------------------------
(* The theorems *)

LEMMA RowsStep ==
  ASSUME QueueInv, OwnRows, Next
  PROVE  GoodStep
<1>1. CASE \E m \in Messages : Enqueue(m)
  BY <1>1, EnqueueKeepsRows
<1>2. CASE Stop
  BY <1>2, StopKeepsRows
<1>3. CASE Restart
  BY <1>3, RestartKeepsRows
<1>4. ASSUME NEW w \in Workers, Work(w)
      PROVE  GoodStep
  <2>1. CASE Take(w)
    BY <2>1, TakeKeepsRows
  <2>2. CASE CreateEvent(w)
    BY <2>2, CreateEventKeepsRows
  <2>3. CASE CreateEventRaises(w) \/ HandlerRaises(w)
    BY <2>3, DiesKeepsRows DEF CreateEventRaises, HandlerRaises
  <2>4. CASE \/ SendReturns(w) \/ SendRaises(w) \/ SendRetryAfter(w) \/ SendForbidden(w)
             \/ MarkBlocked(w) \/ FinalizeSentRaises(w) \/ RefreshEvent(w)
    BY <2>4, SendKeepsRows
  <2>5. CASE Requeue(w)
    BY <2>5, RequeueKeepsRows
  <2>6. CASE FinalizeSent(w) \/ FinalizeCancelled(w) \/ FinalizeFailed(w)
    BY <2>6, FinalizeKeepsRows
  <2>7. QED
    BY <1>4, <2>1, <2>2, <2>3, <2>4, <2>5, <2>6 DEF Work
<1>5. QED
  BY <1>1, <1>2, <1>3, <1>4 DEF Next

LEMMA RowsInvariance == Spec => [](QueueInv /\ OwnRows)
<1>1. Init => OwnRows
  BY DEF Init, OwnRows, Recorded
<1>2. QueueInv /\ OwnRows /\ [Next]_vars => OwnRows'
  <2>1. UNCHANGED vars /\ OwnRows => OwnRows'
    BY DEF vars, worker, OwnRows
  <2>2. QED
    BY <2>1, RowsStep DEF GoodStep
<1>3. QED
  BY <1>1, <1>2, QueueInvariance, PTL DEF Spec

\* Whatever Telegram answers, whatever fails under other workers and however
\* stop() comes between: a message is lost only by the failed transaction of
\* the worker that holds it, or with the process.
THEOREM MessagesAreKept == Spec => NothingLost
<1>1. QueueInv /\ OwnRows /\ [Next]_vars => [MessagesKept]_vars
  BY RowsStep DEF GoodStep
<1>2. QED
  BY <1>1, RowsInvariance, PTL DEF Spec, NothingLost, MessagesKept

\* Likewise, no row stays PENDING behind the worker that has created it.
THEOREM PendingRowsAreHeld == Spec => PendingIsInHand
<1>1. QueueInv /\ OwnRows /\ [Next]_vars => [RowsHeld]_vars
  BY RowsStep DEF GoodStep
<1>2. QED
  BY <1>1, RowsInvariance, PTL DEF Spec, PendingIsInHand, RowsHeld

-----------------------------------------------------------------------------
(* Why stop() returns, as far as safety can say *)

LEMMA TheseAreCounted ==
  ASSUME NEW q \in Seq(Messages \cup {Empty}), NEW at
  PROVE  LET S == {i \in DOMAIN q : q[i] = Empty}
             W == {w \in Workers : at[w] = "idle"}
         IN  /\ IsFiniteSet(S) /\ Cardinality(S) \in Nat
             /\ IsFiniteSet(W) /\ Cardinality(W) \in Nat
             /\ Cardinality(W) <= Cardinality(Workers)
<1> DEFINE S == {i \in DOMAIN q : q[i] = Empty}
           W == {w \in Workers : at[w] = "idle"}
<1>1. S \in SUBSET (1..Len(q)) /\ W \in SUBSET Workers /\ Len(q) \in Nat
  OBVIOUS
<1> HIDE DEF S, W
<1>2. IsFiniteSet(1..Len(q))
  BY <1>1, FS_Interval
<1>3. IsFiniteSet(S) /\ IsFiniteSet(W) /\ Cardinality(W) <= Cardinality(Workers)
  BY <1>1, <1>2, FS_Subset, WorkersAssumption
<1>4. Cardinality(S) \in Nat /\ Cardinality(W) \in Nat
  BY <1>3, FS_CardinalityType
<1>5. QED
  BY <1>3, <1>4 DEF S, W

LEMMA WaitingAreCounted ==
  ASSUME TypeOK
  PROVE  /\ IsFiniteSet(Sentinels) /\ Cardinality(Sentinels) \in Nat
         /\ IsFiniteSet(Waiting) /\ Cardinality(Waiting) \in Nat
         /\ Cardinality(Waiting) <= Cardinality(Workers)
BY TheseAreCounted DEF TypeOK, Sentinels, Waiting

LEMMA WaitingStayCounted ==
  ASSUME TypeOK'
  PROVE  /\ IsFiniteSet(Sentinels') /\ Cardinality(Sentinels') \in Nat
         /\ IsFiniteSet(Waiting') /\ Cardinality(Waiting') \in Nat
BY TheseAreCounted DEF TypeOK, Sentinels, Waiting

LEMMA StopSuffices ==
  ASSUME TypeOK, TypeOK', Stop
  PROVE  EnoughToLeaveBy'
<1>1. /\ Len(queue') = Len(queue) + Cardinality(Workers)
      /\ \A i \in DOMAIN queue' :
           IF i \in DOMAIN queue THEN queue'[i] = queue[i] ELSE queue'[i] = Empty
  BY StopTail DEF Stop
<1>2. PICK k \in Nat : k = Len(queue)
  BY DEF TypeOK
<1>3. PICK n \in Nat : n = Cardinality(Workers)
  BY WorkerCount
<1>4. DOMAIN queue = 1..k /\ DOMAIN queue' = 1..(k + n)
  BY <1>1, <1>2, <1>3 DEF TypeOK
<1>5. (k + 1)..(k + n) \in SUBSET Sentinels'
  <2> SUFFICES ASSUME NEW i \in (k + 1)..(k + n)
               PROVE  i \in DOMAIN queue' /\ queue'[i] = Empty
    BY DEF Sentinels
  <2>1. i \in 1..(k + n) /\ i \notin 1..k
    OBVIOUS
  <2>2. QED
    BY <1>1, <1>4, <2>1
<1>6. Cardinality((k + 1)..(k + n)) = n
  BY FS_Interval
<1>7. IsFiniteSet(Sentinels') /\ Cardinality(Sentinels') \in Nat
  BY WaitingStayCounted
<1>8. n <= Cardinality(Sentinels')
  BY <1>5, <1>6, <1>7, FS_Subset
<1>9. Waiting' = Waiting
  BY DEF Waiting, Stop, worker
<1>10. Cardinality(Waiting') <= n
  BY <1>3, <1>9, WaitingAreCounted
<1>11. PICK a \in Nat : a = Cardinality(Waiting')
  BY <1>9, WaitingAreCounted
<1>12. PICK b \in Nat : b = Cardinality(Sentinels')
  BY <1>7
<1>13. a <= b
  BY <1>8, <1>10, <1>11, <1>12
<1>14. QED
  BY <1>11, <1>12, <1>13 DEF EnoughToLeaveBy

\* A worker that takes a message stops waiting, and takes at most one of the
\* empty ones.
LEMMA TakeLeavesEnough ==
  ASSUME TypeOK, TypeOK', EnoughToLeaveBy, stopping, NEW w \in Workers, Take(w)
  PROVE  EnoughToLeaveBy'
<1>1. Waiting' = Waiting \ {w} /\ w \in Waiting
  <2>1. pc'[w] # "idle" /\ \A v \in Workers \ {w} : pc'[v] = pc[v]
    BY DEF TypeOK, Take, Release
  <2>2. QED
    BY <2>1 DEF Waiting, Take
<1>2. /\ 1 \in DOMAIN queue /\ DOMAIN queue = 1..Len(queue) /\ Len(queue) \in Nat
      /\ DOMAIN queue' = 1..(Len(queue) - 1)
      /\ \A i \in DOMAIN queue' : queue'[i] = queue[i + 1]
  BY TailOfQueue DEF Take, TypeOK
<1> DEFINE Rest  == Sentinels \ {1}
           shift == [i \in Rest |-> i - 1]
<1>3. ASSUME NEW i \in Rest
      PROVE  i - 1 \in Sentinels' /\ i \in Nat
  <2>1. i \in 1..Len(queue) /\ i # 1 /\ queue[i] = Empty
    BY <1>2 DEF Sentinels
  <2>2. i - 1 \in 1..(Len(queue) - 1) /\ (i - 1) + 1 = i
    BY <1>2, <2>1
  <2>3. QED
    BY <1>2, <2>1, <2>2 DEF Sentinels
<1>4. shift \in Injection(Rest, Sentinels')
  <2>1. shift \in [Rest -> Sentinels']
    BY <1>3
  <2>2. \A i, j \in Rest : shift[i] = shift[j] => i = j
    BY <1>3
  <2>3. QED
    BY <2>1, <2>2 DEF Injection, IsInjective
<1>5. PICK a \in Nat : a = Cardinality(Waiting)
  BY WaitingAreCounted
<1>6. PICK b \in Nat : b = Cardinality(Sentinels)
  BY WaitingAreCounted
<1>7. PICK c \in Nat : c = Cardinality(Sentinels')
  BY WaitingStayCounted
<1>8. Cardinality(Waiting') = a - 1
  BY <1>1, <1>5, WaitingAreCounted, FS_RemoveElement
<1>9. Cardinality(Rest) = b - 1 \/ Cardinality(Rest) = b
  BY <1>6, WaitingAreCounted, FS_RemoveElement
<1>10. Cardinality(Rest) <= c
  BY <1>4, <1>7, WaitingStayCounted, FS_Injection
<1>11. a <= b
  BY <1>5, <1>6 DEF EnoughToLeaveBy
<1>12. a - 1 <= c
  BY <1>9, <1>10, <1>11
<1>13. QED
  BY <1>7, <1>8, <1>12 DEF EnoughToLeaveBy

\* Nobody begins to wait, and no empty message goes.
LEMMA OthersLeaveEnough ==
  ASSUME TypeOK, TypeOK', EnoughToLeaveBy, stopping,
         Waiting' \subseteq Waiting, Sentinels \subseteq Sentinels'
  PROVE  EnoughToLeaveBy'
<1>1. PICK a \in Nat : a = Cardinality(Waiting)
  BY WaitingAreCounted
<1>2. PICK b \in Nat : b = Cardinality(Sentinels)
  BY WaitingAreCounted
<1>3. PICK c \in Nat : c = Cardinality(Sentinels')
  BY WaitingStayCounted
<1>4. PICK d \in Nat : d = Cardinality(Waiting')
  BY WaitingStayCounted
<1>5. d <= a
  BY <1>1, <1>4, WaitingAreCounted, FS_Subset
<1>6. b <= c
  BY <1>2, <1>3, WaitingStayCounted, FS_Subset
<1>7. a <= b
  BY <1>1, <1>2 DEF EnoughToLeaveBy
<1>8. d <= c
  BY <1>5, <1>6, <1>7
<1>9. QED
  BY <1>3, <1>4, <1>8 DEF EnoughToLeaveBy

\* Where each step of a worker leads, and what else it moves.
LEMMA WorkLeadsOn ==
  ASSUME TypeOK, stopping, NEW w \in Workers, Work(w)
  PROVE  /\ StepsLeft[pc'[w]] < StepsLeft[pc[w]]
         /\ \A v \in Workers \ {w} : pc'[v] = pc[v]
         /\ pc'[w] # "idle" /\ stopping' = stopping
<1> USE DEF StepsLeft, Running, Ended, TypeOK
<1>1. CASE Take(w)
  BY <1>1 DEF Take, Release
<1>2. CASE CreateEvent(w)
  BY <1>2 DEF CreateEvent
<1>3. CASE CreateEventRaises(w)
  BY <1>3 DEF CreateEventRaises, Dies, Release
<1>4. CASE SendReturns(w)
  BY <1>4 DEF SendReturns, Goto
<1>5. CASE SendRaises(w)
  BY <1>5 DEF SendRaises, Goto
<1>6. CASE SendRetryAfter(w)
  BY <1>6 DEF SendRetryAfter, Goto
<1>7. CASE SendForbidden(w)
  BY <1>7 DEF SendForbidden, Goto
<1>8. CASE Requeue(w)
  BY <1>8 DEF Requeue, Goto
<1>9. CASE MarkBlocked(w)
  BY <1>9 DEF MarkBlocked, Goto
<1>10. CASE FinalizeSent(w)
  BY <1>10 DEF FinalizeSent, Finalize, LoopAgain, Release
<1>11. CASE FinalizeCancelled(w)
  BY <1>11 DEF FinalizeCancelled, Finalize, LoopAgain, Release
<1>12. CASE FinalizeFailed(w)
  BY <1>12 DEF FinalizeFailed, Finalize, LoopAgain, Release
<1>13. CASE FinalizeSentRaises(w)
  BY <1>13 DEF FinalizeSentRaises, Goto
<1>14. CASE HandlerRaises(w)
  BY <1>14 DEF HandlerRaises, Dies, Release
<1>15. CASE RefreshEvent(w)
  BY <1>15 DEF RefreshEvent, Goto
<1>16. QED
  BY <1>1, <1>2, <1>3, <1>4, <1>5, <1>6, <1>7, <1>8, <1>9, <1>10, <1>11, <1>12,
     <1>13, <1>14, <1>15, Zenon DEF Work

\* No step of a worker but Take takes anything out of the queue.
LEMMA SentinelsStay ==
  ASSUME QueueInv, NEW w \in Workers, Work(w), ~Take(w)
  PROVE  Sentinels \subseteq Sentinels'
<1>1. TypeOK
  BY DEF QueueInv
<1>2. CASE Requeue(w)
  <2>1. job[w] \in Messages
    BY <1>2 DEF QueueInv, InHand, Requeue, Carrying
  <2>2. PICK m \in Messages : m = job[w]
    BY <2>1
  <2>3. \A i \in DOMAIN queue : i \in DOMAIN queue' /\ queue'[i] = queue[i]
    BY <1>1, <1>2, <2>2, AppendToQueue DEF Requeue
  <2>4. QED
    BY <2>3 DEF Sentinels
<1>3. CASE ~Requeue(w)
  <2>1. queue' = queue
    BY <1>3 DEF Work, CreateEvent, RefreshEvent, CreateEventRaises, SendReturns, SendRaises,
         SendRetryAfter, SendForbidden, MarkBlocked, FinalizeSent, FinalizeCancelled,
         FinalizeFailed, Finalize, FinalizeSentRaises, HandlerRaises, Dies
  <2>2. QED
    BY <2>1 DEF Sentinels
<1>4. QED
  BY <1>2, <1>3

LEMMA EnoughStay ==
  ASSUME QueueInv, QueueInv', EnoughToLeaveBy, Next
  PROVE  EnoughToLeaveBy'
<1>1. TypeOK /\ TypeOK'
  BY DEF QueueInv
<1>2. CASE (\E m \in Messages : Enqueue(m)) \/ Restart
  BY <1>2 DEF Enqueue, Restart, Started, EnoughToLeaveBy
<1>3. CASE Stop
  BY <1>1, <1>3, StopSuffices
<1>4. ASSUME NEW w \in Workers, Work(w)
      PROVE  EnoughToLeaveBy'
  <2>1. CASE ~stopping
    <3>1. stopping' = stopping
      BY <1>4, Zenon DEF Work, Take, CreateEvent, RefreshEvent, CreateEventRaises, SendReturns,
         SendRaises, SendRetryAfter, SendForbidden, Requeue, MarkBlocked, FinalizeSent,
         FinalizeCancelled, FinalizeFailed, Finalize, FinalizeSentRaises, HandlerRaises, Dies
    <3>2. QED
      BY <2>1, <3>1 DEF EnoughToLeaveBy
  <2>2. CASE stopping /\ Take(w)
    BY <1>1, <2>2, TakeLeavesEnough
  <2>3. CASE stopping /\ ~Take(w)
    <3>1. Waiting' \subseteq Waiting
      BY <1>1, <1>4, <2>3, WorkLeadsOn DEF Waiting
    <3>2. QED
      BY <1>1, <1>4, <2>3, <3>1, SentinelsStay, OthersLeaveEnough
  <2>4. QED
    BY <2>1, <2>2, <2>3
<1>5. QED
  BY <1>2, <1>3, <1>4 DEF Next

\* Whatever backlog there is when stop() is called, whoever has died and
\* whatever is put back later: no worker is left waiting for an empty message
\* that never comes.  Of StopReturns, this is what safety can say of queue.get().
THEOREM NobodyWaitsForEver == Spec => []NobodyIsStranded
<1>1. Init => EnoughToLeaveBy
  BY DEF Init, EnoughToLeaveBy
<1>2. QueueInv /\ QueueInv' /\ EnoughToLeaveBy /\ [Next]_vars => EnoughToLeaveBy'
  <2>1. UNCHANGED vars /\ EnoughToLeaveBy => EnoughToLeaveBy'
    BY DEF vars, worker, EnoughToLeaveBy, Waiting, Sentinels
  <2>2. QED
    BY <2>1, EnoughStay
<1>3. QueueInv /\ EnoughToLeaveBy => NobodyIsStranded
  <2> SUFFICES ASSUME TypeOK, EnoughToLeaveBy, stopping, Waiting # {}, queue = <<>>
               PROVE  FALSE
    BY DEF QueueInv, NobodyIsStranded
  <2>1. Sentinels = {}
    BY DEF Sentinels
  <2>2. Cardinality(Sentinels) = 0
    BY <2>1, FS_EmptySet
  <2>3. Cardinality(Waiting) # 0
    BY WaitingAreCounted, FS_EmptySet
  <2>4. QED
    BY <2>2, <2>3, WaitingAreCounted DEF EnoughToLeaveBy
<1>4. QED
  BY <1>1, <1>2, <1>3, QueueInvariance, PTL DEF Spec

\* After stop() every step of a worker brings it nearer to its end: at most
\* six are left to each, so that stop() returns if asyncio runs the workers.
THEOREM StopIsFinite == Spec => StoppingDescends
<1> DEFINE Descends ==
      stopping /\ stopping' =>
        \A w \in Workers :
          /\ StepsLeft[pc'[w]] <= StepsLeft[pc[w]]
          /\ Work(w) => StepsLeft[pc'[w]] < StepsLeft[pc[w]]
<1>1. TypeOK /\ TypeOK' /\ [Next]_vars => [Descends]_vars
  <2> SUFFICES ASSUME TypeOK, TypeOK', Next, stopping, stopping', NEW w \in Workers
               PROVE  /\ StepsLeft[pc'[w]] <= StepsLeft[pc[w]]
                      /\ Work(w) => StepsLeft[pc'[w]] < StepsLeft[pc[w]]
    OBVIOUS
  <2>1. \A p \in Running \cup Ended : StepsLeft[p] \in 0..6
    BY DEF StepsLeft, Running, Ended
  <2>2. StepsLeft[pc[w]] \in 0..6 /\ StepsLeft[pc'[w]] \in 0..6
    BY <2>1 DEF TypeOK
  <2>3. CASE \E v \in Workers : Work(v)
    <3>1. PICK v \in Workers : Work(v)
      BY <2>3
    <3>2. CASE v = w
      <4> DEFINE new == StepsLeft[pc'[w]]
                 old == StepsLeft[pc[w]]
      <4>1. new < old
        BY <3>1, <3>2, WorkLeadsOn
      <4>2. new \in 0..6 /\ old \in 0..6
        BY <2>2
      <4> HIDE DEF new, old
      <4>3. new <= old
        BY <4>1, <4>2
      <4>4. QED
        BY <4>1, <4>3 DEF new, old
    <3>3. CASE v # w
      BY <2>2, <3>1, <3>3, WorkLeadsOn
    <3>4. QED
      BY <3>2, <3>3
  <2>4. CASE ~\E v \in Workers : Work(v)
    <3>1. UNCHANGED pc
      BY <2>4 DEF Next, Enqueue, Stop, Restart, Started, worker
    <3>2. QED
      BY <2>2, <2>4, <3>1
  <2>5. QED
    BY <2>3, <2>4
<1>2. QED
  BY <1>1, QueueTypes, PTL DEF Spec, StoppingDescends
=============================================================================
