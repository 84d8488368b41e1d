----------------------- MODULE SerialBatchEventUploader -----------------------
(***************************************************************************)
(* The uploader of cli/transports/SerialBatchEventUploader.ts: one batch   *)
(* is sent at a time, a failed batch goes back to the front of the queue   *)
(* and is sent again, and an enqueue() that finds too little room waits.   *)
(* The operators below are the class's methods, cut where they await; the  *)
(* transport that owns the uploader makes actions of them.                 *)
(*                                                                         *)
(* log, seen and givenUp are not in the code: log is the order in which    *)
(* the server first receives the events, seen how many events at the front *)
(* of the backlog it has although their POST failed (the answer was lost), *)
(* givenUp the events the client stops trying to send.                     *)
(***************************************************************************)
EXTENDS Integers, Sequences, FiniteSets, Functions

CONSTANTS
  Events,
  Unserializable,   \* events JSON.stringify throws on
  Callers,          \* the calls that await enqueue() or flush()
  Nobody,           \* the caller of an enqueue() that nobody awaits
  Configurations,   \* pairs <<byteLimited, capped>>
  MaxBatchSize, MaxQueueSize,
  MaxFailures       \* maxConsecutiveFailures, where it is set

ASSUME UploaderAssumption ==
  /\ Unserializable \subseteq Events
  /\ Nobody \notin Callers
  /\ Configurations \subseteq BOOLEAN \X BOOLEAN
  /\ MaxBatchSize \in Nat \ {0}
  /\ MaxQueueSize \in Nat \ {0}
  /\ MaxFailures \in Nat \ {0}

VARIABLES
  byteLimited,   \* the configuration sets maxBatchBytes
  capped,        \* the configuration sets maxConsecutiveFailures
  pending,
  inflight,      \* the batch being sent
  phase,         \* where drain() is: "idle", "sending" or "sleeping"
  failures,      \* consecutive failures, counted only where they are capped
  closed,
  waiting,       \* backpressureResolvers: the enqueues waiting for room
  ready,         \* enqueues that were woken and have not looked again yet
  flushing,      \* flushResolvers: the calls waiting for an empty queue
  log, seen, givenUp

uploaderVars == <<byteLimited, capped, pending, inflight, phase, failures,
                  closed, waiting, ready, flushing, log, seen, givenUp>>

config == <<byteLimited, capped>>

\* What the uploader still holds, in the order in which it was accepted.
Backlog == inflight \o pending

Enqueues == [by : Callers \cup {Nobody}, items : Seq(Events)]

UploaderTypeOK ==
  /\ byteLimited \in BOOLEAN /\ capped \in BOOLEAN /\ closed \in BOOLEAN
  /\ pending \in Seq(Events) /\ inflight \in Seq(Events)
  /\ phase \in {"idle", "sending", "sleeping"}
  /\ failures \in 0..(MaxFailures - 1)
  /\ waiting \in Seq(Enqueues) /\ ready \in Seq(Enqueues)
  /\ flushing \subseteq Callers
  /\ log \in Seq(Events) /\ seen \in Nat /\ givenUp \subseteq Events

UploaderInit ==
  /\ \E c \in Configurations : byteLimited = c[1] /\ capped = c[2]
  /\ pending = <<>> /\ inflight = <<>> /\ phase = "idle" /\ failures = 0
  /\ closed = FALSE
  /\ waiting = <<>> /\ ready = <<>> /\ flushing = {}
  /\ log = <<>> /\ seen = 0 /\ givenUp = {}

-------------------------------------------------------------------------------
(* drain() *)

\* takeBatch() stops after the first cut items of queue, having taken n of
\* them: at maxBatchSize items, at the end, or, where bytes are limited, at
\* a later item that would make the batch too long.
StopsAt(queue, cut, n) ==
  /\ n <= MaxBatchSize
  /\ \/ n = MaxBatchSize
     \/ cut = Len(queue)
     \/ /\ byteLimited /\ n > 0 /\ cut < Len(queue)
        /\ queue[cut + 1] \notin Unserializable
  /\ byteLimited /\ n = MaxBatchSize => queue[cut] \notin Unserializable

\* takeBatch(): the items at the positions f of the first cut items of queue
\* become the batch.  Items that cannot be serialised are thrown away where
\* the bytes are counted, that is, where they are serialised.
TakeBatch(queue, cut, f) ==
  LET n == Len(inflight')
      bad == IF byteLimited THEN Unserializable ELSE {}
  IN /\ \A j, k \in 1..n : j < k => f[j] < f[k]
     /\ Range(f) = {i \in 1..cut : queue[i] \notin bad}
     /\ StopsAt(queue, cut, n)
     /\ pending' = SubSeq(queue, cut + 1, Len(queue))

\* The loop of drain(), from its head to the next await or to its end: it
\* ends when the queue is empty, also because a batch came out empty.
Drain(queue) ==
  \/ /\ queue = <<>> \/ closed
     /\ pending' = queue /\ inflight' = <<>> /\ phase' = "idle"
  \/ /\ queue # <<>> /\ ~closed
     /\ \E cut \in 1..Len(queue) : \E n \in 0..cut :
        \E f \in [1..n -> 1..cut] :
          /\ inflight' = [k \in 1..n |-> queue[f[k]]]
          /\ TakeBatch(queue, cut, f)
     /\ phase' = IF inflight' = <<>> THEN "idle" ELSE "sending"

\* A mutant of NotifyFlushes: a batch that is being sent is forgotten.
NotifyFlushesEarly(new) ==
  flushing' = IF pending' = <<>> THEN {} ELSE flushing \cup new

\* drain()'s finally block: the flushes return if the queue is empty.  A
\* flush() called in the same step returns at once in that case.
NotifyFlushes(new) ==
  flushing' = IF phase' = "idle" /\ pending' = <<>> THEN {} ELSE flushing \cup new

\* Events of a queue that a step throws away without sending them.
Discards(queue) == Range(queue) \ (Range(inflight') \cup Range(pending'))

\* releaseBackpressure(): the enqueues look again in the order they came.
ReleaseBackpressure == ready' = ready \o waiting /\ waiting' = <<>>

\* The server receives the batch.  It ignores what it has seen before.
Arrives ==
  IF Len(inflight) > seen
  THEN log' = log \o SubSeq(inflight, seen + 1, Len(inflight))
  ELSE UNCHANGED log

\* The batch leaves the backlog.
LeavesBacklog ==
  seen' = IF seen > Len(inflight) THEN seen - Len(inflight) ELSE 0

\* send() returns and the loop goes on: received, or (HybridTransport only,
\* rejectable) turned down for good or not posted for want of a token.
SendResolves(rejectable) ==
  /\ phase = "sending"
  /\ \/ Arrives
     \/ rejectable /\ UNCHANGED log
  /\ LeavesBacklog
  /\ failures' = 0
  /\ ReleaseBackpressure
  /\ Drain(pending)
  /\ NotifyFlushes({})
  /\ givenUp' = givenUp \cup Discards(pending)
                  \cup (Range(inflight) \ Range(log'))
  /\ UNCHANGED <<config, closed>>

\* Mutants of SendFails: the batch goes to the end of the queue, it is put
\* back but kept as well, the cap is off by one.
SendFailsRequeuesLast ==
  /\ phase = "sending" /\ (capped => failures + 1 < MaxFailures)
  /\ pending' = pending \o inflight /\ inflight' = <<>> /\ phase' = "sleeping"
  /\ failures' = IF capped THEN failures + 1 ELSE 0
  /\ UNCHANGED <<config, closed, waiting, ready, flushing, log, seen, givenUp>>
SendFailsKeepsBatch ==
  /\ phase = "sending" /\ (capped => failures + 1 < MaxFailures)
  /\ pending' = inflight \o pending /\ phase' = "sleeping"
  /\ failures' = IF capped THEN failures + 1 ELSE 0
  /\ UNCHANGED <<config, closed, inflight, waiting, ready, flushing, log, seen, givenUp>>
SendFailsOnceMore ==
  /\ phase = "sending" /\ (capped => failures + 1 <= MaxFailures)
  /\ pending' = inflight \o pending /\ inflight' = <<>> /\ phase' = "sleeping"
  /\ failures' = IF capped THEN failures + 1 ELSE 0
  /\ UNCHANGED <<config, closed, waiting, ready, flushing, log, seen, givenUp>>

\* send() throws, although the batch may have arrived: it goes back to the
\* front and drain() sleeps ...
SendFails ==
  /\ phase = "sending"
  /\ capped => failures + 1 < MaxFailures
  /\ \/ Arrives /\ seen' = IF Len(inflight) > seen THEN Len(inflight) ELSE seen
     \/ UNCHANGED <<log, seen>>
  /\ pending' = inflight \o pending
  /\ inflight' = <<>>
  /\ failures' = IF capped THEN failures + 1 ELSE 0
  /\ phase' = "sleeping"
  /\ UNCHANGED <<config, closed, waiting, ready, flushing, givenUp>>

\* A mutant of SendFailsForGood: enqueues go on waiting after a drop.
SendFailsWakesNobody ==
  /\ phase = "sending"
  /\ capped /\ failures + 1 >= MaxFailures
  /\ UNCHANGED <<log, waiting, ready>>
  /\ LeavesBacklog
  /\ failures' = 0
  /\ Drain(pending)
  /\ NotifyFlushes({})
  /\ givenUp' = givenUp \cup Discards(pending) \cup (Range(inflight) \ Range(log))
  /\ UNCHANGED <<config, closed>>

\* ... or, at the last permitted failure, it is dropped.
SendFailsForGood ==
  /\ phase = "sending"
  /\ capped /\ failures + 1 >= MaxFailures
  /\ Arrives \/ UNCHANGED log
  /\ LeavesBacklog
  /\ failures' = 0
  /\ ReleaseBackpressure
  /\ Drain(pending)
  /\ NotifyFlushes({})
  /\ givenUp' = givenUp \cup Discards(pending)
                  \cup (Range(inflight) \ Range(log'))
  /\ UNCHANGED <<config, closed>>

\* The delay is over, or close() cut it short.
WakeUp ==
  /\ phase = "sleeping"
  /\ Drain(pending)
  /\ NotifyFlushes({})
  /\ givenUp' = givenUp \cup Discards(pending)
  /\ UNCHANGED <<config, failures, closed, waiting, ready, log, seen>>

-------------------------------------------------------------------------------
(* enqueue(), flush(), close() *)

HasRoom(items) == Len(pending) + Len(items) <= MaxQueueSize

\* enqueue() returns at once, to the caller's next await.
Returns(items) == closed \/ items = <<>> \/ HasRoom(items)

\* The items are pushed and drain() is started unless it is running.
Push(items) ==
  IF phase = "idle"
  THEN Drain(pending \o items)
  ELSE pending' = pending \o items /\ UNCHANGED <<inflight, phase>>

\* The part of enqueue() up to its return or its first await, with the
\* flush()es called in the same step; wait is what becomes of
\* backpressureResolvers when the call has to wait for room.
EnqueueOr(items, wait, flushes) ==
  /\ \/ /\ closed \/ items = <<>>
        /\ UNCHANGED <<pending, inflight, phase, waiting, givenUp>>
     \/ /\ ~closed /\ items # <<>> /\ HasRoom(items)
        /\ Push(items)
        /\ givenUp' = givenUp \cup Discards(pending \o items)
        /\ UNCHANGED waiting
     \/ /\ ~Returns(items)
        /\ waiting' = wait
        /\ UNCHANGED <<pending, inflight, phase, givenUp>>
  /\ NotifyFlushes(flushes)
  /\ UNCHANGED <<config, failures, closed, log, seen>>

Enqueue(caller, items, flushes) ==
  /\ EnqueueOr(items, Append(waiting, [by |-> caller, items |-> items]), flushes)
  /\ UNCHANGED ready

\* A woken enqueue looks again: it pushes, returns or waits once more.
EnqueueAgain ==
  /\ ready # <<>>
  /\ ready' = Tail(ready)
  /\ EnqueueOr(Head(ready).items, Append(waiting, Head(ready)), {})

\* flush(): returns if there is nothing to wait for, or waits for an empty
\* queue.  The drain() it starts is running unless the uploader is closed.
Flush(caller) ==
  /\ UNCHANGED <<config, pending, inflight, phase, failures, closed, waiting,
                 ready, log, seen, givenUp>>
  /\ NotifyFlushes({caller})

\* close(): what is pending is dropped, all who wait are woken; a batch that
\* is being sent is not called back.
CloseUploader ==
  /\ IF closed
     THEN UNCHANGED <<pending, closed, waiting, ready, flushing, seen, givenUp>>
     ELSE /\ closed' = TRUE
          /\ pending' = <<>>
          /\ givenUp' = givenUp \cup (Range(pending) \ Range(log))
          /\ seen' = IF seen > Len(inflight) THEN Len(inflight) ELSE seen
          /\ ReleaseBackpressure
          /\ flushing' = {}
  /\ UNCHANGED <<config, inflight, phase, failures, log>>
===============================================================================
