---------------------------- MODULE EventTransport ----------------------------
(***************************************************************************)
(* The two transports that send a session's events to the server through a *)
(* SerialBatchEventUploader: HybridTransport, and CCRClient, which limits  *)
(* the bytes of a batch.  Both hold stream events back for up to 100 ms    *)
(* and send them ahead of the next message.                                *)
(*                                                                         *)
(* number, late and owed are not in the code: the order in which events    *)
(* were written, the events whose enqueue() once had to wait for room, and *)
(* what must have been posted when a call returns.                         *)
(***************************************************************************)
EXTENDS SerialBatchEventUploader

CONSTANTS
  StreamEvents,   \* events of type stream_event that write() is called with
  Calls,          \* calls of write() and writeBatch()
  Messages,       \* what each call writes
  Flushers,       \* calls of flush()
  Closer          \* the flush() of close()

\* Only HybridTransport can be told to drop a batch that keeps failing.  An
\* event is one message object, which is written once.
ASSUME TransportAssumption ==
  /\ <<TRUE, TRUE>> \notin Configurations
  /\ StreamEvents \subseteq Events
  /\ Messages \in [Calls -> Seq(Events)]
  /\ \A c \in Calls :
       IsInjective(Messages[c]) /\ Range(Messages[c]) \cap StreamEvents = {}
  /\ \A c, d \in Calls :
       c # d => Range(Messages[c]) \cap Range(Messages[d]) = {}
  /\ Callers = Calls \cup Flushers \cup {Closer}
  /\ Calls \cap Flushers = {} /\ Closer \notin Calls \cup Flushers

VARIABLES
  buffer,     \* streamEventBuffer
  timer,      \* streamEventTimer is set
  transport,  \* "open", "grace" while close() waits for its flush, "closed"
  call,       \* how far each call is; "done" calls may still be in flushing
  number, late, owed

transportVars == <<buffer, timer, transport, call, number, late, owed>>
vars == <<uploaderVars, transportVars>>

\* The client in use, fixed when the transport is made.
CCR == byteLimited

Steps == {"idle", "streams", "message", "room", "flush", "done"}

TypeOK ==
  /\ UploaderTypeOK
  /\ buffer \in Seq(Events)
  /\ timer \in BOOLEAN
  /\ transport \in {"open", "grace", "closed"}
  /\ call \in [Calls \cup Flushers -> Steps]
  /\ number \in [Events -> Nat]
  /\ late \subseteq Events
  /\ owed \in [Calls \cup Flushers -> SUBSET Events]

Init ==
  /\ UploaderInit
  /\ buffer = <<>> /\ timer = FALSE /\ transport = "open"
  /\ call = [c \in Calls \cup Flushers |-> "idle"]
  /\ number = [e \in Events |-> 0]
  /\ late = {}
  /\ owed = [c \in Calls \cup Flushers |-> {}]

-------------------------------------------------------------------------------
Written == {e \in Events : number[e] # 0}

\* The events of a call get the next numbers.
Numbered(items) ==
  number' = [e \in Events |->
     IF e \in Range(items)
     THEN Cardinality(Written) + (CHOOSE i \in DOMAIN items : items[i] = e)
     ELSE number[e]]

\* takeStreamEvents()
TakeStreamEvents == buffer' = <<>> /\ timer' = FALSE

\* The call hands items to the uploader and goes on to the step next, or
\* waits at the step wait.
EnqueueThen(c, items, next, wait) ==
  /\ Enqueue(c, items, {})
  /\ call' = [call EXCEPT ![c] = IF Returns(items) THEN next ELSE wait]
  /\ late' = IF Returns(items) THEN late ELSE late \cup Range(items)

\* An enqueue() that nobody awaits.
EnqueueUnawaited(items, flushes) ==
  /\ Enqueue(Nobody, items, flushes)
  /\ late' = IF Returns(items) THEN late ELSE late \cup Range(items)

\* write() or writeEvent() of a stream event.
WriteStreamEvent(e) ==
  /\ e \in StreamEvents \ Written /\ transport # "closed"
  /\ e \in Unserializable => CCR
  /\ buffer' = Append(buffer, e)
  /\ timer' = TRUE
  /\ Numbered(<<e>>)
  /\ UNCHANGED <<uploaderVars, transport, call, late, owed>>

\* A mutant of HybridWrite: the stream events stay in their buffer.
HybridWriteMessageFirst(c) ==
  /\ ~CCR /\ call[c] = "idle" /\ transport # "closed"
  /\ Range(Messages[c]) \cap Unserializable = {}
  /\ EnqueueThen(c, Messages[c], "flush", "room")
  /\ Numbered(Messages[c])
  /\ owed' = [owed EXCEPT ![c] = Range(Messages[c])]
  /\ UNCHANGED <<buffer, timer, transport>>

\* HybridTransport.write(), writeBatch(): one enqueue() for all, then flush().
HybridWrite(c) ==
  /\ ~CCR /\ call[c] = "idle" /\ transport # "closed"
  /\ Range(Messages[c]) \cap Unserializable = {}
  /\ EnqueueThen(c, buffer \o Messages[c], "flush", "room")
  /\ TakeStreamEvents
  /\ Numbered(Messages[c])
  /\ owed' = [owed EXCEPT ![c] = Range(buffer \o Messages[c])]
  /\ UNCHANGED transport

\* CCRClient.writeEvent(): flushStreamEventBuffer() first ...
CCRWrite(c) ==
  /\ CCR /\ call[c] = "idle" /\ transport # "closed" /\ Len(Messages[c]) = 1
  /\ EnqueueThen(c, buffer, "message", "streams")
  /\ TakeStreamEvents
  /\ Numbered(Messages[c])
  /\ UNCHANGED <<transport, owed>>

\* ... and, when that returns, the message itself.
CCRWriteMessage(c) ==
  /\ call[c] = "message"
  /\ EnqueueThen(c, Messages[c], "done", "room")
  /\ UNCHANGED <<buffer, timer, transport, number, owed>>

\* HybridTransport.flush() does not await the enqueue() of the stream events;
\* CCRClient.flush() does.
FlushCall(f) ==
  /\ call[f] = "idle" /\ transport # "closed"
  /\ \/ /\ ~CCR
        /\ EnqueueUnawaited(buffer, {f})
        /\ call' = [call EXCEPT ![f] = "done"]
     \/ /\ CCR
        /\ EnqueueThen(f, buffer, "flush", "streams")
  /\ TakeStreamEvents
  /\ owed' = [owed EXCEPT ![f] = Range(buffer) \cup Range(Backlog)]
  /\ UNCHANGED <<transport, number>>

\* The flush() after a call's enqueue().
FlushAfter(c) ==
  /\ call[c] = "flush"
  /\ Flush(c)
  /\ call' = [call EXCEPT ![c] = "done"]
  /\ UNCHANGED <<buffer, timer, transport, number, late, owed>>

\* flushStreamEvents(): the 100 ms are over.
TimerFires ==
  /\ timer
  /\ EnqueueUnawaited(buffer, {})
  /\ TakeStreamEvents
  /\ UNCHANGED <<transport, call, number, owed>>

\* The step of a call after the enqueue() it waited for.
After(c) ==
  CASE call[c] = "streams" -> IF c \in Calls THEN "message" ELSE "flush"
    [] call[c] = "room"    -> IF CCR THEN "done" ELSE "flush"

Retry ==
  /\ EnqueueAgain
  /\ LET enqueue == Head(ready) IN
     call' = [c \in DOMAIN call |->
                IF c = enqueue.by /\ Returns(enqueue.items)
                THEN After(c) ELSE call[c]]
  /\ UNCHANGED <<buffer, timer, transport, number, late, owed>>

\* close() drops the stream events.  HybridTransport then gives the uploader
\* a few seconds to become empty before it closes it.
CloseTransport ==
  /\ transport = "open"
  /\ TakeStreamEvents
  /\ IF CCR
     THEN CloseUploader /\ transport' = "closed"
     ELSE Flush(Closer) /\ transport' = "grace"
  /\ UNCHANGED <<call, number, late, owed>>

\* The flush has returned, or the grace period is over.
GraceEnds ==
  /\ transport = "grace"
  /\ CloseUploader
  /\ transport' = "closed"
  /\ UNCHANGED <<buffer, timer, call, number, late, owed>>

Sends == /\ \/ SendResolves(~CCR) \/ SendFails \/ SendFailsForGood \/ WakeUp
         /\ UNCHANGED transportVars

Next ==
  \/ \E e \in StreamEvents : WriteStreamEvent(e)
  \/ \E c \in Calls : HybridWrite(c) \/ CCRWrite(c) \/ CCRWriteMessage(c)
  \/ \E f \in Flushers : FlushCall(f)
  \/ \E c \in Calls \cup Flushers : FlushAfter(c)
  \/ TimerFires \/ Retry \/ CloseTransport \/ GraceEnds \/ Sends

Spec == Init /\ [][Next]_vars

\* Every callback that is due is run, a POST settles (it has a timeout), and
\* without a cap on failures a POST that is retried for ever succeeds some day.
Fairness ==
  /\ \A c \in Calls : WF_vars(CCRWriteMessage(c))
  /\ \A c \in Calls \cup Flushers : WF_vars(FlushAfter(c))
  /\ WF_vars(TimerFires) /\ WF_vars(Retry) /\ WF_vars(GraceEnds)
  /\ WF_vars(Sends)
  /\ SF_vars(~capped /\ SendResolves(~CCR) /\ UNCHANGED transportVars)

FairSpec == Spec /\ Fairness

-------------------------------------------------------------------------------
(* Properties *)

\* Events reach the server in the order in which they were written, unless
\* the one written first had to wait for room (cli/transports/
\* HybridTransport.ts, write: "flush any buffered stream_events (ordering)").
\* CCRClient, which enqueues a message in a later step than its stream events,
\* keeps this order for stream events only.
InOrder ==
  \A i, j \in 1..Len(log) :
    i < j /\ number[log[j]] < number[log[i]] =>
      log[j] \in late \/ (CCR /\ log[j] \notin StreamEvents)

\* When await write() or flush() returns, what it stands for was posted or
\* given up: HybridTransport.write "resolves after the event is POSTed"
\* (HybridTransport.ts:115).  Stream events that wait for room are not covered
\* by a flush().
ResolvedMeansPosted ==
  \A c \in Calls \cup Flushers :
    call[c] = "done" /\ c \notin flushing /\ ~closed =>
      owed[c] \ (IF c \in Flushers THEN late ELSE {}) \subseteq Range(log) \cup givenUp

\* Backpressure bounds the memory: what the uploader holds never exceeds
\* maxQueueSize and one batch, although failed batches are put back.
BacklogBounded == Len(Backlog) <= MaxQueueSize + MaxBatchSize

\* Only an enqueue() of more than maxQueueSize items, which waits until the
\* uploader is closed (HybridTransport.ts:78).
NeverFits == ~closed /\ \E r \in Range(waiting) : Len(r.items) > MaxQueueSize

\* A batch that failed after close() lies in the queue of a drain() that has
\* ended: a flush() that was called after close() waits for it for ever.
LeftBehind == closed /\ phase = "idle" /\ pending # <<>>

\* Whatever fails, and closed or not, the transport comes to rest again and
\* again: no event is left behind, no enqueue() waits for room that is there
\* and no flush() waits for a queue that is empty.  The two exceptions are
\* NeverFits, and for a flush() LeftBehind: a write() that waited for room goes
\* on to its flush() after close(), which resolves only those called before.
ComesToRest ==
  []<>(\/ NeverFits
       \/ /\ buffer = <<>> /\ inflight = <<>> /\ waiting = <<>> /\ ready = <<>>
          /\ LeftBehind \/ (pending = <<>> /\ flushing = {}))

\* The uploader is a first-in-first-out channel that may repeat and give up
\* events but neither loses, reorders nor invents any.
Channel == INSTANCE EventChannel WITH
  Unsendable <- Unserializable, backlog <- Backlog, open <- ~closed
ChannelSpec == Channel!ChannelSpec
===============================================================================
