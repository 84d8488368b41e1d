------------------------- MODULE EventTransport_proofs -------------------------
(***************************************************************************)
(* Proofs about EventTransport and the SerialBatchEventUploader in it:      *)
(* types, the bound of what the uploader holds, that it implements the      *)
(* channel of EventChannel, that a call returns when its events are posted, *)
(* and the order in which the server receives them.                         *)
(***************************************************************************)
EXTENDS EventTransport, SequenceTheorems, FiniteSetTheorems, TLAPS

-------------------------------------------------------------------------------
(* The uploader *)

(* Nothing is being sent outside "sending", a batch is no longer than is     *)
(* allowed, what is held is bounded, and drain() ends only on an empty queue *)
(* or a closed uploader.                                                    *)
UploaderInv ==
  /\ phase # "sending" => inflight = <<>>
  /\ Len(inflight) <= MaxBatchSize
  /\ Len(inflight) + Len(pending) <= MaxQueueSize + MaxBatchSize
  /\ phase = "idle" /\ ~closed => pending = <<>>

LEMMA UploaderConstants ==
  /\ MaxBatchSize \in Nat \ {0} /\ MaxQueueSize \in Nat \ {0} /\ MaxFailures \in Nat \ {0}
  /\ Configurations \subseteq BOOLEAN \X BOOLEAN
  BY UploaderAssumption

(* The batch that drain() takes is a selection, in order, of the first events *)
(* of the queue, from which only events that cannot be sent are missing.     *)
LEMMA DrainPicks ==
  ASSUME NEW queue \in Seq(Events), Drain(queue)
  PROVE  /\ inflight' \in Seq(Events) /\ pending' \in Seq(Events)
         /\ phase' \in {"idle", "sending"}
         /\ Len(inflight') + Len(pending') <= Len(queue)
         /\ Len(inflight') <= MaxBatchSize
         /\ phase' = "idle" => inflight' = <<>> /\ (closed \/ pending' = <<>>)
         /\ \/ inflight' = <<>> /\ pending' = queue
            \/ \E cut \in 1..Len(queue) : \E f \in [1..Len(inflight') -> 1..cut] :
                 /\ \A k \in 1..Len(inflight') : inflight'[k] = queue[f[k]]
                 /\ \A j, k \in 1..Len(inflight') : j < k => f[j] < f[k]
                 /\ \A i \in 1..cut : i \notin Range(f) => queue[i] \in Unserializable
                 /\ pending' = SubSeq(queue, cut + 1, Len(queue))
  <1>1. CASE (queue = <<>> \/ closed)
               /\ pending' = queue /\ inflight' = <<>> /\ phase' = "idle"
    <2>1. inflight' \in Seq(Events) /\ Len(inflight') = 0 BY <1>1, EmptySeq
    <2>2. QED BY <1>1, <2>1, UploaderConstants
  <1>2. CASE queue # <<>> /\ ~closed
             /\ \E cut \in 1..Len(queue) : \E n \in 0..cut :
                \E f \in [1..n -> 1..cut] :
                  /\ inflight' = [k \in 1..n |-> queue[f[k]]]
                  /\ TakeBatch(queue, cut, f)
             /\ phase' = IF inflight' = <<>> THEN "idle" ELSE "sending"
    <2>a. PICK cut \in 1..Len(queue) : \E n \in 0..cut : \E f \in [1..n -> 1..cut] :
            /\ inflight' = [k \in 1..n |-> queue[f[k]]]
            /\ TakeBatch(queue, cut, f)
      BY <1>2
    <2>b. PICK n \in 0..cut : \E f \in [1..n -> 1..cut] :
            /\ inflight' = [k \in 1..n |-> queue[f[k]]]
            /\ TakeBatch(queue, cut, f)
      BY <2>a
    <2>1. PICK f \in [1..n -> 1..cut] :
            /\ inflight' = [k \in 1..n |-> queue[f[k]]]
            /\ TakeBatch(queue, cut, f)
      BY <2>b
    <2>2. Len(queue) \in Nat /\ cut \in Nat /\ n \in Nat /\ cut <= Len(queue)
      BY LenProperties
    <2>3. \A k \in 1..n : queue[f[k]] \in Events
      BY <2>1, <2>2, ElementOfSeq
    <2>4. inflight' \in Seq(Events) /\ Len(inflight') = n
      BY <2>1, <2>2, <2>3
    <2>5. /\ \A j, k \in 1..n : j < k => f[j] < f[k]
          /\ Range(f) = {i \in 1..cut :
               queue[i] \notin (IF byteLimited THEN Unserializable ELSE {})}
          /\ StopsAt(queue, cut, n)
          /\ pending' = SubSeq(queue, cut + 1, Len(queue))
      BY <2>1, <2>4 DEF TakeBatch
    <2>6. /\ pending' \in Seq(Events)
          /\ Len(pending') = IF cut + 1 <= Len(queue) THEN Len(queue) - (cut + 1) + 1 ELSE 0
      <3>1. \A i \in (cut + 1)..Len(queue) : queue[i] \in Events
        BY <2>2, ElementOfSeq
      <3>2. QED BY <2>2, <2>5, <3>1, SubSeqProperties
    <2>7. n <= MaxBatchSize BY <2>5 DEF StopsAt
    <2>8. inflight' = <<>> => n = 0 BY <2>4
    <2>9. n = 0 => cut = Len(queue)
      BY <2>5, UploaderConstants DEF StopsAt
    <2>10. inflight' = <<>> => pending' = <<>>
      BY <2>2, <2>6, <2>8, <2>9, EmptySeq
    <2>11. \A i \in 1..cut : i \notin Range(f) => queue[i] \in Unserializable
      BY <2>5
    <2>12. \A k \in 1..n : inflight'[k] = queue[f[k]] BY <2>1
    <2>13. \E c \in 1..Len(queue) : \E g \in [1..Len(inflight') -> 1..c] :
                 /\ \A k \in 1..Len(inflight') : inflight'[k] = queue[g[k]]
                 /\ \A j, k \in 1..Len(inflight') : j < k => g[j] < g[k]
                 /\ \A i \in 1..c : i \notin Range(g) => queue[i] \in Unserializable
                 /\ pending' = SubSeq(queue, c + 1, Len(queue))
      BY <2>4, <2>5, <2>11, <2>12
    <2>14. Len(inflight') + Len(pending') <= Len(queue)
      BY <2>2, <2>4, <2>6
    <2>15. phase' \in {"idle", "sending"} /\ (phase' = "idle" => inflight' = <<>>)
      BY <1>2
    <2>16. QED BY <2>4, <2>6, <2>7, <2>10, <2>13, <2>14, <2>15
  <1>3. QED BY <1>1, <1>2 DEF Drain
Up == UploaderTypeOK /\ UploaderInv

LEMMA RangeOfEvents == \A q \in Seq(Events) : Range(q) \subseteq Events
  <1>1. SUFFICES ASSUME NEW q \in Seq(Events), NEW e \in Range(q) PROVE e \in Events
    OBVIOUS
  <1>2. PICK i \in DOMAIN q : e = q[i] BY <1>1 DEF Range
  <1>3. i \in 1..Len(q) BY LenProperties
  <1>4. QED BY <1>2, <1>3, ElementOfSeq

LEMMA UpTypes ==
  ASSUME Up
  PROVE  /\ pending \in Seq(Events) /\ inflight \in Seq(Events) /\ log \in Seq(Events)
         /\ Len(pending) \in Nat /\ Len(inflight) \in Nat /\ Len(log) \in Nat
         /\ seen \in Nat /\ givenUp \subseteq Events
         /\ waiting \in Seq(Enqueues) /\ ready \in Seq(Enqueues)
         /\ flushing \subseteq Callers /\ phase \in {"idle", "sending", "sleeping"}
         /\ closed \in BOOLEAN
  BY LenProperties DEF Up, UploaderTypeOK

(* The variables that drain() writes.                                      *)
DrainedOK ==
  /\ pending \in Seq(Events) /\ inflight \in Seq(Events)
  /\ phase \in {"idle", "sending", "sleeping"}
  /\ UploaderInv

LEMMA DrainKeepsInv ==
  ASSUME NEW queue \in Seq(Events), Len(queue) <= MaxQueueSize + MaxBatchSize,
         Drain(queue), closed' = closed
  PROVE  DrainedOK'
  <1>1. Len(inflight') \in Nat /\ Len(pending') \in Nat /\ Len(queue) \in Nat
    BY DrainPicks, LenProperties
  <1>2. QED BY <1>1, DrainPicks, UploaderConstants DEF DrainedOK, UploaderInv

LEMMA EnqueueKeepsUp ==
  ASSUME Up, NEW items \in Seq(Events), NEW wait \in Seq(Enqueues),
         NEW flushes \in SUBSET Callers, EnqueueOr(items, wait, flushes),
         ready' \in Seq(Enqueues)
  PROVE  Up'
  <1>1. waiting' \in Seq(Enqueues) /\ flushing' \subseteq Callers
    BY UpTypes DEF EnqueueOr, NotifyFlushes
  <1>2. givenUp' \subseteq Events /\ DrainedOK'
    <2>1. CASE UNCHANGED <<pending, inflight, phase, givenUp>>
      BY <2>1 DEF Up, UploaderTypeOK, UploaderInv, DrainedOK, EnqueueOr
    <2>2. CASE ~closed /\ HasRoom(items) /\ Push(items)
               /\ givenUp' = givenUp \cup Discards(pending \o items)
      <3>1. /\ pending \o items \in Seq(Events)
            /\ Len(pending \o items) = Len(pending) + Len(items)
            /\ Len(items) \in Nat
        BY UpTypes, ConcatProperties, LenProperties
      <3>2. Len(pending \o items) <= MaxQueueSize BY <2>2, <3>1 DEF HasRoom
      <3>3. givenUp' \subseteq Events
        BY <2>2, <3>1, RangeOfEvents, UpTypes DEF Discards
      <3>4. CASE phase = "idle"
        <4>1. Drain(pending \o items) /\ closed' = closed
          BY <2>2, <3>4 DEF Push, EnqueueOr
        <4>2. Len(pending \o items) <= MaxQueueSize + MaxBatchSize
          BY <3>1, <3>2, UpTypes, UploaderConstants
        <4>3. QED BY <3>1, <3>3, <4>1, <4>2, DrainKeepsInv
      <3>5. CASE phase # "idle"
        <4>1. pending' = pending \o items /\ UNCHANGED <<inflight, phase>>
          BY <2>2, <3>5 DEF Push
        <4>2. /\ inflight \in Seq(Events) /\ phase \in {"idle", "sending", "sleeping"}
              /\ phase # "sending" => inflight = <<>>
              /\ Len(inflight) <= MaxBatchSize /\ Len(inflight) \in Nat
          BY UpTypes DEF Up, UploaderInv
        <4>3. Len(inflight) + Len(pending \o items) <= MaxQueueSize + MaxBatchSize
          BY <3>1, <3>2, <4>2, UpTypes, UploaderConstants
        <4>4. QED BY <3>1, <3>3, <3>5, <4>1, <4>2, <4>3 DEF DrainedOK, UploaderInv
      <3>6. QED BY <3>4, <3>5
    <2>3. QED BY <2>1, <2>2 DEF EnqueueOr
  <1>3. QED
    BY <1>1, <1>2 DEF Up, UploaderTypeOK, DrainedOK, EnqueueOr, config

LEMMA ArrivesTypes ==
  ASSUME Up, Arrives \/ UNCHANGED log
  PROVE  log' \in Seq(Events)
  <1>1. \A i \in (seen + 1)..Len(inflight) : inflight[i] \in Events
    BY UpTypes, ElementOfSeq
  <1>2. SubSeq(inflight, seen + 1, Len(inflight)) \in Seq(Events)
    BY <1>1, UpTypes, SubSeqProperties
  <1>3. QED BY <1>2, UpTypes, ConcatProperties DEF Arrives

LEMMA ReleaseTypes ==
  ASSUME Up, ReleaseBackpressure
  PROVE  ready' \in Seq(Enqueues) /\ waiting' \in Seq(Enqueues)
  <1>1. ready \o waiting \in Seq(Enqueues) BY UpTypes, ConcatProperties
  <1>2. <<>> \in Seq(Enqueues) BY EmptySeq
  <1>3. QED BY <1>1, <1>2 DEF ReleaseBackpressure

(* What a batch leaves behind that is done with, sent or not.              *)
LEMMA SettledKeepsUp ==
  ASSUME Up, Drain(pending), NotifyFlushes({}), LeavesBacklog \/ UNCHANGED seen,
         log' \in Seq(Events), ready' \in Seq(Enqueues), waiting' \in Seq(Enqueues),
         givenUp' \subseteq givenUp \cup Discards(pending) \cup Range(inflight),
         failures' \in {0, failures}, UNCHANGED <<config, closed>>
  PROVE  Up'
  <1>1. Len(pending) <= MaxQueueSize + MaxBatchSize
    BY UpTypes, UploaderConstants DEF Up, UploaderInv
  <1>2. DrainedOK' BY <1>1, DrainKeepsInv, UpTypes
  <1>3. seen' \in Nat BY UpTypes DEF LeavesBacklog
  <1>4. flushing' \subseteq Callers BY UpTypes DEF NotifyFlushes
  <1>5. givenUp' \subseteq Events BY RangeOfEvents, UpTypes DEF Discards
  <1>6. failures' \in 0..(MaxFailures - 1)
    BY UploaderConstants DEF Up, UploaderTypeOK
  <1>7. QED BY <1>2, <1>3, <1>4, <1>5, <1>6
            DEF Up, UploaderTypeOK, DrainedOK, config

LEMMA SendsKeepUp ==
  ASSUME Up, NEW rejectable \in BOOLEAN,
         SendResolves(rejectable) \/ SendFails \/ SendFailsForGood \/ WakeUp
  PROVE  Up'
  <1>1. CASE SendResolves(rejectable) \/ SendFailsForGood
    <2>1. Arrives \/ UNCHANGED log BY <1>1 DEF SendResolves, SendFailsForGood
    <2>2. /\ Drain(pending) /\ NotifyFlushes({}) /\ LeavesBacklog /\ ReleaseBackpressure
          /\ failures' = 0 /\ UNCHANGED <<config, closed>>
          /\ givenUp' \subseteq givenUp \cup Discards(pending) \cup Range(inflight)
      BY <1>1 DEF SendResolves, SendFailsForGood
    <2>3. QED BY <2>1, <2>2, ArrivesTypes, ReleaseTypes, SettledKeepsUp
  <1>2. CASE WakeUp
    BY <1>2, SettledKeepsUp, UpTypes DEF WakeUp
  <1>3. CASE SendFails
    <2>1. log' \in Seq(Events)
      BY <1>3, ArrivesTypes DEF SendFails
    <2>2. /\ inflight \o pending \in Seq(Events)
          /\ Len(inflight \o pending) = Len(inflight) + Len(pending)
      BY UpTypes, ConcatProperties
    <2>3. /\ pending' = inflight \o pending /\ inflight' = <<>> /\ phase' = "sleeping"
          /\ closed' = closed /\ <<>> \in Seq(Events) /\ Len(<<>>) = 0
      BY <1>3, EmptySeq DEF SendFails
    <2>4. DrainedOK'
      BY <2>2, <2>3, UploaderConstants DEF DrainedOK, UploaderInv, Up
    <2>5. failures' \in 0..(MaxFailures - 1)
      BY <1>3, UploaderConstants DEF SendFails, Up, UploaderTypeOK
    <2>6. seen' \in Nat BY <1>3, UpTypes DEF SendFails
    <2>7. QED BY <1>3, <2>1, <2>4, <2>5, <2>6
              DEF SendFails, Up, UploaderTypeOK, DrainedOK, config
  <1>4. QED BY <1>1, <1>2, <1>3

LEMMA FlushKeepsUp ==
  ASSUME Up, NEW caller \in Callers, Flush(caller)
  PROVE  Up'
  BY DEF Up, UploaderTypeOK, UploaderInv, Flush, NotifyFlushes, config

LEMMA CloseKeepsUp ==
  ASSUME Up, CloseUploader PROVE Up'
  <1>1. CASE closed
    BY <1>1 DEF Up, UploaderTypeOK, UploaderInv, CloseUploader, config
  <1>2. CASE ~closed
    <2>1. ready' \in Seq(Enqueues) /\ waiting' \in Seq(Enqueues)
      BY <1>2, ReleaseTypes DEF CloseUploader
    <2>2. givenUp' \subseteq Events
      BY <1>2, RangeOfEvents, UpTypes DEF CloseUploader
    <2>3. seen' \in Nat BY <1>2, UpTypes DEF CloseUploader
    <2>4. pending' = <<>> /\ <<>> \in Seq(Events) /\ Len(<<>>) = 0
      BY <1>2, EmptySeq DEF CloseUploader
    <2>5. UploaderInv'
      BY <1>2, <2>4, UpTypes, UploaderConstants DEF Up, UploaderInv, CloseUploader
    <2>6. QED BY <1>2, <2>1, <2>2, <2>3, <2>4, <2>5
              DEF Up, UploaderTypeOK, CloseUploader, config
  <1>3. QED BY <1>1, <1>2
-------------------------------------------------------------------------------
(* The transport *)

Actors == Calls \cup Flushers

(* The enqueues that wait for room or were woken, in order.                *)
Waits == ready \o waiting

(* Each call waits in at most one enqueue, and is at a step that says so.   *)
WaitsOK(w, at) ==
  /\ w \in Seq(Enqueues)
  /\ \A i \in 1..Len(w) : w[i].by # Nobody =>
       w[i].by \in Actors /\ at[w[i].by] \in {"streams", "room"}
  /\ \A i, j \in 1..Len(w) : w[i].by # Nobody /\ w[i].by = w[j].by => i = j

TransportOK ==
  /\ buffer \in Seq(Events) /\ timer \in BOOLEAN
  /\ transport \in {"open", "grace", "closed"}
  /\ call \in [Actors -> Steps]
  /\ late \subseteq Events
  /\ owed \in [Actors -> SUBSET Events]

NumberOK == number \in [Events -> Nat] /\ IsFiniteSet(Written)

TransportInv == Up /\ TransportOK /\ NumberOK /\ WaitsOK(Waits, call)

LEMMA TransportConstants ==
  /\ \A c \in Calls : Messages[c] \in Seq(Events)
  /\ StreamEvents \subseteq Events /\ Callers = Actors \cup {Closer}
  /\ Nobody \notin Callers /\ Calls \cap Flushers = {}
  BY TransportAssumption, UploaderAssumption DEF Actors

LEMMA NewWait ==
  ASSUME NEW w, NEW at, WaitsOK(w, at), NEW e \in Enqueues, NEW then,
         \A c \in Actors : at[c] \in {"streams", "room"} => then[c] \in {"streams", "room"},
         e.by # Nobody => /\ e.by \in Actors /\ then[e.by] \in {"streams", "room"}
                          /\ at[e.by] \notin {"streams", "room"}
  PROVE  WaitsOK(w \o <<e>>, then)
  <1> DEFINE all == w \o <<e>>
  <1>1. /\ w \in Seq(Enqueues) /\ <<e>> \in Seq(Enqueues) /\ Len(<<e>>) = 1 /\ <<e>>[1] = e
        /\ Len(w) \in Nat
    BY LenProperties DEF WaitsOK
  <1>2. all \in Seq(Enqueues) /\ Len(all) = Len(w) + 1
    BY <1>1, ConcatProperties
  <1>3. \A i \in 1..(Len(w) + 1) : all[i] = IF i <= Len(w) THEN w[i] ELSE <<e>>[i - Len(w)]
    BY <1>1, ConcatProperties
  <1>4. /\ \A i \in 1..Len(w) : all[i] = w[i]
        /\ all[Len(w) + 1] = e
    BY <1>1, <1>3
  <1> HIDE DEF all
  <1>5. \A i \in 1..Len(all) : i \in 1..Len(w) \/ i = Len(w) + 1
    BY <1>1, <1>2
  <1>6. QED BY <1>1, <1>2, <1>4, <1>5 DEF WaitsOK, all

LEMMA FirstWaitGone ==
  ASSUME NEW w, NEW at, WaitsOK(w, at), w # <<>>, NEW then,
         \A c \in Actors : at[c] \in {"streams", "room"} /\ c # Head(w).by
                             => then[c] \in {"streams", "room"}
  PROVE  WaitsOK(Tail(w), then)
  <1>1. w \in Seq(Enqueues) /\ Len(w) \in Nat \ {0} /\ Head(w) = w[1]
    BY EmptySeq DEF WaitsOK
  <1>2. /\ Tail(w) \in Seq(Enqueues) /\ Len(Tail(w)) = Len(w) - 1
        /\ \A i \in 1..Len(Tail(w)) : Tail(w)[i] = w[i + 1]
    BY <1>1, HeadTailProperties
  <1>3. \A i \in 1..Len(Tail(w)) : i + 1 \in 1..Len(w) /\ i + 1 # 1
    BY <1>1, <1>2
  <1>4. ASSUME NEW i \in 1..Len(Tail(w)), Tail(w)[i].by # Nobody
        PROVE  Tail(w)[i].by \in Actors /\ then[Tail(w)[i].by] \in {"streams", "room"}
    <2>1. Tail(w)[i] = w[i + 1] BY <1>2
    <2>2. w[i + 1].by # w[1].by BY <1>1, <1>3, <1>4, <2>1 DEF WaitsOK
    <2>3. QED BY <1>1, <1>3, <1>4, <2>1, <2>2 DEF WaitsOK
  <1>5. ASSUME NEW i \in 1..Len(Tail(w)), NEW j \in 1..Len(Tail(w)),
               Tail(w)[i].by # Nobody, Tail(w)[i].by = Tail(w)[j].by
        PROVE  i = j
    <2>1. i + 1 = j + 1 BY <1>2, <1>3, <1>5 DEF WaitsOK
    <2>2. QED BY <2>1, <1>1, <1>2
  <1>6. QED BY <1>2, <1>4, <1>5 DEF WaitsOK

LEMMA SameWaits ==
  ASSUME NEW w, NEW at, WaitsOK(w, at), NEW then,
         \A c \in Actors : at[c] \in {"streams", "room"} => then[c] \in {"streams", "room"}
  PROVE  WaitsOK(w, then)
  BY DEF WaitsOK

LEMMA WaitsTypes ==
  ASSUME TransportInv
  PROVE  /\ Waits \in Seq(Enqueues)
         /\ Waits \o <<>> = Waits
         /\ \A e \in Enqueues : ready \o Append(waiting, e) = Waits \o <<e>>
  <1>1. ready \in Seq(Enqueues) /\ waiting \in Seq(Enqueues)
    BY UpTypes DEF TransportInv
  <1>2. Waits \in Seq(Enqueues) BY <1>1, ConcatProperties DEF Waits
  <1>3. \A e \in Enqueues : ready \o Append(waiting, e) = Waits \o <<e>>
    BY <1>1, AppendIsConcat, ConcatAssociative DEF Waits
  <1>4. QED BY <1>2, <1>3, ConcatEmptySeq

LEMMA InitTransport == Init => TransportInv
  <1>1. SUFFICES ASSUME Init PROVE TransportInv
    OBVIOUS
  <1> USE <1>1
  <1>2. <<>> \in Seq(Events) /\ <<>> \in Seq(Enqueues) /\ Len(<<>>) = 0
    BY EmptySeq
  <1>3. PICK c \in Configurations : byteLimited = c[1] /\ capped = c[2]
    BY DEF Init, UploaderInit
  <1>4. byteLimited \in BOOLEAN /\ capped \in BOOLEAN
    BY <1>3, UploaderConstants
  <1>5. UploaderTypeOK
    <2>1. 0 \in 0..(MaxFailures - 1) /\ 0 \in Nat BY UploaderConstants
    <2>2. failures = 0 /\ seen = 0 BY DEF Init, UploaderInit
    <2>3. failures \in 0..(MaxFailures - 1) /\ seen \in Nat BY <2>1, <2>2
    <2>4. QED BY <1>2, <1>4, <2>3 DEF Init, UploaderInit, UploaderTypeOK
  <1>6. UploaderInv
    BY <1>2, UploaderConstants DEF Init, UploaderInit, UploaderInv
  <1>7. TransportOK BY <1>2 DEF Init, TransportOK, Actors, Steps
  <1>8. NumberOK
    <2>1. Written = {} BY DEF Init, Written
    <2>2. QED BY <2>1, FS_EmptySet DEF NumberOK, Init
  <1>9. Waits = <<>> BY <1>2, ConcatEmptySeq DEF Init, UploaderInit, Waits
  <1>10. WaitsOK(Waits, call) BY <1>2, <1>9 DEF WaitsOK
  <1>11. QED BY <1>5, <1>6, <1>7, <1>8, <1>10 DEF TransportInv, Up
(* A call of enqueue() and what it does to the transport's invariant, when   *)
(* the calls are at the steps in then afterwards.                          *)
LEMMA EnqueueKeepsWaits ==
  ASSUME TransportInv, NEW caller \in Callers \cup {Nobody},
         NEW items \in Seq(Events), NEW flushes \in SUBSET Callers,
         Enqueue(caller, items, flushes), NEW then,
         \A c \in Actors : call[c] \in {"streams", "room"} => then[c] \in {"streams", "room"},
         caller # Nobody /\ ~Returns(items) =>
           /\ caller \in Actors /\ then[caller] \in {"streams", "room"}
           /\ call[caller] \notin {"streams", "room"}
  PROVE  Up' /\ WaitsOK(Waits', then)
  <1> DEFINE e == [by |-> caller, items |-> items]
  <1>1. e \in Enqueues /\ e.by = caller BY DEF Enqueues
  <1>2. /\ waiting \in Seq(Enqueues) /\ ready \in Seq(Enqueues) /\ ready' = ready
        /\ EnqueueOr(items, Append(waiting, e), flushes)
    BY UpTypes DEF TransportInv, Enqueue
  <1> HIDE DEF e
  <1>3. Append(waiting, e) \in Seq(Enqueues) BY <1>1, <1>2, AppendProperties
  <1>4. Up' BY <1>2, <1>3, EnqueueKeepsUp DEF TransportInv
  <1>5. WaitsOK(Waits, call) BY DEF TransportInv
  <1>6. CASE waiting' = waiting
    BY <1>2, <1>4, <1>5, <1>6, SameWaits DEF Waits
  <1>7. CASE ~Returns(items) /\ waiting' = Append(waiting, e)
    <2>1. Waits' = Waits \o <<e>> BY <1>1, <1>2, <1>7, WaitsTypes DEF Waits
    <2>2. WaitsOK(Waits \o <<e>>, then) BY <1>1, <1>5, <1>7, NewWait
    <2>3. QED BY <1>4, <2>1, <2>2
  <1>8. QED BY <1>2, <1>6, <1>7 DEF EnqueueOr

LEMMA EnqueueThenKeeps ==
  ASSUME TransportInv, NEW c \in Actors, NEW items \in Seq(Events),
         NEW next \in Steps, NEW wait \in {"streams", "room"},
         call[c] \notin {"streams", "room"}, EnqueueThen(c, items, next, wait)
  PROVE  /\ Up' /\ WaitsOK(Waits, call)'
         /\ call' \in [Actors -> Steps] /\ late' \subseteq Events
  <1>1. call \in [Actors -> Steps] /\ late \subseteq Events /\ wait \in Steps
    BY DEF TransportInv, TransportOK, Steps
  <1>2. call' = [call EXCEPT ![c] = IF Returns(items) THEN next ELSE wait]
    BY DEF EnqueueThen
  <1>3. /\ \A a \in Actors : call[a] \in {"streams", "room"} => call'[a] \in {"streams", "room"}
        /\ ~Returns(items) => call'[c] \in {"streams", "room"}
    BY <1>1, <1>2
  <1>4. c \in Callers /\ {} \in SUBSET Callers BY TransportConstants
  <1>5. Up' /\ WaitsOK(Waits', call')
    BY <1>3, <1>4, EnqueueKeepsWaits DEF EnqueueThen
  <1>6. late' \subseteq Events BY <1>1, RangeOfEvents DEF EnqueueThen
  <1>7. QED BY <1>1, <1>2, <1>5, <1>6

LEMMA UnawaitedKeeps ==
  ASSUME TransportInv, NEW items \in Seq(Events), NEW flushes \in SUBSET Callers,
         EnqueueUnawaited(items, flushes), NEW then,
         \A c \in Actors : call[c] \in {"streams", "room"} => then[c] \in {"streams", "room"}
  PROVE  Up' /\ WaitsOK(Waits', then) /\ late' \subseteq Events
  <1>1. Up' /\ WaitsOK(Waits', then)
    BY EnqueueKeepsWaits DEF EnqueueUnawaited
  <1>2. late' \subseteq Events
    BY RangeOfEvents DEF EnqueueUnawaited, TransportInv, TransportOK
  <1>3. QED BY <1>1, <1>2

LEMMA NumberedKeeps ==
  ASSUME NumberOK, NEW items \in Seq(Events), Numbered(items)
  PROVE  NumberOK'
  <1>1. Cardinality(Written) \in Nat BY FS_CardinalityType DEF NumberOK
  <1> DEFINE place(e) == CHOOSE i \in DOMAIN items : items[i] = e
  <1>2. ASSUME NEW e \in Range(items) PROVE place(e) \in Nat
    <2>1. \E i \in DOMAIN items : items[i] = e BY DEF Range
    <2>2. place(e) \in DOMAIN items BY <2>1
    <2>3. DOMAIN items = 1..Len(items) /\ Len(items) \in Nat BY LenProperties
    <2>4. QED BY <2>2, <2>3
  <1>3. number' \in [Events -> Nat]
    <2>1. \A e \in Events : number[e] \in Nat BY DEF NumberOK
    <2>2. number' = [e \in Events |-> IF e \in Range(items)
                                     THEN Cardinality(Written) + place(e) ELSE number[e]]
      BY DEF Numbered
    <2> HIDE DEF place
    <2>3. QED BY <1>1, <1>2, <2>1, <2>2
  <1>4. Written' \subseteq Written \cup Range(items)
    BY DEF Written, Numbered
  <1>5. IsFiniteSet(Range(items))
    <2>1. DOMAIN items = 1..Len(items) /\ Len(items) \in Nat /\ items \in [1..Len(items) -> Events]
      BY LenProperties
    <2>2. items \in Surjection(1..Len(items), Range(items))
      BY <2>1 DEF Surjection, Range
    <2>3. IsFiniteSet(1..Len(items)) BY <2>1, FS_Interval
    <2>4. QED BY <2>2, <2>3, FS_Surjection
  <1>6. IsFiniteSet(Written') BY <1>4, <1>5, FS_Union, FS_Subset DEF NumberOK
  <1>7. QED BY <1>3, <1>6 DEF NumberOK

LEMMA NumbersStay == NumberOK /\ UNCHANGED number => NumberOK'
  BY DEF NumberOK, Written

LEMMA EmptiedBuffer ==
  ASSUME TakeStreamEvents PROVE buffer' \in Seq(Events) /\ timer' \in BOOLEAN
  BY EmptySeq DEF TakeStreamEvents

LEMMA WriteKeeps ==
  ASSUME TransportInv, NEW c \in Calls, HybridWrite(c) \/ CCRWrite(c) \/ CCRWriteMessage(c)
  PROVE  TransportInv'
  <1>1. /\ Messages[c] \in Seq(Events) /\ buffer \in Seq(Events) /\ c \in Actors
        /\ buffer \o Messages[c] \in Seq(Events)
    BY TransportConstants, ConcatProperties DEF TransportInv, TransportOK, Actors
  <1>2. {"flush", "message", "done"} \subseteq Steps BY DEF Steps
  <1>3. CASE HybridWrite(c)
    <2>1. EnqueueThen(c, buffer \o Messages[c], "flush", "room") /\ call[c] = "idle"
      BY <1>3 DEF HybridWrite
    <2>2. /\ Up' /\ WaitsOK(Waits, call)'
          /\ call' \in [Actors -> Steps] /\ late' \subseteq Events
      BY <1>1, <1>2, <2>1, EnqueueThenKeeps
    <2>3. NumberOK' BY <1>1, <1>3, NumberedKeeps DEF HybridWrite, TransportInv
    <2>4. owed' \in [Actors -> SUBSET Events]
      BY <1>1, <1>3, RangeOfEvents DEF HybridWrite, TransportInv, TransportOK
    <2>5. TransportOK'
      BY <1>3, <2>2, <2>4, EmptiedBuffer DEF HybridWrite, TransportInv, TransportOK
    <2>6. QED BY <2>2, <2>3, <2>5 DEF TransportInv
  <1>4. CASE CCRWrite(c)
    <2>1. EnqueueThen(c, buffer, "message", "streams") /\ call[c] = "idle"
      BY <1>4 DEF CCRWrite
    <2>2. /\ Up' /\ WaitsOK(Waits, call)'
          /\ call' \in [Actors -> Steps] /\ late' \subseteq Events
      BY <1>1, <1>2, <2>1, EnqueueThenKeeps
    <2>3. NumberOK' BY <1>1, <1>4, NumberedKeeps DEF CCRWrite, TransportInv
    <2>4. TransportOK'
      BY <1>4, <2>2, EmptiedBuffer DEF CCRWrite, TransportInv, TransportOK
    <2>5. QED BY <2>2, <2>3, <2>4 DEF TransportInv
  <1>5. CASE CCRWriteMessage(c)
    <2>1. EnqueueThen(c, Messages[c], "done", "room") /\ call[c] = "message"
      BY <1>5 DEF CCRWriteMessage
    <2>2. /\ Up' /\ WaitsOK(Waits, call)'
          /\ call' \in [Actors -> Steps] /\ late' \subseteq Events
      BY <1>1, <1>2, <2>1, EnqueueThenKeeps
    <2>3. NumberOK' BY <1>5, NumbersStay DEF CCRWriteMessage, TransportInv
    <2>4. TransportOK'
      BY <1>5, <2>2 DEF CCRWriteMessage, TransportInv, TransportOK
    <2>5. QED BY <2>2, <2>3, <2>4 DEF TransportInv
  <1>6. QED BY <1>3, <1>4, <1>5

LEMMA StreamEventKeeps ==
  ASSUME TransportInv, NEW e \in StreamEvents, WriteStreamEvent(e) PROVE TransportInv'
  <1>1. e \in Events /\ buffer \in Seq(Events)
    BY TransportConstants DEF TransportInv, TransportOK
  <1>2. <<e>> \in Seq(Events) BY <1>1
  <1>3. NumberOK' BY <1>2, NumberedKeeps DEF WriteStreamEvent, TransportInv
  <1>4. Append(buffer, e) \in Seq(Events) BY <1>1, AppendProperties
  <1>5. TransportOK' BY <1>4 DEF WriteStreamEvent, TransportInv, TransportOK
  <1>6. Up'
    BY DEF WriteStreamEvent, TransportInv, Up, uploaderVars, UploaderTypeOK, UploaderInv
  <1>7. WaitsOK(Waits, call)'
    BY DEF WriteStreamEvent, TransportInv, uploaderVars, Waits
  <1>8. QED BY <1>3, <1>5, <1>6, <1>7 DEF TransportInv
LEMMA FlushCallKeeps ==
  ASSUME TransportInv, NEW f \in Flushers, FlushCall(f) PROVE TransportInv'
  <1>1. /\ buffer \in Seq(Events) /\ f \in Actors /\ f \in Callers /\ call[f] = "idle"
        /\ call \in [Actors -> Steps] /\ {"flush", "done"} \subseteq Steps
    BY TransportConstants DEF FlushCall, TransportInv, TransportOK, Actors, Steps
  <1>2. /\ Up' /\ WaitsOK(Waits, call)'
        /\ call' \in [Actors -> Steps] /\ late' \subseteq Events
    <2>1. CASE EnqueueUnawaited(buffer, {f}) /\ call' = [call EXCEPT ![f] = "done"]
      <3>1. /\ \A c \in Actors : call[c] \in {"streams", "room"} => call'[c] \in {"streams", "room"}
            /\ call' \in [Actors -> Steps]
        BY <1>1, <2>1
      <3>2. QED BY <1>1, <2>1, <3>1, UnawaitedKeeps
    <2>2. CASE EnqueueThen(f, buffer, "flush", "streams")
      BY <1>1, <2>2, EnqueueThenKeeps
    <2>3. QED BY <2>1, <2>2 DEF FlushCall
  <1>3. Backlog \in Seq(Events) BY UpTypes, ConcatProperties DEF TransportInv, Backlog
  <1>4. owed' \in [Actors -> SUBSET Events]
    BY <1>1, <1>3, RangeOfEvents DEF FlushCall, TransportInv, TransportOK
  <1>5. TransportOK'
    BY <1>2, <1>4, EmptiedBuffer DEF FlushCall, TransportInv, TransportOK
  <1>6. NumberOK' BY NumbersStay DEF FlushCall, TransportInv
  <1>7. QED BY <1>2, <1>5, <1>6 DEF TransportInv

LEMMA FlushAfterKeeps ==
  ASSUME TransportInv, NEW c \in Actors, FlushAfter(c) PROVE TransportInv'
  <1>1. /\ call[c] = "flush" /\ Flush(c) /\ call' = [call EXCEPT ![c] = "done"]
        /\ call \in [Actors -> Steps] /\ "done" \in Steps /\ c \in Callers
    BY TransportConstants DEF FlushAfter, TransportInv, TransportOK, Steps
  <1>2. Up' BY <1>1, FlushKeepsUp DEF TransportInv
  <1>3. Waits' = Waits BY <1>1 DEF Flush, Waits
  <1>4. \A a \in Actors : call[a] \in {"streams", "room"} => call'[a] \in {"streams", "room"}
    BY <1>1
  <1>5. WaitsOK(Waits, call)' BY <1>3, <1>4, SameWaits DEF TransportInv
  <1>6. TransportOK' BY <1>1 DEF FlushAfter, TransportInv, TransportOK
  <1>7. NumberOK' BY NumbersStay DEF FlushAfter, TransportInv
  <1>8. QED BY <1>2, <1>5, <1>6, <1>7 DEF TransportInv

LEMMA TimerKeeps == ASSUME TransportInv, TimerFires PROVE TransportInv'
  <1>1. /\ buffer \in Seq(Events) /\ EnqueueUnawaited(buffer, {}) /\ call' = call
    BY DEF TimerFires, TransportInv, TransportOK
  <1>2. Up' /\ WaitsOK(Waits', call) /\ late' \subseteq Events
    BY <1>1, UnawaitedKeeps
  <1>3. TransportOK'
    BY <1>2, EmptiedBuffer DEF TimerFires, TransportInv, TransportOK
  <1>4. NumberOK' BY NumbersStay DEF TimerFires, TransportInv
  <1>5. QED BY <1>1, <1>2, <1>3, <1>4 DEF TransportInv

LEMMA RetryKeeps == ASSUME TransportInv, Retry PROVE TransportInv'
  <1> DEFINE e == Head(ready)
  <1>1. /\ ready \in Seq(Enqueues) /\ ready # <<>> /\ waiting \in Seq(Enqueues)
        /\ ready' = Tail(ready) /\ EnqueueOr(e.items, Append(waiting, e), {})
        /\ call \in [Actors -> Steps]
    BY UpTypes DEF Retry, EnqueueAgain, TransportInv, TransportOK
  <1>2. /\ e \in Enqueues /\ Tail(ready) \in Seq(Enqueues)
        /\ Len(ready) \in Nat \ {0} /\ Len(waiting) \in Nat /\ e = ready[1]
        /\ e.items \in Seq(Events)
    <2>1. e \in Enqueues /\ Tail(ready) \in Seq(Enqueues) /\ e = ready[1]
      BY <1>1, HeadTailProperties
    <2>2. Len(ready) \in Nat \ {0} /\ Len(waiting) \in Nat
      BY <1>1, EmptySeq, LenProperties
    <2>3. QED BY <2>1, <2>2 DEF Enqueues
  <1>3. call' = [c \in Actors |-> IF c = e.by /\ Returns(e.items) THEN After(c) ELSE call[c]]
    BY <1>1 DEF Retry
  <1> HIDE DEF e
  <1>4. /\ Waits \in Seq(Enqueues) /\ Len(Waits) \in Nat \ {0} /\ Waits[1] = e
        /\ Waits # <<>> /\ Head(Waits) = e /\ Tail(Waits) = Tail(ready) \o waiting
    <2>1. /\ Waits \in Seq(Enqueues) /\ Len(Waits) = Len(ready) + Len(waiting)
          /\ \A i \in 1..(Len(ready) + Len(waiting)) :
               Waits[i] = IF i <= Len(ready) THEN ready[i] ELSE waiting[i - Len(ready)]
      BY <1>1, ConcatProperties DEF Waits
    <2>2. Len(Waits) \in Nat \ {0} /\ Waits[1] = e /\ Waits # <<>>
      BY <1>2, <2>1, EmptySeq
    <2>3. Head(Waits) = e BY <2>1, <2>2
    <2>4. /\ Tail(Waits) \in Seq(Enqueues) /\ Len(Tail(Waits)) = Len(Waits) - 1
          /\ \A i \in 1..Len(Tail(Waits)) : Tail(Waits)[i] = Waits[i + 1]
      BY <2>1, <2>2, HeadTailProperties
    <2>5. /\ Len(Tail(ready)) = Len(ready) - 1
          /\ \A i \in 1..Len(Tail(ready)) : Tail(ready)[i] = ready[i + 1]
      BY <1>1, HeadTailProperties
    <2>6. /\ Tail(ready) \o waiting \in Seq(Enqueues)
          /\ Len(Tail(ready) \o waiting) = Len(ready) - 1 + Len(waiting)
          /\ \A i \in 1..(Len(Tail(ready)) + Len(waiting)) :
               (Tail(ready) \o waiting)[i] =
                 IF i <= Len(Tail(ready)) THEN Tail(ready)[i]
                 ELSE waiting[i - Len(Tail(ready))]
      BY <1>1, <1>2, <2>5, ConcatProperties
    <2>7. \A i \in 1..Len(Tail(Waits)) : Tail(Waits)[i] = (Tail(ready) \o waiting)[i]
      <3>1. SUFFICES ASSUME NEW i \in 1..Len(Tail(Waits))
                     PROVE  Tail(Waits)[i] = (Tail(ready) \o waiting)[i]
        OBVIOUS
      <3>2. i \in 1..(Len(ready) - 1 + Len(waiting)) /\ Tail(Waits)[i] = Waits[i + 1]
        BY <2>1, <2>4
      <3>3. CASE i <= Len(ready) - 1
        BY <1>2, <2>1, <2>5, <2>6, <3>2, <3>3
      <3>4. CASE i > Len(ready) - 1
        BY <1>2, <2>1, <2>5, <2>6, <3>2, <3>4
      <3>5. QED BY <1>2, <3>2, <3>3, <3>4
    <2>8. Tail(Waits) = Tail(ready) \o waiting
      BY <1>2, <2>1, <2>4, <2>6, <2>7, SeqEqual
    <2>9. QED BY <2>1, <2>2, <2>3, <2>8
  <1>5. WaitsOK(Waits, call) BY DEF TransportInv
  <1>6. e.by # Nobody => e.by \in Actors /\ call[e.by] \in {"streams", "room"}
    BY <1>4, <1>5 DEF WaitsOK
  <1>7. call' \in [Actors -> Steps]
    <2>1. Nobody \notin Actors BY TransportConstants
    <2>2. \A c \in Actors : c = e.by => After(c) \in Steps
      BY <1>6, <2>1 DEF After, Steps
    <2>3. QED BY <1>1, <1>3, <2>2
  <1>8. Append(waiting, e) \in Seq(Enqueues) /\ {} \in SUBSET Callers
    BY <1>1, <1>2, AppendProperties
  <1>9. Up'
    <2>1. EnqueueOr(e.items, Append(waiting, e), {}) BY <1>1 DEF e
    <2>2. QED BY <1>1, <1>2, <1>8, <2>1, EnqueueKeepsUp DEF TransportInv
  <1>10. WaitsOK(Waits, call)'
    <2>1. CASE Returns(e.items)
      <3>1. waiting' = waiting BY <1>1, <2>1 DEF EnqueueOr, e
      <3>2. Waits' = Tail(Waits) BY <1>1, <1>4, <3>1 DEF Waits
      <3>3. \A c \in Actors : call[c] \in {"streams", "room"} /\ c # Head(Waits).by
                                => call'[c] \in {"streams", "room"}
        BY <1>3, <1>4
      <3>4. QED BY <1>4, <1>5, <3>2, <3>3, FirstWaitGone
    <2>2. CASE ~Returns(e.items)
      <3> DEFINE mid == [c \in Actors |-> IF c = e.by THEN "idle" ELSE call[c]]
      <3>1. waiting' = Append(waiting, e)
        BY <1>1, <2>2 DEF EnqueueOr, Returns, e
      <3>2. Waits' = Tail(Waits) \o <<e>>
        BY <1>1, <1>2, <1>4, <3>1, AppendIsConcat, ConcatAssociative DEF Waits
      <3>3. /\ \A c \in Actors : call[c] \in {"streams", "room"} /\ c # Head(Waits).by
                                   => mid[c] \in {"streams", "room"}
            /\ \A c \in Actors : mid[c] \in {"streams", "room"} => call'[c] \in {"streams", "room"}
            /\ e.by # Nobody => /\ e.by \in Actors /\ call'[e.by] \in {"streams", "room"}
                                /\ mid[e.by] \notin {"streams", "room"}
        BY <1>3, <1>4, <1>6, <2>2
      <3> HIDE DEF mid
      <3>4. WaitsOK(Tail(Waits), mid) BY <1>4, <1>5, <3>3, FirstWaitGone
      <3>5. QED BY <1>2, <3>2, <3>3, <3>4, NewWait
    <2>3. QED BY <2>1, <2>2
  <1>11. TransportOK' BY <1>7 DEF Retry, TransportInv, TransportOK
  <1>12. NumberOK' BY NumbersStay DEF Retry, TransportInv
  <1>13. QED BY <1>9, <1>10, <1>11, <1>12 DEF TransportInv

(* close() and the answers of the server wake those who wait, in order.     *)
LEMMA WokenWaits ==
  ASSUME TransportInv, ReleaseBackpressure \/ UNCHANGED <<ready, waiting>>, call' = call
  PROVE  WaitsOK(Waits, call)'
  <1>1. Waits' = Waits
    <2>1. CASE ReleaseBackpressure
      <3>1. Waits' = Waits \o <<>> BY <2>1 DEF ReleaseBackpressure, Waits
      <3>2. QED BY <3>1, WaitsTypes
    <2>2. CASE UNCHANGED <<ready, waiting>> BY <2>2 DEF Waits
    <2>3. QED BY <2>1, <2>2
  <1>2. QED BY <1>1 DEF TransportInv

LEMMA CloseKeeps ==
  ASSUME TransportInv, CloseTransport \/ GraceEnds PROVE TransportInv'
  <1>1. CloseUploader \/ Flush(Closer) BY DEF CloseTransport, GraceEnds
  <1>2. Closer \in Callers BY TransportConstants
  <1>3. Up' BY <1>1, <1>2, CloseKeepsUp, FlushKeepsUp DEF TransportInv
  <1>4. ReleaseBackpressure \/ UNCHANGED <<ready, waiting>>
    BY <1>1 DEF CloseUploader, Flush
  <1>5. UNCHANGED <<call, number, late, owed>> BY DEF CloseTransport, GraceEnds
  <1>6. WaitsOK(Waits, call)' BY <1>4, <1>5, WokenWaits
  <1>7. TransportOK'
    BY <1>5, EmptiedBuffer DEF CloseTransport, GraceEnds, TransportInv, TransportOK
  <1>8. NumberOK' BY <1>5, NumbersStay DEF TransportInv
  <1>9. QED BY <1>3, <1>6, <1>7, <1>8 DEF TransportInv

LEMMA SendsKeep == ASSUME TransportInv, Sends PROVE TransportInv'
  <1>1. /\ SendResolves(~CCR) \/ SendFails \/ SendFailsForGood \/ WakeUp
        /\ UNCHANGED transportVars
    BY DEF Sends
  <1>2. Up' BY <1>1, SendsKeepUp DEF TransportInv
  <1>3. ReleaseBackpressure \/ UNCHANGED <<ready, waiting>>
    BY <1>1 DEF SendResolves, SendFails, SendFailsForGood, WakeUp
  <1>4. WaitsOK(Waits, call)' BY <1>1, <1>3, WokenWaits DEF transportVars
  <1>5. TransportOK' BY <1>1 DEF transportVars, TransportInv, TransportOK
  <1>6. NumberOK' BY <1>1, NumbersStay DEF transportVars, TransportInv
  <1>7. QED BY <1>2, <1>4, <1>5, <1>6 DEF TransportInv

LEMMA StepTransport == TransportInv /\ [Next]_vars => TransportInv'
  <1>1. SUFFICES ASSUME TransportInv, [Next]_vars PROVE TransportInv'
    OBVIOUS
  <1> USE <1>1
  <1>2. CASE UNCHANGED vars
    BY <1>2 DEF vars, uploaderVars, transportVars, TransportInv, Up, UploaderTypeOK,
                UploaderInv, TransportOK, NumberOK, Written, Waits
  <1>3. QED
    BY <1>2, StreamEventKeeps, WriteKeeps, FlushCallKeeps, FlushAfterKeeps,
       TimerKeeps, RetryKeeps, CloseKeeps, SendsKeep DEF Next, Actors

LEMMA TransportHolds == Spec => []TransportInv
  BY InitTransport, StepTransport, PTL DEF Spec

(* Every variable stays in its type.                                       *)
THEOREM TypeCorrect == Spec => []TypeOK
  <1>1. TransportInv => TypeOK
    BY DEF TransportInv, Up, TransportOK, NumberOK, TypeOK, Actors
  <1>2. QED BY <1>1, TransportHolds, PTL

(* What the uploader holds never exceeds maxQueueSize and one batch, for any *)
(* sizes, events and callers.                                              *)
THEOREM UploaderBounded == Spec => []BacklogBounded
  <1>1. ASSUME TransportInv PROVE BacklogBounded
    <2>1. Len(Backlog) = Len(inflight) + Len(pending)
      BY <1>1, UpTypes, ConcatProperties DEF Backlog, TransportInv
    <2>2. QED BY <1>1, <2>1 DEF BacklogBounded, TransportInv, Up, UploaderInv
  <1>2. QED BY <1>1, TransportHolds, PTL
-------------------------------------------------------------------------------
(* The uploader implements the channel                                      *)

(* new is what is left of old when events that cannot be sent are taken out. *)
RestOf(new, old) ==
  \E f \in [1..Len(new) -> 1..Len(old)] :
     /\ \A j, k \in 1..Len(new) : j < k => f[j] < f[k]
     /\ \A j \in 1..Len(new) : new[j] = old[f[j]]
     /\ \A i \in 1..Len(old) :
          (\A j \in 1..Len(new) : f[j] # i) => old[i] \in Unserializable

LEMMA RestOfItself == ASSUME NEW old \in Seq(Events) PROVE RestOf(old, old)
  <1> DEFINE f == [i \in 1..Len(old) |-> i]
  <1>1. f \in [1..Len(old) -> 1..Len(old)] OBVIOUS
  <1>2. /\ \A j, k \in 1..Len(old) : j < k => f[j] < f[k]
        /\ \A j \in 1..Len(old) : old[j] = old[f[j]]
        /\ \A i \in 1..Len(old) :
             (\A j \in 1..Len(old) : f[j] # i) => old[i] \in Unserializable
    OBVIOUS
  <1> HIDE DEF f
  <1>3. QED BY <1>1, <1>2 DEF RestOf

LEMMA DrainedIsRest ==
  ASSUME NEW queue \in Seq(Events), Drain(queue)
  PROVE  RestOf(Backlog', queue)
  <1>1. inflight' \in Seq(Events) /\ pending' \in Seq(Events) /\ Len(queue) \in Nat
    BY DrainPicks, LenProperties
  <1>2. CASE inflight' = <<>> /\ pending' = queue
    <2>1. Backlog' = queue BY <1>1, <1>2, ConcatEmptySeq DEF Backlog
    <2>2. QED BY <2>1, RestOfItself
  <1>3. ASSUME NEW cut \in 1..Len(queue), NEW f \in [1..Len(inflight') -> 1..cut],
               \A k \in 1..Len(inflight') : inflight'[k] = queue[f[k]],
               \A j, k \in 1..Len(inflight') : j < k => f[j] < f[k],
               \A i \in 1..cut : i \notin Range(f) => queue[i] \in Unserializable,
               pending' = SubSeq(queue, cut + 1, Len(queue))
        PROVE  RestOf(Backlog', queue)
    <2> DEFINE n == Len(inflight')
               g == [j \in 1..(n + Len(queue) - cut) |-> IF j <= n THEN f[j] ELSE cut + (j - n)]
    <2>1. n \in Nat /\ cut \in Nat /\ cut <= Len(queue) BY <1>1, LenProperties
    <2>2. /\ Len(pending') = Len(queue) - cut
          /\ \A i \in 1..(Len(queue) - cut) : pending'[i] = queue[cut + i]
      <3>1. \A i \in (cut + 1)..Len(queue) : queue[i] \in Events
        BY <2>1, ElementOfSeq
      <3>2. /\ Len(pending') = IF cut + 1 <= Len(queue) THEN Len(queue) - (cut + 1) + 1 ELSE 0
            /\ \A i \in 1..(Len(queue) - (cut + 1) + 1) : pending'[i] = queue[(cut + 1) + i - 1]
        BY <1>1, <1>3, <2>1, <3>1, SubSeqProperties
      <3>3. QED BY <1>1, <2>1, <3>2
    <2>3. /\ Len(Backlog') = n + (Len(queue) - cut)
          /\ \A j \in 1..(n + (Len(queue) - cut)) :
               Backlog'[j] = IF j <= n THEN inflight'[j] ELSE pending'[j - n]
      <3>1. /\ Len(Backlog') = n + Len(pending')
            /\ \A j \in 1..(n + Len(pending')) :
                 Backlog'[j] = IF j <= n THEN inflight'[j] ELSE pending'[j - n]
        BY <1>1, ConcatProperties DEF Backlog
      <3> HIDE DEF n, g
      <3>2. Len(pending') = Len(queue) - cut BY <2>2
      <3>3. QED BY <3>1, <3>2
    <2>4. \A j \in 1..n : f[j] \in 1..cut OBVIOUS
    <2> HIDE DEF n
    <2>5. g \in [1..(n + Len(queue) - cut) -> 1..Len(queue)]
      <3>1. ASSUME NEW j \in 1..(n + Len(queue) - cut)
            PROVE  (IF j <= n THEN f[j] ELSE cut + (j - n)) \in 1..Len(queue)
        <4>1. CASE j <= n
          <5>1. j \in 1..n BY <2>1, <4>1
          <5>2. f[j] \in 1..cut BY <2>4, <5>1
          <5>3. QED BY <1>1, <2>1, <4>1, <5>2
        <4>2. CASE ~(j <= n) BY <1>1, <2>1, <4>2
        <4>3. QED BY <4>1, <4>2
      <3>2. QED BY <3>1
    <2>6. \A j, k \in 1..(n + Len(queue) - cut) : j < k => g[j] < g[k]
      <3>1. SUFFICES ASSUME NEW j \in 1..(n + Len(queue) - cut),
                            NEW k \in 1..(n + Len(queue) - cut), j < k
                     PROVE  g[j] < g[k]
        OBVIOUS
      <3>2. CASE k <= n
        <4>1. j \in 1..n /\ k \in 1..n BY <1>1, <2>1, <3>1, <3>2
        <4>2. f[j] < f[k] BY <1>3, <3>1, <4>1 DEF n
        <4>3. QED BY <3>1, <4>1, <4>2
      <3>3. CASE j <= n /\ ~(k <= n)
        <4>1. j \in 1..n BY <1>1, <2>1, <3>1, <3>3
        <4>2. f[j] <= cut /\ f[j] \in Nat BY <2>4, <4>1
        <4>3. QED BY <1>1, <2>1, <3>1, <3>3, <4>2
      <3>4. CASE ~(j <= n)
        BY <1>1, <2>1, <3>1, <3>4
      <3>5. QED BY <3>2, <3>3, <3>4
    <2>7. \A j \in 1..(n + Len(queue) - cut) : Backlog'[j] = queue[g[j]]
      <3>1. SUFFICES ASSUME NEW j \in 1..(n + Len(queue) - cut)
                     PROVE  Backlog'[j] = queue[g[j]]
        OBVIOUS
      <3>2. j \in 1..(n + (Len(queue) - cut)) BY <1>1, <2>1
      <3>3. CASE j <= n
        <4>1. j \in 1..n BY <1>1, <2>1, <3>2, <3>3
        <4>2. inflight'[j] = queue[f[j]] BY <1>3, <4>1 DEF n
        <4>3. QED BY <2>3, <3>2, <3>3, <4>2
      <3>4. CASE ~(j <= n)
        <4>1. j - n \in 1..(Len(queue) - cut) BY <1>1, <2>1, <3>2, <3>4
        <4>2. pending'[j - n] = queue[cut + (j - n)] BY <2>2, <4>1
        <4>3. QED BY <2>3, <3>2, <3>4, <4>2
      <3>5. QED BY <3>3, <3>4
    <2>8. ASSUME NEW i \in 1..Len(queue),
                 \A j \in 1..(n + Len(queue) - cut) : g[j] # i
          PROVE  queue[i] \in Unserializable
      <3>1. i <= cut
        <4>1. SUFFICES ASSUME ~(i <= cut) PROVE FALSE
          OBVIOUS
        <4>2. PICK j \in 1..(n + Len(queue) - cut) : ~(j <= n) /\ cut + (j - n) = i
          <5>1. /\ n + (i - cut) \in 1..(n + Len(queue) - cut) /\ ~(n + (i - cut) <= n)
                /\ cut + ((n + (i - cut)) - n) = i
            BY <1>1, <2>1, <4>1
          <5>2. QED BY <5>1
        <4>3. g[j] = i BY <4>2
        <4>4. QED BY <2>8, <4>3
      <3>2. i \notin Range(f)
        <4>1. SUFFICES ASSUME i \in Range(f) PROVE FALSE
          OBVIOUS
        <4>2. PICK j \in 1..n : f[j] = i BY <4>1 DEF Range, n
        <4>3. j \in 1..(n + Len(queue) - cut) /\ j <= n BY <1>1, <2>1, <4>2
        <4>4. g[j] = i BY <4>2, <4>3
        <4>5. QED BY <2>8, <4>3, <4>4
      <3>3. QED BY <1>1, <1>3, <2>1, <3>1, <3>2
    <2>9. n + Len(queue) - cut = Len(Backlog') BY <1>1, <2>1, <2>3
    <2> HIDE DEF g
    <2>10. QED BY <2>5, <2>6, <2>7, <2>8, <2>9 DEF RestOf
  <1>4. QED BY <1>2, <1>3, DrainPicks
LEMMA PartsOfJoin ==
  ASSUME NEW a \in Seq(Events), NEW b \in Seq(Events), NEW m \in Nat
  PROVE  /\ a \o b \in Seq(Events) /\ Len(a \o b) = Len(a) + Len(b)
         /\ Len(a) \in Nat /\ Len(b) \in Nat
         /\ SubSeq(a \o b, 1, Len(a)) = a
         /\ SubSeq(a \o b, Len(a) + 1, Len(a \o b)) = b
         /\ Len(a) > m => SubSeq(a \o b, m + 1, Len(a)) = SubSeq(a, m + 1, Len(a))
  <1>1. /\ a \o b \in Seq(Events) /\ Len(a \o b) = Len(a) + Len(b)
        /\ Len(a) \in Nat /\ Len(b) \in Nat
    BY ConcatProperties, LenProperties
  <1>2. SubSeq(a \o b, 1, Len(a)) = a
    <2>1. CASE Len(a) = 0
      <3>1. a = <<>> BY <2>1, EmptySeq
      <3>2. SubSeq(a \o b, 1, 0) = <<>> BY SubSeqEmpty
      <3>3. QED BY <2>1, <3>1, <3>2
    <2>2. CASE Len(a) # 0
      <3>1. 1 \in 1..Len(a) /\ Len(a) \in 1..Len(a) BY <1>1, <2>2
      <3>2. SubSeq(a \o b, 1, Len(a)) = SubSeq(a, 1, Len(a)) BY <3>1, SubSeqOfConcat1
      <3>3. QED BY <3>2, SubSeqFull
    <2>3. QED BY <2>1, <2>2
  <1>3. SubSeq(a \o b, Len(a) + 1, Len(a \o b)) = b
    <2>1. CASE Len(b) = 0
      <3>1. b = <<>> BY <2>1, EmptySeq
      <3>2. SubSeq(a \o b, Len(a) + 1, Len(a)) = <<>> BY <1>1, SubSeqEmpty
      <3>3. QED BY <1>1, <2>1, <3>1, <3>2
    <2>2. CASE Len(b) # 0
      <3> DEFINE m1 == Len(a) + 1
                 n1 == Len(a) + Len(b)
      <3>1. m1 \in (Len(a) + 1)..(Len(a) + Len(b)) /\ n1 \in (Len(a) + 1)..(Len(a) + Len(b))
        BY <1>1, <2>2
      <3>2. SubSeq(a \o b, m1, n1) = SubSeq(b, m1 - Len(a), n1 - Len(a))
        <4> HIDE DEF m1, n1
        <4>1. QED BY <3>1, SubSeqOfConcat2
      <3>3. m1 - Len(a) = 1 /\ n1 - Len(a) = Len(b) BY <1>1
      <3>4. QED BY <1>1, <3>2, <3>3, SubSeqFull
    <2>3. QED BY <2>1, <2>2
  <1>4. Len(a) > m => SubSeq(a \o b, m + 1, Len(a)) = SubSeq(a, m + 1, Len(a))
    <2>1. SUFFICES ASSUME Len(a) > m
                   PROVE  SubSeq(a \o b, m + 1, Len(a)) = SubSeq(a, m + 1, Len(a))
      OBVIOUS
    <2>2. m + 1 \in 1..Len(a) /\ Len(a) \in 1..Len(a) BY <1>1, <2>1
    <2>3. QED BY <2>2, SubSeqOfConcat1
  <1>5. QED BY <1>1, <1>2, <1>3, <1>4

LEMMA BacklogParts ==
  ASSUME Up
  PROVE  /\ Backlog \in Seq(Events) /\ seen \in Nat
         /\ Len(Backlog) = Len(inflight) + Len(pending)
         /\ Len(inflight) \in Nat /\ Len(pending) \in Nat
         /\ SubSeq(Backlog, 1, Len(inflight)) = inflight
         /\ SubSeq(Backlog, Len(inflight) + 1, Len(Backlog)) = pending
         /\ Len(inflight) > seen => SubSeq(Backlog, seen + 1, Len(inflight))
                                      = SubSeq(inflight, seen + 1, Len(inflight))
  <1>1. inflight \in Seq(Events) /\ pending \in Seq(Events) /\ seen \in Nat
    BY UpTypes
  <1>2. /\ inflight \o pending \in Seq(Events)
        /\ Len(inflight \o pending) = Len(inflight) + Len(pending)
        /\ Len(inflight) \in Nat /\ Len(pending) \in Nat
        /\ SubSeq(inflight \o pending, 1, Len(inflight)) = inflight
        /\ SubSeq(inflight \o pending, Len(inflight) + 1, Len(inflight \o pending)) = pending
        /\ Len(inflight) > seen => SubSeq(inflight \o pending, seen + 1, Len(inflight))
                                     = SubSeq(inflight, seen + 1, Len(inflight))
    BY <1>1, PartsOfJoin
  <1>3. QED BY <1>1, <1>2 DEF Backlog

ChannelStep == [Channel!ChannelNext]_<<Backlog, seen, log, ~closed>>

(* What the answers of the server and close() do: nothing new comes in.     *)
ChannelMove ==
  \/ Channel!Attempt \/ Channel!Finish \/ Channel!Close
  \/ UNCHANGED <<Backlog, seen, log, ~closed>>

LEMMA MoveIsStep == ChannelMove => ChannelStep
  BY DEF ChannelMove, ChannelStep, Channel!ChannelNext

(* The batch is done with, sent or not.                                    *)
LEMMA BatchDone ==
  ASSUME Up, Drain(pending), LeavesBacklog, Arrives \/ UNCHANGED log, UNCHANGED closed
  PROVE  ChannelMove
  <1> DEFINE n == Len(inflight)
  <1>1. /\ Len(Backlog) = n + Len(pending) /\ n \in Nat /\ Len(pending) \in Nat
        /\ SubSeq(Backlog, n + 1, Len(Backlog)) = pending
        /\ n > seen => SubSeq(Backlog, seen + 1, n) = SubSeq(inflight, seen + 1, n)
    BY BacklogParts
  <1>2. n \in 0..Len(Backlog) BY <1>1
  <1>3. Channel!Reach(n) \/ log' = log
    BY <1>1 DEF Channel!Reach, Arrives
  <1>4. Channel!Shrinks(Channel!Without(n))
    <2>1. Channel!Without(n) = pending BY <1>1 DEF Channel!Without
    <2>2. RestOf(Backlog', pending) BY UpTypes, DrainedIsRest
    <2>3. Channel!Shrinks(pending) BY <2>2 DEF RestOf, Channel!Shrinks
    <2>4. QED BY <2>1, <2>3
  <1>5. seen' = IF seen > n THEN seen - n ELSE 0 BY DEF LeavesBacklog
  <1> HIDE DEF n
  <1>6. Channel!Finish BY <1>2, <1>3, <1>4, <1>5 DEF Channel!Finish
  <1>7. QED BY <1>6 DEF ChannelMove

LEMMA WakeUpStep ==
  ASSUME Up, WakeUp PROVE ChannelMove
  <1>1. /\ inflight = <<>> /\ Drain(pending) /\ UNCHANGED <<closed, log, seen>>
    BY DEF Up, UploaderInv, WakeUp
  <1>2. Backlog = pending /\ pending \in Seq(Events) /\ Len(pending) \in Nat /\ seen \in Nat
    BY <1>1, UpTypes, ConcatEmptySeq DEF Backlog
  <1>3. Channel!Without(0) = pending
    BY <1>2, SubSeqFull DEF Channel!Without
  <1>4. RestOf(Backlog', pending) BY <1>1, <1>2, DrainedIsRest
  <1>5. Channel!Shrinks(pending) BY <1>4 DEF RestOf, Channel!Shrinks
  <1>6. 0 \in 0..Len(Backlog) BY <1>2
  <1>7. seen' = IF seen > 0 THEN seen - 0 ELSE 0 BY <1>1, <1>2
  <1>8. Channel!Finish BY <1>1, <1>3, <1>5, <1>6, <1>7 DEF Channel!Finish
  <1>9. QED BY <1>8 DEF ChannelMove

LEMMA SendFailsStep ==
  ASSUME Up, SendFails PROVE ChannelMove
  <1> DEFINE n == Len(inflight)
  <1>1. /\ Len(Backlog) = n + Len(pending) /\ n \in Nat /\ Len(pending) \in Nat
        /\ n > seen => SubSeq(Backlog, seen + 1, n) = SubSeq(inflight, seen + 1, n)
        /\ Backlog \in Seq(Events) /\ seen \in Nat
    BY BacklogParts
  <1>2. Backlog' = Backlog
    <2>1. Backlog' = <<>> \o (inflight \o pending) BY DEF SendFails, Backlog
    <2>2. QED BY <1>1, <2>1, ConcatEmptySeq DEF Backlog
  <1>3. CASE UNCHANGED <<log, seen>>
    BY <1>2, <1>3 DEF SendFails, ChannelMove
  <1>4. CASE Arrives /\ seen' = IF n > seen THEN n ELSE seen
    <2>1. n \in 0..Len(Backlog) BY <1>1
    <2>2. Channel!Reach(n) BY <1>1, <1>4 DEF Channel!Reach, Arrives
    <2>3. UNCHANGED closed BY DEF SendFails
    <2> HIDE DEF n
    <2>4. Channel!Attempt BY <1>2, <1>4, <2>1, <2>2, <2>3 DEF Channel!Attempt
    <2>5. QED BY <2>4 DEF ChannelMove
  <1>5. QED BY <1>3, <1>4 DEF SendFails

LEMMA EnqueueStep ==
  ASSUME Up, NEW items \in Seq(Events), NEW wait, NEW flushes,
         EnqueueOr(items, wait, flushes)
  PROVE  ChannelStep
  <1>1. UNCHANGED <<seen, log, closed>> BY DEF EnqueueOr
  <1>2. CASE UNCHANGED <<pending, inflight>>
    BY <1>1, <1>2 DEF ChannelStep, Backlog
  <1>3. CASE ~closed /\ Push(items)
    <2>1. /\ Backlog \in Seq(Events) /\ Len(Backlog) \in Nat
          /\ pending \o items \in Seq(Events)
      BY UpTypes, ConcatProperties, LenProperties DEF Backlog
    <2>2. CASE phase = "idle"
      <3>1. inflight = <<>> /\ pending = <<>> BY <1>3, <2>2 DEF Up, UploaderInv
      <3>2. Backlog = <<>> BY <3>1, EmptySeq, ConcatEmptySeq DEF Backlog
      <3>3. Drain(pending \o items) BY <1>3, <2>2 DEF Push
      <3>4. Backlog' \in Seq(Events)
        BY <2>1, <3>3, DrainPicks, ConcatProperties DEF Backlog
      <3>5. Len(Backlog) = 0 /\ Len(Backlog') \in Nat BY <3>2, <3>4, EmptySeq, LenProperties
      <3>6. SubSeq(Backlog', 1, Len(Backlog)) = <<>>
        <4>1. SubSeq(Backlog', 1, 0) = <<>> BY SubSeqEmpty
        <4>2. QED BY <3>5, <4>1
      <3>7. Channel!Accept
        BY <1>1, <1>3, <3>2, <3>5, <3>6 DEF Channel!Accept
      <3>8. QED BY <3>7 DEF ChannelStep, Channel!ChannelNext
    <2>3. CASE phase # "idle"
      <3>1. pending' = pending \o items /\ UNCHANGED inflight
        BY <1>3, <2>3 DEF Push
      <3>2. Backlog' = Backlog \o items
        <4>1. inflight \in Seq(Events) /\ pending \in Seq(Events) BY UpTypes
        <4>2. inflight \o (pending \o items) = (inflight \o pending) \o items
          BY <4>1, ConcatAssociative
        <4>3. Backlog' = inflight \o (pending \o items) BY <3>1 DEF Backlog
        <4>4. QED BY <4>2, <4>3 DEF Backlog
      <3>3. /\ Len(Backlog \o items) = Len(Backlog) + Len(items) /\ Len(items) \in Nat
            /\ SubSeq(Backlog \o items, 1, Len(Backlog)) = Backlog
        BY <2>1, PartsOfJoin
      <3>4. Channel!Accept
        BY <1>1, <1>3, <2>1, <3>2, <3>3 DEF Channel!Accept
      <3>5. QED BY <3>4 DEF ChannelStep, Channel!ChannelNext
    <2>4. QED BY <2>2, <2>3
  <1>4. QED BY <1>2, <1>3 DEF EnqueueOr

LEMMA CloseStep ==
  ASSUME Up, CloseUploader PROVE ChannelMove
  <1>1. CASE closed
    BY <1>1 DEF CloseUploader, ChannelMove, Backlog
  <1>2. CASE ~closed
    <2> DEFINE n == Len(inflight)
    <2>1. /\ Len(Backlog) = n + Len(pending) /\ n \in Nat /\ Len(pending) \in Nat
          /\ SubSeq(Backlog, 1, n) = inflight
      BY BacklogParts
    <2>2. /\ closed' = TRUE /\ pending' = <<>> /\ inflight' = inflight /\ log' = log
          /\ seen' = IF seen > n THEN n ELSE seen
      BY <1>2 DEF CloseUploader
    <2>3. Backlog' = inflight BY <2>2, UpTypes, ConcatEmptySeq DEF Backlog
    <2>4. n \in 0..Len(Backlog) BY <2>1
    <2> HIDE DEF n
    <2>5. Channel!Close BY <1>2, <2>1, <2>2, <2>3, <2>4 DEF Channel!Close
    <2>6. QED BY <2>5 DEF ChannelMove
  <1>3. QED BY <1>1, <1>2
LEMMA StepIsChannel ==
  ASSUME TransportInv, [Next]_vars PROVE ChannelStep
  <1>u. Up /\ buffer \in Seq(Events) /\ ready \in Seq(Enqueues)
    BY UpTypes DEF TransportInv, TransportOK
  <1>m. \A c \in Calls : Messages[c] \in Seq(Events) /\ buffer \o Messages[c] \in Seq(Events)
    BY <1>u, TransportConstants, ConcatProperties
  <1>1. CASE UNCHANGED uploaderVars
    BY <1>1 DEF uploaderVars, ChannelStep, Backlog
  <1>2. ASSUME NEW caller, NEW items \in Seq(Events), NEW flushes,
               Enqueue(caller, items, flushes)
        PROVE  ChannelStep
    BY <1>2, <1>u, EnqueueStep DEF Enqueue
  <1>3. \A c \in Calls : HybridWrite(c) \/ CCRWrite(c) \/ CCRWriteMessage(c) => ChannelStep
    BY <1>2, <1>u, <1>m DEF HybridWrite, CCRWrite, CCRWriteMessage, EnqueueThen
  <1>4. \A f \in Flushers : FlushCall(f) => ChannelStep
    BY <1>2, <1>u DEF FlushCall, EnqueueThen, EnqueueUnawaited
  <1>5. TimerFires => ChannelStep
    BY <1>2, <1>u DEF TimerFires, EnqueueUnawaited
  <1>6. Retry => ChannelStep
    <2>1. SUFFICES ASSUME Retry PROVE ChannelStep
      OBVIOUS
    <2>2. ready # <<>> /\ EnqueueOr(Head(ready).items, Append(waiting, Head(ready)), {})
      BY <2>1 DEF Retry, EnqueueAgain
    <2>3. Head(ready) \in Enqueues BY <1>u, <2>2, HeadTailProperties
    <2>4. Head(ready).items \in Seq(Events) BY <2>3 DEF Enqueues
    <2>5. QED BY <1>u, <2>2, <2>4, EnqueueStep
  <1>7. \A caller : Flush(caller) => ChannelStep
    BY DEF Flush, ChannelStep, Backlog
  <1>8. CloseTransport \/ GraceEnds \/ (\E c \in Calls \cup Flushers : FlushAfter(c))
          => ChannelStep
    BY <1>7, <1>u, CloseStep, MoveIsStep DEF CloseTransport, GraceEnds, FlushAfter
  <1>9. Sends => ChannelStep
    <2>1. SUFFICES ASSUME Sends PROVE ChannelStep
      OBVIOUS
    <2>2. CASE SendResolves(~CCR) \/ SendFailsForGood
      <3>1. /\ Drain(pending)
            /\ LeavesBacklog
            /\ Arrives \/ UNCHANGED log
            /\ UNCHANGED closed
        BY <2>2 DEF SendResolves, SendFailsForGood
      <3>2. QED BY <1>u, <3>1, BatchDone, MoveIsStep
    <2>3. CASE SendFails BY <1>u, <2>3, SendFailsStep, MoveIsStep
    <2>4. CASE WakeUp BY <1>u, <2>4, WakeUpStep, MoveIsStep
    <2>5. QED BY <2>1, <2>2, <2>3, <2>4 DEF Sends
  <1>10. \A e \in StreamEvents : WriteStreamEvent(e) => UNCHANGED uploaderVars
    BY DEF WriteStreamEvent
  <1>11. UNCHANGED vars => UNCHANGED uploaderVars BY DEF vars
  <1>12. QED
    BY <1>1, <1>3, <1>4, <1>5, <1>6, <1>8, <1>9, <1>10, <1>11 DEF Next

(* The uploader of either transport is a first-in-first-out channel that may *)
(* repeat and give up events but neither loses, reorders nor invents any.   *)
THEOREM ImplementsChannel == Spec => ChannelSpec
  <1>1. Init => Channel!ChannelInit
    <2>1. SUFFICES ASSUME Init PROVE Backlog = <<>> /\ seen = 0 /\ log = <<>> /\ ~closed
      BY DEF Channel!ChannelInit
    <2>2. inflight = <<>> /\ pending = <<>> /\ seen = 0 /\ log = <<>> /\ ~closed
      BY <2>1 DEF Init, UploaderInit
    <2>3. <<>> \o <<>> = <<>> BY EmptySeq, ConcatEmptySeq
    <2>4. QED BY <2>2, <2>3 DEF Backlog
  <1>2. TransportInv /\ [Next]_vars => [Channel!ChannelNext]_Channel!channelVars
    BY StepIsChannel DEF ChannelStep, Channel!channelVars
  <1>3. QED BY <1>1, <1>2, TransportHolds, PTL DEF Spec, ChannelSpec, Channel!ChannelSpec
-------------------------------------------------------------------------------
(* Calls return only when their events were posted or given up              *)

Posted == Range(log) \cup givenUp

Kept == Posted \cup Range(Backlog)

(* What a call is owed is posted, given up or still held by the uploader,    *)
(* or by the enqueue() that the call waits in.  A flush() is not owed what   *)
(* waits for room.                                                          *)
HeldForCalls ==
  /\ \A w \in Range(Waits) : w.by \in Calls =>
       owed[w.by] \subseteq Kept \cup Range(w.items)
  /\ \A c \in Calls : call[c] \in {"flush", "done"} => owed[c] \subseteq Kept
  /\ \A f \in Flushers : owed[f] \subseteq Kept \cup late

(* Steps that only some calls come to.                                     *)
CallsAt ==
  /\ \A c \in Calls : call[c] \in {"streams", "message"} => CCR
  /\ \A f \in Flushers : call[f] # "room"

OwedInv ==
  /\ CCR => \A c \in Calls : owed[c] = {}
  /\ CallsAt
  /\ ~closed => HeldForCalls
  /\ ResolvedMeansPosted

(* What a step of the uploader does for those who wait: nothing that was     *)
(* posted or held is lost, and who need not wait for a flush any more, of    *)
(* those in flushes too, finds the uploader empty.                          *)
Settles(flushes) ==
  /\ Posted \subseteq Posted'
  /\ ~closed' => Kept \subseteq Kept'
  /\ flushing' = flushing \cup flushes \/ closed' \/ Kept' = Posted'

LEMMA RangeOfConcat ==
  ASSUME NEW S, NEW a \in Seq(S), NEW b \in Seq(S)
  PROVE  Range(a \o b) = Range(a) \cup Range(b)
  <1>1. /\ DOMAIN (a \o b) = 1..(Len(a) + Len(b)) /\ DOMAIN a = 1..Len(a)
        /\ DOMAIN b = 1..Len(b) /\ Len(a) \in Nat /\ Len(b) \in Nat
        /\ \A i \in 1..(Len(a) + Len(b)) :
             (a \o b)[i] = IF i <= Len(a) THEN a[i] ELSE b[i - Len(a)]
    BY ConcatProperties, LenProperties
  <1>2. \A e \in Range(a) : e \in Range(a \o b)
    <2>1. SUFFICES ASSUME NEW i \in 1..Len(a) PROVE a[i] \in Range(a \o b)
      BY <1>1 DEF Range
    <2>2. i \in 1..(Len(a) + Len(b)) /\ (a \o b)[i] = a[i] BY <1>1
    <2>3. QED BY <1>1, <2>2 DEF Range
  <1>3. \A e \in Range(b) : e \in Range(a \o b)
    <2>1. SUFFICES ASSUME NEW i \in 1..Len(b) PROVE b[i] \in Range(a \o b)
      BY <1>1 DEF Range
    <2>2. i + Len(a) \in 1..(Len(a) + Len(b)) /\ (a \o b)[i + Len(a)] = b[i] BY <1>1
    <2>3. QED BY <1>1, <2>2 DEF Range
  <1>4. \A e \in Range(a \o b) : e \in Range(a) \cup Range(b)
    <2>1. SUFFICES ASSUME NEW i \in 1..(Len(a) + Len(b))
                   PROVE  (a \o b)[i] \in Range(a) \cup Range(b)
      BY <1>1 DEF Range
    <2>2. CASE i <= Len(a)
      <3>1. i \in 1..Len(a) /\ (a \o b)[i] = a[i] BY <1>1, <2>2
      <3>2. QED BY <1>1, <3>1 DEF Range
    <2>3. CASE ~(i <= Len(a))
      <3>1. i - Len(a) \in 1..Len(b) /\ (a \o b)[i] = b[i - Len(a)] BY <1>1, <2>3
      <3>2. QED BY <1>1, <3>1 DEF Range
    <2>4. QED BY <2>2, <2>3
  <1>5. QED BY <1>2, <1>3, <1>4

LEMMA RangeOfBacklog ==
  ASSUME Up
  PROVE  /\ Range(Backlog) = Range(inflight) \cup Range(pending)
         /\ pending = <<>> /\ phase = "idle" => Range(Backlog) = {}
  <1>1. Range(Backlog) = Range(inflight) \cup Range(pending)
    BY UpTypes, RangeOfConcat DEF Backlog
  <1>2. Range(<<>>) = {} BY DEF Range
  <1>3. QED BY <1>1, <1>2 DEF Up, UploaderInv

LEMMA Notified ==
  ASSUME Up', NEW flushes, NotifyFlushes(flushes)
  PROVE  flushing' = flushing \cup flushes \/ Kept' = Posted'
  <1>1. ASSUME pending' = <<>>, phase' = "idle" PROVE Range(Backlog') = {}
    <2>1. inflight' = <<>> BY <1>1 DEF Up, UploaderInv
    <2>2. Backlog' = <<>> BY <1>1, <2>1, EmptySeq, ConcatEmptySeq DEF Backlog
    <2>3. QED BY <2>2 DEF Range
  <1>2. QED BY <1>1 DEF NotifyFlushes, Kept

LEMMA LogGrows ==
  ASSUME Up, Arrives \/ UNCHANGED log
  PROVE  Range(log) \subseteq Range(log')
  <1>1. CASE log' = log BY <1>1
  <1>2. CASE Len(inflight) > seen /\ log' = log \o SubSeq(inflight, seen + 1, Len(inflight))
    <2>1. \A i \in (seen + 1)..Len(inflight) : inflight[i] \in Events
      BY UpTypes, ElementOfSeq
    <2>2. SubSeq(inflight, seen + 1, Len(inflight)) \in Seq(Events)
      BY <2>1, UpTypes, SubSeqProperties
    <2> DEFINE new == SubSeq(inflight, seen + 1, Len(inflight))
    <2>3. log \in Seq(Events) /\ new \in Seq(Events) BY <2>2, UpTypes
    <2> HIDE DEF new
    <2>4. Range(log \o new) = Range(log) \cup Range(new) BY <2>3, RangeOfConcat
    <2>5. QED BY <1>2, <2>4 DEF new
  <1>3. QED BY <1>1, <1>2 DEF Arrives

(* An answer or the end of the delay.                                      *)
LEMMA SendsSettle ==
  ASSUME Up, Up', Sends PROVE Settles({})
  <1>b. Range(Backlog) = Range(inflight) \cup Range(pending) BY RangeOfBacklog
  <1>c. Range(Backlog') = Range(inflight') \cup Range(pending')
    <2>1. inflight' \in Seq(Events) /\ pending' \in Seq(Events)
      BY DEF Up, UploaderTypeOK
    <2>2. QED BY <2>1, RangeOfConcat DEF Backlog
  <1>1. CASE SendResolves(~CCR) \/ SendFailsForGood
    <2>1. /\ Arrives \/ UNCHANGED log
          /\ NotifyFlushes({})
          /\ givenUp' = givenUp \cup Discards(pending) \cup (Range(inflight) \ Range(log'))
      BY <1>1 DEF SendResolves, SendFailsForGood
    <2>2. Posted \subseteq Posted' BY <2>1, LogGrows DEF Posted
    <2>3. Range(pending) \subseteq Kept' BY <1>c, <2>1 DEF Kept, Posted, Discards
    <2>4. Range(inflight) \subseteq Posted' BY <2>1 DEF Posted
    <2>5. Kept \subseteq Kept' BY <1>b, <2>2, <2>3, <2>4 DEF Kept
    <2>6. QED BY <2>1, <2>2, <2>5, Notified DEF Settles
  <1>2. CASE SendFails
    <2>1. Backlog' = Backlog
      <3>1. Backlog' = <<>> \o (inflight \o pending) BY <1>2 DEF SendFails, Backlog
      <3>2. inflight \o pending \in Seq(Events) BY UpTypes, ConcatProperties
      <3>3. QED BY <3>1, <3>2, ConcatEmptySeq DEF Backlog
    <2>2. Arrives \/ UNCHANGED log BY <1>2 DEF SendFails
    <2>3. UNCHANGED <<givenUp, flushing>> BY <1>2 DEF SendFails
    <2>4. Posted \subseteq Posted' BY <2>2, <2>3, LogGrows DEF Posted
    <2>5. QED BY <2>1, <2>3, <2>4 DEF Settles, Kept
  <1>3. CASE WakeUp
    <2>1. /\ inflight = <<>> /\ log' = log /\ NotifyFlushes({})
          /\ givenUp' = givenUp \cup Discards(pending)
      BY <1>3 DEF Up, UploaderInv, WakeUp
    <2>2. Range(inflight) = {} BY <2>1 DEF Range
    <2>3. Posted \subseteq Posted' BY <2>1 DEF Posted
    <2>4. Range(pending) \subseteq Kept' BY <1>c, <2>1 DEF Kept, Posted, Discards
    <2>5. Kept \subseteq Kept' BY <1>b, <2>2, <2>3, <2>4 DEF Kept
    <2>6. QED BY <2>1, <2>3, <2>5, Notified DEF Settles
  <1>4. QED BY <1>1, <1>2, <1>3 DEF Sends

(* An enqueue() that returns has handed its items over.                    *)
LEMMA EnqueueSettles ==
  ASSUME Up, Up', NEW items \in Seq(Events), NEW wait, NEW flushes,
         EnqueueOr(items, wait, flushes)
  PROVE  /\ Settles(flushes) /\ closed' = closed
         /\ ~closed /\ Returns(items) => Range(items) \subseteq Kept'
  <1>b. Range(Backlog) = Range(inflight) \cup Range(pending) BY RangeOfBacklog
  <1>c. Range(Backlog') = Range(inflight') \cup Range(pending')
    <2>1. inflight' \in Seq(Events) /\ pending' \in Seq(Events)
      BY DEF Up, UploaderTypeOK
    <2>2. QED BY <2>1, RangeOfConcat DEF Backlog
  <1>n. flushing' = flushing \cup flushes \/ Kept' = Posted'
    BY Notified DEF EnqueueOr
  <1>l. log' = log /\ closed' = closed BY DEF EnqueueOr
  <1>1. CASE closed \/ ~Returns(items)
    <2>1. UNCHANGED <<pending, inflight, givenUp>> BY <1>1 DEF EnqueueOr, Returns
    <2>2. Kept' = Kept /\ Posted' = Posted BY <1>l, <2>1 DEF Kept, Posted, Backlog
    <2>3. QED BY <1>1, <1>l, <1>n, <2>2 DEF Settles
  <1>2. CASE ~closed /\ items = <<>> /\ UNCHANGED <<pending, inflight, givenUp>>
    <2>1. Kept' = Kept /\ Posted' = Posted BY <1>l, <1>2 DEF Kept, Posted, Backlog
    <2>2. Range(items) = {} BY <1>2 DEF Range
    <2>3. QED BY <1>l, <1>n, <2>1, <2>2 DEF Settles
  <1>3. CASE ~closed /\ Push(items)
             /\ givenUp' = givenUp \cup Discards(pending \o items)
    <2>1. Range(pending \o items) = Range(pending) \cup Range(items)
      BY UpTypes, RangeOfConcat
    <2>2. Range(pending \o items) \subseteq Kept'
      BY <1>3, <1>c DEF Discards, Kept, Posted
    <2>3. Range(inflight) \subseteq Kept'
      <3>1. CASE phase = "idle"
        <4>1. inflight = <<>> BY <3>1 DEF Up, UploaderInv
        <4>2. QED BY <4>1 DEF Range
      <3>2. CASE phase # "idle"
        <4>1. inflight' = inflight BY <1>3, <3>2 DEF Push
        <4>2. QED BY <1>c, <4>1 DEF Kept
      <3>3. QED BY <3>1, <3>2
    <2>4. Posted \subseteq Posted' BY <1>3, <1>l DEF Posted
    <2>5. Posted' \subseteq Kept' BY DEF Kept
    <2>6. Kept \subseteq Kept' BY <1>b, <2>1, <2>2, <2>3, <2>4, <2>5 DEF Kept
    <2>7. QED BY <1>l, <1>n, <2>1, <2>2, <2>4, <2>6 DEF Settles
  <1>4. QED BY <1>1, <1>2, <1>3 DEF EnqueueOr, Returns

LEMMA FlushSettles ==
  ASSUME Up, Up', NEW caller, Flush(caller)
  PROVE  Settles({caller}) /\ closed' = closed
  <1>1. UNCHANGED <<pending, inflight, log, givenUp, closed>> BY DEF Flush
  <1>2. Kept' = Kept /\ Posted' = Posted BY <1>1 DEF Kept, Posted, Backlog
  <1>3. QED BY <1>1, <1>2, Notified DEF Flush, Settles

LEMMA CloseSettles ==
  ASSUME CloseUploader PROVE Settles({}) /\ closed'
  <1>1. CASE closed
    BY <1>1 DEF CloseUploader, Settles, Posted
  <1>2. CASE ~closed
    BY <1>2 DEF CloseUploader, Settles, Posted
  <1>3. QED BY <1>1, <1>2

(* What becomes of the enqueues that wait.                                 *)
LEMMA WaitsAfterEnqueue ==
  ASSUME TransportInv, NEW caller \in Callers \cup {Nobody},
         NEW items \in Seq(Events), NEW flushes,
         Enqueue(caller, items, flushes)
  PROVE  /\ Range(Waits') \subseteq Range(Waits) \cup {[by |-> caller, items |-> items]}
         /\ Returns(items) => Waits' = Waits
  <1> DEFINE e == [by |-> caller, items |-> items]
  <1>1. e \in Enqueues BY DEF Enqueues
  <1>2. /\ ready' = ready
        /\ waiting' = waiting \/ (~Returns(items) /\ waiting' = Append(waiting, e))
    BY DEF Enqueue, EnqueueOr
  <1> HIDE DEF e
  <1>3. CASE waiting' = waiting BY <1>2, <1>3 DEF Waits
  <1>4. CASE ~Returns(items) /\ waiting' = Append(waiting, e)
    <2>1. Waits' = Waits \o <<e>> BY <1>1, <1>2, <1>4, WaitsTypes DEF Waits
    <2>2. Waits \in Seq(Enqueues) /\ <<e>> \in Seq(Enqueues) BY <1>1, WaitsTypes
    <2>3. Range(Waits \o <<e>>) = Range(Waits) \cup Range(<<e>>)
      BY <2>2, RangeOfConcat
    <2>4. Range(<<e>>) = {e} BY DEF Range
    <2>5. QED BY <1>4, <2>1, <2>3, <2>4 DEF e
  <1>5. QED BY <1>2, <1>3, <1>4

LEMMA WaitsAfterRetry ==
  ASSUME TransportInv, Retry
  PROVE  /\ Head(ready) \in Enqueues /\ Head(ready) \in Range(Waits)
         /\ Range(Waits') \subseteq Range(Waits)
  <1> DEFINE e == Head(ready)
  <1>r. \A a, b \in Seq(Enqueues) : Range(a \o b) = Range(a) \cup Range(b)
    BY RangeOfConcat
  <1>1. /\ ready \in Seq(Enqueues) /\ ready # <<>> /\ waiting \in Seq(Enqueues)
        /\ ready' = Tail(ready)
        /\ waiting' = waiting \/ waiting' = Append(waiting, e)
    BY UpTypes DEF Retry, EnqueueAgain, EnqueueOr, TransportInv
  <1>2. /\ e \in Enqueues /\ Tail(ready) \in Seq(Enqueues)
        /\ e \in Range(ready) /\ Range(Tail(ready)) \subseteq Range(ready)
    <2>1. /\ Head(ready) \in Enqueues /\ Head(ready) = ready[1]
          /\ Tail(ready) \in Seq(Enqueues) /\ Len(Tail(ready)) = Len(ready) - 1
          /\ \A i \in 1..Len(Tail(ready)) : Tail(ready)[i] = ready[i + 1]
      BY <1>1, HeadTailProperties
    <2>2. Len(ready) \in Nat \ {0} /\ DOMAIN ready = 1..Len(ready)
      BY <1>1, EmptySeq, LenProperties
    <2>3. DOMAIN Tail(ready) = 1..(Len(ready) - 1) BY <2>1, LenProperties
    <2>4. Head(ready) \in Range(ready) BY <2>1, <2>2 DEF Range
    <2>5. \A i \in DOMAIN Tail(ready) : Tail(ready)[i] = ready[i + 1] /\ i + 1 \in DOMAIN ready
      BY <2>1, <2>2, <2>3
    <2>6. Range(Tail(ready)) \subseteq Range(ready) BY <2>5 DEF Range
    <2>7. QED BY <2>1, <2>4, <2>6
  <1>3. Range(Waits) = Range(ready) \cup Range(waiting)
    BY <1>1, <1>r DEF Waits
  <1> HIDE DEF e
  <1>4. waiting' \in Seq(Enqueues) /\ Range(waiting') \subseteq Range(waiting) \cup {e}
    <2>1. Append(waiting, e) = waiting \o <<e>> BY <1>1, <1>2, AppendIsConcat
    <2>2. <<e>> \in Seq(Enqueues) /\ Range(<<e>>) = {e} BY <1>2 DEF Range
    <2>3. Range(waiting \o <<e>>) = Range(waiting) \cup {e}
      BY <1>1, <2>2, <1>r
    <2>4. waiting \o <<e>> \in Seq(Enqueues) BY <1>1, <2>2, ConcatProperties
    <2>5. QED BY <1>1, <2>1, <2>3, <2>4
  <1>5. Range(Waits') = Range(Tail(ready)) \cup Range(waiting')
    <2>1. Waits' = Tail(ready) \o waiting' BY <1>1 DEF Waits
    <2>2. QED BY <1>2, <1>4, <1>r, <2>1
  <1>6. QED BY <1>2, <1>3, <1>4, <1>5 DEF e

LEMMA WaitsAfterRelease ==
  ASSUME TransportInv, ReleaseBackpressure \/ UNCHANGED <<ready, waiting>>
  PROVE  Waits' = Waits
  <1>1. CASE ReleaseBackpressure
    <2>1. Waits' = Waits \o <<>> BY <1>1 DEF ReleaseBackpressure, Waits
    <2>2. QED BY <2>1, WaitsTypes
  <1>2. CASE UNCHANGED <<ready, waiting>> BY <1>2 DEF Waits
  <1>3. QED BY <1>1, <1>2

(* A call is done once it was done before, waits for a flush or is owed      *)
(* nothing.                                                                *)
LEMMA SettledCalls ==
  ASSUME OwedInv, NEW flushes, Settles(flushes), closed => closed',
         late \subseteq late', ~closed' => HeldForCalls',
         \A c \in Actors : call'[c] = "done" =>
           \/ call[c] = "done" /\ owed'[c] = owed[c]
           \/ c \in flushes
           \/ owed'[c] = {}
  PROVE  ResolvedMeansPosted'
  <1>1. SUFFICES ASSUME NEW c \in Calls \cup Flushers,
                        call'[c] = "done", c \notin flushing', ~closed'
                 PROVE  owed'[c] \ (IF c \in Flushers THEN late' ELSE {}) \subseteq Posted'
    BY DEF ResolvedMeansPosted, Posted
  <1>2. CASE Kept' = Posted'
    BY <1>1, <1>2 DEF HeldForCalls
  <1>3. CASE flushing' = flushing \cup flushes /\ call[c] = "done" /\ owed'[c] = owed[c]
    <2>1. owed[c] \ (IF c \in Flushers THEN late ELSE {}) \subseteq Posted
      BY <1>1, <1>3 DEF OwedInv, ResolvedMeansPosted, Posted
    <2>2. QED BY <1>3, <2>1 DEF Settles
  <1>4. CASE flushing' = flushing \cup flushes /\ c \in flushes
    BY <1>1, <1>4
  <1>5. CASE owed'[c] = {} BY <1>5
  <1>6. QED BY <1>1, <1>2, <1>3, <1>4, <1>5 DEF Settles, Actors

LEMMA HeldStays ==
  ASSUME HeldForCalls, Kept \subseteq Kept', late \subseteq late', owed' = owed,
         \A w \in Range(Waits') :
           w \in Range(Waits) \/ w.by \notin Calls \/ owed[w.by] = {},
         \A c \in Calls : call'[c] \in {"flush", "done"} =>
           call[c] \in {"flush", "done"} \/ owed[c] \subseteq Kept'
  PROVE  HeldForCalls'
  BY DEF HeldForCalls

LEMMA HybridWriteOwed ==
  ASSUME TransportInv, TransportInv', OwedInv, NEW c \in Calls, HybridWrite(c)
  PROVE  OwedInv'
  <1> DEFINE items == buffer \o Messages[c]
             e == [by |-> c, items |-> items]
  <1>1. /\ ~CCR /\ call[c] = "idle" /\ Enqueue(c, items, {})
        /\ call' = [call EXCEPT ![c] = IF Returns(items) THEN "flush" ELSE "room"]
        /\ late' = IF Returns(items) THEN late ELSE late \cup Range(items)
        /\ owed' = [owed EXCEPT ![c] = Range(items)]
    BY DEF HybridWrite, EnqueueThen
  <1>2. /\ items \in Seq(Events) /\ c \in Callers /\ c \in Actors /\ c \notin Flushers
        /\ call \in [Actors -> Steps] /\ owed \in [Actors -> SUBSET Events]
    BY TransportConstants, ConcatProperties DEF TransportInv, TransportOK, Actors
  <1> HIDE DEF items
  <1>3. /\ Settles({}) /\ closed' = closed
        /\ ~closed /\ Returns(items) => Range(items) \subseteq Kept'
    BY <1>1, <1>2, EnqueueSettles DEF Enqueue, TransportInv
  <1>4. CCR' = CCR BY <1>1 DEF Enqueue, EnqueueOr, config, CCR
  <1>5. Range(Waits') \subseteq Range(Waits) \cup {e}
    BY <1>1, <1>2, WaitsAfterEnqueue
  <1>6. \A w \in Range(Waits) : w.by # c
    <2>1. Waits \in Seq(Enqueues) /\ DOMAIN Waits = 1..Len(Waits)
      BY WaitsTypes, LenProperties
    <2>2. \A i \in 1..Len(Waits) : Waits[i].by # c
      BY <1>1, <1>2, TransportConstants DEF TransportInv, WaitsOK
    <2>3. QED BY <2>1, <2>2 DEF Range
  <1>7. ~closed => HeldForCalls'
    <2>1. SUFFICES ASSUME ~closed PROVE HeldForCalls'
      OBVIOUS
    <2>2. HeldForCalls /\ Kept \subseteq Kept' /\ late \subseteq late'
      BY <1>1, <1>3, <2>1 DEF OwedInv, Settles
    <2>3. ASSUME NEW w \in Range(Waits'), w.by \in Calls
          PROVE  owed'[w.by] \subseteq Kept' \cup Range(w.items)
      <3>1. CASE w = e
        <4>1. w.by = c /\ w.items = items BY <3>1
        <4>2. QED BY <1>1, <1>2, <4>1
      <3>2. CASE w \in Range(Waits)
        <4>1. owed'[w.by] = owed[w.by] BY <1>1, <1>2, <1>6, <3>2
        <4>2. QED BY <2>2, <2>3, <3>2, <4>1 DEF HeldForCalls
      <3>3. QED BY <1>5, <3>1, <3>2
    <2>4. ASSUME NEW d \in Calls, call'[d] \in {"flush", "done"}
          PROVE  owed'[d] \subseteq Kept'
      <3>1. CASE d = c BY <1>1, <1>2, <1>3, <2>1, <2>4, <3>1
      <3>2. CASE d # c
        <4>1. owed'[d] = owed[d] /\ call'[d] = call[d] BY <1>1, <1>2, <3>2
        <4>2. QED BY <2>2, <2>4, <4>1 DEF HeldForCalls
      <3>3. QED BY <3>1, <3>2
    <2>5. ASSUME NEW f \in Flushers PROVE owed'[f] \subseteq Kept' \cup late'
      <3>1. owed'[f] = owed[f] BY <1>1, <1>2
      <3>2. QED BY <2>2, <3>1 DEF HeldForCalls
    <2>6. QED BY <2>3, <2>4, <2>5 DEF HeldForCalls
  <1>8. \A d \in Actors : call'[d] = "done" => call[d] = "done" /\ owed'[d] = owed[d]
    BY <1>1, <1>2
  <1>9. late \subseteq late' BY <1>1
  <1>10. ResolvedMeansPosted'
    BY <1>3, <1>7, <1>8, <1>9, SettledCalls
  <1>11. CallsAt'
    BY <1>1, <1>2, <1>4 DEF OwedInv, CallsAt
  <1>12. QED BY <1>1, <1>3, <1>4, <1>7, <1>10, <1>11 DEF OwedInv

(* CCRClient's write() owes nothing.                                       *)
LEMMA CCROwesNoWrite ==
  ASSUME OwedInv, CCR, owed' = owed, late \subseteq late', Kept \subseteq Kept', ~closed
  PROVE  HeldForCalls'
  BY DEF OwedInv, HeldForCalls

LEMMA CCRWriteOwed ==
  ASSUME TransportInv, TransportInv', OwedInv, NEW c \in Calls,
         CCRWrite(c) \/ CCRWriteMessage(c)
  PROVE  OwedInv'
  <1>1. CCR /\ owed' = owed
    BY DEF CCRWrite, CCRWriteMessage, OwedInv, CallsAt
  <1>2. PICK items \in Seq(Events) : Enqueue(c, items, {})
    <2>1. /\ buffer \in Seq(Events) /\ Messages[c] \in Seq(Events)
      BY TransportConstants DEF TransportInv, TransportOK
    <2>2. Enqueue(c, buffer, {}) \/ Enqueue(c, Messages[c], {})
      BY DEF CCRWrite, CCRWriteMessage, EnqueueThen
    <2>3. QED BY <2>1, <2>2
  <1>3. late \subseteq late' BY DEF CCRWrite, CCRWriteMessage, EnqueueThen
  <1>4. Settles({}) /\ closed' = closed
    BY <1>2, EnqueueSettles DEF Enqueue, TransportInv
  <1>5. CCR' = CCR BY <1>2 DEF Enqueue, EnqueueOr, config, CCR
  <1>6. ~closed => HeldForCalls'
    BY <1>1, <1>3, <1>4, CCROwesNoWrite DEF Settles
  <1>7. call \in [Actors -> Steps] /\ c \in Actors /\ c \notin Flushers
    BY TransportConstants DEF TransportInv, TransportOK, Actors
  <1>8. \A d \in Actors : d # c => call'[d] = call[d]
    BY <1>7 DEF CCRWrite, CCRWriteMessage, EnqueueThen
  <1>9. owed'[c] = {} BY <1>1 DEF OwedInv
  <1>10. ResolvedMeansPosted'
    BY <1>1, <1>3, <1>4, <1>6, <1>8, <1>9, SettledCalls
  <1>11. CallsAt'
    BY <1>1, <1>5, <1>7, <1>8 DEF OwedInv, CallsAt, Actors
  <1>12. QED BY <1>1, <1>4, <1>5, <1>6, <1>10, <1>11 DEF OwedInv

LEMMA FlushCallOwed ==
  ASSUME TransportInv, TransportInv', OwedInv, NEW f \in Flushers, FlushCall(f)
  PROVE  OwedInv'
  <1>1. /\ buffer \in Seq(Events) /\ f \in Callers /\ f \in Actors /\ f \notin Calls
        /\ call \in [Actors -> Steps] /\ owed \in [Actors -> SUBSET Events]
        /\ Nobody \notin Calls
    BY TransportConstants DEF TransportInv, TransportOK, Actors
  <1>2. PICK by \in {f, Nobody}, flushes \in SUBSET Callers :
          /\ Enqueue(by, buffer, flushes)
          /\ ~CCR => f \in flushes
    BY <1>1 DEF FlushCall, EnqueueThen, EnqueueUnawaited
  <1>3. /\ call' = [call EXCEPT ![f] = call'[f]]
        /\ CCR => call'[f] \in {"flush", "streams"}
        /\ ~CCR => call'[f] = "done"
        /\ late' = IF Returns(buffer) THEN late ELSE late \cup Range(buffer)
        /\ owed' = [owed EXCEPT ![f] = Range(buffer) \cup Range(Backlog)]
    BY <1>1 DEF FlushCall, EnqueueThen, EnqueueUnawaited
  <1>4. /\ Settles(flushes) /\ closed' = closed
        /\ ~closed /\ Returns(buffer) => Range(buffer) \subseteq Kept'
    BY <1>1, <1>2, EnqueueSettles DEF Enqueue, TransportInv
  <1>5. CCR' = CCR BY <1>2 DEF Enqueue, EnqueueOr, config, CCR
  <1>6. \A w \in Range(Waits') : w \in Range(Waits) \/ w.by \notin Calls
    <2> DEFINE e == [by |-> by, items |-> buffer]
    <2>1. Range(Waits') \subseteq Range(Waits) \cup {e}
      BY <1>1, <1>2, WaitsAfterEnqueue
    <2>2. e.by \notin Calls BY <1>1
    <2> HIDE DEF e
    <2>3. QED BY <2>1, <2>2
  <1>7. \A d \in Actors : d # f => call'[d] = call[d] /\ owed'[d] = owed[d]
    BY <1>1, <1>3
  <1>8. ~closed => HeldForCalls'
    <2>1. SUFFICES ASSUME ~closed PROVE HeldForCalls'
      OBVIOUS
    <2>2. HeldForCalls /\ Kept \subseteq Kept' /\ late \subseteq late'
      BY <1>3, <1>4, <2>1 DEF OwedInv, Settles
    <2>3. \A w \in Range(Waits') : w.by \in Calls =>
            owed'[w.by] \subseteq Kept' \cup Range(w.items)
      BY <1>1, <1>6, <1>7, <2>2 DEF HeldForCalls, Actors
    <2>4. \A c \in Calls : call'[c] \in {"flush", "done"} => owed'[c] \subseteq Kept'
      BY <1>1, <1>7, <2>2 DEF HeldForCalls, Actors
    <2>5. owed'[f] \subseteq Kept' \cup late'
      <3>1. owed'[f] = Range(buffer) \cup Range(Backlog) BY <1>1, <1>3
      <3>2. Range(Backlog) \subseteq Kept' BY <2>2 DEF Kept
      <3>3. Range(buffer) \subseteq Kept' \cup late' BY <1>3, <1>4, <2>1
      <3>4. QED BY <3>1, <3>2, <3>3
    <2>6. \A g \in Flushers : owed'[g] \subseteq Kept' \cup late'
      BY <1>7, <2>2, <2>5 DEF HeldForCalls, Actors
    <2>7. QED BY <2>3, <2>4, <2>6 DEF HeldForCalls
  <1>9. late \subseteq late' BY <1>3
  <1>10. \A d \in Actors : call'[d] = "done" =>
           (call[d] = "done" /\ owed'[d] = owed[d]) \/ d \in flushes
    BY <1>2, <1>3, <1>7
  <1>11. ResolvedMeansPosted' BY <1>4, <1>8, <1>9, <1>10, SettledCalls
  <1>12. CallsAt' BY <1>1, <1>3, <1>5, <1>7 DEF OwedInv, CallsAt, Actors
  <1>13. CCR => \A c \in Calls : owed'[c] = {}
    BY <1>1, <1>7 DEF OwedInv, Actors
  <1>14. QED BY <1>4, <1>5, <1>8, <1>11, <1>12, <1>13 DEF OwedInv

LEMMA RetryOwed ==
  ASSUME TransportInv, TransportInv', OwedInv, Retry PROVE OwedInv'
  <1> DEFINE e == Head(ready)
  <1>1. /\ e \in Enqueues /\ e \in Range(Waits) /\ Range(Waits') \subseteq Range(Waits)
        /\ e.items \in Seq(Events)
    BY WaitsAfterRetry DEF Enqueues
  <1>2. /\ EnqueueOr(e.items, Append(waiting, e), {}) /\ owed' = owed /\ late' = late
        /\ call \in [Actors -> Steps]
        /\ call' = [c \in Actors |-> IF c = e.by /\ Returns(e.items)
                                     THEN After(c) ELSE call[c]]
    BY DEF Retry, EnqueueAgain, TransportInv, TransportOK
  <1> HIDE DEF e
  <1>3. /\ Settles({}) /\ closed' = closed
        /\ ~closed /\ Returns(e.items) => Range(e.items) \subseteq Kept'
    BY <1>1, <1>2, EnqueueSettles DEF TransportInv
  <1>4. CCR' = CCR BY <1>2 DEF EnqueueOr, config, CCR
  <1>5. e.by # Nobody => e.by \in Actors /\ call[e.by] \in {"streams", "room"}
    <2>1. Waits \in Seq(Enqueues) /\ DOMAIN Waits = 1..Len(Waits)
      BY WaitsTypes, LenProperties
    <2>2. PICK i \in 1..Len(Waits) : e = Waits[i] BY <1>1, <2>1 DEF Range
    <2>3. QED BY <2>2 DEF TransportInv, WaitsOK
  <1>6. \A c \in Actors : c = e.by => call[c] \in {"streams", "room"}
    BY <1>5, TransportConstants
  <1>7. \A c \in Actors : c = e.by /\ Returns(e.items) =>
          /\ call[c] = "streams" => call'[c] = IF c \in Calls THEN "message" ELSE "flush"
          /\ call[c] = "room" => call'[c] = IF CCR THEN "done" ELSE "flush"
    BY <1>2 DEF After
  <1>8. \A c \in Actors : ~(c = e.by /\ Returns(e.items)) => call'[c] = call[c]
    BY <1>2
  <1>9. ~closed => HeldForCalls'
    <2>1. SUFFICES ASSUME ~closed PROVE HeldForCalls'
      OBVIOUS
    <2>2. HeldForCalls /\ Kept \subseteq Kept' BY <1>3, <2>1 DEF OwedInv, Settles
    <2>3. ASSUME NEW c \in Calls, call'[c] \in {"flush", "done"}
          PROVE  call[c] \in {"flush", "done"} \/ owed[c] \subseteq Kept'
      <3>1. CASE c = e.by /\ Returns(e.items)
        <4>1. owed[c] \subseteq Kept \cup Range(e.items)
          BY <1>1, <2>2, <3>1 DEF HeldForCalls
        <4>2. QED BY <1>3, <2>1, <2>2, <3>1, <4>1
      <3>2. CASE ~(c = e.by /\ Returns(e.items))
        BY <1>8, <2>3, <3>2 DEF Actors
      <3>3. QED BY <3>1, <3>2
    <2>4. QED BY <1>1, <1>2, <2>2, <2>3, HeldStays
  <1>10. \A c \in Actors : call'[c] = "done" => call[c] = "done" \/ owed'[c] = {}
    BY <1>2, <1>6, <1>7, <1>8 DEF OwedInv, CallsAt, Actors
  <1>11. ResolvedMeansPosted' BY <1>2, <1>3, <1>9, <1>10, SettledCalls
  <1>12. CallsAt'
    BY <1>4, <1>6, <1>7, <1>8 DEF OwedInv, CallsAt, Actors
  <1>13. QED BY <1>2, <1>3, <1>4, <1>9, <1>11, <1>12 DEF OwedInv

LEMMA FlushAfterOwed ==
  ASSUME TransportInv, TransportInv', OwedInv, NEW c \in Actors, FlushAfter(c)
  PROVE  OwedInv'
  <1>1. /\ call[c] = "flush" /\ Flush(c) /\ owed' = owed /\ late' = late
        /\ call' = [call EXCEPT ![c] = "done"] /\ call \in [Actors -> Steps]
    BY DEF FlushAfter, TransportInv, TransportOK
  <1>2. Settles({c}) /\ closed' = closed
    BY <1>1, FlushSettles DEF TransportInv
  <1>3. CCR' = CCR /\ Waits' = Waits BY <1>1 DEF Flush, config, CCR, Waits
  <1>4. ~closed => HeldForCalls'
    BY <1>1, <1>2, <1>3, HeldStays DEF OwedInv, Settles, Actors
  <1>5. \A d \in Actors : call'[d] = "done" => call[d] = "done" \/ d \in {c}
    BY <1>1
  <1>6. ResolvedMeansPosted' BY <1>1, <1>2, <1>4, <1>5, SettledCalls
  <1>7. CallsAt' BY <1>1, <1>3 DEF OwedInv, CallsAt, Actors
  <1>8. QED BY <1>1, <1>2, <1>3, <1>4, <1>6, <1>7 DEF OwedInv

(* Steps that change neither what is owed nor where a call is.             *)
LEMMA CallsStayOwed ==
  ASSUME OwedInv, UNCHANGED <<call, owed, byteLimited>>, late \subseteq late',
         NEW flushes, Settles(flushes), closed => closed',
         \A w \in Range(Waits') : w \in Range(Waits) \/ w.by \notin Calls
  PROVE  OwedInv'
  <1>1. ~closed' => HeldForCalls'
    BY HeldStays DEF OwedInv, Settles
  <1>2. ResolvedMeansPosted' BY <1>1, SettledCalls
  <1>3. CallsAt' BY DEF OwedInv, CallsAt, CCR
  <1>4. QED BY <1>1, <1>2, <1>3 DEF OwedInv, CCR

LEMMA StepOwed ==
  TransportInv /\ TransportInv' /\ OwedInv /\ [Next]_vars => OwedInv'
  <1>1. SUFFICES ASSUME TransportInv, TransportInv', OwedInv, [Next]_vars PROVE OwedInv'
    OBVIOUS
  <1> USE <1>1
  <1>2. ASSUME UNCHANGED <<uploaderVars, call, owed, late>> PROVE OwedInv'
    <2>1. Settles({}) /\ Waits' = Waits /\ UNCHANGED <<call, owed, byteLimited, late, closed>>
      BY <1>2 DEF uploaderVars, Settles, Posted, Kept, Backlog, Waits
    <2>2. QED BY <2>1, CallsStayOwed
  <1>3. CASE UNCHANGED vars BY <1>2, <1>3 DEF vars, transportVars
  <1>4. ASSUME NEW e \in StreamEvents, WriteStreamEvent(e) PROVE OwedInv'
    BY <1>2, <1>4 DEF WriteStreamEvent
  <1>5. CASE TimerFires
    <2>1. /\ Enqueue(Nobody, buffer, {}) /\ UNCHANGED <<call, owed>> /\ late \subseteq late'
          /\ buffer \in Seq(Events)
      BY <1>5 DEF TimerFires, EnqueueUnawaited, TransportInv, TransportOK
    <2>2. Settles({}) /\ closed' = closed
      BY <2>1, EnqueueSettles DEF Enqueue, TransportInv
    <2>3. byteLimited' = byteLimited BY <2>1 DEF Enqueue, EnqueueOr, config
    <2>4. \A w \in Range(Waits') : w \in Range(Waits) \/ w.by \notin Calls
      <3> DEFINE e == [by |-> Nobody, items |-> buffer]
      <3>1. Range(Waits') \subseteq Range(Waits) \cup {e}
        BY <2>1, WaitsAfterEnqueue
      <3>2. e.by \notin Calls BY TransportConstants DEF Actors
      <3> HIDE DEF e
      <3>3. QED BY <3>1, <3>2
    <2>5. QED BY <2>1, <2>2, <2>3, <2>4, CallsStayOwed
  <1>6. CASE CloseTransport \/ GraceEnds
    <2>1. /\ UNCHANGED <<call, late, owed>>
          /\ CloseUploader \/ Flush(Closer)
      BY <1>6 DEF CloseTransport, GraceEnds
    <2>2. CASE Flush(Closer)
      <3>1. Settles({Closer}) /\ closed' = closed
        BY <2>2, FlushSettles DEF TransportInv
      <3>2. Waits' = Waits /\ byteLimited' = byteLimited BY <2>2 DEF Flush, config, Waits
      <3>3. QED BY <2>1, <3>1, <3>2, CallsStayOwed
    <2>3. CASE CloseUploader
      <3>1. Settles({}) /\ closed' BY <2>3, CloseSettles
      <3>2. byteLimited' = byteLimited BY <2>3 DEF CloseUploader, config
      <3>3. ReleaseBackpressure \/ UNCHANGED <<ready, waiting>>
        BY <2>3 DEF CloseUploader
      <3>4. Waits' = Waits BY <3>3, WaitsAfterRelease
      <3>5. QED BY <2>1, <3>1, <3>2, <3>4, CallsStayOwed
    <2>4. QED BY <2>1, <2>2, <2>3
  <1>7. CASE Sends
    <2>1. Settles({}) BY <1>7, SendsSettle DEF TransportInv
    <2>2. UNCHANGED <<call, owed, late, byteLimited, closed>>
      BY <1>7 DEF Sends, transportVars, SendResolves, SendFails, SendFailsForGood,
                  WakeUp, config
    <2>3. ReleaseBackpressure \/ UNCHANGED <<ready, waiting>>
      BY <1>7 DEF Sends, SendResolves, SendFails, SendFailsForGood, WakeUp
    <2>4. Waits' = Waits BY <2>3, WaitsAfterRelease
    <2>5. QED BY <2>1, <2>2, <2>4, CallsStayOwed
  <1>8. QED
    BY <1>3, <1>4, <1>5, <1>6, <1>7, HybridWriteOwed, CCRWriteOwed, FlushCallOwed,
       FlushAfterOwed, RetryOwed DEF Next, Actors

(* When await write() or flush() returns, what it stands for was posted or   *)
(* given up, however batches fail, for any calls, events and limits.        *)
THEOREM ReturnsWhenPosted == Spec => []ResolvedMeansPosted
  <1>1. Init => OwedInv
    <2>1. SUFFICES ASSUME Init PROVE OwedInv
      OBVIOUS
    <2>2. /\ call = [c \in Actors |-> "idle"] /\ owed = [c \in Actors |-> {}]
          /\ waiting = <<>> /\ ready = <<>>
      BY <2>1 DEF Init, UploaderInit, Actors
    <2>3. Range(Waits) = {}
      <3>1. Waits = <<>> BY <2>2, EmptySeq, ConcatEmptySeq DEF Waits
      <3>2. QED BY <3>1 DEF Range
    <2>4. QED
      BY <2>2, <2>3 DEF OwedInv, HeldForCalls, CallsAt, ResolvedMeansPosted, Actors
  <1>2. OwedInv => ResolvedMeansPosted BY DEF OwedInv
  <1>3. TransportInv /\ TransportInv' /\ OwedInv /\ [Next]_vars => OwedInv'
    BY StepOwed
  <1>4. QED BY <1>1, <1>2, <1>3, TransportHolds, PTL DEF Spec
-------------------------------------------------------------------------------
(* Events reach the server in order                                         *)

(* The server's log l and then what it does not have yet of the backlog b,   *)
(* of which it has the first s events: all of it is in S, and any two are    *)
(* related by R, in the order in which they are or will be received.        *)
InLine(S, R, l, b, s) ==
  /\ \A i \in 1..Len(l) : l[i] \in S
  /\ \A j \in 1..Len(b) : b[j] \in S
  /\ \A i, j \in 1..Len(l) : i < j => <<l[i], l[j]>> \in R
  /\ \A i \in 1..Len(l), j \in 1..Len(b) : s < j => <<l[i], b[j]>> \in R
  /\ \A i, j \in 1..Len(b) : s < i /\ i < j => <<b[i], b[j]>> \in R

(* The server receives the backlog up to its n-th event.                    *)
LEMMA ReachedInLine ==
  ASSUME NEW l \in Seq(Events), NEW b \in Seq(Events), NEW s \in Nat,
         NEW n \in 0..Len(b), s < n, NEW S, NEW R, InLine(S, R, l, b, s)
  PROVE  InLine(S, R, l \o SubSeq(b, s + 1, n), b, n)
  <1> DEFINE part == SubSeq(b, s + 1, n)
             new == l \o part
  <1>1. Len(b) \in Nat /\ Len(l) \in Nat /\ n \in Nat BY LenProperties
  <1>2. /\ part \in Seq(Events) /\ Len(part) = n - s
        /\ \A k \in 1..(n - s) : part[k] = b[s + k]
    <2>1. \A i \in (s + 1)..n : b[i] \in Events BY <1>1, ElementOfSeq
    <2>2. /\ part \in Seq(Events)
          /\ Len(part) = IF s + 1 <= n THEN n - (s + 1) + 1 ELSE 0
          /\ \A i \in 1..(n - (s + 1) + 1) : part[i] = b[(s + 1) + i - 1]
      BY <1>1, <2>1, SubSeqProperties
    <2> HIDE DEF part
    <2>3. QED BY <1>1, <2>2
  <1> HIDE DEF part
  <1>3. /\ Len(new) = Len(l) + (n - s)
        /\ \A i \in 1..(Len(l) + (n - s)) :
             new[i] = IF i <= Len(l) THEN l[i] ELSE part[i - Len(l)]
    <2>1. /\ Len(new) = Len(l) + Len(part)
          /\ \A i \in 1..(Len(l) + Len(part)) :
               new[i] = IF i <= Len(l) THEN l[i] ELSE part[i - Len(l)]
      BY <1>2, ConcatProperties
    <2> HIDE DEF new
    <2>2. Len(part) = n - s BY <1>2
    <2>3. QED BY <2>1, <2>2
  <1> HIDE DEF new
  <1>4. \A i \in 1..Len(new) :
          \/ i \in 1..Len(l) /\ new[i] = l[i]
          \/ /\ i > Len(l) /\ s + (i - Len(l)) \in 1..Len(b)
             /\ s < s + (i - Len(l)) /\ s + (i - Len(l)) <= n
             /\ new[i] = b[s + (i - Len(l))]
    <2>1. SUFFICES ASSUME NEW i \in 1..Len(new), i > Len(l)
                   PROVE  /\ s + (i - Len(l)) \in 1..Len(b)
                          /\ s < s + (i - Len(l)) /\ s + (i - Len(l)) <= n
                          /\ new[i] = b[s + (i - Len(l))]
      BY <1>1, <1>3
    <2>2. i - Len(l) \in 1..(n - s) BY <1>1, <1>3, <2>1
    <2>3. new[i] = part[i - Len(l)] BY <1>1, <1>3, <2>1
    <2>4. QED BY <1>1, <1>2, <2>1, <2>2, <2>3
  <1>5. \A i \in 1..Len(new) : new[i] \in S
    BY <1>4 DEF InLine
  <1>6. ASSUME NEW i \in 1..Len(new), NEW j \in 1..Len(new), i < j
        PROVE  <<new[i], new[j]>> \in R
    <2>1. CASE j \in 1..Len(l) /\ new[j] = l[j]
      <3>1. i \in 1..Len(l) /\ new[i] = l[i] BY <1>1, <1>4, <1>6, <2>1
      <3>2. QED BY <1>6, <2>1, <3>1 DEF InLine
    <2>2. CASE /\ j > Len(l) /\ s + (j - Len(l)) \in 1..Len(b)
               /\ s < s + (j - Len(l)) /\ new[j] = b[s + (j - Len(l))]
      <3>1. CASE i \in 1..Len(l) /\ new[i] = l[i]
        BY <2>2, <3>1 DEF InLine
      <3>2. CASE /\ i > Len(l) /\ s + (i - Len(l)) \in 1..Len(b)
                 /\ s < s + (i - Len(l)) /\ new[i] = b[s + (i - Len(l))]
        <4>1. s + (i - Len(l)) < s + (j - Len(l)) BY <1>1, <1>3, <1>6
        <4>2. QED BY <2>2, <3>2, <4>1 DEF InLine
      <3>3. QED BY <1>4, <3>1, <3>2
    <2>3. QED BY <1>4, <2>1, <2>2
  <1>7. ASSUME NEW i \in 1..Len(new), NEW j \in 1..Len(b), n < j
        PROVE  <<new[i], b[j]>> \in R
    <2>1. CASE i \in 1..Len(l) /\ new[i] = l[i]
      BY <1>1, <1>7, <2>1 DEF InLine
    <2>2. CASE /\ s + (i - Len(l)) \in 1..Len(b) /\ s < s + (i - Len(l))
               /\ s + (i - Len(l)) <= n /\ new[i] = b[s + (i - Len(l))]
      <3>1. s + (i - Len(l)) < j BY <1>1, <1>3, <1>7, <2>2
      <3>2. QED BY <2>2, <3>1 DEF InLine
    <2>3. QED BY <1>4, <2>1, <2>2
  <1>8. \A i, j \in 1..Len(b) : n < i /\ i < j => <<b[i], b[j]>> \in R
    BY <1>1 DEF InLine
  <1>9. \A j \in 1..Len(b) : b[j] \in S BY DEF InLine
  <1>10. InLine(S, R, new, b, n) BY <1>5, <1>6, <1>7, <1>8, <1>9 DEF InLine
  <1>11. QED BY <1>10 DEF new, part

(* A rising function on 1..m is nowhere below its argument.                 *)
LEMMA RisingGrows ==
  ASSUME NEW m \in Nat, NEW n \in Nat, NEW f \in [1..m -> 1..n],
         \A i, j \in 1..m : i < j => f[i] < f[j], NEW k \in 1..m
  PROVE  k <= f[k]
  <1>1. SUFFICES ASSUME f[k] < k PROVE FALSE
    <2>1. f[k] \in Nat /\ k \in Nat OBVIOUS
    <2>2. QED BY <2>1
  <1> DEFINE g == [i \in 1..k |-> f[i]]
  <1>2. f[k] \in Nat /\ f[k] >= 1 /\ k \in Nat /\ k <= m OBVIOUS
  <1>3. \A i \in 1..k : f[i] \in 1..f[k]
    <2>1. SUFFICES ASSUME NEW i \in 1..k PROVE f[i] \in 1..f[k]
      OBVIOUS
    <2>2. i \in 1..m /\ f[i] \in 1..n BY <1>2
    <2>3. i < k => f[i] < f[k] BY <1>2, <2>2
    <2>4. i < k \/ i = k BY <1>2
    <2>5. QED BY <1>2, <2>2, <2>3, <2>4
  <1>4. g \in [1..k -> 1..f[k]] BY <1>3
  <1>5. /\ IsFiniteSet(1..k) /\ Cardinality(1..k) = k
        /\ IsFiniteSet(1..f[k]) /\ Cardinality(1..f[k]) = f[k]
    BY <1>2, FS_Interval
  <1>6. PICK x, y \in 1..k : x # y /\ g[x] = g[y]
    <2> DEFINE D == 1..k
               T == 1..f[k]
    <2>1. Cardinality(T) < Cardinality(D) /\ IsFiniteSet(D) /\ IsFiniteSet(T)
      BY <1>1, <1>5
    <2>2. g \in [D -> T] BY <1>4
    <2> HIDE DEF g, D, T
    <2>3. \E x, y \in D : x # y /\ g[x] = g[y] BY <2>1, <2>2, FS_PigeonHole
    <2>4. QED BY <2>3 DEF D
  <1>7. x \in 1..m /\ y \in 1..m /\ f[x] = f[y] /\ (x < y \/ y < x) BY <1>2, <1>6
  <1>8. f[x] \in Nat /\ f[y] \in Nat BY <1>7
  <1>9. QED BY <1>7, <1>8

LEMMA ReachInLine ==
  ASSUME NEW n \in 0..Len(Backlog), Channel!Reach(n), Up, NEW S, NEW R,
         InLine(S, R, log, Backlog, seen)
  PROVE  InLine(S, R, log', Backlog, IF n > seen THEN n ELSE seen)
  <1>1. /\ log \in Seq(Events) /\ Backlog \in Seq(Events) /\ seen \in Nat
        /\ Len(Backlog) \in Nat
    BY UpTypes, BacklogParts, LenProperties
  <1>2. CASE n > seen
    <2>1. log' = log \o SubSeq(Backlog, seen + 1, n) BY <1>2 DEF Channel!Reach
    <2>2. seen < n BY <1>1, <1>2
    <2>3. InLine(S, R, log \o SubSeq(Backlog, seen + 1, n), Backlog, n)
      BY <1>1, <2>2, ReachedInLine
    <2>4. QED BY <1>2, <2>1, <2>3
  <1>3. CASE ~(n > seen)
    BY <1>3 DEF Channel!Reach
  <1>4. QED BY <1>2, <1>3

(* The events after the n-th, some of them left out, were all still to be    *)
(* received, but for those the server already had.                         *)
LEMMA FinishedInLine ==
  ASSUME NEW l \in Seq(Events), NEW b \in Seq(Events), NEW s \in Nat,
         NEW n \in 0..Len(b), NEW b2 \in Seq(Events),
         RestOf(b2, SubSeq(b, n + 1, Len(b))),
         NEW S, NEW R, InLine(S, R, l, b, s) \/ InLine(S, R, l, b, n)
  PROVE  InLine(S, R, l, b2, IF s > n THEN s - n ELSE 0)
  <1> DEFINE rest == SubSeq(b, n + 1, Len(b))
             s2 == IF s > n THEN s - n ELSE 0
  <1>1. Len(b) \in Nat /\ n \in Nat /\ n <= Len(b) /\ Len(b2) \in Nat
    BY LenProperties
  <1>2. Len(rest) = Len(b) - n /\ \A i \in 1..(Len(b) - n) : rest[i] = b[n + i]
    <2>1. \A i \in (n + 1)..Len(b) : b[i] \in Events BY <1>1, ElementOfSeq
    <2>2. /\ Len(rest) = IF n + 1 <= Len(b) THEN Len(b) - (n + 1) + 1 ELSE 0
          /\ \A i \in 1..(Len(b) - (n + 1) + 1) : rest[i] = b[(n + 1) + i - 1]
      BY <1>1, <2>1, SubSeqProperties
    <2> HIDE DEF rest
    <2>3. QED BY <1>1, <2>2
  <1>3. PICK f \in [1..Len(b2) -> 1..Len(rest)] :
          /\ \A i, j \in 1..Len(b2) : i < j => f[i] < f[j]
          /\ \A j \in 1..Len(b2) : b2[j] = rest[f[j]]
    BY DEF RestOf
  <1> HIDE DEF rest
  <1>4. f \in [1..Len(b2) -> 1..(Len(b) - n)] /\ Len(b) - n \in Nat
    BY <1>1, <1>2, <1>3
  <1>5. \A j \in 1..Len(b2) : j <= f[j] /\ f[j] \in 1..(Len(b) - n)
    BY <1>1, <1>3, <1>4, RisingGrows
  <1> DEFINE g == [j \in 1..Len(b2) |-> n + f[j]]
  <1>6. g \in [1..Len(b2) -> 1..Len(b)] BY <1>1, <1>5
  <1>7. \A i, j \in 1..Len(b2) : i < j => g[i] < g[j]
    BY <1>1, <1>3, <1>5
  <1>8. \A j \in 1..Len(b2) : b2[j] = b[g[j]]
    BY <1>2, <1>3, <1>5
  <1>9. \A j \in 1..Len(b2) : s2 < j => s < g[j] /\ n < g[j]
    BY <1>1, <1>5
  <1>10. \A j \in 1..Len(b2) : g[j] \in 1..Len(b) BY <1>6
  <1> HIDE DEF g, s2
  <1>11. /\ \A i \in 1..Len(l) : l[i] \in S
         /\ \A j \in 1..Len(b) : b[j] \in S
         /\ \A i, j \in 1..Len(l) : i < j => <<l[i], l[j]>> \in R
    BY DEF InLine
  <1>12. ASSUME NEW i \in 1..Len(l), NEW j \in 1..Len(b2), s2 < j
         PROVE  <<l[i], b2[j]>> \in R
    BY <1>8, <1>9, <1>10, <1>12 DEF InLine
  <1>13. ASSUME NEW i \in 1..Len(b2), NEW j \in 1..Len(b2), s2 < i, i < j
         PROVE  <<b2[i], b2[j]>> \in R
    BY <1>7, <1>8, <1>9, <1>10, <1>13 DEF InLine
  <1>14. InLine(S, R, l, b2, s2)
    BY <1>8, <1>10, <1>11, <1>12, <1>13 DEF InLine
  <1>15. QED BY <1>14 DEF s2

LEMMA MoveInLine ==
  ASSUME Up, Up', ChannelMove, NEW S, NEW R, InLine(S, R, log, Backlog, seen)
  PROVE  InLine(S, R, log', Backlog', seen')
  <1>1. /\ log \in Seq(Events) /\ Backlog \in Seq(Events) /\ seen \in Nat
        /\ Len(Backlog) \in Nat
    BY UpTypes, BacklogParts, LenProperties
  <1>2. /\ log' \in Seq(Events) /\ Backlog' \in Seq(Events) /\ seen' \in Nat
    BY ConcatProperties DEF Up, UploaderTypeOK, Backlog
  <1>3. CASE UNCHANGED <<Backlog, seen, log, ~closed>> BY <1>3
  <1>4. CASE Channel!Attempt
    <2>1. PICK n \in 0..Len(Backlog) :
            /\ Channel!Reach(n) /\ seen' = (IF n > seen THEN n ELSE seen)
            /\ UNCHANGED Backlog
      BY <1>4 DEF Channel!Attempt
    <2>2. InLine(S, R, log', Backlog, IF n > seen THEN n ELSE seen)
      BY <2>1, ReachInLine
    <2>3. QED BY <2>1, <2>2
  <1>5. CASE Channel!Finish
    <2>1. PICK n \in 0..Len(Backlog) :
            /\ Channel!Reach(n) \/ log' = log
            /\ Channel!Shrinks(Channel!Without(n))
            /\ seen' = (IF seen > n THEN seen - n ELSE 0)
      BY <1>5 DEF Channel!Finish
    <2>2. InLine(S, R, log', Backlog, seen) \/ InLine(S, R, log', Backlog, n)
      <3>1. CASE Channel!Reach(n)
        <4>1. InLine(S, R, log', Backlog, IF n > seen THEN n ELSE seen)
          BY <3>1, ReachInLine
        <4>2. QED BY <4>1
      <3>2. CASE log' = log
        <4>1. InLine(S, R, log', Backlog, seen) BY <3>2
        <4>2. QED BY <4>1
      <3>3. QED BY <2>1, <3>1, <3>2
    <2>3. RestOf(Backlog', SubSeq(Backlog, n + 1, Len(Backlog)))
      BY <2>1 DEF RestOf, Channel!Shrinks, Channel!Without
    <2>4. QED BY <1>1, <1>2, <2>1, <2>2, <2>3, FinishedInLine
  <1>6. CASE Channel!Close
    <2>1. PICK n \in 0..Len(Backlog) :
            /\ Backlog' = SubSeq(Backlog, 1, n) /\ log' = log
            /\ seen' = (IF seen > n THEN n ELSE seen)
      BY <1>6 DEF Channel!Close
    <2>2. Len(Backlog') = n /\ \A i \in 1..n : Backlog'[i] = Backlog[i]
      <3>1. \A i \in 1..n : Backlog[i] \in Events BY <1>1, ElementOfSeq
      <3>2. /\ Len(SubSeq(Backlog, 1, n)) = IF 1 <= n THEN n - 1 + 1 ELSE 0
            /\ \A i \in 1..(n - 1 + 1) : SubSeq(Backlog, 1, n)[i] = Backlog[1 + i - 1]
        BY <1>1, <3>1, SubSeqProperties
      <3>3. QED BY <1>1, <2>1, <3>2
    <2>3. \A i \in 1..n : i \in 1..Len(Backlog) BY <1>1
    <2>4. (seen' = seen \/ seen' = n) /\ n \in Nat BY <1>1, <2>1
    <2>5. \A j \in 1..n : seen' < j => seen < j BY <1>1, <2>1
    <2>6. QED BY <1>1, <2>1, <2>2, <2>3, <2>5 DEF InLine
  <1>7. QED BY <1>3, <1>4, <1>5, <1>6 DEF ChannelMove

(* Items that are in order among themselves and after all others.           *)
MayFollow(S, R, items) ==
  /\ \A i \in 1..Len(items) : items[i] \in S
  /\ \A i, j \in 1..Len(items) : i < j => <<items[i], items[j]>> \in R
  /\ \A d \in Range(log) \cup Range(Backlog), i \in 1..Len(items) :
       <<d, items[i]>> \in R

LEMMA EnqueueInLine ==
  ASSUME Up, NEW items \in Seq(Events), NEW wait, NEW flushes,
         EnqueueOr(items, wait, flushes),
         NEW S, NEW R, InLine(S, R, log, Backlog, seen), MayFollow(S, R, items)
  PROVE  InLine(S, R, log', Backlog', seen')
  <1>1. UNCHANGED <<seen, log>> BY DEF EnqueueOr
  <1>2. CASE UNCHANGED <<pending, inflight>>
    <2>1. Backlog' = Backlog BY <1>2 DEF Backlog
    <2>2. QED BY <1>1, <2>1
  <1>t. /\ pending \in Seq(Events) /\ inflight \in Seq(Events) /\ Backlog \in Seq(Events)
        /\ log \in Seq(Events) /\ seen \in Nat
        /\ Len(Backlog) \in Nat /\ Len(log) \in Nat /\ Len(items) \in Nat
        /\ DOMAIN log = 1..Len(log) /\ DOMAIN Backlog = 1..Len(Backlog)
    BY UpTypes, BacklogParts, LenProperties
  <1>l. \A i \in 1..Len(log), j \in 1..Len(items) : <<log[i], items[j]>> \in R
    <2>1. \A i \in 1..Len(log) : log[i] \in Range(log) BY <1>t DEF Range
    <2>2. QED BY <2>1 DEF MayFollow
  <1>b. \A i \in 1..Len(Backlog), j \in 1..Len(items) : <<Backlog[i], items[j]>> \in R
    <2>1. \A i \in 1..Len(Backlog) : Backlog[i] \in Range(Backlog) BY <1>t DEF Range
    <2>2. QED BY <2>1 DEF MayFollow
  <1>3. CASE phase = "idle" /\ ~closed /\ Push(items)
    <2>1. pending = <<>> BY <1>3 DEF Up, UploaderInv
    <2>2. pending \o items = items BY <2>1, ConcatEmptySeq
    <2>3. Drain(items) BY <1>3, <2>2 DEF Push
    <2>4. PICK f \in [1..Len(Backlog') -> 1..Len(items)] :
            /\ \A j, k \in 1..Len(Backlog') : j < k => f[j] < f[k]
            /\ \A j \in 1..Len(Backlog') : Backlog'[j] = items[f[j]]
      BY <2>3, DrainedIsRest DEF RestOf
    <2>5. \A j \in 1..Len(Backlog') : f[j] \in 1..Len(items) OBVIOUS
    <2>6. \A j \in 1..Len(Backlog') : Backlog'[j] \in S
      BY <2>4, <2>5 DEF MayFollow
    <2>7. \A i \in 1..Len(log), j \in 1..Len(Backlog') : <<log[i], Backlog'[j]>> \in R
      BY <1>l, <2>4, <2>5
    <2>8. \A i, j \in 1..Len(Backlog') : i < j => <<Backlog'[i], Backlog'[j]>> \in R
      BY <2>4, <2>5 DEF MayFollow
    <2>9. QED BY <1>1, <2>6, <2>7, <2>8 DEF InLine
  <1>4. CASE phase # "idle" /\ Push(items)
    <2> DEFINE new == Backlog \o items
    <2>1. Backlog' = new
      <3>1. pending' = pending \o items /\ inflight' = inflight BY <1>4 DEF Push
      <3>2. inflight \o (pending \o items) = (inflight \o pending) \o items
        <4>1. inflight \in Seq(Events) /\ pending \in Seq(Events) BY <1>t
        <4>2. QED BY <4>1, ConcatAssociative
      <3>3. Backlog' = inflight \o (pending \o items) BY <3>1 DEF Backlog
      <3>4. QED BY <3>2, <3>3 DEF Backlog
    <2>2. /\ Len(new) = Len(Backlog) + Len(items)
          /\ \A i \in 1..(Len(Backlog) + Len(items)) :
               new[i] = IF i <= Len(Backlog) THEN Backlog[i] ELSE items[i - Len(Backlog)]
      BY <1>t, ConcatProperties
    <2> HIDE DEF new
    <2>3. \A i \in 1..Len(new) :
            \/ i \in 1..Len(Backlog) /\ new[i] = Backlog[i]
            \/ i > Len(Backlog) /\ i - Len(Backlog) \in 1..Len(items)
               /\ new[i] = items[i - Len(Backlog)]
      BY <1>t, <2>2
    <2>4. \A i \in 1..Len(new) : new[i] \in S
      BY <2>3 DEF InLine, MayFollow
    <2>5. \A i \in 1..Len(log), j \in 1..Len(new) : seen < j => <<log[i], new[j]>> \in R
      BY <1>l, <2>3 DEF InLine
    <2>6. ASSUME NEW i \in 1..Len(new), NEW j \in 1..Len(new), seen < i, i < j
          PROVE  <<new[i], new[j]>> \in R
      <3>1. CASE j \in 1..Len(Backlog) /\ new[j] = Backlog[j]
        <4>1. i \in 1..Len(Backlog) /\ new[i] = Backlog[i] BY <1>t, <2>3, <2>6, <3>1
        <4>2. QED BY <2>6, <3>1, <4>1 DEF InLine
      <3>2. CASE /\ j > Len(Backlog) /\ j - Len(Backlog) \in 1..Len(items)
                 /\ new[j] = items[j - Len(Backlog)]
        <4>1. CASE i \in 1..Len(Backlog) /\ new[i] = Backlog[i]
          BY <1>b, <3>2, <4>1
        <4>2. CASE /\ i > Len(Backlog) /\ i - Len(Backlog) \in 1..Len(items)
                   /\ new[i] = items[i - Len(Backlog)]
          <5>1. i - Len(Backlog) < j - Len(Backlog) BY <1>t, <2>6
          <5>2. QED BY <3>2, <4>2, <5>1 DEF MayFollow
        <4>3. QED BY <2>3, <4>1, <4>2
      <3>3. QED BY <2>3, <3>1, <3>2
    <2>7. \A i, j \in 1..Len(log) : i < j => <<log[i], log[j]>> \in R BY DEF InLine
    <2>8. \A i \in 1..Len(log) : log[i] \in S BY DEF InLine
    <2>9. QED BY <1>1, <2>1, <2>4, <2>5, <2>6, <2>7, <2>8 DEF InLine
  <1>5. QED BY <1>2, <1>3, <1>4 DEF EnqueueOr

(* What is in line stays so when more may be sent and more pairs are in      *)
(* order.                                                                  *)
LEMMA WiderLine ==
  ASSUME NEW S, NEW R, NEW S2, NEW R2, NEW l, NEW b, NEW s, InLine(S, R, l, b, s),
         S \subseteq S2, \A d, e \in S : <<d, e>> \in R => <<d, e>> \in R2
  PROVE  InLine(S2, R2, l, b, s)
  BY DEF InLine

(* Events that have left the buffer or never were in it.                   *)
Left == Written \ Range(buffer)

(* Events that may come after later ones.                                  *)
Exempt(e) == e \in late \/ (CCR /\ e \notin StreamEvents)

(* Pairs of events of which the second is not too late.                    *)
Turn == {p \in Events \X Events : number[p[1]] <= number[p[2]] \/ Exempt(p[2])}

(* The buffered events were written last, one after the other.             *)
BufferLast ==
  /\ Range(buffer) \subseteq Written
  /\ \A i, j \in 1..Len(buffer) : i < j => number[buffer[i]] < number[buffer[j]]
  /\ \A e \in Left, i \in 1..Len(buffer) : number[e] < number[buffer[i]]

NumbersBounded == \A e \in Events : number[e] <= Cardinality(Written)

CallsToCome ==
  \A c \in Calls :
    /\ call[c] = "idle" => Range(Messages[c]) \cap Written = {}
    /\ call[c] \in {"streams", "message"} => CCR /\ Range(Messages[c]) \subseteq Left

WaitsAreLate == \A w \in Range(Waits) : Range(w.items) \subseteq Left \cap late

OrderInv ==
  /\ InLine(Left, Turn, log, Backlog, seen)
  /\ BufferLast /\ NumbersBounded /\ CallsToCome /\ WaitsAreLate

LEMMA MessageConstants ==
  /\ \A c \in Calls : /\ Messages[c] \in Seq(Events)
                      /\ \A i, j \in 1..Len(Messages[c]) :
                           Messages[c][i] = Messages[c][j] => i = j
                      /\ Range(Messages[c]) \cap StreamEvents = {}
  /\ \A c, d \in Calls : c # d => Range(Messages[c]) \cap Range(Messages[d]) = {}
  <1>1. \A c \in Calls : Messages[c] \in Seq(Events) BY TransportAssumption
  <1>2. \A c \in Calls : DOMAIN Messages[c] = 1..Len(Messages[c])
    BY <1>1, LenProperties
  <1>3. QED BY <1>1, <1>2, TransportAssumption DEF IsInjective

LEMMA OrderTypes ==
  ASSUME TransportInv
  PROVE  /\ log \in Seq(Events) /\ Backlog \in Seq(Events) /\ buffer \in Seq(Events)
         /\ number \in [Events -> Nat] /\ Cardinality(Written) \in Nat
         /\ Len(buffer) \in Nat /\ DOMAIN buffer = 1..Len(buffer)
         /\ \A i \in 1..Len(buffer) : buffer[i] \in Events /\ buffer[i] \in Range(buffer)
         /\ Written \subseteq Events /\ Left \subseteq Events
         /\ Range(log) \cup Range(Backlog) \subseteq Events
  <1>1. /\ log \in Seq(Events) /\ Backlog \in Seq(Events) /\ buffer \in Seq(Events)
        /\ number \in [Events -> Nat] /\ Cardinality(Written) \in Nat
    BY UpTypes, BacklogParts, FS_CardinalityType DEF TransportInv, TransportOK, NumberOK
  <1>2. Len(buffer) \in Nat /\ DOMAIN buffer = 1..Len(buffer)
    BY <1>1, LenProperties
  <1>3. \A i \in 1..Len(buffer) : buffer[i] \in Events /\ buffer[i] \in Range(buffer)
    BY <1>1, <1>2, ElementOfSeq DEF Range
  <1>4. Written \subseteq Events /\ Left \subseteq Events BY DEF Written, Left
  <1>5. Range(log) \cup Range(Backlog) \subseteq Events BY <1>1, RangeOfEvents
  <1>6. QED BY <1>1, <1>2, <1>3, <1>4, <1>5

(* Everything in line has left the buffer.                                 *)
LEMMA LineHasLeft ==
  ASSUME TransportInv, OrderInv PROVE Range(log) \cup Range(Backlog) \subseteq Left
  <1>1. DOMAIN log = 1..Len(log) /\ DOMAIN Backlog = 1..Len(Backlog)
    BY OrderTypes, LenProperties
  <1>2. QED BY <1>1 DEF OrderInv, InLine, Range

(* The events of a call get the highest numbers, in their order.           *)
LEMMA NumberedLast ==
  ASSUME TransportInv, NumbersBounded, NEW items \in Seq(Events),
         \A i, j \in 1..Len(items) : items[i] = items[j] => i = j,
         Range(items) \cap Written = {}, Numbered(items)
  PROVE  /\ Written' = Written \cup Range(items)
         /\ \A e \in Written : number'[e] = number[e]
         /\ \A i \in 1..Len(items) : number'[items[i]] = Cardinality(Written) + i
         /\ NumbersBounded'
  <1> DEFINE card == Cardinality(Written)
  <1>1. /\ DOMAIN items = 1..Len(items) /\ Len(items) \in Nat
        /\ items \in [1..Len(items) -> Events]
        /\ \A i \in 1..Len(items) : items[i] \in Range(items) /\ items[i] \in Events
    <2>1. DOMAIN items = 1..Len(items) /\ Len(items) \in Nat
          /\ items \in [1..Len(items) -> Events]
      BY LenProperties
    <2>2. QED BY <2>1 DEF Range
  <1>2. /\ number \in [Events -> Nat] /\ card \in Nat /\ Written \subseteq Events
        /\ IsFiniteSet(Written)
    BY OrderTypes DEF TransportInv, NumberOK
  <1> HIDE DEF card
  <1>3. ASSUME NEW i \in 1..Len(items) PROVE number'[items[i]] = card + i
    <2> DEFINE place == CHOOSE k \in DOMAIN items : items[k] = items[i]
    <2>1. place \in DOMAIN items /\ items[place] = items[i] BY <1>1
    <2>2. place = i BY <1>1, <2>1
    <2>3. number'[items[i]] = card + place BY <1>1 DEF Numbered, card
    <2>4. QED BY <2>2, <2>3
  <1>4. \A e \in Events : e \notin Range(items) => number'[e] = number[e]
    BY DEF Numbered
  <1>5. \A e \in Range(items) : \E i \in 1..Len(items) : e = items[i]
    BY <1>1 DEF Range
  <1>6. number' \in [Events -> Nat]
    <2>1. NumberOK' BY NumberedKeeps DEF TransportInv
    <2>2. QED BY <2>1 DEF NumberOK
  <1>7. \A e \in Range(items) : e \in Events /\ number'[e] # 0
    <2>1. SUFFICES ASSUME NEW i \in 1..Len(items)
                   PROVE  items[i] \in Events /\ number'[items[i]] # 0
      BY <1>5
    <2>2. QED BY <1>1, <1>2, <1>3
  <1>8. Written' = Written \cup Range(items)
    BY <1>4, <1>7 DEF Written
  <1>9. IsFiniteSet(Range(items)) /\ Cardinality(Range(items)) = Len(items)
    <2>1. items \in Bijection(1..Len(items), Range(items))
      <3>1. items \in [1..Len(items) -> Range(items)] BY <1>1
      <3>2. QED BY <3>1, <1>1, <1>5
                DEF Bijection, Injection, Surjection, IsInjective
    <2>2. IsFiniteSet(1..Len(items)) /\ Cardinality(1..Len(items)) = Len(items)
      <3>1. \A n \in Nat : IsFiniteSet(1..n) /\ Cardinality(1..n) = n
        BY FS_Interval
      <3>2. QED BY <1>1, <3>1
    <2>3. ExistsBijection(1..Len(items), Range(items)) BY <2>1 DEF ExistsBijection
    <2>4. QED BY <2>2, <2>3, FS_Bijection
  <1>10. Cardinality(Written') = card + Len(items)
    <2>1. Written \cap Range(items) = {} OBVIOUS
    <2>2. Cardinality(Written') = card + Len(items) - Cardinality({})
      BY <1>2, <1>8, <1>9, <2>1, FS_Union DEF card
    <2>3. Cardinality({}) = 0 BY FS_EmptySet
    <2>4. QED BY <1>1, <1>2, <2>2, <2>3
  <1>11. NumbersBounded'
    <2>1. SUFFICES ASSUME NEW e \in Events PROVE number'[e] <= card + Len(items)
      BY <1>10 DEF NumbersBounded
    <2>2. CASE e \in Range(items)
      <3>1. PICK i \in 1..Len(items) : e = items[i] BY <1>5, <2>2
      <3>2. QED BY <1>1, <1>2, <1>3, <3>1
    <2>3. CASE e \notin Range(items)
      <3>1. number'[e] = number[e] /\ number[e] <= card BY <1>4, <2>3 DEF NumbersBounded, card
      <3>2. QED BY <1>1, <1>2, <3>1
    <2>4. QED BY <2>2, <2>3
  <1>12. \A e \in Written : number'[e] = number[e]
    BY <1>2, <1>4
  <1>13. QED BY <1>3, <1>8, <1>11, <1>12 DEF card

(* The buffered events may follow, when they leave the buffer.             *)
LEMMA BufferFollows ==
  ASSUME TransportInv, OrderInv, buffer' = <<>>, Written \subseteq Written',
         \A e \in Written : number'[e] = number[e]
  PROVE  MayFollow(Left', Turn', buffer)
  <1>1. Left' = Written' BY DEF Left, Range
  <1>2. \A i \in 1..Len(buffer) : buffer[i] \in Written /\ buffer[i] \in Events
    BY OrderTypes DEF OrderInv, BufferLast
  <1>3. \A i \in 1..Len(buffer) : buffer[i] \in Left' BY <1>1, <1>2
  <1>4. \A d, e \in Written : number[d] < number[e] => <<d, e>> \in Turn'
    <2>1. \A d, e \in Written : /\ d \in Events /\ e \in Events
                                /\ number[d] \in Nat /\ number[e] \in Nat
      BY OrderTypes
    <2>2. SUFFICES ASSUME NEW d \in Written, NEW e \in Written, number[d] < number[e]
                   PROVE  <<d, e>> \in Turn'
      OBVIOUS
    <2>3. number'[d] <= number'[e] BY <2>1, <2>2
    <2>4. QED BY <2>1, <2>3 DEF Turn
  <1>5. \A i, j \in 1..Len(buffer) : i < j => <<buffer[i], buffer[j]>> \in Turn'
    BY <1>2, <1>4 DEF OrderInv, BufferLast
  <1>6. \A d \in Range(log) \cup Range(Backlog), i \in 1..Len(buffer) :
          <<d, buffer[i]>> \in Turn'
    <2>1. \A d \in Range(log) \cup Range(Backlog) : d \in Left /\ d \in Written
      BY LineHasLeft DEF Left
    <2>2. QED BY <1>2, <1>4, <2>1 DEF OrderInv, BufferLast
  <1>7. QED BY <1>3, <1>5, <1>6 DEF MayFollow

(* Events that are exempt may always follow.                               *)
LEMMA ExemptFollow ==
  ASSUME TransportInv, NEW items \in Seq(Events), Range(items) \subseteq Left',
         \A e \in Range(items) : Exempt(e)'
  PROVE  MayFollow(Left', Turn', items)
  <1>1. \A i \in 1..Len(items) : items[i] \in Range(items) /\ items[i] \in Events
    <2>1. DOMAIN items = 1..Len(items) BY LenProperties
    <2>2. QED BY <2>1, ElementOfSeq DEF Range
  <1>2. \A i \in 1..Len(items) : items[i] \in Left' BY <1>1
  <1>3. \A d \in Events, i \in 1..Len(items) : <<d, items[i]>> \in Turn'
    BY <1>1 DEF Turn
  <1>4. QED BY <1>1, <1>2, <1>3, OrderTypes DEF MayFollow

(* A step that numbers nothing.                                            *)
LEMMA UnnumberedKeepsOrder ==
  ASSUME TransportInv, OrderInv, number' = number, buffer' \in {buffer, <<>>},
         late \subseteq late', byteLimited' = byteLimited,
         \A c \in Calls :
           /\ call'[c] = "idle" => call[c] = "idle"
           /\ call'[c] \in {"streams", "message"} => call[c] \in {"streams", "message"},
         \A w \in Range(Waits') :
           w \in Range(Waits) \/ Range(w.items) \subseteq Left' \cap late',
         InLine(Left', Turn', log, Backlog, seen)
           => InLine(Left', Turn', log', Backlog', seen')
  PROVE  OrderInv'
  <1>1. Written' = Written /\ Left \subseteq Left'
    BY DEF Written, Left, Range
  <1>2. \A d, e \in Left : <<d, e>> \in Turn => <<d, e>> \in Turn'
    BY DEF Turn, Exempt, CCR
  <1>3. InLine(Left, Turn, log, Backlog, seen) BY DEF OrderInv
  <1>4. InLine(Left', Turn', log, Backlog, seen) BY <1>1, <1>2, <1>3, WiderLine
  <1>5. BufferLast'
    <2>1. CASE buffer' = buffer
      BY <1>1, <2>1 DEF OrderInv, BufferLast, Left
    <2>2. CASE buffer' = <<>>
      <3>1. Range(buffer') = {} /\ Len(buffer') = 0 BY <2>2 DEF Range
      <3>2. 1..0 = {} OBVIOUS
      <3>3. QED BY <3>1, <3>2 DEF BufferLast
    <2>3. QED BY <2>1, <2>2
  <1>6. NumbersBounded' BY <1>1 DEF OrderInv, NumbersBounded
  <1>7. CallsToCome'
    BY <1>1 DEF OrderInv, CallsToCome, CCR
  <1>8. WaitsAreLate'
    BY <1>1 DEF OrderInv, WaitsAreLate
  <1>9. QED BY <1>4, <1>5, <1>6, <1>7, <1>8 DEF OrderInv

LEMMA StreamEventOrder ==
  ASSUME TransportInv, TransportInv', OrderInv, NEW e \in StreamEvents, WriteStreamEvent(e)
  PROVE  OrderInv'
  <1>1. /\ e \in Events /\ e \notin Written
        /\ buffer' = Append(buffer, e) /\ Numbered(<<e>>)
        /\ UNCHANGED <<uploaderVars, call, late>>
    BY TransportConstants DEF WriteStreamEvent
  <1>2. <<e>> \in Seq(Events) /\ Len(<<e>>) = 1 /\ <<e>>[1] = e /\ Range(<<e>>) = {e}
    BY <1>1 DEF Range
  <1>3. /\ Written' = Written \cup {e}
        /\ \A d \in Written : number'[d] = number[d]
        /\ number'[e] = Cardinality(Written) + 1
        /\ NumbersBounded'
    <2> DEFINE items == <<e>>
    <2>1. /\ items \in Seq(Events) /\ Len(items) = 1 /\ items[1] = e
          /\ Range(items) = {e} /\ Numbered(items) /\ NumbersBounded
      BY <1>1, <1>2 DEF OrderInv
    <2> HIDE DEF items
    <2>2. \A i, j \in 1..Len(items) : items[i] = items[j] => i = j BY <2>1
    <2>3. Range(items) \cap Written = {} BY <1>1, <2>1
    <2>4. /\ Written' = Written \cup Range(items)
          /\ \A d \in Written : number'[d] = number[d]
          /\ \A i \in 1..Len(items) : number'[items[i]] = Cardinality(Written) + i
          /\ NumbersBounded'
      BY <2>1, <2>2, <2>3, NumberedLast
    <2>5. QED BY <2>1, <2>4
  <1>4. /\ Len(buffer') = Len(buffer) + 1
        /\ \A i \in 1..Len(buffer) : buffer'[i] = buffer[i]
        /\ buffer'[Len(buffer) + 1] = e
    BY <1>1, OrderTypes, AppendProperties
  <1>5. Range(buffer') = Range(buffer) \cup {e}
    <2>1. buffer' = buffer \o <<e>> BY <1>1, OrderTypes, AppendIsConcat
    <2>2. buffer \in Seq(Events) BY OrderTypes
    <2>3. Range(buffer \o <<e>>) = Range(buffer) \cup Range(<<e>>)
      BY <1>2, <2>2, RangeOfConcat
    <2>4. QED BY <1>2, <2>1, <2>3
  <1>6. Left' = Left
    BY <1>1, <1>3, <1>5 DEF Left, OrderInv, BufferLast
  <1>7. \A d \in Written : number[d] \in Nat /\ number[d] <= Cardinality(Written)
    BY OrderTypes DEF OrderInv, NumbersBounded
  <1>8. \A d \in Written : number'[d] < number'[e]
    BY <1>3, <1>7, OrderTypes
  <1>9. BufferLast'
    <2>1. Range(buffer') \subseteq Written'
      BY <1>3, <1>5 DEF OrderInv, BufferLast
    <2>2. \A i \in 1..Len(buffer) : buffer[i] \in Written
      BY OrderTypes DEF OrderInv, BufferLast
    <2>3. \A i \in 1..Len(buffer') : i \in 1..Len(buffer) \/ i = Len(buffer) + 1
      BY <1>4, OrderTypes
    <2>4. ASSUME NEW i \in 1..Len(buffer'), NEW j \in 1..Len(buffer'), i < j
          PROVE  number'[buffer'[i]] < number'[buffer'[j]]
      <3>1. i \in 1..Len(buffer) BY <1>4, <2>3, <2>4, OrderTypes
      <3>2. buffer'[i] = buffer[i] /\ buffer[i] \in Written BY <1>4, <2>2, <3>1
      <3>3. CASE j = Len(buffer) + 1 BY <1>4, <1>8, <3>2, <3>3
      <3>4. CASE j \in 1..Len(buffer)
        <4>1. number[buffer[i]] < number[buffer[j]]
          BY <2>4, <3>1, <3>4 DEF OrderInv, BufferLast
        <4>2. QED BY <1>3, <1>4, <2>2, <3>2, <3>4, <4>1
      <3>5. QED BY <2>3, <3>3, <3>4
    <2>5. ASSUME NEW d \in Left', NEW i \in 1..Len(buffer')
          PROVE  number'[d] < number'[buffer'[i]]
      <3>1. d \in Left /\ d \in Written BY <1>6, <2>5 DEF Left
      <3>2. CASE i = Len(buffer) + 1 BY <1>4, <1>8, <3>1, <3>2
      <3>3. CASE i \in 1..Len(buffer)
        <4>1. number[d] < number[buffer[i]] BY <3>1, <3>3 DEF OrderInv, BufferLast
        <4>2. QED BY <1>3, <1>4, <2>2, <3>1, <3>3, <4>1
      <3>4. QED BY <2>3, <3>2, <3>3
    <2>6. QED BY <2>1, <2>4, <2>5 DEF BufferLast
  <1>10. InLine(Left, Turn', log, Backlog, seen)
    <2>1. \A d, f \in Left : <<d, f>> \in Turn => <<d, f>> \in Turn'
      BY <1>1, <1>3 DEF Left, Turn, Exempt, CCR, uploaderVars, config
    <2>2. QED BY <2>1, WiderLine DEF OrderInv
  <1>11. InLine(Left', Turn', log', Backlog', seen')
    BY <1>1, <1>6, <1>10 DEF uploaderVars, Backlog
  <1>12. CallsToCome'
    <2>1. \A c \in Calls : e \notin Range(Messages[c]) BY MessageConstants
    <2>2. QED BY <1>1, <1>3, <1>6, <2>1
              DEF OrderInv, CallsToCome, CCR, uploaderVars, config
  <1>13. WaitsAreLate'
    BY <1>1, <1>6 DEF OrderInv, WaitsAreLate, Waits, uploaderVars
  <1>14. QED BY <1>3, <1>9, <1>11, <1>12, <1>13 DEF OrderInv

(* A step that hands items to the uploader and numbers nothing.            *)
LEMMA EnqueueKeepsOrder ==
  ASSUME TransportInv, TransportInv', OrderInv, number' = number,
         buffer' \in {buffer, <<>>}, late \subseteq late',
         \A c \in Calls :
           /\ call'[c] = "idle" => call[c] = "idle"
           /\ call'[c] \in {"streams", "message"} => call[c] \in {"streams", "message"},
         \A w \in Range(Waits') :
           w \in Range(Waits) \/ Range(w.items) \subseteq Left' \cap late',
         NEW items \in Seq(Events), NEW wait, NEW flushes,
         EnqueueOr(items, wait, flushes), MayFollow(Left', Turn', items)
  PROVE  OrderInv'
  <1>1. Up /\ byteLimited' = byteLimited
    BY DEF TransportInv, EnqueueOr, config
  <1>2. InLine(Left', Turn', log, Backlog, seen)
          => InLine(Left', Turn', log', Backlog', seen')
    BY <1>1, EnqueueInLine
  <1>3. QED BY <1>1, <1>2, UnnumberedKeepsOrder

(* The buffered events are handed over and nothing is numbered.            *)
LEMMA BufferEnqueued ==
  ASSUME TransportInv, TransportInv', OrderInv, NEW by \in Callers \cup {Nobody},
         NEW flushes, Enqueue(by, buffer, flushes), TakeStreamEvents,
         number' = number,
         late' = (IF Returns(buffer) THEN late ELSE late \cup Range(buffer)),
         \A c \in Calls :
           /\ call'[c] = "idle" => call[c] = "idle"
           /\ call'[c] \in {"streams", "message"} => call[c] \in {"streams", "message"}
  PROVE  OrderInv'
  <1>1. buffer' = <<>> /\ Written' = Written /\ buffer \in Seq(Events)
    BY OrderTypes DEF TakeStreamEvents, Written
  <1>2. MayFollow(Left', Turn', buffer) BY <1>1, BufferFollows
  <1>3. Range(buffer) \subseteq Left'
    BY <1>1 DEF OrderInv, BufferLast, Left, Range
  <1>4. \A w \in Range(Waits') :
          w \in Range(Waits) \/ Range(w.items) \subseteq Left' \cap late'
    <2> DEFINE e == [by |-> by, items |-> buffer]
    <2>1. /\ Range(Waits') \subseteq Range(Waits) \cup {e}
          /\ Returns(buffer) => Waits' = Waits
      BY <1>1, WaitsAfterEnqueue
    <2>2. e.items = buffer OBVIOUS
    <2> HIDE DEF e
    <2>3. QED BY <1>3, <2>1, <2>2
  <1>5. PICK wait : EnqueueOr(buffer, wait, flushes) BY DEF Enqueue
  <1>6. late \subseteq late' OBVIOUS
  <1>7. QED BY <1>1, <1>2, <1>4, <1>5, <1>6, EnqueueKeepsOrder

LEMMA FlushCallOrder ==
  ASSUME TransportInv, TransportInv', OrderInv,
         TimerFires \/ \E f \in Flushers : FlushCall(f)
  PROVE  OrderInv'
  <1>1. CASE TimerFires
    <2>1. /\ Enqueue(Nobody, buffer, {}) /\ TakeStreamEvents /\ number' = number
          /\ late' = (IF Returns(buffer) THEN late ELSE late \cup Range(buffer))
          /\ call' = call
      BY <1>1 DEF TimerFires, EnqueueUnawaited
    <2>2. QED BY <2>1, BufferEnqueued
  <1>2. ASSUME NEW f \in Flushers, FlushCall(f) PROVE OrderInv'
    <2>1. PICK by \in {f, Nobody}, flushes \in {{}, {f}} : Enqueue(by, buffer, flushes)
      BY <1>2 DEF FlushCall, EnqueueThen, EnqueueUnawaited
    <2>2. /\ TakeStreamEvents /\ number' = number
          /\ late' = (IF Returns(buffer) THEN late ELSE late \cup Range(buffer))
          /\ call' = [call EXCEPT ![f] = call'[f]]
      BY <1>2 DEF FlushCall, EnqueueThen, EnqueueUnawaited, TransportInv, TransportOK, Actors
    <2>3. f \notin Calls /\ f \in Callers /\ call \in [Actors -> Steps]
      BY TransportConstants DEF TransportInv, TransportOK, Actors
    <2>4. \A c \in Calls : call'[c] = call[c] BY <2>2, <2>3 DEF Actors
    <2>5. by \in Callers \cup {Nobody} BY <2>3
    <2>6. QED BY <2>1, <2>2, <2>4, <2>5, BufferEnqueued
  <1>3. QED BY <1>1, <1>2

LEMMA CCRMessageOrder ==
  ASSUME TransportInv, TransportInv', OrderInv, NEW c \in Calls, CCRWriteMessage(c)
  PROVE  OrderInv'
  <1> DEFINE items == Messages[c]
             e == [by |-> c, items |-> items]
  <1>1. /\ call[c] = "message" /\ Enqueue(c, items, {})
        /\ call' = [call EXCEPT ![c] = IF Returns(items) THEN "done" ELSE "room"]
        /\ late' = IF Returns(items) THEN late ELSE late \cup Range(items)
        /\ number' = number /\ buffer' = buffer
    BY DEF CCRWriteMessage, EnqueueThen
  <1>2. /\ CCR /\ items \in Seq(Events) /\ Range(items) \subseteq Left
        /\ Range(items) \cap StreamEvents = {} /\ c \in Callers \cup {Nobody}
    BY <1>1, MessageConstants, TransportConstants DEF OrderInv, CallsToCome, Actors
  <1> HIDE DEF items
  <1>3. Left' = Left /\ CCR' = CCR
    BY <1>1 DEF Left, Written, Enqueue, EnqueueOr, config, CCR
  <1>4. \A d \in Range(items) : Exempt(d)' BY <1>2, <1>3 DEF Exempt
  <1>5. MayFollow(Left', Turn', items) BY <1>2, <1>3, <1>4, ExemptFollow
  <1>6. \A w \in Range(Waits') :
          w \in Range(Waits) \/ Range(w.items) \subseteq Left' \cap late'
    <2>1. /\ Range(Waits') \subseteq Range(Waits) \cup {e}
          /\ Returns(items) => Waits' = Waits
      BY <1>1, <1>2, WaitsAfterEnqueue
    <2>2. e.items = items OBVIOUS
    <2> HIDE DEF e
    <2>3. QED BY <1>1, <1>2, <1>3, <2>1, <2>2
  <1>7. PICK wait : EnqueueOr(items, wait, {}) BY <1>1 DEF Enqueue
  <1>8. call \in [Actors -> Steps] /\ c \in Actors
    BY DEF TransportInv, TransportOK, Actors
  <1>9. \A d \in Calls :
          /\ call'[d] = "idle" => call[d] = "idle"
          /\ call'[d] \in {"streams", "message"} => call[d] \in {"streams", "message"}
    BY <1>1, <1>8 DEF Actors
  <1>10. late \subseteq late' BY <1>1
  <1>11. QED BY <1>1, <1>2, <1>5, <1>6, <1>7, <1>9, <1>10, EnqueueKeepsOrder

LEMMA RetryOrder ==
  ASSUME TransportInv, TransportInv', OrderInv, Retry PROVE OrderInv'
  <1> DEFINE e == Head(ready)
  <1>1. /\ e \in Enqueues /\ e \in Range(Waits) /\ Range(Waits') \subseteq Range(Waits)
        /\ e.items \in Seq(Events)
    BY WaitsAfterRetry DEF Enqueues
  <1>2. /\ EnqueueOr(e.items, Append(waiting, e), {}) /\ late' = late
        /\ number' = number /\ buffer' = buffer
        /\ call' = [c \in Actors |-> IF c = e.by /\ Returns(e.items)
                                     THEN After(c) ELSE call[c]]
    BY DEF Retry, EnqueueAgain, TransportInv, TransportOK
  <1> HIDE DEF e
  <1>3. Range(e.items) \subseteq Left \cap late
    BY <1>1 DEF OrderInv, WaitsAreLate
  <1>4. Left' = Left BY <1>2 DEF Left, Written
  <1>5. \A d \in Range(e.items) : Exempt(d)' BY <1>2, <1>3 DEF Exempt
  <1>6. MayFollow(Left', Turn', e.items) BY <1>1, <1>3, <1>4, <1>5, ExemptFollow
  <1>7. \A c \in Actors : c = e.by => call[c] \in {"streams", "room"}
    <2>1. Waits \in Seq(Enqueues) /\ DOMAIN Waits = 1..Len(Waits)
      BY WaitsTypes, LenProperties
    <2>2. PICK i \in 1..Len(Waits) : e = Waits[i] BY <1>1, <2>1 DEF Range
    <2>3. QED BY <2>2, TransportConstants DEF TransportInv, WaitsOK
  <1>8. \A c \in Calls :
          /\ call'[c] = "idle" => call[c] = "idle"
          /\ call'[c] \in {"streams", "message"} => call[c] \in {"streams", "message"}
    <2>1. SUFFICES ASSUME NEW c \in Calls, call'[c] # call[c]
                   PROVE  /\ call'[c] # "idle"
                          /\ call'[c] \in {"streams", "message"} => call[c] = "streams"
      OBVIOUS
    <2>2. c = e.by /\ call'[c] = After(c) /\ call[c] \in {"streams", "room"}
      BY <1>2, <1>7, <2>1 DEF Actors
    <2>3. QED BY <2>2 DEF After
  <1>9. late \subseteq late' /\ \A w \in Range(Waits') : w \in Range(Waits)
    BY <1>1, <1>2
  <1>10. QED BY <1>1, <1>2, <1>6, <1>8, <1>9, EnqueueKeepsOrder

LEMMA FollowBoth ==
  ASSUME NEW S, NEW R, NEW a \in Seq(Events), NEW b \in Seq(Events),
         MayFollow(S, R, a), MayFollow(S, R, b),
         \A i \in 1..Len(a), j \in 1..Len(b) : <<a[i], b[j]>> \in R
  PROVE  MayFollow(S, R, a \o b)
  <1> DEFINE new == a \o b
  <1>1. /\ Len(a) \in Nat /\ Len(b) \in Nat /\ Len(new) = Len(a) + Len(b)
        /\ \A i \in 1..(Len(a) + Len(b)) :
             new[i] = IF i <= Len(a) THEN a[i] ELSE b[i - Len(a)]
    BY ConcatProperties, LenProperties
  <1> HIDE DEF new
  <1>2. \A i \in 1..Len(new) :
          \/ i \in 1..Len(a) /\ new[i] = a[i]
          \/ i > Len(a) /\ i - Len(a) \in 1..Len(b) /\ new[i] = b[i - Len(a)]
    BY <1>1
  <1>3. \A i \in 1..Len(new) : new[i] \in S BY <1>2 DEF MayFollow
  <1>4. \A d \in Range(log) \cup Range(Backlog), i \in 1..Len(new) : <<d, new[i]>> \in R
    BY <1>2 DEF MayFollow
  <1>5. ASSUME NEW i \in 1..Len(new), NEW j \in 1..Len(new), i < j
        PROVE  <<new[i], new[j]>> \in R
    <2>1. CASE i \in 1..Len(a) /\ new[i] = a[i]
      <3>1. CASE j \in 1..Len(a) /\ new[j] = a[j]
        BY <1>5, <2>1, <3>1 DEF MayFollow
      <3>2. CASE j - Len(a) \in 1..Len(b) /\ new[j] = b[j - Len(a)]
        BY <2>1, <3>2
      <3>3. QED BY <1>2, <3>1, <3>2
    <2>2. CASE i > Len(a) /\ i - Len(a) \in 1..Len(b) /\ new[i] = b[i - Len(a)]
      <3>1. j > Len(a) /\ j - Len(a) \in 1..Len(b) /\ new[j] = b[j - Len(a)]
        BY <1>1, <1>2, <1>5, <2>2
      <3>2. i - Len(a) < j - Len(a) BY <1>1, <1>5, <2>2
      <3>3. QED BY <2>2, <3>1, <3>2 DEF MayFollow
    <2>3. QED BY <1>2, <2>1, <2>2
  <1>6. QED BY <1>3, <1>4, <1>5 DEF MayFollow, new

(* The events of a call that begins may follow all others.                 *)
LEMMA CallBegins ==
  ASSUME TransportInv, OrderInv, buffer' = <<>>, NEW c \in Calls, call[c] = "idle",
         Numbered(Messages[c])
  PROVE  /\ Left' = Written \cup Range(Messages[c])
         /\ Written' = Written \cup Range(Messages[c])
         /\ \A e \in Written : number'[e] = number[e]
         /\ NumbersBounded'
         /\ MayFollow(Left', Turn', Messages[c])
         /\ \A i \in 1..Len(buffer), j \in 1..Len(Messages[c]) :
              <<buffer[i], Messages[c][j]>> \in Turn'
  <1> DEFINE items == Messages[c]
             card == Cardinality(Written)
  <1>1. /\ items \in Seq(Events) /\ Numbered(items)
        /\ \A i, j \in 1..Len(items) : items[i] = items[j] => i = j
        /\ Range(items) \cap Written = {} /\ NumbersBounded
    BY MessageConstants DEF OrderInv, CallsToCome
  <1> HIDE DEF items
  <1>2. /\ Written' = Written \cup Range(items)
        /\ \A e \in Written : number'[e] = number[e]
        /\ \A i \in 1..Len(items) : number'[items[i]] = card + i
        /\ NumbersBounded'
    BY <1>1, NumberedLast
  <1>3. Left' = Written \cup Range(items)
    <2>1. Range(buffer') = {} BY DEF Range
    <2>2. QED BY <1>2, <2>1 DEF Left
  <1>4. /\ card \in Nat
        /\ \A d \in Written : d \in Events /\ number[d] \in Nat /\ number[d] <= card
    BY OrderTypes DEF OrderInv, NumbersBounded
  <1> HIDE DEF card
  <1>5. \A i \in 1..Len(items) : items[i] \in Events /\ items[i] \in Range(items)
    <2>1. DOMAIN items = 1..Len(items) BY <1>1, LenProperties
    <2>2. QED BY <1>1, <2>1, ElementOfSeq DEF Range
  <1>6. \A d \in Written, j \in 1..Len(items) : <<d, items[j]>> \in Turn'
    <2>1. SUFFICES ASSUME NEW d \in Written, NEW j \in 1..Len(items)
                   PROVE  <<d, items[j]>> \in Turn'
      OBVIOUS
    <2>2. number'[d] = number[d] /\ number'[items[j]] = card + j BY <1>2
    <2>3. number'[d] <= number'[items[j]] BY <1>4, <2>2
    <2>4. QED BY <1>4, <1>5, <2>3 DEF Turn
  <1>7. \A i, j \in 1..Len(items) : i < j => <<items[i], items[j]>> \in Turn'
    <2>1. SUFFICES ASSUME NEW i \in 1..Len(items), NEW j \in 1..Len(items), i < j
                   PROVE  <<items[i], items[j]>> \in Turn'
      OBVIOUS
    <2>2. number'[items[i]] <= number'[items[j]] BY <1>2, <1>4, <2>1
    <2>3. QED BY <1>5, <2>2 DEF Turn
  <1>8. MayFollow(Left', Turn', items)
    <2>1. \A d \in Range(log) \cup Range(Backlog) : d \in Written
      BY LineHasLeft DEF Left
    <2>2. \A i \in 1..Len(items) : items[i] \in Left' BY <1>3, <1>5
    <2>3. \A d \in Range(log) \cup Range(Backlog), i \in 1..Len(items) :
            <<d, items[i]>> \in Turn'
      BY <1>6, <2>1
    <2>4. QED BY <1>7, <2>2, <2>3 DEF MayFollow
  <1>9. \A i \in 1..Len(buffer) : buffer[i] \in Written
    BY OrderTypes DEF OrderInv, BufferLast
  <1>10. QED BY <1>2, <1>3, <1>6, <1>8, <1>9 DEF items

(* A call that begins, handing items to the uploader.                      *)
LEMMA BeginningKeepsOrder ==
  ASSUME TransportInv, TransportInv', OrderInv, NEW c \in Calls, call[c] = "idle",
         TakeStreamEvents, Numbered(Messages[c]),
         NEW items \in Seq(Events), NEW next, NEW wait,
         EnqueueThen(c, items, next, wait), {next, wait} \cap {"idle"} = {},
         {next, wait} \cap {"streams", "message"} # {} => CCR,
         MayFollow(Left', Turn', items)
  PROVE  OrderInv'
  <1>1. buffer' = <<>> BY DEF TakeStreamEvents
  <1>2. /\ Left' = Written \cup Range(Messages[c])
        /\ Written' = Written \cup Range(Messages[c])
        /\ \A e \in Written : number'[e] = number[e]
        /\ NumbersBounded'
    BY <1>1, CallBegins
  <1>3. /\ Enqueue(c, items, {})
        /\ call' = [call EXCEPT ![c] = IF Returns(items) THEN next ELSE wait]
        /\ late' = (IF Returns(items) THEN late ELSE late \cup Range(items))
    BY DEF EnqueueThen
  <1>4. Left \subseteq Left' BY <1>2 DEF Left
  <1>5. CCR' = CCR BY <1>3 DEF Enqueue, EnqueueOr, config, CCR
  <1>6. InLine(Left', Turn', log', Backlog', seen')
    <2>1. \A d, e \in Left : <<d, e>> \in Turn => <<d, e>> \in Turn'
      BY <1>2, <1>3, <1>5 DEF Left, Turn, Exempt
    <2>2. InLine(Left', Turn', log, Backlog, seen)
      BY <1>4, <2>1, WiderLine DEF OrderInv
    <2>3. PICK queue : EnqueueOr(items, queue, {}) BY <1>3 DEF Enqueue
    <2>4. Up BY DEF TransportInv
    <2>5. QED BY <2>2, <2>3, <2>4, EnqueueInLine
  <1>7. BufferLast'
    <2>1. Range(buffer') = {} /\ Len(buffer') = 0 BY <1>1 DEF Range
    <2>2. 1..0 = {} OBVIOUS
    <2>3. QED BY <2>1, <2>2 DEF BufferLast
  <1>8. CallsToCome'
    <2>1. call \in [Actors -> Steps] /\ c \in Actors
      BY DEF TransportInv, TransportOK, Actors
    <2>2. SUFFICES ASSUME NEW d \in Calls
                   PROVE  /\ call'[d] = "idle" => Range(Messages[d]) \cap Written' = {}
                          /\ call'[d] \in {"streams", "message"} =>
                               CCR' /\ Range(Messages[d]) \subseteq Left'
      BY DEF CallsToCome
    <2>3. CASE d = c
      <3>1. call'[c] \in {next, wait} BY <1>3, <2>1
      <3>2. QED BY <1>2, <1>5, <2>3, <3>1
    <2>4. CASE d # c
      <3>1. call'[d] = call[d] BY <1>3, <2>1, <2>4 DEF Actors
      <3>2. Range(Messages[d]) \cap Range(Messages[c]) = {} BY <2>4, MessageConstants
      <3>3. QED BY <1>2, <1>4, <1>5, <3>1, <3>2 DEF OrderInv, CallsToCome
    <2>5. QED BY <2>3, <2>4
  <1>9. WaitsAreLate'
    <2> DEFINE e == [by |-> c, items |-> items]
    <2>1. /\ Range(Waits') \subseteq Range(Waits) \cup {e}
          /\ Returns(items) => Waits' = Waits
      <3>1. c \in Callers \cup {Nobody} BY TransportConstants DEF Actors
      <3>2. QED BY <1>3, <3>1, WaitsAfterEnqueue
    <2>2. e.items = items OBVIOUS
    <2> HIDE DEF e
    <2>3. Range(items) \subseteq Left'
      <3>1. DOMAIN items = 1..Len(items) BY LenProperties
      <3>2. QED BY <3>1 DEF MayFollow, Range
    <2>4. QED BY <1>3, <1>4, <2>1, <2>2, <2>3 DEF OrderInv, WaitsAreLate
  <1>10. QED BY <1>2, <1>6, <1>7, <1>8, <1>9 DEF OrderInv

LEMMA WriteOrder ==
  ASSUME TransportInv, TransportInv', OrderInv, NEW c \in Calls,
         HybridWrite(c) \/ CCRWrite(c)
  PROVE  OrderInv'
  <1>1. buffer' = <<>> /\ call[c] = "idle" /\ Numbered(Messages[c]) /\ TakeStreamEvents
    BY DEF HybridWrite, CCRWrite, TakeStreamEvents
  <1>2. /\ Written' = Written \cup Range(Messages[c])
        /\ \A e \in Written : number'[e] = number[e]
        /\ MayFollow(Left', Turn', Messages[c])
        /\ \A i \in 1..Len(buffer), j \in 1..Len(Messages[c]) :
             <<buffer[i], Messages[c][j]>> \in Turn'
    BY <1>1, CallBegins
  <1>3. MayFollow(Left', Turn', buffer) BY <1>1, <1>2, BufferFollows
  <1>4. buffer \in Seq(Events) /\ Messages[c] \in Seq(Events)
    BY OrderTypes, MessageConstants
  <1>5. CASE HybridWrite(c)
    <2> DEFINE items == buffer \o Messages[c]
    <2>1. EnqueueThen(c, items, "flush", "room") BY <1>5 DEF HybridWrite
    <2>2. MayFollow(Left', Turn', items) BY <1>2, <1>3, <1>4, FollowBoth
    <2>3. items \in Seq(Events) BY <1>4, ConcatProperties
    <2> HIDE DEF items
    <2>4. QED BY <1>1, <2>1, <2>2, <2>3, BeginningKeepsOrder
  <1>6. CASE CCRWrite(c)
    <2>1. EnqueueThen(c, buffer, "message", "streams") /\ CCR BY <1>6 DEF CCRWrite
    <2>2. QED BY <1>1, <1>3, <1>4, <2>1, BeginningKeepsOrder
  <1>7. QED BY <1>5, <1>6

(* A step that enqueues nothing.                                           *)
LEMMA MoveKeepsOrder ==
  ASSUME TransportInv, TransportInv', OrderInv, UNCHANGED <<call, number, late>>,
         buffer' \in {buffer, <<>>}, Waits' = Waits, byteLimited' = byteLimited,
         ChannelMove
  PROVE  OrderInv'
  <1>1. Up /\ Up' BY DEF TransportInv
  <1>2. InLine(Left', Turn', log, Backlog, seen)
          => InLine(Left', Turn', log', Backlog', seen')
    BY <1>1, MoveInLine
  <1>3. QED BY <1>2, UnnumberedKeepsOrder

LEMMA FlushAfterOrder ==
  ASSUME TransportInv, TransportInv', OrderInv, NEW c \in Actors, FlushAfter(c)
  PROVE  OrderInv'
  <1>1. /\ number' = number /\ buffer' = buffer /\ late' = late
        /\ UNCHANGED <<byteLimited, pending, inflight, log, seen, waiting, ready>>
        /\ call[c] = "flush" /\ call' = [call EXCEPT ![c] = "done"]
    BY DEF FlushAfter, Flush, config
  <1>2. Backlog' = Backlog /\ Waits' = Waits BY <1>1 DEF Backlog, Waits
  <1>3. \A d \in Calls :
          /\ call'[d] = "idle" => call[d] = "idle"
          /\ call'[d] \in {"streams", "message"} => call[d] \in {"streams", "message"}
    <2>1. call \in [Actors -> Steps] BY DEF TransportInv, TransportOK, Actors
    <2>2. QED BY <1>1, <2>1 DEF Actors
  <1>4. QED BY <1>1, <1>2, <1>3, UnnumberedKeepsOrder

LEMMA CloseOrder ==
  ASSUME TransportInv, TransportInv', OrderInv, CloseTransport \/ GraceEnds
  PROVE  OrderInv'
  <1>1. /\ UNCHANGED <<call, number, late>> /\ buffer' \in {buffer, <<>>}
        /\ CloseUploader \/ Flush(Closer)
    BY DEF CloseTransport, GraceEnds, TakeStreamEvents
  <1>2. byteLimited' = byteLimited BY <1>1 DEF CloseUploader, Flush, config
  <1>3. CASE CloseUploader
    <2>1. ChannelMove BY <1>3, CloseStep DEF TransportInv
    <2>2. ReleaseBackpressure \/ UNCHANGED <<ready, waiting>>
      BY <1>3 DEF CloseUploader
    <2>3. Waits' = Waits BY <2>2, WaitsAfterRelease
    <2>4. QED BY <1>1, <1>2, <2>1, <2>3, MoveKeepsOrder
  <1>4. CASE Flush(Closer)
    <2>1. UNCHANGED <<pending, inflight, log, seen, waiting, ready, closed>>
      BY <1>4 DEF Flush
    <2>2. ChannelMove /\ Waits' = Waits BY <2>1 DEF ChannelMove, Backlog, Waits
    <2>3. QED BY <1>1, <1>2, <2>2, MoveKeepsOrder
  <1>5. QED BY <1>1, <1>3, <1>4

LEMMA SendsOrder ==
  ASSUME TransportInv, TransportInv', OrderInv, Sends PROVE OrderInv'
  <1>1. UNCHANGED <<call, number, late, buffer>> BY DEF Sends, transportVars
  <1>2. SendResolves(~CCR) \/ SendFails \/ SendFailsForGood \/ WakeUp BY DEF Sends
  <1>3. byteLimited' = byteLimited
    BY <1>2 DEF SendResolves, SendFails, SendFailsForGood, WakeUp, config
  <1>4. ReleaseBackpressure \/ UNCHANGED <<ready, waiting>>
    BY <1>2 DEF SendResolves, SendFails, SendFailsForGood, WakeUp
  <1>5. Waits' = Waits BY <1>4, WaitsAfterRelease
  <1>6. ChannelMove
    BY <1>2, BatchDone, WakeUpStep, SendFailsStep
       DEF TransportInv, SendResolves, SendFailsForGood
  <1>7. QED BY <1>1, <1>3, <1>5, <1>6, MoveKeepsOrder

LEMMA StepOrder ==
  TransportInv /\ TransportInv' /\ OrderInv /\ [Next]_vars => OrderInv'
  <1>1. SUFFICES ASSUME TransportInv, TransportInv', OrderInv, [Next]_vars
                 PROVE  OrderInv'
    OBVIOUS
  <1>2. CASE UNCHANGED vars
    <2>1. /\ UNCHANGED <<call, number, late, buffer, byteLimited>>
          /\ UNCHANGED <<pending, inflight, log, seen, waiting, ready, closed>>
      BY <1>2 DEF vars, uploaderVars, transportVars
    <2>2. ChannelMove /\ Waits' = Waits BY <2>1 DEF ChannelMove, Backlog, Waits
    <2>3. QED BY <1>1, <2>1, <2>2, MoveKeepsOrder
  <1>3. CASE \E e \in StreamEvents : WriteStreamEvent(e)
    BY <1>1, <1>3, StreamEventOrder
  <1>4. CASE \E c \in Calls : HybridWrite(c) \/ CCRWrite(c) \/ CCRWriteMessage(c)
    BY <1>1, <1>4, WriteOrder, CCRMessageOrder
  <1>5. CASE TimerFires \/ \E f \in Flushers : FlushCall(f)
    BY <1>1, <1>5, FlushCallOrder
  <1>6. CASE \E c \in Calls \cup Flushers : FlushAfter(c)
    BY <1>1, <1>6, FlushAfterOrder DEF Actors
  <1>7. CASE CloseTransport \/ GraceEnds BY <1>1, <1>7, CloseOrder
  <1>8. CASE Sends BY <1>1, <1>8, SendsOrder
  <1>9. CASE Retry BY <1>1, <1>9, RetryOrder
  <1>10. QED
    BY <1>1, <1>2, <1>3, <1>4, <1>5, <1>6, <1>7, <1>8, <1>9 DEF Next

(* The server receives the events in the order in which they were written,   *)
(* whatever is lost, repeated or given up, unless the one written first had  *)
(* to wait for room or CCRClient was to send it after its stream events.     *)
THEOREM ServerSeesOrder == Spec => []InOrder
  <1>1. TransportInv /\ OrderInv => InOrder
    <2>1. SUFFICES ASSUME TransportInv, OrderInv,
                          NEW i \in 1..Len(log), NEW j \in 1..Len(log),
                          i < j, number[log[j]] < number[log[i]]
                   PROVE  Exempt(log[j])
      BY DEF InOrder, Exempt
    <2>2. <<log[i], log[j]>> \in Turn BY <2>1 DEF OrderInv, InLine
    <2>3. /\ log[i] \in Events /\ log[j] \in Events
          /\ number[log[i]] <= number[log[j]] \/ Exempt(log[j])
      BY <2>2 DEF Turn
    <2>4. number[log[i]] \in Nat /\ number[log[j]] \in Nat BY <2>1, <2>3, OrderTypes
    <2>5. QED BY <2>1, <2>3, <2>4
  <1>2. Init => OrderInv
    <2>1. SUFFICES ASSUME Init PROVE OrderInv
      OBVIOUS
    <2>2. /\ buffer = <<>> /\ log = <<>> /\ Backlog = <<>> /\ Waits = <<>>
          /\ number = [e \in Events |-> 0] /\ call = [c \in Actors |-> "idle"]
      BY <2>1, EmptySeq, ConcatEmptySeq
         DEF Init, UploaderInit, Backlog, Waits, Actors
    <2>3. Written = {} BY <2>2 DEF Written
    <2>4. Range(buffer) = {} /\ Range(Waits) = {} BY <2>2 DEF Range
    <2>5. Left = {} BY <2>3 DEF Left
    <2>6. /\ Len(log) = 0 /\ Len(Backlog) = 0 /\ Len(buffer) = 0 /\ 1..0 = {}
      BY <2>2
    <2>7. InLine(Left, Turn, log, Backlog, seen) BY <2>6 DEF InLine
    <2>8. BufferLast BY <2>4, <2>5, <2>6 DEF BufferLast
    <2>9. NumbersBounded
      <3>1. Cardinality(Written) = 0 BY <2>3, FS_EmptySet
      <3>2. QED BY <2>2, <3>1 DEF NumbersBounded
    <2>10. CallsToCome BY <2>2, <2>3 DEF CallsToCome, Actors
    <2>11. WaitsAreLate BY <2>4 DEF WaitsAreLate
    <2>12. QED BY <2>7, <2>8, <2>9, <2>10, <2>11 DEF OrderInv
  <1>3. TransportInv /\ TransportInv' /\ OrderInv /\ [Next]_vars => OrderInv'
    BY StepOrder
  <1>4. QED BY <1>1, <1>2, <1>3, TransportHolds, PTL DEF Spec
===============================================================================
