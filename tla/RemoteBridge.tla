------------------------------ MODULE RemoteBridge ------------------------------
(***************************************************************************)
(* The remote bridge of bridge/remoteBridgeCore.ts: messages go to the      *)
(* server through a transport (bridge/replBridgeTransport.ts) that is       *)
(* rebuilt with fresh credentials before they expire and after a 401, and   *)
(* wait in the gate of bridge/flushGate.ts while the history of the         *)
(* conversation is flushed or the transport is rebuilt.                     *)
(*                                                                         *)
(* A transport's uploader is a queue that posts in order and forgets what   *)
(* it holds when it is closed, which is what EventTransport shows of it.    *)
(* early and refreshFailed are not in the code: whether a rebuild or the    *)
(* teardown opened the gate before the history was flushed, and whether a   *)
(* rebuild was given up.                                                    *)
(***************************************************************************)
EXTENDS Integers, Sequences, Functions

CONSTANTS
  Histories,      \* the histories a bridge may start with
  Live,           \* the messages that are written later, in order
  MaxTransports

ASSUME BridgeAssumption ==
  /\ MaxTransports \in Nat \ {0}
  /\ Live \in Seq(Range(Live))
  /\ \A k, l \in DOMAIN Live : Live[k] = Live[l] => k = l
  /\ \A h \in Histories : h \in Seq(Range(h)) /\ Range(h) \cap Range(Live) = {}

Transports == 1..MaxTransports
Paths == {"auth401", "refresh"}

VARIABLES
  history,
  current,            \* the transport the variable of that name holds
  state,              \* of a transport: "none", "connecting", "ready", "closed"
  initializing,       \* the transports whose ccr.initialize is under way
  accepted,           \* the transport whose epoch the server accepts, or 0
  queue,              \* what the uploader of a transport holds
  server,             \* what the server has received
  gateActive, gatePending,
  flushing,           \* what flushHistory has still to write to a transport
  initialFlushDone,
  path,               \* where recoverFromAuthFailure and onRefresh are
  teardown,           \* "no", "archiving" or "done"
  written,            \* how many live messages have been written
  early, refreshFailed

vars == <<history, current, state, initializing, accepted, queue, server,
          gateActive, gatePending, flushing, initialFlushDone, path, teardown,
          written, early, refreshFailed>>

Messages == Range(Live) \cup UNION {Range(h) : h \in Histories}
NoFlush == <<"none">>

TypeOK ==
  /\ history \in Histories
  /\ current \in Transports
  /\ state \in [Transports -> {"none", "connecting", "ready", "closed"}]
  /\ initializing \subseteq Transports
  /\ accepted \in Transports \cup {0}
  /\ queue \in [Transports -> Seq(Messages)]
  /\ server \in Seq(Messages)
  /\ gateActive \in BOOLEAN /\ gatePending \in Seq(Messages)
  /\ flushing \in [Transports -> Seq(Messages) \cup {NoFlush}]
  /\ initialFlushDone \in BOOLEAN
  /\ path \in [Paths -> {"idle", "oauth", "fetch", "build"}]
  /\ teardown \in {"no", "archiving", "done"}
  /\ written \in 0..Len(Live)
  /\ early \in BOOLEAN /\ refreshFailed \in BOOLEAN

\* The gate is closed before the first transport connects, if there is a history.
Init ==
  /\ history \in Histories
  /\ current = 1
  /\ state = [n \in Transports |-> IF n = 1 THEN "connecting" ELSE "none"]
  /\ initializing = {1}
  /\ accepted = 1
  /\ queue = [n \in Transports |-> <<>>]
  /\ server = <<>>
  /\ gateActive = (history # <<>>) /\ gatePending = <<>>
  /\ flushing = [n \in Transports |-> NoFlush]
  /\ initialFlushDone = FALSE
  /\ path = [p \in Paths |-> "idle"]
  /\ teardown = "no"
  /\ written = 0
  /\ early = FALSE /\ refreshFailed = FALSE

-------------------------------------------------------------------------------
tornDown == teardown # "no"
authRecoveryInFlight == \E p \in Paths : path[p] # "idle"
Open(n) == state[n] \in {"connecting", "ready"}

\* writeBatch(): a closed uploader takes nothing.
WriteBatch(n, msgs) ==
  queue' = IF Open(n) THEN [queue EXCEPT ![n] = @ \o msgs] ELSE queue

\* close(), of the transport or of its ccr alone.
CloseTransport(n) ==
  /\ state' = [state EXCEPT ![n] = "closed"]
  /\ queue' = [queue EXCEPT ![n] = <<>>]

\* The gate is opened otherwise than by the end of the flush.
OpensGate ==
  /\ gateActive' = FALSE /\ gatePending' = <<>>
  /\ early' = IF history # <<>> /\ (~initialFlushDone
                    \/ \E n \in Transports : flushing[n] # NoFlush)
              THEN TRUE ELSE early

DrainFlushGate ==
  /\ gateActive' = FALSE /\ gatePending' = <<>>
  /\ WriteBatch(current, gatePending)

\* A mutant of WriteMessages: the gate queues only while a transport is rebuilt.
WriteMessagesPastFlush ==
  /\ written < Len(Live) /\ teardown # "done"
  /\ written' = written + 1
  /\ IF gateActive /\ authRecoveryInFlight
     THEN /\ gatePending' = Append(gatePending, Live[written'])
          /\ UNCHANGED queue
     ELSE WriteBatch(current, <<Live[written']>>) /\ UNCHANGED gatePending
  /\ UNCHANGED <<history, current, state, initializing, accepted, server,
                 gateActive, flushing, initialFlushDone, path, teardown, early,
                 refreshFailed>>

WriteMessages ==
  /\ written < Len(Live) /\ teardown # "done"
  /\ written' = written + 1
  /\ IF gateActive
     THEN /\ gatePending' = Append(gatePending, Live[written'])
          /\ UNCHANGED queue
     ELSE WriteBatch(current, <<Live[written']>>) /\ UNCHANGED gatePending
  /\ UNCHANGED <<history, current, state, initializing, accepted, server,
                 gateActive, flushing, initialFlushDone, path, teardown, early,
                 refreshFailed>>

\* A mutant of Posts: a batch that failed is sent after those behind it.
PostsOutOfOrder(n) ==
  /\ Open(n) /\ queue[n] # <<>> /\ accepted = n
  /\ server' = Append(server, queue[n][Len(queue[n])])
  /\ queue' = [queue EXCEPT ![n] = SubSeq(@, 1, Len(@) - 1)]
  /\ UNCHANGED <<history, current, state, initializing, accepted,
                 gateActive, gatePending, flushing, initialFlushDone, path, teardown,
                 written, early, refreshFailed>>

\* The server takes events of the latest epoch only.
Posts(n) ==
  /\ Open(n) /\ queue[n] # <<>> /\ accepted = n
  /\ server' = Append(server, Head(queue[n]))
  /\ queue' = [queue EXCEPT ![n] = Tail(@)]
  /\ UNCHANGED <<history, current, state, initializing, accepted,
                 gateActive, gatePending, flushing, initialFlushDone, path, teardown,
                 written, early, refreshFailed>>

-------------------------------------------------------------------------------
(* The callbacks of wireTransportCallbacks *)

\* ccr.initialize(n) succeeds: onConnect, which flushes the history to the
\* transport that is current by then.
OnConnect(n) ==
  /\ n \in initializing
  /\ initializing' = initializing \ {n}
  /\ state' = [state EXCEPT ![n] = IF @ = "connecting" THEN "ready" ELSE @]
  /\ IF ~initialFlushDone /\ history # <<>>
     THEN /\ initialFlushDone' = TRUE
          /\ flushing' = [flushing EXCEPT ![current] = history]
     ELSE UNCHANGED <<initialFlushDone, flushing>>
  /\ UNCHANGED <<history, current, accepted, queue, server, gateActive,
                 gatePending, path, teardown, written, early, refreshFailed>>

\* flushHistory() awaits the write of each event.
FlushWrites(n) ==
  /\ flushing[n] \notin {NoFlush, <<>>}
  /\ WriteBatch(n, <<Head(flushing[n])>>)
  /\ flushing' = [flushing EXCEPT ![n] = Tail(@)]
  /\ UNCHANGED <<history, current, state, initializing, accepted, server,
                 gateActive, gatePending, initialFlushDone, path, teardown, written,
                 early, refreshFailed>>

\* A mutant of FlushEnds: a flush opens the gate although its transport is about
\* to be replaced.
FlushEndsWhileRecovering(n) ==
  /\ flushing[n] = <<>>
  /\ flushing' = [flushing EXCEPT ![n] = NoFlush]
  /\ IF current # n \/ tornDown
     THEN UNCHANGED <<gateActive, gatePending, queue>>
     ELSE DrainFlushGate
  /\ UNCHANGED <<history, current, state, initializing, accepted, server,
                 initialFlushDone, path, teardown, written, early, refreshFailed>>

\* A mutant of FlushEnds: whoever has finished a flush leaves the gate closed
\* when it has been empty until then.
FlushEndsEmpty(n) ==
  /\ flushing[n] = <<>>
  /\ flushing' = [flushing EXCEPT ![n] = NoFlush]
  /\ IF current # n \/ tornDown \/ authRecoveryInFlight \/ gatePending = <<>>
     THEN UNCHANGED <<gateActive, gatePending, queue>>
     ELSE DrainFlushGate
  /\ UNCHANGED <<history, current, state, initializing, accepted, server,
                 initialFlushDone, path, teardown, written, early, refreshFailed>>

\* The .finally of the flush: a transport that has been replaced, or is about to
\* be, leaves the gate to its successor.
FlushEnds(n) ==
  /\ flushing[n] = <<>>
  /\ flushing' = [flushing EXCEPT ![n] = NoFlush]
  /\ IF current # n \/ tornDown \/ authRecoveryInFlight
     THEN UNCHANGED <<gateActive, gatePending, queue>>
     ELSE DrainFlushGate
  /\ UNCHANGED <<history, current, state, initializing, accepted, server,
                 initialFlushDone, path, teardown, written, early, refreshFailed>>

\* onClose(401) of the stream, by which its ccr has been closed.
Close401(n) ==
  /\ Open(n)
  /\ CloseTransport(n)
  /\ path' = IF tornDown \/ authRecoveryInFlight THEN path
             ELSE [path EXCEPT !["auth401"] = "oauth"]
  /\ UNCHANGED <<history, current, initializing, accepted, server,
                 gateActive, gatePending, flushing, initialFlushDone, teardown,
                 written, early, refreshFailed>>

\* 4090 (a newer epoch), 4091 (initialize failed) and 4092 are dead ends.
CloseForGood(n) ==
  /\ Open(n)
  /\ CloseTransport(n)
  /\ UNCHANGED <<history, current, initializing, accepted, server, gateActive,
                 gatePending, flushing, initialFlushDone, path, teardown, written,
                 early, refreshFailed>>

\* ccr.initialize(n) of a transport that was closed meanwhile fails.
InitializeFails(n) ==
  /\ n \in initializing /\ ~Open(n)
  /\ initializing' = initializing \ {n}
  /\ UNCHANGED <<history, current, state, accepted, queue, server,
                 gateActive, gatePending, flushing, initialFlushDone, path, teardown,
                 written, early, refreshFailed>>

-------------------------------------------------------------------------------
(* The proactive refresh and the recovery from a 401 *)

\* A mutant of RefreshFires: the flag is not looked at, and both paths rebuild.
RefreshFiresRegardless ==
  /\ ~tornDown /\ path["refresh"] = "idle" /\ current < MaxTransports
  /\ path' = [path EXCEPT !["refresh"] = "fetch"]
  /\ UNCHANGED <<history, current, state, initializing, accepted, queue,
                 server, gateActive, gatePending, flushing, initialFlushDone,
                 teardown, written, early, refreshFailed>>

\* onRefresh: the timer of the refresh scheduler claims the flag, or gives up.
RefreshFires ==
  /\ ~tornDown /\ ~authRecoveryInFlight /\ current < MaxTransports
  /\ path' = [path EXCEPT !["refresh"] = "fetch"]
  /\ UNCHANGED <<history, current, state, initializing, accepted, queue,
                 server, gateActive, gatePending, flushing, initialFlushDone,
                 teardown, written, early, refreshFailed>>

\* onAuth401 has refreshed the OAuth token.
TokenRefreshed ==
  /\ path["auth401"] = "oauth" /\ ~tornDown
  /\ path' = [path EXCEPT !["auth401"] = "fetch"]
  /\ UNCHANGED <<history, current, state, initializing, accepted, queue,
                 server, gateActive, gatePending, flushing, initialFlushDone,
                 teardown, written, early, refreshFailed>>

\* A mutant of GiveUp: the epoch of a lost answer is kept for the next transport.
GiveUpKeepsEpoch(p) ==
  /\ path[p] \in {"oauth", "fetch"}
  /\ path' = [path EXCEPT ![p] = "idle"]
  /\ accepted' \in {accepted} \cup {n \in {current + 1} : path[p] = "fetch"}
  /\ refreshFailed' = TRUE
  /\ UNCHANGED <<history, current, state, initializing, queue, server, gateActive,
                 gatePending, flushing, initialFlushDone, teardown, written, early>>

\* There is no token or there are no credentials, after all retries; a request
\* whose answer was lost has still bumped the epoch.
GiveUp(p) ==
  /\ path[p] \in {"oauth", "fetch"}
  /\ path' = [path EXCEPT ![p] = "idle"]
  /\ accepted' \in {accepted} \cup {n \in {0} : path[p] = "fetch"}
  /\ refreshFailed' = TRUE
  /\ UNCHANGED <<history, current, state, initializing, queue, server,
                 gateActive, gatePending, flushing, initialFlushDone, teardown,
                 written, early>>

\* The credentials have come: rebuildTransport up to its await.  After a 401 the
\* history is to be flushed again.
StartRebuild(p) ==
  /\ path[p] = "fetch" /\ ~tornDown /\ current < MaxTransports
  /\ path' = [path EXCEPT ![p] = "build"]
  /\ accepted' = current + 1
  /\ initialFlushDone' = (initialFlushDone /\ p # "auth401")
  /\ gateActive' = TRUE
  /\ CloseTransport(current)
  /\ UNCHANGED <<history, current, initializing, server, gatePending,
                 flushing, teardown, written, early, refreshFailed>>

\* A mutant of FinishRebuild: nobody looks whether the bridge is torn down.
FinishRebuildTornDown(p) ==
  /\ path[p] = "build" /\ current < MaxTransports
  /\ path' = [path EXCEPT ![p] = "idle"]
  /\ current' = current + 1
  /\ state' = [state EXCEPT ![current'] = "connecting"]
  /\ initializing' = initializing \cup {current'}
  /\ queue' = [queue EXCEPT ![current'] = gatePending]
  /\ OpensGate
  /\ UNCHANGED <<history, accepted, server, flushing, initialFlushDone, teardown,
                 written, refreshFailed>>

\* A mutant of FinishRebuild: the gate is emptied before it is drained.
FinishRebuildUndrained(p) ==
  /\ path[p] = "build" /\ current < MaxTransports
  /\ path' = [path EXCEPT ![p] = "idle"]
  /\ current' = current + 1
  /\ OpensGate
  /\ state' = [state EXCEPT ![current'] = IF tornDown THEN "closed" ELSE "connecting"]
  /\ initializing' = IF tornDown THEN initializing ELSE initializing \cup {current'}
  /\ UNCHANGED <<history, accepted, queue, server, flushing, initialFlushDone,
                 teardown, written, refreshFailed>>

\* createV2ReplTransport has returned: the new transport takes over and gets
\* what the gate holds, unless the bridge was torn down meanwhile.
FinishRebuild(p) ==
  /\ path[p] = "build" /\ current < MaxTransports
  /\ path' = [path EXCEPT ![p] = "idle"]
  /\ current' = current + 1
  /\ OpensGate
  /\ IF tornDown
     THEN /\ state' = [state EXCEPT ![current'] = "closed"]
          /\ UNCHANGED <<initializing, queue>>
     ELSE /\ state' = [state EXCEPT ![current'] = "connecting"]
          /\ initializing' = initializing \cup {current'}
          /\ queue' = [queue EXCEPT ![current'] = gatePending]
  /\ UNCHANGED <<history, accepted, server, flushing, initialFlushDone, teardown,
                 written, refreshFailed>>

\* createV2ReplTransport throws, and the gate is emptied.
RebuildFails(p) ==
  /\ path[p] = "build"
  /\ path' = [path EXCEPT ![p] = "idle"]
  /\ OpensGate
  /\ refreshFailed' = TRUE
  /\ UNCHANGED <<history, current, state, initializing, accepted, queue,
                 server, flushing, initialFlushDone, teardown, written>>

-------------------------------------------------------------------------------
Teardown ==
  /\ ~tornDown
  /\ teardown' = "archiving"
  /\ OpensGate
  /\ UNCHANGED <<history, current, state, initializing, accepted, queue,
                 server, flushing, initialFlushDone, path, written,
                 refreshFailed>>

\* archiveSession has returned.
TeardownEnds ==
  /\ teardown = "archiving"
  /\ teardown' = "done"
  /\ CloseTransport(current)
  /\ UNCHANGED <<history, current, initializing, accepted, server,
                 gateActive, gatePending, flushing, initialFlushDone, path, written,
                 early, refreshFailed>>

-------------------------------------------------------------------------------
Flush(n) == FlushWrites(n) \/ FlushEnds(n)

Recover(p) == GiveUp(p) \/ StartRebuild(p) \/ FinishRebuild(p) \/ RebuildFails(p)

Next ==
  \/ WriteMessages \/ RefreshFires \/ TokenRefreshed \/ Teardown \/ TeardownEnds
  \/ \E n \in Transports :
       \/ Posts(n) \/ OnConnect(n) \/ Flush(n)
       \/ Close401(n) \/ CloseForGood(n) \/ InitializeFails(n)
  \/ \E p \in Paths : Recover(p)

Spec == Init /\ [][Next]_vars

\* Requests end, and what the code awaits goes on.
FairSpec ==
  /\ Spec /\ WF_vars(TokenRefreshed) /\ WF_vars(TeardownEnds)
  /\ \A n \in Transports : WF_vars(Posts(n)) /\ WF_vars(OnConnect(n)) /\ WF_vars(Flush(n))
  /\ \A p \in Paths : WF_vars(Recover(p))

-------------------------------------------------------------------------------
(* Unless a transport is rebuilt or the bridge torn down before the history  *)
(* was flushed, the server receives the history before any live message.     *)
HistoryFirst ==
  early \/ \A i, j \in DOMAIN server :
             i < j /\ server[j] \in Range(history) => server[i] \in Range(history)

(* Live messages reach the server in the order they were written, each once, *)
(* across the gate, rebuilt transports and interrupted flushes.              *)
LiveInOrder ==
  \A i, j \in DOMAIN server : \A k, l \in DOMAIN Live :
    i < j /\ server[i] = Live[k] /\ server[j] = Live[l] => k < l

(* Only the current transport is ever open, so that no worker of an older    *)
(* epoch goes on posting; and none is open after the bridge was torn down,   *)
(* however the teardown and a rebuild overlap.                               *)
OnlyCurrentOpen ==
  \A n \in Transports : Open(n) => n = current

NothingLeftOpen ==
  teardown = "done" => \A n \in Transports : ~Open(n)

(* While a transport is being rebuilt the gate is closed, even if the flush   *)
(* of the transport it replaces ends meanwhile.                              *)
GatedWhileRebuilt ==
  (\E p \in Paths : path[p] = "build") => gateActive \/ tornDown

(* The gate loses messages only when the bridge is torn down, when no new    *)
(* transport could be built or when the current one is closed.               *)
GateKept ==
  [][\A m \in Range(gatePending) :
       m \in Range(gatePending') \/ m \in Range(queue'[current'])
         \/ tornDown' \/ refreshFailed' \/ ~Open(current)']_vars

(* What waits in the gate does not wait for ever, unless the transport is    *)
(* closed for good or a refresh was given up.                                *)
GateOpens ==
  gatePending # <<>> ~>
    gatePending = <<>> \/ state[current] = "closed" \/ refreshFailed
===============================================================================
