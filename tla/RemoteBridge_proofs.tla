--------------------------- MODULE RemoteBridge_proofs ---------------------------
(***************************************************************************)
(* Proofs about RemoteBridge for any histories, any live messages and any   *)
(* number of transports.                                                   *)
(***************************************************************************)
EXTENDS RemoteBridge, TLAPS

(* What the constants are made of.                                         *)
LEMMA Constants ==
  /\ MaxTransports \in Nat \ {0} /\ 1 \in Transports
  /\ Live \in Seq(Messages) /\ Histories \subseteq Seq(Messages)
  /\ Paths = {"auth401", "refresh"}
  <1>1. /\ MaxTransports \in Nat \ {0} /\ 1 \in Transports
        /\ Paths = {"auth401", "refresh"}
    BY BridgeAssumption DEF Transports, Paths
  <1>2. Live \in Seq(Messages)
    <2>1. Range(Live) \subseteq Messages BY DEF Messages
    <2>2. QED BY <2>1, BridgeAssumption
  <1>3. \A h \in Histories : h \in Seq(Messages)
    <2>1. SUFFICES ASSUME NEW h \in Histories PROVE h \in Seq(Messages)
      OBVIOUS
    <2>2. Range(h) \subseteq Messages BY DEF Messages
    <2>3. h \in Seq(Range(h)) BY <2>1, BridgeAssumption
    <2>4. QED BY <2>2, <2>3
  <1>4. QED BY <1>1, <1>2, <1>3

(* Adding to the queue of a transport.                                     *)
LEMMA WriteTyped ==
  ASSUME TypeOK, NEW n \in Transports, NEW msgs \in Seq(Messages), WriteBatch(n, msgs)
  PROVE  queue' \in [Transports -> Seq(Messages)]
  <1>1. queue[n] \o msgs \in Seq(Messages) BY DEF TypeOK
  <1>2. QED BY <1>1 DEF TypeOK, WriteBatch

LEMMA CloseTyped ==
  ASSUME TypeOK, NEW n \in Transports, CloseTransport(n)
  PROVE  /\ queue' \in [Transports -> Seq(Messages)]
         /\ state' \in [Transports -> {"none", "connecting", "ready", "closed"}]
  BY DEF TypeOK, CloseTransport

LEMMA OpensTyped ==
  ASSUME TypeOK, OpensGate
  PROVE  gateActive' \in BOOLEAN /\ gatePending' \in Seq(Messages) /\ early' \in BOOLEAN
  <1>1. early' \in BOOLEAN BY DEF TypeOK, OpensGate
  <1>2. <<>> \in Seq(Messages) OBVIOUS
  <1>3. QED BY <1>1, <1>2 DEF OpensGate

LEMMA InitTyped == Init => TypeOK
  <1>1. SUFFICES ASSUME Init PROVE TypeOK
    OBVIOUS
  <1>2. Len(Live) \in Nat BY Constants
  <1>3. gateActive \in BOOLEAN BY <1>1 DEF Init
  <1>4. <<>> \in Seq(Messages) OBVIOUS
  <1>5. /\ queue \in [Transports -> Seq(Messages)]
        /\ flushing \in [Transports -> Seq(Messages) \cup {NoFlush}]
        /\ path \in [Paths -> {"idle", "oauth", "fetch", "build"}]
        /\ state \in [Transports -> {"none", "connecting", "ready", "closed"}]
    BY <1>1, <1>4 DEF Init
  <1>6. /\ history \in Histories /\ current = 1 /\ initializing = {1}
        /\ accepted = 1 /\ server = <<>> /\ gatePending = <<>>
        /\ initialFlushDone = FALSE /\ teardown = "no" /\ written = 0
        /\ early = FALSE /\ refreshFailed = FALSE
    BY <1>1 DEF Init
  <1>7. /\ history \in Histories /\ current \in Transports
        /\ initializing \subseteq Transports /\ accepted \in Transports \cup {0}
        /\ teardown \in {"no", "archiving", "done"} /\ initialFlushDone \in BOOLEAN
        /\ early \in BOOLEAN /\ refreshFailed \in BOOLEAN
    BY <1>6, Constants
  <1>8. written \in 0..Len(Live) BY <1>2, <1>6
  <1>9. server \in Seq(Messages) /\ gatePending \in Seq(Messages) BY <1>4, <1>6
  <1>10. QED BY <1>3, <1>5, <1>7, <1>8, <1>9 DEF TypeOK

LEMMA StepTyped == TypeOK /\ [Next]_vars => TypeOK'
  <1>1. SUFFICES ASSUME TypeOK, [Next]_vars PROVE TypeOK'
    OBVIOUS
  <1>2. Len(Live) \in Nat /\ DOMAIN Live = 1..Len(Live) BY Constants
  <1>3. CASE WriteMessages
    <2>1. written' \in 0..Len(Live) /\ written' \in DOMAIN Live
      BY <1>1, <1>2, <1>3 DEF WriteMessages, TypeOK
    <2>2. <<Live[written']>> \in Seq(Messages) /\ Live[written'] \in Messages
      BY <2>1, Constants
    <2>3. CASE gateActive
      <3>1. gatePending' = Append(gatePending, Live[written'])
        BY <1>3, <2>3 DEF WriteMessages
      <3>2. gatePending' \in Seq(Messages)
        BY <1>1, <2>2, <3>1 DEF TypeOK
      <3>3. QED BY <1>1, <1>3, <2>1, <2>3, <3>2 DEF WriteMessages, TypeOK
    <2>4. CASE ~gateActive
      <3>1. queue' \in [Transports -> Seq(Messages)]
        BY <1>1, <1>3, <2>2, <2>4, WriteTyped DEF WriteMessages, TypeOK
      <3>2. QED BY <1>1, <1>3, <2>1, <2>4, <3>1 DEF WriteMessages, TypeOK
    <2>5. QED BY <2>3, <2>4
  <1>4. CASE RefreshFires
    BY <1>1, <1>4, Constants DEF RefreshFires, TypeOK
  <1>5. CASE TokenRefreshed
    BY <1>1, <1>5, Constants DEF TokenRefreshed, TypeOK
  <1>6. CASE Teardown
    BY <1>1, <1>6, OpensTyped DEF Teardown, TypeOK
  <1>7. CASE TeardownEnds
    BY <1>1, <1>7, CloseTyped DEF TeardownEnds, TypeOK
  <1>8. ASSUME NEW n \in Transports, Posts(n) PROVE TypeOK'
    <2>1. /\ queue[n] \in Seq(Messages) /\ queue[n] # <<>>
          /\ server' = Append(server, Head(queue[n]))
          /\ queue' = [queue EXCEPT ![n] = Tail(queue[n])]
      BY <1>1, <1>8 DEF Posts, TypeOK
    <2>2. Head(queue[n]) \in Messages /\ Tail(queue[n]) \in Seq(Messages)
      BY <2>1
    <2>3. QED BY <1>1, <1>8, <2>1, <2>2 DEF Posts, TypeOK
  <1>9. ASSUME NEW n \in Transports, OnConnect(n) PROVE TypeOK'
    <2>1. history \in Seq(Messages) BY <1>1, Constants DEF TypeOK
    <2>2. flushing' \in [Transports -> Seq(Messages) \cup {NoFlush}]
      BY <1>1, <1>9, <2>1 DEF OnConnect, TypeOK
    <2>3. state' \in [Transports -> {"none", "connecting", "ready", "closed"}]
      BY <1>1, <1>9 DEF OnConnect, TypeOK
    <2>4. QED BY <1>1, <1>9, <2>2, <2>3 DEF OnConnect, TypeOK
  <1>10. ASSUME NEW n \in Transports, FlushWrites(n) PROVE TypeOK'
    <2>1. flushing[n] \in Seq(Messages) /\ flushing[n] # <<>>
      BY <1>1, <1>10 DEF FlushWrites, TypeOK
    <2>2. /\ <<Head(flushing[n])>> \in Seq(Messages)
          /\ Tail(flushing[n]) \in Seq(Messages)
      BY <2>1
    <2>3. queue' \in [Transports -> Seq(Messages)]
      BY <1>1, <1>10, <2>2, WriteTyped DEF FlushWrites
    <2>4. flushing' \in [Transports -> Seq(Messages) \cup {NoFlush}]
      BY <1>1, <1>10, <2>2 DEF FlushWrites, TypeOK
    <2>5. QED BY <1>1, <1>10, <2>3, <2>4 DEF FlushWrites, TypeOK
  <1>11. ASSUME NEW n \in Transports, FlushEnds(n) PROVE TypeOK'
    <2>1. flushing' \in [Transports -> Seq(Messages) \cup {NoFlush}]
      BY <1>1, <1>11 DEF FlushEnds, TypeOK
    <2>2. CASE UNCHANGED <<gateActive, gatePending, queue>>
      BY <1>1, <1>11, <2>1, <2>2 DEF FlushEnds, TypeOK
    <2>3. CASE DrainFlushGate
      <3>1. queue' \in [Transports -> Seq(Messages)]
        BY <1>1, <2>3, WriteTyped DEF DrainFlushGate, TypeOK
      <3>2. gateActive' = FALSE /\ gatePending' = <<>>
        BY <2>3 DEF DrainFlushGate
      <3>3. <<>> \in Seq(Messages) OBVIOUS
      <3>4. gateActive' \in BOOLEAN /\ gatePending' \in Seq(Messages)
        BY <3>2, <3>3
      <3>5. QED BY <1>1, <1>11, <2>1, <3>1, <3>4 DEF FlushEnds, TypeOK
    <2>4. QED BY <1>11, <2>2, <2>3 DEF FlushEnds
  <1>12. ASSUME NEW n \in Transports, Close401(n) PROVE TypeOK'
    <2>1. path' \in [Paths -> {"idle", "oauth", "fetch", "build"}]
      BY <1>1, <1>12, Constants DEF Close401, TypeOK
    <2>2. QED BY <1>1, <1>12, <2>1, CloseTyped DEF Close401, TypeOK
  <1>13. ASSUME NEW n \in Transports, CloseForGood(n) PROVE TypeOK'
    BY <1>1, <1>13, CloseTyped DEF CloseForGood, TypeOK
  <1>14. ASSUME NEW n \in Transports, InitializeFails(n) PROVE TypeOK'
    BY <1>1, <1>14 DEF InitializeFails, TypeOK
  <1>15. ASSUME NEW p \in Paths, GiveUp(p) PROVE TypeOK'
    BY <1>1, <1>15 DEF GiveUp, TypeOK
  <1>16. ASSUME NEW p \in Paths, StartRebuild(p) PROVE TypeOK'
    <2>1. current + 1 \in Transports
      BY <1>1, <1>16, Constants DEF StartRebuild, TypeOK, Transports
    <2>2. initialFlushDone' \in BOOLEAN BY <1>1, <1>16 DEF StartRebuild, TypeOK
    <2>3. /\ queue' \in [Transports -> Seq(Messages)]
          /\ state' \in [Transports -> {"none", "connecting", "ready", "closed"}]
      BY <1>1, <1>16, CloseTyped DEF StartRebuild, TypeOK
    <2>4. QED BY <1>1, <1>16, <2>1, <2>2, <2>3 DEF StartRebuild, TypeOK
  <1>17. ASSUME NEW p \in Paths, FinishRebuild(p) PROVE TypeOK'
    <2>1. current' = current + 1 /\ current + 1 \in Transports
      BY <1>1, <1>17, Constants DEF FinishRebuild, TypeOK, Transports
    <2>2. /\ state' \in [Transports -> {"none", "connecting", "ready", "closed"}]
          /\ queue' \in [Transports -> Seq(Messages)]
          /\ initializing' \subseteq Transports
      <3>1. /\ state \in [Transports -> {"none", "connecting", "ready", "closed"}]
            /\ queue \in [Transports -> Seq(Messages)] /\ gatePending \in Seq(Messages)
            /\ initializing \subseteq Transports
        BY <1>1 DEF TypeOK
      <3>2. \/ /\ state' = [state EXCEPT ![current'] = "closed"]
               /\ UNCHANGED <<initializing, queue>>
            \/ /\ state' = [state EXCEPT ![current'] = "connecting"]
               /\ initializing' = initializing \cup {current'}
               /\ queue' = [queue EXCEPT ![current'] = gatePending]
        BY <1>17 DEF FinishRebuild
      <3>3. QED BY <2>1, <3>1, <3>2
    <2>3. OpensGate BY <1>17 DEF FinishRebuild
    <2>4. QED
      BY <1>1, <1>17, <2>1, <2>2, <2>3, OpensTyped DEF FinishRebuild, TypeOK
  <1>18. ASSUME NEW p \in Paths, RebuildFails(p) PROVE TypeOK'
    BY <1>1, <1>18, OpensTyped DEF RebuildFails, TypeOK
  <1>19. CASE UNCHANGED vars
    BY <1>1, <1>19 DEF vars, TypeOK
  <1>20. QED
    BY <1>1, <1>3, <1>4, <1>5, <1>6, <1>7, <1>8, <1>9, <1>10, <1>11, <1>12,
       <1>13, <1>14, <1>15, <1>16, <1>17, <1>18, <1>19
       DEF Next, Flush, Recover

(* Every variable of the bridge keeps its type, however flushes, rebuilds,  *)
(* closures and the teardown of bridge/remoteBridgeCore.ts interleave.      *)
THEOREM TypeCorrect == Spec => []TypeOK
  BY InitTyped, StepTyped, PTL DEF Spec

-------------------------------------------------------------------------------
(* One transport at a time.                                                *)

(* The flag authRecoveryInFlight is claimed by one path at a time.         *)
SingleClaim == path["auth401"] = "idle" \/ path["refresh"] = "idle"

(* While its successor is built the old transport is closed already.       *)
ClosedWhileRebuilt == (\E p \in Paths : path[p] = "build") => ~Open(current)

ClaimInv ==
  /\ SingleClaim /\ ClosedWhileRebuilt
  /\ OnlyCurrentOpen /\ NothingLeftOpen /\ GatedWhileRebuilt

LEMMA InitClaims == Init => ClaimInv
  BY DEF Init, ClaimInv, SingleClaim, ClosedWhileRebuilt, OnlyCurrentOpen,
     NothingLeftOpen, GatedWhileRebuilt, Open, Transports, Paths, tornDown

(* Steps that close transports or none, and leave the rest alone.          *)
LEMMA ClosingKeepsClaims ==
  ASSUME TypeOK, ClaimInv, UNCHANGED <<current, path, teardown, gateActive>>,
         \A n \in Transports : Open(n)' => Open(n)
  PROVE  ClaimInv'
  BY DEF TypeOK, ClaimInv, SingleClaim, ClosedWhileRebuilt, OnlyCurrentOpen,
     NothingLeftOpen, GatedWhileRebuilt, tornDown

LEMMA StepClaims == TypeOK /\ ClaimInv /\ [Next]_vars => ClaimInv'
  <1>1. SUFFICES ASSUME TypeOK, ClaimInv, [Next]_vars PROVE ClaimInv'
    OBVIOUS
  <1> USE <1>1
  <1>2. CASE WriteMessages
    BY <1>2, ClosingKeepsClaims DEF WriteMessages, Open
  <1>3. CASE RefreshFires
    BY <1>3 DEF RefreshFires, ClaimInv, SingleClaim, ClosedWhileRebuilt,
       OnlyCurrentOpen, NothingLeftOpen, GatedWhileRebuilt, Open, tornDown,
       authRecoveryInFlight, TypeOK, Paths
  <1>4. CASE TokenRefreshed
    BY <1>4 DEF TokenRefreshed, ClaimInv, SingleClaim, ClosedWhileRebuilt,
       OnlyCurrentOpen, NothingLeftOpen, GatedWhileRebuilt, Open, tornDown,
       TypeOK, Paths
  <1>5. CASE Teardown
    BY <1>5 DEF Teardown, OpensGate, ClaimInv, SingleClaim, ClosedWhileRebuilt,
       OnlyCurrentOpen, NothingLeftOpen, GatedWhileRebuilt, Open, tornDown
  <1>6. CASE TeardownEnds
    BY <1>6 DEF TeardownEnds, CloseTransport, ClaimInv, SingleClaim,
       ClosedWhileRebuilt, OnlyCurrentOpen, NothingLeftOpen, GatedWhileRebuilt,
       Open, tornDown, TypeOK
  <1>7. ASSUME NEW n \in Transports, Posts(n) PROVE ClaimInv'
    BY <1>7, ClosingKeepsClaims DEF Posts, Open
  <1>8. ASSUME NEW n \in Transports, OnConnect(n) PROVE ClaimInv'
    <2>1. \A m \in Transports : Open(m)' => Open(m)
      BY <1>8 DEF OnConnect, Open, TypeOK
    <2>2. QED BY <1>8, <2>1, ClosingKeepsClaims DEF OnConnect
  <1>9. ASSUME NEW n \in Transports, FlushWrites(n) PROVE ClaimInv'
    BY <1>9, ClosingKeepsClaims DEF FlushWrites, Open
  <1>10. ASSUME NEW n \in Transports, FlushEnds(n) PROVE ClaimInv'
    BY <1>10 DEF FlushEnds, DrainFlushGate, ClaimInv, SingleClaim,
       ClosedWhileRebuilt, OnlyCurrentOpen, NothingLeftOpen, GatedWhileRebuilt,
       Open, tornDown, authRecoveryInFlight
  <1>11. ASSUME NEW n \in Transports, Close401(n) PROVE ClaimInv'
    BY <1>11 DEF Close401, CloseTransport, ClaimInv, SingleClaim,
       ClosedWhileRebuilt, OnlyCurrentOpen, NothingLeftOpen, GatedWhileRebuilt,
       Open, tornDown, authRecoveryInFlight, TypeOK, Paths
  <1>12. ASSUME NEW n \in Transports, CloseForGood(n) PROVE ClaimInv'
    <2>1. \A m \in Transports : Open(m)' => Open(m)
      BY <1>12 DEF CloseForGood, CloseTransport, Open, TypeOK
    <2>2. QED BY <1>12, <2>1, ClosingKeepsClaims DEF CloseForGood
  <1>13. ASSUME NEW n \in Transports, InitializeFails(n) PROVE ClaimInv'
    BY <1>13, ClosingKeepsClaims DEF InitializeFails, Open
  <1>14. ASSUME NEW p \in Paths, GiveUp(p) PROVE ClaimInv'
    BY <1>14 DEF GiveUp, ClaimInv, SingleClaim, ClosedWhileRebuilt,
       OnlyCurrentOpen, NothingLeftOpen, GatedWhileRebuilt, Open, tornDown,
       TypeOK, Paths
  <1>15. ASSUME NEW p \in Paths, StartRebuild(p) PROVE ClaimInv'
    BY <1>15 DEF StartRebuild, CloseTransport, ClaimInv, SingleClaim,
       ClosedWhileRebuilt, OnlyCurrentOpen, NothingLeftOpen, GatedWhileRebuilt,
       Open, tornDown, TypeOK, Paths
  <1>16. ASSUME NEW p \in Paths, FinishRebuild(p) PROVE ClaimInv'
    <2>1. \A n \in Transports : ~Open(n)
      BY <1>16 DEF FinishRebuild, ClaimInv, ClosedWhileRebuilt, OnlyCurrentOpen
    <2>2. /\ current + 1 \in Transports /\ current' = current + 1
          /\ path' = [path EXCEPT ![p] = "idle"] /\ path[p] = "build"
          /\ teardown' = teardown
      BY <1>16, Constants DEF FinishRebuild, TypeOK, Transports
    <2>3. \A q \in Paths : path'[q] = "idle"
      BY <2>2 DEF ClaimInv, SingleClaim, TypeOK, Paths
    <2>4. \A n \in Transports : Open(n)' => n = current' /\ ~tornDown
      BY <1>16, <2>1, <2>2 DEF FinishRebuild, Open, TypeOK
    <2>5. QED
      BY <2>2, <2>3, <2>4 DEF ClaimInv, SingleClaim, ClosedWhileRebuilt,
         OnlyCurrentOpen, NothingLeftOpen, GatedWhileRebuilt, tornDown, Paths
  <1>17. ASSUME NEW p \in Paths, RebuildFails(p) PROVE ClaimInv'
    <2>1. \A q \in Paths : path'[q] = "idle"
      BY <1>17 DEF RebuildFails, ClaimInv, SingleClaim, TypeOK, Paths
    <2>2. QED
      BY <1>17, <2>1 DEF RebuildFails, ClaimInv, SingleClaim, ClosedWhileRebuilt,
         OnlyCurrentOpen, NothingLeftOpen, GatedWhileRebuilt, Open, Paths
  <1>18. CASE UNCHANGED vars
    BY <1>18, ClosingKeepsClaims DEF vars, Open
  <1>19. QED
    BY <1>2, <1>3, <1>4, <1>5, <1>6, <1>7, <1>8, <1>9, <1>10, <1>11, <1>12,
       <1>13, <1>14, <1>15, <1>16, <1>17, <1>18 DEF Next, Flush, Recover

LEMMA ClaimsHold == Spec => [](TypeOK /\ ClaimInv)
  <1>1. Init => TypeOK /\ ClaimInv BY InitTyped, InitClaims
  <1>2. TypeOK /\ ClaimInv /\ [Next]_vars => (TypeOK /\ ClaimInv)'
    BY StepTyped, StepClaims
  <1>3. QED BY <1>1, <1>2, PTL DEF Spec

(* Only the current transport is ever open: authRecoveryInFlight lets one   *)
(* path rebuild at a time, which closes the old transport first.           *)
THEOREM OneTransportOpen == Spec => []OnlyCurrentOpen
  <1>1. TypeOK /\ ClaimInv => OnlyCurrentOpen BY DEF ClaimInv
  <1>2. QED BY <1>1, ClaimsHold, PTL

(* After the teardown no transport is open, also if one was being built.   *)
THEOREM TeardownClosesAll == Spec => []NothingLeftOpen
  <1>1. TypeOK /\ ClaimInv => NothingLeftOpen BY DEF ClaimInv
  <1>2. QED BY <1>1, ClaimsHold, PTL

(* No flush opens the gate while rebuildTransport is under way.            *)
THEOREM RebuildKeepsGate == Spec => []GatedWhileRebuilt
  <1>1. TypeOK /\ ClaimInv => GatedWhileRebuilt BY DEF ClaimInv
  <1>2. QED BY <1>1, ClaimsHold, PTL

-------------------------------------------------------------------------------
(* The order of live messages.                                             *)

(* Every live message of a was written before every live message of b.     *)
Precede(a, b) ==
  \A i \in DOMAIN a, j \in DOMAIN b : \A k, l \in DOMAIN Live :
    a[i] = Live[k] /\ b[j] = Live[l] => k < l

Sorted(a) ==
  \A i, j \in DOMAIN a : \A k, l \in DOMAIN Live :
    i < j /\ a[i] = Live[k] /\ a[j] = Live[l] => k < l

(* a holds none of the live messages after the first n.                    *)
UpTo(a, n) == \A i \in DOMAIN a : \A k \in DOMAIN Live : a[i] = Live[k] => k <= n

NoLive(a) == \A i \in DOMAIN a : \A k \in DOMAIN Live : a[i] # Live[k]

(* What is on its way is older than what waits in the gate and younger      *)
(* than what the server has.                                               *)
OrderInv ==
  /\ Sorted(server) /\ UpTo(server, written)
  /\ Sorted(gatePending) /\ UpTo(gatePending, written)
  /\ Precede(server, gatePending)
  /\ \A n \in Transports :
       /\ Sorted(queue[n]) /\ UpTo(queue[n], written)
       /\ Precede(server, queue[n]) /\ Precede(queue[n], gatePending)
       /\ ~Open(n) => queue[n] = <<>>
       /\ flushing[n] # NoFlush => NoLive(flushing[n])
  /\ ~gateActive => gatePending = <<>>

LEMMA EmptyInOrder ==
  ASSUME NEW n, NEW a
  PROVE  /\ Sorted(<<>>) /\ UpTo(<<>>, n) /\ NoLive(<<>>)
         /\ Precede(a, <<>>) /\ Precede(<<>>, a)
  BY DEF Sorted, UpTo, Precede, NoLive

LEMMA NoLiveInOrder ==
  ASSUME NEW a, NEW b, NEW n, NoLive(b)
  PROVE  Sorted(b) /\ UpTo(b, n) /\ Precede(a, b) /\ Precede(b, a)
  BY DEF Sorted, UpTo, Precede, NoLive

(* The n-th live message comes after all that came before.                 *)
LEMMA NewestInOrder ==
  ASSUME NEW a, NEW n \in Nat, n + 1 \in DOMAIN Live, UpTo(a, n)
  PROVE  /\ Precede(a, <<Live[n + 1]>>) /\ Sorted(<<Live[n + 1]>>)
         /\ UpTo(<<Live[n + 1]>>, n + 1) /\ UpTo(a, n + 1)
  <1>1. DOMAIN Live = 1..Len(Live) /\ Len(Live) \in Nat BY Constants
  <1>2. \A k \in DOMAIN Live : Live[k] = Live[n + 1] => k = n + 1
    BY BridgeAssumption
  <1>3. DOMAIN <<Live[n + 1]>> = {1} /\ <<Live[n + 1]>>[1] = Live[n + 1]
    OBVIOUS
  <1>4. Precede(a, <<Live[n + 1]>>)
    BY <1>1, <1>2, <1>3 DEF Precede, UpTo
  <1>5. Sorted(<<Live[n + 1]>>) BY <1>3 DEF Sorted
  <1>6. UpTo(<<Live[n + 1]>>, n + 1) BY <1>1, <1>2, <1>3 DEF UpTo
  <1>7. UpTo(a, n + 1) BY <1>1 DEF UpTo
  <1>8. QED BY <1>4, <1>5, <1>6, <1>7

LEMMA JoinInOrder ==
  ASSUME NEW a \in Seq(Messages), NEW b \in Seq(Messages), NEW c, NEW n,
         Sorted(a), Sorted(b), Precede(a, b), UpTo(a, n), UpTo(b, n)
  PROVE  /\ Sorted(a \o b) /\ UpTo(a \o b, n)
         /\ Precede(c, a) /\ Precede(c, b) => Precede(c, a \o b)
         /\ Precede(a, c) /\ Precede(b, c) => Precede(a \o b, c)
  <1> DEFINE both == a \o b
  <1>1. /\ Len(a) \in Nat /\ Len(b) \in Nat
        /\ DOMAIN a = 1..Len(a) /\ DOMAIN b = 1..Len(b)
        /\ DOMAIN both = 1..(Len(a) + Len(b))
    OBVIOUS
  <1>2. \A i \in DOMAIN both :
          \/ i \in DOMAIN a /\ both[i] = a[i]
          \/ i \notin DOMAIN a /\ i - Len(a) \in DOMAIN b /\ both[i] = b[i - Len(a)]
    BY <1>1
  <1> HIDE DEF both
  <1>3. Sorted(both)
    <2>1. SUFFICES ASSUME NEW i \in DOMAIN both, NEW j \in DOMAIN both,
                          NEW k \in DOMAIN Live, NEW l \in DOMAIN Live,
                          i < j, both[i] = Live[k], both[j] = Live[l]
                   PROVE  k < l
      BY DEF Sorted
    <2>2. CASE j \in DOMAIN a
      <3>1. i \in DOMAIN a BY <1>1, <2>1, <2>2
      <3>2. QED BY <1>2, <2>1, <2>2, <3>1 DEF Sorted
    <2>3. CASE j \notin DOMAIN a /\ i \in DOMAIN a
      BY <1>2, <2>1, <2>3 DEF Precede
    <2>4. CASE j \notin DOMAIN a /\ i \notin DOMAIN a
      <3>1. /\ i - Len(a) \in DOMAIN b /\ both[i] = b[i - Len(a)]
            /\ j - Len(a) \in DOMAIN b /\ both[j] = b[j - Len(a)]
        BY <1>2, <2>4
      <3>2. i - Len(a) < j - Len(a) BY <1>1, <2>1
      <3>3. QED BY <2>1, <3>1, <3>2 DEF Sorted
    <2>5. QED BY <2>2, <2>3, <2>4
  <1>4. UpTo(both, n) BY <1>2 DEF UpTo
  <1>5. Precede(c, a) /\ Precede(c, b) => Precede(c, both) BY <1>2 DEF Precede
  <1>6. Precede(a, c) /\ Precede(b, c) => Precede(both, c) BY <1>2 DEF Precede
  <1>7. QED BY <1>3, <1>4, <1>5, <1>6 DEF both

LEMMA HeadInOrder ==
  ASSUME NEW a \in Seq(Messages), a # <<>>, NEW c, NEW n, Sorted(a), UpTo(a, n)
  PROVE  /\ Sorted(Tail(a)) /\ UpTo(Tail(a), n) /\ Sorted(<<Head(a)>>)
         /\ UpTo(<<Head(a)>>, n) /\ Precede(<<Head(a)>>, Tail(a))
         /\ Precede(c, a) => Precede(c, Tail(a)) /\ Precede(c, <<Head(a)>>)
         /\ Precede(a, c) => Precede(Tail(a), c) /\ Precede(<<Head(a)>>, c)
  <1>1. /\ Len(a) \in Nat \ {0} /\ DOMAIN a = 1..Len(a)
        /\ DOMAIN Tail(a) = 1..(Len(a) - 1)
        /\ \A i \in DOMAIN Tail(a) : Tail(a)[i] = a[i + 1] /\ i + 1 \in DOMAIN a
        /\ Head(a) = a[1] /\ 1 \in DOMAIN a
    OBVIOUS
  <1>2. DOMAIN <<Head(a)>> = {1} /\ <<Head(a)>>[1] = a[1] BY <1>1
  <1>3. Sorted(Tail(a))
    <2>1. SUFFICES ASSUME NEW i \in DOMAIN Tail(a), NEW j \in DOMAIN Tail(a),
                          NEW k \in DOMAIN Live, NEW l \in DOMAIN Live,
                          i < j, Tail(a)[i] = Live[k], Tail(a)[j] = Live[l]
                   PROVE  k < l
      BY DEF Sorted
    <2>2. i + 1 < j + 1 BY <1>1, <2>1
    <2>3. QED BY <1>1, <2>1, <2>2 DEF Sorted
  <1>4. UpTo(Tail(a), n) BY <1>1 DEF UpTo
  <1>5. Sorted(<<Head(a)>>) BY <1>2 DEF Sorted
  <1>6. UpTo(<<Head(a)>>, n) BY <1>1, <1>2 DEF UpTo
  <1>7. Precede(<<Head(a)>>, Tail(a))
    <2>1. SUFFICES ASSUME NEW j \in DOMAIN Tail(a),
                          NEW k \in DOMAIN Live, NEW l \in DOMAIN Live,
                          a[1] = Live[k], Tail(a)[j] = Live[l]
                   PROVE  k < l
      BY <1>2 DEF Precede
    <2>2. 1 < j + 1 BY <1>1, <2>1
    <2>3. QED BY <1>1, <2>1, <2>2 DEF Sorted
  <1>8. Precede(c, a) => Precede(c, Tail(a)) /\ Precede(c, <<Head(a)>>)
    BY <1>1, <1>2 DEF Precede
  <1>9. Precede(a, c) => Precede(Tail(a), c) /\ Precede(<<Head(a)>>, c)
    BY <1>1, <1>2 DEF Precede
  <1>10. QED BY <1>3, <1>4, <1>5, <1>6, <1>7, <1>8, <1>9

LEMMA InitOrder == Init => OrderInv
  BY EmptyInOrder DEF Init, OrderInv, Open

(* Steps that leave messages where they are and may forget what closed      *)
(* transports held.                                                        *)
LEMMA ForgettingKeepsOrder ==
  ASSUME TypeOK, OrderInv, UNCHANGED <<server, gatePending, written>>,
         gateActive' = gateActive \/ gateActive' = TRUE,
         \A n \in Transports :
           /\ \/ queue'[n] = queue[n] /\ (Open(n)' <=> Open(n))
              \/ queue'[n] = <<>>
           /\ flushing'[n] \in {NoFlush, flushing[n]} \/ NoLive(flushing'[n])
  PROVE  OrderInv'
  <1>1. \A n \in Transports :
          /\ Sorted(queue'[n]) /\ UpTo(queue'[n], written)
          /\ Precede(server, queue'[n]) /\ Precede(queue'[n], gatePending)
          /\ ~Open(n)' => queue'[n] = <<>>
          /\ flushing'[n] # NoFlush => NoLive(flushing'[n])
    BY EmptyInOrder DEF OrderInv
  <1>2. QED BY <1>1 DEF OrderInv

(* The gate gives what it holds to the current transport, or drops it.      *)
LEMMA GateGoneKeepsOrder ==
  ASSUME TypeOK, OrderInv, UNCHANGED <<server, written, flushing, queue, state>>,
         gatePending' = <<>>
  PROVE  OrderInv'
  <1>1. \A n \in Transports : Precede(queue[n], <<>>) BY EmptyInOrder
  <1>2. Sorted(<<>>) /\ UpTo(<<>>, written) /\ Precede(server, <<>>) BY EmptyInOrder
  <1>3. QED BY <1>1, <1>2 DEF OrderInv, Open

LEMMA WriteBatchAppends ==
  ASSUME TypeOK, NEW n \in Transports, NEW msgs, WriteBatch(n, msgs)
  PROVE  \A m \in Transports :
           queue'[m] = queue[m] \/ (Open(m) /\ queue'[m] = queue[m] \o msgs)
  <1> DEFINE joined == queue[n] \o msgs
  <1>1. DOMAIN queue = Transports BY DEF TypeOK
  <1>2. queue' = queue \/ (Open(n) /\ queue' = [queue EXCEPT ![n] = joined])
    BY DEF WriteBatch
  <1> HIDE DEF joined
  <1>3. ASSUME NEW m \in Transports
        PROVE  queue'[m] = queue[m] \/ (m = n /\ Open(n) /\ queue'[m] = joined)
    BY <1>1, <1>2
  <1>4. QED BY <1>3 DEF joined

LEMMA DrainKeepsOrder ==
  ASSUME TypeOK, OrderInv, DrainFlushGate, UNCHANGED <<server, written, state>>,
         \A n \in Transports : flushing'[n] \in {NoFlush, flushing[n]}
  PROVE  OrderInv'
  <1>1. gatePending' = <<>> BY DEF DrainFlushGate
  <1>2. \A n \in Transports : Open(n)' <=> Open(n) BY DEF Open
  <1>3. \A n \in Transports :
          \/ queue'[n] = queue[n]
          \/ Open(n) /\ queue'[n] = queue[n] \o gatePending
    BY DEF DrainFlushGate, WriteBatch, TypeOK
  <1>4. ASSUME NEW n \in Transports
        PROVE  /\ Sorted(queue'[n]) /\ UpTo(queue'[n], written)
               /\ Precede(server, queue'[n]) /\ Precede(queue'[n], <<>>)
               /\ ~Open(n)' => queue'[n] = <<>>
               /\ flushing'[n] # NoFlush => NoLive(flushing'[n])
    <2>1. queue[n] \in Seq(Messages) /\ gatePending \in Seq(Messages)
      BY DEF TypeOK
    <2>2. /\ Sorted(queue[n] \o gatePending) /\ UpTo(queue[n] \o gatePending, written)
          /\ Precede(server, queue[n] \o gatePending)
      BY <2>1, JoinInOrder DEF OrderInv
    <2>3. QED BY <1>2, <1>3, <2>2, EmptyInOrder DEF OrderInv
  <1>5. Sorted(<<>>) /\ UpTo(<<>>, written) /\ Precede(server, <<>>) BY EmptyInOrder
  <1>6. QED BY <1>1, <1>4, <1>5 DEF OrderInv

LEMMA WritesInOrder == TypeOK /\ OrderInv /\ WriteMessages => OrderInv'
  <1>1. SUFFICES ASSUME TypeOK, OrderInv, WriteMessages PROVE OrderInv'
    OBVIOUS
  <1> USE <1>1
  <1>2. /\ written \in Nat /\ written' = written + 1 /\ written + 1 \in DOMAIN Live
        /\ Live[written + 1] \in Messages
        /\ UNCHANGED <<state, server, gateActive, flushing>>
    <2>1. DOMAIN Live = 1..Len(Live) /\ Len(Live) \in Nat BY Constants
    <2>2. written \in Nat /\ written + 1 \in DOMAIN Live
      BY <2>1 DEF WriteMessages, TypeOK
    <2>3. QED BY <2>2, Constants DEF WriteMessages
  <1> DEFINE newest == <<Live[written + 1]>>
  <1>3. newest \in Seq(Messages) BY <1>2
  <1>4. \A a : UpTo(a, written) =>
          /\ Precede(a, newest) /\ Sorted(newest) /\ UpTo(newest, written')
          /\ UpTo(a, written')
    BY <1>2, NewestInOrder
  <1>5. \A n \in Transports : Open(n)' <=> Open(n) BY <1>2 DEF Open
  <1> HIDE DEF newest
  <1>6. CASE gateActive
    <2>1. gatePending' = gatePending \o newest /\ queue' = queue
      <3>1. gatePending' = Append(gatePending, Live[written + 1]) /\ queue' = queue
        BY <1>2, <1>6 DEF WriteMessages
      <3>2. QED BY <1>2, <3>1 DEF newest, TypeOK
    <2>2. gatePending \in Seq(Messages) BY DEF TypeOK
    <2>3. UpTo(gatePending, written) /\ Sorted(gatePending) BY DEF OrderInv
    <2>4. /\ Sorted(gatePending \o newest) /\ UpTo(gatePending \o newest, written')
          /\ \A c : Precede(c, gatePending) /\ Precede(c, newest)
                      => Precede(c, gatePending \o newest)
      BY <1>3, <1>4, <2>2, <2>3, JoinInOrder
    <2>5. /\ Precede(server, gatePending \o newest)
          /\ \A n \in Transports : Precede(queue[n], gatePending \o newest)
      BY <1>4, <2>4 DEF OrderInv
    <2>6. /\ UpTo(server, written')
          /\ \A n \in Transports : UpTo(queue[n], written')
      BY <1>4 DEF OrderInv
    <2>7. QED BY <1>2, <1>5, <1>6, <2>1, <2>4, <2>5, <2>6 DEF OrderInv
  <1>7. CASE ~gateActive
    <2>1. gatePending = <<>> /\ gatePending' = <<>>
      BY <1>7 DEF WriteMessages, OrderInv
    <2>2. \A n \in Transports :
            queue'[n] = queue[n] \/ (Open(n) /\ queue'[n] = queue[n] \o newest)
      <3>1. WriteBatch(current, newest)
        BY <1>2, <1>7 DEF WriteMessages, newest
      <3>2. current \in Transports BY DEF TypeOK
      <3>3. QED BY <3>1, <3>2, WriteBatchAppends
    <2>3. ASSUME NEW n \in Transports
          PROVE  /\ Sorted(queue'[n]) /\ UpTo(queue'[n], written')
                 /\ Precede(server, queue'[n]) /\ Precede(queue'[n], <<>>)
                 /\ ~Open(n) => queue'[n] = <<>>
      <3>1. /\ queue[n] \in Seq(Messages) /\ Sorted(queue[n])
            /\ UpTo(queue[n], written) /\ Precede(server, queue[n])
            /\ UpTo(server, written) /\ (~Open(n) => queue[n] = <<>>)
        BY DEF TypeOK, OrderInv
      <3>2. Precede(server, newest) /\ UpTo(queue[n], written') BY <1>4, <3>1
      <3>3. /\ Sorted(queue[n] \o newest) /\ UpTo(queue[n] \o newest, written')
            /\ Precede(server, queue[n] \o newest)
        BY <1>3, <1>4, <3>1, <3>2, JoinInOrder
      <3>4. QED BY <2>2, <3>1, <3>2, <3>3, EmptyInOrder
    <2>4. /\ Sorted(<<>>) /\ UpTo(<<>>, written') /\ Precede(server, <<>>)
          /\ UpTo(server, written') /\ Sorted(server)
      BY <1>4, EmptyInOrder DEF OrderInv
    <2>5. QED BY <1>2, <1>5, <2>1, <2>3, <2>4 DEF OrderInv
  <1>8. QED BY <1>6, <1>7

LEMMA PostsInOrder ==
  ASSUME TypeOK, OnlyCurrentOpen, OrderInv, NEW n \in Transports, Posts(n)
  PROVE  OrderInv'
  <1> DEFINE head == <<Head(queue[n])>>
  <1>1. /\ queue[n] \in Seq(Messages) /\ queue[n] # <<>> /\ Open(n)
        /\ server \in Seq(Messages) /\ gatePending \in Seq(Messages)
        /\ UNCHANGED <<state, gateActive, gatePending, flushing, written>>
    BY DEF Posts, TypeOK
  <1>2. head \in Seq(Messages) /\ Tail(queue[n]) \in Seq(Messages) BY <1>1
  <1>3. server' = server \o head
    BY <1>1, <1>2 DEF Posts
  <1>4. /\ queue'[n] = Tail(queue[n])
        /\ \A m \in Transports \ {n} : queue'[m] = queue[m] /\ queue[m] = <<>>
    BY DEF Posts, OnlyCurrentOpen, OrderInv, TypeOK
  <1>5. \A m \in Transports : Open(m)' <=> Open(m) BY <1>1 DEF Open
  <1>6. /\ Sorted(queue[n]) /\ UpTo(queue[n], written) /\ Precede(server, queue[n])
        /\ Precede(queue[n], gatePending) /\ Sorted(server) /\ UpTo(server, written)
        /\ Precede(server, gatePending)
    BY DEF OrderInv
  <1> HIDE DEF head
  <1>7. /\ Sorted(Tail(queue[n])) /\ UpTo(Tail(queue[n]), written) /\ Sorted(head)
        /\ UpTo(head, written) /\ Precede(head, Tail(queue[n]))
        /\ Precede(server, Tail(queue[n])) /\ Precede(server, head)
        /\ Precede(Tail(queue[n]), gatePending) /\ Precede(head, gatePending)
    BY <1>1, <1>6, HeadInOrder DEF head
  <1>8. /\ Sorted(server \o head) /\ UpTo(server \o head, written)
        /\ \A c : Precede(server, c) /\ Precede(head, c) => Precede(server \o head, c)
    BY <1>1, <1>2, <1>6, <1>7, JoinInOrder
  <1>9. /\ Precede(server \o head, Tail(queue[n]))
        /\ Precede(server \o head, gatePending)
        /\ Precede(server \o head, <<>>)
    BY <1>6, <1>7, <1>8, EmptyInOrder
  <1>10. ASSUME NEW m \in Transports
         PROVE  /\ Sorted(queue'[m]) /\ UpTo(queue'[m], written)
                /\ Precede(server', queue'[m]) /\ Precede(queue'[m], gatePending)
                /\ ~Open(m)' => queue'[m] = <<>>
                /\ flushing'[m] # NoFlush => NoLive(flushing'[m])
    <2>1. CASE m = n
      BY <1>1, <1>3, <1>4, <1>5, <1>7, <1>9, <2>1 DEF OrderInv
    <2>2. CASE m # n
      BY <1>1, <1>3, <1>4, <1>5, <1>9, <2>2, EmptyInOrder DEF OrderInv
    <2>3. QED BY <2>1, <2>2
  <1>11. QED BY <1>1, <1>3, <1>8, <1>9, <1>10 DEF OrderInv

LEMMA FlushInOrder ==
  ASSUME TypeOK, OrderInv, NEW n \in Transports, FlushWrites(n)
  PROVE  OrderInv'
  <1> DEFINE head == <<Head(flushing[n])>>
  <1>1. /\ flushing[n] \in Seq(Messages) /\ flushing[n] # <<>> /\ NoLive(flushing[n])
        /\ flushing[n] # NoFlush
        /\ UNCHANGED <<state, server, gateActive, gatePending, written>>
    BY DEF FlushWrites, TypeOK, OrderInv
  <1>2. head \in Seq(Messages) /\ NoLive(head) /\ NoLive(Tail(flushing[n]))
    <2>1. /\ Len(flushing[n]) \in Nat \ {0} /\ DOMAIN flushing[n] = 1..Len(flushing[n])
          /\ DOMAIN Tail(flushing[n]) = 1..(Len(flushing[n]) - 1)
          /\ \A i \in DOMAIN Tail(flushing[n]) :
               Tail(flushing[n])[i] = flushing[n][i + 1] /\ i + 1 \in DOMAIN flushing[n]
          /\ Head(flushing[n]) = flushing[n][1] /\ 1 \in DOMAIN flushing[n]
      BY <1>1
    <2>2. head \in Seq(Messages) BY <1>1
    <2>3. DOMAIN head = {1} /\ head[1] = flushing[n][1] BY <2>1
    <2>4. QED BY <1>1, <2>1, <2>2, <2>3 DEF NoLive
  <1>3. \A m \in Transports :
          queue'[m] = queue[m] \/ (Open(m) /\ queue'[m] = queue[m] \o head)
    <2>1. WriteBatch(n, head) BY DEF FlushWrites
    <2> HIDE DEF head
    <2>2. QED BY <2>1, WriteBatchAppends
  <1>4. \A m \in Transports : flushing'[m] = IF m = n THEN Tail(flushing[n]) ELSE flushing[m]
    BY DEF FlushWrites, TypeOK
  <1>5. \A m \in Transports : Open(m)' <=> Open(m) BY <1>1 DEF Open
  <1> HIDE DEF head
  <1>6. ASSUME NEW m \in Transports
        PROVE  /\ Sorted(queue'[m]) /\ UpTo(queue'[m], written)
               /\ Precede(server, queue'[m]) /\ Precede(queue'[m], gatePending)
               /\ ~Open(m)' => queue'[m] = <<>>
               /\ flushing'[m] # NoFlush => NoLive(flushing'[m])
    <2>1. /\ queue[m] \in Seq(Messages) /\ Sorted(queue[m])
          /\ UpTo(queue[m], written) /\ Precede(server, queue[m])
          /\ Precede(queue[m], gatePending) /\ (~Open(m) => queue[m] = <<>>)
      BY DEF TypeOK, OrderInv
    <2>2. /\ Sorted(head) /\ UpTo(head, written) /\ Precede(queue[m], head)
          /\ Precede(server, head) /\ Precede(head, gatePending)
      BY <1>2, NoLiveInOrder
    <2>3. /\ Sorted(queue[m] \o head) /\ UpTo(queue[m] \o head, written)
          /\ Precede(server, queue[m] \o head)
          /\ Precede(queue[m] \o head, gatePending)
      BY <1>2, <2>1, <2>2, JoinInOrder
    <2>4. flushing'[m] # NoFlush => NoLive(flushing'[m])
      BY <1>2, <1>4 DEF OrderInv
    <2>5. QED BY <1>3, <1>5, <2>1, <2>3, <2>4
  <1>7. QED BY <1>1, <1>6 DEF OrderInv

(* A finished rebuild hands the gate to a transport that is new and empty.  *)
LEMMA RebuildInOrder ==
  ASSUME TypeOK, ClaimInv, OrderInv, NEW p \in Paths, FinishRebuild(p)
  PROVE  OrderInv'
  <1>1. /\ current' = current + 1 /\ current + 1 \in Transports
        /\ gatePending' = <<>> /\ UNCHANGED <<server, written, flushing>>
    BY Constants DEF FinishRebuild, OpensGate, TypeOK, Transports
  <1>2. \A n \in Transports : ~Open(n) /\ queue[n] = <<>>
    BY DEF FinishRebuild, ClaimInv, ClosedWhileRebuilt, OnlyCurrentOpen, OrderInv
  <1>3. \A n \in Transports :
          \/ queue'[n] = <<>>
          \/ queue'[n] = gatePending /\ Open(n)'
    BY <1>1, <1>2 DEF FinishRebuild, Open, TypeOK
  <1>4. \A n \in Transports :
          /\ Sorted(queue'[n]) /\ UpTo(queue'[n], written)
          /\ Precede(server, queue'[n]) /\ Precede(queue'[n], <<>>)
          /\ ~Open(n)' => queue'[n] = <<>>
          /\ flushing'[n] # NoFlush => NoLive(flushing'[n])
    BY <1>1, <1>3, EmptyInOrder DEF OrderInv
  <1>5. Sorted(<<>>) /\ UpTo(<<>>, written) /\ Precede(server, <<>>) BY EmptyInOrder
  <1>6. QED BY <1>1, <1>4, <1>5 DEF OrderInv

LEMMA StepOrder == TypeOK /\ ClaimInv /\ OrderInv /\ [Next]_vars => OrderInv'
  <1>1. SUFFICES ASSUME TypeOK, ClaimInv, OrderInv, [Next]_vars PROVE OrderInv'
    OBVIOUS
  <1> USE <1>1
  <1>2. CASE WriteMessages BY <1>2, WritesInOrder
  <1>3. CASE RefreshFires \/ TokenRefreshed
    BY <1>3, ForgettingKeepsOrder DEF RefreshFires, TokenRefreshed, Open
  <1>4. CASE Teardown
    BY <1>4, GateGoneKeepsOrder DEF Teardown, OpensGate
  <1>5. CASE TeardownEnds
    BY <1>5, ForgettingKeepsOrder DEF TeardownEnds, CloseTransport, Open, TypeOK
  <1>6. ASSUME NEW n \in Transports, Posts(n) PROVE OrderInv'
    BY <1>6, PostsInOrder DEF ClaimInv
  <1>7. ASSUME NEW n \in Transports, OnConnect(n) PROVE OrderInv'
    <2>1. NoLive(history)
      <3>1. history \in Histories BY DEF TypeOK
      <3>2. Range(history) \cap Range(Live) = {} BY <3>1, BridgeAssumption
      <3>3. QED BY <3>2 DEF NoLive, Range
    <2>2. \A m \in Transports : flushing'[m] = flushing[m] \/ flushing'[m] = history
      BY <1>7 DEF OnConnect, TypeOK
    <2>3. \A m \in Transports : Open(m)' <=> Open(m)
      BY <1>7 DEF OnConnect, Open, TypeOK
    <2>4. QED BY <1>7, <2>1, <2>2, <2>3, ForgettingKeepsOrder DEF OnConnect
  <1>8. ASSUME NEW n \in Transports, FlushWrites(n) PROVE OrderInv'
    BY <1>8, FlushInOrder
  <1>9. ASSUME NEW n \in Transports, FlushEnds(n) PROVE OrderInv'
    <2>1. /\ \A m \in Transports : flushing'[m] \in {NoFlush, flushing[m]}
          /\ UNCHANGED <<server, written, state>>
      BY <1>9 DEF FlushEnds, TypeOK
    <2>2. CASE DrainFlushGate BY <2>1, <2>2, DrainKeepsOrder
    <2>3. CASE UNCHANGED <<gateActive, gatePending, queue>>
      BY <2>1, <2>3, ForgettingKeepsOrder DEF Open
    <2>4. QED BY <1>9, <2>2, <2>3 DEF FlushEnds
  <1>10. ASSUME NEW n \in Transports, Close401(n) \/ CloseForGood(n) PROVE OrderInv'
    BY <1>10, ForgettingKeepsOrder
       DEF Close401, CloseForGood, CloseTransport, Open, TypeOK
  <1>11. ASSUME NEW n \in Transports, InitializeFails(n) PROVE OrderInv'
    BY <1>11, ForgettingKeepsOrder DEF InitializeFails, Open
  <1>12. ASSUME NEW p \in Paths, GiveUp(p) PROVE OrderInv'
    BY <1>12, ForgettingKeepsOrder DEF GiveUp, Open
  <1>13. ASSUME NEW p \in Paths, StartRebuild(p) PROVE OrderInv'
    BY <1>13, ForgettingKeepsOrder DEF StartRebuild, CloseTransport, Open, TypeOK
  <1>14. ASSUME NEW p \in Paths, FinishRebuild(p) PROVE OrderInv'
    BY <1>14, RebuildInOrder
  <1>15. ASSUME NEW p \in Paths, RebuildFails(p) PROVE OrderInv'
    BY <1>15, GateGoneKeepsOrder DEF RebuildFails, OpensGate
  <1>16. CASE UNCHANGED vars
    BY <1>16, ForgettingKeepsOrder DEF vars, Open
  <1>17. QED
    BY <1>2, <1>3, <1>4, <1>5, <1>6, <1>7, <1>8, <1>9, <1>10, <1>11, <1>12,
       <1>13, <1>14, <1>15, <1>16 DEF Next, Flush, Recover

LEMMA OrderHolds == Spec => [](TypeOK /\ ClaimInv /\ OrderInv)
  <1>1. Init => TypeOK /\ ClaimInv /\ OrderInv BY InitTyped, InitClaims, InitOrder
  <1>2. TypeOK /\ ClaimInv /\ OrderInv /\ [Next]_vars => (TypeOK /\ ClaimInv /\ OrderInv)'
    BY StepTyped, StepClaims, StepOrder
  <1>3. QED BY <1>1, <1>2, PTL DEF Spec

(* Live messages reach the server in the order in which writeMessages got   *)
(* them and at most once, through the gate and rebuilt transports.         *)
THEOREM LiveMessagesInOrder == Spec => []LiveInOrder
  <1>1. OrderInv => LiveInOrder BY DEF OrderInv, LiveInOrder, Sorted
  <1>2. QED BY <1>1, OrderHolds, PTL

(* What waits in the gate goes to the current transport, or is given up     *)
(* where GateKept allows it.                                               *)
LEMMA DrainedIsQueued ==
  ASSUME TypeOK, DrainFlushGate, Open(current), UNCHANGED current,
         NEW m \in Range(gatePending)
  PROVE  m \in Range(queue'[current'])
  <1> DEFINE held == queue[current]
  <1>1. held \in Seq(Messages) /\ gatePending \in Seq(Messages) /\ current \in Transports
    BY DEF TypeOK
  <1>2. queue'[current'] = held \o gatePending
    BY <1>1 DEF DrainFlushGate, WriteBatch, TypeOK
  <1> HIDE DEF held
  <1>3. PICK i \in DOMAIN gatePending : gatePending[i] = m BY DEF Range
  <1>4. /\ Len(held) + i \in DOMAIN (held \o gatePending)
        /\ (held \o gatePending)[Len(held) + i] = m
    BY <1>1, <1>3
  <1>5. QED BY <1>2, <1>4 DEF Range

LEMMA AppendedIsKept ==
  ASSUME TypeOK, WriteMessages, NEW m \in Range(gatePending)
  PROVE  m \in Range(gatePending')
  <1>1. gatePending \in Seq(Messages) BY DEF TypeOK
  <1>2. PICK i \in DOMAIN gatePending : gatePending[i] = m BY DEF Range
  <1>3. \A x : i \in DOMAIN Append(gatePending, x) /\ Append(gatePending, x)[i] = m
    BY <1>1, <1>2
  <1>4. gatePending' = gatePending \/ \E x : gatePending' = Append(gatePending, x)
    BY DEF WriteMessages
  <1>5. QED BY <1>2, <1>3, <1>4 DEF Range

LEMMA StepKeepsGate ==
  ASSUME TypeOK, [Next]_vars, NEW m \in Range(gatePending)
  PROVE  \/ m \in Range(gatePending') \/ m \in Range(queue'[current'])
         \/ tornDown' \/ refreshFailed' \/ ~Open(current)'
  <1>1. CASE gatePending' = gatePending BY <1>1
  <1>2. CASE WriteMessages BY <1>2, AppendedIsKept
  <1>3. CASE Teardown BY <1>3 DEF Teardown, tornDown
  <1>4. ASSUME NEW n \in Transports, FlushEnds(n), gatePending' # gatePending
        PROVE  m \in Range(queue'[current']) \/ ~Open(current)'
    <2>1. DrainFlushGate /\ UNCHANGED <<current, state>> BY <1>4 DEF FlushEnds
    <2>2. Open(current)' => Open(current) BY <2>1 DEF Open
    <2>3. QED BY <2>1, <2>2, DrainedIsQueued
  <1>5. ASSUME NEW p \in Paths, FinishRebuild(p)
        PROVE  tornDown' \/ m \in Range(queue'[current'])
    <2>1. /\ current' = current + 1 /\ current + 1 \in Transports
          /\ UNCHANGED teardown
      BY <1>5, Constants DEF FinishRebuild, TypeOK, Transports
    <2>2. CASE ~tornDown
      <3>1. queue'[current'] = gatePending
        BY <1>5, <2>1, <2>2 DEF FinishRebuild, TypeOK
      <3>2. QED BY <3>1
    <2>3. QED BY <2>1, <2>2 DEF tornDown
  <1>6. ASSUME NEW p \in Paths, RebuildFails(p) PROVE refreshFailed'
    BY <1>6 DEF RebuildFails
  <1>7. CASE UNCHANGED vars BY <1>1, <1>7 DEF vars
  <1>8. CASE RefreshFires \/ TokenRefreshed \/ TeardownEnds
    BY <1>1, <1>8 DEF RefreshFires, TokenRefreshed, TeardownEnds
  <1>9. ASSUME NEW n \in Transports,
               \/ Posts(n) \/ OnConnect(n) \/ FlushWrites(n)
               \/ Close401(n) \/ CloseForGood(n) \/ InitializeFails(n)
        PROVE  gatePending' = gatePending
    BY <1>9 DEF Posts, OnConnect, FlushWrites, Close401, CloseForGood, InitializeFails
  <1>10. ASSUME NEW p \in Paths, GiveUp(p) \/ StartRebuild(p)
         PROVE  gatePending' = gatePending
    BY <1>10 DEF GiveUp, StartRebuild
  <1>11. QED
    BY <1>1, <1>2, <1>3, <1>4, <1>5, <1>6, <1>7, <1>8, <1>9, <1>10
       DEF Next, Flush, Recover

(* A message the gate held is still there after a step, or in the queue of   *)
(* the current transport, unless the bridge is torn down, a rebuild was given *)
(* up or the current transport is closed.                                  *)
THEOREM GateLosesNothing == Spec => GateKept
  <1>1. TypeOK /\ [Next]_vars
          => [\A m \in Range(gatePending) :
                m \in Range(gatePending') \/ m \in Range(queue'[current'])
                  \/ tornDown' \/ refreshFailed' \/ ~Open(current)']_vars
    BY StepKeepsGate
  <1>2. QED BY <1>1, TypeCorrect, PTL DEF Spec, GateKept

-------------------------------------------------------------------------------
(* The history comes first.                                                *)

(* All of a, nothing of a, the first messages of a are among those of h.    *)
AllOf(a, h) == \A i \in DOMAIN a : a[i] \in h
NoneOf(a, h) == \A i \in DOMAIN a : a[i] \notin h
Ahead(a, h) == \A i, j \in DOMAIN a : i < j /\ a[j] \in h => a[i] \in h
FollowedBy(a, b, h) == AllOf(a, h) \/ NoneOf(b, h)

History == Range(history)

(* The history, or a part of it, has still to be flushed.                   *)
Flushing == \E n \in Transports : flushing[n] # NoFlush
Unflushed == history # <<>> /\ (~initialFlushDone \/ Flushing)

(* Only live messages wait in the gate.  Until a rebuild or the teardown    *)
(* opens it early, it is closed as long as something is to be flushed, and   *)
(* then the current transport is closed or no live message has got through;  *)
(* a flush that is under way writes to the current transport, and is         *)
(* followed by another only if a rebuild is under way.                      *)
FlushInv ==
  /\ NoneOf(gatePending, History)
  /\ \A n \in Transports :
       flushing[n] # NoFlush => history # <<>> /\ AllOf(flushing[n], History)
  /\ ~early =>
       /\ Ahead(server, History)
       /\ \A n \in Transports :
            /\ Ahead(queue[n], History) /\ FollowedBy(server, queue[n], History)
            /\ flushing[n] # NoFlush => n = current
       /\ Unflushed => /\ gateActive
                       /\ \/ ~Open(current)
                          \/ AllOf(server, History) /\ AllOf(queue[current], History)
       /\ ~initialFlushDone /\ Flushing => \E p \in Paths : path[p] = "build"

LEMMA HistoryOfEmpty ==
  ASSUME NEW a, NEW h
  PROVE  /\ AllOf(<<>>, h) /\ NoneOf(<<>>, h) /\ Ahead(<<>>, h)
         /\ FollowedBy(a, <<>>, h) /\ FollowedBy(<<>>, a, h)
  BY DEF AllOf, NoneOf, Ahead, FollowedBy

LEMMA HistoryOfJoin ==
  ASSUME NEW a \in Seq(Messages), NEW b \in Seq(Messages), NEW c, NEW h
  PROVE  /\ AllOf(a, h) /\ AllOf(b, h) => AllOf(a \o b, h)
         /\ NoneOf(a, h) /\ NoneOf(b, h) => NoneOf(a \o b, h)
         /\ Ahead(a, h) /\ Ahead(b, h) /\ FollowedBy(a, b, h)
              => Ahead(a \o b, h)
         /\ FollowedBy(c, a, h) /\ FollowedBy(c, b, h) => FollowedBy(c, a \o b, h)
  <1> DEFINE both == a \o b
  <1>1. /\ Len(a) \in Nat /\ Len(b) \in Nat
        /\ DOMAIN a = 1..Len(a) /\ DOMAIN b = 1..Len(b)
        /\ DOMAIN both = 1..(Len(a) + Len(b))
    OBVIOUS
  <1>2. \A i \in DOMAIN both :
          \/ i \in DOMAIN a /\ both[i] = a[i]
          \/ i \notin DOMAIN a /\ i - Len(a) \in DOMAIN b /\ both[i] = b[i - Len(a)]
    BY <1>1
  <1> HIDE DEF both
  <1>3. /\ AllOf(a, h) /\ AllOf(b, h) => AllOf(both, h)
        /\ NoneOf(a, h) /\ NoneOf(b, h) => NoneOf(both, h)
    BY <1>2 DEF AllOf, NoneOf
  <1>4. ASSUME Ahead(a, h), Ahead(b, h), FollowedBy(a, b, h)
        PROVE  Ahead(both, h)
    <2>1. SUFFICES ASSUME NEW i \in DOMAIN both, NEW j \in DOMAIN both,
                          i < j, both[j] \in h
                   PROVE  both[i] \in h
      BY DEF Ahead
    <2>2. CASE j \in DOMAIN a
      <3>1. i \in DOMAIN a BY <1>1, <2>1, <2>2
      <3>2. QED BY <1>2, <1>4, <2>1, <2>2, <3>1 DEF Ahead
    <2>3. CASE j \notin DOMAIN a /\ i \in DOMAIN a
      BY <1>2, <1>4, <2>1, <2>3 DEF FollowedBy, AllOf, NoneOf
    <2>4. CASE j \notin DOMAIN a /\ i \notin DOMAIN a
      <3>1. /\ i - Len(a) \in DOMAIN b /\ both[i] = b[i - Len(a)]
            /\ j - Len(a) \in DOMAIN b /\ both[j] = b[j - Len(a)]
        BY <1>2, <2>4
      <3>2. i - Len(a) < j - Len(a) BY <1>1, <2>1
      <3>3. QED BY <1>4, <2>1, <3>1, <3>2 DEF Ahead
    <2>5. QED BY <2>2, <2>3, <2>4
  <1>5. FollowedBy(c, a, h) /\ FollowedBy(c, b, h) => FollowedBy(c, both, h)
    BY <1>3 DEF FollowedBy
  <1>6. QED BY <1>3, <1>4, <1>5 DEF both

LEMMA HistoryOfHead ==
  ASSUME NEW h, NEW a \in Seq(Messages), a # <<>>, Ahead(a, h), NEW c \in Seq(Messages),
         Ahead(c, h), FollowedBy(c, a, h)
  PROVE  /\ Ahead(Tail(a), h) /\ Ahead(Append(c, Head(a)), h)
         /\ FollowedBy(Append(c, Head(a)), Tail(a), h)
         /\ AllOf(a, h) => AllOf(Tail(a), h)
         /\ AllOf(a, h) /\ AllOf(c, h) => AllOf(Append(c, Head(a)), h)
  <1>1. /\ Len(a) \in Nat \ {0} /\ DOMAIN a = 1..Len(a)
        /\ DOMAIN Tail(a) = 1..(Len(a) - 1)
        /\ \A i \in DOMAIN Tail(a) : Tail(a)[i] = a[i + 1] /\ i + 1 \in DOMAIN a
        /\ Head(a) = a[1] /\ 1 \in DOMAIN a /\ a[1] \in Messages
    OBVIOUS
  <1>2. /\ DOMAIN <<Head(a)>> = {1} /\ <<Head(a)>>[1] = a[1]
        /\ <<Head(a)>> \in Seq(Messages) /\ Append(c, Head(a)) = c \o <<Head(a)>>
    BY <1>1
  <1>3. Ahead(Tail(a), h)
    <2>1. SUFFICES ASSUME NEW i \in DOMAIN Tail(a), NEW j \in DOMAIN Tail(a),
                          i < j, Tail(a)[j] \in h
                   PROVE  Tail(a)[i] \in h
      BY DEF Ahead
    <2>2. i + 1 < j + 1 BY <1>1, <2>1
    <2>3. QED BY <1>1, <2>1, <2>2 DEF Ahead
  <1>4. /\ Ahead(<<Head(a)>>, h) /\ FollowedBy(c, <<Head(a)>>, h)
        /\ FollowedBy(c, Tail(a), h) /\ (AllOf(a, h) => AllOf(Tail(a), h))
        /\ AllOf(a, h) => AllOf(<<Head(a)>>, h)
    BY <1>1, <1>2 DEF Ahead, FollowedBy, AllOf, NoneOf
  <1>5. Ahead(c \o <<Head(a)>>, h) BY <1>2, <1>4, HistoryOfJoin
  <1>6. AllOf(c, h) /\ AllOf(<<Head(a)>>, h) => AllOf(c \o <<Head(a)>>, h)
    BY <1>2, HistoryOfJoin
  <1>7. FollowedBy(c \o <<Head(a)>>, Tail(a), h)
    <2>1. CASE a[1] \in h
      <3>1. AllOf(<<Head(a)>>, h) BY <1>2, <2>1 DEF AllOf
      <3>2. QED BY <1>4, <1>6, <3>1 DEF FollowedBy
    <2>2. CASE a[1] \notin h
      <3>1. \A i \in DOMAIN Tail(a) : 1 < i + 1 BY <1>1
      <3>2. NoneOf(Tail(a), h) BY <1>1, <2>2, <3>1 DEF Ahead, NoneOf
      <3>3. QED BY <3>2 DEF FollowedBy
    <2>3. QED BY <2>1, <2>2
  <1>8. QED BY <1>2, <1>3, <1>4, <1>5, <1>6, <1>7

LEMMA InitFlush == Init => FlushInv
  <1>1. SUFFICES ASSUME Init PROVE FlushInv
    OBVIOUS
  <1>2. /\ server = <<>> /\ gatePending = <<>> /\ current = 1 /\ ~early
        /\ gateActive = (history # <<>>)
        /\ \A n \in Transports : queue[n] = <<>> /\ flushing[n] = NoFlush
    BY <1>1 DEF Init
  <1>3. queue[current] = <<>> BY <1>2, Constants
  <1>4. ~Flushing BY <1>2 DEF Flushing
  <1>5. QED BY <1>2, <1>3, <1>4, HistoryOfEmpty DEF FlushInv, Unflushed

(* Steps that add no message to a queue and do not open the gate.           *)
LEMMA ForgettingKeepsFlush ==
  ASSUME TypeOK, FlushInv,
         UNCHANGED <<history, server, gatePending, current, early>>,
         gateActive => gateActive',
         \A n \in Transports : /\ queue'[n] \in {queue[n], <<>>}
                               /\ flushing'[n] \in {flushing[n], NoFlush}
                               /\ Open(n)' => Open(n),
         Unflushed' => Unflushed \/ (gateActive' /\ ~Open(current)'),
         ~early /\ ~initialFlushDone' /\ Flushing'
           => \E p \in Paths : path'[p] = "build"
  PROVE  FlushInv'
  <1>1. current \in Transports /\ History' = History BY DEF TypeOK, History
  <1>2. \A n \in Transports :
          /\ flushing'[n] # NoFlush => history # <<>> /\ AllOf(flushing'[n], History)
          /\ ~early =>
               /\ Ahead(queue'[n], History) /\ FollowedBy(server, queue'[n], History)
               /\ flushing'[n] # NoFlush => n = current
    BY HistoryOfEmpty DEF FlushInv
  <1>3. ASSUME ~early, Unflushed'
        PROVE  /\ gateActive'
               /\ \/ ~Open(current)'
                  \/ AllOf(server, History) /\ AllOf(queue'[current], History)
    BY <1>1, <1>3, HistoryOfEmpty DEF FlushInv
  <1>4. QED BY <1>1, <1>2, <1>3 DEF FlushInv

(* Steps that open the gate, if they do so when nothing is to be flushed.    *)
LEMMA OpeningKeepsFlush ==
  ASSUME TypeOK, FlushInv, OpensGate,
         UNCHANGED <<history, server, flushing, initialFlushDone>>,
         \A n \in Transports : queue'[n] \in {queue[n], gatePending, <<>>}
  PROVE  FlushInv'
  <1>1. /\ gatePending' = <<>> /\ History' = History
        /\ ~early' => ~early /\ ~Unflushed
    BY DEF OpensGate, History, Unflushed, Flushing
  <1>2. (Unflushed' <=> Unflushed) /\ (Flushing' <=> Flushing) BY DEF Unflushed, Flushing
  <1>3. Flushing => history # <<>> BY DEF FlushInv, Flushing
  <1>4. ~early' => ~Flushing /\ ~Unflushed' BY <1>1, <1>2, <1>3 DEF Unflushed
  <1>5. \A i \in DOMAIN gatePending : gatePending[i] \notin History
    BY DEF FlushInv, NoneOf
  <1>6. Ahead(gatePending, History) /\ \A a : FollowedBy(a, gatePending, History)
    BY <1>5 DEF Ahead, FollowedBy, NoneOf
  <1>7. \A n \in Transports : ~early' =>
          Ahead(queue'[n], History) /\ FollowedBy(server, queue'[n], History)
    BY <1>1, <1>6, HistoryOfEmpty DEF FlushInv
  <1>8. QED
    BY <1>1, <1>2, <1>4, <1>7, HistoryOfEmpty DEF FlushInv, Flushing

LEMMA LiveIsNoHistory ==
  ASSUME TypeOK, NEW k \in DOMAIN Live
  PROVE  /\ NoneOf(<<Live[k]>>, History) /\ Ahead(<<Live[k]>>, History)
         /\ \A a : FollowedBy(a, <<Live[k]>>, History)
         /\ <<Live[k]>> \in Seq(Messages)
  <1>1. Live[k] \in Range(Live) BY DEF Range
  <1>2. Live[k] \notin History BY <1>1, BridgeAssumption DEF TypeOK, History
  <1>3. DOMAIN <<Live[k]>> = {1} /\ <<Live[k]>>[1] = Live[k] OBVIOUS
  <1>4. Live[k] \in Messages BY <1>1 DEF Messages
  <1>5. QED BY <1>2, <1>3, <1>4 DEF NoneOf, Ahead, FollowedBy

(* Live messages join the current queue when nothing is to be flushed.      *)
LEMMA JoinKeepsFlush ==
  ASSUME TypeOK, FlushInv, NEW msgs \in Seq(Messages), WriteBatch(current, msgs),
         NoneOf(msgs, History), NoneOf(gatePending', History),
         UNCHANGED <<history, server, current, early, initialFlushDone>>,
         \A n \in Transports : flushing'[n] \in {flushing[n], NoFlush},
         ~early => ~Unflushed' /\ ~Flushing'
  PROVE  FlushInv'
  <1>1. current \in Transports /\ History' = History BY DEF TypeOK, History
  <1>2. Ahead(msgs, History) /\ \A a : FollowedBy(a, msgs, History)
    BY DEF NoneOf, Ahead, FollowedBy
  <1>3. \A n \in Transports : queue'[n] \in {queue[n], queue[n] \o msgs}
    BY DEF WriteBatch, TypeOK
  <1>4. \A n \in Transports : ~early =>
          Ahead(queue'[n], History) /\ FollowedBy(server, queue'[n], History)
    <2>1. SUFFICES ASSUME NEW n \in Transports, ~early
                   PROVE  /\ Ahead(queue'[n], History)
                          /\ FollowedBy(server, queue'[n], History)
      OBVIOUS
    <2>2. /\ Ahead(queue[n], History) /\ FollowedBy(server, queue[n], History)
          /\ queue[n] \in Seq(Messages)
      BY <2>1 DEF FlushInv, TypeOK
    <2>3. /\ Ahead(queue[n] \o msgs, History)
          /\ FollowedBy(server, queue[n] \o msgs, History)
      BY <1>2, <2>2, HistoryOfJoin
    <2>4. QED BY <1>3, <2>2, <2>3
  <1>5. \A n \in Transports :
          flushing'[n] # NoFlush => history # <<>> /\ AllOf(flushing'[n], History)
    BY DEF FlushInv
  <1>6. QED BY <1>1, <1>4, <1>5 DEF FlushInv, Flushing

LEMMA WritesKeepFlush ==
  ASSUME TypeOK, FlushInv, WriteMessages
  PROVE  FlushInv'
  <1>1. /\ written + 1 \in DOMAIN Live /\ written' = written + 1
        /\ UNCHANGED <<history, server, current, early, initialFlushDone,
                       gateActive, flushing, state, path>>
    <2>1. DOMAIN Live = 1..Len(Live) /\ Len(Live) \in Nat BY Constants
    <2>2. QED BY <2>1 DEF WriteMessages, TypeOK
  <1> DEFINE newest == <<Live[written + 1]>>
  <1>2. NoneOf(newest, History) /\ newest \in Seq(Messages) BY <1>1, LiveIsNoHistory
  <1>3. gatePending \in Seq(Messages) /\ NoneOf(gatePending, History) /\ History' = History
    BY <1>1 DEF TypeOK, FlushInv, History
  <1>4. CASE gateActive
    <2>1. /\ gatePending' = Append(gatePending, Live[written + 1]) /\ queue' = queue
          /\ Live[written + 1] \in Messages
      <3>1. gatePending' = Append(gatePending, Live[written + 1]) /\ queue' = queue
        BY <1>1, <1>4 DEF WriteMessages
      <3>2. Live[written + 1] \in Messages BY <1>1, Constants
      <3>3. QED BY <3>1, <3>2
    <2>2. Append(gatePending, Live[written + 1]) = gatePending \o newest
      BY <1>3, <2>1
    <2> HIDE DEF newest
    <2>3. NoneOf(gatePending \o newest, History) BY <1>2, <1>3, HistoryOfJoin
    <2>4. NoneOf(gatePending', History') BY <1>3, <2>1, <2>2, <2>3
    <2>5. (Unflushed' <=> Unflushed) /\ (Flushing' <=> Flushing)
      BY <1>1 DEF Unflushed, Flushing
    <2>6. QED BY <1>1, <1>3, <2>1, <2>4, <2>5 DEF FlushInv, Open
  <1>5. CASE ~gateActive
    <2>1. gatePending' = gatePending /\ WriteBatch(current, newest)
      BY <1>1, <1>5 DEF WriteMessages
    <2> HIDE DEF newest
    <2>2. ~early => ~Unflushed /\ ~Flushing
      BY <1>5 DEF FlushInv, Unflushed, Flushing
    <2>3. (Unflushed' <=> Unflushed) /\ (Flushing' <=> Flushing)
      BY <1>1 DEF Unflushed, Flushing
    <2>4. QED BY <1>1, <1>2, <1>3, <2>1, <2>2, <2>3, JoinKeepsFlush
  <1>6. QED BY <1>4, <1>5

(* A drained gate follows the history: the flush it waited for has ended.   *)
LEMMA FlushEndsKeepsFlush ==
  ASSUME TypeOK, FlushInv, NEW n \in Transports, FlushEnds(n)
  PROVE  FlushInv'
  <1>1. /\ \A m \in Transports :
             flushing'[m] = IF m = n THEN NoFlush ELSE flushing[m]
        /\ flushing[n] # NoFlush
        /\ UNCHANGED <<history, server, current, early, initialFlushDone, state, path>>
    BY DEF FlushEnds, TypeOK, NoFlush
  <1>2. CASE UNCHANGED <<gateActive, gatePending, queue>>
    <2>1. Unflushed' => Unflushed BY <1>1 DEF Unflushed, Flushing
    <2>2. ~early /\ ~initialFlushDone /\ Flushing' => \E q \in Paths : path'[q] = "build"
      BY <1>1, <1>2, Constants DEF FlushInv, Flushing
    <2>3. QED BY <1>1, <1>2, <2>1, <2>2, ForgettingKeepsFlush DEF Open
  <1>3. CASE DrainFlushGate /\ ~authRecoveryInFlight
    <2>1. gatePending' = <<>> /\ WriteBatch(current, gatePending)
      BY <1>3 DEF DrainFlushGate
    <2>2. \A q \in Paths : path[q] # "build" BY <1>3 DEF authRecoveryInFlight
    <2>3. Flushing BY <1>1 DEF Flushing
    <2>4. ~early => initialFlushDone /\ \A m \in Transports : flushing[m] # NoFlush => m = n
      BY <1>1, <2>2, <2>3 DEF FlushInv
    <2>5. ~early => ~Unflushed' /\ ~Flushing' BY <1>1, <2>4 DEF Unflushed, Flushing
    <2>6. NoneOf(gatePending, History) /\ gatePending \in Seq(Messages)
      BY DEF FlushInv, TypeOK
    <2>7. NoneOf(gatePending', History) BY <2>1, HistoryOfEmpty
    <2>8. QED BY <1>1, <2>1, <2>5, <2>6, <2>7, JoinKeepsFlush
  <1>4. QED BY <1>2, <1>3 DEF FlushEnds

(* What is flushed goes to a queue that holds nothing but history.          *)
LEMMA FlushWritesKeepsFlush ==
  ASSUME TypeOK, FlushInv, NEW n \in Transports, FlushWrites(n)
  PROVE  FlushInv'
  <1> DEFINE head == <<Head(flushing[n])>>
  <1>1. /\ flushing[n] \in Seq(Messages) /\ flushing[n] # <<>> /\ flushing[n] # NoFlush
        /\ AllOf(flushing[n], History) /\ history # <<>>
        /\ UNCHANGED <<history, server, current, early, initialFlushDone, state,
                       path, gateActive, gatePending>>
    BY DEF FlushWrites, TypeOK, FlushInv
  <1>2. head \in Seq(Messages) /\ AllOf(head, History) /\ AllOf(Tail(flushing[n]), History)
    <2>1. /\ Len(flushing[n]) \in Nat \ {0} /\ DOMAIN flushing[n] = 1..Len(flushing[n])
          /\ DOMAIN Tail(flushing[n]) = 1..(Len(flushing[n]) - 1)
          /\ \A i \in DOMAIN Tail(flushing[n]) :
               Tail(flushing[n])[i] = flushing[n][i + 1] /\ i + 1 \in DOMAIN flushing[n]
          /\ Head(flushing[n]) = flushing[n][1] /\ 1 \in DOMAIN flushing[n]
      BY <1>1
    <2>2. head \in Seq(Messages) BY <1>1
    <2>3. DOMAIN head = {1} /\ head[1] = flushing[n][1] BY <2>1
    <2>4. QED BY <1>1, <2>1, <2>2, <2>3 DEF AllOf
  <1>3. \A m \in Transports :
          queue'[m] = queue[m] \/ (m = n /\ Open(m) /\ queue'[m] = queue[m] \o head)
    BY DEF FlushWrites, WriteBatch, TypeOK
  <1>4. \A m \in Transports : flushing'[m] = IF m = n THEN Tail(flushing[n]) ELSE flushing[m]
    BY DEF FlushWrites, TypeOK
  <1>5. Unflushed /\ Flushing /\ History' = History
    BY <1>1 DEF Unflushed, Flushing, History
  <1> HIDE DEF head
  <1>6. \A m \in Transports :
          flushing'[m] # NoFlush => history # <<>> /\ AllOf(flushing'[m], History)
    BY <1>1, <1>2, <1>4 DEF FlushInv
  <1>7. CASE early BY <1>1, <1>5, <1>6, <1>7 DEF FlushInv
  <1>8. CASE ~early
    <2>1. n = current /\ gateActive /\ (initialFlushDone \/ \E q \in Paths : path[q] = "build")
      BY <1>1, <1>5, <1>8 DEF FlushInv
    <2>2. Open(n) => AllOf(server, History) /\ AllOf(queue[n], History)
      BY <1>5, <1>8, <2>1 DEF FlushInv
    <2>3. Open(n) => AllOf(queue[n] \o head, History)
      <3>1. queue[n] \in Seq(Messages) BY DEF TypeOK
      <3>2. QED BY <1>2, <2>2, <3>1, HistoryOfJoin
    <2>4. \A m \in Transports :
            /\ Ahead(queue'[m], History) /\ FollowedBy(server, queue'[m], History)
            /\ flushing'[m] # NoFlush => m = current
      <3>1. \A a : AllOf(a, History) => Ahead(a, History) BY DEF AllOf, Ahead
      <3>2. QED BY <1>3, <1>4, <1>8, <2>1, <2>2, <2>3, <3>1 DEF FlushInv, FollowedBy
    <2>5. Open(current) => AllOf(server, History) /\ AllOf(queue'[current], History)
      BY <1>3, <2>1, <2>2, <2>3
    <2>6. (Open(current)' <=> Open(current)) BY <1>1 DEF Open
    <2>7. Ahead(server, History) /\ NoneOf(gatePending, History) BY <1>8 DEF FlushInv
    <2>8. QED BY <1>1, <1>5, <1>6, <2>1, <2>4, <2>5, <2>6, <2>7 DEF FlushInv
  <1>9. QED BY <1>7, <1>8


(* What is posted is history as long as there is a history to flush.        *)
LEMMA PostsKeepFlush ==
  ASSUME TypeOK, ClaimInv, OrderInv, FlushInv, NEW n \in Transports, Posts(n)
  PROVE  FlushInv'
  <1>1. /\ queue[n] \in Seq(Messages) /\ queue[n] # <<>> /\ server \in Seq(Messages)
        /\ Open(n) /\ n = current /\ server' = Append(server, Head(queue[n]))
        /\ UNCHANGED <<history, current, state, gateActive, gatePending, flushing,
                       initialFlushDone, path, early>>
    BY DEF Posts, TypeOK, ClaimInv, OnlyCurrentOpen
  <1>2. /\ queue'[n] = Tail(queue[n])
        /\ \A m \in Transports \ {n} : queue'[m] = <<>>
    BY DEF Posts, ClaimInv, OnlyCurrentOpen, OrderInv, TypeOK
  <1>3. /\ (Unflushed' <=> Unflushed) /\ (Flushing' <=> Flushing)
        /\ (Open(current)' <=> Open(current)) /\ History' = History
    BY <1>1 DEF Unflushed, Flushing, Open, History
  <1>4. CASE early BY <1>1, <1>3, <1>4 DEF FlushInv
  <1>5. CASE ~early
    <2>1. /\ Ahead(queue[n], History) /\ Ahead(server, History)
          /\ FollowedBy(server, queue[n], History)
      BY <1>5 DEF FlushInv
    <2>2. /\ Ahead(Tail(queue[n]), History) /\ Ahead(server', History)
          /\ FollowedBy(server', Tail(queue[n]), History)
          /\ (AllOf(queue[n], History) => AllOf(Tail(queue[n]), History))
          /\ (AllOf(queue[n], History) /\ AllOf(server, History)
                => AllOf(server', History))
      BY <1>1, <2>1, HistoryOfHead
    <2>3. \A m \in Transports :
            Ahead(queue'[m], History) /\ FollowedBy(server', queue'[m], History)
      BY <1>2, <2>2, HistoryOfEmpty
    <2>4. Unflushed => gateActive /\ AllOf(server', History) /\ AllOf(queue'[n], History)
      BY <1>1, <1>2, <1>5, <2>2 DEF FlushInv
    <2>5. QED BY <1>1, <1>3, <1>5, <2>2, <2>3, <2>4 DEF FlushInv
  <1>6. QED BY <1>4, <1>5

(* A flush that begins is the only one.                                     *)
LEMMA ConnectsKeepFlush ==
  ASSUME TypeOK, FlushInv, NEW n \in Transports, OnConnect(n)
  PROVE  FlushInv'
  <1>1. /\ UNCHANGED <<history, current, queue, server, gateActive, gatePending,
                       path, early>>
        /\ \A m \in Transports : Open(m)' <=> Open(m)
        /\ current \in Transports
    BY DEF OnConnect, Open, TypeOK
  <1>2. CASE UNCHANGED <<initialFlushDone, flushing>>
    <2>1. (Unflushed' <=> Unflushed) /\ (Flushing' <=> Flushing)
      BY <1>2 DEF OnConnect, Unflushed, Flushing
    <2>2. QED BY <1>1, <1>2, <2>1, ForgettingKeepsFlush DEF FlushInv
  <1>3. CASE ~initialFlushDone /\ history # <<>> /\ initialFlushDone'
             /\ flushing' = [flushing EXCEPT ![current] = history]
    <2>1. AllOf(history, History) BY DEF AllOf, History, Range
    <2>2. \A m \in Transports :
            flushing'[m] = IF m = current THEN history ELSE flushing[m]
      BY <1>3 DEF TypeOK
    <2>3. History' = History /\ Unflushed BY <1>1, <1>3 DEF History, Unflushed
    <2>4. QED BY <1>1, <1>3, <2>1, <2>2, <2>3 DEF FlushInv
  <1>4. QED BY <1>2, <1>3 DEF OnConnect

LEMMA StepFlush ==
  TypeOK /\ ClaimInv /\ OrderInv /\ FlushInv /\ [Next]_vars => FlushInv'
  <1>1. SUFFICES ASSUME TypeOK, ClaimInv, OrderInv, FlushInv, [Next]_vars PROVE FlushInv'
    OBVIOUS
  <1> USE <1>1
  <1>2. CASE WriteMessages BY <1>2, WritesKeepFlush
  <1>3. ASSUME UNCHANGED <<history, current, queue, server, gateActive, gatePending,
                           flushing, initialFlushDone, early, state>>,
               ~early /\ ~initialFlushDone /\ Flushing
                 => \E q \in Paths : path'[q] = "build"
        PROVE  FlushInv'
    <2>1. (Unflushed' <=> Unflushed) /\ (Flushing' <=> Flushing)
      BY <1>3 DEF Unflushed, Flushing
    <2>2. QED BY <1>3, <2>1, ForgettingKeepsFlush DEF Open
  <1>4. ASSUME UNCHANGED path
        PROVE  ~early /\ ~initialFlushDone /\ Flushing
                 => \E q \in Paths : path'[q] = "build"
    BY <1>4 DEF FlushInv
  <1>5. CASE RefreshFires \/ TokenRefreshed
    <2>1. \A q \in Paths : path[q] = "build" => path'[q] = "build"
      BY <1>5 DEF RefreshFires, TokenRefreshed, authRecoveryInFlight, TypeOK
    <2>2. QED BY <1>3, <1>5, <2>1 DEF RefreshFires, TokenRefreshed, FlushInv
  <1>6. CASE Teardown
    BY <1>6, OpeningKeepsFlush DEF Teardown
  <1>7. ASSUME NEW n \in Transports, CloseTransport(n),
               UNCHANGED <<history, current, server, gateActive, gatePending,
                           flushing, initialFlushDone, early>>,
               \A q \in Paths : path[q] = "build" => path'[q] = "build"
        PROVE  FlushInv'
    <2>1. \A m \in Transports : /\ queue'[m] \in {queue[m], <<>>}
                                /\ Open(m)' => Open(m)
      BY <1>7 DEF CloseTransport, Open, TypeOK
    <2>2. (Unflushed' <=> Unflushed) /\ (Flushing' <=> Flushing)
      BY <1>7 DEF Unflushed, Flushing
    <2>3. ~early /\ ~initialFlushDone /\ Flushing => \E q \in Paths : path'[q] = "build"
      BY <1>7 DEF FlushInv
    <2>4. QED BY <1>7, <2>1, <2>2, <2>3, ForgettingKeepsFlush
  <1>8. CASE TeardownEnds
    BY <1>7, <1>8 DEF TeardownEnds, TypeOK
  <1>9. ASSUME NEW n \in Transports, Posts(n) PROVE FlushInv'
    BY <1>9, PostsKeepFlush
  <1>10. ASSUME NEW n \in Transports, OnConnect(n) PROVE FlushInv'
    BY <1>10, ConnectsKeepFlush
  <1>11. ASSUME NEW n \in Transports, FlushWrites(n) PROVE FlushInv'
    BY <1>11, FlushWritesKeepsFlush
  <1>12. ASSUME NEW n \in Transports, FlushEnds(n) PROVE FlushInv'
    BY <1>12, FlushEndsKeepsFlush
  <1>13. ASSUME NEW n \in Transports, Close401(n) \/ CloseForGood(n) PROVE FlushInv'
    <2>1. \A q \in Paths : path[q] = "build" => path'[q] = "build"
      BY <1>13 DEF Close401, CloseForGood, authRecoveryInFlight, TypeOK
    <2>2. QED BY <1>7, <1>13, <2>1 DEF Close401, CloseForGood
  <1>14. ASSUME NEW n \in Transports, InitializeFails(n) PROVE FlushInv'
    BY <1>3, <1>4, <1>14 DEF InitializeFails
  <1>15. ASSUME NEW p \in Paths, GiveUp(p) PROVE FlushInv'
    <2>1. \A q \in Paths : path[q] = "build" => path'[q] = "build"
      BY <1>15 DEF GiveUp, TypeOK
    <2>2. QED BY <1>3, <1>15, <2>1 DEF GiveUp, FlushInv
  <1>16. ASSUME NEW p \in Paths, StartRebuild(p) PROVE FlushInv'
    <2>1. /\ current \in Transports /\ path'[p] = "build" /\ gateActive'
          /\ UNCHANGED <<history, server, gatePending, current, early, flushing>>
          /\ CloseTransport(current)
      BY <1>16 DEF StartRebuild, TypeOK
    <2>2. \A m \in Transports : /\ queue'[m] \in {queue[m], <<>>}
                                /\ Open(m)' => Open(m)
      BY <2>1 DEF CloseTransport, Open, TypeOK
    <2>3. ~Open(current)'
      BY <2>1 DEF CloseTransport, Open, TypeOK
    <2>4. QED BY <2>1, <2>2, <2>3, ForgettingKeepsFlush
  <1>17. ASSUME NEW p \in Paths, FinishRebuild(p) PROVE FlushInv'
    <2>1. \A n \in Transports : queue'[n] \in {queue[n], gatePending, <<>>}
      BY <1>17 DEF FinishRebuild, TypeOK
    <2>2. QED BY <1>17, <2>1, OpeningKeepsFlush DEF FinishRebuild
  <1>18. ASSUME NEW p \in Paths, RebuildFails(p) PROVE FlushInv'
    BY <1>18, OpeningKeepsFlush DEF RebuildFails
  <1>19. CASE UNCHANGED vars
    BY <1>3, <1>4, <1>19 DEF vars
  <1>20. QED
    BY <1>2, <1>5, <1>6, <1>8, <1>9, <1>10, <1>11, <1>12, <1>13, <1>14, <1>15,
       <1>16, <1>17, <1>18, <1>19 DEF Next, Flush, Recover

(* The server receives the history before any live message, unless a rebuild *)
(* or the teardown opened the gate before the history was flushed.          *)
THEOREM HistoryBeforeLive == Spec => []HistoryFirst
  <1>1. Init => FlushInv BY InitFlush
  <1>2. TypeOK /\ ClaimInv /\ OrderInv /\ FlushInv /\ [Next]_vars => FlushInv'
    BY StepFlush
  <1>3. FlushInv => HistoryFirst
    BY DEF FlushInv, HistoryFirst, Ahead, History
  <1>4. QED BY <1>1, <1>2, <1>3, OrderHolds, PTL DEF Spec

===============================================================================
