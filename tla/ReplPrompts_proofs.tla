-------------------------- MODULE ReplPrompts_proofs --------------------------
(***************************************************************************)
(* Proof that ReplTurns loses text typed at the prompt, however its turns  *)
(* overlap, only to the killing of the agents and to a processing that     *)
(* throws: the invariant NoPromptLost.                                     *)
(*                                                                         *)
(* A typed command is in a place (the queue, or a call that is processing  *)
(* it) or has met a fate.  Every action is shown to be a hand-over: what   *)
(* it takes from a place it puts in another one or marks with a fate.      *)
(***************************************************************************)
EXTENDS ReplTurns_proofs

Processed(c) == \E t \in Turns : InInput(t) /\ c \in turn[t].cmds

Placed(c) == c \in CmdsOf(queue) \/ Processed(c)

(* The step moves the commands cs out of their places, or keeps them.      *)
HandsOver(cs) ==
  \A c \in TypedText :
    \/ c \in sent /\ Placed(c)
    \/ c \in sent' \ sent
    => Placed(c)' \/ c \in cs

(* It marks cs with a fate, which is "dropped" for no typed text.          *)
Marks(cs) ==
  \E f \in Fates : /\ fate' = Marked(cs, f)
                   /\ f = "dropped" => cs \cap TypedText = {}

Accounted == \E cs \in SUBSET Commands : HandsOver(cs) /\ Marks(cs)

PInv == /\ TypeOK
        /\ \A c \in TypedText : "dropped" \notin fate[c]
        /\ \A c \in TypedText \cap sent : fate[c] # {} \/ Placed(c)

-----------------------------------------------------------------------------
(* The places *)

LEMMA FatesAre ==
  Fates = {"model", "local", "failed", "input", "parked", "cleared", "dropped"}
  BY DEF Fates

LEMMA TypedAreCommands == TypedText \subseteq Commands
  BY DEF TypedText, UserCommands

(* What stays queued stays placed.                                         *)
LEMMA StaysQueued ==
  ASSUME NEW c, c \in CmdsOf(queue), NEW cs, c \notin cs,
         \A e \in queue : e \in queue' \/ e.cmd \in cs
  PROVE  Placed(c)'
  BY DEF CmdsOf, Placed

LEMMA IsPushed ==
  ASSUME NEW c, NEW mode, NEW prio, Stamped(c, mode, prio) \in queue'
  PROVE  Placed(c)'
  BY DEF CmdsOf, Placed, Stamped

(* No call gives up what it processes.                                     *)
SameCalls == \A u \in Turns : /\ (InInput(u)' <=> InInput(u))
                              /\ turn'[u].cmds = turn[u].cmds

LEMMA CallsKeep ==
  ASSUME SameCalls, NEW c, Processed(c) PROVE Processed(c)'
  BY DEF SameCalls, Processed

(* A step that leaves the calls alone.                                     *)
LEMMA QueueStep ==
  ASSUME SameCalls, NEW cs,
         \A e \in queue : e \in queue' \/ e.cmd \in cs,
         \A c \in sent' \ sent : c \in CmdsOf(queue') \/ c \in cs
  PROVE  HandsOver(cs)
  <1>1. SUFFICES ASSUME NEW c \in TypedText, c \notin cs,
                        (c \in sent /\ Placed(c)) \/ c \in sent' \ sent
                 PROVE  Placed(c)'
    BY DEF HandsOver
  <1>2. CASE c \in CmdsOf(queue)
    BY <1>1, <1>2, StaysQueued
  <1>3. CASE Processed(c)
    BY <1>3, CallsKeep DEF Placed
  <1>4. CASE c \in sent' \ sent
    BY <1>1, <1>4 DEF Placed, CmdsOf
  <1>5. QED BY <1>1, <1>2, <1>3, <1>4 DEF Placed

(* A call ends: the others keep what they process.                         *)
LEMMA CallEnds ==
  ASSUME NEW t \in Turns, NEW tn \in [Turns -> TurnState], turn' = FreeOf(t, tn),
         \A u \in Turns : tn[u].pc = turn[u].pc /\ tn[u].cmds = turn[u].cmds,
         NEW cs,
         InInput(t) => \A c \in turn[t].cmds \cap TypedText :
                         c \in cs \/ c \in CmdsOf(queue'),
         \A e \in queue : e \in queue',
         \A c \in sent' \ sent : c \in CmdsOf(queue')
  PROVE  HandsOver(cs)
  <1>1. SUFFICES ASSUME NEW c \in TypedText, c \notin cs,
                        (c \in sent /\ Placed(c)) \/ c \in sent' \ sent
                 PROVE  Placed(c)'
    BY DEF HandsOver
  <1>2. CASE c \in CmdsOf(queue)
    BY <1>1, <1>2, StaysQueued
  <1>3. ASSUME NEW u \in Turns, InInput(u), c \in turn[u].cmds
        PROVE  Placed(c)'
    <2>1. CASE u = t
      BY <1>1, <1>3, <2>1 DEF Placed, CmdsOf
    <2>2. CASE u # t
      <3>1. turn'[u].pc = turn[u].pc /\ turn'[u].cmds = turn[u].cmds
        BY <2>2 DEF FreeOf
      <3>2. QED BY <1>3, <3>1 DEF InInput, Placed, Processed
    <2>3. QED BY <2>1, <2>2
  <1>4. CASE c \in sent' \ sent
    BY <1>4 DEF Placed, CmdsOf
  <1>5. QED BY <1>1, <1>2, <1>3, <1>4 DEF Placed, Processed

(* Leaving keeps the queue q and queues what is chained.                   *)
LEMMA LeaveKeeps ==
  ASSUME NEW t \in Turns, NEW q, NEW chained, NEW err,
         Leave(t, q, chained, err)
  PROVE  /\ \A e \in q : e \in queue'
         /\ \A c \in sent' \ sent : c \in CmdsOf(queue')
  <1>1. /\ queue' = q \cup {Stamped(c, Mode[c], NextPrio) : c \in chained}
        /\ sent' = sent \cup chained
    BY DEF Leave
  <1>2. \A c \in chained : Stamped(c, Mode[c], NextPrio).cmd = c
    BY DEF Stamped
  <1>3. QED BY <1>1, <1>2 DEF CmdsOf

-----------------------------------------------------------------------------
(* The fates *)

LEMMA NothingMarked ==
  ASSUME TypeOK, fate' = fate PROVE Marks({})
  <1>1. Marked({}, "local") = fate
    BY DEF Marked, TypeOK
  <1>2. QED BY <1>1, FatesAre DEF Marks

LEMMA MarkedSo ==
  ASSUME NEW cs, NEW f \in Fates \ {"dropped"}, fate' = Marked(cs, f)
  PROVE  Marks(cs)
  BY DEF Marks

(* What is accounted for by every step is never lost.                      *)
LEMMA AccountedKeeps ==
  ASSUME PInv, TypeOK', Accounted PROVE PInv'
  <1>1. PICK cs \in SUBSET Commands : HandsOver(cs) /\ Marks(cs)
    BY DEF Accounted
  <1>2. PICK f \in Fates : /\ fate' = Marked(cs, f)
                           /\ f = "dropped" => cs \cap TypedText = {}
    BY <1>1 DEF Marks
  <1>3. ASSUME NEW c \in TypedText
        PROVE  /\ fate'[c] = IF c \in cs THEN fate[c] \cup {f} ELSE fate[c]
               /\ "dropped" \notin fate'[c]
    <2>1. fate'[c] = IF c \in cs THEN fate[c] \cup {f} ELSE fate[c]
      BY <1>2, TypedAreCommands DEF Marked
    <2>2. "dropped" \notin fate[c]
      BY DEF PInv
    <2>3. QED BY <1>2, <2>1, <2>2
  <1>4. ASSUME NEW c \in TypedText, c \in sent'
        PROVE  fate'[c] # {} \/ Placed(c)'
    <2>1. CASE c \in cs
      BY <1>3, <2>1
    <2>2. CASE c \notin cs
      <3>1. CASE c \in sent /\ fate[c] # {}
        BY <1>3, <2>2, <3>1
      <3>2. CASE c \in sent /\ Placed(c)
        BY <1>1, <2>2, <3>2 DEF HandsOver
      <3>3. CASE c \notin sent
        BY <1>1, <1>4, <2>2, <3>3 DEF HandsOver
      <3>4. QED BY <3>1, <3>2, <3>3 DEF PInv
    <2>3. QED BY <2>1, <2>2
  <1>5. QED BY <1>3, <1>4 DEF PInv

-----------------------------------------------------------------------------
(* Each action accounts for the commands it touches *)

(* A call starts in a free slot with the commands cs.                      *)
LEMMA CallStarts ==
  ASSUME TypeOK, NEW s \in Turns, turn[s].pc = "free",
         NEW via, NEW cs,
         turn' = [turn EXCEPT ![s] = Started("input", via, cs, 0)],
         \A e \in queue : e \in queue' \/ e.cmd \in cs,
         \A c \in sent' \ sent : c \in cs
  PROVE  HandsOver({})
  <1>1. /\ turn'[s].pc = "input" /\ turn'[s].cmds = cs
        /\ \A u \in Turns \ {s} : turn'[u] = turn[u]
    BY DEF Started, FreeTurn, TypeOK
  <1>2. \A c \in cs : Placed(c)'
    BY <1>1 DEF Placed, Processed, InInput
  <1>3. SUFFICES ASSUME NEW c \in TypedText, c \notin cs,
                        (c \in sent /\ Placed(c)) \/ c \in sent' \ sent
                 PROVE  Placed(c)'
    BY <1>2 DEF HandsOver
  <1>4. CASE c \in CmdsOf(queue)
    BY <1>3, <1>4, StaysQueued
  <1>5. ASSUME NEW u \in Turns, InInput(u), c \in turn[u].cmds
        PROVE  Placed(c)'
    <2>1. turn'[u] = turn[u]
      BY <1>1, <1>5 DEF InInput
    <2>2. QED BY <1>5, <2>1 DEF InInput, Placed, Processed
  <1>6. QED BY <1>3, <1>4, <1>5 DEF Placed, Processed

LEMMA StartAccounts ==
  ASSUME TypeOK,
         \/ \E c \in Commands : SubmitIdle(c) \/ IncomingPrompt(c)
         \/ ProcessQueue
  PROVE  Accounted
  <1>0. PICK s \in Turns : s = Slot /\ turn[s].pc = "free"
    BY SlotIsFree DEF SubmitIdle, IncomingPrompt, ProcessQueue
  <1>1. ASSUME NEW c \in Commands, SubmitIdle(c) PROVE Accounted
    <2>1. HandsOver({})
      BY <1>0, <1>1, CallStarts DEF SubmitIdle
    <2>2. QED BY <1>1, <2>1, NothingMarked DEF SubmitIdle, Accounted
  <1>2. ASSUME NEW c \in Commands, IncomingPrompt(c) PROVE Accounted
    <2>1. \A u \in Turns : InInput(u) => turn'[u] = turn[u]
      BY <1>0, <1>2 DEF IncomingPrompt, InInput, TypeOK
    <2>2. queue' = queue /\ sent' = sent \cup {c} /\ fate' = Marked({c}, "model")
      BY <1>2 DEF IncomingPrompt
    <2>3. HandsOver({c})
      BY <2>1, <2>2 DEF HandsOver, Placed, Processed, InInput
    <2>4. QED BY <2>2, <2>3, MarkedSo, FatesAre DEF Accounted
  <1>3. CASE ProcessQueue
    <2>1. PICK batch \in NextBatches :
            /\ queue' = queue \ batch
            /\ turn' = [turn EXCEPT ![Slot] =
                          Started("input", "queue", CmdsOf(batch), 0)]
      BY <1>3 DEF ProcessQueue
    <2>2. /\ \A e \in queue : e \in queue' \/ e.cmd \in CmdsOf(batch)
          /\ sent' = sent
      BY <1>3, <2>1 DEF ProcessQueue, CmdsOf
    <2>3. HandsOver({})
      BY <1>0, <2>1, <2>2, CallStarts
    <2>4. QED BY <1>3, <2>3, NothingMarked DEF ProcessQueue, Accounted
  <1>4. QED BY <1>1, <1>2, <1>3

LEMMA TurnStepAccounts ==
  ASSUME TypeOK, NEW t \in Turns, TurnStep(t) PROVE Accounted
  <1>c. turn[t].cmds \in SUBSET Commands /\ turn \in [Turns -> TurnState]
    BY DEF TypeOK, TurnState
  <1>1. ASSUME turn[t].pc = "input", turn' = FreeOf(t, turn),
               NEW f \in {"local", "failed"}, fate' = Marked(turn[t].cmds, f),
               \A e \in queue : e \in queue',
               \A c \in sent' \ sent : c \in CmdsOf(queue')
        PROVE  Accounted
    <2>1. HandsOver(turn[t].cmds)
      BY <1>1, <1>c, CallEnds
    <2>2. QED BY <1>1, <1>c, <2>1, MarkedSo, FatesAre DEF Accounted
  <1>2. CASE InputFails(t)
    BY <1>1, <1>2 DEF InputFails
  <1>3. CASE InputSilent(t) \/ InputLocal(t)
    <2>1. PICK chained \in Chains(t) : Leave(t, queue, chained, turn[t].apiError)
      BY <1>3 DEF InputSilent, InputLocal
    <2>2. QED BY <1>1, <1>3, <2>1, LeaveKeeps DEF InputSilent, InputLocal
  <1>4. CASE InputQuery(t)
    <2>1. \A u \in Turns \ {t} : turn'[u] = turn[u]
      BY <1>4, <1>c DEF InputQuery
    <2>2. queue' = queue /\ sent' = sent /\ fate' = Marked(turn[t].cmds, "model")
      BY <1>4 DEF InputQuery
    <2>3. HandsOver(turn[t].cmds)
      BY <2>1, <2>2 DEF HandsOver, Placed, Processed, InInput
    <2>4. QED BY <1>c, <2>2, <2>3, MarkedSo, FatesAre DEF Accounted
  <1>5. CASE InputConcurrent(t)
    <2>1. PICK chained \in Chains(t) :
            Leave(t, queue \cup Requeued(turn[t].cmds), chained, turn[t].apiError)
      BY <1>5 DEF InputConcurrent
    <2>2. /\ \A e \in queue \cup Requeued(turn[t].cmds) : e \in queue'
          /\ \A c \in sent' \ sent : c \in CmdsOf(queue')
      BY <2>1, LeaveKeeps
    <2>3. ASSUME NEW c \in turn[t].cmds \cap TypedText
          PROVE  c \in CmdsOf(queue') /\ c \notin Filtered(turn[t].cmds)
      <3>1. c \notin Meta /\ Mode[c] # "slash"
        BY <2>3 DEF TypedText, UserCommands
      <3>2. Stamped(c, "prompt", NextPrio) \in queue'
        BY <2>2, <2>3, <3>1 DEF Requeued
      <3>3. QED BY <3>1, <3>2 DEF CmdsOf, Stamped, Filtered
    <2>4. HandsOver(Filtered(turn[t].cmds))
      BY <1>5, <1>c, <2>2, <2>3, CallEnds DEF InputConcurrent
    <2>5. Filtered(turn[t].cmds) \in SUBSET Commands
          /\ Filtered(turn[t].cmds) \cap TypedText = {}
      BY <1>c DEF Filtered, TypedText, UserCommands
    <2>6. Marks(Filtered(turn[t].cmds))
      BY <1>5, <2>5, FatesAre DEF InputConcurrent, Marks
    <2>7. QED BY <2>4, <2>5, <2>6 DEF Accounted
  <1>6. ASSUME NEW outcome \in Outcomes, QueryReturns(t, outcome)
        PROVE  Accounted
    <2>1. /\ \A e \in queue : e \in queue'
          /\ \A c \in sent' \ sent : c \in CmdsOf(queue')
      <3>1. CASE turn[t].via = "incoming"
        BY <1>6, <3>1 DEF QueryReturns
      <3>2. CASE turn[t].via # "incoming"
        <4>1. PICK chained \in Chains(t) :
                Leave(t, queue, chained, Heard(outcome)[t].apiError)
          BY <1>6, <3>2 DEF QueryReturns
        <4>2. QED BY <4>1, LeaveKeeps
      <3>3. QED BY <3>1, <3>2
    <2>2. ~InInput(t) /\ turn' = FreeOf(t, Heard(outcome)) /\ fate' = fate
      BY <1>6 DEF QueryReturns, InInput
    <2>3. HandsOver({})
      BY <2>1, <2>2, HeardType, CallEnds
    <2>4. QED BY <2>2, <2>3, NothingMarked DEF Accounted
  <1>7. CASE QueryThrows(t)
    <2>1. HandsOver({})
      BY <1>7, <1>c, CallEnds DEF QueryThrows, InInput
    <2>2. QED BY <1>7, <2>1, NothingMarked DEF QueryThrows, Accounted
  <1>8. CASE DrainCommit(t)
    <2>1. SameCalls
      BY <1>8, <1>c DEF DrainCommit, SameCalls, InInput, TurnState
    <2>2. /\ \A e \in queue : e \in queue' \/ e.cmd \in CmdsOf(turn[t].plan)
          /\ sent' = sent /\ fate' = Marked(CmdsOf(turn[t].plan), "model")
      BY <1>8 DEF DrainCommit, CmdsOf
    <2>3. CmdsOf(turn[t].plan) \in SUBSET Commands
      BY <1>c DEF CmdsOf, TurnState, Entry
    <2>4. HandsOver(CmdsOf(turn[t].plan))
      BY <2>1, <2>2, QueueStep
    <2>5. QED BY <2>2, <2>3, <2>4, MarkedSo, FatesAre DEF Accounted
  <1>9. QED BY <1>2, <1>3, <1>4, <1>5, <1>6, <1>7, <1>8 DEF TurnStep

LEMMA OtherAccounts ==
  ASSUME TypeOK,
         \/ \E c \in Commands : \/ SubmitBusy(c) \/ Post(c)
                             \/ KillAgents(c) \/ LocalJsxSubmits(c)
         \/ \E t \in Turns : DrainPlan(t)
         \/ \E e \in queue : SubagentDrain(e)
         \/ EffectReturns \/ InterruptForUrgent
         \/ CancelTurn \/ CancelPop \/ BackgroundQuery
         \/ OpenLocalJsx \/ CloseLocalJsx
  PROVE  Accounted
  <1>a. \A why \in Reasons : turn' = Aborted(controller, why) => SameCalls
    <2>1. \A why \in Reasons : \A u \in Turns :
            /\ Aborted(controller, why)[u].pc = turn[u].pc
            /\ Aborted(controller, why)[u].cmds = turn[u].cmds
      BY AbortedType DEF TypeOK
    <2>2. QED BY <2>1 DEF SameCalls, InInput
  <1>q. turn' = turn => SameCalls
    BY DEF SameCalls, InInput
  <1>r. Reasons = {"none", "user-cancel", "interrupt", "background"}
    BY DEF Reasons
  <1>e. \A entries \in SUBSET queue : CmdsOf(entries) \in SUBSET Commands
    BY DEF CmdsOf, TypeOK, Entry
  <1>p. \A c \in Commands : \A mode : \A prio :
          Stamped(c, mode, prio) \in queue' => c \in CmdsOf(queue')
    BY DEF CmdsOf, Stamped
  <1>1. ASSUME NEW c \in Commands, SubmitBusy(c) PROVE Accounted
    <2>1. SameCalls /\ sent' = sent \cup {c}
      BY <1>1, <1>a, <1>q, <1>r DEF SubmitBusy
    <2>2. CASE /\ \E prio \in Prios :
                    queue' = queue \cup {Stamped(c, Mode[c], prio)}
               /\ fate' = fate
      <3>1. c \in CmdsOf(queue') /\ \A e \in queue : e \in queue'
        BY <2>2, <1>p
      <3>2. HandsOver({})
        BY <2>1, <3>1, QueueStep
      <3>3. QED BY <2>2, <3>2, NothingMarked DEF Accounted
    <2>3. CASE fate' = Marked({c}, "parked") /\ queue' = queue
      <3>1. HandsOver({c})
        BY <2>1, <2>3, QueueStep
      <3>2. QED BY <2>3, <3>1, MarkedSo, FatesAre DEF Accounted
    <2>4. QED BY <1>1, <2>2, <2>3 DEF SubmitBusy
  <1>2. ASSUME NEW c \in Commands, Post(c) \/ LocalJsxSubmits(c)
        PROVE  Accounted
    <2>1. SameCalls /\ sent' = sent \cup {c} /\ fate' = fate
      BY <1>2, <1>q DEF Post, LocalJsxSubmits
    <2>2. c \in CmdsOf(queue') /\ \A e \in queue : e \in queue'
      BY <1>2, <1>p DEF Post, LocalJsxSubmits
    <2>3. HandsOver({})
      BY <2>1, <2>2, QueueStep
    <2>4. QED BY <2>1, <2>3, NothingMarked DEF Accounted
  <1>3. ASSUME NEW c \in Commands, KillAgents(c) PROVE Accounted
    <2>1. /\ SameCalls /\ sent' = sent \cup {c}
          /\ fate' = Marked(CmdsOf(queue), "cleared")
      BY <1>3, <1>q DEF KillAgents
    <2>2. c \in CmdsOf(queue')
      BY <1>3, <1>p DEF KillAgents
    <2>3. HandsOver(CmdsOf(queue))
      BY <2>1, <2>2, QueueStep DEF CmdsOf
    <2>4. QED BY <2>1, <2>3, <1>e, MarkedSo, FatesAre DEF Accounted
  <1>4. ASSUME NEW t \in Turns, DrainPlan(t) PROVE Accounted
    <2>1. PICK plan : turn' = [Heard("reply") EXCEPT ![t] =
                       [Heard("reply")[t] EXCEPT !.pc = "drain", !.plan = plan]]
      BY <1>4 DEF DrainPlan
    <2>2. /\ Heard("reply") \in [Turns -> TurnState]
          /\ \A u \in Turns : /\ Heard("reply")[u].pc = turn[u].pc
                              /\ Heard("reply")[u].cmds = turn[u].cmds
      BY HeardType DEF Outcomes
    <2>3. /\ turn'[t].pc = "drain" /\ turn'[t].cmds = turn[t].cmds
          /\ \A u \in Turns \ {t} : /\ turn'[u].pc = turn[u].pc
                                    /\ turn'[u].cmds = turn[u].cmds
      BY <2>1, <2>2 DEF TurnState
    <2>4. SameCalls
      BY <1>4, <2>3 DEF DrainPlan, SameCalls, InInput
    <2>5. queue' = queue /\ sent' = sent /\ fate' = fate
      BY <1>4 DEF DrainPlan
    <2>6. HandsOver({})
      BY <2>4, <2>5, QueueStep
    <2>7. QED BY <2>5, <2>6, NothingMarked DEF Accounted
  <1>5. ASSUME NEW e \in queue, NEW f \in {"model", "input"}, turn' = turn,
               queue' = queue \ {e}, fate' = Marked({e.cmd}, f), sent' = sent
        PROVE  Accounted
    <2>1. HandsOver({e.cmd})
      BY <1>5, <1>q, QueueStep
    <2>2. {e.cmd} \in SUBSET Commands
      BY DEF TypeOK, Entry
    <2>3. QED BY <1>5, <2>1, <2>2, MarkedSo, FatesAre DEF Accounted
  <1>6. ASSUME NEW e \in queue, SubagentDrain(e) PROVE Accounted
    BY <1>5, <1>6 DEF SubagentDrain
  <1>7. CASE CancelPop
    BY <1>5, <1>7 DEF CancelPop
  <1>8. CASE BackgroundQuery
    <2> DEFINE moved == {e \in queue : e.mode = "notification"}
    <2>1. /\ SameCalls /\ queue' = queue \ moved /\ sent' = sent
          /\ fate' = Marked(CmdsOf(moved), "model")
      BY <1>8, <1>a, <1>r DEF BackgroundQuery
    <2>2. HandsOver(CmdsOf(moved))
      BY <2>1, QueueStep DEF CmdsOf
    <2>3. QED BY <2>1, <2>2, <1>e, MarkedSo, FatesAre DEF Accounted
  <1>9. CASE \/ EffectReturns \/ InterruptForUrgent \/ CancelTurn
             \/ OpenLocalJsx \/ CloseLocalJsx
    <2>1. SameCalls /\ queue' = queue /\ sent' = sent /\ fate' = fate
      BY <1>9, <1>a, <1>q, <1>r DEF EffectReturns, InterruptForUrgent,
         CancelTurn, OpenLocalJsx, CloseLocalJsx
    <2>2. HandsOver({})
      BY <2>1, QueueStep
    <2>3. QED BY <2>1, <2>2, NothingMarked DEF Accounted
  <1>10. QED BY <1>1, <1>2, <1>3, <1>4, <1>6, <1>7, <1>8, <1>9

LEMMA StepAccounts == ASSUME TypeOK, [Next]_vars PROVE Accounted
  <1>1. CASE Next
    BY <1>1, StartAccounts, TurnStepAccounts, OtherAccounts
       DEF Next, Environment, Effects
  <1>2. CASE UNCHANGED vars
    <2>1. SameCalls /\ queue' = queue /\ sent' = sent /\ fate' = fate
      BY <1>2 DEF vars, SameCalls, InInput
    <2>2. HandsOver({})
      BY <2>1, QueueStep
    <2>3. QED BY <2>1, <2>2, NothingMarked DEF Accounted
  <1>3. QED BY <1>1, <1>2

(* Typed text is kept or was thrown away in one of the two named ways, for *)
(* any commands, any number of overlapping turns and of cancellations.     *)
THEOREM PromptsAreKept == Spec => []NoPromptLost
  <1>1. Init => PInv
    BY InitType, TypedAreCommands, ConstantsAssumption DEF Init, PInv
  <1>2. PInv /\ [Next]_vars => PInv'
    BY StepType, StepAccounts, AccountedKeeps, ConstantsAssumption DEF PInv
  <1>3. PInv => NoPromptLost
    <2>1. ASSUME PInv, NEW c \in TypedText \cap sent
          PROVE  "dropped" \notin fate[c] /\ (TextKept(c) \/ ThrownAway(c))
      <3>1. fate[c] \subseteq Fates
        BY <2>1, TypedAreCommands DEF PInv, TypeOK
      <3>2. QED
        BY <2>1, <3>1, FatesAre
           DEF PInv, TextKept, ThrownAway, Placed, Processed, InInput
    <2>2. QED BY <2>1 DEF NoPromptLost
  <1>4. QED BY <1>1, <1>2, <1>3, PTL DEF Spec
=============================================================================
