--------------------------- MODULE ReplTurns_proofs ---------------------------
(***************************************************************************)
(* Proofs about ReplTurns for any set of commands, any number of           *)
(* overlapping turns and any number of cancellations.                      *)
(***************************************************************************)
EXTENDS ReplTurns, TLAPS

-----------------------------------------------------------------------------
(* The operators the actions are built from *)

(* The five transitions of the guard keep it a guard (QueryGuard.ts).      *)
LEMMA GuardClosed ==
  ASSUME NEW g \in Guard, NEW k \in Nat
  PROVE  /\ Reserve(g) \in Guard
         /\ CancelReservation(g) \in Guard
         /\ TryStart(g) \in Guard
         /\ End(g, k) \in Guard
         /\ ForceEnd(g) \in Guard
  BY DEF Guard, Status, Reserve, CancelReservation, TryStart, End, IsCurrent,
         ForceEnd, IsActive

(* A new call runs in a slot that was free.                                *)
LEMMA SlotIsFree ==
  ASSUME FreeSlots # {}
  PROVE  Slot \in Turns /\ turn[Slot].pc = "free"
  BY DEF FreeSlots, Slot

(* A pushed command is an entry of the queue.                              *)
LEMMA StampedType ==
  ASSUME TypeOK, NEW c \in Commands, NEW mode \in Modes, NEW prio \in Prios
  PROVE  Stamped(c, mode, prio) \in Entry
  BY DEF TypeOK, Stamped, Entry

LEMMA StartedType ==
  ASSUME NEW pc \in {"input", "query"},
         NEW via \in {"submit", "queue", "incoming"},
         NEW cs \in SUBSET Commands, NEW k \in Nat
  PROVE  Started(pc, via, cs, k) \in TurnState
  BY DEF Started, FreeTurn, TurnState, Reasons

LEMMA FreeTurnType == FreeTurn \in TurnState
  BY DEF FreeTurn, TurnState, Reasons

(* Aborting writes only a reason, and only into the controller's turn.     *)
LEMMA AbortedType ==
  ASSUME TypeOK, NEW t \in Turns \cup {None}, NEW why \in Reasons
  PROVE  /\ Aborted(t, why) \in [Turns -> TurnState]
         /\ \A u \in Turns : /\ Aborted(t, why)[u].pc = turn[u].pc
                             /\ Aborted(t, why)[u].gen = turn[u].gen
                             /\ Aborted(t, why)[u].cmds = turn[u].cmds
  BY DEF TypeOK, Aborted, TurnState

(* Hearing a reply writes only apiError.                                   *)
LEMMA HeardType ==
  ASSUME TypeOK, NEW outcome \in Outcomes
  PROVE  /\ Heard(outcome) \in [Turns -> TurnState]
         /\ \A u \in Turns : /\ Heard(outcome)[u].pc = turn[u].pc
                             /\ Heard(outcome)[u].gen = turn[u].gen
                             /\ Heard(outcome)[u].cmds = turn[u].cmds
  <1>1. ASSUME NEW u \in Turns
        PROVE  /\ [turn[u] EXCEPT !.apiError = (outcome = "error")] \in TurnState
               /\ [turn[u] EXCEPT !.apiError = (outcome = "error")].pc = turn[u].pc
               /\ [turn[u] EXCEPT !.apiError = (outcome = "error")].gen = turn[u].gen
               /\ [turn[u] EXCEPT !.apiError = (outcome = "error")].cmds = turn[u].cmds
    BY DEF TypeOK, TurnState
  <1>2. QED BY <1>1 DEF TypeOK, Heard

(* What a turn's step writes into its record keeps the record's type.      *)
LEMMA UpdateType ==
  ASSUME NEW r \in TurnState
  PROVE  /\ \A gen \in Nat :
              [r EXCEPT !.pc = "query", !.gen = gen] \in TurnState
         /\ [r EXCEPT !.pc = "query", !.plan = {}] \in TurnState
  <1>1. ASSUME NEW gen \in Nat
        PROVE  [r EXCEPT !.pc = "query", !.gen = gen] \in TurnState
    BY DEF TurnState
  <1>2. [r EXCEPT !.pc = "query", !.plan = {}] \in TurnState
    BY DEF TurnState
  <1>3. QED BY <1>1, <1>2

LEMMA MarkedType ==
  ASSUME TypeOK, NEW cs, NEW f \in Fates
  PROVE  Marked(cs, f) \in [Commands -> SUBSET Fates]
  BY DEF TypeOK, Marked

LEMMA BatchType ==
  ASSUME TypeOK, NEW batch \in NextBatches
  PROVE  batch \subseteq queue /\ CmdsOf(batch) \subseteq Commands
  BY DEF TypeOK, NextBatches, BatchOf, Firsts, MainThread, CmdsOf, Entry

LEMMA LeaveType ==
  ASSUME TypeOK, ConstantsAssumption, NEW t \in Turns, NEW q \in SUBSET Entry,
         NEW chained \in Chains(t), NEW err \in BOOLEAN,
         Leave(t, q, chained, err)
  PROVE  /\ queue' \in SUBSET Entry
         /\ arrivals' \in Nat
         /\ sent' \in SUBSET Commands
         /\ halted' \in BOOLEAN
  <1>1. chained \subseteq Commands
    BY DEF Chains, Fresh, UserCommands
  <1>2. \A c \in chained : Stamped(c, Mode[c], NextPrio) \in Entry
    BY <1>1, StampedType, ConstantsAssumption DEF ConstantsAssumption, Prios
  <1>3. queue' \in SUBSET Entry /\ sent' \in SUBSET Commands
    BY <1>1, <1>2 DEF Leave, TypeOK
  <1>4. arrivals' \in Nat
    BY DEF Leave, TypeOK
  <1>5. halted' \in BOOLEAN
    BY DEF Leave, TypeOK
  <1>6. QED BY <1>3, <1>4, <1>5

LEMMA NotifyType ==
  ASSUME Notify PROVE dirty' \in BOOLEAN /\ urgent' \in BOOLEAN
  BY DEF Notify

-----------------------------------------------------------------------------
(* Type correctness *)

LEMMA InitType == ASSUME ConstantsAssumption, Init PROVE TypeOK
  <1>1. guard \in Guard /\ cancels \in 0..MaxCancels
    BY DEF ConstantsAssumption, Init, NewGuard, Guard, Status
  <1>2. turn \in [Turns -> TurnState] /\ fate \in [Commands -> SUBSET Fates]
    BY FreeTurnType DEF Init
  <1>3. QED BY <1>1, <1>2 DEF Init, TypeOK

(* The steps that start a call in a free slot.                             *)
LEMMA StartType ==
  ASSUME TypeOK, ConstantsAssumption,
         \/ \E c \in Commands : SubmitIdle(c) \/ IncomingPrompt(c)
         \/ ProcessQueue
  PROVE  TypeOK'
  <1>0. FreeSlots # {} /\ Slot \in Turns /\ Notify
    BY SlotIsFree DEF SubmitIdle, IncomingPrompt, ProcessQueue
  <1>g. Reserve(guard) \in Guard /\ TryStart(guard) \in Guard
    BY GuardClosed DEF TypeOK
  <1>1. ASSUME NEW c \in Commands, SubmitIdle(c) PROVE TypeOK'
    <2>1. Started("input", "submit", {c}, 0) \in TurnState
      BY StartedType
    <2>2. QED BY <1>0, <1>g, <1>1, <2>1, NotifyType DEF SubmitIdle, TypeOK
  <1>2. ASSUME NEW c \in Commands, IncomingPrompt(c) PROVE TypeOK'
    <2>1. TryStart(guard).gen \in Nat
      BY <1>g DEF Guard
    <2>2. Started("query", "incoming", {c}, TryStart(guard).gen) \in TurnState
      BY <2>1, StartedType
    <2>3. fate' \in [Commands -> SUBSET Fates]
      BY <1>2, MarkedType DEF IncomingPrompt, Fates
    <2>4. QED BY <1>0, <1>g, <1>2, <2>2, <2>3, NotifyType
              DEF IncomingPrompt, TypeOK
  <1>3. CASE ProcessQueue
    <2>1. PICK batch \in NextBatches :
            /\ queue' = queue \ batch
            /\ turn' = [turn EXCEPT ![Slot] =
                          Started("input", "queue", CmdsOf(batch), 0)]
      BY <1>3 DEF ProcessQueue
    <2>2. Started("input", "queue", CmdsOf(batch), 0) \in TurnState
      BY StartedType, BatchType
    <2>3. QED BY <1>0, <1>g, <1>3, <2>1, <2>2, NotifyType
              DEF ProcessQueue, TypeOK
  <1>4. QED BY <1>1, <1>2, <1>3

(* The steps of a running call.                                            *)
LEMMA TurnStepType ==
  ASSUME TypeOK, ConstantsAssumption, NEW t \in Turns, TurnStep(t)
  PROVE  TypeOK'
  <1>g. /\ CancelReservation(guard) \in Guard
        /\ TryStart(guard) \in Guard
        /\ TryStart(guard).gen \in Nat
        /\ End(TryStart(guard), TryStart(guard).gen) \in Guard
        /\ End(guard, turn[t].gen) \in Guard
        /\ CancelReservation(End(guard, turn[t].gen)) \in Guard
    <2>1. guard \in Guard /\ TryStart(guard) \in Guard /\ turn[t].gen \in Nat
      BY GuardClosed DEF TypeOK, TurnState
    <2>2. TryStart(guard).gen \in Nat
      BY <2>1 DEF Guard
    <2>3. End(guard, turn[t].gen) \in Guard
      BY <2>1, GuardClosed
    <2>4. QED BY <2>1, <2>2, <2>3, GuardClosed
  <1>f. /\ \A f \in Fates : \A cs : Marked(cs, f) \in [Commands -> SUBSET Fates]
        /\ "local" \in Fates /\ "failed" \in Fates
        /\ "model" \in Fates /\ "dropped" \in Fates
    BY MarkedType DEF Fates
  <1>t. FreeOf(t, turn) \in [Turns -> TurnState]
    BY FreeTurnType DEF FreeOf, TypeOK
  <1>e. turn[t].apiError \in BOOLEAN /\ turn[t].cmds \subseteq Commands
        /\ turn[t].plan \subseteq Entry
    BY DEF TypeOK, TurnState
  <1>r. turn[t] \in TurnState
    BY DEF TypeOK
  <1>1. CASE InputFails(t)
    BY <1>1, <1>g, <1>f, <1>t, NotifyType DEF InputFails, TypeOK
  <1>2. CASE InputSilent(t)
    <2>1. PICK chained \in Chains(t) :
            Leave(t, queue, chained, turn[t].apiError)
      BY <1>2 DEF InputSilent
    <2>2. /\ queue' \in SUBSET Entry /\ arrivals' \in Nat
          /\ sent' \in SUBSET Commands /\ halted' \in BOOLEAN
      BY <2>1, <1>e, LeaveType DEF TypeOK
    <2>3. QED BY <1>2, <1>g, <1>f, <1>t, <2>2, NotifyType
              DEF InputSilent, TypeOK
  <1>3. CASE InputLocal(t)
    <2>1. PICK chained \in Chains(t) :
            Leave(t, queue, chained, turn[t].apiError)
      BY <1>3 DEF InputLocal
    <2>2. /\ queue' \in SUBSET Entry /\ arrivals' \in Nat
          /\ sent' \in SUBSET Commands /\ halted' \in BOOLEAN
      BY <2>1, <1>e, LeaveType DEF TypeOK
    <2>3. QED BY <1>3, <1>g, <1>f, <1>t, <2>2, NotifyType
              DEF InputLocal, TypeOK
  <1>4. CASE InputQuery(t)
    <2>0. [turn[t] EXCEPT !.pc = "query", !.gen = TryStart(guard).gen]
            \in TurnState
      BY <1>g, <1>r, UpdateType
    <2>1. turn' \in [Turns -> TurnState]
      BY <1>4, <2>0 DEF InputQuery, TypeOK
    <2>2. QED BY <1>4, <1>g, <1>f, <2>1, NotifyType DEF InputQuery, TypeOK
  <1>5. CASE InputConcurrent(t)
    <2>0. queue \cup Requeued(turn[t].cmds) \in SUBSET Entry
      <3>1. \A c \in turn[t].cmds : Stamped(c, "prompt", NextPrio) \in Entry
        BY <1>e, StampedType DEF Modes, Prios
      <3>2. Requeued(turn[t].cmds) \subseteq Entry
        BY <3>1 DEF Requeued
      <3>3. QED BY <3>2 DEF TypeOK
    <2>1. PICK chained \in Chains(t) :
            Leave(t, queue \cup Requeued(turn[t].cmds), chained, turn[t].apiError)
      BY <1>5 DEF InputConcurrent
    <2>2. /\ queue' \in SUBSET Entry /\ arrivals' \in Nat
          /\ sent' \in SUBSET Commands /\ halted' \in BOOLEAN
      BY <2>0, <2>1, <1>e, LeaveType
    <2>3. QED BY <1>5, <1>g, <1>f, <1>t, <2>2, NotifyType
              DEF InputConcurrent, TypeOK
  <1>6. ASSUME NEW outcome \in Outcomes, QueryReturns(t, outcome) PROVE TypeOK'
    <2>1. /\ FreeOf(t, Heard(outcome)) \in [Turns -> TurnState]
          /\ Heard(outcome)[t].apiError \in BOOLEAN
      BY HeardType, FreeTurnType DEF FreeOf, TurnState
    <2>2. /\ queue' \in SUBSET Entry /\ arrivals' \in Nat
          /\ sent' \in SUBSET Commands /\ halted' \in BOOLEAN
      <3>1. CASE turn[t].via = "incoming"
        BY <1>6, <3>1 DEF QueryReturns, TypeOK
      <3>2. CASE turn[t].via # "incoming"
        <4>1. PICK chained \in Chains(t) :
                Leave(t, queue, chained, Heard(outcome)[t].apiError)
          BY <1>6, <3>2 DEF QueryReturns
        <4>2. QED BY <4>1, <2>1, LeaveType DEF TypeOK
      <3>3. QED BY <3>1, <3>2
    <2>3. guard' \in Guard
      BY <1>6, <1>g DEF QueryReturns
    <2>4. QED BY <1>6, <2>1, <2>2, <2>3, NotifyType DEF QueryReturns, TypeOK
  <1>7. CASE QueryThrows(t)
    BY <1>7, <1>g, <1>t, NotifyType DEF QueryThrows, TypeOK
  <1>8. CASE DrainCommit(t)
    <2>0. [turn[t] EXCEPT !.pc = "query", !.plan = {}] \in TurnState
      BY <1>r, UpdateType
    <2>1. turn' \in [Turns -> TurnState]
      BY <1>8, <2>0 DEF DrainCommit, TypeOK
    <2>2. QED BY <1>8, <1>f, <2>1, NotifyType DEF DrainCommit, TypeOK
  <1>9. QED BY <1>1, <1>2, <1>3, <1>4, <1>5, <1>6, <1>7, <1>8 DEF TurnStep

(* The remaining steps: posting, cancelling, draining, the effects.        *)
LEMMA OtherStepType ==
  ASSUME TypeOK, ConstantsAssumption,
         \/ \E c \in Commands : \/ SubmitBusy(c) \/ Post(c)
                             \/ KillAgents(c) \/ LocalJsxSubmits(c)
         \/ \E t \in Turns : DrainPlan(t)
         \/ \E e \in queue : SubagentDrain(e)
         \/ EffectReturns \/ InterruptForUrgent
         \/ CancelTurn \/ CancelPop \/ BackgroundQuery
         \/ OpenLocalJsx \/ CloseLocalJsx
  PROVE  TypeOK'
  <1>f. /\ \A f \in Fates : \A cs : Marked(cs, f) \in [Commands -> SUBSET Fates]
        /\ Fates = {"model", "local", "failed", "input", "parked", "cleared",
                    "dropped"}
    BY MarkedType DEF Fates
  <1>a. \A u \in Turns \cup {None} :
          \A why \in Reasons : Aborted(u, why) \in [Turns -> TurnState]
    BY AbortedType
  <1>r. controller \in Turns \cup {None}
        /\ Reasons = {"none", "user-cancel", "interrupt", "background"}
    BY DEF TypeOK, Reasons
  <1>s. \A c \in Commands : \A prio \in Prios :
          Stamped(c, Mode[c], prio) \in Entry
    BY StampedType DEF ConstantsAssumption
  <1>n. arrivals + 1 \in Nat
    BY DEF TypeOK
  <1>p. Prios = {Now, NextPrio, Later}
    BY DEF Prios
  <1>1. ASSUME NEW c \in Commands, SubmitBusy(c) PROVE TypeOK'
    <2>1. turn' \in [Turns -> TurnState]
      BY <1>1, <1>a, <1>r DEF SubmitBusy, TypeOK
    <2>2. /\ queue' \in SUBSET Entry /\ arrivals' \in Nat
          /\ halted' \in BOOLEAN /\ fate' \in [Commands -> SUBSET Fates]
      <3>1. CASE \E prio \in Prios :
                   /\ queue' = queue \cup {Stamped(c, Mode[c], prio)}
                   /\ arrivals' = arrivals + 1
                   /\ halted' = FALSE
                   /\ fate' = fate
        <4>1. queue' \in SUBSET Entry
          BY <3>1, <1>s DEF TypeOK
        <4>2. QED BY <3>1, <4>1, <1>n DEF TypeOK
      <3>2. CASE /\ fate' = Marked({c}, "parked")
                 /\ UNCHANGED <<queue, arrivals, halted>>
        BY <3>2, <1>f DEF TypeOK
      <3>3. QED BY <1>1, <3>1, <3>2 DEF SubmitBusy
    <2>3. QED BY <1>1, <2>1, <2>2, NotifyType DEF SubmitBusy, TypeOK
  <1>2. ASSUME NEW c \in Commands, Post(c) PROVE TypeOK'
    <2>1. queue' \in SUBSET Entry
      BY <1>2, <1>s, <1>p DEF Post, TypeOK
    <2>2. dirty' \in BOOLEAN /\ urgent' \in BOOLEAN
      BY <1>2, NotifyType DEF Post
    <2>3. QED BY <1>2, <2>1, <2>2, <1>n DEF Post, TypeOK
  <1>3. ASSUME NEW c \in Commands, KillAgents(c) PROVE TypeOK'
    <2>1. Stamped(c, "notification", Later) \in Entry
      BY StampedType DEF Modes, Prios
    <2>2. /\ dirty' \in BOOLEAN /\ urgent' \in BOOLEAN
          /\ fate' \in [Commands -> SUBSET Fates]
      BY <1>3, <1>f, NotifyType DEF KillAgents
    <2>3. QED BY <1>3, <2>1, <2>2, <1>n DEF KillAgents, TypeOK
  <1>4. ASSUME NEW t \in Turns, DrainPlan(t) PROVE TypeOK'
    <2>0. PICK slept \in BOOLEAN : \E plan \in AttachPlans(slept) \ {{}} :
            turn' = [Heard("reply") EXCEPT ![t] =
                       [Heard("reply")[t] EXCEPT !.pc = "drain", !.plan = plan]]
      BY <1>4 DEF DrainPlan
    <2>1. PICK plan \in AttachPlans(slept) \ {{}} :
            turn' = [Heard("reply") EXCEPT ![t] =
                       [Heard("reply")[t] EXCEPT !.pc = "drain", !.plan = plan]]
      BY <2>0
    <2>2. plan \subseteq Entry
      BY DEF AttachPlans, Attachable, MainThread, TypeOK
    <2>3. Heard("reply") \in [Turns -> TurnState]
      BY HeardType DEF Outcomes
    <2>4. [Heard("reply")[t] EXCEPT !.pc = "drain", !.plan = plan] \in TurnState
      BY <2>2, <2>3 DEF TurnState
    <2>5. turn' \in [Turns -> TurnState]
      BY <2>1, <2>3, <2>4
    <2>6. QED BY <1>4, <2>5 DEF DrainPlan, TypeOK
  <1>5. ASSUME NEW e \in queue, SubagentDrain(e) PROVE TypeOK'
    BY <1>5, <1>f, NotifyType DEF SubagentDrain, TypeOK
  <1>6. CASE EffectReturns
    BY <1>6 DEF EffectReturns, TypeOK
  <1>7. CASE InterruptForUrgent
    BY <1>7, <1>a, <1>r DEF InterruptForUrgent, TypeOK
  <1>8. CASE CancelTurn
    <2>1. guard' \in Guard
      BY <1>8, GuardClosed DEF CancelTurn, TypeOK
    <2>2. cancels' \in 0..MaxCancels
      BY <1>8 DEF CancelTurn, TypeOK, ConstantsAssumption
    <2>3. QED BY <1>8, <1>a, <1>r, <2>1, <2>2, NotifyType
              DEF CancelTurn, TypeOK
  <1>9. CASE CancelPop
    BY <1>9, <1>f, NotifyType DEF CancelPop, TypeOK
  <1>10. CASE BackgroundQuery
    BY <1>10, <1>a, <1>f, <1>r, NotifyType DEF BackgroundQuery, TypeOK
  <1>11. CASE OpenLocalJsx
    BY <1>11, NotifyType DEF OpenLocalJsx, TypeOK
  <1>12. CASE CloseLocalJsx
    BY <1>12, NotifyType DEF CloseLocalJsx, TypeOK
  <1>13. ASSUME NEW c \in Commands, LocalJsxSubmits(c) PROVE TypeOK'
    <2>1. queue' \in SUBSET Entry
      BY <1>13, <1>s, <1>p DEF LocalJsxSubmits, TypeOK
    <2>2. dirty' \in BOOLEAN /\ urgent' \in BOOLEAN
      BY <1>13, NotifyType DEF LocalJsxSubmits
    <2>3. QED BY <1>13, <2>1, <2>2, <1>n DEF LocalJsxSubmits, TypeOK
  <1>14. QED BY <1>1, <1>2, <1>3, <1>4, <1>5, <1>6, <1>7, <1>8, <1>9, <1>10,
                <1>11, <1>12, <1>13

LEMMA StepType ==
  ASSUME TypeOK, ConstantsAssumption, [Next]_vars PROVE TypeOK'
  <1>1. CASE Next
    BY <1>1, StartType, TurnStepType, OtherStepType
       DEF Next, Environment, Effects
  <1>2. CASE UNCHANGED vars
    BY <1>2 DEF vars, TypeOK
  <1>3. QED BY <1>1, <1>2

(* Every state the REPL reaches is well typed.                             *)
THEOREM TypeCorrect == Spec => []TypeOK
  <1>1. Init => TypeOK
    BY InitType, ConstantsAssumption
  <1>2. TypeOK /\ [Next]_vars => TypeOK'
    BY StepType, ConstantsAssumption
  <1>3. QED BY <1>1, <1>2, PTL DEF Spec

-----------------------------------------------------------------------------
(* The guard and its owners.  Every step has one of six effects on the     *)
(* guard and on who is awaiting what.                                      *)

IInv == TypeOK /\ GuardOwned

InInput(t) == turn[t].pc = "input"

Untouched(t) == /\ (InQuery(t)' <=> InQuery(t))
                /\ (InInput(t)' <=> InInput(t))
                /\ turn'[t].gen = turn[t].gen

AllBut(t) == \A u \in Turns \ {t} : Untouched(u)

Quiet == guard' = guard /\ \A u \in Turns : Untouched(u)

Reserves(t) == /\ ~IsActive(guard) /\ guard' = Reserve(guard)
               /\ ~InQuery(t) /\ InInput(t)' /\ ~InQuery(t)' /\ AllBut(t)

Starts(t) == /\ CanStart(guard) /\ guard' = TryStart(guard)
             /\ ~InQuery(t) /\ InQuery(t)' /\ ~InInput(t)' /\ AllBut(t)
             /\ turn'[t].gen = TryStart(guard).gen

GivesUp(t) == /\ \/ guard' = CancelReservation(guard)
                 \/ /\ CanStart(guard)
                    /\ guard' = End(TryStart(guard), TryStart(guard).gen)
              /\ InInput(t) /\ ~InQuery(t)
              /\ ~InQuery(t)' /\ ~InInput(t)' /\ AllBut(t)

Ends(t) == /\ \/ guard' = End(guard, turn[t].gen)
              \/ guard' = CancelReservation(End(guard, turn[t].gen))
           /\ InQuery(t) /\ ~InInput(t)
           /\ ~InQuery(t)' /\ ~InInput(t)' /\ AllBut(t)

ForceEnds == /\ CancelTurn /\ guard' = ForceEnd(guard)
             /\ \A u \in Turns : Untouched(u)

Effect == \/ Quiet
          \/ ForceEnds
          \/ \E t \in Turns : Reserves(t) \/ Starts(t) \/ GivesUp(t) \/ Ends(t)

LEMMA TurnStepEffect ==
  ASSUME TypeOK, NEW t \in Turns, TurnStep(t) PROVE Effect
  <1>f. ASSUME NEW tn, tn \in [Turns -> TurnState], turn' = FreeOf(t, tn),
               \A u \in Turns : tn[u].pc = turn[u].pc /\ tn[u].gen = turn[u].gen
        PROVE  ~InQuery(t)' /\ ~InInput(t)' /\ AllBut(t)
    BY <1>f DEF FreeOf, FreeTurn, InQuery, InInput, AllBut, Untouched
  <1>t. turn \in [Turns -> TurnState]
    BY DEF TypeOK
  <1>1. ASSUME InputFails(t) \/ InputSilent(t) \/ InputConcurrent(t)
        PROVE  GivesUp(t)
    <2>1. /\ turn[t].pc = "input" /\ turn' = FreeOf(t, turn)
          /\ guard' = CancelReservation(guard)
      BY <1>1 DEF InputFails, InputSilent, InputConcurrent
    <2>2. QED BY <2>1, <1>f, <1>t DEF GivesUp, InInput, InQuery
  <1>2. ASSUME InputLocal(t) PROVE GivesUp(t)
    <2>1. /\ turn[t].pc = "input" /\ turn' = FreeOf(t, turn)
          /\ CanStart(guard)
          /\ guard' = End(TryStart(guard), TryStart(guard).gen)
      BY <1>2 DEF InputLocal
    <2>2. QED BY <2>1, <1>f, <1>t DEF GivesUp, InInput, InQuery
  <1>3. ASSUME InputQuery(t) PROVE Starts(t)
    <2>1. /\ turn'[t].pc = "query" /\ turn'[t].gen = TryStart(guard).gen
          /\ \A u \in Turns \ {t} : turn'[u] = turn[u]
      BY <1>3, <1>t DEF InputQuery, TurnState
    <2>2. QED BY <1>3, <2>1
              DEF InputQuery, Starts, AllBut, Untouched, InInput, InQuery
  <1>4. ASSUME NEW outcome \in Outcomes, QueryReturns(t, outcome) PROVE Ends(t)
    <2>1. /\ turn[t].pc = "query" /\ turn' = FreeOf(t, Heard(outcome))
          /\ \/ guard' = End(guard, turn[t].gen)
             \/ guard' = CancelReservation(End(guard, turn[t].gen))
      BY <1>4 DEF QueryReturns
    <2>2. QED BY <2>1, <1>f, HeardType DEF Ends, InInput, InQuery
  <1>5. ASSUME QueryThrows(t) PROVE Ends(t)
    <2>1. /\ turn[t].pc = "query" /\ turn' = FreeOf(t, turn)
          /\ \/ guard' = End(guard, turn[t].gen)
             \/ guard' = CancelReservation(End(guard, turn[t].gen))
      BY <1>5 DEF QueryThrows
    <2>2. QED BY <2>1, <1>f, <1>t DEF Ends, InInput, InQuery
  <1>6. ASSUME DrainCommit(t) PROVE Quiet
    <2>1. /\ turn'[t].pc = "query" /\ turn'[t].gen = turn[t].gen
          /\ \A u \in Turns \ {t} : turn'[u] = turn[u]
      BY <1>6, <1>t DEF DrainCommit, TurnState
    <2>2. QED BY <1>6, <2>1
              DEF DrainCommit, Quiet, Untouched, InInput, InQuery
  <1>7. QED BY <1>1, <1>2, <1>3, <1>4, <1>5, <1>6 DEF TurnStep, Effect

LEMMA StartEffect ==
  ASSUME TypeOK,
         \/ \E c \in Commands : SubmitIdle(c) \/ IncomingPrompt(c)
         \/ ProcessQueue
  PROVE  Effect
  <1>0. PICK s \in Turns : s = Slot /\ turn[s].pc = "free"
    BY SlotIsFree DEF SubmitIdle, IncomingPrompt, ProcessQueue
  <1>t. turn \in [Turns -> TurnState]
    BY DEF TypeOK
  <1>1. ASSUME NEW via, NEW cs, ~IsActive(guard), guard' = Reserve(guard),
               turn' = [turn EXCEPT ![s] = Started("input", via, cs, 0)]
        PROVE  Reserves(s)
    <2>1. /\ turn'[s].pc = "input"
          /\ \A u \in Turns \ {s} : turn'[u] = turn[u]
      BY <1>0, <1>1, <1>t DEF Started, FreeTurn
    <2>2. QED BY <1>0, <1>1, <2>1
              DEF Reserves, AllBut, Untouched, InInput, InQuery
  <1>2. ASSUME NEW c \in Commands, IncomingPrompt(c) PROVE Starts(s)
    <2>1. /\ turn'[s].pc = "query"
          /\ turn'[s].gen = TryStart(guard).gen
          /\ \A u \in Turns \ {s} : turn'[u] = turn[u]
      BY <1>0, <1>2, <1>t DEF IncomingPrompt, Started, FreeTurn
    <2>2. CanStart(guard) /\ guard' = TryStart(guard)
      BY <1>2 DEF IncomingPrompt, CanStart, IsActive
    <2>3. QED BY <1>0, <2>1, <2>2
              DEF Starts, AllBut, Untouched, InInput, InQuery
  <1>3. ASSUME NEW c \in Commands, SubmitIdle(c) PROVE Reserves(s)
    BY <1>0, <1>1, <1>3 DEF SubmitIdle
  <1>4. ASSUME ProcessQueue PROVE Reserves(s)
    BY <1>0, <1>1, <1>4 DEF ProcessQueue, CanProcess
  <1>5. QED BY <1>2, <1>3, <1>4 DEF Effect

LEMMA OtherEffect ==
  ASSUME TypeOK,
         \/ \E c \in Commands : \/ SubmitBusy(c) \/ Post(c)
                             \/ KillAgents(c) \/ LocalJsxSubmits(c)
         \/ \E t \in Turns : DrainPlan(t)
         \/ \E e \in queue : SubagentDrain(e)
         \/ EffectReturns \/ InterruptForUrgent
         \/ CancelTurn \/ CancelPop \/ BackgroundQuery
         \/ OpenLocalJsx \/ CloseLocalJsx
  PROVE  Effect
  <1>a. \A why \in Reasons : turn' = Aborted(controller, why)
          => \A u \in Turns : Untouched(u)
    <2>1. \A why \in Reasons : \A u \in Turns :
            /\ Aborted(controller, why)[u].pc = turn[u].pc
            /\ Aborted(controller, why)[u].gen = turn[u].gen
      BY AbortedType DEF TypeOK
    <2>2. QED BY <2>1 DEF Untouched, InQuery, InInput
  <1>q. turn' = turn => \A u \in Turns : Untouched(u)
    BY DEF Untouched, InQuery, InInput
  <1>r. Reasons = {"none", "user-cancel", "interrupt", "background"}
    BY DEF Reasons
  <1>1. ASSUME NEW c \in Commands, SubmitBusy(c) PROVE Quiet
    BY <1>1, <1>a, <1>q, <1>r DEF SubmitBusy, Quiet
  <1>2. ASSUME NEW t \in Turns, DrainPlan(t) PROVE Quiet
    <2>1. PICK plan : turn' = [Heard("reply") EXCEPT ![t] =
                       [Heard("reply")[t] EXCEPT !.pc = "drain", !.plan = plan]]
      BY <1>2 DEF DrainPlan
    <2>2. /\ Heard("reply") \in [Turns -> TurnState]
          /\ \A u \in Turns : /\ Heard("reply")[u].pc = turn[u].pc
                              /\ Heard("reply")[u].gen = turn[u].gen
      BY HeardType DEF Outcomes
    <2>3. /\ turn'[t].pc = "drain" /\ turn'[t].gen = turn[t].gen
          /\ \A u \in Turns \ {t} : /\ turn'[u].pc = turn[u].pc
                                    /\ turn'[u].gen = turn[u].gen
      BY <2>1, <2>2 DEF TurnState
    <2>4. QED BY <1>2, <2>3 DEF DrainPlan, Quiet, Untouched, InQuery, InInput
  <1>3. CASE CancelTurn
    BY <1>3, <1>a, <1>r DEF CancelTurn, ForceEnds, Effect
  <1>4. CASE BackgroundQuery
    BY <1>4, <1>a, <1>r DEF BackgroundQuery, Quiet, Effect
  <1>5. CASE InterruptForUrgent
    BY <1>5, <1>a, <1>r DEF InterruptForUrgent, Quiet, Effect
  <1>6. ASSUME \/ \E c \in Commands : Post(c) \/ KillAgents(c) \/ LocalJsxSubmits(c)
               \/ \E e \in queue : SubagentDrain(e)
               \/ EffectReturns \/ CancelPop
               \/ OpenLocalJsx \/ CloseLocalJsx
        PROVE  Quiet
    BY <1>6, <1>q DEF Post, KillAgents, SubagentDrain, EffectReturns, CancelPop,
                      OpenLocalJsx, CloseLocalJsx, LocalJsxSubmits, Quiet
  <1>7. QED BY <1>1, <1>2, <1>3, <1>4, <1>5, <1>6 DEF Effect

LEMMA StepEffect == ASSUME TypeOK, [Next]_vars PROVE Effect
  <1>1. CASE Next
    BY <1>1, StartEffect, TurnStepEffect, OtherEffect
       DEF Next, Environment, Effects
  <1>2. CASE UNCHANGED vars
    BY <1>2 DEF vars, Effect, Quiet, Untouched, InQuery, InInput
  <1>3. QED BY <1>1, <1>2

(* What each effect means for the owners of the guard.                     *)
LEMMA OwnersKept ==
  ASSUME IInv, TypeOK', Effect PROVE GuardOwned'
  <1>g. /\ guard \in Guard /\ guard' \in Guard
        /\ \A u \in Turns : turn[u].gen \in Nat /\ turn'[u].gen \in Nat
    BY DEF IInv, TypeOK, TurnState
  <1>i. /\ guard.status = "dispatching" => \E t \in Turns : InInput(t)
        /\ guard.status = "running"
             => \E t \in Turns : InQuery(t) /\ turn[t].gen = guard.gen
        /\ \A t \in Turns : InQuery(t) => turn[t].gen <= guard.gen
        /\ \A t, u \in Turns :
             InQuery(t) /\ InQuery(u) /\ turn[t].gen = turn[u].gen => t = u
    BY DEF IInv, GuardOwned, GenerationsUnique, Holds, InInput
  <1> DEFINE
        Reserved == guard'.status = "dispatching" => \E t \in Turns : InInput(t)'
        Held == guard'.status = "running"
                  => \E t \in Turns : InQuery(t)' /\ turn'[t].gen = guard'.gen
        Behind == \A t \in Turns : InQuery(t)' => turn'[t].gen <= guard'.gen
        Distinct == \A t, u \in Turns :
                      InQuery(t)' /\ InQuery(u)' /\ turn'[t].gen = turn'[u].gen
                        => t = u
        Kept == Reserved /\ Held /\ Behind /\ Distinct
  <1>s. Kept => GuardOwned'
    BY DEF GuardOwned, GenerationsUnique, Holds, InInput
  <1>1. CASE Quiet
    BY <1>1, <1>i, <1>s DEF Quiet, Untouched
  <1>2. CASE ForceEnds
    BY <1>2, <1>g, <1>i, <1>s DEF ForceEnds, ForceEnd, IsActive, Guard, Untouched
  <1>3. ASSUME NEW s \in Turns, Reserves(s) PROVE Kept
    BY <1>3, <1>g, <1>i DEF Reserves, Reserve, IsActive, Guard, AllBut, Untouched
  <1>4. ASSUME NEW s \in Turns, Starts(s) PROVE Kept
    <2>1. /\ guard' = [status |-> "running", gen |-> guard.gen + 1]
          /\ turn'[s].gen = guard.gen + 1
      BY <1>4 DEF Starts, TryStart
    <2>2. \A u \in Turns \ {s} : InQuery(u)' => turn'[u].gen <= guard.gen
      BY <1>4, <1>i DEF Starts, AllBut, Untouched
    <2>3. Behind
      BY <2>1, <2>2, <1>g DEF Guard
    <2>4. Distinct
      <3>1. SUFFICES ASSUME NEW t \in Turns, NEW u \in Turns, t # u,
                            InQuery(t)', InQuery(u)',
                            turn'[t].gen = turn'[u].gen
                     PROVE  FALSE
        OBVIOUS
      <3>2. t # s /\ u # s
        BY <2>1, <2>2, <3>1, <1>g DEF Guard
      <3>3. QED BY <3>1, <3>2, <1>4, <1>i DEF Starts, AllBut, Untouched
    <2>5. QED BY <2>1, <2>3, <2>4, <1>4 DEF Starts
  <1>5. ASSUME NEW s \in Turns, GivesUp(s) PROVE Kept
    <2>1. \A u \in Turns : /\ InQuery(u)' <=> InQuery(u)
                           /\ InQuery(u) => turn'[u].gen = turn[u].gen
      BY <1>5 DEF GivesUp, AllBut, Untouched
    <2>2. CASE guard' = CancelReservation(guard)
      <3>1. guard'.gen = guard.gen /\ guard'.status # "dispatching"
            /\ (guard'.status = "running" => guard.status = "running")
        BY <2>2, <1>g DEF CancelReservation, Guard, Status
      <3>2. QED BY <2>1, <3>1, <1>i
    <2>3. CASE guard' = End(TryStart(guard), TryStart(guard).gen)
      <3>1. guard' = [status |-> "idle", gen |-> guard.gen + 1]
        BY <2>3, <1>g DEF End, TryStart, IsCurrent, Guard
      <3>2. Behind
        BY <2>1, <3>1, <1>g, <1>i DEF Guard
      <3>3. QED BY <2>1, <3>1, <3>2, <1>i
    <2>4. QED BY <1>5, <2>2, <2>3 DEF GivesUp
  <1>6. ASSUME NEW s \in Turns, Ends(s) PROVE Kept
    <2>1. \A u \in Turns \ {s} : /\ InQuery(u)' <=> InQuery(u)
                                 /\ InInput(u)' <=> InInput(u)
                                 /\ turn'[u].gen = turn[u].gen
      BY <1>6 DEF Ends, AllBut, Untouched
    <2>2. ~InQuery(s)' /\ InQuery(s) /\ ~InInput(s)
      BY <1>6 DEF Ends
    <2>3. /\ guard'.gen = guard.gen
          /\ guard'.status = "dispatching" => guard.status = "dispatching"
          /\ guard'.status = "running"
               => guard.status = "running" /\ turn[s].gen # guard.gen
      BY <1>6, <1>g DEF Ends, End, CancelReservation, IsCurrent, Guard
    <2>4. QED BY <2>1, <2>2, <2>3, <1>i
  <1>7. QED BY <1>1, <1>2, <1>3, <1>4, <1>5, <1>6, <1>s DEF Effect

LEMMA IInvInit == ASSUME ConstantsAssumption, Init PROVE IInv
  <1>1. TypeOK
    BY InitType
  <1>2. \A t \in Turns : ~InQuery(t)
    BY DEF Init, InQuery, FreeTurn
  <1>3. guard.status = "idle"
    BY DEF Init, NewGuard
  <1>4. QED BY <1>1, <1>2, <1>3 DEF IInv, GuardOwned, GenerationsUnique, Holds

LEMMA IInvStep ==
  ASSUME ConstantsAssumption, IInv, [Next]_vars PROVE IInv'
  <1>1. TypeOK'
    BY StepType DEF IInv
  <1>2. Effect
    BY StepEffect DEF IInv
  <1>3. QED BY <1>1, <1>2, OwnersKept DEF IInv

LEMMA IInvAlways == Spec => []IInv
  <1>1. Init => IInv
    BY IInvInit, ConstantsAssumption
  <1>2. IInv /\ [Next]_vars => IInv'
    BY IInvStep, ConstantsAssumption
  <1>3. QED BY <1>1, <1>2, PTL DEF Spec

(* Nobody leaves the guard active behind: QueryGuard never gets stuck.     *)
THEOREM GuardAlwaysOwned == Spec => []GuardOwned
  <1>1. IInv => GuardOwned
    BY DEF IInv
  <1>2. QED BY <1>1, IInvAlways, PTL

-----------------------------------------------------------------------------
(* The guard implements the lease of TurnLease                             *)

(* The holder is the turn whose generation a running guard carries.        *)
LEMMA HolderIs ==
  ASSUME GuardOwned
  PROVE  /\ guard.status # "running" => Holder = None
         /\ guard.status = "running" => Holder \in Turns /\ Holds(Holder)
         /\ \A t \in Turns : Holds(t) /\ guard.status = "running" => Holder = t
  BY DEF GuardOwned, Holder

LEMMA NextHolderIs ==
  ASSUME GuardOwned'
  PROVE  /\ guard'.status # "running" => Holder' = None
         /\ guard'.status = "running" => \E t \in Turns : Holds(t)'
         /\ \A t \in Turns : Holds(t)' /\ guard'.status = "running" => Holder' = t
  BY DEF GuardOwned, Holder

(* Each effect on the guard is a step of the lease, or none.               *)
LEMMA EffectIsLease ==
  ASSUME ConstantsAssumption, IInv, IInv', Effect
  PROVE  [Lease!Next]_<<Holder, guard.gen>>
  <1>g. guard \in Guard /\ guard' \in Guard
    BY DEF IInv, TypeOK
  <1>h. /\ guard.status # "running" => Holder = None
        /\ guard.status = "running" => Holder \in Turns /\ Holds(Holder)
        /\ \A t \in Turns : Holds(t) /\ guard.status = "running" => Holder = t
    BY HolderIs DEF IInv
  <1>n. /\ guard'.status # "running" => Holder' = None
        /\ guard'.status = "running" => \E t \in Turns : Holds(t)'
        /\ \A t \in Turns : Holds(t)' /\ guard'.status = "running" => Holder' = t
    BY NextHolderIs DEF IInv
  <1>k. None \notin Turns
    BY DEF ConstantsAssumption
  <1>same. ASSUME guard'.gen = guard.gen,
                  guard'.status = "running" <=> guard.status = "running",
                  \A u \in Turns : Holds(u) /\ guard.status = "running" => Holds(u)'
           PROVE  Holder' = Holder
    BY <1>same, <1>h, <1>n
  <1>1. CASE Quiet
    <2>1. \A u \in Turns : Holds(u) => Holds(u)'
      BY <1>1 DEF Quiet, Untouched, Holds
    <2>2. QED BY <1>1, <2>1, <1>same DEF Quiet
  <1>2. CASE ForceEnds
    <2>1. CASE ~IsActive(guard)
      <3>1. guard' = guard /\ guard.status # "running"
        BY <1>2, <2>1 DEF ForceEnds, ForceEnd, IsActive
      <3>2. QED BY <3>1, <1>same
    <2>2. CASE IsActive(guard)
      <3>1. guard'.status = "idle" /\ guard'.gen = guard.gen + 1
        BY <1>2, <2>2 DEF ForceEnds, ForceEnd
      <3>2. QED BY <3>1, <1>n DEF Lease!Next, Lease!Revoke
    <2>3. QED BY <2>1, <2>2
  <1>3. ASSUME NEW s \in Turns, Reserves(s)
        PROVE  Holder' = Holder /\ guard'.gen = guard.gen
    <2>1. /\ guard.status # "running" /\ guard'.status # "running"
          /\ guard'.gen = guard.gen
      BY <1>3, <1>g DEF Reserves, Reserve, IsActive, Guard
    <2>2. QED BY <2>1, <1>same
  <1>4. ASSUME NEW s \in Turns, Starts(s) PROVE Lease!Next
    <2>1. /\ guard.status # "running" /\ guard'.status = "running"
          /\ guard'.gen = guard.gen + 1 /\ Holds(s)'
      BY <1>4 DEF Starts, CanStart, TryStart, Holds
    <2>2. QED BY <2>1, <1>h, <1>n DEF Lease!Next, Lease!Take
  <1>5. ASSUME NEW s \in Turns, GivesUp(s)
        PROVE  [Lease!Next]_<<Holder, guard.gen>>
    <2>1. \A u \in Turns : InQuery(u) => InQuery(u)' /\ turn'[u].gen = turn[u].gen
      BY <1>5 DEF GivesUp, AllBut, Untouched
    <2>2. CASE guard' = CancelReservation(guard)
      <3>1. /\ guard'.gen = guard.gen
            /\ guard'.status = "running" <=> guard.status = "running"
        BY <2>2, <1>g DEF CancelReservation, Guard, Status
      <3>2. \A u \in Turns : Holds(u) => Holds(u)'
        BY <2>1, <3>1 DEF Holds
      <3>3. QED BY <3>1, <3>2, <1>same
    <2>3. CASE CanStart(guard) /\ guard' = End(TryStart(guard), TryStart(guard).gen)
      <3>1. guard.status # "running"
            /\ guard'.status = "idle" /\ guard'.gen = guard.gen + 1
        BY <2>3, <1>g DEF CanStart, End, TryStart, IsCurrent, Guard
      <3>2. QED BY <3>1, <1>h, <1>n DEF Lease!Next, Lease!Pass, Lease!Revoke
    <2>4. QED BY <1>5, <2>2, <2>3 DEF GivesUp
  <1>6. ASSUME NEW s \in Turns, Ends(s)
        PROVE  [Lease!Next]_<<Holder, guard.gen>>
    <2>1. CASE IsCurrent(guard, turn[s].gen)
      <3>1. /\ guard.status = "running" /\ guard'.status = "idle"
            /\ guard'.gen = guard.gen
        BY <1>6, <2>1, <1>g DEF Ends, End, CancelReservation, IsCurrent, Guard
      <3>2. QED BY <3>1, <1>h, <1>n, <1>k DEF Lease!Next, Lease!GiveBack
    <2>2. CASE ~IsCurrent(guard, turn[s].gen)
      <3>1. /\ guard'.gen = guard.gen
            /\ guard'.status = "running" <=> guard.status = "running"
        BY <1>6, <2>2, <1>g
           DEF Ends, End, CancelReservation, IsCurrent, Guard, Status
      <3>2. ASSUME NEW u \in Turns, Holds(u), guard.status = "running"
            PROVE  Holds(u)'
        <4>1. u # s
          BY <2>2, <3>2 DEF Holds, IsCurrent
        <4>2. InQuery(u)' /\ turn'[u].gen = turn[u].gen
          BY <1>6, <3>2, <4>1 DEF Ends, AllBut, Untouched, Holds
        <4>3. QED BY <3>1, <3>2, <4>2 DEF Holds
      <3>3. QED BY <3>1, <3>2, <1>same
    <2>3. QED BY <2>1, <2>2
  <1>7. QED BY <1>1, <1>2, <1>3, <1>4, <1>5, <1>6, <1>same DEF Effect, Quiet

(* The REPL implements the revocable lease: at most one turn holds the     *)
(* guard, it is never passed on directly, and a revoked holder cannot give *)
(* it back.                                                                *)
THEOREM ImplementsLease == Spec => Lease!Spec
  <1>1. Init => Lease!Init
    <2>1. SUFFICES ASSUME Init PROVE Holder = None /\ guard.gen = 0
      BY DEF Lease!Init
    <2>2. QED BY <2>1, IInvInit, HolderIs, ConstantsAssumption
              DEF Init, NewGuard, IInv
  <1>2. IInv /\ IInv' /\ [Next]_vars => [Lease!Next]_Lease!lease
    <2>1. SUFFICES ASSUME IInv, IInv', [Next]_vars
                   PROVE  [Lease!Next]_<<Holder, guard.gen>>
      BY DEF Lease!lease
    <2>2. Effect
      BY <2>1, StepEffect DEF IInv
    <2>3. QED BY <2>1, <2>2, EffectIsLease, ConstantsAssumption
  <1>3. QED BY <1>1, <1>2, IInvAlways, PTL DEF Spec, Lease!Spec

(* A late end of a forced-out turn never takes the guard from the turn     *)
(* that holds it now.                                                      *)
THEOREM HolderKeepsGuard == Spec => OnlyHolderReleases
  <1> DEFINE Keeps == \A t \in Turns :
                        Holder = t /\ Holder' # t => ~InQuery(t)' \/ CancelTurn
  <1>1. ASSUME IInv, IInv', [Next]_vars PROVE Keeps
    <2>1. SUFFICES ASSUME NEW t \in Turns, Holder = t, Holder' # t, InQuery(t)',
                          ~CancelTurn
                   PROVE  FALSE
      OBVIOUS
    <2>2. guard.status = "running" /\ Holds(t)
      BY <1>1, <2>1, HolderIs, ConstantsAssumption DEF IInv, ConstantsAssumption
    <2>3. guard'.status # "running" \/ ~Holds(t)'
      BY <1>1, <2>1, NextHolderIs DEF IInv
    <2>4. Effect
      BY <1>1, StepEffect DEF IInv
    <2>g. guard \in Guard
      BY <1>1 DEF IInv, TypeOK
    <2>5. CASE Quiet
      BY <2>2, <2>3, <2>5 DEF Quiet, Untouched, Holds
    <2>6. CASE ForceEnds
      BY <2>1, <2>6 DEF ForceEnds
    <2>7. ASSUME NEW s \in Turns, Reserves(s) \/ Starts(s) PROVE FALSE
      BY <2>2, <2>7 DEF Reserves, Starts, CanStart, IsActive
    <2>8. ASSUME NEW s \in Turns, GivesUp(s) PROVE FALSE
      <3>1. guard' = guard /\ t # s
        BY <2>2, <2>8 DEF GivesUp, CancelReservation, CanStart, Holds
      <3>2. QED BY <2>2, <2>3, <2>8, <3>1
                DEF GivesUp, AllBut, Untouched, Holds
    <2>9. ASSUME NEW s \in Turns, Ends(s) PROVE FALSE
      <3>1. t # s
        BY <2>1, <2>9 DEF Ends
      <3>2. turn[s].gen # guard.gen
        BY <1>1, <2>2, <2>9, <3>1
           DEF IInv, GuardOwned, GenerationsUnique, Ends, Holds
      <3>3. guard' = guard
        BY <2>2, <2>9, <3>2 DEF Ends, End, IsCurrent, CancelReservation
      <3>4. QED BY <2>2, <2>3, <2>9, <3>1, <3>3
                DEF Ends, AllBut, Untouched, Holds
    <2>10. QED BY <2>4, <2>5, <2>6, <2>7, <2>8, <2>9 DEF Effect
  <1>2. IInv /\ IInv' /\ [Next]_vars => [Keeps]_vars
    BY <1>1
  <1>3. QED BY <1>2, IInvAlways, PTL DEF Spec, OnlyHolderReleases
=============================================================================
