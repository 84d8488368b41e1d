------------------------------ MODULE ReplTurns ------------------------------
(***************************************************************************)
(* Turn scheduling in the REPL: the query guard, the unified command       *)
(* queue, the abort controller shown to ESC, and the turns themselves,     *)
(* which are asynchronous calls of executeUserInput (or onQuery) that can  *)
(* overlap because every await lets the event loop run something else.     *)
(*                                                                         *)
(* One action is one macrotask: the code between two awaits that can reach *)
(* the event loop.  The chain that follows the end of a query (end(),      *)
(* finalize, restore, the finally blocks, the halt check) only awaits      *)
(* promises that are already resolved, so it is one action.                *)
(***************************************************************************)
EXTENDS QueryGuard, FiniteSets

CONSTANTS
  Commands,     \* the commands that may be submitted or posted
  Mode,         \* Mode[c]: how a command is processed
  Meta,         \* commands posted with isMeta (hidden system prompts)
  SubagentOnly, \* commands whose agentId names a subagent
  Turns,        \* slots for overlapping executeUserInput / onQuery calls
  None,         \* setAbortController(null)
  MaxCancels    \* bound: presses of ESC that cancel a turn

(* "slash" stands for mode 'prompt' with text that starts with '/'.        *)
Modes == {"prompt", "slash", "bash", "notification"}

Now == 0
NextPrio == 1
Later == 2
Prios == {Now, NextPrio, Later}

ASSUME ConstantsAssumption ==
  /\ Mode \in [Commands -> Modes]
  /\ Meta \subseteq {c \in Commands : Mode[c] \in {"prompt", "slash"}}
  /\ SubagentOnly \subseteq {c \in Commands : Mode[c] = "notification"}
  /\ None \notin Turns
  /\ MaxCancels \in Nat

VARIABLES
  guard,      \* the QueryGuard
  queue,      \* commandQueue: entries stamped with their order of arrival
  arrivals,   \* number of pushes so far, the next stamp
  halted,     \* autoProcessingHalted
  dirty,      \* useQueueProcessor's effect is due: guard or queue notified
  urgent,     \* REPL.tsx's 'now' effect is due: the queue changed
  controller, \* the turn whose AbortController is in React state, or None
  turn,       \* what each slot is doing
  localJsx,   \* a local JSX command owns the screen
  sent,       \* commands that have entered the system
  fate,       \* fate[c]: how c has left the system so far
  cancels     \* ESC presses that cancelled a turn

vars == <<guard, queue, arrivals, halted, dirty, urgent, controller, turn,
          localJsx, sent, fate, cancels>>

Entry == [cmd : Commands, mode : Modes, prio : Prios, at : Nat]

Fates == {"model",     \* part of a query, or attached to a running one
          "local",     \* processed without a query
          "failed",    \* lost: its processing threw
          "input",     \* popped back into the prompt box
          "parked",    \* moved to AppState.parkedPrompts
          "cleared",   \* lost: thrown away by clearCommandQueue
          "dropped"}   \* filtered out by handleConcurrentReplQuery

Reasons == {"none", "user-cancel", "interrupt", "background"}

(* pc "input": awaiting processUserInput; "query": awaiting onQueryImpl;   *)
(* "drain": query() awaits getAttachmentMessages for the entries in plan.  *)
(* apiError: the last assistant message since the call began is an error.  *)
TurnState == [pc : {"free", "input", "query", "drain"},
              via : {"submit", "queue", "incoming"},
              cmds : SUBSET Commands,
              gen : Nat,
              reason : Reasons,
              plan : SUBSET Entry,
              apiError : BOOLEAN]

FreeTurn == [pc |-> "free", via |-> "submit", cmds |-> {}, gen |-> 0,
             reason |-> "none", plan |-> {}, apiError |-> FALSE]

TypeOK ==
  /\ guard \in Guard
  /\ queue \in SUBSET Entry
  /\ arrivals \in Nat
  /\ halted \in BOOLEAN
  /\ dirty \in BOOLEAN
  /\ urgent \in BOOLEAN
  /\ controller \in Turns \cup {None}
  /\ turn \in [Turns -> TurnState]
  /\ localJsx \in BOOLEAN
  /\ sent \in SUBSET Commands
  /\ fate \in [Commands -> SUBSET Fates]
  /\ cancels \in 0..MaxCancels

Init ==
  /\ guard = NewGuard
  /\ queue = {}
  /\ arrivals = 0
  /\ halted = FALSE
  /\ dirty = TRUE
  /\ urgent = FALSE
  /\ controller = None
  /\ turn = [t \in Turns |-> FreeTurn]
  /\ localJsx = FALSE
  /\ sent = {}
  /\ fate = [c \in Commands |-> {}]
  /\ cancels = 0

-----------------------------------------------------------------------------
(* The command queue (utils/messageQueueManager.ts, utils/queueProcessor.ts) *)

Fresh == Commands \ sent

(* What the keyboard can submit: prompts, slash commands and bash lines.   *)
UserCommands == {c \in Commands \ Meta : Mode[c] # "notification"}

(* Mutant: the default priority is forgotten.                              *)
StampedUnranked(c, mode, prio) ==
  [cmd |-> c, mode |-> mode, prio |-> None, at |-> arrivals]

(* enqueue() / enqueuePendingNotification(): push with a default priority. *)
Stamped(c, mode, prio) ==
  [cmd |-> c, mode |-> mode, prio |-> prio, at |-> arrivals]

CmdsOf(entries) == {e.cmd : e \in entries}

MainThread(entries) == {e \in entries : e.cmd \notin SubagentOnly}

IsEditable(e) == e.mode # "notification" /\ e.cmd \notin Meta

(* peek(): highest priority first, first come first served within one     *)
(* (the members of a requeued batch share a stamp).                        *)
Precedes(e, f) == e.prio < f.prio \/ (e.prio = f.prio /\ e.at <= f.at)
Firsts(entries) == {e \in entries : \A f \in entries : Precedes(e, f)}

(* dequeueNextExecutionBatch(isMainThread): one command at a time, except  *)
(* that notifications of the same priority go together.                    *)
SameShape(e, b) == e.mode = b.mode /\ e.prio = b.prio
BatchOf(b) == IF b.mode # "notification" THEN {b}
              ELSE {e \in MainThread(queue) : SameShape(e, b)}
NextBatches == {BatchOf(b) : b \in Firsts(MainThread(queue))} \ {{}}

(* handleConcurrentReplQuery: the visible text comes back as a prompt.     *)
(* Meta messages are filtered out, among them the body of a slash command. *)
(* Mutant: only messages without slash parsing survive, as for Filtered.   *)
RequeuedBashOnly(cs) ==
  {Stamped(c, "prompt", NextPrio) : c \in {d \in cs : Mode[d] = "bash"}}
Requeued(cs) == {Stamped(c, "prompt", NextPrio) : c \in cs \ Meta}
Filtered(cs) == {c \in cs : c \in Meta \/ Mode[c] = "slash"}

-----------------------------------------------------------------------------
(* Turns *)

FreeSlots == {t \in Turns : turn[t].pc = "free"}
Slot == CHOOSE t \in FreeSlots : TRUE

Started(pc, via, cs, gen) ==
  [FreeTurn EXCEPT !.pc = pc, !.via = via, !.cmds = cs, !.gen = gen]

(* AbortController.abort(why): only the first reason sticks.               *)
Aborted(t, why) ==
  IF t = None THEN turn
  ELSE [turn EXCEPT ![t].reason = IF @ = "none" THEN why ELSE @]

Marked(cs, f) ==
  [c \in Commands |-> IF c \in cs THEN fate[c] \cup {f} ELSE fate[c]]

(* Mutant: the guard is not subscribed to.                                 *)
NotifyQueueOnly ==
  /\ dirty' = (\/ dirty
               \/ queue' # queue
               \/ halted' # halted
               \/ localJsx' # localJsx)
  /\ urgent' = (/\ urgent \/ queue' # queue
                /\ \E e \in queue' : e.prio = Now)

(* useSyncExternalStore re-renders on a changed snapshot; the two effects  *)
(* that depend on it become due.                                           *)
Notify ==
  /\ dirty' = (\/ dirty
               \/ IsActive(guard') # IsActive(guard)
               \/ queue' # queue
               \/ halted' # halted
               \/ localJsx' # localJsx)
  /\ urgent' = (/\ urgent \/ queue' # queue
                /\ \E e \in queue' : e.prio = Now)

(* What a command may ask to run next (nextInput with submitNextInput).    *)
Chains(t) ==
  {{}} \cup IF \E c \in turn[t].cmds : Mode[c] = "slash"
            THEN {{c} : c \in Fresh \cap UserCommands} ELSE {}

(* The end of executeUserInput and of executeReplQueuedInput: the queue is *)
(* q, a superset of queue; enqueue the chained command too, then halt      *)
(* automatic processing if a queued turn's last new assistant message is   *)
(* an API error.  Every push clears autoProcessingHalted.                  *)
Leave(t, q, chained, apiError) ==
  LET pushed == q \cup {Stamped(c, Mode[c], NextPrio) : c \in chained}
  IN  /\ queue' = pushed
      /\ arrivals' = IF pushed = queue THEN arrivals ELSE arrivals + 1
      /\ sent' = sent \cup chained
      /\ halted' = (\/ turn[t].via = "queue" /\ apiError
                    \/ halted /\ pushed = queue)

FreeOf(t, tn) == [tn EXCEPT ![t] = FreeTurn]

-----------------------------------------------------------------------------
(* The user and the system submit commands *)

(* handlePromptSubmit while the guard is idle: executeUserInput up to its  *)
(* first await.  The result of reserve() is not looked at.                 *)
SubmitIdle(c) ==
  /\ c \in Fresh \cap UserCommands
  /\ ~IsActive(guard)
  /\ FreeSlots # {}
  /\ guard' = Reserve(guard)
  /\ controller' = Slot
  /\ turn' = [turn EXCEPT ![Slot] = Started("input", "submit", {c}, 0)]
  /\ halted' = FALSE
  /\ sent' = sent \cup {c}
  /\ UNCHANGED <<queue, arrivals, localJsx, fate, cancels>>
  /\ Notify

(* handlePromptSubmit while a turn is active.  hasInterruptibleToolInPro-  *)
(* gress aborts the turn first; classifyMidTurnSteering (a classifier over *)
(* the text) then picks a priority or parks the prompt.                    *)
SubmitBusy(c) ==
  /\ c \in Fresh \cap UserCommands
  /\ IsActive(guard)
  /\ \E interruptible \in BOOLEAN :
       turn' = IF interruptible THEN Aborted(controller, "interrupt") ELSE turn
  /\ sent' = sent \cup {c}
  /\ \/ /\ \E prio \in Prios : queue' = queue \cup {Stamped(c, Mode[c], prio)}
        /\ arrivals' = arrivals + 1
        /\ halted' = FALSE
        /\ UNCHANGED fate
     \/ /\ fate' = Marked({c}, "parked")
        /\ UNCHANGED <<queue, arrivals, halted>>
  /\ UNCHANGED <<guard, controller, localJsx, cancels>>
  /\ Notify

(* handleIncomingPrompt (teammate mail, task list, ticks): straight to     *)
(* onQuery, refused while a turn is active or user input is queued.        *)
IncomingPrompt(c) ==
  /\ c \in Fresh /\ Mode[c] = "prompt"
  /\ ~IsActive(guard)
  /\ \A e \in queue : e.mode = "notification"
  /\ FreeSlots # {}
  /\ guard' = TryStart(guard)
  /\ controller' = Slot
  /\ turn' = [turn EXCEPT ![Slot] =
                Started("query", "incoming", {c}, TryStart(guard).gen)]
  /\ sent' = sent \cup {c}
  /\ fate' = Marked({c}, "model")
  /\ UNCHANGED <<queue, arrivals, halted, localJsx, cancels>>
  /\ Notify

(* Task notifications, cron prompts and autowork continuations are posted  *)
(* to the queue at any time.                                               *)
Post(c) ==
  /\ c \in Fresh \ UserCommands
  /\ \E prio \in {NextPrio, Later} :
       queue' = queue \cup {Stamped(c, Mode[c], prio)}
  /\ arrivals' = arrivals + 1
  /\ halted' = FALSE
  /\ sent' = sent \cup {c}
  /\ UNCHANGED <<guard, controller, turn, localJsx, fate, cancels>>
  /\ Notify

(* useQueueProcessor's effect: dequeue, and executeUserInput up to its     *)
(* first await, in one synchronous chain.                                  *)
CanProcess == ~IsActive(guard) /\ ~localJsx /\ ~halted /\ NextBatches # {}

ProcessQueue ==
  /\ dirty
  /\ CanProcess
  /\ FreeSlots # {}
  /\ guard' = Reserve(guard)
  /\ controller' = Slot
  /\ \E batch \in NextBatches :
       /\ queue' = queue \ batch
       /\ turn' = [turn EXCEPT ![Slot] =
                     Started("input", "queue", CmdsOf(batch), 0)]
  /\ UNCHANGED <<arrivals, halted, localJsx, sent, fate, cancels>>
  /\ Notify

EffectReturns ==
  /\ dirty
  /\ ~CanProcess
  /\ dirty' = FALSE
  /\ UNCHANGED <<guard, queue, arrivals, halted, urgent, controller, turn,
                 localJsx, sent, fate, cancels>>

(* REPL.tsx: a queued 'now' command aborts whatever turn is on screen.     *)
InterruptForUrgent ==
  /\ urgent
  /\ turn' = Aborted(controller, "interrupt")
  /\ urgent' = FALSE
  /\ UNCHANGED <<guard, queue, arrivals, halted, dirty, controller,
                 localJsx, sent, fate, cancels>>

-----------------------------------------------------------------------------
(* processUserInput settles; executeUserInput goes on *)

(* Mutant: the reservation is not released when processUserInput throws.   *)
InputFailsReserved(t) ==
  /\ turn[t].pc = "input"
  /\ turn' = FreeOf(t, turn)
  /\ fate' = Marked(turn[t].cmds, "failed")
  /\ UNCHANGED <<guard, queue, arrivals, halted, controller, localJsx, sent,
                 cancels>>
  /\ Notify

(* It threw: the finally block releases "the" reservation.  The text is    *)
(* not put back anywhere.                                                  *)
InputFails(t) ==
  /\ turn[t].pc = "input"
  /\ guard' = CancelReservation(guard)
  /\ turn' = FreeOf(t, turn)
  /\ fate' = Marked(turn[t].cmds, "failed")
  /\ UNCHANGED <<queue, arrivals, halted, controller, localJsx, sent, cancels>>
  /\ Notify

(* No messages (most local slash commands): release, clear the controller. *)
(* Every way on from here takes a local JSX command off the screen.        *)
InputSilent(t) ==
  /\ turn[t].pc = "input"
  /\ guard' = CancelReservation(guard)
  /\ controller' = None
  /\ turn' = FreeOf(t, turn)
  /\ fate' = Marked(turn[t].cmds, "local")
  /\ \E chained \in Chains(t) : Leave(t, queue, chained, turn[t].apiError)
  /\ localJsx' = FALSE
  /\ UNCHANGED cancels
  /\ Notify

(* Messages but no query (bash lines, hook refusals): onQuery starts and   *)
(* ends the guard within one macrotask.                                    *)
InputLocal(t) ==
  /\ turn[t].pc = "input"
  /\ CanStart(guard)
  /\ guard' = End(TryStart(guard), TryStart(guard).gen)
  /\ controller' = None
  /\ turn' = FreeOf(t, turn)
  /\ fate' = Marked(turn[t].cmds, "local")
  /\ \E chained \in Chains(t) : Leave(t, queue, chained, turn[t].apiError)
  /\ localJsx' = FALSE
  /\ UNCHANGED cancels
  /\ Notify

(* Messages and a query: tryStart() takes the guard, also from a           *)
(* reservation that another call made.                                     *)
InputQuery(t) ==
  /\ turn[t].pc = "input"
  /\ CanStart(guard)
  /\ guard' = TryStart(guard)
  /\ turn' = [turn EXCEPT ![t] =
                [@ EXCEPT !.pc = "query", !.gen = TryStart(guard).gen]]
  /\ fate' = Marked(turn[t].cmds, "model")
  /\ localJsx' = FALSE
  /\ UNCHANGED <<queue, arrivals, halted, controller, sent, cancels>>
  /\ Notify

(* Messages, but tryStart() answers null: handleConcurrentReplQuery.       *)
InputConcurrent(t) ==
  /\ turn[t].pc = "input"
  /\ ~CanStart(guard)
  /\ guard' = CancelReservation(guard)
  /\ turn' = FreeOf(t, turn)
  /\ fate' = Marked(Filtered(turn[t].cmds), "dropped")
  /\ \E chained \in Chains(t) :
       Leave(t, queue \cup Requeued(turn[t].cmds), chained, turn[t].apiError)
  /\ localJsx' = FALSE
  /\ UNCHANGED <<controller, cancels>>
  /\ Notify

-----------------------------------------------------------------------------
(* The query runs *)

Outcomes == {"reply", "error", "silent"}

(* What the other calls see as the last new assistant message.             *)
Heard(outcome) ==
  [u \in Turns |->
     IF turn[u].pc = "free" \/ outcome = "silent" THEN turn[u]
     ELSE [turn[u] EXCEPT !.apiError = (outcome = "error")]]

(* onQueryImpl settles.  end() succeeds only for the current generation,   *)
(* and only then is the controller cleared; executeUserInput's finally     *)
(* block cancels a reservation in any case.                                *)
QueryReturns(t, outcome) ==
  /\ turn[t].pc = "query"
  /\ controller' = IF IsCurrent(guard, turn[t].gen) THEN None ELSE controller
  /\ turn' = FreeOf(t, Heard(outcome))
  /\ IF turn[t].via = "incoming"
     THEN /\ guard' = End(guard, turn[t].gen)
          /\ UNCHANGED <<queue, arrivals, halted, sent>>
     ELSE /\ guard' = CancelReservation(End(guard, turn[t].gen))
          /\ \E chained \in Chains(t) :
               Leave(t, queue, chained, Heard(outcome)[t].apiError)
  /\ UNCHANGED <<localJsx, fate, cancels>>
  /\ Notify

(* It threw: the same finally blocks, no chained command, no halt check.   *)
QueryThrows(t) ==
  /\ turn[t].pc = "query"
  /\ controller' = IF IsCurrent(guard, turn[t].gen) THEN None ELSE controller
  /\ turn' = FreeOf(t, turn)
  /\ guard' = IF turn[t].via = "incoming" THEN End(guard, turn[t].gen)
              ELSE CancelReservation(End(guard, turn[t].gen))
  /\ UNCHANGED <<queue, arrivals, halted, localJsx, sent, fate, cancels>>
  /\ Notify

(* query() reaches a step boundary, not aborted: notifications and at most *)
(* one prompt of priority 'next' or better ('later' too after a Sleep) are *)
(* to be attached; slash commands and bash lines stay queued.              *)
Attachable(slept) ==
  {e \in MainThread(queue) : /\ e.mode \in {"prompt", "notification"}
                             /\ slept \/ e.prio <= NextPrio}
Prompts(entries) == {e \in entries : e.mode = "prompt"}
AttachPlans(slept) ==
  {p \in SUBSET Attachable(slept) :
     /\ Attachable(slept) \ Prompts(Attachable(slept)) \subseteq p
     /\ \A e, f \in Prompts(p) : e = f}

DrainPlan(t) ==
  /\ turn[t].pc = "query"
  /\ turn[t].reason = "none"
  /\ \E slept \in BOOLEAN : \E p \in AttachPlans(slept) \ {{}} :
       turn' = [Heard("reply") EXCEPT ![t] =
                  [@ EXCEPT !.pc = "drain", !.plan = p]]
  /\ UNCHANGED <<guard, queue, arrivals, halted, dirty, urgent, controller,
                 localJsx, sent, fate, cancels>>

(* The attachments are out; what was planned is removed from the queue.    *)
DrainCommit(t) ==
  /\ turn[t].pc = "drain"
  /\ queue' = queue \ turn[t].plan
  /\ fate' = Marked(CmdsOf(turn[t].plan), "model")
  /\ turn' = [turn EXCEPT ![t] = [@ EXCEPT !.pc = "query", !.plan = {}]]
  /\ UNCHANGED <<guard, arrivals, halted, controller, localJsx, sent, cancels>>
  /\ Notify

-----------------------------------------------------------------------------
(* Cancelling, backgrounding, killing; local JSX; the subagents *)

(* ESC with a live abort signal on screen: cancelActiveReplRequest.        *)
CanCancel == controller # None /\ turn[controller].reason = "none"

CancelTurn ==
  /\ ~localJsx
  /\ CanCancel
  /\ cancels < MaxCancels
  /\ guard' = ForceEnd(guard)
  /\ turn' = Aborted(controller, "user-cancel")
  /\ controller' = None
  /\ cancels' = cancels + 1
  /\ UNCHANGED <<queue, arrivals, halted, localJsx, sent, fate>>
  /\ Notify

(* ESC otherwise: popNextEditable, in order of arrival.                    *)
CancelPop ==
  LET editable == {e \in queue : IsEditable(e)}
  IN  /\ ~localJsx
      /\ ~CanCancel
      /\ \E e \in editable :
           /\ \A f \in editable : e.at <= f.at
           /\ queue' = queue \ {e}
           /\ fate' = Marked({e.cmd}, "input")
      /\ UNCHANGED <<guard, arrivals, halted, controller, turn, localJsx,
                     sent, cancels>>
      /\ Notify

(* Ctrl+B: the turn's abort is up to query(); queued notifications move    *)
(* into the background session.                                            *)
BackgroundQuery ==
  LET moved == {e \in queue : e.mode = "notification"}
  IN  /\ IsActive(guard)
      /\ turn' = Aborted(controller, "background")
      /\ queue' = queue \ moved
      /\ fate' = Marked(CmdsOf(moved), "model")
      /\ UNCHANGED <<guard, arrivals, halted, controller, localJsx, sent,
                     cancels>>
      /\ Notify

(* Kill agents: clearCommandQueue, then one aggregate notification.        *)
KillAgents(c) ==
  /\ c \in Fresh \ SubagentOnly /\ Mode[c] = "notification"
  /\ queue' = {Stamped(c, "notification", Later)}
  /\ arrivals' = arrivals + 1
  /\ halted' = FALSE
  /\ sent' = sent \cup {c}
  /\ fate' = Marked(CmdsOf(queue), "cleared")
  /\ UNCHANGED <<guard, controller, turn, localJsx, cancels>>
  /\ Notify

(* An immediate local JSX command while a turn is active; it closes later. *)
OpenLocalJsx ==
  /\ IsActive(guard) /\ ~localJsx
  /\ localJsx' = TRUE
  /\ UNCHANGED <<guard, queue, arrivals, halted, controller, turn, sent, fate,
                 cancels>>
  /\ Notify

CloseLocalJsx ==
  /\ localJsx
  /\ localJsx' = FALSE
  /\ UNCHANGED <<guard, queue, arrivals, halted, controller, turn, sent, fate,
                 cancels>>
  /\ Notify

(* Its onDone may submit a next input, which is queued.                    *)
LocalJsxSubmits(c) ==
  /\ localJsx
  /\ c \in Fresh \cap UserCommands
  /\ localJsx' = FALSE
  /\ queue' = queue \cup {Stamped(c, Mode[c], NextPrio)}
  /\ arrivals' = arrivals + 1
  /\ halted' = FALSE
  /\ sent' = sent \cup {c}
  /\ UNCHANGED <<guard, controller, turn, fate, cancels>>
  /\ Notify

(* A subagent's own query() drains what is addressed to it.                *)
SubagentDrain(e) ==
  /\ e \in queue /\ e.cmd \in SubagentOnly
  /\ queue' = queue \ {e}
  /\ fate' = Marked({e.cmd}, "model")
  /\ UNCHANGED <<guard, arrivals, halted, controller, turn, localJsx, sent,
                 cancels>>
  /\ Notify

-----------------------------------------------------------------------------
TurnStep(t) ==
  \/ InputFails(t)
  \/ InputSilent(t)
  \/ InputLocal(t)
  \/ InputQuery(t)
  \/ InputConcurrent(t)
  \/ \E outcome \in Outcomes : QueryReturns(t, outcome)
  \/ QueryThrows(t)
  \/ DrainCommit(t)

Environment ==
  \/ \E c \in Commands :
       \/ SubmitIdle(c)
       \/ SubmitBusy(c)
       \/ IncomingPrompt(c)
       \/ Post(c)
       \/ KillAgents(c)
       \/ LocalJsxSubmits(c)
  \/ \E t \in Turns : DrainPlan(t)
  \/ \E e \in queue : SubagentDrain(e)
  \/ CancelTurn
  \/ CancelPop
  \/ BackgroundQuery
  \/ OpenLocalJsx

Effects == ProcessQueue \/ EffectReturns

Next ==
  \/ \E t \in Turns : TurnStep(t)
  \/ Effects
  \/ InterruptForUrgent
  \/ CloseLocalJsx
  \/ Environment

Spec == Init /\ [][Next]_vars

(* The event loop runs due effects and settled promises; processUserInput, *)
(* the provider's stream and a JSX dialog are assumed to settle.           *)
Fairness ==
  /\ \A t \in Turns : WF_vars(TurnStep(t))
  /\ WF_vars(Effects)
  /\ WF_vars(CloseLocalJsx)

FairSpec == Spec /\ Fairness

-----------------------------------------------------------------------------
(* Properties *)

InQuery(t) == turn[t].pc \in {"query", "drain"}

Holds(t) == InQuery(t) /\ turn[t].gen = guard.gen

(* Every live query has a generation of its own, none of them ahead of the *)
(* guard (QueryGuard._generation).                                         *)
GenerationsUnique ==
  /\ \A t \in Turns : InQuery(t) => turn[t].gen <= guard.gen
  /\ \A t, u \in Turns :
       InQuery(t) /\ InQuery(u) /\ turn[t].gen = turn[u].gen => t = u

(* The guard is never left active with nobody to release it: a reservation *)
(* has a call still awaiting processUserInput, a running guard has exactly *)
(* one turn whose generation is the current one (QueryGuard.end, the       *)
(* finally blocks of executeUserInput and runOuterReplQuery).              *)
GuardOwned ==
  /\ guard.status = "dispatching" => \E t \in Turns : turn[t].pc = "input"
  /\ guard.status = "running" => \E t \in Turns : Holds(t)
  /\ GenerationsUnique

(* Text typed at the prompt (not a slash command) is never lost, however   *)
(* turns overlap, but in two ways: it is queued, in the hands of a call,   *)
(* or has gone somewhere it was meant to go; else it was still queued when *)
(* the user killed the agents (clearCommandQueue) or its own processing    *)
(* threw.  It is never filtered out or overlooked on the way               *)
(* (handleConcurrentReplQuery, the mid-turn drain, ESC, Ctrl+B).           *)
TypedText == {c \in UserCommands : Mode[c] \in {"prompt", "bash"}}

TextKept(c) ==
  \/ fate[c] \cap {"model", "local", "input", "parked"} # {}
  \/ c \in CmdsOf(queue)
  \/ \E t \in Turns : turn[t].pc = "input" /\ c \in turn[t].cmds

ThrownAway(c) == fate[c] \cap {"cleared", "failed"} # {}

NoPromptLost ==
  \A c \in TypedText \cap sent :
    "dropped" \notin fate[c] /\ (TextKept(c) \/ ThrownAway(c))

(* Every main-thread command leaves the queue in the end, unless the user  *)
(* is left to resume a halted queue (useQueueProcessor re-runs on every    *)
(* guard and queue change).                                                *)
QueueDrains == MainThread(queue) # {} ~> MainThread(queue) = {} \/ halted

(* The running guard is a revocable lease at all times, and in the end it  *)
(* is given back: see TurnLease.                                           *)
Holder == IF \E t \in Turns : Holds(t) /\ guard.status = "running"
          THEN CHOOSE t \in Turns : Holds(t) ELSE None

Lease == INSTANCE TurnLease WITH holder <- Holder, epoch <- guard.gen
LeaseSpec == Lease!FairSpec

(* A turn in its query loses the guard by its own end or by ESC, never     *)
(* because a turn that was forced out earlier ends late (the generation    *)
(* check of QueryGuard.end, tryStart refusing a running guard).            *)
OnlyHolderReleases ==
  [][\A t \in Turns :
       Holder = t /\ Holder' # t => ~InQuery(t)' \/ CancelTurn]_vars

(* What the comments promise (each is refuted by a run of its own).        *)

(* handlePromptSubmit.ts:495: "queryGuard guarantees no concurrent         *)
(* executeUserInput call": no two calls, neither of them cancelled.        *)
Executing(t) == turn[t].pc # "free" /\ turn[t].via # "incoming"
NoConcurrentExecution ==
  \A t, u \in Turns :
    /\ Executing(t) /\ turn[t].reason = "none"
    /\ Executing(u) /\ turn[u].reason = "none"
    => t = u

(* useCancelRequest.ts:100: a running task comes first "so users can       *)
(* always interrupt": ESC reaches a turn that holds the guard and has not  *)
(* been told to stop.                                                      *)
CanAlwaysInterrupt ==
  \A t \in Turns : Holds(t) /\ turn[t].reason = "none" => controller = t
=============================================================================
