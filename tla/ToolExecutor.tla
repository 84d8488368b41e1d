---------------------------- MODULE ToolExecutor ----------------------------
(***************************************************************************)
(* services/tools/StreamingToolExecutor.ts with the loop of query.ts that  *)
(* drives it: tool calls are added while the model's answer streams in,    *)
(* run under concurrency control, and have their results collected.  A     *)
(* streaming fallback discards the executor and goes on with a new one.    *)
(*                                                                         *)
(* Actions are what runs between two awaits.  Microtasks (processQueue     *)
(* starting tools, an iteration of getRemainingResults) come before the    *)
(* next event of the event loop (stream, user, the end of a tool).         *)
(***************************************************************************)
EXTENDS Naturals, Sequences

CONSTANTS
  Kinds,        \* the kinds of tool call the model makes
  MaxTools,     \* bound: tool calls in one turn
  MaxExecutors  \* bound: 1 + streaming fallbacks

(* known: the tool exists; safe: isConcurrencySafe for its input; bash: an *)
(* error of it cancels the siblings; cancel: interruptBehavior.            *)
KindType == [known : BOOLEAN, safe : BOOLEAN, bash : BOOLEAN, cancel : BOOLEAN]

ASSUME ToolConstants ==
  /\ Kinds \subseteq KindType
  /\ MaxTools \in Nat
  /\ MaxExecutors \in Nat \ {0}

VARIABLES
  tools,         \* the tracked tools of all executors, in order of arrival
  executor,      \* the current executor; those before it are discarded
  errored,       \* executors with hasErrored
  aborted,       \* the parent's abort signal: "none" or its reason
  interruptible, \* hasInterruptibleToolInProgress
  consumer       \* what query() does with the current executor

vars == <<tools, executor, errored, aborted, interruptible, consumer>>

Tool == [kind : Kinds,
         executor : 1..MaxExecutors,
         status : {"queued", "executing", "completed", "yielded"},
         progress : BOOLEAN,   \* messages in pendingProgress
         failed : BOOLEAN]     \* thisToolErrored, while it runs

TypeOK ==
  /\ tools \in Seq(Tool) /\ Len(tools) <= MaxTools
  /\ executor \in 1..MaxExecutors
  /\ errored \subseteq 1..MaxExecutors
  /\ aborted \in {"none", "interrupt", "cancel"}
  /\ interruptible \in BOOLEAN
  /\ consumer \in {"streaming", "looping", "waiting", "done"}

Init ==
  /\ tools = <<>>
  /\ executor = 1
  /\ errored = {}
  /\ aborted = "none"
  /\ interruptible = FALSE
  /\ consumer = "streaming"

-----------------------------------------------------------------------------
Of(e) == {i \in DOMAIN tools : tools[i].executor = e}
In(status, e) == {i \in Of(e) : tools[i].status = status}

(* Mutant: the tools already running are not asked.                        *)
CanExecuteIfSafe(i) ==
  tools[i].kind.safe \/ In("executing", tools[i].executor) = {}

(* canExecuteTool *)
CanExecute(i) ==
  \A j \in In("executing", tools[i].executor) :
    tools[i].kind.safe /\ tools[j].kind.safe

(* Where processQueue starts a tool: it breaks at a queued tool that must  *)
(* run alone and cannot yet; a safe tool it skips is blocked by one that   *)
(* blocks all behind it too.  So only the first queued tool can start.     *)
FirstQueued(i) ==
  /\ tools[i].status = "queued"
  /\ \A j \in In("queued", tools[i].executor) : i <= j

(* Mutant: processQueue passes over a tool that has to wait.               *)
StartableAnywhere(i) == tools[i].status = "queued" /\ CanExecute(i)
Startable(i) == FirstQueued(i) /\ CanExecute(i)

(* Before the next event, every microtask has run.                         *)
Quiet == consumer # "looping" /\ \A i \in DOMAIN tools : ~Startable(i)

(* getAbortReason is not null.                                             *)
Doomed(i) ==
  \/ tools[i].executor # executor
  \/ tools[i].executor \in errored
  \/ aborted = "cancel"
  \/ aborted = "interrupt" /\ tools[i].kind.cancel

(* updateInterruptibleState, of the executor e.                            *)
Interruptible(ts, e) ==
  LET executing == {i \in DOMAIN ts : /\ ts[i].executor = e
                                      /\ ts[i].status = "executing"}
  IN  executing # {} /\ \A i \in executing : ts[i].kind.cancel

(* getCompletedResults: visit the tools in order up to one that runs alone *)
(* and is not done; hand over progress and results.                        *)
Visited(i) ==
  /\ i \in Of(executor)
  /\ \A j \in In("executing", executor) : j < i => tools[j].kind.safe
HandedOver(t) ==
  [t EXCEPT !.progress = FALSE,
            !.status = IF @ = "completed" THEN "yielded" ELSE @]
Polled == [i \in DOMAIN tools |->
             IF Visited(i) THEN HandedOver(tools[i]) ELSE tools[i]]

(* Mutant: only progress ends the wait, not the end of a tool.             *)
NotWoken(e) == consumer

(* The race in getRemainingResults is over.                                *)
Woken(e) ==
  IF consumer = "waiting" /\ e = executor THEN "looping" ELSE consumer

-----------------------------------------------------------------------------
(* The answer streams in *)

AddTool(k) ==
  /\ consumer = "streaming" /\ aborted = "none" /\ Quiet
  /\ Len(tools) < MaxTools
  /\ tools' = Append(tools, [kind |-> k, executor |-> executor,
                             status |-> IF k.known THEN "queued"
                                        ELSE "completed",
                             progress |-> FALSE, failed |-> FALSE])
  /\ UNCHANGED <<executor, errored, aborted, interruptible, consumer>>

StreamPoll ==
  /\ consumer = "streaming" /\ aborted = "none" /\ Quiet
  /\ tools' = Polled
  /\ UNCHANGED <<executor, errored, aborted, interruptible, consumer>>

(* discard(), and a fresh executor for the fallback request.               *)
Fallback ==
  /\ consumer = "streaming" /\ Quiet
  /\ executor < MaxExecutors
  /\ executor' = executor + 1
  /\ UNCHANGED <<tools, errored, aborted, interruptible, consumer>>

StreamEnds ==
  /\ consumer = "streaming" /\ Quiet
  /\ consumer' = "looping"
  /\ UNCHANGED <<tools, executor, errored, aborted, interruptible>>

(* ESC, Ctrl+B ("cancel") or a new message ("interrupt").                  *)
Abort(why) ==
  /\ aborted = "none" /\ consumer # "done" /\ Quiet
  /\ aborted' = why
  /\ UNCHANGED <<tools, executor, errored, interruptible, consumer>>

-----------------------------------------------------------------------------
(* Tools run *)

(* executeTool: a doomed tool completes at once with a synthetic error.    *)
Start(i) ==
  /\ i \in DOMAIN tools /\ Startable(i)
  /\ tools' = [tools EXCEPT ![i].status =
                 IF Doomed(i) THEN "completed" ELSE "executing"]
  /\ interruptible' = Interruptible(tools', tools[i].executor)
  /\ UNCHANGED <<executor, errored, aborted, consumer>>

(* Mutant: the flag is not recomputed when a tool ends.                    *)
FinishedStale(i) ==
  /\ tools' = [tools EXCEPT ![i].status = "completed", ![i].failed = FALSE]
  /\ consumer' = Woken(tools[i].executor)
  /\ UNCHANGED interruptible

(* The end of collectResults; promise.finally calls processQueue.          *)
Finished(i) ==
  /\ tools' = [tools EXCEPT ![i].status = "completed", ![i].failed = FALSE]
  /\ interruptible' = Interruptible(tools', tools[i].executor)
  /\ consumer' = Woken(tools[i].executor)

(* A doomed tool is given up at its next message, unless it has failed.    *)
GivenUp(i) == Doomed(i) /\ ~tools[i].failed

(* A progress message.                                                     *)
Progress(i) ==
  /\ i \in DOMAIN tools /\ tools[i].status = "executing" /\ Quiet
  /\ IF GivenUp(i) THEN Finished(i)
     ELSE /\ ~tools[i].progress
          /\ tools' = [tools EXCEPT ![i].progress = TRUE]
          /\ consumer' = Woken(tools[i].executor)
          /\ UNCHANGED interruptible
  /\ UNCHANGED <<executor, errored, aborted>>

(* An error result, before the tool's end: that of a Bash tool cancels the *)
(* siblings.                                                               *)
Fails(i) ==
  /\ i \in DOMAIN tools /\ tools[i].status = "executing" /\ Quiet
  /\ ~tools[i].failed /\ ~Doomed(i)
  /\ tools' = [tools EXCEPT ![i].failed = TRUE]
  /\ errored' = IF tools[i].kind.bash THEN errored \cup {tools[i].executor}
                ELSE errored
  /\ UNCHANGED <<executor, aborted, interruptible, consumer>>

(* runToolUse is done.  A rejected permission dialog aborts the tool's     *)
(* controller, which bubbles up to the parent unless it had been aborted   *)
(* by a sibling.                                                           *)
Settle(i) ==
  /\ i \in DOMAIN tools /\ tools[i].status = "executing" /\ Quiet
  /\ Finished(i)
  /\ \/ UNCHANGED aborted
     \/ /\ aborted = "none"
        /\ tools[i].executor = executor /\ executor \notin errored
        /\ ~tools[i].failed
        /\ aborted' = "cancel"
  /\ UNCHANGED <<executor, errored>>

(* One round of getRemainingResults: processQueue, getCompletedResults,    *)
(* then wait, if tools run and there is nothing to hand over, or go round. *)
Consume ==
  /\ consumer = "looping"
  /\ \A i \in DOMAIN tools : ~Startable(i)
  /\ UNCHANGED <<executor, errored, aborted, interruptible>>
  /\ tools' = Polled
  /\ consumer' =
       IF Of(executor) = In("yielded", executor)' THEN "done"
       ELSE IF /\ In("executing", executor)' # {}
               /\ In("completed", executor)' = {}
               /\ \A i \in Of(executor) : ~tools'[i].progress
            THEN "waiting" ELSE "looping"

Next ==
  \/ \E k \in Kinds : AddTool(k)
  \/ StreamPoll \/ Fallback \/ StreamEnds
  \/ \E why \in {"interrupt", "cancel"} : Abort(why)
  \/ \E i \in 1..MaxTools : Start(i) \/ Progress(i) \/ Fails(i) \/ Settle(i)
  \/ Consume

Spec == Init /\ [][Next]_vars

(* Microtasks run; the event loop serves events in order of arrival, so a  *)
(* tool that ends gets its turn however much progress the others report.   *)
Fairness ==
  /\ \A i \in 1..MaxTools : WF_vars(Start(i)) /\ SF_vars(Settle(i))
  /\ WF_vars(Consume)

FairSpec == Spec /\ Fairness

-----------------------------------------------------------------------------
(* Properties *)

(* Within an executor a tool that is not concurrency-safe runs alone       *)
(* (processQueue, canExecuteTool).                                         *)
RunsAlone ==
  \A i, j \in DOMAIN tools :
    /\ tools[i].executor = tools[j].executor
    /\ tools[i].status = "executing" /\ tools[j].status = "executing"
    /\ i # j
    => tools[i].kind.safe /\ tools[j].kind.safe

(* A tool that must run alone is a barrier: no later tool has left the     *)
(* queue before it is done (the break in processQueue).                    *)
Barrier ==
  \A i, j \in DOMAIN tools :
    /\ tools[i].executor = tools[j].executor /\ i < j
    /\ ~(tools[i].kind.safe /\ tools[j].kind.safe)
    /\ tools[i].kind.known /\ tools[j].kind.known
    /\ tools[j].status # "queued"
    => tools[i].status \in {"completed", "yielded"}

(* The flag that lets a new message abort the turn speaks of the tools of  *)
(* the current executor (updateInterruptibleState).  Before any fallback   *)
(* it is up exactly while tools run all of which may be cancelled.  After  *)
(* one it is never up wrongly once no discarded executor runs a tool: what *)
(* such a tool's end wrote over it late does not outlast them.  While one  *)
(* still runs the flag may be wrong: a tool that ends late sets it from    *)
(* the tools of its own, discarded executor.                               *)
RunsDiscarded ==
  \E i \in DOMAIN tools : /\ tools[i].executor # executor
                          /\ tools[i].status = "executing"

InterruptibleTruthful ==
  /\ executor = 1 => (interruptible <=> Interruptible(tools, executor))
  /\ ~RunsDiscarded => (interruptible => Interruptible(tools, executor))

(* Once the stream has ended every result is handed over, if all tools     *)
(* exist (getRemainingResults).                                            *)
ResultsDelivered ==
  consumer = "looping" /\ (\A i \in Of(executor) : tools[i].kind.known)
    ~> consumer = "done"

(* What comments promise (each is refuted by a run of its own).            *)

(* StreamingToolExecutor.ts:450: "Wait for remaining tools and yield their *)
(* results as they complete".                                              *)
RemainingResultsArrive == consumer = "looping" ~> consumer = "done"
=============================================================================
