# Formal verification of the SeaTurtle CLI

SeaTurtle is an agent that runs in the terminal: a REPL that sends what the
user types to a language model, executes the tool calls in its answers, runs
subagents and teammates, schedules tasks, and reports to remote sessions. This
directory models the parts of it in which steps of several actors interleave,
checks the models with TLC and proves theorems about them with TLAPS. Paths
below are relative to `src/source/src/`.

## The system

| Component | State | Operations | Interacts with | What is hard |
|---|---|---|---|---|
| **Query guard** `utils/QueryGuard.ts` | status (idle, dispatching, running), generation | reserve, cancelReservation, tryStart, end, forceEnd | every turn; React subscribes to it | cancelled queries end late; reservations carry no owner |
| **Command queue** `utils/messageQueueManager.ts`, `utils/queueProcessor.ts`, `hooks/useQueueProcessor.ts` | module-level array, halted flag, snapshot | enqueue, peek, dequeue by priority, remove, clear, halt, pop editable | REPL, query loop, task notifications, autowork, subagents | several readers; progress depends on somebody being notified |
| **REPL turns** `utils/handlePromptSubmit.ts`, `screens/repl/*` | abort controller in React state, the calls in flight, local-JSX dialog | submit, process input, query, cancel, background, kill agents, halt | guard, queue, query loop | `executeUserInput` calls overlap across awaits |
| **Mid-turn steering** `utils/steerCheckpoint.ts` | none (a plan between two awaits) | plan and commit a boundary drain | queue, query loop | the queue changes between plan and commit |
| **Query loop** `query.ts` | messages, recovery state | stream an answer, run tools, drain the queue, go on | provider, tool executor, queue | fallback in mid-stream, abort at any await |
| **Streaming tool executor** `services/tools/StreamingToolExecutor.ts` | tracked tools, discarded, hasErrored, the interruptible flag | addTool, processQueue, getCompletedResults, getRemainingResults, discard | query loop, tools, REPL (flag) | tools end in any order, errors and aborts cascade |
| **Tool orchestration** `services/tools/toolOrchestration.ts` | none | partition calls into batches, run each | query loop | the same promises without streaming |
| **Task list** `utils/tasks.ts` | one JSON file per task, high-water mark, lock files | create, update, claim, block, delete, reset, unassign | agent processes sharing a directory | list lock and per-task locks; reads before a lock |
| **Scheduler lock** `utils/cronTasksLock.ts`; **scheduler** `utils/cronScheduler.ts`, `utils/cronTasks.ts` | a lock file with session id and PID; the tasks file, each session's copy, fire times, in-flight set | acquire, recover, rewrite, release, probe; load, watch, check, fire, remove, mark, create, delete | sessions of one project | crashes of the owner; stale locks unlinked by two; a file that is rewritten without a lock; a fire whose rewrite has not landed |
| **Consolidation lock** `services/autoDream/consolidationLock.ts` | a file with a PID whose mtime is the last run | acquire, roll back | sessions | races between reading and writing |
| **Event uploader** `cli/transports/SerialBatchEventUploader.ts` and its transports `HybridTransport.ts`, `ccrClient.ts` | pending events, in-flight batch, failures, waiters; buffer of stream events and its timer | enqueue, drain, flush, close; write, writeBatch, timer, close with a grace period | remote sessions | backpressure, retries of batches that did arrive, drops, close |
| **Worker state uploader** `cli/transports/WorkerStateUploader.ts` | one pending patch, one in flight | enqueue, drain, close | remote sessions | merging while a request is out |
| **Teammate mailbox** `utils/teammateMailbox.ts` | an inbox file, a lock | write, read, mark by index, mark all, mark all but protocol messages | teammates, inbox poller, attachments, print loop | marks made after an unlocked read, while others write |
| **Remote bridge** `bridge/remoteBridgeCore.ts`, `replBridgeTransport.ts` **and its flush gate** `bridge/flushGate.ts` | current transport, gate, flags of a flush and of a recovery | write, flush the history, refresh proactively, recover from a 401, rebuild, tear down | uploader, REPL | two paths rebuild; a flush, a teardown or a write meets a rebuild |
| **Autowork** `services/autowork/continuationAuthority.ts` | workflow files | resolve and enqueue a continuation | queue | a decision taken across an await |
| Providers, authentication, MCP, LSP, plugins | connection state | requests, conversions | | I/O; no scheduling of their own |
| Terminal UI, games and extras | screen state | rendering, keys | | layout and input |

What makes each part correct:

- *Guard and turns*: at most one query owns the guard; nobody releases what is
  not its own; the guard is never left taken with nobody to release it.
- *Queue*: typed text gets where it was sent unless something is meant to throw it
  away; what can be processed is processed; commands for subagents do not block the
  main thread.
- *ESC*: it reaches the turn that runs.
- *Tools*: a tool that is not concurrency-safe runs alone and is not overtaken;
  every call yields its result; a new message interrupts only tools that may be
  interrupted.
- *Task list*: IDs are not reused, a task has one owner, both sides of a
  dependency agree.
- *Scheduler*: one owner of the lock, replaced when it dies; a task fires when it
  is due and not twice; the file holds what was scheduled and not yet handled.
- *Uploader*: events leave in order, only the documented ones are dropped,
  producers and flushes are not left waiting, memory is bounded.
- *Mailbox*: no message is lost, none is marked read unread, none taken twice.
- *Bridge*: history before live messages and these in order, one transport open,
  none after the teardown, and nothing forgotten behind the gate.

`PROJECT.json` lists the hazards line by line, with the property that would
catch each one.

## Modules

| Module | What it is |
|---|---|
| `QueryGuard` | the guard as a value, its five transitions as operators |
| `TurnLease` | abstract specification: a revocable lease with epochs |
| `ReplTurns` | guard, command queue, abort controller and overlapping turns, composed; implements `TurnLease` |
| `ToolExecutor` | the streaming tool executor and the part of the query loop that drives it |
| `TaskList` | the shared task list: files, locks, and the calls of `utils/tasks.ts` one file operation at a time |
| `EventChannel` | abstract specification: a first-in-first-out channel that may repeat and give up events |
| `SerialBatchEventUploader` | the uploader's methods as operators, cut at their awaits |
| `EventTransport` | `HybridTransport` and `CCRClient` around the uploader; implements `EventChannel` |
| `TeammateMailbox` | an inbox file, its lock, the writers and the four kinds of readers |
| `SchedulerLock` | the scheduler's lock file and the sessions that compete for it |
| `CronScheduler` | the scheduler over `SchedulerLock` and the tasks file |
| `RemoteBridge` | the remote bridge: transports, gate, flush, refresh, 401, teardown |
| `*_proofs` | theorems: `ReplTurns_proofs`, `ReplPrompts_proofs`, `ToolExecutor_proofs`, `TaskList_proofs`, `EventTransport_proofs`, `TeammateMailbox_proofs`, `CronScheduler_proofs`, `RemoteBridge_proofs` |
| `MC*` | instances for TLC |

Composition: `ReplTurns` is guard, queue and turns in one state; `EventTransport`
extends the uploader, `CronScheduler` extends the lock, and both make actions of
the operators they extend. `RemoteBridge` does not carry the uploader's state: it
uses what `EventTransport` shows of it (a queue that posts in order and forgets
what it holds when it is closed).

### ReplTurns

| Variable | In the code |
|---|---|
| `guard` | `QueryGuard._status`, `_generation` |
| `queue`, `arrivals` | `commandQueue`: an entry is stamped with its order of arrival; the entries one call puts back together share a stamp |
| `halted` | `autoProcessingHalted` |
| `dirty`, `urgent` | the effect of `useQueueProcessor` and the "now" effect of `REPL.tsx` are due: a snapshot they depend on has changed since they last ran |
| `controller` | the turn whose `AbortController` is in React state, which is the one ESC aborts |
| `turn` | the calls of `executeUserInput` / `onQuery` in flight: where each awaits, its commands, its generation, the reason its signal was aborted with |
| `localJsx` | a local-JSX command owns the screen |
| `sent`, `fate`, `cancels` | history, for the properties and the bounds |

*Grain.* One action is one macrotask: everything between two awaits that can
reach the event loop. The awaits that can are processUserInput, the query
(`onQueryImpl`), the attachments of the boundary drain, and the effects of
React, which run in a macrotask of their own. The chain after a query (`end`,
finalize, restore, the `finally` blocks, the check that halts the queue) only
awaits promises that are already settled, so it is one action. React state is
taken to be committed before the next key press.

*Inputs.* A command has a mode, may be hidden (`isMeta`), may be addressed to a
subagent. What a classifier decides from the text (steering a busy turn,
priorities, whether a prompt is parked) is a nondeterministic choice.

*Left out.* Remote sessions (`isExternalLoading`), the branches of ESC for a
focused dialog, history and input restoration, speculation, transcripts, how
autowork decides (its enqueue is `Post`), the orphaned-permission mode,
`resetCommandQueue` and `dequeueAll` (tests only). `onBeforeQuery` is never
supplied in the repository, so preparing a query always goes on.

*Known behaviour the properties allow for.* The second press of the kill-agents key
empties the whole queue, typed prompts included (`cleared`; the comment at
`utils/messageQueueManager.ts:358` speaks of notifications), and a `processUserInput` that throws takes its text along
(`failed`): nothing is put back into the input. `NoPromptLost` names these two ways
to lose typed text and excludes every other.

### ToolExecutor

| Variable | In the code |
|---|---|
| `tools` | `tools` of all executors of a turn, in order of arrival: kind, status, whether progress is pending |
| `executor` | the current executor; `discarded` is true of those before it |
| `errored` | the executors with `hasErrored` |
| `aborted` | the parent's abort signal and its reason |
| `interruptible` | `hasInterruptibleToolInProgress`, shared by all executors |
| `consumer` | where `query()` is: streaming, in a round of `getRemainingResults`, awaiting its `Promise.race`, done |

*Grain.* Microtasks (tools started by `processQueue`, a round of
`getRemainingResults`) come before the next event of the event loop (a part of
the answer, a message of a tool, its end, an abort): the guard `Quiet`. The
messages of a tool that has ended are handed over at once. A tool's error result
comes before its end (`Fails`), so a Bash error cancels the siblings while the tool
itself still runs.

*Known behaviour the properties allow for.* The flag `interruptible` is written by
whichever executor a tool ends in, from the tools of that executor alone. After a
fallback a discarded executor may therefore put it up while the current one runs a
tool that must not be interrupted, against the comment at
`utils/handlePromptSubmit.ts:348`, or down.
`InterruptibleTruthful` says what remains: until a fallback the flag is exact, and
after one it is never wrongly up once no discarded tool runs. No tool under `src/`
declares `interruptBehavior`, so that today every tool blocks; the model has both
kinds, as the interface in `Tool.ts` does. An exclusive tool may run beside a tool
of a discarded executor (`RunsAlone` is stated within an executor).

*Left out.* Contents of messages, the set of in-progress ids, context
modifiers. The executor is used when the gate in `query/config.ts` is on; the
other driver, `toolOrchestration.ts`, is not modelled.

### TaskList

| Variable | In the code |
|---|---|
| `files`, `task` | the JSON files of the directory; `task[i]` is what `getTask` makes of file `i` (`born = 0` is its `null`: no file, or one that does not parse) |
| `mark` | `.highwatermark`, 0 when it is missing or empty |
| `listLock`, `taskLock` | the locks on `.lock` and on the tasks' files |
| `call` | the call each agent has in progress: where it awaits, the files it still has to read, what it has read, the updates it has still to make, the file it has open |
| `crashed` | agents whose process has died |
| `lives`, `deletes`, `calls` | history, for the properties and the bounds |

*Grain.* One action is one file or lock operation: a `readFile`, a `readdir`, an
`unlink`, taking a lock. `writeFile` is two, for it truncates the file before
it writes, and what a reader finds in between does not parse; a process that
dies in between leaves the file so. Releasing locks goes along with the last
operation before it. Reads that the code issues together (`Promise.all`) happen
in any order. A file that is unlinked while it is open is written to in vain.

*Locks.* `proper-lockfile` is modelled from its use: exclusive, taken over once
its holder has died, an error when its retries run out or the file to be locked
does not exist. Waiting is by polling, so a lock can be taken in any order.

*Inputs.* Callers name IDs that have been given out. `claimIfIdle` is
`claimTask` with `checkAgentBusy`, an option of the exported function that no
caller in the repository passes. Edges of a task to itself are left out.

*Known behaviour the properties allow for.* `ClaimTakesNothing` speaks of `claim`
only: a claim with `checkAgentBusy` checks under the list's lock and writes under
the task's, without looking again, and may take the task from somebody who claimed
or finished it in between (`utils/tasks.ts:687`, against "atomically with the claim"
at line 539). A claim that reads a blocker while
it is being written overlooks it.

*Left out.* Subjects, metadata, `getTaskListId`, the notification of listeners
in the same process, `getAgentStatuses` (it only reads).

### SerialBatchEventUploader, EventTransport, EventChannel

| Variable | In the code |
|---|---|
| `byteLimited`, `capped` | whether the configuration sets `maxBatchBytes`, `maxConsecutiveFailures` |
| `pending`, `inflight`, `phase`, `failures`, `closed` | the class's fields and where `drain()` is: idle, in `send()`, in `sleep()` |
| `waiting`, `ready` | `backpressureResolvers`: calls of `enqueue()` waiting for room, and those woken that have not looked again |
| `flushing` | `flushResolvers` |
| `buffer`, `timer` | `streamEventBuffer`, `streamEventTimer` |
| `transport` | open, in the grace period of `HybridTransport.close()`, closed |
| `call` | where each call of `write`, `writeBatch`, `flush` awaits |
| `log`, `seen`, `givenUp`, `number`, `late`, `owed` | history, for the properties |

*Grain.* One action is what runs between two awaits: the start of a call, the end
of a POST with the next batch taken from the queue, a timer. A POST may arrive
and still fail (its answer is lost), and is then sent again.

*Left out.* The coalescing of text deltas in `CCRClient`, delays and jitter (a
sleep ends some time), `droppedBatchCount`. An event that cannot be serialised
is met only where bytes are counted, which is where the code serialises it.
Calls are begun on a transport that is not closed (they may go on after its close).
CCR sends one message a call.

*Known behaviour the properties allow for.* An `enqueue` of more than
`maxQueueSize` items never returns (`NeverFits`; `HybridTransport` says so and
sizes its queue for it). Two messages that `CCRClient` is given in one tick may
swap. A `flush()` does not cover stream events that are still waiting for room.
A `write()` that waited for room when `close()` came goes on to a `flush()`; if the
batch in flight then fails, it is put back into the queue of an uploader that has
stopped, and that flush never returns (`LeftBehind`;
`cli/transports/SerialBatchEventUploader.ts:184`, against line 137).

### TeammateMailbox

| Variable | In the code |
|---|---|
| `file`, `inbox`, `marked` | the inbox: absent, not parseable, or its messages and their `read` flags |
| `lock` | the lock on the file (`proper-lockfile`, external) |
| `pc`, `content`, `picked`, `index` | where each call of `writeToMailbox` and each reader is, what it is about to write, has read and is about to mark |
| `owners` | who reads this inbox |
| `aborted` | the in-process teammates whose `abortController` is aborted |
| `taken`, `exposed`, `gaveUp`, `damaged` | history |

*Grain.* One action is a file or lock operation; a write truncates first. The
retries of a lock end in success or, at any time, in an error, which the code
logs and then returns as if all were well (`GiveUp`).

*Readers.* The loop of an in-process teammate marks by the index it read; the
inbox poller and the print loop mark everything; the attachments of a turn mark
all but protocol messages. A session has a poller and attachments at once, and the
turns of an in-process teammate may read attachments, too (for internal users).

*An in-process teammate* begins in a turn, with its first prompt. Between turns it
polls for the next message (shutdown requests, then those of the leader, his
permission answers among them, then the oldest), for a prompt that the user typed
into its transcript and for a task of the list (`OtherPrompt`); in a turn it may wait
for a permission answer. It may be aborted at any moment (`Abort`: it is killed, or
its model has approved a shutdown; a turn that throws ends the loop like that). After
its turn, or while it waits, the loop then ends (`TurnEnds`, `WaitEnds`), and nothing
in its inbox is read any more. A message it was marking at that moment is marked and
never handed on.

*Left out.* `clearMailbox`, the bookkeeping in `AppState.inbox` (a queued message
counts as taken), overlapping polls of one poller or of one permission request, a
turn that is interrupted while the answer it waited for is being marked, another
teammate of the same name that reads the inbox later, crashes of readers.

*Known behaviour the properties allow for.* Marking everything also marks a
message that came in since the read: it is never handed over (`exposed`). Two
processes that find no file race in creating it, and the `[]` of one may land on
the other's message; a crash in mid-write leaves an empty inbox (`damaged`).

### SchedulerLock, CronScheduler

| Variable | In the code |
|---|---|
| `lockFile` | the lock file: an inode (to tell a file from its successor) and its body |
| `phase`, `pid`, `isOwner`, `step`, `fd`, `existing` | a terminal, its process (`"stopped"`: `stop()` was called; `"closing"`: `gracefulShutdown` runs while the scheduler does), and where `tryAcquireSchedulerLock` or `releaseSchedulerLock` is |
| `SessionId` (constant) | the session a terminal has open: two may have resumed the same one |
| `file` | `.claude/scheduled_tasks.json`: the tasks, when created, when last fired |
| `tasks`, `nextFireAt`, `inFlight` | a session's copy and its bookkeeping |
| `loaded`, `watching`, `changed`, `blind` | `load(true)` has run, chokidar is ready, has seen a write, has missed one |
| `jobs` | the reads and rewrites of the file under way |
| `now`, `left`, `edits` | the minute; what is left of starts, stops, crashes, creations and deletions |
| `contested`, `handled`, `handler`, `flaws`, `kept` | history |

*Grain.* Creating the lock and writing its body are two steps, so are reading and
unlinking it. A rewrite of the tasks file reads, truncates and writes. A tick of
the check timer is one action. Time counts the minutes of cron expressions, and
every task runs at the next one.

*Ends of a session.* `Stop` is `scheduler.stop()`, which the REPL's unmounting calls:
it clears the timers and gives the lock back (a session on the alternate screen
unmounts before the cleanup runs). `Shutdown` is `gracefulShutdown` of a
process that owns the lock: the cleanup that was registered with the lock unlinks
the file, and nothing stops the scheduler, which ticks on as the owner until the
process exits (`Exit`, which a time limit of two seconds for the cleanup and a
failsafe timer bring about, also in the middle of the release). A `Crash` may come at
any point.

*Left out.* Session-only tasks, filters, the kill switch and `isLoading` (they
suspend checks), the watcher's `unlink` event, `mkdir`, jitter, a session id that
changes within a process (`/resume`); PIDs are not reused.

*Known behaviour the properties allow for.* A session that reads the lock between
another's open and write unlinks it, and a slower recoverer unlinks the lock a
faster one has just created, so there may be two owners (`contested`), against the
comment at `utils/cronTasksLock.ts:109`; an owner never looks again whether it still
owns the lock. Of one session in two terminals each process takes the other's lock
for its own, writes its PID over it and never asks whether the other is alive (lines
139-145): two owners again (`contested`). A process that shuts down has released the
lock and still checks tasks: another session becomes the owner beside it, against
the comment at `utils/cronScheduler.ts:406`. `Exclusive` counts who has the lock
(`Holds`), and what such a process fires is named among the exceptions of
`AtMostOnce` (`unowned`), as are the missed one-shots that every starting session
surfaces, with or without the lock. Overlapping rewrites lose each other's change, a
reload during a truncation sees no tasks, a crash in mid-write empties the file, and
a write between `load(true)` and the watcher's readiness is not noticed (`overlap`,
`torn`, `killed`, `blind`). `markCronTasksFired` writes its time without looking at
the one in the file: if a session that has stopped writes late, after its successor
has fired the task, it puts the last fire back, and a session that starts then fires
the task a second time in that minute (`setBack`); this came out of the inductive
invariant of `AtMostOnce`. It takes three starts and a task that ages later, more
than the bounds of the run: there only the theorem speaks of it. An ID is a random
one, so a created task is one that nothing refers to (`Fresh`).

### RemoteBridge

| Variable | In the code |
|---|---|
| `current`, `state`, `initializing` | the variable `transport`, the state of each transport, its `ccr.initialize` under way |
| `accepted` | the epoch the server accepts (external) |
| `queue`, `server` | what a transport's uploader holds, what has arrived |
| `gateActive`, `gatePending` | `FlushGate` |
| `flushing`, `initialFlushDone` | `flushHistory`, per transport it writes to |
| `path` | where `recoverFromAuthFailure` and `onRefresh` await; `authRecoveryInFlight` is that one does |
| `teardown` | `tornDown`, and whether `archiveSession` has returned |
| `written`, `early`, `refreshFailed` | bound and history |

*Grain.* One action is what runs between two awaits. `WriteBatch` is one step, while
`writeBatch` awaits `writeEvent` for every message and looks in between whether the
transport was closed (`replBridgeTransport.ts:274-283`); the two agree as long as the
uploader never makes an `enqueue` wait. The posts of one transport arrive in order:
this is taken of `CCRClient`, of which `EventTransport` shows it only for messages
that are not written in the same tick.

*Left out.* Control, result and SDK messages (they bypass the gate), inbound
messages and the filter for echoes, connect timeouts, the title callback,
retries of archiving, `replBridge.ts` (the environment-based bridge), and the
inner workings of the uploader.

*Known behaviour the properties allow for.* A message written between a 401 and
the closing of the gate is marked as posted and written to a closed uploader: it
is lost, and neither `GateKept` nor `LiveInOrder` speaks of it. A rebuild before
the history was flushed drains live messages ahead of it (`early`). A refresh
that is given up during the flush leaves the gate closed (`refreshFailed`).

## Runs

| Run | Bounds | Shows |
|---|---|---|
| `repl_turns` | 5 scripts of user and background input from a prompt, a slash command, a notification, a hidden prompt and a notification for a subagent; 3 overlapping turns, 1 ESC | `TypeOK`, `GuardOwned`, `NoPromptLost`, `QueueDrains`, `OnlyHolderReleases`, implements `TurnLease` with its liveness |
| `repl_concurrent` | the same | **violated**: two `executeUserInput` calls at once |
| `repl_interrupt` | the same | **violated**: ESC does not reach the running turn |
| `tool_executor` | 3 calls of 4 kinds, 2 executors | `RunsAlone`, `Barrier`, `InterruptibleTruthful`, `ResultsDelivered` |
| `tool_results` | 2 calls, 1 executor | **violated**: the remaining results need not arrive |
| `task_list` | 2 agents, 2 tasks to begin with and room for a third, any 3 calls, 1 crash; symmetric agents | `TypeOK`, `NoIdReusedByReset`, `NoLostUpdate`, `ClaimTakesNothing`, `NoDeadlock` |
| `task_ids` | the same, no crash | **violated**: the ID of a deleted task is given out again |
| `event_transport` | both configurations; a stream event, calls that write one event, one that cannot be serialised, and two; a flush, close; batch and queue of 2, 2 failures | `TypeOK`, `InOrder`, `ResolvedMeansPosted`, `BacklogBounded`, `ComesToRest`, implements `EventChannel` |
| `teammate_mailbox` | 3 messages (peer, shutdown request, permission answer of the leader) to a teammate, 2 if its turns read attachments, and 2 to a session with poller and attachments or to a print session; 1 crash | `TypeOK`, `NothingSkipped`, `TakenOnce`, `InboxKept`, `Taken` |
| `cron_scheduler` | 3 terminals, two of them with one session, in 8 histories with up to two ends and a restart; none, a one-shot, a recurring task or both; an edit; 2 minutes | `TypeOK`, `Exclusive`, `FileAccounted`, `AtMostOnce`, `Takeover`, `DueTasksHandled` |
| `cron_fires` | 1 session, two one-shots due in the same minute | **violated**: a one-shot fires twice |
| `remote_bridge` | a history of 0 or 2, 2 live messages, 3 transports | `TypeOK`, `HistoryFirst`, `LiveInOrder`, `OnlyCurrentOpen`, `NothingLeftOpen`, `GatedWhileRebuilt`, `GateKept`, `GateOpens` |

Why the bounds are enough for the interesting cases:

- *Turns.* Three are the fewest in which one call is forced out, a second reserves
  the guard, the first releases that reservation and a third starts; one ESC
  suffices to force a call out, and the turns are recycled. Each script is a set
  of inputs that meet in the code (two users' prompts and a notification, a
  slash command between them, something for a subagent in front).
- *Tools.* Three are the fewest with a tool waiting behind one that waits behind a
  running one.
- *Task list.* Two agents and three calls are enough for two calls to overlap
  after a third has prepared the list (a dependency, an owner, a reset).
- *Uploader.* A queue of two fills with one call of two events, the next waits,
  and a batch of two fails and is put back on top of a full queue.
- *Mailbox.* Three messages let one come in between a read and a marking while
  another is written, and put all three kinds in the order in which a teammate
  prefers them. The other readers treat the shutdown request and the permission
  answer alike, so the constraint `TwoForOthers` keeps the former from them: two
  messages are enough for one to come in between a read and a marking.
- *Scheduler.* Two sessions can recover, resume, release and race for a lock, and a
  third terminal shares the session of the first. Each history is what one way of
  going wrong takes: both kinds of ends, a crash and a second start of the same
  session, two processes of one session, a crash in front of a due one-shot, an end
  and a restart in front of one, an orderly handover of a recurring task, edits beside
  a fire. The races for the lock are those of the histories without tasks; in the
  others the constraint `BesideOwner` lets a session start alone or beside an owner
  that has started up. Two minutes let a task be due, missed, and fire again.
- *Bridge.* Three transports allow a rebuild in the middle of another's flush.

The theorems below hold for every value of these bounds.

Deadlock checking is off (`CHECK_DEADLOCK FALSE`) because the systems really
stop: the REPL goes idle when nothing is left to do, a turn ends, calls return,
budgets are used up, a bridge is torn down. For the task list `NoDeadlock` says
instead that the calls are never all waiting for each other.

*Fairness.*

- `ReplTurns`: weak fairness of each turn's own step (the promises of
  processUserInput, of the provider's stream and of the attachments settle), of
  the queue effect (React runs a due effect) and of closing a dialog. The user,
  the poster of notifications and the drain plan are free.
- `ToolExecutor`: weak fairness of starting a startable tool and of the consumer's
  round (microtasks run), strong fairness of the end of each tool: the event loop
  serves events in order of arrival, so progress of other tools cannot hold it
  back for ever.
- `EventTransport`: weak fairness of callbacks and timers that are due and of the
  end of a POST (it has a timeout); strong fairness of its success where failures
  are not capped, for there the code retries for ever and relies on it.
- `TeammateMailbox`: weak fairness of processes that hold the lock and of taking a
  dead one's lock away; of a teammate's turns ending and of its loop ending once it
  is aborted; strong fairness of its polls between turns and of its getting the lock,
  which it asks for again and again. So the prompts a user types into its transcript,
  which go first, are taken not to keep coming for ever. Nothing keeps it alive.
- `SchedulerLock`, `CronScheduler`: weak fairness of timers (probe, check, time),
  of file operations and of the watcher, and of the end of a shutdown, which a
  failsafe timer bounds. Starts, stops, the beginning of a shutdown and crashes are
  free.
- `RemoteBridge`: weak fairness of requests and of what follows an await. Expiry,
  401s, closes, writes and the teardown are free.

### What the violated runs found

1. `repl_concurrent`: `cancelReservation()` in the `finally` block of
   `executeUserInput` (`utils/handlePromptSubmit.ts:699`) does not ask whose
   reservation it releases. A call forced out by ESC while it awaited
   processUserInput releases the reservation of its successor, and a third call
   starts beside it, against the comment at line 495.
2. `repl_interrupt`: a call that ends without a query clears the abort
   controller in state (`utils/handlePromptSubmit.ts:668`) though it may be that
   of another turn; ESC then no longer reaches that turn.
3. `tool_results`: a call of an unknown tool behind a running exclusive one
   makes `getRemainingResults` go round without ever yielding to the event loop.
4. `task_ids`: `deleteTask` raises the high-water mark without the list's lock,
   and `createTask` reads mark and directory side by side; the ID of a task
   deleted in between is used again, against the comment at `utils/tasks.ts:410`.
5. `cron_fires`: `inFlight` is cleared when a fired one-shot's removal is written,
   but the session's copy is refreshed by the watcher only later; a tick in
   between fires it again, against the comment at `utils/cronScheduler.ts:333`.
   Two removals of one tick also overlap, and one may bring the other's task back.

Four more places where the code does less than a comment says came out of the models
and are not runs of their own: a stale interruptible flag, a claim with
`checkAgentBusy`, a flush called after `close()`, and a scheduler that ticks on
without its lock. A fifth, typed text thrown away by the kill-agents key, is of the
same kind. Each is described under *Known behaviour* of its module, and the property
that comes nearest says what is left of the promise.

## Proofs

All for every value of the constants (any number of commands, turns, ESC
presses, kinds of tools, executors, agents, tasks, calls, crashes).

- `ReplTurns_proofs`. `TypeCorrect` (`Spec => []TypeOK`) and `GuardAlwaysOwned`
  (`Spec => []GuardOwned`) rest on `IInv == TypeOK /\ GuardOwned`, which is
  inductive: that a running guard has an owner needs the uniqueness of
  generations, which needs that no live query is ahead of the guard. The steps
  are grouped by what they do to the guard (nothing, reserve, start, give up a
  reservation, end, force out); a lemma shows that each group keeps `GuardOwned`
  and each action belongs to one group. `ImplementsLease` maps every step to a
  step of `TurnLease` or a stutter (the safety part), `HolderKeepsGuard` is the
  action property `OnlyHolderReleases`.
- `ReplPrompts_proofs`. `PromptsAreKept` (`Spec => []NoPromptLost`) by an
  invariant that places every typed command (queued, in a call, or with a fate);
  it also needs that a command in a call's hands carries its mode. Typed text is
  lost in the two ways that the property names, and in no other.
- `ToolExecutor_proofs`. `TypeCorrect`, `NonConcurrentToolsRunAlone`
  (`RunsAlone`), `NonConcurrentToolsAreBarriers` (`Barrier`), `FlagIsTruthful`
  (`InterruptibleTruthful`). Every action is shown to add one tool, start one,
  or only advance statuses; the invariants are kept by each of the three. For the
  flag: whoever writes it while no discarded tool runs is the current executor.
- `TaskList_proofs`. A lemma per operation says where the caller goes, what its
  record looks like then and what happens to the locks (`Stepped`); another says
  what happens to the files and to what has been read (`Effects`).
  - `TypeCorrect` (`Spec => []TypeOK`) needs that a caller at an update has one
    to make and that only an ID is written as the mark (`TypeInv`).
  - `NeverAllWaiting` (`NoDeadlock`) rests on `LockInv`: a live caller holds a
    task's lock exactly from taking it to its last write, and one that holds the
    list's lock does not ask for it. So whoever holds a task's lock waits for
    nothing, and whoever holds the list's waits at most for a task's.
  - `NoUpdateIsLost` (`NoLostUpdate`) rests on `UpdateInv`: under the lock, what
    has been read is what the file says, unless the file is gone or is that of
    another life of the ID; that lives do not mix needs that nothing is of an
    ID's last life until `createTask` has written its task.
  - `ClaimsTakeNothing` (`ClaimTakesNothing`) rests on `ClaimInv`: from the check
    under the lock on, the task remains claimable or goes away. Of a claim with
    `checkAgentBusy` nothing of the kind can be proved.
  - `ResetReusesNoId` (`NoIdReusedByReset`) rests on `IdInv`: as long as nobody
    deletes, every ID given out is at most the mark or the ID of a file, whoever
    resets or creates holds the list's lock, and what such a call has read or
    secured covers every ID (`Counted`), also when it dies between truncating the
    mark's file and writing it.

- `EventTransport_proofs`. `TypeCorrect` and `UploaderBounded` (`BacklogBounded`)
  rest on `TransportInv`. Its core is `UploaderInv`: nothing is in flight outside
  a POST, and batch and queue together never exceed the queue's limit and one
  batch, which holds because room is measured against the queue alone and a
  failed batch goes back to it only once nothing is in flight. `WaitsOK` says what
  the calls that wait for room hold and where they go on. `ImplementsChannel`
  (`ChannelSpec`) maps the backlog to `inflight \o pending`: `DrainPicks` shows that
  a batch is an ordered selection from the front of the queue that leaves out only
  what cannot be sent; each end of a POST, enqueue and close is then shown to be a
  step of `EventChannel`, and all other steps stutter.
  `ReturnsWhenPosted` (`ResolvedMeansPosted`) rests on `OwedInv`: what a call waits
  for is posted, given up, held by the uploader or by the `enqueue()` that the call
  waits in (`HeldForCalls`), and whatever ends the wait of a flush finds the uploader
  empty (`Settles`). `ServerSeesOrder` (`InOrder`) rests on `OrderInv`: the log and
  then the part of the backlog that the server lacks have increasing numbers but for
  the exempt (`InLine`, also when a failed batch is put back), the buffered events
  were written last (`BufferLast`, `NumbersBounded`), the messages of a call are
  numbered when it starts (`CallsToCome`), and what waits for room is `late`
  (`WaitsAreLate`).
- `TeammateMailbox_proofs`. `MailInv`: a writer holds the lock (`LockHeld`) and
  writes what it made of the current content (`ContentInv`), which needs that an
  undamaged inbox is unreadable only while somebody writes it (`FileInv`); between
  a read and the marking the index still is that of the message read, and what
  came in since is known (`PickedInv`). From it `WritesKeepInbox` (`InboxKept`),
  `NothingPassedOver` (`NothingSkipped`) and, with `OnceInv`, `NoneTakenTwice`
  (`TakenOnce`).
- `CronScheduler_proofs`. `OneOwner` (`Exclusive`) rests on `LockInv`: until somebody
  destroys a live session's file, whoever owns and has the lock, is about to write its
  body or gives it back is alone and the file is its own (`HolderInv`); what was
  found stale stays stale, for a restart takes a new PID (`BodyInv`). `TypeCorrect`
  needs `LockInv` and `CronTypeOK`. `FileHoldsWhatItShould` (`FileAccounted`) follows
  the rewrites: as long as none overlap, each writes back what it read from a file
  nobody has changed since (`FileInv`). `HandledAtMostOnce` (`AtMostOnce`) rests on
  `OnceInv`: of a task that was handled, either the rewrite is still under way, by the
  process that handled it, which keeps the task in `inFlight` or expects it no more
  (`UnderWay`, with `JobsInv`), or the file and whoever writes to it say so (`Done`);
  and no session that goes on expects a recurring task again in this minute (`Waits`),
  for only the owner expects tasks at all (`OwnersTimes`). A task that is still being
  created is nowhere else (`UnbornInv`), so its creation brings nothing back.
- `RemoteBridge_proofs`. `OneTransportOpen`, `TeardownClosesAll` and
  `RebuildKeepsGate` rest on `ClaimInv`: at most one of the two paths has claimed the
  recovery (`SingleClaim`), and while a transport is being rebuilt the current one is
  closed (`ClosedWhileRebuilt`) and the gate shut.
  `LiveMessagesInOrder` (`LiveInOrder`) rests on `OrderInv`: what the server has,
  the current queue and the gate, put after each other, hold the live messages in
  order. `GateLosesNothing` is the action property `GateKept`.
  `HistoryBeforeLive` (`HistoryFirst`) rests on `FlushInv`: until the gate is opened
  early, it is closed as long as a part of the history has to be flushed, and then
  the current transport is closed or neither the server nor its queue has any live
  message; the only flush under way writes to the current transport, and another
  one follows it only if a rebuild after a 401 is under way.

Assumptions: `ConstantsAssumption`, `ToolConstants`, `TaskListConstants`,
`UploaderAssumption`, `TransportAssumption`, `MailboxAssumption`,
`LockAssumption`, `CronAssumption`, `BridgeAssumption`, evaluated by TLC on the
instances. They type the constants; three say more: that an in-process teammate
has one loop that reads its inbox, that live messages are distinct, and that an
event is one object which is written once, as a stream event or by one call.

Only model-checked is liveness, which is out of the prover's reach: `QueueDrains`,
`ResultsDelivered`, `ComesToRest`, `Taken`, `Takeover`, `DueTasksHandled`, `GateOpens`,
and the liveness of `TurnLease` (`ImplementsLease` is its safety part). Every other
property of a passing run is a theorem.

## Not modelled

- `services/tools/toolOrchestration.ts` (the driver of tools without streaming):
  a loop without concurrency of its own but `all()` over a batch.
- `services/autoDream/consolidationLock.ts`: a lock by mtime that is taken at most
  once a day; its races lose a run of a background task.
- `cli/transports/WorkerStateUploader.ts`: one slot, merged by key.
- `services/autowork/continuationAuthority.ts`: a decision from files of a
  workflow; what it enqueues is a command like any other in `ReplTurns`.
- Providers, authentication, MCP, LSP, plugins: requests and conversions, whose
  state is that of another system.
- Terminal UI, games and extras: layout and input, the larger part of the lines.

## Plan

1. The worker state uploader and the consolidation lock.
2. Tool orchestration as the other driver of `RunsAlone` and `Barrier`.
3. Autowork, and the retry and compaction branches of the query loop, as far as
   they change what the other parts see.
