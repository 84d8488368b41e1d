----------------------------- MODULE CronScheduler -----------------------------
(***************************************************************************)
(* The scheduler of utils/cronScheduler.ts in the sessions of one project,  *)
(* over the lock of SchedulerLock and the file of scheduled tasks that      *)
(* utils/cronTasks.ts reads and rewrites without any lock.                  *)
(*                                                                         *)
(* Time counts the minutes of the cron expressions, and every task runs at  *)
(* the next one.  handled, handler, flaws and kept are not in the code: how *)
(* often a task was fired or surfaced (a recurring one: in this minute),    *)
(* by which process, what went wrong with the file or its owners so far,    *)
(* and the tasks the file should hold.                                      *)
(***************************************************************************)
EXTENDS SchedulerLock, Functions, FiniteSetsExt

CONSTANTS
  Tasks,
  Recurring,      \* the tasks that are not one-shots
  Cases,          \* budgets, with the tasks the file holds at first and how
                  \* many tasks the sessions create and delete
  MaxTime,
  MaxAge,         \* a recurring task as old as this fires for the last time
  Never, Unset

ASSUME CronAssumption ==
  /\ Recurring \subseteq Tasks
  /\ Cases \subseteq [budget : Budgets, scheduled : SUBSET Tasks, edits : Nat]
  /\ MaxTime \in Nat /\ MaxAge \in Nat \ {0}
  /\ {Never, Unset} \cap Nat = {} /\ Never # Unset

VARIABLES
  now,
  file,           \* the tasks on disk: a function on their ids
  tasks,          \* the copy of a session
  nextFireAt, inFlight,
  loaded,         \* load(true) has run
  watching,       \* the watcher is ready
  changed,        \* the watcher has seen a write that is not loaded yet
  blind,          \* a write landed after the load and before the watcher
  jobs,           \* the reads and rewrites of the file under way
  edits,
  handled, handler, flaws, kept

cronVars == <<now, file, tasks, nextFireAt, inFlight, loaded, watching, changed,
              blind, jobs, edits, handled, handler, flaws, kept>>
vars == <<lockVars, cronVars>>

Times == 0..MaxTime
TaskFiles == UNION {[ids -> [created : Times, fired : Times]] : ids \in SUBSET Tasks}
NoTasks == [t \in {} |-> [created |-> 0, fired |-> 0]]

\* created is also what an unset lastFiredAt stands for.
New(at) == [created |-> at, fired |-> at]

Jobs == [by : Processes, op : {"remove", "fired", "missed", "create", "delete"},
         ids : SUBSET Tasks, at : Times, step : {"read", "open", "write"},
         base : TaskFiles]

TypeOK ==
  /\ LockTypeOK
  /\ now \in Times
  /\ file \in TaskFiles
  /\ tasks \in [Sessions -> TaskFiles]
  /\ nextFireAt \in [Sessions -> [Tasks -> 0..(MaxTime + 1) \cup {Never, Unset}]]
  /\ inFlight \in [Sessions -> SUBSET Tasks]
  /\ \A b \in {loaded, watching, changed, blind} : b \in [Sessions -> BOOLEAN]
  /\ jobs \subseteq Jobs /\ edits \in Nat
  /\ handled \in [Tasks -> 0..2] /\ handler \in [Tasks -> Maybe]
  /\ flaws \subseteq {"overlap", "killed", "torn", "unowned", "setBack"}
  /\ kept \subseteq Tasks

Init ==
  /\ LockInit
  /\ \E c \in Cases :
       /\ left = c.budget /\ edits = c.edits /\ kept = c.scheduled
       /\ file = [t \in c.scheduled |-> New(0)]
  /\ now = 0
  /\ tasks = [s \in Sessions |-> NoTasks]
  /\ nextFireAt = [s \in Sessions |-> [t \in Tasks |-> Unset]]
  /\ inFlight = [s \in Sessions |-> {}]
  /\ loaded = [s \in Sessions |-> FALSE] /\ watching = [s \in Sessions |-> FALSE]
  /\ changed = [s \in Sessions |-> FALSE] /\ blind = [s \in Sessions |-> FALSE]
  /\ jobs = {}
  /\ handled = [t \in Tasks |-> 0] /\ handler = [t \in Tasks |-> None]
  /\ flaws = {}

-------------------------------------------------------------------------------
(* The file (utils/cronTasks.ts) *)

\* A mutant of Job: the time of the next run is written as that of the last.
JobStampsNextRun(s, op, ids, at) ==
  [by |-> Me(s), op |-> op, ids |-> ids, at |-> at + 1,
   step |-> "read", base |-> NoTasks]

\* at is the time that "fired" and "create" write.
Job(s, op, ids, at) == [by |-> Me(s), op |-> op, ids |-> ids, at |-> at,
                        step |-> "read", base |-> NoTasks]

\* writeFile() truncates the file before it writes.
Torn == \E j \in jobs : j.step = "write"

Flaw(name, occurs) == flaws' = IF occurs THEN flaws \cup {name} ELSE flaws

\* A mutant of Rewritten: markCronTasksFired writes back only what it marked.
RewrittenMarkedOnly(j) ==
  CASE j.op \in {"remove", "missed", "delete"} ->
         Restrict(j.base, DOMAIN j.base \ j.ids)
    [] j.op = "fired" ->
         [t \in DOMAIN j.base \cap j.ids |-> [j.base[t] EXCEPT !.fired = j.at]]
    [] OTHER ->
         [t \in DOMAIN j.base \cup j.ids |->
           IF t \in j.ids THEN New(j.at) ELSE j.base[t]]

\* What removeCronTasks, markCronTasksFired and addCronTask write back.
Rewritten(j) ==
  CASE j.op \in {"remove", "missed", "delete"} ->
         Restrict(j.base, DOMAIN j.base \ j.ids)
    [] j.op = "fired" ->
         [t \in DOMAIN j.base |->
           IF t \in j.ids THEN [j.base[t] EXCEPT !.fired = j.at] ELSE j.base[t]]
    [] OTHER ->
         [t \in DOMAIN j.base \cup j.ids |->
           IF t \in j.ids THEN New(j.at) ELSE j.base[t]]

\* The end of a job that check() has started takes its tasks out of inFlight.
Settle(j) ==
  inFlight' = IF j.op \in {"remove", "fired"}
              THEN [inFlight EXCEPT ![j.by[1]] = @ \ j.ids] ELSE inFlight

Settled(j) == j.op = "create" \/ DOMAIN j.base \cap j.ids # {}

\* readCronTasks(): a torn file holds no tasks, and a job ends when its tasks
\* are not there.
JobReads(j) ==
  /\ j.step = "read"
  /\ Flaw("overlap", Torn)
  /\ LET read == [j EXCEPT !.step = "open", !.base = file] IN
     IF Settled(read)
     THEN jobs' = (jobs \ {j}) \cup {read} /\ UNCHANGED inFlight
     ELSE jobs' = jobs \ {j} /\ Settle(j)
  /\ UNCHANGED <<lockVars, edits, now, file, tasks, nextFireAt, loaded, watching,
                 changed, blind, handled, handler, kept>>

JobOpens(j) ==
  /\ j.step = "open"
  /\ Flaw("overlap", Torn \/ file # j.base)
  /\ file' = NoTasks
  /\ jobs' = (jobs \ {j}) \cup {[j EXCEPT !.step = "write"]}
  /\ UNCHANGED <<lockVars, edits, now, tasks, nextFireAt, inFlight, loaded, watching,
                 changed, blind, handled, handler, kept>>

\* markCronTasksFired() writes its time even over a later one.
SetsBack(j) ==
  j.op = "fired" /\ \E t \in DOMAIN j.base \cap j.ids : j.base[t].fired > j.at

JobWrites(j) ==
  /\ j.step = "write"
  /\ file' = Rewritten(j)
  /\ Flaw("setBack", SetsBack(j))
  /\ jobs' = jobs \ {j}
  /\ Settle(j)
  /\ changed' = [s \in Sessions |-> changed[s] \/ watching[s]]
  /\ blind' = [s \in Sessions |-> blind[s] \/ (loaded[s] /\ ~watching[s])]
  /\ kept' = CASE j.op = "create" -> kept \cup j.ids
               [] j.op = "fired"  -> kept
               [] OTHER           -> kept \ j.ids
  /\ UNCHANGED <<lockVars, edits, now, tasks, nextFireAt, loaded, watching,
                 handled, handler>>

\* A new id is a random one: nothing holds it yet.
Fresh(t) ==
  /\ t \notin DOMAIN file \cup kept /\ handled[t] = 0
  /\ \A j \in jobs : t \notin j.ids \cup DOMAIN j.base
  /\ \A s \in Sessions :
       t \notin DOMAIN tasks[s] \cup inFlight[s] /\ nextFireAt[s][t] = Unset

\* CronCreateTool and CronDeleteTool, in any session.
Create(s, t) ==
  /\ phase[s] # "down" /\ edits > 0
  /\ Fresh(t)
  /\ edits' = edits - 1
  /\ jobs' = jobs \cup {Job(s, "create", {t}, now)}
  /\ UNCHANGED <<lockVars, now, file, tasks, nextFireAt, inFlight, loaded, watching,
                 changed, blind, handled, handler, flaws, kept>>

Delete(s, t) ==
  /\ phase[s] # "down" /\ edits > 0 /\ t \in DOMAIN file
  /\ edits' = edits - 1
  /\ jobs' = jobs \cup {Job(s, "delete", {t}, 0)}
  /\ UNCHANGED <<lockVars, now, file, tasks, nextFireAt, inFlight, loaded, watching,
                 changed, blind, handled, handler, flaws, kept>>

-------------------------------------------------------------------------------
(* The scheduler *)

Handle(s, ids) ==
  /\ handled' = [t \in Tasks |->
       IF t \in ids /\ handled[t] < 2 THEN handled[t] + 1 ELSE handled[t]]
  /\ handler' = [t \in Tasks |-> IF t \in ids THEN Me(s) ELSE handler[t]]

\* findMissedTasks(), of which load(true) takes the one-shots.
Missed(content) ==
  {t \in DOMAIN content \ Recurring : content[t].created + 1 < now}

\* The timers and the watcher of a scheduler that is not stopped.
Runs(s) == phase[s] \in {"up", "closing"}

\* load(true), which every session does, whoever owns the lock.
InitialLoad(s) ==
  /\ Runs(s) /\ ~loaded[s]
  /\ loaded' = [loaded EXCEPT ![s] = TRUE]
  /\ tasks' = [tasks EXCEPT ![s] = file]
  /\ LET missed == Missed(file) IN
     /\ nextFireAt' = [nextFireAt EXCEPT ![s] =
          [t \in Tasks |-> IF t \in missed THEN Never ELSE @[t]]]
     /\ jobs' = IF missed = {} THEN jobs
                ELSE jobs \cup {Job(s, "missed", missed, 0)}
     /\ Handle(s, missed)
     /\ flaws' = flaws \cup (IF missed # {} /\ ~Holds(s) THEN {"unowned"} ELSE {})
                       \cup (IF Torn THEN {"torn"} ELSE {})
  /\ UNCHANGED <<lockVars, edits, now, file, inFlight, watching, changed, blind,
                 kept>>

\* chokidar is ready: what landed earlier is not reported (ignoreInitial).
WatcherReady(s) ==
  /\ Runs(s) /\ ~watching[s]
  /\ watching' = [watching EXCEPT ![s] = TRUE]
  /\ UNCHANGED <<lockVars, edits, now, file, tasks, nextFireAt, inFlight, loaded, changed,
                 blind, jobs, handled, handler, flaws, kept>>

\* The watcher reports a change once the file has been stable, load(false).
Reload(s) ==
  /\ Runs(s) /\ changed[s]
  /\ changed' = [changed EXCEPT ![s] = FALSE]
  /\ blind' = [blind EXCEPT ![s] = FALSE]
  /\ tasks' = [tasks EXCEPT ![s] = file]
  /\ Flaw("torn", Torn)
  /\ UNCHANGED <<lockVars, edits, now, file, nextFireAt, inFlight, loaded, watching, jobs,
                 handled, handler, kept>>

\* A mutant of Anchor: a one-shot is anchored at the time it is first seen.
AnchorAtFirstSight(s, t) ==
  IF nextFireAt[s][t] # Unset THEN nextFireAt[s][t]
  ELSE (IF t \in Recurring THEN tasks[s][t].fired ELSE now) + 1

\* The fire time of a task at first sight: after its last fire or its creation.
Anchor(s, t) ==
  IF nextFireAt[s][t] # Unset THEN nextFireAt[s][t]
  ELSE (IF t \in Recurring THEN tasks[s][t].fired ELSE tasks[s][t].created) + 1

Aged(s, t) == t \in Recurring /\ now - tasks[s][t].created >= MaxAge

\* A mutant of Due: a task whose rewrite of the file is under way fires again.
DueOrInFlight(s) ==
  {t \in DOMAIN tasks[s] : Anchor(s, t) # Never /\ Anchor(s, t) <= now}

Due(s) ==
  {t \in DOMAIN tasks[s] \ inFlight[s] :
     Anchor(s, t) # Never /\ Anchor(s, t) <= now}

\* check(): one tick of the interval.  Without the lock no file task is seen,
\* and the fire times of those not seen are dropped.
Check(s) ==
  /\ Runs(s) /\ loaded[s]
  /\ LET due   == IF isOwner[s] THEN Due(s) ELSE {}
         seen  == IF isOwner[s] THEN DOMAIN tasks[s] ELSE {}
         paced == {t \in due : t \in Recurring /\ ~Aged(s, t)}
     IN
     /\ nextFireAt' = [nextFireAt EXCEPT ![s] = [t \in Tasks |->
          IF t \notin seen \/ t \in due \ paced THEN Unset
          ELSE IF t \in paced THEN now + 1
          ELSE IF t \in inFlight[s] THEN @[t] ELSE Anchor(s, t)]]
     /\ inFlight' = [inFlight EXCEPT ![s] = @ \cup due]
     /\ jobs' = jobs \cup {Job(s, "remove", {t}, 0) : t \in due \ paced}
          \cup (IF paced = {} THEN {} ELSE {Job(s, "fired", paced, now)})
     /\ Handle(s, due)
     /\ Flaw("unowned", due # {} /\ ~Holds(s))
  /\ UNCHANGED <<lockVars, edits, now, file, tasks, loaded, watching, changed, blind,
                 kept>>

\* A new minute, in which a recurring task may run again.
Tick ==
  /\ now < MaxTime
  /\ now' = now + 1
  /\ handled' = [t \in Tasks |-> IF t \in Recurring THEN 0 ELSE handled[t]]
  /\ UNCHANGED <<lockVars, edits, file, tasks, nextFireAt, inFlight, loaded, watching,
                 changed, blind, jobs, handler, flaws, kept>>

-------------------------------------------------------------------------------
(* The lock, and what the end of a process takes with it *)

TakesLock(s) ==
  /\ LockSteps(s) \/ Start(s) \/ Probe(s) \/ Stop(s) \/ Shutdown(s)
  /\ UNCHANGED cronVars

Leaves(s) ==
  /\ LET own == {j \in jobs : j.by = Me(s)} IN
     /\ jobs' = jobs \ own
     /\ Flaw("killed", own # {})
  /\ tasks' = [tasks EXCEPT ![s] = NoTasks]
  /\ nextFireAt' = [nextFireAt EXCEPT ![s] = [t \in Tasks |-> Unset]]
  /\ inFlight' = [inFlight EXCEPT ![s] = {}]
  /\ loaded' = [loaded EXCEPT ![s] = FALSE]
  /\ watching' = [watching EXCEPT ![s] = FALSE]
  /\ changed' = [changed EXCEPT ![s] = FALSE]
  /\ blind' = [blind EXCEPT ![s] = FALSE]
  /\ UNCHANGED <<edits, now, file, handled, handler, kept>>

Ends(s) == (Exit(s) \/ Crash(s)) /\ Leaves(s)

JobSteps == \E j \in jobs : JobReads(j) \/ JobOpens(j) \/ JobWrites(j)

Loads(s) == InitialLoad(s) \/ WatcherReady(s) \/ Reload(s)

Next ==
  \/ Tick \/ JobSteps
  \/ \E s \in Sessions :
       \/ TakesLock(s) \/ Ends(s) \/ Loads(s) \/ Check(s)
       \/ \E t \in Tasks : Create(s, t) \/ Delete(s, t)

Spec == Init /\ [][Next]_vars

\* Timers fire, file operations end, the watcher reports and a shutdown ends.
Fairness ==
  /\ WF_vars(Tick) /\ WF_vars(JobSteps)
  /\ \A s \in Sessions :
       /\ WF_vars(LockSteps(s) /\ UNCHANGED cronVars)
       /\ WF_vars(Probe(s) /\ UNCHANGED cronVars)
       /\ WF_vars(phase[s] = "closing" /\ Exit(s) /\ Leaves(s))
       /\ WF_vars(Loads(s)) /\ WF_vars(Check(s))

FairSpec == Spec /\ Fairness

-------------------------------------------------------------------------------
\* Why a task may be handled again by the process p, with this copy of the
\* file, although nothing went wrong so far.
Excused(t, p, copy) ==
  \/ contested
  \/ t \notin DOMAIN file \/ t \notin DOMAIN copy \/ file[t] # copy[t]
  \/ \E j \in jobs : t \in j.ids /\ j.by # p

(* A one-shot is fired or surfaced once, and a recurring task once a         *)
(* minute, by all sessions together and across restarts.  The exceptions:    *)
(* two sessions own the lock, two rewrites of the file have overlapped or a  *)
(* session has loaded it in the middle of one, a late rewrite has put a last *)
(* fire back to an earlier one, a process ended with a rewrite under way, a  *)
(* session without the lock has handled tasks (surfaced missed ones, or      *)
(* fired some while it was shutting down), another process has not finished  *)
(* its rewrite, or the copy is older than the file.                          *)
AtMostOnce ==
  [][\A t \in Tasks :
       handled[t] = 1 /\ handled'[t] = 2 =>
         flaws' # {} \/ Excused(t, handler'[t], tasks'[handler'[t][1]])]_vars

(* Between rewrites, the file holds the tasks that a rewrite has added and   *)
(* none has removed (of a task that was fired, surfaced or deleted the       *)
(* removal may still be under way), unless two rewrites have overlapped or   *)
(* one was cut short: no rewrite loses, brings back or forgets another task. *)
FileAccounted ==
  flaws \cap {"overlap", "killed"} = {} /\ ~Torn => DOMAIN file = kept

(* A one-shot that is due does not stay in the file for ever without being   *)
(* fired or surfaced while there is an owner that runs and whose watcher     *)
(* missed nothing as it started.  Takeover says that there is an owner.      *)
DueTasksHandled ==
  \A t \in Tasks \ Recurring :
    []<>~(/\ t \in DOMAIN file /\ file[t].created < now /\ handled[t] = 0
          /\ \E s \in Sessions : isOwner[s] /\ phase[s] = "up" /\ ~blind[s])

(* What a comment promises, refuted by a run of its own: "inFlight guards    *)
(* against double-fire during the async removeCronTasks + chokidar reload"   *)
(* (cronScheduler.ts:333), so a one-shot fires once.                         *)
FiresOnce == \A t \in Tasks \ Recurring : handled[t] <= 1
===============================================================================
