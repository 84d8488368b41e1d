------------------------------ MODULE TaskList ------------------------------
(***************************************************************************)
(* utils/tasks.ts: a task list is a directory shared by agent processes,   *)
(* one JSON file per task, a high-water mark of the task IDs given out,    *)
(* one lock for the list and one for each task (proper-lockfile).          *)
(*                                                                         *)
(* An action is one file or lock operation with the computation that       *)
(* follows it; the last write of a call takes the release of its locks     *)
(* along.  writeFile is two actions, for it first truncates the file, and  *)
(* a reader in between finds nothing it can parse.                         *)
(***************************************************************************)
EXTENDS Integers, SequencesExt

CONSTANTS
  Callers,    \* agents, each with one call of tasks.ts at a time
  None,       \* no owner, nobody holds the lock
  Changes,    \* what TaskUpdate asks for: sets of fields with new values
  Initially,  \* tasks 1..Initially exist from an earlier session
  MaxId,      \* bound: task IDs
  MaxCalls,   \* bound: calls
  MaxCrashes  \* bound: crashed processes

Ids == 1..MaxId

Statuses == {"pending", "in_progress", "completed"}

Fields == {"owner", "status", "blocks", "blockedBy"}

(* born tells the lives of an ID apart; 0 stands for getTask's null: the   *)
(* file does not exist or cannot be parsed.                                *)
Task == [owner : Callers \cup {None}, status : Statuses,
         blocks : SUBSET Ids, blockedBy : SUBSET Ids, born : Nat]

NewTask(n) == [owner |-> None, status |-> "pending",
               blocks |-> {}, blockedBy |-> {}, born |-> n]
NoTask == NewTask(0)

Change == [fields : SUBSET Fields, new : Task]
Update == [id : Ids, fields : SUBSET Fields, new : Task]

ASSUME TaskListConstants ==
  /\ None \notin Callers
  /\ Changes \subseteq Change
  /\ MaxId \in Nat /\ Initially \in 0..MaxId
  /\ MaxCalls \in Nat /\ MaxCrashes \in Nat

VARIABLES
  files,    \* the IDs that have a file
  task,     \* what the file of an ID says
  mark,     \* the high-water mark (0: no file, or one that says nothing)
  listLock, \* who holds the list's lock
  taskLock, \* who holds a task's lock
  call,     \* what each caller is doing
  crashed,  \* callers whose process died; their locks go stale
  lives,    \* how often an ID was given out
  deletes,  \* deleteTask has been called
  calls     \* calls made

disk == <<files, task, mark>>
locks == <<listLock, taskLock>>
history == <<lives, deletes>>
vars == <<disk, locks, call, crashed, history, calls>>

Ops == {"none", "create", "update", "claim", "claimIfIdle", "delete",
        "block", "reset", "unassign"}

(* Where a call awaits.  Each update of todo goes through the last three.  *)
Pcs == {"idle", "createLock", "createScan", "createWrite",
        "claimLook", "claimRead", "claimList",
        "busyLook", "busyList", "busyRead",
        "mark", "markOpen", "markWrite",
        "deleteUnlink", "deleteList", "deleteRead", "blockRead",
        "resetLock", "resetScan", "resetList", "resetUnlink",
        "unassignList", "unassignRead",
        "look", "read", "write"}

(* ids: what it still has to read or unlink; seen: what it has read; open: *)
(* the file it has truncated and will write.                               *)
Call == [op : Ops, pc : Pcs, id : Ids \cup {0}, who : Callers \cup {None},
         ids : SUBSET Ids, seen : [Ids -> Task], todo : Seq(Update),
         highest : Int, atMark : Int, open : Ids \cup {0}]

Blank == [i \in Ids |-> NoTask]

Idle == [op |-> "none", pc |-> "idle", id |-> 0, who |-> None, ids |-> {},
         seen |-> Blank, todo |-> <<>>, highest |-> -1, atMark |-> -1,
         open |-> 0]

TypeOK ==
  /\ files \subseteq Ids
  /\ task \in [Ids -> Task]
  /\ mark \in Nat
  /\ listLock \in Callers \cup {None}
  /\ taskLock \in [Ids -> Callers \cup {None}]
  /\ call \in [Callers -> Call]
  /\ crashed \subseteq Callers
  /\ lives \in [Ids -> Nat]
  /\ deletes \in BOOLEAN
  /\ calls \in 0..MaxCalls

Init ==
  /\ files = 1..Initially
  /\ task = [i \in Ids |-> IF i <= Initially THEN NewTask(1) ELSE NoTask]
  /\ mark = 0
  /\ listLock = None
  /\ taskLock = [i \in Ids |-> None]
  /\ call = [c \in Callers |-> Idle]
  /\ crashed = {}
  /\ lives = [i \in Ids |-> IF i <= Initially THEN 1 ELSE 0]
  /\ deletes = FALSE
  /\ calls = 0

-----------------------------------------------------------------------------
(* Calls and locks *)

At(c, pc) == c \notin crashed /\ call[c].pc = pc
(* All files asked for have been read.                                     *)
AllRead(c, pc) == At(c, pc) /\ call[c].ids = {}

Exists(t) == t.born # 0
Open(t) == Exists(t) /\ t.status # "completed"

(* To go on at another await, having asked for the files of ids.           *)
Goto(c, pc, ids) ==
  call' = [call EXCEPT ![c] = [@ EXCEPT !.pc = pc, !.ids = ids]]

(* The finally blocks release whatever the call holds.                     *)
ReleaseAll(c) ==
  /\ listLock' = IF listLock = c THEN None ELSE listLock
  /\ taskLock' = [i \in Ids |-> IF taskLock[i] = c THEN None ELSE taskLock[i]]

(* Mutant: no finally block.                                               *)
ReturnHolding(c) ==
  /\ UNCHANGED locks
  /\ call' = [call EXCEPT ![c] = Idle]

Return(c) ==
  /\ ReleaseAll(c)
  /\ call' = [call EXCEPT ![c] = Idle]

(* On to the updates still to be made (updateTask), or back to the caller. *)
GoOn(c, todo) ==
  IF todo = <<>> THEN Return(c)
  ELSE /\ call' = [call EXCEPT ![c] =
                     [@ EXCEPT !.pc = "look", !.ids = {Head(todo).id},
                               !.seen = Blank, !.todo = todo, !.open = 0]]
       /\ taskLock' = [i \in Ids |->
                         IF taskLock[i] = c THEN None ELSE taskLock[i]]
       /\ UNCHANGED listLock

(* A lock nobody refreshes goes stale and is taken over.                   *)
Free(holder) == holder = None \/ holder \in crashed

TakeListLock(c) ==
  /\ Free(listLock)
  /\ listLock' = c
  /\ UNCHANGED taskLock
TakeTaskLock(c, i) ==
  /\ Free(taskLock[i])
  /\ taskLock' = [taskLock EXCEPT ![i] = c]
  /\ UNCHANGED listLock

(* The task a call is about to lock: it has seen that there is one.        *)
Target(c) == IF call[c].todo = <<>> THEN call[c].id ELSE Head(call[c].todo).id

Found(c, pc) == AllRead(c, pc) /\ Exists(call[c].seen[Target(c)])

WantsList(c) ==
  At(c, "createLock") \/ At(c, "resetLock") \/ Found(c, "busyLook")
WantsTask(c) == Found(c, "claimLook") \/ Found(c, "look")

(* lock() throws when its retries are used up, or at once when the file to *)
(* be locked does not exist; no caller goes on after that.                 *)
LockFails(c) ==
  /\ \/ WantsList(c) /\ listLock # None
     \/ /\ WantsTask(c)
        /\ taskLock[Target(c)] # None \/ Target(c) \notin files
  /\ Return(c)
  /\ UNCHANGED <<disk, crashed, history, calls>>

(* getTask, for the calls that read one file or several (Promise.all).     *)
ReadTask(c, i) ==
  /\ c \notin crashed
  /\ i \in call[c].ids /\ call[c].pc # "resetUnlink"
  /\ call' = [call EXCEPT ![c].ids = @ \ {i}, ![c].seen[i] = task[i]]
  /\ UNCHANGED <<disk, locks, crashed, history, calls>>

(* The readdir of listTasks.                                               *)
ListFiles(c, from, to) ==
  /\ At(c, from)
  /\ Goto(c, to, files)
  /\ UNCHANGED <<disk, locks, crashed, history, calls>>

(* unlink: whoever has the file open writes to a file without a name.      *)
Unlink(i) ==
  /\ files' = files \ {i}
  /\ task' = [task EXCEPT ![i] = NoTask]
Orphaned(i, calling) ==
  [c \in Callers |-> IF calling[c].open = i THEN [calling[c] EXCEPT !.open = 0]
                     ELSE calling[c]]

-----------------------------------------------------------------------------
(* Calls begin.  A caller knows the IDs that have been given out.          *)

Known == {i \in Ids : lives[i] > 0}

Begin(c, op, pc, r) ==
  /\ At(c, "idle") /\ calls < MaxCalls
  /\ calls' = calls + 1
  /\ call' = [call EXCEPT ![c] = [r EXCEPT !.op = op, !.pc = pc]]
  /\ deletes' = (deletes \/ op = "delete")
  /\ UNCHANGED <<disk, locks, crashed, lives>>

OnTask(i) == [Idle EXCEPT !.id = i, !.ids = {i}]

BeginCreate(c) ==
  /\ Cardinality(Known)
       + Cardinality({d \in Callers : call[d].op = "create"}) < MaxId
  /\ Begin(c, "create", "createLock", Idle)

BeginUpdate(c) ==
  \E i \in Known, ch \in Changes :
    Begin(c, "update", "look",
          [OnTask(i) EXCEPT !.todo =
             <<[id |-> i, fields |-> ch.fields, new |-> ch.new]>>])

BeginCall(c) ==
  \/ BeginCreate(c)
  \/ BeginUpdate(c)
  \/ \E i \in Known :
       \/ Begin(c, "claim", "claimLook", OnTask(i))
       \/ Begin(c, "claimIfIdle", "busyLook", OnTask(i))
       \/ Begin(c, "delete", "mark", [Idle EXCEPT !.id = i, !.highest = i])
       \/ \E j \in Known \ {i} :
            Begin(c, "block", "blockRead",
                  [Idle EXCEPT !.id = i, !.ids = {i, j}])
  \/ Begin(c, "reset", "resetLock", Idle)
  \/ \E who \in Callers :
       Begin(c, "unassign", "unassignList", [Idle EXCEPT !.who = who])

-----------------------------------------------------------------------------
(* createTask, under the list's lock *)

CreateLocks(c) ==
  /\ At(c, "createLock")
  /\ TakeListLock(c)
  /\ Goto(c, "createScan", {})
  /\ UNCHANGED <<disk, crashed, history, calls>>

(* findHighestTaskId reads the directory and the mark side by side.        *)
ScanFiles(c) ==
  /\ At(c, "createScan") /\ call[c].highest = -1
  /\ call' = [call EXCEPT ![c].highest = Max(files \cup {0})]
  /\ UNCHANGED <<disk, locks, crashed, history, calls>>
ScanMark(c) ==
  /\ At(c, "createScan") /\ call[c].atMark = -1
  /\ call' = [call EXCEPT ![c].atMark = mark]
  /\ UNCHANGED <<disk, locks, crashed, history, calls>>

(* Mutant: the mark is forgotten.                                          *)
NextIdFromFiles(r) == r.highest + 1
NextId(r) == Max({r.highest, r.atMark}) + 1

CreateOpens(c) ==
  LET n == NextId(call[c])
  IN  /\ At(c, "createScan") /\ call[c].highest # -1 /\ call[c].atMark # -1
      /\ n \in Ids
      /\ files' = files \cup {n}
      /\ task' = [task EXCEPT ![n] = NoTask]
      /\ lives' = [lives EXCEPT ![n] = @ + 1]
      /\ call' = [call EXCEPT ![c] = [@ EXCEPT !.pc = "createWrite", !.id = n,
                                               !.open = n]]
      /\ UNCHANGED <<mark, locks, crashed, deletes, calls>>

CreateWrites(c) ==
  /\ At(c, "createWrite")
  /\ task' = IF call[c].open = 0 THEN task
             ELSE [task EXCEPT ![call[c].id] = NewTask(lives[call[c].id])]
  /\ Return(c)
  /\ UNCHANGED <<files, mark, crashed, history, calls>>

-----------------------------------------------------------------------------
(* updateTask, for each update of todo in turn *)

(* Only the fields the update names change.                                *)
Applied(u, t) ==
  [t EXCEPT
     !.owner = IF "owner" \in u.fields THEN u.new.owner ELSE @,
     !.status = IF "status" \in u.fields THEN u.new.status ELSE @,
     !.blocks = IF "blocks" \in u.fields THEN u.new.blocks ELSE @,
     !.blockedBy = IF "blockedBy" \in u.fields THEN u.new.blockedBy ELSE @]

(* Mutant: the task read before the lock was taken is good enough.         *)
UpdateLocksUnread(c) ==
  /\ Found(c, "look")
  /\ TakeTaskLock(c, Target(c))
  /\ Goto(c, "read", {})
  /\ UNCHANGED <<disk, crashed, history, calls>>

UpdateLocks(c) ==
  /\ Found(c, "look")
  /\ TakeTaskLock(c, Target(c))
  /\ Goto(c, "read", {Target(c)})
  /\ UNCHANGED <<disk, crashed, history, calls>>

(* No such task, before or after taking the lock: nothing is written.      *)
UpdateSkips(c) ==
  /\ AllRead(c, "look") \/ AllRead(c, "read")
  /\ ~Exists(call[c].seen[Target(c)])
  /\ GoOn(c, Tail(call[c].todo))
  /\ UNCHANGED <<disk, crashed, history, calls>>

(* updateTaskUnsafe writes what it has read, changed; it creates the file  *)
(* anew if it was deleted in the meantime.                                 *)
UpdateOpens(c) ==
  /\ Found(c, "read")
  /\ files' = files \cup {Target(c)}
  /\ task' = [task EXCEPT ![Target(c)] = NoTask]
  /\ call' = [call EXCEPT ![c] = [@ EXCEPT !.pc = "write",
                                           !.open = Target(c)]]
  /\ UNCHANGED <<mark, locks, crashed, history, calls>>

UpdateWrites(c) ==
  LET i == Target(c)
  IN  /\ At(c, "write")
      /\ task' = IF call[c].open = 0 THEN task
                 ELSE [task EXCEPT ![i] = Applied(Head(call[c].todo),
                                                  call[c].seen[i])]
      /\ GoOn(c, Tail(call[c].todo))
      /\ UNCHANGED <<files, mark, crashed, history, calls>>

UpdateStep(c) ==
  UpdateLocks(c) \/ UpdateSkips(c) \/ UpdateOpens(c) \/ UpdateWrites(c)

-----------------------------------------------------------------------------
(* claimTask, under the task's lock or (checkAgentBusy) the list's *)

(* Mutant: any open task can be claimed.                                   *)
ClaimableByAnybody(t, c) == Open(t)
Claimable(t, c) == Open(t) /\ t.owner \in {None, c}

Blockers(r) == {b \in r.seen[r.id].blockedBy : Open(r.seen[b])}

OwnedBy(c, i) == [id |-> i, fields |-> {"owner"},
                  new |-> [NoTask EXCEPT !.owner = c]]

ClaimLocks(c) ==
  /\ Found(c, "claimLook")
  /\ TakeTaskLock(c, call[c].id)
  /\ Goto(c, "claimRead", {call[c].id})
  /\ UNCHANGED <<disk, crashed, history, calls>>

ClaimLists(c) ==
  /\ AllRead(c, "claimRead")
  /\ Claimable(call[c].seen[call[c].id], c)
  /\ Goto(c, "claimList", files \ {call[c].id})
  /\ UNCHANGED <<disk, locks, crashed, history, calls>>

(* The claim goes on with updateTaskUnsafe, which reads the task again.    *)
ClaimPasses(c) ==
  /\ AllRead(c, "claimList")
  /\ Blockers(call[c]) = {}
  /\ call' = [call EXCEPT ![c] =
                [@ EXCEPT !.pc = "read", !.ids = {call[c].id},
                          !.todo = <<OwnedBy(c, call[c].id)>>]]
  /\ UNCHANGED <<disk, locks, crashed, history, calls>>

BusyLocks(c) ==
  /\ Found(c, "busyLook")
  /\ TakeListLock(c)
  /\ call' = [call EXCEPT ![c] = [@ EXCEPT !.pc = "busyList", !.seen = Blank]]
  /\ UNCHANGED <<disk, crashed, history, calls>>

Busy(c) == \E i \in Ids \ {call[c].id} :
             Open(call[c].seen[i]) /\ call[c].seen[i].owner = c

BusyPasses(c) ==
  /\ AllRead(c, "busyRead")
  /\ Claimable(call[c].seen[call[c].id], c)
  /\ Blockers(call[c]) = {} /\ ~Busy(c)
  /\ GoOn(c, <<OwnedBy(c, call[c].id)>>)
  /\ UNCHANGED <<disk, crashed, history, calls>>

ClaimRefused(c) ==
  LET t == call[c].seen[call[c].id]
  IN  /\ \/ (AllRead(c, "claimLook") \/ AllRead(c, "busyLook")) /\ ~Exists(t)
         \/ AllRead(c, "claimRead") /\ ~Claimable(t, c)
         \/ AllRead(c, "claimList") /\ Blockers(call[c]) # {}
         \/ /\ AllRead(c, "busyRead")
            /\ ~Claimable(t, c) \/ Blockers(call[c]) # {} \/ Busy(c)
      /\ Return(c)
      /\ UNCHANGED <<disk, crashed, history, calls>>

ClaimStep(c) ==
  \/ ClaimLocks(c) \/ ClaimLists(c) \/ ClaimPasses(c) \/ ClaimRefused(c)
  \/ BusyLocks(c) \/ ListFiles(c, "busyList", "busyRead") \/ BusyPasses(c)

-----------------------------------------------------------------------------
(* The high-water mark, raised by deleteTask and resetTaskList *)

AfterMark(c) == IF call[c].op = "delete" THEN "deleteUnlink" ELSE "resetList"

ReadMark(c) ==
  /\ At(c, "mark")
  /\ Goto(c, IF call[c].highest > mark THEN "markOpen" ELSE AfterMark(c), {})
  /\ UNCHANGED <<disk, locks, crashed, history, calls>>
OpenMark(c) ==
  /\ At(c, "markOpen")
  /\ mark' = 0
  /\ Goto(c, "markWrite", {})
  /\ UNCHANGED <<files, task, locks, crashed, history, calls>>
WriteMark(c) ==
  /\ At(c, "markWrite")
  /\ mark' = call[c].highest
  /\ Goto(c, AfterMark(c), {})
  /\ UNCHANGED <<files, task, locks, crashed, history, calls>>

MarkStep(c) == ReadMark(c) \/ OpenMark(c) \/ WriteMark(c)

-----------------------------------------------------------------------------
(* deleteTask, without a lock until it updates the other tasks *)

DeleteUnlinks(c) ==
  LET i == call[c].id
  IN  /\ At(c, "deleteUnlink") /\ i \in files
      /\ Unlink(i)
      /\ call' = Orphaned(i, [call EXCEPT ![c].pc = "deleteList"])
      /\ UNCHANGED <<mark, locks, crashed, history, calls>>

DeleteFindsNone(c) ==
  /\ At(c, "deleteUnlink") /\ call[c].id \notin files
  /\ Return(c)
  /\ UNCHANGED <<disk, crashed, history, calls>>

(* The update of task i that takes references to d away.                   *)
Dereferenced(seen, i, d) ==
  [id |-> i, fields |-> {"blocks", "blockedBy"},
   new |-> [NoTask EXCEPT !.blocks = seen[i].blocks \ {d},
                          !.blockedBy = seen[i].blockedBy \ {d}]]

(* The tasks are visited in the order of the directory, which is any.      *)
InAnyOrder(c, ids, UpdateOf(_)) ==
  \E order \in SetToSeqs(ids) :
    GoOn(c, [k \in DOMAIN order |-> UpdateOf(order[k])])

DeleteCascades(c) ==
  LET d == call[c].id
      seen == call[c].seen
  IN  /\ AllRead(c, "deleteRead")
      /\ InAnyOrder(c, {i \in Ids : d \in seen[i].blocks \cup seen[i].blockedBy},
                    LAMBDA i : Dereferenced(seen, i, d))
      /\ UNCHANGED <<disk, crashed, history, calls>>

DeleteStep(c) ==
  \/ DeleteUnlinks(c) \/ DeleteFindsNone(c)
  \/ ListFiles(c, "deleteList", "deleteRead") \/ DeleteCascades(c)

-----------------------------------------------------------------------------
(* blockTask, resetTaskList, unassignTeammateTasks *)

(* Each side's new array is made from what was read at the beginning.      *)
Edges(i, j, seen) ==
  (IF j \in seen[i].blocks THEN <<>>
   ELSE <<[id |-> i, fields |-> {"blocks"},
           new |-> [NoTask EXCEPT !.blocks = seen[i].blocks \cup {j}]]>>)
  \o
  (IF i \in seen[j].blockedBy THEN <<>>
   ELSE <<[id |-> j, fields |-> {"blockedBy"},
           new |-> [NoTask EXCEPT !.blockedBy = seen[j].blockedBy \cup {i}]]>>)

BlockDecides(c) ==
  LET i == call[c].id
      seen == call[c].seen
      others == {j \in Ids \ {i} : Exists(seen[j])}
  IN  /\ AllRead(c, "blockRead")
      /\ IF ~Exists(seen[i]) \/ others = {} THEN Return(c)
         ELSE \E j \in others : GoOn(c, Edges(i, j, seen))
      /\ UNCHANGED <<disk, crashed, history, calls>>

ResetLocks(c) ==
  /\ At(c, "resetLock")
  /\ TakeListLock(c)
  /\ Goto(c, "resetScan", {})
  /\ UNCHANGED <<disk, crashed, history, calls>>

ResetScans(c) ==
  LET highest == Max(files \cup {0})
  IN  /\ At(c, "resetScan")
      /\ call' = [call EXCEPT ![c] =
                    [@ EXCEPT !.highest = highest,
                              !.pc = IF highest > 0 THEN "mark"
                                     ELSE "resetList"]]
      /\ UNCHANGED <<disk, locks, crashed, history, calls>>

(* Files that are already gone are passed over.                            *)
ResetUnlinks(c, i) ==
  /\ At(c, "resetUnlink") /\ i \in call[c].ids
  /\ Unlink(i)
  /\ call' = Orphaned(i, [call EXCEPT ![c].ids = @ \ {i}])
  /\ UNCHANGED <<mark, locks, crashed, history, calls>>
ResetReturns(c) ==
  /\ AllRead(c, "resetUnlink")
  /\ Return(c)
  /\ UNCHANGED <<disk, crashed, history, calls>>

ResetStep(c) ==
  \/ ResetLocks(c) \/ ResetScans(c) \/ ListFiles(c, "resetList", "resetUnlink")
  \/ (\E i \in call[c].ids : ResetUnlinks(c, i)) \/ ResetReturns(c)

(* Mutant: the status goes the way of the owner, undefined.                *)
UnassignedAltogether(i) ==
  [id |-> i, fields |-> {"owner", "status"},
   new |-> [NoTask EXCEPT !.status = None]]

Unassigned(i) == [id |-> i, fields |-> {"owner", "status"}, new |-> NoTask]

UnassignDecides(c) ==
  LET seen == call[c].seen
  IN  /\ AllRead(c, "unassignRead")
      /\ InAnyOrder(c, {i \in Ids : Open(seen[i]) /\ seen[i].owner = call[c].who},
                    Unassigned)
      /\ UNCHANGED <<disk, crashed, history, calls>>

-----------------------------------------------------------------------------
(* A process dies.  One that holds no lock and has no file open leaves     *)
(* nothing behind and differs in no way from one that is slow.             *)
Crash(c) ==
  /\ c \notin crashed
  /\ \/ listLock = c \/ \E i \in Ids : taskLock[i] = c
     \/ call[c].open # 0 \/ call[c].pc = "markWrite"
  /\ Cardinality(crashed) < MaxCrashes
  /\ crashed' = crashed \cup {c}
  /\ UNCHANGED <<disk, locks, call, history, calls>>

Step(c) ==
  \/ \E i \in call[c].ids : ReadTask(c, i)
  \/ CreateLocks(c) \/ ScanFiles(c) \/ ScanMark(c) \/ CreateOpens(c)
  \/ CreateWrites(c)
  \/ UpdateStep(c) \/ ClaimStep(c) \/ MarkStep(c) \/ DeleteStep(c)
  \/ BlockDecides(c) \/ ResetStep(c)
  \/ ListFiles(c, "unassignList", "unassignRead") \/ UnassignDecides(c)

Next == \E c \in Callers : Step(c) \/ LockFails(c) \/ BeginCall(c) \/ Crash(c)

Spec == Init /\ [][Next]_vars

-----------------------------------------------------------------------------
(* Properties *)

(* However createTask and resetTaskList interleave, and wherever a process *)
(* dies, no ID is given out twice, so that no task's file is overwritten   *)
(* by createTask -- as long as nobody calls deleteTask (findHighestTaskId, *)
(* the high-water mark and the list's lock).                               *)
NoIdReusedByReset == ~deletes => \A i \in Ids : lives[i] <= 1

(* No update is lost: when updateTaskUnsafe writes a task, what it read is *)
(* still what the file says, if the file is of the same task (the task     *)
(* lock is taken before reading and held over every write).                *)
Writing(c) == Found(c, "read") /\ task[Target(c)].born
                                    = call[c].seen[Target(c)].born
NoLostUpdate ==
  \A c \in Callers : Writing(c) => task[Target(c)] = call[c].seen[Target(c)]

(* A claim under the task's lock never takes a task away from another      *)
(* agent, nor does it claim a completed one (claimTask).  Of a claim with  *)
(* checkAgentBusy this does not hold: updateTask takes the task's lock     *)
(* only after the check, and does not look again.                          *)
TakesNothing(c) == /\ task[call[c].id].owner \in {None, c}
                   /\ task[call[c].id].status # "completed"

ClaimTakesNothing ==
  \A c \in Callers : Writing(c) /\ call[c].op = "claim" => TakesNothing(c)

(* The calls are never all waiting for each other's locks, without         *)
(* counting on the retries to run out: claimIfIdle takes a task's lock     *)
(* while it holds the list's, every call gives back what it holds, and the *)
(* locks of the dead go stale (proper-lockfile, the finally blocks).       *)
Waits(c) == \/ WantsList(c) /\ ~Free(listLock)
            \/ WantsTask(c) /\ ~Free(taskLock[Target(c)])
Active == {c \in Callers : c \notin crashed /\ call[c].pc # "idle"}
NoDeadlock == Active # {} => \E c \in Active : ~Waits(c)

(* What comments promise (each is refuted by a run of its own).            *)

(* tasks.ts:410: "Update high water mark before deleting to prevent ID     *)
(* reuse".                                                                 *)
IdsNeverReused == \A i \in Ids : lives[i] <= 1
=============================================================================
