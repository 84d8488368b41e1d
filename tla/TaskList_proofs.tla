--------------------------- MODULE TaskList_proofs ---------------------------
(***************************************************************************)
(* Proofs about TaskList for any agents, any number of tasks, calls and    *)
(* crashes, and any updates.                                               *)
(***************************************************************************)
EXTENDS TaskList, FiniteSetTheorems, TLAPS

W == INSTANCE WellFoundedInduction

-----------------------------------------------------------------------------
(* The library operators the actions are built from *)

(* The IDs of a set in any order are a sequence of IDs.                    *)
LEMMA OrderType ==
  ASSUME TaskListConstants, NEW ids \in SUBSET Ids, NEW order \in SetToSeqs(ids)
  PROVE  order \in Seq(Ids) /\ \A k \in DOMAIN order : order[k] \in ids
  <1>1. IsFiniteSet(1..MaxId)
    BY FS_Interval DEF TaskListConstants
  <1>2. IsFiniteSet(ids)
    BY <1>1, FS_Subset DEF Ids
  <1>3. Cardinality(ids) \in Nat
    BY <1>2, FS_CardinalityType
  <1>4. QED BY <1>3 DEF SetToSeqs

(* A set of naturals below a bound has a maximum.                          *)
LEMMA MaxIn ==
  ASSUME NEW n \in Nat, NEW S \in SUBSET (0..n), S # {}
  PROVE  Max(S) \in S /\ \A y \in S : Max(S) >= y
  <1> DEFINE D == {k \in Nat : n - k \in S}
  <1>1. D \subseteq Nat /\ D # {}
    <2>1. PICK x \in S : TRUE
      OBVIOUS
    <2>2. n - x \in Nat /\ n - (n - x) = x
      BY <2>1
    <2>3. QED BY <2>2
  <1>2. PICK k \in D : \A m \in D : ~(<<m, k>> \in W!OpToRel(<, Nat))
    <2> HIDE DEF D
    <2>1. QED BY <1>1, W!NatLessThanWellFounded, W!WFMin
  <1>3. \A m \in D : ~(m < k)
    BY <1>1, <1>2 DEF W!OpToRel
  <1>4. ASSUME NEW y \in S PROVE n - k >= y
    <2>1. y \in 0..n /\ k \in Nat
      BY <1>2
    <2>2. n - y \in D
      BY <2>1
    <2>3. ~(n - y < k)
      BY <2>2, <1>3
    <2>4. QED BY <2>1, <2>3
  <1>5. \E x \in S : \A y \in S : x >= y
    BY <1>2, <1>4
  <1>6. QED BY <1>5 DEF Max

LEMMA HighestType ==
  ASSUME TaskListConstants, files \subseteq Ids
  PROVE  /\ Max(files \cup {0}) \in Nat
         /\ \A i \in files : Max(files \cup {0}) >= i
         /\ Max(files \cup {0}) \in files \cup {0}
  <1> DEFINE S == files \cup {0}
  <1>1. S \in SUBSET (0..MaxId) /\ S # {} /\ MaxId \in Nat
    BY DEF Ids, TaskListConstants
  <1> HIDE DEF S
  <1>2. Max(S) \in S /\ \A y \in S : Max(S) >= y
    BY <1>1, MaxIn
  <1>n. S \subseteq Nat
    BY <1>1
  <1>3. Max(S) \in Nat
    BY <1>n, <1>2
  <1>4. QED BY <1>2, <1>3 DEF S

-----------------------------------------------------------------------------
(* What a call in progress looks like *)

(* Whoever goes through the updates has one to make, whoever has still to  *)
(* look at its own task knows its ID, and only an ID is written as mark.   *)
OwnTaskPcs == {"claimLook", "claimRead", "claimList",
               "busyLook", "busyList", "busyRead", "blockRead"}
Shaped(r) ==
  /\ r.pc \in {"look", "read", "write"} => r.todo # <<>>
  /\ r.pc \in OwnTaskPcs => r.todo = <<>> /\ r.id \in Ids
  /\ r.pc \in {"markOpen", "markWrite"} => r.highest \in Nat

TypeInv == TypeOK /\ \A c \in Callers : Shaped(call[c])

(* Where a call holds no list lock, where it holds its task's lock, and    *)
(* where it holds the list's lock to give out an ID.                       *)
Listless == {"idle", "createLock", "resetLock", "busyLook"}
TaskPcs == {"claimRead", "claimList", "read", "write"}
Creating == {"createScan", "createWrite"}

TargetOf(r) == IF r.todo = <<>> THEN r.id ELSE Head(r.todo).id

(* What a step of c may do to the locks and to where c is.                 *)
Keeps(c, r, s) ==
  /\ UNCHANGED locks
  /\ s.pc \in Listless => r.pc \in Listless
  /\ s.pc \in Creating => r.pc \in Creating
  /\ s.pc \in TaskPcs <=> r.pc \in TaskPcs
  /\ s.pc \in TaskPcs => TargetOf(s) = TargetOf(r)
Returns(c, s) == ReleaseAll(c) /\ s.pc = "idle"
GoesOn(c, s) ==
  /\ s.pc = "look"
  /\ taskLock' = [i \in Ids |-> IF taskLock[i] = c THEN None ELSE taskLock[i]]
  /\ UNCHANGED listLock
TakesList(c, r, s) ==
  /\ TakeListLock(c)
  /\ s.pc \notin Listless \cup TaskPcs /\ r.pc \notin TaskPcs
TakesTask(c, r, s) ==
  /\ TakeTaskLock(c, TargetOf(s)) /\ TargetOf(s) \in Ids
  /\ s.pc \in TaskPcs /\ r.pc \notin TaskPcs

LockStep(c) ==
  \/ Keeps(c, call[c], call'[c])
  \/ Returns(c, call'[c])
  \/ GoesOn(c, call'[c])
  \/ TakesList(c, call[c], call'[c])
  \/ TakesTask(c, call[c], call'[c])

(* A step of c changes no other call, except that it may take the file     *)
(* away that the other one has open.                                       *)
Stepped(c) ==
  /\ c \notin crashed /\ crashed' = crashed
  /\ call' \in [Callers -> Call]
  /\ Shaped(call'[c])
  /\ \A d \in Callers \ {c} : call'[d] \in {call[d], [call[d] EXCEPT !.open = 0]}
  /\ LockStep(c)

LEMMA NoTaskType == NoTask \in Task /\ \A n \in Nat : NewTask(n) \in Task
  BY DEF NoTask, NewTask, Task, Statuses

LEMMA BlankType == Blank \in [Ids -> Task] /\ Idle \in Call /\ Shaped(Idle)
  <1>1. Blank \in [Ids -> Task]
    BY NoTaskType DEF Blank
  <1>2. Idle \in Call
    BY <1>1 DEF Idle, Call, Ops, Pcs
  <1>3. QED BY <1>1, <1>2 DEF Idle, Shaped, OwnTaskPcs

(* To write a call's record.                                               *)
LEMMA CallWritten ==
  ASSUME TypeInv, NEW c \in Callers, NEW s \in Call,
         call' = [call EXCEPT ![c] = s]
  PROVE  /\ call' \in [Callers -> Call]
         /\ call'[c] = s
         /\ \A d \in Callers \ {c} : call'[d] = call[d]
  BY DEF TypeInv, TypeOK

LEMMA GotoType ==
  ASSUME NEW r \in Call, NEW pc \in Pcs, NEW ids \in SUBSET Ids
  PROVE  [r EXCEPT !.pc = pc, !.ids = ids] \in Call
  BY DEF Call

LEMMA ReturnSteps ==
  ASSUME TypeInv, NEW c \in Callers, c \notin crashed, crashed' = crashed, Return(c)
  PROVE  Stepped(c)
  <1>1. call' = [call EXCEPT ![c] = Idle]
    BY DEF Return
  <1>2. /\ call' \in [Callers -> Call]
        /\ call'[c] = Idle
        /\ \A d \in Callers \ {c} : call'[d] = call[d]
    BY <1>1, BlankType, CallWritten
  <1>3. Returns(c, call'[c])
    BY <1>2 DEF Returns, Return, Idle
  <1>4. QED BY <1>2, <1>3, BlankType DEF Stepped, LockStep

(* On to the next update: what is asked for is a task.                     *)
LEMMA GoOnSteps ==
  ASSUME TypeInv, NEW c \in Callers, c \notin crashed, crashed' = crashed,
         NEW todo \in Seq(Update), GoOn(c, todo)
  PROVE  Stepped(c)
  <1>1. CASE todo = <<>>
    BY <1>1, ReturnSteps DEF GoOn
  <1>2. CASE todo # <<>>
    <2> DEFINE s == [call[c] EXCEPT !.pc = "look", !.ids = {Head(todo).id},
                                    !.seen = Blank, !.todo = todo, !.open = 0]
    <2>1. Head(todo) \in Update
      BY <1>2
    <2>2. Head(todo).id \in Ids
      BY <2>1 DEF Update
    <2>3. call[c] \in Call
      BY DEF TypeInv, TypeOK
    <2>4. s \in Call
      BY <2>2, <2>3, BlankType DEF Call, Pcs
    <2>5. s.pc = "look" /\ s.todo = todo
      BY <2>3 DEF Call
    <2>6. call' = [call EXCEPT ![c] = s]
      BY <1>2 DEF GoOn
    <2> HIDE DEF s
    <2>7. /\ call' \in [Callers -> Call]
          /\ call'[c] = s
          /\ \A d \in Callers \ {c} : call'[d] = call[d]
      BY <2>4, <2>6, CallWritten
    <2>8. GoesOn(c, call'[c])
      BY <1>2, <2>5, <2>7 DEF GoesOn, GoOn
    <2>9. Shaped(call'[c])
      BY <1>2, <2>5, <2>7 DEF Shaped, OwnTaskPcs
    <2>10. QED BY <2>7, <2>8, <2>9 DEF Stepped, LockStep
  <1>3. QED BY <1>1, <1>2

(* A step that gives no lock back.                                         *)
LEMMA MoveSteps ==
  ASSUME TypeInv, NEW c \in Callers, c \notin crashed, crashed' = crashed,
         NEW s \in Call, call' = [call EXCEPT ![c] = s], Shaped(s),
         Keeps(c, call[c], s) \/ TakesList(c, call[c], s) \/ TakesTask(c, call[c], s)
  PROVE  Stepped(c)
  <1>1. /\ call' \in [Callers -> Call]
        /\ call'[c] = s
        /\ \A d \in Callers \ {c} : call'[d] = call[d]
    BY CallWritten
  <1>2. QED BY <1>1 DEF Stepped, LockStep

LEMMA GotoSteps ==
  ASSUME TypeInv, NEW c \in Callers, c \notin crashed, crashed' = crashed,
         UNCHANGED locks,
         NEW pc \in Pcs, NEW ids \in SUBSET Ids, Goto(c, pc, ids),
         pc \notin Listless \cup {"look", "read", "write", "markOpen", "markWrite"},
         pc \in OwnTaskPcs => call[c].todo = <<>> /\ call[c].id \in Ids,
         pc \in Creating => call[c].pc \in Creating,
         pc \in TaskPcs <=> call[c].pc \in TaskPcs
  PROVE  Stepped(c)
  <1> DEFINE s == [call[c] EXCEPT !.pc = pc, !.ids = ids]
  <1>1. call[c] \in Call
    BY DEF TypeInv, TypeOK
  <1>2. s \in Call /\ s.pc = pc /\ s.todo = call[c].todo /\ s.id = call[c].id
    BY <1>1 DEF Call
  <1>3. call' = [call EXCEPT ![c] = s]
    BY DEF Goto
  <1> HIDE DEF s
  <1>4. Shaped(s)
    BY <1>2 DEF Shaped
  <1>5. Keeps(c, call[c], s)
    BY <1>2 DEF Keeps, TargetOf
  <1>6. QED BY <1>2, <1>3, <1>4, <1>5, MoveSteps

-----------------------------------------------------------------------------
(* Every action is such a step.  Reading: *)

LEMMA ReadSteps ==
  ASSUME TypeInv, NEW c \in Callers, NEW i, ReadTask(c, i)
  PROVE  Stepped(c)
  <1> DEFINE s == [call[c] EXCEPT !.ids = @ \ {i}, !.seen = [@ EXCEPT ![i] = task[i]]]
  <1>1. call[c] \in Call /\ i \in Ids /\ task[i] \in Task
    BY DEF TypeInv, TypeOK, ReadTask, Call
  <1>2. /\ s \in Call /\ s.pc = call[c].pc /\ s.todo = call[c].todo
        /\ s.id = call[c].id /\ s.highest = call[c].highest
    BY <1>1 DEF Call
  <1>3. /\ call' = [call EXCEPT ![c] = s]
        /\ c \notin crashed /\ crashed' = crashed /\ UNCHANGED locks
    BY <1>1 DEF ReadTask, TypeInv, TypeOK
  <1> HIDE DEF s
  <1>4. Shaped(s) /\ Keeps(c, call[c], s)
    BY <1>2, <1>3 DEF Shaped, Keeps, TargetOf, TypeInv
  <1>5. QED BY <1>2, <1>3, <1>4, MoveSteps

LEMMA ListSteps ==
  ASSUME TypeInv, NEW c \in Callers,
         \/ ListFiles(c, "busyList", "busyRead")
         \/ ListFiles(c, "deleteList", "deleteRead")
         \/ ListFiles(c, "resetList", "resetUnlink")
         \/ ListFiles(c, "unassignList", "unassignRead")
  PROVE  Stepped(c)
  <1>1. files \in SUBSET Ids
    BY DEF TypeInv, TypeOK
  <1>2. PICK from \in {"busyList", "deleteList", "resetList", "unassignList"},
             to \in {"busyRead", "deleteRead", "resetUnlink", "unassignRead"} :
          /\ ListFiles(c, from, to)
          /\ to = "busyRead" => from = "busyList"
    OBVIOUS
  <1>3. /\ c \notin crashed /\ crashed' = crashed /\ UNCHANGED locks
        /\ call[c].pc = from /\ Goto(c, to, files)
    BY <1>2 DEF ListFiles, At
  <1>4. to \in OwnTaskPcs => call[c].todo = <<>> /\ call[c].id \in Ids
    BY <1>2, <1>3 DEF TypeInv, Shaped, OwnTaskPcs
  <1>5. /\ to \in Pcs /\ to \notin Listless \cup {"look", "read", "write", "markOpen", "markWrite"}
        /\ to \notin TaskPcs \cup Creating
        /\ call[c].pc \notin TaskPcs
    BY <1>3 DEF Pcs, Listless, TaskPcs, Creating
  <1>6. QED BY <1>1, <1>3, <1>4, <1>5, GotoSteps

(* The calls that give up.                                                 *)
LEMMA ReturningSteps ==
  ASSUME TypeInv, NEW c \in Callers,
         LockFails(c) \/ ClaimRefused(c) \/ DeleteFindsNone(c) \/ ResetReturns(c)
           \/ CreateWrites(c)
  PROVE  Stepped(c)
  BY ReturnSteps DEF LockFails, WantsList, WantsTask, Found, AllRead, At,
     ClaimRefused, DeleteFindsNone, ResetReturns, CreateWrites

-----------------------------------------------------------------------------
(* Beginning a call: *)

LEMMA BeginSteps ==
  ASSUME TypeInv, NEW c \in Callers, NEW op \in Ops, NEW pc \in Pcs, NEW r \in Call,
         Begin(c, op, pc, r),
         pc \notin TaskPcs \cup Creating \cup {"idle", "markOpen", "markWrite"},
         pc = "look" => r.todo # <<>>,
         pc \in OwnTaskPcs => r.todo = <<>> /\ r.id \in Ids
  PROVE  Stepped(c)
  <1> DEFINE s == [r EXCEPT !.op = op, !.pc = pc]
  <1>1. s \in Call /\ s.pc = pc /\ s.todo = r.todo /\ s.id = r.id
    BY DEF Call
  <1>2. /\ call' = [call EXCEPT ![c] = s] /\ call[c].pc = "idle"
        /\ c \notin crashed /\ crashed' = crashed /\ UNCHANGED locks
    BY DEF Begin, At
  <1> HIDE DEF s
  <1>3. Shaped(s)
    BY <1>1 DEF Shaped, TaskPcs
  <1>4. Keeps(c, call[c], s)
    BY <1>1, <1>2 DEF Keeps, Listless, TaskPcs, Creating
  <1>5. QED BY <1>1, <1>2, <1>3, <1>4, MoveSteps

LEMMA OnTaskType ==
  ASSUME NEW i \in Ids
  PROVE  OnTask(i) \in Call /\ OnTask(i).id = i /\ OnTask(i).todo = <<>>
  BY BlankType DEF OnTask, Idle, Call

LEMMA BeginCallSteps ==
  ASSUME TaskListConstants, TypeInv, NEW c \in Callers, BeginCall(c)
  PROVE  Stepped(c)
  <1>1. CASE BeginCreate(c)
    BY <1>1, BlankType, BeginSteps
    DEF BeginCreate, Ops, Pcs, TaskPcs, Creating, OwnTaskPcs
  <1>2. CASE BeginUpdate(c)
    <2>1. PICK i \in Known, ch \in Changes :
            Begin(c, "update", "look",
                  [OnTask(i) EXCEPT !.todo =
                     <<[id |-> i, fields |-> ch.fields, new |-> ch.new]>>])
      BY <1>2 DEF BeginUpdate
    <2>2. i \in Ids /\ ch \in Change
      BY DEF Known, TaskListConstants
    <2> DEFINE u == [id |-> i, fields |-> ch.fields, new |-> ch.new]
               r == [OnTask(i) EXCEPT !.todo = <<u>>]
    <2>3. u \in Update
      BY <2>2 DEF Change, Update
    <2> HIDE DEF u
    <2>4. <<u>> \in Seq(Update) /\ <<u>> # <<>>
      BY <2>3
    <2>r. OnTask(i) \in Call
      BY <2>2, OnTaskType
    <2>5. r \in Call /\ r.todo = <<u>>
      BY <2>r, <2>4 DEF Call
    <2>6. Begin(c, "update", "look", r)
      BY <2>1 DEF u
    <2> HIDE DEF r
    <2>7. QED BY <2>4, <2>5, <2>6, BeginSteps
          DEF Ops, Pcs, TaskPcs, Creating, OwnTaskPcs
  <1>3. ASSUME NEW i \in Known,
               \/ Begin(c, "claim", "claimLook", OnTask(i))
               \/ Begin(c, "claimIfIdle", "busyLook", OnTask(i))
        PROVE  Stepped(c)
    <2>1. i \in Ids
      BY DEF Known
    <2>2. QED BY <1>3, <2>1, OnTaskType, BeginSteps
          DEF Ops, Pcs, TaskPcs, Creating, OwnTaskPcs
  <1>4. ASSUME NEW i \in Known,
               Begin(c, "delete", "mark", [Idle EXCEPT !.id = i, !.highest = i])
        PROVE  Stepped(c)
    <2>0. i \in Ids /\ i \in Int
      BY DEF Known, Ids
    <2>1. [Idle EXCEPT !.id = i, !.highest = i] \in Call
      BY <2>0, BlankType DEF Call
    <2>2. QED BY <1>4, <2>1, BeginSteps DEF Ops, Pcs, TaskPcs, Creating, OwnTaskPcs
  <1>5. ASSUME NEW i \in Known, NEW j \in Known \ {i},
               Begin(c, "block", "blockRead", [Idle EXCEPT !.id = i, !.ids = {i, j}])
        PROVE  Stepped(c)
    <2> DEFINE r == [Idle EXCEPT !.id = i, !.ids = {i, j}]
    <2>1. i \in Ids /\ j \in Ids
      BY DEF Known
    <2>2. r \in Call /\ r.id = i /\ r.todo = <<>>
      BY <2>1, BlankType DEF Call, Idle
    <2> HIDE DEF r
    <2>3. Begin(c, "block", "blockRead", r)
      BY <1>5 DEF r
    <2>4. QED BY <2>1, <2>2, <2>3, BeginSteps
          DEF Ops, Pcs, TaskPcs, Creating, OwnTaskPcs
  <1>6. CASE Begin(c, "reset", "resetLock", Idle)
    BY <1>6, BlankType, BeginSteps DEF Ops, Pcs, TaskPcs, Creating, OwnTaskPcs
  <1>7. ASSUME NEW who \in Callers,
               Begin(c, "unassign", "unassignList", [Idle EXCEPT !.who = who])
        PROVE  Stepped(c)
    <2>1. [Idle EXCEPT !.who = who] \in Call
      BY BlankType DEF Call
    <2>2. QED BY <1>7, <2>1, BeginSteps DEF Ops, Pcs, TaskPcs, Creating, OwnTaskPcs
  <1>8. QED BY <1>1, <1>2, <1>3, <1>4, <1>5, <1>6, <1>7 DEF BeginCall

-----------------------------------------------------------------------------
(* createTask: *)

LEMMA CreateSteps ==
  ASSUME TaskListConstants, TypeInv, NEW c \in Callers,
         CreateLocks(c) \/ ScanFiles(c) \/ ScanMark(c) \/ CreateOpens(c)
  PROVE  Stepped(c)
  <1>0. call[c] \in Call /\ Shaped(call[c]) /\ call \in [Callers -> Call]
    BY DEF TypeInv, TypeOK
  <1>1. CASE CreateLocks(c)
    <2> DEFINE s == [call[c] EXCEPT !.pc = "createScan", !.ids = {}]
    <2>1. s \in Call /\ s.pc = "createScan"
      BY <1>0 DEF Call, Pcs
    <2>2. /\ call' = [call EXCEPT ![c] = s] /\ call[c].pc = "createLock"
          /\ c \notin crashed /\ crashed' = crashed /\ TakeListLock(c)
      BY <1>1 DEF CreateLocks, At, Goto
    <2> HIDE DEF s
    <2>3. Shaped(s) /\ TakesList(c, call[c], s)
      BY <2>1, <2>2 DEF Shaped, OwnTaskPcs, TakesList, Listless, TaskPcs
    <2>4. QED BY <2>1, <2>2, <2>3, MoveSteps
  <1>2. ASSUME NEW s \in Call, call' = [call EXCEPT ![c] = s],
               call[c].pc = "createScan", s.pc \in Creating,
               c \notin crashed, crashed' = crashed, UNCHANGED locks
        PROVE  Stepped(c)
    <2>1. Shaped(s) /\ Keeps(c, call[c], s)
      BY <1>2 DEF Shaped, OwnTaskPcs, Keeps, Listless, TaskPcs, Creating
    <2>2. QED BY <1>2, <2>1, MoveSteps
  <1>3. CASE ScanFiles(c)
    <2> DEFINE n == Max(files \cup {0})
               s == [call[c] EXCEPT !.highest = n]
    <2>1. n \in Int
      BY HighestType DEF TypeInv, TypeOK
    <2> HIDE DEF n
    <2>2. s \in Call /\ s.pc = call[c].pc
      BY <1>0, <2>1 DEF Call
    <2>3. call' = [call EXCEPT ![c] = s]
      BY <1>3, <1>0 DEF ScanFiles, n
    <2>4. /\ call[c].pc = "createScan"
          /\ c \notin crashed /\ crashed' = crashed /\ UNCHANGED locks
      BY <1>3 DEF ScanFiles, At
    <2> HIDE DEF s
    <2>5. QED BY <1>2, <2>2, <2>3, <2>4 DEF Creating
  <1>4. CASE ScanMark(c)
    <2> DEFINE s == [call[c] EXCEPT !.atMark = mark]
    <2>1. mark \in Int
      BY DEF TypeInv, TypeOK
    <2>2. s \in Call /\ s.pc = call[c].pc
      BY <1>0, <2>1 DEF Call
    <2>3. call' = [call EXCEPT ![c] = s]
      BY <1>4, <1>0 DEF ScanMark
    <2>4. /\ call[c].pc = "createScan"
          /\ c \notin crashed /\ crashed' = crashed /\ UNCHANGED locks
      BY <1>4 DEF ScanMark, At
    <2> HIDE DEF s
    <2>5. QED BY <1>2, <2>2, <2>3, <2>4 DEF Creating
  <1>5. CASE CreateOpens(c)
    <2> DEFINE n == NextId(call[c])
               s == [call[c] EXCEPT !.pc = "createWrite", !.id = n, !.open = n]
    <2>1. /\ n \in Ids /\ call' = [call EXCEPT ![c] = s]
          /\ call[c].pc = "createScan"
          /\ c \notin crashed /\ crashed' = crashed /\ UNCHANGED locks
      BY <1>5 DEF CreateOpens, At
    <2> HIDE DEF n
    <2>2. s \in Call /\ s.pc = "createWrite"
      BY <1>0, <2>1 DEF Call, Pcs
    <2> HIDE DEF s
    <2>3. QED BY <1>2, <2>1, <2>2 DEF Creating
  <1>6. QED BY <1>1, <1>3, <1>4, <1>5

-----------------------------------------------------------------------------
(* updateTask: *)

LEMMA UpdateSteps ==
  ASSUME TypeInv, NEW c \in Callers, UpdateStep(c)
  PROVE  Stepped(c)
  <1>0. call[c] \in Call /\ Shaped(call[c]) /\ call \in [Callers -> Call]
    BY DEF TypeInv, TypeOK
  <1>t. ASSUME call[c].pc \in {"look", "read", "write"}
        PROVE  /\ call[c].todo # <<>> /\ call[c].todo \in Seq(Update)
               /\ Tail(call[c].todo) \in Seq(Update)
               /\ Target(c) = TargetOf(call[c]) /\ Target(c) \in Ids
    <2>1. call[c].todo # <<>> /\ call[c].todo \in Seq(Update)
      BY <1>0, <1>t DEF Shaped, Call
    <2>2. Head(call[c].todo) \in Update /\ Tail(call[c].todo) \in Seq(Update)
      BY <2>1
    <2>3. QED BY <2>1, <2>2 DEF Target, TargetOf, Update
  <1>1. CASE UpdateLocks(c)
    <2> DEFINE s == [call[c] EXCEPT !.pc = "read", !.ids = {Target(c)}]
    <2>1. /\ call[c].pc = "look" /\ call' = [call EXCEPT ![c] = s]
          /\ c \notin crashed /\ crashed' = crashed /\ TakeTaskLock(c, Target(c))
      BY <1>1 DEF UpdateLocks, Found, AllRead, At, Goto
    <2>2. s \in Call /\ s.pc = "read" /\ s.todo = call[c].todo
      BY <1>0, <1>t, <2>1 DEF Call, Pcs
    <2> HIDE DEF s
    <2>3. TargetOf(s) = Target(c) /\ Target(c) \in Ids
      BY <1>t, <2>1, <2>2 DEF TargetOf, Target
    <2>4. Shaped(s)
      BY <1>t, <2>1, <2>2 DEF Shaped, OwnTaskPcs
    <2>5. TakesTask(c, call[c], s)
      BY <2>1, <2>2, <2>3 DEF TakesTask, TaskPcs
    <2>6. QED BY <2>1, <2>2, <2>4, <2>5, MoveSteps
  <1>2. CASE UpdateSkips(c) \/ UpdateWrites(c)
    <2>1. /\ call[c].pc \in {"look", "read", "write"}
          /\ c \notin crashed /\ crashed' = crashed /\ GoOn(c, Tail(call[c].todo))
      BY <1>2 DEF UpdateSkips, UpdateWrites, AllRead, At
    <2>2. QED BY <1>t, <2>1, GoOnSteps
  <1>3. CASE UpdateOpens(c)
    <2> DEFINE s == [call[c] EXCEPT !.pc = "write", !.open = Target(c)]
    <2>1. /\ call[c].pc = "read" /\ call' = [call EXCEPT ![c] = s]
          /\ c \notin crashed /\ crashed' = crashed /\ UNCHANGED locks
      BY <1>3 DEF UpdateOpens, Found, AllRead, At
    <2>2. s \in Call /\ s.pc = "write" /\ s.todo = call[c].todo /\ s.id = call[c].id
      BY <1>0, <1>t, <2>1 DEF Call, Pcs
    <2> HIDE DEF s
    <2>3. Shaped(s)
      BY <1>t, <2>1, <2>2 DEF Shaped, OwnTaskPcs
    <2>4. Keeps(c, call[c], s)
      BY <2>1, <2>2 DEF Keeps, TaskPcs, Listless, Creating, TargetOf
    <2>5. QED BY <2>1, <2>2, <2>3, <2>4, MoveSteps
  <1>4. QED BY <1>1, <1>2, <1>3 DEF UpdateStep

-----------------------------------------------------------------------------
(* claimTask: *)

LEMMA OwnedByType ==
  ASSUME NEW c \in Callers, NEW i \in Ids
  PROVE  <<OwnedBy(c, i)>> \in Seq(Update) /\ OwnedBy(c, i).id = i
  <1>1. [NoTask EXCEPT !.owner = c] \in Task
    BY NoTaskType DEF Task
  <1>2. OwnedBy(c, i) \in Update /\ OwnedBy(c, i).id = i
    BY <1>1 DEF OwnedBy, Update, Fields
  <1>3. QED BY <1>2

LEMMA ClaimSteps ==
  ASSUME TypeInv, NEW c \in Callers, ClaimStep(c)
  PROVE  Stepped(c)
  <1>0. call[c] \in Call /\ Shaped(call[c]) /\ call \in [Callers -> Call]
        /\ files \in SUBSET Ids
    BY DEF TypeInv, TypeOK
  <1>t. ASSUME call[c].pc \in OwnTaskPcs
        PROVE  call[c].todo = <<>> /\ call[c].id \in Ids /\ Target(c) = call[c].id
    BY <1>0, <1>t DEF Shaped, Target
  <1>1. CASE ClaimLocks(c)
    <2> DEFINE s == [call[c] EXCEPT !.pc = "claimRead", !.ids = {call[c].id}]
    <2>1. /\ call[c].pc = "claimLook" /\ call' = [call EXCEPT ![c] = s]
          /\ c \notin crashed /\ crashed' = crashed /\ TakeTaskLock(c, call[c].id)
      BY <1>1 DEF ClaimLocks, Found, AllRead, At, Goto
    <2>t. call[c].todo = <<>> /\ call[c].id \in Ids
      BY <1>t, <2>1 DEF OwnTaskPcs
    <2>2. s \in Call /\ s.pc = "claimRead" /\ s.todo = <<>> /\ s.id = call[c].id
      BY <1>0, <2>t DEF Call, Pcs
    <2> HIDE DEF s
    <2>3. Shaped(s)
      BY <2>t, <2>2 DEF Shaped
    <2>4. TakesTask(c, call[c], s)
      BY <2>1, <2>2, <2>t DEF TakesTask, TaskPcs, TargetOf
    <2>5. QED BY <2>1, <2>2, <2>3, <2>4, MoveSteps
  <1>2. CASE ClaimLists(c)
    <2>1. /\ call[c].pc = "claimRead" /\ Goto(c, "claimList", files \ {call[c].id})
          /\ c \notin crashed /\ crashed' = crashed /\ UNCHANGED locks
      BY <1>2 DEF ClaimLists, AllRead, At
    <2>2. call[c].todo = <<>> /\ call[c].id \in Ids
      BY <1>t, <2>1 DEF OwnTaskPcs
    <2>3. /\ "claimList" \in Pcs /\ files \ {call[c].id} \in SUBSET Ids
          /\ "claimList" \notin Listless \cup {"look", "read", "write", "markOpen", "markWrite"}
          /\ "claimList" \notin Creating
          /\ "claimList" \in TaskPcs /\ call[c].pc \in TaskPcs
      BY <1>0, <2>1 DEF Pcs, Listless, Creating, TaskPcs
    <2>4. QED BY <2>1, <2>2, <2>3, GotoSteps
  <1>3. CASE ClaimPasses(c)
    <2> DEFINE todo == <<OwnedBy(c, call[c].id)>>
               s == [call[c] EXCEPT !.pc = "read", !.ids = {call[c].id}, !.todo = todo]
    <2>1. /\ call[c].pc = "claimList" /\ call' = [call EXCEPT ![c] = s]
          /\ c \notin crashed /\ crashed' = crashed /\ UNCHANGED locks
      BY <1>3 DEF ClaimPasses, AllRead, At
    <2>t. call[c].todo = <<>> /\ call[c].id \in Ids
      BY <1>t, <2>1 DEF OwnTaskPcs
    <2>2. todo \in Seq(Update) /\ todo # <<>> /\ Head(todo).id = call[c].id
      BY <2>t, OwnedByType
    <2> HIDE DEF todo
    <2>3. s \in Call /\ s.pc = "read" /\ s.todo = todo
      BY <1>0, <2>t, <2>2 DEF Call, Pcs
    <2> HIDE DEF s
    <2>4. Shaped(s)
      BY <2>2, <2>3 DEF Shaped, OwnTaskPcs
    <2>5. TargetOf(s) = TargetOf(call[c])
      BY <2>t, <2>2, <2>3 DEF TargetOf
    <2>6. Keeps(c, call[c], s)
      BY <2>1, <2>3, <2>5 DEF Keeps, TaskPcs, Listless, Creating
    <2>7. QED BY <2>1, <2>3, <2>4, <2>6, MoveSteps
  <1>4. CASE ClaimRefused(c)
    BY <1>4, ReturningSteps
  <1>5. CASE BusyLocks(c)
    <2> DEFINE s == [call[c] EXCEPT !.pc = "busyList", !.seen = Blank]
    <2>1. /\ call[c].pc = "busyLook" /\ call' = [call EXCEPT ![c] = s]
          /\ c \notin crashed /\ crashed' = crashed /\ TakeListLock(c)
      BY <1>5 DEF BusyLocks, Found, AllRead, At
    <2>t. call[c].todo = <<>> /\ call[c].id \in Ids
      BY <1>t, <2>1 DEF OwnTaskPcs
    <2>2. s \in Call /\ s.pc = "busyList" /\ s.todo = <<>> /\ s.id = call[c].id
      BY <1>0, <2>t, BlankType DEF Call, Pcs
    <2> HIDE DEF s
    <2>3. Shaped(s)
      BY <2>t, <2>2 DEF Shaped
    <2>4. TakesList(c, call[c], s)
      BY <2>1, <2>2 DEF TakesList, TaskPcs, Listless
    <2>5. QED BY <2>1, <2>2, <2>3, <2>4, MoveSteps
  <1>6. CASE ListFiles(c, "busyList", "busyRead")
    BY <1>6, ListSteps
  <1>7. CASE BusyPasses(c)
    <2>1. /\ call[c].pc = "busyRead" /\ GoOn(c, <<OwnedBy(c, call[c].id)>>)
          /\ c \notin crashed /\ crashed' = crashed
      BY <1>7 DEF BusyPasses, AllRead, At
    <2>2. call[c].id \in Ids
      BY <1>t, <2>1 DEF OwnTaskPcs
    <2>3. <<OwnedBy(c, call[c].id)>> \in Seq(Update)
      BY <2>2, OwnedByType
    <2>4. QED BY <2>1, <2>3, GoOnSteps
  <1>8. QED BY <1>1, <1>2, <1>3, <1>4, <1>5, <1>6, <1>7 DEF ClaimStep

-----------------------------------------------------------------------------
(* The mark, deleteTask, blockTask, resetTaskList, unassignTeammateTasks: *)

(* A step that stays away from tasks and from locks.                       *)
FarPcs == {"mark", "markOpen", "markWrite", "deleteUnlink", "deleteList",
           "deleteRead", "resetScan", "resetList", "resetUnlink"}
LEMMA FarSteps ==
  ASSUME TypeInv, NEW c \in Callers, c \notin crashed, crashed' = crashed,
         UNCHANGED locks, call[c].pc \in FarPcs,
         NEW s \in Call, s.pc \in FarPcs,
         s.pc \in {"markOpen", "markWrite"} => s.highest \in Nat,
         \/ call' = [call EXCEPT ![c] = s]
         \/ \E i \in Ids : call' = Orphaned(i, [call EXCEPT ![c] = s])
  PROVE  Stepped(c)
  <1>0. call \in [Callers -> Call]
    BY DEF TypeInv, TypeOK
  <1>1. Shaped(s) /\ Keeps(c, call[c], s)
    BY DEF FarPcs, Shaped, OwnTaskPcs, Keeps, TaskPcs, Listless, Creating
  <1>2. CASE call' = [call EXCEPT ![c] = s]
    BY <1>1, <1>2, MoveSteps
  <1>3. ASSUME NEW i \in Ids, call' = Orphaned(i, [call EXCEPT ![c] = s])
        PROVE  Stepped(c)
    <2> DEFINE t == [s EXCEPT !.open = 0]
    <2>1. t \in Call /\ t.pc = s.pc /\ t.highest = s.highest
      BY DEF Call
    <2>2. \A r \in Call : [r EXCEPT !.open = 0] \in Call
      BY DEF Call
    <2>3. /\ call' \in [Callers -> Call] /\ call'[c] \in {s, t}
          /\ \A d \in Callers \ {c} :
               call'[d] \in {call[d], [call[d] EXCEPT !.open = 0]}
      BY <1>0, <1>3, <2>2 DEF Orphaned
    <2> HIDE DEF t
    <2>4. Shaped(t) /\ Keeps(c, call[c], t)
      BY <2>1 DEF FarPcs, Shaped, OwnTaskPcs, Keeps, TaskPcs, Listless, Creating
    <2>5. Shaped(call'[c]) /\ Keeps(c, call[c], call'[c])
      BY <1>1, <2>3, <2>4
    <2>6. QED BY <2>3, <2>5 DEF Stepped, LockStep
  <1>4. QED BY <1>2, <1>3

LEMMA MarkSteps ==
  ASSUME TypeInv, NEW c \in Callers, MarkStep(c)
  PROVE  Stepped(c)
  <1>0. call[c] \in Call /\ Shaped(call[c]) /\ mark \in Nat
    BY DEF TypeInv, TypeOK
  <1>1. PICK pc \in FarPcs :
          /\ call' = [call EXCEPT ![c] = [call[c] EXCEPT !.pc = pc, !.ids = {}]]
          /\ pc \in {"markOpen", "markWrite"} => call[c].highest \in Nat
    <2>1. CASE ReadMark(c)
      <3>1. call[c].highest > mark => call[c].highest \in Nat
        BY <1>0 DEF Call
      <3>2. QED BY <2>1, <3>1 DEF ReadMark, Goto, AfterMark, FarPcs
    <2>2. CASE OpenMark(c)
      BY <1>0, <2>2 DEF OpenMark, Goto, FarPcs, Shaped, At
    <2>3. CASE WriteMark(c)
      BY <2>3 DEF WriteMark, Goto, AfterMark, FarPcs
    <2>4. QED BY <2>1, <2>2, <2>3 DEF MarkStep
  <1>2. /\ call[c].pc \in FarPcs
        /\ c \notin crashed /\ crashed' = crashed /\ UNCHANGED locks
    BY DEF MarkStep, ReadMark, OpenMark, WriteMark, At, FarPcs
  <1> DEFINE s == [call[c] EXCEPT !.pc = pc, !.ids = {}]
  <1>3. s \in Call /\ s.pc = pc /\ s.highest = call[c].highest
    BY <1>0, <1>1 DEF Call, Pcs, FarPcs
  <1>4. call' = [call EXCEPT ![c] = s]
    BY <1>1
  <1> HIDE DEF s
  <1>5. QED BY <1>1, <1>2, <1>3, <1>4, FarSteps

LEMMA DeleteSteps ==
  ASSUME TaskListConstants, TypeInv, NEW c \in Callers, DeleteStep(c)
  PROVE  Stepped(c)
  <1>0. call[c] \in Call /\ call \in [Callers -> Call] /\ files \in SUBSET Ids
    BY DEF TypeInv, TypeOK
  <1>1. CASE DeleteUnlinks(c)
    <2> DEFINE s == [call[c] EXCEPT !.pc = "deleteList"]
    <2>1. /\ call' = Orphaned(call[c].id, [call EXCEPT ![c] = s])
          /\ call[c].pc = "deleteUnlink" /\ call[c].id \in Ids
          /\ c \notin crashed /\ crashed' = crashed /\ UNCHANGED locks
      BY <1>0, <1>1 DEF DeleteUnlinks, At
    <2>2. s \in Call /\ s.pc = "deleteList"
      BY <1>0 DEF Call, Pcs
    <2> HIDE DEF s
    <2>3. s.pc \in FarPcs /\ call[c].pc \in FarPcs
      BY <2>1, <2>2 DEF FarPcs
    <2>4. QED BY <2>1, <2>2, <2>3, FarSteps
  <1>2. CASE DeleteFindsNone(c)
    BY <1>2, ReturningSteps
  <1>3. CASE ListFiles(c, "deleteList", "deleteRead")
    BY <1>3, ListSteps
  <1>4. CASE DeleteCascades(c)
    <2> DEFINE d == call[c].id
               seen == call[c].seen
               ids == {i \in Ids : d \in seen[i].blocks \cup seen[i].blockedBy}
    <2>1. PICK order \in SetToSeqs(ids) :
            GoOn(c, [k \in DOMAIN order |-> Dereferenced(seen, order[k], d)])
      BY <1>4 DEF DeleteCascades, InAnyOrder
    <2>2. ASSUME NEW i \in Ids PROVE Dereferenced(seen, i, d) \in Update
      <3>1. seen[i] \in Task
        BY <1>0 DEF Call
      <3>2. seen[i].blocks \ {d} \in SUBSET Ids /\ seen[i].blockedBy \ {d} \in SUBSET Ids
        BY <3>1 DEF Task
      <3>3. [NoTask EXCEPT !.blocks = seen[i].blocks \ {d},
                           !.blockedBy = seen[i].blockedBy \ {d}] \in Task
        BY <3>2, NoTaskType DEF Task
      <3>4. QED BY <3>3 DEF Dereferenced, Update, Fields
    <2>3. order \in Seq(Ids)
      BY OrderType
    <2>4. [k \in DOMAIN order |-> Dereferenced(seen, order[k], d)] \in Seq(Update)
      <3> HIDE DEF d, seen, ids
      <3>1. QED BY <2>2, <2>3
    <2>5. c \notin crashed /\ crashed' = crashed
      BY <1>4 DEF DeleteCascades, AllRead, At
    <2>6. QED BY <2>1, <2>4, <2>5, GoOnSteps
  <1>5. QED BY <1>1, <1>2, <1>3, <1>4 DEF DeleteStep

LEMMA BlockSteps ==
  ASSUME TypeInv, NEW c \in Callers, BlockDecides(c)
  PROVE  Stepped(c)
  <1> DEFINE i == call[c].id
             seen == call[c].seen
  <1>0. call[c] \in Call /\ Shaped(call[c])
    BY DEF TypeInv, TypeOK
  <1>1. c \notin crashed /\ crashed' = crashed /\ call[c].pc = "blockRead"
    BY DEF BlockDecides, AllRead, At
  <1>2. i \in Ids /\ seen \in [Ids -> Task]
    BY <1>0, <1>1 DEF Shaped, OwnTaskPcs, Call
  <1>3. CASE Return(c)
    BY <1>1, <1>3, ReturnSteps
  <1>4. CASE ~Return(c)
    <2>1. PICK j \in Ids \ {i} : GoOn(c, Edges(i, j, seen))
      BY <1>4 DEF BlockDecides
    <2> HIDE DEF i, seen
    <2>2. seen[i].blocks \cup {j} \in SUBSET Ids /\ seen[j].blockedBy \cup {i} \in SUBSET Ids
      BY <1>2 DEF Task
    <2> DEFINE u == [id |-> i, fields |-> {"blocks"},
                     new |-> [NoTask EXCEPT !.blocks = seen[i].blocks \cup {j}]]
               v == [id |-> j, fields |-> {"blockedBy"},
                     new |-> [NoTask EXCEPT !.blockedBy = seen[j].blockedBy \cup {i}]]
    <2>3. /\ [NoTask EXCEPT !.blocks = seen[i].blocks \cup {j}] \in Task
          /\ [NoTask EXCEPT !.blockedBy = seen[j].blockedBy \cup {i}] \in Task
      BY <2>2, NoTaskType DEF Task
    <2>4. u \in Update /\ v \in Update
      BY <1>2, <2>3 DEF Update, Fields
    <2>5. Edges(i, j, seen) \in {<<>> \o <<>>, <<u>> \o <<>>, <<>> \o <<v>>, <<u>> \o <<v>>}
      BY DEF Edges
    <2> HIDE DEF u, v
    <2>e. \A a, b \in Seq(Update) : a \o b \in Seq(Update)
      OBVIOUS
    <2>6. Edges(i, j, seen) \in Seq(Update)
      <3>1. <<>> \in Seq(Update) /\ <<u>> \in Seq(Update) /\ <<v>> \in Seq(Update)
        BY <2>4
      <3>2. QED BY <3>1, <2>5, <2>e
    <2>7. QED BY <1>1, <2>1, <2>6, GoOnSteps
  <1>5. QED BY <1>3, <1>4

LEMMA ResetSteps ==
  ASSUME TaskListConstants, TypeInv, NEW c \in Callers, ResetStep(c)
  PROVE  Stepped(c)
  <1>0. call[c] \in Call /\ call \in [Callers -> Call]
    BY DEF TypeInv, TypeOK
  <1>1. CASE ResetLocks(c)
    <2> DEFINE s == [call[c] EXCEPT !.pc = "resetScan", !.ids = {}]
    <2>1. s \in Call /\ s.pc = "resetScan"
      BY <1>0 DEF Call, Pcs
    <2>2. /\ call' = [call EXCEPT ![c] = s] /\ call[c].pc = "resetLock"
          /\ c \notin crashed /\ crashed' = crashed /\ TakeListLock(c)
      BY <1>1 DEF ResetLocks, At, Goto
    <2> HIDE DEF s
    <2>3. Shaped(s) /\ TakesList(c, call[c], s)
      BY <2>1, <2>2 DEF Shaped, OwnTaskPcs, TakesList, Listless, TaskPcs
    <2>4. QED BY <2>1, <2>2, <2>3, MoveSteps
  <1>2. CASE ResetScans(c)
    <2> DEFINE n == Max(files \cup {0})
               pc == IF n > 0 THEN "mark" ELSE "resetList"
               s == [call[c] EXCEPT !.highest = n, !.pc = pc]
    <2>1. n \in Int
      BY HighestType DEF TypeInv, TypeOK
    <2>2. /\ call' = [call EXCEPT ![c] = s] /\ call[c].pc = "resetScan"
          /\ c \notin crashed /\ crashed' = crashed /\ UNCHANGED locks
      BY <1>2 DEF ResetScans, At
    <2>3. pc \in {"mark", "resetList"}
      OBVIOUS
    <2> HIDE DEF n, pc
    <2>4. s \in Call /\ s.pc = pc
      BY <1>0, <2>1, <2>3 DEF Call, Pcs
    <2> HIDE DEF s
    <2>5. s.pc \in FarPcs \ {"markOpen", "markWrite"} /\ call[c].pc \in FarPcs
      BY <2>2, <2>3, <2>4 DEF FarPcs
    <2>6. QED BY <2>2, <2>4, <2>5, FarSteps
  <1>3. CASE ListFiles(c, "resetList", "resetUnlink")
    BY <1>3, ListSteps
  <1>4. ASSUME NEW i \in call[c].ids, ResetUnlinks(c, i)
        PROVE  Stepped(c)
    <2> DEFINE s == [call[c] EXCEPT !.ids = @ \ {i}]
    <2>1. i \in Ids
      BY <1>0 DEF Call
    <2>2. /\ call' = Orphaned(i, [call EXCEPT ![c] = s]) /\ call[c].pc = "resetUnlink"
          /\ c \notin crashed /\ crashed' = crashed /\ UNCHANGED locks
      BY <1>0, <1>4 DEF ResetUnlinks, At
    <2>3. s \in Call /\ s.pc = call[c].pc
      BY <1>0 DEF Call
    <2> HIDE DEF s
    <2>4. s.pc \in FarPcs /\ call[c].pc \in FarPcs
      BY <2>2, <2>3 DEF FarPcs
    <2>5. QED BY <2>1, <2>2, <2>3, <2>4, FarSteps
  <1>5. CASE ResetReturns(c)
    BY <1>5, ReturningSteps
  <1>6. QED BY <1>1, <1>2, <1>3, <1>4, <1>5 DEF ResetStep

LEMMA UnassignSteps ==
  ASSUME TaskListConstants, TypeInv, NEW c \in Callers, UnassignDecides(c)
  PROVE  Stepped(c)
  <1> DEFINE seen == call[c].seen
             ids == {i \in Ids : Open(seen[i]) /\ seen[i].owner = call[c].who}
  <1>1. PICK order \in SetToSeqs(ids) :
          GoOn(c, [k \in DOMAIN order |-> Unassigned(order[k])])
    BY DEF UnassignDecides, InAnyOrder
  <1>2. ASSUME NEW i \in Ids PROVE Unassigned(i) \in Update
    BY NoTaskType DEF Unassigned, Update, Fields
  <1>3. order \in Seq(Ids)
    BY OrderType
  <1>4. [k \in DOMAIN order |-> Unassigned(order[k])] \in Seq(Update)
    BY <1>2, <1>3
  <1>5. c \notin crashed /\ crashed' = crashed
    BY DEF UnassignDecides, AllRead, At
  <1>6. QED BY <1>1, <1>4, <1>5, GoOnSteps

LEMMA StepSteps ==
  ASSUME TaskListConstants, TypeInv, NEW c \in Callers,
         Step(c) \/ LockFails(c) \/ BeginCall(c)
  PROVE  Stepped(c)
  <1>1. ASSUME NEW i \in call[c].ids, ReadTask(c, i) PROVE Stepped(c)
    BY <1>1, ReadSteps
  <1>2. QED BY <1>1, CreateSteps, ReturningSteps, UpdateSteps, ClaimSteps, MarkSteps,
               DeleteSteps, BlockSteps, ResetSteps, ListSteps, UnassignSteps,
               BeginCallSteps DEF Step

-----------------------------------------------------------------------------
(* Type correctness *)

LEMMA AppliedType ==
  ASSUME NEW u \in Update, NEW t \in Task
  PROVE  Applied(u, t) \in Task /\ Applied(u, t).born = t.born
  <1>1. u.new \in Task
    BY DEF Update
  <1>2. QED BY <1>1 DEF Applied, Task

(* What a step makes of the directory, the history and the bounds.         *)
DiskTyped ==
  /\ files' \subseteq Ids /\ task' \in [Ids -> Task] /\ mark' \in Nat
  /\ lives' \in [Ids -> Nat] /\ deletes' \in BOOLEAN /\ calls' \in 0..MaxCalls

LEMMA DiskKept ==
  ASSUME TypeInv, UNCHANGED <<disk, history, calls>> PROVE DiskTyped
  BY DEF TypeInv, TypeOK, DiskTyped, disk, history

LEMMA TaskWritten ==
  ASSUME TypeInv, NEW i, NEW t, i \in Ids => t \in Task
  PROVE  [task EXCEPT ![i] = t] \in [Ids -> Task]
  BY DEF TypeInv, TypeOK

LEMMA StepTypesDisk ==
  ASSUME TaskListConstants, TypeInv, NEW c \in Callers,
         Step(c) \/ LockFails(c) \/ BeginCall(c)
  PROVE  DiskTyped
  <1>0. /\ call[c] \in Call /\ Shaped(call[c]) /\ files \subseteq Ids /\ mark \in Nat
        /\ task \in [Ids -> Task] /\ lives \in [Ids -> Nat] /\ deletes \in BOOLEAN
        /\ calls \in 0..MaxCalls /\ NoTask \in Task
    BY NoTaskType DEF TypeInv, TypeOK
  <1>1. CASE LockFails(c) \/ BlockDecides(c) \/ UnassignDecides(c) \/ ClaimStep(c)
    BY <1>1, DiskKept DEF LockFails, BlockDecides, UnassignDecides, ClaimStep,
       ClaimLocks, ClaimLists, ClaimPasses, ClaimRefused, BusyLocks, BusyPasses,
       ListFiles
  <1>2. CASE BeginCall(c)
    <2>1. PICK op, pc, r : Begin(c, op, pc, r)
      BY <1>2 DEF BeginCall, BeginCreate, BeginUpdate
    <2>2. /\ calls < MaxCalls /\ calls' = calls + 1
          /\ deletes' \in BOOLEAN /\ UNCHANGED <<files, task, mark, lives>>
      BY <2>1 DEF Begin, disk
    <2>3. MaxCalls \in Nat
      BY DEF TaskListConstants
    <2>4. calls' \in 0..MaxCalls
      BY <1>0, <2>2, <2>3
    <2>5. QED BY <1>0, <2>2, <2>4 DEF DiskTyped
  <1>3. CASE CreateLocks(c) \/ ScanFiles(c) \/ ScanMark(c)
    BY <1>3, DiskKept DEF CreateLocks, ScanFiles, ScanMark
  <1>4. CASE CreateOpens(c)
    <2> DEFINE n == NextId(call[c])
    <2>1. /\ n \in Ids /\ files' = files \cup {n}
          /\ task' = [task EXCEPT ![n] = NoTask] /\ lives' = [lives EXCEPT ![n] = @ + 1]
          /\ UNCHANGED <<mark, deletes, calls>>
      BY <1>4 DEF CreateOpens
    <2> HIDE DEF n
    <2>2. QED BY <1>0, <2>1, TaskWritten DEF DiskTyped
  <1>5. CASE CreateWrites(c)
    <2> DEFINE i == call[c].id
    <2>1. i \in Ids => NewTask(lives[i]) \in Task
      BY <1>0, NoTaskType
    <2>2. /\ task' \in {task, [task EXCEPT ![i] = NewTask(lives[i])]}
          /\ UNCHANGED <<files, mark, lives, deletes, calls>>
      BY <1>5 DEF CreateWrites, history
    <2> HIDE DEF i
    <2>3. task' \in [Ids -> Task]
      BY <1>0, <2>1, <2>2, TaskWritten
    <2>4. QED BY <1>0, <2>2, <2>3 DEF DiskTyped
  <1>6. CASE UpdateStep(c)
    <2>1. CASE UpdateLocks(c) \/ UpdateSkips(c)
      BY <2>1, DiskKept DEF UpdateLocks, UpdateSkips
    <2>2. ASSUME call[c].pc \in {"read", "write"}
          PROVE  Head(call[c].todo) \in Update /\ Target(c) \in Ids
      <3>1. call[c].todo \in Seq(Update) /\ call[c].todo # <<>>
        BY <1>0, <2>2 DEF Call, Shaped
      <3>2. Head(call[c].todo) \in Update
        BY <3>1
      <3>3. QED BY <3>1, <3>2 DEF Target, Update
    <2>3. CASE UpdateOpens(c)
      <3>1. Target(c) \in Ids
        BY <2>2, <2>3 DEF UpdateOpens, Found, AllRead, At
      <3>2. /\ files' = files \cup {Target(c)}
            /\ task' = [task EXCEPT ![Target(c)] = NoTask]
            /\ UNCHANGED <<mark, lives, deletes, calls>>
        BY <2>3 DEF UpdateOpens, history
      <3>3. QED BY <1>0, <3>1, <3>2, TaskWritten DEF DiskTyped
    <2>4. CASE UpdateWrites(c)
      <3> DEFINE i == Target(c)
                 t == Applied(Head(call[c].todo), call[c].seen[i])
      <3>1. i \in Ids /\ t \in Task
        BY <1>0, <2>2, <2>4, AppliedType DEF UpdateWrites, At, Call
      <3>2. /\ task' \in {task, [task EXCEPT ![i] = t]}
            /\ UNCHANGED <<files, mark, lives, deletes, calls>>
        BY <2>4 DEF UpdateWrites, history
      <3> HIDE DEF i, t
      <3>3. QED BY <1>0, <3>1, <3>2, TaskWritten DEF DiskTyped
    <2>5. QED BY <1>6, <2>1, <2>3, <2>4 DEF UpdateStep
  <1>7. CASE MarkStep(c)
    <2>1. mark' \in Nat /\ UNCHANGED <<files, task, lives, deletes, calls>>
      BY <1>0, <1>7 DEF MarkStep, ReadMark, OpenMark, WriteMark, At, Shaped, disk, history
    <2>2. QED BY <1>0, <2>1 DEF DiskTyped
  <1>8. ASSUME NEW i, Unlink(i), UNCHANGED <<mark, history, calls>> PROVE DiskTyped
    BY <1>0, <1>8, TaskWritten DEF Unlink, DiskTyped, history
  <1>9. CASE DeleteStep(c)
    BY <1>8, <1>9, DiskKept
    DEF DeleteStep, DeleteUnlinks, DeleteFindsNone, ListFiles, DeleteCascades
  <1>10. CASE ResetStep(c)
    BY <1>8, <1>10, DiskKept
    DEF ResetStep, ResetLocks, ResetScans, ListFiles, ResetUnlinks, ResetReturns
  <1>11. CASE ListFiles(c, "unassignList", "unassignRead")
            \/ \E i \in call[c].ids : ReadTask(c, i)
    BY <1>11, DiskKept DEF ListFiles, ReadTask
  <1>12. QED BY <1>1, <1>2, <1>3, <1>4, <1>5, <1>6, <1>7, <1>9, <1>10, <1>11 DEF Step

(* The locks stay locks.                                                   *)
LEMMA StepTypesLocks ==
  ASSUME TypeInv, NEW c \in Callers, LockStep(c)
  PROVE  /\ listLock' \in Callers \cup {None}
         /\ taskLock' \in [Ids -> Callers \cup {None}]
  BY DEF LockStep, Keeps, Returns, GoesOn, TakesList, TakesTask, ReleaseAll,
         TakeListLock, TakeTaskLock, locks, TypeInv, TypeOK

LEMMA ShapeKept ==
  ASSUME NEW r \in Call, Shaped(r) PROVE Shaped([r EXCEPT !.open = 0])
  BY DEF Shaped, Call

LEMMA InitTypes == ASSUME TaskListConstants, Init PROVE TypeInv
  <1>1. files \subseteq Ids /\ mark \in Nat /\ calls \in 0..MaxCalls
    BY DEF Init, Ids, TaskListConstants
  <1>2. task \in [Ids -> Task] /\ lives \in [Ids -> Nat]
    BY NoTaskType DEF Init
  <1>3. call \in [Callers -> Call] /\ \A c \in Callers : Shaped(call[c])
    BY BlankType DEF Init
  <1>4. QED BY <1>1, <1>2, <1>3 DEF Init, TypeInv, TypeOK

LEMMA NextTypes == ASSUME TaskListConstants, TypeInv, [Next]_vars PROVE TypeInv'
  <1>1. ASSUME NEW c \in Callers, Step(c) \/ LockFails(c) \/ BeginCall(c)
        PROVE  TypeInv'
    <2>1. Stepped(c) /\ DiskTyped
      BY <1>1, StepSteps, StepTypesDisk
    <2>2. listLock' \in Callers \cup {None} /\ taskLock' \in [Ids -> Callers \cup {None}]
      BY <2>1, StepTypesLocks DEF Stepped
    <2>3. ASSUME NEW d \in Callers PROVE Shaped(call'[d])
      BY <2>1, ShapeKept DEF Stepped, TypeInv, TypeOK
    <2>4. call' \in [Callers -> Call] /\ crashed' \subseteq Callers
      BY <2>1 DEF Stepped, TypeInv, TypeOK
    <2>5. TypeOK'
      BY <2>1, <2>2, <2>4 DEF DiskTyped, TypeOK
    <2>6. QED BY <2>3, <2>5 DEF TypeInv
  <1>2. ASSUME NEW c \in Callers, Crash(c) PROVE TypeInv'
    BY <1>2 DEF Crash, TypeInv, TypeOK, disk, locks, history
  <1>3. CASE UNCHANGED vars
    BY <1>3 DEF vars, TypeInv, TypeOK, disk, locks, history
  <1>4. QED BY <1>1, <1>2, <1>3 DEF Next

(* tasks.ts: every file, lock and call stays what it should be.            *)
THEOREM TypeCorrect == Spec => []TypeOK
  <1>1. Init => TypeInv
    BY TaskListConstants, InitTypes
  <1>2. TypeInv /\ [Next]_vars => TypeInv'
    BY TaskListConstants, NextTypes
  <1>3. TypeInv => TypeOK
    BY DEF TypeInv
  <1>4. QED BY <1>1, <1>2, <1>3, PTL DEF Spec

-----------------------------------------------------------------------------
(* Who holds which lock *)

(* A live caller that holds the list's lock does not ask for it, one that  *)
(* gives out an ID holds it, and a live caller holds a task's lock exactly *)
(* from taking it to its last write, and only that of the task it is at.   *)
ListLockInv ==
  /\ \A c \in Callers \ crashed : listLock = c => call[c].pc \notin Listless
  /\ \A c \in Callers \ crashed : call[c].pc \in Creating => listLock = c
TaskLockInv ==
  \A c \in Callers \ crashed : \A i \in Ids :
    taskLock[i] = c <=> call[c].pc \in TaskPcs /\ i = TargetOf(call[c])
LockInv == ListLockInv /\ TaskLockInv

(* What a step leaves of the others' calls, as far as locks go.            *)
LEMMA OthersKept ==
  ASSUME TypeInv, NEW c \in Callers, Stepped(c), NEW d \in Callers \ {c}
  PROVE  /\ call'[d].pc = call[d].pc /\ call'[d].op = call[d].op
         /\ call'[d].id = call[d].id /\ call'[d].ids = call[d].ids
         /\ call'[d].seen = call[d].seen /\ call'[d].todo = call[d].todo
         /\ TargetOf(call'[d]) = TargetOf(call[d])
  <1>1. call'[d] \in {call[d], [call[d] EXCEPT !.open = 0]} /\ call[d] \in Call
    BY DEF Stepped, TypeInv, TypeOK
  <1>2. /\ call'[d].pc = call[d].pc /\ call'[d].op = call[d].op
        /\ call'[d].id = call[d].id /\ call'[d].ids = call[d].ids
        /\ call'[d].seen = call[d].seen /\ call'[d].todo = call[d].todo
    BY <1>1 DEF Call
  <1>3. QED BY <1>2 DEF TargetOf

LEMMA StepKeepsListLock ==
  ASSUME TaskListConstants, TypeInv, LockInv, NEW c \in Callers, Stepped(c)
  PROVE  ListLockInv'
  <1>0. c \notin crashed /\ crashed' = crashed /\ None \notin Callers
        /\ listLock \in Callers \cup {None}
    BY DEF Stepped, TaskListConstants, TypeInv, TypeOK
  <1>1. ASSUME NEW d \in Callers \ crashed, d # c
        PROVE  /\ listLock' = d => call'[d].pc \notin Listless
               /\ call'[d].pc \in Creating => listLock' = d
    <2>1. call'[d].pc = call[d].pc
      BY <1>1, OthersKept
    <2>2. listLock' = d <=> listLock = d
      BY <1>0, <1>1 DEF Stepped, LockStep, Keeps, Returns, ReleaseAll, GoesOn,
         TakesList, TakeListLock, TakesTask, TakeTaskLock, Free, locks
    <2>3. QED BY <1>1, <2>1, <2>2 DEF LockInv, ListLockInv
  <1>2. /\ listLock' = c => call'[c].pc \notin Listless
        /\ call'[c].pc \in Creating => listLock' = c
    <2>1. /\ listLock = c => call[c].pc \notin Listless
          /\ call[c].pc \in Creating => listLock = c
      BY <1>0 DEF LockInv, ListLockInv
    <2>2. CASE Keeps(c, call[c], call'[c])
      BY <2>1, <2>2 DEF Keeps, locks
    <2>3. CASE Returns(c, call'[c])
      BY <1>0, <2>3 DEF Returns, ReleaseAll, Creating
    <2>4. CASE GoesOn(c, call'[c])
      BY <2>4 DEF GoesOn, Listless, Creating
    <2>5. CASE TakesList(c, call[c], call'[c])
      BY <2>5 DEF TakesList, TakeListLock
    <2>6. CASE TakesTask(c, call[c], call'[c])
      BY <2>6 DEF TakesTask, Listless, TaskPcs, Creating
    <2>7. QED BY <2>2, <2>3, <2>4, <2>5, <2>6 DEF Stepped, LockStep
  <1>3. QED BY <1>0, <1>1, <1>2 DEF ListLockInv

LEMMA StepKeepsTaskLock ==
  ASSUME TaskListConstants, TypeInv, LockInv, NEW c \in Callers, Stepped(c)
  PROVE  TaskLockInv'
  <1>0. c \notin crashed /\ crashed' = crashed /\ None \notin Callers
        /\ taskLock \in [Ids -> Callers \cup {None}]
    BY DEF Stepped, TaskListConstants, TypeInv, TypeOK
  <1>1. ASSUME NEW d \in Callers \ crashed, d # c, NEW i \in Ids
        PROVE  taskLock'[i] = d <=> call'[d].pc \in TaskPcs /\ i = TargetOf(call'[d])
    <2>1. call'[d].pc = call[d].pc /\ TargetOf(call'[d]) = TargetOf(call[d])
      BY <1>1, OthersKept
    <2>2. taskLock'[i] = d <=> taskLock[i] = d
      BY <1>0, <1>1 DEF Stepped, LockStep, Keeps, Returns, ReleaseAll, GoesOn,
         TakesList, TakeListLock, TakesTask, TakeTaskLock, Free, locks
    <2>3. QED BY <1>1, <2>1, <2>2 DEF LockInv, TaskLockInv
  <1>2. ASSUME NEW i \in Ids
        PROVE  taskLock'[i] = c <=> call'[c].pc \in TaskPcs /\ i = TargetOf(call'[c])
    <2>1. taskLock[i] = c <=> call[c].pc \in TaskPcs /\ i = TargetOf(call[c])
      BY <1>0 DEF LockInv, TaskLockInv
    <2>2. CASE Keeps(c, call[c], call'[c])
      BY <2>1, <2>2 DEF Keeps, locks
    <2>3. CASE Returns(c, call'[c]) \/ GoesOn(c, call'[c])
      BY <1>0, <2>3 DEF Returns, ReleaseAll, GoesOn, TaskPcs
    <2>4. CASE TakesList(c, call[c], call'[c])
      BY <2>1, <2>4 DEF TakesList, TakeListLock
    <2>5. CASE TakesTask(c, call[c], call'[c])
      BY <1>0, <2>1, <2>5 DEF TakesTask, TakeTaskLock
    <2>6. QED BY <2>2, <2>3, <2>4, <2>5 DEF Stepped, LockStep
  <1>3. QED BY <1>0, <1>1, <1>2 DEF TaskLockInv

LEMMA InitLocks == ASSUME TaskListConstants, Init PROVE LockInv
  BY DEF Init, Idle, LockInv, ListLockInv, TaskLockInv, TaskListConstants,
     TaskPcs, Creating

LEMMA NextLocks ==
  ASSUME TaskListConstants, TypeInv, LockInv, [Next]_vars PROVE LockInv'
  <1>1. ASSUME NEW c \in Callers, Step(c) \/ LockFails(c) \/ BeginCall(c)
        PROVE  LockInv'
    <2>1. Stepped(c)
      BY <1>1, StepSteps
    <2>2. QED BY <2>1, StepKeepsListLock, StepKeepsTaskLock DEF LockInv
  <1>2. ASSUME NEW c \in Callers, Crash(c) PROVE LockInv'
    BY <1>2 DEF Crash, LockInv, ListLockInv, TaskLockInv, locks
  <1>3. CASE UNCHANGED vars
    BY <1>3 DEF vars, locks, LockInv, ListLockInv, TaskLockInv
  <1>4. QED BY <1>1, <1>2, <1>3 DEF Next

LEMMA LocksInvariant == Spec => [](TypeInv /\ LockInv)
  <1>1. Init => TypeInv /\ LockInv
    BY TaskListConstants, InitTypes, InitLocks
  <1>2. (TypeInv /\ LockInv) /\ [Next]_vars => (TypeInv /\ LockInv)'
    BY TaskListConstants, NextTypes, NextLocks
  <1>3. QED BY <1>1, <1>2, PTL DEF Spec

(* Whoever holds a task's lock waits for nothing, and whoever holds the    *)
(* list's lock waits at most for a task's lock.                            *)
LEMMA LocksAreOrdered == TypeInv /\ LockInv => NoDeadlock
  <1> SUFFICES ASSUME TypeInv, LockInv, NEW c \in Active,
                      \A d \in Active : Waits(d)
               PROVE  FALSE
    BY DEF NoDeadlock
  <1>1. PICK d \in Active : WantsTask(d) /\ ~Free(taskLock[Target(d)])
    <2>1. CASE WantsTask(c) /\ ~Free(taskLock[Target(c)])
      BY <2>1
    <2>2. CASE WantsList(c) /\ ~Free(listLock)
      <3> DEFINE d == listLock
      <3>1. d \in Callers \ crashed
        BY <2>2 DEF Free, TypeInv, TypeOK
      <3>2. call[d].pc \notin Listless
        BY <3>1 DEF LockInv, ListLockInv
      <3>3. d \in Active
        BY <3>1, <3>2 DEF Active, Listless
      <3>4. ~WantsList(d)
        BY <3>2 DEF WantsList, Found, AllRead, At, Listless
      <3>5. QED BY <3>3, <3>4 DEF Waits
    <2>3. QED BY <2>1, <2>2 DEF Waits
  <1>2. Target(d) \in Ids
    <2>1. call[d].pc \in {"claimLook", "look"} /\ call[d] \in Call /\ Shaped(call[d])
      BY <1>1 DEF WantsTask, Found, AllRead, At, Active, TypeInv, TypeOK
    <2>2. call[d].todo # <<>> => Head(call[d].todo) \in Update
      BY <2>1 DEF Call
    <2>3. QED BY <2>1, <2>2 DEF Target, Shaped, OwnTaskPcs, Update
  <1> DEFINE e == taskLock[Target(d)]
  <1>3. e \in Callers \ crashed
    BY <1>1, <1>2 DEF Free, TypeInv, TypeOK
  <1>4. call[e].pc \in TaskPcs
    BY <1>2, <1>3 DEF LockInv, TaskLockInv
  <1>5. e \in Active
    BY <1>3, <1>4 DEF Active, TaskPcs
  <1>6. ~Waits(e)
    BY <1>4 DEF Waits, WantsList, WantsTask, Found, AllRead, At, TaskPcs
  <1>7. QED BY <1>5, <1>6

(* tasks.ts: the calls are never all waiting for each other's locks.       *)
THEOREM NeverAllWaiting == Spec => []NoDeadlock
  BY LocksInvariant, LocksAreOrdered, PTL

-----------------------------------------------------------------------------
(* What a step does to the files, and to what has been read of them *)

Seen(c) ==
  \A i \in Ids : call'[c].seen[i] \in {call[c].seen[i], task[i], NoTask}

(* A call under a task's lock has the task still to read, or what it has   *)
(* read is what it had read before or what the file says.                  *)
Reread(r, s, t) ==
  t \notin s.ids => \/ s.seen[t] = task[t]
                    \/ t \notin r.ids /\ s.seen[t] = r.seen[t]
Rereads(c) ==
  LET r == call[c]
      s == call'[c]
      t == TargetOf(s)
  IN  s.pc = "read" =>
        /\ task' = task
        /\ t \notin s.ids => r.pc = "read" /\ t = TargetOf(r) /\ Reread(r, s, t)

(* The ways in which files change.                                         *)
Empties == \E i \in Ids : task' = [task EXCEPT ![i] = NoTask]
Creates(c) ==
  LET i == call[c].id
  IN  /\ call[c].pc = "createWrite" /\ call'[c].pc = "idle"
      /\ task' = [task EXCEPT ![i] = NewTask(lives[i])]
Writes(c) ==
  /\ call[c].pc = "write"
  /\ \E t \in Task : /\ t.born = call[c].seen[TargetOf(call[c])].born
                     /\ task' = [task EXCEPT ![TargetOf(call[c])] = t]
GivesOut(c) ==
  \E n \in Ids : /\ call[c].pc = "createScan"
                 /\ call'[c].pc = "createWrite" /\ call'[c].id = n
                 /\ task' = [task EXCEPT ![n] = NoTask]
                 /\ lives' = [lives EXCEPT ![n] = @ + 1]
TaskStep(c) ==
  \/ GivesOut(c)
  \/ /\ lives' = lives
     /\ call'[c].pc = "createWrite" =>
          call[c].pc = "createWrite" /\ call'[c].id = call[c].id
     /\ task' = task \/ Empties \/ Creates(c) \/ Writes(c)

Effects(c) == Seen(c) /\ Rereads(c) /\ TaskStep(c)

LEMMA BlankIsEmpty == \A i \in Ids : Blank[i] = NoTask
  BY DEF Blank

(* A call that returns, goes on to an update or begins.                    *)
LEMMA FreshEffects ==
  ASSUME TypeInv, NEW c \in Callers, NEW s \in Call, s.seen = Blank,
         s.pc \notin {"read", "createWrite"}, lives' = lives,
         call' = [call EXCEPT ![c] = s],
         task' = task \/ Empties
           \/ (Creates(c) \/ Writes(c))
  PROVE  Effects(c)
  <1>1. call'[c] = s
    BY CallWritten
  <1>2. QED BY <1>1, BlankIsEmpty DEF Effects, Seen, Rereads, TaskStep

LEMMA ReturnEffects ==
  ASSUME TypeInv, NEW c \in Callers, Return(c), lives' = lives,
         task' = task \/ Creates(c) \/ Writes(c)
  PROVE  Effects(c)
  <1>1. /\ Idle \in Call /\ Idle.seen = Blank /\ Idle.pc = "idle"
        /\ call' = [call EXCEPT ![c] = Idle]
    BY BlankType DEF Idle, Return
  <1>2. QED BY <1>1, FreshEffects

LEMMA GoOnEffects ==
  ASSUME TypeInv, NEW c \in Callers, NEW todo \in Seq(Update), GoOn(c, todo),
         lives' = lives, task' = task \/ Writes(c)
  PROVE  Effects(c)
  <1>1. CASE todo = <<>>
    BY <1>1, ReturnEffects DEF GoOn
  <1>2. CASE todo # <<>>
    <2> DEFINE s == [call[c] EXCEPT !.pc = "look", !.ids = {Head(todo).id},
                                    !.seen = Blank, !.todo = todo, !.open = 0]
    <2>1. Head(todo) \in Update
      BY <1>2
    <2>2. call[c] \in Call /\ Head(todo).id \in Ids
      BY <2>1 DEF TypeInv, TypeOK, Update
    <2>3. s \in Call /\ s.seen = Blank /\ s.pc = "look"
      BY <2>2, BlankType DEF Call, Pcs
    <2>4. call' = [call EXCEPT ![c] = s]
      BY <1>2 DEF GoOn
    <2> HIDE DEF s
    <2>5. QED BY <2>3, <2>4, FreshEffects
  <1>3. QED BY <1>1, <1>2

(* A step after which the call has read what it had read before.           *)
LEMMA SameSeen ==
  ASSUME NEW c \in Callers, call'[c].seen = call[c].seen PROVE Seen(c)
  BY DEF Seen

(* Reading a file.                                                         *)
LEMMA ReadIsReread ==
  ASSUME TypeInv, NEW c \in Callers, NEW i \in call[c].ids, ReadTask(c, i)
  PROVE  /\ call'[c].seen = [call[c].seen EXCEPT ![i] = task[i]]
         /\ call'[c].op = call[c].op /\ call'[c].pc = call[c].pc
         /\ call'[c].id = call[c].id /\ call'[c].todo = call[c].todo
         /\ UNCHANGED <<task, lives>>
         /\ \A t \in Ids : Reread(call[c], call'[c], t)
  <1>0. call \in [Callers -> Call] /\ call[c] \in Call
    BY DEF TypeInv, TypeOK
  <1>1. i \in Ids
    BY <1>0 DEF Call
  <1>2. /\ call'[c].seen = [call[c].seen EXCEPT ![i] = task[i]]
        /\ call'[c].ids = call[c].ids \ {i} /\ call'[c].pc = call[c].pc
        /\ call'[c].id = call[c].id /\ call'[c].todo = call[c].todo
        /\ call'[c].op = call[c].op
    BY <1>0, <1>1 DEF ReadTask, Call
  <1>3. call[c].seen \in [Ids -> Task]
    BY <1>0 DEF Call
  <1>4. ASSUME NEW t \in Ids PROVE Reread(call[c], call'[c], t)
    <2>1. t = i => call'[c].seen[t] = task[t]
      BY <1>2, <1>3
    <2>2. t # i => call'[c].seen[t] = call[c].seen[t]
      BY <1>2, <1>3
    <2>3. t # i => (t \in call'[c].ids <=> t \in call[c].ids)
      BY <1>2
    <2>4. QED BY <2>1, <2>2, <2>3 DEF Reread
  <1>5. UNCHANGED <<task, lives>>
    BY DEF ReadTask, disk, history
  <1>6. QED BY <1>2, <1>4, <1>5

LEMMA StepEffects ==
  ASSUME TaskListConstants, TypeInv, NEW c \in Callers,
         Step(c) \/ LockFails(c) \/ BeginCall(c)
  PROVE  Effects(c)
  <1>0. /\ call \in [Callers -> Call] /\ call[c] \in Call /\ Shaped(call[c])
        /\ task \in [Ids -> Task]
    BY DEF TypeInv, TypeOK
  <1>s. call'[c] \in Call
    BY StepSteps DEF Stepped
  <1>t. ASSUME call[c].pc \in {"look", "read", "write"}
        PROVE  /\ call[c].todo # <<>> /\ Head(call[c].todo) \in Update
               /\ Tail(call[c].todo) \in Seq(Update)
               /\ Target(c) = TargetOf(call[c]) /\ Target(c) \in Ids
    <2>1. call[c].todo # <<>> /\ call[c].todo \in Seq(Update)
      BY <1>0, <1>t DEF Shaped, Call
    <2>2. Head(call[c].todo) \in Update /\ Tail(call[c].todo) \in Seq(Update)
      BY <2>1
    <2>3. QED BY <2>1, <2>2 DEF Target, TargetOf, Update
  <1>g. ASSUME NEW pc, NEW ids, Goto(c, pc, ids)
        PROVE  /\ call'[c].pc = pc /\ call'[c].ids = ids
               /\ call'[c].seen = call[c].seen /\ call'[c].todo = call[c].todo
               /\ call'[c].id = call[c].id /\ TargetOf(call'[c]) = TargetOf(call[c])
    <2>1. call'[c] = [call[c] EXCEPT !.pc = pc, !.ids = ids]
      BY <1>0, <1>g DEF Goto
    <2>2. QED BY <1>0, <2>1 DEF Call, TargetOf
  <1>m. ASSUME NEW pc, NEW ids, Goto(c, pc, ids), pc \notin {"read", "createWrite"},
               UNCHANGED <<task, lives>>
        PROVE  Effects(c)
    BY <1>g, <1>m, SameSeen DEF Effects, Rereads, TaskStep
  <1>r. ASSUME NEW i \in call[c].ids, ReadTask(c, i)
        PROVE  Effects(c)
    <2>1. /\ call'[c].seen = [call[c].seen EXCEPT ![i] = task[i]]
          /\ call'[c].pc = call[c].pc
          /\ call'[c].id = call[c].id /\ call'[c].todo = call[c].todo
          /\ task' = task /\ lives' = lives
          /\ \A t \in Ids : Reread(call[c], call'[c], t)
      BY <1>r, ReadIsReread
    <2>2. call[c].seen \in [Ids -> Task]
      BY <1>0 DEF Call
    <2>3. Seen(c)
      BY <2>1, <2>2 DEF Seen
    <2>4. TargetOf(call'[c]) = TargetOf(call[c])
      BY <2>1 DEF TargetOf
    <2>5. call[c].pc = "read" => TargetOf(call[c]) \in Ids
      BY <1>t
    <2>6. Rereads(c)
      BY <2>1, <2>4, <2>5 DEF Rereads
    <2>7. TaskStep(c)
      BY <2>1 DEF TaskStep
    <2>8. QED BY <2>3, <2>6, <2>7 DEF Effects
  <1>1. CASE LockFails(c) \/ ClaimRefused(c) \/ DeleteFindsNone(c) \/ ResetReturns(c)
    BY <1>1, ReturnEffects
    DEF LockFails, ClaimRefused, DeleteFindsNone, ResetReturns, disk, history
  <1>2. CASE BeginCall(c)
    <2>1. \A r \in Call : \A x, op, pc :
            /\ [r EXCEPT !.op = op, !.pc = pc].pc = pc
            /\ [r EXCEPT !.op = op, !.pc = pc].seen = r.seen
            /\ [[r EXCEPT !.todo = x] EXCEPT !.op = op, !.pc = pc].pc = pc
            /\ [[r EXCEPT !.todo = x] EXCEPT !.op = op, !.pc = pc].seen = r.seen
      BY DEF Call
    <2>2. ASSUME NEW op, NEW pc, NEW r, Begin(c, op, pc, r),
                 [r EXCEPT !.op = op, !.pc = pc].pc = pc,
                 [r EXCEPT !.op = op, !.pc = pc].seen = Blank,
                 pc \notin {"read", "createWrite"}
          PROVE  Effects(c)
      <3> DEFINE s == [r EXCEPT !.op = op, !.pc = pc]
      <3>1. call' = [call EXCEPT ![c] = s] /\ UNCHANGED <<task, lives>>
        BY <2>2 DEF Begin, disk
      <3>2. s \in Call
        BY <1>0, <1>s, <3>1
      <3>3. s.pc = pc /\ s.seen = Blank
        BY <2>2
      <3> HIDE DEF s
      <3>4. QED BY <2>2, <3>1, <3>2, <3>3, FreshEffects
    <2>3. Idle \in Call /\ Idle.seen = Blank
      BY BlankType DEF Idle
    <2>4. ASSUME NEW i \in Ids PROVE OnTask(i) \in Call /\ OnTask(i).seen = Blank
      BY <2>3, OnTaskType DEF OnTask, Call
    <2>5. CASE BeginCreate(c) \/ Begin(c, "reset", "resetLock", Idle)
      BY <2>1, <2>2, <2>3, <2>5 DEF BeginCreate
    <2>6. CASE BeginUpdate(c)
      <3>1. PICK i, x : i \in Ids /\ Begin(c, "update", "look", [OnTask(i) EXCEPT !.todo = x])
        BY <2>6 DEF BeginUpdate, Known
      <3> DEFINE r == [OnTask(i) EXCEPT !.todo = x]
      <3>2. /\ [r EXCEPT !.op = "update", !.pc = "look"].pc = "look"
            /\ [r EXCEPT !.op = "update", !.pc = "look"].seen = Blank
        BY <2>1, <2>4, <3>1
      <3>3. Begin(c, "update", "look", r)
        BY <3>1
      <3> HIDE DEF r
      <3>4. QED BY <2>2, <3>2, <3>3
    <2>7. ASSUME NEW i \in Known,
                 \/ Begin(c, "claim", "claimLook", OnTask(i))
                 \/ Begin(c, "claimIfIdle", "busyLook", OnTask(i))
          PROVE  Effects(c)
      <3>1. i \in Ids
        BY DEF Known
      <3>2. QED BY <2>1, <2>2, <2>4, <2>7, <3>1
    <2>8. ASSUME NEW r \in Call, r.seen = Blank,
                 \/ Begin(c, "delete", "mark", r)
                 \/ Begin(c, "block", "blockRead", r)
                 \/ Begin(c, "unassign", "unassignList", r)
          PROVE  Effects(c)
      BY <2>1, <2>2, <2>8
    <2>9. ASSUME NEW i \in Known, NEW j \in Known \ {i}
          PROVE  /\ [Idle EXCEPT !.id = i, !.ids = {i, j}] \in Call
                 /\ [Idle EXCEPT !.id = i, !.ids = {i, j}].seen = Blank
      <3>1. i \in Ids /\ j \in Ids
        BY DEF Known
      <3>2. QED BY <2>3, <3>1 DEF Call
    <2>10. ASSUME NEW who \in Callers
           PROVE  /\ [Idle EXCEPT !.who = who] \in Call
                  /\ [Idle EXCEPT !.who = who].seen = Blank
      BY <2>3 DEF Call
    <2>d. ASSUME NEW i \in Known,
                 Begin(c, "delete", "mark", [Idle EXCEPT !.id = i, !.highest = i])
          PROVE  Effects(c)
      <3>1. /\ [Idle EXCEPT !.id = i, !.highest = i] \in Call
            /\ [Idle EXCEPT !.id = i, !.highest = i].seen = Blank
        <4>1. i \in Ids /\ i \in Int
          BY DEF Known, Ids
        <4>2. QED BY <2>3, <4>1 DEF Call
      <3>2. QED BY <2>8, <2>d, <3>1
    <2>11. QED BY <1>2, <2>5, <2>6, <2>7, <2>8, <2>9, <2>10, <2>d DEF BeginCall
  <1>3. CASE CreateLocks(c) \/ ResetLocks(c) \/ ListFiles(c, "unassignList", "unassignRead")
             \/ ListFiles(c, "deleteList", "deleteRead") \/ ClaimLocks(c) \/ ClaimLists(c)
             \/ ListFiles(c, "resetList", "resetUnlink") \/ ListFiles(c, "busyList", "busyRead")
    BY <1>3, <1>m
    DEF CreateLocks, ResetLocks, ListFiles, ClaimLocks, ClaimLists, disk, history
  <1>4. CASE MarkStep(c)
    BY <1>4, <1>m
    DEF MarkStep, ReadMark, OpenMark, WriteMark, AfterMark, disk, history
  <1>5. CASE ScanFiles(c) \/ ScanMark(c) \/ ResetScans(c)
    <2>1. /\ call'[c].pc \in {"createScan", "mark", "resetList"}
          /\ call'[c].seen = call[c].seen
          /\ UNCHANGED <<task, lives>>
      <3>1. \A h, pc : /\ [call[c] EXCEPT !.highest = h].pc = call[c].pc
                       /\ [call[c] EXCEPT !.highest = h].seen = call[c].seen
                       /\ [call[c] EXCEPT !.atMark = h].pc = call[c].pc
                       /\ [call[c] EXCEPT !.atMark = h].seen = call[c].seen
                       /\ [call[c] EXCEPT !.highest = h, !.pc = pc].pc = pc
                       /\ [call[c] EXCEPT !.highest = h, !.pc = pc].seen = call[c].seen
        BY <1>0 DEF Call
      <3>2. CASE ScanFiles(c)
        BY <1>0, <3>1, <3>2 DEF ScanFiles, At, disk, history
      <3>3. CASE ScanMark(c)
        BY <1>0, <3>1, <3>3 DEF ScanMark, At, disk, history
      <3>4. CASE ResetScans(c)
        BY <1>0, <3>1, <3>4 DEF ResetScans, At, disk, history
      <3>5. QED BY <1>5, <3>2, <3>3, <3>4
    <2>2. QED BY <2>1, SameSeen DEF Effects, Rereads, TaskStep
  <1>6. CASE CreateOpens(c)
    <2> DEFINE n == NextId(call[c])
    <2>1. /\ n \in Ids /\ call[c].pc = "createScan"
          /\ call' = [call EXCEPT ![c] = [call[c] EXCEPT !.pc = "createWrite", !.id = n,
                                                         !.open = n]]
          /\ task' = [task EXCEPT ![n] = NoTask] /\ lives' = [lives EXCEPT ![n] = @ + 1]
      BY <1>6 DEF CreateOpens, At
    <2> HIDE DEF n
    <2>2. call'[c].pc = "createWrite" /\ call'[c].id = n /\ call'[c].seen = call[c].seen
      BY <1>0, <2>1 DEF Call
    <2>3. GivesOut(c)
      BY <2>1, <2>2 DEF GivesOut
    <2>4. QED BY <2>2, <2>3, SameSeen DEF Effects, Rereads, TaskStep
  <1>7. CASE CreateWrites(c)
    <2>1. /\ call[c].pc = "createWrite" /\ Return(c) /\ lives' = lives
          /\ \/ task' = task
             \/ task' = [task EXCEPT ![call[c].id] = NewTask(lives[call[c].id])]
      BY <1>7 DEF CreateWrites, At, history
    <2>2. call'[c].pc = "idle"
      BY <1>0, <2>1 DEF Return, Idle
    <2>3. QED BY <2>1, <2>2, ReturnEffects DEF Creates
  <1>8. CASE UpdateStep(c)
    <2>1. CASE UpdateLocks(c)
      <3>1. /\ call[c].pc = "look" /\ Goto(c, "read", {Target(c)})
            /\ UNCHANGED <<task, lives>>
        BY <2>1 DEF UpdateLocks, Found, AllRead, At, disk, history
      <3>2. Target(c) = TargetOf(call'[c]) /\ Target(c) \in call'[c].ids
            /\ call'[c].seen = call[c].seen /\ call'[c].pc = "read"
        BY <1>g, <1>t, <3>1
      <3>3. Rereads(c)
        <4>1. task' = task /\ TargetOf(call'[c]) \in call'[c].ids
          BY <3>1, <3>2
        <4>2. QED BY <4>1 DEF Rereads
      <3>4. TaskStep(c)
        BY <3>1, <3>2 DEF TaskStep
      <3>5. QED BY <3>2, <3>3, <3>4, SameSeen DEF Effects
    <2>2. CASE UpdateSkips(c)
      <3>1. /\ call[c].pc \in {"look", "read"} /\ GoOn(c, Tail(call[c].todo))
            /\ UNCHANGED <<task, lives>>
        BY <2>2 DEF UpdateSkips, AllRead, At, disk, history
      <3>2. QED BY <1>t, <3>1, GoOnEffects
    <2>3. CASE UpdateOpens(c)
      <3>1. /\ call[c].pc = "read"
            /\ call' = [call EXCEPT ![c] = [call[c] EXCEPT !.pc = "write",
                                                           !.open = Target(c)]]
            /\ task' = [task EXCEPT ![Target(c)] = NoTask] /\ lives' = lives
        BY <2>3 DEF UpdateOpens, Found, AllRead, At, history
      <3>2. call'[c].pc = "write" /\ call'[c].seen = call[c].seen
        BY <1>0, <3>1 DEF Call
      <3>3. Empties
        BY <1>t, <3>1 DEF Empties
      <3>4. QED BY <3>1, <3>2, <3>3, SameSeen DEF Effects, Rereads, TaskStep
    <2>4. CASE UpdateWrites(c)
      <3> DEFINE i == Target(c)
                 t == Applied(Head(call[c].todo), call[c].seen[i])
      <3>1. /\ call[c].pc = "write" /\ GoOn(c, Tail(call[c].todo)) /\ lives' = lives
            /\ task' \in {task, [task EXCEPT ![i] = t]}
        BY <2>4 DEF UpdateWrites, At, history
      <3>2. call[c].seen[i] \in Task
        BY <1>0, <1>t, <3>1 DEF Call
      <3>3. t \in Task /\ t.born = call[c].seen[i].born
        BY <1>t, <3>1, <3>2, AppliedType
      <3>4. i = TargetOf(call[c])
        BY <1>t, <3>1
      <3> HIDE DEF i, t
      <3>5. task' = task \/ Writes(c)
        BY <3>1, <3>3, <3>4 DEF Writes
      <3>6. QED BY <1>t, <3>1, <3>5, GoOnEffects
    <2>5. QED BY <1>8, <2>1, <2>2, <2>3, <2>4 DEF UpdateStep
  <1>9. CASE ClaimPasses(c)
    <2>1. /\ call[c].pc = "claimList" /\ UNCHANGED <<task, lives>>
          /\ call' = [call EXCEPT ![c] =
                        [call[c] EXCEPT !.pc = "read", !.ids = {call[c].id},
                                        !.todo = <<OwnedBy(c, call[c].id)>>]]
      BY <1>9 DEF ClaimPasses, AllRead, At, disk, history
    <2>2. call[c].id \in Ids
      BY <1>0, <2>1 DEF Shaped, OwnTaskPcs
    <2>3. /\ call'[c].pc = "read" /\ call'[c].seen = call[c].seen
          /\ call'[c].ids = {call[c].id}
          /\ call'[c].todo = <<OwnedBy(c, call[c].id)>>
      BY <1>0, <2>1 DEF Call
    <2>4. TargetOf(call'[c]) = call[c].id
      BY <2>2, <2>3, OwnedByType DEF TargetOf
    <2>5. Rereads(c)
      <3>1. task' = task /\ TargetOf(call'[c]) \in call'[c].ids
        BY <2>1, <2>3, <2>4
      <3>2. QED BY <3>1 DEF Rereads
    <2>6. TaskStep(c)
      BY <2>1, <2>3 DEF TaskStep
    <2>7. QED BY <2>3, <2>5, <2>6, SameSeen DEF Effects
  <1>10. CASE BusyLocks(c)
    <2>1. call' = [call EXCEPT ![c] = [call[c] EXCEPT !.pc = "busyList", !.seen = Blank]]
          /\ UNCHANGED <<task, lives>>
      BY <1>10 DEF BusyLocks, disk, history
    <2>2. call'[c].seen = Blank /\ call'[c].pc = "busyList"
      BY <1>0, <2>1 DEF Call
    <2>3. QED BY <2>1, <2>2, BlankIsEmpty DEF Effects, Seen, Rereads, TaskStep
  <1>11. CASE BusyPasses(c)
    <2>1. /\ call[c].pc = "busyRead" /\ GoOn(c, <<OwnedBy(c, call[c].id)>>)
          /\ UNCHANGED <<task, lives>>
      BY <1>11 DEF BusyPasses, AllRead, At, disk, history
    <2>2. <<OwnedBy(c, call[c].id)>> \in Seq(Update)
      BY <1>0, <2>1, OwnedByType DEF Shaped, OwnTaskPcs
    <2>3. QED BY <2>1, <2>2, GoOnEffects
  <1>o. ASSUME NEW i \in Ids, Unlink(i), NEW s \in Call,
               call' = Orphaned(i, [call EXCEPT ![c] = s]),
               s.seen = call[c].seen, s.pc \notin {"read", "createWrite"},
               lives' = lives
        PROVE  Effects(c)
    <2>1. call'[c] \in {s, [s EXCEPT !.open = 0]}
      BY <1>0, <1>o DEF Orphaned
    <2>2. call'[c].seen = call[c].seen /\ call'[c].pc = s.pc
      BY <1>o, <2>1 DEF Call
    <2>3. Empties
      BY <1>o DEF Unlink, Empties
    <2>4. QED BY <1>o, <2>2, <2>3, SameSeen DEF Effects, Rereads, TaskStep
  <1>12. CASE DeleteUnlinks(c)
    <2> DEFINE s == [call[c] EXCEPT !.pc = "deleteList"]
    <2>1. /\ call[c].id \in Ids /\ Unlink(call[c].id) /\ lives' = lives
          /\ call' = Orphaned(call[c].id, [call EXCEPT ![c] = s])
      BY <1>0, <1>12 DEF DeleteUnlinks, history, TypeInv, TypeOK
    <2>2. s \in Call /\ s.seen = call[c].seen /\ s.pc = "deleteList"
      BY <1>0 DEF Call, Pcs
    <2> HIDE DEF s
    <2>3. QED BY <1>o, <2>1, <2>2
  <1>13. ASSUME NEW i \in call[c].ids, ResetUnlinks(c, i)
         PROVE  Effects(c)
    <2> DEFINE s == [call[c] EXCEPT !.ids = @ \ {i}]
    <2>1. /\ i \in Ids /\ Unlink(i) /\ lives' = lives /\ call[c].pc = "resetUnlink"
          /\ call' = Orphaned(i, [call EXCEPT ![c] = s])
      BY <1>0, <1>13 DEF ResetUnlinks, At, history, Call
    <2>2. s \in Call /\ s.seen = call[c].seen /\ s.pc = call[c].pc
      BY <1>0 DEF Call
    <2> HIDE DEF s
    <2>3. QED BY <1>o, <2>1, <2>2
  <1>14. CASE DeleteCascades(c) \/ UnassignDecides(c) \/ BlockDecides(c)
    <2>1. /\ call'[c].pc \in {"idle", "look"} /\ call'[c].seen = Blank
          /\ UNCHANGED <<task, lives>>
      <3>1. UNCHANGED <<task, lives>> /\ \E todo : GoOn(c, todo)
        BY <1>14 DEF DeleteCascades, UnassignDecides, BlockDecides, InAnyOrder,
           GoOn, disk, history
      <3>2. PICK todo : GoOn(c, todo)
        BY <3>1
      <3>3. CASE todo = <<>>
        BY <1>0, <3>1, <3>2, <3>3 DEF GoOn, Return, Idle
      <3>4. CASE todo # <<>>
        <4>1. call' = [call EXCEPT ![c] =
                         [call[c] EXCEPT !.pc = "look", !.ids = {Head(todo).id},
                                         !.seen = Blank, !.todo = todo, !.open = 0]]
          BY <3>2, <3>4 DEF GoOn
        <4>2. call'[c].pc = "look" /\ call'[c].seen = Blank
          BY <1>0, <4>1 DEF Call
        <4>3. QED BY <3>1, <4>2
      <3>5. QED BY <3>3, <3>4
    <2>2. QED BY <2>1, BlankIsEmpty DEF Effects, Seen, Rereads, TaskStep
  <1>15. CASE UpdateStep(c) \/ ClaimStep(c) \/ DeleteStep(c) \/ ResetStep(c)
    BY <1>1, <1>3, <1>5, <1>8, <1>9, <1>10, <1>11, <1>12, <1>13, <1>14, <1>15
    DEF ClaimStep, DeleteStep, ResetStep
  <1>16. QED BY <1>r, <1>1, <1>2, <1>3, <1>4, <1>5, <1>6, <1>7, <1>14, <1>15 DEF Step

-----------------------------------------------------------------------------
(* No update is lost *)

(* Nothing on file or read is of a later life than the ID's last, and      *)
(* while createTask has not written its task, nothing is of that life.     *)
LivesInv ==
  /\ \A i \in Ids : task[i].born <= lives[i]
  /\ \A c \in Callers : \A i \in Ids : call[c].seen[i].born <= lives[i]
Unborn(i) ==
  /\ task[i].born < lives[i]
  /\ \A c \in Callers : call[c].seen[i].born < lives[i]
UnbornInv ==
  \A d \in Callers \ crashed :
    call[d].pc = "createWrite" => call[d].id \in Ids /\ Unborn(call[d].id)

(* Under a task's lock, what has been read is what the file says, unless   *)
(* the file was taken away or is of another life.                          *)
Fresh(r) ==
  LET t == TargetOf(r)
  IN  t \notin r.ids /\ Exists(r.seen[t]) /\ task[t].born = r.seen[t].born
        => task[t] = r.seen[t]
FreshInv == \A c \in Callers \ crashed : call[c].pc = "read" => Fresh(call[c])

UpdateInv == LivesInv /\ UnbornInv /\ FreshInv

LEMMA BornTyped ==
  ASSUME TypeInv, NEW i \in Ids
  PROVE  /\ task[i].born \in Nat /\ lives[i] \in Nat /\ NoTask.born = 0
         /\ \A c \in Callers : call[c].seen[i].born \in Nat
  <1>1. task[i] \in Task /\ lives[i] \in Nat
    BY DEF TypeInv, TypeOK
  <1>2. ASSUME NEW c \in Callers PROVE call[c].seen[i] \in Task
    BY DEF TypeInv, TypeOK, Call
  <1>3. QED BY <1>1, <1>2 DEF Task, NoTask, NewTask

(* The task a caller is about to read or write under its lock.             *)
LEMMA TargetTyped ==
  ASSUME TypeInv, NEW c \in Callers, call[c].pc \in {"read", "write"}
  PROVE  TargetOf(call[c]) \in Ids
  <1>1. call[c].todo \in Seq(Update) /\ call[c].todo # <<>>
    BY DEF TypeInv, TypeOK, Call, Shaped
  <1>2. Head(call[c].todo) \in Update
    BY <1>1
  <1>3. QED BY <1>1, <1>2 DEF TargetOf, Update

(* Only the holder of a task's lock writes it back.                        *)
LEMMA OnlyHolderWrites ==
  ASSUME TypeInv, LockInv, NEW c \in Callers \ crashed, NEW d \in Callers \ crashed,
         call[c].pc = "write", call[d].pc \in TaskPcs, c # d
  PROVE  TargetOf(call[c]) # TargetOf(call[d])
  <1>1. TargetOf(call[c]) \in Ids
    BY TargetTyped
  <1>2. taskLock[TargetOf(call[c])] = c
    BY <1>1 DEF LockInv, TaskLockInv, TaskPcs
  <1>3. SUFFICES ASSUME TargetOf(call[c]) = TargetOf(call[d]) PROVE FALSE
    OBVIOUS
  <1>4. taskLock[TargetOf(call[c])] = d
    BY <1>1, <1>3 DEF LockInv, TaskLockInv
  <1>5. QED BY <1>2, <1>4

(* What a step makes of the lives of what is read and on file.             *)
LEMMA BornAfter ==
  ASSUME TypeInv, NEW c \in Callers, Stepped(c), Effects(c), NEW i \in Ids
  PROVE  /\ \/ task'[i].born \in {0, task[i].born, call[c].seen[i].born}
            \/ Creates(c) /\ i = call[c].id /\ task'[i].born = lives[i]
         /\ \A d \in Callers : call'[d].seen[i].born
                                 \in {0, task[i].born, call[d].seen[i].born}
  <1>0. task \in [Ids -> Task] /\ NoTask.born = 0
    BY BornTyped DEF TypeInv, TypeOK
  <1>1. ASSUME NEW d \in Callers
        PROVE  call'[d].seen[i].born \in {0, task[i].born, call[d].seen[i].born}
    <2>1. CASE d = c
      BY <1>0, <2>1 DEF Effects, Seen
    <2>2. CASE d # c
      BY <2>2, OthersKept
    <2>3. QED BY <2>1, <2>2
  <1>2. CASE GivesOut(c) \/ Empties \/ task' = task
    BY <1>0, <1>1, <1>2 DEF GivesOut, Empties
  <1>3. CASE Creates(c)
    <2>1. i = call[c].id => task'[i].born = lives[i]
      BY <1>0, <1>3 DEF Creates, NewTask
    <2>2. i # call[c].id => task'[i] = task[i]
      BY <1>0, <1>3 DEF Creates
    <2>3. QED BY <1>1, <1>3, <2>1, <2>2
  <1>4. CASE Writes(c)
    <2>1. PICK t \in Task : /\ t.born = call[c].seen[TargetOf(call[c])].born
                            /\ task' = [task EXCEPT ![TargetOf(call[c])] = t]
      BY <1>4 DEF Writes
    <2>2. QED BY <1>0, <1>1, <2>1
  <1>5. QED BY <1>2, <1>3, <1>4 DEF Effects, TaskStep

LEMMA StepKeepsLives ==
  ASSUME TypeInv, LockInv, LivesInv, UnbornInv,
         NEW c \in Callers, Stepped(c), Effects(c)
  PROVE  LivesInv' /\ UnbornInv'
  <1>0. c \notin crashed /\ crashed' = crashed /\ lives \in [Ids -> Nat]
    BY DEF Stepped, TypeInv, TypeOK
  <1>1. ASSUME NEW d \in Callers \ crashed, d # c, call'[d].pc = "createWrite"
        PROVE  /\ call[d].pc = "createWrite" /\ call'[d].id = call[d].id
               /\ call[c].pc \notin Creating
               /\ call[d].id \in Ids /\ Unborn(call[d].id)
    <2>1. call[d].pc = "createWrite" /\ call'[d].id = call[d].id
      BY <1>1, OthersKept
    <2>2. call[c].pc \notin Creating
      BY <1>0, <1>1, <2>1 DEF LockInv, ListLockInv, Creating
    <2>3. QED BY <2>1, <2>2 DEF UnbornInv
  <1>2. CASE GivesOut(c)
    <2>1. PICK n \in Ids : /\ call[c].pc = "createScan" /\ call'[c].id = n
                           /\ task' = [task EXCEPT ![n] = NoTask]
                           /\ lives' = [lives EXCEPT ![n] = @ + 1]
      BY <1>2 DEF GivesOut
    <2>2. ~Creates(c)
      BY <2>1 DEF Creates
    <2>3. ASSUME NEW i \in Ids
          PROVE  /\ task'[i].born <= lives[i]
                 /\ \A d \in Callers : call'[d].seen[i].born <= lives[i]
                 /\ lives[i] \in Nat /\ lives'[i] \in Nat /\ lives[i] <= lives'[i]
                 /\ lives'[n] = lives[n] + 1
                 /\ task'[i].born \in Nat
                 /\ \A d \in Callers : call'[d].seen[i].born \in Nat
      <3>1. /\ task'[i].born \in {0, task[i].born, call[c].seen[i].born}
            /\ \A d \in Callers : call'[d].seen[i].born
                                    \in {0, task[i].born, call[d].seen[i].born}
        BY <2>2, BornAfter
      <3>2. /\ task[i].born <= lives[i] /\ task[i].born \in Nat /\ lives[i] \in Nat
            /\ \A d \in Callers : /\ call[d].seen[i].born <= lives[i]
                                  /\ call[d].seen[i].born \in Nat
        BY BornTyped DEF LivesInv
      <3>3. /\ lives'[n] = lives[n] + 1 /\ lives[n] \in Nat
            /\ i # n => lives'[i] = lives[i]
        BY <1>0, <2>1
      <3>4. QED BY <3>1, <3>2, <3>3
    <2>4. LivesInv'
      BY <2>3 DEF LivesInv
    <2>5. Unborn(n)'
      BY <2>3 DEF Unborn
    <2>6. ASSUME NEW d \in Callers \ crashed, call'[d].pc = "createWrite"
          PROVE  call'[d].id \in Ids /\ Unborn(call[d].id)'
      <3>1. d = c
        BY <1>1, <2>1, <2>6 DEF Creating
      <3>2. QED BY <2>1, <2>5, <3>1 DEF Unborn
    <2>7. QED BY <1>0, <2>4, <2>6 DEF UnbornInv
  <1>3. CASE ~GivesOut(c)
    <2>1. /\ lives' = lives
          /\ call'[c].pc = "createWrite" =>
               call[c].pc = "createWrite" /\ call'[c].id = call[c].id
      BY <1>3 DEF Effects, TaskStep
    <2>2. ASSUME NEW i \in Ids
          PROVE  /\ task'[i].born <= lives[i]
                 /\ \A d \in Callers : call'[d].seen[i].born <= lives[i]
                 /\ Unborn(i) /\ ~Creates(c) => Unborn(i)'
      <3>1. /\ \/ task'[i].born \in {0, task[i].born, call[c].seen[i].born}
               \/ Creates(c) /\ task'[i].born = lives[i]
            /\ \A d \in Callers : call'[d].seen[i].born
                                    \in {0, task[i].born, call[d].seen[i].born}
        BY BornAfter
      <3>2. /\ task[i].born <= lives[i] /\ task[i].born \in Nat /\ lives[i] \in Nat
            /\ \A d \in Callers : /\ call[d].seen[i].born <= lives[i]
                                  /\ call[d].seen[i].born \in Nat
        BY BornTyped DEF LivesInv
      <3>3. task'[i].born <= lives[i]
        BY <3>1, <3>2
      <3>4. \A d \in Callers : call'[d].seen[i].born <= lives[i]
        BY <3>1, <3>2
      <3>5. ASSUME Unborn(i), ~Creates(c) PROVE Unborn(i)'
        <4>1. /\ task[i].born < lives[i]
              /\ \A d \in Callers : call[d].seen[i].born < lives[i]
          BY <3>5 DEF Unborn
        <4>2. task'[i].born < lives[i]
          BY <3>1, <3>2, <3>5, <4>1
        <4>3. \A d \in Callers : call'[d].seen[i].born < lives[i]
          BY <3>1, <3>2, <4>1
        <4>4. QED BY <2>1, <4>2, <4>3 DEF Unborn
      <3>6. QED BY <3>3, <3>4, <3>5
    <2>3. LivesInv'
      BY <2>1, <2>2 DEF LivesInv
    <2>4. ASSUME NEW d \in Callers \ crashed, call'[d].pc = "createWrite"
          PROVE  call'[d].id \in Ids /\ Unborn(call[d].id)'
      <3>1. /\ call'[d].id = call[d].id /\ call[d].id \in Ids /\ Unborn(call[d].id)
            /\ ~Creates(c)
        <4>1. CASE d = c
          BY <2>1, <2>4, <4>1 DEF UnbornInv, Creates
        <4>2. CASE d # c
          BY <1>1, <2>4, <4>2 DEF Creates, Creating
        <4>3. QED BY <4>1, <4>2
      <3>2. Unborn(call[d].id) => \A i \in Ids : i = call[d].id => Unborn(i)'
        BY <2>2, <3>1
      <3>3. QED BY <3>1, <3>2 DEF Unborn
    <2>5. QED BY <1>0, <2>3, <2>4 DEF UnbornInv
  <1>4. QED BY <1>2, <1>3

LEMMA StepKeepsFresh ==
  ASSUME TypeInv, LockInv, UpdateInv, NEW c \in Callers, Stepped(c), Effects(c)
  PROVE  FreshInv'
  <1>0. c \notin crashed /\ crashed' = crashed /\ task \in [Ids -> Task]
    BY DEF Stepped, TypeInv, TypeOK
  <1>1. ASSUME call'[c].pc = "read" PROVE Fresh(call[c])'
    <2> DEFINE r == call[c]
               s == call'[c]
               t == TargetOf(s)
    <2>1. /\ task' = task
          /\ t \notin s.ids => r.pc = "read" /\ t = TargetOf(r) /\ Reread(r, s, t)
      BY <1>1 DEF Effects, Rereads
    <2>2. r.pc = "read" => Fresh(r)
      BY <1>0 DEF UpdateInv, FreshInv
    <2>3. ASSUME t \notin s.ids, Exists(s.seen[t]), task[t].born = s.seen[t].born
          PROVE  task[t] = s.seen[t]
      BY <2>1, <2>2, <2>3 DEF Reread, Fresh
    <2>4. QED BY <2>1, <2>3 DEF Fresh
  <1>2. ASSUME NEW d \in Callers \ crashed, d # c, call'[d].pc = "read"
        PROVE  Fresh(call[d])'
    <2> DEFINE r == call[d]
               s == call'[d]
               t == TargetOf(r)
    <2>1. /\ s.seen = r.seen /\ s.ids = r.ids /\ TargetOf(s) = t /\ r.pc = "read"
      BY <1>2, OthersKept
    <2>2. t \in Ids /\ Fresh(r)
      BY <2>1, TargetTyped DEF UpdateInv, FreshInv
    <2>3. ASSUME Exists(r.seen[t]), task'[t].born = r.seen[t].born
          PROVE  task'[t] = task[t]
      <3>1. NoTask.born = 0 /\ r.seen[t].born # 0
        BY <2>2, <2>3, BornTyped DEF Exists
      <3>2. CASE GivesOut(c) \/ Empties
        BY <1>0, <2>2, <2>3, <3>1, <3>2 DEF GivesOut, Empties
      <3>3. CASE Creates(c)
        <4>1. /\ call[c].pc = "createWrite"
              /\ task' = [task EXCEPT ![call[c].id] = NewTask(lives[call[c].id])]
          BY <3>3 DEF Creates
        <4>2. CASE t = call[c].id
          <5>1. Unborn(t)
            BY <1>0, <4>1, <4>2 DEF UpdateInv, UnbornInv
          <5>2. r.seen[t].born < lives[t] /\ lives[t] \in Nat /\ r.seen[t].born \in Nat
            BY <2>2, <5>1, BornTyped DEF Unborn
          <5>3. task'[t].born = lives[t]
            BY <1>0, <2>2, <4>1, <4>2 DEF NewTask
          <5>4. QED BY <2>3, <5>2, <5>3
        <4>3. QED BY <1>0, <2>2, <4>1, <4>2
      <3>4. CASE Writes(c)
        <4>1. TargetOf(call[c]) # t
          BY <1>0, <1>2, <2>1, <3>4, OnlyHolderWrites DEF Writes, TaskPcs
        <4>2. QED BY <1>0, <2>2, <3>4, <4>1 DEF Writes
      <3>5. QED BY <3>2, <3>3, <3>4 DEF Effects, TaskStep
    <2>4. QED BY <2>1, <2>2, <2>3 DEF Fresh
  <1>3. QED BY <1>0, <1>1, <1>2 DEF FreshInv

LEMMA InitUpdates == ASSUME TaskListConstants, Init PROVE UpdateInv
  <1>1. \A i \in Ids : task[i].born <= lives[i]
    BY DEF Init, NewTask, NoTask
  <1>2. \A c \in Callers : \A i \in Ids : call[c].seen[i].born <= lives[i]
    BY DEF Init, Idle, Blank, NoTask, NewTask
  <1>3. \A c \in Callers : call[c].pc = "idle"
    BY DEF Init, Idle
  <1>4. QED BY <1>1, <1>2, <1>3 DEF UpdateInv, LivesInv, UnbornInv, FreshInv

LEMMA NextUpdates ==
  ASSUME TaskListConstants, TypeInv, LockInv, UpdateInv, [Next]_vars
  PROVE  UpdateInv'
  <1>1. ASSUME NEW c \in Callers, Step(c) \/ LockFails(c) \/ BeginCall(c)
        PROVE  UpdateInv'
    <2>1. Stepped(c) /\ Effects(c)
      BY <1>1, StepSteps, StepEffects
    <2>2. QED BY <2>1, StepKeepsLives, StepKeepsFresh DEF UpdateInv
  <1>2. ASSUME NEW c \in Callers, Crash(c) PROVE UpdateInv'
    BY <1>2 DEF Crash, UpdateInv, LivesInv, UnbornInv, FreshInv, Unborn, Fresh,
       disk, history
  <1>3. CASE UNCHANGED vars
    BY <1>3 DEF vars, disk, history, UpdateInv, LivesInv, UnbornInv, FreshInv,
       Unborn, Fresh
  <1>4. QED BY <1>1, <1>2, <1>3 DEF Next

LEMMA UpdatesInvariant == Spec => [](TypeInv /\ LockInv /\ UpdateInv)
  <1>1. Init => TypeInv /\ LockInv /\ UpdateInv
    BY TaskListConstants, InitTypes, InitLocks, InitUpdates
  <1>2. (TypeInv /\ LockInv /\ UpdateInv) /\ [Next]_vars
          => (TypeInv /\ LockInv /\ UpdateInv)'
    BY TaskListConstants, NextTypes, NextLocks, NextUpdates
  <1>3. QED BY <1>1, <1>2, PTL DEF Spec

LEMMA FreshIsKept == TypeInv /\ LockInv /\ UpdateInv => NoLostUpdate
  <1> SUFFICES ASSUME TypeInv, LockInv, UpdateInv, NEW c \in Callers, Writing(c)
               PROVE  task[Target(c)] = call[c].seen[Target(c)]
    BY DEF NoLostUpdate
  <1>1. /\ c \notin crashed /\ call[c].pc = "read" /\ call[c].ids = {}
        /\ Exists(call[c].seen[Target(c)])
        /\ task[Target(c)].born = call[c].seen[Target(c)].born
    BY DEF Writing, Found, AllRead, At
  <1>2. Target(c) = TargetOf(call[c])
    BY DEF Target, TargetOf
  <1>3. Fresh(call[c])
    BY <1>1 DEF UpdateInv, FreshInv
  <1>4. QED BY <1>1, <1>2, <1>3 DEF Fresh

(* updateTaskUnsafe: a task is written back from what its file says.       *)
THEOREM NoUpdateIsLost == Spec => []NoLostUpdate
  BY UpdatesInvariant, FreshIsKept, PTL

-----------------------------------------------------------------------------
(* A claim takes nothing away *)

(* A claim is where claimTask is, or at the one update it makes.           *)
ClaimPcs == {"claimLook", "claimRead", "claimList", "read", "write"}
ClaimShaped(r) ==
  r.op = "claim" =>
    /\ r.pc \in ClaimPcs
    /\ r.pc \in {"read", "write"} => Tail(r.todo) = <<>> /\ Head(r.todo).id = r.id

(* Once a claim has found its task claimable it remains so, or goes away.  *)
Unclaimed(i, c) == Exists(task[i]) => Claimable(task[i], c)
ClaimSafe(r, c) ==
  r.op = "claim" =>
    /\ r.pc = "claimRead" /\ r.id \notin r.ids /\ Claimable(r.seen[r.id], c)
         => Unclaimed(r.id, c)
    /\ r.pc \in {"claimList", "read"} => Unclaimed(r.id, c)

ClaimInv ==
  /\ \A c \in Callers : ClaimShaped(call[c])
  /\ \A c \in Callers \ crashed : ClaimSafe(call[c], c)

(* How a step brings a claim forward.                                      *)
Claims(c) ==
  LET r == call[c]
      s == call'[c]
  IN  s.op = "claim" =>
        /\ ClaimShaped(s)
        /\ s.pc \in {"claimRead", "claimList", "read"} => task' = task
        /\ s.pc = "claimRead" /\ s.id \notin s.ids
             => /\ r.op = "claim" /\ r.pc = "claimRead"
                /\ s.id = r.id /\ Reread(r, s, s.id)
        /\ s.pc = "claimList"
             => /\ r.op = "claim" /\ s.id = r.id
                /\ r.pc \in {"claimRead", "claimList"}
                /\ r.pc = "claimRead" => r.ids = {} /\ Claimable(r.seen[r.id], c)
        /\ s.pc = "read" => /\ r.op = "claim" /\ s.id = r.id
                            /\ r.pc \in {"claimList", "read"}

LEMMA GoOnOp ==
  ASSUME TypeInv, NEW c \in Callers, NEW todo, GoOn(c, todo)
  PROVE  call'[c].op \in {call[c].op, "none"}
  <1>0. call \in [Callers -> Call] /\ call[c] \in Call
    BY DEF TypeInv, TypeOK
  <1>1. CASE todo = <<>>
    BY <1>0, <1>1 DEF GoOn, Return, Idle
  <1>2. CASE todo # <<>>
    <2>1. call' = [call EXCEPT ![c] =
                     [call[c] EXCEPT !.pc = "look", !.ids = {Head(todo).id},
                                     !.seen = Blank, !.todo = todo, !.open = 0]]
      BY <1>2 DEF GoOn
    <2>2. QED BY <1>0, <2>1 DEF Call
  <1>3. QED BY <1>1, <1>2

(* Only the beginning of a call says what it is.                           *)
LEMMA OpKept ==
  ASSUME TaskListConstants, TypeInv, NEW c \in Callers, Step(c) \/ LockFails(c)
  PROVE  call'[c].op \in {call[c].op, "none"}
  <1>0. call \in [Callers -> Call] /\ call[c] \in Call
    BY DEF TypeInv, TypeOK
  <1>g. ASSUME NEW pc, NEW ids, Goto(c, pc, ids) PROVE call'[c].op = call[c].op
    <2>1. call'[c] = [call[c] EXCEPT !.pc = pc, !.ids = ids]
      BY <1>0, <1>g DEF Goto
    <2>2. QED BY <1>0, <2>1 DEF Call
  <1>1. CASE LockFails(c) \/ ClaimRefused(c) \/ DeleteFindsNone(c) \/ ResetReturns(c)
             \/ CreateWrites(c)
    BY <1>0, <1>1 DEF LockFails, ClaimRefused, DeleteFindsNone, ResetReturns,
       CreateWrites, Return, Idle
  <1>2. CASE CreateLocks(c) \/ ResetLocks(c) \/ ListFiles(c, "unassignList", "unassignRead")
             \/ ListFiles(c, "deleteList", "deleteRead") \/ ClaimLocks(c) \/ ClaimLists(c)
             \/ ListFiles(c, "resetList", "resetUnlink") \/ ListFiles(c, "busyList", "busyRead")
             \/ UpdateLocks(c) \/ MarkStep(c)
    BY <1>2, <1>g
    DEF CreateLocks, ResetLocks, ListFiles, ClaimLocks, ClaimLists, UpdateLocks,
        MarkStep, ReadMark, OpenMark, WriteMark
  <1>3. CASE BlockDecides(c) \/ UnassignDecides(c) \/ DeleteCascades(c) \/ BusyPasses(c)
             \/ UpdateSkips(c) \/ UpdateWrites(c)
    <2>1. \E todo : GoOn(c, todo)
      BY <1>3 DEF BlockDecides, UnassignDecides, DeleteCascades, BusyPasses,
         UpdateSkips, UpdateWrites, InAnyOrder, GoOn
    <2>2. QED BY <2>1, GoOnOp
  <1>4. CASE ScanFiles(c) \/ ScanMark(c) \/ ResetScans(c)
    <2>1. \A h, pc : /\ [call[c] EXCEPT !.highest = h].op = call[c].op
                     /\ [call[c] EXCEPT !.atMark = h].op = call[c].op
                     /\ [call[c] EXCEPT !.highest = h, !.pc = pc].op = call[c].op
      BY <1>0 DEF Call
    <2>2. CASE ScanFiles(c)
      BY <1>0, <2>1, <2>2 DEF ScanFiles
    <2>3. CASE ScanMark(c)
      BY <1>0, <2>1, <2>3 DEF ScanMark
    <2>4. CASE ResetScans(c)
      BY <1>0, <2>1, <2>4 DEF ResetScans
    <2>5. QED BY <1>4, <2>2, <2>3, <2>4
  <1>5. CASE CreateOpens(c)
    <2>1. PICK n : call'[c] = [call[c] EXCEPT !.pc = "createWrite", !.id = n, !.open = n]
      BY <1>0, <1>5 DEF CreateOpens
    <2>2. QED BY <1>0, <2>1 DEF Call
  <1>6. CASE UpdateOpens(c)
    <2>1. call'[c] = [call[c] EXCEPT !.pc = "write", !.open = Target(c)]
      BY <1>0, <1>6 DEF UpdateOpens
    <2>2. QED BY <1>0, <2>1 DEF Call
  <1>7. CASE ClaimPasses(c)
    <2>1. call'[c] = [call[c] EXCEPT !.pc = "read", !.ids = {call[c].id},
                                     !.todo = <<OwnedBy(c, call[c].id)>>]
      BY <1>0, <1>7 DEF ClaimPasses
    <2>2. QED BY <1>0, <2>1 DEF Call
  <1>8. CASE BusyLocks(c)
    <2>1. call'[c] = [call[c] EXCEPT !.pc = "busyList", !.seen = Blank]
      BY <1>0, <1>8 DEF BusyLocks
    <2>2. QED BY <1>0, <2>1 DEF Call
  <1>o. ASSUME NEW i, NEW s \in Call, s.op = call[c].op,
               call' = Orphaned(i, [call EXCEPT ![c] = s])
        PROVE  call'[c].op = call[c].op
    <2>1. call'[c] \in {s, [s EXCEPT !.open = 0]}
      BY <1>0, <1>o DEF Orphaned
    <2>2. QED BY <1>o, <2>1 DEF Call
  <1>9. CASE DeleteUnlinks(c)
    <2> DEFINE s == [call[c] EXCEPT !.pc = "deleteList"]
    <2>1. s \in Call /\ s.op = call[c].op
      BY <1>0 DEF Call, Pcs
    <2>2. call' = Orphaned(call[c].id, [call EXCEPT ![c] = s])
      BY <1>0, <1>9 DEF DeleteUnlinks
    <2> HIDE DEF s
    <2>3. QED BY <1>o, <2>1, <2>2
  <1>10. ASSUME NEW i \in call[c].ids, ResetUnlinks(c, i)
         PROVE  call'[c].op = call[c].op
    <2> DEFINE s == [call[c] EXCEPT !.ids = @ \ {i}]
    <2>1. s \in Call /\ s.op = call[c].op
      BY <1>0 DEF Call
    <2>2. call' = Orphaned(i, [call EXCEPT ![c] = s])
      BY <1>0, <1>10 DEF ResetUnlinks
    <2> HIDE DEF s
    <2>3. QED BY <1>o, <2>1, <2>2
  <1>11. ASSUME NEW i \in call[c].ids, ReadTask(c, i)
         PROVE  call'[c].op = call[c].op
    BY <1>11, ReadIsReread
  <1>12. CASE UpdateStep(c) \/ ClaimStep(c) \/ DeleteStep(c) \/ ResetStep(c)
    BY <1>1, <1>2, <1>3, <1>4, <1>6, <1>7, <1>8, <1>9, <1>10, <1>12
    DEF UpdateStep, ClaimStep, DeleteStep, ResetStep
  <1>13. QED BY <1>1, <1>2, <1>3, <1>4, <1>5, <1>11, <1>12 DEF Step

(* A claim that moves: it reads, fails, or goes where claimTask goes.      *)
LEMMA ClaimMoves ==
  ASSUME TaskListConstants, TypeInv, NEW c \in Callers, Step(c) \/ LockFails(c),
         ClaimShaped(call[c]), call[c].op = "claim"
  PROVE  Claims(c)
  <1>0. /\ call \in [Callers -> Call] /\ call[c] \in Call /\ Shaped(call[c])
        /\ call[c].pc \in ClaimPcs /\ files \subseteq Ids
        /\ call[c].pc \in {"read", "write"}
             => Tail(call[c].todo) = <<>> /\ Head(call[c].todo).id = call[c].id
        /\ call[c].pc \in OwnTaskPcs => call[c].id \in Ids
    BY DEF TypeInv, TypeOK, ClaimShaped, Shaped
  <1>r. ASSUME Return(c) PROVE Claims(c)
    <2>1. call'[c].op = "none"
      BY <1>0, <1>r DEF Return, Idle
    <2>2. QED BY <2>1 DEF Claims
  <1>1. CASE LockFails(c) \/ ClaimRefused(c)
    BY <1>1, <1>r DEF LockFails, ClaimRefused
  <1>2. ASSUME NEW i \in call[c].ids, ReadTask(c, i)
        PROVE  Claims(c)
    <2>1. /\ call'[c].op = call[c].op /\ call'[c].pc = call[c].pc
          /\ call'[c].id = call[c].id /\ call'[c].todo = call[c].todo
          /\ task' = task
          /\ \A t \in Ids : Reread(call[c], call'[c], t)
      BY <1>2, ReadIsReread
    <2>2. ClaimShaped(call'[c])
      BY <2>1 DEF ClaimShaped
    <2>3. call[c].pc = "claimRead" => call[c].id \in Ids
      BY <1>0 DEF OwnTaskPcs
    <2>4. QED BY <1>0, <2>1, <2>2, <2>3 DEF Claims
  <1>3. CASE ClaimLocks(c)
    <2>1. call'[c] = [call[c] EXCEPT !.pc = "claimRead", !.ids = {call[c].id}]
          /\ task' = task
      BY <1>0, <1>3 DEF ClaimLocks, Goto, disk
    <2>2. /\ call'[c].op = "claim" /\ call'[c].pc = "claimRead"
          /\ call'[c].ids = {call[c].id} /\ call'[c].id = call[c].id
      BY <1>0, <2>1 DEF Call
    <2>3. QED BY <2>1, <2>2 DEF Claims, ClaimShaped, ClaimPcs
  <1>4. CASE ClaimLists(c)
    <2>1. /\ call'[c] = [call[c] EXCEPT !.pc = "claimList", !.ids = files \ {call[c].id}]
          /\ task' = task /\ call[c].pc = "claimRead" /\ call[c].ids = {}
          /\ Claimable(call[c].seen[call[c].id], c)
      BY <1>0, <1>4 DEF ClaimLists, AllRead, At, Goto, disk
    <2>2. /\ call'[c].op = "claim" /\ call'[c].pc = "claimList"
          /\ call'[c].id = call[c].id
      BY <1>0, <2>1 DEF Call
    <2>3. QED BY <2>1, <2>2 DEF Claims, ClaimShaped, ClaimPcs
  <1>5. CASE ClaimPasses(c)
    <2> DEFINE todo == <<OwnedBy(c, call[c].id)>>
    <2>1. /\ call'[c] = [call[c] EXCEPT !.pc = "read", !.ids = {call[c].id}, !.todo = todo]
          /\ task' = task /\ call[c].pc = "claimList"
      BY <1>0, <1>5 DEF ClaimPasses, AllRead, At, disk
    <2>2. call[c].id \in Ids
      BY <1>0, <2>1 DEF OwnTaskPcs
    <2>3. Tail(todo) = <<>> /\ Head(todo).id = call[c].id
      BY <2>2, OwnedByType
    <2> HIDE DEF todo
    <2>4. /\ call'[c].op = "claim" /\ call'[c].pc = "read" /\ call'[c].todo = todo
          /\ call'[c].id = call[c].id
      BY <1>0, <2>1 DEF Call
    <2>5. QED BY <2>1, <2>3, <2>4 DEF Claims, ClaimShaped, ClaimPcs
  <1>6. CASE UpdateOpens(c)
    <2>1. /\ call'[c] = [call[c] EXCEPT !.pc = "write", !.open = Target(c)]
          /\ call[c].pc = "read"
      BY <1>0, <1>6 DEF UpdateOpens, Found, AllRead, At
    <2>2. /\ call'[c].op = "claim" /\ call'[c].pc = "write"
          /\ call'[c].todo = call[c].todo /\ call'[c].id = call[c].id
      BY <1>0, <2>1 DEF Call
    <2>3. QED BY <1>0, <2>1, <2>2 DEF Claims, ClaimShaped, ClaimPcs
  <1>7. CASE UpdateSkips(c) \/ UpdateWrites(c)
    <2>1. call[c].pc \in {"look", "read", "write"} /\ GoOn(c, Tail(call[c].todo))
      BY <1>7 DEF UpdateSkips, UpdateWrites, AllRead, At
    <2>2. Tail(call[c].todo) = <<>>
      BY <1>0, <2>1 DEF ClaimPcs
    <2>3. QED BY <1>r, <2>1, <2>2 DEF GoOn
  <1>8. /\ ~CreateLocks(c) /\ ~ScanFiles(c) /\ ~ScanMark(c) /\ ~CreateOpens(c)
        /\ ~CreateWrites(c) /\ ~MarkStep(c) /\ ~DeleteStep(c)
        /\ ~BlockDecides(c) /\ ~UnassignDecides(c) /\ ~UpdateLocks(c)
        /\ ~BusyLocks(c) /\ ~BusyPasses(c) /\ ~ListFiles(c, "busyList", "busyRead")
        /\ ~ListFiles(c, "unassignList", "unassignRead")
    BY <1>0 DEF ClaimPcs, At, AllRead, Found, CreateLocks, ScanFiles, ScanMark,
       CreateOpens, CreateWrites, MarkStep, ReadMark, OpenMark, WriteMark,
       DeleteStep, DeleteUnlinks, DeleteFindsNone, ListFiles, DeleteCascades,
       BlockDecides, UnassignDecides, UpdateLocks, BusyLocks, BusyPasses
  <1>9. ~ResetStep(c)
    BY <1>0 DEF ClaimPcs, At, AllRead, ResetStep, ResetLocks, ResetScans, ListFiles,
       ResetUnlinks, ResetReturns
  <1>10. QED BY <1>1, <1>2, <1>3, <1>4, <1>5, <1>6, <1>7, <1>8, <1>9
             DEF Step, UpdateStep, ClaimStep

LEMMA BeginClaims ==
  ASSUME TaskListConstants, TypeInv, NEW c \in Callers, BeginCall(c)
  PROVE  Claims(c)
  <1>0. call \in [Callers -> Call]
    BY DEF TypeInv, TypeOK
  <1>1. ASSUME NEW op, NEW pc, NEW r, Begin(c, op, pc, r),
               op = "claim" => pc = "claimLook" /\ r \in Call,
               [r EXCEPT !.op = op, !.pc = pc].op = op
        PROVE  Claims(c)
    <2> DEFINE s == [r EXCEPT !.op = op, !.pc = pc]
    <2>1. call'[c] = s /\ s.op = op
      BY <1>0, <1>1 DEF Begin
    <2>2. op = "claim" => s.pc = "claimLook"
      BY <1>1 DEF Call
    <2> HIDE DEF s
    <2>3. QED BY <2>1, <2>2 DEF Claims, ClaimShaped, ClaimPcs
  <1>2. \A r \in Call : \A x, op, pc :
          /\ [r EXCEPT !.op = op, !.pc = pc].op = op
          /\ [[r EXCEPT !.todo = x] EXCEPT !.op = op, !.pc = pc].op = op
          /\ [[r EXCEPT !.id = x] EXCEPT !.op = op, !.pc = pc].op = op
          /\ [[r EXCEPT !.who = x] EXCEPT !.op = op, !.pc = pc].op = op
    BY DEF Call
  <1>3. \A r \in Call : \A x, y, op, pc :
          /\ [[r EXCEPT !.id = x, !.highest = y] EXCEPT !.op = op, !.pc = pc].op = op
          /\ [[r EXCEPT !.id = x, !.ids = y] EXCEPT !.op = op, !.pc = pc].op = op
    BY DEF Call
  <1>4. Idle \in Call /\ \A i \in Known : OnTask(i) \in Call
    BY BlankType, OnTaskType DEF Known
  <1>5. CASE BeginCreate(c)
    BY <1>1, <1>2, <1>4, <1>5 DEF BeginCreate
  <1>6. CASE BeginUpdate(c)
    <2>1. PICK i, x : /\ i \in Known
                      /\ Begin(c, "update", "look", [OnTask(i) EXCEPT !.todo = x])
      BY <1>6 DEF BeginUpdate
    <2>2. QED BY <1>1, <1>2, <1>4, <2>1
  <1>7. CASE ~BeginCreate(c) /\ ~BeginUpdate(c)
    <2>1. ASSUME NEW i \in Known,
                 \/ Begin(c, "claim", "claimLook", OnTask(i))
                 \/ Begin(c, "claimIfIdle", "busyLook", OnTask(i))
          PROVE  Claims(c)
      BY <1>1, <1>2, <1>4, <2>1
    <2>2. ASSUME NEW i, NEW j,
                 \/ Begin(c, "delete", "mark", [Idle EXCEPT !.id = i, !.highest = i])
                 \/ Begin(c, "block", "blockRead", [Idle EXCEPT !.id = i, !.ids = {i, j}])
          PROVE  Claims(c)
      BY <1>1, <1>3, <1>4, <2>2
    <2>3. ASSUME NEW who, \/ Begin(c, "reset", "resetLock", Idle)
                          \/ Begin(c, "unassign", "unassignList", [Idle EXCEPT !.who = who])
          PROVE  Claims(c)
      BY <1>1, <1>2, <1>4, <2>3
    <2>4. QED BY <1>7, <2>1, <2>2, <2>3 DEF BeginCall
  <1>8. QED BY <1>5, <1>6, <1>7

LEMMA StepClaims ==
  ASSUME TaskListConstants, TypeInv, NEW c \in Callers, ClaimShaped(call[c]),
         Step(c) \/ LockFails(c) \/ BeginCall(c)
  PROVE  Claims(c)
  <1>1. CASE BeginCall(c)
    BY <1>1, BeginClaims
  <1>2. CASE (Step(c) \/ LockFails(c)) /\ call[c].op = "claim"
    BY <1>2, ClaimMoves
  <1>3. CASE (Step(c) \/ LockFails(c)) /\ call[c].op # "claim"
    <2>1. call'[c].op # "claim"
      BY <1>3, OpKept
    <2>2. QED BY <2>1 DEF Claims
  <1>4. QED BY <1>1, <1>2, <1>3

(* What others do to the file of a task that c has locked.                 *)
LEMMA UnclaimedKept ==
  ASSUME TypeInv, LockInv, NEW c \in Callers \ crashed, NEW d \in Callers \ crashed,
         c # d, Effects(c), call[d].pc \in TaskPcs,
         NEW t \in Ids, t = TargetOf(call[d]), Unclaimed(t, d)
  PROVE  Unclaimed(t, d)'
  <1>0. task \in [Ids -> Task] /\ ~Exists(NoTask) /\ \A n : Claimable(NewTask(n), d) \/ n = 0
    BY DEF TypeInv, TypeOK, Exists, NoTask, NewTask, Claimable, Open
  <1>1. CASE task'[t] = task[t]
    BY <1>1 DEF Unclaimed
  <1>2. CASE task'[t] # task[t]
    <2>1. CASE GivesOut(c) \/ Empties
      <3>1. task'[t] = NoTask
        BY <1>0, <1>2, <2>1 DEF GivesOut, Empties
      <3>2. QED BY <1>0, <3>1 DEF Unclaimed
    <2>2. CASE Creates(c)
      <3>1. PICK n : task'[t] = NewTask(n)
        BY <1>0, <1>2, <2>2 DEF Creates
      <3>2. n = 0 => ~Exists(task'[t])
        BY <3>1 DEF NewTask, Exists
      <3>3. QED BY <1>0, <3>1, <3>2 DEF Unclaimed
    <2>3. CASE Writes(c)
      <3>1. TargetOf(call[c]) # t
        BY <2>3, OnlyHolderWrites DEF Writes
      <3>2. QED BY <1>0, <1>2, <2>3, <3>1 DEF Writes
    <2>4. QED BY <1>2, <2>1, <2>2, <2>3 DEF Effects, TaskStep
  <1>3. QED BY <1>1, <1>2

LEMMA StepKeepsClaims ==
  ASSUME TypeInv, LockInv, ClaimInv, NEW c \in Callers,
         Stepped(c), Effects(c), Claims(c)
  PROVE  ClaimInv'
  <1>0. c \notin crashed /\ crashed' = crashed
    BY DEF Stepped
  <1>1. ASSUME NEW d \in Callers \ {c}
        PROVE  /\ ClaimShaped(call'[d])
               /\ d \notin crashed => ClaimSafe(call[d], d)'
    <2> DEFINE r == call[d]
               s == call'[d]
    <2>1. /\ s.pc = r.pc /\ s.op = r.op /\ s.id = r.id /\ s.ids = r.ids
          /\ s.seen = r.seen /\ s.todo = r.todo
      BY OthersKept
    <2>2. ClaimShaped(r) /\ (d \notin crashed => ClaimSafe(r, d))
      BY DEF ClaimInv
    <2>3. ClaimShaped(s)
      BY <2>1, <2>2 DEF ClaimShaped
    <2>4. ASSUME d \notin crashed, r.op = "claim",
                 r.pc \in {"claimRead", "claimList", "read"}, Unclaimed(r.id, d)
          PROVE  Unclaimed(r.id, d)'
      <3>1. r.id = TargetOf(r) /\ r.id \in Ids
        <4>1. CASE r.pc = "read"
          <5>1. TargetOf(r) \in Ids
            BY <4>1, TargetTyped
          <5>2. r.todo # <<>> /\ Head(r.todo).id = r.id
            BY <2>2, <2>4, <4>1 DEF TypeInv, Shaped, ClaimShaped
          <5>3. QED BY <5>1, <5>2 DEF TargetOf
        <4>2. CASE r.pc # "read"
          BY <2>4, <4>2 DEF TypeInv, Shaped, OwnTaskPcs, TargetOf
        <4>3. QED BY <4>1, <4>2
      <3>2. r.pc \in TaskPcs
        BY <2>4 DEF TaskPcs
      <3>3. ASSUME NEW t \in Ids, t = TargetOf(call[d]), Unclaimed(t, d)
            PROVE  Unclaimed(t, d)'
        BY <1>0, <2>4, <3>2, <3>3, UnclaimedKept
      <3>4. PICK t \in Ids : t = r.id
        BY <3>1
      <3>5. Unclaimed(t, d)'
        BY <2>4, <3>1, <3>3, <3>4
      <3>6. QED BY <2>1, <3>4, <3>5 DEF Unclaimed
    <2>5. d \notin crashed => ClaimSafe(call[d], d)'
      BY <2>1, <2>2, <2>4 DEF ClaimSafe, Unclaimed
    <2>6. QED BY <2>3, <2>5
  <1>2. ClaimShaped(call'[c]) /\ ClaimSafe(call[c], c)'
    <2> DEFINE r == call[c]
               s == call'[c]
    <2>1. CASE s.op # "claim"
      BY <2>1 DEF ClaimShaped, ClaimSafe
    <2>2. CASE s.op = "claim"
      <3>1. ClaimSafe(r, c)
        BY <1>0 DEF ClaimInv
      <3>2. ASSUME s.pc = "claimRead", s.id \notin s.ids, Claimable(s.seen[s.id], c)
            PROVE  Unclaimed(s.id, c) /\ task' = task
        BY <2>2, <3>1, <3>2 DEF Claims, ClaimSafe, Reread, Unclaimed
      <3>3. ASSUME s.pc \in {"claimList", "read"}
            PROVE  Unclaimed(s.id, c) /\ task' = task
        BY <2>2, <3>1, <3>3 DEF Claims, ClaimSafe
      <3>4. QED BY <2>2, <3>2, <3>3 DEF Claims, ClaimSafe, Unclaimed
    <2>3. QED BY <2>1, <2>2
  <1>3. QED BY <1>0, <1>1, <1>2 DEF ClaimInv

LEMMA NextClaims ==
  ASSUME TaskListConstants, TypeInv, LockInv, ClaimInv, [Next]_vars
  PROVE  ClaimInv'
  <1>1. ASSUME NEW c \in Callers, Step(c) \/ LockFails(c) \/ BeginCall(c)
        PROVE  ClaimInv'
    <2>1. Stepped(c) /\ Effects(c) /\ Claims(c)
      BY <1>1, StepSteps, StepEffects, StepClaims DEF ClaimInv
    <2>2. QED BY <2>1, StepKeepsClaims
  <1>2. ASSUME NEW c \in Callers, Crash(c) PROVE ClaimInv'
    BY <1>2 DEF Crash, ClaimInv, ClaimSafe, Unclaimed, disk
  <1>3. CASE UNCHANGED vars
    BY <1>3 DEF vars, disk, ClaimInv, ClaimSafe, Unclaimed
  <1>4. QED BY <1>1, <1>2, <1>3 DEF Next

LEMMA ClaimIsSafe == TypeInv /\ ClaimInv => ClaimTakesNothing
  <1> SUFFICES ASSUME TypeInv, ClaimInv, NEW c \in Callers, Writing(c),
                      call[c].op = "claim"
               PROVE  /\ task[call[c].id].owner \in {None, c}
                      /\ task[call[c].id].status # "completed"
    BY DEF ClaimTakesNothing, TakesNothing
  <1>1. /\ c \notin crashed /\ call[c].pc = "read"
        /\ Exists(call[c].seen[Target(c)])
        /\ task[Target(c)].born = call[c].seen[Target(c)].born
    BY DEF Writing, Found, AllRead, At
  <1>2. Target(c) = call[c].id
    BY <1>1 DEF ClaimInv, ClaimShaped, TypeInv, Shaped, Target
  <1>3. Unclaimed(call[c].id, c)
    BY <1>1 DEF ClaimInv, ClaimSafe
  <1>4. QED BY <1>1, <1>2, <1>3 DEF Unclaimed, Exists, Claimable, Open

(* claimTask: nothing is claimed that is another's or completed.           *)
THEOREM ClaimsTakeNothing == Spec => []ClaimTakesNothing
  <1> DEFINE I == TypeInv /\ LockInv /\ ClaimInv
  <1>1. Init => I
    <2>1. Init => ClaimInv
      BY DEF Init, Idle, ClaimInv, ClaimShaped, ClaimSafe
    <2>2. QED BY <2>1, TaskListConstants, InitTypes, InitLocks
  <1>2. I /\ [Next]_vars => I'
    BY TaskListConstants, NextTypes, NextLocks, NextClaims
  <1>3. I => ClaimTakesNothing
    BY ClaimIsSafe
  <1> HIDE DEF I
  <1>4. QED BY <1>1, <1>2, <1>3, PTL DEF Spec

-----------------------------------------------------------------------------
(* No ID is given out twice as long as nobody deletes a task *)

ResetPcs == {"resetScan", "mark", "markOpen", "markWrite", "resetList", "resetUnlink"}
ListPcs == Creating \cup ResetPcs

UpTo(n, known) == \A i \in known : i <= n

(* What a call that gives out an ID or resets the list has read of the IDs *)
(* given out, or has secured, when m is the mark and fs are the files.     *)
Counted(r, m, fs, known) ==
  /\ r.pc = "createLock" => r.highest = -1 /\ r.atMark = -1
  /\ r.pc = "createScan" =>
       /\ r.atMark \in {-1, m}
       /\ r.highest # -1 => \A i \in known : i <= r.highest \/ i <= m
  /\ r.pc = "mark" => /\ r.highest \in fs
                      /\ \A i \in known : i <= r.highest \/ i <= m
  /\ r.pc \in {"markOpen", "markWrite"} => r.highest \in fs /\ UpTo(r.highest, known)
  /\ r.pc \in {"resetList", "resetUnlink"} => UpTo(m, known)

(* All IDs given out are known from the mark, or from the file of one that *)
(* is at least as high.                                                    *)
Covered(m, fs, known) == UpTo(m, known) \/ \E h \in fs : UpTo(h, known)

(* Who gives out an ID holds the list's lock (ListLockInv), and so does    *)
(* who resets, as deleteTask does not raise the mark as well.              *)
IdInv ==
  \/ deletes
  \/ /\ \A i \in Ids : lives[i] <= 1
     /\ Covered(mark, files, Known)
     /\ \A c \in Callers : call[c].op # "delete" /\ call[c].pc # "deleteUnlink"
     /\ \A c \in Callers \ crashed :
          /\ call[c].pc \in ResetPcs => listLock = c
          /\ Counted(call[c], mark, files, Known)

(* The list's lock of the others, and of whoever goes on under it.         *)
LEMMA ListLockOfOthers ==
  ASSUME TaskListConstants, TypeInv, NEW c \in Callers, Stepped(c),
         NEW d \in Callers \ crashed, d # c
  PROVE  listLock' = d <=> listLock = d
  <1>1. c \notin crashed /\ None \notin Callers
    BY DEF Stepped, TaskListConstants
  <1>2. QED
    BY <1>1 DEF Stepped, LockStep, Keeps, Returns, ReleaseAll, GoesOn,
       TakesList, TakeListLock, TakesTask, TakeTaskLock, Free, locks

LEMMA ListLockKept ==
  ASSUME NEW c \in Callers, Stepped(c), listLock = c, call'[c].pc \in ListPcs
  PROVE  listLock' = c
  <1>1. call'[c].pc # "idle" /\ call'[c].pc # "look" /\ call'[c].pc \notin TaskPcs
    BY DEF ListPcs, Creating, ResetPcs, TaskPcs
  <1>2. QED
    BY <1>1 DEF Stepped, LockStep, Keeps, Returns, GoesOn, TakesList, TakeListLock,
       TakesTask, locks

(* Counted looks at no more of a call than the following.                  *)
LEMMA CountedAlike ==
  ASSUME NEW r, NEW s, s.pc = r.pc, s.highest = r.highest, s.atMark = r.atMark,
         NEW m, NEW fs, NEW known
  PROVE  Counted(r, m, fs, known) <=> Counted(s, m, fs, known)
  BY DEF Counted

LEMMA OthersAlike ==
  ASSUME TypeInv, NEW c \in Callers, Stepped(c), NEW d \in Callers \ {c}
  PROVE  /\ call'[d].pc = call[d].pc /\ call'[d].op = call[d].op
         /\ call'[d].highest = call[d].highest /\ call'[d].atMark = call[d].atMark
  <1>1. call'[d] \in {call[d], [call[d] EXCEPT !.open = 0]} /\ call[d] \in Call
    BY DEF Stepped, TypeInv, TypeOK
  <1>2. QED BY <1>1 DEF Call

(* A step that has to do with neither the mark nor the IDs.                *)
Uncounted(c) ==
  LET r == call[c]
      s == call'[c]
  IN  /\ UNCHANGED <<mark, lives, deletes>> /\ files \subseteq files'
      /\ s.op # "delete"
      /\ \/ s.pc \notin ListPcs \cup {"createLock", "deleteUnlink"}
         \/ s.pc = "createLock" /\ s.highest = -1 /\ s.atMark = -1
         \/ s.pc = "createWrite" /\ r.pc = "createWrite"
         \/ s.pc = r.pc /\ s.highest = r.highest /\ s.atMark = r.atMark

LEMMA UncountedKeeps ==
  ASSUME TaskListConstants, TypeInv, LockInv, IdInv, NEW c \in Callers, Stepped(c),
         deletes' \/ Uncounted(c)
  PROVE  IdInv'
  <1>1. CASE deletes' BY <1>1 DEF IdInv
  <1>2. CASE ~deletes' /\ ~deletes
    <2>1. /\ UNCHANGED <<mark, lives, deletes>> /\ files \subseteq files'
          /\ Known' = Known
      BY <1>2 DEF Uncounted, Known
    <2>3. \A r : Counted(r, mark, files, Known) => Counted(r, mark', files', Known')
      BY <2>1 DEF Counted
    <2>4. ASSUME NEW d \in Callers, d # c
          PROVE  /\ call'[d].op # "delete" /\ call'[d].pc # "deleteUnlink"
                 /\ d \notin crashed => /\ call'[d].pc \in ResetPcs => listLock' = d
                                        /\ Counted(call'[d], mark', files', Known')
      <3>1. /\ call'[d].pc = call[d].pc /\ call'[d].op = call[d].op
            /\ call'[d].highest = call[d].highest /\ call'[d].atMark = call[d].atMark
        BY <2>4, OthersAlike
      <3>2. d \notin crashed => (listLock' = d <=> listLock = d)
        BY <2>4, ListLockOfOthers
      <3>3. d \notin crashed => Counted(call'[d], mark, files, Known)
        BY <1>2, <3>1, CountedAlike DEF IdInv
      <3>4. d \notin crashed => Counted(call'[d], mark', files', Known') BY <2>3, <3>3
      <3>5. QED BY <1>2, <3>1, <3>2, <3>4 DEF IdInv
    <2>5. /\ call'[c].op # "delete" /\ call'[c].pc # "deleteUnlink"
          /\ call'[c].pc \in ResetPcs => listLock' = c
          /\ Counted(call'[c], mark', files', Known')
      <3>1. c \notin crashed BY DEF Stepped
      <3>2. CASE call'[c].pc \notin ListPcs \cup {"createLock", "deleteUnlink"}
        BY <1>2, <3>2 DEF Uncounted, Counted, ListPcs, Creating, ResetPcs
      <3>3. CASE call'[c].pc = "createLock" /\ call'[c].highest = -1 /\ call'[c].atMark = -1
        BY <1>2, <3>3 DEF Uncounted, Counted, ResetPcs
      <3>4. CASE call'[c].pc = "createWrite"
        BY <1>2, <3>4 DEF Uncounted, Counted, ResetPcs
      <3>5. CASE /\ call'[c].pc = call[c].pc /\ call'[c].highest = call[c].highest
                 /\ call'[c].atMark = call[c].atMark
        <4>1. Counted(call[c], mark, files, Known) /\ (call[c].pc \in ResetPcs => listLock = c)
              /\ call[c].pc # "deleteUnlink"
          BY <1>2, <3>1 DEF IdInv
        <4>2. Counted(call'[c], mark', files', Known') BY <2>3, <3>5, <4>1, CountedAlike
        <4>3. call'[c].pc \in ResetPcs => listLock' = c
          BY <3>5, <4>1, ListLockKept DEF ListPcs
        <4>4. QED BY <1>2, <3>5, <4>1, <4>2, <4>3 DEF Uncounted
      <3>6. QED BY <1>2, <3>2, <3>3, <3>4, <3>5 DEF Uncounted
    <2>6. \A i \in Ids : lives'[i] <= 1 BY <1>2, <2>1 DEF IdInv
    <2>7. Covered(mark', files', Known')
      BY <1>2, <2>1 DEF IdInv, Covered
    <2>8. crashed' = crashed BY DEF Stepped
    <2>9. QED BY <2>4, <2>5, <2>6, <2>7, <2>8 DEF IdInv
  <1>3. QED BY <1>1, <1>2 DEF Uncounted

(* A step under the list's lock: nobody else is counted.                   *)
Alone(c) == \A d \in Callers \ crashed : d # c => call[d].pc \notin ListPcs

LEMMA HolderIsAlone ==
  ASSUME TaskListConstants, LockInv, IdInv, ~deletes, NEW c \in Callers, Free(listLock) \/ listLock = c
  PROVE  Alone(c)
  BY DEF Alone, LockInv, ListLockInv, IdInv, ListPcs, Free, TaskListConstants

LEMMA AloneKeeps ==
  ASSUME TaskListConstants, TypeInv, LockInv, IdInv, ~deletes,
         NEW c \in Callers, Stepped(c), Alone(c),
         \A i \in Ids : lives'[i] <= 1,
         Covered(mark', files', Known'),
         call'[c].op # "delete", call'[c].pc \in ListPcs, listLock' = c,
         Counted(call'[c], mark', files', Known')
  PROVE  IdInv'
  <1>1. ASSUME NEW d \in Callers, d # c
        PROVE  /\ call'[d].op # "delete" /\ call'[d].pc # "deleteUnlink"
               /\ d \notin crashed => /\ call'[d].pc \in ResetPcs => listLock' = d
                                      /\ Counted(call'[d], mark', files', Known')
    <2>1. /\ call'[d].pc = call[d].pc /\ call'[d].op = call[d].op
          /\ call'[d].highest = call[d].highest /\ call'[d].atMark = call[d].atMark
      BY <1>1, OthersAlike
    <2>2. d \notin crashed => call[d].pc \notin ListPcs BY <1>1 DEF Alone
    <2>3. d \notin crashed => Counted(call[d], mark, files, Known) BY DEF IdInv
    <2>4. d \notin crashed => Counted(call'[d], mark', files', Known')
      BY <2>1, <2>2, <2>3 DEF Counted, ListPcs, Creating, ResetPcs
    <2>5. QED BY <2>1, <2>2, <2>4 DEF IdInv, ListPcs
  <1>2. call'[c].pc # "deleteUnlink" BY DEF ListPcs, Creating, ResetPcs
  <1>3. crashed' = crashed BY DEF Stepped
  <1>4. QED BY <1>1, <1>2, <1>3 DEF IdInv

(* Beginning a call.                                                       *)
LEMMA BeginUncounted ==
  ASSUME TaskListConstants, TypeInv, NEW c \in Callers, BeginCall(c)
  PROVE  deletes' \/ Uncounted(c)
  <1>0. call \in [Callers -> Call]
    BY DEF TypeInv, TypeOK
  <1>1. ASSUME NEW op \in Ops, NEW pc \in Pcs, NEW r \in Call, Begin(c, op, pc, r),
               op = "delete" \/ pc \notin ListPcs \cup {"createLock", "deleteUnlink"}
                 \/ (pc = "createLock" /\ r = Idle)
        PROVE  deletes' \/ Uncounted(c)
    <2> DEFINE s == [r EXCEPT !.op = op, !.pc = pc]
    <2>1. /\ s.op = op /\ s.pc = pc /\ s.highest = r.highest /\ s.atMark = r.atMark
      BY <1>1 DEF Call
    <2>2. call'[c] = s
      BY <1>0, <1>1 DEF Begin
    <2>3. /\ UNCHANGED <<mark, lives, files>>
          /\ deletes' = (deletes \/ op = "delete")
      BY <1>1 DEF Begin, disk
    <2> HIDE DEF s
    <2>4. deletes' \/ deletes' = deletes
      BY <2>3 DEF TypeInv, TypeOK
    <2>5. Idle.highest = -1 /\ Idle.atMark = -1
      BY DEF Idle
    <2>6. QED BY <1>1, <2>1, <2>2, <2>3, <2>4, <2>5 DEF Uncounted
  <1>2. Idle \in Call /\ \A i \in Known : OnTask(i) \in Call
    BY BlankType, OnTaskType DEF Known
  <1>3. CASE BeginCreate(c)
    BY <1>1, <1>2, <1>3 DEF BeginCreate, Ops, Pcs, ListPcs, Creating, ResetPcs
  <1>4. CASE BeginUpdate(c)
    <2>1. PICK i \in Known, ch \in Changes :
            Begin(c, "update", "look",
                  [OnTask(i) EXCEPT !.todo =
                     <<[id |-> i, fields |-> ch.fields, new |-> ch.new]>>])
      BY <1>4 DEF BeginUpdate
    <2> DEFINE u == [id |-> i, fields |-> ch.fields, new |-> ch.new]
    <2>2. u \in Update
      BY DEF TaskListConstants, Known, Change, Update
    <2>3. <<u>> \in Seq(Update)
      BY <2>2
    <2> HIDE DEF u
    <2>4. [OnTask(i) EXCEPT !.todo = <<u>>] \in Call
      BY <1>2, <2>3 DEF Call
    <2>5. Begin(c, "update", "look", [OnTask(i) EXCEPT !.todo = <<u>>])
      BY <2>1 DEF u
    <2>6. QED BY <1>1, <2>4, <2>5 DEF Ops, Pcs, ListPcs, Creating, ResetPcs
  <1>5. ASSUME NEW i \in Known,
               \/ Begin(c, "claim", "claimLook", OnTask(i))
               \/ Begin(c, "claimIfIdle", "busyLook", OnTask(i))
        PROVE  deletes' \/ Uncounted(c)
    BY <1>1, <1>2, <1>5 DEF Ops, Pcs, ListPcs, Creating, ResetPcs
  <1>6. ASSUME NEW i \in Known,
               Begin(c, "delete", "mark", [Idle EXCEPT !.id = i, !.highest = i])
        PROVE  deletes' \/ Uncounted(c)
    BY <1>6 DEF Begin
  <1>7. ASSUME NEW i \in Known, NEW j \in Known,
               Begin(c, "block", "blockRead", [Idle EXCEPT !.id = i, !.ids = {i, j}])
        PROVE  deletes' \/ Uncounted(c)
    <2>1. [Idle EXCEPT !.id = i, !.ids = {i, j}] \in Call
      BY <1>2 DEF Call, Known
    <2>2. QED BY <1>1, <1>7, <2>1 DEF Ops, Pcs, ListPcs, Creating, ResetPcs
  <1>8. CASE Begin(c, "reset", "resetLock", Idle)
    BY <1>1, <1>2, <1>8 DEF Ops, Pcs, ListPcs, Creating, ResetPcs
  <1>9. ASSUME NEW who \in Callers,
               Begin(c, "unassign", "unassignList", [Idle EXCEPT !.who = who])
        PROVE  deletes' \/ Uncounted(c)
    <2>1. [Idle EXCEPT !.who = who] \in Call
      BY <1>2 DEF Call
    <2>2. QED BY <1>1, <1>9, <2>1 DEF Ops, Pcs, ListPcs, Creating, ResetPcs
  <1>10. ASSUME NEW i \in Known,
                \/ Begin(c, "claim", "claimLook", OnTask(i))
                \/ Begin(c, "claimIfIdle", "busyLook", OnTask(i))
                \/ Begin(c, "delete", "mark", [Idle EXCEPT !.id = i, !.highest = i])
                \/ \E j \in Known \ {i} :
                     Begin(c, "block", "blockRead", [Idle EXCEPT !.id = i, !.ids = {i, j}])
         PROVE  deletes' \/ Uncounted(c)
    BY <1>5, <1>6, <1>7, <1>10
  <1>11. QED BY <1>3, <1>4, <1>8, <1>9, <1>10 DEF BeginCall

(* The steps of the calls that neither give out IDs nor reset.             *)
OtherStep(c) ==
  \/ \E i \in call[c].ids : ReadTask(c, i)
  \/ CreateWrites(c) \/ UpdateStep(c) \/ ClaimStep(c)
  \/ DeleteFindsNone(c) \/ ListFiles(c, "deleteList", "deleteRead") \/ DeleteCascades(c)
  \/ BlockDecides(c) \/ ResetReturns(c)
  \/ ListFiles(c, "unassignList", "unassignRead") \/ UnassignDecides(c)
  \/ LockFails(c)

LEMMA OthersUncounted ==
  ASSUME TaskListConstants, TypeInv, IdInv, ~deletes, NEW c \in Callers, OtherStep(c)
  PROVE  Uncounted(c)
  <1>0. /\ call \in [Callers -> Call] /\ call[c] \in Call
        /\ call[c].op # "delete"
    BY DEF TypeInv, TypeOK, IdInv
  <1>1. call'[c].op # "delete"
    <2>1. Step(c) \/ LockFails(c)
      BY DEF OtherStep, Step, DeleteStep, ResetStep
    <2>2. QED BY <1>0, <2>1, OpKept
  <1>2. ASSUME UNCHANGED <<mark, lives, deletes>>, files \subseteq files',
               call'[c].pc \notin ListPcs \cup {"createLock", "deleteUnlink"}
        PROVE  Uncounted(c)
    BY <1>1, <1>2 DEF Uncounted
  <1>r. ASSUME Return(c) PROVE call'[c].pc = "idle"
    BY <1>0, <1>r DEF Return, Idle
  <1>g. ASSUME NEW pc, NEW ids, Goto(c, pc, ids) PROVE call'[c].pc = pc
    <2>1. call'[c] = [call[c] EXCEPT !.pc = pc, !.ids = ids]
      BY <1>0, <1>g DEF Goto
    <2>2. QED BY <1>0, <2>1 DEF Call
  <1>o. ASSUME NEW todo, GoOn(c, todo) PROVE call'[c].pc \in {"idle", "look"}
    <2>1. CASE todo = <<>>
      BY <1>r, <1>o, <2>1 DEF GoOn
    <2>2. CASE todo # <<>>
      <3>1. call'[c] = [call[c] EXCEPT !.pc = "look", !.ids = {Head(todo).id},
                                       !.seen = Blank, !.todo = todo, !.open = 0]
        BY <1>0, <1>o, <2>2 DEF GoOn
      <3>2. QED BY <1>0, <3>1 DEF Call
    <2>3. QED BY <2>1, <2>2
  <1>3. CASE LockFails(c) \/ ClaimRefused(c) \/ DeleteFindsNone(c) \/ ResetReturns(c)
             \/ CreateWrites(c)
    <2>1. UNCHANGED <<mark, lives, deletes, files>> /\ Return(c)
      BY <1>3 DEF LockFails, ClaimRefused, DeleteFindsNone, ResetReturns,
         CreateWrites, disk, history
    <2>2. QED BY <1>2, <1>r, <2>1 DEF ListPcs, Creating, ResetPcs
  <1>4. CASE \/ ListFiles(c, "unassignList", "unassignRead")
             \/ ListFiles(c, "deleteList", "deleteRead")
             \/ ListFiles(c, "busyList", "busyRead")
             \/ ClaimLocks(c) \/ ClaimLists(c) \/ UpdateLocks(c)
    <2>1. /\ UNCHANGED <<mark, lives, deletes, files>>
          /\ \E pc \in {"unassignRead", "deleteRead", "busyRead", "claimRead",
                        "claimList", "read"} : \E ids : Goto(c, pc, ids)
      BY <1>4 DEF ListFiles, ClaimLocks, ClaimLists, UpdateLocks, disk, history
    <2>2. QED BY <1>2, <1>g, <2>1 DEF ListPcs, Creating, ResetPcs
  <1>5. CASE BlockDecides(c) \/ UnassignDecides(c) \/ DeleteCascades(c) \/ BusyPasses(c)
             \/ UpdateSkips(c) \/ UpdateWrites(c)
    <2>1. \E todo : GoOn(c, todo)
      BY <1>5 DEF BlockDecides, UnassignDecides, DeleteCascades, BusyPasses,
         UpdateSkips, UpdateWrites, InAnyOrder, GoOn
    <2>2. UNCHANGED <<mark, lives, deletes, files>>
      <3>1. CASE BlockDecides(c) \/ BusyPasses(c)
        BY <3>1 DEF BlockDecides, BusyPasses, disk, history
      <3>2. CASE UnassignDecides(c) \/ DeleteCascades(c)
        BY <3>2 DEF UnassignDecides, DeleteCascades, disk, history
      <3>3. CASE UpdateSkips(c) \/ UpdateWrites(c)
        BY <3>3 DEF UpdateSkips, UpdateWrites, disk, history
      <3>4. QED BY <1>5, <3>1, <3>2, <3>3
    <2>3. QED BY <1>2, <1>o, <2>1, <2>2 DEF ListPcs, Creating, ResetPcs
  <1>6. CASE UpdateOpens(c)
    <2>1. call'[c] = [call[c] EXCEPT !.pc = "write", !.open = Target(c)]
      BY <1>0, <1>6 DEF UpdateOpens
    <2>2. call'[c].pc = "write" BY <1>0, <2>1 DEF Call
    <2>3. UNCHANGED <<mark, lives, deletes>> /\ files \subseteq files'
      BY <1>6 DEF UpdateOpens, history
    <2>4. QED BY <1>2, <2>2, <2>3 DEF ListPcs, Creating, ResetPcs
  <1>7. CASE ClaimPasses(c)
    <2>1. call'[c] = [call[c] EXCEPT !.pc = "read", !.ids = {call[c].id},
                                     !.todo = <<OwnedBy(c, call[c].id)>>]
      BY <1>0, <1>7 DEF ClaimPasses
    <2>2. call'[c].pc = "read" BY <1>0, <2>1 DEF Call
    <2>3. UNCHANGED <<mark, lives, deletes, files>>
      BY <1>7 DEF ClaimPasses, disk, history
    <2>4. QED BY <1>2, <2>2, <2>3 DEF ListPcs, Creating, ResetPcs
  <1>8. CASE BusyLocks(c)
    <2>1. call'[c] = [call[c] EXCEPT !.pc = "busyList", !.seen = Blank]
      BY <1>0, <1>8 DEF BusyLocks
    <2>2. call'[c].pc = "busyList" BY <1>0, <2>1 DEF Call
    <2>3. UNCHANGED <<mark, lives, deletes, files>>
      BY <1>8 DEF BusyLocks, disk, history
    <2>4. QED BY <1>2, <2>2, <2>3 DEF ListPcs, Creating, ResetPcs
  <1>9. ASSUME NEW i \in call[c].ids, ReadTask(c, i)
        PROVE  Uncounted(c)
    <2> DEFINE s == [call[c] EXCEPT !.ids = @ \ {i}, !.seen = [@ EXCEPT ![i] = task[i]]]
    <2>1. /\ s.pc = call[c].pc /\ s.highest = call[c].highest
          /\ s.atMark = call[c].atMark
      BY <1>0 DEF Call
    <2>2. call'[c] = s
      BY <1>0, <1>9 DEF ReadTask
    <2>3. UNCHANGED <<mark, lives, deletes, files>>
      BY <1>9 DEF ReadTask, disk, history
    <2> HIDE DEF s
    <2>4. QED BY <1>1, <2>1, <2>2, <2>3 DEF Uncounted
  <1>10. CASE UpdateStep(c) \/ ClaimStep(c)
    BY <1>3, <1>4, <1>5, <1>6, <1>7, <1>8, <1>10 DEF UpdateStep, ClaimStep
  <1>11. QED BY <1>3, <1>4, <1>5, <1>9, <1>10 DEF OtherStep

(* What a step leaves of the fields that are counted.                      *)
LEMMA MovedTo ==
  ASSUME TypeInv, NEW c \in Callers, NEW pc, NEW ids, Goto(c, pc, ids)
  PROVE  /\ call'[c].pc = pc
         /\ call'[c].highest = call[c].highest /\ call'[c].atMark = call[c].atMark
  <1>0. call \in [Callers -> Call] /\ call[c] \in Call
    BY DEF TypeInv, TypeOK
  <1>1. call'[c] = [call[c] EXCEPT !.pc = pc, !.ids = ids]
    BY <1>0 DEF Goto
  <1>2. QED BY <1>0, <1>1 DEF Call

LEMMA KnownTyped ==
  ASSUME TaskListConstants, TypeInv
  PROVE  /\ Ids \subseteq Nat \ {0} /\ Known \subseteq Ids /\ files \subseteq Ids
         /\ mark \in Nat /\ \A i \in Ids \ Known : lives[i] = 0
  BY DEF TypeInv, TypeOK, Known, Ids, TaskListConstants

LEMMA HigherOfTwo ==
  ASSUME NEW a \in Int, NEW b \in Int
  PROVE  Max({a, b}) \in Int /\ Max({a, b}) >= a /\ Max({a, b}) >= b
  <1> DEFINE S == {a, b}
  <1>1. \E x \in S : \A y \in S : x >= y
    <2>1. CASE a >= b BY <2>1
    <2>2. CASE b >= a BY <2>2
    <2>3. QED BY <2>1, <2>2
  <1> HIDE DEF S
  <1>2. Max(S) \in S /\ \A y \in S : Max(S) >= y
    BY <1>1 DEF Max
  <1>3. QED BY <1>2 DEF S

(* Whoever scans the directory finds what the mark does not say.           *)
LEMMA ScanCovers ==
  ASSUME TaskListConstants, TypeInv, Covered(mark, files, Known)
  PROVE  \A i \in Known : i <= Max(files \cup {0}) \/ i <= mark
  <1>1. /\ Max(files \cup {0}) \in Nat
        /\ \A i \in files : Max(files \cup {0}) >= i
    BY KnownTyped, HighestType
  <1>2. SUFFICES ASSUME NEW i \in Known, ~(i <= mark)
                 PROVE  i <= Max(files \cup {0})
    OBVIOUS
  <1>3. PICK h \in files : i <= h
    BY <1>2 DEF Covered, UpTo
  <1>4. i \in Nat /\ h \in Nat
    BY KnownTyped
  <1>5. QED BY <1>1, <1>3, <1>4

(* A step of the only counted call that gives out no ID: what it has read  *)
(* or secured is all that is left to show.                                 *)
LEMMA CountingKeeps ==
  ASSUME TaskListConstants, TypeInv, LockInv, IdInv, ~deletes, NEW c \in Callers,
         Step(c), lives' = lives, listLock' = c, Free(listLock) \/ listLock = c,
         Covered(mark', files', Known), call'[c].pc \in ListPcs,
         Counted(call'[c], mark', files', Known)
  PROVE  IdInv'
  <1>1. Stepped(c) BY StepSteps
  <1>2. Alone(c) BY HolderIsAlone
  <1>3. Known' = Known BY DEF Known
  <1>4. \A i \in Ids : lives'[i] <= 1 BY DEF IdInv
  <1>5. call'[c].op # "delete" BY OpKept DEF IdInv
  <1>6. QED BY <1>1, <1>2, <1>3, <1>4, <1>5, AloneKeeps

LEMMA CreateCounts ==
  ASSUME TaskListConstants, TypeInv, LockInv, IdInv, ~deletes, NEW c \in Callers,
         CreateLocks(c) \/ ScanFiles(c) \/ ScanMark(c)
  PROVE  IdInv'
  <1>0. /\ call \in [Callers -> Call] /\ call[c] \in Call
        /\ Covered(mark, files, Known) /\ Step(c) /\ c \notin crashed
        /\ UNCHANGED <<mark, files, lives>>
        /\ Counted(call[c], mark, files, Known)
    BY DEF TypeInv, TypeOK, IdInv, Step, CreateLocks, ScanFiles, ScanMark, At, disk,
       history
  <1>1. CASE CreateLocks(c)
    <2>1. /\ call'[c].pc = "createScan" /\ call'[c].highest = call[c].highest
          /\ call'[c].atMark = call[c].atMark /\ call[c].pc = "createLock"
          /\ listLock' = c /\ Free(listLock)
      BY <1>1, MovedTo DEF CreateLocks, TakeListLock, At
    <2>2. Counted(call'[c], mark', files', Known)
      BY <1>0, <2>1 DEF Counted
    <2>3. QED BY <1>0, <2>1, <2>2, CountingKeeps DEF ListPcs, Creating
  <1>2. CASE ScanFiles(c) \/ ScanMark(c)
    <2>1. /\ call[c].pc = "createScan" /\ UNCHANGED listLock
          /\ call'[c] \in {[call[c] EXCEPT !.highest = Max(files \cup {0})],
                           [call[c] EXCEPT !.atMark = mark]}
      BY <1>0, <1>2 DEF ScanFiles, ScanMark, At, locks
    <2>2. listLock = c
      BY <1>0, <2>1 DEF LockInv, ListLockInv, Creating
    <2>3. /\ call'[c].pc = "createScan"
          /\ \/ /\ call'[c].highest = Max(files \cup {0})
                /\ call'[c].atMark = call[c].atMark
             \/ /\ call'[c].highest = call[c].highest
                /\ call'[c].atMark = mark
      BY <1>0, <2>1 DEF Call
    <2>4. Counted(call'[c], mark', files', Known)
      BY <1>0, <2>1, <2>3, ScanCovers DEF Counted
    <2>5. QED BY <1>0, <2>1, <2>2, <2>3, <2>4, CountingKeeps DEF ListPcs, Creating
  <1>3. QED BY <1>1, <1>2

(* The next ID is higher than any that was given out.                      *)
LEMMA CreateGivesOutOnce ==
  ASSUME TaskListConstants, TypeInv, LockInv, IdInv, ~deletes, NEW c \in Callers,
         CreateOpens(c)
  PROVE  IdInv'
  <1> DEFINE n == NextId(call[c])
  <1>0. /\ call \in [Callers -> Call] /\ call[c] \in Call /\ lives \in [Ids -> Nat]
        /\ c \notin crashed /\ call[c].pc = "createScan"
        /\ call[c].highest # -1 /\ call[c].atMark # -1 /\ n \in Ids
        /\ files' = files \cup {n} /\ lives' = [lives EXCEPT ![n] = @ + 1]
        /\ call'[c] = [call[c] EXCEPT !.pc = "createWrite", !.id = n, !.open = n]
        /\ UNCHANGED listLock /\ mark' = mark
    BY DEF TypeInv, TypeOK, CreateOpens, At, locks
  <1> HIDE DEF n
  <1>1. listLock = c /\ Counted(call[c], mark, files, Known)
    BY <1>0 DEF LockInv, ListLockInv, Creating, IdInv
  <1>2. /\ call[c].atMark = mark
        /\ \A i \in Known : i <= call[c].highest \/ i <= mark
    BY <1>0, <1>1 DEF Counted
  <1>3. \A i \in Known : i < n
    <2>1. call[c].highest \in Int /\ call[c].atMark \in Int
      BY <1>0 DEF Call
    <2>2. n = Max({call[c].highest, call[c].atMark}) + 1
      BY DEF n, NextId
    <2>3. \A i \in Known : i \in Int
      BY KnownTyped
    <2> DEFINE h == Max({call[c].highest, call[c].atMark})
    <2>4. h \in Int /\ h >= call[c].highest /\ h >= call[c].atMark
      BY <2>1, HigherOfTwo
    <2>5. n = h + 1
      BY <2>2
    <2> HIDE DEF h
    <2>6. QED BY <1>2, <2>1, <2>3, <2>4, <2>5
  <1>4. n \in Int /\ n \notin Known /\ lives[n] = 0
    BY <1>0, <1>3, KnownTyped
  <1>5. \A i \in Ids : lives'[i] <= 1
    BY <1>0, <1>4 DEF IdInv
  <1>6. Known' \subseteq Known \cup {n}
    BY <1>0 DEF Known
  <1>7. Covered(mark', files', Known')
    BY <1>0, <1>3, <1>4, <1>6, KnownTyped DEF Covered, UpTo
  <1>8. call'[c].pc = "createWrite"
    BY <1>0 DEF Call
  <1>9. Counted(call'[c], mark', files', Known')
    BY <1>8 DEF Counted
  <1>10. Step(c) BY DEF Step
  <1>11. call'[c].op # "delete" BY <1>10, OpKept DEF IdInv
  <1>12. Stepped(c) BY <1>10, StepSteps
  <1>13. Alone(c) BY <1>1, HolderIsAlone
  <1>14. QED
    BY <1>0, <1>1, <1>5, <1>7, <1>8, <1>9, <1>11, <1>12, <1>13, AloneKeeps
       DEF ListPcs, Creating

(* A reset raises the mark to the highest file before it unlinks any.      *)
LEMMA ResetCounts ==
  ASSUME TaskListConstants, TypeInv, LockInv, IdInv, ~deletes, NEW c \in Callers,
         \/ ResetLocks(c) \/ ResetScans(c) \/ MarkStep(c)
         \/ ListFiles(c, "resetList", "resetUnlink")
         \/ \E i \in call[c].ids : ResetUnlinks(c, i)
  PROVE  IdInv'
  <1>0. /\ call \in [Callers -> Call] /\ call[c] \in Call
        /\ Covered(mark, files, Known) /\ call[c].op # "delete"
        /\ Counted(call[c], mark, files, Known)
        /\ Step(c) /\ c \notin crashed /\ lives' = lives
    BY DEF TypeInv, TypeOK, IdInv, Step, ResetStep, ResetLocks, ResetScans, MarkStep,
       ReadMark, OpenMark, WriteMark, ListFiles, ResetUnlinks, At, history
  <1>1. ASSUME call[c].pc \in ResetPcs, UNCHANGED locks
        PROVE  listLock = c /\ listLock' = c
    BY <1>0, <1>1 DEF IdInv, locks
  <1>2. CASE ResetLocks(c)
    <2>1. /\ call'[c].pc = "resetScan" /\ listLock' = c /\ Free(listLock)
          /\ UNCHANGED <<mark, files>>
      BY <1>2, MovedTo DEF ResetLocks, TakeListLock, disk
    <2>2. Counted(call'[c], mark', files', Known)
      BY <2>1 DEF Counted
    <2>3. QED BY <1>0, <2>1, <2>2, CountingKeeps DEF ListPcs, ResetPcs
  <1>3. CASE ResetScans(c)
    <2> DEFINE h == Max(files \cup {0})
    <2>1. /\ call[c].pc = "resetScan" /\ UNCHANGED locks /\ UNCHANGED <<mark, files>>
          /\ call'[c] = [call[c] EXCEPT !.highest = h,
                           !.pc = IF h > 0 THEN "mark" ELSE "resetList"]
      BY <1>0, <1>3 DEF ResetScans, At, disk
    <2>2. h \in Nat /\ h \in files \cup {0} /\ \A i \in files : h >= i
      BY KnownTyped, HighestType
    <2>3. \A i \in Known : i <= h \/ i <= mark
      BY <1>0, ScanCovers
    <2> HIDE DEF h
    <2>4. /\ call'[c].highest = h
          /\ call'[c].pc = IF h > 0 THEN "mark" ELSE "resetList"
      BY <1>0, <2>1 DEF Call
    <2>5. Counted(call'[c], mark', files', Known)
      <3>1. CASE h > 0
        BY <2>1, <2>2, <2>3, <2>4, <3>1 DEF Counted
      <3>2. CASE ~(h > 0)
        <4>1. \A i \in Known : ~(i <= h) BY <2>2, <3>2, KnownTyped
        <4>2. QED BY <2>1, <2>3, <2>4, <3>2, <4>1 DEF Counted, UpTo
      <3>3. QED BY <3>1, <3>2
    <2>6. listLock = c /\ listLock' = c BY <1>1, <2>1 DEF ResetPcs
    <2>7. call'[c].pc \in ListPcs BY <2>4 DEF ListPcs, ResetPcs
    <2>8. QED BY <1>0, <2>1, <2>5, <2>6, <2>7, CountingKeeps
  <1>4. CASE MarkStep(c)
    <2>1. call[c].pc \in {"mark", "markOpen", "markWrite"} /\ UNCHANGED locks
      BY <1>4 DEF MarkStep, ReadMark, OpenMark, WriteMark, At
    <2>2. listLock = c /\ listLock' = c BY <1>1, <2>1 DEF ResetPcs
    <2>3. AfterMark(c) = "resetList" BY <1>0 DEF AfterMark
    <2>4. CASE ReadMark(c)
      <3>1. /\ call'[c].highest = call[c].highest /\ call[c].pc = "mark"
            /\ call'[c].pc = IF call[c].highest > mark THEN "markOpen" ELSE "resetList"
            /\ UNCHANGED <<mark, files>>
        BY <2>3, <2>4, MovedTo DEF ReadMark, At, disk
      <3>2. /\ call[c].highest \in files
            /\ \A i \in Known : i <= call[c].highest \/ i <= mark
        BY <1>0, <3>1 DEF Counted
      <3>3. /\ call[c].highest > mark => UpTo(call[c].highest, Known)
            /\ ~(call[c].highest > mark) => UpTo(mark, Known)
        BY <3>2, KnownTyped DEF UpTo
      <3>4. Counted(call'[c], mark', files', Known)
        BY <3>1, <3>2, <3>3 DEF Counted
      <3>5. call'[c].pc \in ListPcs BY <3>1 DEF ListPcs, ResetPcs
      <3>6. QED BY <1>0, <2>2, <3>1, <3>4, <3>5, CountingKeeps
    <2>5. CASE OpenMark(c)
      <3>1. /\ call'[c].highest = call[c].highest /\ call[c].pc = "markOpen"
            /\ call'[c].pc = "markWrite" /\ UNCHANGED files
        BY <2>5, MovedTo DEF OpenMark, At
      <3>2. call[c].highest \in files /\ UpTo(call[c].highest, Known)
        BY <1>0, <3>1 DEF Counted
      <3>3. Counted(call'[c], mark', files', Known) /\ Covered(mark', files', Known)
        BY <3>1, <3>2 DEF Counted, Covered
      <3>4. QED BY <1>0, <2>2, <3>1, <3>3, CountingKeeps DEF ListPcs, ResetPcs
    <2>6. CASE WriteMark(c)
      <3>1. /\ call[c].pc = "markWrite" /\ mark' = call[c].highest
            /\ call'[c].pc = "resetList" /\ UNCHANGED files
        BY <2>3, <2>6, MovedTo DEF WriteMark, At
      <3>2. UpTo(mark', Known)
        BY <1>0, <3>1 DEF Counted
      <3>3. Counted(call'[c], mark', files', Known) /\ Covered(mark', files', Known)
        BY <3>1, <3>2 DEF Counted, Covered
      <3>4. QED BY <1>0, <2>2, <3>1, <3>3, CountingKeeps DEF ListPcs, ResetPcs
    <2>7. QED BY <1>4, <2>4, <2>5, <2>6 DEF MarkStep
  <1>5. ASSUME call[c].pc \in {"resetList", "resetUnlink"}, UNCHANGED locks,
               call'[c].pc = "resetUnlink", mark' = mark
        PROVE  IdInv'
    <2>1. UpTo(mark', Known) BY <1>0, <1>5 DEF Counted
    <2>2. Counted(call'[c], mark', files', Known) /\ Covered(mark', files', Known)
      BY <1>5, <2>1 DEF Counted, Covered
    <2>3. listLock = c /\ listLock' = c BY <1>1, <1>5 DEF ResetPcs
    <2>4. QED BY <1>0, <1>5, <2>2, <2>3, CountingKeeps DEF ListPcs, ResetPcs
  <1>6. CASE ListFiles(c, "resetList", "resetUnlink")
    BY <1>5, <1>6, MovedTo DEF ListFiles, At, disk
  <1>7. ASSUME NEW i \in call[c].ids, ResetUnlinks(c, i)
        PROVE  IdInv'
    <2> DEFINE s == [call[c] EXCEPT !.ids = @ \ {i}]
    <2>1. s \in Call /\ s.pc = call[c].pc /\ call[c].pc = "resetUnlink"
      BY <1>0, <1>7 DEF Call, ResetUnlinks, At
    <2>2. call' = Orphaned(i, [call EXCEPT ![c] = s])
      BY <1>0, <1>7 DEF ResetUnlinks
    <2> HIDE DEF s
    <2>3. call'[c] \in {s, [s EXCEPT !.open = 0]}
      BY <1>0, <2>2 DEF Orphaned
    <2>4. call'[c].pc = "resetUnlink" BY <2>1, <2>3 DEF Call
    <2>5. UNCHANGED locks /\ mark' = mark BY <1>7 DEF ResetUnlinks
    <2>6. QED BY <1>5, <2>1, <2>4, <2>5
  <1>8. QED BY <1>2, <1>3, <1>4, <1>6, <1>7

LEMMA InitIds == ASSUME TaskListConstants, Init PROVE IdInv
  <1>1. /\ ~deletes /\ crashed = {} /\ mark = 0 /\ files = 1..Initially
        /\ \A i \in Ids : lives[i] = IF i <= Initially THEN 1 ELSE 0
        /\ \A c \in Callers : call[c] = Idle
    BY DEF Init
  <1>2. Known = 1..Initially
    BY <1>1 DEF Known, Ids, TaskListConstants
  <1>3. Covered(mark, files, Known)
    <2>1. CASE Initially = 0
      BY <1>1, <1>2, <2>1 DEF Covered, UpTo
    <2>2. CASE Initially # 0
      <3>1. Initially \in 1..Initially
        BY <2>2 DEF TaskListConstants
      <3>2. \A i \in 1..Initially : i <= Initially
        BY <2>2 DEF TaskListConstants
      <3>3. QED BY <1>1, <1>2, <3>1, <3>2 DEF Covered, UpTo
    <2>3. QED BY <2>1, <2>2
  <1>4. \A c \in Callers : call[c].op = "none" /\ call[c].pc = "idle"
    BY <1>1 DEF Idle
  <1>5. \A c \in Callers : Counted(call[c], mark, files, Known)
    BY <1>4 DEF Counted
  <1>6. QED BY <1>1, <1>3, <1>4, <1>5 DEF IdInv, ResetPcs

LEMMA NextIds ==
  ASSUME TaskListConstants, TypeInv, LockInv, IdInv, [Next]_vars PROVE IdInv'
  <1>1. ASSUME NEW c \in Callers, Step(c) \/ LockFails(c) PROVE IdInv'
    <2>1. CASE deletes
      <3>1. deletes' = deletes
        BY <1>1 DEF Step, LockFails, ReadTask, CreateLocks, ScanFiles, ScanMark,
           CreateOpens, CreateWrites, UpdateStep, UpdateLocks, UpdateSkips,
           UpdateOpens, UpdateWrites, ClaimStep, ClaimLocks, ClaimLists, ClaimPasses,
           ClaimRefused, BusyLocks, BusyPasses, ListFiles, MarkStep, ReadMark,
           OpenMark, WriteMark, DeleteStep, DeleteUnlinks, DeleteFindsNone,
           DeleteCascades, BlockDecides, ResetStep, ResetLocks, ResetScans,
           ResetUnlinks, ResetReturns, UnassignDecides, history
      <3>2. QED BY <2>1, <3>1 DEF IdInv
    <2>2. CASE ~deletes /\ OtherStep(c)
      <3>1. Stepped(c) BY <1>1, StepSteps
      <3>2. QED BY <2>2, <3>1, OthersUncounted, UncountedKeeps
    <2>3. ASSUME DeleteUnlinks(c), ~deletes PROVE FALSE
      BY <2>3 DEF DeleteUnlinks, At, IdInv
    <2>4. CASE ~deletes /\ ~OtherStep(c)
      <3>1. \/ CreateLocks(c) \/ ScanFiles(c) \/ ScanMark(c) \/ CreateOpens(c)
            \/ ResetLocks(c) \/ ResetScans(c) \/ MarkStep(c)
            \/ ListFiles(c, "resetList", "resetUnlink")
            \/ \E i \in call[c].ids : ResetUnlinks(c, i)
        BY <1>1, <2>3, <2>4 DEF Step, OtherStep, DeleteStep, ResetStep
      <3>2. QED BY <2>4, <3>1, CreateCounts, CreateGivesOutOnce, ResetCounts
    <2>5. QED BY <2>1, <2>2, <2>4
  <1>2. ASSUME NEW c \in Callers, BeginCall(c) PROVE IdInv'
    <2>1. Stepped(c) BY <1>2, StepSteps
    <2>2. QED BY <1>2, <2>1, BeginUncounted, UncountedKeeps
  <1>3. ASSUME UNCHANGED <<mark, files, lives, deletes, call, listLock>>,
               crashed \subseteq crashed'
        PROVE  IdInv'
    <2>1. Known' = Known BY <1>3 DEF Known
    <2>2. QED BY <1>3, <2>1 DEF IdInv
  <1>4. ASSUME NEW c \in Callers, Crash(c) PROVE IdInv'
    BY <1>3, <1>4 DEF Crash, disk, locks, history
  <1>5. CASE UNCHANGED vars
    BY <1>3, <1>5 DEF vars, disk, locks, history
  <1>6. QED BY <1>1, <1>2, <1>4, <1>5 DEF Next

(* Without deleteTask no ID is given out twice, whatever creates, resets   *)
(* and crashes there are: the mark is raised before the files go.          *)
THEOREM ResetReusesNoId == Spec => []NoIdReusedByReset
  <1>1. Init => IdInv
    BY TaskListConstants, InitIds
  <1>2. TypeInv /\ LockInv /\ IdInv /\ [Next]_vars => IdInv'
    BY TaskListConstants, NextIds
  <1>3. IdInv => NoIdReusedByReset
    BY DEF IdInv, NoIdReusedByReset
  <1>4. QED BY <1>1, <1>2, <1>3, LocksInvariant, PTL DEF Spec
=============================================================================
