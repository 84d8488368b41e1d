----------------------------- MODULE SchedulerLock -----------------------------
(***************************************************************************)
(* The lock file by which the sessions of a project agree on who runs the   *)
(* scheduled tasks (utils/cronTasksLock.ts), with the part of               *)
(* utils/cronScheduler.ts that takes it, probes it and gives it back.       *)
(*                                                                         *)
(* Creating the file and writing its body are two steps, and so are         *)
(* reading it and unlinking it.  contested is not in the code: whether a    *)
(* session has destroyed the file of another live one.                     *)
(***************************************************************************)
EXTENDS Integers, FiniteSets

CONSTANTS
  Sessions,      \* the terminals that work on the project
  SessionId,     \* a session resumed in another terminal has the same id there
  Budgets        \* how many starts (of each), stops and crashes may happen

ASSUME LockAssumption ==
  /\ DOMAIN SessionId = Sessions
  /\ Budgets \subseteq [starts : [Sessions -> Nat], stops : Nat, crashes : Nat]

VARIABLES
  lockFile,     \* the file of the lock: which inode, and its body
  phase,        \* of a session: "down", "starting", "up", "stopped", or
                \* "closing" while the process shuts down as the owner
  pid,          \* the number of the session's process
  isOwner,
  step,         \* where tryAcquireSchedulerLock or releaseSchedulerLock is
  fd,           \* the inode a session is writing its body to
  existing,     \* the stale body a session has read, and acts on
  left,         \* what is left of the budget
  contested

lockVars ==
  <<lockFile, phase, pid, isOwner, step, fd, existing, left, contested>>

None == <<>>
Processes == Sessions \X (Nat \ {0})
Maybe == Processes \cup {None}

\* An inode is named after the process that created it: it creates only one.
LockFiles == [inode : Maybe, body : Maybe]
Absent == [inode |-> None, body |-> None]

Steps == {"idle", "create", "body", "read", "unlink", "recreate", "rewrite",
          "release", "unlinkOwn"}

LockTypeOK ==
  /\ lockFile \in LockFiles
  /\ phase \in [Sessions -> {"down", "starting", "up", "stopped", "closing"}]
  /\ pid \in [Sessions -> Nat]
  /\ isOwner \in [Sessions -> BOOLEAN]
  /\ step \in [Sessions -> Steps]
  /\ fd \in [Sessions -> Maybe]
  /\ existing \in [Sessions -> Maybe]
  /\ left \in [starts : [Sessions -> Nat], stops : Nat, crashes : Nat]
  /\ contested \in BOOLEAN

LockInit ==
  /\ lockFile = Absent
  /\ phase = [s \in Sessions |-> "down"]
  /\ pid = [s \in Sessions |-> 0]
  /\ isOwner = [s \in Sessions |-> FALSE]
  /\ step = [s \in Sessions |-> "idle"]
  /\ fd = [s \in Sessions |-> None]
  /\ existing = [s \in Sessions |-> None]
  /\ left \in Budgets
  /\ contested = FALSE

-------------------------------------------------------------------------------
Me(s) == <<s, pid[s]>>

\* isProcessRunning(): no process gets the pid of an earlier one.
IsRunning(p) == p # None /\ phase[p[1]] # "down" /\ p[2] = pid[p[1]]

\* The file on disk is, or is about to be, the lock of another live session.
OthersLock(s) ==
  /\ lockFile # Absent
  /\ \E r \in Sessions \ {s} :
       /\ phase[r] # "down"
       /\ \/ lockFile.body = Me(r)
          \/ lockFile.body = None /\ step[r] = "body" /\ fd[r] = lockFile.inode

Spends(what) == left[what] > 0 /\ left' = [left EXCEPT ![what] = @ - 1]

Goto(s, point) == step' = [step EXCEPT ![s] = point]

\* A process that is shutting down has given its lock back, and ticks on.
Released(s) == phase[s] = "closing" /\ step[s] = "idle"

\* The session takes itself for the owner, and has the lock.
Holds(s) == isOwner[s] /\ ~Released(s)

\* What enable() and the probe do with the answer TRUE.
Acquired(s) ==
  IF phase[s] = "stopped"
  THEN Goto(s, "release") /\ UNCHANGED <<phase, isOwner>>
  ELSE /\ Goto(s, "idle")
       /\ phase' = [phase EXCEPT ![s] = "up"]
       /\ isOwner' = [isOwner EXCEPT ![s] = TRUE]

\* ... and with the answer FALSE: the session polls the lock.
Blocked(s) ==
  /\ Goto(s, "idle")
  /\ phase' = [phase EXCEPT ![s] = IF @ = "stopped" THEN @ ELSE "up"]
  /\ UNCHANGED isOwner

(* tryAcquireSchedulerLock *)

Start(s) ==
  /\ phase[s] = "down" /\ left.starts[s] > 0
  /\ left' = [left EXCEPT !.starts[s] = @ - 1]
  /\ pid' = [pid EXCEPT ![s] = @ + 1]
  /\ phase' = [phase EXCEPT ![s] = "starting"]
  /\ Goto(s, "create")
  /\ UNCHANGED <<lockFile, isOwner, fd, existing, contested>>

\* The timer of lockProbeTimer.
Probe(s) ==
  /\ phase[s] = "up" /\ ~isOwner[s] /\ step[s] = "idle"
  /\ Goto(s, "create")
  /\ UNCHANGED <<lockFile, phase, pid, isOwner, fd, existing, left, contested>>

\* writeFile(..., {flag: 'wx'}) opens the file ...
TryCreateExclusive(s) ==
  /\ step[s] \in {"create", "recreate"}
  /\ IF lockFile = Absent
     THEN /\ lockFile' = [inode |-> Me(s), body |-> None]
          /\ fd' = [fd EXCEPT ![s] = Me(s)]
          /\ Goto(s, "body")
          /\ UNCHANGED <<phase, isOwner>>
     ELSE /\ UNCHANGED <<lockFile, fd>>
          /\ IF step[s] = "create"
             THEN Goto(s, "read") /\ UNCHANGED <<phase, isOwner>>
             ELSE Blocked(s)
  /\ UNCHANGED <<pid, existing, left, contested>>

\* ... and then writes the body, to a file that may be unlinked by now.
BodyLands(s) ==
  /\ step[s] = "body"
  /\ lockFile' = IF lockFile.inode = fd[s]
                 THEN [lockFile EXCEPT !.body = Me(s)] ELSE lockFile
  /\ fd' = [fd EXCEPT ![s] = None]
  /\ Acquired(s)
  /\ UNCHANGED <<pid, existing, left, contested>>

\* A mutant of Stale: a body that does not parse is taken for a live owner's.
StaleUnlessCorrupt(body) == body # None /\ ~IsRunning(body)

\* A mutant of Stale: whoever is named in the body, it is not asked for.
StaleUnasked(body) == TRUE

\* No body, one that does not parse, or one whose process is dead.
Stale(body) == ~IsRunning(body)

ReadLock(s) ==
  /\ step[s] = "read"
  /\ LET body == lockFile.body IN
     \/ /\ body = Me(s)
        /\ Acquired(s) /\ UNCHANGED existing
     \/ /\ body # None /\ body # Me(s) /\ SessionId[body[1]] = SessionId[s]
        /\ Goto(s, "rewrite") /\ UNCHANGED <<phase, isOwner, existing>>
     \/ /\ body # None => SessionId[body[1]] # SessionId[s]
        /\ IF Stale(body)
           THEN /\ Goto(s, "unlink") /\ UNCHANGED <<phase, isOwner>>
                /\ existing' = [existing EXCEPT ![s] = body]
           ELSE Blocked(s) /\ UNCHANGED existing
  /\ UNCHANGED <<lockFile, pid, fd, left, contested>>

\* A session that was resumed writes its pid into the lock of its id, and does
\* not ask whether the process that is named there is alive.
Rewrite(s) ==
  /\ step[s] = "rewrite"
  /\ lockFile' = IF lockFile = Absent
                 THEN [inode |-> Me(s), body |-> None]
                 ELSE [lockFile EXCEPT !.body = None]
  /\ fd' = [fd EXCEPT ![s] = lockFile'.inode]
  /\ contested' = (contested \/ OthersLock(s))
  /\ Goto(s, "body")
  /\ UNCHANGED <<phase, pid, isOwner, existing, left>>

\* The file is unlinked whatever has become of it since it was read.
UnlinkStale(s) ==
  /\ step[s] = "unlink"
  /\ lockFile' = Absent
  /\ contested' =
       (contested \/ (OthersLock(s)
                        /\ (lockFile.body = None \/ lockFile.body # existing[s])))
  /\ existing' = [existing EXCEPT ![s] = None]
  /\ Goto(s, "recreate")
  /\ UNCHANGED <<phase, pid, isOwner, fd, left>>

(* stop(), releaseSchedulerLock and the end of the process *)

\* An acquisition under way goes on, and gives back what it gets.
Stop(s) ==
  /\ phase[s] \in {"starting", "up"} /\ Spends("stops")
  /\ phase' = [phase EXCEPT ![s] = "stopped"]
  /\ isOwner' = [isOwner EXCEPT ![s] = FALSE]
  /\ step' = [step EXCEPT ![s] = IF isOwner[s] THEN "release" ELSE @]
  /\ UNCHANGED <<lockFile, pid, fd, existing, contested>>

\* gracefulShutdown() runs the cleanup that was registered with the lock.  It
\* does not stop the scheduler.
Shutdown(s) ==
  /\ phase[s] = "up" /\ isOwner[s] /\ Spends("stops")
  /\ phase' = [phase EXCEPT ![s] = "closing"]
  /\ Goto(s, "release")
  /\ UNCHANGED <<lockFile, pid, isOwner, fd, existing, contested>>

ReadOwnLock(s) ==
  /\ step[s] = "release"
  /\ Goto(s, IF /\ lockFile.body # None
                /\ SessionId[lockFile.body[1]] = SessionId[s]
             THEN "unlinkOwn" ELSE "idle")
  /\ UNCHANGED <<lockFile, phase, pid, isOwner, fd, existing, left, contested>>

UnlinkOwn(s) ==
  /\ step[s] = "unlinkOwn"
  /\ lockFile' = Absent
  /\ Goto(s, "idle")
  /\ UNCHANGED <<phase, pid, isOwner, fd, existing, left, contested>>

Dies(s) ==
  /\ phase' = [phase EXCEPT ![s] = "down"]
  /\ isOwner' = [isOwner EXCEPT ![s] = FALSE]
  /\ Goto(s, "idle")
  /\ fd' = [fd EXCEPT ![s] = None]
  /\ existing' = [existing EXCEPT ![s] = None]
  /\ UNCHANGED <<lockFile, pid, contested>>

\* forceExit(): the cleanup is over, or its two seconds are.
Exit(s) ==
  /\ \/ phase[s] = "stopped" /\ step[s] = "idle"
     \/ phase[s] = "closing"
  /\ Dies(s)
  /\ UNCHANGED left

Crash(s) ==
  /\ phase[s] # "down" /\ Spends("crashes")
  /\ Dies(s)

-------------------------------------------------------------------------------
\* The steps that the code takes by itself once it has begun.
LockSteps(s) ==
  \/ TryCreateExclusive(s) \/ BodyLands(s) \/ ReadLock(s) \/ Rewrite(s)
  \/ UnlinkStale(s) \/ ReadOwnLock(s) \/ UnlinkOwn(s)

\* A shutdown has a failsafe timer, so it ends.
LockFairness ==
  \A s \in Sessions :
    /\ WF_lockVars(LockSteps(s)) /\ WF_lockVars(Probe(s))
    /\ WF_lockVars(phase[s] = "closing" /\ Exit(s))

-------------------------------------------------------------------------------
(* Only one session is the owner and has the lock, unless a session has      *)
(* removed or overwritten the file of another live one, which it can do      *)
(* between the other's open and its write, after reading a file that         *)
(* somebody else has replaced since, or when both have resumed the same      *)
(* session.  An owner that has released the lock while its process shuts     *)
(* down does not count, although it goes on running check(): gracefulShutdown *)
(* does not stop the scheduler, so that two sessions may run check() then.   *)
Exclusive == contested \/ Cardinality({s \in Sessions : Holds(s)}) <= 1

(* When an owner has died, whatever its lock file looks like then, a        *)
(* session that goes on running becomes the owner in the end.               *)
Takeover ==
  []<>((\E s \in Sessions : phase[s] = "up")
         => \E s \in Sessions : isOwner[s] /\ phase[s] = "up")
===============================================================================
