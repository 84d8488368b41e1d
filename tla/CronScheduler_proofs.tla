-------------------------- MODULE CronScheduler_proofs --------------------------
(***************************************************************************)
(* Proofs about CronScheduler and the SchedulerLock it extends: types, one  *)
(* owner of the lock, what the file of scheduled tasks holds, and that no   *)
(* task is handled twice.                                                   *)
(***************************************************************************)
EXTENDS CronScheduler, FiniteSetTheorems, TLAPS

-------------------------------------------------------------------------------
(* The lock *)

(* A process has a number, one that is gone does nothing, and an owner is up *)
(* and idle or on its way out, when it does no more than release the lock.   *)
ProcessInv ==
  \A s \in Sessions :
    /\ phase[s] # "down" => pid[s] # 0
    /\ phase[s] = "down" => ~isOwner[s] /\ step[s] = "idle"
    /\ isOwner[s] => (phase[s] = "up" /\ step[s] = "idle") \/ phase[s] = "closing"
    /\ phase[s] = "closing" =>
         isOwner[s] /\ step[s] \in {"idle", "release", "unlinkOwn"}

(* A body is of a process that lives or has lived, and one that was found   *)
(* stale stays so: a restart takes a new number.                           *)
BodyInv ==
  /\ lockFile.body # None => lockFile.body[2] <= pid[lockFile.body[1]]
  /\ \A s \in Sessions : existing[s] # None =>
       ~IsRunning(existing[s]) /\ existing[s][2] <= pid[existing[s][1]]

Holder(s) == Holds(s) \/ step[s] \in {"body", "release", "unlinkOwn"}

(* As long as nobody has destroyed the file of a live session, whoever has  *)
(* the lock, is about to have it or gives it back is alone, and the file is  *)
(* its own.                                                                *)
HolderInv ==
  ~contested =>
    /\ \A r, s \in Sessions : Holder(r) /\ Holder(s) => r = s
    /\ \A s \in Sessions :
         /\ Holds(s) \/ step[s] \in {"release", "unlinkOwn"}
              => lockFile.body = Me(s)
         /\ step[s] = "body" =>
              lockFile # Absent /\ lockFile.inode = fd[s] /\ lockFile.body = None

(* A file has an inode, and a session that writes a body has a file open.   *)
InodeInv ==
  /\ lockFile.inode = None => lockFile.body = None
  /\ \A s \in Sessions : step[s] = "body" => fd[s] # None

LockInv == LockTypeOK /\ ProcessInv /\ BodyInv /\ InodeInv /\ HolderInv

LEMMA NoneIsNoProcess ==
  /\ None \notin Processes
  /\ \A p \in Processes : p = <<p[1], p[2]>> /\ p[1] \in Sessions /\ p[2] \in Nat \ {0}
  /\ \A s \in Sessions : pid[s] \in Nat \ {0} => Me(s) \in Processes /\ Me(s) # None
  /\ \A r, s \in Sessions : Me(r) = Me(s) => r = s
  /\ \A s \in Sessions : Me(s)[1] = s /\ Me(s)[2] = pid[s]
  BY DEF None, Processes, Me

LEMMA InitLocked == Init => LockInv
  <1>1. SUFFICES ASSUME Init PROVE LockInv
    OBVIOUS
  <1> USE <1>1
  <1>2. left \in Budgets /\ Budgets \subseteq [starts : [Sessions -> Nat], stops : Nat, crashes : Nat]
    BY LockAssumption DEF Init, LockInit
  <1>3. LockTypeOK
    BY <1>2 DEF Init, LockInit, LockTypeOK, LockFiles, Maybe, Absent, Steps
  <1>4. ProcessInv BY DEF Init, LockInit, ProcessInv
  <1>5. BodyInv BY DEF Init, LockInit, BodyInv, Absent
  <1>6. HolderInv BY DEF Init, LockInit, HolderInv, Holder, Holds, Released
  <1>7. InodeInv BY DEF Init, LockInit, InodeInv, Absent
  <1>8. QED BY <1>3, <1>4, <1>5, <1>6, <1>7 DEF LockInv

(* What a session in a position to destroy the lock finds of another holder. *)
LEMMA HolderIsOthers ==
  ASSUME LockInv, ~contested, NEW s \in Sessions, NEW r \in Sessions, r # s, Holder(r)
  PROVE  /\ OthersLock(s) /\ lockFile # Absent
         /\ lockFile.body = None \/ (lockFile.body = Me(r) /\ IsRunning(Me(r)))
  <1>1. phase[r] # "down" /\ pid[r] # 0 /\ pid[r] \in Nat
    BY DEF LockInv, ProcessInv, Holder, Holds, Released, LockTypeOK
  <1>2. Me(r) \in Processes /\ Me(r) # None /\ Me(r)[1] = r /\ Me(r)[2] = pid[r]
    BY <1>1, NoneIsNoProcess
  <1>3. CASE step[r] = "body"
    BY <1>1, <1>3 DEF LockInv, HolderInv, OthersLock
  <1>4. CASE Holds(r) \/ step[r] \in {"release", "unlinkOwn"}
    <2>1. lockFile.body = Me(r) BY <1>4 DEF LockInv, HolderInv
    <2>2. lockFile # Absent BY <1>2, <2>1 DEF Absent
    <2>3. IsRunning(Me(r)) BY <1>1, <1>2 DEF IsRunning
    <2>4. QED BY <1>1, <2>1, <2>2, <2>3 DEF OthersLock
  <1>5. QED BY <1>3, <1>4 DEF Holder, Holds, Released

LEMMA StartLocked ==
  ASSUME LockInv, NEW s \in Sessions, Start(s) PROVE LockInv'
  <1>1. LockTypeOK'
    BY DEF LockInv, LockTypeOK, Start, Spends, Goto, Steps
  <1>2. \A r \in Sessions :
          /\ phase'[r] = IF r = s THEN "starting" ELSE phase[r]
          /\ step'[r] = IF r = s THEN "create" ELSE step[r]
          /\ pid'[r] = IF r = s THEN pid[s] + 1 ELSE pid[r]
          /\ pid[r] \in Nat
    BY DEF LockInv, LockTypeOK, Start, Goto
  <1>3. phase[s] = "down" /\ ~isOwner[s] /\ UNCHANGED <<lockFile, isOwner, fd, existing, contested>>
    BY DEF LockInv, ProcessInv, Start
  <1>4. ProcessInv'
    BY <1>2, <1>3 DEF LockInv, ProcessInv
  <1>5. BodyInv'
    <2>1. lockFile.body \in Maybe /\ \A r \in Sessions : existing[r] \in Maybe
      BY DEF LockInv, LockTypeOK, LockFiles
    <2>2. \A p \in Processes : p[2] <= pid[p[1]] =>
            p[2] <= pid'[p[1]] /\ (~IsRunning(p) => ~IsRunning(p)')
      BY <1>2, <1>3, NoneIsNoProcess DEF IsRunning
    <2>3. QED BY <1>3, <2>1, <2>2 DEF LockInv, BodyInv, Maybe
  <1>6. HolderInv'
    <2>1. \A r \in Sessions : (Holder(r)' <=> Holder(r)) /\ (Holder(r) => r # s)
      BY <1>2, <1>3 DEF Holder, Holds, Released, LockInv, ProcessInv
    <2>2. \A r \in Sessions : r # s => Me(r)' = Me(r) BY <1>2 DEF Me
    <2>3. QED BY <1>2, <1>3, <2>1, <2>2 DEF LockInv, HolderInv, Holder, Holds, Released
  <1>7. InodeInv' BY <1>2, <1>3 DEF LockInv, InodeInv
  <1>8. QED BY <1>1, <1>4, <1>5, <1>6, <1>7 DEF LockInv
(* A step that changes neither a process nor what it has read.             *)
LEMMA BodiesStay ==
  ASSUME BodyInv, UNCHANGED <<phase, pid>>,
         \/ lockFile'.body \in {None, lockFile.body}
         \/ \E s \in Sessions : lockFile'.body = Me(s) /\ pid[s] \in Nat,
         \A s \in Sessions : existing'[s] \in {None, existing[s]}
  PROVE  BodyInv'
  <1>1. \A p : IsRunning(p)' <=> IsRunning(p) BY DEF IsRunning
  <1>2. \A s \in Sessions : Me(s)[2] <= pid[Me(s)[1]] \/ pid[s] \notin Nat BY DEF Me
  <1>3. QED BY <1>1, <1>2 DEF BodyInv

LEMMA StepTypes ==
  ASSUME LockInv, NEW s \in Sessions
  PROVE  /\ phase[s] \in {"down", "starting", "up", "stopped", "closing"} /\ pid[s] \in Nat
         /\ step[s] \in Steps /\ isOwner[s] \in BOOLEAN
         /\ lockFile.body \in Maybe /\ lockFile.inode \in Maybe
         /\ lockFile = [inode |-> lockFile.inode, body |-> lockFile.body]
         /\ fd[s] \in Maybe /\ existing[s] \in Maybe
         /\ phase[s] # "down" => Me(s) \in Processes /\ Me(s) # None
  <1>1. pid[s] \in Nat BY DEF LockInv, LockTypeOK
  <1>2. phase[s] # "down" => Me(s) \in Processes /\ Me(s) # None
    BY <1>1, NoneIsNoProcess DEF LockInv, ProcessInv
  <1>3. QED BY <1>1, <1>2 DEF LockInv, LockTypeOK, LockFiles

LEMMA ProbeLocked ==
  ASSUME LockInv, NEW s \in Sessions, Probe(s) PROVE LockInv'
  <1>1. LockTypeOK' BY DEF LockInv, LockTypeOK, Probe, Goto, Steps
  <1>2. \A r \in Sessions : step'[r] = IF r = s THEN "create" ELSE step[r]
    BY DEF LockInv, LockTypeOK, Probe, Goto
  <1>3. /\ phase[s] = "up" /\ ~isOwner[s] /\ step[s] = "idle"
        /\ UNCHANGED <<lockFile, phase, pid, isOwner, fd, existing, contested>>
    BY DEF Probe
  <1>4. ProcessInv' BY <1>2, <1>3 DEF LockInv, ProcessInv
  <1>5. BodyInv' BY <1>3, BodiesStay DEF LockInv
  <1>6. HolderInv'
    <2>1. \A r \in Sessions : (Holder(r)' <=> Holder(r)) /\ (Holder(r) => r # s)
      BY <1>2, <1>3 DEF Holder, Holds, Released
    <2>2. \A r \in Sessions : Me(r)' = Me(r) BY <1>3 DEF Me
    <2>3. QED BY <1>2, <1>3, <2>1, <2>2 DEF LockInv, HolderInv, Holder, Holds, Released
  <1>7. InodeInv' BY <1>2, <1>3 DEF LockInv, InodeInv
  <1>8. QED BY <1>1, <1>4, <1>5, <1>6, <1>7 DEF LockInv

(* A session that is told FALSE, or that only moves on to a step in which it *)
(* holds nothing, disturbs nobody.                                         *)
LEMMA MovesOn ==
  ASSUME LockInv, NEW s \in Sessions,
         UNCHANGED <<lockFile, pid, isOwner, fd, left, contested>>,
         step[s] \notin {"idle", "body"} /\ phase[s] # "down" /\ ~isOwner[s],
         NEW point \in Steps \ {"body", "release", "unlinkOwn"}, Goto(s, point),
         NEW p, p = phase[s] \/ p = "up", phase' = [phase EXCEPT ![s] = p],
         \/ UNCHANGED existing
         \/ /\ lockFile.body = None \/ ~IsRunning(lockFile.body)
            /\ existing' = [existing EXCEPT ![s] = lockFile.body]
  PROVE  LockInv'
  <1>1. /\ phase[s] \in {"down", "starting", "up", "stopped", "closing"}
        /\ lockFile.body \in Maybe
    BY StepTypes
  <1>2. LockTypeOK'
    BY <1>1 DEF LockInv, LockTypeOK, Goto, Maybe
  <1>3. \A r \in Sessions : /\ step'[r] = IF r = s THEN point ELSE step[r]
                           /\ phase'[r] = IF r = s THEN p ELSE phase[r]
    BY DEF LockInv, LockTypeOK, Goto
  <1>4. ProcessInv' BY <1>3 DEF LockInv, ProcessInv
  <1>5. BodyInv'
    <2>1. \A q \in Processes : IsRunning(q)' <=> IsRunning(q)
      BY <1>3, NoneIsNoProcess DEF IsRunning
    <2>2. \A r \in Sessions : existing[r] \in Maybe BY DEF LockInv, LockTypeOK
    <2>3. \A r \in Sessions :
            existing'[r] = existing[r]
              \/ (existing'[r] = lockFile.body
                    /\ (lockFile.body = None \/ ~IsRunning(lockFile.body)))
      BY DEF LockInv, LockTypeOK
    <2>4. QED BY <1>1, <2>1, <2>2, <2>3 DEF LockInv, BodyInv, Maybe
  <1>6. HolderInv'
    <2>1. \A r \in Sessions : Holder(r)' => Holder(r) /\ (r = s => FALSE)
      BY <1>3 DEF Holder, Holds, Released
    <2>2. \A r \in Sessions : Me(r)' = Me(r) BY DEF Me
    <2>3. QED BY <1>3, <2>1, <2>2 DEF LockInv, HolderInv, Holder, Holds, Released
  <1>7. InodeInv' BY <1>3 DEF LockInv, InodeInv
  <1>8. QED BY <1>2, <1>4, <1>5, <1>6, <1>7 DEF LockInv

(* A session that is told TRUE while its body is in the file.              *)
LEMMA AcquiredLocked ==
  ASSUME LockInv, NEW s \in Sessions, Acquired(s), UNCHANGED <<pid, left, contested>>,
         step[s] \in {"body", "read"}, phase[s] # "down",
         lockFile' \in LockFiles, fd' \in [Sessions -> Maybe], existing' = existing,
         lockFile'.body \in {lockFile.body, Me(s)},
         lockFile'.inode = None => lockFile'.body = None,
         \A r \in Sessions : r # s => fd'[r] = fd[r],
         ~contested => /\ lockFile'.body = Me(s)
                       /\ \A r \in Sessions : Holder(r) => r = s
  PROVE  LockInv'
  <1>1. /\ phase[s] \in {"starting", "up", "stopped"} /\ pid[s] \in Nat
        /\ \A r \in Sessions :
             /\ step'[r] = IF r # s THEN step[r]
                           ELSE IF phase[s] = "stopped" THEN "release" ELSE "idle"
             /\ phase'[r] = IF r = s /\ phase[s] # "stopped" THEN "up" ELSE phase[r]
             /\ isOwner'[r] = IF r = s /\ phase[s] # "stopped" THEN TRUE ELSE isOwner[r]
    <2>1. phase[s] \in {"starting", "up", "stopped"} /\ pid[s] \in Nat
      <3>1. phase[s] \in {"down", "starting", "up", "stopped", "closing"} /\ pid[s] \in Nat
        BY StepTypes
      <3>2. phase[s] # "closing" BY DEF LockInv, ProcessInv
      <3>3. QED BY <3>1, <3>2
    <2>2. QED BY <2>1 DEF Acquired, Goto, LockInv, LockTypeOK
  <1>2. LockTypeOK'
    BY DEF Acquired, Goto, LockInv, LockTypeOK, Steps
  <1>3. ProcessInv'
    BY <1>1 DEF LockInv, ProcessInv
  <1>4. BodyInv'
    <2>1. \A q \in Processes : IsRunning(q)' <=> IsRunning(q)
      BY <1>1, NoneIsNoProcess DEF IsRunning
    <2>2. /\ lockFile.body \in Maybe /\ lockFile'.body \in Maybe
          /\ \A r \in Sessions : existing[r] \in Maybe
      BY DEF LockInv, LockTypeOK, LockFiles
    <2>3. Me(s)[2] <= pid[Me(s)[1]] BY <1>1 DEF Me
    <2>4. QED BY <2>1, <2>2, <2>3 DEF LockInv, BodyInv, Maybe
  <1>5. HolderInv'
    <2>1. SUFFICES ASSUME ~contested PROVE HolderInv'
      BY DEF HolderInv
    <2>2. \A r \in Sessions : Holder(r)' => r = s
      BY <1>1, <2>1 DEF Holder, Holds, Released
    <2>3. Me(s)' = Me(s) BY DEF Me
    <2>4. step'[s] # "body" BY <1>1
    <2>5. QED BY <2>1, <2>2, <2>3, <2>4 DEF HolderInv, Holder, Holds, Released
  <1>6. InodeInv' BY <1>1 DEF LockInv, InodeInv
  <1>7. QED BY <1>2, <1>3, <1>4, <1>5, <1>6 DEF LockInv
LEMMA BlockedMovesOn ==
  ASSUME LockInv, NEW s \in Sessions, Blocked(s),
         UNCHANGED <<lockFile, pid, fd, existing, left, contested>>,
         step[s] \in {"read", "recreate"}
  PROVE  LockInv'
  <1> DEFINE p == IF phase[s] = "stopped" THEN phase[s] ELSE "up"
  <1>1. phase' = [phase EXCEPT ![s] = p] /\ Goto(s, "idle") /\ UNCHANGED isOwner
    BY DEF Blocked
  <1>2. phase[s] # "down" /\ ~isOwner[s] BY DEF LockInv, ProcessInv
  <1>3. p = phase[s] \/ p = "up" OBVIOUS
  <1>4. "idle" \in Steps \ {"body", "release", "unlinkOwn"} BY DEF Steps
  <1> HIDE DEF p
  <1>5. QED BY <1>1, <1>2, <1>3, <1>4, MovesOn

LEMMA CreateLocked ==
  ASSUME LockInv, NEW s \in Sessions, TryCreateExclusive(s) PROVE LockInv'
  <1>1. /\ step[s] \in {"create", "recreate"} /\ phase[s] # "down" /\ ~isOwner[s]
        /\ UNCHANGED <<pid, existing, left, contested>>
    BY DEF LockInv, ProcessInv, TryCreateExclusive
  <1>2. CASE lockFile # Absent
    <2>1. UNCHANGED <<lockFile, fd>> BY <1>2 DEF TryCreateExclusive
    <2>2. CASE step[s] = "create"
      <3>1. Goto(s, "read") /\ UNCHANGED <<phase, isOwner>>
        BY <1>2, <2>2 DEF TryCreateExclusive
      <3>2. phase' = [phase EXCEPT ![s] = phase[s]]
        BY <3>1 DEF LockInv, LockTypeOK
      <3>3. "read" \in Steps \ {"body", "release", "unlinkOwn"} BY DEF Steps
      <3>4. QED BY <1>1, <2>1, <3>1, <3>2, <3>3, MovesOn
    <2>3. CASE step[s] = "recreate"
      <3>1. Blocked(s) BY <1>2, <2>3 DEF TryCreateExclusive
      <3>2. step[s] \in {"read", "recreate"} BY <2>3
      <3>3. QED BY <1>1, <2>1, <3>1, <3>2, BlockedMovesOn
    <2>4. QED BY <1>1, <2>2, <2>3
  <1>3. CASE lockFile = Absent
    <2>1. /\ lockFile' = [inode |-> Me(s), body |-> None]
          /\ fd' = [fd EXCEPT ![s] = Me(s)] /\ Goto(s, "body")
          /\ UNCHANGED <<phase, isOwner>>
      BY <1>3 DEF TryCreateExclusive
    <2>2. Me(s) \in Maybe /\ None \in Maybe /\ Me(s) # None
      BY <1>1, StepTypes DEF Maybe
    <2>3. LockTypeOK'
      BY <1>1, <2>1, <2>2 DEF LockInv, LockTypeOK, LockFiles, Goto, Steps
    <2>4. \A r \in Sessions : /\ step'[r] = IF r = s THEN "body" ELSE step[r]
                             /\ fd'[r] = IF r = s THEN Me(s) ELSE fd[r]
      BY <2>1 DEF LockInv, LockTypeOK, Goto
    <2>5. ProcessInv' BY <1>1, <2>1, <2>4 DEF LockInv, ProcessInv
    <2>6. BodyInv' BY <1>1, <2>1, BodiesStay DEF LockInv
    <2>7. HolderInv'
      <3>1. SUFFICES ASSUME ~contested PROVE HolderInv'
        BY <1>1 DEF HolderInv
      <3>2. \A r \in Sessions : Holder(r) => r = s
        BY <1>3, <3>1, HolderIsOthers
      <3>3. \A r \in Sessions : Holder(r)' => r = s
        BY <2>1, <2>4, <3>2 DEF Holder, Holds, Released
      <3>4. step'[s] = "body" /\ ~isOwner'[s] BY <1>1, <2>1, <2>4
      <3>5. lockFile' # Absent /\ lockFile'.inode = fd'[s] /\ lockFile'.body = None
        BY <2>1, <2>2, <2>4 DEF Absent
      <3>6. QED BY <3>3, <3>4, <3>5 DEF HolderInv, Holder, Holds, Released
    <2>8. InodeInv' BY <2>1, <2>2, <2>4 DEF LockInv, InodeInv
    <2>9. QED BY <2>3, <2>5, <2>6, <2>7, <2>8 DEF LockInv
  <1>4. QED BY <1>2, <1>3

LEMMA BodyLocked ==
  ASSUME LockInv, NEW s \in Sessions, BodyLands(s) PROVE LockInv'
  <1>1. /\ step[s] = "body" /\ phase[s] # "down" /\ Acquired(s)
        /\ UNCHANGED <<pid, existing, left, contested>>
    BY DEF LockInv, ProcessInv, BodyLands
  <1>2. Me(s) \in Maybe /\ None \in Maybe BY <1>1, StepTypes DEF Maybe
  <1>3. lockFile' \in LockFiles /\ lockFile'.body \in {lockFile.body, Me(s)}
    BY <1>2 DEF BodyLands, LockInv, LockTypeOK, LockFiles
  <1>4. /\ fd' \in [Sessions -> Maybe] /\ \A r \in Sessions : r # s => fd'[r] = fd[r]
        /\ lockFile'.inode = None => lockFile'.body = None
    <2>1. fd[s] # None /\ (lockFile.inode = None => lockFile.body = None)
      BY <1>1 DEF LockInv, InodeInv
    <2>2. fd' \in [Sessions -> Maybe] /\ \A r \in Sessions : r # s => fd'[r] = fd[r]
      BY <1>2 DEF BodyLands, LockInv, LockTypeOK
    <2>3. lockFile'.inode = None => lockFile'.body = None
      BY <2>1 DEF BodyLands, LockInv, LockTypeOK, LockFiles
    <2>4. QED BY <2>2, <2>3
  <1>5. ASSUME ~contested
        PROVE  lockFile'.body = Me(s) /\ \A r \in Sessions : Holder(r) => r = s
    <2>1. lockFile.inode = fd[s] BY <1>1, <1>5 DEF LockInv, HolderInv
    <2>2. lockFile'.body = Me(s)
      BY <2>1 DEF BodyLands, LockInv, LockTypeOK, LockFiles
    <2>3. QED BY <1>1, <1>5, <2>2 DEF LockInv, HolderInv, Holder, Holds, Released
  <1>6. QED BY <1>1, <1>3, <1>4, <1>5, AcquiredLocked

LEMMA ReadLocked ==
  ASSUME LockInv, NEW s \in Sessions, ReadLock(s) PROVE LockInv'
  <1>1. /\ step[s] = "read" /\ phase[s] # "down" /\ ~isOwner[s]
        /\ UNCHANGED <<lockFile, pid, fd, left, contested>>
    BY DEF LockInv, ProcessInv, ReadLock
  <1>2. CASE lockFile.body = Me(s) /\ Acquired(s) /\ UNCHANGED existing
    <2>1. \A r \in Sessions : ~contested /\ Holder(r) => r = s
      <3>1. SUFFICES ASSUME NEW r \in Sessions, r # s, ~contested, Holder(r) PROVE FALSE
        OBVIOUS
      <3>2. lockFile.body = None \/ lockFile.body = Me(r)
        BY <3>1, HolderIsOthers
      <3>3. QED BY <1>1, <1>2, <3>1, <3>2, NoneIsNoProcess, StepTypes
    <2>2. /\ lockFile' \in LockFiles /\ fd' \in [Sessions -> Maybe]
          /\ lockFile.inode = None => lockFile.body = None
      BY <1>1 DEF LockInv, LockTypeOK, InodeInv
    <2>3. QED BY <1>1, <1>2, <2>1, <2>2, AcquiredLocked
  <1>3. ASSUME NEW point \in {"rewrite", "unlink"}, Goto(s, point),
               UNCHANGED <<phase, isOwner>>,
               \/ UNCHANGED existing
               \/ /\ Stale(lockFile.body)
                  /\ existing' = [existing EXCEPT ![s] = lockFile.body]
        PROVE  LockInv'
    <2>1. phase' = [phase EXCEPT ![s] = phase[s]]
      BY <1>3 DEF LockInv, LockTypeOK
    <2>2. point \in Steps \ {"body", "release", "unlinkOwn"} BY DEF Steps
    <2>3. \/ UNCHANGED existing
          \/ /\ lockFile.body = None \/ ~IsRunning(lockFile.body)
             /\ existing' = [existing EXCEPT ![s] = lockFile.body]
      BY <1>3 DEF Stale
    <2>4. QED BY <1>1, <1>3, <2>1, <2>2, <2>3, MovesOn
  <1>4. CASE Blocked(s) /\ UNCHANGED existing
    BY <1>1, <1>4, BlockedMovesOn
  <1>5. QED BY <1>2, <1>3, <1>4 DEF ReadLock

LEMMA RewriteLocked ==
  ASSUME LockInv, NEW s \in Sessions, Rewrite(s) PROVE LockInv'
  <1>1. /\ step[s] = "rewrite" /\ phase[s] # "down" /\ ~isOwner[s] /\ Goto(s, "body")
        /\ fd' = [fd EXCEPT ![s] = lockFile'.inode]
        /\ contested' = (contested \/ OthersLock(s))
        /\ UNCHANGED <<phase, pid, isOwner, existing, left>>
    BY DEF LockInv, ProcessInv, Rewrite
  <1>2. Me(s) \in Maybe /\ None \in Maybe /\ Me(s) # None
    BY <1>1, StepTypes DEF Maybe
  <1>3. /\ lockFile' \in LockFiles /\ lockFile'.body = None /\ lockFile'.inode \in Maybe
        /\ lockFile'.inode # None
    <2>1. CASE lockFile = Absent
      BY <1>2, <2>1 DEF Rewrite, LockFiles, Absent
    <2>2. CASE lockFile # Absent
      <3>1. PICK i \in Maybe, b \in Maybe : lockFile = [inode |-> i, body |-> b]
        BY DEF LockInv, LockTypeOK, LockFiles
      <3>2. i # None
        BY <2>2, <3>1 DEF LockInv, InodeInv, Absent
      <3>3. lockFile' = [inode |-> i, body |-> None]
        BY <2>2, <3>1 DEF Rewrite
      <3>4. QED BY <1>2, <3>1, <3>2, <3>3 DEF LockFiles
    <2>3. QED BY <2>1, <2>2
  <1>4. \A r \in Sessions :
          /\ step'[r] = IF r = s THEN "body" ELSE step[r]
          /\ fd'[r] = IF r = s THEN lockFile'.inode ELSE fd[r]
    BY <1>1 DEF LockInv, LockTypeOK, Goto
  <1>5. LockTypeOK'
    <2>1. contested' \in BOOLEAN BY <1>1
    <2>2. QED BY <1>1, <1>3, <2>1 DEF LockInv, LockTypeOK, Goto, Steps
  <1>6. ProcessInv' BY <1>1, <1>4 DEF LockInv, ProcessInv
  <1>7. BodyInv' BY <1>1, <1>3, BodiesStay DEF LockInv
  <1>8. InodeInv' BY <1>3, <1>4 DEF LockInv, InodeInv
  <1>9. HolderInv'
    <2>1. SUFFICES ASSUME ~contested, ~OthersLock(s) PROVE HolderInv'
      BY <1>1 DEF HolderInv
    <2>2. \A r \in Sessions : Holder(r) => r = s BY <2>1, HolderIsOthers
    <2>3. \A r \in Sessions : Holder(r)' => r = s BY <1>1, <1>4, <2>2 DEF Holder, Holds, Released
    <2>4. lockFile' # Absent BY <1>3 DEF Absent
    <2>5. QED BY <1>1, <1>3, <1>4, <2>3, <2>4 DEF HolderInv, Holder, Holds, Released
  <1>10. QED BY <1>5, <1>6, <1>7, <1>8, <1>9 DEF LockInv

(* Unlinking the file, by whoever holds nothing afterwards.                *)
LEMMA UnlinkLocked ==
  ASSUME LockInv, NEW s \in Sessions, UnlinkStale(s) \/ UnlinkOwn(s) PROVE LockInv'
  <1> DEFINE point == IF step[s] = "unlink" THEN "recreate" ELSE "idle"
  <1>1. /\ step[s] \in {"unlink", "unlinkOwn"} /\ phase[s] # "down"
        /\ isOwner[s] => phase[s] = "closing" /\ point = "idle"
        /\ lockFile' = Absent /\ Goto(s, point) /\ point \in {"recreate", "idle"}
        /\ UNCHANGED <<phase, pid, isOwner, fd, left>>
        /\ \A r \in Sessions : existing'[r] \in {None, existing[r]}
        /\ existing' \in [Sessions -> Maybe] /\ contested' \in BOOLEAN
    BY DEF LockInv, LockTypeOK, ProcessInv, UnlinkStale, UnlinkOwn, Maybe
  <1> HIDE DEF point
  <1>2. Absent \in LockFiles /\ Absent.body = None
    BY DEF Absent, LockFiles, Maybe
  <1>3. \A r \in Sessions : step'[r] = IF r = s THEN point ELSE step[r]
    BY <1>1 DEF LockInv, LockTypeOK, Goto
  <1>4. LockTypeOK' BY <1>1, <1>2 DEF LockInv, LockTypeOK, Goto, Steps
  <1>5. ProcessInv' BY <1>1, <1>3 DEF LockInv, ProcessInv
  <1>6. BodyInv' BY <1>1, <1>2, BodiesStay DEF LockInv
  <1>7. InodeInv' BY <1>1, <1>2, <1>3 DEF LockInv, InodeInv
  <1>8. HolderInv'
    <2>1. SUFFICES ASSUME ~contested' PROVE \A r \in Sessions : ~Holder(r)'
      BY DEF HolderInv, Holder, Holds, Released
    <2>2. ~contested BY <2>1 DEF UnlinkStale, UnlinkOwn
    <2>3. \A r \in Sessions : Holder(r) => r = s
      <3>1. CASE UnlinkOwn(s)
        BY <2>2, <3>1 DEF LockInv, HolderInv, Holder, Holds, Released, UnlinkOwn
      <3>2. CASE UnlinkStale(s)
        <4>1. ~(OthersLock(s) /\ (lockFile.body = None \/ lockFile.body # existing[s]))
          BY <2>1, <3>2 DEF UnlinkStale
        <4>2. existing[s] # None => ~IsRunning(existing[s])
          BY DEF LockInv, BodyInv
        <4>3. QED BY <2>2, <4>1, <4>2, HolderIsOthers
      <3>3. QED BY <3>1, <3>2
    <2>4. QED BY <1>1, <1>3, <2>3 DEF Holder, Holds, Released
  <1>9. QED BY <1>4, <1>5, <1>6, <1>7, <1>8 DEF LockInv

LEMMA ReadOwnLocked ==
  ASSUME LockInv, NEW s \in Sessions, ReadOwnLock(s) PROVE LockInv'
  <1> DEFINE point == IF /\ lockFile.body # None
                         /\ SessionId[lockFile.body[1]] = SessionId[s]
                      THEN "unlinkOwn" ELSE "idle"
  <1>1. /\ step[s] = "release" /\ phase[s] # "down" /\ Goto(s, point)
        /\ isOwner[s] => phase[s] = "closing"
        /\ UNCHANGED <<lockFile, phase, pid, isOwner, fd, existing, left, contested>>
        /\ point \in {"unlinkOwn", "idle"}
    BY DEF LockInv, ProcessInv, ReadOwnLock
  <1>2. ~contested => lockFile.body = Me(s)
    BY <1>1 DEF LockInv, HolderInv
  <1> HIDE DEF point
  <1>3. \A r \in Sessions : step'[r] = IF r = s THEN point ELSE step[r]
    BY <1>1 DEF LockInv, LockTypeOK, Goto
  <1>4. LockTypeOK' BY <1>1 DEF LockInv, LockTypeOK, Goto, Steps
  <1>5. ProcessInv' BY <1>1, <1>3 DEF LockInv, ProcessInv
  <1>6. BodyInv' BY <1>1, BodiesStay DEF LockInv
  <1>7. InodeInv' BY <1>1, <1>3 DEF LockInv, InodeInv
  <1>8. HolderInv'
    <2>1. \A r \in Sessions : Holder(r)' => Holder(r) BY <1>1, <1>3 DEF Holder, Holds, Released
    <2>2. \A r \in Sessions : Me(r)' = Me(r) BY <1>1 DEF Me
    <2>3. \A r \in Sessions : Holds(r)' => Holds(r)
      BY <1>1, <1>3 DEF Holds, Released
    <2>4. QED BY <1>1, <1>2, <1>3, <2>1, <2>2, <2>3 DEF LockInv, HolderInv
  <1>9. QED BY <1>4, <1>5, <1>6, <1>7, <1>8 DEF LockInv

LEMMA ShutdownLocked ==
  ASSUME LockInv, NEW s \in Sessions, Shutdown(s) PROVE LockInv'
  <1>1. /\ phase[s] = "up" /\ isOwner[s] /\ step[s] = "idle"
        /\ UNCHANGED <<lockFile, pid, isOwner, fd, existing, contested>>
        /\ left' \in [starts : [Sessions -> Nat], stops : Nat, crashes : Nat]
    BY DEF Shutdown, Spends, LockInv, LockTypeOK, ProcessInv
  <1>2. \A r \in Sessions :
          /\ phase'[r] = IF r = s THEN "closing" ELSE phase[r]
          /\ step'[r] = IF r = s THEN "release" ELSE step[r]
    BY DEF Shutdown, Goto, LockInv, LockTypeOK
  <1>3. LockTypeOK' BY <1>1 DEF Shutdown, Goto, LockInv, LockTypeOK, Steps
  <1>4. ProcessInv' BY <1>1, <1>2 DEF LockInv, ProcessInv
  <1>5. BodyInv'
    <2>1. \A q \in Processes : IsRunning(q)' <=> IsRunning(q)
      BY <1>1, <1>2, NoneIsNoProcess DEF IsRunning
    <2>2. lockFile.body \in Maybe /\ \A r \in Sessions : existing[r] \in Maybe
      BY DEF LockInv, LockTypeOK, LockFiles
    <2>3. QED BY <1>1, <2>1, <2>2 DEF LockInv, BodyInv, Maybe
  <1>6. InodeInv' BY <1>1, <1>2 DEF LockInv, InodeInv
  <1>7. HolderInv'
    <2>1. \A r \in Sessions : (Holder(r)' => Holder(r)) /\ (Holds(r)' => Holds(r))
      BY <1>1, <1>2 DEF Holder, Holds, Released
    <2>2. \A r \in Sessions : Me(r)' = Me(r) BY <1>1 DEF Me
    <2>3. Holds(s) BY <1>1 DEF Holds, Released
    <2>4. QED BY <1>1, <1>2, <2>1, <2>2, <2>3 DEF LockInv, HolderInv
  <1>8. QED BY <1>3, <1>4, <1>5, <1>6, <1>7 DEF LockInv

LEMMA StopLocked ==
  ASSUME LockInv, NEW s \in Sessions, Stop(s) PROVE LockInv'
  <1>1. /\ phase[s] \in {"starting", "up"}
        /\ UNCHANGED <<lockFile, pid, fd, existing, contested>>
        /\ left' \in [starts : [Sessions -> Nat], stops : Nat, crashes : Nat]
    BY DEF Stop, Spends, LockInv, LockTypeOK
  <1>2. \A r \in Sessions :
          /\ phase'[r] = IF r = s THEN "stopped" ELSE phase[r]
          /\ isOwner'[r] = IF r = s THEN FALSE ELSE isOwner[r]
          /\ step'[r] = IF r = s /\ isOwner[r] THEN "release" ELSE step[r]
    BY DEF Stop, LockInv, LockTypeOK
  <1>3. LockTypeOK' BY <1>1 DEF Stop, LockInv, LockTypeOK, Steps
  <1>4. ProcessInv' BY <1>1, <1>2 DEF LockInv, ProcessInv
  <1>5. BodyInv'
    <2>1. \A q \in Processes : IsRunning(q)' <=> IsRunning(q)
      BY <1>1, <1>2, NoneIsNoProcess DEF IsRunning
    <2>2. lockFile.body \in Maybe /\ \A r \in Sessions : existing[r] \in Maybe
      BY DEF LockInv, LockTypeOK, LockFiles
    <2>3. QED BY <1>1, <2>1, <2>2 DEF LockInv, BodyInv, Maybe
  <1>6. InodeInv' BY <1>1, <1>2 DEF LockInv, InodeInv
  <1>7. HolderInv'
    <2>1. \A r \in Sessions : (Holder(r)' => Holder(r)) /\ (Holds(r)' => Holds(r))
      BY <1>1, <1>2 DEF Holder, Holds, Released
    <2>2. \A r \in Sessions : Me(r)' = Me(r) BY <1>1 DEF Me
    <2>3. isOwner[s] => Holds(s) BY <1>1 DEF Holds, Released
    <2>4. QED BY <1>1, <1>2, <2>1, <2>2, <2>3 DEF LockInv, HolderInv
  <1>8. QED BY <1>3, <1>4, <1>5, <1>6, <1>7 DEF LockInv

LEMMA EndLocked ==
  ASSUME LockInv, NEW s \in Sessions, Exit(s) \/ Crash(s) PROVE LockInv'
  <1>1. /\ Dies(s) /\ UNCHANGED <<lockFile, pid, contested>>
        /\ left' \in [starts : [Sessions -> Nat], stops : Nat, crashes : Nat]
    BY DEF Exit, Crash, Dies, Spends, LockInv, LockTypeOK
  <1>2. \A r \in Sessions :
          /\ phase'[r] = IF r = s THEN "down" ELSE phase[r]
          /\ isOwner'[r] = IF r = s THEN FALSE ELSE isOwner[r]
          /\ step'[r] = IF r = s THEN "idle" ELSE step[r]
          /\ fd'[r] = IF r = s THEN None ELSE fd[r]
          /\ existing'[r] = IF r = s THEN None ELSE existing[r]
    BY <1>1 DEF Dies, Goto, LockInv, LockTypeOK
  <1>3. LockTypeOK' BY <1>1 DEF Dies, Goto, LockInv, LockTypeOK, Steps, Maybe
  <1>4. ProcessInv' BY <1>1, <1>2 DEF LockInv, ProcessInv
  <1>5. BodyInv'
    <2>1. \A q \in Processes : IsRunning(q)' => IsRunning(q)
      BY <1>1, <1>2, NoneIsNoProcess DEF IsRunning
    <2>2. lockFile.body \in Maybe /\ \A r \in Sessions : existing[r] \in Maybe
      BY DEF LockInv, LockTypeOK, LockFiles
    <2>3. QED BY <1>1, <1>2, <2>1, <2>2 DEF LockInv, BodyInv, Maybe
  <1>6. InodeInv' BY <1>1, <1>2 DEF LockInv, InodeInv
  <1>7. HolderInv'
    <2>1. \A r \in Sessions :
            /\ Holder(r)' => Holder(r) /\ r # s
            /\ Holds(r)' => Holds(r)
      BY <1>2 DEF Holder, Holds, Released
    <2>2. \A r \in Sessions : Me(r)' = Me(r) BY <1>1 DEF Me
    <2>3. QED BY <1>1, <1>2, <2>1, <2>2 DEF LockInv, HolderInv
  <1>8. QED BY <1>3, <1>4, <1>5, <1>6, <1>7 DEF LockInv

LEMMA LockStays == ASSUME LockInv, UNCHANGED lockVars PROVE LockInv'
  BY DEF LockInv, lockVars, LockTypeOK, ProcessInv, BodyInv, InodeInv, HolderInv,
         Holder, Holds, Released, Me, IsRunning
LEMMA StepLocked == LockInv /\ [Next]_vars => LockInv'
  <1>1. SUFFICES ASSUME LockInv, [Next]_vars PROVE LockInv'
    OBVIOUS
  <1> USE <1>1
  <1>2. CASE UNCHANGED lockVars BY <1>2, LockStays
  <1>3. ASSUME NEW s \in Sessions, TakesLock(s) PROVE LockInv'
    BY <1>3, StartLocked, ProbeLocked, CreateLocked, BodyLocked, ReadLocked,
       RewriteLocked, UnlinkLocked, ReadOwnLocked, StopLocked,
       ShutdownLocked
       DEF TakesLock, LockSteps
  <1>4. ASSUME NEW s \in Sessions, Ends(s) PROVE LockInv'
    BY <1>4, EndLocked DEF Ends
  <1>5. Tick => UNCHANGED lockVars BY DEF Tick
  <1>6. JobSteps => UNCHANGED lockVars
    BY DEF JobSteps, JobReads, JobOpens, JobWrites
  <1>7. \A s \in Sessions : Loads(s) \/ Check(s) => UNCHANGED lockVars
    BY DEF Loads, InitialLoad, WatcherReady, Reload, Check
  <1>8. \A s \in Sessions, t \in Tasks : Create(s, t) \/ Delete(s, t) => UNCHANGED lockVars
    BY DEF Create, Delete
  <1>9. QED BY <1>2, <1>3, <1>4, <1>5, <1>6, <1>7, <1>8 DEF Next, vars

LEMMA Locked == Spec => []LockInv
  BY InitLocked, StepLocked, PTL DEF Spec

(* At most one session is the owner and has the lock, for any number of       *)
(* sessions, starts, stops, shutdowns and crashes and whatever session ids    *)
(* they have, as long as no session has destroyed the file of another live    *)
(* one.  A process that shuts down stops counting when it has released the    *)
(* lock, although it goes on running check() until it exits.                  *)
THEOREM OneOwner == Spec => []Exclusive
  <1>1. ASSUME LockInv PROVE Exclusive
    <2> DEFINE owners == {s \in Sessions : Holds(s)}
    <2>1. SUFFICES ASSUME ~contested PROVE Cardinality(owners) <= 1
      BY DEF Exclusive
    <2>2. \A r, s \in owners : r = s
      BY <1>1, <2>1 DEF LockInv, HolderInv, Holder, Holds, Released
    <2>3. CASE owners = {}
      <3>1. Cardinality(owners) = 0 BY <2>3, FS_EmptySet
      <3>2. QED BY <3>1
    <2>4. CASE owners # {}
      <3>1. PICK s \in owners : TRUE BY <2>4
      <3>2. owners = {s} BY <2>2, <3>1
      <3>3. Cardinality(owners) = 1 BY <3>2, FS_Singleton
      <3>4. QED BY <3>3
    <2>5. QED BY <2>3, <2>4
  <1>2. QED BY <1>1, Locked, PTL

-------------------------------------------------------------------------------
(* The file *)

Task == [created : Times, fired : Times]

LEMMA FileTypes ==
  /\ \A f : f \in TaskFiles <=> DOMAIN f \subseteq Tasks /\ f \in [DOMAIN f -> Task]
  /\ NoTasks \in TaskFiles /\ DOMAIN NoTasks = {}
  /\ \A at \in Times : New(at) \in Task
  /\ 0 \in Times /\ MaxTime \in Nat /\ Times \subseteq Nat
  <1>1. ASSUME NEW f PROVE f \in TaskFiles <=> DOMAIN f \subseteq Tasks /\ f \in [DOMAIN f -> Task]
    <2>1. f \in TaskFiles <=> \E ids \in SUBSET Tasks : f \in [ids -> Task]
      BY DEF TaskFiles, Task
    <2>2. QED BY <2>1
  <1>2. DOMAIN NoTasks = {} /\ NoTasks \in [DOMAIN NoTasks -> Task]
    BY DEF NoTasks
  <1>3. NoTasks \in TaskFiles BY <1>1, <1>2
  <1>4. \A at \in Times : New(at) \in Task BY DEF New, Task
  <1>5. 0 \in Times /\ MaxTime \in Nat /\ Times \subseteq Nat
    BY CronAssumption DEF Times
  <1>6. QED BY <1>1, <1>2, <1>3, <1>4, <1>5

LEMMA RewrittenTypes ==
  ASSUME NEW j \in Jobs
  PROVE  /\ Rewritten(j) \in TaskFiles
         /\ DOMAIN Rewritten(j) =
              CASE j.op = "create" -> DOMAIN j.base \cup j.ids
                [] j.op = "fired"  -> DOMAIN j.base
                [] OTHER           -> DOMAIN j.base \ j.ids
  <1>1. /\ j.base \in TaskFiles /\ j.ids \in SUBSET Tasks /\ j.at \in Times
        /\ j.op \in {"remove", "fired", "missed", "create", "delete"}
    BY DEF Jobs
  <1>2. DOMAIN j.base \subseteq Tasks /\ j.base \in [DOMAIN j.base -> Task]
    BY <1>1, FileTypes
  <1>3. New(j.at) \in Task BY <1>1, FileTypes
  <1> DEFINE rest == Restrict(j.base, DOMAIN j.base \ j.ids)
             stamped == [t \in DOMAIN j.base |->
                IF t \in j.ids THEN [j.base[t] EXCEPT !.fired = j.at] ELSE j.base[t]]
             added == [t \in DOMAIN j.base \cup j.ids |->
                IF t \in j.ids THEN New(j.at) ELSE j.base[t]]
  <1>4. DOMAIN rest = DOMAIN j.base \ j.ids /\ rest \in [DOMAIN rest -> Task]
    BY <1>2 DEF Restrict
  <1>5. DOMAIN stamped = DOMAIN j.base /\ stamped \in [DOMAIN stamped -> Task]
    BY <1>1, <1>2 DEF Task
  <1>6. DOMAIN added = DOMAIN j.base \cup j.ids /\ added \in [DOMAIN added -> Task]
    BY <1>1, <1>2, <1>3
  <1>7. rest \in TaskFiles /\ stamped \in TaskFiles /\ added \in TaskFiles
    BY <1>1, <1>2, <1>4, <1>5, <1>6, FileTypes
  <1>8. Rewritten(j) = CASE j.op = "create" -> added
                         [] j.op = "fired"  -> stamped
                         [] OTHER           -> rest
    BY <1>1 DEF Rewritten
  <1> HIDE DEF rest, stamped, added
  <1>9. QED BY <1>1, <1>4, <1>5, <1>6, <1>7, <1>8

Flaws == {"overlap", "killed", "torn", "unowned", "setBack"}

Fires == 0..(MaxTime + 1) \cup {Never, Unset}

CronTypeOK ==
  /\ now \in Times
  /\ file \in TaskFiles
  /\ tasks \in [Sessions -> TaskFiles]
  /\ nextFireAt \in [Sessions -> [Tasks -> Fires]]
  /\ inFlight \in [Sessions -> SUBSET Tasks]
  /\ loaded \in [Sessions -> BOOLEAN] /\ watching \in [Sessions -> BOOLEAN]
  /\ changed \in [Sessions -> BOOLEAN] /\ blind \in [Sessions -> BOOLEAN]
  /\ jobs \subseteq Jobs /\ edits \in Nat
  /\ handled \in [Tasks -> 0..2] /\ handler \in [Tasks -> Maybe]
  /\ flaws \subseteq Flaws
  /\ kept \subseteq Tasks

LEMMA TypeParts == TypeOK <=> LockTypeOK /\ CronTypeOK
  BY DEF TypeOK, CronTypeOK, Fires, Flaws

LEMMA InitCron == Init => CronTypeOK
  <1>1. SUFFICES ASSUME Init PROVE CronTypeOK
    OBVIOUS
  <1>2. PICK c \in Cases : /\ edits = c.edits /\ kept = c.scheduled
                           /\ file = [t \in c.scheduled |-> New(0)]
    BY <1>1 DEF Init
  <1>3. c.edits \in Nat /\ c.scheduled \in SUBSET Tasks
    BY <1>2, CronAssumption
  <1>4. file \in TaskFiles BY <1>2, <1>3, FileTypes
  <1>5. QED BY <1>1, <1>2, <1>3, <1>4, FileTypes DEF Init, CronTypeOK, Fires, Maybe
LEMMA JobTypes ==
  ASSUME LockInv, CronTypeOK, NEW s \in Sessions, phase[s] # "down",
         NEW op \in {"remove", "fired", "missed", "create", "delete"},
         NEW ids \in SUBSET Tasks, NEW at \in Times
  PROVE  Job(s, op, ids, at) \in Jobs
  BY StepTypes, FileTypes DEF Job, Jobs

LEMMA HandleTypes ==
  ASSUME LockInv, CronTypeOK, NEW s \in Sessions, phase[s] # "down",
         NEW ids, Handle(s, ids)
  PROVE  handled' \in [Tasks -> 0..2] /\ handler' \in [Tasks -> Maybe]
  <1>1. Me(s) \in Maybe BY StepTypes DEF Maybe
  <1>2. \A t \in Tasks : handled[t] \in 0..2 /\ handler[t] \in Maybe
    BY DEF CronTypeOK
  <1>3. QED BY <1>1, <1>2 DEF Handle

LEMMA SettleTypes ==
  ASSUME CronTypeOK, NEW j \in jobs, Settle(j)
  PROVE  inFlight' \in [Sessions -> SUBSET Tasks]
  BY DEF CronTypeOK, Settle

LEMMA JobTyped ==
  ASSUME CronTypeOK, NEW j \in jobs, JobReads(j) \/ JobOpens(j) \/ JobWrites(j)
  PROVE  CronTypeOK'
  <1>1. j \in Jobs /\ file \in TaskFiles BY DEF CronTypeOK
  <1>2. [j EXCEPT !.step = "open", !.base = file] \in Jobs
        /\ [j EXCEPT !.step = "write"] \in Jobs
    BY <1>1 DEF Jobs
  <1>3. CASE JobReads(j)
    <2>1. jobs' \subseteq Jobs BY <1>2, <1>3 DEF JobReads, CronTypeOK
    <2>2. inFlight' \in [Sessions -> SUBSET Tasks]
      BY <1>3, SettleTypes DEF JobReads, CronTypeOK
    <2>3. flaws' \subseteq Flaws
      BY <1>3 DEF JobReads, Flaw, CronTypeOK, Flaws
    <2>4. QED BY <1>3, <2>1, <2>2, <2>3 DEF JobReads, CronTypeOK
  <1>4. CASE JobOpens(j)
    BY <1>2, <1>4, FileTypes DEF JobOpens, Flaw, CronTypeOK, Flaws
  <1>5. CASE JobWrites(j)
    <2>1. /\ file' \in TaskFiles /\ inFlight' \in [Sessions -> SUBSET Tasks]
      BY <1>1, <1>5, RewrittenTypes, SettleTypes DEF JobWrites
    <2>2. changed' \in [Sessions -> BOOLEAN] /\ blind' \in [Sessions -> BOOLEAN]
      BY <1>5 DEF JobWrites
    <2>3. kept' \subseteq Tasks BY <1>1, <1>5 DEF JobWrites, CronTypeOK, Jobs
    <2>4. flaws' \subseteq Flaws BY <1>5 DEF JobWrites, Flaw, CronTypeOK, Flaws
    <2>5. QED BY <1>5, <2>1, <2>2, <2>3, <2>4 DEF JobWrites, CronTypeOK
  <1>6. QED BY <1>3, <1>4, <1>5

LEMMA EditTyped ==
  ASSUME LockInv, CronTypeOK, NEW s \in Sessions, NEW t \in Tasks,
         Create(s, t) \/ Delete(s, t)
  PROVE  CronTypeOK'
  <1>1. Job(s, "create", {t}, now) \in Jobs /\ Job(s, "delete", {t}, 0) \in Jobs
    <2>1. phase[s] # "down" /\ now \in Times /\ 0 \in Times
      BY FileTypes DEF Create, Delete, CronTypeOK
    <2>2. QED BY <2>1, JobTypes
  <1>2. jobs' \subseteq Jobs /\ edits' \in Nat
    <2>1. jobs \subseteq Jobs /\ edits \in Nat BY DEF CronTypeOK
    <2>2. edits > 0 /\ edits' = edits - 1 BY DEF Create, Delete
    <2>3. CASE Create(s, t)
      <3>1. jobs' = jobs \cup {Job(s, "create", {t}, now)} BY <2>3 DEF Create
      <3>2. QED BY <1>1, <2>1, <2>2, <3>1
    <2>4. CASE Delete(s, t)
      <3>1. jobs' = jobs \cup {Job(s, "delete", {t}, 0)} BY <2>4 DEF Delete
      <3>2. QED BY <1>1, <2>1, <2>2, <3>1
    <2>5. QED BY <2>3, <2>4
  <1>3. QED BY <1>2 DEF Create, Delete, CronTypeOK

LEMMA LoadTyped ==
  ASSUME LockInv, CronTypeOK, NEW s \in Sessions, Loads(s) PROVE CronTypeOK'
  <1>1. CASE InitialLoad(s)
    <2>1. Missed(file) \in SUBSET Tasks BY FileTypes DEF Missed, CronTypeOK
    <2>2. phase[s] # "down" /\ 0 \in Times BY <1>1, FileTypes DEF InitialLoad, Runs
    <2>3. jobs' \subseteq Jobs
      BY <1>1, <2>1, <2>2, JobTypes DEF InitialLoad, CronTypeOK
    <2>4. handled' \in [Tasks -> 0..2] /\ handler' \in [Tasks -> Maybe]
      BY <1>1, <2>2, HandleTypes DEF InitialLoad
    <2>5. nextFireAt' \in [Sessions -> [Tasks -> Fires]]
      <3>1. [t \in Tasks |-> IF t \in Missed(file) THEN Never ELSE nextFireAt[s][t]]
              \in [Tasks -> Fires]
        BY DEF CronTypeOK, Fires
      <3>2. QED BY <1>1, <3>1 DEF InitialLoad, CronTypeOK
    <2>6. flaws' \subseteq Flaws
      BY <1>1 DEF InitialLoad, CronTypeOK, Flaws
    <2>7. QED BY <1>1, <2>3, <2>4, <2>5, <2>6 DEF InitialLoad, CronTypeOK
  <1>2. CASE WatcherReady(s) BY <1>2 DEF WatcherReady, CronTypeOK
  <1>3. CASE Reload(s) BY <1>3 DEF Reload, Flaw, CronTypeOK, Flaws
  <1>4. QED BY <1>1, <1>2, <1>3 DEF Loads

LEMMA AnchorTypes ==
  ASSUME CronTypeOK, NEW s \in Sessions, NEW t \in DOMAIN tasks[s]
  PROVE  Anchor(s, t) \in Fires /\ t \in Tasks
  <1>1. tasks[s] \in TaskFiles BY DEF CronTypeOK
  <1>2. t \in Tasks /\ tasks[s][t] \in Task BY <1>1, FileTypes
  <1>3. tasks[s][t].created + 1 \in Fires /\ tasks[s][t].fired + 1 \in Fires
    BY <1>2, FileTypes DEF Task, Times, Fires
  <1>4. nextFireAt[s][t] \in Fires BY <1>2 DEF CronTypeOK
  <1>5. QED BY <1>2, <1>3, <1>4 DEF Anchor

LEMMA CheckTyped ==
  ASSUME LockInv, CronTypeOK, NEW s \in Sessions, Check(s) PROVE CronTypeOK'
  <1> DEFINE due   == IF isOwner[s] THEN Due(s) ELSE {}
             seen  == IF isOwner[s] THEN DOMAIN tasks[s] ELSE {}
             paced == {t \in due : t \in Recurring /\ ~Aged(s, t)}
             fires == [t \in Tasks |->
                        IF t \notin seen \/ t \in due \ paced THEN Unset
                        ELSE IF t \in paced THEN now + 1
                        ELSE IF t \in inFlight[s] THEN nextFireAt[s][t]
                        ELSE Anchor(s, t)]
  <1>1. seen \subseteq DOMAIN tasks[s] /\ due \subseteq Tasks /\ paced \subseteq due
    <2>1. DOMAIN tasks[s] \subseteq Tasks BY FileTypes DEF CronTypeOK
    <2>2. QED BY <2>1 DEF Due
  <1>2. /\ phase[s] # "down" /\ now \in Times /\ now + 1 \in Fires /\ 0 \in Times
        /\ Unset \in Fires
    BY FileTypes DEF Check, Runs, CronTypeOK, Times, Fires
  <1>3. fires \in [Tasks -> Fires]
    <2>1. \A t \in Tasks : nextFireAt[s][t] \in Fires BY DEF CronTypeOK
    <2>2. \A t \in seen : Anchor(s, t) \in Fires BY <1>1, AnchorTypes
    <2>3. QED BY <1>2, <2>1, <2>2
  <1>4. /\ nextFireAt' = [nextFireAt EXCEPT ![s] = fires]
        /\ inFlight' = [inFlight EXCEPT ![s] = @ \cup due]
        /\ jobs' = jobs \cup {Job(s, "remove", {t}, 0) : t \in due \ paced}
             \cup (IF paced = {} THEN {} ELSE {Job(s, "fired", paced, now)})
        /\ Handle(s, due)
    BY DEF Check
  <1> HIDE DEF due, seen, paced, fires
  <1>5. \A t \in due \ paced : Job(s, "remove", {t}, 0) \in Jobs
    BY <1>1, <1>2, JobTypes
  <1>6. Job(s, "fired", paced, now) \in Jobs BY <1>1, <1>2, JobTypes
  <1>7. jobs' \subseteq Jobs BY <1>4, <1>5, <1>6 DEF CronTypeOK
  <1>8. handled' \in [Tasks -> 0..2] /\ handler' \in [Tasks -> Maybe]
    BY <1>2, <1>4, HandleTypes
  <1>9. /\ nextFireAt' \in [Sessions -> [Tasks -> Fires]]
        /\ inFlight' \in [Sessions -> SUBSET Tasks]
    BY <1>1, <1>3, <1>4 DEF CronTypeOK
  <1>10. flaws' \subseteq Flaws BY DEF Check, Flaw, CronTypeOK, Flaws
  <1>11. QED BY <1>7, <1>8, <1>9, <1>10 DEF Check, CronTypeOK

LEMMA TickTyped == CronTypeOK /\ Tick => CronTypeOK'
  <1>1. SUFFICES ASSUME CronTypeOK, Tick PROVE CronTypeOK'
    OBVIOUS
  <1>2. now' \in Times BY <1>1, FileTypes DEF Tick, CronTypeOK, Times
  <1>3. handled' \in [Tasks -> 0..2] BY <1>1 DEF Tick, CronTypeOK
  <1>4. QED BY <1>1, <1>2, <1>3 DEF Tick, CronTypeOK

LEMMA EndTyped ==
  ASSUME LockInv, CronTypeOK, NEW s \in Sessions, Ends(s) PROVE CronTypeOK'
  <1>1. [t \in Tasks |-> Unset] \in [Tasks -> Fires] BY DEF Fires
  <1>2. jobs' \subseteq Jobs /\ flaws' \subseteq Flaws
    BY DEF Ends, Leaves, Flaw, CronTypeOK, Flaws
  <1>3. QED BY <1>1, <1>2, FileTypes DEF Ends, Leaves, CronTypeOK

LEMMA StepCron == LockInv /\ CronTypeOK /\ [Next]_vars => CronTypeOK'
  <1>1. SUFFICES ASSUME LockInv, CronTypeOK, [Next]_vars PROVE CronTypeOK'
    OBVIOUS
  <1> USE <1>1
  <1>2. UNCHANGED cronVars => CronTypeOK' BY DEF cronVars, CronTypeOK
  <1>3. UNCHANGED vars => UNCHANGED cronVars BY DEF vars
  <1>4. ASSUME NEW s \in Sessions, TakesLock(s) PROVE CronTypeOK'
    BY <1>2, <1>4 DEF TakesLock
  <1>5. QED
    BY <1>2, <1>3, <1>4, JobTyped, EditTyped, LoadTyped, CheckTyped, TickTyped, EndTyped
       DEF Next, JobSteps

(* Every variable stays in its type.                                       *)
THEOREM TypeCorrect == Spec => []TypeOK
  <1>1. Init => LockInv /\ CronTypeOK BY InitLocked, InitCron
  <1>2. LockInv /\ CronTypeOK /\ [Next]_vars => (LockInv /\ CronTypeOK)'
    BY StepLocked, StepCron
  <1>3. LockInv /\ CronTypeOK => TypeOK BY TypeParts DEF LockInv
  <1>4. QED BY <1>1, <1>2, <1>3, PTL DEF Spec

-------------------------------------------------------------------------------
(* What the file holds *)

(* As long as no rewrites have overlapped and none was cut short, only one   *)
(* writes at a time, it has read the file as it was, and outside of it the   *)
(* file holds what it should.                                              *)
FileInv ==
  flaws \cap {"overlap", "killed"} = {} =>
    /\ \A i, j \in jobs : i.step = "write" /\ j.step = "write" => i = j
    /\ \A j \in jobs : j.step = "write" => DOMAIN j.base = kept
    /\ ~Torn => DOMAIN file = kept

LEMMA InitFile == Init => FileInv
  <1>1. SUFFICES ASSUME Init PROVE FileInv
    OBVIOUS
  <1>2. PICK c \in Cases : kept = c.scheduled /\ file = [t \in c.scheduled |-> New(0)]
    BY <1>1 DEF Init
  <1>3. QED BY <1>1, <1>2 DEF Init, FileInv

(* A step that leaves the file and those who write to it alone.            *)
LEMMA FileStays ==
  ASSUME FileInv, UNCHANGED <<file, kept>>, flaws \subseteq flaws',
         {j \in jobs' : j.step = "write"} = {j \in jobs : j.step = "write"}
  PROVE  FileInv'
  <1> DEFINE writing == {j \in jobs : j.step = "write"}
  <1>1. writing' = writing OBVIOUS
  <1>2. Torn <=> writing # {} BY DEF Torn
  <1>3. Torn' <=> writing' # {} BY DEF Torn
  <1>4. QED BY <1>1, <1>2, <1>3 DEF FileInv

LEMMA NewJobReads ==
  ASSUME NEW s, NEW op, NEW ids, NEW at PROVE Job(s, op, ids, at).step = "read"
  BY DEF Job

LEMMA JobsKeepFile ==
  ASSUME CronTypeOK, FileInv, NEW j \in jobs, JobReads(j) \/ JobOpens(j) \/ JobWrites(j)
  PROVE  FileInv'
  <1>1. j \in Jobs BY DEF CronTypeOK
  <1>2. CASE JobReads(j)
    <2>1. [j EXCEPT !.step = "open", !.base = file].step = "open" /\ j.step = "read"
      BY <1>1, <1>2 DEF JobReads, Jobs
    <2>2. {i \in jobs' : i.step = "write"} = {i \in jobs : i.step = "write"}
      BY <1>2, <2>1 DEF JobReads
    <2>3. QED BY <1>2, <2>2, FileStays DEF JobReads, Flaw
  <1>3. CASE JobOpens(j)
    <2> DEFINE opened == [j EXCEPT !.step = "write"]
    <2>1. SUFFICES ASSUME flaws' \cap {"overlap", "killed"} = {} PROVE FileInv'
      BY DEF FileInv
    <2>2. ~Torn /\ file = j.base /\ flaws' = flaws
      BY <1>3, <2>1 DEF JobOpens, Flaw
    <2>3. DOMAIN j.base = kept BY <2>1, <2>2 DEF FileInv
    <2>4. opened.step = "write" /\ opened.base = j.base BY <1>1 DEF Jobs
    <2>5. jobs' = (jobs \ {j}) \cup {opened} /\ kept' = kept BY <1>3 DEF JobOpens
    <2> HIDE DEF opened
    <2>6. \A i \in jobs' : i.step = "write" => i = opened
      BY <2>2, <2>5 DEF Torn
    <2>7. Torn' BY <2>4, <2>5 DEF Torn
    <2>8. QED BY <2>3, <2>4, <2>5, <2>6, <2>7 DEF FileInv
  <1>4. CASE JobWrites(j)
    <2>1. SUFFICES ASSUME flaws \cap {"overlap", "killed"} = {} PROVE FileInv'
      BY <1>4 DEF FileInv, JobWrites, Flaw
    <2>2. DOMAIN j.base = kept /\ \A i \in jobs : i.step = "write" => i = j
      BY <1>4, <2>1 DEF FileInv, JobWrites
    <2>3. jobs' = jobs \ {j} BY <1>4 DEF JobWrites
    <2>4. \A i \in jobs' : i.step # "write" BY <2>2, <2>3
    <2>5. kept' = CASE j.op = "create" -> kept \cup j.ids
                    [] j.op = "fired"  -> kept
                    [] OTHER           -> kept \ j.ids
      BY <1>4 DEF JobWrites
    <2>6. DOMAIN file' = kept'
      BY <1>1, <1>4, <2>2, <2>5, RewrittenTypes DEF JobWrites
    <2>7. QED BY <2>4, <2>6 DEF FileInv
  <1>5. QED BY <1>2, <1>3, <1>4

LEMMA StepFile == CronTypeOK /\ FileInv /\ [Next]_vars => FileInv'
  <1>1. SUFFICES ASSUME CronTypeOK, FileInv, [Next]_vars PROVE FileInv'
    OBVIOUS
  <1> USE <1>1
  <1>2. UNCHANGED cronVars => FileInv' BY FileStays DEF cronVars
  <1>3. UNCHANGED vars => UNCHANGED cronVars BY DEF vars
  <1>4. ASSUME NEW s \in Sessions, TakesLock(s) PROVE FileInv'
    BY <1>2, <1>4 DEF TakesLock
  <1>5. Tick => FileInv' BY FileStays DEF Tick
  <1>6. JobSteps => FileInv' BY JobsKeepFile DEF JobSteps
  <1>7. ASSUME NEW s \in Sessions, NEW t \in Tasks, Create(s, t) \/ Delete(s, t)
        PROVE  FileInv'
    <2>1. \A j \in jobs' : j.step = "write" <=> j \in jobs /\ j.step = "write"
      BY <1>7, NewJobReads DEF Create, Delete
    <2>2. jobs \subseteq jobs' BY <1>7 DEF Create, Delete
    <2>3. QED BY <1>7, <2>1, <2>2, FileStays DEF Create, Delete
  <1>8. ASSUME NEW s \in Sessions, InitialLoad(s) PROVE FileInv'
    <2>1. \A j \in jobs' : j.step = "write" => j \in jobs
      BY <1>8, NewJobReads DEF InitialLoad
    <2>2. jobs \subseteq jobs' BY <1>8 DEF InitialLoad
    <2>3. QED BY <1>8, <2>1, <2>2, FileStays DEF InitialLoad
  <1>9. ASSUME NEW s \in Sessions, WatcherReady(s) \/ Reload(s) PROVE FileInv'
    BY <1>9, FileStays DEF WatcherReady, Reload, Flaw
  <1>10. ASSUME NEW s \in Sessions, Check(s) PROVE FileInv'
    <2>1. \A j \in jobs' : j.step = "write" => j \in jobs
      BY <1>10, NewJobReads DEF Check
    <2>2. jobs \subseteq jobs' BY <1>10 DEF Check
    <2>3. QED BY <1>10, <2>1, <2>2, FileStays DEF Check, Flaw
  <1>11. ASSUME NEW s \in Sessions, Ends(s) PROVE FileInv'
    <2>1. CASE {j \in jobs : j.by = Me(s)} = {}
      BY <1>11, <2>1, FileStays DEF Ends, Leaves, Flaw
    <2>2. CASE {j \in jobs : j.by = Me(s)} # {}
      BY <1>11, <2>2 DEF Ends, Leaves, Flaw, FileInv
    <2>3. QED BY <2>1, <2>2
  <1>12. QED
    BY <1>2, <1>3, <1>4, <1>5, <1>6, <1>7, <1>8, <1>9, <1>10, <1>11
       DEF Next, Loads

(* Of the rewrites of the file that neither overlapped nor were cut short,   *)
(* none loses or brings back a task, for any number of tasks and sessions.   *)
THEOREM FileHoldsWhatItShould == Spec => []FileAccounted
  <1>1. Init => LockInv /\ CronTypeOK /\ FileInv
    BY InitLocked, InitCron, InitFile
  <1>2. LockInv /\ CronTypeOK /\ FileInv /\ [Next]_vars
          => (LockInv /\ CronTypeOK /\ FileInv)'
    BY StepLocked, StepCron, StepFile
  <1>3. FileInv => FileAccounted BY DEF FileInv, FileAccounted
  <1>4. QED BY <1>1, <1>2, <1>3, PTL DEF Spec

-------------------------------------------------------------------------------
(* The rewrites under way                                                   *)

(* The rewrites by which a process takes a task it has fired or surfaced out *)
(* of the file, or marks it, and those of them that keep it from firing.    *)
Handling == {"remove", "fired", "missed"}
Blocking == {"remove", "fired"}

(* A rewrite is of a process that runs, and has its tasks in inFlight if it  *)
(* blocks them.                                                            *)
RunningJob(j) ==
  /\ phase[j.by[1]] # "down" /\ j.by = Me(j.by[1])
  /\ j.op \in Handling => loaded[j.by[1]]
  /\ j.op \in Blocking => j.ids \subseteq inFlight[j.by[1]]
  /\ j.op = "fired" => j.ids \subseteq Recurring
  /\ j.op = "missed" => j.ids \cap Recurring = {}
  /\ j.at <= now

(* Only one rewrite of a process blocks a task.                            *)
BlocksAlone(j, k) ==
  j.by = k.by /\ j.op \in Blocking /\ k.op \in Blocking => j = k \/ j.ids \cap k.ids = {}

JobsInv ==
  /\ \A j \in jobs : RunningJob(j)
  /\ \A j, k \in jobs : BlocksAlone(j, k)

SameJob(i, j) == i.by = j.by /\ i.op = j.op /\ i.ids = j.ids /\ i.at = j.at

LEMMA JobMoves ==
  ASSUME CronTypeOK, NEW j \in jobs, JobReads(j) \/ JobOpens(j) \/ JobWrites(j)
  PROVE  /\ UNCHANGED <<lockVars, now, tasks, nextFireAt, loaded, handled, handler>>
         /\ flaws \subseteq flaws'
         /\ \/ /\ inFlight' = inFlight
               /\ \E moved \in Jobs :
                    SameJob(moved, j) /\ jobs' = (jobs \ {j}) \cup {moved}
            \/ jobs' = jobs \ {j} /\ Settle(j)
  <1>1. j \in Jobs /\ file \in TaskFiles BY DEF CronTypeOK
  <1>2. /\ [j EXCEPT !.step = "open", !.base = file] \in Jobs
        /\ [j EXCEPT !.step = "write"] \in Jobs
        /\ SameJob([j EXCEPT !.step = "open", !.base = file], j)
        /\ SameJob([j EXCEPT !.step = "write"], j)
    BY <1>1 DEF Jobs, SameJob
  <1>3. CASE JobReads(j) BY <1>2, <1>3 DEF JobReads, Flaw
  <1>4. CASE JobOpens(j) BY <1>2, <1>4 DEF JobOpens, Flaw
  <1>5. CASE JobWrites(j) BY <1>5 DEF JobWrites, Flaw
  <1>6. QED BY <1>3, <1>4, <1>5

LEMMA JobParts ==
  ASSUME CronTypeOK, NEW j \in jobs
  PROVE  /\ j \in Jobs /\ j.by \in Processes /\ j.by[1] \in Sessions
         /\ j.ids \subseteq Tasks /\ j.at \in Times /\ j.base \in TaskFiles
         /\ j.op \in {"remove", "fired", "missed", "create", "delete"}
  BY NoneIsNoProcess DEF CronTypeOK, Jobs

LEMMA JobStepJobs ==
  ASSUME CronTypeOK, JobsInv, JobSteps PROVE JobsInv'
  <1>1. PICK j \in jobs : JobReads(j) \/ JobOpens(j) \/ JobWrites(j)
    BY DEF JobSteps
  <1>2. UNCHANGED <<phase, pid, now, loaded>> BY <1>1, JobMoves DEF lockVars
  <1>3. \A i \in Jobs : \A k \in jobs :
          SameJob(i, k) /\ inFlight' = inFlight /\ RunningJob(k) => RunningJob(i)'
    BY <1>2 DEF SameJob, RunningJob, Me
  <1>4. CASE /\ inFlight' = inFlight
             /\ \E moved \in Jobs :
                  SameJob(moved, j) /\ jobs' = (jobs \ {j}) \cup {moved}
    <2>1. PICK moved \in Jobs : SameJob(moved, j) /\ jobs' = (jobs \ {j}) \cup {moved}
      BY <1>4
    <2>2. \A k \in jobs : k \in Jobs /\ SameJob(k, k) BY DEF CronTypeOK, SameJob
    <2>3. \A k \in jobs' : RunningJob(k)'
      BY <1>3, <1>4, <2>1, <2>2 DEF JobsInv
    <2>4. \A i, k \in jobs' : BlocksAlone(i, k)
      BY <2>1 DEF JobsInv, BlocksAlone, SameJob
    <2>5. QED BY <2>3, <2>4 DEF JobsInv, BlocksAlone
  <1>5. CASE jobs' = jobs \ {j} /\ Settle(j)
    <2>1. ASSUME NEW k \in jobs' PROVE RunningJob(k)'
      <3>1. k \in jobs /\ k # j /\ RunningJob(k) /\ RunningJob(j) /\ BlocksAlone(j, k)
        BY <1>5, <2>1 DEF JobsInv
      <3>2. k.op \in Blocking => k.ids \subseteq inFlight'[k.by[1]]
        <4>1. SUFFICES ASSUME k.op \in Blocking
                       PROVE  k.ids \subseteq inFlight'[k.by[1]]
          OBVIOUS
        <4>2. k.ids \subseteq inFlight[k.by[1]] BY <3>1, <4>1 DEF RunningJob
        <4>3. CASE j.op \in Blocking /\ j.by[1] = k.by[1]
          <5>1. j.by = k.by BY <3>1, <4>3 DEF RunningJob
          <5>2. j.ids \cap k.ids = {} BY <3>1, <4>1, <4>3, <5>1 DEF BlocksAlone
          <5>3. inFlight'[k.by[1]] = inFlight[k.by[1]] \ j.ids
            BY <1>5, <3>1, <4>3, JobParts DEF Settle, Blocking, CronTypeOK
          <5>4. QED BY <4>2, <5>2, <5>3
        <4>4. CASE j.op \notin Blocking \/ j.by[1] # k.by[1]
          BY <1>5, <3>1, <4>2, <4>4, JobParts DEF Settle, Blocking, CronTypeOK
        <4>5. QED BY <4>3, <4>4
      <3>3. QED BY <1>2, <3>1, <3>2 DEF RunningJob, Me
    <2>2. \A i, k \in jobs' : BlocksAlone(i, k) BY <1>5 DEF JobsInv
    <2>3. QED BY <2>1, <2>2 DEF JobsInv, BlocksAlone
  <1>6. QED BY <1>1, <1>4, <1>5, JobMoves

(* A rewrite begins.                                                       *)
LEMMA JobsBegin ==
  ASSUME CronTypeOK, LockInv, JobsInv, NEW s \in Sessions, phase[s] # "down",
         UNCHANGED <<lockVars, now>>, NEW new, jobs' = jobs \cup new,
         \A j \in new : RunningJob(j)' /\ j.by = Me(s),
         \A j \in new : j.op \in Blocking => j.ids \cap inFlight[s] = {},
         \A j, k \in new : BlocksAlone(j, k),
         \A r \in Sessions : /\ loaded[r] => loaded'[r]
                             /\ inFlight[r] \subseteq inFlight'[r]
  PROVE  JobsInv'
  <1>1. UNCHANGED <<phase, pid, now>> BY DEF lockVars
  <1>2. \A j \in jobs : RunningJob(j)'
    BY <1>1, JobParts DEF JobsInv, RunningJob, Me
  <1>3. \A j \in jobs, k \in new : BlocksAlone(j, k) /\ BlocksAlone(k, j)
    <2>1. SUFFICES ASSUME NEW j \in jobs, NEW k \in new, j.by = k.by,
                          j.op \in Blocking, k.op \in Blocking
                   PROVE  j.ids \cap k.ids = {}
      BY DEF BlocksAlone
    <2>2. j.by = Me(s) /\ Me(s)[1] = s BY <2>1, NoneIsNoProcess
    <2>3. j.ids \subseteq inFlight[s] BY <2>1, <2>2 DEF JobsInv, RunningJob
    <2>4. QED BY <2>1, <2>3
  <1>4. \A j, k \in jobs' : BlocksAlone(j, k) BY <1>3 DEF JobsInv
  <1>5. QED BY <1>2, <1>4 DEF JobsInv, BlocksAlone

(* What check() finds due and can see, and which rewrites it begins.       *)
DueNow(s) == IF isOwner[s] THEN Due(s) ELSE {}
SeenNow(s) == IF isOwner[s] THEN DOMAIN tasks[s] ELSE {}
PacedNow(s) == {t \in DueNow(s) : t \in Recurring /\ ~Aged(s, t)}
CheckJobs(s) ==
  {Job(s, "remove", {t}, 0) : t \in DueNow(s) \ PacedNow(s)}
    \cup (IF PacedNow(s) = {} THEN {} ELSE {Job(s, "fired", PacedNow(s), now)})

LEMMA CheckParts ==
  ASSUME CronTypeOK, NEW s \in Sessions, Check(s)
  PROVE  /\ phase[s] \notin {"down", "stopped"} /\ loaded[s]
         /\ DueNow(s) \subseteq SeenNow(s) \cap Tasks
         /\ DueNow(s) \cap inFlight[s] = {}
         /\ PacedNow(s) \subseteq DueNow(s) \cap Recurring
         /\ DueNow(s) # {} => isOwner[s]
         /\ \A t \in Tasks : nextFireAt'[s][t] =
              IF t \notin SeenNow(s) \/ t \in DueNow(s) \ PacedNow(s) THEN Unset
              ELSE IF t \in PacedNow(s) THEN now + 1
              ELSE IF t \in inFlight[s] THEN nextFireAt[s][t] ELSE Anchor(s, t)
         /\ \A r \in Sessions : r # s => nextFireAt'[r] = nextFireAt[r]
         /\ \A r \in Sessions : inFlight'[r] =
              IF r = s THEN inFlight[r] \cup DueNow(s) ELSE inFlight[r]
         /\ jobs' = jobs \cup CheckJobs(s)
         /\ Handle(s, DueNow(s))
         /\ flaws \subseteq flaws'
         /\ DueNow(s) # {} /\ flaws' = {} => Holds(s)
         /\ UNCHANGED <<lockVars, now, file, tasks, loaded>>
  <1> DEFINE fires == [t \in Tasks |->
               IF t \notin SeenNow(s) \/ t \in DueNow(s) \ PacedNow(s) THEN Unset
               ELSE IF t \in PacedNow(s) THEN now + 1
               ELSE IF t \in inFlight[s] THEN nextFireAt[s][t] ELSE Anchor(s, t)]
  <1>1. /\ nextFireAt' = [nextFireAt EXCEPT ![s] = fires]
        /\ inFlight' = [inFlight EXCEPT ![s] = @ \cup DueNow(s)]
        /\ jobs' = jobs \cup CheckJobs(s)
        /\ Handle(s, DueNow(s))
        /\ phase[s] \notin {"down", "stopped"} /\ loaded[s]
        /\ Flaw("unowned", DueNow(s) # {} /\ ~Holds(s))
        /\ UNCHANGED <<lockVars, now, file, tasks, loaded>>
    BY DEF Check, Runs, DueNow, SeenNow, PacedNow, CheckJobs
  <1>2. \A t \in Tasks : fires[t] =
              IF t \notin SeenNow(s) \/ t \in DueNow(s) \ PacedNow(s) THEN Unset
              ELSE IF t \in PacedNow(s) THEN now + 1
              ELSE IF t \in inFlight[s] THEN nextFireAt[s][t] ELSE Anchor(s, t)
    OBVIOUS
  <1> HIDE DEF fires
  <1>3. /\ nextFireAt'[s] = fires
        /\ \A r \in Sessions : r # s => nextFireAt'[r] = nextFireAt[r]
        /\ \A r \in Sessions : inFlight'[r] =
             IF r = s THEN inFlight[r] \cup DueNow(s) ELSE inFlight[r]
    BY <1>1 DEF CronTypeOK
  <1>4. DOMAIN tasks[s] \subseteq Tasks BY FileTypes DEF CronTypeOK
  <1>5. /\ DueNow(s) \subseteq SeenNow(s) \cap Tasks
        /\ DueNow(s) \cap inFlight[s] = {}
        /\ PacedNow(s) \subseteq DueNow(s) \cap Recurring
        /\ DueNow(s) # {} => isOwner[s]
    BY <1>4 DEF DueNow, SeenNow, PacedNow, Due
  <1>6. flaws \subseteq flaws' /\ (DueNow(s) # {} /\ flaws' = {} => Holds(s))
    BY <1>1 DEF Flaw
  <1>7. QED BY <1>1, <1>2, <1>3, <1>5, <1>6

LEMMA LoadParts ==
  ASSUME CronTypeOK, NEW s \in Sessions, InitialLoad(s)
  PROVE  /\ phase[s] \notin {"down", "stopped"} /\ ~loaded[s]
         /\ Missed(file) \subseteq DOMAIN file \cap Tasks
         /\ Missed(file) \cap Recurring = {}
         /\ \A t \in Tasks : nextFireAt'[s][t] =
              IF t \in Missed(file) THEN Never ELSE nextFireAt[s][t]
         /\ \A r \in Sessions : r # s => nextFireAt'[r] = nextFireAt[r]
         /\ \A r \in Sessions : tasks'[r] = IF r = s THEN file ELSE tasks[r]
         /\ \A r \in Sessions : loaded'[r] = IF r = s THEN TRUE ELSE loaded[r]
         /\ jobs' = jobs \cup (IF Missed(file) = {} THEN {}
                               ELSE {Job(s, "missed", Missed(file), 0)})
         /\ Handle(s, Missed(file))
         /\ flaws' = flaws
              \cup (IF Missed(file) # {} /\ ~Holds(s) THEN {"unowned"} ELSE {})
              \cup (IF Torn THEN {"torn"} ELSE {})
         /\ UNCHANGED <<lockVars, now, file, inFlight>>
  <1> DEFINE fires == [t \in Tasks |-> IF t \in Missed(file) THEN Never
                                       ELSE nextFireAt[s][t]]
  <1>1. /\ nextFireAt' = [nextFireAt EXCEPT ![s] = fires]
        /\ tasks' = [tasks EXCEPT ![s] = file] /\ loaded' = [loaded EXCEPT ![s] = TRUE]
        /\ phase[s] \notin {"down", "stopped"} /\ ~loaded[s]
        /\ jobs' = jobs \cup (IF Missed(file) = {} THEN {}
                              ELSE {Job(s, "missed", Missed(file), 0)})
        /\ Handle(s, Missed(file))
        /\ flaws' = flaws
             \cup (IF Missed(file) # {} /\ ~Holds(s) THEN {"unowned"} ELSE {})
             \cup (IF Torn THEN {"torn"} ELSE {})
        /\ UNCHANGED <<lockVars, now, file, inFlight>>
    BY DEF InitialLoad, Runs
  <1>2. \A t \in Tasks : fires[t] =
          IF t \in Missed(file) THEN Never ELSE nextFireAt[s][t]
    OBVIOUS
  <1> HIDE DEF fires
  <1>3. /\ nextFireAt'[s] = fires
        /\ \A r \in Sessions : r # s => nextFireAt'[r] = nextFireAt[r]
        /\ \A r \in Sessions : tasks'[r] = IF r = s THEN file ELSE tasks[r]
        /\ \A r \in Sessions : loaded'[r] = IF r = s THEN TRUE ELSE loaded[r]
    BY <1>1 DEF CronTypeOK
  <1>4. /\ Missed(file) \subseteq DOMAIN file \cap Tasks
        /\ Missed(file) \cap Recurring = {}
    BY FileTypes DEF CronTypeOK, Missed
  <1>5. QED BY <1>1, <1>2, <1>3, <1>4

LEMMA CheckJobsRun ==
  ASSUME CronTypeOK, LockInv, JobsInv, NEW s \in Sessions, Check(s) PROVE JobsInv'
  <1> DEFINE new == CheckJobs(s)
  <1>1. /\ phase[s] # "down" /\ loaded[s] /\ jobs' = jobs \cup new
        /\ DueNow(s) \cap inFlight[s] = {}
        /\ PacedNow(s) \subseteq DueNow(s) \cap Recurring
        /\ \A r \in Sessions : inFlight'[r] =
             IF r = s THEN inFlight[r] \cup DueNow(s) ELSE inFlight[r]
        /\ UNCHANGED <<lockVars, now, loaded>>
    BY CheckParts
  <1>2. 0 <= now /\ now <= now BY FileTypes DEF CronTypeOK
  <1>3. UNCHANGED <<phase, pid>> /\ Me(s)[1] = s BY <1>1, NoneIsNoProcess DEF lockVars
  <1>4. \A j \in new :
          /\ j.by = Me(s) /\ j.op \in Blocking /\ j.ids \subseteq DueNow(s)
          /\ j.op = "fired" => j.ids = PacedNow(s) /\ j.at = now
          /\ j.op = "remove" =>
               j.at = 0 /\ \E t \in DueNow(s) \ PacedNow(s) : j.ids = {t}
    BY <1>1 DEF Job, CheckJobs, Blocking
  <1>5. \A j, k \in new : BlocksAlone(j, k)
    <2>1. SUFFICES ASSUME NEW j \in new, NEW k \in new, j # k
                   PROVE  j.ids \cap k.ids = {}
      BY DEF BlocksAlone
    <2>2. CASE j.op = "fired" /\ k.op = "fired"
      <3>1. j = Job(s, "fired", PacedNow(s), now) /\ k = Job(s, "fired", PacedNow(s), now)
        BY <2>2 DEF Job, CheckJobs
      <3>2. QED BY <2>1, <3>1
    <2>3. CASE j.op = "remove" /\ k.op = "remove"
      <3>1. PICK t \in DueNow(s) : j = Job(s, "remove", {t}, 0)
        BY <2>3 DEF Job, CheckJobs
      <3>2. PICK u \in DueNow(s) : k = Job(s, "remove", {u}, 0)
        BY <2>3 DEF Job, CheckJobs
      <3>3. j.ids = {t} /\ k.ids = {u} /\ t # u BY <2>1, <3>1, <3>2 DEF Job
      <3>4. QED BY <3>3
    <2>4. CASE j.op # k.op
      BY <1>4, <2>4 DEF Blocking
    <2>5. QED BY <1>4, <2>2, <2>3, <2>4 DEF Blocking
  <1> HIDE DEF new
  <1>6. \A j \in new : RunningJob(j)' /\ j.by = Me(s)
    <2>1. SUFFICES ASSUME NEW j \in new PROVE RunningJob(j)'
      BY <1>4
    <2>2. j.by = Me(s) /\ j.by[1] = s /\ j.op \in Blocking BY <1>3, <1>4
    <2>3. phase'[s] # "down" /\ Me(s)' = Me(s) /\ loaded'[s] BY <1>1, <1>3 DEF Me
    <2>4. j.ids \subseteq inFlight'[s] BY <1>1, <1>4
    <2>5. j.op = "fired" => j.ids \subseteq Recurring BY <1>1, <1>4
    <2>6. j.at <= now' BY <1>1, <1>2, <1>4, <2>2 DEF Blocking
    <2>7. QED BY <2>2, <2>3, <2>4, <2>5, <2>6 DEF RunningJob, Blocking
  <1>7. \A j \in new : j.op \in Blocking => j.ids \cap inFlight[s] = {}
    BY <1>1, <1>4
  <1>8. \A r \in Sessions : /\ loaded[r] => loaded'[r]
                            /\ inFlight[r] \subseteq inFlight'[r]
    BY <1>1
  <1>9. QED BY <1>1, <1>5, <1>6, <1>7, <1>8, JobsBegin

LEMMA LoadJobsRun ==
  ASSUME CronTypeOK, LockInv, JobsInv, NEW s \in Sessions, InitialLoad(s) PROVE JobsInv'
  <1> DEFINE new == IF Missed(file) = {} THEN {} ELSE {Job(s, "missed", Missed(file), 0)}
  <1>1. /\ phase[s] # "down" /\ jobs' = jobs \cup new
        /\ Missed(file) \cap Recurring = {}
        /\ \A r \in Sessions : loaded'[r] = IF r = s THEN TRUE ELSE loaded[r]
        /\ UNCHANGED <<lockVars, now, inFlight>>
    BY LoadParts
  <1>2. 0 <= now BY FileTypes DEF CronTypeOK
  <1>3. UNCHANGED <<phase, pid>> /\ Me(s)[1] = s BY <1>1, NoneIsNoProcess DEF lockVars
  <1>4. \A j \in new : /\ j.by = Me(s) /\ j.op = "missed" /\ j.at = 0
                       /\ j.ids = Missed(file)
    BY DEF Job
  <1> HIDE DEF new
  <1>5. \A j \in new : RunningJob(j)' /\ j.by = Me(s)
    BY <1>1, <1>2, <1>3, <1>4 DEF RunningJob, Handling, Blocking, Me
  <1>6. \A j, k \in new : BlocksAlone(j, k) BY <1>4 DEF BlocksAlone, Blocking
  <1>7. \A j \in new : j.op \notin Blocking BY <1>4 DEF Blocking
  <1>8. \A r \in Sessions : /\ loaded[r] => loaded'[r]
                            /\ inFlight[r] \subseteq inFlight'[r]
    BY <1>1
  <1>9. QED BY <1>1, <1>5, <1>6, <1>7, <1>8, JobsBegin

LEMMA EditJobsRun ==
  ASSUME CronTypeOK, LockInv, JobsInv, NEW s \in Sessions, NEW t \in Tasks,
         Create(s, t) \/ Delete(s, t)
  PROVE  JobsInv'
  <1>1. PICK new :
          /\ jobs' = jobs \cup new
          /\ \/ new = {Job(s, "create", {t}, now)}
             \/ new = {Job(s, "delete", {t}, 0)}
    BY DEF Create, Delete
  <1>2. phase[s] # "down" /\ UNCHANGED <<lockVars, now, inFlight, loaded>>
    BY DEF Create, Delete
  <1>3. 0 <= now /\ now <= now BY FileTypes DEF CronTypeOK
  <1>4. UNCHANGED <<phase, pid>> /\ Me(s)[1] = s BY <1>2, NoneIsNoProcess DEF lockVars
  <1>5. \A j \in new : j.by = Me(s) /\ j.op \in {"create", "delete"} /\ j.at \in {0, now}
    BY <1>1 DEF Job
  <1>6. \A j \in new : RunningJob(j)' /\ j.by = Me(s)
    BY <1>2, <1>3, <1>4, <1>5 DEF RunningJob, Handling, Blocking, Me
  <1>7. \A j \in new : j.op \notin Blocking BY <1>5 DEF Blocking
  <1>8. \A j, k \in new : BlocksAlone(j, k) BY <1>7 DEF BlocksAlone
  <1>9. \A r \in Sessions : (loaded[r] => loaded'[r]) /\ inFlight[r] \subseteq inFlight'[r]
    BY <1>2
  <1>10. QED BY <1>1, <1>2, <1>6, <1>7, <1>8, <1>9, JobsBegin

(* A process that runs goes on running under its number, an owner is one     *)
(* until it stops, a session that has stopped stays so, and what is contested *)
(* stays contested.                                                         *)
(* A session that goes on, and has not yet released the lock on its way out. *)
Expects(s) == phase[s] # "stopped" /\ ~Released(s)

LEMMA LockMoves ==
  ASSUME LockInv, NEW s \in Sessions, TakesLock(s)
  PROVE  /\ \A r \in Sessions : phase[r] # "down" =>
              phase'[r] # "down" /\ pid'[r] = pid[r]
         /\ \A r \in Sessions : isOwner[r] /\ phase'[r] # "stopped" => isOwner'[r]
         /\ \A r \in Sessions : Expects(r)' => Expects(r)
         /\ contested => contested'
         /\ UNCHANGED cronVars
  <1> USE DEF LockInv, LockTypeOK, Expects, Released
  <1>1. CASE Start(s) BY <1>1 DEF TakesLock, Start, Goto
  <1>2. CASE Stop(s) BY <1>2 DEF TakesLock, Stop
  <1>3. CASE Probe(s) BY <1>3 DEF TakesLock, Probe, Goto
  <1>6. CASE Shutdown(s) BY <1>6 DEF TakesLock, Shutdown, Goto
  <1>4. CASE LockSteps(s)
    <2>1. CASE TryCreateExclusive(s)
      BY <1>4, <2>1 DEF TakesLock, TryCreateExclusive, Blocked, Goto
    <2>2. CASE BodyLands(s)
      BY <1>4, <2>2 DEF TakesLock, BodyLands, Acquired, Goto
    <2>3. CASE ReadLock(s)
      BY <1>4, <2>3 DEF TakesLock, ReadLock, Acquired, Blocked, Goto
    <2>4. CASE Rewrite(s) \/ UnlinkStale(s) \/ ReadOwnLock(s) \/ UnlinkOwn(s)
      BY <1>4, <2>4 DEF TakesLock, Rewrite, UnlinkStale, ReadOwnLock, UnlinkOwn, Goto
    <2>5. QED BY <1>4, <2>1, <2>2, <2>3, <2>4 DEF LockSteps
  <1>5. QED BY <1>1, <1>2, <1>3, <1>4, <1>6 DEF TakesLock

LEMMA EndJobsRun ==
  ASSUME CronTypeOK, LockInv, JobsInv, NEW s \in Sessions, Ends(s) PROVE JobsInv'
  <1>1. /\ jobs' = jobs \ {j \in jobs : j.by = Me(s)} /\ now' = now
        /\ loaded' = [loaded EXCEPT ![s] = FALSE]
        /\ inFlight' = [inFlight EXCEPT ![s] = {}]
        /\ Dies(s)
    BY DEF Ends, Leaves, Exit, Crash
  <1>2. ASSUME NEW j \in jobs' PROVE RunningJob(j)'
    <2>1. j \in jobs /\ j.by # Me(s) /\ RunningJob(j) BY <1>1, <1>2 DEF JobsInv
    <2>2. j.by[1] # s BY <2>1 DEF RunningJob
    <2>3. /\ phase'[j.by[1]] = phase[j.by[1]] /\ pid' = pid
          /\ loaded'[j.by[1]] = loaded[j.by[1]]
          /\ inFlight'[j.by[1]] = inFlight[j.by[1]]
      BY <1>1, <2>1, <2>2, JobParts DEF Dies, LockInv, LockTypeOK, CronTypeOK
    <2>4. QED BY <1>1, <2>1, <2>3 DEF RunningJob, Me
  <1>3. QED BY <1>1, <1>2 DEF JobsInv, BlocksAlone

LEMMA StepJobs ==
  LockInv /\ CronTypeOK /\ JobsInv /\ [Next]_vars => JobsInv'
  <1>1. SUFFICES ASSUME LockInv, CronTypeOK, JobsInv, [Next]_vars PROVE JobsInv'
    OBVIOUS
  <1>2. ASSUME UNCHANGED <<inFlight, jobs>>, now' \in {now, now + 1},
               \A r \in Sessions :
                 /\ phase[r] # "down" => phase'[r] # "down" /\ pid'[r] = pid[r]
                 /\ loaded[r] => loaded'[r]
        PROVE  JobsInv'
    <2>1. now \in Nat BY <1>1, FileTypes DEF CronTypeOK
    <2>2. ASSUME NEW j \in jobs PROVE RunningJob(j)'
      <3>1. j.at \in Nat /\ j.by[1] \in Sessions /\ RunningJob(j)
        BY <1>1, <2>2, JobParts, FileTypes DEF JobsInv
      <3>2. j.at <= now' BY <1>2, <2>1, <3>1 DEF RunningJob
      <3>3. QED BY <1>2, <3>1, <3>2 DEF RunningJob, Me
    <2>3. QED BY <1>1, <1>2, <2>2 DEF JobsInv, BlocksAlone
  <1>4. CASE UNCHANGED vars
    BY <1>2, <1>4 DEF vars, lockVars, cronVars
  <1>5. CASE Tick BY <1>2, <1>5 DEF Tick, lockVars
  <1>6. ASSUME NEW s \in Sessions, TakesLock(s) PROVE JobsInv'
    BY <1>1, <1>2, <1>6, LockMoves DEF cronVars
  <1>7. ASSUME NEW s \in Sessions, WatcherReady(s) \/ Reload(s) PROVE JobsInv'
    BY <1>2, <1>7 DEF WatcherReady, Reload, lockVars
  <1>8. QED
    BY <1>1, <1>4, <1>5, <1>6, <1>7, JobStepJobs, CheckJobsRun, LoadJobsRun,
       EditJobsRun, EndJobsRun
       DEF Next, Loads

(* A task that is being created is nowhere yet: nobody can have fired it, and *)
(* no other rewrite is about it or could bring it back.                      *)
Expected(t) == \E j \in jobs : j.op = "create" /\ t \in j.ids

UnbornInv ==
  \A t \in Tasks : Expected(t) =>
    /\ handled[t] = 0 /\ t \notin DOMAIN file
    /\ \A s \in Sessions : t \notin DOMAIN tasks[s]
    /\ \A j \in jobs : t \notin DOMAIN j.base
    /\ \A j, k \in jobs : t \in j.ids /\ t \in k.ids => j = k

LEMMA JobStepUnborn ==
  ASSUME CronTypeOK, UnbornInv, JobSteps PROVE UnbornInv'
  <1>1. PICK j \in jobs : JobReads(j) \/ JobOpens(j) \/ JobWrites(j)
    BY DEF JobSteps
  <1>2. /\ UNCHANGED <<tasks, handled>> /\ j \in Jobs
        /\ \/ \E moved \in Jobs :
                SameJob(moved, j) /\ jobs' = (jobs \ {j}) \cup {moved}
           \/ jobs' = jobs \ {j}
    BY <1>1, JobMoves DEF CronTypeOK
  <1>3. SUFFICES ASSUME NEW t \in Tasks, Expected(t)'
                 PROVE  /\ handled'[t] = 0 /\ t \notin DOMAIN file'
                        /\ \A s \in Sessions : t \notin DOMAIN tasks'[s]
                        /\ \A i \in jobs' : t \notin DOMAIN i.base
                        /\ \A i, k \in jobs' : t \in i.ids /\ t \in k.ids => i = k
    BY DEF UnbornInv
  <1>4. Expected(t) BY <1>2, <1>3 DEF Expected, SameJob
  <1>5. /\ handled'[t] = 0 /\ t \notin DOMAIN file
        /\ \A s \in Sessions : t \notin DOMAIN tasks'[s]
        /\ \A i \in jobs : t \notin DOMAIN i.base
        /\ \A i, k \in jobs : t \in i.ids /\ t \in k.ids => i = k
    BY <1>2, <1>4 DEF UnbornInv
  <1>6. \A i, k \in jobs' : t \in i.ids /\ t \in k.ids => i = k
    BY <1>2, <1>5 DEF SameJob
  <1>7. CASE JobReads(j)
    <2>1. file' = file /\ jobs' \subseteq jobs \cup {[j EXCEPT !.step = "open", !.base = file]}
      BY <1>7 DEF JobReads
    <2>2. [j EXCEPT !.step = "open", !.base = file].base = file BY <1>2 DEF Jobs
    <2>3. QED BY <1>5, <1>6, <2>1, <2>2
  <1>8. CASE JobOpens(j)
    <2>1. /\ file' = NoTasks /\ DOMAIN NoTasks = {}
          /\ jobs' \subseteq jobs \cup {[j EXCEPT !.step = "write"]}
      BY <1>8, FileTypes DEF JobOpens
    <2>2. [j EXCEPT !.step = "write"].base = j.base BY <1>2 DEF Jobs
    <2>3. QED BY <1>5, <1>6, <2>1, <2>2
  <1>9. CASE JobWrites(j)
    <2>1. file' = Rewritten(j) /\ jobs' = jobs \ {j} BY <1>9 DEF JobWrites
    <2>2. t \notin j.ids
      <3>1. PICK k \in jobs' : t \in k.ids BY <1>3 DEF Expected
      <3>2. QED BY <1>5, <2>1, <3>1
    <2>3. t \notin DOMAIN file'
      BY <1>2, <1>5, <2>1, <2>2, RewrittenTypes DEF Jobs
    <2>4. QED BY <1>5, <1>6, <2>1, <2>3
  <1>10. QED BY <1>1, <1>7, <1>8, <1>9

(* Rewrites begin of tasks that are in the file or in a copy of it.         *)
LEMMA UnbornStays ==
  ASSUME CronTypeOK, UnbornInv, file' = file, NEW known,
         \A j \in jobs' :
           j \in jobs \/ (j.op # "create" /\ DOMAIN j.base = {} /\ j.ids \subseteq known),
         \A t \in known : t \in DOMAIN file \/ \E s \in Sessions : t \in DOMAIN tasks[s],
         \A t \in Tasks \ known : handled'[t] \in {0, handled[t]},
         \A s \in Sessions : DOMAIN tasks'[s] \subseteq DOMAIN tasks[s] \cup DOMAIN file
  PROVE  UnbornInv'
  <1>1. SUFFICES ASSUME NEW t \in Tasks, Expected(t)'
                 PROVE  /\ handled'[t] = 0 /\ t \notin DOMAIN file'
                        /\ \A s \in Sessions : t \notin DOMAIN tasks'[s]
                        /\ \A i \in jobs' : t \notin DOMAIN i.base
                        /\ \A i, k \in jobs' : t \in i.ids /\ t \in k.ids => i = k
    BY DEF UnbornInv
  <1>2. Expected(t) BY <1>1 DEF Expected
  <1>3. /\ handled[t] = 0 /\ t \notin DOMAIN file
        /\ \A s \in Sessions : t \notin DOMAIN tasks[s]
        /\ \A i \in jobs : t \notin DOMAIN i.base
        /\ \A i, k \in jobs : t \in i.ids /\ t \in k.ids => i = k
    BY <1>2 DEF UnbornInv
  <1>4. t \notin known BY <1>3
  <1>5. \A i \in jobs' : i \in jobs \/ (DOMAIN i.base = {} /\ t \notin i.ids) BY <1>4
  <1>6. QED BY <1>3, <1>4, <1>5

LEMMA CreateUnborn ==
  ASSUME CronTypeOK, UnbornInv, NEW s \in Sessions, NEW t \in Tasks, Create(s, t)
  PROVE  UnbornInv'
  <1> DEFINE new == Job(s, "create", {t}, now)
  <1>1. /\ jobs' = jobs \cup {new} /\ UNCHANGED <<file, tasks, handled>> /\ Fresh(t)
    BY DEF Create
  <1>2. new.ids = {t} /\ DOMAIN new.base = {} BY FileTypes DEF Job
  <1> HIDE DEF new
  <1>3. SUFFICES ASSUME NEW u \in Tasks, Expected(u)'
                 PROVE  /\ handled[u] = 0 /\ u \notin DOMAIN file
                        /\ \A r \in Sessions : u \notin DOMAIN tasks[r]
                        /\ \A i \in jobs' : u \notin DOMAIN i.base
                        /\ \A i, k \in jobs' : u \in i.ids /\ u \in k.ids => i = k
    BY <1>1 DEF UnbornInv
  <1>4. CASE u = t BY <1>1, <1>2, <1>4 DEF Fresh
  <1>5. CASE u # t
    <2>1. Expected(u) BY <1>1, <1>2, <1>3, <1>5 DEF Expected
    <2>2. QED BY <1>1, <1>2, <1>5, <2>1 DEF UnbornInv
  <1>6. QED BY <1>4, <1>5

LEMMA StepUnborn == CronTypeOK /\ UnbornInv /\ [Next]_vars => UnbornInv'
  <1>1. SUFFICES ASSUME CronTypeOK, UnbornInv, [Next]_vars PROVE UnbornInv'
    OBVIOUS
  <1> USE <1>1
  <1>2. ASSUME UNCHANGED <<file, jobs>>,
               \A t \in Tasks : handled'[t] \in {0, handled[t]},
               \A s \in Sessions :
                 DOMAIN tasks'[s] \subseteq DOMAIN tasks[s] \cup DOMAIN file
        PROVE  UnbornInv'
    <2> DEFINE known == {}
    <2>1. file' = file /\ \A j \in jobs' : j \in jobs BY <1>2
    <2>2. /\ \A t \in known : t \in DOMAIN file \/ \E s \in Sessions : t \in DOMAIN tasks[s]
          /\ \A t \in Tasks \ known : handled'[t] \in {0, handled[t]}
      BY <1>2
    <2> HIDE DEF known
    <2>3. QED BY <1>2, <2>1, <2>2, UnbornStays
  <1>3. UNCHANGED cronVars => UnbornInv' BY <1>2 DEF cronVars
  <1>4. UNCHANGED vars => UNCHANGED cronVars BY DEF vars
  <1>5. \A s \in Sessions : TakesLock(s) => UNCHANGED cronVars BY DEF TakesLock
  <1>6. CASE Tick
    <2>1. UNCHANGED <<file, jobs, tasks>> BY <1>6 DEF Tick
    <2>2. \A t \in Tasks : handled'[t] \in {0, handled[t]} BY <1>6 DEF Tick
    <2>3. QED BY <1>2, <2>1, <2>2
  <1>7. ASSUME NEW s \in Sessions, WatcherReady(s) \/ Reload(s) PROVE UnbornInv'
    <2>1. UNCHANGED <<file, jobs, handled>> BY <1>7 DEF WatcherReady, Reload
    <2>2. \A r \in Sessions : tasks'[r] \in {tasks[r], file}
      BY <1>7 DEF WatcherReady, Reload, CronTypeOK
    <2>3. QED BY <1>2, <2>1, <2>2
  <1>8. ASSUME NEW s \in Sessions, Ends(s) PROVE UnbornInv'
    <2>1. file' = file /\ handled' = handled /\ jobs' \subseteq jobs BY <1>8 DEF Ends, Leaves
    <2>2. \A r \in Sessions : tasks'[r] \in {tasks[r], NoTasks}
      BY <1>8 DEF Ends, Leaves, CronTypeOK
    <2> DEFINE known == {}
    <2>3. /\ \A t \in known : t \in DOMAIN file \/ \E r \in Sessions : t \in DOMAIN tasks[r]
          /\ \A t \in Tasks \ known : handled'[t] \in {0, handled[t]}
      BY <2>1
    <2> HIDE DEF known
    <2>4. \A r \in Sessions : DOMAIN tasks'[r] \subseteq DOMAIN tasks[r] \cup DOMAIN file
      BY <2>2, FileTypes
    <2>5. QED BY <2>1, <2>3, <2>4, UnbornStays
  <1>9. ASSUME NEW s \in Sessions, NEW t \in Tasks, Delete(s, t) PROVE UnbornInv'
    <2> DEFINE new == {Job(s, "delete", {t}, 0)}
    <2>1. jobs' \subseteq jobs \cup new /\ t \in DOMAIN file
          /\ UNCHANGED <<file, tasks, handled>>
      BY <1>9 DEF Delete
    <2>2. \A j \in new : j.op # "create" /\ DOMAIN j.base = {} /\ j.ids \subseteq {t}
      BY FileTypes DEF Job
    <2> DEFINE known == {t}
    <2>3. \A j \in jobs' : \/ j \in jobs
                           \/ j.op # "create" /\ DOMAIN j.base = {} /\ j.ids \subseteq known
      BY <2>1, <2>2
    <2>4. /\ \A u \in known : u \in DOMAIN file \/ \E r \in Sessions : u \in DOMAIN tasks[r]
          /\ \A u \in Tasks \ known : handled'[u] \in {0, handled[u]}
          /\ \A r \in Sessions : DOMAIN tasks'[r] \subseteq DOMAIN tasks[r] \cup DOMAIN file
      BY <2>1
    <2> HIDE DEF new, known
    <2>5. QED BY <2>1, <2>3, <2>4, UnbornStays
  <1>10. ASSUME NEW s \in Sessions, InitialLoad(s) PROVE UnbornInv'
    <2> DEFINE new == IF Missed(file) = {} THEN {} ELSE {Job(s, "missed", Missed(file), 0)}
    <2>1. /\ jobs' \subseteq jobs \cup new /\ UNCHANGED file
          /\ Missed(file) \subseteq DOMAIN file \cap Tasks
          /\ \A r \in Sessions : tasks'[r] = IF r = s THEN file ELSE tasks[r]
          /\ Handle(s, Missed(file))
      BY <1>10, LoadParts
    <2>2. \A j \in new :
            j.op # "create" /\ DOMAIN j.base = {} /\ j.ids \subseteq Missed(file)
      BY FileTypes DEF Job
    <2> HIDE DEF new
    <2>3. \A t \in Tasks \ Missed(file) : handled'[t] = handled[t]
      BY <2>1 DEF Handle
    <2>4. QED BY <2>1, <2>2, <2>3, UnbornStays
  <1>11. ASSUME NEW s \in Sessions, Check(s) PROVE UnbornInv'
    <2> DEFINE new == CheckJobs(s)
    <2>1. /\ jobs' \subseteq jobs \cup new /\ UNCHANGED <<file, tasks>>
          /\ DueNow(s) \subseteq SeenNow(s) \cap Tasks
          /\ PacedNow(s) \subseteq DueNow(s)
          /\ Handle(s, DueNow(s))
      BY <1>11, CheckParts
    <2>2. \A j \in new :
            j.op # "create" /\ DOMAIN j.base = {} /\ j.ids \subseteq DueNow(s)
      BY <2>1, FileTypes DEF Job, CheckJobs
    <2> HIDE DEF new
    <2>3. \A t \in Tasks \ DueNow(s) : handled'[t] = handled[t]
      BY <2>1 DEF Handle
    <2>4. \A t \in DueNow(s) : t \in DOMAIN tasks[s]
      BY <2>1 DEF SeenNow
    <2>5. QED BY <2>1, <2>2, <2>3, <2>4, UnbornStays
  <1>12. QED
    BY <1>3, <1>4, <1>5, <1>6, <1>7, <1>8, <1>9, <1>10, <1>11, CreateUnborn, JobStepUnborn
       DEF Next, Loads

(* As long as nothing went wrong, only the owner of the lock expects tasks   *)
(* at a time; a session that has stopped or is on its way out keeps the      *)
(* times it had.                                                           *)
Clean == ~contested /\ flaws = {}

OwnersTimes ==
  Clean => \A s \in Sessions, t \in Tasks :
             nextFireAt[s][t] # Unset /\ Expects(s) => isOwner[s]

LEMMA InitOwners == Init => OwnersTimes
  BY DEF Init, OwnersTimes

(* What went wrong stays wrong.                                            *)
Stays == (contested => contested') /\ flaws \subseteq flaws'

LEMMA FlawsStay == LockInv /\ CronTypeOK /\ [Next]_vars => Stays
  <1>1. SUFFICES ASSUME LockInv, CronTypeOK, [Next]_vars PROVE Stays
    OBVIOUS
  <1>2. CASE UNCHANGED vars BY <1>2 DEF vars, lockVars, cronVars, Stays
  <1>3. CASE Tick BY <1>3 DEF Tick, lockVars, Stays
  <1>4. CASE JobSteps
    BY <1>4 DEF JobSteps, JobReads, JobOpens, JobWrites, Flaw, lockVars, Stays
  <1>5. ASSUME NEW s \in Sessions, TakesLock(s) PROVE Stays
    BY <1>1, <1>5, LockMoves DEF cronVars, Stays
  <1>6. ASSUME NEW s \in Sessions, Loads(s) \/ Check(s) PROVE Stays
    BY <1>6 DEF Loads, InitialLoad, WatcherReady, Reload, Check, Flaw, lockVars, Stays
  <1>7. ASSUME NEW s \in Sessions, Ends(s) PROVE Stays
    BY <1>7 DEF Ends, Leaves, Exit, Crash, Dies, Flaw, Stays
  <1>8. ASSUME NEW s \in Sessions, NEW t \in Tasks, Create(s, t) \/ Delete(s, t)
        PROVE  Stays
    BY <1>8 DEF Create, Delete, lockVars, Stays
  <1>9. QED
    BY <1>1, <1>2, <1>3, <1>4, <1>5, <1>6, <1>7, <1>8 DEF Next

LEMMA CleanBefore == LockInv /\ CronTypeOK /\ [Next]_vars /\ Clean' => Clean
  BY FlawsStay DEF Stays, Clean

LEMMA StepOwners == LockInv /\ CronTypeOK /\ OwnersTimes /\ [Next]_vars => OwnersTimes'
  <1>1. SUFFICES ASSUME LockInv, CronTypeOK, OwnersTimes, [Next]_vars, Clean',
                        NEW s \in Sessions, NEW t \in Tasks,
                        nextFireAt'[s][t] # Unset, Expects(s)'
                 PROVE  isOwner'[s]
    BY DEF OwnersTimes
  <1>2. nextFireAt[s][t] # Unset /\ Expects(s) => isOwner[s]
    BY <1>1, CleanBefore DEF OwnersTimes
  <1>3. UNCHANGED <<lockVars, nextFireAt>> => isOwner'[s]
    BY <1>1, <1>2 DEF lockVars, Expects, Released
  <1>4. CASE UNCHANGED vars BY <1>3, <1>4 DEF vars, cronVars
  <1>5. CASE Tick BY <1>3, <1>5 DEF Tick
  <1>6. CASE JobSteps BY <1>1, <1>3, <1>6, JobMoves DEF JobSteps
  <1>7. ASSUME NEW r \in Sessions, TakesLock(r) PROVE isOwner'[s]
    BY <1>1, <1>2, <1>7, LockMoves DEF cronVars, Expects
  <1>8. ASSUME NEW r \in Sessions, WatcherReady(r) \/ Reload(r) PROVE isOwner'[s]
    BY <1>3, <1>8 DEF WatcherReady, Reload
  <1>9. ASSUME NEW r \in Sessions, InitialLoad(r) PROVE isOwner'[s]
    <2>1. Missed(file) # {} => isOwner[r]
      BY <1>1, <1>9, LoadParts DEF Clean, Holds
    <2>2. (r = s /\ t \in Missed(file)) \/ nextFireAt'[s][t] = nextFireAt[s][t]
      BY <1>1, <1>9, LoadParts
    <2>3. UNCHANGED lockVars BY <1>9 DEF InitialLoad
    <2>4. QED BY <1>1, <1>2, <2>1, <2>2, <2>3 DEF lockVars, Expects, Released
  <1>10. ASSUME NEW r \in Sessions, Check(r) PROVE isOwner'[s]
    <2>1. UNCHANGED lockVars BY <1>10 DEF Check
    <2>2. CASE r = s
      <3>1. t \in SeenNow(s) BY <1>1, <1>10, <2>2, CheckParts
      <3>2. QED BY <2>1, <3>1 DEF SeenNow, lockVars
    <2>3. CASE r # s
      <3>1. nextFireAt'[s] = nextFireAt[s] BY <1>1, <1>10, <2>3, CheckParts
      <3>2. QED BY <1>1, <1>2, <2>1, <3>1 DEF lockVars, Expects, Released
    <2>4. QED BY <2>2, <2>3
  <1>11. ASSUME NEW r \in Sessions, Ends(r) PROVE isOwner'[s]
    <2>1. /\ nextFireAt' = [nextFireAt EXCEPT ![r] = [u \in Tasks |-> Unset]]
          /\ phase' = [phase EXCEPT ![r] = "down"]
          /\ isOwner' = [isOwner EXCEPT ![r] = FALSE]
          /\ step' = [step EXCEPT ![r] = "idle"]
      BY <1>11 DEF Ends, Leaves, Exit, Crash, Dies, Goto
    <2>2. r # s BY <1>1, <2>1 DEF CronTypeOK
    <2>3. /\ nextFireAt'[s] = nextFireAt[s] /\ phase'[s] = phase[s]
          /\ isOwner'[s] = isOwner[s] /\ step'[s] = step[s]
      BY <1>1, <2>1, <2>2 DEF CronTypeOK, LockInv, LockTypeOK
    <2>4. QED BY <1>1, <1>2, <2>3 DEF Expects, Released
  <1>12. ASSUME NEW r \in Sessions, NEW u \in Tasks, Create(r, u) \/ Delete(r, u)
         PROVE  isOwner'[s]
    BY <1>3, <1>12 DEF Create, Delete
  <1>13. QED
    BY <1>1, <1>4, <1>5, <1>6, <1>7, <1>8, <1>9, <1>10, <1>11, <1>12 DEF Next, Loads

(* A rewrite is under way by the process that handled the task: if it marks  *)
(* the task, with this minute, and if it removes a missed one, the process   *)
(* knows the task and expects it no more.                                  *)
Surfaced(t) ==
  nextFireAt[handler[t][1]][t] = Never /\ t \in DOMAIN tasks[handler[t][1]]
Carries(j, t) ==
  /\ j.by = handler[t] /\ t \in j.ids /\ j.op \in Handling
  /\ j.op = "fired" => j.at = now
  /\ j.op = "missed" => Surfaced(t)
UnderWay(t) == \E j \in jobs : Carries(j, t)

(* ... or it has ended: the file, and whoever writes to it, has the task no  *)
(* more, or as one that was fired in this minute.                          *)
DoneIn(t, content) == t \in DOMAIN content => t \in Recurring /\ content[t].fired = now
Done(t) == DoneIn(t, file) /\ \A j \in jobs : j.step = "write" => DoneIn(t, j.base)

(* No session that goes on expects a recurring task in this minute.         *)
Waits(t) ==
  t \in Recurring =>
    \A s \in Sessions : Expects(s) /\ nextFireAt[s][t] \in Nat => nextFireAt[s][t] > now

(* What holds of a task that was handled once, as long as nothing went wrong. *)
HandledOnce ==
  Clean => \A t \in Tasks : handled[t] = 1 => (UnderWay(t) \/ Done(t)) /\ Waits(t)

LEMMA InitHandled == Init => JobsInv /\ UnbornInv /\ HandledOnce
  BY DEF Init, JobsInv, UnbornInv, Expected, HandledOnce

LEMMA RewrittenDone ==
  ASSUME CronTypeOK, NEW j \in jobs, RunningJob(j), ~SetsBack(j),
         NEW t \in Tasks, j.op = "create" => t \notin j.ids,
         Carries(j, t) \/ DoneIn(t, j.base)
  PROVE  DoneIn(t, Rewritten(j))
  <1>1. j \in Jobs /\ j.at \in Nat /\ j.at <= now /\ now \in Nat
    BY JobParts, FileTypes DEF RunningJob, CronTypeOK
  <1>2. SUFFICES ASSUME t \in DOMAIN Rewritten(j)
                 PROVE  t \in Recurring /\ Rewritten(j)[t].fired = now
    BY DEF DoneIn
  <1>3. t \in DOMAIN j.base /\ j.base \in TaskFiles
    BY <1>1, <1>2, RewrittenTypes DEF Jobs
  <1>4. j.base[t] \in Task BY <1>3, FileTypes
  <1>5. CASE j.op = "fired"
    <2>1. Rewritten(j)[t] =
            IF t \in j.ids THEN [j.base[t] EXCEPT !.fired = j.at] ELSE j.base[t]
      BY <1>3, <1>5 DEF Rewritten
    <2>2. CASE t \in j.ids
      <3>1. Rewritten(j)[t].fired = j.at BY <1>4, <2>1, <2>2 DEF Task
      <3>2. CASE Carries(j, t) BY <1>5, <2>2, <3>1, <3>2 DEF Carries, RunningJob
      <3>3. CASE DoneIn(t, j.base)
        <4>1. t \in Recurring /\ j.base[t].fired = now BY <1>3, <3>3 DEF DoneIn
        <4>2. ~(j.base[t].fired > j.at) BY <1>3, <1>5, <2>2 DEF SetsBack
        <4>3. QED BY <1>1, <3>1, <4>1, <4>2
      <3>4. QED BY <3>2, <3>3
    <2>3. CASE t \notin j.ids
      BY <1>3, <2>1, <2>3 DEF Carries, DoneIn
    <2>4. QED BY <2>2, <2>3
  <1>6. CASE j.op = "create"
    <2>1. Rewritten(j)[t] = j.base[t] BY <1>2, <1>3, <1>6 DEF Rewritten
    <2>2. ~Carries(j, t) BY <1>6 DEF Carries
    <2>3. QED BY <1>3, <2>1, <2>2 DEF DoneIn
  <1>7. CASE j.op \in {"remove", "missed", "delete"}
    <2>1. t \notin j.ids BY <1>1, <1>2, <1>7, RewrittenTypes
    <2>2. Rewritten(j)[t] = j.base[t]
      BY <1>3, <1>7, <2>1 DEF Rewritten, Restrict
    <2>3. ~Carries(j, t) BY <2>1 DEF Carries
    <2>4. QED BY <1>3, <2>2, <2>3 DEF DoneIn
  <1>8. QED BY <1>1, <1>5, <1>6, <1>7 DEF Jobs

LEMMA JobStepHandled ==
  ASSUME CronTypeOK, FileInv, JobsInv, UnbornInv, NEW j \in jobs,
         JobReads(j) \/ JobOpens(j) \/ JobWrites(j), flaws' = {},
         NEW t \in Tasks, handled[t] = 1, UnderWay(t) \/ Done(t)
  PROVE  (UnderWay(t) \/ Done(t))'
  <1>1. /\ UNCHANGED <<now, tasks, nextFireAt, handler>> /\ flaws = {}
        /\ \/ \E moved \in Jobs :
                SameJob(moved, j) /\ jobs' = (jobs \ {j}) \cup {moved}
           \/ jobs' = jobs \ {j}
    BY JobMoves
  <1>2. Surfaced(t) => Surfaced(t)' BY <1>1 DEF Surfaced
  <1>3. ASSUME NEW k \in jobs, Carries(k, t), k # j PROVE UnderWay(t)'
    BY <1>1, <1>2, <1>3 DEF UnderWay, Carries
  <1>4. ASSUME NEW moved \in jobs', SameJob(moved, j), Carries(j, t) PROVE UnderWay(t)'
    BY <1>1, <1>2, <1>4 DEF UnderWay, Carries, SameJob
  <1>5. j \in Jobs /\ RunningJob(j) BY JobParts DEF JobsInv
  <1>6. DoneIn(t, NoTasks)' BY FileTypes DEF DoneIn
  <1>7. \A c : DoneIn(t, c) => DoneIn(t, c)' BY <1>1 DEF DoneIn
  <1>8. CASE JobReads(j)
    <2>1. file' = file /\ ~Torn BY <1>8 DEF JobReads, Flaw
    <2> DEFINE read == [j EXCEPT !.step = "open", !.base = file]
    <2>2. /\ read.step = "open" /\ SameJob(read, j) /\ read.base = file
          /\ jobs' = (jobs \ {j}) \cup {read} \/ (jobs' = jobs \ {j} /\ ~Settled(read))
      BY <1>5, <1>8 DEF JobReads, Jobs, SameJob
    <2> HIDE DEF read
    <2>3. \A k \in jobs' : k.step # "write" BY <2>1, <2>2 DEF Torn
    <2>4. DoneIn(t, file)' => Done(t)' BY <2>3 DEF Done
    <2>5. CASE Done(t) BY <1>7, <2>1, <2>4, <2>5 DEF Done
    <2>6. CASE Carries(j, t)
      <3>1. CASE jobs' = (jobs \ {j}) \cup {read} BY <1>4, <2>2, <2>6, <3>1
      <3>2. CASE ~Settled(read)
        <4>1. t \notin DOMAIN file
          BY <2>2, <2>6, <3>2 DEF Settled, SameJob, Carries
        <4>2. QED BY <2>1, <2>4, <4>1 DEF DoneIn
      <3>3. QED BY <2>2, <3>1, <3>2
    <2>7. QED BY <1>3, <2>5, <2>6 DEF UnderWay
  <1>9. CASE JobOpens(j)
    <2> DEFINE opened == [j EXCEPT !.step = "write"]
    <2>1. /\ file = j.base /\ ~Torn /\ file' = NoTasks
          /\ jobs' = (jobs \ {j}) \cup {opened}
      BY <1>9 DEF JobOpens, Flaw
    <2>2. opened.base = j.base /\ SameJob(opened, j) BY <1>5 DEF Jobs, SameJob
    <2> HIDE DEF opened
    <2>3. CASE Done(t)
      <3>1. DoneIn(t, j.base)' BY <1>7, <2>1, <2>3 DEF Done
      <3>2. \A k \in jobs' : k.step = "write" => k.base = j.base
        BY <2>1, <2>2 DEF Torn
      <3>3. QED BY <1>6, <2>1, <3>1, <3>2 DEF Done
    <2>4. CASE Carries(j, t) BY <1>4, <2>1, <2>2, <2>4
    <2>5. QED BY <1>3, <2>3, <2>4 DEF UnderWay
  <1>10. CASE JobWrites(j)
    <2>1. /\ file' = Rewritten(j) /\ jobs' = jobs \ {j} /\ j.step = "write"
          /\ ~SetsBack(j)
      BY <1>10 DEF JobWrites, Flaw
    <2>2. \A k \in jobs' : k.step # "write" BY <1>1, <2>1 DEF FileInv
    <2>3. DoneIn(t, file)' => Done(t)' BY <2>2 DEF Done
    <2>4. j.op = "create" => t \notin j.ids BY DEF UnbornInv, Expected
    <2>5. CASE Done(t) \/ Carries(j, t)
      <3>1. Carries(j, t) \/ DoneIn(t, j.base) BY <2>1, <2>5 DEF Done
      <3>2. DoneIn(t, Rewritten(j)) BY <1>5, <2>1, <2>4, <3>1, RewrittenDone
      <3>3. QED BY <1>7, <2>1, <2>3, <3>2
    <2>6. QED BY <1>3, <2>5 DEF UnderWay
  <1>11. QED BY <1>8, <1>9, <1>10

(* A step of a session that leaves the file and the rewrites alone, and what *)
(* the others know and expect.                                             *)
LEMMA HandlingStays ==
  ASSUME CronTypeOK, NEW t \in Tasks, UnderWay(t) \/ Done(t),
         UNCHANGED <<file, now>>, handler'[t] = handler[t], NEW new,
         jobs' = jobs \cup new, \A j \in new : j.step = "read",
         \A j \in jobs : j.by = handler[t] /\ t \in j.ids /\ j.op = "missed" /\ Surfaced(t)
                           => Surfaced(t)'
  PROVE  (UnderWay(t) \/ Done(t))'
  <1>1. CASE UnderWay(t)
    <2>1. PICK j \in jobs : Carries(j, t) BY <1>1 DEF UnderWay
    <2>2. Carries(j, t)' BY <2>1 DEF Carries
    <2>3. QED BY <2>2 DEF UnderWay
  <1>2. CASE Done(t) BY <1>2 DEF Done, DoneIn
  <1>3. QED BY <1>1, <1>2

(* A tick of check() on one task.                                          *)
LEMMA CheckHandled ==
  ASSUME LockInv, CronTypeOK, JobsInv, OwnersTimes, HandledOnce,
         NEW s \in Sessions, Check(s), Clean, flaws' = {},
         NEW t \in Tasks, handled'[t] = 1
  PROVE  (UnderWay(t) \/ Done(t))' /\ Waits(t)'
  <1>1. /\ phase[s] \notin {"down", "stopped"} /\ now \in Nat
        /\ UNCHANGED <<phase, step, now, file, tasks>>
        /\ jobs' = jobs \cup CheckJobs(s) /\ Handle(s, DueNow(s))
        /\ \A r \in Sessions : r # s => nextFireAt'[r] = nextFireAt[r]
        /\ nextFireAt'[s][t] =
             IF t \notin SeenNow(s) \/ t \in DueNow(s) \ PacedNow(s) THEN Unset
             ELSE IF t \in PacedNow(s) THEN now + 1
             ELSE IF t \in inFlight[s] THEN nextFireAt[s][t] ELSE Anchor(s, t)
    BY CheckParts, FileTypes DEF CronTypeOK, lockVars
  <1>2. Unset \notin Nat /\ Never \notin Nat /\ Never # Unset BY CronAssumption
  <1>3. CASE t \in DueNow(s)
    <2>1. Holds(s) /\ t \in SeenNow(s) BY <1>3, CheckParts
    <2>2. handler'[t] = Me(s) BY <1>1, <1>3 DEF Handle
    <2>3. PICK j \in CheckJobs(s) :
            /\ j.by = Me(s) /\ t \in j.ids /\ j.op \in Blocking
            /\ j.op = "fired" => j.at = now
      <3>1. CASE t \in PacedNow(s)
        <4>1. Job(s, "fired", PacedNow(s), now) \in CheckJobs(s)
          BY <3>1 DEF CheckJobs
        <4>2. QED BY <3>1, <4>1 DEF Job, Blocking
      <3>2. CASE t \notin PacedNow(s)
        <4>1. Job(s, "remove", {t}, 0) \in CheckJobs(s) BY <1>3, <3>2 DEF CheckJobs
        <4>2. QED BY <4>1 DEF Job, Blocking
      <3>3. QED BY <3>1, <3>2
    <2>4. Carries(j, t)' BY <1>1, <2>2, <2>3 DEF Carries, Handling, Blocking
    <2>5. UnderWay(t)' BY <1>1, <2>3, <2>4 DEF UnderWay
    <2>6. nextFireAt'[s][t] \in {Unset, now + 1} BY <1>1, <1>3, <2>1
    <2>7. ASSUME NEW r \in Sessions, r # s, Expects(r)
          PROVE  nextFireAt[r][t] = Unset
      <3>1. ~isOwner[r]
        BY <2>1, <2>7 DEF LockInv, HolderInv, Holder, Holds, Expects, Clean
      <3>2. QED BY <2>7, <3>1 DEF OwnersTimes
    <2>8. Waits(t)' BY <1>1, <1>2, <2>6, <2>7 DEF Waits, Expects, Released
    <2>9. QED BY <2>5, <2>8
  <1>4. CASE t \notin DueNow(s)
    <2>1. handled[t] = 1 /\ handler'[t] = handler[t] BY <1>1, <1>4 DEF Handle
    <2>2. (UnderWay(t) \/ Done(t)) /\ Waits(t) BY <2>1 DEF HandledOnce
    <2>3. ASSUME nextFireAt[s][t] # Unset PROVE isOwner[s]
      BY <1>1, <2>3 DEF OwnersTimes, Expects, Released, LockInv, ProcessInv
    <2>4. ASSUME handler[t][1] \in Sessions, Surfaced(t) PROVE Surfaced(t)'
      <3>1. CASE handler[t][1] # s BY <1>1, <2>1, <2>4, <3>1 DEF Surfaced
      <3>2. CASE handler[t][1] = s
        <4>1. nextFireAt[s][t] = Never /\ t \in DOMAIN tasks[s]
          BY <2>4, <3>2 DEF Surfaced
        <4>2. t \in SeenNow(s) BY <1>2, <2>3, <4>1 DEF SeenNow
        <4>3. Anchor(s, t) = Never BY <1>2, <4>1 DEF Anchor
        <4>4. t \notin PacedNow(s) BY <1>4, CheckParts
        <4>5. nextFireAt'[s][t] = Never BY <1>1, <1>4, <4>1, <4>2, <4>3, <4>4
        <4>6. QED BY <1>1, <2>1, <3>2, <4>1, <4>5 DEF Surfaced
      <3>3. QED BY <3>1, <3>2
    <2>5. (UnderWay(t) \/ Done(t))'
      <3> DEFINE new == CheckJobs(s)
      <3>1. jobs' = jobs \cup new BY <1>1
      <3>2. \A j \in new : j.step = "read" BY NewJobReads DEF CheckJobs
      <3> HIDE DEF new
      <3>3. \A j \in jobs : j.by = handler[t] => handler[t][1] \in Sessions BY JobParts
      <3>4. QED BY <1>1, <2>1, <2>2, <2>4, <3>1, <3>2, <3>3, HandlingStays
    <2>6. ASSUME t \in Recurring, Expects(s), nextFireAt'[s][t] \in Nat
          PROVE  nextFireAt'[s][t] > now
      <3>1. t \notin PacedNow(s) BY <1>4, CheckParts
      <3>2. t \in SeenNow(s) BY <1>1, <1>2, <2>6
      <3>3. CASE t \in inFlight[s]
        BY <1>1, <1>4, <2>2, <2>6, <3>1, <3>2, <3>3 DEF Waits
      <3>4. CASE t \notin inFlight[s]
        <4>1. nextFireAt'[s][t] = Anchor(s, t) BY <1>1, <1>4, <3>1, <3>2, <3>4
        <4>2. t \in DOMAIN tasks[s] /\ isOwner[s] BY <3>2 DEF SeenNow
        <4>3. Anchor(s, t) # Never => ~(Anchor(s, t) <= now)
          BY <1>4, <3>4, <4>2 DEF DueNow, Due
        <4>4. QED BY <1>1, <1>2, <2>6, <4>1, <4>3
      <3>5. QED BY <3>3, <3>4
    <2>7. Waits(t)' BY <1>1, <2>2, <2>6 DEF Waits, Expects, Released
    <2>8. QED BY <2>5, <2>7
  <1>5. QED BY <1>3, <1>4

(* load(true) on one task.                                                 *)
LEMMA LoadHandled ==
  ASSUME LockInv, CronTypeOK, JobsInv, HandledOnce,
         NEW s \in Sessions, InitialLoad(s), Clean, NEW t \in Tasks, handled'[t] = 1
  PROVE  (UnderWay(t) \/ Done(t))' /\ Waits(t)'
  <1> DEFINE new == IF Missed(file) = {} THEN {} ELSE {Job(s, "missed", Missed(file), 0)}
  <1>1. /\ ~loaded[s] /\ UNCHANGED <<phase, step, now, file>>
        /\ jobs' = jobs \cup new /\ Handle(s, Missed(file))
        /\ Missed(file) \subseteq DOMAIN file \cap Tasks
        /\ Missed(file) \cap Recurring = {}
        /\ \A r \in Sessions : r # s => nextFireAt'[r] = nextFireAt[r]
        /\ \A r \in Sessions : tasks'[r] = IF r = s THEN file ELSE tasks[r]
        /\ nextFireAt'[s][t] = IF t \in Missed(file) THEN Never ELSE nextFireAt[s][t]
    BY LoadParts DEF lockVars
  <1>2. \A j \in new : j.step = "read" BY NewJobReads
  <1>3. CASE t \in Missed(file)
    <2>1. handler'[t] = Me(s) /\ Me(s)[1] = s
      BY <1>1, <1>3, NoneIsNoProcess DEF Handle
    <2>2. PICK j \in jobs' : j.by = Me(s) /\ t \in j.ids /\ j.op = "missed"
      <3>1. Job(s, "missed", Missed(file), 0) \in jobs' BY <1>1, <1>3
      <3>2. QED BY <1>3, <3>1 DEF Job
    <2>3. Surfaced(t)' BY <1>1, <1>3, <2>1 DEF Surfaced
    <2>4. Carries(j, t)' BY <2>1, <2>2, <2>3 DEF Carries, Handling
    <2>5. UnderWay(t)' BY <2>2, <2>4 DEF UnderWay
    <2>6. QED BY <1>1, <1>3, <2>5 DEF Waits
  <1> HIDE DEF new
  <1>4. CASE t \notin Missed(file)
    <2>1. handled[t] = 1 /\ handler'[t] = handler[t] BY <1>1, <1>4 DEF Handle
    <2>2. (UnderWay(t) \/ Done(t)) /\ Waits(t) BY <2>1 DEF HandledOnce
    <2>3. ASSUME NEW j \in jobs, j.by = handler[t], t \in j.ids, j.op = "missed",
                 Surfaced(t)
          PROVE  Surfaced(t)'
      <3>1. loaded[j.by[1]] /\ j.by[1] \in Sessions
        BY <2>3, JobParts DEF JobsInv, RunningJob, Handling
      <3>2. handler[t][1] \in Sessions /\ handler[t][1] # s BY <1>1, <2>3, <3>1
      <3>3. QED BY <1>1, <2>1, <2>3, <3>2 DEF Surfaced
    <2>4. (UnderWay(t) \/ Done(t))'
      BY <1>1, <1>2, <2>1, <2>2, <2>3, HandlingStays
    <2>5. Waits(t)' BY <1>1, <1>4, <2>2 DEF Waits, Expects, Released
    <2>6. QED BY <2>4, <2>5
  <1>5. QED BY <1>3, <1>4

OnceInv ==
  LockInv /\ CronTypeOK /\ FileInv /\ JobsInv /\ UnbornInv /\ OwnersTimes /\ HandledOnce

LEMMA StepHandled == OnceInv /\ [Next]_vars => HandledOnce'
  <1>1. SUFFICES ASSUME OnceInv, [Next]_vars, Clean', NEW t \in Tasks, handled'[t] = 1
                 PROVE  (UnderWay(t) \/ Done(t))' /\ Waits(t)'
    BY DEF HandledOnce
  <1> USE <1>1 DEF OnceInv
  <1>2. Clean BY CleanBefore
  <1>3. handled[t] = 1 => (UnderWay(t) \/ Done(t)) /\ Waits(t)
    BY <1>2 DEF HandledOnce
  <1>4. ASSUME UNCHANGED cronVars,
               \A s \in Sessions : Expects(s)' => Expects(s)
        PROVE  (UnderWay(t) \/ Done(t))' /\ Waits(t)'
    <2>1. UNCHANGED <<now, file, tasks, nextFireAt, jobs, handled, handler>>
      BY <1>4 DEF cronVars
    <2>2. (UnderWay(t) => UnderWay(t)') /\ (Done(t) => Done(t)')
      BY <2>1 DEF UnderWay, Carries, Surfaced, Done, DoneIn
    <2>3. Waits(t) => Waits(t)' BY <1>4, <2>1 DEF Waits
    <2>4. QED BY <1>3, <2>1, <2>2, <2>3
  <1>5. CASE UNCHANGED vars BY <1>4, <1>5 DEF vars, lockVars, Expects, Released
  <1>6. ASSUME NEW s \in Sessions, TakesLock(s)
        PROVE  (UnderWay(t) \/ Done(t))' /\ Waits(t)'
    BY <1>4, <1>6, LockMoves
  <1>7. CASE Tick
    <2>1. /\ UNCHANGED <<file, tasks, nextFireAt, jobs, handler>>
          /\ t \notin Recurring /\ handled[t] = 1
      BY <1>7 DEF Tick
    <2>2. Waits(t)' BY <2>1 DEF Waits
    <2>3. CASE UnderWay(t)
      <3>1. PICK j \in jobs : Carries(j, t) BY <2>3 DEF UnderWay
      <3>2. j.op # "fired" BY <2>1, <3>1 DEF Carries, JobsInv, RunningJob
      <3>3. Carries(j, t)' BY <2>1, <3>1, <3>2 DEF Carries, Surfaced
      <3>4. QED BY <2>1, <2>2, <3>3 DEF UnderWay
    <2>4. CASE Done(t) BY <2>1, <2>2, <2>4 DEF Done, DoneIn
    <2>5. QED BY <1>3, <2>1, <2>3, <2>4
  <1>8. CASE JobSteps
    <2>1. PICK j \in jobs : JobReads(j) \/ JobOpens(j) \/ JobWrites(j)
      BY <1>8 DEF JobSteps
    <2>2. UNCHANGED <<lockVars, now, nextFireAt, handled>> BY <2>1, JobMoves
    <2>3. flaws' = {} BY DEF Clean
    <2>4. (UnderWay(t) \/ Done(t))' BY <1>3, <2>1, <2>2, <2>3, JobStepHandled
    <2>5. Waits(t)' BY <1>3, <2>2 DEF Waits, Expects, Released, lockVars
    <2>6. QED BY <2>4, <2>5
  <1>9. ASSUME NEW s \in Sessions, Loads(s)
        PROVE  (UnderWay(t) \/ Done(t))' /\ Waits(t)'
    <2>1. CASE InitialLoad(s) BY <1>2, <2>1, LoadHandled
    <2>2. CASE WatcherReady(s) \/ Reload(s)
      <3>1. /\ UNCHANGED <<lockVars, now, file, nextFireAt, jobs, handled, handler>>
            /\ \A r \in Sessions : tasks'[r] \in {tasks[r], file}
            /\ tasks' = tasks \/ ~Torn
        BY <2>2 DEF WatcherReady, Reload, Flaw, Clean, CronTypeOK
      <3>2. Waits(t)' BY <1>3, <3>1 DEF Waits, Expects, Released, lockVars
      <3>3. CASE Done(t) BY <3>1, <3>2, <3>3 DEF Done, DoneIn
      <3>4. CASE UnderWay(t)
        <4>1. PICK j \in jobs : Carries(j, t) BY <3>4 DEF UnderWay
        <4>2. CASE j.op = "missed" /\ t \notin DOMAIN tasks'[handler[t][1]]
          <5>1. handler[t][1] \in Sessions BY <4>1, JobParts DEF Carries
          <5>2. t \in DOMAIN tasks[handler[t][1]] BY <4>1, <4>2 DEF Carries, Surfaced
          <5>3. t \notin DOMAIN file /\ ~Torn BY <3>1, <4>2, <5>1, <5>2
          <5>4. Done(t)' BY <3>1, <5>3 DEF Done, DoneIn, Torn
          <5>5. QED BY <3>2, <5>4
        <4>3. CASE ~(j.op = "missed" /\ t \notin DOMAIN tasks'[handler[t][1]])
          <5>1. Carries(j, t)' BY <3>1, <4>1, <4>3 DEF Carries, Surfaced
          <5>2. QED BY <3>1, <3>2, <5>1 DEF UnderWay
        <4>4. QED BY <4>2, <4>3
      <3>5. QED BY <1>3, <3>1, <3>3, <3>4
    <2>3. QED BY <1>9, <2>1, <2>2 DEF Loads
  <1>10. ASSUME NEW s \in Sessions, Check(s)
         PROVE  (UnderWay(t) \/ Done(t))' /\ Waits(t)'
    BY <1>2, <1>10, CheckHandled DEF Clean
  <1>11. ASSUME NEW s \in Sessions, Ends(s)
         PROVE  (UnderWay(t) \/ Done(t))' /\ Waits(t)'
    <2>1. /\ {j \in jobs : j.by = Me(s)} = {}
          /\ jobs' = jobs /\ UNCHANGED <<now, file, handled, handler>>
          /\ tasks' = [tasks EXCEPT ![s] = NoTasks]
          /\ nextFireAt' = [nextFireAt EXCEPT ![s] = [u \in Tasks |-> Unset]]
          /\ phase' = [phase EXCEPT ![s] = "down"]
          /\ step' = [step EXCEPT ![s] = "idle"]
      BY <1>11 DEF Ends, Leaves, Exit, Crash, Dies, Goto, Flaw, Clean
    <2>2. \A r \in Sessions : /\ r # s => /\ phase'[r] = phase[r]
                                          /\ step'[r] = step[r]
                                          /\ nextFireAt'[r] = nextFireAt[r]
                                          /\ tasks'[r] = tasks[r]
                              /\ r = s => nextFireAt'[r][t] = Unset
      BY <2>1 DEF LockInv, LockTypeOK, CronTypeOK
    <2>3. Waits(t)'
      <3>1. Unset \notin Nat BY CronAssumption
      <3>2. QED BY <1>3, <2>1, <2>2, <3>1 DEF Waits, Expects, Released
    <2>4. CASE Done(t) BY <2>1, <2>3, <2>4 DEF Done, DoneIn
    <2>5. CASE UnderWay(t)
      <3>1. PICK j \in jobs : Carries(j, t) BY <2>5 DEF UnderWay
      <3>2. j.by # Me(s) /\ j.by[1] \in Sessions /\ RunningJob(j)
        BY <2>1, JobParts DEF JobsInv
      <3>3. handler[t][1] \in Sessions /\ handler[t][1] # s
        BY <3>1, <3>2 DEF Carries, RunningJob
      <3>4. Carries(j, t)' BY <2>1, <2>2, <3>1, <3>3 DEF Carries, Surfaced
      <3>5. QED BY <2>1, <2>3, <3>4 DEF UnderWay
    <2>6. QED BY <1>3, <2>1, <2>4, <2>5
  <1>12. ASSUME NEW s \in Sessions, NEW u \in Tasks, Create(s, u) \/ Delete(s, u)
         PROVE  (UnderWay(t) \/ Done(t))' /\ Waits(t)'
    <2> DEFINE new == jobs' \ jobs
    <2>1. jobs' = jobs \cup new /\ \A j \in new : j.step = "read"
      BY <1>12, NewJobReads DEF Create, Delete
    <2> HIDE DEF new
    <2>2. UNCHANGED <<lockVars, now, file, tasks, nextFireAt, handled, handler>>
      BY <1>12 DEF Create, Delete
    <2>3. Waits(t)' BY <1>3, <2>2 DEF Waits, Expects, Released, lockVars
    <2>4. Surfaced(t) => Surfaced(t)' BY <2>2 DEF Surfaced
    <2>5. QED BY <1>3, <2>1, <2>2, <2>3, <2>4, HandlingStays
  <1>13. QED BY <1>5, <1>6, <1>7, <1>8, <1>9, <1>10, <1>11, <1>12 DEF Next

LEMMA StepOnce == OnceInv /\ [Next]_vars => OnceInv'
  BY StepLocked, StepCron, StepFile, StepJobs, StepUnborn, StepOwners, StepHandled
     DEF OnceInv

(* A second handling in the same minute is one of those that are excused.   *)
LEMMA StepExcused ==
  ASSUME OnceInv, [Next]_vars, NEW t \in Tasks, handled[t] = 1, handled'[t] = 2
  PROVE  flaws' # {} \/ Excused(t, handler'[t], tasks'[handler'[t][1]])
  <1> USE DEF OnceInv
  <1> DEFINE p == handler'[t]
             copy == tasks'[handler'[t][1]]
  <1>1. SUFFICES ASSUME flaws' = {}, Clean, t \in DOMAIN file, t \in DOMAIN copy,
                        file[t] = copy[t], \A j \in jobs : t \in j.ids => j.by = p
                 PROVE  FALSE
    BY FlawsStay DEF Excused, Clean, Stays
  <1>2. UnderWay(t) \/ (t \in Recurring /\ file[t].fired = now)
    BY <1>1 DEF HandledOnce, Done, DoneIn
  <1>3. ASSUME NEW s \in Sessions, Check(s) PROVE FALSE
    <2>1. Handle(s, DueNow(s)) /\ tasks' = tasks /\ phase[s] # "stopped"
          /\ (DueNow(s) # {} => Holds(s))
          /\ DueNow(s) \cap inFlight[s] = {}
      BY <1>1, <1>3, CheckParts
    <2>2. t \in DueNow(s) /\ p = Me(s) /\ Me(s)[1] = s
      BY <2>1, NoneIsNoProcess DEF Handle
    <2>3. copy = tasks[s] BY <2>1, <2>2
    <2> HIDE DEF p, copy
    <2>4. t \in Due(s) BY <2>2 DEF DueNow
    <2>5. Anchor(s, t) # Never /\ Anchor(s, t) <= now BY <2>4 DEF Due
    <2>6. CASE UnderWay(t)
      <3>1. PICK j \in jobs : Carries(j, t) BY <2>6 DEF UnderWay
      <3>2. j.by = Me(s) /\ RunningJob(j) BY <1>1, <2>2, <3>1 DEF Carries, JobsInv
      <3>3. CASE j.op \in Blocking
        BY <2>1, <2>2, <3>1, <3>2, <3>3 DEF Carries, RunningJob
      <3>4. CASE j.op = "missed"
        <4>1. nextFireAt[s][t] = Never BY <2>2, <3>1, <3>2, <3>4 DEF Carries, Surfaced
        <4>2. Anchor(s, t) = Never BY <4>1, CronAssumption DEF Anchor
        <4>3. QED BY <2>5, <4>2
      <3>5. QED BY <3>1, <3>3, <3>4 DEF Carries, Handling, Blocking
    <2>7. CASE t \in Recurring /\ file[t].fired = now
      <3>1. now \in Nat /\ tasks[s][t].fired = now
        BY <1>1, <2>3, <2>7, FileTypes DEF CronTypeOK
      <3>2. CASE nextFireAt[s][t] = Unset BY <2>5, <2>7, <3>1, <3>2 DEF Anchor
      <3>3. CASE nextFireAt[s][t] # Unset
        <4>1. Anchor(s, t) = nextFireAt[s][t] BY <3>3 DEF Anchor
        <4>2. nextFireAt[s][t] \in Nat
          <5>1. nextFireAt[s][t] \in Fires BY DEF CronTypeOK
          <5>2. QED BY <2>5, <3>3, <4>1, <5>1 DEF Fires
        <4>3. nextFireAt[s][t] > now
          <5>1. Expects(s) BY <2>1, <2>2 DEF Expects, Holds
          <5>2. QED BY <1>1, <2>7, <4>2, <5>1 DEF HandledOnce, Waits
        <4>4. QED BY <2>5, <3>1, <4>1, <4>2, <4>3
      <3>4. QED BY <3>2, <3>3
    <2>8. QED BY <1>2, <2>6, <2>7
  <1>4. ASSUME NEW s \in Sessions, InitialLoad(s) PROVE FALSE
    <2>1. Handle(s, Missed(file)) /\ Missed(file) \cap Recurring = {} /\ ~loaded[s]
      BY <1>4, LoadParts
    <2>2. t \in Missed(file) /\ p = Me(s) /\ Me(s)[1] = s
      BY <2>1, NoneIsNoProcess DEF Handle
    <2> HIDE DEF p, copy
    <2>3. PICK j \in jobs : Carries(j, t) BY <1>2, <2>1, <2>2 DEF UnderWay
    <2>4. j.by = Me(s) /\ RunningJob(j) BY <1>1, <2>2, <2>3 DEF Carries, JobsInv
    <2>5. QED BY <2>1, <2>2, <2>3, <2>4 DEF Carries, RunningJob
  <1>5. handled' # handled BY DEF CronTypeOK
  <1>6. CASE Tick BY <1>6 DEF Tick, CronTypeOK
  <1>7. JobSteps => handled' = handled BY JobMoves DEF JobSteps
  <1>8. UNCHANGED vars => handled' = handled BY DEF vars, cronVars
  <1>9. ASSUME NEW s \in Sessions,
               TakesLock(s) \/ Ends(s) \/ WatcherReady(s) \/ Reload(s)
        PROVE  handled' = handled
    BY <1>9 DEF TakesLock, Ends, Leaves, WatcherReady, Reload, cronVars
  <1>10. ASSUME NEW s \in Sessions, NEW u \in Tasks, Create(s, u) \/ Delete(s, u)
         PROVE  handled' = handled
    BY <1>10 DEF Create, Delete
  <1>11. QED
    BY <1>3, <1>4, <1>5, <1>6, <1>7, <1>8, <1>9, <1>10 DEF Next, Loads

(* A one-shot is fired or surfaced once, and a recurring task once a minute,  *)
(* by any number of sessions, whatever their ids, and across their stops,     *)
(* shutdowns and restarts, but for the exceptions that AtMostOnce lists: in   *)
(* particular an owner that fires while its process shuts down, after it has  *)
(* released the lock, is a flaw from which nothing follows.                   *)
THEOREM HandledAtMostOnce == Spec => AtMostOnce
  <1>1. Init => OnceInv
    BY InitLocked, InitCron, InitFile, InitHandled, InitOwners DEF OnceInv
  <1>2. OnceInv /\ [Next]_vars =>
          [\A t \in Tasks :
             handled[t] = 1 /\ handled'[t] = 2 =>
               flaws' # {} \/ Excused(t, handler'[t], tasks'[handler'[t][1]])]_vars
    BY StepExcused
  <1>3. QED BY <1>1, <1>2, StepOnce, PTL DEF Spec, AtMostOnce
===============================================================================
