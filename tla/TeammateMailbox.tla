---------------------------- MODULE TeammateMailbox ----------------------------
(***************************************************************************)
(* One teammate's inbox: a JSON file that other agents append messages to  *)
(* under a lock (utils/teammateMailbox.ts) and that its owner reads without *)
(* one and then marks as read under the lock.  Who reads depends on the    *)
(* owner: the loop of an in-process teammate (utils/swarm/                 *)
(* inProcessRunner.ts), overlapping polls of hooks/useInboxPoller.ts and   *)
(* the attachments of a turn (utils/attachments.ts), or the loop of        *)
(* cli/print.ts.                                                           *)
(*                                                                         *)
(* taken, exposed, gaveUp and damaged are not in the code: how often a     *)
(* message was handed to the owner, the messages written between somebody's *)
(* read and the marking that follows it, whether a marking ran out of       *)
(* retries, and whether content was lost by a crash or by the file's       *)
(* creation.                                                               *)
(***************************************************************************)
EXTENDS Integers, Sequences, FiniteSets, Functions

CONSTANTS
  Messages,        \* each is written once, by a call of writeToMailbox
  Kind,            \* of a message: "peer", "lead", "shutdown" or "permission"
  Consumers,
  Role,            \* of a consumer: "runner", "poller", "attachments", "print"
  Owners,          \* the sets of consumers that read one inbox
  Nobody,
  MaxCrashes

ASSUME MailboxAssumption ==
  /\ Kind \in [Messages -> {"peer", "lead", "shutdown", "permission"}]
  /\ Role \in [Consumers -> {"runner", "poller", "attachments", "print"}]
  /\ Owners \subseteq SUBSET Consumers
  /\ \A o \in Owners : \A c, d \in o :  \* an in-process teammate has one loop
       Role[c] = "runner" /\ Role[d] = "runner" => c = d
  /\ Messages \cap Consumers = {} /\ Nobody \notin Messages \cup Consumers
  /\ MaxCrashes \in Nat

\* The call that writes m is a process called m.
Processes == Messages \cup Consumers

VARIABLES
  file,       \* "absent", "torn" (unreadable) or "whole"
  inbox,      \* the messages of the last whole content ...
  marked,     \* ... and which of them are marked as read
  lock,       \* the process that holds the lock of the file, or Nobody
  pc,
  content,    \* what a process that holds the lock is about to write
  picked,     \* the messages a consumer has read and is taking
  index,      \* the index a runner marks
  owners,     \* the consumers of this inbox
  aborted,    \* the runners whose abortController is aborted: by killing the
              \* teammate, by its approval of a shutdown, by a turn that throws
  crashes,
  taken, exposed, gaveUp, damaged

fileVars == <<file, inbox, marked>>
ghostVars == <<taken, exposed, gaveUp, damaged>>
vars == <<fileVars, lock, pc, content, picked, index, owners, aborted,
          crashes, ghostVars>>

Empty == [inbox |-> <<>>, marked |-> {}]
Contents == [inbox : Seq(Messages), marked : SUBSET Messages]
Points == {"idle", "creating", "locking", "writing", "unlocking",
           "turn", "ended", "done", "dead"}

TypeOK ==
  /\ file \in {"absent", "torn", "whole"}
  /\ inbox \in Seq(Messages) /\ marked \subseteq Messages
  /\ lock \in Processes \cup {Nobody}
  /\ pc \in [Processes -> Points]
  /\ content \in [Processes -> Contents]
  /\ picked \in [Consumers -> SUBSET Messages]
  /\ index \in [Consumers -> Nat]
  /\ owners \in Owners /\ aborted \subseteq Consumers
  /\ crashes \in 0..MaxCrashes
  /\ taken \in [Messages -> 0..2]
  /\ exposed \subseteq Messages /\ gaveUp \in BOOLEAN /\ damaged \in BOOLEAN

\* An in-process teammate starts with the turn of its first prompt.
Init ==
  /\ file \in {"absent", "whole"} /\ inbox = <<>> /\ marked = {}
  /\ lock = Nobody
  /\ owners \in Owners /\ aborted = {}
  /\ pc = [p \in Processes |->
             IF p \in owners /\ Role[p] = "runner" THEN "turn" ELSE "idle"]
  /\ content = [p \in Processes |-> Empty]
  /\ picked = [c \in Consumers |-> {}]
  /\ index = [c \in Consumers |-> 0]
  /\ crashes = 0
  /\ taken = [m \in Messages |-> 0]
  /\ exposed = {} /\ gaveUp = FALSE /\ damaged = FALSE

-------------------------------------------------------------------------------
Goto(p, point) == pc' = [pc EXCEPT ![p] = point]

\* readMailbox(): no file and an unreadable file both read as no messages.
ReadMailbox ==
  IF file = "whole" THEN [inbox |-> inbox, marked |-> marked] ELSE Empty

Structured(m) == Kind[m] \in {"shutdown", "permission"}
Whole(c) == Role[c] \in {"poller", "print", "attachments"}

(* Writing *)

\* writeFile(..., '[]', {flag: 'wx'}): the file is created empty, which does
\* not parse, and gets its two bytes in a later step.
CreateFile(m) ==
  /\ pc[m] = "idle"
  /\ IF file = "absent"
     THEN file' = "torn" /\ Goto(m, "creating")
     ELSE UNCHANGED file /\ Goto(m, "locking")
  /\ UNCHANGED <<inbox, marked, lock, content, picked, index, owners, aborted,
                 crashes, ghostVars>>

\* If others have written meanwhile, the two bytes land on what they wrote.
WriteEmptyArray(m) ==
  /\ pc[m] = "creating"
  /\ file' = IF inbox = <<>> THEN "whole" ELSE "torn"
  /\ damaged' = (damaged \/ (file = "whole" /\ inbox # <<>>))
  /\ Goto(m, "locking")
  /\ UNCHANGED <<inbox, marked, lock, content, picked, index, owners, aborted,
                 crashes, taken, exposed, gaveUp>>

\* A mutant of MarkIndex: the index is off by one.
MarkNextIndex(i, old) ==
  IF i + 1 \in DOMAIN old.inbox
  THEN [old EXCEPT !.marked = @ \cup {old.inbox[i + 1]}] ELSE old

\* A runner's marking changes nothing if the index is out of bounds or read.
MarkIndex(i, old) ==
  IF i \in DOMAIN old.inbox
  THEN [old EXCEPT !.marked = @ \cup {old.inbox[i]}] ELSE old

\* A mutant of NewContent: the message's index is looked up in the unread ones.
NewContentUnreadIndex(p, old) ==
  IF p \in Messages
  THEN [old EXCEPT !.inbox = Append(@, p)]
  ELSE [old EXCEPT !.marked = @ \cup
          {old.inbox[i] : i \in {j \in DOMAIN old.inbox :
             Cardinality({k \in 1..j : old.inbox[k] \notin old.marked}) = index[p]}}]

\* The new content each process makes of what it reads under the lock: the
\* message appended, or marks set by index, on all messages, or on all that
\* are not structured protocol messages.
NewContent(p, old) ==
  IF p \in Messages
  THEN [old EXCEPT !.inbox = Append(@, p)]
  ELSE CASE Role[p] = "runner" -> MarkIndex(index[p], old)
         [] Role[p] \in {"poller", "print"} ->
              [old EXCEPT !.marked = Range(old.inbox)]
         [] Role[p] = "attachments" ->
              [old EXCEPT !.marked =
                 @ \cup {m \in Range(old.inbox) : ~Structured(m)}]

\* A mutant of LockAndRead: the lock is not waited for.
ReadWithoutLock(p) ==
  /\ pc[p] = "locking"
  /\ LET old == ReadMailbox IN
       /\ Goto(p, "writing") /\ file' = "torn"
       /\ content' = [content EXCEPT ![p] = NewContent(p, old)]
       /\ damaged' = (damaged \/ old.inbox # inbox)
  /\ UNCHANGED <<inbox, marked, lock, picked, index, owners, aborted, crashes,
                 taken, exposed, gaveUp>>

\* The lock is taken, the inbox read again, and either there is nothing to
\* change or the file is truncated for the new content.
LockAndRead(p) ==
  /\ pc[p] = "locking" /\ lock = Nobody
  /\ lock' = p
  /\ LET old == ReadMailbox
         new == NewContent(p, old)
         nothing == p \in Consumers /\ \/ old.inbox = <<>>
                                       \/ Role[p] = "runner" /\ new = old
     IN IF nothing
        THEN Goto(p, "unlocking") /\ UNCHANGED <<file, content, damaged>>
        ELSE /\ Goto(p, "writing")
             /\ file' = "torn"
             /\ content' = [content EXCEPT ![p] = new]
             /\ damaged' = (damaged \/ old.inbox # inbox)
  /\ UNCHANGED <<inbox, marked, picked, index, owners, aborted, crashes,
                 taken, exposed, gaveUp>>

\* Somebody has read the inbox and will mark more than what he has read.
Marking == \E c \in Consumers : Whole(c) /\ pc[c] = "locking"

Write(p) ==
  /\ pc[p] = "writing"
  /\ file' = "whole"
  /\ inbox' = content[p].inbox /\ marked' = content[p].marked
  /\ content' = [content EXCEPT ![p] = Empty]
  /\ exposed' = IF p \in Messages /\ Marking THEN exposed \cup {p} ELSE exposed
  /\ Goto(p, "unlocking")
  /\ UNCHANGED <<lock, picked, index, owners, aborted, crashes, taken, gaveUp, damaged>>

\* Taken twice is as bad as taken more often: the count stops at 2.
Took(messages) ==
  taken' = [m \in Messages |->
              IF m \in messages /\ taken[m] < 2 THEN taken[m] + 1 ELSE taken[m]]

\* What a process does once its marking has returned, successful or not: the
\* runner and the print loop hand the messages on, the poller has done so.  A
\* runner that was aborted meanwhile leaves its loop with what it has picked.
Finish(p) ==
  IF p \in Messages
  THEN Goto(p, "done") /\ UNCHANGED <<taken, picked>>
  ELSE IF p \in aborted
  THEN Goto(p, "ended") /\ UNCHANGED <<taken, picked>>
  ELSE /\ Goto(p, IF Role[p] = "runner" THEN "turn" ELSE "idle")
       /\ IF Role[p] \in {"runner", "print"} THEN Took(picked[p]) ELSE UNCHANGED taken
       /\ picked' = [picked EXCEPT ![p] = {}]

Unlock(p) ==
  /\ pc[p] = "unlocking"
  /\ lock' = IF lock = p THEN Nobody ELSE lock
  /\ Finish(p)
  /\ UNCHANGED <<fileVars, content, index, owners, aborted, crashes, exposed,
                 gaveUp, damaged>>

\* Ten retries were not enough: the error is logged, and the call returns as
\* if it had succeeded.
GiveUp(p) ==
  /\ pc[p] = "locking" /\ lock # Nobody
  /\ gaveUp' = TRUE
  /\ Finish(p)
  /\ UNCHANGED <<fileVars, lock, content, index, owners, aborted, crashes,
                 exposed, damaged>>

-------------------------------------------------------------------------------
(* Reading *)

Unread(read) == {m \in Range(read.inbox) : m \notin read.marked}

First(read, messages) ==
  CHOOSE i \in DOMAIN read.inbox :
    /\ read.inbox[i] \in messages
    /\ \A j \in 1..(i - 1) : read.inbox[j] \notin messages

OfKind(messages, k) == {m \in messages : Kind[m] = k}

\* m.from === TEAM_LEAD_NAME: the leader's answers to permission requests are
\* his messages, too.
FromLead(messages) == {m \in messages : Kind[m] \in {"lead", "permission"}}

\* A mutant of Preferred: no fallback to the messages of peers.
PreferredOnly(unread) ==
  IF OfKind(unread, "shutdown") # {} THEN OfKind(unread, "shutdown")
  ELSE FromLead(unread)

\* waitForNextPromptOrShutdown(): shutdown requests, then the lead, then all.
Preferred(unread) ==
  IF OfKind(unread, "shutdown") # {} THEN OfKind(unread, "shutdown")
  ELSE IF FromLead(unread) # {} THEN FromLead(unread)
  ELSE unread

\* A mutant of TakeByIndex: findIndex() found nothing and nobody checks.
TakeByIndexUnchecked(c, messages) ==
  /\ index' = [index EXCEPT ![c] = IF messages = {} THEN -1
                                   ELSE First(ReadMailbox, messages)]
  /\ picked' = [picked EXCEPT ![c] = IF messages = {} THEN {}
                     ELSE {ReadMailbox.inbox[First(ReadMailbox, messages)]}]
  /\ Goto(c, "locking")
  /\ UNCHANGED <<fileVars, lock, content, owners, aborted, crashes, ghostVars>>

TakeByIndex(c, messages) ==
  /\ messages # {}
  /\ LET i == First(ReadMailbox, messages) IN
       /\ index' = [index EXCEPT ![c] = i]
       /\ picked' = [picked EXCEPT ![c] = {ReadMailbox.inbox[i]}]
  /\ Goto(c, "locking")
  /\ UNCHANGED <<fileVars, lock, content, owners, aborted, crashes, ghostVars>>

\* The teammate waits for work.  A read that was under way when the abort came
\* is still answered, and its message marked.
RunnerPoll(c) ==
  /\ c \in owners /\ Role[c] = "runner" /\ pc[c] = "idle"
  /\ TakeByIndex(c, Preferred(Unread(ReadMailbox)))

\* In its turn, it waits for the leader's answer to a permission request.
PermissionPoll(c) ==
  /\ c \in owners /\ Role[c] = "runner" /\ pc[c] = "turn"
  /\ TakeByIndex(c, OfKind(Unread(ReadMailbox), "permission"))

\* The loop is left after a turn, or while it waits, if it was aborted.
TurnEnds(c) ==
  /\ Role[c] = "runner" /\ pc[c] = "turn"
  /\ Goto(c, IF c \in aborted THEN "ended" ELSE "idle")
  /\ UNCHANGED <<fileVars, lock, content, picked, index, owners, aborted,
                 crashes, ghostVars>>

WaitEnds(c) ==
  /\ pc[c] = "idle" /\ c \in aborted
  /\ Goto(c, "ended")
  /\ UNCHANGED <<fileVars, lock, content, picked, index, owners, aborted,
                 crashes, ghostVars>>

\* A prompt of the user, who views the transcript, or a task of the team's list.
OtherPrompt(c) ==
  /\ c \in owners /\ Role[c] = "runner" /\ pc[c] = "idle" /\ c \notin aborted
  /\ Goto(c, "turn")
  /\ UNCHANGED <<fileVars, lock, content, picked, index, owners, aborted,
                 crashes, ghostVars>>

Abort(c) ==
  /\ c \in owners /\ Role[c] = "runner" /\ pc[c] # "ended" /\ c \notin aborted
  /\ aborted' = aborted \cup {c}
  /\ UNCHANGED <<fileVars, lock, pc, content, picked, index, owners, crashes, ghostVars>>

\* One poll of useInboxPoller: everything unread is submitted, routed or
\* queued at once, then all messages are marked without waiting for it.
InboxPoll(c) ==
  /\ c \in owners /\ Role[c] = "poller" /\ pc[c] = "idle"
  /\ Unread(ReadMailbox) # {}
  /\ picked' = [picked EXCEPT ![c] = Unread(ReadMailbox)]
  /\ Took(picked'[c])
  /\ Goto(c, "locking")
  /\ UNCHANGED <<fileVars, lock, content, index, owners, aborted, crashes, exposed,
                 gaveUp, damaged>>

\* getTeammateMailboxAttachments() leaves structured messages to the poller.
Attach(c) ==
  /\ c \in owners /\ Role[c] = "attachments" /\ pc[c] = "idle"
  /\ LET messages == {m \in Unread(ReadMailbox) : ~Structured(m)} IN
       /\ messages # {}
       /\ picked' = [picked EXCEPT ![c] = messages]
       /\ Took(messages)
  /\ Goto(c, "locking")
  /\ UNCHANGED <<fileVars, lock, content, index, owners, aborted, crashes, exposed,
                 gaveUp, damaged>>

\* The print loop marks first.
PrintPoll(c) ==
  /\ c \in owners /\ Role[c] = "print" /\ pc[c] = "idle"
  /\ Unread(ReadMailbox) # {}
  /\ picked' = [picked EXCEPT ![c] = Unread(ReadMailbox)]
  /\ Goto(c, "locking")
  /\ UNCHANGED <<fileVars, lock, content, index, owners, aborted, crashes, ghostVars>>

-------------------------------------------------------------------------------
(* Crashes *)

\* A writer's process dies; between the truncation and the end of its write
\* the messages die with it.
Crash(m) ==
  /\ crashes < MaxCrashes
  /\ pc[m] \notin {"idle", "done", "dead"}
  /\ crashes' = crashes + 1
  /\ Goto(m, "dead")
  /\ damaged' = (damaged \/ (pc[m] = "writing" /\ inbox # <<>>))
  /\ UNCHANGED <<fileVars, lock, content, picked, index, owners, aborted, taken,
                 exposed, gaveUp>>

\* The lock of a dead process is not refreshed and is taken away after a while.
LockGoesStale ==
  /\ lock # Nobody /\ pc[lock] = "dead"
  /\ lock' = Nobody
  /\ UNCHANGED <<fileVars, pc, content, picked, index, owners, aborted, crashes, ghostVars>>

-------------------------------------------------------------------------------
Proceeds(p) == LockAndRead(p) \/ Write(p) \/ Unlock(p)
Sends(m) == CreateFile(m) \/ WriteEmptyArray(m)
Polls(c) == RunnerPoll(c) \/ PermissionPoll(c) \/ InboxPoll(c) \/ PrintPoll(c) \/ Attach(c)
Works(c) == TurnEnds(c) \/ WaitEnds(c) \/ OtherPrompt(c) \/ Abort(c)

Next ==
  \/ \E m \in Messages : Sends(m) \/ Crash(m)
  \/ \E p \in Processes : Proceeds(p) \/ GiveUp(p)
  \/ \E c \in Consumers : Polls(c) \/ Works(c)
  \/ LockGoesStale

Spec == Init /\ [][Next]_vars

\* Processes that hold the lock go on, dead ones lose it.  While an in-process
\* teammate lives, its turns end, it polls again and again between them (the
\* prompts of the user, which go first, do not keep coming for ever) and gets
\* the lock now and then.  Nothing makes it live on: it may be aborted.
Fairness ==
  /\ \A p \in Processes : WF_vars(Proceeds(p))
  /\ \A c \in Consumers : Role[c] = "runner" =>
       /\ SF_vars(Proceeds(c)) /\ SF_vars(RunnerPoll(c))
       /\ WF_vars(TurnEnds(c)) /\ WF_vars(WaitEnds(c))
  /\ WF_vars(LockGoesStale)

FairSpec == Spec /\ Fairness

-------------------------------------------------------------------------------
(* Properties *)

\* Unless the file is damaged, a message is marked as read only if it was
\* handed to the owner, is being handed to him, had been picked by a teammate
\* that was aborted before it began its turn, or was written between somebody's
\* read and his marking of all messages.  Markings by index (the in-process
\* teammate) miss nothing.
NothingSkipped ==
  ~damaged => \A m \in marked :
    taken[m] > 0 \/ m \in exposed \/ \E c \in Consumers : m \in picked[c]

\* The loop of an in-process teammate takes no message twice, unless one of
\* its markings ran out of retries or the file was damaged.
TakenOnce ==
  (\A c \in owners : Role[c] = "runner") /\ ~gaveUp /\ ~damaged =>
    \A m \in Messages : taken[m] <= 1

\* Unless the file is damaged, a message that was written stays in the inbox,
\* at its index, and no mark is taken back: all changes are made under the
\* lock to what was read under it.
InboxKept ==
  [][~damaged' => /\ Len(inbox) <= Len(inbox')
                  /\ inbox = SubSeq(inbox', 1, Len(inbox))
                  /\ marked \subseteq marked']_vars

\* A message written into the inbox of an in-process teammate is taken in the
\* end, whoever sent it, unless the teammate's loop ends first (it was killed,
\* shut down, or a turn failed), the file is damaged, or the message was written
\* between the read of a turn's attachments and their marking.
Taken ==
  \A m \in Messages :
    (m \in Range(inbox) /\ \E c \in owners : Role[c] = "runner")
      ~> (taken[m] > 0 \/ damaged \/ m \in exposed \/ \E c \in owners : pc[c] = "ended")
===============================================================================
