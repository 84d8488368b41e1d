------------------------ MODULE TeammateMailbox_proofs ------------------------
(***************************************************************************)
(* Proofs about TeammateMailbox: types, that no write loses a message or   *)
(* takes back a mark, that no message is passed over, and that a teammate  *)
(* takes none twice.                                                       *)
(***************************************************************************)
EXTENDS TeammateMailbox, SequenceTheorems, TLAPS

W == INSTANCE WellFoundedInduction

-------------------------------------------------------------------------------
(* What is in the file, if it is whole.                                     *)
Current == [inbox |-> inbox, marked |-> marked]

(* A consumer is where its role lets it be, and has picked something only   *)
(* while it is about to mark it, or if it was aborted while it was.         *)
PointInv ==
  \A c \in Consumers :
    /\ pc[c] \in {"idle", "turn", "locking", "writing", "unlocking", "ended"}
    /\ pc[c] \in {"idle", "turn"} => picked[c] = {}
    /\ pc[c] \in {"turn", "ended"} \/ c \in aborted => Role[c] = "runner"
    /\ c \notin owners => pc[c] = "idle" /\ c \notin aborted
    /\ Role[c] \in {"poller", "attachments"} => \A m \in picked[c] : taken[m] > 0

(* Who writes has the lock, and writes what it made of the current content. *)
LockHeld ==
  \A p \in Processes : pc[p] \in {"writing", "unlocking"} => lock = p
ContentInv ==
  ~damaged =>
    /\ marked \subseteq Range(inbox)
    /\ \A p \in Processes : pc[p] = "writing" => content[p] = NewContent(p, Current)

(* A file with content is unreadable only while somebody writes it.         *)
FileInv ==
  ~damaged /\ inbox # <<>> /\ file # "whole" =>
    \E p \in Processes : pc[p] = "writing"

(* Between a read and the marking, the index still is that of the message   *)
(* read, and what came in since is known to have done so.                   *)
Seen(c, m) ==
  \/ m \in picked[c] \/ m \in marked \/ m \in exposed
  \/ Role[c] = "attachments" /\ Structured(m)
PickedInv ==
  ~damaged => \A c \in Consumers :
    pc[c] \in {"locking", "writing"} =>
      IF Role[c] = "runner"
      THEN index[c] \in DOMAIN inbox /\ picked[c] = {inbox[index[c]]}
      ELSE \A m \in Range(inbox) : Seen(c, m)

(* A message that a teammate has taken is marked, and one that it is taking *)
(* has not been taken before.                                               *)
OnceInv ==
  (\A c \in owners : Role[c] = "runner") /\ ~gaveUp /\ ~damaged =>
    /\ \A m \in Messages : taken[m] <= 1 /\ (taken[m] > 0 => m \in marked)
    /\ \A c \in Consumers : \A m \in picked[c] : taken[m] = 0
    /\ \A c \in Consumers : pc[c] = "unlocking" => picked[c] \subseteq marked

MailInv ==
  /\ TypeOK /\ PointInv /\ LockHeld /\ ContentInv /\ FileInv
  /\ PickedInv /\ NothingSkipped /\ OnceInv

LEMMA Constants ==
  /\ Kind \in [Messages -> {"peer", "lead", "shutdown", "permission"}]
  /\ Role \in [Consumers -> {"runner", "poller", "attachments", "print"}]
  /\ Owners \subseteq SUBSET Consumers
  /\ \A o \in Owners : \A c, d \in o :
       Role[c] = "runner" /\ Role[d] = "runner" => c = d
  /\ Messages \cap Consumers = {} /\ Nobody \notin Messages \cup Consumers
  /\ MaxCrashes \in Nat
  BY MailboxAssumption

LEMMA RangeFacts ==
  ASSUME NEW q \in Seq(Messages)
  PROVE  /\ DOMAIN q = 1..Len(q) /\ Len(q) \in Nat
         /\ \A i \in DOMAIN q : q[i] \in Messages /\ q[i] \in Range(q)
         /\ \A m \in Range(q) : m \in Messages /\ \E i \in DOMAIN q : q[i] = m
         /\ Range(q) \subseteq Messages
         /\ Range(<<>>) = {}
  BY ElementOfSeq, LenProperties DEF Range

LEMMA RangeOfAppend ==
  ASSUME NEW q \in Seq(Messages), NEW m \in Messages
  PROVE  /\ Append(q, m) \in Seq(Messages)
         /\ Range(Append(q, m)) = Range(q) \cup {m}
         /\ Len(q) <= Len(Append(q, m))
         /\ q = SubSeq(Append(q, m), 1, Len(q))
         /\ \A i \in DOMAIN q : i \in DOMAIN Append(q, m) /\ Append(q, m)[i] = q[i]
  <1> DEFINE a == Append(q, m)
  <1>1. /\ a \in Seq(Messages) /\ Len(a) = Len(q) + 1 /\ Len(q) \in Nat
        /\ \A i \in 1..Len(q) : a[i] = q[i]
        /\ a[Len(q) + 1] = m
    BY AppendProperties, LenProperties
  <1>2. DOMAIN a = 1..(Len(q) + 1) /\ DOMAIN q = 1..Len(q)
    BY <1>1, LenProperties
  <1> HIDE DEF a
  <1>3. Range(a) = Range(q) \cup {m}
    <2>1. \A i \in DOMAIN a : i \in DOMAIN q \/ i = Len(q) + 1 BY <1>1, <1>2
    <2>2. DOMAIN q \subseteq DOMAIN a /\ Len(q) + 1 \in DOMAIN a BY <1>1, <1>2
    <2>3. \A i \in DOMAIN q : a[i] = q[i] BY <1>1, <1>2
    <2>4. QED BY <1>1, <2>1, <2>2, <2>3 DEF Range
  <1>4. q = SubSeq(a, 1, Len(q))
    <2>1. \A i \in 1..Len(q) : a[i] \in Messages BY <1>1, ElementOfSeq
    <2>2. /\ SubSeq(a, 1, Len(q)) \in Seq(Messages)
          /\ Len(SubSeq(a, 1, Len(q))) = Len(q)
          /\ \A i \in 1..Len(q) : SubSeq(a, 1, Len(q))[i] = a[i]
      BY <1>1, <2>1
    <2>3. QED BY <1>1, <2>2, SeqEqual
  <1>5. QED BY <1>1, <1>2, <1>3, <1>4 DEF a

(* The first message of a kind that is there is one of them.                *)
LEMMA FirstIsOne ==
  ASSUME NEW read \in Contents, NEW messages \in SUBSET Range(read.inbox), messages # {}
  PROVE  /\ First(read, messages) \in DOMAIN read.inbox
         /\ First(read, messages) \in Nat
         /\ read.inbox[First(read, messages)] \in messages
  <1> DEFINE D == {i \in DOMAIN read.inbox : read.inbox[i] \in messages}
  <1>1. read.inbox \in Seq(Messages) /\ DOMAIN read.inbox = 1..Len(read.inbox)
        /\ Len(read.inbox) \in Nat
    BY LenProperties DEF Contents
  <1>2. D \subseteq Nat BY <1>1
  <1>3. D # {}
    <2>1. PICK m \in messages : m \in Range(read.inbox) OBVIOUS
    <2>2. QED BY <2>1 DEF Range
  <1>4. PICK i \in D : \A j \in D : ~(<<j, i>> \in W!OpToRel(<, Nat))
    <2> HIDE DEF D
    <2>1. QED BY <1>2, <1>3, W!NatLessThanWellFounded, W!WFMin
  <1>5. \A j \in D : ~(j < i) BY <1>2, <1>4 DEF W!OpToRel
  <1>6. \A j \in 1..(i - 1) : read.inbox[j] \notin messages
    <2>1. i \in DOMAIN read.inbox BY <1>4
    <2>2. i \in 1..Len(read.inbox) BY <1>1, <2>1
    <2>3. \A j \in 1..(i - 1) : j \in 1..Len(read.inbox) /\ j < i BY <1>1, <2>2
    <2>4. QED BY <1>1, <1>5, <2>3
  <1>7. \E k \in DOMAIN read.inbox :
          /\ read.inbox[k] \in messages
          /\ \A j \in 1..(k - 1) : read.inbox[j] \notin messages
    BY <1>4, <1>6
  <1>8. First(read, messages) \in DOMAIN read.inbox
        /\ read.inbox[First(read, messages)] \in messages
    BY <1>7 DEF First
  <1>9. QED BY <1>1, <1>8

LEMMA ReadType ==
  ASSUME TypeOK
  PROVE  /\ Current \in Contents /\ Empty \in Contents /\ ReadMailbox \in Contents
         /\ Unread(ReadMailbox) \subseteq Range(ReadMailbox.inbox)
         /\ Unread(ReadMailbox) \subseteq Messages
         /\ file = "whole" => ReadMailbox = Current
         /\ file # "whole" => Unread(ReadMailbox) = {} /\ ReadMailbox.inbox = <<>>
  <1>1. Current \in Contents /\ Empty \in Contents
    BY EmptySeq DEF TypeOK, Current, Empty, Contents
  <1>2. ReadMailbox \in Contents /\ (file = "whole" => ReadMailbox = Current)
    BY <1>1 DEF ReadMailbox, Current
  <1>3. Unread(ReadMailbox) \subseteq Range(ReadMailbox.inbox) BY DEF Unread
  <1>4. ReadMailbox.inbox \in Seq(Messages) BY <1>2 DEF Contents
  <1>5. file # "whole" => ReadMailbox.inbox = <<>> BY DEF ReadMailbox, Empty
  <1>6. QED BY <1>1, <1>2, <1>3, <1>4, <1>5, RangeFacts

(* What the new content is, and what of the old one it keeps.               *)
LEMMA NewContentKeeps ==
  ASSUME NEW p \in Processes, NEW old \in Contents, TypeOK
  PROVE  LET new == NewContent(p, old) IN
         /\ new \in Contents
         /\ new.inbox = IF p \in Messages THEN Append(old.inbox, p) ELSE old.inbox
         /\ Len(old.inbox) <= Len(new.inbox)
         /\ old.inbox = SubSeq(new.inbox, 1, Len(old.inbox))
         /\ p \in Messages => new.marked = old.marked
         /\ p \in Consumers /\ Role[p] = "runner" /\ index[p] \in DOMAIN old.inbox
              => new.marked = old.marked \cup {old.inbox[index[p]]}
         /\ p \in Consumers /\ Role[p] \in {"poller", "print"}
              => new.marked = Range(old.inbox)
         /\ p \in Consumers /\ Role[p] = "attachments"
              => new.marked = old.marked \cup {m \in Range(old.inbox) : ~Structured(m)}
         /\ old.marked \subseteq Range(old.inbox) =>
              /\ old.marked \subseteq new.marked
              /\ new.marked \subseteq Range(new.inbox)
  <1> DEFINE new == NewContent(p, old)
  <1>1. /\ old = [inbox |-> old.inbox, marked |-> old.marked]
        /\ old.inbox \in Seq(Messages) /\ old.marked \subseteq Messages
    BY DEF Contents
  <1>2. /\ \A m \in Range(old.inbox) : m \in Messages
        /\ \A i \in DOMAIN old.inbox : old.inbox[i] \in Messages
                                       /\ old.inbox[i] \in Range(old.inbox)
    BY <1>1, RangeFacts
  <1>3. /\ Len(old.inbox) \in Nat /\ Len(old.inbox) <= Len(old.inbox)
        /\ old.inbox = SubSeq(old.inbox, 1, Len(old.inbox))
    <2>1. Len(old.inbox) \in Nat /\ \A i \in 1..Len(old.inbox) : old.inbox[i] \in Messages
      BY <1>1, LenProperties, ElementOfSeq
    <2>2. /\ SubSeq(old.inbox, 1, Len(old.inbox)) \in Seq(Messages)
          /\ Len(SubSeq(old.inbox, 1, Len(old.inbox))) = Len(old.inbox)
          /\ \A i \in 1..Len(old.inbox) :
               SubSeq(old.inbox, 1, Len(old.inbox))[i] = old.inbox[i]
      BY <1>1, <2>1
    <2>3. QED BY <1>1, <2>1, <2>2, SeqEqual
  <1>4. CASE p \in Messages
    <2>1. new = [inbox |-> Append(old.inbox, p), marked |-> old.marked]
      BY <1>1, <1>4 DEF NewContent
    <2>2. p \notin Consumers BY <1>4, Constants
    <2> HIDE DEF new
    <2>3. new.inbox = Append(old.inbox, p) /\ new.marked = old.marked BY <2>1
    <2>4. new \in Contents BY <1>1, <1>4, <2>1, RangeOfAppend DEF Contents
    <2>5. QED BY <1>1, <1>4, <2>2, <2>3, <2>4, RangeOfAppend DEF new
  <1>5. ASSUME p \in Consumers, NEW marks \in SUBSET Range(old.inbox),
               new = [inbox |-> old.inbox, marked |-> marks]
                 \/ new = [inbox |-> old.inbox, marked |-> old.marked \cup marks]
        PROVE  /\ new \in Contents /\ new.inbox = old.inbox
               /\ old.marked \subseteq Range(old.inbox) => new.marked \subseteq Range(new.inbox)
    BY <1>1, <1>2, <1>5 DEF Contents
  <1>6. CASE p \in Consumers /\ Role[p] = "runner"
    <2>1. p \notin Messages BY <1>6, Constants
    <2>2. CASE index[p] \in DOMAIN old.inbox
      <3>1. new = [inbox |-> old.inbox, marked |-> old.marked \cup {old.inbox[index[p]]}]
        BY <1>1, <1>6, <2>1, <2>2 DEF NewContent, MarkIndex
      <3>2. {old.inbox[index[p]]} \subseteq Range(old.inbox) BY <1>2, <2>2
      <3> HIDE DEF new
      <3>3. new.marked = old.marked \cup {old.inbox[index[p]]} BY <3>1
      <3>4. new \in Contents /\ new.inbox = old.inbox BY <1>5, <1>6, <3>1, <3>2
      <3>5. QED BY <1>3, <1>6, <2>1, <3>2, <3>3, <3>4 DEF new
    <2>3. CASE index[p] \notin DOMAIN old.inbox
      <3>1. new = old BY <1>6, <2>1, <2>3 DEF NewContent, MarkIndex
      <3>2. QED BY <1>3, <1>6, <2>1, <2>3, <3>1
    <2>4. QED BY <2>2, <2>3
  <1>7. CASE p \in Consumers /\ Role[p] \in {"poller", "print"}
    <2>1. p \notin Messages BY <1>7, Constants
    <2>2. new = [inbox |-> old.inbox, marked |-> Range(old.inbox)]
      BY <1>1, <1>7, <2>1 DEF NewContent
    <2> HIDE DEF new
    <2>3. new.marked = Range(old.inbox) BY <2>2
    <2>4. new \in Contents /\ new.inbox = old.inbox BY <1>5, <1>7, <2>2
    <2>5. QED BY <1>3, <1>7, <2>1, <2>3, <2>4 DEF new
  <1>8. CASE p \in Consumers /\ Role[p] = "attachments"
    <2>1. p \notin Messages BY <1>8, Constants
    <2>2. new = [inbox |-> old.inbox,
                 marked |-> old.marked \cup {m \in Range(old.inbox) : ~Structured(m)}]
      BY <1>1, <1>8, <2>1 DEF NewContent
    <2> HIDE DEF new
    <2>3. new.marked = old.marked \cup {m \in Range(old.inbox) : ~Structured(m)} BY <2>2
    <2>4. new \in Contents /\ new.inbox = old.inbox BY <1>5, <1>8, <2>2
    <2>5. QED BY <1>3, <1>8, <2>1, <2>3, <2>4 DEF new
  <1>9. QED BY <1>4, <1>6, <1>7, <1>8, Constants DEF Processes

-------------------------------------------------------------------------------
(* The steps *)

LEMMA InitMail == Init => MailInv
  <1>1. SUFFICES ASSUME Init PROVE MailInv
    OBVIOUS
  <1>2. TypeOK
    <2>1. Empty \in Contents /\ inbox \in Seq(Messages)
      BY <1>1, EmptySeq DEF Init, Empty, Contents
    <2>2. crashes \in 0..MaxCrashes BY <1>1, Constants DEF Init
    <2>3. /\ pc \in [Processes -> Points] /\ content \in [Processes -> Contents]
          /\ picked \in [Consumers -> SUBSET Messages] /\ index \in [Consumers -> Nat]
          /\ taken \in [Messages -> 0..2]
      BY <1>1, <2>1 DEF Init, Points
    <2>4. /\ file \in {"absent", "torn", "whole"} /\ marked \subseteq Messages
          /\ lock \in Processes \cup {Nobody} /\ owners \in Owners
          /\ aborted \subseteq Consumers /\ exposed \subseteq Messages /\ gaveUp \in BOOLEAN /\ damaged \in BOOLEAN
      BY <1>1 DEF Init
    <2>5. QED BY <2>1, <2>2, <2>3, <2>4 DEF TypeOK
  <1>3. \A p \in Processes :
          pc[p] = IF p \in owners /\ Role[p] = "runner" THEN "turn" ELSE "idle"
    BY <1>1 DEF Init
  <1>4. PointInv /\ LockHeld BY <1>1, <1>3 DEF Init, PointInv, LockHeld, Processes
  <1>5. ContentInv BY <1>1, <1>3 DEF Init, ContentInv
  <1>6. PickedInv BY <1>3 DEF PickedInv, Processes
  <1>7. NothingSkipped BY <1>1 DEF Init, NothingSkipped
  <1>8. OnceInv BY <1>1 DEF Init, OnceInv
  <1>9. FileInv BY <1>1 DEF Init, FileInv
  <1>10. QED BY <1>2, <1>4, <1>5, <1>6, <1>7, <1>8, <1>9 DEF MailInv

(* A teammate's loop goes from one turn to waiting for the next, or ends.    *)
Waits(p) ==
  /\ p \in owners /\ Role[p] = "runner"
  /\ pc[p] \in {"turn", "idle"} /\ pc'[p] \in {"turn", "idle", "ended"}

(* A step of a process that changes neither the content nor what is picked. *)
LEMMA Stays ==
  ASSUME MailInv, TypeOK', FileInv', damaged => damaged',
         UNCHANGED <<inbox, marked, content, picked, index, owners, taken,
                     exposed, gaveUp>>,
         \A c \in Consumers : c \in aborted' =>
           c \in aborted \/ (c \in owners /\ Role[c] = "runner"),
         lock' = lock \/ (lock' = Nobody /\ pc[lock] = "dead"),
         \A p \in Processes : \/ pc'[p] = pc[p]
                              \/ p \in Messages /\ pc'[p] \in {"creating", "locking", "dead"}
                              \/ Waits(p)
  PROVE  MailInv'
  <1> USE DEF MailInv
  <1>1. \A c \in Consumers : c \in Processes /\ c \notin Messages BY Constants DEF Processes
  <1>2. \A c \in Consumers : pc'[c] = pc[c] \/ Waits(c)
    BY <1>1
  <1>3. PointInv' BY <1>2 DEF PointInv, Waits
  <1>4. LockHeld'
    <2>1. SUFFICES ASSUME NEW p \in Processes, pc'[p] \in {"writing", "unlocking"}
                   PROVE  lock' = p
      BY DEF LockHeld
    <2>2. pc[p] = pc'[p] BY <2>1 DEF Waits
    <2>3. lock = p BY <2>1, <2>2 DEF LockHeld
    <2>4. QED BY <2>1, <2>2, <2>3
  <1>5. ContentInv'
    <2>1. \A p \in Processes : NewContent(p, Current)' = NewContent(p, Current)
      BY DEF NewContent, MarkIndex, Current
    <2>2. \A p \in Processes : pc'[p] = "writing" => pc[p] = "writing" BY DEF Waits
    <2>3. QED BY <2>1, <2>2 DEF ContentInv
  <1>6. PickedInv' BY <1>2 DEF PickedInv, Seen, Waits
  <1>7. NothingSkipped' BY DEF NothingSkipped
  <1>8. OnceInv' BY <1>2 DEF OnceInv, Waits
  <1>9. QED BY <1>3, <1>4, <1>5, <1>6, <1>7, <1>8

LEMMA MessageSteps ==
  ASSUME MailInv, NEW m \in Messages, CreateFile(m) \/ WriteEmptyArray(m) \/ Crash(m)
  PROVE  MailInv'
  <1>1. m \in Processes /\ damaged \in BOOLEAN BY DEF Processes, MailInv, TypeOK
  <1>2. TypeOK'
    <2>1. CASE CreateFile(m)
      BY <1>1, <2>1 DEF MailInv, TypeOK, CreateFile, Goto, Points, ghostVars
    <2>2. CASE WriteEmptyArray(m)
      BY <1>1, <2>2 DEF MailInv, TypeOK, WriteEmptyArray, Goto, Points
    <2>3. CASE Crash(m)
      <3>1. crashes' \in 0..MaxCrashes BY <2>3, Constants DEF MailInv, TypeOK, Crash
      <3>2. QED BY <1>1, <2>3, <3>1 DEF MailInv, TypeOK, Crash, Goto, Points, fileVars
    <2>4. QED BY <2>1, <2>2, <2>3
  <1>3. UNCHANGED <<inbox, marked, content, picked, index, owners, aborted, taken,
                    exposed, gaveUp, lock>>
    BY DEF CreateFile, WriteEmptyArray, Crash, fileVars, ghostVars
  <1>4. damaged => damaged'
    BY DEF CreateFile, WriteEmptyArray, Crash, ghostVars
  <1>5. \A p \in Processes : \/ pc'[p] = pc[p]
                             \/ p \in Messages /\ pc'[p] \in {"creating", "locking", "dead"}
    BY <1>1 DEF CreateFile, WriteEmptyArray, Crash, Goto, MailInv, TypeOK
  <1>6. FileInv'
    <2>1. SUFFICES ASSUME ~damaged', inbox' # <<>>, file' # "whole"
                   PROVE  \E p \in Processes : pc'[p] = "writing"
      BY DEF FileInv
    <2>2. inbox # <<>> /\ ~damaged /\ pc[m] # "writing"
      BY <1>3, <1>4, <2>1 DEF CreateFile, WriteEmptyArray, Crash
    <2>3. file # "whole"
      BY <2>1, <2>2 DEF CreateFile, WriteEmptyArray, Crash, fileVars
    <2>4. PICK p \in Processes : pc[p] = "writing"
      BY <2>2, <2>3 DEF MailInv, FileInv
    <2>5. p # m BY <2>2, <2>4
    <2>6. pc'[p] = pc[p]
      BY <2>5 DEF CreateFile, WriteEmptyArray, Crash, Goto, MailInv, TypeOK
    <2>7. QED BY <2>4, <2>6
  <1>7. QED BY <1>2, <1>3, <1>4, <1>5, <1>6, Stays

LEMMA StaleSteps ==
  ASSUME MailInv, LockGoesStale \/ \E c \in Consumers : Works(c)
  PROVE  MailInv'
  <1>1. TypeOK'
    <2>1. CASE LockGoesStale
      BY <2>1 DEF MailInv, TypeOK, LockGoesStale, fileVars, ghostVars
    <2>2. ASSUME NEW c \in Consumers, Works(c) PROVE TypeOK'
      <3>1. c \in Processes BY DEF Processes
      <3>2. CASE Abort(c)
        BY <3>2 DEF MailInv, TypeOK, Abort, fileVars, ghostVars
      <3>3. CASE TurnEnds(c)
        BY <3>1, <3>3 DEF MailInv, TypeOK, TurnEnds, Goto, Points, fileVars, ghostVars
      <3>4. CASE WaitEnds(c) \/ OtherPrompt(c)
        BY <3>1, <3>4 DEF MailInv, TypeOK, WaitEnds, OtherPrompt, Goto, Points,
                          fileVars, ghostVars
      <3>5. QED BY <2>2, <3>2, <3>3, <3>4 DEF Works
    <2>3. QED BY <2>1, <2>2
  <1>2. UNCHANGED <<inbox, marked, content, picked, index, owners, taken,
                    exposed, gaveUp, damaged>>
    BY DEF LockGoesStale, Works, TurnEnds, WaitEnds, OtherPrompt, Abort, fileVars, ghostVars
  <1>3. \A p \in Processes : pc'[p] = pc[p] \/ Waits(p)
    <2>1. CASE LockGoesStale BY <2>1 DEF LockGoesStale
    <2>2. ASSUME NEW c \in Consumers, Works(c)
          PROVE  \A p \in Processes : pc'[p] = pc[p] \/ Waits(p)
      <3>1. CASE Abort(c) BY <3>1 DEF Abort
      <3>2. ASSUME TurnEnds(c) \/ WaitEnds(c) \/ OtherPrompt(c)
            PROVE  Waits(c) /\ \A p \in Processes : p # c => pc'[p] = pc[p]
        <4>1. c \in owners /\ Role[c] = "runner"
          BY <3>2 DEF TurnEnds, WaitEnds, OtherPrompt, MailInv, PointInv
        <4>2. c \in Processes /\ pc \in [Processes -> Points]
          BY DEF Processes, MailInv, TypeOK
        <4>3. CASE TurnEnds(c)
          BY <4>1, <4>2, <4>3 DEF TurnEnds, Goto, Waits
        <4>4. CASE WaitEnds(c)
          BY <4>1, <4>2, <4>4 DEF WaitEnds, Goto, Waits
        <4>5. CASE OtherPrompt(c)
          BY <4>1, <4>2, <4>5 DEF OtherPrompt, Goto, Waits
        <4>6. QED BY <3>2, <4>3, <4>4, <4>5
      <3>3. QED BY <2>2, <3>1, <3>2 DEF Works
    <2>3. QED BY <2>1, <2>2
  <1>4. lock' = lock \/ (lock' = Nobody /\ pc[lock] = "dead")
    BY DEF LockGoesStale, Works, TurnEnds, WaitEnds, OtherPrompt, Abort
  <1>5. \A p \in Processes : pc[p] = "writing" => pc'[p] = "writing" BY <1>3 DEF Waits
  <1>6. UNCHANGED file
    BY DEF LockGoesStale, Works, TurnEnds, WaitEnds, OtherPrompt, Abort, fileVars
  <1>7. FileInv' BY <1>2, <1>5, <1>6 DEF MailInv, FileInv
  <1>8. \A c \in Consumers : c \in aborted' =>
          c \in aborted \/ (c \in owners /\ Role[c] = "runner")
    BY DEF LockGoesStale, Works, TurnEnds, WaitEnds, OtherPrompt, Abort
  <1>9. QED BY <1>1, <1>2, <1>3, <1>4, <1>7, <1>8, Stays

LEMMA LockAndReadStep ==
  ASSUME MailInv, NEW p \in Processes, LockAndRead(p) PROVE MailInv'
  <1> USE DEF MailInv
  <1> DEFINE old == ReadMailbox
             new == NewContent(p, old)
             nothing == p \in Consumers /\ \/ old.inbox = <<>>
                                           \/ Role[p] = "runner" /\ new = old
  <1>1. old \in Contents /\ new \in Contents BY ReadType, NewContentKeeps
  <1>2. /\ pc[p] = "locking" /\ lock = Nobody /\ lock' = p
        /\ UNCHANGED <<inbox, marked, picked, index, owners, aborted, crashes,
                       taken, exposed, gaveUp>>
    BY DEF LockAndRead
  <1>3. \/ nothing /\ Goto(p, "unlocking") /\ UNCHANGED <<file, content, damaged>>
        \/ /\ ~nothing /\ Goto(p, "writing") /\ file' = "torn"
           /\ content' = [content EXCEPT ![p] = new]
           /\ damaged' = (damaged \/ old.inbox # inbox)
    BY DEF LockAndRead
  <1> HIDE DEF new, old, nothing
  <1>4. /\ \A q \in Processes : q # p => pc'[q] = pc[q] /\ content'[q] = content[q]
        /\ pc'[p] \in {"writing", "unlocking"}
        /\ pc'[p] = "writing" => content'[p] = new
        /\ damaged => damaged'
        /\ (pc'[p] = "unlocking" <=> nothing)
    BY <1>3 DEF Goto, TypeOK
  <1>5. TypeOK'
    <2>1. damaged' \in BOOLEAN /\ file' \in {"absent", "torn", "whole"} BY <1>3 DEF TypeOK
    <2>2. content' \in [Processes -> Contents] BY <1>1, <1>3 DEF TypeOK
    <2>3. pc' \in [Processes -> Points] BY <1>3 DEF TypeOK, Goto, Points
    <2>4. QED BY <1>2, <2>1, <2>2, <2>3 DEF TypeOK
  <1>6. \A c \in Consumers : c \in Processes BY DEF Processes
  <1>7. PointInv' BY <1>2, <1>4, <1>6 DEF PointInv
  <1>8. LockHeld' BY <1>2, <1>4, Constants DEF LockHeld, Processes
  <1>9. ASSUME ~damaged' PROVE pc'[p] = "writing" => old = Current
    <2>1. SUFFICES ASSUME pc'[p] = "writing" PROVE old = Current
      OBVIOUS
    <2>2. old.inbox = inbox /\ ~damaged BY <1>3, <1>4, <1>9, <2>1
    <2>3. CASE file = "whole" BY <2>3, ReadType DEF old
    <2>4. CASE file # "whole"
      <3>1. old = Empty BY <2>4 DEF old, ReadMailbox
      <3>2. inbox = <<>> BY <2>2, <3>1 DEF Empty
      <3>3. marked = {} BY <2>2, <3>2, RangeFacts DEF ContentInv, TypeOK
      <3>4. QED BY <3>1, <3>2, <3>3 DEF Empty, Current
    <2>5. QED BY <2>3, <2>4
  <1>10. ContentInv'
    <2>1. SUFFICES ASSUME ~damaged' PROVE ContentInv'
      BY DEF ContentInv
    <2>2. \A q \in Processes : NewContent(q, Current)' = NewContent(q, Current)
      BY <1>2 DEF NewContent, MarkIndex, Current
    <2>3. pc'[p] = "writing" => content'[p] = NewContent(p, Current)
      BY <1>4, <1>9, <2>1 DEF new
    <2>4. \A q \in Processes \ {p} : pc'[q] = "writing" => content'[q] = NewContent(q, Current)
      BY <1>4, <2>1 DEF ContentInv
    <2>5. marked' \subseteq Range(inbox)' BY <1>2, <1>4, <2>1 DEF ContentInv
    <2>6. QED BY <2>2, <2>3, <2>4, <2>5 DEF ContentInv
  <1>11. PickedInv' BY <1>2, <1>4, <1>6 DEF PickedInv, Seen
  <1>12. NothingSkipped' BY <1>2, <1>4 DEF NothingSkipped
  <1>13. OnceInv'
    <2>1. SUFFICES ASSUME \A c \in owners : Role[c] = "runner", ~gaveUp, ~damaged',
                          p \in Consumers, pc'[p] = "unlocking"
                   PROVE  picked[p] \subseteq marked
      BY <1>2, <1>4, <1>6 DEF OnceInv
    <2>2. ~damaged /\ nothing BY <1>4, <2>1
    <2>3. p \in owners /\ Role[p] = "runner" BY <1>2, <2>1 DEF PointInv
    <2>4. index[p] \in DOMAIN inbox /\ picked[p] = {inbox[index[p]]}
      BY <1>2, <2>1, <2>2, <2>3 DEF PickedInv
    <2>5. CASE file = "whole"
      <3>1. old = Current BY <2>5, ReadType DEF old
      <3>2. inbox # <<>> BY <2>4, RangeFacts DEF TypeOK
      <3>3. new = old BY <2>2, <3>1, <3>2 DEF nothing, Current
      <3>4. index[p] \in DOMAIN old.inbox BY <2>4, <3>1 DEF Current
      <3>5. new.marked = old.marked \cup {old.inbox[index[p]]}
        BY <1>1, <2>1, <2>3, <3>4, NewContentKeeps DEF new
      <3>6. QED BY <2>4, <3>1, <3>3, <3>5 DEF Current
    <2>6. CASE file # "whole"
      <3>1. inbox # <<>> BY <2>4, RangeFacts DEF TypeOK
      <3>2. PICK q \in Processes : pc[q] = "writing" BY <2>2, <2>6, <3>1 DEF FileInv
      <3>3. lock = q BY <3>2 DEF LockHeld
      <3>4. QED BY <1>2, <3>3, Constants DEF Processes
    <2>7. QED BY <2>5, <2>6
  <1>14. FileInv'
    <2>1. SUFFICES ASSUME ~damaged', inbox # <<>>, file' # "whole", pc'[p] = "unlocking"
                   PROVE  \E q \in Processes : pc'[q] = "writing"
      BY <1>2, <1>4 DEF FileInv
    <2>2. file = file' /\ ~damaged BY <1>3, <1>4, <2>1
    <2>3. PICK q \in Processes : pc[q] = "writing" BY <2>1, <2>2 DEF FileInv
    <2>4. lock = q BY <2>3 DEF LockHeld
    <2>5. QED BY <1>2, <2>4, Constants DEF Processes
  <1>15. QED BY <1>5, <1>7, <1>8, <1>10, <1>11, <1>12, <1>13, <1>14

(* Whoever has a message picked, taken or exposed can account for its mark. *)
Accounted(m) == taken[m] > 0 \/ m \in exposed \/ \E c \in Consumers : m \in picked[c]

LEMMA WriteStep ==
  ASSUME MailInv, NEW p \in Processes, Write(p) PROVE MailInv'
  <1> USE DEF MailInv
  <1> DEFINE new == NewContent(p, Current)
  <1>1. /\ pc[p] = "writing" /\ file' = "whole" /\ Goto(p, "unlocking")
        /\ inbox' = content[p].inbox /\ marked' = content[p].marked
        /\ content' = [content EXCEPT ![p] = Empty]
        /\ exposed' = IF p \in Messages /\ Marking THEN exposed \cup {p} ELSE exposed
        /\ UNCHANGED <<lock, picked, index, owners, aborted, crashes, taken, gaveUp, damaged>>
    BY DEF Write
  <1>2. Current \in Contents /\ Empty \in Contents /\ new \in Contents
        /\ inbox \in Seq(Messages)
    BY ReadType, NewContentKeeps DEF TypeOK
  <1> HIDE DEF new
  <1>3. /\ \A q \in Processes : q # p => pc'[q] = pc[q] /\ content'[q] = content[q]
        /\ pc'[p] = "unlocking"
    BY <1>1 DEF Goto, TypeOK
  <1>4. lock = p /\ \A q \in Processes : pc[q] = "writing" => q = p
    BY <1>1 DEF LockHeld
  <1>5. TypeOK'
    <2>1. content[p] \in Contents /\ exposed' \subseteq Messages BY <1>1 DEF TypeOK
    <2>2. inbox' \in Seq(Messages) /\ marked' \subseteq Messages BY <1>1, <2>1 DEF Contents
    <2>3. content' \in [Processes -> Contents] BY <1>1, <1>2 DEF TypeOK
    <2>4. pc' \in [Processes -> Points] BY <1>1 DEF TypeOK, Goto, Points
    <2>5. QED BY <1>1, <2>1, <2>2, <2>3, <2>4 DEF TypeOK
  <1>6. \A c \in Consumers : c \in Processes /\ c \notin Messages BY Constants DEF Processes
  <1>7. PointInv' BY <1>1, <1>3, <1>6 DEF PointInv
  <1>8. LockHeld' BY <1>1, <1>3, <1>4 DEF LockHeld
  <1>9. FileInv' BY <1>1 DEF FileInv
  <1>10. SUFFICES ASSUME ~damaged
                  PROVE  ContentInv' /\ PickedInv' /\ NothingSkipped' /\ OnceInv'
    BY <1>1, <1>5, <1>7, <1>8, <1>9 DEF ContentInv, PickedInv, NothingSkipped, OnceInv
  <1>11. inbox' = new.inbox /\ marked' = new.marked /\ marked \subseteq Range(inbox)
    BY <1>1, <1>10 DEF ContentInv, new
  <1>12. /\ marked \subseteq marked' /\ marked' \subseteq Range(inbox')
         /\ new.inbox = IF p \in Messages THEN Append(inbox, p) ELSE inbox
    BY <1>2, <1>11, NewContentKeeps DEF new, Current
  <1>13. /\ \A i \in DOMAIN inbox : i \in DOMAIN inbox' /\ inbox'[i] = inbox[i]
         /\ Range(inbox') = Range(inbox) \cup (IF p \in Messages THEN {p} ELSE {})
    BY <1>2, <1>11, <1>12, RangeOfAppend
  <1>14. ContentInv'
    <2>1. \A q \in Processes : pc'[q] # "writing" BY <1>3, <1>4
    <2>2. QED BY <1>12, <2>1 DEF ContentInv
  <1>15. PickedInv'
    <2>1. SUFFICES ASSUME NEW c \in Consumers, pc'[c] \in {"locking", "writing"}
                   PROVE  IF Role[c] = "runner"
                          THEN index[c] \in DOMAIN inbox' /\ picked[c] = {inbox'[index[c]]}
                          ELSE \A m \in Range(inbox') :
                                 \/ m \in picked[c] \/ m \in marked' \/ m \in exposed'
                                 \/ Role[c] = "attachments" /\ Structured(m)
      BY <1>1 DEF PickedInv, Seen
    <2>2. c \in Processes /\ c # p /\ pc[c] = "locking"
      BY <1>3, <1>4, <1>6, <2>1
    <2>3. CASE Role[c] = "runner"
      BY <1>10, <1>13, <2>2, <2>3 DEF PickedInv
    <2>4. CASE Role[c] # "runner"
      <3>1. SUFFICES ASSUME NEW m \in Range(inbox')
                     PROVE  \/ m \in picked[c] \/ m \in marked' \/ m \in exposed'
                            \/ Role[c] = "attachments" /\ Structured(m)
        BY <2>4
      <3>2. CASE m \in Range(inbox)
        BY <1>1, <1>10, <1>12, <2>2, <2>4, <3>2 DEF PickedInv, Seen
      <3>3. CASE m \notin Range(inbox)
        <4>1. p \in Messages /\ m = p BY <1>13, <3>3
        <4>2. Role[c] \in {"poller", "attachments", "print"} BY <2>4, Constants
        <4>3. Marking BY <2>2, <4>2 DEF Marking, Whole
        <4>4. QED BY <1>1, <4>1, <4>3
      <3>4. QED BY <3>2, <3>3
    <2>5. QED BY <2>3, <2>4
  <1>16. NothingSkipped'
    <2>1. SUFFICES ASSUME NEW m \in marked' PROVE Accounted(m)'
      BY <1>1 DEF NothingSkipped, Accounted
    <2>2. \A k \in marked \cup exposed : Accounted(k)'
      BY <1>1, <1>10 DEF NothingSkipped, Accounted
    <2>3. CASE p \in Messages
      <3>1. marked' = marked BY <1>2, <1>11, <2>3, NewContentKeeps DEF new, Current
      <3>2. QED BY <2>1, <2>2, <3>1
    <2>4. CASE p \in Consumers
      <3>1. \A k \in picked[p] : Accounted(k)' BY <1>1, <2>4 DEF Accounted
      <3>2. CASE Role[p] = "runner"
        <4>1. index[p] \in DOMAIN inbox /\ picked[p] = {inbox[index[p]]}
          BY <1>1, <1>10, <2>4, <3>2 DEF PickedInv
        <4>2. marked' = marked \cup picked[p]
          BY <1>2, <1>11, <2>4, <3>2, <4>1, NewContentKeeps DEF new, Current
        <4>3. QED BY <2>1, <2>2, <3>1, <4>2
      <3>3. CASE Role[p] # "runner"
        <4>1. \A k \in Range(inbox) : Seen(p, k)
          BY <1>1, <1>10, <2>4, <3>3 DEF PickedInv
        <4>2. Role[p] \in {"poller", "print"} => marked' = Range(inbox)
          BY <1>2, <1>11, <2>4, NewContentKeeps DEF new, Current
        <4>3. Role[p] = "attachments" =>
                marked' = marked \cup {k \in Range(inbox) : ~Structured(k)}
          BY <1>2, <1>11, <2>4, NewContentKeeps DEF new, Current
        <4>4. Role[p] \in {"poller", "print", "attachments"} BY <2>4, <3>3, Constants
        <4>5. m \in marked \/ (m \in Range(inbox) /\ ~(Role[p] = "attachments" /\ Structured(m)))
          BY <2>1, <4>2, <4>3, <4>4
        <4>6. m \in marked \/ m \in exposed \/ m \in picked[p] BY <4>1, <4>5 DEF Seen
        <4>7. QED BY <2>2, <3>1, <4>6
      <3>4. QED BY <3>2, <3>3
    <2>5. QED BY <2>3, <2>4 DEF Processes
  <1>17. OnceInv'
    <2>1. SUFFICES ASSUME \A c \in owners : Role[c] = "runner", ~gaveUp
                   PROVE  /\ \A m \in Messages : taken[m] <= 1 /\ (taken[m] > 0 => m \in marked')
                          /\ \A c \in Consumers : \A m \in picked[c] : taken[m] = 0
                          /\ \A c \in Consumers :
                               pc'[c] = "unlocking" => picked[c] \subseteq marked'
      BY <1>1 DEF OnceInv
    <2>2. \A c \in Consumers : pc[c] = "unlocking" => picked[c] \subseteq marked'
      BY <1>10, <1>12, <2>1 DEF OnceInv
    <2>3. p \in Consumers => picked[p] \subseteq marked'
      <3>1. SUFFICES ASSUME p \in Consumers PROVE picked[p] \subseteq marked'
        OBVIOUS
      <3>2. p \in owners /\ Role[p] = "runner" BY <1>1, <2>1, <3>1 DEF PointInv
      <3>3. index[p] \in DOMAIN inbox /\ picked[p] = {inbox[index[p]]}
        BY <1>1, <1>10, <3>1, <3>2 DEF PickedInv
      <3>4. marked' = marked \cup picked[p]
        BY <1>2, <1>11, <3>1, <3>2, <3>3, NewContentKeeps DEF new, Current
      <3>5. QED BY <3>4
    <2>4. \A c \in Consumers : pc'[c] = "unlocking" => picked[c] \subseteq marked'
      BY <1>3, <1>6, <2>2, <2>3
    <2>5. QED BY <1>10, <1>12, <2>1, <2>4 DEF OnceInv
  <1>18. QED BY <1>14, <1>15, <1>16, <1>17

LEMMA TookMore ==
  ASSUME TypeOK, NEW messages, Took(messages)
  PROVE  /\ taken' \in [Messages -> 0..2]
         /\ \A m \in Messages : /\ taken[m] > 0 => taken'[m] > 0
                                /\ m \in messages => taken'[m] > 0
                                /\ m \notin messages => taken'[m] = taken[m]
                                /\ taken[m] = 0 /\ m \in messages => taken'[m] = 1
  BY DEF Took, TypeOK

(* A marking that ends, whether or not it has marked anything.              *)
LEMMA FinishStep ==
  ASSUME MailInv, NEW p \in Processes, Unlock(p) \/ GiveUp(p) PROVE MailInv'
  <1> USE DEF MailInv
  <1>1. /\ Finish(p)
        /\ UNCHANGED <<file, inbox, marked, content, index, owners, aborted, crashes, exposed, damaged>>
        /\ gaveUp' \in BOOLEAN /\ (gaveUp => gaveUp')
        /\ pc[p] \in {"locking", "unlocking"}
        /\ pc[p] = "locking" => gaveUp' /\ lock' = lock
        /\ pc[p] = "unlocking" => lock' = IF lock = p THEN Nobody ELSE lock
    BY DEF Unlock, GiveUp, fileVars, TypeOK
  <1>2. \A c \in Consumers : c \in Processes /\ c \notin Messages BY Constants DEF Processes
  <1>3. /\ pc' \in [Processes -> Points] /\ pc'[p] \in {"done", "turn", "idle", "ended"}
        /\ \A q \in Processes : q # p => pc'[q] = pc[q]
        /\ p \in Consumers /\ p \notin aborted =>
             pc'[p] = IF Role[p] = "runner" THEN "turn" ELSE "idle"
        /\ p \in Consumers /\ p \in aborted => pc'[p] = "ended"
    BY <1>1, <1>2 DEF Finish, Goto, TypeOK, Points
  <1>4. /\ picked' \in [Consumers -> SUBSET Messages]
        /\ \A c \in Consumers :
             picked'[c] = IF c = p /\ p \notin aborted THEN {} ELSE picked[c]
    BY <1>1, <1>2 DEF Finish, TypeOK
  <1>5. \/ UNCHANGED taken /\ (p \in Consumers =>
                               Role[p] \in {"poller", "attachments"} \/ p \in aborted)
        \/ /\ p \in Consumers /\ p \notin aborted
           /\ Role[p] \in {"runner", "print"} /\ Took(picked[p])
    <2>1. p \in Messages \/ p \in Consumers BY DEF Processes
    <2>2. p \in Messages => UNCHANGED taken /\ p \notin Consumers
      BY <1>1, <1>2 DEF Finish
    <2>3. p \in Consumers => p \notin Messages
            /\ Role[p] \in {"runner", "poller", "attachments", "print"}
      BY <1>2, Constants
    <2>4. p \in Consumers => IF p \notin aborted /\ Role[p] \in {"runner", "print"}
                             THEN Took(picked[p]) ELSE UNCHANGED taken
      BY <1>1, <2>3 DEF Finish
    <2>5. QED BY <2>1, <2>2, <2>3, <2>4
  <1>6. taken' \in [Messages -> 0..2] /\ \A m \in Messages : taken[m] > 0 => taken'[m] > 0
    BY <1>5, TookMore DEF TypeOK
  <1>7. TypeOK'
    <2>1. lock' \in Processes \cup {Nobody} BY <1>1 DEF TypeOK
    <2>2. QED BY <1>1, <1>3, <1>4, <1>6, <2>1 DEF TypeOK
  <1>8. PointInv'
    <2>1. SUFFICES ASSUME NEW c \in Consumers
                   PROVE  /\ pc'[c] \in {"idle", "turn", "locking", "writing", "unlocking",
                                        "ended"}
                          /\ pc'[c] \in {"idle", "turn"} => picked'[c] = {}
                          /\ pc'[c] \in {"turn", "ended"} \/ c \in aborted' => Role[c] = "runner"
                          /\ c \notin owners => pc'[c] = "idle" /\ c \notin aborted'
                          /\ Role[c] \in {"poller", "attachments"} =>
                               \A m \in picked'[c] : taken'[m] > 0
      BY <1>1 DEF PointInv
    <2>2. CASE c = p
      <3>1. c \in owners BY <1>1, <2>2 DEF PointInv
      <3>2. CASE c \in aborted
        <4>1. pc'[c] = "ended" /\ Role[c] = "runner" BY <1>3, <2>2, <3>2 DEF PointInv
        <4>2. QED BY <3>1, <4>1
      <3>3. CASE c \notin aborted
        <4>1. /\ pc'[c] = IF Role[c] = "runner" THEN "turn" ELSE "idle"
              /\ picked'[c] = {} /\ c \notin aborted'
          BY <1>1, <1>3, <1>4, <2>2, <3>3
        <4>2. QED BY <3>1, <4>1
      <3>4. QED BY <3>2, <3>3
    <2>3. CASE c # p
      <3>1. picked[c] \subseteq Messages BY DEF TypeOK
      <3>2. QED BY <1>1, <1>2, <1>3, <1>4, <1>6, <2>3, <3>1 DEF PointInv
    <2>4. QED BY <2>2, <2>3
  <1>9. LockHeld'
    <2>1. SUFFICES ASSUME NEW q \in Processes, pc'[q] \in {"writing", "unlocking"}
                   PROVE  lock' = q
      BY DEF LockHeld
    <2>2. q # p /\ pc[q] = pc'[q] BY <1>3, <2>1
    <2>3. lock = q /\ (pc[p] = "unlocking" => lock = p) BY <2>1, <2>2 DEF LockHeld
    <2>4. QED BY <1>1, <2>2, <2>3
  <1>10. FileInv'
    <2>1. \A q \in Processes : pc[q] = "writing" => pc'[q] = "writing" BY <1>1, <1>3
    <2>2. QED BY <1>1, <2>1 DEF FileInv
  <1>11. ContentInv'
    <2>1. \A q \in Processes : NewContent(q, Current)' = NewContent(q, Current)
      BY <1>1 DEF NewContent, MarkIndex, Current
    <2>2. \A q \in Processes : pc'[q] = "writing" => pc[q] = "writing" BY <1>3
    <2>3. QED BY <1>1, <2>1, <2>2 DEF ContentInv
  <1>12. PickedInv'
    <2>1. \A c \in Consumers : pc'[c] \in {"locking", "writing"} =>
            c # p /\ pc[c] = pc'[c] /\ picked'[c] = picked[c]
      BY <1>2, <1>3, <1>4
    <2>2. QED BY <1>1, <2>1 DEF PickedInv, Seen
  <1>13. NothingSkipped'
    <2>1. SUFFICES ASSUME ~damaged, NEW m \in marked PROVE Accounted(m)'
      BY <1>1 DEF NothingSkipped, Accounted
    <2>2. m \in Messages /\ Accounted(m) BY <2>1 DEF TypeOK, NothingSkipped, Accounted
    <2>3. CASE taken[m] > 0 \/ m \in exposed
      BY <1>1, <1>6, <2>2, <2>3 DEF Accounted
    <2>4. ASSUME NEW c \in Consumers, m \in picked[c] PROVE Accounted(m)'
      <3>1. CASE c # p BY <1>4, <2>4, <3>1 DEF Accounted
      <3>2. CASE c = p
        <4>1. CASE Role[p] \in {"poller", "attachments"}
          <5>1. taken[m] > 0 BY <2>4, <3>2, <4>1 DEF PointInv
          <5>2. QED BY <1>6, <2>2, <5>1 DEF Accounted
        <4>2. CASE Role[p] \notin {"poller", "attachments"}
          <5>1. CASE p \in aborted BY <1>4, <2>4, <3>2, <5>1 DEF Accounted
          <5>2. CASE p \notin aborted
            <6>1. Took(picked[p]) BY <1>5, <2>4, <3>2, <4>2, <5>2
            <6>2. taken'[m] > 0 BY <2>2, <2>4, <3>2, <6>1, TookMore
            <6>3. QED BY <6>2 DEF Accounted
          <5>3. QED BY <5>1, <5>2
        <4>3. QED BY <4>1, <4>2
      <3>3. QED BY <3>1, <3>2
    <2>5. QED BY <2>2, <2>3, <2>4 DEF Accounted
  <1>14. OnceInv'
    <2>1. SUFFICES ASSUME \A c \in owners : Role[c] = "runner", ~gaveUp', ~damaged
                   PROVE  /\ \A m \in Messages : taken'[m] <= 1 /\ (taken'[m] > 0 => m \in marked)
                          /\ \A c \in Consumers : \A m \in picked'[c] : taken'[m] = 0
                          /\ \A c \in Consumers :
                               pc'[c] = "unlocking" => picked'[c] \subseteq marked
      BY <1>1 DEF OnceInv
    <2>2. ~gaveUp /\ pc[p] = "unlocking" BY <1>1, <2>1
    <2>3. /\ \A m \in Messages : taken[m] <= 1 /\ (taken[m] > 0 => m \in marked)
          /\ \A c \in Consumers : \A m \in picked[c] : taken[m] = 0
          /\ \A c \in Consumers : pc[c] = "unlocking" => picked[c] \subseteq marked
      BY <2>1, <2>2 DEF OnceInv
    <2>4. \A c \in Consumers : pc'[c] = "unlocking" => picked'[c] \subseteq marked
      BY <1>2, <1>3, <1>4, <2>3
    <2>5. CASE UNCHANGED taken
      BY <1>4, <2>3, <2>4, <2>5
    <2>6. CASE p \in Consumers /\ p \notin aborted /\ Took(picked[p])
      <3>1. picked[p] \subseteq Messages /\ taken \in [Messages -> 0..2]
        BY <2>6 DEF TypeOK
      <3>2. \A m \in Messages :
              /\ m \in picked[p] => taken'[m] = 1 /\ m \in marked
              /\ m \notin picked[p] => taken'[m] = taken[m]
        BY <2>2, <2>3, <2>6, <3>1, TookMore
      <3>3. \A m \in Messages : taken'[m] <= 1 /\ (taken'[m] > 0 => m \in marked)
        BY <2>3, <3>2
      <3>4. \A c \in Consumers : c # p => picked[c] = {}
        <4>1. p \in owners /\ Role[p] = "runner" BY <2>1, <2>2, <2>6 DEF PointInv
        <4>2. owners \in Owners BY DEF TypeOK
        <4>3. \A c \in owners : c = p BY <2>1, <4>1, <4>2, Constants
        <4>4. QED BY <4>3 DEF PointInv
      <3>5. \A c \in Consumers : picked'[c] = {} BY <1>4, <2>6, <3>4
      <3>6. QED BY <2>4, <3>3, <3>5
    <2>7. QED BY <1>5, <2>5, <2>6
  <1>15. QED BY <1>7, <1>8, <1>9, <1>10, <1>11, <1>12, <1>13, <1>14

(* A consumer picks messages, by index or all that it will mark.            *)
LEMMA Picks ==
  ASSUME MailInv, NEW c \in Consumers, c \in owners, pc[c] \in {"idle", "turn"},
         file = "whole", NEW messages \in SUBSET Unread(ReadMailbox),
         Goto(c, "locking"), picked' = [picked EXCEPT ![c] = messages],
         UNCHANGED <<fileVars, lock, content, owners, aborted, crashes, exposed, gaveUp, damaged>>,
         IF Role[c] = "runner"
         THEN /\ index' \in [Consumers -> Nat]
              /\ \A d \in Consumers : d # c => index'[d] = index[d]
              /\ index'[c] \in DOMAIN inbox /\ messages = {inbox[index'[c]]}
         ELSE UNCHANGED index /\ \A m \in Unread(ReadMailbox) :
                m \in messages \/ (Role[c] = "attachments" /\ Structured(m)),
         \/ UNCHANGED taken /\ Role[c] \in {"runner", "print"}
         \/ Took(messages) /\ Role[c] # "runner"
  PROVE  MailInv'
  <1> USE DEF MailInv
  <1>1. UNCHANGED <<file, inbox, marked>> BY DEF fileVars
  <1>2. \A d \in Consumers : d \in Processes /\ d \notin Messages BY Constants DEF Processes
  <1>3. /\ pc' \in [Processes -> Points] /\ pc'[c] = "locking"
        /\ \A q \in Processes : q # c => pc'[q] = pc[q]
    BY <1>2 DEF Goto, TypeOK, Points
  <1>4. messages \subseteq Messages /\ messages \cap marked = {}
        /\ \A m \in Range(inbox) : m \in marked \/ m \in Unread(ReadMailbox)
    <2>1. ReadMailbox = Current /\ Unread(ReadMailbox) \subseteq Messages BY ReadType
    <2>2. QED BY <2>1 DEF Unread, Current
  <1>5. /\ picked' \in [Consumers -> SUBSET Messages]
        /\ \A d \in Consumers : picked'[d] = IF d = c THEN messages ELSE picked[d]
    BY <1>4 DEF TypeOK
  <1>6. taken' \in [Messages -> 0..2] /\ \A m \in Messages : taken[m] > 0 => taken'[m] > 0
    BY TookMore DEF TypeOK
  <1>7. index' \in [Consumers -> Nat] BY DEF TypeOK
  <1>8. TypeOK' BY <1>1, <1>3, <1>5, <1>6, <1>7 DEF TypeOK
  <1>9. PointInv'
    <2>1. SUFFICES ASSUME NEW d \in Consumers
                   PROVE  /\ pc'[d] \in {"idle", "turn", "locking", "writing", "unlocking",
                                        "ended"}
                          /\ pc'[d] \in {"idle", "turn"} => picked'[d] = {}
                          /\ pc'[d] \in {"turn", "ended"} \/ d \in aborted' => Role[d] = "runner"
                          /\ d \notin owners => pc'[d] = "idle" /\ d \notin aborted'
                          /\ Role[d] \in {"poller", "attachments"} =>
                               \A m \in picked'[d] : taken'[m] > 0
      BY DEF PointInv
    <2>2. CASE d = c
      <3>1. Role[c] \in {"poller", "attachments"} => \A m \in messages : taken'[m] > 0
        BY <1>4, TookMore
      <3>2. c \in aborted' => Role[c] = "runner" BY DEF PointInv
      <3>3. QED BY <1>3, <1>5, <2>2, <3>1, <3>2
    <2>3. CASE d # c
      <3>1. picked[d] \subseteq Messages BY DEF TypeOK
      <3>2. QED BY <1>2, <1>3, <1>5, <1>6, <2>3, <3>1 DEF PointInv
    <2>4. QED BY <2>2, <2>3
  <1>10. LockHeld' BY <1>2, <1>3 DEF LockHeld
  <1>11. \A q \in Processes : (pc'[q] = "writing" <=> pc[q] = "writing") BY <1>2, <1>3
  <1>12. FileInv' BY <1>1, <1>11 DEF FileInv
  <1>13. ContentInv'
    <2>1. SUFFICES ASSUME ~damaged, NEW q \in Processes, pc'[q] = "writing"
                   PROVE  content[q] = NewContent(q, Current)'
      BY <1>1 DEF ContentInv
    <2>2. q # c /\ content[q] = NewContent(q, Current)
      BY <1>3, <1>11, <2>1 DEF ContentInv
    <2>3. q \in Consumers => index'[q] = index[q] BY <2>2
    <2>4. CASE q \in Messages BY <1>1, <2>2, <2>4 DEF NewContent, Current
    <2>5. CASE q \notin Messages
      <3>1. q \in Consumers BY <2>5 DEF Processes
      <3>2. NewContent(q, Current)' = NewContent(q, Current)
        <4>1. index'[q] = index[q] /\ Current' = Current BY <1>1, <2>3, <3>1 DEF Current
        <4>2. QED BY <2>5, <4>1 DEF NewContent, MarkIndex
      <3>3. QED BY <2>2, <3>2
    <2>6. QED BY <2>4, <2>5
  <1>14. PickedInv'
    <2>1. SUFFICES ASSUME ~damaged, NEW d \in Consumers, pc'[d] \in {"locking", "writing"}
                   PROVE  IF Role[d] = "runner"
                          THEN index'[d] \in DOMAIN inbox /\ picked'[d] = {inbox[index'[d]]}
                          ELSE \A m \in Range(inbox) : Seen(d, m)'
      BY <1>1 DEF PickedInv
    <2>2. CASE d = c BY <1>1, <1>4, <1>5, <2>2 DEF Seen
    <2>3. CASE d # c
      <3>1. pc[d] = pc'[d] /\ picked'[d] = picked[d] /\ index'[d] = index[d]
        BY <1>2, <1>3, <1>5, <2>3
      <3>2. QED BY <1>1, <2>1, <3>1 DEF PickedInv, Seen
    <2>4. QED BY <2>2, <2>3
  <1>15. NothingSkipped'
    <2>1. SUFFICES ASSUME ~damaged, NEW m \in marked PROVE Accounted(m)'
      BY <1>1 DEF NothingSkipped, Accounted
    <2>2. m \in Messages /\ Accounted(m) BY <2>1 DEF TypeOK, NothingSkipped, Accounted
    <2>3. picked[c] = {} BY DEF PointInv
    <2>4. ASSUME NEW d \in Consumers, m \in picked[d] PROVE m \in picked'[d]
      BY <1>5, <2>3, <2>4
    <2>5. QED BY <1>6, <2>2, <2>4 DEF Accounted
  <1>16. OnceInv'
    <2>1. SUFFICES ASSUME \A d \in owners : Role[d] = "runner", ~gaveUp, ~damaged
                   PROVE  /\ \A m \in Messages : taken'[m] <= 1 /\ (taken'[m] > 0 => m \in marked)
                          /\ \A d \in Consumers : \A m \in picked'[d] : taken'[m] = 0
                          /\ \A d \in Consumers :
                               pc'[d] = "unlocking" => picked'[d] \subseteq marked
      BY <1>1 DEF OnceInv
    <2>2. UNCHANGED taken BY <2>1
    <2>3. \A m \in messages : taken[m] = 0
      <3>1. SUFFICES ASSUME NEW m \in messages PROVE taken[m] = 0
        OBVIOUS
      <3>2. m \in Messages /\ m \notin marked BY <1>4
      <3>3. ~(taken[m] > 0) /\ taken[m] \in 0..2 BY <2>1, <3>2 DEF OnceInv, TypeOK
      <3>4. QED BY <3>3
    <2>4. \A d \in Consumers : \A m \in picked'[d] : taken'[m] = 0
      BY <1>5, <2>1, <2>2, <2>3 DEF OnceInv
    <2>5. \A d \in Consumers : pc'[d] = "unlocking" => picked'[d] \subseteq marked
      BY <1>2, <1>3, <1>5, <2>1 DEF OnceInv
    <2>6. QED BY <2>1, <2>2, <2>4, <2>5 DEF OnceInv
  <1>17. QED BY <1>8, <1>9, <1>10, <1>12, <1>13, <1>14, <1>15, <1>16

LEMMA IndexTaken ==
  ASSUME MailInv, NEW c \in Consumers, c \in owners, Role[c] = "runner",
         pc[c] \in {"idle", "turn"},
         NEW messages \in SUBSET Unread(ReadMailbox), TakeByIndex(c, messages)
  PROVE  MailInv'
  <1> DEFINE i == First(ReadMailbox, messages)
  <1>1. /\ messages # {} /\ Goto(c, "locking")
        /\ index' = [index EXCEPT ![c] = i]
        /\ picked' = [picked EXCEPT ![c] = {ReadMailbox.inbox[i]}]
        /\ UNCHANGED <<fileVars, lock, content, owners, aborted, crashes, ghostVars>>
    BY DEF TakeByIndex
  <1>2. /\ ReadMailbox \in Contents /\ file = "whole" /\ ReadMailbox = Current
        /\ messages \subseteq Range(ReadMailbox.inbox)
    BY <1>1, ReadType DEF MailInv
  <1>3. i \in DOMAIN ReadMailbox.inbox /\ i \in Nat /\ ReadMailbox.inbox[i] \in messages
    BY <1>1, <1>2, FirstIsOne
  <1> HIDE DEF i
  <1>4. i \in DOMAIN inbox /\ ReadMailbox.inbox[i] = inbox[i] BY <1>2, <1>3 DEF Current
  <1>5. {inbox[i]} \in SUBSET Unread(ReadMailbox) BY <1>3, <1>4
  <1>6. index' \in [Consumers -> Nat] /\ index'[c] = i
        /\ \A d \in Consumers : d # c => index'[d] = index[d]
    BY <1>1, <1>3 DEF MailInv, TypeOK
  <1>7. picked' = [picked EXCEPT ![c] = {inbox[i]}] BY <1>1, <1>4
  <1>8. UNCHANGED <<fileVars, lock, content, owners, aborted, crashes, exposed, gaveUp, damaged, taken>>
    BY <1>1 DEF ghostVars
  <1>9. QED BY <1>1, <1>2, <1>4, <1>5, <1>6, <1>7, <1>8, Picks

LEMMA ReadSteps ==
  ASSUME MailInv, NEW c \in Consumers,
         \/ RunnerPoll(c) \/ PermissionPoll(c)
         \/ InboxPoll(c) \/ Attach(c) \/ PrintPoll(c)
  PROVE  MailInv'
  <1> DEFINE unread == Unread(ReadMailbox)
  <1>1. unread # {} => file = "whole" BY ReadType DEF MailInv
  <1> HIDE DEF unread
  <1>2. CASE RunnerPoll(c)
    <2>1. Preferred(unread) \subseteq unread BY DEF Preferred, OfKind, FromLead
    <2>2. QED BY <1>2, <2>1, IndexTaken DEF RunnerPoll, unread
  <1>3. CASE PermissionPoll(c)
    <2>1. OfKind(unread, "permission") \subseteq unread BY DEF OfKind
    <2>2. QED BY <1>3, <2>1, IndexTaken DEF PermissionPoll, unread
  <1>4. CASE InboxPoll(c)
    <2>1. /\ c \in owners /\ Role[c] = "poller" /\ pc[c] = "idle" /\ unread # {}
          /\ picked' = [picked EXCEPT ![c] = unread] /\ Took(picked'[c])
          /\ Goto(c, "locking")
          /\ UNCHANGED <<fileVars, lock, content, index, owners, aborted, crashes, exposed,
                         gaveUp, damaged>>
      BY <1>4 DEF InboxPoll, unread
    <2>2. picked'[c] = unread BY <2>1 DEF MailInv, TypeOK
    <2>3. QED BY <1>1, <2>1, <2>2, Picks DEF unread
  <1>5. CASE Attach(c)
    <2>1. PICK messages : /\ messages = {m \in unread : ~Structured(m)}
                          /\ messages # {} /\ Took(messages)
                          /\ picked' = [picked EXCEPT ![c] = messages]
      BY <1>5 DEF Attach, unread
    <2>2. /\ c \in owners /\ Role[c] = "attachments" /\ pc[c] = "idle"
          /\ Goto(c, "locking")
          /\ UNCHANGED <<fileVars, lock, content, index, owners, aborted, crashes, exposed,
                         gaveUp, damaged>>
      BY <1>5 DEF Attach
    <2>3. messages \in SUBSET unread /\ unread # {}
          /\ \A m \in unread : m \in messages \/ Structured(m)
      BY <2>1
    <2>4. QED BY <1>1, <2>1, <2>2, <2>3, Picks DEF unread
  <1>6. CASE PrintPoll(c)
    <2>1. /\ c \in owners /\ Role[c] = "print" /\ pc[c] = "idle" /\ unread # {}
          /\ picked' = [picked EXCEPT ![c] = unread] /\ Goto(c, "locking")
          /\ UNCHANGED <<fileVars, lock, content, index, owners, aborted, crashes, exposed,
                         gaveUp, damaged, taken>>
      BY <1>6 DEF PrintPoll, unread, ghostVars
    <2>2. QED BY <1>1, <2>1, Picks DEF unread
  <1>7. QED BY <1>2, <1>3, <1>4, <1>5, <1>6

LEMMA NextMail == MailInv /\ [Next]_vars => MailInv'
  <1> SUFFICES ASSUME MailInv, [Next]_vars PROVE MailInv'
    OBVIOUS
  <1>1. ASSUME NEW m \in Messages, Sends(m) \/ Crash(m) PROVE MailInv'
    BY <1>1, MessageSteps DEF Sends
  <1>2. ASSUME NEW p \in Processes, Proceeds(p) \/ GiveUp(p) PROVE MailInv'
    BY <1>2, LockAndReadStep, WriteStep, FinishStep DEF Proceeds
  <1>3. ASSUME NEW c \in Consumers, Polls(c) \/ Works(c) PROVE MailInv'
    BY <1>3, ReadSteps, StaleSteps DEF Polls
  <1>4. CASE LockGoesStale BY <1>4, StaleSteps
  <1>5. CASE UNCHANGED vars
    <2>1. UNCHANGED <<file, inbox, marked, lock, pc, content, picked, index, owners,
                      aborted, crashes, taken, exposed, gaveUp, damaged>>
      BY <1>5 DEF vars, fileVars, ghostVars
    <2>2. TypeOK' /\ FileInv' BY <2>1 DEF MailInv, TypeOK, FileInv
    <2>3. QED BY <2>1, <2>2, Stays
  <1>6. QED BY <1>1, <1>2, <1>3, <1>4, <1>5 DEF Next

LEMMA AlwaysMail == Spec => []MailInv
  BY InitMail, NextMail, PTL DEF Spec

-------------------------------------------------------------------------------
(* The theorems *)

(* Every variable keeps its type.                                          *)
THEOREM TypeCorrect == Spec => []TypeOK
  <1>1. MailInv => TypeOK BY DEF MailInv
  <1>2. QED BY <1>1, AlwaysMail, PTL

(* No message is marked as read that was not handed on, is not being handed *)
(* on and was not written between a read and the marking of the whole       *)
(* inbox, unless the file was damaged.                                     *)
THEOREM NothingPassedOver == Spec => []NothingSkipped
  <1>1. MailInv => NothingSkipped BY DEF MailInv
  <1>2. QED BY <1>1, AlwaysMail, PTL

(* The loop of an in-process teammate takes no message twice, unless a      *)
(* marking was given up or the file was damaged.                           *)
THEOREM NoneTakenTwice == Spec => []TakenOnce
  <1>1. MailInv => TakenOnce
    BY DEF MailInv, OnceInv, TakenOnce
  <1>2. QED BY <1>1, AlwaysMail, PTL

(* Every write keeps the messages of the inbox where they are, and their    *)
(* marks, unless the file was damaged.                                     *)
THEOREM WritesKeepInbox == Spec => InboxKept
  <1> DEFINE Kept == ~damaged' => /\ Len(inbox) <= Len(inbox')
                                  /\ inbox = SubSeq(inbox', 1, Len(inbox))
                                  /\ marked \subseteq marked'
  <1>1. MailInv /\ [Next]_vars => Kept
    <2> SUFFICES ASSUME MailInv, [Next]_vars PROVE Kept
      OBVIOUS
    <2>1. ASSUME UNCHANGED <<inbox, marked>> PROVE Kept
      <3>1. inbox \in Seq(Messages) BY DEF MailInv, TypeOK
      <3>2. Len(inbox) \in Nat /\ \A i \in 1..Len(inbox) : inbox[i] \in Messages
        BY <3>1, LenProperties, ElementOfSeq
      <3>3. /\ SubSeq(inbox, 1, Len(inbox)) \in Seq(Messages)
            /\ Len(SubSeq(inbox, 1, Len(inbox))) = Len(inbox)
            /\ \A i \in 1..Len(inbox) : SubSeq(inbox, 1, Len(inbox))[i] = inbox[i]
        BY <3>1, <3>2
      <3>4. inbox = SubSeq(inbox, 1, Len(inbox)) BY <3>1, <3>2, <3>3, SeqEqual
      <3>5. QED BY <2>1, <3>2, <3>4
    <2>2. ASSUME NEW p \in Processes, Write(p) PROVE Kept
      <3>1. SUFFICES ASSUME ~damaged PROVE Kept
        BY <2>2 DEF Write
      <3>2. /\ inbox' = NewContent(p, Current).inbox
            /\ marked' = NewContent(p, Current).marked
            /\ Current \in Contents /\ marked \subseteq Range(inbox)
        BY <2>2, <3>1, ReadType DEF Write, MailInv, ContentInv
      <3>3. Current.inbox = inbox /\ Current.marked = marked BY DEF Current
      <3>4. QED BY <3>2, <3>3, NewContentKeeps DEF MailInv
    <2>3. \/ UNCHANGED <<inbox, marked>>
          \/ \E p \in Processes : Write(p)
      BY DEF Next, Sends, Crash, Proceeds, GiveUp, Polls, PermissionPoll, Attach,
             LockGoesStale, CreateFile, WriteEmptyArray, LockAndRead, Unlock,
             RunnerPoll, Works, TurnEnds, WaitEnds, OtherPrompt, Abort, InboxPoll,
             PrintPoll, TakeByIndex, vars, fileVars
    <2>4. QED BY <2>1, <2>2, <2>3
  <1>2. MailInv /\ [Next]_vars => [Kept]_vars BY <1>1
  <1>3. QED BY <1>2, AlwaysMail, PTL DEF Spec, InboxKept
===============================================================================
