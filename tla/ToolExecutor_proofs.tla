------------------------- MODULE ToolExecutor_proofs -------------------------
(***************************************************************************)
(* Proofs about ToolExecutor for any kinds of tools, any number of calls   *)
(* and any number of streaming fallbacks.                                  *)
(***************************************************************************)
EXTENDS ToolExecutor, TLAPS

(* How a step may change a tracked tool: it never moves back.              *)
Later(t, u) ==
  /\ u.kind = t.kind /\ u.executor = t.executor
  /\ \/ u.status = t.status
     \/ t.status = "executing" /\ u.status = "completed"
     \/ t.status = "completed" /\ u.status = "yielded"

(* The three ways in which a step changes the tracked tools.               *)
Added ==
  \E t \in Tool : /\ tools' = Append(tools, t)
                  /\ t.status \in {"queued", "completed"}
                  /\ t.status = "queued" <=> t.kind.known

Started ==
  \E i \in DOMAIN tools :
    /\ Startable(i)
    /\ \E s \in {"executing", "completed"} :
         tools' = [tools EXCEPT ![i].status = s]

Advanced ==
  /\ DOMAIN tools' = DOMAIN tools
  /\ \A i \in DOMAIN tools : Later(tools[i], tools'[i])

LEMMA KindsTyped == ASSUME ToolConstants PROVE \A k \in Kinds : k.known \in BOOLEAN
  BY DEF ToolConstants, KindType

LEMMA ToolAt ==
  ASSUME TypeOK, NEW i \in DOMAIN tools
  PROVE  tools[i] \in Tool /\ i \in 1..Len(tools) /\ DOMAIN tools = 1..Len(tools)
  BY DEF TypeOK

(* Overwriting the status or the progress of a tool keeps a tool list.     *)
LEMMA StatusWritten ==
  ASSUME TypeOK, NEW i \in DOMAIN tools,
         NEW s \in {"queued", "executing", "completed", "yielded"}
  PROVE  /\ [tools EXCEPT ![i].status = s] \in Seq(Tool)
         /\ Len([tools EXCEPT ![i].status = s]) = Len(tools)
         /\ DOMAIN [tools EXCEPT ![i].status = s] = DOMAIN tools
         /\ \A j \in DOMAIN tools \ {i} :
              [tools EXCEPT ![i].status = s][j] = tools[j]
         /\ [tools EXCEPT ![i].status = s][i] = [tools[i] EXCEPT !.status = s]
  <1>1. [tools[i] EXCEPT !.status = s] \in Tool
    BY ToolAt DEF Tool
  <1>2. QED BY <1>1, ToolAt DEF TypeOK

LEMMA ProgressWritten ==
  ASSUME TypeOK, NEW i \in DOMAIN tools
  PROVE  /\ [tools EXCEPT ![i].progress = TRUE] \in Seq(Tool)
         /\ Len([tools EXCEPT ![i].progress = TRUE]) = Len(tools)
         /\ DOMAIN [tools EXCEPT ![i].progress = TRUE] = DOMAIN tools
         /\ \A j \in DOMAIN tools :
              /\ [tools EXCEPT ![i].progress = TRUE][j].status = tools[j].status
              /\ [tools EXCEPT ![i].progress = TRUE][j].kind = tools[j].kind
              /\ [tools EXCEPT ![i].progress = TRUE][j].executor
                   = tools[j].executor
  <1>1. [tools[i] EXCEPT !.progress = TRUE] \in Tool
    BY ToolAt DEF Tool
  <1>2. QED BY <1>1, ToolAt DEF TypeOK, Tool

LEMMA FailureWritten ==
  ASSUME TypeOK, NEW i \in DOMAIN tools
  PROVE  /\ [tools EXCEPT ![i].failed = TRUE] \in Seq(Tool)
         /\ Len([tools EXCEPT ![i].failed = TRUE]) = Len(tools)
         /\ DOMAIN [tools EXCEPT ![i].failed = TRUE] = DOMAIN tools
         /\ \A j \in DOMAIN tools :
              /\ [tools EXCEPT ![i].failed = TRUE][j].status = tools[j].status
              /\ [tools EXCEPT ![i].failed = TRUE][j].kind = tools[j].kind
              /\ [tools EXCEPT ![i].failed = TRUE][j].executor
                   = tools[j].executor
  <1>1. [tools[i] EXCEPT !.failed = TRUE] \in Tool
    BY ToolAt DEF Tool
  <1>2. QED BY <1>1, ToolAt DEF TypeOK, Tool

LEMMA PolledIsTools ==
  ASSUME TypeOK
  PROVE  /\ Polled \in Seq(Tool) /\ Len(Polled) = Len(tools)
         /\ DOMAIN Polled = DOMAIN tools
         /\ \A i \in DOMAIN tools : Later(tools[i], Polled[i])
  <1>1. ASSUME NEW i \in DOMAIN tools
        PROVE  /\ HandedOver(tools[i]) \in Tool
               /\ Later(tools[i], HandedOver(tools[i]))
    BY ToolAt DEF HandedOver, Tool, Later
  <1>2. ASSUME NEW i \in DOMAIN tools
        PROVE  Polled[i] \in Tool /\ Later(tools[i], Polled[i])
    BY <1>1, ToolAt DEF Polled, Later
  <1>3. DOMAIN Polled = 1..Len(tools) /\ Len(tools) \in Nat
    BY DEF Polled, TypeOK
  <1>4. QED BY <1>2, <1>3 DEF Polled, TypeOK

-----------------------------------------------------------------------------
(* What each action does to the tools *)

(* A tool that ends moves from executing to completed.                     *)
LEMMA FinishedAdvances ==
  ASSUME TypeOK, NEW i \in DOMAIN tools, tools[i].status = "executing",
         Finished(i)
  PROVE  /\ tools' \in Seq(Tool) /\ Len(tools') = Len(tools)
         /\ Advanced
         /\ interruptible' = Interruptible(tools', tools[i].executor)
         /\ consumer' \in {consumer, "looping"}
  <1> DEFINE ended == [tools[i] EXCEPT !.status = "completed", !.failed = FALSE]
  <1>1. tools' = [tools EXCEPT ![i] = ended] /\ ended \in Tool
    BY ToolAt DEF Finished, Tool
  <1>2. /\ tools' \in Seq(Tool) /\ Len(tools') = Len(tools)
        /\ DOMAIN tools' = DOMAIN tools
        /\ \A j \in DOMAIN tools \ {i} : tools'[j] = tools[j]
        /\ tools'[i] = ended
    BY <1>1, ToolAt DEF TypeOK
  <1>3. Later(tools[i], tools'[i])
    BY <1>2, ToolAt DEF Later, Tool
  <1>4. Advanced
    BY <1>2, <1>3 DEF Advanced, Later
  <1>5. QED BY <1>2, <1>4 DEF Finished, Woken

(* The tools that run are the same before and after.                       *)
SameRunning ==
  \A j \in DOMAIN tools' :
    /\ tools'[j].status = "executing" <=>
         j \in DOMAIN tools /\ tools[j].status = "executing"
    /\ j \in DOMAIN tools => /\ tools'[j].kind = tools[j].kind
                              /\ tools'[j].executor = tools[j].executor

(* How a step treats the interruptible flag.                               *)
FlagKept == /\ interruptible' = interruptible
            /\ DOMAIN tools \subseteq DOMAIN tools'
            /\ SameRunning
FlagSet == \E i \in DOMAIN tools :
             interruptible' = Interruptible(tools', tools[i].executor)

Stepped ==
  /\ tools' \in Seq(Tool) /\ Len(tools') <= MaxTools
  /\ Added \/ Started \/ Advanced
  /\ FlagKept \/ FlagSet

LEMMA AddSteps ==
  ASSUME ToolConstants, TypeOK, NEW k \in Kinds, AddTool(k) PROVE Stepped
  <1> DEFINE t == [kind |-> k, executor |-> executor,
                   status |-> IF k.known THEN "queued" ELSE "completed",
                   progress |-> FALSE, failed |-> FALSE]
  <1>1. t \in Tool /\ t.status \in {"queued", "completed"}
        /\ (t.status = "queued" <=> t.kind.known)
    BY KindsTyped DEF TypeOK, Tool
  <1>2. tools' = Append(tools, t) /\ interruptible' = interruptible
        /\ Len(tools) < MaxTools
    BY DEF AddTool
  <1>3. Added
    BY <1>1, <1>2 DEF Added
  <1> HIDE DEF t
  <1>4. /\ tools' \in Seq(Tool) /\ Len(tools') = Len(tools) + 1
        /\ DOMAIN tools = 1..Len(tools) /\ DOMAIN tools' = 1..(Len(tools) + 1)
        /\ Len(tools) \in Nat
        /\ tools'[Len(tools) + 1] = t
        /\ \A j \in 1..Len(tools) : tools'[j] = tools[j]
    BY <1>1, <1>2 DEF TypeOK
  <1>5. Len(tools') <= MaxTools
    BY <1>2, <1>4 DEF ToolConstants
  <1>6. FlagKept
    BY <1>1, <1>2, <1>4 DEF FlagKept, SameRunning
  <1>7. QED BY <1>3, <1>4, <1>5, <1>6 DEF Stepped

LEMMA PollSteps ==
  ASSUME TypeOK, tools' = Polled, interruptible' = interruptible PROVE Stepped
  <1>1. /\ tools' \in Seq(Tool) /\ Len(tools') = Len(tools)
        /\ DOMAIN tools' = DOMAIN tools
        /\ \A i \in DOMAIN tools : Later(tools[i], tools'[i])
    BY PolledIsTools
  <1>2. ASSUME NEW j \in DOMAIN tools
        PROVE  tools'[j].status = "executing" <=> tools[j].status = "executing"
    BY <1>1, ToolAt DEF Polled, HandedOver, Tool
  <1>3. FlagKept
    BY <1>1, <1>2 DEF FlagKept, SameRunning, Later
  <1>4. QED BY <1>1, <1>3 DEF Stepped, Advanced, TypeOK

LEMMA StartSteps ==
  ASSUME TypeOK, NEW i \in 1..MaxTools, Start(i) PROVE Stepped
  <1>1. i \in DOMAIN tools /\ Startable(i)
    BY DEF Start
  <1>2. PICK s \in {"executing", "completed"} :
          tools' = [tools EXCEPT ![i].status = s]
    BY DEF Start
  <1>3. tools' \in Seq(Tool) /\ Len(tools') = Len(tools)
    BY <1>1, <1>2, StatusWritten
  <1>4. Started
    BY <1>1, <1>2 DEF Started
  <1>5. FlagSet
    BY <1>1 DEF FlagSet, Start
  <1>6. QED BY <1>3, <1>4, <1>5 DEF Stepped, TypeOK

(* A step that writes into a running tool and leaves it running.           *)
LEMMA RunningWritten ==
  ASSUME TypeOK, interruptible' = interruptible,
         tools' \in Seq(Tool), Len(tools') = Len(tools),
         DOMAIN tools' = DOMAIN tools,
         \A j \in DOMAIN tools : /\ tools'[j].status = tools[j].status
                                 /\ tools'[j].kind = tools[j].kind
                                 /\ tools'[j].executor = tools[j].executor
  PROVE  Stepped
  <1>1. Advanced /\ FlagKept
    BY DEF Advanced, Later, FlagKept, SameRunning
  <1>2. QED BY <1>1 DEF Stepped, TypeOK

LEMMA ProgressSteps ==
  ASSUME TypeOK, NEW i \in 1..MaxTools, Progress(i) PROVE Stepped
  <1>1. i \in DOMAIN tools /\ tools[i].status = "executing"
    BY DEF Progress
  <1>2. CASE GivenUp(i)
    <2>1. Finished(i)
      BY <1>2 DEF Progress
    <2>2. QED BY <1>1, <2>1, FinishedAdvances DEF Stepped, FlagSet, TypeOK
  <1>3. CASE ~GivenUp(i)
    <2>1. tools' = [tools EXCEPT ![i].progress = TRUE]
          /\ interruptible' = interruptible
      BY <1>3 DEF Progress
    <2>2. QED BY <1>1, <2>1, ProgressWritten, RunningWritten
  <1>4. QED BY <1>2, <1>3

LEMMA FailsSteps ==
  ASSUME TypeOK, NEW i \in 1..MaxTools, Fails(i) PROVE Stepped
  <1>1. /\ i \in DOMAIN tools /\ tools' = [tools EXCEPT ![i].failed = TRUE]
        /\ interruptible' = interruptible
    BY DEF Fails
  <1>2. QED BY <1>1, FailureWritten, RunningWritten

LEMMA SettleSteps ==
  ASSUME TypeOK, NEW i \in 1..MaxTools, Settle(i) PROVE Stepped
  <1>1. i \in DOMAIN tools /\ tools[i].status = "executing" /\ Finished(i)
    BY DEF Settle
  <1>2. QED BY <1>1, FinishedAdvances DEF Stepped, FlagSet, TypeOK

LEMMA KeepSteps ==
  ASSUME TypeOK, UNCHANGED <<tools, interruptible>> PROVE Stepped
  BY DEF Stepped, Advanced, Later, FlagKept, SameRunning, TypeOK

LEMMA StepEffect ==
  ASSUME ToolConstants, TypeOK, [Next]_vars PROVE Stepped
  <1>1. ASSUME NEW k \in Kinds, AddTool(k) PROVE Stepped
    BY <1>1, AddSteps
  <1>2. CASE StreamPoll \/ Consume
    BY <1>2, PollSteps DEF StreamPoll, Consume
  <1>3. CASE Fallback \/ StreamEnds \/ \E why \in {"interrupt", "cancel"} : Abort(why)
    BY <1>3, KeepSteps DEF Fallback, StreamEnds, Abort
  <1>4. ASSUME NEW i \in 1..MaxTools,
               Start(i) \/ Progress(i) \/ Fails(i) \/ Settle(i)
        PROVE  Stepped
    BY <1>4, StartSteps, ProgressSteps, FailsSteps, SettleSteps
  <1>5. CASE UNCHANGED vars
    BY <1>5, KeepSteps DEF vars
  <1>6. QED BY <1>1, <1>2, <1>3, <1>4, <1>5 DEF Next

-----------------------------------------------------------------------------
(* Type correctness *)

LEMMA InitType == ASSUME ToolConstants, Init PROVE TypeOK
  <1>1. tools \in Seq(Tool) /\ Len(tools) <= MaxTools
    BY DEF ToolConstants, Init
  <1>2. executor \in 1..MaxExecutors /\ errored \subseteq 1..MaxExecutors
    BY DEF ToolConstants, Init
  <1>3. QED BY <1>1, <1>2 DEF Init, TypeOK

LEMMA StepType == ASSUME ToolConstants, TypeOK, [Next]_vars PROVE TypeOK'
  <1>1. tools' \in Seq(Tool) /\ Len(tools') <= MaxTools
    BY StepEffect DEF Stepped
  <1>e. MaxExecutors \in Nat
    BY DEF ToolConstants
  <1>2. executor' \in 1..MaxExecutors
    <2>1. CASE Fallback
      BY <2>1, <1>e DEF Fallback, TypeOK
    <2>2. CASE ~Fallback
      BY <2>2 DEF Next, AddTool, StreamPoll, StreamEnds, Abort, Start, Progress,
                  Fails, Settle, Consume, vars, TypeOK
    <2>3. QED BY <2>1, <2>2
  <1>3. errored' \subseteq 1..MaxExecutors /\ aborted' \in {"none", "interrupt", "cancel"}
    <2>1. ASSUME NEW i \in 1..MaxTools, Fails(i) \/ Settle(i)
          PROVE  /\ errored' \subseteq 1..MaxExecutors
                 /\ aborted' \in {"none", "interrupt", "cancel"}
      <3>1. tools[i].executor \in 1..MaxExecutors
        BY <2>1, ToolAt DEF Fails, Settle, Tool
      <3>2. QED BY <2>1, <3>1 DEF Fails, Settle, TypeOK
    <2>2. CASE \A i \in 1..MaxTools : ~(Fails(i) \/ Settle(i))
      BY <2>2 DEF Next, AddTool, StreamPoll, Fallback, StreamEnds, Abort, Start,
                  Progress, Consume, vars, TypeOK
    <2>3. QED BY <2>1, <2>2
  <1>4. consumer' \in {"streaming", "looping", "waiting", "done"}
    <2>1. ASSUME NEW i \in 1..MaxTools, Progress(i) \/ Settle(i)
          PROVE  consumer' \in {"streaming", "looping", "waiting", "done"}
      BY <2>1 DEF Progress, Settle, Finished, Woken, TypeOK
    <2>2. CASE \A i \in 1..MaxTools : ~(Progress(i) \/ Settle(i))
      BY <2>2 DEF Next, AddTool, StreamPoll, Fallback, StreamEnds, Abort, Start,
                  Fails, Consume, vars, TypeOK
    <2>3. QED BY <2>1, <2>2
  <1>5. interruptible' \in BOOLEAN
    BY StepEffect DEF Stepped, FlagKept, FlagSet, Interruptible, TypeOK
  <1>6. QED BY <1>1, <1>2, <1>3, <1>4, <1>5 DEF TypeOK

(* The tracked tools, the flags and the consumer stay what they are.       *)
THEOREM TypeCorrect == Spec => []TypeOK
  <1>1. Init => TypeOK
    BY InitType, ToolConstants
  <1>2. TypeOK /\ [Next]_vars => TypeOK'
    BY StepType, ToolConstants
  <1>3. QED BY <1>1, <1>2, PTL DEF Spec

-----------------------------------------------------------------------------
(* Concurrency control *)

(* What a started tool looks like, and what the others look like.          *)
LEMMA StartedAt ==
  ASSUME TypeOK, NEW i \in DOMAIN tools, NEW s \in {"executing", "completed"},
         tools' = [tools EXCEPT ![i].status = s]
  PROVE  /\ DOMAIN tools' = DOMAIN tools
         /\ \A j \in DOMAIN tools : /\ tools'[j].kind = tools[j].kind
                                    /\ tools'[j].executor = tools[j].executor
         /\ \A j \in DOMAIN tools \ {i} : tools'[j] = tools[j]
         /\ tools'[i].status = s
  BY StatusWritten, ToolAt DEF Tool

LEMMA AddedAt ==
  ASSUME TypeOK, NEW t \in Tool, tools' = Append(tools, t)
  PROVE  /\ DOMAIN tools' = 1..(Len(tools) + 1) /\ DOMAIN tools = 1..Len(tools)
         /\ Len(tools) \in Nat
         /\ tools'[Len(tools) + 1] = t
         /\ \A j \in DOMAIN tools : tools'[j] = tools[j]
  BY DEF TypeOK

(* A tool that is not concurrency-safe runs alone within its executor.     *)
LEMMA RunsAloneStep ==
  ASSUME ToolConstants, TypeOK, RunsAlone, [Next]_vars PROVE RunsAlone'
  <1>1. SUFFICES ASSUME NEW i \in DOMAIN tools', NEW j \in DOMAIN tools',
                        tools'[i].executor = tools'[j].executor,
                        tools'[i].status = "executing",
                        tools'[j].status = "executing", i # j
                 PROVE  tools'[i].kind.safe /\ tools'[j].kind.safe
    BY DEF RunsAlone
  <1>2. CASE Added
    <2>1. PICK t \in Tool : tools' = Append(tools, t) /\ t.status # "executing"
      BY <1>2 DEF Added
    <2>2. i \in DOMAIN tools /\ j \in DOMAIN tools
      BY <1>1, <2>1, AddedAt
    <2>3. QED BY <1>1, <2>1, <2>2, AddedAt DEF RunsAlone
  <1>3. CASE Started
    <2>1. PICK k \in DOMAIN tools : /\ Startable(k)
                                    /\ \E s \in {"executing", "completed"} :
                                         tools' = [tools EXCEPT ![k].status = s]
      BY <1>3 DEF Started
    <2>2. /\ DOMAIN tools' = DOMAIN tools
          /\ \A l \in DOMAIN tools : /\ tools'[l].kind = tools[l].kind
                                     /\ tools'[l].executor = tools[l].executor
          /\ \A l \in DOMAIN tools \ {k} : tools'[l] = tools[l]
      BY <2>1, StartedAt
    <2>3. \A l \in DOMAIN tools :
            tools[l].executor = tools[k].executor /\ tools[l].status = "executing"
              => tools[k].kind.safe /\ tools[l].kind.safe
      BY <2>1 DEF Startable, CanExecute, In, Of
    <2>4. QED BY <1>1, <2>2, <2>3 DEF RunsAlone
  <1>4. CASE Advanced
    BY <1>1, <1>4 DEF Advanced, Later, RunsAlone
  <1>5. QED BY <1>2, <1>3, <1>4, StepEffect DEF Stepped

(* A tool that must run alone holds back every later one.                  *)
LEMMA BarrierStep ==
  ASSUME ToolConstants, TypeOK, Barrier, [Next]_vars PROVE Barrier'
  <1>1. SUFFICES ASSUME NEW i \in DOMAIN tools', NEW j \in DOMAIN tools',
                        tools'[i].executor = tools'[j].executor, i < j,
                        ~(tools'[i].kind.safe /\ tools'[j].kind.safe),
                        tools'[i].kind.known, tools'[j].kind.known,
                        tools'[j].status # "queued"
                 PROVE  tools'[i].status \in {"completed", "yielded"}
    BY DEF Barrier
  <1>2. CASE Added
    <2>1. PICK t \in Tool : /\ tools' = Append(tools, t)
                            /\ t.status = "queued" <=> t.kind.known
      BY <1>2 DEF Added
    <2>2. i \in DOMAIN tools /\ j \in DOMAIN tools
      BY <1>1, <2>1, AddedAt
    <2>3. QED BY <1>1, <2>1, <2>2, AddedAt DEF Barrier
  <1>3. CASE Started
    <2>1. PICK k \in DOMAIN tools : /\ Startable(k)
                                    /\ \E s \in {"executing", "completed"} :
                                         tools' = [tools EXCEPT ![k].status = s]
      BY <1>3 DEF Started
    <2>2. /\ DOMAIN tools' = DOMAIN tools
          /\ \A l \in DOMAIN tools : /\ tools'[l].kind = tools[l].kind
                                     /\ tools'[l].executor = tools[l].executor
          /\ \A l \in DOMAIN tools \ {k} : tools'[l] = tools[l]
      BY <2>1, StartedAt
    <2>3. /\ tools[k].status = "queued"
          /\ \A l \in DOMAIN tools :
               tools[l].executor = tools[k].executor
                 => /\ tools[l].status = "queued" => k <= l
                    /\ tools[l].status = "executing"
                         => tools[k].kind.safe /\ tools[l].kind.safe
      BY <2>1 DEF Startable, FirstQueued, CanExecute, In, Of
    <2>4. CASE j = k
      <3>1. tools[i].status # "queued"
        BY <1>1, <2>2, <2>3, <2>4, ToolAt
      <3>2. tools[i].status # "executing"
        BY <1>1, <2>2, <2>3, <2>4
      <3>3. i # k
        BY <1>1, <2>4, <2>2, ToolAt
      <3>4. QED BY <2>2, <3>1, <3>2, <3>3, ToolAt DEF Tool
    <2>5. CASE j # k
      <3>1. tools[i].status \in {"completed", "yielded"}
        BY <1>1, <2>2, <2>5 DEF Barrier
      <3>2. QED BY <2>2, <2>3, <3>1
    <2>6. QED BY <2>4, <2>5
  <1>4. CASE Advanced
    BY <1>1, <1>4 DEF Advanced, Later, Barrier
  <1>5. QED BY <1>2, <1>3, <1>4, StepEffect DEF Stepped

(* What the flag says, whoever wrote it last: some executor runs tools all *)
(* of which may be cancelled; of the only one it says exactly this.        *)
FlagInv ==
  /\ \A i \in DOMAIN tools : tools[i].executor <= executor
  /\ interruptible => \E e \in 1..MaxExecutors : Interruptible(tools, e)
  /\ executor = 1 => (interruptible <=> Interruptible(tools, 1))

(* No tool belongs to an executor that is yet to come.                     *)
LEMMA ExecutorsStep ==
  ASSUME ToolConstants, TypeOK, [Next]_vars,
         \A i \in DOMAIN tools : tools[i].executor <= executor
  PROVE  /\ \A i \in DOMAIN tools' : tools'[i].executor <= executor'
         /\ executor' = 1 => executor = 1
  <1>1. /\ executor' \in {executor, executor + 1}
        /\ executor \in Nat \ {0}
    <2>1. executor \in Nat \ {0}
      BY DEF ToolConstants, TypeOK
    <2>2. CASE Fallback
      BY <2>1, <2>2 DEF Fallback
    <2>3. CASE executor' = executor
      BY <2>1, <2>3
    <2>4. Fallback \/ executor' = executor
      BY DEF Next, AddTool, StreamPoll, StreamEnds, Abort, Start,
             Progress, Fails, Settle, Consume, vars
    <2>5. QED BY <2>2, <2>3, <2>4
  <1>2. ASSUME NEW k \in Kinds, AddTool(k), NEW i \in DOMAIN tools'
        PROVE  tools'[i].executor <= executor'
    <2> DEFINE t == [kind |-> k, executor |-> executor,
                     status |-> IF k.known THEN "queued" ELSE "completed",
                     progress |-> FALSE, failed |-> FALSE]
    <2>1. tools' = Append(tools, t) /\ t.executor = executor /\ executor' = executor
      BY <1>2 DEF AddTool
    <2>2. t \in Tool
      BY KindsTyped DEF TypeOK, Tool
    <2> HIDE DEF t
    <2>3. i \in DOMAIN tools \/ tools'[i] = t
      BY <2>1, <2>2, <1>2, AddedAt
    <2>4. CASE i \in DOMAIN tools
      BY <2>1, <2>2, <2>4, AddedAt
    <2>5. CASE tools'[i] = t
      BY <2>1, <2>5, <1>1
    <2>6. QED BY <2>3, <2>4, <2>5
  <1>3. CASE \A k \in Kinds : ~AddTool(k)
    <2> DEFINE Stay ==
          /\ DOMAIN tools' = DOMAIN tools
          /\ \A i \in DOMAIN tools : tools'[i].executor = tools[i].executor
    <2>1. Stay
      <3>1. CASE StreamPoll \/ Consume
        BY <3>1, PolledIsTools DEF StreamPoll, Consume, Later
      <3>2. CASE \/ Fallback \/ StreamEnds \/ UNCHANGED vars
                 \/ \E why \in {"interrupt", "cancel"} : Abort(why)
        BY <3>2 DEF Fallback, StreamEnds, Abort, vars
      <3>3. ASSUME NEW k \in 1..MaxTools, Start(k)
            PROVE  Stay
        <4>1. PICK s \in {"executing", "completed"} :
                tools' = [tools EXCEPT ![k].status = s]
          BY <3>3 DEF Start
        <4>2. k \in DOMAIN tools
          BY <3>3 DEF Start
        <4>3. QED BY <4>1, <4>2, StartedAt
      <3>4. ASSUME NEW k \in 1..MaxTools, Progress(k) \/ Fails(k) \/ Settle(k)
            PROVE  Stay
        <4>1. k \in DOMAIN tools /\ tools[k].status = "executing"
          BY <3>4 DEF Progress, Fails, Settle
        <4>2. CASE Finished(k)
          BY <4>1, <4>2, FinishedAdvances DEF Advanced, Later
        <4>3. CASE ~Finished(k)
          <5>1. \/ tools' = [tools EXCEPT ![k].progress = TRUE]
                \/ tools' = [tools EXCEPT ![k].failed = TRUE]
            BY <3>4, <4>3 DEF Progress, Fails, Settle
          <5>2. CASE tools' = [tools EXCEPT ![k].progress = TRUE]
            BY <4>1, <5>2, ProgressWritten
          <5>3. CASE tools' = [tools EXCEPT ![k].failed = TRUE]
            BY <4>1, <5>3, FailureWritten
          <5>4. QED BY <5>1, <5>2, <5>3
        <4>4. QED BY <4>2, <4>3
      <3> HIDE DEF Stay
      <3>5. CASE Next
        BY <1>3, <3>1, <3>2, <3>3, <3>4, <3>5 DEF Next
      <3>6. QED BY <3>2, <3>5
    <2>2. \A i \in DOMAIN tools : tools[i].executor \in Nat
      BY ToolAt DEF Tool
    <2>3. QED BY <2>1, <2>2, <1>1
  <1>4. QED BY <1>1, <1>2, <1>3

LEMMA FlagStep ==
  ASSUME ToolConstants, TypeOK, TypeOK', FlagInv, [Next]_vars PROVE FlagInv'
  <1>1. /\ \A i \in DOMAIN tools' : tools'[i].executor <= executor'
        /\ executor' = 1 => executor = 1
    BY ExecutorsStep DEF FlagInv
  <1>2. CASE FlagSet
    <2>1. PICK i \in DOMAIN tools :
            interruptible' = Interruptible(tools', tools[i].executor)
      BY <1>2 DEF FlagSet
    <2>2. tools[i].executor \in 1..MaxExecutors
      BY ToolAt DEF Tool
    <2>3. executor = 1 => tools[i].executor = 1
      BY <2>2 DEF FlagInv
    <2>4. QED BY <1>1, <2>1, <2>2, <2>3 DEF FlagInv
  <1>3. CASE FlagKept
    <2>1. ASSUME NEW e \in 1..MaxExecutors
          PROVE  Interruptible(tools', e) <=> Interruptible(tools, e)
      <3>1. {i \in DOMAIN tools' : /\ tools'[i].executor = e
                                   /\ tools'[i].status = "executing"}
              = {i \in DOMAIN tools : /\ tools[i].executor = e
                                      /\ tools[i].status = "executing"}
        BY <1>3 DEF FlagKept, SameRunning
      <3>2. QED BY <1>3, <3>1 DEF Interruptible, FlagKept, SameRunning
    <2>2. 1 \in 1..MaxExecutors
      BY DEF ToolConstants
    <2>3. QED BY <1>1, <1>3, <2>1, <2>2 DEF FlagInv, FlagKept
  <1>4. QED BY <1>2, <1>3, StepEffect DEF Stepped

(* Whatever tools the model calls, one that is not concurrency-safe never  *)
(* runs beside another of its executor (canExecuteTool).                   *)
THEOREM NonConcurrentToolsRunAlone == Spec => []RunsAlone
  <1>1. Init => RunsAlone
    BY DEF Init, RunsAlone
  <1>2. TypeOK /\ RunsAlone /\ [Next]_vars => RunsAlone'
    BY RunsAloneStep, ToolConstants
  <1>3. QED BY <1>1, <1>2, TypeCorrect, PTL DEF Spec

(* No tool overtakes one that must run alone (the break in processQueue).  *)
THEOREM NonConcurrentToolsAreBarriers == Spec => []Barrier
  <1>1. Init => Barrier
    BY DEF Init, Barrier
  <1>2. TypeOK /\ Barrier /\ [Next]_vars => Barrier'
    BY BarrierStep, ToolConstants
  <1>3. QED BY <1>1, <1>2, TypeCorrect, PTL DEF Spec

(* The interruptible flag speaks of the current executor: exactly before   *)
(* any fallback, and never wrongly up after one unless a discarded         *)
(* executor still runs a tool (updateInterruptibleState).                  *)
THEOREM FlagIsTruthful == Spec => []InterruptibleTruthful
  <1>1. Init => FlagInv
    BY DEF Init, FlagInv, Interruptible
  <1>2. TypeOK /\ TypeOK' /\ FlagInv /\ [Next]_vars => FlagInv'
    BY FlagStep, ToolConstants
  <1>3. TypeOK /\ FlagInv => InterruptibleTruthful
    <2>1. SUFFICES ASSUME FlagInv, ~RunsDiscarded, interruptible
                   PROVE  Interruptible(tools, executor)
      BY DEF FlagInv, InterruptibleTruthful
    <2>2. PICK e \in 1..MaxExecutors : Interruptible(tools, e)
      BY <2>1 DEF FlagInv
    <2>3. e = executor
      BY <2>1, <2>2 DEF Interruptible, RunsDiscarded
    <2>4. QED BY <2>2, <2>3
  <1>4. QED BY <1>1, <1>2, <1>3, TypeCorrect, PTL DEF Spec
=============================================================================
