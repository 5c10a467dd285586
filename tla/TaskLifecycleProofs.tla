------------------------ MODULE TaskLifecycleProofs ------------------------
(***************************************************************************)
(* Proofs about the status of a task and of its pipeline in the database   *)
(* and the jobs of the task in the cluster, for pipelines that nobody      *)
(* cancels, through platform errors, timeouts, loops and crashes.          *)
(***************************************************************************)
EXTENDS TaskRunProofs

-----------------------------------------------------------------------------
(* Where the two goroutines of a task are.                                 *)

Working ==
  {"reconcile", "correct", "loop", "select", "defer", "update", "retry", "teardown",
   "again", "finish", "save"}

(* The pipeline is Running from Listen's mark to the write of its verdict. *)
PipelineRuns(k) ==
  /\ pc[k] \in Working => pipeline[k] = "Running"
  /\ pc[k] = "mark" => pipeline[k] \in {"Queue", "Analyzed"}

(* Nothing of an earlier round is left when Listen begins another one.     *)
Beginning(k) ==
  \/ pc[k] \in {"idle", "mark", "reconcile"}
  \/ pc[k] \in {"finish", "save"} /\ outcome[k] = "err"
FreshRound(k) ==
  Beginning(k) => lingering[k].check = 0 /\ lingering[k].poll = 0 /\ at[k] = "none"

(* So the context is cancelled, by a goroutine that lingers, only after    *)
(* reconcile, and an operation runs only while waitOp waits for it.        *)
InStep(k) ==
  /\ ctxDone[k] => pc[k] = "done"
  /\ at[k] # "none" => pc[k] = "select"
  /\ outcome[k] # "exit"
  /\ outcome[k] = "err" => failures > 0
  /\ at[k] \in {"fetch", "send"} => (res[k] = "err" => failures > 0)

Control(k) == cancel[k] = "idle" /\ PipelineRuns(k) /\ FreshRound(k) /\ InStep(k)

LEMMA ControlStep ==
  ASSUME TypeInv, NEW k \in Keys, CancelTasks = {}, Control(k), TaskStep(k)
  PROVE  Control(k)'
<1> USE DEF rowVars, runVars, opVars, clusterVars, cancelVars, storedVars, Control, PipelineRuns,
            FreshRound, Beginning, InStep, Working
<1>1. /\ pc \in [Keys -> Places] /\ outcome \in [Keys -> {"ok", "err", "exit"}]
      /\ pc[k] \in Places /\ pipeline[k] \in PipelineStatuses
      /\ pipeline \in [Keys -> PipelineStatuses]
      /\ op \in [Keys -> Ops] /\ at \in [Keys -> OpPlaces] /\ res \in [Keys -> Results]
      /\ ctxDone \in [Keys -> BOOLEAN]
      /\ lingering[k].check \in Nat /\ lingering[k].poll \in Nat
      /\ failures \in Nat
  BY TaskRunAssumption DEF TypeInv, TaskRunTypeOK, Places, OpPlaces, Results
<1>2. failures' >= failures /\ (Fail => failures' > 0)
  BY <1>1, CountSteps DEF Fail
<1>3. CASE OpStep(k)
  <2>1. CASE CheckPipeline(k)
    BY <1>1, <2>1 DEF CheckPipeline, IsEnd, EndStatuses
  <2>2. CASE LingeringCheck(k)
    BY <1>1, <2>2 DEF LingeringCheck, IsEnd, EndStatuses, Places, Lingerers
  <2>3. CASE LingeringFetch(k)
    BY <1>1, <2>3 DEF LingeringFetch
  <2>4. CASE ProcessWait(k)
    <3>1. ~Live(JobOf(k)) => JobStatus(JobOf(k)) # "err"
      <4>1. JobOf(k) \in JobStates
        BY DEF TypeInv, TaskRunTypeOK, Rows, JobOf
      <4> QED BY <4>1, JobStatusType
    <3> QED BY <1>1, <1>2, <2>4, <3>1 DEF ProcessWait, Report, LoopEnds, Hang, Processing
  <2>5. CASE ProcessCreate(k) \/ ExecutorStart(k) \/ ProcessQueue(k)
    BY <1>1, <1>2, <2>5 DEF ProcessCreate, ExecutorStart, ProcessQueue, Report, LoopEnds, Hang,
                            Processing
  <2> QED BY <1>1, <1>2, <1>3, <2>1, <2>2, <2>3, <2>4, <2>5
     DEF OpStep, ProcessPrepare, StartPopped, StartRefused, FetchLatestTask, Report, Processing
<1>4. CASE WaitOpStep(k)
  <2>1. CASE HandleTaskLoop(k)
    BY <1>1, <1>2, <2>1 DEF HandleTaskLoop
  <2>2. CASE ReceiveErr(k)
    BY <1>1, <1>2, <2>2 DEF ReceiveErr, Received
  <2> QED BY <1>1, <1>2, <1>4, <2>1, <2>2
     DEF WaitOpStep, ReceiveCtxDone, ReceiveExit, PrepareDone, OpDone,
         ReceiveTimeout, TimedOut, Update, Received
<1>5. CASE ReconcileStep(k)
  BY <1>1, <1>2, <1>5
     DEF ReconcileStep, Listen, UpdateStatusBeforeReconcile, Reconcile, Correct, StartOp,
         LeaveLoop, AbnormalRetry, Teardown, UpdateStatusAfterReconcile, TeardownPipeline, Leave,
         IsEnd, EndStatuses, PipelineStatuses
<1>6. CASE CancelStep(k) \/ JobStep(k)
  BY <1>6 DEF CancelStep, CancelCheck, CancelListTasks, CancelExecutor,
                CancelReadTask, CancelWriteTask, CancelPipeline,
              JobStep
<1> QED BY <1>3, <1>4, <1>5, <1>6 DEF TaskStep

-----------------------------------------------------------------------------
(* What tr.Task and the database say of each other.                        *)

InReconcile ==
  {"correct", "loop", "select", "defer", "update", "retry", "teardown", "again"}

(* Outside of waitOp's deferred function tr.Task is what the row says, and *)
(* an operation ends with the row it began with.                           *)
Agrees(k) ==
  /\ pc[k] \in {"correct", "loop", "select", "retry", "teardown"} => mem[k] = row[k]
  /\ pc[k] \in {"select", "defer", "update"} => row[k].status = OldStatus(op[k])
  /\ pc[k] = "correct" => ~IsEnd(row[k].status)
  /\ pc[k] \in {"teardown", "again"} => IsEnd(row[k].status)

(* A task without a row has not begun; only loop options make a task loop. *)
Known(k) ==
  /\ k \notin saved => row[k].status = "Analyzed"
  /\ pc[k] \in InReconcile => k \in saved
  /\ k \notin LoopTasks => row[k].looped = 0 /\ mem[k].looped = 0

(* The verdict reconcile is about to write is the one of the row.          *)
Closing(k) ==
  pc[k] = "save" =>
    /\ calc[k].status = CalculatePipelineStatus(k \in saved, row[k].status)
    /\ calc[k].skip => k \in saved /\ row[k].status \in {"Analyzed", "Born"}

Data(k) == Agrees(k) /\ Known(k) /\ Closing(k)

LEMMA NoSkip ==
  ASSUME TypeInv, NEW k \in Keys, Closing(k), TeardownPipeline(k)
  PROVE  row' = row
<1>1. calc[k].skip => ~IsEnd(calc[k].status)
  BY DEF Closing, CalculatePipelineStatus, TeardownPipeline, IsEnd, EndStatuses
<1> QED BY <1>1 DEF TeardownPipeline

LEMMA DataStep ==
  ASSUME TypeInv, NEW k \in Keys, CancelTasks = {}, Control(k), Data(k), TaskStep(k)
  PROVE  Data(k)'
<1> USE DEF rowVars, runVars, opVars, clusterVars, cancelVars, storedVars
<1>1. /\ row \in [Keys -> Rows] /\ mem \in [Keys -> Rows]
      /\ row[k] \in Rows /\ mem[k] \in Rows
      /\ row[k].status \in TaskStatuses /\ mem[k].status \in TaskStatuses
      /\ pc \in [Keys -> Places] /\ op \in [Keys -> Ops] /\ op[k] \in Ops
      /\ calc \in [Keys -> [status : PipelineStatuses, skip : BOOLEAN]]
      /\ saved \subseteq Keys
  BY DEF TypeInv, TaskRunTypeOK, Places, Rows
<1>2. /\ ~ctxDone[k] \/ pc[k] = "done"
      /\ at[k] # "none" => pc[k] = "select"
      /\ outcome[k] # "exit"
      /\ cancel[k] = "idle"
      /\ pc[k] \in Working => pipeline[k] = "Running"
  BY DEF Control, InStep, PipelineRuns
<1> USE DEF Data, Agrees, Known, Closing, InReconcile
<1>3. CASE OpStep(k)
  <2>1. UNCHANGED <<row, pc, op, saved, calc>>
        /\ (mem' = mem \/ mem' = [mem EXCEPT ![k] = row[k]])
    BY <1>3 DEF OpStep, CheckPipeline, ProcessPrepare, ProcessCreate, StartPopped, StartRefused,
                ExecutorStart, ProcessQueue, ProcessWait, FetchLatestTask, LingeringCheck,
                LingeringFetch
  <2> QED BY <1>1, <2>1
<1>4. CASE WaitOpStep(k)
  <2>1. CASE ReceiveCtxDone(k) \/ ReceiveExit(k) \/ Update(k)
    BY <1>1, <1>2, <2>1 DEF ReceiveCtxDone, ReceiveExit, Update, Received
  <2>2. CASE ReceiveErr(k) \/ OpDone(k)
    BY <1>1, <2>2 DEF ReceiveErr, OpDone, Received, Rows
  <2>3. CASE PrepareDone(k)
    BY <1>1, <2>3 DEF PrepareDone, Received, Rows, LoopOptions
  <2>4. CASE ReceiveTimeout(k)
    BY <1>1, <2>4 DEF ReceiveTimeout, TimedOut, Rows
  <2>5. CASE HandleTaskLoop(k)
    <3>1. MayLoop(k) => k \in LoopTasks
      BY DEF MayLoop
    <3> QED BY <1>1, <2>5, <3>1 DEF HandleTaskLoop, Rows
  <2> QED BY <1>4, <2>1, <2>2, <2>3, <2>4, <2>5 DEF WaitOpStep
<1>5. CASE ReconcileStep(k)
  <2>1. CASE Listen(k) \/ UpdateStatusBeforeReconcile(k)
    BY <1>1, <2>1 DEF Listen, UpdateStatusBeforeReconcile
  <2>2. CASE Reconcile(k)
    BY <1>1, <2>2 DEF Reconcile
  <2>3. CASE Correct(k)
    BY <1>1, <2>3 DEF Correct, Rows
  <2>4. CASE StartOp(k)
    <3>1. mem[k].status = OldStatus(OpOf(mem[k].status))
      BY <1>1, <2>4 DEF StartOp, TaskStatuses, IsEnd, OldStatus, OpOf
    <3> QED BY <1>1, <2>4, <3>1 DEF StartOp
  <2>5. CASE LeaveLoop(k) \/ AbnormalRetry(k) \/ Teardown(k)
    BY <1>1, <1>2, <2>5 DEF LeaveLoop, AbnormalRetry, Teardown
  <2>6. CASE UpdateStatusAfterReconcile(k)
    <3>1. ~IsEnd(pipeline[k])
      BY <1>2, <2>6 DEF UpdateStatusAfterReconcile, Working, IsEnd, EndStatuses
    <3>2. pc' = Leave(k) => pc'[k] \in {"idle", "done"}
      BY <1>1 DEF Leave
    <3>3. UNCHANGED <<row, mem, op, saved>>
      BY <2>6 DEF UpdateStatusAfterReconcile
    <3>4. CASE pc' = Leave(k)
      BY <3>2, <3>3, <3>4
    <3>5. CASE pc' # Leave(k)
      <4> DEFINE skip == k \in saved /\ row[k].status \in {"Analyzed", "Born"}
      <4>1. /\ pc'[k] = "save"
            /\ calc'[k] = [status |-> CalculatePipelineStatus(k \in saved, row[k].status),
                           skip |-> skip]
        BY <1>1, <2>6, <3>1, <3>5 DEF UpdateStatusAfterReconcile
      <4>2. calc'[k].status = CalculatePipelineStatus(k \in saved, row[k].status)
        BY <4>1
      <4> HIDE DEF skip
      <4>3. calc'[k].skip = skip
        BY <4>1
      <4>4. calc'[k].skip => k \in saved /\ row[k].status \in {"Analyzed", "Born"}
        BY <4>3, Zenon DEF skip
      <4> QED BY <3>3, <4>1, <4>2, <4>4
    <3> QED BY <3>4, <3>5
  <2>7. CASE TeardownPipeline(k)
    <3>1. row' = row
      BY <2>7, NoSkip
    <3> QED BY <1>1, <2>7, <3>1 DEF TeardownPipeline, Leave
  <2> QED BY <1>5, <2>1, <2>2, <2>3, <2>4, <2>5, <2>6, <2>7 DEF ReconcileStep
<1>6. CASE CancelStep(k)
  BY <1>2, <1>6 DEF CancelStep, CancelCheck, CancelListTasks, CancelExecutor,
                CancelReadTask, CancelWriteTask, CancelPipeline
<1>7. CASE JobStep(k)
  BY <1>7 DEF JobStep
<1> QED BY <1>3, <1>4, <1>5, <1>6, <1>7 DEF TaskStep

-----------------------------------------------------------------------------
(* The life cycle.                                                         *)

LEMMA LaterStatuses ==
  /\ \A status : EndStatuses \subseteq Lifecycle!Later(status)
  /\ {"Born", "Queue", "Running"} \subseteq Lifecycle!Later("Analyzed")
  /\ {"Created", "Queue", "Running"} \subseteq Lifecycle!Later("Born")
  /\ {"Queue", "Running"} \subseteq Lifecycle!Later("Created")
  /\ "Running" \in Lifecycle!Later("Queue")
<1>1. /\ Lifecycle!Steps[1] = "Analyzed" /\ Lifecycle!Steps[2] = "Born"
      /\ Lifecycle!Steps[3] = "Created" /\ Lifecycle!Steps[4] = "Queue"
      /\ Lifecycle!Steps[5] = "Running"
  BY DEF Lifecycle!Steps
<1>2. \A i, n \in 1 .. 5 : n < i => Lifecycle!Steps[i] \in Lifecycle!Later(Lifecycle!Steps[n])
  <2> SUFFICES ASSUME NEW i \in 1 .. 5, NEW n \in 1 .. 5, n < i
               PROVE  Lifecycle!Steps[i] \in Lifecycle!Later(Lifecycle!Steps[n])
    OBVIOUS
  <2>1. n \in 1 .. i - 1
    OBVIOUS
  <2> HIDE DEF Lifecycle!Steps
  <2> QED BY <2>1, Zenon DEF Lifecycle!Later
<1>3. \A status : EndStatuses \subseteq Lifecycle!Later(status)
  BY DEF EndStatuses, Lifecycle!Later, Lifecycle!Good, Lifecycle!Bad
<1> HIDE DEF Lifecycle!Steps, Lifecycle!Later
<1>4. \A n \in 1 .. 4 : "Running" \in Lifecycle!Later(Lifecycle!Steps[n])
  <2>1. \A n \in 1 .. 4 : n \in 1 .. 5 /\ 5 \in 1 .. 5 /\ n < 5
    OBVIOUS
  <2> QED BY <1>1, <1>2, <2>1
<1>5. \A n \in 1 .. 3 : "Queue" \in Lifecycle!Later(Lifecycle!Steps[n])
  <2>1. \A n \in 1 .. 3 : n \in 1 .. 5 /\ 4 \in 1 .. 5 /\ n < 4
    OBVIOUS
  <2> QED BY <1>1, <1>2, <2>1
<1>6. "Born" \in Lifecycle!Later("Analyzed") /\ "Created" \in Lifecycle!Later("Born")
  <2>1. 1 \in 1 .. 5 /\ 2 \in 1 .. 5 /\ 3 \in 1 .. 5 /\ 1 < 2 /\ 2 < 3
    OBVIOUS
  <2> QED BY <1>1, <1>2, <2>1
<1>7. /\ 1 \in 1 .. 4 /\ 2 \in 1 .. 4 /\ 3 \in 1 .. 4 /\ 4 \in 1 .. 4
      /\ 1 \in 1 .. 3 /\ 2 \in 1 .. 3 /\ 3 \in 1 .. 3
  OBVIOUS
<1> QED BY <1>1, <1>3, <1>4, <1>5, <1>6, <1>7

(* A platform error and a loop do not meet: handleTaskLoop takes the       *)
(* status that a platform error leaves for the end of an iteration.        *)
SafeLoops == LoopTasks = {} \/ MaxFailures = 0

LEMMA LoopsAreSafe ==
  ASSUME TypeInv, NEW k \in Keys, SafeLoops, Control(k), Known(k), MayLoop(k)
  PROVE  outcome[k] # "err" /\ ~Fail
<1>1. LoopTasks # {}
  BY DEF MayLoop, Known
<1>2. failures = 0 /\ MaxFailures = 0
  BY <1>1 DEF SafeLoops, TypeInv, TaskRunTypeOK
<1> QED BY <1>2 DEF Control, InStep, Fail

(* What waitOp is about to write is a step forward, or the start of the    *)
(* next iteration.                                                         *)
StepsForward(k) ==
  /\ mem[k].status \in Lifecycle!Later(row[k].status) \cup {row[k].status}
  /\ mem[k].looped = row[k].looped \/ (op[k] = "prepare" /\ mem[k].looped = Lifecycle!Begun(k))
StartsOver(k) ==
  /\ k \in LoopTasks /\ Lifecycle!Begun(k) < MaxTimes
  /\ mem[k] = [status |-> "Analyzed", looped |-> Lifecycle!Begun(k) + 1]
Moves(k) ==
  /\ pc[k] = "defer" => StepsForward(k)
  /\ pc[k] = "update" => StepsForward(k) \/ StartsOver(k)

(* A task that is Running has a job that is past pending.                  *)
PastPending(k) ==
  /\ row[k].status = "Running" => job[k][row[k].looped] # "pending"
  /\ mem[k].status = "Running" => job[k][mem[k].looped] # "pending"
  /\ op[k] = "queue" /\ at[k] \in {"fetch", "send"} =>
       (res[k] \notin {"err", "exit"} => JobOf(k) # "pending")

LEMMA MovesStep ==
  ASSUME TypeInv, NEW k \in Keys, CancelTasks = {}, SafeLoops, Control(k), Data(k), Moves(k),
         TaskStep(k)
  PROVE  Moves(k)'
<1> USE DEF rowVars, runVars, opVars, clusterVars, cancelVars, storedVars
<1>1. /\ row \in [Keys -> Rows] /\ mem \in [Keys -> Rows]
      /\ row[k] \in Rows /\ mem[k] \in Rows /\ row[k].looped \in Nat /\ mem[k].looped \in Nat
      /\ mem[k] = [status |-> mem[k].status, looped |-> mem[k].looped]
      /\ pc \in [Keys -> Places] /\ op \in [Keys -> Ops] /\ op[k] \in Ops
      /\ MaxTimes \in Nat
  BY TaskRunAssumption DEF TypeInv, TaskRunTypeOK, Places, Rows, Looped
<1>2. /\ ~ctxDone[k] \/ pc[k] = "done"
      /\ pc[k] \in {"correct", "loop", "select", "retry", "teardown"} => mem[k] = row[k]
      /\ pc[k] \in {"select", "defer", "update"} => row[k].status = OldStatus(op[k])
  BY DEF Control, InStep, Data, Agrees
<1>3. /\ \A status : EndStatuses \subseteq Lifecycle!Later(status)
      /\ "Born" \in Lifecycle!Later("Analyzed") /\ "Created" \in Lifecycle!Later("Born")
      /\ "Queue" \in Lifecycle!Later("Created") /\ "Running" \in Lifecycle!Later("Queue")
  BY LaterStatuses
<1> HIDE DEF Lifecycle!Later
<1> USE DEF Moves, StepsForward, StartsOver, Lifecycle!Begun
<1>4. CASE OpStep(k)
  <2>1. UNCHANGED <<row, pc, op>>
        /\ (mem' = mem \/ mem' = [mem EXCEPT ![k] = row[k]])
    BY <1>4 DEF OpStep, CheckPipeline, ProcessPrepare, ProcessCreate, StartPopped, StartRefused,
                ExecutorStart, ProcessQueue, ProcessWait, FetchLatestTask, LingeringCheck,
                LingeringFetch
  <2> QED BY <1>1, <2>1
<1>5. CASE WaitOpStep(k)
  <2>1. CASE ReceiveCtxDone(k) \/ ReceiveExit(k) \/ Update(k)
    BY <1>1, <1>2, <2>1 DEF ReceiveCtxDone, ReceiveExit, Update, Received
  <2>2. CASE ReceiveErr(k)
    BY <1>1, <1>2, <1>3, <2>2 DEF ReceiveErr, Received, Rows, EndStatuses
  <2>3. CASE OpDone(k)
    <3>1. op[k] = "wait" => res[k] = "nil" \/ res[k] \in EndStatuses
      BY <2>3 DEF OpDone, Received, TypeInv, TaskRunTypeOK, WaitReports, Reports
    <3> QED BY <1>1, <1>2, <1>3, <2>3, <3>1 DEF OpDone, Received, Rows, Ops, OldStatus
  <2>4. CASE PrepareDone(k)
    <3>1. row' = row /\ pc' = [pc EXCEPT ![k] = "defer"] /\ op' = op /\ op[k] = "prepare"
          /\ pc[k] = "select"
      BY <2>4 DEF PrepareDone, Received
    <3>2. row[k].status = "Analyzed" /\ mem[k] = row[k] /\ LoopOptions(k) = Lifecycle!Begun(k)
      BY <1>2, <3>1 DEF OldStatus, LoopOptions
    <3>3. /\ mem'[k].status \in {"Born", "Analyzed"} \cup EndStatuses
          /\ mem'[k].looped \in {mem[k].looped, LoopOptions(k)}
      BY <1>1, <2>4, <3>2 DEF PrepareDone, Rows, EndStatuses
    <3> QED BY <1>1, <1>3, <3>1, <3>2, <3>3
  <2>5. CASE ReceiveTimeout(k)
    <3>1. JobStatus(job[k][row[k].looped]) \in EndStatuses \/ Live(job[k][row[k].looped])
      <4>1. job[k][row[k].looped] \in JobStates
        BY DEF TypeInv, TaskRunTypeOK, Rows
      <4> QED BY <4>1, JobStatusType DEF EndStatuses
    <3> QED BY <1>1, <1>3, <2>5, <3>1 DEF ReceiveTimeout, TimedOut, Rows, EndStatuses
  <2>6. CASE HandleTaskLoop(k)
    <3>1. UNCHANGED <<row, op>> /\ pc' = [pc EXCEPT ![k] = "update"] /\ pc[k] = "defer"
      BY <2>6 DEF HandleTaskLoop
    <3>2. MayLoop(k) => outcome[k] # "err" /\ ~Fail /\ k \in LoopTasks /\ mem[k].looped > 0
      BY LoopsAreSafe DEF Data, Known, MayLoop
    <3>3. CASE mem' = [mem EXCEPT ![k].status = RestoredStatus(k, outcome[k], mem[k].status)]
      <4>1. /\ mem'[k].looped = mem[k].looped
            /\ mem'[k].status \in {mem[k].status, row[k].status}
        BY <1>1, <1>2, <3>1, <3>3 DEF RestoredStatus, Rows
      <4> QED BY <1>1, <3>1, <4>1
    <3>4. CASE /\ MayLoop(k) /\ BelowMaxTimes(k)
               /\ mem' = [mem EXCEPT ![k] = [status |-> RestoredStatus(k, outcome[k], "Analyzed"),
                                             looped |-> mem[k].looped + 1]]
      <4>1. mem'[k] = [status |-> "Analyzed", looped |-> mem[k].looped + 1]
        BY <1>1, <3>2, <3>4 DEF RestoredStatus
      <4>2. mem[k].looped = Lifecycle!Begun(k)
        BY <1>1, <3>1, <3>2, <3>4
      <4> QED BY <1>1, <3>1, <3>2, <3>4, <4>1, <4>2 DEF BelowMaxTimes
    <3> QED BY <1>1, <2>6, <3>2, <3>3, <3>4 DEF HandleTaskLoop
  <2> QED BY <1>5, <2>1, <2>2, <2>3, <2>4, <2>5, <2>6 DEF WaitOpStep
<1>6. CASE ReconcileStep(k)
  BY <1>1, <1>6 DEF ReconcileStep, Listen, UpdateStatusBeforeReconcile, Reconcile, Correct,
         StartOp, LeaveLoop, AbnormalRetry, Teardown, UpdateStatusAfterReconcile,
         TeardownPipeline, Leave
<1>7. CASE CancelStep(k)
  BY <1>7 DEF CancelStep, CancelCheck, CancelListTasks, CancelExecutor,
                CancelReadTask, CancelWriteTask, CancelPipeline, Control
<1>8. CASE JobStep(k)
  BY <1>8 DEF JobStep
<1> QED BY <1>4, <1>5, <1>6, <1>7, <1>8 DEF TaskStep

LEMMA PastPendingStep ==
  ASSUME TypeInv, NEW k \in Keys, CancelTasks = {}, SafeLoops, Control(k), Data(k), Moves(k),
         PastPending(k), TaskStep(k)
  PROVE  PastPending(k)'
<1> USE DEF rowVars, runVars, opVars, clusterVars, cancelVars, storedVars
<1>1. /\ row \in [Keys -> Rows] /\ mem \in [Keys -> Rows]
      /\ row[k] \in Rows /\ mem[k] \in Rows /\ row[k].looped \in Looped /\ mem[k].looped \in Looped
      /\ pc \in [Keys -> Places] /\ op \in [Keys -> Ops] /\ op[k] \in Ops
      /\ at \in [Keys -> OpPlaces] /\ res \in [Keys -> Results]
      /\ job \in [Keys -> [Looped -> JobStates]]
  BY DEF TypeInv, TaskRunTypeOK, Places, OpPlaces, Results, Rows
<1>2. /\ ~ctxDone[k] \/ pc[k] = "done"
      /\ at[k] # "none" => pc[k] = "select"
      /\ at[k] = "exec" => op[k] = "start"
      /\ pc[k] \in {"correct", "loop", "select", "retry", "teardown"} => mem[k] = row[k]
      /\ pc[k] \in {"select", "defer", "update"} => row[k].status = OldStatus(op[k])
  BY DEF Control, InStep, Data, Agrees, TypeInv, WaitReports, Reports
<1> USE DEF PastPending, JobOf
<1>3. CASE OpStep(k)
  <2>1. CASE ExecutorStart(k)
    <3>1. op[k] = "start" /\ mem[k].status = "Created" /\ row[k].status = "Created"
      BY <1>2, <2>1 DEF ExecutorStart, OldStatus
    <3> QED BY <1>1, <2>1, <3>1 DEF ExecutorStart
  <2>2. CASE ProcessQueue(k)
    BY <1>1, <2>2 DEF ProcessQueue, Report, LoopEnds, Hang, Processing
  <2>3. CASE FetchLatestTask(k)
    BY <1>1, <1>2, <2>3 DEF FetchLatestTask
  <2>4. CASE LingeringFetch(k) \/ LingeringCheck(k) \/ StartRefused(k)
    BY <1>1, <1>2, <2>4 DEF LingeringFetch, LingeringCheck, StartRefused, Processing
  <2> QED BY <1>1, <1>3, <2>1, <2>2, <2>3, <2>4
     DEF OpStep, CheckPipeline, ProcessPrepare, ProcessCreate, StartPopped, ProcessWait,
         Report, LoopEnds, Hang, Processing
<1>4. CASE WaitOpStep(k)
  <2>1. CASE ReceiveCtxDone(k) \/ ReceiveExit(k) \/ Update(k)
    BY <1>1, <1>2, <2>1 DEF ReceiveCtxDone, ReceiveExit, Update, Received
  <2>2. CASE ReceiveErr(k)
    BY <1>1, <2>2 DEF ReceiveErr, Received, Rows
  <2>3. CASE OpDone(k)
    <3>1. op[k] = "wait" => res[k] # "Running"
      BY DEF TypeInv, TaskRunTypeOK, EndStatuses
    <3> QED BY <1>1, <2>3, <3>1 DEF OpDone, Received, Rows, Ops
  <2>4. CASE PrepareDone(k)
    BY <1>1, <2>4 DEF PrepareDone, Received, Rows
  <2>5. CASE ReceiveTimeout(k)
    <3>1. ~Live(job[k][row[k].looped]) => JobStatus(job[k][row[k].looped]) # "Running"
      <4>1. job[k][row[k].looped] \in JobStates
        BY <1>1
      <4> QED BY <4>1, JobStatusType
    <3> QED BY <1>1, <2>5, <3>1 DEF ReceiveTimeout, TimedOut, Rows, CancelledJob
  <2>6. CASE HandleTaskLoop(k)
    <3>1. UNCHANGED <<row, op, at, res, job>> /\ pc[k] = "defer"
      BY <2>6 DEF HandleTaskLoop
    <3>2. MayLoop(k) => outcome[k] # "err" /\ ~Fail
      BY LoopsAreSafe DEF Data
    <3>3. at[k] = "none"
      BY <1>1, <1>2, <3>1
    <3>4. \/ mem'[k] = mem[k]
          \/ mem'[k].looped = mem[k].looped /\ mem'[k].status = OldStatus(op[k])
          \/ mem'[k].status = "Analyzed"
      BY <1>1, <2>6, <3>2 DEF HandleTaskLoop, RestoredStatus, Rows
    <3>5. OldStatus(op[k]) = "Running" => mem[k].looped = row[k].looped
      BY <1>1, <3>1 DEF Moves, StepsForward, OldStatus
    <3> QED BY <1>2, <3>1, <3>3, <3>4, <3>5
  <2> QED BY <1>4, <2>1, <2>2, <2>3, <2>4, <2>5, <2>6 DEF WaitOpStep
<1>5. CASE ReconcileStep(k)
  <2>1. CASE Correct(k)
    <3>1. JobStatus(JobOf(k)) = "Running" => JobOf(k) # "pending"
      BY DEF JobStatus
    <3>2. at[k] = "none" /\ UNCHANGED <<op, at, res, job>>
      BY <1>1, <1>2, <2>1 DEF Correct
    <3>3. UNCHANGED <<row, mem>> \/
          /\ row'[k] = mem'[k] /\ mem'[k].looped = mem[k].looped
          /\ mem'[k].status = JobStatus(JobOf(k))
      BY <1>1, <2>1 DEF Correct, Rows
    <3> QED BY <3>1, <3>2, <3>3
  <2>2. CASE StartOp(k)
    BY <1>1, <2>2 DEF StartOp
  <2>3. CASE TeardownPipeline(k)
    <3>1. row' = row
      BY <2>3, NoSkip DEF Data
    <3> QED BY <1>1, <2>3, <3>1 DEF TeardownPipeline
  <2>4. CASE Reconcile(k)
    BY <1>1, <1>2, <2>4 DEF Reconcile
  <2> QED BY <1>1, <1>2, <1>5, <2>1, <2>2, <2>3, <2>4
     DEF ReconcileStep, Listen, UpdateStatusBeforeReconcile, LeaveLoop, AbnormalRetry, Teardown,
         UpdateStatusAfterReconcile
<1>6. CASE CancelStep(k)
  BY <1>6 DEF CancelStep, CancelCheck, CancelListTasks, CancelExecutor,
                CancelReadTask, CancelWriteTask, CancelPipeline, Control
<1>7. CASE JobStep(k)
  BY <1>1, <1>7 DEF JobStep
<1> QED BY <1>3, <1>4, <1>5, <1>6, <1>7 DEF TaskStep

-----------------------------------------------------------------------------
(* The jobs of a task.                                                     *)

(* tr.Task, the row and what wait reports say Success of a job that is ok. *)
Earned(k) ==
  /\ row[k].status = "Success" => job[k][row[k].looped] = "ok"
  /\ mem[k].status = "Success" => job[k][mem[k].looped] = "ok"
  /\ op[k] = "wait" /\ at[k] \in {"fetch", "send"} => (res[k] = "Success" => JobOf(k) = "ok")

LEMMA EarnedStep ==
  ASSUME TypeInv, NEW k \in Keys, CancelTasks = {}, Control(k), Data(k), Earned(k), TaskStep(k)
  PROVE  Earned(k)'
<1> USE DEF rowVars, runVars, opVars, clusterVars, cancelVars, storedVars
<1>1. /\ row \in [Keys -> Rows] /\ mem \in [Keys -> Rows]
      /\ row[k] \in Rows /\ mem[k] \in Rows /\ row[k].looped \in Looped /\ mem[k].looped \in Looped
      /\ pc \in [Keys -> Places] /\ op \in [Keys -> Ops] /\ op[k] \in Ops
      /\ at \in [Keys -> OpPlaces] /\ res \in [Keys -> Results]
      /\ job \in [Keys -> [Looped -> JobStates]]
  BY DEF TypeInv, TaskRunTypeOK, Places, OpPlaces, Results, Rows
<1>2. /\ ~ctxDone[k] \/ pc[k] = "done"
      /\ at[k] # "none" => pc[k] = "select"
      /\ at[k] = "exec" => op[k] = "start"
      /\ pc[k] \in {"correct", "loop", "select", "retry", "teardown"} => mem[k] = row[k]
      /\ pc[k] \in {"select", "defer", "update"} => row[k].status = OldStatus(op[k])
  BY DEF Control, InStep, Data, Agrees, TypeInv, WaitReports, Reports
<1>3. \A state \in JobStates : JobStatus(state) = "Success" <=> state = "ok"
  BY DEF JobStatus, JobStates
<1>4. /\ OldStatus(op[k]) # "Success" /\ "Success" \notin {"err", "exit", "nil", "done"}
  BY <1>1 DEF OldStatus, Ops
<1> USE DEF Earned, JobOf
<1>5. CASE OpStep(k)
  <2>1. CASE ExecutorStart(k)
    BY <1>1, <1>2, <2>1 DEF ExecutorStart, Report, StartedJob
  <2>2. CASE ProcessWait(k)
    BY <1>1, <1>3, <2>2 DEF ProcessWait, Report, LoopEnds, Hang, Processing
  <2>3. CASE FetchLatestTask(k)
    BY <1>1, <1>2, <2>3 DEF FetchLatestTask
  <2>4. CASE LingeringFetch(k) \/ LingeringCheck(k) \/ StartRefused(k)
    BY <1>1, <1>2, <2>4 DEF LingeringFetch, LingeringCheck, StartRefused, Processing
  <2> QED BY <1>1, <1>5, <2>1, <2>2, <2>3, <2>4
     DEF OpStep, CheckPipeline, ProcessPrepare, ProcessCreate, StartPopped, ProcessQueue,
         Report, LoopEnds, Hang, Processing
<1>6. CASE WaitOpStep(k)
  <2>1. CASE ReceiveCtxDone(k) \/ ReceiveExit(k) \/ Update(k)
    BY <1>1, <1>2, <2>1 DEF ReceiveCtxDone, ReceiveExit, Update, Received
  <2>2. CASE ReceiveErr(k)
    BY <1>1, <2>2 DEF ReceiveErr, Received, Rows
  <2>3. CASE OpDone(k)
    BY <1>1, <2>3 DEF OpDone, Received, Rows, Ops
  <2>4. CASE PrepareDone(k)
    BY <1>1, <2>4 DEF PrepareDone, Received, Rows
  <2>5. CASE ReceiveTimeout(k)
    <3>1. row[k].status # "Success" /\ at'[k] = "none" /\ row' = row
      BY <1>1, <1>2, <1>4, <2>5 DEF ReceiveTimeout
    <3>2. \/ mem'[k].status \in {"Timeout", "Unknown"}
          \/ /\ mem'[k].looped = row[k].looped /\ job' = job
             /\ mem'[k].status = JobStatus(job[k][row[k].looped])
      BY <1>1, <2>5 DEF ReceiveTimeout, TimedOut, Rows
    <3> QED BY <1>1, <1>3, <3>1, <3>2
  <2>6. CASE HandleTaskLoop(k)
    BY <1>1, <1>2, <1>4, <2>6 DEF HandleTaskLoop, RestoredStatus, Rows
  <2> QED BY <1>6, <2>1, <2>2, <2>3, <2>4, <2>5, <2>6 DEF WaitOpStep
<1>7. CASE ReconcileStep(k)
  <2>1. CASE Correct(k)
    <3>1. at[k] = "none" /\ UNCHANGED <<op, at, res, job>>
      BY <1>1, <1>2, <2>1 DEF Correct
    <3>2. UNCHANGED <<row, mem>> \/
          /\ row'[k] = mem'[k] /\ mem'[k].looped = mem[k].looped
          /\ mem'[k].status = JobStatus(JobOf(k))
      BY <1>1, <2>1 DEF Correct, Rows
    <3> QED BY <1>1, <1>3, <3>1, <3>2
  <2>2. CASE StartOp(k)
    BY <1>1, <2>2 DEF StartOp
  <2>3. CASE TeardownPipeline(k)
    <3>1. row' = row
      BY <2>3, NoSkip DEF Data
    <3> QED BY <1>1, <2>3, <3>1 DEF TeardownPipeline
  <2>4. CASE Reconcile(k)
    BY <1>1, <1>2, <2>4 DEF Reconcile
  <2> QED BY <1>1, <1>2, <1>7, <2>1, <2>2, <2>3, <2>4
     DEF ReconcileStep, Listen, UpdateStatusBeforeReconcile, LeaveLoop, AbnormalRetry, Teardown,
         UpdateStatusAfterReconcile
<1>8. CASE CancelStep(k)
  BY <1>8 DEF CancelStep, CancelCheck, CancelListTasks, CancelExecutor,
                CancelReadTask, CancelWriteTask, CancelPipeline, Control
<1>9. CASE JobStep(k)
  BY <1>1, <1>9 DEF JobStep
<1> QED BY <1>5, <1>6, <1>7, <1>8, <1>9 DEF TaskStep

(* A live job that no timeout has taken for ended is the one of the        *)
(* iteration in the row, and a task that is about to start or to start     *)
(* over has none.                                                          *)
Single(k) ==
  /\ \A i \in Looped \ forgotten[k] : Live(job[k][i]) => i = row[k].looped
  /\ row[k].status \in {"Analyzed", "Born"} => ~HasKnownJob(k)
  /\ pc[k] \in {"defer", "update"} =>
       (mem[k].status \in {"Analyzed", "Born"} \/ mem[k].looped # row[k].looped => ~HasKnownJob(k))
  /\ pc[k] = "defer" => (IsEnd(mem[k].status) /\ outcome[k] # "err" => ~HasKnownJob(k))
  /\ op[k] = "wait" /\ at[k] \in {"fetch", "send"} => (IsEnd(res[k]) => ~HasKnownJob(k))

LEMMA LiveJobSteps ==
  ASSUME TypeInv, NEW k \in Keys, CancelTasks = {}, Control(k), TaskStep(k), ~ExecutorStart(k)
  PROVE  /\ \A i \in Looped : Live(job'[k][i]) => Live(job[k][i])
         /\ ~HasLiveJob(k) => ~HasLiveJob(k)'
         /\ \A i \in Looped \ forgotten'[k] : Live(job'[k][i]) =>
              Live(job[k][i]) /\ i \in Looped \ forgotten[k]
         /\ ~HasKnownJob(k) => ~HasKnownJob(k)'
<1> USE DEF rowVars, runVars, opVars, clusterVars, cancelVars, storedVars
<1>1. job \in [Keys -> [Looped -> JobStates]] /\ row[k].looped \in Looped
  BY DEF TypeInv, TaskRunTypeOK, Rows
<1>2. ASSUME NEW i \in Looped, ~Live(job[k][i]) PROVE ~Live(job'[k][i])
  BY <1>1, <1>2
     DEF TaskStep, OpStep, CheckPipeline, ProcessPrepare, ProcessCreate, StartPopped,
         StartRefused, ProcessQueue, ProcessWait, FetchLatestTask,
         LingeringCheck, LingeringFetch, WaitOpStep, ReceiveCtxDone, ReceiveExit, ReceiveErr,
         PrepareDone, OpDone, ReceiveTimeout, TimedOut, HandleTaskLoop, Update, ReconcileStep,
         Listen, UpdateStatusBeforeReconcile, Reconcile, Correct, StartOp, LeaveLoop,
         AbnormalRetry, Teardown, UpdateStatusAfterReconcile, TeardownPipeline, CancelStep,
         CancelCheck, CancelListTasks, CancelExecutor,
         CancelReadTask, CancelWriteTask, CancelPipeline, JobStep,
         CancelledJob, Live
<1>3. forgotten[k] \subseteq forgotten'[k]
  BY ForgottenSteps
<1> QED BY <1>2, <1>3 DEF HasLiveJob, HasKnownJob

LEMMA SingleStep ==
  ASSUME TypeInv, NEW k \in Keys, CancelTasks = {}, SafeLoops, Control(k), Data(k), Moves(k),
         Single(k), TaskStep(k)
  PROVE  Single(k)'
<1> USE DEF rowVars, runVars, opVars, clusterVars, cancelVars, storedVars
<1>1. /\ row \in [Keys -> Rows] /\ mem \in [Keys -> Rows]
      /\ row[k] \in Rows /\ mem[k] \in Rows /\ row[k].looped \in Looped /\ mem[k].looped \in Looped
      /\ pc \in [Keys -> Places] /\ op \in [Keys -> Ops] /\ op[k] \in Ops
      /\ at \in [Keys -> OpPlaces] /\ res \in [Keys -> Results]
      /\ outcome \in [Keys -> {"ok", "err", "exit"}]
      /\ job \in [Keys -> [Looped -> JobStates]]
  BY DEF TypeInv, TaskRunTypeOK, Places, OpPlaces, Results, Rows
<1>2. /\ ~ctxDone[k] \/ pc[k] = "done"
      /\ at[k] # "none" => pc[k] = "select"
      /\ at[k] = "exec" => op[k] = "start"
      /\ pc[k] \in {"correct", "loop", "select", "retry", "teardown"} => mem[k] = row[k]
      /\ pc[k] \in {"select", "defer", "update"} => row[k].status = OldStatus(op[k])
  BY DEF Control, InStep, Data, Agrees, TypeInv, WaitReports, Reports
<1>3. ~IsEnd(OldStatus(op[k]))
  BY <1>1 DEF OldStatus, Ops, IsEnd, EndStatuses
<1>4. CASE ExecutorStart(k)
  <2>1. /\ op[k] = "start" /\ row[k].status = "Created" /\ pc[k] = "select"
        /\ mem[k].looped = row[k].looped
    BY <1>2, <1>4 DEF ExecutorStart, OldStatus
  <2>2. \A i \in Looped \ forgotten[k] : Live(job'[k][i]) => i = row[k].looped
    BY <1>1, <1>4, <2>1 DEF ExecutorStart, StartedJob, Single
  <2>3. UNCHANGED <<row, pc, op, forgotten>>
    BY <1>4 DEF ExecutorStart
  <2> QED BY <2>1, <2>2, <2>3 DEF Single
<1>5. ASSUME ~ExecutorStart(k) PROVE Single(k)'
  <2>0. /\ \A i \in Looped \ forgotten'[k] : Live(job'[k][i]) =>
             Live(job[k][i]) /\ i \in Looped \ forgotten[k]
        /\ ~HasKnownJob(k) => ~HasKnownJob(k)'
    BY <1>5, LiveJobSteps
  <2>1. ~Live(JobOf(k)) /\ mem[k].looped = row[k].looped => ~HasKnownJob(k)
    BY DEF Single, JobOf, HasKnownJob
  <2> HIDE DEF HasKnownJob, Live
  <2> USE DEF Single
  <2>2. CASE OpStep(k)
    <3>1. UNCHANGED <<row, pc, op, outcome>> /\ (mem' = mem \/ mem' = [mem EXCEPT ![k] = row[k]])
      BY <2>2, <1>5 DEF OpStep, CheckPipeline, ProcessPrepare, ProcessCreate, StartPopped,
                StartRefused, ProcessQueue, ProcessWait, FetchLatestTask, LingeringCheck,
                LingeringFetch
    <3>2. op[k] = "wait" /\ at'[k] \in {"fetch", "send"} => (IsEnd(res'[k]) => ~HasKnownJob(k))
      <4>1. CASE ProcessWait(k)
        <5>1. mem[k].looped = row[k].looped
          BY <1>2, <4>1 DEF ProcessWait, Processing
        <5>2. ~IsEnd("err") /\ ~IsEnd("nil")
          BY DEF IsEnd, EndStatuses
        <5> QED BY <1>1, <2>1, <4>1, <5>1, <5>2 DEF ProcessWait, Report, LoopEnds, Hang, Processing
      <4>2. CASE FetchLatestTask(k)
        <5>1. ~IsEnd("exit")
          BY DEF IsEnd, EndStatuses
        <5> QED BY <1>1, <4>2, <5>1 DEF FetchLatestTask
      <4> QED BY <1>1, <1>5, <2>2, <4>1, <4>2
         DEF OpStep, CheckPipeline, ProcessPrepare, ProcessCreate, StartPopped,
             StartRefused, ProcessQueue, LingeringCheck, LingeringFetch, Report, LoopEnds, Hang,
             Processing
    <3> QED BY <1>1, <1>2, <1>3, <2>0, <3>1, <3>2
  <2>3. CASE WaitOpStep(k)
    <3>1. CASE ReceiveCtxDone(k) \/ ReceiveExit(k)
      BY <1>1, <1>2, <1>3, <2>0, <3>1 DEF ReceiveCtxDone, ReceiveExit, Received
    <3>2. CASE Update(k)
      BY <1>1, <1>2, <2>0, <3>2 DEF Update, HasKnownJob
    <3>3. CASE ReceiveErr(k)
      BY <1>1, <1>2, <2>0, <3>3 DEF ReceiveErr, Received, Rows
    <3>4. CASE PrepareDone(k)
      <4>1. ~HasKnownJob(k)
        BY <1>2, <3>4 DEF PrepareDone, Received, OldStatus
      <4>2. row' = row /\ job' = job
        BY <3>4 DEF PrepareDone
      <4> QED BY <2>0, <4>1, <4>2
    <3>5. CASE OpDone(k)
      <4>1. op[k] = "wait" => res[k] = "nil" \/ res[k] \in EndStatuses
        BY <3>5 DEF OpDone, Received, TypeInv, TaskRunTypeOK, WaitReports, Reports
      <4>2. pc[k] = "select" /\ at[k] = "send" /\ row' = row /\ op' = op
            /\ pc'[k] = "defer" /\ at'[k] = "none"
        BY <1>1, <3>5 DEF OpDone, Received
      <4>3. mem'[k].looped = row[k].looped
        BY <1>1, <1>2, <3>5, <4>2 DEF OpDone, Rows
      <4>4. mem'[k].status \in {"Analyzed", "Born"} => row[k].status \in {"Analyzed", "Born"}
        BY <1>1, <1>2, <3>5, <4>1, <4>2 DEF OpDone, Rows, Ops, EndStatuses
      <4>5. IsEnd(mem'[k].status) => op[k] = "wait" /\ IsEnd(res[k])
        BY <1>1, <1>2, <1>3, <3>5, <4>1, <4>2 DEF OpDone, Rows, Ops, IsEnd, EndStatuses
      <4> QED BY <2>0, <4>2, <4>3, <4>4, <4>5
    <3>6. CASE ReceiveTimeout(k)
      <4>1. /\ row' = row /\ op' = op /\ pc'[k] = "defer" /\ at'[k] = "none"
            /\ mem'[k].looped = row[k].looped
        BY <1>1, <3>6 DEF ReceiveTimeout, TimedOut, Rows
      <4>2. mem'[k].status \notin {"Analyzed", "Born"}
        <5>1. job[k][row[k].looped] \in JobStates
          BY <1>1
        <5>2. JobStatus(job[k][row[k].looped]) \notin {"Analyzed", "Born"}
          BY <5>1, JobStatusType
        <5> QED BY <1>1, <3>6, <5>2 DEF ReceiveTimeout, TimedOut, Rows
      <4>3. \/ outcome'[k] = "err" \/ ~Live(job'[k][row[k].looped])
            \/ row[k].looped \in forgotten'[k]
        <5>1. forgotten \in [Keys -> SUBSET Looped]
          BY DEF TypeInv, TaskRunTypeOK
        <5>2. \/ outcome'[k] = "err" \/ row[k].looped \in forgotten'[k]
              \/ ~Live(job[k][row[k].looped]) /\ job' = job
              \/ job' = CancelledJob(k, row[k].looped)
          BY <1>1, <3>6, <5>1 DEF ReceiveTimeout, TimedOut
        <5> QED BY <1>1, <5>2 DEF CancelledJob, Live
      <4>4. \A i \in Looped \ forgotten'[k] : Live(job'[k][i]) => i = row[k].looped
        BY <2>0
      <4>5. outcome'[k] # "err" => ~HasKnownJob(k)'
        BY <4>3, <4>4 DEF HasKnownJob
      <4> QED BY <2>0, <4>1, <4>2, <4>4, <4>5
    <3>7. CASE HandleTaskLoop(k)
      <4>1. /\ pc[k] = "defer" /\ pc'[k] = "update" /\ UNCHANGED <<row, op, at, res, job>>
            /\ at[k] = "none"
        BY <1>1, <1>2, <3>7 DEF HandleTaskLoop
      <4>2. MayLoop(k) => outcome[k] # "err" /\ ~Fail /\ ~HasKnownJob(k)
        BY <4>1, LoopsAreSafe DEF Data, MayLoop
      <4>3. \/ /\ mem'[k].looped = mem[k].looped
               /\ mem'[k].status \in {mem[k].status, row[k].status}
            \/ ~HasKnownJob(k)
        BY <1>1, <1>2, <3>7, <4>1, <4>2 DEF HandleTaskLoop, RestoredStatus, Rows
      <4> QED BY <2>0, <4>1, <4>3
    <3> QED BY <2>3, <3>1, <3>2, <3>3, <3>4, <3>5, <3>6, <3>7 DEF WaitOpStep
  <2>4. CASE ReconcileStep(k)
    <3>1. CASE Correct(k)
      <4>1. JobStatus(JobOf(k)) \notin {"Analyzed", "Born"}
        <5>1. JobOf(k) \in JobStates
          BY <1>1 DEF JobOf
        <5> QED BY <5>1, JobStatusType
      <4> QED BY <1>1, <2>0, <3>1, <4>1, <1>2 DEF Correct, Rows
    <3>2. CASE TeardownPipeline(k)
      <4>1. row' = row
        BY <3>2, NoSkip DEF Data
      <4> QED BY <1>1, <2>0, <3>2, <4>1 DEF TeardownPipeline, Leave
    <3> QED BY <1>1, <1>2, <2>0, <2>4, <3>1, <3>2
       DEF ReconcileStep, Listen, UpdateStatusBeforeReconcile, Reconcile, StartOp, LeaveLoop,
           AbnormalRetry, Teardown, UpdateStatusAfterReconcile, Leave
  <2>5. CASE CancelStep(k)
    BY <2>5 DEF CancelStep, CancelCheck, CancelListTasks, CancelExecutor,
                CancelReadTask, CancelWriteTask, CancelPipeline,
                Control
  <2>6. CASE JobStep(k)
    BY <2>0, <2>6 DEF JobStep
  <2> QED BY <2>2, <2>3, <2>4, <2>5, <2>6 DEF TaskStep
<1> QED BY <1>4, <1>5

-----------------------------------------------------------------------------
(* All tasks, and restarts.                                                *)

Sound == \A k \in Keys : Control(k) /\ Data(k) /\ Earned(k)
Orderly == \A k \in Keys : Moves(k) /\ PastPending(k) /\ Single(k)

LEMMA InitSound == Init => Sound /\ Orderly
<1> SUFFICES ASSUME Init, NEW k \in Keys
             PROVE  /\ Control(k) /\ Data(k) /\ Earned(k)
                    /\ Moves(k) /\ PastPending(k) /\ Single(k)
  BY DEF Sound, Orderly
<1>1. /\ row[k] = [status |-> "Analyzed", looped |-> 0] /\ mem[k] = row[k]
      /\ pc[k] = "idle" /\ outcome[k] = "ok" /\ ctxDone[k] = FALSE /\ at[k] = "none"
      /\ op[k] = "prepare" /\ cancel[k] = "idle"
      /\ lingering[k] = [check |-> 0, poll |-> 0]
      /\ \A i \in Looped : job[k][i] = "none"
  BY DEF Init
<1>2. 0 \in Looped
  BY TaskRunAssumption DEF Looped
<1>3. Control(k)
  BY <1>1 DEF Control, PipelineRuns, Working, FreshRound, InStep
<1>4. Data(k)
  BY <1>1 DEF Data, Agrees, Known, Closing, InReconcile
<1>5. Earned(k) /\ Moves(k) /\ PastPending(k)
  BY <1>1, <1>2 DEF Earned, Moves, PastPending
<1>6. Single(k)
  BY <1>1, <1>2 DEF Single, HasKnownJob, Live
<1> QED BY <1>3, <1>4, <1>5, <1>6

LEMMA OthersSound ==
  ASSUME TypeInv, Sound, NEW k \in Keys, TaskStep(k), NEW j \in Keys \ {k}
  PROVE  Control(j)' /\ Data(j)' /\ Earned(j)'
<1>1. /\ pc'[j] = pc[j] /\ op'[j] = op[j] /\ at'[j] = at[j] /\ outcome'[j] = outcome[j]
      /\ row'[j] = row[j] /\ mem'[j] = mem[j] /\ ctxDone'[j] = ctxDone[j] /\ calc'[j] = calc[j]
      /\ lingering'[j] = lingering[j] /\ job'[j] = job[j] /\ res'[j] = res[j]
      /\ cancel'[j] = cancel[j] /\ pipeline'[j] = pipeline[j]
      /\ j \in saved' <=> j \in saved
  BY OtherTasks
<1>2. failures > 0 => failures' > 0
  <2>1. failures \in Nat
    BY TaskRunAssumption DEF TypeInv, TaskRunTypeOK
  <2>2. failures' = failures \/ failures' = failures + 1
    BY CountSteps DEF Fail
  <2> QED BY <2>1, <2>2
<1>3. Control(j) /\ Data(j) /\ Earned(j)
  BY DEF Sound
<1>4. Control(j)'
  BY <1>1, <1>2, <1>3 DEF Control, PipelineRuns, FreshRound, Beginning, InStep
<1>5. Agrees(j)' /\ Known(j)'
  BY <1>1, <1>3 DEF Data, Agrees, Known
<1>6. Closing(j)'
  BY <1>1, <1>3 DEF Data, Closing, CalculatePipelineStatus
<1>7. Earned(j)'
  BY <1>1, <1>3 DEF Earned, JobOf
<1> QED BY <1>4, <1>5, <1>6, <1>7 DEF Data

LEMMA OthersOrderly ==
  ASSUME TypeInv, Orderly, NEW k \in Keys, TaskStep(k), NEW j \in Keys \ {k}
  PROVE  Moves(j)' /\ PastPending(j)' /\ Single(j)'
<1>1. /\ pc'[j] = pc[j] /\ op'[j] = op[j] /\ at'[j] = at[j] /\ outcome'[j] = outcome[j]
      /\ row'[j] = row[j] /\ mem'[j] = mem[j] /\ job'[j] = job[j] /\ res'[j] = res[j]
      /\ forgotten'[j] = forgotten[j]
  BY OtherTasks
<1>2. Moves(j) /\ PastPending(j) /\ Single(j)
  BY DEF Orderly
<1>3. Moves(j)'
  BY <1>1, <1>2 DEF Moves, StepsForward, StartsOver, Lifecycle!Begun, Lifecycle!Later
<1>4. PastPending(j)'
  BY <1>1, <1>2 DEF PastPending, JobOf
<1>5. Single(j)'
  BY <1>1, <1>2 DEF Single, HasKnownJob
<1> QED BY <1>3, <1>4, <1>5

LEMMA EngineStepSound ==
  ASSUME TypeInv, Sound, BackupThrottler \/ Crash
  PROVE  Sound' /\ (Orderly => Orderly')
<1> USE DEF rowVars, runVars, opVars, clusterVars, cancelVars, storedVars
<1> SUFFICES ASSUME NEW k \in Keys
             PROVE  /\ Control(k)' /\ Data(k)' /\ Earned(k)'
                    /\ Orderly => Moves(k)' /\ PastPending(k)' /\ Single(k)'
  BY DEF Sound, Orderly
<1>1. Control(k) /\ Data(k) /\ Earned(k)
  BY DEF Sound
<1>2. CASE BackupThrottler
  <2>1. UNCHANGED <<row, pipeline, mem, pc, outcome, calc, ctxDone, op, at, res, lingering, job,
                    failures, cancel, saved, forgotten>>
    BY <1>2 DEF BackupThrottler
  <2>2. Control(k)' /\ Data(k)' /\ Earned(k)'
    BY <1>1, <2>1 DEF Control, PipelineRuns, FreshRound, Beginning, InStep, Data, Agrees, Known,
                      Closing, CalculatePipelineStatus, Earned, JobOf
  <2>3. Orderly => Moves(k)' /\ PastPending(k)' /\ Single(k)'
    BY <2>1 DEF Orderly, Moves, StepsForward, StartsOver, Lifecycle!Begun, Lifecycle!Later,
                PastPending, JobOf, Single, HasKnownJob
  <2> QED BY <2>2, <2>3
<1>3. CASE Crash
  <2>1. /\ UNCHANGED <<row, mem, outcome, op, res, job, failures, saved, forgotten>>
        /\ pc'[k] \in {"idle", "done"} /\ at'[k] = "none" /\ ctxDone'[k] = FALSE
        /\ lingering'[k] = [check |-> 0, poll |-> 0]
        /\ cancel'[k] = IF cancel[k] = "done" THEN "done" ELSE "idle"
    BY <1>3 DEF Crash
  <2>2. Control(k)'
    BY <1>1, <2>1 DEF Control, PipelineRuns, Working, FreshRound, InStep
  <2>3. Data(k)' /\ Earned(k)'
    BY <1>1, <2>1 DEF Data, Agrees, Known, Closing, InReconcile, Earned
  <2>4. Orderly => Moves(k)' /\ PastPending(k)' /\ Single(k)'
    BY <2>1 DEF Orderly, Moves, PastPending, Single, HasKnownJob
  <2> QED BY <2>2, <2>3, <2>4
<1> QED BY <1>2, <1>3

LEMMA SoundInductive == CancelTasks = {} => (Spec => []Sound)
<1> SUFFICES ASSUME CancelTasks = {} PROVE Spec => []Sound
  OBVIOUS
<1>1. TypeInv /\ Sound /\ [Next]_vars => Sound'
  <2> SUFFICES ASSUME TypeInv, Sound, [Next]_vars PROVE Sound'
    OBVIOUS
  <2>1. ASSUME NEW k \in Keys, TaskStep(k) PROVE Sound'
    <3>1. Control(k)' /\ Data(k)' /\ Earned(k)'
      BY <2>1, ControlStep, DataStep, EarnedStep DEF Sound
    <3> QED BY <2>1, <3>1, OthersSound DEF Sound
  <2>2. CASE UNCHANGED vars
    BY <2>2 DEF Sound, Control, PipelineRuns, FreshRound, Beginning, InStep, Data, Agrees, Known,
                Closing, CalculatePipelineStatus, Earned, JobOf, vars, rowVars, runVars, opVars,
                clusterVars, cancelVars, storedVars
  <2> QED BY <2>1, <2>2, EngineStepSound, NextIsTaskStep
<1> QED BY <1>1, InitSound, TypeInductive, PTL DEF Spec

LEMMA OrderlyInductive == CancelTasks = {} /\ SafeLoops => (Spec => []Orderly)
<1> SUFFICES ASSUME CancelTasks = {}, SafeLoops PROVE Spec => []Orderly
  OBVIOUS
<1>1. TypeInv /\ Sound /\ Orderly /\ [Next]_vars => Orderly'
  <2> SUFFICES ASSUME TypeInv, Sound, Orderly, [Next]_vars PROVE Orderly'
    OBVIOUS
  <2>1. ASSUME NEW k \in Keys, TaskStep(k) PROVE Orderly'
    <3>1. Moves(k)' /\ PastPending(k)' /\ Single(k)'
      BY <2>1, MovesStep, PastPendingStep, SingleStep DEF Sound, Orderly
    <3> QED BY <2>1, <3>1, OthersOrderly DEF Orderly
  <2>2. CASE UNCHANGED vars
    BY <2>2 DEF Orderly, Moves, StepsForward, StartsOver, Lifecycle!Begun, Lifecycle!Later,
                PastPending, JobOf, Single, HasKnownJob, vars, rowVars, runVars, opVars,
                clusterVars, storedVars
  <2> QED BY <2>1, <2>2, EngineStepSound, NextIsTaskStep
<1> QED BY <1>1, InitSound, SoundInductive, TypeInductive, PTL DEF Spec

(* A task that nobody cancels is Success in the database only because the  *)
(* job of its iteration is, through any number of errors, timeouts, loops  *)
(* and restarts: no stale tr.Task and no correction makes one up.          *)
THEOREM SuccessesAreEarned == CancelTasks = {} => (Spec => []SuccessIsEarned)
<1>1. Sound => SuccessIsEarned
  BY DEF Sound, Earned, SuccessIsEarned
<1> QED BY <1>1, SoundInductive, PTL

(* It never has two jobs at once, whatever timeouts, answers Unknown and   *)
(* restarts do, but for a job whose status was Unknown when its task timed *)
(* out (forgotten) - as long as no platform error meets a task with loop   *)
(* options: the error would count as the end of an iteration whose job     *)
(* still runs.                                                             *)
THEOREM JobsAreSingle == CancelTasks = {} /\ SafeLoops => (Spec => []OneLiveJob)
<1>1. Orderly => OneLiveJob
  BY DEF Orderly, Single, OneLiveJob
<1> QED BY <1>1, OrderlyInductive, PTL

-----------------------------------------------------------------------------
(* The refinement.                                                         *)

LEMMA CloseStep ==
  ASSUME TypeInv, NEW k \in Keys, Control(k), Data(k), TeardownPipeline(k)
  PROVE  [Lifecycle!LifecycleNext]_<<row, pipeline>>
<1>1. /\ row' = row /\ pipeline[k] = "Running"
      /\ calc[k].status = CalculatePipelineStatus(k \in saved, row[k].status)
  BY NoSkip DEF Data, Closing, TeardownPipeline, Control, PipelineRuns, Working
<1>2. \/ pipeline' = pipeline
      \/ calc[k].status # "Running" /\ pipeline' = [pipeline EXCEPT ![k] = calc[k].status]
  BY DEF TeardownPipeline, TypeInv, TaskRunTypeOK
<1>3. k \notin saved => row[k].status = "Analyzed"
  BY DEF Data, Known
<1>4. CASE k \notin saved /\ pipeline' = [pipeline EXCEPT ![k] = "Success"]
  BY <1>1, <1>3, <1>4 DEF Lifecycle!LifecycleNext, Lifecycle!CloseEmpty
<1>5. CASE row[k].status = "Analyzed" /\ pipeline' = [pipeline EXCEPT ![k] = "Analyzed"]
  BY <1>1, <1>5 DEF Lifecycle!LifecycleNext, Lifecycle!PutBack
<1>6. CASE /\ IsEnd(row[k].status)
           /\ pipeline' = [pipeline EXCEPT ![k] =
                             IF row[k].status \in {"Success", "NoNeedBySystem"}
                             THEN "Success" ELSE "Failed"]
  BY <1>1, <1>6
     DEF Lifecycle!LifecycleNext, Lifecycle!Close, Lifecycle!Ended, Lifecycle!Good,
         Lifecycle!Bad, IsEnd, EndStatuses
<1>7. \/ calc[k].status = "Running"
      \/ k \notin saved /\ calc[k].status = "Success"
      \/ row[k].status = "Analyzed" /\ calc[k].status = "Analyzed"
      \/ IsEnd(row[k].status) /\ calc[k].status = IF row[k].status \in {"Success", "NoNeedBySystem"}
                                                  THEN "Success" ELSE "Failed"
  BY <1>1 DEF CalculatePipelineStatus, IsEnd, EndStatuses
<1> QED BY <1>1, <1>2, <1>4, <1>5, <1>6, <1>7

LEMMA TaskStepLifecycle ==
  ASSUME TypeInv, NEW k \in Keys, CancelTasks = {}, Control(k), Data(k), Moves(k), PastPending(k),
         TaskStep(k)
  PROVE  [Lifecycle!LifecycleNext]_<<row, pipeline>>
<1> USE DEF rowVars, runVars, opVars, clusterVars, cancelVars, storedVars
<1>1. /\ row \in [Keys -> Rows] /\ mem \in [Keys -> Rows]
      /\ row[k] \in Rows /\ mem[k] \in Rows
      /\ row[k].status \in TaskStatuses
      /\ mem[k] = [status |-> mem[k].status, looped |-> mem[k].looped]
      /\ op[k] \in Ops
  BY DEF TypeInv, TaskRunTypeOK, Rows
<1>2. \/ row' = row /\ pipeline' = pipeline
      \/ TeardownPipeline(k) \/ UpdateStatusBeforeReconcile(k) \/ Update(k) \/ Correct(k)
      \/ AbnormalRetry(k)
  BY DEF Control, TaskStep, OpStep, CheckPipeline, ProcessPrepare, ProcessCreate, StartPopped,
         StartRefused, ExecutorStart, ProcessQueue, ProcessWait, FetchLatestTask,
         LingeringCheck, LingeringFetch, WaitOpStep, ReceiveCtxDone, ReceiveExit, ReceiveErr,
         PrepareDone, OpDone, ReceiveTimeout, HandleTaskLoop, ReconcileStep,
         Listen, Reconcile, StartOp, LeaveLoop, Teardown, UpdateStatusAfterReconcile, CancelStep,
         CancelCheck, CancelListTasks, CancelExecutor,
         CancelReadTask, CancelWriteTask, CancelPipeline, JobStep
<1>3. CASE UpdateStatusBeforeReconcile(k)
  <2>1. pipeline[k] \in {"Queue", "Analyzed"} /\ row' = row
    BY <1>3 DEF UpdateStatusBeforeReconcile, Control, PipelineRuns
  <2> QED BY <1>3, <2>1 DEF UpdateStatusBeforeReconcile, Lifecycle!LifecycleNext, Lifecycle!Open
<1>4. CASE Update(k)
  <2>1. /\ row' = [row EXCEPT ![k] = mem[k]] /\ pipeline' = pipeline
        /\ pipeline[k] = "Running" /\ row[k].status = OldStatus(op[k])
        /\ StepsForward(k) \/ StartsOver(k)
    BY <1>4 DEF Update, Control, PipelineRuns, Working, Data, Agrees, Moves
  <2>2. ~Lifecycle!Ended(row[k].status) /\ ~Lifecycle!Ended(pipeline[k])
    BY <1>1, <2>1 DEF Lifecycle!Ended, Lifecycle!Good, Lifecycle!Bad, OldStatus, Ops
  <2> HIDE DEF Lifecycle!Later, Lifecycle!Begun, Lifecycle!Ended
  <2>3. CASE StepsForward(k)
    <3>1. Lifecycle!Advance(k)
      BY <1>1, <2>1, <2>2, <2>3 DEF StepsForward, Lifecycle!Advance
    <3> QED BY <3>1 DEF Lifecycle!LifecycleNext
  <2>4. CASE StartsOver(k)
    <3>1. Lifecycle!StartOver(k)
      BY <2>1, <2>2, <2>4 DEF StartsOver, Lifecycle!StartOver
    <3> QED BY <3>1 DEF Lifecycle!LifecycleNext
  <2> QED BY <2>1, <2>3, <2>4
<1>5. CASE Correct(k)
  <2>1. pipeline' = pipeline /\ mem[k] = row[k]
    BY <1>5 DEF Correct, Data, Agrees
  <2>2. ASSUME JobOf(k) # "none", mem[k].status # JobStatus(JobOf(k)),
               mem' = [mem EXCEPT ![k].status = JobStatus(JobOf(k))],
               row' = [row EXCEPT ![k] = mem'[k]]
        PROVE  Lifecycle!LifecycleNext
    <3>1. row' = [row EXCEPT ![k] = [status |-> JobStatus(JobOf(k)), looped |-> row[k].looped]]
      BY <1>1, <2>1, <2>2 DEF Rows
    <3>2. JobOf(k) \in {"pending", "running", "ok", "failed"}
      <4>1. JobOf(k) \in JobStates
        BY DEF TypeInv, TaskRunTypeOK, Rows, JobOf
      <4> QED BY <2>2, <4>1 DEF JobStates
    <3>3. ~Lifecycle!Ended(row[k].status)
      BY <1>5 DEF Correct, Data, Agrees, IsEnd, EndStatuses, Lifecycle!Ended, Lifecycle!Good,
                  Lifecycle!Bad
    <3>4. JobStatus(JobOf(k)) \in Lifecycle!Later(row[k].status) \cup {row[k].status}
      <4>1. row[k].status \in {"Analyzed", "Born", "Created", "Queue", "Running"}
        BY <1>1, <3>3 DEF TaskStatuses, EndStatuses, Lifecycle!Ended, Lifecycle!Good, Lifecycle!Bad
      <4>2. JobOf(k) = "pending" => row[k].status # "Running"
        BY <2>1 DEF PastPending, JobOf
      <4>3. /\ JobOf(k) = "pending" => JobStatus(JobOf(k)) = "Queue"
            /\ JobOf(k) = "running" => JobStatus(JobOf(k)) = "Running"
            /\ JobOf(k) \in {"ok", "failed"} => JobStatus(JobOf(k)) \in EndStatuses
        BY DEF JobStatus, EndStatuses
      <4> HIDE DEF Lifecycle!Later
      <4> QED BY <3>2, <4>1, <4>2, <4>3, LaterStatuses
    <3> HIDE DEF Lifecycle!Later, Lifecycle!Begun, Lifecycle!Ended
    <3>5. Lifecycle!Advance(k)
      BY <2>1, <3>1, <3>3, <3>4 DEF Lifecycle!Advance
    <3> QED BY <3>5 DEF Lifecycle!LifecycleNext
  <2> QED BY <1>5, <2>1, <2>2 DEF Correct
<1>6. CASE AbnormalRetry(k)
  <2>1. row' = [row EXCEPT ![k] = row[k]] /\ pipeline' = pipeline
    BY <1>6 DEF AbnormalRetry, Data, Agrees
  <2> QED BY <1>1, <2>1
<1> QED BY <1>2, <1>3, <1>4, <1>5, <1>6, CloseStep

(* Seen from the database, the reconciler takes every task that nobody     *)
(* cancels, and its pipeline, through the life cycle of TaskLifecycle: for *)
(* any number of tasks, queues, timeouts and restarts, and with platform   *)
(* errors or with loops.                                                   *)
THEOREM RefinesLifecycle == CancelTasks = {} /\ SafeLoops => (Spec => ImplementsLifecycle)
<1> SUFFICES ASSUME CancelTasks = {}, SafeLoops PROVE Spec => ImplementsLifecycle
  OBVIOUS
<1>1. Init => Lifecycle!LifecycleInit
  BY DEF Init, Lifecycle!LifecycleInit
<1>2. TypeInv /\ Sound /\ Orderly /\ [Next]_vars => [Lifecycle!LifecycleNext]_<<row, pipeline>>
  <2> SUFFICES ASSUME TypeInv, Sound, Orderly, [Next]_vars
               PROVE  [Lifecycle!LifecycleNext]_<<row, pipeline>>
    OBVIOUS
  <2>1. ASSUME NEW k \in Keys, TaskStep(k)
        PROVE  [Lifecycle!LifecycleNext]_<<row, pipeline>>
    BY <2>1, TaskStepLifecycle DEF Sound, Orderly
  <2>2. CASE BackupThrottler \/ Crash \/ UNCHANGED vars
    BY <2>2 DEF BackupThrottler, Crash, vars, rowVars
  <2> QED BY <2>1, <2>2, NextIsTaskStep
<1> QED BY <1>1, <1>2, TypeInductive, SoundInductive, OrderlyInductive, PTL
        DEF Spec, ImplementsLifecycle, Lifecycle!LifecycleSpec
=============================================================================
