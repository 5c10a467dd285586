--------------------------- MODULE TaskSlotProofs ---------------------------
(***************************************************************************)
(* Proofs about the places that tasks hold in the queues of the throttler, *)
(* for tasks without loop options.                                         *)
(***************************************************************************)
EXTENDS TaskLifecycleProofs

-----------------------------------------------------------------------------
(* A task without loop options does not go back.                           *)

NoLoop(k) ==
  k \notin LoopTasks => row[k].looped = 0 /\ mem[k].looped = 0 /\ seen[k].looped = 0

LEMMA NoLoopStep ==
  ASSUME TypeInv, NEW k \in Keys, TaskStep(k), NoLoop(k)
  PROVE  NoLoop(k)'
<1> SUFFICES ASSUME k \notin LoopTasks PROVE NoLoop(k)'
  BY DEF NoLoop
<1> USE DEF rowVars, runVars, opVars, clusterVars, cancelVars, storedVars
<1>1. /\ row \in [Keys -> Rows] /\ mem \in [Keys -> Rows] /\ seen \in [Keys -> Rows]
      /\ row[k].looped = 0 /\ mem[k].looped = 0 /\ seen[k].looped = 0
      /\ row[k] \in Rows /\ mem[k] \in Rows /\ seen[k] \in Rows
      /\ LoopOptions(k) = 0 /\ ~MayLoop(k)
  BY DEF TypeInv, TaskRunTypeOK, NoLoop, LoopOptions, MayLoop
<1>2. CASE OpStep(k)
  BY <1>1, <1>2
     DEF OpStep, CheckPipeline, ProcessPrepare, ProcessCreate, StartPopped, StartRefused,
         ExecutorStart, ProcessQueue, ProcessWait, FetchLatestTask, LingeringCheck,
         LingeringFetch, NoLoop
<1>3. CASE WaitOpStep(k)
  <2>1. CASE ReceiveCtxDone(k) \/ ReceiveExit(k) \/ Update(k)
    BY <1>1, <2>1 DEF ReceiveCtxDone, ReceiveExit, Update, NoLoop
  <2>2. CASE ReceiveErr(k) \/ OpDone(k)
    BY <1>1, <2>2 DEF ReceiveErr, OpDone, NoLoop, Rows
  <2>3. CASE PrepareDone(k)
    BY <1>1, <2>3 DEF PrepareDone, NoLoop, Rows
  <2>4. CASE ReceiveTimeout(k)
    BY <1>1, <2>4 DEF ReceiveTimeout, TimedOut, NoLoop, Rows
  <2>5. CASE HandleTaskLoop(k)
    BY <1>1, <2>5 DEF HandleTaskLoop, NoLoop, Rows
  <2> QED BY <1>3, <2>1, <2>2, <2>3, <2>4, <2>5 DEF WaitOpStep
<1>4. CASE ReconcileStep(k)
  BY <1>1, <1>4
     DEF ReconcileStep, Listen, UpdateStatusBeforeReconcile, Reconcile, Correct, StartOp,
         LeaveLoop, AbnormalRetry, Teardown, UpdateStatusAfterReconcile, TeardownPipeline,
         NoLoop, Rows
<1>5. CASE CancelStep(k)
  BY <1>1, <1>5
     DEF CancelStep, CancelCheck, CancelListTasks, CancelExecutor,
                CancelReadTask, CancelWriteTask, CancelPipeline, NoLoop, Rows
<1>6. CASE JobStep(k)
  BY <1>1, <1>6 DEF JobStep, NoLoop
<1> QED BY <1>2, <1>3, <1>4, <1>5, <1>6 DEF TaskStep

(* Once reconcileTask has chosen an operation after those of Operations,   *)
(* neither tr.Task nor the row has one of Statuses again.                  *)
PastOf(Statuses, Operations, k) ==
  /\ op[k] \notin Operations => mem[k].status \notin Statuses /\ row[k].status \notin Statuses
  /\ pc[k] \in {"correct", "loop"} /\ mem[k].status \notin Statuses =>
       row[k].status \notin Statuses
Past(k) ==
  k \notin LoopTasks => /\ PastOf({"Analyzed"}, {"prepare"}, k)
                        /\ PastOf({"Analyzed", "Born", "Created"}, {"prepare", "create", "start"}, k)

LEMMA PastStep ==
  ASSUME TypeInv, NEW k \in Keys, TaskStep(k), NoLoop(k), Past(k)
  PROVE  Past(k)'
<1> SUFFICES ASSUME k \notin LoopTasks PROVE Past(k)'
  BY DEF Past
<1> USE DEF rowVars, runVars, opVars, clusterVars, cancelVars, storedVars, Past, PastOf
<1>1. /\ row \in [Keys -> Rows] /\ mem \in [Keys -> Rows]
      /\ row[k] \in Rows /\ mem[k] \in Rows /\ seen[k] \in Rows
      /\ op \in [Keys -> Ops] /\ op[k] \in Ops /\ pc \in [Keys -> Places]
      /\ ~MayLoop(k)
      /\ mem[k].status \in TaskStatuses
  BY DEF TypeInv, TaskRunTypeOK, NoLoop, MayLoop, Places, Rows
<1>2. /\ JobStatus(JobOf(k)) \in {"StartError", "Queue", "Running", "Success", "Failed"}
      /\ JobStatus(job[k][row[k].looped]) \in {"StartError", "Queue", "Running", "Success", "Failed"}
  <2>1. JobOf(k) \in JobStates /\ job[k][row[k].looped] \in JobStates
    BY DEF TypeInv, TaskRunTypeOK, Rows, JobOf
  <2> QED BY <2>1, JobStatusType
<1>3. CASE OpStep(k)
  BY <1>1, <1>3
     DEF OpStep, CheckPipeline, ProcessPrepare, ProcessCreate, StartPopped, StartRefused,
         ExecutorStart, ProcessQueue, ProcessWait, FetchLatestTask, LingeringCheck,
         LingeringFetch
<1>4. CASE WaitOpStep(k)
  <2>1. CASE ReceiveCtxDone(k) \/ ReceiveExit(k) \/ Update(k)
    BY <1>1, <2>1 DEF ReceiveCtxDone, ReceiveExit, Update, Received
  <2>2. CASE ReceiveErr(k)
    BY <1>1, <2>2 DEF ReceiveErr, Received, Rows
  <2>3. CASE OpDone(k)
    <3>1. op[k] = "wait" => res[k] \notin {"Analyzed", "Born", "Created"}
      BY DEF TypeInv, TaskRunTypeOK, EndStatuses
    <3> QED BY <1>1, <2>3, <3>1 DEF OpDone, Received, Rows, Ops
  <2>4. CASE PrepareDone(k)
    BY <1>1, <2>4 DEF PrepareDone, Received, Rows
  <2>5. CASE ReceiveTimeout(k)
    BY <1>1, <1>2, <2>5 DEF ReceiveTimeout, TimedOut, Rows
  <2>6. CASE HandleTaskLoop(k)
    BY <1>1, <2>6 DEF HandleTaskLoop, Rows, RestoredStatus, OldStatus, Ops
  <2> QED BY <1>4, <2>1, <2>2, <2>3, <2>4, <2>5, <2>6 DEF WaitOpStep
<1>5. CASE ReconcileStep(k)
  <2>1. CASE StartOp(k)
    BY <1>1, <2>1 DEF StartOp, OpOf, TaskStatuses, IsEnd
  <2>2. CASE Correct(k)
    BY <1>1, <1>2, <2>2 DEF Correct, Rows
  <2>3. CASE TeardownPipeline(k)
    BY <1>1, <2>3 DEF TeardownPipeline, Leave, Rows
  <2> QED BY <1>1, <1>5, <2>1, <2>2, <2>3
     DEF ReconcileStep, Listen, UpdateStatusBeforeReconcile, Reconcile,
         LeaveLoop, AbnormalRetry, Teardown, UpdateStatusAfterReconcile, Leave
<1>6. CASE CancelStep(k)
  BY <1>1, <1>6
     DEF CancelStep, CancelCheck, CancelListTasks, CancelExecutor,
                CancelReadTask, CancelWriteTask, CancelPipeline, Rows
<1>7. CASE JobStep(k)
  BY <1>1, <1>7 DEF JobStep
<1> QED BY <1>3, <1>4, <1>5, <1>6, <1>7 DEF TaskStep

-----------------------------------------------------------------------------
(* The reconciler is a disciplined client of the throttler.                *)

(* A task that holds a place, now or in the backup, is past prepare.       *)
Holder(k) ==
  k \notin LoopTasks =>
    /\ InAnyProcessing(k) => op[k] # "prepare"
    /\ backup # NoBackup =>
         \A q \in Queues : k \in backup.processing[q] => op[k] # "prepare"

Forward == \A k \in Keys : NoLoop(k) /\ Past(k) /\ Holder(k)

LEMMA InitForward == Init => Forward
BY DEF Init, ThrottlerInit, Forward, NoLoop, Past, PastOf, Holder, InAnyProcessing, InProcessing

LEMMA HolderStep ==
  ASSUME TypeInv, NEW k \in Keys, TaskStep(k), Past(k), Holder(k)
  PROVE  Holder(k)'
<1> SUFFICES ASSUME k \notin LoopTasks PROVE Holder(k)'
  BY DEF Holder
<1> USE DEF rowVars, runVars, opVars, clusterVars, cancelVars, storedVars
<1>1. TypeOK /\ op[k] \in Ops /\ mem[k].status \in TaskStatuses /\ op \in [Keys -> Ops]
  BY DEF TypeInv, TaskRunTypeOK, Rows
<1>2. backup' = backup
  BY CountSteps
<1>3. ASSUME op[k] # "prepare" PROVE op'[k] # "prepare"
  <2>1. op' = op \/ StartOp(k)
    BY DEF TaskStep, OpStep, CheckPipeline, ProcessPrepare, ProcessCreate, StartPopped,
           StartRefused, ExecutorStart, ProcessQueue, ProcessWait, FetchLatestTask,
           LingeringCheck, LingeringFetch, WaitOpStep, ReceiveCtxDone, ReceiveExit, ReceiveErr,
           PrepareDone, OpDone, ReceiveTimeout, HandleTaskLoop, Update, ReconcileStep, Listen,
           UpdateStatusBeforeReconcile, Reconcile, Correct, LeaveLoop, AbnormalRetry,
           Teardown, UpdateStatusAfterReconcile, TeardownPipeline, CancelStep,
           CancelCheck, CancelListTasks, CancelExecutor,
           CancelReadTask, CancelWriteTask, CancelPipeline, JobStep
  <2>2. mem[k].status # "Analyzed"
    BY <1>3 DEF Past, PastOf
  <2> QED BY <1>1, <1>3, <2>1, <2>2 DEF StartOp, OpOf, TaskStatuses, IsEnd
<1>4. InAnyProcessing(k)' => InAnyProcessing(k) \/ op[k] # "prepare"
  <2>1. CASE UNCHANGED throttlerVars
    BY <2>1 DEF throttlerVars, InAnyProcessing, InProcessing
  <2>2. CASE StartPopped(k)
    BY <2>2 DEF StartPopped, Processing
  <2>3. CASE Inserts(k)
    <3>1. PICK t \in Times : AddKeyToQueues(k, InsertRequests(k), t)
      BY <2>3 DEF Inserts
    <3> QED BY <3>1 DEF AddKeyToQueues, InAnyProcessing, InProcessing
  <2>4. CASE PopProcessing(k)
    BY <1>1, <2>4, PopProcessingEffect DEF InAnyProcessing
  <2> QED BY <2>1, <2>2, <2>3, <2>4, ThrottlerSteps
<1> QED BY <1>2, <1>3, <1>4 DEF Holder

LEMMA TaskStepForward ==
  ASSUME TypeInv, Forward, NEW k \in Keys, TaskStep(k)
  PROVE  Forward'
<1>1. NoLoop(k)' /\ Past(k)' /\ Holder(k)'
  BY NoLoopStep, PastStep, HolderStep DEF Forward
<1>2. ASSUME NEW j \in Keys \ {k} PROVE NoLoop(j)' /\ Past(j)' /\ Holder(j)'
  <2>1. /\ pc'[j] = pc[j] /\ op'[j] = op[j]
        /\ row'[j] = row[j] /\ mem'[j] = mem[j] /\ seen'[j] = seen[j]
    BY OtherTasks
  <2>2. InAnyProcessing(j)' <=> InAnyProcessing(j)
    BY OtherPlaces DEF InAnyProcessing
  <2>3. backup' = backup
    BY CountSteps
  <2>4. NoLoop(j)' /\ Past(j)'
    BY <2>1 DEF Forward, NoLoop, Past, PastOf
  <2>5. Holder(j)'
    BY <2>1, <2>2, <2>3 DEF Forward, Holder
  <2> QED BY <2>4, <2>5
<1> QED BY <1>1, <1>2 DEF Forward

LEMMA EngineStepForward ==
  ASSUME TypeInv, Forward, BackupThrottler \/ Crash
  PROVE  Forward'
<1> USE DEF rowVars, runVars, opVars, clusterVars, cancelVars, storedVars
<1>1. CASE BackupThrottler
  <2>1. backup'.processing = processing
    BY <1>1 DEF BackupThrottler, Export
  <2>2. UNCHANGED <<row, mem, seen, op, pc, processing>>
    BY <1>1 DEF BackupThrottler, throttlerVars
  <2> QED BY <2>1, <2>2 DEF Forward, NoLoop, Past, PastOf, Holder, InAnyProcessing, InProcessing
<1>2. CASE Crash
  <2>1. UNCHANGED <<row, mem, seen, op, backup>>
    BY <1>2 DEF Crash
  <2>2. \A k \in Keys : pc'[k] \in {"idle", "done"}
    BY <1>2 DEF Crash
  <2>3. ASSUME NEW k \in Keys PROVE NoLoop(k)' /\ Past(k)'
    BY <2>1, <2>2 DEF Forward, NoLoop, Past, PastOf
  <2>4. ASSUME NEW k \in Keys PROVE Holder(k)'
    <3>1. CASE backup # NoBackup /\ processing' = backup.processing
      BY <2>1, <3>1 DEF Forward, Holder, InAnyProcessing, InProcessing
    <3>2. CASE processing' = [q \in Queues |-> {}]
      BY <2>1, <3>2 DEF Forward, Holder, InAnyProcessing, InProcessing
    <3> QED BY <1>2, <3>1, <3>2 DEF Crash, LoadThrottler, Import
  <2> QED BY <2>3, <2>4 DEF Forward
<1> QED BY <1>1, <1>2

LEMMA ForwardInductive == Spec => []Forward
<1>1. Forward /\ UNCHANGED vars => Forward'
  BY DEF Forward, NoLoop, Past, PastOf, Holder, InAnyProcessing, InProcessing, vars,
         throttlerVars, rowVars, runVars, opVars, cancelVars, storedVars
<1>2. TypeInv /\ Forward /\ [Next]_vars => Forward'
  BY <1>1, TaskStepForward, EngineStepForward, NextIsTaskStep
<1> QED BY <1>2, InitForward, TypeInductive, PTL DEF Spec

(* The calls of the throttler by the steps of a task.                      *)
LEMMA DisciplinedCalls ==
  ASSUME TypeInv, Forward, LoopTasks = {}, NEW k \in Keys, TaskStep(k)
  PROVE  [DisciplinedNext]_throttlerVars
<1>1. ASSUME PrepareDone(k), Inserts(k) PROVE DisciplinedNext
  <2>1. op[k] = "prepare"
    BY <1>1 DEF PrepareDone
  <2>2. ~InAnyProcessing(k)
    BY <2>1 DEF Forward, Holder
  <2> QED BY <1>1, <2>2, InsertRequestsType DEF Inserts, DisciplinedNext
<1> QED BY <1>1, ThrottlerSteps DEF DisciplinedNext

(* As long as the engine does not restart, the reconciler's calls of the   *)
(* throttler are those of a disciplined client, for any number of tasks    *)
(* without loop options: however the cancel request, a timeout, a retry    *)
(* after a platform error and Teardown interleave, prepare never inserts a *)
(* task that still holds a place.                                          *)
THEOREM ReconcilerIsDisciplined ==
  LoopTasks = {} /\ MaxCrashes = 0 => (Spec => DisciplinedClient)
<1> SUFFICES ASSUME LoopTasks = {}, MaxCrashes = 0 PROVE Spec => DisciplinedClient
  OBVIOUS
<1>1. Init => ThrottlerInit
  BY DEF Init
<1>2. TypeInv /\ Forward /\ [Next]_vars => [DisciplinedNext]_throttlerVars
  <2> SUFFICES ASSUME TypeInv, Forward, [Next]_vars
               PROVE  [DisciplinedNext]_throttlerVars
    OBVIOUS
  <2>1. ~BackupThrottler /\ ~Crash
    BY DEF TypeInv, TaskRunTypeOK, BackupThrottler, Crash
  <2>2. CASE UNCHANGED vars
    BY <2>2 DEF vars
  <2> QED BY <2>1, <2>2, DisciplinedCalls, NextIsTaskStep
<1> QED BY <1>1, <1>2, TypeInductive, ForwardInductive, PTL
        DEF Spec, DisciplinedClient, DisciplinedSpec

-----------------------------------------------------------------------------
(* The accounting of places through restarts.                              *)

(* SlotAccounting of the state a backup holds, which is the state a        *)
(* restarted engine begins with.                                           *)
Accounted(snapshot) ==
  \A k \in Keys :
    /\ \A q \in Queues :
         /\ q \in snapshot.keyRelatedQueues[k] <=>
              snapshot.pending[q][k] # NoItem \/ k \in snapshot.processing[q]
         /\ ~(snapshot.pending[q][k] # NoItem /\ k \in snapshot.processing[q])
    /\ \/ \A q \in snapshot.keyRelatedQueues[k] : k \notin snapshot.processing[q]
       \/ \A q \in snapshot.keyRelatedQueues[k] : k \in snapshot.processing[q]
BackupAccounted == backup # NoBackup => Accounted(backup)

LEMMA AccountedIsAccounting ==
  ASSUME TypeOK
  PROVE  Accounted(Export) <=> SlotAccounting
<1>1. \A k \in Keys : keyRelatedQueues[k] \subseteq Queues
  BY DEF TypeOK
<1>2. /\ Export.pending = pending /\ Export.processing = processing
      /\ Export.keyRelatedQueues = keyRelatedQueues
  BY DEF Export
<1>3. Accounted(Export) <=>
        \A k \in Keys :
          /\ \A q \in Queues : /\ q \in keyRelatedQueues[k] <=> InPending(q, k) \/ InProcessing(q, k)
                               /\ ~(InPending(q, k) /\ InProcessing(q, k))
          /\ \/ \A q \in keyRelatedQueues[k] : ~InProcessing(q, k)
             \/ \A q \in keyRelatedQueues[k] : InProcessing(q, k)
  BY <1>2, Zenon DEF Accounted, InPending, InProcessing
<1> QED BY <1>1, <1>3
     DEF SlotAccounting, RelatedKeysAreQueued, QueuedKeysAreRelated, KeyOncePerQueue, AllOrNothing

LEMMA RestartAccounting ==
  ASSUME TypeInv, SlotAccounting, BackupAccounted, BackupThrottler \/ Crash
  PROVE  SlotAccounting' /\ BackupAccounted'
<1>0. TypeOK /\ TypeOK'
  BY EngineStepType DEF TypeInv, TaskRunTypeOK
<1>1. CASE BackupThrottler
  <2>1. Accounted(backup')
    BY <1>0, <1>1, AccountedIsAccounting DEF BackupThrottler
  <2>2. SlotAccounting'
    BY <1>1 DEF BackupThrottler, throttlerVars, SlotAccounting, RelatedKeysAreQueued,
                QueuedKeysAreRelated, KeyOncePerQueue, AllOrNothing, InPending, InProcessing
  <2> QED BY <2>1, <2>2 DEF BackupAccounted
<1>2. CASE Crash
  <2>1. backup' = backup
    BY <1>2 DEF Crash
  <2>2. SlotAccounting'
    <3>1. CASE backup # NoBackup /\ Import(backup)
      <4>1. Accounted(Export')
        BY <3>1 DEF BackupAccounted, Accounted, Import, Export
      <4>2. (TypeOK => (Accounted(Export) <=> SlotAccounting))'
        BY AccountedIsAccounting, PTL
      <4> QED BY <1>0, <4>1, <4>2
    <3>2. CASE ThrottlerInit'
      BY <3>2 DEF ThrottlerInit, SlotAccounting, RelatedKeysAreQueued, QueuedKeysAreRelated,
                  KeyOncePerQueue, AllOrNothing, InPending, InProcessing
    <3> QED BY <1>2, <3>1, <3>2 DEF Crash, LoadThrottler, ThrottlerInit
  <2> QED BY <2>1, <2>2 DEF BackupAccounted
<1> QED BY <1>1, <1>2

(* For tasks without loop options the queues and keyRelatedQueues of the   *)
(* throttler agree through every error, cancel, timeout and restart: the   *)
(* backup a restarted engine imports, however old it is, is a state whose  *)
(* tasks prepare may insert again.                                         *)
THEOREM PlacesAreAccounted == LoopTasks = {} => (Spec => []SlotAccounting)
<1> SUFFICES ASSUME LoopTasks = {} PROVE Spec => []SlotAccounting
  OBVIOUS
<1>1. Init => SlotAccounting /\ BackupAccounted
  BY DEF Init, ThrottlerInit, BackupAccounted, SlotAccounting, RelatedKeysAreQueued,
         QueuedKeysAreRelated, KeyOncePerQueue, AllOrNothing, InPending, InProcessing
<1>2. TypeInv /\ Forward /\ SlotAccounting /\ BackupAccounted /\ [Next]_vars
        => SlotAccounting' /\ BackupAccounted'
  <2> SUFFICES ASSUME TypeInv, Forward, SlotAccounting, BackupAccounted, [Next]_vars
               PROVE  SlotAccounting' /\ BackupAccounted'
    OBVIOUS
  <2>0. TypeOK
    BY DEF TypeInv, TaskRunTypeOK
  <2>1. ASSUME NEW k \in Keys, TaskStep(k)
        PROVE  SlotAccounting' /\ BackupAccounted'
    <3>1. SlotAccounting'
      BY <2>0, <2>1, DisciplinedCalls, DisciplinedAccounting
    <3>2. backup' = backup
      BY <2>1, CountSteps
    <3> QED BY <3>1, <3>2 DEF BackupAccounted
  <2>2. CASE UNCHANGED vars
    <3>1. UNCHANGED throttlerVars /\ backup' = backup
      BY <2>2 DEF vars, storedVars
    <3> QED BY <2>0, <3>1, DisciplinedAccounting DEF BackupAccounted
  <2> QED BY <2>1, <2>2, RestartAccounting, NextIsTaskStep
<1> QED BY <1>1, <1>2, TypeInductive, ForwardInductive, PTL DEF Spec

-----------------------------------------------------------------------------
(* A job is started in its places.                                         *)

(* Before the first job: reconcileTask and its operation go on together.   *)
(* Nothing lingers, so that the context is only cancelled by the operation *)
(* that then leaves, and waitOp is left with PExit.                        *)
Early(k) ==
  op[k] \in {"prepare", "create", "start"} =>
    /\ lingering[k].check = 0 /\ lingering[k].poll = 0
    /\ at[k] # "none" => pc[k] = "select"
    /\ ctxDone[k] => /\ at[k] = "none"
                     /\ pc[k] \notin {"mark", "reconcile", "correct", "retry"}
                     /\ pc[k] \in {"defer", "update", "loop"} => outcome[k] = "exit"

LEMMA EarlyStep ==
  ASSUME TypeInv, NEW k \in Keys, k \notin LoopTasks, NoLoop(k), Past(k), Early(k), TaskStep(k)
  PROVE  Early(k)'
<1> USE DEF rowVars, runVars, opVars, clusterVars, cancelVars, storedVars, Early
<1>1. /\ pc \in [Keys -> Places] /\ outcome \in [Keys -> {"ok", "err", "exit"}]
      /\ op \in [Keys -> Ops] /\ at \in [Keys -> OpPlaces]
      /\ ctxDone \in [Keys -> BOOLEAN]
      /\ ~MayLoop(k)
      /\ lingering[k].check \in Nat /\ lingering[k].poll \in Nat
      /\ mem[k].status \in TaskStatuses
  BY TaskRunAssumption DEF TypeInv, TaskRunTypeOK, NoLoop, MayLoop, Places, OpPlaces, Rows
<1>2. CASE OpStep(k)
  BY <1>1, <1>2
     DEF OpStep, CheckPipeline, ProcessPrepare, ProcessCreate, StartPopped, StartRefused,
         ExecutorStart, ProcessQueue, ProcessWait, FetchLatestTask, LingeringCheck,
         LingeringFetch, Report, LoopEnds, Hang, Processing
<1>3. CASE WaitOpStep(k)
  BY <1>1, <1>3
     DEF WaitOpStep, ReceiveCtxDone, ReceiveExit, ReceiveErr, PrepareDone, OpDone,
         ReceiveTimeout, HandleTaskLoop, Update, Received
<1>4. CASE ReconcileStep(k)
  <2>1. CASE StartOp(k)
    <3>1. op'[k] \in {"prepare", "create", "start"} =>
            mem[k].status \in {"Analyzed", "Born", "Created"}
      BY <1>1, <2>1 DEF StartOp, OpOf, TaskStatuses, IsEnd
    <3>2. op'[k] \in {"prepare", "create", "start"} => op[k] \in {"prepare", "create", "start"}
      BY <3>1 DEF Past, PastOf
    <3> QED BY <1>1, <2>1, <3>2 DEF StartOp
  <2> QED BY <1>1, <1>4, <2>1
     DEF ReconcileStep, Listen, UpdateStatusBeforeReconcile, Reconcile, Correct,
         LeaveLoop, AbnormalRetry, Teardown, UpdateStatusAfterReconcile, TeardownPipeline, Leave
<1>5. CASE CancelStep(k) \/ JobStep(k)
  BY <1>5 DEF CancelStep, CancelCheck, CancelListTasks, CancelExecutor,
                CancelReadTask, CancelWriteTask, CancelPipeline,
              JobStep
<1> QED BY <1>2, <1>3, <1>4, <1>5 DEF TaskStep

(* A task that has left prepare is related to all its queues until it has  *)
(* ended: Teardown, which takes it out, sees an end that is in the row.    *)
Active == {"Born", "Created", "Queue", "Running"}
Registered(k) == QueuesOf(k) \subseteq keyRelatedQueues[k]
InReconcileTask == {"correct", "loop", "select", "defer", "update", "retry", "teardown"}
Related(k) ==
  /\ row[k].status \in Active => Registered(k)
  /\ pc[k] \in InReconcileTask => (op[k] # "prepare" \/ mem[k].status \in Active => Registered(k))
  /\ pc[k] \in {"correct", "loop", "teardown"} => (IsEnd(mem[k].status) => IsEnd(row[k].status))
  /\ \A i \in Looped : job[k][i] # "none" => op[k] # "prepare"

LEMMA RegisteredSteps ==
  ASSUME TypeInv, NEW k \in Keys, TaskStep(k)
  PROVE  /\ Registered(k) /\ ~(pc[k] = "teardown" /\ IsEnd(mem[k].status)) => Registered(k)'
         /\ PrepareDone(k) /\ mem'[k].status = "Born" /\ mem[k].status # "Born" => Registered(k)'
<1>0. TypeOK /\ QueuesOf(k) \subseteq Queues
  BY PriorityType DEF TypeInv, TaskRunTypeOK, QueuesOf
<1>1. CASE UNCHANGED throttlerVars
  <2>1. Registered(k) => Registered(k)'
    BY <1>1 DEF throttlerVars, Registered
  <2>2. ASSUME PrepareDone(k), mem'[k].status = "Born", mem[k].status # "Born"
        PROVE  Registered(k)'
    <3>1. InsertIntoQueue(k)
      BY <2>2 DEF PrepareDone, TypeInv, TaskRunTypeOK, Rows
    <3>2. CASE QueuesOf(k) = {}
      BY <3>2 DEF Registered, QueuesOf
    <3>3. CASE QueuesOf(k) # {}
      <4>1. PICK t \in Times : AddKeyToQueues(k, InsertRequests(k), t)
        BY <3>1, <3>3 DEF InsertIntoQueue
      <4>2. InsertRequests(k) \in Requests /\ DOMAIN InsertRequests(k) = QueuesOf(k)
        BY <3>3, InsertRequestsType
      <4>3. \A q \in Queues : q \in keyRelatedQueues'[k] <=>
                                q \in keyRelatedQueues[k] \/ q \in DOMAIN InsertRequests(k)
        BY <1>0, <4>1, <4>2, AddKeyEffect
      <4> QED BY <1>0, <4>2, <4>3 DEF Registered, QueuesOf
    <3> QED BY <3>2, <3>3
  <2> QED BY <2>1, <2>2
<1>2. CASE StartPopped(k) /\ PopPending(k)
  BY <1>2 DEF PopPending, Registered, QueuesOf, StartPopped, PrepareDone, Processing, Received
<1>3. CASE PrepareDone(k) /\ Inserts(k)
  <2>1. PICK t \in Times : AddKeyToQueues(k, InsertRequests(k), t)
    BY <1>3 DEF Inserts
  <2>2. InsertRequests(k) \in Requests /\ DOMAIN InsertRequests(k) = QueuesOf(k)
    BY <1>3, InsertRequestsType DEF Inserts
  <2>3. \A q \in Queues : q \in keyRelatedQueues'[k] <=>
                            q \in keyRelatedQueues[k] \/ q \in DOMAIN InsertRequests(k)
    BY <1>0, <2>1, <2>2, AddKeyEffect
  <2> QED BY <1>0, <2>2, <2>3 DEF Registered, QueuesOf
<1>4. CASE Teardown(k) /\ IsEnd(mem[k].status) /\ PopProcessing(k)
  BY <1>4 DEF Teardown, PrepareDone, Received
<1> QED BY <1>1, <1>2, <1>3, <1>4, ThrottlerSteps

LEMMA RelatedStep ==
  ASSUME TypeInv, NEW k \in Keys, k \notin LoopTasks, NoLoop(k), Past(k), Early(k), Related(k),
         TaskStep(k)
  PROVE  Related(k)'
<1> USE DEF rowVars, runVars, opVars, clusterVars, cancelVars, storedVars
<1>1. /\ row \in [Keys -> Rows] /\ mem \in [Keys -> Rows]
      /\ row[k] \in Rows /\ mem[k] \in Rows /\ seen[k] \in Rows
      /\ row[k].status \in TaskStatuses /\ mem[k].status \in TaskStatuses
      /\ pc \in [Keys -> Places] /\ op \in [Keys -> Ops] /\ op[k] \in Ops
      /\ job \in [Keys -> [Looped -> JobStates]] /\ mem[k].looped \in Looped
      /\ ~MayLoop(k)
  BY DEF TypeInv, TaskRunTypeOK, NoLoop, MayLoop, Places, Rows
<1>2. /\ op[k] # "prepare" => mem[k].status # "Analyzed" /\ row[k].status # "Analyzed"
      /\ at[k] = "exec" => op[k] = "start"
  BY DEF Past, PastOf, TypeInv, WaitReports, Reports
<1>3. \A i \in Looped : job'[k][i] # "none" => op'[k] # "prepare"
  <2>1. op[k] # "prepare" => op'[k] # "prepare"
    <3>1. op' = op \/ StartOp(k)
      BY DEF TaskStep, OpStep, CheckPipeline, ProcessPrepare, ProcessCreate, StartPopped,
             StartRefused, ExecutorStart, ProcessQueue, ProcessWait, FetchLatestTask,
             LingeringCheck, LingeringFetch, WaitOpStep, ReceiveCtxDone, ReceiveExit, ReceiveErr,
             PrepareDone, OpDone, ReceiveTimeout, HandleTaskLoop, Update, ReconcileStep, Listen,
             UpdateStatusBeforeReconcile, Reconcile, Correct, LeaveLoop, AbnormalRetry,
             Teardown, UpdateStatusAfterReconcile, TeardownPipeline, CancelStep,
             CancelCheck, CancelListTasks, CancelExecutor,
             CancelReadTask, CancelWriteTask, CancelPipeline, JobStep
    <3> QED BY <1>1, <1>2, <3>1 DEF StartOp, OpOf, TaskStatuses, IsEnd
  <2>2. ASSUME NEW i \in Looped, job'[k][i] # "none", job[k][i] = "none"
        PROVE  op[k] # "prepare"
    BY <1>1, <1>2, <2>2
       DEF TaskStep, OpStep, CheckPipeline, ProcessPrepare, ProcessCreate, StartPopped,
           StartRefused, ExecutorStart, ProcessQueue, ProcessWait, FetchLatestTask,
           LingeringCheck, LingeringFetch, WaitOpStep, ReceiveCtxDone, ReceiveExit, ReceiveErr,
           PrepareDone, OpDone, ReceiveTimeout, TimedOut, HandleTaskLoop, Update, ReconcileStep,
           Listen, UpdateStatusBeforeReconcile, Reconcile, Correct, StartOp, LeaveLoop,
           AbnormalRetry, Teardown, UpdateStatusAfterReconcile, TeardownPipeline, CancelStep,
           CancelCheck, CancelListTasks, CancelExecutor,
           CancelReadTask, CancelWriteTask, CancelPipeline, JobStep, CancelledJob
  <2> QED BY <2>1, <2>2 DEF Related
<1>4. /\ Registered(k) /\ ~(pc[k] = "teardown" /\ IsEnd(mem[k].status)) => Registered(k)'
      /\ PrepareDone(k) /\ mem'[k].status = "Born" /\ mem[k].status # "Born" => Registered(k)'
  BY RegisteredSteps
<1> HIDE DEF Registered
<1> SUFFICES /\ row'[k].status \in Active => Registered(k)'
             /\ pc'[k] \in InReconcileTask =>
                  (op'[k] # "prepare" \/ mem'[k].status \in Active => Registered(k)')
             /\ pc'[k] \in {"correct", "loop", "teardown"} =>
                  (IsEnd(mem'[k].status) => IsEnd(row'[k].status))
  BY <1>3 DEF Related
<1> USE DEF Related, InReconcileTask
<1>5. CASE OpStep(k)
  <2>1. UNCHANGED <<row, pc, op>> /\ (mem' = mem \/ mem' = [mem EXCEPT ![k] = row[k]])
    BY <1>5 DEF OpStep, CheckPipeline, ProcessPrepare, ProcessCreate, StartPopped, StartRefused,
                ExecutorStart, ProcessQueue, ProcessWait, FetchLatestTask, LingeringCheck,
                LingeringFetch
  <2>2. pc[k] = "teardown" => at[k] = "none" \/ op[k] \notin {"prepare", "create", "start"}
    BY DEF Early
  <2>3. Registered(k) => Registered(k)'
    <3>1. CASE StartPopped(k)
      BY <1>4, <2>2, <3>1 DEF StartPopped, Processing
    <3>2. CASE UNCHANGED throttlerVars
      BY <3>2 DEF throttlerVars, Registered
    <3> QED BY <1>5, <3>1, <3>2
            DEF OpStep, CheckPipeline, ProcessPrepare, ProcessCreate, StartRefused,
                ExecutorStart, ProcessQueue, ProcessWait, FetchLatestTask, LingeringCheck,
                LingeringFetch
  <2> QED BY <1>1, <2>1, <2>3
<1>6. CASE WaitOpStep(k)
  <2>0. pc[k] \in {"select", "defer", "update"}
    BY <1>6 DEF WaitOpStep, ReceiveCtxDone, ReceiveExit, ReceiveErr, PrepareDone, OpDone,
                ReceiveTimeout, HandleTaskLoop, Update, Received
  <2>1. Registered(k) => Registered(k)'
    BY <1>4, <2>0
  <2>2. CASE ReceiveCtxDone(k) \/ ReceiveExit(k)
    BY <1>1, <2>1, <2>2 DEF ReceiveCtxDone, ReceiveExit, Received
  <2>3. CASE ReceiveErr(k)
    BY <1>1, <2>1, <2>3 DEF ReceiveErr, Received, Active, Ops
  <2>4. CASE PrepareDone(k)
    BY <1>1, <1>4, <2>1, <2>4 DEF PrepareDone, Received, Active, Rows
  <2>5. CASE OpDone(k)
    BY <1>1, <2>1, <2>5 DEF OpDone, Received, Active
  <2>6. CASE ReceiveTimeout(k)
    BY <1>1, <2>1, <2>6 DEF ReceiveTimeout
  <2>7. CASE HandleTaskLoop(k)
    BY <1>1, <2>1, <2>7 DEF HandleTaskLoop, RestoredStatus, OldStatus, Ops, Active, Rows
  <2>8. CASE Update(k)
    BY <1>1, <2>1, <2>8 DEF Update
  <2> QED BY <1>6, <2>2, <2>3, <2>4, <2>5, <2>6, <2>7, <2>8 DEF WaitOpStep
<1>7. CASE ReconcileStep(k)
  <2>1. CASE Listen(k) \/ UpdateStatusBeforeReconcile(k) \/ UpdateStatusAfterReconcile(k)
    BY <1>1, <1>4, <2>1 DEF Listen, UpdateStatusBeforeReconcile, UpdateStatusAfterReconcile, Leave
  <2>2. CASE Reconcile(k)
    BY <1>1, <1>2, <1>4, <2>2 DEF Reconcile, TaskStatuses, IsEnd, Active
  <2>3. CASE Correct(k)
    <3>1. JobOf(k) # "none" => op[k] # "prepare"
      BY <1>1 DEF JobOf
    <3> QED BY <1>1, <1>4, <2>3, <3>1 DEF Correct
  <2>4. CASE StartOp(k)
    <3>1. op'[k] # "prepare" => mem[k].status \in Active
      BY <1>1, <2>4 DEF StartOp, OpOf, TaskStatuses, IsEnd, Active
    <3> QED BY <1>1, <1>4, <2>4, <3>1 DEF StartOp
  <2>5. CASE LeaveLoop(k) \/ AbnormalRetry(k)
    BY <1>1, <1>4, <2>5 DEF LeaveLoop, AbnormalRetry
  <2>6. CASE Teardown(k)
    BY <1>1, <1>4, <2>6 DEF Teardown, IsEnd, Active, EndStatuses
  <2>7. CASE TeardownPipeline(k)
    BY <1>1, <1>4, <2>7 DEF TeardownPipeline, Leave, Active, Rows
  <2> QED BY <1>7, <2>1, <2>2, <2>3, <2>4, <2>5, <2>6, <2>7 DEF ReconcileStep
<1>8. CASE CancelStep(k)
  <2>1. Registered(k) => Registered(k)'
    BY <1>8 DEF CancelStep, CancelCheck, CancelListTasks, CancelExecutor,
                CancelReadTask, CancelWriteTask, CancelPipeline,
                throttlerVars, Registered
  <2>2. /\ UNCHANGED <<mem, pc, op>>
        /\ row' = row \/ row' = [row EXCEPT ![k] = [seen[k] EXCEPT !.status = "StopByUser"]]
    BY <1>8 DEF CancelStep, CancelCheck, CancelListTasks, CancelExecutor,
                CancelReadTask, CancelWriteTask, CancelPipeline
  <2>3. row' = row \/ row'[k].status = "StopByUser"
    BY <1>1, <2>2 DEF Rows
  <2> QED BY <2>1, <2>2, <2>3 DEF Active, IsEnd, EndStatuses
<1>9. CASE JobStep(k)
  BY <1>9 DEF JobStep, throttlerVars, Registered
<1> QED BY <1>5, <1>6, <1>7, <1>8, <1>9 DEF TaskStep

(* Executor.Start is called by a task that holds its places.               *)
Sheltered(k) == at[k] = "exec" => \A q \in QueuesOf(k) : InProcessing(q, k)

LEMMA ShelteredStep ==
  ASSUME TypeInv, NEW k \in Keys, Early(k), Related(k), Sheltered(k), TaskStep(k)
  PROVE  Sheltered(k)'
<1> USE DEF rowVars, runVars, opVars, clusterVars, cancelVars, storedVars
<1>1. /\ TypeOK /\ QueuesOf(k) \subseteq Queues /\ QueuesOf(k)' = QueuesOf(k)
      /\ at \in [Keys -> OpPlaces]
      /\ at[k] = "exec" => op[k] = "start"
  BY PriorityType DEF TypeInv, TaskRunTypeOK, QueuesOf, WaitReports, Reports, OpPlaces
<1>2. CASE StartPopped(k)
  <2>1. pc[k] = "select" /\ op[k] = "start" /\ PopPending(k)
    BY <1>2 DEF StartPopped, Processing, Early
  <2>2. QueuesOf(k) \subseteq keyRelatedQueues[k]
    BY <2>1 DEF Related, InReconcileTask, Registered
  <2>3. \A q \in QueuesOf(k) : InProcessing(q, k)'
    BY <1>1, <2>1, <2>2, PopPendingEffect
  <2> QED BY <1>1, <2>3 DEF Sheltered
<1>3. CASE ~StartPopped(k)
  <2>1. at'[k] = "exec" => at[k] = "exec"
    BY <1>1, <1>3
       DEF TaskStep, OpStep, CheckPipeline, ProcessPrepare, ProcessCreate,
           StartRefused, ExecutorStart, ProcessQueue, ProcessWait, FetchLatestTask,
           LingeringCheck, LingeringFetch, WaitOpStep, ReceiveCtxDone, ReceiveExit, ReceiveErr,
           PrepareDone, OpDone, ReceiveTimeout, HandleTaskLoop, Update, ReconcileStep,
           Listen, UpdateStatusBeforeReconcile, Reconcile, Correct, StartOp, LeaveLoop,
           AbnormalRetry, Teardown, UpdateStatusAfterReconcile, TeardownPipeline, CancelStep,
           CancelCheck, CancelListTasks, CancelExecutor,
           CancelReadTask, CancelWriteTask, CancelPipeline, JobStep, Report,
           LoopEnds, Hang, Received
  <2>2. at[k] = "exec" => UNCHANGED throttlerVars
    <3>1. at[k] = "exec" => ~Teardown(k) /\ ~PrepareDone(k)
      BY <1>1 DEF Early, Teardown, PrepareDone, Received
    <3> QED BY <1>3, <3>1, ThrottlerSteps
  <2> QED BY <1>1, <2>1, <2>2 DEF Sheltered, InProcessing, throttlerVars
<1> QED BY <1>2, <1>3

Housed == \A k \in Keys \ LoopTasks : Early(k) /\ Related(k) /\ Sheltered(k)

LEMMA InitHoused == Init => Housed
BY DEF Init, Housed, Early, Related, Sheltered, InReconcileTask, IsEnd, EndStatuses, Active

LEMMA TaskStepHoused ==
  ASSUME TypeInv, Forward, Housed, NEW k \in Keys, TaskStep(k)
  PROVE  Housed'
<1>1. ASSUME k \notin LoopTasks PROVE Early(k)' /\ Related(k)' /\ Sheltered(k)'
  BY <1>1, EarlyStep, RelatedStep, ShelteredStep DEF Forward, Housed
<1>2. ASSUME NEW j \in Keys \ LoopTasks, j # k PROVE Early(j)' /\ Related(j)' /\ Sheltered(j)'
  <2>1. /\ pc'[j] = pc[j] /\ op'[j] = op[j] /\ at'[j] = at[j] /\ outcome'[j] = outcome[j]
        /\ row'[j] = row[j] /\ mem'[j] = mem[j] /\ ctxDone'[j] = ctxDone[j]
        /\ lingering'[j] = lingering[j] /\ job'[j] = job[j]
    BY <1>2, OtherTasks
  <2>2. /\ keyRelatedQueues'[j] = keyRelatedQueues[j]
        /\ \A q \in QueuesOf(j) : InProcessing(q, j)' <=> InProcessing(q, j)
    BY <1>2, OtherPlaces, PriorityType DEF QueuesOf
  <2>3. Early(j) /\ Related(j) /\ Sheltered(j)
    BY <1>2 DEF Housed
  <2>4. Early(j)'
    BY <2>1, <2>3 DEF Early
  <2>5. Related(j)'
    BY <2>1, <2>2, <2>3 DEF Related, Registered, QueuesOf
  <2>6. Sheltered(j)'
    BY <2>1, <2>2, <2>3 DEF Sheltered, QueuesOf
  <2> QED BY <2>4, <2>5, <2>6
<1> QED BY <1>1, <1>2 DEF Housed

LEMMA HousedInductive == MaxCrashes = 0 => (Spec => []Housed)
<1> SUFFICES ASSUME MaxCrashes = 0 PROVE Spec => []Housed
  OBVIOUS
<1>1. TypeInv /\ Forward /\ Housed /\ [Next]_vars => Housed'
  <2> SUFFICES ASSUME TypeInv, Forward, Housed, [Next]_vars PROVE Housed'
    OBVIOUS
  <2>1. ~BackupThrottler /\ ~Crash
    BY DEF TypeInv, TaskRunTypeOK, BackupThrottler, Crash
  <2>2. CASE UNCHANGED vars
    BY <2>2 DEF Housed, Early, Related, Sheltered, Registered, QueuesOf, InProcessing, vars,
                throttlerVars, rowVars, runVars, opVars, clusterVars
  <2> QED BY <2>1, <2>2, TaskStepHoused, NextIsTaskStep
<1> QED BY <1>1, InitHoused, TypeInductive, ForwardInductive, PTL DEF Spec

LEMMA JobStarts ==
  ASSUME TypeInv, Forward, Housed, LoopTasks = {}, NEW k \in Keys, TaskStep(k), NEW j \in Keys,
         ~HasLiveJob(j), HasLiveJob(j)'
  PROVE  \A q \in QueuesOf(j) : InProcessing(q, j)
<1> USE DEF rowVars, runVars, opVars, clusterVars, cancelVars, storedVars
<1>1. job \in [Keys -> [Looped -> JobStates]] /\ mem[k].looped \in Looped /\ row[k].looped \in Looped
  BY DEF TypeInv, TaskRunTypeOK, Rows
<1>2. j = k
  BY OtherTasks DEF HasLiveJob
<1>3. CASE ExecutorStart(k)
  BY <1>2, <1>3 DEF ExecutorStart, Housed, Sheltered
<1>4. CASE ~ExecutorStart(k)
  <2>1. ASSUME NEW i \in Looped, ~Live(job[k][i]) PROVE ~Live(job'[k][i])
    BY <1>1, <1>4, <2>1
       DEF TaskStep, OpStep, CheckPipeline, ProcessPrepare, ProcessCreate, StartPopped,
           StartRefused, ProcessQueue, ProcessWait, FetchLatestTask,
           LingeringCheck, LingeringFetch, WaitOpStep, ReceiveCtxDone, ReceiveExit, ReceiveErr,
           PrepareDone, OpDone, ReceiveTimeout, TimedOut, HandleTaskLoop, Update, ReconcileStep,
           Listen, UpdateStatusBeforeReconcile, Reconcile, Correct, StartOp, LeaveLoop,
           AbnormalRetry, Teardown, UpdateStatusAfterReconcile, TeardownPipeline, CancelStep,
           CancelCheck, CancelListTasks, CancelExecutor,
           CancelReadTask, CancelWriteTask, CancelPipeline, JobStep,
           CancelledJob, Live
  <2> QED BY <1>2, <2>1 DEF HasLiveJob
<1> QED BY <1>3, <1>4

(* As long as the engine does not restart, no job of a task without loop   *)
(* options is started outside of the places of the task, whatever a cancel *)
(* request writes to the rows of the task and of its pipeline between any  *)
(* two steps of the reconciler.                                            *)
THEOREM JobsStartInPlace ==
  LoopTasks = {} /\ MaxCrashes = 0 => (Spec => JobStartsInSlot)
<1> SUFFICES ASSUME LoopTasks = {}, MaxCrashes = 0 PROVE Spec => JobStartsInSlot
  OBVIOUS
<1>1. TypeInv /\ Forward /\ Housed /\ [Next]_vars =>
        [\A k \in Keys : ~HasLiveJob(k) /\ HasLiveJob(k)' =>
           \A q \in QueuesOf(k) : InProcessing(q, k)]_vars
  <2> SUFFICES ASSUME TypeInv, Forward, Housed, [Next]_vars, ~(UNCHANGED vars),
                      NEW j \in Keys, ~HasLiveJob(j), HasLiveJob(j)'
               PROVE  \A q \in QueuesOf(j) : InProcessing(q, j)
    OBVIOUS
  <2>1. ~BackupThrottler /\ ~Crash
    BY DEF TypeInv, TaskRunTypeOK, BackupThrottler, Crash
  <2> QED BY <2>1, JobStarts, NextIsTaskStep
<1> QED BY <1>1, TypeInductive, ForwardInductive, HousedInductive, PTL DEF Spec, JobStartsInSlot

-----------------------------------------------------------------------------
(* The places of tasks that nobody cancels.                                *)

(* An ended task has no job any more that anybody knows of, as soon as the *)
(* end is to be written.                                                   *)
EndIsOver(k) ==
  /\ IsEnd(row[k].status) => ~HasKnownJob(k)
  /\ pc[k] = "update" => (IsEnd(mem[k].status) => ~HasKnownJob(k))

LEMMA NeverLoops ==
  ASSUME LoopTasks = {}, NEW k \in Keys, Known(k)
  PROVE  ~MayLoop(k)
BY DEF Known, MayLoop

LEMMA EndIsOverStep ==
  ASSUME TypeInv, NEW k \in Keys, CancelTasks = {}, LoopTasks = {}, Control(k), Data(k), Single(k),
         EndIsOver(k), TaskStep(k)
  PROVE  EndIsOver(k)'
<1> USE DEF rowVars, runVars, opVars, clusterVars, cancelVars, storedVars
<1>1. /\ row \in [Keys -> Rows] /\ mem \in [Keys -> Rows]
      /\ row[k] \in Rows /\ mem[k] \in Rows
      /\ pc \in [Keys -> Places] /\ op[k] \in Ops
  BY DEF TypeInv, TaskRunTypeOK, Places, Rows
<1>2. /\ at[k] # "none" => pc[k] = "select"
      /\ at[k] = "exec" => op[k] = "start"
      /\ pc[k] \in {"correct", "loop", "select", "retry", "teardown"} => mem[k] = row[k]
      /\ pc[k] \in {"select", "defer", "update"} => row[k].status = OldStatus(op[k])
      /\ pc[k] = "defer" => (IsEnd(mem[k].status) /\ outcome[k] # "err" => ~HasKnownJob(k))
      /\ cancel[k] = "idle"
  BY DEF Control, InStep, Data, Agrees, TypeInv, WaitReports, Reports, Single
<1>3. ~IsEnd(OldStatus(op[k]))
  BY <1>1 DEF OldStatus, Ops, IsEnd, EndStatuses
<1>4. CASE ExecutorStart(k)
  <2>1. pc[k] = "select" /\ UNCHANGED <<row, pc>>
    BY <1>2, <1>4 DEF ExecutorStart
  <2> QED BY <1>2, <1>3, <2>1 DEF EndIsOver
<1>5. ASSUME ~ExecutorStart(k) PROVE EndIsOver(k)'
  <2>1. ~HasKnownJob(k) => ~HasKnownJob(k)'
    BY <1>5, LiveJobSteps
  <2>2. CASE Correct(k)
    <3>1. IsEnd(JobStatus(JobOf(k))) => ~HasKnownJob(k)
      <4>1. JobOf(k) \in JobStates
        BY DEF TypeInv, TaskRunTypeOK, Rows, JobOf
      <4>2. IsEnd(JobStatus(JobOf(k))) => ~Live(JobOf(k))
        BY DEF JobStatus, Live, IsEnd, EndStatuses
      <4>3. mem[k].looped = row[k].looped
        BY <1>2, <2>2 DEF Correct
      <4> QED BY <4>2, <4>3 DEF Single, JobOf, HasKnownJob
    <3> HIDE DEF HasKnownJob
    <3> QED BY <1>1, <1>2, <2>1, <2>2, <3>1 DEF Correct, EndIsOver, Rows
  <2>3. CASE HandleTaskLoop(k)
    <3>1. ~MayLoop(k)
      BY NeverLoops DEF Data
    <3>2. /\ pc[k] = "defer" /\ row' = row
          /\ mem'[k].status = IF outcome[k] = "err" THEN OldStatus(op[k]) ELSE mem[k].status
      BY <1>1, <2>3, <3>1 DEF HandleTaskLoop, RestoredStatus, Rows
    <3> HIDE DEF HasKnownJob
    <3> QED BY <1>2, <1>3, <2>1, <3>2 DEF EndIsOver
  <2>4. CASE Update(k) \/ AbnormalRetry(k)
    <3> HIDE DEF HasKnownJob
    <3> QED BY <1>1, <1>2, <2>1, <2>4 DEF Update, AbnormalRetry, EndIsOver
  <2>5. ASSUME ~Correct(k), ~HandleTaskLoop(k), ~Update(k), ~AbnormalRetry(k)
        PROVE  /\ row' = row
               /\ pc'[k] = "update" => pc[k] = "update" /\ mem'[k] \in {mem[k], row[k]}
    <3>1. TeardownPipeline(k) => row' = row
      BY NoSkip DEF Data
    <3>2. CASE OpStep(k)
      BY <1>1, <3>2 DEF OpStep, CheckPipeline, ProcessPrepare, ProcessCreate, StartPopped,
           StartRefused, ExecutorStart, ProcessQueue, ProcessWait, FetchLatestTask,
           LingeringCheck, LingeringFetch
    <3>3. CASE WaitOpStep(k)
      BY <1>1, <2>5, <3>3 DEF WaitOpStep, ReceiveCtxDone, ReceiveExit, ReceiveErr,
           PrepareDone, OpDone, ReceiveTimeout, Received
    <3>4. CASE ReconcileStep(k)
      BY <1>1, <2>5, <3>1, <3>4 DEF ReconcileStep, Listen, UpdateStatusBeforeReconcile, Reconcile,
           StartOp, LeaveLoop, Teardown, UpdateStatusAfterReconcile, TeardownPipeline, Leave
    <3>5. CASE CancelStep(k) \/ JobStep(k)
      BY <1>2, <3>5 DEF CancelStep, CancelCheck, CancelListTasks, CancelExecutor,
                        CancelReadTask, CancelWriteTask,
           CancelPipeline, JobStep
    <3> QED BY <3>2, <3>3, <3>4, <3>5 DEF TaskStep
  <2>6. CASE ~Correct(k) /\ ~HandleTaskLoop(k) /\ ~Update(k) /\ ~AbnormalRetry(k)
    <3> HIDE DEF HasKnownJob
    <3> QED BY <2>1, <2>5, <2>6 DEF EndIsOver
  <2> QED BY <2>2, <2>3, <2>4, <2>6
<1> QED BY <1>4, <1>5

(* A task waits for its places only between prepare and start's pop.       *)
Waits(k) == \E q \in Queues : InPending(q, k)
WaitsEarly(k) ==
  Waits(k) =>
    /\ op[k] \in {"prepare", "create", "start"}
    /\ op[k] = "start" => at[k] \notin {"exec", "fetch", "send"}
    /\ pc[k] \in {"loop", "select", "retry", "defer", "update"}
    /\ pc[k] \in {"loop", "select", "retry"} => row[k].status \in {"Born", "Created"}
    /\ pc[k] = "defer" => IF outcome[k] = "err" THEN op[k] # "prepare"
                          ELSE mem[k].status \in {"Born", "Created"}
    /\ pc[k] = "update" => mem[k].status \in {"Born", "Created"}

(* Without a platform error start reports done, or goes on polling.        *)
Quiet(k) ==
  /\ pc[k] = "select" => outcome[k] = "ok"
  /\ op[k] = "start" /\ at[k] \in {"fetch", "send"} => res[k] \in {"done", "err"}
  /\ failures = 0 /\ InAnyProcessing(k) /\ op[k] \in {"prepare", "create", "start"} =>
       /\ op[k] = "start"
       /\ \/ at[k] \in {"exec", "fetch", "send"}
          \/ pc[k] \in {"defer", "update", "loop"} /\ mem[k].status = "Queue"

LEMMA WaitsSteps ==
  ASSUME TypeInv, SlotAccounting, NEW k \in Keys, TaskStep(k), Waits(k)'
  PROVE  \/ Waits(k) /\ ~StartPopped(k)
         \/ /\ PrepareDone(k) /\ mem'[k].status = "Born" /\ outcome' = outcome
<1>0. TypeOK
  BY DEF TypeInv, TaskRunTypeOK
<1>1. ~StartPopped(k)
  <2> SUFFICES ASSUME StartPopped(k) PROVE FALSE
    OBVIOUS
  <2>1. PopPending(k)
    BY DEF StartPopped
  <2>2. PICK q \in Queues : InPending(q, k)'
    BY DEF Waits, InPending
  <2>3. InPending(q, k) /\ q \notin keyRelatedQueues[k]
    BY <1>0, <2>1, <2>2, PopPendingEffect
  <2> QED BY <2>3 DEF SlotAccounting, QueuedKeysAreRelated
<1>2. CASE UNCHANGED throttlerVars
  BY <1>1, <1>2 DEF throttlerVars, Waits, InPending
<1>3. CASE Teardown(k) /\ PopProcessing(k)
  BY <1>0, <1>1, <1>3, PopProcessingEffect DEF Waits, InPending
<1>4. CASE PrepareDone(k) /\ ~(UNCHANGED throttlerVars)
  BY <1>4 DEF PrepareDone, TypeInv, TaskRunTypeOK
<1> QED BY <1>1, <1>2, <1>3, <1>4, ThrottlerSteps

LEMMA WaitsEarlyStep ==
  ASSUME TypeInv, SlotAccounting, NEW k \in Keys, CancelTasks = {}, LoopTasks = {}, Control(k),
         Data(k), Early(k), WaitsEarly(k), Quiet(k), TaskStep(k)
  PROVE  WaitsEarly(k)'
<1> USE DEF rowVars, runVars, opVars, clusterVars, cancelVars, storedVars
<1> SUFFICES ASSUME Waits(k)' PROVE WaitsEarly(k)'
  BY DEF WaitsEarly
<1>1. /\ row \in [Keys -> Rows] /\ mem \in [Keys -> Rows]
      /\ row[k] \in Rows /\ mem[k] \in Rows
      /\ pc \in [Keys -> Places] /\ op \in [Keys -> Ops] /\ at \in [Keys -> OpPlaces]
      /\ outcome \in [Keys -> {"ok", "err", "exit"}] /\ op[k] \in Ops
      /\ lingering[k].poll \in Nat
  BY TaskRunAssumption DEF TypeInv, TaskRunTypeOK, Places, OpPlaces
<1>2. /\ ctxDone[k] => pc[k] = "done"
      /\ at[k] # "none" => pc[k] = "select"
      /\ outcome[k] # "exit"
      /\ cancel[k] = "idle"
      /\ pc[k] \in {"correct", "loop", "select", "retry", "teardown"} => mem[k] = row[k]
      /\ pc[k] \in {"select", "defer", "update"} => row[k].status = OldStatus(op[k])
      /\ pc[k] = "select" => outcome[k] = "ok"
      /\ ~MayLoop(k)
  BY NeverLoops DEF Control, InStep, Data, Agrees, Quiet
<1>3. CASE PrepareDone(k) /\ mem'[k].status = "Born" /\ outcome' = outcome
  <2>1. op[k] = "prepare" /\ op' = op /\ pc'[k] = "defer" /\ outcome'[k] = "ok"
    BY <1>1, <1>2, <1>3 DEF PrepareDone, Received
  <2> QED BY <1>3, <2>1 DEF WaitsEarly
<1>4. ASSUME Waits(k), ~StartPopped(k) PROVE WaitsEarly(k)'
  <2>1. /\ op[k] \in {"prepare", "create", "start"}
        /\ op[k] = "start" => at[k] \notin {"exec", "fetch", "send"}
        /\ pc[k] \in {"loop", "select", "retry", "defer", "update"}
        /\ pc[k] \in {"loop", "select", "retry"} => row[k].status \in {"Born", "Created"}
        /\ pc[k] = "defer" => IF outcome[k] = "err" THEN op[k] # "prepare"
                              ELSE mem[k].status \in {"Born", "Created"}
        /\ pc[k] = "update" => mem[k].status \in {"Born", "Created"}
        /\ lingering[k].poll = 0
    BY <1>4 DEF WaitsEarly, Early
  <2>2. pc[k] = "select" => op[k] # "prepare"
    BY <1>2, <2>1 DEF OldStatus
  <2> HIDE DEF Waits
  <2> USE DEF WaitsEarly
  <2>3. CASE OpStep(k)
    <3>1. UNCHANGED <<row, pc, op, outcome>> /\ (mem' = mem \/ at[k] # "none")
      BY <1>1, <1>4, <2>1, <2>3
         DEF OpStep, CheckPipeline, ProcessPrepare, ProcessCreate, StartPopped, StartRefused,
             ExecutorStart, ProcessQueue, ProcessWait, FetchLatestTask, LingeringCheck,
             LingeringFetch, Processing
    <3>2. op[k] = "start" => at'[k] \notin {"exec", "fetch", "send"}
      BY <1>1, <1>4, <2>1, <2>3
         DEF OpStep, CheckPipeline, ProcessPrepare, ProcessCreate, StartRefused,
             ExecutorStart, ProcessQueue, ProcessWait, FetchLatestTask, LingeringCheck,
             LingeringFetch, Processing, Report
    <3> QED BY <1>2, <2>1, <3>1, <3>2
  <2>4. CASE WaitOpStep(k)
    <3>1. CASE ReceiveCtxDone(k) \/ ReceiveExit(k)
      BY <1>1, <1>2, <2>1, <2>2, <3>1 DEF ReceiveCtxDone, ReceiveExit, Received
    <3>2. CASE ReceiveErr(k) \/ PrepareDone(k)
      BY <1>1, <2>1, <2>2, <3>2 DEF ReceiveErr, PrepareDone, Received
    <3>3. CASE OpDone(k)
      <4>1. pc[k] = "select" /\ at[k] = "send" /\ op[k] = "create"
        BY <2>1, <2>2, <3>3 DEF OpDone, Received
      <4>2. mem' = mem \/ mem' = [mem EXCEPT ![k].status = "Created"]
        BY <3>3, <4>1 DEF OpDone
      <4>3. /\ mem'[k].status \in {"Born", "Created"} /\ UNCHANGED <<op, outcome>>
            /\ pc'[k] = "defer"
        BY <1>1, <1>2, <2>1, <3>3, <4>1, <4>2 DEF OpDone, Received, Rows
      <4> QED BY <4>1, <4>3
    <3>4. CASE ReceiveTimeout(k)
      BY <2>1, <3>4 DEF ReceiveTimeout
    <3>5. CASE HandleTaskLoop(k)
      <4>1. /\ UNCHANGED <<op, at>> /\ pc'[k] = "update"
            /\ mem'[k].status = IF outcome[k] = "err" THEN OldStatus(op[k]) ELSE mem[k].status
            /\ pc[k] = "defer"
        BY <1>1, <1>2, <3>5 DEF HandleTaskLoop, RestoredStatus, Rows
      <4> QED BY <2>1, <4>1 DEF OldStatus
    <3>6. CASE Update(k)
      BY <1>1, <1>2, <2>1, <3>6 DEF Update
    <3> QED BY <2>4, <3>1, <3>2, <3>3, <3>4, <3>5, <3>6 DEF WaitOpStep
  <2>5. CASE ReconcileStep(k)
    <3>1. CASE StartOp(k)
      BY <1>1, <1>2, <2>1, <3>1 DEF StartOp, OpOf
    <3>2. CASE LeaveLoop(k)
      BY <1>2, <2>1, <3>2 DEF LeaveLoop, IsEnd, EndStatuses
    <3>3. CASE AbnormalRetry(k)
      BY <1>1, <1>2, <2>1, <3>3 DEF AbnormalRetry
    <3> QED BY <2>1, <2>5, <3>1, <3>2, <3>3
       DEF ReconcileStep, Listen, UpdateStatusBeforeReconcile, Reconcile, Correct,
           Teardown, UpdateStatusAfterReconcile, TeardownPipeline
  <2>6. CASE CancelStep(k) \/ JobStep(k)
    BY <1>2, <2>1, <2>6 DEF CancelStep, CancelCheck, CancelListTasks, CancelExecutor,
                            CancelReadTask, CancelWriteTask,
                            CancelPipeline, JobStep
  <2> QED BY <2>3, <2>4, <2>5, <2>6 DEF TaskStep
<1> QED BY <1>3, <1>4, WaitsSteps

LEMMA ProcessingSteps ==
  ASSUME TypeInv, NEW k \in Keys, TaskStep(k), ~StartPopped(k), InAnyProcessing(k)'
  PROVE  InAnyProcessing(k)
<1>0. TypeOK
  BY DEF TypeInv, TaskRunTypeOK
<1>1. PICK q \in Queues : InProcessing(q, k)'
  BY DEF InAnyProcessing, InProcessing
<1>2. CASE UNCHANGED throttlerVars
  BY <1>1, <1>2 DEF throttlerVars, InAnyProcessing, InProcessing
<1>3. CASE PopProcessing(k)
  BY <1>0, <1>1, <1>3, PopProcessingEffect DEF InAnyProcessing
<1>4. CASE Inserts(k)
  BY <1>1, <1>4 DEF Inserts, AddKeyToQueues, InAnyProcessing, InProcessing
<1> QED BY <1>2, <1>3, <1>4, ThrottlerSteps

LEMMA QuietStep ==
  ASSUME TypeInv, NEW k \in Keys, CancelTasks = {}, LoopTasks = {}, Control(k), Data(k), Past(k),
         Early(k), Quiet(k), TaskStep(k)
  PROVE  Quiet(k)'
<1> USE DEF rowVars, runVars, opVars, clusterVars, cancelVars, storedVars
<1>1. /\ row \in [Keys -> Rows] /\ mem \in [Keys -> Rows]
      /\ row[k] \in Rows /\ mem[k] \in Rows /\ mem[k].status \in TaskStatuses
      /\ pc \in [Keys -> Places] /\ op \in [Keys -> Ops] /\ at \in [Keys -> OpPlaces]
      /\ res \in [Keys -> Results]
      /\ outcome \in [Keys -> {"ok", "err", "exit"}] /\ op[k] \in Ops
      /\ lingering[k].poll \in Nat
      /\ failures \in Nat
  BY TaskRunAssumption DEF TypeInv, TaskRunTypeOK, Places, OpPlaces, Results, Rows
<1>2. /\ ctxDone[k] => pc[k] = "done"
      /\ at[k] # "none" => pc[k] = "select"
      /\ outcome[k] # "exit"
      /\ outcome[k] = "err" => failures > 0
      /\ at[k] \in {"fetch", "send"} => (res[k] = "err" => failures > 0)
      /\ cancel[k] = "idle"
      /\ pc[k] \in {"correct", "loop", "select", "retry", "teardown"} => mem[k] = row[k]
      /\ pc[k] \in {"select", "defer", "update"} => row[k].status = OldStatus(op[k])
      /\ ~MayLoop(k)
      /\ at[k] = "exec" => op[k] = "start"
  BY NeverLoops DEF Control, InStep, Data, Agrees, TypeInv, WaitReports, Reports
<1>3. pc'[k] = "select" => outcome'[k] = "ok"
  BY <1>1
     DEF Quiet, TaskStep, OpStep, CheckPipeline, ProcessPrepare, ProcessCreate, StartPopped,
         StartRefused, ExecutorStart, ProcessQueue, ProcessWait, FetchLatestTask,
         LingeringCheck, LingeringFetch, WaitOpStep, ReceiveCtxDone, ReceiveExit, ReceiveErr,
         PrepareDone, OpDone, ReceiveTimeout, HandleTaskLoop, Update, ReconcileStep,
         Listen, UpdateStatusBeforeReconcile, Reconcile, Correct, StartOp, LeaveLoop,
         AbnormalRetry, Teardown, UpdateStatusAfterReconcile, TeardownPipeline, CancelStep,
         CancelCheck, CancelListTasks, CancelExecutor,
         CancelReadTask, CancelWriteTask, CancelPipeline, JobStep, Received, Leave
<1>4. op'[k] = "start" /\ at'[k] \in {"fetch", "send"} => res'[k] \in {"done", "err"}
  <2>1. CASE FetchLatestTask(k)
    <3>1. op[k] = "start" => ~IsEnd(row[k].status)
      BY <1>2, <2>1 DEF FetchLatestTask, OldStatus, IsEnd, EndStatuses
    <3> QED BY <1>1, <2>1, <3>1 DEF FetchLatestTask, Quiet
  <2>2. CASE StartOp(k)
    BY <1>1, <2>2 DEF StartOp
  <2>3. CASE ExecutorStart(k)
    BY <1>1, <2>3 DEF ExecutorStart, Report
  <2>4. ASSUME ~FetchLatestTask(k), ~StartOp(k), ~ExecutorStart(k)
        PROVE  op' = op /\ (op[k] = "start" /\ at'[k] \in {"fetch", "send"} =>
                              at[k] \in {"fetch", "send"} /\ res'[k] = res[k])
    BY <1>1, <2>4
     DEF TaskStep, OpStep, CheckPipeline, ProcessPrepare, ProcessCreate, StartPopped,
         StartRefused, ProcessQueue, ProcessWait, Processing, Report, LoopEnds, Hang,
         LingeringCheck, LingeringFetch, WaitOpStep, ReceiveCtxDone, ReceiveExit, ReceiveErr,
         PrepareDone, OpDone, ReceiveTimeout, HandleTaskLoop, Update, ReconcileStep,
         Listen, UpdateStatusBeforeReconcile, Reconcile, Correct, LeaveLoop,
         AbnormalRetry, Teardown, UpdateStatusAfterReconcile, TeardownPipeline, CancelStep,
         CancelCheck, CancelListTasks, CancelExecutor,
         CancelReadTask, CancelWriteTask, CancelPipeline, JobStep, Received
  <2> QED BY <2>1, <2>2, <2>3, <2>4 DEF Quiet
<1>5. ASSUME failures' = 0, InAnyProcessing(k)', op'[k] \in {"prepare", "create", "start"}
      PROVE  /\ op'[k] = "start"
             /\ \/ at'[k] \in {"exec", "fetch", "send"}
                \/ pc'[k] \in {"defer", "update", "loop"} /\ mem'[k].status = "Queue"
  <2>0. failures = 0
    <3>1. failures' = failures \/ failures' = failures + 1
      BY CountSteps DEF Fail
    <3> QED BY <1>1, <1>5, <3>1
  <2>1. CASE StartPopped(k)
    BY <1>1, <2>1 DEF StartPopped, Processing
  <2>2. CASE ~StartPopped(k) /\ op[k] \notin {"prepare", "create", "start"}
    <3>1. op' = op \/ StartOp(k)
      BY DEF TaskStep, OpStep, CheckPipeline, ProcessPrepare, ProcessCreate, StartPopped,
             StartRefused, ExecutorStart, ProcessQueue, ProcessWait, FetchLatestTask,
             LingeringCheck, LingeringFetch, WaitOpStep, ReceiveCtxDone, ReceiveExit, ReceiveErr,
             PrepareDone, OpDone, ReceiveTimeout, HandleTaskLoop, Update, ReconcileStep, Listen,
             UpdateStatusBeforeReconcile, Reconcile, Correct, LeaveLoop, AbnormalRetry,
             Teardown, UpdateStatusAfterReconcile, TeardownPipeline, CancelStep,
             CancelCheck, CancelListTasks, CancelExecutor,
             CancelReadTask, CancelWriteTask, CancelPipeline, JobStep
    <3>2. mem[k].status \notin {"Analyzed", "Born", "Created"}
      BY <2>2 DEF Past, PastOf
    <3> QED BY <1>1, <1>5, <2>2, <3>1, <3>2 DEF StartOp, OpOf, TaskStatuses, IsEnd
  <2>3. ASSUME ~StartPopped(k), op[k] \in {"prepare", "create", "start"}
        PROVE  /\ op'[k] = "start"
               /\ \/ at'[k] \in {"exec", "fetch", "send"}
                  \/ pc'[k] \in {"defer", "update", "loop"} /\ mem'[k].status = "Queue"
    <3>1. /\ op[k] = "start"
          /\ \/ at[k] \in {"exec", "fetch", "send"}
             \/ pc[k] \in {"defer", "update", "loop"} /\ mem[k].status = "Queue"
          /\ lingering[k].poll = 0
          /\ at[k] \in {"fetch", "send"} => res[k] = "done"
      <4>1. InAnyProcessing(k)
        BY <1>5, <2>3, ProcessingSteps
      <4> QED BY <1>2, <2>0, <2>3, <4>1 DEF Quiet, Early
    <3>2. CASE OpStep(k)
      BY <1>1, <1>2, <2>3, <3>1, <3>2
         DEF OpStep, CheckPipeline, ProcessPrepare, ProcessCreate, StartRefused,
             ExecutorStart, ProcessQueue, ProcessWait, FetchLatestTask, LingeringCheck,
             LingeringFetch, Processing, Report
    <3>3. CASE WaitOpStep(k)
      <4>1. CASE OpDone(k)
        BY <1>1, <3>1, <4>1 DEF OpDone, Received, Rows
      <4>2. CASE HandleTaskLoop(k)
        BY <1>1, <1>2, <2>0, <3>1, <4>2 DEF HandleTaskLoop, RestoredStatus, Rows
      <4>3. CASE Update(k)
        BY <1>1, <1>2, <2>0, <3>1, <4>3 DEF Update
      <4> QED BY <1>2, <3>1, <3>3, <4>1, <4>2, <4>3
         DEF WaitOpStep, ReceiveCtxDone, ReceiveExit, ReceiveErr, PrepareDone,
             ReceiveTimeout, Received
    <3>4. CASE ReconcileStep(k)
      <4>1. CASE StartOp(k)
        BY <1>1, <1>2, <1>5, <3>1, <4>1 DEF StartOp, OpOf
      <4>2. CASE LeaveLoop(k)
        BY <1>2, <3>1, <4>2 DEF LeaveLoop, IsEnd, EndStatuses
      <4> QED BY <1>2, <3>1, <3>4, <4>1, <4>2
         DEF ReconcileStep, Listen, UpdateStatusBeforeReconcile, Reconcile, Correct, AbnormalRetry,
             Teardown, UpdateStatusAfterReconcile, TeardownPipeline
    <3>5. CASE CancelStep(k) \/ JobStep(k)
      BY <1>2, <3>1, <3>5 DEF CancelStep, CancelCheck, CancelListTasks, CancelExecutor,
                              CancelReadTask, CancelWriteTask,
                              CancelPipeline, JobStep
    <3> QED BY <3>2, <3>3, <3>4, <3>5 DEF TaskStep
  <2> QED BY <2>1, <2>2, <2>3
<1> QED BY <1>3, <1>4, <1>5 DEF Quiet

(* A task that reconcile is not working on is in no queue.                 *)
Released(k) ==
  pc[k] \in {"idle", "mark", "reconcile", "correct", "again", "finish", "save", "done"} =>
    ~InAnyQueue(k)

LEMMA ReleasedStep ==
  ASSUME TypeInv, SlotAccounting, NEW k \in Keys, Control(k), Data(k), WaitsEarly(k),
         Released(k), TaskStep(k)
  PROVE  Released(k)'
<1> USE DEF rowVars, runVars, opVars, clusterVars, cancelVars, storedVars
<1>0. TypeOK /\ pc \in [Keys -> Places] /\ keyRelatedQueues[k] \subseteq Queues
  BY DEF TypeInv, TaskRunTypeOK, TypeOK, Places
<1>1. CASE Teardown(k)
  <2>1. pc[k] = "teardown" /\ IsEnd(mem[k].status)
    BY <1>1 DEF Teardown, Data, Agrees
  <2>2. \A q \in Queues : ~InPending(q, k)
    BY <2>1 DEF WaitsEarly, Waits
  <2>3. PopProcessingSucceeds(k)
    BY <1>0, <2>2
       DEF PopProcessingSucceeds, CanPopProcessing, SlotAccounting, RelatedKeysAreQueued
  <2>4. PopProcessing(k)
    BY <1>1, <2>1, <2>3 DEF Teardown, TeardownPriorityQueue
  <2>5. ASSUME NEW q \in Queues PROVE ~InPending(q, k)' /\ ~InProcessing(q, k)'
    BY <1>0, <2>2, <2>4, PopProcessingEffect DEF SlotAccounting, QueuedKeysAreRelated
  <2> QED BY <2>5 DEF Released, InAnyQueue
<1>2. CASE ~Teardown(k)
  <2>1. pc'[k] \in {"idle", "mark", "reconcile", "correct", "again", "finish", "save", "done"} =>
          pc[k] \in {"idle", "mark", "reconcile", "correct", "again", "finish", "save", "done"}
    BY <1>0, <1>2
       DEF TaskStep, OpStep, CheckPipeline, ProcessPrepare, ProcessCreate, StartPopped,
           StartRefused, ExecutorStart, ProcessQueue, ProcessWait, FetchLatestTask,
           LingeringCheck, LingeringFetch, WaitOpStep, ReceiveCtxDone, ReceiveExit, ReceiveErr,
           PrepareDone, OpDone, ReceiveTimeout, HandleTaskLoop, Update, ReconcileStep,
           Listen, UpdateStatusBeforeReconcile, Reconcile, Correct, StartOp, LeaveLoop,
           AbnormalRetry, UpdateStatusAfterReconcile, TeardownPipeline, CancelStep,
           CancelCheck, CancelListTasks, CancelExecutor,
           CancelReadTask, CancelWriteTask, CancelPipeline, JobStep, Received,
           Leave
  <2>2. pc[k] # "select" => UNCHANGED throttlerVars
    BY <1>2, ThrottlerSteps
       DEF StartPopped, Processing, PrepareDone, Received, Control, InStep
  <2>3. UNCHANGED throttlerVars => (InAnyQueue(k)' <=> InAnyQueue(k))
    BY DEF throttlerVars, InAnyQueue, InPending, InProcessing
  <2> HIDE DEF InAnyQueue
  <2> QED BY <2>1, <2>2, <2>3 DEF Released
<1> QED BY <1>1, <1>2

(* A job of the task is in its places.                                     *)
Held(k) == HasKnownJob(k) => \A q \in QueuesOf(k) : InProcessing(q, k)

LEMMA HeldStep ==
  ASSUME TypeInv, NEW k \in Keys, CancelTasks = {}, Control(k), Data(k), EndIsOver(k),
         Sheltered(k), Held(k), TaskStep(k)
  PROVE  Held(k)'
<1>0. TypeOK /\ QueuesOf(k) \subseteq Queues /\ QueuesOf(k)' = QueuesOf(k)
  BY PriorityType DEF TypeInv, TaskRunTypeOK, QueuesOf
<1> SUFFICES ASSUME HasKnownJob(k)', NEW q \in QueuesOf(k) PROVE InProcessing(q, k)'
  BY <1>0 DEF Held
<1>1. HasKnownJob(k) \/ ExecutorStart(k)
  BY LiveJobSteps
<1>2. InProcessing(q, k)
  BY <1>1 DEF Held, Sheltered, ExecutorStart
<1>3. ~Teardown(k)
  <2> SUFFICES ASSUME Teardown(k) PROVE FALSE
    OBVIOUS
  <2>1. pc[k] = "teardown" /\ ~ExecutorStart(k)
    BY DEF Teardown, ExecutorStart, Control, InStep
  <2>2. ~HasKnownJob(k)
    BY <2>1 DEF Data, Agrees, EndIsOver
  <2> QED BY <1>1, <2>1, <2>2
<1>4. CASE UNCHANGED throttlerVars
  BY <1>2, <1>4 DEF throttlerVars, InProcessing
<1>5. CASE PopPending(k)
  BY <1>0, <1>2, <1>5, PopPendingEffect
<1>6. CASE Inserts(k)
  BY <1>2, <1>6 DEF Inserts, AddKeyToQueues, InProcessing
<1> QED BY <1>3, <1>4, <1>5, <1>6, ThrottlerSteps

Placed ==
  \A k \in Keys : EndIsOver(k) /\ WaitsEarly(k) /\ Quiet(k) /\ Released(k) /\ Held(k)

LEMMA InitPlaced == Init => Placed
<1> SUFFICES ASSUME Init, NEW k \in Keys
             PROVE  EndIsOver(k) /\ WaitsEarly(k) /\ Quiet(k) /\ Released(k) /\ Held(k)
  BY DEF Placed
<1>1. ~HasKnownJob(k)
  BY DEF Init, HasKnownJob, Live
<1>2. \A q \in Queues : ~InPending(q, k) /\ ~InProcessing(q, k)
  BY DEF Init, ThrottlerInit, InPending, InProcessing
<1>3. pc[k] = "idle" /\ op[k] = "prepare"
  BY DEF Init
<1> QED BY <1>1, <1>2, <1>3
     DEF EndIsOver, WaitsEarly, Waits, Quiet, InAnyProcessing, Released, InAnyQueue, Held

LEMMA TaskStepPlaced ==
  ASSUME CancelTasks = {}, LoopTasks = {}, TypeInv, SlotAccounting, Sound, Orderly, Forward, Housed,
         Placed, NEW k \in Keys, TaskStep(k)
  PROVE  Placed'
<1>1. EndIsOver(k)' /\ WaitsEarly(k)' /\ Quiet(k)' /\ Released(k)' /\ Held(k)'
  <2>1. /\ Control(k) /\ Data(k) /\ Single(k) /\ Past(k) /\ Early(k) /\ Sheltered(k)
        /\ EndIsOver(k) /\ WaitsEarly(k) /\ Quiet(k) /\ Released(k) /\ Held(k)
    BY DEF Sound, Orderly, Forward, Housed, Placed
  <2> QED BY <2>1, EndIsOverStep, WaitsEarlyStep, QuietStep, ReleasedStep, HeldStep
<1>2. ASSUME NEW j \in Keys \ {k}
      PROVE  EndIsOver(j)' /\ WaitsEarly(j)' /\ Quiet(j)' /\ Released(j)' /\ Held(j)'
  <2>1. /\ pc'[j] = pc[j] /\ op'[j] = op[j] /\ at'[j] = at[j] /\ outcome'[j] = outcome[j]
        /\ row'[j] = row[j] /\ mem'[j] = mem[j] /\ job'[j] = job[j] /\ res'[j] = res[j]
        /\ forgotten'[j] = forgotten[j]
    BY OtherTasks
  <2>2. \A q \in Queues : /\ InProcessing(q, j)' <=> InProcessing(q, j)
                          /\ InPending(q, j)' <=> InPending(q, j)
    BY OtherPlaces
  <2>3. failures' = 0 => failures = 0
    <3>1. failures \in Nat
      BY TaskRunAssumption DEF TypeInv, TaskRunTypeOK
    <3>2. failures' = failures \/ failures' = failures + 1
      BY CountSteps DEF Fail
    <3> QED BY <3>1, <3>2
  <2>4. /\ HasKnownJob(j)' <=> HasKnownJob(j)
        /\ Waits(j)' <=> Waits(j)
        /\ InAnyProcessing(j)' <=> InAnyProcessing(j)
        /\ InAnyQueue(j)' <=> InAnyQueue(j)
    BY <2>1, <2>2 DEF HasKnownJob, Waits, InAnyProcessing, InAnyQueue
  <2>5. EndIsOver(j) /\ WaitsEarly(j) /\ Quiet(j) /\ Released(j) /\ Held(j)
    BY DEF Placed
  <2>6. QueuesOf(j) \subseteq Queues /\ QueuesOf(j)' = QueuesOf(j)
    BY PriorityType DEF QueuesOf
  <2>7. EndIsOver(j)' /\ WaitsEarly(j)' /\ Released(j)'
    BY <2>1, <2>4, <2>5 DEF EndIsOver, WaitsEarly, Released
  <2>8. Quiet(j)'
    BY <2>1, <2>3, <2>4, <2>5 DEF Quiet
  <2>9. Held(j)'
    BY <2>2, <2>4, <2>5, <2>6 DEF Held
  <2> QED BY <2>7, <2>8, <2>9
<1> QED BY <1>1, <1>2 DEF Placed

(* Nobody cancels, nothing loops and the engine is not restarted: a cancel *)
(* removes a job without a look at tr.Task, the next iteration of a loop   *)
(* is inserted while the last one holds its places, and a restarted engine *)
(* has the places of an older backup.                                      *)
Undisturbed == CancelTasks = {} /\ LoopTasks = {} /\ MaxCrashes = 0

LEMMA PlacedInductive == Undisturbed => (Spec => []Placed)
<1> SUFFICES ASSUME CancelTasks = {}, LoopTasks = {}, MaxCrashes = 0 PROVE Spec => []Placed
  BY DEF Undisturbed
<1>1. TypeInv /\ SlotAccounting /\ Sound /\ Orderly /\ Forward /\ Housed /\ Placed /\ [Next]_vars
        => Placed'
  <2> SUFFICES ASSUME TypeInv, SlotAccounting, Sound, Orderly, Forward, Housed, Placed,
                      [Next]_vars
               PROVE  Placed'
    OBVIOUS
  <2>1. ~BackupThrottler /\ ~Crash
    BY DEF TypeInv, TaskRunTypeOK, BackupThrottler, Crash
  <2>2. CASE UNCHANGED vars
    BY <2>2 DEF Placed, EndIsOver, WaitsEarly, Waits, Quiet, InAnyProcessing, Released, InAnyQueue,
                Held, HasKnownJob, QueuesOf, InProcessing, InPending, vars, throttlerVars, rowVars,
                runVars, opVars, clusterVars, storedVars
  <2> QED BY <2>1, <2>2, TaskStepPlaced, NextIsTaskStep
<1>2. SafeLoops
  BY DEF SafeLoops
<1> QED BY <1>1, <1>2, InitPlaced, TypeInductive, PlacesAreAccounted, SoundInductive,
           OrderlyInductive, ForwardInductive, HousedInductive, PTL DEF Spec

(* While a job of a task runs in the cluster the task holds its place in   *)
(* every queue its priority names, through every platform error, lost or   *)
(* Unknown answer of the executor, timeout and goroutine that lingers:     *)
(* Teardown gives the places back only when the end of the task is in its  *)
(* row, and then its job has ended, was removed, or was Unknown when the   *)
(* task timed out.                                                         *)
THEOREM LiveJobsHoldTheirPlaces == Undisturbed => (Spec => []LiveJobHoldsSlot)
<1>1. Placed => LiveJobHoldsSlot
  BY DEF Placed, Held, LiveJobHoldsSlot, PlainTasks
<1> QED BY <1>1, PlacedInductive, PTL

(* When reconcile has finished with a task no queue holds it any more,     *)
(* however the task ended: PopProcessing of Teardown, whose failure nobody *)
(* looks at, does not fail, since an ended task never waits for a place.   *)
THEOREM FinishedTasksAreReleased == Undisturbed => (Spec => []FinishedTaskReleased)
<1>1. Placed => FinishedTaskReleased
  BY DEF Placed, Released, FinishedTaskReleased
<1> QED BY <1>1, PlacedInductive, PTL

(* As long as no platform error occurs, a task that polls PopPending waits *)
(* in every related queue and holds a place in none, so that it can still  *)
(* be popped.                                                              *)
THEOREM PollingTasksArePoppable == Undisturbed => (Spec => []StartIsPoppable)
<1> SUFFICES ASSUME Undisturbed PROVE Spec => []StartIsPoppable
  OBVIOUS
<1>1. TypeInv /\ SlotAccounting /\ Sound /\ Placed => StartIsPoppable
  <2> SUFFICES ASSUME TypeInv, SlotAccounting, Sound, Placed, NEW k \in Keys, failures = 0,
                      Processing(k, "start"), NEW q \in keyRelatedQueues[k]
               PROVE  InPending(q, k) /\ ~InProcessing(q, k)
    BY DEF StartIsPoppable
  <2>1. q \in Queues
    BY DEF TypeInv, TaskRunTypeOK, TypeOK
  <2>2. op[k] = "start" /\ at[k] = "proc" /\ pc[k] = "select"
    BY DEF Processing, Sound, Control, InStep
  <2>3. ~InAnyProcessing(k)
    BY <2>2 DEF Placed, Quiet
  <2> QED BY <2>1, <2>3 DEF InAnyProcessing, SlotAccounting, RelatedKeysAreQueued
<1>2. LoopTasks = {} /\ CancelTasks = {}
  BY DEF Undisturbed
<1> QED BY <1>1, <1>2, PlacedInductive, TypeInductive, PlacesAreAccounted, SoundInductive, PTL

-----------------------------------------------------------------------------
(* The concurrency of a queue.                                             *)

(* What a task asks for is the window its insertion leaves each of its     *)
(* queues with.                                                            *)
LEMMA InsertedWindow ==
  ASSUME NEW k \in Keys, NEW q \in QueuesOf(k)
  PROVE  InsertRequests(k)[q].window = WindowAsked(k) /\ WindowAsked(k) \in Windows
<1>1. PICK i \in DOMAIN Priority[k] : Priority[k][i].queue = q
  BY DEF QueuesOf
<1>2. Len(Priority[k]) \in DOMAIN Priority[k]
  BY <1>1, PriorityType
<1>3. WindowAsked(k) \in Windows
  BY <1>2, PriorityType DEF WindowAsked
<1>4. InsertRequests(k)[q].window = WindowAsked(k)
  BY DEF InsertRequests, WindowAsked
<1> QED BY <1>3, <1>4

(* A queue that some task is in has a window one of its tasks asks for,    *)
(* and one of them asks for a window as large as the number of tasks that  *)
(* hold a place.  (The last task inserted may have shrunk the window.)     *)
Used(q) == \E k \in Keys : InPending(q, k) \/ InProcessing(q, k)
Asked(q, n) == \E k \in Keys : q \in QueuesOf(k) /\ n = WindowAsked(k)
Within(q, S) == S # {} => \E k \in Keys : q \in QueuesOf(k) /\ Cardinality(S) <= WindowAsked(k)
Windowed ==
  \A q \in Queues :
    /\ Used(q) => Asked(q, processingWindow[q])
    /\ Within(q, processing[q])

LEMMA Fewer ==
  ASSUME NEW q \in Queues, NEW T \in SUBSET Keys, NEW S \in SUBSET T, Within(q, T)
  PROVE  Within(q, S)
<1> SUFFICES ASSUME S # {}
             PROVE  \E k \in Keys : q \in QueuesOf(k) /\ Cardinality(S) <= WindowAsked(k)
  BY DEF Within
<1>1. IsFiniteSet(T)
  BY ThrottlerAssumption, FS_Subset
<1>2. /\ IsFiniteSet(S) /\ Cardinality(S) <= Cardinality(T)
      /\ Cardinality(S) \in Nat /\ Cardinality(T) \in Nat
  BY <1>1, FS_Subset, FS_CardinalityType
<1>3. PICK k \in Keys : q \in QueuesOf(k) /\ Cardinality(T) <= WindowAsked(k)
  BY DEF Within
<1>4. WindowAsked(k) \in Int
  BY <1>3, InsertedWindow, ThrottlerAssumption
<1> QED BY <1>2, <1>3, <1>4

LEMMA TaskStepWindowed ==
  ASSUME TypeInv, Windowed, NEW k \in Keys, TaskStep(k)
  PROVE  Windowed'
<1>0. TypeOK
  BY DEF TypeInv, TaskRunTypeOK
<1> SUFFICES ASSUME NEW q \in Queues
             PROVE  /\ Used(q)' => Asked(q, processingWindow'[q])
                    /\ Within(q, processing'[q])
  BY DEF Windowed, Asked, Within, QueuesOf, WindowAsked
<1>1. /\ Used(q) => Asked(q, processingWindow[q])
      /\ Within(q, processing[q])
  BY DEF Windowed
<1>2. processing'[q] \subseteq processing[q] => Within(q, processing'[q])
  BY <1>0, <1>1, Fewer DEF TypeOK
<1>3. CASE UNCHANGED throttlerVars
  BY <1>1, <1>3 DEF throttlerVars, Used, InPending, InProcessing
<1>4. CASE PopPending(k)
  <2>1. processingWindow' = processingWindow
    BY <1>4 DEF PopPending
  <2>2. q \in keyRelatedQueues[k] => Used(q)
    BY <1>4 DEF PopPending, PopPendingSucceeds, CanPopPending, IsPeek, Used
  <2>3. Used(q)' => Used(q)
    <3> SUFFICES ASSUME NEW j \in Keys, InPending(q, j)' \/ InProcessing(q, j)' PROVE Used(q)
      BY DEF Used, InPending, InProcessing
    <3>1. InPending(q, j) \/ InProcessing(q, j) \/ q \in keyRelatedQueues[k]
      BY <1>0, <1>4, PopPendingEffect
    <3> QED BY <2>2, <3>1 DEF Used
  <2>4. ~(processing'[q] \subseteq processing[q]) => Within(q, processing'[q])
    <3> SUFFICES ASSUME ~(processing'[q] \subseteq processing[q])
                 PROVE  Within(q, processing'[q])
      OBVIOUS
    <3>1. ThrottlerNext
      BY <1>4 DEF ThrottlerNext
    <3>2. Cardinality(processing'[q]) <= processingWindow'[q]
      BY <1>0, <3>1, AdmissionStep
    <3>3. q \in keyRelatedQueues[k]
      BY <1>0, <1>4 DEF PopPending, TypeOK
    <3>4. Asked(q, processingWindow'[q])
      BY <1>1, <2>1, <2>2, <3>3
    <3> QED BY <3>2, <3>4 DEF Asked, Within
  <2> QED BY <1>1, <1>2, <2>1, <2>3, <2>4
<1>5. CASE Inserts(k)
  <2>1. PICK t \in Times : AddKeyToQueues(k, InsertRequests(k), t)
    BY <1>5 DEF Inserts
  <2>2. InsertRequests(k) \in Requests /\ DOMAIN InsertRequests(k) = QueuesOf(k)
    BY <1>5, InsertRequestsType DEF Inserts
  <2>3. processing' = processing
    BY <2>1 DEF AddKeyToQueues
  <2>4. CASE q \in QueuesOf(k)
    <3>1. InsertRequests(k)[q].window = WindowAsked(k) /\ WindowAsked(k) # NoWindow
      BY <2>4, InsertedWindow, ThrottlerAssumption
    <3>2. processingWindow'[q] = WindowAsked(k)
      BY <2>1, <2>2, <2>4, <3>1 DEF AddKeyToQueues, RequestedWindow
    <3> QED BY <1>1, <2>3, <2>4, <3>2 DEF Asked
  <2>5. CASE q \notin QueuesOf(k)
    <3>1. processingWindow'[q] = processingWindow[q]
      BY <1>0, <2>1, <2>2, <2>5 DEF AddKeyToQueues, TypeOK
    <3>2. Used(q)' => Used(q)
      <4> SUFFICES ASSUME NEW j \in Keys, InPending(q, j)' \/ InProcessing(q, j)' PROVE Used(q)
        BY DEF Used, InPending, InProcessing
      <4>1. InPending(q, j) \/ InProcessing(q, j)
        BY <1>0, <2>1, <2>2, <2>5, AddKeyEffect
      <4> QED BY <4>1 DEF Used
    <3> QED BY <1>1, <2>3, <3>1, <3>2
  <2> QED BY <2>4, <2>5
<1>6. CASE PopProcessing(k)
  <2>1. processingWindow' = processingWindow /\ processing'[q] \subseteq processing[q]
    BY <1>0, <1>6 DEF PopProcessing, TypeOK
  <2>2. Used(q)' => Used(q)
    <3> SUFFICES ASSUME NEW j \in Keys, InPending(q, j)' \/ InProcessing(q, j)' PROVE Used(q)
      BY DEF Used, InPending, InProcessing
    <3>1. InPending(q, j) \/ InProcessing(q, j)
      BY <1>0, <1>6, PopProcessingEffect
    <3> QED BY <3>1 DEF Used
  <2> QED BY <1>1, <1>2, <2>1, <2>2
<1> QED BY <1>3, <1>4, <1>5, <1>6, ThrottlerSteps

(* No more jobs of a queue run at once than the largest window one of its  *)
(* tasks asks for, whatever concurrencies the entries name and in whatever *)
(* order the tasks are inserted: a task is admitted only below the window  *)
(* of that moment, which some task of the queue asked for, and a job only  *)
(* runs in a place (or is one that a timeout took for ended).              *)
THEOREM ConcurrencyIsRespected == Undisturbed => (Spec => []ConcurrencyRespected)
<1> SUFFICES ASSUME Undisturbed PROVE Spec => []ConcurrencyRespected
  OBVIOUS
<1>1. Init => Windowed
  BY DEF Init, ThrottlerInit, Windowed, Within, Used, InPending, InProcessing
<1>2. TypeInv /\ Windowed /\ [Next]_vars => Windowed'
  <2> SUFFICES ASSUME TypeInv, Windowed, [Next]_vars PROVE Windowed'
    OBVIOUS
  <2>1. ~BackupThrottler /\ ~Crash
    BY DEF Undisturbed, TypeInv, TaskRunTypeOK, BackupThrottler, Crash
  <2>2. CASE UNCHANGED vars
    BY <2>2 DEF Windowed, Used, InPending, InProcessing, Asked, Within, QueuesOf, WindowAsked,
                vars, throttlerVars
  <2> QED BY <2>1, <2>2, TaskStepWindowed, NextIsTaskStep
<1>3. TypeInv /\ Windowed /\ LiveJobHoldsSlot => ConcurrencyRespected
  <2> SUFFICES ASSUME TypeInv, Windowed, LiveJobHoldsSlot, crashes = 0, NEW q \in Queues
               PROVE  Within(q, {k \in PlainTasks : q \in QueuesOf(k) /\ HasKnownJob(k)})
    BY DEF ConcurrencyRespected, Within
  <2> DEFINE S == {k \in PlainTasks : q \in QueuesOf(k) /\ HasKnownJob(k)}
  <2>1. S \subseteq processing[q]
    BY DEF LiveJobHoldsSlot, InProcessing
  <2>2. processing[q] \subseteq Keys /\ Within(q, processing[q])
    BY DEF TypeInv, TaskRunTypeOK, TypeOK, Windowed
  <2> HIDE DEF S
  <2>3. Within(q, S)
    BY <2>1, <2>2, Fewer
  <2> QED BY <2>3 DEF S
<1> QED BY <1>1, <1>2, <1>3, TypeInductive, LiveJobsHoldTheirPlaces, PTL DEF Spec
=============================================================================
