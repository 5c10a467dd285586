--------------------------- MODULE TaskRunProofs ---------------------------
(***************************************************************************)
(* Proofs about the run of tasks with the throttler, for any number of     *)
(* tasks, queues, errors, restarts and loop iterations.                    *)
(***************************************************************************)
EXTENDS TaskRun, ThrottlerProofs, WellFoundedInduction, SequenceTheorems

-----------------------------------------------------------------------------
(* What prepare asks of the throttler.                                     *)

LEMMA Largest ==
  ASSUME NEW n \in Nat, NEW I \in SUBSET (1 .. n), I # {}
  PROVE  \E i \in I : \A j \in I : j <= i
<1> DEFINE T == {n - i : i \in I}
<1>1. T \subseteq Nat /\ T # {}
  <2>1. \A i \in I : i \in 1 .. n
    OBVIOUS
  <2>2. \A i \in 1 .. n : n - i \in Nat
    OBVIOUS
  <2> QED BY <2>1, <2>2
<1>2. PICK m \in T : \A l \in T : <<l, m>> \notin OpToRel(<, Nat)
  BY <1>1, Zenon, NatLessThanWellFounded, WFMin
<1>3. \A l \in T : l \in Nat /\ m \in Nat => ~(l < m)
  BY <1>2, Zenon DEF OpToRel
<1>4. PICK i \in I : m = n - i
  BY <1>2
<1>5. ASSUME NEW j \in I PROVE j <= i
  BY <1>1, <1>3, <1>4
<1> QED BY <1>5

LEMMA PriorityType ==
  ASSUME NEW k \in Keys
  PROVE  /\ Len(Priority[k]) \in Nat /\ DOMAIN Priority[k] = 1 .. Len(Priority[k])
         /\ \A i \in DOMAIN Priority[k] : /\ Priority[k][i].queue \in Queues
                                          /\ Priority[k][i].concurrency \in Windows
                                          /\ Priority[k][i].priority \in Priorities
<1>1. Priority[k] \in Seq([queue : Queues, concurrency : Windows, priority : Priorities])
  BY TaskRunAssumption
<1>2. Len(Priority[k]) \in Nat /\ DOMAIN Priority[k] = 1 .. Len(Priority[k])
  BY <1>1, LenProperties
<1>3. \A i \in DOMAIN Priority[k] :
        Priority[k][i] \in [queue : Queues, concurrency : Windows, priority : Priorities]
  BY <1>1, <1>2, ElementOfSeq, Zenon
<1> QED BY <1>2, <1>3

LEMMA InsertRequestsType ==
  ASSUME NEW k \in Keys, QueuesOf(k) # {}
  PROVE  InsertRequests(k) \in Requests /\ DOMAIN InsertRequests(k) = QueuesOf(k)
<1> DEFINE n == Len(Priority[k])
           Last(q, i) == /\ Priority[k][i].queue = q
                         /\ \A j \in DOMAIN Priority[k] : Priority[k][j].queue = q => j <= i
           last(q) == CHOOSE i \in DOMAIN Priority[k] : Last(q, i)
<1>1. n \in Nat /\ DOMAIN Priority[k] = 1 .. n
  BY PriorityType
<1>2. QueuesOf(k) \subseteq Queues
  BY PriorityType DEF QueuesOf
<1>3. ASSUME NEW q \in QueuesOf(k)
      PROVE  [priority |-> Priority[k][last(q)].priority,
              window |-> Priority[k][n].concurrency] \in Request
  <2> DEFINE I == {i \in 1 .. n : Priority[k][i].queue = q}
  <2>1. I \in SUBSET (1 .. n) /\ I # {}
    BY <1>1, <1>3 DEF QueuesOf
  <2>2. PICK i \in I : \A j \in I : j <= i
    BY <1>1, <2>1, Largest, Zenon
  <2>3. i \in DOMAIN Priority[k] /\ Last(q, i)
    BY <1>1, <2>2
  <2>4. last(q) \in DOMAIN Priority[k]
    <3> HIDE DEF Last
    <3> QED BY <2>3, Zenon
  <2>5. n \in DOMAIN Priority[k]
    BY <1>1, <2>1
  <2> HIDE DEF last
  <2> QED BY <2>4, <2>5, PriorityType DEF Request
<1>4. InsertRequests(k) = [q \in QueuesOf(k) |->
        [priority |-> Priority[k][last(q)].priority, window |-> Priority[k][n].concurrency]]
  BY Zenon DEF InsertRequests
<1> HIDE DEF last
<1>5. InsertRequests(k) \in [QueuesOf(k) -> Request]
  BY <1>3, <1>4
<1>6. QueuesOf(k) \in (SUBSET Queues) \ {{}}
  <2>1. QueuesOf(k) \in SUBSET Queues /\ QueuesOf(k) \notin {{}}
    BY <1>2
  <2> QED BY <2>1, Zenon
<1>7. InsertRequests(k) \in Requests
  <2>1. \E Q \in (SUBSET Queues) \ {{}} : InsertRequests(k) \in [Q -> Request]
    BY <1>5, <1>6
  <2> HIDE DEF Request
  <2> QED BY <2>1 DEF Requests
<1> QED BY <1>4, <1>7

-----------------------------------------------------------------------------
(* Types.                                                                  *)

Snapshots ==
  [queueByName : SUBSET Queues, processingWindow : [Queues -> Int],
   pending : [Queues -> [Keys -> Item \cup {NoItem}]],
   processing : [Queues -> SUBSET Keys],
   keyRelatedQueues : [Keys -> SUBSET Queues]]

BackupOK == backup = NoBackup \/ backup \in Snapshots

(* The bound on lingering goroutines is on both kinds together,            *)
LingeringBound ==
  \A k \in Keys : lingering[k].check + lingering[k].poll <= MaxLingering

(* only start calls Executor.Start, and wait reports the end of a job,     *)
(* where the other operations report that they are done.                   *)
Reports(k) ==
  /\ at[k] = "exec" => op[k] = "start"
  /\ op[k] = "wait" /\ at[k] \in {"fetch", "send"} => res[k] # "done"
WaitReports == \A k \in Keys : Reports(k)

TypeInv == TaskRunTypeOK /\ BackupOK /\ LingeringBound /\ WaitReports

LEMMA InitType == Init => TypeInv
<1> SUFFICES ASSUME Init PROVE TypeInv
  OBVIOUS
<1>1. TypeOK
  BY InitTypeOK DEF Init
<1>2. /\ row \in [Keys -> Rows] /\ mem \in [Keys -> Rows] /\ seen \in [Keys -> Rows]
  BY TaskRunAssumption DEF Init, Rows, Looped, TaskStatuses
<1>3. quitWait \in [Keys -> BOOLEAN] /\ ctxDone \in [Keys -> BOOLEAN]
  BY Zenon DEF Init
<1>4. calc \in [Keys -> [status : PipelineStatuses, skip : BOOLEAN]]
  BY DEF Init, PipelineStatuses
<1>5. lingering \in [Keys -> [check : 0 .. MaxLingering, poll : 0 .. MaxLingering]]
  BY TaskRunAssumption DEF Init
<1>6. job \in [Keys -> [Looped -> JobStates]]
  BY DEF Init, JobStates
<1>7. failures \in 0 .. MaxFailures /\ crashes \in 0 .. MaxCrashes /\ saved \subseteq Keys
  BY TaskRunAssumption DEF Init
<1>8. /\ pipeline \in [Keys -> PipelineStatuses] /\ op \in [Keys -> Ops]
      /\ res \in [Keys -> EndStatuses \cup {"done", "nil", "err", "exit"}]
  BY DEF Init, PipelineStatuses, Ops
<1>9. /\ pc \in [Keys -> {"idle", "mark", "reconcile", "correct", "loop", "select",
                      "defer", "update", "retry", "teardown", "again", "finish",
                      "save", "done"}]
      /\ outcome \in [Keys -> {"ok", "err", "exit"}]
      /\ at \in [Keys -> {"none", "check", "proc", "exec", "fetch", "send"}]
      /\ cancel \in [Keys -> {"idle", "list", "stop", "read", "write", "pipeline", "done"}]
      /\ forgotten \in [Keys -> SUBSET Looped]
  BY DEF Init
<1>10. TaskRunTypeOK
  BY <1>1, <1>2, <1>3, <1>4, <1>5, <1>6, <1>7, <1>8, <1>9 DEF TaskRunTypeOK
<1>11. BackupOK /\ LingeringBound /\ WaitReports
  BY TaskRunAssumption DEF Init, BackupOK, LingeringBound, WaitReports, Reports
<1> QED BY <1>10, <1>11 DEF TypeInv

LEMMA JobStatusType ==
  ASSUME NEW state \in JobStates
  PROVE  /\ JobStatus(state) \in {"StartError", "Queue", "Running", "Success", "Failed"}
         /\ ~Live(state) => JobStatus(state) \in {"StartError", "Success", "Failed"}
BY DEF JobStatus, JobStates, Live

Places ==
  {"idle", "mark", "reconcile", "correct", "loop", "select", "defer", "update", "retry",
   "teardown", "again", "finish", "save", "done"}
OpPlaces == {"none", "check", "proc", "exec", "fetch", "send"}
CancelPlaces == {"idle", "list", "stop", "read", "write", "pipeline", "done"}
Results == EndStatuses \cup {"done", "nil", "err", "exit"}

TaskStep(k) ==
  OpStep(k) \/ WaitOpStep(k) \/ ReconcileStep(k) \/ CancelStep(k) \/ JobStep(k)

(* A step of a task changes f, if at all, at the task.                     *)
Touches(f, g, k, S) == g \in [Keys -> S] /\ \A j \in Keys \ {k} : g[j] = f[j]

(* The control of the two goroutines.                                      *)
LEMMA ControlSteps ==
  ASSUME TypeInv, NEW k \in Keys, TaskStep(k)
  PROVE  /\ Touches(pc, pc', k, Places) /\ Touches(outcome, outcome', k, {"ok", "err", "exit"})
         /\ Touches(op, op', k, Ops) /\ Touches(at, at', k, OpPlaces)
         /\ Touches(res, res', k, Results)
         /\ Touches(cancel, cancel', k, CancelPlaces)
<1> USE DEF rowVars, runVars, opVars, clusterVars, cancelVars, storedVars, Touches
<1>1. /\ pc \in [Keys -> Places] /\ outcome \in [Keys -> {"ok", "err", "exit"}]
      /\ op \in [Keys -> Ops]
      /\ at \in [Keys -> OpPlaces] /\ res \in [Keys -> Results]
      /\ cancel \in [Keys -> CancelPlaces]
  BY DEF TypeInv, TaskRunTypeOK, Places, OpPlaces, CancelPlaces, Results
<1>2. /\ JobStatus(JobOf(k)) \in {"StartError", "Queue", "Running", "Success", "Failed"}
      /\ ~Live(JobOf(k)) => JobStatus(JobOf(k)) \in Results
      /\ mem[k].status \in TaskStatuses
  <2>1. JobOf(k) \in JobStates /\ mem[k].status \in TaskStatuses
    BY DEF TypeInv, TaskRunTypeOK, Rows, JobOf
  <2> QED BY <2>1, JobStatusType DEF Results, EndStatuses
<1>3. CASE OpStep(k)
  <2> USE <1>3 DEF OpStep, CheckPipeline, ProcessPrepare, ProcessCreate, StartPopped, StartRefused,
                   ExecutorStart, ProcessQueue, ProcessWait, FetchLatestTask, LingeringCheck,
                   LingeringFetch, Report, LoopEnds, Hang
  <2>1. UNCHANGED <<pc, outcome, op, cancel>>
    OBVIOUS
  <2>2. Touches(at, at', k, OpPlaces)
    BY <1>1 DEF OpPlaces
  <2>3. Touches(res, res', k, Results)
    BY <1>1, <1>2 DEF Results
  <2> QED BY <1>1, <2>1, <2>2, <2>3
<1>4. CASE WaitOpStep(k)
  <2> USE <1>4 DEF WaitOpStep, ReceiveCtxDone, ReceiveExit, ReceiveErr, PrepareDone, OpDone,
                   ReceiveTimeout, HandleTaskLoop, Update, Received, TimedOut
  <2>1. UNCHANGED <<op, res, cancel>>
    OBVIOUS
  <2>2. Touches(pc, pc', k, Places)
    BY <1>1 DEF Places
  <2>3. Touches(at, at', k, OpPlaces)
    BY <1>1 DEF OpPlaces
  <2>4. Touches(outcome, outcome', k, {"ok", "err", "exit"})
    BY <1>1
  <2> QED BY <1>1, <2>1, <2>2, <2>3, <2>4
<1>5. CASE ReconcileStep(k)
  <2> USE <1>5 DEF ReconcileStep, Listen, UpdateStatusBeforeReconcile, Reconcile, Correct, StartOp,
                   LeaveLoop, AbnormalRetry, Teardown, UpdateStatusAfterReconcile,
                   TeardownPipeline, Leave
  <2>1. UNCHANGED <<res, cancel>>
    OBVIOUS
  <2>2. Touches(pc, pc', k, Places)
    BY <1>1 DEF Places
  <2>3. Touches(at, at', k, OpPlaces)
    BY <1>1 DEF OpPlaces
  <2>4. Touches(outcome, outcome', k, {"ok", "err", "exit"})
    BY <1>1
  <2>5. Touches(op, op', k, Ops)
    BY <1>1, <1>2 DEF Ops, OpOf, TaskStatuses, IsEnd
  <2> QED BY <1>1, <2>1, <2>2, <2>3, <2>4, <2>5
<1>6. CASE CancelStep(k)
  BY <1>1, <1>6 DEF CancelStep, CancelCheck, CancelListTasks, CancelExecutor, CancelReadTask,
                    CancelWriteTask, CancelPipeline, CancelPlaces
<1>7. CASE JobStep(k)
  BY <1>1, <1>7 DEF JobStep
<1> QED BY <1>3, <1>4, <1>5, <1>6, <1>7 DEF TaskStep

LEMMA FlagSteps ==
  ASSUME TypeInv, NEW k \in Keys, TaskStep(k)
  PROVE  Touches(quitWait, quitWait', k, BOOLEAN) /\ Touches(ctxDone, ctxDone', k, BOOLEAN)
<1> USE DEF rowVars, runVars, opVars, clusterVars, cancelVars, storedVars
<1>1. quitWait \in [Keys -> BOOLEAN] /\ ctxDone \in [Keys -> BOOLEAN]
  BY DEF TypeInv, TaskRunTypeOK
<1>2. \A b \in BOOLEAN : /\ Touches(quitWait, [quitWait EXCEPT ![k] = b], k, BOOLEAN)
                         /\ Touches(ctxDone, [ctxDone EXCEPT ![k] = b], k, BOOLEAN)
  BY <1>1, Zenon DEF Touches
<1>3. Touches(quitWait, quitWait, k, BOOLEAN) /\ Touches(ctxDone, ctxDone, k, BOOLEAN)
  BY <1>1 DEF Touches
<1>4. /\ quitWait' = quitWait \/ \E b \in BOOLEAN : quitWait' = [quitWait EXCEPT ![k] = b]
      /\ ctxDone' = ctxDone \/ \E b \in BOOLEAN : ctxDone' = [ctxDone EXCEPT ![k] = b]
  <2>1. CASE OpStep(k)
    BY <2>1 DEF OpStep, CheckPipeline, ProcessPrepare, ProcessCreate, StartPopped, StartRefused,
                ExecutorStart, ProcessQueue, ProcessWait, FetchLatestTask, LingeringCheck,
                LingeringFetch
  <2>2. CASE WaitOpStep(k)
    BY <2>2 DEF WaitOpStep, ReceiveCtxDone, ReceiveExit, ReceiveErr, PrepareDone, OpDone,
                ReceiveTimeout, HandleTaskLoop, Update, TimedOut
  <2>3. CASE ReconcileStep(k)
    BY <2>3 DEF ReconcileStep, Listen, UpdateStatusBeforeReconcile, Reconcile, Correct, StartOp,
                LeaveLoop, AbnormalRetry, Teardown, UpdateStatusAfterReconcile,
                TeardownPipeline
  <2>4. CASE CancelStep(k) \/ JobStep(k)
    BY <2>4 DEF CancelStep, CancelCheck, CancelListTasks, CancelExecutor,
                CancelReadTask, CancelWriteTask, CancelPipeline,
                JobStep
  <2> QED BY <2>1, <2>2, <2>3, <2>4 DEF TaskStep
<1> QED BY <1>2, <1>3, <1>4

(* The rows, and what is read of them and written to them.                 *)
LEMMA RowSteps ==
  ASSUME TypeInv, NEW k \in Keys, TaskStep(k)
  PROVE  /\ Touches(row, row', k, Rows) /\ Touches(mem, mem', k, Rows)
         /\ Touches(seen, seen', k, Rows) /\ Touches(pipeline, pipeline', k, PipelineStatuses)
<1> USE DEF rowVars, runVars, opVars, clusterVars, cancelVars, storedVars, Touches
<1>1. /\ row \in [Keys -> Rows] /\ mem \in [Keys -> Rows] /\ seen \in [Keys -> Rows]
      /\ pipeline \in [Keys -> PipelineStatuses]
      /\ calc[k].status \in PipelineStatuses
      /\ 0 \in Looped /\ 1 \in Looped
  BY TaskRunAssumption DEF TypeInv, TaskRunTypeOK, Looped
<1>2. /\ JobStatus(JobOf(k)) \in TaskStatuses
      /\ JobStatus(job[k][row[k].looped]) \in TaskStatuses
      /\ mem[k].status \in TaskStatuses /\ mem[k].looped \in Looped
      /\ row[k].looped \in Looped
  <2>1. /\ JobOf(k) \in JobStates /\ job[k][row[k].looped] \in JobStates
        /\ mem[k].status \in TaskStatuses /\ mem[k].looped \in Looped /\ row[k].looped \in Looped
    BY DEF TypeInv, TaskRunTypeOK, Rows, JobOf
  <2> QED BY <2>1, JobStatusType DEF TaskStatuses, EndStatuses
<1>3. ASSUME NEW s \in TaskStatuses, NEW l \in Looped
      PROVE  /\ Touches(row, [row EXCEPT ![k].status = s], k, Rows)
             /\ Touches(mem, [mem EXCEPT ![k].status = s], k, Rows)
             /\ Touches(mem, [mem EXCEPT ![k] = [status |-> s, looped |-> l]], k, Rows)
             /\ Touches(row, [row EXCEPT ![k] = mem[k]], k, Rows)
             /\ Touches(mem, [mem EXCEPT ![k] = row[k]], k, Rows)
             /\ Touches(row, [row EXCEPT ![k] = [seen[k] EXCEPT !.status = s]], k, Rows)
             /\ Touches(row, row, k, Rows) /\ Touches(mem, mem, k, Rows)
  BY <1>1 DEF Rows
<1>3a. ASSUME NEW x \in Rows PROVE Touches(row, [row EXCEPT ![k] = x], k, Rows)
  BY <1>1
<1>4. CASE OpStep(k)
  <2>1. UNCHANGED <<row, seen, pipeline>>
        /\ (mem' = mem \/ mem' = [mem EXCEPT ![k] = row[k]])
    BY <1>4 DEF OpStep, CheckPipeline, ProcessPrepare, ProcessCreate, StartPopped, StartRefused,
                ExecutorStart, ProcessQueue, ProcessWait, FetchLatestTask, LingeringCheck,
                LingeringFetch
  <2> QED BY <1>1, <2>1
<1>5. CASE WaitOpStep(k)
  <2>1. UNCHANGED <<seen, pipeline>>
        /\ (row' = row \/ row' = [row EXCEPT ![k] = mem[k]])
    BY <1>5 DEF WaitOpStep, ReceiveCtxDone, ReceiveExit, ReceiveErr, PrepareDone, OpDone,
                ReceiveTimeout, HandleTaskLoop, Update
  <2>2. \/ mem' = mem
        \/ \E s \in TaskStatuses : mem' = [mem EXCEPT ![k].status = s]
        \/ \E s \in TaskStatuses, l \in Looped :
              mem' = [mem EXCEPT ![k] = [status |-> s, looped |-> l]]
    <3>1. CASE ReceiveCtxDone(k) \/ ReceiveExit(k) \/ Update(k)
      BY <3>1 DEF ReceiveCtxDone, ReceiveExit, Update
    <3>2. CASE ReceiveErr(k)
      BY <3>2 DEF ReceiveErr, TaskStatuses, EndStatuses
    <3>3. CASE PrepareDone(k)
      <4>1. LoopOptions(k) \in Looped
        BY <1>1, <1>2 DEF LoopOptions
      <4> QED BY <1>1, <1>2, <3>3, <4>1 DEF PrepareDone, TaskStatuses, EndStatuses
    <3>4. CASE OpDone(k)
      <4>1. op[k] = "wait" /\ at[k] = "send" /\ res[k] \notin {"exit", "err", "nil"}
              => res[k] \in TaskStatuses
        BY DEF TypeInv, TaskRunTypeOK, WaitReports, Reports, TaskStatuses
      <4>2. op[k] \in Ops /\ at[k] = "send"
        BY <3>4 DEF TypeInv, TaskRunTypeOK, OpDone, Received
      <4> QED BY <3>4, <4>1, <4>2 DEF OpDone, Ops, TaskStatuses
    <3>5. CASE ReceiveTimeout(k)
      BY <1>1, <1>2, <3>5 DEF ReceiveTimeout, TimedOut, TaskStatuses, EndStatuses
    <3>6. CASE HandleTaskLoop(k)
      <4>1. /\ RestoredStatus(k, outcome[k], mem[k].status) \in TaskStatuses
            /\ RestoredStatus(k, outcome[k], "Analyzed") \in TaskStatuses
            /\ RestoredStatus(k, "err", mem[k].status) \in TaskStatuses
        <5>1. op[k] \in Ops
          BY DEF TypeInv, TaskRunTypeOK
        <5> QED BY <1>2, <5>1 DEF RestoredStatus, OldStatus, Ops, TaskStatuses
      <4>2. BelowMaxTimes(k) => mem[k].looped + 1 \in Looped
        BY <1>2, TaskRunAssumption DEF BelowMaxTimes, Looped
      <4> QED BY <3>6, <4>1, <4>2 DEF HandleTaskLoop
    <3> QED BY <1>5, <3>1, <3>2, <3>3, <3>4, <3>5, <3>6 DEF WaitOpStep
  <2> HIDE DEF Touches
  <2>3. Touches(row, row', k, Rows)
    BY <1>2, <1>3, <2>1
  <2>4. Touches(mem, mem', k, Rows)
    BY <1>2, <1>3, <2>2
  <2> QED BY <1>1, <2>1, <2>3, <2>4 DEF Touches
<1>6. CASE ReconcileStep(k)
  <2>1. UNCHANGED seen
    BY <1>6 DEF ReconcileStep, Listen, UpdateStatusBeforeReconcile, Reconcile, Correct, StartOp,
                LeaveLoop, AbnormalRetry, Teardown, UpdateStatusAfterReconcile,
                TeardownPipeline
  <2>2. Touches(pipeline, pipeline', k, PipelineStatuses)
    BY <1>1, <1>6 DEF ReconcileStep, Listen, UpdateStatusBeforeReconcile, Reconcile, Correct,
                StartOp, LeaveLoop, AbnormalRetry, Teardown, UpdateStatusAfterReconcile,
                TeardownPipeline, PipelineStatuses
  <2>3. \/ UNCHANGED <<row, mem>>
        \/ row' = row /\ mem' = [mem EXCEPT ![k] = row[k]]
        \/ mem' = mem /\ row' = [row EXCEPT ![k] = mem[k]]
        \/ mem' = mem /\ row' = [row EXCEPT ![k].status = "NoNeedBySystem"]
        \/ Correct(k) /\ mem' = [mem EXCEPT ![k].status = JobStatus(JobOf(k))]
                      /\ row' = [row EXCEPT ![k] = mem'[k]]
    BY <1>6 DEF ReconcileStep, Listen, UpdateStatusBeforeReconcile, Reconcile, Correct, StartOp,
                LeaveLoop, AbnormalRetry, Teardown, UpdateStatusAfterReconcile,
                TeardownPipeline
  <2>4. "NoNeedBySystem" \in TaskStatuses
    BY DEF TaskStatuses, EndStatuses
  <2> HIDE DEF Touches
  <2>5. Touches(mem, mem', k, Rows)
    BY <1>2, <1>3, <2>3, <2>4
  <2>6. mem'[k] \in Rows
    BY <2>5 DEF Touches
  <2>7. Touches(row, row', k, Rows)
    BY <1>2, <1>3, <1>3a, <2>3, <2>4, <2>6
  <2> QED BY <1>1, <2>1, <2>2, <2>5, <2>7 DEF Touches
<1>7. CASE CancelStep(k)
  <2>1. /\ UNCHANGED mem
        /\ row' = row \/ row' = [row EXCEPT ![k] = [seen[k] EXCEPT !.status = "StopByUser"]]
        /\ seen' = seen \/ seen' = [seen EXCEPT ![k] = row[k]]
        /\ pipeline' = pipeline \/ pipeline' = [pipeline EXCEPT ![k] = "StopByUser"]
    BY <1>7 DEF CancelStep, CancelCheck, CancelListTasks, CancelExecutor,
                CancelReadTask, CancelWriteTask, CancelPipeline
  <2>2. "StopByUser" \in TaskStatuses /\ "StopByUser" \in PipelineStatuses
    BY DEF TaskStatuses, EndStatuses, PipelineStatuses
  <2> HIDE DEF Touches
  <2>3. Touches(row, row', k, Rows)
    BY <1>2, <1>3, <2>1, <2>2
  <2> QED BY <1>1, <2>1, <2>2, <2>3 DEF Touches
<1>8. CASE JobStep(k)
  BY <1>1, <1>8 DEF JobStep
<1> QED BY <1>4, <1>5, <1>6, <1>7, <1>8 DEF TaskStep

Lingerers == [check : 0 .. MaxLingering, poll : 0 .. MaxLingering]

LEMMA CountSteps ==
  ASSUME TypeInv, NEW k \in Keys, TaskStep(k)
  PROVE  /\ failures' = failures \/ Fail
         /\ UNCHANGED <<crashes, backup>>
         /\ saved' = saved \/ saved' = saved \cup {k}
         /\ Touches(lingering, lingering', k, Lingerers)
         /\ lingering'[k].check + lingering'[k].poll <= MaxLingering
<1> USE DEF rowVars, runVars, opVars, clusterVars, cancelVars, storedVars
<1>1. lingering \in [Keys -> Lingerers] /\ MaxLingering \in Nat
  BY TaskRunAssumption DEF TypeInv, TaskRunTypeOK, Lingerers
<1>2. /\ lingering[k].check \in 0 .. MaxLingering /\ lingering[k].poll \in 0 .. MaxLingering
      /\ lingering[k].check + lingering[k].poll <= MaxLingering
  BY <1>1 DEF Lingerers, TypeInv, LingeringBound
<1>3. ASSUME NEW x \in Lingerers, lingering' = [lingering EXCEPT ![k] = x]
      PROVE  Touches(lingering, lingering', k, Lingerers) /\ lingering'[k] = x
  BY <1>1, <1>3 DEF Touches
<1> DEFINE Lingers == \/ lingering' = lingering
                      \/ \E x \in Lingerers : lingering' = [lingering EXCEPT ![k] = x]
                                               /\ x.check + x.poll <= MaxLingering
<1>4. ASSUME Lingers
      PROVE  /\ Touches(lingering, lingering', k, Lingerers)
             /\ lingering'[k].check + lingering'[k].poll <= MaxLingering
  <2>1. CASE lingering' = lingering
    BY <1>1, <1>2, <2>1 DEF Touches
  <2> QED BY <1>3, <1>4, <2>1
<1>5. CASE OpStep(k)
  <2>1. failures' = failures \/ Fail
    BY <1>5 DEF OpStep, CheckPipeline, ProcessPrepare, ProcessCreate, StartPopped, StartRefused,
                ExecutorStart, ProcessQueue, ProcessWait, FetchLatestTask, LingeringCheck,
                LingeringFetch
  <2>2. UNCHANGED <<crashes, backup, saved>>
        /\ (lingering' = lingering \/ LingeringCheck(k) \/ LingeringFetch(k))
    BY <1>5 DEF OpStep, CheckPipeline, ProcessPrepare, ProcessCreate, StartPopped, StartRefused,
                ExecutorStart, ProcessQueue, ProcessWait, FetchLatestTask, LingeringCheck,
                LingeringFetch
  <2>3. ASSUME LingeringCheck(k) PROVE Lingers
    <3>1. lingering[k].check > 0
      BY <2>3 DEF LingeringCheck
    <3>2. \/ lingering' = [lingering EXCEPT ![k] = [lingering[k] EXCEPT !.check = @ - 1]]
          \/ lingering' = [lingering EXCEPT ![k] = [check |-> lingering[k].check - 1,
                                                    poll |-> lingering[k].poll + 1]]
      BY <1>1, <2>3 DEF LingeringCheck
    <3>3. /\ [lingering[k] EXCEPT !.check = @ - 1] =
               [check |-> lingering[k].check - 1, poll |-> lingering[k].poll]
          /\ [check |-> lingering[k].check - 1, poll |-> lingering[k].poll] \in Lingerers
          /\ [check |-> lingering[k].check - 1, poll |-> lingering[k].poll + 1] \in Lingerers
      BY <1>1, <1>2, <3>1 DEF Lingerers
    <3> QED BY <1>1, <1>2, <3>1, <3>2, <3>3
  <2>4. ASSUME LingeringFetch(k) PROVE Lingers
    <3>1. /\ lingering[k].poll > 0
          /\ lingering' = [lingering EXCEPT ![k] = [lingering[k] EXCEPT !.poll = @ - 1]]
      BY <1>1, <2>4 DEF LingeringFetch
    <3>2. /\ [lingering[k] EXCEPT !.poll = @ - 1] =
               [check |-> lingering[k].check, poll |-> lingering[k].poll - 1]
          /\ [check |-> lingering[k].check, poll |-> lingering[k].poll - 1] \in Lingerers
      BY <1>1, <1>2, <3>1 DEF Lingerers
    <3>3. lingering[k].check + (lingering[k].poll - 1) <= MaxLingering
      BY <1>1, <1>2
    <3> QED BY <3>1, <3>2, <3>3
  <2> QED BY <1>4, <2>1, <2>2, <2>3, <2>4
<1>6. CASE WaitOpStep(k)
  <2>1. failures' = failures \/ Fail
    BY <1>6 DEF WaitOpStep, ReceiveCtxDone, ReceiveExit, ReceiveErr, PrepareDone, OpDone,
                ReceiveTimeout, HandleTaskLoop, Update, TimedOut
  <2>2. UNCHANGED <<crashes, backup, saved>> /\ (lingering' = lingering \/ ReceiveTimeout(k))
    BY <1>6 DEF WaitOpStep, ReceiveCtxDone, ReceiveExit, ReceiveErr, PrepareDone, OpDone,
                ReceiveTimeout, HandleTaskLoop, Update
  <2>3. ASSUME ReceiveTimeout(k) PROVE Lingers
    <3>1. lingering[k].check + lingering[k].poll < MaxLingering
      BY <2>3 DEF ReceiveTimeout
    <3>2. \/ lingering' = [lingering EXCEPT ![k] = [lingering[k] EXCEPT !.check = @ + 1]]
          \/ lingering' = [lingering EXCEPT ![k] = [lingering[k] EXCEPT !.poll = @ + 1]]
          \/ lingering' = lingering
      BY <1>1, <2>3 DEF ReceiveTimeout
    <3>3. /\ [lingering[k] EXCEPT !.check = @ + 1] =
               [check |-> lingering[k].check + 1, poll |-> lingering[k].poll]
          /\ [lingering[k] EXCEPT !.poll = @ + 1] =
               [check |-> lingering[k].check, poll |-> lingering[k].poll + 1]
          /\ [check |-> lingering[k].check + 1, poll |-> lingering[k].poll] \in Lingerers
          /\ [check |-> lingering[k].check, poll |-> lingering[k].poll + 1] \in Lingerers
      BY <1>1, <1>2, <3>1 DEF Lingerers
    <3> QED BY <1>1, <1>2, <3>1, <3>2, <3>3
  <2> QED BY <1>4, <2>1, <2>2, <2>3
<1>7. CASE ReconcileStep(k)
  <2>1. failures' = failures \/ Fail
    BY <1>7 DEF ReconcileStep, Listen, UpdateStatusBeforeReconcile, Reconcile, Correct, StartOp,
                LeaveLoop, AbnormalRetry, Teardown, UpdateStatusAfterReconcile,
                TeardownPipeline
  <2>2. UNCHANGED <<crashes, backup, lingering>> /\ (saved' = saved \/ saved' = saved \cup {k})
    BY <1>7 DEF ReconcileStep, Listen, UpdateStatusBeforeReconcile, Reconcile, Correct, StartOp,
                LeaveLoop, AbnormalRetry, Teardown, UpdateStatusAfterReconcile,
                TeardownPipeline
  <2> QED BY <1>4, <2>1, <2>2
<1>8. CASE CancelStep(k) \/ JobStep(k)
  <2>1. (failures' = failures \/ Fail) /\ UNCHANGED <<crashes, backup, lingering, saved>>
    BY <1>8 DEF CancelStep, CancelCheck, CancelListTasks, CancelExecutor,
                CancelReadTask, CancelWriteTask, CancelPipeline,
                JobStep
  <2> QED BY <1>4, <2>1
<1> QED BY <1>5, <1>6, <1>7, <1>8 DEF TaskStep

(* What a step of a task does in the cluster, and to what it reports and   *)
(* is about to write.                                                      *)
LEMMA OtherSteps ==
  ASSUME TypeInv, NEW k \in Keys, TaskStep(k)
  PROVE  /\ Touches(job, job', k, [Looped -> JobStates])
         /\ Touches(calc, calc', k, [status : PipelineStatuses, skip : BOOLEAN])
         /\ Reports(k)'
<1> USE DEF rowVars, runVars, opVars, clusterVars, cancelVars, storedVars
<1>1. /\ job \in [Keys -> [Looped -> JobStates]]
      /\ mem[k].looped \in Looped /\ row[k].looped \in Looped /\ seen[k].looped \in Looped
      /\ calc \in [Keys -> [status : PipelineStatuses, skip : BOOLEAN]]
      /\ "none" \in JobStates /\ "pending" \in JobStates /\ "running" \in JobStates
      /\ "ok" \in JobStates /\ "failed" \in JobStates
      /\ op \in [Keys -> Ops] /\ at \in [Keys -> OpPlaces] /\ res \in [Keys -> Results]
  BY DEF TypeInv, TaskRunTypeOK, Rows, JobStates, Results, OpPlaces
<1>2. ASSUME NEW i \in Looped, NEW s \in JobStates, job' = [job EXCEPT ![k][i] = s]
      PROVE  Touches(job, job', k, [Looped -> JobStates])
  BY <1>1, <1>2 DEF Touches
<1>3. Touches(job, job', k, [Looped -> JobStates])
  <2>1. \/ job' = job
        \/ \E i \in Looped, s \in JobStates : job' = [job EXCEPT ![k][i] = s]
    <3>1. CASE OpStep(k)
      <4>1. job' = job \/ job' = StartedJob(k)
        BY <3>1 DEF OpStep, CheckPipeline, ProcessPrepare, ProcessCreate, StartPopped,
                    StartRefused, ExecutorStart, ProcessQueue, ProcessWait, FetchLatestTask,
                    LingeringCheck, LingeringFetch
      <4>2. StartedJob(k) = [job EXCEPT ![k][mem[k].looped] =
               IF job[k][mem[k].looped] = "none" THEN "pending" ELSE job[k][mem[k].looped]]
        BY <1>1 DEF StartedJob
      <4> QED BY <1>1, <4>1, <4>2
    <3>2. CASE WaitOpStep(k)
      BY <1>1, <3>2 DEF WaitOpStep, ReceiveCtxDone, ReceiveExit, ReceiveErr, PrepareDone, OpDone,
                ReceiveTimeout, HandleTaskLoop, Update, TimedOut, CancelledJob
    <3>3. CASE ReconcileStep(k)
      BY <3>3 DEF ReconcileStep, Listen, UpdateStatusBeforeReconcile, Reconcile, Correct, StartOp,
                LeaveLoop, AbnormalRetry, Teardown, UpdateStatusAfterReconcile,
                TeardownPipeline
    <3>4. CASE CancelStep(k) \/ JobStep(k)
      BY <1>1, <3>4 DEF CancelStep, CancelCheck, CancelListTasks, CancelExecutor,
                        CancelReadTask, CancelWriteTask,
                        CancelPipeline, JobStep, CancelledJob
    <3> QED BY <3>1, <3>2, <3>3, <3>4 DEF TaskStep
  <2>2. CASE job' = job
    BY <1>1, <2>2 DEF Touches
  <2> QED BY <1>2, <2>1, <2>2
<1>4. Touches(calc, calc', k, [status : PipelineStatuses, skip : BOOLEAN])
  <2>1. calc' = calc \/ UpdateStatusAfterReconcile(k)
    BY DEF TaskStep, OpStep, CheckPipeline, ProcessPrepare, ProcessCreate, StartPopped,
           StartRefused, ExecutorStart, ProcessQueue, ProcessWait, FetchLatestTask,
           LingeringCheck, LingeringFetch, WaitOpStep, ReceiveCtxDone, ReceiveExit, ReceiveErr,
           PrepareDone, OpDone, ReceiveTimeout, HandleTaskLoop, Update, ReconcileStep, Listen,
           UpdateStatusBeforeReconcile, Reconcile, Correct, StartOp, LeaveLoop, AbnormalRetry,
           Teardown, TeardownPipeline, CancelStep, CancelCheck, CancelListTasks, CancelExecutor,
           CancelReadTask,
           CancelWriteTask, CancelPipeline, JobStep
  <2> DEFINE status == IF IsEnd(pipeline[k]) THEN pipeline[k]
                       ELSE CalculatePipelineStatus(k \in saved, row[k].status)
             skip == k \in saved /\ row[k].status \in {"Analyzed", "Born"}
  <2>2. calc' = calc \/ calc' = [calc EXCEPT ![k] = [status |-> status, skip |-> skip]]
    BY <2>1 DEF UpdateStatusAfterReconcile
  <2>3. status \in PipelineStatuses
    <3>1. pipeline[k] \in PipelineStatuses
      BY DEF TypeInv, TaskRunTypeOK
    <3>2. CalculatePipelineStatus(k \in saved, row[k].status) \in PipelineStatuses
      BY DEF CalculatePipelineStatus, PipelineStatuses
    <3> QED BY <3>1, <3>2
  <2>4. skip \in BOOLEAN
    OBVIOUS
  <2> HIDE DEF status, skip
  <2>5. [status |-> status, skip |-> skip] \in [status : PipelineStatuses, skip : BOOLEAN]
    BY <2>3, <2>4
  <2> QED BY <1>1, <2>2, <2>5, Zenon DEF Touches
<1>5. Reports(k)'
  <2> USE DEF Reports
  <2>1. Reports(k)
    BY DEF TypeInv, WaitReports
  <2>2. CASE OpStep(k)
    <3>1. JobOf(k) \in JobStates
      BY DEF TypeInv, TaskRunTypeOK, Rows, JobOf
    <3>2. ~Live(JobOf(k)) => JobStatus(JobOf(k)) # "done"
      BY <3>1, JobStatusType
    <3>3. CASE ProcessWait(k)
      BY <1>1, <3>2, <3>3 DEF ProcessWait, Report, LoopEnds, Hang
    <3>4. CASE FetchLatestTask(k)
      BY <1>1, <2>1, <3>4 DEF FetchLatestTask
    <3>5. CASE ExecutorStart(k)
      BY <1>1, <2>1, <3>5 DEF ExecutorStart, Report
    <3> QED BY <1>1, <2>1, <2>2, <3>3, <3>4, <3>5
               DEF OpStep, CheckPipeline, ProcessPrepare, ProcessCreate, StartPopped,
                   StartRefused, ProcessQueue, LingeringCheck, LingeringFetch, Report, LoopEnds,
                   Hang, Processing
  <2>3. CASE WaitOpStep(k)
    BY <1>1, <2>1, <2>3
       DEF WaitOpStep, ReceiveCtxDone, ReceiveExit, ReceiveErr, PrepareDone, OpDone,
           ReceiveTimeout, HandleTaskLoop, Update, Received
  <2>4. CASE ReconcileStep(k)
    BY <1>1, <2>1, <2>4
       DEF ReconcileStep, Listen, UpdateStatusBeforeReconcile, Reconcile, Correct, StartOp,
           LeaveLoop, AbnormalRetry, Teardown, UpdateStatusAfterReconcile, TeardownPipeline
  <2>5. CASE CancelStep(k) \/ JobStep(k)
    BY <2>1, <2>5 DEF CancelStep, CancelCheck, CancelListTasks, CancelExecutor,
                      CancelReadTask, CancelWriteTask,
                      CancelPipeline, JobStep
  <2> QED BY <2>2, <2>3, <2>4, <2>5 DEF TaskStep
<1> QED BY <1>3, <1>4, <1>5

(* Only a timeout that was answered Unknown forgets a job, that of the     *)
(* iteration in the row, and none is remembered again.                     *)
LEMMA ForgottenSteps ==
  ASSUME TypeInv, NEW k \in Keys, TaskStep(k)
  PROVE  /\ Touches(forgotten, forgotten', k, SUBSET Looped)
         /\ forgotten[k] \subseteq forgotten'[k]
<1> USE DEF rowVars, runVars, opVars, clusterVars, cancelVars, storedVars
<1>1. forgotten \in [Keys -> SUBSET Looped] /\ row[k].looped \in Looped
  BY DEF TypeInv, TaskRunTypeOK, Rows
<1>2. forgotten' = forgotten \/ ReceiveTimeout(k)
  BY DEF TaskStep, OpStep, CheckPipeline, ProcessPrepare, ProcessCreate, StartPopped,
         StartRefused, ExecutorStart, ProcessQueue, ProcessWait, FetchLatestTask,
         LingeringCheck, LingeringFetch, WaitOpStep, ReceiveCtxDone, ReceiveExit, ReceiveErr,
         PrepareDone, OpDone, HandleTaskLoop, Update, ReconcileStep, Listen,
         UpdateStatusBeforeReconcile, Reconcile, Correct, StartOp, LeaveLoop, AbnormalRetry,
         Teardown, UpdateStatusAfterReconcile, TeardownPipeline, CancelStep, CancelCheck,
         CancelListTasks, CancelExecutor, CancelReadTask, CancelWriteTask, CancelPipeline, JobStep
<1>3. \/ forgotten' = forgotten
      \/ forgotten' = [forgotten EXCEPT ![k] = @ \cup {row[k].looped}]
  BY <1>2 DEF ReceiveTimeout, TimedOut
<1> QED BY <1>1, <1>3 DEF Touches

(* The throttler: start pops the task, prepare inserts it and Teardown     *)
(* takes it out again.                                                     *)
Inserts(k) ==
  /\ QueuesOf(k) # {}
  /\ \E t \in Times : AddKeyToQueues(k, InsertRequests(k), t)

LEMMA ThrottlerSteps ==
  ASSUME NEW k \in Keys, TaskStep(k)
  PROVE  \/ UNCHANGED throttlerVars
         \/ StartPopped(k) /\ PopPending(k)
         \/ PrepareDone(k) /\ Inserts(k)
         \/ Teardown(k) /\ IsEnd(mem[k].status) /\ PopProcessing(k)
<1>1. CASE OpStep(k)
  BY <1>1 DEF OpStep, CheckPipeline, ProcessPrepare, ProcessCreate, StartPopped, StartRefused,
              ExecutorStart, ProcessQueue, ProcessWait, FetchLatestTask, LingeringCheck,
              LingeringFetch
<1>2. CASE WaitOpStep(k)
  <2>1. CASE PrepareDone(k)
    <3>1. UNCHANGED throttlerVars \/ InsertIntoQueue(k)
      BY <2>1 DEF PrepareDone
    <3> QED BY <2>1, <3>1 DEF InsertIntoQueue, Inserts
  <2> QED BY <1>2, <2>1 DEF WaitOpStep, ReceiveCtxDone, ReceiveExit, ReceiveErr, OpDone,
              ReceiveTimeout, HandleTaskLoop, Update
<1>3. CASE ReconcileStep(k)
  <2>1. CASE Teardown(k)
    BY <2>1 DEF Teardown, TeardownPriorityQueue
  <2> QED BY <1>3, <2>1 DEF ReconcileStep, Listen, UpdateStatusBeforeReconcile, Reconcile,
              Correct, StartOp, LeaveLoop, AbnormalRetry, UpdateStatusAfterReconcile,
              TeardownPipeline
<1>4. CASE CancelStep(k) \/ JobStep(k)
  BY <1>4 DEF CancelStep, CancelCheck, CancelListTasks, CancelExecutor,
                CancelReadTask, CancelWriteTask, CancelPipeline,
              JobStep
<1> QED BY <1>1, <1>2, <1>3, <1>4 DEF TaskStep

LEMMA ThrottlerCalls ==
  ASSUME NEW k \in Keys, TaskStep(k)
  PROVE  [ThrottlerNext]_throttlerVars
<1>1. ASSUME Inserts(k) PROVE ThrottlerNext
  BY <1>1, InsertRequestsType DEF Inserts, ThrottlerNext
<1> QED BY <1>1, ThrottlerSteps DEF ThrottlerNext

LEMMA TaskStepType ==
  ASSUME TypeInv, NEW k \in Keys, TaskStep(k)
  PROVE  TypeInv'
<1>1. TypeOK'
  BY ThrottlerCalls, NextTypeOK DEF TypeInv, TaskRunTypeOK
<1>2. failures' \in 0 .. MaxFailures /\ saved' \subseteq Keys /\ UNCHANGED <<crashes, backup>>
  <2>1. /\ failures' = failures \/ Fail
        /\ UNCHANGED <<crashes, backup>>
        /\ saved' = saved \/ saved' = saved \cup {k}
    BY CountSteps
  <2>2. failures \in 0 .. MaxFailures /\ saved \subseteq Keys /\ MaxFailures \in Nat
    BY TaskRunAssumption DEF TypeInv, TaskRunTypeOK
  <2> QED BY <2>1, <2>2 DEF Fail
<1>3. lingering' \in [Keys -> Lingerers] /\ LingeringBound'
  BY CountSteps DEF TypeInv, LingeringBound, Touches
<1>4. WaitReports'
  <2>1. ASSUME NEW j \in Keys \ {k} PROVE Reports(j)'
    BY ControlSteps DEF TypeInv, WaitReports, Reports, Touches
  <2> QED BY <2>1, OtherSteps DEF WaitReports
<1>5. /\ pc' \in [Keys -> Places] /\ outcome' \in [Keys -> {"ok", "err", "exit"}]
      /\ op' \in [Keys -> Ops] /\ at' \in [Keys -> OpPlaces] /\ res' \in [Keys -> Results]
      /\ cancel' \in [Keys -> CancelPlaces]
  BY ControlSteps DEF Touches
<1>6. quitWait' \in [Keys -> BOOLEAN] /\ ctxDone' \in [Keys -> BOOLEAN]
  BY FlagSteps DEF Touches
<1>7. /\ row' \in [Keys -> Rows] /\ mem' \in [Keys -> Rows] /\ seen' \in [Keys -> Rows]
      /\ pipeline' \in [Keys -> PipelineStatuses]
  BY RowSteps DEF Touches
<1>8. /\ job' \in [Keys -> [Looped -> JobStates]]
      /\ calc' \in [Keys -> [status : PipelineStatuses, skip : BOOLEAN]]
      /\ forgotten' \in [Keys -> SUBSET Looped]
  BY OtherSteps, ForgottenSteps DEF Touches
<1>9. TaskRunTypeOK'
  BY <1>1, <1>2, <1>3, <1>5, <1>6, <1>7, <1>8
     DEF TypeInv, TaskRunTypeOK, Places, OpPlaces, CancelPlaces, Results, Lingerers
<1>10. BackupOK'
  BY <1>2 DEF TypeInv, BackupOK
<1> QED BY <1>3, <1>4, <1>9, <1>10 DEF TypeInv

LEMMA EngineStepType ==
  ASSUME TypeInv, BackupThrottler \/ Crash
  PROVE  TypeInv'
<1> USE DEF rowVars, runVars, opVars, clusterVars, cancelVars, storedVars
<1>1. CASE BackupThrottler
  <2>1. backup' \in Snapshots
    <3>1. Export \in Snapshots
      BY DEF TypeInv, TaskRunTypeOK, TypeOK, Export, Snapshots
    <3> QED BY <1>1, <3>1 DEF BackupThrottler
  <2>2. TypeOK'
    BY <1>1, NextTypeOK DEF BackupThrottler, TypeInv, TaskRunTypeOK
  <2>3. TaskRunTypeOK'
    BY <1>1, <2>2 DEF BackupThrottler, TypeInv, TaskRunTypeOK
  <2> QED BY <1>1, <2>1, <2>3 DEF BackupThrottler, TypeInv, BackupOK, LingeringBound, WaitReports,
                                 Reports
<1>2. CASE Crash
  <2>1. TypeOK'
    <3>1. CASE backup # NoBackup /\ Import(backup)
      <4>1. backup \in Snapshots
        BY <3>1 DEF TypeInv, BackupOK
      <4> QED BY <3>1, <4>1 DEF Snapshots, Import, TypeOK
    <3>2. CASE backup = NoBackup /\ ThrottlerInit'
      <4>1. (ThrottlerInit => TypeOK)'
        BY InitTypeOK, PTL
      <4> QED BY <3>2, <4>1
    <3> QED BY <1>2, <3>1, <3>2 DEF Crash, LoadThrottler, ThrottlerInit
  <2>2. /\ pc' \in [Keys -> Places] /\ at' \in [Keys -> OpPlaces]
        /\ cancel' \in [Keys -> CancelPlaces]
    BY <1>2 DEF Crash, TypeInv, TaskRunTypeOK, Places, OpPlaces, CancelPlaces
  <2>3. ctxDone' \in [Keys -> BOOLEAN]
    BY <1>2, Zenon DEF Crash
  <2>4. lingering' \in [Keys -> Lingerers] /\ LingeringBound'
    BY <1>2, TaskRunAssumption DEF Crash, Lingerers, LingeringBound
  <2>5. crashes' \in 0 .. MaxCrashes
    BY <1>2, TaskRunAssumption DEF Crash, TypeInv, TaskRunTypeOK
  <2>6. UNCHANGED <<row, pipeline, mem, outcome, quitWait, calc, op, res, job, failures, seen,
                    backup, saved, forgotten>>
    BY <1>2 DEF Crash
  <2>7. TaskRunTypeOK'
    BY <2>1, <2>2, <2>3, <2>4, <2>5, <2>6
       DEF TypeInv, TaskRunTypeOK, Places, OpPlaces, CancelPlaces, Lingerers
  <2>8. BackupOK' /\ WaitReports'
    BY <1>2, <2>6 DEF Crash, TypeInv, BackupOK, WaitReports, Reports
  <2> QED BY <2>4, <2>7, <2>8 DEF TypeInv
<1> QED BY <1>1, <1>2

LEMMA StutterType == TypeInv /\ UNCHANGED vars => TypeInv'
<1> SUFFICES ASSUME TypeInv, UNCHANGED vars PROVE TypeInv'
  OBVIOUS
<1> USE DEF vars, rowVars, runVars, opVars, clusterVars, cancelVars, storedVars
<1>1. TypeOK'
  BY NextTypeOK DEF TypeInv, TaskRunTypeOK
<1>2. TaskRunTypeOK'
  BY <1>1 DEF TypeInv, TaskRunTypeOK
<1> QED BY <1>2 DEF TypeInv, BackupOK, LingeringBound, WaitReports, Reports

LEMMA NextIsTaskStep ==
  Next <=> (\E k \in Keys : TaskStep(k)) \/ BackupThrottler \/ Crash
BY DEF Next, TaskStep

LEMMA TypeInductive == Spec => []TypeInv
<1>1. TypeInv /\ [Next]_vars => TypeInv'
  BY TaskStepType, EngineStepType, StutterType, NextIsTaskStep
<1> QED BY <1>1, InitType, PTL DEF Spec

(* tr.Task, the rows of the database, the operations, the cluster and the  *)
(* throttler keep their types through every error, timeout, loop, cancel   *)
(* and restart: every status is one that reconcileTask has an operation    *)
(* for or an end, wait ends with an end status, and a loop stays within    *)
(* its maximum.                                                            *)
THEOREM TaskRunTypeCorrect == Spec => []TaskRunTypeOK
<1>1. TypeInv => TaskRunTypeOK
  BY DEF TypeInv
<1> QED BY <1>1, TypeInductive, PTL

-----------------------------------------------------------------------------
(* A step of one task leaves the others alone, their places in the queues  *)
(* included.                                                               *)
LEMMA OtherTasks ==
  ASSUME TypeInv, NEW k \in Keys, TaskStep(k), NEW j \in Keys \ {k}
  PROVE  /\ pc'[j] = pc[j] /\ outcome'[j] = outcome[j] /\ op'[j] = op[j] /\ at'[j] = at[j]
         /\ res'[j] = res[j] /\ cancel'[j] = cancel[j]
         /\ quitWait'[j] = quitWait[j] /\ ctxDone'[j] = ctxDone[j]
         /\ row'[j] = row[j] /\ mem'[j] = mem[j] /\ seen'[j] = seen[j]
         /\ pipeline'[j] = pipeline[j] /\ calc'[j] = calc[j]
         /\ lingering'[j] = lingering[j] /\ job'[j] = job[j] /\ forgotten'[j] = forgotten[j]
         /\ j \in saved' <=> j \in saved
<1>1. saved' = saved \/ saved' = saved \cup {k}
  BY CountSteps
<1>2. j \in saved' <=> j \in saved
  BY <1>1
<1> QED BY <1>2, ControlSteps, FlagSteps, RowSteps, CountSteps, OtherSteps, ForgottenSteps
        DEF Touches

LEMMA OtherPlaces ==
  ASSUME TypeInv, NEW k \in Keys, TaskStep(k), NEW j \in Keys \ {k}
  PROVE  /\ \A q \in Queues : /\ InProcessing(q, j)' <=> InProcessing(q, j)
                              /\ InPending(q, j)' <=> InPending(q, j)
         /\ keyRelatedQueues'[j] = keyRelatedQueues[j]
<1>1. TypeOK /\ keyRelatedQueues \in [Keys -> SUBSET Queues]
  BY DEF TypeInv, TaskRunTypeOK, TypeOK
<1>2. keyRelatedQueues' \in [Keys -> SUBSET Queues]
  BY <1>1, ThrottlerCalls, NextTypeOK DEF TypeOK
<1>3. ASSUME NEW q \in Queues
      PROVE  /\ InProcessing(q, j)' <=> InProcessing(q, j)
             /\ InPending(q, j)' <=> InPending(q, j)
             /\ q \in keyRelatedQueues'[j] <=> q \in keyRelatedQueues[j]
  <2>1. CASE UNCHANGED throttlerVars
    BY <2>1 DEF throttlerVars, InProcessing, InPending
  <2>2. CASE PopPending(k)
    BY <1>1, <2>2, PopPendingEffect
  <2>3. CASE Inserts(k)
    <3>1. PICK t \in Times : AddKeyToQueues(k, InsertRequests(k), t)
      BY <2>3 DEF Inserts
    <3>2. InsertRequests(k) \in Requests
      BY <2>3, InsertRequestsType DEF Inserts
    <3> QED BY <1>1, <3>1, <3>2, AddKeyEffect
  <2>4. CASE PopProcessing(k)
    BY <1>1, <2>4, PopProcessingEffect
  <2> QED BY <2>1, <2>2, <2>3, <2>4, ThrottlerSteps
<1>4. keyRelatedQueues'[j] \subseteq Queues /\ keyRelatedQueues[j] \subseteq Queues
  BY <1>1, <1>2
<1> QED BY <1>3, <1>4
=============================================================================
