------------------------------ MODULE TaskRun ------------------------------
(***************************************************************************)
(* How the reconciler drives one task of a pipeline to its end             *)
(* (modules/pipeline/pipengine/reconciler: reconcile.go, task.go,          *)
(* taskrun, taskrun/taskop), composed with the task throttler and          *)
(* interleaved with the user's cancel request (services/pipelinesvc),      *)
(* task timeouts, platform errors, task loops and crashes of the engine.   *)
(*                                                                         *)
(* Each task is the only task of a pipeline of its own.  Two goroutines    *)
(* work on it and share tr.Task (mem): reconcileTask, which waits in       *)
(* waitOp, and the goroutine of the current operation (at), which runs     *)
(* Processing and reports to waitOp over unbuffered channels.  The row of  *)
(* the task in the database (row) is read and written by both and by the   *)
(* cancel request, with no transaction around a read and a later write.    *)
(***************************************************************************)
EXTENDS Throttler, Sequences

CONSTANTS
  Priority,     \* task -> priority.v1 of its action: <<[queue, concurrency, priority]>>
  LoopTasks,    \* the tasks with loop options
  MaxTimes,     \* loop strategy maxTimes
  TimeoutTasks, \* the tasks with a timeout
  CancelTasks,  \* the tasks whose pipeline the user may cancel
  UnknownTasks, \* the tasks whose executor may answer Unknown for a job it has
  MaxFailures,  \* bound on platform errors
  MaxCrashes,   \* bound on crashes of the engine
  MaxLingering, \* bound on goroutines of wait that outlive their waitOp
  NoBackup      \* nothing under the throttler's backup key in etcd

ASSUME TaskRunAssumption ==
  /\ LoopTasks \subseteq Keys
  /\ TimeoutTasks \subseteq Keys
  /\ CancelTasks \subseteq Keys
  /\ UnknownTasks \subseteq Keys
  /\ MaxTimes \in Nat \ {0}
  /\ MaxFailures \in Nat
  /\ MaxCrashes \in Nat
  /\ MaxLingering \in Nat
  /\ Priority \in [Keys -> Seq([queue : Queues, concurrency : Windows,
                                priority : Priorities])]
  /\ NoBackup \notin [queueByName : SUBSET Queues, processingWindow : [Queues -> Int],
                      pending : [Queues -> [Keys -> Item \cup {NoItem}]],
                      processing : [Queues -> SUBSET Keys],
                      keyRelatedQueues : [Keys -> SUBSET Queues]]

(* The statuses a task can have here.  StopByUser also stands for the      *)
(* NoNeedBySystem a cancel writes for a task that has not begun, which     *)
(* counts as failed, unlike that of a task its if skips (allowFailure);    *)
(* Failed also stands for the CreateError and the Error that               *)
(* WhenLogicError writes, which the old status replaces.  Unknown, an      *)
(* answer of the executor, is an end status as well (IsEndStatus).         *)
EndStatuses ==
  {"Success", "Failed", "Timeout", "StopByUser", "NoNeedBySystem",
   "AnalyzeFailed", "StartError", "Unknown"}
TaskStatuses == {"Analyzed", "Born", "Created", "Queue", "Running"} \cup EndStatuses
PipelineStatuses == {"Analyzed", "Queue", "Running", "Success", "Failed", "StopByUser"}

IsEnd(status) == status \in EndStatuses
CanCancel(status) == status \in {"Created", "Queue", "Running"}

Ops == {"prepare", "create", "start", "queue", "wait"}

(* The operation reconcileTask chooses for a status, and back.             *)
OpOf(status) ==
  CASE status = "Analyzed" -> "prepare"
    [] status = "Born" -> "create"
    [] status = "Created" -> "start"
    [] status = "Queue" -> "queue"
    [] status = "Running" -> "wait"

(* A mistake: a start that failed is tried again from the beginning.       *)
OldStatusStartOver(o) ==
  CASE o = "prepare" -> "Analyzed"
    [] o = "create" -> "Born"
    [] o = "start" -> "Analyzed"
    [] o = "queue" -> "Queue"
    [] o = "wait" -> "Running"
OldStatus(o) ==
  CASE o = "prepare" -> "Analyzed"
    [] o = "create" -> "Born"
    [] o = "start" -> "Created"
    [] o = "queue" -> "Queue"
    [] o = "wait" -> "Running"

(* The job of a task in the cluster, one for each loop iteration.          *)
JobStates == {"none", "pending", "running", "ok", "failed"}
Live(state) == state \in {"pending", "running"}

(* A mistake: a job the cluster does not know counts as done.              *)
JobStatusGoneIsSuccess(state) ==
  CASE state = "none" -> "Success"
    [] state = "pending" -> "Queue"
    [] state = "running" -> "Running"
    [] state = "ok" -> "Success"
    [] state = "failed" -> "Failed"

(* Executor.Status: a job the cluster does not know is a StartError.       *)
(* (An Error for a failed job is its Failed, but for the correction of the *)
(* status, which ignores it as it does Unknown.)                           *)
JobStatus(state) ==
  CASE state = "none" -> "StartError"
    [] state = "pending" -> "Queue"
    [] state = "running" -> "Running"
    [] state = "ok" -> "Success"
    [] state = "failed" -> "Failed"

(* For a job in a state it has no name for, or cannot tell, the executor   *)
(* answers Unknown: queue and wait ask again, the correction from the      *)
(* executor leaves the task alone, and create and start return an error.   *)
AnswersUnknown(k, state) == k \in UnknownTasks /\ state # "none"

VARIABLES
  row,       \* the task in the database: [status, looped]
  pipeline,  \* the status of its pipeline in the database
  mem,       \* tr.Task: [status, looped]
  pc,        \* where reconcile and reconcileTask are
  outcome,   \* how waitOp ended: "ok", "err" (platform error), "exit" (PExit)
  quitWait,  \* tr.QuitWaitTimeout
  ctxDone,   \* the context of the pipeline is cancelled
  calc,      \* what updateStatusAfterReconcile is about to write
  op,        \* the current operation
  at,        \* where its goroutine is
  res,       \* what it reports
  lingering, \* goroutines of wait whose waitOp timed out: [check, poll]
  job,       \* task -> loop iteration -> its job in the cluster
  failures,  \* platform errors so far
  cancel,    \* where the user's cancel request is
  seen,      \* the row of the task the cancel request read
  crashes,   \* crashes of the engine so far
  backup,    \* the throttler's backup in etcd
  saved,     \* tasks that have a row; row is what reconcile reads without one
  forgotten  \* history: the iterations whose timeout was answered Unknown

rowVars == <<row, pipeline>>
runVars == <<pc, outcome, quitWait, calc>>
opVars == <<op, at, res>>
clusterVars == <<job, failures>>
cancelVars == <<cancel, seen>>
storedVars == <<crashes, backup, saved, forgotten>>
vars == <<throttlerVars, rowVars, mem, runVars, ctxDone, opVars, lingering,
          clusterVars, cancelVars, storedVars>>

(* extra.loopOptions.loopedTimes; 0: the task has no loopOptions.          *)
Looped == 0 .. MaxTimes
Rows == [status : TaskStatuses, looped : Looped]
JobOf(k) == job[k][mem[k].looped]
QueuesOf(k) == {Priority[k][i].queue : i \in DOMAIN Priority[k]}

TaskRunTypeOK ==
  /\ TypeOK
  /\ row \in [Keys -> Rows]
  /\ pipeline \in [Keys -> PipelineStatuses]
  /\ mem \in [Keys -> Rows]
  /\ pc \in [Keys -> {"idle", "mark", "reconcile", "correct", "loop", "select",
                      "defer", "update", "retry", "teardown", "again", "finish",
                      "save", "done"}]
  /\ outcome \in [Keys -> {"ok", "err", "exit"}]
  /\ quitWait \in [Keys -> BOOLEAN]
  /\ ctxDone \in [Keys -> BOOLEAN]
  /\ calc \in [Keys -> [status : PipelineStatuses, skip : BOOLEAN]]
  /\ op \in [Keys -> Ops]
  /\ at \in [Keys -> {"none", "check", "proc", "exec", "fetch", "send"}]
  /\ res \in [Keys -> EndStatuses \cup {"done", "nil", "err", "exit"}]
  /\ lingering \in [Keys -> [check : 0 .. MaxLingering, poll : 0 .. MaxLingering]]
  /\ job \in [Keys -> [Looped -> JobStates]]
  /\ failures \in 0 .. MaxFailures
  /\ cancel \in [Keys -> {"idle", "list", "stop", "read", "write", "pipeline", "done"}]
  /\ seen \in [Keys -> Rows]
  /\ crashes \in 0 .. MaxCrashes
  /\ saved \subseteq Keys
  /\ forgotten \in [Keys -> SUBSET Looped]

Init ==
  /\ ThrottlerInit
  /\ row = [k \in Keys |-> [status |-> "Analyzed", looped |-> 0]]
  /\ pipeline = [k \in Keys |-> "Queue"]
  /\ mem = row
  /\ pc = [k \in Keys |-> "idle"]
  /\ outcome = [k \in Keys |-> "ok"]
  /\ quitWait = [k \in Keys |-> FALSE]
  /\ ctxDone = [k \in Keys |-> FALSE]
  /\ calc = [k \in Keys |-> [status |-> "Queue", skip |-> FALSE]]
  /\ op = [k \in Keys |-> "prepare"]
  /\ at = [k \in Keys |-> "none"]
  /\ res = [k \in Keys |-> "done"]
  /\ lingering = [k \in Keys |-> [check |-> 0, poll |-> 0]]
  /\ job = [k \in Keys |-> [i \in Looped |-> "none"]]
  /\ failures = 0
  /\ cancel = [k \in Keys |-> "idle"]
  /\ seen = row
  /\ crashes = 0
  /\ backup = NoBackup
  /\ saved = {}
  /\ forgotten = [k \in Keys |-> {}]

(* A platform error: the executor, the cluster, the database or another    *)
(* service fails.                                                          *)
Fail == failures < MaxFailures /\ failures' = failures + 1

-----------------------------------------------------------------------------
(* Listen: an ended pipeline is not reconciled; another one is marked as   *)
(* running, from what was read before, and gets a context of its own.      *)
Listen(k) ==
  /\ pc[k] = "idle"
  /\ pc' = [pc EXCEPT ![k] = CASE IsEnd(pipeline[k]) -> "done"
                               [] pipeline[k] = "Running" -> "reconcile"
                               [] OTHER -> "mark"]
  /\ ctxDone' = [ctxDone EXCEPT ![k] = FALSE]
  /\ UNCHANGED <<throttlerVars, rowVars, mem, outcome, quitWait, calc, opVars,
                 lingering, clusterVars, cancelVars, storedVars>>

(* When the write fails Listen gives the pipeline up.                      *)
UpdateStatusBeforeReconcile(k) ==
  /\ pc[k] = "mark"
  /\ \/ /\ pipeline' = [pipeline EXCEPT ![k] = "Running"]
        /\ pc' = [pc EXCEPT ![k] = "reconcile"]
        /\ UNCHANGED failures
     \/ /\ Fail
        /\ pc' = [pc EXCEPT ![k] = "done"]
        /\ UNCHANGED pipeline
  /\ UNCHANGED <<throttlerVars, row, mem, outcome, quitWait, calc, ctxDone, opVars,
                 lingering, job, cancelVars, storedVars>>

(* reconcile: pick the task up with its latest row, creating it in the     *)
(* database (saveTask) if it has none.  The recursive call                 *)
(* ("again") returns at once when the context is cancelled, and its error  *)
(* is dropped; that of the call by Listen makes Listen try again.          *)
Reconcile(k) ==
  /\ pc[k] \in {"reconcile", "again"}
  /\ \/ /\ ~ctxDone[k]
        /\ mem' = [mem EXCEPT ![k] = row[k]]
        /\ quitWait' = [quitWait EXCEPT ![k] = FALSE]
        /\ pc' = [pc EXCEPT ![k] = IF IsEnd(row[k].status) THEN "finish" ELSE "correct"]
        /\ outcome' = [outcome EXCEPT ![k] = "ok"]
        /\ saved' = saved \cup {k}
        /\ UNCHANGED failures
     \/ /\ ctxDone[k]
        /\ pc' = [pc EXCEPT ![k] = "finish"]
        /\ outcome' = [outcome EXCEPT ![k] = "ok"]
        /\ UNCHANGED <<mem, quitWait, failures, saved>>
     \/ /\ ~ctxDone[k] /\ Fail
        /\ pc' = [pc EXCEPT ![k] = "finish"]
        /\ outcome' = [outcome EXCEPT ![k] = IF pc[k] = "reconcile" THEN "err" ELSE "ok"]
        /\ UNCHANGED <<mem, quitWait, saved>>
  /\ UNCHANGED <<throttlerVars, rowVars, calc, ctxDone, opVars, lingering, job,
                 cancelVars, crashes, backup, forgotten>>

(* A status that differs from the executor's is corrected, unless that is  *)
(* an abnormal one (no job, or Unknown) or cannot be read.                 *)
Correct(k) ==
  /\ pc[k] = "correct"
  /\ \/ /\ JobOf(k) # "none" /\ mem[k].status # JobStatus(JobOf(k))
        /\ mem' = [mem EXCEPT ![k].status = JobStatus(JobOf(k))]
        /\ row' = [row EXCEPT ![k] = mem'[k]]
        /\ UNCHANGED failures
     \/ /\ \/ JobOf(k) = "none" \/ mem[k].status = JobStatus(JobOf(k))
           \/ AnswersUnknown(k, JobOf(k))
        /\ UNCHANGED <<mem, row, failures>>
     \/ Fail /\ UNCHANGED <<mem, row>>
  /\ pc' = [pc EXCEPT ![k] = "loop"]
  /\ UNCHANGED <<throttlerVars, pipeline, outcome, quitWait, calc, ctxDone, opVars, lingering,
                 job, cancelVars, storedVars>>

(* reconcileTask: the head of its loop.                                    *)
StartOp(k) ==
  /\ pc[k] = "loop"
  /\ outcome[k] # "exit" /\ ~IsEnd(mem[k].status)
  /\ pc' = [pc EXCEPT ![k] = "select"]
  /\ outcome' = [outcome EXCEPT ![k] = "ok"]
  /\ op' = [op EXCEPT ![k] = OpOf(mem[k].status)]
  /\ at' = [at EXCEPT ![k] = "check"]
  /\ UNCHANGED <<throttlerVars, rowVars, mem, quitWait, calc, ctxDone, res, lingering,
                 clusterVars, cancelVars, storedVars>>

LeaveLoop(k) ==
  /\ pc[k] = "loop"
  /\ outcome[k] = "exit" \/ IsEnd(mem[k].status)
  /\ pc' = [pc EXCEPT ![k] = "teardown"]
  /\ UNCHANGED <<throttlerVars, rowVars, mem, outcome, quitWait, calc, ctxDone, opVars,
                 lingering, clusterVars, cancelVars, storedVars>>

-----------------------------------------------------------------------------
(* TaskRun.Do: the goroutine of the operation.                             *)

(* The pipeline already ended: cancel its context and leave.               *)
CheckPipeline(k) ==
  /\ at[k] = "check"
  /\ IF IsEnd(pipeline[k])
     THEN /\ ctxDone' = [ctxDone EXCEPT ![k] = TRUE]
          /\ at' = [at EXCEPT ![k] = "none"]
     ELSE /\ at' = [at EXCEPT ![k] = "proc"]
          /\ UNCHANGED ctxDone
  /\ UNCHANGED <<throttlerVars, rowVars, mem, runVars, op, res, lingering,
                 clusterVars, cancelVars, storedVars>>

Processing(k, o) == at[k] = "proc" /\ op[k] = o

Report(k, result) ==
  /\ at' = [at EXCEPT ![k] = "fetch"]
  /\ res' = [res EXCEPT ![k] = result]

(* prepare does nothing; create finds the job known to the executor.       *)
ProcessPrepare(k) ==
  /\ Processing(k, "prepare")
  /\ Report(k, "done")
  /\ UNCHANGED <<throttlerVars, rowVars, mem, runVars, ctxDone, op, lingering,
                 clusterVars, cancelVars, storedVars>>

ProcessCreate(k) ==
  /\ Processing(k, "create")
  /\ \/ Report(k, "done") /\ UNCHANGED failures
     \/ Report(k, "err") /\ Fail
  /\ UNCHANGED <<throttlerVars, rowVars, mem, runVars, ctxDone, op, lingering,
                 job, cancelVars, storedVars>>

(* start polls PopPending until it succeeds, and nothing else ends that    *)
(* loop; when it fails it appends a message to the latest row (the first   *)
(* time only; to read the row again changes nothing that start uses).      *)
StartPopped(k) ==
  /\ Processing(k, "start")
  /\ PopPending(k)
  /\ at' = [at EXCEPT ![k] = "exec"]
  /\ UNCHANGED <<rowVars, mem, runVars, ctxDone, op, res, lingering,
                 clusterVars, cancelVars, storedVars>>

StartRefused(k) ==
  /\ Processing(k, "start")
  /\ ~PopPendingSucceeds(k)
  /\ mem' = [mem EXCEPT ![k] = row[k]]
  /\ UNCHANGED <<throttlerVars, rowVars, runVars, ctxDone, opVars, lingering,
                 clusterVars, cancelVars, storedVars>>

(* Executor.Start creates the job unless the cluster has it.  The answer   *)
(* may be lost after the job was created.                                  *)
StartedJob(k) ==
  [job EXCEPT ![k][mem[k].looped] = IF @ = "none" THEN "pending" ELSE @]

ExecutorStart(k) ==
  /\ at[k] = "exec"
  /\ \/ /\ Report(k, "done")
        /\ job' = StartedJob(k)
        /\ UNCHANGED failures
     \/ /\ Report(k, "err") /\ Fail
        /\ job' \in {job, StartedJob(k)}
  /\ UNCHANGED <<throttlerVars, rowVars, mem, runVars, ctxDone, op, lingering,
                 cancelVars, storedVars>>

(* A cancelled context ends the helper goroutine of queue and wait, and    *)
(* nobody receives what the deferred function of Processing then sends on  *)
(* the stop channel: the operation never reports.                          *)
Hang(k) ==
  /\ at' = [at EXCEPT ![k] = "none"]
  /\ UNCHANGED res

LoopEnds(k, result) == Report(k, result) \/ (ctxDone[k] /\ Hang(k))

(* queue polls until the job runs or has ended, and while it waits reads   *)
(* the latest row (AppendLastMsg); a cancelled context ends the loop,      *)
(* unless the answer is Unknown.                                           *)
ProcessQueue(k) ==
  /\ Processing(k, "queue")
  /\ \/ JobOf(k) # "pending" /\ LoopEnds(k, "done") /\ UNCHANGED <<mem, failures>>
     \/ /\ JobOf(k) = "pending" \/ AnswersUnknown(k, JobOf(k))
        /\ mem' = [mem EXCEPT ![k] = row[k]]
        /\ UNCHANGED <<at, res, failures>>
     \/ Fail /\ LoopEnds(k, "err") /\ UNCHANGED mem
     \/ JobOf(k) = "pending" /\ ctxDone[k] /\ Hang(k) /\ UNCHANGED <<mem, failures>>
  /\ UNCHANGED <<throttlerVars, rowVars, runVars, ctxDone, op, lingering,
                 job, cancelVars, storedVars>>

(* wait polls until the job has ended, and after an answer Unknown polls   *)
(* again; QuitWaitTimeout, which only a loop resets, ends it with no       *)
(* status.                                                                 *)
ProcessWait(k) ==
  /\ Processing(k, "wait")
  /\ \/ quitWait[k] /\ LoopEnds(k, "nil") /\ UNCHANGED failures
     \/ /\ ~quitWait[k]
        /\ \/ ~Live(JobOf(k)) /\ LoopEnds(k, JobStatus(JobOf(k))) /\ UNCHANGED failures
           \/ Fail /\ LoopEnds(k, "err")
           \/ Live(JobOf(k)) /\ ctxDone[k] /\ Hang(k) /\ UNCHANGED failures
  /\ UNCHANGED <<throttlerVars, rowVars, mem, runVars, ctxDone, op, lingering,
                 job, cancelVars, storedVars>>

(* handleProcessingResult: read the latest row, then offer the result.     *)
FetchLatestTask(k) ==
  /\ at[k] = "fetch"
  /\ mem' = [mem EXCEPT ![k] = row[k]]
  /\ at' = [at EXCEPT ![k] = "send"]
  /\ res' = [res EXCEPT ![k] = IF IsEnd(row[k].status) THEN "exit" ELSE @]
  /\ UNCHANGED <<throttlerVars, rowVars, runVars, ctxDone, op, lingering,
                 clusterVars, cancelVars, storedVars>>

(* The same two steps of a goroutine whose waitOp timed out; its send then *)
(* blocks for ever.  It hangs before it reads the row if the context is    *)
(* cancelled or the pipeline's exit channel closed.                        *)
LingeringCheck(k) ==
  /\ lingering[k].check > 0
  /\ IF IsEnd(pipeline[k])
     THEN /\ ctxDone' = [ctxDone EXCEPT ![k] = TRUE]
          /\ lingering' = [lingering EXCEPT ![k].check = @ - 1]
     ELSE /\ lingering' = [lingering EXCEPT ![k] = [check |-> @.check - 1,
                                                    poll |-> @.poll + 1]]
          /\ UNCHANGED ctxDone
  /\ UNCHANGED <<throttlerVars, rowVars, mem, runVars, opVars,
                 clusterVars, cancelVars, storedVars>>

LingeringFetch(k) ==
  /\ lingering[k].poll > 0
  /\ \/ mem' = [mem EXCEPT ![k] = row[k]]
     \/ /\ ctxDone[k] \/ pc[k] \in {"finish", "save", "done"}
        /\ UNCHANGED mem
  /\ lingering' = [lingering EXCEPT ![k].poll = @ - 1]
  /\ UNCHANGED <<throttlerVars, rowVars, runVars, ctxDone, opVars,
                 clusterVars, cancelVars, storedVars>>

-----------------------------------------------------------------------------
(* waitOp: what its select receives.                                       *)

ReceiveCtxDone(k) ==
  /\ pc[k] = "select" /\ ctxDone[k]
  /\ outcome' = [outcome EXCEPT ![k] = "exit"]
  /\ pc' = [pc EXCEPT ![k] = "defer"]
  /\ UNCHANGED <<throttlerVars, rowVars, mem, quitWait, calc, ctxDone, opVars, lingering,
                 clusterVars, cancelVars, storedVars>>

Received(k) ==
  /\ pc[k] = "select" /\ at[k] = "send"
  /\ pc' = [pc EXCEPT ![k] = "defer"]
  /\ at' = [at EXCEPT ![k] = "none"]

ReceiveExit(k) ==
  /\ Received(k) /\ res[k] = "exit"
  /\ UNCHANGED <<throttlerVars, rowVars, mem, outcome, quitWait, calc, ctxDone, op, res,
                 lingering, clusterVars, cancelVars, storedVars>>

(* WhenLogicError: an error status, which the deferred function of waitOp  *)
(* sees before it restores the old one.                                    *)
ReceiveErr(k) ==
  /\ Received(k) /\ res[k] = "err"
  /\ outcome' = [outcome EXCEPT ![k] = "err"]
  /\ mem' = [mem EXCEPT ![k].status =
               CASE op[k] = "prepare" -> "AnalyzeFailed"
                 [] op[k] = "start" -> "StartError"
                 [] OTHER -> "Failed"]
  /\ UNCHANGED <<throttlerVars, rowVars, quitWait, calc, ctxDone, op, res, lingering,
                 clusterVars, cancelVars, storedVars>>

(* insertIntoQueue: the requests point at the loop variable, so all carry  *)
(* the concurrency of the last entry.  Every entry names a queue.          *)
InsertRequests(k) ==
  [q \in QueuesOf(k) |->
     LET last == CHOOSE i \in DOMAIN Priority[k] :
                   /\ Priority[k][i].queue = q
                   /\ \A j \in DOMAIN Priority[k] : Priority[k][j].queue = q => j <= i
     IN [priority |-> Priority[k][last].priority,
         window |-> Priority[k][Len(Priority[k])].concurrency]]

(* No two tasks read the clock in the same nanosecond.                     *)
FreshTime(k, t) ==
  \A j \in Keys \ {k}, q \in Queues :
    InPending(q, j) => pending[q][j].creationTime # t

InsertIntoQueue(k) ==
  IF QueuesOf(k) = {} THEN UNCHANGED throttlerVars
  ELSE \E t \in Times : FreshTime(k, t) /\ AddKeyToQueues(k, InsertRequests(k), t)

(* The loop options prepare gives a task that has none.                    *)
LoopOptions(k) == IF k \in LoopTasks /\ mem[k].looped = 0 THEN 1 ELSE mem[k].looped

(* prepare.WhenDone.  makeTaskRun leaves an ended task alone; the if of    *)
(* the task may skip it; then come the loop options and last the queues.   *)
(* An invalid task (or if) fails and a failing service asks for a retry,   *)
(* before or after the loop options are there.                             *)
PrepareDone(k) ==
  /\ Received(k) /\ res[k] = "done" /\ op[k] = "prepare"
  /\ \/ /\ IsEnd(mem[k].status)
        /\ UNCHANGED <<throttlerVars, mem, outcome, failures>>
     \/ /\ ~IsEnd(mem[k].status)
        /\ InsertIntoQueue(k)
        /\ mem' = [mem EXCEPT ![k] = [status |-> "Born", looped |-> LoopOptions(k)]]
        /\ UNCHANGED <<outcome, failures>>
     \/ /\ ~IsEnd(mem[k].status)
        /\ mem' = [mem EXCEPT ![k].status = "NoNeedBySystem"]
        /\ UNCHANGED <<throttlerVars, outcome, failures>>
     \/ /\ ~IsEnd(mem[k].status)
        /\ \E looped \in {mem[k].looped, LoopOptions(k)} :
             mem' = [mem EXCEPT ![k] = [status |-> "AnalyzeFailed", looped |-> looped]]
        /\ \/ UNCHANGED <<outcome, failures>>
           \/ Fail /\ outcome' = [outcome EXCEPT ![k] = "err"]
        /\ UNCHANGED throttlerVars
  /\ UNCHANGED <<rowVars, quitWait, calc, ctxDone, op, res, lingering, job,
                 cancelVars, storedVars>>

(* WhenDone of create, start, queue and wait.                              *)
OpDone(k) ==
  /\ Received(k) /\ res[k] \notin {"exit", "err"} /\ op[k] # "prepare"
  /\ mem' = IF res[k] = "nil" THEN mem
            ELSE [mem EXCEPT ![k].status =
                    CASE op[k] = "create" -> "Created"
                      [] op[k] = "start" -> "Queue"
                      [] op[k] = "queue" -> "Running"
                      [] op[k] = "wait" -> res[k]]
  /\ UNCHANGED <<throttlerVars, rowVars, outcome, quitWait, calc, ctxDone, op, res,
                 lingering, clusterVars, cancelVars, storedVars>>

(* Executor.Cancel removes the job; a mistake would be to leave it.        *)
CancelledJobLeft(k, looped) == job
CancelledJob(k, looped) == [job EXCEPT ![k][looped] = "none"]

(* wait.WhenTimeout, after reading the latest row: the job may have ended  *)
(* meanwhile (FakeTimeout).  Unknown is an end status too, so that the     *)
(* task of a job that may well live ends without a cancel.  Otherwise, or  *)
(* when its status cannot be read, the job is cancelled, which may fail.   *)
TimedOut(k) ==
  LET looped == row[k].looped
      state == job[k][looped]
  IN \/ /\ ~Live(state)
        /\ mem' = [mem EXCEPT ![k] = [status |-> JobStatus(state), looped |-> looped]]
        /\ UNCHANGED <<job, outcome, quitWait, failures, forgotten>>
     \/ /\ AnswersUnknown(k, state)
        /\ mem' = [mem EXCEPT ![k] = [status |-> "Unknown", looped |-> looped]]
        /\ forgotten' = [forgotten EXCEPT ![k] = @ \cup {looped}]
        /\ UNCHANGED <<job, outcome, quitWait, failures>>
     \/ /\ mem' = [mem EXCEPT ![k] = [status |-> "Timeout", looped |-> looped]]
        /\ quitWait' = [quitWait EXCEPT ![k] = TRUE]
        /\ UNCHANGED forgotten
        /\ \/ /\ (Live(state) /\ UNCHANGED failures) \/ (~Live(state) /\ Fail)
              /\ job' = CancelledJob(k, looped)
              /\ UNCHANGED outcome
           \/ /\ Live(state) /\ Fail
              /\ outcome' = [outcome EXCEPT ![k] = "err"]
              /\ UNCHANGED job

ReceiveTimeout(k) ==
  /\ k \in TimeoutTasks
  /\ pc[k] = "select" /\ op[k] = "wait"
  /\ lingering[k].check + lingering[k].poll < MaxLingering
  /\ TimedOut(k)
  /\ lingering' = CASE at[k] = "check" -> [lingering EXCEPT ![k].check = @ + 1]
                     [] at[k] \in {"proc", "fetch"} -> [lingering EXCEPT ![k].poll = @ + 1]
                     [] OTHER -> lingering
  /\ pc' = [pc EXCEPT ![k] = "defer"]
  /\ at' = [at EXCEPT ![k] = "none"]
  /\ UNCHANGED <<throttlerVars, rowVars, calc, ctxDone, op, res, cancelVars, crashes,
                 backup, saved>>

-----------------------------------------------------------------------------
(* The deferred function of waitOp.  handleTaskLoop: an ended task whose   *)
(* pipeline has not ended may start over.  The status a platform error     *)
(* left counts as ended here, and is replaced by the old one only after.   *)

(* A mistake: the retry starts over from prepare.                          *)
RestoredStatusStartOver(k, out, status) == IF out = "err" THEN "Analyzed" ELSE status
RestoredStatus(k, out, status) == IF out = "err" THEN OldStatus(op[k]) ELSE status

(* Mistakes: a task that has not ended loops; one iteration too many.      *)
MayLoopAnyStatus(k) == ~IsEnd(pipeline[k]) /\ mem[k].looped > 0
BelowMaxTimesOneMore(k) == mem[k].looped <= MaxTimes

MayLoop(k) ==
  /\ IsEnd(mem[k].status)
  /\ ~IsEnd(pipeline[k])
  /\ mem[k].looped > 0

BelowMaxTimes(k) == mem[k].looped < MaxTimes

HandleTaskLoop(k) ==
  /\ pc[k] = "defer"
  /\ \/ /\ mem' = [mem EXCEPT ![k].status = RestoredStatus(k, outcome[k], @)]
        /\ UNCHANGED <<outcome, quitWait, failures>>
     \/ /\ MayLoop(k) /\ BelowMaxTimes(k)
        /\ mem' = [mem EXCEPT ![k] = [status |-> RestoredStatus(k, outcome[k], "Analyzed"),
                                      looped |-> @.looped + 1]]
        /\ quitWait' = [quitWait EXCEPT ![k] = FALSE]
        /\ UNCHANGED <<outcome, failures>>
     \/ /\ MayLoop(k) /\ Fail
        /\ mem' = [mem EXCEPT ![k].status = RestoredStatus(k, "err", @)]
        /\ outcome' = [outcome EXCEPT ![k] = "err"]
        /\ UNCHANGED quitWait
  /\ pc' = [pc EXCEPT ![k] = "update"]
  /\ UNCHANGED <<throttlerVars, rowVars, calc, ctxDone, opVars, lingering, job,
                 cancelVars, storedVars>>

(* tr.Update writes the whole row.                                         *)
Update(k) ==
  /\ pc[k] = "update"
  /\ row' = [row EXCEPT ![k] = mem[k]]
  /\ pc' = [pc EXCEPT ![k] = IF outcome[k] = "err" THEN "retry" ELSE "loop"]
  /\ UNCHANGED <<throttlerVars, pipeline, mem, outcome, quitWait, calc, ctxDone, opVars,
                 lingering, clusterVars, cancelVars, storedVars>>

(* resetTaskForAbnormalRetry: sleep, then write the row again.             *)
AbnormalRetry(k) ==
  /\ pc[k] = "retry"
  /\ row' = [row EXCEPT ![k] = mem[k]]
  /\ pc' = [pc EXCEPT ![k] = "loop"]
  /\ UNCHANGED <<throttlerVars, pipeline, mem, outcome, quitWait, calc, ctxDone, opVars,
                 lingering, clusterVars, cancelVars, storedVars>>

-----------------------------------------------------------------------------
(* After reconcileTask.                                                    *)

(* A mistake: only a successful task gives its places back.                *)
TeardownSuccessOnly(k) ==
  IF mem[k].status = "Success" /\ PopProcessingSucceeds(k)
  THEN PopProcessing(k) ELSE UNCHANGED throttlerVars

TeardownPriorityQueue(k) ==
  IF IsEnd(mem[k].status) /\ PopProcessingSucceeds(k)
  THEN PopProcessing(k) ELSE UNCHANGED throttlerVars

Teardown(k) ==
  /\ pc[k] = "teardown"
  /\ TeardownPriorityQueue(k)
  /\ pc' = [pc EXCEPT ![k] = "again"]
  /\ UNCHANGED <<rowVars, mem, outcome, quitWait, calc, ctxDone, opVars, lingering,
                 clusterVars, cancelVars, storedVars>>

(* updateStatusAfterReconcile, for the only task of the pipeline: read the *)
(* pipeline and its task, then write what differs.  teardownPipeline,      *)
(* which writes an ended pipeline once more, skips a task that has not     *)
(* begun.  Then Listen is done, or begins again after a failed reconcile.  *)
(* A pipeline without tasks in the database is a success.                  *)
CalculatePipelineStatus(exists, status) ==
  CASE ~exists -> "Success"
    [] exists /\ status = "Analyzed" -> "Analyzed"
    [] exists /\ status \in {"Success", "NoNeedBySystem"} -> "Success"
    [] exists /\ status \in EndStatuses \ {"Success", "NoNeedBySystem"} -> "Failed"
    [] OTHER -> "Running"

Leave(k) == [pc EXCEPT ![k] = IF outcome[k] = "err" THEN "idle" ELSE "done"]

UpdateStatusAfterReconcile(k) ==
  /\ pc[k] = "finish"
  /\ \/ /\ calc' = [calc EXCEPT ![k] =
             [status |-> IF IsEnd(pipeline[k]) THEN pipeline[k]
                         ELSE CalculatePipelineStatus(k \in saved, row[k].status),
              skip |-> k \in saved /\ row[k].status \in {"Analyzed", "Born"}]]
        /\ pc' = [pc EXCEPT ![k] = "save"]
        /\ UNCHANGED failures
     \/ Fail /\ pc' = Leave(k) /\ UNCHANGED calc
  /\ UNCHANGED <<throttlerVars, rowVars, mem, outcome, quitWait, ctxDone, opVars,
                 lingering, job, cancelVars, storedVars>>

(* Each of the writes may fail; the others are made all the same.          *)
TeardownPipeline(k) ==
  LET written == [pipeline EXCEPT ![k] =
                    IF calc[k].status = "Running" THEN @ ELSE calc[k].status]
      skipped == IF IsEnd(calc[k].status) /\ calc[k].skip
                 THEN [row EXCEPT ![k].status = "NoNeedBySystem"] ELSE row
  IN /\ pc[k] = "save"
     /\ \/ pipeline' = written /\ row' = skipped /\ UNCHANGED failures
        \/ Fail /\ pipeline' \in {pipeline, written} /\ row' \in {row, skipped}
     /\ pc' = Leave(k)
     /\ UNCHANGED <<throttlerVars, mem, outcome, quitWait, calc, ctxDone, opVars,
                    lingering, job, cancelVars, storedVars>>

-----------------------------------------------------------------------------
(* The user's cancel request: check the pipeline, list its task, stop the  *)
(* job, then write the rows: task, pipeline.  (A task that has not begun   *)
(* becomes NoNeedBySystem, which counts as failed like StopByUser here.)   *)

CancelCheck(k) ==
  /\ k \in CancelTasks
  /\ cancel[k] = "idle" /\ CanCancel(pipeline[k])
  /\ cancel' = [cancel EXCEPT ![k] = "list"]
  /\ UNCHANGED <<throttlerVars, rowVars, mem, runVars, ctxDone, opVars, lingering,
                 clusterVars, seen, storedVars>>

CancelListTasks(k) ==
  /\ cancel[k] = "list"
  /\ cancel' = [cancel EXCEPT ![k] = IF CanCancel(row[k].status) THEN "stop" ELSE "read"]
  /\ seen' = [seen EXCEPT ![k] = row[k]]
  /\ UNCHANGED <<throttlerVars, rowVars, mem, runVars, ctxDone, opVars, lingering,
                 clusterVars, storedVars>>

CancelExecutor(k) ==
  /\ cancel[k] = "stop"
  /\ LET stopped == CancelledJob(k, seen[k].looped)
     IN \/ /\ job' = stopped
           /\ cancel' = [cancel EXCEPT ![k] = "read"]
           /\ UNCHANGED failures
        \/ /\ Fail
           /\ job' \in {job, stopped}
           /\ cancel' = [cancel EXCEPT ![k] = "idle"]
  /\ UNCHANGED <<throttlerVars, rowVars, mem, runVars, ctxDone, opVars, lingering,
                 seen, storedVars>>

CancelReadTask(k) ==
  /\ cancel[k] = "read"
  /\ cancel' = [cancel EXCEPT ![k] = IF k \in saved THEN "write" ELSE "pipeline"]
  /\ seen' = [seen EXCEPT ![k] = row[k]]
  /\ UNCHANGED <<throttlerVars, rowVars, mem, runVars, ctxDone, opVars, lingering,
                 clusterVars, storedVars>>

CancelWriteTask(k) ==
  /\ cancel[k] = "write"
  /\ cancel' = [cancel EXCEPT ![k] = "pipeline"]
  /\ row' = IF IsEnd(seen[k].status) THEN row
            ELSE [row EXCEPT ![k] = [seen[k] EXCEPT !.status = "StopByUser"]]
  /\ UNCHANGED <<throttlerVars, pipeline, mem, runVars, ctxDone, opVars, lingering,
                 clusterVars, seen, storedVars>>

(* The request still holds the pipeline it read first, which had not ended.*)
CancelPipeline(k) ==
  /\ cancel[k] = "pipeline"
  /\ cancel' = [cancel EXCEPT ![k] = "done"]
  /\ pipeline' = [pipeline EXCEPT ![k] = "StopByUser"]
  /\ UNCHANGED <<throttlerVars, row, mem, runVars, ctxDone, opVars, lingering,
                 clusterVars, seen, storedVars>>

-----------------------------------------------------------------------------
(* The cluster, and the engine's crashes.                                  *)

JobStep(k) ==
  /\ \E i \in Looped :
       \/ job[k][i] = "pending" /\ job' = [job EXCEPT ![k][i] = "running"]
       \/ /\ job[k][i] = "running"
          /\ \E end \in {"ok", "failed"} : job' = [job EXCEPT ![k][i] = end]
  /\ UNCHANGED <<throttlerVars, rowVars, mem, runVars, ctxDone, opVars, lingering,
                 failures, cancelVars, storedVars>>

(* ContinueBackupThrottler, every 30 seconds.                              *)
BackupThrottler ==
  /\ crashes < MaxCrashes
  /\ backup' = Export
  /\ UNCHANGED <<throttlerVars, rowVars, mem, runVars, ctxDone, opVars, lingering,
                 clusterVars, cancelVars, crashes, saved, forgotten>>

(* A crash loses every goroutine and every request; loadThrottler of the   *)
(* restarted engine imports the last backup and loadRunningPipelines takes *)
(* up the pipelines whose status says that they were being reconciled.     *)
LoadThrottler ==
  \/ backup # NoBackup /\ Import(backup)
  \/ /\ backup = NoBackup
     /\ queueByName' = {}
     /\ processingWindow' = [q \in Queues |-> 0]
     /\ pending' = [q \in Queues |-> [k \in Keys |-> NoItem]]
     /\ processing' = [q \in Queues |-> {}]
     /\ keyRelatedQueues' = [k \in Keys |-> {}]

Crash ==
  /\ crashes < MaxCrashes
  /\ crashes' = crashes + 1
  /\ LoadThrottler
  /\ pc' = [k \in Keys |-> IF pipeline[k] \in {"Queue", "Running"} THEN "idle" ELSE "done"]
  /\ at' = [k \in Keys |-> "none"]
  /\ ctxDone' = [k \in Keys |-> FALSE]
  /\ lingering' = [k \in Keys |-> [check |-> 0, poll |-> 0]]
  /\ cancel' = [k \in Keys |-> IF cancel[k] = "done" THEN "done" ELSE "idle"]
  /\ UNCHANGED <<rowVars, mem, outcome, quitWait, calc, op, res, clusterVars, seen, backup,
                 saved, forgotten>>

-----------------------------------------------------------------------------
OpStep(k) ==
  \/ CheckPipeline(k) \/ ProcessPrepare(k) \/ ProcessCreate(k) \/ StartPopped(k)
  \/ StartRefused(k) \/ ExecutorStart(k) \/ ProcessQueue(k) \/ ProcessWait(k)
  \/ FetchLatestTask(k) \/ LingeringCheck(k) \/ LingeringFetch(k)

WaitOpStep(k) ==
  \/ ReceiveCtxDone(k) \/ ReceiveExit(k) \/ ReceiveErr(k) \/ PrepareDone(k)
  \/ OpDone(k) \/ ReceiveTimeout(k) \/ HandleTaskLoop(k) \/ Update(k)

ReconcileStep(k) ==
  \/ Listen(k) \/ UpdateStatusBeforeReconcile(k) \/ Reconcile(k) \/ Correct(k)
  \/ StartOp(k) \/ LeaveLoop(k) \/ AbnormalRetry(k)
  \/ Teardown(k) \/ UpdateStatusAfterReconcile(k) \/ TeardownPipeline(k)

CancelStep(k) ==
  \/ CancelCheck(k) \/ CancelListTasks(k) \/ CancelExecutor(k) \/ CancelReadTask(k)
  \/ CancelWriteTask(k) \/ CancelPipeline(k)

Next ==
  \/ \E k \in Keys : \/ OpStep(k) \/ WaitOpStep(k) \/ ReconcileStep(k)
                     \/ CancelStep(k) \/ JobStep(k)
  \/ BackupThrottler
  \/ Crash

Spec == Init /\ [][Next]_vars

(* Every goroutine that can take a step takes one: the Go scheduler and    *)
(* the polling loops, which have no bound, give weak fairness.  A deadline *)
(* is an absolute time, so a select that is entered again and again does   *)
(* receive it; the goroutines of wait that outlived their waitOp run on.   *)
(* The executor does not answer Unknown for ever.                          *)
Fairness ==
  /\ \A k \in Keys :
       /\ WF_vars(Listen(k)) /\ WF_vars(UpdateStatusBeforeReconcile(k))
       /\ WF_vars(Reconcile(k)) /\ WF_vars(Correct(k)) /\ WF_vars(StartOp(k))
       /\ WF_vars(LeaveLoop(k)) /\ WF_vars(AbnormalRetry(k))
       /\ WF_vars(Teardown(k)) /\ WF_vars(UpdateStatusAfterReconcile(k))
       /\ WF_vars(TeardownPipeline(k))
       /\ WF_vars(CheckPipeline(k)) /\ WF_vars(ProcessPrepare(k))
       /\ WF_vars(ProcessCreate(k)) /\ WF_vars(StartPopped(k))
       /\ WF_vars(ExecutorStart(k)) /\ WF_vars(ProcessQueue(k))
       /\ WF_vars(ProcessWait(k)) /\ WF_vars(FetchLatestTask(k))
       /\ WF_vars(LingeringCheck(k)) /\ WF_vars(LingeringFetch(k))
       /\ WF_vars(ReceiveCtxDone(k)) /\ WF_vars(ReceiveExit(k))
       /\ WF_vars(ReceiveErr(k)) /\ WF_vars(PrepareDone(k)) /\ WF_vars(OpDone(k))
       /\ WF_vars(HandleTaskLoop(k)) /\ WF_vars(Update(k))
       /\ SF_vars(ReceiveTimeout(k))
       /\ WF_vars(CancelListTasks(k)) /\ WF_vars(CancelExecutor(k))
       /\ WF_vars(CancelReadTask(k)) /\ WF_vars(CancelWriteTask(k))
       /\ WF_vars(CancelPipeline(k))
       /\ WF_vars(JobStep(k))

FairSpec == Spec /\ Fairness

-----------------------------------------------------------------------------
(* Properties.                                                             *)

HasLiveJob(k) == \E i \in Looped : Live(job[k][i])
InAnyQueue(k) == \E q \in Queues : InPending(q, k) \/ InProcessing(q, k)

(* A live job that no timeout has taken for ended: WhenTimeout neither     *)
(* cancels nor remembers a job whose status is Unknown.                    *)
HasKnownJob(k) == \E i \in Looped \ forgotten[k] : Live(job[k][i])

(* Tasks that nobody cancels and that do not loop: a cancel removes a job  *)
(* without a look at tr.Task, and the next iteration of a loop is inserted *)
(* while the last one holds its places.                                    *)
PlainTasks == Keys \ (CancelTasks \cup LoopTasks)

(* While a job of a task runs in the cluster, the task holds a place in    *)
(* the processing part of every queue its priority names: the throttler    *)
(* counts the jobs that exist, whatever order start, the executor's lost   *)
(* answers, the timeout's cancel and Teardown happen in.  The one job it   *)
(* loses is the one whose status was Unknown when its task timed out.      *)
(* (Not asked of an engine that lost its throttler in a crash.)            *)
LiveJobHoldsSlot ==
  crashes = 0 =>
    \A k \in PlainTasks : HasKnownJob(k) => \A q \in QueuesOf(k) : InProcessing(q, k)

(* A job is started only while its task holds its places, even for a task  *)
(* that is being cancelled.                                                *)
JobStartsInSlot ==
  [][\A k \in Keys : ~HasLiveJob(k) /\ HasLiveJob(k)' =>
       \A q \in QueuesOf(k) : InProcessing(q, k)]_vars

(* No more jobs of a queue run at once than the largest window its tasks   *)
(* ask for, although windows change with every insertion.  What a task     *)
(* asks for is the concurrency of the last entry of its priority.v1, in    *)
(* every queue (InsertRequests): a queue whose own entry says less gets    *)
(* more.  Jobs that a timeout has taken for ended are not counted.         *)
WindowAsked(k) == Priority[k][Len(Priority[k])].concurrency
ConcurrencyRespected ==
  crashes = 0 =>
    \A q \in Queues :
      LET running == {k \in PlainTasks : q \in QueuesOf(k) /\ HasKnownJob(k)}
      IN running # {} =>
           \E k \in Keys : q \in QueuesOf(k) /\ Cardinality(running) <= WindowAsked(k)

(* A task nobody cancels never has two jobs at once: its next iteration    *)
(* starts only when the job of the last one has ended or was removed,      *)
(* whatever the timeout and a restart do in between - except for a job     *)
(* whose status was Unknown when the task timed out, which runs on beside  *)
(* the next one.                                                           *)
OneLiveJob ==
  \A k \in Keys \ CancelTasks : \A i, j \in Looped \ forgotten[k] :
    Live(job[k][i]) /\ Live(job[k][j]) => i = j

(* A task that polls PopPending can still be popped: it is pending, and    *)
(* not processing, in every related queue.  PopPending refuses a key that  *)
(* is not pending in one of them, and start would then poll for ever (as   *)
(* it does when the executor failed after the place was taken).            *)
StartIsPoppable ==
  \A k \in Keys : failures = 0 /\ Processing(k, "start") =>
    \A q \in keyRelatedQueues[k] : InPending(q, k) /\ ~InProcessing(q, k)

(* A task the reconciler has finished with is in no queue any more: a key  *)
(* left processing would shrink the window, a key left pending would block *)
(* the queue once it is the head.                                          *)
FinishedTaskReleased ==
  \A k \in Keys : pc[k] \in {"finish", "save", "done"} => ~InAnyQueue(k)

(* A task is Success in the database only because the job of its current   *)
(* iteration ended well: no stale tr.Task, correction from the executor,   *)
(* restart or lost job makes a task succeed that did not.                  *)
SuccessIsEarned ==
  \A k \in Keys : row[k].status = "Success" => job[k][row[k].looped] = "ok"

(* Seen from the database, a task and its pipeline go through the abstract *)
(* life cycle of TaskLifecycle, through every platform error, timeout,     *)
(* lingering goroutine, loop and crash.                                    *)
Lifecycle == INSTANCE TaskLifecycle WITH Tasks <- Keys
ImplementsLifecycle == Lifecycle!LifecycleSpec

(* The reconciler is a disciplined client of the throttler: prepare never  *)
(* inserts a task that still holds a place, in any order of cancel,        *)
(* timeout, retry and Teardown.                                            *)
DisciplinedClient == DisciplinedSpec

(* Every pipeline ends: the place of every ended task, however it ended,   *)
(* lets the next one in, and tasks that wait in several queues do not      *)
(* block each other for ever if their priorities order them alike in the   *)
(* queues they share - prepare inserts a task into all of its queues at    *)
(* once and with one time, so that tasks of equal priority stand in one    *)
(* order everywhere.  (Two tasks with crossed priorities, each the head of *)
(* a queue the other is in, do wait for ever.)  Asked as long as there is  *)
(* no platform error (start's retry hangs) and no goroutine of a timed-out *)
(* wait is left to undo its Timeout.                                       *)
PriorityIn(k, q) == InsertRequests(k)[q].priority
OrderedAlike ==
  \A k, j \in Keys : \A q, r \in QueuesOf(k) \cap QueuesOf(j) :
    PriorityIn(k, q) <= PriorityIn(j, q) => PriorityIn(k, r) <= PriorityIn(j, r)
NoLingering == \A k \in Keys : lingering[k].check + lingering[k].poll = 0
EveryPipelineEnds ==
  OrderedAlike /\ [](failures = 0 /\ NoLingering) => \A k \in Keys : <>IsEnd(pipeline[k])
=============================================================================
