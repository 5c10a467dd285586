# Erda pipeline engine: a TLA+ verification project

Erda is a platform of some thirty services. This project is about the part whose
correctness is a matter of concurrency rather than of data: the **pipeline engine**
(`modules/pipeline/pipengine`), which runs the tasks of CI/CD pipelines as jobs in
clusters, limits how many run at once, survives restarts and lets users cancel.

## 1. The system

| part | code | state | operations |
|---|---|---|---|
| task throttler | `pipengine/queue/{throttler,enhancedqueue,priorityqueue}` | named queues (pending heap, processing set, window); for each key the queues it is in | `AddQueue`, `AddKeyToQueues`, `PopPending`, `PopProcessing`, `Export`, `Import` |
| task reconciler | `reconciler/task.go`, `reconciler/taskrun`, `.../taskop` | `tr.Task`, shared by two goroutines; flags of `tr` | `reconcileTask`, `Do`, `waitOp`; prepare, create, start, queue, wait; `handleTaskLoop`, `Update`, `Teardown` |
| pipeline reconciler | `reconciler/{listen,reconcile,teardown,scheduable}.go`, `pkg/dag` | pipeline row, task rows, `processingTasks` | `Listen`, `reconcile` (recursive), status before and after |
| restart | `pipengine/engine.go`, `reconciler/throttler.go` | throttler backup in etcd | `loadThrottler`, `ContinueBackupThrottler`, `loadRunningPipelines` |
| cancel request | `services/pipelinesvc/cancel.go`, `dbclient/op_pipeline.go` | task and pipeline rows | stop the jobs, write the tasks, write the pipeline |
| executors | `actionexecutor/plugins/*` | jobs in the cluster | `Start`, `Status`, `Cancel`, ... |
| pipeline queue manager | `reconciler/queuemanage` | per queue: pending/processing pipelines, done channels, range flags | add, range, pop out, update |
| DAG | `pkg/dag`, `reconciler/scheduable.go` | nodes and edges | which tasks can be scheduled |
| garbage collection | `reconciler/{gc,pipeline_gc_compensator,dbgc}.go` | etcd keys with leases, a lock key, two marks in the pipeline row | `waitGC`, `delayGC`, `ListenGC`, `gcNamespace`, compensate |
| services | `pipeline/services/*` | database | run, rerun, callback, cron |

The other modules of the repository (openapi, dop, cmp, core-services, hepa, msp,
monitor, dicehub, gittar, scheduler, orchestrator, eventbox, the cluster tunnels, ...)
are listed in `PROJECT.json` as not modelled, with the reason.

**How the parts interact.** `Listen` gets a pipeline and puts it into its queue of the queue
manager; a goroutine that ranges over the pending pipelines pops it and sends on its done
channel. `Listen` then marks it Running and calls `reconcile`, which reads the tasks, starts a
goroutine for each one whose needs are done and which is not yet in `processingTasks`, and
waits for them; each goroutine calls `reconcile` again when its task is done. A goroutine
reads its task, corrects its status from the executor and
hands it to `reconcileTask`. That loop chooses an operation from the task's status and
calls `Do`: a goroutine checks the pipeline's status, runs the operation's `Processing`,
reads the latest row into `tr.Task` and offers the result on a channel; `waitOp` selects
between result, timeout and cancellation, changes `tr.Task` (`WhenDone`, `WhenLogicError`,
`WhenTimeout`), lets a looping task start over, and writes the whole row. `prepare` puts
the task into the throttler's queues; `start` polls `PopPending` and then starts the job;
`Teardown` of an ended task gives the places back with `PopProcessing`. The user's cancel
request writes the same rows from another process, without a transaction, and pops the
pipeline out of its queue. When a pipeline has ended, `teardownPipeline` writes its mark and
`waitGC` puts a key with a lease for the namespace of its jobs; when the lease expires, every
engine hears of it and one of them deletes the jobs. A rerun of the failed tasks uses the same
namespace and lengthens the lease while it runs.

**What is hard.** Nothing protects the rows between a read and a later write; `tr.Task` is
shared between goroutines, one of which outlives a timeout; the executor's answer may be
lost after the job was created; the throttler is rebuilt from a backup of any age; a place
in a queue is taken in `start` and returned much later, across retries, loops, timeouts
and cancels. The pipeline queue is changed without its lock while it is ranged over; calls of
`reconcile` run side by side, each with its own picture of the tasks; the collection of jobs
relies on events nobody may be there to hear. `PROJECT.json` lists these hazards with their
lines.

## 2. Modules

| module | what it is |
|---|---|
| `Throttler` | the throttler; one action per operation (each runs under the throttler's mutex) |
| `ThrottlerProofs` | TLAPS proofs about `Throttler` |
| `MCThrottler` | its instance for TLC (keys and queues are symmetric) |
| `TaskLifecycle` | abstract specification: what the database may show of a task and its pipeline |
| `TaskRun` | task reconciler, pipeline reconciler, cancel, timeouts, loops, cluster and crashes, composed with the throttler (EXTENDS `Throttler`) |
| `TaskRunProofs`, `TaskLifecycleProofs`, `TaskSlotProofs` | TLAPS proofs about `TaskRun`: its types; rows, jobs and the refinement; the places in the queues (each EXTENDS the one before) |
| `MCTaskRun` | its instances for TLC: the priorities of the tasks |
| `PriorityHeap` | the pending array of `priorityqueue` with Go's `container/heap` |
| `PipelineQueue` | one queue of the queue manager and the goroutines around it |
| `PipelineQueueProofs` | TLAPS proofs about the heap and the queue |
| `MCPipelineQueue` | its instances: creation times, priorities, resources |
| `PipelineReconciler` | `reconcile` for one pipeline of several tasks over a DAG |
| `PipelineReconcilerProofs`, `ReconcileOrderProofs` | TLAPS proofs about it: its types and `processingTasks`; order and verdict |
| `MCPipelineReconciler` | its instance: the stages of five tasks |
| `PipelineGC` | garbage collection of one namespace, reruns and the compensator |
| `PipelineGCProofs` | TLAPS proofs about `PipelineGC` |
| `MCPipelineGC` | its instance: two pipelines |

Each module keeps the control of its layer and abstracts the layers below: to `PipelineQueue`
reconciling a pipeline is a step that ends, to `PipelineReconciler` running a task is, and
`TaskRun` has one task in each pipeline and no pipeline queue.

### Throttler

`pending[q][k]` is the item of key `k` in the pending heap of queue `q` (or `NoItem`),
`processing[q]` the processing set, `keyRelatedQueues[k]` the map of the same name. The
heap is abstracted to its order: a key can be at the root iff no other key is strictly
less; keys that compare equal may be popped in either order. `PopPending` first tries a
dry run on all related queues and then pops; both happen under the lock, so it is one
action. A key without related queues is always popped (the code's early return). `Add`
keeps the creation time of a key already pending. `Import` replaces everything.

`ThrottlerSpec` is the throttler with any client, `DisciplinedSpec` with one that never
inserts a key while that key holds a place. The difference matters: for an undisciplined
client a key may be pending and processing in the same queue.

### TaskRun

Each task is the only task of its own pipeline. For each task:

* `row`, `pipeline` - the database; `mem` - `tr.Task`; `looped` is `loopedTimes` of the
  loop options (0: no loop options yet);
* `pc` - where `Listen`/`reconcile`/`reconcileTask`/`waitOp` are; `outcome`, `quitWait`,
  `calc` - their local results; `ctxDone` - the pipeline's context is cancelled;
* `op`, `at`, `res` - the goroutine of the current operation: which one, where, and what
  it reports; `lingering` - goroutines of `wait` whose `waitOp` has timed out;
* `job[k][i]` - the job of iteration `i` in the cluster; `cancel`, `seen` - the cancel
  request and the row it read; `backup` - the throttler in etcd; `forgotten` - history, see below.

Steps are cut where another process can see or change something: at each database read
and write, each executor call and each channel operation. So "fetch latest task" and
"offer the result" are separate steps of the goroutine, `HandleTaskLoop` (which reads the
pipeline) and `Update` separate steps of `waitOp`, and the cancel request has six: the check
of the pipeline, the list of its tasks, the executor, the read and the write of the task, the
write of the pipeline.

Abstractions: the contents of a job, its environment and logs; of `makeTaskRun` only its
outcomes (ready, skipped by its `if`, invalid, asks for a retry). Failed stands for every
failed status nothing tells apart, the Error of a failed job included. The executor of a task in
`UnknownTasks` may also answer Unknown, for any job it has, live or not: `queue` and `wait` ask
again, the correction from the executor leaves the task alone, `create` and `start` return an
error (a platform error here), and `WhenTimeout`, to which it is an end status, ends the task
without a cancel of the job. `forgotten` is the history of the iterations this has happened to. The old status that `waitOp` restores is that of the
operation: `waitOp` reads it at the start, at the same time as the goroutine begins to run
(a data race that is not modelled). No user error
reaches `waitOp`: both `UserErrorf` of prepare end as AnalyzeFailed without an error. A
write of the pipeline after reconcile and its repetition by `teardownPipeline` are one step
that a platform error may lose; `Update` repeats its write until it succeeds. `saveTask`
writes the row of a task that has none (`saved`). The break expression of a loop may be true or false.
`maxTimes` is positive; -1 (no bound) is not modelled. Two tasks never read the same
creation time.

### TaskLifecycle

A task moves forward through Analyzed, Born, Created, Queue, Running and an end status and
never leaves an end status; a looping task may start over, at most `MaxTimes` iterations
in all; a pipeline is opened, and closed once, after its task has ended, with that task's
verdict. A reconcile that fails before the task has begun puts the pipeline back to
Analyzed, from where it is opened again, or, when the task has no row yet, closes it as a
Success (`CloseEmpty`, see section 4). `ImplementsLifecycle` says that `TaskRun` implements this with the identity
mapping of `row` and `pipeline`. It holds without cancel requests; section 4 says how a
cancel request breaks it.

### PipelineQueue

`items` is the pending array, `processing` the processing set, `caches` and `doneCh` the maps
of `defaultQueue`, `concurrency` and `mode` its configuration and `window` the processing window,
which `Update` sets in a second step. `items` is the array and not a set,
because `Range` walks the slice it began with while others change it: `tail` is what removals
left behind the live part since the range began, and `frozen` the old array once an append has
moved the queue to a new one (`capacity` doubles as Go's does). `PriorityHeap` has the heap
operations themselves, so that the order of the items during a range is that of the code.

Processes: two goroutines of `Listen` for each pipeline (the run request, and the one of
`loadRunningPipelines`; `pc`, `snap`, `again`), the ranging goroutine (`rpc`, `place`,
`current`, `channel`), a cancel request for each pipeline in `Cancelled` (which with `ForceRun` may be a forced run of
another pipeline), requests that change the queue and the priority of a pipeline. `q.lock` is a
variable only where somebody holds it across a channel send; otherwise an action that takes it
is one step. `doPop`, `ensureMarkPipelineFailed` and `doStopAndRemove` do not take it: their parts
are separate steps, so that the lookup of the done channel, the send, the close and the delete
(`range_pending_queue.go:170-174`) interleave with everything else. In particular the listener
the send has woken may come to `PopOutPipeline` while the channel is still in the map. It then
sends on it with `q.lock` held, blocks until `doPop` closes it, and panics (`pc` is `panic`).
`rejected` is the history of the pipelines the precheck has failed. `asked` is the custom
priority a listener has read, which an upgrade may have written (`custom`).

These lookups and deletes in a map that `add_pipeline.go:66` and `pop_out.go:32` write under the
lock are also a data race: when two of them coincide the Go runtime may end the process
(concurrent map read and map write). The model has no step for that. Every behaviour of a
specification may end at any point, so the safety properties cover a process that ends there; the
liveness property is about engines that do not.

Abstractions: resources are one number; the precheck answers success, failed, to be retried or
nothing at all; the ticker and the explicit calls that begin a range are one action that may happen
whenever none is ranging. After a panic of a goroutine nothing happens (the HTTP server recovers
the one of a cancel).

### PipelineReconciler

`rows[t]` is the sequence of rows of a task (a task may get a second one), `tasks[c]` the
picture the call `c` has read, `todo[c]` the tasks it has still to look up in
`processingTasks`, `parent` the call whose WaitGroup a goroutine belongs to. A goroutine goes
through `save`, `execute`, `run`, `delete` and then makes a call of its own. Steps are cut at
each read and write of the database, each `LoadOrStore` and `Delete`, and `wg.Wait`.

Needs are the tasks of the earlier stages, as the stages of pipeline.yml (1.1) define them;
what `GetSchedulable` finds by walking the graph is stated as the tasks whose needs are done. The status of a
pipeline is calculated from its tasks as `CalculatePipelineStatusV2` does, including the answer
for no task at all. `overtaken` counts the times a call takes up a task that has moved on since
the call read it. Not modelled: snippets, pauses and cancels at this level.

### PipelineGC

`nsKey` is the lease of the namespace's key (`short`: the retention time of an ended pipeline
or the minute of a retry; `long`: the two days of `delayGC`), `subKeys` the pipelines with a
subkey, `lock` the key that serves as lock, `handlers` the bag of goroutines `ListenGC`
has started in all instances, `gcMark` and `teardownMark` the two flags of the pipeline's
Extra, `readMark` the flag as the ending pipeline has read it. Each access to etcd, the database
or an executor is a step and may fail; when the engine goes down, goroutines and events are lost.

Time is abstract: either lease may expire at any time, the long one also under a pipeline at
work. It is for two days from the last call of `reconcile` (`gc.go:39,150`, `reconcile.go:56`),
and a task may take longer (`wait.go:151`). The mark of a collection is written with the Extra
that was read before, and without the other mark when that read has failed (`gc.go:227`).

Two history variables tell apart what the code loses track of. `unguarded` has the
pipelines at work whose subkey was left without the long lease, because it expired or because a
short one replaced it (`Exposed`), or was put while a collection was under way: the safety
properties are about the others. `disturbed` has the pipelines whose keys were put while a collection
was under way, whose subkey was removed without having been listed, whose put failed, or that
were torn down or marked when the engine went down: `EventuallyCollected` is about the others.
The compensator starts a round when what it began the day before is over.

## 3. Passing runs

| run | instance | shows |
|---|---|---|
| `Throttler` | 3 keys, 2 queues, 2 priorities, 2 times, windows 0 and 1, default 2 | relation and queues agree (`RelatedKeysAreQueued`, `QueuedKeysAreRelated`), a key is once per queue, admitted by all its queues or none, within the window and in order |
| `TaskRun_slots` | 2 tasks, 2 queues with entries of concurrency 2 and 1, timeouts and answers Unknown for one, one platform error; 272,000 states | while a job lives its task holds its places, unless the job was Unknown when the task timed out (`LiveJobHoldsSlot`); no queue runs more jobs than the largest window asked for (`ConcurrencyRespected`); a finished task is in no queue; a polling task can be popped (`StartIsPoppable`); `ImplementsLifecycle`; without faults every pipeline ends (`EveryPipelineEnds`, for tasks ordered alike) |
| `TaskRun_restart` | 2 tasks, 1 queue, one crash, backups at any time, answers Unknown for one; 784,000 states | the restored throttler is consistent (`SlotAccounting`) |
| `TaskRun_loop` | 1 task, 3 iterations, timeouts, answers Unknown, one crash; 1.2 million states | never two live jobs, but for one that was Unknown at its timeout (`OneLiveJob`); no task is Success without its job (`SuccessIsEarned`); iterations stay within `MaxTimes`; `ImplementsLifecycle` |
| `TaskRun_cancel` | 2 tasks (one without priority), cancel of and answers Unknown for one, one platform error; 2.2 million states | the reconciler is a disciplined client (`DisciplinedClient`); jobs start only in their places (`JobStartsInSlot`) |
| `PipelineQueue` | 3 pipelines, the last one with a higher priority, concurrency 2, both modes, prechecks without a result, cancel and forced run of one; 4.1 million states | the array stays a heap (`PendingIsHeap`), who is reconciled holds a place, who holds a place gives it back (`PlaceHasOwner`), without requests only a listener that `doPop` has just woken can panic (`OnlyHastyPanics`), strict mode pops the first pending pipeline unless it was refused (`StrictOrder`) |
| `PipelineQueue_progress` | 2 pipelines of uneven resources, concurrency 1 and 2, both modes, all prechecks, one failed write, one change of the queue in two steps; 775,000 states | nobody waits unknown to the queue (`WaiterIsKnown`), `PopWithinConcurrency`, every pipeline ends (`EveryRunEnds`) |
| `PipelineQueue_requests` | 2 pipelines, one of them added twice, concurrency 1, one upgrade, whose write may fail; 1.3 million states | each pipeline is pending once and the array a heap, although upgrade and second addition race the range |
| `PipelineReconciler` | 5 tasks in the stages a, {b, c, e}, d; b and d may fail, d is allowed to; e is disabled, a is from the pipeline this is a rerun of; one error | `OneGoroutinePerTask`, `NeedsRespected`, `FailureStops`, `VerdictIsRight`, `EveryPipelineEnds` |
| `PipelineGC` | a pipeline and its rerun, one engine, two collections at a time, one fault; 696,000 states | `RunningKeepsJobs`, `DeletedIsMarked`, `EventuallyCollected` |

`DisciplinedClient` is the link between the two layers: it says that every step of
`TaskRun` is a step of `DisciplinedSpec` on the throttler's variables, so what is proved of
that specification for all constants holds of the composed system.

**Bounds.** Two or three keys suffice for one to wait behind another, two queues for a key
to be the head of one and not of the other; windows 0, 1 and 2 give a full, a contended and
a free queue. `MaxFailures`, `MaxErrors`, `MaxFaults`, `MaxCrashes`, `MaxTimes` and
`MaxLingering` bound platform errors, crashes, iterations and goroutines that outlive a
timeout; one of each is enough to interrupt every step once. `Times` has one value per task.
Three pipelines in a queue of concurrency 2 let one be removed from the middle of the range;
`MaxUpdates` and `MaxUpgrades` bound the requests. Three goroutines for each task
(`MaxGoroutines`) and one task taken up from an old picture (`MaxOvertaken`) are what a second
sibling and one error need. `MaxHandlers` bounds, for each kind of lease, the goroutines at work when it expires (one when a
short one does, none when a long one does; the proofs need no such bound),
`MaxDelays` the `delayGC` of a pipeline. The reconciler was also checked with an `if` on c or d. TLC's deadlock check is off where everything may
have ended.

**Fairness** (`FairSpec`). Weak fairness for each goroutine that can go on: the Go scheduler
runs every runnable goroutine and the polling loops of `pkg/loop` have no limit. Jobs make
progress and end, and the executor does not answer Unknown for ever. In `TaskRun`, strong fairness for the timeout: a deadline that has passed is
received by a select that is entered again and again. In `PipelineQueue`, the ticker begins a
range again and again, so ranging is weakly fair, and an update of the queue that has begun is
finished. Fairness there and in `PipelineGC` is stated with the variables each step changes as its
subscript, which says the same as `vars` and spares TLC work. `PipelineReconciler` needs only
`WF_vars(Next)`. In `PipelineGC`, leases end, a pipeline's own steps and the handlers go on,
the engine comes up again, and the compensator, which runs every day on all pipelines, is strongly fair: it may be
in between something else each day but not for ever. None is assumed for what users request
(cancel, rerun, upgrade), for platform errors or for crashes.

**Conditions of properties.** A property is asked where the code can keep it, and says so itself.
`LiveJobHoldsSlot` and `ConcurrencyRespected` are about tasks without cancels and loops
(`PlainTasks`), engines that have not crashed (the backup is older than the jobs) and jobs that
were not Unknown at their timeout (`forgotten`); `OneLiveJob` is about tasks nobody cancels and the
same jobs, and fails when a looping task meets a platform error, which its run does not have.
`ConcurrencyRespected` bounds the jobs by the window the tasks ask for and not by the concurrency
of each entry, which the code does not keep (section 4). `EveryPipelineEnds` of `TaskRun` supposes that
priorities order any two tasks alike in the queues they share (`OrderedAlike`): then the order by
priority and time of insertion is one order for all queues, and the first in it can be popped.
With crossed priorities TLC finds the deadlock of section 4. It also supposes no platform error and no
lingering goroutine. In the other modules: `failures = 0` (a failed write of
Running leaves a place behind, a failed `saveTask` blocks the WaitGroup), `NoRequests`
(cancels and upgrades race the unlocked pop), `rejected` (a pipeline the precheck has failed is
never woken), no listener that panics, `overtaken = 0` (a task taken up from an old
picture runs again), `unguarded` and `disturbed`. Each excluded case is described in section 4.

## 4. Disagreements between the code and its comments

| run | property | what happens |
|---|---|---|
| `PipelineReconciler_v_success` | `SuccessIsComplete` | "if reconcile failed, put and wait next reconcile" (`listen.go:118`); but when the first reconcile fails before a task has a row, the status of no tasks is Success, the pipeline ends and the next reconcile is refused |
| `PipelineGC_v_compensate` | `DowntimeIsCompensated` | the compensator is there because "the etcd lease of gc may expire" while the pipeline service is down (`pipeline_gc_compensator.go:31-33`); but it skips pipelines with the teardown mark (line 94), which every pipeline has before its lease is put (`teardown.go:83`, `waitGC` deferred at line 50) |

A rerun also copies the teardown mark of its origin (`create.go` resets only
`CompleteReconcilerGC`), so it is never compensated at all.

Also seen in the models, without a run of their own. Task reconciler and throttler:

* every queue gets the concurrency of the last entry of `priority.v1`, because the request
  keeps the address of the loop variable (`prepare.go:611`): a queue whose own entry says less
  runs more jobs than it says;
* a job whose status is Unknown when its task times out is taken for ended: `IsEndStatus` is true
  of Unknown (`wait.go:134`), although `queue` and `wait` tell it apart and ask again
  (`queue.go:100`, `wait.go:85`). The job is not cancelled, Teardown gives its places back while
  it runs, and a looping task starts its next job beside it (`task_loop.go:32`);
* `Executor.Start` fails after `PopPending`; the retry polls `PopPending` for a key that is no
  longer pending, for ever (`start.go:53,118`);
* `Update` writes the older `tr.Task` over the cancel's StopByUser (`framework.go:139`);
* a platform error counts as an iteration of a loop, since `handleTaskLoop` runs before the
  status is restored (`framework.go:122`);
* the goroutine of a timed-out wait reads the row over the Timeout before `Update`
  (`framework.go:44`), and may do so again and again (`framework.go:180`);
* a looping task in a queue of window 1 waits in its second iteration for the place its
  first one holds (`task_loop.go:115`); one that is cancelled may start over and leave two jobs
  when `handleTaskLoop` reads the pipeline before the cancel writes it (`task_loop.go:37`);
* two tasks with crossed priorities in two queues head one each and wait for each other
  for ever;
* a task that polls `PopPending` starts its job after a cancel has ended its pipeline; a cancel
  between two operations skips `Teardown`, and the key stays in its queues (`reconcile.go:110`);
* a task popped or finished after the last backup is restored as pending or processing
  (`reconciler/throttler.go:69`);
* `queue` and `wait` never report once the context is cancelled: their deferred send on the
  stop channel has no receiver (`wait.go:52`).

Pipeline reconciler:

* the error of the recursive `reconcile` is dropped (`reconcile.go:89`): tasks behind the one
  that ended are not scheduled;
* a `saveTask` that fails after `wg.Add` returns without `wg.Done`: the call never returns
  (`reconcile.go:75`);
* a call with an old picture takes up a task that was handled in the meantime: it gets a second
  row, or runs again (`scheduable.go:61`);
* after a failure, a task without `if` that an error gave up is taken up and run when its
  sibling with an `if` is Running in the picture: the calculated status is then Running, not
  Failed (`reconcile.go:59,131`);
* `updateStatusBeforeReconcile` writes Running over the StopByUser of a cancel that came
  after `Listen` read the status (`listen.go:144`).

Queue manager:

* a removal during the range moves another item to a place already visited: in loose mode one
  of lower order passes it (`priority_queue.go:92`);
* an item that was popped already is visited again; when its precheck now fails, the running
  pipeline is marked Failed and keeps its place (`range_pending_queue.go:136`);
* a pipeline whose precheck fails is removed, and its goroutine of `Listen` is never woken
  (`range_pending_queue.go:182`);
* a second addition replaces the done channel, and the first waiter is never woken
  (`add_pipeline.go:66`);
* a cancel's `PopOutPipeline` races `doPop` to the done channel: a send on a closed channel
  (`range_pending_queue.go:170`);
* without any request, a listener that `doPop` has woken and whose reconcile returns at once comes
  to `PopOutPipeline` while the channel is still in the map, waits on it with `q.lock` held and
  panics at the close (`range_pending_queue.go:172-174`, `pop_out.go:28-30`); and the unlocked
  accesses to that map are fatal when they coincide with those under the lock
  (`add_pipeline.go:66`);
* `doStopAndRemove` comes after the write of Failed: when the item was popped already, its
  reconcile may fail and its listener add the pipeline again in between, which is then removed
  and waited for in vain (`range_pending_queue.go:136-137`);
* a cancel or forced run before the pipeline is added, or a failed write of Running, leaves a
  place in use for ever (`listen.go:82,87`);
* an upgrade that races `doPop` adds the pipeline again; after its end the range looks at a
  pipeline that is not cached (`update_pipeline.go:54`);
* the flag for a new range compares with the last key looked at, which may be stale;
* when the precheck of an item has no result the range goes on even in strict mode, and then in the
  order of the array, which is not sorted (`range_pending_queue.go:110`).

Garbage collection:

* the lock is deleted also by who did not get it (`gc.go:109`), and it has no lease: a crash
  leaves it behind (`gc.go:107`);
* the error of `ListKeys` is shadowed (`gc.go:85`), so that nothing retries;
* `PrefixRemove` also removes subkeys that were put since the list was read (`gc.go:288`);
* `delayGC` looks for the key and then puts it (`gc.go:140`); the retry puts a short lease over
  the long one of a running rerun (`gc.go:71`), and so does the end of another pipeline of the
  namespace (`teardown.go:50`);
* the long lease is renewed only by the next call of `reconcile`: the jobs of a rerun with a task
  that takes more than two days are collected while they run (`gc.go:150`, `reconcile.go:56`,
  `wait.go:151`);
* the error of the read before the mark is ignored, and an Extra without the other mark is written
  over the row (`gc.go:227`);
* `teardownPipeline` writes the Extra it read before over the mark of a collection
  (`teardown.go:84`);
* the compensator goes to the next page after an error, without a pause
  (`pipeline_gc_compensator.go:54-57`).

## 5. Proofs

All of these are checked by TLAPS for every value of the constants that the `ASSUME` of the
module allows (finite sets of tasks, queues and pipelines, integers for priorities, times and
windows, null values that are not real ones). A hypothesis on the constants is part of the
statement; the second half of this section says what fails without it. Each invariant below was
checked with TLC before it was proved.

| module | theorem | statement |
|---|---|---|
| `ThrottlerProofs` | `ThrottlerTypeCorrect` | `ThrottlerSpec => []TypeOK` |
| | `RelationNeverDangles` | `ThrottlerSpec => []RelatedKeysAreQueued` |
| | `DisciplinedClientAccounting` | `DisciplinedSpec => []SlotAccounting` |
| | `NoKeyIsForgotten`, `KeyIsOnceInAQueue`, `PopIsAllOrNothing` | its three parts, under `DisciplinedSpec` |
| | `WindowRespected` | `ThrottlerSpec => AdmissionWithinWindow` |
| | `PriorityRespected` | `ThrottlerSpec => AdmissionInOrder` |
| `TaskRunProofs` | `TaskRunTypeCorrect` | `Spec => []TaskRunTypeOK` |
| `TaskLifecycleProofs` | `SuccessesAreEarned` | no cancels `=> (Spec => []SuccessIsEarned)` |
| | `JobsAreSingle` | no cancels, `SafeLoops` `=> (Spec => []OneLiveJob)` |
| | `RefinesLifecycle` | no cancels, `SafeLoops` `=> (Spec => ImplementsLifecycle)` |
| `TaskSlotProofs` | `PlacesAreAccounted` | no loops `=> (Spec => []SlotAccounting)` |
| | `ReconcilerIsDisciplined` | no loops, no restarts `=> (Spec => DisciplinedClient)` |
| | `JobsStartInPlace` | no loops, no restarts `=> (Spec => JobStartsInSlot)` |
| | `LiveJobsHoldTheirPlaces`, `FinishedTasksAreReleased`, `PollingTasksArePoppable` | `Undisturbed => (Spec => []...)` of `LiveJobHoldsSlot`, `FinishedTaskReleased`, `StartIsPoppable` |
| | `ConcurrencyIsRespected` | `Undisturbed => (Spec => []ConcurrencyRespected)` |
| `PipelineReconcilerProofs` | `ReconcilerTypeCorrect` | `Spec => []PipelineReconcilerTypeOK` |
| | `TasksAreExclusive` | `Spec => []OneGoroutinePerTask` |
| `ReconcileOrderProofs` | `StagesAreOrdered` | `Spec => NeedsRespected` |
| | `FailureIsFinal` | no task has an `if` `=> (Spec => FailureStops)` |
| | `PipelinesEndRight` | `Spec => []VerdictIsRight` |
| `PipelineQueueProofs` | `QueueTypeCorrect` | `Spec => []PipelineQueueTypeOK` |
| | `PendingIsOrdered` | `Spec => []PendingIsHeap` |
| | `PopsAreWithinConcurrency` | `Spec => PopWithinConcurrency` |
| | `WaitersAreKnown`, `ReconciledHoldPlaces`, `PlacesAreOwned`, `PanicsAreHasty` | `Twice = {}` `=> (Spec => []...)` of `WaiterIsKnown`, `ReconciledHoldsPlace`, `PlaceHasOwner`, `OnlyHastyPanics` |
| | `PopsFollowOrder` | `Twice = {}` `=> (Spec => StrictOrder)` |
| `PipelineGCProofs` | `CollectorTypeCorrect` | `Spec => []PipelineGCTypeOK` |
| | `CollectedIsMarked` | `Spec => []DeletedIsMarked` |
| | `CollectionSparesRuns` | `Spec => RunningKeepsJobs` |

**Throttler.** `TypeOK` is inductive by itself. `RelatedKeysAreQueued` is inductive with it, because
`PopProcessing` forgets the relation of the key it removes and `PopPending` only moves a
key from one part of a queue to the other. `QueuedKeysAreRelated`, `KeyOncePerQueue` and
`AllOrNothing` are not inductive one by one: that `PopProcessing` leaves no place behind
needs that every place is related, that `PopPending` cannot make a key hold some places
twice needs that pending and processing exclude each other, and that an insertion keeps
all-or-nothing needs the client's discipline. Their conjunction `SlotAccounting` is the
inductive invariant. The two action theorems follow from the type invariant and the guard
of `PopPending`, the first with the cardinality of a finite set plus one element.

**Task reconciler: types.** `TypeInv` adds to the type invariant that a backup is a snapshot of
the throttler (else `Import` would lose the throttler's types), that the lingering goroutines
stay within their bound, and what the goroutine of `wait` may report. What
prepare asks of the throttler is a request of `AddKeyToQueues` because of the last entry of
`priority.v1` for each queue, which exists since a non-empty set of places has a largest one.

**Task reconciler: rows and jobs.** `Sound` says for each task where the two goroutines can be
with respect to each other and to the pipeline's row (`Control`), how `tr.Task`, the row and the
outcome agree (`Data`), and which job a status rests on (`Earned`). `Orderly` adds that a row that is
about to be written is the one in the database, one step forward or one iteration on
(`Moves`), and that only the current iteration has a live job, those that were Unknown at their
timeout apart (`Single`). With these every write of
a row is a step of `TaskLifecycle` or a stutter, so the refinement mapping is the identity
and the proof goes action by action.

**Task reconciler: places.** Without loops a task never goes back (`Forward`): its goroutine is
past the insertion once it holds a place. That makes the reconciler a disciplined client, and
the throttler's accounting carries over. With restarts, the accounting is also an invariant of the backup
(`BackupAccounted`), since a backup is a copy of an earlier state. `Housed` follows a task from
its insertion to the start of its job: it is registered with all its queues, and the executor is called only
in its places. `Placed` has the other half: an ended task is over in memory, row
and cluster (`EndIsOver`), a task that waits has not started a job (`WaitsEarly`), a lingering goroutine of
a timed-out wait changes nothing that counts (`Quiet`), Teardown has released the places
(`Released`), and a live job has them (`Held`). A job is in `Held` unless it was Unknown at its timeout
(`HasKnownJob`). For the concurrency, `Windowed` says that the window of a queue in use is one that a task
of the queue asks for, and that some task of it asks for one as large as the number of places taken: an
insertion may shrink the window but does not take back what was asked, and a pop adds one to a set that
is smaller than the window of that moment.

**Pipeline reconciler.** `OneGoroutinePerTask` rests on `processingTasks`: a goroutine at work has its task in
it, so `LoadOrStore` keeps the next one out. For the order of stages, the calls are a tree
(`TreeInv`): a goroutine's parent waits for it, and ranks show that the chain of parents ends at
`Listen`'s call. `InOrder` says that, as long as no ended task was taken up again, a task has one row, a
picture shows an earlier state of it, and a task that is taken up has not moved on; needs that
were done in the picture are therefore done. `FailureIsSeen` says that a picture in which all
needs of a task are over, one of them badly failed, is calculated as Failed. For the verdict,
`Attended` says that each task that is ready is at work or some call is still going to look: the last call to
return therefore finds all tasks over (`Closing`). This uses that `Needs` is well founded, in the form
that a non-empty set of tasks has one of the earliest stage.

**Garbage collection.** `CollectInv` follows each pipeline: as long as it is at work and has its subkey or is about
to put it, the lease is long (`LongWhileAtWork`) and no collection is under way (`NoCollection`), or else
it is recorded as `unguarded`; who is not listed is not deleted (`NotListed`); the mark is written before
the jobs are deleted (`MarkedFirst`) and the write of `teardownPipeline` keeps it (`MarkKept`). Nothing is
assumed of the leases: the expiry of a long one under a pipeline at work is a step like any other, and
what the theorem says is that it, the short lease put over it, and a put into a running
collection are the only ways to lose jobs. The goroutines are
a bag; only its set of elements matters to the invariants.

**Hypotheses.** No cancels (`CancelTasks = {}`): the cancel request writes rows and removes jobs without a look at
`tr.Task`, and section 4 has the cases where `Update` overwrites what it wrote. `SafeLoops` (no loops or no platform
errors): `handleTaskLoop` takes a platform error for the end of an iteration and starts the next one
beside the job of the last. No loops (`LoopTasks = {}`): the next iteration is inserted while the task
still holds its places, so the client is not disciplined. No restarts (`MaxCrashes = 0`): a restarted engine has
the places of an older backup. No `if`: see the
pipeline reconciler in section 4. `PipelineReconciler` and `PipelineGC` need no other hypothesis,
because their properties carry the conditions themselves (`overtaken`, `failures`, `unguarded`).

**Queue manager: the heap.** `Down` and `Up` are loops that swap until they stop. `Settles` says that a
step that is repeated as often as a measure allows ends in a fixed point; `DownFacts` and `UpFacts` apply it with
the invariants `Sinks` and `Rises` (the heap is in order except below or above one place), and `RemovedFacts` joins
them: `Remove` swaps the last item to the gap, then sinks and raises it. `SortedFacts` says that a sorted
array is a heap. With these, `QueueInv` is inductive: types (`RowsOK`, `ControlOK`), an array without
duplicates that is a heap (`PendingInv`), a place of the range that is inside the array the range looks at
although others shrink or move it (`RangeInv`), and one holder of `q.lock` (`LockInv`).

**Queue manager: listeners and places.** `WaitInv(p)` says that a listener that waits has its
channel open in `doneChanByPipelineID`, and that its pipeline is pending and cached, being popped,
being cancelled, or failed by the precheck. It also says whose a channel in that map can be: that of a
listener that waits, or the one `doPop` has just sent on (`Closing`), and then the woken listener is
somewhere before the end of its `PopOutPipeline` (`Woken`), since it cannot come past the channel. `PanicsAreHasty`
follows: what the ranging goroutine sends on is open, and who else finds a channel finds it in that
window. `PlaceInv(p)`, for a pipeline without requests, says at which points of
`Listen` the pipeline is pending, in processing or neither. Each is proved pipeline by pipeline: `Untouched(p)`
is what a step about another pipeline leaves alone. For the order of strict mode, `EarlyInv`
says that a pipeline that is not yet added was never seen by the range, and `StrictInv` that the range stands
at the first pending pipeline, or its precheck had no result: an addition in front of it is
seen by `LeftHasHigherOrder`, and no other step changes the root of the heap.

The proof changed a property. `StrictOrder` used to say that nothing of higher order is pending except what was refused.
That is false with four pipelines: when the precheck of the first has no result the range goes on even in
strict mode (`range_pending_queue.go:110`), in the order of the array, and the array of a heap of
three or more is not sorted after a removal. The earlier instance had neither this result of the precheck
in a queue of three nor a fourth pipeline. The property now says what the code does; the run `PipelineQueue` has
the precheck without a result, and the theorem covers every number of pipelines.

**Hypothesis on the queue.** `Twice = {}`: `loadRunningPipelines` does not start a second
listener for a pipeline. With one, TLC violates each of the five properties (the second
addition replaces the channel of the first). That `ReconciledHoldsPlace` asks for no upgrades is
needed too: an upgrade that races `doPop`, followed by a reconcile that fails and puts the pipeline back to
Analyzed, lets the second pop race `PopOutPipeline`, and the pipeline is reconciled without a place.

**Only model-checked.** Liveness (`EveryPipelineEnds`, `EveryRunEnds`, `EventuallyCollected`):
temporal reasoning under fairness is outside the prover's reach.

## 6. Not modelled, and the plan

1. Proofs: `ReconciledHoldsPlace` with upgrades as long as nothing fails; with an `if`, `FailureStops` as
   long as there is no error; `OneLiveJob` for a looping task as far as its errors stay outside the loop.
2. Two engines at once: leader loss (`OnceDo`, `dlock`; the old engine's `start` loop ignores
   its context) on top of `TaskRun`.
3. The services' run limit (`run.go:209`: checked and then acted on without a lock), paused
   tasks (`task.go:67`: `reconcileTask` spins until the pause is lifted), and the database
   collection (`dbgc.go:73`: pages by number while it deletes rows).

Left out for good: executors' cluster I/O, the contents of jobs, snippets (the reconciler
once more, one level down), the services that only read and write the database, and the other
modules of the repository, which `PROJECT.json` lists. The share of the repository the models
cover is therefore small: the engine is some thirteen thousand of its half million lines.
