---------------------------- MODULE PipelineQueue ----------------------------
(* One queue of the pipeline queue manager (reconciler/queuemanage):       *)
(* pipelines wait in it before they are reconciled.  Around it, the        *)
(* goroutines that use it: Listen for each watched pipeline, the goroutine *)
(* that ranges over the pending pipelines, cancel requests and requests    *)
(* that change the queue or the priority of a pipeline.                    *)
(*                                                                         *)
(* q.lock protects less than it seems: doPop and doStopAndRemove of the    *)
(* ranging goroutine change the queue without it.  Steps are cut where     *)
(* that lock is given back, at each access to the database, at the         *)
(* precheck (a call to another service), at each channel operation, and    *)
(* at each access to doneChanByPipelineID of doPop, which holds no lock.   *)
(* (Where such an access meets one of AddPipelineIntoQueue or of           *)
(* PopOutPipeline, which do hold it, the Go runtime may also end the       *)
(* process: concurrent map read and map write.  A behaviour may end at any *)
(* point, so every safety property covers that.)                           *)
EXTENDS PriorityHeap, FiniteSets

CONSTANTS
  Pipelines,
  Created,         \* creation time of each pipeline
  CustomPriority,  \* priority of each pipeline
  Cpu, MaxCpu,     \* resources each pipeline applies for, and the queue has
  Windows,         \* values Concurrency may take
  Modes,           \* a subset of {"STRICT", "LOOSE"}
  Twice,           \* pipelines run while the engine is loading running ones
  Cancelled,       \* pipelines that may be cancelled
  ForceRun,        \* whether a forced run may cancel them too
  Prechecks,       \* a subset of {"failed", "retry", "none"}
  MaxFailures,     \* bound: platform errors
  MaxUpdates,      \* bound: changes of the queue
  MaxUpgrades,     \* bound: priority upgrades
  None

ASSUME PipelineQueueAssumption ==
  /\ IsFiniteSet(Pipelines)
  /\ Created \in [Pipelines -> Int]
  /\ \A p, r \in Pipelines : Created[p] = Created[r] => p = r
  /\ CustomPriority \in [Pipelines -> Nat]
  /\ Cpu \in [Pipelines -> Nat] /\ MaxCpu \in Nat
  /\ Windows \subseteq Nat /\ Windows # {}
  /\ Modes \subseteq {"STRICT", "LOOSE"} /\ Modes # {}
  /\ MaxFailures \in Nat /\ MaxUpdates \in Nat /\ MaxUpgrades \in Nat
  /\ ForceRun \in BOOLEAN
  /\ Prechecks \subseteq {"failed", "retry", "none"}
  /\ None \notin Pipelines /\ None \notin Pipelines \X {1, 2}

(* A goroutine of Listen: the one of the run request, or the one started   *)
(* by loadRunningPipelines.                                                *)
Listeners == Pipelines \X {1, 2}

VARIABLES
  status,      \* status of each pipeline in the database
  tasksDone,   \* pipelines whose tasks have ended
  rejected,    \* history: pipelines the precheck has failed
  items,       \* keys in the live part of the pending array
  tail,        \* keys left behind the live part since the range began
  frozen,      \* the array the range looks at, once an append has left it
  capacity,    \* capacity of the pending array
  priority,    \* priority of the pending item of each pipeline
  processing,  \* keys in the processing queue
  caches,      \* pipelineCaches
  doneCh,      \* doneChanByPipelineID: the listener that waits, or None
  closed,      \* listeners whose channel is closed
  concurrency, \* pq.Concurrency
  window,      \* the processing window
  mode,        \* pq.Mode
  lock,        \* q.lock: the channel its holder is going to use, or None
  pc,          \* where each listener is
  snap,        \* the status each listener has read
  again,       \* listeners whose reconcile failed
  cancel,      \* where the cancel request of each pipeline is
  upgrade,     \* the upgrade request: [at, p, priority, seen]
  custom,      \* custom priority of each pipeline in the database
  asked,       \* the custom priority each listener has read
  rpc,         \* where the ranging goroutine is
  place, count,\* its place in the array and the number of places
  ranging, needReRange, current,
  channel,     \* the channel it is going to send on
  refused,     \* pipelines whose precheck has already asked to wait
  failures, updates, upgrades

pendingVars == <<items, tail, frozen, capacity, priority>>
rowVars == <<status, tasksDone, rejected>>
chanVars == <<doneCh, closed>>
confVars == <<concurrency, window, mode, updates>>
listenVars == <<pc, snap, again, failures>>
upgradeVars == <<upgrade, upgrades, custom, asked>>
rangeVars == <<rpc, place, count, ranging, current, channel, refused>>
vars == <<rowVars, pendingVars, processing, caches, chanVars, confVars, lock,
          listenVars, cancel, upgradeVars, rangeVars, needReRange>>

Statuses == {"Analyzed", "Queue", "Running", "Success", "Failed", "StopByUser"}
IsEnd(s) == s \in {"Success", "Failed", "StopByUser"}
AfterPipelineQueue(s) == s = "Running" \/ IsEnd(s)
CanCancel(s) == s \in {"Queue", "Running"}

NoUpgrade == [at |-> "none", p |-> None, priority |-> 0, seen |-> "Analyzed"]

PipelineQueueTypeOK ==
  /\ status \in [Pipelines -> Statuses]
  /\ tasksDone \subseteq Pipelines /\ rejected \subseteq Pipelines
  /\ items \in Seq(Pipelines) /\ tail \in Seq(Pipelines) /\ frozen \in Seq(Pipelines)
  /\ Cardinality(ToSet(items)) = Len(items) /\ Len(items) <= capacity
  /\ priority \in [Pipelines -> Nat]
  /\ processing \subseteq Pipelines /\ caches \subseteq Pipelines
  /\ doneCh \in [Pipelines -> Listeners \cup {None}] /\ closed \subseteq Listeners
  /\ concurrency \in Windows /\ window \in Windows /\ mode \in Modes
  /\ lock \in Listeners \cup {None}
  /\ pc \in [Listeners -> {"none", "query", "save", "add", "wait", "check", "before",
                           "reconcile", "popout", "unlock", "after", "again", "done", "panic"}]
  /\ snap \in [Listeners -> Statuses]
  /\ again \subseteq Listeners
  /\ cancel \in [Pipelines -> {"none", "popout", "unlock", "done"}]
  /\ upgrade \in [at : {"none", "read", "add"}, p : Pipelines \cup {None}, priority : Nat,
                  seen : Statuses]
  /\ custom \in [Pipelines -> Nat] /\ asked \in [Listeners -> Nat]
  /\ rpc \in {"idle", "next", "validate", "precheck", "mark", "remove", "pop", "read",
              "send", "close", "forget", "strict", "end", "leave", "panic"}
  /\ place \in Nat /\ count \in Nat
  /\ ranging \in BOOLEAN /\ needReRange \in BOOLEAN
  /\ current \in Pipelines \cup {None} /\ channel \in Listeners \cup {None}
  /\ refused \subseteq Pipelines
  /\ failures \in 0 .. MaxFailures /\ updates \in 0 .. MaxUpdates
  /\ upgrades \in 0 .. MaxUpgrades

Init ==
  /\ status = [p \in Pipelines |-> "Analyzed"] /\ tasksDone = {} /\ rejected = {}
  /\ items = <<>> /\ tail = <<>> /\ frozen = <<>> /\ capacity = 0
  /\ priority = CustomPriority
  /\ processing = {} /\ caches = {}
  /\ doneCh = [p \in Pipelines |-> None] /\ closed = {}
  /\ window \in Windows /\ concurrency = window /\ mode \in Modes
  /\ lock = None
  /\ pc = [l \in Listeners |-> IF l[2] = 1 THEN "query" ELSE "none"]
  /\ snap = [l \in Listeners |-> "Analyzed"] /\ again = {}
  /\ cancel = [p \in Pipelines |-> "none"]
  /\ upgrade = NoUpgrade
  /\ custom = CustomPriority /\ asked = [l \in Listeners |-> 0]
  /\ rpc = "idle" /\ place = 0 /\ count = 0
  /\ ranging = FALSE /\ needReRange = FALSE /\ current = None /\ channel = None
  /\ refused = {}
  /\ failures = 0 /\ updates = 0 /\ upgrades = 0

Fail == failures < MaxFailures /\ failures' = failures + 1

-----------------------------------------------------------------------------
(* The pending queue.  A range holds the slice it began with: it shares    *)
(* the array with the queue until an append moves the queue to a new one.  *)

Less(pr, a, b) == pr[a] > pr[b] \/ (pr[a] = pr[b] /\ Created[a] < Created[b])
Order(pr) == {x \in Pipelines \X Pipelines : Less(pr, x[1], x[2])}

Pending == ToSet(items)

(* The array as the range sees it.                                         *)
View == IF frozen # <<>> THEN frozen ELSE items \o tail

(* Remove: the removed key stays in the array, behind the live part.       *)
(* A mistake: the last item is not moved down or up.                       *)
RemovePendingUnfixed(key) ==
  /\ items' = IF key \in Pending
              THEN Front(Swap(items, CHOOSE i \in DOMAIN items : items[i] = key, Len(items)))
              ELSE items
  /\ tail' = IF ranging /\ frozen = <<>> /\ key \in Pending
              THEN <<key>> \o tail ELSE tail
  /\ UNCHANGED <<frozen, capacity, priority>>

RemovePending(key) ==
  /\ items' = Removed(Order(priority), items, key)
  /\ tail' = IF ranging /\ frozen = <<>> /\ key \in Pending
              THEN <<key>> \o tail ELSE tail
  /\ UNCHANGED <<frozen, capacity, priority>>

(* A mistake: the new priority of a known key does not move it.            *)
AddPendingUnsorted(key, pr) ==
  /\ priority' = [priority EXCEPT ![key] = pr]
  /\ items' = IF key \in Pending THEN items
              ELSE Sorted(Order(priority'), Pending \cup {key})
  /\ capacity' = Cardinality(Pipelines)
  /\ UNCHANGED <<tail, frozen>>

(* A mistake: a known key is appended once more.                           *)
AddPendingTwice(key, pr) ==
  /\ items' = Append(items, key)
  /\ priority' = [priority EXCEPT ![key] = pr]
  /\ capacity' = 2 * Cardinality(Pipelines)
  /\ UNCHANGED <<tail, frozen>>

(* Add: a known key gets the new priority; a new key is appended, in a new *)
(* array if the old one is full.  Either way the array is sorted.          *)
AddPending(key, pr) ==
  LET moves == key \notin Pending /\ Len(items) = capacity
  IN /\ priority' = [priority EXCEPT ![key] = pr]
     /\ items' = Sorted(Order(priority'), Pending \cup {key})
     /\ capacity' = IF ~moves THEN capacity ELSE IF capacity = 0 THEN 1 ELSE 2 * capacity
     /\ frozen' = IF moves /\ ranging THEN View ELSE frozen
     /\ tail' = IF key \in Pending \/ tail = <<>> THEN tail
                ELSE IF moves THEN <<>> ELSE Tail(tail)

(* LeftHasHigherOrder, by the index in the array as it will be.            *)
HigherOrder(s, left, right) ==
  /\ left \in ToSet(s)
  /\ right \in ToSet(s) =>
       \E i, j \in DOMAIN s : s[i] = left /\ s[j] = right /\ i < j

Room == Cardinality(processing) < window

-----------------------------------------------------------------------------
(* Listen.  PutPipelineIntoQueue: query the pipeline, mark it Queue, add   *)
(* it.  A pipeline that has ended, or whose status says that it was let    *)
(* through before, does not wait.                                          *)

(* loadRunningPipelines finds the pipeline in the database and sends it    *)
(* to the reconciler once more.                                            *)
Watch(l) ==
  /\ pc[l] = "none" /\ l[1] \in Twice /\ status[l[1]] \in {"Queue", "Running"}
  /\ pc' = [pc EXCEPT ![l] = "query"]
  /\ UNCHANGED <<rowVars, pendingVars, processing, caches, chanVars, confVars, lock,
                 snap, again, failures, cancel, upgradeVars, rangeVars, needReRange>>

(* The call makes a channel of its own.  (Of a reconcile that failed the   *)
(* old one is forgotten by then, unless the pipeline has a second          *)
(* listener: the model then takes the two for one.)                        *)
QueryPipelineDetail(l) ==
  /\ pc[l] = "query"
  /\ snap' = [snap EXCEPT ![l] = status[l[1]]]
  /\ asked' = [asked EXCEPT ![l] = custom[l[1]]]
  /\ pc' = [pc EXCEPT ![l] = IF IsEnd(status[l[1]]) THEN "check" ELSE "save"]
  /\ closed' = closed \ {l}
  /\ again' = again \ {l}
  /\ UNCHANGED <<rowVars, pendingVars, processing, caches, doneCh, confVars, lock, failures,
                 cancel, upgrade, upgrades, custom, rangeVars, needReRange>>

QueryPipelineQueueDetail(l) ==
  LET s == IF snap[l] = "Analyzed" THEN "Queue" ELSE snap[l]
  IN /\ pc[l] = "save"
     /\ status' = IF snap[l] = "Analyzed" THEN [status EXCEPT ![l[1]] = s] ELSE status
     /\ snap' = [snap EXCEPT ![l] = s]
     /\ pc' = [pc EXCEPT ![l] = "add"]
     /\ UNCHANGED <<tasksDone, rejected, pendingVars, processing, caches, chanVars, confVars, lock,
                    again, failures, cancel, upgradeVars, rangeVars, needReRange>>

NeedsReRange(key) == needReRange' = (needReRange \/ (ranging /\ HigherOrder(items', key, current)))

AddPipelineIntoQueue(l) ==
  LET p == l[1]
  IN /\ pc[l] = "add" /\ lock = None
     /\ caches' = caches \cup {p}
     /\ \/ /\ AfterPipelineQueue(snap[l])
           /\ processing' = processing \cup {p}
           /\ pc' = [pc EXCEPT ![l] = "check"]
           /\ UNCHANGED <<pendingVars, doneCh>>
        \/ /\ ~AfterPipelineQueue(snap[l])
           /\ AddPending(p, asked[l])
           /\ doneCh' = [doneCh EXCEPT ![p] = l]
           /\ pc' = [pc EXCEPT ![l] = "wait"]
           /\ UNCHANGED processing
     /\ NeedsReRange(p)
     /\ UNCHANGED <<rowVars, closed, confVars, lock, snap, again, failures, cancel,
                    upgradeVars, rangeVars>>

(* Popped: an ended pipeline is not reconciled.                            *)
CheckPipeline(l) ==
  /\ pc[l] = "check"
  /\ snap' = [snap EXCEPT ![l] = status[l[1]]]
  /\ pc' = [pc EXCEPT ![l] = IF IsEnd(status[l[1]]) THEN "done" ELSE "before"]
  /\ UNCHANGED <<rowVars, pendingVars, processing, caches, chanVars, confVars, lock,
                 again, failures, cancel, upgradeVars, rangeVars, needReRange>>

(* A failed write ends the goroutine.                                      *)
UpdateStatusBeforeReconcile(l) ==
  /\ pc[l] = "before"
  /\ \/ /\ status' = IF snap[l] = "Running" THEN status
                     ELSE [status EXCEPT ![l[1]] = "Running"]
        /\ pc' = [pc EXCEPT ![l] = "reconcile"]
        /\ UNCHANGED failures
     \/ /\ snap[l] # "Running" /\ Fail
        /\ pc' = [pc EXCEPT ![l] = "done"]
        /\ UNCHANGED status
  /\ UNCHANGED <<tasksDone, rejected, pendingVars, processing, caches, chanVars, confVars, lock,
                 snap, again, cancel, upgradeVars, rangeVars, needReRange>>

(* The tasks of a pipeline end (TaskRun).                                  *)
TasksEnd(p) ==
  /\ p \notin tasksDone /\ \E l \in Listeners : l[1] = p /\ pc[l] = "reconcile"
  /\ tasksDone' = tasksDone \cup {p}
  /\ UNCHANGED <<status, rejected, pendingVars, processing, caches, chanVars, confVars, lock,
                 listenVars, cancel, upgradeVars, rangeVars, needReRange>>

(* reconcile returns when the tasks or the pipeline have ended, when       *)
(* another goroutine has the tasks in work, or with an error.              *)
ReconcileReturns(l) ==
  /\ pc[l] = "reconcile"
  /\ \/ /\ \/ l[1] \in tasksDone
           \/ IsEnd(status[l[1]])
           \/ \E m \in Listeners \ {l} : m[1] = l[1] /\ pc[m] = "reconcile"
        /\ UNCHANGED <<again, failures>>
     \/ Fail /\ again' = again \cup {l}
  /\ pc' = [pc EXCEPT ![l] = "popout"]
  /\ UNCHANGED <<rowVars, pendingVars, processing, caches, chanVars, confVars, lock,
                 snap, cancel, upgradeVars, rangeVars, needReRange>>

(* A mistake: the place is given back only if the pipeline was pending.    *)
PopOutPendingOnly(p) ==
  /\ lock = None
  /\ IF Room THEN RemovePending(p) ELSE UNCHANGED pendingVars
  /\ processing' = IF p \in Pending THEN processing \ {p} ELSE processing
  /\ caches' = caches \ {p}
  /\ lock' = doneCh[p]

(* PopOutPipeline, under q.lock: PopPendingKey (which refuses when the     *)
(* window is full), PopProcessing, and the channel, if there is one.       *)
PopOut(p) ==
  /\ lock = None
  /\ IF Room THEN RemovePending(p) ELSE UNCHANGED pendingVars
  /\ processing' = processing \ {p}
  /\ caches' = caches \ {p}
  /\ lock' = doneCh[p]

(* Sending wakes the listener, if it still waits; the channel is closed    *)
(* and forgotten, all of it under q.lock.                                  *)
Signalled(l) == [pc EXCEPT ![l] = "check"]
CloseChannel(l) ==
  /\ closed' = closed \cup {l}
  /\ doneCh' = [doneCh EXCEPT ![l[1]] = None]

TeardownCurrentReconcile(l) ==
  /\ pc[l] = "popout"
  /\ PopOut(l[1])
  /\ pc' = [pc EXCEPT ![l] = IF doneCh[l[1]] = None THEN "after" ELSE "unlock"]
  /\ UNCHANGED <<rowVars, chanVars, confVars, snap, again, failures, cancel,
                 upgradeVars, rangeVars, needReRange>>

(* When doPop has woken the listener the send blocks, with q.lock held,    *)
(* until doPop closes the channel, and then panics.                        *)
TeardownSignals(l) ==
  /\ pc[l] = "unlock"
  /\ \/ /\ lock \notin closed /\ pc[lock] = "wait"
        /\ pc' = [Signalled(lock) EXCEPT ![l] = "after"]
        /\ CloseChannel(lock)
        /\ lock' = None
     \/ /\ lock \in closed
        /\ pc' = [pc EXCEPT ![l] = "panic"]
        /\ UNCHANGED <<lock, chanVars>>
  /\ UNCHANGED <<rowVars, pendingVars, processing, caches, confVars, snap, again, failures,
                 cancel, upgradeVars, rangeVars, needReRange>>

(* The status is calculated from the tasks in the database.  After an      *)
(* error that is Running, Analyzed when none of them was begun, or Success *)
(* when none was created (PipelineReconciler has the tasks).               *)
UpdateStatusAfterReconcile(l) ==
  LET p == l[1]
  IN /\ pc[l] = "after"
     /\ \/ IsEnd(status[p]) /\ UNCHANGED status
        \/ ~IsEnd(status[p]) /\ p \in tasksDone /\ status' = [status EXCEPT ![p] = "Success"]
        \/ ~IsEnd(status[p]) /\ p \notin tasksDone /\ UNCHANGED status
        \/ /\ ~IsEnd(status[p]) /\ p \notin tasksDone /\ l \in again
           /\ \E calculated \in {"Analyzed", "Success"} :
                status' = [status EXCEPT ![p] = calculated]
     /\ pc' = [pc EXCEPT ![l] = IF l \in again THEN "again" ELSE "done"]
     /\ UNCHANGED <<tasksDone, rejected, pendingVars, processing, caches, chanVars, confVars, lock,
                    snap, again, failures, cancel, upgradeVars, rangeVars, needReRange>>

ReconcileAgain(l) ==
  /\ pc[l] = "again"
  /\ pc' = [pc EXCEPT ![l] = "query"]
  /\ UNCHANGED <<rowVars, pendingVars, processing, caches, chanVars, confVars, lock,
                 snap, again, failures, cancel, upgradeVars, rangeVars, needReRange>>

-----------------------------------------------------------------------------
(* Requests of users.                                                      *)

(* The cancel endpoint ends the pipeline and then pops it out of the       *)
(* queue; a forced run of another pipeline only ends it.                   *)
CancelPipeline(p) ==
  /\ p \in Cancelled /\ cancel[p] = "none" /\ CanCancel(status[p])
  /\ status' = [status EXCEPT ![p] = "StopByUser"]
  /\ \/ cancel' = [cancel EXCEPT ![p] = "popout"]
     \/ ForceRun /\ cancel' = [cancel EXCEPT ![p] = "done"]
  /\ UNCHANGED <<tasksDone, rejected, pendingVars, processing, caches, chanVars, confVars, lock,
                 listenVars, upgradeVars, rangeVars, needReRange>>

CancelPopsOut(p) ==
  /\ cancel[p] = "popout"
  /\ PopOut(p)
  /\ cancel' = [cancel EXCEPT ![p] = IF doneCh[p] = None THEN "done" ELSE "unlock"]
  /\ UNCHANGED <<rowVars, chanVars, confVars, listenVars, upgradeVars, rangeVars, needReRange>>

(* The HTTP server recovers the panic of a send on a closed channel.       *)
CancelSignals(p) ==
  /\ cancel[p] = "unlock"
  /\ lock' = None
  /\ cancel' = [cancel EXCEPT ![p] = "done"]
  /\ \/ /\ lock \notin closed /\ pc[lock] = "wait"
        /\ pc' = Signalled(lock)
        /\ CloseChannel(lock)
     \/ lock \in closed /\ UNCHANGED <<pc, chanVars>>
  /\ UNCHANGED <<rowVars, pendingVars, processing, caches, confVars, snap, again, failures,
                 upgradeVars, rangeVars, needReRange>>

(* Queue.Update, for a changed queue or by the next IdempotentAddQueue,    *)
(* whose lock lets one call in: the queue is replaced, then the window.    *)
UpdateQueue ==
  /\ updates < MaxUpdates /\ window = concurrency
  /\ updates' = updates + 1
  /\ concurrency' \in Windows /\ mode' \in Modes
  /\ UNCHANGED <<rowVars, pendingVars, processing, caches, chanVars, window, lock, listenVars,
                 cancel, upgradeVars, rangeVars, needReRange>>

SetProcessingWindow ==
  /\ window # concurrency
  /\ window' = concurrency
  /\ UNCHANGED <<rowVars, pendingVars, processing, caches, chanVars, concurrency, mode,
                 updates, lock, listenVars, cancel, upgradeVars, rangeVars, needReRange>>

(* BatchUpdatePipelinePriorityInQueue, for one pipeline: it is read from   *)
(* the database; under q.lock it must be pending; its priority is written  *)
(* and it is added again, above the first pending item, unless the write   *)
(* fails.                                                                  *)
UpgradeRead(p) ==
  /\ upgrades < MaxUpgrades /\ upgrade.at = "none"
  /\ upgrades' = upgrades + 1
  /\ upgrade' = [at |-> "read", p |-> p, priority |-> 0, seen |-> status[p]]
  /\ UNCHANGED <<rowVars, pendingVars, processing, caches, chanVars, confVars, lock,
                 listenVars, cancel, custom, asked, rangeVars, needReRange>>

UpgradeCheck ==
  /\ upgrade.at = "read" /\ lock = None
  /\ \/ /\ upgrade.p \in Pending
        /\ upgrade' = [upgrade EXCEPT !.at = "add", !.priority = priority[items[1]] + 1]
        /\ lock' = <<upgrade.p, 1>>
     \/ /\ upgrade.p \notin Pending
        /\ upgrade' = NoUpgrade
        /\ UNCHANGED lock
  /\ UNCHANGED <<rowVars, pendingVars, processing, caches, chanVars, confVars, listenVars,
                 cancel, upgrades, custom, asked, rangeVars, needReRange>>

UpgradeAdd ==
  LET p == upgrade.p
  IN /\ upgrade.at = "add"
     /\ upgrade' = NoUpgrade
     /\ lock' = None
     /\ \/ /\ custom' = [custom EXCEPT ![p] = upgrade.priority]
           /\ caches' = caches \cup {p}
           /\ \/ /\ AfterPipelineQueue(upgrade.seen)
                 /\ processing' = processing \cup {p}
                 /\ UNCHANGED pendingVars
              \/ /\ ~AfterPipelineQueue(upgrade.seen)
                 /\ AddPending(p, upgrade.priority)
                 /\ UNCHANGED processing
           /\ NeedsReRange(p)
        \/ UNCHANGED <<custom, caches, processing, pendingVars, needReRange>>
     /\ UNCHANGED <<rowVars, chanVars, confVars, listenVars, cancel, upgrades, asked, rangeVars>>

-----------------------------------------------------------------------------
(* RangePendingQueue, by the queue's one goroutine, on a tick or at once   *)
(* after an addition.                                                      *)

RangePendingQueue ==
  /\ rpc = "idle" /\ lock = None /\ items # <<>>
  /\ rpc' = "next" /\ ranging' = TRUE
  /\ place' = 1 /\ count' = Len(items)
  /\ UNCHANGED <<rowVars, pendingVars, processing, caches, chanVars, confVars, lock,
                 listenVars, cancel, upgradeVars, current, channel, refused, needReRange>>

(* After an item: stop, or go to the next place.                           *)
Continue(stop) ==
  /\ rpc' = IF stop \/ needReRange \/ place = count THEN "end" ELSE "next"
  /\ place' = place + 1

(* A mistake: the mode is not looked at.                                   *)
IsStrictModeIgnored == FALSE

IsStrictMode == mode = "STRICT"

(* The item at the current place.  Without its pipeline it is removed.     *)
VisitItem ==
  LET p == View[place]
  IN /\ rpc = "next" /\ lock = None
     /\ current' = p
     /\ \/ /\ p \in caches
           /\ rpc' = "validate"
           /\ UNCHANGED <<pendingVars, place>>
        \/ /\ p \notin caches
           /\ RemovePending(p)
           /\ Continue(FALSE)
     /\ UNCHANGED <<rowVars, processing, caches, chanVars, confVars, lock, listenVars, cancel,
                    upgradeVars, count, ranging, channel, refused, needReRange>>

ValidateCapacity == Cardinality(processing) < concurrency
ValidateFreeResources(p) ==
  Cpu[p] + FoldFunctionOnSet(+, 0, Cpu, processing) <= MaxCpu

(* The resources of a pipeline that is not cached are a nil dereference.   *)
ValidatePipeline ==
  LET valid == ValidateCapacity /\ ValidateFreeResources(current)
  IN /\ rpc = "validate" /\ lock = None
     /\ \/ /\ ValidateCapacity /\ ~(processing \subseteq caches)
           /\ rpc' = "panic" /\ UNCHANGED place
        \/ /\ ~(ValidateCapacity /\ ~(processing \subseteq caches))
           /\ IF valid THEN rpc' = "precheck" /\ UNCHANGED place
              ELSE Continue(IsStrictMode)
     /\ UNCHANGED <<rowVars, pendingVars, processing, caches, chanVars, confVars, lock,
                    listenVars, cancel, upgradeVars, count, ranging, current, channel, refused,
                    needReRange>>

(* The precheck hook: passed, failed for good, to be retried, no result.   *)
(* (The last two at most once for a pipeline.)                             *)
Precheck ==
  /\ rpc = "precheck" /\ lock = None
  /\ \/ rpc' = "pop" /\ UNCHANGED <<place, refused>>
     \/ "failed" \in Prechecks /\ rpc' = "mark" /\ UNCHANGED <<place, refused>>
     \/ /\ "retry" \in Prechecks /\ current \notin refused
        /\ refused' = refused \cup {current}
        /\ Continue(IsStrictMode)
     \/ /\ "none" \in Prechecks /\ current \notin refused
        /\ refused' = refused \cup {current}
        /\ Continue(FALSE)
  /\ UNCHANGED <<rowVars, pendingVars, processing, caches, chanVars, confVars, lock,
                 listenVars, cancel, upgradeVars, count, ranging, current, channel, needReRange>>

(* ensureMarkPipelineFailed, then doStopAndRemove.                         *)
MarkPipelineFailed ==
  /\ rpc = "mark"
  /\ status' = [status EXCEPT ![current] = "Failed"]
  /\ rejected' = rejected \cup {current}
  /\ rpc' = "remove"
  /\ UNCHANGED <<tasksDone, pendingVars, processing, caches, chanVars, confVars, lock,
                 listenVars, cancel, upgradeVars, place, count, ranging, current, channel,
                 refused, needReRange>>

DoStopAndRemove ==
  /\ rpc = "remove"
  /\ RemovePending(current)
  /\ rpc' = "strict"
  /\ UNCHANGED <<rowVars, processing, caches, chanVars, confVars, lock, listenVars, cancel,
                 upgradeVars, place, count, ranging, current, channel, refused, needReRange>>

(* A mistake: the popped pipeline is not put into the processing queue.    *)
DoPopUncounted ==
  /\ rpc = "pop"
  /\ RemovePending(current)
  /\ rpc' = IF Room /\ current \in Pending THEN "read" ELSE "end"
  /\ UNCHANGED <<rowVars, processing, caches, chanVars, confVars, lock, listenVars, cancel,
                 upgradeVars, place, count, ranging, current, channel, refused, needReRange>>

(* A mistake: the window is not looked at again.                           *)
DoPopUnchecked ==
  /\ rpc = "pop"
  /\ RemovePending(current)
  /\ processing' = IF current \in Pending THEN processing \cup {current} ELSE processing
  /\ rpc' = IF current \in Pending THEN "read" ELSE "end"
  /\ UNCHANGED <<rowVars, caches, chanVars, confVars, lock, listenVars, cancel,
                 upgradeVars, place, count, ranging, current, channel, refused, needReRange>>

(* doPop: PopPendingKey, the channel, the send, the close, the delete.     *)
DoPop ==
  /\ rpc = "pop"
  /\ \/ /\ Room /\ current \in Pending
        /\ RemovePending(current)
        /\ processing' = processing \cup {current}
        /\ rpc' = "read"
     \/ /\ ~(Room /\ current \in Pending)
        /\ rpc' = "end"
        /\ UNCHANGED <<pendingVars, processing>>
  /\ UNCHANGED <<rowVars, caches, chanVars, confVars, lock, listenVars, cancel, upgradeVars,
                 place, count, ranging, current, channel, refused, needReRange>>

(* A mistake: the channel is looked up under another key.                  *)
ReadDoneChGone ==
  /\ rpc = "read"
  /\ channel' = None
  /\ rpc' = "strict"
  /\ UNCHANGED <<rowVars, pendingVars, processing, caches, chanVars, confVars, lock,
                 listenVars, cancel, upgradeVars, place, count, ranging, current, refused,
                 needReRange>>

ReadDoneCh ==
  /\ rpc = "read"
  /\ channel' = doneCh[current]
  /\ rpc' = IF channel' = None THEN "strict" ELSE "send"
  /\ UNCHANGED <<rowVars, pendingVars, processing, caches, chanVars, confVars, lock,
                 listenVars, cancel, upgradeVars, place, count, ranging, current, refused,
                 needReRange>>

SendDone ==
  /\ rpc = "send"
  /\ \/ /\ channel \notin closed /\ pc[channel] = "wait"
        /\ pc' = Signalled(channel)
        /\ rpc' = "close"
     \/ /\ channel \in closed
        /\ rpc' = "panic"
        /\ UNCHANGED pc
  /\ UNCHANGED <<rowVars, pendingVars, processing, caches, chanVars, confVars, lock, snap,
                 again, failures, cancel, upgradeVars, place, count, ranging, current, channel,
                 refused, needReRange>>

CloseDone ==
  /\ rpc = "close"
  /\ closed' = closed \cup {channel}
  /\ rpc' = "forget"
  /\ UNCHANGED <<rowVars, pendingVars, processing, caches, doneCh, confVars, lock, listenVars,
                 cancel, upgradeVars, place, count, ranging, current, channel, refused,
                 needReRange>>

(* A mistake: the closed channel is not forgotten.                         *)
ForgetDoneKept ==
  /\ rpc = "forget"
  /\ channel' = None
  /\ rpc' = "strict"
  /\ UNCHANGED <<rowVars, pendingVars, processing, caches, chanVars, confVars, lock,
                 listenVars, cancel, upgradeVars, place, count, ranging, current, refused,
                 needReRange>>

ForgetDone ==
  /\ rpc = "forget"
  /\ doneCh' = [doneCh EXCEPT ![current] = None]
  /\ channel' = None
  /\ rpc' = "strict"
  /\ UNCHANGED <<rowVars, pendingVars, processing, caches, closed, confVars, lock, listenVars,
                 cancel, upgradeVars, place, count, ranging, current, refused, needReRange>>

(* In strict mode the range ends after a pop.                              *)
StopIfStrict ==
  /\ rpc = "strict" /\ lock = None
  /\ Continue(IsStrictMode)
  /\ UNCHANGED <<rowVars, pendingVars, processing, caches, chanVars, confVars, lock,
                 listenVars, cancel, upgradeVars, count, ranging, current, channel, refused,
                 needReRange>>

(* The deferred functions: the flag for a new range, then the ranging flag.*)
UnsetNeedReRange ==
  /\ rpc = "end" /\ lock = None
  /\ needReRange' = FALSE
  /\ rpc' = "leave"
  /\ UNCHANGED <<rowVars, pendingVars, processing, caches, chanVars, confVars, lock,
                 listenVars, cancel, upgradeVars, place, count, ranging, current, channel,
                 refused>>

LeaveRange ==
  /\ rpc = "leave" /\ lock = None
  /\ rpc' = "idle" /\ ranging' = FALSE
  /\ place' = 0 /\ count' = 0 /\ tail' = <<>> /\ frozen' = <<>>
  /\ UNCHANGED <<rowVars, items, capacity, priority, processing, caches, chanVars, confVars,
                 lock, listenVars, cancel, upgradeVars, current, channel, refused, needReRange>>

-----------------------------------------------------------------------------
Listen(l) ==
  \/ Watch(l) \/ QueryPipelineDetail(l) \/ QueryPipelineQueueDetail(l)
  \/ AddPipelineIntoQueue(l) \/ CheckPipeline(l) \/ UpdateStatusBeforeReconcile(l)
  \/ ReconcileReturns(l) \/ TeardownCurrentReconcile(l) \/ TeardownSignals(l)
  \/ UpdateStatusAfterReconcile(l) \/ ReconcileAgain(l)

RangeStep ==
  \/ RangePendingQueue \/ VisitItem \/ ValidatePipeline \/ Precheck \/ MarkPipelineFailed
  \/ DoStopAndRemove \/ DoPop \/ ReadDoneCh \/ SendDone \/ CloseDone \/ ForgetDone
  \/ StopIfStrict \/ UnsetNeedReRange \/ LeaveRange

(* A panic ends the process.                                               *)
Alive == rpc # "panic" /\ \A l \in Listeners : pc[l] # "panic"

Next ==
  /\ Alive
  /\ \/ \E l \in Listeners : Listen(l)
     \/ \E p \in Pipelines :
          \/ TasksEnd(p) \/ CancelPipeline(p) \/ CancelPopsOut(p) \/ CancelSignals(p)
          \/ UpgradeRead(p)
     \/ UpgradeCheck \/ UpgradeAdd \/ UpdateQueue \/ SetProcessingWindow
     \/ RangeStep

Spec == Init /\ [][Next]_vars
(* The goroutines of a pipeline go on and its tasks end, an update of the  *)
(* queue is finished, the ticker starts a range again and again.  Nothing  *)
(* is assumed of requests.  (Each step changes what its subscript names.)  *)
FairSpec ==
  /\ Spec
  /\ \A p \in Pipelines :
       WF_<<pc, tasksDone>>(Alive /\ (TasksEnd(p) \/ \E l \in {p} \X {1, 2} : Listen(l)))
  /\ WF_window(Alive /\ SetProcessingWindow)
  /\ WF_<<rpc, place>>(Alive /\ RangeStep)

-----------------------------------------------------------------------------
(* Properties.                                                             *)

Popping(p) == current = p /\ rpc \in {"read", "send"}
CancelBegun(p) == cancel[p] # "none"
NoCancel == \A p \in Pipelines : ~CancelBegun(p)
NoRequests == NoCancel /\ upgrades = 0

(* The pending array is a heap in every state, whatever mix of additions   *)
(* that sort it, upgrades and removals from the middle: the first place,   *)
(* where strict mode and the upgrade look, holds the first pipeline.       *)
PendingIsHeap == IsHeap(Order(priority), items)

(* A pipeline that is being reconciled holds a place of the queue, unless  *)
(* it is being cancelled: so no more are reconciled than were let through. *)
(* (Asked as long as no priority was upgraded: an upgrade may add a        *)
(* pipeline that was just popped, whose second pop then races its end.)    *)
ReconciledHoldsPlace ==
  \A l \in Listeners :
    pc[l] = "reconcile" /\ ~CancelBegun(l[1]) /\ upgrades = 0 => l[1] \in processing

(* A place is held for somebody: a listener of the pipeline is going to    *)
(* give it back.  (Asked as long as no write of the status has failed and  *)
(* no priority was upgraded, and of pipelines that were neither cancelled  *)
(* nor failed by the precheck.)                                            *)
PlaceHasOwner ==
  \A p \in processing :
    \/ failures > 0 \/ upgrades > 0 \/ CancelBegun(p) \/ p \in rejected
    \/ \E l \in Listeners :
         l[1] = p /\ pc[l] \in {"wait", "check", "before", "reconcile", "popout"}

(* A goroutine that waits to be popped is known to the queue, and its      *)
(* pipeline is pending or just being popped: nobody waits in vain - unless *)
(* the precheck has failed its pipeline, which is then removed and never   *)
(* signalled.                                                              *)
WaiterIsKnown ==
  \A l \in Listeners : pc[l] = "wait" =>
    \/ l[1] \in rejected
    \/ doneCh[l[1]] = l /\ (l[1] \in Pending \/ Popping(l[1]))
    \/ lock = l

(* A pipeline moves from pending to processing only when fewer pipelines   *)
(* are processed than the window allows, however the check of the          *)
(* capacity (by the Concurrency of the queue), the precheck, a change of   *)
(* the queue, in two steps, and the pop interleave.                        *)
PopWithinConcurrency ==
  [][\A p \in processing' \ processing :
       p \in Pending /\ p \notin ToSet(items') => Cardinality(processing) < window]_vars

(* In strict mode the pipeline that is popped is the first of those        *)
(* pending, or the precheck of the first had no result: the range then     *)
(* goes on in the order of the array, which is that of a heap.  Unless one *)
(* was added before it while it was being checked, which the flag for a    *)
(* new range then says.                                                    *)
(* (Asked as long as nothing was cancelled, the mode did not change, and   *)
(* no pipeline was added for a second time, after an error or upgraded:    *)
(* the flag compares it with the last key looked at, which may be itself.) *)
StrictOrder ==
  [][ (/\ mode = "STRICT" /\ DoPop /\ rpc' = "read" /\ ~needReRange
       /\ NoRequests /\ updates = 0 /\ failures = 0)
      => \E first \in Pending :
           /\ \A p \in Pending : ~Less(priority, p, first)
           /\ first = current \/ first \in refused]_vars

(* As long as nothing is cancelled or upgraded, the ranging goroutine does *)
(* not panic: nobody else closes a channel it has looked up, and all       *)
(* pipelines in process are cached.  A listener may: what a woken listener *)
(* finds under its pipeline when it gives the place back is a channel it   *)
(* will send on in vain.  But it finds it there only while the doPop that  *)
(* woke it has not come to close and forget it.                            *)
OnlyHastyPanics ==
  NoRequests =>
    /\ rpc # "panic"
    /\ \A l \in Listeners :
         pc[l] \in {"check", "before", "reconcile", "popout"} /\ doneCh[l[1]] = l =>
           rpc \in {"close", "forget"} /\ channel = l

(* Every pipeline that is run ends, with or without having waited: places  *)
(* come back and the range finds those that wait, and a listener that      *)
(* waits with q.lock held for doPop to close its channel is not waited for *)
(* by doPop.  (As long as nothing is cancelled or upgraded, no write fails *)
(* or listener panics, and no precheck fails a pipeline that was popped    *)
(* already, which keeps its place for ever.)                               *)
EveryRunEnds ==
  [](/\ NoRequests /\ failures = 0 /\ \A l \in Listeners : pc[l] # "panic"
     /\ processing \cap rejected = {}) =>
    \A p \in Pipelines : <>IsEnd(status[p])
=============================================================================
