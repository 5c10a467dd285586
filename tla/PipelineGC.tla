----------------------------- MODULE PipelineGC -----------------------------
(* The garbage collection of one namespace: a pipeline and the reruns of   *)
(* its failed tasks keep their jobs in it.  When a pipeline ends, waitGC   *)
(* puts a key for the namespace with a lease into etcd, and a subkey for   *)
(* the pipeline.  When the lease expires every instance of the engine      *)
(* learns that the key is deleted, and one of them should delete the jobs  *)
(* of the pipelines that have a subkey.  A rerun that finds the key while  *)
(* it runs replaces the lease by a long one.                               *)
(*                                                                         *)
(* Steps are cut at each access to etcd, the database or the executors.    *)
EXTENDS Integers, FiniteSets, Bags

CONSTANTS
  Pipelines,
  Origin,        \* the pipeline the others are reruns of
  Instances,     \* number of engines that watch the keys
  Namespace,     \* the key of the namespace
  MaxHandlers,   \* bound: goroutines at work when the short, the long lease expires
  MaxDelays,     \* bound: reconciles of a pipeline that find the key
  MaxFaults      \* bound: platform errors, and times the engine is down, together

ASSUME PipelineGCAssumption ==
  /\ IsFiniteSet(Pipelines) /\ Origin \in Pipelines /\ Namespace \notin Pipelines
  /\ Instances \in Nat \ {0}
  /\ MaxHandlers \in [{"short", "long"} -> Nat] /\ MaxDelays \in Nat /\ MaxFaults \in Nat

VARIABLES
  status,       \* of each pipeline in the database; "copied": a rerun is being made
  jobs,         \* its jobs in the cluster
  gcMark,       \* Extra.CompleteReconcilerGC
  teardownMark, \* Extra.CompleteReconcilerTeardown
  readMark,     \* gcMark as it was when the pipeline ended
  wait,         \* where the waitGC of each pipeline is
  nsKey,        \* the lease of the key of the namespace
  subKeys,      \* the pipelines that have a subkey
  lock,         \* the key that serves as lock
  handlers,     \* bag of the goroutines that handle a deleted key
  up,
  delays, faults,
  disturbed,    \* history: pipelines whose keys something got in the way of
  unguarded     \* history: pipelines at work whose subkey was left unprotected

dbVars == <<status, gcMark, teardownMark, readMark>>
etcdVars == <<nsKey, subKeys, lock>>
boundVars == <<delays, faults>>
historyVars == <<disturbed, unguarded>>
vars == <<dbVars, jobs, wait, etcdVars, handlers, up, boundVars, historyVars>>

Handler ==
  [at : {"begin", "lock", "list", "mark", "delete", "remove", "release"},
   key : Pipelines \cup {Namespace}, subKeys : SUBSET Pipelines, failed : BOOLEAN]
  \cup [at : {"retry"}, key : {Namespace}, subKeys : {{}}, failed : {TRUE}]

IsEnd(p) == status[p] \in {"teardown", "ended"}
AtWork(p) == status[p] \in {"running", "teardown"}

(* A rerun is made only of a pipeline that has ended, only a pipeline that *)
(* runs delays the collection, and nothing goes on while the engine is     *)
(* down.                                                                   *)
PipelineGCTypeOK ==
  /\ status \in [Pipelines -> {"none", "copied", "running", "teardown", "ended"}]
  /\ jobs \in [Pipelines -> {"none", "some", "deleted"}]
  /\ gcMark \in [Pipelines -> BOOLEAN] /\ teardownMark \in [Pipelines -> BOOLEAN]
  /\ readMark \in [Pipelines -> BOOLEAN]
  /\ wait \in [Pipelines -> {"none", "delay", "delaySub", "wait", "waitSub"}]
  /\ nsKey \in {"none", "short", "long"} /\ subKeys \subseteq Pipelines
  /\ lock \in BOOLEAN /\ up \in BOOLEAN
  /\ BagToSet(handlers) \subseteq Handler
  /\ delays \in [Pipelines -> 0 .. MaxDelays]
  /\ faults \in 0 .. MaxFaults
  /\ disturbed \subseteq Pipelines /\ unguarded \subseteq Pipelines
  /\ \A p \in Pipelines :
       /\ p # Origin /\ status[p] # "none" => IsEnd(Origin)
       /\ wait[p] \in {"delay", "delaySub"} => status[p] = "running"
       /\ ~up => wait[p] = "none" /\ status[p] \notin {"copied", "teardown"}
  /\ ~up => handlers = EmptyBag

Init ==
  /\ status = [p \in Pipelines |-> IF p = Origin THEN "running" ELSE "none"]
  /\ jobs = [p \in Pipelines |-> IF p = Origin THEN "some" ELSE "none"]
  /\ gcMark = [p \in Pipelines |-> FALSE]
  /\ teardownMark = [p \in Pipelines |-> FALSE]
  /\ readMark = [p \in Pipelines |-> FALSE]
  /\ wait = [p \in Pipelines |-> "none"]
  /\ nsKey = "none" /\ subKeys = {} /\ lock = FALSE
  /\ handlers = EmptyBag
  /\ up = TRUE
  /\ delays = [p \in Pipelines |-> 0]
  /\ faults = 0
  /\ disturbed = {} /\ unguarded = {}

Fail == faults < MaxFaults /\ faults' = faults + 1 /\ UNCHANGED delays

-----------------------------------------------------------------------------
(* The pipelines.                                                          *)

(* A mistake: a pipeline that still runs can be rerun.                     *)
CanRerunAny == ~gcMark[Origin]
CanRerun == IsEnd(Origin) /\ ~gcMark[Origin]

(* RerunFailed reads the origin and copies its Extra, without the mark of  *)
(* the collection and with the other one,                                  *)
RerunFailed(p) ==
  /\ up /\ status[p] = "none" /\ CanRerun
  /\ status' = [status EXCEPT ![p] = "copied"]
  /\ teardownMark' = [teardownMark EXCEPT ![p] = teardownMark[Origin]]
  /\ UNCHANGED <<gcMark, readMark, jobs, wait, etcdVars, handlers, up, boundVars, historyVars>>

(* and creates the new pipeline in the same namespace.                     *)
RunPipeline(p) ==
  /\ status[p] = "copied"
  /\ status' = [status EXCEPT ![p] = "running"]
  /\ UNCHANGED <<gcMark, teardownMark, readMark, jobs, wait, etcdVars, handlers, up,
                 boundVars, historyVars>>

StartJobs(p) ==
  /\ up /\ status[p] = "running" /\ wait[p] = "none" /\ jobs[p] # "some"
  /\ jobs' = [jobs EXCEPT ![p] = "some"]
  /\ UNCHANGED <<dbVars, wait, etcdVars, handlers, up, boundVars, historyVars>>

(* reconcile calls delayGC, which does something if the key is there.      *)
DelayGC(p) ==
  /\ up /\ status[p] = "running" /\ wait[p] = "none" /\ nsKey # "none"
  /\ delays[p] < MaxDelays
  /\ delays' = [delays EXCEPT ![p] = @ + 1]
  /\ wait' = [wait EXCEPT ![p] = "delay"]
  /\ UNCHANGED <<dbVars, jobs, etcdVars, handlers, up, faults, historyVars>>

(* updateStatusAfterReconcile reads the pipeline and writes its end.       *)
EndPipeline(p) ==
  /\ up /\ status[p] = "running" /\ wait[p] = "none"
  /\ status' = [status EXCEPT ![p] = "teardown"]
  /\ readMark' = [readMark EXCEPT ![p] = gcMark[p]]
  /\ UNCHANGED <<gcMark, teardownMark, jobs, wait, etcdVars, handlers, up, boundVars, historyVars>>

(* teardownPipeline writes the Extra that was read, with its mark, and     *)
(* calls waitGC, even when the write fails.                                *)
TeardownPipeline(p) ==
  /\ status[p] = "teardown"
  /\ status' = [status EXCEPT ![p] = "ended"]
  /\ readMark' = [readMark EXCEPT ![p] = FALSE]
  /\ \/ /\ teardownMark' = [teardownMark EXCEPT ![p] = TRUE]
        /\ gcMark' = [gcMark EXCEPT ![p] = readMark[p]]
        /\ UNCHANGED boundVars
     \/ Fail /\ UNCHANGED <<gcMark, teardownMark>>
  /\ wait' = [wait EXCEPT ![p] = "wait"]
  /\ UNCHANGED <<jobs, etcdVars, handlers, up, historyVars>>

(* The compensator, once a day, when what it began the day before is over: *)
(* ended pipelines without one of the marks.                               *)
NeedGC(p) == status[p] = "ended" /\ ~gcMark[p] /\ ~teardownMark[p]
Compensate(p) ==
  /\ up /\ NeedGC(p) /\ wait[p] = "none"
  /\ nsKey # "short" /\ handlers = EmptyBag
  /\ wait' = [wait EXCEPT ![p] = "wait"]
  /\ UNCHANGED <<dbVars, jobs, etcdVars, handlers, up, boundVars, historyVars>>

-----------------------------------------------------------------------------
(* waitGC.                                                                 *)

(* A mistake: the time a pipeline is kept is short for delayGC too.        *)
LeaseShort(p) == "short"
Lease(p) == IF wait[p] = "delay" THEN "long" ELSE "short"

(* A put gets in its own way when a collection is under way.               *)
Collecting == lock \/ handlers # EmptyBag

(* The pipelines at work whose subkey, there or about to be put, only the  *)
(* long lease protects, which another one replaces or which ends.          *)
Exposed(lease) ==
  {p \in Pipelines :
     /\ AtWork(p) /\ (p \in subKeys \/ wait[p] = "delaySub")
     /\ nsKey = "long" /\ lease # "long"}

PutKey(p) ==
  /\ wait[p] \in {"delay", "wait"}
  /\ \/ /\ nsKey' = Lease(p)
        /\ wait' = [wait EXCEPT ![p] = IF wait[p] = "delay" THEN "delaySub" ELSE "waitSub"]
        /\ disturbed' = disturbed \cup (IF Collecting THEN {p} ELSE {})
        /\ unguarded' = unguarded \cup Exposed(Lease(p))
        /\ UNCHANGED boundVars
     \/ /\ Fail
        /\ wait' = [wait EXCEPT ![p] = "none"]
        /\ disturbed' = disturbed \cup {p}
        /\ UNCHANGED <<nsKey, unguarded>>
  /\ UNCHANGED <<dbVars, jobs, subKeys, lock, handlers, up>>

PutSubKey(p) ==
  /\ wait[p] \in {"delaySub", "waitSub"}
  /\ wait' = [wait EXCEPT ![p] = "none"]
  /\ \/ /\ subKeys' = subKeys \cup {p}
        /\ disturbed' = disturbed \cup (IF Collecting \/ nsKey = "none" THEN {p} ELSE {})
        /\ unguarded' = unguarded \cup (IF AtWork(p) /\ handlers # EmptyBag THEN {p} ELSE {})
        /\ UNCHANGED boundVars
     \/ /\ Fail
        /\ disturbed' = disturbed \cup {p}
        /\ UNCHANGED <<subKeys, unguarded>>
  /\ UNCHANGED <<dbVars, jobs, nsKey, lock, handlers, up>>

-----------------------------------------------------------------------------
(* ListenGC: each instance starts a goroutine for each deleted key.        *)

Watched(keys) ==
  [h \in {[at |-> IF k = Namespace THEN "lock" ELSE "begin", key |-> k, subKeys |-> {},
            failed |-> FALSE] : k \in IF up THEN keys ELSE {}} |-> Instances]

(* The lease ends, the long one too: it is for two days from the last call *)
(* of reconcile, and a task may take longer.                               *)
Expire ==
  /\ nsKey # "none" /\ BagCardinality(handlers) <= MaxHandlers[nsKey]
  /\ nsKey' = "none"
  /\ unguarded' = unguarded \cup Exposed("none")
  /\ handlers' = handlers (+) Watched({Namespace})
  /\ UNCHANGED <<dbVars, jobs, wait, subKeys, lock, up, boundVars, disturbed>>

Replace(h, S) == handlers' = (handlers (-) SetToBag({h})) (+) SetToBag(S)
Becomes(h, place) == Replace(h, {[h EXCEPT !.at = place]})
Ends(h) == Replace(h, {})
Fails(h) == Fail /\ Replace(h, {[h EXCEPT !.at = "release", !.failed = TRUE, !.subKeys = {}]})

(* A subkey is of the old format, with a lease of its own, when there is   *)
(* no key of the namespace.  An error is dropped.                          *)
Begin(h) ==
  /\ h.at = "begin"
  /\ \/ nsKey # "none" /\ Ends(h) /\ UNCHANGED boundVars
     \/ /\ nsKey = "none"
        /\ Replace(h, {[h EXCEPT !.at = "lock", !.key = Namespace, !.subKeys = {h.key}]})
        /\ UNCHANGED boundVars
     \/ Fail /\ Ends(h)
  /\ UNCHANGED <<dbVars, jobs, wait, etcdVars, up, historyVars>>

(* A mistake: the pipelines are not marked.                                *)
AfterListUnmarked == "delete"
AfterList == "mark"

(* Who does not get the lock deletes it all the same.                      *)
Lock(h) ==
  /\ h.at = "lock"
  /\ \/ /\ ~lock /\ lock' = TRUE
        /\ Becomes(h, IF h.subKeys = {} THEN "list" ELSE AfterList)
        /\ UNCHANGED boundVars
     \/ /\ lock /\ Replace(h, {[h EXCEPT !.at = "release", !.subKeys = {}]})
        /\ UNCHANGED <<lock, boundVars>>
     \/ Fails(h) /\ UNCHANGED lock
  /\ UNCHANGED <<dbVars, jobs, wait, nsKey, subKeys, up, historyVars>>

(* gcNamespace.                                                            *)
List(h) ==
  /\ h.at = "list"
  /\ \/ /\ Replace(h, {[h EXCEPT !.at = AfterList, !.subKeys = subKeys]})
        /\ UNCHANGED boundVars
     \/ Fails(h)
  /\ UNCHANGED <<dbVars, jobs, wait, etcdVars, up, historyVars>>

(* The mark is written with the Extra that was read; without the other     *)
(* mark when that read fails, an error that is ignored.  With an error of  *)
(* a write only some of the pipelines are marked,                          *)
Mark(h) ==
  LET marked(S) == gcMark' = [p \in Pipelines |-> gcMark[p] \/ p \in S]
  IN /\ h.at = "mark"
     /\ \/ marked(h.subKeys) /\ Becomes(h, "delete") /\ UNCHANGED <<teardownMark, boundVars>>
        \/ /\ marked(h.subKeys) /\ Becomes(h, "delete") /\ Fail
           /\ \E S \in SUBSET h.subKeys \ {{}} :
                teardownMark' = [p \in Pipelines |-> teardownMark[p] /\ p \notin S]
        \/ /\ \E S \in SUBSET h.subKeys : S # h.subKeys /\ marked(S) /\ Fails(h)
           /\ UNCHANGED teardownMark
     /\ UNCHANGED <<status, readMark, jobs, wait, etcdVars, up, historyVars>>

(* and only the jobs of some executors deleted.                            *)
BatchDelete(h) ==
  LET deleted(S) ==
        jobs' = [p \in Pipelines |-> IF p \in S /\ jobs[p] = "some" THEN "deleted" ELSE jobs[p]]
  IN /\ h.at = "delete"
     /\ \/ deleted(h.subKeys) /\ Becomes(h, "remove") /\ UNCHANGED boundVars
        \/ \E S \in SUBSET h.subKeys : S # h.subKeys /\ deleted(S) /\ Fails(h)
     /\ UNCHANGED <<dbVars, wait, etcdVars, up, historyVars>>

(* PrefixRemove: also of subkeys that were not listed.                     *)
PrefixRemove(h) ==
  /\ h.at = "remove"
  /\ \/ /\ subKeys' = {}
        /\ handlers' = (handlers (-) SetToBag({h}))
             (+) SetToBag({[h EXCEPT !.at = "release", !.subKeys = {}]}) (+) Watched(subKeys)
        /\ disturbed' = disturbed \cup (subKeys \ h.subKeys)
        /\ UNCHANGED boundVars
     \/ Fails(h) /\ UNCHANGED <<subKeys, disturbed>>
  /\ UNCHANGED <<dbVars, jobs, wait, nsKey, lock, up, unguarded>>

(* A mistake: a collection that failed is given up.                        *)
AfterReleaseGivenUp(h) == {}
AfterRelease(h) == IF h.failed THEN {[h EXCEPT !.at = "retry"]} ELSE {}

(* The deferred functions: the lock is deleted, and after an error the key *)
(* is put again.                                                           *)
Release(h) ==
  /\ h.at = "release"
  /\ lock' = FALSE
  /\ Replace(h, AfterRelease(h))
  /\ UNCHANGED <<dbVars, jobs, wait, nsKey, subKeys, up, boundVars, historyVars>>

Retry(h) ==
  /\ h.at = "retry"
  /\ \/ /\ nsKey' = "short" /\ unguarded' = unguarded \cup Exposed("short")
        /\ UNCHANGED <<boundVars, disturbed>>
     \/ Fail /\ disturbed' = disturbed \cup subKeys /\ UNCHANGED <<nsKey, unguarded>>
  /\ Ends(h)
  /\ UNCHANGED <<dbVars, jobs, wait, subKeys, lock, up>>

-----------------------------------------------------------------------------
(* All instances go down: what they were doing is lost, and so are the     *)
(* events until one is up again.  A pipeline that ran is taken up again,   *)
(* one that had ended is not.                                              *)
Down ==
  /\ up /\ Fail
  /\ up' = FALSE
  /\ handlers' = EmptyBag
  /\ wait' = [p \in Pipelines |-> "none"]
  /\ status' = [p \in Pipelines |-> CASE status[p] = "teardown" -> "ended"
                                      [] status[p] = "copied" -> "none"
                                      [] OTHER -> status[p]]
  /\ readMark' = [p \in Pipelines |-> FALSE]
  /\ disturbed' = disturbed \cup {p \in Pipelines : teardownMark[p] \/ gcMark[p]}
  /\ UNCHANGED <<gcMark, teardownMark, jobs, etcdVars, unguarded>>

Up ==
  /\ ~up /\ up' = TRUE
  /\ UNCHANGED <<dbVars, jobs, wait, etcdVars, handlers, boundVars, historyVars>>

-----------------------------------------------------------------------------
PipelineStep(p) ==
  \/ RunPipeline(p) \/ StartJobs(p) \/ EndPipeline(p) \/ TeardownPipeline(p)
  \/ DelayGC(p) \/ PutKey(p) \/ PutSubKey(p)
Handle(h) ==
  Begin(h) \/ Lock(h) \/ List(h) \/ Mark(h) \/ BatchDelete(h) \/ PrefixRemove(h)
    \/ Release(h) \/ Retry(h)
HandlerStep == \E h \in BagToSet(handlers) : Handle(h)

Next ==
  \/ \E p \in Pipelines : RerunFailed(p) \/ PipelineStep(p) \/ Compensate(p)
  \/ HandlerStep \/ Expire \/ Down \/ Up

Spec == Init /\ [][Next]_vars
(* The engine comes up again, pipelines end, what is started goes on, the  *)
(* lease ends and the compensator gets to every pipeline on each round.    *)
(* (Each step changes what its subscript names.)                           *)
FairSpec ==
  /\ Spec
  /\ WF_<<up, nsKey, handlers>>(Up \/ Expire \/ HandlerStep)
  /\ \A p \in Pipelines : WF_<<status, jobs, wait>>(PipelineStep(p)) /\ SF_wait(Compensate(p))

-----------------------------------------------------------------------------
(* Properties.                                                             *)

(* A collection takes the jobs of a pipeline that runs in three ways only: *)
(* its delayGC met a collection that was already under way; another        *)
(* pipeline, or the retry of a collection, replaced its long lease by a    *)
(* short one; or it took longer than the long lease after its last call of *)
(* reconcile.  No error, no time the engine is down, no deleted subkey of  *)
(* another pipeline and no order of the steps of waitGC does.              *)
RunningKeepsJobs ==
  [][\A p \in Pipelines :
       status[p] = "running" /\ jobs[p] = "some" /\ jobs'[p] = "deleted" => p \in unguarded]_vars

(* A pipeline is marked before its jobs are deleted, and stays so, so that *)
(* it is not used for a rerun; whatever fails or crashes in between.       *)
(* (Unless it was collected while at work: its end may then take the mark  *)
(* back.)                                                                  *)
DeletedIsMarked ==
  \A p \in Pipelines : jobs[p] = "deleted" => gcMark[p] \/ p \in unguarded

Garbage(p) == status[p] = "ended" /\ jobs[p] = "some"

(* The jobs of a pipeline that has ended are deleted in the end, with      *)
(* errors, several instances, a lock anyone deletes and the key events of  *)
(* the collection itself, unless its waitGC failed or met a collection.    *)
EventuallyCollected ==
  \A p \in Pipelines : Garbage(p) ~> (jobs[p] # "some" \/ p \in disturbed)

(* The compensator sees to it that this is so when the lease expired while *)
(* the engine was down.                                                    *)
DowntimeIsCompensated ==
  \A p \in Pipelines :
    ~up /\ Garbage(p) /\ p \in subKeys /\ nsKey = "short" ~> jobs[p] # "some"
=============================================================================
