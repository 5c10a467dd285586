-------------------------- MODULE PipelineGCProofs --------------------------
(* Proofs about the garbage collection, for any number of pipelines,       *)
(* engines, goroutines and faults.                                         *)
EXTENDS PipelineGC, TLAPS

-----------------------------------------------------------------------------
(* The elements of bags.                                                   *)

LEMMA BagElements ==
  /\ BagToSet(EmptyBag) = {}
  /\ \A S : BagToSet(SetToBag(S)) = S
  /\ \A A, B : BagToSet(A (+) B) = BagToSet(A) \cup BagToSet(B)
  /\ \A A, B : BagToSet(A (-) B) \subseteq BagToSet(A)
<1>1. BagToSet(EmptyBag) = {} /\ \A S : BagToSet(SetToBag(S)) = S
  BY DEF BagToSet, EmptyBag, SetToBag
<1>2. \A A, B : BagToSet(A (+) B) = BagToSet(A) \cup BagToSet(B)
  BY DEF BagToSet, (+)
<1>3. \A A, B : BagToSet(A (-) B) \subseteq BagToSet(A)
  BY DEF BagToSet, (-)
<1> QED BY <1>1, <1>2, <1>3

LEMMA NoEventsWhileDown == EmptyBag (+) [h \in {} |-> Instances] = EmptyBag
BY DEF EmptyBag, SetToBag, (+)

(* What becomes of a goroutine.                                            *)
LEMMA Replaced ==
  ASSUME NEW h, NEW S, Replace(h, S)
  PROVE  BagToSet(handlers') \subseteq BagToSet(handlers) \cup S
BY BagElements DEF Replace

-----------------------------------------------------------------------------
(* The goroutines of ListenGC, and what each of their steps leaves alone.  *)

Shaped(h) ==
  /\ h \in Handler
  /\ IF h.at = "begin" THEN h.key \in Pipelines ELSE h.key = Namespace
  /\ h.at = "release" => h.subKeys = {}

TypeInv ==
  /\ PipelineGCTypeOK
  /\ \A h \in BagToSet(handlers) : Shaped(h)

(* The pipelines whose jobs a goroutine is about to delete.                *)
Involved(p, h) == h.key = p \/ p \in h.subKeys

LEMMA HandlerMoves ==
  ASSUME NEW h, Shaped(h), h.at # "retry", NEW keys \in SUBSET Pipelines
  PROVE  /\ [h EXCEPT !.at = "release", !.failed = TRUE, !.subKeys = {}] \in Handler
         /\ [h EXCEPT !.at = "release", !.subKeys = {}] \in Handler
         /\ [h EXCEPT !.at = "mark", !.subKeys = keys] \in Handler
         /\ \A place \in {"list", "mark", "delete", "remove"} : [h EXCEPT !.at = place] \in Handler
         /\ h.at = "begin" =>
              [h EXCEPT !.at = "lock", !.key = Namespace, !.subKeys = {h.key}] \in Handler
         /\ h.at = "release" /\ h.failed => [h EXCEPT !.at = "retry"] \in Handler
<1>1. h \in [at : {"begin", "lock", "list", "mark", "delete", "remove", "release"},
              key : Pipelines \cup {Namespace}, subKeys : SUBSET Pipelines, failed : BOOLEAN]
  BY DEF Shaped, Handler
<1>2. /\ [h EXCEPT !.at = "release", !.failed = TRUE, !.subKeys = {}] \in Handler
      /\ [h EXCEPT !.at = "release", !.subKeys = {}] \in Handler
      /\ [h EXCEPT !.at = "mark", !.subKeys = keys] \in Handler
      /\ \A place \in {"list", "mark", "delete", "remove"} : [h EXCEPT !.at = place] \in Handler
  BY <1>1 DEF Handler
<1>3. ASSUME h.at = "begin"
      PROVE  [h EXCEPT !.at = "lock", !.key = Namespace, !.subKeys = {h.key}] \in Handler
  BY <1>1, <1>3 DEF Handler, Shaped
<1>4. ASSUME h.at = "release", h.failed PROVE [h EXCEPT !.at = "retry"] \in Handler
  <2>1. h.failed = TRUE /\ h.key = Namespace /\ h.subKeys = {}
    BY <1>1, <1>4 DEF Shaped
  <2> QED BY <1>1, <2>1 DEF Handler
<1> QED BY <1>2, <1>3, <1>4

LEMMA HandleFrame ==
  ASSUME TypeInv, NEW h \in BagToSet(handlers), Handle(h)
  PROVE  /\ UNCHANGED <<status, readMark, wait, up>>
         /\ UNCHANGED boundVars \/ Fail
         /\ nsKey' = nsKey \/ (nsKey' = "short" /\ Exposed("short") \subseteq unguarded')
         /\ subKeys' \subseteq subKeys /\ lock' \in BOOLEAN
         /\ disturbed' \subseteq Pipelines
         /\ unguarded \subseteq unguarded' /\ unguarded' \subseteq Pipelines
         /\ UNCHANGED <<gcMark, teardownMark>> \/ Mark(h)
         /\ jobs' = jobs \/ BatchDelete(h)
<1>1. lock \in BOOLEAN /\ subKeys \subseteq Pipelines /\ disturbed \subseteq Pipelines
      /\ unguarded \subseteq Pipelines /\ Exposed("short") \subseteq Pipelines
  BY DEF TypeInv, PipelineGCTypeOK, Exposed
<1> USE DEF dbVars, etcdVars, historyVars
<1>2. CASE Begin(h)
  BY <1>1, <1>2 DEF Begin
<1>3. CASE Lock(h)
  BY <1>1, <1>3 DEF Lock, Fails
<1>4. CASE List(h)
  BY <1>1, <1>4 DEF List, Fails
<1>5. CASE Mark(h)
  BY <1>1, <1>5 DEF Mark, Fails
<1>6. CASE BatchDelete(h)
  BY <1>1, <1>6 DEF BatchDelete, Fails
<1>7. CASE PrefixRemove(h)
  BY <1>1, <1>7 DEF PrefixRemove, Fails
<1>8. CASE Release(h)
  BY <1>1, <1>8 DEF Release
<1>9. CASE Retry(h)
  BY <1>1, <1>9 DEF Retry
<1> QED BY <1>2, <1>3, <1>4, <1>5, <1>6, <1>7, <1>8, <1>9 DEF Handle

(* The goroutines that start when keys are deleted.                        *)
LEMMA WatchedShape ==
  ASSUME NEW keys \in SUBSET (Pipelines \cup {Namespace})
  PROVE  \A k \in BagToSet(Watched(keys)) : Shaped(k) /\ k.key \in keys /\ k.subKeys = {}
                                           /\ k.at \in {"begin", "lock"}
<1> SUFFICES ASSUME NEW k \in BagToSet(Watched(keys))
             PROVE  Shaped(k) /\ k.key \in keys /\ k.subKeys = {} /\ k.at \in {"begin", "lock"}
  OBVIOUS
<1>1. PICK x \in keys : k = [at |-> IF x = Namespace THEN "lock" ELSE "begin", key |-> x,
                             subKeys |-> {}, failed |-> FALSE]
  BY DEF BagToSet, Watched
<1>2. k \in Handler
  BY <1>1 DEF Handler
<1> QED BY <1>1, <1>2 DEF Shaped

(* Which goroutines there are after a step of one of them.                 *)
LEMMA HandleNew ==
  ASSUME TypeInv, NEW h \in BagToSet(handlers), Handle(h),
         NEW k \in BagToSet(handlers'), k \notin BagToSet(handlers)
  PROVE  /\ Shaped(k)
         /\ \A p \in Pipelines : Involved(p, k) => Involved(p, h) \/ p \in subKeys
         /\ k.at = "delete" => Mark(h) /\ k.subKeys = h.subKeys /\
                gcMark' = [p \in Pipelines |-> gcMark[p] \/ p \in h.subKeys]
<1> DEFINE Goal == /\ Shaped(k)
                   /\ \A p \in Pipelines : Involved(p, k) => Involved(p, h) \/ p \in subKeys
                   /\ k.at = "delete" => Mark(h) /\ k.subKeys = h.subKeys /\
                          gcMark' = [p \in Pipelines |-> gcMark[p] \/ p \in h.subKeys]
<1>1. /\ Shaped(h) /\ subKeys \in SUBSET Pipelines /\ Namespace \notin Pipelines
      /\ h \in Handler
  BY PipelineGCAssumption DEF TypeInv, PipelineGCTypeOK, Shaped
<1>2. ASSUME NEW S, Replace(h, S) PROVE k \in S
  BY <1>2, Replaced
<1>3. h.at # "retry" =>
        h \in [at : {"begin", "lock", "list", "mark", "delete", "remove", "release"},
              key : Pipelines \cup {Namespace}, subKeys : SUBSET Pipelines, failed : BOOLEAN]
  BY <1>1 DEF Handler
<1>4. ASSUME Fails(h), h.at \notin {"begin", "retry"} PROVE Goal
  <2>1. k = [h EXCEPT !.at = "release", !.failed = TRUE, !.subKeys = {}]
    BY <1>2, <1>4 DEF Fails
  <2>2. k.at = "release" /\ k.key = h.key /\ k.subKeys = {} /\ h.key = Namespace
    BY <1>1, <1>3, <1>4, <2>1 DEF Shaped
  <2>3. k \in Handler
    BY <1>1, <1>4, <2>1, HandlerMoves
  <2> QED BY <2>2, <2>3 DEF Shaped, Involved
<1>5. ASSUME NEW place \in {"list", "mark", "delete", "remove"}, Becomes(h, place),
             h.at \notin {"begin", "retry"},
             place = "delete" => Mark(h) /\
               gcMark' = [p \in Pipelines |-> gcMark[p] \/ p \in h.subKeys]
      PROVE  Goal
  <2>1. k = [h EXCEPT !.at = place]
    BY <1>2, <1>5 DEF Becomes
  <2>2. k.at = place /\ k.key = h.key /\ k.subKeys = h.subKeys /\ h.key = Namespace
    BY <1>1, <1>3, <1>5, <2>1 DEF Shaped
  <2>3. k \in Handler
    BY <1>1, <1>5, <2>1, HandlerMoves
  <2> QED BY <1>5, <2>2, <2>3 DEF Shaped, Involved
<1>6. CASE Begin(h)
  <2>1. h.at = "begin" /\ k = [h EXCEPT !.at = "lock", !.key = Namespace, !.subKeys = {h.key}]
    BY <1>2, <1>6 DEF Begin, Ends
  <2>2. k.at = "lock" /\ k.key = Namespace /\ k.subKeys = {h.key}
    BY <1>3, <2>1
  <2>3. k \in Handler
    BY <1>1, <2>1, HandlerMoves
  <2> QED BY <1>1, <2>2, <2>3 DEF Shaped, Involved
<1>7. CASE Lock(h)
  <2>1. h.at = "lock"
    BY <1>7 DEF Lock
  <2>2. CASE Becomes(h, IF h.subKeys = {} THEN "list" ELSE AfterList)
    BY <1>5, <2>1, <2>2 DEF AfterList
  <2>3. CASE Replace(h, {[h EXCEPT !.at = "release", !.subKeys = {}]})
    <3>1. k = [h EXCEPT !.at = "release", !.subKeys = {}]
      BY <1>2, <2>3
    <3>2. k.at = "release" /\ k.key = h.key /\ k.subKeys = {} /\ h.key = Namespace
      BY <1>1, <1>3, <2>1, <3>1 DEF Shaped
    <3>3. k \in Handler
      BY <1>1, <2>1, <3>1, HandlerMoves
    <3> QED BY <3>2, <3>3 DEF Shaped, Involved
  <2> QED BY <1>4, <1>7, <2>1, <2>2, <2>3 DEF Lock
<1>8. CASE List(h)
  <2>1. h.at = "list"
    BY <1>8 DEF List
  <2>2. CASE Replace(h, {[h EXCEPT !.at = AfterList, !.subKeys = subKeys]})
    <3>1. k = [h EXCEPT !.at = "mark", !.subKeys = subKeys]
      BY <1>2, <2>2 DEF AfterList
    <3>2. k.at = "mark" /\ k.key = h.key /\ k.subKeys = subKeys /\ h.key = Namespace
      BY <1>1, <1>3, <2>1, <3>1 DEF Shaped
    <3>3. k \in Handler
      BY <1>1, <2>1, <3>1, HandlerMoves
    <3> QED BY <3>2, <3>3 DEF Shaped, Involved
  <2> QED BY <1>4, <1>8, <2>1, <2>2 DEF List
<1>9. CASE Mark(h)
  <2>1. h.at = "mark"
    BY <1>9 DEF Mark
  <2> QED BY <1>4, <1>5, <1>9, <2>1 DEF Mark
<1>10. CASE BatchDelete(h)
  <2>1. h.at = "delete"
    BY <1>10 DEF BatchDelete
  <2>2. Becomes(h, "remove") \/ Fails(h)
    BY <1>10 DEF BatchDelete
  <2> QED BY <1>4, <1>5, <2>1, <2>2
<1>11. CASE PrefixRemove(h)
  <2>1. h.at = "remove"
    BY <1>11 DEF PrefixRemove
  <2> DEFINE new == [h EXCEPT !.at = "release", !.subKeys = {}]
  <2>2. CASE handlers' = (handlers (-) SetToBag({h})) (+) SetToBag({new}) (+) Watched(subKeys)
    <3> HIDE DEF new
    <3>1. k = new \/ k \in BagToSet(Watched(subKeys))
      BY <2>2, BagElements
    <3> USE DEF new
    <3>2. CASE k = new
      <4>1. k.at = "release" /\ k.key = h.key /\ k.subKeys = {} /\ h.key = Namespace
        BY <1>1, <1>3, <2>1, <3>2 DEF Shaped
      <4>2. k \in Handler
        BY <1>1, <2>1, <3>2, HandlerMoves
      <4> QED BY <4>1, <4>2 DEF Shaped, Involved
    <3>3. CASE k \in BagToSet(Watched(subKeys))
      <4>1. subKeys \in SUBSET (Pipelines \cup {Namespace})
        BY <1>1
      <4>2. Shaped(k) /\ k.key \in subKeys /\ k.subKeys = {} /\ k.at \in {"begin", "lock"}
        BY <3>3, <4>1, WatchedShape
      <4> QED BY <4>2 DEF Involved
    <3> QED BY <3>1, <3>2, <3>3
  <2> QED BY <1>4, <1>11, <2>1, <2>2 DEF PrefixRemove
<1>12. CASE Release(h)
  <2>1. /\ h.at = "release" /\ h.failed
        /\ k = [h EXCEPT !.at = "retry"]
    BY <1>2, <1>12 DEF Release, AfterRelease
  <2>2. k.at = "retry" /\ k.key = h.key /\ k.subKeys = h.subKeys /\ h.key = Namespace
    BY <1>1, <1>3, <2>1 DEF Shaped
  <2>3. k \in Handler
    BY <1>1, <2>1, HandlerMoves
  <2> QED BY <2>2, <2>3 DEF Shaped, Involved
<1>13. CASE Retry(h)
  BY <1>2, <1>13 DEF Retry, Ends
<1> QED BY <1>6, <1>7, <1>8, <1>9, <1>10, <1>11, <1>12, <1>13 DEF Handle

-----------------------------------------------------------------------------
(* Types.                                                                  *)

LEMMA InitType == Init => TypeInv
<1> SUFFICES ASSUME Init PROVE TypeInv
  OBVIOUS
<1>1. BagToSet(handlers) = {}
  BY BagElements DEF Init
<1>2. /\ gcMark \in [Pipelines -> BOOLEAN] /\ teardownMark \in [Pipelines -> BOOLEAN]
      /\ readMark \in [Pipelines -> BOOLEAN]
  BY Zenon DEF Init
<1>3. /\ status \in [Pipelines -> {"none", "copied", "running", "teardown", "ended"}]
      /\ jobs \in [Pipelines -> {"none", "some", "deleted"}]
      /\ wait \in [Pipelines -> {"none", "delay", "delaySub", "wait", "waitSub"}]
      /\ delays \in [Pipelines -> 0 .. MaxDelays]
      /\ faults \in 0 .. MaxFaults
  BY PipelineGCAssumption DEF Init
<1>4. \A p \in Pipelines : p # Origin => status[p] = "none"
  BY DEF Init
<1>5. \A p \in Pipelines : wait[p] = "none"
  BY DEF Init
<1> QED BY <1>1, <1>2, <1>3, <1>4, <1>5 DEF Init, TypeInv, PipelineGCTypeOK

LEMMA HandleType ==
  ASSUME TypeInv, NEW h \in BagToSet(handlers), Handle(h)
  PROVE  TypeInv'
<1>1. PipelineGCTypeOK /\ \A k \in BagToSet(handlers) : Shaped(k)
  BY DEF TypeInv
<1>2. \A k \in BagToSet(handlers') : Shaped(k)
  BY <1>1, HandleNew
<1>3. up
  BY <1>1, BagElements DEF PipelineGCTypeOK
<1>4. BagToSet(handlers') \subseteq Handler
  BY <1>2 DEF Shaped
<1>5. /\ UNCHANGED <<status, readMark, wait, up>>
      /\ nsKey' \in {nsKey, "short"}
      /\ subKeys' \subseteq subKeys /\ lock' \in BOOLEAN
      /\ disturbed' \subseteq Pipelines /\ unguarded' \subseteq Pipelines
  BY HandleFrame
<1>6. faults' \in 0 .. MaxFaults /\ delays' = delays
  <2>1. UNCHANGED boundVars \/ Fail
    BY HandleFrame
  <2> QED BY <1>1, <2>1, PipelineGCAssumption DEF PipelineGCTypeOK, boundVars, Fail
<1>7. gcMark' \in [Pipelines -> BOOLEAN] /\ teardownMark' \in [Pipelines -> BOOLEAN]
  <2>1. UNCHANGED <<gcMark, teardownMark>> \/ Mark(h)
    BY HandleFrame
  <2>2. ASSUME NEW S
        PROVE  /\ [p \in Pipelines |-> gcMark[p] \/ p \in S] \in [Pipelines -> BOOLEAN]
               /\ [p \in Pipelines |-> teardownMark[p] /\ p \notin S] \in [Pipelines -> BOOLEAN]
    OBVIOUS
  <2>3. gcMark \in [Pipelines -> BOOLEAN] /\ teardownMark \in [Pipelines -> BOOLEAN]
    BY <1>1 DEF PipelineGCTypeOK
  <2> QED BY <2>1, <2>2, <2>3 DEF Mark
<1>8. jobs' \in [Pipelines -> {"none", "some", "deleted"}]
  <2>1. jobs' = jobs \/ BatchDelete(h)
    BY HandleFrame
  <2>2. jobs \in [Pipelines -> {"none", "some", "deleted"}]
    BY <1>1 DEF PipelineGCTypeOK
  <2>3. ASSUME NEW S
        PROVE [p \in Pipelines |-> IF p \in S /\ jobs[p] = "some" THEN "deleted" ELSE jobs[p]]
                \in [Pipelines -> {"none", "some", "deleted"}]
    BY <2>2
  <2> QED BY <2>1, <2>2, <2>3 DEF BatchDelete
<1>9. PipelineGCTypeOK'
  BY <1>1, <1>3, <1>4, <1>5, <1>6, <1>7, <1>8 DEF PipelineGCTypeOK, IsEnd
<1> QED BY <1>2, <1>9 DEF TypeInv

(* What the steps of a pipeline leave alone.                               *)
LEMMA PipelineFrame ==
  ASSUME TypeInv, NEW p \in Pipelines, RerunFailed(p) \/ PipelineStep(p) \/ Compensate(p)
  PROVE  /\ up /\ up' /\ UNCHANGED <<handlers, lock>>
         /\ UNCHANGED boundVars \/ DelayGC(p) \/ Fail
         /\ \A q \in Pipelines \ {p} : status'[q] = status[q] /\ wait'[q] = wait[q]
                                      /\ gcMark'[q] = gcMark[q] /\ readMark'[q] = readMark[q]
         /\ disturbed' \subseteq Pipelines
         /\ unguarded \subseteq unguarded' /\ unguarded' \subseteq Pipelines
<1> USE DEF dbVars, etcdVars, historyVars
<1>1. /\ status \in [Pipelines -> {"none", "copied", "running", "teardown", "ended"}]
      /\ wait \in [Pipelines -> {"none", "delay", "delaySub", "wait", "waitSub"}]
      /\ gcMark \in [Pipelines -> BOOLEAN] /\ readMark \in [Pipelines -> BOOLEAN]
      /\ disturbed \subseteq Pipelines /\ unguarded \subseteq Pipelines
      /\ ~up => wait[p] = "none" /\ status[p] \notin {"copied", "teardown"}
      /\ up \in BOOLEAN
  BY DEF TypeInv, PipelineGCTypeOK
<1>2. CASE RerunFailed(p)
  BY <1>1, <1>2 DEF RerunFailed
<1>3. CASE RunPipeline(p)
  BY <1>1, <1>3 DEF RunPipeline
<1>4. CASE StartJobs(p)
  BY <1>1, <1>4 DEF StartJobs
<1>5. CASE EndPipeline(p)
  BY <1>1, <1>5 DEF EndPipeline
<1>6. CASE TeardownPipeline(p)
  BY <1>1, <1>6 DEF TeardownPipeline
<1>7. CASE DelayGC(p)
  BY <1>1, <1>7 DEF DelayGC
<1>8. CASE PutKey(p)
  BY <1>1, <1>8 DEF PutKey, Exposed
<1>9. CASE PutSubKey(p)
  BY <1>1, <1>9 DEF PutSubKey
<1>10. CASE Compensate(p)
  BY <1>1, <1>10 DEF Compensate
<1> QED BY <1>2, <1>3, <1>4, <1>5, <1>6, <1>7, <1>8, <1>9, <1>10 DEF PipelineStep

LEMMA PipelineType ==
  ASSUME TypeInv, NEW p \in Pipelines, RerunFailed(p) \/ PipelineStep(p) \/ Compensate(p)
  PROVE  TypeInv'
<1> USE DEF dbVars, etcdVars, boundVars, historyVars
<1>1. PipelineGCTypeOK /\ \A k \in BagToSet(handlers) : Shaped(k)
  BY DEF TypeInv
<1>2. /\ up /\ up' /\ UNCHANGED <<handlers, lock>>
      /\ \A q \in Pipelines \ {p} : status'[q] = status[q] /\ wait'[q] = wait[q]
      /\ disturbed' \subseteq Pipelines /\ unguarded' \subseteq Pipelines
  BY PipelineFrame
<1>3. delays' \in [Pipelines -> 0 .. MaxDelays] /\ faults' \in 0 .. MaxFaults
  <2>1. UNCHANGED boundVars \/ DelayGC(p) \/ Fail
    BY PipelineFrame
  <2>2. delays \in [Pipelines -> 0 .. MaxDelays] /\ faults \in 0 .. MaxFaults
        /\ MaxDelays \in Nat /\ MaxFaults \in Nat
    BY <1>1, PipelineGCAssumption DEF PipelineGCTypeOK
  <2>3. CASE DelayGC(p)
    <3>1. delays' = [delays EXCEPT ![p] = @ + 1] /\ delays[p] < MaxDelays /\ faults' = faults
      BY <2>3 DEF DelayGC
    <3> QED BY <2>2, <3>1
  <2>4. CASE Fail
    BY <2>2, <2>4 DEF Fail
  <2> QED BY <2>1, <2>2, <2>3, <2>4
<1>4. /\ status \in [Pipelines -> {"none", "copied", "running", "teardown", "ended"}]
      /\ jobs \in [Pipelines -> {"none", "some", "deleted"}]
      /\ wait \in [Pipelines -> {"none", "delay", "delaySub", "wait", "waitSub"}]
      /\ gcMark \in [Pipelines -> BOOLEAN] /\ teardownMark \in [Pipelines -> BOOLEAN]
      /\ readMark \in [Pipelines -> BOOLEAN]
      /\ nsKey \in {"none", "short", "long"} /\ subKeys \subseteq Pipelines
      /\ Origin \in Pipelines
  BY <1>1, PipelineGCAssumption DEF PipelineGCTypeOK
<1> DEFINE Marks == /\ gcMark' \in [Pipelines -> BOOLEAN]
                    /\ teardownMark' \in [Pipelines -> BOOLEAN]
                    /\ readMark' \in [Pipelines -> BOOLEAN]
           Places == /\ status' \in [Pipelines -> {"none", "copied", "running", "teardown", "ended"}]
                     /\ jobs' \in [Pipelines -> {"none", "some", "deleted"}]
                     /\ wait' \in [Pipelines -> {"none", "delay", "delaySub", "wait", "waitSub"}]
                     /\ nsKey' \in {"none", "short", "long"} /\ subKeys' \subseteq Pipelines
           Own == /\ p # Origin /\ status'[p] # "none" => IsEnd(Origin)
                  /\ p = Origin /\ IsEnd(Origin) => IsEnd(Origin)'
                  /\ wait'[p] \in {"delay", "delaySub"} => status'[p] = "running"
<1>5. Marks
  <2>1. \A v \in BOOLEAN : /\ [gcMark EXCEPT ![p] = v] \in [Pipelines -> BOOLEAN]
                           /\ [teardownMark EXCEPT ![p] = v] \in [Pipelines -> BOOLEAN]
                           /\ [readMark EXCEPT ![p] = v] \in [Pipelines -> BOOLEAN]
    BY <1>4, Zenon
  <2>2. teardownMark[Origin] \in BOOLEAN /\ gcMark[p] \in BOOLEAN /\ readMark[p] \in BOOLEAN
    BY <1>4, Zenon
  <2>3. gcMark' \in {gcMark} \cup {[gcMark EXCEPT ![p] = v] : v \in BOOLEAN}
    BY <1>4, <2>2 DEF PipelineStep, RerunFailed, RunPipeline, StartJobs, EndPipeline,
                      TeardownPipeline, DelayGC, PutKey, PutSubKey, Compensate
  <2>4. teardownMark' \in {teardownMark} \cup {[teardownMark EXCEPT ![p] = v] : v \in BOOLEAN}
    BY <1>4, <2>2 DEF PipelineStep, RerunFailed, RunPipeline, StartJobs, EndPipeline,
                      TeardownPipeline, DelayGC, PutKey, PutSubKey, Compensate
  <2>5. readMark' \in {readMark} \cup {[readMark EXCEPT ![p] = v] : v \in BOOLEAN}
    BY <1>4, <2>2 DEF PipelineStep, RerunFailed, RunPipeline, StartJobs, EndPipeline,
                      TeardownPipeline, DelayGC, PutKey, PutSubKey, Compensate
  <2> QED BY <1>4, <2>1, <2>3, <2>4, <2>5
<1>6. /\ p # Origin /\ status[p] # "none" => IsEnd(Origin)
      /\ wait[p] \in {"delay", "delaySub"} => status[p] = "running"
  BY <1>1 DEF PipelineGCTypeOK
<1>7. Places /\ Own
  <2>1. CASE RerunFailed(p)
    BY <1>4, <1>6, <2>1 DEF RerunFailed, CanRerun, IsEnd
  <2>2. CASE RunPipeline(p)
    BY <1>4, <1>6, <2>2 DEF RunPipeline, IsEnd
  <2>3. CASE StartJobs(p)
    BY <1>4, <1>6, <2>3 DEF StartJobs, IsEnd
  <2>4. CASE EndPipeline(p)
    BY <1>4, <1>6, <2>4 DEF EndPipeline, IsEnd
  <2>5. CASE TeardownPipeline(p)
    BY <1>4, <1>6, <2>5 DEF TeardownPipeline, IsEnd
  <2>6. CASE DelayGC(p)
    BY <1>4, <1>6, <2>6 DEF DelayGC, IsEnd
  <2>7. CASE PutKey(p)
    BY <1>4, <1>6, <2>7 DEF PutKey, IsEnd, Lease
  <2>8. CASE PutSubKey(p)
    BY <1>4, <1>6, <2>8 DEF PutSubKey, IsEnd
  <2>9. CASE Compensate(p)
    BY <1>4, <1>6, <2>9 DEF Compensate, IsEnd
  <2> QED BY <2>1, <2>2, <2>3, <2>4, <2>5, <2>6, <2>7, <2>8, <2>9 DEF PipelineStep
<1>8. ASSUME NEW q \in Pipelines
      PROVE  /\ q # Origin /\ status'[q] # "none" => IsEnd(Origin)'
             /\ wait'[q] \in {"delay", "delaySub"} => status'[q] = "running"
  <2>1. /\ q # Origin /\ status[q] # "none" => IsEnd(Origin)
        /\ wait[q] \in {"delay", "delaySub"} => status[q] = "running"
    BY <1>1 DEF PipelineGCTypeOK
  <2>2. p # Origin => IsEnd(Origin)' = IsEnd(Origin)
    BY <1>2, <1>4 DEF IsEnd
  <2> QED BY <1>2, <1>7, <2>1, <2>2
<1>9. /\ BagToSet(handlers') \subseteq Handler /\ lock' \in BOOLEAN /\ up' \in BOOLEAN
      /\ \A k \in BagToSet(handlers') : Shaped(k)
  BY <1>1, <1>2 DEF PipelineGCTypeOK
<1> QED BY <1>2, <1>3, <1>5, <1>7, <1>8, <1>9 DEF TypeInv, PipelineGCTypeOK

LEMMA EngineType ==
  ASSUME TypeInv, Expire \/ Down \/ Up
  PROVE  TypeInv'
<1> USE DEF dbVars, etcdVars, boundVars, historyVars
<1>1. PipelineGCTypeOK /\ \A k \in BagToSet(handlers) : Shaped(k)
  BY DEF TypeInv
<1>2. CASE Expire
  <2>1. handlers' = handlers (+) Watched({Namespace})
    BY <1>2 DEF Expire
  <2>2. \A k \in BagToSet(Watched({Namespace})) : Shaped(k)
    BY WatchedShape
  <2>3. \A k \in BagToSet(handlers') : Shaped(k)
    <3>1. BagToSet(handlers') = BagToSet(handlers) \cup BagToSet(Watched({Namespace}))
      BY <2>1, BagElements, Zenon
    <3> QED BY <1>1, <2>2, <3>1, Zenon
  <2>4. BagToSet(handlers') \subseteq Handler
    BY <2>3 DEF Shaped
  <2>5. ASSUME ~up' PROVE handlers' = EmptyBag
    <3>1. ~up /\ handlers = EmptyBag
      BY <1>1, <1>2, <2>5 DEF Expire, PipelineGCTypeOK
    <3>2. Watched({Namespace}) = [h \in {} |-> Instances]
      BY <3>1 DEF Watched
    <3> QED BY <2>1, <3>1, <3>2, NoEventsWhileDown
  <2>6. unguarded' \subseteq Pipelines
    BY <1>1, <1>2 DEF Expire, Exposed, PipelineGCTypeOK
  <2> QED BY <1>1, <1>2, <2>3, <2>4, <2>5, <2>6 DEF Expire, TypeInv, PipelineGCTypeOK, IsEnd
<1>3. CASE Down
  <2>1. BagToSet(handlers') = {}
    BY <1>3, BagElements DEF Down
  <2>2. readMark' \in [Pipelines -> BOOLEAN]
    BY <1>3, Zenon DEF Down
  <2>3. faults' \in 0 .. MaxFaults /\ delays' = delays
    BY <1>1, <1>3, PipelineGCAssumption DEF Down, Fail, PipelineGCTypeOK
  <2>4. /\ status' \in [Pipelines -> {"none", "copied", "running", "teardown", "ended"}]
        /\ wait' \in [Pipelines -> {"none", "delay", "delaySub", "wait", "waitSub"}]
        /\ disturbed' \subseteq Pipelines
    BY <1>1, <1>3 DEF Down, PipelineGCTypeOK
  <2>5. \A p \in Pipelines :
          /\ status'[p] # "none" => status[p] # "none"
          /\ IsEnd(p) => IsEnd(p)'
          /\ wait'[p] = "none" /\ status'[p] \notin {"copied", "teardown"}
    BY <1>1, <1>3 DEF Down, PipelineGCTypeOK, IsEnd
  <2>6. \A p \in Pipelines : p # Origin /\ status[p] # "none" => IsEnd(Origin)
    BY <1>1 DEF PipelineGCTypeOK
  <2>7. /\ UNCHANGED <<gcMark, teardownMark, jobs, nsKey, subKeys, lock, unguarded>>
        /\ up' = FALSE /\ handlers' = EmptyBag
    BY <1>3 DEF Down
  <2> QED BY <1>1, <2>1, <2>2, <2>3, <2>4, <2>5, <2>6, <2>7, PipelineGCAssumption
          DEF TypeInv, PipelineGCTypeOK
<1>4. CASE Up
  BY <1>1, <1>4 DEF Up, TypeInv, PipelineGCTypeOK, IsEnd
<1> QED BY <1>2, <1>3, <1>4

LEMMA StutterType == TypeInv /\ UNCHANGED vars => TypeInv'
BY DEF TypeInv, PipelineGCTypeOK, IsEnd, vars, dbVars, etcdVars, boundVars,
       historyVars

LEMMA TypeInductive == Spec => []TypeInv
<1>1. TypeInv /\ [Next]_vars => TypeInv'
  BY HandleType, PipelineType, EngineType, StutterType DEF Next, HandlerStep
<1> QED BY InitType, <1>1, PTL DEF Spec

(* The variables keep their types; a rerun is made only of a pipeline that *)
(* has ended, only a pipeline that runs delays the collection, and while   *)
(* all instances are down no goroutine of waitGC or ListenGC is at work,   *)
(* for any number of pipelines and instances.                              *)
THEOREM CollectorTypeCorrect == Spec => []PipelineGCTypeOK
<1>1. TypeInv => PipelineGCTypeOK
  BY DEF TypeInv
<1> QED BY <1>1, TypeInductive, PTL

-----------------------------------------------------------------------------
(* What keeps a collection away from a pipeline at work.                   *)

(* The namespace is held for a pipeline: by its subkey, or by a delayGC    *)
(* that has put the key of the namespace and not yet the subkey.           *)
Held(p) == p \in subKeys \/ wait[p] = "delaySub"

(* The goroutines know nothing of a rerun before it is created,            *)
NotYet(p) ==
  status[p] \in {"none", "copied"} =>
    /\ p \notin subKeys /\ wait[p] = "none"
    /\ \A h \in BagToSet(handlers) : ~Involved(p, h)

(* the short lease is asked for only when a pipeline has ended,            *)
AfterEnd(p) == wait[p] \in {"wait", "waitSub"} => status[p] = "ended"

(* the lease is long while a pipeline at work has the subkey,              *)
LongWhileAtWork(p) == AtWork(p) /\ Held(p) => p \in unguarded \/ nsKey = "long"

(* which was put when no goroutine of a collection was there,              *)
NoCollection(p) == AtWork(p) /\ p \in subKeys /\ handlers # EmptyBag => p \in unguarded

(* so that none has it in its list;                                        *)
NotListed(p) ==
  \A h \in BagToSet(handlers) : AtWork(p) /\ Involved(p, h) => p \in unguarded

(* what is about to be deleted is marked,                                  *)
MarkedFirst(p) ==
  \A h \in BagToSet(handlers) :
    h.at = "delete" /\ p \in h.subKeys => gcMark[p] \/ p \in unguarded

(* the Extra that a pipeline read when it ended, and will write, has the   *)
(* mark if there is one,                                                   *)
MarkKept(p) ==
  status[p] = "teardown" /\ gcMark[p] /\ ~readMark[p] => p \in unguarded

(* and what is deleted is marked.                                          *)
StaysMarked(p) == jobs[p] = "deleted" => gcMark[p] \/ p \in unguarded

Kept(p) ==
  /\ NotYet(p) /\ AfterEnd(p) /\ LongWhileAtWork(p) /\ NoCollection(p) /\ NotListed(p)
  /\ MarkedFirst(p) /\ MarkKept(p) /\ StaysMarked(p)
CollectInv == \A p \in Pipelines : Kept(p)

LEMMA InitCollect == Init => CollectInv
<1> SUFFICES ASSUME Init, NEW p \in Pipelines PROVE Kept(p)
  BY DEF CollectInv
<1>1. BagToSet(handlers) = {}
  BY BagElements DEF Init
<1>2. NotYet(p) /\ AfterEnd(p) /\ MarkedFirst(p) /\ NotListed(p)
  BY <1>1 DEF Init, NotYet, AfterEnd, MarkedFirst, NotListed
<1>3. LongWhileAtWork(p) /\ NoCollection(p) /\ MarkKept(p) /\ StaysMarked(p)
  BY DEF Init, LongWhileAtWork, NoCollection, Held, MarkKept, StaysMarked
<1> QED BY <1>2, <1>3 DEF Kept

(* What the steps of a pipeline do to the keys.                            *)
LEMMA PipelineKeys ==
  ASSUME TypeInv, NEW p \in Pipelines, RerunFailed(p) \/ PipelineStep(p) \/ Compensate(p)
  PROVE  /\ subKeys' = subKeys \/ (PutSubKey(p) /\ subKeys' = subKeys \cup {p})
         /\ nsKey' = nsKey \/ (PutKey(p) /\ nsKey' = Lease(p)
                                /\ Exposed(Lease(p)) \subseteq unguarded')
         /\ \A q \in Pipelines \ {p} : jobs'[q] = jobs[q]
<1> USE DEF dbVars, etcdVars, historyVars
<1>1. jobs \in [Pipelines -> {"none", "some", "deleted"}]
  BY DEF TypeInv, PipelineGCTypeOK
<1> QED BY <1>1 DEF PipelineStep, RerunFailed, RunPipeline, StartJobs, EndPipeline,
                    TeardownPipeline, DelayGC, PutKey, PutSubKey, Compensate

(* The step of one pipeline keeps the others as they are,                  *)
LEMMA PipelineOthers ==
  ASSUME TypeInv, CollectInv, NEW p \in Pipelines,
         RerunFailed(p) \/ PipelineStep(p) \/ Compensate(p),
         NEW q \in Pipelines \ {p}
  PROVE  Kept(q)'
<1>1. /\ handlers' = handlers /\ unguarded \subseteq unguarded'
      /\ status'[q] = status[q] /\ wait'[q] = wait[q]
      /\ gcMark'[q] = gcMark[q] /\ readMark'[q] = readMark[q]
  BY PipelineFrame
<1>2. /\ q \in subKeys' => q \in subKeys
      /\ jobs'[q] = jobs[q]
  BY PipelineKeys
<1>3. AtWork(q)' = AtWork(q) /\ (Held(q)' => Held(q))
  BY <1>1, <1>2 DEF AtWork, Held
<1>4. Kept(q)
  BY DEF CollectInv
<1>5. LongWhileAtWork(q)'
  <2>1. AtWork(q) /\ Held(q) /\ nsKey = "long" /\ nsKey' # "long" => q \in unguarded'
    BY PipelineKeys DEF Exposed, Lease, Held
  <2> QED BY <1>1, <1>3, <1>4, <2>1 DEF Kept, LongWhileAtWork
<1>6. NoCollection(q)' /\ NotListed(q)'
  BY <1>1, <1>2, <1>3, <1>4 DEF Kept, NoCollection, NotListed
<1>7. NotYet(q)' /\ AfterEnd(q)'
  BY <1>1, <1>2, <1>4 DEF Kept, NotYet, AfterEnd
<1>8. MarkedFirst(q)' /\ MarkKept(q)' /\ StaysMarked(q)'
  BY <1>1, <1>2, <1>4 DEF Kept, MarkedFirst, MarkKept, StaysMarked
<1> QED BY <1>5, <1>6, <1>7, <1>8 DEF Kept

(* and a pipeline that asks for the subkey is at work only with a long     *)
(* lease.                                                                  *)
LEMMA PipelineItself ==
  ASSUME TypeInv, CollectInv, NEW p \in Pipelines,
         RerunFailed(p) \/ PipelineStep(p) \/ Compensate(p)
  PROVE  Kept(p)'
<1> USE DEF dbVars, etcdVars, historyVars
<1>1. /\ status \in [Pipelines -> {"none", "copied", "running", "teardown", "ended"}]
      /\ wait \in [Pipelines -> {"none", "delay", "delaySub", "wait", "waitSub"}]
      /\ jobs \in [Pipelines -> {"none", "some", "deleted"}]
      /\ wait[p] \in {"delay", "delaySub"} => status[p] = "running"
  BY DEF TypeInv, PipelineGCTypeOK
<1>2. Kept(p) /\ handlers' = handlers /\ unguarded \subseteq unguarded'
  BY PipelineFrame DEF CollectInv
<1>3. gcMark \in [Pipelines -> BOOLEAN] /\ readMark \in [Pipelines -> BOOLEAN]
  BY DEF TypeInv, PipelineGCTypeOK
<1> DEFINE Keys == NotYet(p)' /\ AfterEnd(p)' /\ LongWhileAtWork(p)' /\ NoCollection(p)'
                     /\ NotListed(p)'
           Marks == MarkedFirst(p)' /\ MarkKept(p)' /\ StaysMarked(p)'
<1>4. ASSUME gcMark' = gcMark, readMark' = readMark,
             status'[p] = "teardown" => status[p] = "teardown",
             jobs'[p] = "deleted" => jobs[p] = "deleted"
      PROVE  Marks
  BY <1>2, <1>4 DEF Kept, MarkedFirst, MarkKept, StaysMarked
<1>5. CASE RerunFailed(p)
  <2>1. Keys
    BY <1>1, <1>2, <1>5 DEF RerunFailed, Kept, NotYet, AfterEnd, LongWhileAtWork, NoCollection,
                            NotListed, AtWork, Held
  <2>2. Marks
    BY <1>1, <1>4, <1>5 DEF RerunFailed
  <2> QED BY <2>1, <2>2 DEF Kept
<1>6. CASE RunPipeline(p)
  <2>1. Keys
    BY <1>1, <1>2, <1>6 DEF RunPipeline, Kept, NotYet, AfterEnd, LongWhileAtWork, NoCollection,
                            NotListed, AtWork, Held
  <2>2. Marks
    BY <1>1, <1>4, <1>6 DEF RunPipeline
  <2> QED BY <2>1, <2>2 DEF Kept
<1>7. CASE StartJobs(p)
  <2>1. Keys
    BY <1>1, <1>2, <1>7 DEF StartJobs, Kept, NotYet, AfterEnd, LongWhileAtWork, NoCollection,
                            NotListed, AtWork, Held
  <2>2. Marks
    BY <1>1, <1>4, <1>7 DEF StartJobs
  <2> QED BY <2>1, <2>2 DEF Kept
<1>8. CASE EndPipeline(p)
  <2>1. Keys
    BY <1>1, <1>2, <1>8 DEF EndPipeline, Kept, NotYet, AfterEnd, LongWhileAtWork, NoCollection,
                            NotListed, AtWork, Held
  <2>2. gcMark' = gcMark /\ readMark'[p] = gcMark[p] /\ jobs' = jobs
    BY <1>3, <1>8 DEF EndPipeline
  <2>3. Marks
    BY <1>2, <2>2 DEF Kept, MarkedFirst, MarkKept, StaysMarked
  <2> QED BY <2>1, <2>3 DEF Kept
<1>9. CASE TeardownPipeline(p)
  <2>1. Keys
    BY <1>1, <1>2, <1>9 DEF TeardownPipeline, Kept, NotYet, AfterEnd, LongWhileAtWork,
                            NoCollection, NotListed, AtWork, Held
  <2>2. /\ status[p] = "teardown" /\ status'[p] = "ended" /\ jobs' = jobs
        /\ gcMark'[p] = readMark[p] \/ gcMark' = gcMark
    BY <1>1, <1>3, <1>9 DEF TeardownPipeline
  <2>3. gcMark[p] => gcMark'[p] \/ p \in unguarded
    BY <1>2, <2>2 DEF Kept, MarkKept
  <2>4. Marks
    BY <1>2, <2>2, <2>3 DEF Kept, MarkedFirst, MarkKept, StaysMarked
  <2> QED BY <2>1, <2>4 DEF Kept
<1>10. CASE DelayGC(p)
  <2>1. Keys
    BY <1>1, <1>2, <1>10 DEF DelayGC, Kept, NotYet, AfterEnd, LongWhileAtWork, NoCollection,
                             NotListed, AtWork, Held
  <2>2. Marks
    BY <1>1, <1>4, <1>10 DEF DelayGC
  <2> QED BY <2>1, <2>2 DEF Kept
<1>11. CASE PutKey(p)
  <2>1. wait[p] # "none" /\ UNCHANGED <<status, gcMark, readMark, jobs, subKeys, handlers>>
    BY <1>11 DEF PutKey
  <2>2. NotYet(p)' /\ AfterEnd(p)' /\ NotListed(p)'
    BY <1>1, <1>2, <1>11 DEF PutKey, Kept, NotYet, AfterEnd, NotListed, AtWork
  <2>3. LongWhileAtWork(p)' /\ NoCollection(p)'
    <3>1. CASE wait[p] = "delay"
      BY <1>1, <1>2, <1>11, <3>1 DEF PutKey, Kept, Lease, LongWhileAtWork, NoCollection, AtWork,
                                     Held
    <3>2. CASE wait[p] = "wait"
      <4>1. status'[p] = "ended"
        BY <1>2, <2>1, <3>2 DEF Kept, AfterEnd
      <4> QED BY <4>1 DEF LongWhileAtWork, NoCollection, AtWork
    <3> QED BY <1>11, <3>1, <3>2 DEF PutKey
  <2>4. Marks
    BY <1>4, <2>1
  <2> QED BY <2>2, <2>3, <2>4 DEF Kept
<1>12. CASE PutSubKey(p)
  <2>1. wait[p] # "none" /\ UNCHANGED <<status, gcMark, readMark, jobs, nsKey, handlers>>
    BY <1>12 DEF PutSubKey
  <2>2. NotYet(p)' /\ AfterEnd(p)' /\ NotListed(p)'
    BY <1>1, <1>2, <1>12 DEF PutSubKey, Kept, NotYet, AfterEnd, NotListed, AtWork
  <2>3. LongWhileAtWork(p)' /\ NoCollection(p)'
    BY <1>1, <1>2, <1>12 DEF PutSubKey, Kept, AfterEnd, LongWhileAtWork, NoCollection, AtWork, Held
  <2>4. Marks
    BY <1>4, <2>1
  <2> QED BY <2>2, <2>3, <2>4 DEF Kept
<1>13. CASE Compensate(p)
  <2>1. Keys
    BY <1>1, <1>2, <1>13 DEF Compensate, NeedGC, Kept, NotYet, AfterEnd, LongWhileAtWork,
                             NoCollection, NotListed, AtWork, Held
  <2>2. Marks
    BY <1>1, <1>4, <1>13 DEF Compensate
  <2> QED BY <2>1, <2>2 DEF Kept
<1> QED BY <1>5, <1>6, <1>7, <1>8, <1>9, <1>10, <1>11, <1>12, <1>13 DEF PipelineStep

(* A goroutine works on what it listed.                                    *)
LEMMA HandleKeeps ==
  ASSUME TypeInv, CollectInv, NEW h \in BagToSet(handlers), Handle(h), NEW p \in Pipelines
  PROVE  Kept(p)'
<1>1. /\ Kept(p) /\ jobs \in [Pipelines -> {"none", "some", "deleted"}]
      /\ gcMark \in [Pipelines -> BOOLEAN]
  BY DEF CollectInv, TypeInv, PipelineGCTypeOK
<1>2. /\ UNCHANGED <<status, readMark, wait>>
      /\ nsKey' = nsKey \/ (nsKey' = "short" /\ Exposed("short") \subseteq unguarded')
      /\ subKeys' \subseteq subKeys
      /\ unguarded \subseteq unguarded'
      /\ gcMark' = gcMark \/ Mark(h)
      /\ jobs' = jobs \/ BatchDelete(h)
  BY HandleFrame
<1>3. AtWork(p)' = AtWork(p) /\ (Held(p)' => Held(p)) /\ (p \in subKeys => Held(p))
  BY <1>2 DEF AtWork, Held
<1>4. handlers # EmptyBag
  BY BagElements
<1>5. ASSUME NEW k \in BagToSet(handlers'), Involved(p, k)
      PROVE  (\E j \in BagToSet(handlers) : Involved(p, j)) \/ p \in subKeys
  BY <1>5, HandleNew
<1>6. NotYet(p)'
  BY <1>1, <1>2, <1>5 DEF Kept, NotYet
<1>7. AfterEnd(p)'
  BY <1>1, <1>2 DEF Kept, AfterEnd
<1>8. LongWhileAtWork(p)'
  BY <1>1, <1>2, <1>3 DEF Kept, LongWhileAtWork, Exposed, Held
<1>9. NoCollection(p)'
  BY <1>1, <1>2, <1>3, <1>4 DEF Kept, NoCollection
<1>10. NotListed(p)'
  BY <1>1, <1>2, <1>3, <1>4, <1>5 DEF Kept, NoCollection, NotListed
<1>11. gcMark[p] => gcMark'[p]
  BY <1>1, <1>2 DEF Mark
<1>12. MarkedFirst(p)'
  <2> SUFFICES ASSUME NEW k \in BagToSet(handlers'), k.at = "delete", p \in k.subKeys
               PROVE  gcMark'[p] \/ p \in unguarded'
    BY DEF MarkedFirst
  <2>1. CASE k \in BagToSet(handlers)
    BY <1>1, <1>2, <1>11, <2>1 DEF Kept, MarkedFirst
  <2>2. CASE k \notin BagToSet(handlers)
    <3>1. gcMark' = [q \in Pipelines |-> gcMark[q] \/ q \in h.subKeys] /\ p \in h.subKeys
      BY <2>2, HandleNew
    <3> QED BY <3>1
  <2> QED BY <2>1, <2>2
<1>13. MarkKept(p)'
  <2> SUFFICES ASSUME status[p] = "teardown", gcMark'[p], ~readMark[p]
               PROVE  p \in unguarded
    BY <1>2 DEF MarkKept
  <2>1. CASE gcMark[p]
    BY <1>1, <2>1 DEF Kept, MarkKept
  <2>2. CASE ~gcMark[p]
    <3>1. p \in h.subKeys
      BY <1>2, <2>2 DEF Mark
    <3> QED BY <1>1, <3>1 DEF Kept, NotListed, Involved, AtWork
  <2> QED BY <2>1, <2>2
<1>14. StaysMarked(p)'
  <2> SUFFICES ASSUME jobs'[p] = "deleted"
               PROVE  gcMark[p] \/ p \in unguarded
    BY <1>2, <1>11 DEF StaysMarked
  <2>1. CASE jobs[p] = "deleted"
    BY <1>1, <2>1 DEF Kept, StaysMarked
  <2>2. CASE jobs[p] # "deleted"
    <3>1. h.at = "delete" /\ p \in h.subKeys
      BY <1>1, <1>2, <2>2 DEF BatchDelete
    <3> QED BY <1>1, <3>1 DEF Kept, MarkedFirst
  <2> QED BY <2>1, <2>2
<1> QED BY <1>6, <1>7, <1>8, <1>9, <1>10, <1>12, <1>13, <1>14 DEF Kept

(* The lease of a pipeline at work ends only when it was too short.        *)
LEMMA EngineKeeps ==
  ASSUME TypeInv, CollectInv, Expire \/ Down \/ Up, NEW p \in Pipelines
  PROVE  Kept(p)'
<1> USE DEF dbVars, etcdVars, historyVars
<1>1. /\ Kept(p) /\ Namespace \notin Pipelines
      /\ status \in [Pipelines -> {"none", "copied", "running", "teardown", "ended"}]
  BY PipelineGCAssumption DEF CollectInv, TypeInv, PipelineGCTypeOK
<1>2. CASE Expire
  <2>1. /\ UNCHANGED <<status, wait, readMark, gcMark, jobs, subKeys>>
        /\ unguarded \subseteq unguarded'
        /\ AtWork(p) /\ Held(p) /\ nsKey = "long" => p \in unguarded'
        /\ handlers' = handlers (+) Watched({Namespace})
    BY <1>2 DEF Expire, Exposed, Held
  <2>2. AtWork(p)' = AtWork(p) /\ Held(p)' = Held(p)
    BY <2>1 DEF AtWork, Held
  <2>3. ASSUME NEW k \in BagToSet(handlers'), k \notin BagToSet(handlers)
        PROVE  ~Involved(p, k) /\ k.at # "delete"
    <3>1. BagToSet(handlers') = BagToSet(handlers) \cup BagToSet(Watched({Namespace}))
      BY <2>1, BagElements, Zenon
    <3>2. k.key \in {Namespace} /\ k.subKeys = {} /\ k.at \in {"begin", "lock"}
      BY <2>3, <3>1, WatchedShape
    <3> QED BY <1>1, <3>2 DEF Involved
  <2>4. LongWhileAtWork(p)' /\ NoCollection(p)'
    BY <1>1, <2>1, <2>2 DEF Kept, LongWhileAtWork, NoCollection, Held
  <2>5. NotListed(p)'
    BY <1>1, <2>1, <2>2, <2>3 DEF Kept, NotListed
  <2>6. NotYet(p)' /\ AfterEnd(p)'
    BY <1>1, <2>1, <2>3 DEF Kept, NotYet, AfterEnd
  <2>7. MarkedFirst(p)' /\ MarkKept(p)' /\ StaysMarked(p)'
    BY <1>1, <2>1, <2>3 DEF Kept, MarkedFirst, MarkKept, StaysMarked
  <2> QED BY <2>4, <2>5, <2>6, <2>7 DEF Kept
<1>3. CASE Down
  <2>1. BagToSet(handlers') = {} /\ handlers' = EmptyBag
    BY <1>3, BagElements DEF Down
  <2>2. /\ UNCHANGED <<gcMark, jobs, nsKey, subKeys>>
        /\ wait'[p] = "none" /\ unguarded = unguarded'
        /\ status'[p] = CASE status[p] = "teardown" -> "ended"
                          [] status[p] = "copied" -> "none"
                          [] OTHER -> status[p]
    BY <1>3 DEF Down
  <2>3. /\ status'[p] \in {"none", "copied"} => status[p] \in {"none", "copied"}
        /\ AtWork(p)' => AtWork(p)
        /\ status'[p] # "teardown"
        /\ Held(p)' => Held(p)
    BY <2>2 DEF AtWork, Held
  <2>4. NotYet(p)' /\ AfterEnd(p)' /\ NoCollection(p)' /\ NotListed(p)' /\ MarkedFirst(p)'
    BY <1>1, <2>1, <2>2, <2>3 DEF Kept, NotYet, AfterEnd, NoCollection, NotListed, MarkedFirst
  <2>5. LongWhileAtWork(p)' /\ MarkKept(p)' /\ StaysMarked(p)'
    BY <1>1, <2>2, <2>3 DEF Kept, LongWhileAtWork, MarkKept, StaysMarked
  <2> QED BY <2>4, <2>5 DEF Kept
<1>4. CASE Up
  BY <1>1, <1>4 DEF Up, Kept, NotYet, AfterEnd, LongWhileAtWork, NoCollection, NotListed,
                    MarkedFirst, MarkKept, StaysMarked, AtWork, Held
<1> QED BY <1>2, <1>3, <1>4

LEMMA StutterKeeps == CollectInv /\ UNCHANGED vars => CollectInv'
BY DEF CollectInv, Kept, NotYet, AfterEnd, LongWhileAtWork, NoCollection, NotListed,
       MarkedFirst, MarkKept, StaysMarked, AtWork, Held, vars, dbVars, etcdVars, boundVars,
       historyVars

LEMMA CollectInductive == Spec => []CollectInv
<1>1. ASSUME TypeInv, CollectInv, NEW p \in Pipelines,
             RerunFailed(p) \/ PipelineStep(p) \/ Compensate(p)
      PROVE  CollectInv'
  BY <1>1, PipelineItself, PipelineOthers DEF CollectInv
<1>2. TypeInv /\ CollectInv /\ [Next]_vars => CollectInv'
  <2> SUFFICES ASSUME TypeInv, CollectInv, Next PROVE CollectInv'
    BY StutterKeeps
  <2>1. CASE \E p \in Pipelines : RerunFailed(p) \/ PipelineStep(p) \/ Compensate(p)
    BY <1>1, <2>1
  <2>2. CASE HandlerStep
    BY <2>2, HandleKeeps DEF HandlerStep, CollectInv
  <2>3. CASE Expire \/ Down \/ Up
    BY <2>3, EngineKeeps DEF CollectInv
  <2> QED BY <2>1, <2>2, <2>3 DEF Next
<1> QED BY InitCollect, TypeInductive, <1>2, PTL DEF Spec

(* gcNamespace marks a pipeline before it deletes jobs, neither the Extra  *)
(* that teardownPipeline writes back nor an error or a restart takes the   *)
(* mark away, unless the pipeline was unguarded while it was at work: no   *)
(* rerun is made of a pipeline whose jobs are gone.                        *)
THEOREM CollectedIsMarked == Spec => []DeletedIsMarked
<1>1. CollectInv => DeletedIsMarked
  BY DEF CollectInv, Kept, StaysMarked, DeletedIsMarked
<1> QED BY <1>1, CollectInductive, PTL

(* Leases end at any time, the long one under a pipeline at work too.  A   *)
(* running pipeline loses its jobs to a collection only when that happened *)
(* while its subkey was there, when its long lease was replaced by a short *)
(* one, or when it put its subkey in the middle of a collection; whatever  *)
(* the instances and the goroutines of ListenGC do, whatever fails, and    *)
(* for any number of reruns.  Only BatchDelete deletes, what it deletes    *)
(* was listed, and what the long lease guards is in no list.               *)
THEOREM CollectionSparesRuns == Spec => RunningKeepsJobs
<1> DEFINE Step == \A p \in Pipelines :
      status[p] = "running" /\ jobs[p] = "some" /\ jobs'[p] = "deleted" => p \in unguarded
<1>1. TypeInv /\ CollectInv /\ [Next]_vars => Step
  <2> SUFFICES ASSUME TypeInv, CollectInv, [Next]_vars, NEW p \in Pipelines,
                      status[p] = "running", jobs[p] = "some", jobs'[p] = "deleted"
               PROVE  p \in unguarded
    OBVIOUS
  <2> USE DEF dbVars, etcdVars, historyVars
  <2>1. jobs \in [Pipelines -> {"none", "some", "deleted"}] /\ Kept(p)
    BY DEF TypeInv, PipelineGCTypeOK, CollectInv
  <2>2. Next
    BY DEF vars
  <2>3. CASE \E q \in Pipelines : RerunFailed(q) \/ PipelineStep(q) \/ Compensate(q)
    BY <2>1, <2>3 DEF PipelineStep, RerunFailed, RunPipeline, StartJobs, EndPipeline,
                      TeardownPipeline, DelayGC, PutKey, PutSubKey, Compensate
  <2>4. ASSUME NEW h \in BagToSet(handlers), Handle(h) PROVE p \in unguarded
    <3>1. BatchDelete(h)
      BY <2>4, HandleFrame
    <3>2. p \in h.subKeys
      BY <2>1, <3>1 DEF BatchDelete
    <3> QED BY <2>1, <3>2 DEF Kept, NotListed, Involved, AtWork
  <2>5. CASE Expire \/ Down \/ Up
    BY <2>5 DEF Expire, Down, Up
  <2> QED BY <2>2, <2>3, <2>4, <2>5 DEF Next, HandlerStep
<1> QED BY <1>1, TypeInductive, CollectInductive, PTL DEF Spec, RunningKeepsJobs
=============================================================================
