--------------------------- MODULE TaskLifecycle ---------------------------
(***************************************************************************)
(* What the reconciler promises of a task and its pipeline, as somebody    *)
(* who only reads the database sees it: the status of a task moves forward *)
(* (Analyzed, Born, Created, Queue, Running, an end status) and never      *)
(* leaves an end status; a task with loop options may instead start over,  *)
(* as its next iteration and at most MaxTimes times in all; a pipeline is  *)
(* closed once, after its task has ended, with the verdict of its task -   *)
(* or before its task was created, when the first reconcile failed.        *)
(***************************************************************************)
EXTENDS Integers

CONSTANTS Tasks, LoopTasks, MaxTimes

VARIABLES
  row,      \* task -> [status, looped]; looped = 0 before it has loop options
  pipeline  \* task -> the status of its pipeline

Steps == <<"Analyzed", "Born", "Created", "Queue", "Running">>
Good == {"Success", "NoNeedBySystem"}
Bad == {"Failed", "Timeout", "StopByUser", "AnalyzeFailed", "StartError", "Unknown"}

Ended(status) == status \in Good \cup Bad

(* The statuses a task may move on to.                                     *)
Later(status) ==
  {Steps[i] : i \in {j \in 1 .. 5 : \E n \in 1 .. j - 1 : Steps[n] = status}}
    \cup Good \cup Bad

(* The iterations a task may be in once it has got its loop options.       *)
Begun(k) == IF k \in LoopTasks /\ row[k].looped = 0 THEN 1 ELSE row[k].looped

LifecycleInit ==
  /\ row = [k \in Tasks |-> [status |-> "Analyzed", looped |-> 0]]
  /\ pipeline = [k \in Tasks |-> "Queue"]

Advance(k) ==
  /\ ~Ended(row[k].status)
  /\ \E status \in Later(row[k].status) \cup {row[k].status},
        looped \in {row[k].looped, Begun(k)} :
       row' = [row EXCEPT ![k] = [status |-> status, looped |-> looped]]
  /\ UNCHANGED pipeline

StartOver(k) ==
  /\ ~Ended(row[k].status) /\ ~Ended(pipeline[k])
  /\ k \in LoopTasks
  /\ Begun(k) < MaxTimes
  /\ row' = [row EXCEPT ![k] = [status |-> "Analyzed", looped |-> Begun(k) + 1]]
  /\ UNCHANGED pipeline

Open(k) ==
  /\ pipeline[k] \in {"Queue", "Analyzed"}
  /\ pipeline' = [pipeline EXCEPT ![k] = "Running"]
  /\ UNCHANGED row

(* A reconcile that failed before its task began puts the pipeline back.   *)
PutBack(k) ==
  /\ pipeline[k] = "Running" /\ row[k].status = "Analyzed"
  /\ pipeline' = [pipeline EXCEPT ![k] = "Analyzed"]
  /\ UNCHANGED row

(* A reconcile that failed before its task was created leaves a pipeline   *)
(* without tasks, which counts as a success.                               *)
CloseEmpty(k) ==
  /\ pipeline[k] = "Running" /\ row[k].status = "Analyzed"
  /\ pipeline' = [pipeline EXCEPT ![k] = "Success"]
  /\ UNCHANGED row

Close(k) ==
  /\ ~Ended(pipeline[k]) /\ Ended(row[k].status)
  /\ pipeline' = [pipeline EXCEPT ![k] = IF row[k].status \in Good
                                         THEN "Success" ELSE "Failed"]
  /\ UNCHANGED row

LifecycleNext ==
  \E k \in Tasks : Advance(k) \/ StartOver(k) \/ Open(k) \/ PutBack(k) \/ CloseEmpty(k)
                 \/ Close(k)

LifecycleSpec == LifecycleInit /\ [][LifecycleNext]_<<row, pipeline>>
=============================================================================
