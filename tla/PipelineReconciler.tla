------------------------- MODULE PipelineReconciler -------------------------
(* reconcile for one pipeline of several tasks.  Listen calls it once; it  *)
(* reads the tasks, starts a goroutine for each one that can be scheduled  *)
(* and waits for them.  The goroutine of a task that is done calls         *)
(* reconcile again, from what it reads then: so several calls run at the   *)
(* same time, each with its own, ageing picture of the tasks.  What keeps  *)
(* them apart is processingTasks.  What happens to a task between its      *)
(* start and its end is in TaskRun.                                        *)
(*                                                                         *)
(* Steps are cut at each access to the database, at each LoadOrStore or    *)
(* Delete of processingTasks and at the WaitGroup.                         *)
EXTENDS Integers, Sequences, FiniteSets

CONSTANTS
  Tasks,
  Stage,          \* stage of each task
  Disabled,       \* tasks the user disabled
  HasIf,          \* tasks with an `if` expression
  MayFail,        \* tasks that may fail
  AllowFailure,   \* tasks that are allowed to
  Rerun,          \* tasks that succeeded in the pipeline this is a rerun of
  MaxGoroutines,  \* bound: goroutines of one task
  MaxOvertaken,   \* bound: tasks taken up from an old picture
  MaxErrors,      \* bound: tasks given up, and platform errors, together
  Root            \* the call by Listen

ASSUME PipelineReconcilerAssumption ==
  /\ IsFiniteSet(Tasks) /\ Stage \in [Tasks -> Nat]
  /\ Disabled \subseteq Tasks /\ HasIf \subseteq Tasks /\ MayFail \subseteq Tasks
  /\ AllowFailure \subseteq Tasks /\ Rerun \subseteq Tasks
  /\ MaxGoroutines \in Nat /\ MaxOvertaken \in Nat /\ MaxErrors \in Nat
  /\ Root \notin Tasks \X (1 .. MaxGoroutines)

(* The goroutines that may be started for a task, and the calls: each      *)
(* goroutine makes one when its task is done.                              *)
Goroutines == Tasks \X (1 .. MaxGoroutines)
Calls == Goroutines \cup {Root}

VARIABLES
  pipeline,         \* status of the pipeline in the database
  rows,             \* task -> statuses of its rows in the database
  processingTasks,
  at,               \* where each call, and before it the goroutine, is
  started,          \* number of goroutines started for each task
  parent,           \* the call that started the goroutine and waits for it
  tasks,            \* the tasks as a call has read them: [status, row]
  todo,             \* tasks it has still to look up in processingTasks
  row,              \* the row the goroutine writes to
  again,            \* the call by Listen failed
  overtaken,        \* times a task was taken up that had moved on since it was read
  errors, failures

dbVars == <<pipeline, rows>>
callVars == <<tasks, todo>>
goVars == <<started, parent, row>>
countVars == <<errors, failures>>
vars == <<dbVars, processingTasks, at, goVars, callVars, again, overtaken, countVars>>

Ends == {"Success", "Failed", "NoNeedBySystem"}
RowStatuses == {"Analyzed", "Running"} \cup Ends
IsEnd(status) == status \in Ends

(* What a call reads of a task: that of its last row, or what pipeline.yml *)
(* says (row 0).                                                           *)
Unsaved == [status |-> "Analyzed", row |-> 0]
Picture == [status : RowStatuses \cup {"Disabled"}, row : 0 .. MaxGoroutines]

PipelineReconcilerTypeOK ==
  /\ pipeline \in {"Queue", "Analyzed", "Running", "Success", "Failed"}
  /\ rows \in [Tasks -> Seq(RowStatuses)]
  /\ processingTasks \subseteq Tasks
  /\ at \in [Calls -> {"none", "listen", "save", "stuck", "execute", "run", "delete",
                       "read", "schedule", "after", "done"}]
  /\ started \in [Tasks -> 0 .. MaxGoroutines]
  /\ parent \in [Goroutines -> Calls]
  /\ tasks \in [Calls -> [Tasks -> Picture]]
  /\ todo \in [Calls -> SUBSET Tasks]
  /\ row \in [Goroutines -> 0 .. MaxGoroutines]
  /\ \A g \in Goroutines :
       at[g] \in {"execute", "run"} => row[g] \in DOMAIN rows[g[1]]
  /\ again \in BOOLEAN /\ overtaken \in 0 .. MaxOvertaken
  /\ errors \in 0 .. MaxErrors /\ failures \in 0 .. MaxErrors

Init ==
  /\ pipeline = "Queue"
  /\ rows = [t \in Tasks |-> <<>>]
  /\ processingTasks = {}
  /\ at = [c \in Calls |-> IF c = Root THEN "listen" ELSE "none"]
  /\ started = [t \in Tasks |-> 0]
  /\ parent = [g \in Goroutines |-> Root]
  /\ tasks = [c \in Calls |-> [t \in Tasks |-> Unsaved]]
  /\ todo = [c \in Calls |-> {}]
  /\ row = [g \in Goroutines |-> 0]
  /\ again = FALSE /\ overtaken = 0
  /\ errors = 0 /\ failures = 0

Fail == errors + failures < MaxErrors /\ failures' = failures + 1

-----------------------------------------------------------------------------
(* What is calculated from the tasks.                                      *)

(* An action needs all actions of the earlier stages.                      *)
Needs == [t \in Tasks |-> {u \in Tasks : Stage[u] < Stage[t]}]

(* YmlTaskMergeDBTasks.                                                    *)
Merged ==
  [t \in Tasks |->
     IF rows[t] # <<>> THEN [status |-> rows[t][Len(rows[t])], row |-> Len(rows[t])]
     ELSE IF t \in Disabled THEN [Unsaved EXCEPT !.status = "Disabled"] ELSE Unsaved]

DoneTasks(read) == {t \in Tasks : read[t].status \in Ends \cup {"Disabled"}}

(* A mistake: one done node before it is enough.                           *)
IsSchedulableAny(t, done) == Needs[t] = {} \/ Needs[t] \cap done # {}
IsSchedulable(t, done) == Needs[t] \subseteq done

(* GetSchedulable walks from the roots through nodes that are done, so it  *)
(* reaches every node whose needs are done.                                *)
GetSchedulable(done) == {t \in Tasks \ done : IsSchedulable(t, done)}

FailedForGood(t, status) == status = "Failed" /\ t \notin AllowFailure

(* A mistake: every task that has ended counts.                            *)
SucceededOrFailed(t, status) == status \in Ends \cup {"Disabled"}
Succeeded(t, status) == status \in Ends \cup {"Disabled"} /\ ~FailedForGood(t, status)

(* CalculatePipelineStatusV2, of a set of tasks with their statuses.       *)
CalculatePipelineStatusV2(S) ==
  CASE S = {} -> "Success"
    [] S # {} /\ (\A x \in S : x[2] = "Analyzed") -> "Analyzed"
    [] S # {} /\ (\A x \in S : Succeeded(x[1], x[2])) -> "Success"
    [] /\ \A x \in S : x[2] # "Running"
       /\ \E x \in S : FailedForGood(x[1], x[2]) -> "Failed"
    [] OTHER -> "Running"

CalcOfRead(read) == CalculatePipelineStatusV2({<<t, read[t].status>> : t \in Tasks})
CalcOfRows ==
  CalculatePipelineStatusV2(UNION {{<<t, rows[t][i]>> : i \in DOMAIN rows[t]} : t \in Tasks})

-----------------------------------------------------------------------------
(* The call by Listen.                                                     *)
Listen ==
  /\ at[Root] = "listen"
  /\ \/ /\ IsEnd(pipeline)
        /\ at' = [at EXCEPT ![Root] = "done"]
        /\ UNCHANGED pipeline
     \/ /\ ~IsEnd(pipeline)
        /\ pipeline' = "Running"
        /\ at' = [at EXCEPT ![Root] = "read"]
  /\ again' = FALSE
  /\ UNCHANGED <<rows, processingTasks, goVars, callVars, overtaken, countVars>>

Leave(c) == IF c = Root THEN "after" ELSE "done"

(* The pipeline and its tasks.  The error of a goroutine's call is dropped.*)
ReadTasks(c) ==
  /\ at[c] = "read"
  /\ \/ /\ tasks' = [tasks EXCEPT ![c] = Merged]
        /\ todo' = [todo EXCEPT ![c] = GetSchedulable(DoneTasks(tasks'[c]))]
        /\ at' = [at EXCEPT ![c] = "schedule"]
        /\ UNCHANGED <<again, failures>>
     \/ /\ Fail
        /\ at' = [at EXCEPT ![c] = Leave(c)]
        /\ again' = (again \/ c = Root)
        /\ UNCHANGED callVars
  /\ UNCHANGED <<dbVars, processingTasks, goVars, overtaken, errors>>

(* A mistake: the task is stored without a look.                           *)
AlreadyProcessingNever(t) == FALSE
AlreadyProcessing(t) == t \in processingTasks

(* LoadOrStore, for one of the schedulable tasks.                          *)
LoadOrStore(c, t) ==
  /\ at[c] = "schedule" /\ t \in todo[c]
  /\ todo' = [todo EXCEPT ![c] = @ \ {t}]
  /\ \/ AlreadyProcessing(t) /\ UNCHANGED <<processingTasks, at, goVars, overtaken>>
     \/ /\ ~AlreadyProcessing(t) /\ started[t] < MaxGoroutines
        /\ LET g == <<t, started[t] + 1>>
           IN /\ at' = [at EXCEPT ![g] = "save"]
              /\ parent' = [parent EXCEPT ![g] = c]
        /\ started' = [started EXCEPT ![t] = @ + 1]
        /\ processingTasks' = processingTasks \cup {t}
        /\ overtaken' = overtaken + (IF tasks[c][t] = Merged[t] THEN 0 ELSE 1)
        /\ overtaken' <= MaxOvertaken
        /\ UNCHANGED row
  /\ UNCHANGED <<dbVars, tasks, again, countVars>>

(* The goroutines are started when every task has been looked up.          *)
Waits(c) == at[c] = "schedule" /\ todo[c] = {}

(* wg.Wait.  What the call knew is gone with it.                           *)
Return(c) ==
  /\ Waits(c)
  /\ \A g \in Goroutines : parent[g] = c => at[g] \in {"none", "done"}
  /\ at' = [at EXCEPT ![c] = Leave(c)]
  /\ tasks' = [tasks EXCEPT ![c] = [t \in Tasks |-> Unsaved]]
  /\ parent' = [g \in Goroutines |-> IF parent[g] = c THEN Root ELSE parent[g]]
  /\ row' = [g \in Goroutines |-> IF g = c THEN 0 ELSE row[g]]
  /\ UNCHANGED <<dbVars, processingTasks, started, todo, again, overtaken, countVars>>

-----------------------------------------------------------------------------
(* The goroutine of a task.                                                *)

Read(g) == tasks[parent[g]][g[1]]

(* After an error of saveTask the goroutine is gone, without a word to the *)
(* WaitGroup.  A mistake: the error is not looked at.                      *)
OnSaveErrorIgnored == "execute"
OnSaveError == "stuck"

(* saveTask: a task without a row gets one; a task that succeeded in the   *)
(* pipeline this is a rerun of gets it as it was.                          *)
SaveTask(g) ==
  LET t == g[1]
  IN /\ at[g] = "save" /\ Waits(parent[g])
     /\ \/ /\ Read(g).row = 0
           /\ rows' = [rows EXCEPT ![t] =
                         Append(@, IF t \in Rerun THEN "Success" ELSE "Analyzed")]
           /\ row' = [row EXCEPT ![g] = Len(rows[t]) + 1]
           /\ at' = [at EXCEPT ![g] = "execute"]
           /\ UNCHANGED failures
        \/ /\ Read(g).row # 0
           /\ row' = [row EXCEPT ![g] = Read(g).row]
           /\ at' = [at EXCEPT ![g] = "execute"]
           /\ UNCHANGED <<rows, failures>>
        \/ /\ Read(g).row = 0 /\ Fail
           /\ at' = [at EXCEPT ![g] = OnSaveError]
           /\ UNCHANGED <<rows, row>>
     /\ UNCHANGED <<pipeline, processingTasks, started, parent, callVars, again, overtaken, errors>>

SetRow(g, status) == rows' = [rows EXCEPT ![g[1]][row[g]] = status]

(* tr.Task: the row this goroutine created, or the task as it was read,    *)
(* with the status of its job where it is known to have one.               *)
TaskStatus(g) ==
  CASE Read(g).row = 0 -> rows[g[1]][row[g]]
    [] Read(g).row # 0 /\ Read(g).status = "Running" -> rows[g[1]][row[g]]
    [] OTHER -> Read(g).status

(* A mistake: a task with an `if` is not looked at.                        *)
SkippedWithIf(g) == CalcOfRead(tasks[parent[g]]) = "Failed" /\ g[1] \in HasIf
Skipped(g) == CalcOfRead(tasks[parent[g]]) = "Failed" /\ g[1] \notin HasIf

(* The executor may be missing.  After a failure a task without `if` is    *)
(* not needed; another one is run, unless it has ended.                    *)
Execute(g) ==
  /\ at[g] = "execute"
  /\ \/ /\ Fail
        /\ at' = [at EXCEPT ![g] = "delete"]
        /\ UNCHANGED rows
     \/ /\ Skipped(g)
        /\ SetRow(g, "NoNeedBySystem")
        /\ at' = [at EXCEPT ![g] = "delete"]
        /\ UNCHANGED failures
     \/ /\ ~Skipped(g) /\ IsEnd(TaskStatus(g))
        /\ SetRow(g, TaskStatus(g))
        /\ at' = [at EXCEPT ![g] = "delete"]
        /\ UNCHANGED failures
     \/ /\ ~Skipped(g) /\ ~IsEnd(TaskStatus(g))
        /\ SetRow(g, "Running")
        /\ at' = [at EXCEPT ![g] = "run"]
        /\ UNCHANGED failures
  /\ UNCHANGED <<pipeline, processingTasks, goVars, callVars, again, overtaken, errors>>

(* reconcileTask returns: the task has ended, or was given up with an      *)
(* error of the user and is as it was.                                     *)
ReconcileTask(g) ==
  /\ at[g] = "run"
  /\ \/ /\ SetRow(g, "Success") /\ UNCHANGED errors
     \/ /\ g[1] \in MayFail /\ SetRow(g, "Failed") /\ UNCHANGED errors
     \/ /\ errors + failures < MaxErrors /\ errors' = errors + 1 /\ UNCHANGED rows
  /\ at' = [at EXCEPT ![g] = "delete"]
  /\ UNCHANGED <<pipeline, processingTasks, goVars, callVars, again, overtaken, failures>>

(* A mistake: a task that was given up stays in processingTasks.           *)
DeleteEnded(g) ==
  /\ at[g] = "delete"
  /\ processingTasks' = IF IsEnd(rows[g[1]][row[g]]) THEN processingTasks \ {g[1]}
                        ELSE processingTasks
  /\ at' = [at EXCEPT ![g] = "read"]
  /\ UNCHANGED <<dbVars, goVars, callVars, again, overtaken, countVars>>

(* The deferred function: processingTasks first, then reconcile again.     *)
Delete(g) ==
  /\ at[g] = "delete"
  /\ processingTasks' = processingTasks \ {g[1]}
  /\ at' = [at EXCEPT ![g] = "read"]
  /\ UNCHANGED <<dbVars, goVars, callVars, again, overtaken, countVars>>

(* updateStatusAfterReconcile reads the rows and writes what they say;     *)
(* teardownPipeline: tasks that have not begun are not needed.  Then, if   *)
(* reconcile failed, Listen gets the pipeline again.                       *)
UpdateStatusAfterReconcile ==
  LET status == IF IsEnd(pipeline) THEN pipeline ELSE CalcOfRows
      idle(i, t) == IsEnd(status) /\ rows[t][i] = "Analyzed"
  IN /\ at[Root] = "after"
     /\ \/ /\ pipeline' = status
           /\ rows' = [t \in Tasks |-> [i \in DOMAIN rows[t] |->
                         IF idle(i, t) THEN "NoNeedBySystem" ELSE rows[t][i]]]
           /\ UNCHANGED failures
        \/ Fail /\ UNCHANGED dbVars
     /\ at' = [at EXCEPT ![Root] = IF again THEN "listen" ELSE "done"]
     /\ UNCHANGED <<processingTasks, goVars, callVars, again, overtaken, errors>>

-----------------------------------------------------------------------------
Call(c) ==
  ReadTasks(c) \/ (\E t \in Tasks : LoadOrStore(c, t)) \/ Return(c)
Go(g) == SaveTask(g) \/ Execute(g) \/ ReconcileTask(g) \/ Delete(g) \/ Call(g)
ListenStep == Listen \/ Call(Root) \/ UpdateStatusAfterReconcile

Next == ListenStep \/ (\E g \in Goroutines : Go(g))

Spec == Init /\ [][Next]_vars
(* Some goroutine that can go on does, and a task that runs ends: less     *)
(* than the Go scheduler gives.                                            *)
FairSpec == Spec /\ WF_vars(Next)

-----------------------------------------------------------------------------
(* Properties.                                                             *)

Over(t) == t \in Disabled \/ (rows[t] # <<>> /\ IsEnd(rows[t][Len(rows[t])]))
BadlyFailed(t) == \E i \in DOMAIN rows[t] : FailedForGood(t, rows[t][i])
Begins(g) == at[g] # "run" /\ at'[g] = "run"

(* Of the goroutines of a task that several calls find schedulable at the  *)
(* same time, only one handles it at a time.                               *)
OneGoroutinePerTask ==
  \A g, h \in Goroutines :
    /\ g[1] = h[1]
    /\ at[g] \in {"save", "execute", "run", "delete"}
    /\ at[h] \in {"save", "execute", "run", "delete"}
    => g = h

(* A task begins only after every task of the earlier stages has ended or  *)
(* is disabled, however old the picture is from which it was scheduled (as *)
(* long as no ended task was itself taken up again from an old picture).   *)
NeedsRespected ==
  [][\A g \in Goroutines : Begins(g) => overtaken > 0 \/ \A t \in Needs[g[1]] : Over(t)]_vars

(* Once a task failed that was not allowed to, no task of a later stage    *)
(* begins unless it has an `if`, however the ends of its siblings and the  *)
(* calls of reconcile interleave (under the same condition; and, where a   *)
(* task has an `if`, as long as no error gives one of its siblings up: the *)
(* picture that takes the sibling up again then shows a pipeline that      *)
(* runs, not one that failed).                                             *)
FailureStops ==
  [][\A g \in Goroutines : Begins(g) /\ g[1] \notin HasIf =>
       overtaken > 0 \/ \A t \in Needs[g[1]] : ~BadlyFailed(t)]_vars

(* A pipeline that is closed without a platform error is over: every task  *)
(* has ended or is disabled, and the pipeline is a failure exactly when a  *)
(* task failed that was not allowed to.                                    *)
VerdictIsRight ==
  IsEnd(pipeline) /\ failures = 0 =>
    /\ \A t \in Tasks : Over(t)
    /\ pipeline = "Failed" <=> \E t \in Tasks : BadlyFailed(t)

(* A pipeline is a success only when every task has ended or is disabled:  *)
(* a reconcile that failed is made again before that.                      *)
SuccessIsComplete == pipeline = "Success" => \A t \in Tasks : Over(t)

(* Without platform errors every pipeline ends: whichever goroutine ends   *)
(* last finds what is schedulable next, and nobody waits for ever.  (A     *)
(* task taken up from an old picture may get a second row, and the first   *)
(* one stay as it was.)                                                    *)
EveryPipelineEnds ==
  [](failures = 0 /\ overtaken = 0) => <>(IsEnd(pipeline) /\ at[Root] = "done")
=============================================================================
