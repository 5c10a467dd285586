---------------------- MODULE PipelineReconcilerProofs ----------------------
(* Proofs about reconcile, for every set of tasks and stages and any       *)
(* number of goroutines and errors.                                        *)
EXTENDS PipelineReconciler, TLAPS, SequenceTheorems

Places ==
  {"none", "listen", "save", "stuck", "execute", "run", "delete", "read", "schedule",
   "after", "done"}

(* A goroutine that has its task: between LoadOrStore and Delete.          *)
Working == {"save", "execute", "run", "delete"}

(* It is processingTasks that keeps two goroutines of a task apart.        *)
WorkIsProcessing ==
  \A g \in Goroutines : at[g] \in Working => g[1] \in processingTasks

(* Goroutines are numbered in the order in which they are started.         *)
UnusedGoroutines ==
  \A g \in Goroutines : g[2] > started[g[1]] => at[g] = "none"

(* Each goroutine adds at most one row to its task.                        *)
RowsWithinStarted ==
  /\ \A t \in Tasks : Len(rows[t]) <= started[t]
  /\ \A g \in Goroutines : at[g] = "save" => Len(rows[g[1]]) < started[g[1]]

(* The rows a call has read still exist.                                   *)
PicturesExist ==
  \A c \in Calls, t \in Tasks : tasks[c][t].row <= Len(rows[t])

TypeInv ==
  /\ PipelineReconcilerTypeOK
  /\ WorkIsProcessing /\ UnusedGoroutines /\ OneGoroutinePerTask
  /\ RowsWithinStarted /\ PicturesExist

-----------------------------------------------------------------------------
LEMMA RootIsNoGoroutine == Root \notin Goroutines /\ Root \in Calls
BY PipelineReconcilerAssumption DEF Goroutines, Calls

LEMMA GoroutineType ==
  ASSUME NEW g \in Goroutines
  PROVE  g[1] \in Tasks /\ g[2] \in 1 .. MaxGoroutines /\ g \in Calls /\ g = <<g[1], g[2]>>
BY DEF Goroutines, Calls

(* The picture reconcile takes of the tasks.                               *)
LEMMA MergedType ==
  ASSUME PipelineReconcilerTypeOK, RowsWithinStarted
  PROVE  /\ Merged \in [Tasks -> Picture]
         /\ \A t \in Tasks : Merged[t].row <= Len(rows[t])
<1> SUFFICES ASSUME NEW t \in Tasks
             PROVE  Merged[t] \in Picture /\ Merged[t].row <= Len(rows[t])
  BY DEF Merged
<1>1. /\ rows[t] \in Seq(RowStatuses) /\ Len(rows[t]) \in Nat
      /\ Len(rows[t]) <= MaxGoroutines /\ MaxGoroutines \in Nat
  BY PipelineReconcilerAssumption DEF PipelineReconcilerTypeOK, RowsWithinStarted
<1>2. CASE rows[t] # <<>>
  <2>1. Len(rows[t]) \in 1 .. MaxGoroutines /\ rows[t][Len(rows[t])] \in RowStatuses
    BY <1>1, <1>2, ElementOfSeq, EmptySeq
  <2> QED BY <1>2, <2>1 DEF Merged, Picture
<1>3. CASE rows[t] = <<>>
  BY <1>1, <1>3 DEF Merged, Picture, Unsaved, RowStatuses
<1> QED BY <1>2, <1>3

LEMMA CalculatedStatus ==
  \A S : CalculatePipelineStatusV2(S) \in {"Analyzed", "Running", "Success", "Failed"}
BY DEF CalculatePipelineStatusV2

LEMMA InitTypeInv == Init => TypeInv
<1> SUFFICES ASSUME Init PROVE TypeInv
  OBVIOUS
<1> USE RootIsNoGoroutine DEF Init
<1>1. rows \in [Tasks -> Seq(RowStatuses)] /\ \A t \in Tasks : Len(rows[t]) = 0
  BY EmptySeq
<1>2. Unsaved \in Picture /\ Unsaved.row = 0
  BY PipelineReconcilerAssumption DEF Unsaved, Picture, RowStatuses
<1>3. tasks \in [Calls -> [Tasks -> Picture]]
  BY <1>2
<1>4. \A g \in Goroutines : at[g] = "none"
  BY GoroutineType
<1>5. PipelineReconcilerTypeOK
  <2>1. at \in [Calls -> Places]
    BY DEF Places
  <2>2. started \in [Tasks -> 0 .. MaxGoroutines] /\ row \in [Goroutines -> 0 .. MaxGoroutines]
    BY PipelineReconcilerAssumption
  <2>3. overtaken \in 0 .. MaxOvertaken /\ errors \in 0 .. MaxErrors /\ failures \in 0 .. MaxErrors
    BY PipelineReconcilerAssumption
  <2>4. todo \in [Calls -> SUBSET Tasks] /\ parent \in [Goroutines -> Calls] /\ processingTasks \subseteq Tasks
    OBVIOUS
  <2> QED BY <1>1, <1>3, <1>4, <2>1, <2>2, <2>3, <2>4 DEF PipelineReconcilerTypeOK, Places
<1>6. WorkIsProcessing /\ UnusedGoroutines /\ OneGoroutinePerTask
  BY <1>4 DEF WorkIsProcessing, UnusedGoroutines, OneGoroutinePerTask, Working
<1>7. RowsWithinStarted /\ PicturesExist
  BY <1>1, <1>2, <1>4 DEF RowsWithinStarted, PicturesExist
<1> QED
  BY <1>5, <1>6, <1>7 DEF TypeInv

(* A step that does not start a goroutine and leaves the rows as many as   *)
(* they were.                                                              *)
LEMMA QuietStep ==
  ASSUME TypeInv, NEW c \in Calls, NEW place \in Places \ {"save"},
         at' = [at EXCEPT ![c] = place],
         c \in Goroutines => at[c] # "none",
         place \in Working => at[c] \in Working,
         UNCHANGED <<processingTasks, started>>,
         \A t \in Tasks : Len(rows'[t]) = Len(rows[t])
  PROVE  /\ at' \in [Calls -> Places]
         /\ WorkIsProcessing' /\ UnusedGoroutines' /\ OneGoroutinePerTask'
         /\ RowsWithinStarted'
<1> USE DEF TypeInv
<1>1. at \in [Calls -> Places]
  BY DEF PipelineReconcilerTypeOK, Places
<1>2. \A g \in Goroutines : /\ g \in Calls
                            /\ at'[g] = IF g = c THEN place ELSE at[g]
  BY <1>1, GoroutineType
<1>3. WorkIsProcessing'
  BY <1>2 DEF WorkIsProcessing
<1>4. UnusedGoroutines'
  BY <1>2 DEF UnusedGoroutines
<1>5. OneGoroutinePerTask'
  BY <1>2 DEF OneGoroutinePerTask, Working
<1>6. RowsWithinStarted'
  BY <1>2, GoroutineType DEF RowsWithinStarted
<1> QED BY <1>1, <1>3, <1>4, <1>5, <1>6

LEMMA ListenTypeInv ==
  ASSUME TypeInv, Listen
  PROVE  TypeInv'
<1> USE DEF TypeInv
<1>1. PICK place \in {"read", "done"} : at' = [at EXCEPT ![Root] = place]
  BY DEF Listen
<1>2. UNCHANGED <<rows, processingTasks, started, parent, row, tasks, todo>>
  BY DEF Listen, goVars, callVars
<1>3. /\ at' \in [Calls -> Places]
      /\ WorkIsProcessing' /\ UnusedGoroutines' /\ OneGoroutinePerTask'
      /\ RowsWithinStarted'
  BY <1>1, <1>2, RootIsNoGoroutine, QuietStep DEF Working, Places
<1>4. PipelineReconcilerTypeOK'
  BY <1>1, <1>2, <1>3, RootIsNoGoroutine, GoroutineType
     DEF PipelineReconcilerTypeOK, Listen, countVars, Places
<1>5. PicturesExist'
  BY <1>2 DEF PicturesExist
<1> QED BY <1>3, <1>4, <1>5

LEMMA ReadTasksTypeInv ==
  ASSUME TypeInv, NEW c \in Calls, ReadTasks(c)
  PROVE  TypeInv'
<1> USE DEF TypeInv
<1>1. at[c] = "read" /\ UNCHANGED <<rows, processingTasks, started, parent, row>>
  BY DEF ReadTasks, goVars, dbVars
<1>2. PICK place \in {"schedule", "after", "done"} : at' = [at EXCEPT ![c] = place]
  BY DEF ReadTasks, Leave
<1>3. /\ at' \in [Calls -> Places]
      /\ WorkIsProcessing' /\ UnusedGoroutines' /\ OneGoroutinePerTask'
      /\ RowsWithinStarted'
  BY <1>1, <1>2, QuietStep DEF Working, Places
<1>4. Merged \in [Tasks -> Picture] /\ \A t \in Tasks : Merged[t].row <= Len(rows[t])
  BY MergedType
<1>5. /\ tasks' \in [Calls -> [Tasks -> Picture]] /\ todo' \in [Calls -> SUBSET Tasks]
      /\ PicturesExist'
  <2>0. tasks \in [Calls -> [Tasks -> Picture]] /\ todo \in [Calls -> SUBSET Tasks]
    BY DEF PipelineReconcilerTypeOK
  <2>1. CASE UNCHANGED <<tasks, todo>>
    BY <1>1, <2>0, <2>1 DEF PicturesExist
  <2>2. CASE /\ tasks' = [tasks EXCEPT ![c] = Merged]
             /\ todo' = [todo EXCEPT ![c] = GetSchedulable(DoneTasks(tasks'[c]))]
    <3>1. GetSchedulable(DoneTasks(tasks'[c])) \subseteq Tasks
      BY DEF GetSchedulable
    <3>2. PicturesExist'
      BY <1>1, <1>4, <2>0, <2>2 DEF PicturesExist
    <3> QED BY <1>4, <2>0, <2>2, <3>1, <3>2
  <2> QED BY <2>1, <2>2 DEF ReadTasks, callVars
<1>6. /\ pipeline' = pipeline /\ overtaken' = overtaken /\ errors' = errors
      /\ again' \in BOOLEAN /\ failures' \in 0 .. MaxErrors
  <2>1. again' \in BOOLEAN
    BY Zenon DEF ReadTasks, PipelineReconcilerTypeOK
  <2>2. failures' = failures \/ (errors + failures < MaxErrors /\ failures' = failures + 1)
    BY DEF ReadTasks, Fail
  <2> QED BY <2>1, <2>2, PipelineReconcilerAssumption
          DEF ReadTasks, dbVars, PipelineReconcilerTypeOK
<1>7. \A g \in Goroutines : at'[g] \in {"execute", "run"} => at[g] \in {"execute", "run"}
  BY <1>2, GoroutineType DEF PipelineReconcilerTypeOK
<1>8. PipelineReconcilerTypeOK'
  BY <1>1, <1>3, <1>5, <1>6, <1>7 DEF PipelineReconcilerTypeOK, Places
<1> QED BY <1>3, <1>5, <1>8

LEMMA LoadOrStoreTypeInv ==
  ASSUME TypeInv, NEW c \in Calls, NEW t \in Tasks, LoadOrStore(c, t)
  PROVE  TypeInv'
<1> USE DEF TypeInv
<1> DEFINE g == <<t, started[t] + 1>>
<1>1. /\ todo' \in [Calls -> SUBSET Tasks]
      /\ UNCHANGED <<pipeline, rows, tasks, row, again, errors, failures>>
  BY DEF LoadOrStore, PipelineReconcilerTypeOK, dbVars, countVars, goVars
<1>2. PicturesExist'
  BY <1>1 DEF PicturesExist
<1>3. CASE UNCHANGED <<processingTasks, at, started, parent, overtaken>>
  <2>1. PipelineReconcilerTypeOK'
    BY <1>1, <1>3 DEF PipelineReconcilerTypeOK
  <2> QED BY <1>1, <1>2, <1>3, <2>1
          DEF WorkIsProcessing, UnusedGoroutines, OneGoroutinePerTask, RowsWithinStarted
<1>4. CASE /\ t \notin processingTasks /\ started[t] < MaxGoroutines
           /\ at' = [at EXCEPT ![g] = "save"]
           /\ parent' = [parent EXCEPT ![g] = c]
           /\ started' = [started EXCEPT ![t] = @ + 1]
           /\ processingTasks' = processingTasks \cup {t}
           /\ overtaken' = overtaken + (IF tasks[c][t] = Merged[t] THEN 0 ELSE 1)
           /\ overtaken' <= MaxOvertaken
  <2>1. /\ started \in [Tasks -> 0 .. MaxGoroutines] /\ MaxGoroutines \in Nat
        /\ at \in [Calls -> Places]
    BY PipelineReconcilerAssumption DEF PipelineReconcilerTypeOK, Places
  <2>2. g \in Goroutines /\ g \in Calls /\ g[1] = t /\ g[2] = started[t] + 1
    BY <1>4, <2>1 DEF Goroutines, Calls
  <2>3. at[g] = "none"
    BY <2>1, <2>2 DEF UnusedGoroutines
  <2>4. \A h \in Goroutines : h \in Calls /\ at'[h] = IF h = g THEN "save" ELSE at[h]
    BY <1>4, <2>1, <2>2, GoroutineType
  <2>5. started' \in [Tasks -> 0 .. MaxGoroutines]
    BY <1>4, <2>1
  <2>6. overtaken' \in 0 .. MaxOvertaken
    BY <1>4, PipelineReconcilerAssumption DEF PipelineReconcilerTypeOK
  <2>7. PipelineReconcilerTypeOK'
    BY <1>1, <1>4, <2>1, <2>2, <2>4, <2>5, <2>6 DEF PipelineReconcilerTypeOK, Places
  <2>8. WorkIsProcessing'
    BY <1>4, <2>2, <2>4 DEF WorkIsProcessing
  <2>9. UnusedGoroutines'
    BY <1>4, <2>1, <2>2, <2>4, GoroutineType DEF UnusedGoroutines
  <2>10. OneGoroutinePerTask'
    BY <1>4, <2>2, <2>4 DEF OneGoroutinePerTask, WorkIsProcessing, Working
  <2>11. RowsWithinStarted'
    <3>1. \A u \in Tasks : Len(rows[u]) \in Nat
      BY DEF PipelineReconcilerTypeOK
    <3> QED BY <1>1, <1>4, <2>1, <2>2, <2>4, <3>1, GoroutineType DEF RowsWithinStarted
  <2> QED BY <1>2, <2>7, <2>8, <2>9, <2>10, <2>11
<1> QED BY <1>3, <1>4 DEF LoadOrStore, goVars, AlreadyProcessing

LEMMA ReturnTypeInv ==
  ASSUME TypeInv, NEW c \in Calls, Return(c)
  PROVE  TypeInv'
<1> USE DEF TypeInv
<1>1. at[c] = "schedule" /\ UNCHANGED <<pipeline, rows, processingTasks, started, todo, again,
                                        overtaken, errors, failures>>
  BY DEF Return, Waits, dbVars, countVars
<1>2. PICK place \in {"after", "done"} : at' = [at EXCEPT ![c] = place]
  BY DEF Return, Leave
<1>3. /\ at' \in [Calls -> Places]
      /\ WorkIsProcessing' /\ UnusedGoroutines' /\ OneGoroutinePerTask'
      /\ RowsWithinStarted'
  BY <1>1, <1>2, QuietStep DEF Working, Places
<1>4. /\ Unsaved \in Picture /\ Unsaved.row = 0 /\ MaxGoroutines \in Nat
      /\ \A t \in Tasks : Len(rows[t]) \in Nat
  BY PipelineReconcilerAssumption
     DEF Unsaved, Picture, RowStatuses, PipelineReconcilerTypeOK
<1>5. tasks' \in [Calls -> [Tasks -> Picture]] /\ PicturesExist'
  BY <1>1, <1>4 DEF Return, PipelineReconcilerTypeOK, PicturesExist
<1>6. parent' \in [Goroutines -> Calls]
  BY RootIsNoGoroutine DEF Return, PipelineReconcilerTypeOK
<1>7. row' \in [Goroutines -> 0 .. MaxGoroutines]
  BY <1>4 DEF Return, PipelineReconcilerTypeOK
<1>8. \A g \in Goroutines : at'[g] \in {"execute", "run"} =>
        at[g] \in {"execute", "run"} /\ row'[g] = row[g]
  BY <1>1, <1>2, GoroutineType DEF PipelineReconcilerTypeOK, Return
<1>9. PipelineReconcilerTypeOK'
  BY <1>1, <1>3, <1>5, <1>6, <1>7, <1>8 DEF PipelineReconcilerTypeOK, Places
<1> QED BY <1>3, <1>5, <1>9

(* Writing the status of an existing row.                                  *)
LEMMA SetRowType ==
  ASSUME PipelineReconcilerTypeOK, NEW g \in Goroutines, row[g] \in DOMAIN rows[g[1]],
         NEW status \in RowStatuses, SetRow(g, status)
  PROVE  /\ rows' \in [Tasks -> Seq(RowStatuses)]
         /\ \A t \in Tasks : Len(rows'[t]) = Len(rows[t])
         /\ \A t \in Tasks : DOMAIN rows'[t] = DOMAIN rows[t]
<1>1. /\ rows \in [Tasks -> Seq(RowStatuses)] /\ g[1] \in Tasks
      /\ row[g] \in 1 .. Len(rows[g[1]])
  BY GoroutineType, LenProperties DEF PipelineReconcilerTypeOK
<1>2. rows' = [rows EXCEPT ![g[1]] = [rows[g[1]] EXCEPT ![row[g]] = status]]
  BY <1>1 DEF SetRow
<1>3. /\ [rows[g[1]] EXCEPT ![row[g]] = status] \in Seq(RowStatuses)
      /\ Len([rows[g[1]] EXCEPT ![row[g]] = status]) = Len(rows[g[1]])
  BY <1>1, ExceptSeq
<1>4. rows' \in [Tasks -> Seq(RowStatuses)] /\ \A t \in Tasks : Len(rows'[t]) = Len(rows[t])
  BY <1>1, <1>2, <1>3
<1> QED BY <1>1, <1>4, LenProperties

LEMMA ReadType ==
  ASSUME TypeInv, NEW g \in Goroutines
  PROVE  Read(g) \in Picture /\ Read(g).row <= Len(rows[g[1]])
BY GoroutineType DEF TypeInv, PipelineReconcilerTypeOK, PicturesExist, Read

LEMMA SaveTaskTypeInv ==
  ASSUME TypeInv, NEW g \in Goroutines, SaveTask(g)
  PROVE  TypeInv'
<1> USE DEF TypeInv
<1> DEFINE t == g[1]
           new == IF t \in Rerun THEN "Success" ELSE "Analyzed"
<1>1. /\ at[g] = "save"
      /\ UNCHANGED <<pipeline, processingTasks, started, parent, tasks, todo, again,
                     overtaken, errors>>
  BY DEF SaveTask, callVars
<1>2. /\ t \in Tasks /\ g \in Calls /\ MaxGoroutines \in Nat
      /\ rows[t] \in Seq(RowStatuses) /\ Len(rows[t]) \in Nat
      /\ Len(rows[t]) < started[t] /\ started[t] \in 0 .. MaxGoroutines
      /\ at \in [Calls -> Places]
  BY <1>1, GoroutineType, PipelineReconcilerAssumption
     DEF PipelineReconcilerTypeOK, RowsWithinStarted, Places
<1>3. PICK place \in {"execute", "stuck"} : at' = [at EXCEPT ![g] = place]
  BY DEF SaveTask, OnSaveError
<1>4. /\ failures' \in 0 .. MaxErrors
  BY PipelineReconcilerAssumption DEF SaveTask, Fail, PipelineReconcilerTypeOK
<1>5. CASE Read(g).row = 0 /\ rows' = [rows EXCEPT ![t] = Append(@, new)]
           /\ row' = [row EXCEPT ![g] = Len(rows[t]) + 1]
  <2>1. /\ Append(rows[t], new) \in Seq(RowStatuses)
        /\ Len(Append(rows[t], new)) = Len(rows[t]) + 1
    BY <1>2, AppendProperties DEF RowStatuses, Ends
  <2>2. /\ rows' \in [Tasks -> Seq(RowStatuses)]
        /\ \A u \in Tasks : Len(rows'[u]) = IF u = t THEN Len(rows[u]) + 1 ELSE Len(rows[u])
    BY <1>2, <1>5, <2>1 DEF PipelineReconcilerTypeOK
  <2>3. \A u \in Tasks : /\ Len(rows[u]) \in Nat
                         /\ DOMAIN rows[u] \subseteq DOMAIN rows'[u]
                         /\ DOMAIN rows'[u] = 1 .. Len(rows'[u])
    BY <2>2, LenProperties DEF PipelineReconcilerTypeOK
  <2>4. row' \in [Goroutines -> 0 .. MaxGoroutines]
    BY <1>2, <1>5 DEF PipelineReconcilerTypeOK
  <2>5. \A h \in Goroutines : at'[h] \in {"execute", "run"} => row'[h] \in DOMAIN rows'[h[1]]
    <3> SUFFICES ASSUME NEW h \in Goroutines, at'[h] \in {"execute", "run"}
                 PROVE  row'[h] \in DOMAIN rows'[h[1]]
      OBVIOUS
    <3>1. CASE h = g
      BY <1>2, <1>5, <2>2, <2>3, <3>1 DEF PipelineReconcilerTypeOK
    <3>2. CASE h # g
      BY <1>2, <1>3, <1>5, <2>3, <3>2, GoroutineType DEF PipelineReconcilerTypeOK
    <3> QED BY <3>1, <3>2
  <2>6. at' \in [Calls -> Places]
    BY <1>2, <1>3 DEF Places
  <2>7. PipelineReconcilerTypeOK'
    BY <1>1, <1>4, <2>2, <2>4, <2>5, <2>6 DEF PipelineReconcilerTypeOK, Places
  <2>8. \A h \in Goroutines : h \in Calls /\ at'[h] = IF h = g THEN place ELSE at[h]
    BY <1>2, <1>3, GoroutineType
  <2>9. WorkIsProcessing' /\ UnusedGoroutines'
    BY <1>1, <2>8 DEF WorkIsProcessing, UnusedGoroutines, Working
  <2>10. OneGoroutinePerTask'
    BY <1>1, <2>8 DEF OneGoroutinePerTask
  <2>11. RowsWithinStarted'
    <3>1. \A u \in Tasks : Len(rows'[u]) <= started[u]
      BY <1>2, <2>2, <2>3 DEF RowsWithinStarted, PipelineReconcilerTypeOK
    <3>2. \A h \in Goroutines : at'[h] = "save" => at[h] = "save" /\ h[1] # t /\ h[1] \in Tasks
      BY <1>1, <2>8, GoroutineType DEF OneGoroutinePerTask
    <3> QED BY <1>1, <2>2, <3>1, <3>2 DEF RowsWithinStarted
  <2>12. PicturesExist'
    <3> SUFFICES ASSUME NEW c \in Calls, NEW u \in Tasks
                 PROVE  tasks[c][u].row <= Len(rows'[u])
      BY <1>1 DEF PicturesExist
    <3>1. tasks[c][u].row <= Len(rows[u]) /\ tasks[c][u].row \in 0 .. MaxGoroutines
      BY DEF PicturesExist, PipelineReconcilerTypeOK, Picture
    <3> QED BY <1>2, <2>2, <2>3, <3>1
  <2> QED BY <2>7, <2>9, <2>10, <2>11, <2>12
<1>6. CASE /\ rows' = rows
           /\ \/ row' = row /\ place = "stuck"
              \/ Read(g).row # 0 /\ row' = [row EXCEPT ![g] = Read(g).row]
  <2>1. /\ at' \in [Calls -> Places]
        /\ WorkIsProcessing' /\ UnusedGoroutines' /\ OneGoroutinePerTask'
        /\ RowsWithinStarted'
    BY <1>1, <1>2, <1>3, <1>6, QuietStep DEF Working, Places
  <2>2. Read(g).row \in 0 .. MaxGoroutines /\ Read(g).row <= Len(rows[t])
    BY ReadType DEF Picture
  <2>3. row' \in [Goroutines -> 0 .. MaxGoroutines]
    BY <1>6, <2>2 DEF PipelineReconcilerTypeOK
  <2>4. \A h \in Goroutines : at'[h] \in {"execute", "run"} => row'[h] \in DOMAIN rows'[h[1]]
    <3> SUFFICES ASSUME NEW h \in Goroutines, at'[h] \in {"execute", "run"}
                 PROVE  row'[h] \in DOMAIN rows[h[1]]
      BY <1>6
    <3>1. CASE h = g
      <4>1. place # "stuck"
        BY <1>2, <1>3, <3>1
      <4>2. DOMAIN rows[t] = 1 .. Len(rows[t])
        BY <1>2, LenProperties
      <4> QED BY <1>2, <1>6, <2>2, <3>1, <4>1, <4>2 DEF PipelineReconcilerTypeOK
    <3>2. CASE h # g
      BY <1>2, <1>3, <1>6, <3>2, GoroutineType DEF PipelineReconcilerTypeOK
    <3> QED BY <3>1, <3>2
  <2>5. PipelineReconcilerTypeOK'
    BY <1>1, <1>4, <1>6, <2>1, <2>3, <2>4 DEF PipelineReconcilerTypeOK, Places
  <2>6. PicturesExist'
    BY <1>1, <1>6 DEF PicturesExist
  <2> QED BY <2>1, <2>5, <2>6
<1>7. CASE Read(g).row = 0 /\ at' = [at EXCEPT ![g] = "stuck"] /\ UNCHANGED <<rows, row>>
  <2>1. place = "stuck" /\ rows' = rows /\ row' = row
    BY <1>2, <1>3, <1>7
  <2> QED BY <1>6, <2>1
<1>8. CASE Read(g).row # 0 /\ row' = [row EXCEPT ![g] = Read(g).row] /\ UNCHANGED rows
  BY <1>6, <1>8
<1> QED BY <1>5, <1>7, <1>8 DEF SaveTask, OnSaveError

LEMMA ExecuteTypeInv ==
  ASSUME TypeInv, NEW g \in Goroutines, Execute(g) \/ ReconcileTask(g)
  PROVE  TypeInv'
<1> USE DEF TypeInv
<1>1. /\ at[g] \in {"execute", "run"}
      /\ UNCHANGED <<pipeline, processingTasks, started, parent, row, tasks, todo, again,
                     overtaken>>
  BY DEF Execute, ReconcileTask, goVars, callVars
<1>2. PICK place \in {"run", "delete"} : at' = [at EXCEPT ![g] = place]
  BY DEF Execute, ReconcileTask
<1>3. errors' \in 0 .. MaxErrors /\ failures' \in 0 .. MaxErrors
  BY PipelineReconcilerAssumption
     DEF Execute, ReconcileTask, Fail, PipelineReconcilerTypeOK
<1>4. UNCHANGED rows \/ \E status \in RowStatuses : SetRow(g, status)
  BY DEF Execute, ReconcileTask, RowStatuses, Ends, IsEnd
<1>5. /\ rows' \in [Tasks -> Seq(RowStatuses)]
      /\ \A t \in Tasks : Len(rows'[t]) = Len(rows[t])
      /\ \A t \in Tasks : DOMAIN rows'[t] = DOMAIN rows[t]
  <2>1. CASE UNCHANGED rows
    BY <2>1 DEF PipelineReconcilerTypeOK
  <2>2. ASSUME NEW status \in RowStatuses, SetRow(g, status)
        PROVE  <1>5
    BY <1>1, <2>2, SetRowType DEF PipelineReconcilerTypeOK
  <2> QED BY <1>4, <2>1, <2>2
<1>6. /\ at' \in [Calls -> Places]
      /\ WorkIsProcessing' /\ UnusedGoroutines' /\ OneGoroutinePerTask'
      /\ RowsWithinStarted'
  BY <1>1, <1>2, <1>5, GoroutineType, QuietStep DEF Working, Places
<1>7. \A h \in Goroutines : at'[h] \in {"execute", "run"} =>
        at[h] \in {"execute", "run"} /\ h[1] \in Tasks
  BY <1>1, <1>2, GoroutineType DEF PipelineReconcilerTypeOK
<1>8. PipelineReconcilerTypeOK'
  BY <1>1, <1>3, <1>5, <1>6, <1>7 DEF PipelineReconcilerTypeOK, Places
<1>9. PicturesExist'
  BY <1>1, <1>5 DEF PicturesExist
<1> QED BY <1>6, <1>8, <1>9

LEMMA DeleteTypeInv ==
  ASSUME TypeInv, NEW g \in Goroutines, Delete(g)
  PROVE  TypeInv'
<1> USE DEF TypeInv
<1>1. /\ at[g] = "delete" /\ at' = [at EXCEPT ![g] = "read"]
      /\ processingTasks' = processingTasks \ {g[1]}
      /\ UNCHANGED <<pipeline, rows, started, parent, row, tasks, todo, again, overtaken,
                     errors, failures>>
  BY DEF Delete, dbVars, goVars, callVars, countVars
<1>2. at \in [Calls -> Places] /\ g \in Calls
  BY GoroutineType DEF PipelineReconcilerTypeOK, Places
<1>3. \A h \in Goroutines : h \in Calls /\ at'[h] = IF h = g THEN "read" ELSE at[h]
  BY <1>1, <1>2, GoroutineType
<1>4. PipelineReconcilerTypeOK'
  BY <1>1, <1>2, <1>3 DEF PipelineReconcilerTypeOK, Places
<1>5. WorkIsProcessing'
  BY <1>1, <1>3 DEF WorkIsProcessing, OneGoroutinePerTask, Working
<1>6. UnusedGoroutines' /\ OneGoroutinePerTask' /\ RowsWithinStarted' /\ PicturesExist'
  BY <1>1, <1>3 DEF UnusedGoroutines, OneGoroutinePerTask, RowsWithinStarted, PicturesExist
<1> QED BY <1>4, <1>5, <1>6

LEMMA UpdateStatusTypeInv ==
  ASSUME TypeInv, UpdateStatusAfterReconcile
  PROVE  TypeInv'
<1> USE DEF TypeInv
<1>1. UNCHANGED <<processingTasks, started, parent, row, tasks, todo, again, overtaken, errors>>
  BY DEF UpdateStatusAfterReconcile, goVars, callVars
<1>2. PICK place \in {"listen", "done"} : at' = [at EXCEPT ![Root] = place]
  BY DEF UpdateStatusAfterReconcile
<1>3. failures' \in 0 .. MaxErrors
  BY PipelineReconcilerAssumption
     DEF UpdateStatusAfterReconcile, Fail, PipelineReconcilerTypeOK
<1>4. pipeline' \in {"Queue", "Analyzed", "Running", "Success", "Failed"}
  BY CalculatedStatus
     DEF UpdateStatusAfterReconcile, dbVars, CalcOfRows, PipelineReconcilerTypeOK
<1>5. /\ rows' \in [Tasks -> Seq(RowStatuses)]
      /\ \A t \in Tasks : Len(rows'[t]) = Len(rows[t])
      /\ \A t \in Tasks : DOMAIN rows'[t] = DOMAIN rows[t]
  <2>1. CASE UNCHANGED rows
    BY <2>1 DEF PipelineReconcilerTypeOK
  <2>2. CASE ~UNCHANGED rows
    <3> DEFINE status == IF IsEnd(pipeline) THEN pipeline ELSE CalcOfRows
    <3>1. rows' = [t \in Tasks |-> [i \in DOMAIN rows[t] |->
                     IF IsEnd(status) /\ rows[t][i] = "Analyzed"
                     THEN "NoNeedBySystem" ELSE rows[t][i]]]
      BY <2>2 DEF UpdateStatusAfterReconcile, dbVars
    <3> HIDE DEF status
    <3> SUFFICES ASSUME NEW t \in Tasks
                 PROVE  /\ rows'[t] \in Seq(RowStatuses)
                        /\ Len(rows'[t]) = Len(rows[t])
                        /\ DOMAIN rows'[t] = DOMAIN rows[t]
      BY <3>1
    <3>2. Len(rows[t]) \in Nat /\ rows[t] \in [1 .. Len(rows[t]) -> RowStatuses]
      BY LenProperties DEF PipelineReconcilerTypeOK
    <3>3. rows'[t] \in [1 .. Len(rows[t]) -> RowStatuses]
      BY <3>1, <3>2 DEF RowStatuses, Ends
    <3>4. rows'[t] \in Seq(RowStatuses)
      BY <3>2, <3>3
    <3> QED BY <3>2, <3>3, <3>4, LenProperties
  <2> QED BY <2>1, <2>2
<1>6. /\ at' \in [Calls -> Places]
      /\ WorkIsProcessing' /\ UnusedGoroutines' /\ OneGoroutinePerTask'
      /\ RowsWithinStarted'
  BY <1>1, <1>2, <1>5, RootIsNoGoroutine, QuietStep DEF Working, Places
<1>7. \A h \in Goroutines : at'[h] = at[h] /\ h[1] \in Tasks
  BY <1>2, RootIsNoGoroutine, GoroutineType DEF PipelineReconcilerTypeOK
<1>8. PipelineReconcilerTypeOK'
  BY <1>1, <1>3, <1>4, <1>5, <1>6, <1>7 DEF PipelineReconcilerTypeOK, Places
<1>9. PicturesExist'
  BY <1>1, <1>5 DEF PicturesExist
<1> QED BY <1>6, <1>8, <1>9

LEMMA NextTypeInv == TypeInv /\ [Next]_vars => TypeInv'
<1> SUFFICES ASSUME TypeInv, [Next]_vars PROVE TypeInv'
  OBVIOUS
<1>1. ASSUME NEW c \in Calls, Call(c) PROVE TypeInv'
  BY <1>1, ReadTasksTypeInv, LoadOrStoreTypeInv, ReturnTypeInv DEF Call
<1>2. ASSUME NEW g \in Goroutines, Go(g) PROVE TypeInv'
  BY <1>1, <1>2, GoroutineType, SaveTaskTypeInv, ExecuteTypeInv, DeleteTypeInv DEF Go
<1>3. CASE ListenStep
  BY <1>1, <1>3, RootIsNoGoroutine, ListenTypeInv, UpdateStatusTypeInv DEF ListenStep
<1>4. CASE UNCHANGED vars
  BY <1>4 DEF vars, dbVars, goVars, callVars, countVars, TypeInv, PipelineReconcilerTypeOK,
              WorkIsProcessing, UnusedGoroutines, OneGoroutinePerTask, RowsWithinStarted,
              PicturesExist
<1> QED BY <1>2, <1>3, <1>4 DEF Next

LEMMA TypeInvariant == Spec => []TypeInv
BY InitTypeInv, NextTypeInv, PTL DEF Spec

(* The state of reconcile keeps its shape: in particular a goroutine only  *)
(* ever writes to a row that exists, also when it works from an old        *)
(* picture or saveTask has failed.                                         *)
THEOREM ReconcilerTypeCorrect == Spec => []PipelineReconcilerTypeOK
<1>1. TypeInv => PipelineReconcilerTypeOK
  BY DEF TypeInv
<1> QED BY <1>1, TypeInvariant, PTL

(* LoadOrStore and Delete of processingTasks keep two goroutines from      *)
(* handling the same task at the same time, however many calls of          *)
(* reconcile find it schedulable.                                          *)
THEOREM TasksAreExclusive == Spec => []OneGoroutinePerTask
<1>1. TypeInv => OneGoroutinePerTask
  BY DEF TypeInv
<1> QED BY <1>1, TypeInvariant, PTL
=============================================================================
