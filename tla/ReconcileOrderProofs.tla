------------------------ MODULE ReconcileOrderProofs ------------------------
(* In which order reconcile runs the tasks, and what it says of them in    *)
(* the end: proofs for every set of tasks and stages and any number of     *)
(* goroutines.                                                             *)
EXTENDS PipelineReconcilerProofs, WellFoundedInduction

-----------------------------------------------------------------------------
(* The calls of reconcile are a tree: each one waits for the goroutines it *)
(* has started, and each of these for the goroutines of its own call.      *)

Active(g) == at[g] \notin {"none", "done"}

ParentWaits == \A g \in Goroutines : Active(g) => at[parent[g]] = "schedule"

RanksParents(rank) ==
  \A g \in Goroutines : Active(g) => parent[g] = Root \/ rank[parent[g]] < rank[g]

Ranked == \E rank \in [Goroutines -> Nat] : RanksParents(rank)

(* A call takes up what its own picture shows to be schedulable.           *)
FromPicture ==
  /\ \A c \in Calls : at[c] = "schedule" =>
       /\ Disabled \subseteq DoneTasks(tasks[c])
       /\ \A t \in todo[c] : t \notin DoneTasks(tasks[c]) /\ Needs[t] \subseteq DoneTasks(tasks[c])
  /\ \A g \in Goroutines : at[g] \in {"save", "execute"} =>
       Needs[g[1]] \subseteq DoneTasks(tasks[parent[g]])

DisabledIdle ==
  /\ \A t \in Disabled : rows[t] = <<>>
  /\ \A g \in Goroutines : Active(g) => g[1] \notin Disabled

RunIsRunning == \A g \in Goroutines : at[g] = "run" => rows[g[1]][row[g]] = "Running"

TreeInv ==
  TypeInv /\ ParentWaits /\ Ranked /\ FromPicture /\ DisabledIdle /\ RunIsRunning

LEMMA LeastNatural ==
  ASSUME NEW T, T \subseteq Nat, T # {}
  PROVE  \E n \in T : \A m \in T : ~(m < n)
<1>1. PICK n \in T : \A m \in T : <<m, n>> \notin OpToRel(<, Nat)
  BY Zenon, NatLessThanWellFounded, WFMin
<1>2. \A m \in T : m \in Nat /\ n \in Nat => ~(m < n)
  BY <1>1, Zenon DEF OpToRel
<1> QED BY <1>2

(* As long as Listen is not in the call of Root, no goroutine is at work:  *)
(* the WaitGroups of the calls below it have let it go.                    *)
LEMMA RootIsLast ==
  ASSUME TypeInv, ParentWaits, Ranked, at[Root] # "schedule"
  PROVE  \A g \in Goroutines : ~Active(g)
<1> SUFFICES ASSUME NEW g0 \in Goroutines, Active(g0) PROVE FALSE
  OBVIOUS
<1>1. PICK rank \in [Goroutines -> Nat] : RanksParents(rank)
  BY DEF Ranked
<1> DEFINE T == {rank[g] : g \in {h \in Goroutines : Active(h)}}
<1>2. T \subseteq Nat /\ T # {}
  BY <1>1
<1>3. PICK n \in T : \A m \in T : ~(m < n)
  BY <1>2, LeastNatural
<1>4. PICK g \in Goroutines : Active(g) /\ rank[g] = n
  BY <1>3
<1>5. parent[g] \in Calls /\ at[parent[g]] = "schedule"
  BY <1>4 DEF TypeInv, PipelineReconcilerTypeOK, ParentWaits
<1>6. parent[g] \in Goroutines /\ Active(parent[g])
  BY <1>5 DEF Calls, Active
<1>7. rank[parent[g]] < rank[g] /\ rank[parent[g]] \in T /\ rank[parent[g]] \in Nat
  BY <1>1, <1>4, <1>5, <1>6 DEF RanksParents
<1> QED BY <1>3, <1>4, <1>7

(* A step of a call that does not wait for goroutines.                     *)
LEMMA TreeQuiet ==
  ASSUME TypeInv, ParentWaits, Ranked, NEW c \in Calls, NEW place \in Places,
         at' = [at EXCEPT ![c] = place], at[c] # "schedule",
         c \in Goroutines => Active(c), parent' = parent
  PROVE  ParentWaits' /\ Ranked' /\ \A g \in Goroutines : Active(g)' => Active(g)
<1>1. \A x \in Calls : at'[x] = IF x = c THEN place ELSE at[x]
  BY DEF TypeInv, PipelineReconcilerTypeOK
<1>2. \A g \in Goroutines : Active(g)' => Active(g)
  BY <1>1, GoroutineType DEF Active
<1>3. ParentWaits'
  <2> SUFFICES ASSUME NEW g \in Goroutines, Active(g)' PROVE at'[parent[g]] = "schedule"
    BY DEF ParentWaits
  <2>1. at[parent[g]] = "schedule" /\ parent[g] \in Calls
    BY <1>2 DEF ParentWaits, TypeInv, PipelineReconcilerTypeOK
  <2> QED BY <1>1, <2>1
<1>4. Ranked'
  <2>1. PICK rank \in [Goroutines -> Nat] : RanksParents(rank)
    BY DEF Ranked
  <2>2. RanksParents(rank)'
    BY <1>2, <2>1 DEF RanksParents
  <2> QED BY <2>1, <2>2 DEF Ranked
<1> QED BY <1>2, <1>3, <1>4

(* A step of a call that neither reads nor waits.                          *)
LEMMA TreeStep ==
  ASSUME TreeInv, TypeInv', NEW c \in Calls, NEW place \in Places \ {"save", "schedule"},
         at' = [at EXCEPT ![c] = place], at[c] # "schedule",
         c \in Goroutines => Active(c), place = "execute" => at[c] = "save",
         parent' = parent, tasks' = tasks, todo' = todo,
         \A t \in Disabled : rows'[t] = <<>>,
         \A g \in Goroutines : at'[g] = "run" => rows'[g[1]][row'[g]] = "Running"
  PROVE  TreeInv'
<1> USE DEF TreeInv
<1>1. \A x \in Calls : at'[x] = IF x = c THEN place ELSE at[x]
  BY DEF TypeInv, PipelineReconcilerTypeOK
<1>2. ParentWaits' /\ Ranked' /\ \A g \in Goroutines : Active(g)' => Active(g)
  BY TreeQuiet
<1>3. FromPicture'
  <2>1. \A x \in Calls : at'[x] = "schedule" => at[x] = "schedule"
    BY <1>1
  <2>2. \A g \in Goroutines : at'[g] \in {"save", "execute"} => at[g] \in {"save", "execute"}
    BY <1>1, GoroutineType
  <2> QED BY <2>1, <2>2 DEF FromPicture, DoneTasks
<1>4. DisabledIdle' /\ RunIsRunning'
  BY <1>2 DEF DisabledIdle, RunIsRunning
<1> QED BY <1>2, <1>3, <1>4

LEMMA InitTree == Init => TreeInv
<1> SUFFICES ASSUME Init PROVE TreeInv
  OBVIOUS
<1>1. TypeInv
  BY InitTypeInv
<1>2. \A g \in Goroutines : at[g] = "none"
  BY RootIsNoGoroutine, GoroutineType DEF Init
<1>3. \A c \in Calls : at[c] # "schedule"
  BY DEF Init
<1>4. ParentWaits /\ FromPicture /\ RunIsRunning
  BY <1>2, <1>3 DEF ParentWaits, Active, FromPicture, RunIsRunning
<1>5. DisabledIdle
  BY <1>2, PipelineReconcilerAssumption DEF DisabledIdle, Active, Init
<1>6. Ranked
  <2>1. [g \in Goroutines |-> 0] \in [Goroutines -> Nat] /\ RanksParents([g \in Goroutines |-> 0])
    BY <1>2 DEF RanksParents, Active
  <2> QED BY <2>1 DEF Ranked
<1> QED BY <1>1, <1>4, <1>5, <1>6 DEF TreeInv

LEMMA ReadTasksTree ==
  ASSUME TreeInv, NEW c \in Calls, ReadTasks(c)
  PROVE  TreeInv'
<1> USE DEF TreeInv
<1>1. TypeInv'
  BY ReadTasksTypeInv
<1>2. /\ at[c] = "read" /\ Active(c)
      /\ UNCHANGED <<rows, parent, row>>
  BY DEF ReadTasks, Active, dbVars, goVars
<1>3. CASE /\ at' = [at EXCEPT ![c] = Leave(c)] /\ UNCHANGED <<tasks, todo>>
  <2>1. Leave(c) \in {"after", "done"}
    BY DEF Leave
  <2>2. \A g \in Goroutines : at'[g] = "run" => at[g] = "run"
    BY <1>3, <2>1, GoroutineType DEF TypeInv, PipelineReconcilerTypeOK
  <2>3. \A g \in Goroutines : at'[g] = "run" => rows'[g[1]][row'[g]] = "Running"
    BY <1>2, <2>2 DEF RunIsRunning
  <2> QED BY <1>1, <1>2, <1>3, <2>1, <2>3, TreeStep DEF DisabledIdle, Places
<1>4. CASE /\ tasks' = [tasks EXCEPT ![c] = Merged]
           /\ todo' = [todo EXCEPT ![c] = GetSchedulable(DoneTasks(tasks'[c]))]
           /\ at' = [at EXCEPT ![c] = "schedule"]
  <2>1. ParentWaits' /\ Ranked' /\ \A g \in Goroutines : Active(g)' => Active(g)
    BY <1>2, <1>4, TreeQuiet DEF Places
  <2>2. /\ \A x \in Calls : at'[x] = IF x = c THEN "schedule" ELSE at[x]
        /\ \A x \in Calls : tasks'[x] = IF x = c THEN Merged ELSE tasks[x]
        /\ \A x \in Calls : todo'[x] = IF x = c THEN GetSchedulable(DoneTasks(Merged)) ELSE todo[x]
    BY <1>4 DEF TypeInv, PipelineReconcilerTypeOK
  <2>3. Disabled \subseteq DoneTasks(Merged)
    BY PipelineReconcilerAssumption DEF DisabledIdle, DoneTasks, Merged, Unsaved
  <2>4. \A t \in GetSchedulable(DoneTasks(Merged)) :
          t \notin DoneTasks(Merged) /\ Needs[t] \subseteq DoneTasks(Merged)
    BY DEF GetSchedulable, IsSchedulable
  <2>5. \A g \in Goroutines : at'[g] \in {"save", "execute"} =>
          /\ at[g] \in {"save", "execute"} /\ parent'[g] \in Calls
          /\ tasks'[parent'[g]] = tasks[parent[g]]
    <3> SUFFICES ASSUME NEW g \in Goroutines, at'[g] \in {"save", "execute"}
                 PROVE  /\ at[g] \in {"save", "execute"} /\ parent'[g] \in Calls
                        /\ tasks'[parent'[g]] = tasks[parent[g]]
      OBVIOUS
    <3>1. at[g] \in {"save", "execute"} /\ Active(g)
      BY <2>2, GoroutineType DEF Active
    <3>2. parent[g] \in Calls /\ at[parent[g]] = "schedule"
      BY <3>1 DEF ParentWaits, TypeInv, PipelineReconcilerTypeOK
    <3> QED BY <1>2, <2>2, <3>1, <3>2
  <2>6. FromPicture'
    <3>1. ASSUME NEW x \in Calls, at'[x] = "schedule"
          PROVE  /\ Disabled \subseteq DoneTasks(tasks'[x])
                 /\ \A t \in todo'[x] : /\ t \notin DoneTasks(tasks'[x])
                                        /\ Needs[t] \subseteq DoneTasks(tasks'[x])
      BY <2>2, <2>3, <2>4, <3>1 DEF FromPicture
    <3>2. ASSUME NEW g \in Goroutines, at'[g] \in {"save", "execute"}
          PROVE  Needs[g[1]] \subseteq DoneTasks(tasks'[parent'[g]])
      BY <2>5, <3>2 DEF FromPicture
    <3> QED BY <3>1, <3>2 DEF FromPicture, DoneTasks
  <2>7. DisabledIdle' /\ RunIsRunning'
    BY <1>2, <2>1, <2>2, GoroutineType DEF DisabledIdle, RunIsRunning
  <2> QED BY <1>1, <2>1, <2>6, <2>7
<1> QED BY <1>3, <1>4 DEF ReadTasks, callVars

(* What a call that finds a task free does to the goroutines.              *)
LEMMA Starts ==
  ASSUME TypeInv, NEW c \in Calls, NEW t \in Tasks, LoadOrStore(c, t), ~AlreadyProcessing(t)
  PROVE  \E g \in Goroutines :
           /\ g[1] = t /\ at[g] = "none" /\ g # c
           /\ \A x \in Calls : at'[x] = IF x = g THEN "save" ELSE at[x]
           /\ \A h \in Goroutines : parent'[h] = IF h = g THEN c ELSE parent[h]
<1> DEFINE g == <<t, started[t] + 1>>
<1>1. /\ at[c] = "schedule" /\ started[t] < MaxGoroutines
      /\ at' = [at EXCEPT ![g] = "save"] /\ parent' = [parent EXCEPT ![g] = c]
  BY DEF LoadOrStore
<1>2. started[t] \in Nat
  BY DEF TypeInv, PipelineReconcilerTypeOK
<1>3. g \in Goroutines /\ g \in Calls /\ g[1] = t /\ g[2] = started[t] + 1
  BY <1>1, <1>2, PipelineReconcilerAssumption DEF Goroutines, Calls
<1>4. at[g] = "none"
  BY <1>2, <1>3 DEF TypeInv, UnusedGoroutines
<1> HIDE DEF g
<1>5. /\ \A x \in Calls : at'[x] = IF x = g THEN "save" ELSE at[x]
      /\ \A h \in Goroutines : parent'[h] = IF h = g THEN c ELSE parent[h]
  BY <1>1, <1>3 DEF TypeInv, PipelineReconcilerTypeOK
<1> QED BY <1>1, <1>3, <1>4, <1>5

LEMMA LoadOrStoreTree ==
  ASSUME TreeInv, NEW c \in Calls, NEW t \in Tasks, LoadOrStore(c, t)
  PROVE  TreeInv'
<1> USE DEF TreeInv
<1>1. TypeInv'
  BY LoadOrStoreTypeInv
<1>2. /\ at[c] = "schedule" /\ t \in todo[c]
      /\ rows' = rows /\ tasks' = tasks /\ row' = row
      /\ \A x \in Calls : todo'[x] \subseteq todo[x]
  BY DEF LoadOrStore, dbVars, goVars, TypeInv, PipelineReconcilerTypeOK
<1>3. CASE UNCHANGED <<at, parent>>
  <2>1. ParentWaits' /\ DisabledIdle' /\ RunIsRunning'
    BY <1>2, <1>3 DEF ParentWaits, Active, DisabledIdle, RunIsRunning
  <2>2. Ranked'
    BY <1>3 DEF Ranked, RanksParents, Active
  <2>3. FromPicture'
    BY <1>2, <1>3 DEF FromPicture, DoneTasks
  <2> QED BY <1>1, <2>1, <2>2, <2>3
<1>4. CASE ~AlreadyProcessing(t)
  <2>1. PICK g \in Goroutines :
           /\ g[1] = t /\ at[g] = "none" /\ g # c
           /\ \A x \in Calls : at'[x] = IF x = g THEN "save" ELSE at[x]
           /\ \A h \in Goroutines : parent'[h] = IF h = g THEN c ELSE parent[h]
    BY <1>4, Starts
  <2>2. \A h \in Goroutines : /\ h \in Calls /\ parent[h] \in Calls
                              /\ Active(h)' => h = g \/ Active(h)
    BY <2>1, GoroutineType DEF Active, TypeInv, PipelineReconcilerTypeOK
  <2>3. ParentWaits'
    <3> SUFFICES ASSUME NEW h \in Goroutines, Active(h)' PROVE at'[parent'[h]] = "schedule"
      BY DEF ParentWaits
    <3>1. CASE h = g
      BY <1>2, <2>1, <3>1
    <3>2. CASE h # g
      <4>1. at[parent[h]] = "schedule"
        BY <2>2, <3>2 DEF ParentWaits
      <4> QED BY <2>1, <2>2, <3>2, <4>1
    <3> QED BY <3>1, <3>2
  <2>4. Ranked'
    <3>1. PICK rank \in [Goroutines -> Nat] : RanksParents(rank)
      BY DEF Ranked
    <3> DEFINE n == IF c = Root THEN 0 ELSE rank[c] + 1
               new == [rank EXCEPT ![g] = n]
    <3>2. n \in Nat /\ (c # Root => rank[c] < n)
      BY <3>1 DEF Calls
    <3>3. /\ new \in [Goroutines -> Nat]
          /\ \A h \in Goroutines : new[h] = IF h = g THEN n ELSE rank[h]
      BY <2>1, <3>1, <3>2
    <3> HIDE DEF n, new
    <3>4. ASSUME NEW h \in Goroutines, Active(h)', parent'[h] # Root
          PROVE  new[parent'[h]] < new[h]
      <4>1. CASE h = g
        BY <2>1, <3>2, <3>3, <3>4, <4>1 DEF Calls
      <4>2. CASE h # g
        <5>1. /\ Active(h) /\ parent'[h] = parent[h] /\ at[parent[h]] = "schedule"
              /\ parent[h] \in Goroutines
          BY <2>1, <2>2, <3>4, <4>2 DEF ParentWaits, Calls
        <5>2. rank[parent[h]] < rank[h] /\ parent[h] # g
          BY <2>1, <3>1, <3>4, <5>1 DEF RanksParents
        <5> QED BY <3>3, <4>2, <5>1, <5>2
      <4> QED BY <4>1, <4>2
    <3> QED BY <3>3, <3>4 DEF Ranked, RanksParents
  <2>5. FromPicture'
    <3>1. ASSUME NEW x \in Calls, at'[x] = "schedule"
          PROVE  /\ Disabled \subseteq DoneTasks(tasks'[x])
                 /\ \A u \in todo'[x] : /\ u \notin DoneTasks(tasks'[x])
                                        /\ Needs[u] \subseteq DoneTasks(tasks'[x])
      BY <1>2, <2>1, <3>1 DEF FromPicture
    <3>2. ASSUME NEW h \in Goroutines, at'[h] \in {"save", "execute"}
          PROVE  Needs[h[1]] \subseteq DoneTasks(tasks'[parent'[h]])
      BY <1>2, <2>1, <2>2, <3>2 DEF FromPicture
    <3> QED BY <3>1, <3>2 DEF FromPicture, DoneTasks
  <2>6. t \notin Disabled
    BY <1>2 DEF FromPicture
  <2>7. DisabledIdle' /\ RunIsRunning'
    BY <1>2, <2>1, <2>2, <2>6 DEF DisabledIdle, RunIsRunning
  <2> QED BY <1>1, <2>3, <2>4, <2>5, <2>7
<1> QED BY <1>3, <1>4 DEF LoadOrStore, goVars

LEMMA ReturnTree ==
  ASSUME TreeInv, NEW c \in Calls, Return(c)
  PROVE  TreeInv'
<1> USE DEF TreeInv
<1>1. TypeInv'
  BY ReturnTypeInv
<1>2. /\ at[c] = "schedule" /\ todo[c] = {} /\ rows' = rows /\ todo' = todo
      /\ \A g \in Goroutines : parent[g] = c => ~Active(g)
      /\ \A g \in Goroutines : parent'[g] = IF parent[g] = c THEN Root ELSE parent[g]
      /\ \A g \in Goroutines : g # c => row'[g] = row[g]
  BY DEF Return, Waits, Active, dbVars
<1>3. /\ \A x \in Calls : at'[x] = IF x = c THEN Leave(c) ELSE at[x]
      /\ \A x \in Calls : x # c => tasks'[x] = tasks[x]
      /\ Leave(c) \in {"after", "done"}
  BY DEF Return, Leave, TypeInv, PipelineReconcilerTypeOK
<1>4. \A g \in Goroutines : g \in Calls /\ (Active(g)' => Active(g))
  BY <1>2, <1>3, GoroutineType DEF Active
<1>5. \A g \in Goroutines : Active(g)' => /\ parent[g] # c /\ parent'[g] = parent[g]
                                          /\ parent[g] \in Calls
  BY <1>2, <1>4 DEF TypeInv, PipelineReconcilerTypeOK
<1>6. ParentWaits'
  BY <1>3, <1>4, <1>5 DEF ParentWaits
<1>7. Ranked'
  <2>1. PICK rank \in [Goroutines -> Nat] : RanksParents(rank)
    BY DEF Ranked
  <2>2. RanksParents(rank)'
    BY <1>4, <1>5, <2>1 DEF RanksParents
  <2> QED BY <2>1, <2>2 DEF Ranked
<1>8. FromPicture'
  <2>1. ASSUME NEW x \in Calls, at'[x] = "schedule"
        PROVE  /\ Disabled \subseteq DoneTasks(tasks'[x])
               /\ \A u \in todo'[x] : /\ u \notin DoneTasks(tasks'[x])
                                      /\ Needs[u] \subseteq DoneTasks(tasks'[x])
    BY <1>2, <1>3, <2>1 DEF FromPicture
  <2>2. ASSUME NEW h \in Goroutines, at'[h] \in {"save", "execute"}
        PROVE  Needs[h[1]] \subseteq DoneTasks(tasks'[parent'[h]])
    <3>1. Active(h)' /\ at[h] \in {"save", "execute"}
      BY <1>3, <1>4, <2>2 DEF Active
    <3> QED BY <1>3, <1>5, <3>1 DEF FromPicture
  <2> QED BY <2>1, <2>2 DEF FromPicture, DoneTasks
<1>9. DisabledIdle'
  BY <1>2, <1>4 DEF DisabledIdle
<1>10. RunIsRunning'
  BY <1>2, <1>3, <1>4 DEF RunIsRunning
<1> QED BY <1>1, <1>6, <1>7, <1>8, <1>9, <1>10

(* What the steps of a goroutine do to the rows.                           *)
LEMMA SetRowEffect ==
  ASSUME TypeInv, NEW g \in Goroutines, at[g] \in {"execute", "run"}, NEW s, SetRow(g, s)
  PROVE  /\ \A t \in Tasks : t # g[1] => rows'[t] = rows[t]
         /\ DOMAIN rows'[g[1]] = DOMAIN rows[g[1]]
         /\ Len(rows'[g[1]]) = Len(rows[g[1]])
         /\ row[g] \in DOMAIN rows[g[1]]
         /\ \A i \in DOMAIN rows[g[1]] :
              rows'[g[1]][i] = IF i = row[g] THEN s ELSE rows[g[1]][i]
<1>1. /\ rows \in [Tasks -> Seq(RowStatuses)] /\ g[1] \in Tasks
      /\ rows[g[1]] \in Seq(RowStatuses) /\ row[g] \in DOMAIN rows[g[1]]
  BY GoroutineType DEF TypeInv, PipelineReconcilerTypeOK
<1>2. rows' = [rows EXCEPT ![g[1]] = [rows[g[1]] EXCEPT ![row[g]] = s]]
  BY DEF SetRow
<1>3. rows'[g[1]] = [rows[g[1]] EXCEPT ![row[g]] = s]
  BY <1>1, <1>2
<1>4. Len([rows[g[1]] EXCEPT ![row[g]] = s]) = Len(rows[g[1]])
  <2> DEFINE S == RowStatuses \cup {s}
  <2>1. rows[g[1]] \in Seq(S) /\ s \in S /\ row[g] \in 1 .. Len(rows[g[1]])
    BY <1>1, LenProperties
  <2> HIDE DEF S
  <2> QED BY <2>1, ExceptSeq
<1> QED BY <1>1, <1>2, <1>3, <1>4

LEMMA SaveTaskEffect ==
  ASSUME TypeInv, NEW g \in Goroutines, SaveTask(g)
  PROVE  /\ at[g] = "save" /\ Waits(parent[g])
         /\ UNCHANGED <<pipeline, processingTasks, started, parent, tasks, todo, again,
                        overtaken, errors>>
         /\ \A t \in Tasks : t # g[1] => rows'[t] = rows[t]
         /\ \A h \in Goroutines : h # g => row'[h] = row[h]
         /\ \/ /\ at' = [at EXCEPT ![g] = "execute"] /\ failures' = failures
               /\ Read(g).row = 0
               /\ rows'[g[1]] = Append(rows[g[1]], IF g[1] \in Rerun THEN "Success" ELSE "Analyzed")
               /\ row'[g] = Len(rows[g[1]]) + 1
            \/ /\ at' = [at EXCEPT ![g] = "execute"] /\ failures' = failures
               /\ Read(g).row # 0 /\ rows' = rows /\ row'[g] = Read(g).row
            \/ /\ at' = [at EXCEPT ![g] = "stuck"] /\ failures' = failures + 1
               /\ rows' = rows /\ row' = row
<1>1. /\ rows \in [Tasks -> Seq(RowStatuses)] /\ g[1] \in Tasks
      /\ row \in [Goroutines -> 0 .. MaxGoroutines]
  BY GoroutineType DEF TypeInv, PipelineReconcilerTypeOK
<1>2. /\ at[g] = "save" /\ Waits(parent[g])
      /\ UNCHANGED <<pipeline, processingTasks, started, parent, tasks, todo, again,
                     overtaken, errors>>
  BY DEF SaveTask, callVars
<1> QED BY <1>1, <1>2 DEF SaveTask, OnSaveError, Fail

LEMMA UpdateStatusEffect ==
  ASSUME TypeInv, UpdateStatusAfterReconcile
  PROVE  /\ at[Root] = "after"
         /\ at' = [at EXCEPT ![Root] = IF again THEN "listen" ELSE "done"]
         /\ UNCHANGED <<processingTasks, started, parent, row, tasks, todo, again,
                        overtaken, errors>>
         /\ \A t \in Tasks :
              /\ DOMAIN rows'[t] = DOMAIN rows[t] /\ Len(rows'[t]) = Len(rows[t])
              /\ \A i \in DOMAIN rows[t] :
                   \/ rows'[t][i] = rows[t][i]
                   \/ rows[t][i] = "Analyzed" /\ rows'[t][i] = "NoNeedBySystem"
<1>1. /\ at[Root] = "after"
      /\ at' = [at EXCEPT ![Root] = IF again THEN "listen" ELSE "done"]
      /\ UNCHANGED <<processingTasks, started, parent, row, tasks, todo, again,
                     overtaken, errors>>
  BY DEF UpdateStatusAfterReconcile, goVars, callVars
<1>2. CASE UNCHANGED rows
  BY <1>1, <1>2
<1>3. CASE ~UNCHANGED rows
  <2> DEFINE status == IF IsEnd(pipeline) THEN pipeline ELSE CalcOfRows
  <2>1. rows' = [t \in Tasks |-> [i \in DOMAIN rows[t] |->
                   IF IsEnd(status) /\ rows[t][i] = "Analyzed"
                   THEN "NoNeedBySystem" ELSE rows[t][i]]]
    BY <1>3 DEF UpdateStatusAfterReconcile, dbVars
  <2> HIDE DEF status
  <2>2. ASSUME NEW t \in Tasks
        PROVE  /\ DOMAIN rows'[t] = DOMAIN rows[t] /\ Len(rows'[t]) = Len(rows[t])
               /\ \A i \in DOMAIN rows[t] :
                    \/ rows'[t][i] = rows[t][i]
                    \/ rows[t][i] = "Analyzed" /\ rows'[t][i] = "NoNeedBySystem"
    <3>1. DOMAIN rows'[t] = DOMAIN rows[t]
      BY <2>1
    <3>2. Len(rows'[t]) = Len(rows[t])
      <4>1. TypeInv' /\ rows[t] \in Seq(RowStatuses)
        BY UpdateStatusTypeInv DEF TypeInv, PipelineReconcilerTypeOK
      <4>2. rows'[t] \in Seq(RowStatuses)
        BY <4>1 DEF TypeInv, PipelineReconcilerTypeOK
      <4> QED BY <3>1, <4>1, <4>2, LenProperties
    <3> QED BY <2>1, <3>1, <3>2
  <2> QED BY <1>1, <2>2
<1> QED BY <1>2, <1>3

LEMMA ListenTree ==
  ASSUME TreeInv, Listen \/ UpdateStatusAfterReconcile
  PROVE  TreeInv'
<1> USE DEF TreeInv
<1>1. TypeInv'
  BY ListenTypeInv, UpdateStatusTypeInv
<1>2. PICK place \in {"read", "done", "listen"} : at' = [at EXCEPT ![Root] = place]
  BY UpdateStatusEffect DEF Listen
<1>3. /\ at[Root] # "schedule" /\ UNCHANGED <<parent, tasks, todo, row>>
      /\ Root \in Calls /\ Root \notin Goroutines
  BY UpdateStatusEffect, RootIsNoGoroutine DEF Listen, goVars, callVars
<1>4. \A g \in Goroutines : at'[g] = at[g] /\ at[g] # "run"
  BY <1>2, <1>3, RootIsLast, GoroutineType DEF Active, TypeInv, PipelineReconcilerTypeOK
<1>5. \A t \in Disabled : rows'[t] = <<>>
  <2>1. CASE Listen
    BY <2>1 DEF Listen, DisabledIdle
  <2>2. CASE UpdateStatusAfterReconcile
    <3> SUFFICES ASSUME NEW t \in Disabled PROVE rows'[t] = <<>>
      OBVIOUS
    <3>1. t \in Tasks /\ rows[t] = <<>> /\ rows'[t] \in Seq(RowStatuses)
      BY <1>1, PipelineReconcilerAssumption DEF DisabledIdle, TypeInv, PipelineReconcilerTypeOK
    <3>2. Len(rows'[t]) = 0
      BY <2>2, <3>1, UpdateStatusEffect, EmptySeq
    <3> QED BY <3>1, <3>2, EmptySeq
  <2> QED BY <2>1, <2>2
<1> QED BY <1>1, <1>2, <1>3, <1>4, <1>5, TreeStep DEF Places

LEMMA GoTree ==
  ASSUME TreeInv, NEW g \in Goroutines,
         SaveTask(g) \/ Execute(g) \/ ReconcileTask(g) \/ Delete(g)
  PROVE  TreeInv'
<1> USE DEF TreeInv
<1>1. TypeInv'
  BY SaveTaskTypeInv, ExecuteTypeInv, DeleteTypeInv
<1>2. PICK place \in {"execute", "stuck", "run", "delete", "read"} :
        at' = [at EXCEPT ![g] = place]
  BY DEF SaveTask, OnSaveError, Execute, ReconcileTask, Delete
<1>3. /\ at[g] \in Working /\ Active(g) /\ g[1] \in Tasks /\ g \in Calls
      /\ UNCHANGED <<parent, tasks, todo>>
  BY GoroutineType DEF SaveTask, Execute, ReconcileTask, Delete, Active, Working, goVars, callVars
<1>4. place = "execute" => at[g] = "save"
  <2>1. at'[g] = place
    BY <1>2, <1>3 DEF TypeInv, PipelineReconcilerTypeOK
  <2>2. CASE SaveTask(g)
    BY <2>2 DEF SaveTask
  <2>3. CASE Execute(g) \/ ReconcileTask(g) \/ Delete(g)
    <3>1. \E q \in {"run", "delete", "read"} : at' = [at EXCEPT ![g] = q]
      BY <2>3 DEF Execute, ReconcileTask, Delete
    <3>2. at'[g] # "execute"
      BY <1>3, <3>1 DEF TypeInv, PipelineReconcilerTypeOK
    <3> QED BY <2>1, <3>2
  <2> QED BY <2>2, <2>3
<1>5. \A t \in Tasks : t # g[1] => rows'[t] = rows[t]
  <2>1. UNCHANGED rows \/ (at[g] \in {"execute", "run"} /\ \E s : SetRow(g, s)) \/ SaveTask(g)
    BY DEF Execute, ReconcileTask, Delete, dbVars
  <2> QED BY <2>1, SaveTaskEffect, SetRowEffect
<1>6. \A h \in Goroutines : h # g => row'[h] = row[h] /\ at'[h] = at[h] /\ h[1] \in Tasks
  BY <1>2, GoroutineType, SaveTaskEffect
     DEF Execute, ReconcileTask, Delete, goVars, TypeInv, PipelineReconcilerTypeOK
<1>7. \A t \in Disabled : rows'[t] = <<>>
  BY <1>3, <1>5, PipelineReconcilerAssumption DEF DisabledIdle
<1>8. ASSUME NEW h \in Goroutines, at'[h] = "run" PROVE rows'[h[1]][row'[h]] = "Running"
  <2>1. CASE h = g
    <3>1. SetRow(g, "Running") /\ row'[g] = row[g] /\ at[g] = "execute"
      <4>1. at'[g] = place /\ place = "run"
        BY <1>2, <1>3, <1>8, <2>1 DEF TypeInv, PipelineReconcilerTypeOK
      <4>2. ~SaveTask(g) /\ ~ReconcileTask(g) /\ ~Delete(g)
        BY <1>3, <4>1
           DEF SaveTask, OnSaveError, ReconcileTask, Delete, TypeInv, PipelineReconcilerTypeOK
      <4>3. Execute(g)
        BY <4>2
      <4>4. ~(at' = [at EXCEPT ![g] = "delete"])
        BY <1>3, <4>1 DEF TypeInv, PipelineReconcilerTypeOK
      <4> QED BY <4>3, <4>4 DEF Execute, goVars
    <3> QED BY <2>1, <3>1, SetRowEffect
  <2>2. CASE h # g
    <3>1. at[h] = "run" /\ h[1] # g[1]
      BY <1>3, <1>6, <1>8, <2>2 DEF TypeInv, OneGoroutinePerTask, Working
    <3> QED BY <1>5, <1>6, <2>2, <3>1 DEF RunIsRunning
  <2> QED BY <2>1, <2>2
<1>9. place \in Places \ {"save", "schedule"} /\ at[g] # "schedule"
  BY <1>3 DEF Places, Working
<1> QED BY <1>1, <1>2, <1>3, <1>4, <1>7, <1>8, <1>9, TreeStep

LEMMA NextTree == TreeInv /\ [Next]_vars => TreeInv'
<1> SUFFICES ASSUME TreeInv, [Next]_vars PROVE TreeInv'
  OBVIOUS
<1>1. ASSUME NEW c \in Calls, Call(c) PROVE TreeInv'
  BY <1>1, ReadTasksTree, LoadOrStoreTree, ReturnTree DEF Call
<1>2. ASSUME NEW g \in Goroutines, Go(g) PROVE TreeInv'
  BY <1>1, <1>2, GoroutineType, GoTree DEF Go
<1>3. CASE ListenStep
  BY <1>1, <1>3, RootIsNoGoroutine, ListenTree DEF ListenStep
<1>4. CASE UNCHANGED vars
  <2>1. TypeInv'
    BY <1>4, NextTypeInv DEF TreeInv
  <2>2. UNCHANGED <<rows, at, parent, tasks, todo, row>>
    BY <1>4 DEF vars, dbVars, goVars, callVars
  <2>3. (ParentWaits /\ Ranked /\ FromPicture)'
    BY <2>2 DEF TreeInv, ParentWaits, Ranked, RanksParents, FromPicture, Active, DoneTasks
  <2>4. (DisabledIdle /\ RunIsRunning)'
    BY <2>2 DEF TreeInv, DisabledIdle, RunIsRunning, Active
  <2> QED BY <2>1, <2>3, <2>4 DEF TreeInv
<1> QED BY <1>2, <1>3, <1>4 DEF Next

-----------------------------------------------------------------------------
(* What a step may do to the pictures, the goroutines and the rows.        *)

LEMMA NextCases ==
  ASSUME [Next]_vars
  PROVE  \/ Listen \/ UpdateStatusAfterReconcile
         \/ \E c \in Calls : ReadTasks(c) \/ Return(c) \/ \E t \in Tasks : LoadOrStore(c, t)
         \/ \E g \in Goroutines : SaveTask(g) \/ Execute(g) \/ ReconcileTask(g) \/ Delete(g)
         \/ UNCHANGED vars
BY GoroutineType, RootIsNoGoroutine DEF Next, ListenStep, Go, Call

LEMMA PictureStep ==
  ASSUME TreeInv, [Next]_vars
  PROVE  /\ \A c \in Calls : at'[c] = "schedule" =>
              \/ at[c] = "schedule" /\ tasks'[c] = tasks[c]
              \/ at[c] = "read" /\ tasks'[c] = Merged /\ rows' = rows
         /\ \A h \in Goroutines : Active(h) /\ Active(h)' =>
              /\ parent'[h] = parent[h] /\ tasks'[parent'[h]] = tasks[parent[h]]
<1> DEFINE P == \A c \in Calls : at'[c] = "schedule" =>
                  \/ at[c] = "schedule" /\ tasks'[c] = tasks[c]
                  \/ at[c] = "read" /\ tasks'[c] = Merged /\ rows' = rows
           Q == \A h \in Goroutines : Active(h) /\ Active(h)' =>
                  /\ parent'[h] = parent[h] /\ tasks'[parent'[h]] = tasks[parent[h]]
<1> SUFFICES P /\ Q
  OBVIOUS
<1>1. /\ at \in [Calls -> Places] /\ tasks \in [Calls -> [Tasks -> Picture]]
      /\ parent \in [Goroutines -> Calls]
  BY DEF TreeInv, TypeInv, PipelineReconcilerTypeOK, Places
<1>2. ASSUME NEW c \in Calls, NEW place \in Places \ {"schedule"},
             at' = [at EXCEPT ![c] = place], UNCHANGED <<tasks, parent>>
      PROVE  P /\ Q
  BY <1>1, <1>2
<1>3. CASE Listen \/ UpdateStatusAfterReconcile
  <2>1. /\ \E place \in {"read", "done", "listen"} : at' = [at EXCEPT ![Root] = place]
        /\ UNCHANGED <<tasks, parent>>
    BY <1>3 DEF Listen, UpdateStatusAfterReconcile, goVars, callVars
  <2> QED BY <1>2, <2>1, RootIsNoGoroutine DEF Places
<1>4. ASSUME NEW c \in Calls, ReadTasks(c) PROVE P /\ Q
  <2>1. CASE at' = [at EXCEPT ![c] = Leave(c)] /\ UNCHANGED <<tasks, parent>>
    <3>1. Leave(c) \in Places \ {"schedule"}
      BY DEF Leave, Places
    <3> QED BY <1>2, <2>1, <3>1
  <2>2. CASE /\ at' = [at EXCEPT ![c] = "schedule"] /\ tasks' = [tasks EXCEPT ![c] = Merged]
             /\ parent' = parent /\ rows' = rows
    <3>1. at[c] = "read"
      BY <1>4 DEF ReadTasks
    <3>2. P
      BY <1>1, <2>2, <3>1
    <3>3. Q
      <4> SUFFICES ASSUME NEW h \in Goroutines, Active(h)
                   PROVE  parent'[h] = parent[h] /\ tasks'[parent'[h]] = tasks[parent[h]]
        OBVIOUS
      <4>1. at[parent[h]] = "schedule" /\ parent[h] \in Calls
        BY <1>1 DEF TreeInv, ParentWaits
      <4> QED BY <1>1, <2>2, <3>1, <4>1
    <3> QED BY <3>2, <3>3
  <2> QED BY <1>4, <2>1, <2>2 DEF ReadTasks, callVars, goVars, dbVars
<1>5. ASSUME NEW c \in Calls, Return(c) PROVE P /\ Q
  <2>1. /\ at' = [at EXCEPT ![c] = Leave(c)] /\ Leave(c) # "schedule"
        /\ \A x \in Calls : x # c => tasks'[x] = tasks[x]
        /\ \A h \in Goroutines : Active(h) => parent[h] # c /\ parent'[h] = parent[h]
    BY <1>1, <1>5 DEF Return, Leave, Active
  <2>2. P
    BY <1>1, <2>1
  <2>3. Q
    BY <1>1, <2>1
  <2> QED BY <2>2, <2>3
<1>6. ASSUME NEW c \in Calls, NEW t \in Tasks, LoadOrStore(c, t) PROVE P /\ Q
  <2>1. tasks' = tasks
    BY <1>6 DEF LoadOrStore
  <2>2. CASE UNCHANGED <<at, parent>>
    BY <2>1, <2>2
  <2>3. CASE ~AlreadyProcessing(t)
    <3>1. PICK g \in Goroutines :
             /\ g[1] = t /\ at[g] = "none" /\ g # c
             /\ \A x \in Calls : at'[x] = IF x = g THEN "save" ELSE at[x]
             /\ \A h \in Goroutines : parent'[h] = IF h = g THEN c ELSE parent[h]
      BY <1>6, <2>3, Starts DEF TreeInv
    <3> QED BY <2>1, <3>1 DEF Active
  <2> QED BY <1>6, <2>2, <2>3 DEF LoadOrStore, goVars
<1>7. ASSUME NEW g \in Goroutines, SaveTask(g) \/ Execute(g) \/ ReconcileTask(g) \/ Delete(g)
      PROVE  P /\ Q
  <2>1. /\ \E place \in {"execute", "stuck", "run", "delete", "read"} :
             at' = [at EXCEPT ![g] = place]
        /\ UNCHANGED <<tasks, parent>>
    BY <1>7 DEF SaveTask, OnSaveError, Execute, ReconcileTask, Delete, callVars, goVars
  <2> QED BY <1>2, <2>1, GoroutineType DEF Places
<1>8. CASE UNCHANGED vars
  BY <1>8 DEF vars, goVars, callVars
<1> QED BY <1>3, <1>4, <1>5, <1>6, <1>7, <1>8, NextCases

(* A goroutine gets where it is by a step of its own.                      *)
LEMMA WhoMoves ==
  ASSUME TreeInv, [Next]_vars, NEW h \in Goroutines
  PROVE  /\ at'[h] = "save" /\ at[h] # "save" =>
              \E c \in Calls, t \in Tasks :
                LoadOrStore(c, t) /\ ~AlreadyProcessing(t) /\ h[1] = t /\ parent'[h] = c
         /\ at'[h] = "execute" /\ at[h] # "execute" => SaveTask(h)
         /\ at'[h] = "run" /\ at[h] # "run" =>
              Execute(h) /\ ~Skipped(h) /\ ~IsEnd(TaskStatus(h)) /\ SetRow(h, "Running")
<1>1. at \in [Calls -> Places] /\ h \in Calls
  BY GoroutineType DEF TreeInv, TypeInv, PipelineReconcilerTypeOK, Places
<1>2. CASE \/ at'[h] = at[h]
           \/ at'[h] \notin {"save", "execute", "run"}
  BY <1>2
<1>3. CASE Listen \/ UpdateStatusAfterReconcile \/ UNCHANGED vars
  <2>1. at'[h] = at[h]
    BY <1>1, <1>3, RootIsNoGoroutine DEF Listen, UpdateStatusAfterReconcile, vars
  <2> QED BY <1>2, <2>1
<1>4. CASE \E c \in Calls : ReadTasks(c) \/ Return(c)
  <2>1. \E c \in Calls, place \in {"schedule", "after", "done"} : at' = [at EXCEPT ![c] = place]
    BY <1>4 DEF ReadTasks, Return, Leave
  <2>2. at'[h] = at[h] \/ at'[h] \in {"schedule", "after", "done"}
    BY <1>1, <2>1
  <2> QED BY <1>2, <2>2
<1>5. ASSUME NEW c \in Calls, NEW t \in Tasks, LoadOrStore(c, t)
      PROVE  \/ at'[h] = at[h]
             \/ at'[h] = "save" /\ ~AlreadyProcessing(t) /\ h[1] = t /\ parent'[h] = c
  <2>1. CASE UNCHANGED at
    BY <2>1
  <2>2. CASE ~AlreadyProcessing(t)
    <3>1. PICK g \in Goroutines :
             /\ g[1] = t /\ at[g] = "none" /\ g # c
             /\ \A x \in Calls : at'[x] = IF x = g THEN "save" ELSE at[x]
             /\ \A k \in Goroutines : parent'[k] = IF k = g THEN c ELSE parent[k]
      BY <1>5, <2>2, Starts DEF TreeInv
    <3> QED BY <1>1, <2>2, <3>1
  <2> QED BY <1>5, <2>1, <2>2 DEF LoadOrStore
<1>6. ASSUME NEW g \in Goroutines, SaveTask(g) \/ Execute(g) \/ ReconcileTask(g) \/ Delete(g),
             g # h
      PROVE  at'[h] = at[h]
  <2>1. \E place \in {"execute", "stuck", "run", "delete", "read"} : at' = [at EXCEPT ![g] = place]
    BY <1>6 DEF SaveTask, OnSaveError, Execute, ReconcileTask, Delete
  <2> QED BY <1>1, <1>6, <2>1
<1>7. CASE SaveTask(h)
  <2>1. at'[h] \in {"execute", "stuck"}
    BY <1>1, <1>7 DEF SaveTask, OnSaveError
  <2> QED BY <1>7, <2>1
<1>8. CASE Execute(h)
  <2>1. \/ at' = [at EXCEPT ![h] = "delete"]
        \/ /\ at' = [at EXCEPT ![h] = "run"]
           /\ ~Skipped(h) /\ ~IsEnd(TaskStatus(h)) /\ SetRow(h, "Running")
    BY <1>8 DEF Execute
  <2>2. \/ at'[h] = "delete"
        \/ at'[h] = "run" /\ ~Skipped(h) /\ ~IsEnd(TaskStatus(h)) /\ SetRow(h, "Running")
    BY <1>1, <2>1
  <2> QED BY <1>8, <2>2
<1>9. CASE ReconcileTask(h) \/ Delete(h)
  <2>1. at'[h] \in {"delete", "read"}
    BY <1>1, <1>9 DEF ReconcileTask, Delete
  <2> QED BY <2>1
<1> QED BY <1>2, <1>3, <1>4, <1>5, <1>6, <1>7, <1>8, <1>9, NextCases

(* While a goroutine has its task, nobody else writes the rows of the task.*)
LEMMA WhoWrites ==
  ASSUME TreeInv, [Next]_vars, NEW h \in Goroutines, at[h] \in Working, rows'[h[1]] # rows[h[1]]
  PROVE  SaveTask(h) \/ Execute(h) \/ ReconcileTask(h)
<1>1. h[1] \in Tasks /\ Active(h) /\ rows' # rows
  BY GoroutineType DEF Active, Working
<1>2. at[Root] = "schedule"
  BY <1>1, RootIsLast DEF TreeInv
<1>3. ASSUME NEW g \in Goroutines, SaveTask(g) \/ Execute(g) \/ ReconcileTask(g)
      PROVE  g = h
  <2>1. at[g] \in Working
    BY <1>3 DEF SaveTask, Execute, ReconcileTask, Working
  <2>2. \A t \in Tasks : t # g[1] => rows'[t] = rows[t]
    <3>1. (at[g] \in {"execute", "run"} /\ \E s : SetRow(g, s)) \/ SaveTask(g)
      BY <1>1, <1>3 DEF Execute, ReconcileTask
    <3> QED BY <3>1, SaveTaskEffect, SetRowEffect DEF TreeInv
  <2>3. g[1] = h[1]
    BY <1>1, <2>2
  <2> QED BY <2>1, <2>3 DEF TreeInv, TypeInv, OneGoroutinePerTask, Working
<1>4. ~Listen /\ ~UpdateStatusAfterReconcile /\ ~UNCHANGED vars
  BY <1>1, <1>2 DEF Listen, UpdateStatusAfterReconcile, vars, dbVars
<1>5. \A c \in Calls : /\ ~ReadTasks(c) /\ ~Return(c)
                       /\ \A t \in Tasks : ~LoadOrStore(c, t)
  BY <1>1 DEF ReadTasks, Return, LoadOrStore, dbVars
<1>6. \A g \in Goroutines : ~Delete(g)
  BY <1>1 DEF Delete, dbVars
<1> QED BY <1>3, <1>4, <1>5, <1>6, NextCases

-----------------------------------------------------------------------------
(* As long as no task was taken up from an old picture: a task has at most *)
(* one row, what a picture shows as done stays done, and the goroutine of  *)
(* a task works from the row as it is.                                     *)

OneRow == \A t \in Tasks : Len(rows[t]) <= 1

PictureIsPast ==
  \A c \in Calls : at[c] = "schedule" => \A t \in DoneTasks(tasks[c]) : Over(t)

FreshPicture ==
  \A g \in Goroutines :
    /\ at[g] = "save" => Read(g) = Merged[g[1]]
    /\ at[g] = "execute" /\ Read(g).row # 0 => Read(g).status = rows[g[1]][1]

InOrder == overtaken = 0 => OneRow /\ PictureIsPast /\ FreshPicture

(* How the row of a task goes on.                                          *)
RowStep(t) ==
  \/ rows'[t] = rows[t]
  \/ /\ rows[t] = <<>> /\ t \notin Disabled
     /\ Len(rows'[t]) = 1 /\ rows'[t][1] \in {"Success", "Analyzed"}
  \/ /\ Len(rows[t]) = 1 /\ Len(rows'[t]) = 1
     /\ IsEnd(rows[t][1]) => IsEnd(rows'[t][1])
     /\ rows'[t][1] = "Failed" => rows[t][1] \in {"Failed", "Running"}

LEMMA MergedDone ==
  ASSUME TreeInv, NEW t \in Tasks
  PROVE  t \in DoneTasks(Merged) <=> Over(t)
<1>1. CASE rows[t] # <<>>
  <2>1. rows[t][Len(rows[t])] \in RowStatuses /\ "Disabled" \notin RowStatuses
    BY <1>1, ElementOfSeq, EmptySeq
       DEF TreeInv, TypeInv, PipelineReconcilerTypeOK, RowStatuses, Ends
  <2>2. t \notin Disabled
    BY <1>1 DEF TreeInv, DisabledIdle
  <2> QED BY <1>1, <2>1, <2>2 DEF DoneTasks, Merged, Over, IsEnd
<1>2. CASE rows[t] = <<>>
  BY <1>2 DEF DoneTasks, Merged, Over, Unsaved, Ends
<1> QED BY <1>1, <1>2

LEMMA AtMostOne ==
  ASSUME NEW n \in Nat, n <= 1
  PROVE  (n = 0 \/ n = 1) /\ \A r \in 1 .. n : r = 1 /\ n = 1
OBVIOUS

LEMMA TaskStatusNow ==
  ASSUME TreeInv, OneRow, FreshPicture, NEW g \in Goroutines, at[g] \in {"execute", "run"}
  PROVE  /\ row[g] = 1 /\ Len(rows[g[1]]) = 1 /\ g[1] \in Tasks
         /\ at[g] = "execute" => TaskStatus(g) = rows[g[1]][1]
<1>1. g[1] \in Tasks /\ rows[g[1]] \in Seq(RowStatuses) /\ row[g] \in DOMAIN rows[g[1]]
  BY GoroutineType DEF TreeInv, TypeInv, PipelineReconcilerTypeOK
<1>2. row[g] \in 1 .. Len(rows[g[1]]) /\ Len(rows[g[1]]) \in Nat
  BY <1>1, LenProperties
<1>3. Len(rows[g[1]]) <= 1
  BY <1>1 DEF OneRow
<1>4. row[g] = 1 /\ Len(rows[g[1]]) = 1
  BY <1>2, <1>3, AtMostOne, Zenon
<1> QED BY <1>1, <1>4 DEF FreshPicture, TaskStatus

LEMMA RowSteps ==
  ASSUME TreeInv, OneRow, FreshPicture, [Next]_vars
  PROVE  \A t \in Tasks : RowStep(t)
<1> SUFFICES ASSUME NEW t \in Tasks PROVE RowStep(t)
  OBVIOUS
<1>1. CASE UNCHANGED rows
  BY <1>1 DEF RowStep
<1>2. CASE UpdateStatusAfterReconcile
  <2>1. /\ rows[t] \in Seq(RowStatuses) /\ Len(rows[t]) \in {0, 1} /\ Len(rows'[t]) = Len(rows[t])
        /\ DOMAIN rows[t] = 1 .. Len(rows[t])
    <3>1. rows[t] \in Seq(RowStatuses) /\ Len(rows[t]) <= 1 /\ Len(rows'[t]) = Len(rows[t])
      BY <1>2, UpdateStatusEffect DEF TreeInv, TypeInv, PipelineReconcilerTypeOK, OneRow
    <3>2. Len(rows[t]) \in Nat /\ DOMAIN rows[t] = 1 .. Len(rows[t])
      BY <3>1, LenProperties
    <3>3. Len(rows[t]) = 0 \/ Len(rows[t]) = 1
      BY <3>1, <3>2, AtMostOne, Zenon
    <3> QED BY <3>1, <3>2, <3>3
  <2>2. rows'[t] \in Seq(RowStatuses)
    BY <1>2, UpdateStatusTypeInv DEF TreeInv, TypeInv, PipelineReconcilerTypeOK
  <2>3. CASE Len(rows[t]) = 0
    <3>1. rows[t] = <<>> /\ rows'[t] = <<>>
      BY <2>1, <2>2, <2>3, EmptySeq
    <3> QED BY <3>1 DEF RowStep
  <2>4. CASE Len(rows[t]) = 1
    <3>1. rows'[t][1] = rows[t][1] \/ (rows[t][1] = "Analyzed" /\ rows'[t][1] = "NoNeedBySystem")
      BY <1>2, <2>1, <2>4, UpdateStatusEffect DEF TreeInv
    <3> QED BY <2>1, <2>4, <3>1 DEF RowStep, IsEnd, Ends
  <2> QED BY <2>1, <2>3, <2>4
<1>3. ASSUME NEW g \in Goroutines, SaveTask(g) PROVE RowStep(t)
  <2>1. CASE t # g[1] \/ UNCHANGED rows
    BY <1>3, <2>1, SaveTaskEffect DEF TreeInv, RowStep
  <2>2. CASE /\ t = g[1] /\ Read(g).row = 0
             /\ rows'[t] = Append(rows[t], IF t \in Rerun THEN "Success" ELSE "Analyzed")
    <3>1. at[g] = "save" /\ Active(g)
      BY <1>3 DEF SaveTask, Active
    <3>2. rows[t] = <<>>
      <4>1. Merged[t].row = 0
        BY <2>2, <3>1 DEF FreshPicture
      <4>2. rows[t] \in Seq(RowStatuses)
        BY DEF TreeInv, TypeInv, PipelineReconcilerTypeOK
      <4> QED BY <4>1, <4>2, EmptySeq DEF Merged
    <3>3. t \notin Disabled
      BY <2>2, <3>1 DEF TreeInv, DisabledIdle
    <3>4. \A x : Len(Append(<<>>, x)) = 1 /\ Append(<<>>, x)[1] = x
      OBVIOUS
    <3> QED BY <2>2, <3>2, <3>3, <3>4 DEF RowStep
  <2> QED BY <1>3, <2>1, <2>2, SaveTaskEffect DEF TreeInv
<1>4. ASSUME NEW g \in Goroutines, Execute(g) \/ ReconcileTask(g) PROVE RowStep(t)
  <2>1. at[g] \in {"execute", "run"}
    BY <1>4 DEF Execute, ReconcileTask
  <2>2. ASSUME NEW s, SetRow(g, s), t = g[1],
               IsEnd(rows[t][1]) => IsEnd(s), s = "Failed" => rows[t][1] \in {"Failed", "Running"}
        PROVE  RowStep(t)
    <3>1. row[g] = 1 /\ Len(rows[t]) = 1
      BY <2>1, <2>2, TaskStatusNow
    <3>2. rows'[t][1] = s /\ Len(rows'[t]) = 1
      BY <2>1, <2>2, <3>1, SetRowEffect DEF TreeInv
    <3> QED BY <2>2, <3>1, <3>2 DEF RowStep
  <2>3. CASE t # g[1]
    <3>1. UNCHANGED rows \/ \E s : SetRow(g, s)
      BY <1>4 DEF Execute, ReconcileTask
    <3> QED BY <1>1, <2>1, <2>3, <3>1, SetRowEffect DEF TreeInv, RowStep
  <2>4. CASE t = g[1] /\ Execute(g)
    <3>1. at[g] = "execute" /\ TaskStatus(g) = rows[t][1]
      BY <2>1, <2>4, TaskStatusNow DEF Execute
    <3>2. \/ UNCHANGED rows \/ SetRow(g, "NoNeedBySystem")
          \/ IsEnd(rows[t][1]) /\ SetRow(g, rows[t][1])
          \/ ~IsEnd(rows[t][1]) /\ SetRow(g, "Running")
      BY <2>4, <3>1 DEF Execute
    <3> QED BY <1>1, <2>2, <2>4, <3>2 DEF IsEnd, Ends
  <2>5. CASE t = g[1] /\ ReconcileTask(g)
    <3>1. at[g] = "run"
      BY <2>5 DEF ReconcileTask
    <3>2. rows[t][1] = "Running"
      BY <2>1, <2>5, <3>1, TaskStatusNow DEF TreeInv, RunIsRunning
    <3>3. UNCHANGED rows \/ SetRow(g, "Success") \/ SetRow(g, "Failed")
      BY <2>5 DEF ReconcileTask
    <3> QED BY <1>1, <2>2, <2>5, <3>2, <3>3 DEF IsEnd, Ends
  <2> QED BY <1>4, <2>3, <2>4, <2>5
<1>5. ASSUME NEW c \in Calls, ReadTasks(c) \/ Return(c) \/ \E u \in Tasks : LoadOrStore(c, u)
      PROVE  UNCHANGED rows
  BY <1>5 DEF ReadTasks, Return, LoadOrStore, dbVars
<1>6. ASSUME Listen \/ UNCHANGED vars \/ \E g \in Goroutines : Delete(g)
      PROVE  UNCHANGED rows
  BY <1>6 DEF Listen, Delete, dbVars, vars
<1> QED BY <1>1, <1>2, <1>3, <1>4, <1>5, <1>6, NextCases

LEMMA OverStays ==
  ASSUME TypeInv, OneRow, NEW t \in Tasks, RowStep(t), Over(t)
  PROVE  Over(t)'
<1>1. CASE rows'[t] = rows[t] \/ t \in Disabled
  BY <1>1 DEF Over
<1>2. CASE t \notin Disabled /\ rows'[t] # rows[t]
  <2>1. rows[t] # <<>> /\ IsEnd(rows[t][Len(rows[t])])
    BY <1>2 DEF Over
  <2>2. Len(rows[t]) = 1 /\ Len(rows'[t]) = 1 /\ IsEnd(rows'[t][1])
    BY <1>2, <2>1 DEF RowStep
  <2>3. rows'[t] # <<>>
    BY <2>2
  <2> QED BY <2>2, <2>3 DEF Over
<1> QED BY <1>1, <1>2

LEMMA OneRowStays ==
  ASSUME OneRow, \A t \in Tasks : RowStep(t)
  PROVE  OneRow'
<1> SUFFICES ASSUME NEW t \in Tasks PROVE Len(rows'[t]) <= 1
  BY DEF OneRow
<1>1. rows'[t] = rows[t] \/ Len(rows'[t]) = 1
  BY DEF RowStep
<1>2. CASE rows'[t] = rows[t]
  BY <1>2 DEF OneRow
<1>3. CASE Len(rows'[t]) = 1
  BY <1>3
<1> QED BY <1>1, <1>2, <1>3

(* The count of tasks taken up from an old picture only grows.             *)
LEMMA NotOvertaken ==
  ASSUME TypeInv, [Next]_vars, overtaken' = 0
  PROVE  /\ overtaken = 0
         /\ \A c \in Calls, t \in Tasks :
              LoadOrStore(c, t) /\ ~AlreadyProcessing(t) => tasks[c][t] = Merged[t]
<1>1. overtaken \in Nat
  BY PipelineReconcilerAssumption DEF TypeInv, PipelineReconcilerTypeOK
<1>2. ASSUME NEW c \in Calls, NEW t \in Tasks, LoadOrStore(c, t)
      PROVE  overtaken = 0 /\ (~AlreadyProcessing(t) => tasks[c][t] = Merged[t])
  BY <1>1, <1>2 DEF LoadOrStore
<1>3. CASE overtaken' = overtaken
  BY <1>2, <1>3
<1>4. ASSUME NEW c \in Calls, ReadTasks(c) \/ Return(c) PROVE overtaken' = overtaken
  BY <1>4 DEF ReadTasks, Return
<1>5. ASSUME NEW g \in Goroutines, SaveTask(g) \/ Execute(g) \/ ReconcileTask(g) \/ Delete(g)
      PROVE  overtaken' = overtaken
  BY <1>5 DEF SaveTask, Execute, ReconcileTask, Delete
<1>6. ASSUME Listen \/ UpdateStatusAfterReconcile \/ UNCHANGED vars PROVE overtaken' = overtaken
  BY <1>6 DEF Listen, UpdateStatusAfterReconcile, vars
<1> QED BY <1>2, <1>3, <1>4, <1>5, <1>6, NextCases

LEMMA NextInOrder == TreeInv /\ InOrder /\ [Next]_vars => InOrder'
<1> SUFFICES ASSUME TreeInv, InOrder, [Next]_vars, overtaken' = 0
             PROVE  (OneRow /\ PictureIsPast /\ FreshPicture)'
  BY DEF InOrder
<1>1. overtaken = 0 /\ OneRow /\ PictureIsPast /\ FreshPicture /\ TypeInv
  BY NotOvertaken DEF InOrder, TreeInv
<1>2. \A t \in Tasks : RowStep(t)
  BY <1>1, RowSteps
<1>3. OneRow'
  BY <1>1, <1>2, OneRowStays
<1>4. PictureIsPast'
  <2> SUFFICES ASSUME NEW c \in Calls, at'[c] = "schedule", NEW t \in DoneTasks(tasks'[c])
               PROVE  Over(t)'
    BY DEF PictureIsPast, DoneTasks
  <2>1. t \in Tasks
    BY DEF DoneTasks
  <2>2. CASE at[c] = "schedule" /\ tasks'[c] = tasks[c]
    <3>1. Over(t)
      BY <1>1, <2>2 DEF PictureIsPast
    <3> QED BY <1>1, <1>2, <2>1, <3>1, OverStays
  <2>3. CASE tasks'[c] = Merged /\ rows' = rows
    <3>1. Over(t)
      BY <2>1, <2>3, MergedDone
    <3> QED BY <2>3, <3>1 DEF Over
  <2> QED BY <2>2, <2>3, PictureStep
<1>5. FreshPicture'
  <2> SUFFICES ASSUME NEW h \in Goroutines
               PROVE  /\ at'[h] = "save" => Read(h)' = Merged'[h[1]]
                      /\ at'[h] = "execute" /\ Read(h)'.row # 0 =>
                           Read(h)'.status = rows'[h[1]][1]
    BY DEF FreshPicture
  <2>1. h[1] \in Tasks /\ at \in [Calls -> Places] /\ h \in Calls
    BY <1>1, GoroutineType DEF TypeInv, PipelineReconcilerTypeOK, Places
  <2>2. Active(h) /\ Active(h)' => Read(h)' = Read(h)
    BY PictureStep DEF Read
  <2>3. rows'[h[1]] = rows[h[1]] => Merged'[h[1]] = Merged[h[1]]
    BY <2>1 DEF Merged
  <2>4. CASE at'[h] = "save" /\ at[h] = "save"
    <3>1. Active(h) /\ Active(h)' /\ at[h] \in Working
      BY <2>4 DEF Active, Working
    <3>2. ~SaveTask(h) /\ ~Execute(h) /\ ~ReconcileTask(h)
      BY <2>1, <2>4 DEF SaveTask, OnSaveError, Execute, ReconcileTask
    <3>3. rows'[h[1]] = rows[h[1]]
      BY <3>1, <3>2, WhoWrites
    <3>4. Read(h) = Merged[h[1]]
      BY <1>1, <2>4 DEF FreshPicture
    <3> QED BY <2>2, <2>3, <2>4, <3>1, <3>3, <3>4
  <2>5. CASE at'[h] = "save" /\ at[h] # "save"
    <3>1. PICK c \in Calls, t \in Tasks :
            LoadOrStore(c, t) /\ ~AlreadyProcessing(t) /\ h[1] = t /\ parent'[h] = c
      BY <2>5, WhoMoves
    <3>2. tasks[c][t] = Merged[t] /\ tasks' = tasks /\ rows' = rows
      BY <1>1, <3>1, NotOvertaken DEF LoadOrStore, dbVars
    <3>3. Read(h)' = tasks[c][t]
      BY <3>1, <3>2 DEF Read
    <3> QED BY <2>3, <2>5, <3>1, <3>2, <3>3
  <2>6. CASE at'[h] = "execute" /\ at[h] = "execute"
    <3>1. Active(h) /\ Active(h)' /\ at[h] \in Working
      BY <2>6 DEF Active, Working
    <3>2. ~SaveTask(h) /\ ~Execute(h) /\ ~ReconcileTask(h)
      BY <2>1, <2>6 DEF SaveTask, Execute, ReconcileTask
    <3>3. rows'[h[1]] = rows[h[1]]
      BY <3>1, <3>2, WhoWrites
    <3> QED BY <1>1, <2>2, <2>6, <3>1, <3>3 DEF FreshPicture
  <2>7. CASE at'[h] = "execute" /\ at[h] # "execute"
    <3>1. SaveTask(h) /\ at[h] = "save" /\ Active(h) /\ Active(h)'
      BY <2>7, WhoMoves DEF SaveTask, Active
    <3>2. Read(h)' = Read(h) /\ Read(h) = Merged[h[1]]
      BY <1>1, <2>2, <3>1 DEF FreshPicture
    <3>3. ASSUME Read(h).row # 0 PROVE Read(h).status = rows'[h[1]][1]
      <4>1. ~(at' = [at EXCEPT ![h] = "stuck"])
        BY <2>1, <2>7
      <4>2. rows' = rows
        BY <1>1, <3>1, <3>3, <4>1, SaveTaskEffect
      <4>3. rows[h[1]] \in Seq(RowStatuses) /\ rows[h[1]] # <<>>
        BY <1>1, <2>1, <3>2, <3>3
           DEF TypeInv, PipelineReconcilerTypeOK, Merged, Unsaved
      <4>4. Len(rows[h[1]]) = 1
        <5>1. Len(rows[h[1]]) \in Nat /\ Len(rows[h[1]]) <= 1 /\ Len(rows[h[1]]) # 0
          BY <1>1, <2>1, <4>3, LenProperties, EmptySeq DEF OneRow
        <5> QED BY <5>1, AtMostOne, Zenon
      <4> QED BY <2>1, <3>2, <4>2, <4>3, <4>4 DEF Merged
    <3> QED BY <2>7, <3>2, <3>3
  <2> QED BY <2>4, <2>5, <2>6, <2>7
<1> QED BY <1>3, <1>4, <1>5

LEMMA OrderInvariant == Spec => [](TreeInv /\ InOrder)
<1>1. Init => InOrder
  <2> SUFFICES ASSUME Init PROVE OneRow /\ PictureIsPast /\ FreshPicture
    BY DEF InOrder
  <2>1. \A g \in Goroutines : at[g] = "none"
    BY RootIsNoGoroutine, GoroutineType DEF Init
  <2>2. \A c \in Calls : at[c] # "schedule"
    BY DEF Init
  <2>3. OneRow
    BY EmptySeq DEF Init, OneRow
  <2> QED BY <2>1, <2>2, <2>3 DEF PictureIsPast, FreshPicture
<1> QED BY <1>1, InitTree, NextTree, NextInOrder, PTL DEF Spec

(* No task begins before every task of the earlier stages has ended or is  *)
(* disabled, whichever call of reconcile schedules it and however old the  *)
(* picture is from which that call works: the needs that a picture shows   *)
(* as done stay done, because the goroutine that could write their rows    *)
(* again would itself have to start from an old picture.                   *)
THEOREM StagesAreOrdered == Spec => NeedsRespected
<1>1. TreeInv /\ InOrder /\ [Next]_vars =>
        [\A g \in Goroutines :
           Begins(g) => overtaken > 0 \/ \A t \in Needs[g[1]] : Over(t)]_vars
  <2> SUFFICES ASSUME TreeInv, InOrder, [Next]_vars, NEW g \in Goroutines, Begins(g),
                      ~(overtaken > 0), NEW t \in Needs[g[1]]
               PROVE  Over(t)
    OBVIOUS
  <2>1. overtaken = 0
    BY PipelineReconcilerAssumption DEF TreeInv, TypeInv, PipelineReconcilerTypeOK
  <2>2. at[g] = "execute" /\ Active(g)
    BY WhoMoves DEF Begins, Execute, Active
  <2>3. t \in DoneTasks(tasks[parent[g]])
    BY <2>2 DEF TreeInv, FromPicture
  <2>4. parent[g] \in Calls /\ at[parent[g]] = "schedule"
    BY <2>2 DEF TreeInv, ParentWaits, TypeInv, PipelineReconcilerTypeOK
  <2> QED BY <2>1, <2>3, <2>4 DEF InOrder, PictureIsPast
<1> QED BY <1>1, OrderInvariant, PTL DEF Spec, NeedsRespected

-----------------------------------------------------------------------------
(* After a failure, in a pipeline without `if`.                            *)

NeedsMet(u) == \A t \in Needs[u] : Over(t) /\ ~BadlyFailed(t)

(* A picture shows the failures of what it shows as done, and a task that  *)
(* runs, or that a picture shows to run, began before any failure of its   *)
(* needs.                                                                  *)
FailureIsSeen ==
  /\ \A c \in Calls : at[c] = "schedule" =>
       /\ \A t \in DoneTasks(tasks[c]) : BadlyFailed(t) => FailedForGood(t, tasks[c][t].status)
       /\ \A u \in Tasks : tasks[c][u].status = "Running" => NeedsMet(u)
  /\ \A u \in Tasks : rows[u] # <<>> /\ rows[u][1] = "Running" => NeedsMet(u)

LEMMA FirstRow ==
  ASSUME NEW s \in Seq(RowStatuses), Len(s) <= 1
  PROVE  /\ s # <<>> => Len(s) = 1 /\ DOMAIN s = {1}
         /\ s = <<>> => DOMAIN s = {}
<1>1. Len(s) \in Nat /\ DOMAIN s = 1 .. Len(s)
  BY LenProperties
<1>2. Len(s) = 0 \/ Len(s) = 1
  BY <1>1, AtMostOne, Zenon
<1> QED BY <1>1, <1>2, EmptySeq

LEMMA BadlyFailedRow ==
  /\ TypeInv /\ OneRow => \A t \in Tasks :
       BadlyFailed(t) <=> rows[t] # <<>> /\ FailedForGood(t, rows[t][1])
  /\ (TypeInv /\ OneRow => \A t \in Tasks :
       BadlyFailed(t) <=> rows[t] # <<>> /\ FailedForGood(t, rows[t][1]))'
<1>1. TypeInv /\ OneRow => \A t \in Tasks :
        BadlyFailed(t) <=> rows[t] # <<>> /\ FailedForGood(t, rows[t][1])
  BY FirstRow DEF TypeInv, PipelineReconcilerTypeOK, OneRow, BadlyFailed
<1> QED BY <1>1, PTL

(* What has ended does not fail afterwards.                                *)
LEMMA EndIsFinal ==
  ASSUME TreeInv, TreeInv', OneRow, OneRow', NEW t \in Tasks, RowStep(t), Over(t), BadlyFailed(t)'
  PROVE  BadlyFailed(t)
<1>1. rows'[t] # <<>> /\ FailedForGood(t, rows'[t][1])
  BY BadlyFailedRow DEF TreeInv
<1>2. CASE rows'[t] = rows[t]
  BY <1>1, <1>2, BadlyFailedRow DEF TreeInv
<1>3. CASE rows'[t] # rows[t]
  <2>1. t \notin Disabled
    BY <1>1 DEF TreeInv, DisabledIdle
  <2>2. rows[t] # <<>> /\ IsEnd(rows[t][1])
    <3>1. rows[t] # <<>> /\ IsEnd(rows[t][Len(rows[t])])
      BY <2>1 DEF Over
    <3>2. rows[t] \in Seq(RowStatuses) /\ Len(rows[t]) <= 1
      BY DEF TreeInv, TypeInv, PipelineReconcilerTypeOK, OneRow
    <3>3. Len(rows[t]) = 1
      BY <3>1, <3>2, FirstRow
    <3> QED BY <3>1, <3>3
  <2>3. rows'[t][1] = "Failed" /\ rows[t][1] # "Running"
    BY <1>1, <2>2 DEF FailedForGood, IsEnd, Ends
  <2>4. rows[t][1] = "Failed"
    BY <1>3, <2>2, <2>3 DEF RowStep
  <2> QED BY <1>1, <2>2, <2>4, BadlyFailedRow DEF FailedForGood, TreeInv
<1> QED BY <1>2, <1>3

LEMMA FailureShows ==
  ASSUME NEW read \in [Tasks -> Picture], NEW t \in Tasks, FailedForGood(t, read[t].status),
         CalcOfRead(read) # "Failed"
  PROVE  \E v \in Tasks : read[v].status = "Running"
<1> DEFINE S == {<<u, read[u].status>> : u \in Tasks}
           x == <<t, read[t].status>>
<1>1. x \in S /\ x[2] = "Failed" /\ FailedForGood(x[1], x[2]) /\ ~Succeeded(x[1], x[2])
  BY DEF FailedForGood, Succeeded
<1>2. CalculatePipelineStatusV2(S) # "Failed"
  BY DEF CalcOfRead
<1> HIDE DEF S, x
<1>3. \E y \in S : y[2] = "Running"
  BY <1>1, <1>2 DEF CalculatePipelineStatusV2
<1> QED BY <1>3 DEF S

LEMMA WhoBegins ==
  ASSUME TreeInv, OneRow, FreshPicture, [Next]_vars, NEW u \in Tasks,
         rows'[u] # <<>>, rows'[u][1] = "Running", ~(rows[u] # <<>> /\ rows[u][1] = "Running")
  PROVE  \E g \in Goroutines : g[1] = u /\ at[g] = "execute" /\ ~Skipped(g)
<1>1. rows' # rows
  OBVIOUS
<1>2. ~UpdateStatusAfterReconcile
  <2> SUFFICES ASSUME UpdateStatusAfterReconcile PROVE FALSE
    OBVIOUS
  <2>1. /\ rows[u] \in Seq(RowStatuses) /\ Len(rows[u]) <= 1
        /\ DOMAIN rows'[u] = DOMAIN rows[u] /\ Len(rows'[u]) = Len(rows[u])
    BY UpdateStatusEffect DEF TreeInv, TypeInv, PipelineReconcilerTypeOK, OneRow
  <2>2. rows'[u] \in Seq(RowStatuses)
    BY UpdateStatusTypeInv DEF TreeInv, TypeInv, PipelineReconcilerTypeOK
  <2>3. rows[u] # <<>>
    BY <2>1, <2>2, EmptySeq
  <2>4. 1 \in DOMAIN rows[u]
    BY <2>1, <2>3, FirstRow
  <2> QED BY <2>3, <2>4, UpdateStatusEffect DEF TreeInv
<1>3. ~Listen /\ ~UNCHANGED vars /\ \A g \in Goroutines : ~Delete(g)
  BY <1>1 DEF Listen, vars, dbVars, Delete
<1>4. \A c \in Calls : /\ ~ReadTasks(c) /\ ~Return(c)
                       /\ \A t \in Tasks : ~LoadOrStore(c, t)
  BY <1>1 DEF ReadTasks, Return, LoadOrStore, dbVars
<1>5. PICK g \in Goroutines : SaveTask(g) \/ Execute(g) \/ ReconcileTask(g)
  BY <1>2, <1>3, <1>4, NextCases
<1>6. CASE SaveTask(g)
  <2>1. rows' # rows /\ g[1] = u
    BY <1>1, <1>6, SaveTaskEffect DEF TreeInv
  <2>2. /\ at[g] = "save" /\ Read(g).row = 0
        /\ rows'[u] = Append(rows[u], IF u \in Rerun THEN "Success" ELSE "Analyzed")
    BY <1>6, <2>1, SaveTaskEffect DEF TreeInv
  <2>3. rows[u] \in Seq(RowStatuses) /\ Merged[u].row = 0
    BY <2>1, <2>2 DEF FreshPicture, TreeInv, TypeInv, PipelineReconcilerTypeOK
  <2>4. rows[u] = <<>>
    BY <2>3, EmptySeq DEF Merged
  <2>5. \A x : Append(<<>>, x)[1] = x
    OBVIOUS
  <2> QED BY <2>2, <2>4, <2>5
<1>7. CASE Execute(g) \/ ReconcileTask(g)
  <2>1. at[g] \in {"execute", "run"}
    BY <1>7 DEF Execute, ReconcileTask
  <2>2. /\ row[g] = 1 /\ Len(rows[g[1]]) = 1 /\ g[1] \in Tasks
        /\ at[g] = "execute" => TaskStatus(g) = rows[g[1]][1]
    BY <2>1, TaskStatusNow
  <2>3. PICK x : SetRow(g, x)
    BY <1>1, <1>7 DEF Execute, ReconcileTask
  <2>4. g[1] = u
    BY <2>1, <2>3, SetRowEffect DEF TreeInv
  <2>5. \A y : SetRow(g, y) => y = "Running"
    BY <2>1, <2>2, <2>4, SetRowEffect DEF TreeInv
  <2>6. Execute(g)
    BY <1>1, <1>7, <2>5 DEF ReconcileTask
  <2>7. at[g] = "execute" /\ ~Skipped(g)
    BY <1>1, <2>5, <2>6 DEF Execute
  <2> QED BY <2>4, <2>7
<1> QED BY <1>5, <1>6, <1>7

(* A goroutine that does not skip its task: its picture shows no failure,  *)
(* or a task that runs; that one is not among the needs, which are done,   *)
(* so it is of no earlier stage and has itself met the same needs.         *)
LEMMA BeginIsSound ==
  ASSUME HasIf = {}, TreeInv, OneRow, PictureIsPast, FailureIsSeen,
         NEW g \in Goroutines, at[g] = "execute", ~Skipped(g)
  PROVE  NeedsMet(g[1])
<1> DEFINE c == parent[g]
<1>1. c \in Calls /\ at[c] = "schedule" /\ g[1] \in Tasks /\ tasks[c] \in [Tasks -> Picture]
  BY GoroutineType DEF TreeInv, ParentWaits, Active, TypeInv, PipelineReconcilerTypeOK
<1>2. Needs[g[1]] \subseteq DoneTasks(tasks[c]) /\ DoneTasks(tasks[c]) \subseteq Tasks
  BY DEF TreeInv, FromPicture, DoneTasks
<1>3. CalcOfRead(tasks[c]) # "Failed"
  BY DEF Skipped
<1> HIDE DEF c
<1> SUFFICES ASSUME NEW t \in Needs[g[1]], BadlyFailed(t) PROVE FALSE
  BY <1>1, <1>2 DEF NeedsMet, PictureIsPast
<1>4. t \in Tasks /\ FailedForGood(t, tasks[c][t].status)
  BY <1>1, <1>2 DEF FailureIsSeen
<1>5. PICK v \in Tasks : tasks[c][v].status = "Running"
  BY <1>1, <1>3, <1>4, FailureShows
<1>6. v \notin Needs[g[1]]
  BY <1>2, <1>5 DEF DoneTasks, Ends
<1>7. t \in Needs[v]
  BY <1>1, <1>4, <1>6, PipelineReconcilerAssumption DEF Needs
<1>8. NeedsMet(v)
  BY <1>1, <1>5 DEF FailureIsSeen
<1> QED BY <1>7, <1>8 DEF NeedsMet

LEMMA NextFailure ==
  ASSUME HasIf = {}, TreeInv, InOrder, overtaken = 0 => FailureIsSeen, [Next]_vars
  PROVE  (overtaken = 0 => FailureIsSeen)'
<1> SUFFICES ASSUME overtaken' = 0 PROVE FailureIsSeen'
  OBVIOUS
<1>1. /\ TypeInv /\ TreeInv' /\ InOrder' /\ overtaken = 0
      /\ OneRow /\ PictureIsPast /\ FreshPicture /\ FailureIsSeen
  BY NextTree, NextInOrder, NotOvertaken DEF InOrder, TreeInv
<1>2. OneRow' /\ \A t \in Tasks : RowStep(t)
  BY <1>1, RowSteps DEF InOrder
<1>3. \A t \in Tasks : Over(t) => Over(t)' /\ (BadlyFailed(t)' => BadlyFailed(t))
  BY <1>1, <1>2, OverStays, EndIsFinal
<1>4. \A u \in Tasks : Needs[u] \subseteq Tasks
  BY DEF Needs
<1>5. \A u \in Tasks : NeedsMet(u) => NeedsMet(u)'
  BY <1>3, <1>4 DEF NeedsMet
<1>6. \A t \in Tasks : rows[t] # <<>> => Len(rows[t]) = 1
  BY <1>1, FirstRow DEF OneRow, TypeInv, PipelineReconcilerTypeOK
<1>7. ASSUME NEW c \in Calls, at'[c] = "schedule"
      PROVE  /\ \A t \in DoneTasks(tasks'[c]) :
                  BadlyFailed(t)' => FailedForGood(t, tasks'[c][t].status)
             /\ \A u \in Tasks : tasks'[c][u].status = "Running" => NeedsMet(u)'
  <2>1. CASE at[c] = "schedule" /\ tasks'[c] = tasks[c]
    <3>1. \A t \in DoneTasks(tasks[c]) : t \in Tasks /\ Over(t)
      BY <1>1, <2>1 DEF PictureIsPast, DoneTasks
    <3> QED BY <1>1, <1>3, <1>5, <2>1, <3>1 DEF FailureIsSeen
  <2>2. CASE tasks'[c] = Merged /\ rows' = rows
    <3>1. ASSUME NEW t \in DoneTasks(Merged), BadlyFailed(t)'
          PROVE  FailedForGood(t, Merged[t].status)
      <4>1. t \in Tasks /\ BadlyFailed(t)
        BY <1>3, <3>1, MergedDone DEF DoneTasks
      <4>2. rows[t] # <<>> /\ FailedForGood(t, rows[t][1])
        BY <1>1, <4>1, BadlyFailedRow
      <4> QED BY <1>6, <4>1, <4>2 DEF Merged
    <3>2. ASSUME NEW u \in Tasks, Merged[u].status = "Running"
          PROVE  NeedsMet(u)'
      <4>1. rows[u] # <<>> /\ rows[u][1] = "Running"
        BY <1>6, <3>2 DEF Merged, Unsaved
      <4> QED BY <1>1, <1>5, <4>1 DEF FailureIsSeen
    <3> QED BY <2>2, <3>1, <3>2
  <2> QED BY <1>7, <2>1, <2>2, PictureStep
<1>8. ASSUME NEW u \in Tasks, rows'[u] # <<>>, rows'[u][1] = "Running"
      PROVE  NeedsMet(u)'
  <2>1. CASE rows[u] # <<>> /\ rows[u][1] = "Running"
    BY <1>1, <1>5, <2>1 DEF FailureIsSeen
  <2>2. CASE ~(rows[u] # <<>> /\ rows[u][1] = "Running")
    <3>1. PICK g \in Goroutines : g[1] = u /\ at[g] = "execute" /\ ~Skipped(g)
      BY <1>1, <1>8, <2>2, WhoBegins
    <3>2. NeedsMet(g[1])
      BY <1>1, <3>1, BeginIsSound
    <3> QED BY <1>5, <3>1, <3>2
  <2> QED BY <2>1, <2>2
<1> QED BY <1>7, <1>8 DEF FailureIsSeen, DoneTasks

(* In a pipeline without `if` no task begins once a task of an earlier     *)
(* stage has failed that was not allowed to: whatever siblings still run   *)
(* when it fails, and also when a task is given up with an error and taken *)
(* up again.  (A task with an `if` that runs after the failure makes the   *)
(* pipeline look as if it ran: a sibling without `if` that is taken up     *)
(* again meanwhile does begin.)                                            *)
THEOREM FailureIsFinal == HasIf = {} => (Spec => FailureStops)
<1> SUFFICES ASSUME HasIf = {} PROVE Spec => FailureStops
  OBVIOUS
<1> DEFINE F == overtaken = 0 => FailureIsSeen
           A == \A g \in Goroutines : Begins(g) /\ g[1] \notin HasIf =>
                  overtaken > 0 \/ \A t \in Needs[g[1]] : ~BadlyFailed(t)
<1>1. Init => F
  <2> SUFFICES ASSUME Init PROVE FailureIsSeen
    OBVIOUS
  <2>1. \A c \in Calls : at[c] # "schedule"
    BY DEF Init
  <2> QED BY <2>1 DEF FailureIsSeen, Init
<1>2. TreeInv /\ InOrder /\ F /\ [Next]_vars => F'
  BY NextFailure
<1>3. TreeInv /\ InOrder /\ F /\ [Next]_vars => [A]_vars
  <2> SUFFICES ASSUME TreeInv, InOrder, F, [Next]_vars, NEW g \in Goroutines, Begins(g),
                      ~(overtaken > 0), NEW t \in Needs[g[1]]
               PROVE  ~BadlyFailed(t)
    OBVIOUS
  <2>1. overtaken = 0
    BY PipelineReconcilerAssumption DEF TreeInv, TypeInv, PipelineReconcilerTypeOK
  <2>2. at[g] = "execute" /\ ~Skipped(g)
    BY WhoMoves DEF Begins, Execute
  <2>3. NeedsMet(g[1])
    BY <2>1, <2>2, BeginIsSound DEF InOrder
  <2> QED BY <2>3 DEF NeedsMet
<1> HIDE DEF F, A
<1>4. Spec => [][A]_vars
  BY <1>1, <1>2, <1>3, OrderInvariant, PTL DEF Spec
<1> QED BY <1>4 DEF FailureStops, A

-----------------------------------------------------------------------------
(* The end, without a platform error.                                      *)

ProcessingIsWork ==
  \A t \in processingTasks :
    \E g \in Goroutines : g[1] = t /\ at[g] \in Working \cup {"stuck"}

NoneStuck == failures = 0 => \A g \in Goroutines : at[g] # "stuck"

Ready(t) == ~Over(t) /\ \A u \in Needs[t] : Over(u)

(* Some call will read the tasks again, or has still to look the task up.  *)
WillLook(t) ==
  \E c \in Calls : \/ at[c] \in Working \cup {"read"}
                   \/ at[c] = "schedule" /\ t \in todo[c]

(* No task that could be scheduled is forgotten.                           *)
Attended ==
  failures = 0 /\ at[Root] = "schedule" => \A t \in Tasks : Ready(t) => WillLook(t)

Closing ==
  /\ at[Root] \in {"listen", "read", "schedule", "after", "done"}
  /\ failures = 0 =>
       /\ again = FALSE
       /\ at[Root] = "listen" => pipeline = "Queue"
       /\ at[Root] \in {"read", "schedule", "after"} => ~IsEnd(pipeline)
       /\ at[Root] = "after" => \A t \in Tasks : Over(t)

VerdictInv == ProcessingIsWork /\ NoneStuck /\ Attended /\ Closing /\ VerdictIsRight

LEMMA InitVerdict == Init => VerdictInv
<1> SUFFICES ASSUME Init PROVE VerdictInv
  OBVIOUS
<1>1. \A g \in Goroutines : at[g] = "none"
  BY RootIsNoGoroutine, GoroutineType DEF Init
<1>2. at[Root] = "listen"
  BY RootIsNoGoroutine DEF Init
<1>3. ProcessingIsWork /\ NoneStuck /\ Attended
  BY <1>1, <1>2 DEF Init, ProcessingIsWork, NoneStuck, Attended
<1>4. Closing /\ VerdictIsRight
  BY <1>2 DEF Init, Closing, VerdictIsRight, IsEnd, Ends
<1> QED BY <1>3, <1>4 DEF VerdictInv

(* Errors are never forgotten.                                             *)
LEMMA FailuresGrow ==
  ASSUME TypeInv, [Next]_vars
  PROVE  /\ failures' = 0 => failures = 0
         /\ Fail => failures' # 0
<1>1. failures \in Nat
  BY PipelineReconcilerAssumption DEF TypeInv, PipelineReconcilerTypeOK
<1>2. failures' = failures \/ failures' = failures + 1
  <2>1. ASSUME NEW c \in Calls, ReadTasks(c) \/ Return(c) \/ \E t \in Tasks : LoadOrStore(c, t)
        PROVE  <1>2
    BY <2>1 DEF ReadTasks, Return, LoadOrStore, Fail, countVars
  <2>2. ASSUME NEW g \in Goroutines, SaveTask(g) \/ Execute(g) \/ ReconcileTask(g) \/ Delete(g)
        PROVE  <1>2
    BY <2>2 DEF SaveTask, Execute, ReconcileTask, Delete, Fail, countVars
  <2>3. ASSUME Listen \/ UpdateStatusAfterReconcile \/ UNCHANGED vars
        PROVE  <1>2
    BY <2>3 DEF Listen, UpdateStatusAfterReconcile, vars, Fail, countVars
  <2> QED BY <2>1, <2>2, <2>3, NextCases
<1> QED BY <1>1, <1>2 DEF Fail

LEMMA NextProcessing ==
  ASSUME TreeInv, ProcessingIsWork, NoneStuck, [Next]_vars
  PROVE  ProcessingIsWork' /\ NoneStuck'
<1>1. at \in [Calls -> Places] /\ TypeInv
  BY DEF TreeInv, TypeInv, PipelineReconcilerTypeOK, Places
<1>2. failures' = 0 => failures = 0
  BY <1>1, FailuresGrow
<1>3. ASSUME NEW c \in Calls, NEW place \in Places \ {"stuck"}, at' = [at EXCEPT ![c] = place],
             c \in Goroutines => at[c] \notin Working \cup {"stuck"},
             processingTasks' = processingTasks
      PROVE  ProcessingIsWork' /\ NoneStuck'
  <2>1. \A g \in Goroutines : /\ at[g] \in Working \cup {"stuck"} => at'[g] = at[g]
                              /\ at'[g] = "stuck" => at[g] = "stuck"
    BY <1>1, <1>3, GoroutineType
  <2> QED BY <1>2, <1>3, <2>1 DEF ProcessingIsWork, NoneStuck
<1>4. CASE Listen \/ UpdateStatusAfterReconcile
  <2>1. /\ \E place \in {"read", "done", "listen"} : at' = [at EXCEPT ![Root] = place]
        /\ processingTasks' = processingTasks
    BY <1>4 DEF Listen, UpdateStatusAfterReconcile
  <2> QED BY <1>3, <2>1, RootIsNoGoroutine DEF Places
<1>5. ASSUME NEW c \in Calls, ReadTasks(c) \/ Return(c)
      PROVE  ProcessingIsWork' /\ NoneStuck'
  <2>1. /\ \E place \in {"schedule", "after", "done"} : at' = [at EXCEPT ![c] = place]
        /\ processingTasks' = processingTasks /\ at[c] \notin Working \cup {"stuck"}
    BY <1>5 DEF ReadTasks, Return, Waits, Leave, Working
  <2> QED BY <1>3, <2>1 DEF Places
<1>6. ASSUME NEW c \in Calls, NEW t \in Tasks, LoadOrStore(c, t)
      PROVE  ProcessingIsWork' /\ NoneStuck'
  <2>1. CASE UNCHANGED <<at, processingTasks>>
    BY <1>2, <2>1 DEF ProcessingIsWork, NoneStuck
  <2>2. CASE ~AlreadyProcessing(t)
    <3>1. PICK g \in Goroutines :
             /\ g[1] = t /\ at[g] = "none" /\ g # c
             /\ \A x \in Calls : at'[x] = IF x = g THEN "save" ELSE at[x]
             /\ \A k \in Goroutines : parent'[k] = IF k = g THEN c ELSE parent[k]
      BY <1>1, <1>6, <2>2, Starts
    <3>2. processingTasks' = processingTasks \cup {t}
      BY <1>6, <2>2 DEF LoadOrStore
    <3>3. \A h \in Goroutines : at'[h] = IF h = g THEN "save" ELSE at[h]
      BY <3>1, GoroutineType
    <3> QED BY <1>2, <3>1, <3>2, <3>3 DEF ProcessingIsWork, NoneStuck, Working
  <2> QED BY <1>6, <2>1, <2>2 DEF LoadOrStore
<1>7. ASSUME NEW g \in Goroutines, SaveTask(g) \/ Execute(g) \/ ReconcileTask(g)
      PROVE  ProcessingIsWork' /\ NoneStuck'
  <2>1. /\ \E place \in {"execute", "run", "delete"} \cup (IF Fail THEN {"stuck"} ELSE {}) :
             at' = [at EXCEPT ![g] = place]
        /\ processingTasks' = processingTasks
    BY <1>7 DEF SaveTask, OnSaveError, Execute, ReconcileTask
  <2>2. \A h \in Goroutines : h # g => at'[h] = at[h]
    BY <1>1, <2>1, GoroutineType
  <2>3. at'[g] \in Working \cup {"stuck"} /\ (at'[g] = "stuck" => failures' # 0)
    BY <1>1, <2>1, GoroutineType, FailuresGrow DEF Working
  <2> QED BY <1>2, <2>1, <2>2, <2>3 DEF ProcessingIsWork, NoneStuck
<1>8. ASSUME NEW g \in Goroutines, Delete(g)
      PROVE  ProcessingIsWork' /\ NoneStuck'
  <2>1. at' = [at EXCEPT ![g] = "read"] /\ processingTasks' = processingTasks \ {g[1]}
    BY <1>8 DEF Delete
  <2>2. \A h \in Goroutines : at'[h] = IF h = g THEN "read" ELSE at[h]
    BY <1>1, <2>1, GoroutineType
  <2> QED BY <1>2, <2>1, <2>2 DEF ProcessingIsWork, NoneStuck
<1>9. CASE UNCHANGED vars
  BY <1>9 DEF vars, countVars, ProcessingIsWork, NoneStuck
<1> QED BY <1>4, <1>5, <1>6, <1>7, <1>8, <1>9, NextCases

(* Whoever finds a task in processingTasks may leave it: the goroutine     *)
(* that has it reads the tasks again when it is done.                      *)
LEMMA NextAttended ==
  ASSUME TreeInv, ProcessingIsWork, NoneStuck, Attended, Closing, [Next]_vars
  PROVE  Attended'
<1> SUFFICES ASSUME failures' = 0, at'[Root] = "schedule", NEW t \in Tasks, Ready(t)'
             PROVE  WillLook(t)'
  BY DEF Attended
<1>1. /\ at \in [Calls -> Places] /\ todo \in [Calls -> SUBSET Tasks]
      /\ TypeInv /\ Root \in Calls
  BY RootIsNoGoroutine DEF TreeInv, TypeInv, PipelineReconcilerTypeOK, Places
<1>2. failures = 0 /\ ~Fail
  BY <1>1, FailuresGrow
<1>3. UNCHANGED rows => Ready(t)
  BY DEF Ready, Over
<1>4. CASE Listen \/ UpdateStatusAfterReconcile
  <2>1. \E place \in {"read", "done", "listen"} : at' = [at EXCEPT ![Root] = place]
    BY <1>4 DEF Listen, UpdateStatusAfterReconcile
  <2> QED BY <1>1, <2>1
<1>5. ASSUME NEW c \in Calls, ReadTasks(c) PROVE WillLook(t)'
  <2>1. /\ todo' = [todo EXCEPT ![c] = GetSchedulable(DoneTasks(tasks'[c]))]
        /\ tasks' = [tasks EXCEPT ![c] = Merged]
        /\ at' = [at EXCEPT ![c] = "schedule"] /\ UNCHANGED rows
    BY <1>2, <1>5 DEF ReadTasks, dbVars
  <2>2. Ready(t)
    BY <1>3, <2>1
  <2>3. t \notin DoneTasks(Merged) /\ Needs[t] \subseteq DoneTasks(Merged)
    <3>1. Needs[t] \subseteq Tasks
      BY DEF Needs
    <3> QED BY <2>2, <3>1, MergedDone DEF Ready
  <2>4. t \in GetSchedulable(DoneTasks(Merged))
    BY <2>3 DEF GetSchedulable, IsSchedulable
  <2>5. tasks'[c] = Merged
    BY <1>1, <2>1 DEF TypeInv, PipelineReconcilerTypeOK
  <2>6. t \in todo'[c] /\ at'[c] = "schedule"
    BY <1>1, <2>1, <2>4, <2>5
  <2> QED BY <2>6 DEF WillLook
<1>6. ASSUME NEW c \in Calls, Return(c) PROVE WillLook(t)'
  <2>1. /\ at' = [at EXCEPT ![c] = Leave(c)] /\ Leave(c) # "schedule" /\ todo' = todo
        /\ UNCHANGED rows /\ at[c] = "schedule" /\ todo[c] = {}
    BY <1>6 DEF Return, Waits, Leave, dbVars
  <2>2. at[Root] = "schedule"
    BY <1>1, <2>1
  <2>3. WillLook(t)
    BY <1>2, <1>3, <2>1, <2>2 DEF Attended
  <2>4. PICK x \in Calls : at[x] \in Working \cup {"read"} \/ (at[x] = "schedule" /\ t \in todo[x])
    BY <2>3 DEF WillLook
  <2>5. x # c /\ at'[x] = at[x]
    BY <1>1, <2>1, <2>4 DEF Working
  <2> QED BY <2>1, <2>4, <2>5 DEF WillLook
<1>7. ASSUME NEW c \in Calls, NEW u \in Tasks, LoadOrStore(c, u) PROVE WillLook(t)'
  <2>1. /\ UNCHANGED rows /\ at[c] = "schedule"
        /\ todo' = [todo EXCEPT ![c] = @ \ {u}]
    BY <1>7 DEF LoadOrStore, dbVars
  <2>2. CASE UNCHANGED at /\ AlreadyProcessing(u)
    <3>1. WillLook(t)
      BY <1>2, <1>3, <2>1, <2>2 DEF Attended
    <3>2. PICK x \in Calls : at[x] \in Working \cup {"read"} \/ (at[x] = "schedule" /\ t \in todo[x])
      BY <3>1 DEF WillLook
    <3>3. CASE t # u
      <4>1. t \in todo[x] => t \in todo'[x]
        BY <1>1, <2>1, <3>3
      <4> QED BY <2>2, <3>2, <4>1 DEF WillLook
    <3>4. CASE t = u
      <4>1. PICK g \in Goroutines : at[g] \in Working
        BY <1>2, <2>2, <3>4 DEF AlreadyProcessing, ProcessingIsWork, NoneStuck
      <4> QED BY <2>2, <4>1, GoroutineType DEF WillLook
    <3> QED BY <3>3, <3>4
  <2>3. CASE ~AlreadyProcessing(u)
    <3>1. PICK g \in Goroutines :
             /\ g[1] = u /\ at[g] = "none" /\ g # c
             /\ \A x \in Calls : at'[x] = IF x = g THEN "save" ELSE at[x]
             /\ \A k \in Goroutines : parent'[k] = IF k = g THEN c ELSE parent[k]
      BY <1>1, <1>7, <2>3, Starts
    <3>2. g \in Calls /\ at'[g] = "save"
      BY <3>1, GoroutineType
    <3> QED BY <3>2 DEF WillLook, Working
  <2> QED BY <1>7, <2>2, <2>3 DEF LoadOrStore
<1>8. ASSUME NEW g \in Goroutines, SaveTask(g) \/ Execute(g) \/ ReconcileTask(g) \/ Delete(g)
      PROVE  WillLook(t)'
  <2>1. \E place \in {"execute", "run", "delete", "read"} : at' = [at EXCEPT ![g] = place]
    BY <1>2, <1>8 DEF SaveTask, OnSaveError, Execute, ReconcileTask, Delete
  <2>2. g \in Calls /\ at'[g] \in Working \cup {"read"}
    BY <1>1, <2>1, GoroutineType DEF Working
  <2> QED BY <2>2 DEF WillLook
<1>9. CASE UNCHANGED vars
  <2>1. UNCHANGED <<rows, at, todo, failures>>
    BY <1>9 DEF vars, dbVars, callVars, countVars
  <2>2. WillLook(t)
    BY <1>2, <1>3, <2>1 DEF Attended
  <2> QED BY <2>1, <2>2 DEF WillLook
<1> QED BY <1>4, <1>5, <1>6, <1>7, <1>8, <1>9, NextCases

(* When the call by Listen returns, every task is over: one of the lowest  *)
(* stage that is not would be ready, and nobody is left to look at it.     *)
LEMMA ReturnIsComplete ==
  ASSUME TreeInv, Attended, failures = 0, Return(Root)
  PROVE  \A t \in Tasks : Over(t)
<1>1. /\ at \in [Calls -> Places] /\ Root \in Calls /\ Root \notin Goroutines
      /\ at[Root] = "schedule" /\ todo[Root] = {}
  BY RootIsNoGoroutine DEF Return, Waits, TreeInv, TypeInv, PipelineReconcilerTypeOK, Places
<1>2. TreeInv' /\ at' = [at EXCEPT ![Root] = "after"]
  BY <1>1, ReturnTree DEF Return, Leave
<1>3. at'[Root] # "schedule" /\ \A g \in Goroutines : at'[g] = at[g]
  BY <1>1, <1>2, GoroutineType
<1>4. \A g \in Goroutines : ~Active(g)'
  <2>1. (TypeInv /\ ParentWaits /\ Ranked /\ at[Root] # "schedule")'
    BY <1>2, <1>3 DEF TreeInv
  <2>2. (TypeInv /\ ParentWaits /\ Ranked /\ at[Root] # "schedule" =>
          \A g \in Goroutines : ~Active(g))'
    BY RootIsLast, PTL
  <2> QED BY <2>1, <2>2
<1>5. \A t \in Tasks : ~Ready(t)
  <2>1. \A t \in Tasks : ~WillLook(t)
    BY <1>1, <1>3, <1>4 DEF WillLook, Active, Calls, Working
  <2> QED BY <1>1, <2>1 DEF Attended
<1> SUFFICES ASSUME NEW u \in Tasks, ~Over(u) PROVE FALSE
  OBVIOUS
<1> DEFINE S == {Stage[t] : t \in {v \in Tasks : ~Over(v)}}
<1>6. S \subseteq Nat /\ S # {}
  BY PipelineReconcilerAssumption
<1>7. PICK n \in S : \A m \in S : ~(m < n)
  BY <1>6, LeastNatural
<1>8. PICK t \in Tasks : ~Over(t) /\ Stage[t] = n
  BY <1>7
<1>9. \A v \in Needs[t] : Over(v)
  BY <1>7, <1>8 DEF Needs
<1> QED BY <1>5, <1>8, <1>9 DEF Ready

LEMMA VerdictOfRows ==
  /\ CalcOfRows = "Success" => \A t \in Tasks : ~BadlyFailed(t)
  /\ CalcOfRows = "Failed" => \E t \in Tasks : BadlyFailed(t)
<1> DEFINE S == UNION {{<<t, rows[t][i]>> : i \in DOMAIN rows[t]} : t \in Tasks}
<1>1. ASSUME NEW t \in Tasks, BadlyFailed(t)
      PROVE  \E x \in S : FailedForGood(x[1], x[2])
  <2>1. PICK i \in DOMAIN rows[t] : FailedForGood(t, rows[t][i])
    BY <1>1 DEF BadlyFailed
  <2>2. <<t, rows[t][i]>> \in S
    OBVIOUS
  <2> QED BY <2>1, <2>2
<1>2. ASSUME NEW x \in S, FailedForGood(x[1], x[2])
      PROVE  \E t \in Tasks : BadlyFailed(t)
  <2>1. PICK t \in Tasks : x \in {<<t, rows[t][i]>> : i \in DOMAIN rows[t]}
    OBVIOUS
  <2>2. PICK i \in DOMAIN rows[t] : x = <<t, rows[t][i]>>
    BY <2>1
  <2> QED BY <1>2, <2>2 DEF BadlyFailed
<1>3. CalcOfRows = CalculatePipelineStatusV2(S)
  BY DEF CalcOfRows
<1> HIDE DEF S
<1>4. CalculatePipelineStatusV2(S) = "Success" => \A x \in S : ~FailedForGood(x[1], x[2])
  <2> SUFFICES ASSUME NEW x \in S, FailedForGood(x[1], x[2]),
                      CalculatePipelineStatusV2(S) = "Success"
               PROVE  FALSE
    OBVIOUS
  <2>1. x[2] # "Analyzed" /\ ~Succeeded(x[1], x[2])
    BY DEF FailedForGood, Succeeded
  <2> QED BY <2>1 DEF CalculatePipelineStatusV2
<1>5. CalculatePipelineStatusV2(S) = "Failed" => \E x \in S : FailedForGood(x[1], x[2])
  BY DEF CalculatePipelineStatusV2
<1> QED BY <1>1, <1>2, <1>3, <1>4, <1>5

LEMMA UpdateVerdict ==
  ASSUME TreeInv, Closing, UpdateStatusAfterReconcile, failures' = 0, failures = 0
  PROVE  VerdictIsRight'
<1>1. /\ ~IsEnd(pipeline) /\ \A t \in Tasks : Over(t)
  BY DEF UpdateStatusAfterReconcile, Closing
<1>2. pipeline' = CalcOfRows
  BY <1>1 DEF UpdateStatusAfterReconcile, Fail
<1>3. ASSUME NEW t \in Tasks PROVE Over(t)' /\ (BadlyFailed(t)' <=> BadlyFailed(t))
  <2>1. /\ rows[t] \in Seq(RowStatuses) /\ rows'[t] \in Seq(RowStatuses)
        /\ DOMAIN rows'[t] = DOMAIN rows[t] /\ Len(rows'[t]) = Len(rows[t])
    BY UpdateStatusEffect, UpdateStatusTypeInv DEF TreeInv, TypeInv, PipelineReconcilerTypeOK
  <2>2. \A i \in DOMAIN rows[t] :
          \/ rows'[t][i] = rows[t][i]
          \/ rows[t][i] = "Analyzed" /\ rows'[t][i] = "NoNeedBySystem"
    BY UpdateStatusEffect DEF TreeInv
  <2>3. Over(t)'
    <3>1. CASE t \in Disabled
      BY <3>1 DEF Over
    <3>2. CASE t \notin Disabled
      <4>1. rows[t] # <<>> /\ IsEnd(rows[t][Len(rows[t])])
        BY <1>1, <3>2 DEF Over
      <4>2. Len(rows[t]) \in DOMAIN rows[t] /\ rows'[t] # <<>>
        BY <2>1, <4>1, LenProperties, EmptySeq
      <4> QED BY <2>1, <2>2, <4>1, <4>2 DEF Over, IsEnd, Ends
    <3> QED BY <3>1, <3>2
  <2>4. BadlyFailed(t)' <=> BadlyFailed(t)
    BY <2>1, <2>2 DEF BadlyFailed, FailedForGood
  <2> QED BY <2>3, <2>4
<1>4. ASSUME IsEnd(CalcOfRows)
      PROVE  CalcOfRows = "Failed" <=> \E t \in Tasks : BadlyFailed(t)
  <2>1. CalcOfRows \in {"Success", "Failed"}
    BY <1>4, CalculatedStatus DEF CalcOfRows, IsEnd, Ends
  <2> QED BY <2>1, VerdictOfRows
<1> QED BY <1>2, <1>3, <1>4 DEF VerdictIsRight, IsEnd

LEMMA NextClosing ==
  ASSUME TreeInv, VerdictInv, [Next]_vars
  PROVE  Closing' /\ VerdictIsRight'
<1> USE DEF VerdictInv
<1>1. /\ at \in [Calls -> Places] /\ TypeInv /\ Root \in Calls /\ Root \notin Goroutines
      /\ at[Root] \in {"listen", "read", "schedule", "after", "done"}
  BY RootIsNoGoroutine DEF TreeInv, TypeInv, PipelineReconcilerTypeOK, Places, Closing
<1>2. /\ failures' = 0 => failures = 0
      /\ Fail => failures' # 0
  BY <1>1, FailuresGrow
<1>3. CASE Listen
  <2>1. /\ at[Root] = "listen" /\ again' = FALSE /\ UNCHANGED <<rows, failures>>
        /\ \/ IsEnd(pipeline) /\ at' = [at EXCEPT ![Root] = "done"] /\ pipeline' = pipeline
           \/ at' = [at EXCEPT ![Root] = "read"] /\ pipeline' = "Running"
    BY <1>3 DEF Listen, countVars
  <2>2. \/ IsEnd(pipeline) /\ at'[Root] = "done" /\ pipeline' = pipeline
        \/ at'[Root] = "read" /\ pipeline' = "Running"
    BY <1>1, <2>1
  <2>3. Closing'
    BY <2>1, <2>2 DEF Closing, IsEnd, Ends
  <2>4. VerdictIsRight'
    BY <2>1, <2>2 DEF VerdictIsRight, Over, BadlyFailed, IsEnd, Ends
  <2> QED BY <2>3, <2>4
<1>4. CASE UpdateStatusAfterReconcile
  <2>1. at'[Root] \in {"listen", "done"} /\ again' = again /\ (again = FALSE => at'[Root] = "done")
    BY <1>1, <1>4 DEF UpdateStatusAfterReconcile
  <2>2. Closing'
    BY <1>2, <2>1 DEF Closing
  <2>3. VerdictIsRight'
    BY <1>2, <1>4, UpdateVerdict DEF VerdictIsRight
  <2> QED BY <2>2, <2>3
(* Steps that leave the pipeline as it is.                                 *)
<1>5. ASSUME pipeline' = pipeline, again' = again, at'[Root] = at[Root],
             IsEnd(pipeline) /\ failures' = 0 => UNCHANGED rows,
             at[Root] = "after" => UNCHANGED rows
      PROVE  Closing' /\ VerdictIsRight'
  BY <1>1, <1>2, <1>5 DEF Closing, VerdictIsRight, Over, BadlyFailed
<1>6. ASSUME NEW c \in Calls, ReadTasks(c) PROVE Closing' /\ VerdictIsRight'
  <2>1. pipeline' = pipeline /\ UNCHANGED rows /\ at[c] = "read"
    BY <1>6 DEF ReadTasks, dbVars
  <2>2. CASE c = Root
    <3>1. \/ at'[Root] = "schedule" /\ UNCHANGED <<again, failures>>
          \/ at'[Root] = "after" /\ Fail
      BY <1>1, <1>6, <2>2 DEF ReadTasks, Leave
    <3> QED BY <1>1, <1>2, <2>1, <2>2, <3>1 DEF Closing, VerdictIsRight, Over, BadlyFailed
  <2>3. CASE c # Root
    <3>1. at'[Root] = at[Root] /\ (again' = again \/ Fail)
      BY <1>1, <1>6, <2>3 DEF ReadTasks
    <3>2. CASE Fail
      BY <1>1, <1>2, <3>1, <3>2 DEF Closing, VerdictIsRight
    <3> QED BY <1>5, <2>1, <3>1, <3>2
  <2> QED BY <2>2, <2>3
<1>7. ASSUME NEW c \in Calls, Return(c) PROVE Closing' /\ VerdictIsRight'
  <2>1. /\ pipeline' = pipeline /\ UNCHANGED <<rows, again, failures>>
        /\ at' = [at EXCEPT ![c] = Leave(c)] /\ at[c] = "schedule"
    BY <1>7 DEF Return, Waits, dbVars, countVars
  <2>2. CASE c = Root
    <3>1. at'[Root] = "after"
      BY <1>1, <2>1, <2>2 DEF Leave
    <3>2. failures = 0 => \A t \in Tasks : Over(t)
      BY <1>7, <2>2, ReturnIsComplete
    <3> QED BY <2>1, <2>2, <3>1, <3>2 DEF Closing, VerdictIsRight, Over, BadlyFailed
  <2>3. CASE c # Root
    BY <1>1, <1>5, <2>1, <2>3
  <2> QED BY <2>2, <2>3
<1>8. ASSUME NEW c \in Calls, NEW t \in Tasks, LoadOrStore(c, t) PROVE Closing' /\ VerdictIsRight'
  <2>1. pipeline' = pipeline /\ UNCHANGED <<rows, again>>
    BY <1>8 DEF LoadOrStore, dbVars
  <2>2. at'[Root] = at[Root]
    <3>1. CASE ~AlreadyProcessing(t)
      BY <1>1, <1>8, <3>1, Starts
    <3>2. CASE AlreadyProcessing(t)
      BY <1>8, <3>2 DEF LoadOrStore
    <3> QED BY <3>1, <3>2
  <2> QED BY <1>5, <2>1, <2>2
<1>9. ASSUME NEW g \in Goroutines, SaveTask(g) \/ Execute(g) \/ ReconcileTask(g) \/ Delete(g)
      PROVE  Closing' /\ VerdictIsRight'
  <2>1. /\ pipeline' = pipeline /\ again' = again /\ Active(g)
        /\ \E place \in Places : at' = [at EXCEPT ![g] = place]
    BY <1>9 DEF SaveTask, OnSaveError, Execute, ReconcileTask, Delete, dbVars, Active, Places
  <2>2. at'[Root] = at[Root] /\ at[Root] = "schedule"
    BY <1>1, <2>1, RootIsLast DEF TreeInv
  <2>3. failures' = 0 => ~IsEnd(pipeline)
    BY <1>2, <2>2 DEF Closing
  <2> QED BY <1>5, <2>1, <2>2, <2>3
<1>10. CASE UNCHANGED vars
  BY <1>5, <1>10 DEF vars, dbVars
<1> QED BY <1>3, <1>4, <1>6, <1>7, <1>8, <1>9, <1>10, NextCases

(* What a pipeline is closed with is right: without a platform error every *)
(* task has ended or is disabled then, and it is a failure exactly when a  *)
(* task failed that was not allowed to.  So the goroutines that end one    *)
(* after the other, each with its own call of reconcile, leave no task     *)
(* behind, also when they work from old pictures.                          *)
THEOREM PipelinesEndRight == Spec => []VerdictIsRight
<1>1. TreeInv /\ VerdictInv /\ [Next]_vars => VerdictInv'
  BY NextProcessing, NextAttended, NextClosing DEF VerdictInv
<1>2. VerdictInv => VerdictIsRight
  BY DEF VerdictInv
<1> QED BY <1>1, <1>2, InitTree, InitVerdict, NextTree, PTL DEF Spec
=============================================================================
