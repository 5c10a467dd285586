----------------------------- MODULE MCTaskRun -----------------------------
(* Model-checking instances of TaskRun: the priorities of the tasks.       *)
EXTENDS TaskRun

Entry(q, c, p) == [queue |-> q, concurrency |-> c, priority |-> p]

FirstQueue == CHOOSE q \in Queues : TRUE
LastQueue == CHOOSE q \in Queues : q # FirstQueue
FirstTask == CHOOSE k \in Keys : TRUE

(* Every task in one queue of concurrency 1, and of concurrency 2.         *)
OneQueue == [k \in Keys |-> <<Entry(FirstQueue, 1, 1)>>]
WideQueue == [k \in Keys |-> <<Entry(FirstQueue, 2, 1)>>]

(* One queue for the first task, no priority for the others.               *)
FirstTaskOnly ==
  [k \in Keys |-> IF k = FirstTask THEN <<Entry(FirstQueue, 1, 1)>> ELSE <<>>]

(* Every task in both queues, with one priority; the queues have different *)
(* concurrencies, of which the last is asked for both.                     *)
BothQueues == [k \in Keys |-> <<Entry(FirstQueue, 2, 1), Entry(LastQueue, 1, 1)>>]
=============================================================================
