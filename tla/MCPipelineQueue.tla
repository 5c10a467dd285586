--------------------------- MODULE MCPipelineQueue ---------------------------
(* Model-checking instances of PipelineQueue.                              *)
EXTENDS PipelineQueue

CONSTANTS p1, p2, p3

(* The pipelines are created in this order, p3 with the higher priority.   *)
CreatedInOrder == [p \in Pipelines |-> CASE p = p1 -> 1 [] p = p2 -> 2 [] OTHER -> 3]
SamePriority == [p \in Pipelines |-> 1]
ThirdFirst == [p \in Pipelines |-> IF p = p3 THEN 2 ELSE 1]
EqualCpu == [p \in Pipelines |-> 1]
UnevenCpu == [p \in Pipelines |-> IF p = p1 THEN 2 ELSE 1]
=============================================================================
