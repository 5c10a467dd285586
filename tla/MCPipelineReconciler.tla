------------------------ MODULE MCPipelineReconciler ------------------------
(* Model-checking instances of PipelineReconciler.                         *)
EXTENDS PipelineReconciler

CONSTANTS a, b, c, d, e

(* One task, then two and a disabled one at the same time, then one.       *)
Stages == [t \in Tasks |-> CASE t = a -> 1 [] t \in {b, c, e} -> 2 [] OTHER -> 3]
=============================================================================
