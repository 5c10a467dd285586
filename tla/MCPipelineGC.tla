---------------------------- MODULE MCPipelineGC ----------------------------
(* Model-checking instances of PipelineGC.                                 *)
EXTENDS PipelineGC

CONSTANTS p1, p2

NoHandler == [short |-> 0, long |-> 0]
OneIfShort == [short |-> 1, long |-> 0]
=============================================================================
