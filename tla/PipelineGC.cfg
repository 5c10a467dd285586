SPECIFICATION FairSpec
CONSTANTS
  p1 = p1
  p2 = p2
  Pipelines = {p1, p2}
  Origin = p1
  Instances = 1
  Namespace = Namespace
  MaxHandlers <- OneIfShort
  MaxDelays = 1
  MaxFaults = 1
INVARIANTS
  PipelineGCTypeOK
  DeletedIsMarked
PROPERTIES
  
  EventuallyCollected
CHECK_DEADLOCK FALSE
