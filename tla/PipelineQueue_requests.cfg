SPECIFICATION Spec
CONSTANTS
  p1 = p1
  p2 = p2
  p3 = p3
  Pipelines = {p1, p2}
  Created <- CreatedInOrder
  CustomPriority <- SamePriority
  Cpu <- EqualCpu
  MaxCpu = 2
  Windows = {1}
  Modes = {"STRICT", "LOOSE"}
  Twice = {p1}
  Cancelled = {}
  ForceRun = FALSE
  Prechecks = {}
  MaxFailures = 0
  MaxUpdates = 0
  MaxUpgrades = 1
  None = None
INVARIANTS
  PipelineQueueTypeOK
  PendingIsHeap
CHECK_DEADLOCK FALSE
