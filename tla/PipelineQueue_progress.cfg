SPECIFICATION FairSpec
CONSTANTS
  p1 = p1
  p2 = p2
  p3 = p3
  Pipelines = {p1, p2}
  Created <- CreatedInOrder
  CustomPriority <- SamePriority
  Cpu <- UnevenCpu
  MaxCpu = 2
  Windows = {1, 2}
  Modes = {"STRICT", "LOOSE"}
  Twice = {}
  Cancelled = {}
  ForceRun = FALSE
  Prechecks = {"failed", "retry", "none"}
  MaxFailures = 1
  MaxUpdates = 1
  MaxUpgrades = 0
  None = None
INVARIANTS
  WaiterIsKnown
PROPERTIES
  PopWithinConcurrency
  EveryRunEnds
CHECK_DEADLOCK FALSE
