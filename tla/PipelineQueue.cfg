SPECIFICATION Spec
CONSTANTS
  p1 = p1
  p2 = p2
  p3 = p3
  Pipelines = {p1, p2, p3}
  Created <- CreatedInOrder
  CustomPriority <- ThirdFirst
  Cpu <- EqualCpu
  MaxCpu = 2
  Windows = {2}
  Modes = {"STRICT", "LOOSE"}
  Twice = {}
  Cancelled = {p1}
  ForceRun = TRUE
  Prechecks = {"none"}
  MaxFailures = 0
  MaxUpdates = 0
  MaxUpgrades = 0
  None = None
INVARIANTS
  PendingIsHeap
  ReconciledHoldsPlace
  PlaceHasOwner
  OnlyHastyPanics
PROPERTIES
  StrictOrder
CHECK_DEADLOCK FALSE
