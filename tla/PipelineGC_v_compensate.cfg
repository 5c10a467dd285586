SPECIFICATION FairSpec
CONSTANTS
  p1 = p1
  p2 = p2
  Pipelines = {p1}
  Origin = p1
  Instances = 1
  Namespace = Namespace
  MaxHandlers <- NoHandler
  MaxDelays = 1
  MaxFaults = 1
PROPERTIES
  DowntimeIsCompensated
CHECK_DEADLOCK FALSE
