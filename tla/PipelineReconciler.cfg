SPECIFICATION FairSpec
CONSTANTS
  a = a
  b = b
  c = c
  d = d
  e = e
  Tasks = {a, b, c, d, e}
  Stage <- Stages
  Disabled = {e}
  HasIf = {}
  MayFail = {b, d}
  AllowFailure = {d}
  Rerun = {a}
  MaxGoroutines = 3
  MaxOvertaken = 1
  MaxErrors = 1
  Root = Root
INVARIANTS
  PipelineReconcilerTypeOK
  OneGoroutinePerTask
  VerdictIsRight
PROPERTIES
  NeedsRespected
  FailureStops
  EveryPipelineEnds
CHECK_DEADLOCK FALSE
