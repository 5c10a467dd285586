SPECIFICATION Spec
CONSTANTS
  a = a
  b = b
  c = c
  d = d
  e = e
  Tasks = {b, c, d}
  Stage <- Stages
  Disabled = {}
  HasIf = {}
  MayFail = {}
  AllowFailure = {}
  Rerun = {}
  MaxGoroutines = 2
  MaxOvertaken = 1
  MaxErrors = 1
  Root = Root
INVARIANTS
  SuccessIsComplete
CHECK_DEADLOCK FALSE
