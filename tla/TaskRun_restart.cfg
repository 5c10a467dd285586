SPECIFICATION Spec
CONSTANTS
  Keys = {k1, k2}
  Queues = {q1}
  Priorities = {1}
  Times = {1, 2}
  Windows = {1, 2}
  DefaultQueueWindow = 1
  NoWindow = NoWindow
  NoItem = NoItem
  NoBackup = NoBackup
  Priority <- OneQueue
  LoopTasks = {}
  MaxTimes = 1
  TimeoutTasks = {}
  CancelTasks = {}
  UnknownTasks = {k1}
  MaxFailures = 0
  MaxCrashes = 1
  MaxLingering = 1
INVARIANTS
  SlotAccounting
CHECK_DEADLOCK FALSE
