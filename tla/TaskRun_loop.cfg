SPECIFICATION Spec
CONSTANTS
  Keys = {k1}
  Queues = {q1}
  Priorities = {1}
  Times = {1, 2}
  Windows = {1, 2}
  DefaultQueueWindow = 1
  NoWindow = NoWindow
  NoItem = NoItem
  NoBackup = NoBackup
  Priority <- WideQueue
  LoopTasks = {k1}
  MaxTimes = 3
  TimeoutTasks = {k1}
  CancelTasks = {}
  UnknownTasks = {k1}
  MaxFailures = 0
  MaxCrashes = 1
  MaxLingering = 1
INVARIANTS
  TaskRunTypeOK
  OneLiveJob
  SuccessIsEarned
PROPERTIES
  ImplementsLifecycle
CHECK_DEADLOCK FALSE
