SPECIFICATION Spec
CONSTANTS
  Keys = {k1, k2}
  Queues = {q1}
  Priorities = {1}
  Times = {1, 2}
  Windows = {1, 2}
  DefaultQueueWindow = 1
  NoWindow = NoWindow
  NoItem = NoItem
  NoBackup = NoBackup
  Priority <- FirstTaskOnly
  LoopTasks = {}
  MaxTimes = 1
  TimeoutTasks = {}
  CancelTasks = {k1}
  UnknownTasks = {k1}
  MaxFailures = 1
  MaxCrashes = 0
  MaxLingering = 1
PROPERTIES
  DisciplinedClient
  JobStartsInSlot
CHECK_DEADLOCK FALSE
