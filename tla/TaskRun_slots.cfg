SPECIFICATION FairSpec
CONSTANTS
  Keys = {k1, k2}
  Queues = {q1, q2}
  Priorities = {1}
  Times = {1, 2}
  Windows = {1, 2}
  DefaultQueueWindow = 1
  NoWindow = NoWindow
  NoItem = NoItem
  NoBackup = NoBackup
  Priority <- BothQueues
  LoopTasks = {}
  MaxTimes = 1
  TimeoutTasks = {k1}
  CancelTasks = {}
  UnknownTasks = {k1}
  MaxFailures = 1
  MaxCrashes = 0
  MaxLingering = 1
INVARIANTS
  LiveJobHoldsSlot
  ConcurrencyRespected
  FinishedTaskReleased
  StartIsPoppable
PROPERTIES
  ImplementsLifecycle
  
CHECK_DEADLOCK FALSE
