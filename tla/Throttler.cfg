SPECIFICATION DisciplinedSpec
CONSTANTS
  Keys = {k1, k2, k3}
  Queues = {q1, q2}
  Priorities = {1, 2}
  Times = {1, 2}
  Windows = {0, 1}
  DefaultQueueWindow = 2
  NoWindow = NoWindow
  NoItem = NoItem
SYMMETRY KeySymmetry
INVARIANTS
  TypeOK
  RelatedKeysAreQueued
  QueuedKeysAreRelated
  KeyOncePerQueue
  AllOrNothing
PROPERTIES
  AdmissionWithinWindow
  AdmissionInOrder
