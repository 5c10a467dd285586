----------------------------- MODULE Throttler -----------------------------
(***************************************************************************)
(* The task throttler of the pipeline engine                               *)
(* (modules/pipeline/pipengine/queue: priorityqueue, enhancedqueue,        *)
(* throttler).  A key (the UUID of a pipeline task) is inserted at once    *)
(* into several named queues; it may start only when it is the head of the *)
(* pending part of every one of them and every one has a free place in its *)
(* processing window.  The throttler's mutex makes each operation one      *)
(* atomic step, so each operation is one action.                           *)
(***************************************************************************)
EXTENDS Integers, FiniteSets

CONSTANTS
  Keys,               \* task UUIDs
  Queues,             \* queue names
  Priorities,         \* priorities a request may carry (int64)
  Times,              \* creation times a request may carry
  Windows,            \* processing windows a request may carry (int64)
  DefaultQueueWindow, \* the window of a queue created without one
  NoWindow,           \* a request whose QueueWindow is nil
  NoItem              \* itemByKey has no entry

Item == [priority : Priorities, creationTime : Times]
Request == [priority : Priorities, window : Windows \cup {NoWindow}]

ASSUME ThrottlerAssumption ==
  /\ Priorities \subseteq Int
  /\ Times \subseteq Int
  /\ Windows \subseteq Int
  /\ DefaultQueueWindow \in Int
  /\ NoWindow \notin Windows
  /\ NoItem \notin Item
  /\ IsFiniteSet(Keys)

VARIABLES
  queueByName,      \* the queues that exist
  processingWindow, \* queue -> window (0 while the queue does not exist)
  pending,          \* queue -> key -> its item, or NoItem
  processing,       \* queue -> the keys being processed
  keyRelatedQueues  \* key -> the queues it was inserted into; {}: no entry

throttlerVars ==
  <<queueByName, processingWindow, pending, processing, keyRelatedQueues>>

-----------------------------------------------------------------------------
(* The priority queue: higher priority first, then the earlier creation.   *)

Less(a, b) ==
  \/ a.priority > b.priority
  \/ a.priority = b.priority /\ a.creationTime < b.creationTime

InPending(q, k) == pending[q][k] # NoItem
InProcessing(q, k) == k \in processing[q]
PendingKeys(q) == {k \in Keys : InPending(q, k)}

(* A mistake IsPeek must not make: the order of the items is ignored.      *)
IsPeekAnyOrder(q, k) == InPending(q, k)

(* The root of the heap.  Items that compare equal may be in either order. *)
IsPeek(q, k) ==
  /\ InPending(q, k)
  /\ \A j \in PendingKeys(q) : ~Less(pending[q][j], pending[q][k])

(* Add keeps the creation time of a key that is already in the queue.      *)
AddedItem(old, priority, time) ==
  IF old = NoItem
  THEN [priority |-> priority, creationTime |-> time]
  ELSE [old EXCEPT !.priority = priority]

-----------------------------------------------------------------------------
(* The enhanced queue: PopPending(dryRun) and PopProcessing(dryRun).       *)

(* A mistake HasRoom must not make: off by one.                            *)
HasRoomOneMore(q) == Cardinality(processing[q]) <= processingWindow[q]

HasRoom(q) == Cardinality(processing[q]) < processingWindow[q]

CanPopPending(q, k) == IsPeek(q, k) /\ HasRoom(q)
CanPopProcessing(q, k) == InProcessing(q, k)

-----------------------------------------------------------------------------
(* The throttler.                                                          *)

TypeOK ==
  /\ queueByName \subseteq Queues
  /\ processingWindow \in [Queues -> Int]
  /\ pending \in [Queues -> [Keys -> Item \cup {NoItem}]]
  /\ processing \in [Queues -> SUBSET Keys]
  /\ keyRelatedQueues \in [Keys -> SUBSET Queues]

ThrottlerInit ==
  /\ queueByName = {}
  /\ processingWindow = [q \in Queues |-> 0]
  /\ pending = [q \in Queues |-> [k \in Keys |-> NoItem]]
  /\ processing = [q \in Queues |-> {}]
  /\ keyRelatedQueues = [k \in Keys |-> {}]

AddQueue(q, window) ==
  /\ queueByName' = queueByName \cup {q}
  /\ processingWindow' = [processingWindow EXCEPT ![q] = window]
  /\ UNCHANGED <<pending, processing, keyRelatedQueues>>

(* A mistake: the pointer of a request without a window is followed.       *)
RequestedWindowUnchecked(q, req) == req.window

(* The window a request leaves its queue with.                             *)
RequestedWindow(q, req) ==
  IF req.window # NoWindow THEN req.window
  ELSE IF q \in queueByName THEN processingWindow[q] ELSE DefaultQueueWindow

(* A mistake: a second insertion forgets the queues of the first one.      *)
AddKeyToQueuesForgetting(k, reqs, time) ==
  /\ queueByName' = queueByName \cup DOMAIN reqs
  /\ processingWindow' =
       [q \in Queues |-> IF q \in DOMAIN reqs THEN RequestedWindow(q, reqs[q])
                         ELSE processingWindow[q]]
  /\ pending' =
       [q \in Queues |->
          IF q \in DOMAIN reqs
          THEN [pending[q] EXCEPT ![k] = AddedItem(@, reqs[q].priority, time)]
          ELSE pending[q]]
  /\ keyRelatedQueues' = [keyRelatedQueues EXCEPT ![k] = DOMAIN reqs]
  /\ UNCHANGED processing

(* A mistake: a key is not added to a queue that has no room, but related  *)
(* to it.                                                                  *)
AddKeyToQueuesWithRoom(k, reqs, time) ==
  /\ queueByName' = queueByName \cup DOMAIN reqs
  /\ processingWindow' =
       [q \in Queues |-> IF q \in DOMAIN reqs THEN RequestedWindow(q, reqs[q])
                         ELSE processingWindow[q]]
  /\ pending' =
       [q \in Queues |->
          IF q \in DOMAIN reqs /\ Cardinality(processing[q]) < RequestedWindow(q, reqs[q])
          THEN [pending[q] EXCEPT ![k] = AddedItem(@, reqs[q].priority, time)]
          ELSE pending[q]]
  /\ keyRelatedQueues' = [keyRelatedQueues EXCEPT ![k] = @ \cup DOMAIN reqs]
  /\ UNCHANGED processing

(* reqs maps each requested queue to its request; the requests of one call *)
(* carry one creation time, read before the lock is taken.                 *)
AddKeyToQueues(k, reqs, time) ==
  /\ queueByName' = queueByName \cup DOMAIN reqs
  /\ processingWindow' =
       [q \in Queues |-> IF q \in DOMAIN reqs THEN RequestedWindow(q, reqs[q])
                         ELSE processingWindow[q]]
  /\ pending' =
       [q \in Queues |->
          IF q \in DOMAIN reqs
          THEN [pending[q] EXCEPT ![k] = AddedItem(@, reqs[q].priority, time)]
          ELSE pending[q]]
  /\ keyRelatedQueues' = [keyRelatedQueues EXCEPT ![k] = @ \cup DOMAIN reqs]
  /\ UNCHANGED processing

(* PopPending returns true: there is no related queue, or k is the head of *)
(* each one and each one has room.                                         *)
PopPendingSucceeds(k) ==
  \A q \in keyRelatedQueues[k] : CanPopPending(q, k)

(* Mistakes: the key is not taken out of the pending part; it is not put   *)
(* into the processing part; it is popped where it can be, without the dry *)
(* run over all its queues.                                                *)
PopPendingKeeping(k) ==
  /\ PopPendingSucceeds(k)
  /\ processing' = [q \in Queues |->
                      IF q \in keyRelatedQueues[k]
                      THEN processing[q] \cup {k} ELSE processing[q]]
  /\ UNCHANGED <<queueByName, processingWindow, pending, keyRelatedQueues>>
PopPendingDropping(k) ==
  /\ PopPendingSucceeds(k)
  /\ pending' = [q \in Queues |->
                   IF q \in keyRelatedQueues[k]
                   THEN [pending[q] EXCEPT ![k] = NoItem] ELSE pending[q]]
  /\ UNCHANGED <<queueByName, processingWindow, processing, keyRelatedQueues>>
PopPendingNoDryRun(k) ==
  LET popped == {q \in keyRelatedQueues[k] : CanPopPending(q, k)}
  IN /\ pending' = [q \in Queues |-> IF q \in popped
                                    THEN [pending[q] EXCEPT ![k] = NoItem] ELSE pending[q]]
     /\ processing' = [q \in Queues |-> IF q \in popped
                                       THEN processing[q] \cup {k} ELSE processing[q]]
     /\ UNCHANGED <<queueByName, processingWindow, keyRelatedQueues>>

PopPending(k) ==
  /\ PopPendingSucceeds(k)
  /\ pending' = [q \in Queues |->
                   IF q \in keyRelatedQueues[k]
                   THEN [pending[q] EXCEPT ![k] = NoItem] ELSE pending[q]]
  /\ processing' = [q \in Queues |->
                      IF q \in keyRelatedQueues[k]
                      THEN processing[q] \cup {k} ELSE processing[q]]
  /\ UNCHANGED <<queueByName, processingWindow, keyRelatedQueues>>

PopProcessingSucceeds(k) ==
  \A q \in keyRelatedQueues[k] : CanPopProcessing(q, k)

(* A mistake: the relation of the key to its queues is kept.               *)
PopProcessingKeeping(k) ==
  /\ PopProcessingSucceeds(k)
  /\ processing' = [q \in Queues |->
                      IF q \in keyRelatedQueues[k]
                      THEN processing[q] \ {k} ELSE processing[q]]
  /\ UNCHANGED <<queueByName, processingWindow, pending, keyRelatedQueues>>

PopProcessing(k) ==
  /\ PopProcessingSucceeds(k)
  /\ processing' = [q \in Queues |->
                      IF q \in keyRelatedQueues[k]
                      THEN processing[q] \ {k} ELSE processing[q]]
  /\ keyRelatedQueues' = [keyRelatedQueues EXCEPT ![k] = {}]
  /\ UNCHANGED <<queueByName, processingWindow, pending>>

(* Export: what the backup in etcd holds.  Import replaces the whole state.*)
Export ==
  [queueByName |-> queueByName, processingWindow |-> processingWindow,
   pending |-> pending, processing |-> processing,
   keyRelatedQueues |-> keyRelatedQueues]

(* A mistake: the relation of the keys to their queues is not restored.    *)
ImportQueuesOnly(snapshot) ==
  /\ queueByName' = snapshot.queueByName
  /\ processingWindow' = snapshot.processingWindow
  /\ pending' = snapshot.pending
  /\ processing' = snapshot.processing
  /\ keyRelatedQueues' = [k \in Keys |-> {}]

Import(snapshot) ==
  /\ queueByName' = snapshot.queueByName
  /\ processingWindow' = snapshot.processingWindow
  /\ pending' = snapshot.pending
  /\ processing' = snapshot.processing
  /\ keyRelatedQueues' = snapshot.keyRelatedQueues

-----------------------------------------------------------------------------
(* The throttler with any client, and with a client that never inserts a   *)
(* key again while the key is being processed.                             *)

Requests == UNION {[Q -> Request] : Q \in (SUBSET Queues) \ {{}}}

InAnyProcessing(k) == \E q \in Queues : InProcessing(q, k)

ThrottlerNext ==
  \/ \E q \in Queues, w \in Windows : AddQueue(q, w)
  \/ \E k \in Keys, reqs \in Requests, t \in Times : AddKeyToQueues(k, reqs, t)
  \/ \E k \in Keys : PopPending(k)
  \/ \E k \in Keys : PopProcessing(k)

ThrottlerSpec == ThrottlerInit /\ [][ThrottlerNext]_throttlerVars

DisciplinedNext ==
  \/ \E q \in Queues, w \in Windows : AddQueue(q, w)
  \/ \E k \in Keys, reqs \in Requests, t \in Times :
       ~InAnyProcessing(k) /\ AddKeyToQueues(k, reqs, t)
  \/ \E k \in Keys : PopPending(k)
  \/ \E k \in Keys : PopProcessing(k)

DisciplinedSpec == ThrottlerInit /\ [][DisciplinedNext]_throttlerVars

-----------------------------------------------------------------------------
(* Properties.                                                             *)

(* A queue the throttler relates a key to really holds the key: PopPending *)
(* and PopProcessing walk keyRelatedQueues only, so an entry without the   *)
(* key in the queue could never be satisfied and the task would wait for   *)
(* ever.  Holds for any client.                                            *)
RelatedKeysAreQueued ==
  \A k \in Keys : \A q \in keyRelatedQueues[k] :
    InPending(q, k) \/ InProcessing(q, k)

(* The converse: a key some queue holds, pending or processing, is related *)
(* to that queue.  An unrelated key could never be popped, and as the head *)
(* of the pending part it would block every key behind it.                 *)
QueuedKeysAreRelated ==
  \A k \in Keys, q \in Queues :
    InPending(q, k) \/ InProcessing(q, k) => q \in keyRelatedQueues[k]

(* What AddKeyToQueues being idempotent means for the queues: a key is     *)
(* never both waiting for a place and holding one in the same queue.       *)
KeyOncePerQueue ==
  \A k \in Keys, q \in Queues : ~(InPending(q, k) /\ InProcessing(q, k))

(* PopPending takes a key out of all its pending queues or of none of      *)
(* them, so a key is never admitted by some of its queues only.            *)
AllOrNothing ==
  \A k \in Keys :
    \/ \A q \in keyRelatedQueues[k] : ~InProcessing(q, k)
    \/ \A q \in keyRelatedQueues[k] : InProcessing(q, k)

(* The bookkeeping that makes each of the above inductive.                 *)
SlotAccounting ==
  RelatedKeysAreQueued /\ QueuedKeysAreRelated /\ KeyOncePerQueue /\ AllOrNothing

(* A key enters the processing part of a queue only while the queue, the   *)
(* key included, stays within its window: a window is exceeded by being    *)
(* shrunk, never by an admission.                                          *)
AdmissionWithinWindow ==
  [][\A q \in Queues : ~(processing'[q] \subseteq processing[q]) =>
       Cardinality(processing'[q]) <= processingWindow'[q]]_throttlerVars

(* A key enters the processing part of a queue only if no key left pending *)
(* there precedes it, and it enters all its queues in the same step.       *)
AdmissionInOrder ==
  [][\A k \in Keys : \A q \in Queues :
       k \in processing'[q] \ processing[q] =>
         /\ \A j \in Keys : pending'[q][j] # NoItem =>
              ~Less(pending'[q][j], pending[q][k])
         /\ \A r \in keyRelatedQueues[k] : k \in processing'[r]]_throttlerVars
=============================================================================
