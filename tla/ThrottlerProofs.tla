-------------------------- MODULE ThrottlerProofs --------------------------
(***************************************************************************)
(* Proofs about the throttler, for every set of keys, queues, priorities,  *)
(* creation times and windows.                                             *)
(***************************************************************************)
EXTENDS Throttler, TLAPS, FiniteSetTheorems

(* A request of AddKeyToQueues names a set of queues.                      *)
LEMMA RequestType ==
  ASSUME NEW reqs \in Requests
  PROVE  /\ DOMAIN reqs \subseteq Queues
         /\ \A q \in DOMAIN reqs :
              /\ reqs[q].priority \in Priorities
              /\ reqs[q].window \in Windows \cup {NoWindow}
<1>1. PICK Q \in (SUBSET Queues) \ {{}} : reqs \in [Q -> Request]
  BY DEF Requests
<1>2. DOMAIN reqs = Q /\ \A q \in Q : reqs[q] \in Request
  BY <1>1
<1> QED BY <1>2 DEF Request

(* Adding a key yields an item: a new one, or the old one with the new     *)
(* priority and its own creation time.                                     *)
LEMMA AddedItemType ==
  ASSUME NEW old \in Item \cup {NoItem}, NEW p \in Priorities, NEW t \in Times
  PROVE  AddedItem(old, p, t) \in Item /\ AddedItem(old, p, t) # NoItem
BY ThrottlerAssumption DEF AddedItem, Item

-----------------------------------------------------------------------------
(* Type correctness.                                                       *)

LEMMA InitTypeOK == ThrottlerInit => TypeOK
BY DEF ThrottlerInit, TypeOK

LEMMA AddKeyTypeOK ==
  ASSUME TypeOK, NEW k \in Keys, NEW reqs \in Requests, NEW t \in Times,
         AddKeyToQueues(k, reqs, t)
  PROVE  TypeOK'
<1> USE DEF TypeOK
<1>1. DOMAIN reqs \subseteq Queues
  BY RequestType
<1>2. ASSUME NEW q \in DOMAIN reqs
      PROVE  RequestedWindow(q, reqs[q]) \in Int
  BY <1>1, RequestType, ThrottlerAssumption DEF RequestedWindow
<1>3. ASSUME NEW q \in DOMAIN reqs
      PROVE  [pending[q] EXCEPT ![k] = AddedItem(@, reqs[q].priority, t)]
               \in [Keys -> Item \cup {NoItem}]
  <2>1. q \in Queues /\ reqs[q].priority \in Priorities
    BY <1>1, RequestType
  <2>2. pending[q] \in [Keys -> Item \cup {NoItem}]
    BY <2>1
  <2>3. AddedItem(pending[q][k], reqs[q].priority, t) \in Item
    BY <2>1, <2>2, AddedItemType
  <2> QED BY <2>2, <2>3
<1>4. processingWindow' \in [Queues -> Int]
  BY <1>2 DEF AddKeyToQueues
<1>5. pending' \in [Queues -> [Keys -> Item \cup {NoItem}]]
  BY <1>3 DEF AddKeyToQueues
<1> QED BY <1>1, <1>4, <1>5 DEF AddKeyToQueues

LEMMA NextTypeOK == TypeOK /\ [ThrottlerNext]_throttlerVars => TypeOK'
<1> SUFFICES ASSUME TypeOK, [ThrottlerNext]_throttlerVars
             PROVE  TypeOK'
  OBVIOUS
<1>1. ASSUME NEW q \in Queues, NEW w \in Windows, AddQueue(q, w)
      PROVE  TypeOK'
  BY <1>1, ThrottlerAssumption DEF TypeOK, AddQueue
<1>2. ASSUME NEW k \in Keys, NEW reqs \in Requests, NEW t \in Times,
             AddKeyToQueues(k, reqs, t)
      PROVE  TypeOK'
  BY <1>2, AddKeyTypeOK
<1>3. ASSUME NEW k \in Keys, PopPending(k)
      PROVE  TypeOK'
  BY <1>3 DEF TypeOK, PopPending
<1>4. ASSUME NEW k \in Keys, PopProcessing(k)
      PROVE  TypeOK'
  BY <1>4 DEF TypeOK, PopProcessing
<1>5. CASE UNCHANGED throttlerVars
  BY <1>5 DEF TypeOK, throttlerVars
<1> QED BY <1>1, <1>2, <1>3, <1>4, <1>5 DEF ThrottlerNext

(* The throttler's state keeps its shape whatever its clients call.        *)
THEOREM ThrottlerTypeCorrect == ThrottlerSpec => []TypeOK
BY InitTypeOK, NextTypeOK, PTL DEF ThrottlerSpec

-----------------------------------------------------------------------------
(* What one call of each operation does to one key of one queue.           *)

LEMMA AddKeyEffect ==
  ASSUME TypeOK, NEW k \in Keys, NEW reqs \in Requests, NEW t \in Times,
         AddKeyToQueues(k, reqs, t), NEW j \in Keys, NEW q \in Queues
  PROVE  /\ InProcessing(q, j)' <=> InProcessing(q, j)
         /\ InPending(q, j)' <=> InPending(q, j) \/ (j = k /\ q \in DOMAIN reqs)
         /\ q \in keyRelatedQueues'[j] <=>
              q \in keyRelatedQueues[j] \/ (j = k /\ q \in DOMAIN reqs)
<1> USE DEF TypeOK
<1>1. ASSUME q \in DOMAIN reqs
      PROVE  pending'[q] = [pending[q] EXCEPT
                              ![k] = AddedItem(@, reqs[q].priority, t)]
  BY <1>1 DEF AddKeyToQueues
<1>2. ASSUME q \in DOMAIN reqs
      PROVE  AddedItem(pending[q][k], reqs[q].priority, t) # NoItem
  <2>1. reqs[q].priority \in Priorities
    BY <1>2, RequestType
  <2>2. pending[q][k] \in Item \cup {NoItem}
    OBVIOUS
  <2> QED BY <2>1, <2>2, AddedItemType
<1>3. InPending(q, j)' <=> InPending(q, j) \/ (j = k /\ q \in DOMAIN reqs)
  <2>1. CASE q \in DOMAIN reqs /\ j = k
    BY <2>1, <1>1, <1>2 DEF InPending
  <2>2. CASE q \in DOMAIN reqs /\ j # k
    BY <2>2, <1>1 DEF InPending
  <2>3. CASE q \notin DOMAIN reqs
    BY <2>3 DEF InPending, AddKeyToQueues
  <2> QED BY <2>1, <2>2, <2>3
<1> QED BY <1>3 DEF AddKeyToQueues, InProcessing

LEMMA PopPendingEffect ==
  ASSUME TypeOK, NEW k \in Keys, PopPending(k), NEW j \in Keys, NEW q \in Queues
  PROVE  /\ InProcessing(q, j)' <=>
              InProcessing(q, j) \/ (j = k /\ q \in keyRelatedQueues[k])
         /\ InPending(q, j)' <=>
              InPending(q, j) /\ ~(j = k /\ q \in keyRelatedQueues[k])
         /\ keyRelatedQueues' = keyRelatedQueues
BY DEF TypeOK, PopPending, InProcessing, InPending

LEMMA PopProcessingEffect ==
  ASSUME TypeOK, NEW k \in Keys, PopProcessing(k), NEW j \in Keys, NEW q \in Queues
  PROVE  /\ InProcessing(q, j)' <=>
              InProcessing(q, j) /\ ~(j = k /\ q \in keyRelatedQueues[k])
         /\ InPending(q, j)' <=> InPending(q, j)
         /\ q \in keyRelatedQueues'[j] <=> q \in keyRelatedQueues[j] /\ j # k
BY DEF TypeOK, PopProcessing, InProcessing, InPending

-----------------------------------------------------------------------------
(* The relation never dangles, whatever the clients call.                  *)

LEMMA NextRelated ==
  TypeOK /\ RelatedKeysAreQueued /\ [ThrottlerNext]_throttlerVars
    => RelatedKeysAreQueued'
<1> SUFFICES ASSUME TypeOK, RelatedKeysAreQueued, [ThrottlerNext]_throttlerVars,
                    TypeOK', NEW j \in Keys, NEW q \in keyRelatedQueues'[j]
             PROVE  InPending(q, j)' \/ InProcessing(q, j)'
  BY NextTypeOK DEF RelatedKeysAreQueued, InPending, InProcessing
<1>0. q \in Queues
  BY DEF TypeOK
<1>1. ASSUME NEW r \in Queues, NEW w \in Windows, AddQueue(r, w)
      PROVE  InPending(q, j)' \/ InProcessing(q, j)'
  BY <1>1 DEF RelatedKeysAreQueued, AddQueue, InPending, InProcessing
<1>2. ASSUME NEW k \in Keys, NEW reqs \in Requests, NEW t \in Times,
             AddKeyToQueues(k, reqs, t)
      PROVE  InPending(q, j)' \/ InProcessing(q, j)'
  BY <1>0, <1>2, AddKeyEffect DEF RelatedKeysAreQueued
<1>3. ASSUME NEW k \in Keys, PopPending(k)
      PROVE  InPending(q, j)' \/ InProcessing(q, j)'
  BY <1>0, <1>3, PopPendingEffect DEF RelatedKeysAreQueued
<1>4. ASSUME NEW k \in Keys, PopProcessing(k)
      PROVE  InPending(q, j)' \/ InProcessing(q, j)'
  BY <1>0, <1>4, PopProcessingEffect DEF RelatedKeysAreQueued
<1>5. CASE UNCHANGED throttlerVars
  BY <1>5 DEF RelatedKeysAreQueued, throttlerVars, InPending, InProcessing
<1> QED BY <1>1, <1>2, <1>3, <1>4, <1>5 DEF ThrottlerNext

(* A queue related to a key holds it, for any client: AddKeyToQueues,      *)
(* PopPending and PopProcessing never leave an entry of keyRelatedQueues   *)
(* that nothing in the queue answers to.                                   *)
THEOREM RelationNeverDangles == ThrottlerSpec => []RelatedKeysAreQueued
<1>1. ThrottlerInit => RelatedKeysAreQueued
  BY DEF ThrottlerInit, RelatedKeysAreQueued
<1> QED BY <1>1, NextRelated, ThrottlerTypeCorrect, PTL DEF ThrottlerSpec

-----------------------------------------------------------------------------
(* The disciplined client.                                                 *)

LEMMA DisciplinedStep == DisciplinedNext => ThrottlerNext
BY DEF DisciplinedNext, ThrottlerNext

LEMMA DisciplinedAccounting ==
  TypeOK /\ SlotAccounting /\ [DisciplinedNext]_throttlerVars => SlotAccounting'
<1> SUFFICES ASSUME TypeOK, SlotAccounting, [DisciplinedNext]_throttlerVars
             PROVE  SlotAccounting'
  OBVIOUS
<1>0. TypeOK' /\ RelatedKeysAreQueued'
  BY NextTypeOK, NextRelated, DisciplinedStep DEF SlotAccounting
<1>d. QueuedKeysAreRelated /\ KeyOncePerQueue /\ AllOrNothing /\ RelatedKeysAreQueued
  BY DEF SlotAccounting
<1> SUFFICES QueuedKeysAreRelated' /\ KeyOncePerQueue' /\ AllOrNothing'
  BY <1>0 DEF SlotAccounting
<1>1. ASSUME NEW r \in Queues, NEW w \in Windows, AddQueue(r, w)
      PROVE  QueuedKeysAreRelated' /\ KeyOncePerQueue' /\ AllOrNothing'
  BY <1>d, <1>1 DEF AddQueue, QueuedKeysAreRelated, KeyOncePerQueue, AllOrNothing,
                    InPending, InProcessing
<1>2. ASSUME NEW k \in Keys, NEW reqs \in Requests, NEW t \in Times,
             ~InAnyProcessing(k), AddKeyToQueues(k, reqs, t)
      PROVE  QueuedKeysAreRelated' /\ KeyOncePerQueue' /\ AllOrNothing'
  <2>1. QueuedKeysAreRelated'
    BY <1>d, <1>2, AddKeyEffect DEF QueuedKeysAreRelated, InPending, InProcessing
  <2>2. KeyOncePerQueue'
    BY <1>d, <1>2, AddKeyEffect
       DEF KeyOncePerQueue, InAnyProcessing, InPending, InProcessing
  <2>3. AllOrNothing'
    <3> SUFFICES ASSUME NEW j \in Keys
                 PROVE  \/ \A q \in keyRelatedQueues'[j] : ~InProcessing(q, j)'
                        \/ \A q \in keyRelatedQueues'[j] : InProcessing(q, j)'
      BY DEF AllOrNothing, InProcessing
    <3>0. keyRelatedQueues'[j] \subseteq Queues
      BY <1>0 DEF TypeOK
    <3>1. CASE j = k
      BY <3>0, <3>1, <1>2, AddKeyEffect DEF InAnyProcessing
    <3>2. CASE j # k
      BY <3>0, <3>2, <1>d, <1>2, AddKeyEffect DEF AllOrNothing
    <3> QED BY <3>1, <3>2
  <2> QED BY <2>1, <2>2, <2>3
<1>3. ASSUME NEW k \in Keys, PopPending(k)
      PROVE  QueuedKeysAreRelated' /\ KeyOncePerQueue' /\ AllOrNothing'
  <2>1. QueuedKeysAreRelated'
    BY <1>d, <1>3, PopPendingEffect DEF QueuedKeysAreRelated, InPending, InProcessing
  <2>2. KeyOncePerQueue'
    BY <1>d, <1>3, PopPendingEffect DEF KeyOncePerQueue, InPending, InProcessing
  <2>3. AllOrNothing'
    <3> SUFFICES ASSUME NEW j \in Keys
                 PROVE  \/ \A q \in keyRelatedQueues'[j] : ~InProcessing(q, j)'
                        \/ \A q \in keyRelatedQueues'[j] : InProcessing(q, j)'
      BY DEF AllOrNothing, InProcessing
    <3>0. keyRelatedQueues'[j] \subseteq Queues
      BY <1>0 DEF TypeOK
    <3> QED BY <3>0, <1>d, <1>3, PopPendingEffect DEF AllOrNothing
  <2> QED BY <2>1, <2>2, <2>3
<1>4. ASSUME NEW k \in Keys, PopProcessing(k)
      PROVE  QueuedKeysAreRelated' /\ KeyOncePerQueue' /\ AllOrNothing'
  <2>0. \A q \in keyRelatedQueues[k] : InProcessing(q, k)
    BY <1>4 DEF PopProcessing, PopProcessingSucceeds, CanPopProcessing
  <2>1. QueuedKeysAreRelated'
    <3> SUFFICES ASSUME NEW j \in Keys, NEW q \in Queues,
                        InPending(q, j)' \/ InProcessing(q, j)'
                 PROVE  q \in keyRelatedQueues'[j]
      BY DEF QueuedKeysAreRelated, InPending, InProcessing
    <3>1. InPending(q, j) \/ InProcessing(q, j)
      BY <1>4, PopProcessingEffect
    <3>2. j # k
      BY <3>1, <2>0, <1>d, <1>4, PopProcessingEffect
         DEF QueuedKeysAreRelated, KeyOncePerQueue
    <3> QED BY <3>1, <3>2, <1>d, <1>4, PopProcessingEffect DEF QueuedKeysAreRelated
  <2>2. KeyOncePerQueue'
    BY <1>d, <1>4, PopProcessingEffect DEF KeyOncePerQueue, InPending, InProcessing
  <2>3. AllOrNothing'
    <3> SUFFICES ASSUME NEW j \in Keys
                 PROVE  \/ \A q \in keyRelatedQueues'[j] : ~InProcessing(q, j)'
                        \/ \A q \in keyRelatedQueues'[j] : InProcessing(q, j)'
      BY DEF AllOrNothing, InProcessing
    <3>0. keyRelatedQueues'[j] \subseteq Queues
      BY <1>0 DEF TypeOK
    <3> QED BY <3>0, <1>d, <1>4, PopProcessingEffect DEF AllOrNothing
  <2> QED BY <2>1, <2>2, <2>3
<1>5. CASE UNCHANGED throttlerVars
  BY <1>d, <1>5 DEF throttlerVars, QueuedKeysAreRelated, KeyOncePerQueue,
                    AllOrNothing, InPending, InProcessing
<1> QED BY <1>1, <1>2, <1>3, <1>4, <1>5 DEF DisciplinedNext

(* With a client that does not insert a key again while it is processed,   *)
(* the queues and keyRelatedQueues agree exactly, a key is once in each of *)
(* its queues, and it is admitted by all of them or by none.               *)
THEOREM DisciplinedClientAccounting == DisciplinedSpec => []SlotAccounting
<1>1. ThrottlerInit => TypeOK /\ SlotAccounting
  BY InitTypeOK
     DEF ThrottlerInit, SlotAccounting, RelatedKeysAreQueued, QueuedKeysAreRelated,
         KeyOncePerQueue, AllOrNothing, InPending, InProcessing
<1>2. TypeOK /\ [DisciplinedNext]_throttlerVars => TypeOK'
  BY NextTypeOK, DisciplinedStep
<1> QED BY <1>1, <1>2, DisciplinedAccounting, PTL DEF DisciplinedSpec

(* For such a client a key that a queue holds can be popped from it: no    *)
(* AddKeyToQueues or PopProcessing leaves a key behind that                *)
(* keyRelatedQueues has forgotten and that would block the queue for ever. *)
THEOREM NoKeyIsForgotten == DisciplinedSpec => []QueuedKeysAreRelated
<1>1. SlotAccounting => QueuedKeysAreRelated
  BY DEF SlotAccounting
<1> QED BY <1>1, DisciplinedClientAccounting, PTL

(* It is never both waiting for a place of a queue and holding one: a      *)
(* repeated AddKeyToQueues before it is popped changes the item it has.    *)
THEOREM KeyIsOnceInAQueue == DisciplinedSpec => []KeyOncePerQueue
<1>1. SlotAccounting => KeyOncePerQueue
  BY DEF SlotAccounting
<1> QED BY <1>1, DisciplinedClientAccounting, PTL

(* And it holds a place in all of its queues or in none of them: the dry   *)
(* run of PopPending over all queues comes before the first real pop.      *)
THEOREM PopIsAllOrNothing == DisciplinedSpec => []AllOrNothing
<1>1. SlotAccounting => AllOrNothing
  BY DEF SlotAccounting
<1> QED BY <1>1, DisciplinedClientAccounting, PTL

-----------------------------------------------------------------------------
(* Admission.                                                              *)

(* Only PopPending admits a key, and it admits one key.                    *)
LEMMA OnlyPopPendingAdmits ==
  ASSUME TypeOK, ThrottlerNext, NEW q \in Queues,
         ~(processing'[q] \subseteq processing[q])
  PROVE  \E k \in Keys : /\ PopPending(k)
                         /\ q \in keyRelatedQueues[k]
                         /\ processing'[q] = processing[q] \cup {k}
<1>1. ASSUME NEW k \in Keys, PopPending(k)
      PROVE  q \in keyRelatedQueues[k] /\ processing'[q] = processing[q] \cup {k}
  BY <1>1 DEF TypeOK, PopPending
<1>2. ASSUME NEW k \in Keys, PopProcessing(k)
      PROVE  FALSE
  BY <1>2 DEF TypeOK, PopProcessing
<1>3. ~(\E r \in Queues, w \in Windows : AddQueue(r, w))
  BY DEF AddQueue
<1>4. ~(\E k \in Keys, reqs \in Requests, t \in Times : AddKeyToQueues(k, reqs, t))
  BY DEF AddKeyToQueues
<1> QED BY <1>1, <1>2, <1>3, <1>4 DEF ThrottlerNext

LEMMA AdmissionStep ==
  ASSUME TypeOK, ThrottlerNext, NEW q \in Queues, ~(processing'[q] \subseteq processing[q])
  PROVE  Cardinality(processing'[q]) <= processingWindow'[q]
<1>1. PICK k \in Keys : /\ PopPending(k)
                        /\ q \in keyRelatedQueues[k]
                        /\ processing'[q] = processing[q] \cup {k}
  BY OnlyPopPendingAdmits
<1>2. Cardinality(processing[q]) < processingWindow[q]
  BY <1>1 DEF PopPending, PopPendingSucceeds, CanPopPending, HasRoom
<1>3. processingWindow' = processingWindow /\ processingWindow[q] \in Int
  BY <1>1 DEF PopPending, TypeOK
<1>4. IsFiniteSet(processing[q])
  BY ThrottlerAssumption, FS_Subset DEF TypeOK
<1>5. /\ Cardinality(processing[q]) \in Nat
      /\ \/ Cardinality(processing'[q]) = Cardinality(processing[q])
         \/ Cardinality(processing'[q]) = Cardinality(processing[q]) + 1
  BY <1>1, <1>4, FS_CardinalityType, FS_AddElement
<1> QED BY <1>2, <1>3, <1>5

(* An admission never takes a queue over its window, for any client.       *)
THEOREM WindowRespected == ThrottlerSpec => AdmissionWithinWindow
<1>1. TypeOK /\ [ThrottlerNext]_throttlerVars =>
        [\A q \in Queues : ~(processing'[q] \subseteq processing[q]) =>
           Cardinality(processing'[q]) <= processingWindow'[q]]_throttlerVars
  BY AdmissionStep
<1> QED BY <1>1, ThrottlerTypeCorrect, PTL DEF ThrottlerSpec, AdmissionWithinWindow

(* A key is admitted in priority order in each of its queues, and by all   *)
(* of them in one step, for any client.                                    *)
THEOREM PriorityRespected == ThrottlerSpec => AdmissionInOrder
<1>1. ASSUME TypeOK, ThrottlerNext, NEW k \in Keys, NEW q \in Queues,
             k \in processing'[q] \ processing[q]
      PROVE  /\ \A j \in Keys : pending'[q][j] # NoItem =>
                  ~Less(pending'[q][j], pending[q][k])
             /\ \A r \in keyRelatedQueues[k] : k \in processing'[r]
  <2>1. /\ PopPending(k)
        /\ q \in keyRelatedQueues[k]
    BY <1>1, OnlyPopPendingAdmits
  <2>2. IsPeek(q, k)
    BY <2>1 DEF PopPending, PopPendingSucceeds, CanPopPending
  <2>3. \A j \in Keys : pending'[q][j] # NoItem => pending'[q][j] = pending[q][j]
    BY <1>1, <2>1 DEF TypeOK, PopPending
  <2>4. \A r \in keyRelatedQueues[k] : k \in processing'[r]
    BY <1>1, <2>1 DEF TypeOK, PopPending
  <2> QED BY <2>2, <2>3, <2>4 DEF IsPeek, PendingKeys, InPending
<1>2. TypeOK /\ [ThrottlerNext]_throttlerVars =>
        [\A k \in Keys : \A q \in Queues :
           k \in processing'[q] \ processing[q] =>
             /\ \A j \in Keys : pending'[q][j] # NoItem =>
                  ~Less(pending'[q][j], pending[q][k])
             /\ \A r \in keyRelatedQueues[k] : k \in processing'[r]]_throttlerVars
  BY <1>1
<1> QED BY <1>2, ThrottlerTypeCorrect, PTL DEF ThrottlerSpec, AdmissionInOrder
=============================================================================
