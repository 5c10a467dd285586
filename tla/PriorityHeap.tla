---------------------------- MODULE PriorityHeap ----------------------------
(* The array of priorityqueue.PriorityQueue.  Removing goes through Go's   *)
(* container/heap, adding ends with sort.Sort: the array is a heap, and    *)
(* sorted only just after an addition.  The order of items is a relation:  *)
(* <<a, b>> \in less when a is to be popped before b.                      *)
EXTENDS Integers, Sequences, SequencesExt, FiniteSets

Swap(s, i, j) == [s EXCEPT ![i] = s[j], ![j] = s[i]]

(* heap.down: the item at place i of the first n sinks.                    *)
DownStep(less, n, st) ==
  LET left == 2 * st.i
      child == IF left + 1 <= n /\ <<st.s[left + 1], st.s[left]>> \in less
               THEN left + 1 ELSE left
  IN IF left <= n /\ <<st.s[child], st.s[st.i]>> \in less
     THEN [s |-> Swap(st.s, st.i, child), i |-> child] ELSE st

Down(less, s, i, n) ==
  LET round[k \in 0 .. n] ==
        IF k = 0 THEN [s |-> s, i |-> i] ELSE DownStep(less, n, round[k - 1])
  IN round[n]

(* heap.up: the item at place i rises.                                     *)
UpStep(less, st) ==
  LET parent == st.i \div 2
  IN IF parent > 0 /\ <<st.s[st.i], st.s[parent]>> \in less
     THEN [s |-> Swap(st.s, st.i, parent), i |-> parent] ELSE st

Up(less, s, i) ==
  LET round[k \in 0 .. i] ==
        IF k = 0 THEN [s |-> s, i |-> i] ELSE UpStep(less, round[k - 1])
  IN round[i]

(* heap.Remove: the last item takes the place of the removed one and is    *)
(* moved down, or else up.                                                 *)
HeapRemove(less, s, i) ==
  LET n == Len(s) - 1
      moved == Front(Swap(s, i, Len(s)))
      down == Down(less, moved, i, n)
  IN IF i > n THEN moved
     ELSE IF down.i > i THEN down.s ELSE Up(less, moved, i).s

(* PriorityQueue.Remove: the item of a key that is there.                  *)
Removed(less, s, key) ==
  IF key \in ToSet(s) THEN HeapRemove(less, s, CHOOSE i \in DOMAIN s : s[i] = key) ELSE s

(* PriorityQueue.Add: sort.Sort at the end.                                *)
Sorted(less, keys) ==
  CHOOSE s \in [1 .. Cardinality(keys) -> keys] :
    \A i, j \in DOMAIN s : i < j => <<s[i], s[j]>> \in less

(* The root of the heap precedes every other item, and so on downwards.    *)
IsHeap(less, s) ==
  \A i \in DOMAIN s : i > 1 => <<s[i], s[i \div 2]>> \notin less
=============================================================================
