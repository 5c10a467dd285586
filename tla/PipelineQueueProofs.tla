------------------------ MODULE PipelineQueueProofs ------------------------
(***************************************************************************)
(* Proofs about a queue of the queue manager and the goroutines around it, *)
(* for any number of pipelines, errors and requests.                       *)
(***************************************************************************)
EXTENDS PipelineQueue, TLAPS, FiniteSetTheorems, SequenceTheorems, WellFoundedInduction

-----------------------------------------------------------------------------
(* Repeating a step.                                                       *)

LEMMA Upwards ==
  ASSUME NEW n \in Nat, NEW B, 0 \in B, \A k \in 1 .. n : k - 1 \in B => k \in B
  PROVE  0 .. n \subseteq B
<1> DEFINE T == (0 .. n) \ B
<1> SUFFICES ASSUME T # {} PROVE FALSE
  OBVIOUS
<1>1. T \subseteq Nat
  OBVIOUS
<1>2. PICK m \in T : \A l \in T : <<l, m>> \notin OpToRel(<, Nat)
  BY <1>1, Zenon, NatLessThanWellFounded, WFMin
<1>3. \A l \in T : l \in Nat /\ m \in Nat => ~(l < m)
  BY <1>2, Zenon DEF OpToRel
<1>4. m \in 0 .. n /\ m \notin B
  BY <1>2
<1>5. m # 0
  BY <1>4
<1>6. m \in 1 .. n /\ m - 1 \in 0 .. n /\ m - 1 < m
  BY <1>4, <1>5
<1>7. m - 1 \in B
  BY <1>3, <1>6
<1> QED BY <1>4, <1>6, <1>7

(* f repeats step n times, from a.                                         *)
Repeats(f, n, S, a, step) ==
  f \in [0 .. n -> S] /\ f[0] = a /\ \A k \in 1 .. n : f[k] = step[f[k - 1]]

LEMMA Iterates ==
  ASSUME NEW n \in Nat, NEW S, NEW a \in S, NEW step \in [S -> S]
  PROVE  \E f : Repeats(f, n, S, a, step)
<1> DEFINE Runs(m, f) == f[0] = a /\ \A k \in 1 .. m : f[k] = step[f[k - 1]]
           B == {m \in 0 .. n : \E f \in [0 .. m -> S] : Runs(m, f)}
<1>1. 0 \in B
  <2> DEFINE f == [k \in 0 .. 0 |-> a]
  <2>1. f \in [0 .. 0 -> S] /\ Runs(0, f)
    OBVIOUS
  <2>2. 0 \in 0 .. n
    OBVIOUS
  <2> HIDE DEF f, Runs
  <2> QED BY <2>1, <2>2
<1>2. ASSUME NEW m \in 1 .. n, m - 1 \in B PROVE m \in B
  <2>1. PICK f \in [0 .. m - 1 -> S] : Runs(m - 1, f)
    BY <1>2
  <2> DEFINE g == [k \in 0 .. m |-> IF k = m THEN step[f[m - 1]] ELSE f[k]]
  <2>2. m - 1 \in 0 .. m - 1 /\ \A k \in 0 .. m : k # m => k \in 0 .. m - 1
    OBVIOUS
  <2>3. g \in [0 .. m -> S]
    BY <2>2
  <2>4. g[0] = a
    BY <2>1
  <2>5. ASSUME NEW k \in 1 .. m PROVE g[k] = step[g[k - 1]]
    <3>1. k - 1 \in 0 .. m /\ k - 1 # m /\ k \in 0 .. m
      OBVIOUS
    <3>2. g[k - 1] = f[k - 1]
      BY <3>1
    <3>3. CASE k = m
      BY <3>1, <3>2, <3>3
    <3>4. CASE k # m
      <4>1. k \in 1 .. m - 1
        BY <3>4
      <4> QED BY <4>1, <3>1, <3>2, <3>4, <2>1
    <3> QED BY <3>3, <3>4
  <2> HIDE DEF g
  <2>6. Runs(m, g)
    BY <2>4, <2>5
  <2> HIDE DEF Runs
  <2> QED BY <2>3, <2>6
<1>3. n \in B
  <2> HIDE DEF B
  <2>1. 0 .. n \subseteq B
    BY <1>1, <1>2, Upwards
  <2> QED BY <2>1
<1> QED BY <1>3 DEF Repeats

(* A step that makes something grow, below a bound, comes to rest.         *)
LEMMA Settles ==
  ASSUME NEW n \in Nat, NEW S, NEW a \in S, NEW step \in [S -> S], NEW size \in [S -> Nat],
         \A st \in S : size[st] < n /\ (step[st] = st \/ size[st] < size[step[st]])
  PROVE  \E f : Repeats(f, n, S, a, step) /\ step[f[n]] = f[n]
<1>0. PICK f : Repeats(f, n, S, a, step)
  BY Iterates
<1>1. /\ f \in [0 .. n -> S] /\ f[0] = a
      /\ \A k \in 1 .. n : f[k] = step[f[k - 1]]
  BY <1>0 DEF Repeats
<1> DEFINE B == {k \in 0 .. n : step[f[k]] = f[k] \/ size[f[k]] >= k}
<1>3. 0 \in B
  <2>1. size[f[0]] \in Nat
    BY <1>1
  <2> QED BY <2>1
<1>4. ASSUME NEW k \in 1 .. n, k - 1 \in B PROVE k \in B
  <2>1. k - 1 \in 0 .. n /\ f[k - 1] \in S /\ f[k] \in S /\ f[k] = step[f[k - 1]]
    <3>1. k - 1 \in 0 .. n /\ k \in 0 .. n
      OBVIOUS
    <3> QED BY <1>1, <3>1
  <2>2. CASE step[f[k - 1]] = f[k - 1]
    BY <2>1, <2>2
  <2>3. CASE step[f[k - 1]] # f[k - 1]
    <3>1. size[f[k - 1]] \in Nat /\ size[f[k]] \in Nat /\ size[f[k - 1]] < size[f[k]]
      BY <2>1, <2>3
    <3>2. size[f[k - 1]] >= k - 1
      BY <1>4, <2>3
    <3>3. size[f[k]] >= k
      BY <3>1, <3>2
    <3> QED BY <3>3
  <2> QED BY <2>2, <2>3
<1>5. n \in B
  <2> HIDE DEF B
  <2>1. 0 .. n \subseteq B
    BY <1>3, <1>4, Upwards
  <2> QED BY <2>1
<1>6. f[n] \in S /\ size[f[n]] \in Nat /\ size[f[n]] < n
  BY <1>1
<1>7. step[f[n]] = f[n]
  BY <1>5, <1>6
<1> QED BY <1>0, <1>7

LEMMA Halves ==
  ASSUME NEW j \in Nat, j > 1
  PROVE  /\ j \div 2 \in Nat /\ 1 <= j \div 2 /\ j \div 2 < j
         /\ j = 2 * (j \div 2) \/ j = 2 * (j \div 2) + 1
OBVIOUS

(* Sequences that hold each key of a set once.                             *)
Holds(s, n, A) ==
  /\ s \in [1 .. n -> A]
  /\ \A i, j \in 1 .. n : s[i] = s[j] => i = j
  /\ \A a \in A : \E i \in 1 .. n : s[i] = a

LEMMA SwapFacts ==
  ASSUME NEW n \in Nat, NEW A, NEW s, Holds(s, n, A), NEW i \in 1 .. n, NEW j \in 1 .. n
  PROVE  /\ Holds(Swap(s, i, j), n, A)
         /\ Swap(s, i, j)[i] = s[j] /\ Swap(s, i, j)[j] = s[i]
         /\ \A k \in 1 .. n : k # i /\ k # j => Swap(s, i, j)[k] = s[k]
<1> DEFINE t == Swap(s, i, j)
<1>1. s \in [1 .. n -> A]
  BY DEF Holds
<1>2. /\ t \in [1 .. n -> A] /\ t[i] = s[j] /\ t[j] = s[i]
      /\ \A k \in 1 .. n : k # i /\ k # j => t[k] = s[k]
  BY <1>1 DEF Swap
<1> HIDE DEF t
<1>3. ASSUME NEW k \in 1 .. n, NEW l \in 1 .. n, t[k] = t[l] PROVE k = l
  <2> DEFINE from(m) == IF m = i THEN j ELSE IF m = j THEN i ELSE m
  <2>1. /\ from(k) \in 1 .. n /\ t[k] = s[from(k)]
        /\ from(l) \in 1 .. n /\ t[l] = s[from(l)]
    BY <1>2
  <2>2. from(k) = from(l)
    BY <1>3, <2>1 DEF Holds
  <2> QED BY <2>2
<1>4. ASSUME NEW a \in A PROVE \E k \in 1 .. n : t[k] = a
  <2>1. PICK k \in 1 .. n : s[k] = a
    BY DEF Holds
  <2> QED BY <1>2, <2>1
<1> QED BY <1>2, <1>3, <1>4 DEF Holds, t

(* less is a strict total order.                                           *)
Orders(less, A) ==
  /\ \A a \in A : <<a, a>> \notin less
  /\ \A a, b, c \in A : <<a, b>> \in less /\ <<b, c>> \in less => <<a, c>> \in less
  /\ \A a, b \in A : a # b => <<a, b>> \in less \/ <<b, a>> \in less

LEMMA NotLess ==
  ASSUME NEW less, NEW A, Orders(less, A), NEW a \in A, NEW b \in A, NEW c \in A
  PROVE  /\ <<a, b>> \in less => <<b, a>> \notin less
         /\ <<a, b>> \notin less /\ <<b, c>> \notin less => <<a, c>> \notin less
BY DEF Orders

-----------------------------------------------------------------------------
(* heap.down.                                                              *)

(* A heap but for the children of place i, and for place i itself as long  *)
(* as nothing has sunk from it.                                            *)
Sinks(less, n, start, st) ==
  /\ st.i >= start
  /\ \A j \in 2 .. n :
       j \div 2 # st.i => <<st.s[j], st.s[j \div 2]>> \notin less \/ (j = start /\ st.i = start)
  /\ st.i > 1 =>
       \A j \in 2 .. n : j \div 2 = st.i => <<st.s[j], st.s[st.i \div 2]>> \notin less

States(n, A) == [s : {s \in [1 .. n -> A] : Holds(s, n, A)}, i : 1 .. n]

LEMMA DownStepFacts ==
  ASSUME NEW n \in Nat, NEW A, NEW less, Orders(less, A), NEW start \in 1 .. n,
         NEW st \in States(n, A), Sinks(less, n, start, st)
  PROVE  LET next == DownStep(less, n, st)
         IN /\ next \in States(n, A) /\ Sinks(less, n, start, next)
            /\ next = st \/ next.i > st.i
            /\ next = st => \A j \in 2 .. n : j \div 2 = st.i => <<st.s[j], st.s[st.i]>> \notin less
<1> DEFINE s == st.s
           i == st.i
           left == 2 * i
           child == IF left + 1 <= n /\ <<s[left + 1], s[left]>> \in less THEN left + 1 ELSE left
           moves == left <= n /\ <<s[child], s[i]>> \in less
           next == DownStep(less, n, st)
<1>1. i \in 1 .. n /\ Holds(s, n, A) /\ s \in [1 .. n -> A] /\ st = [s |-> s, i |-> i]
  BY DEF States
<1>2. next = IF moves THEN [s |-> Swap(s, i, child), i |-> child] ELSE st
  BY DEF DownStep
<1> HIDE DEF next
<1>3. left \in Nat /\ child \in Nat /\ child > i /\ (child = left \/ child = left + 1)
      /\ (left <= n => child \in 1 .. n /\ left \in 1 .. n)
      /\ (child = left + 1 => left + 1 <= n /\ <<s[left + 1], s[left]>> \in less)
      /\ (child = left /\ left + 1 <= n => <<s[left + 1], s[left]>> \notin less)
  BY <1>1
<1> HIDE DEF child
<1>4. \A j \in 2 .. n : /\ j \div 2 \in 1 .. n /\ j \div 2 < j
                        /\ j = 2 * (j \div 2) \/ j = 2 * (j \div 2) + 1
  <2>1. ASSUME NEW j \in 2 .. n
        PROVE /\ j \div 2 \in 1 .. n /\ j \div 2 < j
              /\ j = 2 * (j \div 2) \/ j = 2 * (j \div 2) + 1
    <3>1. j \in Nat /\ j > 1 /\ j <= n
      OBVIOUS
    <3> QED BY <3>1, Halves
  <2> QED BY <2>1
<1>5. \A j \in 2 .. n : j \div 2 = i <=> (j = left \/ j = left + 1)
  BY <1>1, <1>4
<1>6. \A a, b, c \in A :
        /\ <<a, b>> \in less => <<b, a>> \notin less
        /\ <<a, b>> \notin less /\ <<b, c>> \notin less => <<a, c>> \notin less
        /\ <<a, a>> \notin less
  BY NotLess DEF Orders
<1>7. ASSUME left <= n, NEW j \in 2 .. n, j \div 2 = i PROVE <<s[j], s[child]>> \notin less
  <2>1. j = left \/ (j = left + 1 /\ left + 1 <= n)
    BY <1>5, <1>7
  <2>2. s[j] \in A /\ s[left] \in A
    BY <1>1, <1>3, <1>7
  <2>3. CASE j = child
    BY <2>2, <2>3, <1>6
  <2>4. CASE j # child /\ child = left + 1
    BY <2>1, <2>2, <2>4, <1>6, <1>3, <1>7, <1>1
  <2>5. CASE j # child /\ child = left
    BY <2>1, <2>2, <2>5, <1>6, <1>3, <1>7
  <2> QED BY <1>3, <2>3, <2>4, <2>5
<1>8. CASE ~moves
  <2>1. next = st
    BY <1>2, <1>8
  <2>2. ASSUME NEW j \in 2 .. n, j \div 2 = i PROVE <<s[j], s[i]>> \notin less
    <3>1. left <= n
      BY <1>5, <2>2
    <3>2. s[j] \in A /\ s[child] \in A /\ s[i] \in A
      BY <1>1, <1>3, <3>1
    <3>3. <<s[child], s[i]>> \notin less
      BY <1>8, <3>1
    <3>4. <<s[j], s[child]>> \notin less
      BY <1>7, <2>2, <3>1
    <3> QED BY <3>2, <3>3, <3>4, <1>6
  <2>3. \A j \in 2 .. n : j \div 2 = st.i => <<st.s[j], st.s[st.i]>> \notin less
    BY <2>2
  <2> QED BY <2>1, <2>3 DEF next
<1>9. CASE moves
  <2> DEFINE t == Swap(s, i, child)
  <2>1. next = [s |-> t, i |-> child] /\ child \in 1 .. n /\ child # i
    BY <1>2, <1>3, <1>9
  <2>2. /\ Holds(t, n, A) /\ t[i] = s[child] /\ t[child] = s[i]
        /\ \A k \in 1 .. n : k # i /\ k # child => t[k] = s[k]
    <3>1. Holds(s, n, A) /\ i \in 1 .. n /\ child \in 1 .. n
      BY <1>1, <2>1
    <3> HIDE DEF s, i, left
    <3> QED BY <3>1, SwapFacts
  <2> HIDE DEF t
  <2>3. t \in [1 .. n -> A] /\ next.s = t /\ next.i = child
    BY <2>1, <2>2 DEF Holds
  <2>4. next \in States(n, A)
    BY <2>1, <2>2, <2>3 DEF States
  <2>5. start \in Nat /\ i >= start /\ child > start
    BY <1>1, <1>3 DEF Sinks
  <2>6. child \in 2 .. n /\ child \div 2 = i
    <3>1. child \in 2 .. n
      BY <1>1, <1>3, <2>1
    <3> QED BY <3>1, <1>3, <1>5
  <2>7. ASSUME NEW j \in 2 .. n, j \div 2 # child
        PROVE  <<t[j], t[j \div 2]>> \notin less
    <3>1. j \div 2 \in 1 .. n /\ j \div 2 < j /\ j \in 1 .. n
      BY <1>4
    <3>2. s[j] \in A /\ s[j \div 2] \in A /\ s[i] \in A /\ s[child] \in A
      BY <1>1, <3>1, <2>1
    <3>3. CASE j \div 2 = i
      <4>1. CASE j = child
        BY <4>1, <3>2, <3>3, <2>2, <1>6, <1>9
      <4>2. CASE j # child
        <5>1. t[j] = s[j] /\ t[j \div 2] = s[child]
          BY <4>2, <3>1, <3>3, <2>2
        <5>2. <<s[j], s[child]>> \notin less
          BY <1>7, <1>9, <3>3
        <5> QED BY <5>1, <5>2
      <4> QED BY <4>1, <4>2
    <3>4. CASE j = i
      <4>1. t[j] = s[child] /\ t[j \div 2] = s[i \div 2]
        BY <3>1, <3>4, <2>2, <2>1, <1>3
      <4>2. i > 1
        BY <3>4
      <4>3. <<s[child], s[i \div 2]>> \notin less
        BY <2>6, <4>2 DEF Sinks
      <4> QED BY <4>1, <4>3
    <3>5. CASE j \div 2 # i /\ j # i
      <4>1. j # child
        BY <2>6, <3>5
      <4>2. t[j] = s[j] /\ t[j \div 2] = s[j \div 2]
        BY <4>1, <3>1, <3>5, <2>2, <2>7
      <4>3. <<s[j], s[j \div 2]>> \notin less
        BY <3>5 DEF Sinks
      <4> QED BY <4>2, <4>3
    <3> QED BY <3>3, <3>4, <3>5
  <2>8. ASSUME NEW j \in 2 .. n, j \div 2 = child
        PROVE  <<t[j], t[child \div 2]>> \notin less
    <3>1. j > child /\ j \in 1 .. n
      BY <1>4, <2>8
    <3>2. t[j] = s[j] /\ t[child \div 2] = s[child]
      <4>1. j # i /\ j # child
        BY <3>1, <1>1, <1>3, <2>1
      <4> QED BY <4>1, <3>1, <2>2, <2>6
    <3>3. <<s[j], s[j \div 2]>> \notin less
      BY <2>1, <2>5, <2>8, <3>1 DEF Sinks
    <3> QED BY <3>2, <3>3, <2>8
  <2>9. Sinks(less, n, start, next)
    BY <2>3, <2>5, <2>7, <2>8, <1>3, <2>1 DEF Sinks
  <2>10. next # st /\ next.i > st.i
    BY <2>3, <1>3, <1>1
  <2> QED BY <2>4, <2>9, <2>10 DEF next
<1> QED BY <1>8, <1>9

LEMMA DownFacts ==
  ASSUME NEW n \in Nat, NEW A, NEW less, Orders(less, A), NEW s, Holds(s, n, A),
         NEW i \in 1 .. n, Sinks(less, n, i, [s |-> s, i |-> i])
  PROVE  LET down == Down(less, s, i, n)
         IN /\ down \in States(n, A) /\ Sinks(less, n, i, down)
            /\ down.i = i => down.s = s
            /\ \A j \in 2 .. n : j \div 2 = down.i => <<down.s[j], down.s[down.i]>> \notin less
<1> DEFINE S == {st \in States(n, A) : Sinks(less, n, i, st) /\ (st.i = i => st.s = s)}
           a == [s |-> s, i |-> i]
           step == [st \in S |-> DownStep(less, n, st)]
           size == [st \in S |-> st.i - 1]
           Runs(f) == f = [k \in 0 .. n |-> IF k = 0 THEN a ELSE DownStep(less, n, f[k - 1])]
           round == CHOOSE f : Runs(f)
<1>1. a \in S
  BY DEF States, Holds
<1>2. \A st \in S : LET next == DownStep(less, n, st)
                   IN /\ next \in S
                      /\ next = st \/ next.i > st.i
                      /\ next = st => \A j \in 2 .. n :
                           j \div 2 = st.i => <<st.s[j], st.s[st.i]>> \notin less
  <2> SUFFICES ASSUME NEW st \in S
               PROVE  LET next == DownStep(less, n, st)
                      IN /\ next \in S
                         /\ next = st \/ next.i > st.i
                         /\ next = st => \A j \in 2 .. n :
                              j \div 2 = st.i => <<st.s[j], st.s[st.i]>> \notin less
    OBVIOUS
  <2> DEFINE next == DownStep(less, n, st)
  <2>1. /\ next \in States(n, A) /\ Sinks(less, n, i, next)
        /\ next = st \/ next.i > st.i
        /\ next = st => \A j \in 2 .. n : j \div 2 = st.i => <<st.s[j], st.s[st.i]>> \notin less
    BY DownStepFacts
  <2>2. st.i >= i /\ st.i \in 1 .. n /\ next.i \in 1 .. n
    BY <2>1 DEF States, Sinks
  <2> HIDE DEF next
  <2>3. next.i = i => next.s = s
    BY <2>1, <2>2
  <2> QED BY <2>1, <2>3 DEF next
<1>3. \A st \in S : st.i \in 1 .. n
  BY DEF States
<1> HIDE DEF S, a
<1>4. step \in [S -> S] /\ size \in [S -> Nat]
  <2>1. \A st \in S : DownStep(less, n, st) \in S /\ st.i - 1 \in Nat
    BY <1>2, <1>3
  <2> QED BY <2>1
<1>5. \A st \in S : size[st] < n /\ (step[st] = st \/ size[st] < size[step[st]])
  <2> SUFFICES ASSUME NEW st \in S
               PROVE  size[st] < n /\ (step[st] = st \/ size[st] < size[step[st]])
    OBVIOUS
  <2> DEFINE next == DownStep(less, n, st)
  <2>1. next \in S /\ (next = st \/ next.i > st.i) /\ step[st] = next
    BY <1>2
  <2> HIDE DEF next
  <2>2. size[st] = st.i - 1 /\ size[next] = next.i - 1 /\ st.i \in 1 .. n /\ next.i \in 1 .. n
    BY <1>3, <2>1
  <2> HIDE DEF step, size
  <2> QED BY <2>1, <2>2
<1> HIDE DEF size
<1>6. PICK f : Repeats(f, n, S, a, step) /\ step[f[n]] = f[n]
  <2> HIDE DEF step
  <2> QED BY <1>1, <1>4, <1>5, Settles
<1>7. /\ \A k \in 0 .. n : f[k] \in S
      /\ \A k \in 0 .. n : f[k] = IF k = 0 THEN a ELSE DownStep(less, n, f[k - 1])
  <2>1. \A k \in 0 .. n : f[k] \in S
    BY <1>6 DEF Repeats
  <2>2. ASSUME NEW k \in 1 .. n PROVE f[k] = DownStep(less, n, f[k - 1])
    <3>1. k - 1 \in 0 .. n
      OBVIOUS
    <3> QED BY <1>6, <2>1, <3>1 DEF Repeats
  <2>3. f[0] = a /\ \A k \in 0 .. n : k = 0 \/ k \in 1 .. n
    BY <1>6 DEF Repeats
  <2> HIDE DEF step
  <2> QED BY <2>1, <2>2, <2>3
<1>8. Runs(f)
  <2>1. f = [k \in 0 .. n |-> f[k]]
    BY <1>6 DEF Repeats
  <2> QED BY <2>1, <1>7
<1>9. Runs(round)
  <2> HIDE DEF Runs
  <2> QED BY <1>8
<1>10. round[n] = f[n]
  <2> DEFINE B == {k \in 0 .. n : round[k] = f[k]}
  <2>1. \A k \in 0 .. n : round[k] = IF k = 0 THEN a ELSE DownStep(less, n, round[k - 1])
    <3> HIDE DEF round
    <3> QED BY <1>9
  <2> HIDE DEF step, round
  <2>2. 0 \in B
    BY <1>7, <2>1
  <2>3. ASSUME NEW k \in 1 .. n, k - 1 \in B PROVE k \in B
    BY <1>7, <2>1, <2>3
  <2> HIDE DEF B
  <2>4. 0 .. n \subseteq B
    BY <2>2, <2>3, Upwards
  <2> QED BY <2>4 DEF B
<1>11. Down(less, s, i, n) = f[n]
  BY <1>10 DEF Down, a
<1>12. f[n] \in S /\ DownStep(less, n, f[n]) = f[n]
  BY <1>6, <1>7
<1> HIDE DEF step, round, Runs
<1>13. f[n] \in States(n, A) /\ Sinks(less, n, i, f[n]) /\ (f[n].i = i => f[n].s = s)
  BY <1>12 DEF S
<1> QED BY <1>2, <1>11, <1>12, <1>13

-----------------------------------------------------------------------------
(* heap.up.                                                                *)

(* A heap but for place i and its parent.                                  *)
Rises(less, n, st) ==
  /\ \A j \in 2 .. n : j # st.i => <<st.s[j], st.s[j \div 2]>> \notin less
  /\ st.i > 1 =>
       \A j \in 2 .. n : j \div 2 = st.i => <<st.s[j], st.s[st.i \div 2]>> \notin less

LEMMA UpStepFacts ==
  ASSUME NEW n \in Nat, NEW A, NEW less, Orders(less, A),
         NEW st \in States(n, A), Rises(less, n, st)
  PROVE  LET next == UpStep(less, st)
         IN /\ next \in States(n, A) /\ Rises(less, n, next)
            /\ next = st \/ next.i < st.i
            /\ next = st => IsHeap(less, st.s)
<1> DEFINE s == st.s
           i == st.i
           parent == i \div 2
           moves == parent > 0 /\ <<s[i], s[parent]>> \in less
           next == UpStep(less, st)
<1>1. i \in 1 .. n /\ Holds(s, n, A) /\ s \in [1 .. n -> A] /\ st = [s |-> s, i |-> i]
  BY DEF States
<1>2. next = IF moves THEN [s |-> Swap(s, i, parent), i |-> parent] ELSE st
  BY DEF UpStep
<1> HIDE DEF next
<1>3. \A j \in 2 .. n : j \div 2 \in 1 .. n /\ j \div 2 < j
  <2>1. ASSUME NEW j \in 2 .. n PROVE j \div 2 \in 1 .. n /\ j \div 2 < j
    <3>1. j \in Nat /\ j > 1 /\ j <= n
      OBVIOUS
    <3> QED BY <3>1, Halves
  <2> QED BY <2>1
<1>4. i = 1 => ~(parent > 0)
  OBVIOUS
<1>5. \A a, b, c \in A :
        /\ <<a, b>> \in less => <<b, a>> \notin less
        /\ <<a, b>> \notin less /\ <<b, c>> \notin less => <<a, c>> \notin less
        /\ <<a, a>> \notin less
  BY NotLess DEF Orders
<1>6. CASE ~moves
  <2>1. next = st
    BY <1>2, <1>6
  <2>2. ASSUME NEW j \in DOMAIN s, j > 1 PROVE <<s[j], s[j \div 2]>> \notin less
    <3>1. j \in 2 .. n
      BY <1>1, <2>2
    <3>2. CASE j = i
      BY <3>1, <3>2, <1>3, <1>6
    <3>3. CASE j # i
      BY <3>1, <3>3 DEF Rises
    <3> QED BY <3>2, <3>3
  <2>3. IsHeap(less, s)
    BY <2>2 DEF IsHeap
  <2> QED BY <2>1, <2>3 DEF next
<1>7. CASE moves
  <2> DEFINE t == Swap(s, i, parent)
  <2>1. i \in 2 .. n /\ parent \in 1 .. n /\ parent < i
    BY <1>1, <1>3, <1>4, <1>7
  <2>2. next = [s |-> t, i |-> parent] /\ <<s[i], s[parent]>> \in less
    BY <1>2, <1>7
  <2> HIDE DEF parent
  <2>3. /\ Holds(t, n, A) /\ t[i] = s[parent] /\ t[parent] = s[i]
        /\ \A k \in 1 .. n : k # i /\ k # parent => t[k] = s[k]
    <3>1. Holds(s, n, A) /\ i \in 1 .. n /\ parent \in 1 .. n
      BY <1>1, <2>1
    <3> HIDE DEF s, i
    <3> QED BY <3>1, SwapFacts
  <2> HIDE DEF t
  <2>4. t \in [1 .. n -> A] /\ next.s = t /\ next.i = parent
    BY <2>2, <2>3 DEF Holds
  <2>5. next \in States(n, A)
    BY <2>1, <2>2, <2>3, <2>4 DEF States
  <2>6. ASSUME NEW j \in 2 .. n PROVE j \in 1 .. n /\ s[j] \in A /\ s[j \div 2] \in A
    BY <1>1, <1>3
  <2>7. s[i] \in A /\ s[parent] \in A /\ i \div 2 = parent
    BY <1>1, <2>1 DEF parent
  <2>8. parent > 1 => /\ parent \in 2 .. n
                      /\ <<s[parent], s[parent \div 2]>> \notin less
                      /\ parent \div 2 \in 1 .. n /\ parent \div 2 < parent
    BY <2>1, <1>1, <1>3 DEF Rises
  <2>9. ASSUME NEW j \in 2 .. n, j # parent
        PROVE  <<t[j], t[j \div 2]>> \notin less
    <3>1. CASE j = i
      BY <3>1, <2>2, <2>3, <2>7, <1>5
    <3>2. CASE j # i
      <4>1. t[j] = s[j] /\ <<s[j], s[j \div 2]>> \notin less
        BY <3>2, <2>3, <2>6, <2>9 DEF Rises
      <4>2. CASE j \div 2 = parent
        <5>1. t[j \div 2] = s[i] /\ <<s[parent], s[i]>> \notin less
          BY <4>2, <2>2, <2>3, <2>7, <1>5
        <5>2. <<s[j], s[parent]>> \notin less /\ s[j] \in A /\ s[parent] \in A /\ s[i] \in A
          BY <4>1, <4>2, <2>6, <2>7
        <5>3. <<s[j], s[i]>> \notin less
          BY <5>1, <5>2, <1>5
        <5> QED BY <5>1, <5>3, <4>1
      <4>3. CASE j \div 2 = i
        <5>1. t[j \div 2] = s[parent] /\ i > 1
          BY <4>3, <2>1, <2>3
        <5>2. <<s[j], s[i \div 2]>> \notin less
          BY <4>3, <5>1 DEF Rises
        <5> QED BY <5>1, <5>2, <4>1, <2>7
      <4>4. CASE j \div 2 # parent /\ j \div 2 # i
        <5>1. t[j \div 2] = s[j \div 2]
          BY <4>4, <2>3, <1>3
        <5> QED BY <5>1, <4>1
      <4> QED BY <4>2, <4>3, <4>4
    <3> QED BY <3>1, <3>2
  <2>10. ASSUME parent > 1, NEW j \in 2 .. n, j \div 2 = parent
         PROVE  <<t[j], t[parent \div 2]>> \notin less
    <3>1. t[parent \div 2] = s[parent \div 2] /\ s[parent \div 2] \in A
      <4>1. parent \div 2 # i /\ parent \div 2 # parent
        BY <2>1, <2>8, <2>10
      <4> QED BY <4>1, <2>3, <2>8, <2>10, <1>1
    <3>2. <<s[parent], s[parent \div 2]>> \notin less
      BY <2>8, <2>10
    <3>3. CASE j = i
      BY <3>1, <3>2, <3>3, <2>3
    <3>4. CASE j # i
      <4>1. t[j] = s[j] /\ <<s[j], s[parent]>> \notin less
        <5>1. j # parent
          BY <1>3, <2>10
        <5> QED BY <5>1, <3>4, <2>3, <2>6, <2>10 DEF Rises
      <4> QED BY <4>1, <3>1, <3>2, <2>6, <2>7, <1>5
    <3> QED BY <3>3, <3>4
  <2>11. Rises(less, n, next)
    BY <2>4, <2>9, <2>10 DEF Rises
  <2>12. next # st /\ next.i < st.i
    BY <2>1, <2>4
  <2> QED BY <2>5, <2>11, <2>12 DEF next
<1> QED BY <1>6, <1>7

LEMMA UpFacts ==
  ASSUME NEW n \in Nat, NEW A, NEW less, Orders(less, A), NEW s, Holds(s, n, A),
         NEW i \in 1 .. n, Rises(less, n, [s |-> s, i |-> i])
  PROVE  LET up == Up(less, s, i)
         IN up \in States(n, A) /\ IsHeap(less, up.s)
<1> DEFINE S == {st \in States(n, A) : Rises(less, n, st) /\ st.i <= i}
           a == [s |-> s, i |-> i]
           step == [st \in S |-> UpStep(less, st)]
           size == [st \in S |-> i - st.i]
           Runs(f) == f = [k \in 0 .. i |-> IF k = 0 THEN a ELSE UpStep(less, f[k - 1])]
           round == CHOOSE f : Runs(f)
<1>1. a \in S
  BY DEF States, Holds
<1>2. \A st \in S : LET next == UpStep(less, st)
                   IN /\ next \in S
                      /\ next = st \/ next.i < st.i
                      /\ next = st => IsHeap(less, st.s)
  <2> SUFFICES ASSUME NEW st \in S
               PROVE  LET next == UpStep(less, st)
                      IN /\ next \in S
                         /\ next = st \/ next.i < st.i
                         /\ next = st => IsHeap(less, st.s)
    OBVIOUS
  <2> DEFINE next == UpStep(less, st)
  <2>1. /\ next \in States(n, A) /\ Rises(less, n, next)
        /\ next = st \/ next.i < st.i
        /\ next = st => IsHeap(less, st.s)
    BY UpStepFacts
  <2>2. st \in States(n, A) /\ st.i <= i /\ st.i \in 1 .. n /\ next.i \in 1 .. n
    BY <2>1 DEF States
  <2> HIDE DEF next
  <2>3. next.i <= i
    BY <2>1, <2>2
  <2> QED BY <2>1, <2>3 DEF next
<1>3. i \in Nat /\ \A st \in S : st.i \in 1 .. n /\ st.i <= i
  BY DEF States
<1> HIDE DEF S, a
<1>4. step \in [S -> S] /\ size \in [S -> Nat]
  <2>1. \A st \in S : UpStep(less, st) \in S /\ i - st.i \in Nat
    BY <1>2, <1>3
  <2> QED BY <2>1
<1>5. \A st \in S : size[st] < i /\ (step[st] = st \/ size[st] < size[step[st]])
  <2> SUFFICES ASSUME NEW st \in S
               PROVE  size[st] < i /\ (step[st] = st \/ size[st] < size[step[st]])
    OBVIOUS
  <2> DEFINE next == UpStep(less, st)
  <2>1. next \in S /\ (next = st \/ next.i < st.i) /\ step[st] = next
    BY <1>2
  <2> HIDE DEF next
  <2>2. size[st] = i - st.i /\ size[next] = i - next.i /\ st.i \in 1 .. n /\ next.i \in 1 .. n
        /\ st.i <= i /\ next.i <= i
    BY <1>3, <2>1
  <2> HIDE DEF step, size
  <2> QED BY <2>1, <2>2
<1> HIDE DEF size
<1>6. PICK f : Repeats(f, i, S, a, step) /\ step[f[i]] = f[i]
  <2> HIDE DEF step
  <2> QED BY <1>1, <1>3, <1>4, <1>5, Settles
<1>7. /\ \A k \in 0 .. i : f[k] \in S
      /\ \A k \in 0 .. i : f[k] = IF k = 0 THEN a ELSE UpStep(less, f[k - 1])
  <2>1. \A k \in 0 .. i : f[k] \in S
    BY <1>6 DEF Repeats
  <2>2. ASSUME NEW k \in 1 .. i PROVE f[k] = UpStep(less, f[k - 1])
    <3>1. k - 1 \in 0 .. i
      OBVIOUS
    <3> QED BY <1>6, <2>1, <3>1 DEF Repeats
  <2>3. f[0] = a /\ \A k \in 0 .. i : k = 0 \/ k \in 1 .. i
    BY <1>6 DEF Repeats
  <2> HIDE DEF step
  <2> QED BY <2>1, <2>2, <2>3
<1>8. Runs(f)
  <2>1. f = [k \in 0 .. i |-> f[k]]
    BY <1>6 DEF Repeats
  <2> QED BY <2>1, <1>7
<1>9. Runs(round)
  <2> HIDE DEF Runs
  <2> QED BY <1>8
<1>10. round[i] = f[i]
  <2> DEFINE B == {k \in 0 .. i : round[k] = f[k]}
  <2>1. \A k \in 0 .. i : round[k] = IF k = 0 THEN a ELSE UpStep(less, round[k - 1])
    <3> HIDE DEF round
    <3> QED BY <1>9
  <2> HIDE DEF step, round
  <2>2. 0 \in B
    BY <1>7, <2>1
  <2>3. ASSUME NEW k \in 1 .. i, k - 1 \in B PROVE k \in B
    BY <1>7, <2>1, <2>3
  <2> HIDE DEF B
  <2>4. 0 .. i \subseteq B
    BY <2>2, <2>3, Upwards
  <2> QED BY <2>4 DEF B
<1>11. Up(less, s, i) = f[i]
  BY <1>10 DEF Up, a
<1>12. f[i] \in S /\ UpStep(less, f[i]) = f[i]
  BY <1>6, <1>7
<1> HIDE DEF step, round, Runs
<1>13. f[i] \in States(n, A)
  BY <1>12 DEF S
<1> QED BY <1>2, <1>11, <1>12, <1>13

-----------------------------------------------------------------------------
(* PriorityQueue.Remove and PriorityQueue.Add.                             *)

Distinct(s) == \A i, j \in DOMAIN s : s[i] = s[j] => i = j

LEMMA HoldsFacts ==
  ASSUME NEW n \in Nat, NEW K, NEW B \in SUBSET K, NEW s, Holds(s, n, B)
  PROVE  /\ s \in Seq(K) /\ Len(s) = n /\ DOMAIN s = 1 .. n
         /\ Distinct(s) /\ ToSet(s) = B
<1>1. s \in [1 .. n -> B] /\ s \in [1 .. n -> K] /\ DOMAIN s = 1 .. n
  BY DEF Holds
<1>2. s \in Seq(K) /\ Len(s) = n
  BY <1>1
<1>3. Distinct(s) /\ ToSet(s) = B
  BY <1>1 DEF Distinct, ToSet, Holds
<1> QED BY <1>1, <1>2, <1>3

LEMMA RemovedFacts ==
  ASSUME NEW K, NEW s \in Seq(K), Distinct(s), NEW less, Orders(less, K), IsHeap(less, s),
         NEW key
  PROVE  LET r == Removed(less, s, key)
         IN /\ r \in Seq(K) /\ Distinct(r) /\ ToSet(r) = ToSet(s) \ {key}
            /\ Len(r) = IF key \in ToSet(s) THEN Len(s) - 1 ELSE Len(s)
            /\ IsHeap(less, r)
<1>1. CASE key \notin ToSet(s)
  BY <1>1 DEF Removed
<1>2. CASE key \in ToSet(s)
  <2> DEFINE L == Len(s)
             n == L - 1
             i == CHOOSE k \in DOMAIN s : s[k] = key
             t == Swap(s, i, L)
             moved == Front(t)
             down == Down(less, moved, i, n)
             B == ToSet(s) \ {key}
             r == Removed(less, s, key)
  <2>1. L \in Nat /\ s \in [1 .. L -> K] /\ DOMAIN s = 1 .. L
    OBVIOUS
  <2>2. i \in 1 .. L /\ s[i] = key
    BY <1>2, <2>1 DEF ToSet
  <2>3. r = IF i > n THEN moved ELSE IF down.i > i THEN down.s ELSE Up(less, moved, i).s
    BY <1>2 DEF Removed, HeapRemove
  <2> HIDE DEF r, i, L
  <2>4. n \in Nat /\ L \in 1 .. L /\ L = n + 1 /\ \A k \in 1 .. n : k \in 1 .. L /\ k # L
    BY <2>1, <2>2
  <2>5. Holds(s, L, ToSet(s)) /\ ToSet(s) \subseteq K
    BY <2>1 DEF Holds, ToSet, Distinct
  <2> HIDE DEF n, B
  <2>6. /\ Holds(t, L, ToSet(s)) /\ t[i] = s[L] /\ t[L] = key
        /\ \A k \in 1 .. L : k # i /\ k # L => t[k] = s[k]
    <3>1. /\ Holds(t, L, ToSet(s)) /\ t[i] = s[L] /\ t[L] = s[i]
          /\ \A k \in 1 .. L : k # i /\ k # L => t[k] = s[k]
      <4>1. L \in Nat /\ Holds(s, L, ToSet(s)) /\ i \in 1 .. L /\ L \in 1 .. L
        BY <2>1, <2>2, <2>4, <2>5
      <4> QED BY <4>1, SwapFacts
    <3> QED BY <3>1, <2>2
  <2> HIDE DEF t
  <2>7. moved \in [1 .. n -> B] /\ \A k \in 1 .. n : moved[k] = t[k]
    <3>1. t \in Seq(ToSet(s)) /\ Len(t) = L
      BY <2>1, <2>6 DEF Holds
    <3>2. moved = SubSeq(t, 1, n)
      BY <3>1, <2>4 DEF Front
    <3>3. moved = [k \in 1 .. n |-> t[k]]
      BY <3>1, <3>2, <2>4
    <3>4. \A k \in 1 .. n : t[k] \in ToSet(s) /\ t[k] # key
      BY <2>4, <2>6 DEF Holds
    <3> QED BY <3>3, <3>4 DEF B
  <2> HIDE DEF moved
  <2>8. Holds(moved, n, B)
    <3>1. \A j, k \in 1 .. n : moved[j] = moved[k] => j = k
      BY <2>4, <2>6, <2>7 DEF Holds
    <3>2. ASSUME NEW b \in B PROVE \E k \in 1 .. n : moved[k] = b
      <4>1. PICK k \in 1 .. L : t[k] = b
        BY <2>6 DEF Holds, B
      <4>2. k \in 1 .. n
        BY <4>1, <2>4, <2>6 DEF B
      <4> QED BY <4>1, <4>2, <2>7
    <3> QED BY <2>7, <3>1, <3>2 DEF Holds
  <2>9. Orders(less, B) /\ B \subseteq K
    BY <2>5 DEF Orders, B
  <2>10. \A j \in 2 .. n : j \in 1 .. n /\ j \div 2 \in 1 .. n /\ j \div 2 < j
    <3>1. ASSUME NEW j \in 2 .. n PROVE j \in 1 .. n /\ j \div 2 \in 1 .. n /\ j \div 2 < j
      <4>1. j \in Nat /\ j > 1 /\ j <= n
        BY <2>4
      <4> QED BY <4>1, <2>4, Halves
    <3> QED BY <3>1
  <2>11. \A j \in 2 .. L : <<s[j], s[j \div 2]>> \notin less
    BY <2>1 DEF IsHeap
  <2>12. \A k \in 1 .. n : k # i => moved[k] = s[k]
    BY <2>4, <2>6, <2>7
  <2> SUFFICES Holds(r, n, B) /\ \A j \in 2 .. n : <<r[j], r[j \div 2]>> \notin less
    <3>1. ASSUME Holds(r, n, B), \A j \in 2 .. n : <<r[j], r[j \div 2]>> \notin less
          PROVE  /\ r \in Seq(K) /\ Distinct(r) /\ ToSet(r) = B /\ Len(r) = n
                 /\ IsHeap(less, r)
      <4>1. /\ r \in Seq(K) /\ Distinct(r) /\ ToSet(r) = B /\ Len(r) = n
            /\ DOMAIN r = 1 .. n
        BY <2>4, <2>9, <3>1, HoldsFacts
      <4> QED BY <4>1, <3>1, <2>4 DEF IsHeap
    <3> QED BY <3>1, <1>2 DEF r, L, n, B
  <2>13. CASE i > n
    <3>1. r = moved /\ \A k \in 1 .. n : moved[k] = s[k]
      BY <2>3, <2>12, <2>13, <2>4, <2>2
    <3>2. ASSUME NEW j \in 2 .. n PROVE <<moved[j], moved[j \div 2]>> \notin less
      BY <3>1, <2>4, <2>10, <2>11
    <3> QED BY <3>1, <3>2, <2>8
  <2>14. CASE ~(i > n)
    <3> DEFINE a == [s |-> moved, i |-> i]
    <3>1. i \in 1 .. n
      BY <2>2, <2>4, <2>14
    <3>2. ASSUME NEW j \in 2 .. n, j \div 2 # i, j # i
          PROVE  <<moved[j], moved[j \div 2]>> \notin less
      BY <3>2, <2>4, <2>10, <2>11, <2>12
    <3>3. ASSUME i > 1, NEW j \in 2 .. n, j \div 2 = i
          PROVE  <<moved[j], moved[i \div 2]>> \notin less
      <4>1. moved[j] = s[j] /\ moved[i \div 2] = s[i \div 2] /\ i \in 2 .. n
        <5>1. j # i /\ i \in 2 .. n
          BY <2>10, <3>1, <3>3
        <5> QED BY <5>1, <2>10, <2>12
      <4>2. <<s[j], s[i]>> \notin less /\ <<s[i], s[i \div 2]>> \notin less
        BY <2>4, <2>11, <3>3, <4>1
      <4>3. s[j] \in K /\ s[i] \in K /\ s[i \div 2] \in K
        BY <2>1, <2>4, <2>10, <4>1
      <4>4. <<s[j], s[i \div 2]>> \notin less
        <5>1. \A a1, a2, a3 \in K :
                <<a1, a2>> \notin less /\ <<a2, a3>> \notin less => <<a1, a3>> \notin less
          BY NotLess
        <5> QED BY <4>2, <4>3, <5>1
      <4> QED BY <4>1, <4>4
    <3>4. Sinks(less, n, i, a)
      BY <3>1, <3>2, <3>3 DEF Sinks
    <3>5. /\ down \in States(n, B) /\ Sinks(less, n, i, down)
          /\ down.i = i => down.s = moved
          /\ \A j \in 2 .. n : j \div 2 = down.i => <<down.s[j], down.s[down.i]>> \notin less
      BY <2>4, <2>8, <2>9, <3>1, <3>4, DownFacts
    <3> HIDE DEF down
    <3>6. down.i \in 1 .. n /\ down.i >= i /\ Holds(down.s, n, B)
      BY <3>5 DEF States, Sinks
    <3>7. CASE down.i > i
      <4>1. r = down.s
        BY <2>3, <2>14, <3>7
      <4>2. ASSUME NEW j \in 2 .. n PROVE <<down.s[j], down.s[j \div 2]>> \notin less
        BY <3>1, <3>5, <3>6, <3>7 DEF Sinks
      <4> QED BY <4>1, <4>2, <3>6
    <3>8. CASE ~(down.i > i)
      <4>1. down.i = i /\ down.s = moved /\ r = Up(less, moved, i).s
        BY <2>3, <2>14, <3>1, <3>5, <3>6, <3>8
      <4>2. ASSUME NEW j \in 2 .. n, j # i PROVE <<moved[j], moved[j \div 2]>> \notin less
        BY <3>2, <3>5, <4>1, <4>2
      <4>3. Rises(less, n, a)
        BY <3>3, <4>2 DEF Rises
      <4> DEFINE up == Up(less, moved, i)
      <4>4. up \in States(n, B) /\ IsHeap(less, up.s)
        BY <2>4, <2>8, <2>9, <3>1, <4>3, UpFacts
      <4> HIDE DEF up
      <4>5. Holds(up.s, n, B) /\ DOMAIN up.s = 1 .. n
        BY <4>4 DEF States
      <4>6. \A j \in 2 .. n : <<up.s[j], up.s[j \div 2]>> \notin less
        <5>1. \A j \in 2 .. n : j \in 1 .. n /\ j > 1
          BY <2>4
        <5> QED BY <4>4, <4>5, <5>1 DEF IsHeap
      <4> QED BY <4>1, <4>5, <4>6 DEF up
    <3> QED BY <3>7, <3>8
  <2> QED BY <2>13, <2>14
<1> QED BY <1>1, <1>2

LEMMA SortedFacts ==
  ASSUME NEW K, IsFiniteSet(K), NEW less, Orders(less, K)
  PROVE  LET s == Sorted(less, K)
         IN /\ s \in Seq(K) /\ Distinct(s) /\ ToSet(s) = K /\ Len(s) = Cardinality(K)
            /\ IsHeap(less, s)
            /\ \A i, j \in DOMAIN s : i < j => <<s[i], s[j]>> \in less
<1> DEFINE n == Cardinality(K)
           Below(k) == {j \in K : <<j, k>> \in less}
           rank == [k \in K |-> Cardinality(Below(k))]
           Sorts(s) == \A i, j \in DOMAIN s : i < j => <<s[i], s[j]>> \in less
           s == Sorted(less, K)
<1>1. n \in Nat
  BY FS_CardinalityType
<1>2. ASSUME NEW k \in K PROVE IsFiniteSet(Below(k)) /\ Cardinality(Below(k)) \in 0 .. n - 1
  <2>1. Below(k) \in SUBSET K /\ k \notin Below(k)
    BY DEF Orders
  <2> HIDE DEF Below
  <2>2. IsFiniteSet(Below(k)) /\ Cardinality(Below(k)) <= n /\ Cardinality(Below(k)) # n
    BY <2>1, FS_Subset
  <2>3. Cardinality(Below(k)) \in Nat
    BY <2>2, FS_CardinalityType
  <2> QED BY <1>1, <2>2, <2>3
<1>3. ASSUME NEW j \in K, NEW k \in K, <<j, k>> \in less PROVE rank[j] < rank[k]
  <2>1. Below(j) \in SUBSET Below(k) /\ j \in Below(k) /\ j \notin Below(j)
    BY <1>3 DEF Orders
  <2> HIDE DEF Below
  <2>2. /\ Cardinality(Below(j)) <= Cardinality(Below(k))
        /\ Cardinality(Below(j)) # Cardinality(Below(k))
    BY <1>2, <2>1, FS_Subset
  <2>3. Cardinality(Below(j)) < Cardinality(Below(k))
    BY <1>2, <2>2
  <2> QED BY <2>3
<1>4. rank \in [K -> 0 .. n - 1]
  BY <1>2
<1> HIDE DEF rank, Below
<1>5. rank \in Injection(K, 0 .. n - 1)
  <2>1. ASSUME NEW j \in K, NEW k \in K, rank[j] = rank[k] PROVE j = k
    <3>1. rank[j] \in Int /\ rank[k] \in Int
      BY <1>4
    <3>2. <<j, k>> \notin less /\ <<k, j>> \notin less
      BY <1>3, <2>1, <3>1
    <3> QED BY <3>2 DEF Orders
  <2> QED BY <1>4, <2>1 DEF Injection, IsInjective
<1>6. IsFiniteSet(0 .. n - 1) /\ Cardinality(0 .. n - 1) = n
  BY <1>1, FS_Interval
<1>7. rank \in Surjection(K, 0 .. n - 1)
  BY <1>5, <1>6, FS_Injection
<1>8. \A i \in 1 .. n : \E k \in K : rank[k] = i - 1
  BY <1>1, <1>7 DEF Surjection
<1> DEFINE w == [i \in 1 .. n |-> CHOOSE k \in K : rank[k] = i - 1]
<1>9. \A i \in 1 .. n : w[i] \in K /\ rank[w[i]] = i - 1
  BY <1>8
<1>10. w \in [1 .. n -> K] /\ DOMAIN w = 1 .. n
  <2> HIDE DEF n
  <2> QED BY <1>9
<1> HIDE DEF w
<1>11. Sorts(w)
  <2>1. ASSUME NEW i \in 1 .. n, NEW j \in 1 .. n, i < j PROVE <<w[i], w[j]>> \in less
    <3>1. w[i] \in K /\ w[j] \in K /\ rank[w[i]] < rank[w[j]] /\ rank[w[i]] \in Int
          /\ rank[w[j]] \in Int
      BY <1>1, <1>9, <2>1
    <3>2. w[i] # w[j] /\ <<w[j], w[i]>> \notin less
      BY <1>3, <3>1
    <3> QED BY <3>1, <3>2 DEF Orders
  <2> QED BY <1>10, <2>1
<1>12. s \in [1 .. n -> K] /\ Sorts(s)
  <2>1. s = CHOOSE f \in [1 .. n -> K] : Sorts(f)
    BY DEF Sorted
  <2> HIDE DEF Sorts, s
  <2> QED BY <1>10, <1>11, <2>1
<1> HIDE DEF s
<1>13. DOMAIN s = 1 .. n
  BY <1>12
<1>14. ASSUME NEW i \in 1 .. n, NEW j \in 1 .. n, s[i] = s[j] PROVE i = j
  <2>1. s[i] \in K /\ <<s[i], s[i]>> \notin less
    BY <1>12 DEF Orders
  <2>2. ~(i < j) /\ ~(j < i)
    BY <1>12, <1>13, <1>14, <2>1
  <2> QED BY <2>2
<1>15. s \in Injection(1 .. n, K)
  BY <1>12, <1>14 DEF Injection, IsInjective
<1>16. Cardinality(1 .. n) = n
  BY <1>1, FS_Interval
<1>17. s \in Surjection(1 .. n, K)
  BY <1>15, <1>16, FS_Injection
<1>18. Holds(s, n, K)
  BY <1>12, <1>14, <1>17 DEF Holds, Surjection
<1>19. IsHeap(less, s)
  <2>1. ASSUME NEW i \in DOMAIN s, i > 1 PROVE <<s[i], s[i \div 2]>> \notin less
    <3>1. i \in Nat /\ i \in 1 .. n
      BY <1>13
    <3>2. i \div 2 \in 1 .. n /\ i \div 2 < i
      BY <1>1, <2>1, <3>1, Halves
    <3>3. <<s[i \div 2], s[i]>> \in less /\ s[i] \in K /\ s[i \div 2] \in K
      BY <1>12, <1>13, <3>1, <3>2
    <3> QED BY <3>3 DEF Orders
  <2> QED BY <2>1 DEF IsHeap
<1>20. s \in Seq(K) /\ Len(s) = n /\ Distinct(s) /\ ToSet(s) = K
  BY <1>1, <1>18, HoldsFacts
<1> QED BY <1>12, <1>19, <1>20 DEF s

LEMMA DistinctCardinality ==
  ASSUME NEW K, NEW s \in Seq(K), Distinct(s)
  PROVE  IsFiniteSet(ToSet(s)) /\ Cardinality(ToSet(s)) = Len(s)
<1> DEFINE n == Len(s)
<1>1. n \in Nat /\ s \in [1 .. n -> ToSet(s)] /\ DOMAIN s = 1 .. n
  BY DEF ToSet
<1>2. s \in Surjection(1 .. n, ToSet(s)) /\ s \in Injection(1 .. n, ToSet(s))
  BY <1>1 DEF Surjection, Injection, IsInjective, Distinct, ToSet
<1>3. IsFiniteSet(1 .. n) /\ Cardinality(1 .. n) = n
  BY <1>1, FS_Interval
<1> QED BY <1>2, <1>3, FS_Surjection

-----------------------------------------------------------------------------
(* The pending queue.                                                      *)

PendingInv ==
  /\ items \in Seq(Pipelines) /\ tail \in Seq(Pipelines) /\ frozen \in Seq(Pipelines)
  /\ priority \in [Pipelines -> Nat]
  /\ capacity \in Nat /\ Len(items) <= capacity
  /\ Distinct(items) /\ PendingIsHeap

LEMMA OrderOrders ==
  ASSUME NEW pr \in [Pipelines -> Nat]
  PROVE  Orders(Order(pr), Pipelines)
<1>1. \A a, b \in Pipelines : <<a, b>> \in Order(pr) <=> Less(pr, a, b)
  BY DEF Order
<1>2. \A a \in Pipelines : pr[a] \in Int /\ Created[a] \in Int
  BY PipelineQueueAssumption
<1>3. \A a, b \in Pipelines : Created[a] = Created[b] => a = b
  BY PipelineQueueAssumption
<1>4. \A a \in Pipelines : ~Less(pr, a, a)
  BY <1>2 DEF Less
<1>5. \A a, b, c \in Pipelines : Less(pr, a, b) /\ Less(pr, b, c) => Less(pr, a, c)
  BY <1>2 DEF Less
<1>6. \A a, b \in Pipelines : a # b => Less(pr, a, b) \/ Less(pr, b, a)
  BY <1>2, <1>3 DEF Less
<1> QED BY <1>1, <1>4, <1>5, <1>6 DEF Orders

(* Whatever a range has still to look at stays in its array.               *)
KeepsView == ranging => Len(View') >= Len(View)
KeepsClear == tail = <<>> /\ frozen = <<>> /\ ~ranging => tail' = <<>> /\ frozen' = <<>>

LEMMA RemoveKeeps ==
  ASSUME PendingInv, NEW key \in Pipelines, RemovePending(key)
  PROVE  PendingInv' /\ Pending' = Pending \ {key} /\ KeepsView /\ KeepsClear
<1>1. Orders(Order(priority), Pipelines)
  BY OrderOrders DEF PendingInv
<1>2. /\ items' \in Seq(Pipelines) /\ Distinct(items') /\ ToSet(items') = ToSet(items) \ {key}
      /\ Len(items') = IF key \in ToSet(items) THEN Len(items) - 1 ELSE Len(items)
      /\ IsHeap(Order(priority), items')
  BY <1>1, RemovedFacts DEF PendingInv, PendingIsHeap, RemovePending
<1>3. frozen' = frozen /\ capacity' = capacity /\ priority' = priority
  BY DEF RemovePending
<1>4. /\ tail' \in Seq(Pipelines)
      /\ Len(tail') = IF ranging /\ frozen = <<>> /\ key \in Pending THEN Len(tail) + 1 ELSE Len(tail)
  BY DEF RemovePending, PendingInv
<1>5. PendingInv'
  <2>1. Len(items') <= capacity'
    BY <1>2, <1>3 DEF PendingInv
  <2>2. PendingIsHeap'
    BY <1>2, <1>3 DEF PendingIsHeap, Order, Less
  <2> QED BY <1>2, <1>3, <1>4, <2>1, <2>2 DEF PendingInv
<1>6. KeepsView
  <2> SUFFICES ASSUME ranging PROVE Len(View') >= Len(View)
    BY DEF KeepsView
  <2>1. CASE frozen # <<>>
    BY <1>3, <2>1 DEF View, PendingInv
  <2>2. CASE frozen = <<>>
    <3>1. /\ Len(items' \o tail') = Len(items') + Len(tail')
          /\ Len(items \o tail) = Len(items) + Len(tail)
      BY <1>2, <1>4, ConcatProperties DEF PendingInv
    <3>2. Len(items') + Len(tail') >= Len(items) + Len(tail)
      BY <1>2, <1>4, <2>2 DEF PendingInv, Pending
    <3>3. View' = items' \o tail' /\ View = items \o tail
      BY <1>3, <2>2 DEF View
    <3> QED BY <3>1, <3>2, <3>3
  <2> QED BY <2>1, <2>2
<1>7. KeepsClear
  BY <1>3 DEF KeepsClear, RemovePending
<1> QED BY <1>2, <1>5, <1>6, <1>7 DEF Pending

LEMMA AddKeeps ==
  ASSUME PendingInv, NEW key \in Pipelines, NEW pr \in Nat, AddPending(key, pr)
  PROVE  PendingInv' /\ Pending' = Pending \cup {key} /\ KeepsView /\ KeepsClear
<1> DEFINE moves == key \notin Pending /\ Len(items) = capacity
           K == Pending \cup {key}
<1>1. priority' = [priority EXCEPT ![key] = pr] /\ priority' \in [Pipelines -> Nat]
  BY DEF AddPending, PendingInv
<1>2. Orders(Order(priority'), Pipelines)
  BY <1>1, OrderOrders
<1>3. /\ K \subseteq Pipelines /\ IsFiniteSet(K)
      /\ Cardinality(K) = IF key \in Pending THEN Len(items) ELSE Len(items) + 1
  <2>1. IsFiniteSet(Pending) /\ Cardinality(Pending) = Len(items)
    BY DistinctCardinality DEF PendingInv, Pending
  <2>2. Pending \subseteq Pipelines
    BY DEF Pending, PendingInv, ToSet
  <2> QED BY <2>1, <2>2, FS_AddElement
<1>4. Orders(Order(priority'), K)
  BY <1>2, <1>3 DEF Orders
<1>5. items' = Sorted(Order(priority'), K)
  BY DEF AddPending
<1> HIDE DEF K
<1>6. /\ items' \in Seq(K) /\ Distinct(items') /\ ToSet(items') = K /\ Len(items') = Cardinality(K)
      /\ IsHeap(Order(priority'), items')
  BY <1>3, <1>4, <1>5, SortedFacts
<1>7. items' \in Seq(Pipelines)
  BY <1>3, <1>6, SeqMonotonic
<1>8. /\ capacity' = IF ~moves THEN capacity ELSE IF capacity = 0 THEN 1 ELSE 2 * capacity
      /\ frozen' = IF moves /\ ranging THEN View ELSE frozen
      /\ tail' = IF key \in Pending \/ tail = <<>> THEN tail
                 ELSE IF moves THEN <<>> ELSE Tail(tail)
  BY DEF AddPending
<1>9. capacity' \in Nat /\ Len(items') <= capacity'
  <2>1. capacity \in Nat /\ Len(items) \in Nat /\ Len(items) <= capacity
    BY DEF PendingInv
  <2>2. Len(items') = IF key \in Pending THEN Len(items) ELSE Len(items) + 1
    BY <1>3, <1>6
  <2> QED BY <1>8, <2>1, <2>2
<1>10. View \in Seq(Pipelines) /\ tail' \in Seq(Pipelines) /\ frozen' \in Seq(Pipelines)
  BY <1>8 DEF PendingInv, View
<1>11. PendingInv'
  <2>1. PendingIsHeap'
    BY <1>6 DEF PendingIsHeap
  <2> QED BY <1>1, <1>6, <1>7, <1>9, <1>10, <2>1 DEF PendingInv
<1>12. KeepsView
  <2> SUFFICES ASSUME ranging PROVE Len(View') >= Len(View)
    BY DEF KeepsView
  <2>1. Len(View) \in Nat
    BY <1>10
  <2>2. CASE frozen # <<>>
    <3>1. View = frozen /\ frozen' = frozen
      BY <1>8, <2>2 DEF View
    <3> QED BY <2>1, <2>2, <3>1 DEF View
  <2>3. CASE frozen = <<>> /\ moves
    <3>1. frozen' = View
      BY <1>8, <2>3
    <3>2. CASE View # <<>>
      BY <2>1, <3>1, <3>2 DEF View
    <3>3. CASE View = <<>>
      <4>1. Len(View) = 0
        BY <3>3
      <4>2. View' \in Seq(Pipelines)
        BY <1>7, <1>10 DEF View
      <4> QED BY <4>1, <4>2
    <3> QED BY <3>2, <3>3
  <2>4. CASE frozen = <<>> /\ ~moves
    <3>1. frozen' = <<>>
      BY <1>8, <2>4
    <3>2. View = items \o tail /\ View' = items' \o tail'
      BY <2>4, <3>1 DEF View
    <3>3. Len(View) = Len(items) + Len(tail) /\ Len(View') = Len(items') + Len(tail')
      BY <1>7, <1>10, <3>2, ConcatProperties DEF PendingInv
    <3>4. Len(items') = IF key \in Pending THEN Len(items) ELSE Len(items) + 1
      BY <1>3, <1>6
    <3>5. CASE key \in Pending \/ tail = <<>>
      <4>1. tail' = tail
        BY <1>8, <3>5
      <4>2. Len(items) \in Nat /\ Len(tail) \in Nat /\ Len(items') >= Len(items)
        BY <3>4 DEF PendingInv
      <4> QED BY <3>3, <4>1, <4>2
    <3>6. CASE ~(key \in Pending \/ tail = <<>>)
      <4>1. tail' = Tail(tail) /\ Len(tail') = Len(tail) - 1
        BY <1>8, <2>4, <3>6 DEF PendingInv
      <4> QED BY <3>3, <3>4, <3>6, <4>1, <1>7, <1>10 DEF PendingInv
    <3> QED BY <3>5, <3>6
  <2> QED BY <2>2, <2>3, <2>4
<1>13. KeepsClear
  BY <1>8 DEF KeepsClear
<1> QED BY <1>6, <1>11, <1>12, <1>13 DEF Pending, K

-----------------------------------------------------------------------------
(* The inductive invariant of every run of the queue.                      *)

Upgrades == [at : {"none", "read", "add"}, p : Pipelines \cup {None}, priority : Nat,
             seen : Statuses]

RowsOK ==
  /\ status \in [Pipelines -> Statuses] /\ tasksDone \subseteq Pipelines
  /\ rejected \subseteq Pipelines
  /\ snap \in [Listeners -> Statuses] /\ again \subseteq Listeners
  /\ processing \subseteq Pipelines /\ caches \subseteq Pipelines
  /\ concurrency \in Windows /\ window \in Windows /\ mode \in Modes
  /\ custom \in [Pipelines -> Nat] /\ asked \in [Listeners -> Nat]
  /\ failures \in 0 .. MaxFailures /\ updates \in 0 .. MaxUpdates
  /\ upgrades \in 0 .. MaxUpgrades
  /\ upgrade \in Upgrades
  /\ refused \subseteq Pipelines /\ needReRange \in BOOLEAN /\ ranging \in BOOLEAN

Places == {"none", "query", "save", "add", "wait", "check", "before",
           "reconcile", "popout", "unlock", "after", "again", "done", "panic"}
RangePlaces == {"idle", "next", "validate", "precheck", "mark", "remove", "pop", "read",
                "send", "close", "forget", "strict", "end", "leave", "panic"}

ControlOK ==
  /\ doneCh \in [Pipelines -> Listeners \cup {None}] /\ closed \subseteq Listeners
  /\ lock \in Listeners \cup {None}
  /\ pc \in [Listeners -> Places]
  /\ cancel \in [Pipelines -> {"none", "popout", "unlock", "done"}]
  /\ rpc \in RangePlaces
  /\ place \in Nat /\ count \in Nat
  /\ current \in Pipelines \cup {None} /\ channel \in Listeners \cup {None}

Ranged == rpc \in {"next", "validate", "precheck", "mark", "remove", "pop", "read", "send",
                  "close", "forget", "strict"}
Sending == rpc \in {"send", "close", "forget"}
Visiting == Ranged /\ rpc # "next"

(* While it ranges, its array has the places it has still to look at.      *)
RangeInv ==
  /\ rpc = "idle" => ~ranging
  /\ rpc \notin {"idle", "panic"} => ranging
  /\ ~ranging => tail = <<>> /\ frozen = <<>>
  /\ Ranged => place \in 1 .. count /\ count <= Len(View)
  /\ Visiting => current \in Pipelines
  /\ Sending => channel \in Listeners /\ channel[1] = current

(* One goroutine at a time keeps q.lock over a channel operation, and the  *)
(* channel is one of its pipeline.                                         *)
LockInv ==
  /\ \A l \in Listeners : pc[l] = "unlock" =>
       /\ lock \in Listeners /\ lock[1] = l[1] /\ upgrade.at # "add"
       /\ \A m \in Listeners : pc[m] = "unlock" => m = l
       /\ \A p \in Pipelines : cancel[p] # "unlock"
  /\ \A p \in Pipelines : cancel[p] = "unlock" =>
       /\ lock \in Listeners /\ lock[1] = p /\ upgrade.at # "add"
       /\ \A r \in Pipelines : cancel[r] = "unlock" => r = p
  /\ upgrade.at = "add" => lock # None
  /\ upgrade.at # "none" => upgrade.p \in Pipelines /\ upgrades > 0
  /\ \A p \in Pipelines : doneCh[p] # None => doneCh[p][1] = p

QueueInv == RowsOK /\ ControlOK /\ PendingInv /\ RangeInv /\ LockInv

LEMMA QueueInvTypes ==
  QueueInv => PipelineQueueTypeOK /\ PendingIsHeap
<1> SUFFICES ASSUME QueueInv PROVE PipelineQueueTypeOK /\ PendingIsHeap
  OBVIOUS
<1>1. Cardinality(ToSet(items)) = Len(items)
  BY DistinctCardinality DEF QueueInv, PendingInv
<1> QED BY <1>1, Zenon DEF QueueInv, RowsOK, ControlOK, PendingInv, PipelineQueueTypeOK,
            Places, RangePlaces, Upgrades

LEMMA QueueInvInit ==
  Init => QueueInv
<1> SUFFICES ASSUME Init PROVE QueueInv
  OBVIOUS
<1>1. RowsOK
  <2>1. /\ upgrade \in Upgrades
        /\ status \in [Pipelines -> Statuses] /\ snap \in [Listeners -> Statuses]
    BY DEF Init, Statuses, NoUpgrade, Upgrades
  <2>2. needReRange \in BOOLEAN /\ ranging \in BOOLEAN
    BY DEF Init
  <2>3. /\ failures \in 0 .. MaxFailures /\ updates \in 0 .. MaxUpdates
        /\ upgrades \in 0 .. MaxUpgrades
    BY PipelineQueueAssumption DEF Init
  <2>4. custom \in [Pipelines -> Nat] /\ asked \in [Listeners -> Nat]
    BY PipelineQueueAssumption DEF Init
  <2>5. window \in Windows /\ concurrency \in Windows
    BY DEF Init
  <2> QED BY <2>1, <2>2, <2>3, <2>4, <2>5, Zenon DEF Init, RowsOK
<1>2. ControlOK
  BY PipelineQueueAssumption DEF Init, ControlOK, Listeners, Places, RangePlaces
<1>3. PendingInv
  <2>1. /\ items = <<>> /\ tail = <<>> /\ frozen = <<>> /\ capacity = 0
        /\ priority = CustomPriority
    BY DEF Init
  <2>2. <<>> \in Seq(Pipelines) /\ DOMAIN <<>> = {} /\ Len(<<>>) = 0
    BY EmptySeq
  <2>3. Distinct(items) /\ PendingIsHeap
    BY <2>1, <2>2 DEF Distinct, PendingIsHeap, IsHeap
  <2> QED BY <2>1, <2>2, <2>3, PipelineQueueAssumption DEF PendingInv
<1>4. RangeInv
  BY DEF Init, RangeInv, Ranged, Visiting, Sending
<1>5. LockInv
  BY DEF Init, LockInv, Listeners, NoUpgrade
<1> QED BY <1>1, <1>2, <1>3, <1>4, <1>5 DEF QueueInv

LEMMA NoListener == None \notin Listeners
BY PipelineQueueAssumption DEF Listeners

LEMMA ListenerFacts ==
  ASSUME NEW l \in Listeners
  PROVE  l[1] \in Pipelines /\ l[2] \in {1, 2} /\ l = <<l[1], l[2]>>
BY DEF Listeners

LEMMA ReRangeIsBoolean ==
  ASSUME NEW key, NeedsReRange(key)
  PROVE  needReRange' \in BOOLEAN
BY Zenon DEF NeedsReRange

LEMMA FirstPending ==
  ASSUME PendingInv, Pending # {}
  PROVE  items[1] \in Pipelines /\ priority[items[1]] \in Nat
<1>1. DOMAIN items = 1 .. Len(items) /\ Len(items) \in Nat
  BY DEF PendingInv
<1>2. 1 \in DOMAIN items
  BY <1>1 DEF Pending, ToSet
<1> QED BY <1>2 DEF PendingInv

LEMMA RowsStep ==
  QueueInv /\ Next => RowsOK'
<1> SUFFICES ASSUME QueueInv, Next PROVE RowsOK'
  OBVIOUS
<1>1. ASSUME NEW l \in Listeners, Watch(l) PROVE RowsOK'
  BY <1>1 DEF Watch, QueueInv, RowsOK, rowVars, confVars, listenVars,
       upgradeVars, rangeVars
<1>2. ASSUME NEW l \in Listeners, QueryPipelineDetail(l) PROVE RowsOK'
  BY <1>2, ListenerFacts DEF QueryPipelineDetail, QueueInv, RowsOK, rowVars, confVars, listenVars,
       upgradeVars, rangeVars
<1>3. ASSUME NEW l \in Listeners, QueryPipelineQueueDetail(l) PROVE RowsOK'
  BY <1>3, ListenerFacts DEF QueryPipelineQueueDetail, QueueInv, RowsOK, rowVars, confVars, listenVars,
       upgradeVars, rangeVars, Statuses
<1>4. ASSUME NEW l \in Listeners, AddPipelineIntoQueue(l) PROVE RowsOK'
  <2>1. processing' \subseteq Pipelines /\ caches' \subseteq Pipelines
    BY <1>4, ListenerFacts DEF AddPipelineIntoQueue, QueueInv, RowsOK
  <2>2. needReRange' \in BOOLEAN
    BY <1>4, ReRangeIsBoolean DEF AddPipelineIntoQueue
  <2> QED BY <1>4, <2>1, <2>2 DEF AddPipelineIntoQueue, QueueInv, RowsOK, rowVars, confVars,
              upgradeVars, rangeVars
<1>5. ASSUME NEW l \in Listeners, CheckPipeline(l) PROVE RowsOK'
  BY <1>5, ListenerFacts DEF CheckPipeline, QueueInv, RowsOK, rowVars, confVars, listenVars,
       upgradeVars, rangeVars
<1>6. ASSUME NEW l \in Listeners, UpdateStatusBeforeReconcile(l) PROVE RowsOK'
  <2>1. failures' \in 0 .. MaxFailures
    BY <1>6, PipelineQueueAssumption DEF UpdateStatusBeforeReconcile, Fail, QueueInv, RowsOK
  <2>2. status' \in [Pipelines -> Statuses]
    BY <1>6 DEF UpdateStatusBeforeReconcile, QueueInv, RowsOK, Statuses
  <2> QED BY <1>6, <2>1, <2>2 DEF UpdateStatusBeforeReconcile, QueueInv, RowsOK, confVars,
              upgradeVars, rangeVars
<1>7. ASSUME NEW l \in Listeners, ReconcileReturns(l) PROVE RowsOK'
  <2>1. failures' \in 0 .. MaxFailures
    BY <1>7, PipelineQueueAssumption DEF ReconcileReturns, Fail, QueueInv, RowsOK
  <2>2. again' \subseteq Listeners
    BY <1>7 DEF ReconcileReturns, QueueInv, RowsOK
  <2> QED BY <1>7, <2>1, <2>2 DEF ReconcileReturns, QueueInv, RowsOK, rowVars, confVars,
              upgradeVars, rangeVars
<1>8. ASSUME NEW l \in Listeners, TeardownCurrentReconcile(l) PROVE RowsOK'
  BY <1>8 DEF TeardownCurrentReconcile, QueueInv, RowsOK, rowVars, confVars, listenVars,
       upgradeVars, rangeVars, PopOut
<1>9. ASSUME NEW l \in Listeners, TeardownSignals(l) PROVE RowsOK'
  BY <1>9 DEF TeardownSignals, QueueInv, RowsOK, rowVars, confVars, listenVars,
       upgradeVars, rangeVars
<1>10. ASSUME NEW l \in Listeners, UpdateStatusAfterReconcile(l) PROVE RowsOK'
  BY <1>10, ListenerFacts DEF UpdateStatusAfterReconcile, QueueInv, RowsOK, rowVars, confVars, listenVars,
       upgradeVars, rangeVars, Statuses
<1>11. ASSUME NEW l \in Listeners, ReconcileAgain(l) PROVE RowsOK'
  BY <1>11 DEF ReconcileAgain, QueueInv, RowsOK, rowVars, confVars, listenVars,
       upgradeVars, rangeVars
<1>12. ASSUME NEW p \in Pipelines, TasksEnd(p) PROVE RowsOK'
  BY <1>12 DEF TasksEnd, QueueInv, RowsOK, rowVars, confVars, listenVars,
       upgradeVars, rangeVars
<1>13. ASSUME NEW p \in Pipelines, CancelPipeline(p) PROVE RowsOK'
  BY <1>13 DEF CancelPipeline, QueueInv, RowsOK, rowVars, confVars, listenVars,
       upgradeVars, rangeVars, Statuses
<1>14. ASSUME NEW p \in Pipelines, CancelPopsOut(p) PROVE RowsOK'
  BY <1>14 DEF CancelPopsOut, QueueInv, RowsOK, rowVars, confVars, listenVars,
       upgradeVars, rangeVars, PopOut
<1>15. ASSUME NEW p \in Pipelines, CancelSignals(p) PROVE RowsOK'
  BY <1>15 DEF CancelSignals, QueueInv, RowsOK, rowVars, confVars, listenVars,
       upgradeVars, rangeVars
<1>16. ASSUME NEW p \in Pipelines, UpgradeRead(p) PROVE RowsOK'
  <2>1. upgrades' \in 0 .. MaxUpgrades
    BY <1>16, PipelineQueueAssumption DEF UpgradeRead, QueueInv, RowsOK
  <2>2. upgrade' \in Upgrades
    BY <1>16 DEF UpgradeRead, QueueInv, RowsOK, Upgrades
  <2> QED BY <1>16, <2>1, <2>2 DEF UpgradeRead, QueueInv, RowsOK, rowVars, confVars,
              listenVars, rangeVars
<1>17. ASSUME UpgradeCheck PROVE RowsOK'
  <2>1. NoUpgrade \in Upgrades
    BY DEF NoUpgrade, Upgrades, Statuses
  <2>2. ASSUME upgrade.p \in Pending PROVE priority[items[1]] + 1 \in Nat
    BY <2>2, FirstPending DEF QueueInv
  <2>3. upgrade' \in Upgrades
    BY <1>17, <2>1, <2>2 DEF UpgradeCheck, QueueInv, RowsOK, Upgrades
  <2> QED BY <1>17, <2>3 DEF UpgradeCheck, QueueInv, RowsOK, rowVars, confVars,
              listenVars, rangeVars
<1>18. ASSUME UpgradeAdd PROVE RowsOK'
  <2>1. upgrade' \in Upgrades
    BY <1>18 DEF UpgradeAdd, NoUpgrade, Upgrades, Statuses
  <2>2. upgrade.p \in Pipelines
    BY <1>18 DEF UpgradeAdd, QueueInv, LockInv
  <2>3. processing' \subseteq Pipelines /\ caches' \subseteq Pipelines
    BY <1>18, <2>2 DEF UpgradeAdd, QueueInv, RowsOK
  <2>4. needReRange' \in BOOLEAN
    <3>1. CASE UNCHANGED needReRange
      BY <3>1 DEF QueueInv, RowsOK
    <3>2. CASE NeedsReRange(upgrade.p)
      BY <3>2, ReRangeIsBoolean
    <3> QED BY <1>18, <3>1, <3>2 DEF UpgradeAdd
  <2>5. custom' \in [Pipelines -> Nat]
    BY <1>18, <2>2 DEF UpgradeAdd, QueueInv, RowsOK, Upgrades
  <2> QED BY <1>18, <2>1, <2>3, <2>4, <2>5 DEF UpgradeAdd, QueueInv, RowsOK, rowVars, confVars,
              listenVars, rangeVars
<1>19. ASSUME UpdateQueue PROVE RowsOK'
  <2>1. updates' \in 0 .. MaxUpdates
    BY <1>19, PipelineQueueAssumption DEF UpdateQueue, QueueInv, RowsOK
  <2> QED BY <1>19, <2>1 DEF UpdateQueue, QueueInv, RowsOK, rowVars, upgradeVars,
              listenVars, rangeVars
<1>20. ASSUME RangePendingQueue PROVE RowsOK'
  BY <1>20 DEF RangePendingQueue, QueueInv, RowsOK, rowVars, confVars, listenVars,
       upgradeVars, rangeVars
<1>21. ASSUME VisitItem PROVE RowsOK'
  BY <1>21 DEF VisitItem, QueueInv, RowsOK, rowVars, confVars, listenVars,
       upgradeVars, rangeVars
<1>22. ASSUME ValidatePipeline PROVE RowsOK'
  BY <1>22 DEF ValidatePipeline, QueueInv, RowsOK, rowVars, confVars, listenVars,
       upgradeVars, rangeVars
<1>23. ASSUME Precheck PROVE RowsOK'
  <2>1. current \in Pipelines
    BY <1>23 DEF Precheck, QueueInv, RangeInv, Visiting, Ranged
  <2>2. refused' \subseteq Pipelines
    BY <1>23, <2>1 DEF Precheck, QueueInv, RowsOK
  <2> QED BY <1>23, <2>2 DEF Precheck, QueueInv, RowsOK, rowVars, confVars, upgradeVars,
              listenVars
<1>24. ASSUME MarkPipelineFailed PROVE RowsOK'
  <2>1. current \in Pipelines
    BY <1>24 DEF MarkPipelineFailed, QueueInv, RangeInv, Visiting, Ranged
  <2> QED BY <1>24, <2>1 DEF MarkPipelineFailed, QueueInv, RowsOK, confVars, listenVars,
              upgradeVars, Statuses
<1>25. ASSUME DoPop PROVE RowsOK'
  <2>1. current \in Pipelines
    BY <1>25 DEF DoPop, QueueInv, RangeInv, Visiting, Ranged
  <2>2. processing' \subseteq Pipelines
    BY <1>25, <2>1 DEF DoPop, QueueInv, RowsOK
  <2> QED BY <1>25, <2>2 DEF DoPop, QueueInv, RowsOK, rowVars, confVars, upgradeVars,
              listenVars
<1>26. ASSUME ReadDoneCh PROVE RowsOK'
  BY <1>26 DEF ReadDoneCh, QueueInv, RowsOK, rowVars, confVars, listenVars,
       upgradeVars, rangeVars
<1>27. ASSUME SendDone PROVE RowsOK'
  BY <1>27 DEF SendDone, QueueInv, RowsOK, rowVars, confVars, listenVars,
       upgradeVars, rangeVars
<1>28. ASSUME StopIfStrict PROVE RowsOK'
  BY <1>28 DEF StopIfStrict, QueueInv, RowsOK, rowVars, confVars, listenVars,
       upgradeVars, rangeVars
<1>29. ASSUME UnsetNeedReRange PROVE RowsOK'
  BY <1>29 DEF UnsetNeedReRange, QueueInv, RowsOK, rowVars, confVars, listenVars,
       upgradeVars, rangeVars
<1>30. ASSUME LeaveRange PROVE RowsOK'
  BY <1>30 DEF LeaveRange, QueueInv, RowsOK, rowVars, confVars, listenVars,
       upgradeVars, rangeVars
<1>31. ASSUME SetProcessingWindow PROVE RowsOK'
  BY <1>31 DEF SetProcessingWindow, QueueInv, RowsOK, rowVars, confVars, listenVars,
       upgradeVars, rangeVars
<1>32. ASSUME DoStopAndRemove PROVE RowsOK'
  BY <1>32 DEF DoStopAndRemove, QueueInv, RowsOK, rowVars, confVars, listenVars,
       upgradeVars, rangeVars
<1>33. ASSUME CloseDone PROVE RowsOK'
  BY <1>33 DEF CloseDone, QueueInv, RowsOK, rowVars, confVars, listenVars,
       upgradeVars, rangeVars
<1>34. ASSUME ForgetDone PROVE RowsOK'
  BY <1>34 DEF ForgetDone, QueueInv, RowsOK, rowVars, confVars, listenVars,
       upgradeVars, rangeVars
<1> QED BY <1>1, <1>2, <1>3, <1>4, <1>5, <1>6, <1>7, <1>8, <1>9, <1>10, <1>11, <1>12,
           <1>13, <1>14, <1>15, <1>16, <1>17, <1>18, <1>19, <1>20, <1>21, <1>22, <1>23, <1>24,
           <1>25, <1>26, <1>27, <1>28, <1>29, <1>30, <1>31, <1>32, <1>33, <1>34
        DEF Next, Listen, RangeStep

LEMMA LooksAtPipeline ==
  ASSUME QueueInv, rpc = "next"
  PROVE  View[place] \in Pipelines
<1>1. View \in Seq(Pipelines)
  BY ConcatProperties DEF QueueInv, PendingInv, View
<1>2. place \in 1 .. Len(View)
  BY <1>1 DEF QueueInv, ControlOK, RangeInv, Ranged
<1> QED BY <1>1, <1>2

LEMMA ControlStep ==
  QueueInv /\ Next => ControlOK'
<1> SUFFICES ASSUME QueueInv, Next PROVE ControlOK'
  OBVIOUS
<1>0. rpc # "panic"
  BY DEF Next, Alive
<1>1. ASSUME NEW l \in Listeners, Watch(l) PROVE ControlOK'
  BY <1>1 DEF Watch, QueueInv, ControlOK, chanVars, listenVars,
       rangeVars, Places
<1>2. ASSUME NEW l \in Listeners, QueryPipelineDetail(l) PROVE ControlOK'
  BY <1>2, ListenerFacts DEF QueryPipelineDetail, QueueInv, ControlOK, chanVars, listenVars,
       rangeVars, Places
<1>3. ASSUME NEW l \in Listeners, QueryPipelineQueueDetail(l) PROVE ControlOK'
  BY <1>3 DEF QueryPipelineQueueDetail, QueueInv, ControlOK, chanVars, listenVars,
       rangeVars, Places
<1>4. ASSUME NEW l \in Listeners, AddPipelineIntoQueue(l) PROVE ControlOK'
  BY <1>4, ListenerFacts DEF AddPipelineIntoQueue, QueueInv, ControlOK, chanVars, listenVars,
       rangeVars, Places
<1>5. ASSUME NEW l \in Listeners, CheckPipeline(l) PROVE ControlOK'
  BY <1>5, ListenerFacts DEF CheckPipeline, QueueInv, ControlOK, chanVars, listenVars,
       rangeVars, Places
<1>6. ASSUME NEW l \in Listeners, UpdateStatusBeforeReconcile(l) PROVE ControlOK'
  BY <1>6 DEF UpdateStatusBeforeReconcile, QueueInv, ControlOK, chanVars, listenVars,
       rangeVars, Places
<1>7. ASSUME NEW l \in Listeners, ReconcileReturns(l) PROVE ControlOK'
  BY <1>7 DEF ReconcileReturns, QueueInv, ControlOK, chanVars, listenVars,
       rangeVars, Places
<1>8. ASSUME NEW l \in Listeners, TeardownCurrentReconcile(l) PROVE ControlOK'
  BY <1>8, ListenerFacts DEF TeardownCurrentReconcile, QueueInv, ControlOK, chanVars, listenVars,
       rangeVars, Places, PopOut
<1>9. ASSUME NEW l \in Listeners, TeardownSignals(l) PROVE ControlOK'
  <2>1. lock \in Listeners /\ lock[1] \in Pipelines
    BY <1>9, <1>0, ListenerFacts DEF TeardownSignals, QueueInv, LockInv
  <2>2. closed' \subseteq Listeners
    BY <1>9, <2>1 DEF TeardownSignals, CloseChannel, QueueInv, ControlOK, chanVars
  <2>3. doneCh' \in [Pipelines -> Listeners \cup {None}]
    BY <1>9, <2>1 DEF TeardownSignals, CloseChannel, QueueInv, ControlOK, chanVars
  <2>4. pc' \in [Listeners -> Places]
    BY <1>9, <2>1 DEF TeardownSignals, Signalled, QueueInv, ControlOK, Places
  <2> QED BY <1>9, <2>2, <2>3, <2>4 DEF TeardownSignals, QueueInv, ControlOK, rangeVars, RangePlaces
<1>10. ASSUME NEW l \in Listeners, UpdateStatusAfterReconcile(l) PROVE ControlOK'
  BY <1>10 DEF UpdateStatusAfterReconcile, QueueInv, ControlOK, chanVars, listenVars,
       rangeVars, Places
<1>11. ASSUME NEW l \in Listeners, ReconcileAgain(l) PROVE ControlOK'
  BY <1>11 DEF ReconcileAgain, QueueInv, ControlOK, chanVars, listenVars,
       rangeVars, Places
<1>12. ASSUME NEW p \in Pipelines, TasksEnd(p) PROVE ControlOK'
  BY <1>12 DEF TasksEnd, QueueInv, ControlOK, chanVars, listenVars,
       rangeVars
<1>13. ASSUME NEW p \in Pipelines, CancelPipeline(p) PROVE ControlOK'
  BY <1>13 DEF CancelPipeline, QueueInv, ControlOK, chanVars, listenVars,
       rangeVars
<1>14. ASSUME NEW p \in Pipelines, CancelPopsOut(p) PROVE ControlOK'
  BY <1>14 DEF CancelPopsOut, QueueInv, ControlOK, chanVars, listenVars,
       rangeVars, PopOut
<1>15. ASSUME NEW p \in Pipelines, CancelSignals(p) PROVE ControlOK'
  <2>1. lock \in Listeners /\ lock[1] \in Pipelines
    BY <1>15, <1>0, ListenerFacts DEF CancelSignals, QueueInv, LockInv
  <2>2. closed' \subseteq Listeners
    BY <1>15, <2>1 DEF CancelSignals, CloseChannel, QueueInv, ControlOK, chanVars
  <2>3. doneCh' \in [Pipelines -> Listeners \cup {None}]
    BY <1>15, <2>1 DEF CancelSignals, CloseChannel, QueueInv, ControlOK, chanVars
  <2>4. pc' \in [Listeners -> Places]
    BY <1>15, <2>1 DEF CancelSignals, Signalled, QueueInv, ControlOK, Places
  <2> QED BY <1>15, <2>2, <2>3, <2>4 DEF CancelSignals, QueueInv, ControlOK, rangeVars, RangePlaces
<1>16. ASSUME NEW p \in Pipelines, UpgradeRead(p) PROVE ControlOK'
  BY <1>16 DEF UpgradeRead, QueueInv, ControlOK, chanVars, listenVars,
       rangeVars
<1>17. ASSUME UpgradeCheck PROVE ControlOK'
  <2>1. <<upgrade.p, 1>> \in Listeners
    BY <1>17 DEF UpgradeCheck, QueueInv, LockInv, Listeners
  <2>2. lock' \in Listeners \cup {None}
    BY <1>17, <2>1 DEF UpgradeCheck, QueueInv, ControlOK
  <2> QED BY <1>17, <2>2 DEF UpgradeCheck, QueueInv, ControlOK, chanVars, listenVars, rangeVars
<1>18. ASSUME UpgradeAdd PROVE ControlOK'
  BY <1>18 DEF UpgradeAdd, QueueInv, ControlOK, chanVars, listenVars,
       rangeVars
<1>19. ASSUME UpdateQueue PROVE ControlOK'
  BY <1>19 DEF UpdateQueue, QueueInv, ControlOK, chanVars, listenVars,
       rangeVars
<1>20. ASSUME RangePendingQueue PROVE ControlOK'
  BY <1>20 DEF RangePendingQueue, QueueInv, ControlOK, chanVars, listenVars,
       rangeVars, RangePlaces
<1>21. ASSUME VisitItem PROVE ControlOK'
  <2>1. View[place] \in Pipelines
    BY <1>21, LooksAtPipeline DEF VisitItem
  <2> QED BY <1>21, <2>1 DEF VisitItem, Continue, QueueInv, ControlOK, chanVars, listenVars,
              RangePlaces
<1>22. ASSUME ValidatePipeline PROVE ControlOK'
  BY <1>22 DEF ValidatePipeline, QueueInv, ControlOK, chanVars, listenVars,
       rangeVars, Continue, RangePlaces
<1>23. ASSUME Precheck PROVE ControlOK'
  BY <1>23 DEF Precheck, QueueInv, ControlOK, chanVars, listenVars,
       rangeVars, Continue, RangePlaces
<1>24. ASSUME MarkPipelineFailed PROVE ControlOK'
  BY <1>24 DEF MarkPipelineFailed, QueueInv, ControlOK, chanVars, listenVars,
       rangeVars, RangePlaces
<1>25. ASSUME DoPop PROVE ControlOK'
  BY <1>25 DEF DoPop, QueueInv, ControlOK, chanVars, listenVars,
       rangeVars, RangePlaces
<1>26. ASSUME ReadDoneCh PROVE ControlOK'
  <2>1. current \in Pipelines
    BY <1>26 DEF ReadDoneCh, QueueInv, RangeInv, Visiting, Ranged
  <2> QED BY <1>26, <2>1 DEF ReadDoneCh, QueueInv, ControlOK, chanVars, listenVars, RangePlaces
<1>27. ASSUME SendDone PROVE ControlOK'
  <2>1. channel \in Listeners /\ channel[1] \in Pipelines
    BY <1>27, ListenerFacts DEF SendDone, QueueInv, RangeInv, Sending
  <2>2. pc' \in [Listeners -> Places]
    BY <1>27, <2>1 DEF SendDone, Signalled, QueueInv, ControlOK, Places
  <2> QED BY <1>27, <2>2 DEF SendDone, QueueInv, ControlOK, chanVars, RangePlaces
<1>28. ASSUME StopIfStrict PROVE ControlOK'
  BY <1>28 DEF StopIfStrict, QueueInv, ControlOK, chanVars, listenVars,
       rangeVars, Continue, RangePlaces
<1>29. ASSUME UnsetNeedReRange PROVE ControlOK'
  BY <1>29 DEF UnsetNeedReRange, QueueInv, ControlOK, chanVars, listenVars,
       rangeVars, RangePlaces
<1>30. ASSUME LeaveRange PROVE ControlOK'
  BY <1>30 DEF LeaveRange, QueueInv, ControlOK, chanVars, listenVars,
       rangeVars, RangePlaces
<1>31. ASSUME SetProcessingWindow PROVE ControlOK'
  BY <1>31 DEF SetProcessingWindow, QueueInv, ControlOK, chanVars, listenVars,
       rangeVars, RangePlaces
<1>32. ASSUME DoStopAndRemove PROVE ControlOK'
  BY <1>32 DEF DoStopAndRemove, QueueInv, ControlOK, chanVars, listenVars,
       rangeVars, RangePlaces
<1>33. ASSUME CloseDone PROVE ControlOK'
  <2>1. channel \in Listeners
    BY <1>33 DEF CloseDone, QueueInv, RangeInv, Sending
  <2> QED BY <1>33, <2>1 DEF CloseDone, QueueInv, ControlOK, listenVars, RangePlaces
<1>34. ASSUME ForgetDone PROVE ControlOK'
  BY <1>34 DEF ForgetDone, QueueInv, ControlOK, chanVars, listenVars,
       rangeVars, RangePlaces
<1> QED BY <1>1, <1>2, <1>3, <1>4, <1>5, <1>6, <1>7, <1>8, <1>9, <1>10, <1>11, <1>12,
           <1>13, <1>14, <1>15, <1>16, <1>17, <1>18, <1>19, <1>20, <1>21, <1>22, <1>23, <1>24,
           <1>25, <1>26, <1>27, <1>28, <1>29, <1>30, <1>31, <1>32, <1>33, <1>34
        DEF Next, Listen, RangeStep

(* What a step does to the array of a range: its places stay, and no array *)
(* is kept for a range that is over.                                       *)
KeepsArray ==
  /\ ranging /\ ranging' => Len(View') >= Len(View)
  /\ ~ranging' => tail' = <<>> /\ frozen' = <<>>

LEMMA PendingSame ==
  ASSUME QueueInv, UNCHANGED pendingVars, ranging' = ranging \/ ranging'
  PROVE  PendingInv' /\ KeepsArray
<1>1. PendingInv'
  <2>1. PendingIsHeap'
    BY DEF QueueInv, PendingInv, PendingIsHeap, Order, Less, pendingVars
  <2> QED BY <2>1 DEF QueueInv, PendingInv, Distinct, pendingVars
<1>2. View' = View /\ View \in Seq(Pipelines)
  BY ConcatProperties DEF View, pendingVars, QueueInv, PendingInv
<1>3. ranging /\ ranging' => Len(View') >= Len(View)
  BY <1>2
<1>4. ~ranging' => tail' = <<>> /\ frozen' = <<>>
  BY DEF QueueInv, RangeInv, pendingVars
<1> QED BY <1>1, <1>3, <1>4 DEF KeepsArray

LEMMA PendingRemoved ==
  ASSUME QueueInv, NEW key \in Pipelines, RemovePending(key), ranging' = ranging
  PROVE  PendingInv' /\ KeepsArray
<1>1. PendingInv' /\ KeepsView /\ KeepsClear
  BY RemoveKeeps DEF QueueInv
<1> QED BY <1>1 DEF KeepsArray, KeepsView, KeepsClear, QueueInv, RangeInv

LEMMA PendingAdded ==
  ASSUME QueueInv, NEW key \in Pipelines, NEW pr \in Nat, AddPending(key, pr),
         ranging' = ranging
  PROVE  PendingInv' /\ KeepsArray
<1>1. PendingInv' /\ KeepsView /\ KeepsClear
  BY AddKeeps DEF QueueInv
<1> QED BY <1>1 DEF KeepsArray, KeepsView, KeepsClear, QueueInv, RangeInv

LEMMA PendingStep ==
  QueueInv /\ Next => PendingInv' /\ KeepsArray
<1> SUFFICES ASSUME QueueInv, Next PROVE PendingInv' /\ KeepsArray
  OBVIOUS
<1>1. ASSUME NEW l \in Listeners, Watch(l) PROVE PendingInv' /\ KeepsArray
  BY <1>1, PendingSame DEF Watch, rangeVars
<1>2. ASSUME NEW l \in Listeners, QueryPipelineDetail(l) PROVE PendingInv' /\ KeepsArray
  BY <1>2, PendingSame DEF QueryPipelineDetail, rangeVars
<1>3. ASSUME NEW l \in Listeners, QueryPipelineQueueDetail(l) PROVE PendingInv' /\ KeepsArray
  BY <1>3, PendingSame DEF QueryPipelineQueueDetail, rangeVars
<1>4. ASSUME NEW l \in Listeners, AddPipelineIntoQueue(l) PROVE PendingInv' /\ KeepsArray
  <2>1. CASE UNCHANGED pendingVars
    BY <1>4, <2>1, PendingSame DEF AddPipelineIntoQueue, rangeVars
  <2>2. CASE AddPending(l[1], asked[l])
    <3>1. l[1] \in Pipelines /\ asked[l] \in Nat
      BY ListenerFacts DEF QueueInv, RowsOK
    <3> QED BY <1>4, <2>2, <3>1, PendingAdded DEF AddPipelineIntoQueue, rangeVars
  <2> QED BY <1>4, <2>1, <2>2 DEF AddPipelineIntoQueue, pendingVars
<1>5. ASSUME NEW l \in Listeners, CheckPipeline(l) PROVE PendingInv' /\ KeepsArray
  BY <1>5, PendingSame DEF CheckPipeline, rangeVars
<1>6. ASSUME NEW l \in Listeners, UpdateStatusBeforeReconcile(l) PROVE PendingInv' /\ KeepsArray
  BY <1>6, PendingSame DEF UpdateStatusBeforeReconcile, rangeVars
<1>7. ASSUME NEW l \in Listeners, ReconcileReturns(l) PROVE PendingInv' /\ KeepsArray
  BY <1>7, PendingSame DEF ReconcileReturns, rangeVars
<1>8. ASSUME NEW l \in Listeners, TeardownCurrentReconcile(l) PROVE PendingInv' /\ KeepsArray
  <2>1. CASE UNCHANGED pendingVars
    BY <1>8, <2>1, PendingSame DEF TeardownCurrentReconcile, rangeVars
  <2>2. CASE RemovePending(l[1])
    BY <1>8, <2>2, ListenerFacts, PendingRemoved DEF TeardownCurrentReconcile, rangeVars
  <2> QED BY <1>8, <2>1, <2>2 DEF TeardownCurrentReconcile, PopOut, pendingVars
<1>9. ASSUME NEW l \in Listeners, TeardownSignals(l) PROVE PendingInv' /\ KeepsArray
  BY <1>9, PendingSame DEF TeardownSignals, rangeVars
<1>10. ASSUME NEW l \in Listeners, UpdateStatusAfterReconcile(l) PROVE PendingInv' /\ KeepsArray
  BY <1>10, PendingSame DEF UpdateStatusAfterReconcile, rangeVars
<1>11. ASSUME NEW l \in Listeners, ReconcileAgain(l) PROVE PendingInv' /\ KeepsArray
  BY <1>11, PendingSame DEF ReconcileAgain, rangeVars
<1>12. ASSUME NEW p \in Pipelines, TasksEnd(p) PROVE PendingInv' /\ KeepsArray
  BY <1>12, PendingSame DEF TasksEnd, rangeVars
<1>13. ASSUME NEW p \in Pipelines, CancelPipeline(p) PROVE PendingInv' /\ KeepsArray
  BY <1>13, PendingSame DEF CancelPipeline, rangeVars
<1>14. ASSUME NEW p \in Pipelines, CancelPopsOut(p) PROVE PendingInv' /\ KeepsArray
  <2>1. CASE UNCHANGED pendingVars
    BY <1>14, <2>1, PendingSame DEF CancelPopsOut, rangeVars
  <2>2. CASE RemovePending(p)
    BY <1>14, <2>2, PendingRemoved DEF CancelPopsOut, rangeVars
  <2> QED BY <1>14, <2>1, <2>2 DEF CancelPopsOut, PopOut, pendingVars
<1>15. ASSUME NEW p \in Pipelines, CancelSignals(p) PROVE PendingInv' /\ KeepsArray
  BY <1>15, PendingSame DEF CancelSignals, rangeVars
<1>16. ASSUME NEW p \in Pipelines, UpgradeRead(p) PROVE PendingInv' /\ KeepsArray
  BY <1>16, PendingSame DEF UpgradeRead, rangeVars
<1>17. ASSUME UpgradeCheck PROVE PendingInv' /\ KeepsArray
  BY <1>17, PendingSame DEF UpgradeCheck, rangeVars
<1>18. ASSUME UpgradeAdd PROVE PendingInv' /\ KeepsArray
  <2>1. CASE UNCHANGED pendingVars
    BY <1>18, <2>1, PendingSame DEF UpgradeAdd, rangeVars
  <2>2. CASE AddPending(upgrade.p, upgrade.priority)
    <3>1. upgrade.p \in Pipelines /\ upgrade.priority \in Nat
      BY <1>18 DEF UpgradeAdd, QueueInv, LockInv, RowsOK, Upgrades
    <3> QED BY <1>18, <2>2, <3>1, PendingAdded DEF UpgradeAdd, rangeVars
  <2> QED BY <1>18, <2>1, <2>2 DEF UpgradeAdd, pendingVars
<1>19. ASSUME UpdateQueue PROVE PendingInv' /\ KeepsArray
  BY <1>19, PendingSame DEF UpdateQueue, rangeVars
<1>20. ASSUME RangePendingQueue PROVE PendingInv' /\ KeepsArray
  <2>1. ~ranging
    BY <1>20 DEF RangePendingQueue, QueueInv, RangeInv
  <2> QED BY <1>20, <2>1, PendingSame DEF RangePendingQueue
<1>21. ASSUME VisitItem PROVE PendingInv' /\ KeepsArray
  <2>1. CASE UNCHANGED pendingVars
    BY <1>21, <2>1, PendingSame DEF VisitItem
  <2>2. CASE RemovePending(View[place])
    BY <1>21, <2>2, LooksAtPipeline, PendingRemoved DEF VisitItem
  <2> QED BY <1>21, <2>1, <2>2 DEF VisitItem, pendingVars
<1>22. ASSUME ValidatePipeline PROVE PendingInv' /\ KeepsArray
  BY <1>22, PendingSame DEF ValidatePipeline
<1>23. ASSUME Precheck PROVE PendingInv' /\ KeepsArray
  BY <1>23, PendingSame DEF Precheck
<1>24. ASSUME MarkPipelineFailed PROVE PendingInv' /\ KeepsArray
  BY <1>24, PendingSame DEF MarkPipelineFailed
<1>25. ASSUME DoPop PROVE PendingInv' /\ KeepsArray
  <2>1. CASE UNCHANGED pendingVars
    BY <1>25, <2>1, PendingSame DEF DoPop
  <2>2. CASE RemovePending(current)
    <3>1. current \in Pipelines
      BY <1>25 DEF DoPop, QueueInv, RangeInv, Visiting, Ranged
    <3> QED BY <1>25, <2>2, <3>1, PendingRemoved DEF DoPop
  <2> QED BY <1>25, <2>1, <2>2 DEF DoPop, pendingVars
<1>26. ASSUME ReadDoneCh PROVE PendingInv' /\ KeepsArray
  BY <1>26, PendingSame DEF ReadDoneCh
<1>27. ASSUME SendDone PROVE PendingInv' /\ KeepsArray
  BY <1>27, PendingSame DEF SendDone
<1>28. ASSUME StopIfStrict PROVE PendingInv' /\ KeepsArray
  BY <1>28, PendingSame DEF StopIfStrict
<1>29. ASSUME UnsetNeedReRange PROVE PendingInv' /\ KeepsArray
  BY <1>29, PendingSame DEF UnsetNeedReRange
<1>30. ASSUME LeaveRange PROVE PendingInv' /\ KeepsArray
  <2>1. /\ items' = items /\ capacity' = capacity /\ priority' = priority
        /\ tail' = <<>> /\ frozen' = <<>> /\ ~ranging'
    BY <1>30 DEF LeaveRange
  <2>2. <<>> \in Seq(Pipelines)
    OBVIOUS
  <2>3. PendingIsHeap'
    BY <2>1 DEF QueueInv, PendingInv, PendingIsHeap, Order, Less
  <2> QED BY <2>1, <2>2, <2>3 DEF QueueInv, PendingInv, KeepsArray
<1>31. ASSUME SetProcessingWindow PROVE PendingInv' /\ KeepsArray
  BY <1>31, PendingSame DEF SetProcessingWindow, rangeVars
<1>32. ASSUME DoStopAndRemove PROVE PendingInv' /\ KeepsArray
  <2>1. current \in Pipelines
    BY <1>32 DEF DoStopAndRemove, QueueInv, RangeInv, Visiting, Ranged
  <2> QED BY <1>32, <2>1, PendingRemoved DEF DoStopAndRemove
<1>33. ASSUME CloseDone PROVE PendingInv' /\ KeepsArray
  BY <1>33, PendingSame DEF CloseDone, rangeVars
<1>34. ASSUME ForgetDone PROVE PendingInv' /\ KeepsArray
  BY <1>34, PendingSame DEF ForgetDone, rangeVars
<1> QED BY <1>1, <1>2, <1>3, <1>4, <1>5, <1>6, <1>7, <1>8, <1>9, <1>10, <1>11, <1>12,
           <1>13, <1>14, <1>15, <1>16, <1>17, <1>18, <1>19, <1>20, <1>21, <1>22, <1>23, <1>24,
           <1>25, <1>26, <1>27, <1>28, <1>29, <1>30, <1>31, <1>32, <1>33, <1>34
        DEF Next, Listen, RangeStep

LEMMA ViewIsSeq ==
  PendingInv => View \in Seq(Pipelines)
BY ConcatProperties DEF PendingInv, View

LEMMA ViewLength ==
  ASSUME PendingInv, PendingInv', KeepsArray, ranging, ranging', NEW n \in Nat,
         n <= Len(View)
  PROVE  n <= Len(View')
<1>1. View \in Seq(Pipelines)
  BY ViewIsSeq
<1>2. View' \in Seq(Pipelines)
  BY ConcatProperties DEF PendingInv, View
<1>3. Len(View) \in Nat /\ Len(View') \in Nat
  BY <1>1, <1>2
<1>4. Len(View') >= Len(View)
  BY DEF KeepsArray
<1> QED BY <1>3, <1>4

LEMMA KeptRange ==
  ASSUME QueueInv, PendingInv', KeepsArray, rpc' = rpc,
         place' = place, count' = count, ranging' = ranging, current' = current,
         channel' = channel
  PROVE  RangeInv'
<1>1. ASSUME Ranged' PROVE place' \in 1 .. count' /\ count' <= Len(View')
  <2>1. Ranged /\ ranging /\ place \in 1 .. count /\ count \in Nat /\ count <= Len(View)
    BY <1>1 DEF Ranged, QueueInv, RangeInv, ControlOK
  <2>2. count <= Len(View')
    BY <2>1, ViewLength DEF QueueInv
  <2> QED BY <2>1, <2>2
<1>2. /\ rpc' = "idle" => ~ranging'
      /\ rpc' \notin {"idle", "panic"} => ranging'
      /\ Visiting' => current' \in Pipelines
      /\ Sending' => channel' \in Listeners /\ channel'[1] = current'
  BY DEF QueueInv, RangeInv, Visiting, Ranged, Sending
<1> QED BY <1>1, <1>2 DEF RangeInv, KeepsArray

LEMMA GoesOn ==
  ASSUME QueueInv, PendingInv', KeepsArray, Ranged, count' = count, ranging' = ranging,
         current' \in Pipelines,
         \/ /\ rpc' \in {"validate", "precheck", "mark", "remove", "pop", "read", "send",
                        "close", "forget", "strict", "panic"}
            /\ place' = place
         \/ rpc' = "end"
         \/ rpc' = "next" /\ place # count /\ place' = place + 1,
         Sending' => channel' \in Listeners /\ channel'[1] = current'
  PROVE  RangeInv'
<1>1. ranging /\ place \in 1 .. count /\ count \in Nat /\ count <= Len(View)
  BY DEF Ranged, QueueInv, RangeInv, ControlOK
<1>2. count <= Len(View')
  BY <1>1, ViewLength DEF QueueInv
<1>3. Ranged' => place' \in 1 .. count'
  BY <1>1 DEF Ranged
<1>4. rpc' # "idle"
  OBVIOUS
<1> QED BY <1>1, <1>2, <1>3, <1>4 DEF RangeInv, KeepsArray

LEMMA RangeKeeps ==
  QueueInv /\ Next => RangeInv'
<1> SUFFICES ASSUME QueueInv, Next PROVE RangeInv'
  OBVIOUS
<1>0. PendingInv' /\ KeepsArray
  BY PendingStep
<1>1. ASSUME NEW l \in Listeners, Watch(l) PROVE RangeInv'
  BY <1>0, <1>1, KeptRange DEF Watch, rangeVars
<1>2. ASSUME NEW l \in Listeners, QueryPipelineDetail(l) PROVE RangeInv'
  BY <1>0, <1>2, KeptRange DEF QueryPipelineDetail, rangeVars
<1>3. ASSUME NEW l \in Listeners, QueryPipelineQueueDetail(l) PROVE RangeInv'
  BY <1>0, <1>3, KeptRange DEF QueryPipelineQueueDetail, rangeVars
<1>4. ASSUME NEW l \in Listeners, AddPipelineIntoQueue(l) PROVE RangeInv'
  BY <1>0, <1>4, KeptRange DEF AddPipelineIntoQueue, rangeVars
<1>5. ASSUME NEW l \in Listeners, CheckPipeline(l) PROVE RangeInv'
  BY <1>0, <1>5, KeptRange DEF CheckPipeline, rangeVars
<1>6. ASSUME NEW l \in Listeners, UpdateStatusBeforeReconcile(l) PROVE RangeInv'
  BY <1>0, <1>6, KeptRange DEF UpdateStatusBeforeReconcile, rangeVars
<1>7. ASSUME NEW l \in Listeners, ReconcileReturns(l) PROVE RangeInv'
  BY <1>0, <1>7, KeptRange DEF ReconcileReturns, rangeVars
<1>8. ASSUME NEW l \in Listeners, TeardownCurrentReconcile(l) PROVE RangeInv'
  BY <1>0, <1>8, KeptRange DEF TeardownCurrentReconcile, rangeVars
<1>9. ASSUME NEW l \in Listeners, TeardownSignals(l) PROVE RangeInv'
  BY <1>0, <1>9, KeptRange DEF TeardownSignals, rangeVars
<1>10. ASSUME NEW l \in Listeners, UpdateStatusAfterReconcile(l) PROVE RangeInv'
  BY <1>0, <1>10, KeptRange DEF UpdateStatusAfterReconcile, rangeVars
<1>11. ASSUME NEW l \in Listeners, ReconcileAgain(l) PROVE RangeInv'
  BY <1>0, <1>11, KeptRange DEF ReconcileAgain, rangeVars
<1>12. ASSUME NEW p \in Pipelines, TasksEnd(p) PROVE RangeInv'
  BY <1>0, <1>12, KeptRange DEF TasksEnd, rangeVars
<1>13. ASSUME NEW p \in Pipelines, CancelPipeline(p) PROVE RangeInv'
  BY <1>0, <1>13, KeptRange DEF CancelPipeline, rangeVars
<1>14. ASSUME NEW p \in Pipelines, CancelPopsOut(p) PROVE RangeInv'
  BY <1>0, <1>14, KeptRange DEF CancelPopsOut, rangeVars
<1>15. ASSUME NEW p \in Pipelines, CancelSignals(p) PROVE RangeInv'
  BY <1>0, <1>15, KeptRange DEF CancelSignals, rangeVars
<1>16. ASSUME NEW p \in Pipelines, UpgradeRead(p) PROVE RangeInv'
  BY <1>0, <1>16, KeptRange DEF UpgradeRead, rangeVars
<1>17. ASSUME UpgradeCheck PROVE RangeInv'
  BY <1>0, <1>17, KeptRange DEF UpgradeCheck, rangeVars
<1>18. ASSUME UpgradeAdd PROVE RangeInv'
  BY <1>0, <1>18, KeptRange DEF UpgradeAdd, rangeVars
<1>19. ASSUME UpdateQueue PROVE RangeInv'
  BY <1>0, <1>19, KeptRange DEF UpdateQueue, rangeVars
<1>20. ASSUME RangePendingQueue PROVE RangeInv'
  <2>1. /\ tail = <<>> /\ frozen = <<>>
    BY <1>20 DEF RangePendingQueue, QueueInv, RangeInv
  <2>2. View = items \o <<>> /\ View' = View
    BY <1>20, <2>1 DEF RangePendingQueue, View, pendingVars
  <2>3. View' = items
    BY <2>2, ConcatEmptySeq DEF QueueInv, PendingInv
  <2>4. Len(items) \in Nat \ {0}
    BY <1>20, EmptySeq DEF RangePendingQueue, QueueInv, PendingInv
  <2>5. rpc' = "next" /\ ranging' /\ place' = 1 /\ count' = Len(items)
    BY <1>20 DEF RangePendingQueue
  <2> QED BY <2>3, <2>4, <2>5 DEF RangeInv, Ranged, Visiting, Sending
<1>21. ASSUME VisitItem PROVE RangeInv'
  <2>1. count' = count /\ ranging' = ranging /\ current' \in Pipelines
    BY <1>21, LooksAtPipeline DEF VisitItem
  <2>2. \/ rpc' = "validate" /\ place' = place
        \/ rpc' = "end"
        \/ rpc' = "next" /\ place # count /\ place' = place + 1
    BY <1>21 DEF VisitItem, Continue
  <2>3. Ranged /\ rpc = "next"
    BY <1>21 DEF VisitItem, Ranged
  <2> QED BY <1>0, <2>1, <2>2, <2>3, GoesOn DEF Sending
<1>22. ASSUME ValidatePipeline PROVE RangeInv'
  <2>1. count' = count /\ ranging' = ranging /\ current' = current
    BY <1>22 DEF ValidatePipeline
  <2>2. \/ rpc' \in {"panic", "precheck"} /\ place' = place
        \/ rpc' = "end"
        \/ rpc' = "next" /\ place # count /\ place' = place + 1
    BY <1>22 DEF ValidatePipeline, Continue
  <2>3. Ranged /\ Visiting
    BY <1>22 DEF ValidatePipeline, Ranged, Visiting
  <2>4. current \in Pipelines
    BY <2>3 DEF QueueInv, RangeInv
  <2> QED BY <1>0, <2>1, <2>2, <2>3, <2>4, GoesOn DEF Sending
<1>23. ASSUME Precheck PROVE RangeInv'
  <2>1. count' = count /\ ranging' = ranging /\ current' = current
    BY <1>23 DEF Precheck
  <2>2. \/ rpc' \in {"pop", "mark"} /\ place' = place
        \/ rpc' = "end"
        \/ rpc' = "next" /\ place # count /\ place' = place + 1
    BY <1>23 DEF Precheck, Continue
  <2>3. Ranged /\ Visiting
    BY <1>23 DEF Precheck, Ranged, Visiting
  <2>4. current \in Pipelines
    BY <2>3 DEF QueueInv, RangeInv
  <2> QED BY <1>0, <2>1, <2>2, <2>3, <2>4, GoesOn DEF Sending
<1>24. ASSUME MarkPipelineFailed PROVE RangeInv'
  <2>1. /\ count' = count /\ ranging' = ranging /\ current' = current
        /\ rpc' = "remove" /\ place' = place
    BY <1>24 DEF MarkPipelineFailed
  <2>2. Ranged /\ Visiting
    BY <1>24 DEF MarkPipelineFailed, Ranged, Visiting
  <2>3. current \in Pipelines
    BY <2>2 DEF QueueInv, RangeInv
  <2> QED BY <1>0, <2>1, <2>2, <2>3, GoesOn DEF Sending
<1>25. ASSUME DoPop PROVE RangeInv'
  <2>1. /\ count' = count /\ ranging' = ranging /\ current' = current
        /\ rpc' \in {"read", "end"} /\ place' = place
    BY <1>25 DEF DoPop
  <2>2. Ranged /\ Visiting
    BY <1>25 DEF DoPop, Ranged, Visiting
  <2>3. current \in Pipelines
    BY <2>2 DEF QueueInv, RangeInv
  <2> QED BY <1>0, <2>1, <2>2, <2>3, GoesOn DEF Sending
<1>26. ASSUME ReadDoneCh PROVE RangeInv'
  <2>1. /\ count' = count /\ ranging' = ranging /\ current' = current /\ place' = place
        /\ channel' = doneCh[current] /\ rpc' = IF channel' = None THEN "strict" ELSE "send"
    BY <1>26 DEF ReadDoneCh
  <2>2. Ranged /\ Visiting
    BY <1>26 DEF ReadDoneCh, Ranged, Visiting
  <2>3. current \in Pipelines
    BY <2>2 DEF QueueInv, RangeInv
  <2>4. channel' # None => channel' \in Listeners /\ channel'[1] = current
    BY <2>1, <2>3 DEF QueueInv, ControlOK, LockInv
  <2> QED BY <1>0, <2>1, <2>2, <2>3, <2>4, GoesOn DEF Sending
<1>27. ASSUME SendDone PROVE RangeInv'
  <2>1. /\ count' = count /\ ranging' = ranging /\ current' = current /\ place' = place
        /\ channel' = channel /\ rpc' \in {"close", "panic"}
    BY <1>27 DEF SendDone
  <2>2. Ranged /\ Visiting
    BY <1>27 DEF SendDone, Ranged, Visiting
  <2>3. current \in Pipelines
    BY <2>2 DEF QueueInv, RangeInv
  <2>4. channel \in Listeners /\ channel[1] = current
    BY <1>27 DEF SendDone, QueueInv, RangeInv, Sending
  <2> QED BY <1>0, <2>1, <2>2, <2>3, <2>4, GoesOn DEF Sending
<1>28. ASSUME StopIfStrict PROVE RangeInv'
  <2>1. count' = count /\ ranging' = ranging /\ current' = current
    BY <1>28 DEF StopIfStrict
  <2>2. \/ rpc' = "end"
        \/ rpc' = "next" /\ place # count /\ place' = place + 1
    BY <1>28 DEF StopIfStrict, Continue
  <2>3. Ranged /\ Visiting
    BY <1>28 DEF StopIfStrict, Ranged, Visiting
  <2>4. current \in Pipelines
    BY <2>3 DEF QueueInv, RangeInv
  <2> QED BY <1>0, <2>1, <2>2, <2>3, <2>4, GoesOn DEF Sending
<1>29. ASSUME UnsetNeedReRange PROVE RangeInv'
  BY <1>0, <1>29 DEF UnsetNeedReRange, RangeInv, Ranged, Visiting, Sending, KeepsArray, QueueInv
<1>30. ASSUME LeaveRange PROVE RangeInv'
  BY <1>0, <1>30 DEF LeaveRange, RangeInv, Ranged, Visiting, Sending, KeepsArray
<1>31. ASSUME SetProcessingWindow PROVE RangeInv'
  BY <1>0, <1>31, KeptRange DEF SetProcessingWindow, rangeVars
<1>32. ASSUME DoStopAndRemove PROVE RangeInv'
  <2>1. /\ count' = count /\ ranging' = ranging /\ current' = current
        /\ rpc' = "strict" /\ place' = place
    BY <1>32 DEF DoStopAndRemove
  <2>2. Ranged /\ Visiting
    BY <1>32 DEF DoStopAndRemove, Ranged, Visiting
  <2>3. current \in Pipelines
    BY <2>2 DEF QueueInv, RangeInv
  <2> QED BY <1>0, <2>1, <2>2, <2>3, GoesOn DEF Sending
<1>33. ASSUME CloseDone PROVE RangeInv'
  <2>1. /\ count' = count /\ ranging' = ranging /\ current' = current
        /\ rpc' = "forget" /\ place' = place /\ channel' = channel
    BY <1>33 DEF CloseDone
  <2>2. Ranged /\ Visiting
    BY <1>33 DEF CloseDone, Ranged, Visiting
  <2>3. current \in Pipelines
    BY <2>2 DEF QueueInv, RangeInv
  <2>4. channel \in Listeners /\ channel[1] = current
    BY <1>33 DEF CloseDone, QueueInv, RangeInv, Sending
  <2> QED BY <1>0, <2>1, <2>2, <2>3, <2>4, GoesOn DEF Sending
<1>34. ASSUME ForgetDone PROVE RangeInv'
  <2>1. /\ count' = count /\ ranging' = ranging /\ current' = current
        /\ rpc' = "strict" /\ place' = place
    BY <1>34 DEF ForgetDone
  <2>2. Ranged /\ Visiting
    BY <1>34 DEF ForgetDone, Ranged, Visiting
  <2>3. current \in Pipelines
    BY <2>2 DEF QueueInv, RangeInv
  <2> QED BY <1>0, <2>1, <2>2, <2>3, GoesOn DEF Sending
<1> QED BY <1>1, <1>2, <1>3, <1>4, <1>5, <1>6, <1>7, <1>8, <1>9, <1>10, <1>11, <1>12,
           <1>13, <1>14, <1>15, <1>16, <1>17, <1>18, <1>19, <1>20, <1>21, <1>22, <1>23, <1>24,
           <1>25, <1>26, <1>27, <1>28, <1>29, <1>30, <1>31, <1>32, <1>33, <1>34
        DEF Next, Listen, RangeStep

LEMMA LockKeeps ==
  QueueInv /\ Next => LockInv'
<1> SUFFICES ASSUME QueueInv, Next PROVE LockInv'
  OBVIOUS
<1>0. rpc # "panic"
  BY DEF Next, Alive
<1>1. ASSUME NEW l \in Listeners, Watch(l) PROVE LockInv'
  BY <1>0, <1>1, ListenerFacts, NoListener DEF Watch, QueueInv, LockInv, ControlOK, RowsOK,
       Upgrades, chanVars, listenVars, upgradeVars, rangeVars
<1>2. ASSUME NEW l \in Listeners, QueryPipelineDetail(l) PROVE LockInv'
  BY <1>0, <1>2, ListenerFacts, NoListener DEF QueryPipelineDetail, QueueInv, LockInv, ControlOK, RowsOK,
       Upgrades, chanVars, listenVars, upgradeVars, rangeVars
<1>3. ASSUME NEW l \in Listeners, QueryPipelineQueueDetail(l) PROVE LockInv'
  BY <1>0, <1>3, ListenerFacts, NoListener DEF QueryPipelineQueueDetail, QueueInv, LockInv, ControlOK, RowsOK,
       Upgrades, chanVars, listenVars, upgradeVars, rangeVars
<1>4. ASSUME NEW l \in Listeners, AddPipelineIntoQueue(l) PROVE LockInv'
  BY <1>0, <1>4, ListenerFacts, NoListener DEF AddPipelineIntoQueue, QueueInv, LockInv, ControlOK, RowsOK,
       Upgrades, chanVars, listenVars, upgradeVars, rangeVars
<1>5. ASSUME NEW l \in Listeners, CheckPipeline(l) PROVE LockInv'
  BY <1>0, <1>5, ListenerFacts, NoListener DEF CheckPipeline, QueueInv, LockInv, ControlOK, RowsOK,
       Upgrades, chanVars, listenVars, upgradeVars, rangeVars
<1>6. ASSUME NEW l \in Listeners, UpdateStatusBeforeReconcile(l) PROVE LockInv'
  BY <1>0, <1>6, ListenerFacts, NoListener DEF UpdateStatusBeforeReconcile, QueueInv, LockInv, ControlOK, RowsOK,
       Upgrades, chanVars, listenVars, upgradeVars, rangeVars
<1>7. ASSUME NEW l \in Listeners, ReconcileReturns(l) PROVE LockInv'
  BY <1>0, <1>7, ListenerFacts, NoListener DEF ReconcileReturns, QueueInv, LockInv, ControlOK, RowsOK,
       Upgrades, chanVars, listenVars, upgradeVars, rangeVars
<1>8. ASSUME NEW l \in Listeners, TeardownCurrentReconcile(l) PROVE LockInv'
  BY <1>0, <1>8, ListenerFacts, NoListener DEF TeardownCurrentReconcile, QueueInv, LockInv, ControlOK, RowsOK,
       Upgrades, chanVars, listenVars, upgradeVars, rangeVars, PopOut
<1>9. ASSUME NEW l \in Listeners, TeardownSignals(l) PROVE LockInv'
  BY <1>0, <1>9, ListenerFacts, NoListener DEF TeardownSignals, QueueInv, LockInv, ControlOK, RowsOK,
       Upgrades, chanVars, listenVars, upgradeVars, rangeVars, Signalled, CloseChannel
<1>10. ASSUME NEW l \in Listeners, UpdateStatusAfterReconcile(l) PROVE LockInv'
  BY <1>0, <1>10, ListenerFacts, NoListener DEF UpdateStatusAfterReconcile, QueueInv, LockInv, ControlOK, RowsOK,
       Upgrades, chanVars, listenVars, upgradeVars, rangeVars
<1>11. ASSUME NEW l \in Listeners, ReconcileAgain(l) PROVE LockInv'
  BY <1>0, <1>11, ListenerFacts, NoListener DEF ReconcileAgain, QueueInv, LockInv, ControlOK, RowsOK,
       Upgrades, chanVars, listenVars, upgradeVars, rangeVars
<1>12. ASSUME NEW p \in Pipelines, TasksEnd(p) PROVE LockInv'
  BY <1>0, <1>12, ListenerFacts, NoListener DEF TasksEnd, QueueInv, LockInv, ControlOK, RowsOK,
       Upgrades, chanVars, listenVars, upgradeVars, rangeVars
<1>13. ASSUME NEW p \in Pipelines, CancelPipeline(p) PROVE LockInv'
  BY <1>0, <1>13, ListenerFacts, NoListener DEF CancelPipeline, QueueInv, LockInv, ControlOK, RowsOK,
       Upgrades, chanVars, listenVars, upgradeVars, rangeVars
<1>14. ASSUME NEW p \in Pipelines, CancelPopsOut(p) PROVE LockInv'
  BY <1>0, <1>14, ListenerFacts, NoListener DEF CancelPopsOut, QueueInv, LockInv, ControlOK, RowsOK,
       Upgrades, chanVars, listenVars, upgradeVars, rangeVars, PopOut
<1>15. ASSUME NEW p \in Pipelines, CancelSignals(p) PROVE LockInv'
  BY <1>0, <1>15, ListenerFacts, NoListener DEF CancelSignals, QueueInv, LockInv, ControlOK, RowsOK,
       Upgrades, chanVars, listenVars, upgradeVars, rangeVars, Signalled, CloseChannel
<1>16. ASSUME NEW p \in Pipelines, UpgradeRead(p) PROVE LockInv'
  BY <1>0, <1>16, ListenerFacts, NoListener DEF UpgradeRead, QueueInv, LockInv, ControlOK, RowsOK,
       Upgrades, chanVars, listenVars, upgradeVars, rangeVars
<1>17. ASSUME UpgradeCheck PROVE LockInv'
  <2>1. /\ \A l \in Listeners : pc'[l] # "unlock"
        /\ \A r \in Pipelines : cancel'[r] # "unlock"
    BY <1>0, <1>17, NoListener DEF UpgradeCheck, QueueInv, LockInv, listenVars
  <2>2. upgrade.p \in Pipelines /\ upgrades > 0
    BY <1>17 DEF UpgradeCheck, QueueInv, LockInv
  <2>3. <<upgrade.p, 1>> # None
    BY <2>2, NoListener DEF Listeners
  <2>4. /\ upgrade'.at = "add" => lock' # None
        /\ upgrade'.at # "none" => upgrade'.p = upgrade.p
    <3>1. CASE upgrade.p \in Pending
      <4>1. upgrade' = [upgrade EXCEPT !.at = "add", !.priority = priority[items[1]] + 1]
        BY <1>17, <3>1 DEF UpgradeCheck
      <4>2. upgrade'.p = upgrade.p
        BY <4>1 DEF QueueInv, RowsOK, Upgrades
      <4> QED BY <1>17, <2>3, <3>1, <4>2 DEF UpgradeCheck
    <3>2. CASE upgrade.p \notin Pending
      BY <1>17, <3>2 DEF UpgradeCheck, NoUpgrade
    <3> QED BY <3>1, <3>2
  <2> QED BY <1>17, <2>1, <2>2, <2>4 DEF UpgradeCheck, QueueInv, LockInv, chanVars
<1>18. ASSUME UpgradeAdd PROVE LockInv'
  BY <1>0, <1>18, ListenerFacts, NoListener DEF UpgradeAdd, QueueInv, LockInv, ControlOK, RowsOK,
       Upgrades, chanVars, listenVars, upgradeVars, rangeVars, NoUpgrade
<1>19. ASSUME UpdateQueue PROVE LockInv'
  BY <1>0, <1>19, ListenerFacts, NoListener DEF UpdateQueue, QueueInv, LockInv, ControlOK, RowsOK,
       Upgrades, chanVars, listenVars, upgradeVars, rangeVars
<1>20. ASSUME RangePendingQueue PROVE LockInv'
  BY <1>0, <1>20, ListenerFacts, NoListener DEF RangePendingQueue, QueueInv, LockInv, ControlOK, RowsOK,
       Upgrades, chanVars, listenVars, upgradeVars, rangeVars
<1>21. ASSUME VisitItem PROVE LockInv'
  BY <1>0, <1>21, ListenerFacts, NoListener DEF VisitItem, QueueInv, LockInv, ControlOK, RowsOK,
       Upgrades, chanVars, listenVars, upgradeVars, rangeVars
<1>22. ASSUME ValidatePipeline PROVE LockInv'
  BY <1>0, <1>22, ListenerFacts, NoListener DEF ValidatePipeline, QueueInv, LockInv, ControlOK, RowsOK,
       Upgrades, chanVars, listenVars, upgradeVars, rangeVars
<1>23. ASSUME Precheck PROVE LockInv'
  BY <1>0, <1>23, ListenerFacts, NoListener DEF Precheck, QueueInv, LockInv, ControlOK, RowsOK,
       Upgrades, chanVars, listenVars, upgradeVars, rangeVars
<1>24. ASSUME MarkPipelineFailed PROVE LockInv'
  BY <1>0, <1>24, ListenerFacts, NoListener DEF MarkPipelineFailed, QueueInv, LockInv, ControlOK, RowsOK,
       Upgrades, chanVars, listenVars, upgradeVars, rangeVars
<1>25. ASSUME DoPop PROVE LockInv'
  BY <1>0, <1>25, ListenerFacts, NoListener DEF DoPop, QueueInv, LockInv, ControlOK, RowsOK,
       Upgrades, chanVars, listenVars, upgradeVars, rangeVars
<1>26. ASSUME ReadDoneCh PROVE LockInv'
  BY <1>0, <1>26, ListenerFacts, NoListener DEF ReadDoneCh, QueueInv, LockInv, ControlOK, RowsOK,
       Upgrades, chanVars, listenVars, upgradeVars, rangeVars
<1>27. ASSUME SendDone PROVE LockInv'
  BY <1>0, <1>27, ListenerFacts, NoListener DEF SendDone, QueueInv, LockInv, ControlOK, RowsOK,
       Upgrades, chanVars, listenVars, upgradeVars, rangeVars, Signalled
<1>28. ASSUME StopIfStrict PROVE LockInv'
  BY <1>0, <1>28, ListenerFacts, NoListener DEF StopIfStrict, QueueInv, LockInv, ControlOK, RowsOK,
       Upgrades, chanVars, listenVars, upgradeVars, rangeVars
<1>29. ASSUME UnsetNeedReRange PROVE LockInv'
  BY <1>0, <1>29, ListenerFacts, NoListener DEF UnsetNeedReRange, QueueInv, LockInv, ControlOK, RowsOK,
       Upgrades, chanVars, listenVars, upgradeVars, rangeVars
<1>30. ASSUME LeaveRange PROVE LockInv'
  BY <1>0, <1>30, ListenerFacts, NoListener DEF LeaveRange, QueueInv, LockInv, ControlOK, RowsOK,
       Upgrades, chanVars, listenVars, upgradeVars, rangeVars
<1>31. ASSUME SetProcessingWindow PROVE LockInv'
  BY <1>0, <1>31, ListenerFacts, NoListener DEF SetProcessingWindow, QueueInv, LockInv, ControlOK,
       RowsOK, Upgrades, chanVars, listenVars, upgradeVars, rangeVars
<1>32. ASSUME DoStopAndRemove PROVE LockInv'
  BY <1>0, <1>32, ListenerFacts, NoListener DEF DoStopAndRemove, QueueInv, LockInv, ControlOK,
       RowsOK, Upgrades, chanVars, listenVars, upgradeVars, rangeVars
<1>33. ASSUME CloseDone PROVE LockInv'
  BY <1>0, <1>33, ListenerFacts, NoListener DEF CloseDone, QueueInv, LockInv, ControlOK,
       RowsOK, Upgrades, chanVars, listenVars, upgradeVars, rangeVars
<1>34. ASSUME ForgetDone PROVE LockInv'
  BY <1>0, <1>34, ListenerFacts, NoListener DEF ForgetDone, QueueInv, LockInv, ControlOK,
       RowsOK, Upgrades, chanVars, listenVars, upgradeVars, rangeVars
<1> QED BY <1>1, <1>2, <1>3, <1>4, <1>5, <1>6, <1>7, <1>8, <1>9, <1>10, <1>11, <1>12,
           <1>13, <1>14, <1>15, <1>16, <1>17, <1>18, <1>19, <1>20, <1>21, <1>22, <1>23, <1>24,
           <1>25, <1>26, <1>27, <1>28, <1>29, <1>30, <1>31, <1>32, <1>33, <1>34
        DEF Next, Listen, RangeStep

LEMMA QueueInvNext ==
  QueueInv /\ [Next]_vars => QueueInv'
<1> SUFFICES ASSUME QueueInv, [Next]_vars PROVE QueueInv'
  OBVIOUS
<1>1. CASE Next
  BY <1>1, RowsStep, ControlStep, PendingStep, RangeKeeps, LockKeeps DEF QueueInv
<1>2. CASE UNCHANGED vars
  <2>1. RowsOK' /\ ControlOK'
    BY <1>2 DEF QueueInv, RowsOK, ControlOK, vars, rowVars, chanVars, confVars, listenVars,
                upgradeVars, rangeVars
  <2>2. PendingInv' /\ KeepsArray
    BY <1>2, PendingSame DEF vars, rangeVars
  <2>3. RangeInv'
    BY <1>2, <2>2, KeptRange DEF vars, rangeVars
  <2>4. LockInv'
    BY <1>2 DEF QueueInv, LockInv, vars, chanVars, listenVars, upgradeVars, rangeVars
  <2> QED BY <2>1, <2>2, <2>3, <2>4 DEF QueueInv
<1> QED BY <1>1, <1>2

(* The inductive invariant of the queue: types, the pending array as a     *)
(* heap without duplicates, where the range is in the array it looks at,   *)
(* and who holds q.lock.                                                   *)
THEOREM QueueInvHolds == Spec => []QueueInv
BY QueueInvInit, QueueInvNext, PTL DEF Spec

(* The state of a queue and of the goroutines around it is well formed in  *)
(* every reachable state: above all, no key is twice in the pending array  *)
(* and the array has room for its items, whatever listeners, the range,    *)
(* cancels and upgrades do to it, with the lock and without.               *)
THEOREM QueueTypeCorrect == Spec => []PipelineQueueTypeOK
<1>1. QueueInv => PipelineQueueTypeOK
  BY QueueInvTypes
<1> QED BY <1>1, QueueInvHolds, PTL

(* The pending array is a heap in every reachable state, for any pipelines *)
(* and priorities: sorting after an addition or an upgrade, and heap.Remove*)
(* anywhere in the array, leave the pipeline that comes first in the first *)
(* place.                                                                  *)
THEOREM PendingIsOrdered == Spec => []PendingIsHeap
<1>1. QueueInv => PendingIsHeap
  BY QueueInvTypes
<1> QED BY <1>1, QueueInvHolds, PTL

(* The body of PopWithinConcurrency.                                       *)
PopsWithin ==
  \A p \in processing' \ processing :
    p \in Pending /\ p \notin ToSet(items') => Cardinality(processing) < window

LEMMA PopStep ==
  Next => PopsWithin
<1> SUFFICES ASSUME Next PROVE PopsWithin
  OBVIOUS
<1>1. ASSUME NEW l \in Listeners, Watch(l) PROVE PopsWithin
  BY <1>1 DEF Watch, PopsWithin
<1>2. ASSUME NEW l \in Listeners, QueryPipelineDetail(l) PROVE PopsWithin
  BY <1>2 DEF QueryPipelineDetail, PopsWithin
<1>3. ASSUME NEW l \in Listeners, QueryPipelineQueueDetail(l) PROVE PopsWithin
  BY <1>3 DEF QueryPipelineQueueDetail, PopsWithin
<1>4. ASSUME NEW l \in Listeners, AddPipelineIntoQueue(l) PROVE PopsWithin
  BY <1>4 DEF AddPipelineIntoQueue, PopsWithin, pendingVars, Pending
<1>5. ASSUME NEW l \in Listeners, CheckPipeline(l) PROVE PopsWithin
  BY <1>5 DEF CheckPipeline, PopsWithin
<1>6. ASSUME NEW l \in Listeners, UpdateStatusBeforeReconcile(l) PROVE PopsWithin
  BY <1>6 DEF UpdateStatusBeforeReconcile, PopsWithin
<1>7. ASSUME NEW l \in Listeners, ReconcileReturns(l) PROVE PopsWithin
  BY <1>7 DEF ReconcileReturns, PopsWithin
<1>8. ASSUME NEW l \in Listeners, TeardownCurrentReconcile(l) PROVE PopsWithin
  BY <1>8 DEF TeardownCurrentReconcile, PopsWithin, PopOut
<1>9. ASSUME NEW l \in Listeners, TeardownSignals(l) PROVE PopsWithin
  BY <1>9 DEF TeardownSignals, PopsWithin
<1>10. ASSUME NEW l \in Listeners, UpdateStatusAfterReconcile(l) PROVE PopsWithin
  BY <1>10 DEF UpdateStatusAfterReconcile, PopsWithin
<1>11. ASSUME NEW l \in Listeners, ReconcileAgain(l) PROVE PopsWithin
  BY <1>11 DEF ReconcileAgain, PopsWithin
<1>12. ASSUME NEW p \in Pipelines, TasksEnd(p) PROVE PopsWithin
  BY <1>12 DEF TasksEnd, PopsWithin
<1>13. ASSUME NEW p \in Pipelines, CancelPipeline(p) PROVE PopsWithin
  BY <1>13 DEF CancelPipeline, PopsWithin
<1>14. ASSUME NEW p \in Pipelines, CancelPopsOut(p) PROVE PopsWithin
  BY <1>14 DEF CancelPopsOut, PopsWithin, PopOut
<1>15. ASSUME NEW p \in Pipelines, CancelSignals(p) PROVE PopsWithin
  BY <1>15 DEF CancelSignals, PopsWithin
<1>16. ASSUME NEW p \in Pipelines, UpgradeRead(p) PROVE PopsWithin
  BY <1>16 DEF UpgradeRead, PopsWithin
<1>17. ASSUME UpgradeCheck PROVE PopsWithin
  BY <1>17 DEF UpgradeCheck, PopsWithin
<1>18. ASSUME UpgradeAdd PROVE PopsWithin
  BY <1>18 DEF UpgradeAdd, PopsWithin, pendingVars, Pending
<1>19. ASSUME UpdateQueue PROVE PopsWithin
  BY <1>19 DEF UpdateQueue, PopsWithin
<1>20. ASSUME RangePendingQueue PROVE PopsWithin
  BY <1>20 DEF RangePendingQueue, PopsWithin
<1>21. ASSUME VisitItem PROVE PopsWithin
  BY <1>21 DEF VisitItem, PopsWithin
<1>22. ASSUME ValidatePipeline PROVE PopsWithin
  BY <1>22 DEF ValidatePipeline, PopsWithin
<1>23. ASSUME Precheck PROVE PopsWithin
  BY <1>23 DEF Precheck, PopsWithin
<1>24. ASSUME MarkPipelineFailed PROVE PopsWithin
  BY <1>24 DEF MarkPipelineFailed, PopsWithin
<1>25. ASSUME DoPop PROVE PopsWithin
  BY <1>25 DEF DoPop, PopsWithin, Room
<1>26. ASSUME ReadDoneCh PROVE PopsWithin
  BY <1>26 DEF ReadDoneCh, PopsWithin
<1>27. ASSUME SendDone PROVE PopsWithin
  BY <1>27 DEF SendDone, PopsWithin
<1>28. ASSUME StopIfStrict PROVE PopsWithin
  BY <1>28 DEF StopIfStrict, PopsWithin
<1>29. ASSUME UnsetNeedReRange PROVE PopsWithin
  BY <1>29 DEF UnsetNeedReRange, PopsWithin
<1>30. ASSUME LeaveRange PROVE PopsWithin
  BY <1>30 DEF LeaveRange, PopsWithin
<1>31. ASSUME SetProcessingWindow PROVE PopsWithin
  BY <1>31 DEF SetProcessingWindow, PopsWithin
<1>32. ASSUME DoStopAndRemove PROVE PopsWithin
  BY <1>32 DEF DoStopAndRemove, PopsWithin
<1>33. ASSUME CloseDone PROVE PopsWithin
  BY <1>33 DEF CloseDone, PopsWithin
<1>34. ASSUME ForgetDone PROVE PopsWithin
  BY <1>34 DEF ForgetDone, PopsWithin
<1> QED BY <1>1, <1>2, <1>3, <1>4, <1>5, <1>6, <1>7, <1>8, <1>9, <1>10, <1>11, <1>12,
           <1>13, <1>14, <1>15, <1>16, <1>17, <1>18, <1>19, <1>20, <1>21, <1>22, <1>23, <1>24,
           <1>25, <1>26, <1>27, <1>28, <1>29, <1>30, <1>31, <1>32, <1>33, <1>34
        DEF Next, Listen, RangeStep

(* A pipeline moves from the pending to the processing queue only when     *)
(* fewer than Concurrency are being processed: doPop, which does not hold  *)
(* q.lock, looks at the window again after the validation, the precheck    *)
(* and whatever update of the queue came between.                          *)
THEOREM PopsAreWithinConcurrency == Spec => PopWithinConcurrency
<1>1. [Next]_vars => [PopsWithin]_vars
  BY PopStep
<1> QED BY <1>1, PTL DEF Spec, PopWithinConcurrency, PopsWithin

-----------------------------------------------------------------------------
(* With one listener for each pipeline.                                    *)

First(p) == <<p, 1>>
Second(p) == <<p, 2>>

(* A waiting listener has the one open channel of its pipeline, and the    *)
(* pipeline is pending and cached, or somebody is about to signal it, or   *)
(* the precheck has failed it.  A listener that doPop has woken finds the  *)
(* channel until doPop has forgotten it, and does not come past it.        *)
Woken == {"check", "before", "reconcile", "popout", "unlock", "done", "panic"}
Closing(p) == rpc \in {"close", "forget"} /\ current = p

WaitInv(p) ==
  /\ pc[Second(p)] = "none" /\ pc[First(p)] # "none"
  /\ doneCh[p] # None => doneCh[p] = First(p) /\ (pc[First(p)] = "wait" \/ Closing(p))
  /\ pc[First(p)] = "wait" => doneCh[p] = First(p)
  /\ pc[First(p)] \in {"save", "add", "wait"} => First(p) \notin closed
  /\ cancel[p] = "unlock" => lock = First(p)
  /\ pc[First(p)] = "unlock" => lock = First(p)
  /\ Sending /\ current = p => channel = First(p)
  /\ Closing(p) => doneCh[p] = First(p) /\ pc[First(p)] \in Woken
  /\ rpc = "remove" /\ current = p => p \in rejected
  /\ pc[First(p)] = "wait" =>
       \/ p \in rejected \/ cancel[p] = "unlock"
       \/ p \in (Pending \cap caches) \/ Popping(p)

WaitAll == \A p \in Pipelines : WaitInv(p)

LEMMA FirstFacts ==
  ASSUME NEW p \in Pipelines
  PROVE  /\ First(p) \in Listeners /\ First(p)[1] = p /\ First(p) # None
         /\ Second(p) \in Listeners /\ Second(p)[1] = p /\ Second(p) # First(p)
         /\ \A l \in Listeners : l[1] = p => l = First(p) \/ l = Second(p)
BY NoListener DEF First, Second, Listeners

LEMMA SamePending ==
  ASSUME items' = items
  PROVE  Pending' = Pending
BY DEF Pending

(* A step that is not about pipeline p.                                    *)
Untouched(p) ==
  /\ pc'[First(p)] = pc[First(p)] /\ pc'[Second(p)] = pc[Second(p)]
  /\ doneCh'[p] = doneCh[p] /\ status'[p] = status[p] /\ cancel'[p] = cancel[p]
  /\ First(p) \in closed' <=> First(p) \in closed
  /\ p \in Pending' <=> p \in Pending
  /\ p \in caches' <=> p \in caches
  /\ p \in processing' <=> p \in processing
  /\ p \in rejected' <=> p \in rejected
  /\ failures' >= failures
  /\ cancel[p] = "unlock" \/ pc[First(p)] = "unlock" => lock' = lock

LEMMA OtherListener ==
  ASSUME Twice = {}, QueueInv, WaitAll, rpc # "panic", NEW r \in Pipelines,
         NEW l \in Listeners, Listen(l), l[1] # r
  PROVE  Untouched(r) /\ UNCHANGED rangeVars
<1>0. /\ First(r) \in Listeners /\ Second(r) \in Listeners
      /\ l # First(r) /\ l # Second(r) /\ l[1] \in Pipelines
      /\ cancel[r] = "unlock" \/ pc[First(r)] = "unlock" => lock # None
      /\ failures \in Int
  BY FirstFacts, ListenerFacts DEF WaitAll, WaitInv, QueueInv, RowsOK
<1>1. ASSUME Watch(l) PROVE FALSE
  BY <1>0, <1>1 DEF Watch
<1>2. ASSUME QueryPipelineDetail(l) PROVE Untouched(r) /\ UNCHANGED rangeVars
  <2>1. r \in Pending' <=> r \in Pending
    BY <1>2, SamePending DEF QueryPipelineDetail, pendingVars
  <2> QED BY <1>0, <1>2, <2>1 DEF QueryPipelineDetail, Untouched, QueueInv, RowsOK, ControlOK,
              rowVars, chanVars, listenVars, rangeVars
<1>3. ASSUME QueryPipelineQueueDetail(l) PROVE Untouched(r) /\ UNCHANGED rangeVars
  <2>1. r \in Pending' <=> r \in Pending
    BY <1>3, SamePending DEF QueryPipelineQueueDetail, pendingVars
  <2> QED BY <1>0, <1>3, <2>1 DEF QueryPipelineQueueDetail, Untouched, QueueInv, RowsOK, ControlOK,
              rowVars, chanVars, listenVars, rangeVars
<1>4. ASSUME AddPipelineIntoQueue(l) PROVE Untouched(r) /\ UNCHANGED rangeVars
  <2>1. r \in Pending' <=> r \in Pending
    <3>1. CASE UNCHANGED pendingVars
      BY <3>1, SamePending DEF pendingVars
    <3>2. CASE AddPending(l[1], asked[l])
      <4>1. l[1] \in Pipelines /\ asked[l] \in Nat
        BY ListenerFacts DEF QueueInv, RowsOK
      <4>2. Pending' = Pending \cup {l[1]}
        BY <3>2, <4>1, AddKeeps DEF QueueInv
      <4> QED BY <4>2
    <3> QED BY <1>4, <3>1, <3>2 DEF AddPipelineIntoQueue, pendingVars
  <2> QED BY <1>0, <1>4, <2>1 DEF AddPipelineIntoQueue, Untouched, QueueInv, RowsOK, ControlOK,
              rowVars, chanVars, listenVars, rangeVars
<1>5. ASSUME CheckPipeline(l) PROVE Untouched(r) /\ UNCHANGED rangeVars
  <2>1. r \in Pending' <=> r \in Pending
    BY <1>5, SamePending DEF CheckPipeline, pendingVars
  <2> QED BY <1>0, <1>5, <2>1 DEF CheckPipeline, Untouched, QueueInv, RowsOK, ControlOK,
              rowVars, chanVars, listenVars, rangeVars
<1>6. ASSUME UpdateStatusBeforeReconcile(l) PROVE Untouched(r) /\ UNCHANGED rangeVars
  <2>1. r \in Pending' <=> r \in Pending
    BY <1>6, SamePending DEF UpdateStatusBeforeReconcile, pendingVars
  <2>2. failures' >= failures
    BY <1>0, <1>6 DEF UpdateStatusBeforeReconcile, Fail
  <2> QED BY <1>0, <1>6, <2>1, <2>2 DEF UpdateStatusBeforeReconcile, Untouched, QueueInv, RowsOK, ControlOK,
              rowVars, chanVars, listenVars, rangeVars
<1>7. ASSUME ReconcileReturns(l) PROVE Untouched(r) /\ UNCHANGED rangeVars
  <2>1. r \in Pending' <=> r \in Pending
    BY <1>7, SamePending DEF ReconcileReturns, pendingVars
  <2>2. failures' >= failures
    BY <1>0, <1>7 DEF ReconcileReturns, Fail
  <2> QED BY <1>0, <1>7, <2>1, <2>2 DEF ReconcileReturns, Untouched, QueueInv, RowsOK, ControlOK,
              rowVars, chanVars, listenVars, rangeVars
<1>8. ASSUME TeardownCurrentReconcile(l) PROVE Untouched(r) /\ UNCHANGED rangeVars
  <2>1. r \in Pending' <=> r \in Pending
    <3>1. CASE UNCHANGED pendingVars
      BY <3>1, SamePending DEF pendingVars
    <3>2. CASE RemovePending(l[1])
      <4>1. Pending' = Pending \ {l[1]}
        BY <3>2, ListenerFacts, RemoveKeeps DEF QueueInv
      <4> QED BY <4>1
    <3> QED BY <1>8, <3>1, <3>2 DEF TeardownCurrentReconcile, PopOut, pendingVars
  <2> QED BY <1>0, <1>8, <2>1 DEF TeardownCurrentReconcile, Untouched, QueueInv, RowsOK, ControlOK,
              rowVars, chanVars, listenVars, rangeVars, PopOut
<1>9. ASSUME TeardownSignals(l) PROVE Untouched(r) /\ UNCHANGED rangeVars
  <2>1. r \in Pending' <=> r \in Pending
    BY <1>9, SamePending DEF TeardownSignals, pendingVars
  <2>2. lock = l /\ pc[l] = "unlock"
    BY <1>0, <1>9, FirstFacts DEF TeardownSignals, WaitAll, WaitInv
  <2>3. pc' = [pc EXCEPT ![l] = "panic"] /\ UNCHANGED <<lock, chanVars>>
    BY <1>9, <2>2 DEF TeardownSignals
  <2> QED BY <1>0, <1>9, <2>1, <2>3 DEF TeardownSignals, Untouched, QueueInv, RowsOK, ControlOK,
              rowVars, chanVars, rangeVars
<1>10. ASSUME UpdateStatusAfterReconcile(l) PROVE Untouched(r) /\ UNCHANGED rangeVars
  <2>1. r \in Pending' <=> r \in Pending
    BY <1>10, SamePending DEF UpdateStatusAfterReconcile, pendingVars
  <2> QED BY <1>0, <1>10, <2>1 DEF UpdateStatusAfterReconcile, Untouched, QueueInv, RowsOK, ControlOK,
              rowVars, chanVars, listenVars, rangeVars
<1>11. ASSUME ReconcileAgain(l) PROVE Untouched(r) /\ UNCHANGED rangeVars
  <2>1. r \in Pending' <=> r \in Pending
    BY <1>11, SamePending DEF ReconcileAgain, pendingVars
  <2> QED BY <1>0, <1>11, <2>1 DEF ReconcileAgain, Untouched, QueueInv, RowsOK, ControlOK,
              rowVars, chanVars, listenVars, rangeVars
<1> QED BY <1>1, <1>2, <1>3, <1>4, <1>5, <1>6, <1>7, <1>8, <1>9, <1>10, <1>11 DEF Listen

LEMMA OtherCancel ==
  ASSUME QueueInv, WaitAll, rpc # "panic", NEW r \in Pipelines, NEW p \in Pipelines, p # r,
         CancelPipeline(p) \/ CancelPopsOut(p) \/ CancelSignals(p)
  PROVE  Untouched(r) /\ UNCHANGED rangeVars
<1>0. /\ First(r) \in Listeners /\ Second(r) \in Listeners
      /\ cancel[r] = "unlock" \/ pc[First(r)] = "unlock" =>
           lock # None /\ cancel[p] # "unlock"
      /\ failures \in Int
  BY FirstFacts DEF WaitAll, WaitInv, QueueInv, RowsOK, LockInv
<1>1. ASSUME CancelPipeline(p) PROVE Untouched(r) /\ UNCHANGED rangeVars
  <2>1. Pending' = Pending
    BY <1>1, SamePending DEF CancelPipeline, pendingVars
  <2> QED BY <1>0, <1>1, <2>1 DEF CancelPipeline, Untouched, QueueInv, RowsOK, ControlOK,
              chanVars, listenVars, rangeVars
<1>2. ASSUME CancelPopsOut(p) PROVE Untouched(r) /\ UNCHANGED rangeVars
  <2>1. r \in Pending' <=> r \in Pending
    <3>1. CASE UNCHANGED pendingVars
      BY <3>1, SamePending DEF pendingVars
    <3>2. CASE RemovePending(p)
      <4>1. Pending' = Pending \ {p}
        BY <3>2, RemoveKeeps DEF QueueInv
      <4> QED BY <4>1
    <3> QED BY <1>2, <3>1, <3>2 DEF CancelPopsOut, PopOut, pendingVars
  <2> QED BY <1>0, <1>2, <2>1 DEF CancelPopsOut, PopOut, Untouched, QueueInv, RowsOK, ControlOK,
              rowVars, chanVars, listenVars, rangeVars
<1>3. ASSUME CancelSignals(p) PROVE Untouched(r) /\ UNCHANGED rangeVars
  <2>1. Pending' = Pending
    BY <1>3, SamePending DEF CancelSignals, pendingVars
  <2>2. lock = First(p) /\ lock # First(r) /\ lock # Second(r) /\ lock[1] = p
    BY <1>3, FirstFacts DEF CancelSignals, WaitAll, WaitInv
  <2> QED BY <1>0, <1>3, <2>1, <2>2 DEF CancelSignals, Signalled, CloseChannel, Untouched,
              QueueInv, RowsOK, ControlOK, rowVars, chanVars, listenVars, rangeVars
<1> QED BY <1>1, <1>2, <1>3

LEMMA WaitFrame ==
  ASSUME NEW r \in Pipelines, WaitInv(r), rpc # "panic",
         pc'[First(r)] = pc[First(r)], pc'[Second(r)] = pc[Second(r)],
         doneCh'[r] = doneCh[r], cancel'[r] = cancel[r],
         First(r) \in closed' => First(r) \in closed,
         cancel[r] = "unlock" \/ pc[First(r)] = "unlock" => lock' = lock,
         Sending' /\ current' = r => channel' = First(r),
         Closing(r)' <=> Closing(r),
         rpc' = "remove" /\ current' = r => r \in rejected',
         pc[First(r)] = "wait" =>
           \/ r \in rejected' \/ cancel[r] = "unlock"
           \/ r \in (Pending' \cap caches') \/ Popping(r)'
  PROVE  WaitInv(r)'
BY DEF WaitInv

LEMMA WaitUntouched ==
  ASSUME NEW r \in Pipelines, WaitInv(r), rpc # "panic", Untouched(r), UNCHANGED rangeVars
  PROVE  WaitInv(r)'
<1>1. (Popping(r)' <=> Popping(r)) /\ (Closing(r)' <=> Closing(r))
  BY DEF Popping, Closing, rangeVars
<1>2. /\ Sending' /\ current' = r => channel' = First(r)
      /\ rpc' = "remove" /\ current' = r => r \in rejected'
  BY DEF WaitInv, Sending, rangeVars, Untouched
<1>3. pc[First(r)] = "wait" =>
        \/ r \in rejected' \/ cancel[r] = "unlock"
        \/ r \in (Pending' \cap caches') \/ Popping(r)'
  BY <1>1 DEF WaitInv, Untouched
<1> QED BY <1>1, <1>2, <1>3, WaitFrame DEF Untouched

LEMMA OwnListener ==
  ASSUME Twice = {}, QueueInv, NEW r \in Pipelines, WaitInv(r), rpc # "panic",
         NEW l \in Listeners, Listen(l), l[1] = r
  PROVE  WaitInv(r)'
<1>0. /\ l = First(r) /\ First(r) \in Listeners /\ Second(r) \in Listeners
      /\ First(r) # Second(r) /\ First(r) # None
  BY FirstFacts DEF Listen, Watch, QueryPipelineDetail, QueryPipelineQueueDetail,
     AddPipelineIntoQueue, CheckPipeline, UpdateStatusBeforeReconcile, ReconcileReturns,
     TeardownCurrentReconcile, TeardownSignals, UpdateStatusAfterReconcile, ReconcileAgain,
     WaitInv
<1> DEFINE Same == /\ rpc' = rpc /\ current' = current /\ channel' = channel
                   /\ Closing(r)' = Closing(r) /\ Sending' = Sending
<1>1. ASSUME QueryPipelineDetail(l) PROVE WaitInv(r)'
  <2>1. Same
    BY <1>1 DEF QueryPipelineDetail, rangeVars, Closing, Sending
  <2> HIDE DEF Same
  <2> QED BY <1>0, <1>1, <2>1 DEF Same, QueryPipelineDetail, WaitInv, Woken, QueueInv, ControlOK,
              rowVars, chanVars, listenVars
<1>2. ASSUME QueryPipelineQueueDetail(l) PROVE WaitInv(r)'
  <2>1. Same
    BY <1>2 DEF QueryPipelineQueueDetail, rangeVars, Closing, Sending
  <2> HIDE DEF Same
  <2> QED BY <1>0, <1>2, <2>1 DEF Same, QueryPipelineQueueDetail, WaitInv, Woken, QueueInv, ControlOK,
              rowVars, chanVars, listenVars
<1>3. ASSUME AddPipelineIntoQueue(l) PROVE WaitInv(r)'
  <2>0. Same /\ rejected' = rejected /\ cancel' = cancel /\ lock' = lock /\ closed' = closed
    BY <1>3 DEF AddPipelineIntoQueue, rowVars, rangeVars, Closing, Sending
  <2>1. CASE AfterPipelineQueue(snap[l])
    <3>1. /\ pc[First(r)] = "add" /\ pc'[First(r)] = "check" /\ pc'[Second(r)] = pc[Second(r)]
          /\ doneCh' = doneCh
      BY <1>0, <1>3, <2>1 DEF AddPipelineIntoQueue, QueueInv, ControlOK
    <3> HIDE DEF Same
    <3> QED BY <2>0, <3>1 DEF Same, WaitInv, Woken
  <2>2. CASE ~AfterPipelineQueue(snap[l])
    <3>1. Pending' = Pending \cup {r} /\ caches' = caches \cup {r}
      <4>1. asked[l] \in Nat
        BY DEF QueueInv, RowsOK
      <4> QED BY <1>0, <1>3, <2>2, <4>1, AddKeeps DEF AddPipelineIntoQueue, QueueInv
    <3>2. /\ pc[First(r)] = "add" /\ pc'[First(r)] = "wait" /\ pc'[Second(r)] = pc[Second(r)]
          /\ doneCh'[r] = First(r)
      BY <1>0, <1>3, <2>2 DEF AddPipelineIntoQueue, QueueInv, ControlOK
    <3>3. ~Closing(r)
      BY <3>2 DEF WaitInv, Woken
    <3> HIDE DEF Same
    <3> QED BY <2>0, <3>1, <3>2, <3>3 DEF Same, WaitInv, Woken
  <2> QED BY <2>1, <2>2
<1>4. ASSUME CheckPipeline(l) PROVE WaitInv(r)'
  <2>1. Same
    BY <1>4 DEF CheckPipeline, rangeVars, Closing, Sending
  <2> HIDE DEF Same
  <2> QED BY <1>0, <1>4, <2>1 DEF Same, CheckPipeline, WaitInv, Woken, QueueInv, ControlOK,
              rowVars, chanVars, listenVars
<1>5. ASSUME UpdateStatusBeforeReconcile(l) PROVE WaitInv(r)'
  <2>1. Same
    BY <1>5 DEF UpdateStatusBeforeReconcile, rangeVars, Closing, Sending
  <2> HIDE DEF Same
  <2> QED BY <1>0, <1>5, <2>1 DEF Same, UpdateStatusBeforeReconcile, WaitInv, Woken, QueueInv, ControlOK,
              rowVars, chanVars, listenVars
<1>6. ASSUME ReconcileReturns(l) PROVE WaitInv(r)'
  <2>1. Same
    BY <1>6 DEF ReconcileReturns, rangeVars, Closing, Sending
  <2> HIDE DEF Same
  <2> QED BY <1>0, <1>6, <2>1 DEF Same, ReconcileReturns, WaitInv, Woken, QueueInv, ControlOK,
              rowVars, chanVars, listenVars
<1>7. ASSUME TeardownCurrentReconcile(l) PROVE WaitInv(r)'
  <2>1. Same /\ doneCh' = doneCh /\ closed' = closed /\ cancel' = cancel /\ rejected' = rejected
    BY <1>7 DEF TeardownCurrentReconcile, rowVars, chanVars, rangeVars, Closing, Sending
  <2>2. /\ pc[First(r)] = "popout" /\ lock' = doneCh[r] /\ cancel[r] # "unlock"
        /\ pc'[First(r)] = IF doneCh[r] = None THEN "after" ELSE "unlock"
        /\ pc'[Second(r)] = pc[Second(r)]
    BY <1>0, <1>7 DEF TeardownCurrentReconcile, PopOut, WaitInv, QueueInv, ControlOK
  <2> HIDE DEF Same
  <2> QED BY <1>0, <2>1, <2>2 DEF Same, WaitInv, Woken
<1>8. ASSUME UpdateStatusAfterReconcile(l) PROVE WaitInv(r)'
  <2>1. Same
    BY <1>8 DEF UpdateStatusAfterReconcile, rangeVars, Closing, Sending
  <2> HIDE DEF Same
  <2> QED BY <1>0, <1>8, <2>1 DEF Same, UpdateStatusAfterReconcile, WaitInv, Woken, QueueInv, ControlOK,
              rowVars, chanVars, listenVars
<1>9. ASSUME ReconcileAgain(l) PROVE WaitInv(r)'
  <2>1. Same
    BY <1>9 DEF ReconcileAgain, rangeVars, Closing, Sending
  <2> HIDE DEF Same
  <2> QED BY <1>0, <1>9, <2>1 DEF Same, ReconcileAgain, WaitInv, Woken, QueueInv, ControlOK,
              rowVars, chanVars, listenVars
<1>10. ASSUME TeardownSignals(l) PROVE WaitInv(r)'
  <2>1. lock = First(r) /\ pc[First(r)] = "unlock"
    BY <1>0, <1>10 DEF TeardownSignals, WaitInv
  <2>2. /\ pc' = [pc EXCEPT ![First(r)] = "panic"] /\ UNCHANGED <<lock, chanVars>>
        /\ Same /\ cancel' = cancel /\ rejected' = rejected
    BY <1>0, <1>10, <2>1 DEF TeardownSignals, rowVars, rangeVars, Closing, Sending
  <2>3. pc'[First(r)] = "panic" /\ pc'[Second(r)] = pc[Second(r)]
    BY <1>0, <2>2 DEF QueueInv, ControlOK
  <2> HIDE DEF Same
  <2> QED BY <2>1, <2>2, <2>3 DEF Same, WaitInv, Woken, chanVars
<1>11. ~Watch(l)
  BY <1>0 DEF Watch, WaitInv
<1> QED BY <1>1, <1>2, <1>3, <1>4, <1>5, <1>6, <1>7, <1>8, <1>9, <1>10, <1>11 DEF Listen

LEMMA OwnCancel ==
  ASSUME QueueInv, NEW r \in Pipelines, WaitInv(r), rpc # "panic",
         CancelPipeline(r) \/ CancelPopsOut(r) \/ CancelSignals(r)
  PROVE  WaitInv(r)'
<1>0. /\ First(r) \in Listeners /\ Second(r) \in Listeners
      /\ First(r) # Second(r) /\ First(r) # None /\ First(r)[1] = r
  BY FirstFacts
<1> DEFINE Same == /\ rpc' = rpc /\ current' = current /\ channel' = channel
                   /\ Closing(r)' = Closing(r) /\ Sending' = Sending
                   /\ Popping(r)' = Popping(r) /\ rejected' = rejected
<1>s. Same
  BY DEF CancelPipeline, CancelPopsOut, CancelSignals, rowVars, rangeVars, Closing, Sending,
     Popping
<1> HIDE DEF Same
<1>1. ASSUME CancelPipeline(r) PROVE WaitInv(r)'
  <2>1. /\ Pending' = Pending /\ caches' = caches
        /\ cancel[r] = "none" /\ cancel'[r] \in {"popout", "done"}
    BY <1>1, SamePending DEF CancelPipeline, CanCancel, pendingVars, QueueInv, ControlOK
  <2> QED BY <1>0, <1>1, <1>s, <2>1 DEF Same, CancelPipeline, WaitInv, chanVars, listenVars
<1>2. ASSUME CancelPopsOut(r) PROVE WaitInv(r)'
  <2>1. /\ lock = None /\ lock' = doneCh[r] /\ pc' = pc /\ doneCh' = doneCh /\ closed' = closed
        /\ cancel'[r] = IF doneCh[r] = None THEN "done" ELSE "unlock"
    BY <1>2 DEF CancelPopsOut, PopOut, QueueInv, ControlOK, chanVars, listenVars
  <2> QED BY <1>0, <1>s, <2>1 DEF Same, WaitInv
<1>3. ASSUME CancelSignals(r) PROVE WaitInv(r)'
  <2>1. lock = First(r) /\ cancel'[r] = "done" /\ pc[First(r)] # "unlock"
    BY <1>0, <1>3 DEF CancelSignals, WaitInv, QueueInv, ControlOK, LockInv
  <2>2. CASE First(r) \notin closed
    <3>1. /\ pc[First(r)] = "wait" /\ pc'[First(r)] = "check" /\ pc'[Second(r)] = "none"
          /\ doneCh'[r] = None
      BY <1>0, <1>3, <2>1, <2>2 DEF CancelSignals, Signalled, CloseChannel, QueueInv, ControlOK,
         WaitInv
    <3> QED BY <1>s, <2>1, <3>1 DEF Same, WaitInv, Woken
  <2>3. CASE First(r) \in closed
    <3>1. pc[First(r)] # "wait" /\ pc' = pc /\ doneCh' = doneCh /\ closed' = closed
      BY <1>3, <2>1, <2>3 DEF CancelSignals, WaitInv, chanVars
    <3> QED BY <1>s, <2>1, <3>1 DEF Same, WaitInv
  <2> QED BY <2>2, <2>3
<1> QED BY <1>1, <1>2, <1>3

LEMMA UpgradeWaits ==
  ASSUME QueueInv, NEW r \in Pipelines, WaitInv(r), rpc # "panic",
         \/ UpgradeCheck \/ UpgradeAdd \/ UpdateQueue \/ SetProcessingWindow
         \/ \E p \in Pipelines : UpgradeRead(p)
  PROVE  WaitInv(r)'
<1>0. /\ failures \in Int
      /\ cancel[r] = "unlock" \/ pc[First(r)] = "unlock" => lock # None /\ upgrade.at # "add"
  BY FirstFacts DEF QueueInv, RowsOK, LockInv, WaitInv
<1>1. ASSUME UpgradeCheck PROVE WaitInv(r)'
  <2>1. Pending' = Pending
    BY <1>1, SamePending DEF UpgradeCheck, pendingVars
  <2>2. Untouched(r) /\ UNCHANGED rangeVars
    BY <1>0, <1>1, <2>1 DEF UpgradeCheck, Untouched, rowVars, chanVars, listenVars
  <2> QED BY <2>2, WaitUntouched
<1>2. ASSUME NEW p \in Pipelines, UpgradeRead(p) PROVE WaitInv(r)'
  <2>1. Pending' = Pending
    BY <1>2, SamePending DEF UpgradeRead, pendingVars
  <2>2. Untouched(r) /\ UNCHANGED rangeVars
    BY <1>0, <1>2, <2>1 DEF UpgradeRead, Untouched, rowVars, chanVars, listenVars
  <2> QED BY <2>2, WaitUntouched
<1>3. ASSUME UpdateQueue \/ SetProcessingWindow PROVE WaitInv(r)'
  <2>1. Pending' = Pending
    BY <1>3, SamePending DEF UpdateQueue, SetProcessingWindow, pendingVars
  <2>2. Untouched(r) /\ UNCHANGED rangeVars
    BY <1>0, <1>3, <2>1 DEF UpdateQueue, SetProcessingWindow, Untouched, rowVars, chanVars,
       listenVars
  <2> QED BY <2>2, WaitUntouched
<1>4. ASSUME UpgradeAdd PROVE WaitInv(r)'
  <2>1. Pending \subseteq Pending' /\ caches \subseteq caches'
    <3>1. upgrade.p \in Pipelines /\ upgrade.priority \in Nat
      BY <1>4 DEF UpgradeAdd, QueueInv, LockInv, RowsOK, Upgrades
    <3>2. CASE UNCHANGED pendingVars
      BY <1>4, <3>2, SamePending DEF UpgradeAdd, pendingVars
    <3>3. CASE AddPending(upgrade.p, upgrade.priority)
      BY <1>4, <3>1, <3>3, AddKeeps DEF UpgradeAdd, QueueInv
    <3> QED BY <1>4, <3>2, <3>3 DEF UpgradeAdd, pendingVars
  <2>2. /\ pc' = pc /\ doneCh' = doneCh /\ closed' = closed /\ cancel' = cancel
        /\ rejected' = rejected /\ cancel[r] # "unlock" /\ pc[First(r)] # "unlock"
        /\ UNCHANGED rangeVars
    BY <1>0, <1>4 DEF UpgradeAdd, rowVars, chanVars, listenVars
  <2>3. /\ Popping(r)' <=> Popping(r)
        /\ Closing(r)' <=> Closing(r)
        /\ Sending' /\ current' = r => channel' = First(r)
        /\ rpc' = "remove" /\ current' = r => r \in rejected'
    BY <2>2 DEF Popping, Closing, Sending, rangeVars, WaitInv
  <2>4. pc[First(r)] = "wait" =>
          \/ r \in rejected' \/ cancel[r] = "unlock"
          \/ r \in (Pending' \cap caches') \/ Popping(r)'
    BY <2>1, <2>2, <2>3 DEF WaitInv
  <2> QED BY <2>2, <2>3, <2>4, WaitFrame
<1> QED BY <1>1, <1>2, <1>3, <1>4

LEMMA RangeWaits ==
  ASSUME QueueInv, WaitAll, NEW r \in Pipelines, rpc # "panic", RangeStep
  PROVE  WaitInv(r)'
<1>0. /\ WaitInv(r)
      /\ First(r) \in Listeners /\ Second(r) \in Listeners /\ First(r) # Second(r)
      /\ First(r) # None /\ First(r)[1] = r
  BY FirstFacts DEF WaitAll
<1> DEFINE Frame == /\ pc' = pc /\ doneCh' = doneCh /\ closed' = closed /\ cancel' = cancel
                    /\ lock' = lock
           Waits == \/ r \in rejected' \/ cancel[r] = "unlock"
                    \/ r \in (Pending' \cap caches') \/ Popping(r)'
           Sends == /\ Sending' /\ current' = r => channel' = First(r)
                    /\ Closing(r)' <=> Closing(r)
                    /\ rpc' = "remove" /\ current' = r => r \in rejected'
<1>1. ASSUME Frame, Sends, pc[First(r)] = "wait" => Waits PROVE WaitInv(r)'
  BY <1>0, <1>1, WaitFrame
<1>2. ASSUME \/ RangePendingQueue \/ ValidatePipeline \/ Precheck \/ StopIfStrict
             \/ UnsetNeedReRange \/ LeaveRange
      PROVE  WaitInv(r)'
  <2>1. /\ Frame /\ items' = items /\ caches' = caches /\ rejected' = rejected
        /\ rpc \notin {"read", "send", "close", "forget"}
        /\ rpc' \notin {"send", "close", "forget", "remove"}
    BY <1>2 DEF RangePendingQueue, ValidatePipeline, Precheck, StopIfStrict, UnsetNeedReRange,
       LeaveRange, Continue, rowVars, chanVars, listenVars, pendingVars
  <2>2. pc[First(r)] = "wait" => Waits
    BY <1>0, <2>1, SamePending DEF WaitInv, Popping
  <2>3. Sends
    BY <2>1 DEF Sending, Closing
  <2> QED BY <1>1, <2>1, <2>2, <2>3
<1>3. ASSUME VisitItem PROVE WaitInv(r)'
  <2>1. /\ Frame /\ caches' = caches /\ rejected' = rejected
        /\ rpc \notin {"read", "send", "close", "forget"}
        /\ rpc' \notin {"send", "close", "forget", "remove"}
    BY <1>3 DEF VisitItem, Continue, rowVars, chanVars, listenVars
  <2>2. r \in (Pending \cap caches) => r \in Pending'
    <3>1. CASE UNCHANGED pendingVars
      BY <3>1, SamePending DEF pendingVars
    <3>2. CASE RemovePending(View[place]) /\ View[place] \notin caches
      <4>1. Pending' = Pending \ {View[place]}
        BY <1>3, <3>2, LooksAtPipeline, RemoveKeeps DEF VisitItem, QueueInv
      <4> QED BY <3>2, <4>1
    <3> QED BY <1>3, <3>1, <3>2 DEF VisitItem, pendingVars
  <2>3. pc[First(r)] = "wait" => Waits
    BY <1>0, <2>1, <2>2 DEF WaitInv, Popping
  <2>4. Sends
    BY <2>1 DEF Sending, Closing
  <2> QED BY <1>1, <2>1, <2>3, <2>4
<1>4. ASSUME MarkPipelineFailed PROVE WaitInv(r)'
  <2>1. /\ Frame /\ caches' = caches /\ items' = items /\ rejected' = rejected \cup {current}
        /\ rpc = "mark" /\ rpc' = "remove" /\ current' = current
    BY <1>4 DEF MarkPipelineFailed, chanVars, listenVars, pendingVars
  <2>2. pc[First(r)] = "wait" => Waits
    BY <1>0, <2>1, SamePending DEF WaitInv, Popping
  <2>3. Sends
    BY <2>1 DEF Sending, Closing
  <2> QED BY <1>1, <2>1, <2>2, <2>3
<1>5. ASSUME DoStopAndRemove PROVE WaitInv(r)'
  <2>1. /\ Frame /\ caches' = caches /\ rejected' = rejected
        /\ rpc = "remove" /\ rpc' = "strict" /\ current \in Pipelines
    BY <1>5 DEF DoStopAndRemove, rowVars, chanVars, listenVars, QueueInv, RangeInv, Visiting,
       Ranged
  <2>2. Pending' = Pending \ {current}
    BY <1>5, <2>1, RemoveKeeps DEF DoStopAndRemove, QueueInv
  <2>3. pc[First(r)] = "wait" => Waits
    BY <1>0, <2>1, <2>2 DEF WaitInv, Popping
  <2>4. Sends
    BY <2>1 DEF Sending, Closing
  <2> QED BY <1>1, <2>1, <2>3, <2>4
<1>6. ASSUME DoPop PROVE WaitInv(r)'
  <2>1. /\ Frame /\ caches' = caches /\ rejected' = rejected /\ current' = current
        /\ rpc = "pop" /\ rpc' \in {"read", "end"} /\ current \in Pipelines
    BY <1>6 DEF DoPop, rowVars, chanVars, listenVars, QueueInv, RangeInv, Visiting, Ranged
  <2>2. Pending' = Pending \/ (Pending' = Pending \ {current} /\ rpc' = "read")
    BY <1>6, <2>1, RemoveKeeps, SamePending DEF DoPop, QueueInv, pendingVars
  <2>3. pc[First(r)] = "wait" => Waits
    BY <1>0, <2>1, <2>2 DEF WaitInv, Popping
  <2>4. Sends
    BY <2>1 DEF Sending, Closing
  <2> QED BY <1>1, <2>1, <2>3, <2>4
<1>7. ASSUME ReadDoneCh PROVE WaitInv(r)'
  <2>1. /\ Frame /\ caches' = caches /\ rejected' = rejected /\ items' = items
        /\ current' = current /\ channel' = doneCh[current] /\ rpc = "read"
        /\ rpc' = IF channel' = None THEN "strict" ELSE "send"
    BY <1>7 DEF ReadDoneCh, rowVars, chanVars, listenVars, pendingVars
  <2>2. Sends
    BY <1>0, <2>1 DEF WaitInv, Sending, Closing
  <2>3. current = r /\ pc[First(r)] = "wait" => rpc' = "send"
    BY <1>0, <2>1 DEF WaitInv
  <2>4. pc[First(r)] = "wait" => Waits
    BY <1>0, <2>1, <2>3, SamePending DEF WaitInv, Popping
  <2> QED BY <1>1, <2>1, <2>2, <2>4
<1>8. ASSUME SendDone \/ CloseDone \/ ForgetDone PROVE WaitInv(r)'
  <2>1. current \in Pipelines /\ Sending /\ WaitInv(current)
    BY <1>8 DEF SendDone, CloseDone, ForgetDone, QueueInv, RangeInv, Visiting, Ranged, Sending,
       WaitAll
  <2>2. /\ channel = First(current) /\ channel \in Listeners /\ channel[1] = current
        /\ channel # Second(r) /\ (channel = First(r) <=> current = r)
    BY <1>0, <2>1, FirstFacts DEF WaitInv, First, Second
  <2>3. /\ items' = items /\ caches' = caches /\ rejected' = rejected /\ cancel' = cancel
        /\ lock' = lock /\ current' = current
    BY <1>8 DEF SendDone, CloseDone, ForgetDone, rowVars, pendingVars
  <2>4. Pending' = Pending
    BY <2>3, SamePending
  <2>5. CASE current # r
    <3>1. /\ pc'[First(r)] = pc[First(r)] /\ pc'[Second(r)] = pc[Second(r)]
          /\ doneCh'[r] = doneCh[r] /\ (First(r) \in closed' => First(r) \in closed)
      BY <1>0, <1>8, <2>1, <2>2, <2>5 DEF SendDone, CloseDone, ForgetDone, Signalled, chanVars,
         listenVars, QueueInv, ControlOK
    <3>2. pc[First(r)] = "wait" => Waits
      BY <1>0, <2>3, <2>4, <2>5 DEF WaitInv, Popping
    <3>3. Sends
      BY <2>3, <2>5 DEF Closing
    <3> QED BY <1>0, <2>3, <3>1, <3>2, <3>3, WaitFrame
  <2>6. CASE SendDone /\ current = r
    <3>1. CASE channel \in closed
      <4>1. pc' = pc /\ doneCh' = doneCh /\ closed' = closed /\ rpc' = "panic" /\ rpc = "send"
        BY <2>6, <3>1 DEF SendDone, chanVars
      <4>2. pc[First(r)] # "wait"
        BY <1>0, <2>2, <2>6, <3>1 DEF WaitInv
      <4>3. Sends
        BY <4>1 DEF Sending, Closing
      <4> QED BY <1>1, <2>3, <4>1, <4>2, <4>3
    <3>2. CASE channel \notin closed
      <4>1. /\ pc[First(r)] = "wait" /\ pc' = [pc EXCEPT ![First(r)] = "check"]
            /\ doneCh' = doneCh /\ closed' = closed /\ rpc' = "close" /\ channel' = channel
        BY <2>2, <2>6, <3>2 DEF SendDone, Signalled, chanVars
      <4>2. pc'[First(r)] = "check" /\ pc'[Second(r)] = pc[Second(r)]
        BY <1>0, <4>1 DEF QueueInv, ControlOK
      <4>3. Closing(r)' /\ rpc' # "remove"
        BY <2>3, <2>6, <4>1 DEF Closing
      <4> QED BY <1>0, <2>2, <2>3, <2>6, <4>1, <4>2, <4>3 DEF WaitInv, Woken
    <3> QED BY <3>1, <3>2
  <2>7. CASE CloseDone /\ current = r
    <3>1. /\ pc' = pc /\ doneCh' = doneCh /\ channel' = channel /\ rpc' = "forget"
          /\ Closing(r) /\ Closing(r)' /\ closed' = closed \cup {channel}
      BY <2>3, <2>7 DEF CloseDone, listenVars, Closing
    <3>2. pc[First(r)] \in Woken
      BY <1>0, <3>1 DEF WaitInv
    <3>3. pc[First(r)] \notin {"save", "add", "wait"}
      BY <3>2 DEF Woken
    <3> QED BY <1>0, <2>2, <2>3, <2>7, <3>1, <3>3 DEF WaitInv
  <2>8. CASE ForgetDone /\ current = r
    <3>1. /\ pc' = pc /\ doneCh'[r] = None /\ rpc' = "strict" /\ Closing(r)
          /\ ~Closing(r)' /\ ~Sending' /\ closed' = closed
      BY <2>1, <2>8 DEF ForgetDone, listenVars, Closing, Sending, QueueInv, ControlOK
    <3>2. pc[First(r)] # "wait"
      BY <1>0, <3>1 DEF WaitInv, Woken
    <3> QED BY <1>0, <2>3, <3>1, <3>2 DEF WaitInv
  <2> QED BY <1>8, <2>5, <2>6, <2>7, <2>8
<1> QED BY <1>2, <1>3, <1>4, <1>5, <1>6, <1>7, <1>8 DEF RangeStep

LEMMA TasksEndUntouched ==
  ASSUME QueueInv, NEW p \in Pipelines, TasksEnd(p), NEW r \in Pipelines
  PROVE  Untouched(r) /\ UNCHANGED rangeVars
<1>1. Pending' = Pending /\ failures \in Int
  BY SamePending DEF TasksEnd, pendingVars, QueueInv, RowsOK
<1> QED BY <1>1 DEF TasksEnd, Untouched, chanVars, listenVars

LEMMA WaitNext ==
  ASSUME Twice = {}, QueueInv, WaitAll, [Next]_vars
  PROVE  WaitAll'
<1> SUFFICES ASSUME NEW r \in Pipelines PROVE WaitInv(r)'
  BY DEF WaitAll
<1>0. WaitInv(r)
  BY DEF WaitAll
<1>1. CASE UNCHANGED vars
  <2>1. Pending' = Pending /\ failures \in Int
    BY <1>1, SamePending DEF vars, pendingVars, QueueInv, RowsOK
  <2>2. Popping(r)' = Popping(r) /\ Closing(r)' = Closing(r) /\ Sending' = Sending
    BY <1>1 DEF vars, rangeVars, Popping, Closing, Sending
  <2> QED BY <1>0, <1>1, <2>1, <2>2 DEF WaitInv, vars, rowVars, chanVars, listenVars, rangeVars
<1>2. ASSUME rpc # "panic", NEW l \in Listeners, Listen(l) PROVE WaitInv(r)'
  <2>1. CASE l[1] = r
    BY <1>0, <1>2, <2>1, OwnListener
  <2>2. CASE l[1] # r
    BY <1>0, <1>2, <2>2, OtherListener, WaitUntouched
  <2> QED BY <2>1, <2>2
<1>3. ASSUME rpc # "panic", NEW p \in Pipelines,
             CancelPipeline(p) \/ CancelPopsOut(p) \/ CancelSignals(p)
      PROVE  WaitInv(r)'
  <2>1. CASE p = r
    BY <1>0, <1>3, <2>1, OwnCancel
  <2>2. CASE p # r
    BY <1>0, <1>3, <2>2, OtherCancel, WaitUntouched
  <2> QED BY <2>1, <2>2
<1>4. ASSUME rpc # "panic", NEW p \in Pipelines, TasksEnd(p) PROVE WaitInv(r)'
  BY <1>0, <1>4, TasksEndUntouched, WaitUntouched
<1>5. ASSUME rpc # "panic",
             \/ UpgradeCheck \/ UpgradeAdd \/ UpdateQueue \/ SetProcessingWindow
             \/ \E p \in Pipelines : UpgradeRead(p)
      PROVE  WaitInv(r)'
  BY <1>0, <1>5, UpgradeWaits
<1>6. ASSUME rpc # "panic", RangeStep PROVE WaitInv(r)'
  BY <1>6, RangeWaits
<1> QED BY <1>1, <1>2, <1>3, <1>4, <1>5, <1>6 DEF Next, Alive

LEMMA WaitInit ==
  Init => WaitAll
<1> SUFFICES ASSUME Init, NEW p \in Pipelines PROVE WaitInv(p)
  BY DEF WaitAll
<1>1. First(p) \in Listeners /\ Second(p) \in Listeners /\ First(p)[2] = 1 /\ Second(p)[2] = 2
  BY FirstFacts DEF First, Second
<1>2. pc[First(p)] = "query" /\ pc[Second(p)] = "none"
  BY <1>1 DEF Init
<1> QED BY <1>2 DEF Init, WaitInv, Sending, Closing

(* A goroutine that waits to be popped is known to the queue by its open   *)
(* channel, and its pipeline is pending or just being popped, or is being  *)
(* popped out by a cancel that is going to wake it, or was failed by the   *)
(* precheck; for any errors, cancels, upgrades and updates of the queue,   *)
(* as long as each pipeline has one listener.  (The second listener of a   *)
(* pipeline replaces the channel, and the first then waits for ever.)      *)
THEOREM WaitersAreKnown ==
  Twice = {} => (Spec => []WaiterIsKnown)
<1> SUFFICES ASSUME Twice = {} PROVE Spec => []WaiterIsKnown
  OBVIOUS
<1>1. QueueInv /\ WaitAll /\ [Next]_vars => WaitAll'
  BY WaitNext
<1>2. QueueInv /\ WaitAll => WaiterIsKnown
  <2> SUFFICES ASSUME QueueInv, WaitAll, NEW l \in Listeners, pc[l] = "wait"
               PROVE  \/ l[1] \in rejected
                      \/ doneCh[l[1]] = l /\ (l[1] \in Pending \/ Popping(l[1]))
                      \/ lock = l
    BY DEF WaiterIsKnown
  <2>1. l[1] \in Pipelines /\ WaitInv(l[1])
    BY ListenerFacts DEF WaitAll
  <2>2. l = First(l[1])
    BY <2>1, FirstFacts DEF WaitInv
  <2> QED BY <2>1, <2>2 DEF WaitInv
<1> QED BY <1>1, <1>2, QueueInvHolds, WaitInit, PTL DEF Spec

-----------------------------------------------------------------------------
(* Places of the queue, as long as no priority was upgraded.               *)

Clean(p) == upgrades = 0 /\ cancel[p] = "none"

Out == {"query", "save", "add", "unlock", "after", "again", "panic"}

(* What the processing queue says of a pipeline nobody has cancelled.      *)
PlaceInv(p) ==
  /\ p \in Pending => pc[First(p)] = "wait" /\ p \notin processing /\ p \in caches
  /\ Popping(p) => pc[First(p)] = "wait" /\ p \in processing
  /\ pc[First(p)] = "wait" /\ p \in processing => Popping(p)
  /\ pc[First(p)] \in Out => p \notin processing
  /\ pc[First(p)] \in {"before", "reconcile", "popout"} => p \in processing
  /\ pc[First(p)] = "check" => p \in processing \/ IsEnd(status[p])
  /\ pc[First(p)] = "done" /\ p \in processing => failures > 0 \/ p \in rejected
  /\ p \in processing => p \in caches /\ status[p] # "Success"
  /\ status[p] # "StopByUser"
  /\ status[p] = "Failed" => p \in rejected
  /\ status[p] = "Success" => pc[First(p)] \in {"again", "query", "check", "done"}

PlaceAll == \A p \in Pipelines : Clean(p) => PlaceInv(p)

LEMMA PlaceFrame ==
  ASSUME QueueInv, NEW r \in Pipelines, PlaceInv(r), Untouched(r), failures' \in Int,
         Popping(r)' <=> Popping(r)
  PROVE  PlaceInv(r)'
<1>1. failures > 0 => failures' > 0
  BY DEF QueueInv, RowsOK, Untouched
<1> QED BY <1>1 DEF PlaceInv, Untouched

LEMMA PlaceUntouched ==
  ASSUME QueueInv, QueueInv', NEW r \in Pipelines, PlaceInv(r), Untouched(r),
         UNCHANGED rangeVars
  PROVE  PlaceInv(r)'
<1>1. Popping(r)' <=> Popping(r)
  BY DEF Popping, rangeVars
<1>2. failures' \in Int
  BY DEF QueueInv, RowsOK
<1> QED BY <1>1, <1>2, PlaceFrame

LEMMA OwnPlace ==
  ASSUME Twice = {}, QueueInv, NEW r \in Pipelines, WaitInv(r), PlaceInv(r), Clean(r),
         rpc # "panic", NEW l \in Listeners, Listen(l), l[1] = r
  PROVE  PlaceInv(r)'
<1>0. /\ l = First(r) /\ First(r) \in Listeners /\ Second(r) \in Listeners
      /\ First(r) # Second(r) /\ First(r) # None
  BY FirstFacts DEF Listen, Watch, QueryPipelineDetail, QueryPipelineQueueDetail,
     AddPipelineIntoQueue, CheckPipeline, UpdateStatusBeforeReconcile, ReconcileReturns,
     TeardownCurrentReconcile, TeardownSignals, UpdateStatusAfterReconcile, ReconcileAgain,
     WaitInv
<1>1. ASSUME QueryPipelineDetail(l) PROVE PlaceInv(r)'
  <2>1. Popping(r)' = Popping(r)
    BY <1>1 DEF QueryPipelineDetail, rangeVars, Popping
  <2>2. Pending' = Pending
    BY <1>1, SamePending DEF QueryPipelineDetail, pendingVars
  <2> QED BY <1>0, <1>1, <2>1, <2>2 DEF QueryPipelineDetail, PlaceInv, WaitInv, Clean, Out, QueueInv, ControlOK,
              RowsOK, rowVars, chanVars, listenVars, IsEnd
<1>2. ASSUME QueryPipelineQueueDetail(l) PROVE PlaceInv(r)'
  <2>1. Popping(r)' = Popping(r)
    BY <1>2 DEF QueryPipelineQueueDetail, rangeVars, Popping
  <2>2. Pending' = Pending
    BY <1>2, SamePending DEF QueryPipelineQueueDetail, pendingVars
  <2> QED BY <1>0, <1>2, <2>1, <2>2 DEF QueryPipelineQueueDetail, PlaceInv, WaitInv, Clean, Out, QueueInv, ControlOK,
              RowsOK, rowVars, chanVars, listenVars
<1>3. ASSUME AddPipelineIntoQueue(l) PROVE PlaceInv(r)'
  <2>1. Popping(r)' = Popping(r)
    BY <1>3 DEF AddPipelineIntoQueue, rangeVars, Popping
  <2>2. /\ pc[First(r)] = "add" /\ status' = status /\ rejected' = rejected
        /\ caches' = caches \cup {r}
        /\ r \notin Pending /\ r \notin processing /\ ~Popping(r)
        /\ status[r] \notin {"StopByUser", "Success"}
    BY <1>0, <1>3 DEF AddPipelineIntoQueue, PlaceInv, Out, rowVars
  <2>3. CASE AfterPipelineQueue(snap[l])
    <3>1. Pending' = Pending
      BY <1>3, <2>3, SamePending DEF AddPipelineIntoQueue, pendingVars
    <3>2. pc'[First(r)] = "check" /\ processing' = processing \cup {r}
      BY <1>0, <1>3, <2>3 DEF AddPipelineIntoQueue, QueueInv, ControlOK
    <3> QED BY <2>1, <2>2, <3>1, <3>2 DEF PlaceInv, Out
  <2>4. CASE ~AfterPipelineQueue(snap[l])
    <3>1. Pending' = Pending \cup {r}
      <4>1. asked[l] \in Nat
        BY DEF QueueInv, RowsOK
      <4> QED BY <1>0, <1>3, <2>4, <4>1, AddKeeps DEF AddPipelineIntoQueue, QueueInv
    <3>2. pc'[First(r)] = "wait" /\ processing' = processing
      BY <1>0, <1>3, <2>4 DEF AddPipelineIntoQueue, QueueInv, ControlOK
    <3> QED BY <2>1, <2>2, <3>1, <3>2 DEF PlaceInv, Out
  <2> QED BY <2>3, <2>4
<1>4. ASSUME CheckPipeline(l) PROVE PlaceInv(r)'
  <2>1. Popping(r)' = Popping(r)
    BY <1>4 DEF CheckPipeline, rangeVars, Popping
  <2>2. Pending' = Pending
    BY <1>4, SamePending DEF CheckPipeline, pendingVars
  <2> QED BY <1>0, <1>4, <2>1, <2>2 DEF CheckPipeline, PlaceInv, WaitInv, Clean, Out, QueueInv, ControlOK,
              RowsOK, rowVars, chanVars, listenVars, IsEnd
<1>5. ASSUME UpdateStatusBeforeReconcile(l) PROVE PlaceInv(r)'
  <2>1. Popping(r)' = Popping(r)
    BY <1>5 DEF UpdateStatusBeforeReconcile, rangeVars, Popping
  <2>2. Pending' = Pending
    BY <1>5, SamePending DEF UpdateStatusBeforeReconcile, pendingVars
  <2> QED BY <1>0, <1>5, <2>1, <2>2 DEF UpdateStatusBeforeReconcile, PlaceInv, WaitInv, Clean, Out, QueueInv, ControlOK,
              RowsOK, rowVars, chanVars, listenVars, Fail
<1>6. ASSUME ReconcileReturns(l) PROVE PlaceInv(r)'
  <2>1. Popping(r)' = Popping(r)
    BY <1>6 DEF ReconcileReturns, rangeVars, Popping
  <2>2. Pending' = Pending
    BY <1>6, SamePending DEF ReconcileReturns, pendingVars
  <2> QED BY <1>0, <1>6, <2>1, <2>2 DEF ReconcileReturns, PlaceInv, WaitInv, Clean, Out, QueueInv, ControlOK,
              RowsOK, rowVars, chanVars, listenVars, Fail
<1>7. ASSUME TeardownCurrentReconcile(l) PROVE PlaceInv(r)'
  <2>1. Popping(r)' = Popping(r)
    BY <1>7 DEF TeardownCurrentReconcile, rangeVars, Popping
  <2>2. r \notin Pending
    BY <1>0, <1>7 DEF TeardownCurrentReconcile, PlaceInv
  <2>3. r \notin Pending'
    <3>1. Pending' = Pending \/ Pending' = Pending \ {r}
      BY <1>0, <1>7, RemoveKeeps, SamePending DEF TeardownCurrentReconcile, PopOut, QueueInv, pendingVars
    <3> QED BY <2>2, <3>1
  <2>4. /\ pc'[First(r)] \in {"after", "unlock"} /\ processing' = processing \ {r}
        /\ status' = status /\ rejected' = rejected
    BY <1>0, <1>7, <2>2 DEF TeardownCurrentReconcile, PopOut, QueueInv, ControlOK, rowVars
  <2>5. ~Popping(r) /\ status[r] \notin {"StopByUser", "Success"}
    BY <1>0, <1>7 DEF TeardownCurrentReconcile, PlaceInv
  <2> QED BY <2>1, <2>3, <2>4, <2>5 DEF PlaceInv, Out
<1>8. ASSUME UpdateStatusAfterReconcile(l) PROVE PlaceInv(r)'
  <2>1. Popping(r)' = Popping(r)
    BY <1>8 DEF UpdateStatusAfterReconcile, rangeVars, Popping
  <2>2. Pending' = Pending
    BY <1>8, SamePending DEF UpdateStatusAfterReconcile, pendingVars
  <2> QED BY <1>0, <1>8, <2>1, <2>2 DEF UpdateStatusAfterReconcile, PlaceInv, WaitInv, Clean, Out, QueueInv, ControlOK,
              RowsOK, rowVars, chanVars, listenVars, IsEnd
<1>9. ASSUME ReconcileAgain(l) PROVE PlaceInv(r)'
  <2>1. Popping(r)' = Popping(r)
    BY <1>9 DEF ReconcileAgain, rangeVars, Popping
  <2>2. Pending' = Pending
    BY <1>9, SamePending DEF ReconcileAgain, pendingVars
  <2> QED BY <1>0, <1>9, <2>1, <2>2 DEF ReconcileAgain, PlaceInv, WaitInv, Clean, Out, QueueInv, ControlOK,
              RowsOK, rowVars, chanVars, listenVars
<1>10. ASSUME TeardownSignals(l) PROVE PlaceInv(r)'
  <2>1. Popping(r)' = Popping(r)
    BY <1>10 DEF TeardownSignals, rangeVars, Popping
  <2>2. Pending' = Pending
    BY <1>10, SamePending DEF TeardownSignals, pendingVars
  <2>3. lock = First(r) /\ pc[First(r)] = "unlock"
    BY <1>0, <1>10 DEF TeardownSignals, WaitInv
  <2>4. pc'[First(r)] = "panic"
    BY <1>0, <1>10, <2>3 DEF TeardownSignals, QueueInv, ControlOK
  <2>5. UNCHANGED <<status, rejected, processing, caches, failures>>
    BY <1>10 DEF TeardownSignals, rowVars
  <2> QED BY <2>1, <2>2, <2>3, <2>4, <2>5 DEF PlaceInv, Out
<1>11. ~Watch(l)
  BY <1>0 DEF Watch, WaitInv
<1> QED BY <1>1, <1>2, <1>3, <1>4, <1>5, <1>6, <1>7, <1>8, <1>9, <1>10, <1>11 DEF Listen

LEMMA RangeKeepsPlace ==
  ASSUME QueueInv, QueueInv', WaitAll, NEW r \in Pipelines, PlaceInv(r), rpc # "panic",
         RangeStep
  PROVE  PlaceInv(r)'
<1>0. WaitInv(r) /\ failures \in Int
  BY DEF WaitAll, QueueInv, RowsOK
<1> DEFINE Frame == /\ pc' = pc /\ doneCh' = doneCh /\ closed' = closed /\ cancel' = cancel
                    /\ lock' = lock /\ caches' = caches /\ failures' = failures
<1>1. ASSUME Frame, r \in Pending' <=> r \in Pending, status' = status, rejected' = rejected,
             r \in processing' <=> r \in processing, Popping(r)' <=> Popping(r)
      PROVE  PlaceInv(r)'
  <2>1. Untouched(r) /\ failures' \in Int
    BY <1>0, <1>1 DEF Untouched
  <2> QED BY <1>1, <2>1, PlaceFrame
<1>2. ASSUME \/ RangePendingQueue \/ ValidatePipeline \/ Precheck \/ StopIfStrict
             \/ UnsetNeedReRange \/ LeaveRange
      PROVE  PlaceInv(r)'
  <2>1. /\ Frame /\ items' = items /\ UNCHANGED rowVars /\ processing' = processing
        /\ rpc \notin {"read", "send"} /\ rpc' \notin {"read", "send"}
    BY <1>2 DEF RangePendingQueue, ValidatePipeline, Precheck, StopIfStrict, UnsetNeedReRange,
       LeaveRange, Continue, chanVars, listenVars, pendingVars
  <2>2. Pending' = Pending
    BY <2>1, SamePending
  <2>3. Popping(r)' <=> Popping(r)
    BY <2>1 DEF Popping
  <2> QED BY <1>1, <2>1, <2>2, <2>3 DEF rowVars
<1>3. ASSUME VisitItem PROVE PlaceInv(r)'
  <2>1. /\ Frame /\ UNCHANGED rowVars /\ processing' = processing
        /\ rpc \notin {"read", "send"} /\ rpc' \notin {"read", "send"}
    BY <1>3 DEF VisitItem, Continue, chanVars, listenVars
  <2>2. r \in Pending' <=> r \in Pending
    <3>1. CASE UNCHANGED pendingVars
      BY <3>1, SamePending DEF pendingVars
    <3>2. CASE RemovePending(View[place]) /\ View[place] \notin caches
      <4>1. Pending' = Pending \ {View[place]}
        BY <1>3, <3>2, LooksAtPipeline, RemoveKeeps DEF VisitItem, QueueInv
      <4>2. r \in Pending => r \in caches
        BY DEF PlaceInv
      <4> QED BY <3>2, <4>1, <4>2
    <3> QED BY <1>3, <3>1, <3>2 DEF VisitItem, pendingVars
  <2>3. Popping(r)' <=> Popping(r)
    BY <2>1 DEF Popping
  <2> QED BY <1>1, <2>1, <2>2, <2>3 DEF rowVars
<1>4. ASSUME MarkPipelineFailed PROVE PlaceInv(r)'
  <2>1. /\ Frame /\ status' = [status EXCEPT ![current] = "Failed"]
        /\ rejected' = rejected \cup {current}
        /\ processing' = processing /\ current' = current
        /\ rpc \notin {"read", "send"} /\ rpc' \notin {"read", "send"} /\ current \in Pipelines
    BY <1>4 DEF MarkPipelineFailed, chanVars, listenVars, QueueInv, RangeInv,
       Visiting, Ranged
  <2>2. Pending' = Pending
    BY <1>4, SamePending DEF MarkPipelineFailed, pendingVars
  <2>3. ~Popping(r)' /\ ~Popping(r)
    BY <2>1 DEF Popping
  <2>4. status'[r] = IF current = r THEN "Failed" ELSE status[r]
    BY <2>1 DEF QueueInv, RowsOK
  <2> QED BY <2>1, <2>2, <2>3, <2>4 DEF PlaceInv, IsEnd
<1>5. ASSUME DoPop PROVE PlaceInv(r)'
  <2>1. /\ Frame /\ UNCHANGED rowVars
        /\ rpc \notin {"read", "send"} /\ current \in Pipelines
        /\ current' = current
    BY <1>5 DEF DoPop, chanVars, listenVars, QueueInv, RangeInv, Visiting, Ranged
  <2>2. ~Popping(r)
    BY <2>1 DEF Popping
  <2>3. CASE Room /\ current \in Pending
    <3>1. /\ Pending' = Pending \ {current} /\ rpc' = "read"
          /\ processing' = processing \cup {current}
      BY <1>5, <2>1, <2>3, RemoveKeeps DEF DoPop, QueueInv
    <3>2. CASE current = r
      <4>1. Popping(r)' /\ r \in processing' /\ r \notin Pending'
        BY <2>1, <3>1, <3>2 DEF Popping
      <4>2. pc[First(r)] = "wait" /\ r \in caches
        BY <2>3, <3>2 DEF PlaceInv
      <4> QED BY <2>1, <4>1, <4>2 DEF PlaceInv, Out, rowVars
    <3>3. CASE current # r
      BY <1>1, <2>1, <2>2, <3>1, <3>3 DEF Popping, rowVars
    <3> QED BY <3>2, <3>3
  <2>4. CASE ~(Room /\ current \in Pending)
    <3>1. Pending' = Pending /\ rpc' = "end" /\ processing' = processing
      BY <1>5, <2>4, SamePending DEF DoPop, pendingVars
    <3> QED BY <1>1, <2>1, <2>2, <3>1 DEF Popping, rowVars
  <2> QED BY <2>3, <2>4
<1>6. ASSUME ReadDoneCh PROVE PlaceInv(r)'
  <2>1. /\ Frame /\ UNCHANGED rowVars /\ items' = items /\ processing' = processing
        /\ current' = current /\ rpc = "read" /\ channel' = doneCh[current]
        /\ rpc' = IF channel' = None THEN "strict" ELSE "send"
    BY <1>6 DEF ReadDoneCh, chanVars, listenVars, pendingVars
  <2>2. Pending' = Pending
    BY <2>1, SamePending
  <2>3. current = r => rpc' = "send"
    BY <1>0, <2>1, FirstFacts DEF PlaceInv, WaitInv, Popping
  <2>4. Popping(r)' <=> Popping(r)
    BY <2>1, <2>3 DEF Popping
  <2> QED BY <1>1, <2>1, <2>2, <2>4 DEF rowVars
<1>7. ASSUME SendDone PROVE PlaceInv(r)'
  <2>1. /\ current \in Pipelines /\ rpc = "send" /\ WaitInv(current)
    BY <1>7 DEF SendDone, QueueInv, RangeInv, Visiting, Ranged, WaitAll
  <2>2. channel = First(current)
    BY <2>1 DEF WaitInv, Sending
  <2>3. /\ items' = items /\ caches' = caches /\ status' = status /\ cancel' = cancel
        /\ processing' = processing /\ failures' = failures /\ rejected' = rejected
        /\ lock' = lock /\ current' = current /\ rpc' \in {"close", "panic"}
    BY <1>7 DEF SendDone, rowVars, pendingVars
  <2>4. Pending' = Pending /\ ~Popping(r)'
    BY <2>3, SamePending DEF Popping
  <2>5. /\ First(r) \in Listeners /\ Second(r) \in Listeners /\ First(r) # Second(r)
        /\ channel \in Listeners /\ channel[1] = current /\ channel # Second(r)
    BY <2>1, <2>2, FirstFacts DEF First, Second
  <2>6. CASE current = r
    <3>1. /\ pc[First(r)] = "wait" /\ r \in processing /\ First(r) \notin closed
      BY <1>0, <2>1, <2>6 DEF PlaceInv, Popping, WaitInv
    <3>2. pc'[First(r)] = "check"
      BY <1>7, <2>2, <2>5, <2>6, <3>1 DEF SendDone, Signalled, QueueInv, ControlOK
    <3>3. r \notin Pending
      BY <3>1 DEF PlaceInv
    <3> QED BY <2>3, <2>4, <3>1, <3>2, <3>3 DEF PlaceInv, Out
  <2>7. CASE current # r
    <3>1. /\ pc'[First(r)] = pc[First(r)] /\ pc'[Second(r)] = pc[Second(r)]
          /\ doneCh'[r] = doneCh[r] /\ (First(r) \in closed' <=> First(r) \in closed)
      <4>1. channel # First(r)
        BY <2>5, <2>7, FirstFacts
      <4> QED BY <1>7, <2>5, <2>7, <4>1 DEF SendDone, Signalled, chanVars,
                  QueueInv, ControlOK
    <3>2. Untouched(r)
      BY <1>0, <2>3, <2>4, <3>1 DEF Untouched
    <3>3. ~Popping(r)
      BY <2>7 DEF Popping
    <3> QED BY <1>0, <2>3, <2>4, <3>2, <3>3, PlaceFrame
  <2> QED BY <2>6, <2>7
<1>8. ASSUME DoStopAndRemove PROVE PlaceInv(r)'
  <2>1. /\ Frame /\ UNCHANGED rowVars /\ processing' = processing
        /\ rpc = "remove" /\ rpc' = "strict" /\ current \in Pipelines
    BY <1>8 DEF DoStopAndRemove, chanVars, listenVars, QueueInv, RangeInv, Visiting, Ranged
  <2>2. Pending' = Pending \ {current}
    BY <1>8, <2>1, RemoveKeeps DEF DoStopAndRemove, QueueInv
  <2>3. ~Popping(r)' /\ ~Popping(r)
    BY <2>1 DEF Popping
  <2> QED BY <2>1, <2>2, <2>3 DEF PlaceInv, rowVars
<1>9. ASSUME CloseDone \/ ForgetDone PROVE PlaceInv(r)'
  <2>1. /\ pc' = pc /\ items' = items /\ processing' = processing /\ caches' = caches
        /\ failures' = failures /\ UNCHANGED rowVars
        /\ rpc \in {"close", "forget"} /\ rpc' \in {"forget", "strict"}
    BY <1>9 DEF CloseDone, ForgetDone, listenVars, pendingVars
  <2>2. Pending' = Pending
    BY <2>1, SamePending
  <2>3. ~Popping(r)' /\ ~Popping(r)
    BY <2>1 DEF Popping
  <2> QED BY <2>1, <2>2, <2>3 DEF PlaceInv, rowVars
<1> QED BY <1>2, <1>3, <1>4, <1>5, <1>6, <1>7, <1>8, <1>9 DEF RangeStep

(* A cancel request is begun once, and an upgrade is counted.              *)
LEMMA StaysClean ==
  ASSUME QueueInv, [Next]_vars, NEW r \in Pipelines, Clean(r)'
  PROVE  /\ Clean(r) /\ upgrade.at = "none"
         /\ ~CancelPipeline(r) /\ ~CancelPopsOut(r) /\ ~CancelSignals(r)
<1>0. upgrades \in 0 .. MaxUpgrades /\ cancel \in [Pipelines -> {"none", "popout", "unlock", "done"}]
  BY DEF QueueInv, RowsOK, ControlOK
<1>1. upgrades = 0
  <2>1. upgrades' = upgrades \/ upgrades' = upgrades + 1
    BY DEF Next, Listen, RangeStep, Watch, QueryPipelineDetail, QueryPipelineQueueDetail,
       AddPipelineIntoQueue, CheckPipeline, UpdateStatusBeforeReconcile, ReconcileReturns,
       TeardownCurrentReconcile, TeardownSignals, UpdateStatusAfterReconcile, ReconcileAgain,
       TasksEnd, CancelPipeline, CancelPopsOut, CancelSignals, UpgradeRead, UpgradeCheck,
       UpgradeAdd, UpdateQueue, SetProcessingWindow, RangePendingQueue, VisitItem,
       ValidatePipeline, Precheck, MarkPipelineFailed, DoStopAndRemove, DoPop, ReadDoneCh,
       SendDone, CloseDone, ForgetDone, StopIfStrict, UnsetNeedReRange, LeaveRange, vars,
       upgradeVars
  <2> QED BY <1>0, <2>1 DEF Clean
<1>2. cancel'[r] = "none"
  BY DEF Clean
<1>3. ~CancelPipeline(r) /\ ~CancelPopsOut(r) /\ ~CancelSignals(r)
  BY <1>0, <1>2 DEF CancelPipeline, CancelPopsOut, CancelSignals
<1>4. cancel[r] = "none"
  <2>1. \/ cancel' = cancel
        \/ \E p \in Pipelines : CancelPipeline(p) \/ CancelPopsOut(p) \/ CancelSignals(p)
    BY DEF Next, Listen, RangeStep, Watch, QueryPipelineDetail, QueryPipelineQueueDetail,
       AddPipelineIntoQueue, CheckPipeline, UpdateStatusBeforeReconcile, ReconcileReturns,
       TeardownCurrentReconcile, TeardownSignals, UpdateStatusAfterReconcile, ReconcileAgain,
       TasksEnd, UpgradeRead, UpgradeCheck, UpgradeAdd, UpdateQueue, SetProcessingWindow,
       RangePendingQueue, VisitItem, ValidatePipeline, Precheck, MarkPipelineFailed,
       DoStopAndRemove, DoPop, ReadDoneCh, SendDone, CloseDone, ForgetDone, StopIfStrict,
       UnsetNeedReRange, LeaveRange, vars
  <2> QED BY <1>0, <1>2, <1>3, <2>1 DEF CancelPipeline, CancelPopsOut, CancelSignals
<1> QED BY <1>1, <1>3, <1>4 DEF Clean, QueueInv, LockInv

LEMMA PlaceNext ==
  ASSUME Twice = {}, QueueInv, QueueInv', WaitAll, PlaceAll, [Next]_vars
  PROVE  PlaceAll'
<1> SUFFICES ASSUME NEW r \in Pipelines, Clean(r)' PROVE PlaceInv(r)'
  BY DEF PlaceAll
<1>0. /\ Clean(r) /\ PlaceInv(r) /\ WaitInv(r) /\ upgrade.at = "none"
      /\ ~CancelPipeline(r) /\ ~CancelPopsOut(r) /\ ~CancelSignals(r) /\ failures \in Int
  BY StaysClean DEF PlaceAll, WaitAll, QueueInv, RowsOK
<1>1. CASE UNCHANGED vars
  <2>1. Pending' = Pending
    BY <1>1, SamePending DEF vars, pendingVars
  <2>2. Untouched(r) /\ UNCHANGED rangeVars
    BY <1>0, <1>1, <2>1 DEF Untouched, vars, rowVars, chanVars, listenVars
  <2> QED BY <1>0, <2>2, PlaceUntouched
<1>2. ASSUME rpc # "panic", NEW l \in Listeners, Listen(l) PROVE PlaceInv(r)'
  <2>1. CASE l[1] = r
    BY <1>0, <1>2, <2>1, OwnPlace
  <2>2. CASE l[1] # r
    BY <1>0, <1>2, <2>2, OtherListener, PlaceUntouched
  <2> QED BY <2>1, <2>2
<1>3. ASSUME rpc # "panic", NEW p \in Pipelines,
             CancelPipeline(p) \/ CancelPopsOut(p) \/ CancelSignals(p)
      PROVE  PlaceInv(r)'
  BY <1>0, <1>3, OtherCancel, PlaceUntouched
<1>4. ASSUME rpc # "panic", NEW p \in Pipelines, TasksEnd(p) PROVE PlaceInv(r)'
  BY <1>0, <1>4, TasksEndUntouched, PlaceUntouched
<1>5. ASSUME UpdateQueue \/ SetProcessingWindow PROVE PlaceInv(r)'
  <2>1. Pending' = Pending
    BY <1>5, SamePending DEF UpdateQueue, SetProcessingWindow, pendingVars
  <2>2. Untouched(r) /\ UNCHANGED rangeVars
    BY <1>0, <1>5, <2>1 DEF UpdateQueue, SetProcessingWindow, Untouched, rowVars, chanVars,
       listenVars
  <2> QED BY <1>0, <2>2, PlaceUntouched
<1>6. ~UpgradeCheck /\ ~UpgradeAdd
  BY <1>0 DEF UpgradeCheck, UpgradeAdd
<1>7. ASSUME NEW p \in Pipelines, UpgradeRead(p) PROVE FALSE
  BY <1>0, <1>7 DEF UpgradeRead, Clean
<1>8. ASSUME rpc # "panic", RangeStep PROVE PlaceInv(r)'
  BY <1>0, <1>8, RangeKeepsPlace
<1> QED BY <1>1, <1>2, <1>3, <1>4, <1>5, <1>6, <1>7, <1>8 DEF Next, Alive

LEMMA PlaceInit ==
  Init => PlaceAll
<1> SUFFICES ASSUME Init, NEW p \in Pipelines PROVE PlaceInv(p)
  BY DEF PlaceAll
<1>1. First(p) \in Listeners /\ First(p)[2] = 1
  BY FirstFacts DEF First
<1>2. pc[First(p)] = "query" /\ Pending = {} /\ status[p] = "Analyzed"
  BY <1>1 DEF Init, Pending, ToSet
<1> QED BY <1>2 DEF Init, PlaceInv, Out, Popping

LEMMA PlacesHold ==
  Twice = {} => (Spec => [](QueueInv /\ WaitAll /\ PlaceAll))
<1> SUFFICES ASSUME Twice = {} PROVE Spec => [](QueueInv /\ WaitAll /\ PlaceAll)
  OBVIOUS
<1>1. Init => QueueInv /\ WaitAll /\ PlaceAll
  BY QueueInvInit, WaitInit, PlaceInit
<1>2. QueueInv /\ WaitAll /\ PlaceAll /\ [Next]_vars => (QueueInv /\ WaitAll /\ PlaceAll)'
  BY QueueInvNext, WaitNext, PlaceNext
<1> QED BY <1>1, <1>2, PTL DEF Spec

(* A pipeline that is being reconciled holds a place of the queue, unless  *)
(* it is being cancelled: the listener was let through by a pop or by its  *)
(* status, and nobody but itself and a cancel gives the place back.  For   *)
(* one listener for each pipeline and as long as no priority was upgraded: *)
(* an upgrade adds a pipeline that doPop, without q.lock, has just popped, *)
(* and the second pop wakes whoever then waits under its name.             *)
THEOREM ReconciledHoldPlaces ==
  Twice = {} => (Spec => []ReconciledHoldsPlace)
<1> SUFFICES ASSUME Twice = {} PROVE Spec => []ReconciledHoldsPlace
  OBVIOUS
<1>1. QueueInv /\ WaitAll /\ PlaceAll => ReconciledHoldsPlace
  <2> SUFFICES ASSUME QueueInv, WaitAll, PlaceAll, upgrades = 0, NEW l \in Listeners,
                      pc[l] = "reconcile", ~CancelBegun(l[1])
               PROVE  l[1] \in processing
    BY DEF ReconciledHoldsPlace
  <2>1. l[1] \in Pipelines /\ WaitInv(l[1]) /\ PlaceInv(l[1])
    BY ListenerFacts DEF WaitAll, PlaceAll, Clean, CancelBegun
  <2>2. l = First(l[1])
    BY <2>1, FirstFacts DEF WaitInv
  <2> QED BY <2>1, <2>2 DEF PlaceInv
<1> QED BY <1>1, PlacesHold, PTL

(* A place of the queue is held for somebody: a listener of the pipeline   *)
(* is on its way to giving it back, as long as no write of a status has    *)
(* failed, no priority was upgraded and the pipeline was neither cancelled *)
(* nor failed by the precheck.  For one listener for each pipeline.        *)
THEOREM PlacesAreOwned ==
  Twice = {} => (Spec => []PlaceHasOwner)
<1> SUFFICES ASSUME Twice = {} PROVE Spec => []PlaceHasOwner
  OBVIOUS
<1>1. QueueInv /\ WaitAll /\ PlaceAll => PlaceHasOwner
  <2> SUFFICES ASSUME QueueInv, WaitAll, PlaceAll, NEW p \in processing, ~(failures > 0),
                      ~(upgrades > 0), ~CancelBegun(p), p \notin rejected
               PROVE  \E l \in Listeners : l[1] = p /\ pc[l] \in
                        {"wait", "check", "before", "reconcile", "popout"}
    BY DEF PlaceHasOwner
  <2>1. p \in Pipelines /\ upgrades = 0
    BY PipelineQueueAssumption DEF QueueInv, RowsOK
  <2>2. WaitInv(p) /\ PlaceInv(p)
    BY <2>1 DEF WaitAll, PlaceAll, Clean, CancelBegun
  <2>3. First(p) \in Listeners /\ First(p)[1] = p /\ pc[First(p)] \in Places
    BY <2>1, FirstFacts DEF QueueInv, ControlOK
  <2>4. pc[First(p)] \in {"wait", "check", "before", "reconcile", "popout"}
    BY <2>2, <2>3 DEF WaitInv, PlaceInv, Out, Places
  <2> QED BY <2>3, <2>4
<1> QED BY <1>1, PlacesHold, PTL

(* As long as nothing is cancelled or upgraded, the ranging goroutine      *)
(* neither sends on a closed channel nor dereferences a pipeline that is   *)
(* not cached, and a listener finds a channel under its pipeline, to send  *)
(* on in vain when it gives the place back, only while the doPop that woke *)
(* it has still to close or to forget it.  For one listener for each       *)
(* pipeline.                                                               *)
THEOREM PanicsAreHasty ==
  Twice = {} => (Spec => []OnlyHastyPanics)
<1> SUFFICES ASSUME Twice = {} PROVE Spec => []OnlyHastyPanics
  OBVIOUS
<1> DEFINE Goes == NoRequests => rpc # "panic"
<1>1. Init => Goes
  BY DEF Init
<1>2. ASSUME QueueInv, WaitAll, PlaceAll, Goes, [Next]_vars PROVE Goes'
  <2> SUFFICES ASSUME NoRequests' PROVE rpc' # "panic"
    OBVIOUS
  <2>1. \A p \in Pipelines : Clean(p)'
    BY DEF NoRequests, NoCancel, CancelBegun, Clean
  <2>2. \A p \in Pipelines : Clean(p) /\ PlaceInv(p) /\ WaitInv(p)
    BY <1>2, <2>1, StaysClean DEF PlaceAll, WaitAll
  <2>3. rpc # "panic"
    <3>1. CASE Next
      BY <3>1 DEF Next, Alive
    <3>2. CASE UNCHANGED vars
      BY <1>2, <3>2 DEF vars, upgradeVars, rangeVars, NoRequests, NoCancel, CancelBegun
    <3> QED BY <1>2, <3>1, <3>2
  <2>4. ASSUME ValidatePipeline PROVE rpc' # "panic"
    <3>1. processing \subseteq caches
      BY <1>2, <2>2 DEF PlaceInv, QueueInv, RowsOK
    <3> QED BY <2>3, <2>4, <3>1 DEF ValidatePipeline, Continue
  <2>5. ASSUME SendDone PROVE rpc' # "panic"
    <3>1. current \in Pipelines /\ Popping(current)
      BY <1>2, <2>5 DEF SendDone, QueueInv, RangeInv, Visiting, Ranged, Popping
    <3>2. channel \notin closed
      BY <2>2, <2>5, <3>1 DEF SendDone, Sending, WaitInv, PlaceInv
    <3> QED BY <2>5, <3>2 DEF SendDone
  <2>6. rpc' = rpc \/ rpc' # "panic" \/ ValidatePipeline \/ SendDone
    BY <1>2 DEF Next, Listen, RangeStep, Watch, QueryPipelineDetail, QueryPipelineQueueDetail,
       AddPipelineIntoQueue, CheckPipeline, UpdateStatusBeforeReconcile, ReconcileReturns,
       TeardownCurrentReconcile, TeardownSignals, UpdateStatusAfterReconcile, ReconcileAgain,
       TasksEnd, CancelPipeline, CancelPopsOut, CancelSignals, UpgradeRead, UpgradeCheck,
       UpgradeAdd, UpdateQueue, SetProcessingWindow, RangePendingQueue, VisitItem, Precheck,
       Continue, MarkPipelineFailed, DoStopAndRemove, DoPop, ReadDoneCh, CloseDone, ForgetDone,
       StopIfStrict, UnsetNeedReRange, LeaveRange, vars, rangeVars
  <2> QED BY <2>3, <2>4, <2>5, <2>6
<1>3. ASSUME QueueInv, WaitAll, Goes PROVE OnlyHastyPanics
  <2> SUFFICES ASSUME NoRequests, NEW l \in Listeners,
                      pc[l] \in {"check", "before", "reconcile", "popout"}, doneCh[l[1]] = l
               PROVE  rpc \in {"close", "forget"} /\ channel = l
    BY <1>3 DEF OnlyHastyPanics
  <2>1. l[1] \in Pipelines /\ WaitInv(l[1]) /\ l # None
    BY <1>3, ListenerFacts, NoListener DEF WaitAll
  <2>2. l = First(l[1]) /\ pc[l] # "wait"
    BY <2>1, FirstFacts DEF WaitInv
  <2>3. Closing(l[1])
    BY <2>1, <2>2 DEF WaitInv
  <2>4. rpc \in {"close", "forget"} /\ Sending /\ current = l[1]
    BY <2>3 DEF Closing, Sending
  <2> QED BY <2>1, <2>2, <2>4 DEF WaitInv
<1> HIDE DEF Goes
<1> QED BY <1>1, <1>2, <1>3, PlacesHold, PTL DEF Spec

-----------------------------------------------------------------------------
(* The order of pops in strict mode.                                       *)

(* The root of a heap comes first.                                         *)
LEMMA RootIsFirst ==
  ASSUME NEW less, NEW A, Orders(less, A), NEW s \in Seq(A), IsHeap(less, s),
         NEW i \in DOMAIN s
  PROVE  1 \in DOMAIN s /\ <<s[i], s[1]>> \notin less
<1> DEFINE n == Len(s)
           B == {m \in 0 .. n : \A k \in 1 .. m : <<s[k], s[1]>> \notin less}
<1>1. n \in Nat /\ DOMAIN s = 1 .. n /\ i \in 1 .. n /\ 1 \in 1 .. n /\ s \in [1 .. n -> A]
  OBVIOUS
<1> HIDE DEF n
<1>0. \A a, b, c \in A : <<a, b>> \notin less /\ <<b, c>> \notin less => <<a, c>> \notin less
  BY NotLess
<1>2. 0 \in B
  BY <1>1
<1>3. ASSUME NEW k \in 1 .. n, k - 1 \in B PROVE k \in B
  <2>1. <<s[k], s[1]>> \notin less
    <3>1. CASE k = 1
      BY <1>1, <3>1 DEF Orders
    <3>2. CASE k # 1
      <4>1. k \in Nat /\ k > 1
        BY <1>1, <3>2
      <4>2. k \div 2 \in 1 .. n /\ k \div 2 < k
        BY <1>1, <4>1, Halves
      <4>3. <<s[k], s[k \div 2]>> \notin less
        BY <1>1, <4>1 DEF IsHeap
      <4>4. <<s[k \div 2], s[1]>> \notin less
        <5>1. k \div 2 \in 1 .. k - 1
          BY <1>1, <4>2
        <5> HIDE DEF IsHeap
        <5> QED BY <1>3, <5>1
      <4>5. s[k] \in A /\ s[k \div 2] \in A /\ s[1] \in A
        BY <1>1, <4>2
      <4> QED BY <1>0, <4>3, <4>4, <4>5
    <3> QED BY <3>1, <3>2
  <2>2. \A j \in 1 .. k : j = k \/ j \in 1 .. k - 1
    BY <1>1
  <2> QED BY <1>1, <1>3, <2>1, <2>2
<1> HIDE DEF B
<1>4. 0 .. n \subseteq B
  BY <1>1, <1>2, <1>3, Upwards
<1>5. n \in B
  BY <1>1, <1>4
<1> QED BY <1>1, <1>5 DEF B

LEMMA FirstOfPending ==
  ASSUME PendingInv, NEW p \in Pending
  PROVE  items[1] \in Pending /\ ~Less(priority, p, items[1])
<1>1. PICK i \in DOMAIN items : items[i] = p
  BY DEF Pending, ToSet
<1>2. 1 \in DOMAIN items /\ <<items[i], items[1]>> \notin Order(priority)
  BY RootIsFirst, OrderOrders DEF PendingInv, PendingIsHeap
<1>3. items[i] \in Pipelines /\ items[1] \in Pipelines
  BY <1>1, <1>2 DEF PendingInv
<1> QED BY <1>1, <1>2, <1>3 DEF Order, Pending, ToSet

(* What was ever to be seen by the range, or is.                           *)
Seen == Pending \cup ToSet(tail) \cup ToSet(frozen) \cup {current}

LEMMA ConcatSet ==
  ASSUME NEW S, NEW s \in Seq(S), NEW t \in Seq(S)
  PROVE  ToSet(s \o t) \subseteq ToSet(s) \cup ToSet(t)
<1> SUFFICES ASSUME NEW i \in DOMAIN (s \o t) PROVE (s \o t)[i] \in ToSet(s) \cup ToSet(t)
  BY DEF ToSet
<1>1. /\ s \o t \in Seq(S) /\ Len(s) \in Nat /\ Len(t) \in Nat
      /\ Len(s \o t) = Len(s) + Len(t)
  BY ConcatProperties
<1>2. i \in 1 .. Len(s) + Len(t)
  BY <1>1
<1>3. (s \o t)[i] = IF i <= Len(s) THEN s[i] ELSE t[i - Len(s)]
  BY <1>2, ConcatProperties
<1>4. CASE i <= Len(s)
  <2>1. i \in DOMAIN s
    BY <1>1, <1>2, <1>4
  <2> QED BY <1>3, <1>4, <2>1 DEF ToSet
<1>5. CASE ~(i <= Len(s))
  <2>1. i - Len(s) \in DOMAIN t
    BY <1>1, <1>2, <1>5
  <2> QED BY <1>3, <1>5, <2>1 DEF ToSet
<1> QED BY <1>4, <1>5

LEMMA ViewSeen ==
  ASSUME PendingInv
  PROVE  ToSet(View) \subseteq Pending \cup ToSet(tail) \cup ToSet(frozen)
BY ConcatSet DEF PendingInv, View, Pending

LEMMA RemoveSeen ==
  ASSUME PendingInv, NEW key \in Pipelines, RemovePending(key)
  PROVE  /\ Pending' \cup ToSet(tail') \cup ToSet(frozen') \subseteq
              Pending \cup ToSet(tail) \cup ToSet(frozen)
         /\ key \notin Pending => items' = items /\ tail' = tail /\ frozen' = frozen
<1>1. Pending' \subseteq Pending /\ frozen' = frozen
  BY RemoveKeeps DEF RemovePending
<1>2. tail' = tail \/ (key \in Pending /\ tail' = <<key>> \o tail)
  BY DEF RemovePending
<1>3. ToSet(<<key>> \o tail) \subseteq {key} \cup ToSet(tail)
  <2>1. <<key>> \in Seq(Pipelines) /\ ToSet(<<key>>) = {key}
    BY DEF ToSet
  <2> QED BY <2>1, ConcatSet DEF PendingInv
<1>4. key \notin Pending => items' = items /\ tail' = tail
  BY DEF RemovePending, Removed, Pending
<1> QED BY <1>1, <1>2, <1>3, <1>4

LEMMA AddSeen ==
  ASSUME PendingInv, NEW key \in Pipelines, NEW pr \in Nat, AddPending(key, pr)
  PROVE  Pending' \cup ToSet(tail') \cup ToSet(frozen') \subseteq
           Pending \cup ToSet(tail) \cup ToSet(frozen) \cup {key}
<1>1. Pending' = Pending \cup {key}
  BY AddKeeps
<1>2. frozen' = frozen \/ frozen' = View
  BY DEF AddPending
<1>3. ToSet(tail') \subseteq ToSet(tail)
  <2>1. tail' = tail \/ tail' = <<>> \/ (tail # <<>> /\ tail' = Tail(tail))
    BY DEF AddPending
  <2>2. ToSet(<<>>) = {}
    BY DEF ToSet
  <2>3. ASSUME tail # <<>> PROVE ToSet(Tail(tail)) \subseteq ToSet(tail)
    <3>1. /\ Tail(tail) \in Seq(Pipelines) /\ Len(Tail(tail)) = Len(tail) - 1
          /\ Len(tail) \in Nat /\ \A i \in 1 .. Len(tail) - 1 : Tail(tail)[i] = tail[i + 1]
      BY <2>3, EmptySeq, HeadTailProperties DEF PendingInv
    <3>2. ASSUME NEW i \in DOMAIN Tail(tail) PROVE Tail(tail)[i] \in ToSet(tail)
      <4>1. i \in 1 .. Len(tail) - 1 /\ i + 1 \in DOMAIN tail
        BY <3>1 DEF PendingInv
      <4> QED BY <3>1, <4>1 DEF ToSet
    <3> QED BY <3>2 DEF ToSet
  <2> QED BY <2>1, <2>2, <2>3
<1> QED BY <1>1, <1>2, <1>3, ViewSeen

LEMMA CountersGrow ==
  ASSUME QueueInv, [Next]_vars
  PROVE  /\ upgrades' = upgrades \/ upgrades' = upgrades + 1
         /\ failures' = failures \/ failures' = failures + 1
         /\ (updates' = updates /\ mode' = mode) \/ updates' = updates + 1
BY DEF Next, Listen, RangeStep, Watch, QueryPipelineDetail, QueryPipelineQueueDetail,
     AddPipelineIntoQueue, CheckPipeline, UpdateStatusBeforeReconcile, ReconcileReturns,
     TeardownCurrentReconcile, TeardownSignals, UpdateStatusAfterReconcile, ReconcileAgain,
     TasksEnd, CancelPipeline, CancelPopsOut, CancelSignals, UpgradeRead, UpgradeCheck,
     UpgradeAdd, UpdateQueue, SetProcessingWindow, RangePendingQueue, VisitItem,
     ValidatePipeline, Precheck, MarkPipelineFailed, DoStopAndRemove, DoPop, ReadDoneCh,
     SendDone, CloseDone, ForgetDone, StopIfStrict, UnsetNeedReRange, LeaveRange, Fail, vars,
     confVars, listenVars, upgradeVars

(* No request and no error so far.                                         *)
Quiet == NoRequests /\ failures = 0

LEMMA StaysQuiet ==
  ASSUME QueueInv, [Next]_vars, Quiet'
  PROVE  Quiet /\ upgrade.at = "none" /\ \A r \in Pipelines : Clean(r)
<1>1. upgrades \in Nat /\ failures \in Nat
  BY PipelineQueueAssumption DEF QueueInv, RowsOK
<1>2. upgrades' = 0 /\ failures' = 0 /\ \A r \in Pipelines : Clean(r)'
  BY DEF Quiet, NoRequests, NoCancel, CancelBegun, Clean
<1>3. upgrades = 0 /\ failures = 0
  BY <1>1, <1>2, CountersGrow
<1>4. \A r \in Pipelines : Clean(r)
  BY <1>2, StaysClean
<1>5. upgrade.at = "none"
  BY <1>3 DEF QueueInv, LockInv
<1> QED BY <1>3, <1>4, <1>5 DEF Quiet, NoRequests, NoCancel, CancelBegun, Clean

Early == {"query", "save", "add"}

(* Then a pipeline is added once, and the range has not seen it before.    *)
EarlyInv ==
  Quiet => /\ again = {}
           /\ \A p \in Pipelines : /\ pc[First(p)] # "again"
                                   /\ pc[First(p)] \in Early => p \notin Seen

LEMMA SeenSame ==
  ASSUME items' = items, tail' = tail, frozen' = frozen, current' = current
  PROVE  Seen' = Seen
BY DEF Seen, Pending

LEMMA ListenSeen ==
  ASSUME Twice = {}, QueueInv, WaitAll, again = {}, failures' = 0, NEW l \in Listeners,
         Listen(l), pc[l] # "again"
  PROVE  /\ again' = {} /\ Seen' \subseteq Seen \cup {l[1]}
         /\ \E x \in Places \ {"again"} :
              /\ pc' = [pc EXCEPT ![l] = x]
              /\ x \in Early => pc[l] \in Early /\ Seen' \subseteq Seen
<1>0. failures \in Nat /\ l[1] \in Pipelines /\ asked[l] \in Nat
  BY ListenerFacts, PipelineQueueAssumption DEF QueueInv, RowsOK
<1> DEFINE Goal == /\ again' = {} /\ Seen' \subseteq Seen \cup {l[1]}
                   /\ \E x \in Places \ {"again"} :
                        /\ pc' = [pc EXCEPT ![l] = x]
                        /\ x \in Early => pc[l] \in Early /\ Seen' \subseteq Seen
<1>1. ASSUME NEW x \in Places \ {"again"}, pc' = [pc EXCEPT ![l] = x], again' = {},
             x \in Early => pc[l] \in Early,
             items' = items, tail' = tail, frozen' = frozen, current' = current
      PROVE  Goal
  BY <1>1, SeenSame
<1>2. ASSUME QueryPipelineDetail(l) PROVE Goal
  <2> DEFINE x == IF IsEnd(status[l[1]]) THEN "check" ELSE "save"
  <2>1. /\ x \in Places \ {"again"} /\ pc' = [pc EXCEPT ![l] = x] /\ again' = {}
        /\ x \in Early => pc[l] \in Early
        /\ items' = items /\ tail' = tail /\ frozen' = frozen /\ current' = current
    BY <1>2 DEF QueryPipelineDetail, Places, Early, pendingVars, rangeVars
  <2> HIDE DEF x, Goal
  <2> QED BY <1>1, <2>1
<1>3. ASSUME QueryPipelineQueueDetail(l) PROVE Goal
  <2>1. /\ pc' = [pc EXCEPT ![l] = "add"] /\ again' = {} /\ pc[l] \in Early
        /\ items' = items /\ tail' = tail /\ frozen' = frozen /\ current' = current
    BY <1>3 DEF QueryPipelineQueueDetail, Early, pendingVars, rangeVars
  <2>2. "add" \in Places \ {"again"}
    BY DEF Places
  <2> HIDE DEF Goal
  <2> QED BY <1>1, <2>1, <2>2
<1>4. ASSUME AddPipelineIntoQueue(l) PROVE Goal
  <2>1. /\ again' = {} /\ current' = current
        /\ pc' = [pc EXCEPT ![l] = "check"] \/ pc' = [pc EXCEPT ![l] = "wait"]
    BY <1>4 DEF AddPipelineIntoQueue, rangeVars
  <2>2. Seen' \subseteq Seen \cup {l[1]}
    <3>1. CASE UNCHANGED pendingVars
      BY <2>1, <3>1, SeenSame DEF pendingVars
    <3>2. CASE AddPending(l[1], asked[l])
      <4>1. Pending' \cup ToSet(tail') \cup ToSet(frozen') \subseteq
              Pending \cup ToSet(tail) \cup ToSet(frozen) \cup {l[1]}
        BY <1>0, <3>2, AddSeen DEF QueueInv
      <4> QED BY <2>1, <4>1 DEF Seen
    <3> QED BY <1>4, <3>1, <3>2 DEF AddPipelineIntoQueue, pendingVars
  <2> QED BY <2>1, <2>2 DEF Places, Early
<1>5. ASSUME CheckPipeline(l) PROVE Goal
  <2> DEFINE x == IF IsEnd(status[l[1]]) THEN "done" ELSE "before"
  <2>1. /\ x \in Places \ {"again"} /\ x \notin Early /\ pc' = [pc EXCEPT ![l] = x] /\ again' = {}
        /\ items' = items /\ tail' = tail /\ frozen' = frozen /\ current' = current
    BY <1>5 DEF CheckPipeline, Places, Early, pendingVars, rangeVars
  <2> HIDE DEF x, Goal
  <2> QED BY <1>1, <2>1
<1>6. ASSUME UpdateStatusBeforeReconcile(l) PROVE Goal
  <2>1. /\ \E x \in {"reconcile", "done"} : pc' = [pc EXCEPT ![l] = x]
        /\ again' = {}
        /\ items' = items /\ tail' = tail /\ frozen' = frozen /\ current' = current
    BY <1>6 DEF UpdateStatusBeforeReconcile, pendingVars, rangeVars
  <2>2. PICK x \in {"reconcile", "done"} : pc' = [pc EXCEPT ![l] = x]
    BY <2>1
  <2>3. x \in Places \ {"again"} /\ x \notin Early
    BY DEF Places, Early
  <2> HIDE DEF Goal
  <2> QED BY <1>1, <2>1, <2>2, <2>3
<1>7. ASSUME ReconcileReturns(l) PROVE Goal
  <2>1. /\ pc' = [pc EXCEPT ![l] = "popout"]
        /\ items' = items /\ tail' = tail /\ frozen' = frozen /\ current' = current
    BY <1>7 DEF ReconcileReturns, pendingVars, rangeVars
  <2>2. again' = {}
    BY <1>0, <1>7 DEF ReconcileReturns, Fail
  <2>3. "popout" \in Places \ {"again"} /\ "popout" \notin Early
    BY DEF Places, Early
  <2> HIDE DEF Goal
  <2> QED BY <1>1, <2>1, <2>2, <2>3
<1>8. ASSUME TeardownCurrentReconcile(l) PROVE Goal
  <2>1. /\ again' = {} /\ current' = current
        /\ pc' = [pc EXCEPT ![l] = "after"] \/ pc' = [pc EXCEPT ![l] = "unlock"]
    BY <1>8 DEF TeardownCurrentReconcile, rangeVars
  <2>2. Seen' \subseteq Seen
    <3>1. CASE UNCHANGED pendingVars
      BY <2>1, <3>1, SeenSame DEF pendingVars
    <3>2. CASE RemovePending(l[1])
      <4>1. Pending' \cup ToSet(tail') \cup ToSet(frozen') \subseteq
              Pending \cup ToSet(tail) \cup ToSet(frozen)
        BY <1>0, <3>2, RemoveSeen DEF QueueInv
      <4> QED BY <2>1, <4>1 DEF Seen
    <3> QED BY <1>8, <3>1, <3>2 DEF TeardownCurrentReconcile, PopOut, pendingVars
  <2> QED BY <2>1, <2>2 DEF Places, Early
<1>9. ASSUME UpdateStatusAfterReconcile(l) PROVE Goal
  <2>1. /\ pc' = [pc EXCEPT ![l] = "done"] /\ again' = {}
        /\ items' = items /\ tail' = tail /\ frozen' = frozen /\ current' = current
    BY <1>9 DEF UpdateStatusAfterReconcile, pendingVars, rangeVars
  <2>2. "done" \in Places \ {"again"} /\ "done" \notin Early
    BY DEF Places, Early
  <2> HIDE DEF Goal
  <2> QED BY <1>1, <2>1, <2>2
<1>10. ASSUME TeardownSignals(l) PROVE Goal
  <2>1. lock = l /\ pc[l] = "unlock"
    BY <1>10, FirstFacts, ListenerFacts DEF TeardownSignals, WaitAll, WaitInv
  <2>2. /\ pc' = [pc EXCEPT ![l] = "panic"] /\ again' = {}
        /\ items' = items /\ tail' = tail /\ frozen' = frozen /\ current' = current
    BY <1>10, <2>1 DEF TeardownSignals, pendingVars, rangeVars
  <2>3. "panic" \in Places \ {"again"} /\ "panic" \notin Early
    BY DEF Places, Early
  <2> HIDE DEF Goal
  <2> QED BY <1>1, <2>2, <2>3
<1>11. ~Watch(l) /\ ~ReconcileAgain(l)
  BY DEF Watch, ReconcileAgain
<1> QED BY <1>2, <1>3, <1>4, <1>5, <1>6, <1>7, <1>8, <1>9, <1>10, <1>11 DEF Listen

LEMMA RangeSeen ==
  ASSUME QueueInv, RangeStep
  PROVE  Seen' \subseteq Seen /\ again' = again
<1>1. ASSUME \/ RangePendingQueue \/ ValidatePipeline \/ Precheck \/ StopIfStrict
             \/ UnsetNeedReRange \/ MarkPipelineFailed \/ ReadDoneCh \/ SendDone
             \/ CloseDone \/ ForgetDone
      PROVE  Seen' \subseteq Seen /\ again' = again
  <2>1. /\ items' = items /\ tail' = tail /\ frozen' = frozen /\ current' = current
        /\ again' = again
    BY <1>1 DEF RangePendingQueue, ValidatePipeline, Precheck, StopIfStrict, UnsetNeedReRange,
       MarkPipelineFailed, ReadDoneCh, SendDone, CloseDone, ForgetDone, listenVars,
       pendingVars
  <2> QED BY <2>1, SeenSame
<1>2. ASSUME LeaveRange PROVE Seen' \subseteq Seen /\ again' = again
  <2>1. /\ items' = items /\ tail' = <<>> /\ frozen' = <<>> /\ current' = current
        /\ again' = again /\ ToSet(<<>>) = {}
    BY <1>2 DEF LeaveRange, listenVars, ToSet
  <2> QED BY <2>1, SamePending DEF Seen
<1>3. ASSUME VisitItem PROVE Seen' \subseteq Seen /\ again' = again
  <2>1. View \in Seq(Pipelines) /\ place \in DOMAIN View /\ current' = View[place] /\ again' = again
    BY <1>3, ViewIsSeq DEF VisitItem, QueueInv, RangeInv, Ranged, ControlOK, listenVars
  <2>2. View[place] \in Pending \cup ToSet(tail) \cup ToSet(frozen)
    <3>1. View[place] \in ToSet(View)
      BY <2>1 DEF ToSet
    <3> QED BY <3>1, ViewSeen DEF QueueInv
  <2>3. Pending' \cup ToSet(tail') \cup ToSet(frozen') \subseteq
          Pending \cup ToSet(tail) \cup ToSet(frozen)
    <3>1. CASE UNCHANGED pendingVars
      BY <3>1, SamePending DEF pendingVars
    <3>2. CASE RemovePending(View[place])
      BY <1>3, <3>2, LooksAtPipeline, RemoveSeen DEF VisitItem, QueueInv
    <3> QED BY <1>3, <3>1, <3>2 DEF VisitItem, pendingVars
  <2> QED BY <2>1, <2>2, <2>3 DEF Seen
<1>4. ASSUME DoStopAndRemove \/ DoPop PROVE Seen' \subseteq Seen /\ again' = again
  <2>1. current \in Pipelines /\ current' = current /\ again' = again
    BY <1>4 DEF DoStopAndRemove, DoPop, QueueInv, RangeInv, Visiting, Ranged, listenVars
  <2>2. UNCHANGED pendingVars \/ RemovePending(current)
    BY <1>4 DEF DoStopAndRemove, DoPop
  <2>3. CASE UNCHANGED pendingVars
    BY <2>1, <2>3, SeenSame DEF pendingVars
  <2>4. CASE RemovePending(current)
    <3>1. Pending' \cup ToSet(tail') \cup ToSet(frozen') \subseteq
            Pending \cup ToSet(tail) \cup ToSet(frozen)
      BY <2>1, <2>4, RemoveSeen DEF QueueInv
    <3> QED BY <2>1, <3>1 DEF Seen
  <2> QED BY <2>2, <2>3, <2>4
<1> QED BY <1>1, <1>2, <1>3, <1>4 DEF RangeStep

LEMMA EarlyNext ==
  ASSUME Twice = {}, QueueInv, WaitAll, EarlyInv, [Next]_vars
  PROVE  EarlyInv'
<1> DEFINE Goal == /\ again' = {}
                   /\ \A p \in Pipelines : /\ pc'[First(p)] # "again"
                                           /\ pc'[First(p)] \in Early => p \notin Seen'
<1> SUFFICES ASSUME Quiet' PROVE Goal
  BY DEF EarlyInv
<1>0. /\ upgrade.at = "none" /\ \A r \in Pipelines : Clean(r)
      /\ again = {} /\ failures' = 0
      /\ \A p \in Pipelines : /\ pc[First(p)] # "again"
                              /\ pc[First(p)] \in Early => p \notin Seen
      /\ \A p \in Pipelines : First(p) \in Listeners /\ First(p)[1] = p
      /\ pc \in [Listeners -> Places]
  BY StaysQuiet, FirstFacts DEF EarlyInv, Quiet, QueueInv, ControlOK
<1>1. ASSUME pc' = pc, again' = again, Seen' \subseteq Seen PROVE Goal
  BY <1>0, <1>1
<1>2. CASE UNCHANGED vars
  <2>1. /\ pc' = pc /\ again' = again /\ items' = items /\ tail' = tail /\ frozen' = frozen
        /\ current' = current
    BY <1>2 DEF vars, listenVars, rangeVars, pendingVars
  <2> HIDE DEF Goal
  <2> QED BY <1>1, <2>1, SeenSame
<1>3. ASSUME NEW l \in Listeners, Listen(l) PROVE Goal
  <2>1. pc[l] # "again"
    BY <1>0, FirstFacts, ListenerFacts DEF WaitAll, WaitInv
  <2>2. /\ again' = {} /\ Seen' \subseteq Seen \cup {l[1]}
        /\ \E x \in Places \ {"again"} :
             /\ pc' = [pc EXCEPT ![l] = x]
             /\ x \in Early => pc[l] \in Early /\ Seen' \subseteq Seen
    BY <1>0, <1>3, <2>1, ListenSeen
  <2>3. PICK x \in Places \ {"again"} :
               /\ pc' = [pc EXCEPT ![l] = x]
               /\ x \in Early => pc[l] \in Early /\ Seen' \subseteq Seen
    BY <2>2
  <2>4. ASSUME NEW p \in Pipelines
        PROVE  pc'[First(p)] # "again" /\ (pc'[First(p)] \in Early => p \notin Seen')
    <3>1. CASE l = First(p)
      <4>1. pc'[First(p)] = x
        BY <1>0, <2>3, <3>1
      <4> QED BY <1>0, <2>3, <3>1, <4>1
    <3>2. CASE l # First(p)
      <4>1. pc'[First(p)] = pc[First(p)]
        BY <1>0, <2>3, <3>2
      <4>2. CASE l[1] # p
        BY <1>0, <2>2, <4>1, <4>2
      <4>3. CASE l[1] = p
        <5>1. l = Second(p) /\ pc[l] = "none"
          BY <3>2, <4>3, FirstFacts DEF WaitAll, WaitInv
        <5>2. ~Listen(l)
          BY <5>1 DEF Listen, Watch, QueryPipelineDetail, QueryPipelineQueueDetail,
             AddPipelineIntoQueue, CheckPipeline, UpdateStatusBeforeReconcile, ReconcileReturns,
             TeardownCurrentReconcile, TeardownSignals, UpdateStatusAfterReconcile,
             ReconcileAgain
        <5> QED BY <1>3, <5>2
      <4> QED BY <4>2, <4>3
    <3> QED BY <3>1, <3>2
  <2> QED BY <2>2, <2>4
<1>4. ASSUME RangeStep PROVE Goal
  <2>1. Seen' \subseteq Seen /\ again' = again
    BY <1>4, RangeSeen
  <2>2. pc' = pc \/ pc' = [pc EXCEPT ![channel] = "check"]
    BY <1>4 DEF RangeStep, RangePendingQueue, VisitItem, ValidatePipeline, Precheck,
       MarkPipelineFailed, DoStopAndRemove, DoPop, ReadDoneCh, SendDone, CloseDone, ForgetDone,
       StopIfStrict, UnsetNeedReRange, LeaveRange, Signalled, listenVars
  <2>3. \A p \in Pipelines : pc'[First(p)] = pc[First(p)] \/ pc'[First(p)] = "check"
    BY <1>0, <2>2
  <2>4. "check" \notin Early
    BY DEF Early
  <2> QED BY <1>0, <2>1, <2>3, <2>4
<1>5. ASSUME \/ UpdateQueue \/ SetProcessingWindow
             \/ \E p \in Pipelines : TasksEnd(p)
      PROVE  Goal
  <2>1. /\ pc' = pc /\ again' = again /\ items' = items /\ tail' = tail /\ frozen' = frozen
        /\ current' = current
    BY <1>5 DEF UpdateQueue, SetProcessingWindow, TasksEnd, listenVars, rangeVars, pendingVars
  <2> HIDE DEF Goal
  <2> QED BY <1>1, <2>1, SeenSame
<1>6. \A p \in Pipelines : ~CancelPipeline(p) /\ ~CancelPopsOut(p) /\ ~CancelSignals(p)
  BY StaysClean DEF Quiet, NoRequests, NoCancel, CancelBegun, Clean
<1>7. ~UpgradeCheck /\ ~UpgradeAdd /\ \A p \in Pipelines : ~UpgradeRead(p)
  <2>1. upgrades = 0 /\ upgrades' = 0
    BY StaysQuiet DEF Quiet, NoRequests
  <2> QED BY <1>0, <2>1 DEF UpgradeCheck, UpgradeAdd, UpgradeRead
<1> HIDE DEF Goal
<1> QED BY <1>2, <1>3, <1>4, <1>5, <1>6, <1>7 DEF Next

LEMMA EarlyInit == Init => EarlyInv
<1> SUFFICES ASSUME Init PROVE EarlyInv
  OBVIOUS
<1>1. again = {} /\ Pending = {} /\ ToSet(tail) = {} /\ ToSet(frozen) = {} /\ current = None
  BY DEF Init, Pending, ToSet
<1>2. \A p \in Pipelines : p \notin Seen
  BY <1>1, PipelineQueueAssumption DEF Seen
<1>3. \A p \in Pipelines : pc[First(p)] = "query"
  BY FirstFacts DEF Init, First
<1> QED BY <1>1, <1>2, <1>3 DEF EarlyInv

(* The range has not passed the first pending pipeline, unless its         *)
(* precheck had no result.                                                 *)
AtFirst ==
  /\ items # <<>> /\ View[1] = items[1]
  /\ \/ items[1] \in refused
     \/ place = 1 /\ (rpc # "next" => current = items[1])

Undisturbed == Quiet /\ mode = "STRICT" /\ updates = 0 /\ ~needReRange
ToPop == {"next", "validate", "precheck", "mark", "pop"}

StrictInv == Undisturbed /\ rpc \in ToPop => AtFirst

LEMMA AtFirstSame ==
  ASSUME AtFirst, items' = items, tail' = tail, frozen' = frozen, rpc' = rpc, place' = place,
         current' = current, refused' = refused
  PROVE  AtFirst'
BY DEF AtFirst, View

LEMMA ConcatFirst ==
  ASSUME NEW S, NEW s \in Seq(S), NEW t \in Seq(S), s # <<>>
  PROVE  s \o t # <<>> /\ (s \o t)[1] = s[1]
<1>1. Len(s) \in Nat /\ Len(s) # 0 /\ Len(t) \in Nat
  BY EmptySeq
<1>2. 1 \in 1 .. Len(s) + Len(t) /\ 1 <= Len(s)
  BY <1>1
<1>3. (s \o t)[1] = s[1] /\ Len(s \o t) = Len(s) + Len(t) /\ s \o t \in Seq(S)
  BY <1>2, ConcatProperties
<1>4. Len(s \o t) # 0
  BY <1>1, <1>3
<1> QED BY <1>3, <1>4, EmptySeq

(* An addition that leaves the flag alone does not change the first.       *)
LEMMA AddAtFirst ==
  ASSUME PendingInv, NEW key \in Pipelines, NEW pr \in Nat, AddPending(key, pr),
         key \notin Seen, ranging, ~HigherOrder(items', key, current), AtFirst,
         rpc' = rpc, place' = place, current' = current, refused' = refused
  PROVE  AtFirst'
<1>1. PendingInv' /\ Pending' = Pending \cup {key}
  BY AddKeeps
<1>2. key \notin Pending /\ current # key
  BY DEF Seen
<1>3. /\ items \in Seq(Pipelines) /\ tail \in Seq(Pipelines) /\ frozen \in Seq(Pipelines)
      /\ items' \in Seq(Pipelines) /\ tail' \in Seq(Pipelines)
      /\ priority \in [Pipelines -> Nat] /\ priority' \in [Pipelines -> Nat]
      /\ IsHeap(Order(priority'), items') /\ IsHeap(Order(priority), items)
  BY <1>1 DEF PendingInv, PendingIsHeap
<1>4. Pending = ToSet(items) /\ Pending' = ToSet(items')
  BY DEF Pending
<1>5. 1 \in DOMAIN items /\ items[1] \in Pending /\ items[1] \in Pipelines
  <2>1. Len(items) \in Nat /\ Len(items) # 0
    BY <1>3, EmptySeq DEF AtFirst
  <2>2. 1 \in DOMAIN items
    BY <1>3, <2>1
  <2> QED BY <1>3, <1>4, <2>2 DEF ToSet
<1>6. PICK k \in DOMAIN items' : items'[k] = items[1]
  BY <1>1, <1>4, <1>5 DEF ToSet
<1>7. /\ 1 \in DOMAIN items' /\ items'[1] \in Pipelines /\ items'[1] \in Pending'
      /\ <<items[1], items'[1]>> \notin Order(priority')
  <2>1. Orders(Order(priority'), Pipelines)
    BY <1>3, OrderOrders
  <2>2. 1 \in DOMAIN items' /\ <<items'[k], items'[1]>> \notin Order(priority')
    BY <1>3, <1>6, <2>1, RootIsFirst
  <2> QED BY <1>3, <1>4, <1>6, <2>2 DEF ToSet
<1>8. items'[1] # key
  <2> SUFFICES ASSUME items'[1] = key PROVE HigherOrder(items', key, current)
    OBVIOUS
  <2>1. key \in ToSet(items')
    BY <1>4, <1>7
  <2>2. ASSUME current \in ToSet(items')
        PROVE  \E i, j \in DOMAIN items' : items'[i] = key /\ items'[j] = current /\ i < j
    <3>1. PICK j \in DOMAIN items' : items'[j] = current
      BY <2>2 DEF ToSet
    <3>2. j # 1
      BY <1>2, <3>1
    <3>3. 1 < j
      BY <1>3, <3>1, <3>2
    <3> QED BY <1>7, <3>1, <3>3
  <2> QED BY <2>1, <2>2 DEF HigherOrder
<1>9. items'[1] \in Pending
  BY <1>1, <1>7, <1>8
<1>10. items'[1] = items[1]
  <2>1. ~Less(priority, items'[1], items[1])
    BY <1>9, FirstOfPending
  <2>2. ~Less(priority', items[1], items'[1])
    BY <1>5, <1>7 DEF Order
  <2>3. priority'[items[1]] = priority[items[1]] /\ priority'[items'[1]] = priority[items'[1]]
    BY <1>2, <1>3, <1>5, <1>7, <1>9 DEF AddPending
  <2>4. ~Less(priority, items[1], items'[1])
    BY <2>2, <2>3 DEF Less
  <2>5. <<items'[1], items[1]>> \notin Order(priority) /\ <<items[1], items'[1]>> \notin Order(priority)
    BY <2>1, <2>4 DEF Order
  <2> QED BY <1>3, <1>5, <1>7, <2>5, OrderOrders DEF Orders
<1>11. items' # <<>>
  BY <1>7
<1>12. View'[1] = View[1]
  <2>1. View # <<>> /\ (items \o tail)[1] = items[1]
    BY <1>3, ConcatFirst DEF AtFirst, View
  <2>2. CASE frozen # <<>>
    <3>1. frozen' = frozen
      BY <2>2 DEF AddPending, View
    <3> QED BY <2>2, <3>1 DEF View
  <2>3. CASE frozen = <<>> /\ frozen' = View
    BY <2>1, <2>3 DEF View
  <2>4. CASE frozen = <<>> /\ frozen' = frozen
    <3>1. View' = items' \o tail' /\ View = items \o tail
      BY <2>4 DEF View
    <3>2. (items' \o tail')[1] = items'[1]
      BY <1>3, <1>11, ConcatFirst
    <3> QED BY <1>10, <2>1, <3>1, <3>2
  <2> QED BY <2>2, <2>3, <2>4 DEF AddPending
<1> HIDE DEF AddPending, View
<1> QED BY <1>10, <1>11, <1>12 DEF AtFirst

LEMMA ListenStrict ==
  ASSUME Twice = {}, QueueInv, WaitAll, PlaceAll, EarlyInv, StrictInv, Quiet,
         \A r \in Pipelines : Clean(r), mode = "STRICT", updates = 0,
         NEW l \in Listeners, Listen(l), ~needReRange', rpc' \in ToPop
  PROVE  AtFirst'
<1>0. l[1] \in Pipelines /\ (l = First(l[1]) \/ pc[l] = "none")
  BY FirstFacts, ListenerFacts DEF WaitAll, WaitInv
<1>1. ~Watch(l) /\ pc[l] # "none"
  <2>1. ~Watch(l)
    BY DEF Watch
  <2> QED BY <2>1 DEF Listen, QueryPipelineDetail, QueryPipelineQueueDetail,
              AddPipelineIntoQueue, CheckPipeline, UpdateStatusBeforeReconcile,
              ReconcileReturns, TeardownCurrentReconcile, TeardownSignals,
              UpdateStatusAfterReconcile, ReconcileAgain
<1>2. l[1] \in Pipelines /\ l = First(l[1]) /\ PlaceInv(l[1])
  BY <1>0, <1>1, ListenerFacts DEF PlaceAll
<1>3. ASSUME items' = items, tail' = tail, frozen' = frozen, UNCHANGED rangeVars, ~needReRange
      PROVE  AtFirst'
  BY <1>3, AtFirstSame DEF StrictInv, Undisturbed, rangeVars
<1>4. ASSUME \/ QueryPipelineDetail(l) \/ QueryPipelineQueueDetail(l) \/ CheckPipeline(l)
             \/ UpdateStatusBeforeReconcile(l) \/ ReconcileReturns(l) \/ TeardownSignals(l)
             \/ UpdateStatusAfterReconcile(l) \/ ReconcileAgain(l)
      PROVE  AtFirst'
  <2>1. UNCHANGED <<items, tail, frozen, rangeVars, needReRange>>
    BY <1>4 DEF QueryPipelineDetail, QueryPipelineQueueDetail, CheckPipeline,
       UpdateStatusBeforeReconcile, ReconcileReturns, TeardownSignals,
       UpdateStatusAfterReconcile, ReconcileAgain, pendingVars
  <2> QED BY <1>3, <2>1
<1>5. ASSUME TeardownCurrentReconcile(l) PROVE AtFirst'
  <2>1. UNCHANGED <<rangeVars, needReRange>> /\ pc[l] = "popout" /\ PopOut(l[1])
    BY <1>5 DEF TeardownCurrentReconcile
  <2>2. l[1] \notin Pending
    BY <1>2, <2>1 DEF PlaceInv
  <2>3. items' = items /\ tail' = tail /\ frozen' = frozen
    <3>1. CASE UNCHANGED pendingVars
      BY <3>1 DEF pendingVars
    <3>2. CASE RemovePending(l[1])
      BY <1>2, <2>2, <3>2, RemoveSeen DEF QueueInv
    <3> QED BY <2>1, <3>1, <3>2 DEF PopOut
  <2> QED BY <1>3, <2>1, <2>3
<1>6. ASSUME AddPipelineIntoQueue(l) PROVE AtFirst'
  <2>1. /\ UNCHANGED rangeVars /\ pc[l] = "add" /\ NeedsReRange(l[1])
        /\ UNCHANGED pendingVars \/ AddPending(l[1], asked[l])
    BY <1>6 DEF AddPipelineIntoQueue
  <2>2. ~needReRange /\ ~(ranging /\ HigherOrder(items', l[1], current))
    BY <2>1 DEF NeedsReRange
  <2>3. CASE UNCHANGED pendingVars
    BY <1>3, <2>1, <2>2, <2>3 DEF pendingVars
  <2>4. CASE AddPending(l[1], asked[l])
    <3>1. rpc' = rpc /\ place' = place /\ current' = current /\ refused' = refused
      BY <2>1 DEF rangeVars
    <3>2. AtFirst /\ ranging
      <4>1. rpc \in ToPop
        BY <3>1
      <4> QED BY <2>2, <4>1 DEF StrictInv, Undisturbed, QueueInv, RangeInv, ToPop
    <3>3. l[1] \notin Seen
      BY <1>2, <2>1 DEF EarlyInv, Early
    <3>4. asked[l] \in Nat /\ PendingInv
      BY DEF QueueInv, RowsOK
    <3> QED BY <1>2, <2>2, <2>4, <3>1, <3>2, <3>3, <3>4, AddAtFirst
  <2> QED BY <2>1, <2>3, <2>4
<1> QED BY <1>1, <1>4, <1>5, <1>6 DEF Listen

LEMMA RangeStrict ==
  ASSUME QueueInv, PlaceAll, StrictInv, Quiet, \A r \in Pipelines : Clean(r),
         mode = "STRICT", updates = 0, RangeStep, ~needReRange', rpc' \in ToPop
  PROVE  AtFirst'
<1>0. Pending \subseteq caches
  <2>1. Pending \subseteq Pipelines
    BY DEF QueueInv, PendingInv, Pending, ToSet
  <2> QED BY <2>1 DEF PlaceAll, PlaceInv
<1>1. ASSUME RangePendingQueue PROVE AtFirst'
  <2>1. /\ items # <<>> /\ rpc' = "next" /\ place' = 1
        /\ items' = items /\ tail' = tail /\ frozen' = frozen
    BY <1>1 DEF RangePendingQueue, pendingVars
  <2>2. tail = <<>> /\ frozen = <<>> /\ items \in Seq(Pipelines) /\ tail \in Seq(Pipelines)
    BY <1>1 DEF RangePendingQueue, QueueInv, RangeInv, PendingInv
  <2>3. (items \o tail)[1] = items[1]
    BY <2>1, <2>2, ConcatFirst
  <2> QED BY <2>1, <2>2, <2>3 DEF AtFirst, View
<1>2. ASSUME VisitItem PROVE AtFirst'
  <2>1. /\ rpc = "next" /\ current' = View[place] /\ refused' = refused
        /\ ~needReRange
    BY <1>2 DEF VisitItem
  <2>2. AtFirst
    BY <2>1 DEF StrictInv, Undisturbed, ToPop
  <2>3. CASE rpc' = "validate" /\ UNCHANGED <<pendingVars, place>>
    <3>1. /\ items' = items /\ View' = View /\ place' = place
      BY <2>3 DEF View, pendingVars
    <3> QED BY <2>1, <2>2, <3>1 DEF AtFirst
  <2>4. CASE View[place] \notin caches /\ RemovePending(View[place]) /\ Continue(FALSE)
    <3>1. View[place] \notin Pending /\ View[place] \in Pipelines
      BY <1>0, <2>1, <2>4, LooksAtPipeline
    <3>2. items' = items /\ tail' = tail /\ frozen' = frozen
      BY <2>4, <3>1, RemoveSeen DEF QueueInv
    <3>3. items' = items /\ View' = View
      BY <3>2 DEF View
    <3>4. items[1] \in Pending
      <4>1. items \in Seq(Pipelines) /\ Len(items) # 0 /\ Len(items) \in Nat
        BY <2>2, EmptySeq DEF AtFirst, QueueInv, PendingInv
      <4>2. 1 \in DOMAIN items
        BY <4>1
      <4> QED BY <4>2 DEF Pending, ToSet
    <3>5. items[1] \in refused
      BY <2>2, <3>1, <3>4 DEF AtFirst
    <3> HIDE DEF View
    <3> QED BY <2>1, <2>2, <3>3, <3>5 DEF AtFirst
  <2> QED BY <1>2, <2>3, <2>4 DEF VisitItem
<1>3. ASSUME ValidatePipeline PROVE AtFirst'
  <2>1. /\ items' = items /\ tail' = tail /\ frozen' = frozen /\ current' = current
        /\ refused' = refused /\ ~needReRange /\ rpc = "validate"
    BY <1>3 DEF ValidatePipeline, pendingVars
  <2>2. rpc' = "precheck" /\ place' = place
    BY <1>3 DEF ValidatePipeline, Continue, IsStrictMode, ToPop
  <2>3. AtFirst
    BY <2>1 DEF StrictInv, Undisturbed, ToPop
  <2> QED BY <2>1, <2>2, <2>3 DEF AtFirst, View
<1>4. ASSUME Precheck PROVE AtFirst'
  <2>1. /\ items' = items /\ tail' = tail /\ frozen' = frozen /\ current' = current
        /\ ~needReRange /\ rpc = "precheck"
    BY <1>4 DEF Precheck, pendingVars
  <2>2. AtFirst
    BY <2>1 DEF StrictInv, Undisturbed, ToPop
  <2>3. \/ rpc' # "next" /\ place' = place /\ refused' = refused
        \/ refused' = refused \cup {current}
    BY <1>4 DEF Precheck
  <2>4. View' = View
    BY <2>1 DEF View
  <2> HIDE DEF View
  <2> QED BY <2>1, <2>2, <2>3, <2>4 DEF AtFirst
<1>5. ~(\/ MarkPipelineFailed \/ DoStopAndRemove \/ DoPop \/ ReadDoneCh \/ SendDone
        \/ CloseDone \/ ForgetDone \/ StopIfStrict \/ UnsetNeedReRange \/ LeaveRange)
  BY DEF MarkPipelineFailed, DoStopAndRemove, DoPop, ReadDoneCh, SendDone, CloseDone,
     ForgetDone, StopIfStrict, Continue, IsStrictMode, UnsetNeedReRange, LeaveRange, ToPop
<1> QED BY <1>1, <1>2, <1>3, <1>4, <1>5 DEF RangeStep

LEMMA StrictNext ==
  ASSUME Twice = {}, QueueInv, WaitAll, PlaceAll, EarlyInv, StrictInv, [Next]_vars
  PROVE  StrictInv'
<1> SUFFICES ASSUME Undisturbed', rpc' \in ToPop PROVE AtFirst'
  BY DEF StrictInv
<1>0. Quiet /\ upgrade.at = "none" /\ \A r \in Pipelines : Clean(r)
  BY StaysQuiet DEF Undisturbed
<1>1. updates = 0 /\ mode = "STRICT" /\ ~UpdateQueue
  <2>1. updates \in Nat /\ updates' = 0 /\ mode' = "STRICT"
    BY PipelineQueueAssumption DEF QueueInv, RowsOK, Undisturbed
  <2>2. updates = 0 /\ mode = "STRICT"
    BY <2>1, CountersGrow
  <2> QED BY <2>1, <2>2 DEF UpdateQueue
<1>2. ~needReRange'
  BY DEF Undisturbed
<1>3. CASE UNCHANGED vars
  <2>1. /\ items' = items /\ tail' = tail /\ frozen' = frozen /\ rpc' = rpc /\ place' = place
        /\ current' = current /\ refused' = refused /\ ~needReRange
    BY <1>2, <1>3 DEF vars, pendingVars, rangeVars
  <2> QED BY <1>0, <1>1, <2>1, AtFirstSame DEF StrictInv, Undisturbed
<1>4. ASSUME NEW l \in Listeners, Listen(l) PROVE AtFirst'
  BY <1>0, <1>1, <1>2, <1>4, ListenStrict
<1>5. ASSUME RangeStep PROVE AtFirst'
  BY <1>0, <1>1, <1>2, <1>5, RangeStrict
<1>6. ASSUME SetProcessingWindow \/ \E p \in Pipelines : TasksEnd(p) PROVE AtFirst'
  <2>1. /\ items' = items /\ tail' = tail /\ frozen' = frozen /\ rpc' = rpc /\ place' = place
        /\ current' = current /\ refused' = refused /\ ~needReRange
    BY <1>2, <1>6 DEF SetProcessingWindow, TasksEnd, pendingVars, rangeVars
  <2> QED BY <1>0, <1>1, <2>1, AtFirstSame DEF StrictInv, Undisturbed
<1>7. \A p \in Pipelines : ~CancelPipeline(p) /\ ~CancelPopsOut(p) /\ ~CancelSignals(p)
  BY StaysClean DEF Undisturbed, Quiet, NoRequests, NoCancel, CancelBegun, Clean
<1>8. ~UpgradeCheck /\ ~UpgradeAdd /\ \A p \in Pipelines : ~UpgradeRead(p)
  <2>1. upgrades = 0 /\ upgrades' = 0
    BY <1>0 DEF Undisturbed, Quiet, NoRequests
  <2> QED BY <1>0, <2>1 DEF UpgradeCheck, UpgradeAdd, UpgradeRead
<1> HIDE DEF AtFirst
<1> QED BY <1>1, <1>3, <1>4, <1>5, <1>6, <1>7, <1>8 DEF Next

(* In strict mode the pipeline that doPop takes is the first of those      *)
(* pending, or the precheck of the first had no result, however additions, *)
(* the ends of other pipelines and the range interleave.  For one listener *)
(* for each pipeline.                                                      *)
THEOREM PopsFollowOrder ==
  Twice = {} => (Spec => StrictOrder)
<1> SUFFICES ASSUME Twice = {} PROVE Spec => StrictOrder
  OBVIOUS
<1> DEFINE Inv == QueueInv /\ WaitAll /\ PlaceAll
           Pop == (/\ mode = "STRICT" /\ DoPop /\ rpc' = "read" /\ ~needReRange
                   /\ NoRequests /\ updates = 0 /\ failures = 0)
                  => \E first \in Pending :
                       /\ \A p \in Pending : ~Less(priority, p, first)
                       /\ first = current \/ first \in refused
<1>1. Init => EarlyInv /\ StrictInv
  BY EarlyInit DEF Init, StrictInv, ToPop
<1>2. Inv /\ EarlyInv /\ StrictInv /\ [Next]_vars => (EarlyInv /\ StrictInv)'
  BY EarlyNext, StrictNext
<1>3. Inv /\ StrictInv /\ [Next]_vars => [Pop]_vars
  <2> SUFFICES ASSUME QueueInv, StrictInv, mode = "STRICT", rpc = "pop", ~needReRange,
                      NoRequests, updates = 0, failures = 0
               PROVE  \E first \in Pending :
                        /\ \A p \in Pending : ~Less(priority, p, first)
                        /\ first = current \/ first \in refused
    BY DEF DoPop
  <2>1. AtFirst
    BY DEF StrictInv, Undisturbed, Quiet, ToPop
  <2>2. items[1] \in Pending
    <3>1. items \in Seq(Pipelines) /\ Len(items) # 0 /\ Len(items) \in Nat
      BY <2>1, EmptySeq DEF AtFirst, QueueInv, PendingInv
    <3>2. 1 \in DOMAIN items
      BY <3>1
    <3> QED BY <3>2 DEF Pending, ToSet
  <2>3. \A p \in Pending : ~Less(priority, p, items[1])
    BY FirstOfPending DEF QueueInv
  <2>4. items[1] = current \/ items[1] \in refused
    BY <2>1 DEF AtFirst
  <2> QED BY <2>2, <2>3, <2>4
<1>4. Spec => []Inv
  BY PlacesHold
<1>5. StrictOrder <=> [][Pop]_vars
  BY DEF StrictOrder
<1> HIDE DEF Inv, Pop
<1> QED BY <1>1, <1>2, <1>3, <1>4, <1>5, PTL DEF Spec
=============================================================================
