--------------------------- MODULE TaskRingProofs ---------------------------
(***************************************************************************)
(* The ring buffer of TaskRing is a queue, whatever its capacity: what     *)
(* Enqueue and Dequeue do to its Contents, also when it wraps around the   *)
(* end of the buffer and when it grows.                                    *)
(***************************************************************************)
EXTENDS TaskRing, Integers, SequenceTheorems, TLAPS

\* What the functions of em_task_queue.c keep of a queue: its indices are in
\* bounds, and every slot of the buffer exists.

IsRing(q) ==
    /\ q = [tasks |-> q.tasks, capacity |-> q.capacity, head |-> q.head, tail |-> q.tail]
    /\ q.capacity \in Nat \ {0}
    /\ {q.head, q.tail} \subseteq 0..(q.capacity - 1)
    /\ q.tasks = [i \in 0..(q.capacity - 1) |-> q.tasks[i]]

\* How many tasks there are.
Count(q) == (q.tail + q.capacity - q.head) % q.capacity

-----------------------------------------------------------------------------
(* Arithmetic on indices *)

\* The remainder of an index in bounds is the index itself.
LEMMA ModSmall == ASSUME NEW c \in Nat, NEW a \in Nat, a < c PROVE a % c = a
  BY Z3

\* That of an index less than one round past the end.
LEMMA ModOnce == ASSUME NEW c \in Nat, NEW a \in Nat, c <= a, a < 2 * c PROVE a % c = a - c
  BY Z3

Wrapped(a, c) == IF a < c THEN a ELSE a - c

\* All sums of indices in the code are below twice the capacity.
LEMMA ModWrap == ASSUME NEW c \in Nat \ {0}, NEW a \in 0..(2 * c - 1)
                 PROVE a % c = Wrapped(a, c)
<1>1. c \in Nat /\ a \in Nat /\ a < 2 * c
  OBVIOUS
<1>2. CASE a < c
  BY ONLY <1>1, <1>2, ModSmall DEF Wrapped
<1>3. CASE ~(a < c)
  <2>1. c <= a
    BY ONLY <1>1, <1>3
  <2> QED BY ONLY <1>1, <1>3, <2>1, ModOnce DEF Wrapped
<1> QED BY ONLY <1>2, <1>3

\* The number of tasks by cases, and that one slot is always empty.
LEMMA CountValue ==
    ASSUME NEW q, IsRing(q)
    PROVE  /\ Count(q) = IF q.head <= q.tail THEN q.tail - q.head
                         ELSE q.tail + q.capacity - q.head
           /\ Count(q) \in 0..(q.capacity - 1)
<1> DEFINE a == q.tail + q.capacity - q.head
<1>1. /\ q.capacity \in Nat \ {0} /\ q.head \in 0..(q.capacity - 1)
      /\ q.tail \in 0..(q.capacity - 1)
  BY DEF IsRing
<1>2. a \in 0..(2 * q.capacity - 1)
  BY <1>1
<1>3. Count(q) = Wrapped(a, q.capacity)
  BY <1>1, <1>2, ModWrap DEF Count
<1> QED
  BY <1>1, <1>3 DEF Wrapped

\* The slot of the i-th task, counted from 0, is in the buffer.
LEMMA SlotValue ==
    ASSUME NEW q, IsRing(q), NEW i \in 0..(q.capacity - 1)
    PROVE  /\ (q.head + i) % q.capacity = Wrapped(q.head + i, q.capacity)
           /\ (q.head + i) % q.capacity \in 0..(q.capacity - 1)
<1>1. q.capacity \in Nat \ {0} /\ q.head \in 0..(q.capacity - 1)
  BY DEF IsRing
<1>2. (q.head + i) % q.capacity = Wrapped(q.head + i, q.capacity)
  <2>1. q.head + i \in 0..(2 * q.capacity - 1)
    BY <1>1
  <2> QED BY <1>1, <2>1, ModWrap
<1> QED
  BY <1>1, <1>2 DEF Wrapped

\* The contents without the remainder.
LEMMA ContentsOf ==
    ASSUME NEW q, IsRing(q)
    PROVE  Contents(q) = [i \in 1..Count(q) |-> q.tasks[Wrapped(q.head + i - 1, q.capacity)]]
<1>1. \A i \in 1..Count(q) : (q.head + i - 1) % q.capacity = Wrapped(q.head + i - 1, q.capacity)
  <2> SUFFICES ASSUME NEW i \in 1..Count(q)
               PROVE  (q.head + i - 1) % q.capacity = Wrapped(q.head + i - 1, q.capacity)
    OBVIOUS
  <2>1. i - 1 \in 0..(q.capacity - 1) /\ q.head \in Nat /\ i \in Nat
    BY CountValue DEF IsRing
  <2>2. q.head + (i - 1) = q.head + i - 1
    BY <2>1
  <2> QED BY <2>1, <2>2, SlotValue
<1> QED BY <1>1 DEF Contents, Count

\* Where an index moves to.
LEMMA SuccValue ==
    ASSUME NEW c \in Nat \ {0}, NEW x \in 0..(c - 1)
    PROVE  (x + 1) % c = IF x = c - 1 THEN 0 ELSE x + 1
<1>1. x + 1 \in 0..(2 * c - 1)
  OBVIOUS
<1>2. (x + 1) % c = Wrapped(x + 1, c)
  BY <1>1, ModWrap
<1> QED BY <1>2 DEF Wrapped

\* em_task_queue_is_full and em_task_queue_is_empty tell the two extremes apart.
LEMMA FullCount ==
    ASSUME NEW q, IsRing(q)
    PROVE  /\ IsFull(q) <=> Count(q) = q.capacity - 1
           /\ IsEmpty(q) <=> Count(q) = 0
<1>1. /\ q.capacity \in Nat \ {0} /\ q.head \in 0..(q.capacity - 1)
      /\ q.tail \in 0..(q.capacity - 1)
  BY DEF IsRing
<1>2. (q.tail + 1) % q.capacity = IF q.tail = q.capacity - 1 THEN 0 ELSE q.tail + 1
  BY <1>1, SuccValue
<1>3. Count(q) = IF q.head <= q.tail THEN q.tail - q.head ELSE q.tail + q.capacity - q.head
  BY CountValue
<1> QED
  BY <1>1, <1>2, <1>3 DEF IsFull, IsEmpty

-----------------------------------------------------------------------------
(* The operations *)

\* em_task_queue_enqueue with a slot to spare.
LEMMA PutAppends ==
    ASSUME NEW q, IsRing(q), ~IsFull(q), NEW t
    PROVE  IsRing(Put(q, t)) /\ Contents(Put(q, t)) = Append(Contents(q), t)
<1> DEFINE c == q.capacity
           n == Count(q)
           p == Put(q, t)
           S == {q.tasks[i] : i \in 0..(c - 1)} \union {t}
<1>1. /\ c \in Nat \ {0} /\ q.head \in 0..(c - 1) /\ q.tail \in 0..(c - 1)
      /\ q.tasks = [i \in 0..(c - 1) |-> q.tasks[i]]
      /\ q = [tasks |-> q.tasks, capacity |-> c, head |-> q.head, tail |-> q.tail]
  BY DEF IsRing
<1>2. (q.tail + 1) % c = IF q.tail = c - 1 THEN 0 ELSE q.tail + 1
  BY <1>1, SuccValue
<1>3. p = [tasks |-> [q.tasks EXCEPT ![q.tail] = t], capacity |-> c, head |-> q.head,
           tail |-> (q.tail + 1) % c]
  <2> DEFINE newTail == (q.tail + 1) % c
             newTasks == [q.tasks EXCEPT ![q.tail] = t]
  <2>1. p = [q EXCEPT !.tasks = newTasks, !.tail = newTail]
    BY DEF Put
  <2> HIDE DEF newTail, newTasks, p
  <2>2. p = [tasks |-> newTasks, capacity |-> c, head |-> q.head, tail |-> newTail]
    BY <1>1, <2>1
  <2> QED BY <2>2 DEF newTail, newTasks
<1>4. /\ p.tasks = [q.tasks EXCEPT ![q.tail] = t] /\ p.capacity = c /\ p.head = q.head
      /\ p.tail = IF q.tail = c - 1 THEN 0 ELSE q.tail + 1
  BY <1>2, <1>3
<1> HIDE DEF p
<1>5. IsRing(p)
  <2>1. p.tail \in 0..(c - 1)
    BY <1>1, <1>4
  <2>2. p.tasks = [i \in 0..(c - 1) |-> p.tasks[i]]
    BY <1>1, <1>4
  <2>3. p = [tasks |-> p.tasks, capacity |-> p.capacity, head |-> p.head, tail |-> p.tail]
    BY <1>3
  <2> QED BY <1>1, <1>4, <2>1, <2>2, <2>3 DEF IsRing
<1>6. n = IF q.head <= q.tail THEN q.tail - q.head ELSE q.tail + c - q.head
  BY CountValue
<1>7. n \in 0..(c - 1) /\ n # c - 1
  BY CountValue, FullCount
<1>8. Count(p) = n + 1
  <2>1. Count(p) = IF p.head <= p.tail THEN p.tail - p.head ELSE p.tail + p.capacity - p.head
    BY <1>5, CountValue
  <2>2. Count(p) = IF q.head <= p.tail THEN p.tail - q.head ELSE p.tail + c - q.head
    BY <1>4, <2>1
  <2> HIDE DEF n
  <2>3. CASE q.tail = c - 1
    <3>1. p.tail = 0 /\ q.head # 0
      BY <1>1, <1>4, <1>6, <1>7, <2>3
    <3>2. Count(p) = 0 + c - q.head
      BY <1>1, <2>2, <3>1
    <3>3. n = q.tail - q.head
      BY <1>1, <1>6, <2>3
    <3> QED BY <1>1, <2>3, <3>2, <3>3
  <2>4. CASE q.tail # c - 1
    <3>1. q.head # q.tail + 1
      BY <1>1, <1>6, <1>7, <2>4
    <3>2. p.tail = q.tail + 1
      BY <1>4, <2>4
    <3>3. CASE q.head <= q.tail
      <4>1. Count(p) = p.tail - q.head
        BY <1>1, <2>2, <3>2, <3>3
      <4> QED BY <1>1, <1>6, <3>2, <3>3, <4>1
    <3>4. CASE ~(q.head <= q.tail)
      <4>1. Count(p) = p.tail + c - q.head
        BY <1>1, <2>2, <3>1, <3>2, <3>4
      <4> QED BY <1>1, <1>6, <3>2, <3>4, <4>1
    <3> QED BY <3>3, <3>4
  <2> QED BY <2>3, <2>4
<1>9. Wrapped(q.head + n, c) = q.tail
  BY <1>1, <1>6 DEF Wrapped
<1>10. \A i \in 1..n : /\ Wrapped(q.head + i - 1, c) # q.tail
                       /\ Wrapped(q.head + i - 1, c) \in 0..(c - 1)
  BY <1>1, <1>6, <1>7 DEF Wrapped
<1>11. \A i \in 1..(n + 1) : p.tasks[Wrapped(q.head + i - 1, c)] =
           IF i = n + 1 THEN t ELSE q.tasks[Wrapped(q.head + i - 1, c)]
  <2> SUFFICES ASSUME NEW i \in 1..(n + 1)
               PROVE  p.tasks[Wrapped(q.head + i - 1, c)] =
                        IF i = n + 1 THEN t ELSE q.tasks[Wrapped(q.head + i - 1, c)]
    OBVIOUS
  <2>1. CASE i = n + 1
    <3>1. q.head + i - 1 = q.head + n
      BY <1>1, <1>7, <2>1
    <3> QED BY <1>1, <1>4, <1>9, <2>1, <3>1
  <2>2. CASE i # n + 1
    <3>1. i \in 1..n
      BY <1>7, <2>2
    <3> QED BY <1>1, <1>4, <1>10, <2>2, <3>1
  <2> QED BY <2>1, <2>2
<1>12. Contents(p) = [i \in 1..(n + 1) |-> p.tasks[Wrapped(q.head + i - 1, c)]]
  <2>1. Contents(p) = [i \in 1..Count(p) |-> p.tasks[Wrapped(p.head + i - 1, p.capacity)]]
    BY <1>5, ContentsOf
  <2> HIDE DEF n
  <2> QED BY <1>4, <1>8, <2>1
<1>13. Contents(q) = [i \in 1..n |-> q.tasks[Wrapped(q.head + i - 1, c)]]
  BY ContentsOf
<1>14. Contents(q) \in Seq(S) /\ Len(Contents(q)) = n
  <2>1. \A i \in 1..n : q.tasks[Wrapped(q.head + i - 1, c)] \in S
    BY <1>10
  <2>2. Contents(q) \in [1..n -> S]
    BY <1>13, <2>1
  <2>3. n \in Nat
    BY <1>7
  <2> QED BY <2>2, <2>3
<1>15. Append(Contents(q), t) =
         [i \in 1..(n + 1) |-> IF i = n + 1 THEN t ELSE Contents(q)[i]]
  <2> DEFINE a == Append(Contents(q), t)
  <2>1. t \in S
    OBVIOUS
  <2> HIDE DEF S, n
  <2>2. /\ a \in Seq(S) /\ Len(a) = n + 1 /\ a[n + 1] = t
        /\ \A i \in 1..n : a[i] = Contents(q)[i]
    BY <1>14, <2>1, AppendProperties
  <2>3. a = [i \in 1..(n + 1) |-> a[i]]
    <3>1. a \in [1..Len(a) -> S]
      BY <2>2, LenProperties
    <3> QED BY <2>2, <3>1
  <2>4. \A i \in 1..(n + 1) : a[i] = IF i = n + 1 THEN t ELSE Contents(q)[i]
    BY <1>7, <2>2
  <2> HIDE DEF a
  <2>5. a = [i \in 1..(n + 1) |-> IF i = n + 1 THEN t ELSE Contents(q)[i]]
    BY <2>3, <2>4
  <2> QED BY <2>5 DEF a
<1>16. Contents(p) = [i \in 1..(n + 1) |-> IF i = n + 1 THEN t ELSE Contents(q)[i]]
  <2>1. \A i \in 1..(n + 1) : i # n + 1 => i \in 1..n
    BY <1>7
  <2> QED BY <1>11, <1>12, <1>13, <2>1
<1> QED BY <1>5, <1>15, <1>16 DEF p

\* em_task_queue_grow keeps the tasks and their order, and makes room.
LEMMA GrowKeeps ==
    ASSUME NEW q, IsRing(q), IsFull(q)
    PROVE  /\ IsRing(Grow(q)) /\ ~IsFull(Grow(q))
           /\ Contents(Grow(q)) = Contents(q)
<1> DEFINE c == q.capacity
           n == Count(q)
           g == Grow(q)
           first == IF q.head <= q.tail THEN q.tail - q.head ELSE c - q.head
           last == IF q.head <= q.tail THEN 0 ELSE q.tail
           Slot(i) == IF i < first THEN q.tasks[q.head + i]
                      ELSE IF i < first + last THEN q.tasks[i - first] ELSE NoTask
<1>1. c \in Nat \ {0} /\ q.head \in 0..(c - 1) /\ q.tail \in 0..(c - 1)
  BY DEF IsRing
<1>2. n = first + last /\ n = c - 1
  BY <1>1, CountValue, FullCount
<1>3. g = [tasks |-> [i \in 0..(2 * c - 1) |-> Slot(i)], capacity |-> 2 * c,
           head |-> 0, tail |-> first + last]
  BY DEF Grow
<1>4. /\ g.tasks = [i \in 0..(2 * c - 1) |-> Slot(i)] /\ g.capacity = 2 * c
      /\ g.head = 0 /\ g.tail = n
  BY <1>2, <1>3
<1>5. IsRing(g)
  <2>1. g = [tasks |-> g.tasks, capacity |-> g.capacity, head |-> g.head, tail |-> g.tail]
    BY <1>3
  <2>2. g.tasks = [i \in 0..(2 * c - 1) |-> g.tasks[i]]
    BY <1>4
  <2>3. 2 * c \in Nat \ {0} /\ {0, n} \subseteq 0..(2 * c - 1)
    BY <1>1, <1>2
  <2> QED BY <1>4, <2>1, <2>2, <2>3 DEF IsRing
<1>6. Count(g) = n
  <2>1. Count(g) = IF g.head <= g.tail THEN g.tail - g.head ELSE g.tail + g.capacity - g.head
    BY <1>5, CountValue
  <2> QED BY <1>1, <1>2, <1>4, <2>1
<1>7. ~IsFull(g)
  <2>1. n # 2 * c - 1
    BY <1>1, <1>2
  <2> QED BY <1>4, <1>5, <1>6, <2>1, FullCount
<1>8. \A i \in 1..n : g.tasks[Wrapped(0 + i - 1, 2 * c)] = q.tasks[Wrapped(q.head + i - 1, c)]
  <2> SUFFICES ASSUME NEW i \in 1..n
               PROVE  g.tasks[Wrapped(0 + i - 1, 2 * c)] = q.tasks[Wrapped(q.head + i - 1, c)]
    OBVIOUS
  <2>1. Wrapped(0 + i - 1, 2 * c) = i - 1 /\ i - 1 \in 0..(2 * c - 1)
    BY <1>1, <1>2 DEF Wrapped
  <2>2. g.tasks[i - 1] = Slot(i - 1)
    BY <1>4, <2>1
  <2>3. CASE i - 1 < first
    <3>1. Wrapped(q.head + i - 1, c) = q.head + (i - 1)
      BY <1>1, <2>3 DEF Wrapped
    <3> QED BY <2>1, <2>2, <2>3, <3>1
  <2>4. CASE ~(i - 1 < first)
    <3>1. Wrapped(q.head + i - 1, c) = (i - 1) - first /\ i - 1 < first + last
      BY <1>1, <1>2, <2>4 DEF Wrapped
    <3> QED BY <2>1, <2>2, <2>4, <3>1
  <2> QED BY <2>3, <2>4
<1>9. Contents(g) = [i \in 1..n |-> g.tasks[Wrapped(0 + i - 1, 2 * c)]]
  <2> HIDE DEF g, n
  <2>1. Contents(g) = [i \in 1..Count(g) |-> g.tasks[Wrapped(g.head + i - 1, g.capacity)]]
    BY <1>5, ContentsOf
  <2> QED BY <1>4, <1>6, <2>1
<1> QED BY <1>5, <1>7, <1>8, <1>9, ContentsOf

\* em_task_queue_enqueue adds its task at the end of the queue, whether the
\* ring has to grow or not.
THEOREM EnqueueAppends ==
    ASSUME NEW q, IsRing(q), NEW t
    PROVE  IsRing(Enqueue(q, t)) /\ Contents(Enqueue(q, t)) = Append(Contents(q), t)
<1>1. CASE IsFull(q)
  BY <1>1, GrowKeeps, PutAppends DEF Enqueue
<1>2. CASE ~IsFull(q)
  BY <1>2, PutAppends DEF Enqueue
<1> QED BY <1>1, <1>2

\* em_task_queue_dequeue takes the task at the front of the queue.
THEOREM DequeueTakesFirst ==
    ASSUME NEW q, IsRing(q), ~IsEmpty(q)
    PROVE  /\ IsRing(Dequeue(q)) /\ Contents(Dequeue(q)) = Tail(Contents(q))
           /\ Contents(q) # <<>> /\ First(q) = Head(Contents(q))
<1> DEFINE c == q.capacity
           n == Count(q)
           d == Dequeue(q)
           S == {q.tasks[i] : i \in 0..(c - 1)}
<1>1. /\ c \in Nat \ {0} /\ q.head \in 0..(c - 1) /\ q.tail \in 0..(c - 1)
      /\ q.tasks = [i \in 0..(c - 1) |-> q.tasks[i]]
      /\ q = [tasks |-> q.tasks, capacity |-> c, head |-> q.head, tail |-> q.tail]
  BY DEF IsRing
<1>2. (q.head + 1) % c = IF q.head = c - 1 THEN 0 ELSE q.head + 1
  BY <1>1, SuccValue
<1>3. d = [tasks |-> [q.tasks EXCEPT ![q.head] = NoTask], capacity |-> c,
           head |-> (q.head + 1) % c, tail |-> q.tail]
  <2> DEFINE newHead == (q.head + 1) % c
             newTasks == [q.tasks EXCEPT ![q.head] = NoTask]
  <2>1. d = [q EXCEPT !.tasks = newTasks, !.head = newHead]
    BY DEF Dequeue
  <2> HIDE DEF newHead, newTasks, d
  <2>2. d = [tasks |-> newTasks, capacity |-> c, head |-> newHead, tail |-> q.tail]
    BY <1>1, <2>1
  <2> QED BY <2>2 DEF newHead, newTasks
<1>4. /\ d.tasks = [q.tasks EXCEPT ![q.head] = NoTask] /\ d.capacity = c /\ d.tail = q.tail
      /\ d.head = IF q.head = c - 1 THEN 0 ELSE q.head + 1
  BY <1>2, <1>3
<1> HIDE DEF d
<1>5. IsRing(d)
  <2>1. d.head \in 0..(c - 1)
    BY <1>1, <1>4
  <2>2. d.tasks = [i \in 0..(c - 1) |-> d.tasks[i]]
    BY <1>1, <1>4
  <2>3. d = [tasks |-> d.tasks, capacity |-> d.capacity, head |-> d.head, tail |-> d.tail]
    BY <1>3
  <2> QED BY <1>1, <1>4, <2>1, <2>2, <2>3 DEF IsRing
<1>6. /\ n = IF q.head <= q.tail THEN q.tail - q.head ELSE q.tail + c - q.head
      /\ n \in 1..(c - 1)
  <2>1. n # 0
    BY FullCount
  <2> QED BY <1>1, <2>1, CountValue
<1>7. Count(d) = n - 1
  <2>1. Count(d) = IF d.head <= q.tail THEN q.tail - d.head ELSE q.tail + c - d.head
    <3>1. Count(d) = IF d.head <= d.tail THEN d.tail - d.head ELSE d.tail + d.capacity - d.head
      BY <1>5, CountValue
    <3> QED BY <1>4, <3>1
  <2> HIDE DEF n
  <2>2. CASE q.head = c - 1
    BY <1>1, <1>4, <1>6, <2>1, <2>2
  <2>3. CASE q.head # c - 1
    <3>1. d.head = q.head + 1 /\ q.head # q.tail
      BY <1>1, <1>4, <2>3 DEF IsEmpty
    <3>2. CASE q.head < q.tail
      <4>1. d.head <= q.tail /\ n = q.tail - q.head
        BY <1>1, <1>6, <3>1, <3>2
      <4> QED BY <1>1, <2>1, <3>1, <4>1
    <3>3. CASE q.tail < q.head
      <4>1. ~(d.head <= q.tail) /\ n = q.tail + c - q.head
        BY <1>1, <1>6, <3>1, <3>3
      <4> QED BY <1>1, <2>1, <3>1, <4>1
    <3> QED BY <1>1, <3>1, <3>2, <3>3
  <2> QED BY <2>2, <2>3
<1>8. \A i \in 1..(n - 1) : d.tasks[Wrapped(d.head + i - 1, c)] = q.tasks[Wrapped(q.head + (i + 1) - 1, c)]
  <2> SUFFICES ASSUME NEW i \in 1..(n - 1)
               PROVE  d.tasks[Wrapped(d.head + i - 1, c)] = q.tasks[Wrapped(q.head + (i + 1) - 1, c)]
    OBVIOUS
  <2> HIDE DEF n
  <2>1. Wrapped(d.head + i - 1, c) = Wrapped(q.head + (i + 1) - 1, c)
    BY <1>1, <1>4, <1>6 DEF Wrapped
  <2>2. /\ Wrapped(q.head + (i + 1) - 1, c) # q.head
        /\ Wrapped(q.head + (i + 1) - 1, c) \in 0..(c - 1)
    <3>1. i \in 1..(c - 2)
      BY <1>1, <1>6
    <3>2. q.head + (i + 1) - 1 = q.head + i
      BY <1>1, <3>1
    <3>3. CASE q.head + i < c
      BY <1>1, <3>1, <3>2, <3>3 DEF Wrapped
    <3>4. CASE ~(q.head + i < c)
      BY <1>1, <3>1, <3>2, <3>4 DEF Wrapped
    <3> QED BY <3>3, <3>4
  <2> QED BY <1>1, <1>4, <2>1, <2>2
<1>9. Contents(d) = [i \in 1..(n - 1) |-> d.tasks[Wrapped(d.head + i - 1, c)]]
  <2>1. Contents(d) = [i \in 1..Count(d) |-> d.tasks[Wrapped(d.head + i - 1, d.capacity)]]
    BY <1>5, ContentsOf
  <2> HIDE DEF n
  <2> QED BY <1>4, <1>7, <2>1
<1>10. Contents(q) = [i \in 1..n |-> q.tasks[Wrapped(q.head + i - 1, c)]]
  BY ContentsOf
<1>11. Contents(q) \in Seq(S) /\ Len(Contents(q)) = n
  <2>1. \A i \in 1..n : Wrapped(q.head + i - 1, c) \in 0..(c - 1)
    <3> HIDE DEF n
    <3> QED BY <1>1, <1>6 DEF Wrapped
  <2>2. Contents(q) \in [1..n -> S]
    BY <1>10, <2>1
  <2> HIDE DEF n
  <2> QED BY <1>6, <2>2
<1>12. Contents(q) # <<>> /\ First(q) = Head(Contents(q))
  <2>1. Wrapped(q.head + 1 - 1, c) = q.head
    BY <1>1 DEF Wrapped
  <2> HIDE DEF n
  <2>2. Contents(q)[1] = q.tasks[q.head]
    BY <1>6, <1>10, <2>1
  <2> HIDE DEF S
  <2> QED BY <1>6, <1>11, <2>2 DEF First
<1>13. Tail(Contents(q)) = [i \in 1..(n - 1) |-> Contents(q)[i + 1]]
  <2> DEFINE a == Tail(Contents(q))
  <2> HIDE DEF n, S
  <2>1. /\ a \in Seq(S) /\ Len(a) = n - 1
        /\ \A i \in 1..(n - 1) : a[i] = Contents(q)[i + 1]
    BY <1>11, <1>12, HeadTailProperties
  <2>2. a = [i \in 1..(n - 1) |-> a[i]]
    <3>1. a \in [1..Len(a) -> S]
      BY <2>1, LenProperties
    <3> QED BY <2>1, <3>1
  <2> HIDE DEF a
  <2>3. a = [i \in 1..(n - 1) |-> Contents(q)[i + 1]]
    BY <2>1, <2>2
  <2> QED BY <2>3 DEF a
<1>14. Contents(d) = [i \in 1..(n - 1) |-> Contents(q)[i + 1]]
  <2> HIDE DEF n
  <2>1. \A i \in 1..(n - 1) : i + 1 \in 1..n
    BY <1>6
  <2> QED BY <1>8, <1>9, <1>10, <2>1
<1> QED BY <1>5, <1>12, <1>13, <1>14 DEF d

\* em_task_queue_create makes an empty queue.
LEMMA NewRingEmpty == IsRing(NewRing) /\ Contents(NewRing) = <<>>
<1>1. IsRing(NewRing) /\ NewRing.head = 0 /\ NewRing.tail = 0
  BY TaskRingAssumption DEF NewRing, IsRing
<1>2. Count(NewRing) = 0
  BY <1>1, FullCount DEF IsEmpty
<1> QED BY <1>1, <1>2, ContentsOf
=============================================================================
