----------------------------- MODULE TaskRing -----------------------------
(***************************************************************************)
(* The ring buffer of an em_task_queue (em_task_queue.c): capacity slots,  *)
(* of which the ones from head up to and without tail hold tasks, and one  *)
(* is always empty, so that a full ring differs from an empty one.         *)
(***************************************************************************)
EXTENDS Naturals, Sequences

CONSTANTS
    InitialCapacity,    \* EM_TASK_QUEUE_INITIAL_CAPACITY
    NoTask              \* what a slot holds that no task is in

ASSUME TaskRingAssumption == InitialCapacity \in Nat \ {0}

NewRing ==
    [tasks |-> [i \in 0..(InitialCapacity - 1) |-> NoTask],
     capacity |-> InitialCapacity, head |-> 0, tail |-> 0]

IsEmpty(q) == q.head = q.tail
IsFull(q) == q.head = (q.tail + 1) % q.capacity

\* Mutant: copies a wrapped queue as if it were in one piece.
Grow_MutantOnePiece(q) ==
    LET count == (q.tail + q.capacity - q.head) % q.capacity
    IN  [tasks |-> [i \in 0..(2 * q.capacity - 1) |->
                      IF i < count /\ q.head + i < q.capacity
                      THEN q.tasks[q.head + i] ELSE NoTask],
         capacity |-> 2 * q.capacity, head |-> 0, tail |-> count]

\* The tasks move to the start of a buffer of twice the size, in one piece or,
\* when they wrap around the end of the old one, in two.
Grow(q) ==
    LET first == IF q.head <= q.tail THEN q.tail - q.head ELSE q.capacity - q.head
        last == IF q.head <= q.tail THEN 0 ELSE q.tail
    IN  [tasks |-> [i \in 0..(2 * q.capacity - 1) |->
                      IF i < first THEN q.tasks[q.head + i]
                      ELSE IF i < first + last THEN q.tasks[i - first] ELSE NoTask],
         capacity |-> 2 * q.capacity, head |-> 0, tail |-> first + last]

\* Mutant: does not wrap around.
Put_MutantNoWrap(q, t) == [q EXCEPT !.tasks[q.tail] = t, !.tail = @ + 1]

Put(q, t) ==
    [q EXCEPT !.tasks = [@ EXCEPT ![q.tail] = t], !.tail = (@ + 1) % q.capacity]

Enqueue(q, t) == Put(IF IsFull(q) THEN Grow(q) ELSE q, t)

First(q) == q.tasks[q.head]
\* What stays in the slot is never read again.
Dequeue(q) ==
    [q EXCEPT !.tasks = [@ EXCEPT ![q.head] = NoTask], !.head = (@ + 1) % q.capacity]

\* The tasks in the order in which they leave.
Contents(q) ==
    LET n == (q.tail + q.capacity - q.head) % q.capacity
    IN  [i \in 1..n |-> q.tasks[(q.head + i - 1) % q.capacity]]
=============================================================================
