--------------------------- MODULE ProxyCtxProofs ---------------------------
(***************************************************************************)
(* The task queues of ProxyCtx lose, repeat and reorder nothing, its       *)
(* contexts are there as long as something leads to them, its list of      *)
(* active contexts is exact, and callers are told what became of their     *)
(* work: for every initial capacity and any number of threads and calls.   *)
(***************************************************************************)
EXTENDS ProxyCtx, TaskRingProofs, FiniteSetTheorems, FunctionTheorems

\* The queues are functions on the threads, and each is a ring which holds
\* what was sent and has not left.
RingInv ==
    /\ ring = [t \in Threads |-> ring[t]]
    /\ queued = [t \in Threads |-> queued[t]]
    /\ \A t \in Threads : IsRing(ring[t]) /\ Contents(ring[t]) = queued[t]

\* em_task_queue_create: all queues begin empty.
LEMMA RingInit == Init => RingInv
  BY NewRingEmpty DEF Init, RingInv

\* A step that touches no queue.
LEMMA RingKept == RingInv /\ UNCHANGED <<ring, queued>> => RingInv'
  BY DEF RingInv

\* do_proxy: the task goes to the end of the target's queue, and the others
\* stay as they are.
LEMMA SendKeeps ==
    ASSUME RingInv, NEW t, NEW task, Send(t, task)
    PROVE  RingInv'
<1>1. CASE t \in Threads
  <2>1. /\ ring' = [ring EXCEPT ![t] = Enqueue(ring[t], task)]
        /\ queued' = [queued EXCEPT ![t] = Append(queued[t], task)]
    BY DEF Send
  <2>2. /\ IsRing(Enqueue(ring[t], task))
        /\ Contents(Enqueue(ring[t], task)) = Append(queued[t], task)
    BY <1>1, EnqueueAppends DEF RingInv
  <2> QED BY <1>1, <2>1, <2>2 DEF RingInv
<1>2. CASE t \notin Threads
  <2>1. ring' = ring /\ queued' = queued
    BY <1>2 DEF Send, RingInv
  <2> QED BY <2>1, RingKept
<1> QED BY <1>1, <1>2

\* em_task_queue_execute and em_task_queue_cancel: the task at the front of a
\* queue leaves it.
LEMMA ReceiveKeeps ==
    ASSUME RingInv, NEW t \in Threads, Receive(t)
    PROVE  RingInv'
<1>1. /\ ring' = [ring EXCEPT ![t] = Dequeue(ring[t])]
      /\ queued' = [queued EXCEPT ![t] = Tail(queued[t])]
      /\ ~IsEmpty(ring[t])
  BY DEF Receive
<1>2. IsRing(Dequeue(ring[t])) /\ Contents(Dequeue(ring[t])) = Tail(queued[t])
  BY <1>1, DequeueTakesFirst DEF RingInv
<1> QED BY <1>1, <1>2 DEF RingInv

\* Every step of a program sends a task, takes one, or touches no queue.
LEMMA RingStep == RingInv /\ [Next]_vars => RingInv'
<1> SUFFICES ASSUME RingInv, [Next]_vars PROVE RingInv'
  OBVIOUS
<1>1. Target \in Threads /\ Callers \subseteq Threads
  BY DEF Threads
<1>2. ASSUME NEW s \in Callers, NEW c \in Calls, Call(s, c) PROVE RingInv'
  BY <1>2, SendKeeps DEF Call
<1>3. ASSUME NEW s \in Callers, NEW c \in Calls, CallRefused(s, c) PROVE RingInv'
  BY <1>3, RingKept DEF CallRefused
<1>4. ASSUME NEW s \in Callers, WaitForAnswer(s) \/ WakeSpuriously(s) PROVE RingInv'
  BY <1>4, RingKept DEF WaitForAnswer, WakeSpuriously
<1>5. ASSUME NEW s \in Callers, RunCallback(s) PROVE RingInv'
  BY <1>1, <1>5, ReceiveKeeps DEF RunCallback
<1>6. CASE RunWork
  BY <1>1, <1>6, ReceiveKeeps DEF RunWork
<1>7. CASE ReturnUnfinished
  BY <1>7, RingKept DEF ReturnUnfinished
<1>8. ASSUME NEW c \in Ctxs, Finish(c) PROVE RingInv'
  <2>1. UNCHANGED <<ring, queued>> \/ Notify(c, "callback")
    BY <1>8 DEF Finish
  <2> QED BY <2>1, RingKept, SendKeeps DEF Notify, Refuse
<1>9. CASE CancelCtx
  <2> DEFINE c == Top(Target).ctx
  <2>1. UNCHANGED <<ring, queued>> \/ Notify(c, "cancel")
    BY <1>9 DEF CancelCtx
  <2> QED BY <2>1, RingKept, SendKeeps DEF Notify, Refuse
<1>10. CASE Signal \/ Unlock \/ ExitInFunction \/ SweepActive
  BY <1>10, RingKept DEF Signal, Unlock, ExitInFunction, SweepActive
<1>11. ASSUME NEW t \in Threads, CancelQueued(t) PROVE RingInv'
  BY <1>11, ReceiveKeeps DEF CancelQueued
<1>12. ASSUME NEW t \in Threads, Exit(t) \/ Closed(t) \/ RunDestructors(t) PROVE RingInv'
  BY <1>12, RingKept DEF Exit, Closed, RunDestructors
<1>13. CASE UNCHANGED vars
  BY <1>13, RingKept DEF vars
<1> QED
  BY <1>2, <1>3, <1>4, <1>5, <1>6, <1>7, <1>8, <1>9, <1>10, <1>11, <1>12, <1>13 DEF Next

\* Whatever the threads do, the ring of each holds exactly the tasks that were
\* sent to it and have not left, in their order: em_task_queue_enqueue and
\* em_task_queue_dequeue are a queue, also when the ring wraps and grows.
THEOREM QueuesExact == Spec => []RingIsQueue
<1>1. RingInv => RingIsQueue
  BY DEF RingInv, RingIsQueue
<1> QED BY <1>1, RingInit, RingStep, PTL DEF Spec

-----------------------------------------------------------------------------
(***************************************************************************)
(* The inductive invariant of the contexts                                 *)
(***************************************************************************)

\* TypeOK of what the Target and the callers keep of the calls, without the queues
\* and the stacks.
DataOK ==
    /\ phase \in [Threads -> {"running", "closing", "handlers", "destructors"}]
    /\ head \in Ctxs \union {Null}
    /\ {nxt, prv} \subseteq [Ctxs -> Ctxs \union {Null}]
    /\ life \in [Ctxs -> {"none", "live", "freed"}]
    /\ state \in [Syncs -> {"PENDING", "DONE", "CANCELED"}]
    /\ mutex \in [Syncs -> {Target, Null}]
    /\ work \in [Calls -> {"none", "refused", "queued", "active", "finished",
                           "canceled", "stranded"}]
    /\ answer \in [Ctxs -> {"none", "done", "failed"}]

Tasks == [does : {"work", "callback", "cancel"}, call : Calls]

QueuesOK ==
    /\ queued = [t \in Threads |-> queued[t]]
    /\ \A t \in Threads : queued[t] \in Seq(Tasks)

\* What became of a call says what its context is: there until the work is over,
\* with nobody told of another end; and sync.state is that end.
Pending == {"queued", "stranded", "active"}
Over == {"finished", "canceled"}

StateOf(w) == IF w = "finished" THEN "DONE" ELSE IF w = "canceled" THEN "CANCELED" ELSE "PENDING"

WorkInv ==
    /\ \A c \in Ctxs : /\ work[c] \in Pending => life[c] = "live"
                       /\ answer[c] = "done" => work[c] = "finished"
                       /\ answer[c] = "failed" => work[c] \in {"refused", "canceled"}
    /\ \A c \in Syncs : /\ mutex[c] # Null => work[c] \in Over /\ life[c] = "live"
                        /\ state[c] = StateOf(work[c])

\* A thread has one task for a call at the most.  The Target's tasks are work
\* that it has not begun; those of a caller are about callback calls of its own
\* that are over, and tell how.
Queued(t) == {queued[t][i] : i \in DOMAIN queued[t]}
Has(t, c) == \E task \in Queued(t) : task.call = c

Fits(t, task) ==
    IF t = Target
    THEN task.does = "work" /\ work[task.call] \in {"queued", "stranded"}
    ELSE /\ task.call \in Callbacks /\ CallerOf[task.call] = t
         /\ life[task.call] = "live"
         /\ \/ task.does = "callback" /\ work[task.call] = "finished"
            \/ task.does = "cancel" /\ work[task.call] = "canceled"

TaskInv ==
    \A t \in Threads :
        /\ \A task \in Queued(t) : Fits(t, task)
        /\ \A i, j \in DOMAIN queued[t] : queued[t][i].call = queued[t][j].call => i = j

\* A caller that waits for a synchronous call has no other frame, and the
\* context in it is there.
Waits(s, c) ==
    /\ stack[s] \in {<<Frame("lock", c)>>, <<Frame("asleep", c)>>}
    /\ CallerOf[c] = s /\ life[c] = "live" /\ work[c] \in Pending \union Over

CallerInv == \A s \in Callers : stack[s] # <<>> => \E c \in Syncs : Waits(s, c)

\* The Target has a frame that is at work on one context, or none, and below it
\* the destructor's loop, or nothing.
Rest ==
    IF stack[Target] = <<>> \/ At(Target, "sweep") THEN stack[Target] ELSE Tail(stack[Target])

Places == {"function", "cancel", "signal", "unlock"}

Doing(at, c) ==
    \/ at = "function" /\ work[c] = "active" /\ phase[Target] = "running"
    \/ /\ at = "cancel" /\ phase[Target] = "closing"
       /\ work[c] \in {"queued", "stranded"} /\ ~Has(Target, c)
    \/ at = "cancel" /\ phase[Target] = "destructors" /\ work[c] = "active"
    \/ at \in {"signal", "unlock"} /\ c \in Syncs /\ mutex[c] = Target

Loop(st) == st = <<>> \/ \E c, first \in Ctxs : st = <<Sweep(c, first)>>
Above(st, below) ==
    \/ st = below
    \/ \E at \in Places, c \in Ctxs : Doing(at, c) /\ st = <<Frame(at, c)>> \o below

StackInv ==
    /\ stack = [t \in Threads |-> stack[t]]
    /\ Loop(Rest) /\ Above(stack[Target], Rest)

\* The contexts on the list: the active ones, without the one that the destructor
\* is about to cancel.
OnList ==
    {c \in Active : ~(phase[Target] = "destructors" /\ At(Target, "cancel") /\ Top(Target).ctx = c)}

\* They are there in some order, once each.  The destructor has taken the list off
\* its key, and has the rest of it to go, up to where it began.
After(i, n) == IF i = n THEN 1 ELSE i + 1

Enumerates(n, q, S) ==
    /\ n \in Nat /\ q \in [1..n -> Ctxs]
    /\ \A i, j \in 1..n : q[i] = q[j] => i = j
    /\ S = {q[i] : i \in 1..n}

Links(n, q) ==
    /\ head = IF n = 0 THEN Null ELSE q[1]
    /\ \A i \in 1..n : nxt[q[i]] = q[After(i, n)] /\ prv[q[After(i, n)]] = q[i]

ToGo(n, q) ==
    /\ head = Null
    /\ IF n = 0 THEN Rest = <<>>
       ELSE \E first \in Ctxs :
              /\ Rest = <<Sweep(q[1], first)>>
              /\ \A i \in 1..(n - 1) : nxt[q[i]] = q[i + 1] /\ q[i + 1] # first
              /\ nxt[q[n]] = first

ListInv ==
    \E n \in Nat : \E q \in [1..n -> Ctxs] :
        /\ Enumerates(n, q, OnList)
        /\ IF phase[Target] = "destructors" THEN ToGo(n, q) ELSE Links(n, q) /\ Rest = <<>>

CtxInv == DataOK /\ QueuesOK /\ WorkInv /\ TaskInv /\ CallerInv /\ StackInv /\ ListInv

-----------------------------------------------------------------------------
(* The circular list of contexts *)

\* The list as add_active_ctx and remove_active_ctx need it: what they read is the
\* neighbour in the order.
Chain(n, q, S) ==
    /\ Enumerates(n, q, S) /\ Links(n, q)
    /\ nxt \in [Ctxs -> Ctxs \union {Null}] /\ prv \in [Ctxs -> Ctxs \union {Null}]

\* add_active_ctx: a context that is not on the list becomes the last one.
LEMMA AddLinks ==
    ASSUME NEW n, NEW q, NEW S, Chain(n, q, S), NEW c \in Ctxs \ S, AddActive(c)
    PROVE  /\ \E m, p : Enumerates(m, p, S \union {c}) /\ Links(m, p)'
           /\ {nxt', prv'} \subseteq [Ctxs -> Ctxs \union {Null}] /\ head' \in Ctxs
<1> DEFINE p == [i \in 1..(n + 1) |-> IF i <= n THEN q[i] ELSE c]
<1>1. n \in Nat /\ q \in [1..n -> Ctxs] /\ p \in [1..(n + 1) -> Ctxs]
  BY DEF Chain, Enumerates
<1>2. \A i, j \in 1..(n + 1) : p[i] = p[j] => i = j
  BY <1>1 DEF Chain, Enumerates
<1>3. {p[i] : i \in 1..(n + 1)} = {q[i] : i \in 1..n} \union {c}
  <2>1. \A i \in 1..n : p[i] = q[i] /\ i \in 1..(n + 1)
    BY <1>1
  <2>2. p[n + 1] = c /\ n + 1 \in 1..(n + 1)
    BY <1>1
  <2>3. \A i \in 1..(n + 1) : i \in 1..n \/ i = n + 1
    BY <1>1
  <2> HIDE DEF p
  <2> QED BY <2>1, <2>2, <2>3
<1>4. Enumerates(n + 1, p, S \union {c})
  <2>1. S = {q[i] : i \in 1..n} /\ n + 1 \in Nat
    BY <1>1 DEF Chain, Enumerates
  <2> HIDE DEF p
  <2> QED BY <1>1, <1>2, <1>3, <2>1 DEF Enumerates
<1>5. CASE n = 0
  <2>1. head = Null
    BY <1>5 DEF Chain, Enumerates, Links
  <2>2. head' = c /\ nxt' = [nxt EXCEPT ![c] = c] /\ prv' = [prv EXCEPT ![c] = c]
    BY <2>1 DEF AddActive
  <2>3. Links(n + 1, p)'
    BY <1>5, <2>2 DEF Chain, Enumerates, Links, After
  <2>4. {nxt', prv'} \subseteq [Ctxs -> Ctxs \union {Null}]
    BY <2>2 DEF Chain
  <2> HIDE DEF p
  <2> QED BY <1>4, <2>2, <2>3, <2>4
<1>6. CASE n # 0
  <2>1. head = q[1] /\ q[1] \in Ctxs /\ 1 \in 1..n /\ n \in 1..n
    BY <1>1, <1>6 DEF Chain, Enumerates, Links
  <2>2. prv[head] = q[n]
    BY <2>1 DEF Chain, Enumerates, Links, After
  <2>3. head # Null
    BY <2>1, ProxyCtxAssumption DEF Calls
  <2>4. /\ nxt' = [nxt EXCEPT ![c] = q[1], ![q[n]] = c]
        /\ prv' = [prv EXCEPT ![c] = q[n], ![q[1]] = c]
        /\ head' = head
    BY <2>1, <2>2, <2>3 DEF AddActive
  <2>5. q[n] \in Ctxs /\ q[n] # c /\ q[1] # c
    BY <1>1, <2>1 DEF Chain, Enumerates
  <2>6. /\ nxt'[c] = q[1] /\ nxt'[q[n]] = c
        /\ prv'[c] = q[n] /\ prv'[q[1]] = c
        /\ \A i \in 1..(n - 1) : nxt'[q[i]] = q[i + 1] /\ prv'[q[i + 1]] = q[i]
    <3>1. nxt'[c] = q[1] /\ nxt'[q[n]] = c /\ prv'[c] = q[n] /\ prv'[q[1]] = c
      BY <2>4, <2>5, <2>1 DEF Chain, Enumerates
    <3>2. ASSUME NEW i \in 1..(n - 1) PROVE nxt'[q[i]] = q[i + 1] /\ prv'[q[i + 1]] = q[i]
      <4>1. i \in 1..n /\ i + 1 \in 1..n /\ i # n /\ i + 1 # 1
        BY <1>1
      <4>2. q[i] # q[n] /\ q[i + 1] # q[1] /\ q[i] # c /\ q[i + 1] # c /\ q[i] \in Ctxs /\ q[i + 1] \in Ctxs
        BY <4>1, <2>1, <1>1 DEF Chain, Enumerates
      <4>3. nxt[q[i]] = q[i + 1] /\ prv[q[i + 1]] = q[i]
        BY <4>1 DEF Chain, Enumerates, Links, After
      <4> QED BY <4>2, <4>3, <2>4 DEF Chain, Enumerates
    <3> QED BY <3>1, <3>2
  <2>7. ASSUME NEW i \in 1..(n + 1)
        PROVE  nxt'[p[i]] = p[After(i, n + 1)] /\ prv'[p[After(i, n + 1)]] = p[i]
    <3>1. CASE i = n + 1
      BY <3>1, <2>6, <2>1, <1>1 DEF After
    <3>2. CASE i = n
      BY <3>2, <2>6, <2>1, <1>1 DEF After
    <3>3. CASE i \in 1..(n - 1)
      BY <3>3, <2>6, <2>1, <1>1 DEF After
    <3> QED BY <3>1, <3>2, <3>3, <1>1
  <2>8. Links(n + 1, p)'
    <3>1. head' = p[1] /\ n + 1 # 0
      BY <2>1, <2>4, <1>1
    <3> HIDE DEF p
    <3> QED BY <2>7, <3>1 DEF Links
  <2>9. {nxt', prv'} \subseteq [Ctxs -> Ctxs \union {Null}] /\ head' \in Ctxs
    BY <2>1, <2>4, <2>5 DEF Chain, Enumerates
  <2> HIDE DEF p
  <2> QED BY <1>4, <2>8, <2>9
<1> HIDE DEF p
<1> QED BY <1>5, <1>6

\* remove_active_ctx: a context leaves the order of the others as it
\* was, also when it was the first, the last or the only one.
LEMMA RemoveLinks ==
    ASSUME NEW n, NEW q, NEW S, Chain(n, q, S), NEW c \in S, RemoveActive(c)
    PROVE  /\ \E m, p : Enumerates(m, p, S \ {c}) /\ Links(m, p)'
           /\ {nxt', prv'} \subseteq [Ctxs -> Ctxs \union {Null}] /\ head' \in Ctxs \union {Null}
<1>0. PICK k \in 1..n : c = q[k]
  BY DEF Chain, Enumerates
<1> DEFINE p == [i \in 1..(n - 1) |-> IF i < k THEN q[i] ELSE q[i + 1]]
<1>1. n \in Nat /\ q \in [1..n -> Ctxs] /\ p \in [1..(n - 1) -> Ctxs] /\ c \in Ctxs /\ c = q[k]
  BY <1>0 DEF Chain, Enumerates
<1>2. \A i, j \in 1..(n - 1) : p[i] = p[j] => i = j
  BY <1>1 DEF Chain, Enumerates
<1>3. {p[i] : i \in 1..(n - 1)} = {q[i] : i \in 1..n} \ {q[k]}
  <2>1. \A i \in 1..(n - 1) : \E j \in 1..n : p[i] = q[j] /\ j # k
    <3> TAKE i \in 1..(n - 1)
    <3>1. CASE i < k
      BY <3>1, <1>1
    <3>2. CASE ~(i < k)
      <4>1. i + 1 \in 1..n /\ i + 1 # k /\ p[i] = q[i + 1]
        BY <3>2, <1>1
      <4> QED BY <4>1
    <3> QED BY <3>1, <3>2
  <2>2. \A j \in 1..n : j # k => \E i \in 1..(n - 1) : p[i] = q[j]
    <3> SUFFICES ASSUME NEW j \in 1..n, j # k PROVE \E i \in 1..(n - 1) : p[i] = q[j]
      OBVIOUS
    <3>1. CASE j < k
      <4>1. j \in 1..(n - 1) /\ p[j] = q[j]
        BY <3>1, <1>1
      <4> QED BY <4>1
    <3>2. CASE ~(j < k)
      <4>1. j - 1 \in 1..(n - 1) /\ ~(j - 1 < k) /\ (j - 1) + 1 = j
        BY <3>2, <1>1
      <4>2. p[j - 1] = q[j]
        BY <4>1
      <4> QED BY <4>1, <4>2
    <3> QED BY <3>1, <3>2
  <2>3. \A j \in 1..n : q[j] = q[k] => j = k
    BY DEF Chain, Enumerates
  <2> HIDE DEF p
  <2> QED BY <2>1, <2>2, <2>3
<1>4. Enumerates(n - 1, p, S \ {c})
  <2>1. n - 1 \in Nat
    BY <1>1
  <2> HIDE DEF p
  <2> QED BY <1>1, <1>2, <1>3, <2>1 DEF Chain, Enumerates
<1>5. /\ nxt[c] = q[After(k, n)] /\ head = q[1] /\ c = q[k]
      /\ nxt \in [Ctxs -> Ctxs \union {Null}] /\ prv \in [Ctxs -> Ctxs \union {Null}]
  BY <1>0 DEF Chain, Enumerates, Links
<1>6. CASE n = 1
  <2>1. nxt[c] = c
    BY <1>5, <1>6 DEF After
  <2>2. head' = Null /\ nxt' = [nxt EXCEPT ![c] = Null] /\ prv' = [prv EXCEPT ![c] = Null]
    BY <2>1 DEF RemoveActive
  <2>3. Links(n - 1, p)'
    BY <1>6, <2>2 DEF Links
  <2>4. {nxt', prv'} \subseteq [Ctxs -> Ctxs \union {Null}]
    BY <2>2, <1>5
  <2> HIDE DEF p
  <2> QED BY <1>4, <2>2, <2>3, <2>4
<1>7. CASE n # 1
  <2> DEFINE b == IF k = 1 THEN n ELSE k - 1
             a == After(k, n)
  <2>1. n > 1 /\ a \in 1..n /\ b \in 1..n /\ a # k /\ b # k /\ After(b, n) = k
    BY <1>7, <1>1 DEF After
  <2>2. prv[c] = q[b] /\ nxt[c] = q[a]
    BY <2>1, <1>5 DEF Chain, Enumerates, Links
  <2>3. q[a] # c /\ q[b] # c /\ q[a] \in Ctxs /\ q[b] \in Ctxs
    BY <2>1, <1>1 DEF Chain, Enumerates
  <2>4. /\ head' = IF c = head THEN nxt[head] ELSE head
        /\ nxt' = [nxt EXCEPT ![q[b]] = q[a], ![c] = Null]
        /\ prv' = [prv EXCEPT ![q[a]] = q[b], ![c] = Null]
    BY <2>2, <2>3 DEF RemoveActive
  <2>5. /\ nxt'[q[b]] = q[a] /\ prv'[q[a]] = q[b]
        /\ \A i \in 1..n : i # k /\ i # b => nxt'[q[i]] = q[After(i, n)] /\ prv'[q[After(i, n)]] = q[i]
    <3>1. nxt'[q[b]] = q[a] /\ prv'[q[a]] = q[b]
      BY <2>3, <2>4, <1>5, <1>1
    <3>2. ASSUME NEW i \in 1..n, i # k, i # b
          PROVE  nxt'[q[i]] = q[After(i, n)] /\ prv'[q[After(i, n)]] = q[i]
      <4>1. After(i, n) \in 1..n /\ After(i, n) # k /\ After(i, n) # a
        BY <3>2, <1>1, <2>1 DEF After
      <4>2. /\ q[i] # c /\ q[i] # q[b] /\ q[i] \in Ctxs
            /\ q[After(i, n)] # c /\ q[After(i, n)] # q[a] /\ q[After(i, n)] \in Ctxs
        BY <3>2, <4>1, <2>1, <1>1 DEF Chain, Enumerates
      <4>3. nxt[q[i]] = q[After(i, n)] /\ prv[q[After(i, n)]] = q[i]
        BY DEF Chain, Enumerates, Links
      <4> QED BY <4>2, <4>3, <2>4, <1>5
    <3> QED BY <3>1, <3>2
  <2>6. ASSUME NEW i \in 1..(n - 1)
        PROVE  nxt'[p[i]] = p[After(i, n - 1)] /\ prv'[p[After(i, n - 1)]] = p[i]
    <3> DEFINE j == IF i < k THEN i ELSE i + 1
               l == IF After(i, n - 1) < k THEN After(i, n - 1) ELSE After(i, n - 1) + 1
    <3>1. j \in 1..n /\ l \in 1..n /\ After(i, n - 1) \in 1..(n - 1) /\ j # k
      BY <1>1 DEF After
    <3>2. p[i] = q[j] /\ p[After(i, n - 1)] = q[l]
      BY <3>1
    <3>3. (j = b /\ l = a) \/ (j # b /\ l = After(j, n))
      BY <1>1, <2>1 DEF After
    <3> HIDE DEF p, j, l, a, b
    <3> QED BY <3>1, <3>2, <3>3, <2>5
  <2>7. head' = p[1]
    <3>1. 1 \in 1..(n - 1) /\ 1 \in 1..n
      BY <2>1, <1>1
    <3>2. CASE k = 1
      <4>1. head' = q[a] /\ a = 2
        BY <3>2, <2>4, <1>5, <2>1, <2>2 DEF After
      <4> QED BY <4>1, <3>1, <3>2
    <3>3. CASE k # 1
      <4>1. head # c
        BY <3>1, <3>3, <1>5 DEF Chain, Enumerates
      <4> QED BY <4>1, <3>1, <3>3, <2>4, <1>5
    <3> QED BY <3>2, <3>3
  <2>8. Links(n - 1, p)'
    <3>1. n - 1 # 0
      BY <2>1
    <3> HIDE DEF p
    <3> QED BY <2>6, <2>7, <3>1 DEF Links
  <2>9. {nxt', prv'} \subseteq [Ctxs -> Ctxs \union {Null}] /\ head' \in Ctxs
    <3>1. p[1] \in Ctxs
      BY <1>1, <2>1
    <3> QED BY <3>1, <2>3, <2>4, <2>7, <1>5
  <2> HIDE DEF p
  <2> QED BY <1>4, <2>8, <2>9
<1> QED BY <1>6, <1>7

-----------------------------------------------------------------------------
(* Tasks *)

\* The threads and the calls of the system.
LEMMA Kinds ==
    /\ Target \in Threads /\ Target \notin Callers /\ Callers \subseteq Threads
    /\ Threads = Callers \union {Target}
    /\ Syncs \subseteq Ctxs /\ Callbacks \subseteq Ctxs /\ Ctxs \subseteq Calls
    /\ Ctxs = Syncs \union Callbacks /\ Calls = Ctxs \union Asyncs /\ Asyncs \subseteq Calls
    /\ Syncs \intersect Callbacks = {} /\ Ctxs \intersect Asyncs = {}
    /\ Null \notin Ctxs /\ Null # Target
    /\ \A c \in Calls : CallerOf[c] \in Callers
  BY ProxyCtxAssumption DEF Threads, Ctxs, Calls

\* A call has a task in one thread at the most.
LEMMA HasOnce ==
    ASSUME TaskInv, NEW t \in Threads, NEW x \in Threads, NEW c, Has(t, c), Has(x, c)
    PROVE  t = x
  BY DEF TaskInv, Has, Fits

\* A call that has a task says so in what became of its work.
LEMMA HasWork ==
    ASSUME TaskInv, NEW t \in Threads, NEW c, Has(t, c)
    PROVE  IF t = Target THEN work[c] \in {"queued", "stranded"}
                         ELSE work[c] \in Over /\ c \in Callbacks
  BY DEF TaskInv, Has, Fits, Over

\* Whether a task fits depends on what became of its call.
LEMMA FitsKept ==
    ASSUME NEW t, NEW task, task.call \in Callbacks => life'[task.call] = life[task.call],
           work'[task.call] = work[task.call], Fits(t, task)
    PROVE  Fits(t, task)'
  BY DEF Fits

\* A task is about a call.
LEMMA QueuedTasks ==
    ASSUME QueuesOK, NEW t \in Threads, NEW task \in Queued(t)
    PROVE  task \in Tasks /\ task.call \in Calls
<1>1. PICK i \in DOMAIN queued[t] : task = queued[t][i]
  BY DEF Queued
<1>2. task \in Tasks
  BY <1>1 DEF QueuesOK
<1> QED BY <1>2 DEF Tasks

\* A step that sends and takes no task.
LEMMA TasksKept ==
    ASSUME QueuesOK, TaskInv, UNCHANGED queued,
           \A t \in Threads : \A c \in Calls : Has(t, c) =>
              work'[c] = work[c] /\ (c \in Callbacks => life'[c] = life[c])
    PROVE  QueuesOK' /\ TaskInv'
<1>1. ASSUME NEW t \in Threads, NEW task \in Queued(t) PROVE Fits(t, task)'
  <2>1. Has(t, task.call) /\ Fits(t, task) /\ task.call \in Calls
    BY QueuedTasks DEF Has, TaskInv
  <2> QED BY <2>1, FitsKept
<1>2. \A t : Queued(t)' = Queued(t)
  BY DEF Queued
<1> QED BY <1>1, <1>2 DEF TaskInv, QueuesOK

\* A step that sends a task for a call that had none.
LEMMA TaskSent ==
    ASSUME QueuesOK, TaskInv, NEW t \in Threads,
           NEW task \in Tasks,
           queued' = [queued EXCEPT ![t] = Append(@, task)],
           \A x \in Threads : ~Has(x, task.call),
           \A c \in Calls : c # task.call => work'[c] = work[c] /\ (c \in Callbacks => life'[c] = life[c]),
           Fits(t, task)'
    PROVE  /\ QueuesOK' /\ TaskInv'
           /\ \A x \in Threads : \A c : Has(x, c)' => Has(x, c) \/ (x = t /\ c = task.call)
<1>1. \A x \in Threads : queued'[x] = IF x = t THEN Append(queued[t], task) ELSE queued[x]
  BY DEF QueuesOK
<1>2. QueuesOK'
  <2>1. Append(queued[t], task) \in Seq(Tasks)
    BY DEF QueuesOK
  <2>2. queued' = [x \in Threads |-> queued'[x]]
    BY DEF QueuesOK
  <2> QED BY <1>1, <2>1, <2>2 DEF QueuesOK
<1>3. /\ DOMAIN queued'[t] = DOMAIN queued[t] \union {Len(queued[t]) + 1}
      /\ \A i \in DOMAIN queued[t] : queued'[t][i] = queued[t][i] /\ i # Len(queued[t]) + 1
      /\ queued'[t][Len(queued[t]) + 1] = task
  BY <1>1 DEF QueuesOK
<1>4. ASSUME NEW x \in Threads
      PROVE  Queued(x)' = IF x = t THEN Queued(x) \union {task} ELSE Queued(x)
  BY <1>1, <1>3 DEF Queued
<1>5. ASSUME NEW x \in Threads, NEW k \in Queued(x) PROVE k.call # task.call /\ Fits(x, k)'
  <2>1. Has(x, k.call) /\ Fits(x, k) /\ k.call \in Calls
    BY QueuedTasks DEF Has, TaskInv
  <2>2. k.call # task.call
    BY <2>1
  <2> QED BY <2>1, <2>2, FitsKept
<1>6. ASSUME NEW x \in Threads, NEW i \in DOMAIN queued'[x], NEW j \in DOMAIN queued'[x],
             queued'[x][i].call = queued'[x][j].call
      PROVE  i = j
  <2>1. CASE x # t
    BY <2>1, <1>6, <1>1 DEF TaskInv
  <2>2. CASE x = t
    BY <2>2, <1>6, <1>3, <1>5 DEF TaskInv, Queued
  <2> QED BY <2>1, <2>2
<1>7. TaskInv'
  BY <1>4, <1>5, <1>6 DEF TaskInv
<1> QED BY <1>2, <1>4, <1>7 DEF Has

\* A step that takes the task at the front of a queue, and changes no other call.
LEMMA TaskTaken ==
    ASSUME RingInv, QueuesOK, TaskInv, NEW t \in Threads, Receive(t),
           \A c \in Calls : c # First(ring[t]).call =>
                    work'[c] = work[c] /\ (c \in Callbacks => life'[c] = life[c])
    PROVE  /\ QueuesOK' /\ TaskInv'
           /\ \A x \in Threads : \A c : Has(x, c)' => Has(x, c) /\ c # First(ring[t]).call
<1> DEFINE task == First(ring[t])
<1>1. queued[t] # <<>> /\ task = Head(queued[t])
  BY DequeueTakesFirst DEF RingInv, Receive
<1>2. \A x \in Threads : queued'[x] = IF x = t THEN Tail(queued[t]) ELSE queued[x]
  BY DEF QueuesOK, Receive
<1>3. /\ 1 \in DOMAIN queued[t] /\ task = queued[t][1]
      /\ DOMAIN queued[t] = 1..Len(queued[t]) /\ Len(queued[t]) \in Nat
      /\ DOMAIN queued'[t] = 1..(Len(queued[t]) - 1)
      /\ \A i \in DOMAIN queued'[t] : i + 1 \in DOMAIN queued[t] /\ queued'[t][i] = queued[t][i + 1]
  <2>1. queued[t] \in Seq(Tasks) /\ queued[t] # <<>> /\ queued'[t] = Tail(queued[t])
    BY <1>1, <1>2 DEF QueuesOK
  <2>2. Len(queued[t]) \in Nat /\ Len(queued[t]) # 0
    BY <2>1
  <2> QED BY <1>1, <2>1, <2>2
<1> HIDE DEF task
<1>4. QueuesOK'
  <2>1. Tail(queued[t]) \in Seq(Tasks)
    BY <1>1 DEF QueuesOK
  <2>2. queued' = [x \in Threads |-> queued'[x]]
    BY DEF QueuesOK, Receive
  <2> QED BY <1>2, <2>1, <2>2 DEF QueuesOK
<1>5. task \in Queued(t) /\ Has(t, task.call)
  BY <1>3 DEF Queued, Has
<1>6. ASSUME NEW x \in Threads, NEW k \in Queued(x)'
      PROVE  k \in Queued(x) /\ k.call # task.call
  <2>1. CASE x = t
    <3>1. PICK i \in DOMAIN queued'[t] : k = queued[t][i + 1] /\ i + 1 \in DOMAIN queued[t] /\ i + 1 # 1
      BY <2>1, <1>3, <1>6 DEF Queued
    <3>2. k \in Queued(t)
      BY <3>1 DEF Queued
    <3>3. k.call # task.call
      BY <3>1, <1>3 DEF TaskInv
    <3> QED BY <2>1, <3>2, <3>3
  <2>2. CASE x # t
    <3>1. k \in Queued(x)
      BY <2>2, <1>2, <1>6 DEF Queued
    <3>2. k.call # task.call
      BY <2>2, <3>1, <1>5, HasOnce DEF Has
    <3> QED BY <3>1, <3>2
  <2> QED BY <2>1, <2>2
<1>7. ASSUME NEW x \in Threads, NEW k \in Queued(x)' PROVE Fits(x, k)'
  <2>1. k.call # task.call /\ Fits(x, k) /\ k.call \in Calls
    BY <1>6, <1>7, QueuedTasks DEF TaskInv
  <2> QED BY <2>1, FitsKept DEF task
<1>8. ASSUME NEW x \in Threads, NEW i \in DOMAIN queued'[x], NEW j \in DOMAIN queued'[x],
             queued'[x][i].call = queued'[x][j].call
      PROVE  i = j
  <2>1. CASE x = t
    <3>1. i \in Nat /\ j \in Nat
      BY <2>1, <1>3
    <3>2. queued[t][i + 1].call = queued[t][j + 1].call /\ i + 1 \in DOMAIN queued[t] /\ j + 1 \in DOMAIN queued[t]
      BY <2>1, <1>3, <1>8
    <3>3. i + 1 = j + 1
      BY <3>2 DEF TaskInv
    <3> QED BY <3>1, <3>3
  <2>2. CASE x # t
    BY <2>2, <1>2, <1>8 DEF TaskInv
  <2> QED BY <2>1, <2>2
<1>9. TaskInv'
  BY <1>7, <1>8 DEF TaskInv
<1> QED BY <1>4, <1>6, <1>9 DEF Has, task

\* The task that is taken is one of the queue's.
LEMMA TaskFirst ==
    ASSUME RingInv, QueuesOK, TaskInv, NEW t \in Threads, Receive(t)
    PROVE  /\ First(ring[t]) \in Tasks
           /\ Has(t, First(ring[t]).call) /\ Fits(t, First(ring[t]))
<1>1. queued[t] # <<>> /\ First(ring[t]) = Head(queued[t])
  BY DequeueTakesFirst DEF RingInv, Receive
<1>2. 1 \in DOMAIN queued[t] /\ Head(queued[t]) = queued[t][1]
  BY <1>1 DEF QueuesOK
<1>3. Head(queued[t]) \in Queued(t)
  BY <1>2 DEF Queued
<1>4. Head(queued[t]) \in Tasks
  BY <1>1 DEF QueuesOK
<1> QED BY <1>1, <1>3, <1>4 DEF Has, TaskInv

-----------------------------------------------------------------------------
(* The frames of the Target *)

\* A frame on top of a stack.
LEMMA Pushed ==
    ASSUME NEW S, NEW r \in Seq(S), NEW f \in S
    PROVE  <<f>> \o r # <<>> /\ Head(<<f>> \o r) = f /\ Tail(<<f>> \o r) = r
<1> DEFINE st == <<f>> \o r
<1>1. /\ st \in Seq(S) /\ Len(st) = 1 + Len(r) /\ Len(r) \in Nat /\ st[1] = f
      /\ \A i \in 1..Len(r) : st[i + 1] = r[i]
  OBVIOUS
<1> HIDE DEF st
<1>2. st # <<>> /\ Head(st) = f
  BY <1>1
<1>3. /\ Tail(st) \in Seq(S) /\ Len(Tail(st)) = Len(r)
      /\ \A i \in 1..Len(r) : Tail(st)[i] = r[i]
  BY <1>1, <1>2
<1>4. Tail(st) = r
  BY <1>3, SeqEqual
<1> QED BY <1>2, <1>4 DEF st

\* The shape of a stack with a frame on top of what is below it.
LEMMA Shapes ==
    ASSUME NEW r, Loop(r)
    PROVE  /\ r # <<>> => /\ Len(r) = 1 /\ Head(r).at = "sweep" /\ Tail(r) = <<>>
                          /\ Head(r).ctx \in Ctxs /\ Head(r).first \in Ctxs
                          /\ r = <<Sweep(Head(r).ctx, Head(r).first)>>
           /\ \A f : /\ <<f>> \o r # <<>> /\ Head(<<f>> \o r) = f /\ Tail(<<f>> \o r) = r
<1>1. \A c, first : LET f == Sweep(c, first) IN f.at = "sweep" /\ f.ctx = c /\ f.first = first
  BY DEF Sweep
<1>2. CASE r = <<>>
  <2>1. \A f : r \in Seq({f})
    BY <1>2
  <2> QED BY <1>2, <2>1, Pushed
<1>3. CASE \E c, first \in Ctxs : r = <<Sweep(c, first)>>
  <2>1. PICK g : r = <<g>> /\ \E c, first \in Ctxs : g = Sweep(c, first)
    BY <1>3
  <2>2. Len(r) = 1 /\ Head(r) = g /\ Tail(r) = <<>> /\ r # <<>>
    BY <2>1
  <2>3. \A f : <<g>> \in Seq({f, g})
    OBVIOUS
  <2>4. \A f : /\ <<f>> \o r # <<>> /\ Head(<<f>> \o r) = f /\ Tail(<<f>> \o r) = r
    <3> TAKE f
    <3>1. r \in Seq({f, g}) /\ f \in {f, g}
      BY <2>1, <2>3
    <3> QED BY <3>1, Pushed
  <2> QED BY <2>1, <2>2, <2>4, <1>1
<1> QED BY <1>2, <1>3 DEF Loop

\* A frame is what it was made of.
LEMMA Frames == \A at, c : Frame(at, c).at = at /\ Frame(at, c).ctx = c
  BY DEF Frame

\* The Target is in no frame, in the destructor's loop, or at work on one context.
LEMMA StackCases ==
    ASSUME StackInv
    PROVE  /\ Loop(Rest)
           /\ \/ stack[Target] = <<>> /\ Rest = <<>>
              \/ /\ stack[Target] # <<>> /\ Rest = stack[Target] /\ At(Target, "sweep")
                 /\ Top(Target) = Sweep(Top(Target).ctx, Top(Target).first) /\ Rest = <<Top(Target)>>
                 /\ Top(Target).ctx \in Ctxs /\ Top(Target).first \in Ctxs
                 /\ Tail(stack[Target]) = <<>>
              \/ /\ stack[Target] # <<>> /\ Top(Target).at \in Places /\ Top(Target).ctx \in Ctxs
                 /\ Doing(Top(Target).at, Top(Target).ctx)
                 /\ Top(Target) = Frame(Top(Target).at, Top(Target).ctx)
                 /\ stack[Target] = <<Top(Target)>> \o Rest
                 /\ Tail(stack[Target]) = Rest /\ ~At(Target, "sweep")
<1>1. Loop(Rest) /\ Above(stack[Target], Rest)
  BY DEF StackInv
<1>2. CASE stack[Target] = <<>>
  BY <1>1, <1>2 DEF Rest
<1>3. CASE stack[Target] # <<>> /\ At(Target, "sweep")
  <2>1. Rest = stack[Target]
    BY <1>3 DEF Rest
  <2> QED BY <1>1, <1>3, <2>1, Shapes DEF Top
<1>4. CASE stack[Target] # <<>> /\ ~At(Target, "sweep")
  <2>1. stack[Target] # Rest
    <3> SUFFICES ASSUME stack[Target] = Rest PROVE FALSE
      OBVIOUS
    <3>1. Head(Rest).at = "sweep"
      BY <1>1, <1>4, Shapes
    <3> QED BY <3>1, <1>4 DEF At, Top
  <2>2. PICK at \in Places, c \in Ctxs : Doing(at, c) /\ stack[Target] = <<Frame(at, c)>> \o Rest
    BY <1>1, <2>1 DEF Above
  <2>3. Top(Target) = Frame(at, c) /\ Tail(stack[Target]) = Rest
    BY <1>1, <2>2, Shapes DEF Top
  <2>4. Top(Target).at = at /\ Top(Target).ctx = c
    BY <2>3, Frames
  <2> HIDE DEF Top, Rest, Places
  <2> QED BY <1>1, <1>4, <2>2, <2>3, <2>4
<1> QED BY <1>2, <1>3, <1>4

\* What a step has to leave on the stack of the Target.
LEMMA NewStack ==
    ASSUME stack' = [t \in Threads |-> stack'[t]], NEW r, Loop(r),
           \/ stack'[Target] = r
           \/ \E at \in Places, c \in Ctxs : Doing(at, c)' /\ stack'[Target] = <<Frame(at, c)>> \o r
    PROVE  StackInv' /\ Rest' = r
<1>1. CASE stack'[Target] = r
  <2>1. Rest' = r
    <3>1. CASE r = <<>>
      BY <1>1, <3>1 DEF Rest
    <3>2. CASE r # <<>>
      BY <1>1, <3>2, Shapes DEF Rest, At, Top
    <3> QED BY <3>1, <3>2
  <2> QED BY <1>1, <2>1 DEF StackInv, Above, Loop
<1>2. ASSUME NEW at \in Places, NEW c \in Ctxs, Doing(at, c)', stack'[Target] = <<Frame(at, c)>> \o r
      PROVE  StackInv' /\ Rest' = r
  <2>1. /\ stack'[Target] # <<>> /\ Head(stack'[Target]) = Frame(at, c)
        /\ Tail(stack'[Target]) = r
    BY <1>2, Shapes
  <2>2. Rest' = r
    BY <2>1, Frames DEF Rest, At, Top, Places
  <2> QED BY <1>2, <2>2 DEF StackInv, Above, Loop
<1> QED BY <1>1, <1>2

-----------------------------------------------------------------------------
(* What a step leaves alone *)

\* The type invariant follows.
LEMMA TypeFollows == RingInv /\ CtxInv => TypeOK
<1> SUFFICES ASSUME RingInv, CtxInv PROVE TypeOK
  OBVIOUS
<1>1. ASSUME NEW t \in Threads
      PROVE  /\ {ring[t].head, ring[t].tail} \subseteq 0..(ring[t].capacity - 1)
             /\ queued[t] \in Seq(Tasks)
  BY DEF RingInv, IsRing, CtxInv, QueuesOK
<1>2. ASSUME NEW s \in Callers, NEW i \in DOMAIN stack[s] PROVE stack[s][i].ctx \in Ctxs
  <2>1. stack[s] # <<>>
    BY <1>2
  <2>2. PICK c \in Syncs : stack[s] \in {<<Frame("lock", c)>>, <<Frame("asleep", c)>>}
    BY <2>1 DEF CtxInv, CallerInv, Waits
  <2>3. PICK at : stack[s] = <<Frame(at, c)>>
    BY <2>2
  <2>4. stack[s][i] = Frame(at, c)
    BY <2>3, <1>2
  <2> QED BY <2>4, Frames, Kinds
<1>3. ASSUME NEW i \in DOMAIN stack[Target] PROVE stack[Target][i].ctx \in Ctxs
  <2>1. StackInv /\ stack[Target] # <<>>
    BY <1>3 DEF CtxInv
  <2>2. CASE Rest = stack[Target] /\ Rest = <<Top(Target)>> /\ Top(Target).ctx \in Ctxs
    BY <2>2, <1>3
  <2>3. CASE /\ Top(Target).ctx \in Ctxs /\ stack[Target] = <<Top(Target)>> \o Rest
             /\ Loop(Rest)
    <3>1. CASE Rest = <<>>
      <4>1. stack[Target] = <<Top(Target)>>
        BY <2>3, <3>1
      <4> QED BY <4>1, <2>3, <1>3
    <3>2. CASE Rest # <<>>
      <4>1. PICK g : Rest = <<g>> /\ g.ctx \in Ctxs
        <5>1. Rest = <<Head(Rest)>> /\ Head(Rest).ctx \in Ctxs
          BY <2>3, <3>2, Shapes
        <5> QED BY <5>1
      <4>2. /\ <<Top(Target)>> \in Seq({Top(Target), g}) /\ Rest \in Seq({Top(Target), g})
            /\ stack[Target] \in Seq({Top(Target), g})
        <5>1. <<Top(Target)>> \in Seq({Top(Target), g}) /\ <<g>> \in Seq({Top(Target), g})
          OBVIOUS
        <5> QED BY <5>1, <4>1, <2>3, ConcatProperties
      <4>3. stack[Target][i] \in {Top(Target), g}
        BY <4>2, <1>3
      <4> QED BY <4>1, <4>3, <2>3
    <3> QED BY <3>1, <3>2
  <2> QED BY <2>1, <2>2, <2>3, StackCases
<1> QED BY <1>1, <1>2, <1>3, Kinds DEF TypeOK, CtxInv, DataOK, Tasks

\* A step that changes the stacks of some callers only, and frees no context of
\* the others.
LEMMA CallersKept ==
    ASSUME CallerInv, NEW S,
           \A s \in Callers \ S : stack'[s] = stack[s],
           \A s \in Callers \intersect S : stack'[s] = <<>> \/ \E c \in Syncs : Waits(s, c)',
           \A c \in Syncs : /\ CallerOf[c] \notin S /\ life[c] = "live" /\ work[c] \in Pending \union Over
                            => life'[c] = "live" /\ work'[c] \in Pending \union Over
    PROVE  CallerInv'
<1> SUFFICES ASSUME NEW s \in Callers, stack'[s] # <<>> PROVE \E c \in Syncs : Waits(s, c)'
  BY DEF CallerInv
<1>1. CASE s \in S
  BY <1>1
<1>2. CASE s \notin S
  <2>1. PICK c \in Syncs : Waits(s, c)
    BY <1>2 DEF CallerInv
  <2>2. Waits(s, c)'
    BY <1>2, <2>1 DEF Waits
  <2> QED BY <2>2
<1> QED BY <1>1, <1>2

\* A step that does not touch the list, nor what the Target has of it to go.
LEMMA ListKept ==
    ASSUME ListInv, UNCHANGED listVars, Rest' = Rest, OnList' = OnList,
           (phase'[Target] = "destructors") <=> (phase[Target] = "destructors")
    PROVE  ListInv'
  BY DEF ListInv, listVars, Links, ToGo

\* The order of the list, for the lemmas about its pointers.
LEMMA ListOrder ==
    ASSUME DataOK, StackInv, ListInv, phase[Target] # "destructors"
    PROVE  /\ Rest = <<>> /\ OnList = Active
           /\ \E n, q : Chain(n, q, Active)
<1>1. OnList = Active
  BY DEF OnList
<1> QED BY <1>1 DEF ListInv, Chain, DataOK

\* A step that changes the list as a whole.
LEMMA NewList ==
    ASSUME NEW n, NEW q, Enumerates(n, q, OnList)', Links(n, q)', Rest' = <<>>,
           phase'[Target] # "destructors"
    PROVE  ListInv'
  BY DEF ListInv, Enumerates

\* A step of the callers.
LEMMA TargetKept ==
    ASSUME StackInv, ListInv, stack' = [t \in Threads |-> stack'[t]],
           stack'[Target] = stack[Target], phase'[Target] = phase[Target], UNCHANGED <<listVars, mutex>>,
           \A c \in Ctxs : work'[c] = work[c] \/ (work[c] = "none" /\ work'[c] # "active"),
           \A c \in Ctxs : Has(Target, c)' => Has(Target, c) \/ work[c] = "none"
    PROVE  StackInv' /\ ListInv'
<1>1. Loop(Rest) /\ Above(stack[Target], Rest)
  BY DEF StackInv
<1>2. ASSUME NEW at \in Places, NEW c \in Ctxs, Doing(at, c) PROVE Doing(at, c)'
  BY <1>2 DEF Doing
<1>3. StackInv' /\ Rest' = Rest
  BY <1>1, <1>2, NewStack DEF Above
<1>4. OnList' = OnList
  BY DEF OnList, Active, At, Top
<1>5. ListInv'
  BY <1>3, <1>4, ListKept
<1> QED BY <1>3, <1>5

-----------------------------------------------------------------------------
(* The callers *)

\* emscripten_proxy_sync_with_ctx, do_proxy_callback and emscripten_proxy_async.
LEMMA CallStep ==
    ASSUME CtxInv, NEW s \in Callers, NEW c \in Calls, Call(s, c)
    PROVE  CtxInv'
<1>1. /\ DataOK /\ QueuesOK /\ WorkInv /\ TaskInv /\ CallerInv /\ StackInv /\ ListInv
      /\ CallerOf[c] = s /\ stack[s] = <<>> /\ work[c] = "none"
  BY DEF CtxInv, Call, MayCall, Free
<1>2. /\ work' = [work EXCEPT ![c] = "queued"]
      /\ life' = IF c \in Ctxs THEN [life EXCEPT ![c] = "live"] ELSE life
      /\ stack' = IF c \in Syncs THEN [stack EXCEPT ![s] = <<Frame("lock", c)>> \o @] ELSE stack
      /\ queued' = [queued EXCEPT ![Target] = Append(@, Task("work", c))]
      /\ UNCHANGED <<phase, listVars, state, mutex, answer>>
  BY DEF Call, Send, Push
<1>3. DataOK'
  BY <1>1, <1>2, Kinds DEF DataOK, listVars
<1>4. WorkInv'
  BY <1>1, <1>2, Kinds DEF WorkInv, DataOK, Pending, Over, StateOf
<1>5. QueuesOK' /\ TaskInv' /\ \A d : Has(Target, d)' => Has(Target, d) \/ d = c
  <2>1. \A x \in Threads : ~Has(x, c)
    BY <1>1, HasWork, Kinds DEF Over
  <2>2. /\ Task("work", c) \in Tasks /\ Task("work", c).call = c /\ Task("work", c).does = "work"
    BY DEF Task, Tasks
  <2>3. \A d \in Calls : d # c => work'[d] = work[d] /\ (d \in Callbacks => life'[d] = life[d])
    BY <1>1, <1>2, Kinds DEF DataOK
  <2>4. Fits(Target, Task("work", c))'
    <3>1. work'[c] = "queued"
      BY <1>1, <1>2 DEF DataOK
    <3> QED BY <3>1, <2>2 DEF Fits
  <2> DEFINE task == Task("work", c)
  <2>5. /\ task \in Tasks /\ task.call = c /\ Fits(Target, task)' /\ Target \in Threads
        /\ queued' = [queued EXCEPT ![Target] = Append(@, task)]
    BY <1>2, <2>2, <2>4, Kinds
  <2> HIDE DEF task
  <2>6. /\ QueuesOK' /\ TaskInv'
        /\ \A x \in Threads : \A d : Has(x, d)' => Has(x, d) \/ (x = Target /\ d = task.call)
    BY <1>1, <2>1, <2>3, <2>5, TaskSent
  <2> QED BY <2>5, <2>6
<1>6. CallerInv'
  <2>1. CASE c \notin Syncs
    BY <2>1, <1>1, <1>2, CallersKept, Kinds DEF DataOK, Pending, Over
  <2>2. CASE c \in Syncs
    <3>1. stack'[s] = <<Frame("lock", c)>> /\ \A x \in Callers \ {s} : stack'[x] = stack[x]
      BY <1>1, <1>2, <2>2, Kinds DEF StackInv
    <3>2. Waits(s, c)'
      BY <3>1, <1>1, <1>2, <2>2, Kinds DEF Waits, DataOK, Pending
    <3>3. \A d \in Syncs : /\ CallerOf[d] \notin {s} /\ life[d] = "live" /\ work[d] \in Pending \union Over
                            => life'[d] = "live" /\ work'[d] \in Pending \union Over
      BY <1>1, <1>2, Kinds DEF DataOK, Pending, Over
    <3>4. \A x \in Callers \intersect {s} : stack'[x] = <<>> \/ \E d \in Syncs : Waits(x, d)'
      BY <3>2, <2>2
    <3> QED BY <1>1, <3>1, <3>3, <3>4, CallersKept
  <2> QED BY <2>1, <2>2
<1>7. StackInv' /\ ListInv'
  <2>1. stack' = [t \in Threads |-> stack'[t]] /\ stack'[Target] = stack[Target]
    BY <1>1, <1>2, Kinds DEF StackInv
  <2>2. \A d \in Ctxs : work'[d] = work[d] \/ (work[d] = "none" /\ work'[d] # "active")
    BY <1>1, <1>2, Kinds DEF DataOK
  <2>3. \A d \in Ctxs : Has(Target, d)' => Has(Target, d) \/ work[d] = "none"
    BY <1>1, <1>5
  <2> QED BY <1>1, <1>2, <2>1, <2>2, <2>3, TargetKept
<1> QED BY <1>3, <1>4, <1>5, <1>6, <1>7 DEF CtxInv

\* A call that do_proxy refuses: the context is gone with the call.
LEMMA RefusedStep ==
    ASSUME CtxInv, NEW s \in Callers, NEW c \in Calls, CallRefused(s, c)
    PROVE  CtxInv'
<1>1. /\ DataOK /\ QueuesOK /\ WorkInv /\ TaskInv /\ CallerInv /\ StackInv /\ ListInv
      /\ work[c] = "none" /\ c \in Ctxs
  BY DEF CtxInv, CallRefused, MayCall
<1>2. /\ work' = [work EXCEPT ![c] = "refused"]
      /\ life' = [life EXCEPT ![c] = "freed"] /\ answer' = [answer EXCEPT ![c] = "failed"]
      /\ UNCHANGED <<queued, phase, stack, listVars, state, mutex>>
  BY DEF CallRefused, FreeCtx, Tell
<1>3. DataOK'
  BY <1>1, <1>2, Kinds DEF DataOK, listVars
<1>4. WorkInv'
  BY <1>1, <1>2, Kinds DEF WorkInv, DataOK, Pending, Over, StateOf
<1>5. \A x \in Threads : ~Has(x, c)
  BY <1>1, HasWork, Kinds DEF Over
<1>6. QueuesOK' /\ TaskInv'
  BY <1>1, <1>2, <1>5, TasksKept, Kinds DEF DataOK
<1>7. CallerInv'
  BY <1>1, <1>2, CallersKept, Kinds DEF DataOK, Pending, Over
<1>8. StackInv' /\ ListInv'
  <2>1. \A d \in Ctxs : work'[d] = work[d] \/ (work[d] = "none" /\ work'[d] # "active")
    BY <1>1, <1>2, Kinds DEF DataOK
  <2>2. \A d : Has(Target, d)' => Has(Target, d)
    BY <1>2 DEF Has, Queued
  <2>3. stack' = [t \in Threads |-> stack'[t]]
    BY <1>1, <1>2 DEF StackInv
  <2> QED BY <1>1, <1>2, <2>1, <2>2, <2>3, TargetKept
<1> QED BY <1>3, <1>4, <1>6, <1>7, <1>8 DEF CtxInv

\* A caller in a synchronous call has one frame.
LEMMA CallerTop ==
    ASSUME CallerInv, NEW s \in Callers, stack[s] # <<>>
    PROVE  /\ Waits(s, Top(s).ctx) /\ Top(s).ctx \in Syncs /\ Tail(stack[s]) = <<>>
           /\ stack[s] = <<Top(s)>>
           /\ Top(s) \in {Frame("lock", Top(s).ctx), Frame("asleep", Top(s).ctx)}
<1>1. PICK c \in Syncs : Waits(s, c)
  BY DEF CallerInv
<1>2. Top(s) \in {Frame("lock", c), Frame("asleep", c)} /\ stack[s] = <<Top(s)>>
  BY <1>1 DEF Waits, Top
<1>3. Top(s).ctx = c
  BY <1>2, Frames
<1>4. Tail(stack[s]) = <<>>
  BY <1>2
<1> QED BY <1>1, <1>2, <1>3, <1>4

\* One frame above none.
LEMMA OneFrame == \A f : <<f>> \o <<>> = <<f>>
<1> TAKE f
<1>1. <<f>> \in Seq({f})
  OBVIOUS
<1> QED BY <1>1, ConcatEmptySeq

\* A step of the callers that changes no queue, no work and not the list.
LEMMA WaitStep ==
    ASSUME CtxInv, NEW s \in Callers, WaitForAnswer(s) \/ WakeSpuriously(s)
    PROVE  CtxInv'
<1> DEFINE c == Top(s).ctx
<1>1. /\ DataOK /\ QueuesOK /\ WorkInv /\ TaskInv /\ CallerInv /\ StackInv /\ ListInv
      /\ stack[s] # <<>>
  BY DEF CtxInv, WaitForAnswer, WakeSpuriously, At
<1>2. Waits(s, c) /\ c \in Syncs /\ Tail(stack[s]) = <<>>
  BY <1>1, CallerTop
<1>3. /\ UNCHANGED <<queued, phase, listVars, state, mutex, work>>
      /\ \A x \in Threads \ {s} : stack'[x] = stack[x]
      /\ stack' = [t \in Threads |-> stack'[t]]
      /\ \/ /\ stack'[s] \in {<<Frame("asleep", c)>>, <<Frame("lock", c)>>}
            /\ UNCHANGED <<life, answer>>
         \/ /\ stack'[s] = <<>> /\ work[c] \in Over /\ mutex[c] = Null
            /\ life' = [life EXCEPT ![c] = "freed"]
            /\ answer' = [answer EXCEPT ![c] = IF work[c] = "finished" THEN "done" ELSE "failed"]
  <2>1. /\ UNCHANGED <<queued, phase, listVars, state, mutex, work>>
        /\ \/ \E f \in {Frame("asleep", c), Frame("lock", c)} :
                 stack' = [stack EXCEPT ![s] = <<f>> \o <<>>] /\ UNCHANGED <<life, answer>>
           \/ /\ stack' = [stack EXCEPT ![s] = <<>>] /\ state[c] # "PENDING" /\ mutex[c] = Null
              /\ life' = [life EXCEPT ![c] = "freed"]
              /\ answer' = [answer EXCEPT ![c] = IF state[c] = "DONE" THEN "done" ELSE "failed"]
    <3>1. CASE WaitForAnswer(s)
      BY <3>1, <1>2, <1>1 DEF WaitForAnswer, Become, Pop, FreeCtx, Tell
    <3>2. CASE WakeSpuriously(s)
      BY <3>2, <1>2, <1>1 DEF WakeSpuriously, Become
    <3> QED BY <3>1, <3>2
  <2>2. state[c] = StateOf(work[c])
    BY <1>1, <1>2 DEF WorkInv
  <2>3. /\ state[c] # "PENDING" => work[c] \in Over
        /\ state[c] = "DONE" <=> work[c] = "finished"
    BY <2>2 DEF StateOf, Over
  <2>4. /\ \A x \in Threads \ {s} : stack'[x] = stack[x]
        /\ stack' = [t \in Threads |-> stack'[t]]
    BY <2>1, <1>1 DEF StackInv
  <2>5. s \in Threads /\ stack = [t \in Threads |-> stack[t]]
    BY <1>1, Kinds DEF StackInv
  <2> HIDE DEF c
  <2> QED BY <2>1, <2>3, <2>4, <2>5, OneFrame
<1> HIDE DEF c
<1>4. DataOK'
  BY <1>1, <1>2, <1>3, Kinds DEF DataOK, listVars
<1>5. WorkInv'
  BY <1>1, <1>2, <1>3, Kinds DEF WorkInv, DataOK, Pending, Over
<1>6. QueuesOK' /\ TaskInv'
  BY <1>1, <1>2, <1>3, TasksKept, Kinds DEF DataOK
<1>7. CallerInv'
  <2>1. \A x \in Callers \intersect {s} : stack'[x] = <<>> \/ \E d \in Syncs : Waits(x, d)'
    BY <1>2, <1>3 DEF Waits
  <2>2. \A d \in Syncs : /\ CallerOf[d] \notin {s} /\ life[d] = "live" /\ work[d] \in Pending \union Over
                          => life'[d] = "live" /\ work'[d] \in Pending \union Over
    BY <1>1, <1>2, <1>3, Kinds DEF Waits, DataOK
  <2>3. \A x \in Callers \ {s} : stack'[x] = stack[x]
    BY <1>3, Kinds
  <2> QED BY <1>1, <2>1, <2>2, <2>3, CallersKept
<1>8. StackInv' /\ ListInv'
  <2>1. stack'[Target] = stack[Target] /\ phase'[Target] = phase[Target]
    BY <1>3, Kinds
  <2>2. \A d : Has(Target, d)' => Has(Target, d)
    BY <1>3 DEF Has, Queued
  <2> QED BY <1>1, <1>3, <2>1, <2>2, TargetKept
<1> QED BY <1>4, <1>5, <1>6, <1>7, <1>8 DEF CtxInv

\* call_callback_then_free_ctx and call_cancel_then_free_ctx.
LEMMA CallbackStep ==
    ASSUME RingInv, CtxInv, NEW s \in Callers, RunCallback(s)
    PROVE  CtxInv'
<1> DEFINE task == First(ring[s])
           c == task.call
<1>1. /\ DataOK /\ QueuesOK /\ WorkInv /\ TaskInv /\ CallerInv /\ StackInv /\ ListInv
      /\ Receive(s) /\ s \in Threads /\ s # Target
  BY Kinds DEF CtxInv, RunCallback
<1>2. task \in Tasks /\ Has(s, c) /\ Fits(s, task)
  BY <1>1, TaskFirst
<1>3. /\ c \in Callbacks /\ work[c] \in Over /\ life[c] = "live"
      /\ task.does = "callback" <=> work[c] = "finished"
  BY <1>1, <1>2 DEF Fits, Over
<1>4. /\ life' = [life EXCEPT ![c] = "freed"]
      /\ answer' = [answer EXCEPT ![c] = IF task.does = "callback" THEN "done" ELSE "failed"]
      /\ UNCHANGED <<phase, stack, listVars, state, mutex, work>>
  BY DEF RunCallback, FreeCtx, Tell
<1>5. QueuesOK' /\ TaskInv' /\ \A x \in Threads : \A d : Has(x, d)' => Has(x, d) /\ d # c
  <2>1. \A d \in Calls : d # c => work'[d] = work[d] /\ (d \in Callbacks => life'[d] = life[d])
    BY <1>1, <1>3, <1>4, Kinds DEF DataOK
  <2> QED BY <1>1, <2>1, TaskTaken
<1> HIDE DEF c, task
<1>6. DataOK'
  BY <1>1, <1>3, <1>4, Kinds DEF DataOK, listVars
<1>7. WorkInv'
  BY <1>1, <1>3, <1>4, Kinds DEF WorkInv, DataOK, Pending, Over
<1>8. CallerInv'
  <2>1. \A d \in Syncs : life'[d] = life[d] /\ work'[d] = work[d]
    BY <1>1, <1>3, <1>4, Kinds DEF DataOK
  <2>2. \A x \in Callers \ {} : stack'[x] = stack[x]
    BY <1>4
  <2>3. \A x \in Callers \intersect {} : stack'[x] = <<>> \/ \E d \in Syncs : Waits(x, d)'
    OBVIOUS
  <2>4. \A d \in Syncs : /\ CallerOf[d] \notin {} /\ life[d] = "live" /\ work[d] \in Pending \union Over
                          => life'[d] = "live" /\ work'[d] \in Pending \union Over
    BY <2>1
  <2> QED BY <1>1, <2>2, <2>3, <2>4, CallersKept
<1>9. StackInv' /\ ListInv'
  <2>1. /\ stack' = [t \in Threads |-> stack'[t]] /\ stack'[Target] = stack[Target]
        /\ phase'[Target] = phase[Target] /\ UNCHANGED <<listVars, mutex, work>>
    BY <1>1, <1>4 DEF StackInv
  <2>2. \A d \in Ctxs : Has(Target, d)' => Has(Target, d)
    BY <1>5, Kinds
  <2> QED BY <1>1, <2>1, <2>2, TargetKept
<1> QED BY <1>5, <1>6, <1>7, <1>8, <1>9 DEF CtxInv

-----------------------------------------------------------------------------
(* The exit of a thread *)

\* In no frame, the Target is in the middle of nothing.
LEMMA FreeTarget ==
    ASSUME StackInv, stack[Target] = <<>>
    PROVE  Rest = <<>> /\ OnList = Active
  BY DEF Rest, OnList, At

\* The start of the exit of a thread that is in no frame, and the end of its
\* mailbox: nothing else changes than its phase.
LEMMA PhaseStep ==
    ASSUME CtxInv, NEW t \in Threads, Exit(t) \/ Closed(t)
    PROVE  CtxInv'
<1>1. /\ DataOK /\ QueuesOK /\ WorkInv /\ TaskInv /\ CallerInv /\ StackInv /\ ListInv
      /\ UNCHANGED <<queued, stack, listVars, life, state, mutex, work, answer>>
      /\ stack[t] = <<>>
      /\ \E p \in {"closing", "handlers"} : phase' = [phase EXCEPT ![t] = p]
      /\ phase[t] \in {"running", "closing"}
  BY DEF CtxInv, Exit, Closed, Free
<1>2. DataOK' /\ phase'[t] \in {"closing", "handlers"} /\ \A x \in Threads \ {t} : phase'[x] = phase[x]
  BY <1>1 DEF DataOK, listVars
<1>3. WorkInv' /\ QueuesOK' /\ TaskInv' /\ CallerInv'
  BY <1>1 DEF WorkInv, QueuesOK, TaskInv, Queued, Fits, CallerInv, Waits
<1>4. StackInv' /\ Rest' = Rest
  <2>1. CASE t = Target
    <3>1. Rest = <<>> /\ stack'[Target] = <<>> /\ stack' = [x \in Threads |-> stack'[x]]
      BY <1>1, <2>1, FreeTarget DEF StackInv
    <3> QED BY <3>1, NewStack DEF Loop
  <2>2. CASE t # Target
    <3>1. \A at \in Places, c \in Ctxs : Doing(at, c) => Doing(at, c)'
      BY <1>1, <1>2, <2>2, Kinds DEF Doing, Has, Queued
    <3> QED BY <1>1, <3>1 DEF StackInv, Above, Loop, Rest, At, Top
  <2> QED BY <2>1, <2>2
<1>5. ListInv'
  <2>1. (phase'[Target] = "destructors") <=> (phase[Target] = "destructors")
    BY <1>1, <1>2, Kinds
  <2>2. OnList' = OnList
    BY <1>1, <2>1 DEF OnList, Active, At, Top
  <2> QED BY <1>1, <1>4, <2>1, <2>2, ListKept
<1> QED BY <1>2, <1>3, <1>4, <1>5 DEF CtxInv

\* The destructor of the key takes the list off the key.
LEMMA DestructorStep ==
    ASSUME CtxInv, NEW t \in Threads, RunDestructors(t)
    PROVE  CtxInv'
<1>1. /\ DataOK /\ QueuesOK /\ WorkInv /\ TaskInv /\ CallerInv /\ StackInv /\ ListInv
      /\ UNCHANGED <<queued, nxt, prv, life, state, mutex, work, answer>>
      /\ stack[t] = <<>> /\ phase[t] = "handlers"
      /\ phase' = [phase EXCEPT ![t] = "destructors"]
      /\ IF t = Target /\ head # Null
         THEN stack' = [stack EXCEPT ![t] = <<Sweep(head, head)>> \o @] /\ head' = Null
         ELSE UNCHANGED <<stack, head>>
  BY DEF CtxInv, RunDestructors, Free, Push
<1>2. DataOK' /\ phase'[t] = "destructors" /\ \A x \in Threads \ {t} : phase'[x] = phase[x]
  BY <1>1 DEF DataOK
<1>3. WorkInv' /\ QueuesOK' /\ TaskInv'
  BY <1>1 DEF WorkInv, QueuesOK, TaskInv, Queued, Fits
<1>4. CallerInv'
  <2>1. \A x \in Callers : stack'[x] = stack[x]
    BY <1>1, Kinds DEF StackInv
  <2> QED BY <1>1, <2>1 DEF CallerInv, Waits
<1>5. CASE t # Target
  <2>1. \A at \in Places, c \in Ctxs : Doing(at, c) => Doing(at, c)'
    BY <1>1, <1>2, <1>5, Kinds DEF Doing, Has, Queued
  <2>2. StackInv' /\ Rest' = Rest /\ phase'[Target] = phase[Target] /\ UNCHANGED listVars
    BY <1>1, <1>2, <1>5, <2>1, Kinds DEF StackInv, Above, Loop, Rest, At, Top, listVars
  <2>3. OnList' = OnList
    BY <1>1, <1>5, <2>2 DEF OnList, Active, At, Top
  <2>4. ListInv'
    BY <1>1, <2>2, <2>3, ListKept
  <2> QED BY <1>2, <1>3, <1>4, <2>2, <2>4 DEF CtxInv
<1>6. CASE t = Target
  <2>1. Rest = <<>> /\ OnList = Active
    BY <1>1, <1>6, FreeTarget
  <2>2. PICK n, q : Chain(n, q, Active)
    BY <1>1, <1>6, ListOrder
  <2>3. n \in Nat /\ q \in [1..n -> Ctxs]
    BY <2>2 DEF Chain, Enumerates
  <2>4. CASE n = 0
    <3>1. head = Null
      BY <2>2, <2>4 DEF Chain, Links
    <3>2. stack' = stack /\ head' = Null
      BY <1>1, <3>1
    <3>3. StackInv' /\ Rest' = <<>>
      BY <1>1, <1>6, <3>2, NewStack DEF Loop, StackInv
    <3>4. OnList' = Active
      BY <1>1, <1>6, <3>2 DEF OnList, Active, At
    <3>5. Enumerates(n, q, OnList)' /\ ToGo(n, q)'
      BY <2>2, <2>4, <3>2, <3>3, <3>4 DEF Enumerates, ToGo, Chain
    <3>6. ListInv'
      BY <1>2, <1>6, <2>3, <3>5 DEF ListInv
    <3> QED BY <1>2, <1>3, <1>4, <3>3, <3>6 DEF CtxInv
  <2>5. CASE n # 0
    <3>1. head = q[1] /\ q[1] \in Ctxs /\ head # Null /\ 1 \in 1..n /\ n \in 1..n
      BY <2>2, <2>3, <2>5, Kinds DEF Chain, Links
    <3>2. stack'[Target] = <<Sweep(q[1], q[1])>> /\ head' = Null /\ stack' = [x \in Threads |-> stack'[x]]
      BY <1>1, <1>6, <3>1, OneFrame, Kinds DEF StackInv
    <3>3. StackInv' /\ Rest' = <<Sweep(q[1], q[1])>>
      <4>1. Loop(<<Sweep(q[1], q[1])>>)
        BY <3>1 DEF Loop
      <4> QED BY <3>2, <4>1, NewStack
    <3>4. OnList' = Active
      <4>1. ~At(Target, "cancel")'
        BY <3>2 DEF At, Top, Sweep
      <4> QED BY <1>1, <4>1 DEF OnList, Active
    <3>5. /\ \A i \in 1..(n - 1) : nxt[q[i]] = q[i + 1] /\ q[i + 1] # q[1]
          /\ nxt[q[n]] = q[1]
      <4>1. \A i \in 1..(n - 1) : i \in 1..n /\ i + 1 \in 1..n /\ i # n /\ i + 1 # 1
        BY <2>3
      <4> QED BY <2>2, <2>3, <3>1, <4>1 DEF Chain, Links, After, Enumerates
    <3>6. Enumerates(n, q, OnList)' /\ ToGo(n, q)'
      BY <1>1, <2>2, <2>5, <3>1, <3>2, <3>3, <3>4, <3>5 DEF Enumerates, ToGo, Chain
    <3>7. ListInv'
      BY <1>2, <1>6, <2>3, <3>6 DEF ListInv
    <3> QED BY <1>2, <1>3, <1>4, <3>3, <3>7 DEF CtxInv
  <2> QED BY <2>4, <2>5
<1> QED BY <1>5, <1>6

-----------------------------------------------------------------------------
(* The Target at work *)

\* Steps of the Target that leave the callers alone.
LEMMA OthersKept ==
    ASSUME CallerInv, \A s \in Callers : stack'[s] = stack[s],
           \A c \in Syncs : life[c] = "live" /\ work[c] \in Pending \union Over
                            => life'[c] = "live" /\ work'[c] \in Pending \union Over
    PROVE  CallerInv'
<1>1. \A x \in Callers \intersect {} : stack'[x] = <<>> \/ \E d \in Syncs : Waits(x, d)'
  OBVIOUS
<1>2. \A x \in Callers \ {} : stack'[x] = stack[x]
  OBVIOUS
<1> QED BY <1>1, <1>2, CallersKept

\* What becomes of the Target's stack when it changes at the top.
LEMMA TargetStack ==
    ASSUME StackInv, NEW st, stack' = [stack EXCEPT ![Target] = st]
    PROVE  /\ stack'[Target] = st /\ stack' = [t \in Threads |-> stack'[t]]
           /\ \A s \in Callers : stack'[s] = stack[s]
  BY Kinds DEF StackInv

\* call_with_ctx: the context is put on the list before the user's function runs.
LEMMA RunStep ==
    ASSUME RingInv, CtxInv, RunWork
    PROVE  CtxInv'
<1> DEFINE task == First(ring[Target])
           c == task.call
<1>1. /\ DataOK /\ QueuesOK /\ WorkInv /\ TaskInv /\ CallerInv /\ StackInv /\ ListInv
      /\ Receive(Target) /\ stack[Target] = <<>> /\ phase[Target] = "running"
      /\ UNCHANGED <<phase, life, state, mutex, answer>>
  BY DEF CtxInv, RunWork, Free
<1>2. /\ task \in Tasks /\ Has(Target, c) /\ c \in Calls /\ work[c] \in {"queued", "stranded"}
  <2>1. task \in Tasks /\ Has(Target, c) /\ Fits(Target, task)
    BY <1>1, TaskFirst, Kinds
  <2> QED BY <2>1 DEF Fits, Tasks
<1>3. \/ /\ c \in Asyncs /\ work' = [work EXCEPT ![c] = "finished"] /\ UNCHANGED <<listVars, stack>>
      \/ /\ c \notin Asyncs /\ AddActive(c) /\ work' = [work EXCEPT ![c] = "active"]
         /\ stack' = [stack EXCEPT ![Target] = <<Frame("function", c)>> \o <<>>]
  BY <1>1 DEF RunWork, Push
<1>4. QueuesOK' /\ TaskInv'
  <2>1. \A d \in Calls : d # c => work'[d] = work[d] /\ (d \in Callbacks => life'[d] = life[d])
    BY <1>1, <1>2, <1>3 DEF DataOK
  <2> QED BY <1>1, <2>1, TaskTaken, Kinds
<1> HIDE DEF c, task
<1>5. Rest = <<>> /\ OnList = Active
  BY <1>1, FreeTarget
<1>6. CASE c \in Asyncs
  <2>1. /\ work' = [work EXCEPT ![c] = "finished"] /\ UNCHANGED <<listVars, stack>>
        /\ \A d \in Ctxs : work'[d] = work[d]
    BY <1>1, <1>2, <1>3, <1>6, Kinds DEF DataOK
  <2>2. DataOK'
    BY <1>1, <2>1 DEF DataOK, listVars
  <2>3. WorkInv'
    BY <1>1, <2>1, Kinds DEF WorkInv
  <2>4. CallerInv'
    BY <1>1, <2>1, OthersKept, Kinds
  <2>5. StackInv' /\ Rest' = Rest
    BY <1>1, <1>5, <2>1, NewStack DEF Loop, StackInv
  <2>6. ListInv'
    <3>1. OnList' = OnList
      BY <1>1, <2>1 DEF OnList, Active, At
    <3> QED BY <1>1, <2>1, <2>5, <3>1, ListKept
  <2> QED BY <1>4, <2>2, <2>3, <2>4, <2>5, <2>6 DEF CtxInv
<1>7. CASE c \notin Asyncs
  <2>0. PICK k \in Ctxs : k = c
    BY <1>2, <1>7, Kinds
  <2>1. /\ AddActive(k) /\ work' = [work EXCEPT ![k] = "active"]
        /\ stack' = [stack EXCEPT ![Target] = <<Frame("function", k)>> \o <<>>]
        /\ \A d \in Calls : work'[d] = IF d = k THEN "active" ELSE work[d]
        /\ work[k] \in {"queued", "stranded"}
    BY <1>1, <1>2, <1>3, <1>7, <2>0, Kinds DEF DataOK
  <2>2. PICK n, q : Chain(n, q, Active)
    BY <1>1, ListOrder
  <2>3. k \in Ctxs \ Active
    BY <2>1 DEF Active
  <2>4. /\ \E m, p : Enumerates(m, p, Active \union {k}) /\ Links(m, p)'
        /\ {nxt', prv'} \subseteq [Ctxs -> Ctxs \union {Null}] /\ head' \in Ctxs
    BY <2>1, <2>2, <2>3, AddLinks
  <2>5. PICK m, p : Enumerates(m, p, Active \union {k}) /\ Links(m, p)'
    BY <2>4
  <2>6. DataOK'
    BY <1>1, <1>2, <2>1, <2>4 DEF DataOK
  <2>7. WorkInv'
    BY <1>1, <1>2, <2>1, Kinds DEF WorkInv, Pending, Over, StateOf
  <2>8. CallerInv'
    <3>1. \A s \in Callers : stack'[s] = stack[s]
      BY <1>1, <2>1, TargetStack
    <3> QED BY <1>1, <2>1, <3>1, OthersKept, Kinds DEF Pending
  <2>9. StackInv' /\ Rest' = <<>>
    <3>1. Doing("function", k)'
      BY <1>1, <2>1, Kinds DEF Doing
    <3>2. "function" \in Places /\ Loop(<<>>)
      BY DEF Places, Loop
    <3>3. stack'[Target] = <<Frame("function", k)>> \o <<>> /\ stack' = [t \in Threads |-> stack'[t]]
      BY <1>1, <2>1, TargetStack
    <3> QED BY <2>1, <3>1, <3>2, <3>3, NewStack
  <2>10. OnList' = Active \union {k}
    <3>1. phase'[Target] # "destructors"
      BY <1>1
    <3> QED BY <2>1, <3>1, Kinds DEF OnList, Active
  <2>11. ListInv'
    <3>1. Enumerates(m, p, OnList)'
      BY <2>5, <2>10 DEF Enumerates
    <3> QED BY <1>1, <2>5, <2>9, <3>1, NewList
  <2> QED BY <1>4, <2>6, <2>7, <2>8, <2>9, <2>11 DEF CtxInv
<1> QED BY <1>6, <1>7

\* The function of the user returns, with the work to be finished later.
LEMMA ReturnStep ==
    ASSUME CtxInv, ReturnUnfinished
    PROVE  CtxInv'
<1>1. /\ DataOK /\ QueuesOK /\ WorkInv /\ TaskInv /\ CallerInv /\ StackInv /\ ListInv
      /\ stack[Target] # <<>> /\ Top(Target).at = "function"
      /\ stack' = [stack EXCEPT ![Target] = Tail(stack[Target])]
      /\ UNCHANGED <<queued, phase, listVars, life, state, mutex, work, answer>>
  BY DEF CtxInv, ReturnUnfinished, At, Pop
<1>2. /\ Loop(Rest) /\ Tail(stack[Target]) = Rest
      /\ Doing("function", Top(Target).ctx)
  BY <1>1, StackCases DEF At
<1>3. /\ stack'[Target] = Rest /\ stack' = [t \in Threads |-> stack'[t]]
      /\ \A s \in Callers : stack'[s] = stack[s]
  BY <1>1, <1>2, TargetStack
<1>4. DataOK' /\ WorkInv' /\ QueuesOK' /\ TaskInv'
  BY <1>1 DEF DataOK, listVars, WorkInv, QueuesOK, TaskInv, Queued, Fits
<1>5. CallerInv'
  BY <1>1, <1>3 DEF CallerInv, Waits
<1>6. StackInv' /\ Rest' = Rest
  BY <1>2, <1>3, NewStack
<1>7. ListInv'
  <2>1. phase[Target] = "running"
    BY <1>2 DEF Doing
  <2>2. OnList' = OnList
    BY <1>1, <2>1 DEF OnList, Active
  <2> QED BY <1>1, <1>6, <2>2, ListKept
<1> QED BY <1>4, <1>5, <1>6, <1>7 DEF CtxInv

\* The function of the user exits the thread: what is queued is cancelled, or
\* stranded.
LEMMA ExitFunctionStep ==
    ASSUME CtxInv, ExitInFunction
    PROVE  CtxInv'
<1>1. /\ DataOK /\ QueuesOK /\ WorkInv /\ TaskInv /\ CallerInv /\ StackInv /\ ListInv
      /\ stack[Target] # <<>> /\ Top(Target).at = "function" /\ phase[Target] = "running"
      /\ stack' = [stack EXCEPT ![Target] = Tail(stack[Target])]
      /\ UNCHANGED <<queued, listVars, life, state, mutex, answer>>
      /\ \E p \in {"closing", "handlers"} : phase' = [phase EXCEPT ![Target] = p]
      /\ work' = work \/ work' = [c \in Calls |-> IF work[c] = "queued" THEN "stranded" ELSE work[c]]
  BY DEF CtxInv, ExitInFunction, At, Pop
<1>2. /\ Rest = <<>> /\ Tail(stack[Target]) = Rest
  <2>1. Tail(stack[Target]) = Rest
    BY <1>1, StackCases DEF At
  <2> QED BY <1>1, <2>1, ListOrder
<1>3. /\ stack'[Target] = Rest /\ stack' = [t \in Threads |-> stack'[t]]
      /\ \A s \in Callers : stack'[s] = stack[s]
  BY <1>1, <1>2, TargetStack
<1>4. \A c \in Calls : work'[c] = work[c] \/ (work[c] = "queued" /\ work'[c] = "stranded")
  BY <1>1
<1>5. DataOK' /\ phase'[Target] # "destructors"
  BY <1>1, Kinds DEF DataOK, listVars
<1>6. WorkInv'
  BY <1>1, <1>4, Kinds DEF WorkInv, Pending, Over, StateOf
<1>7. QueuesOK' /\ TaskInv'
  <2>1. \A t : Queued(t)' = Queued(t)
    BY <1>1 DEF Queued
  <2>2. ASSUME NEW t \in Threads, NEW task \in Queued(t) PROVE Fits(t, task)'
    <3>1. Fits(t, task) /\ task.call \in Calls
      BY <1>1, <2>2, QueuedTasks DEF TaskInv
    <3> QED BY <1>1, <1>4, <3>1 DEF Fits
  <2> QED BY <1>1, <2>1, <2>2 DEF QueuesOK, TaskInv
<1>8. CallerInv'
  BY <1>1, <1>3, <1>4, OthersKept, Kinds DEF Pending, Over
<1>9. StackInv' /\ Rest' = Rest
  BY <1>2, <1>3, NewStack DEF Loop
<1>10. ListInv'
  <2>1. \A c \in Ctxs : work'[c] = "active" <=> work[c] = "active"
    BY <1>4, Kinds
  <2>2. OnList' = OnList
    BY <1>1, <1>5, <2>1 DEF OnList, Active
  <2> QED BY <1>1, <1>5, <1>9, <2>2, ListKept
<1> QED BY <1>5, <1>6, <1>7, <1>8, <1>9, <1>10 DEF CtxInv

-----------------------------------------------------------------------------
(* The end of a call *)

\* What emscripten_proxy_finish and cancel_ctx have in common: the state under the
\* mutex of a synchronous call, or the task that tells the caller.
Ends(c, w, does) ==
    /\ work' = [work EXCEPT ![c] = w]
    /\ UNCHANGED <<phase, answer>>
    /\ \/ /\ c \in Syncs /\ mutex[c] = Null
          /\ mutex' = [mutex EXCEPT ![c] = Target] /\ state' = [state EXCEPT ![c] = StateOf(w)]
          /\ UNCHANGED <<queued, life>>
       \/ c \in Callbacks /\ Notify(c, does) /\ UNCHANGED <<state, mutex>>

\* The calls and the queues after such an end.
LEMMA EndKeeps ==
    ASSUME DataOK, QueuesOK, WorkInv, TaskInv, CallerInv, NEW c \in Ctxs, NEW w, NEW does,
           work[c] \in Pending, \A x \in Threads : ~Has(x, c), Ends(c, w, does),
           (w = "finished" /\ does = "callback") \/ (w = "canceled" /\ does = "cancel"),
           {nxt', prv'} \subseteq [Ctxs -> Ctxs \union {Null}], head' \in Ctxs \union {Null},
           \A s \in Callers : stack'[s] = stack[s]
    PROVE  /\ DataOK' /\ QueuesOK' /\ WorkInv' /\ TaskInv' /\ CallerInv'
           /\ \A d : Has(Target, d)' => Has(Target, d)
           /\ \A d \in Calls : work'[d] = IF d = c THEN w ELSE work[d]
           /\ c \in Syncs => mutex'[c] = Target
           /\ \A d \in Syncs : d # c => mutex'[d] = mutex[d]
<1>1. \A d \in Calls : work'[d] = IF d = c THEN w ELSE work[d]
  BY DEF Ends, DataOK
<1>2. life[c] = "live" /\ w \in Over /\ c \in Calls
  BY Kinds DEF WorkInv, Over
<1>3. CASE /\ c \in Syncs /\ mutex[c] = Null
           /\ mutex' = [mutex EXCEPT ![c] = Target] /\ state' = [state EXCEPT ![c] = StateOf(w)]
           /\ UNCHANGED <<queued, life>>
  <2>1. DataOK'
    BY <1>2, <1>3 DEF DataOK, Ends, StateOf, Over
  <2>2. WorkInv'
    BY <1>1, <1>2, <1>3, Kinds DEF WorkInv, DataOK, Ends, Pending, Over
  <2>3. QueuesOK' /\ TaskInv'
    BY <1>1, <1>3, TasksKept, Kinds
  <2>4. CallerInv'
    BY <1>1, <1>2, <1>3, OthersKept, Kinds
  <2>5. \A d : Has(Target, d)' => Has(Target, d)
    BY <1>3 DEF Has, Queued
  <2>6. mutex'[c] = Target /\ \A d \in Syncs : d # c => mutex'[d] = mutex[d]
    BY <1>3 DEF DataOK
  <2> QED BY <1>1, <2>1, <2>2, <2>3, <2>4, <2>5, <2>6
<1>4. CASE c \in Callbacks /\ Notify(c, does) /\ UNCHANGED <<state, mutex>>
  <2>1. /\ \A d \in Ctxs : d # c => life'[d] = life[d]
        /\ life' \in [Ctxs -> {"none", "live", "freed"}]
    BY <1>4 DEF Notify, FreeCtx, DataOK
  <2>2. DataOK'
    BY <1>2, <1>4, <2>1 DEF DataOK, Ends, Over
  <2>3. WorkInv'
    BY <1>1, <1>2, <1>4, <2>1, Kinds DEF WorkInv, DataOK, Ends, Pending, Over
  <2>4. QueuesOK' /\ TaskInv' /\ \A d : Has(Target, d)' => Has(Target, d)
    <3>1. CASE UNCHANGED queued
      <4>1. QueuesOK' /\ TaskInv'
        BY <1>1, <2>1, <3>1, TasksKept, Kinds
      <4>2. \A d : Has(Target, d)' => Has(Target, d)
        BY <3>1 DEF Has, Queued
      <4> QED BY <4>1, <4>2
    <3>2. CASE Send(CallerOf[c], Task(does, c)) /\ UNCHANGED life
      <4> DEFINE task == Task(does, c)
                 t == CallerOf[c]
      <4>1. /\ task.does = does /\ task.call = c /\ task \in Tasks
            /\ t \in Threads /\ t # Target
        BY <1>2, Kinds DEF Task, Tasks
      <4>2. /\ queued' = [queued EXCEPT ![t] = Append(@, task)]
            /\ \A d \in Calls : d # c => work'[d] = work[d] /\ (d \in Callbacks => life'[d] = life[d])
        BY <1>1, <3>2 DEF Send
      <4>3. Fits(t, task)'
        BY <1>1, <1>2, <1>4, <3>2, <4>1 DEF Fits
      <4> HIDE DEF task, t
      <4>4. /\ QueuesOK' /\ TaskInv'
            /\ \A x \in Threads : \A d : Has(x, d)' => Has(x, d) \/ (x = t /\ d = task.call)
        BY <4>1, <4>2, <4>3, TaskSent
      <4> QED BY <4>1, <4>4, Kinds
    <3> QED BY <1>4, <3>1, <3>2 DEF Notify, Refuse
  <2>5. CallerInv'
    <3>1. \A d \in Syncs : life'[d] = life[d] /\ work'[d] = work[d]
      BY <1>1, <1>4, <2>1, Kinds
    <3> QED BY <3>1, OthersKept
  <2>6. c \notin Syncs /\ \A d \in Syncs : d # c => mutex'[d] = mutex[d]
    BY <1>4, Kinds
  <2> QED BY <1>1, <2>2, <2>3, <2>4, <2>5, <2>6
<1> QED BY <1>3, <1>4 DEF Ends

\* emscripten_proxy_finish, by the function of the call or later.
LEMMA FinishStep ==
    ASSUME CtxInv, NEW c \in Ctxs, Finish(c)
    PROVE  CtxInv'
<1>1. /\ DataOK /\ QueuesOK /\ WorkInv /\ TaskInv /\ CallerInv /\ StackInv /\ ListInv
      /\ work[c] = "active" /\ RemoveActive(c) /\ Ends(c, "finished", "callback")
      /\ stack' = [stack EXCEPT ![Target] = IF c \in Syncs THEN <<Frame("signal", c)>> \o <<>> ELSE <<>>]
  BY Kinds DEF CtxInv, Finish, MayFinish, Settle, Ends, StateOf
<1>2. phase[Target] # "destructors"
  <2>1. CASE stack[Target] = <<>> /\ phase[Target] \in {"running", "handlers"}
    BY <2>1
  <2>2. CASE At(Target, "function")
    BY <1>1, <2>2, StackCases DEF At, Doing
  <2> QED BY <2>1, <2>2 DEF Finish, MayFinish, Free
<1>3. /\ stack' = [t \in Threads |-> stack'[t]] /\ \A s \in Callers : stack'[s] = stack[s]
      /\ stack'[Target] = IF c \in Syncs THEN <<Frame("signal", c)>> \o <<>> ELSE <<>>
  BY <1>1, TargetStack
<1>4. PICK n, q : Chain(n, q, Active)
  BY <1>1, <1>2, ListOrder
<1>5. /\ \E m, p : Enumerates(m, p, Active \ {c}) /\ Links(m, p)'
      /\ {nxt', prv'} \subseteq [Ctxs -> Ctxs \union {Null}] /\ head' \in Ctxs \union {Null}
  <2>1. c \in Active
    BY <1>1 DEF Active
  <2> QED BY <1>1, <1>4, <2>1, RemoveLinks
<1>6. \A x \in Threads : ~Has(x, c)
  BY <1>1, HasWork DEF Over
<1>7. /\ DataOK' /\ QueuesOK' /\ WorkInv' /\ TaskInv' /\ CallerInv'
      /\ \A d \in Calls : work'[d] = IF d = c THEN "finished" ELSE work[d]
      /\ c \in Syncs => mutex'[c] = Target
  BY <1>1, <1>3, <1>5, <1>6, EndKeeps DEF Pending
<1>8. StackInv' /\ Rest' = <<>>
  <2>1. "signal" \in Places /\ Loop(<<>>)
    BY DEF Places, Loop
  <2>2. c \in Syncs => Doing("signal", c)'
    BY <1>7 DEF Doing
  <2> QED BY <1>3, <2>1, <2>2, NewStack
<1>9. ListInv'
  <2>1. PICK m, p : Enumerates(m, p, Active \ {c}) /\ Links(m, p)'
    BY <1>5
  <2>2. phase'[Target] # "destructors"
    BY <1>1, <1>2 DEF Ends
  <2>3. OnList' = Active \ {c}
    BY <1>7, <2>2, Kinds DEF OnList, Active
  <2>4. Enumerates(m, p, OnList)'
    BY <2>1, <2>3 DEF Enumerates
  <2> QED BY <1>8, <2>1, <2>2, <2>4, NewList
<1> QED BY <1>7, <1>8, <1>9 DEF CtxInv

\* cancel_ctx, of work that was queued or active.
LEMMA CancelStep ==
    ASSUME CtxInv, CancelCtx
    PROVE  CtxInv'
<1>1. /\ DataOK /\ QueuesOK /\ WorkInv /\ TaskInv /\ CallerInv /\ StackInv /\ ListInv
      /\ At(Target, "cancel") /\ UNCHANGED listVars
  BY DEF CtxInv, CancelCtx
<1>2. /\ Top(Target).ctx \in Ctxs /\ Doing("cancel", Top(Target).ctx) /\ Loop(Rest)
      /\ Tail(stack[Target]) = Rest
  BY <1>1, StackCases DEF At
<1>3. PICK c \in Ctxs : c = Top(Target).ctx
  BY <1>2
<1>4. /\ Ends(c, "canceled", "cancel")
      /\ stack' = [stack EXCEPT ![Target] = IF c \in Syncs THEN <<Frame("signal", c)>> \o Rest ELSE Rest]
  BY <1>2, <1>3, Kinds DEF CancelCtx, Settle, Ends, StateOf
<1>5. /\ work[c] \in Pending /\ \A x \in Threads : ~Has(x, c)
  <2>1. Doing("cancel", c)
    BY <1>2, <1>3
  <2>2. \A x \in Threads : Has(x, c) => x = Target /\ work[c] \in {"queued", "stranded"}
    BY <1>1, <2>1, HasWork DEF Doing, Over
  <2> QED BY <2>1, <2>2 DEF Doing, Pending
<1>6. /\ stack' = [t \in Threads |-> stack'[t]] /\ \A s \in Callers : stack'[s] = stack[s]
      /\ stack'[Target] = IF c \in Syncs THEN <<Frame("signal", c)>> \o Rest ELSE Rest
  BY <1>1, <1>4, TargetStack
<1>7. /\ DataOK' /\ QueuesOK' /\ WorkInv' /\ TaskInv' /\ CallerInv'
      /\ \A d \in Calls : work'[d] = IF d = c THEN "canceled" ELSE work[d]
      /\ c \in Syncs => mutex'[c] = Target
  <2>1. {nxt', prv'} \subseteq [Ctxs -> Ctxs \union {Null}] /\ head' \in Ctxs \union {Null}
    BY <1>1 DEF DataOK, listVars
  <2> QED BY <1>1, <1>4, <1>5, <1>6, <2>1, EndKeeps
<1>8. StackInv' /\ Rest' = Rest
  <2>1. "signal" \in Places
    BY DEF Places
  <2>2. c \in Syncs => Doing("signal", c)'
    BY <1>7 DEF Doing
  <2> QED BY <1>2, <1>3, <1>6, <2>1, <2>2, NewStack
<1>9. ListInv'
  <2>1. ~At(Target, "cancel")'
    <3>1. CASE c \in Syncs
      <4>1. Head(stack'[Target]) = Frame("signal", c)
        BY <1>2, <1>6, <3>1, Shapes
      <4> QED BY <4>1, Frames DEF At, Top
    <3>2. CASE c \notin Syncs
      BY <1>2, <1>6, <3>2, Shapes DEF At, Top
    <3> QED BY <3>1, <3>2
  <2>2. phase' = phase
    BY <1>4 DEF Ends
  <2>3. OnList' = OnList
    <3>1. OnList' = Active'
      BY <2>1 DEF OnList
    <3>2. Active' = Active \ {c}
      BY <1>7, Kinds DEF Active
    <3>3. OnList = Active \ {c}
      <4>1. CASE phase[Target] = "destructors"
        BY <1>1, <1>3, <4>1 DEF OnList
      <4>2. CASE phase[Target] # "destructors"
        <5>1. work[c] # "active"
          BY <1>2, <1>3, <4>2 DEF Doing
        <5> QED BY <4>2, <5>1 DEF OnList, Active
      <4> QED BY <4>1, <4>2
    <3> QED BY <3>1, <3>2, <3>3
  <2> QED BY <1>1, <1>8, <2>2, <2>3, ListKept
<1> QED BY <1>7, <1>8, <1>9 DEF CtxInv

-----------------------------------------------------------------------------
(* What is left of the Target's steps *)

\* pthread_cond_signal: a caller that sleeps in the call goes for the mutex.
LEMMA SignalStep ==
    ASSUME CtxInv, Signal
    PROVE  CtxInv'
<1>1. /\ DataOK /\ QueuesOK /\ WorkInv /\ TaskInv /\ CallerInv /\ StackInv /\ ListInv
      /\ At(Target, "signal")
      /\ UNCHANGED <<queued, phase, listVars, life, state, mutex, work, answer>>
  BY DEF CtxInv, Signal
<1>2. /\ Top(Target).ctx \in Ctxs /\ Doing("signal", Top(Target).ctx) /\ Loop(Rest)
      /\ Tail(stack[Target]) = Rest
  BY <1>1, StackCases DEF At
<1>3. PICK c \in Syncs : c = Top(Target).ctx /\ mutex[c] = Target
  BY <1>2, Kinds DEF Doing
<1>4. stack' = [t \in Threads |->
                  IF t = Target THEN <<Frame("unlock", c)>> \o Tail(stack[t])
                  ELSE IF At(t, "asleep") /\ Top(t).ctx = c
                    THEN <<Frame("lock", c)>> \o Tail(stack[t])
                    ELSE stack[t]]
  BY <1>3 DEF Signal
<1>5. /\ stack' = [t \in Threads |-> stack'[t]]
      /\ stack'[Target] = <<Frame("unlock", c)>> \o Rest
  BY <1>2, <1>4, Kinds
<1>6. DataOK' /\ WorkInv' /\ QueuesOK' /\ TaskInv'
  BY <1>1 DEF DataOK, listVars, WorkInv, QueuesOK, TaskInv, Queued, Fits
<1>7. CallerInv'
  <2> SUFFICES ASSUME NEW s \in Callers, stack'[s] # <<>> PROVE \E d \in Syncs : Waits(s, d)'
    BY DEF CallerInv
  <2>1. s \in Threads /\ s # Target
    BY Kinds
  <2>2. CASE At(s, "asleep") /\ Top(s).ctx = c
    <3>1. stack'[s] = <<Frame("lock", c)>> \o Tail(stack[s])
      BY <1>4, <2>1, <2>2
    <3>2. Waits(s, c) /\ Tail(stack[s]) = <<>>
      BY <1>1, <2>2, CallerTop DEF At
    <3>3. stack'[s] = <<Frame("lock", c)>>
      BY <3>1, <3>2, OneFrame
    <3> QED BY <1>1, <3>2, <3>3 DEF Waits
  <2>3. CASE ~(At(s, "asleep") /\ Top(s).ctx = c)
    <3>1. stack'[s] = stack[s]
      BY <1>4, <2>1, <2>3
    <3> QED BY <1>1, <3>1 DEF CallerInv, Waits
  <2> QED BY <2>2, <2>3
<1>8. StackInv' /\ Rest' = Rest
  <2>1. Doing("unlock", c)' /\ "unlock" \in Places /\ c \in Ctxs
    BY <1>1, <1>3, Kinds DEF Doing, Places
  <2> QED BY <1>2, <1>5, <2>1, NewStack
<1>9. ListInv'
  <2>1. stack'[Target] # <<>> /\ Head(stack'[Target]) = Frame("unlock", c)
    BY <1>2, <1>5, Shapes
  <2>2. ~At(Target, "cancel") /\ ~At(Target, "cancel")'
    BY <1>1, <2>1, Frames DEF At, Top
  <2>3. OnList' = OnList
    BY <1>1, <2>2 DEF OnList, Active
  <2> QED BY <1>1, <1>8, <2>3, ListKept
<1> QED BY <1>6, <1>7, <1>8, <1>9 DEF CtxInv

\* The unlock, after which the Target does not come back to the context.
LEMMA UnlockStep ==
    ASSUME CtxInv, Unlock
    PROVE  CtxInv'
<1>1. /\ DataOK /\ QueuesOK /\ WorkInv /\ TaskInv /\ CallerInv /\ StackInv /\ ListInv
      /\ At(Target, "unlock")
      /\ UNCHANGED <<queued, phase, listVars, life, state, work, answer>>
      /\ mutex' = [mutex EXCEPT ![Top(Target).ctx] = Null]
      /\ stack' = [stack EXCEPT ![Target] = Tail(stack[Target])]
  BY DEF CtxInv, Unlock, Pop
<1>2. /\ Top(Target).ctx \in Ctxs /\ Doing("unlock", Top(Target).ctx) /\ Loop(Rest)
      /\ Tail(stack[Target]) = Rest
  BY <1>1, StackCases DEF At
<1>3. PICK c \in Syncs : c = Top(Target).ctx
  BY <1>2 DEF Doing
<1>4. /\ stack'[Target] = Rest /\ stack' = [t \in Threads |-> stack'[t]]
      /\ \A s \in Callers : stack'[s] = stack[s]
  BY <1>1, <1>2, TargetStack
<1>5. DataOK' /\ WorkInv'
  BY <1>1, <1>3, Kinds DEF DataOK, listVars, WorkInv
<1>6. QueuesOK' /\ TaskInv'
  BY <1>1 DEF QueuesOK, TaskInv, Queued, Fits
<1>7. CallerInv'
  BY <1>1, <1>4 DEF CallerInv, Waits
<1>8. StackInv' /\ Rest' = Rest
  BY <1>2, <1>4, NewStack
<1>9. ListInv'
  <2>1. ~At(Target, "cancel")'
    BY <1>2, <1>4, Shapes DEF At, Top
  <2>2. ~At(Target, "cancel")
    BY <1>1 DEF At
  <2>3. OnList' = OnList
    BY <1>1, <2>1, <2>2 DEF OnList, Active
  <2> QED BY <1>1, <1>8, <2>3, ListKept
<1> QED BY <1>5, <1>6, <1>7, <1>8, <1>9 DEF CtxInv

\* The destructor reads the next context, and cancels this one.
LEMMA SweepStep ==
    ASSUME CtxInv, SweepActive
    PROVE  CtxInv'
<1>1. /\ DataOK /\ QueuesOK /\ WorkInv /\ TaskInv /\ CallerInv /\ StackInv /\ ListInv
      /\ At(Target, "sweep")
      /\ UNCHANGED <<queued, phase, listVars, life, state, mutex, work, answer>>
  BY DEF CtxInv, SweepActive
<1>2. /\ Top(Target).ctx \in Ctxs /\ Top(Target).first \in Ctxs /\ Tail(stack[Target]) = <<>>
      /\ Top(Target) = Sweep(Top(Target).ctx, Top(Target).first) /\ Rest = <<Top(Target)>>
  BY <1>1, StackCases DEF Places, At
<1>3. PICK c \in Ctxs, first \in Ctxs : c = Top(Target).ctx /\ first = Top(Target).first
  BY <1>2
<1> DEFINE r == IF nxt[c] = first THEN <<>> ELSE <<Sweep(nxt[c], first)>>
<1>4. stack' = [stack EXCEPT ![Target] = (<<Frame("cancel", c)>> \o r) \o <<>>]
  BY <1>2, <1>3 DEF SweepActive, Become
<1>5. PICK n, q :
         /\ n \in Nat /\ q \in [1..n -> Ctxs] /\ Enumerates(n, q, OnList)
         /\ IF phase[Target] = "destructors" THEN ToGo(n, q) ELSE Rest = <<>>
  BY <1>1 DEF ListInv
<1>6. /\ phase[Target] = "destructors" /\ ToGo(n, q) /\ n # 0 /\ n \in 1..n /\ 1 \in 1..n
      /\ q[1] = c
      /\ \A i \in 1..(n - 1) : nxt[q[i]] = q[i + 1] /\ q[i + 1] # first
      /\ nxt[q[n]] = first
  <2>1. Rest # <<>>
    BY <1>2
  <2>2. phase[Target] = "destructors" /\ ToGo(n, q) /\ n # 0
    BY <1>5, <2>1 DEF ToGo
  <2>3. PICK f \in Ctxs :
              /\ Rest = <<Sweep(q[1], f)>>
              /\ \A i \in 1..(n - 1) : nxt[q[i]] = q[i + 1] /\ q[i + 1] # f
              /\ nxt[q[n]] = f
    BY <2>2 DEF ToGo
  <2>4. Top(Target) = Sweep(q[1], f)
    BY <1>2, <2>3
  <2>5. Sweep(q[1], f).ctx = q[1] /\ Sweep(q[1], f).first = f
    BY DEF Sweep
  <2>6. q[1] = c /\ f = first
    BY <1>3, <2>4, <2>5
  <2> QED BY <1>5, <2>2, <2>3, <2>6
<1>7. r = IF n = 1 THEN <<>> ELSE <<Sweep(q[2], first)>>
  <2>1. CASE n = 1
    BY <1>6, <2>1
  <2>2. CASE n # 1
    <3>1. 1 \in 1..(n - 1)
      BY <1>6, <2>2
    <3>2. nxt[q[1]] = q[1 + 1] /\ q[1 + 1] # first
      BY <1>6, <3>1
    <3> QED BY <1>6, <2>2, <3>2
  <2> QED BY <2>1, <2>2
<1>8. Loop(r)
  <2>1. n # 1 => q[2] \in Ctxs
    BY <1>5, <1>6
  <2> QED BY <1>7, <2>1 DEF Loop
<1>9. stack' = [stack EXCEPT ![Target] = <<Frame("cancel", c)>> \o r]
  <2>1. PICK S : <<Frame("cancel", c)>> \in Seq(S) /\ r \in Seq(S)
    <3> DEFINE S == {Frame("cancel", c), Sweep(nxt[c], first)}
    <3>1. <<Frame("cancel", c)>> \in Seq(S) /\ <<Sweep(nxt[c], first)>> \in Seq(S) /\ <<>> \in Seq(S)
      OBVIOUS
    <3> QED BY <3>1
  <2> HIDE DEF r
  <2>2. <<Frame("cancel", c)>> \o r \in Seq(S)
    BY <2>1, ConcatProperties
  <2> QED BY <1>4, <2>2, ConcatEmptySeq
<1> HIDE DEF r
<1>10. /\ stack'[Target] = <<Frame("cancel", c)>> \o r /\ stack' = [t \in Threads |-> stack'[t]]
       /\ \A s \in Callers : stack'[s] = stack[s]
  BY <1>1, <1>9, TargetStack
<1>11. DataOK' /\ WorkInv' /\ QueuesOK' /\ TaskInv'
  BY <1>1 DEF DataOK, listVars, WorkInv, QueuesOK, TaskInv, Queued, Fits
<1>12. CallerInv'
  BY <1>1, <1>10 DEF CallerInv, Waits
<1>13. OnList = Active /\ work[c] = "active"
  <2>1. OnList = Active
    BY <1>1 DEF OnList, At
  <2>2. c \in OnList
    BY <1>5, <1>6 DEF Enumerates
  <2> QED BY <2>1, <2>2 DEF Active
<1>14. StackInv' /\ Rest' = r
  <2>1. Doing("cancel", c)' /\ "cancel" \in Places
    BY <1>1, <1>6, <1>13 DEF Doing, Places
  <2> QED BY <1>8, <1>10, <2>1, NewStack
<1>15. OnList' = OnList \ {c}
  <2>1. stack'[Target] # <<>> /\ Head(stack'[Target]) = Frame("cancel", c)
    BY <1>8, <1>10, Shapes
  <2>2. At(Target, "cancel")' /\ Top(Target)'.ctx = c
    BY <2>1, Frames DEF At, Top
  <2> QED BY <1>1, <1>6, <1>13, <2>2 DEF OnList, Active
<1>16. ListInv'
  <2> DEFINE p == [i \in 1..(n - 1) |-> q[i + 1]]
  <2>1. n - 1 \in Nat /\ p \in [1..(n - 1) -> Ctxs]
    BY <1>5, <1>6
  <2>2. Enumerates(n - 1, p, OnList \ {c})
    <3>1. \A i, j \in 1..(n - 1) : p[i] = p[j] => i = j
      BY <1>5, <1>6 DEF Enumerates
    <3>2. \A i \in 1..(n - 1) : i + 1 \in 1..n /\ i + 1 # 1 /\ p[i] = q[i + 1]
      BY <1>6
    <3>3. \A j \in 1..n : j # 1 => \E i \in 1..(n - 1) : j = i + 1
      <4> SUFFICES ASSUME NEW j \in 1..n, j # 1 PROVE \E i \in 1..(n - 1) : j = i + 1
        OBVIOUS
      <4>1. j - 1 \in 1..(n - 1) /\ j = (j - 1) + 1
        BY <1>6
      <4> QED BY <4>1
    <3> HIDE DEF p
    <3>4. OnList = {q[i] : i \in 1..n} /\ \A j \in 1..n : q[j] = q[1] => j = 1
      BY <1>5, <1>6 DEF Enumerates
    <3>5. OnList \ {c} = {p[i] : i \in 1..(n - 1)}
      <4>1. ASSUME NEW i \in 1..(n - 1) PROVE p[i] \in OnList \ {c}
        BY <1>6, <3>2, <3>4
      <4>2. ASSUME NEW d \in OnList \ {c} PROVE \E i \in 1..(n - 1) : d = p[i]
        <5>1. PICK j \in 1..n : d = q[j]
          BY <3>4
        <5>2. j # 1
          BY <5>1, <1>6
        <5> QED BY <5>1, <5>2, <3>2, <3>3
      <4> QED BY <4>1, <4>2
    <3> QED BY <2>1, <3>1, <3>5 DEF Enumerates
  <2>3. ToGo(n - 1, p)'
    <3>1. head' = Null
      BY <1>1, <1>6 DEF ToGo, listVars
    <3>2. CASE n = 1
      BY <1>7, <1>14, <3>1, <3>2 DEF ToGo
    <3>3. CASE n # 1
      <4>1. 1 \in 1..(n - 1) /\ n - 1 \in 1..(n - 1) /\ p[1] = q[2] /\ p[n - 1] = q[n]
        BY <1>6, <3>3
      <4>2. ASSUME NEW i \in 1..((n - 1) - 1)
            PROVE  nxt[p[i]] = p[i + 1] /\ p[i + 1] # first
        <5>1. /\ i + 1 \in 1..(n - 1) /\ p[i] = q[i + 1] /\ p[i + 1] = q[(i + 1) + 1]
          BY <1>6
        <5> HIDE DEF p
        <5> QED BY <1>6, <5>1
      <4> HIDE DEF p
      <4>3. nxt' = nxt /\ n - 1 # 0
        BY <1>1, <1>6, <3>3 DEF listVars
      <4>4. Rest' = <<Sweep(p[1], first)>>
        BY <1>7, <1>14, <3>3, <4>1
      <4>5. nxt[p[n - 1]] = first
        BY <1>6, <4>1
      <4> QED BY <3>1, <4>2, <4>3, <4>4, <4>5 DEF ToGo
    <3> QED BY <3>2, <3>3
  <2>4. Enumerates(n - 1, p, OnList)'
    <3> HIDE DEF p
    <3> QED BY <1>15, <2>2 DEF Enumerates
  <2>5. phase'[Target] = "destructors"
    BY <1>1, <1>6
  <2> HIDE DEF p
  <2> QED BY <2>1, <2>3, <2>4, <2>5 DEF ListInv
<1> QED BY <1>11, <1>12, <1>14, <1>16 DEF CtxInv

\* em_task_queue_cancel takes a task that is queued, and cancels it.
LEMMA CancelQueuedStep ==
    ASSUME RingInv, CtxInv, NEW t \in Threads, CancelQueued(t)
    PROVE  CtxInv'
<1> DEFINE task == First(ring[t])
           c == task.call
<1>1. /\ DataOK /\ QueuesOK /\ WorkInv /\ TaskInv /\ CallerInv /\ StackInv /\ ListInv
      /\ Receive(t) /\ stack[t] = <<>> /\ phase[t] = "closing"
      /\ UNCHANGED <<phase, listVars, state, mutex, answer>>
  BY DEF CtxInv, CancelQueued, Free
<1>2. task \in Tasks /\ Has(t, c) /\ Fits(t, task) /\ c \in Calls
  BY <1>1, TaskFirst DEF Tasks
<1>3. \/ /\ t # Target /\ c \in Callbacks /\ life[c] = "live" /\ work[c] \in Over
         /\ life' = [life EXCEPT ![c] = "freed"] /\ UNCHANGED <<stack, work>>
      \/ /\ t = Target /\ work[c] \in {"queued", "stranded"} /\ UNCHANGED life
         /\ \/ c \in Asyncs /\ work' = [work EXCEPT ![c] = "canceled"] /\ UNCHANGED stack
            \/ /\ c \notin Asyncs /\ UNCHANGED work
               /\ stack' = [stack EXCEPT ![Target] = <<Frame("cancel", c)>> \o <<>>]
  <2>1. CASE t = Target
    <3>1. task.does = "work" /\ work[c] \in {"queued", "stranded"}
      BY <1>2, <2>1 DEF Fits
    <3> QED BY <1>1, <2>1, <3>1 DEF CancelQueued, Push
  <2>2. CASE t # Target
    <3>1. task.does # "work" /\ c \in Callbacks /\ life[c] = "live" /\ work[c] \in Over
      BY <1>2, <2>2 DEF Fits, Over
    <3> QED BY <2>2, <3>1 DEF CancelQueued, FreeCtx
  <2> QED BY <2>1, <2>2
<1>4. QueuesOK' /\ TaskInv' /\ \A x \in Threads : \A d : Has(x, d)' => Has(x, d) /\ d # c
  <2>1. \A d \in Calls : d # c => work'[d] = work[d] /\ (d \in Callbacks => life'[d] = life[d])
    BY <1>1, <1>2, <1>3, Kinds DEF DataOK
  <2> QED BY <1>1, <2>1, TaskTaken
<1>5. PICK k \in Calls : k = c
  BY <1>2
<1> HIDE DEF c, task
<1>6. CASE /\ t # Target /\ k \in Callbacks /\ life[k] = "live" /\ work[k] \in Over
           /\ life' = [life EXCEPT ![k] = "freed"] /\ UNCHANGED <<stack, work>>
  <2>1. DataOK'
    BY <1>1, <1>6, Kinds DEF DataOK, listVars
  <2>2. WorkInv'
    BY <1>1, <1>6, Kinds DEF WorkInv, DataOK, Pending, Over
  <2>3. CallerInv'
    BY <1>1, <1>6, OthersKept, Kinds DEF DataOK
  <2>4. StackInv' /\ ListInv'
    <3>1. \A d \in Ctxs : Has(Target, d)' => Has(Target, d)
      BY <1>4, Kinds
    <3>2. stack' = [x \in Threads |-> stack'[x]]
      BY <1>1, <1>6 DEF StackInv
    <3> QED BY <1>1, <1>6, <3>1, <3>2, TargetKept
  <2> QED BY <1>4, <2>1, <2>2, <2>3, <2>4 DEF CtxInv
<1>7. CASE /\ t = Target /\ work[k] \in {"queued", "stranded"} /\ UNCHANGED <<life, stack>>
           /\ k \in Asyncs /\ work' = [work EXCEPT ![k] = "canceled"]
  <2>1. DataOK' /\ \A d \in Ctxs : work'[d] = work[d]
    BY <1>1, <1>7, Kinds DEF DataOK, listVars
  <2>2. WorkInv'
    BY <1>1, <1>7, <2>1, Kinds DEF WorkInv
  <2>3. CallerInv'
    BY <1>1, <1>7, <2>1, OthersKept, Kinds
  <2>4. StackInv' /\ ListInv'
    <3>1. \A d \in Ctxs : Has(Target, d)' => Has(Target, d)
      BY <1>4, Kinds
    <3>2. stack' = [x \in Threads |-> stack'[x]]
      BY <1>1, <1>7 DEF StackInv
    <3> QED BY <1>1, <1>7, <2>1, <3>1, <3>2, TargetKept
  <2> QED BY <1>4, <2>1, <2>2, <2>3, <2>4 DEF CtxInv
<1>8. CASE /\ t = Target /\ work[k] \in {"queued", "stranded"} /\ UNCHANGED <<life, work>>
           /\ k \notin Asyncs
           /\ stack' = [stack EXCEPT ![Target] = <<Frame("cancel", k)>> \o <<>>]
  <2>1. DataOK' /\ WorkInv'
    BY <1>1, <1>8 DEF DataOK, listVars, WorkInv
  <2>2. /\ stack'[Target] = <<Frame("cancel", k)>> \o <<>> /\ stack' = [x \in Threads |-> stack'[x]]
        /\ \A s \in Callers : stack'[s] = stack[s]
    BY <1>1, <1>8, TargetStack
  <2>3. CallerInv'
    BY <1>1, <1>8, <2>2 DEF CallerInv, Waits
  <2>4. StackInv' /\ Rest' = <<>>
    <3>1. ~Has(Target, k)'
      BY <1>4, <1>5, Kinds
    <3>2. Doing("cancel", k)'
      BY <1>1, <1>8, <3>1 DEF Doing
    <3>3. "cancel" \in Places /\ Loop(<<>>) /\ k \in Ctxs
      BY <1>8, Kinds DEF Places, Loop
    <3> QED BY <2>2, <3>2, <3>3, NewStack
  <2>5. ListInv'
    <3>1. phase[Target] # "destructors" /\ UNCHANGED <<phase, listVars, work>>
      BY <1>1, <1>8
    <3>2. OnList' = OnList /\ Rest' = Rest
      BY <1>1, <1>8, <2>4, <3>1, FreeTarget DEF OnList, Active
    <3> QED BY <1>1, <3>1, <3>2, ListKept
  <2> QED BY <1>4, <2>1, <2>3, <2>4, <2>5 DEF CtxInv
<1> QED BY <1>3, <1>5, <1>6, <1>7, <1>8

-----------------------------------------------------------------------------
(***************************************************************************)
(* The theorems about the contexts                                         *)
(***************************************************************************)

\* Before the first call there is no context, task or frame.
LEMMA CtxInit == Init => CtxInv
<1> SUFFICES ASSUME Init PROVE CtxInv
  OBVIOUS
<1>1. DataOK
  BY Kinds DEF Init, DataOK
<1>2. QueuesOK
  BY DEF Init, QueuesOK
<1>3. WorkInv
  BY Kinds DEF Init, WorkInv, Pending, Over, StateOf
<1>4. \A t \in Threads : queued[t] = <<>> /\ stack[t] = <<>>
  BY DEF Init
<1>5. TaskInv
  BY <1>4 DEF TaskInv, Queued
<1>6. CallerInv
  BY <1>4, Kinds DEF CallerInv
<1>7. StackInv /\ Rest = <<>> /\ phase[Target] = "running"
  BY <1>4, Kinds DEF Init, StackInv, Rest, Loop, Above
<1>8. ListInv
  <2> DEFINE q == [i \in 1..0 |-> head]
  <2>1. OnList = {}
    BY Kinds DEF Init, OnList, Active
  <2>2. Enumerates(0, q, OnList) /\ Links(0, q) /\ q \in [1..0 -> Ctxs]
    BY <2>1 DEF Enumerates, Links, Init
  <2> HIDE DEF q
  <2> QED BY <1>7, <2>2 DEF ListInv
<1> QED BY <1>1, <1>2, <1>3, <1>5, <1>6, <1>7, <1>8 DEF CtxInv

\* A step that changes nothing.
LEMMA CtxStutter == CtxInv /\ UNCHANGED vars => CtxInv'
<1> SUFFICES ASSUME CtxInv, UNCHANGED vars PROVE CtxInv'
  OBVIOUS
<1>1. UNCHANGED <<queued, phase, stack, head, nxt, prv, life, state, mutex, work, answer>>
  BY DEF vars, listVars
<1>2. DataOK' /\ QueuesOK' /\ WorkInv' /\ TaskInv' /\ CallerInv'
  BY <1>1 DEF CtxInv, DataOK, QueuesOK, WorkInv, TaskInv, Queued, Fits, CallerInv, Waits
<1>3. Rest' = Rest /\ OnList' = OnList
  BY <1>1 DEF Rest, At, Top, OnList, Active
<1>4. StackInv'
  BY <1>1, <1>3 DEF CtxInv, StackInv, Above, Doing, Has, Queued
<1>5. ListInv'
  BY <1>1, <1>3, ListKept DEF CtxInv, listVars
<1> QED BY <1>2, <1>4, <1>5 DEF CtxInv

\* Every step of the callers and of the Target keeps the invariant.
LEMMA CtxStep == RingInv /\ CtxInv /\ [Next]_vars => CtxInv'
<1> SUFFICES ASSUME RingInv, CtxInv, [Next]_vars PROVE CtxInv'
  OBVIOUS
<1>1. ASSUME NEW s \in Callers, NEW c \in Calls, Call(s, c) \/ CallRefused(s, c) PROVE CtxInv'
  BY <1>1, CallStep, RefusedStep
<1>2. ASSUME NEW s \in Callers, WaitForAnswer(s) \/ WakeSpuriously(s) \/ RunCallback(s)
      PROVE  CtxInv'
  BY <1>2, WaitStep, CallbackStep
<1>3. CASE RunWork \/ ReturnUnfinished \/ \E c \in Ctxs : Finish(c)
  BY <1>3, RunStep, ReturnStep, FinishStep
<1>4. CASE CancelCtx \/ Signal \/ Unlock
  BY <1>4, CancelStep, SignalStep, UnlockStep
<1>5. ASSUME NEW t \in Threads, Exit(t) \/ CancelQueued(t) \/ Closed(t) \/ RunDestructors(t)
      PROVE  CtxInv'
  BY <1>5, PhaseStep, CancelQueuedStep, DestructorStep
<1>6. CASE ExitInFunction \/ SweepActive
  BY <1>6, ExitFunctionStep, SweepStep
<1>7. CASE UNCHANGED vars
  BY <1>7, CtxStutter
<1> QED BY <1>1, <1>2, <1>3, <1>4, <1>5, <1>6, <1>7 DEF Next

\* The inductive invariant of the contexts: what became of a call agrees with its
\* memory, its tasks, the frames that refer to it and the list of active contexts.
THEOREM CtxInvariant == Spec => [](RingInv /\ CtxInv)
  BY RingInit, RingStep, CtxInit, CtxStep, PTL DEF Spec

\* The variables keep their types; above all no frame and no pointer of the list of
\* active contexts is ever anything but a context.
THEOREM TypeCorrect == Spec => []TypeOK
  BY CtxInvariant, TypeFollows, PTL

\* The contexts that frames refer to.
LEMMA FramesLive ==
    ASSUME RingInv, CtxInv, NEW t \in Threads, NEW i \in DOMAIN stack[t]
    PROVE  life[stack[t][i].ctx] = "live"
<1>1. WorkInv /\ CallerInv /\ StackInv /\ ListInv
  BY DEF CtxInv
<1>2. CASE t # Target
  <2>1. t \in Callers /\ stack[t] # <<>>
    BY <1>2, Kinds
  <2>2. Waits(t, Top(t).ctx) /\ stack[t] = <<Top(t)>>
    BY <1>1, <2>1, CallerTop
  <2>3. stack[t][i] = Top(t)
    BY <2>2
  <2> QED BY <2>2, <2>3 DEF Waits
<1>3. CASE t = Target
  <2>1. Loop(Rest)
    BY <1>1, StackCases
  <2>2. \A g : Rest = <<g>> => life[g.ctx] = "live"
    <3> SUFFICES ASSUME NEW g, Rest = <<g>> PROVE life[g.ctx] = "live"
      OBVIOUS
    <3>1. PICK n, q : n \in Nat /\ n # 0 /\ Enumerates(n, q, OnList) /\ ToGo(n, q)
      BY <1>1 DEF ListInv, ToGo
    <3>2. PICK first : Rest = <<Sweep(q[1], first)>>
      BY <3>1 DEF ToGo
    <3>3. g = Sweep(q[1], first)
      BY <3>2
    <3>4. g.ctx = q[1]
      BY <3>3 DEF Sweep
    <3>5. 1 \in 1..n
      BY <3>1
    <3>6. g.ctx \in OnList
      BY <3>1, <3>4, <3>5 DEF Enumerates
    <3> QED BY <1>1, <3>6 DEF OnList, Active, WorkInv, Pending
  <2>3. CASE Rest = stack[Target] /\ Rest = <<Top(Target)>>
    <3>1. stack[t][i] = Top(Target)
      BY <1>3, <2>3
    <3> QED BY <2>2, <2>3, <3>1
  <2>4. CASE /\ stack[Target] = <<Top(Target)>> \o Rest /\ Top(Target).ctx \in Ctxs
             /\ Doing(Top(Target).at, Top(Target).ctx)
    <3>1. life[Top(Target).ctx] = "live"
      BY <1>1, <2>4, Kinds DEF Doing, WorkInv, Pending
    <3>2. CASE Rest = <<>>
      <4>1. stack[Target] = <<Top(Target)>>
        BY <2>4, <3>2, OneFrame
      <4>2. stack[t][i] = Top(Target)
        BY <1>3, <4>1
      <4> QED BY <3>1, <4>2
    <3>3. CASE Rest # <<>>
      <4>1. PICK g : Rest = <<g>>
        BY <2>1, <3>3 DEF Loop
      <4>2. <<Top(Target)>> \in Seq({Top(Target), g}) /\ <<g>> \in Seq({Top(Target), g})
        OBVIOUS
      <4>3. stack[Target] \in Seq({Top(Target), g})
        BY <4>1, <4>2, <2>4, ConcatProperties
      <4>4. stack[t][i] \in {Top(Target), g}
        BY <1>3, <4>3
      <4> QED BY <2>2, <3>1, <4>1, <4>4
    <3> QED BY <3>2, <3>3
  <2>5. stack[Target] # <<>>
    BY <1>3
  <2> QED BY <1>1, <2>3, <2>4, <2>5, StackCases
<1> QED BY <1>2, <1>3

\* The Target and the callers follow no pointer to a context that is gone: not from
\* a frame, a task, the list of active contexts or a mutex that is held, whichever
\* thread exits first and wherever the call is at that time.
THEOREM ContextsSafe == Spec => []NoUseAfterFree
<1>1. RingInv /\ CtxInv => NoUseAfterFree
  <2> SUFFICES ASSUME RingInv, CtxInv PROVE NoUseAfterFree
    OBVIOUS
  <2>1. ASSUME NEW t \in Threads, NEW i \in DOMAIN queued[t], queued[t][i].call \in Ctxs
        PROVE  life[queued[t][i].call] = "live"
    <3>1. queued[t][i] \in Queued(t)
      BY DEF Queued
    <3>2. Fits(t, queued[t][i])
      BY <3>1 DEF CtxInv, TaskInv
    <3> QED BY <2>1, <3>2 DEF Fits, CtxInv, WorkInv, Pending
  <2>2. \A c \in Active : life[c] = "live"
    BY DEF Active, CtxInv, WorkInv, Pending
  <2>3. \A c \in Syncs : mutex[c] # Null => life[c] = "live"
    BY DEF CtxInv, WorkInv
  <2> QED BY <2>1, <2>2, <2>3, FramesLive DEF NoUseAfterFree
<1> QED BY <1>1, CtxInvariant, PTL

\* What the caller of emscripten_proxy_sync_with_ctx or of a callback call is told
\* is what became of the work at the Target.
THEOREM OutcomesTold == Spec => []OutcomeMatches
<1>1. CtxInv => OutcomeMatches
  BY DEF CtxInv, WorkInv, OutcomeMatches
<1> QED BY <1>1, CtxInvariant, PTL

-----------------------------------------------------------------------------
(***************************************************************************)
(* The list of active contexts                                             *)
(***************************************************************************)

\* A set of numbers that is not empty has a least one.
LEMMA LeastNumber ==
    ASSUME NEW W \in SUBSET Nat, W # {}
    PROVE  \E k \in W : \A j \in W : k <= j
<1> DEFINE R == OpToRel(<, Nat)
<1>1. IsWellFoundedOn(R, Nat)
  BY NatLessThanWellFounded, Zenon
<1>2. PICK k \in W : \A j \in W : <<j, k>> \notin R
  <2> HIDE DEF R
  <2> QED BY <1>1, WFMin
<1>3. ASSUME NEW j \in W PROVE k <= j
  <2>1. j \in Nat /\ k \in Nat
    OBVIOUS
  <2>2. ~(j < k)
    BY <1>2, <2>1 DEF OpToRel
  <2> QED BY <2>1, <2>2
<1> QED BY <1>3

\* There are as many contexts on the list as the order has places.
LEMMA ListSize ==
    ASSUME NEW n, NEW q, NEW S, Enumerates(n, q, S)
    PROVE  Cardinality(S) = n /\ (S = {} <=> n = 0)
<1>1. n \in Nat /\ q \in [1..n -> Ctxs] /\ S = {q[i] : i \in 1..n}
  BY DEF Enumerates
<1>2. q \in [1..n -> S] /\ \A c \in S : \E i \in 1..n : q[i] = c
  BY <1>1
<1>3. q \in Bijection(1..n, S)
  BY <1>2, Fun_IsBij DEF Enumerates
<1>4. Cardinality(S) = n
  BY <1>1, <1>3, FS_CountingElements DEF ExistsBijection
<1>5. n # 0 => q[1] \in S
  BY <1>1
<1>6. n = 0 => S = {}
  BY <1>1
<1> QED BY <1>4, <1>5, <1>6

\* From the first context of the order, the pointers lead to all of them and
\* then to where the last one points: two functions that follow the pointers cannot
\* differ for a first time.
LEMMA WayThrough ==
    ASSUME NEW n, NEW q, NEW S, NEW from, NEW to,
           Enumerates(n, q, S), n # 0, from = q[1],
           \A i \in 1..(n - 1) : nxt[q[i]] = q[i + 1], nxt[q[n]] = to
    PROVE  /\ \E f : f = [i \in 0..n |-> IF i = 0 THEN from ELSE nxt[f[i - 1]]]
           /\ \A f : f = [i \in 0..n |-> IF i = 0 THEN from ELSE nxt[f[i - 1]]]
                 => {f[i] : i \in 0..(n - 1)} = S /\ f[n] = to
<1> DEFINE g == [i \in 0..n |-> IF i < n THEN q[i + 1] ELSE to]
<1>1. n \in Nat
  BY DEF Enumerates
<1>2. g = [i \in 0..n |-> g[i]] /\ g[0] = q[1]
  BY <1>1
<1>3. \A i \in 1..n : g[i] = nxt[g[i - 1]]
  <2> TAKE i \in 1..n
  <2>1. i - 1 \in 0..n /\ i - 1 < n /\ i \in 0..n
    BY <1>1
  <2>2. g[i - 1] = q[i]
    BY <2>1
  <2>3. CASE i = n
    BY <2>1, <2>2, <2>3
  <2>4. CASE i # n
    <3>1. i \in 1..(n - 1) /\ i < n
      BY <2>4, <1>1
    <3> QED BY <2>1, <2>2, <3>1
  <2> QED BY <2>3, <2>4
<1>4. {g[i] : i \in 0..(n - 1)} = S /\ g[n] = to
  <2>1. S = {q[j] : j \in 1..n}
    BY DEF Enumerates
  <2>2. \A i \in 0..(n - 1) : i + 1 \in 1..n /\ g[i] = q[i + 1]
    BY <1>1
  <2>3. \A j \in 1..n : j - 1 \in 0..(n - 1) /\ g[j - 1] = q[j]
    BY <1>1
  <2>4. g[n] = to
    BY <1>1
  <2> HIDE DEF g
  <2> QED BY <2>1, <2>2, <2>3, <2>4
<1>5. g = [i \in 0..n |-> IF i = 0 THEN from ELSE nxt[g[i - 1]]]
  <2>1. \A i \in 0..n : i = 0 \/ i \in 1..n
    BY <1>1
  <2> HIDE DEF g
  <2> QED BY <1>2, <1>3, <2>1
<1>6. ASSUME NEW f, f = [i \in 0..n |-> IF i = 0 THEN from ELSE nxt[f[i - 1]]]
      PROVE  f = g
  <2> DEFINE W == {i \in 0..n : f[i] # g[i]}
  <2> HIDE DEF g
  <2>1. W = {}
    <3> SUFFICES ASSUME W # {} PROVE FALSE
      OBVIOUS
    <3>1. W \in SUBSET Nat
      BY <1>1
    <3>2. PICK k \in W : \A j \in W : k <= j
      <4> HIDE DEF W
      <4> QED BY <3>1, LeastNumber
    <3>3. k \in 0..n /\ f[k] # g[k] /\ f[0] = from /\ g[0] = from
      BY <1>1, <1>2, <1>6, <3>2
    <3>4. k - 1 \in 0..n /\ k \in 1..n /\ ~(k <= k - 1)
      BY <1>1, <3>3
    <3>5. f[k - 1] = g[k - 1]
      BY <3>2, <3>4
    <3>6. f[k] = nxt[f[k - 1]] /\ g[k] = nxt[g[k - 1]]
      BY <1>1, <1>3, <1>6, <3>4
    <3> QED BY <3>3, <3>5, <3>6
  <2>2. \A i \in 0..n : f[i] = g[i]
    BY <2>1
  <2>3. f = [i \in 0..n |-> f[i]]
    BY <1>6
  <2> QED BY <1>2, <2>2, <2>3
<1> HIDE DEF g
<1>7. \E f : f = [i \in 0..n |-> IF i = 0 THEN from ELSE nxt[f[i - 1]]]
  BY <1>5
<1>8. ASSUME NEW f, f = [i \in 0..n |-> IF i = 0 THEN from ELSE nxt[f[i - 1]]]
      PROVE  {f[i] : i \in 0..(n - 1)} = S /\ f[n] = to
  <2>1. f = g
    BY <1>6, <1>8
  <2> QED BY <1>4, <2>1
<1> QED BY <1>7, <1>8

\* The frames of the Target are a sequence.
LEMMA FrameList == StackInv => \E F : stack[Target] \in Seq(F)
<1> SUFFICES ASSUME StackInv PROVE \E F : stack[Target] \in Seq(F)
  OBVIOUS
<1>1. \E g : Rest \in Seq({g})
  <2>1. \A f : <<f>> \in Seq({f}) /\ <<>> \in Seq({f})
    OBVIOUS
  <2>2. Rest = <<>> \/ \E f : Rest = <<f>>
    BY StackCases DEF Loop
  <2> QED BY <2>1, <2>2
<1>2. PICK g : Rest \in Seq({g})
  BY <1>1
<1>3. CASE stack[Target] = Rest
  BY <1>2, <1>3
<1>4. CASE stack[Target] = <<Top(Target)>> \o Rest
  <2>1. \A f : <<f>> \in Seq({f, g})
    OBVIOUS
  <2>2. Rest \in Seq({Top(Target), g})
    BY <1>2
  <2> QED BY <1>4, <2>1, <2>2, ConcatProperties
<1> QED BY <1>3, <1>4, StackCases

\* Two frames.
LEMMA TwoFrames == \A f, g : <<f>> \o <<g>> = <<f, g>>
<1> TAKE f, g
<1>1. /\ <<f>> \in Seq({f, g}) /\ <<g>> \in Seq({f, g}) /\ <<f, g>> \in Seq({f, g})
      /\ Len(<<f>>) = 1 /\ Len(<<g>>) = 1 /\ Len(<<f, g>>) = 2
      /\ <<f>>[1] = f /\ <<g>>[1] = g /\ <<f, g>>[1] = f /\ <<f, g>>[2] = g
  OBVIOUS
<1>2. PICK a, b : a = <<f>> /\ b = <<g>>
  OBVIOUS
<1>3. /\ a \o b \in Seq({f, g}) /\ Len(a \o b) = 2
      /\ (a \o b)[1] = f /\ (a \o b)[2] = g
  <2> HIDE <1>2
  <2>1. /\ a \in Seq({f, g}) /\ b \in Seq({f, g}) /\ Len(a) = 1 /\ Len(b) = 1
        /\ a[1] = f /\ b[1] = g
    BY <1>1, <1>2
  <2> QED BY <2>1, ConcatProperties
<1>4. \A i \in 1..2 : i = 1 \/ i = 2
  OBVIOUS
<1>5. a \o b = <<f, g>>
  BY <1>1, <1>3, <1>4, SeqEqual
<1> QED BY <1>2, <1>5

\* add_active_ctx and remove_active_ctx keep the circular list of exactly the active
\* contexts, in whatever order they are finished; and cancel_active_ctxs visits each
\* of those that are left once.
THEOREM ListExact == Spec => []ActiveListExact
<1>1. RingInv /\ CtxInv => ActiveListExact
  <2> SUFFICES ASSUME CtxInv PROVE ActiveListExact
    OBVIOUS
  <2>1. DataOK /\ StackInv /\ ListInv
    BY DEF CtxInv
  <2>2. CASE phase[Target] # "destructors"
    <3>1. PICK n, q : Enumerates(n, q, Active) /\ Links(n, q)
      BY <2>1, <2>2, ListOrder DEF Chain
    <3>2. n \in Nat /\ (Active = {} <=> n = 0)
      BY <3>1, ListSize DEF Enumerates
    <3>3. Active = {} => head = Null
      BY <3>1, <3>2 DEF Links
    <3>4. ASSUME Active # {}
          PROVE  LET step[i \in 0..Cardinality(Active)] == IF i = 0 THEN head ELSE nxt[step[i - 1]]
                 IN  {step[i] : i \in 0..(Cardinality(Active) - 1)} = Active /\ step[Cardinality(Active)] = head
      <4>1. head = q[1] /\ n # 0 /\ n \in 1..n
        BY <3>1, <3>2, <3>4 DEF Links
      <4>2. nxt[q[n]] = head /\ \A i \in 1..(n - 1) : nxt[q[i]] = q[i + 1]
        BY <3>1, <3>2, <4>1 DEF Links, After
      <4> DEFINE Eq(f) == f = [i \in 0..Cardinality(Active) |-> IF i = 0 THEN head ELSE nxt[f[i - 1]]]
                 step[i \in 0..Cardinality(Active)] == IF i = 0 THEN head ELSE nxt[step[i - 1]]
      <4>3. /\ \E f : Eq(f)
            /\ \A f : Eq(f) => {f[i] : i \in 0..(Cardinality(Active) - 1)} = Active /\ f[Cardinality(Active)] = head
        <5>1. /\ Enumerates(Cardinality(Active), q, Active) /\ Cardinality(Active) # 0
              /\ nxt[q[Cardinality(Active)]] = head
              /\ \A i \in 1..(Cardinality(Active) - 1) : nxt[q[i]] = q[i + 1]
          BY <3>1, <4>1, <4>2, ListSize
        <5> QED BY <4>1, <5>1, WayThrough
      <4>4. step = CHOOSE f : Eq(f)
        BY DEF step
      <4>5. {step[i] : i \in 0..(Cardinality(Active) - 1)} = Active /\ step[Cardinality(Active)] = head
        <5> HIDE DEF Eq, step
        <5> QED BY <4>3, <4>4
      <4> QED BY <4>5
    <3>5. ASSUME NEW c \in Active PROVE prv[nxt[c]] = c /\ nxt[prv[c]] = c
      <4>1. PICK i \in 1..n : c = q[i]
        BY <3>1 DEF Enumerates
      <4>2. PICK j \in 1..n : After(j, n) = i
        <5>1. (IF i = 1 THEN n ELSE i - 1) \in 1..n /\ After(IF i = 1 THEN n ELSE i - 1, n) = i
          BY <3>2 DEF After
        <5> QED BY <5>1
      <4> QED BY <3>1, <4>1, <4>2 DEF Links
    <3> QED BY <2>2, <3>3, <3>4, <3>5 DEF ActiveListExact
  <2>3. CASE phase[Target] = "destructors"
    <3>1. PICK n, q : n \in Nat /\ Enumerates(n, q, OnList) /\ ToGo(n, q)
      BY <2>1, <2>3 DEF ListInv
    <3>2. head = Null
      BY <3>1 DEF ToGo
    <3>3. ASSUME {stack[Target][i].ctx : i \in {j \in DOMAIN stack[Target] : stack[Target][j].at = "cancel"}} = {},
                 Active # {}
          PROVE  \E k \in {i \in DOMAIN stack[Target] : stack[Target][i].at = "sweep"} :
                    LET step[i \in 0..Cardinality(Active)] ==
                          IF i = 0 THEN stack[Target][k].ctx ELSE nxt[step[i - 1]]
                    IN  /\ {step[i] : i \in 0..(Cardinality(Active) - 1)} = Active
                        /\ step[Cardinality(Active)] = stack[Target][k].first
      <4>1. ~At(Target, "cancel")
        <5> SUFFICES ASSUME At(Target, "cancel") PROVE FALSE
          OBVIOUS
        <5>1. 1 \in DOMAIN stack[Target] /\ stack[Target][1].at = "cancel"
          <6>1. PICK F : stack[Target] \in Seq(F)
            BY <2>1, FrameList
          <6> QED BY <6>1 DEF At, Top
        <5> QED BY <3>3, <5>1
      <4>2. OnList = Active
        BY <4>1 DEF OnList
      <4>3. n # 0
        BY <3>1, <3>3, <4>2, ListSize
      <4>4. PICK first \in Ctxs :
              /\ Rest = <<Sweep(q[1], first)>>
              /\ \A i \in 1..(n - 1) : nxt[q[i]] = q[i + 1] /\ q[i + 1] # first
              /\ nxt[q[n]] = first
        BY <3>1, <4>3 DEF ToGo
      <4>5. PICK k \in DOMAIN stack[Target] : stack[Target][k] = Sweep(q[1], first)
        <5>1. CASE stack[Target] = Rest
          <6>1. 1 \in DOMAIN stack[Target] /\ stack[Target][1] = Sweep(q[1], first)
            BY <4>4, <5>1
          <6> QED BY <6>1
        <5>2. CASE stack[Target] = <<Top(Target)>> \o Rest
          <6> DEFINE f == Top(Target)
                     g == Sweep(q[1], first)
          <6>1. <<f>> \o <<g>> = <<f, g>>
            BY TwoFrames
          <6>2. 2 \in DOMAIN <<f, g>> /\ <<f, g>>[2] = g
            OBVIOUS
          <6>3. stack[Target] = <<f, g>>
            BY <4>4, <5>2, <6>1
          <6> HIDE DEF f, g
          <6>4. 2 \in DOMAIN stack[Target] /\ stack[Target][2] = g
            BY <6>2, <6>3
          <6> QED BY <6>4 DEF g
        <5>3. Rest # <<>>
          BY <4>4
        <5> QED BY <2>1, <5>1, <5>2, <5>3, StackCases
      <4>6. /\ stack[Target][k].at = "sweep" /\ stack[Target][k].ctx = q[1]
            /\ stack[Target][k].first = first
        BY <4>5 DEF Sweep
      <4> DEFINE Eq(f) == f = [i \in 0..Cardinality(Active) |-> IF i = 0 THEN stack[Target][k].ctx ELSE nxt[f[i - 1]]]
                 step[i \in 0..Cardinality(Active)] ==
                   IF i = 0 THEN stack[Target][k].ctx ELSE nxt[step[i - 1]]
      <4>7. /\ \E f : Eq(f)
            /\ \A f : Eq(f) => /\ {f[i] : i \in 0..(Cardinality(Active) - 1)} = Active
                               /\ f[Cardinality(Active)] = stack[Target][k].first
        <5>1. /\ Enumerates(Cardinality(Active), q, Active) /\ Cardinality(Active) # 0
              /\ nxt[q[Cardinality(Active)]] = first
              /\ \A i \in 1..(Cardinality(Active) - 1) : nxt[q[i]] = q[i + 1]
          BY <3>1, <4>2, <4>3, <4>4, ListSize
        <5> QED BY <4>6, <5>1, WayThrough
      <4>8. step = CHOOSE f : Eq(f)
        BY DEF step
      <4>9. /\ {step[i] : i \in 0..(Cardinality(Active) - 1)} = Active
            /\ step[Cardinality(Active)] = stack[Target][k].first
        <5> HIDE DEF Eq, step
        <5> QED BY <4>7, <4>8
      <4> QED BY <4>5, <4>6, <4>9
    <3> QED BY <2>3, <3>2, <3>3 DEF ActiveListExact
  <2> QED BY <2>2, <2>3
<1> QED BY <1>1, CtxInvariant, PTL
=============================================================================
