-------------------------- MODULE FutexNotifyProofs --------------------------
(***************************************************************************)
(* Nothing is slept through, the guards of the system queue match the C    *)
(* stack, and the waiting thread never deadlocks with itself, for every    *)
(* program, any number of other threads and any number of posted tasks.    *)
(***************************************************************************)
EXTENDS FutexNotify, FiniteSetTheorems, SequenceTheorems, TLAPS

-----------------------------------------------------------------------------
(***************************************************************************)
(* The inductive invariant: the stack                                      *)
(***************************************************************************)
\* Frames of the queue, and frames that call nothing.
CodePlaces == {"user", "task", "guard", "find", "loop", "mailbox", "unguard", "own", "alloc",
               "send"}
OnTop == {"publish", "sleep", "asleep", "clear", "cancel", "yield", "guard", "unguard", "send"}
Processes == {"loop", "mailbox"}

Has(s, places) == \E i \in DOMAIN s : s[i].at \in places

\* A frame that is in pthread_mutex_lock.
WaitsFor(f, l) == f.at \in Waiting \ {"testcancel"} /\ f.addr = l /\ f.mode = "disable"

\* Which frame calls which: a is called by b.
Link(a, b) ==
    /\ b.at \notin OnTop /\ a.at # "user"
    /\ a.at = "mailbox" => b.at = "user"
    /\ a.at \in Waiting => /\ a.addr = QLock => b.at \in {"find", "own"}
                           /\ a.addr = Heap => b.at = "alloc"
                           /\ a.addr = Mutex => b.at = "testcancel"
    /\ b.at \in {"find", "own"} => WaitsFor(a, QLock)
    /\ b.at = "alloc" => WaitsFor(a, Heap)
    /\ b.at = "testcancel" => WaitsFor(a, Mutex) /\ cancel /\ b.mode = "enable"
    /\ b.at = "check" => program.isMain /\ a.at \in {"guard", "find", "loop", "unguard"}
    /\ b.at \in Processes => a.at = "task"

\* What is possible at all in the program that runs.
Allowed(f) ==
    /\ f.mode = "masked" => "masked" \in program.modes
    /\ f.at = "alloc" => program.allocates

\* The frames are called by each other, and at the bottom is user code.
Chained(s) ==
    /\ \A i \in DOMAIN s : i + 1 \in DOMAIN s => Link(s[i], s[i + 1])
    /\ \A i \in DOMAIN s : /\ i = Len(s) <=> s[i].at = "user"
                           /\ Allowed(s[i])

\* A frame that waits for a lock with the guard up: the yields in that wait find the
\* guard up, so that nothing runs above it but the wait and the guard itself.
Guarded == {"find", "alloc"}
LockTaken(s) == s # <<>> /\ s[1].at \in Guarded /\ ~Has(Tail(s), Guarded)
InLock(s) == s # <<>> /\ s[1].at \in Waiting /\ LockTaken(Tail(s))
InYield(s) == s # <<>> /\ s[1].at = "guard" /\ InLock(Tail(s))
Depth(s) == ~Has(s, Guarded) \/ LockTaken(s) \/ InLock(s) \/ InYield(s)

\* One frame at most processes the task queue.
Once(s) ==
    \A i, j \in DOMAIN s : s[i].at \in Processes /\ s[j].at \in Processes => i = j

\* The guard is up while such a frame waits, and only while a frame is on the stack
\* that takes it down; processing is up exactly while a frame processes the queue.
ShapeInv ==
    /\ Chained(stack) /\ Depth(stack) /\ Once(stack)
    /\ Has(stack, Guarded) => inUse
    /\ stack # <<>> =>
          /\ inUse => Has(stack, Guarded \union {"loop", "unguard", "send"})
          /\ processing <=> Has(stack, Processes)

-----------------------------------------------------------------------------
(***************************************************************************)
(* The inductive invariant: locks and notifications                        *)
(***************************************************************************)
\* Where the waiting thread holds a lock.  It does not give the mutex of a condition
\* variable back when it is cancelled: it exits.
SelfHolds(l) ==
    \/ l = QLock /\ (At("find") \/ At("own") \/ At("send") \/ Has(stack, {"alloc"}))
    \/ l = Heap /\ At("alloc")
    \/ l = Mutex /\ At("testcancel") /\ cancel /\ Top.mode # "disable"

\* A lock that is not free has a holder, unless the waiting thread left with it.
Held == {l \in Locks : \E n \in Others : pc[n] = Place("holds", l)}
HoldInv == \A l \in Locks \ open : stack = <<>> \/ SelfHolds(l) \/ l \in Held

\* A thread that sleeps or goes to sleep has published its address; and if it was
\* notified since, its notifier spins until it has left.
Spins(n) == pc[n].at \in {"spin", "wakeall"} /\ waitAddr = Bit(pc[n].addr, TRUE)
BitInv ==
    At("sleep") \/ At("asleep") =>
        /\ waitAddr.addr = Top.addr
        /\ waitAddr.notified => \E n \in Others : Spins(n)

\* A notification has arrived, or will.
Alerted == waitAddr.notified \/ \E n \in Others : pc[n].at = "notify"

\* On its way into a wait the thread has not been cancelled, or it is alerted.
CancelInv ==
    /\ stack # <<>> /\ ~program.isMain /\ cancel
    /\ Top.at \in {"check", "publish", "sleep", "asleep", "yield"} /\ Top.mode # "disable"
    => Alerted

\* A crash keeps the main thread alerted until it unwinds.
CrashInv ==
    /\ crashed => program.isMain
    /\ crashed /\ stack # <<>> /\ Top.at \notin {"cancel", "yield"}
          /\ "masked" \notin program.modes
       => Alerted

\* Another thread has begun to post a task, or has still to wake the thread for one.
Posts(n) ==
    \/ pc[n].at \in {"notify", "kill", "enqueue"}
    \/ pc[n].at \in {"spin", "wakeall"} /\ pc[n].kills
    \/ pc[n].at \in {"holds", "wake"} /\ pc[n].addr = QLock

Posted == waitAddr.notified \/ \E n \in Others : Posts(n)

\* Work that is queued is known to the thread: it is notified or will be, or it is
\* about to look, or a frame on its stack is.
WorkInv ==
    /\ program.isMain /\ ~program.allocates /\ "masked" \notin program.modes
    /\ stack # <<>> /\ work > 0
    => \/ Posted \/ processing
       \/ Has(stack, {"find"}) \/ Top.at \in {"cancel", "yield", "guard"}

NotifyInv ==
    TypeOK /\ ShapeInv /\ HoldInv /\ BitInv /\ CancelInv /\ CrashInv /\ WorkInv

-----------------------------------------------------------------------------
(***************************************************************************)
(* Lemmas about frames and stacks                                          *)
(***************************************************************************)
\* The three locks are different words, and none of them is a flag.
LEMMA LocksApart ==
    /\ QLock # Heap /\ QLock # Mutex /\ Heap # Mutex
    /\ \A f \in Flags : f \notin Locks
    /\ \A a \in Words : a # NoAddr
<1>1. \A x, y : Cardinality({x, y}) # 3
  <2> TAKE x, y
  <2>1. Cardinality({x}) = 1 /\ IsFiniteSet({x})
    BY FS_Singleton
  <2>2. /\ IsFiniteSet({x} \union {y})
        /\ Cardinality({x} \union {y}) = IF y \in {x} THEN Cardinality({x})
                                         ELSE Cardinality({x}) + 1
    BY <2>1, FS_AddElement
  <2>3. {x} \union {y} = {x, y}
    OBVIOUS
  <2>4. Cardinality({x, y}) \in {1, 2}
    BY <2>1, <2>2, <2>3
  <2> QED BY <2>4
<1>2. Cardinality(Locks) = 3
  BY FutexNotifyAssumption
<1>3. QLock # Heap
  <2>1. QLock = Heap => Locks = {QLock, Mutex}
    BY DEF Locks
  <2> QED BY <1>1, <1>2, <2>1
<1>4. QLock # Mutex
  <2>1. QLock = Mutex => Locks = {QLock, Heap}
    BY DEF Locks
  <2> QED BY <1>1, <1>2, <2>1
<1>5. Heap # Mutex
  <2>1. Heap = Mutex => Locks = {QLock, Heap}
    BY DEF Locks
  <2> QED BY <1>1, <1>2, <2>1
<1> QED BY <1>3, <1>4, <1>5, FutexNotifyAssumption

\* A frame waits, or it is code.
LEMMA FrameKinds ==
    ASSUME NEW f \in Frames
    PROVE  /\ f.at \in Waiting => f \in [at : Waiting, addr : Words, mode : Mode]
           /\ f.at \notin Waiting => f = Code(f.at) /\ f.at \in CodePlaces
  BY DEF Frames, Code, Frame, Waiting, CodePlaces

\* Frames that the code makes.
LEMMA NewFrames ==
    /\ \A at \in CodePlaces : Code(at) \in Frames /\ Code(at).at = at /\ Code(at).mode = "enable"
    /\ \A at \in Waiting, a \in Words, m \in Mode :
          /\ Frame(at, a, m) \in Frames
          /\ Frame(at, a, m).at = at /\ Frame(at, a, m).addr = a /\ Frame(at, a, m).mode = m
    /\ \A l \in Locks : /\ Lock(l) \in Frames /\ Lock(l).at = "check"
                        /\ Lock(l).addr = l /\ Lock(l).mode = "disable"
  BY DEF Frames, Code, Frame, Lock, Waiting, CodePlaces, Words, Mode

\* A frame that moves on stays a frame.
LEMMA MovedFrame ==
    ASSUME NEW f \in Frames, NEW at,
           \/ f.at \in Waiting /\ at \in Waiting
           \/ f.at \notin Waiting /\ at \in CodePlaces
    PROVE  /\ [f EXCEPT !.at = at] \in Frames /\ [f EXCEPT !.at = at].at = at
           /\ [f EXCEPT !.at = at].addr = f.addr /\ [f EXCEPT !.at = at].mode = f.mode
<1>1. CASE f.at \in Waiting /\ at \in Waiting
  BY <1>1, FrameKinds DEF Frames
<1>2. CASE f.at \notin Waiting /\ at \in CodePlaces
  <2>1. f = Code(f.at)
    BY <1>2, FrameKinds
  <2>2. [f EXCEPT !.at = at] = Code(at)
    BY <2>1 DEF Code, Frame
  <2> QED BY <1>2, <2>1, <2>2 DEF Frames, Code, Frame, CodePlaces
<1> QED BY <1>1, <1>2

\* What lies where after a change of the stack.
LEMMA Replaced ==
    ASSUME NEW S, NEW s \in Seq(S), s # <<>>, NEW f \in S, NEW t, t = <<f>> \o Tail(s)
    PROVE  /\ t \in Seq(S) /\ t # <<>> /\ Len(t) = Len(s) /\ DOMAIN t = DOMAIN s /\ t[1] = f
           /\ Len(s) \in Nat /\ DOMAIN s = 1..Len(s) /\ Len(s) >= 1
           /\ \A i \in DOMAIN s : i # 1 => t[i] = s[i]
  OBVIOUS

\* The same for a call: every frame is one further down.
LEMMA Pushed ==
    ASSUME NEW S, NEW s \in Seq(S), NEW f \in S, NEW t, t = <<f>> \o s
    PROVE  /\ t \in Seq(S) /\ t # <<>> /\ Len(t) = Len(s) + 1 /\ t[1] = f
           /\ Len(s) \in Nat /\ DOMAIN s = 1..Len(s) /\ DOMAIN t = 1..(Len(s) + 1)
           /\ \A i \in DOMAIN s : t[i + 1] = s[i]
           /\ \A i \in DOMAIN t : i # 1 => i - 1 \in DOMAIN s /\ t[i] = s[i - 1]
  OBVIOUS

\* A stack without frames.
LEMMA NoFrames ==
    ASSUME NEW S, NEW s \in Seq(S)
    PROVE  s = <<>> <=> Len(s) = 0
  OBVIOUS

\* The same for a return: every frame is one further up.
LEMMA Popped ==
    ASSUME NEW S, NEW s \in Seq(S), s # <<>>, NEW t, t = Tail(s)
    PROVE  /\ t \in Seq(S) /\ Len(t) = Len(s) - 1
           /\ Len(s) \in Nat /\ DOMAIN s = 1..Len(s) /\ DOMAIN t = 1..(Len(s) - 1)
           /\ Len(s) >= 1 /\ (t = <<>> <=> Len(s) = 1)
           /\ \A i \in DOMAIN t : i + 1 \in DOMAIN s /\ t[i] = s[i + 1]
<1>1. /\ t \in Seq(S) /\ Len(t) = Len(s) - 1 /\ Len(s) \in Nat /\ Len(s) >= 1
      /\ DOMAIN s = 1..Len(s) /\ DOMAIN t = 1..(Len(s) - 1)
  OBVIOUS
<1>2. t = <<>> <=> Len(t) = 0
  BY <1>1, NoFrames
<1>3. \A i \in DOMAIN t : i + 1 \in DOMAIN s /\ t[i] = s[i + 1]
  <2>1. \A i \in 1..(Len(s) - 1) : t[i] = s[i + 1]
    OBVIOUS
  <2> QED BY <1>1, <2>1
<1> QED BY <1>1, <1>2, <1>3

\* What a stack has, from its top.
LEMMA HasTop ==
    ASSUME NEW S, NEW s \in Seq(S), s # <<>>, NEW P
    PROVE  Has(s, P) <=> s[1].at \in P \/ Has(Tail(s), P)
<1> DEFINE t == Tail(s)
<1>1. /\ DOMAIN s = 1..Len(s) /\ DOMAIN t = 1..(Len(s) - 1) /\ Len(s) \in Nat /\ Len(s) >= 1
      /\ \A i \in DOMAIN t : i + 1 \in DOMAIN s /\ t[i] = s[i + 1]
  BY Popped
<1>2. ASSUME NEW i \in DOMAIN s, i # 1 PROVE i - 1 \in DOMAIN t /\ s[i] = t[i - 1]
  <2>1. i - 1 \in DOMAIN t /\ (i - 1) + 1 = i
    BY <1>1, <1>2
  <2>2. t[i - 1] = s[(i - 1) + 1]
    BY <1>1, <2>1
  <2> QED BY <2>1, <2>2
<1>3. ASSUME Has(s, P) PROVE s[1].at \in P \/ Has(t, P)
  BY <1>2, <1>3 DEF Has
<1>4. ASSUME Has(t, P) PROVE Has(s, P)
  <2>1. PICK i \in DOMAIN t : t[i].at \in P
    BY <1>4 DEF Has
  <2>2. i + 1 \in DOMAIN s /\ s[i + 1].at \in P
    BY <1>1, <2>1
  <2> QED BY <2>2 DEF Has
<1>5. 1 \in DOMAIN s
  BY <1>1
<1> QED BY <1>3, <1>4, <1>5 DEF Has

\* What a stack has after a call.
LEMMA HasPushed ==
    ASSUME NEW S, NEW s \in Seq(S), NEW f \in S, NEW P
    PROVE  Has(<<f>> \o s, P) <=> f.at \in P \/ Has(s, P)
<1> DEFINE t == <<f>> \o s
<1>1. /\ t[1] = f /\ DOMAIN s = 1..Len(s) /\ DOMAIN t = 1..(Len(s) + 1) /\ Len(s) \in Nat
      /\ \A i \in DOMAIN s : t[i + 1] = s[i]
      /\ \A i \in DOMAIN t : i # 1 => i - 1 \in DOMAIN s /\ t[i] = s[i - 1]
  BY Pushed
<1>2. ASSUME Has(t, P) PROVE f.at \in P \/ Has(s, P)
  BY <1>1, <1>2 DEF Has
<1>3. ASSUME Has(s, P) PROVE Has(t, P)
  <2>1. PICK i \in DOMAIN s : s[i].at \in P
    BY <1>3 DEF Has
  <2>2. i + 1 \in DOMAIN t /\ t[i + 1].at \in P
    BY <1>1, <2>1
  <2> QED BY <2>2 DEF Has
<1>4. 1 \in DOMAIN t
  BY <1>1
<1> QED BY <1>1, <1>2, <1>3, <1>4 DEF Has

\* A frame below is linked to that above; without the top the stack is a stack.
LEMMA ChainPop ==
    ASSUME NEW S, NEW s \in Seq(S), s # <<>>, Chained(s)
    PROVE  /\ Chained(Tail(s))
           /\ Allowed(s[1])
           /\ Tail(s) = <<>> <=> s[1].at = "user"
           /\ Tail(s) # <<>> => Link(s[1], Tail(s)[1])
<1> DEFINE t == Tail(s)
<1>1. /\ t \in Seq(S) /\ Len(t) = Len(s) - 1
      /\ DOMAIN s = 1..Len(s) /\ DOMAIN t = 1..(Len(s) - 1) /\ Len(s) \in Nat /\ Len(s) >= 1
      /\ \A i \in DOMAIN t : i + 1 \in DOMAIN s /\ t[i] = s[i + 1]
  BY Popped
<1>8. t = <<>> <=> Len(s) = 1
  <2>1. t = <<>> <=> Len(t) = 0
    BY <1>1, NoFrames
  <2> QED BY <1>1, <2>1
<1>2. \A i \in DOMAIN t : i \in Nat /\ i + 1 \in Nat
  BY <1>1
<1>3. ASSUME NEW i \in DOMAIN t, i + 1 \in DOMAIN t PROVE Link(t[i], t[i + 1])
  BY <1>1, <1>3 DEF Chained
<1>4. ASSUME NEW i \in DOMAIN t PROVE (i = Len(t) <=> t[i].at = "user") /\ Allowed(t[i])
  <2>1. i + 1 \in DOMAIN s /\ t[i] = s[i + 1] /\ (i = Len(t) <=> i + 1 = Len(s))
    BY <1>1
  <2> QED BY <2>1 DEF Chained
<1>5. 1 \in DOMAIN s
  BY <1>1
<1>6. t = <<>> <=> s[1].at = "user"
  BY <1>1, <1>5, <1>8 DEF Chained
<1>7. t # <<>> => Link(s[1], t[1])
  <2>1. t # <<>> => 1 \in DOMAIN t /\ 1 + 1 \in DOMAIN s /\ t[1] = s[1 + 1]
    BY <1>1, <1>8
  <2> QED BY <1>5, <2>1 DEF Chained
<1> QED BY <1>3, <1>4, <1>5, <1>6, <1>7 DEF Chained

\* A call.
LEMMA ChainPush ==
    ASSUME NEW S, NEW s \in Seq(S), NEW f \in S, s # <<>>, Chained(s),
           f.at # "user", Allowed(f), Link(f, s[1])
    PROVE  Chained(<<f>> \o s)
<1> DEFINE t == <<f>> \o s
<1>1. /\ t[1] = f /\ DOMAIN s = 1..Len(s) /\ DOMAIN t = 1..(Len(s) + 1) /\ Len(s) \in Nat
      /\ Len(t) = Len(s) + 1
      /\ \A i \in DOMAIN s : t[i + 1] = s[i]
      /\ \A i \in DOMAIN t : i # 1 => i - 1 \in DOMAIN s /\ t[i] = s[i - 1]
  BY Pushed
<1>2. Len(s) >= 1
  BY <1>1, NoFrames
<1>3. ASSUME NEW i \in DOMAIN t, i + 1 \in DOMAIN t PROVE Link(t[i], t[i + 1])
  <2>1. CASE i = 1
    <3>1. t[i + 1] = s[1]
      BY <1>1, <1>2, <2>1
    <3> QED BY <1>1, <2>1, <3>1
  <2>2. CASE i # 1
    <3>1. /\ i - 1 \in DOMAIN s /\ (i - 1) + 1 \in DOMAIN s /\ t[i] = s[i - 1]
          /\ t[i + 1] = s[(i - 1) + 1]
      BY <1>1, <1>3, <2>2
    <3> QED BY <3>1 DEF Chained
  <2> QED BY <2>1, <2>2
<1>4. ASSUME NEW i \in DOMAIN t PROVE (i = Len(t) <=> t[i].at = "user") /\ Allowed(t[i])
  <2>1. CASE i = 1
    BY <1>1, <1>2, <2>1
  <2>2. CASE i # 1
    <3>1. i - 1 \in DOMAIN s /\ t[i] = s[i - 1] /\ (i = Len(t) <=> i - 1 = Len(s))
      BY <1>1, <2>2
    <3> QED BY <3>1 DEF Chained
  <2> QED BY <2>1, <2>2
<1> QED BY <1>3, <1>4 DEF Chained

\* One processing frame, or a call of something else.
LEMMA OnceTop ==
    ASSUME NEW S, NEW s \in Seq(S), s # <<>>, Once(s)
    PROVE  Once(Tail(s)) /\ (s[1].at \in Processes => ~Has(Tail(s), Processes))
<1> DEFINE t == Tail(s)
<1>1. /\ DOMAIN s = 1..Len(s) /\ DOMAIN t = 1..(Len(s) - 1) /\ Len(s) \in Nat /\ Len(s) >= 1
      /\ \A i \in DOMAIN t : i + 1 \in DOMAIN s /\ t[i] = s[i + 1]
  BY Popped
<1>2. 1 \in DOMAIN s /\ \A i \in DOMAIN t : i \in Nat /\ i + 1 # 1
  BY <1>1
<1>3. ASSUME NEW i \in DOMAIN t, NEW j \in DOMAIN t, t[i].at \in Processes, t[j].at \in Processes
      PROVE  i = j
  <2>1. i + 1 = j + 1
    BY <1>1, <1>3 DEF Once
  <2> QED BY <1>2, <2>1
<1>4. ASSUME s[1].at \in Processes, NEW i \in DOMAIN t, t[i].at \in Processes PROVE FALSE
  BY <1>1, <1>2, <1>4 DEF Once
<1> QED BY <1>3, <1>4 DEF Once, Has

\* A call keeps that one frame processes.
LEMMA OncePushed ==
    ASSUME NEW S, NEW s \in Seq(S), NEW f \in S, Once(s),
           f.at \in Processes => ~Has(s, Processes)
    PROVE  Once(<<f>> \o s)
<1> DEFINE t == <<f>> \o s
<1>1. /\ t[1] = f /\ DOMAIN s = 1..Len(s) /\ DOMAIN t = 1..(Len(s) + 1) /\ Len(s) \in Nat
      /\ \A i \in DOMAIN t : i # 1 => i - 1 \in DOMAIN s /\ t[i] = s[i - 1]
  BY Pushed
<1>2. \A i \in DOMAIN t : i \in Nat
  BY <1>1
<1>3. ASSUME NEW i \in DOMAIN t, NEW j \in DOMAIN t, t[i].at \in Processes, t[j].at \in Processes
      PROVE  i = j
  <2>1. CASE i = 1 \/ j = 1
    BY <1>1, <1>3, <2>1 DEF Has
  <2>2. CASE i # 1 /\ j # 1
    <3>1. i - 1 = j - 1
      BY <1>1, <1>3, <2>2 DEF Once
    <3> QED BY <1>2, <3>1
  <2> QED BY <2>1, <2>2
<1> QED BY <1>3 DEF Once

\* A frame that moves on.
LEMMA ChainReplace ==
    ASSUME NEW S, NEW s \in Seq(S), NEW f \in S, s # <<>>, Chained(s),
           s[1].at # "user", f.at # "user", Allowed(f), Link(f, Tail(s)[1])
    PROVE  Chained(<<f>> \o Tail(s))
<1>1. Chained(Tail(s)) /\ Tail(s) # <<>>
  BY ChainPop
<1>2. Tail(s) \in Seq(S)
  OBVIOUS
<1> QED BY <1>1, <1>2, ChainPush

\* Without the calls above and below it, a frame waits with the guard up only in the
\* places that Depth names.
LEMMA NotDeep ==
    ASSUME NEW S, NEW s \in Seq(S), s # <<>>, Chained(s), Depth(s),
           s[1].at \notin {"find", "alloc", "guard"},
           s[1].at \in Waiting => s[1].addr \notin {QLock, Heap}
    PROVE  ~Has(s, Guarded)
<1>1. ~InYield(s) /\ ~LockTaken(s)
  BY DEF InYield, LockTaken, Guarded
<1>2. ~InLock(s)
  <2> SUFFICES ASSUME InLock(s) PROVE FALSE
    OBVIOUS
  <2>1. s[1].at \in Waiting /\ Tail(s) # <<>> /\ Tail(s)[1].at \in {"find", "alloc"}
    BY DEF InLock, LockTaken, Guarded
  <2>2. Link(s[1], Tail(s)[1])
    BY <2>1, ChainPop
  <2>3. s[1].addr \in {QLock, Heap}
    BY <2>1, <2>2 DEF Link, WaitsFor
  <2> QED BY <2>1, <2>3
<1> QED BY <1>1, <1>2 DEF Depth

\* Where the top of the stack is one of these frames, and a wait moves on.
LEMMA DepthKept ==
    ASSUME NEW s, NEW t, s # <<>>, t # <<>>, Tail(t) = Tail(s),
           s[1].at \in Waiting, t[1].at \in Waiting, Depth(s),
           Has(s, Guarded) <=> Has(t, Guarded)
    PROVE  Depth(t)
<1>1. s[1].at \notin Guarded /\ s[1].at # "guard"
  BY DEF Waiting, Guarded
<1> QED BY <1>1 DEF Depth, LockTaken, InLock, InYield

\* What may be below depends on the program and on self->cancel, which nobody resets.
LEMMA LinkKept ==
    ASSUME NEW s, Chained(s), UNCHANGED program, cancel => cancel', stack' = s
    PROVE  Chained(stack)'
<1>1. \A a, b : Link(a, b) => Link(a, b)'
  BY DEF Link, WaitsFor
<1>2. \A a : Allowed(a) => Allowed(a)'
  BY DEF Allowed
<1> QED BY <1>1, <1>2 DEF Chained

\* The other parts of ShapeInv after a step.
LEMMA ShapeFrom ==
    ASSUME NEW s, stack' = s, UNCHANGED program, cancel => cancel',
           Chained(s), Depth(s), Once(s), Has(s, Guarded) => inUse',
           s # <<>> => /\ inUse' => Has(s, Guarded \union {"loop", "unguard", "send"})
                       /\ processing' <=> Has(s, Processes)
    PROVE  ShapeInv'
<1>1. Chained(stack)'
  BY LinkKept
<1>2. Depth(stack)' /\ Once(stack)'
  BY DEF Depth, LockTaken, InLock, InYield, Once, Has
<1> QED BY <1>1, <1>2 DEF ShapeInv, Has

\* The stack as the invariant has it, seen from the top.
LEMMA TopFrame ==
    ASSUME TypeOK, ShapeInv, stack # <<>>
    PROVE  /\ stack \in Seq(Frames) /\ Top \in Frames /\ Top = stack[1] /\ Allowed(Top)
           /\ Tail(stack) \in Seq(Frames)
           /\ Tail(stack) = <<>> <=> Top.at = "user"
           /\ Tail(stack) # <<>> => /\ Link(Top, Tail(stack)[1]) /\ Tail(stack)[1] \in Frames
                                    /\ Allowed(Tail(stack)[1])
           /\ \A P : Has(stack, P) <=> Top.at \in P \/ Has(Tail(stack), P)
           /\ Chained(Tail(stack)) /\ Once(Tail(stack)) /\ Depth(Tail(stack))
           /\ Top.at \in Processes => ~Has(Tail(stack), Processes)
<1>1. stack \in Seq(Frames)
  BY DEF TypeOK
<1>2. Top \in Frames /\ Top = stack[1] /\ Tail(stack) \in Seq(Frames)
  BY <1>1 DEF Top
<1>3. \A P : Has(stack, P) <=> Top.at \in P \/ Has(Tail(stack), P)
  BY <1>1, <1>2, HasTop
<1>4. /\ Chained(Tail(stack)) /\ Allowed(Top)
      /\ Tail(stack) = <<>> <=> Top.at = "user"
      /\ Tail(stack) # <<>> => Link(Top, Tail(stack)[1])
  BY <1>1, <1>2, ChainPop DEF ShapeInv
<1>5. Once(Tail(stack)) /\ (Top.at \in Processes => ~Has(Tail(stack), Processes))
  BY <1>1, <1>2, OnceTop DEF ShapeInv
<1>6. Depth(Tail(stack))
  BY <1>2, <1>3 DEF ShapeInv, Depth, LockTaken, InLock, InYield, Guarded
<1>7. Tail(stack) # <<>> => Tail(stack)[1] \in Frames /\ Allowed(Tail(stack)[1])
  <2>1. Tail(stack) # <<>> => Allowed(Tail(stack)[1])
    BY <1>2, <1>4, ChainPop
  <2> QED BY <1>2, <2>1
<1> QED BY <1>1, <1>2, <1>3, <1>4, <1>5, <1>6, <1>7

\* The stack after a change of its top.
LEMMA AfterReplace ==
    ASSUME TypeOK, ShapeInv, stack # <<>>, NEW f \in Frames, stack' = <<f>> \o Tail(stack)
    PROVE  /\ stack' \in Seq(Frames) /\ stack' # <<>> /\ stack'[1] = f
           /\ Tail(stack') = Tail(stack)
           /\ \A P : Has(stack', P) <=> f.at \in P \/ Has(Tail(stack), P)
<1>1. Tail(stack) \in Seq(Frames)
  BY TopFrame
<1>2. \A P : Has(stack', P) <=> f.at \in P \/ Has(Tail(stack), P)
  BY <1>1, HasPushed
<1> QED BY <1>1, <1>2

\* The stack after a call.
LEMMA AfterCall ==
    ASSUME TypeOK, NEW f \in Frames, stack' = <<f>> \o stack
    PROVE  /\ stack' \in Seq(Frames) /\ stack' # <<>> /\ stack'[1] = f
           /\ Tail(stack') = stack
           /\ \A P : Has(stack', P) <=> f.at \in P \/ Has(stack, P)
<1>1. stack \in Seq(Frames)
  BY DEF TypeOK
<1>2. \A P : Has(stack', P) <=> f.at \in P \/ Has(stack, P)
  BY <1>1, HasPushed
<1> QED BY <1>1, <1>2

\* Two calls are a call after a call.
LEMMA TwoCalls ==
    ASSUME NEW S, NEW s \in Seq(S), NEW f \in S, NEW g \in S
    PROVE  <<f, g>> \o s = <<f>> \o (<<g>> \o s)
<1> DEFINE a == <<f, g>> \o s
           b == <<f>> \o (<<g>> \o s)
<1>1. /\ <<f, g>> \in Seq(S) /\ <<f>> \in Seq(S) /\ <<g>> \in Seq(S)
      /\ Len(<<f, g>>) = 2 /\ Len(<<f>>) = 1 /\ Len(<<g>>) = 1
      /\ <<g>> \o s \in Seq(S) /\ Len(<<g>> \o s) = 1 + Len(s) /\ Len(s) \in Nat
  OBVIOUS
<1>2. a \in Seq(S) /\ b \in Seq(S) /\ Len(a) = Len(s) + 2 /\ Len(b) = Len(s) + 2
  BY <1>1
<1>3. ASSUME NEW i \in 1..Len(a) PROVE a[i] = b[i]
  BY <1>1, <1>2
<1> QED BY <1>2, <1>3, SeqEqual

\* The stack after a call by a frame that moves on, or of two frames at once.
LEMMA AfterCallThen ==
    ASSUME NEW s \in Seq(Frames), NEW f \in Frames, NEW g \in Frames,
           stack' = <<f, g>> \o s
    PROVE  /\ stack' \in Seq(Frames) /\ stack' # <<>> /\ stack'[1] = f
           /\ stack' = <<f>> \o (<<g>> \o s)
           /\ Tail(stack') = <<g>> \o s /\ <<g>> \o s \in Seq(Frames)
           /\ (<<g>> \o s)[1] = g /\ <<g>> \o s # <<>> /\ Tail(<<g>> \o s) = s
           /\ \A P : Has(<<g>> \o s, P) <=> g.at \in P \/ Has(s, P)
           /\ \A P : Has(stack', P) <=> f.at \in P \/ g.at \in P \/ Has(s, P)
<1>1. <<g>> \o s \in Seq(Frames) /\ (<<g>> \o s)[1] = g /\ <<g>> \o s # <<>>
      /\ Tail(<<g>> \o s) = s
  OBVIOUS
<1>2. stack' = <<f>> \o (<<g>> \o s)
  BY TwoCalls
<1>3. \A P : Has(<<g>> \o s, P) <=> g.at \in P \/ Has(s, P)
  BY HasPushed
<1>4. \A P : Has(<<f>> \o (<<g>> \o s), P) <=> f.at \in P \/ Has(<<g>> \o s, P)
  BY <1>1, HasPushed
<1>5. stack' \in Seq(Frames) /\ stack' # <<>> /\ stack'[1] = f /\ Tail(stack') = <<g>> \o s
  BY <1>1, <1>2
<1> QED BY <1>1, <1>2, <1>3, <1>4, <1>5

\* A wait goes from one place to the next: the shape of the stack stays.
LEMMA WaitMoves ==
    ASSUME TypeOK, ShapeInv, stack # <<>>, Top.at \in Waiting,
           NEW at \in Waiting \ {"testcancel"}, Goto(at),
           UNCHANGED <<program, inUse, processing>>, cancel => cancel'
    PROVE  /\ ShapeInv'
           /\ stack' \in Seq(Frames) /\ stack' # <<>>
           /\ stack'[1].at = at /\ stack'[1].addr = Top.addr /\ stack'[1].mode = Top.mode
           /\ \A P : P \cap Waiting = {} => (Has(stack', P) <=> Has(stack, P))
<1> DEFINE f == [Top EXCEPT !.at = at]
<1>1. f \in Frames /\ f.at = at /\ f.addr = Top.addr /\ f.mode = Top.mode
  <2>1. Top \in Frames /\ at \in Waiting
    BY TopFrame
  <2> QED BY <2>1, MovedFrame
<1>2. stack' = <<f>> \o Tail(stack)
  BY DEF Goto
<1>3. /\ stack' \in Seq(Frames) /\ stack' # <<>> /\ stack'[1] = f
      /\ Tail(stack') = Tail(stack)
      /\ \A P : Has(stack', P) <=> f.at \in P \/ Has(Tail(stack), P)
  BY <1>1, <1>2, AfterReplace
<1>4. \A P : P \cap Waiting = {} => (Has(stack', P) <=> Has(stack, P))
  BY <1>1, <1>3, TopFrame
<1>5. /\ Has(stack', Guarded) <=> Has(stack, Guarded)
      /\ Has(stack', Processes) <=> Has(stack, Processes)
      /\ Has(stack', Guarded \union {"loop", "unguard", "send"})
            <=> Has(stack, Guarded \union {"loop", "unguard", "send"})
  BY <1>4 DEF Guarded, Processes, Waiting
<1>6. Top.at # "user" /\ f.at # "user" /\ Tail(stack) # <<>>
  BY <1>1, TopFrame DEF Waiting
<1>7. Allowed(f) /\ Link(f, Tail(stack)[1])
  <2>1. Link(Top, Tail(stack)[1]) /\ Allowed(Top)
    BY <1>6, TopFrame
  <2> QED BY <1>1, <2>1 DEF Allowed, Link, WaitsFor, Waiting, Processes
<1>8. Chained(<<f>> \o Tail(stack))
  BY <1>1, <1>6, <1>7, TopFrame, ChainReplace DEF ShapeInv
<1>9. Depth(<<f>> \o Tail(stack))
  <2>1. stack[1].at \in Waiting /\ stack'[1].at \in Waiting
    BY <1>1, <1>3, TopFrame
  <2>2. Depth(stack')
    BY <1>3, <1>5, <2>1, DepthKept DEF ShapeInv
  <2> QED BY <1>2, <2>2
<1>10. Once(<<f>> \o Tail(stack))
  BY <1>1, TopFrame, OncePushed DEF Processes, Waiting
<1>11. ShapeInv'
  BY <1>2, <1>3, <1>5, <1>8, <1>9, <1>10, ShapeFrom DEF ShapeInv
<1> QED BY <1>1, <1>3, <1>4, <1>11

\* A frame returns that leaves no guard up.
LEMMA Returns ==
    ASSUME TypeOK, ShapeInv, stack # <<>>, Top.at # "user", Return,
           UNCHANGED program, cancel => cancel',
           inUse' => inUse, inUse => inUse' \/ Top.at \in {"unguard", "send"},
           inUse' => Top.at \notin Guarded \union {"loop", "unguard", "send"},
           processing' <=> processing /\ Top.at \notin Processes
    PROVE  /\ ShapeInv'
           /\ stack' \in Seq(Frames) /\ stack' # <<>> /\ stack' = Tail(stack)
           /\ \A P : Has(stack, P) <=> Top.at \in P \/ Has(stack', P)
<1>1. stack' = Tail(stack) /\ stack' \in Seq(Frames) /\ stack' # <<>>
  BY TopFrame DEF Return
<1>2. \A P : Has(stack, P) <=> Top.at \in P \/ Has(Tail(stack), P)
  BY TopFrame
<1>3. Chained(Tail(stack)) /\ Once(Tail(stack)) /\ Depth(Tail(stack))
  BY TopFrame
<1>4. Has(Tail(stack), Guarded) => inUse'
  <2>1. Top.at \in {"unguard", "send"} => ~Has(stack, Guarded)
    BY TopFrame, NotDeep DEF ShapeInv, Waiting
  <2> QED BY <1>2, <2>1 DEF ShapeInv
<1>5. inUse' => Has(Tail(stack), Guarded \union {"loop", "unguard", "send"})
  BY <1>2 DEF ShapeInv
<1>6. processing' <=> Has(Tail(stack), Processes)
  BY <1>2, TopFrame DEF ShapeInv
<1>7. ShapeInv'
  BY <1>1, <1>3, <1>4, <1>5, <1>6, ShapeFrom
<1> QED BY <1>1, <1>2, <1>7

-----------------------------------------------------------------------------
(***************************************************************************)
(* Each step of a wait keeps the invariant                                 *)
(***************************************************************************)
\* The thread leaves: pthread_exit, or the unwinding to the event loop.
LEMMA Leaves ==
    ASSUME NotifyInv, stack' = <<>>, end' \in {"exited", "crash"},
           UNCHANGED <<program, waitAddr, open, cancel, crashed, work, posts, inUse,
                       processing, pc>>
    PROVE  NotifyInv'
<1>1. TypeOK'
  BY DEF NotifyInv, TypeOK
<1>2. ShapeInv'
  <2>1. ~Has(stack, Guarded)' /\ Depth(stack)'
    BY DEF Has, Depth
  <2> QED BY <2>1 DEF ShapeInv, Chained, Once
<1>3. HoldInv' /\ BitInv' /\ CancelInv' /\ CrashInv' /\ WorkInv'
  BY DEF NotifyInv, HoldInv, BitInv, CancelInv, CrashInv, WorkInv, At
<1> QED BY <1>1, <1>2, <1>3 DEF NotifyInv

\* In a wait, and where it has looked at self->cancel.
Uncancelled == {"check", "publish", "sleep", "asleep", "yield"}

\* A wait goes on, by itself or because it is woken.
LEMMA WaitGoesOn ==
    ASSUME NotifyInv, stack # <<>>, Top.at \in Waiting,
           NEW at \in Waiting \ {"testcancel"}, Goto(at), Top.at # "publish" \/ at # "sleep",
           UNCHANGED <<program, waitAddr, open, cancel, crashed, posts, inUse, processing,
                       end>>,
           work' = work, TypeOK',
           Held \subseteq Held',
           Alerted => Alerted', Posted => Posted',
           at \in {"sleep", "asleep"} => Top.at \in {"sleep", "asleep"} /\ UNCHANGED pc,
           at \in Uncancelled =>
               (Top.at \in Uncancelled \/ ~cancel \/ Top.mode = "disable" \/ program.isMain),
           at \notin {"cancel", "yield"} =>
               (Top.at \notin {"cancel", "yield"} \/ ~program.isMain),
           Top.at = "testcancel" => (~cancel \/ Top.mode = "disable")
    PROVE  NotifyInv'
<1> USE DEF NotifyInv
<1>1. /\ ShapeInv' /\ stack' # <<>>
      /\ stack'[1].at = at /\ stack'[1].addr = Top.addr /\ stack'[1].mode = Top.mode
      /\ \A P : P \cap Waiting = {} => (Has(stack', P) <=> Has(stack, P))
  BY WaitMoves
<1>2. /\ Has(stack', {"alloc"}) <=> Has(stack, {"alloc"})
      /\ Has(stack', {"find"}) <=> Has(stack, {"find"})
  BY <1>1 DEF Waiting
<1>3. HoldInv'
  <2> SUFFICES ASSUME NEW l \in Locks, l \notin open PROVE SelfHolds(l)' \/ l \in Held'
    BY DEF HoldInv
  <2>1. SelfHolds(l) \/ l \in Held
    BY DEF HoldInv
  <2>2. SelfHolds(l) => l = QLock /\ Has(stack, {"alloc"})
    BY DEF SelfHolds, At, Top, Waiting
  <2>3. l = QLock /\ Has(stack, {"alloc"}) => SelfHolds(l)'
    BY <1>2 DEF SelfHolds, Has
  <2> QED BY <2>1, <2>2, <2>3
<1>4. BitInv'
  BY <1>1 DEF BitInv, At, Top, Spins
<1>5. CancelInv'
  BY <1>1 DEF CancelInv, Top, Uncancelled
<1>6. CrashInv'
  BY <1>1 DEF CrashInv, Top
<1>7. WorkInv'
  <2> SUFFICES ASSUME WorkInv!1' PROVE WorkInv!2'
    BY DEF WorkInv
  <2>1. \/ Posted \/ processing \/ Has(stack, {"find"}) \/ Top.at \in {"cancel", "yield"}
    BY DEF WorkInv, Waiting
  <2>2. Top.at \in {"cancel", "yield"} => stack'[1].at \in {"cancel", "yield"}
    BY <1>1
  <2>3. Has(stack, {"find"}) => Has(stack, {"find"})'
    BY <1>2 DEF Has
  <2> QED BY <1>1, <2>1, <2>2, <2>3 DEF Top
<1> QED BY <1>1, <1>3, <1>4, <1>5, <1>6, <1>7

\* TypeOK where only the stack changes.
LEMMA StackTyped ==
    ASSUME TypeOK, stack' \in Seq(Frames), UNCHANGED <<program, waitAddr, cancel, crashed,
           posts, end, pc>>, open' \subseteq Words, work' \in Nat, inUse' \in BOOLEAN,
           processing' \in BOOLEAN
    PROVE  TypeOK'
  BY DEF TypeOK

\* A wait goes on by itself.
LEMMA WaitStep ==
    ASSUME NotifyInv, NEW at \in Waiting \ {"testcancel"}, stack # <<>>, Top.at \in Waiting,
           Goto(at), Top.at # "publish" \/ at # "sleep",
           UNCHANGED <<program, waitAddr, open, cancel, crashed, work, posts, inUse,
                       processing, end, pc>>,
           at \in {"sleep", "asleep"} => Top.at \in {"sleep", "asleep"},
           at \in Uncancelled =>
               (Top.at \in Uncancelled \/ ~cancel \/ Top.mode = "disable" \/ program.isMain),
           at \notin {"cancel", "yield"} =>
               (Top.at \notin {"cancel", "yield"} \/ ~program.isMain),
           Top.at = "testcancel" => (~cancel \/ Top.mode = "disable")
    PROVE  NotifyInv'
<1>1. stack' \in Seq(Frames)
  BY WaitMoves DEF NotifyInv
<1>2. TypeOK'
  BY <1>1, StackTyped DEF NotifyInv, TypeOK
<1>3. Held \subseteq Held' /\ (Alerted => Alerted') /\ (Posted => Posted')
  BY DEF Held, Alerted, Posted, Posts
<1>4. /\ UNCHANGED <<program, waitAddr, open, cancel, crashed, posts, inUse, processing, end>>
      /\ work' = work
      /\ at \in {"sleep", "asleep"} => Top.at \in {"sleep", "asleep"} /\ UNCHANGED pc
  OBVIOUS
<1> QED BY <1>2, <1>3, <1>4, WaitGoesOn

\* pthread_testcancel
LEMMA TestCancelKeeps == NotifyInv /\ TestCancel /\ UNCHANGED program => NotifyInv'
<1> SUFFICES ASSUME NotifyInv, TestCancel, UNCHANGED program PROVE NotifyInv'
  OBVIOUS
<1>1. stack # <<>> /\ Top.at = "testcancel"
  BY DEF TestCancel, At, Top
<1>2. CASE cancel /\ Top.mode # "disable"
  BY <1>2, Leaves DEF TestCancel
<1>3. CASE ~(cancel /\ Top.mode # "disable")
  <2>1. Goto("check") /\ UNCHANGED end
    BY <1>3 DEF TestCancel
  <2> QED BY <1>1, <1>3, <2>1, WaitStep DEF TestCancel, Waiting, Uncancelled
<1> QED BY <1>2, <1>3

\* The compare-and-swap that publishes the address: no notification is on it.
LEMMA PublishKeeps == NotifyInv /\ Publish /\ UNCHANGED program => NotifyInv'
<1> SUFFICES ASSUME NotifyInv, Publish, UNCHANGED program PROVE NotifyInv'
  OBVIOUS
<1>1. stack # <<>> /\ Top.at = "publish"
  BY DEF Publish, At, Top
<1>2. CASE waitAddr = Bit(NoAddr, FALSE)
  <2> USE DEF NotifyInv
  <2>1. /\ waitAddr' = Bit(Top.addr, FALSE) /\ Goto("sleep")
        /\ UNCHANGED <<open, cancel, crashed, work, posts, inUse, processing, end, pc>>
    BY <1>2 DEF Publish
  <2>2. /\ ShapeInv' /\ stack' # <<>> /\ stack' \in Seq(Frames)
        /\ stack'[1].at = "sleep" /\ stack'[1].addr = Top.addr
        /\ stack'[1].mode = Top.mode
        /\ \A P : P \cap Waiting = {} => (Has(stack', P) <=> Has(stack, P))
    BY <1>1, <2>1, WaitMoves DEF Waiting
  <2>3. /\ Has(stack', {"alloc"}) <=> Has(stack, {"alloc"})
        /\ Has(stack', {"find"}) <=> Has(stack, {"find"})
    BY <2>2 DEF Waiting
  <2>4. ~waitAddr.notified /\ ~waitAddr'.notified /\ waitAddr'.addr = Top.addr
    BY <1>2, <2>1 DEF Bit
  <2>5. TypeOK'
    <3>1. Top.addr \in Words
      BY <1>1, TopFrame, FrameKinds DEF Waiting
    <3>2. waitAddr' \in [addr : Words \union {NoAddr}, notified : BOOLEAN]
      BY <2>1, <3>1 DEF Bit
    <3> QED BY <2>1, <2>2, <3>2 DEF TypeOK
  <2>6. HoldInv'
    <3> SUFFICES ASSUME NEW l \in Locks, l \notin open PROVE SelfHolds(l)' \/ l \in Held'
      BY <2>1 DEF HoldInv
    <3>1. SelfHolds(l) \/ l \in Held
      BY <1>1 DEF HoldInv
    <3>2. SelfHolds(l) => l = QLock /\ Has(stack, {"alloc"})
      BY <1>1 DEF SelfHolds, At, Top
    <3>3. l = QLock /\ Has(stack, {"alloc"}) => SelfHolds(l)'
      BY <2>3 DEF SelfHolds, Has
    <3>4. l \in Held => l \in Held'
      BY <2>1 DEF Held
    <3> QED BY <3>1, <3>2, <3>3, <3>4
  <2>7. BitInv'
    BY <2>2, <2>4 DEF BitInv, At, Top
  <2>8. Alerted => Alerted'
    BY <2>1, <2>4 DEF Alerted
  <2>9. Posted => Posted'
    BY <2>1, <2>4 DEF Posted, Posts
  <2>10. CancelInv' /\ CrashInv'
    BY <1>1, <2>1, <2>2, <2>8 DEF CancelInv, CrashInv, Top
  <2>11. WorkInv'
    <3>1. Has(stack, {"find"}) => Has(stack, {"find"})'
      BY <2>3 DEF Has
    <3> QED BY <1>1, <2>1, <2>9, <3>1 DEF WorkInv, Top
  <2> QED BY <2>2, <2>5, <2>6, <2>7, <2>10, <2>11
<1>3. CASE waitAddr # Bit(NoAddr, FALSE)
  <2>1. Goto("clear") /\ UNCHANGED waitAddr
    BY <1>3 DEF Publish
  <2> QED BY <1>1, <2>1, WaitStep DEF Publish, Waiting, Uncancelled
<1> QED BY <1>2, <1>3

\* memory.atomic.wait32
LEMMA SleepKeeps == NotifyInv /\ Sleep /\ UNCHANGED program => NotifyInv'
<1> SUFFICES ASSUME NotifyInv, Sleep, UNCHANGED program PROVE NotifyInv'
  OBVIOUS
<1>1. stack # <<>> /\ Top.at = "sleep"
  BY DEF Sleep, At, Top
<1>2. CASE Top.addr \in open
  <2>1. Goto("clear")
    BY <1>2 DEF Sleep
  <2> QED BY <1>1, <2>1, WaitStep DEF Sleep, Waiting, Uncancelled
<1>3. CASE Top.addr \notin open
  <2>1. Goto("asleep")
    BY <1>3 DEF Sleep
  <2> QED BY <1>1, <2>1, WaitStep DEF Sleep, Waiting, Uncancelled
<1> QED BY <1>2, <1>3

\* The end of a wait takes the notification away: now the thread will look.
LEMMA ClearKeeps == NotifyInv /\ Clear /\ UNCHANGED program => NotifyInv'
<1> SUFFICES ASSUME NotifyInv, Clear, UNCHANGED program PROVE NotifyInv'
  OBVIOUS
<1> USE DEF NotifyInv
<1>1. stack # <<>> /\ Top.at = "clear"
  BY DEF Clear, At, Top
<1>2. /\ waitAddr' = Bit(NoAddr, FALSE) /\ Goto("cancel")
      /\ UNCHANGED <<open, cancel, crashed, work, posts, inUse, processing, end, pc>>
  BY DEF Clear
<1>3. /\ ShapeInv' /\ stack' # <<>> /\ stack' \in Seq(Frames)
      /\ stack'[1].at = "cancel"
      /\ \A P : P \cap Waiting = {} => (Has(stack', P) <=> Has(stack, P))
  BY <1>1, <1>2, WaitMoves DEF Waiting
<1>4. Has(stack', {"alloc"}) <=> Has(stack, {"alloc"})
  BY <1>3 DEF Waiting
<1>5. TypeOK'
  BY <1>2, <1>3 DEF TypeOK, Bit
<1>6. HoldInv'
  <2> SUFFICES ASSUME NEW l \in Locks, l \notin open PROVE SelfHolds(l)' \/ l \in Held'
    BY <1>2 DEF HoldInv
  <2>1. SelfHolds(l) \/ l \in Held
    BY <1>1 DEF HoldInv
  <2>2. SelfHolds(l) => l = QLock /\ Has(stack, {"alloc"})
    BY <1>1 DEF SelfHolds, At, Top
  <2>3. l = QLock /\ Has(stack, {"alloc"}) => SelfHolds(l)'
    BY <1>4 DEF SelfHolds, Has
  <2>4. l \in Held => l \in Held'
    BY <1>2 DEF Held
  <2> QED BY <2>1, <2>2, <2>3, <2>4
<1>7. BitInv' /\ CancelInv' /\ CrashInv' /\ WorkInv'
  BY <1>2, <1>3 DEF BitInv, CancelInv, CrashInv, WorkInv, At, Top
<1> QED BY <1>3, <1>5, <1>6, <1>7

\* The thread knows of its work, or is about to look.
Known == processing \/ Has(stack, {"find"}) \/ Top.at \in {"cancel", "yield", "guard"}

\* What a step of the waiting thread has to be shown to do, where it neither enters
\* memory.atomic.wait32 nor changes its wait address.
LEMMA ThreadStep ==
    ASSUME NotifyInv, stack # <<>>, ShapeInv', stack' \in Seq(Frames), stack' # <<>>,
           UNCHANGED <<program, waitAddr, cancel, crashed, posts, end, pc>>,
           open' \subseteq Words, work' \in Nat, work' <= work,
           inUse' \in BOOLEAN, processing' \in BOOLEAN,
           \A l \in Locks \ open' : SelfHolds(l)' \/ l \in Held,
           stack'[1].at \notin {"sleep", "asleep"},
           stack'[1].at \in Uncancelled => (stack'[1].mode = "disable" \/ program.isMain),
           Top.at \notin {"cancel", "yield"} \/ ~crashed \/ "masked" \in program.modes,
           Known => (Known' \/ work' = 0 \/ program.allocates \/ "masked" \in program.modes)
    PROVE  NotifyInv'
<1> USE DEF NotifyInv
<1>1. TypeOK'
  BY StackTyped
<1>2. Held' = Held /\ (Alerted => Alerted') /\ (Posted => Posted')
  BY DEF Held, Alerted, Posted, Posts
<1>3. HoldInv' /\ BitInv'
  BY <1>2 DEF HoldInv, BitInv, At
<1>4. CancelInv'
  BY DEF CancelInv, Top, Uncancelled
<1>5. CrashInv'
  BY <1>2 DEF CrashInv
<1>6. WorkInv'
  <2> SUFFICES ASSUME WorkInv!1' PROVE Posted' \/ Known'
    BY DEF WorkInv, Known
  <2>1. work > 0
    <3>1. work \in Nat
      BY DEF TypeOK
    <3> QED BY <3>1
  <2>2. Posted \/ Known
    BY <2>1 DEF WorkInv, Known
  <2> QED BY <1>2, <2>2
<1> QED BY <1>1, <1>3, <1>4, <1>5, <1>6

\* Two frames at once.
LEMMA ShapeTwo ==
    ASSUME NEW t \in Seq(Frames), NEW f \in Frames, NEW g \in Frames, stack' = <<f, g>> \o t,
           Chained(<<g>> \o t), Once(<<g>> \o t), Link(f, g), Allowed(f),
           f.at # "user", f.at \notin Processes,
           \/ f.at \notin Guarded /\ g.at \notin Guarded /\ ~Has(t, Guarded)
           \/ f.at \in Waiting /\ g.at \in Guarded /\ ~Has(t, Guarded)
           \/ f.at = "guard" /\ InLock(<<g>> \o t),
           UNCHANGED program, cancel => cancel',
           g.at \in Guarded \/ Has(t, Guarded) => inUse',
           inUse' => (g.at \in Guarded \/ Has(t, Guarded \union {"loop", "unguard", "send"})),
           processing' <=> (g.at \in Processes \/ Has(t, Processes))
    PROVE  ShapeInv'
<1> DEFINE u == <<g>> \o t
<1>1. /\ stack' # <<>> /\ stack' = <<f>> \o u /\ stack' \in Seq(Frames)
      /\ u \in Seq(Frames) /\ u[1] = g /\ u # <<>> /\ Tail(u) = t
      /\ Tail(stack') = u /\ stack'[1] = f
      /\ \A P : Has(u, P) <=> g.at \in P \/ Has(t, P)
      /\ \A P : Has(stack', P) <=> f.at \in P \/ g.at \in P \/ Has(t, P)
  BY AfterCallThen
<1>2. Chained(<<f>> \o u)
  BY <1>1, ChainPush
<1>3. Once(<<f>> \o u)
  BY <1>1, OncePushed
<1>4. Depth(<<f>> \o u)
  BY <1>1 DEF Depth, InYield, InLock, LockTaken
<1>5. f.at \notin Guarded
  BY <1>1 DEF Guarded, Waiting
<1>6. Has(<<f>> \o u, Guarded) => inUse'
  BY <1>1, <1>5
<1>7. inUse' => Has(<<f>> \o u, Guarded \union {"loop", "unguard", "send"})
  BY <1>1
<1>8. processing' <=> Has(<<f>> \o u, Processes)
  BY <1>1
<1> QED BY <1>1, <1>2, <1>3, <1>4, <1>6, <1>7, <1>8, ShapeFrom

\* A frame that waits for a lock has below it the frame that will have the lock.
LEMMA Taken ==
    ASSUME TypeOK, ShapeInv, stack # <<>>, Top.at = "check", Top.addr \in Locks,
           stack' = Tail(stack), cancel => cancel', NEW l, l = Top.addr
    PROVE  SelfHolds(l)'
<1>1. stack' # <<>> /\ Link(Top, stack'[1])
  BY TopFrame
<1>2. CASE l = QLock
  BY <1>1, <1>2 DEF Link, SelfHolds, At, Waiting
<1>3. CASE l = Heap
  BY <1>1, <1>3 DEF Link, SelfHolds, At, Waiting
<1>4. CASE l = Mutex
  BY <1>1, <1>4 DEF Link, SelfHolds, At, Top, Waiting
<1> QED BY <1>2, <1>3, <1>4 DEF Locks

\* The look at the word: a lock that is free is taken.
LEMMA CheckKeeps == NotifyInv /\ Check /\ UNCHANGED program => NotifyInv'
<1> SUFFICES ASSUME NotifyInv, Check, UNCHANGED program PROVE NotifyInv'
  OBVIOUS
<1>1. stack # <<>> /\ Top.at = "check"
  BY DEF Check, At, Top
<1>2. CASE Top.addr \notin open
  <2>1. Goto("publish") /\ UNCHANGED open
    BY <1>2 DEF Check
  <2> QED BY <1>1, <2>1, WaitStep DEF Check, Waiting, Uncancelled
<1>3. CASE Top.addr \in open
  <2> USE DEF NotifyInv
  <2>1. /\ Return /\ open' = open \ ({Top.addr} \cap Locks)
        /\ UNCHANGED <<waitAddr, cancel, crashed, work, posts, inUse, processing, end, pc>>
    BY <1>3 DEF Check
  <2>2. /\ ShapeInv' /\ stack' \in Seq(Frames) /\ stack' # <<>> /\ stack' = Tail(stack)
        /\ \A P : Has(stack, P) <=> Top.at \in P \/ Has(stack', P)
    BY <1>1, <2>1, Returns DEF Guarded, Processes
  <2>3. Link(Top, stack'[1])
    BY <1>1, <2>2, TopFrame
  <2>4. ASSUME NEW l \in Locks \ open' PROVE SelfHolds(l)' \/ l \in Held
    <3>1. CASE l = Top.addr
      BY <1>1, <2>1, <2>2, <3>1, Taken
    <3>2. CASE l # Top.addr
      <4>1. SelfHolds(l) \/ l \in Held
        BY <1>1, <2>1, <3>2 DEF HoldInv
      <4>2. SelfHolds(l) => l = QLock /\ Has(stack, {"alloc"})
        BY <1>1 DEF SelfHolds, At, Top
      <4>3. Has(stack, {"alloc"}) => Has(stack', {"alloc"})
        BY <1>1, <2>2
      <4>4. l = QLock /\ Has(stack', {"alloc"}) => SelfHolds(l)'
        BY DEF SelfHolds, Has
      <4> QED BY <4>1, <4>2, <4>3, <4>4
    <3> QED BY <3>1, <3>2
  <2>5. Known => Known'
    <3>1. Has(stack, {"find"}) => Has(stack, {"find"})'
      BY <1>1, <2>2 DEF Has
    <3> QED BY <1>1, <2>1, <3>1 DEF Known
  <2>6. /\ stack'[1].at \notin {"sleep", "asleep"}
        /\ stack'[1].at \in Uncancelled => program.isMain
    BY <2>3 DEF Link, OnTop, Uncancelled
  <2>7. /\ open' \subseteq Words /\ work' \in Nat /\ work' <= work
        /\ inUse' \in BOOLEAN /\ processing' \in BOOLEAN
    BY <2>1 DEF TypeOK
  <2> QED BY <1>1, <2>1, <2>2, <2>4, <2>5, <2>6, <2>7, ThreadStep
<1> QED BY <1>2, <1>3

\* The look at self->cancel: the thread exits, or a masked one returns to its caller.
LEMMA CheckCancelKeeps == NotifyInv /\ CheckCancel /\ UNCHANGED program => NotifyInv'
<1> SUFFICES ASSUME NotifyInv, CheckCancel, UNCHANGED program PROVE NotifyInv'
  OBVIOUS
<1>1. stack # <<>> /\ Top.at = "cancel"
  BY DEF CheckCancel, At, Top
<1>2. CASE ~(cancel /\ Top.mode # "disable")
  <2>1. Goto("yield") /\ UNCHANGED end
    BY <1>2 DEF CheckCancel
  <2> QED BY <1>1, <1>2, <2>1, WaitStep DEF CheckCancel, Waiting, Uncancelled
<1>3. CASE cancel /\ Top.mode = "enable"
  BY <1>3, Leaves DEF CheckCancel, ActOnCancel
<1>4. CASE cancel /\ Top.mode \notin {"enable", "disable"}
  <2> DEFINE f == Lock(Mutex)
             g == Frame("testcancel", Top.addr, "enable")
             t == Tail(stack)
  <2> USE DEF NotifyInv
  <2>1. /\ stack' = <<f, g>> \o t
        /\ UNCHANGED <<waitAddr, open, cancel, crashed, work, posts, inUse, processing, end, pc>>
    BY <1>4 DEF CheckCancel, ActOnCancel
  <2>2. /\ Top \in Frames /\ Top.addr \in Words /\ Top.mode = "masked" /\ Allowed(Top)
        /\ t \in Seq(Frames) /\ t # <<>> /\ Link(Top, t[1])
    <3>1. /\ Top \in Frames /\ Allowed(Top) /\ t \in Seq(Frames) /\ t # <<>> /\ Link(Top, t[1])
      BY <1>1, TopFrame
    <3>2. Top \in [at : Waiting, addr : Words, mode : Mode]
      BY <1>1, <3>1, FrameKinds DEF Waiting
    <3> QED BY <1>4, <3>1, <3>2 DEF Mode
  <2>3. /\ f \in Frames /\ f.at = "check" /\ f.addr = Mutex /\ f.mode = "disable"
        /\ g \in Frames /\ g.at = "testcancel" /\ g.addr = Top.addr /\ g.mode = "enable"
    BY <2>2, NewFrames DEF Locks, Waiting, Mode
  <2>4. Link(g, t[1]) /\ Top.addr \notin {QLock, Heap}
    BY <1>1, <2>2, <2>3 DEF Link, WaitsFor, Waiting
  <2>5. Allowed(f) /\ Allowed(g) /\ Link(f, g)
    BY <1>4, <2>3, LocksApart DEF Allowed, Link, WaitsFor, Waiting, OnTop, Processes
  <2>6. Chained(<<g>> \o t)
    BY <1>1, <2>2, <2>3, <2>4, <2>5, TopFrame, ChainReplace DEF ShapeInv
  <2>7. Once(<<g>> \o t)
    BY <1>1, <2>3, TopFrame, OncePushed DEF Processes
  <2>8. ~Has(stack, Guarded)
    BY <1>1, <2>4, TopFrame, NotDeep DEF ShapeInv
  <2>9. \A P : Has(stack, P) <=> Top.at \in P \/ Has(t, P)
    BY <1>1, TopFrame
  <2>10. ShapeInv'
    <3>1. /\ f.at # "user" /\ f.at \notin Processes /\ f.at \notin Guarded /\ g.at \notin Guarded
          /\ g.at \notin Processes /\ ~Has(t, Guarded)
      BY <2>3, <2>8, <2>9 DEF Guarded, Processes
    <3>2. inUse' => Has(t, Guarded \union {"loop", "unguard", "send"})
      BY <1>1, <2>1, <2>9 DEF ShapeInv, Guarded
    <3>3. processing' <=> (g.at \in Processes \/ Has(t, Processes))
      BY <1>1, <2>1, <2>9, <3>1 DEF ShapeInv, Processes
    <3> QED BY <2>1, <2>2, <2>3, <2>5, <2>6, <2>7, <3>1, <3>2, <3>3, ShapeTwo
  <2>11. /\ stack' \in Seq(Frames) /\ stack' # <<>> /\ stack'[1] = f
         /\ \A P : Has(stack', P) <=> f.at \in P \/ g.at \in P \/ Has(t, P)
    <3> HIDE DEF f, g, t
    <3> QED BY <2>1, <2>2, <2>3, AfterCallThen
  <2>12. ASSUME NEW l \in Locks \ open' PROVE SelfHolds(l)' \/ l \in Held
    <3>1. SelfHolds(l) \/ l \in Held
      BY <1>1, <2>1 DEF HoldInv
    <3>2. SelfHolds(l) => l = QLock /\ Has(stack, {"alloc"})
      BY <1>1 DEF SelfHolds, At, Top
    <3>3. Has(stack, {"alloc"}) => Has(stack, {"alloc"})'
      BY <1>1, <2>9, <2>11 DEF Has
    <3>4. l = QLock /\ Has(stack, {"alloc"})' => SelfHolds(l)'
      BY DEF SelfHolds
    <3> QED BY <3>1, <3>2, <3>3, <3>4
  <2>13. "masked" \in program.modes
    BY <2>2 DEF Allowed
  <2>14. /\ open' \subseteq Words /\ work' \in Nat /\ work' <= work
         /\ inUse' \in BOOLEAN /\ processing' \in BOOLEAN
    BY <2>1 DEF TypeOK
  <2> QED BY <1>1, <2>1, <2>3, <2>10, <2>11, <2>12, <2>13, <2>14, ThreadStep
<1> QED BY <1>2, <1>3, <1>4

\* The yield: a pthread goes on, the main runtime thread unwinds or looks at the queue.
LEMMA YieldKeeps == NotifyInv /\ Yield /\ UNCHANGED program => NotifyInv'
<1> SUFFICES ASSUME NotifyInv, Yield, UNCHANGED program PROVE NotifyInv'
  OBVIOUS
<1>1. stack # <<>> /\ Top.at = "yield"
  BY DEF Yield, At, Top
<1>2. CASE ~program.isMain
  <2>1. Goto("check") /\ UNCHANGED end
    BY <1>2 DEF Yield
  <2> QED BY <1>1, <1>2, <2>1, WaitStep DEF Yield, Waiting, Uncancelled
<1>3. CASE program.isMain /\ crashed
  BY <1>3, Leaves DEF Yield
<1>4. CASE program.isMain /\ ~crashed
  <2> DEFINE f == Code("guard")
             g == [Top EXCEPT !.at = "check"]
             t == Tail(stack)
  <2> USE DEF NotifyInv
  <2>1. /\ stack' = <<f, g>> \o t
        /\ UNCHANGED <<waitAddr, open, cancel, crashed, work, posts, inUse, processing, end, pc>>
    BY <1>4 DEF Yield, CallThen
  <2>2. /\ Top \in Frames /\ Allowed(Top) /\ t \in Seq(Frames) /\ t # <<>> /\ Link(Top, t[1])
    BY <1>1, TopFrame
  <2>3. /\ f \in Frames /\ f.at = "guard" /\ f.mode = "enable"
        /\ g \in Frames /\ g.at = "check" /\ g.addr = Top.addr /\ g.mode = Top.mode
    <3>1. f \in Frames /\ f.at = "guard" /\ f.mode = "enable"
      BY NewFrames DEF CodePlaces
    <3>2. Top.at \in Waiting /\ "check" \in Waiting
      BY <1>1 DEF Waiting
    <3> QED BY <2>2, <3>1, <3>2, MovedFrame
  <2>4. Link(g, t[1])
    BY <1>1, <2>2, <2>3 DEF Link, WaitsFor, Waiting, Processes
  <2>5. Allowed(f) /\ Allowed(g) /\ Link(f, g)
    BY <1>1, <1>4, <2>2, <2>3 DEF Allowed, Link, Waiting, OnTop, Processes
  <2>6. Chained(<<g>> \o t)
    BY <1>1, <2>2, <2>3, <2>4, <2>5, TopFrame, ChainReplace DEF ShapeInv
  <2>7. Once(<<g>> \o t)
    BY <1>1, <2>3, TopFrame, OncePushed DEF Processes
  <2>8. /\ \A P : Has(stack, P) <=> Top.at \in P \/ Has(t, P)
        /\ (<<g>> \o t)[1] = g /\ <<g>> \o t # <<>> /\ Tail(<<g>> \o t) = t
    <3>1. \A P : Has(stack, P) <=> Top.at \in P \/ Has(t, P)
      BY <1>1, TopFrame
    <3>2. (<<g>> \o t)[1] = g /\ <<g>> \o t # <<>> /\ Tail(<<g>> \o t) = t
      <4> HIDE DEF f, g, t
      <4> QED BY <2>2, <2>3
    <3> QED BY <3>1, <3>2
  <2>9. ~Has(t, Guarded) \/ InLock(<<g>> \o t)
    <3>1. Has(t, Guarded) => InLock(stack)
      BY <1>1, <2>8 DEF ShapeInv, Depth, LockTaken, InYield, Guarded, Top
    <3> QED BY <2>3, <2>8, <3>1 DEF InLock, Waiting
  <2>10. ShapeInv'
    <3>1. /\ f.at # "user" /\ f.at \notin Processes /\ f.at \notin Guarded /\ g.at \notin Guarded
          /\ g.at \notin Processes
      BY <2>3 DEF Guarded, Processes
    <3>2. inUse' => Has(t, Guarded \union {"loop", "unguard", "send"})
      BY <1>1, <2>1, <2>8 DEF ShapeInv, Guarded
    <3>3. processing' <=> (g.at \in Processes \/ Has(t, Processes))
      BY <1>1, <2>1, <2>8, <3>1 DEF ShapeInv, Processes
    <3>4. Has(t, Guarded) => inUse'
      BY <1>1, <2>1, <2>8 DEF ShapeInv
    <3> QED BY <2>1, <2>2, <2>3, <2>5, <2>6, <2>7, <2>9, <3>1, <3>2, <3>3, <3>4, ShapeTwo
  <2>11. /\ stack' \in Seq(Frames) /\ stack' # <<>> /\ stack'[1] = f
         /\ \A P : Has(stack', P) <=> f.at \in P \/ g.at \in P \/ Has(t, P)
    <3> HIDE DEF f, g, t
    <3> QED BY <2>1, <2>2, <2>3, AfterCallThen
  <2>12. ASSUME NEW l \in Locks \ open' PROVE SelfHolds(l)' \/ l \in Held
    <3>1. SelfHolds(l) \/ l \in Held
      BY <1>1, <2>1 DEF HoldInv
    <3>2. SelfHolds(l) => l = QLock /\ Has(stack, {"alloc"})
      BY <1>1 DEF SelfHolds, At, Top
    <3>3. Has(stack, {"alloc"}) => Has(stack, {"alloc"})'
      BY <1>1, <2>8, <2>11 DEF Has
    <3>4. l = QLock /\ Has(stack, {"alloc"})' => SelfHolds(l)'
      BY DEF SelfHolds
    <3> QED BY <3>1, <3>2, <3>3, <3>4
  <2>13. Known'
    BY <2>3, <2>11 DEF Known, Top
  <2>14. /\ open' \subseteq Words /\ work' \in Nat /\ work' <= work
         /\ inUse' \in BOOLEAN /\ processing' \in BOOLEAN
    BY <2>1 DEF TypeOK
  <2>15. stack'[1].at \notin Uncancelled /\ stack'[1].at \notin {"sleep", "asleep"}
    BY <2>3, <2>11 DEF Uncancelled
  <2> QED BY <1>1, <1>4, <2>1, <2>10, <2>11, <2>12, <2>13, <2>14, <2>15, ThreadStep
<1> QED BY <1>2, <1>3, <1>4

-----------------------------------------------------------------------------
(***************************************************************************)
(* Each step of the system queue keeps the invariant                       *)
(***************************************************************************)
\* Code that calls.
LEMMA Calls ==
    ASSUME TypeOK, ShapeInv, stack # <<>>, NEW f \in Frames, Call(f), UNCHANGED <<program, inUse>>,
           cancel => cancel', Allowed(f), Link(f, Top), f.at \notin Guarded \union {"user"},
           Top.at \notin Guarded \union Waiting \union {"guard"},
           f.at \in Processes => ~processing,
           processing' <=> (processing \/ f.at \in Processes)
    PROVE  /\ ShapeInv'
           /\ stack' \in Seq(Frames) /\ stack' # <<>> /\ stack'[1] = f
           /\ \A P : Has(stack', P) <=> f.at \in P \/ Has(stack, P)
<1>1. stack' = <<f>> \o stack /\ stack \in Seq(Frames)
  BY DEF Call, TypeOK
<1>2. /\ stack' \in Seq(Frames) /\ stack' # <<>> /\ stack'[1] = f
      /\ \A P : Has(stack', P) <=> f.at \in P \/ Has(stack, P)
  BY <1>1, AfterCall
<1>3. ~Has(stack, Guarded)
  BY <1>1, NotDeep DEF ShapeInv, Guarded, Top
<1>4. Chained(<<f>> \o stack)
  BY <1>1, ChainPush DEF ShapeInv, Top
<1>5. Once(<<f>> \o stack)
  <2>1. f.at \in Processes => ~Has(stack, Processes)
    BY DEF ShapeInv
  <2> QED BY <1>1, <2>1, OncePushed DEF ShapeInv
<1>6. ~Has(stack', Guarded) /\ Depth(<<f>> \o stack)
  BY <1>1, <1>2, <1>3 DEF Depth
<1>7. inUse' => Has(stack', Guarded \union {"loop", "unguard", "send"})
  BY <1>2 DEF ShapeInv
<1>8. processing' <=> Has(stack', Processes)
  BY <1>2 DEF ShapeInv
<1>9. ShapeInv'
  BY <1>1, <1>4, <1>5, <1>6, <1>7, <1>8, ShapeFrom
<1> QED BY <1>2, <1>9

\* Below the frame that runs there is no frame with the guard up.
LEMMA NoneBelow ==
    ASSUME TypeOK, ShapeInv, stack # <<>>, Top.at \notin Waiting \union {"guard"}
    PROVE  ~Has(Tail(stack), Guarded)
<1>1. CASE Top.at \in Guarded
  BY <1>1, TopFrame DEF ShapeInv, Depth, LockTaken, InLock, InYield, Guarded
<1>2. CASE Top.at \notin Guarded
  BY <1>2, TopFrame, NotDeep DEF ShapeInv, Guarded
<1> QED BY <1>1, <1>2

\* Code that goes on, with the guard up.
LEMMA MovesOn ==
    ASSUME TypeOK, ShapeInv, stack # <<>>, NEW at, Goto(at), UNCHANGED program, cancel => cancel',
           \/ Top.at \in {"find", "loop"} /\ at \in {"loop", "unguard"}
           \/ Top.at \in {"own", "alloc"} /\ at = "send",
           at \in Processes => ~Has(Tail(stack), Processes),
           processing' <=> (at \in Processes \/ Has(Tail(stack), Processes))
    PROVE  /\ ShapeInv'
           /\ stack' \in Seq(Frames) /\ stack' # <<>> /\ stack'[1].at = at
           /\ \A P : Has(stack', P) <=> at \in P \/ Has(Tail(stack), P)
<1> DEFINE f == [Top EXCEPT !.at = at]
           t == Tail(stack)
<1>1. stack' = <<f>> \o t
  BY DEF Goto
<1>2. Top \in Frames /\ t \in Seq(Frames) /\ t # <<>> /\ Link(Top, t[1])
  BY TopFrame
<1>3. f \in Frames /\ f.at = at /\ f.mode = Top.mode
  <2>1. Top.at \notin Waiting /\ at \in CodePlaces
    BY DEF Waiting, CodePlaces
  <2> QED BY <1>2, <2>1, MovedFrame
<1>4. /\ stack' \in Seq(Frames) /\ stack' # <<>> /\ stack'[1] = f
      /\ \A P : Has(stack', P) <=> at \in P \/ Has(t, P)
  BY <1>1, <1>3, AfterReplace
<1>5. Link(f, t[1])
  BY <1>2, <1>3 DEF Link, WaitsFor, Waiting, Processes
<1>6. Allowed(f)
  BY <1>3, TopFrame DEF Allowed
<1>7. Chained(<<f>> \o t)
  BY <1>2, <1>3, <1>5, <1>6, TopFrame, ChainReplace DEF ShapeInv
<1>8. Once(<<f>> \o t)
  <2>1. Once(t)
    BY TopFrame
  <2> QED BY <1>2, <1>3, <2>1, OncePushed
<1>9. ~Has(stack', Guarded) /\ Depth(<<f>> \o t)
  <2>1. ~Has(t, Guarded)
    BY NoneBelow DEF Waiting
  <2>2. at \notin Guarded
    BY DEF Guarded
  <2> QED BY <1>1, <1>4, <2>1, <2>2 DEF Depth
<1>10. Has(stack', Guarded \union {"loop", "unguard", "send"})
  BY <1>4
<1>11. processing' <=> Has(stack', Processes)
  BY <1>4
<1>12. ShapeInv'
  BY <1>1, <1>7, <1>8, <1>9, <1>10, <1>11, ShapeFrom
<1> QED BY <1>3, <1>4, <1>12

\* A word that the program waits for is no lock: nothing holds it.
LEMMA WaitForKeeps ==
    ASSUME NotifyInv, NEW f \in Flags, NEW m \in program.modes, WaitFor(f, m), UNCHANGED program
    PROVE  NotifyInv'
<1> DEFINE g == Frame("testcancel", f, m)
<1> USE DEF NotifyInv
<1>1. /\ stack # <<>> /\ Top.at \in {"user", "task"} /\ Call(g) /\ open' = open \ {f}
      /\ UNCHANGED <<waitAddr, cancel, crashed, work, posts, inUse, processing, end, pc>>
  BY DEF WaitFor, InUserCode, At, Top
<1>2. m \in Mode
  BY FutexNotifyAssumption DEF TypeOK, Program
<1>3. g \in Frames /\ g.at = "testcancel" /\ g.addr = f /\ g.mode = m
  BY <1>2, NewFrames DEF Words, Waiting
<1>4. Link(g, Top) /\ Allowed(g)
  BY <1>1, <1>3, LocksApart DEF Link, Allowed, OnTop, Processes, Locks, Waiting
<1>5. g.at \notin Guarded \union Processes \union {"user"}
  BY <1>3 DEF Guarded, Processes
<1>6. /\ ShapeInv'
      /\ stack' \in Seq(Frames) /\ stack' # <<>> /\ stack'[1] = g
      /\ \A P : Has(stack', P) <=> g.at \in P \/ Has(stack, P)
  <2> HIDE DEF g
  <2>1. Top.at \notin Guarded \union Waiting \union {"guard"}
    BY <1>1 DEF Guarded, Waiting
  <2> QED BY <1>1, <1>3, <1>4, <1>5, <2>1, Calls
<1>7. ASSUME NEW l \in Locks \ open' PROVE SelfHolds(l)' \/ l \in Held
  <2>1. l \notin open
    BY <1>1, LocksApart
  <2>2. SelfHolds(l) => l = QLock /\ Has(stack, {"alloc"})
    BY <1>1 DEF SelfHolds, At, Top
  <2>3. Has(stack, {"alloc"}) => Has(stack, {"alloc"})'
    BY <1>6 DEF Has
  <2> QED BY <1>1, <2>1, <2>2, <2>3 DEF HoldInv, SelfHolds
<1>8. Known => Known'
  <2>1. Has(stack, {"find"}) => Has(stack, {"find"})'
    BY <1>6 DEF Has
  <2> QED BY <1>1, <2>1 DEF Known
<1>9. /\ open' \subseteq Words /\ work' \in Nat /\ work' <= work
      /\ inUse' \in BOOLEAN /\ processing' \in BOOLEAN
  BY <1>1 DEF TypeOK
<1>10. stack'[1].at \notin {"sleep", "asleep"} /\ stack'[1].at \notin Uncancelled
  BY <1>3, <1>6 DEF Uncancelled
<1> QED BY <1>1, <1>6, <1>7, <1>8, <1>9, <1>10, ThreadStep

\* Calls that queue nothing and take no lock.
LEMMA CallKeeps ==
    ASSUME NotifyInv, UNCHANGED program, stack # <<>>, NEW at,
           \/ Top.at \in {"user", "task"} /\ at = "guard" /\ UNCHANGED processing
           \/ Top.at = "user" /\ at = "mailbox" /\ processing' = TRUE
           \/ Top.at \in Processes /\ at = "task" /\ UNCHANGED processing,
           Call(Code(at)), work' \in Nat, work' <= work,
           UNCHANGED <<waitAddr, open, cancel, crashed, posts, inUse, end, pc>>
    PROVE  NotifyInv'
<1> DEFINE f == Code(at)
<1> USE DEF NotifyInv
<1>1. f \in Frames /\ f.at = at /\ f.mode = "enable"
  BY NewFrames DEF CodePlaces
<1>2. Link(f, Top) /\ Allowed(f)
  BY <1>1 DEF Link, Allowed, OnTop, Processes, Waiting
<1>3. at = "mailbox" => ~processing
  <2>1. Top.at = "user" => Tail(stack) = <<>>
    BY TopFrame
  <2>2. Top.at = "user" => ~Has(Tail(stack), Processes)
    BY <2>1 DEF Has
  <2>3. Top.at = "user" => ~Has(stack, Processes)
    BY <2>2, TopFrame DEF Processes
  <2> QED BY <2>3 DEF ShapeInv, Processes
<1>4. Top.at \notin Guarded \union Waiting \union {"guard"}
  BY DEF Guarded, Waiting, Processes
<1>5. f.at \notin Guarded \union {"user"} /\ (f.at \in Processes => at = "mailbox")
  BY <1>1 DEF Guarded, Processes
<1>6. processing' <=> (processing \/ f.at \in Processes)
  BY <1>1, <1>3 DEF Processes, TypeOK
<1>7. /\ ShapeInv'
      /\ stack' \in Seq(Frames) /\ stack' # <<>> /\ stack'[1] = f
      /\ \A P : Has(stack', P) <=> f.at \in P \/ Has(stack, P)
  <2> HIDE DEF f
  <2>1. Call(f)
    BY DEF f
  <2> QED BY <1>1, <1>2, <1>3, <1>4, <1>5, <1>6, <2>1, Calls
<1>8. ASSUME NEW l \in Locks \ open' PROVE SelfHolds(l)' \/ l \in Held
  <2>1. SelfHolds(l) => l = QLock /\ Has(stack, {"alloc"})
    BY DEF SelfHolds, At, Top, Processes
  <2>2. Has(stack, {"alloc"}) => Has(stack, {"alloc"})'
    BY <1>7 DEF Has
  <2> QED BY <2>1, <2>2 DEF HoldInv, SelfHolds
<1>9. Known => Known'
  <2>1. Has(stack, {"find"}) => Has(stack, {"find"})'
    BY <1>7 DEF Has
  <2>2. processing => processing'
    BY <1>6
  <2> QED BY <1>4, <2>1, <2>2 DEF Known, Waiting
<1>10. open' \subseteq Words /\ inUse' \in BOOLEAN /\ processing' \in BOOLEAN
  BY DEF TypeOK
<1>11. stack'[1].at \notin {"sleep", "asleep"} /\ stack'[1].at \notin Uncancelled
  BY <1>1, <1>7 DEF Uncancelled
<1>12. Top.at \notin {"cancel", "yield"}
  BY <1>4 DEF Waiting
<1> QED BY <1>7, <1>8, <1>9, <1>10, <1>11, <1>12, ThreadStep

\* Only the frame that runs is in a place that calls nothing.
LEMMA BelowTop ==
    ASSUME TypeOK, ShapeInv, stack # <<>>
    PROVE  ~Has(Tail(stack), OnTop)
<1> DEFINE t == Tail(stack)
<1>1. stack \in Seq(Frames)
  BY DEF TypeOK
<1>2. /\ DOMAIN stack = 1..Len(stack) /\ DOMAIN t = 1..(Len(stack) - 1) /\ Len(stack) \in Nat
      /\ \A i \in DOMAIN t : i + 1 \in DOMAIN stack /\ t[i] = stack[i + 1]
  BY <1>1, Popped
<1>3. ASSUME NEW i \in DOMAIN t PROVE t[i].at \notin OnTop
  <2>1. i \in DOMAIN stack /\ i + 1 \in DOMAIN stack /\ t[i] = stack[i + 1]
    BY <1>2
  <2>2. Link(stack[i], stack[i + 1])
    BY <2>1 DEF ShapeInv, Chained
  <2> QED BY <2>1, <2>2 DEF Link
<1> QED BY <1>3 DEF Has

\* Code that returns.
LEMMA ReturnKeeps ==
    ASSUME NotifyInv, stack # <<>>, Return,
           \/ Top.at = "guard" /\ inUse /\ UNCHANGED <<open, inUse, processing>>
           \/ Top.at = "task" /\ UNCHANGED <<open, inUse, processing>>
           \/ Top.at = "unguard" /\ inUse' = FALSE /\ UNCHANGED <<open, processing>>
           \/ /\ Top.at = "send" /\ inUse' = FALSE /\ open' = open \union {QLock}
              /\ UNCHANGED processing
           \/ /\ Top.at = "mailbox" /\ work' = 0 /\ processing' = FALSE
              /\ UNCHANGED <<open, inUse>>,
           UNCHANGED <<program, waitAddr, cancel, crashed, work, posts, end, pc>>
    PROVE  NotifyInv'
<1> USE DEF NotifyInv
<1>1. /\ ShapeInv' /\ stack' \in Seq(Frames) /\ stack' # <<>> /\ stack' = Tail(stack)
      /\ \A P : Has(stack, P) <=> Top.at \in P \/ Has(stack', P)
  <2>1. Top.at # "user" /\ (inUse => inUse' \/ Top.at \in {"unguard", "send"})
    OBVIOUS
  <2>2. inUse' => inUse /\ Top.at \notin Guarded \union {"loop", "unguard", "send"}
    BY DEF Guarded
  <2>3. Top.at = "mailbox" => processing
    BY TopFrame DEF ShapeInv, Processes
  <2>4. processing' <=> processing /\ Top.at \notin Processes
    BY <2>3 DEF Processes
  <2> QED BY <2>1, <2>2, <2>4, Returns
<1>2. ASSUME NEW l \in Locks \ open' PROVE SelfHolds(l)' \/ l \in Held
  <2>1. l \notin open /\ (Top.at = "send" => l # QLock)
    OBVIOUS
  <2>2. SelfHolds(l) => l = QLock /\ Has(stack, {"alloc"})
    BY <2>1 DEF SelfHolds, At, Top
  <2>3. Has(stack, {"alloc"}) => Has(stack, {"alloc"})'
    BY <1>1 DEF Has
  <2> QED BY <2>1, <2>2, <2>3 DEF HoldInv, SelfHolds
<1>3. Known => (Known' \/ work' = 0 \/ program.allocates)
  <2>1. Has(stack, {"find"}) => Has(stack, {"find"})'
    BY <1>1 DEF Has
  <2>2. CASE Top.at = "guard" /\ inUse
    <3>1. Has(stack', Guarded \union {"loop", "unguard", "send"})
      BY <1>1, <2>2 DEF ShapeInv, Guarded
    <3>2. PICK i \in DOMAIN stack' : stack'[i].at \in Guarded \union {"loop", "unguard", "send"}
      BY <3>1 DEF Has
    <3>3. stack'[i].at \notin OnTop
      BY <1>1, BelowTop, <3>2 DEF Has
    <3>4. stack'[i].at \in {"find", "alloc", "loop"}
      BY <3>2, <3>3 DEF Guarded, OnTop
    <3>5. stack'[i].at = "loop" => processing'
      BY <1>1, <3>2 DEF ShapeInv, Has, Processes
    <3>6. stack'[i].at = "alloc" => program.allocates
      BY <1>1, <3>2 DEF ShapeInv, Chained, Allowed
    <3>7. stack'[i].at = "find" => Has(stack, {"find"})'
      BY <3>2 DEF Has
    <3> QED BY <3>4, <3>5, <3>6, <3>7 DEF Known
  <2>3. CASE Top.at # "guard"
    BY <2>1, <2>3 DEF Known
  <2> QED BY <2>2, <2>3
<1>4. Link(Top, stack'[1])
  BY <1>1, TopFrame
<1>5. /\ stack'[1].at \notin {"sleep", "asleep"}
      /\ stack'[1].at \in Uncancelled => program.isMain
  BY <1>4 DEF Link, OnTop, Uncancelled
<1>6. /\ open' \subseteq Words /\ work' \in Nat /\ work' <= work
      /\ inUse' \in BOOLEAN /\ processing' \in BOOLEAN
  <2>1. work' \in Nat /\ work' <= work
    BY DEF TypeOK
  <2>2. open \subseteq Words /\ QLock \in Words /\ Heap \in Words
    BY DEF TypeOK, Words, Locks
  <2>3. open' \subseteq Words
    BY <2>2
  <2>4. inUse \in BOOLEAN /\ processing \in BOOLEAN
    BY DEF TypeOK
  <2>5. inUse' \in BOOLEAN /\ processing' \in BOOLEAN
    BY <2>4
  <2> QED BY <2>1, <2>3, <2>5
<1>7. Top.at \notin {"cancel", "yield"}
  OBVIOUS
<1> QED BY <1>1, <1>2, <1>3, <1>5, <1>6, <1>7, ThreadStep

\* Code that goes on, with or without the lock that it held.
LEMMA MoveKeeps ==
    ASSUME NotifyInv, stack # <<>>, NEW at, Goto(at),
           \/ /\ Top.at = "find" /\ open' = open \union {QLock} /\ UNCHANGED inUse
              /\ \/ processing /\ at = "unguard" /\ UNCHANGED processing
                 \/ ~processing /\ at = "loop" /\ processing' = TRUE
           \/ /\ Top.at = "loop" /\ at = "unguard" /\ work' = 0 /\ processing' = FALSE
              /\ UNCHANGED <<open, inUse>>
           \/ /\ Top.at = "own" /\ at = "send" /\ inUse' = TRUE /\ UNCHANGED <<open, processing>>
           \/ /\ Top.at = "alloc" /\ at = "send" /\ open' = open \union {Heap}
              /\ UNCHANGED <<inUse, processing>>,
           UNCHANGED <<program, waitAddr, cancel, crashed, work, posts, end, pc>>
    PROVE  NotifyInv'
<1> USE DEF NotifyInv
<1>1. \A P : Has(stack, P) <=> Top.at \in P \/ Has(Tail(stack), P)
  BY TopFrame
<1>2. ~Has(Tail(stack), Guarded)
  BY NoneBelow DEF Waiting
<1>3. /\ ShapeInv' /\ stack' \in Seq(Frames) /\ stack' # <<>> /\ stack'[1].at = at
      /\ \A P : Has(stack', P) <=> at \in P \/ Has(Tail(stack), P)
  <2>1. \/ Top.at \in {"find", "loop"} /\ at \in {"loop", "unguard"}
        \/ Top.at \in {"own", "alloc"} /\ at = "send"
    OBVIOUS
  <2>2. processing <=> Top.at \in Processes \/ Has(Tail(stack), Processes)
    BY <1>1 DEF ShapeInv
  <2>3. at \in Processes => ~Has(Tail(stack), Processes)
    BY <2>2 DEF Processes
  <2>4. Top.at \in Processes => ~Has(Tail(stack), Processes)
    BY TopFrame
  <2>5. processing' <=> (at \in Processes \/ Has(Tail(stack), Processes))
    BY <2>2, <2>4 DEF Processes
  <2> QED BY <2>1, <2>3, <2>5, MovesOn
<1>4. ASSUME NEW l \in Locks \ open' PROVE SelfHolds(l)' \/ l \in Held
  <2>1. /\ l \notin open /\ (Top.at = "find" => l # QLock) /\ (Top.at = "alloc" => l # Heap)
    OBVIOUS
  <2>2. ~Has(Tail(stack), {"alloc"})
    BY <1>2 DEF Has, Guarded
  <2>3. SelfHolds(l) => l = QLock /\ (Top.at = "own" \/ Top.at = "alloc")
    BY <1>1, <2>1, <2>2 DEF SelfHolds, At, Top
  <2>4. l = QLock /\ at = "send" => SelfHolds(l)'
    BY <1>3 DEF SelfHolds, At
  <2> QED BY <2>1, <2>3, <2>4 DEF HoldInv
<1>5. Known => Known' \/ work' = 0
  <2>1. Has(stack, {"find"}) => Top.at = "find"
    BY <1>1, <1>2 DEF Has, Guarded
  <2> QED BY <2>1 DEF Known
<1>6. /\ open' \subseteq Words /\ work' \in Nat /\ work' <= work
      /\ inUse' \in BOOLEAN /\ processing' \in BOOLEAN
  <2>1. work' \in Nat /\ work' <= work
    BY DEF TypeOK
  <2>2. open \subseteq Words /\ QLock \in Words /\ Heap \in Words
    BY DEF TypeOK, Words, Locks
  <2>3. open' \subseteq Words
    BY <2>2
  <2>4. inUse \in BOOLEAN /\ processing \in BOOLEAN
    BY DEF TypeOK
  <2>5. inUse' \in BOOLEAN /\ processing' \in BOOLEAN
    BY <2>4
  <2> QED BY <2>1, <2>3, <2>5
<1>7. /\ stack'[1].at \notin {"sleep", "asleep"} /\ stack'[1].at \notin Uncancelled
      /\ Top.at \notin {"cancel", "yield"}
  BY <1>3 DEF Uncancelled
<1> QED BY <1>3, <1>4, <1>5, <1>6, <1>7, ThreadStep

\* Code that takes a lock with the guard up.
LEMMA LockKeeps ==
    ASSUME NotifyInv, stack # <<>>, NEW at, NEW k \in Locks, CallThen(at, Lock(k)),
           \/ Top.at = "guard" /\ ~inUse /\ at = "find" /\ k = QLock
           \/ Top.at = "own" /\ at = "alloc" /\ k = Heap /\ program.allocates,
           inUse' = TRUE,
           UNCHANGED <<program, waitAddr, open, cancel, crashed, work, posts, processing, end, pc>>
    PROVE  NotifyInv'
<1> DEFINE f == Lock(k)
           g == [Top EXCEPT !.at = at]
           t == Tail(stack)
<1> USE DEF NotifyInv
<1>1. stack' = <<f, g>> \o t
  BY DEF CallThen
<1>2. /\ Top \in Frames /\ Allowed(Top) /\ t \in Seq(Frames) /\ t # <<>> /\ Link(Top, t[1])
      /\ \A P : Has(stack, P) <=> Top.at \in P \/ Has(t, P)
  BY TopFrame
<1>3. /\ f \in Frames /\ f.at = "check" /\ f.addr = k /\ f.mode = "disable"
      /\ g \in Frames /\ g.at = at /\ g.mode = Top.mode
  <2>1. Top.at \notin Waiting /\ at \in CodePlaces
    BY DEF Waiting, CodePlaces
  <2> QED BY <1>2, <2>1, NewFrames, MovedFrame
<1>4. Link(g, t[1])
  BY <1>2, <1>3 DEF Link, WaitsFor, Waiting, Processes
<1>5. Allowed(f) /\ Allowed(g) /\ Link(f, g)
  <2>1. Allowed(f) /\ Allowed(g)
    BY <1>2, <1>3 DEF Allowed
  <2>2. Link(f, g)
    BY <1>3, LocksApart DEF Link, WaitsFor, Waiting, OnTop, Processes
  <2> QED BY <2>1, <2>2
<1>6. Chained(<<g>> \o t)
  BY <1>2, <1>3, <1>4, <1>5, TopFrame, ChainReplace DEF ShapeInv
<1>7. Once(<<g>> \o t)
  BY <1>2, <1>3, TopFrame, OncePushed DEF Processes
<1>8. ~Has(t, Guarded)
  <2>1. CASE Top.at = "guard"
    BY <1>2, <2>1 DEF ShapeInv
  <2>2. CASE Top.at = "own"
    BY <2>2, NoneBelow DEF Waiting
  <2> QED BY <2>1, <2>2
<1>9. ShapeInv'
  <2>1. /\ f.at # "user" /\ f.at \notin Processes /\ f.at \in Waiting /\ g.at \in Guarded
        /\ g.at \notin Processes
    BY <1>3 DEF Guarded, Processes, Waiting
  <2>2. processing' <=> (g.at \in Processes \/ Has(t, Processes))
    BY <1>2, <2>1 DEF ShapeInv, Processes
  <2> HIDE DEF f, g, t
  <2> QED BY <1>1, <1>2, <1>3, <1>5, <1>6, <1>7, <1>8, <2>1, <2>2, ShapeTwo
<1>10. /\ stack' \in Seq(Frames) /\ stack' # <<>> /\ stack'[1] = f
       /\ \A P : Has(stack', P) <=> f.at \in P \/ g.at \in P \/ Has(t, P)
  <2> HIDE DEF f, g, t
  <2> QED BY <1>1, <1>2, <1>3, AfterCallThen
<1>11. ASSUME NEW l \in Locks \ open' PROVE SelfHolds(l)' \/ l \in Held
  <2>1. ~Has(t, {"alloc"})
    BY <1>8 DEF Has, Guarded
  <2>2. SelfHolds(l) => l = QLock /\ Top.at = "own"
    BY <1>2, <2>1 DEF SelfHolds, At, Top
  <2>3. Top.at = "own" => Has(stack, {"alloc"})'
    BY <1>3, <1>10 DEF Has
  <2> QED BY <2>2, <2>3 DEF HoldInv, SelfHolds
<1>12. Known => (Known' \/ program.allocates)
  <2>1. Top.at = "guard" => Has(stack, {"find"})'
    BY <1>3, <1>10 DEF Has
  <2> QED BY <2>1 DEF Known
<1>13. /\ open' \subseteq Words /\ work' \in Nat /\ work' <= work
       /\ inUse' \in BOOLEAN /\ processing' \in BOOLEAN
  BY DEF TypeOK
<1>14. /\ stack'[1].at \notin {"sleep", "asleep"} /\ stack'[1].mode = "disable"
       /\ Top.at \notin {"cancel", "yield"}
  BY <1>3, <1>10
<1> QED BY <1>9, <1>10, <1>11, <1>12, <1>13, <1>14, ThreadStep

\* A do_proxy of the thread's own begins with the lock of the system queue.
LEMMA ProxyKeeps == NotifyInv /\ Proxy /\ UNCHANGED program => NotifyInv'
<1> SUFFICES ASSUME NotifyInv, Proxy, UNCHANGED program PROVE NotifyInv'
  OBVIOUS
<1> DEFINE f == Lock(QLock)
           g == Code("own")
<1> USE DEF NotifyInv
<1>1. /\ stack # <<>> /\ Top.at \in {"user", "task"} /\ stack' = <<f, g>> \o stack
      /\ UNCHANGED <<waitAddr, open, cancel, crashed, work, posts, inUse, processing, end, pc>>
  BY DEF Proxy, InUserCode, At, Top
<1>2. stack \in Seq(Frames) /\ Top \in Frames /\ Top = stack[1]
  BY <1>1, TopFrame
<1>3. /\ f \in Frames /\ f.at = "check" /\ f.addr = QLock /\ f.mode = "disable"
      /\ g \in Frames /\ g.at = "own" /\ g.mode = "enable"
  BY NewFrames DEF Locks, CodePlaces
<1>4. Link(g, Top)
  BY <1>1, <1>3 DEF Link, WaitsFor, Waiting, Processes, OnTop
<1>5. Allowed(f) /\ Allowed(g) /\ Link(f, g)
  BY <1>3, LocksApart DEF Allowed, Link, WaitsFor, Waiting, OnTop, Processes
<1>6. Chained(<<g>> \o stack)
  BY <1>1, <1>2, <1>3, <1>4, <1>5, ChainPush DEF ShapeInv
<1>7. Once(<<g>> \o stack)
  BY <1>2, <1>3, OncePushed DEF ShapeInv, Processes
<1>8. ~Has(stack, Guarded)
  <2>1. Top.at \notin Guarded \union Waiting \union {"guard"}
    BY <1>1 DEF Guarded, Waiting
  <2> QED BY <1>1, <1>2, <2>1, NotDeep DEF ShapeInv, Guarded
<1>9. ShapeInv'
  <2>1. /\ f.at # "user" /\ f.at \notin Processes /\ f.at \notin Guarded /\ g.at \notin Guarded
        /\ g.at \notin Processes
    BY <1>3 DEF Guarded, Processes
  <2>2. /\ inUse' => Has(stack, Guarded \union {"loop", "unguard", "send"})
        /\ processing' <=> (g.at \in Processes \/ Has(stack, Processes))
    BY <1>1, <2>1 DEF ShapeInv
  <2> HIDE DEF f, g
  <2> QED BY <1>1, <1>2, <1>3, <1>5, <1>6, <1>7, <1>8, <2>1, <2>2, ShapeTwo
<1>10. /\ stack' \in Seq(Frames) /\ stack' # <<>> /\ stack'[1] = f
       /\ \A P : Has(stack', P) <=> f.at \in P \/ g.at \in P \/ Has(stack, P)
  <2> HIDE DEF f, g
  <2> QED BY <1>1, <1>2, <1>3, AfterCallThen
<1>11. ASSUME NEW l \in Locks \ open' PROVE SelfHolds(l)' \/ l \in Held
  <2>1. SelfHolds(l) => l = QLock /\ Has(stack, {"alloc"})
    BY <1>1 DEF SelfHolds, At, Top
  <2>2. Has(stack, {"alloc"}) => Has(stack, {"alloc"})'
    BY <1>10 DEF Has
  <2> QED BY <1>1, <2>1, <2>2 DEF HoldInv, SelfHolds
<1>12. Known => Known'
  <2>1. Has(stack, {"find"}) => Has(stack, {"find"})'
    BY <1>10 DEF Has
  <2> QED BY <1>1, <2>1 DEF Known
<1>13. /\ open' \subseteq Words /\ work' \in Nat /\ work' <= work
       /\ inUse' \in BOOLEAN /\ processing' \in BOOLEAN
  BY <1>1 DEF TypeOK
<1>14. /\ stack'[1].at \notin {"sleep", "asleep"} /\ stack'[1].mode = "disable"
       /\ Top.at \notin {"cancel", "yield"}
  BY <1>1, <1>3, <1>10
<1> QED BY <1>1, <1>9, <1>10, <1>11, <1>12, <1>13, <1>14, ThreadStep

\* The code of the system queue.
LEMMA QueueKeeps ==
    /\ NotifyInv /\ UNCHANGED program
    /\ \/ Guard \/ Find \/ Loop \/ TaskReturns \/ Unguard
       \/ ProxyGuard \/ ProxyAllocated \/ ProxyUnguard
    => NotifyInv'
<1> SUFFICES ASSUME NotifyInv, UNCHANGED program,
                    \/ Guard \/ Find \/ Loop \/ TaskReturns \/ Unguard
                    \/ ProxyGuard \/ ProxyAllocated \/ ProxyUnguard
             PROVE  NotifyInv'
  OBVIOUS
<1> USE DEF At, Top
<1>1. CASE Guard /\ inUse
  BY <1>1, ReturnKeeps DEF Guard
<1>2. CASE Guard /\ ~inUse
  BY <1>2, LockKeeps DEF Guard, Locks
<1>3. CASE Find
  <2>1. CASE processing
    BY <1>3, <2>1, MoveKeeps DEF Find
  <2>2. CASE ~processing
    BY <1>3, <2>2, MoveKeeps DEF Find
  <2> QED BY <2>1, <2>2
<1>4. CASE Loop
  <2>1. work \in Nat
    BY DEF NotifyInv, TypeOK
  <2>2. CASE work > 0
    <3>1. /\ stack # <<>> /\ Top.at \in Processes /\ Call(Code("task")) /\ work' = work - 1
          /\ UNCHANGED <<waitAddr, open, cancel, crashed, posts, inUse, processing, end, pc>>
      BY <1>4, <2>2 DEF Loop, Processes
    <3>2. work' \in Nat /\ work' <= work
      BY <2>1, <2>2, <3>1
    <3>3. UNCHANGED <<waitAddr, open, cancel, crashed, posts, inUse, end, pc>>
      BY <3>1
    <3>4. UNCHANGED processing
      BY <3>1
    <3> HIDE DEF At, Top
    <3> QED BY <3>1, <3>2, <3>3, <3>4, CallKeeps
  <2>3. CASE ~(work > 0) /\ At("loop")
    <3>1. /\ stack # <<>> /\ Top.at = "loop" /\ Goto("unguard") /\ work' = 0 /\ processing' = FALSE
          /\ UNCHANGED <<waitAddr, open, cancel, crashed, work, posts, inUse, end, pc>>
      BY <1>4, <2>1, <2>3 DEF Loop
    <3> HIDE DEF At, Top
    <3> QED BY <3>1, MoveKeeps
  <2>4. CASE ~(work > 0) /\ ~At("loop")
    <3>1. /\ stack # <<>> /\ Top.at = "mailbox" /\ Return /\ work' = 0 /\ processing' = FALSE
          /\ UNCHANGED <<waitAddr, open, cancel, crashed, work, posts, inUse, end, pc>>
      BY <1>4, <2>1, <2>4 DEF Loop
    <3> HIDE DEF At, Top
    <3> QED BY <3>1, ReturnKeeps
  <2> QED BY <2>2, <2>3, <2>4
<1>5. CASE TaskReturns
  BY <1>5, ReturnKeeps DEF TaskReturns
<1>6. CASE Unguard
  BY <1>6, ReturnKeeps DEF Unguard
<1>7. CASE ProxyGuard
  <2>1. CASE Goto("send")
    BY <1>7, <2>1, MoveKeeps DEF ProxyGuard
  <2>2. CASE program.allocates /\ CallThen("alloc", Lock(Heap))
    BY <1>7, <2>2, LockKeeps DEF ProxyGuard, Locks
  <2> QED BY <1>7, <2>1, <2>2 DEF ProxyGuard
<1>8. CASE ProxyAllocated
  BY <1>8, MoveKeeps DEF ProxyAllocated
<1>9. CASE ProxyUnguard
  BY <1>9, ReturnKeeps DEF ProxyUnguard
<1> QED BY <1>1, <1>2, <1>3, <1>4, <1>5, <1>6, <1>7, <1>8, <1>9

\* Every step of the waiting thread keeps the invariant.
LEMMA ThreadKeeps == NotifyInv /\ (Runs \/ Chooses) => NotifyInv'
<1> SUFFICES ASSUME NotifyInv, Runs \/ Chooses PROVE NotifyInv'
  OBVIOUS
<1>1. UNCHANGED program
  BY DEF Runs, Chooses
<1>2. CASE \/ TestCancel \/ Check \/ Publish \/ Sleep \/ Clear \/ CheckCancel \/ Yield
  BY <1>1, <1>2, TestCancelKeeps, CheckKeeps, PublishKeeps, SleepKeeps, ClearKeeps,
     CheckCancelKeeps, YieldKeeps
<1>3. CASE \/ Guard \/ Find \/ Loop \/ TaskReturns \/ Unguard
           \/ ProxyGuard \/ ProxyAllocated \/ ProxyUnguard
  BY <1>1, <1>3, QueueKeeps
<1>4. CASE \E f \in Flags, m \in program.modes : WaitFor(f, m)
  BY <1>1, <1>4, WaitForKeeps
<1>5. CASE ProcessCalls \/ ReceiveMail
  <2>1. work' \in Nat /\ work' <= work
    BY <1>5 DEF NotifyInv, TypeOK, ProcessCalls, ReceiveMail
  <2> QED BY <1>1, <1>5, <2>1, CallKeeps DEF ProcessCalls, ReceiveMail, InUserCode, At, Top
<1>6. CASE Proxy
  BY <1>1, <1>6, ProxyKeeps
<1> QED BY <1>2, <1>3, <1>4, <1>5, <1>6 DEF Runs, Chooses

-----------------------------------------------------------------------------
(***************************************************************************)
(* Each step of another thread keeps the invariant                         *)
(***************************************************************************)
Places == [at : {"idle", "holds", "wake", "enqueue", "notify", "spin", "wakeall", "kill"},
           addr : Words \union {NoAddr}, kills : BOOLEAN]

\* Only the thread that moves changes its place.
LEMMA Moves ==
    ASSUME TypeOK, NEW n \in Others, NEW p \in Places, Move(n, p)
    PROVE  /\ pc \in [Others -> Places] /\ pc' \in [Others -> Places]
           /\ pc'[n] = p /\ \A m \in Others : m # n => pc'[m] = pc[m]
  BY DEF TypeOK, Places, Move

\* What a step of another thread has to be shown to do where it wakes nobody.
LEMMA OtherStep ==
    ASSUME NotifyInv, UNCHANGED <<program, inUse, processing, stack, end>>, TypeOK',
           cancel => cancel', cancel' => (cancel \/ Alerted'),
           crashed' => (crashed \/ (Alerted' /\ program.isMain)),
           HoldInv', BitInv', Alerted => Alerted',
           program.isMain => (Posted => Posted'),
           program.isMain /\ work' > 0 => (work > 0 \/ Posted')
    PROVE  NotifyInv'
<1> USE DEF NotifyInv
<1>1. ShapeInv'
  BY ShapeFrom DEF ShapeInv
<1>2. CancelInv' /\ CrashInv'
  BY DEF CancelInv, CrashInv, Top
<1>3. WorkInv'
  <2>1. Has(stack, {"find"}) => Has(stack, {"find"})'
    BY DEF Has
  <2> QED BY <2>1 DEF WorkInv, Top
<1> QED BY <1>1, <1>2, <1>3

\* The locks are held as before where the waiting thread and they stay as they are.
LEMMA SelfHoldsKept ==
    ASSUME UNCHANGED stack, cancel => cancel', NEW l
    PROVE  SelfHolds(l) => SelfHolds(l)'
  BY DEF SelfHolds, At, Top, Has

\* A lock that is taken has a holder.
LEMMA AcquireKeeps ==
    ASSUME NotifyInv, NEW n \in Others, NEW l \in Locks, Acquire(n, l), UNCHANGED program
    PROVE  NotifyInv'
<1> USE DEF NotifyInv
<1>1. /\ l \in open /\ open' = open \ {l} /\ Move(n, Place("holds", l))
      /\ UNCHANGED <<program, waitAddr, cancel, crashed, work, inUse, processing, stack, end>>
      /\ pc[n] = Idle \/ (pc[n].at = "kill" /\ l = QLock)
      /\ posts' = posts \/ (posts < MaxPosts /\ posts' = posts + 1)
  BY DEF Acquire
<1>2. Place("holds", l) \in Places
  BY DEF Place, Places, Words
<1>3. /\ pc \in [Others -> Places] /\ pc' \in [Others -> Places] /\ pc'[n] = Place("holds", l)
      /\ \A m \in Others : m # n => pc'[m] = pc[m]
  BY <1>1, <1>2, Moves
<1>4. pc[n].at \in {"idle", "kill"} /\ (pc[n].at = "kill" => l = QLock)
  BY <1>1 DEF Idle, Place
<1>5. TypeOK'
  <2>1. posts' \in 0..MaxPosts
    BY <1>1, FutexNotifyAssumption DEF TypeOK
  <2>2. open' \subseteq Words
    BY <1>1 DEF TypeOK
  <2> QED BY <1>1, <1>3, <2>1, <2>2 DEF TypeOK, Places
<1>6. HoldInv'
  <2> SUFFICES ASSUME NEW k \in Locks, k \notin open', stack # <<>>
               PROVE  SelfHolds(k)' \/ k \in Held'
    BY <1>1 DEF HoldInv
  <2>1. l \in Held'
    BY <1>3 DEF Held
  <2>2. ASSUME k \in Held PROVE k \in Held'
    <3>1. PICK m \in Others : pc[m] = Place("holds", k)
      BY <2>2 DEF Held
    <3>2. m # n
      BY <1>4, <3>1 DEF Place
    <3> QED BY <1>3, <3>1, <3>2 DEF Held
  <2>3. k # l => SelfHolds(k) \/ k \in Held
    BY <1>1 DEF HoldInv
  <2> QED BY <1>1, <2>1, <2>2, <2>3, SelfHoldsKept
<1>7. BitInv'
  <2>1. ASSUME NEW m \in Others, Spins(m) PROVE Spins(m)'
    BY <1>1, <1>3, <1>4, <2>1 DEF Spins
  <2> QED BY <1>1, <2>1 DEF BitInv, At, Top
<1>8. (Alerted => Alerted') /\ (Posted => Posted')
  <2>1. ASSUME NEW m \in Others, Posts(m) PROVE Posts(m)'
    BY <1>3, <1>4, <2>1 DEF Posts, Place
  <2>2. \A m \in Others : pc[m].at = "notify" => pc'[m].at = "notify"
    BY <1>3, <1>4
  <2> QED BY <1>1, <2>1, <2>2 DEF Alerted, Posted
<1> QED BY <1>1, <1>5, <1>6, <1>7, <1>8, OtherStep DEF TypeOK

\* A word is opened: a lock has no holder any more.
LEMMA OpenWordKeeps ==
    ASSUME NotifyInv, NEW n \in Others, NEW a \in Words, OpenWord(n, a), UNCHANGED program
    PROVE  NotifyInv'
<1> USE DEF NotifyInv
<1>1. /\ open' = open \union {a} /\ Move(n, Place("wake", a))
      /\ UNCHANGED <<program, waitAddr, cancel, crashed, work, posts, inUse, processing, stack, end>>
      /\ pc[n] = Place("holds", a) \/ pc[n] = Idle
  BY DEF OpenWord
<1>2. Place("wake", a) \in Places
  BY DEF Place, Places
<1>3. /\ pc \in [Others -> Places] /\ pc' \in [Others -> Places] /\ pc'[n] = Place("wake", a)
      /\ \A m \in Others : m # n => pc'[m] = pc[m]
  BY <1>1, <1>2, Moves
<1>4. pc[n].at \in {"idle", "holds"} /\ (pc[n].at = "holds" => pc[n].addr = a)
  BY <1>1 DEF Idle, Place
<1>5. TypeOK'
  <2>1. open' \subseteq Words
    BY <1>1 DEF TypeOK
  <2> QED BY <1>1, <1>3, <2>1 DEF TypeOK, Places
<1>6. HoldInv'
  <2> SUFFICES ASSUME NEW k \in Locks, k \notin open', stack # <<>>
               PROVE  SelfHolds(k)' \/ k \in Held'
    BY <1>1 DEF HoldInv
  <2>1. ASSUME k \in Held PROVE k \in Held'
    <3>1. PICK m \in Others : pc[m] = Place("holds", k)
      BY <2>1 DEF Held
    <3>2. m # n
      BY <1>1, <1>4, <3>1 DEF Place
    <3> QED BY <1>3, <3>1, <3>2 DEF Held
  <2>2. SelfHolds(k) \/ k \in Held
    BY <1>1 DEF HoldInv
  <2> QED BY <1>1, <2>1, <2>2, SelfHoldsKept
<1>7. BitInv'
  <2>1. ASSUME NEW m \in Others, Spins(m) PROVE Spins(m)'
    BY <1>1, <1>3, <1>4, <2>1 DEF Spins
  <2> QED BY <1>1, <2>1 DEF BitInv, At, Top
<1>8. (Alerted => Alerted') /\ (Posted => Posted')
  <2>1. ASSUME NEW m \in Others, Posts(m) PROVE Posts(m)'
    BY <1>3, <1>4, <2>1 DEF Posts, Place
  <2>2. \A m \in Others : pc[m].at = "notify" => pc'[m].at = "notify"
    BY <1>3, <1>4
  <2> QED BY <1>1, <2>1, <2>2 DEF Alerted, Posted
<1> QED BY <1>1, <1>5, <1>6, <1>7, <1>8, OtherStep DEF TypeOK

\* A thread that neither takes a lock nor releases one.
LEMMA MoveOnly ==
    ASSUME TypeOK, HoldInv, NEW n \in Others, NEW p \in Places, Move(n, p),
           pc[n].at # "holds", UNCHANGED open
    PROVE  /\ pc \in [Others -> Places] /\ pc' \in [Others -> Places]
           /\ pc'[n] = p /\ \A m \in Others : m # n => pc'[m] = pc[m]
           /\ Held \subseteq Held'
           /\ UNCHANGED stack /\ (cancel => cancel') => HoldInv'
<1>1. /\ pc \in [Others -> Places] /\ pc' \in [Others -> Places]
      /\ pc'[n] = p /\ \A m \in Others : m # n => pc'[m] = pc[m]
  BY Moves
<1>2. ASSUME NEW k \in Held PROVE k \in Held'
  <2>1. PICK m \in Others : pc[m] = Place("holds", k)
    BY DEF Held
  <2>2. m # n
    BY <2>1 DEF Place
  <2> QED BY <1>1, <2>1, <2>2 DEF Held
<1>3. ASSUME UNCHANGED stack, cancel => cancel' PROVE HoldInv'
  <2> SUFFICES ASSUME NEW k \in Locks, k \notin open', stack # <<>>
               PROVE  SelfHolds(k)' \/ k \in Held'
    BY <1>3 DEF HoldInv
  <2>1. SelfHolds(k) \/ k \in Held
    BY DEF HoldInv
  <2> QED BY <1>2, <1>3, <2>1, SelfHoldsKept
<1> QED BY <1>1, <1>2, <1>3

\* A wake-up, of whoever sleeps at the address.
LEMMA WakesKeep ==
    ASSUME NotifyInv, NEW n \in Others, NEW a, NEW p \in Places, WakeUp(a), Move(n, p),
           pc[n].at \notin {"holds", "notify"},
           Spins(n) => p.at \in {"spin", "wakeall"} /\ p.addr = pc[n].addr,
           Posts(n) => \/ p.at \in {"notify", "kill", "enqueue"}
                       \/ p.at \in {"spin", "wakeall"} /\ p.kills,
           UNCHANGED <<program, waitAddr, open, cancel, crashed, work, posts, inUse,
                       processing, end>>
    PROVE  NotifyInv'
<1> USE DEF NotifyInv
<1>1. /\ pc \in [Others -> Places] /\ pc' \in [Others -> Places]
      /\ pc'[n] = p /\ \A m \in Others : m # n => pc'[m] = pc[m]
      /\ Held \subseteq Held'
      /\ UNCHANGED stack => HoldInv'
  BY MoveOnly
<1>2. (Alerted => Alerted') /\ (Posted => Posted')
  <2>1. ASSUME NEW m \in Others, Posts(m) PROVE Posts(m)'
    BY <1>1, <2>1 DEF Posts
  <2>2. \A m \in Others : pc[m].at = "notify" => pc'[m].at = "notify"
    BY <1>1
  <2> QED BY <2>1, <2>2 DEF Alerted, Posted
<1>3. CASE At("asleep") /\ Top.addr = a
  <2>1. /\ stack # <<>> /\ Top.at = "asleep" /\ Goto("clear")
    BY <1>3 DEF WakeUp, At, Top
  <2>2. stack' \in Seq(Frames)
    BY <2>1, WaitMoves DEF Waiting
  <2>3. TypeOK'
    BY <1>1, <2>2 DEF TypeOK, Places
  <2> HIDE DEF NotifyInv
  <2>4. /\ "clear" \in Waiting \ {"testcancel"} /\ Top.at \in Waiting
        /\ "clear" \notin Uncancelled
    BY <2>1 DEF Waiting, Uncancelled
  <2>5. UNCHANGED <<program, waitAddr, open, cancel, crashed, posts, inUse, processing, end>>
        /\ work' = work
    OBVIOUS
  <2> QED BY <1>1, <1>2, <2>1, <2>3, <2>4, <2>5, WaitGoesOn
<1>4. CASE ~(At("asleep") /\ Top.addr = a)
  <2>1. UNCHANGED stack
    BY <1>4 DEF WakeUp
  <2>2. TypeOK'
    BY <1>1, <2>1 DEF TypeOK, Places
  <2>3. BitInv'
    <3>1. ASSUME NEW m \in Others, Spins(m) PROVE Spins(m)'
      BY <1>1, <3>1 DEF Spins
    <3> QED BY <2>1, <3>1 DEF BitInv, At, Top
  <2> QED BY <1>1, <1>2, <2>1, <2>2, <2>3, OtherStep DEF TypeOK
<1> QED BY <1>3, <1>4

\* A thread that changes a flag of the waiting thread, or queues work for it.
LEMMA ChangeKeeps ==
    ASSUME NotifyInv, NEW n \in Others, NEW p \in Places, Move(n, p),
           pc[n].at \in {"idle", "enqueue", "spin"},
           Spins(n) => p.at = "wakeall" /\ p.addr = pc[n].addr,
           cancel' \in BOOLEAN /\ crashed' \in BOOLEAN /\ work' \in Nat,
           cancel => cancel', crashed => crashed',
           cancel' => (cancel \/ p.at = "notify"),
           crashed' => (crashed \/ (p.at = "notify" /\ program.isMain)),
           program.isMain /\ Posts(n) =>
               \/ p.at \in {"notify", "kill", "enqueue"}
               \/ p.at \in {"spin", "wakeall"} /\ p.kills,
           program.isMain /\ work' # work => p.at = "notify",
           UNCHANGED <<program, waitAddr, open, posts, inUse, processing, stack, end>>
    PROVE  NotifyInv'
<1> USE DEF NotifyInv
<1>1. /\ pc \in [Others -> Places] /\ pc' \in [Others -> Places]
      /\ pc'[n] = p /\ \A m \in Others : m # n => pc'[m] = pc[m]
      /\ HoldInv'
  BY MoveOnly
<1>2. TypeOK'
  BY <1>1 DEF TypeOK, Places
<1>3. BitInv'
  <2>1. ASSUME NEW m \in Others, Spins(m) PROVE Spins(m)'
    BY <1>1, <2>1 DEF Spins
  <2> QED BY <2>1 DEF BitInv, At, Top
<1>4. Alerted => Alerted'
  <2>1. \A m \in Others : pc[m].at = "notify" => pc'[m].at = "notify"
    BY <1>1
  <2> QED BY <2>1 DEF Alerted
<1>5. p.at = "notify" => Alerted' /\ Posted'
  BY <1>1 DEF Alerted, Posted, Posts
<1>6. program.isMain => (Posted => Posted')
  <2>1. ASSUME program.isMain, NEW m \in Others, Posts(m) PROVE Posts(m)'
    BY <1>1, <2>1 DEF Posts
  <2> QED BY <2>1 DEF Posted
<1> QED BY <1>1, <1>2, <1>3, <1>4, <1>5, <1>6, OtherStep

\* The fetch-or of a notification: who finds an address spins until it is left.
LEMMA NotifyKeeps ==
    ASSUME NotifyInv, NEW n \in Others, Notify(n), UNCHANGED program
    PROVE  NotifyInv'
<1> USE DEF NotifyInv
<1> DEFINE p == IF waitAddr.addr = NoAddr \/ waitAddr.notified THEN Notified(n)
                ELSE [pc[n] EXCEPT !.at = "spin", !.addr = waitAddr.addr]
<1>1. /\ pc[n].at = "notify" /\ waitAddr' = [waitAddr EXCEPT !.notified = TRUE] /\ Move(n, p)
      /\ UNCHANGED <<open, cancel, crashed, work, posts, inUse, processing, stack, end>>
  BY DEF Notify
<1>2. pc[n] \in Places /\ waitAddr \in [addr : Words \union {NoAddr}, notified : BOOLEAN]
  BY DEF TypeOK, Places
<1>3. p \in Places
  BY <1>2 DEF Places, Notified, Place, Idle
<1>4. /\ pc \in [Others -> Places] /\ pc' \in [Others -> Places]
      /\ pc'[n] = p /\ \A m \in Others : m # n => pc'[m] = pc[m]
      /\ HoldInv'
  <2> HIDE DEF p
  <2> QED BY <1>1, <1>3, MoveOnly
<1>5. waitAddr' = Bit(waitAddr.addr, TRUE) /\ waitAddr'.notified /\ waitAddr'.addr = waitAddr.addr
  BY <1>1, <1>2 DEF Bit
<1>6. TypeOK'
  BY <1>1, <1>2, <1>4, <1>5 DEF TypeOK, Places
<1>7. Alerted' /\ Posted'
  BY <1>5 DEF Alerted, Posted
<1>8. BitInv'
  <2> SUFFICES ASSUME At("sleep") \/ At("asleep")
               PROVE  waitAddr.addr = Top.addr /\ \E m \in Others : Spins(m)'
    BY <1>1, <1>5 DEF BitInv, At, Top
  <2>1. waitAddr.addr = Top.addr /\ (waitAddr.notified => \E m \in Others : Spins(m))
    BY DEF BitInv
  <2>2. Top.addr # NoAddr
    <3>1. stack # <<>> /\ Top.at \in Waiting
      BY DEF At, Top, Waiting
    <3>2. Top.addr \in Words
      BY <3>1, TopFrame, FrameKinds
    <3> QED BY <3>2, LocksApart
  <2>3. CASE waitAddr.notified
    <3>1. PICK m \in Others : Spins(m)
      BY <2>1, <2>3
    <3>2. m # n
      BY <1>1, <3>1 DEF Spins
    <3>3. waitAddr' = waitAddr
      BY <1>2, <1>5, <2>3 DEF Bit
    <3>4. Spins(m)'
      BY <1>4, <3>1, <3>2, <3>3 DEF Spins
    <3> QED BY <2>1, <3>4
  <2>4. CASE ~waitAddr.notified
    <3>1. p.at = "spin" /\ p.addr = waitAddr.addr
      BY <1>2, <2>1, <2>2, <2>4 DEF Places
    <3> HIDE DEF p
    <3>2. Spins(n)'
      BY <1>4, <1>5, <3>1 DEF Spins
    <3> QED BY <2>1, <3>2
  <2> QED BY <2>3, <2>4
<1> QED BY <1>1, <1>4, <1>6, <1>7, <1>8, OtherStep DEF TypeOK

\* Every step of another thread keeps the invariant.
LEMMA OthersKeep ==
    ASSUME NotifyInv, NEW n \in Others, Finishes(n) \/ Starts(n)
    PROVE  NotifyInv'
<1>1. UNCHANGED program
  BY DEF Finishes, Starts
<1>2. pc[n] \in Places
  BY DEF NotifyInv, TypeOK, Places
<1>3. Idle \in Places /\ Idle.at = "idle" /\ \A at, a : Place(at, a).at = at /\ ~Place(at, a).kills
  BY DEF Places, Idle, Place
<1>4. CASE Wake(n)
  <2> DEFINE p == IF pc[n].addr = QLock THEN Place("enqueue", NoAddr) ELSE Idle
  <2>1. p \in Places /\ (pc[n].addr = QLock => p.at = "enqueue")
    BY <1>3 DEF Places, Place
  <2>2. pc[n].at = "wake" /\ WakeUp(pc[n].addr) /\ Move(n, p)
    BY <1>4 DEF Wake
  <2>3. UNCHANGED <<program, waitAddr, open, cancel, crashed, work, posts, inUse, processing, end>>
    BY <1>1, <1>4 DEF Wake
  <2>4. ~Spins(n) /\ (Posts(n) => p.at = "enqueue")
    BY <2>1, <2>2 DEF Spins, Posts
  <2> HIDE DEF p
  <2> QED BY <2>1, <2>2, <2>3, <2>4, WakesKeep
<1>5. CASE WakeAll(n)
  <2> DEFINE p == [pc[n] EXCEPT !.at = "spin"]
  <2>1. p \in Places /\ p.at = "spin" /\ p.addr = pc[n].addr /\ p.kills = pc[n].kills
    BY <1>2 DEF Places
  <2>2. pc[n].at = "wakeall" /\ WakeUp(pc[n].addr) /\ Move(n, p)
    BY <1>5 DEF WakeAll
  <2>3. UNCHANGED <<program, waitAddr, open, cancel, crashed, work, posts, inUse, processing, end>>
    BY <1>1, <1>5 DEF WakeAll
  <2>4. Posts(n) => p.kills
    BY <2>1, <2>2 DEF Posts
  <2> HIDE DEF p
  <2> QED BY <2>1, <2>2, <2>3, <2>4, WakesKeep
<1>6. CASE Notify(n)
  BY <1>1, <1>6, NotifyKeeps
<1>7. CASE Spin(n)
  <2> DEFINE p == IF waitAddr = Bit(pc[n].addr, TRUE) THEN [pc[n] EXCEPT !.at = "wakeall"]
                  ELSE Notified(n)
  <2>1. p \in Places
    BY <1>2, <1>3 DEF Places, Notified, Place
  <2>2. pc[n].at = "spin" /\ Move(n, p)
    BY <1>7 DEF Spin
  <2>3. Spins(n) => p.at = "wakeall" /\ p.addr = pc[n].addr
    BY <1>2 DEF Spins, Places
  <2>4. Posts(n) => p.at = "kill" \/ (p.at = "wakeall" /\ p.kills)
    <3>1. Posts(n) => pc[n].kills
      BY <2>2 DEF Posts
    <3>2. CASE waitAddr = Bit(pc[n].addr, TRUE)
      <4>1. p.at = "wakeall" /\ p.kills = pc[n].kills
        BY <1>2, <3>2 DEF Places
      <4> QED BY <3>1, <4>1
    <3>3. CASE waitAddr # Bit(pc[n].addr, TRUE)
      <4>1. p = Notified(n)
        BY <3>3
      <4>2. pc[n].kills => p.at = "kill"
        BY <1>3, <4>1 DEF Notified
      <4> QED BY <3>1, <4>2
    <3> QED BY <3>2, <3>3
  <2>5. cancel' \in BOOLEAN /\ crashed' \in BOOLEAN /\ work' \in Nat
    BY <1>7 DEF Spin, NotifyInv, TypeOK
  <2>6. UNCHANGED <<program, waitAddr, open, posts, inUse, processing, stack, end>>
        /\ UNCHANGED <<cancel, crashed, work>>
    BY <1>1, <1>7 DEF Spin
  <2> HIDE DEF p
  <2> QED BY <2>1, <2>2, <2>3, <2>4, <2>5, <2>6, ChangeKeeps
<1>8. CASE Enqueue(n)
  <2> DEFINE p == IF program.isMain THEN Place("notify", NoAddr) ELSE Idle
  <2>1. p \in Places /\ (program.isMain => p.at = "notify")
    BY <1>3 DEF Places, Place
  <2>2. pc[n].at = "enqueue" /\ Move(n, p)
    BY <1>8 DEF Enqueue
  <2>3. cancel' \in BOOLEAN /\ crashed' \in BOOLEAN /\ work' \in Nat
    BY <1>8 DEF Enqueue, NotifyInv, TypeOK
  <2>4. UNCHANGED <<program, waitAddr, open, posts, inUse, processing, stack, end>>
        /\ UNCHANGED <<cancel, crashed>>
    BY <1>1, <1>8 DEF Enqueue
  <2>5. ~Spins(n)
    BY <2>2 DEF Spins
  <2> HIDE DEF p
  <2> QED BY <2>1, <2>2, <2>3, <2>4, <2>5, ChangeKeeps
<1>9. CASE Cancel(n) \/ Crash(n)
  <2> DEFINE p == IF Cancel(n) THEN [Place("notify", NoAddr) EXCEPT !.kills = TRUE]
                  ELSE Place("notify", NoAddr)
  <2>1. p \in Places /\ p.at = "notify"
    BY DEF Places, Place
  <2>2. pc[n].at = "idle" /\ Move(n, p)
    BY <1>3, <1>9 DEF Cancel, Crash
  <2>3. /\ cancel' \in BOOLEAN /\ crashed' \in BOOLEAN /\ work' \in Nat /\ work' = work
        /\ (cancel => cancel') /\ (crashed => crashed') /\ (crashed' => crashed \/ program.isMain)
    <3>1. cancel \in BOOLEAN /\ crashed \in BOOLEAN /\ work \in Nat
      BY DEF NotifyInv, TypeOK
    <3>2. CASE Cancel(n)
      BY <3>1, <3>2 DEF Cancel
    <3>3. CASE Crash(n)
      BY <3>1, <3>3 DEF Crash
    <3> QED BY <1>9, <3>2, <3>3
  <2>4. UNCHANGED <<program, waitAddr, open, posts, inUse, processing, stack, end>>
    BY <1>1, <1>9 DEF Cancel, Crash
  <2>5. ~Spins(n)
    BY <2>2 DEF Spins
  <2> HIDE DEF p
  <2> QED BY <2>1, <2>2, <2>3, <2>4, <2>5, ChangeKeeps
<1>10. CASE \E l \in Locks : Acquire(n, l)
  BY <1>1, <1>10, AcquireKeeps
<1>11. CASE \E a \in Words : OpenWord(n, a)
  BY <1>1, <1>11, OpenWordKeeps
<1> QED
  BY <1>4, <1>5, <1>6, <1>7, <1>8, <1>9, <1>10, <1>11 DEF Finishes, Starts, Words, Locks

-----------------------------------------------------------------------------
(***************************************************************************)
(* The invariant, and what follows from it                                 *)
(***************************************************************************)
\* At the start one frame of user code is on the stack, and nothing is going on.
LEMMA InitNotify == Init => NotifyInv
<1> SUFFICES ASSUME Init PROVE NotifyInv
  OBVIOUS
<1>1. Code("user") \in Frames /\ Code("user").at = "user" /\ Code("user").mode = "enable"
  BY NewFrames DEF CodePlaces
<1>2. /\ stack = <<Code("user")>> /\ stack \in Seq(Frames) /\ stack # <<>> /\ Len(stack) = 1
      /\ DOMAIN stack = {1} /\ stack[1] = Code("user")
  BY <1>1 DEF Init
<1>3. TypeOK
  <2>1. Bit(NoAddr, FALSE) \in [addr : Words \union {NoAddr}, notified : BOOLEAN]
    BY DEF Bit
  <2>2. Idle \in Places
    BY DEF Idle, Place, Places
  <2>3. open \subseteq Words
    BY DEF Init, Words
  <2>4. 0 \in 0..MaxPosts
    BY FutexNotifyAssumption
  <2> QED BY <1>2, <2>1, <2>2, <2>3, <2>4 DEF Init, TypeOK, Places
<1>4. \A P : Has(stack, P) <=> "user" \in P
  BY <1>1, <1>2 DEF Has
<1>5. ShapeInv
  <2>1. Chained(stack)
    BY <1>1, <1>2 DEF Chained, Allowed
  <2>2. ~Has(stack, Guarded) /\ ~Has(stack, Processes) /\ Depth(stack)
    BY <1>4 DEF Guarded, Processes, Depth
  <2>3. Once(stack)
    BY <1>2 DEF Once
  <2> QED BY <2>1, <2>2, <2>3 DEF ShapeInv, Init
<1>6. HoldInv
  BY DEF HoldInv, Init
<1>7. BitInv
  BY <1>1, <1>2 DEF BitInv, At
<1>8. CancelInv /\ CrashInv
  BY DEF CancelInv, CrashInv, Init
<1>9. WorkInv
  <2>1. ~(work > 0)
    BY DEF Init
  <2> QED BY <2>1 DEF WorkInv
<1> QED BY <1>3, <1>5, <1>6, <1>7, <1>8, <1>9 DEF NotifyInv

\* No step disturbs the invariant, and so every state that can be reached has it.
THEOREM NotifyInvariant == Spec => []NotifyInv
<1>1. Init => NotifyInv
  BY InitNotify
<1>2. NotifyInv /\ [Next]_vars => NotifyInv'
  <2> SUFFICES ASSUME NotifyInv, [Next]_vars PROVE NotifyInv'
    OBVIOUS
  <2>1. CASE Runs \/ Chooses
    BY <2>1, ThreadKeeps
  <2>2. CASE \E n \in Others : Finishes(n) \/ Starts(n)
    BY <2>2, OthersKeep
  <2>3. CASE UNCHANGED vars
    <3>1. UNCHANGED <<program, waitAddr, open, cancel, crashed, work, posts, inUse, processing,
                      stack, end, pc>>
      BY <2>3 DEF vars
    <3>2. TypeOK'
      BY <3>1 DEF NotifyInv, TypeOK
    <3>3. HoldInv'
      BY <3>1, SelfHoldsKept DEF NotifyInv, HoldInv, Held
    <3>4. BitInv'
      BY <3>1 DEF NotifyInv, BitInv, Spins, At, Top
    <3>5. (Alerted => Alerted') /\ (Posted => Posted')
      BY <3>1 DEF Alerted, Posted, Posts
    <3> QED BY <3>1, <3>2, <3>3, <3>4, <3>5, OtherStep
  <2> QED BY <2>1, <2>2, <2>3 DEF Next
<1> QED BY <1>1, <1>2, PTL DEF Spec

\* Every variable has a value of its type; a task is never taken from an empty queue.
THEOREM TypeCorrect == Spec => []TypeOK
<1>1. NotifyInv => TypeOK
  BY DEF NotifyInv
<1> QED BY <1>1, NotifyInvariant, PTL

\* A thread that was notified and spins on what the thread published will wake it.
LEMMA SpinsWake == (\E n \in Others : Spins(n)) => WakeComing
  BY DEF Spins, WakeComing

\* While the thread sleeps, whatever alerts it comes to wake it.
LEMMA AlertedWakes ==
    ASSUME NotifyInv, At("asleep"), Alerted
    PROVE  WakeComing
<1>1. CASE waitAddr.notified
  BY <1>1, SpinsWake DEF NotifyInv, BitInv
<1>2. CASE \E n \in Others : pc[n].at = "notify"
  BY <1>2 DEF WakeComing
<1> QED BY <1>1, <1>2 DEF Alerted

\* A notification that arrives between the publication of the address and the sleep
\* is delivered: its notifier wakes until the thread has left.
THEOREM Delivered == Spec => []NotificationDelivered
<1>1. NotifyInv => NotificationDelivered
  BY SpinsWake DEF NotifyInv, BitInv, NotificationDelivered, At
<1> QED BY <1>1, NotifyInvariant, PTL

\* The main thread does not sleep on work that it has neither been told of nor is
\* inside of.
THEOREM WorkNotSleptOn == Spec => []NoSleepOnWork
<1>1. NotifyInv => NoSleepOnWork
  <2> SUFFICES ASSUME NotifyInv, ~program.allocates, "masked" \notin program.modes,
                      At("asleep"), program.isMain, work > 0, ~inUse, ~processing
               PROVE  WakeComing
    BY DEF NoSleepOnWork, WorkInterruptsWait
  <2>1. stack # <<>> /\ Top.at = "asleep"
    BY DEF At, Top
  <2>2. ~Has(stack, {"find"})
    <3>1. ~Has(stack, Guarded)
      BY DEF NotifyInv, ShapeInv
    <3> QED BY <3>1 DEF Has, Guarded
  <2>3. Posted
    BY <2>1, <2>2 DEF NotifyInv, WorkInv
  <2>4. CASE waitAddr.notified
    BY <2>4, SpinsWake DEF NotifyInv, BitInv
  <2>5. CASE \E n \in Others : Posts(n)
    BY <2>5 DEF Posts, WakeComing
  <2> QED BY <2>3, <2>4, <2>5 DEF Posted
<1> QED BY <1>1, NotifyInvariant, PTL

\* A pthread does not sleep through its cancellation.
THEOREM CancelNotSleptOn == Spec => []NoSleepOnCancel
<1>1. NotifyInv => NoSleepOnCancel
  BY AlertedWakes DEF NotifyInv, CancelInv, NoSleepOnCancel, At, Top
<1> QED BY <1>1, NotifyInvariant, PTL

\* The main thread does not sleep through the report of a crash, unless it may be
\* cancelled in pthread_cond_wait.
THEOREM CrashNotSleptOn == Spec => []NoSleepOnCrash
<1>1. NotifyInv => NoSleepOnCrash
  BY AlertedWakes DEF NotifyInv, CrashInv, NoSleepOnCrash, At, Top
<1> QED BY <1>1, NotifyInvariant, PTL

\* The guards of the system queue are up only while a frame on the stack will take
\* them down, and one frame at most processes the task queue.
THEOREM GuardsExact == Spec => []GuardsMatchStack
<1>1. NotifyInv => GuardsMatchStack
  <2> SUFFICES ASSUME NotifyInv, stack # <<>>
               PROVE  /\ inUse => {i \in DOMAIN stack : stack[i].at \in
                                     {"find", "loop", "unguard", "alloc", "send"}} # {}
                      /\ processing => {i \in DOMAIN stack : stack[i].at \in
                                          {"loop", "mailbox"}} # {}
                      /\ Cardinality({i \in DOMAIN stack : stack[i].at \in
                                        {"loop", "mailbox"}}) <= 1
    BY DEF GuardsMatchStack
  <2> USE DEF NotifyInv
  <2>1. inUse => \E i \in DOMAIN stack :
                    stack[i].at \in {"find", "loop", "unguard", "alloc", "send"}
    BY DEF ShapeInv, Has, Guarded
  <2>2. processing => \E i \in DOMAIN stack : stack[i].at \in {"loop", "mailbox"}
    BY DEF ShapeInv, Has, Processes
  <2> DEFINE W == {i \in DOMAIN stack : stack[i].at \in {"loop", "mailbox"}}
  <2>3. Cardinality(W) <= 1
    <3>1. CASE W = {}
      BY <3>1, FS_EmptySet
    <3>2. CASE W # {}
      <4>1. PICK i \in W : TRUE
        BY <3>2
      <4>2. W = {i}
        BY <4>1 DEF ShapeInv, Once, Processes
      <4>3. Cardinality({i}) = 1
        BY FS_Singleton
      <4> HIDE DEF W
      <4>4. Cardinality(W) = 1
        BY <4>2, <4>3
      <4> QED BY <4>4
    <3> QED BY <3>1, <3>2
  <2> QED BY <2>1, <2>2, <2>3
<1> QED BY <1>1, NotifyInvariant, PTL

\* The thread never waits for a lock that it holds itself.
THEOREM NeverAgainstItself == Spec => []NoSelfDeadlock
<1>1. NotifyInv => NoSelfDeadlock
  <2> SUFFICES ASSUME NotifyInv, At("asleep"), Top.addr \in Locks, Top.addr \notin open
               PROVE  Top.addr \in Held
    BY DEF NoSelfDeadlock, Held
  <2> USE DEF NotifyInv
  <2>1. stack # <<>> /\ Top.at = "asleep"
    BY DEF At, Top
  <2>2. SelfHolds(Top.addr) \/ Top.addr \in Held
    BY <2>1 DEF HoldInv
  <2>3. ASSUME SelfHolds(Top.addr) PROVE FALSE
    <3>1. Top.addr = QLock /\ Has(stack, {"alloc"})
      BY <2>1, <2>3 DEF SelfHolds, At, Top
    <3>2. Tail(stack) # <<>> /\ Link(Top, Tail(stack)[1])
      BY <2>1, TopFrame
    <3>3. Tail(stack)[1].at \in {"find", "own"}
      BY <2>1, <3>1, <3>2 DEF Link, Waiting
    <3>4. Has(stack, Guarded)
      BY <3>1 DEF Has, Guarded
    <3>5. LockTaken(Tail(stack))
      BY <2>1, <3>4 DEF ShapeInv, Depth, LockTaken, InLock, InYield, Guarded, Top
    <3>6. Tail(stack)[1].at = "find" /\ ~Has(Tail(Tail(stack)), Guarded)
      BY <3>3, <3>5 DEF LockTaken, Guarded
    <3>7. ~Has(Tail(Tail(stack)), {"alloc"})
      BY <3>6 DEF Has, Guarded
    <3>8. Has(stack, {"alloc"}) <=> Top.at \in {"alloc"} \/ Has(Tail(stack), {"alloc"})
      BY <2>1, TopFrame
    <3>9. Has(Tail(stack), {"alloc"})
             <=> Tail(stack)[1].at \in {"alloc"} \/ Has(Tail(Tail(stack)), {"alloc"})
      BY <2>1, <3>2, TopFrame, HasTop
    <3> QED BY <2>1, <3>1, <3>6, <3>7, <3>8, <3>9
  <2> QED BY <2>2, <2>3
<1> QED BY <1>1, NotifyInvariant, PTL

=============================================================================
