---------------------------- MODULE FutexNotify ----------------------------
(***************************************************************************)
(* Precise wake-ups: how another thread interrupts emscripten_futex_wait.  *)
(* system/lib/pthread/emscripten_futex_wait.c, emscripten_futex_wake.c,    *)
(* emscripten_yield.c, the system queue of proxying.c and pthread_cancel.  *)
(*                                                                         *)
(* One thread waits, where Atomics.wait is allowed: a pthread, or the main *)
(* runtime thread in Node.js or in a worker, which also has to run the     *)
(* work of the system queue while it waits.  The Others post that work,    *)
(* cancel the thread, crash, open the words it waits for, and compete with *)
(* it for the locks it takes on the way.  A futex word is abstracted to    *)
(* open or not: a waiter loops until its word is open, which for a lock    *)
(* means free.  Waits are without time limit: a wait with one ends by      *)
(* itself, so that nothing can be lost in it for good.                     *)
(*                                                                         *)
(* The waiting thread is a stack of C frames, because the yield after a    *)
(* wait runs queued tasks, which may wait in turn.                         *)
(***************************************************************************)
EXTENDS Naturals, Sequences, FiniteSets

CONSTANTS
    Programs,         \* what the waiting thread is and does: see Program
    Others,           \* the threads that do not wait
    Flags,            \* futex words opened by other threads: condition variables, joins
    QLock, Heap,      \* system_proxying_queue.mutex, and the lock of malloc
    Mutex,            \* the mutex that goes with a condition variable
    NoAddr,           \* the null wait_addr
    MaxPosts          \* bound: how many tasks are posted

Locks == {QLock, Heap, Mutex}
Words == Flags \union Locks

Mode == {"enable", "masked", "disable"}

\* isMain: the main runtime thread, or a pthread; modes: how it waits (WaitFor);
\* tasksWait: its tasks may wait in turn; allocates: its own do_proxy may have to
\* allocate a task queue.
Program == [isMain : BOOLEAN, modes : SUBSET Mode, tasksWait : BOOLEAN, allocates : BOOLEAN]

ASSUME FutexNotifyAssumption ==
    /\ Cardinality(Locks) = 3 /\ Locks \cap Flags = {} /\ NoAddr \notin Words
    /\ IsFiniteSet(Others) /\ MaxPosts \in Nat
    /\ Programs \subseteq Program

VARIABLES
    program,        \* the program that runs: one of Programs
    waitAddr,       \* wait_addr: the address, and NOTIFY_BIT
    open,           \* the words that are open
    cancel,         \* self->cancel
    crashed,        \* crashed_thread_id is set
    work,           \* tasks in the thread's task queue of the system queue
    posts,          \* tasks posted so far
    inUse,          \* system_queue_in_use
    processing,     \* processing, of that task queue
    stack,          \* the thread's C frames, innermost first
    end,            \* how the thread left the code modelled here
    pc              \* of each other thread: its place, and the address it handles

vars == <<program, waitAddr, open, cancel, crashed, work, posts, inUse, processing,
          stack, end, pc>>

Bit(a, b) == [addr |-> a, notified |-> b]
Frame(at, a, m) == [at |-> at, addr |-> a, mode |-> m]
Code(at) == Frame(at, NoAddr, "enable")
Waiting == {"testcancel", "check", "publish", "sleep", "asleep", "clear", "cancel", "yield"}
Frames == [at : Waiting, addr : Words, mode : Mode]
          \union {Code(at) : at \in {"user", "task", "guard", "find", "loop", "mailbox",
                                     "unguard", "own", "alloc", "send"}}
\* kills: the thread is in pthread_cancel, before its pthread_kill.
Place(at, a) == [at |-> at, addr |-> a, kills |-> FALSE]
Idle == Place("idle", NoAddr)

-----------------------------------------------------------------------------
Init ==
    /\ program \in Programs
    /\ waitAddr = Bit(NoAddr, FALSE)
    /\ open = Locks
    /\ cancel = FALSE /\ crashed = FALSE
    /\ work = 0 /\ posts = 0 /\ inUse = FALSE /\ processing = FALSE
    /\ stack = <<Code("user")>> /\ end = "no"
    /\ pc = [n \in Others |-> Idle]

\* The frame that runs; it moves on, calls, or returns.
At(at) == stack # <<>> /\ stack[1].at = at
Top == stack[1]
Goto(at) == stack' = <<[Top EXCEPT !.at = at]>> \o Tail(stack)
Call(f) == stack' = <<f>> \o stack
CallThen(at, f) == stack' = <<f, [Top EXCEPT !.at = at]>> \o Tail(stack)
Return == stack' = Tail(stack)

\* A wait for a mutex (pthread_mutex_lock): __timedwait disables cancellation.
Lock(l) == Frame("check", l, "disable")

\* The thread runs code of the program from which it may call into the runtime.
InUserCode == At("user") \/ (At("task") /\ program.tasksWait)

-----------------------------------------------------------------------------
(***************************************************************************)
(* Faulty variants, to show that the properties notice the fault; they are *)
(* no part of the specification.                                           *)
(***************************************************************************)
\* The wait address stored without looking at the notification.
Publish_MutantStore ==
    /\ At("publish")
    /\ waitAddr' = Bit(Top.addr, FALSE) /\ Goto("sleep")
    /\ UNCHANGED <<open, cancel, crashed, work, posts, inUse, processing, end, pc>>

\* One wake-up, no loop.
WakeAll_MutantOnce(n) ==
    /\ pc[n].at = "wakeall"
    /\ IF At("asleep") /\ Top.addr = pc[n].addr THEN Goto("clear") ELSE UNCHANGED stack
    /\ pc' = [pc EXCEPT ![n] = Idle]
    /\ UNCHANGED <<waitAddr, open, cancel, crashed, work, posts, inUse, processing, end>>

\* The notifier keeps waking whoever is at the address.
Spin_MutantForever(n) ==
    /\ pc[n].at = "spin"
    /\ pc' = [pc EXCEPT ![n].at = "wakeall"]
    /\ UNCHANGED <<waitAddr, open, cancel, crashed, work, posts, inUse, processing,
                   stack, end>>

\* The yield that does not look for a crashed thread.
Yield_MutantBlind ==
    /\ At("yield")
    /\ IF program.isMain THEN CallThen("check", Code("guard")) ELSE Goto("check")
    /\ UNCHANGED <<waitAddr, open, cancel, crashed, work, posts, inUse, processing,
                   end, pc>>

\* pthread_cancel that leaves the wake-up to the signal.
Cancel_MutantNoNotify(n) ==
    /\ pc[n] = Idle /\ ~cancel
    /\ cancel' = TRUE /\ pc' = [pc EXCEPT ![n] = Place("kill", NoAddr)]
    /\ UNCHANGED <<waitAddr, open, crashed, work, posts, inUse, processing, stack, end>>

\* The task loop that does not look whether the queue is empty.
Loop_MutantBlind ==
    /\ At("loop") \/ At("mailbox")
    /\ work' = work - 1 /\ Call(Code("task"))
    /\ UNCHANGED <<waitAddr, open, cancel, crashed, posts, inUse, processing, end, pc>>

\* The queue processed although it is being processed further out.
Find_MutantNested ==
    /\ At("find")
    /\ open' = open \union {QLock}
    /\ Goto("loop") /\ processing' = TRUE
    /\ UNCHANGED <<waitAddr, cancel, crashed, work, posts, inUse, end, pc>>

\* The guard not looked at before the lock is taken.
Guard_MutantNone ==
    /\ At("guard")
    /\ inUse' = TRUE /\ CallThen("find", Lock(QLock))
    /\ UNCHANGED <<waitAddr, open, cancel, crashed, work, posts, processing, end, pc>>

-----------------------------------------------------------------------------
(***************************************************************************)
(* The waiting thread: emscripten_futex_wait, called in a loop             *)
(***************************************************************************)
\* The thread waits for a fresh word: in a cancellation point such as pthread_join
\* ("enable"), in pthread_cond_wait, which masks cancellation ("masked"), or with
\* cancellation disabled, as for a mutex.
WaitFor(f, m) ==
    /\ InUserCode
    /\ \A i \in DOMAIN stack : stack[i].addr # f
    /\ Call(Frame("testcancel", f, m)) /\ open' = open \ {f}
    /\ UNCHANGED <<waitAddr, cancel, crashed, work, posts, inUse, processing, end, pc>>

\* __cancel: pthread_exit; or, for a masked thread, ECANCELED to the caller, which
\* takes its mutex back before it looks for the cancellation again.
ActOnCancel ==
    IF Top.mode = "enable"
    THEN stack' = <<>> /\ end' = "exited"
    ELSE /\ stack' = <<Lock(Mutex), Frame("testcancel", Top.addr, "enable")>> \o Tail(stack)
         /\ UNCHANGED end

\* pthread_testcancel
TestCancel ==
    /\ At("testcancel")
    /\ IF cancel /\ Top.mode # "disable"
       THEN stack' = <<>> /\ end' = "exited"
       ELSE Goto("check") /\ UNCHANGED end
    /\ UNCHANGED <<waitAddr, open, cancel, crashed, work, posts, inUse, processing, pc>>

\* The caller looks at the word; a lock that is free is taken.
Check ==
    /\ At("check")
    /\ IF Top.addr \in open
       THEN Return /\ open' = open \ ({Top.addr} \cap Locks)
       ELSE Goto("publish") /\ UNCHANGED open
    /\ UNCHANGED <<waitAddr, cancel, crashed, work, posts, inUse, processing, end, pc>>

\* The compare-and-swap of wait_addr from null to the address
Publish ==
    /\ At("publish")
    /\ IF waitAddr = Bit(NoAddr, FALSE)
       THEN waitAddr' = Bit(Top.addr, FALSE) /\ Goto("sleep")
       ELSE UNCHANGED waitAddr /\ Goto("clear")
    /\ UNCHANGED <<open, cancel, crashed, work, posts, inUse, processing, end, pc>>

\* memory.atomic.wait32: it returns at once when the word has changed
Sleep ==
    /\ At("sleep")
    /\ Goto(IF Top.addr \in open THEN "clear" ELSE "asleep")
    /\ UNCHANGED <<waitAddr, open, cancel, crashed, work, posts, inUse, processing,
                   end, pc>>

Clear ==
    /\ At("clear")
    /\ waitAddr' = Bit(NoAddr, FALSE) /\ Goto("cancel")
    /\ UNCHANGED <<open, cancel, crashed, work, posts, inUse, processing, end, pc>>

CheckCancel ==
    /\ At("cancel")
    /\ IF cancel /\ Top.mode # "disable" THEN ActOnCancel
       ELSE Goto("yield") /\ UNCHANGED end
    /\ UNCHANGED <<waitAddr, open, cancel, crashed, work, posts, inUse, processing, pc>>

\* _emscripten_yield: the main runtime thread unwinds to the event loop when a
\* thread has crashed, and else processes the queued calls.
Yield ==
    /\ At("yield")
    /\ \/ ~program.isMain /\ Goto("check") /\ UNCHANGED end
       \/ program.isMain /\ crashed /\ stack' = <<>> /\ end' = "crash"
       \/ program.isMain /\ ~crashed /\ CallThen("check", Code("guard")) /\ UNCHANGED end
    /\ UNCHANGED <<waitAddr, open, cancel, crashed, work, posts, inUse, processing, pc>>

-----------------------------------------------------------------------------
(***************************************************************************)
(* The waiting thread: the system queue                                    *)
(***************************************************************************)
\* emscripten_current_thread_process_queued_calls, called from user code; and
\* the mailbox, which runs the task queue without the guard.
ProcessCalls ==
    /\ InUserCode
    /\ Call(Code("guard"))
    /\ UNCHANGED <<waitAddr, open, cancel, crashed, work, posts, inUse, processing,
                   end, pc>>

ReceiveMail ==
    /\ At("user")
    /\ Call(Code("mailbox")) /\ processing' = TRUE
    /\ UNCHANGED <<waitAddr, open, cancel, crashed, work, posts, inUse, end, pc>>

Guard ==
    /\ At("guard")
    /\ IF inUse THEN Return /\ UNCHANGED inUse
       ELSE inUse' = TRUE /\ CallThen("find", Lock(QLock))
    /\ UNCHANGED <<waitAddr, open, cancel, crashed, work, posts, processing, end, pc>>

\* get_tasks_for_thread, and the unlock, whose waiters need no wake-up here.
Find ==
    /\ At("find")
    /\ open' = open \union {QLock}
    /\ IF processing THEN Goto("unguard") /\ UNCHANGED processing
       ELSE Goto("loop") /\ processing' = TRUE
    /\ UNCHANGED <<waitAddr, cancel, crashed, work, posts, inUse, end, pc>>

\* em_task_queue_execute: the next task, or the end of the loop.
Loop ==
    /\ At("loop") \/ At("mailbox")
    /\ IF work > 0
       THEN work' = work - 1 /\ Call(Code("task")) /\ UNCHANGED processing
       ELSE /\ UNCHANGED work /\ processing' = FALSE
            /\ IF At("loop") THEN Goto("unguard") ELSE Return
    /\ UNCHANGED <<waitAddr, open, cancel, crashed, posts, inUse, end, pc>>

TaskReturns ==
    /\ At("task") /\ Return
    /\ UNCHANGED <<waitAddr, open, cancel, crashed, work, posts, inUse, processing,
                   end, pc>>

Unguard ==
    /\ At("unguard")
    /\ inUse' = FALSE /\ Return
    /\ UNCHANGED <<waitAddr, open, cancel, crashed, work, posts, processing, end, pc>>

\* do_proxy, called by the waiting thread for another target: the lock, the
\* guard around the allocation of a task queue, the unlock.
Proxy ==
    /\ InUserCode
    /\ stack' = <<Lock(QLock), Code("own")>> \o stack
    /\ UNCHANGED <<waitAddr, open, cancel, crashed, work, posts, inUse, processing,
                   end, pc>>

ProxyGuard ==
    /\ At("own")
    /\ inUse' = TRUE
    /\ \/ Goto("send")
       \/ program.allocates /\ CallThen("alloc", Lock(Heap))
    /\ UNCHANGED <<waitAddr, open, cancel, crashed, work, posts, processing, end, pc>>

ProxyAllocated ==
    /\ At("alloc")
    /\ open' = open \union {Heap} /\ Goto("send")
    /\ UNCHANGED <<waitAddr, cancel, crashed, work, posts, inUse, processing, end, pc>>

ProxyUnguard ==
    /\ At("send")
    /\ inUse' = FALSE /\ open' = open \union {QLock} /\ Return
    /\ UNCHANGED <<waitAddr, cancel, crashed, work, posts, processing, end, pc>>

-----------------------------------------------------------------------------
(***************************************************************************)
(* The other threads                                                       *)
(***************************************************************************)
Move(n, p) == pc' = [pc EXCEPT ![n] = p]

\* Takes a lock.  QLock is taken to post a task, which pthread_kill does too.
Acquire(n, l) ==
    /\ l \in open
    /\ \/ pc[n] = Idle /\ l # QLock /\ UNCHANGED posts
       \/ pc[n] = Idle /\ l = QLock /\ posts < MaxPosts /\ posts' = posts + 1
       \/ pc[n].at = "kill" /\ l = QLock /\ UNCHANGED posts
    /\ open' = open \ {l} /\ Move(n, Place("holds", l))
    /\ UNCHANGED <<waitAddr, cancel, crashed, work, inUse, processing, stack, end>>

\* Releases a lock, or opens a flag, and then wakes a waiter.
OpenWord(n, a) ==
    /\ \/ pc[n] = Place("holds", a)
       \/ pc[n] = Idle /\ a \in Flags \ open
    /\ open' = open \union {a} /\ Move(n, Place("wake", a))
    /\ UNCHANGED <<waitAddr, cancel, crashed, work, posts, inUse, processing, stack, end>>

\* emscripten_futex_wake
WakeUp(a) ==
    IF At("asleep") /\ Top.addr = a THEN Goto("clear") ELSE UNCHANGED stack

Wake(n) ==
    /\ pc[n].at = "wake"
    /\ WakeUp(pc[n].addr)
    /\ Move(n, IF pc[n].addr = QLock THEN Place("enqueue", NoAddr) ELSE Idle)
    /\ UNCHANGED <<waitAddr, open, cancel, crashed, work, posts, inUse, processing, end>>

\* em_task_queue_send, and the rest of do_proxy: only the main runtime thread is
\* interrupted for work.
Enqueue(n) ==
    /\ pc[n].at = "enqueue"
    /\ work' = work + 1 /\ Move(n, IF program.isMain THEN Place("notify", NoAddr) ELSE Idle)
    /\ UNCHANGED <<waitAddr, open, cancel, crashed, posts, inUse, processing, stack, end>>

\* pthread_cancel: the flag, the notification, and then pthread_kill, which posts
\* a task like any other.
Cancel(n) ==
    /\ pc[n] = Idle /\ ~cancel
    /\ cancel' = TRUE /\ Move(n, [Place("notify", NoAddr) EXCEPT !.kills = TRUE])
    /\ UNCHANGED <<waitAddr, open, crashed, work, posts, inUse, processing, stack, end>>

\* _emscripten_thread_crashed
Crash(n) ==
    /\ pc[n] = Idle /\ program.isMain /\ ~crashed
    /\ crashed' = TRUE /\ Move(n, Place("notify", NoAddr))
    /\ UNCHANGED <<waitAddr, open, cancel, work, posts, inUse, processing, stack, end>>

\* _emscripten_thread_notify: the fetch-or, the load, and the wake-up of its loop.
Notified(n) == IF pc[n].kills THEN Place("kill", NoAddr) ELSE Idle

Notify(n) ==
    /\ pc[n].at = "notify"
    /\ waitAddr' = [waitAddr EXCEPT !.notified = TRUE]
    /\ Move(n, IF waitAddr.addr = NoAddr \/ waitAddr.notified THEN Notified(n)
               ELSE [pc[n] EXCEPT !.at = "spin", !.addr = waitAddr.addr])
    /\ UNCHANGED <<open, cancel, crashed, work, posts, inUse, processing, stack, end>>

Spin(n) ==
    /\ pc[n].at = "spin"
    /\ Move(n, IF waitAddr = Bit(pc[n].addr, TRUE) THEN [pc[n] EXCEPT !.at = "wakeall"]
               ELSE Notified(n))
    /\ UNCHANGED <<waitAddr, open, cancel, crashed, work, posts, inUse, processing,
                   stack, end>>

WakeAll(n) ==
    /\ pc[n].at = "wakeall"
    /\ WakeUp(pc[n].addr) /\ Move(n, [pc[n] EXCEPT !.at = "spin"])
    /\ UNCHANGED <<waitAddr, open, cancel, crashed, work, posts, inUse, processing, end>>

-----------------------------------------------------------------------------
\* What the thread does by itself once it is in a call, and what it chooses.
Runs ==
    /\ UNCHANGED program
    /\ \/ TestCancel \/ Check \/ Publish \/ Sleep \/ Clear \/ CheckCancel \/ Yield
       \/ Guard \/ Find \/ Loop \/ TaskReturns \/ Unguard
       \/ ProxyGuard \/ ProxyAllocated \/ ProxyUnguard

Chooses ==
    /\ UNCHANGED program
    /\ \/ \E f \in Flags, m \in program.modes : WaitFor(f, m)
       \/ ProcessCalls \/ ReceiveMail \/ Proxy

Finishes(n) ==
    /\ UNCHANGED program
    /\ \/ Wake(n) \/ Enqueue(n) \/ Notify(n) \/ Spin(n) \/ WakeAll(n)
       \/ \E l \in Locks : pc[n] = Place("holds", l) /\ OpenWord(n, l)
       \/ pc[n].at = "kill" /\ Acquire(n, QLock)

Starts(n) ==
    /\ UNCHANGED program
    /\ \/ \E l \in Locks : Acquire(n, l)
       \/ \E f \in Flags : OpenWord(n, f)
       \/ Cancel(n) \/ Crash(n)

Next == Runs \/ Chooses \/ \E n \in Others : Finishes(n) \/ Starts(n)

Spec == Init /\ [][Next]_vars

\* Every thread is scheduled; nobody has to open a flag, or to start anything.
FairSpec ==
    /\ Spec
    /\ WF_vars(Runs)
    /\ \A n \in Others : WF_vars(Finishes(n))

-----------------------------------------------------------------------------
(***************************************************************************)
(* Properties                                                              *)
(***************************************************************************)
\* Every variable has a value of its type; in particular the task loop never
\* takes a task from an empty queue.
TypeOK ==
    /\ program \in Programs
    /\ waitAddr \in [addr : Words \union {NoAddr}, notified : BOOLEAN]
    /\ open \subseteq Words
    /\ cancel \in BOOLEAN /\ crashed \in BOOLEAN
    /\ work \in Nat /\ posts \in 0..MaxPosts
    /\ inUse \in BOOLEAN /\ processing \in BOOLEAN
    /\ stack \in Seq(Frames) /\ end \in {"no", "exited", "crash"}
    /\ pc \in [Others -> [at : {"idle", "holds", "wake", "enqueue", "notify", "spin",
                                "wakeall", "kill"},
                          addr : Words \union {NoAddr}, kills : BOOLEAN]]

\* Someone is about to wake the thread where it sleeps: notifies it already, or
\* has still to notify it, because it has begun to post a task.
WakeComing ==
    \E n \in Others :
        \/ pc[n].at = "notify"
        \/ pc[n].at \in {"spin", "wakeall"} /\ waitAddr = Bit(pc[n].addr, TRUE)
        \/ program.isMain /\ (pc[n].kills \/ pc[n].at \in {"kill", "enqueue"})
        \/ program.isMain /\ pc[n].at \in {"holds", "wake"} /\ pc[n].addr = QLock

\* "If the waker sets the NOTIFY_BIT just before the waiter enters atomic.wait,
\* the atomic_wake will be delivered once the waiter is asleep": the thread sleeps
\* at the address it published, and a notification is never left on it with nobody
\* on the way to wake it.
NotificationDelivered ==
    At("asleep") => /\ waitAddr.addr = Top.addr
                    /\ waitAddr.notified => WakeComing

\* The main runtime thread does not sleep on work that was posted to it, unless
\* it is already inside that queue: a wake-up is coming.  The documentation says
\* so of every program ...
WorkInterruptsWait ==
    At("asleep") /\ program.isMain /\ work > 0 /\ ~inUse /\ ~processing => WakeComing

\* ... and it is true of those whose main thread neither allocates in do_proxy nor
\* is cancelled in pthread_cond_wait.
NoSleepOnWork ==
    ~program.allocates /\ "masked" \notin program.modes => WorkInterruptsWait

\* A pthread does not sleep through its cancellation where it can be cancelled.
NoSleepOnCancel ==
    At("asleep") /\ ~program.isMain /\ cancel /\ Top.mode # "disable" => WakeComing

\* The main thread does not sleep while a crash waits to be reported, not even
\* inside a task or in the middle of do_proxy. (A pthread_cond_wait that is
\* cancelled takes the notification away and goes to lock its mutex with no yield.)
NoSleepOnCrash ==
    "masked" \notin program.modes => (At("asleep") /\ crashed => WakeComing)

\* The guards of the system queue are set only while a frame that set them is on
\* the stack, so that the queue is never locked out for good; and the task queue
\* is processed by one frame at a time, so that its tasks do not run inside each
\* other.
GuardsMatchStack ==
    LET in(places) == {i \in DOMAIN stack : stack[i].at \in places} IN
    stack # <<>> =>
    /\ inUse => in({"find", "loop", "unguard", "alloc", "send"}) # {}
    /\ processing => in({"loop", "mailbox"}) # {}
    /\ Cardinality(in({"loop", "mailbox"})) <= 1

\* A lock is never waited for by the thread that holds it: the deadlock that
\* system_queue_in_use is there to prevent.
NoSelfDeadlock ==
    At("asleep") /\ Top.addr \in Locks /\ Top.addr \notin open =>
        \E n \in Others : pc[n] = Place("holds", Top.addr)

\* A call of _emscripten_thread_notify returns.
NotifyReturns ==
    \A n \in Others : pc[n].at = "notify" ~> pc[n].at \in {"idle", "kill"}

\* Work posted to the main thread while it waits is done before its wait is over,
\* or when it is.
WorkDoneWhileWaiting ==
    program.isMain /\ work > 0 /\ Len(stack) > 1 ~> work = 0 \/ Len(stack) <= 1

\* A cancelled pthread does not wait for ever in a cancellation point.
CancelEndsWait ==
    ~program.isMain /\ cancel /\ Len(stack) > 1 ~> Len(stack) <= 1
=============================================================================
