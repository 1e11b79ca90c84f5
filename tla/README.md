# A verification project for Emscripten's threading runtime and allocator

Emscripten compiles C and C++ to WebAssembly. Most of the repository is a
compiler driver and adapters from one API to another; what keeps state of its
own, concurrently, and is hard to test, is the runtime that makes POSIX threads
out of Web Workers. A pthread is a worker with a shared heap. It can sleep in
`Atomics.wait` on a word of that heap, or return to an event loop which other
threads wake with a message or with `Atomics.notify`; some services exist on the
main thread only, so work is *proxied* between threads all the time, and the main
thread must do proxied work even while it is blocked itself. All of them share one
heap, which Emscripten's own allocator, emmalloc, manages. This directory holds
TLA+ models of that core, the TLC runs that check them, and proofs about each of them.

## 1. Inventory

Paths are relative to `src/`; `system/lib/pthread/` is written `pthread/`.

### Modelled, whole or in part

**Task queues and thread mailboxes** (`pthread/em_task_queue.c`,
`pthread/thread_mailbox.c`, with `checkMailbox`,
`_emscripten_thread_mailbox_await` and `_emscripten_notify_mailbox_postmessage` of
`src/lib/libpthread.js`).
*State*: a ring buffer of tasks per (proxying queue, target thread), its
`notification` (NONE, RECEIVED, PENDING) and `processing` flags, the zombie list
of destroyed queues; one mailbox per thread, which is again such a queue, of
messages that each name a task queue; `mailbox_refcount`; `waiting_async`.
*Operations*: create, destroy, send, execute, cancel; reference, unreference,
send to, check and shut down a mailbox.
*Hard*: senders, receiver and shutdown meet on atomics without a common lock; the
owner may exit, and its struct be freed and used again, between any two steps of a
sender; a wake-up that is judged unnecessary must really be.
*Correct when*: nothing is used after it is freed; no accepted task and no wake-up
is lost; tasks of a queue run in order, one at a time; shutdown ends.

**Proxying queues** (`pthread/proxying.c`). A growable array of task queues by
thread under a mutex; the *system queue* has two guards against recursion
(`system_queue_in_use`, and `processing` of each task queue); on top of it
asynchronous, synchronous, callback and promise calls with a ctx. 
*State* of a ctx: for a synchronous call a mutex, a condition and
PENDING/DONE/CANCELED; links of a circular list of the contexts a thread has begun
and not finished, kept under a thread-specific key whose destructor cancels them.
*Hard*: the guards are up while the thread yields; a synchronous caller's ctx is on
its stack and goes as soon as it can take the mutex; of a callback call, either
thread may exit first; contexts are finished in any order.
*Correct when*: no ctx is used after it is freed, the list is exact, each caller
hears of the outcome that there was, and every ctx is answered and freed.

**Precise futex wake-ups** (`pthread/emscripten_futex_wait.c`,
`emscripten_futex_wake.c`, `emscripten_yield.c`, `pthread_cancel.c` and
`__timedwait.c` of musl; `docs/design/01-precise-futex-wakeups.md`).
*State*: `wait_addr` with its `NOTIFY_BIT`, `cancel`, `crashed_thread_id`.
*Operations*: wait, wake, notify, cancel, report a crash, yield.
*Hard*: one bit stands for queued work, cancellation and crashes; the notifier
spins until the waiter has left; the yield after a wait runs tasks which wait too.
*Correct when*: no thread sleeps through what it was notified of; no deadlock on
the locks taken on the way; the notifier returns.

**pthread lifecycle and worker pool** (`pthread/pthread_create.c`,
`pthread_join.c`, `pthread_detach.c`, `src/lib/libpthread.js`,
`src/runtime_pthread.js`).
*State*: `detach_state`; the maps `PThread.pthreads` and `unusedWorkers` of the
main thread and each worker's `pthread_ptr`; the messages in flight.
*Hard*: exit, detach and join race for who cleans up; only main can start
workers and free structs, and it may be blocked in a join; structs and workers
are reused at once.
*Correct when*: exactly one clean-up per thread; no struct is freed under a
running thread; joins and creations return.

**emmalloc** (`system/lib/emmalloc.c`, on `system/lib/libc/sbrk.c`).
*State*: the headers at both ends of each region, in memory; 64 doubly linked lists
of free regions by size and a bit for each; the list of root regions; the program
break; the spinlock.
*Operations*: allocate at an alignment, free, three kinds of reallocation, claim more
memory, trim, start from a blank slate.
*Hard*: everything is derived from headers among the program's data; other code may
call `sbrk()`, which does not take the lock, between any two claims; an alignment
moves the boundary to the region before; a reallocation gives up the lock between
its steps; bits outlive the regions they stand for.
*Correct when*: the regions tile the heap, free neighbours are merged, the lists are
exact, one claim is enough for one call, and the program sees disjoint blocks that
stay in place.

### Not modelled

| component | why |
|---|---|
| Thread primitives (`emscripten_thread_primitives.c`), legacy proxying, Wasm Workers | in the plan |
| musl locks, condition variables, barriers, semaphores | mostly upstream musl; their waits appear in FutexNotify |
| Event loop, Asyncify, promises (`libeventloop.js`, `libasync.js`, `libpromise.js`) | in the plan |
| Dynamic linking (`dlsync` across threads), WasmFS | in the plan, last |
| JavaScript FS (`libfs.js`) | sequential, unit-tested, data more than control |
| Fetch, IndexedDB, sockets; graphics, audio, HTML5 | adapters to browser services: the protocol is the browser's |
| Compiler driver and cache (`emcc.py`, `tools/`) | sequential Python, except the cache lock (in the plan) |
| Vendored C and C++ libraries | third-party |

### How the parts interact

`pthread_create` proxies to main through the system queue when it is called
elsewhere, and blocks in a futex wait until main has answered. Proxying puts a
task in a task queue, a message in the target's mailbox, and a notification on
the target's event loop; when the target is the main thread it also sets
`NOTIFY_BIT`, so that a blocked main thread wakes up and executes the system
queue. `pthread_cancel` and a crash use the same bit. A thread that exits first
shuts its mailbox down, which waits for the senders that hold it; then it
publishes its end in `detach_state` for a joiner, and main returns its worker to
the pool and frees its struct. That exit also runs the destructors of
thread-specific data, and with them the cancellation of the contexts that the thread
has begun and not finished. Proxying allocates its contexts, task queues and arrays
with the allocator, whose lock is a wait like any other (`FutexProxyAlloc` shows
what can come of that).

`PROJECT.json` lists the hazards of this code, each with its line and the
properties about it, the map from each definition to the lines it stands for,
and for each property a mutation of the model that breaks it.

## 2. Modules

| module | models |
|---|---|
| `Mailbox` | one thread's mailbox, its task queues, senders, event loop, shutdown, reuse |
| `TaskDelivery` | the abstract contract of proxying, which `Mailbox` implements |
| `MailboxProofs` | theorems about `Mailbox`: types, the reference count, the token of a queue's notification, no queue is used after it is freed |
| `MailboxWorkProofs` | no work is stranded or runs on a later thread; no wake-up is lost; each step of `Mailbox` is one of `TaskDelivery` or none |
| `FutexNotify` | one waiting thread and the threads that interrupt it |
| `FutexNotifyProofs` | theorems: nothing is slept through, the guards are exact, no self-deadlock |
| `ThreadLifecycle` | creation, exit, join, detach and the worker pool |
| `ThreadLifecycleProofs` | theorems: one clean-up, no use after free, the pool is consistent |
| `TaskRing` | the ring buffer of a task queue, as operators |
| `TaskRingProofs` | theorems: the ring buffer is a queue |
| `ProxyCtx` | calls with a ctx between several callers and one target; extends `TaskRing` |
| `ProxyCtxProofs` | theorems about `ProxyCtx`, the first of them from those of `TaskRingProofs` |
| `Emmalloc` | the allocator over `sbrk()` |
| `HeapAllocator` | what `malloc` and `free` promise, which `Emmalloc` implements |
| `EmmallocHeapProofs` | lemmas: what each operation on a heap makes of its regions, lists and blocks |
| `EmmallocProofs` | theorems about `Emmalloc`: its invariants, and that it implements `HeapAllocator` |
| `MC*` | instances for TLC |

The other modules do not share variables. `FutexNotify` abstracts a mailbox to "queued
work is also run when the mailbox is received" (`ReceiveMail`), `ThreadLifecycle`
abstracts mailbox shutdown to one step (`ExitRun`), and `Mailbox` abstracts the
lifecycle to `Spawn`, `FreeData` and `Recreate`; `ProxyCtx` abstracts the mailbox to
"a thread that is free runs what is in its ring", and its shutdown to `CancelQueued`
until the ring is empty. What one module assumes of
another is checked there: that shutdown ends is `ShutdownCompletes`, and that a
struct is not freed before its thread is through its shutdown is
`NoUseAfterFree` of `ThreadLifecycle`.

Operators with `_Mutant` in their names are deliberately wrong variants of one
definition. No specification uses them; they are there to show that the
properties would notice such a bug.

### Mailbox

`stage` is where the Target is in its life, `stack` its C frames, so that a task
can execute a queue, send, or exit from inside. `refcount`, `mbox`, `mboxNote`
are the mailbox; `tq`, `note`, `processing`, `life` each task queue; `pc` and
`job` each thread's place in `do_proxy`. `armed`, `events` and `posts` count
pending `waitAsync` waiters, callbacks in the worker's event queue and
`CMD_CHECK_MAILBOX` messages that main has still to forward. Every atomic
operation of the code is one action. A critical section under a task queue's mutex
is one action too, which is sound because nothing else reads the ring buffer
outside that mutex.

A task queue may be destroyed at any time, unless a thread is in the middle of
sending to it or it is being executed: `em_proxying_queue_destroy` asks that of
its caller. It then becomes a zombie if a notification is outstanding, to be
reclaimed later by whoever creates a queue.

### FutexNotify

`stack` is again the waiting thread's C frames; `waitAddr` is `wait_addr` with its
bit; a futex word is abstracted to being open or not, and its waiters loop. The
program under study (`program`, chosen in `Init`) says whether the thread is main
or a pthread, in which modes it waits (a cancellation point, masked as in
`pthread_cond_wait`, or disabled as for a mutex), whether its tasks wait in turn,
and whether its own `do_proxy` has to allocate. Every lock it takes is a wait like
any other, and so passes through the yield: this is the recursion the code's guards
are about.

### ThreadLifecycle

`mem`, `ds`, `pthreads`, `unused`, `host` are the allocation, `detach_state`,
`PThread.pthreads`, `unusedWorkers` and `pthread_ptr`; `wpc` is the place of each
worker in `_emscripten_thread_exit` and `op` that of each caller in create or
join. `owner` is not a variable of the code: it records who has still to join a
thread, because to join twice, or to join a detached thread, is undefined by POSIX.
A thread that exits leaves the threads it has not joined to main, which keeps
programs from joining each other in a circle.

### TaskRing and ProxyCtx

A ring is a record of the fields of `em_task_queue` that the buffer is made of, with
`Enqueue`, `Dequeue` and `Grow` as functions from ring to ring; `Contents` says which
sequence it stands for. `ProxyCtx` gives every thread a `ring`, and keeps in `queued`
what was sent and has not left, so that `RingIsQueue` can compare them.

`stack` is the C frames of each thread: a synchronous caller is at its lock or asleep
on the condition, and the Target is in the user's function, in `cancel_ctx`, in the
destructor's loop (a *sweep* frame, which remembers where the list began), or between
the signal and the unlock of a finish. The mutex of a ctx is one of its fields, so
that an unlock after the caller has left is a use of freed memory. `phase` follows
`_emscripten_thread_exit`. `nxt`, `prv` and `head` are the pointers of the list,
`life` the memory of each ctx. `work` and `answer` are not variables of the code:
they record what became of the work and what the caller heard.

### Emmalloc

Addresses count words of four bytes. `heap.words` maps an address to the header
there, and to nothing if the word belongs to the program: regions are found only as
the code finds them, by the sizes in their headers. `heap.lists` and `heap.used` are
the free lists and `freeRegionBucketsUsed`, `heap.roots` the list of root regions and
`heap.brk` the break of `sbrk.c`. The linked lists are sequences, since `Unlink`
needs no more than the neighbours of a region. A call that holds the spinlock all
along is one step; claiming memory is a step of its own, for `ForeignSbrk` may come
before it, and a reallocation that must move is three. `held` is what the program
has, and a program touches a block only while no other thread's call has it.

`HeapAllocator` knows no headers: blocks with room, apart from each other, at their
alignments, and a step allocates, frees or resizes one and takes nothing away from
the others. The refinement maps `room` to what the header of each used region says.

## 3. Runs

| run | states | what it shows |
|---|---|---|
| `Mailbox` | 1.6 M | Two senders and the Target itself, two queues, two tasks, two lives of one struct, tasks that exit their thread: the invariants below |
| `MailboxLive` | 117 k | Under `FairSpec`: `Mailbox` implements `TaskDelivery`; accepted tasks are resolved; shutdown ends |
| `FutexNotify` | 4.7 M | Two other threads, two flags and three locks, five programs: nothing is slept through, the guards match the stack, no self-deadlock |
| `FutexLive` | 347 k | Under `FairSpec`: a notification returns, work is done while main waits, a cancellation ends a wait |
| `ThreadLifecycle` | 73 k | Main and two pthreads over three workers and four creations, pool strict or growing |
| `ProxyCtx` | 548 k | Under `FairSpec`: two callers make synchronous, callback and plain calls; the Target finishes them at once, later or never; any thread exits at any point |
| `Emmalloc` | 393 k | Two threads allocate, free, reallocate and trim, with an `sbrk()` of other code, until the memory is exhausted |
| `MailboxDropped`, `MailboxEarly`, `FutexProxyAlloc`, `ThreadDetachJoin`, `EmmallocTrim` | | disagreements of code and comment: section 6 |

**Mailbox.** `HoldersKeepMailboxOpen`: a sender with a reference finds the mailbox
open and allocated. `NoUseAfterFree`: no message, frame or sender reaches a freed
queue. `OneMessagePerQueue` bounds the mailbox, which cannot recover from a failed
growth. `NoStrandedTask` and `NoLostWakeup` say that a task in a queue and a
message in a mailbox are always on their way to be handled: they are the
invariants behind the two NONE/RECEIVED/PENDING flags and behind the order of
arming `waitAsync` and looking into the mailbox. `NoStaleRun`: no task runs on a
later thread with the same struct. `NoStrandedTask` and `NoStaleRun` are
conditioned on no task having exited its thread, for the reason in section 6.
`RefcountInv` is the inductive invariant of the proofs, checked here as well.

`ImplementsDelivery` maps the `waiting` of the contract to the task queues,
`running` to the task frame above a queue's `exec` frame (`TaskOf`), and `open` to the
stages before shutdown has seen the count at zero. The abstract specification includes
fairness, so the refinement also says that accepted work begins or is cancelled.

**FutexNotify.** `NotificationDelivered`: a notification is never left on a thread
that sleeps with nobody on the way to wake it. `NoSleepOnWork`, `NoSleepOnCancel`
and `NoSleepOnCrash` say so of the three things the bit stands for. `NoSleepOnWork`
is about programs whose main thread neither allocates in `do_proxy` nor is
cancelled in `pthread_cond_wait`, `NoSleepOnCrash` about those whose main thread is not
so cancelled; `NoSleepOnCancel` is about pthreads only. Outside
these conditions they do not hold: two entries under "hazards" say why, and
`FutexProxyAlloc` shows one of them. `GuardsMatchStack`: the system queue is never
locked out for good, and its tasks do not run inside each other. `NoSelfDeadlock`:
the thread never waits for a lock it holds.

**ThreadLifecycle.** `OneCleanup` is the `assert(worker)` of `cleanupThread`: of
exit, detach and join exactly one cleans up. `NoUseAfterFree`: the struct of a
running thread is neither free nor another's. `PoolConsistent` relates the pool's
three views and the messages in flight. `JoinReturns`, `CreateReturns` (also when
main is blocked in a join) and `DetachedIsFreed` are liveness.

**ProxyCtx.** `NoUseAfterFree`: no frame, task, list pointer or locked mutex leads to
a ctx that is gone; this is why the signal comes before the unlock, and why the
destructor's loop reads the next ctx before it cancels one. `ActiveListExact`: the
list is a cycle through exactly the active contexts, and during the sweep the rest of
the way is through exactly those that are left. `RingIsQueue` compares the rings with
the sequences. `OutcomeMatches`: success is told of finished work only, failure of
work that was refused or cancelled. `SyncReturns` and `CallbackCtxFreed`: a
synchronous call returns and the ctx of a callback call is freed, whichever thread
exits and when. Both make an exception for work that is `Stranded`, which is what
`MailboxDropped` is about; `ExitInFunction` contains both outcomes, since which one
it is depends on the mailbox.

**Emmalloc.** `RegionsTile`: from the start of a root region, the sizes lead to its
end through regions whose two headers agree; root regions do not overlap.
`NoFreeNeighbours`: whichever operation makes two free regions neighbours merges them.
`FreeListsExact`: each free region is on the list of the bucket that the documented
table gives it, once, and nothing else is on a list. `ClaimSuffices`: once a call has
claimed memory, its next search succeeds. `ImplementsAllocator` is the refinement.
`BucketTable` (an `ASSUME` of `MCEmmalloc`) compares `compute_free_list_bucket` with
the table in its comment at both ends of every bucket.

### Bounds, and why they are enough

* Two senders and the Target: every race in the mailbox is between one sender, the
  receiver and one more sender whose notification makes the first one's redundant.
* Two tasks and two queues let a queue be notified while it is being received, be
  destroyed while another is used, and be executed from a task of the other. In
  `MailboxLive` one queue is enough, as the contract is about each queue alone.
* Two lives (`MaxLives`) let wake-ups, waiters and messages of the first thread
  arrive in the second.
* `MaxPosts = 1` bounds the posted tasks of `FutexNotify`; the notification that
  the task of a `pthread_cancel` makes comes on top of it. Runs with two tasks have
  10 million states and the same result.
* Two structs, three workers, four creations: each struct is used twice, each
  worker may be left over from an earlier thread, and threads create, join and
  detach each other.
* `ProxyCtx`: two synchronous calls of two callers, one callback call and two plain
  ones. Three contexts make a list with a first, a middle and a last. With
  `InitialCapacity` 3, which stands for 128, five tasks fill the ring, wrap around its
  end and make it grow in one piece and in two; the proofs are for every capacity.
  One caller is the main thread, which runs callbacks while it sleeps.
* `Emmalloc`: 36 words (`HeapMax`) hold two blocks with free space between and around
  them; the sizes 1 and 24 and the alignments 1 and 8 reach every branch of the
  carving and of resizing. `SmallBuckets` 2 and `MaxTries` 1 stand for 30 and 99, so
  that a small heap can have a bucket from which more regions are tried, and more of
  them than are tried. `MaxForeign` 1 cuts the heap into two root regions.
* Symmetry is used in `FutexNotify`, over the other threads, and in `Emmalloc`, over
  all threads, with invariants and one step property only.
* The fallback without `Atomics.waitAsync` is the constant `HasWaitAsync`; the runs
  give it the value TRUE. `EarlySends` (a send to a thread that `pthread_create`
  has published but not started) is FALSE except in `MailboxEarly`, and
  `MayExitInTask` is FALSE in `MailboxLive`, because of the two findings.
* Deadlock is not checked: a program may always stop doing things, and the bounds
  on tasks, posts and creations end every run of the models.

### Fairness

Weak fairness of the steps a thread takes by itself once it is inside the runtime:
browsers and Node.js schedule every worker. Weak fairness of `Spawn`, `RoutePost`,
`RunThread` and `CleanupMessage`: an event loop serves what it is sent. Strong fairness of
`Return` in `Mailbox`: a task may execute further queues before it returns, but not
for ever; without this a program that loops in its callback starves its worker,
which the code cannot help. `ExitStart` is fair since joins are promised only for
threads that end. In `ProxyCtx` the user finishes the contexts that were kept
(`Finish` is fair), without which a synchronous call need not return; spurious
wake-ups are possible and not relied on. Nobody is obliged to send, to create, to
exit, to open a flag or to cancel; the liveness properties hold without that. `ThreadLifecycle` assumes that
a worker loads without the event loop of main, as in Node.js or with a preloaded
pool: in a browser, a thread that waits for a worker which is not loaded while main
is blocked waits for ever, as the documentation of `PTHREAD_POOL_SIZE` warns.

## 4. Proofs

**Mailbox.** `MailboxProofs` proves for any finite set of senders, any queues and tasks, any
number of lives and any values of the Boolean parameters (`MailboxAssumption`):

* `TypeCorrect`: `Spec => []TypeOK`. As `refcount` is a natural number there, the
  assertion in `emscripten_thread_mailbox_unref` cannot fail.
* `RefcountInvariant`: `Spec => [](TypeOK /\ RefcountInv)`.
* `HoldersSafe`: `Spec => []HoldersKeepMailboxOpen`.

`HoldersKeepMailboxOpen` is not inductive: it says nothing of the count, so the step
from `ShutdownWait` to cancelling could happen with a holder around. `RefcountInv`
adds that the count *is* the number of threads between taking and giving back a
reference, plus one while the owner has not begun to shut down; that a zero the
owner has read stays a zero, because `emscripten_thread_mailbox_ref` refuses to
count up from zero and the owner's own reference is gone; and that the mailbox is
allocated until `ShutdownDestroy`. The lemma `TypeStep` has one step per action and
`RefcountStep` separates the actions that move the count, with `CountPositive` and
the library's facts about cardinalities for a sender that joins or leaves the
holders, from the many that do not (`RefcountKept`). `Recreate` is the delicate one: it resets the count to
one, which is right only because a freed struct has no holders.

Its second part is about the queues as the mailbox refers to them:

* `OneMessage`: `Spec => []OneMessagePerQueue`, and `QueuesSafe`:
  `Spec => []NoUseAfterFree`.

Neither is inductive. `QueueInv` treats a queue's notification flag as a token:
while it is PENDING it belongs to one sender that is about to put the message in
the mailbox, or to one message, or to one handler that has taken the message and not
marked it received (`TokenInv`). What holds the token keeps the queue from being
reclaimed (`LifeInv`), and `StackShape` says where the handlers of a message can be
on the stack, so that the frame below a finished task is the one that clears the flag.

`MailboxWorkProofs` adds the work itself, in `WorkInv`:

* `WorkCarried`: `Spec => []NoStrandedTask`, and `NeverStale`: `Spec => []NoStaleRun`.
* `ShutdownResolves`: after the shutdown no accepted task is left anywhere, as long
  as no task exits its thread; `ShutdownResolvesAlways` for programs in which none can.
* `WakeupKept`: `Spec => []NoLostWakeup`, for programs that send to started threads only.

`TaskInv` puts each task in one place, which its status names, and `HeldInv` says the
converse; `PendingInv` says that the token of `TokenInv` exists whenever the flag is PENDING;
`LivesInv` dates the work to the present life of the struct. They lean on
`RefcountInv`: `Recreate` keeps `LivesInv` because a closed mailbox has no holders, so no
sender is left that could enqueue. `WakeInv` does for the mailbox's own flag
what `TokenInv` does for the queues'.

Its last part proves the safety half of `ImplementsDelivery`:
`DeliverySteps`, the initial states of `Mailbox` are initial states of `TaskDelivery`
and each step is a step of it or a stutter. There is a lemma for each step of
the contract. The mapping of `running` needs `LoopInv`, that a queue has one `exec`
frame at most and each task frame is directly above one.

**The ring buffer.** `TaskRingProofs` assumes of a ring only that its indices are in
bounds and its slots exist (`IsRing`), and proves for every capacity:

* `EnqueueAppends`: `em_task_queue_enqueue` keeps `IsRing`, and what it makes of the
  contents is `Append`. It combines `PutAppends`, for a ring with a slot to spare,
  and `GrowKeeps`, for a full one.
* `DequeueTakesFirst`: of a ring that is not empty, `em_task_queue_dequeue` returns
  the head of the contents and leaves their tail.

The code computes all indices modulo the capacity. `ModWrap` replaces the remainder by
a case distinction, because every sum is below twice the capacity; from there the
arguments are linear arithmetic by cases (does the ring wrap, is this the last task).

`ProxyCtxProofs` carries this to the system: `QueuesExact`, `Spec => []RingIsQueue`,
for any threads, calls and initial capacity (`ProxyCtxAssumption`,
`TaskRingAssumption`). `RingIsQueue` alone is not inductive: an enqueue appends only if
the indices are in bounds. `RingInv` adds `IsRing`, and `RingStep` has one step per
action, each a send, a receive or neither. In particular no thread takes a task from
an empty ring.

It proves the rest of what the run `ProxyCtx` checks of a state:

* `TypeCorrect`, `ContextsSafe` (`NoUseAfterFree`), `OutcomesTold` (`OutcomeMatches`) and
  `ListExact` (`ActiveListExact`), all from `CtxInvariant`: `Spec => [](RingInv /\ CtxInv)`.

`CtxInv` ties what became of a call to its memory and to `sync.state` (`WorkInv`), to the one
task that may be queued for it (`TaskInv`), to the caller that waits for it
(`CallerInv`) and to the frames of the Target (`StackInv`). `ListInv` says that there is an
order of the active contexts that the `next` and `prev` pointers follow; each step gives
the new order outright: `add_active_ctx` appends to it, `remove_active_ctx` takes one out,
the destructor drops its first. `ActiveListExact` follows the pointers by a recursive
function, and the library's theorems about induction cannot be used; `ListExact` argues with
the least number of steps at which the function and the order would differ.

**FutexNotify.** `FutexNotifyProofs` proves the six invariants of the run and `TypeOK`, for
stacks of any depth, any number of other threads and any set of programs: `TypeCorrect`,
`Delivered`, `WorkNotSleptOn`, `CancelNotSleptOn`, `CrashNotSleptOn`, `GuardsExact` and
`NeverAgainstItself`. They need `NotifyInv`, in which

* `ShapeInv` says which frame calls which (`Link`), that above a frame which waits with
  `system_queue_in_use` up there is nothing but that wait and the guard that turns a yield
  away (`Depth`), and that one frame at most processes the queue (`Once`);
* `HoldInv` says who holds each lock, which rules out a wait for one's own;
* `BitInv` says that a thread which sleeps has its address published, and that whoever set
  the notification bit stays with it;
* `CancelInv`, `CrashInv` and `WorkInv` say for each of the three things a notification can
  mean that the bit is up, or will be, or the thread is about to look.

**ThreadLifecycle.** `ThreadLifecycleProofs` proves `TypeCorrect`, `PoolExact` (`PoolConsistent`),
`StructsSafe` (`NoUseAfterFree`) and `CleanedUpOnce` (`OneCleanup`) for any callers, workers and
structs. `LifecycleInv` adds that no two calls are about one thread (`OneCaller`), and what
the place of a call, of a worker in `_emscripten_thread_exit`, and of a clean-up message each
imply for `detach_state` (`CallInv`, `WorkerInv`, `StructInv`).

**Emmalloc.** The theorems of `EmmallocProofs` are about any threads, sizes, pads and heap
size, alignments up to 2^20 words, and any number of `sbrk()` calls of other code
(`EmmallocAssumption`):

* `HeapTiled` (`RegionsTile`), `FreeMerged` (`NoFreeNeighbours`), `ListsExact`
  (`FreeListsExact`), `OneClaimEnough` (`ClaimSuffices`), each in the form
  `Spec /\ []TrimsSafe => []Inv`, and
* `AllocatorImplemented`: `Spec /\ []TrimsSafe => ImplementsAllocator`. The contract
  states no fairness, so this is the whole refinement.

`TrimsSafe` is about the `malloc_trim` calls that give memory back: their pad is a header
at least, and not exactly one word less than the last region. The first half is the
finding of `EmmallocTrim`, without which even `RegionsTile` fails; the second keeps the
subtraction of `emmalloc.c:1286` from wrapping around. `AllocatorCorrect` draws the same
conclusions from `Spec` alone for programs with pads of 5 to 8 bytes, as in the run
`Emmalloc`, and for those that never call `malloc_trim`.

None of the invariants is inductive by itself: to merge two regions is right only if their
headers agree, to unlink one only if it is on its list, and to write a header only if no
block lies there. `HeapInv` says that there is a set of addresses at which regions start
such that

* they tile the root regions (`Tiles`, `RootsOK`): each region's two headers agree, the
  next one begins where it ends or its root region ends there, none overlap, a root region
  begins with a region in use and ends with a sentinel of 16 bytes, and no two neighbours
  are free;
* the lists hold the free ones (`Lists`): each once, in the bucket of its size, and the
  bit of a bucket with a region is set;
* those in use are the blocks that the program holds (`HeldOK`), with their room and
  alignment, and a block that a reallocation is to free is held and no other call's
  (`CallsOK`).

`EmmallocHeapProofs` has a lemma for each operation: `ReleaseStep`, `ResizeStep`,
`CarveStep`, `ScanStep`, `ClaimStep`, `TrimStep`, `InitializeStep` and `ForeignStep` name
the new set of addresses and show that every other block keeps its room. Most of them
exchange a stretch of whole regions for another that covers the same words (`Retile`,
`HeapRelaid`); a claim and a trim move the end of the latest root region instead (`Retop`,
`HeapRetop`), or add a root region (`NewRootRegion`). An alignment is the hardest case: the words it skips
go to the region before, which may be a block in use or the start of the root region, and
`Carved` says that such a region only grows.

`RegionsTile` finds the regions as the code does, by a recursive function that follows the
sizes. `WalkExists` shows that there is such a function, and `RegionsAre` that it reaches
exactly the addresses of the set, by a least counterexample (`WalkIs`). `FreeListsExact` compares the lists with the table in
the comment of `compute_free_list_bucket`; `WhichBucket` proves that the function agrees
with that table for every size, by what `Log2` is between two powers of two.
`OneClaimEnough` needs in addition that whoever is about to claim holds the spinlock
(`LockInv`), that a claim leaves a free region first on its list which is large enough for
the size at its alignment (`ClaimServes`), and that a larger region is never in a lower
bucket (`BucketsRise`), so that the search cannot miss it.

**Assumptions.** Besides the assumptions on constants (`MailboxAssumption`,
`FutexNotifyAssumption`, `ThreadLifecycleAssumption`, `ProxyCtxAssumption`,
`TaskRingAssumption`, `EmmallocAssumption`), some theorems are about programs that avoid a
finding of section 6, as without that they are false:

| assumed | by | the run that needs it |
|---|---|---|
| `~MayExitInTask` | `ShutdownResolvesAlways`, `DeliverySteps` | `MailboxDropped` |
| `~EarlySends` | `WakeupKept` | `MailboxEarly` |
| `~AlsoDetach` | the theorems of `ThreadLifecycleProofs` | `ThreadDetachJoin` |
| `[]TrimsSafe`, or `HeaderPads` | the theorems of `EmmallocProofs` | `EmmallocTrim` |

`AlsoDetach` lets a thread be detached while another joins it; with it even `OneCleanup` fails.
Each inductive invariant was model-checked on the run's instance before it was proved.

**Only model-checked.** Liveness and the fairness half of `ImplementsDelivery`, since
fairness is beyond the prover. Not checked by a tool is that the modules agree with each other where one abstracts a part
that another models (section 2). Induction over data by the library's theorems takes an operator as a parameter, which the provers cannot instantiate; where a
recursive function is in the way, as in `ListExact` and `RegionsAre`, a least
counterexample does instead. No module uses a recursive operator.

## 5. What the models leave out

* In `Mailbox` a task queue is a sequence, and its growth appears only as a send that
  is refused (`SendEnqueue`); `TaskRing` has the ring buffer itself.
* In `ProxyCtx` a caller is not cancelled while it waits, and threads and proxying
  queues live on: the code leaves both to the user (see the hazards). Promise calls
  are callback calls whose callback settles a promise of the main thread. Calls to
  the main thread go to the system queue. A growth that fails is a call that is refused.
* In `Emmalloc` the contents of blocks, `mallinfo` and the other statistics, the
  validation and dump functions, and the `memset` of `calloc`. Sizes near the end of
  the address space and alignments that are not powers of two are refused at the start
  by the code. `malloc_trim` is called only when no `sbrk()` of other code came last:
  the code asserts it, and its comment restricts the callers.
* `em_proxying_queue`'s array of task queues: the memory of each is a member of
  `Queues`.
* Time limits of waits: a wait that times out ends by itself, so nothing can be
  lost in it for good. The values of futex words other than open or not.
* The busy wait of the main browser thread, which may not use `Atomics.wait`
  (`emscripten_futex_wait.c:32-133`).
* Thread-specific data, robust mutexes, cleanup handlers, the thread list and
  `libc.need_locks`, profiling and names.

## 6. Findings

Five runs check a statement of the repository that the code does not satisfy.

* `MailboxDropped`: a proxied task that exits its thread leaves the tasks behind it
  in that queue neither run nor cancelled, although `proxying.h:60-63` promises an
  answer to a synchronous caller when the target exits. The message has already
  left the mailbox, so the cancellation of the mailbox does not reach the queue.
* `MailboxEarly`: `pthread_create` publishes the new `pthread_t` before main has
  the thread in `PThread.pthreads`. A message sent in that window is dropped, while
  the mailbox stays PENDING and swallows the later wake-ups too.
* `FutexProxyAlloc`: a contended `malloc` in main's own `do_proxy` consumes the
  notification for work which `system_queue_in_use` keeps it from running; main
  then sleeps on it. The comment at `proxying.c:125-126` hopes for a later run.
* `ThreadDetachJoin`: `pthread_detach` wakes no joiner, so a joiner that sleeps
  when a third thread detaches the thread never returns; `pthread_join.c:28-30`
  says that this case is handled.
* `EmmallocTrim`: `malloc_trim(0)` may leave less than a `Region` of the last free
  region and make it part of the end sentinel, which is then 24 or 28 bytes long. The
  next contiguous claim takes the sentinel to be 16 bytes long and starts its region
  after a gap which belongs to no region, although "regions [...] lie next to each
  other" (`emmalloc.c:22-23`). In the run `Emmalloc` the pad is 8, with which it does
  not happen.

## 7. Plan

Done so far: the modules of section 2, and the proofs of every invariant of `Mailbox`,
`FutexNotify`, `ThreadLifecycle`, `ProxyCtx` and `Emmalloc`, with the step simulation of
`TaskDelivery` and the refinement of `HeapAllocator`. Next, in this order:

1. `ThreadList`: the thread list, `threads_minus_1` and `need_locks`
   (`pthread_create.c`).
2. `Primitives` and `MainFutex`: the lock, semaphore and condition variable of
   `emscripten_thread_primitives.c`, and the busy wait of the main browser thread.
3. Further components: the Asyncify state machine, `dlsync`, Wasm Workers, the cache
   lock.
