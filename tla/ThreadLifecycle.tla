-------------------------- MODULE ThreadLifecycle --------------------------
(***************************************************************************)
(* The life of a pthread: pthread_create, _emscripten_thread_exit,         *)
(* pthread_join and pthread_detach on the C side, and the worker pool of   *)
(* src/lib/libpthread.js on the JavaScript side.                           *)
(*                                                                         *)
(* Only the main thread can start workers, so another thread's             *)
(* pthread_create is proxied to it and waits for the answer, and only the  *)
(* main thread frees a pthread struct, when it cleans up after a join or   *)
(* after the exit of a detached thread.  Structs are malloced: a freed one *)
(* is used again for a later thread, on any worker.                        *)
(*                                                                         *)
(* The mailbox of a thread is the module Mailbox; the thread list and      *)
(* libc.need_locks are left out.                                           *)
(***************************************************************************)
EXTENDS Naturals, Sequences, FiniteSets

CONSTANTS
    Main,          \* the main thread
    Ptrs,          \* the memory of pthread structs, and the threads they are
    Workers,       \* the workers there can ever be
    PoolSize,      \* PTHREAD_POOL_SIZE: workers started before main
    PoolStrict,    \* the programs: PTHREAD_POOL_SIZE_STRICT == 2, or not
    None,          \* no worker, no thread
    MaxCreates,    \* bound: calls of pthread_create
    AlsoDetach     \* whether another thread may detach a thread that is joined

Callers == Ptrs \union {Main}

ASSUME ThreadLifecycleAssumption ==
    /\ Main \notin Ptrs /\ None \notin Callers \union Workers
    /\ IsFiniteSet(Workers) /\ PoolSize \in 0..Cardinality(Workers)
    /\ MaxCreates \in Nat
    /\ PoolStrict \subseteq BOOLEAN /\ AlsoDetach \in BOOLEAN

VARIABLES
    mem,        \* of each struct: free, allocated, or leaked by a failed create
    ds,         \* detach_state
    owner,      \* of each thread: who has still to join it, unless it is detached
    creates,    \* calls of pthread_create so far
    pthreads,   \* PThread.pthreads: the worker a thread runs on
    unused,     \* PThread.unusedWorkers, the last first
    host,       \* worker.pthread_ptr
    strict,     \* whether the pool may not grow: one of PoolStrict
    loaded,     \* of each worker: not started, loading, ready
    inbox,      \* of each worker: the threads it was sent CMD_RUN for
    runs,       \* of each worker: the thread in its C code
    wpc,        \* and the place in that code
    cleanups,   \* CMD_CLEANUP_THREAD messages on their way to main, per thread
    op          \* of each caller: what it is doing, and to which thread

structVars == <<mem, ds, owner>>
poolVars == <<pthreads, unused, host, loaded, strict>>
workerVars == <<inbox, runs, wpc>>
vars == <<structVars, creates, poolVars, workerVars, cleanups, op>>

DetachState == {"joinable", "detached", "exiting", "exited"}
\* user: its own code; run: mailbox shutdown and destructors; then the steps of
\* the end of _emscripten_thread_exit.
Exiting == {"run", "cas", "cleanup", "store", "wake"}
Joining == {"read", "wait", "asleep", "reap"}
Op(at, p, s) == [at |-> at, ptr |-> p, saw |-> s]
NoOp == Op("none", None, "exited")

-----------------------------------------------------------------------------
Init ==
    /\ mem = [p \in Ptrs |-> "free"]
    /\ ds = [p \in Ptrs |-> "exited"]
    /\ owner = [p \in Ptrs |-> None]
    /\ creates = 0
    /\ pthreads = [p \in Ptrs |-> None]
    /\ \E s \in [1..PoolSize -> Workers] :
          /\ \A i, j \in DOMAIN s : i # j => s[i] # s[j]
          /\ unused = s
          /\ loaded = [w \in Workers |-> IF \E i \in DOMAIN s : s[i] = w
                                         THEN "loading" ELSE "none"]
    /\ strict \in PoolStrict
    /\ host = [w \in Workers |-> None]
    /\ inbox = [w \in Workers |-> <<>>]
    /\ runs = [w \in Workers |-> None]
    /\ wpc = [w \in Workers |-> "loop"]
    /\ cleanups = [p \in Ptrs |-> 0]
    /\ op = [c \in Callers |-> NoOp]

\* A caller that runs code of the program.
CanCall(c) ==
    /\ op[c] = NoOp
    /\ c # Main => \E w \in Workers : runs[w] = c /\ wpc[w] = "user"

\* Main executes proxied calls in its event loop, and while it waits in a join.
MainInLoop == op[Main] = NoOp
MainServes_Mutant == MainInLoop  \* a faulty variant: main serves nobody in a join
MainServes == MainInLoop \/ op[Main].at \in {"wait", "asleep"}

SetOp(c, o) == op' = [op EXCEPT ![c] = o]
SetPc(w, at) == wpc' = [wpc EXCEPT ![w] = at]

\* A faulty variant, as those below: a worker put back in the pool without being taken off its thread.
Cleanup_MutantKeepsHost(p) ==
    /\ pthreads[p] # None
    /\ pthreads' = [pthreads EXCEPT ![p] = None]
    /\ unused' = <<pthreads[p]>> \o unused
    /\ mem' = [mem EXCEPT ![p] = "free"]
    /\ UNCHANGED <<ds, owner, host, loaded, strict>>

\* cleanupThread and returnWorkerToPool, on main
Cleanup(p) ==
    /\ pthreads[p] # None
    /\ pthreads' = [pthreads EXCEPT ![p] = None]
    /\ unused' = <<pthreads[p]>> \o unused
    /\ host' = [host EXCEPT ![pthreads[p]] = None]
    /\ mem' = [mem EXCEPT ![p] = "free"]
    /\ UNCHANGED <<ds, owner, loaded, strict>>

-----------------------------------------------------------------------------
(***************************************************************************)
(* Faulty variants, to show that the properties notice the fault; they are *)
(* no part of the specification.                                           *)
(***************************************************************************)
\* Detaching by a load and a store instead of a compare-and-swap.
Detach_MutantStore(c, p) ==
    /\ owner[p] = c /\ CanCall(c) /\ mem[p] = "allocated"
    /\ ds' = [ds EXCEPT ![p] = "detached"]
    /\ owner' = [owner EXCEPT ![p] = None]
    /\ UNCHANGED <<mem, creates, poolVars, workerVars, cleanups, op>>

\* EXITED published before the exiting thread is done with its struct.
ExitRun_MutantEarly(w) ==
    /\ wpc[w] = "run" /\ SetPc(w, "cas")
    /\ ds' = IF ds[runs[w]] = "joinable" THEN [ds EXCEPT ![runs[w]] = "exited"] ELSE ds
    /\ UNCHANGED <<mem, owner, creates, poolVars, inbox, runs, cleanups, op>>

\* The exit of a joinable thread that wakes nobody.
ExitWake_MutantNone(w) ==
    /\ wpc[w] = "wake"
    /\ SetPc(w, "loop") /\ runs' = [runs EXCEPT ![w] = None]
    /\ UNCHANGED <<structVars, creates, poolVars, inbox, cleanups, op>>

\* The end of a join that cleans up on main and sends the message too.
Reap_MutantTwice(c) ==
    /\ op[c].at = "reap" /\ SetOp(c, NoOp)
    /\ cleanups' = [cleanups EXCEPT ![op[c].ptr] = @ + 1]
    /\ IF c = Main THEN Cleanup(op[c].ptr) ELSE UNCHANGED <<structVars, poolVars>>
    /\ UNCHANGED <<creates, workerVars>>

-----------------------------------------------------------------------------
(***************************************************************************)
(* pthread_create                                                          *)
(***************************************************************************)
Create(c, p, detached) ==
    /\ CanCall(c) /\ mem[p] = "free" /\ creates < MaxCreates
    /\ creates' = creates + 1
    /\ mem' = [mem EXCEPT ![p] = "allocated"]
    /\ ds' = [ds EXCEPT ![p] = IF detached THEN "detached" ELSE "joinable"]
    /\ SetOp(c, Op("spawn", p, "exited"))
    /\ UNCHANGED <<owner, poolVars, workerVars, cleanups>>

\* getNewWorker: the last unused worker, or a new one
NewWorker(w) ==
    IF unused # <<>>
    THEN w = Head(unused) /\ unused' = Tail(unused) /\ UNCHANGED loaded
    ELSE /\ ~strict /\ loaded[w] = "none"
         /\ loaded' = [loaded EXCEPT ![w] = "loading"] /\ UNCHANGED unused

\* spawnThread, on main for whoever called pthread_create, and the return to it.
Spawn(c, w) ==
    LET p == op[c].ptr IN
    /\ op[c].at = "spawn" /\ (c = Main \/ MainServes)
    /\ NewWorker(w)
    /\ pthreads' = [pthreads EXCEPT ![p] = w]
    /\ host' = [host EXCEPT ![w] = p]
    /\ inbox' = [inbox EXCEPT ![w] = Append(@, p)]
    /\ owner' = [owner EXCEPT ![p] = IF ds[p] = "joinable" THEN c ELSE None]
    /\ SetOp(c, NoOp)
    /\ UNCHANGED <<mem, ds, creates, strict, runs, wpc, cleanups>>

\* The pool is exhausted: EAGAIN.  The struct is not given back.
SpawnFails(c) ==
    /\ op[c].at = "spawn" /\ (c = Main \/ MainServes)
    /\ strict /\ unused = <<>>
    /\ mem' = [mem EXCEPT ![op[c].ptr] = "leaked"]
    /\ SetOp(c, NoOp)
    /\ UNCHANGED <<ds, owner, creates, poolVars, workerVars, cleanups>>

-----------------------------------------------------------------------------
(***************************************************************************)
(* A worker: loading, CMD_RUN, and _emscripten_thread_exit                 *)
(***************************************************************************)
Load(w) ==
    /\ loaded[w] = "loading"
    /\ loaded' = [loaded EXCEPT ![w] = "ready"]
    /\ UNCHANGED <<structVars, creates, pthreads, unused, host, strict, workerVars, cleanups,
                   op>>

RunThread(w) ==
    /\ wpc[w] = "loop" /\ loaded[w] = "ready" /\ inbox[w] # <<>>
    /\ runs' = [runs EXCEPT ![w] = Head(inbox[w])]
    /\ inbox' = [inbox EXCEPT ![w] = Tail(@)]
    /\ SetPc(w, "user")
    /\ UNCHANGED <<structVars, creates, poolVars, cleanups, op>>

\* The threads it has not joined it leaves to main, so that threads join in the
\* order in which they were created and never each other.
ExitStart(w) ==
    /\ wpc[w] = "user" /\ op[runs[w]] = NoOp
    /\ SetPc(w, "run")
    /\ owner' = [p \in Ptrs |-> IF owner[p] = runs[w] THEN Main ELSE owner[p]]
    /\ UNCHANGED <<mem, ds, creates, poolVars, inbox, runs, cleanups, op>>

\* Mailbox shutdown, cleanup handlers, destructors, the thread list, and
\* __set_thread_state(NULL).
ExitRun(w) ==
    /\ wpc[w] = "run" /\ SetPc(w, "cas")
    /\ UNCHANGED <<structVars, creates, poolVars, inbox, runs, cleanups, op>>

\* The compare-and-swap of detach_state that competes with pthread_detach.
ExitCas(w) ==
    LET p == runs[w] IN
    /\ wpc[w] = "cas"
    /\ ds' = IF ds[p] = "joinable" THEN [ds EXCEPT ![p] = "exiting"] ELSE ds
    /\ SetPc(w, IF ds[p] = "detached" THEN "cleanup" ELSE "store")
    /\ UNCHANGED <<mem, owner, creates, poolVars, inbox, runs, cleanups, op>>

ExitCleanup(w) ==
    /\ wpc[w] = "cleanup"
    /\ cleanups' = [cleanups EXCEPT ![runs[w]] = @ + 1]
    /\ SetPc(w, "loop") /\ runs' = [runs EXCEPT ![w] = None]
    /\ UNCHANGED <<structVars, creates, poolVars, inbox, op>>

ExitStore(w) ==
    /\ wpc[w] = "store"
    /\ ds' = [ds EXCEPT ![runs[w]] = "exited"] /\ SetPc(w, "wake")
    /\ UNCHANGED <<mem, owner, creates, poolVars, inbox, runs, cleanups, op>>

\* The wake-up of a joiner uses no more than the address of the struct.
ExitWake(w) ==
    LET asleep == {c \in Callers : op[c].at = "asleep" /\ op[c].ptr = runs[w]} IN
    /\ wpc[w] = "wake"
    /\ \/ asleep = {} /\ UNCHANGED op
       \/ \E c \in asleep : SetOp(c, [op[c] EXCEPT !.at = "read"])
    /\ SetPc(w, "loop") /\ runs' = [runs EXCEPT ![w] = None]
    /\ UNCHANGED <<structVars, creates, poolVars, inbox, cleanups>>

-----------------------------------------------------------------------------
(***************************************************************************)
(* pthread_join and pthread_detach                                         *)
(***************************************************************************)
Join(c, p) ==
    /\ owner[p] = c /\ CanCall(c)
    /\ owner' = [owner EXCEPT ![p] = None]
    /\ SetOp(c, Op("read", p, "exited"))
    /\ UNCHANGED <<mem, ds, creates, poolVars, workerVars, cleanups>>

\* The loop of __pthread_timedjoin_np: a load of detach_state, and a wait for
\* it to change.  A thread that is detached gives EINVAL.
ReadState(c) ==
    /\ op[c].at = "read"
    /\ SetOp(c, IF ds[op[c].ptr] = "exited" THEN [op[c] EXCEPT !.at = "reap"]
                ELSE IF ds[op[c].ptr] = "detached" THEN NoOp
                ELSE [op[c] EXCEPT !.at = "wait", !.saw = ds[op[c].ptr]])
    /\ UNCHANGED <<structVars, creates, poolVars, workerVars, cleanups>>

WaitState(c) ==
    /\ op[c].at = "wait"
    /\ SetOp(c, [op[c] EXCEPT !.at = IF ds[op[c].ptr] = op[c].saw THEN "asleep" ELSE "read"])
    /\ UNCHANGED <<structVars, creates, poolVars, workerVars, cleanups>>

\* _emscripten_thread_cleanup at the end of a join: at once on main, else by a
\* message to it.
Reap(c) ==
    /\ op[c].at = "reap" /\ SetOp(c, NoOp)
    /\ IF c = Main
       THEN Cleanup(op[c].ptr) /\ UNCHANGED cleanups
       ELSE /\ cleanups' = [cleanups EXCEPT ![op[c].ptr] = @ + 1]
            /\ UNCHANGED <<structVars, poolVars>>
    /\ UNCHANGED <<creates, workerVars>>

CleanupMessage(p) ==
    /\ MainInLoop /\ cleanups[p] > 0
    /\ cleanups' = [cleanups EXCEPT ![p] = @ - 1]
    /\ Cleanup(p)
    /\ UNCHANGED <<creates, workerVars, op>>

\* pthread_detach, by the owner or by the thread itself: the compare-and-swap;
\* the loser joins.
Detach(c, p) ==
    /\ \/ owner[p] # None /\ c \in {owner[p], p}
       \/ AlsoDetach /\ \E d \in Callers \ {c} : op[d].at \in Joining /\ op[d].ptr = p
    /\ CanCall(c) /\ mem[p] = "allocated"
    /\ owner' = [owner EXCEPT ![p] = None]
    /\ IF ds[p] = "joinable"
       THEN ds' = [ds EXCEPT ![p] = "detached"] /\ UNCHANGED op
       ELSE /\ UNCHANGED ds
            /\ IF ds[p] = "detached" THEN UNCHANGED op ELSE SetOp(c, Op("read", p, "exited"))
    /\ UNCHANGED <<mem, creates, poolVars, workerVars, cleanups>>

-----------------------------------------------------------------------------
WorkerStep(w) ==
    \/ Load(w) \/ RunThread(w) \/ ExitRun(w) \/ ExitCas(w) \/ ExitCleanup(w)
    \/ ExitStore(w) \/ ExitWake(w)

CallStep(c) ==
    \/ \E w \in Workers : Spawn(c, w)
    \/ SpawnFails(c) \/ ReadState(c) \/ WaitState(c) \/ Reap(c)

Call(c) ==
    \/ \E p \in Ptrs, d \in BOOLEAN : Create(c, p, d)
    \/ \E p \in Ptrs : Join(c, p) \/ Detach(c, p)

Next ==
    \/ \E w \in Workers : WorkerStep(w) \/ ExitStart(w)
    \/ \E c \in Callers : CallStep(c) \/ Call(c)
    \/ \E p \in Ptrs : CleanupMessage(p)

Spec == Init /\ [][Next]_vars

\* Threads and messages make progress, and threads return from their entry points.
FairSpec ==
    /\ Spec
    /\ \A w \in Workers : WF_vars(WorkerStep(w)) /\ WF_vars(ExitStart(w))
    /\ \A c \in Callers : WF_vars(CallStep(c))
    /\ \A p \in Ptrs : WF_vars(CleanupMessage(p))

-----------------------------------------------------------------------------
(***************************************************************************)
(* Properties                                                              *)
(***************************************************************************)
\* Every variable has a value of its type.
TypeOK ==
    /\ mem \in [Ptrs -> {"free", "allocated", "leaked"}]
    /\ ds \in [Ptrs -> DetachState]
    /\ owner \in [Ptrs -> Callers \union {None}]
    /\ creates \in 0..MaxCreates
    /\ pthreads \in [Ptrs -> Workers \union {None}]
    /\ unused \in Seq(Workers)
    /\ host \in [Workers -> Ptrs \union {None}]
    /\ strict \in PoolStrict
    /\ loaded \in [Workers -> {"none", "loading", "ready"}]
    /\ inbox \in [Workers -> Seq(Ptrs)]
    /\ runs \in [Workers -> Ptrs \union {None}]
    /\ wpc \in [Workers -> {"loop", "user"} \union Exiting]
    /\ cleanups \in [Ptrs -> 0..1]
    /\ op \in [Callers -> [at : {"none", "spawn"} \union Joining,
                           ptr : Ptrs \union {None}, saw : DetachState]]

Reaps(p) == cleanups[p] + Cardinality({c \in Callers : op[c].at = "reap" /\ op[c].ptr = p})

\* assert(worker) in cleanupThread: whoever loses the race between exit, detach
\* and join cleans up, and nobody else does, so the thread still has its worker.
OneCleanup ==
    \A p \in Ptrs : Reaps(p) <= 1 /\ (Reaps(p) = 1 => pthreads[p] # None)

\* The struct a worker still uses is not freed, and not somebody else's.
NoUseAfterFree ==
    \A w \in Workers : wpc[w] \notin {"loop", "wake"} =>
        mem[runs[w]] = "allocated" /\ pthreads[runs[w]] = w

\* The pool: unused workers host nobody ("assert(!worker.pthread_ptr)") and are
\* listed once, a worker and its thread agree about each other, and a worker is
\* sent one thread at a time, which finds it out of the code of the thread before,
\* save for the end of its exit.
PoolConsistent ==
    /\ \A i, j \in DOMAIN unused : unused[i] = unused[j] => i = j
    /\ \A i \in DOMAIN unused : host[unused[i]] = None
    /\ \A w \in Workers : host[w] # None => pthreads[host[w]] = w
    /\ \A p \in Ptrs : pthreads[p] # None => host[pthreads[p]] = p
    /\ \A w \in Workers : inbox[w] # <<>> =>
          /\ inbox[w] = <<host[w]>>
          /\ wpc[w] \in {"loop", "wake"}

\* A join returns, once the thread it waits for does.
JoinReturns ==
    \A c \in Callers : op[c].at \in Joining ~> op[c] = NoOp

\* A pthread_create returns, also when main is blocked in a join.
CreateReturns ==
    \A c \in Callers : op[c].at = "spawn" ~> op[c].at # "spawn"

\* A detached thread gives back its struct.
DetachedIsFreed ==
    \A p \in Ptrs : mem[p] = "allocated" /\ ds[p] = "detached" ~> mem[p] # "allocated"
=============================================================================
