------------------------ MODULE ThreadLifecycleProofs ------------------------
(***************************************************************************)
(* Of exit, detach and join exactly one cleans up, no struct is freed      *)
(* under a running thread, and the pool is consistent, for any number of   *)
(* threads, workers and creations, as long as no thread detaches a thread  *)
(* that another one is joining: POSIX leaves that undefined, and the run   *)
(* ThreadDetachJoin shows what comes of it.                                *)
(***************************************************************************)
EXTENDS ThreadLifecycle, FiniteSetTheorems, TLAPS

-----------------------------------------------------------------------------
(***************************************************************************)
(* The inductive invariant                                                 *)
(***************************************************************************)
Busy(c) == op[c].at # "none"

\* Two calls are never about one thread: a join takes the right to join away,
\* and a struct that is being created is nobody's yet.
OneCaller == \A c, d \in Callers : Busy(c) /\ Busy(d) /\ op[c].ptr = op[d].ptr => c = d

\* A call's thread is alive and nobody else's to join or to clean up.
CallInv ==
    \A c \in Callers : Busy(c) =>
        /\ op[c].ptr \in Ptrs
        /\ mem[op[c].ptr] = "allocated"
        /\ owner[op[c].ptr] = None
        /\ cleanups[op[c].ptr] = 0
        /\ op[c].at = "spawn" => /\ pthreads[op[c].ptr] = None
                                 /\ ds[op[c].ptr] \in {"joinable", "detached"}
        /\ op[c].at # "spawn" => /\ pthreads[op[c].ptr] # None
                                 /\ ds[op[c].ptr] # "detached"
        /\ op[c].at = "reap" => ds[op[c].ptr] = "exited"

\* A thread that can be joined, or whose clean-up is on its way, has its struct
\* and its worker.
StructInv ==
    \A p \in Ptrs :
        /\ owner[p] # None => /\ mem[p] = "allocated" /\ pthreads[p] # None
                              /\ ds[p] # "detached" /\ cleanups[p] = 0
        /\ cleanups[p] # 0 => /\ mem[p] = "allocated" /\ pthreads[p] # None
                              /\ ds[p] \in {"exited", "detached"}
        /\ mem[p] # "allocated" => pthreads[p] = None

\* What the place of a worker in _emscripten_thread_exit says of detach_state.
WorkerInv ==
    \A w \in Workers :
        /\ inbox[w] # <<>> => /\ host[w] # None /\ cleanups[host[w]] = 0
                              /\ ds[host[w]] \in {"joinable", "detached"}
        /\ wpc[w] # "loop" => runs[w] # None
        /\ wpc[w] \notin {"loop", "wake"} =>
              /\ host[w] = runs[w] /\ cleanups[runs[w]] = 0
              /\ wpc[w] \in {"user", "run", "cas"} => ds[runs[w]] \in {"joinable", "detached"}
              /\ wpc[w] = "cleanup" => ds[runs[w]] = "detached"
              /\ wpc[w] = "store" => ds[runs[w]] = "exiting"

\* A worker that hosts a thread, or waits for one, has been started.
StartedInv ==
    /\ \A w \in Workers : host[w] # None => loaded[w] # "none"
    /\ \A i \in DOMAIN unused : loaded[unused[i]] # "none"

LifecycleInv ==
    /\ TypeOK /\ PoolConsistent
    /\ OneCaller /\ CallInv /\ StructInv /\ WorkerInv /\ StartedInv

\* A call, as TypeOK has it.
OpType == [at : {"none", "spawn"} \union Joining, ptr : Ptrs \union {None}, saw : DetachState]

-----------------------------------------------------------------------------
(***************************************************************************)
(* Lemmas                                                                  *)
(***************************************************************************)
\* getNewWorker takes the last unused worker away.
LEMMA TailOf ==
    ASSUME NEW S, NEW s \in Seq(S), s # <<>>
    PROVE  /\ Head(s) \in S /\ Tail(s) \in Seq(S)
           /\ 1 \in DOMAIN s /\ Head(s) = s[1]
           /\ \A i \in DOMAIN Tail(s) : i + 1 \in DOMAIN s /\ Tail(s)[i] = s[i + 1] /\ i \in Nat
  OBVIOUS

\* returnWorkerToPool puts a worker in front.
LEMMA InFront ==
    ASSUME NEW S, NEW s \in Seq(S), NEW x \in S
    PROVE  /\ <<x>> \o s \in Seq(S)
           /\ \A i \in DOMAIN (<<x>> \o s) :
                 \/ i = 1 /\ (<<x>> \o s)[i] = x
                 \/ i \in Nat \ {1} /\ i - 1 \in DOMAIN s /\ (<<x>> \o s)[i] = s[i - 1]
<1>1. <<x>> \in Seq(S) /\ Len(<<x>>) = 1 /\ <<x>>[1] = x
  OBVIOUS
<1> QED BY <1>1

-----------------------------------------------------------------------------
(***************************************************************************)
(* Each action keeps the invariant                                         *)
(***************************************************************************)
\* None is neither a worker nor a thread.
LEMMA NoneApart ==
    /\ \A w \in Workers : w # None
    /\ \A c \in Callers : c # None
    /\ \A p \in Ptrs : p # None /\ p # Main /\ p \in Callers
  BY ThreadLifecycleAssumption DEF Callers

\* pthread_create takes a struct that nobody has.
LEMMA CreateKeeps ==
    ASSUME LifecycleInv, NEW c \in Callers, NEW p \in Ptrs, NEW d \in BOOLEAN, Create(c, p, d)
    PROVE  LifecycleInv'
<1> USE DEF LifecycleInv
<1>1. /\ op[c] = NoOp /\ mem[p] = "free" /\ creates < MaxCreates
      /\ creates' = creates + 1
      /\ mem' = [mem EXCEPT ![p] = "allocated"]
      /\ ds' = [ds EXCEPT ![p] = IF d THEN "detached" ELSE "joinable"]
      /\ op' = [op EXCEPT ![c] = Op("spawn", p, "exited")]
      /\ UNCHANGED <<owner, poolVars, workerVars, cleanups>>
  BY DEF Create, CanCall, SetOp
<1>2. /\ pthreads[p] = None /\ owner[p] = None /\ cleanups[p] = 0
      /\ \A x \in Callers : Busy(x) => op[x].ptr # p
      /\ \A w \in Workers : host[w] # p
  <2>1. pthreads[p] = None
    BY <1>1 DEF StructInv
  <2>2. owner[p] = None /\ cleanups[p] = 0
    BY <1>1 DEF StructInv
  <2>3. \A x \in Callers : Busy(x) => op[x].ptr # p
    BY <1>1 DEF CallInv
  <2>4. \A w \in Workers : host[w] # p
    BY <2>1, NoneApart DEF PoolConsistent
  <2> QED BY <2>1, <2>2, <2>3, <2>4
<1>3. TypeOK'
  BY <1>1, ThreadLifecycleAssumption
  DEF TypeOK, poolVars, workerVars, Op, DetachState, Joining
<1>4. PoolConsistent'
  BY <1>1 DEF PoolConsistent, poolVars, workerVars
<1>5. OneCaller' /\ CallInv'
  BY <1>1, <1>2 DEF OneCaller, CallInv, Busy, TypeOK, poolVars, Op
<1>6. StructInv'
  BY <1>1, <1>2 DEF StructInv, TypeOK, poolVars
<1>7. WorkerInv' /\ StartedInv'
  BY <1>1, <1>2 DEF WorkerInv, StartedInv, TypeOK, poolVars, workerVars
<1> QED BY <1>3, <1>4, <1>5, <1>6, <1>7

\* getNewWorker: the worker is started, hosts nobody, was sent nothing, and is out
\* of the code of its last thread, save for the end of that thread's exit.
LEMMA NewWorkerIdle ==
    ASSUME LifecycleInv, NEW w \in Workers, NewWorker(w)
    PROVE  /\ host[w] = None /\ inbox[w] = <<>> /\ wpc[w] \in {"loop", "wake"}
           /\ unused' \in Seq(Workers) /\ loaded' \in [Workers -> {"none", "loading", "ready"}]
           /\ loaded'[w] # "none"
           /\ \A x \in Workers : loaded[x] # "none" => loaded'[x] # "none"
           /\ \A i \in DOMAIN unused' : /\ unused'[i] # w /\ host[unused'[i]] = None
                                        /\ loaded'[unused'[i]] # "none"
           /\ \A i, j \in DOMAIN unused' : unused'[i] = unused'[j] => i = j
<1> USE DEF LifecycleInv
<1>1. /\ unused \in Seq(Workers) /\ loaded \in [Workers -> {"none", "loading", "ready"}]
      /\ wpc \in [Workers -> {"loop", "user"} \union Exiting]
  BY DEF TypeOK
<1>2. CASE unused # <<>>
  <2>1. w = Head(unused) /\ unused' = Tail(unused) /\ loaded' = loaded
    BY <1>2 DEF NewWorker
  <2>2. /\ Tail(unused) \in Seq(Workers) /\ 1 \in DOMAIN unused /\ w = unused[1]
        /\ \A i \in DOMAIN Tail(unused) :
              i + 1 \in DOMAIN unused /\ Tail(unused)[i] = unused[i + 1] /\ i \in DOMAIN unused
              /\ i \in Nat \ {0}
    BY <1>1, <1>2, <2>1, TailOf
  <2>3. host[w] = None /\ loaded[w] # "none"
    BY <2>2 DEF PoolConsistent, StartedInv
  <2>4. \A i \in DOMAIN unused' : /\ unused'[i] # w /\ host[unused'[i]] = None
                                  /\ loaded'[unused'[i]] # "none"
    BY <2>1, <2>2 DEF PoolConsistent, StartedInv
  <2>5. \A i, j \in DOMAIN unused' : unused'[i] = unused'[j] => i = j
    BY <2>1, <2>2 DEF PoolConsistent
  <2>6. inbox[w] = <<>> /\ wpc[w] \in {"loop", "wake"}
    BY <2>3 DEF WorkerInv
  <2> QED BY <1>1, <2>1, <2>2, <2>3, <2>4, <2>5, <2>6
<1>3. CASE unused = <<>>
  <2>1. /\ loaded[w] = "none" /\ unused' = unused
        /\ loaded' = [loaded EXCEPT ![w] = "loading"]
    BY <1>3 DEF NewWorker
  <2>2. host[w] = None
    BY <2>1 DEF StartedInv
  <2>3. inbox[w] = <<>> /\ wpc[w] \in {"loop", "wake"}
    BY <2>2 DEF WorkerInv
  <2>4. DOMAIN unused' = {}
    BY <1>3, <2>1
  <2> QED BY <1>1, <2>1, <2>2, <2>3, <2>4
<1> QED BY <1>2, <1>3

\* spawnThread: the new thread and its worker belong to nobody else.
LEMMA SpawnKeeps ==
    ASSUME LifecycleInv, NEW c \in Callers, NEW w \in Workers, Spawn(c, w)
    PROVE  LifecycleInv'
<1> USE DEF LifecycleInv
<1> DEFINE p == op[c].ptr
<1>1. /\ op[c].at = "spawn" /\ Busy(c)
      /\ pthreads' = [pthreads EXCEPT ![p] = w]
      /\ host' = [host EXCEPT ![w] = p]
      /\ inbox' = [inbox EXCEPT ![w] = Append(@, p)]
      /\ owner' = [owner EXCEPT ![p] = IF ds[p] = "joinable" THEN c ELSE None]
      /\ op' = [op EXCEPT ![c] = NoOp]
      /\ UNCHANGED <<mem, ds, creates, strict, runs, wpc, cleanups>>
      /\ NewWorker(w)
  BY DEF Spawn, SetOp, Busy
<1>2. /\ p \in Ptrs /\ mem[p] = "allocated" /\ owner[p] = None /\ cleanups[p] = 0
      /\ pthreads[p] = None /\ ds[p] \in {"joinable", "detached"}
      /\ p # None /\ w # None /\ c # None
      /\ \A x \in Callers : Busy(x) /\ op[x].ptr = p => x = c
  BY <1>1, ThreadLifecycleAssumption DEF CallInv, OneCaller, Callers
<1>3. /\ host[w] = None /\ inbox[w] = <<>> /\ wpc[w] \in {"loop", "wake"}
      /\ unused' \in Seq(Workers) /\ loaded' \in [Workers -> {"none", "loading", "ready"}]
      /\ loaded'[w] # "none"
      /\ \A x \in Workers : loaded[x] # "none" => loaded'[x] # "none"
      /\ \A i \in DOMAIN unused' : /\ unused'[i] # w /\ host[unused'[i]] = None
                                   /\ loaded'[unused'[i]] # "none"
      /\ \A i, j \in DOMAIN unused' : unused'[i] = unused'[j] => i = j
  BY <1>1, NewWorkerIdle
<1>4. /\ inbox'[w] = <<p>> /\ inbox' \in [Workers -> Seq(Ptrs)]
      /\ \A x \in Workers \ {w} : inbox'[x] = inbox[x]
  BY <1>1, <1>2, <1>3 DEF TypeOK
<1>5. TypeOK'
  BY <1>1, <1>2, <1>3, <1>4 DEF TypeOK, NoOp, Op, DetachState
<1>6. \A x \in Workers : host[x] # p
  BY <1>2, NoneApart DEF PoolConsistent
<1>7. \A q \in Ptrs : pthreads[q] # w
  BY <1>2, <1>3, NoneApart DEF PoolConsistent
<1>8. \A i \in DOMAIN unused' : unused'[i] \in Workers
  BY <1>3
<1>9. PoolConsistent'
  <2>1. \A i \in DOMAIN unused' : host'[unused'[i]] = None
    BY <1>1, <1>3, <1>8 DEF TypeOK
  <2>2. \A x \in Workers : host'[x] # None => pthreads'[host'[x]] = x
    BY <1>1, <1>2, <1>6 DEF TypeOK, PoolConsistent
  <2>3. \A q \in Ptrs : pthreads'[q] # None => host'[pthreads'[q]] = q
    BY <1>1, <1>2, <1>7 DEF TypeOK, PoolConsistent
  <2>4. \A x \in Workers : inbox'[x] # <<>> => inbox'[x] = <<host'[x]>> /\ wpc'[x] \in {"loop", "wake"}
    BY <1>1, <1>2, <1>3, <1>4 DEF TypeOK, PoolConsistent
  <2> QED BY <1>3, <2>1, <2>2, <2>3, <2>4 DEF PoolConsistent
<1>10. OneCaller' /\ CallInv'
  BY <1>1, <1>2 DEF OneCaller, CallInv, Busy, TypeOK, NoOp, Op
<1>11. StructInv'
  BY <1>1, <1>2 DEF StructInv, TypeOK
<1>12. WorkerInv'
  BY <1>1, <1>2, <1>3, <1>4 DEF WorkerInv, TypeOK
<1>13. StartedInv'
  BY <1>1, <1>2, <1>3 DEF StartedInv, TypeOK
<1> QED BY <1>5, <1>9, <1>10, <1>11, <1>12, <1>13

\* spawnThread with an exhausted pool: the struct stays behind with no thread.
LEMMA SpawnFailsKeeps ==
    ASSUME LifecycleInv, NEW c \in Callers, SpawnFails(c)
    PROVE  LifecycleInv'
<1> USE DEF LifecycleInv
<1> DEFINE p == op[c].ptr
<1>1. /\ op[c].at = "spawn" /\ Busy(c)
      /\ mem' = [mem EXCEPT ![p] = "leaked"]
      /\ op' = [op EXCEPT ![c] = NoOp]
      /\ UNCHANGED <<ds, owner, creates, poolVars, workerVars, cleanups>>
  BY DEF SpawnFails, SetOp, Busy
<1>2. /\ p \in Ptrs /\ mem[p] = "allocated" /\ owner[p] = None /\ cleanups[p] = 0
      /\ pthreads[p] = None
      /\ \A x \in Callers : Busy(x) /\ op[x].ptr = p => x = c
  BY <1>1 DEF CallInv, OneCaller
<1>3. TypeOK'
  BY <1>1, <1>2 DEF TypeOK, poolVars, workerVars, NoOp, Op, DetachState
<1>4. PoolConsistent' /\ WorkerInv' /\ StartedInv'
  BY <1>1 DEF PoolConsistent, WorkerInv, StartedInv, poolVars, workerVars
<1>5. OneCaller' /\ CallInv'
  BY <1>1, <1>2 DEF OneCaller, CallInv, Busy, TypeOK, poolVars, NoOp, Op
<1>6. StructInv'
  BY <1>1, <1>2 DEF StructInv, TypeOK, poolVars
<1> QED BY <1>3, <1>4, <1>5, <1>6

\* What holds of the thread in a worker's code, until its last steps.
LEMMA InCode ==
    ASSUME LifecycleInv, NEW w \in Workers, wpc[w] \notin {"loop", "wake"}
    PROVE  /\ runs[w] \in Ptrs /\ host[w] = runs[w] /\ pthreads[runs[w]] = w
           /\ mem[runs[w]] = "allocated" /\ cleanups[runs[w]] = 0 /\ inbox[w] = <<>>
           /\ \A x \in Workers \ {w} : host[x] # runs[w]
<1>1. /\ runs[w] # None /\ host[w] = runs[w] /\ cleanups[runs[w]] = 0
  BY DEF LifecycleInv, WorkerInv
<1>2. runs[w] \in Ptrs
  BY <1>1 DEF LifecycleInv, TypeOK
<1>3. pthreads[runs[w]] = w
  BY <1>1 DEF LifecycleInv, PoolConsistent
<1>4. mem[runs[w]] = "allocated"
  BY <1>2, <1>3, NoneApart DEF LifecycleInv, StructInv
<1>5. \A x \in Workers \ {w} : host[x] # runs[w]
  BY <1>1, <1>3 DEF LifecycleInv, PoolConsistent
<1>6. inbox[w] = <<>>
  BY DEF LifecycleInv, PoolConsistent
<1> QED BY <1>1, <1>2, <1>3, <1>4, <1>5, <1>6

\* The worker has loaded.
LEMMA LoadKeeps ==
    ASSUME LifecycleInv, NEW w \in Workers, Load(w)
    PROVE  LifecycleInv'
<1> USE DEF LifecycleInv
<1>1. /\ loaded' = [loaded EXCEPT ![w] = "ready"]
      /\ UNCHANGED <<mem, ds, owner, creates, pthreads, unused, host, strict, workerVars,
                     cleanups, op>>
  BY DEF Load, structVars
<1>2. TypeOK'
  BY <1>1 DEF TypeOK, workerVars
<1>3. PoolConsistent' /\ WorkerInv'
  BY <1>1 DEF PoolConsistent, WorkerInv, workerVars
<1>4. OneCaller' /\ CallInv' /\ StructInv'
  BY <1>1 DEF OneCaller, CallInv, StructInv, Busy
<1>5. StartedInv'
  <2>1. \A x \in Workers : loaded[x] # "none" => loaded'[x] # "none"
    BY <1>1 DEF TypeOK
  <2>2. \A i \in DOMAIN unused : unused[i] \in Workers
    BY DEF TypeOK
  <2> QED BY <1>1, <2>1, <2>2 DEF StartedInv
<1> QED BY <1>2, <1>3, <1>4, <1>5

\* CMD_RUN: the worker takes the one thread it was sent, which it hosts.
LEMMA RunThreadKeeps ==
    ASSUME LifecycleInv, NEW w \in Workers, RunThread(w)
    PROVE  LifecycleInv'
<1> USE DEF LifecycleInv
<1>1. /\ inbox[w] # <<>>
      /\ runs' = [runs EXCEPT ![w] = Head(inbox[w])]
      /\ inbox' = [inbox EXCEPT ![w] = Tail(@)]
      /\ wpc' = [wpc EXCEPT ![w] = "user"]
      /\ UNCHANGED <<mem, ds, owner, creates, poolVars, cleanups, op>>
  BY DEF RunThread, SetPc, structVars
<1>2. /\ inbox[w] = <<host[w]>> /\ host[w] # None /\ cleanups[host[w]] = 0
      /\ ds[host[w]] \in {"joinable", "detached"}
  BY <1>1 DEF PoolConsistent, WorkerInv
<1>3. Head(inbox[w]) = host[w] /\ Tail(inbox[w]) = <<>> /\ host[w] \in Ptrs
  BY <1>2 DEF TypeOK
<1>4. TypeOK'
  BY <1>1, <1>3 DEF TypeOK, poolVars
<1>5. PoolConsistent'
  BY <1>1, <1>3 DEF PoolConsistent, poolVars, TypeOK
<1>6. OneCaller' /\ CallInv' /\ StructInv'
  BY <1>1 DEF OneCaller, CallInv, StructInv, Busy, poolVars
<1>7. WorkerInv'
  BY <1>1, <1>2, <1>3 DEF WorkerInv, TypeOK, poolVars
<1>8. StartedInv'
  BY <1>1 DEF StartedInv, poolVars
<1> QED BY <1>4, <1>5, <1>6, <1>7, <1>8

\* The start of an exit: what is still to join is handed to main.
LEMMA ExitStartKeeps ==
    ASSUME LifecycleInv, NEW w \in Workers, ExitStart(w)
    PROVE  LifecycleInv'
<1> USE DEF LifecycleInv
<1>1. /\ wpc[w] = "user" /\ wpc' = [wpc EXCEPT ![w] = "run"]
      /\ owner' = [p \in Ptrs |-> IF owner[p] = runs[w] THEN Main ELSE owner[p]]
      /\ UNCHANGED <<mem, ds, creates, poolVars, inbox, runs, cleanups, op>>
  BY DEF ExitStart, SetPc
<1>2. \A p \in Ptrs : owner'[p] # None <=> owner[p] # None
  BY <1>1, InCode, NoneApart DEF Callers
<1>3. TypeOK'
  BY <1>1 DEF TypeOK, poolVars, Exiting, Callers
<1>4. PoolConsistent' /\ StartedInv'
  BY <1>1, InCode DEF PoolConsistent, StartedInv, poolVars, TypeOK
<1>5. OneCaller' /\ CallInv' /\ StructInv'
  BY <1>1, <1>2 DEF OneCaller, CallInv, StructInv, Busy, poolVars
<1>6. WorkerInv'
  BY <1>1 DEF WorkerInv, TypeOK, poolVars
<1> QED BY <1>3, <1>4, <1>5, <1>6

\* Mailbox shutdown and destructors.
LEMMA ExitRunKeeps ==
    ASSUME LifecycleInv, NEW w \in Workers, ExitRun(w)
    PROVE  LifecycleInv'
<1> USE DEF LifecycleInv
<1>1. /\ wpc[w] = "run" /\ wpc' = [wpc EXCEPT ![w] = "cas"]
      /\ UNCHANGED <<mem, ds, owner, creates, poolVars, inbox, runs, cleanups, op>>
  BY DEF ExitRun, SetPc, structVars
<1>2. TypeOK'
  BY <1>1 DEF TypeOK, poolVars, Exiting
<1>3. PoolConsistent' /\ StartedInv'
  BY <1>1, InCode DEF PoolConsistent, StartedInv, poolVars, TypeOK
<1>4. OneCaller' /\ CallInv' /\ StructInv'
  BY <1>1 DEF OneCaller, CallInv, StructInv, Busy, poolVars
<1>5. WorkerInv'
  BY <1>1 DEF WorkerInv, TypeOK, poolVars
<1> QED BY <1>2, <1>3, <1>4, <1>5

\* The compare-and-swap: a thread that was detached before will clean up, any
\* other is now past detaching.
LEMMA ExitCasKeeps ==
    ASSUME LifecycleInv, NEW w \in Workers, ExitCas(w)
    PROVE  LifecycleInv'
<1> USE DEF LifecycleInv
<1> DEFINE p == runs[w]
<1>1. /\ wpc[w] = "cas"
      /\ ds' = IF ds[p] = "joinable" THEN [ds EXCEPT ![p] = "exiting"] ELSE ds
      /\ wpc' = [wpc EXCEPT ![w] = IF ds[p] = "detached" THEN "cleanup" ELSE "store"]
      /\ UNCHANGED <<mem, owner, creates, poolVars, inbox, runs, cleanups, op>>
  BY DEF ExitCas, SetPc
<1>2. /\ p \in Ptrs /\ host[w] = p /\ pthreads[p] # None /\ cleanups[p] = 0
      /\ inbox[w] = <<>> /\ ds[p] \in {"joinable", "detached"}
      /\ \A x \in Workers \ {w} : host[x] # p
  BY <1>1, InCode, NoneApart DEF WorkerInv
<1>3. TypeOK'
  BY <1>1, <1>2 DEF TypeOK, poolVars, Exiting, DetachState
<1>4. PoolConsistent' /\ StartedInv'
  BY <1>1, <1>2 DEF PoolConsistent, StartedInv, poolVars, TypeOK
<1>5. OneCaller' /\ CallInv'
  BY <1>1, <1>2 DEF OneCaller, CallInv, Busy, poolVars, TypeOK
<1>6. StructInv'
  BY <1>1, <1>2 DEF StructInv, poolVars, TypeOK
<1>7. WorkerInv'
  BY <1>1, <1>2 DEF WorkerInv, TypeOK, poolVars
<1> QED BY <1>3, <1>4, <1>5, <1>6, <1>7

\* A detached thread sends the message that frees it, the first and only one.
LEMMA ExitCleanupKeeps ==
    ASSUME LifecycleInv, NEW w \in Workers, ExitCleanup(w)
    PROVE  LifecycleInv'
<1> USE DEF LifecycleInv
<1> DEFINE p == runs[w]
<1>1. /\ wpc[w] = "cleanup"
      /\ cleanups' = [cleanups EXCEPT ![p] = @ + 1]
      /\ wpc' = [wpc EXCEPT ![w] = "loop"] /\ runs' = [runs EXCEPT ![w] = None]
      /\ UNCHANGED <<mem, ds, owner, creates, poolVars, inbox, op>>
  BY DEF ExitCleanup, SetPc, structVars
<1>2. /\ p \in Ptrs /\ host[w] = p /\ pthreads[p] # None /\ cleanups[p] = 0
      /\ mem[p] = "allocated" /\ inbox[w] = <<>> /\ ds[p] = "detached"
      /\ \A x \in Workers \ {w} : host[x] # p
  BY <1>1, InCode, NoneApart DEF WorkerInv
<1>3. cleanups' = [cleanups EXCEPT ![p] = 1]
  BY <1>1, <1>2
<1>4. TypeOK'
  BY <1>1, <1>2, <1>3 DEF TypeOK, poolVars
<1>5. PoolConsistent' /\ StartedInv'
  BY <1>1, <1>2 DEF PoolConsistent, StartedInv, poolVars, TypeOK
<1>6. \A c \in Callers : Busy(c) => op[c].ptr # p
  BY <1>2 DEF CallInv
<1>7. OneCaller' /\ CallInv'
  BY <1>1, <1>3, <1>6 DEF OneCaller, CallInv, Busy, poolVars, TypeOK
<1>8. StructInv'
  BY <1>1, <1>2, <1>3 DEF StructInv, poolVars, TypeOK
<1>9. WorkerInv'
  BY <1>1, <1>2, <1>3 DEF WorkerInv, TypeOK, poolVars
<1> QED BY <1>4, <1>5, <1>7, <1>8, <1>9

\* EXITED is published: from here on the worker leaves the struct alone.
LEMMA ExitStoreKeeps ==
    ASSUME LifecycleInv, NEW w \in Workers, ExitStore(w)
    PROVE  LifecycleInv'
<1> USE DEF LifecycleInv
<1> DEFINE p == runs[w]
<1>1. /\ wpc[w] = "store"
      /\ ds' = [ds EXCEPT ![p] = "exited"] /\ wpc' = [wpc EXCEPT ![w] = "wake"]
      /\ UNCHANGED <<mem, owner, creates, poolVars, inbox, runs, cleanups, op>>
  BY DEF ExitStore, SetPc
<1>2. /\ p \in Ptrs /\ p # None /\ host[w] = p /\ pthreads[p] # None /\ cleanups[p] = 0
      /\ inbox[w] = <<>> /\ ds[p] = "exiting"
      /\ \A x \in Workers \ {w} : host[x] # p
  BY <1>1, InCode, NoneApart DEF WorkerInv
<1>3. TypeOK'
  BY <1>1, <1>2 DEF TypeOK, poolVars, Exiting, DetachState
<1>4. PoolConsistent' /\ StartedInv'
  BY <1>1, <1>2 DEF PoolConsistent, StartedInv, poolVars, TypeOK
<1>5. OneCaller' /\ CallInv'
  BY <1>1, <1>2 DEF OneCaller, CallInv, Busy, poolVars, TypeOK
<1>6. StructInv'
  BY <1>1, <1>2 DEF StructInv, poolVars, TypeOK
<1>7. WorkerInv'
  BY <1>1, <1>2 DEF WorkerInv, TypeOK, poolVars
<1> QED BY <1>3, <1>4, <1>5, <1>6, <1>7

\* A call of a caller goes on about the same thread, as a join.
LEMMA JoinGoesOn ==
    ASSUME LifecycleInv, NEW c \in Callers, NEW at \in {"read", "wait", "asleep"},
           NEW s \in DetachState,
           Busy(c), op[c].at # "spawn",
           op' = [op EXCEPT ![c] = [@ EXCEPT !.at = at, !.saw = s]],
           UNCHANGED <<mem, ds, owner, pthreads, cleanups>>
    PROVE  OneCaller' /\ CallInv' /\ StructInv' /\ op' \in [Callers -> OpType]
<1> USE DEF LifecycleInv
<1>1. op \in [Callers -> OpType]
  BY DEF TypeOK, OpType
<1>2. op' \in [Callers -> OpType] /\ \A x \in Callers \ {c} : op'[x] = op[x]
  BY <1>1 DEF OpType, Joining
<1>3. op'[c].at = at /\ op'[c].ptr = op[c].ptr
  BY <1>1 DEF OpType
<1>4. \A x \in Callers : op'[x].ptr = op[x].ptr /\ (op'[x].at # "none" <=> op[x].at # "none")
  BY <1>2, <1>3 DEF Busy
<1>5. OneCaller'
  BY <1>4 DEF OneCaller, Busy
<1>6. CallInv'
  BY <1>2, <1>3 DEF CallInv, Busy
<1>7. StructInv'
  BY DEF StructInv
<1> QED BY <1>2, <1>5, <1>6, <1>7

\* A call that returns, or a call that stays as it is: fewer claims.
LEMMA CallsLess ==
    ASSUME LifecycleInv, op' \in [Callers -> OpType],
           \A x \in Callers : op'[x].at # "none" => op'[x] = op[x]
    PROVE  /\ OneCaller'
           /\ UNCHANGED <<mem, ds, owner, pthreads, cleanups>> => CallInv'
  BY DEF LifecycleInv, OneCaller, CallInv, Busy

\* The end of an exit: a joiner that was asleep looks at the state again.
LEMMA ExitWakeKeeps ==
    ASSUME LifecycleInv, NEW w \in Workers, ExitWake(w)
    PROVE  LifecycleInv'
<1> USE DEF LifecycleInv
<1>1. /\ wpc' = [wpc EXCEPT ![w] = "loop"] /\ runs' = [runs EXCEPT ![w] = None]
      /\ wpc[w] = "wake"
      /\ UNCHANGED <<mem, ds, owner, creates, poolVars, inbox, cleanups>>
  BY DEF ExitWake, SetPc, structVars
<1>2. op \in [Callers -> OpType]
  BY DEF TypeOK, OpType
<1>3. op' \in [Callers -> OpType] /\ OneCaller' /\ CallInv' /\ StructInv'
  <2>1. CASE UNCHANGED op
    BY <1>1, <1>2, <2>1 DEF OneCaller, CallInv, StructInv, Busy, poolVars
  <2>2. ASSUME NEW c \in Callers, op[c].at = "asleep", op' = [op EXCEPT ![c] = [op[c] EXCEPT !.at = "read"]]
        PROVE  op' \in [Callers -> OpType] /\ OneCaller' /\ CallInv' /\ StructInv'
    <3>1. op[c].saw \in DetachState /\ Busy(c) /\ op[c].at # "spawn"
      BY <1>2, <2>2 DEF OpType, Busy
    <3>2. op' = [op EXCEPT ![c] = [@ EXCEPT !.at = "read", !.saw = op[c].saw]]
      BY <1>2, <2>2 DEF OpType
    <3> QED BY <1>1, <3>1, <3>2, JoinGoesOn DEF poolVars
  <2> QED BY <2>1, <2>2 DEF ExitWake, SetOp
<1>4. TypeOK'
  BY <1>1, <1>3 DEF TypeOK, poolVars, OpType
<1>5. PoolConsistent' /\ StartedInv' /\ WorkerInv'
  BY <1>1 DEF PoolConsistent, StartedInv, WorkerInv, poolVars, TypeOK
<1> QED BY <1>3, <1>4, <1>5

\* pthread_join uses the right to join up.
LEMMA JoinKeeps ==
    ASSUME LifecycleInv, NEW c \in Callers, NEW p \in Ptrs, Join(c, p)
    PROVE  LifecycleInv'
<1> USE DEF LifecycleInv
<1>1. /\ owner[p] = c /\ op[c] = NoOp
      /\ owner' = [owner EXCEPT ![p] = None]
      /\ op' = [op EXCEPT ![c] = Op("read", p, "exited")]
      /\ UNCHANGED <<mem, ds, creates, poolVars, workerVars, cleanups>>
  BY DEF Join, CanCall, SetOp
<1>2. /\ mem[p] = "allocated" /\ pthreads[p] # None /\ ds[p] # "detached" /\ cleanups[p] = 0
      /\ \A x \in Callers : Busy(x) => op[x].ptr # p
  BY <1>1, NoneApart DEF StructInv, CallInv
<1>3. TypeOK'
  BY <1>1 DEF TypeOK, poolVars, workerVars, Op, DetachState, Joining
<1>4. PoolConsistent' /\ StartedInv' /\ WorkerInv'
  BY <1>1 DEF PoolConsistent, StartedInv, WorkerInv, poolVars, workerVars
<1>5. OneCaller' /\ CallInv'
  BY <1>1, <1>2 DEF OneCaller, CallInv, Busy, TypeOK, poolVars, Op
<1>6. StructInv'
  BY <1>1, <1>2 DEF StructInv, TypeOK, poolVars
<1> QED BY <1>3, <1>4, <1>5, <1>6

\* The loop of a join: it sees EXITED and may clean up, or goes to wait.
LEMMA ReadStateKeeps ==
    ASSUME LifecycleInv, NEW c \in Callers, ReadState(c)
    PROVE  LifecycleInv'
<1> USE DEF LifecycleInv
<1> DEFINE p == op[c].ptr
<1>1. /\ op[c].at = "read" /\ Busy(c) /\ op[c].at # "spawn"
      /\ op' = [op EXCEPT ![c] = IF ds[p] = "exited" THEN [op[c] EXCEPT !.at = "reap"]
                                 ELSE IF ds[p] = "detached" THEN NoOp
                                 ELSE [op[c] EXCEPT !.at = "wait", !.saw = ds[p]]]
      /\ UNCHANGED <<mem, ds, owner, creates, poolVars, workerVars, cleanups>>
  BY DEF ReadState, SetOp, Busy, structVars
<1>2. op \in [Callers -> OpType] /\ ds \in [Ptrs -> DetachState]
  BY DEF TypeOK, OpType
<1>3. p \in Ptrs /\ ds[p] # "detached"
  BY <1>1 DEF CallInv
<1>4. op' \in [Callers -> OpType] /\ OneCaller' /\ CallInv' /\ StructInv'
  <2>1. CASE ds[p] = "exited"
    <3>1. op' \in [Callers -> OpType] /\ \A x \in Callers \ {c} : op'[x] = op[x]
      BY <1>1, <1>2, <2>1 DEF OpType, Joining
    <3>2. op'[c].at = "reap" /\ op'[c].ptr = p
      BY <1>1, <1>2, <2>1 DEF OpType
    <3>3. \A x \in Callers : op'[x].ptr = op[x].ptr /\ (op'[x].at # "none" <=> op[x].at # "none")
      BY <1>1, <3>1, <3>2 DEF Busy
    <3>4. OneCaller'
      BY <3>3 DEF OneCaller, Busy
    <3>5. CallInv'
      BY <1>1, <2>1, <3>1, <3>2 DEF CallInv, Busy, poolVars
    <3> QED BY <1>1, <3>1, <3>4, <3>5 DEF StructInv, poolVars
  <2>2. CASE ds[p] # "exited"
    <3>1. op' = [op EXCEPT ![c] = [@ EXCEPT !.at = "wait", !.saw = ds[p]]] /\ ds[p] \in DetachState
      BY <1>1, <1>2, <1>3, <2>2
    <3> QED BY <1>1, <3>1, JoinGoesOn DEF poolVars
  <2> QED BY <2>1, <2>2
<1>5. TypeOK'
  BY <1>1, <1>4 DEF TypeOK, poolVars, workerVars, OpType
<1>6. PoolConsistent' /\ StartedInv' /\ WorkerInv'
  BY <1>1 DEF PoolConsistent, StartedInv, WorkerInv, poolVars, workerVars
<1> QED BY <1>4, <1>5, <1>6

\* The futex wait of a join.
LEMMA WaitStateKeeps ==
    ASSUME LifecycleInv, NEW c \in Callers, WaitState(c)
    PROVE  LifecycleInv'
<1> USE DEF LifecycleInv
<1>1. /\ op[c].at = "wait" /\ Busy(c) /\ op[c].at # "spawn"
      /\ op' = [op EXCEPT ![c] = [@ EXCEPT
                  !.at = IF ds[op[c].ptr] = op[c].saw THEN "asleep" ELSE "read"]]
      /\ UNCHANGED <<mem, ds, owner, creates, poolVars, workerVars, cleanups>>
  BY DEF WaitState, SetOp, Busy, structVars, TypeOK
<1>2. op \in [Callers -> OpType]
  BY DEF TypeOK, OpType
<1>3. op[c].saw \in DetachState
  BY <1>2 DEF OpType
<1>4. PICK at \in {"read", "wait", "asleep"} :
         op' = [op EXCEPT ![c] = [@ EXCEPT !.at = at, !.saw = op[c].saw]]
  <2>1. [op[c] EXCEPT !.at = "asleep"] = [op[c] EXCEPT !.at = "asleep", !.saw = op[c].saw]
    BY <1>2 DEF OpType
  <2>2. [op[c] EXCEPT !.at = "read"] = [op[c] EXCEPT !.at = "read", !.saw = op[c].saw]
    BY <1>2 DEF OpType
  <2> QED BY <1>1, <1>2, <2>1, <2>2
<1>5. op' \in [Callers -> OpType] /\ OneCaller' /\ CallInv' /\ StructInv'
  BY <1>1, <1>3, <1>4, JoinGoesOn DEF poolVars
<1>6. TypeOK'
  BY <1>1, <1>5 DEF TypeOK, poolVars, workerVars, OpType
<1>7. PoolConsistent' /\ StartedInv' /\ WorkerInv'
  BY <1>1 DEF PoolConsistent, StartedInv, WorkerInv, poolVars, workerVars
<1> QED BY <1>5, <1>6, <1>7

\* pthread_detach and the compare-and-swap: the winner leaves the clean-up to the
\* exiting thread, the loser joins.
LEMMA DetachKeeps ==
    ASSUME LifecycleInv, ~AlsoDetach, NEW c \in Callers, NEW p \in Ptrs, Detach(c, p)
    PROVE  LifecycleInv'
<1> USE DEF LifecycleInv
<1>1. /\ owner[p] # None /\ op[c] = NoOp
      /\ owner' = [owner EXCEPT ![p] = None]
      /\ UNCHANGED <<mem, creates, poolVars, workerVars, cleanups>>
  BY DEF Detach, CanCall
<1>2. /\ mem[p] = "allocated" /\ pthreads[p] # None /\ ds[p] # "detached" /\ cleanups[p] = 0
      /\ \A x \in Callers : Busy(x) => op[x].ptr # p
  BY <1>1 DEF StructInv, CallInv
<1>3. \/ ds[p] = "joinable" /\ ds' = [ds EXCEPT ![p] = "detached"] /\ op' = op
      \/ ds[p] # "joinable" /\ ds' = ds /\ op' = [op EXCEPT ![c] = Op("read", p, "exited")]
  BY <1>2 DEF Detach, SetOp
<1>4. CASE ds[p] = "joinable" /\ ds' = [ds EXCEPT ![p] = "detached"] /\ op' = op
  <2>1. TypeOK'
    BY <1>1, <1>4 DEF TypeOK, poolVars, workerVars, DetachState
  <2>2. PoolConsistent' /\ StartedInv'
    BY <1>1 DEF PoolConsistent, StartedInv, poolVars, workerVars
  <2>3. OneCaller' /\ CallInv' /\ StructInv'
    BY <1>1, <1>2, <1>4 DEF OneCaller, CallInv, StructInv, Busy, TypeOK, poolVars
  <2>4. WorkerInv'
    BY <1>1, <1>4 DEF WorkerInv, TypeOK, poolVars, workerVars
  <2> QED BY <2>1, <2>2, <2>3, <2>4
<1>5. CASE ds[p] # "joinable" /\ ds' = ds /\ op' = [op EXCEPT ![c] = Op("read", p, "exited")]
  <2>1. TypeOK'
    BY <1>1, <1>5 DEF TypeOK, poolVars, workerVars, Op, DetachState, Joining
  <2>2. PoolConsistent' /\ StartedInv' /\ WorkerInv'
    BY <1>1, <1>5 DEF PoolConsistent, StartedInv, WorkerInv, poolVars, workerVars
  <2>3. OneCaller' /\ CallInv' /\ StructInv'
    BY <1>1, <1>2, <1>5 DEF OneCaller, CallInv, StructInv, Busy, TypeOK, poolVars, Op
  <2> QED BY <2>1, <2>2, <2>3
<1> QED BY <1>3, <1>4, <1>5

\* cleanupThread and returnWorkerToPool: a thread that nobody can join any more, and
\* whose worker is out of its code, leaves no trace.
LEMMA CleanupKeeps ==
    ASSUME LifecycleInv, NEW p \in Ptrs, Cleanup(p), UNCHANGED <<creates, workerVars>>,
           owner[p] = None,
           \A w \in Workers : host[w] = p => inbox[w] = <<>> /\ wpc[w] \in {"loop", "wake"},
           cleanups' \in [Ptrs -> 0..1], cleanups'[p] = 0,
           \A q \in Ptrs \ {p} : cleanups'[q] = cleanups[q],
           op' \in [Callers -> OpType],
           \A x \in Callers : op'[x].at # "none" => op'[x] = op[x] /\ op[x].ptr # p
    PROVE  LifecycleInv'
<1> USE DEF LifecycleInv
<1> DEFINE w == pthreads[p]
<1>1. /\ w # None
      /\ pthreads' = [pthreads EXCEPT ![p] = None]
      /\ unused' = <<w>> \o unused
      /\ host' = [host EXCEPT ![w] = None]
      /\ mem' = [mem EXCEPT ![p] = "free"]
      /\ UNCHANGED <<ds, owner, loaded, strict, creates, inbox, runs, wpc>>
  BY DEF Cleanup, workerVars
<1>2. w \in Workers /\ host[w] = p /\ loaded[w] # "none" /\ p # None
  BY <1>1, NoneApart DEF TypeOK, PoolConsistent, StartedInv
<1>3. inbox[w] = <<>> /\ wpc[w] \in {"loop", "wake"}
  BY <1>2
<1>4. /\ unused' \in Seq(Workers)
      /\ \A i \in DOMAIN unused' :
            \/ i = 1 /\ unused'[i] = w
            \/ i \in Nat \ {1} /\ i - 1 \in DOMAIN unused /\ unused'[i] = unused[i - 1]
  BY <1>1, <1>2, InFront DEF TypeOK
<1>5. \A i \in DOMAIN unused : unused[i] \in Workers /\ unused[i] # w /\ host[unused[i]] = None
  BY <1>2 DEF TypeOK, PoolConsistent
<1>6. TypeOK'
  BY <1>1, <1>2, <1>4 DEF TypeOK, OpType
<1>7. PoolConsistent'
  <2>1. \A i, j \in DOMAIN unused' : unused'[i] = unused'[j] => i = j
    <3> SUFFICES ASSUME NEW i \in DOMAIN unused', NEW j \in DOMAIN unused',
                        unused'[i] = unused'[j]
                 PROVE  i = j
      OBVIOUS
    <3>1. CASE i = 1
      <4>1. unused'[j] = w
        BY <1>4, <3>1
      <4>2. ~(j - 1 \in DOMAIN unused /\ unused'[j] = unused[j - 1])
        BY <1>5, <4>1
      <4> QED BY <1>4, <3>1, <4>2
    <3>2. CASE j = 1
      <4>1. unused'[i] = w
        BY <1>4, <3>2
      <4>2. ~(i - 1 \in DOMAIN unused /\ unused'[i] = unused[i - 1])
        BY <1>5, <4>1
      <4> QED BY <1>4, <3>2, <4>2
    <3>3. CASE i # 1 /\ j # 1
      <4>1. i \in Nat /\ j \in Nat /\ i - 1 \in DOMAIN unused /\ j - 1 \in DOMAIN unused
            /\ unused[i - 1] = unused[j - 1]
        BY <1>4, <3>3
      <4>2. i - 1 = j - 1
        BY <4>1 DEF PoolConsistent
      <4> QED BY <4>1, <4>2
    <3> QED BY <3>1, <3>2, <3>3
  <2>2. \A i \in DOMAIN unused' : host'[unused'[i]] = None
    BY <1>1, <1>2, <1>4, <1>5 DEF TypeOK
  <2>3. \A x \in Workers : host'[x] # None => pthreads'[host'[x]] = x
    BY <1>1, <1>2 DEF TypeOK, PoolConsistent
  <2>4. \A q \in Ptrs : pthreads'[q] # None => host'[pthreads'[q]] = q
    BY <1>1, <1>2 DEF TypeOK, PoolConsistent
  <2>5. \A x \in Workers : inbox'[x] # <<>> =>
           inbox'[x] = <<host'[x]>> /\ wpc'[x] \in {"loop", "wake"}
    BY <1>1, <1>3 DEF TypeOK, PoolConsistent
  <2> QED BY <2>1, <2>2, <2>3, <2>4, <2>5 DEF PoolConsistent
<1>8. OneCaller'
  BY CallsLess
<1>9. CallInv'
  BY <1>1 DEF CallInv, Busy, TypeOK
<1>10. StructInv'
  BY <1>1 DEF StructInv, TypeOK
<1>11. \A x \in Workers \ {w} : host[x] # p
  BY <1>2 DEF PoolConsistent
<1>12. WorkerInv'
  <2> SUFFICES ASSUME NEW x \in Workers
               PROVE  WorkerInv!(x)'
    BY DEF WorkerInv
  <2>1. CASE x = w
    BY <1>1, <1>3, <2>1 DEF WorkerInv
  <2>2. CASE x # w
    <3>1. host'[x] = host[x] /\ host[x] # p
      BY <1>1, <1>11, <2>2 DEF TypeOK
    <3>2. host[x] # None => cleanups'[host[x]] = cleanups[host[x]]
      BY <3>1 DEF TypeOK
    <3> QED BY <1>1, <3>1, <3>2 DEF WorkerInv
  <2> QED BY <2>1, <2>2
<1>13. StartedInv'
  BY <1>1, <1>2, <1>4 DEF StartedInv, TypeOK
<1> QED BY <1>6, <1>7, <1>8, <1>9, <1>10, <1>12, <1>13

\* The end of a join: at once on main, by the one message from elsewhere.
LEMMA ReapKeeps ==
    ASSUME LifecycleInv, NEW c \in Callers, Reap(c)
    PROVE  LifecycleInv'
<1> USE DEF LifecycleInv
<1> DEFINE p == op[c].ptr
<1>1. /\ op[c].at = "reap" /\ Busy(c) /\ op' = [op EXCEPT ![c] = NoOp]
      /\ UNCHANGED <<creates, workerVars>>
  BY DEF Reap, SetOp, Busy
<1>2. /\ p \in Ptrs /\ mem[p] = "allocated" /\ owner[p] = None /\ cleanups[p] = 0
      /\ pthreads[p] # None /\ ds[p] = "exited"
      /\ \A x \in Callers : Busy(x) /\ op[x].ptr = p => x = c
  BY <1>1 DEF CallInv, OneCaller
<1>3. op \in [Callers -> OpType] /\ op' \in [Callers -> OpType] /\ op'[c].at = "none"
  BY <1>1 DEF TypeOK, OpType, NoOp, Op, DetachState
<1>4. \A x \in Callers : op'[x].at # "none" => op'[x] = op[x] /\ op[x].ptr # p
  BY <1>1, <1>2, <1>3 DEF Busy
<1>5. \A w \in Workers : host[w] = p => inbox[w] = <<>> /\ wpc[w] \in {"loop", "wake"}
  <2> SUFFICES ASSUME NEW w \in Workers, host[w] = p
               PROVE  inbox[w] = <<>> /\ wpc[w] \in {"loop", "wake"}
    OBVIOUS
  <2>1. inbox[w] = <<>>
    BY <1>2 DEF WorkerInv
  <2>2. wpc[w] \in {"loop", "user", "run", "cas", "cleanup", "store", "wake"}
    BY DEF TypeOK, Exiting
  <2>3. wpc[w] \notin {"user", "run", "cas", "cleanup", "store"}
    BY <1>2 DEF WorkerInv
  <2> QED BY <2>1, <2>2, <2>3
<1>6. CASE c = Main
  <2>1. Cleanup(p) /\ cleanups' = cleanups
    BY <1>6 DEF Reap
  <2> QED BY <1>1, <1>2, <1>3, <1>4, <1>5, <2>1, CleanupKeeps DEF TypeOK
<1>7. CASE c # Main
  <2>1. /\ cleanups' = [cleanups EXCEPT ![p] = 1]
        /\ UNCHANGED <<mem, ds, owner, poolVars>>
    BY <1>2, <1>7 DEF Reap, structVars
  <2>2. TypeOK'
    <3>1. cleanups' \in [Ptrs -> 0..1]
      <4>1. cleanups \in [Ptrs -> 0..1] /\ 1 \in 0..1
        BY DEF TypeOK
      <4> QED BY <2>1, <4>1
    <3> QED BY <1>1, <1>3, <2>1, <3>1 DEF TypeOK, poolVars, workerVars, OpType
  <2>3. PoolConsistent' /\ StartedInv'
    BY <1>1, <2>1 DEF PoolConsistent, StartedInv, poolVars, workerVars
  <2>4. OneCaller'
    BY <1>3, <1>4, CallsLess
  <2>5. CallInv'
    BY <1>4, <2>1 DEF CallInv, Busy, poolVars, TypeOK
  <2>6. StructInv'
    BY <1>2, <2>1 DEF StructInv, poolVars, TypeOK
  <2>7. WorkerInv'
    BY <1>1, <1>5, <2>1 DEF WorkerInv, poolVars, workerVars, TypeOK
  <2> QED BY <2>2, <2>3, <2>4, <2>5, <2>6, <2>7
<1> QED BY <1>6, <1>7

\* Main receives the one message about a thread.
LEMMA CleanupMessageKeeps ==
    ASSUME LifecycleInv, NEW p \in Ptrs, CleanupMessage(p)
    PROVE  LifecycleInv'
<1> USE DEF LifecycleInv
<1>1. /\ cleanups[p] \in 0..1 /\ cleanups[p] > 0
      /\ cleanups' = [cleanups EXCEPT ![p] = @ - 1]
      /\ Cleanup(p) /\ op' = op /\ UNCHANGED <<creates, workerVars>>
  BY DEF CleanupMessage, TypeOK
<1>2. cleanups[p] # 0 /\ cleanups' = [cleanups EXCEPT ![p] = 0]
  <2>1. cleanups[p] = 1 /\ cleanups[p] - 1 = 0
    BY <1>1
  <2> QED BY <1>1, <2>1
<1>3. owner[p] = None /\ ds[p] \in {"exited", "detached"}
  BY <1>2 DEF StructInv
<1>4. \A x \in Callers : Busy(x) => op[x].ptr # p
  BY <1>2 DEF CallInv
<1>5. \A w \in Workers : host[w] = p => inbox[w] = <<>> /\ wpc[w] \in {"loop", "wake"}
  BY <1>2, NoneApart DEF WorkerInv
<1>6. cleanups' \in [Ptrs -> 0..1] /\ cleanups'[p] = 0
      /\ \A q \in Ptrs \ {p} : cleanups'[q] = cleanups[q]
  BY <1>2 DEF TypeOK
<1>7. op' \in [Callers -> OpType]
  BY <1>1 DEF TypeOK, OpType
<1> QED BY <1>1, <1>3, <1>4, <1>5, <1>6, <1>7, CleanupKeeps DEF Busy

-----------------------------------------------------------------------------
(***************************************************************************)
(* The theorems                                                            *)
(***************************************************************************)
\* At the start the structs are free, and the pool's workers host nobody.
LEMMA InitLifecycle == Init => LifecycleInv
<1> SUFFICES ASSUME Init PROVE LifecycleInv
  OBVIOUS
<1>1. TypeOK
  <2>1. unused \in Seq(Workers)
    <3>1. PICK s \in [1..PoolSize -> Workers] : unused = s
      BY DEF Init
    <3>2. PoolSize \in Nat
      BY ThreadLifecycleAssumption, FS_CardinalityType
    <3> QED BY <3>1, <3>2
  <2>2. <<>> \in Seq(Ptrs) /\ 0 \in 0..1 /\ 0 \in 0..MaxCreates
    BY ThreadLifecycleAssumption
  <2>3. op \in [Callers -> OpType]
    BY DEF Init, NoOp, Op, OpType, DetachState
  <2>4. loaded \in [Workers -> {"none", "loading", "ready"}]
    BY DEF Init
  <2> QED BY <2>1, <2>2, <2>3, <2>4 DEF Init, TypeOK, OpType, DetachState
<1>2. PoolConsistent
  BY <1>1, NoneApart DEF Init, PoolConsistent, TypeOK
<1>3. OneCaller /\ CallInv
  BY DEF Init, OneCaller, CallInv, Busy, NoOp, Op
<1>4. StructInv
  BY DEF Init, StructInv
<1>5. WorkerInv
  BY DEF Init, WorkerInv
<1>6. StartedInv
  BY DEF Init, StartedInv
<1> QED BY <1>1, <1>2, <1>3, <1>4, <1>5, <1>6 DEF LifecycleInv

\* A step that changes nothing.
LEMMA LifecycleStutter == LifecycleInv /\ UNCHANGED vars => LifecycleInv'
  BY DEF LifecycleInv, TypeOK, PoolConsistent, OneCaller, CallInv, StructInv, WorkerInv,
         StartedInv, Busy, vars, structVars, poolVars, workerVars

\* Every step keeps the invariant.
LEMMA LifecycleStep ==
    ASSUME ~AlsoDetach, LifecycleInv, [Next]_vars
    PROVE  LifecycleInv'
<1>1. ASSUME NEW w \in Workers, WorkerStep(w) PROVE LifecycleInv'
  BY <1>1, LoadKeeps, RunThreadKeeps, ExitRunKeeps, ExitCasKeeps, ExitCleanupKeeps,
     ExitStoreKeeps, ExitWakeKeeps DEF WorkerStep
<1>2. ASSUME NEW w \in Workers, ExitStart(w) PROVE LifecycleInv'
  BY <1>2, ExitStartKeeps
<1>3. ASSUME NEW c \in Callers, CallStep(c) PROVE LifecycleInv'
  BY <1>3, SpawnKeeps, SpawnFailsKeeps, ReadStateKeeps, WaitStateKeeps, ReapKeeps
  DEF CallStep
<1>4. ASSUME NEW c \in Callers, Call(c) PROVE LifecycleInv'
  BY <1>4, CreateKeeps, JoinKeeps, DetachKeeps DEF Call
<1>5. ASSUME NEW p \in Ptrs, CleanupMessage(p) PROVE LifecycleInv'
  BY <1>5, CleanupMessageKeeps
<1> QED BY <1>1, <1>2, <1>3, <1>4, <1>5, LifecycleStutter DEF Next

\* The inductive invariant holds in every reachable state.
THEOREM LifecycleInvariant ==
    ASSUME ~AlsoDetach
    PROVE  Spec => []LifecycleInv
  BY InitLifecycle, LifecycleStep, PTL DEF Spec

\* No counter, map or message leaves its range: in particular a second
\* CMD_CLEANUP_THREAD message is never sent about a thread.
THEOREM TypeCorrect ==
    ASSUME ~AlsoDetach
    PROVE  Spec => []TypeOK
<1>1. LifecycleInv => TypeOK
  BY DEF LifecycleInv
<1> QED BY <1>1, LifecycleInvariant, PTL

\* The pool's three views and the messages in flight agree.
THEOREM PoolExact ==
    ASSUME ~AlsoDetach
    PROVE  Spec => []PoolConsistent
<1>1. LifecycleInv => PoolConsistent
  BY DEF LifecycleInv
<1> QED BY <1>1, LifecycleInvariant, PTL

\* The struct of a running thread is neither free nor another's.
THEOREM StructsSafe ==
    ASSUME ~AlsoDetach
    PROVE  Spec => []NoUseAfterFree
<1>1. LifecycleInv => NoUseAfterFree
  BY InCode DEF NoUseAfterFree
<1> QED BY <1>1, LifecycleInvariant, PTL

\* assert(worker) in cleanupThread holds: of exit, detach and join exactly one
\* cleans up, so that the thread still has its worker.
THEOREM CleanedUpOnce ==
    ASSUME ~AlsoDetach
    PROVE  Spec => []OneCleanup
<1>1. ASSUME LifecycleInv, NEW p \in Ptrs
      PROVE  Reaps(p) <= 1 /\ (Reaps(p) = 1 => pthreads[p] # None)
  <2> DEFINE R == {c \in Callers : op[c].at = "reap" /\ op[c].ptr = p}
  <2>1. cleanups[p] \in 0..1
    BY <1>1 DEF LifecycleInv, TypeOK
  <2>2. CASE R = {}
    <3>1. Cardinality(R) = 0
      BY <2>2, FS_EmptySet
    <3>2. Reaps(p) = cleanups[p]
      BY <2>1, <3>1 DEF Reaps
    <3>3. cleanups[p] = 1 => pthreads[p] # None
      BY <1>1 DEF LifecycleInv, StructInv
    <3> QED BY <2>1, <3>2, <3>3
  <2>3. CASE R # {}
    <3>1. PICK c \in R : TRUE
      BY <2>3
    <3>2. R = {c}
      BY <1>1, <3>1 DEF LifecycleInv, OneCaller, Busy
    <3>3. Cardinality(R) = 1
      BY <3>2, FS_Singleton
    <3>4. cleanups[p] = 0 /\ pthreads[p] # None
      BY <1>1, <3>1 DEF LifecycleInv, CallInv, Busy
    <3>5. Reaps(p) = 1
      BY <3>3, <3>4 DEF Reaps
    <3> QED BY <3>4, <3>5
  <2> QED BY <2>2, <2>3
<1>2. LifecycleInv => OneCleanup
  BY <1>1 DEF OneCleanup
<1> QED BY <1>2, LifecycleInvariant, PTL

=============================================================================
