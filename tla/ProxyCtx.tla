----------------------------- MODULE ProxyCtx -----------------------------
(***************************************************************************)
(* Work that is proxied with a context (system/lib/pthread/proxying.c):    *)
(* emscripten_proxy_sync and emscripten_proxy_sync_with_ctx, whose caller  *)
(* waits for the work to be finished, and the callback and promise calls,  *)
(* which proxy a callback back to their caller.                            *)
(*                                                                         *)
(* The context of a synchronous call is on its caller's stack, that of the *)
(* others on the heap.  The Target keeps the contexts of begun work on the *)
(* circular list of the key active_ctxs, from where the key's destructor   *)
(* cancels them when the Target exits.  The task queue of a thread is a    *)
(* ring buffer; that a thread is told of its tasks is the subject of       *)
(* Mailbox, and here it runs them whenever it is free.                     *)
(***************************************************************************)
EXTENDS Naturals, Sequences, FiniteSets, TaskRing

CONSTANTS
    Target,         \* the thread that is sent work
    Callers,        \* the threads that send it
    Syncs,          \* the synchronous calls, named by their contexts
    Callbacks,      \* the calls with a callback
    Asyncs,         \* the calls of emscripten_proxy_async
    CallerOf,       \* CallerOf[c]: the thread that makes a call
    Main,           \* the main runtime thread, if it is a caller
    Null

Threads == Callers \union {Target}
Ctxs == Syncs \union Callbacks
Calls == Ctxs \union Asyncs

ASSUME ProxyCtxAssumption ==
    /\ Target \notin Callers
    /\ CallerOf \in [Calls -> Callers]
    /\ Syncs \intersect Callbacks = {} /\ Ctxs \intersect Asyncs = {}
    /\ Null \notin Calls \union Threads

VARIABLES
    ring,       \* ring[t]: the task queue of a thread
    queued,     \* queued[t]: the tasks sent to it that have not left, in order
    phase,      \* phase[t]: how far a thread is in _emscripten_thread_exit
    stack,      \* stack[t]: its C frames, innermost first
    head,       \* the Target's value of the key active_ctxs
    nxt, prv,   \* the list's pointers in a context
    life,       \* life[c]: the memory of a context
    state,      \* sync.state
    mutex,      \* sync.mutex: the thread that holds it, or Null
    work,       \* work[c]: what became of the work at the Target
    answer      \* answer[c]: what the caller was told

listVars == <<head, nxt, prv>>
vars == <<ring, queued, phase, stack, listVars, life, state, mutex, work, answer>>

\* A task runs the work of a call, or tells its caller of the end.
Task(does, c) == [does |-> does, call |-> c]

\* A frame refers to one context; that of the key's destructor remembers at
\* which context the list began.
Frame(at, c) == [at |-> at, ctx |-> c]
Sweep(c, first) == [at |-> "sweep", ctx |-> c, first |-> first]

Top(t) == Head(stack[t])
At(t, at) == stack[t] # <<>> /\ Top(t).at = at
Free(t) == stack[t] = <<>>
Push(t, f) == stack' = [stack EXCEPT ![t] = <<f>> \o @]
Pop(t) == stack' = [stack EXCEPT ![t] = Tail(@)]
Become(t, fs) == stack' = [stack EXCEPT ![t] = fs \o Tail(@)]

Init ==
    /\ ring = [t \in Threads |-> NewRing]
    /\ queued = [t \in Threads |-> <<>>]
    /\ phase = [t \in Threads |-> "running"]
    /\ stack = [t \in Threads |-> <<>>]
    /\ head = Null
    /\ nxt = [c \in Ctxs |-> Null] /\ prv = [c \in Ctxs |-> Null]
    /\ life = [c \in Ctxs |-> "none"]
    /\ state = [c \in Syncs |-> "PENDING"]
    /\ mutex = [c \in Syncs |-> Null]
    /\ work = [c \in Calls |-> "none"]
    /\ answer = [c \in Ctxs |-> "none"]

-----------------------------------------------------------------------------
(* Calls.  do_proxy is refused by a thread that has closed its mailbox, or  *)
(* because no memory is left.                                              *)

Send(t, task) ==
    /\ phase[t] = "running"
    /\ ring' = [ring EXCEPT ![t] = Enqueue(@, task)]
    /\ queued' = [queued EXCEPT ![t] = Append(@, task)]

Refuse == UNCHANGED <<ring, queued>>

Receive(t) ==
    /\ ~IsEmpty(ring[t])
    /\ ring' = [ring EXCEPT ![t] = Dequeue(@)]
    /\ queued' = [queued EXCEPT ![t] = Tail(@)]

\* The context goes with its caller's frame, or by free_ctx.
FreeCtx(c) == life' = [life EXCEPT ![c] = "freed"]
Tell(c, how) == answer' = [answer EXCEPT ![c] = how]

\* Every call is made once, and not from a callback.
MayCall(s, c) ==
    CallerOf[c] = s /\ phase[s] = "running" /\ Free(s) /\ work[c] = "none"

\* emscripten_proxy_sync_with_ctx up to the wait, do_proxy_callback, and
\* emscripten_proxy_async.
Call(s, c) ==
    /\ MayCall(s, c)
    /\ Send(Target, Task("work", c))
    /\ work' = [work EXCEPT ![c] = "queued"]
    /\ life' = IF c \in Ctxs THEN [life EXCEPT ![c] = "live"] ELSE life
    /\ IF c \in Syncs THEN Push(s, Frame("lock", c)) ELSE UNCHANGED stack
    /\ UNCHANGED <<phase, listVars, state, mutex, answer>>

\* Nothing comes of a refused emscripten_proxy_async.
CallRefused(s, c) ==
    /\ MayCall(s, c) /\ c \in Ctxs
    /\ work' = [work EXCEPT ![c] = "refused"]
    /\ FreeCtx(c) /\ Tell(c, "failed")
    /\ UNCHANGED <<ring, queued, phase, stack, listVars, state, mutex>>

\* Mutant: takes every end of the wait for success.
WaitForAnswer_MutantAnyEnd(s) ==
    /\ At(s, "lock")
    /\ LET c == Top(s).ctx
       IN  /\ mutex[c] = Null
           /\ IF state[c] = "PENDING"
              THEN Become(s, <<Frame("asleep", c)>>) /\ UNCHANGED <<life, answer>>
              ELSE Pop(s) /\ FreeCtx(c) /\ Tell(c, "done")
    /\ UNCHANGED <<ring, queued, phase, listVars, state, mutex, work>>

\* The loop around pthread_cond_wait, which unlocks as it goes to sleep, and
\* the return, which ends the frame that the context is in.
WaitForAnswer(s) ==
    /\ At(s, "lock")
    /\ LET c == Top(s).ctx
       IN  /\ mutex[c] = Null
           /\ IF state[c] = "PENDING"
              THEN Become(s, <<Frame("asleep", c)>>) /\ UNCHANGED <<life, answer>>
              ELSE /\ Pop(s) /\ FreeCtx(c)
                   /\ Tell(c, IF state[c] = "DONE" THEN "done" ELSE "failed")
    /\ UNCHANGED <<ring, queued, phase, listVars, state, mutex, work>>

WakeSpuriously(s) ==
    /\ At(s, "asleep")
    /\ Become(s, <<Frame("lock", Top(s).ctx)>>)
    /\ UNCHANGED <<ring, queued, phase, listVars, life, state, mutex, work, answer>>

-----------------------------------------------------------------------------
(* The list of active contexts *)

AddActive(c) ==
    IF head = Null
    THEN /\ head' = c
         /\ nxt' = [nxt EXCEPT ![c] = c] /\ prv' = [prv EXCEPT ![c] = c]
    ELSE LET last == prv[head]
         IN  /\ nxt' = [nxt EXCEPT ![c] = head, ![last] = c]
             /\ prv' = [prv EXCEPT ![c] = last, ![head] = c]
             /\ UNCHANGED head

\* Mutant: leaves the head at the context it removes.
RemoveActive_MutantKeepHead(c) ==
    IF nxt[c] = c
    THEN /\ head' = Null
         /\ nxt' = [nxt EXCEPT ![c] = Null] /\ prv' = [prv EXCEPT ![c] = Null]
    ELSE /\ UNCHANGED head
         /\ nxt' = [nxt EXCEPT ![prv[c]] = nxt[c], ![c] = Null]
         /\ prv' = [prv EXCEPT ![nxt[c]] = prv[c], ![c] = Null]

RemoveActive(c) ==
    IF nxt[c] = c
    THEN /\ head' = Null
         /\ nxt' = [nxt EXCEPT ![c] = Null] /\ prv' = [prv EXCEPT ![c] = Null]
    ELSE /\ head' = IF c = head THEN nxt[head] ELSE head
         /\ nxt' = [nxt EXCEPT ![prv[c]] = nxt[c], ![c] = Null]
         /\ prv' = [prv EXCEPT ![nxt[c]] = prv[c], ![c] = Null]

-----------------------------------------------------------------------------
(* The Target runs, finishes and cancels work *)

\* call_with_ctx up to the user's function, or all of a call without context.
RunWork ==
    /\ phase[Target] = "running" /\ Free(Target)
    /\ Receive(Target)
    /\ LET c == First(ring[Target]).call
       IN  IF c \in Asyncs
           THEN work' = [work EXCEPT ![c] = "finished"] /\ UNCHANGED <<listVars, stack>>
           ELSE /\ AddActive(c)
                /\ Push(Target, Frame("function", c))
                /\ work' = [work EXCEPT ![c] = "active"]
    /\ UNCHANGED <<phase, life, state, mutex, answer>>

\* The user's function keeps the context for later.
ReturnUnfinished ==
    /\ At(Target, "function") /\ Pop(Target)
    /\ UNCHANGED <<ring, queued, phase, listVars, life, state, mutex, work, answer>>

\* The contexts the user may finish: the one of the function that runs, and
\* earlier ones from the event loop or from a cleanup handler.
MayFinish(c) ==
    /\ work[c] = "active"
    /\ \/ At(Target, "function") /\ Top(Target).ctx = c
       \/ Free(Target) /\ phase[Target] \in {"running", "handlers"}

\* Mutant: unlocks before it signals.
Settle_MutantUnlocked(c, how, below) ==
    /\ mutex[c] = Null /\ UNCHANGED mutex
    /\ state' = [state EXCEPT ![c] = how]
    /\ stack' = [stack EXCEPT ![Target] = <<Frame("signal", c)>> \o below]

\* Locks the mutex; signals and unlocks in the steps that follow, before the
\* frames below go on.
Settle(c, how, below) ==
    /\ mutex[c] = Null
    /\ mutex' = [mutex EXCEPT ![c] = Target]
    /\ state' = [state EXCEPT ![c] = how]
    /\ stack' = [stack EXCEPT ![Target] = <<Frame("signal", c)>> \o below]

\* Mutant: forgets the context of a caller that is gone.
Notify_MutantForgets(c, does) ==
    (Send(CallerOf[c], Task(does, c)) \/ Refuse) /\ UNCHANGED life

\* Proxies the end of the work back to the caller, or frees the context.
Notify(c, does) ==
    \/ Send(CallerOf[c], Task(does, c)) /\ UNCHANGED life
    \/ Refuse /\ FreeCtx(c)

\* emscripten_proxy_finish
Finish(c) ==
    /\ MayFinish(c)
    /\ RemoveActive(c)
    /\ work' = [work EXCEPT ![c] = "finished"]
    /\ IF c \in Syncs
       THEN Settle(c, "DONE", <<>>) /\ UNCHANGED <<ring, queued, life>>
       ELSE /\ Notify(c, "callback")
            /\ stack' = [stack EXCEPT ![Target] = <<>>]
            /\ UNCHANGED <<state, mutex>>
    /\ UNCHANGED <<phase, answer>>

\* cancel_ctx; without a cancel function the context is only freed.
CancelCtx ==
    /\ At(Target, "cancel")
    /\ LET c == Top(Target).ctx
           below == Tail(stack[Target])
       IN  /\ work' = [work EXCEPT ![c] = "canceled"]
           /\ IF c \in Syncs
              THEN Settle(c, "CANCELED", below) /\ UNCHANGED <<ring, queued, life>>
              ELSE /\ Notify(c, "cancel")
                   /\ stack' = [stack EXCEPT ![Target] = below]
                   /\ UNCHANGED <<state, mutex>>
    /\ UNCHANGED <<phase, listVars, answer>>

\* Mutant: wakes nobody.
Signal_MutantNone ==
    /\ At(Target, "signal")
    /\ Become(Target, <<Frame("unlock", Top(Target).ctx)>>)
    /\ UNCHANGED <<ring, queued, phase, listVars, life, state, mutex, work, answer>>

\* pthread_cond_signal, with the mutex held.
Signal ==
    /\ At(Target, "signal")
    /\ LET c == Top(Target).ctx
       IN  stack' = [t \in Threads |->
                       IF t = Target THEN <<Frame("unlock", c)>> \o Tail(stack[t])
                       ELSE IF At(t, "asleep") /\ Top(t).ctx = c
                         THEN <<Frame("lock", c)>> \o Tail(stack[t])
                         ELSE stack[t]]
    /\ UNCHANGED <<ring, queued, phase, listVars, life, state, mutex, work, answer>>

Unlock ==
    /\ At(Target, "unlock")
    /\ mutex' = [mutex EXCEPT ![Top(Target).ctx] = Null]
    /\ Pop(Target)
    /\ UNCHANGED <<ring, queued, phase, listVars, life, state, work, answer>>

\* call_callback_then_free_ctx and call_cancel_then_free_ctx.  The main thread
\* also gets here while it waits: pthread_cond_wait yields to its system queue.
RunCallback(s) ==
    /\ phase[s] = "running" /\ (Free(s) \/ (s = Main /\ At(s, "asleep")))
    /\ Receive(s)
    /\ LET task == First(ring[s])
       IN  /\ FreeCtx(task.call)
           /\ Tell(task.call, IF task.does = "callback" THEN "done" ELSE "failed")
    /\ UNCHANGED <<phase, stack, listVars, state, mutex, work>>

-----------------------------------------------------------------------------
(* _emscripten_thread_exit: shutdown of the mailbox, which cancels what is *)
(* queued, cleanup handlers, destructors of thread-specific data.          *)

\* From the event loop.
Exit(t) ==
    /\ phase[t] = "running" /\ Free(t)
    /\ phase' = [phase EXCEPT ![t] = "closing"]
    /\ UNCHANGED <<ring, queued, stack, listVars, life, state, mutex, work, answer>>

\* By the function that runs, which does not return.  Whether the mailbox has
\* a notification that cancels the rest of the queue is up to Mailbox.
ExitInFunction ==
    /\ phase[Target] = "running" /\ At(Target, "function")
    /\ Pop(Target)
    /\ \/ phase' = [phase EXCEPT ![Target] = "closing"] /\ UNCHANGED work
       \/ /\ phase' = [phase EXCEPT ![Target] = "handlers"]
          /\ work' = [c \in Calls |-> IF work[c] = "queued" THEN "stranded" ELSE work[c]]
    /\ UNCHANGED <<ring, queued, listVars, life, state, mutex, answer>>

\* em_task_queue_cancel.  A call without a context has no cancel function, and
\* that of a callback is free_ctx.
CancelQueued(t) ==
    /\ phase[t] = "closing" /\ Free(t)
    /\ Receive(t)
    /\ LET task == First(ring[t])
           c == task.call
       IN  IF task.does # "work" THEN FreeCtx(c) /\ UNCHANGED <<stack, work>>
           ELSE /\ UNCHANGED life
                /\ IF c \in Asyncs
                   THEN work' = [work EXCEPT ![c] = "canceled"] /\ UNCHANGED stack
                   ELSE Push(t, Frame("cancel", c)) /\ UNCHANGED work
    /\ UNCHANGED <<phase, listVars, state, mutex, answer>>

Closed(t) ==
    /\ phase[t] = "closing" /\ Free(t) /\ IsEmpty(ring[t])
    /\ phase' = [phase EXCEPT ![t] = "handlers"]
    /\ UNCHANGED <<ring, queued, stack, listVars, life, state, mutex, work, answer>>

\* cancel_active_ctxs, up to its loop, runs as the destructor of the key.
RunDestructors(t) ==
    /\ phase[t] = "handlers" /\ Free(t)
    /\ phase' = [phase EXCEPT ![t] = "destructors"]
    /\ IF t = Target /\ head # Null
       THEN Push(t, Sweep(head, head)) /\ head' = Null
       ELSE UNCHANGED <<stack, head>>
    /\ UNCHANGED <<ring, queued, nxt, prv, life, state, mutex, work, answer>>

\* Reads the next context before this one is cancelled.
SweepActive ==
    /\ At(Target, "sweep")
    /\ LET f == Top(Target)
           next == nxt[f.ctx]
       IN  Become(Target, <<Frame("cancel", f.ctx)>> \o
                            (IF next = f.first THEN <<>> ELSE <<Sweep(next, f.first)>>))
    /\ UNCHANGED <<ring, queued, phase, listVars, life, state, mutex, work, answer>>

-----------------------------------------------------------------------------
Next ==
    \/ \E s \in Callers : \/ \E c \in Calls : Call(s, c) \/ CallRefused(s, c)
                          \/ WaitForAnswer(s) \/ WakeSpuriously(s) \/ RunCallback(s)
    \/ RunWork \/ ReturnUnfinished \/ \E c \in Ctxs : Finish(c)
    \/ CancelCtx \/ Signal \/ Unlock
    \/ \E t \in Threads : Exit(t) \/ CancelQueued(t) \/ Closed(t) \/ RunDestructors(t)
    \/ ExitInFunction \/ SweepActive

Spec == Init /\ [][Next]_vars

\* A thread that can go on does; no one has to call or to exit, and no sleeper
\* to wake by itself.  The user finishes the contexts that were kept.
Fairness ==
    /\ \A s \in Callers : WF_vars(WaitForAnswer(s)) /\ WF_vars(RunCallback(s))
    /\ WF_vars(RunWork)
    /\ \A c \in Ctxs : WF_vars(Finish(c))
    /\ WF_vars(CancelCtx \/ Signal \/ Unlock \/ SweepActive)
    /\ \A t \in Threads : WF_vars(CancelQueued(t) \/ Closed(t) \/ RunDestructors(t))

FairSpec == Spec /\ Fairness

-----------------------------------------------------------------------------
(* Properties *)

TypeOK ==
    /\ \A t \in Threads :
        /\ {ring[t].head, ring[t].tail} \subseteq 0..(ring[t].capacity - 1)
        /\ queued[t] \in Seq([does : {"work", "callback", "cancel"}, call : Calls])
    /\ phase \in [Threads -> {"running", "closing", "handlers", "destructors"}]
    /\ \A t \in Threads : \A i \in DOMAIN stack[t] : stack[t][i].ctx \in Ctxs
    /\ head \in Ctxs \union {Null}
    /\ {nxt, prv} \subseteq [Ctxs -> Ctxs \union {Null}]
    /\ life \in [Ctxs -> {"none", "live", "freed"}]
    /\ state \in [Syncs -> {"PENDING", "DONE", "CANCELED"}]
    /\ mutex \in [Syncs -> {Target, Null}]
    /\ work \in [Calls -> {"none", "refused", "queued", "active", "finished",
                           "canceled", "stranded"}]
    /\ answer \in [Ctxs -> {"none", "done", "failed"}]

Active == {c \in Ctxs : work[c] = "active"}

\* Nothing that will be followed leads to a context that is freed: no frame,
\* no task in a ring, no pointer of the list, no locked mutex.  The frame of a
\* synchronous caller goes away as soon as it can take the mutex and sees that
\* the work is over, so the Target must not come back to it after its unlock.
NoUseAfterFree ==
    LET Frames == UNION {{stack[t][i].ctx : i \in DOMAIN stack[t]} : t \in Threads}
        Tasks == UNION {{queued[t][i].call : i \in DOMAIN queued[t]} : t \in Threads}
        Locked == {c \in Syncs : mutex[c] # Null}
    IN  \A c \in Frames \union (Tasks \intersect Ctxs) \union Active \union Locked :
          life[c] = "live"

\* The active contexts and no others are on the list, once each, whichever of
\* them is removed and in what order; and while the destructor cancels them
\* those that are left are the way from where it stands to where it began.
ActiveListExact ==
    LET sweeps == {i \in DOMAIN stack[Target] : stack[Target][i].at = "sweep"}
        n == Cardinality(Active)
        Cycle(from, to) ==
            LET step[i \in 0..n] == IF i = 0 THEN from ELSE nxt[step[i - 1]]
            IN  {step[i] : i \in 0..(n - 1)} = Active /\ step[n] = to
        canceling == {stack[Target][i].ctx : i \in {j \in DOMAIN stack[Target] :
                                                      stack[Target][j].at = "cancel"}}
    IN  IF phase[Target] # "destructors"
        THEN IF Active = {} THEN head = Null
             ELSE /\ Cycle(head, head)
                  /\ \A c \in Active : prv[nxt[c]] = c /\ nxt[prv[c]] = c
        ELSE /\ head = Null
             /\ canceling = {} /\ Active # {} =>
                  \E i \in sweeps :
                     Cycle(stack[Target][i].ctx, stack[Target][i].first)

\* A ring holds exactly the tasks that were sent and have not left, in their
\* order, however often it wrapped around and grew.
RingIsQueue == \A t \in Threads : Contents(ring[t]) = queued[t]

\* proxying.h: the caller hears of success when the work was finished, and of
\* failure when it was refused or cancelled.
OutcomeMatches ==
    \A c \in Ctxs :
        /\ answer[c] = "done" => work[c] = "finished"
        /\ answer[c] = "failed" => work[c] \in {"refused", "canceled"}

\* Mailbox shows when an exit leaves tasks in the queue that nobody cancels.
Stranded == \E c \in Calls : work[c] = "stranded"

\* A synchronous call returns, also when the Target exits before, while or
\* after its function runs.
SyncReturns ==
    \A c \in Syncs : work[c] = "queued" ~> answer[c] # "none" \/ Stranded

\* The context of a call with a callback is freed, whichever of the two
\* threads exits first.
CallbackCtxFreed ==
    \A c \in Callbacks : life[c] = "live" ~> life[c] = "freed" \/ Stranded
=============================================================================
