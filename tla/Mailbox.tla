------------------------------ MODULE Mailbox ------------------------------
(***************************************************************************)
(* The mailbox of one pthread and the task queues that feed it:            *)
(* system/lib/pthread/thread_mailbox.c and em_task_queue.c, with the event *)
(* loop half in src/lib/libpthread.js and src/runtime_pthread.js.          *)
(*                                                                         *)
(* Target is the thread that owns the mailbox.  A thread of Threads sends  *)
(* a task by putting it in a task queue and, unless a notification of that *)
(* queue is outstanding, putting a message that names the queue in the     *)
(* mailbox; unless a notification of the mailbox is outstanding it then    *)
(* wakes the event loop of the Target, through Atomics.notify or           *)
(* postMessage.  The Target may exit at any moment, its pthread struct may *)
(* be freed and used again for another thread (MaxLives), and task queues  *)
(* are created, destroyed and reclaimed meanwhile.                         *)
(*                                                                         *)
(* Critical sections under a task queue's mutex are one step each; every   *)
(* atomic read-modify-write, futex operation and message between workers   *)
(* is a step of its own.                                                   *)
(***************************************************************************)
EXTENDS Naturals, Sequences, FiniteSets

CONSTANTS
    Target,           \* the thread that owns the mailbox
    Senders,          \* the other threads that proxy work to it
    Queues,           \* the memory of the Target's task queues, one per proxying queue
    Tasks,            \* the units of work; each is proxied once
    MaxLives,         \* how many threads are created on the pthread struct
    HasWaitAsync,     \* whether Atomics.waitAsync exists (not polyfilled)
    EarlySends,       \* whether a task may be sent before CMD_RUN is posted
    NoJob,            \* the job of a thread that sends nothing
    MayExitInTask     \* whether a proxied task may call pthread_exit

Threads == Senders \union {Target}

Job == [queue : Queues, task : Tasks]

ASSUME MailboxAssumption ==
    /\ Target \notin Senders
    /\ IsFiniteSet(Senders)
    /\ NoJob \notin Job \union Tasks
    /\ MaxLives \in Nat \ {0}
    /\ {HasWaitAsync, EarlySends, MayExitInTask} \subseteq BOOLEAN

VARIABLES
    stage,          \* of the Target: where its pthread struct is in its life
    lives,          \* the number of threads created on that struct so far
    stack,          \* the Target's C frames, innermost first
    refcount,       \* mailbox_refcount
    mbox,           \* mailbox->tasks: the queues named by its messages
    mboxNote,       \* mailbox->notification
    mboxLife,       \* the allocation that mailbox points to
    sdCount,        \* count, the local of _emscripten_thread_mailbox_shutdown
    waitingAsync,   \* waiting_async
    armed,          \* Atomics.waitAsync waiters on the struct
    posts,          \* CMD_CHECK_MAILBOX messages not yet routed to a worker
    events,         \* checkMailbox callbacks in the worker's event queue
    tq,             \* tq[q]: the tasks of a task queue
    note,           \* note[q]: its notification
    processing,     \* processing[q]
    life,           \* life[q]: its allocation
    pc, job,        \* per thread: its place in do_proxy, and the work it sends
    status,         \* status[t]: what became of a task
    sentIn          \* sentIn[t]: the life of the struct it was sent in

targetVars == <<stage, lives, stack, sdCount>>
mboxVars == <<refcount, mbox, mboxNote, mboxLife>>
loopVars == <<waitingAsync, armed, posts, events>>
queueVars == <<tq, note, processing, life>>
sendVars == <<pc, job>>
taskVars == <<status, sentIn>>
vars == <<targetVars, mboxVars, loopVars, queueVars, sendVars, taskVars>>

Note == {"NONE", "RECEIVED", "PENDING"}
Life == {"none", "live", "zombie", "freed"}
\* sd_load, sd_cancel and sd_destroy are the places in mailbox shutdown.
Stage == {"created", "spawned", "running", "sd_wait", "sd_asleep", "sd_cancel",
          "sd_destroy", "closed", "freed"}
InSend == {"enqueue", "notify", "msend", "mnotify", "wake", "unref"}
Place == {"idle", "fwake"} \union InSend

Frame(at, of) == [at |-> at, of |-> of]
User == Frame("user", Target)
Frames == {User}
          \union [at : {"check", "mexec", "mdone"}, of : {Target}]
          \union [at : {"recv", "exec", "rdone", "cancel"}, of : Queues]
          \union [at : {"task"}, of : Tasks]

-----------------------------------------------------------------------------
Init ==
    /\ stage = "created" /\ lives = 1 /\ stack = <<>> /\ sdCount = 0
    /\ refcount = 1 /\ mbox = <<>> /\ mboxNote = "NONE" /\ mboxLife = "live"
    /\ waitingAsync = FALSE /\ armed = 0 /\ posts = 0 /\ events = 0
    /\ tq = [q \in Queues |-> <<>>]
    /\ note = [q \in Queues |-> "NONE"]
    /\ processing = [q \in Queues |-> FALSE]
    /\ life = [q \in Queues |-> "none"]
    /\ pc = [s \in Threads |-> "idle"]
    /\ job = [s \in Threads |-> NoJob]
    /\ status = [t \in Tasks |-> "new"]
    /\ sentIn = [t \in Tasks |-> 0]

\* The frame that runs, and the stack with that frame replaced.
At(at) == stack # <<>> /\ Head(stack).at = at
Top == Head(stack).of
Goto(fs) == stack' = fs \o Tail(stack)

\* The Target runs code of the program: its entry point or a task, outside
\* any call of the proxying functions.
InUserCode == (At("user") \/ At("task")) /\ pc[Target] = "idle"

\* Whether thread s runs code of the program.  After its mailbox is closed the
\* Target still runs its cleanup handlers.
CanCall(s) ==
    /\ pc[s] = "idle"
    /\ s = Target => InUserCode \/ stage = "closed"

\* The thread s holds a reference to the mailbox.
Holds(s) == pc[s] \in InSend
Holders == {s \in Threads : Holds(s)}

\* A sender is between do_proxy's look-up of queue q and its last use of it.
Sending(q) == \E s \in Threads : Holds(s) /\ job[s].queue = q

OnStack(at, of) == \E i \in DOMAIN stack : stack[i] = Frame(at, of)

Step(s, from, to) == pc[s] = from /\ pc' = [pc EXCEPT ![s] = to]

\* _emscripten_thread_mailbox_await
Await ==
    IF HasWaitAsync
    THEN armed' = armed + 1 /\ waitingAsync' = TRUE
    ELSE UNCHANGED <<armed, waitingAsync>>

-----------------------------------------------------------------------------
(***************************************************************************)
(* Faulty variants, to show that the properties notice the fault; they are *)
(* no part of the specification.                                           *)
(***************************************************************************)
\* DestroyQueue that frees at once.
DestroyQueue_MutantFrees(q) ==
    /\ life[q] = "live" /\ ~Sending(q)
    /\ OnStack("exec", q) => OnStack("rdone", q)
    /\ life' = [life EXCEPT ![q] = "freed"]
    /\ UNCHANGED <<tq, note, processing>>
    /\ UNCHANGED <<targetVars, mboxVars, loopVars, sendVars, taskVars>>

\* SendRef that takes a reference to a closed mailbox.
SendRef_MutantUnchecked(s, q, t) ==
    /\ CanCall(s)
    /\ status[t] = "new" /\ life[q] = "live"
    /\ stage \notin {"created", "freed"}
    /\ refcount' = refcount + 1
    /\ pc' = [pc EXCEPT ![s] = "enqueue"]
    /\ job' = [job EXCEPT ![s] = [queue |-> q, task |-> t]]
    /\ sentIn' = [sentIn EXCEPT ![t] = lives]
    /\ status' = [status EXCEPT ![t] = "sending"]
    /\ UNCHANGED <<targetVars, mbox, mboxNote, mboxLife, loopVars, queueVars>>

\* SendNotify that sends a message every time.
SendNotify_MutantAlways(s) ==
    /\ Step(s, "notify", "msend")
    /\ note' = [note EXCEPT ![job[s].queue] = "PENDING"]
    /\ UNCHANGED <<targetVars, mboxVars, loopVars, tq, processing, life, job, taskVars>>

\* SendUnref that drops the reference twice.
SendUnref_MutantTwice(s) ==
    /\ Step(s, "unref", "idle")
    /\ refcount' = refcount - 2
    /\ job' = [job EXCEPT ![s] = NoJob]
    /\ UNCHANGED <<targetVars, mbox, mboxNote, mboxLife, loopVars, queueVars, taskVars>>

\* SendUnref that wakes nobody.
SendUnref_MutantSilent(s) ==
    /\ Step(s, "unref", "idle")
    /\ refcount' = refcount - 1
    /\ job' = [job EXCEPT ![s] = NoJob]
    /\ UNCHANGED <<targetVars, mbox, mboxNote, mboxLife, loopVars, queueVars, taskVars>>

\* CheckMailbox that does not arm again.
CheckMailbox_MutantNoAwait ==
    /\ events > 0 /\ stack = <<>> /\ stage = "running"
    /\ stack' = <<Frame("check", Target)>>
    /\ events' = events - 1
    /\ UNCHANGED <<stage, lives, sdCount, mboxVars, waitingAsync, armed, posts, queueVars,
                   sendVars, taskVars>>

\* Receive that leaves the notification pending.
Receive_MutantKeeps ==
    /\ At("recv")
    /\ processing' = [processing EXCEPT ![Top] = TRUE]
    /\ Goto(<<Frame("exec", Top), Frame("rdone", Top)>>)
    /\ UNCHANGED <<stage, lives, sdCount, mboxVars, loopVars, tq, note, life, sendVars,
                   taskVars>>

\* Execute that takes the newest task.
Execute_MutantNewest ==
    /\ At("exec")
    /\ IF tq[Top] = <<>>
       THEN /\ processing' = [processing EXCEPT ![Top] = FALSE]
            /\ Goto(<<>>)
            /\ UNCHANGED <<tq, status>>
       ELSE LET n == Len(tq[Top])  t == tq[Top][n] IN
            /\ tq' = [tq EXCEPT ![Top] = SubSeq(@, 1, n - 1)]
            /\ status' = [status EXCEPT ![t] = "running"]
            /\ Goto(<<Frame("task", t), Frame("exec", Top)>>)
            /\ UNCHANGED processing
    /\ UNCHANGED <<stage, lives, sdCount, mboxVars, loopVars, note, life, sendVars, sentIn>>

\* ShutdownWait that does not wait.
ShutdownWait_MutantNoWait ==
    /\ stage = "sd_wait"
    /\ stage' = "sd_cancel"
    /\ UNCHANGED <<lives, stack, sdCount, mboxVars, loopVars, queueVars, sendVars, taskVars>>

\* ShutdownCancel that drops the messages.
ShutdownCancel_MutantDrops ==
    /\ stage = "sd_cancel" /\ stack = <<>>
    /\ stage' = "sd_destroy" /\ mboxNote' = "NONE" /\ mbox' = <<>>
    /\ UNCHANGED <<lives, stack, sdCount, refcount, mboxLife, loopVars, queueVars, sendVars,
                   taskVars>>

-----------------------------------------------------------------------------
(***************************************************************************)
(* em_task_queue_create (get_or_add_tasks_for_thread): cull the zombies    *)
(* whose notification is cleared, then allocate.  culled is any part of    *)
(* them: the list may be locked by another thread, and the flags are read  *)
(* one by one.  ok is the outcome of the allocations; the memory may be    *)
(* that of a queue freed before, even by this very call.                   *)
(***************************************************************************)
Cullable == {q \in Queues : life[q] = "zombie" /\ note[q] = "NONE"}

CreateQueue(q) ==
    /\ \E culled \in SUBSET Cullable, ok \in BOOLEAN :
         /\ life[q] \in {"none", "freed"} \/ q \in culled
         /\ life' = [x \in Queues |-> CASE x = q /\ ok  -> "live"
                                        [] x \in culled -> "freed"
                                        [] OTHER        -> life[x]]
         /\ IF ok
            THEN /\ tq' = [tq EXCEPT ![q] = <<>>]
                 /\ note' = [note EXCEPT ![q] = "NONE"]
                 /\ processing' = [processing EXCEPT ![q] = FALSE]
            ELSE UNCHANGED <<tq, note, processing>>
    /\ UNCHANGED <<targetVars, mboxVars, loopVars, sendVars, taskVars>>

(***************************************************************************)
(* em_proxying_queue_destroy: nobody may be racing with it, so no thread   *)
(* is sending to the queue or executing it with                            *)
(* emscripten_proxy_execute_queue.  A notification of it may be            *)
(* outstanding or in progress.                                             *)
(***************************************************************************)
DestroyQueue(q) ==
    /\ life[q] = "live"
    /\ ~Sending(q)
    /\ OnStack("exec", q) => OnStack("rdone", q)
    /\ life' = [life EXCEPT ![q] = IF note[q] = "NONE" THEN "freed" ELSE "zombie"]
    /\ UNCHANGED <<tq, note, processing>>
    /\ UNCHANGED <<targetVars, mboxVars, loopVars, sendVars, taskVars>>

-----------------------------------------------------------------------------
(***************************************************************************)
(* em_task_queue_send and emscripten_thread_mailbox_send                   *)
(***************************************************************************)
\* emscripten_thread_mailbox_ref: the compare-and-swap that takes a reference,
\* or the load of 0 that refuses.  The pthread struct must still be allocated.
SendRef(s, q, t) ==
    /\ CanCall(s)
    /\ status[t] = "new" /\ life[q] = "live"
    /\ stage # "freed"
    /\ stage = "created" => EarlySends
    /\ sentIn' = [sentIn EXCEPT ![t] = lives]
    /\ IF refcount = 0
       THEN /\ status' = [status EXCEPT ![t] = "refused"]
            /\ UNCHANGED <<refcount, pc, job>>
       ELSE /\ refcount' = refcount + 1
            /\ job' = [job EXCEPT ![s] = [queue |-> q, task |-> t]]
            /\ status' = [status EXCEPT ![t] = "sending"]
            /\ pc' = [pc EXCEPT ![s] = "enqueue"]
    /\ UNCHANGED <<targetVars, mbox, mboxNote, mboxLife, loopVars, queueVars>>

\* em_task_queue_enqueue under the queue's mutex; growing it may fail.
SendEnqueue(s) ==
    /\ pc[s] = "enqueue"
    /\ LET q == job[s].queue  t == job[s].task IN
       \/ /\ tq' = [tq EXCEPT ![q] = Append(@, t)]
          /\ status' = [status EXCEPT ![t] = "queued"]
          /\ pc' = [pc EXCEPT ![s] = "notify"]
       \/ /\ status' = [status EXCEPT ![t] = "refused"]
          /\ pc' = [pc EXCEPT ![s] = "unref"]
          /\ UNCHANGED tq
    /\ UNCHANGED <<targetVars, mboxVars, loopVars, note, processing, life, job, sentIn>>

\* Exchange of queue->notification: only its first user sends a message.
SendNotify(s) ==
    /\ pc[s] = "notify"
    /\ note' = [note EXCEPT ![job[s].queue] = "PENDING"]
    /\ pc' = [pc EXCEPT ![s] =
                IF note[job[s].queue] = "PENDING" THEN "unref" ELSE "msend"]
    /\ UNCHANGED <<targetVars, mboxVars, loopVars, tq, processing, life, job, taskVars>>

\* The message in the mailbox, under the mailbox's mutex.
MailboxEnqueue(s) ==
    /\ Step(s, "msend", "mnotify")
    /\ mbox' = Append(mbox, job[s].queue)
    /\ UNCHANGED <<targetVars, refcount, mboxNote, mboxLife, loopVars, queueVars,
                   job, taskVars>>

\* Exchange of mailbox->notification: only its first user wakes the Target.
MailboxNotify(s) ==
    /\ pc[s] = "mnotify"
    /\ mboxNote' = "PENDING"
    /\ pc' = [pc EXCEPT ![s] = IF mboxNote = "PENDING" THEN "unref" ELSE "wake"]
    /\ UNCHANGED <<targetVars, refcount, mbox, mboxLife, loopVars, queueVars, job,
                   taskVars>>

\* Atomics.notify fires every waitAsync waiter; otherwise a message is posted
\* (setTimeout when the Target sends to itself).
MailboxWake(s) ==
    /\ Step(s, "wake", "unref")
    /\ IF waitingAsync
       THEN events' = events + armed /\ armed' = 0 /\ posts' = posts
       ELSE /\ IF s = Target
               THEN events' = events + 1 /\ posts' = posts
               ELSE posts' = posts + 1 /\ events' = events
            /\ armed' = armed
    /\ UNCHANGED <<targetVars, mboxVars, waitingAsync, queueVars, job, taskVars>>

\* emscripten_thread_mailbox_unref.
SendUnref(s) ==
    /\ pc[s] = "unref"
    /\ refcount' = refcount - 1
    /\ pc' = [pc EXCEPT ![s] = IF refcount = 1 THEN "fwake" ELSE "idle"]
    /\ job' = [job EXCEPT ![s] = NoJob]
    /\ UNCHANGED <<targetVars, mbox, mboxNote, mboxLife, loopVars, queueVars, taskVars>>

\* ... and, at zero, its futex wake.  It names an address only: the struct may
\* be free by now, or hold another thread.
SendFutexWake(s) ==
    /\ Step(s, "fwake", "idle")
    /\ stage' = IF stage = "sd_asleep" THEN "sd_wait" ELSE stage
    /\ UNCHANGED <<lives, stack, sdCount, mboxVars, loopVars, queueVars, job, taskVars>>

Send(s) ==
    \/ \E q \in Queues, t \in Tasks : SendRef(s, q, t)
    \/ SendEnqueue(s) \/ SendNotify(s) \/ MailboxEnqueue(s) \/ MailboxNotify(s)
    \/ MailboxWake(s) \/ SendUnref(s) \/ SendFutexWake(s)

-----------------------------------------------------------------------------
(***************************************************************************)
(* The event loop of the Target's worker                                   *)
(***************************************************************************)
\* spawnThread on the main thread: the worker is entered in PThread.pthreads
\* and CMD_RUN is posted to it.
Spawn ==
    /\ stage = "created"
    /\ stage' = "spawned"
    /\ UNCHANGED <<lives, stack, sdCount, mboxVars, loopVars, queueVars, sendVars,
                   taskVars>>

\* The main thread forwards CMD_CHECK_MAILBOX to the worker that PThread.pthreads
\* has for the struct, or drops it when there is none.
RoutePost ==
    /\ posts > 0
    /\ posts' = posts - 1
    /\ events' = IF stage \in {"created", "freed"} THEN events ELSE events + 1
    /\ UNCHANGED <<targetVars, mboxVars, waitingAsync, armed, queueVars, sendVars,
                   taskVars>>

\* CMD_RUN: arm the waiter and call the entry point.
Run ==
    /\ stage = "spawned"
    /\ stage' = "running"
    /\ stack' = <<User>>
    /\ Await
    /\ UNCHANGED <<lives, sdCount, mboxVars, posts, events, queueVars, sendVars, taskVars>>

\* checkMailbox: arm again before looking into the mailbox.  A callback that
\* finds no thread on the worker returns at once.
CheckMailbox ==
    /\ events > 0 /\ stack = <<>>
    /\ \/ /\ stage = "running"
          /\ stack' = <<Frame("check", Target)>>
          /\ Await
       \/ /\ stage \in {"closed", "freed"}
          /\ UNCHANGED <<stack, armed, waitingAsync>>
    /\ events' = events - 1
    /\ UNCHANGED <<stage, lives, sdCount, mboxVars, posts, queueVars, sendVars, taskVars>>

\* _emscripten_check_mailbox: mark the notification received ...
CheckReceive ==
    /\ At("check")
    /\ mboxNote' = "RECEIVED"
    /\ Goto(<<Frame("mexec", Target)>>)
    /\ UNCHANGED <<stage, lives, sdCount, refcount, mbox, mboxLife, loopVars, queueVars,
                   sendVars, taskVars>>

\* ... execute the mailbox, one message at a time ...
CheckExecute ==
    /\ At("mexec")
    /\ IF mbox = <<>>
       THEN Goto(<<Frame("mdone", Target)>>) /\ mbox' = mbox
       ELSE /\ Goto(<<Frame("recv", Head(mbox)), Frame("mexec", Target)>>)
            /\ mbox' = Tail(mbox)
    /\ UNCHANGED <<stage, lives, sdCount, refcount, mboxNote, mboxLife, loopVars,
                   queueVars, sendVars, taskVars>>

\* ... and clear the flag unless a newer notification was sent.
CheckDone ==
    /\ At("mdone")
    /\ mboxNote' = IF mboxNote = "RECEIVED" THEN "NONE" ELSE mboxNote
    /\ Goto(<<>>)
    /\ UNCHANGED <<stage, lives, sdCount, refcount, mbox, mboxLife, loopVars, queueVars,
                   sendVars, taskVars>>

\* receive_notification: mark, execute, clear unless notified again.
Receive ==
    /\ At("recv")
    /\ note' = [note EXCEPT ![Top] = "RECEIVED"]
    /\ processing' = [processing EXCEPT ![Top] = TRUE]
    /\ Goto(<<Frame("exec", Top), Frame("rdone", Top)>>)
    /\ UNCHANGED <<stage, lives, sdCount, mboxVars, loopVars, tq, life, sendVars, taskVars>>

ReceiveDone ==
    /\ At("rdone")
    /\ note' = [note EXCEPT ![Top] = IF @ = "RECEIVED" THEN "NONE" ELSE @]
    /\ Goto(<<>>)
    /\ UNCHANGED <<stage, lives, sdCount, mboxVars, loopVars, tq, processing, life,
                   sendVars, taskVars>>

\* em_task_queue_execute: take the next task and run it outside the lock.
Execute ==
    /\ At("exec")
    /\ IF tq[Top] = <<>>
       THEN /\ processing' = [processing EXCEPT ![Top] = FALSE]
            /\ Goto(<<>>)
            /\ UNCHANGED <<tq, status>>
       ELSE /\ tq' = [tq EXCEPT ![Top] = Tail(@)]
            /\ status' = [status EXCEPT ![Head(tq[Top])] = "running"]
            /\ Goto(<<Frame("task", Head(tq[Top])), Frame("exec", Top)>>)
            /\ UNCHANGED processing
    /\ UNCHANGED <<stage, lives, sdCount, mboxVars, loopVars, note, life, sendVars, sentIn>>

\* emscripten_proxy_execute_queue from the program's code, unless the queue is
\* being processed further down the stack.
ExecuteQueue(q) ==
    /\ InUserCode
    /\ life[q] = "live" /\ ~processing[q]
    /\ processing' = [processing EXCEPT ![q] = TRUE]
    /\ stack' = <<Frame("exec", q)>> \o stack
    /\ UNCHANGED <<stage, lives, sdCount, mboxVars, loopVars, tq, note, life, sendVars,
                   taskVars>>

\* The entry point or a task returns; the worker stays alive for its events.
Return ==
    /\ InUserCode
    /\ status' = IF At("task") THEN [status EXCEPT ![Top] = "done"] ELSE status
    /\ Goto(<<>>)
    /\ UNCHANGED <<stage, lives, sdCount, mboxVars, loopVars, queueVars, sendVars, sentIn>>

-----------------------------------------------------------------------------
(***************************************************************************)
(* _emscripten_thread_mailbox_shutdown, from pthread_exit, cancellation or *)
(* the end of a callback                                                   *)
(***************************************************************************)
\* The frames of the exiting thread are never resumed.  A task that exits is
\* itself gone; what its queue still holds stays there.
ExitBegin ==
    /\ stage = "running"
    /\ pc[Target] = "idle"
    /\ \/ stack \in {<<>>, <<User>>}
       \/ MayExitInTask /\ InUserCode
    /\ stage' = "sd_wait"
    /\ stack' = <<>>
    /\ status' = IF At("task") THEN [status EXCEPT ![Top] = "exited"] ELSE status
    /\ refcount' = refcount - 1
    /\ sdCount' = refcount - 1
    /\ UNCHANGED <<lives, mbox, mboxNote, mboxLife, loopVars, queueVars, sendVars, sentIn>>

\* The wait for the count to reach zero: sleep only while it is the value seen,
\* then load it again.
ShutdownWait ==
    /\ stage = "sd_wait"
    /\ IF sdCount = 0
       THEN stage' = "sd_cancel" /\ sdCount' = sdCount
       ELSE IF refcount = sdCount
            THEN stage' = "sd_asleep" /\ sdCount' = sdCount
            ELSE stage' = stage /\ sdCount' = refcount
    /\ UNCHANGED <<lives, stack, mboxVars, loopVars, queueVars, sendVars, taskVars>>

\* em_task_queue_cancel(mailbox): cancel every message; its handler cancels
\* the tasks of the queue it names, and clears the queue's flag last.
ShutdownCancel ==
    /\ stage = "sd_cancel" /\ stack = <<>>
    /\ IF mbox = <<>>
       THEN stage' = "sd_destroy" /\ mboxNote' = "NONE" /\ UNCHANGED <<stack, mbox>>
       ELSE /\ stack' = <<Frame("cancel", Head(mbox))>>
            /\ mbox' = Tail(mbox)
            /\ UNCHANGED <<stage, mboxNote>>
    /\ UNCHANGED <<lives, sdCount, refcount, mboxLife, loopVars, queueVars, sendVars,
                   taskVars>>

CancelQueue ==
    /\ At("cancel")
    /\ IF tq[Top] = <<>>
       THEN /\ note' = [note EXCEPT ![Top] = "NONE"]
            /\ processing' = [processing EXCEPT ![Top] = FALSE]
            /\ Goto(<<>>)
            /\ UNCHANGED <<tq, status>>
       ELSE /\ tq' = [tq EXCEPT ![Top] = Tail(@)]
            /\ status' = [status EXCEPT ![Head(tq[Top])] = "canceled"]
            /\ UNCHANGED <<stack, note, processing>>
    /\ UNCHANGED <<stage, lives, sdCount, mboxVars, loopVars, life, sendVars, sentIn>>

\* em_task_queue_destroy(mailbox).
ShutdownDestroy ==
    /\ stage = "sd_destroy"
    /\ stage' = "closed"
    /\ mboxLife' = IF mboxNote = "NONE" THEN "freed" ELSE "zombie"
    /\ UNCHANGED <<lives, stack, sdCount, refcount, mbox, mboxNote, loopVars, queueVars,
                   sendVars, taskVars>>

\* cleanupThread (external to this module: detach or join): the waiters on the
\* struct are fired before the struct is freed.
FreeData ==
    /\ stage = "closed" /\ pc[Target] = "idle"
    /\ stage' = "freed"
    /\ events' = events + armed /\ armed' = 0
    /\ UNCHANGED <<lives, stack, sdCount, mboxVars, waitingAsync, posts, queueVars,
                   sendVars, taskVars>>

\* A later pthread_create gets the same struct, zeroed, on any worker: the
\* callbacks left over from the former thread run there or elsewhere.
Recreate ==
    /\ stage = "freed" /\ lives < MaxLives
    /\ stage' = "created" /\ lives' = lives + 1
    /\ refcount' = 1 /\ mbox' = <<>> /\ mboxNote' = "NONE" /\ mboxLife' = "live"
    /\ waitingAsync' = FALSE
    /\ events' \in {0, events}
    /\ UNCHANGED <<stack, sdCount, armed, posts, queueVars, sendVars, taskVars>>

TargetStep ==
    \/ Run \/ CheckMailbox \/ CheckReceive \/ CheckExecute \/ CheckDone
    \/ Receive \/ ReceiveDone \/ Execute \/ Return
    \/ ShutdownWait \/ ShutdownCancel \/ CancelQueue \/ ShutdownDestroy

Next ==
    \/ \E s \in Threads : Send(s)
    \/ \E q \in Queues : CreateQueue(q) \/ DestroyQueue(q) \/ ExecuteQueue(q)
    \/ Spawn \/ RoutePost \/ TargetStep \/ ExitBegin \/ FreeData \/ Recreate

Spec == Init /\ [][Next]_vars

-----------------------------------------------------------------------------
(***************************************************************************)
(* Fairness: threads run, the event loop of every worker serves what it is *)
(* sent, and the program's entry point and tasks return, whatever queues   *)
(* they execute meanwhile (SF).  Nothing obliges the program to send,      *)
(* create, destroy, exit or create threads.                                *)
(***************************************************************************)
Progress(s) ==
    SendEnqueue(s) \/ SendNotify(s) \/ MailboxEnqueue(s) \/ MailboxNotify(s)
    \/ MailboxWake(s) \/ SendUnref(s) \/ SendFutexWake(s)

FairSpec ==
    /\ Spec
    /\ \A s \in Threads : WF_vars(Progress(s))
    /\ WF_vars(Spawn) /\ WF_vars(RoutePost) /\ WF_vars(TargetStep)
    /\ SF_vars(Return)

-----------------------------------------------------------------------------
(***************************************************************************)
(* Properties                                                              *)
(***************************************************************************)
\* Every variable stays in its range; the counters are natural numbers, so
\* mailbox_refcount never goes below zero (the assertion of
\* emscripten_thread_mailbox_unref).
TargetTypes ==
    stage \in Stage /\ lives \in 1..MaxLives /\ stack \in Seq(Frames) /\ sdCount \in Nat
MailboxTypes ==
    refcount \in Nat /\ mbox \in Seq(Queues) /\ mboxNote \in Note /\ mboxLife \in Life
LoopTypes ==
    waitingAsync \in BOOLEAN /\ armed \in Nat /\ posts \in Nat /\ events \in Nat
QueueTypes ==
    /\ tq \in [Queues -> Seq(Tasks)] /\ note \in [Queues -> Note]
    /\ processing \in [Queues -> BOOLEAN] /\ life \in [Queues -> Life]
SendTypes ==
    /\ pc \in [Threads -> Place]
    /\ job \in [Threads -> Job \union {NoJob}]
    /\ \A s \in Threads : pc[s] \in InSend => job[s] \in Job
TaskTypes ==
    /\ status \in [Tasks -> {"new", "sending", "refused", "queued", "running", "done",
                             "exited", "canceled"}]
    /\ sentIn \in [Tasks -> 0..MaxLives]

TypeOK == TargetTypes /\ MailboxTypes /\ LoopTypes /\ QueueTypes /\ SendTypes /\ TaskTypes

\* A thread that holds a reference finds the mailbox allocated and open for as
\* long as it holds it: the Target neither cancels nor frees its mailbox, nor
\* is its struct freed, under a sender (thread_mailbox.c: the refcount gate).
HoldersKeepMailboxOpen ==
    Holders # {} => /\ mboxLife = "live"
                    /\ stage \in {"created", "spawned", "running", "sd_wait", "sd_asleep"}

\* The inductive strengthening of HoldersKeepMailboxOpen: the count is the number
\* of holders plus the Target's own reference, and once the Target has seen it at
\* zero it stays there.
OwnerHolds == stage \in {"created", "spawned", "running"}

RefcountInv ==
    /\ refcount = Cardinality(Holders) + (IF OwnerHolds THEN 1 ELSE 0)
    /\ stage \in {"sd_wait", "sd_asleep"} /\ sdCount = 0 => refcount = 0
    /\ stage \in {"sd_cancel", "sd_destroy", "closed", "freed"} => refcount = 0
    /\ stage \notin {"closed", "freed"} => mboxLife = "live"

\* A task queue is freed only when nothing can reach it any more: no message
\* names it, no frame of the Target uses it, no thread is sending to it (the
\* zombie list of em_task_queue.c).
Referenced(q) ==
    \/ \E i \in DOMAIN mbox : mbox[i] = q
    \/ \E at \in {"recv", "exec", "rdone", "cancel"} : OnStack(at, q)
    \/ Sending(q)

NoUseAfterFree == \A q \in Queues : Referenced(q) => life[q] \in {"live", "zombie"}

\* The mailbox holds at most one message per task queue, however many tasks are
\* sent: its growth, whose failure the code cannot recover from, is bounded.
OneMessagePerQueue ==
    \A i, j \in DOMAIN mbox : mbox[i] = mbox[j] => i = j

\* No task has exited its thread from inside.
NoExitInTask == \A t \in Tasks : status[t] # "exited"

\* Work in a task queue is on its way to be run or canceled, unless a task exited
\* the thread: its sender still has to notify, a message names the queue, or the
\* Target is working on it.  So the zombie list frees no queue with work in it.
NoStrandedTask ==
    \A q \in Queues : tq[q] # <<>> /\ NoExitInTask =>
        \/ \E s \in Threads : pc[s] \in {"notify", "msend"} /\ job[s].queue = q
        \/ \E i \in DOMAIN mbox : mbox[i] = q
        \/ \E at \in {"recv", "exec", "cancel"} : OnStack(at, q)

\* A message in the mailbox of a thread is on its way to be received: its sender
\* still has to wake the thread, a wake-up is in flight, or the thread is in
\* checkMailbox and has not yet found the mailbox empty.
NoLostWakeup ==
    mbox # <<>> /\ stage \in {"spawned", "running"} =>
        \/ \E s \in Threads : pc[s] \in {"mnotify", "wake"}
        \/ posts + events > 0
        \/ \E at \in {"check", "mexec"} : OnStack(at, Target)

\* When a thread has shut its mailbox down, every task it accepted has run or
\* was canceled, so whoever waits for one is told.
ShutdownResolvesAll ==
    stage \in {"closed", "freed"} =>
        \A t \in Tasks : status[t] \notin {"sending", "queued", "running"}

\* A task runs on the thread it was sent to, never on a later thread that was
\* given the same pthread struct, unless a task exited the first of them.
NoStaleRun ==
    \A t \in Tasks : OnStack("task", t) /\ NoExitInTask => sentIn[t] = lives

\* An accepted task eventually runs or is canceled.
AcceptedIsResolved ==
    \A t \in Tasks : status[t] = "queued" ~> status[t] \in {"done", "exited", "canceled"}

\* A thread that exits gets through its mailbox's shutdown: the wait for the
\* reference count always ends.
ShutdownCompletes == stage = "sd_wait" ~> stage = "closed"

-----------------------------------------------------------------------------
\* The task that a stack of frames runs from queue q: the frame above the one of
\* em_task_queue_execute.
Above(fs, q, t) ==
    \E i \in 1..(Len(fs) - 1) : fs[i] = Frame("task", t) /\ fs[i + 1] = Frame("exec", q)

TaskOf(fs, q) ==
    IF \E t \in Tasks : Above(fs, q, t) THEN CHOOSE t \in Tasks : Above(fs, q, t) ELSE NoJob

\* The mailbox implements what proxying promises: it is open until its shutdown has
\* seen the count at zero, and a task is accepted when it enters its queue.
Open == stage \in {"created", "spawned", "running", "sd_wait", "sd_asleep"}
Running == [q \in Queues |-> TaskOf(stack, q)]
Outcome == [t \in Tasks |-> IF status[t] = "sending" THEN "new" ELSE status[t]]

Delivery == INSTANCE TaskDelivery WITH
    Idle <- NoJob, open <- Open, waiting <- tq, running <- Running, outcome <- Outcome

\* Every step of the protocol is a step of TaskDelivery or none, and under the
\* event loop's fairness accepted work always begins or is canceled.
ImplementsDelivery == Delivery!Spec
=============================================================================
