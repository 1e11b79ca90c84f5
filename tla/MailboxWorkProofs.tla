-------------------------- MODULE MailboxWorkProofs --------------------------
(***************************************************************************)
(* The work that goes through Mailbox: no accepted task is stranded, none  *)
(* runs on a later thread of the same pthread struct, a thread that has    *)
(* shut down has resolved all of them, and a message in the mailbox is     *)
(* on its way to be received.  For any number of senders, queues and tasks.*)
(***************************************************************************)
EXTENDS MailboxProofs

\* Where the Target is in its life bounds what it can be doing: a mailbox that is
\* shut down is empty, and only a running thread, or one that cancels its mailbox,
\* has frames of the proxying functions.
StageInv ==
    /\ stage \in {"sd_destroy", "closed", "freed"} => mbox = <<>>
    /\ stage \notin {"running", "sd_cancel"} => stack = <<>>
    /\ stage # "sd_cancel" => \A q \in Queues : ~OnStack("cancel", q)
    /\ stage = "sd_cancel" => \A i \in DOMAIN stack : stack[i].at = "cancel"

\* The tasks of a queue, and whether no task is in it twice.
InQueue(t, q) == \E i \in DOMAIN tq[q] : tq[q][i] = t
Distinct(s) == \A i, j \in DOMAIN s : s[i] = s[j] => i = j

\* Thread s has a reference and is about to put task t in its queue.
Enqueues(s, t) == pc[s] = "enqueue" /\ job[s].task = t

\* A task is in the hands of one sender, in one place of one queue, or in one
\* frame, and its status says which.
TaskOnce == \A i, j \in DOMAIN stack : stack[i].at = "task" /\ stack[i] = stack[j] => i = j

TaskInv ==
    /\ \A s \in Threads, t \in Tasks :
          Enqueues(s, t) => /\ status[t] = "sending"
                            /\ \A r \in Threads : Enqueues(r, t) => r = s
    /\ \A q \in Queues : Distinct(tq[q])
    /\ \A q \in Queues, t \in Tasks :
          InQueue(t, q) => /\ status[t] = "queued"
                           /\ \A r \in Queues : InQueue(t, r) => r = q
    /\ \A t \in Tasks : OnStack("task", t) => status[t] = "running"
    /\ TaskOnce

\* The other way round, unless a task has exited the thread: a task of one of these
\* statuses is where the status says.
HeldInv ==
    NoExitInTask => \A t \in Tasks :
        /\ status[t] = "sending" => \E s \in Threads : Enqueues(s, t)
        /\ status[t] = "queued" => \E q \in Queues : InQueue(t, q)
        /\ status[t] = "running" => OnStack("task", t)

\* A notification that is pending has its token somewhere, unless a task has
\* exited the thread in the middle of the handler.
PendingInv ==
    NoExitInTask => \A q \in Queues :
        note[q] = "PENDING" => Named(q) \/ Taken(q) \/ \E s \in Threads : Sends(s, q)

\* The work on its way was sent to the thread that has the struct now.
LivesInv ==
    NoExitInTask =>
        /\ \A s \in Threads, t \in Tasks : Enqueues(s, t) => sentIn[t] = lives
        /\ \A q \in Queues, t \in Tasks : InQueue(t, q) => sentIn[t] = lives
        /\ \A t \in Tasks : OnStack("task", t) => sentIn[t] = lives

\* A mailbox that is notified has a wake-up on its way, and the flag by which
\* senders choose Atomics.notify is not set without a waiter or a callback.  Senders
\* find the thread's worker listening: none sends before CMD_RUN is posted.
WakeInv ==
    /\ ~HasWaitAsync => ~waitingAsync
    /\ stage = "created" => mbox = <<>> /\ mboxNote = "NONE" /\ Holders = {} /\ ~waitingAsync
    /\ stage \in {"spawned", "running"} /\ waitingAsync => armed + events > 0
    /\ stage \in {"spawned", "running"} /\ mboxNote = "PENDING" =>
          \/ \E s \in Threads : pc[s] = "wake"
          \/ posts + events > 0
          \/ OnStack("check", Target)

-----------------------------------------------------------------------------
(***************************************************************************)
(* The life of the Target                                                  *)
(***************************************************************************)
\* A thread with a frame is running or cancels its mailbox.
LEMMA FrameStage ==
  ASSUME StageInv, stack # <<>>
  PROVE  stage \in {"running", "sd_cancel"}
  BY DEF StageInv

\* While it cancels its mailbox it does nothing else.
LEMMA CancelStage ==
  ASSUME TypeOK, StageInv, stage = "sd_cancel"
  PROVE  /\ \A at, of : OnStack(at, of) => at = "cancel"
         /\ stack # <<>> => At("cancel")
<1>1. \A i \in DOMAIN stack : stack[i].at = "cancel"
  BY DEF StageInv
<1>2. \A at, of : OnStack(at, of) => at = "cancel"
  BY <1>1, FrameEqual DEF OnStack
<1>3. ASSUME stack # <<>> PROVE At("cancel")
  <2>1. stack \in Seq(Frames)
    BY DEF TypeOK, TargetTypes
  <2>2. Head(stack) = stack[1] /\ 1 \in DOMAIN stack
    BY <1>3, <2>1
  <2> QED
    BY <1>1, <1>3, <2>2 DEF At
<1> QED
  BY <1>2, <1>3

\* The life of the Target moves only with an empty stack, and closes the mailbox empty.
LEMMA StageStep ==
  ASSUME TypeOK, RefcountInv, QueueInv, StageInv, Next
  PROVE  StageInv'
<1>0. /\ stack \in Seq(Frames) /\ mbox \in Seq(Queues) /\ stage \in Stage
      /\ StackShape /\ OneMessagePerQueue
  BY DEF TypeOK, TargetTypes, MailboxTypes, QueueInv, TokenInv
\* Steps that move neither the life nor the frames, and send no message.
<1>1. ASSUME UNCHANGED <<stage, stack>>, mbox' = mbox \/ mbox' = <<>>
      PROVE  StageInv'
  BY <1>0, <1>1, SameFrames DEF StageInv
<1>2. ASSUME NEW q \in Queues, CreateQueue(q) \/ DestroyQueue(q) PROVE StageInv'
  BY <1>1, <1>2 DEF CreateQueue, DestroyQueue, targetVars, mboxVars
\* Steps of a running thread.
<1>3. ASSUME UNCHANGED stage, stage = "running" \/ (stack # <<>> /\ ~At("cancel")),
             \A q \in Queues : OnStack("cancel", q)' => OnStack("cancel", q)
      PROVE  StageInv'
  <2>1. stage = "running"
    BY <1>3, FrameStage, CancelStage
  <2> QED
    BY <1>3, <2>1 DEF StageInv
<1>4. ASSUME NEW q \in Queues, ExecuteQueue(q) PROVE StageInv'
  <2>1. UNCHANGED stage /\ stack # <<>> /\ ~At("cancel")
    BY <1>4 DEF ExecuteQueue, InUserCode, At
  <2>2. \A at, of : OnStack(at, of)' <=> OnStack(at, of) \/ (at = "exec" /\ of = q)
    BY <1>0, <1>4, ExecuteQueueFrames
  <2> QED
    BY <1>3, <2>1, <2>2
<1>5. ASSUME NEW s \in Threads,
             \/ \E q \in Queues, t \in Tasks : SendRef(s, q, t)
             \/ SendEnqueue(s) \/ SendNotify(s) \/ MailboxNotify(s) \/ MailboxWake(s)
             \/ SendUnref(s)
      PROVE  StageInv'
  BY <1>1, <1>5 DEF SendRef, SendEnqueue, SendNotify, MailboxNotify, MailboxWake, SendUnref,
     targetVars, mboxVars
\* Only a sender that holds the mailbox puts a message there.
<1>6. ASSUME NEW s \in Threads, MailboxEnqueue(s)
      PROVE  StageInv'
  <2>1. UNCHANGED <<stage, stack>> /\ s \in Holders
    BY <1>6 DEF MailboxEnqueue, Step, Holders, Holds, InSend, targetVars
  <2>2. refcount > 0
    BY <2>1, CountPositive
  <2>3. stage \notin {"sd_destroy", "closed", "freed"}
    BY <2>2 DEF RefcountInv
  <2> QED
    BY <1>0, <2>1, <2>3, SameFrames DEF StageInv
<1>7. ASSUME NEW s \in Threads, SendFutexWake(s)
      PROVE  StageInv'
  <2>1. UNCHANGED <<stack, mbox>> /\ (stage' = stage \/ (stage = "sd_asleep" /\ stage' = "sd_wait"))
    BY <1>7 DEF SendFutexWake, mboxVars
  <2> QED
    BY <1>0, <2>1, SameFrames DEF StageInv
<1>8. ASSUME Spawn \/ ShutdownWait \/ ShutdownDestroy \/ FreeData \/ Recreate \/ RoutePost
      PROVE  StageInv'
  <2>1. /\ UNCHANGED stack /\ (mbox' = mbox \/ mbox' = <<>>)
        /\ \/ stage' = stage
           \/ stage = "created" /\ stage' = "spawned"
           \/ stage = "sd_wait" /\ stage' \in {"sd_asleep", "sd_cancel"}
           \/ stage = "sd_destroy" /\ stage' = "closed"
           \/ stage = "closed" /\ stage' = "freed"
           \/ stage = "freed" /\ stage' = "created"
    BY <1>8 DEF Spawn, ShutdownWait, ShutdownDestroy, FreeData, Recreate, RoutePost, targetVars,
       mboxVars
  <2>2. CASE stage' = stage
    BY <1>1, <2>1, <2>2
  <2>3. CASE stage' # stage
    <3>1. stack = <<>> /\ stack' = <<>>
      BY <2>1, <2>3 DEF StageInv
    <3>2. \A at, of : ~OnStack(at, of)'
      BY <3>1, FewFramesNext
    <3> QED
      BY <2>1, <2>3, <3>1, <3>2 DEF StageInv
  <2> QED
    BY <2>2, <2>3
<1>9. ASSUME Run \/ CheckMailbox
      PROVE  StageInv'
  <2>1. /\ UNCHANGED mbox
        /\ \/ stage' = "running"
           \/ UNCHANGED <<stage, stack>>
    BY <1>9 DEF Run, CheckMailbox, mboxVars
  <2>2. \A at, of : OnStack(at, of)' => at # "cancel"
    BY <1>0, <1>9, RunFrames, CheckMailboxFrames
  <2> QED
    BY <1>1, <2>1, <2>2 DEF StageInv
<1>10. ASSUME CheckReceive \/ CheckExecute \/ CheckDone \/ Receive \/ ReceiveDone \/ Execute
              \/ Return
       PROVE  StageInv'
  <2>1. UNCHANGED stage /\ stack # <<>> /\ ~At("cancel")
    BY <1>10 DEF CheckReceive, CheckExecute, CheckDone, Receive, ReceiveDone, Execute, Return,
       InUserCode, At
  <2>2. \A q : OnStack("cancel", q)' => OnStack("cancel", q)
    <3>1. CASE CheckReceive \/ CheckExecute \/ CheckDone
      BY <1>0, <3>1, CheckReceiveFrames, CheckExecuteFrames, CheckDoneFrames
    <3>2. CASE Receive \/ ReceiveDone
      BY <1>0, <3>2, ReceiveFrames, ReceiveDoneFrames
    <3>3. CASE Execute
      BY <1>0, <3>3, ExecuteFrames
    <3>4. CASE Return
      BY <1>0, <3>4, ReturnsFrames
    <3> QED
      BY <1>10, <3>1, <3>2, <3>3, <3>4
  <2> QED
    BY <1>3, <2>1, <2>2
<1>11. ASSUME ExitBegin
       PROVE  StageInv'
  <2>1. stage' = "sd_wait" /\ stack' = <<>>
    BY <1>11 DEF ExitBegin
  <2> QED
    BY <1>11, <2>1, ExitFrames DEF StageInv
<1>12. ASSUME ShutdownCancel
       PROVE  StageInv'
  <2>1. CASE mbox = <<>>
    <3>1. stage' = "sd_destroy" /\ mbox' = <<>> /\ stack' = <<>>
      BY <1>12, <2>1 DEF ShutdownCancel
    <3> QED
      BY <3>1, FewFramesNext DEF StageInv
  <2>2. CASE mbox # <<>>
    <3>1. stage' = "sd_cancel" /\ stack' = <<Frame("cancel", Head(mbox))>>
      BY <1>12, <2>2 DEF ShutdownCancel
    <3> QED
      BY <3>1, FrameEqual DEF StageInv
  <2> QED
    BY <2>1, <2>2
<1>13. ASSUME CancelQueue
       PROVE  StageInv'
  <2>1. UNCHANGED <<stage, mbox>> /\ stack # <<>> /\ At("cancel")
    BY <1>13 DEF CancelQueue, mboxVars, At
  <2>2. Top \in Queues /\ OnStack("cancel", Top)
    BY <1>0, <2>1, TopType, TopOnStack DEF At
  <2>3. stage = "sd_cancel"
    BY <2>2 DEF StageInv
  <2>4. stack' = <<>> \/ stack' = stack
    BY <1>0, <1>13, CancelQueueFrames
  <2> QED
    BY <2>1, <2>3, <2>4 DEF StageInv
<1> QED
  BY <1>2, <1>4, <1>5, <1>6, <1>7, <1>8, <1>9, <1>10, <1>11, <1>12, <1>13
  DEF Next, Send, TargetStep

-----------------------------------------------------------------------------
(***************************************************************************)
(* The queues                                                              *)
(***************************************************************************)
\* A sequence without its first element has the other elements.
LEMMA TailDistinct ==
  ASSUME NEW S, NEW s \in Seq(S), s # <<>>, Distinct(s)
  PROVE  /\ Distinct(Tail(s))
         /\ \A x : (\E i \in DOMAIN Tail(s) : Tail(s)[i] = x)
                      <=> (\E i \in DOMAIN s : s[i] = x) /\ x # Head(s)
         /\ Head(s) \in S /\ \E i \in DOMAIN s : s[i] = Head(s)
<1> DEFINE u == Tail(s)
<1>1. /\ DOMAIN s = 1..Len(s) /\ Len(s) \in Nat /\ Len(s) > 0
      /\ DOMAIN u = 1..(Len(s) - 1)
      /\ \A i \in 1..(Len(s) - 1) : u[i] = s[i + 1]
      /\ Head(s) = s[1] /\ Head(s) \in S
  OBVIOUS
<1> HIDE DEF u
<1>2. 1 \in DOMAIN s
  BY <1>1
<1>3. Distinct(u)
  <2> SUFFICES ASSUME NEW i \in DOMAIN u, NEW j \in DOMAIN u, u[i] = u[j]
               PROVE  i = j
    BY DEF Distinct
  <2>1. i + 1 \in DOMAIN s /\ j + 1 \in DOMAIN s /\ s[i + 1] = s[j + 1]
    BY <1>1
  <2>2. i + 1 = j + 1
    BY <2>1 DEF Distinct
  <2> QED
    BY <1>1, <2>2
<1>4. ASSUME NEW i \in DOMAIN u
      PROVE  (\E j \in DOMAIN s : s[j] = u[i]) /\ u[i] # Head(s)
  <2>1. i + 1 \in DOMAIN s /\ s[i + 1] = u[i] /\ i + 1 # 1
    BY <1>1
  <2> QED
    BY <1>1, <1>2, <2>1 DEF Distinct
<1>5. ASSUME NEW i \in DOMAIN s, s[i] # Head(s)
      PROVE  \E j \in DOMAIN u : u[j] = s[i]
  <2>1. i - 1 \in DOMAIN u /\ u[i - 1] = s[i]
    BY <1>1, <1>5
  <2> QED
    BY <2>1
<1>6. \A x : (\E i \in DOMAIN u : u[i] = x) <=> (\E i \in DOMAIN s : s[i] = x) /\ x # Head(s)
  BY <1>4, <1>5, Zenon
<1> QED
  BY <1>1, <1>2, <1>3, <1>6 DEF u

\* A sequence with an element more.
LEMMA AppendDistinct ==
  ASSUME NEW s \in Seq(Tasks), NEW a \in Tasks
  PROVE  /\ Distinct(s) /\ ~(\E i \in DOMAIN s : s[i] = a) => Distinct(Append(s, a))
         /\ \A x : (\E i \in DOMAIN Append(s, a) : Append(s, a)[i] = x)
                      <=> (\E i \in DOMAIN s : s[i] = x) \/ x = a
<1> DEFINE u == Append(s, a)
<1>1. /\ DOMAIN s = 1..Len(s) /\ Len(s) \in Nat
      /\ DOMAIN u = 1..(Len(s) + 1)
      /\ \A i \in 1..Len(s) : u[i] = s[i]
      /\ u[Len(s) + 1] = a
  OBVIOUS
<1> HIDE DEF u
<1>2. \A i \in DOMAIN u : (i \in DOMAIN s /\ u[i] = s[i]) \/ (i = Len(s) + 1 /\ u[i] = a)
  BY <1>1
<1>3. \A i \in DOMAIN s : i \in DOMAIN u /\ u[i] = s[i]
  BY <1>1
<1>4. Len(s) + 1 \in DOMAIN u
  BY <1>1
<1>5. Distinct(s) /\ ~(\E i \in DOMAIN s : s[i] = a) => Distinct(u)
  <2> SUFFICES ASSUME Distinct(s), ~(\E i \in DOMAIN s : s[i] = a),
                      NEW i \in DOMAIN u, NEW j \in DOMAIN u, u[i] = u[j]
               PROVE  i = j
    BY DEF Distinct
  <2> QED
    BY <1>2, Zenon DEF Distinct
<1>6. \A x : (\E i \in DOMAIN u : u[i] = x) <=> (\E i \in DOMAIN s : s[i] = x) \/ x = a
  BY <1>1, <1>2, <1>3, <1>4, Zenon
<1> QED
  BY <1>5, <1>6 DEF u

\* The head of a queue leaves it.
LEMMA QueueTail ==
  ASSUME QueueTypes, NEW q \in Queues, tq[q] # <<>>, \A r \in Queues : Distinct(tq[r]),
         tq' = [tq EXCEPT ![q] = Tail(@)]
  PROVE  /\ Head(tq[q]) \in Tasks /\ InQueue(Head(tq[q]), q)
         /\ \A r \in Queues : Distinct(tq'[r])
         /\ \A r \in Queues : \A t :
               InQueue(t, r)' <=> InQueue(t, r) /\ ~(r = q /\ t = Head(tq[q]))
<1>1. tq[q] \in Seq(Tasks) /\ Distinct(tq[q])
  BY DEF QueueTypes
<1>2. /\ Distinct(Tail(tq[q]))
      /\ \A x : (\E i \in DOMAIN Tail(tq[q]) : Tail(tq[q])[i] = x)
                   <=> (\E i \in DOMAIN tq[q] : tq[q][i] = x) /\ x # Head(tq[q])
      /\ Head(tq[q]) \in Tasks /\ \E i \in DOMAIN tq[q] : tq[q][i] = Head(tq[q])
  BY <1>1, TailDistinct, Zenon
<1>3. tq'[q] = Tail(tq[q]) /\ \A r \in Queues : r # q => tq'[r] = tq[r]
  BY DEF QueueTypes
<1>4. \A t : InQueue(t, q)' <=> InQueue(t, q) /\ t # Head(tq[q])
  BY <1>2, <1>3, ZenonT(60) DEF InQueue
<1>5. \A r \in Queues : r # q => \A t : InQueue(t, r)' <=> InQueue(t, r)
  BY <1>3, Zenon DEF InQueue
<1>6. \A r \in Queues : Distinct(tq'[r])
  BY <1>2, <1>3, Zenon
<1>7. InQueue(Head(tq[q]), q)
  BY <1>2 DEF InQueue
<1> QED
  BY <1>2, <1>4, <1>5, <1>6, <1>7

\* A task enters a queue.
LEMMA QueueAppend ==
  ASSUME QueueTypes, NEW q \in Queues, NEW a \in Tasks, \A r \in Queues : Distinct(tq[r]),
         ~InQueue(a, q),
         tq' = [tq EXCEPT ![q] = Append(@, a)]
  PROVE  /\ \A r \in Queues : Distinct(tq'[r])
         /\ \A r \in Queues : \A t : InQueue(t, r)' <=> InQueue(t, r) \/ (r = q /\ t = a)
<1>1. tq[q] \in Seq(Tasks) /\ Distinct(tq[q]) /\ ~(\E i \in DOMAIN tq[q] : tq[q][i] = a)
  BY DEF QueueTypes, InQueue
<1>2. /\ Distinct(Append(tq[q], a))
      /\ \A x : (\E i \in DOMAIN Append(tq[q], a) : Append(tq[q], a)[i] = x)
                   <=> (\E i \in DOMAIN tq[q] : tq[q][i] = x) \/ x = a
  BY <1>1, AppendDistinct, Zenon
<1>3. tq'[q] = Append(tq[q], a) /\ \A r \in Queues : r # q => tq'[r] = tq[r]
  BY DEF QueueTypes
<1>4. \A t : InQueue(t, q)' <=> InQueue(t, q) \/ t = a
  BY <1>2, <1>3, Zenon DEF InQueue
<1>5. \A r \in Queues : r # q => \A t : InQueue(t, r)' <=> InQueue(t, r)
  BY <1>3, Zenon DEF InQueue
<1>6. \A r \in Queues : Distinct(tq'[r])
  BY <1>2, <1>3, Zenon
<1> QED
  BY <1>4, <1>5, <1>6

\* An empty queue has no task; queues that are left alone have the tasks they had.
LEMMA SameQueues ==
  /\ \A q : tq[q] = <<>> => \A t : ~InQueue(t, q)
  /\ \A q : tq'[q] = <<>> => Distinct(tq'[q]) /\ \A t : ~InQueue(t, q)'
  /\ \A q : tq'[q] = tq[q] => /\ \A t : InQueue(t, q)' <=> InQueue(t, q)
                              /\ Distinct(tq[q]) => Distinct(tq'[q])
  BY DEF InQueue, Distinct

\* A queue with tasks has a task.
LEMMA SomeInQueue ==
  ASSUME QueueTypes, NEW q \in Queues, tq[q] # <<>>
  PROVE  Head(tq[q]) \in Tasks /\ InQueue(Head(tq[q]), q)
<1>1. /\ tq[q] \in Seq(Tasks) /\ Head(tq[q]) \in Tasks
      /\ 1 \in DOMAIN tq[q] /\ tq[q][1] = Head(tq[q])
  BY DEF QueueTypes
<1> QED
  BY <1>1 DEF InQueue

-----------------------------------------------------------------------------
(***************************************************************************)
(* Where the tasks are                                                     *)
(***************************************************************************)
\* A frame of the stack is on the stack.
LEMMA ElementOnStack ==
  ASSUME stack \in Seq(Frames), NEW i \in DOMAIN stack
  PROVE  stack[i] = Frame(stack[i].at, stack[i].of) /\ OnStack(stack[i].at, stack[i].of)
<1>1. stack[i] \in Frames
  OBVIOUS
<1>2. \A f \in Frames : f = Frame(f.at, f.of)
  BY DEF Frames, User, Frame
<1>3. stack[i] = Frame(stack[i].at, stack[i].of)
  BY <1>1, <1>2
<1> QED
  BY <1>3 DEF OnStack

\* A return leaves no other frame of the task that has returned.
LEMMA OnceReturn ==
  ASSUME stack \in Seq(Frames), stack # <<>>, TaskOnce, Goto(<<>>)
  PROVE  /\ TaskOnce'
         /\ At("task") => \A t : t = Top => ~OnStack("task", t)'
<1>1. stack' = Tail(stack)
  BY DEF Goto
<1>2. /\ DOMAIN stack' = 1..(Len(stack) - 1) /\ DOMAIN stack = 1..Len(stack)
      /\ Len(stack) \in Nat
      /\ \A i \in 1..(Len(stack) - 1) : stack'[i] = stack[i + 1]
  BY <1>1
<1>3. \A i \in DOMAIN stack' : i \in Nat /\ i + 1 \in DOMAIN stack /\ stack'[i] = stack[i + 1]
  BY <1>2
<1>4. TaskOnce'
  <2> SUFFICES ASSUME NEW i \in DOMAIN stack', NEW j \in DOMAIN stack',
                      stack'[i].at = "task", stack'[i] = stack'[j]
               PROVE  i = j
    BY DEF TaskOnce
  <2>1. i + 1 = j + 1
    BY <1>3 DEF TaskOnce
  <2> QED
    BY <1>3, <2>1
<1>5. ASSUME At("task"), NEW t, t = Top PROVE ~OnStack("task", t)'
  <2>1. 1 \in DOMAIN stack /\ stack[1] = Frame("task", t)
    BY <1>2, <1>5, TopOnStack DEF OnStack
  <2>2. ASSUME NEW i \in DOMAIN stack', stack'[i] = Frame("task", t) PROVE FALSE
    <3>1. i + 1 \in DOMAIN stack /\ stack[i + 1] = stack[1]
      BY <1>3, <2>1, <2>2
    <3>2. i + 1 = 1
      BY <2>1, <3>1, FrameEqual DEF TaskOnce
    <3> QED
      BY <1>3, <2>2, <3>2
  <2> QED
    BY <2>2 DEF OnStack
<1> QED
  BY <1>4, <1>5

\* A call of a task that has no frame yet gives it one.
LEMMA OnceCall ==
  ASSUME stack \in Seq(Frames), NEW f \in Frames, stack' = <<f>> \o stack, TaskOnce,
         f.at = "task" => ~OnStack("task", f.of)
  PROVE  TaskOnce'
<1>1. /\ DOMAIN stack' = 1..(Len(stack) + 1) /\ DOMAIN stack = 1..Len(stack)
      /\ Len(stack) \in Nat
      /\ stack'[1] = f
      /\ \A i \in 1..Len(stack) : stack'[i + 1] = stack[i]
  OBVIOUS
<1>2. ASSUME NEW i \in DOMAIN stack', i # 1
      PROVE  i - 1 \in DOMAIN stack /\ stack'[i] = stack[i - 1]
  <2>1. i - 1 \in 1..Len(stack) /\ (i - 1) + 1 = i
    BY <1>1, <1>2
  <2> QED
    BY <1>1, <2>1
<1>3. f.at = "task" => \A i \in DOMAIN stack : stack[i] # f
  <2>1. ASSUME f.at = "task", NEW i \in DOMAIN stack, stack[i] = f PROVE FALSE
    <3>1. OnStack("task", f.of)
      BY <2>1, ElementOnStack
    <3> QED
      BY <2>1, <3>1
  <2> QED
    BY <2>1
<1> SUFFICES ASSUME NEW i \in DOMAIN stack', NEW j \in DOMAIN stack',
                    stack'[i].at = "task", stack'[i] = stack'[j]
             PROVE  i = j
  BY DEF TaskOnce
<1>4. CASE i = 1
  BY <1>1, <1>2, <1>3, <1>4
<1>5. CASE j = 1
  BY <1>1, <1>2, <1>3, <1>5
<1>6. CASE i # 1 /\ j # 1
  <2>1. i - 1 = j - 1
    BY <1>2, <1>6 DEF TaskOnce
  <2>2. i \in Nat /\ j \in Nat
    BY <1>1
  <2> QED
    BY <2>1, <2>2
<1> QED
  BY <1>4, <1>5, <1>6

\* A stack without tasks, or one that is left alone.
LEMMA OnceNone ==
  ASSUME stack' \in Seq(Frames), \A of : ~OnStack("task", of)'
  PROVE  TaskOnce'
<1>1. ASSUME NEW i \in DOMAIN stack', stack'[i].at = "task" PROVE FALSE
  <2>1. stack'[i] \in Frames
    OBVIOUS
  <2>2. \A f \in Frames : f.at = "task" => f = Frame("task", f.of)
    BY DEF Frames, User, Frame
  <2>3. stack'[i] = Frame("task", stack'[i].of)
    BY <1>1, <2>1, <2>2
  <2> QED
    BY <2>3 DEF OnStack
<1> QED
  BY <1>1 DEF TaskOnce

\* The steps that move no task, or take tasks out of every place.
LEMMA TaskKept ==
  ASSUME TaskInv, TaskOnce',
         \A s \in Threads, t \in Tasks : Enqueues(s, t)' => Enqueues(s, t),
         \A q \in Queues : Distinct(tq'[q]),
         \A q \in Queues, t \in Tasks : InQueue(t, q)' => InQueue(t, q),
         \A t \in Tasks : OnStack("task", t)' => OnStack("task", t),
         \A t \in Tasks :
            \/ status'[t] = status[t]
            \/ /\ \A s \in Threads : ~Enqueues(s, t)'
               /\ \A q \in Queues : ~InQueue(t, q)'
               /\ ~OnStack("task", t)'
  PROVE  TaskInv'
<1>1. \A s \in Threads, t \in Tasks :
         Enqueues(s, t)' => /\ status'[t] = "sending"
                            /\ \A r \in Threads : Enqueues(r, t)' => r = s
  BY DEF TaskInv
<1>2. \A q \in Queues, t \in Tasks :
         InQueue(t, q)' => /\ status'[t] = "queued"
                           /\ \A r \in Queues : InQueue(t, r)' => r = q
  BY DEF TaskInv
<1>3. \A t \in Tasks : OnStack("task", t)' => status'[t] = "running"
  BY DEF TaskInv
<1> QED
  BY <1>1, <1>2, <1>3 DEF TaskInv

\* The steps of a sender between its task's entry in the queue and the next task.
LEMMA SendersKept ==
  ASSUME SendTypes, NEW s \in Threads,
         SendNotify(s) \/ MailboxEnqueue(s) \/ MailboxNotify(s) \/ MailboxWake(s)
         \/ SendUnref(s) \/ SendFutexWake(s)
  PROVE  /\ \A r, t : r \in Threads => (Enqueues(r, t)' <=> Enqueues(r, t))
         /\ UNCHANGED <<stack, tq, status, sentIn, lives>>
<1>1. /\ pc[s] # "enqueue" /\ pc'[s] # "enqueue"
      /\ \A r \in Threads \ {s} : pc'[r] = pc[r] /\ job'[r] = job[r]
  <2>1. CASE SendNotify(s) \/ MailboxEnqueue(s) \/ MailboxNotify(s) \/ MailboxWake(s)
             \/ SendFutexWake(s)
    <3>1. job' = job /\ pc[s] \in {"notify", "msend", "mnotify", "wake", "fwake"}
      BY <2>1 DEF SendNotify, MailboxEnqueue, MailboxNotify, MailboxWake, SendFutexWake, Step
    <3>2. \E to \in {"unref", "msend", "mnotify", "wake", "idle"} : pc' = [pc EXCEPT ![s] = to]
      BY <2>1, Zenon DEF SendNotify, MailboxEnqueue, MailboxNotify, MailboxWake,
         SendFutexWake, Step
    <3> QED
      BY <3>1, <3>2 DEF SendTypes
  <2>2. CASE SendUnref(s)
    <3>1. pc[s] = "unref" /\ job' = [job EXCEPT ![s] = NoJob]
      BY <2>2 DEF SendUnref
    <3>2. \E to \in {"fwake", "idle"} : pc' = [pc EXCEPT ![s] = to]
      BY <2>2, Zenon DEF SendUnref
    <3> QED
      BY <3>1, <3>2 DEF SendTypes
  <2> QED
    BY <2>1, <2>2
<1>2. UNCHANGED <<stack, tq, status, sentIn, lives>>
  BY DEF SendNotify, MailboxEnqueue, MailboxNotify, MailboxWake, SendUnref, SendFutexWake,
     targetVars, queueVars, taskVars
<1> QED
  BY <1>1, <1>2 DEF Enqueues

\* Steps that leave the senders alone leave them with the tasks they had.
LEMMA SameSenders ==
  ASSUME UNCHANGED <<pc, job>>
  PROVE  \A s, t : Enqueues(s, t)' <=> Enqueues(s, t)
  BY DEF Enqueues

\* What a step does to the frames of tasks, apart from the calls and returns of
\* tasks themselves: it keeps them, or drops all of them.
LEMMA TaskFrames ==
  ASSUME TypeOK, TypeOK', QueueInv, StageInv, TaskOnce, TargetStep,
         ~(Execute /\ tq[Top] # <<>>), ~(Return /\ At("task"))
  PROVE  /\ TaskOnce'
         /\ \A t : OnStack("task", t)' <=> OnStack("task", t)
<1>0. stack \in Seq(Frames) /\ stack' \in Seq(Frames) /\ StackShape
  BY DEF TypeOK, TargetTypes, QueueInv
<1>1. ASSUME UNCHANGED stack
      PROVE  TaskOnce' /\ \A t : OnStack("task", t)' <=> OnStack("task", t)
  BY <1>0, <1>1, SameFrames DEF TaskOnce
<1>2. ASSUME \A t : ~OnStack("task", t)', \A t : ~OnStack("task", t)
      PROVE  TaskOnce' /\ \A t : OnStack("task", t)' <=> OnStack("task", t)
  BY <1>0, <1>2, OnceNone
<1>3. CASE Run \/ CheckMailbox
  <2>1. stack = <<>>
    BY <1>3 DEF Run, CheckMailbox, StageInv
  <2>2. \A t : ~OnStack("task", t)
    BY <2>1, FewFrames
  <2>3. \A t : ~OnStack("task", t)'
    BY <1>0, <1>3, RunFrames, CheckMailboxFrames
  <2> QED
    BY <1>2, <2>2, <2>3
<1>4. CASE CheckReceive \/ CheckExecute \/ CheckDone
  <2>1. \A t : ~OnStack("task", t)
    <3>1. At("check") \/ At("mexec") \/ At("mdone")
      BY <1>4 DEF CheckReceive, CheckExecute, CheckDone
    <3>2. \E at \in {"check", "mexec", "mdone"} : stack = <<Frame(at, Top)>>
      BY <1>0, <3>1, ShapeTop
    <3> QED
      BY <3>2, FewFrames
  <2>2. \A t : ~OnStack("task", t)'
    BY <1>0, <1>4, CheckReceiveFrames, CheckExecuteFrames, CheckDoneFrames
  <2> QED
    BY <1>2, <2>1, <2>2
<1>5. CASE Receive
  <2>1. \A t : ~OnStack("task", t) /\ ~OnStack("task", t)'
    BY <1>0, <1>5, ReceiveFrames
  <2> QED
    BY <1>2, <2>1
<1>6. CASE ReceiveDone
  <2>1. \A t : ~OnStack("task", t) /\ ~OnStack("task", t)'
    BY <1>0, <1>6, ReceiveDoneFrames
  <2> QED
    BY <1>2, <2>1
<1>7. CASE Execute
  <2>1. tq[Top] = <<>> /\ stack # <<>> /\ Goto(<<>>)
    BY <1>7 DEF Execute, At
  <2>2. \A at, of : OnStack(at, of) <=> OnStack(at, of)' \/ (at = "exec" /\ of = Top)
    BY <1>0, <1>7, <2>1, ExecuteFrames
  <2> QED
    BY <1>0, <2>1, <2>2, OnceReturn
<1>8. CASE Return
  <2>1. stack # <<>> /\ Goto(<<>>) /\ ~At("task")
    BY <1>8 DEF Return, InUserCode, At
  <2>2. \A at, of : OnStack(at, of) <=> \/ OnStack(at, of)'
                                        \/ at \in {"user", "task"} /\ At(at) /\ of = Top
    BY <1>0, <1>8, ReturnsFrames
  <2> QED
    BY <1>0, <2>1, <2>2, OnceReturn
<1>9. CASE ShutdownWait \/ ShutdownDestroy
  BY <1>1, <1>9 DEF ShutdownWait, ShutdownDestroy
<1>10. CASE ShutdownCancel
  <2>1. \A t : ~OnStack("task", t) /\ ~OnStack("task", t)'
    BY <1>10, ShutdownCancelFrames
  <2> QED
    BY <1>2, <2>1
<1>11. CASE CancelQueue
  <2>1. \A t : ~OnStack("task", t) /\ ~OnStack("task", t)'
    BY <1>0, <1>11, CancelQueueFrames
  <2> QED
    BY <1>2, <2>1
<1> QED
  BY <1>3, <1>4, <1>5, <1>6, <1>7, <1>8, <1>9, <1>10, <1>11 DEF TargetStep

\* A sender takes a reference for a task that nobody has, or is refused.
LEMMA RefTask ==
  ASSUME TypeOK, TaskInv, NEW s \in Threads, NEW q \in Queues, NEW t \in Tasks, SendRef(s, q, t)
  PROVE  /\ TaskInv'
         /\ UNCHANGED <<stack, tq, lives>>
         /\ \A r \in Threads, x \in Tasks :
               Enqueues(r, x)' <=> Enqueues(r, x) \/ (refcount # 0 /\ r = s /\ x = t)
         /\ \A x \in Tasks : x # t => status'[x] = status[x] /\ sentIn'[x] = sentIn[x]
         /\ sentIn'[t] = lives /\ status[t] = "new"
         /\ status'[t] = IF refcount = 0 THEN "refused" ELSE "sending"
<1>1. /\ UNCHANGED <<stack, tq, lives>> /\ pc[s] = "idle" /\ status[t] = "new"
      /\ sentIn' = [sentIn EXCEPT ![t] = lives]
      /\ refcount = 0 => UNCHANGED <<pc, job>> /\ status' = [status EXCEPT ![t] = "refused"]
      /\ refcount # 0 => /\ pc' = [pc EXCEPT ![s] = "enqueue"]
                         /\ job' = [job EXCEPT ![s] = [queue |-> q, task |-> t]]
                         /\ status' = [status EXCEPT ![t] = "sending"]
  BY DEF SendRef, targetVars, queueVars, CanCall
<1>2. /\ \A x \in Tasks : x # t => status'[x] = status[x] /\ sentIn'[x] = sentIn[x]
      /\ sentIn'[t] = lives
      /\ status'[t] = IF refcount = 0 THEN "refused" ELSE "sending"
  BY <1>1 DEF TypeOK, TaskTypes
<1>3. \A r \in Threads, x \in Tasks :
         Enqueues(r, x)' <=> Enqueues(r, x) \/ (refcount # 0 /\ r = s /\ x = t)
  <2>1. CASE refcount = 0
    BY <1>1, <2>1, SameSenders
  <2>2. CASE refcount # 0
    <3>1. /\ pc'[s] = "enqueue" /\ job'[s].task = t
          /\ \A r \in Threads \ {s} : pc'[r] = pc[r] /\ job'[r] = job[r]
      BY <1>1, <2>2 DEF TypeOK, SendTypes
    <3> QED
      BY <1>1, <2>2, <3>1 DEF Enqueues
  <2> QED
    BY <2>1, <2>2
<1>4. /\ \A r \in Threads : ~Enqueues(r, t)
      /\ \A r \in Queues : ~InQueue(t, r)
      /\ ~OnStack("task", t)
  BY <1>1 DEF TaskInv
<1>5. /\ \A r \in Queues : Distinct(tq'[r]) /\ \A x : InQueue(x, r)' <=> InQueue(x, r)
      /\ \A x : OnStack("task", x)' <=> OnStack("task", x)
      /\ TaskOnce'
  BY <1>1, SameQueues DEF TaskInv, OnStack, TaskOnce
<1>6. \A r \in Threads, x \in Tasks :
         Enqueues(r, x)' => /\ status'[x] = "sending"
                            /\ \A p \in Threads : Enqueues(p, x)' => p = r
  BY <1>2, <1>3, <1>4 DEF TaskInv
<1>7. \A r \in Queues, x \in Tasks :
         InQueue(x, r)' => /\ status'[x] = "queued"
                           /\ \A p \in Queues : InQueue(x, p)' => p = r
  BY <1>2, <1>4, <1>5 DEF TaskInv
<1>8. \A x \in Tasks : OnStack("task", x)' => status'[x] = "running"
  BY <1>2, <1>4, <1>5 DEF TaskInv
<1>9. TaskInv'
  BY <1>5, <1>6, <1>7, <1>8 DEF TaskInv
<1> QED
  BY <1>1, <1>2, <1>3, <1>9

\* A sender puts its task in the queue, or cannot.
LEMMA EnqueueTask ==
  ASSUME TypeOK, TaskInv, NEW s \in Threads, SendEnqueue(s),
         NEW q, NEW t, q = job[s].queue, t = job[s].task
  PROVE  /\ TaskInv'
         /\ q \in Queues /\ t \in Tasks /\ Enqueues(s, t)
         /\ UNCHANGED <<stack, lives, sentIn>>
         /\ \A r \in Threads, x \in Tasks : Enqueues(r, x)' <=> Enqueues(r, x) /\ r # s
         /\ \A x \in Tasks : x # t => status'[x] = status[x]
         /\ \/ /\ status'[t] = "queued"
               /\ tq' = [tq EXCEPT ![q] = Append(@, t)]
               /\ \A r \in Queues, x \in Tasks :
                     InQueue(x, r)' <=> InQueue(x, r) \/ (r = q /\ x = t)
               /\ pc' = [pc EXCEPT ![s] = "notify"]
            \/ /\ status'[t] = "refused" /\ tq' = tq
               /\ pc' = [pc EXCEPT ![s] = "unref"]
<1>1. /\ UNCHANGED <<stack, lives, sentIn, job>> /\ pc[s] = "enqueue"
      /\ \/ /\ tq' = [tq EXCEPT ![q] = Append(@, t)]
            /\ status' = [status EXCEPT ![t] = "queued"]
            /\ pc' = [pc EXCEPT ![s] = "notify"]
         \/ /\ status' = [status EXCEPT ![t] = "refused"]
            /\ pc' = [pc EXCEPT ![s] = "unref"]
            /\ tq' = tq
  BY DEF SendEnqueue, targetVars
<1>2. q \in Queues /\ t \in Tasks /\ Enqueues(s, t)
  <2>1. job[s] \in Job
    BY <1>1 DEF TypeOK, SendTypes, InSend
  <2> QED
    BY <1>1, <2>1 DEF Job, Enqueues
<1>3. /\ status[t] = "sending"
      /\ \A r \in Threads : Enqueues(r, t) => r = s
      /\ \A r \in Queues : ~InQueue(t, r)
      /\ ~OnStack("task", t)
  BY <1>2 DEF TaskInv
<1>4. \A r \in Threads, x \in Tasks : Enqueues(r, x)' <=> Enqueues(r, x) /\ r # s
  <2>1. /\ pc'[s] # "enqueue"
        /\ \A r \in Threads \ {s} : pc'[r] = pc[r]
    BY <1>1 DEF TypeOK, SendTypes
  <2> QED
    BY <1>1, <2>1 DEF Enqueues
<1>5. /\ \A x : OnStack("task", x)' <=> OnStack("task", x)
      /\ TaskOnce'
  BY <1>1 DEF TaskInv, OnStack, TaskOnce
<1>6. \A r \in Threads : ~Enqueues(r, t)'
  BY <1>2, <1>3, <1>4
<1>7. CASE /\ tq' = [tq EXCEPT ![q] = Append(@, t)]
           /\ status' = [status EXCEPT ![t] = "queued"]
           /\ pc' = [pc EXCEPT ![s] = "notify"]
  <2>1. status'[t] = "queued" /\ \A x \in Tasks : x # t => status'[x] = status[x]
    BY <1>2, <1>7 DEF TypeOK, TaskTypes
  <2>2. /\ \A r \in Queues : Distinct(tq'[r])
        /\ \A r \in Queues : \A x : InQueue(x, r)' <=> InQueue(x, r) \/ (r = q /\ x = t)
    <3>1. QueueTypes /\ q \in Queues /\ t \in Tasks /\ ~InQueue(t, q)
      BY <1>2, <1>3 DEF TypeOK
    <3>2. \A r \in Queues : Distinct(tq[r])
      BY DEF TaskInv
    <3> QED
      BY <1>7, <3>1, <3>2, QueueAppend, ZenonT(60)
  <2>3. \A r \in Threads, x \in Tasks :
           Enqueues(r, x)' => /\ status'[x] = "sending"
                              /\ \A p \in Threads : Enqueues(p, x)' => p = r
    BY <1>4, <1>6, <2>1 DEF TaskInv
  <2>4. \A r \in Queues, x \in Tasks :
           InQueue(x, r)' => /\ status'[x] = "queued"
                             /\ \A p \in Queues : InQueue(x, p)' => p = r
    BY <1>3, <2>1, <2>2 DEF TaskInv
  <2>5. \A x \in Tasks : OnStack("task", x)' => status'[x] = "running"
    BY <1>3, <1>5, <2>1 DEF TaskInv
  <2>6. TaskInv'
    BY <1>5, <2>2, <2>3, <2>4, <2>5 DEF TaskInv
  <2> QED
    BY <1>1, <1>2, <1>4, <1>7, <2>1, <2>2, <2>6
<1>8. CASE /\ status' = [status EXCEPT ![t] = "refused"]
           /\ pc' = [pc EXCEPT ![s] = "unref"]
           /\ tq' = tq
  <2>1. status'[t] = "refused" /\ \A x \in Tasks : x # t => status'[x] = status[x]
    BY <1>2, <1>8 DEF TypeOK, TaskTypes
  <2>2. \A r \in Queues : Distinct(tq'[r]) /\ \A x : InQueue(x, r)' <=> InQueue(x, r)
    BY <1>8, SameQueues DEF TaskInv
  <2>3. TaskInv'
    BY <1>3, <1>4, <1>5, <1>6, <2>1, <2>2, TaskKept
  <2> QED
    BY <1>1, <1>2, <1>4, <1>8, <2>1, <2>3
<1> QED
  BY <1>1, <1>7, <1>8

\* A queue's loop takes its next task and calls it.
BeginTask == Execute /\ tq[Top] # <<>>

\* The task leaves its queue and has the new frame.
LEMMA BeginEffect ==
  ASSUME TypeOK, QueueInv, TaskInv, BeginTask, NEW q, NEW t, q = Top, t = Head(tq[q])
  PROVE  /\ TaskInv'
         /\ q \in Queues /\ t \in Tasks /\ InQueue(t, q) /\ OnStack("exec", q)
         /\ UNCHANGED <<pc, job, lives, sentIn>>
         /\ \A x \in Tasks : status'[x] = IF x = t THEN "running" ELSE status[x]
         /\ \A r \in Queues, x \in Tasks : InQueue(x, r)' <=> InQueue(x, r) /\ x # t
         /\ \A at, x : OnStack(at, x)' <=> OnStack(at, x) \/ (at = "task" /\ x = t)
<1>0. stack \in Seq(Frames) /\ StackShape /\ stack # <<>> /\ At("exec") /\ QueueTypes
  BY DEF TypeOK, TargetTypes, QueueInv, BeginTask, Execute, At
<1>1. /\ q \in Queues /\ OnStack("exec", q)
      /\ \A at, x : OnStack(at, x)' <=> OnStack(at, x) \/ (at = "task" /\ x = t)
  BY <1>0, ExecuteFrames DEF BeginTask
<1>2. /\ tq[q] # <<>> /\ tq' = [tq EXCEPT ![q] = Tail(@)]
      /\ status' = [status EXCEPT ![t] = "running"]
      /\ Goto(<<Frame("task", t), Frame("exec", q)>>)
      /\ UNCHANGED <<pc, job, lives, sentIn>>
  BY DEF BeginTask, Execute, sendVars
<1>3. \A r \in Queues : Distinct(tq[r])
  BY DEF TaskInv
<1>4. /\ t \in Tasks /\ InQueue(t, q)
      /\ \A r \in Queues : Distinct(tq'[r])
      /\ \A r \in Queues : \A x : InQueue(x, r)' <=> InQueue(x, r) /\ ~(r = q /\ x = t)
  BY <1>0, <1>1, <1>2, <1>3, QueueTail
<1>5. /\ status[t] = "queued" /\ \A r \in Queues : InQueue(t, r) => r = q
      /\ \A s \in Threads : ~Enqueues(s, t)
      /\ ~OnStack("task", t)
  BY <1>1, <1>4 DEF TaskInv
<1>6. \A x \in Tasks : status'[x] = IF x = t THEN "running" ELSE status[x]
  BY <1>2, <1>4 DEF TypeOK, TaskTypes
<1>7. \A r \in Queues, x \in Tasks : InQueue(x, r)' <=> InQueue(x, r) /\ x # t
  BY <1>4, <1>5
<1>8. \A s, x : Enqueues(s, x)' <=> Enqueues(s, x)
  BY <1>2, SameSenders
<1>9. TaskOnce'
  <2>1. Head(stack) = Frame("exec", q)
    BY <1>0, TopOnStack
  <2>2. stack' = <<Frame("task", t)>> \o stack /\ Frame("task", t) \in Frames
    BY <1>0, <1>2, <1>4, <2>1, BeginFrames
  <2> QED
    BY <1>0, <1>5, <2>2, FrameEqual, OnceCall DEF TaskInv
<1>10. TaskInv'
  <2>1. \A s \in Threads, x \in Tasks :
           Enqueues(s, x)' => /\ status'[x] = "sending"
                              /\ \A p \in Threads : Enqueues(p, x)' => p = s
    BY <1>5, <1>6, <1>8 DEF TaskInv
  <2>2. \A r \in Queues, x \in Tasks :
           InQueue(x, r)' => /\ status'[x] = "queued"
                             /\ \A p \in Queues : InQueue(x, p)' => p = r
    BY <1>6, <1>7 DEF TaskInv
  <2>3. \A x \in Tasks : OnStack("task", x)' => status'[x] = "running"
    BY <1>1, <1>6 DEF TaskInv
  <2> QED
    BY <1>4, <1>9, <2>1, <2>2, <2>3 DEF TaskInv
<1> QED
  BY <1>1, <1>2, <1>4, <1>6, <1>7, <1>10

\* A task returns.
EndTask == Return /\ At("task")

\* It has the outcome, and its frame is gone.
LEMMA EndEffect ==
  ASSUME TypeOK, QueueInv, TaskInv, EndTask, NEW t, t = Top
  PROVE  /\ TaskInv'
         /\ t \in Tasks /\ OnStack("task", t)
         /\ UNCHANGED <<pc, job, lives, sentIn, tq>>
         /\ \A x \in Tasks : status'[x] = IF x = t THEN "done" ELSE status[x]
         /\ \A at, x : OnStack(at, x)' <=> OnStack(at, x) /\ ~(at = "task" /\ x = t)
<1>0. stack \in Seq(Frames) /\ StackShape /\ stack # <<>> /\ At("task") /\ Goto(<<>>)
  BY DEF TypeOK, TargetTypes, QueueInv, EndTask, Return, At
<1>1. t \in Tasks /\ OnStack("task", t)
  BY <1>0, TopType, TopOnStack DEF At
<1>2. /\ UNCHANGED <<pc, job, lives, sentIn, tq>>
      /\ status' = [status EXCEPT ![t] = "done"]
  BY <1>0 DEF EndTask, Return, sendVars, queueVars
<1>3. TaskOnce' /\ ~OnStack("task", t)'
  BY <1>0, OnceReturn DEF TaskInv
<1>4. \A at, x : OnStack(at, x) <=> \/ OnStack(at, x)'
                                    \/ at \in {"user", "task"} /\ At(at) /\ x = t
  BY <1>0, ReturnsFrames DEF EndTask
<1>5. \A at : At(at) => at = "task"
  BY <1>0 DEF At
<1>6. \A at, x : OnStack(at, x)' <=> OnStack(at, x) /\ ~(at = "task" /\ x = t)
  BY <1>0, <1>3, <1>4, <1>5
<1>7. \A x \in Tasks : status'[x] = IF x = t THEN "done" ELSE status[x]
  BY <1>1, <1>2 DEF TypeOK, TaskTypes
<1>8. /\ \A s, x : Enqueues(s, x)' <=> Enqueues(s, x)
      /\ \A r \in Queues : Distinct(tq'[r]) /\ \A x : InQueue(x, r)' <=> InQueue(x, r)
  BY <1>2, SameSenders, SameQueues DEF TaskInv
<1>9. (\A s \in Threads : ~Enqueues(s, t)) /\ (\A r \in Queues : ~InQueue(t, r))
  BY <1>1 DEF TaskInv
<1>10. TaskInv'
  BY <1>3, <1>6, <1>7, <1>8, <1>9, TaskKept
<1> QED
  BY <1>1, <1>2, <1>6, <1>7, <1>10

\* The handler of a canceled message cancels a task.
CancelTask == CancelQueue /\ tq[Top] # <<>>

\* It leaves its queue and has the outcome.
LEMMA CancelEffect ==
  ASSUME TypeOK, QueueInv, TaskInv, CancelTask, NEW q, NEW t, q = Top, t = Head(tq[q])
  PROVE  /\ TaskInv'
         /\ q \in Queues /\ t \in Tasks /\ InQueue(t, q) /\ OnStack("cancel", q)
         /\ UNCHANGED <<pc, job, lives, sentIn, stack>>
         /\ \A x \in Tasks : status'[x] = IF x = t THEN "canceled" ELSE status[x]
         /\ \A r \in Queues, x \in Tasks : InQueue(x, r)' <=> InQueue(x, r) /\ x # t
<1>0. stack \in Seq(Frames) /\ StackShape /\ stack # <<>> /\ At("cancel") /\ QueueTypes
  BY DEF TypeOK, TargetTypes, QueueInv, CancelTask, CancelQueue, At
<1>1. q \in Queues /\ OnStack("cancel", q)
  BY <1>0, TopType, TopOnStack DEF At
<1>2. /\ tq[q] # <<>> /\ tq' = [tq EXCEPT ![q] = Tail(@)]
      /\ status' = [status EXCEPT ![t] = "canceled"]
      /\ UNCHANGED <<pc, job, lives, sentIn, stack>>
  BY DEF CancelTask, CancelQueue, sendVars
<1>3. \A r \in Queues : Distinct(tq[r])
  BY DEF TaskInv
<1>4. /\ t \in Tasks /\ InQueue(t, q)
      /\ \A r \in Queues : Distinct(tq'[r])
      /\ \A r \in Queues : \A x : InQueue(x, r)' <=> InQueue(x, r) /\ ~(r = q /\ x = t)
  BY <1>0, <1>1, <1>2, <1>3, QueueTail
<1>5. /\ status[t] = "queued" /\ \A r \in Queues : InQueue(t, r) => r = q
      /\ \A s \in Threads : ~Enqueues(s, t)
      /\ ~OnStack("task", t)
  BY <1>1, <1>4 DEF TaskInv
<1>6. \A x \in Tasks : status'[x] = IF x = t THEN "canceled" ELSE status[x]
  BY <1>2, <1>4 DEF TypeOK, TaskTypes
<1>7. \A r \in Queues, x \in Tasks : InQueue(x, r)' <=> InQueue(x, r) /\ x # t
  BY <1>4, <1>5
<1>8. /\ \A s, x : Enqueues(s, x)' <=> Enqueues(s, x)
      /\ \A x : OnStack("task", x)' <=> OnStack("task", x)
      /\ TaskOnce'
  BY <1>2, SameSenders DEF OnStack, TaskOnce, TaskInv
<1>9. TaskInv'
  BY <1>4, <1>5, <1>6, <1>7, <1>8, TaskKept
<1> QED
  BY <1>1, <1>2, <1>4, <1>6, <1>7, <1>9

\* The thread exits, with the frames of all its tasks.
LEMMA ExitEffect ==
  ASSUME TypeOK, TypeOK', QueueInv, TaskInv, ExitBegin
  PROVE  /\ TaskInv'
         /\ UNCHANGED <<pc, job, lives, sentIn, tq>>
         /\ \A x \in Tasks : status'[x] = IF At("task") /\ x = Top THEN "exited" ELSE status[x]
         /\ \A at, x : ~OnStack(at, x)'
         /\ NoExitInTask' => stack \in {<<>>, <<User>>}
<1>0. stack \in Seq(Frames) /\ stack' \in Seq(Frames) /\ StackShape /\ stack' = <<>>
  BY DEF TypeOK, TargetTypes, QueueInv, ExitBegin
<1>1. \A at, x : ~OnStack(at, x)'
  BY ExitFrames
<1>2. /\ UNCHANGED <<pc, job, lives, sentIn, tq>>
      /\ status' = IF At("task") THEN [status EXCEPT ![Top] = "exited"] ELSE status
      /\ stack \in {<<>>, <<User>>} \/ InUserCode
  BY DEF ExitBegin, sendVars, queueVars
<1>3. At("task") => Top \in Tasks /\ OnStack("task", Top)
  BY <1>0, TopType, TopOnStack DEF At
<1>4. \A x \in Tasks : status'[x] = IF At("task") /\ x = Top THEN "exited" ELSE status[x]
  BY <1>2, <1>3 DEF TypeOK, TaskTypes
<1>5. /\ \A s, x : Enqueues(s, x)' <=> Enqueues(s, x)
      /\ \A r \in Queues : Distinct(tq'[r]) /\ \A x : InQueue(x, r)' <=> InQueue(x, r)
      /\ TaskOnce'
  BY <1>0, <1>2, SameSenders, SameQueues DEF TaskInv, TaskOnce
<1>6. At("task") => /\ \A s \in Threads : ~Enqueues(s, Top)
                    /\ \A r \in Queues : ~InQueue(Top, r)
  BY <1>3 DEF TaskInv
<1>7. TaskInv'
  BY <1>1, <1>4, <1>5, <1>6, TaskKept
<1>8. NoExitInTask' => stack \in {<<>>, <<User>>}
  <2>1. NoExitInTask' => ~At("task")
    BY <1>3, <1>4 DEF NoExitInTask
  <2>2. At("user") => stack = <<Frame("user", Top)>>
    BY <1>0, ShapeTop
  <2>3. At("user") => Top = Target
    <3>1. \A f \in Frames : f.at = "user" => f.of = Target
      BY DEF Frames, User, Frame
    <3> QED
      BY <1>0, <3>1 DEF At, Top
  <2> QED
    BY <1>2, <2>1, <2>2, <2>3 DEF InUserCode, User
<1> QED
  BY <1>1, <1>2, <1>4, <1>7, <1>8

\* A queue is created in memory that nobody can reach, and holds nothing.
LEMMA CreateEffect ==
  ASSUME TypeOK, QueueInv, TaskInv, NEW q \in Queues, CreateQueue(q)
  PROVE  /\ TaskInv'
         /\ UNCHANGED <<stage, lives, stack, mbox, pc, job, status, sentIn>>
         /\ ~Named(q) /\ ~Taken(q) /\ ~Sending(q) /\ ~OnStack("exec", q)
         /\ \A x \in Queues : x # q => tq'[x] = tq[x] /\ note'[x] = note[x]
         /\ tq'[q] = <<>> \/ tq'[q] = tq[q]
         /\ note'[q] = "NONE" \/ note'[q] = note[q]
<1>1. UNCHANGED <<stage, lives, stack, mbox, pc, job, status, sentIn>>
  BY DEF CreateQueue, targetVars, mboxVars, sendVars, taskVars
<1>2. PICK culled \in SUBSET Cullable, ok \in BOOLEAN :
        /\ life[q] \in {"none", "freed"} \/ q \in culled
        /\ IF ok THEN /\ tq' = [tq EXCEPT ![q] = <<>>]
                      /\ note' = [note EXCEPT ![q] = "NONE"]
                 ELSE UNCHANGED <<tq, note>>
  BY Zenon DEF CreateQueue
<1>3. ~Named(q) /\ ~Taken(q) /\ ~Sending(q) /\ ~OnStack("exec", q)
  BY <1>2, OutOfReach DEF QueueInv
<1>4. /\ \A x \in Queues : x # q => tq'[x] = tq[x] /\ note'[x] = note[x]
      /\ tq'[q] = <<>> \/ tq'[q] = tq[q]
      /\ note'[q] = "NONE" \/ note'[q] = note[q]
  BY <1>2 DEF TypeOK, QueueTypes
<1>5. /\ \A s, x : Enqueues(s, x)' <=> Enqueues(s, x)
      /\ TaskOnce' /\ \A x : OnStack("task", x)' <=> OnStack("task", x)
  BY <1>1, SameSenders DEF OnStack, TaskOnce, TaskInv
<1>6. ASSUME NEW r \in Queues
      PROVE  Distinct(tq'[r]) /\ \A x : InQueue(x, r)' => InQueue(x, r)
  <2>1. tq'[r] = <<>> \/ tq'[r] = tq[r]
    BY <1>4
  <2> QED
    BY <2>1, SameQueues DEF TaskInv
<1>7. TaskInv'
  BY <1>1, <1>5, <1>6, TaskKept
<1> QED
  BY <1>1, <1>3, <1>4, <1>7

\* The steps that move no task.
Quiet ==
    \/ \E s \in Threads : \/ SendNotify(s) \/ MailboxEnqueue(s) \/ MailboxNotify(s)
                          \/ MailboxWake(s) \/ SendUnref(s) \/ SendFutexWake(s)
    \/ \E q \in Queues : DestroyQueue(q) \/ ExecuteQueue(q)
    \/ Spawn \/ RoutePost \/ FreeData \/ Recreate
    \/ TargetStep /\ ~BeginTask /\ ~EndTask /\ ~CancelTask

\* They leave every task where it is, and its status.
LEMMA QuietEffect ==
  ASSUME TypeOK, TypeOK', QueueInv, StageInv, TaskInv, Quiet
  PROVE  /\ TaskInv'
         /\ UNCHANGED <<status, sentIn, tq>> /\ (UNCHANGED lives \/ Recreate)
         /\ \A s \in Threads, t \in Tasks : Enqueues(s, t)' <=> Enqueues(s, t)
         /\ \A t \in Tasks : OnStack("task", t)' <=> OnStack("task", t)
<1>0. stack \in Seq(Frames) /\ StackShape /\ TaskOnce
  BY DEF TypeOK, TargetTypes, QueueInv, TaskInv
<1>1. ASSUME UNCHANGED <<status, sentIn, tq>>, UNCHANGED lives \/ Recreate, TaskOnce',
             \A s \in Threads, t \in Tasks : Enqueues(s, t)' <=> Enqueues(s, t),
             \A t \in Tasks : OnStack("task", t)' <=> OnStack("task", t)
      PROVE  /\ TaskInv'
             /\ UNCHANGED <<status, sentIn, tq>> /\ (UNCHANGED lives \/ Recreate)
             /\ \A s \in Threads, t \in Tasks : Enqueues(s, t)' <=> Enqueues(s, t)
             /\ \A t \in Tasks : OnStack("task", t)' <=> OnStack("task", t)
  <2>1. \A r \in Queues : Distinct(tq'[r]) /\ \A x : InQueue(x, r)' <=> InQueue(x, r)
    BY <1>1, SameQueues DEF TaskInv
  <2>2. TaskInv'
    BY <1>1, <2>1, TaskKept
  <2> QED
    BY <1>1, <2>2
<1>2. ASSUME UNCHANGED stack
      PROVE  TaskOnce' /\ \A t \in Tasks : OnStack("task", t)' <=> OnStack("task", t)
  BY <1>0, <1>2, SameFrames DEF TaskOnce
<1>3. ASSUME NEW s \in Threads,
             SendNotify(s) \/ MailboxEnqueue(s) \/ MailboxNotify(s) \/ MailboxWake(s)
             \/ SendUnref(s) \/ SendFutexWake(s)
      PROVE  /\ UNCHANGED <<stack, tq, status, sentIn, lives>>
             /\ \A r \in Threads, t \in Tasks : Enqueues(r, t)' <=> Enqueues(r, t)
  BY <1>3, SendersKept DEF TypeOK
<1>4. CASE \E s \in Threads : \/ SendNotify(s) \/ MailboxEnqueue(s) \/ MailboxNotify(s)
                              \/ MailboxWake(s) \/ SendUnref(s) \/ SendFutexWake(s)
  BY <1>1, <1>2, <1>3, <1>4
<1>5. CASE (\E q \in Queues : DestroyQueue(q)) \/ Spawn \/ RoutePost \/ FreeData \/ Recreate
  <2>1. /\ UNCHANGED <<stack, status, sentIn, tq, pc, job>>
        /\ UNCHANGED lives \/ Recreate
    BY <1>5 DEF DestroyQueue, Spawn, RoutePost, FreeData, Recreate, targetVars, queueVars,
       sendVars, taskVars
  <2> QED
    BY <1>1, <1>2, <2>1, SameSenders
<1>6. ASSUME NEW q \in Queues, ExecuteQueue(q)
      PROVE  /\ UNCHANGED <<status, sentIn, tq, pc, job, lives>>
             /\ TaskOnce' /\ \A t \in Tasks : OnStack("task", t)' <=> OnStack("task", t)
  <2>1. /\ UNCHANGED <<status, sentIn, tq, pc, job, lives>>
        /\ stack' = <<Frame("exec", q)>> \o stack /\ Frame("exec", q) \in Frames
    BY <1>6, FrameType DEF ExecuteQueue, sendVars, taskVars
  <2>2. \A t : OnStack("task", t)' <=> OnStack("task", t)
    BY <1>0, <1>6, ExecuteQueueFrames
  <2> QED
    BY <1>0, <2>1, <2>2, FrameEqual, OnceCall
<1>7. CASE \E q \in Queues : ExecuteQueue(q)
  BY <1>1, <1>6, <1>7, SameSenders
<1>8. CASE TargetStep /\ ~BeginTask /\ ~EndTask /\ ~CancelTask
  <2>1. UNCHANGED <<sentIn, pc, job, lives>>
    BY <1>8 DEF TargetStep, Run, CheckMailbox, CheckReceive, CheckExecute, CheckDone, Receive,
       ReceiveDone, Execute, Return, ShutdownWait, ShutdownCancel, CancelQueue,
       ShutdownDestroy, sendVars, taskVars, targetVars
  <2>2. UNCHANGED <<status, tq>>
    BY <1>8 DEF TargetStep, Run, CheckMailbox, CheckReceive, CheckExecute, CheckDone, Receive,
       ReceiveDone, Execute, Return, ShutdownWait, ShutdownCancel, CancelQueue,
       ShutdownDestroy, taskVars, queueVars, BeginTask, EndTask, CancelTask
  <2>3. TaskOnce' /\ \A t : OnStack("task", t)' <=> OnStack("task", t)
    BY <1>0, <1>8, TaskFrames DEF BeginTask, EndTask
  <2> QED
    BY <1>1, <2>1, <2>2, <2>3, SameSenders
<1> QED
  BY <1>4, <1>5, <1>7, <1>8 DEF Quiet

\* Every step is quiet, or moves one task, or is one of the two that drop them.
LEMMA NextCases ==
  ASSUME Next
  PROVE  \/ Quiet
         \/ BeginTask \/ EndTask \/ CancelTask \/ ExitBegin
         \/ \E q \in Queues : CreateQueue(q)
         \/ \E s \in Threads : SendEnqueue(s) \/ \E q \in Queues, t \in Tasks : SendRef(s, q, t)
  BY Zenon DEF Next, Send, Quiet

\* Every task is in one place, and its status is that of the place.
LEMMA TaskStep ==
  ASSUME TypeOK, TypeOK', QueueInv, StageInv, TaskInv, Next
  PROVE  TaskInv'
<1>1. CASE Quiet
  BY <1>1, QuietEffect
<1>2. CASE BeginTask
  BY <1>2, BeginEffect
<1>3. CASE EndTask
  BY <1>3, EndEffect
<1>4. CASE CancelTask
  BY <1>4, CancelEffect
<1>5. CASE ExitBegin
  BY <1>5, ExitEffect
<1>6. ASSUME NEW q \in Queues, CreateQueue(q) PROVE TaskInv'
  BY <1>6, CreateEffect
<1>7. ASSUME NEW s \in Threads, SendEnqueue(s) PROVE TaskInv'
  BY <1>7, EnqueueTask
<1>8. ASSUME NEW s \in Threads, NEW q \in Queues, NEW t \in Tasks, SendRef(s, q, t) PROVE TaskInv'
  BY <1>8, RefTask
<1> QED
  BY <1>1, <1>2, <1>3, <1>4, <1>5, <1>6, <1>7, <1>8, NextCases

\* A task that has exited its thread is never reported otherwise.
LEMMA ExitedStays ==
  ASSUME TypeOK, TypeOK', QueueInv, StageInv, TaskInv, Next, NoExitInTask'
  PROVE  NoExitInTask
<1> SUFFICES ASSUME NEW x \in Tasks, status[x] = "exited" PROVE status'[x] = "exited"
  BY DEF NoExitInTask
<1>0. /\ \A q \in Queues : ~InQueue(x, q)
      /\ \A s \in Threads : ~Enqueues(s, x)
      /\ ~OnStack("task", x)
  BY DEF TaskInv
<1>1. CASE Quiet
  BY <1>1, QuietEffect
<1>2. CASE BeginTask
  BY <1>0, <1>2, BeginEffect
<1>3. CASE EndTask
  BY <1>0, <1>3, EndEffect
<1>4. CASE CancelTask
  BY <1>0, <1>4, CancelEffect
<1>5. CASE ExitBegin
  BY <1>5, ExitEffect
<1>6. ASSUME NEW q \in Queues, CreateQueue(q) PROVE status'[x] = "exited"
  BY <1>6, CreateEffect
<1>7. ASSUME NEW s \in Threads, SendEnqueue(s) PROVE status'[x] = "exited"
  BY <1>0, <1>7, EnqueueTask
<1>8. ASSUME NEW s \in Threads, NEW q \in Queues, NEW t \in Tasks, SendRef(s, q, t)
      PROVE  status'[x] = "exited"
  BY <1>8, RefTask
<1> QED
  BY <1>1, <1>2, <1>3, <1>4, <1>5, <1>6, <1>7, <1>8, NextCases

-----------------------------------------------------------------------------
(***************************************************************************)
(* The way of the work in a queue                                          *)
(***************************************************************************)
\* The notification of q is in someone's hands: a sender's, a message's, or a
\* handler's that has not cleared it.
Hands(q) == Named(q) \/ Taken(q) \/ \E s \in Threads : Sends(s, q)

\* Thread s has put a task in q and not yet looked at its notification.
Notifies(s, q) == pc[s] = "notify" /\ job[s].queue = q

\* A step of one sender moves no other.
LEMMA OthersMove ==
  ASSUME SendTypes, NEW s \in Threads, Send(s)
  PROVE  \A r \in Threads \ {s} : pc'[r] = pc[r] /\ job'[r] = job[r]
<1>1. CASE \E q \in Queues, t \in Tasks : SendRef(s, q, t)
  BY <1>1 DEF SendRef, SendTypes
<1>2. CASE SendEnqueue(s)
  BY <1>2 DEF SendEnqueue, SendTypes
<1>3. CASE SendNotify(s)
  BY <1>3 DEF SendNotify, SendTypes
<1>4. CASE MailboxEnqueue(s) \/ MailboxWake(s) \/ SendFutexWake(s)
  BY <1>4 DEF MailboxEnqueue, MailboxWake, SendFutexWake, Step, SendTypes
<1>5. CASE MailboxNotify(s)
  BY <1>5 DEF MailboxNotify, SendTypes
<1>6. CASE SendUnref(s)
  BY <1>6 DEF SendUnref, SendTypes
<1> QED
  BY <1>1, <1>2, <1>3, <1>4, <1>5, <1>6 DEF Send

\* What a step of a sender does to the Target, to its mailbox and to the queues.
LEMMA SenderSteps ==
  ASSUME SendTypes, NEW s \in Threads, Send(s)
  PROVE  /\ stack' = stack
         /\ mbox' = mbox \/ MailboxEnqueue(s)
         /\ \/ pc[s] \notin {"msend", "notify"}
            \/ MailboxEnqueue(s)
            \/ SendNotify(s)
  BY DEF Send, SendRef, SendEnqueue, SendNotify, MailboxEnqueue, MailboxNotify, MailboxWake,
     SendUnref, SendFutexWake, Step, CanCall, targetVars, mboxVars

\* A sender's step leaves the notification of every queue in someone's hands.
LEMMA HandsSend ==
  ASSUME TypeOK, NEW s \in Threads, Send(s), NEW q \in Queues, Hands(q)
  PROVE  Hands(q)'
<1>0. SendTypes /\ mbox \in Seq(Queues)
  BY DEF TypeOK, MailboxTypes
<1>1. \A r \in Threads \ {s} : pc'[r] = pc[r] /\ job'[r] = job[r]
  BY <1>0, OthersMove
<1>2. Taken(q)' <=> Taken(q)
  BY <1>0, SenderSteps DEF Taken, OnStack
<1>3. CASE MailboxEnqueue(s)
  <2>1. /\ pc[s] = "msend" /\ job[s] \in Job /\ mbox' = Append(mbox, job[s].queue)
    BY <1>0, <1>3 DEF MailboxEnqueue, Step, SendTypes, InSend
  <2>2. job[s].queue \in Queues
    BY <2>1 DEF Job
  <2>3. \A x : Named(x)' <=> Named(x) \/ x = job[s].queue
    BY <1>0, <2>1, <2>2, AppendNamed
  <2>4. \A r \in Threads : Sends(r, q) => Sends(r, q)' \/ q = job[s].queue
    BY <1>1 DEF Sends
  <2> QED
    BY <1>2, <2>3, <2>4 DEF Hands
<1>4. CASE mbox' = mbox
  <2>1. Named(q)' <=> Named(q)
    BY <1>4, SameNamed
  <2>2. pc[s] # "msend"
    <3>1. ASSUME MailboxEnqueue(s), mbox' = mbox PROVE FALSE
      <4>1. mbox' = Append(mbox, job[s].queue)
        BY <3>1 DEF MailboxEnqueue
      <4>2. Len(mbox') = Len(mbox) + 1 /\ Len(mbox) \in Nat
        BY <1>0, <4>1
      <4> QED
        BY <3>1, <4>2
    <3>2. SendNotify(s) => pc[s] # "msend"
      BY DEF SendNotify
    <3> QED
      BY <1>0, <1>4, <3>1, <3>2, SenderSteps
  <2>3. \A r \in Threads : Sends(r, q) => Sends(r, q)'
    BY <1>1, <2>2 DEF Sends
  <2> QED
    BY <1>2, <2>1, <2>3 DEF Hands
<1> QED
  BY <1>0, <1>3, <1>4, SenderSteps

\* The notification of a queue leaves these hands only to be marked received, by the
\* handler that then executes the queue, or cleared, when the queue is empty.
LEMMA HandsStep ==
  ASSUME TypeOK, TypeOK', QueueInv, StageInv, TaskInv, Next, NoExitInTask',
         NEW q \in Queues, Hands(q)
  PROVE  \/ Hands(q)'
         \/ note'[q] # "PENDING" /\ (OnStack("exec", q)' \/ tq'[q] = <<>>)
<1>0. /\ stack \in Seq(Frames) /\ mbox \in Seq(Queues) /\ QueueTypes /\ SendTypes
      /\ StackShape /\ OneMessagePerQueue
  BY DEF TypeOK, TargetTypes, MailboxTypes, QueueInv, TokenInv
<1>1. ASSUME UNCHANGED <<pc, job>>, Named(q) => Named(q)' \/ Taken(q)', Taken(q) => Taken(q)'
      PROVE  Hands(q)'
  <2>1. \A s \in Threads : Sends(s, q)' <=> Sends(s, q)
    BY <1>1, SendingKept
  <2> QED
    BY <1>1, <2>1 DEF Hands
<1>2. ASSUME UNCHANGED <<pc, job, mbox, stack>>
      PROVE  Hands(q)'
  BY <1>1, <1>2, SameNamed DEF Taken, OnStack
<1>3. ASSUME NEW s \in Threads, Send(s)
      PROVE  Hands(q)'
  BY <1>3, HandsSend
<1>4. ASSUME NEW x \in Queues, CreateQueue(x) \/ DestroyQueue(x)
      PROVE  Hands(q)'
  BY <1>2, <1>4 DEF CreateQueue, DestroyQueue, targetVars, mboxVars, sendVars
<1>5. CASE Spawn \/ RoutePost \/ FreeData \/ ShutdownWait \/ ShutdownDestroy
  BY <1>2, <1>5 DEF Spawn, RoutePost, FreeData, ShutdownWait, ShutdownDestroy, targetVars,
     mboxVars, sendVars
<1>6. CASE Recreate
  <2>1. UNCHANGED <<pc, job, mbox, stack>>
    BY <1>6 DEF Recreate, StageInv, sendVars
  <2> QED
    BY <1>2, <2>1
<1>7. ASSUME NEW x \in Queues, ExecuteQueue(x)
      PROVE  Hands(q)'
  <2>1. UNCHANGED <<pc, job, mbox>>
    BY <1>7 DEF ExecuteQueue, sendVars, mboxVars
  <2>2. \A at, of : OnStack(at, of)' <=> OnStack(at, of) \/ (at = "exec" /\ of = x)
    BY <1>0, <1>7, ExecuteQueueFrames
  <2> QED
    BY <1>1, <2>1, <2>2, SameNamed DEF Taken
<1>8. CASE Run \/ CheckMailbox \/ ExitBegin
  <2>1. UNCHANGED <<pc, job, mbox>>
    BY <1>8 DEF Run, CheckMailbox, ExitBegin, sendVars, mboxVars
  <2>2. stack = <<>> \/ stack = <<Frame("user", Target)>>
    BY <1>8, ExitEffect DEF Run, CheckMailbox, StageInv, User
  <2>3. ~Taken(q)
    BY <2>2, FewFrames DEF Taken
  <2> QED
    BY <1>1, <2>1, <2>3, SameNamed
<1>9. CASE CheckReceive \/ CheckDone
  <2>1. UNCHANGED <<pc, job, mbox>> /\ (At("check") \/ At("mdone"))
    BY <1>9 DEF CheckReceive, CheckDone, sendVars
  <2>2. \E at \in {"check", "mdone"} : stack = <<Frame(at, Top)>>
    BY <1>0, <2>1, ShapeTop
  <2>3. ~Taken(q)
    BY <2>2, FewFrames DEF Taken
  <2> QED
    BY <1>1, <2>1, <2>3, SameNamed
<1>10. CASE CheckExecute
  <2>1. UNCHANGED <<pc, job>> /\ mbox' = IF mbox = <<>> THEN mbox ELSE Tail(mbox)
    BY <1>10 DEF CheckExecute, sendVars
  <2>2. ~Taken(q)
    BY <1>0, <1>10, CheckExecuteFrames DEF Taken
  <2>3. CASE mbox = <<>>
    BY <1>1, <2>1, <2>2, <2>3, SameNamed
  <2>4. CASE mbox # <<>>
    <3>1. \A x : Named(x)' <=> Named(x) /\ x # Head(mbox)
      BY <1>0, <2>1, <2>4, TailNamed
    <3>2. \A x : x = Head(mbox) => Taken(x)'
      BY <1>0, <1>10, <2>4, CheckExecuteFrames DEF Taken
    <3> QED
      BY <1>1, <2>1, <2>2, <3>1, <3>2
  <2> QED
    BY <2>3, <2>4
<1>11. CASE ShutdownCancel
  <2>1. UNCHANGED <<pc, job>> /\ mbox' = IF mbox = <<>> THEN mbox ELSE Tail(mbox)
    BY <1>11 DEF ShutdownCancel, sendVars
  <2>2. ~Taken(q)
    BY <1>0, <1>11, ShutdownCancelFrames DEF Taken
  <2>3. CASE mbox = <<>>
    BY <1>1, <2>1, <2>2, <2>3, SameNamed
  <2>4. CASE mbox # <<>>
    <3>1. \A x : Named(x)' <=> Named(x) /\ x # Head(mbox)
      BY <1>0, <2>1, <2>4, TailNamed
    <3>2. \A x : x = Head(mbox) => Taken(x)'
      BY <1>0, <1>11, <2>4, ShutdownCancelFrames DEF Taken
    <3> QED
      BY <1>1, <2>1, <2>2, <3>1, <3>2
  <2> QED
    BY <2>3, <2>4
<1>12. CASE Receive
  <2>1. UNCHANGED <<pc, job, mbox>> /\ note' = [note EXCEPT ![Top] = "RECEIVED"]
    BY <1>12 DEF Receive, sendVars, mboxVars
  <2>2. Top \in Queues
    BY <1>0, <1>12, TopType DEF Receive, At
  <2>3. /\ \A x : Taken(x) => x = Top
        /\ \A x : x = Top => OnStack("exec", x)'
    BY <1>0, <1>12, ReceiveFrames DEF Taken
  <2>4. CASE q = Top
    BY <1>0, <2>1, <2>2, <2>3, <2>4 DEF QueueTypes
  <2>5. CASE q # Top
    BY <1>1, <2>1, <2>3, <2>5, SameNamed
  <2> QED
    BY <2>4, <2>5
<1>13. CASE ReceiveDone
  <2>1. UNCHANGED <<pc, job, mbox>>
    BY <1>13 DEF ReceiveDone, sendVars, mboxVars
  <2>2. ~Taken(q)
    BY <1>0, <1>13, ReceiveDoneFrames DEF Taken
  <2> QED
    BY <1>1, <2>1, <2>2, SameNamed
<1>14. CASE Execute \/ Return
  <2>1. UNCHANGED <<pc, job, mbox>>
    BY <1>14 DEF Execute, Return, sendVars, mboxVars
  <2>2. Taken(q) => Taken(q)'
    <3>1. CASE Execute
      BY <1>0, <3>1, ExecuteFrames DEF Taken
    <3>2. CASE Return
      BY <1>0, <3>2, ReturnsFrames DEF Taken
    <3> QED
      BY <1>14, <3>1, <3>2
  <2> QED
    BY <1>1, <2>1, <2>2, SameNamed
<1>15. CASE CancelQueue
  <2>1. UNCHANGED <<pc, job, mbox>>
    BY <1>15 DEF CancelQueue, sendVars, mboxVars
  <2>2. Top \in Queues /\ \A x : Taken(x) => x = Top
    BY <1>0, <1>15, TopType, CancelQueueFrames DEF CancelQueue, At, Taken
  <2>3. CASE tq[Top] # <<>>
    <3>1. Taken(q)' <=> Taken(q)
      BY <1>0, <1>15, <2>3, CancelQueueFrames DEF Taken
    <3> QED
      BY <1>1, <2>1, <3>1, SameNamed
  <2>4. CASE tq[Top] = <<>> /\ q # Top
    BY <1>1, <2>1, <2>2, <2>4, SameNamed
  <2>5. CASE tq[Top] = <<>> /\ q = Top
    <3>1. tq' = tq /\ note' = [note EXCEPT ![Top] = "NONE"]
      BY <1>15, <2>5 DEF CancelQueue
    <3> QED
      BY <1>0, <2>2, <2>5, <3>1 DEF QueueTypes
  <2> QED
    BY <2>3, <2>4, <2>5
<1> QED
  BY <1>3, <1>4, <1>5, <1>6, <1>7, <1>8, <1>9, <1>10, <1>11, <1>12, <1>13, <1>14, <1>15
  DEF Next, TargetStep

\* A notification becomes pending only by the exchange in em_task_queue_send.
LEMMA PendingBegins ==
  ASSUME TypeOK, QueueInv, TaskInv, Next, NEW q \in Queues,
         note[q] # "PENDING", note'[q] = "PENDING"
  PROVE  \E s \in Threads : SendNotify(s) /\ job[s].queue = q
<1>0. QueueTypes /\ SendTypes /\ stack \in Seq(Frames)
  BY DEF TypeOK, TargetTypes
<1>1. note' # note
  OBVIOUS
<1>2. ASSUME NEW s \in Threads, Send(s)
      PROVE  \E r \in Threads : SendNotify(r) /\ job[r].queue = q
  <2>1. SendNotify(s)
    BY <1>1, <1>2 DEF Send, SendRef, SendEnqueue, MailboxEnqueue, MailboxNotify, MailboxWake,
       SendUnref, SendFutexWake, queueVars
  <2>2. note' = [note EXCEPT ![job[s].queue] = "PENDING"]
    BY <2>1 DEF SendNotify
  <2>3. job[s].queue = q
    BY <1>0, <2>2 DEF QueueTypes
  <2> QED
    BY <2>1, <2>3
<1>3. ASSUME NEW x \in Queues, CreateQueue(x) PROVE FALSE
  BY <1>3, CreateEffect
<1>4. ASSUME NEW x \in Queues, DestroyQueue(x) \/ ExecuteQueue(x) PROVE FALSE
  BY <1>1, <1>4 DEF DestroyQueue, ExecuteQueue
<1>5. ASSUME Receive \/ ReceiveDone \/ CancelQueue PROVE FALSE
  <2>1. /\ At("recv") \/ At("rdone") \/ At("cancel")
        /\ \/ note' = [note EXCEPT ![Top] = "RECEIVED"]
           \/ note' = [note EXCEPT ![Top] = IF @ = "RECEIVED" THEN "NONE" ELSE @]
           \/ note' = [note EXCEPT ![Top] = "NONE"]
           \/ note' = note
    BY <1>5 DEF Receive, ReceiveDone, CancelQueue
  <2> QED
    BY <1>0, <2>1 DEF QueueTypes
<1>6. ASSUME Spawn \/ RoutePost \/ ExitBegin \/ FreeData \/ Recreate PROVE FALSE
  BY <1>1, <1>6 DEF Spawn, RoutePost, ExitBegin, FreeData, Recreate, queueVars
<1>7. ASSUME TargetStep, ~Receive, ~ReceiveDone, ~CancelQueue PROVE FALSE
  BY <1>1, <1>7 DEF TargetStep, Run, CheckMailbox, CheckReceive, CheckExecute, CheckDone,
     Execute, Return, ShutdownWait, ShutdownCancel, ShutdownDestroy, queueVars
<1> QED
  BY <1>2, <1>3, <1>4, <1>5, <1>6, <1>7 DEF Next

\* The sender that finds the notification not pending goes on to send a message.
LEMMA NotifySends ==
  ASSUME TypeOK, NEW s \in Threads, SendNotify(s), NEW q, job[s].queue = q, note[q] # "PENDING"
  PROVE  Sends(s, q)'
  BY DEF TypeOK, SendTypes, SendNotify, Sends

\* A pending notification is in someone's hands.
LEMMA PendingStep ==
  ASSUME TypeOK, TypeOK', QueueInv, StageInv, TaskInv, PendingInv, Next
  PROVE  PendingInv'
<1> SUFFICES ASSUME NoExitInTask', NEW q \in Queues, note'[q] = "PENDING"
             PROVE  Hands(q)'
  BY DEF PendingInv, Hands
<1>1. NoExitInTask
  BY ExitedStays
<1>2. CASE note[q] = "PENDING"
  <2>1. Hands(q)
    BY <1>1, <1>2 DEF PendingInv, Hands
  <2> QED
    BY <2>1, HandsStep
<1>3. CASE note[q] # "PENDING"
  <2>1. PICK s \in Threads : SendNotify(s) /\ job[s].queue = q
    BY <1>3, PendingBegins
  <2>2. Sends(s, q)'
    BY <1>3, <2>1, NotifySends
  <2> QED
    BY <2>2 DEF Hands
<1> QED
  BY <1>2, <1>3

\* Work enters a queue only from a sender, which has yet to notify.
LEMMA WorkBegins ==
  ASSUME TypeOK, TypeOK', QueueInv, StageInv, TaskInv, Next, NEW q \in Queues,
         tq[q] = <<>>, tq'[q] # <<>>
  PROVE  \E s \in Threads : Notifies(s, q)'
<1>0. QueueTypes /\ SendTypes
  BY DEF TypeOK
<1>1. \A t : ~InQueue(t, q)
  BY SameQueues
<1>2. PICK t \in Tasks : InQueue(t, q)'
  <2>1. QueueTypes'
    BY DEF TypeOK
  <2>2. 1 \in DOMAIN tq'[q] /\ tq'[q][1] \in Tasks
    BY <2>1 DEF QueueTypes
  <2> QED
    BY <2>2 DEF InQueue
<1>3. CASE Quiet
  BY <1>3, QuietEffect
<1>4. CASE BeginTask
  BY <1>1, <1>2, <1>4, BeginEffect
<1>5. CASE EndTask
  BY <1>5, EndEffect
<1>6. CASE CancelTask
  BY <1>1, <1>2, <1>6, CancelEffect
<1>7. CASE ExitBegin
  BY <1>7, ExitEffect
<1>8. ASSUME NEW x \in Queues, CreateQueue(x) PROVE FALSE
  BY <1>8, CreateEffect
<1>9. ASSUME NEW s \in Threads, SendEnqueue(s) PROVE \E r \in Threads : Notifies(r, q)'
  <2>1. /\ job' = job
        /\ tq' = tq \/ ( /\ tq' = [tq EXCEPT ![job[s].queue] = Append(@, job[s].task)]
                         /\ pc' = [pc EXCEPT ![s] = "notify"])
    BY <1>9 DEF SendEnqueue
  <2>2. job[s].queue = q /\ pc' = [pc EXCEPT ![s] = "notify"]
    BY <1>0, <2>1 DEF QueueTypes
  <2>3. Notifies(s, q)'
    BY <1>0, <2>1, <2>2 DEF SendTypes, Notifies
  <2> QED
    BY <2>3
<1>10. ASSUME NEW s \in Threads, NEW x \in Queues, NEW y \in Tasks, SendRef(s, x, y) PROVE FALSE
  BY <1>10, RefTask
<1> QED
  BY <1>3, <1>4, <1>5, <1>6, <1>7, <1>8, <1>9, <1>10, NextCases

\* A sender moves on by its own steps only.
LEMMA StaysOrSends ==
  ASSUME SendTypes, Next, NEW s \in Threads
  PROVE  (pc'[s] = pc[s] /\ job'[s] = job[s]) \/ Send(s)
<1>1. CASE UNCHANGED <<pc, job>>
  BY <1>1
<1>2. ASSUME NEW r \in Threads, Send(r)
      PROVE  (pc'[s] = pc[s] /\ job'[s] = job[s]) \/ Send(s)
  BY <1>2, OthersMove
<1>3. CASE \E x \in Queues : CreateQueue(x) \/ DestroyQueue(x) \/ ExecuteQueue(x)
  BY <1>1, <1>3 DEF CreateQueue, DestroyQueue, ExecuteQueue, sendVars
<1>4. CASE Spawn \/ RoutePost \/ ExitBegin \/ FreeData \/ Recreate
  BY <1>1, <1>4 DEF Spawn, RoutePost, ExitBegin, FreeData, Recreate, sendVars
<1>5. CASE TargetStep
  BY <1>1, <1>5 DEF TargetStep, Run, CheckMailbox, CheckReceive, CheckExecute, CheckDone,
     Receive, ReceiveDone, Execute, Return, ShutdownWait, ShutdownCancel, CancelQueue,
     ShutdownDestroy, sendVars
<1> QED
  BY <1>2, <1>3, <1>4, <1>5 DEF Next

\* Where a sender is decides which step it takes.
LEMMA StepAtPlace ==
  ASSUME NEW s \in Threads, Send(s)
  PROVE  /\ pc[s] = "notify" => SendNotify(s)
         /\ pc[s] = "mnotify" => MailboxNotify(s)
         /\ pc[s] = "wake" => MailboxWake(s)
         /\ ~Holds(s) => (\E q \in Queues, t \in Tasks : SendRef(s, q, t)) \/ SendFutexWake(s)
  BY DEF Send, SendRef, SendEnqueue, SendNotify, MailboxEnqueue, MailboxNotify, MailboxWake,
     SendUnref, SendFutexWake, Step, CanCall, Holds, InSend

\* A sender stays where it has to notify until it does.
LEMMA NotifiesStep ==
  ASSUME TypeOK, Next, NEW s \in Threads, NEW q \in Queues, Notifies(s, q)
  PROVE  Notifies(s, q)' \/ SendNotify(s)
  BY StaysOrSends, StepAtPlace DEF TypeOK, Notifies

\* The loop that executes a queue ends only when it has found it empty, unless a task
\* exits the thread.
LEMMA ExecStep ==
  ASSUME TypeOK, TypeOK', QueueInv, StageInv, TaskInv, Next, NoExitInTask',
         NEW q \in Queues, OnStack("exec", q), tq[q] # <<>>
  PROVE  OnStack("exec", q)'
<1>0. stack \in Seq(Frames) /\ StackShape /\ SendTypes
  BY DEF TypeOK, TargetTypes, QueueInv
<1>1. ASSUME UNCHANGED stack
      PROVE  OnStack("exec", q)'
  BY <1>0, <1>1, SameFrames
<1>2. ASSUME NEW s \in Threads, Send(s)
      PROVE  OnStack("exec", q)'
  BY <1>0, <1>1, <1>2, SenderSteps
<1>3. CASE (\E x \in Queues : CreateQueue(x) \/ DestroyQueue(x)) \/ Spawn \/ RoutePost
           \/ FreeData \/ Recreate \/ ShutdownWait \/ ShutdownDestroy
  BY <1>1, <1>3 DEF CreateQueue, DestroyQueue, Spawn, RoutePost, FreeData, Recreate,
     ShutdownWait, ShutdownDestroy, targetVars
<1>4. ASSUME NEW x \in Queues, ExecuteQueue(x)
      PROVE  OnStack("exec", q)'
  BY <1>0, <1>4, ExecuteQueueFrames
<1>5. CASE Run \/ CheckMailbox \/ ExitBegin
  <2>1. stack = <<>> \/ stack = <<Frame("user", Target)>>
    BY <1>5, ExitEffect DEF Run, CheckMailbox, StageInv, User
  <2> QED
    BY <2>1, FewFrames
<1>6. CASE CheckReceive \/ CheckDone
  <2>1. At("check") \/ At("mdone")
    BY <1>6 DEF CheckReceive, CheckDone
  <2>2. \E at \in {"check", "mdone"} : stack = <<Frame(at, Top)>>
    BY <1>0, <2>1, ShapeTop
  <2> QED
    BY <2>2, FewFrames
<1>7. CASE CheckExecute \/ Receive \/ ReceiveDone \/ ShutdownCancel \/ CancelQueue
  <2>1. CASE CheckExecute
    BY <1>0, <2>1, CheckExecuteFrames
  <2>2. CASE Receive \/ ReceiveDone
    BY <1>0, <2>2, ReceiveFrames, ReceiveDoneFrames
  <2>3. CASE ShutdownCancel \/ CancelQueue
    BY <1>0, <2>3, ShutdownCancelFrames, CancelQueueFrames
  <2> QED
    BY <1>7, <2>1, <2>2, <2>3
<1>8. CASE Execute
  <2>1. CASE tq[Top] = <<>>
    <3>1. \A at, of : OnStack(at, of) <=> OnStack(at, of)' \/ (at = "exec" /\ of = Top)
      BY <1>0, <1>8, <2>1, ExecuteFrames
    <3> QED
      BY <2>1, <3>1
  <2>2. CASE tq[Top] # <<>>
    BY <1>0, <1>8, <2>2, ExecuteFrames
  <2> QED
    BY <2>1, <2>2
<1>9. CASE Return
  BY <1>0, <1>9, ReturnsFrames
<1> QED
  BY <1>2, <1>3, <1>4, <1>5, <1>6, <1>7, <1>8, <1>9 DEF Next, TargetStep

\* Work in a queue stays on its way: from the sender that has to notify, to the
\* notification, to the handler that executes or cancels the queue until it is empty.
LEMMA StrandedStep ==
  ASSUME TypeOK, TypeOK', QueueInv, StageInv, TaskInv, PendingInv, NoStrandedTask, Next
  PROVE  NoStrandedTask'
<1> SUFFICES ASSUME NEW q \in Queues, tq'[q] # <<>>, NoExitInTask'
             PROVE  \/ Hands(q)'
                    \/ \E s \in Threads : Notifies(s, q)'
                    \/ OnStack("exec", q)'
  BY DEF NoStrandedTask, Hands, Named, Taken, Sends, Notifies
<1>1. NoExitInTask
  BY ExitedStays
<1>2. CASE tq[q] = <<>>
  BY <1>2, WorkBegins
<1>3. CASE tq[q] # <<>>
  <2>1. Hands(q) \/ (\E s \in Threads : Notifies(s, q)) \/ OnStack("exec", q)
    BY <1>1, <1>3 DEF NoStrandedTask, Hands, Named, Taken, Sends, Notifies
  <2>2. CASE Hands(q)
    BY <2>2, HandsStep
  <2>3. ASSUME NEW s \in Threads, Notifies(s, q)
        PROVE  Hands(q)' \/ Notifies(s, q)'
    <3>1. CASE SendNotify(s) /\ note[q] # "PENDING"
      BY <2>3, <3>1, NotifySends DEF Hands, Notifies
    <3>2. CASE SendNotify(s) /\ note[q] = "PENDING"
      <4>1. Hands(q)
        BY <1>1, <3>2 DEF PendingInv, Hands
      <4> QED
        BY <3>2, <4>1, HandsSend DEF Send
    <3> QED
      BY <2>3, <3>1, <3>2, NotifiesStep
  <2>4. CASE OnStack("exec", q)
    BY <1>3, <2>4, ExecStep
  <2> QED
    BY <2>1, <2>2, <2>3, <2>4
<1> QED
  BY <1>2, <1>3

-----------------------------------------------------------------------------
(***************************************************************************)
(* What became of the tasks                                                *)
(***************************************************************************)
\* A queue that a new one can take the place of is empty.
LEMMA CreatedEmpty ==
  ASSUME TypeOK, QueueInv, TaskInv, NoStrandedTask, NoExitInTask,
         NEW q \in Queues, CreateQueue(q)
  PROVE  tq' = tq
<1>1. ~Named(q) /\ ~Taken(q) /\ ~Sending(q) /\ ~OnStack("exec", q)
  BY CreateEffect
<1>2. tq[q] = <<>>
  BY <1>1 DEF NoStrandedTask, Named, Taken, Sending, Holds, InSend
<1>3. tq' = [tq EXCEPT ![q] = <<>>] \/ tq' = tq
  BY Zenon DEF CreateQueue
<1> QED
  BY <1>2, <1>3 DEF TypeOK, QueueTypes

\* A thread that has shut its mailbox down is sent nothing and holds nothing.
LEMMA ClosedEmpty ==
  ASSUME TypeOK, RefcountInv, StageInv, NoStrandedTask, NoExitInTask,
         stage \in {"closed", "freed"}
  PROVE  /\ \A s \in Threads, t \in Tasks : ~Enqueues(s, t)
         /\ \A q \in Queues : tq[q] = <<>> /\ \A t : ~InQueue(t, q)
         /\ \A at, of : ~OnStack(at, of)
<1>1. \A at, of : ~OnStack(at, of)
  BY FewFrames DEF StageInv
<1>2. \A s \in Threads : ~Holds(s)
  <2>1. refcount = 0
    BY DEF RefcountInv
  <2> QED
    BY <2>1, CountPositive DEF Holders
<1>3. mbox = <<>>
  BY DEF StageInv
<1>4. ASSUME NEW q \in Queues PROVE tq[q] = <<>>
  <2>1. ~\E i \in DOMAIN mbox : mbox[i] = q
    BY <1>3
  <2>2. \A s \in Threads : pc[s] \notin {"notify", "msend"}
    BY <1>2 DEF Holds, InSend
  <2> QED
    BY <1>1, <2>1, <2>2 DEF NoStrandedTask
<1> QED
  BY <1>1, <1>2, <1>4, SameQueues DEF Enqueues, Holds, InSend

\* Where a task's status says it is.
Held(t) ==
    /\ status[t] = "sending" => \E s \in Threads : Enqueues(s, t)
    /\ status[t] = "queued" => \E q \in Queues : InQueue(t, q)
    /\ status[t] = "running" => OnStack("task", t)

\* A task is where its status says, unless a task has exited the thread.
LEMMA HeldStep ==
  ASSUME TypeOK, TypeOK', QueueInv, StageInv, TaskInv, NoStrandedTask, HeldInv, Next
  PROVE  HeldInv'
<1> SUFFICES ASSUME NoExitInTask', NEW t \in Tasks PROVE Held(t)'
  BY DEF HeldInv, Held
<1>0. NoExitInTask /\ Held(t)
  BY ExitedStays DEF HeldInv, Held
<1>1. CASE Quiet
  <2>1. \A q : InQueue(t, q)' <=> InQueue(t, q)
    BY <1>1, QuietEffect, SameQueues
  <2> QED
    BY <1>0, <1>1, <2>1, QuietEffect DEF Held
<1>2. CASE BeginTask
  <2>1. PICK q, x : q = Top /\ x = Head(tq[q])
    OBVIOUS
  <2>2. /\ UNCHANGED <<pc, job>>
        /\ status'[t] = IF t = x THEN "running" ELSE status[t]
        /\ \A r \in Queues : InQueue(t, r)' <=> InQueue(t, r) /\ t # x
        /\ OnStack("task", t)' <=> OnStack("task", t) \/ t = x
    BY <1>2, <2>1, BeginEffect
  <2> QED
    BY <1>0, <2>2, SameSenders DEF Held
<1>3. CASE EndTask
  <2>1. PICK x : x = Top
    OBVIOUS
  <2>2. /\ UNCHANGED <<pc, job, tq>>
        /\ status'[t] = IF t = x THEN "done" ELSE status[t]
        /\ OnStack("task", t)' <=> OnStack("task", t) /\ t # x
    BY <1>3, <2>1, EndEffect
  <2> QED
    BY <1>0, <2>2, SameSenders, SameQueues DEF Held
<1>4. CASE CancelTask
  <2>1. PICK q, x : q = Top /\ x = Head(tq[q])
    OBVIOUS
  <2>2. /\ UNCHANGED <<pc, job, stack>>
        /\ status'[t] = IF t = x THEN "canceled" ELSE status[t]
        /\ \A r \in Queues : InQueue(t, r)' <=> InQueue(t, r) /\ t # x
    BY <1>4, <2>1, CancelEffect
  <2>3. OnStack("task", t)' <=> OnStack("task", t)
    BY <2>2 DEF OnStack
  <2> QED
    BY <1>0, <2>2, <2>3, SameSenders DEF Held
<1>5. CASE ExitBegin
  <2>1. /\ UNCHANGED <<pc, job, tq>>
        /\ status'[t] = "exited" \/ status'[t] = status[t]
        /\ stack = <<>> \/ stack = <<Frame("user", Target)>>
    BY <1>5, ExitEffect DEF User
  <2>2. ~OnStack("task", t)
    BY <2>1, FewFrames
  <2> QED
    BY <1>0, <2>1, <2>2, SameSenders, SameQueues DEF Held
<1>6. ASSUME NEW q \in Queues, CreateQueue(q) PROVE Held(t)'
  <2>1. UNCHANGED <<pc, job, tq, stack, status>>
    BY <1>0, <1>6, CreateEffect, CreatedEmpty
  <2>2. OnStack("task", t)' <=> OnStack("task", t)
    BY <2>1 DEF OnStack
  <2> QED
    BY <1>0, <2>1, <2>2, SameSenders, SameQueues DEF Held
<1>7. ASSUME NEW s \in Threads, SendEnqueue(s) PROVE Held(t)'
  <2>1. PICK q, x : q = job[s].queue /\ x = job[s].task
    OBVIOUS
  <2>2. /\ q \in Queues /\ x \in Tasks
        /\ UNCHANGED stack
        /\ \A r \in Threads : Enqueues(r, t)' <=> Enqueues(r, t) /\ r # s
        /\ t # x => status'[t] = status[t]
        /\ \/ /\ status'[x] = "queued"
              /\ \A r \in Queues : InQueue(t, r)' <=> InQueue(t, r) \/ (r = q /\ t = x)
           \/ status'[x] = "refused" /\ tq' = tq
    BY <1>7, <2>1, EnqueueTask
  <2>3. t # x => ~Enqueues(s, t)
    BY <2>1 DEF Enqueues
  <2>4. OnStack("task", t)' <=> OnStack("task", t)
    BY <2>2 DEF OnStack
  <2>5. \A r \in Queues : InQueue(t, r) => InQueue(t, r)'
    BY <2>2, SameQueues
  <2> QED
    BY <1>0, <2>2, <2>3, <2>4, <2>5 DEF Held
<1>8. ASSUME NEW s \in Threads, NEW q \in Queues, NEW x \in Tasks, SendRef(s, q, x)
      PROVE  Held(t)'
  <2>1. /\ UNCHANGED <<stack, tq>>
        /\ \A r \in Threads : Enqueues(r, t)' <=> Enqueues(r, t) \/ (refcount # 0 /\ r = s /\ t = x)
        /\ t # x => status'[t] = status[t]
        /\ status'[x] = IF refcount = 0 THEN "refused" ELSE "sending"
    BY <1>8, RefTask
  <2>2. OnStack("task", t)' <=> OnStack("task", t)
    BY <2>1 DEF OnStack
  <2> QED
    BY <1>0, <2>1, <2>2, SameQueues DEF Held
<1> QED
  BY <1>1, <1>2, <1>3, <1>4, <1>5, <1>6, <1>7, <1>8, NextCases

\* Work on its way was sent to the thread that has the struct: a thread is created on
\* it only when the one before has shut down, with nothing on its way.
LEMMA LivesStep ==
  ASSUME TypeOK, TypeOK', RefcountInv, QueueInv, StageInv, TaskInv, NoStrandedTask, LivesInv,
         Next
  PROVE  LivesInv'
<1> SUFFICES ASSUME NoExitInTask', NEW t \in Tasks,
                    \/ \E s \in Threads : Enqueues(s, t)'
                    \/ \E q \in Queues : InQueue(t, q)'
                    \/ OnStack("task", t)'
             PROVE  sentIn'[t] = lives'
  BY DEF LivesInv
<1>0. NoExitInTask
  BY ExitedStays
<1> DEFINE OnItsWay == \/ \E s \in Threads : Enqueues(s, t)
                       \/ \E q \in Queues : InQueue(t, q)
                       \/ OnStack("task", t)
<1>1. ASSUME UNCHANGED <<sentIn, lives>>, OnItsWay
      PROVE  sentIn'[t] = lives'
  BY <1>0, <1>1 DEF LivesInv
<1>2. CASE Quiet
  <2>1. OnItsWay
    <3>1. \A q : InQueue(t, q)' <=> InQueue(t, q)
      BY <1>2, QuietEffect, SameQueues
    <3> QED
      BY <1>2, <3>1, QuietEffect
  <2>2. ~Recreate
    <3>1. Recreate => stage = "freed"
      BY DEF Recreate
    <3> QED
      BY <1>0, <2>1, <3>1, ClosedEmpty
  <2> QED
    BY <1>1, <1>2, <2>1, <2>2, QuietEffect
<1>3. CASE BeginTask
  <2>1. PICK q, x : q = Top /\ x = Head(tq[q])
    OBVIOUS
  <2>2. /\ UNCHANGED <<pc, job, sentIn, lives>> /\ q \in Queues /\ InQueue(x, q)
        /\ \A r \in Queues : InQueue(t, r)' <=> InQueue(t, r) /\ t # x
        /\ OnStack("task", t)' <=> OnStack("task", t) \/ t = x
    BY <1>3, <2>1, BeginEffect
  <2>3. OnItsWay
    BY <2>2, SameSenders
  <2> QED
    BY <1>1, <2>2, <2>3
<1>4. CASE EndTask
  <2>1. PICK x : x = Top
    OBVIOUS
  <2>2. /\ UNCHANGED <<pc, job, tq, sentIn, lives>>
        /\ OnStack("task", t)' <=> OnStack("task", t) /\ t # x
    BY <1>4, <2>1, EndEffect
  <2>3. OnItsWay
    BY <2>2, SameSenders, SameQueues
  <2> QED
    BY <1>1, <2>2, <2>3
<1>5. CASE CancelTask
  <2>1. PICK q, x : q = Top /\ x = Head(tq[q])
    OBVIOUS
  <2>2. /\ UNCHANGED <<pc, job, stack, sentIn, lives>>
        /\ \A r \in Queues : InQueue(t, r)' <=> InQueue(t, r) /\ t # x
    BY <1>5, <2>1, CancelEffect
  <2>3. OnStack("task", t)' <=> OnStack("task", t)
    BY <2>2 DEF OnStack
  <2>4. OnItsWay
    BY <2>2, <2>3, SameSenders
  <2> QED
    BY <1>1, <2>2, <2>4
<1>6. CASE ExitBegin
  <2>1. /\ UNCHANGED <<pc, job, tq, sentIn, lives>>
        /\ ~OnStack("task", t)'
    BY <1>6, ExitEffect
  <2>2. OnItsWay
    BY <2>1, SameSenders, SameQueues
  <2> QED
    BY <1>1, <2>1, <2>2
<1>7. ASSUME NEW q \in Queues, CreateQueue(q) PROVE sentIn'[t] = lives'
  <2>1. UNCHANGED <<pc, job, tq, stack, sentIn, lives>>
    BY <1>0, <1>7, CreateEffect, CreatedEmpty
  <2>2. OnStack("task", t)' <=> OnStack("task", t)
    BY <2>1 DEF OnStack
  <2>3. OnItsWay
    BY <2>1, <2>2, SameSenders, SameQueues
  <2> QED
    BY <1>1, <2>1, <2>3
<1>8. ASSUME NEW s \in Threads, SendEnqueue(s) PROVE sentIn'[t] = lives'
  <2>1. PICK q, x : q = job[s].queue /\ x = job[s].task
    OBVIOUS
  <2>2. /\ UNCHANGED <<stack, sentIn, lives>> /\ Enqueues(s, x)
        /\ \A r \in Threads : Enqueues(r, t)' <=> Enqueues(r, t) /\ r # s
        /\ \/ \A r \in Queues : InQueue(t, r)' <=> InQueue(t, r) \/ (r = q /\ t = x)
           \/ tq' = tq
    BY <1>8, <2>1, EnqueueTask
  <2>3. OnStack("task", t)' <=> OnStack("task", t)
    BY <2>2 DEF OnStack
  <2>4. OnItsWay
    BY <2>2, <2>3, SameQueues
  <2> QED
    BY <1>1, <2>2, <2>4
<1>9. ASSUME NEW s \in Threads, NEW q \in Queues, NEW x \in Tasks, SendRef(s, q, x)
      PROVE  sentIn'[t] = lives'
  <2>1. /\ UNCHANGED <<stack, tq, lives>>
        /\ \A r \in Threads : Enqueues(r, t)' <=> Enqueues(r, t) \/ (refcount # 0 /\ r = s /\ t = x)
        /\ t # x => sentIn'[t] = sentIn[t]
        /\ sentIn'[x] = lives
    BY <1>9, RefTask
  <2>2. OnStack("task", t)' <=> OnStack("task", t)
    BY <2>1 DEF OnStack
  <2>3. t # x => OnItsWay
    BY <2>1, <2>2, SameQueues
  <2> QED
    BY <1>0, <2>1, <2>3 DEF LivesInv
<1> QED
  BY <1>2, <1>3, <1>4, <1>5, <1>6, <1>7, <1>8, <1>9, NextCases

\* When a thread has shut its mailbox down, none of its tasks is left unresolved.
LEMMA HeldResolved ==
  ASSUME TypeOK, RefcountInv, StageInv, NoStrandedTask, HeldInv, NoExitInTask
  PROVE  ShutdownResolvesAll
<1> SUFFICES ASSUME stage \in {"closed", "freed"}, NEW t \in Tasks
             PROVE  status[t] \notin {"sending", "queued", "running"}
  BY DEF ShutdownResolvesAll
<1>1. /\ \A s \in Threads : ~Enqueues(s, t)
      /\ \A q \in Queues : ~InQueue(t, q)
      /\ ~OnStack("task", t)
  BY ClosedEmpty
<1> QED
  BY <1>1 DEF HeldInv

-----------------------------------------------------------------------------
(***************************************************************************)
(* The wake-up of the Target                                               *)
(***************************************************************************)
\* The Target is listening to its mailbox, and what will make it look into it.
Listening == stage \in {"spawned", "running"}

Woken ==
    \/ \E s \in Threads : pc[s] = "wake"
    \/ posts + events > 0
    \/ OnStack("check", Target)

\* The callbacks of the event loop and the messages to it: MailboxWake makes one,
\* RoutePost turns one into another, and only the callback itself uses one up.
LEMMA LoopStep ==
  ASSUME TypeOK, WakeInv, Next, Listening, Listening'
  PROVE  /\ posts + events > 0 => posts' + events' > 0 \/ CheckMailbox
         /\ (\E s \in Threads : MailboxWake(s)) => posts' + events' > 0
         /\ waitingAsync' => armed' + events' > 0
         /\ ~HasWaitAsync => ~waitingAsync'
<1>0. /\ posts \in Nat /\ events \in Nat /\ armed \in Nat
      /\ waitingAsync => armed + events > 0
      /\ ~HasWaitAsync => ~waitingAsync
  BY DEF TypeOK, LoopTypes, WakeInv, Listening
<1>1. CASE UNCHANGED loopVars /\ \A s \in Threads : ~MailboxWake(s)
  BY <1>0, <1>1 DEF loopVars
<1>2. ASSUME NEW s \in Threads, Send(s), ~MailboxWake(s)
      PROVE  UNCHANGED loopVars /\ \A r \in Threads : ~MailboxWake(r)
  <2>1. UNCHANGED loopVars
    BY <1>2 DEF Send, SendRef, SendEnqueue, SendNotify, MailboxEnqueue, MailboxNotify,
       SendUnref, SendFutexWake
  <2>2. ASSUME NEW r \in Threads, MailboxWake(r) PROVE FALSE
    <3>1. UNCHANGED <<stage, refcount, mbox, mboxNote, tq, note, job, status>>
          /\ pc[r] = "wake" /\ pc' = [pc EXCEPT ![r] = "unref"]
      BY <2>2 DEF MailboxWake, Step, targetVars, mboxVars, queueVars, taskVars
    <3>2. r # s /\ pc'[r] = "unref"
      <4>1. r = s => MailboxWake(s)
        BY <2>2
      <4> QED
        BY <1>2, <3>1, <4>1 DEF TypeOK, SendTypes
    <3> QED
      BY <1>2, <3>1, <3>2, OthersMove DEF TypeOK
  <2> QED
    BY <2>1, <2>2
<1>3. ASSUME NEW s \in Threads, MailboxWake(s)
      PROVE  /\ posts' + events' > 0
             /\ waitingAsync' => armed' + events' > 0
             /\ ~HasWaitAsync => ~waitingAsync'
  <2>1. /\ waitingAsync' = waitingAsync
        /\ \/ waitingAsync /\ events' = events + armed /\ armed' = 0 /\ posts' = posts
           \/ ~waitingAsync /\ events' = events + 1 /\ posts' = posts /\ armed' = armed
           \/ ~waitingAsync /\ posts' = posts + 1 /\ events' = events /\ armed' = armed
    BY <1>3 DEF MailboxWake
  <2> QED
    BY <1>0, <2>1
<1>4. ASSUME UNCHANGED <<pc, job>>, NEW s \in Threads
      PROVE  ~MailboxWake(s)
  <2>1. MailboxWake(s) => pc[s] = "wake" /\ pc' = [pc EXCEPT ![s] = "unref"]
    BY DEF MailboxWake, Step
  <2>2. pc \in [Threads -> Place]
    BY DEF TypeOK, SendTypes
  <2> QED
    BY <1>4, <2>1, <2>2
<1>5. CASE \E x \in Queues : CreateQueue(x) \/ DestroyQueue(x) \/ ExecuteQueue(x)
  BY <1>1, <1>4, <1>5 DEF CreateQueue, DestroyQueue, ExecuteQueue, sendVars
<1>6. CASE Spawn \/ ExitBegin
  BY <1>1, <1>4, <1>6 DEF Spawn, ExitBegin, sendVars
<1>7. CASE FreeData \/ Recreate
  BY <1>7 DEF FreeData, Recreate, Listening
<1>8. CASE RoutePost
  <2>1. /\ posts > 0 /\ posts' = posts - 1 /\ events' = events + 1
        /\ UNCHANGED <<waitingAsync, armed, pc, job>>
    BY <1>8 DEF RoutePost, Listening, sendVars
  <2> QED
    BY <1>0, <1>4, <2>1
<1>9. CASE Run
  <2>1. /\ UNCHANGED <<posts, events, pc, job>>
        /\ \/ HasWaitAsync /\ armed' = armed + 1
           \/ ~HasWaitAsync /\ UNCHANGED <<armed, waitingAsync>>
    BY <1>9 DEF Run, Await, sendVars
  <2> QED
    BY <1>0, <1>4, <2>1
<1>10. CASE CheckMailbox
  <2>1. /\ UNCHANGED <<pc, job>> /\ events > 0 /\ events' = events - 1
        /\ \/ HasWaitAsync /\ armed' = armed + 1
           \/ ~HasWaitAsync /\ UNCHANGED <<armed, waitingAsync>>
    BY <1>10 DEF CheckMailbox, Await, sendVars, Listening
  <2> QED
    BY <1>0, <1>4, <1>10, <2>1
<1>11. CASE TargetStep /\ ~Run /\ ~CheckMailbox
  BY <1>1, <1>4, <1>11 DEF TargetStep, CheckReceive, CheckExecute, CheckDone,
     Receive, ReceiveDone, Execute, Return, ShutdownWait, ShutdownCancel, CancelQueue,
     ShutdownDestroy, sendVars
<1>12. ASSUME NEW s \in Threads, Send(s)
       PROVE  /\ posts + events > 0 => posts' + events' > 0 \/ CheckMailbox
              /\ (\E r \in Threads : MailboxWake(r)) => posts' + events' > 0
              /\ waitingAsync' => armed' + events' > 0
              /\ ~HasWaitAsync => ~waitingAsync'
  <2>1. CASE MailboxWake(s)
    BY <1>3, <2>1
  <2>2. CASE ~MailboxWake(s)
    BY <1>1, <1>2, <1>12, <2>2
  <2> QED
    BY <2>1, <2>2
<1> QED
  BY <1>5, <1>6, <1>7, <1>8, <1>9, <1>10, <1>11, <1>12 DEF Next

\* The callback stays in checkMailbox until it has marked the mailbox received, and
\* in the mailbox's loop until it has found the mailbox empty.
LEMMA CheckStep ==
  ASSUME TypeOK, QueueInv, StageInv, Next, Listening, Listening'
  PROVE  /\ OnStack("check", Target) => OnStack("check", Target)' \/ CheckReceive
         /\ OnStack("mexec", Target) /\ mbox # <<>> => OnStack("mexec", Target)'
<1>0. stack \in Seq(Frames) /\ StackShape /\ SendTypes
  BY DEF TypeOK, TargetTypes, QueueInv
<1> DEFINE Goal == /\ OnStack("check", Target) => OnStack("check", Target)' \/ CheckReceive
                   /\ OnStack("mexec", Target) /\ mbox # <<>> => OnStack("mexec", Target)'
<1>1. ASSUME UNCHANGED stack
      PROVE  Goal
  BY <1>0, <1>1, SameFrames
<1>2. ASSUME NEW s \in Threads, Send(s)
      PROVE  Goal
  BY <1>0, <1>1, <1>2, SenderSteps
<1>3. CASE (\E x \in Queues : CreateQueue(x) \/ DestroyQueue(x)) \/ Spawn \/ RoutePost
           \/ FreeData \/ Recreate \/ ShutdownWait \/ ShutdownDestroy
  BY <1>1, <1>3 DEF CreateQueue, DestroyQueue, Spawn, RoutePost, FreeData, Recreate,
     ShutdownWait, ShutdownDestroy, targetVars
<1>4. ASSUME NEW x \in Queues, ExecuteQueue(x)
      PROVE  Goal
  BY <1>0, <1>4, ExecuteQueueFrames
<1>5. CASE Run \/ CheckMailbox
  <2>1. stack = <<>>
    BY <1>5 DEF Run, CheckMailbox, StageInv
  <2> QED
    BY <2>1, FewFrames
<1>6. CASE CheckReceive
  <2>1. \A at, of : OnStack(at, of)' <=> at = "mexec" /\ of = Target
    BY <1>0, <1>6, CheckReceiveFrames
  <2> QED
    BY <1>6, <2>1
<1>7. CASE CheckExecute
  BY <1>0, <1>7, CheckExecuteFrames
<1>8. CASE CheckDone
  <2>1. stack = <<Frame("mdone", Top)>>
    BY <1>0, <1>8, ShapeTop DEF CheckDone
  <2> QED
    BY <2>1, FewFrames
<1>9. CASE Receive
  <2>1. /\ \A at, of : OnStack(at, of) <=> (at = "recv" /\ of = Top)
                                           \/ (at = "mexec" /\ of = Target)
        /\ OnStack("mexec", Target)'
    BY <1>0, <1>9, ReceiveFrames
  <2> QED
    BY <2>1
<1>10. CASE ReceiveDone
  BY <1>0, <1>10, ReceiveDoneFrames
<1>11. CASE Execute
  <2>1. CASE tq[Top] = <<>>
    <3>1. \A at, of : OnStack(at, of) <=> OnStack(at, of)' \/ (at = "exec" /\ of = Top)
      BY <1>0, <1>11, <2>1, ExecuteFrames
    <3> QED
      BY <3>1
  <2>2. CASE tq[Top] # <<>>
    <3>1. \A at, of : OnStack(at, of) => OnStack(at, of)'
      BY <1>0, <1>11, <2>2, ExecuteFrames
    <3> QED
      BY <3>1
  <2> QED
    BY <2>1, <2>2
<1>12. CASE Return
  <2>1. \A at, of : OnStack(at, of) <=> \/ OnStack(at, of)'
                                        \/ at \in {"user", "task"} /\ At(at) /\ of = Top
    BY <1>0, <1>12, ReturnsFrames
  <2> QED
    BY <2>1
<1>13. CASE ExitBegin
  BY <1>13 DEF ExitBegin, Listening
<1>14. CASE ShutdownCancel \/ CancelQueue
  <2>1. CASE ShutdownCancel
    BY <2>1, ShutdownCancelFrames
  <2>2. CASE CancelQueue
    BY <1>0, <2>2, CancelQueueFrames
  <2> QED
    BY <1>14, <2>1, <2>2
<1> QED
  BY <1>2, <1>3, <1>4, <1>5, <1>6, <1>7, <1>8, <1>9, <1>10, <1>11, <1>12, <1>13, <1>14
  DEF Next, TargetStep

\* What will make the Target look into its mailbox stays so until it does.
LEMMA WokenStep ==
  ASSUME TypeOK, QueueInv, StageInv, WakeInv, Next, Listening, Listening', Woken
  PROVE  Woken' \/ CheckReceive
<1>1. SendTypes
  BY DEF TypeOK
<1>2. ASSUME NEW s \in Threads, pc[s] = "wake"
      PROVE  Woken'
  <2>1. CASE Send(s)
    BY <1>2, <2>1, StepAtPlace, LoopStep DEF Woken
  <2>2. CASE pc'[s] = pc[s]
    BY <1>2, <2>2 DEF Woken
  <2> QED
    BY <1>1, <2>1, <2>2, StaysOrSends
<1>3. CASE posts + events > 0
  <2>1. CASE posts' + events' > 0
    BY <2>1 DEF Woken
  <2>2. CASE CheckMailbox
    <3>1. stack' = <<Frame("check", Target)>>
      BY <2>2 DEF CheckMailbox, Listening
    <3>2. OnStack("check", Target)'
      BY <3>1, FewFramesNext
    <3> QED
      BY <3>2 DEF Woken
  <2> QED
    BY <1>3, <2>1, <2>2, LoopStep
<1>4. CASE OnStack("check", Target)
  BY <1>4, CheckStep DEF Woken
<1> QED
  BY <1>2, <1>3, <1>4 DEF Woken

\* A thread that is created is not sent to before CMD_RUN is posted.
LEMMA CreatedStep ==
  ASSUME ~EarlySends, TypeOK, RefcountInv, StageInv, WakeInv, Next, stage' = "created"
  PROVE  mbox' = <<>> /\ mboxNote' = "NONE" /\ Holders' = {} /\ ~waitingAsync'
<1>0. SendTypes /\ stage \in Stage
  BY DEF TypeOK, TargetTypes
<1>1. CASE Recreate
  <2>1. refcount = 0
    BY <1>1 DEF Recreate, RefcountInv
  <2>2. Holders = {}
    BY <2>1, CountPositive
  <2>3. pc' = pc
    BY <1>1 DEF Recreate, sendVars
  <2>4. Holders' = {}
    BY <2>2, <2>3 DEF Holders, Holds
  <2> QED
    BY <1>1, <2>4 DEF Recreate
<1>2. CASE ~Recreate
  <2>1. stage = "created"
    <3>1. CASE \E s \in Threads : Send(s)
      BY <3>1 DEF Send, SendRef, SendEnqueue, SendNotify, MailboxEnqueue, MailboxNotify,
         MailboxWake, SendUnref, SendFutexWake, targetVars
    <3>2. CASE \E x \in Queues : CreateQueue(x) \/ DestroyQueue(x) \/ ExecuteQueue(x)
      BY <3>2 DEF CreateQueue, DestroyQueue, ExecuteQueue, targetVars
    <3>3. CASE Spawn \/ RoutePost \/ ExitBegin \/ FreeData
      BY <3>3 DEF Spawn, RoutePost, ExitBegin, FreeData, targetVars
    <3>4. CASE TargetStep
      BY <3>4 DEF TargetStep, Run, CheckMailbox, CheckReceive, CheckExecute, CheckDone,
         Receive, ReceiveDone, Execute, Return, ShutdownWait, ShutdownCancel, CancelQueue,
         ShutdownDestroy
    <3> QED
      BY <1>2, <3>1, <3>2, <3>3, <3>4 DEF Next
  <2>2. mbox = <<>> /\ mboxNote = "NONE" /\ Holders = {} /\ ~waitingAsync
    BY <2>1 DEF WakeInv
  <2>3. ASSUME NEW s \in Threads, Send(s)
        PROVE  UNCHANGED <<mbox, mboxNote, waitingAsync>> /\ Holders' = {}
    <3>1. SendFutexWake(s)
      <4>1. ~Holds(s)
        BY <2>2 DEF Holders
      <4>2. \A q \in Queues, t \in Tasks : ~SendRef(s, q, t)
        BY <2>1 DEF SendRef
      <4> QED
        BY <2>3, <4>1, <4>2, StepAtPlace
    <3>2. /\ UNCHANGED <<mbox, mboxNote, waitingAsync>>
          /\ pc' = [pc EXCEPT ![s] = "idle"]
      BY <3>1 DEF SendFutexWake, Step, mboxVars, loopVars
    <3>3. \A r \in Threads : Holds(r)' => Holds(r)
      BY <1>0, <3>2 DEF Holds, SendTypes, InSend
    <3> QED
      BY <2>2, <3>2, <3>3 DEF Holders
  <2>4. ASSUME UNCHANGED <<mbox, mboxNote, pc>>, ~waitingAsync'
        PROVE  mbox' = <<>> /\ mboxNote' = "NONE" /\ Holders' = {} /\ ~waitingAsync'
    BY <2>2, <2>4 DEF Holders, Holds
  <2>5. CASE \E x \in Queues : CreateQueue(x) \/ DestroyQueue(x) \/ ExecuteQueue(x)
    BY <2>2, <2>4, <2>5 DEF CreateQueue, DestroyQueue, ExecuteQueue, sendVars, mboxVars,
       loopVars
  <2>6. CASE Spawn \/ RoutePost \/ ExitBegin \/ FreeData
    BY <2>1, <2>2, <2>4, <2>6 DEF Spawn, RoutePost, ExitBegin, FreeData, sendVars, mboxVars,
       loopVars
  <2>7. CASE TargetStep
    <3>1. stack = <<>>
      BY <2>1 DEF StageInv
    <3> QED
      BY <2>1, <2>2, <3>1, <2>7 DEF TargetStep, At, Run, CheckMailbox, CheckReceive,
         CheckExecute, CheckDone, Receive, ReceiveDone, Execute, Return, InUserCode,
         ShutdownWait, ShutdownCancel, CancelQueue, ShutdownDestroy
  <2> QED
    BY <1>2, <2>2, <2>3, <2>5, <2>6, <2>7 DEF Next
<1> QED
  BY <1>1, <1>2

\* A mailbox is notified, and a message put in it, by senders only.
LEMMA MailboxBegins ==
  ASSUME TypeOK, Next, Listening, Listening'
  PROVE  /\ mboxNote' = "PENDING" /\ mboxNote # "PENDING" =>
               \E s \in Threads : pc'[s] = "wake"
         /\ mbox' # <<>> /\ mbox = <<>> => \E s \in Threads : pc'[s] = "mnotify"
<1>0. SendTypes /\ mbox \in Seq(Queues)
  BY DEF TypeOK, MailboxTypes
<1> DEFINE Goal == /\ mboxNote' = "PENDING" /\ mboxNote # "PENDING" =>
                         \E s \in Threads : pc'[s] = "wake"
                   /\ mbox' # <<>> /\ mbox = <<>> => \E s \in Threads : pc'[s] = "mnotify"
<1>1. CASE mboxNote' \in {mboxNote, "RECEIVED", "NONE"} /\ (mbox = <<>> => mbox' = <<>>)
  BY <1>1
<1>2. ASSUME NEW s \in Threads, Send(s) PROVE Goal
  <2>1. CASE MailboxNotify(s)
    BY <1>0, <2>1 DEF MailboxNotify, SendTypes
  <2>2. CASE MailboxEnqueue(s)
    <3>1. mboxNote' = mboxNote /\ pc' = [pc EXCEPT ![s] = "mnotify"]
      BY <2>2 DEF MailboxEnqueue, Step
    <3> QED
      BY <1>0, <3>1 DEF SendTypes
  <2>3. CASE ~MailboxNotify(s) /\ ~MailboxEnqueue(s)
    BY <1>1, <1>2, <2>3 DEF Send, SendRef, SendEnqueue, SendNotify, MailboxWake, SendUnref,
       SendFutexWake, mboxVars
  <2> QED
    BY <2>1, <2>2, <2>3
<1>3. CASE \E x \in Queues : CreateQueue(x) \/ DestroyQueue(x) \/ ExecuteQueue(x)
  BY <1>1, <1>3 DEF CreateQueue, DestroyQueue, ExecuteQueue, mboxVars
<1>4. CASE Spawn \/ RoutePost \/ ExitBegin \/ FreeData \/ Recreate
  BY <1>1, <1>4 DEF Spawn, RoutePost, ExitBegin, FreeData, Recreate, mboxVars
<1>5. CASE TargetStep
  BY <1>1, <1>5 DEF TargetStep, Run, CheckMailbox, CheckReceive, CheckExecute, CheckDone,
     Receive, ReceiveDone, Execute, Return, ShutdownWait, ShutdownCancel, CancelQueue,
     ShutdownDestroy, mboxVars
<1> QED
  BY <1>2, <1>3, <1>4, <1>5 DEF Next

\* A thread begins to listen with an empty mailbox.
LEMMA ListeningBegins ==
  ASSUME TypeOK, WakeInv, Next, ~Listening, Listening'
  PROVE  /\ mbox' = <<>> /\ mboxNote' = "NONE" /\ ~waitingAsync'
<1>0. stage \in Stage /\ SendTypes
  BY DEF TypeOK, TargetTypes
<1>1. Spawn
  <2>1. CASE \E s \in Threads : Send(s)
    BY <2>1 DEF Send, SendRef, SendEnqueue, SendNotify, MailboxEnqueue, MailboxNotify,
       MailboxWake, SendUnref, SendFutexWake, targetVars, Listening
  <2>2. CASE \E x \in Queues : CreateQueue(x) \/ DestroyQueue(x) \/ ExecuteQueue(x)
    BY <2>2 DEF CreateQueue, DestroyQueue, ExecuteQueue, targetVars, Listening
  <2>3. CASE Spawn \/ RoutePost \/ ExitBegin \/ FreeData \/ Recreate
    BY <2>3 DEF RoutePost, ExitBegin, FreeData, Recreate, targetVars, Listening
  <2>4. CASE TargetStep
    BY <2>4 DEF TargetStep, Run, CheckMailbox, CheckReceive, CheckExecute, CheckDone,
       Receive, ReceiveDone, Execute, Return, ShutdownWait, ShutdownCancel, CancelQueue,
       ShutdownDestroy, Listening
  <2> QED
    BY <2>1, <2>2, <2>3, <2>4 DEF Next
<1> QED
  BY <1>1 DEF Spawn, WakeInv, mboxVars, loopVars

\* The polyfill's flag is never set without the polyfilled function.
LEMMA FlagStep ==
  ASSUME TypeOK, WakeInv, Next, ~HasWaitAsync
  PROVE  ~waitingAsync'
<1>1. ~waitingAsync
  BY DEF WakeInv
<1>2. CASE \E s \in Threads : Send(s)
  BY <1>1, <1>2 DEF Send, SendRef, SendEnqueue, SendNotify, MailboxEnqueue, MailboxNotify,
     MailboxWake, SendUnref, SendFutexWake, loopVars
<1>3. CASE \E x \in Queues : CreateQueue(x) \/ DestroyQueue(x) \/ ExecuteQueue(x)
  BY <1>1, <1>3 DEF CreateQueue, DestroyQueue, ExecuteQueue, loopVars
<1>4. CASE Spawn \/ RoutePost \/ ExitBegin \/ FreeData \/ Recreate
  BY <1>1, <1>4 DEF Spawn, RoutePost, ExitBegin, FreeData, Recreate, loopVars
<1>5. CASE TargetStep
  BY <1>1, <1>5 DEF TargetStep, Run, Await, CheckMailbox, CheckReceive, CheckExecute, CheckDone,
     Receive, ReceiveDone, Execute, Return, ShutdownWait, ShutdownCancel, CancelQueue,
     ShutdownDestroy, loopVars
<1> QED
  BY <1>2, <1>3, <1>4, <1>5 DEF Next

\* A mailbox that is notified has its wake-up on the way.
LEMMA WakeStep ==
  ASSUME ~EarlySends, TypeOK, RefcountInv, QueueInv, StageInv, WakeInv, Next
  PROVE  WakeInv'
<1>1. ~HasWaitAsync => ~waitingAsync'
  BY FlagStep
<1>2. stage' = "created" => mbox' = <<>> /\ mboxNote' = "NONE" /\ Holders' = {} /\ ~waitingAsync'
  BY CreatedStep
<1>3. ASSUME Listening', waitingAsync' PROVE armed' + events' > 0
  BY <1>3, ListeningBegins, LoopStep
<1>4. ASSUME Listening', mboxNote' = "PENDING" PROVE Woken'
  <2>1. CASE ~Listening
    BY <1>4, <2>1, ListeningBegins
  <2>2. CASE Listening /\ mboxNote # "PENDING"
    BY <1>4, <2>2, MailboxBegins DEF Woken
  <2>3. CASE Listening /\ mboxNote = "PENDING"
    <3>1. Woken
      BY <2>3 DEF WakeInv, Listening, Woken
    <3>2. ~CheckReceive
      BY <1>4 DEF CheckReceive
    <3> QED
      BY <1>4, <2>3, <3>1, <3>2, WokenStep
  <2> QED
    BY <2>1, <2>2, <2>3
<1> QED
  BY <1>1, <1>2, <1>3, <1>4 DEF WakeInv, Listening, Woken

\* A message in the mailbox of a thread that listens stays on its way to be received.
LEMMA LostStep ==
  ASSUME ~EarlySends, TypeOK, RefcountInv, QueueInv, StageInv, WakeInv, NoLostWakeup, Next
  PROVE  NoLostWakeup'
<1> SUFFICES ASSUME mbox' # <<>>, Listening'
             PROVE  \/ \E s \in Threads : pc'[s] = "mnotify"
                    \/ Woken'
                    \/ OnStack("mexec", Target)'
  BY DEF NoLostWakeup, Listening, Woken
<1>1. Listening
  BY ListeningBegins
<1>2. CASE mbox = <<>>
  BY <1>1, <1>2, MailboxBegins
<1>3. CASE mbox # <<>>
  <2>0. SendTypes
    BY DEF TypeOK
  <2>1. \/ \E s \in Threads : pc[s] = "mnotify"
        \/ Woken
        \/ OnStack("mexec", Target)
    BY <1>1, <1>3 DEF NoLostWakeup, Listening, Woken
  <2>2. ASSUME Woken PROVE Woken' \/ OnStack("mexec", Target)'
    <3>1. CASE CheckReceive
      <4>1. stack \in Seq(Frames) /\ StackShape
        BY DEF TypeOK, TargetTypes, QueueInv
      <4> QED
        BY <3>1, <4>1, CheckReceiveFrames
    <3> QED
      BY <1>1, <2>2, <3>1, WokenStep
  <2>3. ASSUME NEW s \in Threads, pc[s] = "mnotify"
        PROVE  pc'[s] = "mnotify" \/ Woken' \/ OnStack("mexec", Target)'
    <3>1. CASE MailboxNotify(s) /\ mboxNote = "PENDING"
      <4>1. Woken
        BY <1>1, <3>1 DEF WakeInv, Listening, Woken
      <4> QED
        BY <2>2, <4>1
    <3>2. CASE MailboxNotify(s) /\ mboxNote # "PENDING"
      <4>1. pc'[s] = "wake"
        BY <2>0, <3>2 DEF MailboxNotify, SendTypes
      <4> QED
        BY <4>1 DEF Woken
    <3> QED
      BY <2>0, <2>3, <3>1, <3>2, StaysOrSends, StepAtPlace
  <2>4. OnStack("mexec", Target) => OnStack("mexec", Target)'
    BY <1>1, <1>3, CheckStep
  <2> QED
    BY <2>1, <2>2, <2>3, <2>4
<1> QED
  BY <1>2, <1>3

-----------------------------------------------------------------------------
(***************************************************************************)
(* The invariants                                                          *)
(***************************************************************************)
\* What holds of the work on its way, in every behaviour.
WorkInv == StageInv /\ TaskInv /\ PendingInv /\ NoStrandedTask /\ HeldInv /\ LivesInv

\* At first there is no work, no frame and no message.
LEMMA WorkInit == Init => WorkInv
<1> SUFFICES ASSUME Init PROVE WorkInv
  OBVIOUS
<1>1. /\ stack = <<>> /\ mbox = <<>> /\ stage = "created"
      /\ \A q \in Queues : tq[q] = <<>> /\ note[q] = "NONE"
      /\ \A s \in Threads : pc[s] = "idle"
      /\ \A t \in Tasks : status[t] = "new"
  BY DEF Init
<1>2. /\ \A at, of : ~OnStack(at, of)
      /\ \A q \in Queues : Distinct(tq[q]) /\ \A t : ~InQueue(t, q)
      /\ \A s \in Threads, t \in Tasks : ~Enqueues(s, t)
      /\ TaskOnce
  BY <1>1, FewFrames DEF Distinct, InQueue, Enqueues, TaskOnce
<1>3. StageInv
  BY <1>1, <1>2 DEF StageInv
<1>4. TaskInv
  BY <1>2 DEF TaskInv
<1>5. PendingInv /\ NoStrandedTask /\ HeldInv
  BY <1>1 DEF PendingInv, NoStrandedTask, HeldInv
<1>6. LivesInv
  BY <1>2 DEF LivesInv
<1> QED
  BY <1>3, <1>4, <1>5, <1>6 DEF WorkInv

\* A step that changes nothing keeps all of it.
LEMMA WorkStutter ==
  ASSUME WorkInv, UNCHANGED vars
  PROVE  WorkInv'
<1>1. UNCHANGED <<stage, stack, mbox, tq, note, pc, job, status, sentIn, lives>>
  BY DEF vars, targetVars, mboxVars, queueVars, sendVars, taskVars
<1>2. StageInv'
  BY <1>1 DEF WorkInv, StageInv, OnStack
<1>3. TaskInv'
  BY <1>1 DEF WorkInv, TaskInv, OnStack, InQueue, Enqueues, Distinct, TaskOnce
<1>4. PendingInv'
  BY <1>1 DEF WorkInv, PendingInv, NoExitInTask, Named, Taken, Sends, OnStack
<1>5. NoStrandedTask'
  BY <1>1 DEF WorkInv, NoStrandedTask, NoExitInTask, OnStack
<1>6. HeldInv'
  BY <1>1 DEF WorkInv, HeldInv, NoExitInTask, OnStack, InQueue, Enqueues
<1>7. LivesInv'
  BY <1>1 DEF WorkInv, LivesInv, NoExitInTask, OnStack, InQueue, Enqueues
<1> QED
  BY <1>2, <1>3, <1>4, <1>5, <1>6, <1>7 DEF WorkInv

\* Every task is in one place, the place its status names, and work on its way has
\* somebody to carry it, in every behaviour.
THEOREM WorkInvariant == Spec => []WorkInv
<1>1. Init => WorkInv
  BY WorkInit
<1>2. TypeOK /\ TypeOK' /\ RefcountInv /\ QueueInv /\ WorkInv /\ [Next]_vars => WorkInv'
  <2> SUFFICES ASSUME TypeOK, TypeOK', RefcountInv, QueueInv, WorkInv, [Next]_vars
               PROVE  WorkInv'
    OBVIOUS
  <2>1. CASE Next
    BY <2>1, StageStep, TaskStep, PendingStep, StrandedStep, HeldStep, LivesStep DEF WorkInv
  <2>2. CASE UNCHANGED vars
    BY <2>2, WorkStutter
  <2> QED
    BY <2>1, <2>2
<1> QED
  BY <1>1, <1>2, RefcountInvariant, QueueInvariant, PTL DEF Spec

\* Work in a task queue is on its way to be run or canceled, unless a task exited the
\* thread: em_task_queue_send notifies after every enqueue, the token of a pending
\* notification is never dropped, and em_task_queue_execute returns only from an
\* empty queue.
THEOREM WorkCarried == Spec => []NoStrandedTask
<1>1. WorkInv => NoStrandedTask
  BY DEF WorkInv
<1> QED
  BY <1>1, WorkInvariant, PTL

\* No task runs on a later thread that was given the same pthread struct: the queues
\* are empty when _emscripten_thread_mailbox_shutdown is over, and the refcount gate
\* lets no sender add to them afterwards.
THEOREM NeverStale == Spec => []NoStaleRun
<1>1. WorkInv => NoStaleRun
  BY DEF WorkInv, LivesInv, NoStaleRun
<1> QED
  BY <1>1, WorkInvariant, PTL

\* A thread exits from inside a task only where the program may do so.
LEMMA NeverExits ==
  ASSUME ~MayExitInTask
  PROVE  Spec => []NoExitInTask
<1>1. Init => NoExitInTask
  BY DEF Init, NoExitInTask
<1>2. TypeOK /\ TypeOK' /\ QueueInv /\ WorkInv /\ NoExitInTask /\ [Next]_vars => NoExitInTask'
  <2> SUFFICES ASSUME TypeOK, TypeOK', QueueInv, WorkInv, NoExitInTask, [Next]_vars,
                      NEW t \in Tasks
               PROVE  status'[t] # "exited"
    BY DEF NoExitInTask
  <2>0. status[t] # "exited" /\ StageInv /\ TaskInv
    BY DEF NoExitInTask, WorkInv
  <2>1. CASE Quiet
    BY <2>0, <2>1, QuietEffect
  <2>2. CASE BeginTask
    BY <2>0, <2>2, BeginEffect
  <2>3. CASE EndTask
    BY <2>0, <2>3, EndEffect
  <2>4. CASE CancelTask
    BY <2>0, <2>4, CancelEffect
  <2>5. CASE ExitBegin
    <3>1. stack \in {<<>>, <<User>>}
      BY <2>5 DEF ExitBegin
    <3>2. ~At("task")
      BY <3>1 DEF At, User, Frame
    <3> QED
      BY <2>0, <2>5, <3>2, ExitEffect
  <2>6. ASSUME NEW q \in Queues, CreateQueue(q) PROVE status'[t] # "exited"
    BY <2>0, <2>6, CreateEffect
  <2>7. ASSUME NEW s \in Threads, SendEnqueue(s) PROVE status'[t] # "exited"
    <3>1. PICK q, x : q = job[s].queue /\ x = job[s].task
      OBVIOUS
    <3> QED
      BY <2>0, <2>7, <3>1, EnqueueTask
  <2>8. ASSUME NEW s \in Threads, NEW q \in Queues, NEW x \in Tasks, SendRef(s, q, x)
        PROVE  status'[t] # "exited"
    BY <2>0, <2>8, RefTask
  <2>9. CASE UNCHANGED vars
    BY <2>0, <2>9 DEF vars, taskVars
  <2> QED
    BY <2>1, <2>2, <2>3, <2>4, <2>5, <2>6, <2>7, <2>8, <2>9, NextCases
<1> QED
  BY <1>1, <1>2, RefcountInvariant, QueueInvariant, WorkInvariant, PTL DEF Spec

\* A thread that has shut its mailbox down has resolved every task it accepted, unless
\* one of them exited the thread from inside (then the run MailboxDropped shows that
\* the tasks below it on the stack are lost).
THEOREM ShutdownResolves == Spec => [](NoExitInTask => ShutdownResolvesAll)
<1>1. TypeOK /\ RefcountInv /\ WorkInv => (NoExitInTask => ShutdownResolvesAll)
  BY HeldResolved DEF WorkInv
<1> QED
  BY <1>1, RefcountInvariant, WorkInvariant, PTL

\* ... and when no task may exit its thread, always.
THEOREM ShutdownResolvesAlways ==
  ASSUME ~MayExitInTask
  PROVE  Spec => []ShutdownResolvesAll
<1>1. Spec => []NoExitInTask
  BY NeverExits
<1> QED
  BY <1>1, ShutdownResolves, PTL

\* At first there is no message and no sender.
LEMMA WakeInit == Init => WakeInv /\ NoLostWakeup
<1> SUFFICES ASSUME Init PROVE WakeInv /\ NoLostWakeup
  OBVIOUS
<1>1. /\ stage = "created" /\ mbox = <<>> /\ mboxNote = "NONE" /\ ~waitingAsync
      /\ \A s \in Threads : pc[s] = "idle"
  BY DEF Init
<1>2. Holders = {}
  BY <1>1 DEF Holders, Holds, InSend
<1> QED
  BY <1>1, <1>2 DEF WakeInv, NoLostWakeup

\* A step that changes nothing keeps the wake-up.
LEMMA WakeStutter ==
  ASSUME WakeInv, NoLostWakeup, UNCHANGED vars
  PROVE  WakeInv' /\ NoLostWakeup'
<1>1. UNCHANGED <<stage, stack, mbox, mboxNote, waitingAsync, armed, posts, events, pc>>
  BY DEF vars, targetVars, mboxVars, loopVars, sendVars
<1> QED
  BY <1>1 DEF WakeInv, NoLostWakeup, OnStack, Holders, Holds

\* When nobody sends to a thread before CMD_RUN is posted to its worker, a message in
\* its mailbox is on its way to be received: _emscripten_thread_mailbox_await arms
\* the waiter before the mailbox is looked into, and the exchange of the mailbox's
\* flag makes one sender responsible for the wake-up.  (The run MailboxEarly shows
\* the wake-up lost when a task is sent earlier.)
THEOREM WakeupKept ==
  ASSUME ~EarlySends
  PROVE  Spec => []NoLostWakeup
<1>1. Init => WakeInv /\ NoLostWakeup
  BY WakeInit
<1>2. TypeOK /\ RefcountInv /\ QueueInv /\ WorkInv /\ WakeInv /\ NoLostWakeup /\ [Next]_vars
         => WakeInv' /\ NoLostWakeup'
  <2> SUFFICES ASSUME TypeOK, RefcountInv, QueueInv, WorkInv, WakeInv, NoLostWakeup,
                      [Next]_vars
               PROVE  WakeInv' /\ NoLostWakeup'
    OBVIOUS
  <2>1. CASE Next
    BY <2>1, WakeStep, LostStep DEF WorkInv
  <2>2. CASE UNCHANGED vars
    BY <2>2, WakeStutter
  <2> QED
    BY <2>1, <2>2
<1> QED
  BY <1>1, <1>2, RefcountInvariant, QueueInvariant, WorkInvariant, PTL DEF Spec

-----------------------------------------------------------------------------
(***************************************************************************)
(* Mailbox implements TaskDelivery, step by step: every step of the        *)
(* mailbox, its queues and its senders is a step of the contract of        *)
(* proxying, or none of its steps.  For any number of senders, queues and  *)
(* tasks, of programs whose tasks do not exit their thread from inside.    *)
(***************************************************************************)

\* In a stack of frames, each queue has one loop at most, and a task is called by a loop.
OneLoop(fs) == \A i, j \in DOMAIN fs : fs[i].at = "exec" /\ fs[i] = fs[j] => i = j
InLoop(fs) == \A i \in DOMAIN fs :
                 fs[i].at = "task" => i + 1 \in DOMAIN fs /\ fs[i + 1].at = "exec"
Loops(fs) == OneLoop(fs) /\ InLoop(fs)

\* A queue whose loop is on the stack is marked as being processed.
LoopInv ==
    /\ Loops(stack)
    /\ \A q \in Queues : OnStack("exec", q) => processing[q]

-----------------------------------------------------------------------------
(***************************************************************************)
(* Stacks of frames                                                        *)
(***************************************************************************)
\* A stack with a frame more.
LEMMA Pushed ==
  ASSUME NEW fs \in Seq(Frames), NEW f \in Frames
  PROVE  /\ DOMAIN fs = 1..Len(fs) /\ Len(fs) \in Nat
         /\ DOMAIN (<<f>> \o fs) = 1..(Len(fs) + 1) /\ Len(<<f>> \o fs) = Len(fs) + 1
         /\ (<<f>> \o fs)[1] = f
         /\ \A i \in 1..Len(fs) : (<<f>> \o fs)[i + 1] = fs[i]
         /\ \A i \in 2..(Len(fs) + 1) : i - 1 \in DOMAIN fs /\ (<<f>> \o fs)[i] = fs[i - 1]
  OBVIOUS

\* A loop for a queue that has none, or a task above a loop, keeps the shape ...
LEMMA LoopsPush ==
  ASSUME NEW fs \in Seq(Frames), NEW f \in Frames, Loops(fs),
         f.at = "exec" => \A i \in DOMAIN fs : fs[i] # f,
         f.at = "task" => fs # <<>> /\ fs[1].at = "exec"
  PROVE  Loops(<<f>> \o fs)
<1> DEFINE gs == <<f>> \o fs
<1>1. /\ DOMAIN fs = 1..Len(fs) /\ Len(fs) \in Nat
      /\ DOMAIN gs = 1..(Len(fs) + 1)
      /\ gs[1] = f
      /\ \A i \in 1..Len(fs) : gs[i + 1] = fs[i]
      /\ \A i \in 2..(Len(fs) + 1) : i - 1 \in DOMAIN fs /\ gs[i] = fs[i - 1]
  BY Pushed
<1> HIDE DEF gs
<1>2. OneLoop(gs)
  <2> SUFFICES ASSUME NEW i \in DOMAIN gs, NEW j \in DOMAIN gs, gs[i].at = "exec", gs[i] = gs[j]
               PROVE  i = j
    BY DEF OneLoop
  <2>1. CASE i = 1 \/ j = 1
    BY <1>1, <2>1
  <2>2. CASE i # 1 /\ j # 1
    <3>1. i - 1 \in DOMAIN fs /\ j - 1 \in DOMAIN fs /\ gs[i] = fs[i - 1] /\ gs[j] = fs[j - 1]
      BY <1>1, <2>2
    <3>2. i - 1 = j - 1
      BY <3>1 DEF Loops, OneLoop
    <3> QED
      BY <1>1, <3>2
  <2> QED
    BY <2>1, <2>2
<1>3. InLoop(gs)
  <2> SUFFICES ASSUME NEW i \in DOMAIN gs, gs[i].at = "task"
               PROVE  i + 1 \in DOMAIN gs /\ gs[i + 1].at = "exec"
    BY DEF InLoop
  <2>1. CASE i = 1
    <3>1. Len(fs) > 0 /\ fs[1].at = "exec"
      BY <1>1, <2>1
    <3>2. 1 \in 1..Len(fs)
      BY <1>1, <3>1
    <3>3. gs[1 + 1] = fs[1]
      BY <1>1, <3>2
    <3> QED
      BY <1>1, <2>1, <3>1, <3>3
  <2>2. CASE i # 1
    <3>1. i - 1 \in DOMAIN fs /\ gs[i] = fs[i - 1]
      BY <1>1, <2>2
    <3>2. (i - 1) + 1 \in DOMAIN fs /\ fs[(i - 1) + 1].at = "exec"
      BY <3>1 DEF Loops, InLoop
    <3>3. i \in 1..Len(fs) /\ fs[i].at = "exec"
      BY <1>1, <3>2
    <3> QED
      BY <1>1, <3>3
  <2> QED
    BY <2>1, <2>2
<1> QED
  BY <1>2, <1>3 DEF Loops, gs

\* ... and so does a return, after which a queue's loop that returned is on no frame.
LEMMA LoopsTail ==
  ASSUME NEW fs \in Seq(Frames), fs # <<>>, Loops(fs)
  PROVE  /\ Loops(Tail(fs))
         /\ Head(fs).at = "exec" => \A i \in DOMAIN Tail(fs) : Tail(fs)[i] # Head(fs)
<1> DEFINE gs == Tail(fs)
<1>1. /\ DOMAIN fs = 1..Len(fs) /\ Len(fs) \in Nat /\ Len(fs) > 0
      /\ DOMAIN gs = 1..(Len(fs) - 1)
      /\ \A i \in 1..(Len(fs) - 1) : gs[i] = fs[i + 1]
      /\ Head(fs) = fs[1]
  OBVIOUS
<1> HIDE DEF gs
<1>2. OneLoop(gs)
  <2> SUFFICES ASSUME NEW i \in DOMAIN gs, NEW j \in DOMAIN gs, gs[i].at = "exec", gs[i] = gs[j]
               PROVE  i = j
    BY DEF OneLoop
  <2>1. i + 1 \in DOMAIN fs /\ j + 1 \in DOMAIN fs /\ gs[i] = fs[i + 1] /\ gs[j] = fs[j + 1]
    BY <1>1
  <2>2. i + 1 = j + 1
    BY <2>1 DEF Loops, OneLoop
  <2> QED
    BY <1>1, <2>2
<1>3. InLoop(gs)
  <2> SUFFICES ASSUME NEW i \in DOMAIN gs, gs[i].at = "task"
               PROVE  i + 1 \in DOMAIN gs /\ gs[i + 1].at = "exec"
    BY DEF InLoop
  <2>1. i + 1 \in DOMAIN fs /\ gs[i] = fs[i + 1]
    BY <1>1
  <2>2. (i + 1) + 1 \in DOMAIN fs /\ fs[(i + 1) + 1].at = "exec"
    BY <2>1 DEF Loops, InLoop
  <2>3. i + 1 \in 1..(Len(fs) - 1)
    BY <1>1, <2>2
  <2> QED
    BY <1>1, <2>2, <2>3
<1>4. ASSUME Head(fs).at = "exec", NEW i \in DOMAIN gs, gs[i] = Head(fs) PROVE FALSE
  <2>1. i + 1 \in DOMAIN fs /\ 1 \in DOMAIN fs /\ fs[1].at = "exec" /\ fs[1] = fs[i + 1]
    BY <1>1, <1>4
  <2>2. 1 = i + 1
    BY <2>1 DEF Loops, OneLoop
  <2> QED
    BY <1>1, <2>2
<1> QED
  BY <1>2, <1>3, <1>4 DEF Loops, gs

\* Where a task runs from a queue on a stack with a frame more.
LEMMA AbovePush ==
  ASSUME NEW fs \in Seq(Frames), NEW f \in Frames, NEW q, NEW t
  PROVE  Above(<<f>> \o fs, q, t) <=> \/ Above(fs, q, t)
                                      \/ /\ f = Frame("task", t) /\ fs # <<>>
                                         /\ fs[1] = Frame("exec", q)
<1> DEFINE gs == <<f>> \o fs
<1>1. /\ DOMAIN fs = 1..Len(fs) /\ Len(fs) \in Nat
      /\ Len(gs) = Len(fs) + 1
      /\ gs[1] = f
      /\ \A i \in 1..Len(fs) : gs[i + 1] = fs[i]
  BY Pushed
<1> HIDE DEF gs, Frame
<1>2. ASSUME NEW i \in 1..(Len(gs) - 1), gs[i] = Frame("task", t), gs[i + 1] = Frame("exec", q)
      PROVE  \/ Above(fs, q, t)
             \/ f = Frame("task", t) /\ fs # <<>> /\ fs[1] = Frame("exec", q)
  <2>1. i \in 1..Len(fs) /\ fs[i] = Frame("exec", q)
    BY <1>1, <1>2
  <2>2. CASE i = 1
    BY <1>1, <1>2, <2>1, <2>2
  <2>3. CASE i # 1
    <3>1. i - 1 \in 1..(Len(fs) - 1) /\ i - 1 \in 1..Len(fs) /\ (i - 1) + 1 = i
      BY <1>1, <2>1, <2>3
    <3>2. gs[i] = fs[i - 1]
      BY <1>1, <3>1
    <3> QED
      BY <1>2, <2>1, <3>1, <3>2 DEF Above
  <2> QED
    BY <2>2, <2>3
<1>3. ASSUME NEW i \in 1..(Len(fs) - 1), fs[i] = Frame("task", t), fs[i + 1] = Frame("exec", q)
      PROVE  Above(gs, q, t)
  <2>1. i + 1 \in 1..(Len(gs) - 1) /\ i \in 1..Len(fs) /\ i + 1 \in 1..Len(fs)
    BY <1>1
  <2>2. gs[i + 1] = fs[i] /\ gs[(i + 1) + 1] = fs[i + 1]
    BY <1>1, <2>1
  <2> QED
    BY <1>3, <2>1, <2>2 DEF Above
<1>4. ASSUME f = Frame("task", t), fs # <<>>, fs[1] = Frame("exec", q)
      PROVE  Above(gs, q, t)
  <2>1. 1 \in 1..(Len(gs) - 1) /\ 1 \in 1..Len(fs)
    BY <1>1, <1>4
  <2>2. gs[1] = Frame("task", t) /\ gs[1 + 1] = Frame("exec", q)
    BY <1>1, <1>4, <2>1
  <2> QED
    BY <2>1, <2>2 DEF Above
<1>5. Above(gs, q, t) => \/ Above(fs, q, t)
                         \/ f = Frame("task", t) /\ fs # <<>> /\ fs[1] = Frame("exec", q)
  BY <1>2 DEF Above
<1>6. Above(fs, q, t) => Above(gs, q, t)
  BY <1>3 DEF Above
<1> QED
  BY <1>4, <1>5, <1>6 DEF gs

\* What runs from a queue is the task above its loop, of which there is one.
LEMMA TaskOfIs ==
  ASSUME NEW fs \in Seq(Frames), OneLoop(fs), NEW q
  PROVE  /\ \A t \in Tasks : Above(fs, q, t) => TaskOf(fs, q) = t
         /\ (\A t \in Tasks : ~Above(fs, q, t)) => TaskOf(fs, q) = NoJob
<1>1. ASSUME NEW t \in Tasks, NEW u \in Tasks, Above(fs, q, t), Above(fs, q, u)
      PROVE  t = u
  <2>1. PICK i \in 1..(Len(fs) - 1) : fs[i] = Frame("task", t) /\ fs[i + 1] = Frame("exec", q)
    BY <1>1, Zenon DEF Above
  <2>2. PICK j \in 1..(Len(fs) - 1) : fs[j] = Frame("task", u) /\ fs[j + 1] = Frame("exec", q)
    BY <1>1, Zenon DEF Above
  <2>3. i + 1 \in DOMAIN fs /\ j + 1 \in DOMAIN fs
    OBVIOUS
  <2>4. fs[i + 1].at = "exec"
    BY <2>1, FrameEqual
  <2>5. i + 1 = j + 1
    BY <2>1, <2>2, <2>3, <2>4 DEF OneLoop
  <2>6. i = j
    BY <2>5
  <2> QED
    BY <2>1, <2>2, <2>6, FrameEqual
<1>2. ASSUME NEW t \in Tasks, Above(fs, q, t)
      PROVE  TaskOf(fs, q) = t
  <2>1. TaskOf(fs, q) = CHOOSE u \in Tasks : Above(fs, q, u)
    BY <1>2, Zenon DEF TaskOf
  <2>2. TaskOf(fs, q) \in Tasks /\ Above(fs, q, TaskOf(fs, q))
    BY <1>2, <2>1, Zenon
  <2> QED
    BY <1>1, <1>2, <2>2
<1>3. (\A t \in Tasks : ~Above(fs, q, t)) => TaskOf(fs, q) = NoJob
  BY Zenon DEF TaskOf
<1> QED
  BY <1>2, <1>3

\* Two stacks with the same tasks above the loops of a queue run the same from it.
LEMMA TaskOfSame ==
  ASSUME NEW fs \in Seq(Frames), NEW gs \in Seq(Frames), OneLoop(fs), OneLoop(gs), NEW q,
         \A t \in Tasks : Above(fs, q, t) <=> Above(gs, q, t)
  PROVE  TaskOf(fs, q) = TaskOf(gs, q)
<1>1. CASE \E t \in Tasks : Above(fs, q, t)
  BY <1>1, TaskOfIs
<1>2. CASE \A t \in Tasks : ~Above(fs, q, t)
  BY <1>2, TaskOfIs
<1> QED
  BY <1>1, <1>2

\* A task that runs has a frame.
LEMMA AboveFrame ==
  ASSUME NEW fs \in Seq(Frames), NEW q, NEW t, Above(fs, q, t)
  PROVE  \E i \in DOMAIN fs : fs[i] = Frame("task", t)
<1>1. PICK i \in 1..(Len(fs) - 1) : fs[i] = Frame("task", t)
  BY Zenon DEF Above
<1>2. i \in DOMAIN fs
  OBVIOUS
<1> QED
  BY <1>1, <1>2

\* A stack without tasks and loops has the shape.
LEMMA LoopsNone ==
  ASSUME NEW fs \in Seq(Frames),
         \A i \in DOMAIN fs : fs[i].at \notin {"task", "exec"}
  PROVE  Loops(fs)
  BY DEF Loops, OneLoop, InLoop

-----------------------------------------------------------------------------
(***************************************************************************)
(* The loops of the Target                                                 *)
(***************************************************************************)
\* The same of the Target's stack after a step.
LEMMA LoopsNoneNext ==
  ASSUME stack' \in Seq(Frames), \A of : ~OnStack("task", of)' /\ ~OnStack("exec", of)'
  PROVE  LoopInv'
<1>1. ASSUME NEW i \in DOMAIN stack' PROVE stack'[i].at \notin {"task", "exec"}
  <2>1. stack'[i] \in Frames
    OBVIOUS
  <2>2. \A f \in Frames : f = Frame(f.at, f.of)
    BY DEF Frames, User, Frame
  <2>3. stack'[i] = Frame(stack'[i].at, stack'[i].of)
    BY <2>1, <2>2
  <2> QED
    BY <2>3 DEF OnStack
<1>2. Loops(stack')
  BY <1>1, LoopsNone
<1> QED
  BY <1>2 DEF LoopInv

\* A loop begins: receive_notification and emscripten_proxy_execute_queue call
\* em_task_queue_execute only for a queue that is not being processed.
LEMMA LoopBegins ==
  ASSUME TypeOK, TypeOK', QueueInv, LoopInv,
         Receive \/ \E q \in Queues : ExecuteQueue(q)
  PROVE  LoopInv'
<1>0. /\ stack \in Seq(Frames) /\ StackShape /\ QueueTypes
  BY DEF TypeOK, TargetTypes, QueueInv
<1>1. CASE Receive
  <2>1. /\ Top \in Queues
        /\ stack' = <<Frame("exec", Top), Frame("rdone", Top), Frame("mexec", Target)>>
        /\ \A at, of : OnStack(at, of)' <=> \/ at \in {"exec", "rdone"} /\ of = Top
                                            \/ at = "mexec" /\ of = Target
    BY <1>0, <1>1, ReceiveFrames, TopType DEF Receive, At
  <2>2. Loops(stack')
    BY <2>1 DEF Loops, OneLoop, InLoop, Frame
  <2>3. processing'[Top] = TRUE
    BY <1>0, <1>1, <2>1 DEF Receive, QueueTypes
  <2> QED
    BY <2>1, <2>2, <2>3 DEF LoopInv
<1>2. ASSUME NEW q \in Queues, ExecuteQueue(q) PROVE LoopInv'
  <2>1. /\ ~processing[q] /\ processing' = [processing EXCEPT ![q] = TRUE]
        /\ stack' = <<Frame("exec", q)>> \o stack /\ Frame("exec", q) \in Frames
    BY <1>2, FrameType DEF ExecuteQueue
  <2>2. \A i \in DOMAIN stack : stack[i] # Frame("exec", q)
    BY <2>1 DEF LoopInv, OnStack
  <2>3. Loops(stack')
    BY <1>0, <2>1, <2>2, LoopsPush, FrameEqual DEF LoopInv
  <2>4. \A at, of : OnStack(at, of)' <=> OnStack(at, of) \/ (at = "exec" /\ of = q)
    BY <1>0, <1>2, ExecuteQueueFrames
  <2>5. \A r \in Queues : processing'[r] = IF r = q THEN TRUE ELSE processing[r]
    BY <1>0, <2>1 DEF QueueTypes
  <2> QED
    BY <2>3, <2>4, <2>5 DEF LoopInv
<1> QED
  BY <1>1, <1>2

\* It calls its tasks and ends; tasks return.
LEMMA LoopGoesOn ==
  ASSUME TypeOK, TypeOK', QueueInv, LoopInv, Execute \/ Return
  PROVE  LoopInv'
<1>0. /\ stack \in Seq(Frames) /\ StackShape /\ QueueTypes
  BY DEF TypeOK, TargetTypes, QueueInv
<1>1. CASE Execute /\ tq[Top] = <<>>
  <2>1. PICK q : q = Top
    OBVIOUS
  <2>2. /\ stack # <<>> /\ At("exec") /\ stack' = Tail(stack)
        /\ processing' = [processing EXCEPT ![q] = FALSE]
    BY <1>1, <2>1 DEF Execute, Goto, At
  <2>3. /\ q \in Queues /\ Head(stack) = Frame("exec", q)
        /\ \A at, of : OnStack(at, of) <=> OnStack(at, of)' \/ (at = "exec" /\ of = q)
    BY <1>0, <1>1, <2>1, <2>2, ExecuteFrames, TopOnStack
  <2>4. /\ Loops(stack')
        /\ \A i \in DOMAIN stack' : stack'[i] # Frame("exec", q)
    BY <1>0, <2>2, <2>3, LoopsTail, FrameEqual DEF LoopInv
  <2>5. ~OnStack("exec", q)'
    BY <2>4 DEF OnStack
  <2>6. \A r \in Queues : r # q => processing'[r] = processing[r]
    BY <1>0, <2>2 DEF QueueTypes
  <2> QED
    BY <2>3, <2>4, <2>5, <2>6 DEF LoopInv
<1>2. CASE Execute /\ tq[Top] # <<>>
  <2>1. PICK q, t : q = Top /\ t = Head(tq[q])
    OBVIOUS
  <2>2. /\ stack # <<>> /\ At("exec") /\ UNCHANGED processing
        /\ Goto(<<Frame("task", t), Frame("exec", q)>>)
    BY <1>2, <2>1 DEF Execute, At
  <2>3. /\ q \in Queues /\ Head(stack) = Frame("exec", q) /\ stack[1] = Frame("exec", q)
        /\ \A at, of : OnStack(at, of)' <=> OnStack(at, of) \/ (at = "task" /\ of = t)
    BY <1>0, <1>2, <2>1, <2>2, ExecuteFrames, TopOnStack
  <2>4. t \in Tasks
    BY <1>0, <1>2, <2>1, <2>3, SomeInQueue
  <2>5. stack' = <<Frame("task", t)>> \o stack /\ Frame("task", t) \in Frames
    BY <1>0, <2>2, <2>3, <2>4, BeginFrames
  <2>6. Loops(stack')
    BY <1>0, <2>2, <2>3, <2>5, LoopsPush, FrameEqual DEF LoopInv
  <2> QED
    BY <2>2, <2>3, <2>6 DEF LoopInv
<1>3. CASE Return
  <2>1. /\ stack # <<>> /\ stack' = Tail(stack) /\ UNCHANGED processing
    BY <1>3 DEF Return, InUserCode, At, Goto, queueVars
  <2>2. \A at, of : OnStack(at, of)' => OnStack(at, of)
    BY <1>0, <1>3, ReturnsFrames
  <2>3. Loops(stack')
    BY <1>0, <2>1, LoopsTail DEF LoopInv
  <2> QED
    BY <2>1, <2>2, <2>3 DEF LoopInv
<1> QED
  BY <1>1, <1>2, <1>3

\* Every step keeps the loops apart.
LEMMA LoopsStep ==
  ASSUME TypeOK, TypeOK', QueueInv, StageInv, LoopInv, Next
  PROVE  LoopInv'
<1>0. /\ stack \in Seq(Frames) /\ stack' \in Seq(Frames) /\ StackShape /\ QueueTypes
  BY DEF TypeOK, TargetTypes, QueueInv
<1>1. ASSUME UNCHANGED <<stack, processing>>
      PROVE  LoopInv'
  BY <1>0, <1>1, SameFrames DEF LoopInv
<1>2. ASSUME NEW s \in Threads, Send(s) PROVE LoopInv'
  BY <1>1, <1>2 DEF Send, SendRef, SendEnqueue, SendNotify, MailboxEnqueue, MailboxNotify,
     MailboxWake, SendUnref, SendFutexWake, targetVars, queueVars
<1>3. ASSUME NEW q \in Queues, CreateQueue(q) PROVE LoopInv'
  <2>1. UNCHANGED stack
    BY <1>3 DEF CreateQueue, targetVars
  <2>2. PICK culled \in SUBSET Cullable, ok \in BOOLEAN :
          /\ life[q] \in {"none", "freed"} \/ q \in culled
          /\ IF ok THEN processing' = [processing EXCEPT ![q] = FALSE]
                   ELSE UNCHANGED processing
    BY <1>3, Zenon DEF CreateQueue
  <2>3. ~OnStack("exec", q)
    BY <2>2, OutOfReach DEF QueueInv
  <2>4. \A r \in Queues : r # q => processing'[r] = processing[r]
    BY <1>0, <2>2 DEF QueueTypes
  <2>5. \A at, of : OnStack(at, of)' <=> OnStack(at, of)
    BY <1>0, <2>1, SameFrames
  <2> QED
    BY <2>1, <2>3, <2>4, <2>5 DEF LoopInv
<1>4. CASE (\E q \in Queues : DestroyQueue(q)) \/ Spawn \/ RoutePost \/ FreeData \/ Recreate
           \/ ShutdownWait \/ ShutdownDestroy
  BY <1>1, <1>4 DEF DestroyQueue, Spawn, RoutePost, FreeData, Recreate, ShutdownWait,
     ShutdownDestroy, targetVars, queueVars
<1>5. CASE Receive \/ \E q \in Queues : ExecuteQueue(q)
  BY <1>5, LoopBegins
<1>6. CASE Execute \/ Return
  BY <1>6, LoopGoesOn
<1>7. CASE Run \/ CheckMailbox \/ CheckReceive \/ CheckExecute \/ CheckDone
  <2>1. \A of : ~OnStack("task", of)' /\ ~OnStack("exec", of)'
    BY <1>0, <1>7, RunFrames, CheckMailboxFrames, CheckReceiveFrames, CheckExecuteFrames,
       CheckDoneFrames
  <2> QED
    BY <1>0, <2>1, LoopsNoneNext
<1>8. CASE ReceiveDone \/ ShutdownCancel \/ CancelQueue \/ ExitBegin
  <2>1. \A of : ~OnStack("task", of)' /\ ~OnStack("exec", of)'
    BY <1>0, <1>8, ReceiveDoneFrames, ShutdownCancelFrames, CancelQueueFrames, ExitFrames
  <2> QED
    BY <1>0, <2>1, LoopsNoneNext
<1> QED
  BY <1>2, <1>3, <1>4, <1>5, <1>6, <1>7, <1>8 DEF Next, TargetStep

\* At any time every queue has one loop at most, and tasks run in loops only.
LEMMA LoopInvariant == Spec => []LoopInv
<1>1. Init => LoopInv
  <2> SUFFICES ASSUME Init PROVE LoopInv
    OBVIOUS
  <2>1. stack = <<>>
    BY DEF Init
  <2> QED
    BY <2>1, FewFrames DEF LoopInv, Loops, OneLoop, InLoop
<1>2. TypeOK /\ TypeOK' /\ QueueInv /\ WorkInv /\ LoopInv /\ [Next]_vars => LoopInv'
  <2> SUFFICES ASSUME TypeOK, TypeOK', QueueInv, WorkInv, LoopInv, [Next]_vars
               PROVE  LoopInv'
    OBVIOUS
  <2>1. CASE Next
    BY <2>1, LoopsStep DEF WorkInv
  <2>2. CASE UNCHANGED vars
    <3>1. UNCHANGED <<stack, processing>>
      BY <2>2 DEF vars, targetVars, queueVars
    <3> QED
      BY <3>1 DEF LoopInv, OnStack
  <2> QED
    BY <2>1, <2>2
<1> QED
  BY <1>1, <1>2, RefcountInvariant, QueueInvariant, WorkInvariant, PTL DEF Spec

-----------------------------------------------------------------------------
(***************************************************************************)
(* The steps of the contract                                               *)
(***************************************************************************)
\* A task called by the loop of q runs from q, where none ran before.
LEMMA CalledByLoop ==
  ASSUME NEW fs \in Seq(Frames), Loops(fs), fs # <<>>, NEW q \in Queues, NEW t \in Tasks,
         fs[1] = Frame("exec", q)
  PROVE  /\ TaskOf(fs, q) = NoJob
         /\ TaskOf(<<Frame("task", t)>> \o fs, q) = t
         /\ \A r \in Queues : r # q => TaskOf(<<Frame("task", t)>> \o fs, r) = TaskOf(fs, r)
<1> DEFINE f == Frame("task", t)
           gs == <<f>> \o fs
<1>1. f \in Frames /\ f.at = "task" /\ fs[1].at = "exec"
  BY FrameType, FrameEqual
<1>2. Loops(gs)
  BY <1>1, LoopsPush
<1>3. gs \in Seq(Frames)
  BY <1>1
<1>4. \A r, u : Above(gs, r, u) <=> Above(fs, r, u) \/ (r = q /\ u = t)
  BY <1>1, AbovePush, FrameEqual
<1> HIDE DEF f, gs
<1>5. ASSUME NEW u \in Tasks, Above(fs, q, u) PROVE FALSE
  <2>1. PICK i \in 1..(Len(fs) - 1) : fs[i + 1] = Frame("exec", q)
    BY <1>5, Zenon DEF Above
  <2>2. i + 1 \in DOMAIN fs /\ 1 \in DOMAIN fs
    OBVIOUS
  <2>3. i + 1 = 1
    BY <1>1, <2>1, <2>2 DEF Loops, OneLoop
  <2> QED
    BY <2>3
<1>6. TaskOf(fs, q) = NoJob
  BY <1>5, TaskOfIs DEF Loops
<1>7. TaskOf(gs, q) = t
  BY <1>2, <1>3, <1>4, TaskOfIs DEF Loops
<1>8. ASSUME NEW r \in Queues, r # q PROVE TaskOf(gs, r) = TaskOf(fs, r)
  BY <1>2, <1>3, <1>4, <1>8, TaskOfSame DEF Loops
<1> QED
  BY <1>6, <1>7, <1>8 DEF f, gs

\* Stacks with the same tasks above the loops run the same from every queue.
LEMMA SameRunning ==
  ASSUME stack \in Seq(Frames), stack' \in Seq(Frames), LoopInv, LoopInv',
         \A q \in Queues, t \in Tasks : Above(stack, q, t) <=> Above(stack', q, t)
  PROVE  Running' = Running
<1>1. ASSUME NEW q \in Queues PROVE TaskOf(stack', q) = TaskOf(stack, q)
  BY TaskOfSame DEF LoopInv, Loops
<1> QED
  BY <1>1, Zenon DEF Running

\* One task has a new outcome.
LEMMA NewOutcome ==
  ASSUME NEW t \in Tasks, NEW o, o # "sending",
         \A x \in Tasks : status'[x] = IF x = t THEN o ELSE status[x]
  PROVE  Outcome' = [Outcome EXCEPT ![t] = o]
  BY DEF Outcome

\* em_task_queue_execute takes a task and calls it: Begin.
LEMMA BeginSimulated ==
  ASSUME TypeOK, QueueInv, StageInv, TaskInv, LoopInv, BeginTask
  PROVE  \E q \in Queues : Delivery!Begin(q)
<1>0. /\ stack \in Seq(Frames) /\ StackShape /\ QueueTypes
  BY DEF TypeOK, TargetTypes, QueueInv
<1>1. PICK q, t : q = Top /\ t = Head(tq[q])
  OBVIOUS
<1>2. /\ stack # <<>> /\ At("exec") /\ tq[q] # <<>> /\ tq' = [tq EXCEPT ![q] = Tail(@)]
      /\ Goto(<<Frame("task", t), Frame("exec", q)>>)
      /\ UNCHANGED stage
  BY <1>1 DEF BeginTask, Execute, At
<1>3. /\ q \in Queues /\ t \in Tasks
      /\ \A x \in Tasks : status'[x] = IF x = t THEN "running" ELSE status[x]
  BY <1>1, BeginEffect
<1>4. Open /\ Open'
  <2>1. stage \in {"running", "sd_cancel"}
    BY <1>2, FrameStage
  <2>2. ~At("cancel")
    BY <1>2 DEF At
  <2> QED
    BY <1>2, <2>1, <2>2, CancelStage DEF Open
<1>5. /\ Head(stack) = Frame("exec", q) /\ stack[1] = Frame("exec", q)
      /\ stack' = <<Frame("task", t)>> \o stack
  BY <1>0, <1>1, <1>2, <1>3, TopOnStack, BeginFrames
<1>6. /\ Running[q] = NoJob
      /\ Running' = [Running EXCEPT ![q] = t]
  <2>1. /\ TaskOf(stack, q) = NoJob
        /\ TaskOf(stack', q) = t
        /\ \A r \in Queues : r # q => TaskOf(stack', r) = TaskOf(stack, r)
    BY <1>0, <1>2, <1>3, <1>5, CalledByLoop DEF LoopInv
  <2> QED
    BY <1>3, <2>1 DEF Running
<1>7. Outcome' = [Outcome EXCEPT ![t] = "running"]
  BY <1>3, NewOutcome
<1> QED
  BY <1>1, <1>2, <1>3, <1>4, <1>6, <1>7 DEF Delivery!Begin

\* The task returns: End.
LEMMA EndSimulated ==
  ASSUME TypeOK, QueueInv, StageInv, TaskInv, LoopInv, EndTask
  PROVE  \E q \in Queues : Delivery!End(q)
<1>0. /\ stack \in Seq(Frames) /\ StackShape /\ QueueTypes
  BY DEF TypeOK, TargetTypes, QueueInv
<1>1. PICK t : t = Top
  OBVIOUS
<1>2. /\ stack # <<>> /\ At("task") /\ stack' = Tail(stack) /\ UNCHANGED <<stage, tq>>
  BY DEF EndTask, Return, At, Goto, queueVars
<1>3. /\ t \in Tasks
      /\ \A x \in Tasks : status'[x] = IF x = t THEN "done" ELSE status[x]
  BY <1>1, EndEffect
<1>4. stack[1] = Frame("task", t) /\ stack[1].at = "task" /\ 1 \in DOMAIN stack
  BY <1>0, <1>1, <1>2, TopOnStack, FrameEqual DEF OnStack
<1>5. 1 + 1 \in DOMAIN stack /\ stack[1 + 1].at = "exec"
  BY <1>4 DEF LoopInv, Loops, InLoop
<1>6. /\ stack' \in Seq(Frames) /\ stack' # <<>> /\ stack'[1] = stack[1 + 1]
      /\ stack = <<Frame("task", t)>> \o stack'
  <2>1. /\ stack' \in Seq(Frames) /\ Len(stack') = Len(stack) - 1 /\ Len(stack) \in Nat
        /\ \A i \in 1..(Len(stack) - 1) : stack'[i] = stack[i + 1]
        /\ stack = <<Head(stack)>> \o stack' /\ Head(stack) = stack[1]
    BY <1>0, <1>2
  <2>2. 1 \in 1..(Len(stack) - 1)
    BY <1>5, <2>1
  <2> QED
    BY <1>4, <2>1, <2>2
<1>7. PICK q \in Queues : stack'[1] = Frame("exec", q)
  <2>1. stack'[1] \in Frames /\ stack'[1].at = "exec"
    BY <1>5, <1>6
  <2>2. \A f \in Frames : f.at = "exec" => f.of \in Queues /\ f = Frame("exec", f.of)
    BY DEF Frames, User, Frame
  <2> QED
    BY <2>1, <2>2
<1>8. Loops(stack')
  BY <1>0, <1>2, LoopsTail DEF LoopInv
<1>9. /\ Running[q] = t
      /\ Running' = [Running EXCEPT ![q] = NoJob]
  <2>1. /\ TaskOf(stack', q) = NoJob
        /\ TaskOf(stack, q) = t
        /\ \A r \in Queues : r # q => TaskOf(stack, r) = TaskOf(stack', r)
    BY <1>3, <1>6, <1>7, <1>8, CalledByLoop
  <2> QED
    BY <2>1 DEF Running
<1>10. t # NoJob
  BY <1>3, MailboxAssumption
<1>11. Outcome' = [Outcome EXCEPT ![t] = "done"]
  BY <1>3, NewOutcome
<1>12. Open' = Open
  BY <1>2 DEF Open
<1> QED
  BY <1>2, <1>7, <1>9, <1>10, <1>11, <1>12 DEF Delivery!End

\* The handler of a canceled message cancels a task: Cancel.
LEMMA CancelSimulated ==
  ASSUME TypeOK, QueueInv, StageInv, TaskInv, LoopInv, CancelTask
  PROVE  \E q \in Queues : Delivery!Cancel(q)
<1>1. PICK q, t : q = Top /\ t = Head(tq[q])
  OBVIOUS
<1>2. /\ tq[q] # <<>> /\ tq' = [tq EXCEPT ![q] = Tail(@)]
      /\ UNCHANGED <<stage, stack>>
  BY <1>1 DEF CancelTask, CancelQueue
<1>3. /\ q \in Queues /\ t \in Tasks /\ OnStack("cancel", q)
      /\ \A x \in Tasks : status'[x] = IF x = t THEN "canceled" ELSE status[x]
  BY <1>1, CancelEffect
<1>4. stage = "sd_cancel"
  BY <1>3 DEF StageInv
<1>5. ~Open /\ Open' = Open
  BY <1>2, <1>4 DEF Open
<1>6. Running' = Running
  BY <1>2 DEF Running
<1>7. Outcome' = [Outcome EXCEPT ![t] = "canceled"]
  BY <1>3, NewOutcome
<1> QED
  BY <1>1, <1>2, <1>3, <1>5, <1>6, <1>7 DEF Delivery!Cancel

\* A send is refused because the mailbox is closed, or takes a reference, which
\* settles nothing.
LEMMA RefSimulated ==
  ASSUME TypeOK, TaskInv, NEW s \in Threads, NEW q \in Queues, NEW t \in Tasks, SendRef(s, q, t)
  PROVE  Delivery!Refuse(t) \/ UNCHANGED Delivery!vars
<1>1. /\ UNCHANGED <<stack, tq, stage>>
      /\ \A x \in Tasks : x # t => status'[x] = status[x]
      /\ status[t] = "new"
      /\ status'[t] = IF refcount = 0 THEN "refused" ELSE "sending"
  <2>1. UNCHANGED stage
    BY DEF SendRef, targetVars
  <2> QED
    BY <2>1, RefTask
<1>2. Open' = Open /\ Running' = Running
  BY <1>1 DEF Open, Running
<1>3. CASE refcount = 0
  <2>1. Outcome' = [Outcome EXCEPT ![t] = "refused"]
    BY <1>1, <1>3, NewOutcome
  <2>2. Outcome[t] = "new"
    BY <1>1 DEF Outcome
  <2> QED
    BY <1>1, <1>2, <2>1, <2>2 DEF Delivery!Refuse
<1>4. CASE refcount # 0
  <2>1. Outcome' = Outcome
    BY <1>1, <1>4 DEF Outcome
  <2> QED
    BY <1>1, <1>2, <2>1 DEF Delivery!vars
<1> QED
  BY <1>3, <1>4

\* em_task_queue_enqueue accepts the task, while the mailbox is open, or refuses it.
LEMMA EnqueueSimulated ==
  ASSUME TypeOK, RefcountInv, TaskInv, NEW s \in Threads, SendEnqueue(s)
  PROVE  \E t \in Tasks : Delivery!Refuse(t) \/ \E q \in Queues : Delivery!Accept(q, t)
<1>1. PICK q, t : q = job[s].queue /\ t = job[s].task
  OBVIOUS
<1>2. /\ q \in Queues /\ t \in Tasks /\ Enqueues(s, t)
      /\ UNCHANGED stack
      /\ \A x \in Tasks : x # t => status'[x] = status[x]
      /\ \/ status'[t] = "queued" /\ tq' = [tq EXCEPT ![q] = Append(@, t)]
         \/ status'[t] = "refused" /\ tq' = tq
  BY <1>1, EnqueueTask
<1>3. UNCHANGED stage
  BY DEF SendEnqueue, targetVars
<1>4. Outcome[t] = "new"
  BY <1>2 DEF TaskInv, Outcome
<1>5. Open
  <2>1. s \in Holders
    BY <1>2 DEF Enqueues, Holders, Holds, InSend
  <2>2. refcount > 0
    BY <2>1, CountPositive
  <2> QED
    BY <2>2 DEF RefcountInv, Open, TypeOK, TargetTypes, Stage
<1>6. Open' = Open /\ Running' = Running
  BY <1>2, <1>3 DEF Open, Running
<1>7. CASE status'[t] = "queued" /\ tq' = [tq EXCEPT ![q] = Append(@, t)]
  <2>1. Outcome' = [Outcome EXCEPT ![t] = "queued"]
    BY <1>2, <1>7, NewOutcome
  <2> QED
    BY <1>2, <1>4, <1>5, <1>6, <1>7, <2>1 DEF Delivery!Accept
<1>8. CASE status'[t] = "refused" /\ tq' = tq
  <2>1. Outcome' = [Outcome EXCEPT ![t] = "refused"]
    BY <1>2, <1>8, NewOutcome
  <2> QED
    BY <1>2, <1>4, <1>6, <1>8, <2>1 DEF Delivery!Refuse
<1> QED
  BY <1>2, <1>7, <1>8

\* How the steps that move no task move the stack: not at all, or without a task on
\* it, or by the end or the beginning of a loop.
LEMMA QuietMoves ==
  ASSUME TypeOK, QueueInv, StageInv, Quiet
  PROVE  \/ UNCHANGED stack
         \/ \A t : ~OnStack("task", t)
         \/ At("exec") /\ stack' = Tail(stack)
         \/ \E q \in Queues : stack' = <<Frame("exec", q)>> \o stack
<1>0. stack \in Seq(Frames) /\ StackShape
  BY DEF TypeOK, TargetTypes, QueueInv
<1>1. CASE \E s \in Threads : \/ SendNotify(s) \/ MailboxEnqueue(s) \/ MailboxNotify(s)
                              \/ MailboxWake(s) \/ SendUnref(s) \/ SendFutexWake(s)
  BY <1>1, SendersKept DEF TypeOK
<1>2. CASE (\E q \in Queues : DestroyQueue(q)) \/ Spawn \/ RoutePost \/ FreeData \/ Recreate
  BY <1>2 DEF DestroyQueue, Spawn, RoutePost, FreeData, Recreate, targetVars
<1>3. CASE \E q \in Queues : ExecuteQueue(q)
  BY <1>3 DEF ExecuteQueue
<1>4. CASE TargetStep /\ ~BeginTask /\ ~EndTask /\ ~CancelTask
  <2>1. CASE Run \/ CheckMailbox
    <3>1. stack = <<>>
      BY <2>1 DEF Run, CheckMailbox, StageInv
    <3> QED
      BY <3>1, FewFrames
  <2>2. CASE CheckReceive \/ CheckExecute \/ CheckDone
    <3>1. At("check") \/ At("mexec") \/ At("mdone")
      BY <2>2 DEF CheckReceive, CheckExecute, CheckDone
    <3>2. \E at \in {"check", "mexec", "mdone"} : stack = <<Frame(at, Top)>>
      BY <1>0, <3>1, ShapeTop
    <3> QED
      BY <3>2, FewFrames
  <2>3. CASE Receive \/ ReceiveDone \/ ShutdownCancel \/ CancelQueue
    BY <1>0, <2>3, ReceiveFrames, ReceiveDoneFrames, ShutdownCancelFrames, CancelQueueFrames
  <2>4. CASE Execute
    BY <1>4, <2>4 DEF Execute, BeginTask, Goto
  <2>5. CASE Return
    <3>1. At("user")
      BY <1>4, <2>5 DEF Return, EndTask, InUserCode
    <3>2. stack = <<Frame("user", Top)>>
      BY <1>0, <3>1, ShapeTop
    <3> QED
      BY <3>2, FewFrames
  <2>6. CASE ShutdownWait \/ ShutdownDestroy
    BY <2>6 DEF ShutdownWait, ShutdownDestroy
  <2> QED
    BY <1>4, <2>1, <2>2, <2>3, <2>4, <2>5, <2>6 DEF TargetStep
<1> QED
  BY <1>1, <1>2, <1>3, <1>4 DEF Quiet

\* What runs from the queues stays the same.
LEMMA QuietRunning ==
  ASSUME TypeOK, TypeOK', QueueInv, StageInv, TaskInv, LoopInv, LoopInv', Quiet
  PROVE  Running' = Running
<1>0. /\ stack \in Seq(Frames) /\ stack' \in Seq(Frames) /\ StackShape
  BY DEF TypeOK, TargetTypes, QueueInv
<1>1. CASE UNCHANGED stack
  BY <1>1 DEF Running
<1>2. CASE \A t : ~OnStack("task", t)
  <2>1. \A t \in Tasks : ~OnStack("task", t) /\ ~OnStack("task", t)'
    BY <1>2, QuietEffect
  <2>2. ASSUME NEW q \in Queues, NEW t \in Tasks
        PROVE  ~Above(stack, q, t) /\ ~Above(stack', q, t)
    <3>1. ~OnStack("task", t) /\ ~OnStack("task", t)'
      BY <2>1
    <3> QED
      BY <1>0, <3>1, AboveFrame DEF OnStack
  <2> QED
    BY <1>0, <2>2, SameRunning
<1>3. CASE At("exec") /\ stack' = Tail(stack)
  <2>1. PICK r : r = Top
    OBVIOUS
  <2>2. /\ Head(stack) = Frame("exec", r) /\ Head(stack) \in Frames
        /\ stack = <<Head(stack)>> \o stack'
    BY <1>0, <1>3, <2>1, TopOnStack DEF At
  <2>3. Head(stack).at # "task"
    BY <2>2, FrameEqual
  <2>4. ASSUME NEW q, NEW t
        PROVE  Above(stack, q, t) <=> Above(stack', q, t)
    <3>1. Above(<<Head(stack)>> \o stack', q, t) <=>
             \/ Above(stack', q, t)
             \/ /\ Head(stack) = Frame("task", t) /\ stack' # <<>>
                /\ stack'[1] = Frame("exec", q)
      BY <1>0, <2>2, AbovePush
    <3>2. Head(stack) # Frame("task", t)
      BY <2>3, FrameEqual
    <3> QED
      BY <2>2, <3>1, <3>2
  <2> QED
    BY <1>0, <2>4, SameRunning
<1>4. ASSUME NEW r \in Queues, stack' = <<Frame("exec", r)>> \o stack
      PROVE  Running' = Running
  <2>1. Frame("exec", r) \in Frames
    BY FrameType
  <2>2. \A q, t : Above(stack, q, t) <=> Above(stack', q, t)
    BY <1>0, <1>4, <2>1, AbovePush, FrameEqual
  <2> QED
    BY <1>0, <2>2, SameRunning
<1> QED
  BY <1>1, <1>2, <1>3, <1>4, QuietMoves

\* A step that moves no task closes or opens the thread, or is none of the contract's.
LEMMA QuietSimulated ==
  ASSUME TypeOK, TypeOK', RefcountInv, QueueInv, WorkInv, LoopInv, LoopInv', NoExitInTask, Quiet
  PROVE  Delivery!Close \/ Delivery!Reopen \/ UNCHANGED Delivery!vars
<1>0. /\ stack \in Seq(Frames) /\ stage \in Stage
      /\ StageInv /\ TaskInv /\ NoStrandedTask
  BY DEF TypeOK, TargetTypes, WorkInv
<1>1. UNCHANGED <<tq, status>> /\ Running' = Running
  BY <1>0, QuietEffect, QuietRunning
<1>2. Outcome' = Outcome
  BY <1>1 DEF Outcome
<1>3. CASE Open' = Open
  BY <1>1, <1>2, <1>3 DEF Delivery!vars
<1>4. CASE Open /\ ~Open'
  <2>1. stage = "sd_wait"
    <3>1. stage' # stage /\ stage \in {"created", "spawned", "running", "sd_wait", "sd_asleep"}
          /\ stage' \notin {"created", "spawned", "running", "sd_wait", "sd_asleep"}
      BY <1>4 DEF Open
    <3>2. CASE \E s \in Threads : \/ SendNotify(s) \/ MailboxEnqueue(s) \/ MailboxNotify(s)
                                  \/ MailboxWake(s) \/ SendUnref(s) \/ SendFutexWake(s)
      BY <3>1, <3>2 DEF SendNotify, MailboxEnqueue, MailboxNotify, MailboxWake, SendUnref,
         SendFutexWake, targetVars
    <3>3. CASE (\E q \in Queues : DestroyQueue(q) \/ ExecuteQueue(q)) \/ Spawn \/ RoutePost
               \/ FreeData \/ Recreate
      BY <3>1, <3>3 DEF DestroyQueue, ExecuteQueue, Spawn, RoutePost, FreeData, Recreate,
         targetVars
    <3>4. CASE TargetStep
      BY <3>1, <3>4 DEF TargetStep, Run, CheckMailbox, CheckReceive, CheckExecute, CheckDone,
         Receive, ReceiveDone, Execute, Return, ShutdownWait, ShutdownCancel, CancelQueue,
         ShutdownDestroy
    <3> QED
      BY <3>2, <3>3, <3>4 DEF Quiet
  <2>2. stack = <<>>
    BY <1>0, <2>1 DEF StageInv
  <2>3. ASSUME NEW q \in Queues PROVE Running[q] = NoJob
    <3>1. \A t : ~Above(stack, q, t)
      BY <2>2 DEF Above
    <3> QED
      BY <1>0, <3>1, TaskOfIs DEF Running, LoopInv, Loops
  <2> QED
    BY <1>1, <1>2, <1>4, <2>3 DEF Delivery!Close, Open
<1>5. CASE ~Open /\ Open'
  <2>1. stage = "freed"
    <3>1. stage' # stage /\ stage' \in {"created", "spawned", "running", "sd_wait", "sd_asleep"}
          /\ stage \notin {"created", "spawned", "running", "sd_wait", "sd_asleep"}
      BY <1>5 DEF Open
    <3>2. CASE \E s \in Threads : \/ SendNotify(s) \/ MailboxEnqueue(s) \/ MailboxNotify(s)
                                  \/ MailboxWake(s) \/ SendUnref(s) \/ SendFutexWake(s)
      BY <3>1, <3>2 DEF SendNotify, MailboxEnqueue, MailboxNotify, MailboxWake, SendUnref,
         SendFutexWake, targetVars
    <3>3. CASE (\E q \in Queues : DestroyQueue(q) \/ ExecuteQueue(q)) \/ Spawn \/ RoutePost
               \/ FreeData \/ Recreate
      BY <3>1, <3>3 DEF DestroyQueue, ExecuteQueue, Spawn, RoutePost, FreeData, Recreate,
         targetVars
    <3>4. CASE TargetStep
      BY <3>1, <3>4 DEF TargetStep, Run, CheckMailbox, CheckReceive, CheckExecute, CheckDone,
         Receive, ReceiveDone, Execute, Return, ShutdownWait, ShutdownCancel, CancelQueue,
         ShutdownDestroy
    <3> QED
      BY <3>2, <3>3, <3>4 DEF Quiet
  <2>2. \A q \in Queues : tq[q] = <<>>
    BY <1>0, <2>1, ClosedEmpty
  <2> QED
    BY <1>1, <1>2, <1>5, <2>2 DEF Delivery!Reopen, Open
<1> QED
  BY <1>3, <1>4, <1>5 DEF Open

\* Every step is one of the contract's or none.
LEMMA StepSimulated ==
  ASSUME ~MayExitInTask, TypeOK, TypeOK', RefcountInv, QueueInv, WorkInv, LoopInv, LoopInv',
         NoExitInTask, Next
  PROVE  Delivery!Next \/ UNCHANGED Delivery!vars
<1>0. /\ stack \in Seq(Frames) /\ stack' \in Seq(Frames)
      /\ StageInv /\ TaskInv /\ NoStrandedTask
  BY DEF TypeOK, TargetTypes, WorkInv
<1>1. CASE Quiet
  BY <1>1, QuietSimulated DEF Delivery!Next
<1>2. CASE BeginTask
  BY <1>0, <1>2, BeginSimulated DEF Delivery!Next
<1>3. CASE EndTask
  BY <1>0, <1>3, EndSimulated DEF Delivery!Next
<1>4. CASE CancelTask
  BY <1>0, <1>4, CancelSimulated DEF Delivery!Next
<1>5. CASE ExitBegin
  <2>1. /\ stage = "running" /\ stage' = "sd_wait" /\ stack \in {<<>>, <<User>>} /\ stack' = <<>>
        /\ UNCHANGED tq
    BY <1>5 DEF ExitBegin, queueVars
  <2>2. ~At("task")
    BY <2>1 DEF At, User, Frame
  <2>3. status' = status
    BY <1>5, <2>2 DEF ExitBegin
  <2>4. \A q, t : ~Above(stack, q, t) /\ ~Above(stack', q, t)
    BY <2>1 DEF Above
  <2>5. Running' = Running
    BY <1>0, <2>4, SameRunning
  <2>6. Open' = Open /\ Outcome' = Outcome
    BY <2>1, <2>3 DEF Open, Outcome
  <2> QED
    BY <2>1, <2>5, <2>6 DEF Delivery!vars
<1>6. ASSUME NEW q \in Queues, CreateQueue(q) PROVE UNCHANGED Delivery!vars
  <2>1. UNCHANGED <<stage, stack, status>>
    BY <1>6 DEF CreateQueue, targetVars, taskVars
  <2>2. tq' = tq
    BY <1>0, <1>6, CreatedEmpty
  <2> QED
    BY <2>1, <2>2 DEF Delivery!vars, Open, Running, Outcome
<1>7. ASSUME NEW s \in Threads, SendEnqueue(s) PROVE Delivery!Next
  BY <1>0, <1>7, EnqueueSimulated DEF Delivery!Next
<1>8. ASSUME NEW s \in Threads, NEW q \in Queues, NEW t \in Tasks, SendRef(s, q, t)
      PROVE  Delivery!Next \/ UNCHANGED Delivery!vars
  BY <1>0, <1>8, RefSimulated DEF Delivery!Next
<1> QED
  BY <1>1, <1>2, <1>3, <1>4, <1>5, <1>6, <1>7, <1>8, NextCases

\* The mailbox keeps every promise of the contract that is not about progress, when
\* no task exits its thread from inside (then the run MailboxDropped shows tasks that
\* are neither run nor canceled): a task is refused at once or accepted, the accepted
\* tasks of a queue run one at a time and in their order, a thread that closes cancels
\* what is left, and no thread with the same struct begins before that.
THEOREM DeliverySteps ==
  ASSUME ~MayExitInTask
  PROVE  Spec => Delivery!Init /\ [][Delivery!Next]_(Delivery!vars)
<1>1. Init => Delivery!Init
  <2> SUFFICES ASSUME Init PROVE Delivery!Init
    OBVIOUS
  <2>1. /\ stage = "created" /\ stack = <<>> /\ tq = [q \in Queues |-> <<>>]
        /\ status = [t \in Tasks |-> "new"]
    BY DEF Init
  <2>2. \A q, t : ~Above(stack, q, t)
    BY <2>1 DEF Above
  <2>3. Running = [q \in Queues |-> NoJob]
    <3>1. \A q : TaskOf(stack, q) = NoJob
      BY <2>2, Zenon DEF TaskOf
    <3> QED
      BY <3>1 DEF Running
  <2>4. Open = TRUE /\ Outcome = [t \in Tasks |-> "new"]
    BY <2>1 DEF Open, Outcome
  <2> QED
    BY <2>1, <2>3, <2>4 DEF Delivery!Init
<1>2. /\ TypeOK /\ TypeOK' /\ RefcountInv /\ QueueInv /\ WorkInv /\ LoopInv /\ LoopInv'
      /\ NoExitInTask /\ [Next]_vars
      => [Delivery!Next]_(Delivery!vars)
  <2> SUFFICES ASSUME TypeOK, TypeOK', RefcountInv, QueueInv, WorkInv, LoopInv, LoopInv',
                      NoExitInTask, [Next]_vars
               PROVE  Delivery!Next \/ UNCHANGED Delivery!vars
    OBVIOUS
  <2>1. CASE Next
    BY <2>1, StepSimulated
  <2>2. CASE UNCHANGED vars
    BY <2>2 DEF vars, targetVars, queueVars, taskVars, Delivery!vars, Open, Running, Outcome
  <2> QED
    BY <2>1, <2>2
<1>3. Spec => []NoExitInTask
  BY NeverExits
<1> QED
  BY <1>1, <1>2, <1>3, RefcountInvariant, QueueInvariant, WorkInvariant, LoopInvariant, PTL
  DEF Spec
=============================================================================
