--------------------------- MODULE MailboxProofs ---------------------------
(***************************************************************************)
(* Theorems about Mailbox, for any number of senders, queues and tasks.    *)
(***************************************************************************)
EXTENDS Mailbox, FiniteSetTheorems, TLAPS

\* The initial state is well typed.
LEMMA TypeInit == Init => TypeOK
<1> SUFFICES ASSUME Init PROVE TypeOK
  OBVIOUS
<1> USE MailboxAssumption DEF MailboxAssumption, Init
<1>1. TargetTypes
  <2>1. stack \in Seq(Frames)
    OBVIOUS
  <2> QED
    BY <2>1 DEF TargetTypes, Stage
<1>2. MailboxTypes
  BY DEF MailboxTypes, Note, Life
<1>3. LoopTypes
  <2>1. waitingAsync \in BOOLEAN
    OBVIOUS
  <2> QED
    BY <2>1 DEF LoopTypes
<1>4. QueueTypes
  <2>1. processing \in [Queues -> BOOLEAN]
    OBVIOUS
  <2> QED
    BY <2>1 DEF QueueTypes, Note, Life
<1>5. SendTypes
  BY DEF SendTypes, Place, InSend
<1>6. TaskTypes
  BY DEF TaskTypes
<1> QED
  BY <1>1, <1>2, <1>3, <1>4, <1>5, <1>6 DEF TypeOK

\* What the innermost frame works on, by its kind.
LEMMA TopType ==
  ASSUME stack \in Seq(Frames), stack # <<>>
  PROVE  /\ Head(stack).at \in {"recv", "exec", "rdone", "cancel"} => Top \in Queues
         /\ Head(stack).at = "task" => Top \in Tasks
<1>1. Head(stack) \in Frames
  OBVIOUS
<1> QED
  BY <1>1 DEF Frames, User, Frame, Top

\* Replacing the innermost frame by well-typed frames keeps the stack well typed.
LEMMA GotoType ==
  ASSUME stack \in Seq(Frames), stack # <<>>, NEW fs \in Seq(Frames), Goto(fs)
  PROVE  stack' \in Seq(Frames)
  BY DEF Goto

\* Replacing the tasks of one queue keeps the queues well typed.
LEMMA QueueUpdateType ==
  ASSUME tq \in [Queues -> Seq(Tasks)], NEW q \in Queues, NEW ts \in Seq(Tasks)
  PROVE  [tq EXCEPT ![q] = ts] \in [Queues -> Seq(Tasks)]
  OBVIOUS

\* The frames the Target pushes.
LEMMA FrameType ==
  /\ User \in Frames
  /\ \A at \in {"check", "mexec", "mdone"} : Frame(at, Target) \in Frames
  /\ \A at \in {"recv", "exec", "rdone", "cancel"}, q \in Queues : Frame(at, q) \in Frames
  /\ \A t \in Tasks : Frame("task", t) \in Frames
  BY DEF Frames, Frame, User

\* Every step keeps every variable well typed.  The references that the count
\* loses are there to lose: refcount is at least 1 at ExitBegin and SendUnref.
LEMMA TypeStep ==
  ASSUME TypeOK, Next,
         OwnerHolds \/ Holders # {} => refcount > 0
  PROVE  TypeOK'
<1> USE MailboxAssumption DEF MailboxAssumption
<1>0. TargetTypes /\ MailboxTypes /\ LoopTypes /\ QueueTypes /\ SendTypes /\ TaskTypes
  BY DEF TypeOK
<1>1. ASSUME NEW q \in Queues, CreateQueue(q) PROVE TypeOK'
  <2> USE <1>1 DEF CreateQueue
  <2>2. TargetTypes'
    BY <1>0 DEF TargetTypes, targetVars
  <2>3. MailboxTypes'
    BY <1>0 DEF MailboxTypes, mboxVars
  <2>4. LoopTypes'
    BY <1>0 DEF LoopTypes, loopVars
  <2>5. QueueTypes'
    <3>1. processing' \in [Queues -> BOOLEAN]
      BY <1>0, Zenon DEF QueueTypes
    <3>2. tq' = tq \/ tq' = [tq EXCEPT ![q] = <<>>]
      BY Zenon
    <3>3. note' = note \/ note' = [note EXCEPT ![q] = "NONE"]
      BY Zenon
    <3>4. life' \in [Queues -> Life]
      BY <1>0, SMT DEF QueueTypes, Life
    <3> HIDE <1>1 DEF CreateQueue
    <3>7. <<>> \in Seq(Tasks)
      OBVIOUS
    <3>5. tq' \in [Queues -> Seq(Tasks)]
      BY <1>0, <3>2, <3>7, QueueUpdateType DEF QueueTypes
    <3>6. note' \in [Queues -> Note]
      BY <1>0, <3>3 DEF QueueTypes, Note
    <3> QED
      BY <3>1, <3>4, <3>5, <3>6 DEF QueueTypes
  <2>6. SendTypes'
    BY <1>0 DEF SendTypes, sendVars
  <2>7. TaskTypes'
    BY <1>0 DEF TaskTypes, taskVars
  <2> QED
    BY <2>2, <2>3, <2>4, <2>5, <2>6, <2>7 DEF TypeOK
<1>2. ASSUME NEW q \in Queues, DestroyQueue(q) PROVE TypeOK'
  <2> USE <1>2 DEF DestroyQueue
  <2>2. TargetTypes'
    BY <1>0 DEF TargetTypes, targetVars
  <2>3. MailboxTypes'
    BY <1>0 DEF MailboxTypes, mboxVars
  <2>4. LoopTypes'
    BY <1>0 DEF LoopTypes, loopVars
  <2>5. QueueTypes'
    BY <1>0 DEF QueueTypes, Note, Life, queueVars
  <2>6. SendTypes'
    BY <1>0 DEF SendTypes, sendVars
  <2>7. TaskTypes'
    BY <1>0 DEF TaskTypes, taskVars
  <2> QED
    BY <2>2, <2>3, <2>4, <2>5, <2>6, <2>7 DEF TypeOK
<1>3. ASSUME NEW q \in Queues, ExecuteQueue(q) PROVE TypeOK'
  <2> USE <1>3 DEF ExecuteQueue
  <2>1. stack' \in Seq(Frames)
    BY <1>0, GotoType, FrameType, TopType DEF TargetTypes, At, Goto, Top, InUserCode
  <2>2. TargetTypes'
    BY <2>1, <1>0 DEF TargetTypes, Stage, targetVars
  <2>3. MailboxTypes'
    BY <1>0 DEF MailboxTypes, mboxVars
  <2>4. LoopTypes'
    BY <1>0 DEF LoopTypes, loopVars
  <2>5. QueueTypes'
    BY <1>0 DEF QueueTypes, Note, Life, queueVars
  <2>6. SendTypes'
    BY <1>0 DEF SendTypes, sendVars
  <2>7. TaskTypes'
    BY <1>0 DEF TaskTypes, taskVars
  <2> QED
    BY <2>2, <2>3, <2>4, <2>5, <2>6, <2>7 DEF TypeOK
<1>4. ASSUME NEW s \in Threads, NEW q \in Queues, NEW t \in Tasks, SendRef(s, q, t) PROVE TypeOK'
  <2> USE <1>4 DEF SendRef
  <2>2. TargetTypes'
    BY <1>0 DEF TargetTypes, targetVars
  <2>3. MailboxTypes'
    BY <1>0 DEF MailboxTypes, Note, Life, mboxVars
  <2>4. LoopTypes'
    BY <1>0 DEF LoopTypes, loopVars
  <2>5. QueueTypes'
    BY <1>0 DEF QueueTypes, queueVars
  <2>6. SendTypes'
    BY <1>0 DEF SendTypes, Place, InSend, Step, Job, sendVars
  <2>7. TaskTypes'
    <3>1. lives \in 0..MaxLives
      BY <1>0 DEF TargetTypes
    <3>2. sentIn' \in [Tasks -> 0..MaxLives]
      BY <1>0, <3>1 DEF TaskTypes
    <3>3. status' = [status EXCEPT ![t] = "refused"] \/ status' = [status EXCEPT ![t] = "sending"]
      BY Zenon
    <3> QED
      BY <1>0, <3>2, <3>3 DEF TaskTypes
  <2> QED
    BY <2>2, <2>3, <2>4, <2>5, <2>6, <2>7 DEF TypeOK
<1>5. ASSUME NEW s \in Threads, SendEnqueue(s) PROVE TypeOK'
  <2> USE <1>5 DEF SendEnqueue
  <2>2. TargetTypes'
    BY <1>0 DEF TargetTypes, targetVars
  <2>3. MailboxTypes'
    BY <1>0 DEF MailboxTypes, mboxVars
  <2>4. LoopTypes'
    BY <1>0 DEF LoopTypes, loopVars
  <2>5. QueueTypes'
    <3>1. pc[s] \in InSend
      BY DEF InSend, Step
    <3>2. job[s] \in Job
      BY <1>0, <3>1 DEF SendTypes
    <3>3. job[s].queue \in Queues /\ job[s].task \in Tasks
      BY <3>2 DEF Job
    <3>4. tq' = tq \/ tq' = [tq EXCEPT ![job[s].queue] = Append(@, job[s].task)]
      BY Zenon
    <3>5. UNCHANGED <<note, processing, life>>
      OBVIOUS
    <3> HIDE <1>5 DEF SendEnqueue
    <3>7. Append(tq[job[s].queue], job[s].task) \in Seq(Tasks)
      BY <1>0, <3>3 DEF QueueTypes
    <3>6. tq' \in [Queues -> Seq(Tasks)]
      BY <1>0, <3>3, <3>4, <3>7, QueueUpdateType DEF QueueTypes
    <3> QED
      BY <1>0, <3>5, <3>6 DEF QueueTypes
  <2>6. SendTypes'
    BY <1>0 DEF SendTypes, Place, InSend, Step, Job, sendVars
  <2>7. TaskTypes'
    BY <1>0 DEF TaskTypes, taskVars
  <2> QED
    BY <2>2, <2>3, <2>4, <2>5, <2>6, <2>7 DEF TypeOK
<1>6. ASSUME NEW s \in Threads, SendNotify(s) PROVE TypeOK'
  <2> USE <1>6 DEF SendNotify
  <2>2. TargetTypes'
    BY <1>0 DEF TargetTypes, targetVars
  <2>3. MailboxTypes'
    BY <1>0 DEF MailboxTypes, mboxVars
  <2>4. LoopTypes'
    BY <1>0 DEF LoopTypes, loopVars
  <2>5. QueueTypes'
    BY <1>0 DEF QueueTypes, Note, Life, queueVars
  <2>6. SendTypes'
    BY <1>0 DEF SendTypes, Place, InSend, Step, Job, sendVars
  <2>7. TaskTypes'
    BY <1>0 DEF TaskTypes, taskVars
  <2> QED
    BY <2>2, <2>3, <2>4, <2>5, <2>6, <2>7 DEF TypeOK
<1>7. ASSUME NEW s \in Threads, MailboxEnqueue(s) PROVE TypeOK'
  <2> USE <1>7 DEF MailboxEnqueue
  <2>2. TargetTypes'
    BY <1>0 DEF TargetTypes, targetVars
  <2>3. MailboxTypes'
    <3>1. pc[s] \in InSend
      BY DEF InSend, Step
    <3>2. job[s] \in Job
      BY <1>0, <3>1 DEF SendTypes
    <3>3. job[s].queue \in Queues /\ job[s].task \in Tasks
      BY <3>2 DEF Job
    <3> QED
      BY <1>0, <3>3 DEF MailboxTypes
  <2>4. LoopTypes'
    BY <1>0 DEF LoopTypes, loopVars
  <2>5. QueueTypes'
    BY <1>0 DEF QueueTypes, queueVars
  <2>6. SendTypes'
    BY <1>0 DEF SendTypes, Place, InSend, Step, Job, sendVars
  <2>7. TaskTypes'
    BY <1>0 DEF TaskTypes, taskVars
  <2> QED
    BY <2>2, <2>3, <2>4, <2>5, <2>6, <2>7 DEF TypeOK
<1>8. ASSUME NEW s \in Threads, MailboxNotify(s) PROVE TypeOK'
  <2> USE <1>8 DEF MailboxNotify
  <2>2. TargetTypes'
    BY <1>0 DEF TargetTypes, targetVars
  <2>3. MailboxTypes'
    BY <1>0 DEF MailboxTypes, Note, Life, mboxVars
  <2>4. LoopTypes'
    BY <1>0 DEF LoopTypes, loopVars
  <2>5. QueueTypes'
    BY <1>0 DEF QueueTypes, queueVars
  <2>6. SendTypes'
    BY <1>0 DEF SendTypes, Place, InSend, Step, Job, sendVars
  <2>7. TaskTypes'
    BY <1>0 DEF TaskTypes, taskVars
  <2> QED
    BY <2>2, <2>3, <2>4, <2>5, <2>6, <2>7 DEF TypeOK
<1>9. ASSUME NEW s \in Threads, MailboxWake(s) PROVE TypeOK'
  <2> USE <1>9 DEF MailboxWake
  <2>2. TargetTypes'
    BY <1>0 DEF TargetTypes, targetVars
  <2>3. MailboxTypes'
    BY <1>0 DEF MailboxTypes, mboxVars
  <2>4. LoopTypes'
    BY <1>0 DEF LoopTypes, Await, loopVars
  <2>5. QueueTypes'
    BY <1>0 DEF QueueTypes, queueVars
  <2>6. SendTypes'
    BY <1>0 DEF SendTypes, Place, InSend, Step, Job, sendVars
  <2>7. TaskTypes'
    BY <1>0 DEF TaskTypes, taskVars
  <2> QED
    BY <2>2, <2>3, <2>4, <2>5, <2>6, <2>7 DEF TypeOK
<1>10. ASSUME NEW s \in Threads, SendUnref(s) PROVE TypeOK'
  <2> USE <1>10 DEF SendUnref
  <2>2. TargetTypes'
    BY <1>0 DEF TargetTypes, targetVars
  <2>3. MailboxTypes'
    <3>1. s \in Holders
      BY DEF Holders, Holds, InSend
    <3>2. refcount > 0
      BY <3>1
    <3> QED
      BY <1>0, <3>2 DEF MailboxTypes
  <2>4. LoopTypes'
    BY <1>0 DEF LoopTypes, loopVars
  <2>5. QueueTypes'
    BY <1>0 DEF QueueTypes, queueVars
  <2>6. SendTypes'
    BY <1>0 DEF SendTypes, Place, InSend, Step, Job, sendVars
  <2>7. TaskTypes'
    BY <1>0 DEF TaskTypes, taskVars
  <2> QED
    BY <2>2, <2>3, <2>4, <2>5, <2>6, <2>7 DEF TypeOK
<1>11. ASSUME NEW s \in Threads, SendFutexWake(s) PROVE TypeOK'
  <2> USE <1>11 DEF SendFutexWake
  <2>2. TargetTypes'
    BY <1>0 DEF TargetTypes, Stage, targetVars
  <2>3. MailboxTypes'
    BY <1>0 DEF MailboxTypes, mboxVars
  <2>4. LoopTypes'
    BY <1>0 DEF LoopTypes, loopVars
  <2>5. QueueTypes'
    BY <1>0 DEF QueueTypes, queueVars
  <2>6. SendTypes'
    BY <1>0 DEF SendTypes, Place, InSend, Step, Job, sendVars
  <2>7. TaskTypes'
    BY <1>0 DEF TaskTypes, taskVars
  <2> QED
    BY <2>2, <2>3, <2>4, <2>5, <2>6, <2>7 DEF TypeOK
<1>12. ASSUME Spawn PROVE TypeOK'
  <2> USE <1>12 DEF Spawn
  <2>2. TargetTypes'
    BY <1>0 DEF TargetTypes, Stage, targetVars
  <2>3. MailboxTypes'
    BY <1>0 DEF MailboxTypes, mboxVars
  <2>4. LoopTypes'
    BY <1>0 DEF LoopTypes, loopVars
  <2>5. QueueTypes'
    BY <1>0 DEF QueueTypes, queueVars
  <2>6. SendTypes'
    BY <1>0 DEF SendTypes, sendVars
  <2>7. TaskTypes'
    BY <1>0 DEF TaskTypes, taskVars
  <2> QED
    BY <2>2, <2>3, <2>4, <2>5, <2>6, <2>7 DEF TypeOK
<1>13. ASSUME RoutePost PROVE TypeOK'
  <2> USE <1>13 DEF RoutePost
  <2>2. TargetTypes'
    BY <1>0 DEF TargetTypes, targetVars
  <2>3. MailboxTypes'
    BY <1>0 DEF MailboxTypes, mboxVars
  <2>4. LoopTypes'
    BY <1>0 DEF LoopTypes, Await, loopVars
  <2>5. QueueTypes'
    BY <1>0 DEF QueueTypes, queueVars
  <2>6. SendTypes'
    BY <1>0 DEF SendTypes, sendVars
  <2>7. TaskTypes'
    BY <1>0 DEF TaskTypes, taskVars
  <2> QED
    BY <2>2, <2>3, <2>4, <2>5, <2>6, <2>7 DEF TypeOK
<1>14. ASSUME Run PROVE TypeOK'
  <2> USE <1>14 DEF Run
  <2>1. stack' \in Seq(Frames)
    BY <1>0, GotoType, FrameType, TopType DEF TargetTypes, At, Goto, Top, InUserCode
  <2>2. TargetTypes'
    BY <2>1, <1>0 DEF TargetTypes, Stage, targetVars
  <2>3. MailboxTypes'
    BY <1>0 DEF MailboxTypes, mboxVars
  <2>4. LoopTypes'
    <3>1. waitingAsync' \in BOOLEAN
      BY <1>0 DEF LoopTypes, Await, loopVars
    <3>2. armed' \in Nat
      BY <1>0 DEF LoopTypes, Await, loopVars
    <3>3. posts' \in Nat /\ events' \in Nat
      BY <1>0 DEF LoopTypes, Await, loopVars
    <3> QED
      BY <3>1, <3>2, <3>3 DEF LoopTypes
  <2>5. QueueTypes'
    BY <1>0 DEF QueueTypes, queueVars
  <2>6. SendTypes'
    BY <1>0 DEF SendTypes, sendVars
  <2>7. TaskTypes'
    BY <1>0 DEF TaskTypes, taskVars
  <2> QED
    BY <2>2, <2>3, <2>4, <2>5, <2>6, <2>7 DEF TypeOK
<1>15. ASSUME CheckMailbox PROVE TypeOK'
  <2> USE <1>15 DEF CheckMailbox
  <2>1. stack' \in Seq(Frames)
    <3>1. <<Frame("check", Target)>> \in Seq(Frames)
      BY FrameType
    <3> QED
      BY <1>0, <3>1 DEF TargetTypes
  <2>2. TargetTypes'
    BY <2>1, <1>0 DEF TargetTypes, Stage, targetVars
  <2>3. MailboxTypes'
    BY <1>0 DEF MailboxTypes, mboxVars
  <2>4. LoopTypes'
    <3>1. waitingAsync' \in BOOLEAN
      BY <1>0 DEF LoopTypes, Await, loopVars
    <3>2. armed' \in Nat
      BY <1>0 DEF LoopTypes, Await, loopVars
    <3>3. posts' \in Nat /\ events' \in Nat
      BY <1>0 DEF LoopTypes, Await, loopVars
    <3> QED
      BY <3>1, <3>2, <3>3 DEF LoopTypes
  <2>5. QueueTypes'
    BY <1>0 DEF QueueTypes, queueVars
  <2>6. SendTypes'
    BY <1>0 DEF SendTypes, sendVars
  <2>7. TaskTypes'
    BY <1>0 DEF TaskTypes, taskVars
  <2> QED
    BY <2>2, <2>3, <2>4, <2>5, <2>6, <2>7 DEF TypeOK
<1>16. ASSUME CheckReceive PROVE TypeOK'
  <2> USE <1>16 DEF CheckReceive
  <2>1. stack' \in Seq(Frames)
    BY <1>0, GotoType, FrameType, TopType DEF TargetTypes, At, Goto, Top, InUserCode
  <2>2. TargetTypes'
    BY <2>1, <1>0 DEF TargetTypes, Stage, targetVars
  <2>3. MailboxTypes'
    BY <1>0 DEF MailboxTypes, Note, Life, mboxVars
  <2>4. LoopTypes'
    BY <1>0 DEF LoopTypes, loopVars
  <2>5. QueueTypes'
    BY <1>0 DEF QueueTypes, queueVars
  <2>6. SendTypes'
    BY <1>0 DEF SendTypes, sendVars
  <2>7. TaskTypes'
    BY <1>0 DEF TaskTypes, taskVars
  <2> QED
    BY <2>2, <2>3, <2>4, <2>5, <2>6, <2>7 DEF TypeOK
<1>17. ASSUME CheckExecute PROVE TypeOK'
  <2> USE <1>17 DEF CheckExecute
  <2>1. stack' \in Seq(Frames)
    <3>1. stack \in Seq(Frames)
      BY <1>0 DEF TargetTypes
    <3>2. stack # <<>>
      BY DEF At
    <3>3. <<Frame("mdone", Target)>> \in Seq(Frames)
      BY FrameType
    <3>4. ASSUME mbox # <<>> PROVE <<Frame("recv", Head(mbox)), Frame("mexec", Target)>> \in Seq(Frames)
      <4>1. Head(mbox) \in Queues
        BY <1>0, <3>4 DEF MailboxTypes
      <4> QED
        BY <4>1, FrameType
    <3> QED
      BY <3>1, <3>2, <3>3, <3>4, GotoType DEF Goto
  <2>2. TargetTypes'
    BY <2>1, <1>0 DEF TargetTypes, Stage, targetVars
  <2>3. MailboxTypes'
    <3>1. refcount' \in Nat /\ mboxNote' \in Note /\ mboxLife' \in Life
      BY <1>0 DEF MailboxTypes, Note, Life
    <3>2. CASE mbox = <<>>
      <4>1. mbox' = mbox
        BY <3>2
      <4> QED
        BY <1>0, <3>1, <4>1 DEF MailboxTypes
    <3>3. CASE mbox # <<>>
      <4>1. mbox' = Tail(mbox)
        BY <3>3
      <4> HIDE <1>17 DEF CheckExecute
      <4>2. mbox \in Seq(Queues)
        BY <1>0 DEF MailboxTypes
      <4>3. Tail(mbox) \in Seq(Queues)
        BY <3>3, <4>2
      <4> QED
        BY <3>1, <4>1, <4>3 DEF MailboxTypes
    <3> QED
      BY <3>2, <3>3
  <2>4. LoopTypes'
    BY <1>0 DEF LoopTypes, loopVars
  <2>5. QueueTypes'
    BY <1>0 DEF QueueTypes, queueVars
  <2>6. SendTypes'
    BY <1>0 DEF SendTypes, sendVars
  <2>7. TaskTypes'
    BY <1>0 DEF TaskTypes, taskVars
  <2> QED
    BY <2>2, <2>3, <2>4, <2>5, <2>6, <2>7 DEF TypeOK
<1>18. ASSUME CheckDone PROVE TypeOK'
  <2> USE <1>18 DEF CheckDone
  <2>1. stack' \in Seq(Frames)
    BY <1>0, GotoType, FrameType, TopType DEF TargetTypes, At, Goto, Top, InUserCode
  <2>2. TargetTypes'
    BY <2>1, <1>0 DEF TargetTypes, Stage, targetVars
  <2>3. MailboxTypes'
    BY <1>0 DEF MailboxTypes, Note, Life, mboxVars
  <2>4. LoopTypes'
    BY <1>0 DEF LoopTypes, loopVars
  <2>5. QueueTypes'
    BY <1>0 DEF QueueTypes, queueVars
  <2>6. SendTypes'
    BY <1>0 DEF SendTypes, sendVars
  <2>7. TaskTypes'
    BY <1>0 DEF TaskTypes, taskVars
  <2> QED
    BY <2>2, <2>3, <2>4, <2>5, <2>6, <2>7 DEF TypeOK
<1>19. ASSUME Receive PROVE TypeOK'
  <2> USE <1>19 DEF Receive
  <2>1. stack' \in Seq(Frames)
    <3>1. stack \in Seq(Frames)
      BY <1>0 DEF TargetTypes
    <3>2. stack # <<>> /\ Top \in Queues
      BY <3>1, TopType DEF At
    <3>3. <<Frame("exec", Top), Frame("rdone", Top)>> \in Seq(Frames)
      BY <3>2, FrameType
    <3> QED
      BY <3>1, <3>2, <3>3, GotoType DEF Goto
  <2>2. TargetTypes'
    BY <2>1, <1>0 DEF TargetTypes, Stage, targetVars
  <2>3. MailboxTypes'
    BY <1>0 DEF MailboxTypes, mboxVars
  <2>4. LoopTypes'
    BY <1>0 DEF LoopTypes, loopVars
  <2>5. QueueTypes'
    <3>1. Top \in Queues
      BY <1>0, TopType DEF TargetTypes, At
    <3> QED
      BY <1>0, <3>1 DEF QueueTypes, Note
  <2>6. SendTypes'
    BY <1>0 DEF SendTypes, sendVars
  <2>7. TaskTypes'
    BY <1>0 DEF TaskTypes, taskVars
  <2> QED
    BY <2>2, <2>3, <2>4, <2>5, <2>6, <2>7 DEF TypeOK
<1>20. ASSUME ReceiveDone PROVE TypeOK'
  <2> USE <1>20 DEF ReceiveDone
  <2>1. stack' \in Seq(Frames)
    BY <1>0, GotoType, FrameType, TopType DEF TargetTypes, At, Goto, Top, InUserCode
  <2>2. TargetTypes'
    BY <2>1, <1>0 DEF TargetTypes, Stage, targetVars
  <2>3. MailboxTypes'
    BY <1>0 DEF MailboxTypes, mboxVars
  <2>4. LoopTypes'
    BY <1>0 DEF LoopTypes, loopVars
  <2>5. QueueTypes'
    <3>1. Top \in Queues
      BY <1>0, TopType DEF TargetTypes, At
    <3> QED
      BY <1>0, <3>1 DEF QueueTypes, Note
  <2>6. SendTypes'
    BY <1>0 DEF SendTypes, sendVars
  <2>7. TaskTypes'
    BY <1>0 DEF TaskTypes, taskVars
  <2> QED
    BY <2>2, <2>3, <2>4, <2>5, <2>6, <2>7 DEF TypeOK
<1>21. ASSUME Execute PROVE TypeOK'
  <2> USE <1>21 DEF Execute
  <2>1. stack' \in Seq(Frames)
    <3>1. stack \in Seq(Frames)
      BY <1>0 DEF TargetTypes
    <3>2. stack # <<>> /\ Top \in Queues
      BY <3>1, TopType DEF At
    <3>3. <<>> \in Seq(Frames)
      OBVIOUS
    <3>4. ASSUME tq[Top] # <<>>
          PROVE  <<Frame("task", Head(tq[Top])), Frame("exec", Top)>> \in Seq(Frames)
      <4>1. tq[Top] \in Seq(Tasks)
        BY <1>0, <3>2 DEF QueueTypes
      <4>2. Head(tq[Top]) \in Tasks
        BY <4>1, <3>4
      <4> QED
        BY <3>2, <4>2, FrameType
    <3> QED
      BY <3>1, <3>2, <3>3, <3>4, GotoType DEF Goto
  <2>2. TargetTypes'
    BY <2>1, <1>0 DEF TargetTypes, Stage, targetVars
  <2>3. MailboxTypes'
    BY <1>0 DEF MailboxTypes, mboxVars
  <2>4. LoopTypes'
    BY <1>0 DEF LoopTypes, loopVars
  <2>5. QueueTypes'
    <3>1. processing' \in [Queues -> BOOLEAN]
      BY <1>0, TopType, Zenon DEF QueueTypes, Note, Life, queueVars, At, Top, TargetTypes
    <3>2. tq' \in [Queues -> Seq(Tasks)]
      <4>1. Top \in Queues
        BY <1>0, TopType DEF TargetTypes, At
      <4>2. tq[Top] \in Seq(Tasks)
        BY <1>0, <4>1 DEF QueueTypes
      <4>3. CASE tq[Top] = <<>>
        BY <1>0, <4>3 DEF QueueTypes
      <4>4. CASE tq[Top] # <<>>
        <5>1. Tail(tq[Top]) \in Seq(Tasks)
          BY <4>2, <4>4
        <5>2. tq' = [tq EXCEPT ![Top] = Tail(tq[Top])]
          BY <4>4
        <5> QED
          BY <1>0, <4>1, <5>1, <5>2, QueueUpdateType DEF QueueTypes
      <4> QED
        BY <4>3, <4>4
    <3>3. note' \in [Queues -> Note]
      BY <1>0, TopType, SMT DEF QueueTypes, Note, Life, queueVars, At, Top, TargetTypes
    <3>4. life' \in [Queues -> Life]
      BY <1>0, TopType, SMT DEF QueueTypes, Note, Life, queueVars, At, Top, TargetTypes
    <3> QED
      BY <3>1, <3>2, <3>3, <3>4 DEF QueueTypes
  <2>6. SendTypes'
    BY <1>0 DEF SendTypes, sendVars
  <2>7. TaskTypes'
    BY <1>0, TopType DEF At, Top, InUserCode, TargetTypes, TaskTypes, taskVars
  <2> QED
    BY <2>2, <2>3, <2>4, <2>5, <2>6, <2>7 DEF TypeOK
<1>22. ASSUME Return PROVE TypeOK'
  <2> USE <1>22 DEF Return
  <2>1. stack' \in Seq(Frames)
    <3>1. stack \in Seq(Frames) /\ stack # <<>> /\ <<>> \in Seq(Frames)
      BY <1>0 DEF TargetTypes, InUserCode, At
    <3> QED
      BY <3>1, GotoType DEF Goto
  <2>2. TargetTypes'
    BY <2>1, <1>0 DEF TargetTypes, Stage, targetVars
  <2>3. MailboxTypes'
    BY <1>0 DEF MailboxTypes, mboxVars
  <2>4. LoopTypes'
    BY <1>0 DEF LoopTypes, loopVars
  <2>5. QueueTypes'
    BY <1>0 DEF QueueTypes, queueVars
  <2>6. SendTypes'
    BY <1>0 DEF SendTypes, sendVars
  <2>7. TaskTypes'
    BY <1>0, TopType DEF At, Top, InUserCode, TargetTypes, TaskTypes, taskVars
  <2> QED
    BY <2>2, <2>3, <2>4, <2>5, <2>6, <2>7 DEF TypeOK
<1>23. ASSUME ShutdownWait PROVE TypeOK'
  <2> USE <1>23 DEF ShutdownWait
  <2>2. TargetTypes'
    <3>1. stage' \in Stage
      BY <1>0 DEF TargetTypes, Stage
    <3>2. sdCount' \in Nat
      BY <1>0 DEF TargetTypes, MailboxTypes
    <3> QED
      BY <3>1, <3>2, <1>0 DEF TargetTypes
  <2>3. MailboxTypes'
    BY <1>0 DEF MailboxTypes, mboxVars
  <2>4. LoopTypes'
    BY <1>0 DEF LoopTypes, loopVars
  <2>5. QueueTypes'
    BY <1>0 DEF QueueTypes, queueVars
  <2>6. SendTypes'
    BY <1>0 DEF SendTypes, sendVars
  <2>7. TaskTypes'
    BY <1>0 DEF TaskTypes, taskVars
  <2> QED
    BY <2>2, <2>3, <2>4, <2>5, <2>6, <2>7 DEF TypeOK
<1>24. ASSUME ShutdownCancel PROVE TypeOK'
  <2> USE <1>24 DEF ShutdownCancel
  <2>1. stack' \in Seq(Frames)
    <3>1. stack \in Seq(Frames)
      BY <1>0 DEF TargetTypes
    <3>2. ASSUME mbox # <<>> PROVE <<Frame("cancel", Head(mbox))>> \in Seq(Frames)
      <4>1. Head(mbox) \in Queues
        BY <1>0, <3>2 DEF MailboxTypes
      <4> QED
        BY <4>1, FrameType
    <3>3. CASE mbox = <<>>
      BY <3>1, <3>3 DEF targetVars
    <3>4. CASE mbox # <<>>
      <4>1. stack' = <<Frame("cancel", Head(mbox))>>
        BY <3>4
      <4> QED
        BY <3>2, <3>4, <4>1
    <3> QED
      BY <3>3, <3>4
  <2>2. TargetTypes'
    BY <2>1, <1>0 DEF TargetTypes, Stage, targetVars
  <2>3. MailboxTypes'
    <3>1. refcount' = refcount /\ mboxLife' = mboxLife
      OBVIOUS
    <3>2. mboxNote' \in Note
      BY <1>0 DEF MailboxTypes, Note
    <3>3. mbox' = mbox \/ (mbox # <<>> /\ mbox' = Tail(mbox))
      OBVIOUS
    <3> HIDE <1>24 DEF ShutdownCancel
    <3>4. mbox' \in Seq(Queues)
      <4>1. mbox \in Seq(Queues)
        BY <1>0 DEF MailboxTypes
      <4>2. mbox # <<>> => Tail(mbox) \in Seq(Queues)
        BY <4>1
      <4> QED
        BY <3>3, <4>1, <4>2, Zenon
    <3> QED
      BY <1>0, <3>1, <3>2, <3>4 DEF MailboxTypes
  <2>4. LoopTypes'
    BY <1>0 DEF LoopTypes, loopVars
  <2>5. QueueTypes'
    BY <1>0 DEF QueueTypes, queueVars
  <2>6. SendTypes'
    BY <1>0 DEF SendTypes, sendVars
  <2>7. TaskTypes'
    BY <1>0 DEF TaskTypes, taskVars
  <2> QED
    BY <2>2, <2>3, <2>4, <2>5, <2>6, <2>7 DEF TypeOK
<1>25. ASSUME CancelQueue PROVE TypeOK'
  <2> USE <1>25 DEF CancelQueue
  <2>1. stack' \in Seq(Frames)
    <3>1. stack \in Seq(Frames)
      BY <1>0 DEF TargetTypes
    <3>2. stack # <<>>
      BY DEF At
    <3>3. <<>> \in Seq(Frames)
      OBVIOUS
    <3> QED
      BY <3>1, <3>2, <3>3, GotoType DEF Goto
  <2>2. TargetTypes'
    BY <2>1, <1>0 DEF TargetTypes, Stage, targetVars
  <2>3. MailboxTypes'
    BY <1>0 DEF MailboxTypes, mboxVars
  <2>4. LoopTypes'
    BY <1>0 DEF LoopTypes, loopVars
  <2>5. QueueTypes'
    <3>1. processing' \in [Queues -> BOOLEAN]
      BY <1>0, TopType, Zenon DEF QueueTypes, Note, Life, queueVars, At, Top, TargetTypes
    <3>2. tq' \in [Queues -> Seq(Tasks)]
      <4>1. Top \in Queues
        BY <1>0, TopType DEF TargetTypes, At
      <4>2. tq[Top] \in Seq(Tasks)
        BY <1>0, <4>1 DEF QueueTypes
      <4>3. CASE tq[Top] = <<>>
        BY <1>0, <4>3 DEF QueueTypes
      <4>4. CASE tq[Top] # <<>>
        <5>1. Tail(tq[Top]) \in Seq(Tasks)
          BY <4>2, <4>4
        <5>2. tq' = [tq EXCEPT ![Top] = Tail(tq[Top])]
          BY <4>4
        <5> HIDE <1>25 DEF CancelQueue
        <5>3. tq \in [Queues -> Seq(Tasks)]
          BY <1>0 DEF QueueTypes
        <5> QED
          BY <4>1, <5>1, <5>2, <5>3, QueueUpdateType
      <4> QED
        BY <4>3, <4>4
    <3>3. note' \in [Queues -> Note]
      <4>1. note' = note \/ note' = [note EXCEPT ![Top] = "NONE"]
        BY Zenon
      <4> HIDE <1>25 DEF CancelQueue
      <4> QED
        BY <1>0, <4>1 DEF QueueTypes, Note
    <3>4. life' \in [Queues -> Life]
      BY <1>0, TopType, SMT DEF QueueTypes, Note, Life, queueVars, At, Top, TargetTypes
    <3> QED
      BY <3>1, <3>2, <3>3, <3>4 DEF QueueTypes
  <2>6. SendTypes'
    BY <1>0 DEF SendTypes, sendVars
  <2>7. TaskTypes'
    BY <1>0, TopType DEF At, Top, InUserCode, TargetTypes, TaskTypes, taskVars
  <2> QED
    BY <2>2, <2>3, <2>4, <2>5, <2>6, <2>7 DEF TypeOK
<1>26. ASSUME ShutdownDestroy PROVE TypeOK'
  <2> USE <1>26 DEF ShutdownDestroy
  <2>2. TargetTypes'
    BY <1>0 DEF TargetTypes, Stage, targetVars
  <2>3. MailboxTypes'
    BY <1>0 DEF MailboxTypes, Note, Life, mboxVars
  <2>4. LoopTypes'
    BY <1>0 DEF LoopTypes, loopVars
  <2>5. QueueTypes'
    BY <1>0 DEF QueueTypes, queueVars
  <2>6. SendTypes'
    BY <1>0 DEF SendTypes, sendVars
  <2>7. TaskTypes'
    BY <1>0 DEF TaskTypes, taskVars
  <2> QED
    BY <2>2, <2>3, <2>4, <2>5, <2>6, <2>7 DEF TypeOK
<1>27. ASSUME ExitBegin PROVE TypeOK'
  <2> USE <1>27 DEF ExitBegin
  <2>1. stack' \in Seq(Frames)
    BY <1>0, GotoType, FrameType, TopType DEF TargetTypes, At, Goto, Top, InUserCode
  <2>2. TargetTypes'
    <3>1. refcount - 1 \in Nat
      BY <1>0 DEF OwnerHolds, MailboxTypes
    <3> QED
      BY <2>1, <3>1, <1>0 DEF TargetTypes, Stage
  <2>3. MailboxTypes'
    <3>1. refcount - 1 \in Nat
      BY <1>0 DEF OwnerHolds, MailboxTypes
    <3> QED
      BY <3>1, <1>0 DEF MailboxTypes, mboxVars
  <2>4. LoopTypes'
    BY <1>0 DEF LoopTypes, loopVars
  <2>5. QueueTypes'
    BY <1>0 DEF QueueTypes, queueVars
  <2>6. SendTypes'
    BY <1>0 DEF SendTypes, sendVars
  <2>7. TaskTypes'
    BY <1>0, TopType DEF At, Top, InUserCode, TargetTypes, TaskTypes, taskVars
  <2> QED
    BY <2>2, <2>3, <2>4, <2>5, <2>6, <2>7 DEF TypeOK
<1>28. ASSUME FreeData PROVE TypeOK'
  <2> USE <1>28 DEF FreeData
  <2>2. TargetTypes'
    BY <1>0 DEF TargetTypes, Stage, targetVars
  <2>3. MailboxTypes'
    BY <1>0 DEF MailboxTypes, mboxVars
  <2>4. LoopTypes'
    BY <1>0 DEF LoopTypes, Await, loopVars
  <2>5. QueueTypes'
    BY <1>0 DEF QueueTypes, queueVars
  <2>6. SendTypes'
    BY <1>0 DEF SendTypes, sendVars
  <2>7. TaskTypes'
    BY <1>0 DEF TaskTypes, taskVars
  <2> QED
    BY <2>2, <2>3, <2>4, <2>5, <2>6, <2>7 DEF TypeOK
<1>29. ASSUME Recreate PROVE TypeOK'
  <2> USE <1>29 DEF Recreate
  <2>2. TargetTypes'
    BY <1>0 DEF TargetTypes, Stage, targetVars
  <2>3. MailboxTypes'
    BY <1>0 DEF MailboxTypes, Note, Life, mboxVars
  <2>4. LoopTypes'
    <3>1. waitingAsync' \in BOOLEAN
      BY <1>0 DEF LoopTypes, Await, loopVars
    <3>2. armed' \in Nat
      BY <1>0 DEF LoopTypes, Await, loopVars
    <3>3. posts' \in Nat /\ events' \in Nat
      BY <1>0 DEF LoopTypes, Await, loopVars
    <3> QED
      BY <3>1, <3>2, <3>3 DEF LoopTypes
  <2>5. QueueTypes'
    BY <1>0 DEF QueueTypes, queueVars
  <2>6. SendTypes'
    BY <1>0 DEF SendTypes, sendVars
  <2>7. TaskTypes'
    BY <1>0 DEF TaskTypes, taskVars
  <2> QED
    BY <2>2, <2>3, <2>4, <2>5, <2>6, <2>7 DEF TypeOK
<1> QED
  BY <1>1, <1>2, <1>3, <1>4, <1>5, <1>6, <1>7, <1>8, <1>9, <1>10, <1>11, <1>12, <1>13, <1>14, <1>15, <1>16, <1>17, <1>18, <1>19, <1>20, <1>21, <1>22, <1>23, <1>24, <1>25, <1>26, <1>27, <1>28, <1>29 DEF Next, Send, TargetStep

-----------------------------------------------------------------------------
(***************************************************************************)
(* The reference count and the closing of the mailbox                      *)
(***************************************************************************)
\* A thread holds at most one reference, so the holders are finitely many.
LEMMA HoldersFinite == IsFiniteSet(Holders) /\ Cardinality(Holders) \in Nat
<1>1. IsFiniteSet(Threads)
  BY MailboxAssumption, FS_AddElement DEF MailboxAssumption, Threads
<1>2. Holders \subseteq Threads
  BY DEF Holders
<1> QED
  BY <1>1, <1>2, FS_Subset, FS_CardinalityType

\* The count is positive as long as someone holds a reference.
LEMMA CountPositive ==
  ASSUME RefcountInv
  PROVE  OwnerHolds \/ Holders # {} => refcount > 0
<1>1. Holders # {} => Cardinality(Holders) > 0
  BY HoldersFinite, FS_EmptySet
<1> QED
  BY <1>1, HoldersFinite DEF RefcountInv

\* A new mailbox: the owner's reference and nobody else's
\* (_emscripten_thread_mailbox_init).
LEMMA RefcountInit == Init => RefcountInv
<1> SUFFICES ASSUME Init PROVE RefcountInv
  OBVIOUS
<1>1. Holders = {}
  BY DEF Init, Holders, Holds, InSend
<1>2. Cardinality(Holders) = 0
  BY <1>1, FS_EmptySet
<1> QED
  BY <1>2 DEF Init, RefcountInv, OwnerHolds

\* A step that leaves the holders and the count alone keeps the invariant if it
\* moves the Target's life only forward, between two waits.
LEMMA RefcountKept ==
  ASSUME TypeOK, RefcountInv, Holders' = Holders, refcount' = refcount,
         OwnerHolds' = OwnerHolds, mboxLife' = mboxLife,
         stage' \in {"sd_wait", "sd_asleep"} /\ sdCount' = 0 => refcount = 0,
         stage' \in {"sd_cancel", "sd_destroy", "closed", "freed"} => refcount = 0,
         stage' \notin {"closed", "freed"} => stage \notin {"closed", "freed"}
  PROVE  RefcountInv'
  BY DEF RefcountInv

\* Every step of a sender, of the event loop and of the shutdown keeps the count
\* equal to the references held.
LEMMA RefcountStep ==
  ASSUME TypeOK, RefcountInv, Next
  PROVE  RefcountInv'
<1>0. TargetTypes /\ MailboxTypes /\ SendTypes
  BY DEF TypeOK
\* Steps that change neither the holders, nor the count, nor the life.
<1>1. ASSUME UNCHANGED <<stage, sdCount, refcount, mboxLife>>, Holders' = Holders
      PROVE  RefcountInv'
  BY <1>1, RefcountKept DEF RefcountInv, OwnerHolds
<1>2. ASSUME UNCHANGED <<stage, sdCount, refcount, mboxLife, pc>>
      PROVE  RefcountInv'
  BY <1>1, <1>2 DEF Holders, Holds
<1>3. ASSUME NEW q \in Queues, CreateQueue(q) \/ DestroyQueue(q) \/ ExecuteQueue(q)
      PROVE  RefcountInv'
  BY <1>2, <1>3 DEF CreateQueue, DestroyQueue, ExecuteQueue, targetVars, mboxVars, sendVars
<1>4. ASSUME NEW s \in Threads, NEW q \in Queues, NEW t \in Tasks, SendRef(s, q, t)
      PROVE  RefcountInv'
  <2> USE <1>4 DEF SendRef, targetVars
  <2>1. CASE refcount = 0
    BY <2>1, <1>2
  <2>2. CASE refcount # 0
    <3>1. s \notin Holders /\ Holders' = Holders \union {s}
      BY <2>2, <1>0 DEF CanCall, Holders, Holds, InSend, SendTypes
    <3>2. Cardinality(Holders') = Cardinality(Holders) + 1
      BY <3>1, HoldersFinite, FS_AddElement
    <3>3. refcount' = refcount + 1 /\ UNCHANGED <<stage, sdCount, mboxLife>>
      BY <2>2
    <3> QED
      BY <3>2, <3>3, <2>2, <1>0, HoldersFinite DEF RefcountInv, OwnerHolds, MailboxTypes
  <2> QED
    BY <2>1, <2>2
<1>5. ASSUME NEW s \in Threads,
             SendEnqueue(s) \/ SendNotify(s) \/ MailboxEnqueue(s) \/ MailboxNotify(s)
             \/ MailboxWake(s)
      PROVE  RefcountInv'
  <2>1. Holders' = Holders
    BY <1>5, <1>0 DEF SendEnqueue, SendNotify, MailboxEnqueue, MailboxNotify, MailboxWake,
       Step, Holders, Holds, InSend, SendTypes
  <2> QED
    BY <2>1, <1>1, <1>5 DEF SendEnqueue, SendNotify, MailboxEnqueue, MailboxNotify,
       MailboxWake, targetVars, mboxVars
<1>6. ASSUME NEW s \in Threads, SendUnref(s)
      PROVE  RefcountInv'
  <2>1. s \in Holders /\ Holders' = Holders \ {s}
    BY <1>6, <1>0 DEF SendUnref, Holders, Holds, InSend, SendTypes
  <2>2. Cardinality(Holders') = Cardinality(Holders) - 1
    BY <2>1, HoldersFinite, FS_RemoveElement
  <2>3. Cardinality(Holders) > 0
    BY <2>1, HoldersFinite, FS_EmptySet
  <2>4. refcount' = refcount - 1 /\ UNCHANGED <<stage, sdCount, mboxLife>>
    BY <1>6 DEF SendUnref, targetVars
  <2> QED
    BY <2>2, <2>3, <2>4, <1>0, HoldersFinite DEF RefcountInv, OwnerHolds, MailboxTypes
<1>7. ASSUME NEW s \in Threads, SendFutexWake(s)
      PROVE  RefcountInv'
  <2>1. Holders' = Holders
    BY <1>7, <1>0 DEF SendFutexWake, Step, Holders, Holds, InSend, SendTypes
  <2>2. UNCHANGED <<refcount, mboxLife, sdCount>> /\ OwnerHolds' = OwnerHolds
    BY <1>7 DEF SendFutexWake, mboxVars, OwnerHolds
  <2> QED
    BY <2>1, <2>2, <1>7, RefcountKept DEF SendFutexWake, RefcountInv
<1>8. ASSUME Spawn \/ Run
      PROVE  RefcountInv'
  <2>1. Holders' = Holders /\ UNCHANGED <<refcount, mboxLife, sdCount>>
    BY <1>8 DEF Spawn, Run, Holders, Holds, sendVars, mboxVars
  <2>2. OwnerHolds' = OwnerHolds
    BY <1>8 DEF Spawn, Run, OwnerHolds
  <2> QED
    BY <2>1, <2>2, <1>8, RefcountKept DEF Spawn, Run, RefcountInv
<1>9. ASSUME RoutePost \/ CheckMailbox \/ CheckReceive \/ CheckExecute \/ CheckDone
             \/ Receive \/ ReceiveDone \/ Execute \/ Return \/ CancelQueue
      PROVE  RefcountInv'
  BY <1>9, <1>2 DEF RoutePost, CheckMailbox, CheckReceive, CheckExecute, CheckDone, Receive,
     ReceiveDone, Execute, Return, CancelQueue, targetVars, mboxVars, sendVars
<1>10. ASSUME ExitBegin
       PROVE  RefcountInv'
  <2>1. Holders' = Holders
    BY <1>10 DEF ExitBegin, Holders, Holds, sendVars
  <2>2. refcount = Cardinality(Holders) + 1
    BY <1>10 DEF ExitBegin, RefcountInv, OwnerHolds
  <2> QED
    BY <2>1, <2>2, <1>10, HoldersFinite DEF ExitBegin, RefcountInv, OwnerHolds
<1>11. ASSUME ShutdownWait
       PROVE  RefcountInv'
  <2>1. Holders' = Holders /\ UNCHANGED <<refcount, mboxLife>> /\ OwnerHolds' = OwnerHolds
    BY <1>11 DEF ShutdownWait, Holders, Holds, sendVars, mboxVars, OwnerHolds
  <2> QED
    BY <2>1, <1>11, RefcountKept DEF ShutdownWait, RefcountInv
<1>12. ASSUME ShutdownCancel
       PROVE  RefcountInv'
  <2>1. Holders' = Holders /\ UNCHANGED <<refcount, mboxLife>> /\ OwnerHolds' = OwnerHolds
    BY <1>12 DEF ShutdownCancel, Holders, Holds, sendVars, OwnerHolds
  <2> QED
    BY <2>1, <1>12, RefcountKept DEF ShutdownCancel, RefcountInv
<1>13. ASSUME ShutdownDestroy
       PROVE  RefcountInv'
  <2>1. Holders' = Holders /\ refcount' = refcount
    BY <1>13 DEF ShutdownDestroy, Holders, Holds, sendVars
  <2> QED
    BY <2>1, <1>13 DEF ShutdownDestroy, RefcountInv, OwnerHolds
<1>14. ASSUME FreeData
       PROVE  RefcountInv'
  <2>1. Holders' = Holders /\ UNCHANGED <<refcount, mboxLife>>
    BY <1>14 DEF FreeData, Holders, Holds, sendVars, mboxVars
  <2> QED
    BY <2>1, <1>14 DEF FreeData, RefcountInv, OwnerHolds
<1>15. ASSUME Recreate
       PROVE  RefcountInv'
  <2>1. Holders' = Holders
    BY <1>15 DEF Recreate, Holders, Holds, sendVars
  <2>2. Cardinality(Holders) = 0
    BY <1>15, HoldersFinite DEF Recreate, RefcountInv, OwnerHolds
  <2> QED
    BY <2>1, <2>2, <1>15 DEF Recreate, RefcountInv, OwnerHolds
<1> QED
  BY <1>3, <1>4, <1>5, <1>6, <1>7, <1>8, <1>9, <1>10, <1>11, <1>12, <1>13, <1>14, <1>15
  DEF Next, Send, TargetStep

\* Steps that change nothing change no invariant.
LEMMA Stutter ==
  ASSUME TypeOK, RefcountInv, UNCHANGED vars
  PROVE  TypeOK' /\ RefcountInv'
<1> USE DEF vars, targetVars, mboxVars, loopVars, queueVars, sendVars, taskVars
<1>1. TypeOK'
  BY DEF TypeOK, TargetTypes, MailboxTypes, LoopTypes, QueueTypes, SendTypes, TaskTypes
<1>2. Holders' = Holders
  BY DEF Holders, Holds
<1> QED
  BY <1>1, <1>2 DEF RefcountInv, OwnerHolds

\* The types and the reference count's invariant hold in every behaviour.
THEOREM RefcountInvariant == Spec => [](TypeOK /\ RefcountInv)
<1>1. Init => TypeOK /\ RefcountInv
  BY TypeInit, RefcountInit
<1>2. TypeOK /\ RefcountInv /\ [Next]_vars => TypeOK' /\ RefcountInv'
  BY TypeStep, CountPositive, RefcountStep, Stutter
<1> QED
  BY <1>1, <1>2, PTL DEF Spec

\* No variable leaves its range; in particular mailbox_refcount never goes below
\* zero, which emscripten_thread_mailbox_unref asserts.
THEOREM TypeCorrect == Spec => []TypeOK
  BY RefcountInvariant, PTL

\* A thread that holds a reference finds the mailbox allocated and open: the
\* exiting thread cancels and frees its mailbox only after the last holder has
\* dropped its reference, and no holder appears after that
\* (_emscripten_thread_mailbox_shutdown, emscripten_thread_mailbox_ref).
THEOREM HoldersSafe == Spec => []HoldersKeepMailboxOpen
<1>1. TypeOK /\ RefcountInv => HoldersKeepMailboxOpen
  <2> SUFFICES ASSUME TypeOK, RefcountInv, Holders # {} 
               PROVE  /\ mboxLife = "live"
                      /\ stage \in {"created", "spawned", "running", "sd_wait", "sd_asleep"}
    BY DEF HoldersKeepMailboxOpen
  <2>1. refcount > 0
    BY CountPositive
  <2>2. stage \in Stage
    BY DEF TypeOK, TargetTypes
  <2> QED
    BY <2>1, <2>2 DEF RefcountInv, Stage
<1> QED
  BY <1>1, RefcountInvariant, PTL

-----------------------------------------------------------------------------
(***************************************************************************)
(* The task queues of Mailbox as the mailbox refers to them: a queue is in *)
(* the hands of one message at most, and is not freed meanwhile.  For any  *)
(* number of senders, queues and tasks.                                    *)
(***************************************************************************)

\* A message in the mailbox names queue q; the Target has taken such a message
\* and not yet marked the notification received, or canceled it.
Named(q) == \E i \in DOMAIN mbox : mbox[i] = q
Taken(q) == OnStack("recv", q) \/ OnStack("cancel", q)

\* Thread s is about to put the message that names q in the mailbox.
Sends(s, q) == pc[s] = "msend" /\ job[s].queue = q

\* The frames that the event loop makes.
Bottom == {"user", "check", "mexec", "mdone", "cancel"}

\* Where a frame can be on the Target's stack: the event loop calls the entry point
\* and the functions of the mailbox, and em_task_queue_execute on the mailbox calls
\* the handlers of a message; only tasks, and what they call, are above them.
StackShape ==
    \A i \in DOMAIN stack :
        /\ stack[i].at \in {"recv", "rdone"} => i + 1 = Len(stack) /\ stack[i + 1].at = "mexec"
        /\ stack[i].at \in Bottom => i = Len(stack)

\* The notification flag of a queue is a token: one sender, one message or one
\* handler has it, until the handler clears the flag.
TokenInv ==
    /\ OneMessagePerQueue
    /\ \A q \in Queues : Named(q) \/ Taken(q) => note[q] = "PENDING"
    /\ \A q \in Queues : ~(Named(q) /\ Taken(q))
    /\ \A s \in Threads, q \in Queues :
          Sends(s, q) => /\ note[q] = "PENDING" /\ ~Named(q) /\ ~Taken(q)
                         /\ \A r \in Threads : Sends(r, q) => r = s

\* What keeps a queue allocated: being sent to keeps it from being destroyed, a
\* notification that is not cleared keeps a destroyed queue on the zombie list.
LifeInv ==
    \A q \in Queues :
        /\ Named(q) \/ Taken(q) \/ OnStack("rdone", q) => life[q] \in {"live", "zombie"}
        /\ OnStack("rdone", q) => note[q] # "NONE"
        /\ Sending(q) => life[q] = "live"
        /\ OnStack("exec", q) => life[q] = "live" \/ OnStack("rdone", q)

QueueInv == StackShape /\ TokenInv /\ LifeInv

-----------------------------------------------------------------------------
(***************************************************************************)
(* The stack                                                               *)
(***************************************************************************)
\* The frames after the innermost one is replaced by one, two or no frames.
LEMMA GotoAt ==
  ASSUME stack \in Seq(Frames), stack # <<>>, NEW fs \in Seq(Frames), Goto(fs)
  PROVE  /\ Len(stack') = Len(fs) + Len(stack) - 1
         /\ \A i \in 1..Len(fs) : stack'[i] = fs[i]
         /\ \A i \in (Len(fs) + 1)..Len(stack') : stack'[i] = stack[i - Len(fs) + 1]
<1>1. Len(Tail(stack)) = Len(stack) - 1 /\ Tail(stack) \in Seq(Frames)
  OBVIOUS
<1>2. \A i \in 1..(Len(stack) - 1) : Tail(stack)[i] = stack[i + 1]
  OBVIOUS
<1>3. Len(stack') = Len(fs) + Len(stack) - 1
  BY <1>1 DEF Goto
<1>4. \A i \in 1..Len(fs) : stack'[i] = fs[i]
  BY <1>1 DEF Goto
<1>5. ASSUME NEW i \in (Len(fs) + 1)..Len(stack')
      PROVE  stack'[i] = stack[i - Len(fs) + 1]
  <2>1. stack'[i] = Tail(stack)[i - Len(fs)]
    BY <1>1, <1>3 DEF Goto
  <2> QED
    BY <1>2, <1>3, <2>1
<1> QED
  BY <1>3, <1>4, <1>5

\* The innermost frame is one of the frames on the stack.
LEMMA TopOnStack ==
  ASSUME stack \in Seq(Frames), NEW at, At(at)
  PROVE  OnStack(at, Top) /\ stack[1] = Frame(at, Top) /\ stack[1] = Head(stack)
<1>1. 1 \in DOMAIN stack /\ Head(stack) = stack[1] /\ stack[1] \in Frames
  BY DEF At
<1>2. \A f \in Frames : f = [at |-> f.at, of |-> f.of]
  BY DEF Frames, User, Frame
<1>3. stack[1] = Frame(at, Top)
  BY <1>1, <1>2, Zenon DEF At, Top, Frame
<1> QED
  BY <1>1, <1>3 DEF OnStack

\* A return removes the innermost frame and leaves the others.
LEMMA ReturnFrames ==
  ASSUME stack \in Seq(Frames), stack # <<>>, Goto(<<>>)
  PROVE  \A at, of : OnStack(at, of) <=> OnStack(at, of)' \/ Head(stack) = Frame(at, of)
<1>0. <<>> \in Seq(Frames)
  OBVIOUS
<1>1. /\ Len(stack') = Len(stack) - 1
      /\ \A i \in 1..Len(stack') : stack'[i] = stack[i + 1]
  <2>1. stack' = Tail(stack)
    BY DEF Goto
  <2> QED
    BY <2>1
<1>2. DOMAIN stack' = 1..Len(stack')
  <2>1. stack' \in Seq(Frames)
    BY <1>0, GotoType
  <2> QED
    BY <2>1
<1>3. Head(stack) = stack[1] /\ DOMAIN stack = 1..Len(stack) /\ Len(stack) \in Nat \ {0}
  OBVIOUS
<1> SUFFICES ASSUME NEW at, NEW of
             PROVE  OnStack(at, of) <=> OnStack(at, of)' \/ Head(stack) = Frame(at, of)
  OBVIOUS
<1> DEFINE f == Frame(at, of)
<1>4. ASSUME NEW i \in DOMAIN stack, stack[i] = f
      PROVE  OnStack(at, of)' \/ Head(stack) = f
  <2>1. CASE i = 1
    BY <1>3, <1>4, <2>1
  <2>2. CASE i # 1
    <3>1. i - 1 \in 1..Len(stack') /\ stack'[i - 1] = stack[i]
      BY <1>1, <1>3, <2>2
    <3> QED
      BY <1>2, <1>4, <3>1 DEF OnStack
  <2> QED
    BY <2>1, <2>2
<1>5. ASSUME NEW i \in DOMAIN stack', stack'[i] = f
      PROVE  OnStack(at, of)
  <2>1. i + 1 \in DOMAIN stack /\ stack[i + 1] = f
    BY <1>1, <1>2, <1>3, <1>5
  <2> QED
    BY <2>1 DEF OnStack
<1>6. Head(stack) = f => OnStack(at, of)
  BY <1>3 DEF OnStack
<1> QED
  BY <1>4, <1>5, <1>6 DEF OnStack

\* A call puts a frame above the others.
LEMMA CallFrames ==
  ASSUME stack \in Seq(Frames), NEW f \in Frames, stack' = <<f>> \o stack
  PROVE  \A at, of : OnStack(at, of)' <=> OnStack(at, of) \/ f = Frame(at, of)
<1>1. /\ Len(stack') = Len(stack) + 1 /\ DOMAIN stack' = 1..Len(stack')
      /\ DOMAIN stack = 1..Len(stack) /\ Len(stack) \in Nat
      /\ stack'[1] = f
      /\ \A i \in 1..Len(stack) : stack'[i + 1] = stack[i]
  OBVIOUS
<1> SUFFICES ASSUME NEW at, NEW of
             PROVE  OnStack(at, of)' <=> OnStack(at, of) \/ f = Frame(at, of)
  OBVIOUS
<1> HIDE DEF Frame
<1>2. ASSUME NEW i \in DOMAIN stack', stack'[i] = Frame(at, of)
      PROVE  OnStack(at, of) \/ f = Frame(at, of)
  <2>1. CASE i = 1
    BY <1>1, <1>2, <2>1
  <2>2. CASE i # 1
    <3>1. i - 1 \in DOMAIN stack /\ stack[i - 1] = Frame(at, of)
      BY <1>1, <1>2, <2>2
    <3> QED
      BY <3>1 DEF OnStack
  <2> QED
    BY <2>1, <2>2
<1>3. ASSUME NEW i \in DOMAIN stack, stack[i] = Frame(at, of)
      PROVE  OnStack(at, of)'
  <2>1. i + 1 \in DOMAIN stack' /\ stack'[i + 1] = Frame(at, of)
    BY <1>1, <1>3
  <2> QED
    BY <2>1 DEF OnStack
<1>4. f = Frame(at, of) => OnStack(at, of)'
  <2>1. 1 \in DOMAIN stack'
    BY <1>1
  <2> QED
    BY <1>1, <2>1 DEF OnStack
<1> QED
  BY <1>2, <1>3, <1>4 DEF OnStack

\* A call of a task from its queue's loop puts the task above the queue's frame.
LEMMA BeginFrames ==
  ASSUME stack \in Seq(Frames), stack # <<>>, NEW t \in Tasks,
         Goto(<<Frame("task", t), Head(stack)>>)
  PROVE  /\ stack' = <<Frame("task", t)>> \o stack
         /\ Frame("task", t) \in Frames
<1>1. Frame("task", t) \in Frames
  BY FrameType
<1>2. Head(stack) \in Frames
  OBVIOUS
<1>3. stack' = <<Frame("task", t), Head(stack)>> \o Tail(stack)
  BY DEF Goto
<1> HIDE DEF Frame
<1> QED
  BY <1>1, <1>2, <1>3

\* What is on the stack when a function of the mailbox is the innermost frame.
LEMMA ShapeTop ==
  ASSUME stack \in Seq(Frames), StackShape
  PROVE  /\ \A at \in {"user", "check", "mexec", "mdone", "cancel"} :
               At(at) => stack = <<Frame(at, Top)>>
         /\ \A at \in {"recv", "rdone"} :
               At(at) => stack = <<Frame(at, Top), Frame("mexec", Target)>>
<1>1. ASSUME NEW at \in {"user", "check", "mexec", "mdone", "cancel"}, At(at)
      PROVE  stack = <<Frame(at, Top)>>
  <2>1. stack[1] = Frame(at, Top) /\ stack[1].at = at /\ 1 \in DOMAIN stack
    BY <1>1, TopOnStack DEF Frame, OnStack
  <2>2. Len(stack) = 1
    BY <2>1 DEF StackShape, Bottom
  <2> QED
    BY <2>1, <2>2
<1>2. ASSUME NEW at \in {"recv", "rdone"}, At(at)
      PROVE  stack = <<Frame(at, Top), Frame("mexec", Target)>>
  <2>1. stack[1] = Frame(at, Top) /\ stack[1].at = at /\ 1 \in DOMAIN stack
    BY <1>2, TopOnStack DEF Frame, OnStack
  <2>2. Len(stack) = 2 /\ stack[2].at = "mexec"
    <3>1. 1 + 1 = Len(stack) /\ stack[1 + 1].at = "mexec"
      BY <2>1, Zenon DEF StackShape
    <3>2. 1 + 1 = 2
      OBVIOUS
    <3> QED
      BY <3>1, <3>2
  <2>3. stack[2] \in Frames
    <3>1. 2 \in 1..Len(stack)
      BY <2>2
    <3>2. DOMAIN stack = 1..Len(stack) /\ stack \in [1..Len(stack) -> Frames]
      OBVIOUS
    <3> QED
      BY <3>1, <3>2
  <2>4. \A f \in Frames : f.at = "mexec" => f = Frame("mexec", Target)
    BY DEF Frames, User, Frame
  <2>5. stack[2] = Frame("mexec", Target)
    BY <2>2, <2>3, <2>4
  <2> QED
    BY <2>1, <2>2, <2>5
<1> QED
  BY <1>1, <1>2

\* A return keeps the shape of the stack.
LEMMA ShapeReturn ==
  ASSUME stack \in Seq(Frames), stack # <<>>, StackShape, Goto(<<>>)
  PROVE  StackShape'
<1>1. stack' = Tail(stack)
  BY DEF Goto
<1>2. /\ Len(stack') = Len(stack) - 1 /\ DOMAIN stack' = 1..Len(stack')
      /\ DOMAIN stack = 1..Len(stack) /\ Len(stack) \in Nat
      /\ \A i \in 1..Len(stack') : stack'[i] = stack[i + 1]
  BY <1>1
<1> SUFFICES ASSUME NEW i \in DOMAIN stack'
             PROVE  /\ stack'[i].at \in {"recv", "rdone"} =>
                          i + 1 = Len(stack') /\ stack'[i + 1].at = "mexec"
                    /\ stack'[i].at \in Bottom => i = Len(stack')
  BY DEF StackShape
<1>3. i + 1 \in DOMAIN stack /\ stack'[i] = stack[i + 1]
  BY <1>2
<1>4. /\ stack'[i].at \in {"recv", "rdone"} =>
            (i + 1) + 1 = Len(stack) /\ stack[(i + 1) + 1].at = "mexec"
      /\ stack'[i].at \in Bottom => i + 1 = Len(stack)
  BY <1>3, Zenon DEF StackShape
<1>5. ASSUME stack'[i].at \in {"recv", "rdone"}
      PROVE  i + 1 = Len(stack') /\ stack'[i + 1].at = "mexec"
  <2>1. i + 1 = Len(stack') /\ i + 1 \in 1..Len(stack')
    BY <1>2, <1>4, <1>5
  <2>2. stack'[i + 1] = stack[(i + 1) + 1]
    BY <1>2, <2>1
  <2> QED
    BY <1>4, <1>5, <2>1, <2>2
<1>6. stack'[i].at \in Bottom => i = Len(stack')
  BY <1>2, <1>4
<1> QED
  BY <1>5, <1>6

\* So does a call of a task, and of the loop over a queue's tasks.
LEMMA ShapeCall ==
  ASSUME stack \in Seq(Frames), StackShape, NEW f \in Frames, f.at \in {"task", "exec"},
         stack' = <<f>> \o stack
  PROVE  StackShape'
<1>1. /\ Len(stack') = Len(stack) + 1 /\ DOMAIN stack' = 1..Len(stack')
      /\ DOMAIN stack = 1..Len(stack) /\ Len(stack) \in Nat
      /\ stack'[1] = f
      /\ \A i \in 1..Len(stack) : stack'[i + 1] = stack[i]
  OBVIOUS
<1> SUFFICES ASSUME NEW i \in DOMAIN stack'
             PROVE  /\ stack'[i].at \in {"recv", "rdone"} =>
                          i + 1 = Len(stack') /\ stack'[i + 1].at = "mexec"
                    /\ stack'[i].at \in Bottom => i = Len(stack')
  BY DEF StackShape
<1>2. CASE i = 1
  BY <1>1, <1>2 DEF Bottom
<1>3. CASE i # 1
  <2> DEFINE k == i - 1
  <2>1. k \in DOMAIN stack /\ k + 1 = i /\ stack'[i] = stack[k]
    <3>1. k \in 1..Len(stack) /\ k + 1 = i
      BY <1>1, <1>3
    <3> QED
      BY <1>1, <3>1
  <2>2. /\ stack'[i].at \in {"recv", "rdone"} =>
              k + 1 = Len(stack) /\ stack[k + 1].at = "mexec"
        /\ stack'[i].at \in Bottom => k = Len(stack)
    BY <2>1, Zenon DEF StackShape
  <2>3. ASSUME stack'[i].at \in {"recv", "rdone"}
        PROVE  i + 1 = Len(stack') /\ stack'[i + 1].at = "mexec"
    <3>1. i = Len(stack) /\ stack[i].at = "mexec"
      BY <2>1, <2>2, <2>3
    <3>2. i \in 1..Len(stack)
      BY <1>1, <3>1
    <3>3. stack'[i + 1] = stack[i]
      BY <1>1, <3>2
    <3> QED
      BY <1>1, <3>1, <3>3
  <2>4. stack'[i].at \in Bottom => i = Len(stack')
    BY <1>1, <2>1, <2>2
  <2> QED
    BY <2>3, <2>4
<1> QED
  BY <1>2, <1>3

\* Which frames are on a stack of a few frames.
LEMMA FewFrames ==
  /\ stack = <<>> => \A at, of : ~OnStack(at, of)
  /\ \A a, b : stack = <<Frame(a, b)>> =>
        \A at, of : OnStack(at, of) <=> at = a /\ of = b
  /\ \A a, b, c, d : stack = <<Frame(a, b), Frame(c, d)>> =>
        \A at, of : OnStack(at, of) <=> (at = a /\ of = b) \/ (at = c /\ of = d)
<1>1. stack = <<>> => \A at, of : ~OnStack(at, of)
  BY DEF OnStack
<1>2. ASSUME NEW a, NEW b, stack = <<Frame(a, b)>>, NEW at, NEW of
      PROVE  OnStack(at, of) <=> at = a /\ of = b
  BY <1>2 DEF OnStack, Frame
<1>3. ASSUME NEW a, NEW b, NEW c, NEW d, stack = <<Frame(a, b), Frame(c, d)>>, NEW at, NEW of
      PROVE  OnStack(at, of) <=> (at = a /\ of = b) \/ (at = c /\ of = d)
  BY <1>3 DEF OnStack, Frame
<1> QED
  BY <1>1, <1>2, <1>3

\* The same of the stack after a step.
LEMMA FewFramesNext ==
  /\ stack' = <<>> => \A at, of : ~OnStack(at, of)'
  /\ \A a, b : stack' = <<Frame(a, b)>> =>
        \A at, of : OnStack(at, of)' <=> at = a /\ of = b
  /\ \A a, b, c, d : stack' = <<Frame(a, b), Frame(c, d)>> =>
        \A at, of : OnStack(at, of)' <=> (at = a /\ of = b) \/ (at = c /\ of = d)
  /\ \A a, b, c, d, e, f : stack' = <<Frame(a, b), Frame(c, d), Frame(e, f)>> =>
        \A at, of : OnStack(at, of)' <=> \/ at = a /\ of = b
                                         \/ at = c /\ of = d
                                         \/ at = e /\ of = f
<1>1. stack' = <<>> => \A at, of : ~OnStack(at, of)'
  BY DEF OnStack
<1>2. ASSUME NEW a, NEW b, stack' = <<Frame(a, b)>>, NEW at, NEW of
      PROVE  OnStack(at, of)' <=> at = a /\ of = b
  BY <1>2 DEF OnStack, Frame
<1>3. ASSUME NEW a, NEW b, NEW c, NEW d, stack' = <<Frame(a, b), Frame(c, d)>>, NEW at, NEW of
      PROVE  OnStack(at, of)' <=> (at = a /\ of = b) \/ (at = c /\ of = d)
  BY <1>3 DEF OnStack, Frame
<1>4. ASSUME NEW a, NEW b, NEW c, NEW d, NEW e, NEW f,
             stack' = <<Frame(a, b), Frame(c, d), Frame(e, f)>>, NEW at, NEW of
      PROVE  OnStack(at, of)' <=> \/ at = a /\ of = b
                                  \/ at = c /\ of = d
                                  \/ at = e /\ of = f
  BY <1>4 DEF OnStack, Frame
<1> QED
  BY <1>1, <1>2, <1>3, <1>4

\* Calls and returns on a stack of a few frames.
LEMMA FewCalls ==
  /\ \A f : Tail(<<f>>) = <<>>
  /\ \A f, g : Tail(<<f, g>>) = <<g>>
  /\ <<>> \o <<>> = <<>>
  /\ \A f : <<>> \o <<f>> = <<f>> /\ <<f>> \o <<>> = <<f>>
  /\ \A f, g : <<f, g>> \o <<>> = <<f, g>>
  /\ \A f, g, h : <<f, g>> \o <<h>> = <<f, g, h>>
<1>1. ASSUME NEW f
      PROVE  Tail(<<f>>) = <<>> /\ <<>> \o <<f>> = <<f>> /\ <<f>> \o <<>> = <<f>>
  OBVIOUS
<1>2. ASSUME NEW f, NEW g
      PROVE  Tail(<<f, g>>) = <<g>>
  OBVIOUS
<1>3. ASSUME NEW f, NEW g
      PROVE  <<f, g>> \o <<>> = <<f, g>>
  OBVIOUS
<1>4. ASSUME NEW f, NEW g, NEW h
      PROVE  <<f, g>> \o <<h>> = <<f, g, h>>
  <2> DEFINE S == {f, g, h}
             c == <<f, g>> \o <<h>>
  <2>1. <<f, g>> \in Seq(S) /\ <<h>> \in Seq(S) /\ <<f, g, h>> \in Seq(S)
    OBVIOUS
  <2>2. c \in Seq(S) /\ Len(c) = 3 /\ c[1] = f /\ c[2] = g /\ c[3] = h
    BY <2>1
  <2>3. Len(<<f, g, h>>) = 3
    OBVIOUS
  <2> HIDE DEF c
  <2>4. \A i \in 1..3 : c[i] = <<f, g, h>>[i]
    BY <2>2
  <2>5. c = <<f, g, h>>
    BY <2>1, <2>2, <2>3, <2>4
  <2> QED
    BY <2>5 DEF c
<1>5. <<>> \o <<>> = <<>>
  OBVIOUS
<1> QED
  BY <1>1, <1>2, <1>3, <1>4, <1>5, Zenon

\* Frames are told apart by their function and what it works on.
LEMMA FrameEqual ==
  /\ \A a, b, c, d : Frame(a, b) = Frame(c, d) <=> a = c /\ b = d
  /\ \A a, b : Frame(a, b).at = a /\ Frame(a, b).of = b
  BY DEF Frame

-----------------------------------------------------------------------------
(***************************************************************************)
(* The frames after each step of the Target                                *)
(***************************************************************************)
\* The event loop calls the entry point.
LEMMA RunFrames ==
  ASSUME Run
  PROVE  StackShape' /\ \A at, of : OnStack(at, of)' <=> at = "user" /\ of = Target
<1>1. stack' = <<Frame("user", Target)>>
  BY DEF Run, User
<1>2. StackShape'
  BY <1>1, FrameEqual DEF StackShape, Bottom
<1> QED
  BY <1>1, <1>2, FewFramesNext

\* A callback of the event loop looks into the mailbox, or finds no thread.
LEMMA CheckMailboxFrames ==
  ASSUME CheckMailbox, StackShape
  PROVE  StackShape' /\ \A at, of : OnStack(at, of)' => at = "check" /\ of = Target
<1>1. stack = <<>> /\ (stack' = <<>> \/ stack' = <<Frame("check", Target)>>)
  BY DEF CheckMailbox
<1>2. CASE stack' = <<>>
  BY <1>2, FewFramesNext DEF StackShape, Bottom
<1>3. CASE stack' = <<Frame("check", Target)>>
  <2>1. StackShape'
    BY <1>3, FrameEqual DEF StackShape, Bottom
  <2> QED
    BY <1>3, <2>1, FewFramesNext
<1> QED
  BY <1>1, <1>2, <1>3

\* _emscripten_check_mailbox has marked the mailbox received.
LEMMA CheckReceiveFrames ==
  ASSUME stack \in Seq(Frames), StackShape, CheckReceive
  PROVE  /\ stack' = <<Frame("mexec", Target)>>
         /\ StackShape' /\ \A at, of : OnStack(at, of)' <=> at = "mexec" /\ of = Target
<1>1. stack = <<Frame("check", Top)>>
  BY ShapeTop DEF CheckReceive
<1>2. stack' = <<Frame("mexec", Target)>>
  BY <1>1, FewCalls DEF CheckReceive, Goto
<1>3. StackShape'
  BY <1>2, FrameEqual DEF StackShape, Bottom
<1> QED
  BY <1>2, <1>3, FewFramesNext

\* Its loop takes a message, or ends.
LEMMA CheckExecuteFrames ==
  ASSUME stack \in Seq(Frames), StackShape, CheckExecute
  PROVE  /\ StackShape'
         /\ \A at, of : OnStack(at, of) <=> at = "mexec" /\ of = Target
         /\ mbox = <<>> => \A at, of : OnStack(at, of)' <=> at = "mdone" /\ of = Target
         /\ mbox # <<>> =>
               /\ stack' = <<Frame("recv", Head(mbox)), Frame("mexec", Target)>>
               /\ \A at, of : OnStack(at, of)' <=> \/ at = "recv" /\ of = Head(mbox)
                                                   \/ at = "mexec" /\ of = Target
<1>1. stack = <<Frame("mexec", Top)>> /\ Top = Target
  <2>1. stack = <<Frame("mexec", Top)>>
    BY ShapeTop DEF CheckExecute
  <2>2. \A f \in Frames : f.at = "mexec" => f.of = Target
    BY DEF Frames, User, Frame
  <2>3. Head(stack) \in Frames /\ Head(stack).at = "mexec"
    BY DEF CheckExecute, At
  <2> QED
    BY <2>1, <2>2, <2>3 DEF Top
<1>2. \A at, of : OnStack(at, of) <=> at = "mexec" /\ of = Target
  BY <1>1, FewFrames
<1>3. Tail(stack) = <<>>
  BY <1>1, FewCalls
<1>4. CASE mbox = <<>>
  <2>1. stack' = <<Frame("mdone", Target)>>
    BY <1>3, <1>4, FewCalls DEF CheckExecute, Goto
  <2>2. StackShape'
    BY <2>1, FrameEqual DEF StackShape, Bottom
  <2>3. \A at, of : OnStack(at, of)' <=> at = "mdone" /\ of = Target
    BY <2>1, FewFramesNext
  <2> QED
    BY <1>2, <1>4, <2>2, <2>3
<1>5. CASE mbox # <<>>
  <2>1. stack' = <<Frame("recv", Head(mbox)), Frame("mexec", Target)>>
    BY <1>3, <1>5, FewCalls DEF CheckExecute, Goto
  <2>2. StackShape'
    BY <2>1, FrameEqual DEF StackShape, Bottom
  <2>3. \A at, of : OnStack(at, of)' <=> \/ at = "recv" /\ of = Head(mbox)
                                         \/ at = "mexec" /\ of = Target
    BY <2>1, FewFramesNext
  <2> QED
    BY <1>2, <1>5, <2>1, <2>2, <2>3
<1> QED
  BY <1>4, <1>5

\* _emscripten_check_mailbox returns to the event loop.
LEMMA CheckDoneFrames ==
  ASSUME stack \in Seq(Frames), StackShape, CheckDone
  PROVE  stack' = <<>> /\ StackShape' /\ \A at, of : ~OnStack(at, of)'
<1>1. stack = <<Frame("mdone", Top)>>
  BY ShapeTop DEF CheckDone
<1>2. stack' = <<>>
  BY <1>1, FewCalls DEF CheckDone, Goto
<1> QED
  BY <1>2, FewFramesNext DEF StackShape, Bottom

\* receive_notification has marked the queue received and executes it.
LEMMA ReceiveFrames ==
  ASSUME stack \in Seq(Frames), StackShape, Receive
  PROVE  /\ stack' = <<Frame("exec", Top), Frame("rdone", Top), Frame("mexec", Target)>>
         /\ StackShape'
         /\ \A at, of : OnStack(at, of) <=> (at = "recv" /\ of = Top) \/ (at = "mexec" /\ of = Target)
         /\ \A at, of : OnStack(at, of)' <=> \/ at \in {"exec", "rdone"} /\ of = Top
                                             \/ at = "mexec" /\ of = Target
<1>1. stack = <<Frame("recv", Top), Frame("mexec", Target)>>
  BY ShapeTop DEF Receive
<1>2. \A at, of : OnStack(at, of) <=> (at = "recv" /\ of = Top) \/ (at = "mexec" /\ of = Target)
  BY <1>1, FewFrames
<1>3. Tail(stack) = <<Frame("mexec", Target)>>
  BY <1>1, FewCalls
<1>4. stack' = <<Frame("exec", Top), Frame("rdone", Top), Frame("mexec", Target)>>
  BY <1>3, FewCalls DEF Receive, Goto
<1>5. StackShape'
  BY <1>4, FrameEqual DEF StackShape, Bottom
<1>6. \A at, of : OnStack(at, of)' <=> \/ at \in {"exec", "rdone"} /\ of = Top
                                       \/ at = "mexec" /\ of = Target
  BY <1>4, FewFramesNext
<1> QED
  BY <1>2, <1>4, <1>5, <1>6

\* receive_notification returns to the loop over the mailbox.
LEMMA ReceiveDoneFrames ==
  ASSUME stack \in Seq(Frames), StackShape, ReceiveDone
  PROVE  /\ stack' = <<Frame("mexec", Target)>>
         /\ StackShape'
         /\ \A at, of : OnStack(at, of) <=> (at = "rdone" /\ of = Top) \/ (at = "mexec" /\ of = Target)
         /\ \A at, of : OnStack(at, of)' <=> at = "mexec" /\ of = Target
<1>1. stack = <<Frame("rdone", Top), Frame("mexec", Target)>>
  BY ShapeTop DEF ReceiveDone
<1>2. \A at, of : OnStack(at, of) <=> (at = "rdone" /\ of = Top) \/ (at = "mexec" /\ of = Target)
  BY <1>1, FewFrames
<1>3. stack' = <<Frame("mexec", Target)>>
  BY <1>1, FewCalls DEF ReceiveDone, Goto
<1>4. StackShape'
  BY <1>3, FrameEqual DEF StackShape, Bottom
<1>5. \A at, of : OnStack(at, of)' <=> at = "mexec" /\ of = Target
  BY <1>3, FewFramesNext
<1> QED
  BY <1>2, <1>3, <1>4, <1>5

\* The loop over a queue's tasks ends, or calls the next one.
LEMMA ExecuteFrames ==
  ASSUME TypeOK, StackShape, Execute
  PROVE  /\ StackShape'
         /\ Top \in Queues /\ OnStack("exec", Top)
         /\ tq[Top] = <<>> =>
               \A at, of : OnStack(at, of) <=> OnStack(at, of)' \/ (at = "exec" /\ of = Top)
         /\ tq[Top] # <<>> =>
               \A at, of : OnStack(at, of)' <=> \/ OnStack(at, of)
                                                \/ at = "task" /\ of = Head(tq[Top])
<1>1. stack \in Seq(Frames) /\ stack # <<>> /\ At("exec")
  BY DEF TypeOK, TargetTypes, Execute, At
<1>2. Top \in Queues /\ Head(stack) = Frame("exec", Top) /\ OnStack("exec", Top)
  BY <1>1, TopType, TopOnStack DEF At
<1>3. CASE tq[Top] = <<>>
  <2>1. Goto(<<>>)
    BY <1>3 DEF Execute
  <2>2. StackShape'
    BY <1>1, <2>1, ShapeReturn
  <2>3. \A at, of : OnStack(at, of) <=> OnStack(at, of)' \/ Head(stack) = Frame(at, of)
    BY <1>1, <2>1, ReturnFrames
  <2>4. \A at, of : Head(stack) = Frame(at, of) <=> at = "exec" /\ of = Top
    BY <1>2, FrameEqual
  <2> QED
    BY <1>2, <1>3, <2>2, <2>3, <2>4
<1>4. CASE tq[Top] # <<>>
  <2>1. Head(tq[Top]) \in Tasks
    BY <1>2, <1>4 DEF TypeOK, QueueTypes
  <2>2. Goto(<<Frame("task", Head(tq[Top])), Head(stack)>>)
    BY <1>2, <1>4 DEF Execute
  <2>3. /\ stack' = <<Frame("task", Head(tq[Top]))>> \o stack
        /\ Frame("task", Head(tq[Top])) \in Frames
    BY <1>1, <2>1, <2>2, BeginFrames
  <2>4. StackShape'
    BY <1>1, <2>3, FrameEqual, ShapeCall
  <2>5. \A at, of : OnStack(at, of)' <=>
                       OnStack(at, of) \/ Frame("task", Head(tq[Top])) = Frame(at, of)
    BY <1>1, <2>3, CallFrames
  <2>6. \A at, of : Frame("task", Head(tq[Top])) = Frame(at, of)
                       <=> at = "task" /\ of = Head(tq[Top])
    BY FrameEqual
  <2> QED
    BY <1>2, <1>4, <2>4, <2>5, <2>6
<1> QED
  BY <1>3, <1>4

\* The entry point or a task returns.
LEMMA ReturnsFrames ==
  ASSUME stack \in Seq(Frames), StackShape, Return
  PROVE  /\ StackShape'
         /\ \A at, of : OnStack(at, of) <=>
               \/ OnStack(at, of)'
               \/ at \in {"user", "task"} /\ At(at) /\ of = Top
<1>1. stack # <<>> /\ (At("user") \/ At("task")) /\ Goto(<<>>)
  BY DEF Return, InUserCode, At
<1>2. StackShape'
  BY <1>1, ShapeReturn
<1>3. \A at, of : OnStack(at, of) <=> OnStack(at, of)' \/ Head(stack) = Frame(at, of)
  BY <1>1, ReturnFrames
<1>4. ASSUME NEW at, NEW of
      PROVE  Head(stack) = Frame(at, of) <=> at \in {"user", "task"} /\ At(at) /\ of = Top
  <2>1. \A a : At(a) => Head(stack) = Frame(a, Top)
    BY TopOnStack
  <2>2. Head(stack) = Frame(at, of) => at \in {"user", "task"} /\ At(at) /\ of = Top
    BY <1>1, FrameEqual DEF At, Top
  <2> QED
    BY <2>1, <2>2
<1> QED
  BY <1>2, <1>3, <1>4

\* The program calls emscripten_proxy_execute_queue.
LEMMA ExecuteQueueFrames ==
  ASSUME stack \in Seq(Frames), StackShape, NEW q \in Queues, ExecuteQueue(q)
  PROVE  /\ StackShape'
         /\ \A at, of : OnStack(at, of)' <=> OnStack(at, of) \/ (at = "exec" /\ of = q)
<1>1. stack' = <<Frame("exec", q)>> \o stack /\ Frame("exec", q) \in Frames
  BY FrameType DEF ExecuteQueue
<1>2. StackShape'
  BY <1>1, FrameEqual, ShapeCall
<1>3. \A at, of : OnStack(at, of)' <=> OnStack(at, of) \/ Frame("exec", q) = Frame(at, of)
  BY <1>1, CallFrames
<1> QED
  BY <1>2, <1>3, FrameEqual

\* The thread exits: its frames are gone.
LEMMA ExitFrames ==
  ASSUME ExitBegin
  PROVE  StackShape' /\ \A at, of : ~OnStack(at, of)'
<1>1. stack' = <<>>
  BY DEF ExitBegin
<1> QED
  BY <1>1, FewFramesNext DEF StackShape, Bottom

\* The loop of em_task_queue_cancel over the mailbox takes a message, or ends.
LEMMA ShutdownCancelFrames ==
  ASSUME ShutdownCancel
  PROVE  /\ StackShape'
         /\ \A at, of : ~OnStack(at, of)
         /\ mbox = <<>> => \A at, of : ~OnStack(at, of)'
         /\ mbox # <<>> => \A at, of : OnStack(at, of)' <=> at = "cancel" /\ of = Head(mbox)
<1>1. stack = <<>> /\ \A at, of : ~OnStack(at, of)
  BY FewFrames DEF ShutdownCancel
<1>2. CASE mbox = <<>>
  <2>1. stack' = <<>>
    BY <1>1, <1>2 DEF ShutdownCancel
  <2> QED
    BY <1>1, <1>2, <2>1, FewFramesNext DEF StackShape, Bottom
<1>3. CASE mbox # <<>>
  <2>1. stack' = <<Frame("cancel", Head(mbox))>>
    BY <1>3 DEF ShutdownCancel
  <2>2. StackShape'
    BY <2>1, FrameEqual DEF StackShape, Bottom
  <2>3. \A at, of : OnStack(at, of)' <=> at = "cancel" /\ of = Head(mbox)
    BY <2>1, FewFramesNext
  <2> QED
    BY <1>1, <1>3, <2>2, <2>3
<1> QED
  BY <1>2, <1>3

\* The handler of a canceled message takes a task of the queue, or ends.
LEMMA CancelQueueFrames ==
  ASSUME stack \in Seq(Frames), StackShape, CancelQueue
  PROVE  /\ StackShape'
         /\ \A at, of : OnStack(at, of) <=> at = "cancel" /\ of = Top
         /\ tq[Top] = <<>> => stack' = <<>> /\ \A at, of : ~OnStack(at, of)'
         /\ tq[Top] # <<>> => stack' = stack /\ \A at, of : OnStack(at, of)' <=> OnStack(at, of)
<1>1. stack = <<Frame("cancel", Top)>>
  BY ShapeTop DEF CancelQueue
<1>2. \A at, of : OnStack(at, of) <=> at = "cancel" /\ of = Top
  BY <1>1, FewFrames
<1>3. CASE tq[Top] = <<>>
  <2>1. stack' = <<>>
    BY <1>1, <1>3, FewCalls DEF CancelQueue, Goto
  <2> QED
    BY <1>2, <1>3, <2>1, FewFramesNext DEF StackShape, Bottom
<1>4. CASE tq[Top] # <<>>
  <2>1. stack' = stack
    BY <1>4 DEF CancelQueue
  <2> QED
    BY <1>2, <1>4, <2>1 DEF StackShape, OnStack
<1> QED
  BY <1>3, <1>4

\* The other steps leave the stack alone.
LEMMA SameFrames ==
  ASSUME StackShape, stack' = stack
  PROVE  StackShape' /\ \A at, of : OnStack(at, of)' <=> OnStack(at, of)
  BY DEF StackShape, OnStack

-----------------------------------------------------------------------------
(***************************************************************************)
(* The mailbox                                                             *)
(***************************************************************************)
\* A message more (em_task_queue_enqueue on the mailbox).
LEMMA AppendNamed ==
  ASSUME mbox \in Seq(Queues), NEW q \in Queues, mbox' = Append(mbox, q)
  PROVE  /\ \A x : Named(x)' <=> Named(x) \/ x = q
         /\ OneMessagePerQueue /\ ~Named(q) => OneMessagePerQueue'
<1>1. /\ DOMAIN mbox = 1..Len(mbox) /\ DOMAIN mbox' = 1..(Len(mbox) + 1) /\ Len(mbox) \in Nat
      /\ \A i \in 1..Len(mbox) : mbox'[i] = mbox[i]
      /\ mbox'[Len(mbox) + 1] = q
  OBVIOUS
<1>2. \A i \in DOMAIN mbox' : i \in DOMAIN mbox \/ i = Len(mbox) + 1
  BY <1>1
<1>3. \A i \in DOMAIN mbox : i \in DOMAIN mbox'
  BY <1>1
<1>4. Len(mbox) + 1 \in DOMAIN mbox'
  BY <1>1
<1>5. \A x : Named(x)' <=> Named(x) \/ x = q
  BY <1>1, <1>2, <1>3, <1>4 DEF Named
<1>6. OneMessagePerQueue /\ ~Named(q) => OneMessagePerQueue'
  BY <1>1, <1>2 DEF Named, OneMessagePerQueue
<1> QED
  BY <1>5, <1>6

\* A message less, the oldest (em_task_queue_dequeue).
LEMMA TailNamed ==
  ASSUME mbox \in Seq(Queues), mbox # <<>>, mbox' = Tail(mbox), OneMessagePerQueue
  PROVE  /\ Named(Head(mbox)) /\ Head(mbox) \in Queues
         /\ \A x : Named(x)' <=> Named(x) /\ x # Head(mbox)
         /\ OneMessagePerQueue'
<1>1. /\ DOMAIN mbox = 1..Len(mbox) /\ DOMAIN mbox' = 1..(Len(mbox) - 1) /\ Len(mbox) \in Nat
      /\ \A i \in 1..(Len(mbox) - 1) : mbox'[i] = mbox[i + 1]
      /\ Len(mbox) > 0 /\ Head(mbox) = mbox[1] /\ Head(mbox) \in Queues
  OBVIOUS
<1>2. 1 \in DOMAIN mbox
  BY <1>1
<1>3. ASSUME NEW x, Named(x)'
      PROVE  Named(x) /\ x # Head(mbox)
  <2>1. PICK i \in DOMAIN mbox' : mbox'[i] = x
    BY <1>3 DEF Named
  <2>2. i + 1 \in DOMAIN mbox /\ mbox[i + 1] = x /\ i + 1 # 1
    BY <1>1, <2>1
  <2> QED
    BY <1>1, <1>2, <2>2 DEF Named, OneMessagePerQueue
<1>4. ASSUME NEW x, Named(x), x # Head(mbox)
      PROVE  Named(x)'
  <2>1. PICK i \in DOMAIN mbox : mbox[i] = x
    BY <1>4 DEF Named
  <2>2. i - 1 \in DOMAIN mbox' /\ mbox'[i - 1] = x
    BY <1>1, <1>4, <2>1
  <2> QED
    BY <2>2 DEF Named
<1>5. OneMessagePerQueue'
  <2> SUFFICES ASSUME NEW i \in DOMAIN mbox', NEW j \in DOMAIN mbox', mbox'[i] = mbox'[j]
               PROVE  i = j
    BY DEF OneMessagePerQueue
  <2>1. i + 1 \in DOMAIN mbox /\ j + 1 \in DOMAIN mbox /\ mbox[i + 1] = mbox[j + 1]
    BY <1>1
  <2>2. i + 1 = j + 1
    BY <2>1 DEF OneMessagePerQueue
  <2> QED
    BY <1>1, <2>2
<1>6. Named(Head(mbox))
  BY <1>1, <1>2 DEF Named
<1> QED
  BY <1>1, <1>3, <1>4, <1>5, <1>6

\* A mailbox that is left alone, or empty, names the queues it named, or none.
LEMMA SameNamed ==
  /\ mbox' = mbox => /\ \A x : Named(x)' <=> Named(x)
                     /\ OneMessagePerQueue => OneMessagePerQueue'
  /\ mbox' = <<>> => OneMessagePerQueue' /\ \A x : ~Named(x)'
  BY DEF Named, OneMessagePerQueue

-----------------------------------------------------------------------------
(***************************************************************************)
(* The steps that hand the token of a queue to nobody, or drop it          *)
(***************************************************************************)
LEMMA TokenKept ==
  ASSUME TokenInv, OneMessagePerQueue',
         \A q \in Queues : Named(q)' => Named(q),
         \A q \in Queues : Taken(q)' => Taken(q),
         \A s \in Threads, q \in Queues : Sends(s, q)' => Sends(s, q),
         \A q \in Queues :
            /\ note[q] = "PENDING"
            /\ Named(q)' \/ Taken(q)' \/ \E s \in Threads : Sends(s, q)'
            => note'[q] = "PENDING"
  PROVE  TokenInv'
<1>1. \A q \in Queues : Named(q)' \/ Taken(q)' => note'[q] = "PENDING"
  BY DEF TokenInv
<1>2. \A q \in Queues : ~(Named(q)' /\ Taken(q)')
  BY DEF TokenInv
<1>3. \A s \in Threads, q \in Queues :
         Sends(s, q)' => /\ note'[q] = "PENDING" /\ ~Named(q)' /\ ~Taken(q)'
                         /\ \A r \in Threads : Sends(r, q)' => r = s
  BY DEF TokenInv
<1> QED
  BY <1>1, <1>2, <1>3 DEF TokenInv

\* The steps that give nobody a new way to reach a queue, and free none that can
\* be reached.
LEMMA LifeKept ==
  ASSUME LifeInv,
         \A q \in Queues : Named(q)' \/ Taken(q)' \/ OnStack("rdone", q)' =>
                              Named(q) \/ Taken(q) \/ OnStack("rdone", q),
         \A q \in Queues : OnStack("rdone", q)' => OnStack("rdone", q) /\ note'[q] = note[q],
         \A q \in Queues : Sending(q)' => Sending(q),
         \A q \in Queues : OnStack("exec", q)' =>
             OnStack("exec", q) /\ (OnStack("rdone", q) => OnStack("rdone", q)'),
         \A q \in Queues : Named(q) \/ Taken(q) \/ OnStack("rdone", q) \/ Sending(q)
                           \/ OnStack("exec", q) => life'[q] = life[q]
  PROVE  LifeInv'
<1> SUFFICES ASSUME NEW q \in Queues
             PROVE  /\ Named(q)' \/ Taken(q)' \/ OnStack("rdone", q)' =>
                          life'[q] \in {"live", "zombie"}
                    /\ OnStack("rdone", q)' => note'[q] # "NONE"
                    /\ Sending(q)' => life'[q] = "live"
                    /\ OnStack("exec", q)' => life'[q] = "live" \/ OnStack("rdone", q)'
  BY DEF LifeInv
<1> QED
  BY Zenon DEF LifeInv

\* A task queue in use by its senders: who sends, and what the notification says.
LEMMA SendingKept ==
  ASSUME pc' = pc, job' = job
  PROVE  /\ \A q : Sending(q)' <=> Sending(q)
         /\ \A s, q : Sends(s, q)' <=> Sends(s, q)
  BY DEF Sending, Sends, Holds

\* A sender that goes on with the same work, and not to the mailbox, sends
\* nothing new.
LEMMA SendingOn ==
  ASSUME SendTypes, NEW s \in Threads, NEW to \in Place \ {"msend"},
         pc' = [pc EXCEPT ![s] = to],
         job' = job, pc[s] \in InSend
  PROVE  /\ \A q : Sending(q)' => Sending(q)
         /\ \A r \in Threads : \A q : Sends(r, q)' => Sends(r, q) /\ r # s
<1>1. pc'[s] = to /\ \A r \in Threads \ {s} : pc'[r] = pc[r]
  BY DEF SendTypes
<1>2. \A q : Sending(q)' => Sending(q)
  BY <1>1 DEF Sending, Holds
<1>3. \A r \in Threads : \A q : Sends(r, q)' => Sends(r, q) /\ r # s
  BY <1>1 DEF Sends
<1> QED
  BY <1>2, <1>3

\* A queue that is not allocated, or is culled, is out of everyone's reach.
LEMMA OutOfReach ==
  ASSUME TypeOK, TokenInv, LifeInv, NEW q \in Queues,
         life[q] \in {"none", "freed"} \/ q \in Cullable
  PROVE  /\ ~Named(q) /\ ~Taken(q) /\ ~Sending(q)
         /\ ~OnStack("rdone", q) /\ ~OnStack("exec", q)
         /\ \A s \in Threads : ~Sends(s, q)
<1>1. life[q] \in {"none", "freed"} \/ (life[q] = "zombie" /\ note[q] = "NONE")
  BY DEF Cullable
<1>2. ~Named(q) /\ ~Taken(q) /\ ~OnStack("rdone", q)
  BY <1>1 DEF TokenInv, LifeInv
<1>3. ~Sending(q) /\ ~OnStack("exec", q)
  BY <1>1, <1>2 DEF LifeInv
<1>4. \A s \in Threads : Sends(s, q) => Sending(q)
  BY DEF Sends, Sending, Holds, InSend
<1> QED
  BY <1>2, <1>3, <1>4

\* Every step keeps the token of a queue in one place, and the queue allocated
\* while anyone can reach it.
LEMMA QueueStep ==
  ASSUME TypeOK, QueueInv, Next
  PROVE  QueueInv'
<1>0. /\ stack \in Seq(Frames) /\ mbox \in Seq(Queues) /\ QueueTypes /\ SendTypes
      /\ StackShape /\ TokenInv /\ LifeInv /\ OneMessagePerQueue
  BY DEF TypeOK, TargetTypes, MailboxTypes, QueueInv, TokenInv
<1>1. ASSUME NEW q \in Queues, CreateQueue(q) PROVE QueueInv'
  <2>1. stack' = stack /\ mbox' = mbox /\ pc' = pc /\ job' = job
    BY <1>1 DEF CreateQueue, targetVars, mboxVars, sendVars
  <2>2. PICK culled \in SUBSET Cullable, ok \in BOOLEAN :
          /\ life[q] \in {"none", "freed"} \/ q \in culled
          /\ life' = [x \in Queues |-> CASE x = q /\ ok  -> "live"
                                         [] x \in culled -> "freed"
                                         [] OTHER        -> life[x]]
          /\ IF ok THEN note' = [note EXCEPT ![q] = "NONE"] ELSE note' = note
    BY <1>1, Zenon DEF CreateQueue
  <2>3. \A x \in Queues : x = q \/ x \in culled =>
           /\ ~Named(x) /\ ~Taken(x) /\ ~Sending(x)
           /\ ~OnStack("rdone", x) /\ ~OnStack("exec", x)
           /\ \A s \in Threads : ~Sends(s, x)
    BY <1>0, <2>2, OutOfReach
  <2>4. \A x \in Queues : x # q /\ x \notin culled => life'[x] = life[x] /\ note'[x] = note[x]
    BY <1>0, <2>2 DEF QueueTypes
  <2>5. \A x \in Queues : x # q => note'[x] = note[x]
    BY <1>0, <2>2 DEF QueueTypes
  <2>6. /\ StackShape' /\ OneMessagePerQueue'
        /\ \A x \in Queues : /\ Named(x)' <=> Named(x)
                             /\ Taken(x)' <=> Taken(x)
                             /\ OnStack("rdone", x)' <=> OnStack("rdone", x)
                             /\ OnStack("exec", x)' <=> OnStack("exec", x)
                             /\ Sending(x)' <=> Sending(x)
                             /\ \A s \in Threads : Sends(s, x)' <=> Sends(s, x)
    BY <1>0, <2>1, SameFrames, SameNamed, SendingKept DEF Taken
  <2>7. TokenInv'
    BY <1>0, <2>3, <2>5, <2>6, TokenKept
  <2>8. LifeInv'
    BY <1>0, <2>3, <2>4, <2>6, LifeKept
  <2> QED
    BY <2>6, <2>7, <2>8 DEF QueueInv
<1>2. ASSUME NEW q \in Queues, DestroyQueue(q) PROVE QueueInv'
  <2>1. stack' = stack /\ mbox' = mbox /\ pc' = pc /\ job' = job /\ note' = note
    BY <1>2 DEF DestroyQueue, targetVars, mboxVars, sendVars
  <2>2. /\ StackShape' /\ OneMessagePerQueue'
        /\ \A x \in Queues : /\ Named(x)' <=> Named(x)
                             /\ Taken(x)' <=> Taken(x)
                             /\ OnStack("rdone", x)' <=> OnStack("rdone", x)
                             /\ OnStack("exec", x)' <=> OnStack("exec", x)
                             /\ Sending(x)' <=> Sending(x)
                             /\ \A s \in Threads : Sends(s, x)' <=> Sends(s, x)
    BY <1>0, <2>1, SameFrames, SameNamed, SendingKept DEF Taken
  <2>3. TokenInv'
    BY <1>0, <2>1, <2>2, TokenKept
  <2>4. /\ ~Sending(q) /\ (OnStack("exec", q) => OnStack("rdone", q))
        /\ life' = [life EXCEPT ![q] = IF note[q] = "NONE" THEN "freed" ELSE "zombie"]
    BY <1>2 DEF DestroyQueue
  <2>5. \A x \in Queues : x # q => life'[x] = life[x]
    BY <1>0, <2>4 DEF QueueTypes
  <2>6. note[q] # "NONE" => life'[q] = "zombie"
    BY <1>0, <2>4 DEF QueueTypes
  <2>7. \A x \in Queues : Named(x) \/ Taken(x) \/ OnStack("rdone", x) => note[x] # "NONE"
    BY <1>0 DEF TokenInv, LifeInv
  <2>8. LifeInv'
    <3> SUFFICES ASSUME NEW x \in Queues
                 PROVE  /\ Named(x)' \/ Taken(x)' \/ OnStack("rdone", x)' =>
                              life'[x] \in {"live", "zombie"}
                        /\ OnStack("rdone", x)' => note'[x] # "NONE"
                        /\ Sending(x)' => life'[x] = "live"
                        /\ OnStack("exec", x)' => life'[x] = "live" \/ OnStack("rdone", x)'
      BY DEF LifeInv
    <3>1. CASE x = q
      BY <2>1, <2>2, <2>4, <2>6, <2>7, <3>1
    <3>2. CASE x # q
      BY <1>0, <2>1, <2>2, <2>5, <3>2 DEF LifeInv
    <3> QED
      BY <3>1, <3>2
  <2> QED
    BY <2>2, <2>3, <2>8 DEF QueueInv
<1>3. ASSUME NEW q \in Queues, ExecuteQueue(q) PROVE QueueInv'
  <2>1. UNCHANGED <<mbox, pc, job, note, life>> /\ life[q] = "live"
    BY <1>3 DEF ExecuteQueue, mboxVars, sendVars
  <2>2. StackShape' /\ \A at, of : OnStack(at, of)' <=> OnStack(at, of) \/ (at = "exec" /\ of = q)
    BY <1>0, <1>3, ExecuteQueueFrames
  <2>3. /\ OneMessagePerQueue'
        /\ \A x \in Queues : /\ Named(x)' <=> Named(x)
                             /\ Taken(x)' <=> Taken(x)
                             /\ OnStack("rdone", x)' <=> OnStack("rdone", x)
                             /\ Sending(x)' <=> Sending(x)
                             /\ \A s \in Threads : Sends(s, x)' <=> Sends(s, x)
    BY <1>0, <2>1, <2>2, SameNamed, SendingKept DEF Taken
  <2>4. TokenInv'
    BY <1>0, <2>1, <2>3, TokenKept
  <2>5. \A x \in Queues : OnStack("exec", x)' => x = q \/ OnStack("exec", x)
    BY <2>2
  <2>6. LifeInv'
    BY <1>0, <2>1, <2>3, <2>5 DEF LifeInv
  <2> QED
    BY <2>2, <2>4, <2>6 DEF QueueInv
\* The steps of a sender.
<1>4. ASSUME UNCHANGED <<stack, mbox, note, life>>,
             \A q \in Queues : Sending(q)' => Sending(q) \/ life[q] = "live",
             \A s \in Threads, q \in Queues : Sends(s, q)' => Sends(s, q)
      PROVE  QueueInv'
  <2>1. /\ StackShape' /\ OneMessagePerQueue'
        /\ \A x \in Queues : /\ Named(x)' <=> Named(x)
                             /\ Taken(x)' <=> Taken(x)
                             /\ OnStack("rdone", x)' <=> OnStack("rdone", x)
                             /\ OnStack("exec", x)' <=> OnStack("exec", x)
    BY <1>0, <1>4, SameFrames, SameNamed DEF Taken
  <2>2. TokenInv'
    BY <1>0, <1>4, <2>1, TokenKept
  <2>3. LifeInv'
    BY <1>0, <1>4, <2>1 DEF LifeInv
  <2> QED
    BY <2>1, <2>2, <2>3 DEF QueueInv
<1>5. ASSUME NEW s \in Threads, NEW q \in Queues, NEW t \in Tasks, SendRef(s, q, t)
      PROVE  QueueInv'
  <2>1. UNCHANGED <<stack, mbox, note, life>> /\ life[q] = "live" /\ pc[s] = "idle"
    BY <1>5 DEF SendRef, targetVars, queueVars, CanCall
  <2>2. CASE refcount = 0
    <3>1. pc' = pc /\ job' = job
      BY <1>5, <2>2 DEF SendRef
    <3> QED
      BY <1>4, <2>1, <3>1, SendingKept
  <2>3. CASE refcount # 0
    <3>1. pc' = [pc EXCEPT ![s] = "enqueue"] /\ job' = [job EXCEPT ![s] = [queue |-> q, task |-> t]]
      BY <1>5, <2>3 DEF SendRef
    <3>2. /\ pc'[s] = "enqueue" /\ job'[s].queue = q
          /\ \A r \in Threads \ {s} : pc'[r] = pc[r] /\ job'[r] = job[r]
      BY <1>0, <3>1 DEF SendTypes
    <3>3. \A x \in Queues : Sending(x)' => Sending(x) \/ x = q
      BY <3>2 DEF Sending, Holds
    <3>4. \A r \in Threads, x \in Queues : Sends(r, x)' => Sends(r, x)
      BY <3>2 DEF Sends
    <3> QED
      BY <1>4, <2>1, <3>3, <3>4
  <2> QED
    BY <2>2, <2>3
<1>6. ASSUME NEW s \in Threads, SendEnqueue(s) \/ MailboxNotify(s) \/ MailboxWake(s)
      PROVE  QueueInv'
  <2>1. UNCHANGED <<stack, mbox, note, life, job>> /\ pc[s] \in InSend
    BY <1>6 DEF SendEnqueue, MailboxNotify, MailboxWake, Step, InSend, targetVars, mboxVars,
       queueVars
  <2>2. \E to \in {"notify", "unref", "wake"} : pc' = [pc EXCEPT ![s] = to]
    BY <1>6, Zenon DEF SendEnqueue, MailboxNotify, MailboxWake, Step
  <2>3. \E to \in Place \ {"msend"} : pc' = [pc EXCEPT ![s] = to]
    BY <2>2 DEF Place, InSend
  <2>4. /\ \A q : Sending(q)' => Sending(q)
        /\ \A r \in Threads : \A q : Sends(r, q)' => Sends(r, q) /\ r # s
    BY <1>0, <2>1, <2>3, SendingOn
  <2> QED
    BY <1>4, <2>1, <2>4
<1>7. ASSUME NEW s \in Threads, SendNotify(s)
      PROVE  QueueInv'
  <2> DEFINE q == job[s].queue
  <2>1. /\ UNCHANGED <<stack, mbox, life, job>> /\ pc[s] = "notify" /\ pc[s] \in InSend
        /\ note' = [note EXCEPT ![q] = "PENDING"]
        /\ pc' = [pc EXCEPT ![s] = IF note[q] = "PENDING" THEN "unref" ELSE "msend"]
    BY <1>7 DEF SendNotify, InSend, targetVars, mboxVars
  <2>2. q \in Queues
    BY <1>0, <2>1 DEF SendTypes, Job
  <2>3. \A x \in Queues : note'[x] = IF x = q THEN "PENDING" ELSE note[x]
    BY <1>0, <2>1 DEF QueueTypes
  <2>4. /\ \A r \in Threads \ {s} : pc'[r] = pc[r]
        /\ pc'[s] = IF note[q] = "PENDING" THEN "unref" ELSE "msend"
    BY <1>0, <2>1 DEF SendTypes
  <2> HIDE DEF q
  <2>5. \A x \in Queues : Sending(x)' => Sending(x)
    BY <2>1, <2>4 DEF Sending, Holds
  <2>6. \A r \in Threads, x \in Queues :
           Sends(r, x)' => Sends(r, x) \/ (r = s /\ x = q /\ note[q] # "PENDING")
    BY <2>1, <2>4 DEF Sends, q
  <2>7. /\ StackShape' /\ OneMessagePerQueue'
        /\ \A x \in Queues : /\ Named(x)' <=> Named(x)
                             /\ Taken(x)' <=> Taken(x)
                             /\ OnStack("rdone", x)' <=> OnStack("rdone", x)
                             /\ OnStack("exec", x)' <=> OnStack("exec", x)
    BY <1>0, <2>1, SameFrames, SameNamed DEF Taken
  <2>8. TokenInv'
    <3>1. note[q] # "PENDING" => ~Named(q) /\ ~Taken(q) /\ \A r \in Threads : ~Sends(r, q)
      BY <1>0, <2>2 DEF TokenInv
    <3>2. \A x \in Queues : Named(x)' \/ Taken(x)' => note'[x] = "PENDING"
      BY <1>0, <2>3, <2>7 DEF TokenInv
    <3>3. \A x \in Queues : ~(Named(x)' /\ Taken(x)')
      BY <1>0, <2>7 DEF TokenInv
    <3>4. ASSUME NEW r \in Threads, NEW x \in Queues, Sends(r, x)'
          PROVE  /\ note'[x] = "PENDING" /\ ~Named(x)' /\ ~Taken(x)'
                 /\ \A p \in Threads : Sends(p, x)' => p = r
      <4>1. CASE Sends(r, x)
        <5>1. /\ note[x] = "PENDING" /\ ~Named(x) /\ ~Taken(x)
              /\ \A p \in Threads : Sends(p, x) => p = r
          BY <1>0, <4>1 DEF TokenInv
        <5> QED
          BY <2>3, <2>6, <2>7, <5>1
      <4>2. CASE r = s /\ x = q /\ note[q] # "PENDING"
        BY <2>3, <2>6, <2>7, <3>1, <4>2
      <4> QED
        BY <2>6, <3>4, <4>1, <4>2
    <3> QED
      BY <2>7, <3>2, <3>3, <3>4 DEF TokenInv
  <2>9. LifeInv'
    BY <1>0, <2>1, <2>3, <2>5, <2>7 DEF LifeInv
  <2> QED
    BY <2>7, <2>8, <2>9 DEF QueueInv
<1>8. ASSUME NEW s \in Threads, MailboxEnqueue(s)
      PROVE  QueueInv'
  <2> DEFINE q == job[s].queue
  <2>1. /\ UNCHANGED <<stack, note, life, job>> /\ pc[s] = "msend" /\ pc[s] \in InSend
        /\ mbox' = Append(mbox, q)
        /\ pc' = [pc EXCEPT ![s] = "mnotify"]
    BY <1>8 DEF MailboxEnqueue, Step, InSend, targetVars, queueVars
  <2>2. q \in Queues /\ Sends(s, q) /\ Sending(q)
    BY <1>0, <2>1 DEF SendTypes, Job, Sends, Sending, Holds
  <2> HIDE DEF q
  <2>3. /\ \A x : Sending(x)' => Sending(x)
        /\ \A r \in Threads : \A x : Sends(r, x)' => Sends(r, x) /\ r # s
    <3>1. "mnotify" \in Place \ {"msend"}
      BY DEF Place, InSend
    <3> QED
      BY <1>0, <2>1, <3>1, SendingOn
  <2>4. /\ note[q] = "PENDING" /\ ~Named(q) /\ ~Taken(q) /\ life[q] = "live"
        /\ \A r \in Threads : Sends(r, q) => r = s
    BY <1>0, <2>2 DEF TokenInv, LifeInv
  <2>5. (\A x : Named(x)' <=> Named(x) \/ x = q) /\ OneMessagePerQueue'
    BY <1>0, <2>1, <2>2, <2>4, AppendNamed
  <2>6. /\ StackShape'
        /\ \A x \in Queues : /\ Taken(x)' <=> Taken(x)
                             /\ OnStack("rdone", x)' <=> OnStack("rdone", x)
                             /\ OnStack("exec", x)' <=> OnStack("exec", x)
    BY <1>0, <2>1, SameFrames DEF Taken
  <2>7. TokenInv'
    <3>1. \A x \in Queues : Named(x)' \/ Taken(x)' => note'[x] = "PENDING"
      BY <1>0, <2>1, <2>4, <2>5, <2>6 DEF TokenInv
    <3>2. \A x \in Queues : ~(Named(x)' /\ Taken(x)')
      BY <1>0, <2>4, <2>5, <2>6 DEF TokenInv
    <3>3. \A r \in Threads, x \in Queues : Sends(r, x)' => x # q
      BY <2>3, <2>4
    <3>4. \A r \in Threads, x \in Queues :
             Sends(r, x)' => /\ note'[x] = "PENDING" /\ ~Named(x)' /\ ~Taken(x)'
                             /\ \A p \in Threads : Sends(p, x)' => p = r
      BY <1>0, <2>1, <2>3, <2>5, <2>6, <3>3 DEF TokenInv
    <3> QED
      BY <2>5, <3>1, <3>2, <3>4 DEF TokenInv
  <2>8. LifeInv'
    BY <1>0, <2>1, <2>3, <2>4, <2>5, <2>6 DEF LifeInv
  <2> QED
    BY <2>6, <2>7, <2>8 DEF QueueInv
<1>9. ASSUME NEW s \in Threads, SendUnref(s) \/ SendFutexWake(s)
      PROVE  QueueInv'
  <2>1. UNCHANGED <<stack, mbox, note, life>>
    BY <1>9 DEF SendUnref, SendFutexWake, targetVars, mboxVars, queueVars
  <2>2. /\ pc'[s] \in {"fwake", "idle"}
        /\ \A r \in Threads \ {s} : pc'[r] = pc[r] /\ job'[r] = job[r]
    BY <1>0, <1>9 DEF SendUnref, SendFutexWake, Step, SendTypes
  <2>3. \A x \in Queues : Sending(x)' => Sending(x)
    BY <2>2 DEF Sending, Holds, InSend
  <2>4. \A r \in Threads, x \in Queues : Sends(r, x)' => Sends(r, x)
    BY <2>2 DEF Sends
  <2> QED
    BY <1>4, <2>1, <2>3, <2>4
\* The steps of the Target that leave its mailbox and the frames of its queues
\* alone, or drop them.
<1>10. ASSUME UNCHANGED <<note, life, pc, job>>, StackShape', OneMessagePerQueue',
              \A q \in Queues : Named(q)' => Named(q),
              \A q \in Queues : Taken(q)' => Taken(q),
              \A q \in Queues : OnStack("exec", q)' => OnStack("exec", q),
              \A q \in Queues : OnStack("rdone", q)' => OnStack("rdone", q),
              \A q \in Queues : OnStack("exec", q)' /\ OnStack("rdone", q) => OnStack("rdone", q)'
       PROVE  QueueInv'
  <2>1. \A q \in Queues : /\ Sending(q)' <=> Sending(q)
                          /\ \A s \in Threads : Sends(s, q)' <=> Sends(s, q)
    BY <1>10, SendingKept
  <2>2. TokenInv'
    BY <1>0, <1>10, <2>1, TokenKept
  <2>3. LifeInv'
    BY <1>0, <1>10, <2>1, LifeKept
  <2> QED
    BY <1>10, <2>2, <2>3 DEF QueueInv
<1>11. ASSUME UNCHANGED <<note, life, pc, job, stack>>, mbox' = mbox \/ mbox' = <<>>
       PROVE  QueueInv'
  BY <1>0, <1>10, <1>11, SameFrames, SameNamed DEF Taken
<1>12. ASSUME Spawn \/ RoutePost \/ ShutdownWait \/ ShutdownDestroy \/ FreeData \/ Recreate
       PROVE  QueueInv'
  BY <1>11, <1>12 DEF Spawn, RoutePost, ShutdownWait, ShutdownDestroy, FreeData, Recreate,
     targetVars, mboxVars, queueVars, sendVars
<1>13. ASSUME Run \/ CheckMailbox \/ CheckReceive \/ CheckDone \/ ExitBegin
       PROVE  QueueInv'
  <2>1. UNCHANGED <<mbox, note, life, pc, job>>
    BY <1>13 DEF Run, CheckMailbox, CheckReceive, CheckDone, ExitBegin, mboxVars, queueVars,
       sendVars
  <2>2. StackShape' /\ \A at, of : OnStack(at, of)' => at \in {"user", "check", "mexec"}
    BY <1>0, <1>13, RunFrames, CheckMailboxFrames, CheckReceiveFrames, CheckDoneFrames, ExitFrames
  <2>3. OneMessagePerQueue' /\ \A x : Named(x)' <=> Named(x)
    BY <1>0, <2>1, SameNamed
  <2>4. \A x : ~Taken(x)' /\ ~OnStack("exec", x)' /\ ~OnStack("rdone", x)'
    BY <2>2 DEF Taken
  <2> QED
    BY <1>10, <2>1, <2>2, <2>3, <2>4
\* The steps of the Target that take a message.
<1>14. ASSUME UNCHANGED <<note, life, pc, job>>, StackShape', mbox # <<>>, mbox' = Tail(mbox),
              \A at, of : OnStack(at, of) => at = "mexec",
              \A at, of : OnStack(at, of)' =>
                 at = "mexec" \/ (at \in {"recv", "cancel"} /\ of = Head(mbox))
       PROVE  QueueInv'
  <2>1. /\ Named(Head(mbox)) /\ Head(mbox) \in Queues /\ OneMessagePerQueue'
        /\ \A x : Named(x)' <=> Named(x) /\ x # Head(mbox)
    BY <1>0, <1>14, TailNamed
  <2>2. /\ \A x : Taken(x)' => x = Head(mbox)
        /\ \A x : ~OnStack("exec", x)' /\ ~OnStack("rdone", x)'
    BY <1>14 DEF Taken
  <2>3. \A q \in Queues : /\ Sending(q)' <=> Sending(q)
                          /\ \A s \in Threads : Sends(s, q)' <=> Sends(s, q)
    BY <1>14, SendingKept
  <2>4. TokenInv'
    <3>1. \A x \in Queues : Named(x)' \/ Taken(x)' => Named(x)
      BY <2>1, <2>2
    <3>2. \A x \in Queues : Named(x)' \/ Taken(x)' => note'[x] = "PENDING"
      BY <1>0, <1>14, <3>1 DEF TokenInv
    <3>3. \A x \in Queues : ~(Named(x)' /\ Taken(x)')
      BY <2>1, <2>2
    <3>4. \A s \in Threads, x \in Queues :
             Sends(s, x)' => /\ note'[x] = "PENDING" /\ ~Named(x)' /\ ~Taken(x)'
                             /\ \A p \in Threads : Sends(p, x)' => p = s
      BY <1>0, <1>14, <2>3, <3>1 DEF TokenInv
    <3> QED
      BY <2>1, <3>2, <3>3, <3>4 DEF TokenInv
  <2>5. LifeInv'
    BY <1>0, <1>14, <2>1, <2>2, <2>3 DEF LifeInv
  <2> QED
    BY <1>14, <2>4, <2>5 DEF QueueInv
<1>15. ASSUME CheckExecute
       PROVE  QueueInv'
  <2>1. UNCHANGED <<note, life, pc, job>>
    BY <1>15 DEF CheckExecute, queueVars, sendVars
  <2>2. /\ StackShape' /\ \A at, of : OnStack(at, of) => at = "mexec"
        /\ mbox = <<>> => \A at, of : OnStack(at, of)' => at = "mdone"
        /\ mbox # <<>> => \A at, of : OnStack(at, of)' => \/ at = "recv" /\ of = Head(mbox)
                                                          \/ at = "mexec"
    BY <1>0, <1>15, CheckExecuteFrames
  <2>3. CASE mbox = <<>>
    <3>1. mbox' = mbox
      BY <1>15, <2>3 DEF CheckExecute
    <3>2. OneMessagePerQueue' /\ \A x : Named(x)' <=> Named(x)
      BY <1>0, <3>1, SameNamed
    <3>3. \A x : ~Taken(x)' /\ ~OnStack("exec", x)' /\ ~OnStack("rdone", x)'
      BY <2>2, <2>3 DEF Taken
    <3> QED
      BY <1>10, <2>1, <2>2, <3>2, <3>3
  <2>4. CASE mbox # <<>>
    <3>1. mbox' = Tail(mbox)
      BY <1>15, <2>4 DEF CheckExecute
    <3> QED
      BY <1>14, <2>1, <2>2, <2>4, <3>1
  <2> QED
    BY <2>3, <2>4
<1>16. ASSUME ShutdownCancel
       PROVE  QueueInv'
  <2>1. UNCHANGED <<note, life, pc, job>>
    BY <1>16 DEF ShutdownCancel, queueVars, sendVars
  <2>2. /\ StackShape' /\ \A at, of : ~OnStack(at, of)
        /\ mbox = <<>> => \A at, of : ~OnStack(at, of)'
        /\ mbox # <<>> => \A at, of : OnStack(at, of)' => at = "cancel" /\ of = Head(mbox)
    BY <1>16, ShutdownCancelFrames
  <2>3. CASE mbox = <<>>
    <3>1. mbox' = mbox
      BY <1>16, <2>3 DEF ShutdownCancel
    <3>2. OneMessagePerQueue' /\ \A x : Named(x)' <=> Named(x)
      BY <1>0, <3>1, SameNamed
    <3>3. \A x : ~Taken(x)' /\ ~OnStack("exec", x)' /\ ~OnStack("rdone", x)'
      BY <2>2, <2>3 DEF Taken
    <3> QED
      BY <1>10, <2>1, <2>2, <3>2, <3>3
  <2>4. CASE mbox # <<>>
    <3>1. mbox' = Tail(mbox)
      BY <1>16, <2>4 DEF ShutdownCancel
    <3> QED
      BY <1>14, <2>1, <2>2, <2>4, <3>1
  <2> QED
    BY <2>3, <2>4
<1>17. ASSUME Execute \/ Return
       PROVE  QueueInv'
  <2>1. UNCHANGED <<mbox, note, life, pc, job>>
    BY <1>17 DEF Execute, Return, mboxVars, queueVars, sendVars
  <2>2. StackShape'
    BY <1>0, <1>17, ExecuteFrames, ReturnsFrames
  <2>3. \A x : /\ Taken(x)' <=> Taken(x)
               /\ OnStack("rdone", x)' <=> OnStack("rdone", x)
               /\ OnStack("exec", x)' => OnStack("exec", x)
    <3>1. CASE Execute /\ tq[Top] = <<>>
      <4>1. \A at, of : OnStack(at, of) <=> OnStack(at, of)' \/ (at = "exec" /\ of = Top)
        BY <1>0, <3>1, ExecuteFrames
      <4> QED
        BY <4>1 DEF Taken
    <3>2. CASE Execute /\ tq[Top] # <<>>
      <4>1. \A at, of : OnStack(at, of)' <=> \/ OnStack(at, of)
                                             \/ at = "task" /\ of = Head(tq[Top])
        BY <1>0, <3>2, ExecuteFrames
      <4> QED
        BY <4>1 DEF Taken
    <3>3. CASE Return
      <4>1. \A at, of : OnStack(at, of) <=> \/ OnStack(at, of)'
                                            \/ at \in {"user", "task"} /\ At(at) /\ of = Top
        BY <1>0, <3>3, ReturnsFrames
      <4> QED
        BY <4>1 DEF Taken
    <3> QED
      BY <1>17, <3>1, <3>2, <3>3
  <2>4. OneMessagePerQueue' /\ \A x : Named(x)' <=> Named(x)
    BY <1>0, <2>1, SameNamed
  <2> QED
    BY <1>10, <2>1, <2>2, <2>3, <2>4
\* The steps that clear a notification, or mark it received.
<1>18. ASSUME Receive
       PROVE  QueueInv'
  <2>1. /\ UNCHANGED <<mbox, life, pc, job>>
        /\ note' = [note EXCEPT ![Top] = "RECEIVED"]
    BY <1>18 DEF Receive, mboxVars, sendVars
  <2>2. /\ StackShape'
        /\ \A at, of : OnStack(at, of) <=> (at = "recv" /\ of = Top) \/ (at = "mexec" /\ of = Target)
        /\ \A at, of : OnStack(at, of)' <=> \/ at \in {"exec", "rdone"} /\ of = Top
                                            \/ at = "mexec" /\ of = Target
    BY <1>0, <1>18, ReceiveFrames
  <2>3. Top \in Queues /\ Taken(Top)
    BY <1>0, <1>18, <2>2, TopType DEF Receive, At, Taken
  <2>4. \A x \in Queues : note'[x] = IF x = Top THEN "RECEIVED" ELSE note[x]
    BY <1>0, <2>1 DEF QueueTypes
  <2>5. \A x : ~Taken(x)' /\ (OnStack("exec", x)' \/ OnStack("rdone", x)' => x = Top)
    BY <2>2 DEF Taken
  <2>6. \A x : x = Top => OnStack("rdone", x)'
    BY <2>2
  <2>7. \A x \in Queues : /\ Sending(x)' <=> Sending(x)
                          /\ \A s \in Threads : Sends(s, x)' <=> Sends(s, x)
    BY <2>1, SendingKept
  <2>8. OneMessagePerQueue' /\ \A x : Named(x)' <=> Named(x)
    BY <1>0, <2>1, SameNamed
  <2>9. ~Named(Top) /\ \A s \in Threads : ~Sends(s, Top)
    BY <1>0, <2>3 DEF TokenInv
  <2>10. TokenInv'
    BY <1>0, <2>4, <2>5, <2>7, <2>8, <2>9, TokenKept
  <2>11. LifeInv'
    BY <1>0, <2>1, <2>3, <2>4, <2>5, <2>6, <2>7, <2>8 DEF LifeInv
  <2> QED
    BY <2>2, <2>10, <2>11 DEF QueueInv
<1>19. ASSUME ReceiveDone
       PROVE  QueueInv'
  <2>1. /\ UNCHANGED <<mbox, life, pc, job>>
        /\ note' = [note EXCEPT ![Top] = IF @ = "RECEIVED" THEN "NONE" ELSE @]
    BY <1>19 DEF ReceiveDone, mboxVars, sendVars
  <2>2. StackShape' /\ \A at, of : OnStack(at, of)' <=> at = "mexec" /\ of = Target
    BY <1>0, <1>19, ReceiveDoneFrames
  <2>3. \A x \in Queues : note[x] = "PENDING" => note'[x] = "PENDING"
    BY <1>0, <2>1 DEF QueueTypes
  <2>4. \A x : ~Taken(x)' /\ ~OnStack("exec", x)' /\ ~OnStack("rdone", x)'
    BY <2>2 DEF Taken
  <2>5. \A x \in Queues : /\ Sending(x)' <=> Sending(x)
                          /\ \A s \in Threads : Sends(s, x)' <=> Sends(s, x)
    BY <2>1, SendingKept
  <2>6. OneMessagePerQueue' /\ \A x : Named(x)' <=> Named(x)
    BY <1>0, <2>1, SameNamed
  <2>7. TokenInv'
    BY <1>0, <2>3, <2>4, <2>5, <2>6, TokenKept
  <2>8. LifeInv'
    BY <1>0, <2>1, <2>4, <2>5, <2>6 DEF LifeInv
  <2> QED
    BY <2>2, <2>7, <2>8 DEF QueueInv
<1>20. ASSUME CancelQueue
       PROVE  QueueInv'
  <2>1. /\ UNCHANGED <<mbox, life, pc, job>>
        /\ tq[Top] # <<>> => note' = note
        /\ tq[Top] = <<>> => note' = [note EXCEPT ![Top] = "NONE"]
    BY <1>20 DEF CancelQueue, mboxVars, sendVars
  <2>2. /\ StackShape'
        /\ \A at, of : OnStack(at, of) <=> at = "cancel" /\ of = Top
        /\ tq[Top] = <<>> => \A at, of : ~OnStack(at, of)'
        /\ tq[Top] # <<>> => \A at, of : OnStack(at, of)' <=> OnStack(at, of)
    BY <1>0, <1>20, CancelQueueFrames
  <2>3. OneMessagePerQueue' /\ \A x : Named(x)' <=> Named(x)
    BY <1>0, <2>1, SameNamed
  <2>4. CASE tq[Top] # <<>>
    <3>1. \A x : /\ Taken(x)' <=> Taken(x)
                 /\ OnStack("rdone", x)' <=> OnStack("rdone", x)
                 /\ OnStack("exec", x)' <=> OnStack("exec", x)
      BY <2>2, <2>4 DEF Taken
    <3> QED
      BY <1>10, <2>1, <2>2, <2>3, <2>4, <3>1
  <2>5. CASE tq[Top] = <<>>
    <3>1. Top \in Queues /\ Taken(Top)
      BY <1>0, <1>20, <2>2, TopType DEF CancelQueue, At, Taken
    <3>2. \A x \in Queues : x # Top => note'[x] = note[x]
      BY <1>0, <2>1, <2>5 DEF QueueTypes
    <3>3. \A x : ~Taken(x)' /\ ~OnStack("exec", x)' /\ ~OnStack("rdone", x)'
      BY <2>2, <2>5 DEF Taken
    <3>4. ~Named(Top) /\ \A s \in Threads : ~Sends(s, Top)
      BY <1>0, <3>1 DEF TokenInv
    <3>5. \A x \in Queues : /\ Sending(x)' <=> Sending(x)
                            /\ \A s \in Threads : Sends(s, x)' <=> Sends(s, x)
      BY <2>1, SendingKept
    <3>6. TokenInv'
      BY <1>0, <2>3, <3>2, <3>3, <3>4, <3>5, TokenKept
    <3>7. LifeInv'
      BY <1>0, <2>1, <2>3, <3>3, <3>5 DEF LifeInv
    <3> QED
      BY <2>2, <3>6, <3>7 DEF QueueInv
  <2> QED
    BY <2>4, <2>5
<1> QED
  BY <1>1, <1>2, <1>3, <1>5, <1>6, <1>7, <1>8, <1>9, <1>12, <1>13, <1>15, <1>16, <1>17, <1>18,
     <1>19, <1>20
  DEF Next, Send, TargetStep

\* At first there is no message, no frame and no queue.
LEMMA QueueInit == Init => QueueInv
<1> SUFFICES ASSUME Init PROVE QueueInv
  OBVIOUS
<1>1. stack = <<>> /\ mbox = <<>> /\ \A at, of : ~OnStack(at, of)
  BY FewFrames DEF Init
<1>2. StackShape
  BY <1>1 DEF StackShape
<1>3. OneMessagePerQueue /\ \A q : ~Named(q) /\ ~Taken(q)
  BY <1>1 DEF OneMessagePerQueue, Named, Taken
<1>4. \A s \in Threads : pc[s] = "idle"
  BY DEF Init
<1>5. \A s \in Threads, q \in Queues : ~Sends(s, q)
  BY <1>4 DEF Sends
<1>6. \A q \in Queues : ~Sending(q)
  BY <1>4 DEF Sending, Holds, InSend
<1> QED
  BY <1>1, <1>2, <1>3, <1>5, <1>6 DEF QueueInv, TokenInv, LifeInv

\* A step that changes nothing keeps all of it.
LEMMA QueueStutter ==
  ASSUME QueueInv, UNCHANGED vars
  PROVE  QueueInv'
<1>1. UNCHANGED <<stack, mbox, note, life, pc, job>>
  BY DEF vars, targetVars, mboxVars, queueVars, sendVars
<1>2. /\ StackShape' /\ OneMessagePerQueue'
      /\ \A x \in Queues : /\ Named(x)' <=> Named(x)
                           /\ Taken(x)' <=> Taken(x)
                           /\ OnStack("rdone", x)' <=> OnStack("rdone", x)
                           /\ OnStack("exec", x)' <=> OnStack("exec", x)
                           /\ Sending(x)' <=> Sending(x)
                           /\ \A s \in Threads : Sends(s, x)' <=> Sends(s, x)
  BY <1>1, SameFrames, SameNamed, SendingKept DEF Taken, QueueInv, TokenInv
<1>3. TokenInv'
  BY <1>1, <1>2, TokenKept DEF QueueInv
<1>4. LifeInv'
  BY <1>1, <1>2, LifeKept DEF QueueInv
<1> QED
  BY <1>2, <1>3, <1>4 DEF QueueInv

-----------------------------------------------------------------------------
\* Each queue's notification is in one place, and a queue is allocated while
\* anyone can reach it, in every behaviour.
THEOREM QueueInvariant == Spec => []QueueInv
<1>1. Init => QueueInv
  BY QueueInit
<1>2. TypeOK /\ QueueInv /\ [Next]_vars => QueueInv'
  BY QueueStep, QueueStutter
<1> QED
  BY <1>1, <1>2, TypeCorrect, PTL DEF Spec

\* The mailbox holds at most one message per task queue, however many tasks are
\* sent: em_task_queue_send sends a message only when it finds the notification
\* of the queue not pending, and the Target marks it received only after it has
\* taken the message.
THEOREM OneMessage == Spec => []OneMessagePerQueue
<1>1. QueueInv => OneMessagePerQueue
  BY DEF QueueInv, TokenInv
<1> QED
  BY <1>1, QueueInvariant, PTL

\* A task queue is freed only when no message, no frame of the Target and no sender
\* can reach it: em_task_queue_destroy puts it on the zombie list while it is
\* notified, and the list is culled of queues whose notification is cleared.
THEOREM QueuesSafe == Spec => []NoUseAfterFree
<1>1. QueueInv => NoUseAfterFree
  <2> SUFFICES ASSUME QueueInv, NEW q \in Queues, Referenced(q)
               PROVE  life[q] \in {"live", "zombie"}
    BY DEF NoUseAfterFree
  <2>1. \/ Named(q) \/ Taken(q) \/ OnStack("exec", q) \/ OnStack("rdone", q)
        \/ Sending(q)
    BY DEF Referenced, Named, Taken
  <2> QED
    BY <2>1 DEF QueueInv, LifeInv
<1> QED
  BY <1>1, QueueInvariant, PTL
=============================================================================
