---------------------------- MODULE TaskDelivery ----------------------------
(***************************************************************************)
(* What proxying to a thread promises (the comments of                     *)
(* system/include/emscripten/proxying.h and of pthread_impl.h): a task     *)
(* sent to a thread through a task queue is refused at once or accepted.   *)
(* The accepted tasks of one queue run one at a time, in the order in      *)
(* which they were accepted, while the thread is open.  A thread that      *)
(* closes cancels all that it has not begun, and a pthread struct is       *)
(* opened again only after that.                                           *)
(***************************************************************************)
EXTENDS Naturals, Sequences

CONSTANTS Queues, Tasks, Idle

VARIABLES
    open,       \* whether the thread accepts and runs work
    waiting,    \* waiting[q]: the accepted tasks of q that have not begun
    running,    \* running[q]: the task of q that runs, or Idle
    outcome     \* outcome[t]: what has become of t

vars == <<open, waiting, running, outcome>>

Init ==
    /\ open = TRUE
    /\ waiting = [q \in Queues |-> <<>>]
    /\ running = [q \in Queues |-> Idle]
    /\ outcome = [t \in Tasks |-> "new"]

Accept(q, t) ==
    /\ open /\ outcome[t] = "new"
    /\ outcome' = [outcome EXCEPT ![t] = "queued"]
    /\ waiting' = [waiting EXCEPT ![q] = Append(@, t)]
    /\ UNCHANGED <<open, running>>

Refuse(t) ==
    /\ outcome[t] = "new"
    /\ outcome' = [outcome EXCEPT ![t] = "refused"]
    /\ UNCHANGED <<open, waiting, running>>

Begin(q) ==
    /\ open /\ waiting[q] # <<>> /\ running[q] = Idle
    /\ running' = [running EXCEPT ![q] = Head(waiting[q])]
    /\ outcome' = [outcome EXCEPT ![Head(waiting[q])] = "running"]
    /\ waiting' = [waiting EXCEPT ![q] = Tail(@)]
    /\ UNCHANGED open

End(q) ==
    /\ running[q] # Idle
    /\ outcome' = [outcome EXCEPT ![running[q]] = "done"]
    /\ running' = [running EXCEPT ![q] = Idle]
    /\ UNCHANGED <<open, waiting>>

Close ==
    /\ open /\ \A q \in Queues : running[q] = Idle
    /\ open' = FALSE
    /\ UNCHANGED <<waiting, running, outcome>>

Cancel(q) ==
    /\ ~open /\ waiting[q] # <<>>
    /\ outcome' = [outcome EXCEPT ![Head(waiting[q])] = "canceled"]
    /\ waiting' = [waiting EXCEPT ![q] = Tail(@)]
    /\ UNCHANGED <<open, running>>

Reopen ==
    /\ ~open /\ \A q \in Queues : waiting[q] = <<>>
    /\ open' = TRUE
    /\ UNCHANGED <<waiting, running, outcome>>

Next ==
    \/ \E t \in Tasks : Refuse(t) \/ \E q \in Queues : Accept(q, t)
    \/ \E q \in Queues : Begin(q) \/ End(q) \/ Cancel(q)
    \/ Close \/ Reopen

Fairness == \A q \in Queues : WF_vars(Begin(q) \/ Cancel(q)) /\ WF_vars(End(q))

Spec == Init /\ [][Next]_vars /\ Fairness
=============================================================================
