----------------------------- MODULE MCMailbox -----------------------------
(* Small instances of Mailbox for TLC. *)
EXTENDS Mailbox, TLC

CONSTANTS T, s1, s2, q1, q2, a, b, c

MCSenders1 == {s1}
MCSenders2 == {s1, s2}
MCQueues1 == {q1}
MCQueues2 == {q1, q2}
MCTasks1 == {a}
MCTasks2 == {a, b}
MCTasks3 == {a, b, c}
=============================================================================
