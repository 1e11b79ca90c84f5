--------------------------- MODULE MCFutexNotify ---------------------------
(* Small instances of FutexNotify for TLC. *)
EXTENDS FutexNotify, TLC

CONSTANTS n1, n2, f1, f2

MCOthers2 == {n1, n2}
MCFlags1 == {f1}
MCFlags2 == {f1, f2}

MCProgram(main, m, t, a) == [isMain |-> main, modes |-> m, tasksWait |-> t, allocates |-> a]

\* The main thread in plain waits, with tasks that wait, with a do_proxy that
\* allocates, and in every kind of wait; and a pthread that does all of it.
MCPrograms ==
    {MCProgram(TRUE, {"enable", "disable"}, FALSE, FALSE),
     MCProgram(TRUE, {"enable"}, TRUE, FALSE),
     MCProgram(TRUE, {"enable"}, TRUE, TRUE),
     MCProgram(TRUE, Mode, FALSE, TRUE),
     MCProgram(FALSE, Mode, TRUE, TRUE)}

\* For the properties of progress: one program of each kind of thread.
MCLivePrograms ==
    {MCProgram(TRUE, {"enable", "disable"}, FALSE, FALSE),
     MCProgram(FALSE, {"enable"}, FALSE, FALSE)}

\* The main thread calls do_proxy, which allocates.
MCAllocates == {MCProgram(TRUE, {"enable"}, FALSE, TRUE)}

MCSymmetry == Permutations(MCOthers2)
=============================================================================
