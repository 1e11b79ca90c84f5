--------------------------- MODULE HeapAllocator ---------------------------
(***************************************************************************)
(* What malloc and free promise the program.  A block that the program     *)
(* holds is memory of its own: it has at least the size asked for, it is   *)
(* at the alignment asked for, and it lies apart from every other block,   *)
(* a header on each side.  Until the program frees or resizes it, no call  *)
(* takes any of it away.  Sizes and addresses count words.                 *)
(***************************************************************************)
EXTENDS Integers

VARIABLES
    need,       \* need[p]: the size and the alignment the program asked for at p
    room        \* room[p]: the size of the memory it has there

vars == <<need, room>>

Blocks == DOMAIN need

\* Enough room, at the alignment, and apart from the next block with a header
\* on each side.
WellFormed ==
    LET have == room
    IN  /\ DOMAIN have = Blocks
        /\ \A p \in Blocks : have[p] >= need[p].size /\ p % need[p].align = 0
        /\ \A p, q \in Blocks : p < q => p + have[p] + 2 <= q

Init == WellFormed /\ Blocks = {}

\* Other blocks keep their place and size when the block p comes, goes or is
\* resized.  Their room may grow, when the block after wants an alignment.
KeepsAllBut(p) ==
    LET before == room
        after == room'
    IN  \A q \in Blocks \ {p} :
           q \in Blocks' /\ need'[q] = need[q] /\ after[q] >= before[q]

Allocate ==
    \E p \in Blocks' \ Blocks : Blocks' = Blocks \union {p} /\ KeepsAllBut(p)

Release == \E p \in Blocks : Blocks' = Blocks \ {p} /\ KeepsAllBut(p)

Resize == \E p \in Blocks : Blocks' = Blocks /\ KeepsAllBut(p)

Next == WellFormed' /\ (Allocate \/ Release \/ Resize)

Spec == Init /\ [][Next]_vars
=============================================================================
