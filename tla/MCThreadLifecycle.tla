------------------------- MODULE MCThreadLifecycle -------------------------
(* Small instances of ThreadLifecycle for TLC. *)
EXTENDS ThreadLifecycle, TLC

CONSTANTS M, p1, p2, p3, w1, w2, w3

MCPtrs1 == {p1}
MCPtrs2 == {p1, p2}
MCPtrs3 == {p1, p2, p3}
MCWorkers1 == {w1}
MCWorkers2 == {w1, w2}
MCWorkers3 == {w1, w2, w3}
MCSymmetry == Permutations(MCPtrs3) \union Permutations(MCWorkers3)
=============================================================================
