---------------------------- MODULE MCProxyCtx ----------------------------
EXTENDS ProxyCtx, TLC

CONSTANTS s1, s2, x1, x2, k1, a1, a2

MCCallers == {s1, s2}
MCSyncs == {x1, x2}
MCCallbacks == {k1}
MCAsyncs == {a1, a2}
MCCallerOf == [c \in {x1, a1} |-> s1] @@ [c \in {x2, k1, a2} |-> s2]
=============================================================================
