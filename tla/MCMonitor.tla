------------------------------ MODULE MCMonitor ------------------------------
EXTENDS Monitor, TLC

CONSTANTS main, t1, t2, c1

Perms == Permutations({t1, t2})
OneLock == [c \in {c1} |-> 1]
=============================================================================
