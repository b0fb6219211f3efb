------------------------------- MODULE MCSynch -------------------------------
EXTENDS Synch, TLC

CONSTANTS main, t1, t2, t3

\* Main alone is never freed, and only the Started threads exist at first.
Perms == {p \in Permutations(Threads \ {Main}) :
              \A t \in Threads \ {Main} : t \in Started <=> p[t] \in Started}
=============================================================================
