------------------------------- MODULE MCPaging -------------------------------
EXTENDS Paging, TLC

CONSTANTS p1, p2

Perms == Permutations(Procs)
=============================================================================
