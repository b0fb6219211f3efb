------------------------------- MODULE MCProcess -------------------------------
EXTENDS Process, TLC

CONSTANTS b1, b2, b3

Perms == Permutations(Blocks)
=============================================================================
