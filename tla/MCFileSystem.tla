----------------------------- MODULE MCFileSystem -----------------------------
EXTENDS FileSystem, TLC

CONSTANTS h1, h2

Perms == Permutations(Handles)

\* The blocks of the largest file have pointers of their own, inside the sectors
\* they are in and clear of the inode's length.
ASSUME PointersDistinct ==
    /\ \A v, w \in 0..MaxBlocks - 1 : Pointers(v) = Pointers(w) => v = w
    /\ \A v \in 0..MaxBlocks - 1 :
           /\ Pointers(v)[1] \in 1..DIRECT + 2
           /\ \A i \in DOMAIN Pointers(v) : Pointers(v)[i] \in Units
=============================================================================
