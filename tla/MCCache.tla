------------------------------- MODULE MCCache -------------------------------
EXTENDS BufferCache, TLC

\* Nothing looks at a value, so all zeros and all ones are enough to tell the
\* contents of a sector from what was there before.
MCImages == {[p \in Parts |-> v] : v \in Vals}

Perms == Permutations(Parts) \cup Permutations(Vals)
=============================================================================
