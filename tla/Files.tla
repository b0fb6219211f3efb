-------------------------------- MODULE Files --------------------------------
(***************************************************************************)
(* What the file system promises: named files, each a sequence of units    *)
(* that only a write to that file changes, which last as long as they have *)
(* a name or are open.  When the disk has run out of sectors it promises   *)
(* nothing more.                                                           *)
(***************************************************************************)
EXTENDS Integers, Sequences, Functions

CONSTANTS Names, Ids, Handles, Sizes, Positions, Vals, NULL

VARIABLES dir,          \* the file of each name, or NULL
          file,         \* the contents of each file
          handle,       \* the file each handle has open, or NULL
          lost          \* the disk has run out of sectors

vars == <<dir, file, handle, lost>>

Init ==
    /\ dir = [n \in Names |-> NULL] /\ file = [i \in Ids |-> <<>>]
    /\ handle = [h \in Handles |-> NULL] /\ lost = FALSE

\* The files with a name or open, for a directory d and handles o.
Used(d, o) == (Range(d) \cup Range(o)) \ {NULL}

\* A file that is no longer used is forgotten.
Forget ==
    LET used == Used(dir', handle')
    IN  file' = [i \in Ids |-> IF i \in used THEN file[i] ELSE <<>>]

Create(n, i, size) ==
    /\ i \notin Used(dir, handle)
    /\ dir' = [dir EXCEPT ![n] = i]
    /\ file' = [file EXCEPT ![i] = [k \in 1..size |-> 0]]

Open(h, n) ==
    /\ handle' = [handle EXCEPT ![h] = dir[n]]
    /\ UNCHANGED <<dir, file>>

Close(h) ==
    /\ handle' = [handle EXCEPT ![h] = NULL]
    /\ UNCHANGED dir
    /\ Forget

Remove(n) ==
    /\ dir' = [dir EXCEPT ![n] = NULL]
    /\ Forget

Restart ==
    /\ handle' = [h \in Handles |-> NULL]
    /\ UNCHANGED dir
    /\ Forget

\* One unit; what lies between the old end and it is zero.
Write(i, k, val) ==
    /\ file' = [file EXCEPT ![i] = [j \in 1..(IF k > Len(@) THEN k ELSE Len(@)) |->
                       IF j = k THEN val ELSE IF j \in DOMAIN @ THEN @[j] ELSE 0]]

Act ==
    \/ /\ UNCHANGED handle /\ dir' # dir
       /\ \E n \in Names : IF dir[n] # NULL THEN Remove(n)
                           ELSE \E i \in Ids, size \in Sizes : Create(n, i, size)
    \/ /\ UNCHANGED handle /\ UNCHANGED dir
       /\ \E i \in Range(handle) \ {NULL} :
              \E pos \in Positions, v \in Vals : Write(i, pos + 1, v)
    \/ \E h \in Handles : IF handle[h] # NULL THEN Close(h)
                          ELSE \E n \in Names : dir[n] # NULL /\ Open(h, n)
    \/ Restart

Next == lost \/ lost' \/ Act

Spec == Init /\ [][Next]_vars
=============================================================================
