--------------------------- MODULE FileSystemProofs ---------------------------
(***************************************************************************)
(* Proof about FileSystem: open_inodes counts the files that are open,     *)
(* whatever the directory and the blocks of files contain.                 *)
(***************************************************************************)
EXTENDS FileSystem, FiniteSetTheorems, TLAPS

-----------------------------------------------------------------------------
(* The inductive invariant. *)

Inodes == [open_cnt : Nat, removed : BOOLEAN]

Opened(s) == {h \in Handles : handle[h] = s}

\* The counts are of finite sets, or a cardinality would say nothing.
CountInv ==
    /\ inodes \in [Sectors -> Inodes]
    /\ handle = [h \in Handles |-> handle[h]]
    /\ IsFiniteSet({h \in Handles : handle[h] # NULL})
    /\ \A s \in Sectors : inodes[s].open_cnt = Cardinality(Opened(s))

LEMMA OpenedFinite ==
    ASSUME CountInv, NEW s \in Sectors
    PROVE  IsFiniteSet(Opened(s)) /\ Cardinality(Opened(s)) \in Nat
<1>1. Opened(s) \subseteq {h \in Handles : handle[h] # NULL}
    BY NullAssumption DEF Opened
<1> QED
    BY <1>1, FS_Subset, FS_CardinalityType DEF CountInv

\* When no file is open.
LEMMA CountInit ==
    ASSUME inodes' = [s \in Sectors |-> NotOpen], handle' = [h \in Handles |-> NULL]
    PROVE  CountInv'
<1>1. inodes' \in [Sectors -> Inodes]
    BY DEF NotOpen, Inodes
<1>2. {h \in Handles : handle'[h] # NULL} = {}
    OBVIOUS
<1>3. \A s \in Sectors : Opened(s)' = {} /\ inodes'[s].open_cnt = 0
    BY NullAssumption DEF Opened, NotOpen
<1> QED
    BY <1>1, <1>2, <1>3, FS_EmptySet DEF CountInv

-----------------------------------------------------------------------------
(* The steps. *)

\* A change of one inode, also of one that is not there.
LEMMA ChangeInode ==
    ASSUME NEW f \in [Sectors -> Inodes], NEW s, NEW i, s \in Sectors => i \in Inodes
    PROVE  /\ [f EXCEPT ![s] = i] \in [Sectors -> Inodes]
           /\ \A x \in Sectors : [f EXCEPT ![s] = i][x] = IF x = s THEN i ELSE f[x]
    OBVIOUS

LEMMA CloseInode ==
    ASSUME NEW i \in Inodes, i.open_cnt > 0
    PROVE  Closed(i) \in Inodes /\ Closed(i).open_cnt = i.open_cnt - 1
    BY DEF Inodes, Closed, NotOpen

\* open: whatever sector the directory's entry names, it is counted if it exists.
LEMMA OpenCount ==
    ASSUME CountInv, NEW h \in Handles, NEW name, FilesysOpen(h, name)
    PROVE  CountInv'
<1> DEFINE s == SectorOf(EntryAt(disk, Lookup(disk, name)))
<1>0. /\ inodes \in [Sectors -> Inodes]
      /\ handle = [x \in Handles |-> handle[x]]
      /\ handle[h] = NULL
      /\ \A x \in Sectors : inodes[x].open_cnt = Cardinality(Opened(x))
    BY DEF CountInv, FilesysOpen
<1>1. CASE UNCHANGED <<inodes, handle>>
    BY <1>1 DEF CountInv, Opened
<1>2. CASE inodes' = InodeOpen(s) /\ handle' = [handle EXCEPT ![h] = s]
  <2> HIDE DEF s
  <2>1. inodes' = [inodes EXCEPT ![s].open_cnt = @ + 1] /\ handle' = [handle EXCEPT ![h] = s]
      BY <1>2 DEF InodeOpen
  <2>2. /\ inodes' \in [Sectors -> Inodes]
        /\ \A x \in Sectors : inodes'[x].open_cnt = IF x = s THEN inodes[x].open_cnt + 1
                                                    ELSE inodes[x].open_cnt
    <3> DEFINE i == [inodes[s] EXCEPT !.open_cnt = inodes[s].open_cnt + 1]
    <3>1. s \in Sectors => i \in Inodes /\ i.open_cnt = inodes[s].open_cnt + 1
        BY <1>0 DEF Inodes
    <3>2. inodes' = [inodes EXCEPT ![s] = i]
        BY <2>1
    <3> HIDE DEF i
    <3> QED
        BY <3>1, <3>2, <1>0, ChangeInode
  <2>3. /\ handle' = [x \in Handles |-> handle'[x]]
        /\ \A x \in Handles : handle'[x] = IF x = h THEN s ELSE handle[x]
      BY <2>1, <1>0
  <2>4. IsFiniteSet({x \in Handles : handle'[x] # NULL})
    <3>1. {x \in Handles : handle'[x] # NULL} \subseteq {x \in Handles : handle[x] # NULL} \cup {h}
        BY <2>3
    <3>2. IsFiniteSet({x \in Handles : handle[x] # NULL} \cup {h})
        BY FS_AddElement DEF CountInv
    <3> QED
        BY <3>1, <3>2, FS_Subset
  <2>5. ASSUME NEW x \in Sectors PROVE inodes'[x].open_cnt = Cardinality(Opened(x)')
    <3>1. h \notin Opened(x)
        BY <1>0, NullAssumption DEF Opened
    <3>2. Opened(x)' = IF x = s THEN Opened(x) \cup {h} ELSE Opened(x)
        BY <2>3, <3>1 DEF Opened
    <3>3. Cardinality(Opened(x) \cup {h}) = Cardinality(Opened(x)) + 1
        BY <3>1, OpenedFinite, FS_AddElement
    <3> QED
        BY <3>2, <3>3, <2>2, <1>0
  <2> QED
      BY <2>2, <2>3, <2>4, <2>5 DEF CountInv
<1> QED
    BY <1>1, <1>2 DEF FilesysOpen

\* close
LEMMA CloseCount ==
    ASSUME CountInv, NEW h \in Handles, FileClose(h)
    PROVE  CountInv'
<1> DEFINE s == handle[h]
<1>0. /\ inodes \in [Sectors -> Inodes]
      /\ handle = [x \in Handles |-> handle[x]]
      /\ s # NULL
      /\ \A x \in Sectors : inodes[x].open_cnt = Cardinality(Opened(x))
    BY DEF CountInv, FileClose
<1>1. /\ inodes' = [inodes EXCEPT ![s] = Closed(inodes[s])]
      /\ handle' = [handle EXCEPT ![h] = NULL]
    BY DEF FileClose, InodeClose
<1> HIDE DEF s
<1>2. /\ handle' = [x \in Handles |-> handle'[x]]
      /\ \A x \in Handles : handle'[x] = IF x = h THEN NULL ELSE handle[x]
    BY <1>0, <1>1
<1>3. IsFiniteSet({x \in Handles : handle'[x] # NULL})
  <2>1. {x \in Handles : handle'[x] # NULL} \subseteq {x \in Handles : handle[x] # NULL}
      BY <1>2
  <2> QED
      BY <2>1, FS_Subset DEF CountInv
<1>4. ASSUME NEW x \in Sectors
      PROVE  /\ x = s => inodes[x].open_cnt > 0
             /\ Cardinality(Opened(x)') = IF x = s THEN inodes[x].open_cnt - 1
                                          ELSE inodes[x].open_cnt
  <2>1. Opened(x)' = IF x = s THEN Opened(x) \ {h} ELSE Opened(x)
      BY <1>2, NullAssumption DEF Opened, s
  <2>2. x = s => h \in Opened(x)
      BY DEF Opened, s
  <2>3. x = s => Cardinality(Opened(x) \ {h}) = Cardinality(Opened(x)) - 1
      BY <2>2, OpenedFinite, FS_RemoveElement
  <2>4. x = s => Opened(x) # {}
      BY <2>2
  <2>5. x = s => Cardinality(Opened(x)) # 0
      BY <2>4, OpenedFinite, FS_EmptySet
  <2> QED
      BY <2>1, <2>3, <2>5, OpenedFinite, <1>0
<1>5. /\ inodes' \in [Sectors -> Inodes]
      /\ \A x \in Sectors : inodes'[x].open_cnt = IF x = s THEN inodes[x].open_cnt - 1
                                                  ELSE inodes[x].open_cnt
  <2>1. s \in Sectors => inodes[s] \in Inodes /\ inodes[s].open_cnt > 0
      BY <1>0, <1>4
  <2>2. s \in Sectors => /\ Closed(inodes[s]) \in Inodes
                         /\ Closed(inodes[s]).open_cnt = inodes[s].open_cnt - 1
      BY <2>1, CloseInode
  <2> QED
      BY <2>2, <1>0, <1>1, ChangeInode
<1> QED
    BY <1>2, <1>3, <1>4, <1>5 DEF CountInv

\* remove: the inode is opened and closed again.
LEMMA RemoveCount ==
    ASSUME CountInv, NEW name, FilesysRemove(name)
    PROVE  CountInv'
<1> DEFINE s == SectorOf(EntryAt(disk, Lookup(disk, name)))
<1>0. /\ inodes \in [Sectors -> Inodes]
      /\ handle' = handle
      /\ \/ inodes' = inodes
         \/ inodes' = [[InodeOpen(s) EXCEPT ![s].removed = TRUE] EXCEPT ![s] = Closed(@)]
    BY DEF CountInv, FilesysRemove, InodeClose
<1> HIDE DEF s
<1> DEFINE o == [inodes[s] EXCEPT !.open_cnt = inodes[s].open_cnt + 1]
           i == [o EXCEPT !.removed = TRUE]
<1>1. /\ s \in Sectors => i \in Inodes /\ i.open_cnt > 0 /\ i.open_cnt - 1 = inodes[s].open_cnt
      /\ s \in Sectors => Closed(i) \in Inodes /\ Closed(i).open_cnt = i.open_cnt - 1
  <2>1. s \in Sectors => i \in Inodes /\ i.open_cnt > 0 /\ i.open_cnt - 1 = inodes[s].open_cnt
    <3>1. s \in Sectors => o \in Inodes /\ o.open_cnt = inodes[s].open_cnt + 1 /\ o.open_cnt - 1 = inodes[s].open_cnt
        BY <1>0 DEF Inodes
    <3> HIDE DEF o
    <3>2. s \in Sectors => i \in Inodes /\ i.open_cnt = o.open_cnt
        BY <3>1 DEF Inodes
    <3> QED
        BY <3>1, <3>2, <1>0 DEF Inodes
  <2> HIDE DEF i, o
  <2> QED
      BY <2>1, CloseInode
<1>2. inodes' = inodes \/ inodes' = [inodes EXCEPT ![s] = Closed(i)]
  <2>1. [InodeOpen(s) EXCEPT ![s].removed = TRUE] = [inodes EXCEPT ![s] = i]
    <3>1. InodeOpen(s) = [inodes EXCEPT ![s] = o]
        BY <1>0 DEF InodeOpen
    <3> HIDE DEF o
    <3>2. CASE s \in Sectors
        BY <3>1, <3>2, <1>0
    <3>3. CASE s \notin Sectors
        BY <3>1, <3>3, <1>0
    <3> QED
        BY <3>2, <3>3
  <2> HIDE DEF i
  <2>2. [[inodes EXCEPT ![s] = i] EXCEPT ![s] = Closed(@)] = [inodes EXCEPT ![s] = Closed(i)]
      BY <1>0
  <2> QED
      BY <2>1, <2>2, <1>0
<1> HIDE DEF i, o
<1>3. /\ inodes' \in [Sectors -> Inodes]
      /\ \A x \in Sectors : inodes'[x].open_cnt = inodes[x].open_cnt
    BY <1>0, <1>1, <1>2, ChangeInode
<1>4. \A x : Opened(x)' = Opened(x)
    BY <1>0 DEF Opened
<1> QED
    BY <1>0, <1>3, <1>4 DEF CountInv

-----------------------------------------------------------------------------
(* The theorem. *)

LEMMA CountNext == CountInv /\ [Next]_vars => CountInv'
<1> SUFFICES ASSUME CountInv, [Next]_vars PROVE CountInv'
    OBVIOUS
<1>1. CASE UNCHANGED <<inodes, handle>>
    BY <1>1 DEF CountInv, Opened
<1>2. ASSUME NEW name, NEW size, FilesysCreate(name, size) PROVE CountInv'
    BY <1>1, <1>2 DEF FilesysCreate
<1>3. ASSUME NEW h \in Handles, NEW pos, FileRead(h, pos) \/ \E val \in Vals : FileWrite(h, val, pos)
      PROVE  CountInv'
    BY <1>1, <1>3 DEF FileRead, FileWrite
<1>4. CASE Restart
    BY <1>4, CountInit DEF Restart
<1> QED
    BY <1>1, <1>2, <1>3, <1>4, OpenCount, CloseCount, RemoveCount DEF Next, vars

\* An inode is on open_inodes exactly while files refer to it, and counts them: of
\* the two openings and closings of dir_remove nothing remains, and a restart
\* forgets counts and files together.
THEOREM OpenInodesCounted == Spec => []CountsAgree
<1>1. Init => CountInv
    <2> SUFFICES ASSUME Init PROVE CountInv
        OBVIOUS
    <2>1. inodes \in [Sectors -> Inodes]
        BY DEF Init, NotOpen, Inodes
    <2>2. {h \in Handles : handle[h] # NULL} = {} /\ handle = [h \in Handles |-> handle[h]]
        BY DEF Init
    <2>3. \A s \in Sectors : Opened(s) = {} /\ inodes[s].open_cnt = 0
        BY NullAssumption DEF Init, Opened, NotOpen
    <2> QED
        BY <2>1, <2>2, <2>3, FS_EmptySet DEF CountInv
<1>2. CountInv => CountsAgree
    BY DEF CountInv, CountsAgree, Opened
<1> QED
    BY <1>1, <1>2, CountNext, PTL DEF Spec
=============================================================================
