------------------------------ MODULE FileSystem ------------------------------
(***************************************************************************)
(* Files and the root directory of project 4 (filesys.c, directory.c,      *)
(* file.c) on the inodes of module Inode, and the system calls on files.   *)
(*                                                                         *)
(* A system call holds file_lock while it uses the file system, so each is *)
(* one step.  seek sets any position, so the position of a file is an      *)
(* input of the calls at it; that writes may be denied is in module        *)
(* Process.  An allocation that fails makes the caller use sector 0, and   *)
(* is the last step that is followed.                                      *)
(***************************************************************************)
EXTENDS Inode

CONSTANTS LastName,     \* names of files are 1, 2, ..., LastName
          DIR_ENTRIES,  \* entries of the root directory at first (16)
          Handles,      \* the struct files there can be
          Sizes,        \* initial sizes of files
          Vals,         \* units written
          Positions,    \* positions files are read and written at
          NULL

ASSUME InputAssumption ==
    /\ LastName \in Nat /\ DIR_ENTRIES \in Nat
    /\ Sizes \subseteq Nat /\ Vals \subseteq Nat /\ Positions \subseteq Nat
    /\ \A x \in Sizes \cup Positions : x < MaxBlocks * BLOCK_SECTOR_SIZE
ASSUME NullAssumption == NULL \notin Sectors

VARIABLES disk,         \* what module Inode calls d
          inodes,       \* open_inodes, by sector: open_cnt and removed
          handle        \* struct file: the sector of its inode, or NULL if not open

vars == <<disk, inodes, handle>>

Names == 1..LastName
NotOpen == [open_cnt |-> 0, removed |-> FALSE]

-----------------------------------------------------------------------------
(* The directory: entry i names a file and the sector of its inode. *)

Entry(name, sector) == name * SIZE + sector
NameOf(entry) == entry \div SIZE
SectorOf(entry) == entry % SIZE

\* Reading the entries from the first to the i-th reads the blocks they are in.
ReadEntries(d, i) == Touch(d, ROOT_DIR_SECTOR, Blocks(0, i \div BLOCK_SECTOR_SIZE))
EntryAt(d, i) == Peek(d, ROOT_DIR_SECTOR, i)
Entries(d) == 0..Length(d, ROOT_DIR_SECTOR) - 1

\* lookup: the entry found, or the end of the directory.
Lookup(d, name) ==
    Min({i \in Entries(d) : NameOf(EntryAt(d, i)) = name} \cup {Length(d, ROOT_DIR_SECTOR)})
Found(d, name) == Lookup(d, name) \in Entries(d)

\* dir_add looks for the name, then for a free entry, which may be at the end.
DirAdd(d, name, sector) ==
    LET a == ReadEntries(d, Lookup(d, name))
        slot == Min({i \in Entries(a) : EntryAt(a, i) = 0} \cup {Length(a, ROOT_DIR_SECTOR)})
    IN  InodeWriteAt(ReadEntries(a, slot), ROOT_DIR_SECTOR, Entry(name, sector), slot)

-----------------------------------------------------------------------------
(* Opening and closing inodes. *)

InodeOpen(s) == [inodes EXCEPT ![s].open_cnt = @ + 1]

\* An inode with one opener less; without any it leaves open_inodes.
Closed(i) == IF i.open_cnt = 1 THEN NotOpen ELSE [i EXCEPT !.open_cnt = @ - 1]

\* Mutation: a removed file's blocks are released by its first close.
InodeCloseEarly(d, open, s) ==
    /\ inodes' = [open EXCEPT ![s] = Closed(@)]
    /\ disk' = IF open[s].removed /\ s \in d.map THEN Deallocate(d, s) ELSE d

\* inode_close, with the open inodes as they are then.
InodeClose(d, open, s) ==
    /\ inodes' = [open EXCEPT ![s] = Closed(@)]
    /\ disk' = IF open[s].open_cnt = 1 /\ open[s].removed THEN Deallocate(d, s) ELSE d

-----------------------------------------------------------------------------
(* System calls. *)

\* create: a sector for the inode, the inode, the directory entry; the sector is
\* released when the name is in use.  Without a sector nothing is done.
FilesysCreate(name, size) ==
    LET s == FirstFree(disk)
        d == InodeCreate(FreeMapAllocate(disk), s, size)
    IN  /\ Unmarked(disk) # {}
        /\ disk' = IF Found(d, name) THEN FreeMapRelease(ReadEntries(d, Lookup(d, name)), s)
                   ELSE DirAdd(d, name, s)
        /\ UNCHANGED <<inodes, handle>>

\* open
FilesysOpen(h, name) ==
    LET i == Lookup(disk, name)
        s == SectorOf(EntryAt(disk, i))
    IN  /\ handle[h] = NULL
        /\ disk' = ReadEntries(disk, i)
        /\ \/ /\ Found(disk, name)
              /\ inodes' = InodeOpen(s)
              /\ handle' = [handle EXCEPT ![h] = s]
           \/ /\ ~Found(disk, name)
              /\ UNCHANGED <<inodes, handle>>

\* Mutation: the inode that dir_remove has opened is not closed.
FilesysRemoveOpen(name) ==
    LET i == Lookup(disk, name)
        s == SectorOf(EntryAt(disk, i))
    IN  /\ Found(disk, name)
        /\ inodes[s].open_cnt < 4
        /\ inodes' = [InodeOpen(s) EXCEPT ![s].removed = TRUE]
        /\ disk' = InodeWriteAt(ReadEntries(disk, i), ROOT_DIR_SECTOR, 0, i)
        /\ UNCHANGED handle

\* remove: the inode is opened, the entry erased, the inode marked and closed.
FilesysRemove(name) ==
    LET i == Lookup(disk, name)
        s == SectorOf(EntryAt(disk, i))
        a == ReadEntries(disk, i)
        d == InodeWriteAt(a, ROOT_DIR_SECTOR, 0, i)
    IN  /\ \/ /\ Found(disk, name)
              /\ InodeClose(d, [InodeOpen(s) EXCEPT ![s].removed = TRUE], s)
           \/ /\ ~Found(disk, name)
              /\ disk' = a
              /\ UNCHANGED inodes
        /\ UNCHANGED handle

\* close, and the end of a process
FileClose(h) ==
    /\ handle[h] # NULL
    /\ InodeClose(disk, inodes, handle[h])
    /\ handle' = [handle EXCEPT ![h] = NULL]

\* read, one unit
FileRead(h, pos) ==
    /\ handle[h] # NULL
    /\ disk' = InodeReadAt(disk, handle[h], pos)
    /\ UNCHANGED <<inodes, handle>>

\* write, one unit
FileWrite(h, val, pos) ==
    /\ handle[h] # NULL
    /\ disk' = InodeWriteAt(disk, handle[h], val, pos)
    /\ UNCHANGED <<inodes, handle>>

\* filesys_done and the next filesys_init: what is in memory only is gone.
Restart ==
    /\ inodes' = [s \in Sectors |-> NotOpen]
    /\ handle' = [h \in Handles |-> NULL]
    /\ UNCHANGED disk

-----------------------------------------------------------------------------

\* do_format
Init ==
    /\ disk = [w |-> [s \in Sectors |-> [Zeros EXCEPT ![0] = IF s = ROOT_DIR_SECTOR
                                                             THEN DIR_ENTRIES ELSE 0]],
               map |-> {FREE_MAP_SECTOR, ROOT_DIR_SECTOR, FREE_MAP_DATA},
               full |-> FALSE, bad |-> FALSE]
    /\ inodes = [s \in Sectors |-> NotOpen]
    /\ handle = [h \in Handles |-> NULL]

Next ==
    /\ ~disk.full
    /\ \/ \E name \in Names : \/ \E size \in Sizes : FilesysCreate(name, size)
                              \/ \E h \in Handles : FilesysOpen(h, name)
                              \/ FilesysRemove(name)
       \/ \E h \in Handles : \/ FileClose(h)
                             \/ \E pos \in Positions : \/ FileRead(h, pos)
                                                      \/ \E val \in Vals : FileWrite(h, val, pos)
       \/ Restart

Spec == Init /\ [][Next]_vars

-----------------------------------------------------------------------------
(* Properties. *)

Named == {SectorOf(EntryAt(disk, i)) : i \in {j \in Entries(disk) : EntryAt(disk, j) # 0}}
Open == {s \in Sectors : inodes[s].open_cnt > 0}
InUse == Named \cup Open

\* The sectors that the pointers of an inode lead to.
Reached(s) ==
    LET pointers(t) == Range(disk.w[t]) \ {0}
        direct == {disk.w[s][k] : k \in 1..DIRECT + 2} \ {0}
        indirect == {disk.w[s][DIRECT + 1]} \ {0}
        double == {disk.w[s][DIRECT + 2]} \ {0}
        inner == UNION {pointers(t) : t \in double}
    IN  direct \cup inner \cup UNION {pointers(t) : t \in indirect \cup inner}

\* Until the disk fills up, the inodes in use and the blocks of each are marked
\* in the free map, and no sector belongs to two of them.
SectorsDistinct ==
    ~disk.full =>
        LET used == InUse \cup {ROOT_DIR_SECTOR}
        IN  /\ \A s \in used : {s} \cup Reached(s) \subseteq disk.map \ {FREE_MAP_SECTOR, FREE_MAP_DATA}
            /\ \A s \in used : s \notin Reached(s)
            /\ \A s, t \in used : s # t => ({s} \cup Reached(s)) \cap ({t} \cup Reached(t)) = {}

\* free_map_release is never asked for a sector that is not marked.
ReleasesMarked == ~disk.bad

\* An inode is in open_inodes exactly while files refer to it, and counts them.
CountsAgree ==
    \A s \in Sectors : inodes[s].open_cnt = Cardinality({h \in Handles : handle[h] = s})

F == INSTANCE Files
     WITH Ids <- Sectors,
          dir <- [n \in Names |-> LET i == Lookup(disk, n)
                                  IN  IF i \in Entries(disk) THEN SectorOf(EntryAt(disk, i)) ELSE NULL],
          file <- LET used == InUse
                  IN  [s \in Sectors |-> IF s \notin used THEN <<>>
                                         ELSE [k \in 1..Length(disk, s) |-> Peek(disk, s, k - 1)]],
          lost <- disk.full

\* Until the disk fills up, the file system is a set of files: whatever sectors
\* they are in, sparse or not, removed while open, reallocated or kept over a
\* restart, a file contains what was written to it and zeros.
ImplementsFiles == F!Spec
=============================================================================
