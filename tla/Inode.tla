-------------------------------- MODULE Inode --------------------------------
(***************************************************************************)
(* Inodes and the free map of project 4 (filesys/inode.c, free-map.c), as  *)
(* operators on a disk d: its sectors d.w, as the buffer cache shows them, *)
(* the set d.map of sectors that the free map marks, whether an allocation *)
(* has failed, d.full, and whether free_map_release has, d.bad.            *)
(*                                                                         *)
(* A sector is BLOCK_SECTOR_SIZE units.  A byte of data, a length, a block *)
(* pointer and a directory entry take one unit each; 0 is no pointer, no   *)
(* entry and the data of a new block.  An inode is its length, DIRECT      *)
(* pointers, an indirect and a doubly indirect one.                        *)
(***************************************************************************)
EXTENDS Integers, Sequences, FiniteSets, SequencesExt

CONSTANTS SIZE,                 \* sectors of fs_device
          BLOCK_SECTOR_SIZE,    \* units of a sector
          DIRECT                \* direct pointers of an inode (12 in inode.c)

ASSUME GeometryAssumption ==
    /\ SIZE \in Nat /\ SIZE > 3
    /\ DIRECT \in Nat \ {0}
    /\ BLOCK_SECTOR_SIZE \in Nat /\ BLOCK_SECTOR_SIZE >= DIRECT + 3

Sectors == 0..SIZE - 1
FREE_MAP_SECTOR == 0
ROOT_DIR_SECTOR == 1
FREE_MAP_DATA == 2

Units == 0..BLOCK_SECTOR_SIZE - 1
Zeros == [u \in Units |-> 0]

\* The blocks a, a + 1, ..., b.
Blocks(a, b) == [k \in 1..(IF a <= b THEN b - a + 1 ELSE 0) |-> a + k - 1]

BytesToSectors(size) == (size + BLOCK_SECTOR_SIZE - 1) \div BLOCK_SECTOR_SIZE

-----------------------------------------------------------------------------
(* The free map. *)

Unmarked(d) == Sectors \ d.map
FirstFree(d) == Min(Unmarked(d))

FreeMapAllocate(d) == [d EXCEPT !.map = @ \cup {FirstFree(d)}]

FreeMapRelease(d, s) == [d EXCEPT !.map = @ \ {s}, !.bad = @ \/ s \notin d.map]

-----------------------------------------------------------------------------
(* Block pointers. *)

\* Mutation: a new block keeps what its sector contained.
AllocateSectorDirty(d, parent, slot) ==
    IF Unmarked(d) = {} THEN [d EXCEPT !.full = TRUE]
    ELSE [FreeMapAllocate(d) EXCEPT !.w[parent][slot] = FirstFree(d)]

\* A new sector, zeroed, whose number is written in the parent block.  When there
\* is none, the failure is ignored: the number stays 0, the free map's inode.
AllocateSector(d, parent, slot) ==
    LET full == Unmarked(d) = {}
        s == IF full THEN 0 ELSE FirstFree(d)
        a == IF full THEN [d EXCEPT !.full = TRUE] ELSE FreeMapAllocate(d)
    IN  [a EXCEPT !.w = [[@ EXCEPT ![s] = Zeros] EXCEPT ![parent][slot] = s]]

\* Where the pointers to block v are: in the inode, then in the indirect blocks.
Pointers(v) ==
    LET n == BLOCK_SECTOR_SIZE
        u == v - DIRECT - n
    IN  CASE v < DIRECT -> <<1 + v>>
          [] v >= DIRECT /\ u < 0 -> <<1 + DIRECT, v - DIRECT>>
          [] u >= 0 -> <<2 + DIRECT, u \div n, u % n>>

\* The largest file: beyond it there is no pointer.
MaxBlocks == DIRECT + BLOCK_SECTOR_SIZE + BLOCK_SECTOR_SIZE * BLOCK_SECTOR_SIZE

\* byte_to_psector: follow the pointers to block v, allocating what is missing,
\* for a read too.  The result is the disk and the sector.  A block beyond the
\* pointers ("File too big!", sector -1) is not asked for: InputAssumption in
\* FileSystem.
Follow(x, slot) ==
    LET a == IF x.d.w[x.sector][slot] = 0 THEN AllocateSector(x.d, x.sector, slot) ELSE x.d
    IN  [d |-> a, sector |-> a.w[x.sector][slot]]

BytesToPsector(d, inode, v) ==
    LET p == Pointers(v)
        x == Follow([d |-> d, sector |-> inode], p[1])
    IN  CASE Len(p) = 1 -> x
          [] Len(p) = 2 -> Follow(x, p[2])
          [] Len(p) = 3 -> Follow(Follow(x, p[2]), p[3])

\* The sector of block v, or 0 if it is not allocated.
Psector(d, inode, v) ==
    LET p == Pointers(v)
        at(s, slot) == IF s = 0 THEN 0 ELSE d.w[s][slot]
        s == d.w[inode][p[1]]
    IN  CASE Len(p) = 1 -> s
          [] Len(p) = 2 -> at(s, p[2])
          [] Len(p) = 3 -> at(at(s, p[2]), p[3])

Touch(d, inode, blocks) ==
    FoldLeft(LAMBDA x, v : BytesToPsector(x, inode, v).d, d, blocks)

-----------------------------------------------------------------------------
(* Inodes. *)

Length(d, inode) == d.w[inode][0]

InodeCreate(d, sector, length) == [d EXCEPT !.w[sector] = [Zeros EXCEPT ![0] = length]]

\* The unit at ofs; a block that is not allocated would read as zeros.
Peek(d, inode, ofs) ==
    LET s == Psector(d, inode, ofs \div BLOCK_SECTOR_SIZE)
    IN  IF s = 0 THEN 0 ELSE d.w[s][ofs % BLOCK_SECTOR_SIZE]

\* inode_read_at, one unit: the block is looked up before the end of file is.
InodeReadAt(d, inode, ofs) == BytesToPsector(d, inode, ofs \div BLOCK_SECTOR_SIZE).d

\* inode_write_at, one unit: the file grows to the offset first.
InodeWriteAt(d, inode, val, ofs) ==
    LET old == Length(d, inode)
        new == ofs + 1
        a == IF new <= old THEN d
             ELSE [Touch(d, inode, Blocks(BytesToSectors(old), BytesToSectors(new) - 1))
                   EXCEPT !.w[inode][0] = new]
        r == BytesToPsector(a, inode, ofs \div BLOCK_SECTOR_SIZE)
    IN  [r.d EXCEPT !.w[r.sector][ofs % BLOCK_SECTOR_SIZE] = val]

\* Mutation: the inode's own sector is released before its blocks and after them.
DeallocateTwice(d, inode) ==
    LET free(x, v) == LET r == BytesToPsector(x, inode, v) IN FreeMapRelease(r.d, r.sector)
        last == (Length(d, inode) - 2) \div BLOCK_SECTOR_SIZE
    IN  FreeMapRelease(FoldLeft(free, FreeMapRelease(d, inode), Blocks(0, last)), inode)

\* inode_close of a removed file: its own sector is released, then the blocks
\* with a byte 1, from the length that the inode in memory has.
Deallocate(d, inode) ==
    LET length == Length(d, inode)
        free(x, v) == LET r == BytesToPsector(x, inode, v) IN FreeMapRelease(r.d, r.sector)
        last == (length - 2) \div BLOCK_SECTOR_SIZE
    IN  FoldLeft(free, FreeMapRelease(d, inode), Blocks(0, last))
=============================================================================
