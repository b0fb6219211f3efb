----------------------------- MODULE BufferCache -----------------------------
(***************************************************************************)
(* The buffer cache of project 4 (proj4/src/filesys/cache.c) between the   *)
(* file system and its disk.                                               *)
(*                                                                         *)
(* cache_read, cache_write and cache_create hold main_lock from beginning  *)
(* to end, so the module follows one operation at a time, by whatever      *)
(* thread.  cache_close, which runs at shutdown while other threads may    *)
(* still use the file system, does not take main_lock: it interleaves with *)
(* the operation wherever that does not hold io_lock or an entry_lock.     *)
(* Code under an entry_lock or stack_lock is one step.                     *)
(*                                                                         *)
(* A sector is a few Parts with a value each: a read or a write is about   *)
(* some bytes of the sector and must leave the others alone.               *)
(***************************************************************************)
EXTENDS Integers, Sequences, FiniteSets, SequencesExt

CONSTANTS CACHE_SIZE,   \* number of entries (64 in cache.c)
          Sectors,      \* the sectors of fs_device in use
          FREE_MAP_DATA,\* the sector of the free map's bits
          Parts, Vals,  \* what a sector consists of
          Images,       \* the whole sectors: what the disk and memory contain at
                        \*   first, what cache_create writes, the free map
          NULL

ASSUME SizeAssumption == CACHE_SIZE \in Nat \ {0}
ASSUME SectorsAssumption == Sectors \subseteq Nat /\ 0 \in Sectors /\ FREE_MAP_DATA \in Sectors \ {0}
ASSUME ImagesAssumption == Images \subseteq [Parts -> Vals]

VARIABLES sector_id, data, dirty, used, rw_count,   \* struct cache_entry
          lru_stack,    \* the entries, least recently used first
          free_map,     \* the free map's sector, kept outside the entries
          disk,         \* fs_device
          pc, req, e,   \* the operation inside main_lock: where it is, its
                        \*   arguments, and the entry it has found
          got,          \* what a read has copied to its caller's buffer
          closing, pos, \* cache_close: how far it is, and cache_flush's i
          late, overlap \* history: the Plain sectors changed since cache_close began,
                        \*   and whether anything else has run since

entryVars == <<sector_id, data, dirty, used, rw_count>>
closeVars == <<closing, pos>>
vars == <<entryVars, lru_stack, free_map, disk, pc, req, e, got, closeVars, late, overlap>>

Slots == 0..CACHE_SIZE - 1
Data == [Parts -> Vals]
\* The sectors of inodes, indirect blocks, files and directories.
Plain == Sectors \ {0, FREE_MAP_DATA}

\* The calls inode.c makes: inodes are created and read, the free map's inode is
\* sector 0, and the free map's bits are created with the others but then read
\* and written in free_map only.
Requests ==
    [op : {"read"}, sector : Plain \cup {0}, part : Parts]
        \cup [op : {"write"}, sector : Plain, part : Parts, val : Vals]
        \cup [op : {"create"}, sector : Sectors, data : Images]

ASSUME NullAssumption == NULL \notin Requests \cup [sector : Sectors, part : Parts, val : Vals]

Least(S) == CHOOSE i \in S : \A j \in S : i <= j
Greatest(S) == CHOOSE i \in S : \A j \in S : j <= i

-----------------------------------------------------------------------------
(* Operations. *)

Begin(r) ==
    /\ pc = "idle"
    /\ pc' = "lookup"
    /\ req' = r
    /\ overlap' = (closing # "no")
    /\ UNCHANGED <<entryVars, lru_stack, free_map, disk, e, got, closeVars, late>>

\* The entry is found: it is pinned until the copy is done.
Found(i) ==
    /\ rw_count' = [rw_count EXCEPT ![i] = @ + 1]
    /\ e' = i
    /\ pc' = "copy"
    /\ UNCHANGED <<sector_id, data, dirty, used>>

\* locate_data: the first search, by the entry locks, unless the sector is new.
Lookup ==
    LET hits == {i \in Slots : sector_id[i] = req.sector /\ used[i]}
    IN  /\ pc = "lookup"
        /\ \/ /\ req.op # "create" /\ hits # {}
              /\ Found(Least(hits))
           \/ /\ req.op = "create" \/ hits = {}
              /\ pc' = "scan"
              /\ UNCHANGED <<entryVars, e>>
        /\ UNCHANGED <<lru_stack, free_map, disk, req, got, closeVars, late, overlap>>

\* Mutation: the search under io_lock looks for a free entry only.
ScanFreeOnly ==
    LET free == {i \in Slots : ~used[i]}
    IN  /\ pc = "scan"
        /\ \/ /\ free # {}
              /\ e' = Greatest(free)
              /\ pc' = "fill"
           \/ /\ free = {}
              /\ pc' = "evict"
              /\ UNCHANGED e
        /\ UNCHANGED <<entryVars, lru_stack, free_map, disk, req, got, closeVars, late, overlap>>

\* locate_data, with io_lock: the second search looks at every entry, used or
\* not, and remembers the last free one.
Scan ==
    LET same == {i \in Slots : sector_id[i] = req.sector}
        free == {i \in Slots : ~used[i]}
    IN  /\ pc = "scan"
        /\ \/ /\ same # {}
              /\ Found(Least(same))
           \/ /\ same = {} /\ free # {}
              /\ e' = Greatest(free)
              /\ pc' = "fill"
              /\ UNCHANGED entryVars
           \/ /\ same = {} /\ free = {}
              /\ pc' = "evict"
              /\ UNCHANGED <<entryVars, e>>
        /\ UNCHANGED <<lru_stack, free_map, disk, req, got, closeVars, late, overlap>>

\* evict_block: the first entry of lru_stack that nobody is using.  When there
\* is none, the loop goes round for ever.
Evict ==
    LET free == {k \in DOMAIN lru_stack : rw_count[lru_stack[k]] = 0}
        i == lru_stack[Least(free)]
    IN  /\ pc = "evict"
        /\ free # {}
        /\ e' = i
        /\ used' = [used EXCEPT ![i] = FALSE]
        /\ pc' = "save"
        /\ UNCHANGED <<sector_id, data, dirty, rw_count, lru_stack, free_map, disk, req, got,
                       closeVars, late, overlap>>

\* Mutation: a dirty entry is evicted without being written back.
EvictNoSave ==
    /\ pc = "save"
    /\ pc' = "fill"
    /\ UNCHANGED <<entryVars, lru_stack, free_map, disk, req, e, got, closeVars, late, overlap>>

\* evict_block: a dirty entry is written back before it is reused.
EvictSave ==
    /\ pc = "save"
    /\ disk' = IF dirty[e] THEN [disk EXCEPT ![sector_id[e]] = data[e]] ELSE disk
    /\ pc' = "fill"
    /\ UNCHANGED <<entryVars, lru_stack, free_map, req, e, got, closeVars, late, overlap>>

\* locate_data: take over the entry, and read the sector unless it is new.
Fill ==
    /\ pc = "fill"
    /\ sector_id' = [sector_id EXCEPT ![e] = req.sector]
    /\ dirty' = [dirty EXCEPT ![e] = FALSE]
    /\ used' = [used EXCEPT ![e] = TRUE]
    /\ rw_count' = [rw_count EXCEPT ![e] = @ + 1]
    /\ data' = IF req.op = "create" THEN data ELSE [data EXCEPT ![e] = disk[req.sector]]
    /\ pc' = "copy"
    /\ UNCHANGED <<lru_stack, free_map, disk, req, e, got, closeVars, late, overlap>>

Changes(s) == late' = IF closing = "no" THEN late ELSE late \cup ({s} \cap Plain)

\* The copy between the entry and the caller's buffer, which unpins the entry.
Unpin == rw_count' = [rw_count EXCEPT ![e] = @ - 1]

CopyOut ==
    /\ pc = "copy" /\ req.op = "read"
    /\ got' = [sector |-> req.sector, part |-> req.part, val |-> data[e][req.part]]
    /\ Unpin
    /\ pc' = "touch"
    /\ UNCHANGED <<sector_id, data, dirty, used, lru_stack, free_map, disk, req, e, closeVars,
                   late, overlap>>

\* Mutation: cache_write does not unpin the entry.
CopyInPinned ==
    /\ pc = "copy" /\ req.op # "read"
    /\ data' = [data EXCEPT ![e] = IF req.op = "create" THEN req.data
                                   ELSE [@ EXCEPT ![req.part] = req.val]]
    /\ dirty' = [dirty EXCEPT ![e] = TRUE]
    /\ rw_count[e] < 3
    /\ Changes(req.sector)
    /\ pc' = "touch"
    /\ UNCHANGED <<sector_id, used, rw_count, lru_stack, free_map, disk, req, e, got,
                   closeVars, overlap>>

CopyIn ==
    /\ pc = "copy" /\ req.op # "read"
    /\ data' = [data EXCEPT ![e] = IF req.op = "create" THEN req.data
                                   ELSE [@ EXCEPT ![req.part] = req.val]]
    /\ Unpin
    /\ dirty' = [dirty EXCEPT ![e] = TRUE]
    /\ Changes(req.sector)
    /\ pc' = "touch"
    /\ UNCHANGED <<sector_id, used, lru_stack, free_map, disk, req, e, got, closeVars, overlap>>

\* Mutation: the entry is put at the back of lru_stack without being removed.
TouchNoRemove ==
    /\ pc = "touch"
    /\ lru_stack' = Append(lru_stack, e)
    /\ pc' = "idle"
    /\ req' = NULL /\ e' = NULL /\ got' = NULL
    /\ UNCHANGED <<entryVars, free_map, disk, closeVars, late, overlap>>

\* list_remove and list_push_back on lru_stack; main_lock is released.
Touch ==
    /\ pc = "touch"
    /\ lru_stack' = Append(RemoveAt(lru_stack, CHOOSE k \in DOMAIN lru_stack : lru_stack[k] = e), e)
    /\ pc' = "idle"
    /\ req' = NULL /\ e' = NULL /\ got' = NULL
    /\ UNCHANGED <<entryVars, free_map, disk, closeVars, late, overlap>>

\* cache_write_map.  (cache_read_map changes nothing.)
WriteMap(d) ==
    /\ pc = "idle"
    /\ free_map' = d
    /\ overlap' = (closing # "no")
    /\ UNCHANGED <<entryVars, lru_stack, disk, pc, req, e, got, closeVars, late>>

-----------------------------------------------------------------------------
(* cache_close. *)

Close ==
    /\ closing = "no"
    /\ closing' = "flush" /\ pos' = 0
    /\ overlap' = (pc # "idle")
    /\ UNCHANGED <<entryVars, lru_stack, free_map, disk, pc, req, e, got, late>>

\* Mutation: cache_flush skips the entry in use.
FlushUnpinned ==
    /\ closing = "flush"
    /\ pc \notin {"evict", "save", "fill"}
    /\ disk' = IF dirty[pos] /\ pos # e THEN [disk EXCEPT ![sector_id[pos]] = data[pos]] ELSE disk
    /\ pos' = pos + 1
    /\ closing' = IF pos + 1 = CACHE_SIZE THEN "map" ELSE "flush"
    /\ UNCHANGED <<entryVars, lru_stack, free_map, pc, req, e, got, late, overlap>>

\* cache_flush: one entry, under io_lock, which locate_data holds while it
\* evicts and fills.
FlushEntry ==
    /\ closing = "flush"
    /\ pc \notin {"evict", "save", "fill"}
    /\ disk' = IF dirty[pos] THEN [disk EXCEPT ![sector_id[pos]] = data[pos]] ELSE disk
    /\ pos' = pos + 1
    /\ closing' = IF pos + 1 = CACHE_SIZE THEN "map" ELSE "flush"
    /\ UNCHANGED <<entryVars, lru_stack, free_map, pc, req, e, got, late, overlap>>

\* Mutation: cache_close leaves the free map to the entries.
CloseNoMap ==
    /\ closing = "map"
    /\ closing' = "done"
    /\ UNCHANGED <<entryVars, lru_stack, free_map, disk, pc, req, e, got, pos, late, overlap>>

\* cache_close: the free map last, without a lock.
CloseMap ==
    /\ closing = "map"
    /\ disk' = [disk EXCEPT ![FREE_MAP_DATA] = free_map]
    /\ closing' = "done"
    /\ UNCHANGED <<entryVars, lru_stack, free_map, pc, req, e, got, pos, late, overlap>>

-----------------------------------------------------------------------------

\* cache_init.  The entries are zeroed static memory and their data is not
\* initialised.
Init ==
    /\ disk \in [Sectors -> Images]
    /\ sector_id = [i \in Slots |-> 0]
    /\ data \in [Slots -> Images]
    /\ dirty = [i \in Slots |-> FALSE] /\ used = [i \in Slots |-> FALSE]
    /\ rw_count = [i \in Slots |-> 0]
    /\ lru_stack = [k \in 1..CACHE_SIZE |-> k - 1]
    /\ free_map = disk[FREE_MAP_DATA]
    /\ pc = "idle" /\ req = NULL /\ e = NULL /\ got = NULL
    /\ closing = "no" /\ pos = 0
    /\ late = {} /\ overlap = FALSE

\* A step of the operation in progress.
OpStep == Lookup \/ Scan \/ Evict \/ EvictSave \/ Fill \/ CopyOut \/ CopyIn \/ Touch

Next ==
    \/ OpStep
    \/ \E r \in Requests : Begin(r)
    \/ \E d \in Images : WriteMap(d)
    \/ Close \/ FlushEntry \/ CloseMap

Spec == Init /\ [][Next]_vars

-----------------------------------------------------------------------------
(* Properties. *)

CacheTypeOK ==
    /\ sector_id \in [Slots -> Sectors] /\ data \in [Slots -> Data]
    /\ dirty \in [Slots -> BOOLEAN] /\ used \in [Slots -> BOOLEAN]
    /\ rw_count \in [Slots -> Nat]
    /\ lru_stack \in [1..CACHE_SIZE -> Slots]
    /\ \A i \in Slots : \E k \in 1..CACHE_SIZE : lru_stack[k] = i
    /\ free_map \in Data /\ disk \in [Sectors -> Data]
    /\ pc \in {"idle", "lookup", "scan", "evict", "save", "fill", "copy", "touch"}
    /\ req \in Requests \cup {NULL} /\ e \in Slots \cup {NULL}
    /\ closing \in {"no", "flush", "map", "done"} /\ pos \in 0..CACHE_SIZE
    /\ late \subseteq Plain /\ overlap \in BOOLEAN

\* The contents of a sector: a dirty entry's data (also of one that is being
\* written back), or else the disk's.
Holding(s) == {i \in Slots : /\ sector_id[i] = s /\ dirty[i]
                             /\ used[i] \/ (pc = "save" /\ e = i)}
Contents(s) == IF Holding(s) = {} THEN disk[s] ELSE data[Least(Holding(s))]

\* The request in progress is about a sector that SectorStore has.
PlainCall == req # NULL /\ req.sector \in Plain

Store == INSTANCE SectorStore
         WITH Sectors <- Plain,
              Requests <- {r \in Requests : r.sector \in Plain},
              store <- [s \in Plain |-> Contents(s)],
              call <- IF PlainCall THEN req ELSE NULL,
              done <- PlainCall /\ pc = "touch",
              got <- IF PlainCall THEN got ELSE NULL

\* Through any sequence of hits, misses and evictions, with cache_close running
\* alongside, reads return what was last written, a write changes only the bytes
\* it is about, and nothing else, an eviction in particular, changes what a
\* sector contains.
ImplementsStore == Store!Spec

\* A sector is in at most one entry; two would be written back over each other.
OneEntry ==
    \A i, j \in Slots : used[i] /\ used[j] /\ sector_id[i] = sector_id[j] => i = j

\* After cache_close every sector not changed since it began is on the disk,
\* even if operations move sectors between entries while cache_flush walks over
\* the entries.
CloseSaves == closing = "done" => \A s \in Plain \ late : disk[s] = Contents(s)

\* After cache_close, if nothing else has run meanwhile, the disk has the free
\* map, although an entry may hold an older image of its sector.
MapSaved == closing = "done" /\ ~overlap => disk[FREE_MAP_DATA] = free_map

\* evict_block finds an entry that nobody is using, so its loop ends.
VictimExists == pc = "evict" => \E i \in Slots : rw_count[i] = 0
=============================================================================
