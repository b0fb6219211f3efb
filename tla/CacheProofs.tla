----------------------------- MODULE CacheProofs -----------------------------
(***************************************************************************)
(* Proofs about BufferCache: its invariants and that it implements a store *)
(* of sectors, for every number of entries and sectors.                    *)
(***************************************************************************)
EXTENDS BufferCache, ListProofs

-----------------------------------------------------------------------------
(* The inductive invariant. *)

\* lru_stack has each entry once.
Stack ==
    /\ lru_stack \in Seq(Slots) /\ Len(lru_stack) = CACHE_SIZE
    /\ IsInjective(lru_stack) /\ ToSet(lru_stack) = Slots

\* What goes with a place in the code; only the entry that is copied is pinned.
Operation ==
    /\ pc = "idle" <=> req = NULL
    /\ pc \in {"idle", "lookup", "scan", "evict"} => e = NULL
    /\ pc \in {"save", "fill", "copy", "touch"} => e \in Slots
    /\ pc # "touch" => got = NULL
    /\ \A i \in Slots : rw_count[i] = IF pc = "copy" /\ e = i THEN 1 ELSE 0

\* The entry has the contents of its sector, although it may be about to be reused.
Live(i) == used[i] \/ (pc = "save" /\ e = i)

\* Where sectors are.  An entry that is not in use has no sector, apart from the one
\* that is evicted: the second search of locate_data, which looks at all entries,
\* finds what it should.  (Sector 0 is also the number in an entry never used.)
Placed ==
    /\ \A i \in Slots : ~used[i] /\ sector_id[i] # 0 => pc \in {"save", "fill"} /\ e = i
    /\ pc \in {"evict", "save", "fill"} => \A i \in Slots : sector_id[i] # req.sector
    /\ pc = "evict" => \A i \in Slots : used[i]
    /\ pc \in {"save", "fill"} => ~used[e]
    /\ pc \in {"copy", "touch"} => sector_id[e] = req.sector /\ (used[e] \/ req.sector = 0)
    /\ \A i, j \in Slots : Live(i) /\ Live(j) /\ sector_id[i] = sector_id[j] => i = j

\* An entry that is not dirty is as the disk, until a new sector is put in it.
Coherent ==
    \A i \in Slots : /\ used[i] /\ ~dirty[i] /\ sector_id[i] \in Plain
                     /\ ~(pc = "copy" /\ e = i /\ req.op = "create")
                     => data[i] = disk[sector_id[i]]

\* cache_flush: the entries it has passed are on the disk.
Flushed ==
    \A i \in Slots : i < pos /\ Live(i) /\ dirty[i] /\ sector_id[i] \in Plain \ late =>
                         disk[sector_id[i]] = data[i]

Closing ==
    /\ closing = "no" => pos = 0
    /\ closing = "flush" => pos \in Slots
    /\ closing \in {"map", "done"} => pos = CACHE_SIZE
    /\ closing # "no" /\ ~overlap => pc = "idle"

CacheInv ==
    /\ CacheTypeOK /\ Stack /\ Operation /\ Placed /\ Coherent /\ Flushed /\ Closing /\ MapSaved

-----------------------------------------------------------------------------
(* Facts about the constants and the requests. *)

LEMMA Constants ==
    /\ CACHE_SIZE \in Nat \ {0} /\ Slots \subseteq Nat /\ 0 \in Slots
    /\ \A i \in Slots : i < CACHE_SIZE
    /\ Plain \subseteq Sectors /\ 0 \notin Plain /\ FREE_MAP_DATA \notin Plain
    /\ FREE_MAP_DATA \in Sectors /\ 0 \in Sectors /\ Images \subseteq Data /\ NULL \notin Requests
    BY SizeAssumption, SectorsAssumption, ImagesAssumption, NullAssumption DEF Slots, Plain, Data

LEMMA RequestTypes ==
    ASSUME NEW r \in Requests
    PROVE  /\ r.sector \in Sectors /\ r.op \in {"read", "write", "create"}
           /\ r.op = "read" => r.part \in Parts
           /\ r.op = "write" => r.sector \in Plain /\ r.part \in Parts /\ r.val \in Vals
           /\ r.op = "create" => r.data \in Data
    BY Constants DEF Requests

LEMMA LeastOf == ASSUME NEW T, T \subseteq Nat, T # {} PROVE Least(T) \in T
    BY LeastExists DEF Least

LEMMA GreatestOf == ASSUME NEW T, T \subseteq Slots, T # {} PROVE Greatest(T) \in T
<1>1. PICK x \in T : \A y \in T : y <= x
  <2>1. CACHE_SIZE \in Nat /\ T \subseteq 0..CACHE_SIZE
      BY Constants DEF Slots
  <2> QED
      BY <2>1, GreatestExists
<1> QED
    BY <1>1 DEF Greatest

-----------------------------------------------------------------------------
(* Initial states *)

LEMMA InitInv == Init => CacheInv
<1> SUFFICES ASSUME Init PROVE CacheInv
    OBVIOUS
<1>1. Stack /\ lru_stack \in [1..CACHE_SIZE -> Slots]
      /\ \A i \in Slots : \E k \in 1..CACHE_SIZE : lru_stack[k] = i
  <2>1. CACHE_SIZE \in Nat /\ \A k \in 1..CACHE_SIZE : k - 1 \in Slots
      BY Constants DEF Slots
  <2>2. lru_stack \in [1..CACHE_SIZE -> Slots]
      BY <2>1 DEF Init
  <2>3. \A i \in Slots : i + 1 \in 1..CACHE_SIZE /\ lru_stack[i + 1] = i
      BY <2>1 DEF Init, Slots
  <2>4. lru_stack \in Seq(Slots) /\ Len(lru_stack) = CACHE_SIZE
      BY <2>1, <2>2
  <2>5. IsInjective(lru_stack)
      BY <2>1 DEF Init, IsInjective
  <2>6. ToSet(lru_stack) = Slots
      BY <2>2, <2>3 DEF ToSet
  <2> QED
      BY <2>2, <2>3, <2>4, <2>5, <2>6 DEF Stack
<1>2. CacheTypeOK
  <2>1. data \in [Slots -> Data] /\ disk \in [Sectors -> Data] /\ free_map \in Data
      BY Constants DEF Init
  <2>2. /\ sector_id \in [Slots -> Sectors] /\ rw_count \in [Slots -> Nat]
        /\ dirty \in [Slots -> BOOLEAN] /\ used \in [Slots -> BOOLEAN]
      BY Constants DEF Init
  <2>3. /\ pc = "idle" /\ req = NULL /\ e = NULL /\ closing = "no" /\ pos \in 0..CACHE_SIZE
        /\ late \subseteq Plain
      BY Constants DEF Init
  <2>4. overlap \in BOOLEAN
      BY DEF Init
  <2> QED
      BY <1>1, <2>1, <2>2, <2>3, <2>4 DEF CacheTypeOK
<1>3. Operation /\ Placed /\ Coherent /\ Flushed /\ Closing /\ MapSaved
  <2>1. Operation /\ Closing /\ MapSaved
      BY Constants DEF Init, Operation, Closing, MapSaved
  <2>2. Placed /\ Coherent /\ Flushed
      BY Constants DEF Init, Placed, Coherent, Flushed, Live
  <2> QED
      BY <2>1, <2>2
<1> QED
    BY <1>1, <1>2, <1>3 DEF CacheInv


-----------------------------------------------------------------------------
(* Steps *)

LEMMA BeginInv ==
    ASSUME CacheInv, NEW r \in Requests, Begin(r)
    PROVE  CacheInv'
<1> USE DEF Begin, entryVars, closeVars
<1>1. CacheTypeOK' /\ Stack'
    BY DEF CacheInv, CacheTypeOK, Stack
<1>2. Operation' /\ Closing' /\ MapSaved'
    BY Constants DEF CacheInv, CacheTypeOK, Operation, Closing, MapSaved
<1>3. Placed'
    BY DEF CacheInv, Operation, Placed, Live
<1>4. Coherent' /\ Flushed'
    BY DEF CacheInv, Coherent, Flushed, Live
<1> QED
    BY <1>1, <1>2, <1>3, <1>4 DEF CacheInv

LEMMA WriteMapInv ==
    ASSUME CacheInv, NEW d \in Images, WriteMap(d)
    PROVE  CacheInv'
<1> USE DEF WriteMap, entryVars, closeVars
<1>1. CacheTypeOK' /\ Stack'
    BY Constants DEF CacheInv, CacheTypeOK, Stack
<1>2. Operation' /\ Closing' /\ MapSaved'
    BY DEF CacheInv, CacheTypeOK, Operation, Closing, MapSaved
<1>3. Placed' /\ Coherent' /\ Flushed'
    BY DEF CacheInv, Placed, Coherent, Flushed, Live
<1> QED
    BY <1>1, <1>2, <1>3 DEF CacheInv

LEMMA CloseInv ==
    ASSUME CacheInv, Close
    PROVE  CacheInv'
<1> USE DEF Close, entryVars
<1>1. CacheTypeOK' /\ Stack'
    BY Constants DEF CacheInv, CacheTypeOK, Stack
<1>2. Operation' /\ Closing' /\ MapSaved'
    BY Constants DEF CacheInv, CacheTypeOK, Operation, Closing, MapSaved
<1>3. Placed' /\ Coherent'
    BY DEF CacheInv, Placed, Coherent, Live
<1>4. Flushed'
  <2>1. \A i \in Slots : ~(i < 0)
      BY Constants
  <2> QED
      BY <2>1 DEF Flushed
<1> QED
    BY <1>1, <1>2, <1>3, <1>4 DEF CacheInv

LEMMA FlushEntryInv ==
    ASSUME CacheInv, FlushEntry
    PROVE  CacheInv'
<1> USE DEF FlushEntry, entryVars
<1>0. pos \in Slots /\ pos < CACHE_SIZE /\ CACHE_SIZE \in Nat
    BY Constants DEF CacheInv, CacheTypeOK, Closing
<1>1. CacheTypeOK' /\ Stack'
  <2>1. disk' \in [Sectors -> Data]
      BY <1>0 DEF CacheInv, CacheTypeOK
  <2>2. pos' \in 0..CACHE_SIZE
      BY <1>0, Constants DEF Slots
  <2> QED
      BY <2>1, <2>2 DEF CacheInv, CacheTypeOK, Stack
<1>2. Operation' /\ Closing' /\ MapSaved'
  <2>1. closing' = "flush" => pos' \in Slots
      BY <1>0, Constants DEF Slots
  <2>2. closing' \in {"flush", "map"} /\ (closing' = "map" => pos' = CACHE_SIZE)
      OBVIOUS
  <2> QED
      BY <2>1, <2>2 DEF CacheInv, CacheTypeOK, Operation, Closing, MapSaved
<1>3. Placed'
    BY DEF CacheInv, Placed, Live
\* The entry that is written is the only one of its sector.
<1>4. ASSUME NEW i \in Slots, Live(i), sector_id[i] \in Plain
      PROVE  \/ disk'[sector_id[i]] = disk[sector_id[i]] /\ i # pos
             \/ i = pos /\ (dirty[i] => disk'[sector_id[i]] = data[i])
                        /\ (~dirty[i] => disk'[sector_id[i]] = disk[sector_id[i]])
  <2>1. CASE sector_id[pos] \in Plain
    <3>1. Live(pos)
        BY <1>0, <2>1, Constants DEF CacheInv, Placed, Live
    <3>2. i # pos => sector_id[i] # sector_id[pos]
        BY <1>0, <1>4, <3>1 DEF CacheInv, Placed
    <3> QED
        BY <1>4, <3>2, Constants DEF CacheInv, CacheTypeOK
  <2>2. CASE sector_id[pos] \notin Plain
      BY <2>2, <1>4, Constants DEF CacheInv, CacheTypeOK
  <2> QED
      BY <2>1, <2>2
<1>5. Coherent'
    BY <1>4 DEF CacheInv, Coherent, Live
<1>6. Flushed'
  <2>1. \A i \in Slots : i < pos + 1 => i < pos \/ i = pos
      BY <1>0, Constants
  <2> QED
      BY <2>1, <1>4 DEF CacheInv, Flushed, Live
<1> QED
    BY <1>1, <1>2, <1>3, <1>5, <1>6 DEF CacheInv

LEMMA CloseMapInv ==
    ASSUME CacheInv, CloseMap
    PROVE  CacheInv'
<1> USE DEF CloseMap, entryVars
<1>1. CacheTypeOK' /\ Stack'
    BY Constants DEF CacheInv, CacheTypeOK, Stack
<1>2. Operation' /\ Closing' /\ MapSaved'
    BY Constants DEF CacheInv, CacheTypeOK, Operation, Closing, MapSaved
<1>3. \A s \in Plain : disk'[s] = disk[s]
    BY Constants DEF CacheInv, CacheTypeOK
<1>4. Placed' /\ Coherent' /\ Flushed'
    BY <1>3 DEF CacheInv, Placed, Coherent, Flushed, Live
<1> QED
    BY <1>1, <1>2, <1>4 DEF CacheInv


\* The entry that was found is pinned.
LEMMA FoundInv ==
    ASSUME CacheInv, NEW i \in Slots, Found(i), pc \in {"lookup", "scan"},
           sector_id[i] = req.sector, used[i] \/ req.sector = 0,
           UNCHANGED <<lru_stack, free_map, disk, req, got, closeVars, late, overlap>>
    PROVE  CacheInv'
<1> USE DEF Found, closeVars
<1>1. CacheTypeOK' /\ Stack'
  <2>1. rw_count' \in [Slots -> Nat]
      BY DEF CacheInv, CacheTypeOK
  <2> QED
      BY <2>1 DEF CacheInv, CacheTypeOK, Stack
<1>2. Operation'
    BY Constants DEF CacheInv, CacheTypeOK, Operation
<1>3. Closing' /\ MapSaved'
    BY DEF CacheInv, CacheTypeOK, Closing, MapSaved
<1>4. Placed' /\ Coherent' /\ Flushed'
    BY DEF CacheInv, Placed, Coherent, Flushed, Live
<1> QED
    BY <1>1, <1>2, <1>3, <1>4 DEF CacheInv

\* The search goes on.
LEMMA SearchInv ==
    ASSUME CacheInv, pc \in {"lookup", "scan"}, UNCHANGED entryVars,
           UNCHANGED <<lru_stack, free_map, disk, req, got, closeVars, late, overlap>>,
           \/ pc' = "scan" /\ e' = e
           \/ pc' = "evict" /\ e' = e /\ \A i \in Slots : used[i] /\ sector_id[i] # req.sector
           \/ /\ pc' = "fill" /\ e' \in Slots /\ ~used[e']
              /\ \A i \in Slots : sector_id[i] # req.sector
    PROVE  CacheInv'
<1> USE DEF entryVars, closeVars
<1>1. CacheTypeOK' /\ Stack'
    BY DEF CacheInv, CacheTypeOK, Stack
<1>2. Operation' /\ Closing' /\ MapSaved'
    BY Constants DEF CacheInv, CacheTypeOK, Operation, Closing, MapSaved
<1>3. Placed' /\ Coherent' /\ Flushed'
    BY DEF CacheInv, Placed, Coherent, Flushed, Live
<1> QED
    BY <1>1, <1>2, <1>3 DEF CacheInv

LEMMA LookupInv ==
    ASSUME CacheInv, Lookup
    PROVE  CacheInv'
<1> DEFINE hits == {i \in Slots : sector_id[i] = req.sector /\ used[i]}
<1>1. CASE hits # {} /\ Found(Least(hits))
  <2>1. Least(hits) \in hits
      BY <1>1, LeastOf, Constants
  <2> QED
      BY <1>1, <2>1, FoundInv DEF Lookup
<1>2. CASE pc' = "scan" /\ UNCHANGED <<entryVars, e>>
    BY <1>2, SearchInv DEF Lookup
<1> QED
    BY <1>1, <1>2 DEF Lookup

LEMMA ScanInv ==
    ASSUME CacheInv, Scan
    PROVE  CacheInv'
<1> DEFINE same == {i \in Slots : sector_id[i] = req.sector}
           free == {i \in Slots : ~used[i]}
<1>1. CASE same # {} /\ Found(Least(same))
  <2>1. Least(same) \in same
      BY <1>1, LeastOf, Constants
  <2>2. used[Least(same)] \/ req.sector = 0
      BY <2>1 DEF Scan, CacheInv, Placed
  <2> QED
      BY <1>1, <2>1, <2>2, FoundInv DEF Scan
<1>2. CASE same = {} /\ free # {} /\ e' = Greatest(free) /\ pc' = "fill" /\ UNCHANGED entryVars
  <2>1. Greatest(free) \in free
      BY <1>2, GreatestOf
  <2> QED
      BY <1>2, <2>1, SearchInv DEF Scan
<1>3. CASE same = {} /\ free = {} /\ pc' = "evict" /\ UNCHANGED <<entryVars, e>>
    BY <1>3, SearchInv DEF Scan
<1> QED
    BY <1>1, <1>2, <1>3 DEF Scan

LEMMA EvictInv ==
    ASSUME CacheInv, Evict
    PROVE  CacheInv' /\ e' \in Slots
<1> DEFINE free == {k \in DOMAIN lru_stack : rw_count[lru_stack[k]] = 0}
           i == lru_stack[Least(free)]
<1>1. i \in Slots
  <2>1. DOMAIN lru_stack = 1..CACHE_SIZE /\ free # {}
      BY DEF CacheInv, CacheTypeOK, Evict
  <2>2. Least(free) \in free
      BY <2>1, LeastOf, Constants
  <2> QED
      BY <2>1, <2>2 DEF CacheInv, CacheTypeOK
<1>2. /\ e' = i /\ used' = [used EXCEPT ![i] = FALSE] /\ pc = "evict" /\ pc' = "save"
      /\ UNCHANGED <<sector_id, data, dirty, rw_count, lru_stack, free_map, disk, req, got,
                     closing, pos, late, overlap>>
    BY DEF Evict, closeVars
<1> HIDE DEF i
<1> USE <1>1, <1>2
<1>3. CacheTypeOK' /\ Stack'
    BY DEF CacheInv, CacheTypeOK, Stack
<1>4. Operation' /\ Closing' /\ MapSaved'
    BY Constants DEF CacheInv, CacheTypeOK, Operation, Closing, MapSaved
<1>5. \A j \in Slots : Live(j)' <=> Live(j)
    BY DEF CacheInv, CacheTypeOK, Placed, Live
<1>6. Placed'
    BY <1>5 DEF CacheInv, CacheTypeOK, Placed
<1>7. Coherent' /\ Flushed'
    BY <1>5 DEF CacheInv, CacheTypeOK, Coherent, Flushed
<1> QED
    BY <1>3, <1>4, <1>6, <1>7 DEF CacheInv

LEMMA EvictSaveInv ==
    ASSUME CacheInv, EvictSave
    PROVE  CacheInv'
<1> USE DEF EvictSave, entryVars, closeVars
<1>0. e \in Slots /\ pc = "save" /\ pc' = "fill"
    BY DEF CacheInv, Operation
<1>1. CacheTypeOK' /\ Stack'
  <2>1. disk' \in [Sectors -> Data]
      BY <1>0 DEF CacheInv, CacheTypeOK
  <2> QED
      BY <2>1 DEF CacheInv, CacheTypeOK, Stack
<1>2. Operation' /\ Closing' /\ MapSaved'
    BY DEF CacheInv, CacheTypeOK, Operation, Closing, MapSaved
<1>3. Placed'
    BY DEF CacheInv, Placed, Live
\* No other entry has the sector.
<1>4. ASSUME NEW i \in Slots, used[i], sector_id[i] \in Plain, i # e
      PROVE  disk'[sector_id[i]] = disk[sector_id[i]]
  <2>1. sector_id[i] # sector_id[e]
      BY <1>0, <1>4 DEF CacheInv, Placed, Live
  <2> QED
      BY <2>1, <1>4, Constants DEF CacheInv, CacheTypeOK
<1>5. ~used[e]
    BY <1>0 DEF CacheInv, Placed
<1>6. Coherent'
    BY <1>0, <1>4, <1>5 DEF CacheInv, Coherent
<1>7. Flushed'
    BY <1>0, <1>4, <1>5 DEF CacheInv, Flushed, Live
<1> QED
    BY <1>1, <1>2, <1>3, <1>6, <1>7 DEF CacheInv

LEMMA FillInv ==
    ASSUME CacheInv, Fill
    PROVE  CacheInv'
<1> USE DEF Fill, closeVars
<1>0. e \in Slots /\ pc = "fill" /\ pc' = "copy" /\ req \in Requests
    BY DEF CacheInv, CacheTypeOK, Operation
<1>1. CacheTypeOK' /\ Stack'
  <2>1. req.sector \in Sectors
      BY <1>0, RequestTypes
  <2>2. rw_count' \in [Slots -> Nat] /\ sector_id' \in [Slots -> Sectors]
        /\ dirty' \in [Slots -> BOOLEAN] /\ used' \in [Slots -> BOOLEAN]
      BY <1>0, <2>1 DEF CacheInv, CacheTypeOK
  <2>3. data' \in [Slots -> Data]
      BY <1>0, <2>1 DEF CacheInv, CacheTypeOK
  <2> QED
      BY <2>2, <2>3 DEF CacheInv, CacheTypeOK, Stack
<1>2. Operation'
    BY <1>0 DEF CacheInv, CacheTypeOK, Operation
<1>3. Closing' /\ MapSaved'
    BY DEF CacheInv, CacheTypeOK, Closing, MapSaved
<1>4. /\ sector_id'[e] = req.sector /\ used'[e] /\ ~dirty'[e]
      /\ req.op # "create" => data'[e] = disk[req.sector]
      /\ \A i \in Slots \ {e} : /\ sector_id'[i] = sector_id[i] /\ data'[i] = data[i]
                                /\ dirty'[i] = dirty[i] /\ used'[i] = used[i]
    BY <1>0 DEF CacheInv, CacheTypeOK
<1>5. Placed'
    BY <1>0, <1>4 DEF CacheInv, Placed, Live
<1>6. Coherent'
    BY <1>0, <1>4 DEF CacheInv, Coherent
<1>7. Flushed'
    BY <1>0, <1>4 DEF CacheInv, Flushed, Live
<1> QED
    BY <1>1, <1>2, <1>3, <1>5, <1>6, <1>7 DEF CacheInv

LEMMA CopyOutInv ==
    ASSUME CacheInv, CopyOut
    PROVE  CacheInv'
<1> USE DEF CopyOut, Unpin, closeVars
<1>0. e \in Slots /\ pc = "copy" /\ pc' = "touch" /\ rw_count[e] = 1
    BY DEF CacheInv, Operation
<1>1. CacheTypeOK' /\ Stack'
  <2>1. rw_count' \in [Slots -> Nat]
      BY <1>0 DEF CacheInv, CacheTypeOK
  <2> QED
      BY <2>1 DEF CacheInv, CacheTypeOK, Stack
<1>2. Operation'
    BY <1>0 DEF CacheInv, CacheTypeOK, Operation
<1>3. Closing' /\ MapSaved'
    BY DEF CacheInv, CacheTypeOK, Closing, MapSaved
<1>4. Placed' /\ Coherent' /\ Flushed'
    BY DEF CacheInv, Placed, Coherent, Flushed, Live
<1> QED
    BY <1>1, <1>2, <1>3, <1>4 DEF CacheInv

\* What CopyIn does to the entry.
LEMMA CopyInFacts ==
    ASSUME CacheInv, CopyIn
    PROVE  /\ e \in Slots /\ pc = "copy" /\ pc' = "touch" /\ req \in Requests /\ rw_count[e] = 1
           /\ data'[e] = (IF req.op = "create" THEN req.data ELSE [data[e] EXCEPT ![req.part] = req.val])
           /\ dirty'[e] /\ data' \in [Slots -> Data]
           /\ \A i \in Slots \ {e} : data'[i] = data[i] /\ dirty'[i] = dirty[i]
           /\ UNCHANGED <<sector_id, used, lru_stack, free_map, disk, req, e, got, closing, pos,
                          overlap>>
<1> USE DEF CopyIn, Unpin, closeVars
<1>0. e \in Slots /\ pc = "copy" /\ pc' = "touch" /\ req \in Requests /\ rw_count[e] = 1
    BY DEF CacheInv, CacheTypeOK, Operation
<1>1. req.op = "create" \/ req.op = "write"
    BY <1>0, RequestTypes
<1>2. data' \in [Slots -> Data]
  <2>1. req.op = "create" => req.data \in Data
      BY <1>0, RequestTypes
  <2>2. req.op = "write" => [data[e] EXCEPT ![req.part] = req.val] \in Data
      BY <1>0, RequestTypes DEF CacheInv, CacheTypeOK, Data
  <2> QED
      BY <1>0, <1>1, <2>1, <2>2 DEF CacheInv, CacheTypeOK
<1> QED
    BY <1>0, <1>2 DEF CacheInv, CacheTypeOK

LEMMA CopyInInv ==
    ASSUME CacheInv, CopyIn
    PROVE  CacheInv'
<1> USE CopyInFacts
<1>1. CacheTypeOK' /\ Stack'
  <2>1. rw_count' \in [Slots -> Nat] /\ dirty' \in [Slots -> BOOLEAN]
      BY DEF CacheInv, CacheTypeOK, CopyIn, Unpin
  <2>2. late' \subseteq Plain
      BY DEF CacheInv, CacheTypeOK, CopyIn, Changes
  <2> QED
      BY <2>1, <2>2, SMTT(30) DEF CacheInv, CacheTypeOK, Stack
<1>2. Operation'
    BY DEF CacheInv, CacheTypeOK, Operation, CopyIn, Unpin
<1>3. Closing' /\ MapSaved'
    BY DEF CacheInv, CacheTypeOK, Closing, MapSaved
<1>4. Placed' /\ Coherent'
    BY DEF CacheInv, Placed, Coherent, Live
<1>5. Flushed'
  <2>1. CASE closing = "no"
    <3>1. \A i \in Slots : ~(i < pos')
        BY <2>1, Constants DEF CacheInv, Closing
    <3> QED
        BY <3>1 DEF Flushed
  <2>2. CASE closing # "no"
    <3>1. late' = late \cup ({req.sector} \cap Plain) /\ sector_id[e] = req.sector
        BY <2>2 DEF CopyIn, Changes, CacheInv, Placed
    <3> QED
        BY <3>1 DEF CacheInv, Flushed, Live
  <2> QED
      BY <2>1, <2>2
<1> QED
    BY <1>1, <1>2, <1>3, <1>4, <1>5 DEF CacheInv

LEMMA TouchInv ==
    ASSUME CacheInv, Touch
    PROVE  CacheInv'
<1> USE DEF Touch, entryVars, closeVars
<1> DEFINE k == CHOOSE n \in DOMAIN lru_stack : lru_stack[n] = e
           s == lru_stack
           r == RemoveAt(lru_stack, k)
<1>0. e \in Slots /\ pc = "touch" /\ pc' = "idle"
    BY DEF CacheInv, Operation
<1>1. /\ s \in Seq(Slots) /\ Len(s) = CACHE_SIZE /\ IsInjective(s) /\ ToSet(s) = Slots
      /\ CACHE_SIZE \in Nat
    BY Constants DEF CacheInv, Stack
<1>2. k \in 1..Len(s) /\ s[k] = e
  <2>1. \E n \in DOMAIN s : s[n] = e
      BY <1>0 DEF CacheInv, CacheTypeOK
  <2> QED
      BY <2>1, <1>1
<1>3. /\ r \in Seq(Slots) /\ Len(r) = CACHE_SIZE - 1 /\ IsInjective(r)
      /\ ToSet(r) = Slots \ {e}
  <2> HIDE DEF s, k
  <2>1. /\ RemoveAt(s, k) \in Seq(Slots) /\ Len(RemoveAt(s, k)) = Len(s) - 1
        /\ IsInjective(RemoveAt(s, k)) /\ ToSet(RemoveAt(s, k)) = ToSet(s) \ {s[k]}
      BY <1>1, <1>2, RemoveAtList
  <2> QED
      BY <2>1, <1>1, <1>2 DEF s
<1>4. lru_stack' = Append(r, e)
    OBVIOUS
<1> HIDE DEF r, s, k
<1>5. /\ lru_stack' \in Seq(Slots) /\ IsInjective(lru_stack') /\ ToSet(lru_stack') = Slots
      /\ Len(lru_stack') = CACHE_SIZE
  <2>1. /\ Append(r, e) \in Seq(Slots) /\ IsInjective(Append(r, e))
        /\ ToSet(Append(r, e)) = ToSet(r) \cup {e}
      BY <1>0, <1>3, AppendList
  <2>2. Len(Append(r, e)) = CACHE_SIZE
      BY <1>0, <1>1, <1>3, AppendProperties
  <2> QED
      BY <1>0, <1>3, <1>4, <2>1, <2>2
<1>6. /\ lru_stack' \in [1..CACHE_SIZE -> Slots]
      /\ \A i \in Slots : \E n \in 1..CACHE_SIZE : lru_stack'[n] = i
  <2> DEFINE t == lru_stack'
  <2>1. t \in Seq(Slots) /\ Len(t) = CACHE_SIZE /\ ToSet(t) = Slots
      BY <1>5
  <2> HIDE DEF t
  <2>2. /\ DOMAIN t = 1..CACHE_SIZE /\ t \in [1..CACHE_SIZE -> Slots]
        /\ \A i \in Slots : \E n \in 1..CACHE_SIZE : t[n] = i
      BY <2>1, ListElements
  <2> QED
      BY <2>2 DEF t
<1>7. CacheTypeOK' /\ Stack'
    BY <1>5, <1>6 DEF CacheInv, CacheTypeOK, Stack
<1>8. Operation' /\ Closing' /\ MapSaved'
    BY <1>0 DEF CacheInv, CacheTypeOK, Operation, Closing, MapSaved
<1>9. Placed' /\ Coherent' /\ Flushed'
    BY <1>0 DEF CacheInv, Placed, Coherent, Flushed, Live
<1> QED
    BY <1>7, <1>8, <1>9 DEF CacheInv


LEMMA NextInv == CacheInv /\ [Next]_vars => CacheInv'
<1>1. ASSUME CacheInv, Next PROVE CacheInv'
    BY <1>1, BeginInv, LookupInv, ScanInv, EvictInv, EvictSaveInv, FillInv, CopyOutInv, CopyInInv,
       TouchInv, WriteMapInv, CloseInv, FlushEntryInv, CloseMapInv DEF Next, OpStep
<1>2. ASSUME CacheInv, UNCHANGED vars PROVE CacheInv'
  <2> USE <1>2 DEF vars, entryVars, closeVars
  <2>1. CacheTypeOK' /\ Stack'
      BY DEF CacheInv, CacheTypeOK, Stack
  <2>2. Operation' /\ Closing' /\ MapSaved'
      BY DEF CacheInv, CacheTypeOK, Operation, Closing, MapSaved
  <2>3. Placed' /\ Coherent' /\ Flushed'
      BY DEF CacheInv, Placed, Coherent, Flushed, Live
  <2> QED
      BY <2>1, <2>2, <2>3 DEF CacheInv
<1> QED
    BY <1>1, <1>2

LEMMA CacheInvariant == Spec => []CacheInv
    BY InitInv, NextInv, PTL DEF Spec

-----------------------------------------------------------------------------
(* What a sector contains. *)

LEMMA LeastOfOne == ASSUME NEW i PROVE i \in Nat => Least({i}) = i
    BY DEF Least

\* The entry that holds a sector, if there is one, is the only one.
LEMMA OneHolding ==
    ASSUME CacheInv, NEW s \in Plain, NEW i \in Holding(s)
    PROVE  Holding(s) = {i}
    BY DEF CacheInv, Placed, Holding, Live

LEMMA HeldContents ==
    ASSUME CacheInv, NEW i \in Slots, Live(i), sector_id[i] \in Plain
    PROVE  Contents(sector_id[i]) = IF dirty[i] THEN data[i] ELSE disk[sector_id[i]]
<1> DEFINE s == sector_id[i]
<1>1. CASE dirty[i]
  <2>1. i \in Holding(s)
      BY <1>1 DEF Holding, Live
  <2>2. Holding(s) = {i}
      BY <2>1, OneHolding
  <2> QED
      BY <1>1, <2>2, LeastOfOne, Constants DEF Contents
<1>2. CASE ~dirty[i]
  <2>1. Holding(s) = {}
      BY <1>2 DEF CacheInv, Placed, Holding, Live
  <2> QED
      BY <1>2, <2>1 DEF Contents
<1> QED
    BY <1>1, <1>2

LEMMA SameContents ==
    ASSUME CacheInv, NEW s \in Plain, Holding(s)' = Holding(s),
           \A i \in Holding(s) : data'[i] = data[i],
           Holding(s) = {} => disk'[s] = disk[s]
    PROVE  Contents(s)' = Contents(s)
<1>1. Holding(s) # {} => Least(Holding(s)) \in Holding(s)
    BY LeastOf, Constants DEF Holding
<1> QED
    BY <1>1 DEF Contents

\* Steps that change neither the entries nor the disk.
LEMMA QuietContents ==
    ASSUME CacheInv, UNCHANGED <<sector_id, data, dirty, used, disk>>,
           pc # "save", pc' # "save"
    PROVE  \A s \in Plain : Contents(s)' = Contents(s)
<1> SUFFICES ASSUME NEW s \in Plain PROVE Contents(s)' = Contents(s)
    OBVIOUS
<1>1. Holding(s)' = Holding(s)
    BY DEF Holding
<1> QED
    BY <1>1, SameContents

LEMMA EvictContents ==
    ASSUME CacheInv, Evict
    PROVE  \A s \in Plain : Contents(s)' = Contents(s)
<1> SUFFICES ASSUME NEW s \in Plain PROVE Contents(s)' = Contents(s)
    OBVIOUS
<1>1. \A i \in Slots : used[i] /\ (used'[i] \/ i = e')
  <2>1. PICK i \in Slots : e' = i /\ used' = [used EXCEPT ![i] = FALSE]
      BY EvictInv DEF Evict
  <2> QED
      BY <2>1 DEF CacheInv, CacheTypeOK, Placed, Evict
<1>2. Holding(s)' = Holding(s)
    BY <1>1 DEF Evict, Holding
<1> QED
    BY <1>2, SameContents DEF Evict

LEMMA EvictSaveContents ==
    ASSUME CacheInv, EvictSave
    PROVE  \A s \in Plain : Contents(s)' = Contents(s)
<1> SUFFICES ASSUME NEW s \in Plain PROVE Contents(s)' = Contents(s)
    OBVIOUS
<1> USE DEF EvictSave, entryVars
<1>0. e \in Slots /\ pc = "save" /\ pc' = "fill" /\ Live(e)
    BY DEF CacheInv, Operation, Live
<1>1. CASE s = sector_id[e] /\ dirty[e]
  <2>1. Contents(s) = data[e]
      BY <1>0, <1>1, HeldContents
  <2>2. ~used[e]
      BY <1>0 DEF CacheInv, Placed
  <2>3. Holding(s)' = {}
      BY <1>0, <1>1, <2>2 DEF CacheInv, Placed, Holding, Live
  <2>4. disk'[s] = data[e]
      BY <1>1, Constants DEF CacheInv, CacheTypeOK
  <2> QED
      BY <2>1, <2>3, <2>4 DEF Contents
<1>2. CASE ~(s = sector_id[e] /\ dirty[e])
  <2>1. Holding(s)' = Holding(s)
      BY <1>0, <1>2 DEF Holding
  <2>2. disk'[s] = disk[s]
      BY <1>2, Constants DEF CacheInv, CacheTypeOK
  <2> QED
      BY <2>1, <2>2, SameContents
<1> QED
    BY <1>1, <1>2

LEMMA FillContents ==
    ASSUME CacheInv, Fill
    PROVE  \A s \in Plain : Contents(s)' = Contents(s)
<1> SUFFICES ASSUME NEW s \in Plain PROVE Contents(s)' = Contents(s)
    OBVIOUS
<1> USE DEF Fill
<1>0. e \in Slots /\ pc = "fill" /\ pc' = "copy"
    BY DEF CacheInv, Operation
<1>4. /\ sector_id'[e] = req.sector /\ ~dirty'[e]
      /\ \A i \in Slots \ {e} : /\ sector_id'[i] = sector_id[i] /\ data'[i] = data[i]
                                /\ dirty'[i] = dirty[i] /\ used'[i] = used[i]
    BY <1>0 DEF CacheInv, CacheTypeOK
<1>5. e \notin Holding(s) /\ e \notin Holding(s)'
    BY <1>0, <1>4 DEF CacheInv, Placed, Holding
<1>6. Holding(s)' = Holding(s)
    BY <1>0, <1>4, <1>5 DEF Holding
<1>7. \A i \in Holding(s) : data'[i] = data[i]
    BY <1>4, <1>5 DEF Holding
<1> QED
    BY <1>6, <1>7, SameContents

LEMMA FlushContents ==
    ASSUME CacheInv, FlushEntry
    PROVE  \A s \in Plain : Contents(s)' = Contents(s)
<1> SUFFICES ASSUME NEW s \in Plain PROVE Contents(s)' = Contents(s)
    OBVIOUS
<1> USE DEF FlushEntry, entryVars
<1>0. pos \in Slots
    BY DEF CacheInv, Closing
<1>1. Holding(s)' = Holding(s)
    BY DEF Holding
<1>2. Holding(s) = {} => disk'[s] = disk[s]
  <2>1. dirty[pos] /\ sector_id[pos] = s => pos \in Holding(s)
      BY <1>0, Constants DEF CacheInv, Placed, Holding
  <2> QED
      BY <2>1, Constants DEF CacheInv, CacheTypeOK
<1> QED
    BY <1>1, <1>2, SameContents

LEMMA CloseMapContents ==
    ASSUME CacheInv, CloseMap
    PROVE  \A s \in Plain : Contents(s)' = Contents(s)
<1> SUFFICES ASSUME NEW s \in Plain PROVE Contents(s)' = Contents(s)
    OBVIOUS
<1>1. Holding(s)' = Holding(s) /\ disk'[s] = disk[s] /\ data' = data
    BY Constants DEF CacheInv, CacheTypeOK, CloseMap, entryVars, Holding
<1> QED
    BY <1>1, SameContents

LEMMA CopyInContents ==
    ASSUME CacheInv, CopyIn, NEW s \in Plain
    PROVE  Contents(s)' = IF s # req.sector THEN Contents(s)
                          ELSE IF req.op = "create" THEN req.data
                          ELSE [Contents(s) EXCEPT ![req.part] = req.val]
<1> USE CopyInFacts
<1>0. sector_id[e] = req.sector /\ (used[e] \/ req.sector = 0)
    BY DEF CacheInv, Placed
<1>1. CASE s # req.sector
  <2>1. e \notin Holding(s) /\ e \notin Holding(s)'
      BY <1>0, <1>1 DEF Holding
  <2>2. Holding(s)' = Holding(s) /\ \A i \in Holding(s) : data'[i] = data[i]
      BY <2>1 DEF Holding
  <2> QED
      BY <1>1, <2>2, SameContents
<1>2. CASE s = req.sector
  <2>1. used[e] /\ Live(e)
      BY <1>0, <1>2, Constants DEF Live
  <2>2. Holding(s)' = {e}
      BY <1>0, <1>2, <2>1 DEF CacheInv, Placed, Holding, Live
  <2>3. Contents(s)' = data'[e]
      BY <2>2, LeastOfOne, Constants DEF Contents
  <2>4. req.op # "create" => Contents(s) = data[e]
    <3>1. Contents(s) = IF dirty[e] THEN data[e] ELSE disk[s]
        BY <1>0, <1>2, <2>1, HeldContents
    <3> QED
        BY <1>0, <1>2, <2>1, <3>1 DEF CacheInv, Coherent
  <2> QED
      BY <1>2, <2>3, <2>4
<1> QED
    BY <1>1, <1>2

LEMMA CopyOutContents ==
    ASSUME CacheInv, CopyOut, PlainCall
    PROVE  data[e] = Contents(req.sector)
<1>0. /\ e \in Slots /\ sector_id[e] = req.sector /\ Live(e) /\ used[e] /\ req.sector \in Plain
      /\ req.op = "read"
    BY Constants DEF CacheInv, Operation, Placed, Live, CopyOut, PlainCall
<1>1. Contents(req.sector) = IF dirty[e] THEN data[e] ELSE disk[req.sector]
    BY <1>0, HeldContents
<1> QED
    BY <1>0, <1>1 DEF CacheInv, Coherent


-----------------------------------------------------------------------------
(* BufferCache implements SectorStore. *)

\* A step that SectorStore does not see.
LEMMA Stutters ==
    ASSUME \A s \in Plain : Contents(s)' = Contents(s),
           PlainCall' <=> PlainCall,
           PlainCall => req' = req /\ got' = got /\ (pc' = "touch" <=> pc = "touch")
    PROVE  UNCHANGED Store!vars
    BY DEF Store!vars

\* Steps inside an operation.
LEMMA InsideStutters ==
    ASSUME \A s \in Plain : Contents(s)' = Contents(s), UNCHANGED <<req, got>>,
           pc' = "touch" <=> pc = "touch"
    PROVE  [Store!Next]_(Store!vars)
<1>1. PlainCall' <=> PlainCall
    BY DEF PlainCall
<1> QED
    BY <1>1, Stutters

LEMMA BeginCalls ==
    ASSUME CacheInv, NEW r \in Requests, Begin(r)
    PROVE  [Store!Next]_(Store!vars)
<1>0. req = NULL /\ req' = r /\ got = NULL /\ got' = NULL /\ pc = "idle" /\ pc' = "lookup"
    BY DEF CacheInv, Operation, Begin
<1>1. \A s \in Plain : Contents(s)' = Contents(s)
    BY QuietContents DEF Begin, entryVars
<1>2. CASE r.sector \in Plain
  <2>1. PlainCall' /\ ~PlainCall
      BY <1>0, <1>2, Constants DEF PlainCall
  <2>2. Store!Call(r)
      BY <1>0, <1>1, <2>1 DEF Store!Call
  <2> QED
      BY <1>2, <2>2 DEF Store!Next
<1>3. CASE r.sector \notin Plain
  <2>1. ~PlainCall' /\ ~PlainCall
      BY <1>0, <1>3 DEF PlainCall
  <2> QED
      BY <1>1, <2>1, Stutters
<1> QED
    BY <1>2, <1>3

LEMMA CopyOutReads ==
    ASSUME CacheInv, CopyOut
    PROVE  [Store!Next]_(Store!vars)
<1>0. /\ req' = req /\ pc = "copy" /\ pc' = "touch" /\ req.op = "read"
      /\ got' = [sector |-> req.sector, part |-> req.part, val |-> data[e][req.part]]
    BY DEF CopyOut
<1>1. \A s \in Plain : Contents(s)' = Contents(s)
    BY <1>0, QuietContents DEF CopyOut
<1>2. PlainCall' <=> PlainCall
    BY <1>0 DEF PlainCall
<1>3. CASE PlainCall
  <2>1. data[e] = Contents(req.sector) /\ req # NULL /\ req.sector \in Plain
      BY <1>3, CopyOutContents DEF PlainCall
  <2>2. Store!Read
      BY <1>0, <1>1, <1>2, <1>3, <2>1 DEF Store!Read, Store!Effect
  <2> QED
      BY <2>2 DEF Store!Next
<1>4. CASE ~PlainCall
    BY <1>1, <1>2, <1>4, Stutters
<1> QED
    BY <1>3, <1>4

LEMMA CopyInWrites ==
    ASSUME CacheInv, CopyIn
    PROVE  [Store!Next]_(Store!vars)
<1>0. /\ req' = req /\ req \in Requests /\ pc = "copy" /\ pc' = "touch"
      /\ req.op \in {"write", "create"} /\ got' = got
    BY CopyInFacts, RequestTypes DEF CopyIn
<1>1. \A s \in Plain : Contents(s)' = IF s # req.sector THEN Contents(s)
                                      ELSE IF req.op = "create" THEN req.data
                                      ELSE [Contents(s) EXCEPT ![req.part] = req.val]
    BY CopyInContents
<1>2. PlainCall' <=> PlainCall
    BY <1>0 DEF PlainCall
<1>3. CASE PlainCall /\ req.op = "write"
  <2>1. req # NULL /\ req.sector \in Plain
      BY <1>3 DEF PlainCall
  <2>2. [s \in Plain |-> Contents(s)]' =
            [[s \in Plain |-> Contents(s)] EXCEPT ![req.sector][req.part] = req.val]
      BY <1>1, <1>3, <2>1
  <2>3. Store!Write
      BY <1>0, <1>2, <1>3, <2>1, <2>2 DEF Store!Write, Store!Effect
  <2> QED
      BY <2>3 DEF Store!Next
<1>4. CASE PlainCall /\ req.op = "create"
  <2>1. req # NULL /\ req.sector \in Plain
      BY <1>4 DEF PlainCall
  <2>2. [s \in Plain |-> Contents(s)]' =
            [[s \in Plain |-> Contents(s)] EXCEPT ![req.sector] = req.data]
      BY <1>1, <1>4, <2>1
  <2>3. Store!Create
      BY <1>0, <1>2, <1>4, <2>1, <2>2 DEF Store!Create, Store!Effect
  <2> QED
      BY <2>3 DEF Store!Next
<1>5. CASE ~PlainCall
  <2>1. req.sector \notin Plain
      BY <1>0, <1>5, Constants DEF PlainCall
  <2>2. \A s \in Plain : Contents(s)' = Contents(s)
      BY <1>1, <2>1
  <2> QED
      BY <1>2, <1>5, <2>2, Stutters
<1> QED
    BY <1>0, <1>3, <1>4, <1>5

LEMMA TouchReturns ==
    ASSUME CacheInv, Touch
    PROVE  [Store!Next]_(Store!vars)
<1>0. pc = "touch" /\ pc' = "idle" /\ req' = NULL /\ got' = NULL
    BY DEF Touch
<1>1. \A s \in Plain : Contents(s)' = Contents(s)
    BY <1>0, QuietContents DEF Touch, entryVars
<1>2. ~PlainCall'
    BY <1>0 DEF PlainCall
<1>3. CASE PlainCall
  <2>1. Store!Return
      BY <1>0, <1>1, <1>2, <1>3 DEF Store!Return
  <2> QED
      BY <2>1 DEF Store!Next
<1>4. CASE ~PlainCall
    BY <1>1, <1>2, <1>4, Stutters
<1> QED
    BY <1>3, <1>4

LEMMA NextImplements == CacheInv /\ [Next]_vars => [Store!Next]_(Store!vars)
<1> SUFFICES ASSUME CacheInv, [Next]_vars PROVE [Store!Next]_(Store!vars)
    OBVIOUS
<1>1. ASSUME Lookup \/ Scan PROVE [Store!Next]_(Store!vars)
  <2>1. UNCHANGED <<sector_id, data, dirty, used, disk, req, got>>
        /\ pc \in {"lookup", "scan"} /\ pc' \in {"copy", "scan", "fill", "evict"}
      BY <1>1 DEF Lookup, Scan, Found, entryVars
  <2>2. \A s \in Plain : Contents(s)' = Contents(s)
      BY <2>1, QuietContents
  <2> QED
      BY <2>1, <2>2, InsideStutters
<1>2. CASE Evict
    BY <1>2, EvictContents, InsideStutters DEF Evict
<1>3. CASE EvictSave
    BY <1>3, EvictSaveContents, InsideStutters DEF EvictSave
<1>4. CASE Fill
    BY <1>4, FillContents, InsideStutters DEF Fill
<1>5. ASSUME NEW d \in Images, WriteMap(d) PROVE [Store!Next]_(Store!vars)
    BY <1>5, QuietContents, InsideStutters DEF WriteMap, entryVars
<1>6. CASE Close \/ UNCHANGED vars
  <2>1. /\ UNCHANGED <<sector_id, data, dirty, used, disk, req, got, pc, e>>
      BY <1>6 DEF Close, vars, entryVars
  <2>2. ASSUME NEW s \in Plain PROVE Contents(s)' = Contents(s)
    <3>1. Holding(s)' = Holding(s)
        BY <2>1 DEF Holding
    <3> QED
        BY <2>1, <3>1, SameContents
  <2> QED
      BY <2>1, <2>2, InsideStutters
<1>7. CASE FlushEntry
    BY <1>7, FlushContents, InsideStutters DEF FlushEntry
<1>8. CASE CloseMap
    BY <1>8, CloseMapContents, InsideStutters DEF CloseMap
<1> QED
    BY <1>1, <1>2, <1>3, <1>4, <1>5, <1>6, <1>7, <1>8, BeginCalls, CopyOutReads, CopyInWrites,
       TouchReturns DEF Next, OpStep

LEMMA InitImplements == Init => Store!Init
<1> SUFFICES ASSUME Init PROVE Store!Init
    OBVIOUS
<1>1. ~PlainCall /\ got = NULL
    BY DEF Init, PlainCall
<1>2. \A s \in Plain : Contents(s) \in Data
  <2>1. \A s \in Plain : Holding(s) = {}
      BY DEF Init, Holding
  <2> QED
      BY <2>1, Constants DEF Init, Contents
<1> QED
    BY <1>1, <1>2 DEF Store!Init, Data

-----------------------------------------------------------------------------
(* Theorems *)

\* Types: entries, disk and free map hold sectors, and lru_stack has every entry of the
\* cache, after any number of list_removes and list_push_backs.
THEOREM CacheTypes == Spec => []CacheTypeOK
<1>1. CacheInv => CacheTypeOK
    BY DEF CacheInv
<1> QED
    BY <1>1, CacheInvariant, PTL

\* locate_data never puts a sector in two entries.
THEOREM SectorInOneEntry == Spec => []OneEntry
<1>1. CacheInv => OneEntry
    BY DEF CacheInv, Placed, Live, OneEntry
<1> QED
    BY <1>1, CacheInvariant, PTL

\* cache_close leaves on the disk every sector that is not changed meanwhile, whatever
\* evictions and reads run between the steps of cache_flush.
THEOREM CloseSavesSectors == Spec => []CloseSaves
<1>1. ASSUME CacheInv PROVE CloseSaves
  <2> SUFFICES ASSUME closing = "done", NEW s \in Plain \ late PROVE disk[s] = Contents(s)
      BY DEF CloseSaves
  <2>1. CASE Holding(s) = {}
      BY <2>1 DEF Contents
  <2>2. CASE Holding(s) # {}
    <3>1. PICK i : i \in Holding(s)
        BY <2>2
    <3>2. i \in Slots /\ sector_id[i] = s /\ dirty[i] /\ Live(i)
        BY <3>1 DEF Holding, Live
    <3>3. Contents(s) = data[i]
        BY <1>1, <3>2, HeldContents
    <3>4. i < pos
        BY <1>1, <3>2, Constants DEF CacheInv, Closing
    <3> QED
        BY <1>1, <3>2, <3>3, <3>4 DEF CacheInv, Flushed
  <2> QED
      BY <2>1, <2>2
<1> QED
    BY <1>1, CacheInvariant, PTL

\* cache_close leaves the free map on the disk when nothing runs meanwhile: the image
\* of its sector in an entry is written before it.
THEOREM CloseSavesMap == Spec => []MapSaved
<1>1. CacheInv => MapSaved
    BY DEF CacheInv
<1> QED
    BY <1>1, CacheInvariant, PTL

\* The loop of evict_block ends: there is an entry that is not pinned.
THEOREM EvictFindsVictim == Spec => []VictimExists
<1>1. CacheInv => VictimExists
    BY Constants DEF CacheInv, Operation, VictimExists
<1> QED
    BY <1>1, CacheInvariant, PTL

\* The buffer cache implements a store of sectors: every read returns what the last
\* write of its bytes has put there, and misses, evictions and cache_close change
\* nothing of what a sector contains.
THEOREM CacheImplementsStore == Spec => ImplementsStore
    BY CacheInvariant, InitImplements, NextImplements, PTL DEF Spec, ImplementsStore, Store!Spec
=============================================================================
