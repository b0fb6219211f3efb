----------------------------- MODULE PagingProofs -----------------------------
(***************************************************************************)
(* Proofs about Paging: types, who holds fault_lock and file_lock, which   *)
(* pages the processor may use, and that dirty pages of a mapping are      *)
(* written when they go away.                                              *)
(***************************************************************************)
EXTENDS Paging, ListProofs

-----------------------------------------------------------------------------
(* The inductive invariant. *)

PageInfos == [va : Pages, file : STACK..MaxMaps, writable : BOOLEAN]
Mappings == [file : EXE..MaxMaps, pos : 0..FilePages]
PlaceNames == {"none", "user", "load", "fill", "copy", "unmap", "write", "exit", "closed"}
USE DEF PlaceNames

\* VTypeOK, and the types it leaves out.
Types ==
    /\ VTypeOK /\ panic \in BOOLEAN
    /\ mmaps \in [Procs -> Seq(Mappings)]
    /\ stack_min \in [Procs -> Pages] /\ arg \in [Procs -> Int] /\ mapping \in [Procs -> Int]

\* The call and the argument that go with a place in the code, and the mapping that
\* is removed there: while one of its pages is loaded to be written, that page is its
\* first, it is not dirty, and the file has room for it.
Removing(p) ==
    mapping[p] # 0 =>
        /\ pc[p] \in {"unmap", "load", "fill", "write"} /\ call[p] \in {NULL, "exit"}
        /\ mapping[p] \in DOMAIN mmaps[p]
        /\ pc[p] # "unmap" => /\ Entry(p) # 0 /\ pagedir[p][EntryPage(p)] # "dirty"
                              /\ mmaps[p][mapping[p]].pos < FilePages

Places(p) ==
    /\ pc[p] \in {"none", "user", "exit"} => call[p] = NULL
    /\ pc[p] = "none" => mmaps[p] = <<>>
    /\ pc[p] = "copy" => call[p] \in Calls /\ arg[p] \in Pages
    /\ pc[p] \in {"load", "fill"} =>
           /\ arg[p] \in Pages /\ IsPage(p, arg[p])
           /\ mapping[p] = 0 => call[p] \in Calls \cup {NULL}
    /\ pc[p] = "closed" => call[p] = "exit"
    /\ pc[p] \in {"unmap", "write"} => mapping[p] # 0
    /\ Removing(p)

Locked(p) ==
    /\ fault_lock = p <=> pc[p] = "fill"
    /\ file_lock = p <=> \/ call[p] \in Calls
                         \/ mapping[p] # 0 /\ pc[p] \in {"load", "fill", "write"}

\* PresentIsListed, of one process.
Listed(p) ==
    /\ \A va \in Pages : Present(p, va) => IsPage(p, va)
    /\ \A pi \in ToSet(supp_page_table[p]) :
           pi.file \in {STACK, EXE} \/ \E m \in ToSet(mmaps[p]) : m.file = pi.file

\* The entries of a mapping.
Entries(p, f) == {pi \in ToSet(supp_page_table[p]) : pi.file = f}

\* Mappings have files of their own; an entry that is not the stack's is the first
\* one for its page; and there is room in the file for the pages that are still to be
\* written.
Mapped(p) ==
    /\ \A k, l \in DOMAIN mmaps[p] : mmaps[p][k].file = mmaps[p][l].file => k = l
    /\ \A i, j \in DOMAIN supp_page_table[p] :
           j < i /\ supp_page_table[p][i].file # STACK =>
               supp_page_table[p][j].va # supp_page_table[p][i].va
    /\ \A m \in ToSet(mmaps[p]) :
           m.file # EXE => m.pos + Cardinality(Entries(p, m.file)) <= FilePages

Tables(p) == Listed(p) /\ Mapped(p)

PagingInv == Types /\ \A p \in Procs : Places(p) /\ Locked(p) /\ Tables(p)

-----------------------------------------------------------------------------
(* Lists of page_infos and of mappings. *)

LEMMA TypeFacts ==
    ASSUME Types, NEW p \in Procs
    PROVE  /\ supp_page_table[p] \in Seq(PageInfos) /\ mmaps[p] \in Seq(Mappings)
           /\ Len(supp_page_table[p]) \in Nat
           /\ DOMAIN supp_page_table[p] = 1..Len(supp_page_table[p])
           /\ \A i \in DOMAIN supp_page_table[p] : supp_page_table[p][i] \in PageInfos
           /\ Len(mmaps[p]) \in Nat /\ DOMAIN mmaps[p] = 1..Len(mmaps[p])
           /\ \A k \in DOMAIN mmaps[p] : mmaps[p][k] \in Mappings
           /\ \A va \in Pages : pagedir[p][va] \in Ptes
           /\ NULL \notin Procs /\ NULL \notin Calls /\ NULL # "exit"
<1>1. supp_page_table[p] \in Seq(PageInfos) /\ mmaps[p] \in Seq(Mappings)
    BY DEF Types, VTypeOK, PageInfos
<1>2. NULL \notin Procs /\ NULL \notin Calls /\ NULL # "exit"
    BY NullAssumption DEF Calls
<1>3. \A va \in Pages : pagedir[p][va] \in Ptes
    BY DEF Types, VTypeOK
<1> QED
    BY <1>1, <1>2, <1>3, LenProperties, ElementOfSeq

LEMMA PageFacts ==
    /\ Pages \subseteq Int /\ LastPage \in Pages /\ StackEnd \in Pages /\ 1..ExeLast \subseteq Pages
    /\ STACK \in STACK..MaxMaps /\ EXE \in STACK..MaxMaps /\ STACK # EXE
    BY PageAssumption DEF Pages, STACK, EXE

\* get_pi returns the first entry for the page.
LEMMA GetPiFirst ==
    ASSUME Types, NEW p \in Procs, NEW va, IsPage(p, va)
    PROVE  \E i \in DOMAIN supp_page_table[p] :
               /\ GetPi(p, va) = supp_page_table[p][i] /\ supp_page_table[p][i].va = va
               /\ \A j \in DOMAIN supp_page_table[p] : supp_page_table[p][j].va = va => i <= j
<1> DEFINE s == supp_page_table[p]
           I == {i \in 1..Len(s) : s[i].va = va}
<1>1. DOMAIN s = 1..Len(s) /\ Len(s) \in Nat
    BY TypeFacts
<1>2. I \subseteq Nat /\ I # {}
    BY <1>1 DEF IsPage
<1>3. Min(I) \in I /\ \A k \in I : Min(I) <= k
    BY <1>2, MinOfIndices
<1>4. GetPi(p, va) = s[Min(I)]
    BY <1>2 DEF GetPi, SelectInSeq
<1> QED
    BY <1>1, <1>3, <1>4

LEMMA MappingFile ==
    ASSUME Types, NEW p \in Procs, mapping[p] \in DOMAIN mmaps[p]
    PROVE  mmaps[p][mapping[p]].file # STACK
<1>1. STACK \notin EXE..MaxMaps
    BY DEF EXE, STACK
<1> QED
    BY <1>1, TypeFacts DEF Mappings

LEMMA EntryIs ==
    ASSUME Types, NEW p \in Procs, Entry(p) # 0
    PROVE  /\ Entry(p) \in 1..Len(supp_page_table[p])
           /\ supp_page_table[p][Entry(p)].file = mmaps[p][mapping[p]].file
           /\ EntryPage(p) \in Pages /\ IsPage(p, EntryPage(p))
<1> DEFINE s == supp_page_table[p]
           I == {j \in 1..Len(s) : s[j].file = mmaps[p][mapping[p]].file}
<1>1. I # {} /\ Entry(p) = Min(I)
    BY DEF Entry, SelectInSeq
<1>2. I \subseteq Nat /\ DOMAIN s = 1..Len(s)
    BY TypeFacts
<1>3. Min(I) \in I
    BY <1>1, <1>2, MinOfIndices
<1>4. Entry(p) \in DOMAIN s /\ s[Entry(p)].file = mmaps[p][mapping[p]].file
    BY <1>1, <1>2, <1>3
<1>5. s[Entry(p)] \in PageInfos
    BY <1>4, TypeFacts
<1> QED
    BY <1>2, <1>4, <1>5 DEF EntryPage, IsPage, PageInfos

-----------------------------------------------------------------------------
(* What a step leaves alone. *)

LEMMA SameTables ==
    ASSUME NEW p \in Procs, Tables(p), supp_page_table'[p] = supp_page_table[p],
           mmaps'[p] = mmaps[p],
           \A va \in Pages : Present(p, va)' => Present(p, va) \/ IsPage(p, va)
    PROVE  Tables(p)'
    BY DEF Tables, Listed, Mapped, IsPage, Entries

LEMMA SameEntry ==
    ASSUME NEW p \in Procs, mapping'[p] = mapping[p], mmaps'[p] = mmaps[p],
           supp_page_table'[p] = supp_page_table[p]
    PROVE  Entry(p)' = Entry(p)
    BY DEF Entry, SelectInSeq

LEMMA SamePlaces ==
    ASSUME NEW p \in Procs, Places(p), pc'[p] = pc[p], call'[p] = call[p], arg'[p] = arg[p],
           mapping'[p] = mapping[p], mmaps'[p] = mmaps[p],
           supp_page_table'[p] = supp_page_table[p], pagedir'[p] = pagedir[p]
    PROVE  Places(p)'
<1>1. Entry(p)' = Entry(p)
    BY SameEntry
<1>2. Removing(p)'
    BY <1>1 DEF Places, Removing, EntryPage
<1> QED
    BY <1>2 DEF Places, IsPage

\* No dirty page goes away, and the mapping stays as it is.
LEMMA NothingLeaves ==
    ASSUME NEW p \in Procs, Types,
           pc[p] = "write" => pc'[p] # "unmap",
           \A va \in Pages : pagedir[p][va] = "dirty" => Present(p, va)',
           \A m \in ToSet(mmaps[p]) : \/ m \in ToSet(mmaps'[p])
                                      \/ \A n \in ToSet(mmaps'[p]) : n.file # m.file
    PROVE  Saved(p)
<1> SUFFICES ASSUME NEW m \in ToSet(mmaps[p])
             PROVE  IF \E n \in ToSet(mmaps'[p]) : n.file = m.file
                    THEN \E n \in ToSet(mmaps'[p]) :
                             /\ n.file = m.file
                             /\ n.pos = m.pos + Cardinality(Leaving(p, m)) + Reloaded(p, m)
                    ELSE Leaving(p, m) = {}
    BY DEF Saved
<1>1. Leaving(p, m) = {}
    BY DEF Leaving
<1>2. m.pos \in Nat
    BY TypeFacts, ListElements DEF Mappings
<1>3. Reloaded(p, m) = 0
    BY DEF Reloaded
<1>4. m.pos = m.pos + Cardinality(Leaving(p, m)) + Reloaded(p, m)
    BY <1>1, <1>2, <1>3, FS_EmptySet
<1> QED
    BY <1>1, <1>4

\* The processes that do not take the step.
SamePlace(q) ==
    pc'[q] = pc[q] /\ call'[q] = call[q] /\ arg'[q] = arg[q] /\ mapping'[q] = mapping[q]
Untouched(q) ==
    /\ SamePlace(q)
    /\ supp_page_table'[q] = supp_page_table[q] /\ mmaps'[q] = mmaps[q] /\ pagedir'[q] = pagedir[q]

LEMMA OtherProc ==
    ASSUME PagingInv, NEW q \in Procs, Untouched(q),
           fault_lock' = q <=> fault_lock = q, file_lock' = q <=> file_lock = q
    PROVE  Places(q)' /\ Locked(q)' /\ Tables(q)' /\ Saved(q)
<1> USE DEF Untouched, SamePlace
<1>1. Places(q)'
    BY SamePlaces DEF PagingInv
<1>2. Locked(q)'
    BY DEF PagingInv, Locked
<1>3. Tables(q)'
    BY SameTables DEF PagingInv, Present
<1>4. Saved(q)
    BY NothingLeaves DEF PagingInv, Present
<1> QED
    BY <1>1, <1>2, <1>3, <1>4

\* The kernel stops.
LEMMA PanicInv == Panic => PagingInv'
<1> SUFFICES ASSUME Panic PROVE PagingInv'
    OBVIOUS
<1> USE DEF Panic
<1>1. Types'
  <2>1. /\ supp_page_table' \in [Procs -> Seq(PageInfos)] /\ mmaps' \in [Procs -> Seq(Mappings)]
        /\ pagedir' \in [Procs -> [Pages -> Ptes]] /\ \A p \in Procs : ToSet(mmaps'[p]) = {}
      BY DEF Ptes, ToSet
  <2> QED
      BY <2>1, PageFacts DEF Types, VTypeOK, PageInfos
<1>2. ASSUME NEW p \in Procs PROVE Places(p)' /\ Locked(p)'
    BY <1>2, NullAssumption DEF Places, Removing, Locked, Calls
<1>3. ASSUME NEW p \in Procs PROVE Tables(p)'
  <2>1. ToSet(mmaps'[p]) = {} /\ DOMAIN mmaps'[p] = {} /\ ToSet(supp_page_table'[p]) = {}
        /\ DOMAIN supp_page_table'[p] = {}
      BY DEF ToSet
  <2> QED
      BY <2>1 DEF Tables, Listed, Mapped, Present
<1> QED
    BY <1>1, <1>2, <1>3 DEF PagingInv

LEMMA InitInv == Init => PagingInv
<1> SUFFICES ASSUME Init PROVE PagingInv
    OBVIOUS
<1> USE DEF Init
<1>1. Types
  <2>1. /\ supp_page_table \in [Procs -> Seq(PageInfos)] /\ mmaps \in [Procs -> Seq(Mappings)]
        /\ pagedir \in [Procs -> [Pages -> Ptes]] /\ \A p \in Procs : ToSet(mmaps[p]) = {}
      BY DEF Ptes, ToSet
  <2>2. stack_min \in [Procs -> Pages] /\ arg \in [Procs -> Int] /\ mapping \in [Procs -> Int]
      BY PageFacts
  <2>4. panic \in BOOLEAN
      OBVIOUS
  <2>3. VTypeOK
      BY <2>1 DEF VTypeOK, PageInfos
  <2> QED
      BY <2>1, <2>2, <2>3, <2>4 DEF Types
<1>2. ASSUME NEW p \in Procs PROVE Places(p) /\ Locked(p)
    BY <1>2, NullAssumption DEF Places, Removing, Locked, Calls
<1>3. ASSUME NEW p \in Procs PROVE Tables(p)
  <2>1. ToSet(mmaps[p]) = {} /\ DOMAIN mmaps[p] = {} /\ ToSet(supp_page_table[p]) = {}
        /\ DOMAIN supp_page_table[p] = {}
      BY DEF ToSet
  <2> QED
      BY <2>1 DEF Tables, Listed, Mapped, Present
<1> QED
    BY <1>1, <1>2, <1>3 DEF PagingInv

-----------------------------------------------------------------------------
(* Steps *)

\* What every step has to keep: the invariant and, unless the kernel panics, the
\* dirty pages.
StepOK == PagingInv' /\ (~panic' => \A q \in Procs : Saved(q))

LEMMA PanicOK == Panic => StepOK
    BY PanicInv DEF StepOK, Panic

LEMMA OneProc ==
    ASSUME PagingInv, NEW p \in Procs, Types', Places(p)', Locked(p)', Tables(p)', Saved(p),
           \A q \in Procs \ {p} : Untouched(q),
           fault_lock' = fault_lock \/ {fault_lock, fault_lock'} \subseteq {p, NULL},
           file_lock' = file_lock \/ {file_lock, file_lock'} \subseteq {p, NULL}
    PROVE  StepOK
<1>1. NULL \notin Procs
    BY NullAssumption
<1>2. ASSUME NEW q \in Procs \ {p} PROVE Places(q)' /\ Locked(q)' /\ Tables(q)' /\ Saved(q)
    BY <1>1, <1>2, OtherProc
<1> QED
    BY <1>2 DEF PagingInv, StepOK

\* Pages are not touched.
LEMMA KeepTables ==
    ASSUME PagingInv, NEW p \in Procs, UNCHANGED tableVars, pc[p] = "write" => pc'[p] # "unmap"
    PROVE  Tables(p)' /\ Saved(p)
    BY SameTables, NothingLeaves DEF PagingInv, tableVars, Present

\* The stack grows.
LEMMA GrowTables ==
    ASSUME PagingInv, NEW p \in Procs, NEW va \in Pages,
           supp_page_table'[p] = Append(supp_page_table[p], PageInfo(va, STACK, TRUE)),
           mmaps'[p] = mmaps[p], pagedir'[p] = pagedir[p], pc[p] = "write" => pc'[p] # "unmap"
    PROVE  /\ Tables(p)' /\ Saved(p) /\ supp_page_table'[p] \in Seq(PageInfos)
           /\ \A a : IsPage(p, a) => IsPage(p, a)'
           /\ mapping[p] \in DOMAIN mmaps[p] /\ mapping'[p] = mapping[p] /\ Entry(p) # 0 =>
                  Entry(p)' = Entry(p) /\ EntryPage(p)' = EntryPage(p)
<1> DEFINE s == supp_page_table[p]
           e == PageInfo(va, STACK, TRUE)
           t == supp_page_table'[p]
<1>0. Types /\ Tables(p)
    BY DEF PagingInv
<1>1. s \in Seq(PageInfos) /\ Len(s) \in Nat /\ DOMAIN s = 1..Len(s)
    BY <1>0, TypeFacts
<1>2. e \in PageInfos /\ e.va = va /\ e.file = STACK
    BY PageFacts DEF PageInfo, PageInfos
<1>3. /\ t \in Seq(PageInfos) /\ DOMAIN t = 1..Len(s) + 1 /\ ToSet(t) = ToSet(s) \cup {e}
      /\ \A i \in 1..Len(s) : t[i] = s[i]
      /\ t[Len(s) + 1] = e
  <2>1. t = Append(s, e)
      OBVIOUS
  <2> HIDE DEF s, e, t
  <2>2. t \in Seq(PageInfos) /\ ToSet(t) = ToSet(s) \cup {e}
      BY <1>1, <1>2, <2>1, AppendList
  <2>3. /\ Len(t) = Len(s) + 1 /\ \A i \in 1..Len(s) : t[i] = s[i]
        /\ t[Len(s) + 1] = e
      BY <1>1, <1>2, <2>1, AppendProperties
  <2> QED
      BY <2>2, <2>3, LenProperties
<1>4. \A i \in 1..Len(s) + 1 : i \in 1..Len(s) \/ i = Len(s) + 1
    BY <1>1
<1>5. 1..Len(s) \subseteq DOMAIN t
    BY <1>1, <1>3
<1>6. \A a : IsPage(p, a) => IsPage(p, a)'
    BY <1>1, <1>3, <1>5 DEF IsPage
<1>7. \A m \in ToSet(mmaps[p]) : Entries(p, m.file)' = Entries(p, m.file)
  <2>1. \A m \in ToSet(mmaps[p]) : m.file # STACK
    <3>1. ToSet(mmaps[p]) \subseteq Mappings
        BY <1>0, TypeFacts, ListElements
    <3>2. STACK \notin EXE..MaxMaps
        BY DEF EXE, STACK
    <3> QED
        BY <3>1, <3>2 DEF Mappings
  <2> QED
      BY <2>1, <1>2, <1>3 DEF Entries
<1> HIDE DEF s, e, t
<1>8. Listed(p)'
    BY <1>0, <1>2, <1>3, <1>6 DEF Tables, Listed, Present, s, t
<1>9. Mapped(p)'
  <2>1. ASSUME NEW i \in 1..Len(s) + 1, NEW j \in 1..Len(s) + 1, j < i, t[i].file # STACK
        PROVE  t[j].va # t[i].va
    <3>1. i \in 1..Len(s)
        BY <2>1, <1>2, <1>3, <1>4
    <3>2. j \in 1..Len(s)
        BY <3>1, <2>1, <1>1
    <3> QED
        BY <2>1, <3>1, <3>2, <1>0, <1>1, <1>3 DEF Tables, Mapped, s
  <2> QED
      BY <2>1, <1>0, <1>3, <1>7 DEF Tables, Mapped, t
<1>10. Saved(p)
    BY <1>0, NothingLeaves DEF Present
<1>11. ASSUME mapping[p] \in DOMAIN mmaps[p], mapping'[p] = mapping[p], Entry(p) # 0
       PROVE  Entry(p)' = Entry(p) /\ EntryPage(p)' = EntryPage(p)
  <2> DEFINE f == mmaps[p][mapping[p]].file
  <2>1. f # STACK
      BY <1>0, <1>11, MappingFile
  <2>2. {i \in 1..Len(t) : t[i].file = f} = {i \in 1..Len(s) : s[i].file = f}
      BY <2>1, <1>1, <1>2, <1>3, <1>4, <1>5, LenProperties
  <2>3. f' = f
      BY <1>11
  <2> HIDE DEF f
  <2>4. Entry(p)' = Entry(p)
      BY <2>2, <2>3 DEF Entry, SelectInSeq, f, s, t
  <2>5. Entry(p) \in 1..Len(s)
      BY <1>0, <1>11, EntryIs DEF s
  <2> QED
      BY <2>4, <2>5, <1>3 DEF EntryPage, s, t
<1> QED
    BY <1>3, <1>6, <1>8, <1>9, <1>10, <1>11 DEF Tables, t

\* The types of a step that changes nothing but the places and the locks.
LEMMA TypesKept ==
    ASSUME Types, UNCHANGED <<tableVars, panic>>,
           pc' \in [Procs -> PlaceNames],
           call' \in [Procs -> Calls \cup {"exit", NULL}], arg' \in [Procs -> Int],
           mapping' \in [Procs -> Int],
           {fault_lock', file_lock'} \subseteq Procs \cup {NULL}
    PROVE  Types'
    BY DEF Types, VTypeOK, tableVars

LEMMA UnresolvedOK ==
    ASSUME PagingInv, NEW p \in Procs, NEW locks, Unresolved(p, locks),
           pc[p] \in {"user", "copy", "load", "fill"},
           \/ locks = fault_lock /\ pc[p] # "fill"
           \/ locks = NULL /\ fault_lock \in {NULL, p}
    PROVE  StepOK
<1>0. /\ Types /\ Places(p) /\ Locked(p)
      /\ NULL \notin Calls /\ "exit" \notin Calls /\ NULL \notin Procs
    BY NullAssumption DEF PagingInv, Calls
<1>1. CASE Panic
    BY <1>1, PanicOK
<1>2. CASE /\ stack_min[p] > StackEnd
           /\ stack_min' = [stack_min EXCEPT ![p] = @ - 1]
           /\ supp_page_table' = [supp_page_table EXCEPT ![p] =
                                     Append(@, PageInfo(stack_min[p] - 1, STACK, TRUE))]
           /\ Resume(p)
           /\ fault_lock' = locks
           /\ UNCHANGED <<call, mapping, mmaps, pagedir, file_lock, panic>>
  <2> USE <1>2
  <2>1. stack_min[p] - 1 \in Pages
      BY <1>0, PageFacts, PageAssumption DEF Types, Pages
  <2>2. /\ supp_page_table'[p] = Append(supp_page_table[p], PageInfo(stack_min[p] - 1, STACK, TRUE))
        /\ \A q \in Procs \ {p} : supp_page_table'[q] = supp_page_table[q]
      BY <1>0 DEF Types, VTypeOK
  <2>3. /\ pc'[p] = (IF call[p] \in Calls THEN "copy"
                     ELSE IF mapping[p] # 0 THEN "write" ELSE "user")
        /\ arg'[p] = (IF call[p] \in Calls THEN arg[p] ELSE 0)
        /\ \A q \in Procs \ {p} : pc'[q] = pc[q] /\ arg'[q] = arg[q]
      BY <1>0 DEF Types, VTypeOK, Resume
  <2>4. /\ Tables(p)' /\ Saved(p) /\ supp_page_table'[p] \in Seq(PageInfos)
        /\ mapping[p] \in DOMAIN mmaps[p] /\ Entry(p) # 0 => EntryPage(p)' = EntryPage(p)
        /\ mapping[p] \in DOMAIN mmaps[p] /\ Entry(p) # 0 => Entry(p)' = Entry(p)
      BY <2>1, <2>2, GrowTables
  <2>5. Types'
    <3>1. supp_page_table' \in [Procs -> Seq(PageInfos)]
        BY <2>4, <1>0 DEF Types, VTypeOK, PageInfos
    <3>2. stack_min' \in [Procs -> Pages]
        BY <2>1, <1>0 DEF Types
    <3>3. /\ pc' \in [Procs -> PlaceNames]
          /\ arg' \in [Procs -> Int]
        BY <1>0 DEF Types, VTypeOK, Resume
    <3> QED
        BY <3>1, <3>2, <3>3, <1>0 DEF Types, VTypeOK, PageInfos
  <2>6. Places(p)'
    <3>1. Removing(p)'
        BY <2>3, <2>4, <1>0 DEF Places, Removing
    <3> QED
        BY <3>1, <2>3, <1>0 DEF Places, Removing
  <2>7. Locked(p)'
    <3>1. mapping[p] # 0 => pc[p] \in {"load", "fill"} /\ call[p] \notin Calls
        BY <1>0 DEF Places, Removing
    <3>2. pc'[p] # "fill" /\ fault_lock' # p
        BY <2>3, <1>0 DEF Locked
    <3>3. \/ call[p] \in Calls
          \/ pc'[p] = "write" /\ mapping[p] # 0
          \/ pc'[p] = "user" /\ mapping[p] = 0 /\ call[p] \notin Calls
        BY <2>3
    <3> QED
        BY <3>1, <3>2, <3>3, <1>0 DEF Locked
  <2> QED
      BY <2>2, <2>3, <2>4, <2>5, <2>6, <2>7, OneProc DEF Untouched, SamePlace
<1>3. CASE /\ ~InKernel(p)
           /\ pc' = [pc EXCEPT ![p] = "exit"]
           /\ arg' = [arg EXCEPT ![p] = 0]
           /\ fault_lock' = locks
           /\ UNCHANGED <<call, mapping, tableVars, file_lock, panic>>
  <2> USE <1>3
  <2>1. Types'
    <3>1. /\ pc' \in [Procs -> PlaceNames]
          /\ arg' \in [Procs -> Int]
        BY <1>0 DEF Types, VTypeOK
    <3> QED
        BY <3>1, <1>0, TypesKept DEF Types, VTypeOK
  <2>2. Places(p)' /\ Locked(p)'
      BY <1>0 DEF Types, VTypeOK, Places, Removing, Locked, InKernel
  <2>3. pc'[p] = "exit" /\ \A q \in Procs \ {p} : Untouched(q)
      BY <1>0 DEF Types, VTypeOK, tableVars, Untouched, SamePlace
  <2> QED
      BY <1>0, <2>1, <2>2, <2>3, KeepTables, OneProc
<1> QED
    BY <1>1, <1>2, <1>3 DEF Unresolved

\* Steps that touch no page.
LEMMA PlaceOK ==
    ASSUME PagingInv, NEW p \in Procs, UNCHANGED <<tableVars, panic>>,
           NEW to \in PlaceNames, NEW c \in Calls \cup {"exit", NULL}, NEW a \in Int, NEW k \in Int,
           pc' = [pc EXCEPT ![p] = to], call' = [call EXCEPT ![p] = c],
           arg' = [arg EXCEPT ![p] = a], mapping' = [mapping EXCEPT ![p] = k],
           pc[p] = "write" => to # "unmap",
           {fault_lock', file_lock'} \subseteq Procs \cup {NULL},
           fault_lock' = fault_lock \/ {fault_lock, fault_lock'} \subseteq {p, NULL},
           file_lock' = file_lock \/ {file_lock, file_lock'} \subseteq {p, NULL},
           Places(p)', Locked(p)'
    PROVE  StepOK
<1>0. Types
    BY DEF PagingInv
<1>1. /\ pc' \in [Procs -> PlaceNames] /\ call' \in [Procs -> Calls \cup {"exit", NULL}]
      /\ arg' \in [Procs -> Int] /\ mapping' \in [Procs -> Int]
    BY <1>0 DEF Types, VTypeOK
<1>2. Types'
    BY <1>0, <1>1, TypesKept
<1>3. pc'[p] = to /\ \A q \in Procs \ {p} : SamePlace(q)
    BY <1>0 DEF Types, VTypeOK, SamePlace
<1>4. \A q \in Procs \ {p} : Untouched(q)
    BY <1>3 DEF Untouched, tableVars
<1>5. Tables(p)' /\ Saved(p)
    BY <1>3, KeepTables
<1> QED
    BY <1>2, <1>4, <1>5, OneProc

LEMMA PageFaultOK ==
    ASSUME PagingInv, NEW p \in Procs, NEW va \in Pages, PageFault(p, va),
           pc[p] \in {"user", "copy"}
    PROVE  StepOK
<1>0. Types /\ Places(p) /\ Locked(p) /\ va \in Int
    BY PageFacts DEF PagingInv
<1>1. CASE Unresolved(p, fault_lock)
    BY <1>1, UnresolvedOK
<1>2. CASE /\ IsPage(p, va)
           /\ pc' = [pc EXCEPT ![p] = "load"]
           /\ arg' = [arg EXCEPT ![p] = va]
           /\ UNCHANGED <<call, mapping, tableVars, lockVars, panic>>
  <2>1. /\ call' = [call EXCEPT ![p] = call[p]] /\ call[p] \in Calls \cup {"exit", NULL}
        /\ mapping' = [mapping EXCEPT ![p] = 0] /\ mapping[p] = 0
        /\ {fault_lock', file_lock'} \subseteq Procs \cup {NULL}
      BY <1>0, <1>2 DEF Types, VTypeOK, Places, Removing, lockVars
  <2>2. Places(p)'
      BY <1>0, <1>2, <2>1 DEF Types, VTypeOK, Places, Removing, IsPage, tableVars
  <2>3. Locked(p)'
      BY <1>0, <1>2, <2>1 DEF Types, VTypeOK, Locked, lockVars
  <2>4. /\ "load" \in PlaceNames /\ 0 \in Int /\ UNCHANGED <<tableVars, panic>>
        /\ pc[p] # "write" /\ pc' = [pc EXCEPT ![p] = "load"] /\ arg' = [arg EXCEPT ![p] = va]
        /\ fault_lock' = fault_lock /\ file_lock' = file_lock
      BY <1>2 DEF lockVars
  <2> QED
      BY <1>0, <2>1, <2>2, <2>3, <2>4, PlaceOK
<1> QED
    BY <1>1, <1>2 DEF PageFault

\* Pages change, the lists do not.
LEMMA PagesOK ==
    ASSUME PagingInv, NEW p \in Procs, NEW va \in Pages,
           NEW pte \in Ptes \ {"absent", "absent_dirty"},
           pagedir' = [pagedir EXCEPT ![p][va] = pte], IsPage(p, va),
           UNCHANGED <<mapping, supp_page_table, mmaps, stack_min, panic>>,
           NEW to \in {"user", "copy", "write"}, NEW c \in Calls \cup {"exit", NULL}, NEW a \in Int,
           pc' = [pc EXCEPT ![p] = to], call' = [call EXCEPT ![p] = c],
           arg' = [arg EXCEPT ![p] = a],
           {fault_lock', file_lock'} \subseteq Procs \cup {NULL},
           fault_lock' = fault_lock \/ {fault_lock, fault_lock'} \subseteq {p, NULL},
           file_lock' = file_lock \/ {file_lock, file_lock'} \subseteq {p, NULL},
           Places(p)', Locked(p)'
    PROVE  StepOK
<1>0. Types /\ Tables(p)
    BY DEF PagingInv
<1>1. pc'[p] = to /\ \A q \in Procs \ {p} : SamePlace(q)
    BY <1>0 DEF Types, VTypeOK, SamePlace
<1>2. /\ pagedir' \in [Procs -> [Pages -> Ptes]]
      /\ \A q \in Procs \ {p} : pagedir'[q] = pagedir[q]
      /\ pagedir'[p][va] = pte /\ \A v \in Pages \ {va} : pagedir'[p][v] = pagedir[p][v]
    BY <1>0 DEF Types, VTypeOK
<1>3. Types'
  <2>1. /\ pc' \in [Procs -> PlaceNames] /\ call' \in [Procs -> Calls \cup {"exit", NULL}]
        /\ arg' \in [Procs -> Int]
      BY <1>0 DEF Types, VTypeOK
  <2> QED
      BY <2>1, <1>2, <1>0 DEF Types, VTypeOK
<1>4. Tables(p)'
    BY <1>0, <1>2, SameTables DEF Present
<1>5. Saved(p)
    BY <1>0, <1>1, <1>2, NothingLeaves DEF Present
<1>6. \A q \in Procs \ {p} : Untouched(q)
    BY <1>1, <1>2 DEF Untouched
<1> QED
    BY <1>3, <1>4, <1>5, <1>6, OneProc

LEMMA InstallPageOK ==
    ASSUME PagingInv, NEW p \in Procs, InstallPage(p), pc[p] \in {"load", "fill"},
           fault_lock \in {NULL, p}
    PROVE  StepOK
<1> USE DEF InstallPage
<1> DEFINE pte == SetPage(GetPi(p, arg[p]).writable)
           to == IF call[p] \in Calls THEN "copy" ELSE IF mapping[p] # 0 THEN "write" ELSE "user"
           a == IF call[p] \in Calls THEN arg[p] ELSE 0
<1>0. /\ Types /\ Places(p) /\ Locked(p) /\ NULL \notin Procs
      /\ NULL \notin Calls /\ "exit" \notin Calls
    BY NullAssumption DEF PagingInv, Calls
<1>1. /\ arg[p] \in Pages /\ IsPage(p, arg[p]) /\ call[p] \in Calls \cup {"exit", NULL}
      /\ a \in Int /\ to \in {"user", "copy", "write"}
    BY <1>0 DEF Places, Types, VTypeOK
<1>2. /\ pc' = [pc EXCEPT ![p] = to] /\ arg' = [arg EXCEPT ![p] = a]
      /\ call' = [call EXCEPT ![p] = call[p]]
      /\ pc'[p] = to /\ arg'[p] = a /\ call'[p] = call[p] /\ mapping'[p] = mapping[p]
    BY <1>0 DEF Resume, Types, VTypeOK
<1>3. {fault_lock', file_lock'} \subseteq Procs \cup {NULL} /\ fault_lock' # p
    BY <1>0 DEF Types, VTypeOK
<1>4. pte \in Ptes \ {"absent", "absent_dirty"} /\ pte # "dirty"
    BY DEF SetPage, Ptes
<1>5. pagedir' = [pagedir EXCEPT ![p][arg[p]] = pte]
    OBVIOUS
<1>6. Removing(p)'
  <2>1. Entry(p)' = Entry(p) /\ EntryPage(p)' = EntryPage(p)
      BY SameEntry DEF EntryPage
  <2>2. ASSUME mapping[p] # 0 PROVE pagedir'[p][EntryPage(p)] # "dirty"
    <3>1. EntryPage(p) \in Pages /\ pagedir[p][EntryPage(p)] # "dirty"
        BY <2>2, <1>0, EntryIs DEF Places, Removing
    <3>2. pagedir'[p][EntryPage(p)] \in {pagedir[p][EntryPage(p)], pte}
        BY <3>1, <1>0, <1>1, <1>5 DEF Types, VTypeOK
    <3> QED
        BY <3>1, <3>2, <1>4
  <2> QED
      BY <2>1, <2>2, <1>0, <1>2 DEF Places, Removing
<1>7. Places(p)'
    BY <1>6, <1>0, <1>1, <1>2 DEF Places, Removing
<1>8. Locked(p)'
    BY <1>0, <1>2, <1>3 DEF Locked, Places, Removing
<1> HIDE DEF pte, to, a
<1> QED
    BY <1>0, <1>1, <1>2, <1>3, <1>4, <1>5, <1>7, <1>8, PagesOK

LEMMA LoadPageOK ==
    ASSUME PagingInv, NEW p \in Procs, LoadPage(p)
    PROVE  StepOK
<1>0. pc[p] = "load" /\ fault_lock = NULL /\ Types /\ Places(p) /\ Locked(p)
    BY DEF PagingInv, LoadPage
<1>1. CASE Panic
    BY <1>1, PanicOK
<1>2. CASE InstallPage(p)
    BY <1>0, <1>2, InstallPageOK
<1>3. CASE InstallFails(p)
    BY <1>0, <1>3, UnresolvedOK DEF InstallFails
<1>4. CASE /\ fault_lock' = p
           /\ pc' = [pc EXCEPT ![p] = "fill"]
           /\ UNCHANGED <<call, arg, mapping, tableVars, file_lock, panic>>
  <2>1. /\ call' = [call EXCEPT ![p] = call[p]] /\ call[p] \in Calls \cup {"exit", NULL}
        /\ arg' = [arg EXCEPT ![p] = arg[p]] /\ arg[p] \in Int
        /\ mapping' = [mapping EXCEPT ![p] = mapping[p]] /\ mapping[p] \in Int
        /\ {fault_lock', file_lock'} \subseteq Procs \cup {NULL}
      BY <1>0, <1>4 DEF Types, VTypeOK
  <2>2. Places(p)' /\ Locked(p)'
    <3>1. Entry(p)' = Entry(p) /\ EntryPage(p)' = EntryPage(p) /\ pc'[p] = "fill"
        BY <1>0, <1>4, SameEntry DEF EntryPage, Types, VTypeOK, tableVars
    <3>2. Removing(p)'
        BY <1>0, <1>4, <3>1 DEF Places, Removing, tableVars
    <3> QED
        BY <1>0, <1>4, <3>1, <3>2 DEF Places, Removing, Locked, IsPage, tableVars
  <2>3. /\ "fill" \in PlaceNames /\ UNCHANGED <<tableVars, panic>>
        /\ pc[p] # "write" /\ pc' = [pc EXCEPT ![p] = "fill"]
        /\ {fault_lock, fault_lock'} \subseteq {p, NULL} /\ file_lock' = file_lock
      BY <1>0, <1>4
  <2> QED
      BY <2>1, <2>2, <2>3, PlaceOK
<1> QED
    BY <1>1, <1>2, <1>3, <1>4 DEF LoadPage, EvictPage

LEMMA FillPageOK ==
    ASSUME PagingInv, NEW p \in Procs, FillPage(p)
    PROVE  StepOK
<1>0. pc[p] = "fill" /\ fault_lock = p
    BY DEF PagingInv, FillPage, Locked
<1>1. CASE Panic
    BY <1>1, PanicOK
<1>2. CASE InstallPage(p)
    BY <1>0, <1>2, InstallPageOK
<1>3. CASE InstallFails(p)
    BY <1>0, <1>3, UnresolvedOK DEF InstallFails
<1> QED
    BY <1>1, <1>2, <1>3 DEF FillPage

LEMMA UserWriteOK ==
    ASSUME PagingInv, NEW p \in Procs, NEW va \in Pages, UserWrite(p, va)
    PROVE  StepOK
<1> USE DEF UserWrite, procVars, lockVars
<1>0. Types /\ Places(p) /\ Locked(p) /\ Tables(p) /\ NULL \notin Procs
    BY NullAssumption DEF PagingInv
<1>1. /\ call' = [call EXCEPT ![p] = call[p]] /\ call[p] \in Calls \cup {"exit", NULL}
      /\ pc' = [pc EXCEPT ![p] = "user"]
      /\ arg' = [arg EXCEPT ![p] = arg[p]] /\ arg[p] \in Int
      /\ {fault_lock', file_lock'} \subseteq Procs \cup {NULL}
    BY <1>0 DEF Types, VTypeOK
<1>2. IsPage(p, va)
    BY <1>0 DEF Tables, Listed, Allowed, Present
<1>3. mapping[p] = 0
    BY <1>0 DEF Places, Removing
<1>4. Places(p)' /\ Locked(p)'
    BY <1>0, <1>3 DEF Places, Removing, Locked
<1>5. "dirty" \in Ptes \ {"absent", "absent_dirty"}
    BY DEF Ptes
<1> QED
    BY <1>0, <1>1, <1>2, <1>4, <1>5, PagesOK

LEMMA CallOK ==
    ASSUME PagingInv, NEW p \in Procs, NEW c \in Calls, NEW va \in Pages, Call(p, c, va)
    PROVE  StepOK
<1> USE DEF Call
<1>0. Types /\ Places(p) /\ Locked(p) /\ va \in Int
    BY PageFacts DEF PagingInv
<1>1. /\ {fault_lock', file_lock'} \subseteq Procs \cup {NULL}
      /\ mapping' = [mapping EXCEPT ![p] = 0] /\ mapping[p] = 0
    BY <1>0 DEF Types, VTypeOK, Places, Removing
<1>2. Places(p)' /\ Locked(p)'
    BY <1>0, <1>1 DEF Types, VTypeOK, Places, Removing, Locked
<1>3. /\ "copy" \in PlaceNames /\ 0 \in Int /\ UNCHANGED <<tableVars, panic>>
      /\ pc[p] # "write" /\ pc' = [pc EXCEPT ![p] = "copy"] /\ call' = [call EXCEPT ![p] = c]
      /\ arg' = [arg EXCEPT ![p] = va]
      /\ {file_lock, file_lock'} \subseteq {p, NULL} /\ fault_lock' = fault_lock
    OBVIOUS
<1> HIDE DEF Call
<1> QED
    BY <1>0, <1>1, <1>2, <1>3, PlaceOK

LEMMA CopyOK ==
    ASSUME PagingInv, NEW p \in Procs, Copy(p)
    PROVE  StepOK
<1> USE DEF Copy
<1>0. Types /\ Places(p) /\ Locked(p) /\ Tables(p) /\ NULL \notin Calls /\ NULL \notin Procs
    BY NullAssumption DEF PagingInv, Calls
<1>1. call[p] \in Calls /\ arg[p] \in Pages /\ mapping[p] = 0 /\ file_lock = p
    BY <1>0 DEF Places, Removing, Locked
<1>2. /\ {fault_lock', file_lock'} \subseteq Procs \cup {NULL} /\ 0 \in Int
      /\ file_lock' = NULL
    BY <1>0 DEF Types, VTypeOK
<1>3. Places(p)' /\ Locked(p)'
    BY <1>0, <1>1 DEF Types, VTypeOK, Places, Removing, Locked
<1>4. CASE call[p] = "store"
  <2>1. IsPage(p, arg[p])
      BY <1>0, <1>1, <1>4 DEF Tables, Listed, Allowed, Present
  <2>2. /\ "dirty" \in Ptes \ {"absent", "absent_dirty"}
        /\ pagedir' = [pagedir EXCEPT ![p][arg[p]] = "dirty"]
      BY <1>4 DEF Ptes
  <2>3. /\ UNCHANGED <<mapping, supp_page_table, mmaps, stack_min, panic, fault_lock>>
        /\ pc' = [pc EXCEPT ![p] = "user"] /\ call' = [call EXCEPT ![p] = NULL]
        /\ arg' = [arg EXCEPT ![p] = 0]
      OBVIOUS
  <2>4. {file_lock, file_lock'} \subseteq {p, NULL}
      BY <1>1, <1>2
  <2> HIDE DEF Copy
  <2> QED
      BY <1>1, <1>2, <1>3, <2>1, <2>2, <2>3, <2>4, PagesOK
<1>5. CASE call[p] # "store"
  <2>1. mapping' = [mapping EXCEPT ![p] = 0]
      BY <1>0, <1>1 DEF Types
  <2> QED
      BY <1>0, <1>1, <1>2, <1>3, <1>5, <2>1, PlaceOK DEF tableVars
<1> QED
    BY <1>4, <1>5

LEMMA ProcessMunmapOK ==
    ASSUME PagingInv, NEW p \in Procs, ProcessMunmap(p)
    PROVE  StepOK
<1>0. /\ pc[p] = "user" /\ Types /\ Places(p) /\ Locked(p) /\ NULL \notin Calls
      /\ DOMAIN mmaps[p] \subseteq Int
    BY TypeFacts DEF PagingInv, ProcessMunmap
<1>1. CASE Panic
    BY <1>1, PanicOK
<1>2. ASSUME NEW k \in DOMAIN mmaps[p], pc' = [pc EXCEPT ![p] = "unmap"],
             mapping' = [mapping EXCEPT ![p] = k],
             UNCHANGED <<call, arg, tableVars, lockVars, panic>>
      PROVE  StepOK
  <2> USE <1>0, <1>2 DEF lockVars
  <2>1. /\ call' = [call EXCEPT ![p] = NULL] /\ arg' = [arg EXCEPT ![p] = arg[p]]
        /\ arg[p] \in Int /\ k \in Int /\ k # 0 /\ mapping[p] = 0
        /\ {fault_lock', file_lock'} \subseteq Procs \cup {NULL}
      BY TypeFacts DEF Types, VTypeOK, Places, Removing
  <2>2. Places(p)' /\ Locked(p)'
      BY <2>1 DEF Types, VTypeOK, Places, Removing, Locked, tableVars
  <2> QED
      BY <2>1, <2>2, PlaceOK
<1> QED
    BY <1>1, <1>2 DEF ProcessMunmap

LEMMA ExitOK ==
    ASSUME PagingInv, NEW p \in Procs, Exit(p)
    PROVE  StepOK
<1> USE DEF Exit, lockVars
<1>0. Types /\ Places(p) /\ Locked(p)
    BY DEF PagingInv
<1>1. /\ call' = [call EXCEPT ![p] = NULL] /\ arg' = [arg EXCEPT ![p] = arg[p]] /\ arg[p] \in Int
      /\ mapping' = [mapping EXCEPT ![p] = 0] /\ mapping[p] = 0
      /\ {fault_lock', file_lock'} \subseteq Procs \cup {NULL}
    BY <1>0 DEF Types, VTypeOK, Places, Removing
<1>2. Places(p)' /\ Locked(p)'
    BY <1>0, <1>1 DEF Types, VTypeOK, Places, Removing, Locked
<1>3. /\ "exit" \in PlaceNames /\ 0 \in Int /\ UNCHANGED <<tableVars, panic>>
      /\ pc[p] # "write" /\ pc' = [pc EXCEPT ![p] = "exit"]
      /\ fault_lock' = fault_lock /\ file_lock' = file_lock
    OBVIOUS
<1> HIDE DEF Exit
<1> QED
    BY <1>0, <1>1, <1>2, <1>3, PlaceOK

LEMMA ExitCloseOK ==
    ASSUME PagingInv, NEW p \in Procs, ExitClose(p)
    PROVE  StepOK
<1> USE DEF ExitClose, lockVars
<1>0. Types /\ Places(p) /\ Locked(p) /\ "exit" \notin Calls /\ NULL \notin Calls
    BY TypeFacts DEF PagingInv, Calls
<1>1. /\ arg' = [arg EXCEPT ![p] = arg[p]] /\ arg[p] \in Int
      /\ mapping' = [mapping EXCEPT ![p] = 0] /\ mapping[p] = 0
      /\ {fault_lock', file_lock'} \subseteq Procs \cup {NULL}
    BY <1>0 DEF Types, VTypeOK, Places, Removing
<1>2. Places(p)' /\ Locked(p)'
    BY <1>0, <1>1 DEF Types, VTypeOK, Places, Removing, Locked
<1>3. /\ "closed" \in PlaceNames /\ 0 \in Int /\ UNCHANGED <<tableVars, panic>>
      /\ pc[p] # "write" /\ pc' = [pc EXCEPT ![p] = "closed"]
      /\ call' = [call EXCEPT ![p] = "exit"]
      /\ fault_lock' = fault_lock /\ file_lock' = file_lock
    BY <1>1
<1> HIDE DEF ExitClose
<1> QED
    BY <1>0, <1>1, <1>2, <1>3, PlaceOK

LEMMA ExitUnmapOK ==
    ASSUME PagingInv, NEW p \in Procs, ExitUnmap(p)
    PROVE  StepOK
<1> USE DEF ExitUnmap, lockVars
<1>0. Types /\ Places(p) /\ Locked(p) /\ "exit" \notin Calls
    BY DEF PagingInv, Calls
<1>1. 1 \in DOMAIN mmaps[p]
    BY <1>0, TypeFacts, ListElements
<1>2. /\ call' = [call EXCEPT ![p] = "exit"] /\ call[p] = "exit"
      /\ arg' = [arg EXCEPT ![p] = arg[p]] /\ arg[p] \in Int /\ mapping[p] = 0
      /\ {fault_lock', file_lock'} \subseteq Procs \cup {NULL}
    BY <1>0 DEF Types, VTypeOK, Places, Removing
<1>3. Places(p)' /\ Locked(p)'
    BY <1>0, <1>1, <1>2 DEF Types, VTypeOK, Places, Removing, Locked, tableVars
<1>4. /\ "unmap" \in PlaceNames
      /\ "exit" \in Calls \cup {"exit", NULL} /\ 1 \in Int
      /\ UNCHANGED <<tableVars, panic, fault_lock, file_lock>>
      /\ pc' = [pc EXCEPT ![p] = "unmap"] /\ mapping' = [mapping EXCEPT ![p] = 1]
      /\ pc[p] # "write"
    OBVIOUS
<1> HIDE DEF ExitUnmap
<1> QED
    BY <1>2, <1>3, <1>4, PlaceOK

LEMMA PagedirDestroyOK ==
    ASSUME PagingInv, NEW p \in Procs, PagedirDestroy(p)
    PROVE  StepOK
<1> USE DEF PagedirDestroy, lockVars
<1>0. /\ Types /\ Places(p) /\ Locked(p) /\ NULL \notin Calls /\ "exit" \notin Calls
      /\ mapping[p] = 0 /\ mapping'[p] = 0
    BY TypeFacts DEF PagingInv, Calls, Places, Removing
<1>1. /\ pc'[p] = "none" /\ call'[p] = NULL /\ mmaps'[p] = <<>> /\ supp_page_table'[p] = <<>>
      /\ \A va \in Pages : pagedir'[p][va] = "absent"
      /\ \A q \in Procs \ {p} : Untouched(q)
    BY <1>0 DEF Types, VTypeOK, Untouched, SamePlace
<1>2. Types'
  <2>1. pagedir' \in [Procs -> [Pages -> Ptes]]
      BY <1>0 DEF Types, VTypeOK, Ptes
  <2>2. supp_page_table' \in [Procs -> Seq(PageInfos)]
    <3>1. <<>> \in Seq(PageInfos) /\ supp_page_table \in [Procs -> Seq(PageInfos)]
        BY <1>0, EmptySeq DEF Types, VTypeOK, PageInfos
    <3> QED
        BY <3>1
  <2> QED
      BY <2>1, <2>2, <1>0 DEF Types, VTypeOK, PageInfos
<1>3. Places(p)' /\ Locked(p)'
    BY <1>0, <1>1 DEF Places, Removing, Locked
<1>4. ToSet(<<>>) = {} /\ DOMAIN <<>> = {}
    BY DEF ToSet
<1>5. Tables(p)'
    BY <1>1, <1>4 DEF Tables, Listed, Mapped, Present
<1>6. Saved(p)
    BY <1>4 DEF Saved
<1> QED
    BY <1>1, <1>2, <1>3, <1>5, <1>6, OneProc

LEMMA LoadOK ==
    ASSUME PagingInv, NEW p \in Procs, NEW writable \in BOOLEAN, Load(p, writable)
    PROVE  StepOK
<1> DEFINE x == [i \in 1..ExeLast |-> PageInfo(i, EXE, writable)]
           y == <<PageInfo(LastPage, STACK, TRUE)>>
<1>1. CASE Panic
    BY <1>1, PanicOK
<1>2. CASE /\ supp_page_table' = [supp_page_table EXCEPT ![p] = x \o y]
           /\ pagedir' = [pagedir EXCEPT ![p] =
                 [va \in Pages |-> CASE va <= ExeLast -> SetPage(writable)
                                      [] va = LastPage -> "clean"
                                      [] OTHER -> "absent"]]
           /\ stack_min' = [stack_min EXCEPT ![p] = LastPage]
           /\ pc' = [pc EXCEPT ![p] = "user"]
           /\ UNCHANGED <<call, arg, mapping, mmaps, lockVars, panic>>
  <2> USE <1>2 DEF lockVars
  <2>0. /\ Types /\ Places(p) /\ Locked(p) /\ Tables(p) /\ pc[p] = "none" /\ NULL \notin Calls
        /\ mapping[p] = 0
      BY TypeFacts DEF PagingInv, Load, Places, Removing
  <2>1. /\ x \in Seq(PageInfos) /\ Len(x) = ExeLast
        /\ \A i \in 1..ExeLast : x[i] = PageInfo(i, EXE, writable)
        /\ y \in Seq(PageInfos) /\ Len(y) = 1 /\ y[1] = PageInfo(LastPage, STACK, TRUE)
    <3>1. \A i \in 1..ExeLast : PageInfo(i, EXE, writable) \in PageInfos
        BY PageFacts DEF PageInfo, PageInfos
    <3>2. x \in Seq(PageInfos) /\ Len(x) = ExeLast
        BY <3>1, PageAssumption, SMTT(30)
    <3>3. PageInfo(LastPage, STACK, TRUE) \in PageInfos
        BY PageFacts DEF PageInfo, PageInfos
    <3>4. y \in Seq(PageInfos) /\ Len(y) = 1 /\ y[1] = PageInfo(LastPage, STACK, TRUE)
        BY <3>3, SingletonList
    <3>5. \A i \in 1..ExeLast : x[i] = PageInfo(i, EXE, writable)
        OBVIOUS
    <3> QED
        BY <3>2, <3>4, <3>5
  <2>2. /\ pc'[p] = "user" /\ call'[p] = call[p] /\ supp_page_table'[p] = x \o y
        /\ mmaps'[p] = mmaps[p] /\ mapping'[p] = mapping[p]
        /\ \A va \in Pages : pagedir'[p][va] # "absent" => va <= ExeLast \/ va = LastPage
        /\ \A q \in Procs \ {p} : Untouched(q)
      BY <2>0 DEF Types, VTypeOK, Untouched, SamePlace
  <2> HIDE DEF x, y
  <2>3. /\ x \o y \in Seq(PageInfos) /\ ToSet(x \o y) = ToSet(x) \cup ToSet(y)
      BY <2>1, ConcatList
  <2>4. Types'
    <3>1. pagedir' \in [Procs -> [Pages -> Ptes]]
        BY <2>0 DEF Types, VTypeOK, Ptes, SetPage
    <3>2. supp_page_table' \in [Procs -> Seq(PageInfos)]
        BY <2>0, <2>3 DEF Types, VTypeOK, PageInfos
    <3>3. stack_min' \in [Procs -> Pages]
        BY <2>0, PageFacts DEF Types
    <3> QED
        BY <3>1, <3>2, <3>3, <2>0 DEF Types, VTypeOK, PageInfos
  <2>5. Places(p)' /\ Locked(p)'
      BY <2>0, <2>2 DEF Places, Removing, Locked
  <2>6. \A e \in ToSet(x \o y) : e.file \in {STACK, EXE}
    <3>1. \A e \in ToSet(x) : e.file = EXE
        BY <2>1, ListElements DEF PageInfo
    <3>2. \A e \in ToSet(y) : e.file = STACK
      <4>1. ToSet(y) = {y[1]}
          BY SingletonList DEF y
      <4> QED
          BY <4>1, <2>1 DEF PageInfo
    <3> QED
        BY <3>1, <3>2, <2>3
  <2>7. \A i \in 1..ExeLast : \E e \in ToSet(x \o y) : e.va = i
    <3>1. \A i \in 1..ExeLast : x[i] \in ToSet(x) /\ x[i].va = i
        BY <2>1, ListElements DEF PageInfo
    <3> QED
        BY <3>1, <2>3
  <2>8. \E e \in ToSet(x \o y) : e.va = LastPage
    <3>1. y[1] \in ToSet(y) /\ y[1].va = LastPage
        BY SingletonList DEF y, PageInfo
    <3> QED
        BY <3>1, <2>3
  <2>9. ToSet(mmaps[p]) = {} /\ DOMAIN mmaps[p] = {}
      BY <2>0 DEF Places, ToSet
  <2>10. Tables(p)'
    <3>1. ASSUME NEW va \in Pages, Present(p, va)' PROVE IsPage(p, va)'
      <4>1. \E e \in ToSet(x \o y) : e.va = va
        <5>1. va \in 1..ExeLast \/ va = LastPage
            BY <3>1, <2>2 DEF Present, Pages
        <5> QED
            BY <5>1, <2>7, <2>8
      <4> QED
          BY <4>1, <2>2 DEF IsPage, ToSet
    <3>2. ASSUME NEW i \in DOMAIN (x \o y), NEW j \in DOMAIN (x \o y), j < i,
                 (x \o y)[i].file # STACK
          PROVE  (x \o y)[j].va # (x \o y)[i].va
      <4>1. /\ DOMAIN (x \o y) = 1..ExeLast + 1
            /\ \A l \in 1..ExeLast + 1 : \/ l \in 1..ExeLast /\ (x \o y)[l] = x[l]
                                         \/ l - ExeLast \in 1..1 /\ (x \o y)[l] = y[l - ExeLast]
        <5>1. /\ DOMAIN (x \o y) = 1..Len(x) + Len(y)
              /\ \A l \in 1..Len(x) + Len(y) :
                     \/ l \in 1..Len(x) /\ (x \o y)[l] = x[l]
                     \/ l - Len(x) \in 1..Len(y) /\ (x \o y)[l] = y[l - Len(x)]
            BY <2>1, ConcatList
        <5> QED
            BY <5>1, <2>1
      <4>2. i \in 1..ExeLast /\ (x \o y)[i] = x[i]
        <5>1. \A l \in 1..1 : y[l].file = STACK
            BY <2>1 DEF PageInfo
        <5> QED
            BY <3>2, <4>1, <5>1
      <4>3. j \in 1..ExeLast
          BY <3>2, <4>1, <4>2, PageAssumption
      <4>4. (x \o y)[j] = x[j]
          BY <4>1, <4>3, PageAssumption
      <4> QED
          BY <3>2, <4>2, <4>3, <4>4, <2>1 DEF PageInfo
    <3>3. Listed(p)'
        BY <3>1, <2>2, <2>6 DEF Listed
    <3>4. Mapped(p)'
      <4>1. \A i, j \in DOMAIN supp_page_table'[p] :
                j < i /\ supp_page_table'[p][i].file # STACK =>
                    supp_page_table'[p][j].va # supp_page_table'[p][i].va
        <5> DEFINE z == x \o y
        <5>1. \A i, j \in DOMAIN z : j < i /\ z[i].file # STACK => z[j].va # z[i].va
            BY <3>2
        <5>2. supp_page_table'[p] = z
            BY <2>2
        <5> HIDE DEF z
        <5>3. ASSUME NEW i \in DOMAIN z, NEW j \in DOMAIN z, j < i, z[i].file # STACK
              PROVE  z[j].va # z[i].va
            BY <5>1, <5>3
        <5> QED
            BY <5>2, <5>3, SMTT(30)
      <4>2. ToSet(mmaps'[p]) = {} /\ DOMAIN mmaps'[p] = {}
          BY <2>2, <2>9
      <4> QED
          BY <4>1, <4>2 DEF Mapped
    <3> QED
        BY <3>3, <3>4 DEF Tables
  <2>11. Saved(p)
      BY <2>9 DEF Saved
  <2> QED
      BY <2>2, <2>4, <2>5, <2>10, <2>11, OneProc
<1> QED
    BY <1>1, <1>2 DEF Load

-----------------------------------------------------------------------------
(* Mappings come and go. *)

\* get_pi of an entry that is not the stack's returns that entry.
LEMMA FirstIsEntry ==
    ASSUME Types, NEW p \in Procs, Mapped(p), NEW i \in DOMAIN supp_page_table[p],
           supp_page_table[p][i].file # STACK
    PROVE  /\ IsPage(p, supp_page_table[p][i].va)
           /\ GetPi(p, supp_page_table[p][i].va) = supp_page_table[p][i]
<1>1. IsPage(p, supp_page_table[p][i].va)
    BY DEF IsPage
<1>2. PICK j \in DOMAIN supp_page_table[p] :
          /\ GetPi(p, supp_page_table[p][i].va) = supp_page_table[p][j]
          /\ supp_page_table[p][j].va = supp_page_table[p][i].va
          /\ j <= i
    BY <1>1, GetPiFirst
<1>3. j = i
    BY <1>2, TypeFacts DEF Mapped
<1> QED
    BY <1>1, <1>2, <1>3

LEMMA EntriesFinite ==
    ASSUME Types, NEW p \in Procs, NEW f
    PROVE  IsFiniteSet(Entries(p, f)) /\ Cardinality(Entries(p, f)) \in Nat
<1> DEFINE s == supp_page_table[p]
<1>1. DOMAIN s = 1..Len(s) /\ Len(s) \in Nat
    BY TypeFacts
<1>2. s \in Surjection(1..Len(s), ToSet(s))
  <2>1. s \in [1..Len(s) -> ToSet(s)]
    <3>1. s \in [1..Len(s) -> PageInfos]
        BY <1>1, TypeFacts
    <3> QED
        BY <3>1, <1>1 DEF ToSet
  <2> QED
      BY <2>1, <1>1 DEF Surjection, ToSet
<1>3. IsFiniteSet(1..Len(s))
    BY <1>1, FS_Interval
<1>4. IsFiniteSet(ToSet(s))
    BY <1>2, <1>3, FS_Surjection
<1> QED
    BY <1>4, FS_Subset, FS_CardinalityType DEF Entries

LEMMA NoEntry ==
    ASSUME Types, NEW p \in Procs, Entry(p) = 0
    PROVE  \A pi \in ToSet(supp_page_table[p]) : pi.file # mmaps[p][mapping[p]].file
<1> DEFINE s == supp_page_table[p]
           I == {j \in 1..Len(s) : s[j].file = mmaps[p][mapping[p]].file}
<1>1. DOMAIN s = 1..Len(s) /\ Len(s) \in Nat
    BY TypeFacts
<1>2. I = {}
  <2>1. I # {} => Entry(p) = Min(I)
      BY DEF Entry, SelectInSeq
  <2>2. I # {} => Min(I) \in I
    <3>1. I \subseteq Nat
        BY <1>1
    <3> QED
        BY <3>1, MinOfIndices
  <2> QED
      BY <2>1, <2>2
<1> QED
    BY <1>1, <1>2 DEF ToSet

LEMMA MunmapReturnOK ==
    ASSUME PagingInv, NEW p \in Procs, MunmapReturn(p)
    PROVE  StepOK
<1> USE DEF MunmapReturn, lockVars
<1> DEFINE k == mapping[p]
           s == mmaps[p]
           r == RemoveAt(s, k)
<1>0. /\ Types /\ Places(p) /\ Locked(p) /\ Listed(p) /\ Mapped(p) /\ NULL \notin Calls
      /\ "exit" \notin Calls /\ call[p] \in {NULL, "exit"} /\ k \in DOMAIN s
    BY TypeFacts DEF PagingInv, Tables, Calls, Places, Removing
<1>1. s \in Seq(Mappings) /\ Len(s) \in Nat /\ DOMAIN s = 1..Len(s) /\ k \in 1..Len(s)
    BY <1>0, TypeFacts
<1>2. /\ r \in Seq(Mappings) /\ DOMAIN r = 1..Len(s) - 1
      /\ \A a \in 1..Len(s) : a # k => s[a] \in ToSet(r)
  <2> HIDE DEF s, k
  <2> QED
      BY <1>1, RemoveAtList, RemoveAtOthers
<1>11. PICK P \in [1..Len(s) - 1 -> 1..Len(s)] :
            /\ \A j \in 1..Len(s) - 1 : P[j] # k /\ r[j] = s[P[j]]
            /\ \A j, l \in 1..Len(s) - 1 : j < l => P[j] < P[l]
  <2> HIDE DEF s, k
  <2>1. s \in Seq(Mappings) /\ k \in 1..Len(s)
      BY <1>1
  <2> HIDE DEF MunmapReturn
  <2> QED
      BY <2>1, RemoveAtOthers, ZenonT(30)
<1>3. /\ mmaps'[p] = r /\ call'[p] = call[p]
      /\ pc'[p] = (IF call[p] = "exit" THEN "closed" ELSE "user")
      /\ supp_page_table'[p] = supp_page_table[p] /\ pagedir'[p] = pagedir[p] /\ mapping'[p] = 0
      /\ \A q \in Procs \ {p} : Untouched(q)
    BY <1>0 DEF Types, VTypeOK, Untouched, SamePlace
<1>4. Types'
  <2>1. mmaps' \in [Procs -> Seq(Mappings)]
      BY <1>0, <1>2 DEF Types
  <2>2. \A q \in Procs : \A m \in ToSet(mmaps'[q]) : m.pos \in 0..FilePages
    <3>1. ASSUME NEW q \in Procs PROVE ToSet(mmaps'[q]) \subseteq Mappings
        BY <2>1, ListElements
    <3> QED
        BY <3>1 DEF Mappings
  <2>3. /\ pc' \in [Procs -> PlaceNames]
        /\ mapping' \in [Procs -> Int]
      BY <1>0 DEF Types, VTypeOK
  <2> QED
      BY <2>1, <2>2, <2>3, <1>0 DEF Types, VTypeOK
<1>5. Places(p)' /\ Locked(p)'
    BY <1>0, <1>3 DEF Places, Removing, Locked
<1> HIDE DEF r, k
<1>6. \A n \in ToSet(r) : n \in ToSet(s) /\ n.file # s[k].file
  <2>1. \A n \in ToSet(r) : \E a \in 1..Len(s) : a # k /\ n = s[a]
    <3>1. \A n \in ToSet(r) : \E j \in 1..Len(s) - 1 : n = r[j]
        BY <1>2 DEF ToSet
    <3>2. \A j \in 1..Len(s) - 1 : P[j] \in 1..Len(s) /\ P[j] # k /\ r[j] = s[P[j]]
        BY <1>11
    <3> QED
        BY <3>1, <3>2
  <2>2. \A a \in 1..Len(s) : a # k => s[a].file # s[k].file
      BY <1>0, <1>1 DEF Mapped
  <2>3. \A a \in 1..Len(s) : s[a] \in ToSet(s)
      BY <1>1 DEF ToSet
  <2> QED
      BY <2>1, <2>2, <2>3
<1>7. \A m \in ToSet(s) : m \in ToSet(r) \/ m = s[k]
    BY <1>1, <1>2 DEF ToSet
<1>8. Listed(p)'
  <2>1. \A va \in Pages : Present(p, va)' => IsPage(p, va)'
      BY <1>0, <1>3 DEF Listed, Present, IsPage
  <2>2. \A pi \in ToSet(supp_page_table[p]) : pi.file # s[k].file
      BY <1>0, NoEntry DEF k
  <2>3. \A pi \in ToSet(supp_page_table[p]) :
            pi.file \in {STACK, EXE} \/ \E m \in ToSet(r) : m.file = pi.file
      BY <1>0, <1>7, <2>2 DEF Listed
  <2> QED
      BY <1>3, <2>1, <2>3 DEF Listed
<1>9. Mapped(p)'
  <2>1. ASSUME NEW j \in 1..Len(s) - 1, NEW l \in 1..Len(s) - 1, j < l PROVE r[j].file # r[l].file
    <3>1. P[j] < P[l] /\ r[j] = s[P[j]] /\ r[l] = s[P[l]]
        BY <1>11, <2>1
    <3> QED
      <4>1. P[j] \in DOMAIN s /\ P[l] \in DOMAIN s
          BY <1>1, <1>11
      <4>2. P[j] # P[l]
          BY <3>1, <4>1, <1>1
      <4>3. s[P[j]].file # s[P[l]].file
          BY <4>1, <4>2, <1>0 DEF Mapped
      <4> QED
          BY <4>3, <3>1
  <2>2. \A j, l \in 1..Len(s) - 1 : j = l \/ j < l \/ l < j
      BY <1>1
  <2>3. \A j, l \in DOMAIN r : r[j].file = r[l].file => j = l
      BY <1>2, <2>1, <2>2
  <2>4. \A m \in ToSet(r) : m.file # EXE => m.pos + Cardinality(Entries(p, m.file)) <= FilePages
      BY <1>0, <1>6 DEF Mapped
  <2>5. \A m \in ToSet(r) : Entries(p, m.file)' = Entries(p, m.file)
      BY <1>3 DEF Entries
  <2> QED
      BY <1>0, <1>3, <2>3, <2>4, <2>5 DEF Mapped
<1>10. Saved(p)
    BY <1>0, <1>3, <1>6, <1>7, NothingLeaves DEF Present
<1> QED
    BY <1>3, <1>4, <1>5, <1>8, <1>9, <1>10, OneProc DEF Tables

LEMMA RemoveEntry ==
    ASSUME Types, NEW p \in Procs, NEW i \in 1..Len(supp_page_table[p])
    PROVE  \E P \in [1..Len(supp_page_table[p]) - 1 -> 1..Len(supp_page_table[p])] :
               /\ \A j \in 1..Len(supp_page_table[p]) - 1 :
                      /\ P[j] # i
                      /\ RemoveAt(supp_page_table[p], i)[j] = supp_page_table[p][P[j]]
               /\ \A j, l \in 1..Len(supp_page_table[p]) - 1 : j < l => P[j] < P[l]
<1> DEFINE s == supp_page_table[p]
<1>1. s \in Seq(PageInfos)
    BY TypeFacts
<1> HIDE DEF s
<1>2. i \in 1..Len(s)
    BY DEF s
<1>3. \E P \in [1..Len(s) - 1 -> 1..Len(s)] :
          /\ \A j \in 1..Len(s) - 1 : P[j] # i /\ RemoveAt(s, i)[j] = s[P[j]]
          /\ \A j, l \in 1..Len(s) - 1 : j < l => P[j] < P[l]
    BY <1>1, <1>2, RemoveAtOthers
<1> QED
    BY <1>3 DEF s

\* remove_file_mappings, one page: it is written as it goes if it is dirty, or was
\* loaded to be written (back).
LEMMA DropEntryOK ==
    ASSUME PagingInv, NEW p \in Procs, NEW written \in BOOLEAN, NEW back \in BOOLEAN,
           mapping[p] \in DOMAIN mmaps[p], Entry(p) # 0, call[p] \in {NULL, "exit"},
           DropEntry(p, written), ClearPage(p, EntryPage(p)),
           pc' = [pc EXCEPT ![p] = "unmap"], back <=> pc[p] = "write",
           {file_lock, file_lock'} \subseteq {p, NULL}, file_lock' # p, fault_lock # p,
           UNCHANGED <<call, arg, mapping, stack_min, fault_lock, panic>>,
           written => mmaps[p][mapping[p]].pos < FilePages,
           back => written /\ pagedir[p][EntryPage(p)] # "dirty",
           ~back /\ mmaps[p][mapping[p]].pos < FilePages =>
               (written <=> pagedir[p][EntryPage(p)] = "dirty")
    PROVE  StepOK
<1> DEFINE k == mapping[p]
           s == supp_page_table[p]
           M == mmaps[p]
           f == M[k].file
           i == Entry(p)
           va == EntryPage(p)
           dirty == pagedir[p][va] = "dirty"
           r == RemoveAt(s, i)
<1>0. /\ Types /\ Places(p) /\ Locked(p) /\ Listed(p) /\ Mapped(p)
      /\ NULL \notin Calls /\ "exit" \notin Calls
    BY TypeFacts DEF PagingInv, Tables, Calls
<1>1. /\ mmaps' = [mmaps EXCEPT ![p][k].pos = IF written THEN @ + 1 ELSE @]
      /\ pagedir' = [pagedir EXCEPT ![p][va] = IF IsDirty(p, va) THEN "absent_dirty" ELSE "absent"]
      /\ supp_page_table' = [supp_page_table EXCEPT ![p] = r]
    BY DEF DropEntry, ClearPage
<1>2. /\ M \in Seq(Mappings) /\ Len(M) \in Nat /\ DOMAIN M = 1..Len(M) /\ k \in 1..Len(M)
      /\ \A l \in 1..Len(M) : M[l] \in Mappings
      /\ s \in Seq(PageInfos) /\ Len(s) \in Nat /\ DOMAIN s = 1..Len(s)
      /\ \A j \in 1..Len(s) : s[j] \in PageInfos
    BY <1>0, TypeFacts
<1>3. i \in 1..Len(s) /\ s[i].file = f /\ va = s[i].va
    BY <1>0, EntryIs DEF EntryPage
<1> HIDE DEF k, i, r, va
<1>4. /\ M[k] \in Mappings /\ f \in EXE..MaxMaps /\ f # STACK /\ va \in Pages
      /\ M[k].pos \in 0..FilePages
  <2>1. STACK \notin EXE..MaxMaps
      BY DEF EXE, STACK
  <2>2. M[k] \in Mappings /\ s[i] \in PageInfos
      BY <1>2, <1>3
  <2> QED
      BY <2>1, <2>2, <1>3 DEF Mappings, PageInfos
<1>25. \A l \in 1..Len(M) : M[l].pos \in Nat
  <2>1. \A m \in Mappings : m.pos \in Nat
      BY PageAssumption DEF Mappings
  <2> QED
      BY <2>1, <1>2
<1>5. /\ r \in Seq(PageInfos) /\ DOMAIN r = 1..Len(s) - 1
      /\ \A a \in 1..Len(s) : a # i => s[a] \in ToSet(r)
  <2> HIDE DEF s
  <2> QED
      BY <1>2, <1>3, RemoveAtList, RemoveAtOthers DEF r
<1>6. PICK P \in [1..Len(s) - 1 -> 1..Len(s)] :
           /\ \A j \in 1..Len(s) - 1 : P[j] # i /\ r[j] = s[P[j]]
           /\ \A j, l \in 1..Len(s) - 1 : j < l => P[j] < P[l]
  <2> HIDE DEF s
  <2>1. s \in Seq(PageInfos) /\ i \in 1..Len(s)
      BY <1>2, <1>3
  <2>2. Types /\ i \in 1..Len(supp_page_table[p])
      BY <1>0, <2>1 DEF s
  <2>3. \E Q \in [1..Len(supp_page_table[p]) - 1 -> 1..Len(supp_page_table[p])] :
            /\ \A j \in 1..Len(supp_page_table[p]) - 1 :
                   /\ Q[j] # i
                   /\ RemoveAt(supp_page_table[p], i)[j] = supp_page_table[p][Q[j]]
            /\ \A j, l \in 1..Len(supp_page_table[p]) - 1 : j < l => Q[j] < Q[l]
      BY <2>2, RemoveEntry
  <2> QED
      BY <2>3 DEF r, s
<1>7. /\ supp_page_table'[p] = r
      /\ pagedir'[p][va] \in {"absent", "absent_dirty"}
      /\ \A v \in Pages \ {va} : pagedir'[p][v] = pagedir[p][v]
      /\ pagedir' \in [Procs -> [Pages -> Ptes]]
      /\ pc'[p] = "unmap" /\ mapping'[p] = k /\ call'[p] = call[p]
      /\ \A q \in Procs \ {p} : supp_page_table'[q] = supp_page_table[q] /\ pagedir'[q] = pagedir[q]
      /\ \A q \in Procs \ {p} : SamePlace(q)
    BY <1>0, <1>1, <1>4 DEF Types, VTypeOK, Ptes, SamePlace, k
<1>8. PICK N : /\ mmaps'[p] = N /\ N \in Seq(Mappings) /\ DOMAIN N = DOMAIN M
               /\ \A l \in DOMAIN M : N[l].file = M[l].file /\ (l # k => N[l] = M[l])
               /\ N[k].pos = IF written THEN M[k].pos + 1 ELSE M[k].pos
  <2> DEFINE e == [M[k] EXCEPT !.pos = IF written THEN @ + 1 ELSE @]
             N == [M EXCEPT ![k] = e]
  <2>1. e \in Mappings /\ e.file = M[k].file /\ e.pos = IF written THEN M[k].pos + 1 ELSE M[k].pos
    <3>1. (IF written THEN M[k].pos + 1 ELSE M[k].pos) \in 0..FilePages
      <4>1. written => M[k].pos < FilePages
          BY DEF k
      <4> QED
          BY <4>1, <1>4, PageAssumption
    <3> QED
        BY <3>1, <1>4 DEF Mappings
  <2>2. mmaps'[p] = N
      BY <1>0, <1>1 DEF Types
  <2> HIDE DEF e
  <2>3. N \in Seq(Mappings)
      BY <1>2, <2>1, ExceptSeq
  <2>4. DOMAIN N = DOMAIN M /\ N[k] = e /\ \A l \in DOMAIN M : l # k => N[l] = M[l]
      BY <1>2
  <2> HIDE DEF N
  <2> QED
      BY <2>1, <2>2, <2>3, <2>4, <1>2
<1>9. \A q \in Procs \ {p} : mmaps'[q] = mmaps[q]
    BY <1>0, <1>1 DEF Types
<1>10. Types'
  <2>1. mmaps' \in [Procs -> Seq(Mappings)]
      BY <1>0, <1>1, <1>8, <1>9 DEF Types
  <2>2. \A q \in Procs : \A m \in ToSet(mmaps'[q]) : m.pos \in 0..FilePages
    <3>1. ASSUME NEW q \in Procs PROVE ToSet(mmaps'[q]) \subseteq Mappings
        BY <2>1, ListElements
    <3> QED
        BY <3>1 DEF Mappings
  <2>3. supp_page_table' \in [Procs -> Seq(PageInfos)]
      BY <1>0, <1>1, <1>5 DEF Types, VTypeOK, PageInfos
  <2>4. pc' \in [Procs -> PlaceNames] /\ {fault_lock', file_lock'} \subseteq Procs \cup {NULL}
      BY <1>0 DEF Types, VTypeOK
  <2> QED
      BY <2>1, <2>2, <2>3, <2>4, <1>0, <1>7 DEF Types, VTypeOK, PageInfos
<1>11. Places(p)' /\ Locked(p)'
    BY <1>0, <1>2, <1>7, <1>8 DEF Places, Removing, Locked
<1>12. \A e \in ToSet(r) : \E j \in 1..Len(s) : j # i /\ e = s[j]
    BY <1>5, <1>6 DEF ToSet
<1>13. Listed(p)'
  <2>1. ASSUME NEW v \in Pages, Present(p, v)' PROVE IsPage(p, v)'
    <3>1. v # va /\ Present(p, v)
        BY <2>1, <1>7 DEF Present
    <3>2. PICK j \in 1..Len(s) : s[j].va = v
        BY <3>1, <1>0, <1>2 DEF Listed, IsPage
    <3>3. j # i
        BY <3>1, <3>2, <1>3
    <3>4. s[j] \in ToSet(r)
        BY <3>2, <3>3, <1>5
    <3> QED
        BY <3>2, <3>4, <1>7 DEF IsPage, ToSet
  <2>2. \A e \in ToSet(r) : e \in ToSet(s)
      BY <1>2, <1>12 DEF ToSet
  <2>3. \A m \in ToSet(M) : \E n \in ToSet(N) : n.file = m.file
      BY <1>8 DEF ToSet
  <2> QED
      BY <2>1, <2>2, <2>3, <1>0, <1>7, <1>8 DEF Listed
\* The entry that goes is the only one of its kind.
<1>14. s[i] \notin ToSet(r)
  <2>1. \A j \in 1..Len(s) : j < i => s[j].va # s[i].va
      BY <1>0, <1>2, <1>3, <1>4 DEF Mapped
  <2>2. \A j \in 1..Len(s) : i < j /\ s[j].file = f => s[j].va # s[i].va
      BY <1>0, <1>2, <1>3, <1>4 DEF Mapped
  <2>3. \A j \in 1..Len(s) : j # i => j < i \/ i < j
      BY <1>3
  <2>4. \A j \in 1..Len(s) : j # i => s[j] # s[i]
      BY <2>1, <2>2, <2>3, <1>3
  <2> QED
      BY <2>4, <1>12
<1> DEFINE E(g) == {e \in ToSet(r) : e.file = g}
<1>15. E(f) = Entries(p, f) \ {s[i]}
  <2>1. \A e : e \in ToSet(r) <=> e \in ToSet(s) /\ e # s[i]
    <3>1. \A e \in ToSet(s) : \E j \in 1..Len(s) : e = s[j]
        BY <1>2 DEF ToSet
    <3>2. \A e \in ToSet(s) : e # s[i] => e \in ToSet(r)
        BY <3>1, <1>5
    <3>3. \A e \in ToSet(r) : e \in ToSet(s)
        BY <1>2, <1>12 DEF ToSet
    <3> QED
        BY <3>2, <3>3, <1>14
  <2> QED
      BY <2>1 DEF Entries
<1>16. \A g : E(g) \subseteq Entries(p, g)
  <2>1. ToSet(r) \subseteq ToSet(s)
      BY <1>2, <1>12 DEF ToSet
  <2> QED
      BY <2>1 DEF Entries
<1>17. s[i] \in Entries(p, f)
    BY <1>2, <1>3 DEF Entries, ToSet
<1>21. \A g : IsFiniteSet(Entries(p, g)) /\ Cardinality(Entries(p, g)) \in Nat
    BY <1>0, EntriesFinite
<1>18. f # EXE => M[k].pos < FilePages
  <2>1. Cardinality(Entries(p, f)) \in Nat /\ Cardinality(Entries(p, f)) # 0
      BY <1>17, <1>21, FS_EmptySet
  <2>2. f # EXE => M[k].pos + Cardinality(Entries(p, f)) <= FilePages
      BY <1>0, <1>2 DEF Mapped, ToSet
  <2> QED
      BY <2>1, <2>2, <1>4, PageAssumption
<1>19. Mapped(p)'
  <2>1. \A a, b \in DOMAIN N : N[a].file = N[b].file => a = b
      BY <1>0, <1>8 DEF Mapped
  <2>2. ASSUME NEW a \in DOMAIN r, NEW b \in DOMAIN r, b < a, r[a].file # STACK
        PROVE  r[b].va # r[a].va
    <3>1. P[b] < P[a] /\ r[b] = s[P[b]] /\ r[a] = s[P[a]] /\ P[a] \in DOMAIN s /\ P[b] \in DOMAIN s
        BY <2>2, <1>2, <1>5, <1>6
    <3> QED
        BY <2>2, <3>1, <1>0 DEF Mapped
  <2>3. ASSUME NEW l \in DOMAIN M, N[l].file # EXE
        PROVE  N[l].pos + Cardinality(E(N[l].file)) <= FilePages
    <3>1. M[l].pos + Cardinality(Entries(p, M[l].file)) <= FilePages /\ N[l].file = M[l].file
        BY <2>3, <1>0, <1>2, <1>8 DEF Mapped, ToSet
    <3>2. M[l].pos \in Nat
        BY <1>25
    <3> HIDE DEF E, s, M
    <3>3. CASE l # k
      <4>1. Cardinality(E(M[l].file)) \in Nat
            /\ Cardinality(E(M[l].file)) <= Cardinality(Entries(p, M[l].file))
          BY <1>16, <1>21, FS_Subset, FS_CardinalityType
      <4> QED
          BY <3>1, <3>2, <3>3, <4>1, <1>8, <1>21, PageAssumption
    <3>4. CASE l = k
      <4>1. Cardinality(E(f)) = Cardinality(Entries(p, f)) - 1
        <5> DEFINE D == Entries(p, f)
        <5>1. IsFiniteSet(D) /\ s[i] \in D /\ E(f) = D \ {s[i]}
            BY <1>15, <1>17, <1>21
        <5> HIDE DEF D
        <5>2. Cardinality(E(f)) = Cardinality(D) - 1
            BY <5>1, FS_RemoveElement
        <5> QED
            BY <5>2 DEF D
      <4>2. N[k].pos = M[k].pos \/ N[k].pos = M[k].pos + 1
          BY <1>8
      <4>3. Cardinality(Entries(p, f)) \in Nat
          BY <1>21
      <4> QED
          BY <3>1, <3>2, <3>4, <4>1, <4>2, <4>3, PageAssumption DEF M
    <3> QED
        BY <3>3, <3>4
  <2>4. ASSUME NEW n \in ToSet(N), n.file # EXE
        PROVE  n.pos + Cardinality(E(n.file)) <= FilePages
    <3>1. PICK l \in DOMAIN M : n = N[l]
        BY <2>4, <1>8 DEF ToSet
    <3> HIDE DEF E
    <3> QED
        BY <2>3, <2>4, <3>1
  <2>5. \A n \in ToSet(N) : n.file # EXE =>
            n.pos + Cardinality({e \in ToSet(supp_page_table'[p]) : e.file = n.file}) <= FilePages
      BY <2>4, <1>7
  <2> QED
      BY <2>1, <2>2, <2>5, <1>7, <1>8 DEF Mapped, Entries
<1>20. Saved(p)
  <2>1. IsPage(p, va) /\ GetPi(p, va) = s[i]
      BY <1>0, <1>2, <1>3, <1>4, FirstIsEntry
  <2>2. ASSUME NEW l \in DOMAIN M
        PROVE  Leaving(p, M[l]) = {v \in Pages : v = va /\ dirty /\ f = M[l].file}
    <3>1. \A v \in Pages : pagedir[p][v] = "dirty" /\ ~Present(p, v)' <=> v = va /\ dirty
        BY <1>4, <1>7 DEF Present
    <3> QED
        BY <3>1, <2>1, <1>3 DEF Leaving
  <2>3. ASSUME NEW l \in DOMAIN M
        PROVE  Reloaded(p, M[l]) = IF back /\ l = k THEN 1 ELSE 0
    <3>1. M[l] = M[k] <=> l = k
        BY <1>0, <1>2 DEF Mapped
    <3> QED
        BY <3>1, <1>7 DEF Reloaded, k
  <2>4. ASSUME NEW l \in DOMAIN M, M[l].file # EXE
        PROVE  /\ N[l].file = M[l].file
               /\ N[l].pos = M[l].pos + Cardinality(Leaving(p, M[l])) + Reloaded(p, M[l])
    <3>1. M[l].pos \in Nat
        BY <1>25
    <3>2. Cardinality({}) = 0 /\ Cardinality({va}) = 1
        BY FS_EmptySet, FS_Singleton
    <3>3. CASE l # k
      <4>1. Leaving(p, M[l]) = {} /\ Reloaded(p, M[l]) = 0
          BY <2>2, <2>3, <3>3, <1>0, <1>2 DEF Mapped
      <4> QED
          BY <3>1, <3>2, <3>3, <4>1, <1>8
    <3>4. CASE l = k /\ back
      <4>1. Leaving(p, M[l]) = {} /\ Reloaded(p, M[l]) = 1
          BY <2>2, <2>3, <3>4 DEF va
      <4>2. Cardinality(Leaving(p, M[l])) = 0
          BY <4>1, <3>2
      <4> QED
          BY <3>1, <3>4, <4>1, <4>2, <1>8
    <3>5. CASE l = k /\ ~back /\ dirty
      <4>1. Leaving(p, M[l]) = {va} /\ Reloaded(p, M[l]) = 0
          BY <2>2, <2>3, <3>5, <1>4
      <4>2. written
          BY <2>4, <3>5, <1>18 DEF k, va
      <4>3. Cardinality(Leaving(p, M[l])) = 1
          BY <4>1, <3>2
      <4> QED
          BY <3>1, <3>5, <4>1, <4>2, <4>3, <1>8
    <3>6. CASE l = k /\ ~back /\ ~dirty
      <4>1. Leaving(p, M[l]) = {} /\ Reloaded(p, M[l]) = 0
          BY <2>2, <2>3, <3>6
      <4>2. ~written
          BY <2>4, <3>6, <1>18 DEF k, va
      <4>3. Cardinality(Leaving(p, M[l])) = 0
          BY <4>1, <3>2
      <4> QED
          BY <3>1, <3>6, <4>1, <4>2, <4>3, <1>8
    <3> QED
        BY <3>3, <3>4, <3>5, <3>6
  <2>5. \A m \in ToSet(M) : m.file # EXE =>
            \E n \in ToSet(N) :
                n.file = m.file /\ n.pos = m.pos + Cardinality(Leaving(p, m)) + Reloaded(p, m)
      BY <2>4, <1>8 DEF ToSet
  <2> QED
      BY <2>5, <1>8 DEF Saved
<1>22. \A q \in Procs \ {p} : Untouched(q)
    BY <1>7, <1>9 DEF Untouched
<1>23. Tables(p)'
    BY <1>13, <1>19 DEF Tables
<1> QED
    BY <1>10, <1>11, <1>20, <1>22, <1>23, OneProc

LEMMA RemovePageOK ==
    ASSUME PagingInv, NEW p \in Procs, RemovePage(p)
    PROVE  StepOK
<1> USE DEF RemovePage, procVars, lockVars
<1>0. Types /\ Places(p) /\ Locked(p) /\ NULL \notin Procs
    BY NullAssumption DEF PagingInv
<1>1. /\ mapping[p] \in DOMAIN mmaps[p] /\ call[p] \in {NULL, "exit"} /\ fault_lock # p
      /\ pc' = [pc EXCEPT ![p] = "unmap"]
    BY <1>0 DEF Types, VTypeOK, Places, Removing, Locked
<1>2. /\ ToWrite(p) \in BOOLEAN /\ FALSE \in BOOLEAN
      /\ ToWrite(p) => mmaps[p][mapping[p]].pos < FilePages
      /\ mmaps[p][mapping[p]].pos < FilePages =>
             (ToWrite(p) <=> pagedir[p][EntryPage(p)] = "dirty")
    BY DEF ToWrite, IsDirty, Present
<1>3. /\ Entry(p) # 0 /\ DropEntry(p, ToWrite(p)) /\ ClearPage(p, EntryPage(p))
      /\ pc[p] # "write" /\ {file_lock, file_lock'} \subseteq {p, NULL} /\ file_lock' # p
      /\ UNCHANGED <<call, arg, mapping, stack_min, fault_lock, panic>>
    BY <1>0
<1> HIDE DEF RemovePage
<1> QED
    BY <1>1, <1>2, <1>3, DropEntryOK

\* file_write faults on a page that is not present, and goes on when it is.
LEMMA WriteFaultOK ==
    ASSUME PagingInv, NEW p \in Procs, WriteFault(p)
    PROVE  StepOK
<1> USE DEF WriteFault
<1>0. Types /\ Places(p) /\ Locked(p) /\ NULL \notin Calls /\ "exit" \notin Calls
    BY TypeFacts DEF PagingInv, Calls
<1>1. /\ mapping[p] \in DOMAIN mmaps[p] /\ call[p] \in {NULL, "exit"} /\ mapping[p] # 0
      /\ Entry(p) # 0 /\ {file_lock, file_lock'} \subseteq {p, NULL}
      /\ pagedir[p][EntryPage(p)] # "dirty" /\ mmaps[p][mapping[p]].pos < FilePages
    BY <1>0 DEF Places, Removing, Locked, ToWrite, Present
<1>2. EntryPage(p) \in Pages /\ EntryPage(p) \in Int /\ IsPage(p, EntryPage(p))
    BY <1>0, <1>1, EntryIs, PageFacts
<1>3. /\ pc'[p] = "load" /\ arg'[p] = EntryPage(p) /\ fault_lock' # p /\ file_lock' = p
      /\ {fault_lock', file_lock'} \subseteq Procs \cup {NULL}
    BY <1>0 DEF Types, VTypeOK, Locked
<1>4. Entry(p)' = Entry(p) /\ EntryPage(p)' = EntryPage(p)
    BY SameEntry DEF EntryPage, tableVars
<1>5. Removing(p)'
    BY <1>1, <1>3, <1>4 DEF Removing, tableVars
<1>6. Places(p)' /\ Locked(p)'
    BY <1>0, <1>1, <1>2, <1>3, <1>5 DEF Places, Locked, IsPage, tableVars
<1>7. /\ call' = [call EXCEPT ![p] = call[p]] /\ call[p] \in Calls \cup {"exit", NULL}
      /\ mapping' = [mapping EXCEPT ![p] = mapping[p]] /\ mapping[p] \in Int
    BY <1>0 DEF Types, VTypeOK
<1>8. /\ "load" \in PlaceNames /\ UNCHANGED <<tableVars, panic>> /\ fault_lock' = fault_lock
      /\ pc' = [pc EXCEPT ![p] = "load"] /\ arg' = [arg EXCEPT ![p] = EntryPage(p)]
      /\ pc[p] = "write" => "load" # "unmap"
    OBVIOUS
<1> HIDE DEF WriteFault
<1> QED
    BY <1>1, <1>2, <1>3, <1>6, <1>7, <1>8, PlaceOK

LEMMA WriteBackOK ==
    ASSUME PagingInv, NEW p \in Procs, WriteBack(p)
    PROVE  StepOK
<1> USE DEF WriteBack
<1>0. Types /\ Places(p) /\ Locked(p) /\ NULL \notin Procs
    BY NullAssumption DEF PagingInv
<1>1. /\ mapping[p] \in DOMAIN mmaps[p] /\ call[p] \in {NULL, "exit"} /\ fault_lock # p
      /\ Entry(p) # 0 /\ pagedir[p][EntryPage(p)] # "dirty" /\ file_lock = p
      /\ mmaps[p][mapping[p]].pos < FilePages
    BY <1>0 DEF Places, Removing, Locked
<1>2. /\ DropEntry(p, TRUE) /\ ClearPage(p, EntryPage(p)) /\ TRUE \in BOOLEAN
      /\ pc' = [pc EXCEPT ![p] = "unmap"] /\ pc[p] = "write"
      /\ UNCHANGED <<call, arg, mapping, stack_min, fault_lock, panic>>
    OBVIOUS
<1>3. {file_lock, file_lock'} \subseteq {p, NULL} /\ file_lock' # p
    BY <1>0, <1>1
<1> HIDE DEF WriteBack
<1> QED
    BY <1>1, <1>2, <1>3, DropEntryOK

\* The pages of a mapping are entered.
LEMMA ProcessMmapOK ==
    ASSUME PagingInv, NEW p \in Procs, NEW va \in Pages, NEW f \in EXE..MaxMaps,
           ProcessMmap(p, va, f)
    PROVE  StepOK
<1> DEFINE s == supp_page_table[p]
           M == mmaps[p]
           t == [i \in 1..FilePages |-> PageInfo(va + i - 1, f, TRUE)]
           e == [file |-> f, pos |-> 0]
           z == s \o t
           N == Append(M, e)
<1>1. CASE Panic
    BY <1>1, PanicOK
<1>2. CASE /\ {i \in Offsets : IsPage(p, va + i)} = {}
           /\ supp_page_table' = [supp_page_table EXCEPT ![p] = z]
           /\ mmaps' = [mmaps EXCEPT ![p] = N]
           /\ UNCHANGED <<procVars, stack_min, pagedir, lockVars, panic>>
  <2>0. /\ Types /\ Places(p) /\ Locked(p) /\ Listed(p) /\ Mapped(p)
        /\ pc[p] = "user" /\ va + FilePages - 1 <= LastPage
        /\ \A m \in ToSet(M) : m.file # f
      BY DEF PagingInv, Tables, ProcessMmap
  <2>1. /\ M \in Seq(Mappings) /\ Len(M) \in Nat /\ DOMAIN M = 1..Len(M)
        /\ \A l \in 1..Len(M) : M[l] \in Mappings
        /\ s \in Seq(PageInfos) /\ Len(s) \in Nat /\ DOMAIN s = 1..Len(s)
      BY <2>0, TypeFacts
  <2>2. f \in STACK..MaxMaps /\ f # STACK /\ STACK \notin EXE..MaxMaps
      BY DEF EXE, STACK
  <2>3. /\ t \in Seq(PageInfos) /\ Len(t) = FilePages /\ FilePages \in Nat
        /\ \A i \in 1..FilePages : t[i].va = va + i - 1 /\ t[i].file = f
    <3>1. \A i \in 1..FilePages : va + i - 1 \in Pages
        BY <2>0, PageAssumption DEF Pages
    <3>2. \A i \in 1..FilePages : PageInfo(va + i - 1, f, TRUE) \in PageInfos
        BY <2>2, <3>1 DEF PageInfo, PageInfos
    <3>3. FilePages \in Nat
        BY PageAssumption
    <3> QED
        BY <3>2, <3>3 DEF PageInfo
  <2>4. e \in Mappings /\ e.file = f /\ e.pos = 0
      BY PageAssumption DEF Mappings
  <2>5. \A i \in 1..FilePages : \A j \in 1..Len(s) : s[j].va # va + i - 1
    <3>1. \A i \in 1..FilePages : i - 1 \in Offsets /\ va + (i - 1) = va + i - 1
        BY PageAssumption DEF Offsets, Pages
    <3>2. \A o \in Offsets : ~IsPage(p, va + o)
        BY <1>2
    <3>3. \A i \in 1..FilePages : ~IsPage(p, va + i - 1)
        BY <3>1, <3>2
    <3> QED
        BY <3>3, <2>1 DEF IsPage
  <2> HIDE DEF t, e
  <2>6. /\ z \in Seq(PageInfos) /\ DOMAIN z = 1..Len(s) + FilePages
        /\ \A i \in 1..Len(s) + FilePages :
               \/ i \in 1..Len(s) /\ z[i] = s[i]
               \/ i - Len(s) \in 1..FilePages /\ z[i] = t[i - Len(s)]
        /\ ToSet(z) = ToSet(s) \cup ToSet(t)
    <3> HIDE DEF s
    <3>0. s \in Seq(PageInfos) /\ t \in Seq(PageInfos)
        BY <2>1, <2>3
    <3>1. /\ z \in Seq(PageInfos) /\ DOMAIN z = 1..Len(s) + Len(t)
          /\ \A i \in 1..Len(s) + Len(t) :
                 \/ i \in 1..Len(s) /\ z[i] = s[i]
                 \/ i - Len(s) \in 1..Len(t) /\ z[i] = t[i - Len(s)]
          /\ ToSet(z) = ToSet(s) \cup ToSet(t)
        BY <3>0, ConcatList
    <3> QED
        BY <3>1, <2>3
  <2>7. /\ N \in Seq(Mappings) /\ ToSet(N) = ToSet(M) \cup {e}
        /\ DOMAIN N = 1..Len(M) + 1
        /\ \A l \in 1..Len(M) : N[l] = M[l]
        /\ N[Len(M) + 1] = e
    <3> HIDE DEF M
    <3> QED
        BY <2>1, <2>4, AppendList, AppendProperties, LenProperties
  <2> HIDE DEF z, N
  <2>8. /\ supp_page_table'[p] = z /\ mmaps'[p] = N /\ pagedir' = pagedir
        /\ UNCHANGED <<pc, call, arg, mapping, fault_lock, file_lock, stack_min, panic>>
        /\ \A q \in Procs \ {p} : Untouched(q)
      BY <1>2, <2>0 DEF Types, VTypeOK, procVars, lockVars, Untouched, SamePlace
  <2>9. Types'
    <3>1. mmaps' \in [Procs -> Seq(Mappings)]
        BY <1>2, <2>0, <2>7 DEF Types
    <3>2. \A q \in Procs : \A m \in ToSet(mmaps'[q]) : m.pos \in 0..FilePages
      <4>1. ASSUME NEW q \in Procs PROVE ToSet(mmaps'[q]) \subseteq Mappings
          BY <3>1, ListElements
      <4> QED
          BY <4>1 DEF Mappings
    <3>3. supp_page_table' \in [Procs -> Seq(PageInfos)]
        BY <1>2, <2>0, <2>6 DEF Types, VTypeOK, PageInfos
    <3> QED
        BY <3>1, <3>2, <3>3, <2>0, <2>8 DEF Types, VTypeOK, PageInfos
  <2>10. Places(p)' /\ Locked(p)'
      BY <2>0, <2>8 DEF Places, Removing, Locked
  <2>11. \A x \in ToSet(t) : x.file = f
      BY <2>3, ListElements
  <2>12. Listed(p)'
    <3>1. ASSUME NEW v \in Pages, Present(p, v)' PROVE IsPage(p, v)'
      <4>1. PICK j \in 1..Len(s) : s[j].va = v
          BY <3>1, <2>0, <2>1, <2>8 DEF Listed, IsPage, Present
      <4>2. s[j] \in ToSet(z)
          BY <2>1, <2>6 DEF ToSet
      <4> QED
          BY <4>1, <4>2, <2>8 DEF IsPage, ToSet
    <3> QED
        BY <3>1, <2>0, <2>4, <2>6, <2>7, <2>8, <2>11 DEF Listed
  <2>13. ASSUME NEW i \in DOMAIN z, NEW j \in DOMAIN z, j < i, z[i].file # STACK
         PROVE  z[j].va # z[i].va
    <3>1. CASE i \in 1..Len(s) /\ z[i] = s[i]
      <4>1. j \in 1..Len(s) /\ z[j] = s[j]
        <5>1. j \in 1..Len(s) /\ ~(j - Len(s) \in 1..FilePages)
            BY <2>13, <3>1, <2>1, <2>6
        <5> QED
            BY <5>1, <2>6
      <4> QED
          BY <2>13, <3>1, <4>1, <2>0, <2>1 DEF Mapped
    <3>2. CASE i - Len(s) \in 1..FilePages /\ z[i] = t[i - Len(s)]
      <4>1. z[i].va = va + (i - Len(s)) - 1
          BY <3>2, <2>3
      <4>2. CASE j \in 1..Len(s) /\ z[j] = s[j]
          BY <3>2, <4>1, <4>2, <2>5
      <4>3. CASE j - Len(s) \in 1..FilePages /\ z[j] = t[j - Len(s)]
        <5>1. z[j].va = va + (j - Len(s)) - 1
            BY <4>3, <2>3
        <5>2. va \in Int /\ i \in Int /\ j \in Int /\ Len(s) \in Int
            BY <2>1, <2>6, PageFacts
        <5> HIDE DEF s
        <5> QED
            BY <2>13, <4>1, <5>1, <5>2
      <4> QED
          BY <4>2, <4>3, <2>6
    <3> QED
        BY <3>1, <3>2, <2>6
  <2>14. \A i, j \in DOMAIN N : N[i].file = N[j].file => i = j
    <3>1. \A i \in 1..Len(M) : N[i].file # f /\ N[i] = M[i]
        BY <2>0, <2>1, <2>7 DEF ToSet
    <3>2. \A i \in DOMAIN N : i \in 1..Len(M) \/ i = Len(M) + 1
        BY <2>1, <2>7
    <3>3. N[Len(M) + 1].file = f
        BY <2>4, <2>7
    <3> QED
        BY <3>1, <3>2, <3>3, <2>0, <2>1 DEF Mapped
  <2> DEFINE E(g) == {x \in ToSet(z) : x.file = g}
  <2>15. ASSUME NEW m \in ToSet(M) PROVE E(m.file) = Entries(p, m.file)
      BY <2>0, <2>6, <2>11 DEF Entries
  <2>16. f # EXE => Cardinality(E(f)) \in Nat /\ Cardinality(E(f)) <= FilePages
    <3>1. f # EXE => E(f) = ToSet(t)
      <4>1. f # EXE => \A x \in ToSet(s) : x.file # f
          BY <2>0, <2>2 DEF Listed
      <4> QED
          BY <4>1, <2>6, <2>11
    <3>2. t \in Surjection(1..FilePages, ToSet(t))
      <4>1. DOMAIN t = 1..FilePages /\ t = [i \in 1..FilePages |-> t[i]]
          BY DEF t
      <4>2. \A i \in 1..FilePages : t[i] \in ToSet(t)
          BY <4>1 DEF ToSet
      <4> QED
          BY <4>1, <4>2 DEF Surjection, ToSet
    <3>3. IsFiniteSet(1..FilePages) /\ Cardinality(1..FilePages) = FilePages
        BY <2>3, FS_Interval
    <3>4. Cardinality(ToSet(t)) \in Nat /\ Cardinality(ToSet(t)) <= FilePages
        BY <3>2, <3>3, FS_Surjection, FS_CardinalityType
    <3> QED
        BY <3>1, <3>4
  <2>17. \A m \in ToSet(N) : m.file # EXE => m.pos + Cardinality(E(m.file)) <= FilePages
    <3>1. ASSUME NEW m \in ToSet(M), m.file # EXE
          PROVE  m.pos + Cardinality(E(m.file)) <= FilePages
      <4> HIDE DEF E
      <4> QED
          BY <3>1, <2>0, <2>15 DEF Mapped
    <3>2. f # EXE => e.pos + Cardinality(E(e.file)) <= FilePages
      <4> HIDE DEF E
      <4> QED
          BY <2>3, <2>4, <2>16
    <3> HIDE DEF E
    <3> QED
        BY <3>1, <3>2, <2>4, <2>7
  <2>18. Mapped(p)'
    <3>1. \A m \in ToSet(N) : m.file # EXE =>
              m.pos + Cardinality({x \in ToSet(supp_page_table'[p]) : x.file = m.file}) <= FilePages
        BY <2>17, <2>8
    <3> QED
        BY <3>1, <2>8, <2>13, <2>14 DEF Mapped, Entries
  <2>19. Saved(p)
      BY <2>0, <2>7, <2>8, NothingLeaves DEF Present
  <2>20. Tables(p)'
      BY <2>12, <2>18 DEF Tables
  <2> QED
      BY <2>8, <2>9, <2>10, <2>19, <2>20, OneProc
<1> QED
    BY <1>1, <1>2 DEF ProcessMmap


-----------------------------------------------------------------------------
(* The specification. *)

LEMMA UserStepOK ==
    ASSUME PagingInv, NEW p \in Procs, UserStep(p)
    PROVE  StepOK
<1>1. Touched \subseteq Pages /\ Writable \subseteq BOOLEAN
    BY PageAssumption
<1>2. ASSUME NEW va \in Touched, NEW write \in BOOLEAN, UserFault(p, va, write) PROVE StepOK
    BY <1>1, <1>2, PageFaultOK DEF UserFault
<1> QED
    BY <1>1, <1>2, UserWriteOK, CallOK, ProcessMmapOK, ProcessMunmapOK, ExitOK, LoadOK DEF UserStep

LEMMA KernelStepOK ==
    ASSUME PagingInv, NEW p \in Procs, KernelStep(p)
    PROVE  StepOK
<1>1. ASSUME CopyFault(p) PROVE StepOK
  <2>1. pc[p] = "copy" /\ arg[p] \in Pages /\ PageFault(p, arg[p])
      BY <1>1 DEF CopyFault, PagingInv, Places
  <2> QED
      BY <2>1, PageFaultOK
<1> QED
    BY <1>1, LoadPageOK, FillPageOK, CopyOK, RemovePageOK, WriteFaultOK, WriteBackOK,
       MunmapReturnOK, ExitCloseOK, ExitUnmapOK, PagedirDestroyOK DEF KernelStep

LEMMA NextOK ==
    ASSUME PagingInv, [Next]_vars
    PROVE  PagingInv' /\ [~panic' => \A p \in Procs : Saved(p)]_vars
<1>1. CASE Next
    BY <1>1, UserStepOK, KernelStepOK DEF Next, StepOK
<1>2. CASE UNCHANGED vars
  <2>1. Types'
      BY <1>2 DEF vars, procVars, tableVars, lockVars, PagingInv, Types, VTypeOK
  <2>2. ASSUME NEW p \in Procs PROVE Places(p)' /\ Locked(p)' /\ Tables(p)'
      BY <1>2, OtherProc DEF vars, procVars, tableVars, lockVars, Untouched, SamePlace
  <2> QED
      BY <1>2, <2>1, <2>2 DEF PagingInv
<1> QED
    BY <1>1, <1>2

LEMMA PagingInvariant == Spec => []PagingInv
<1>1. PagingInv /\ [Next]_vars => PagingInv'
    BY NextOK
<1> QED
    BY <1>1, InitInv, PTL DEF Spec

\* Types: the places, the calls and their arguments, the page tables, and the position
\* in the file of every mapping, which never leaves the file.
THEOREM PagingTypes == Spec => []VTypeOK
<1>1. PagingInv => VTypeOK
    BY DEF PagingInv, Types
<1> QED
    BY <1>1, PagingInvariant, PTL

\* Locks: fault_lock is held by the process that fills a page and file_lock by the one
\* in a call that uses user memory or that writes a page of a mapping which it had to
\* load first, whatever way a page fault ends.
THEOREM PagingLocksMatch == Spec => []LocksMatch
<1>1. PagingInv => LocksMatch
    BY DEF PagingInv, Locked, LocksMatch
<1> QED
    BY <1>1, PagingInvariant, PTL

\* The processor lets a process use only pages of its supplemental page table, and
\* an entry of a mapping goes before the mapping does.
THEOREM PresentPagesListed == Spec => []PresentIsListed
<1>1. PagingInv => PresentIsListed
    BY DEF PagingInv, Tables, Listed, PresentIsListed
<1> QED
    BY <1>1, PagingInvariant, PTL

\* Every step that takes pages of a mapping away, in munmap or exit, has written as many
\* to the mapping's file as are dirty, and one more when it ends the writing of a page
\* with a dirty bit of an earlier mapping; no other step moves the position of a file.
THEOREM DirtyPagesSaved == Spec => DirtySaved
<1>1. PagingInv /\ [Next]_vars => [~panic' => \A p \in Procs : Saved(p)]_vars
    BY NextOK
<1> QED
    BY <1>1, PagingInvariant, PTL DEF Spec, DirtySaved
=============================================================================
