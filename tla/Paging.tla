-------------------------------- MODULE Paging --------------------------------
(***************************************************************************)
(* Virtual memory of project 3: page faults (userprog/exception.c), the    *)
(* supplemental page tables (vm/page.c), the frames (vm/frame.c), mapped   *)
(* files and the system calls that touch user memory (userprog/process.c). *)
(*                                                                         *)
(* The processes share one file.  fault_lock is held while a page is       *)
(* loaded and file_lock while a file is used.  A step is what happens      *)
(* between two acquisitions; frame_lock is never held across one, and a    *)
(* call that waits for file_lock without a lock has done nothing yet.      *)
(*                                                                         *)
(* Pages are the units of memory and of the file.  A struct file is known  *)
(* by its address: that of a mapping is the mapping's number or, since     *)
(* load frees its own, EXE, the address in the page_infos of the           *)
(* executable.  A panic of the kernel is the last step.                    *)
(***************************************************************************)
EXTENDS Integers, Sequences, FiniteSets, SequencesExt

CONSTANTS Procs,
          LastPage,     \* user pages are 1, 2, ..., LastPage; the last is the stack's first
          ExeLast,      \* the executable has the pages up to this one
          FilePages,    \* the length of the file that is mapped
          StackEnd,     \* bound: the stack does not grow below this page
          Writable,     \* whether the pages of the executable are: a set of BOOLEANs
          Touched,      \* pages that the programs use
          MaxMaps,      \* bound: mappings of a process at a time
          NULL

Pages == 1..LastPage

ASSUME PageAssumption ==
    /\ ExeLast \in Nat /\ LastPage \in Nat /\ ExeLast < LastPage
    /\ FilePages \in Nat \ {0} /\ StackEnd \in Pages /\ MaxMaps \in Nat
    /\ Touched \subseteq Pages /\ Writable \subseteq BOOLEAN
ASSUME NullAssumption == NULL \notin Procs \cup {"store", "fetch", "exit"}

Offsets == 0..FilePages - 1
\* Values of a page_info's file that are no number of a mapping.
STACK == -1
EXE == 0

VARIABLES pc,           \* where each process is
          call,         \* the system call that it is in
          arg,          \* the page it uses in the call, or the one that faulted
          mapping,      \* the mapping that it removes, or 0
          supp_page_table, mmaps, stack_min,    \* struct thread
          pagedir,      \* page table entries
          fault_lock, file_lock,                \* their holders
          panic

procVars == <<pc, call, arg, mapping>>
tableVars == <<supp_page_table, mmaps, stack_min, pagedir>>
lockVars == <<fault_lock, file_lock>>
vars == <<procVars, tableVars, lockVars, panic>>

\* An entry that is not present may have its dirty bit set.
Ptes == {"absent", "absent_dirty", "read_only", "clean", "dirty"}
SetPage(writable) == IF writable THEN "clean" ELSE "read_only"

\* Mutation: the entry is for the page below.
PageInfoBelow(va, f, w) == [va |-> va - 1, file |-> f, writable |-> w]

PageInfo(va, f, w) == [va |-> va, file |-> f, writable |-> w]

\* get_pi: the first entry for a page, if there is one.
IsPage(p, va) == \E i \in DOMAIN supp_page_table[p] : supp_page_table[p][i].va = va
GetPi(p, va) == supp_page_table[p][SelectInSeq(supp_page_table[p], LAMBDA pi : pi.va = va)]

\* The processor lets p use the page.
Present(p, va) == pagedir[p][va] \notin {"absent", "absent_dirty"}
Allowed(p, va, write) ==
    pagedir[p][va] \in {"clean", "dirty"} \cup (IF write THEN {} ELSE {"read_only"})

\* pagedir_is_dirty does not ask whether the page is present, and pagedir_clear_page
\* leaves the dirty bit.
IsDirty(p, va) == pagedir[p][va] \in {"dirty", "absent_dirty"}
ClearPage(p, va) ==
    pagedir' = [pagedir EXCEPT ![p][va] = IF IsDirty(p, va) THEN "absent_dirty" ELSE "absent"]

\* The system calls that use user memory with file_lock held: read, which stores
\* to it, and write, exec, create, remove and open.
Calls == {"store", "fetch"}

-----------------------------------------------------------------------------

Init ==
    /\ pc = [p \in Procs |-> "none"] /\ call = [p \in Procs |-> NULL] /\ arg = [p \in Procs |-> 0]
    /\ mapping = [p \in Procs |-> 0]
    /\ supp_page_table = [p \in Procs |-> <<>>] /\ mmaps = [p \in Procs |-> <<>>]
    /\ stack_min = [p \in Procs |-> LastPage]
    /\ pagedir = [p \in Procs |-> [va \in Pages |-> "absent"]]
    /\ fault_lock = NULL /\ file_lock = NULL
    /\ panic = FALSE

\* The kernel stops; nothing of its memory matters any more.
Panic ==
    /\ panic' = TRUE
    /\ pc' = [p \in Procs |-> "none"] /\ call' = [p \in Procs |-> NULL]
    /\ arg' = [p \in Procs |-> 0] /\ mapping' = [p \in Procs |-> 0]
    /\ supp_page_table' = [p \in Procs |-> <<>>] /\ mmaps' = [p \in Procs |-> <<>>]
    /\ stack_min' = [p \in Procs |-> LastPage]
    /\ pagedir' = [p \in Procs |-> [va \in Pages |-> "absent"]]
    /\ fault_lock' = NULL /\ file_lock' = NULL

-----------------------------------------------------------------------------
(* The page fault handler. *)

\* Back to the instruction that faulted: of the copying to or from a buffer, of the
\* writing of a mapping's page, or of the program.
Resume(p) ==
    /\ pc' = [pc EXCEPT ![p] = IF call[p] \in Calls THEN "copy"
                              ELSE IF mapping[p] # 0 THEN "write" ELSE "user"]
    /\ arg' = [arg EXCEPT ![p] = IF call[p] \in Calls THEN @ ELSE 0]

\* The kernel has faulted.
InKernel(p) == call[p] \in Calls \/ mapping[p] # 0

\* The tests after the supplemental page table was of no help: whether the stack
\* is to grow is up to f->esp, which a fault in the kernel does not set.  A fault
\* of the kernel that is not resolved is a panic.  The new stack page is not
\* compared with the other pages.
Unresolved(p, locks) ==
    \/ /\ stack_min[p] > StackEnd
       /\ stack_min' = [stack_min EXCEPT ![p] = @ - 1]
       /\ supp_page_table' = [supp_page_table EXCEPT ![p] =
                                 Append(@, PageInfo(stack_min[p] - 1, STACK, TRUE))]
       /\ Resume(p)
       /\ fault_lock' = locks
       /\ UNCHANGED <<call, mapping, mmaps, pagedir, file_lock, panic>>
    \/ /\ ~InKernel(p)
       /\ pc' = [pc EXCEPT ![p] = "exit"]
       /\ arg' = [arg EXCEPT ![p] = 0]
       /\ fault_lock' = locks
       /\ UNCHANGED <<call, mapping, tableVars, file_lock, panic>>
    \/ /\ InKernel(p)
       /\ Panic

PageFault(p, va) ==
    \/ /\ IsPage(p, va)
       /\ pc' = [pc EXCEPT ![p] = "load"]
       /\ arg' = [arg EXCEPT ![p] = va]
       /\ UNCHANGED <<call, mapping, tableVars, lockVars, panic>>
    \/ /\ ~IsPage(p, va)
       /\ Unresolved(p, fault_lock)

\* The end of load_page.
InstallPage(p) ==
    /\ ~Present(p, arg[p])
    /\ pagedir' = [pagedir EXCEPT ![p][arg[p]] = SetPage(GetPi(p, arg[p]).writable)]
    /\ Resume(p)
    /\ fault_lock' = NULL
    /\ UNCHANGED <<call, mapping, supp_page_table, mmaps, stack_min, file_lock, panic>>

\* Mutation: the lock is not released when load_page fails.
InstallFailsLocked(p) == Unresolved(p, fault_lock)

\* The page is present already, or there is no memory for a page table.
InstallFails(p) == Unresolved(p, NULL)

\* Without a free frame evict_page hands its frame_info, which is no page, to
\* palloc_free_page: an assertion fails.
EvictPage == Panic

\* load_page takes the lock and a frame.
LoadPage(p) ==
    /\ pc[p] = "load" /\ fault_lock = NULL
    /\ \/ EvictPage
       \/ /\ GetPi(p, arg[p]).file = STACK
          /\ InstallPage(p) \/ InstallFails(p)
       \/ /\ GetPi(p, arg[p]).file # STACK
          /\ fault_lock' = p
          /\ pc' = [pc EXCEPT ![p] = "fill"]
          /\ UNCHANGED <<call, arg, mapping, tableVars, file_lock, panic>>

\* The struct file of an executable is freed: what file_read_at finds there may be
\* no file, unless it is that of a mapping of the process.
NoFile(p, f) == f = EXE /\ \A m \in ToSet(mmaps[p]) : m.file # EXE

\* Mutation: acquire_file_lock waits for a lock that p has itself.
FillPageAlways(p) ==
    /\ pc[p] = "fill" /\ file_lock = NULL
    /\ \/ InstallPage(p)
       \/ InstallFails(p)
       \/ NoFile(p, GetPi(p, arg[p]).file) /\ Panic

\* acquire_file_lock takes the lock unless p has it; release_file_lock leaves it
\* as it was.
FillPage(p) ==
    /\ pc[p] = "fill" /\ file_lock \in {NULL, p}
    /\ \/ InstallPage(p)
       \/ InstallFails(p)
       \/ NoFile(p, GetPi(p, arg[p]).file) /\ Panic

-----------------------------------------------------------------------------
(* User programs. *)

UserWrite(p, va) ==
    /\ pc[p] = "user" /\ Allowed(p, va, TRUE)
    /\ pagedir' = [pagedir EXCEPT ![p][va] = "dirty"]
    /\ UNCHANGED <<procVars, supp_page_table, mmaps, stack_min, lockVars, panic>>

UserFault(p, va, write) ==
    /\ pc[p] = "user" /\ ~Allowed(p, va, write)
    /\ PageFault(p, va)

\* A call with a buffer or a name that starts in a page of the process and goes on
\* to page va, which is not checked.
Call(p, c, va) ==
    /\ pc[p] = "user" /\ file_lock = NULL
    /\ IsPage(p, va) \/ IsPage(p, va - 1)
    /\ pc' = [pc EXCEPT ![p] = "copy"]
    /\ call' = [call EXCEPT ![p] = c]
    /\ arg' = [arg EXCEPT ![p] = va]
    /\ file_lock' = p
    /\ UNCHANGED <<mapping, tableVars, fault_lock, panic>>

\* The kernel uses the user's page, and the call ends.
Copy(p) ==
    LET va == arg[p] IN
    /\ pc[p] = "copy" /\ Allowed(p, va, call[p] = "store")
    /\ pagedir' = IF call[p] = "store" THEN [pagedir EXCEPT ![p][va] = "dirty"] ELSE pagedir
    /\ pc' = [pc EXCEPT ![p] = "user"]
    /\ call' = [call EXCEPT ![p] = NULL]
    /\ arg' = [arg EXCEPT ![p] = 0]
    /\ file_lock' = NULL
    /\ UNCHANGED <<mapping, supp_page_table, mmaps, stack_min, fault_lock, panic>>

CopyFault(p) ==
    /\ pc[p] = "copy" /\ ~Allowed(p, arg[p], call[p] = "store")
    /\ PageFault(p, arg[p])

-----------------------------------------------------------------------------
(* Mapped files. *)

\* The pages are entered one by one until one is in use.  If pages have that file by
\* then, those entered before or the executable's, remove_file_mappings releases
\* file_lock and so does process_mmap, and the second release fails an assertion.
ProcessMmap(p, va, f) ==
    LET taken == {i \in Offsets : IsPage(p, va + i)}
    IN  /\ pc[p] = "user" /\ file_lock = NULL
        /\ va + FilePages - 1 <= LastPage
        /\ f # EXE => f = Len(mmaps[p]) + 1
        /\ \A m \in ToSet(mmaps[p]) : m.file # f
        /\ \/ /\ taken = {} /\ Len(mmaps[p]) < MaxMaps
              /\ supp_page_table' = [supp_page_table EXCEPT ![p] = @ \o
                     [i \in 1..FilePages |-> PageInfo(va + i - 1, f, TRUE)]]
              /\ mmaps' = [mmaps EXCEPT ![p] = Append(@, [file |-> f, pos |-> 0])]
              /\ UNCHANGED <<procVars, stack_min, pagedir, lockVars, panic>>
           \/ /\ taken # {}
              /\ 0 \in taken => \E pi \in ToSet(supp_page_table[p]) : pi.file = f
              /\ Panic

\* munmap of a mapping, or of none.
ProcessMunmap(p) ==
    /\ pc[p] = "user"
    /\ \/ \E k \in DOMAIN mmaps[p] :
              /\ pc' = [pc EXCEPT ![p] = "unmap"]
              /\ mapping' = [mapping EXCEPT ![p] = k]
              /\ UNCHANGED <<call, arg, tableVars, lockVars, panic>>
       \/ Panic

\* remove_file_mappings: the first entry that is left of the mapping, if there is one,
\* and whether its page is to be written: at the position of the file, and only if
\* that is not the end.
Entry(p) ==
    SelectInSeq(supp_page_table[p], LAMBDA pi : pi.file = mmaps[p][mapping[p]].file)
EntryPage(p) == supp_page_table[p][Entry(p)].va
ToWrite(p) == IsDirty(p, EntryPage(p)) /\ mmaps[p][mapping[p]].pos < FilePages

\* The entry goes, and the position moves if its page was written.
DropEntry(p, written) ==
    /\ mmaps' = [mmaps EXCEPT ![p][mapping[p]].pos = IF written THEN @ + 1 ELSE @]
    /\ supp_page_table' = [supp_page_table EXCEPT ![p] = RemoveAt(@, Entry(p))]

\* Mutation: the page is left in the page directory.
RemovePageMapped(p) ==
    /\ pc[p] = "unmap" /\ Entry(p) # 0 /\ file_lock = NULL
    /\ ToWrite(p) => Present(p, EntryPage(p))
    /\ DropEntry(p, ToWrite(p))
    /\ UNCHANGED <<procVars, stack_min, pagedir, lockVars, panic>>

\* One page: it is written if it is dirty, and taken out of the tables.  Its frame is
\* not freed.
RemovePage(p) ==
    /\ pc[p] = "unmap" /\ Entry(p) # 0 /\ file_lock = NULL
    /\ ToWrite(p) => Present(p, EntryPage(p))
    /\ DropEntry(p, ToWrite(p))
    /\ ClearPage(p, EntryPage(p))
    /\ UNCHANGED <<procVars, stack_min, lockVars, panic>>

\* A page whose dirty bit is left from an earlier mapping of the address need not be
\* present: file_write faults, with file_lock held.
WriteFault(p) ==
    /\ \/ pc[p] = "unmap" /\ Entry(p) # 0 /\ file_lock = NULL
       \/ pc[p] = "write"
    /\ ToWrite(p) /\ ~Present(p, EntryPage(p))
    /\ pc' = [pc EXCEPT ![p] = "load"]
    /\ arg' = [arg EXCEPT ![p] = EntryPage(p)]
    /\ file_lock' = p
    /\ UNCHANGED <<call, mapping, tableVars, fault_lock, panic>>

\* ... and goes on when the page has been loaded.
WriteBack(p) ==
    /\ pc[p] = "write" /\ Present(p, EntryPage(p))
    /\ DropEntry(p, TRUE)
    /\ ClearPage(p, EntryPage(p))
    /\ pc' = [pc EXCEPT ![p] = "unmap"]
    /\ file_lock' = NULL
    /\ UNCHANGED <<call, arg, mapping, stack_min, fault_lock, panic>>

MunmapReturn(p) ==
    /\ pc[p] = "unmap" /\ Entry(p) = 0
    /\ mmaps' = [mmaps EXCEPT ![p] = RemoveAt(@, mapping[p])]
    /\ pc' = [pc EXCEPT ![p] = IF call[p] = "exit" THEN "closed" ELSE "user"]
    /\ mapping' = [mapping EXCEPT ![p] = 0]
    /\ UNCHANGED <<call, arg, supp_page_table, stack_min, pagedir, lockVars, panic>>

-----------------------------------------------------------------------------
(* The end and the start of a process. *)

\* exit, and arguments of a call that are no user addresses
Exit(p) ==
    /\ pc[p] = "user"
    /\ pc' = [pc EXCEPT ![p] = "exit"]
    /\ UNCHANGED <<call, arg, mapping, tableVars, lockVars, panic>>

\* process_exit closes the files, then unmaps the mappings, then destroys the
\* page directory and the frames in it.
ExitClose(p) ==
    /\ pc[p] = "exit" /\ file_lock = NULL
    /\ pc' = [pc EXCEPT ![p] = "closed"]
    /\ call' = [call EXCEPT ![p] = "exit"]
    /\ UNCHANGED <<arg, mapping, tableVars, lockVars, panic>>

ExitUnmap(p) ==
    /\ pc[p] = "closed" /\ mmaps[p] # <<>>
    /\ pc' = [pc EXCEPT ![p] = "unmap"]
    /\ mapping' = [mapping EXCEPT ![p] = 1]
    /\ UNCHANGED <<call, arg, tableVars, lockVars, panic>>

\* Mutation: the page directory is destroyed before the mappings are removed.
PagedirDestroyMapped(p) ==
    /\ pc[p] = "closed"
    /\ pagedir' = [pagedir EXCEPT ![p] = [va \in Pages |-> "absent"]]
    /\ supp_page_table' = [supp_page_table EXCEPT ![p] = <<>>]
    /\ mmaps' = [mmaps EXCEPT ![p] = <<>>]
    /\ pc' = [pc EXCEPT ![p] = "none"]
    /\ call' = [call EXCEPT ![p] = NULL]
    /\ UNCHANGED <<arg, mapping, stack_min, lockVars, panic>>

PagedirDestroy(p) ==
    /\ pc[p] = "closed" /\ mmaps[p] = <<>>
    /\ pagedir' = [pagedir EXCEPT ![p] = [va \in Pages |-> "absent"]]
    /\ supp_page_table' = [supp_page_table EXCEPT ![p] = <<>>]
    /\ pc' = [pc EXCEPT ![p] = "none"]
    /\ call' = [call EXCEPT ![p] = NULL]
    /\ UNCHANGED <<arg, mapping, mmaps, stack_min, lockVars, panic>>

\* load: the segments of the executable and the first stack page are present.
\* Without a page for the file name it returns TID_ERROR, which is true, with
\* file_lock held, and start_process fails to take it.
Load(p, writable) ==
    /\ pc[p] = "none" /\ file_lock = NULL
    /\ \/ Panic
       \/ /\ supp_page_table' = [supp_page_table EXCEPT ![p] =
                 [i \in 1..ExeLast |-> PageInfo(i, EXE, writable)]
                     \o <<PageInfo(LastPage, STACK, TRUE)>>]
          /\ pagedir' = [pagedir EXCEPT ![p] =
                 [va \in Pages |-> CASE va <= ExeLast -> SetPage(writable)
                                      [] va = LastPage -> "clean"
                                      [] OTHER -> "absent"]]
          /\ stack_min' = [stack_min EXCEPT ![p] = LastPage]
          /\ pc' = [pc EXCEPT ![p] = "user"]
          /\ UNCHANGED <<call, arg, mapping, mmaps, lockVars, panic>>

-----------------------------------------------------------------------------

UserStep(p) ==
    \/ \E va \in Touched : \/ UserWrite(p, va)
                          \/ \E write \in BOOLEAN : UserFault(p, va, write)
                          \/ \E c \in Calls : Call(p, c, va)
    \/ \E va \in Pages, f \in EXE..MaxMaps : ProcessMmap(p, va, f)
    \/ ProcessMunmap(p)
    \/ Exit(p)
    \/ \E writable \in Writable : Load(p, writable)

KernelStep(p) ==
    \/ LoadPage(p) \/ FillPage(p)
    \/ Copy(p) \/ CopyFault(p)
    \/ RemovePage(p) \/ WriteFault(p) \/ WriteBack(p) \/ MunmapReturn(p)
    \/ ExitClose(p) \/ ExitUnmap(p) \/ PagedirDestroy(p)

Next == ~panic /\ \E p \in Procs : UserStep(p) \/ KernelStep(p)

Spec == Init /\ [][Next]_vars

\* A process in the kernel goes on; one that waits for a lock gets it when it is
\* free again and again, since the waiters of a semaphore are woken in turn.
FairSpec == Spec /\ \A p \in Procs : SF_vars(~panic /\ KernelStep(p))

-----------------------------------------------------------------------------
(* Properties. *)

VTypeOK ==
    /\ pc \in [Procs -> {"none", "user", "load", "fill", "copy", "unmap", "write", "exit",
                         "closed"}]
    /\ call \in [Procs -> Calls \cup {"exit", NULL}]
    /\ supp_page_table \in [Procs -> Seq([va : Pages, file : STACK..MaxMaps,
                                         writable : BOOLEAN])]
    /\ pagedir \in [Procs -> [Pages -> Ptes]]
    /\ \A p \in Procs : \A m \in ToSet(mmaps[p]) : m.pos \in 0..FilePages
    /\ {fault_lock, file_lock} \subseteq Procs \cup {NULL}

\* A lock is held by the process that is in its critical section and by no other:
\* every way out of a page fault or a call has released what was taken on the
\* way in, and nothing else.
LocksMatch ==
    \A p \in Procs : /\ fault_lock = p <=> pc[p] = "fill"
                     /\ file_lock = p <=>
                            \/ call[p] \in Calls
                            \/ mapping[p] # 0 /\ pc[p] \in {"load", "fill", "write"}

\* A page that the processor lets a process use is in its supplemental page table;
\* one that a mapping put there is so only while the mapping exists.
PresentIsListed ==
    \A p \in Procs :
        /\ \A va \in Pages : Present(p, va) => IsPage(p, va)
        /\ \A pi \in ToSet(supp_page_table[p]) :
               pi.file \in {STACK, EXE} \/ \E m \in ToSet(mmaps[p]) : m.file = pi.file

\* The dirty pages of a mapping of p that the step takes away.
Leaving(p, m) ==
    {va \in Pages : /\ pagedir[p][va] = "dirty" /\ ~Present(p, va)'
                   /\ IsPage(p, va) /\ GetPi(p, va).file = m.file}

\* The step writes a page of the mapping that was loaded only to be written.
Reloaded(p, m) ==
    IF pc[p] = "write" /\ pc'[p] = "unmap" /\ m = mmaps[p][mapping[p]] THEN 1 ELSE 0

Saved(p) ==
    \A m \in ToSet(mmaps[p]) : m.file # EXE =>
        IF \E n \in ToSet(mmaps'[p]) : n.file = m.file
        THEN \E n \in ToSet(mmaps'[p]) :
                 /\ n.file = m.file
                 /\ n.pos = m.pos + Cardinality(Leaving(p, m)) + Reloaded(p, m)
        ELSE Leaving(p, m) = {}

\* When pages that were written to go away, by munmap or however the process ends,
\* each is written to the file, and of the pages that were not only those are that
\* an earlier mapping of their address has left a dirty bit.  (A mapping that cannot
\* be told from the executable takes the executable's pages as well.)
DirtySaved == [][~panic' => \A p \in Procs : Saved(p)]_vars

\* A process faults with file_lock held, on its buffer or on a mapping's page, and
\* another that loads a page waits for that lock.
Cycle == \E p, q \in Procs : /\ pc[p] = "load" /\ file_lock = p
                             /\ pc[q] = "fill" /\ fault_lock = q

\* Every page fault, system call and exit comes to its end, unless the kernel
\* panics or two processes have the two locks in opposite order.
CallsEnd ==
    \A p \in Procs : pc[p] \notin {"user", "none"} ~> pc[p] \in {"user", "none"} \/ panic \/ Cycle

\* The kernel prevents page faults while it holds a lock that it needs to handle
\* them: two processes never wait for each other's lock.
NoCycle == ~Cycle
=============================================================================
