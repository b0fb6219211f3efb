# A TLA+ model of the Pintos projects

The repository holds four successive copies of the teaching operating system
Pintos (`proj1` to `proj4`), each with the kernel work of one project:

| copy | what is new in it |
| --- | --- |
| `proj1` | a preemptive priority scheduler, priority donation, an alarm clock that does not busy-wait |
| `proj2` | processes, system calls, file descriptors (on the stock round-robin scheduler) |
| `proj3` | lazy loading, frames, a supplemental page table, mmap (swap is a stub) |
| `proj4` | a buffer cache, indexed and growing inodes, directories (without the VM of `proj3`) |

This directory models the parts whose correctness depends on interleavings or on
long sequences of calls: threads and locks (`proj1`), processes and the file
system (`proj4`), virtual memory (`proj3`). TLC configurations check them on
small instances, and TLAPS proves for every instance the safety properties of
locks, queues, thread ids, priorities and donation, condition variables, the
alarm clock, processes, paging and the buffer cache, and of the file system that
open inodes are counted. Two of them are refinements of an abstract specification.
Paths below are relative to `src/`.

## 1. Inventory

| component | state | operations | who shares it | what must hold |
| --- | --- | --- | --- | --- |
| Scheduler (`proj1/src/threads/thread.c`) | `ready_list`, running thread, per-thread `status`, `priority`, `init_pri` | create, block, unblock, yield, exit, tick, set priority | every thread, the timer interrupt | the best ready thread runs; a thread is on one queue at most; tids are unique |
| Semaphores and locks (`proj1/src/threads/synch.c`) | `value`, `waiters`; `holder`; per-thread `priority_chain`, `bene`, `bene_elem` | down, try, up; acquire, try, release; donate, pass on, recall | every thread; interrupt handlers may up | exclusion; no lost wake-up; a donation reaches the holder and ends with the lock |
| Condition variables (same file) | `waiters`, a semaphore on each waiter's stack | wait, signal, broadcast | threads that hold the monitor's lock | a waiter gets one wake-up; the best waiter is chosen |
| Alarm clock (`proj1/src/devices/timer.c`) | `ticks`, sorted `waiting_list`, a semaphore on each sleeper's stack | `timer_sleep`, `timer_interrupt` | threads and the timer interrupt | nobody wakes early, is skipped, or sleeps on |
| Interrupts (`*/src/threads/interrupt.c`) | interrupt level, yield-on-return flag | disable, restore, dispatch | everything | code with interrupts off is atomic |
| Allocators (`*/src/threads/palloc.c`, `malloc.c`) | bitmaps of pages, arenas with free lists | get, free | everything | no page or block is given twice |
| Interrupt queues (`*/src/devices/intq.c`) | ring buffer, one waiter for each end | put, get | interrupt handlers and threads | no byte lost, no waiter forgotten |
| Processes (`proj2`, `proj4` `/src/userprog/process.c`) | `process_info` shared by parent and child, its two semaphores, `file_lock` | execute, wait, exit | parent and child, without a lock | one status per child, no use after free, no lock kept on an error path |
| System calls, files (`proj2`..`proj4` `/src/userprog/syscall.c`) | list of open files of a process | the system calls | `file_lock` | only valid user memory is touched; descriptors belong to the process |
| Page faults, page directories (`userprog/exception.c`, `pagedir.c`) | page tables | handle fault, map, unmap | the process | the faulting page is the one mapped |
| Virtual memory (`proj3/src/vm`, `userprog/process.c`) | frame list, supplemental table, mmap list | get, free, evict a frame; load a page; map, unmap | all processes, `frame_lock` | a frame has one page; evicted data is not lost |
| Buffer cache (`proj4/src/filesys/cache.c`) | 64 entries, LRU list, a separate free-map sector, four kinds of lock | read, write, create, map read and write, flush, close | all users of the file system | it behaves like the disk; it is saved at shutdown |
| Inodes (`proj4/src/filesys/inode.c`) | `open_inodes`, open counts, direct, indirect and doubly indirect blocks | open, close, remove, read, write with growth | all users of the file system | no sector in two files; length and data agree |
| Free map (`proj4/src/filesys/free-map.c`) | a bitmap, saved through the cache | allocate, release | inodes | no sector is given twice |
| Directories, files, entry points (`proj4/src/filesys`) | directory entries, file positions | create, open, remove, look up, add | all users of the file system | a name leads to a live inode |
| Block devices (`*/src/devices/ide.c`, `block.c`, `partition.c`) | channel registers, a lock and a semaphore per channel | read, write, interrupt | the cache, swap | external to the models: an array of sectors |
| Library (`*/src/lib/kernel`) | lists, hash tables, bitmaps | | | sequences and sets in the models |
| Boot, console, other devices, user library, tests | | | | not modelled |

Interaction. Everything rests on the scheduler: semaphores block and unblock
threads, locks are semaphores with a `holder` and donation, monitors and the
alarm clock use semaphores in stack frames, the file system uses locks, and a
process is a thread with a `process_info`. Control reaches the kernel in two
ways only: a thread calls it, or an interrupt comes while interrupts are on.

The hard behaviours: preemption at any instruction with interrupts on (in
`lock_acquire`, `lock_release`, `allocate_tid`, `cond_wait`, `timer_sleep`);
objects in stack frames that other threads link (`priority_elem`,
`semaphore_elem`, `sleeping_sema`); stale copies of `lock->holder`; a cache that
is flushed while it is used; parent and child that share a heap block without a
lock, and a block that is allocated again; error paths that keep locks; page
faults of the kernel itself while it holds a lock; files that are removed while
open, on sectors that are used again. `PROJECT.json` lists these hazards by line.

## 2. Modules

| module | models | kind |
| --- | --- | --- |
| `Scheduler` | run queue, `schedule`, yield, block | state and operators, no behaviour |
| `Synch` | semaphores, locks, donation, creation, exit, time slices | extends `Scheduler`; the kernel's specification |
| `Mutex` | what a lock promises | abstract specification, implemented by `Synch` |
| `Monitor` | condition variables | extends `Synch` |
| `Alarm` | `timer_sleep`, `timer_interrupt` | extends `Synch` |
| `SynchProofs` | exclusion, types and tids of `Synch`; it implements `Mutex` | proofs |
| `SynchQueueProofs` | queues and wake-ups of `Synch`; priorities and donation under `UnpreemptedSpec` | proofs |
| `StackSemaProofs` | the safety properties of `Monitor` and `Alarm`, whose threads wait on a semaphore in their own stack frame | proofs |
| `SectorStore` | what the cache promises | abstract specification, implemented by `BufferCache` |
| `BufferCache` | the buffer cache and its shutdown | specification |
| `Process` | exec, wait, exit; the executable's write denial | specification |
| `Files` | what the file system promises | abstract specification, implemented by `FileSystem` |
| `Inode` | free map, block pointers, inodes | operators on a disk |
| `FileSystem` | root directory, open inodes, system calls on files, restart | extends `Inode`; specification |
| `Paging` | page faults, supplemental page tables, mmap, calls that touch user memory | specification |
| `ProcessProofs`, `PagingProofs` | the safety properties of `Process` and `Paging` | proofs |
| `FileSystemProofs` | the counts of open inodes | proofs |
| `CacheProofs` | those of `BufferCache`; it implements `SectorStore` | proofs |
| `ListProofs` | lists of distinct elements, least and greatest elements | lemmas the others share |
| `MCSynch`, `MCMonitor`, `MCAlarm`, `MCCache`, `MCProcess`, `MCFileSystem`, `MCPaging` | model values, symmetry sets, constants that a `.cfg` cannot write | model checking |

Definitions that a comment calls a *mutation* are plausible mistakes in the
definition that follows them. No specification uses them; `PROJECT.json` says
which property finds each.

### Scheduler and Synch

*Steps.* There is one CPU. Code between `intr_disable` and `intr_set_level` is
one step; everything else can be preempted, so `lock_acquire` and `lock_release`
are cut at each access to shared memory:

    lock_acquire   run -> la_pri -> la_arg -> la_push -> la_upd -> la_bene -> la_elem
                   -> la_down (-> la_wake) -> la_own -> la_clr -> return
                   (from run straight to la_down when the lock is free)
    lock_release   run -> lr_rel -> lr_up -> lr_pri -> return
    thread_create  run -> tc_lock -> [lock_acquire] -> tc_tid -> tc_inc
                   -> [lock_release] -> tc_go -> run

The interrupt handler's two effects are `TimeSliceExpiry` (yield on return) and
`InterruptSemaUp`. `Spec` has both, and `UnpreemptedSpec` neither: there a thread
gives up the CPU only in a call of its own. One pass over a single
`priority_chain` is one step, although interrupts are on in it: the lists
themselves are not modelled at pointer level.

*State.* A thread is its page; list order is sequence order. `priority_chain` is
the set of donors whose `priority_elem` it links, with the elements in `pe`.
`sema_down`'s loop is one step per pass, `la_wake`/`sd_wake` being the point
after `thread_block`; `list_max` with `priority_less`, which is `<=`, returns the
last of the largest elements, and `ListMax` does too.

*Clients.* Threads call anything at any time, obeying what `synch.c` asserts (no
recursive acquire, release by the holder), taking locks in increasing order (so
that clients do not deadlock each other) and exiting without locks.

*Faults.* A donation to NULL, through a NULL `bene_elem`, to a freed thread or
through a dead stack frame sets `fault` and stops the behaviour: what the kernel
does next depends on what is in that memory. The properties hold up to that
point. Fault states are reachable (section 5).

### Monitor and Alarm

Both add actions to `Synch` and reuse its semaphores: thread `t`'s stack
semaphore is `value[t]`, `waiters[t]`. In `Monitor` a waiter is queued before it
releases the lock and downs its semaphore afterwards; a signaller unlinks it and
ups the semaphore in another step. In `Alarm` every tick is an action: it wakes
the sleepers that are due in one handler invocation and then yields if it woke
one or if the slice is over.

### BufferCache

`cache_read`, `cache_write` and `cache_create` keep `main_lock` throughout, so
there is one operation at a time, in the steps lookup, scan, evict, save, fill,
copy, touch. `cache_close` does not take `main_lock`: `FlushEntry` interleaves
with the operation except where that has `io_lock`, and `CloseMap` with
everything. A sector has several parts, so that a write to some bytes must load
and keep the others. `SectorStore` has no entries and no disk: a call has its
effect once, between its beginning and its return, and nothing else changes a
sector, so an eviction must be invisible. Memory from `malloc` starts with any
contents.

Requests are those the file system makes when its own calls succeed: sector 0
(the free map's inode) is created and read; the sector of the free map's bits is
created with the format and then kept in `free_map`, outside the entries. (A
failed `free_map_allocate` makes `inode.c` use a wrong sector number; that is in
`Inode`.) `auto_save` is not modelled because nothing runs
it: its `thread_create` is commented out, although section C3 of
`proj4/src/filesys/DESIGNDOC` describes periodic write-behind.

### Process

A process is a thread number, and a `process_info` one of a few heap blocks that
are allocated, freed and allocated again. The kernel is preempted anywhere, so
`process_exit` is cut at each access to `p_info` and to the block behind it:

    exec    user -> release -> starting -> user          (sema_down (sema_start))
    child   load -> open -> deny -> ready -> user        (or, if load fails, exit)
    wait    user -> waiting -> user                      (sema_down (sema_finish))
    exit    user -> store -> children <-> unlink -> close -> test -> mark
            -> finish -> success (-> creator) -> dead

A pointer is loaded in one step and followed in another where the code keeps it
in a register or tests it first (`blk`, `kid`); `success` is read in one step
and `sema_start` upped in the next (`creator`), since `cur->p_info` is followed
for each. Using a block that is free sets
`fault`; using one that has become another child's sets the history variable
`stale`, and the model goes on as the code does. `Main` is the initial thread,
which waits for each task before the next. All processes run one executable:
`present` is its name, `deny_write_cnt` its inode's count, `fd` the descriptor by
which each process denies writes, and which its program may close.

`load` opens and closes the executable (`process.c:594`, `692`) without
`file_lock`, and nothing else protects `open_inodes` and `open_cnt`
(`inode.c:181`). Alone, that leaves no trace. Where another process may use
the inode list at the same time (it is in `load` too, in a call, or opening or
closing its executable), `Race` ends the behaviour with `fault` "raced": the
file may have two `struct inode`s from then on, or a freed one may be used, and
neither is followed. Every property of `Process` holds up to there, which is a
limit of the properties and not a merit of the code (section 5).

Memory can run out wherever the code allocates: no page for the name
(`ExecNoPage` keeps `file_lock`), no heap block (`ExecNoBlock` writes to NULL), no
page for the thread (`Exec` with child NULL waits for ever), no `struct inode` or
`struct file` (`OpenExecutable` returns -1, and `DenyWrite` asserts) and no
`file_info` (`OpenExecutable` writes to NULL).

### Inode and FileSystem

A disk is a record of sectors, marked sectors and two flags. Sectors are what the
buffer cache shows (`SectorStore`, implemented by `BufferCache`). A sector is a
few units, and a datum, a length, a pointer or a directory entry takes one, so
that direct, indirect and doubly indirect blocks fit in a small disk. As in the
code, a read looks its block up, and so allocates it, before it compares with the
length; new blocks are zeroed; removal releases the inode first and then the
blocks that have a byte at 1, 513, ...; an allocation that fails goes on with
sector 0.

Every system call holds `file_lock`, so a call is a step. `Restart` is
`filesys_done` followed by `filesys_init`: open files and the removed marks are
gone, the disk stays. `Files` has no sectors: files are sequences of units with
perhaps a name, which last as long as they are named or open.

### Paging

A process has an ordered list of page entries (`supp_page_table`), page table
entries with present, writable and dirty in one value, a list of mappings and the
lowest stack page. `pagedir_clear_page` clears the present bit only and
`pagedir_is_dirty` looks at the dirty bit only (`pagedir.c:139`, `164`), so an
entry that is not present may be dirty (`absent_dirty`). `fault_lock` and `file_lock` are explicit; `frame_lock` is
never held while waiting for another, so its sections are parts of steps. A fault is
`PageFault`, `LoadPage` (takes `fault_lock` and a frame) and `FillPage` (takes
`file_lock` unless the process has it already), for a user program and for a system
call that touches its caller's memory with `file_lock` held (`Copy`, `CopyFault`).
`mapping` is the number of the mapping that is being removed. Removal writes what
counts as dirty: a page that is present in the same step (`RemovePage`), and one
whose dirty bit is left over from an earlier mapping of the address by way of a
fault of the kernel with `file_lock` held (`WriteFault`, then `WriteBack`).
A panic of the kernel is the last step: an unresolved fault in the kernel,
`munmap` of no mapping, an overlap found after the first page of a mapping, an
eviction. `struct file` addresses are values, because `remove_file_mappings`
compares them: a mapping may have the address that the executable's file had
(`EXE`). A page of the executable that is loaded late is read from that freed
address, which may be a file again or not.

## 3. Runs

| run | instance | what it shows |
| --- | --- | --- |
| `locks` | 3 threads (2 created during the run, so that a better thread can find a lock held), 2 locks, 2 priorities, preemption anywhere | exclusion, one queue per thread, no lost wake-up |
| `donation` | 4 threads, 3 locks, 2 priorities, `UnpreemptedSpec` | the running thread is the best one; a lock is held at no lower a priority than that of a waiter whose donation stands; a donation ends with the lock |
| `progress` | 4 threads (2 created), `tid_lock`, 1 semaphore, priority changes, interrupts that up, fair | unique tids; a free lock or positive semaphore with waiters is taken; `Synch` implements `Mutex` |
| `monitor` | 3 threads, 1 condition, preemption anywhere | every waiter is owed exactly one wake-up |
| `alarm` | 3 threads, 2 priorities, 4 ticks, negative and positive sleeps | never early, nobody due is left, one wake-up per sleep |
| `cache` | 2 entries, 3 sectors of 2 parts | the cache implements `SectorStore`; one entry per sector; shutdown saves |
| `process` | the initial thread and 3 processes, 3 heap blocks, preemption anywhere | who may use a `process_info`, what exec and wait return, who can still be woken, writes to a running executable |
| `returns` | the initial thread and 2 processes, 2 heap blocks, fair | exec and wait return |
| `filesys` | 8 sectors of 4 units, 1 direct pointer, 1 name, 2 open files | `FileSystem` implements `Files`; no sector in two places; counts and releases |
| `paging` | 2 processes of 4 pages, a file of 2 pages, 1 mapping each, programs that use page 3, fair | locks on every path; page tables agree; dirty pages are saved; every fault and call ends |
| `early_wait` | as `process` | *violation*: a wait returns while the child runs |
| `lock_cycle` | as `paging` | *violation*: two processes wait for each other's lock |

The two violations are differences between the code and what its comments and
documents say; `PROJECT.json` quotes them under `findings`.

*Properties worth explaining.*

- `MutualExclusion` counts as the owner of a lock also a thread that has taken
  the semaphore and not yet written `holder`, or cleared `holder` and not yet
  upped the semaphore. `holder` alone would make it weaker than what clients need.
- `NoLostWakeup`: while threads are on a wait list, each unit of the semaphore is
  matched by a thread already woken and on its way. It is the safety half of
  `FreeLockIsTaken` and `SemaIsTaken`.
- `RunningIsMax`, `HolderIsBoosted` and `DonationRecalled` are properties of
  `UnpreemptedSpec`. With preemption inside the kernel a donation can be made
  after the lock changed hands, and none of the three is true (section 5).
  `HolderIsBoosted` is about donations that stand: `lock_release` drops those of
  all waiters, and the ones that go on waiting keep a stale `bene`, so that a
  nested donation to them goes to the former holder. Without that condition four
  threads refute it.
- `SignalAccounting` and `WakeAccounting` are exact counts, so they exclude both
  a lost and a double wake-up.
- `CloseSaves` is about sectors not changed since `cache_close` began, whichever
  entries they have moved through meanwhile. `MapSaved` needs that nothing else
  ran: an operation alongside or after `cache_close` may still evict the entry
  that holds the image of the free map from format time, and overwrite the saved map.
- `OwnInfo`, `ExecTells` and `StatusReported` speak of behaviours in which no block
  was used after it had changed owner; `WaitWaits` (`early_wait`) does not, and
  fails. For `ExecTells` the condition is needed: a stale child that has read
  `success` as false in a block that is free or another child's ups its
  `sema_start` after it has become a third child's, and `process_execute` returns
  before `load` is done. `ListedOnce` and the half of `WaitersServed` and
  `CallsReturn` about `process_wait` have no such condition: a wait may return too
  early, but none is forgotten. The half about `process_execute` has it, since a
  stale child may change `success` or `child` of the block. A process that is
  stuck in `thread_create`'s failure is excepted from `WaitersServed`.
- `RunningDenied` counts descriptors over one `struct inode`. It holds up to the
  first `Race`, as do the others of `Process`, and says nothing of two.
- `ImplementsFiles` says of every file, through all the pointers, that it
  contains what was written to it, and zeros elsewhere: it fails if a block is
  shared, freed too early, not zeroed or lost at a restart.
- `CallsEnd` excuses exactly the state `Cycle` that `lock_cycle` reaches, and panics.
  The fault that completes the cycle may be on the buffer of a call or on a
  mapping's page that is written back.
- `DirtySaved` counts: each present dirty page of a mapping that leaves the page
  table moves the position of the mapping's file by one page, and so does a page
  that was loaded only to be written, because of the dirty bit an earlier mapping
  of its address has left (`Reloaded`); nothing else moves it.
  A mapping is known by its file. It does not say where in the file a page goes
  (section 5), and nothing of a mapping whose file has the executable's old
  address, whose pages cannot be told from the executable's.

*Bounds.* Three threads are a holder, a waiter and an interfering thread, or the
chain of a nested donation; four are needed for a nested donation past a change of
hands, and for two creations at once. Two priorities tell "better" from "equal".
Lock 0 is `tid_lock`, which only `thread_create` takes. `SemaMax` bounds the value
of plain semaphores, `MaxTicks` the ticks counted; both are guards. Two entries
with three sectors make every eviction case happen, and an instance with four
sectors passed too. Threads, and the parts and values of a sector, are
interchangeable, except the initial thread; symmetry is used in safety runs only.
Three processes are a parent, the child that exits and the child that gets its
`process_info`; three blocks leave one free when every process has one child. With
four units a sector and one direct pointer, position 5 is in the indirect block;
the doubly indirect pointers are beyond a disk of eight sectors, and
`MCFileSystem` checks instead that the pointers of all blocks of the largest file
are distinct and in range. One name and two open files are enough for a file
removed while open and created again. Four pages are the executable, a file of two
pages beside or over it, and a growing stack. Programs use page 3 (`Touched`),
which the stack can grow into and which can be in one mapping after another. Page 2
is then in a mapping only together with page 3, so that a call never meets a page
with no entry (a call meets a page that cannot be loaded). Instances in which it
does passed the safety properties too, outside the run: page 2, with the stack
bounded at page 3 (530,000 states) and at page 2 (1.4 million), and pages 2 and 3
without a growing stack (1.6 million).

*Deadlock* is not checked in the runs on `Synch`, `Process`, `FileSystem` and
`Paging`: a kernel in which all threads wait or have exited is idle, which is
legal, and a fault, a panic or a full disk stops the behaviour. That processes do
not wait for ever is `CallsReturn` and `CallsEnd`. It
is checked for the cache, which can always start another operation.

*Fairness* (`progress`). Strong fairness of each thread's kernel code, because a
thread that is scheduled again and again executes instructions each time (a time
slice is long compared with a step); strong fairness of `TimeSliceExpiry`, because
the timer keeps ticking and a tick that comes while interrupts are off is held by
the interrupt controller until they are on. Nothing is assumed of clients: they
may keep a lock for ever or never exit. The instance has one priority, since a
better thread may starve others for ever by design. `returns`: weak fairness of
each process's kernel code (`KernelStep`), which the round-robin scheduler of
`proj4` gives; a program may run for ever without a call, and the calls themselves
are not fair. A lock that is wanted for ever is not needed there: only `file_lock`
is waited for and its holders give it back. `paging`: strong fairness of
`KernelStep`, since a process that waits for a lock finds it free again and again
rather than always, and the wait lists of semaphores are first in, first out.

## 4. Proofs

Each theorem holds for any sets and numbers that satisfy the named assumptions of
the module it is about.

| module | theorem | states |
| --- | --- | --- |
| `SynchProofs` | `MutualExclusionHolds` | `Spec => []MutualExclusion` |
| | `LocksImplementMutex` | `Spec => ImplementsMutex` |
| | `TypesHold`, `TidsStayUnique` | `Spec => []TypeOK`, `Spec => []TidsUnique` |
| `SynchQueueProofs` | `OneQueuePerThread`, `WakeupsReachWaiters` | `Spec => []QueuesExclusive`, `Spec => []NoLostWakeup` |
| | `BestThreadRuns` | `UnpreemptedSpec => []RunningIsMax` |
| | `DonationsCount`, `DonationsReturn` | `UnpreemptedSpec => []HolderIsBoosted`, `UnpreemptedSpec => []DonationRecalled` |
| `StackSemaProofs` | `MonitorTypesHold`, `WaitersOwedOneSignal` | `MSpec => []MTypeOK`, `MSpec => []SignalAccounting` |
| | `AlarmTypesHold`, `SleepersOwedOneWakeup` | `ASpec => []ATypeOK`, `ASpec => []WakeAccounting` |
| | `SleepersNotEarly`, `SleepersNotForgotten` | `ASpec => NeverEarly`, `ASpec => NoOversleep`, action properties |
| `ProcessProofs` | `ProcessTypes`, `ProcessInfosListed`, `ProcessInfoOwned` | `[]PTypeOK`, `[]ListedOnce`, `[]OwnInfo` |
| | `ExecTellsLoad`, `WaitReportsStatus`, `NoWaiterForgotten` | `[]ExecTells`, `[]StatusReported`, `[]WaitersServed` |
| | `RunningExecutableDenied` | `[]RunningDenied` |
| `PagingProofs` | `PagingTypes`, `PagingLocksMatch`, `PresentPagesListed` | `[]VTypeOK`, `[]LocksMatch`, `[]PresentIsListed` |
| | `DirtyPagesSaved` | `Spec => DirtySaved`, an action property |
| `CacheProofs` | `CacheTypes`, `SectorInOneEntry`, `EvictFindsVictim` | `[]CacheTypeOK`, `[]OneEntry`, `[]VictimExists` |
| | `CloseSavesSectors`, `CloseSavesMap` | `[]CloseSaves`, `[]MapSaved` |
| | `CacheImplementsStore` | `Spec => ImplementsStore` |
| `FileSystemProofs` | `OpenInodesCounted` | `[]CountsAgree` |

*Assumptions.* `Scheduler` and `Synch`: the idle thread is not among `Threads`;
locks, semaphores and threads are different things; the initial threads are
finitely many; priorities are in `0..PRI_MAX` (63). `Process`: there is a process
beside the initial one, and exit statuses are not negative (-1 is what
`process_wait` returns for a killed child). `Paging`: the executable is smaller
than the address space, files have a page. `BufferCache`: at least one entry;
sector 0 exists and is not the free map's (found by the proof: entries start with
sector number 0, so `sector_id` has its type only if 0 is a sector). `FileSystem`:
NULL is no sector. In all, NULL is none of the things it is compared with. TLC
evaluates these assumptions in every run.

Every invariant below was checked by TLC before it was proved.

### Synch

*Exclusion.* `MutualExclusion` is not inductive by itself: when `lock_acquire`
writes `holder`, or `lock_release` goes on to `sema_up`, nothing in it says that
no other thread is recorded as the holder. `LockInv` adds that a lock which is
taken but not yet recorded, or no longer recorded (the points `Between`), has
`holder` NULL, and the types of the variables involved, including where a thread
may return to after `lock_acquire` and `lock_release`. There is one lemma for each
action; those that touch no lock share one about unchanged owners.

*Refinement.* The owner of `Mutex` is the thread for which `Owner` holds, and
those asking are the threads in `lock_acquire` before it has the semaphore. Each
lemma about an action also shows which step of `Mutex` it is; the mapping
lemmas (`StutterMap`, `AskMap`, `GiveMap`, `ReleaseMap`) turn facts about `pc`,
`lk` and `holder` into facts about the mapped variables, `MutualExclusion`
making the `CHOOSE` in `OwnerOf` unique.

*Types.* The content is in three places: `list_max` on a non-empty list returns
a position of it (a largest element exists by `GreatestExists` of `ListProofs`,
well-founded descent in `0..PRI_MAX`); effective priorities are maxima of
sets of given priorities, hence given priorities; and the recipient in
`thread_donate_priority`, and the thread being created, exist wherever they are
used, which needs the program points where `rcp` and `child` are set.

*Queues.* `QueuesExclusive` does not say which list a blocked thread is on, so it
does not survive an unblock. `Queues` makes it exact: the run queue holds the
ready threads (`RunQueue`), a thread on a wait list is blocked and in the
`sema_down` of that semaphore (`WaitLists`), a blocked thread on no list is the
child of a thread in `thread_create` (`Findable`), which is one thread's only
(`Newborn`). The forty-odd actions touch the queues in eight ways only: not at
all, yield, up, take a unit, block, create, unblock the new thread, exit. Each of
these is a predicate on a step (`LocalShape`, `UpShape` and so on);
`NextShapes` shows that every step of the kernel has one, and one lemma for each
shape shows what it preserves.

*Wake-ups.* `NoLostWakeup` compares the value of a semaphore with the number of
threads on their way to it. The count needs `WaitLists` (the thread `sema_up`
takes from the list was not on its way before), and that finitely many threads
are in the loop of `sema_down` (`FewWaiting`), or a cardinality would say nothing.

*Tids.* `TidsUnique` needs that a thread between reading and writing `next_tid`
owns `tid_lock` (`TidLocked`), which by exclusion makes it the only one, and that
every tid is below `next_tid`, but that of the thread whose creator is about to
write `next_tid` (`TidsGiven`).

*Priorities* (`UnpreemptedSpec`). In the middle of `lock_acquire` the best ready
thread may not be the running one: it has just raised the holder, perhaps above
itself. `MaxInv` says that this is the only exception (`Blocking`), and that then
the lock is still held (`Held`), so that the donor blocks before it returns; it
is held because no other thread runs between the points of `Brief` (`Alone`).
Every other step either leaves the priorities of ready threads alone or ends in
`schedule`, which `ScheduleBest` shows to choose a greatest one.

*Donation* (`UnpreemptedSpec`). `DonInv` describes a `priority_chain` from the
donor's side: whoever's element is linked is inside `lock_acquire`, the element
carries its present priority and the lock it asks for, and its `bene` is the
thread that has the chain (`Gives`). Then a priority is the maximum that
`thread_update_priority` computes (`Fresh`), but for a thread that releases, which
keeps the higher one until it has yielded, and the one thread that
`thread_update_donation` is about to reach (`Pending`). That its walk along `bene`
has an end, and passes no thread twice with an old value, is the order in which
locks are taken: each next thread holds a higher lock than the one before it asks
for (`Orderly`, `Above`). `tid_lock` is outside that order, and harmless because
its holder asks for no lock. A stale `bene` belongs to a waiter whose element is
on no chain any more, so that the walk changes nothing beyond it.

### Monitor and Alarm

Both are `Synch` with more steps, so every lemma about a step of `Synch` is used
as it stands, and only the new steps are proved to preserve `LockInv` and the
types; the semaphores in stack frames are disjoint from locks and plain
semaphores (`DistinctAssumption`).

`MonInv` states `SignalAccounting` without counting (`OneDebt`): a waiter is on
one list, once, or has one signaller, or its semaphore is 1, and no two of
these. It needs where the calls made by `cond_wait`, `cond_signal` and
`cond_broadcast` return to (`Control`), since `cond_wait` is known as such inside
`lock_release` only by its return.

`AlarmInv` adds to the same exact count (`Sleepers`) that a sleeper whose
semaphore is up has slept long enough, from which `NeverEarly` follows, and that
`waiting_list` is sorted (`Sorted`), from which `NoOversleep` follows: the
sleepers that are due are a prefix. One tick may wake many. That the model
queues them in some order with `LastFirst`, instead of by a recursion over the
list, is what makes this step provable.

### Process

`Inv` relates the heap blocks to the processes that share them. `Listed` and
`Uses` say where a block is linked and which block each program point works on;
`Owned` that an allocated block belongs to one process, and that this refers to
it until it is dead; `Starters` that a process that starts has a parent that
waits for it, so that its block cannot be freed; `Results` that `success`,
`child` and the semaphores agree with what the child has done; `Served` that the
child of a process in `process_execute` has told it or is going to. The halves of
these about `process_wait` have no condition: they survive the race that
`early_wait` shows. `Timely`, `Starters` and what `Results` and `Served` say of
`success` and `sema_start` have the condition that no stale block was used, and so
have `OwnInfo`, `ExecTells` and `StatusReported`, which follow from them. `Denied`
is a count: `deny_write_cnt` is the number of
descriptors that deny writes, a finite cardinality changed by one at a time.

### Paging

`PagingInv` is five predicates of a process. `Places`: the call and the argument
that go with a program point, without which a fault in the kernel could return to
the wrong place; its part `Removing` says that a page which is loaded to be written
is the first entry of the mapping that is removed, has not been written to since,
and has room in the file. `Locked`: the two locks, as equivalences. `Listed`:
`PresentIsListed`. `Mapped`: mappings have different files; an entry that is not
the stack's is the first for its page (so the entry that the search finds is
the one that unmapping removes); and there is room in a mapping's file for
the pages still to be written, which is why its position stays in the file.
`DirtySaved` then follows from the invariant and one step of unmapping at a time
(`DropEntryOK` is what its three ways of removing an entry share); that an address is used again by a mapping (`EXE`) is the case that needs `Mapped`.

### BufferCache

`CacheInv`: `Stack`, the LRU list is a permutation of the entries; `Operation`,
what a program point fixes, in particular that at most one entry is pinned;
`Placed`, where sectors can be, including that the second search of
`locate_data`, which does not test `used`, finds nothing but what it should
(sector 0 apart); `Coherent`, clean entries are as the disk; `Flushed`, the
entries `cache_flush` has passed are on the disk although operations go on;
`Closing`, what `closing` says of `pos`. The refinement shows for each action
which step of `SectorStore` it is; eviction and fill are stutters because of
`Placed` and `Coherent`: the contents of a sector are those of its entry, or the
disk's if it has none.

### FileSystem

`CountInv` adds to `CountsAgree` its types and that finitely many files are open.
The proof does not ask what the directory contains: an entry that named no sector
would be counted nowhere. The interesting step is `FilesysRemove`, which opens and
closes the inode in one call, whether or not the file is open elsewhere.

### Only model-checked

- Liveness: `FreeLockIsTaken`, `SemaIsTaken`, `CallsReturn`, `CallsEnd`. Fairness
  is out of the prover's reach.
- `FileSystem`: `SectorsDistinct`, `ReleasesMarked`, `ImplementsFiles`. A call
  allocates, writes and releases blocks in loops, which are folds over sequences
  in the model; what such a fold leaves is an induction over data, which the
  prover cannot do. (The invariant it would need is not simple either: removing a
  sparse file can allocate, clear and free the file's own inode sector several
  times before it is done.)

## 5. What the models show of the code besides the runs

These are outcomes of the modelled steps that no run asks about, with the lines
where they arise.

- `lock_acquire` reads `lock->holder` again for the donation (`proj1`
  `synch.c:215`): after a release in between it donates to NULL.
- A donation pushed after its recipient released the lock (`synch.c:212`) links a
  stack frame that is gone when `lock_acquire` returns.
- A preempted `lock_acquire` can leave a better thread waiting. Threads q, r, t
  have priority 1, y has 2; q holds lock 3, r holds 1 and 2. In `lock_acquire (2)`
  t is preempted between reading the holder r and updating it (`synch.c:215`). r
  releases lock 2, and in `lock_acquire (3)` it has copied its priority 1 into its
  `priority_elem` when y preempts it, donates to r for lock 1 and blocks. r goes
  on, with that 1 as its donation to q, and blocks. t resumes, updates r, and
  through r's `bene` raises q to 2; it finds lock 2 free and returns with priority
  1 although q is ready with 2. TLC, given these threads, locks and calls, refutes
  `RunningIsMax` under `Spec` with a behaviour of 54 states; the instance of
  `locks` is too small for it.
- `bene` is not updated when a lock changes hands (`synch.c:219`,
  `thread.c:372`): nested donation boosts the former holder.
- `sema_less` ranks a waiter that has not reached its `sema_down` above every
  other (`synch.c:318`): `cond_signal` may pass over the best waiter.
- `locate_data`'s second search does not test `used` (`cache.c:155`): on a fresh
  cache sector 0 is answered with uninitialised memory, and an inode created
  there goes to an entry that is never marked used. `ImplementsStore` and
  `CloseSaves` are about the other sectors.
- A removed file whose length is one more than a multiple of the sector size
  keeps its last block, and no indirect block is freed (`inode.c:247`).
- Unmapping writes dirty pages one after the other at the file's position, not
  where they came from (`page.c:131`); the frames of unmapped pages are not freed.
- The dirty bit of an unmapped page stays in the page table (`pagedir.c:139`). A
  later mapping of the address whose page is never touched counts as dirty
  (`page.c:127`): its page is loaded, through a fault of the kernel with
  `file_lock` held, and written, although `proj3/doc/vm.texi:650` says that pages which
  were not written must not be. `DirtySaved` says exactly which pages these are;
  the fault is one more way into the cycle of `lock_cycle`.
- `load` uses `open_inodes` without `file_lock` (`process.c:594`, `inode.c:181`):
  two `struct inode`s for the executable are possible, and a writer through
  the one that is not denied would succeed. The behaviours of `Process` end
  where that may begin (`Race`), so no property excludes it.
- A mapping of an address that is taken, when the new `struct file` has the
  executable's old address, releases `file_lock` twice (`process.c:540`).
- A mapping that overlaps after its first page, `munmap` of an unknown number, a
  buffer that runs into an unmapped page, and a lack of frames end in a panic
  (`process.c:543`, `process.c:596`, `exception.c:107`, `frame.c:70`).
- When memory runs out `process_execute` keeps `file_lock` (`process.c:51`) or
  waits for ever (`process.c:72`); an executable removed while it starts fails an
  assertion (`process.c:111`).

## 6. Plan

1. *(done)* `Scheduler`, `Synch`, `Mutex`, `Monitor`, `Alarm`; exclusion and types
   proved.
2. *(done)* `BufferCache` against `SectorStore`.
3. *(done)* `Process`.
4. *(done)* `Inode`, `FileSystem` against `Files`.
5. *(done)* `Paging`.
6. *(done)* Proofs about `Synch` (queues, wake-ups, tids), `Process`, `Paging` and
   `BufferCache`, the last with its refinement.
7. *(done)* Proofs about `Monitor` and `Alarm`, on top of the lemmas about `Synch`.
8. *(done)* Priorities and donation without preemption.

## 7. Not modelled

- Code that occurs four times. `proj1` to `proj4` are copies of one kernel, with
  the library, the drivers, the user programs and the tests in each; a component
  is modelled in the copy where it is complete, and the other three copies count
  as lines no definition stands for. This, the library and the tests are
  most of the repository.
- The stock scheduler and synchronisation of `proj2` to `proj4`: `Synch` with one
  priority and without donation, apart from FIFO wait lists.
- Two `struct inode`s for one sector, and a `struct inode` used after it was
  freed, as `load`'s calls without `file_lock` can leave them: `FileSystem` has a
  call as one step, and `Process` stops at the race.
- Files beyond the last block pointer ("File too big!", `inode.c:114`): the
  assumption `InputAssumption` of `FileSystem` keeps positions below it.
- Page and block allocators (allocation may fail in the models), interrupt queues,
  lists, hash tables and bitmaps as pointer structures.
- Boot, hardware set-up, port I/O, console and drawing code; interrupt stubs,
  descriptor tables and page tables, which are machine encodings that the
  properties do not tell apart; the ELF loader and the layout of a new stack.
- The user library, example programs and tests (read for what they expect); the
  4.4BSD scheduler (not implemented in the repository); busy-wait delays and
  their calibration; `fsutil.c`; `swap.c` and `process_mkdir`, which are stubs.
