------------------------------- MODULE Process -------------------------------
(***************************************************************************)
(* Processes of projects 2 and 4 (userprog/process.c): process_execute,    *)
(* start_process, process_wait and process_exit, and the process_info that *)
(* a parent and its child share.                                           *)
(*                                                                         *)
(* The kernel is preempted anywhere: a step reads or writes shared memory  *)
(* once, or is a section that interrupts or a blocked partner protect.  A  *)
(* process_info is a block of the heap.  The parent allocates and frees    *)
(* it, and the child reaches it through its p_info; no lock is held on     *)
(* either side.  A step that uses a freed block sets fault, and what       *)
(* happens then is not followed; a block that was allocated again is used  *)
(* like its own.  A failed assertion and a NULL pointer stop the kernel.   *)
(*                                                                         *)
(* All processes run one executable file, with one struct inode.  load     *)
(* opens and closes it without file_lock, and open_inodes has no other     *)
(* lock: where load meets another use of it (Race), behaviours end.        *)
(***************************************************************************)
EXTENDS Integers, Sequences, FiniteSets, SequencesExt

CONSTANTS LastTid,      \* the number of processes ever created
          Blocks,       \* the heap blocks of the size of a process_info
          Statuses,     \* arguments of exit
          NULL

ASSUME TidAssumption == LastTid \in Nat \ {0}
ASSUME StatusAssumption == Statuses \subseteq Nat
ASSUME NullAssumption == NULL \notin Blocks \cup (0..LastTid)

VARIABLES pc,           \* where each process is
          p_info, children,                 \* struct thread
          info,         \* the contents of the blocks
          live,         \* the blocks that are allocated
          file_lock,    \* its holder
          blk, kid,     \* pointers a process has loaded: to a process_info, and
                        \*   to the child that process_exit found in one
          status,       \* the argument of exit
          fd,           \* each process's descriptor of its executable
          present, deny_write_cnt,          \* the executable's name and inode
          fault,        \* "no", or why the kernel cannot go on
          oom,          \* history: an allocation has failed
          stale,        \* history: a block was used that was no longer the user's
          loaded, told, \* history: what load returned in each process, and what
                        \*   process_execute returned about it
          reaped        \* history: the status process_wait returned of it

procVars == <<pc, p_info, children, blk, kid, status>>
heapVars == <<info, live>>
fileVars == <<file_lock, fd, present, deny_write_cnt>>
history  == <<oom, stale, loaded, told, reaped>>
vars == <<procVars, heapVars, fileVars, fault, history>>

\* Thread identifiers are given out in turn.  The initial thread runs the tasks
\* of the kernel's command line and is not a process.
Main == 0
Procs == 0..LastTid
Fresh == {c \in Procs : pc[c] = "none"}

Step(p, from, to) == pc[p] = from /\ pc' = [pc EXCEPT ![p] = to]

\* The kernel panics, or writes where it must not.
Fault(why) == fault' = why /\ UNCHANGED <<procVars, heapVars, fileVars, history>>

\* A pointer that is about to be followed.
Bad(b) == b = NULL \/ b \notin live
Crash(b) == Fault(IF b = NULL THEN "null" ELSE "freed")

\* Process p changes, through the pointer b, its process_info to new.  With the
\* last such step its struct thread is gone.
Through(p, b, from, to, new) ==
    \/ /\ pc[p] = from /\ Bad(b)
       /\ Crash(b)
    \/ /\ ~Bad(b) /\ Step(p, from, to)
       /\ info' = [info EXCEPT ![b] = new]
       /\ stale' = (stale \/ info[b].tid # p)
       /\ blk' = [blk EXCEPT ![p] = NULL]
       /\ p_info' = [p_info EXCEPT ![p] = IF to = "dead" THEN NULL ELSE @]
       /\ UNCHANGED <<children, kid, status, live, fileVars, fault, oom, loaded, told, reaped>>

\* The contents of a block that is not allocated.  free fills it with 0xcc; a step
\* that would read it is a fault, so any one value stands for them.
Blank == [tid |-> NULL, child |-> NULL, success |-> TRUE, exit_status |-> -1,
          start |-> 0, finish |-> 0]

\* lock_acquire (&file_lock) panics in the thread that holds it.
Free == file_lock = NULL

-----------------------------------------------------------------------------
(* process_execute *)

Matches(p, t) == {i \in DOMAIN children[p] : info[children[p][i]].tid = t}

\* The initial thread waits for each task before it starts the next.
MayExec(p) == p = Main => \A t \in Procs : told[t] = "tid" => Matches(p, t) = {}

\* No page for the copy of the file name: the lock is not released.
ExecNoPage(p) ==
    /\ pc[p] = "user" /\ MayExec(p) /\ Free
    /\ file_lock' = p
    /\ oom' = TRUE
    /\ UNCHANGED <<procVars, heapVars, fd, present, deny_write_cnt, fault, stale, loaded, told,
                   reaped>>

\* A call that takes file_lock in the process that already has it.
LockTwice(p) ==
    /\ pc[p] \in {"user", "close"} /\ file_lock = p
    /\ pc[p] = "close" => fd[p] # "no"
    /\ Fault("assert")

\* The new process_info b is put on the list and the child c created, which finds
\* b at the list's back; or there is no page for it.  success is
\* not initialised: in a block that was used before it is not 0.
Exec(p, b, c) ==
    /\ pc[p] = "user" /\ MayExec(p) /\ Free
    /\ file_lock' = p
    /\ live' = live \cup {b}
    /\ children' = [children EXCEPT ![p] = Append(@, b)]
    /\ blk' = [blk EXCEPT ![p] = b]
    /\ info' = [info EXCEPT ![b] = [Blank EXCEPT !.tid = c, !.child = c]]
    /\ pc' = [q \in Procs |-> CASE q = p -> "release" [] q = c -> "load" [] OTHER -> pc[q]]
    /\ p_info' = [q \in Procs |-> IF q = c THEN b ELSE p_info[q]]
    /\ oom' = (oom \/ c = NULL)
    /\ UNCHANGED <<kid, status, fd, present, deny_write_cnt, fault, stale, loaded, told, reaped>>

\* Without memory for the process_info malloc returns NULL, which is written to.
ExecNoBlock(p) ==
    /\ pc[p] = "user" /\ MayExec(p) /\ Free
    /\ Fault("null")

ProcessExecute(p) ==
    \/ ExecNoPage(p)
    \/ ExecNoBlock(p)
    \/ \E b \in Blocks \ live, c \in {NULL} \cup {t \in Fresh : \A u \in Fresh : t <= u} :
           Exec(p, b, c)

ExecRelease(p) ==
    /\ Step(p, "release", "starting")
    /\ file_lock' = NULL
    /\ UNCHANGED <<p_info, children, blk, kid, status, heapVars, fd, present,
                   deny_write_cnt, fault, history>>

\* What process_execute returns about the child with the process_info b, if there is
\* one.
Answered(b) ==
    [t \in Procs |-> IF t # info[b].tid THEN told[t]
                     ELSE IF info[b].success THEN "tid" ELSE "error"]

\* Mutation: process_execute does not wait for the child to load.
ExecReturnAtOnce(p) ==
    LET b == blk[p]
    IN  /\ Step(p, "starting", "user")
        /\ told' = Answered(b)
        /\ blk' = [blk EXCEPT ![p] = NULL]
        /\ UNCHANGED <<p_info, children, kid, status, heapVars, fileVars, fault, oom,
                       stale, loaded, reaped>>

\* sema_down (&child_info->sema_start), and the result.
ExecReturn(p) ==
    LET b == blk[p]
    IN  /\ Step(p, "starting", "user")
        /\ info[b].start > 0
        /\ info' = [info EXCEPT ![b].start = @ - 1]
        /\ told' = Answered(b)
        /\ blk' = [blk EXCEPT ![p] = NULL]
        /\ UNCHANGED <<p_info, children, kid, status, live, fileVars, fault, oom,
                       stale, loaded, reaped>>

-----------------------------------------------------------------------------
(* start_process *)

\* load, and its result for the parent.  Without memory for the copy of the name
\* load returns TID_ERROR, which is true.  The parent is blocked, so that p_info is
\* this process's own, unless an up of sema_start that was not meant for the parent
\* has let it go.
Load(p, ok) ==
    LET b == p_info[p]
    IN  \/ /\ pc[p] = "load" /\ Bad(b)
           /\ Crash(b)
        \/ /\ Step(p, "load", IF ok THEN "open" ELSE "children")
           /\ ~Bad(b)
           /\ loaded' = [loaded EXCEPT ![p] = IF ok THEN "ok" ELSE "failed"]
           /\ info' = [info EXCEPT ![b].success = ok]
           /\ oom' = (oom \/ (ok /\ ~present))
           /\ stale' = (stale \/ info[b].tid # p)
           /\ UNCHANGED <<p_info, children, blk, kid, status, live, fileVars, fault, told,
                          reaped>>

\* load's filesys_open and file_close change open_inodes and open_cnt without a lock
\* while another process does (inode_open, inode_close).  The file may end up with
\* two struct inodes, or a freed one be used.  The model has one, and stops here.
Race(p, q) ==
    /\ pc[p] = "load" /\ q # p
    /\ pc[q] \in {"user", "load", "open", "close"} /\ (pc[q] = "user" => q # Main)
    /\ Fault("raced")

\* process_file_open of the executable: -1 when it has been removed meanwhile, or
\* without memory for a struct inode or file.  Without memory for the file_info
\* malloc returns NULL, which is written to.
OpenExecutable(p) ==
    \/ /\ pc[p] = "open" /\ Free /\ present
       /\ Fault("null")
    \/ /\ Step(p, "open", "deny") /\ Free
       /\ \/ present /\ fd' = [fd EXCEPT ![p] = "open"] /\ UNCHANGED oom
          \/ UNCHANGED fd /\ oom' = (oom \/ present)
       /\ UNCHANGED <<p_info, children, blk, kid, status, heapVars, file_lock, present,
                      deny_write_cnt, fault, stale, loaded, told, reaped>>

\* file_deny_write (get_file (fd)) asserts that there is a file.
DenyWrite(p) ==
    \/ /\ pc[p] = "deny" /\ Free /\ fd[p] = "no"
       /\ Fault("assert")
    \/ /\ Step(p, "deny", "ready") /\ Free /\ fd[p] = "open"
       /\ fd' = [fd EXCEPT ![p] = "denied"]
       /\ deny_write_cnt' = deny_write_cnt + 1
       /\ UNCHANGED <<p_info, children, blk, kid, status, heapVars, file_lock, present,
                      fault, history>>

\* The parent blocks, so p_info is available.
Ready(p) ==
    Through(p, p_info[p], "ready", "user", [info[p_info[p]] EXCEPT !.start = @ + 1])

-----------------------------------------------------------------------------
(* process_wait *)

\* The child t is looked for; without one the call returns -1 and changes nothing.
WaitFind(p, t) ==
    /\ Step(p, "user", "waiting")
    /\ p = Main => told[t] = "tid"
    /\ Matches(p, t) # {}
    /\ blk' = [blk EXCEPT ![p] = children[p][CHOOSE i \in Matches(p, t) :
                                                 \A j \in Matches(p, t) : i <= j]]
    /\ UNCHANGED <<p_info, children, kid, status, heapVars, fileVars, fault, history>>

\* list_remove of the element in b.
Unlink(list, b) == RemoveAt(list, CHOOSE i \in DOMAIN list : list[i] = b)

\* Mutation: the process_info is freed and stays on the list.
WaitReturnListed(p) ==
    LET b == blk[p]
    IN  /\ Step(p, "waiting", "user")
        /\ info[b].finish > 0
        /\ info' = [info EXCEPT ![b] = Blank]
        /\ reaped' = [reaped EXCEPT ![info[b].tid] = Append(@, info[b].exit_status)]
        /\ live' = live \ {b}
        /\ blk' = [blk EXCEPT ![p] = NULL]
        /\ UNCHANGED <<p_info, children, kid, status, fileVars, fault, oom, stale, loaded, told>>

\* sema_down (&p_info->sema_finish), the status, list_remove and free, which leaves
\* nothing of the block.
WaitReturn(p) ==
    LET b == blk[p]
    IN  /\ Step(p, "waiting", "user")
        /\ info[b].finish > 0
        /\ info' = [info EXCEPT ![b] = Blank]
        /\ reaped' = [reaped EXCEPT ![info[b].tid] = Append(@, info[b].exit_status)]
        /\ children' = [children EXCEPT ![p] = Unlink(@, b)]
        /\ live' = live \ {b}
        /\ blk' = [blk EXCEPT ![p] = NULL]
        /\ UNCHANGED <<p_info, kid, status, fileVars, fault, oom, stale, loaded, told>>

-----------------------------------------------------------------------------
(* process_exit *)

\* Mutation: the parent is released before the status is stored.
ExitEarly(p, s) ==
    /\ p # Main
    /\ Step(p, "user", IF p_info[p] = NULL THEN "children" ELSE "store")
    /\ status' = [status EXCEPT ![p] = s]
    /\ blk' = [blk EXCEPT ![p] = p_info[p]]
    /\ info' = IF p_info[p] = NULL THEN info ELSE [info EXCEPT ![p_info[p]].finish = @ + 1]
    /\ UNCHANGED <<p_info, children, kid, live, fileVars, fault, history>>

\* The system call exit tests p_info.
Exit(p, s) ==
    /\ p # Main
    /\ Step(p, "user", IF p_info[p] = NULL THEN "children" ELSE "store")
    /\ status' = [status EXCEPT ![p] = s]
    /\ blk' = [blk EXCEPT ![p] = p_info[p]]
    /\ UNCHANGED <<p_info, children, kid, heapVars, fileVars, fault, history>>

\* ... and stores the status through the pointer it has tested.
ExitStore(p) ==
    Through(p, blk[p], "store", "children", [info[blk[p]] EXCEPT !.exit_status = status[p]])

\* An exception, or an address that verify_addr rejects: thread_exit at once.
Kill(p) ==
    /\ p # Main
    /\ Step(p, "user", "children")
    /\ UNCHANGED <<p_info, children, blk, kid, status, heapVars, fileVars, fault, history>>

\* The first child on the list: whether it has exited.
FindChild(p) ==
    /\ pc[p] = "children"
    /\ IF children[p] = <<>>
       THEN pc' = [pc EXCEPT ![p] = "close"] /\ UNCHANGED kid
       ELSE /\ pc' = [pc EXCEPT ![p] = "unlink"]
            /\ kid' = [kid EXCEPT ![p] = info[Head(children[p])].child]
    /\ UNCHANGED <<p_info, children, blk, status, heapVars, fileVars, fault, history>>

\* Mutation: the child is not told that its process_info is gone.
FreeChildSilently(p) ==
    /\ Step(p, "unlink", "children")
    /\ live' = live \ {Head(children[p])}
    /\ children' = [children EXCEPT ![p] = Tail(@)]
    /\ kid' = [kid EXCEPT ![p] = NULL]
    /\ info' = [info EXCEPT ![Head(children[p])] = Blank]
    /\ UNCHANGED <<p_info, blk, status, fileVars, fault, history>>

\* If it has not, it is told that the parent has quit; the process_info is freed.
\* By now the child's page may be free: it was alive when its pointer was loaded.
FreeChild(p) ==
    LET c == kid[p]
    IN  \/ /\ pc[p] = "unlink" /\ c # NULL /\ pc[c] = "dead"
           /\ Fault("freed")
        \/ /\ Step(p, "unlink", "children")
           /\ c # NULL => pc[c] # "dead"
           /\ p_info' = [q \in Procs |-> IF q = c THEN NULL ELSE p_info[q]]
           /\ live' = live \ {Head(children[p])}
           /\ info' = [info EXCEPT ![Head(children[p])] = Blank]
           /\ children' = [children EXCEPT ![p] = Tail(@)]
           /\ kid' = [kid EXCEPT ![p] = NULL]
           /\ UNCHANGED <<blk, status, fileVars, fault, history>>

\* Mutation: closing a file that did not deny writes allows them once more.
CloseFileAllow(p) ==
    /\ fd' = [fd EXCEPT ![p] = "no"]
    /\ deny_write_cnt' = deny_write_cnt - 1
    /\ UNCHANGED <<file_lock, present>>

\* Mutation: closing the file allows writes although others deny them.
CloseFileReset(p) ==
    /\ fd' = [fd EXCEPT ![p] = "no"]
    /\ deny_write_cnt' = IF fd[p] = "denied" THEN 0 ELSE deny_write_cnt
    /\ UNCHANGED <<file_lock, present>>

\* The open files, here the executable, are closed.
CloseFile(p) ==
    /\ fd' = [fd EXCEPT ![p] = "no"]
    /\ deny_write_cnt' = IF fd[p] = "denied" THEN deny_write_cnt - 1 ELSE deny_write_cnt
    /\ UNCHANGED <<file_lock, present>>

ExitClose(p) ==
    /\ Step(p, "close", "test")
    /\ fd[p] # "no" => Free
    /\ CloseFile(p)
    /\ UNCHANGED <<p_info, children, blk, kid, status, heapVars, fault, history>>

ExitTest(p) ==
    /\ Step(p, "test", IF p_info[p] = NULL THEN "dead" ELSE "mark")
    /\ blk' = [blk EXCEPT ![p] = p_info[p]]
    /\ UNCHANGED <<p_info, children, kid, status, heapVars, fileVars, fault, history>>

\* This thread is no longer active: through the pointer that was tested.
ExitMark(p) ==
    Through(p, blk[p], "mark", "finish", [info[blk[p]] EXCEPT !.child = NULL])

\* If the parent is waiting, release it.  From here cur->p_info is loaded again.
ExitFinish(p) ==
    Through(p, p_info[p], "finish", "success", [info[p_info[p]] EXCEPT !.finish = @ + 1])

\* Mutation: nobody releases the creator of a thread that did not get started.
ExitSuccessQuiet(p) == Through(p, p_info[p], "success", "dead", info[p_info[p]])

\* Whether this thread ever got started.
ExitSuccess(p) ==
    Through(p, p_info[p], "success", IF info[p_info[p]].success THEN "dead" ELSE "creator",
            info[p_info[p]])

\* If it did not, release the creator.
ExitRelease(p) ==
    Through(p, p_info[p], "creator", "dead", [info[p_info[p]] EXCEPT !.start = @ + 1])

-----------------------------------------------------------------------------
(* Other system calls on the executable. *)

\* remove
RemoveExecutable(p) ==
    /\ p # Main /\ pc[p] = "user" /\ Free
    /\ present /\ present' = FALSE
    /\ UNCHANGED <<procVars, heapVars, file_lock, fd, deny_write_cnt, fault, history>>

\* close: the executable's descriptor is an ordinary one.
CloseExecutable(p) ==
    /\ p # Main /\ pc[p] = "user" /\ Free /\ fd[p] # "no"
    /\ CloseFile(p)
    /\ UNCHANGED <<procVars, heapVars, fault, history>>

-----------------------------------------------------------------------------

Init ==
    /\ pc = [p \in Procs |-> IF p = Main THEN "user" ELSE "none"]
    /\ p_info = [p \in Procs |-> NULL] /\ children = [p \in Procs |-> <<>>]
    /\ blk = [p \in Procs |-> NULL] /\ kid = [p \in Procs |-> NULL]
    /\ status = [p \in Procs |-> -1]
    /\ info = [b \in Blocks |-> Blank]
    /\ live = {}
    /\ file_lock = NULL /\ fd = [p \in Procs |-> "no"]
    /\ present = TRUE /\ deny_write_cnt = 0
    /\ fault = "no" /\ oom = FALSE /\ stale = FALSE
    /\ loaded = [p \in Procs |-> "no"] /\ told = [p \in Procs |-> "no"]
    /\ reaped = [p \in Procs |-> <<>>]

\* What the kernel does for p without waiting for its program.
KernelStep(p) ==
    \/ ExecRelease(p) \/ ExecReturn(p)
    \/ \E ok \in BOOLEAN : Load(p, ok)
    \/ OpenExecutable(p) \/ DenyWrite(p) \/ Ready(p)
    \/ WaitReturn(p)
    \/ ExitStore(p) \/ FindChild(p) \/ FreeChild(p) \/ ExitClose(p) \/ ExitTest(p)
    \/ ExitMark(p) \/ ExitFinish(p) \/ ExitSuccess(p) \/ ExitRelease(p)

\* The system calls, and what a program or its user may cause at any time.
UserStep(p) ==
    \/ ProcessExecute(p) \/ LockTwice(p)
    \/ \E t \in Procs : WaitFind(p, t)
    \/ \E s \in Statuses : Exit(p, s)
    \/ Kill(p) \/ RemoveExecutable(p) \/ CloseExecutable(p)
    \/ \E q \in Procs : Race(p, q)

Next == fault = "no" /\ \E p \in Procs : KernelStep(p) \/ UserStep(p)

Spec == Init /\ [][Next]_vars

\* The scheduler is round robin and the timer preempts, so a thread that can go
\* on does; programs may compute for ever.
FairSpec == Spec /\ \A p \in Procs : WF_vars(fault = "no" /\ KernelStep(p))

-----------------------------------------------------------------------------
(* Properties. *)

InfoType == [tid : Procs \cup {NULL}, child : Procs \cup {NULL}, success : BOOLEAN,
             exit_status : Statuses \cup {-1}, start : Nat, finish : Nat]

PTypeOK ==
    /\ pc \in [Procs -> {"none", "user", "release", "starting", "load", "open", "deny", "ready",
                         "waiting", "store", "children", "unlink", "close", "test", "mark",
                         "finish", "success", "creator", "dead"}]
    /\ p_info \in [Procs -> Blocks \cup {NULL}] /\ children \in [Procs -> Seq(Blocks)]
    /\ blk \in [Procs -> Blocks \cup {NULL}] /\ kid \in [Procs -> Procs \cup {NULL}]
    /\ status \in [Procs -> Statuses \cup {-1}]
    /\ info \in [Blocks -> InfoType] /\ live \subseteq Blocks
    /\ file_lock \in Procs \cup {NULL} /\ fd \in [Procs -> {"no", "open", "denied"}]
    /\ present \in BOOLEAN /\ deny_write_cnt \in Nat
    /\ fault \in {"no", "null", "freed", "assert", "raced"} /\ oom \in BOOLEAN /\ stale \in BOOLEAN
    /\ loaded \in [Procs -> {"no", "ok", "failed"}] /\ told \in [Procs -> {"no", "tid", "error"}]
    /\ reaped \in [Procs -> Seq(Statuses \cup {-1})]

\* The phases of a child: before its parent is told, and before it has left its
\* process_info.
Starting == {"load", "open", "deny", "ready"}
Exiting == {"store", "children", "unlink", "close", "test", "mark", "finish", "success",
            "creator", "dead"}
Finished == {"success", "creator", "dead"}  \* ... after the up of sema_finish
Attached == Starting \cup {"user", "release", "starting", "waiting", "store", "children",
                           "unlink", "close", "test"}

\* A process that has not begun to leave its process_info finds there its own,
\* allocated, or NULL; and while it starts, not NULL.
OwnInfo ==
    ~stale => \A p \in Procs :
        /\ pc[p] \in Attached /\ p_info[p] # NULL =>
               p_info[p] \in live /\ info[p_info[p]].tid = p /\ info[p_info[p]].child = p
        /\ pc[p] \in Starting => p_info[p] # NULL

\* Every allocated process_info is on the list of one living process, once.
ListedOnce ==
    /\ UNION {ToSet(children[p]) : p \in Procs} = live
    /\ \A p \in Procs : IsInjective(children[p])
    /\ \A p, q \in Procs : p # q => ToSet(children[p]) \cap ToSet(children[q]) = {}
    /\ \A p \in Procs : pc[p] \in {"none", "dead"} => children[p] = <<>>

\* As long as no process_info was used that had another owner, process_execute
\* returns a tid only after load has succeeded and an error only after it has failed.
ExecTells ==
    ~stale => \A c \in Procs : /\ told[c] = "tid" => loaded[c] = "ok"
                               /\ told[c] = "error" => loaded[c] = "failed"

\* One process_wait returns the status of a child, the one it passed to exit or
\* -1, after the child has given it.
StatusReported ==
    ~stale => \A c \in Procs :
        \/ reaped[c] = <<>>
        \/ reaped[c] = <<status[c]>> /\ pc[c] \in Finished

\* A parent in process_wait can still be woken, whatever was freed and used again
\* meanwhile; so can one in process_execute as long as no process_info was used that
\* had another owner.
WaitersServed ==
    \A p \in Procs :
        LET i == info[blk[p]]
        IN  /\ ~stale /\ pc[p] = "starting" /\ i.tid # NULL =>
                   \/ i.start > 0 \/ pc[i.tid] \in Starting
                   \/ ~i.success /\ pc[i.tid] # "dead"
            /\ pc[p] = "waiting" => i.finish > 0 \/ pc[i.tid] \notin Finished

\* Writes to the executable are denied while a process that has not closed it
\* runs, whoever else has opened, closed or finished running it: up to the first time
\* that load meets another use of open_inodes, which is where behaviours end.
RunningDenied == \A p \in Procs : pc[p] = "user" /\ fd[p] # "no" => deny_write_cnt > 0

\* process_wait returns when the child exits, unless memory ran out or the kernel
\* panicked; and process_execute returns, unless besides a process_info was used that
\* had another owner.
Excused == oom \/ fault # "no"
CallsReturn ==
    \A p \in Procs :
        /\ pc[p] = "starting" ~> pc[p] # "starting" \/ Excused \/ stale
        /\ \A c \in Procs : pc[p] = "waiting" /\ info[blk[p]].tid = c /\ pc[c] \in Exiting
                               ~> pc[p] # "waiting" \/ Excused

\* process_wait waits for the child to die and returns its exit status.
WaitWaits ==
    \A c \in Procs : reaped[c] # <<>> => reaped[c] = <<status[c]>> /\ pc[c] \in Finished
=============================================================================
