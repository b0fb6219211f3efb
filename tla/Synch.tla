-------------------------------- MODULE Synch --------------------------------
(***************************************************************************)
(* The preemptible kernel of project 1: semaphores and locks with priority *)
(* donation (proj1/src/threads/synch.c) on the priority scheduler          *)
(* (proj1/src/threads/thread.c), with thread creation and exit.  Monitor   *)
(* adds the condition variables and Alarm timer_sleep.                     *)
(*                                                                         *)
(* Interleaving.  There is one CPU: a step is a step of the running thread *)
(* or an external interrupt.  Code between intr_disable() and              *)
(* intr_set_level() is one step.  Everything else can be preempted by the  *)
(* timer: lock_acquire() and lock_release() are cut at their accesses to   *)
(* shared memory, and one pass over one thread's priority_chain (the push  *)
(* of thread_donate_priority, one level of thread_update_donation,         *)
(* thread_release_priorities, thread_update_priority) is one step.         *)
(*                                                                         *)
(* Threads run arbitrary code that obeys the rules the comments in synch.c *)
(* state (no recursive acquire, release by the holder only), takes locks   *)
(* in increasing order and exits holding none.                             *)
(*                                                                         *)
(* A use of memory that is no longer there (a NULL recipient, a freed      *)
(* struct thread, a priority_elem in a returned stack frame) sets fault;   *)
(* what the kernel does after that is not modelled.                        *)
(***************************************************************************)
EXTENDS Scheduler, FiniteSets

CONSTANTS Locks,        \* struct lock, numbered by the order clients take them
          TidLock,      \* tid_lock
          Semas,        \* struct semaphore used directly
          Pris,         \* the priorities threads are given (PRI_MIN..PRI_MAX)
          NewPris,      \* those clients pass to thread_set_priority
          Main,         \* initial_thread, whose page is never freed
          Started,      \* the threads that exist in the initial state
          SliceExpires, \* whether threads run for whole time slices
          SemaMax,      \* bound on the value of a plain semaphore
          NULL

PRI_MAX == 63

ASSUME LocksAssumption == Locks \subseteq Nat /\ TidLock \in Locks
ASSUME PrisAssumption == Pris \subseteq 0..PRI_MAX /\ Pris # {} /\ NewPris \subseteq Pris
ASSUME StartedAssumption ==
    Main \in Started /\ Started \subseteq Threads /\ IsFiniteSet(Started)
ASSUME SliceAssumption == SliceExpires \in BOOLEAN /\ SemaMax \in Nat
ASSUME DistinctAssumption ==
    /\ Locks \cap Semas = {} /\ Locks \cap Threads = {} /\ Semas \cap Threads = {}
    /\ NULL \notin Threads /\ Idle # NULL

VARIABLES init_pri,       \* struct thread: init_pri
          chain,          \* struct thread: priority_chain, as the set of threads
                          \*   whose priority_elem is linked on it
          bene,           \* struct thread: bene
          bene_elem,      \* struct thread: bene_elem is not NULL
          pe,             \* the priority_elem in a thread's lock_acquire frame
          holder,         \* struct lock: holder
          value,          \* struct semaphore: value
          waiters,        \* struct semaphore: waiters
          next_tid, tid,  \* allocate_tid's counter; struct thread: tid
          pc,             \* where a thread is in the code below
          lk,             \* the lock or semaphore its current call is about
          ret,            \* where its current call returns to
          rcp,            \* the thread its current call is about
          child,          \* the thread its thread_create is making
          fault           \* the first use of memory that is not there

donVars == <<init_pri, chain, bene, bene_elem, pe>>
semVars == <<value, waiters>>
tidVars == <<next_tid, tid, child>>
locVars == <<lk, ret, rcp>>
vars == <<schedVars, priority, donVars, holder, semVars, tidVars, pc, locVars, fault>>

\* Every semaphore: those of the locks, the plain ones, and the ones cond_wait
\* and timer_sleep keep on the stacks of threads (see Monitor and Alarm).
Sems == Locks \cup Semas \cup Threads

\* Program points between two steps.
InAcquire == {"la_pri", "la_arg", "la_push", "la_upd", "la_bene", "la_elem",
              "la_down", "la_wake", "la_own", "la_clr"}
InRelease == {"lr_rel", "lr_up", "lr_pri"}
InCreate  == {"tc_lock", "tc_tid", "tc_inc", "tc_go"}
InCond    == {"cw_down", "cw_wake", "cw_lock", "cs_up", "cb_loop"}   \* see Monitor
InSleep   == {"ts_ins", "ts_down", "ts_wake"}                         \* see Alarm
PCs == {"run", "sd_wake", "lt_own"}
           \cup InAcquire \cup InRelease \cup InCreate \cup InCond \cup InSleep

\* Inside the loop of sema_down, where interrupts are off.
WakePCs == {"la_wake", "sd_wake", "cw_wake", "ts_wake"}

Faults == {"none", "null_recipient", "null_elem", "freed", "dangling"}

Elem == [priority : Pris, lock : Locks]
NoElem == [priority |-> CHOOSE p \in Pris : TRUE, lock |-> TidLock]

-----------------------------------------------------------------------------
(* Control. *)

\* Thread t runs and is about to execute the code at program point p.
At(t, p) == fault = "none" /\ cur = t /\ pc[t] = p

Goto(t, p) == pc' = [pc EXCEPT ![t] = p]

\* A call to lock_acquire or lock_release on l that will return to back.
Call(t, l, p, back) ==
    /\ lk' = [lk EXCEPT ![t] = l]
    /\ ret' = [ret EXCEPT ![t] = back]
    /\ Goto(t, p)

\* Its return.  The locals are dead, except cond_wait's lock.
Return(t) ==
    /\ Goto(t, ret[t])
    /\ lk' = [lk EXCEPT ![t] = IF ret[t] = "cw_down" THEN @ ELSE NULL]
    /\ ret' = [ret EXCEPT ![t] = "run"]

InterruptsOn == cur \notin {t \in Threads : pc[t] \in WakePCs}

Crash(f) ==
    /\ fault' = f
    /\ UNCHANGED <<schedVars, priority, donVars, holder, semVars, tidVars, pc, locVars>>

-----------------------------------------------------------------------------
(* Semaphores. *)

\* One pass of sema_down's loop by the running thread: take the semaphore and
\* go on to ok, or join the waiters and block, to wake up at wake.
SemaDown(t, s, ok, wake) ==
    \/ /\ value[s] > 0
       /\ value' = [value EXCEPT ![s] = @ - 1]
       /\ Goto(t, ok)
       /\ UNCHANGED <<schedVars, waiters>>
    \/ /\ value[s] = 0
       /\ waiters' = [waiters EXCEPT ![s] = Append(@, t)]
       /\ ThreadBlock
       /\ Goto(t, wake)
       /\ UNCHANGED value

\* Mutation: sema_up leaves the thread it wakes on the wait list.
SemaUpNoRemove(s) ==
    LET w == waiters[s][ListMax(waiters[s], priority)]
    IN  /\ value' = [value EXCEPT ![s] = @ + 1]
        /\ UNCHANGED waiters
        /\ \/ /\ waiters[s] = <<>>
              /\ ThreadYield(ready_list, status, priority)
           \/ /\ waiters[s] # <<>>
              /\ ThreadYield(Cons(w, ready_list), [status EXCEPT ![w] = "ready"], priority)

\* Mutation: sema_up counts up and wakes nobody.
SemaUpNoWake(s) ==
    /\ value' = [value EXCEPT ![s] = @ + 1]
    /\ ThreadYield(ready_list, status, priority)
    /\ UNCHANGED waiters

\* sema_up, from a thread or from an interrupt handler: wake the waiter of the
\* highest priority, count up, and yield (now, or on return from the interrupt).
SemaUp(s) ==
    LET i == ListMax(waiters[s], priority)
        w == waiters[s][i]
    IN  /\ value' = [value EXCEPT ![s] = @ + 1]
        /\ \/ /\ waiters[s] = <<>>
              /\ ThreadYield(ready_list, status, priority)
              /\ UNCHANGED waiters
           \/ /\ waiters[s] # <<>>
              /\ waiters' = [waiters EXCEPT ![s] = RemoveAt(@, i)]
              /\ ThreadYield(Cons(w, ready_list), [status EXCEPT ![w] = "ready"], priority)

\* sema_down on a plain semaphore, on entry and after each wake-up.
ThreadSemaDown(t, s) ==
    /\ At(t, "run")
    /\ SemaDown(t, s, "run", "sd_wake")
    /\ lk' = [lk EXCEPT ![t] = IF value[s] > 0 THEN NULL ELSE s]
    /\ UNCHANGED <<priority, donVars, holder, tidVars, ret, rcp, fault>>

SemaDownRetry(t) ==
    /\ At(t, "sd_wake")
    /\ SemaDown(t, lk[t], "run", "sd_wake")
    /\ lk' = [lk EXCEPT ![t] = IF value[lk[t]] > 0 THEN NULL ELSE @]
    /\ UNCHANGED <<priority, donVars, holder, tidVars, ret, rcp, fault>>

ThreadSemaUp(t, s) ==
    /\ At(t, "run")
    /\ value[s] < SemaMax
    /\ SemaUp(s)
    /\ UNCHANGED <<priority, donVars, holder, tidVars, pc, locVars, fault>>

\* A device interrupt ups a semaphore, whatever thread it interrupts.
InterruptSemaUp(s) ==
    /\ fault = "none"
    /\ InterruptsOn
    /\ value[s] < SemaMax
    /\ SemaUp(s)
    /\ UNCHANGED <<priority, donVars, holder, tidVars, pc, locVars, fault>>

-----------------------------------------------------------------------------
(* Priority donation. *)

MaxOf(S) == CHOOSE x \in S : \A y \in S : y <= x

\* Mutation: thread_update_priority forgets the donations.
BasePriority(r, base) == base

\* thread_update_priority(r): the maximum of the base and the donated ones.
UpdatedPriority(r, base) == MaxOf({base} \cup {pe[x].priority : x \in chain[r]})

\* The priority_elems on r's chain that are not those of a lock_acquire in
\* progress: the frame they were in has returned.
Dangling(r) == {x \in chain[r] : pc[x] \notin {"la_upd", "la_bene", "la_elem"} /\ ~bene_elem[x]}

Linked(t) == \E r \in Threads : t \in chain[r]

\* thread_schedule_tail has freed the page of t.
Freed(t) == status[t] = "dead" /\ t # Main

\* Mutation: thread_update_donation does not go on to r's own bene.
UpdateOneLevel(t, r, done) ==
    /\ ~Freed(r) /\ Dangling(r) = {}
    /\ priority' = [priority EXCEPT ![r] = UpdatedPriority(r, init_pri[r])]
    /\ rcp' = [rcp EXCEPT ![t] = NULL]
    /\ Goto(t, done)
    /\ UNCHANGED <<schedVars, donVars, holder, semVars, tidVars, lk, ret, fault>>

\* One level of thread_update_donation(r) on behalf of the running thread t:
\* r's priority, then r's own donation, then on to r's bene.
UpdateDonation(t, r, done) ==
    \/ /\ Freed(r)
       /\ Crash("freed")
    \/ /\ ~Freed(r) /\ Dangling(r) # {}
       /\ Crash("dangling")
    \/ /\ ~Freed(r) /\ Dangling(r) = {}
       /\ bene[r] # NULL /\ ~bene_elem[r]
       /\ Crash("null_elem")
    \/ /\ ~Freed(r) /\ Dangling(r) = {}
       /\ bene[r] # NULL => bene_elem[r]
       /\ priority' = [priority EXCEPT ![r] = UpdatedPriority(r, init_pri[r])]
       /\ \/ /\ bene[r] # NULL
             /\ pe' = [pe EXCEPT ![r].priority = UpdatedPriority(r, init_pri[r])]
             /\ rcp' = [rcp EXCEPT ![t] = bene[r]]
             /\ UNCHANGED pc
          \/ /\ bene[r] = NULL
             /\ rcp' = [rcp EXCEPT ![t] = NULL]
             /\ Goto(t, done)
             /\ UNCHANGED pe
       /\ UNCHANGED <<schedVars, init_pri, chain, bene, bene_elem, holder, semVars,
                      tidVars, lk, ret, fault>>

-----------------------------------------------------------------------------
(* lock_acquire and lock_try_acquire. *)

\* The first test of lock_acquire(l): is there a holder to donate to?
AcquireCheck(t, l, back) ==
    /\ Call(t, l, IF holder[l] = NULL THEN "la_down" ELSE "la_pri", back)
    /\ UNCHANGED <<schedVars, priority, donVars, holder, semVars, tidVars, rcp, fault>>

\* The locks clients may take next.
MayTake(t, l) == l # TidLock /\ \A k \in Locks : holder[k] = t => k < l

LockAcquire(t, l) ==
    /\ At(t, "run")
    /\ MayTake(t, l)
    /\ AcquireCheck(t, l, "run")

\* pe.priority = thread_get_priority (); pe.lock = lock.  If the element of an
\* earlier call is still linked, its links are overwritten.
AcquirePriority(t) ==
    /\ At(t, "la_pri")
    /\ \/ /\ Linked(t)
          /\ Crash("dangling")
       \/ /\ ~Linked(t)
          /\ pe' = [pe EXCEPT ![t] = [priority |-> priority[t], lock |-> lk[t]]]
          /\ Goto(t, "la_arg")
          /\ UNCHANGED <<schedVars, priority, init_pri, chain, bene, bene_elem, holder,
                         semVars, tidVars, locVars, fault>>

\* lock->holder, read again as the argument of thread_donate_priority.
AcquireRecipient(t) ==
    /\ At(t, "la_arg")
    /\ rcp' = [rcp EXCEPT ![t] = holder[lk[t]]]
    /\ Goto(t, "la_push")
    /\ UNCHANGED <<schedVars, priority, donVars, holder, semVars, tidVars, lk, ret, fault>>

\* thread_donate_priority: list_push_front on the recipient's priority_chain.
DonatePush(t) ==
    /\ At(t, "la_push")
    /\ \/ /\ rcp[t] = NULL
          /\ Crash("null_recipient")
       \/ /\ rcp[t] # NULL
          /\ Freed(rcp[t])
          /\ Crash("freed")
       \/ /\ rcp[t] # NULL
          /\ ~Freed(rcp[t])
          /\ chain' = [chain EXCEPT ![rcp[t]] = @ \cup {t}]
          /\ Goto(t, "la_upd")
          /\ UNCHANGED <<schedVars, priority, init_pri, bene, bene_elem, pe, holder,
                         semVars, tidVars, locVars, fault>>

\* thread_donate_priority: thread_update_donation on the recipient.
DonateUpdate(t) ==
    /\ At(t, "la_upd")
    /\ UpdateDonation(t, rcp[t], "la_bene")

\* thread_current ()->bene = lock->holder, read a third time.
AcquireBene(t) ==
    /\ At(t, "la_bene")
    /\ bene' = [bene EXCEPT ![t] = holder[lk[t]]]
    /\ Goto(t, "la_elem")
    /\ UNCHANGED <<schedVars, priority, init_pri, chain, bene_elem, pe, holder, semVars,
                   tidVars, locVars, fault>>

AcquireBeneElem(t) ==
    /\ At(t, "la_elem")
    /\ bene_elem' = [bene_elem EXCEPT ![t] = TRUE]
    /\ Goto(t, "la_down")
    /\ UNCHANGED <<schedVars, priority, init_pri, chain, bene, pe, holder, semVars,
                   tidVars, locVars, fault>>

\* Mutation: sema_down tests the value with an if, not in a loop.
AcquireDownOnce(t) ==
    /\ \/ /\ At(t, "la_down")
          /\ SemaDown(t, lk[t], "la_own", "la_wake")
       \/ /\ At(t, "la_wake")
          /\ value' = [value EXCEPT ![lk[t]] = @ - 1]
          /\ Goto(t, "la_own")
          /\ UNCHANGED <<schedVars, waiters>>
    /\ UNCHANGED <<priority, donVars, holder, tidVars, locVars, fault>>

\* Mutation: sema_try_down in place of sema_down, its result ignored.
AcquireDownAnyway(t) ==
    /\ At(t, "la_down") \/ At(t, "la_wake")
    /\ value' = [value EXCEPT ![lk[t]] = 0]
    /\ Goto(t, "la_own")
    /\ UNCHANGED <<schedVars, waiters, priority, donVars, holder, tidVars, locVars, fault>>

\* sema_down (&lock->semaphore), on entry and after each wake-up.
AcquireDown(t) ==
    /\ At(t, "la_down") \/ At(t, "la_wake")
    /\ SemaDown(t, lk[t], "la_own", "la_wake")
    /\ UNCHANGED <<priority, donVars, holder, tidVars, locVars, fault>>

\* lock->holder = thread_current ()
AcquireHolder(t) ==
    /\ At(t, "la_own")
    /\ holder' = [holder EXCEPT ![lk[t]] = t]
    /\ Goto(t, "la_clr")
    /\ UNCHANGED <<schedVars, priority, donVars, semVars, tidVars, locVars, fault>>

\* The donation is over: bene and bene_elem become NULL, and the frame with pe
\* in it is gone (nothing reads it again without a fault).
AcquireReturn(t) ==
    /\ At(t, "la_clr")
    /\ bene' = [bene EXCEPT ![t] = NULL]
    /\ bene_elem' = [bene_elem EXCEPT ![t] = FALSE]
    /\ pe' = [pe EXCEPT ![t] = NoElem]
    /\ Return(t)
    /\ UNCHANGED <<schedVars, priority, init_pri, chain, holder, semVars, tidVars, rcp,
                   fault>>

\* lock_try_acquire: a sema_try_down that succeeds (one that fails changes
\* nothing), then the holder.
LockTryAcquire(t, l) ==
    /\ At(t, "run")
    /\ MayTake(t, l)
    /\ value[l] > 0
    /\ value' = [value EXCEPT ![l] = @ - 1]
    /\ Call(t, l, "lt_own", "run")
    /\ UNCHANGED <<schedVars, priority, donVars, holder, waiters, tidVars, rcp, fault>>

TryAcquireHolder(t) ==
    /\ At(t, "lt_own")
    /\ holder' = [holder EXCEPT ![lk[t]] = t]
    /\ Return(t)
    /\ UNCHANGED <<schedVars, priority, donVars, semVars, tidVars, rcp, fault>>

-----------------------------------------------------------------------------
(* lock_release. *)

\* lock->holder = NULL
ReleaseHolder(t, l, back) ==
    /\ holder[l] = t
    /\ holder' = [holder EXCEPT ![l] = NULL]
    /\ Call(t, l, "lr_rel", back)

LockRelease(t, l) ==
    /\ At(t, "run")
    /\ ReleaseHolder(t, l, "run")
    /\ UNCHANGED <<schedVars, priority, donVars, semVars, tidVars, rcp, fault>>

\* Mutation: thread_release_priorities drops nothing.
ReleaseNothing(t) ==
    /\ At(t, "lr_rel")
    /\ Goto(t, "lr_up")
    /\ UNCHANGED <<schedVars, priority, donVars, holder, semVars, tidVars, locVars, fault>>

\* thread_release_priorities: drop the donations for locks t does not hold.
ReleasePriorities(t) ==
    /\ At(t, "lr_rel")
    /\ \/ /\ Dangling(t) # {}
          /\ Crash("dangling")
       \/ /\ Dangling(t) = {}
          /\ chain' = [chain EXCEPT ![t] = {x \in @ : holder[pe[x].lock] = t}]
          /\ Goto(t, "lr_up")
          /\ UNCHANGED <<schedVars, priority, init_pri, bene, bene_elem, pe, holder,
                         semVars, tidVars, locVars, fault>>

\* sema_up (&lock->semaphore), which yields at the old, donated priority.
ReleaseUp(t) ==
    /\ At(t, "lr_up")
    /\ SemaUp(lk[t])
    /\ Goto(t, "lr_pri")
    /\ UNCHANGED <<priority, donVars, holder, tidVars, locVars, fault>>

\* Mutation: lock_release does not yield after giving up the donated priority.
ReleaseReturnNoYield(t) ==
    /\ At(t, "lr_pri")
    /\ Dangling(t) = {}
    /\ priority' = [priority EXCEPT ![t] = UpdatedPriority(t, init_pri[t])]
    /\ Return(t)
    /\ UNCHANGED <<schedVars, donVars, holder, semVars, tidVars, rcp, fault>>

\* thread_update_priority and thread_yield; lock_release returns.
ReleaseReturn(t) ==
    /\ At(t, "lr_pri")
    /\ \/ /\ Dangling(t) # {}
          /\ Crash("dangling")
       \/ /\ Dangling(t) = {}
          /\ priority' = [priority EXCEPT ![t] = UpdatedPriority(t, init_pri[t])]
          /\ ThreadYield(ready_list, status, priority')
          /\ Return(t)
          /\ UNCHANGED <<donVars, holder, semVars, tidVars, rcp, fault>>

-----------------------------------------------------------------------------
(* Threads. *)

\* thread_set_priority: the base priority, the effective one, and a yield.
\* The running thread is not donating, so the recursion ends at itself.
ThreadSetPriority(t, p) ==
    /\ At(t, "run")
    /\ \/ /\ Dangling(t) # {}
          /\ Crash("dangling")
       \/ /\ Dangling(t) = {}
          /\ init_pri' = [init_pri EXCEPT ![t] = p]
          /\ priority' = [priority EXCEPT ![t] = UpdatedPriority(t, p)]
          /\ ThreadYield(ready_list, status, priority')
          /\ UNCHANGED <<chain, bene, bene_elem, pe, holder, semVars, tidVars, pc,
                         locVars, fault>>

\* thread_create: init_thread on a free page, as a blocked thread.
ThreadCreate(t, u, p) ==
    /\ At(t, "run")
    /\ status[u] = "none"
    /\ status' = [status EXCEPT ![u] = "blocked"]
    /\ priority' = [priority EXCEPT ![u] = p]
    /\ init_pri' = [init_pri EXCEPT ![u] = p]
    /\ child' = [child EXCEPT ![t] = u]
    /\ Goto(t, "tc_lock")
    /\ UNCHANGED <<cur, ready_list, chain, bene, bene_elem, pe, holder, semVars,
                   next_tid, tid, locVars, fault>>

\* Mutation: allocate_tid does not take tid_lock.
CreateUnlocked(t) ==
    /\ At(t, "tc_lock")
    /\ Goto(t, "tc_tid")
    /\ UNCHANGED <<schedVars, priority, donVars, holder, semVars, tidVars, locVars, fault>>

\* allocate_tid: lock_acquire (&tid_lock)
CreateAcquire(t) ==
    /\ At(t, "tc_lock")
    /\ AcquireCheck(t, TidLock, "tc_tid")

\* allocate_tid: tid = next_tid++, a read and then a write, with interrupts on;
\* and the start of lock_release (&tid_lock).
CreateTid(t) ==
    /\ At(t, "tc_tid")
    /\ tid' = [tid EXCEPT ![child[t]] = next_tid]
    /\ Goto(t, "tc_inc")
    /\ UNCHANGED <<schedVars, priority, donVars, holder, semVars, next_tid, child, locVars,
                   fault>>

CreateNextTid(t) ==
    /\ At(t, "tc_inc")
    /\ next_tid' = tid[child[t]] + 1
    /\ ReleaseHolder(t, TidLock, "tc_go")
    /\ UNCHANGED <<schedVars, priority, donVars, semVars, tid, child, rcp, fault>>

\* thread_create: thread_unblock the new thread, and yield to it if it is better.
CreateUnblock(t) ==
    LET u == child[t]
    IN  /\ At(t, "tc_go")
        /\ ThreadYield(Cons(u, ready_list), [status EXCEPT ![u] = "ready"], priority)
        /\ child' = [child EXCEPT ![t] = NULL]
        /\ Goto(t, "run")
        /\ UNCHANGED <<priority, donVars, holder, semVars, next_tid, tid, locVars, fault>>

\* thread_exit: never returns; thread_schedule_tail frees the page.
ThreadExit(t) ==
    /\ At(t, "run")
    /\ \A l \in Locks : holder[l] # t
    /\ Schedule(ready_list, [status EXCEPT ![t] = "dead"], priority)
    /\ UNCHANGED <<priority, donVars, holder, semVars, tidVars, pc, locVars, fault>>

\* thread_tick: the running thread has used up its TIME_SLICE, so the timer
\* interrupt yields on return.  Steps take any amount of time, so this can
\* happen at any point where interrupts are on.
TimeSliceExpiry ==
    /\ fault = "none"
    /\ SliceExpires
    /\ InterruptsOn
    /\ ThreadYield(ready_list, status, priority)
    /\ UNCHANGED <<priority, donVars, holder, semVars, tidVars, pc, locVars, fault>>

-----------------------------------------------------------------------------

\* Any state main() can reach by creating the Started threads: the running one
\* has the highest priority and everyone is outside this module's code.
Init ==
    /\ \E p \in [Threads -> Pris] :
         /\ \A t \in Threads \ Started : p[t] = NoElem.priority
         /\ init_pri = p /\ priority = p
    /\ \E r \in SetToSeqs(Started) :
         /\ \A t \in Started : priority[t] <= priority[Head(r)]
         /\ cur = Head(r)
         /\ ready_list = Tail(r)
    /\ status = [t \in Threads |-> IF t = cur THEN "running"
                                   ELSE IF t \in Started THEN "ready" ELSE "none"]
    /\ chain = [t \in Threads |-> {}]
    /\ bene = [t \in Threads |-> NULL]
    /\ bene_elem = [t \in Threads |-> FALSE]
    /\ pe = [t \in Threads |-> NoElem]
    /\ holder = [l \in Locks |-> NULL]
    /\ value = [s \in Sems |-> IF s \in Locks THEN 1 ELSE 0]
    /\ waiters = [s \in Sems |-> <<>>]
    /\ next_tid = Cardinality(Started) + 1
    /\ tid \in [Threads -> 0..Cardinality(Started)]
    /\ \A t \in Threads : t \in Started <=> tid[t] # 0
    /\ \A t, u \in Started : tid[t] = tid[u] => t = u
    /\ tid[Main] = 1
    /\ pc = [t \in Threads |-> "run"]
    /\ lk = [t \in Threads |-> NULL]
    /\ ret = [t \in Threads |-> "run"]
    /\ rcp = [t \in Threads |-> NULL]
    /\ child = [t \in Threads |-> NULL]
    /\ fault = "none"

\* The steps of calls in progress.
KernelStep(t) ==
    \/ AcquirePriority(t) \/ AcquireRecipient(t) \/ DonatePush(t) \/ DonateUpdate(t)
    \/ AcquireBene(t) \/ AcquireBeneElem(t) \/ AcquireDown(t) \/ AcquireHolder(t)
    \/ AcquireReturn(t) \/ TryAcquireHolder(t)
    \/ ReleasePriorities(t) \/ ReleaseUp(t) \/ ReleaseReturn(t)
    \/ SemaDownRetry(t)
    \/ CreateAcquire(t) \/ CreateTid(t) \/ CreateNextTid(t) \/ CreateUnblock(t)

\* The calls a thread can make.
ThreadCall(t) ==
    \/ \E l \in Locks : LockAcquire(t, l) \/ LockTryAcquire(t, l) \/ LockRelease(t, l)
    \/ \E s \in Semas : ThreadSemaDown(t, s) \/ ThreadSemaUp(t, s)
    \/ \E p \in NewPris : ThreadSetPriority(t, p)
    \/ \E u \in Threads, p \in Pris : ThreadCreate(t, u, p)
    \/ ThreadExit(t)

Interrupt == TimeSliceExpiry \/ \E s \in Semas : InterruptSemaUp(s)

Next == Interrupt \/ \E t \in Threads : KernelStep(t) \/ ThreadCall(t)

Spec == Init /\ [][Next]_vars

\* The same kernel when no interrupt makes the running thread yield: a thread
\* gives up the CPU only in calls of its own.
UnpreemptedSpec == Init /\ [][\E t \in Threads : KernelStep(t) \/ ThreadCall(t)]_vars

-----------------------------------------------------------------------------
(* Properties. *)

TypeOK ==
    /\ cur \in Threads \cup {Idle}
    /\ status \in [Threads -> Status]
    /\ ready_list \in Seq(Threads)
    /\ priority \in [Threads -> Pris] /\ init_pri \in [Threads -> Pris]
    /\ chain \in [Threads -> SUBSET Threads]
    /\ bene \in [Threads -> Threads \cup {NULL}] /\ bene_elem \in [Threads -> BOOLEAN]
    /\ pe \in [Threads -> Elem]
    /\ holder \in [Locks -> Threads \cup {NULL}]
    /\ value \in [Sems -> Nat] /\ waiters \in [Sems -> Seq(Threads)]
    /\ next_tid \in Nat /\ tid \in [Threads -> Nat]
    /\ pc \in [Threads -> PCs] /\ ret \in [Threads -> PCs]
    /\ lk \in [Threads -> Sems \cup {NULL}]
    /\ rcp \in [Threads -> Threads \cup {NULL}]
    /\ child \in [Threads -> Threads \cup {NULL}]
    /\ fault \in Faults

\* t is between taking the semaphore of l and giving it back.
Owner(t, l) ==
    \/ pc[t] \in {"la_own", "lt_own"} /\ lk[t] = l
    \/ holder[l] = t
    \/ pc[t] \in {"lr_rel", "lr_up"} /\ lk[t] = l

\* A lock has at most one owner (synch.c:169), at every point of a preempted
\* lock_acquire or lock_release, and its semaphore counts the absence of one.
MutualExclusion ==
    \A l \in Locks :
        /\ \A t, u \in Threads : Owner(t, l) /\ Owner(u, l) => t = u
        /\ value[l] = IF \E t \in Threads : Owner(t, l) THEN 0 ELSE 1

\* The owner of l, and the threads that wait for it in lock_acquire.
OwnerOf(l) ==
    IF \E t \in Threads : Owner(t, l) THEN CHOOSE t \in Threads : Owner(t, l) ELSE NULL

Asking(l) == {t \in Threads : pc[t] \in InAcquire \ {"la_own", "la_clr"} /\ lk[t] = l}

MX == INSTANCE Mutex WITH owner <- [l \in Locks |-> OwnerOf(l)],
                          asking <- [l \in Locks |-> Asking(l)]

\* The locks of the preempted kernel implement Mutex: a lock changes hands only
\* through being free, and a thread leaves lock_acquire only as the owner.
ImplementsMutex == MX!Spec

\* The places thread t's elem is linked: positions of the run queue and of the
\* wait lists.
Links(t) ==
    {<<Idle, i>> : i \in {j \in DOMAIN ready_list : ready_list[j] = t}}
        \cup UNION {{<<s, i>> : i \in {j \in DOMAIN waiters[s] : waiters[s][j] = t}}
                        : s \in Sems}

\* The run queue and the semaphore wait lists share struct thread's elem; "this
\* works only because they are mutually exclusive" (thread.h:76): a ready thread
\* is on the run queue, a blocked one on one wait list (or still being created),
\* once, and any other thread on none.
QueuesExclusive ==
    \A t \in Threads :
        /\ status[t] \in {"ready", "blocked"} /\ (\A u \in Threads : child[u] # t)
              => Cardinality(Links(t)) = 1
        /\ status[t] = "ready" => \E i \in DOMAIN ready_list : ready_list[i] = t
        /\ status[t] = "blocked" => \A i \in DOMAIN ready_list : ready_list[i] # t
        /\ status[t] \notin {"ready", "blocked"} => Links(t) = {}
        /\ status[t] = "running" <=> t = cur

\* Threads that sema_up took off the wait list of s and that have not yet gone
\* round the loop of sema_down.
Woken(s) ==
    {t \in Threads : /\ status[t] # "blocked"
                     /\ \/ pc[t] \in {"la_wake", "sd_wake"} /\ lk[t] = s
                        \/ pc[t] \in {"cw_wake", "ts_wake"} /\ t = s}

\* No wake-up is lost: while threads wait on a semaphore, every unit of it is
\* meant for a thread already woken.
NoLostWakeup ==
    \A s \in Sems : waiters[s] # <<>> => value[s] <= Cardinality(Woken(s))

\* Outside the kernel's own code no ready thread has a higher priority than the
\* running one.  (Under UnpreemptedSpec, like the next two.  A thread preempted in
\* lock_acquire goes on later with a recipient and a priority it read before.)
RunningIsMax ==
    fault = "none" /\ cur # Idle /\ pc[cur] = "run" =>
        \A i \in DOMAIN ready_list : priority[ready_list[i]] <= priority[cur]

\* A donation is recalled with the lock it was made for: a thread that is outside
\* the kernel and holds no lock runs at the priority it was given.
DonationRecalled ==
    \A t \in Threads :
        status[t] \in {"running", "ready"} /\ pc[t] = "run" /\ (\A l \in Locks : holder[l] # t)
            => priority[t] = init_pri[t]

\* No two threads that were ever given a tid have the same one, although
\* allocate_tid reads and writes next_tid with interrupts on.
TidsUnique ==
    \A t, u \in Threads : tid[t] # 0 /\ tid[t] = tid[u] => t = u

\* A thread waiting for a lock has donated its priority to the thread holding it,
\* and what it is donated itself it passes on (thread.c:363): no lock is held at
\* a lower priority than that of a thread blocked on it, as long as the donation
\* stands.  (A release drops the donations of every waiter, and those that go on
\* waiting do not make new ones: their bene is stale.)
HolderIsBoosted ==
    fault = "none" /\ cur \in {t \in Threads : pc[t] = "run"} =>
        \A l \in Locks : holder[l] # NULL =>
            \A i \in DOMAIN waiters[l] :
                LET t == waiters[l][i]
                IN  t \in chain[holder[l]] => priority[t] <= priority[holder[l]]

-----------------------------------------------------------------------------
(* Liveness. *)

\* A thread that keeps getting the CPU goes on with its kernel code (a time slice
\* is long), and the timer goes on ticking: a tick that comes while interrupts are off is latched
\* by the interrupt controller, hence the strong fairness.  Nothing is assumed of
\* the clients, which may hold a lock or run for ever.
Fairness ==
    /\ \A t \in Threads : SF_vars(KernelStep(t))
    /\ SF_vars(TimeSliceExpiry)

FairSpec == Spec /\ Fairness

\* Among threads of one priority, a lock that is free while threads wait for it
\* is taken: releasing it wakes a thread that gets to run and to take it, unless
\* another thread has taken it first.
FreeLockIsTaken ==
    \A l \in Locks :
        OwnerOf(l) = NULL /\ Asking(l) # {} ~> OwnerOf(l) # NULL \/ fault # "none"

\* The same for semaphores: one that is positive while threads wait on it is
\* taken, so that its value reaches 0 or nobody waits any more.
SemaIsTaken ==
    \A s \in Semas :
        value[s] > 0 /\ waiters[s] # <<>>
            ~> value[s] = 0 \/ waiters[s] = <<>> \/ fault # "none"
=============================================================================
