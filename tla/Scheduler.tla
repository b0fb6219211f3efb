------------------------------ MODULE Scheduler ------------------------------
(***************************************************************************)
(* The uniprocessor priority scheduler of proj1/src/threads/thread.c: the  *)
(* run queue, the running thread and the thread states, and the effect of  *)
(* schedule(), thread_yield(), thread_block() and thread_unblock() on      *)
(* them.  The module has no behaviour of its own: Synch gives the actions. *)
(*                                                                         *)
(* The list elements of ready_list are the threads themselves.  The front  *)
(* of a list is index 1, so list_push_front is Cons and list_push_back is  *)
(* Append.                                                                 *)
(***************************************************************************)
EXTENDS Integers, Sequences, SequencesExt

CONSTANTS Threads,      \* the pages a struct thread can live in
          Idle          \* idle_thread, which is never on the run queue

ASSUME IdleAssumption == Idle \notin Threads

VARIABLES cur,          \* the running thread
          status,       \* struct thread: status
          ready_list,   \* threads in state THREAD_READY
          priority      \* struct thread: priority (the effective one)

schedVars == <<cur, status, ready_list>>

\* enum thread_status, plus the two states of a page that holds no thread:
\* not yet allocated by thread_create, or freed by thread_schedule_tail.
Status == {"none", "running", "ready", "blocked", "dead"}

-----------------------------------------------------------------------------
(* Choosing from a list. *)

\* The index list_max returns with priority_less: priority_less is <=, so
\* among the elements of the highest priority the one nearest to the back.
ListMax(list, pri) ==
    CHOOSE i \in DOMAIN list :
        \A j \in DOMAIN list :
            /\ pri[list[j]] <= pri[list[i]]
            /\ pri[list[j]] = pri[list[i]] => j <= i

\* next_thread_to_run: idle_thread when the run queue is empty.
NextThreadToRun(list, pri) ==
    IF list = <<>> THEN Idle ELSE list[ListMax(list, pri)]

\* What next_thread_to_run leaves in the run queue.
AfterPick(list, pri) ==
    IF list = <<>> THEN list ELSE RemoveAt(list, ListMax(list, pri))

-----------------------------------------------------------------------------
(* Switching threads.  These run with interrupts off, so each is one step. *)

\* schedule() and thread_schedule_tail(): run the best thread of list, given
\* the states st of the other threads and the priorities pri.
Schedule(list, st, pri) ==
    /\ cur' = NextThreadToRun(list, pri)
    /\ ready_list' = AfterPick(list, pri)
    /\ status' = [t \in Threads |->
                     IF t = NextThreadToRun(list, pri) THEN "running" ELSE st[t]]

\* thread_yield(): the idle thread is not put on the run queue.
ThreadYield(list, st, pri) ==
    IF cur = Idle
    THEN Schedule(list, st, pri)
    ELSE Schedule(Cons(cur, list), [st EXCEPT ![cur] = "ready"], pri)

\* thread_block() by the running thread.
ThreadBlock == Schedule(ready_list, [status EXCEPT ![cur] = "blocked"], priority)
=============================================================================
