-------------------------------- MODULE Alarm --------------------------------
(***************************************************************************)
(* The alarm clock of proj1/src/devices/timer.c on top of Synch:           *)
(* timer_sleep() queues a semaphore on the sleeping thread's stack in the  *)
(* sorted waiting_list, and timer_interrupt() ups the ones that are due.   *)
(* The semaphore of thread t is value[t] and waiters[t]; its sleeping_sema *)
(* is t itself.  Here every tick is counted, so TimerInterrupt takes the   *)
(* place of Synch's TimeSliceExpiry.                                       *)
(***************************************************************************)
EXTENDS Synch

CONSTANTS Durations,    \* the arguments of timer_sleep, which may be negative
          MaxTicks      \* bound on the ticks counted

ASSUME AlarmAssumption == Durations \subseteq Int /\ MaxTicks \in Nat

VARIABLES ticks,        \* timer ticks since boot
          waiting_list, \* the sleeping threads, soonest first
          waituntil     \* struct sleeping_sema: waituntil

alarmVars == <<ticks, waiting_list, waituntil>>
avars == <<vars, alarmVars>>

\* Mutation: the sleeper is queued behind the others.
InsertBack(t) == Append(waiting_list, t)

\* list_insert_ordered with wait_less: before the first element that is later.
InsertOrdered(t) ==
    LET later == {i \in DOMAIN waiting_list : waituntil[t] < waituntil[waiting_list[i]]}
        k == CHOOSE i \in 1..Len(waiting_list) + 1 :
                 /\ i \in later \cup {Len(waiting_list) + 1}
                 /\ \A j \in later : i <= j
    IN  InsertAt(waiting_list, k, t)

\* Mutation: the semaphore starts at 1, like a lock's.
TimerSleepFree(t, n) ==
    /\ At(t, "run")
    /\ waituntil' = [waituntil EXCEPT ![t] = ticks + n]
    /\ value' = [value EXCEPT ![t] = 1]
    /\ waiters' = [waiters EXCEPT ![t] = <<>>]
    /\ Goto(t, "ts_ins")
    /\ UNCHANGED <<schedVars, priority, donVars, holder, tidVars, locVars, fault, ticks,
                   waiting_list>>

\* timer_sleep: the wake-up time, from a tick count that may be old by the time
\* the thread is queued, and a new semaphore.
TimerSleep(t, n) ==
    /\ At(t, "run")
    /\ waituntil' = [waituntil EXCEPT ![t] = ticks + n]
    /\ value' = [value EXCEPT ![t] = 0]
    /\ waiters' = [waiters EXCEPT ![t] = <<>>]
    /\ Goto(t, "ts_ins")
    /\ UNCHANGED <<schedVars, priority, donVars, holder, tidVars, locVars, fault, ticks,
                   waiting_list>>

SleepInsert(t) ==
    /\ At(t, "ts_ins")
    /\ waiting_list' = InsertOrdered(t)
    /\ Goto(t, "ts_down")
    /\ UNCHANGED <<schedVars, priority, donVars, holder, semVars, tidVars, locVars, fault,
                   ticks, waituntil>>

\* Mutation: the sleep ends at the first chance, whatever the semaphore says.
SleepOnce(t) ==
    /\ At(t, "ts_down") \/ At(t, "ts_wake")
    /\ value' = [value EXCEPT ![t] = @ - 1]
    /\ Goto(t, "run")
    /\ UNCHANGED <<schedVars, waiters, priority, donVars, holder, tidVars, locVars, fault,
                   alarmVars>>

\* timer_sleep: sema_down (&ss.sema), on entry and after the wake-up.
SleepDown(t) ==
    /\ At(t, "ts_down") \/ At(t, "ts_wake")
    /\ SemaDown(t, t, "run", "ts_wake")
    /\ UNCHANGED <<priority, donVars, holder, tidVars, locVars, fault, alarmVars>>

\* Mutation: a sleeper is due one tick early.
DueCountEarly(now) ==
    CHOOSE n \in 0..Len(waiting_list) :
        /\ \A i \in 1..n : waituntil[waiting_list[i]] <= now + 1
        /\ n < Len(waiting_list) => waituntil[waiting_list[n + 1]] > now + 1

\* The number of sleepers timer_interrupt wakes: it stops at the first that is
\* not due.
DueCount(now) ==
    CHOOSE n \in 0..Len(waiting_list) :
        /\ \A i \in 1..n : waituntil[waiting_list[i]] <= now
        /\ n < Len(waiting_list) => waituntil[waiting_list[n + 1]] > now

\* The order thread_unblock leaves the threads it wakes in, each at the front of
\* the run queue: the last one of list first.
LastFirst(woken, list) ==
    \A i, j \in DOMAIN list, k, l \in DOMAIN woken :
        woken[k] = list[i] /\ woken[l] = list[j] /\ i < j => l < k

\* timer_interrupt: count the tick, up the semaphores that are due, and yield on
\* return if there were any or if the time slice is over (thread_tick).
TimerInterrupt(slice) ==
    LET due     == SubSeq(waiting_list, 1, DueCount(ticks + 1))
        blocked == {t \in ToSet(due) : waiters[t] # <<>>}
    IN  /\ fault = "none"
        /\ InterruptsOn
        /\ ticks < MaxTicks
        /\ ticks' = ticks + 1
        /\ waiting_list' = SubSeq(waiting_list, Len(due) + 1, Len(waiting_list))
        /\ value' = [s \in Sems |-> IF s \in ToSet(due) THEN value[s] + 1 ELSE value[s]]
        /\ waiters' = [s \in Sems |-> IF s \in ToSet(due) THEN <<>> ELSE waiters[s]]
        /\ \/ /\ due # <<>> \/ slice
              /\ \E woken \in SetToSeqs(blocked) :
                    /\ LastFirst(woken, due)
                    /\ ThreadYield(woken \o ready_list,
                                   [t \in Threads |-> IF t \in blocked THEN "ready"
                                                      ELSE status[t]],
                                   priority)
           \/ /\ due = <<>> /\ ~slice
              /\ UNCHANGED schedVars
        /\ UNCHANGED <<priority, donVars, holder, tidVars, pc, locVars, fault, waituntil>>

-----------------------------------------------------------------------------

AInit ==
    /\ Init
    /\ ticks = 0
    /\ waiting_list = <<>>
    /\ waituntil = [t \in Threads |-> 0]

SleepStep(t) ==
    \/ \E n \in Durations : TimerSleep(t, n)
    \/ SleepInsert(t) \/ SleepDown(t)

ANext ==
    \/ \E t \in Threads : SleepStep(t)
    \/ \E slice \in {FALSE, SliceExpires} : TimerInterrupt(slice)
    \/ /\ \/ \E t \in Threads : KernelStep(t) \/ ThreadCall(t)
          \/ \E s \in Semas : InterruptSemaUp(s)
       /\ UNCHANGED alarmVars

ASpec == AInit /\ [][ANext]_avars

-----------------------------------------------------------------------------
(* Properties. *)

ATypeOK ==
    /\ TypeOK
    /\ ticks \in 0..MaxTicks
    /\ waiting_list \in Seq(Threads)
    /\ waituntil \in [Threads -> Int]

\* timer_sleep never returns before its time, also when the tick that wakes the
\* thread comes between the insertion into waiting_list and sema_down.
NeverEarly ==
    [][\A t \in Threads :
          pc[t] \in InSleep /\ pc'[t] = "run" => ticks >= waituntil[t]]_avars

\* After a timer interrupt no sleeper that is due is left on waiting_list: the
\* handler may stop at the first one that is not.
NoOversleep ==
    [][ticks' # ticks =>
          \A i \in DOMAIN waiting_list' : waituntil[waiting_list'[i]] > ticks']_avars

\* A sleeping thread is owed exactly one wake-up: it is queued once, or its
\* semaphore has been upped.
WakeAccounting ==
    \A t \in Threads :
        Cardinality({i \in DOMAIN waiting_list : waiting_list[i] = t}) + value[t]
            = IF pc[t] \in {"ts_down", "ts_wake"} THEN 1 ELSE 0
=============================================================================
