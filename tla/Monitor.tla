------------------------------- MODULE Monitor -------------------------------
(***************************************************************************)
(* The condition variables of proj1/src/threads/synch.c on top of Synch:   *)
(* cond_wait, cond_signal and cond_broadcast, which keep a list of         *)
(* semaphores, one on the stack of each waiting thread.  The semaphore of  *)
(* thread t is value[t] and waiters[t]; its semaphore_elem is t itself.    *)
(***************************************************************************)
EXTENDS Synch

CONSTANTS Conds,        \* struct condition
          CondLock      \* the one lock each of them is used with

ASSUME CondAssumption == CondLock \in [Conds -> Locks \ {TidLock}]

VARIABLES cond_waiters, \* struct condition: waiters
          cv            \* the condition a thread's current call is about

monVars == <<cond_waiters, cv>>
mvars == <<vars, monVars>>

\* The index list_max returns with sema_less.  An element whose thread is not
\* yet waiting on its semaphore is never less than another, and never greater:
\* it is chosen if it is at the front and passed over otherwise.
CondMax(list) ==
    LET blocked == {i \in DOMAIN list : waiters[list[i]] # <<>>}
        pri(i)  == priority[Last(waiters[list[i]])]
    IN  IF 1 \notin blocked THEN 1
        ELSE CHOOSE i \in blocked :
                 \A j \in blocked : pri(j) <= pri(i) /\ (pri(j) = pri(i) => j <= i)

\* cond_wait: queue a new semaphore, and the start of lock_release.
CondWait(t, c) ==
    /\ At(t, "run")
    /\ value' = [value EXCEPT ![t] = 0]
    /\ waiters' = [waiters EXCEPT ![t] = <<>>]
    /\ cond_waiters' = [cond_waiters EXCEPT ![c] = Append(@, t)]
    /\ ReleaseHolder(t, CondLock[c], "cw_down")
    /\ UNCHANGED <<schedVars, priority, donVars, tidVars, rcp, fault, cv>>

\* Mutation: the wait ends at the first wake-up, whatever the semaphore says.
CondWaitOnce(t) ==
    /\ At(t, "cw_down") \/ At(t, "cw_wake")
    /\ value' = [value EXCEPT ![t] = @ - 1]
    /\ Goto(t, "cw_lock")
    /\ UNCHANGED <<schedVars, waiters, priority, donVars, holder, tidVars, locVars, fault,
                   monVars>>

\* cond_wait: sema_down (&waiter.semaphore), on entry and after the wake-up.
CondWaitDown(t) ==
    /\ At(t, "cw_down") \/ At(t, "cw_wake")
    /\ SemaDown(t, t, "cw_lock", "cw_wake")
    /\ UNCHANGED <<priority, donVars, holder, tidVars, locVars, fault, monVars>>

\* cond_wait: lock_acquire (lock), after which it returns.
CondWaitAcquire(t) ==
    /\ At(t, "cw_lock")
    /\ AcquireCheck(t, lk[t], "run")
    /\ UNCHANGED monVars

\* Mutation: cond_signal leaves the waiter on the list.
SignalNoRemove(t, c, back) ==
    /\ holder[CondLock[c]] = t
    /\ cond_waiters[c] # <<>>
    /\ rcp' = [rcp EXCEPT ![t] = cond_waiters[c][CondMax(cond_waiters[c])]]
    /\ ret' = [ret EXCEPT ![t] = back]
    /\ Goto(t, "cs_up")
    /\ UNCHANGED <<schedVars, priority, donVars, holder, semVars, tidVars, lk, fault,
                   cond_waiters>>

\* cond_signal up to list_remove, when there is a waiter.
SignalRemove(t, c, back) ==
    LET i == CondMax(cond_waiters[c])
    IN  /\ holder[CondLock[c]] = t
        /\ cond_waiters[c] # <<>>
        /\ cond_waiters' = [cond_waiters EXCEPT ![c] = RemoveAt(@, i)]
        /\ rcp' = [rcp EXCEPT ![t] = cond_waiters[c][i]]
        /\ ret' = [ret EXCEPT ![t] = back]
        /\ Goto(t, "cs_up")
        /\ UNCHANGED <<schedVars, priority, donVars, holder, semVars, tidVars, lk, fault>>

CondSignal(t, c) ==
    /\ At(t, "run")
    /\ SignalRemove(t, c, "run")
    /\ UNCHANGED cv

\* cond_signal: sema_up (&s_e->semaphore), and the return.
SignalUp(t) ==
    /\ At(t, "cs_up")
    /\ SemaUp(rcp[t])
    /\ Goto(t, ret[t])
    /\ ret' = [ret EXCEPT ![t] = "run"]
    /\ rcp' = [rcp EXCEPT ![t] = NULL]
    /\ UNCHANGED <<priority, donVars, holder, tidVars, lk, fault, monVars>>

\* cond_broadcast: the first cond_signal of its loop.
CondBroadcast(t, c) ==
    /\ At(t, "run")
    /\ SignalRemove(t, c, "cb_loop")
    /\ cv' = [cv EXCEPT ![t] = c]

\* cond_broadcast: the next cond_signal, or the end of the loop.
BroadcastLoop(t) ==
    /\ At(t, "cb_loop")
    /\ \/ /\ SignalRemove(t, cv[t], "cb_loop")
          /\ UNCHANGED cv
       \/ /\ cond_waiters[cv[t]] = <<>>
          /\ cv' = [cv EXCEPT ![t] = NULL]
          /\ Goto(t, "run")
          /\ UNCHANGED <<schedVars, priority, donVars, holder, semVars, tidVars, locVars,
                         fault, cond_waiters>>

-----------------------------------------------------------------------------

MInit ==
    /\ Init
    /\ cond_waiters = [c \in Conds |-> <<>>]
    /\ cv = [t \in Threads |-> NULL]

CondStep(t) ==
    \/ \E c \in Conds : CondWait(t, c) \/ CondSignal(t, c) \/ CondBroadcast(t, c)
    \/ CondWaitDown(t) \/ CondWaitAcquire(t) \/ SignalUp(t) \/ BroadcastLoop(t)

MNext ==
    \/ Next /\ UNCHANGED monVars
    \/ \E t \in Threads : CondStep(t)

MSpec == MInit /\ [][MNext]_mvars

-----------------------------------------------------------------------------
(* Properties. *)

MTypeOK ==
    /\ TypeOK
    /\ cond_waiters \in [Conds -> Seq(Threads)]
    /\ cv \in [Threads -> Conds \cup {NULL}]

\* t is in cond_wait and its semaphore is still 0 or not yet taken.
Waiting(t) ==
    \/ pc[t] \in {"cw_down", "cw_wake"}
    \/ pc[t] \in InRelease /\ ret[t] = "cw_down"

\* The places of t's semaphore_elem on the lists of the conditions.
CondLinks(t) ==
    UNION {{c} \X {i \in DOMAIN cond_waiters[c] : cond_waiters[c][i] = t} : c \in Conds}

\* The threads in cond_signal that are about to up t's semaphore.
Signallers(t) == {u \in Threads : pc[u] = "cs_up" /\ rcp[u] = t}

\* Every thread in cond_wait is owed exactly one wake-up, and no other thread is:
\* it is on the condition's list, or a signaller has taken it off and is about to
\* up its semaphore, or that semaphore is 1.  So no signal is lost or sent twice,
\* even when it comes between lock_release and sema_down.
SignalAccounting ==
    \A t \in Threads :
        Cardinality(CondLinks(t)) + Cardinality(Signallers(t)) + value[t]
            = IF Waiting(t) THEN 1 ELSE 0
=============================================================================
