-------------------------------- MODULE Mutex --------------------------------
(***************************************************************************)
(* What the locks of synch.c promise, whatever the scheduler does: a       *)
(* thread that asks for a lock keeps waiting until it is given the lock, a *)
(* lock is given only while it is free, and only its owner gives it back.  *)
(***************************************************************************)
CONSTANTS Threads, Locks, NULL

VARIABLES owner,        \* the owner of each lock, or NULL
          asking        \* the threads waiting in lock_acquire for each lock

Init ==
    /\ owner = [l \in Locks |-> NULL]
    /\ asking = [l \in Locks |-> {}]

Ask(t, l) ==
    /\ t \notin asking[l]
    /\ asking' = [asking EXCEPT ![l] = @ \cup {t}]
    /\ UNCHANGED owner

Grant(t, l) ==
    /\ owner[l] = NULL
    /\ t \in asking[l]
    /\ owner' = [owner EXCEPT ![l] = t]
    /\ asking' = [asking EXCEPT ![l] = @ \ {t}]

\* lock_try_acquire takes a free lock without waiting.
Take(t, l) ==
    /\ owner[l] = NULL
    /\ owner' = [owner EXCEPT ![l] = t]
    /\ UNCHANGED asking

Release(t, l) ==
    /\ owner[l] = t
    /\ owner' = [owner EXCEPT ![l] = NULL]
    /\ UNCHANGED asking

Next == \E t \in Threads, l \in Locks :
            Ask(t, l) \/ Grant(t, l) \/ Take(t, l) \/ Release(t, l)

Spec == Init /\ [][Next]_<<owner, asking>>
=============================================================================
