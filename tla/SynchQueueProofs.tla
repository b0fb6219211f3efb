--------------------------- MODULE SynchQueueProofs ---------------------------
(***************************************************************************)
(* The queues of Synch: a thread is on the run queue or on one wait list,  *)
(* once, and no wake-up is lost.  And, when no interrupt preempts a        *)
(* thread, its priorities: the best thread runs, donations count while     *)
(* their lock is held and are given back with it.                          *)
(***************************************************************************)
EXTENDS SynchProofs

-----------------------------------------------------------------------------
(* The inductive invariant. *)

\* t has blocked in a sema_down on s, and has not gone round its loop since.
Waiting(t, s) ==
    \/ pc[t] \in {"la_wake", "sd_wake"} /\ lk[t] = s
    \/ pc[t] \in {"cw_wake", "ts_wake"} /\ t = s

\* t is in thread_create, or in a call made from there.
Creating(t) == pc[t] \in InCreate \/ ret[t] \in InCreate

\* The run queue holds the ready threads, each once.
RunQueue ==
    /\ \A t \in Threads : status[t] = "running" <=> t = cur
    /\ IsInjective(ready_list)
    /\ \A t \in Threads : t \in ToSet(ready_list) <=> status[t] = "ready"

\* A thread on a wait list is blocked, and it is the list of the semaphore it is
\* waiting for.
WaitLists ==
    \A s \in Sems :
        /\ IsInjective(waiters[s])
        /\ \A t \in ToSet(waiters[s]) : status[t] = "blocked" /\ Waiting(t, s)

\* A blocked thread that is on no list is still in the hands of its creator.
Findable ==
    \A t \in Threads :
        status[t] = "blocked" => \/ \E s \in Sems : t \in ToSet(waiters[s])
                                 \/ \E u \in Threads : child[u] = t

\* A thread in creation is blocked, has run no code and has one creator.
Newborn ==
    /\ \A u \in Threads : child[u] # NULL =>
          /\ status[child[u]] = "blocked" /\ pc[child[u]] = "run"
          /\ Creating(u)
          /\ \A v \in Threads : child[v] = child[u] => u = v
    /\ \A t \in Threads : status[t] = "none" => pc[t] = "run"

\* Finitely many threads are in the loop of sema_down.
FewWaiting == IsFiniteSet({t \in Threads : pc[t] \in WakePCs})

Queues == RunQueue /\ WaitLists /\ Findable /\ Newborn

QueueInv == Queues /\ FewWaiting /\ NoLostWakeup

-----------------------------------------------------------------------------
(* The scheduler. *)

\* schedule() takes the running thread from the run queue.
LEMMA ScheduleQueue ==
    ASSUME NEW list \in Seq(Threads), NEW st \in [Threads -> Status],
           NEW pri \in [Threads -> Pris], Schedule(list, st, pri),
           IsInjective(list),
           \A t \in Threads : t \in ToSet(list) <=> st[t] = "ready",
           \A t \in Threads : st[t] # "running"
    PROVE  /\ RunQueue'
           /\ \A t \in Threads : \/ st[t] = "ready" /\ status'[t] \in {"ready", "running"}
                                 \/ st[t] # "ready" /\ status'[t] = st[t]
<1> DEFINE n == NextThreadToRun(list, pri)
           i == ListMax(list, pri)
<1>1. /\ cur' = n /\ ready_list' = AfterPick(list, pri)
      /\ \A t \in Threads : status'[t] = IF t = n THEN "running" ELSE st[t]
    BY DEF Schedule
<1>2. CASE list = <<>>
  <2>1. \A t \in Threads : t \notin ToSet(list)
      BY <1>2 DEF ToSet
  <2>2. n \notin Threads
      BY <1>2, IdleAssumption DEF NextThreadToRun
  <2>3. ready_list' = list
      BY <1>1, <1>2 DEF AfterPick
  <2> HIDE DEF n
  <2> QED
      BY <1>1, <2>1, <2>2, <2>3 DEF RunQueue
<1>3. CASE list # <<>>
  <2>1. i \in 1..Len(list)
      BY <1>3, ListMaxProperties
  <2>2. n = list[i] /\ ready_list' = RemoveAt(list, i)
      BY <1>1, <1>3 DEF NextThreadToRun, AfterPick
  <2> HIDE DEF n, i
  <2>3. n \in Threads /\ n \in ToSet(list)
      BY <2>1, <2>2, ListElements
  <2>4. IsInjective(ready_list') /\ ToSet(ready_list') = ToSet(list) \ {n}
      BY <2>1, <2>2, RemoveAtList
  <2>5. st[n] = "ready"
      BY <2>3
  <2>6. \A t \in Threads : status'[t] = "running" <=> t = cur'
      BY <1>1
  <2>7. \A t \in Threads : t \in ToSet(ready_list') <=> status'[t] = "ready"
      BY <1>1, <2>4
  <2>8. RunQueue'
      BY <2>4, <2>6, <2>7 DEF RunQueue
  <2> QED
      BY <1>1, <2>5, <2>8
<1> QED
    BY <1>2, <1>3

\* The states of threads other than those of the run queue are as in st.
Kept(st) ==
    \A t \in Threads :
        \/ st[t] \in {"ready", "running"} /\ status'[t] \in {"ready", "running"}
        \/ st[t] \notin {"ready", "running"} /\ status'[t] = st[t]

\* thread_yield() puts the running thread on the run queue and takes one.
LEMMA YieldQueue ==
    ASSUME cur \in Threads \cup {Idle},
           NEW list \in Seq(Threads), NEW st \in [Threads -> Status],
           NEW pri \in [Threads -> Pris], ThreadYield(list, st, pri),
           IsInjective(list),
           \A t \in Threads : t \in ToSet(list) <=> st[t] = "ready",
           \A t \in Threads : st[t] = "running" <=> t = cur
    PROVE  RunQueue' /\ Kept(st)
<1>1. CASE cur = Idle
  <2>1. Schedule(list, st, pri)
      BY <1>1 DEF ThreadYield
  <2>2. \A t \in Threads : st[t] # "running"
      BY <1>1, IdleAssumption
  <2> QED
      BY <2>1, <2>2, ScheduleQueue DEF Kept
<1>2. CASE cur # Idle
  <2> DEFINE l == Cons(cur, list)
             r == [st EXCEPT ![cur] = "ready"]
  <2>1. Schedule(l, r, pri)
      BY <1>2 DEF ThreadYield
  <2>2. cur \in Threads /\ cur \notin ToSet(list)
      BY <1>2
  <2>3. l \in Seq(Threads) /\ ToSet(l) = ToSet(list) \cup {cur} /\ IsInjective(l)
      BY <2>2, ConsList
  <2>4. /\ r \in [Threads -> Status]
        /\ \A t \in Threads : r[t] = IF t = cur THEN "ready" ELSE st[t]
      BY <2>2 DEF Status
  <2> HIDE DEF l, r
  <2>5. \A t \in Threads : t \in ToSet(l) <=> r[t] = "ready"
      BY <2>3, <2>4
  <2>6. \A t \in Threads : r[t] # "running"
      BY <2>4
  <2>7. /\ RunQueue'
        /\ \A t \in Threads : \/ r[t] = "ready" /\ status'[t] \in {"ready", "running"}
                              \/ r[t] # "ready" /\ status'[t] = r[t]
      BY <2>1, <2>3, <2>4, <2>5, <2>6, ScheduleQueue
  <2> QED
      BY <2>4, <2>6, <2>7 DEF Kept
<1> QED
    BY <1>1, <1>2

-----------------------------------------------------------------------------
(* The kinds of step, by what they do to the queues. *)

\* Only the running thread goes on, and it stays in thread_create if it is there.
CurGoesOn ==
    \A u \in Threads : /\ u # cur => pc'[u] = pc[u] /\ lk'[u] = lk[u]
                       /\ Creating(u) => Creating(u)'

\* And it is not in the loop of sema_down.
NotDown == cur \in Threads => pc[cur] \notin WakePCs /\ pc'[cur] \notin WakePCs

\* The queues are left alone; lock_try_acquire may take a semaphore.
LocalShape ==
    /\ CurGoesOn /\ NotDown
    /\ UNCHANGED <<schedVars, waiters, child>>
    /\ \A s \in Sems : value'[s] \in Nat /\ value'[s] <= value[s]

YieldShape ==
    /\ CurGoesOn /\ NotDown
    /\ \E pri \in [Threads -> Pris] : ThreadYield(ready_list, status, pri)
    /\ UNCHANGED <<value, waiters, child>>

UpShape(s) ==
    /\ CurGoesOn /\ NotDown
    /\ SemaUp(s)
    /\ UNCHANGED child

\* sema_down by the running thread, which is not waiting for another semaphore.
TakeShape(t, s) ==
    /\ CurGoesOn /\ cur = t
    /\ pc[t] \in WakePCs => Waiting(t, s)
    /\ pc'[t] \notin WakePCs
    /\ value[s] > 0 /\ value' = [value EXCEPT ![s] = @ - 1]
    /\ UNCHANGED <<schedVars, waiters, child>>

BlockShape(t, s) ==
    /\ CurGoesOn /\ cur = t
    /\ pc[t] \in WakePCs => Waiting(t, s)
    /\ Waiting(t, s)'
    /\ value[s] = 0
    /\ waiters' = [waiters EXCEPT ![s] = Append(@, t)]
    /\ ThreadBlock
    /\ UNCHANGED <<value, child>>

CreateShape(t, u) ==
    /\ cur = t /\ pc[t] = "run" /\ ~Creating(t)
    /\ status[u] = "none" /\ status' = [status EXCEPT ![u] = "blocked"]
    /\ child' = [child EXCEPT ![t] = u]
    /\ pc' = [pc EXCEPT ![t] = "tc_lock"]
    /\ UNCHANGED <<cur, ready_list, lk, ret, value, waiters>>

UnblockShape(t, u) ==
    /\ cur = t /\ pc[t] = "tc_go" /\ child[t] = u
    /\ ThreadYield(Cons(u, ready_list), [status EXCEPT ![u] = "ready"], priority)
    /\ child' = [child EXCEPT ![t] = NULL]
    /\ pc' = [pc EXCEPT ![t] = "run"]
    /\ UNCHANGED <<lk, ret, value, waiters>>

ExitShape(t) ==
    /\ cur = t /\ pc[t] = "run"
    /\ Schedule(ready_list, [status EXCEPT ![t] = "dead"], priority)
    /\ UNCHANGED <<pc, lk, ret, value, waiters, child>>

Shapes ==
    \/ LocalShape \/ YieldShape \/ \E s \in Sems : UpShape(s)
    \/ \E t \in Threads, s \in Sems : TakeShape(t, s) \/ BlockShape(t, s)
    \/ \E t, u \in Threads : CreateShape(t, u) \/ UnblockShape(t, u)
    \/ \E t \in Threads : ExitShape(t)

\* The types that the queues depend on.
QueueTypes ==
    /\ SchedTypes
    /\ priority \in [Threads -> Pris]
    /\ pc \in [Threads -> PCs] /\ lk \in [Threads -> Sems \cup {NULL}]
    /\ value \in [Sems -> Nat]
    /\ child \in [Threads -> Threads \cup {NULL}]

-----------------------------------------------------------------------------
(* Every kind of step keeps the queues. *)

\* A thread waits for one semaphore.
LEMMA WaitsForOne ==
    ASSUME NEW t, NEW s, NEW r, Waiting(t, s), Waiting(t, r)
    PROVE  s = r /\ pc[t] \in WakePCs
    BY DEF Waiting, WakePCs

\* Where threads other than the running one wait.
LEMMA OthersWait ==
    ASSUME CurGoesOn, NEW t \in Threads, t # cur, NEW s
    PROVE  Waiting(t, s)' <=> Waiting(t, s)
    BY DEF CurGoesOn, Waiting

\* A step after which the same threads are blocked, on the same lists.
LEMMA SameBlocked ==
    ASSUME QueueTypes, Queues, CurGoesOn, UNCHANGED <<waiters, child>>,
           \A t \in Threads : status'[t] = "blocked" <=> status[t] = "blocked",
           \A t \in Threads : status'[t] = "none" => status[t] = "none"
    PROVE  WaitLists' /\ Findable' /\ Newborn'
<1>0. \A t \in Threads : status[t] = "running" <=> t = cur
    BY DEF Queues, RunQueue
<1>1. WaitLists'
  <2> SUFFICES ASSUME NEW s \in Sems
               PROVE  /\ IsInjective(waiters'[s])
                      /\ \A t \in ToSet(waiters'[s]) : status'[t] = "blocked" /\ Waiting(t, s)'
      BY DEF WaitLists
  <2>1. IsInjective(waiters[s]) /\ \A t \in ToSet(waiters[s]) : status[t] = "blocked" /\ Waiting(t, s)
      BY DEF Queues, WaitLists
  <2>2. waiters[s] \in Seq(Threads) /\ ToSet(waiters[s]) \subseteq Threads
      BY ListElements DEF QueueTypes, SchedTypes
  <2>3. ASSUME NEW t \in ToSet(waiters[s]) PROVE status'[t] = "blocked" /\ Waiting(t, s)'
    <3>1. t \in Threads /\ status[t] = "blocked" /\ Waiting(t, s)
        BY <2>1, <2>2
    <3>2. t # cur
        BY <3>1, <1>0
    <3> QED
        BY <3>1, <3>2, OthersWait
  <2> QED
      BY <2>1, <2>3
<1>2. Findable'
    BY DEF Queues, Findable
<1>3. Newborn'
  <2>1. ASSUME NEW u \in Threads, child[u] # NULL
        PROVE  /\ status'[child[u]] = "blocked" /\ pc'[child[u]] = "run"
               /\ Creating(u)'
               /\ \A v \in Threads : child[v] = child[u] => u = v
    <3>1. /\ child[u] \in Threads /\ status[child[u]] = "blocked" /\ pc[child[u]] = "run"
          /\ Creating(u) /\ \A v \in Threads : child[v] = child[u] => u = v
        BY <2>1 DEF Queues, Newborn, QueueTypes
    <3>2. child[u] # cur
        BY <3>1, <1>0
    <3>3. Creating(u)'
        BY <3>1 DEF CurGoesOn, Creating
    <3> QED
        BY <3>1, <3>2, <3>3 DEF CurGoesOn
  <2>2. ASSUME NEW t \in Threads, status'[t] = "none" PROVE pc'[t] = "run"
    <3>1. status[t] = "none" /\ t # cur
        BY <2>2, <1>0
    <3> QED
        BY <3>1 DEF CurGoesOn, Queues, Newborn
  <2> QED
      BY <2>1, <2>2 DEF Newborn
<1> QED
    BY <1>1, <1>2, <1>3

LEMMA LocalQueues ==
    ASSUME QueueTypes, Queues, CurGoesOn, UNCHANGED <<schedVars, waiters, child>>
    PROVE  Queues'
<1>1. UNCHANGED <<cur, status, ready_list, waiters, child>>
    BY DEF schedVars
<1>2. RunQueue'
    BY <1>1 DEF Queues, RunQueue
<1> QED
    BY <1>1, <1>2, SameBlocked DEF Queues

LEMMA YieldQueues ==
    ASSUME QueueTypes, Queues, YieldShape
    PROVE  Queues' /\ \A t \in Threads : status'[t] = "blocked" <=> status[t] = "blocked"
<1>1. PICK pri \in [Threads -> Pris] : ThreadYield(ready_list, status, pri)
    BY DEF YieldShape
<1>2. RunQueue' /\ Kept(status)
    BY <1>1, YieldQueue DEF QueueTypes, SchedTypes, Queues, RunQueue
<1>3. \A t \in Threads : /\ status'[t] = "blocked" <=> status[t] = "blocked"
                         /\ status'[t] = "none" => status[t] = "none"
    BY <1>2 DEF Kept
<1> QED
    BY <1>2, <1>3, SameBlocked DEF Queues, YieldShape

LEMMA UpQueues ==
    ASSUME QueueTypes, Queues, NEW s \in Sems, UpShape(s), waiters[s] # <<>>
    PROVE  /\ Queues'
           /\ \E w \in Threads :
                 /\ w \in ToSet(waiters[s]) /\ Waiting(w, s) /\ status[w] = "blocked"
                 /\ \A t \in Threads :
                       status'[t] = "blocked" <=> status[t] = "blocked" /\ t # w
<1> DEFINE i == ListMax(waiters[s], priority)
           w == waiters[s][i]
           r == [status EXCEPT ![w] = "ready"]
           l == Cons(w, ready_list)
<1>0. /\ \A t \in Threads : status[t] = "running" <=> t = cur
      /\ IsInjective(ready_list)
      /\ \A t \in Threads : t \in ToSet(ready_list) <=> status[t] = "ready"
    BY DEF Queues, RunQueue
<1>1. waiters[s] \in Seq(Threads) /\ i \in 1..Len(waiters[s])
    BY ListMaxProperties DEF QueueTypes, SchedTypes
<1>2. w \in Threads /\ w \in ToSet(waiters[s])
  <2> HIDE DEF i
  <2> QED
      BY <1>1, ListElements
<1>3. /\ waiters' = [waiters EXCEPT ![s] = RemoveAt(waiters[s], i)]
      /\ ThreadYield(l, r, priority)
      /\ UNCHANGED child /\ CurGoesOn
    BY DEF UpShape, SemaUp
<1>4. status[w] = "blocked" /\ Waiting(w, s) /\ IsInjective(waiters[s])
    BY <1>2 DEF Queues, WaitLists
<1>5. w # cur /\ w \notin ToSet(ready_list)
    BY <1>0, <1>2, <1>4
<1>6. /\ ready_list \in Seq(Threads) /\ status \in [Threads -> Status]
      /\ cur \in Threads \cup {Idle} /\ waiters \in [Sems -> Seq(Threads)]
      /\ priority \in [Threads -> Pris] /\ child \in [Threads -> Threads \cup {NULL}]
    BY DEF QueueTypes, SchedTypes
<1> HIDE DEF i, w
<1>7. /\ r \in [Threads -> Status]
      /\ \A t \in Threads : r[t] = IF t = w THEN "ready" ELSE status[t]
    BY <1>2, <1>6 DEF Status
<1>8. l \in Seq(Threads) /\ ToSet(l) = ToSet(ready_list) \cup {w} /\ IsInjective(l)
    BY <1>0, <1>2, <1>5, <1>6, ConsList
<1> HIDE DEF r, l
<1>9. RunQueue' /\ Kept(r)
  <2>1. \A t \in Threads : t \in ToSet(l) <=> r[t] = "ready"
      BY <1>0, <1>7, <1>8
  <2>2. \A t \in Threads : r[t] = "running" <=> t = cur
      BY <1>0, <1>5, <1>7
  <2> QED
      BY <2>1, <2>2, <1>3, <1>6, <1>7, <1>8, YieldQueue
<1>10. \A t \in Threads : /\ status'[t] = "blocked" <=> status[t] = "blocked" /\ t # w
                          /\ status'[t] = "none" => status[t] = "none"
    BY <1>7, <1>9 DEF Kept
<1>11. WaitLists'
  <2> SUFFICES ASSUME NEW k \in Sems
               PROVE  /\ IsInjective(waiters'[k])
                      /\ \A t \in ToSet(waiters'[k]) : status'[t] = "blocked" /\ Waiting(t, k)'
      BY DEF WaitLists
  <2>1. /\ IsInjective(waiters[k]) /\ ToSet(waiters[k]) \subseteq Threads
        /\ \A t \in ToSet(waiters[k]) : status[t] = "blocked" /\ Waiting(t, k)
      BY <1>6, ListElements DEF Queues, WaitLists
  <2>2. IsInjective(waiters'[k]) /\ ToSet(waiters'[k]) = ToSet(waiters[k]) \ {w}
    <3>1. CASE k = s
      <4>1. waiters'[k] = RemoveAt(waiters[s], i)
          BY <3>1, <1>3, <1>6
      <4> QED
          BY <4>1, <3>1, <1>1, <1>4, RemoveAtList DEF w
    <3>2. CASE k # s
      <4>1. w \notin ToSet(waiters[k])
          BY <2>1, <1>4, <3>2, WaitsForOne
      <4> QED
          BY <4>1, <3>2, <2>1, <1>3, <1>6
    <3> QED
        BY <3>1, <3>2
  <2>3. ASSUME NEW t \in ToSet(waiters'[k]) PROVE status'[t] = "blocked" /\ Waiting(t, k)'
    <3>1. t \in Threads /\ status[t] = "blocked" /\ Waiting(t, k) /\ t # w
        BY <2>1, <2>2
    <3>2. t # cur
        BY <3>1, <1>0
    <3> QED
        BY <3>1, <3>2, <1>3, <1>10, OthersWait
  <2> QED
      BY <2>2, <2>3
<1>12. Findable'
  <2>1. ASSUME NEW t \in Threads, t # w, NEW k \in Sems, t \in ToSet(waiters[k])
        PROVE  t \in ToSet(waiters'[k])
    <3>1. CASE k = s
      <4>1. waiters'[k] = RemoveAt(waiters[s], i)
          BY <3>1, <1>3, <1>6
      <4> QED
          BY <4>1, <3>1, <2>1, <1>1, <1>4, RemoveAtList DEF w
    <3>2. CASE k # s
        BY <3>2, <2>1, <1>3, <1>6
    <3> QED
        BY <3>1, <3>2
  <2> SUFFICES ASSUME NEW t \in Threads, status'[t] = "blocked"
               PROVE  \/ \E k \in Sems : t \in ToSet(waiters'[k])
                      \/ \E u \in Threads : child'[u] = t
      BY DEF Findable
  <2>2. t # w /\ status[t] = "blocked"
      BY <1>10
  <2> QED
      BY <2>1, <2>2, <1>3 DEF Queues, Findable
<1>13. Newborn'
  <2>1. ASSUME NEW u \in Threads, child[u] # NULL
        PROVE  /\ status'[child[u]] = "blocked" /\ pc'[child[u]] = "run"
               /\ Creating(u)'
               /\ \A v \in Threads : child[v] = child[u] => u = v
    <3>1. /\ child[u] \in Threads /\ status[child[u]] = "blocked" /\ pc[child[u]] = "run"
          /\ Creating(u) /\ \A v \in Threads : child[v] = child[u] => u = v
        BY <2>1, <1>6 DEF Queues, Newborn
    <3>2. child[u] # cur /\ child[u] # w
        BY <3>1, <1>0, <1>4, WaitsForOne DEF WakePCs
    <3> QED
        BY <3>1, <3>2, <1>3, <1>10 DEF CurGoesOn
  <2>2. ASSUME NEW t \in Threads, status'[t] = "none" PROVE pc'[t] = "run"
    <3>1. status[t] = "none" /\ t # cur
        BY <2>2, <1>0, <1>10
    <3> QED
        BY <3>1, <1>3 DEF CurGoesOn, Queues, Newborn
  <2> QED
      BY <2>1, <2>2, <1>3 DEF Newborn
<1> QED
    BY <1>2, <1>4, <1>9, <1>10, <1>11, <1>12, <1>13 DEF Queues

LEMMA BlockQueues ==
    ASSUME QueueTypes, Queues, NEW t \in Threads, NEW s \in Sems, BlockShape(t, s)
    PROVE  Queues' /\ \A x \in Threads : status'[x] = "blocked" <=> status[x] = "blocked" \/ x = t
<1> DEFINE r == [status EXCEPT ![t] = "blocked"]
<1>0. /\ \A x \in Threads : status[x] = "running" <=> x = cur
      /\ IsInjective(ready_list)
      /\ \A x \in Threads : x \in ToSet(ready_list) <=> status[x] = "ready"
    BY DEF Queues, RunQueue
<1>1. /\ cur = t /\ CurGoesOn /\ UNCHANGED child
      /\ waiters' = [waiters EXCEPT ![s] = Append(waiters[s], t)]
      /\ Schedule(ready_list, r, priority)
      /\ Waiting(t, s)'
    BY DEF BlockShape, ThreadBlock
<1>2. /\ ready_list \in Seq(Threads) /\ status \in [Threads -> Status]
      /\ waiters \in [Sems -> Seq(Threads)]
      /\ priority \in [Threads -> Pris] /\ child \in [Threads -> Threads \cup {NULL}]
    BY DEF QueueTypes, SchedTypes
<1>3. /\ r \in [Threads -> Status]
      /\ \A x \in Threads : r[x] = IF x = t THEN "blocked" ELSE status[x]
    BY <1>2 DEF Status
<1>4. status[t] = "running"
    BY <1>0, <1>1
<1> HIDE DEF r
<1>5. /\ RunQueue'
      /\ \A x \in Threads : \/ r[x] = "ready" /\ status'[x] \in {"ready", "running"}
                            \/ r[x] # "ready" /\ status'[x] = r[x]
  <2>1. \A x \in Threads : x \in ToSet(ready_list) <=> r[x] = "ready"
      BY <1>0, <1>3, <1>4
  <2>2. \A x \in Threads : r[x] # "running"
      BY <1>0, <1>1, <1>3
  <2> QED
      BY <2>1, <2>2, <1>0, <1>1, <1>2, <1>3, ScheduleQueue
<1>6. \A x \in Threads : /\ status'[x] = "blocked" <=> status[x] = "blocked" \/ x = t
                         /\ status'[x] = "none" => status[x] = "none"
    BY <1>3, <1>5
<1>7. ASSUME NEW k \in Sems
      PROVE  /\ IsInjective(waiters'[k])
             /\ ToSet(waiters'[k]) = IF k = s THEN ToSet(waiters[k]) \cup {t} ELSE ToSet(waiters[k])
  <2>1. /\ waiters[k] \in Seq(Threads) /\ IsInjective(waiters[k])
        /\ \A x \in ToSet(waiters[k]) : status[x] = "blocked"
      BY <1>2 DEF Queues, WaitLists
  <2>2. t \notin ToSet(waiters[k])
      BY <2>1, <1>4
  <2>3. CASE k = s
    <3>1. waiters'[k] = Append(waiters[k], t)
        BY <2>3, <1>1, <1>2
    <3> QED
        BY <3>1, <2>1, <2>2, <2>3, AppendList
  <2>4. CASE k # s
      BY <2>4, <2>1, <1>1, <1>2
  <2> QED
      BY <2>3, <2>4
<1>8. WaitLists'
  <2> SUFFICES ASSUME NEW k \in Sems, NEW x \in ToSet(waiters'[k])
               PROVE  status'[x] = "blocked" /\ Waiting(x, k)'
      BY <1>7 DEF WaitLists
  <2>1. CASE x = t
    <3>1. k = s
      <4>1. k # s => x \in ToSet(waiters[k])
          BY <1>7
      <4>2. \A y \in ToSet(waiters[k]) : status[y] = "blocked"
          BY DEF Queues, WaitLists
      <4> QED
          BY <4>1, <4>2, <2>1, <1>4
    <3> QED
        BY <2>1, <3>1, <1>1, <1>6
  <2>2. CASE x # t
    <3>1. x \in ToSet(waiters[k])
        BY <2>2, <1>7
    <3>2. x \in Threads /\ status[x] = "blocked" /\ Waiting(x, k)
        BY <3>1, <1>2, ListElements DEF Queues, WaitLists
    <3> QED
        BY <3>2, <2>2, <1>1, <1>6, OthersWait
  <2> QED
      BY <2>1, <2>2
<1>9. Findable'
  <2> SUFFICES ASSUME NEW x \in Threads, status'[x] = "blocked"
               PROVE  \/ \E k \in Sems : x \in ToSet(waiters'[k])
                      \/ \E u \in Threads : child'[u] = x
      BY DEF Findable
  <2>1. CASE x = t
      BY <2>1, <1>7
  <2>2. CASE x # t
    <3>1. \/ \E k \in Sems : x \in ToSet(waiters[k])
          \/ \E u \in Threads : child[u] = x
        BY <2>2, <1>6 DEF Queues, Findable
    <3>2. ASSUME NEW k \in Sems, x \in ToSet(waiters[k]) PROVE x \in ToSet(waiters'[k])
        BY <3>2, <1>7
    <3> QED
        BY <3>1, <3>2, <1>1
  <2> QED
      BY <2>1, <2>2
<1>10. Newborn'
  <2>1. ASSUME NEW u \in Threads, child[u] # NULL
        PROVE  /\ status'[child[u]] = "blocked" /\ pc'[child[u]] = "run"
               /\ Creating(u)'
               /\ \A v \in Threads : child[v] = child[u] => u = v
    <3>1. /\ child[u] \in Threads /\ status[child[u]] = "blocked" /\ pc[child[u]] = "run"
          /\ Creating(u) /\ \A v \in Threads : child[v] = child[u] => u = v
        BY <2>1, <1>2 DEF Queues, Newborn
    <3>2. child[u] # cur
        BY <3>1, <1>0
    <3> QED
        BY <3>1, <3>2, <1>1, <1>6 DEF CurGoesOn
  <2>2. ASSUME NEW x \in Threads, status'[x] = "none" PROVE pc'[x] = "run"
    <3>1. status[x] = "none" /\ x # cur
        BY <2>2, <1>0, <1>6
    <3> QED
        BY <3>1, <1>1 DEF CurGoesOn, Queues, Newborn
  <2> QED
      BY <2>1, <2>2, <1>1 DEF Newborn
<1> QED
    BY <1>5, <1>6, <1>8, <1>9, <1>10 DEF Queues

LEMMA CreateQueues ==
    ASSUME QueueTypes, Queues, NEW t \in Threads, NEW u \in Threads, CreateShape(t, u)
    PROVE  Queues'
<1>0. /\ \A x \in Threads : status[x] = "running" <=> x = cur
      /\ IsInjective(ready_list)
      /\ \A x \in Threads : x \in ToSet(ready_list) <=> status[x] = "ready"
    BY DEF Queues, RunQueue
<1>1. /\ cur = t /\ pc[t] = "run" /\ ~Creating(t) /\ status[u] = "none"
      /\ UNCHANGED <<cur, ready_list, lk, ret, value, waiters>>
    BY DEF CreateShape
<1>2. /\ status \in [Threads -> Status] /\ waiters \in [Sems -> Seq(Threads)]
      /\ pc \in [Threads -> PCs] /\ child \in [Threads -> Threads \cup {NULL}]
    BY DEF QueueTypes, SchedTypes
<1>3. \A x \in Threads : /\ status'[x] = IF x = u THEN "blocked" ELSE status[x]
                         /\ child'[x] = IF x = t THEN u ELSE child[x]
                         /\ pc'[x] = IF x = t THEN "tc_lock" ELSE pc[x]
    BY <1>2 DEF CreateShape
<1>4. u # t /\ child[t] = NULL /\ pc[u] = "run" /\ \A v \in Threads : child[v] # u
  <2>1. status[t] = "running"
      BY <1>0, <1>1
  <2> QED
      BY <2>1, <1>1, DistinctAssumption DEF Queues, Newborn
<1>5. RunQueue'
    BY <1>0, <1>1, <1>3 DEF RunQueue
<1>6. WaitLists'
  <2> SUFFICES ASSUME NEW k \in Sems, NEW x \in ToSet(waiters[k])
               PROVE  status'[x] = "blocked" /\ Waiting(x, k)'
      BY <1>1 DEF WaitLists, Queues
  <2>1. x \in Threads /\ status[x] = "blocked" /\ Waiting(x, k)
      BY <1>2, ListElements DEF Queues, WaitLists
  <2>2. x # t
      BY <2>1, <1>0, <1>1
  <2> QED
      BY <2>1, <2>2, <1>1, <1>3 DEF Waiting
<1>7. Findable'
    BY <1>1, <1>3, <1>4, DistinctAssumption DEF Queues, Findable
<1>8. Newborn'
  <2>1. ASSUME NEW v \in Threads, child'[v] # NULL
        PROVE  /\ status'[child'[v]] = "blocked" /\ pc'[child'[v]] = "run"
               /\ Creating(v)'
               /\ \A x \in Threads : child'[x] = child'[v] => v = x
    <3>1. CASE v = t
      <4>1. child'[v] = u /\ Creating(v)'
          BY <3>1, <1>3 DEF Creating, InCreate
      <4>2. \A x \in Threads : child'[x] = u => x = t
          BY <1>3, <1>4
      <4> QED
          BY <3>1, <4>1, <4>2, <1>3, <1>4
    <3>2. CASE v # t
      <4>1. /\ child'[v] = child[v] /\ child[v] \in Threads
            /\ status[child[v]] = "blocked" /\ pc[child[v]] = "run"
            /\ Creating(v) /\ \A x \in Threads : child[x] = child[v] => v = x
          BY <3>2, <2>1, <1>2, <1>3 DEF Queues, Newborn
      <4>2. child[v] # t /\ child[v] # u
          BY <4>1, <1>0, <1>1
      <4>3. Creating(v)'
          BY <4>1, <3>2, <1>1, <1>3 DEF Creating
      <4>4. \A x \in Threads : child'[x] = child[v] => v = x
          BY <4>1, <4>2, <1>3
      <4> QED
          BY <4>1, <4>2, <4>3, <4>4, <1>3
    <3> QED
        BY <3>1, <3>2
  <2>2. ASSUME NEW x \in Threads, status'[x] = "none" PROVE pc'[x] = "run"
      BY <2>2, <1>0, <1>1, <1>3 DEF Queues, Newborn
  <2> QED
      BY <2>1, <2>2 DEF Newborn
<1> QED
    BY <1>5, <1>6, <1>7, <1>8 DEF Queues

LEMMA UnblockQueues ==
    ASSUME QueueTypes, Queues, NEW t \in Threads, NEW u \in Threads, UnblockShape(t, u)
    PROVE  /\ Queues' /\ pc[u] = "run"
           /\ \A x \in Threads : status'[x] = "blocked" <=> status[x] = "blocked" /\ x # u
<1> DEFINE r == [status EXCEPT ![u] = "ready"]
           l == Cons(u, ready_list)
<1>0. /\ \A x \in Threads : status[x] = "running" <=> x = cur
      /\ IsInjective(ready_list)
      /\ \A x \in Threads : x \in ToSet(ready_list) <=> status[x] = "ready"
    BY DEF Queues, RunQueue
<1>1. /\ cur = t /\ pc[t] = "tc_go" /\ child[t] = u
      /\ ThreadYield(l, r, priority)
      /\ UNCHANGED <<lk, ret, value, waiters>>
    BY DEF UnblockShape
<1>2. /\ ready_list \in Seq(Threads) /\ status \in [Threads -> Status]
      /\ waiters \in [Sems -> Seq(Threads)]
      /\ cur \in Threads \cup {Idle} /\ priority \in [Threads -> Pris]
      /\ pc \in [Threads -> PCs] /\ child \in [Threads -> Threads \cup {NULL}]
    BY DEF QueueTypes, SchedTypes
<1>3. \A x \in Threads : /\ child'[x] = IF x = t THEN NULL ELSE child[x]
                         /\ pc'[x] = IF x = t THEN "run" ELSE pc[x]
    BY <1>2 DEF UnblockShape
<1>4. /\ status[u] = "blocked" /\ pc[u] = "run"
      /\ \A v \in Threads : child[v] = u => v = t
    BY <1>1, DistinctAssumption DEF Queues, Newborn
<1>5. u # cur /\ u \notin ToSet(ready_list)
    BY <1>0, <1>4
<1>6. /\ r \in [Threads -> Status]
      /\ \A x \in Threads : r[x] = IF x = u THEN "ready" ELSE status[x]
    BY <1>2 DEF Status
<1>7. l \in Seq(Threads) /\ ToSet(l) = ToSet(ready_list) \cup {u} /\ IsInjective(l)
    BY <1>0, <1>2, <1>5, ConsList
<1> HIDE DEF r, l
<1>8. RunQueue' /\ Kept(r)
  <2>1. \A x \in Threads : x \in ToSet(l) <=> r[x] = "ready"
      BY <1>0, <1>6, <1>7
  <2>2. \A x \in Threads : r[x] = "running" <=> x = cur
      BY <1>0, <1>5, <1>6
  <2> QED
      BY <2>1, <2>2, <1>1, <1>2, <1>6, <1>7, YieldQueue
<1>9. \A x \in Threads : /\ status'[x] = "blocked" <=> status[x] = "blocked" /\ x # u
                         /\ status'[x] = "none" => status[x] = "none"
    BY <1>6, <1>8 DEF Kept
<1>10. WaitLists'
  <2> SUFFICES ASSUME NEW k \in Sems, NEW x \in ToSet(waiters[k])
               PROVE  status'[x] = "blocked" /\ Waiting(x, k)'
      BY <1>1 DEF WaitLists, Queues
  <2>1. x \in Threads /\ status[x] = "blocked" /\ Waiting(x, k)
      BY <1>2, ListElements DEF Queues, WaitLists
  <2>2. x # t /\ x # u
      BY <2>1, <1>0, <1>1, <1>4, WaitsForOne DEF WakePCs
  <2> QED
      BY <2>1, <2>2, <1>1, <1>3, <1>9 DEF Waiting
<1>11. Findable'
  <2> SUFFICES ASSUME NEW x \in Threads, status'[x] = "blocked"
               PROVE  \/ \E k \in Sems : x \in ToSet(waiters'[k])
                      \/ \E v \in Threads : child'[v] = x
      BY DEF Findable
  <2>1. status[x] = "blocked" /\ x # u
      BY <1>9
  <2>2. \/ \E k \in Sems : x \in ToSet(waiters[k])
        \/ \E v \in Threads : child[v] = x
      BY <2>1 DEF Queues, Findable
  <2> QED
      BY <2>1, <2>2, <1>1, <1>3
<1>12. Newborn'
  <2>1. ASSUME NEW v \in Threads, child'[v] # NULL
        PROVE  /\ status'[child'[v]] = "blocked" /\ pc'[child'[v]] = "run"
               /\ Creating(v)'
               /\ \A x \in Threads : child'[x] = child'[v] => v = x
    <3>1. /\ v # t /\ child'[v] = child[v] /\ child[v] \in Threads
          /\ status[child[v]] = "blocked" /\ pc[child[v]] = "run"
          /\ Creating(v) /\ \A x \in Threads : child[x] = child[v] => v = x
        BY <2>1, <1>2, <1>3 DEF Queues, Newborn
    <3>2. child[v] # t /\ child[v] # u
        BY <3>1, <1>0, <1>1, <1>4
    <3>3. Creating(v)'
        BY <3>1, <1>1, <1>3 DEF Creating
    <3>4. \A x \in Threads : child'[x] = child[v] => v = x
        BY <3>1, <1>3, <2>1
    <3> QED
        BY <3>1, <3>2, <3>3, <3>4, <1>3, <1>9
  <2>2. ASSUME NEW x \in Threads, status'[x] = "none" PROVE pc'[x] = "run"
      BY <2>2, <1>3, <1>9 DEF Queues, Newborn
  <2> QED
      BY <2>1, <2>2 DEF Newborn
<1> QED
    BY <1>4, <1>8, <1>9, <1>10, <1>11, <1>12 DEF Queues

LEMMA ExitQueues ==
    ASSUME QueueTypes, Queues, NEW t \in Threads, ExitShape(t)
    PROVE  Queues' /\ \A x \in Threads : status'[x] = "blocked" <=> status[x] = "blocked"
<1> DEFINE r == [status EXCEPT ![t] = "dead"]
<1>0. /\ \A x \in Threads : status[x] = "running" <=> x = cur
      /\ IsInjective(ready_list)
      /\ \A x \in Threads : x \in ToSet(ready_list) <=> status[x] = "ready"
    BY DEF Queues, RunQueue
<1>1. /\ cur = t /\ Schedule(ready_list, r, priority)
      /\ UNCHANGED <<pc, lk, ret, value, waiters, child>>
    BY DEF ExitShape
<1>2. /\ ready_list \in Seq(Threads) /\ status \in [Threads -> Status]
      /\ priority \in [Threads -> Pris]
    BY DEF QueueTypes, SchedTypes
<1>3. /\ r \in [Threads -> Status]
      /\ \A x \in Threads : r[x] = IF x = t THEN "dead" ELSE status[x]
    BY <1>2 DEF Status
<1>4. status[t] = "running"
    BY <1>0, <1>1
<1> HIDE DEF r
<1>5. /\ RunQueue'
      /\ \A x \in Threads : \/ r[x] = "ready" /\ status'[x] \in {"ready", "running"}
                            \/ r[x] # "ready" /\ status'[x] = r[x]
  <2>1. \A x \in Threads : x \in ToSet(ready_list) <=> r[x] = "ready"
      BY <1>0, <1>3, <1>4
  <2>2. \A x \in Threads : r[x] # "running"
      BY <1>0, <1>1, <1>3
  <2> QED
      BY <2>1, <2>2, <1>0, <1>1, <1>2, <1>3, ScheduleQueue
<1>6. \A x \in Threads : /\ status'[x] = "blocked" <=> status[x] = "blocked"
                         /\ status'[x] = "none" => status[x] = "none"
    BY <1>3, <1>4, <1>5
<1>7. CurGoesOn
    BY <1>1 DEF CurGoesOn, Creating
<1> QED
    BY <1>1, <1>5, <1>6, <1>7, SameBlocked DEF Queues

-----------------------------------------------------------------------------
(* Wake-ups. *)

\* Woken threads are those that wait and are not blocked.
LEMMA WokenWaits ==
    /\ \A s : Woken(s) = {t \in Threads : status[t] # "blocked" /\ Waiting(t, s)}
    /\ \A s : Woken(s) \subseteq {t \in Threads : pc[t] \in WakePCs}
    BY DEF Woken, Waiting, WakePCs

LEMMA WokenPrime ==
    \A s : Woken(s)' = {t \in Threads : status'[t] # "blocked" /\ Waiting(t, s)'}
    BY DEF Woken, Waiting

LEMMA WokenFinite ==
    ASSUME FewWaiting, NEW s
    PROVE  IsFiniteSet(Woken(s)) /\ Cardinality(Woken(s)) \in Nat
<1>1. IsFiniteSet(Woken(s))
    BY WokenWaits, FS_Subset DEF FewWaiting
<1> QED
    BY <1>1, FS_CardinalityType

\* One thread more can be waiting after a step.
LEMMA FewMore ==
    ASSUME FewWaiting, NEW t, \A u \in Threads : u # t => pc'[u] = pc[u]
    PROVE  FewWaiting'
<1> DEFINE A == {u \in Threads : pc[u] \in WakePCs}
           B == {u \in Threads : pc'[u] \in WakePCs}
<1>1. B \subseteq A \cup {t}
    OBVIOUS
<1>2. IsFiniteSet(A \cup {t})
    BY FS_AddElement DEF FewWaiting
<1>3. IsFiniteSet(B)
    BY <1>1, <1>2, FS_Subset
<1> QED
    BY <1>3 DEF FewWaiting

\* A step outside the loop of sema_down changes nobody's waiting.
LEMMA NotDownWaits ==
    ASSUME CurGoesOn, NotDown, NEW t \in Threads, NEW s
    PROVE  Waiting(t, s)' <=> Waiting(t, s)
<1>1. CASE t # cur
    BY <1>1, OthersWait
<1>2. CASE t = cur
    BY <1>2 DEF NotDown, Waiting, WakePCs
<1> QED
    BY <1>1, <1>2

\* A step that wakes nobody, and after which no semaphore is higher.
LEMMA SameWoken ==
    ASSUME NoLostWakeup, FewWaiting, FewWaiting', UNCHANGED waiters,
           value \in [Sems -> Nat],
           \A s \in Sems : value'[s] \in Nat /\ value'[s] <= value[s],
           \A t \in Threads, s \in Sems :
              status'[t] # "blocked" /\ Waiting(t, s)' <=> status[t] # "blocked" /\ Waiting(t, s)
    PROVE  NoLostWakeup'
<1> SUFFICES ASSUME NEW s \in Sems, waiters[s] # <<>>
             PROVE  value'[s] <= Cardinality(Woken(s)')
    BY DEF NoLostWakeup
<1>1. Woken(s)' = Woken(s)
    BY WokenWaits, WokenPrime
<1>2. Cardinality(Woken(s)) \in Nat
    BY WokenFinite
<1>3. value[s] <= Cardinality(Woken(s))
    BY DEF NoLostWakeup
<1> QED
    BY <1>1, <1>2, <1>3

LEMMA LocalWakes ==
    ASSUME QueueTypes, QueueInv, LocalShape
    PROVE  NoLostWakeup' /\ FewWaiting'
<1>1. FewWaiting'
    BY FewMore DEF LocalShape, CurGoesOn, QueueInv
<1>2. \A t \in Threads, s \in Sems : Waiting(t, s)' <=> Waiting(t, s)
    BY NotDownWaits DEF LocalShape
<1>3. UNCHANGED <<status, waiters>>
    BY DEF LocalShape, schedVars
<1> QED
    BY <1>1, <1>2, <1>3, SameWoken DEF LocalShape, QueueInv, QueueTypes

LEMMA YieldWakes ==
    ASSUME QueueTypes, QueueInv, YieldShape
    PROVE  NoLostWakeup' /\ FewWaiting'
<1>1. FewWaiting'
    BY FewMore DEF YieldShape, CurGoesOn, QueueInv
<1>2. \A t \in Threads, s \in Sems : Waiting(t, s)' <=> Waiting(t, s)
    BY NotDownWaits DEF YieldShape
<1>3. \A t \in Threads : status'[t] = "blocked" <=> status[t] = "blocked"
    BY YieldQueues DEF QueueInv
<1>4. \A s \in Sems : value'[s] \in Nat /\ value'[s] <= value[s]
    BY DEF YieldShape, QueueTypes
<1> QED
    BY <1>1, <1>2, <1>3, <1>4, SameWoken DEF YieldShape, QueueInv, QueueTypes

LEMMA CreateWakes ==
    ASSUME QueueTypes, QueueInv, NEW t \in Threads, NEW u \in Threads, CreateShape(t, u)
    PROVE  NoLostWakeup' /\ FewWaiting'
<1>1. /\ \A x \in Threads : /\ pc'[x] = IF x = t THEN "tc_lock" ELSE pc[x]
                            /\ status'[x] = IF x = u THEN "blocked" ELSE status[x]
      /\ pc[t] = "run" /\ status[u] = "none"
      /\ UNCHANGED <<lk, value, waiters>>
    BY DEF CreateShape, QueueTypes, SchedTypes
<1>2. FewWaiting'
    BY <1>1, FewMore DEF QueueInv
<1>3. pc[u] = "run"
    BY <1>1 DEF QueueInv, Queues, Newborn
<1>4. \A x \in Threads, s \in Sems :
         status'[x] # "blocked" /\ Waiting(x, s)' <=> status[x] # "blocked" /\ Waiting(x, s)
    BY <1>1, <1>3 DEF Waiting
<1>5. \A s \in Sems : value'[s] \in Nat /\ value'[s] <= value[s]
    BY <1>1 DEF QueueTypes
<1> QED
    BY <1>1, <1>2, <1>4, <1>5, SameWoken DEF QueueInv, QueueTypes

LEMMA UnblockWakes ==
    ASSUME QueueTypes, QueueInv, NEW t \in Threads, NEW u \in Threads, UnblockShape(t, u)
    PROVE  NoLostWakeup' /\ FewWaiting'
<1>1. /\ \A x \in Threads : pc'[x] = IF x = t THEN "run" ELSE pc[x]
      /\ pc[t] = "tc_go"
      /\ UNCHANGED <<lk, value, waiters>>
    BY DEF UnblockShape, QueueTypes
<1>2. FewWaiting'
    BY <1>1, FewMore DEF QueueInv
<1>3. /\ pc[u] = "run"
      /\ \A x \in Threads : status'[x] = "blocked" <=> status[x] = "blocked" /\ x # u
    BY UnblockQueues DEF QueueInv
<1>4. \A x \in Threads, s \in Sems :
         status'[x] # "blocked" /\ Waiting(x, s)' <=> status[x] # "blocked" /\ Waiting(x, s)
    BY <1>1, <1>3 DEF Waiting
<1>5. \A s \in Sems : value'[s] \in Nat /\ value'[s] <= value[s]
    BY <1>1 DEF QueueTypes
<1> QED
    BY <1>1, <1>2, <1>4, <1>5, SameWoken DEF QueueInv, QueueTypes

LEMMA ExitWakes ==
    ASSUME QueueTypes, QueueInv, NEW t \in Threads, ExitShape(t)
    PROVE  NoLostWakeup' /\ FewWaiting'
<1>1. UNCHANGED <<pc, lk, value, waiters>>
    BY DEF ExitShape
<1>2. FewWaiting'
    BY <1>1, FewMore DEF QueueInv
<1>3. \A x \in Threads : status'[x] = "blocked" <=> status[x] = "blocked"
    BY ExitQueues DEF QueueInv
<1>4. \A x \in Threads, s \in Sems :
         status'[x] # "blocked" /\ Waiting(x, s)' <=> status[x] # "blocked" /\ Waiting(x, s)
    BY <1>1, <1>3 DEF Waiting
<1>5. \A s \in Sems : value'[s] \in Nat /\ value'[s] <= value[s]
    BY <1>1 DEF QueueTypes
<1> QED
    BY <1>1, <1>2, <1>4, <1>5, SameWoken DEF QueueInv, QueueTypes

\* sema_down that succeeds: one unit less, and one thread less on its way.
LEMMA TakeWakes ==
    ASSUME QueueTypes, QueueInv, NEW t \in Threads, NEW s \in Sems, TakeShape(t, s)
    PROVE  NoLostWakeup' /\ FewWaiting'
<1>1. /\ cur = t /\ CurGoesOn /\ pc'[t] \notin WakePCs
      /\ pc[t] \in WakePCs => Waiting(t, s)
      /\ value[s] > 0 /\ UNCHANGED <<status, waiters>>
      /\ \A k \in Sems : value'[k] = IF k = s THEN value[k] - 1 ELSE value[k]
    BY DEF TakeShape, schedVars, QueueTypes
<1>2. FewWaiting'
    BY <1>1, FewMore DEF CurGoesOn, QueueInv
<1>3. ASSUME NEW k \in Sems
      PROVE  Woken(k)' = IF k = s THEN Woken(k) \ {t} ELSE Woken(k)
  <2>1. ~Waiting(t, k)' /\ (k # s => ~Waiting(t, k))
      BY <1>1, WaitsForOne DEF Waiting, WakePCs
  <2>2. \A x \in Threads : x # t => (Waiting(x, k)' <=> Waiting(x, k))
      BY <1>1, OthersWait
  <2> QED
      BY <2>1, <2>2, <1>1, WokenWaits, WokenPrime
<1> SUFFICES ASSUME NEW k \in Sems, waiters[k] # <<>>
             PROVE  value'[k] <= Cardinality(Woken(k)')
    BY <1>1, <1>2 DEF NoLostWakeup
<1>4. /\ value[k] \in Nat /\ value[k] <= Cardinality(Woken(k))
      /\ IsFiniteSet(Woken(k)) /\ Cardinality(Woken(k)) \in Nat
    BY WokenFinite DEF QueueInv, NoLostWakeup, QueueTypes
<1>5. CASE k # s
    BY <1>5, <1>1, <1>3, <1>4
<1>6. CASE k = s
  <2>1. Cardinality(Woken(k) \ {t}) \in {Cardinality(Woken(k)), Cardinality(Woken(k)) - 1}
      BY <1>4, FS_RemoveElement
  <2>2. Woken(k)' = Woken(k) \ {t} /\ value'[k] = value[k] - 1
      BY <1>6, <1>1, <1>3
  <2> QED
      BY <2>1, <2>2, <1>4
<1> QED
    BY <1>5, <1>6

\* sema_down that blocks: the value is 0.
LEMMA BlockWakes ==
    ASSUME QueueTypes, QueueInv, NEW t \in Threads, NEW s \in Sems, BlockShape(t, s)
    PROVE  NoLostWakeup' /\ FewWaiting'
<1>1. /\ cur = t /\ CurGoesOn /\ Waiting(t, s)'
      /\ pc[t] \in WakePCs => Waiting(t, s)
      /\ value[s] = 0 /\ value' = value
      /\ \A k \in Sems : k # s => waiters'[k] = waiters[k]
    BY DEF BlockShape, QueueTypes, SchedTypes
<1>2. FewWaiting'
    BY <1>1, FewMore DEF CurGoesOn, QueueInv
<1>3. \A x \in Threads : status'[x] = "blocked" <=> status[x] = "blocked" \/ x = t
    BY BlockQueues DEF QueueInv
<1>4. ASSUME NEW k \in Sems, k # s PROVE Woken(k)' = Woken(k)
  <2>1. ~Waiting(t, k)
      BY <1>1, <1>4, WaitsForOne DEF Waiting, WakePCs
  <2>2. \A x \in Threads : x # t => (Waiting(x, k)' <=> Waiting(x, k))
      BY <1>1, OthersWait
  <2> QED
      BY <2>1, <2>2, <1>3, WokenWaits, WokenPrime
<1> SUFFICES ASSUME NEW k \in Sems, waiters'[k] # <<>>
             PROVE  value[k] <= Cardinality(Woken(k)')
    BY <1>1, <1>2 DEF NoLostWakeup
<1>5. CASE k = s
  <2>1. Woken(k)' \subseteq {x \in Threads : pc'[x] \in WakePCs}
      BY DEF Woken, WakePCs
  <2>2. Cardinality(Woken(k)') \in Nat
      BY <1>2, <2>1, FS_Subset, FS_CardinalityType DEF FewWaiting
  <2> QED
      BY <1>5, <2>2, <1>1
<1>6. CASE k # s
    BY <1>6, <1>1, <1>4 DEF QueueInv, NoLostWakeup
<1> QED
    BY <1>5, <1>6

\* sema_up: one unit more, and, if a thread waits, one more on its way.
LEMMA UpWakes ==
    ASSUME QueueTypes, QueueInv, NEW s \in Sems, UpShape(s)
    PROVE  Queues' /\ NoLostWakeup' /\ FewWaiting'
<1>1. /\ CurGoesOn /\ NotDown /\ SemaUp(s) /\ UNCHANGED child
      /\ \A k \in Sems : value'[k] = IF k = s THEN value[k] + 1 ELSE value[k]
    BY DEF UpShape, SemaUp, QueueTypes
<1>2. FewWaiting'
    BY <1>1, FewMore DEF CurGoesOn, QueueInv
<1>3. \A t \in Threads, k \in Sems : Waiting(t, k)' <=> Waiting(t, k)
    BY <1>1, NotDownWaits
<1>4. CASE waiters[s] = <<>>
  <2>1. ThreadYield(ready_list, status, priority) /\ UNCHANGED waiters
      BY <1>1, <1>4 DEF SemaUp
  <2>2. RunQueue' /\ Kept(status)
      BY <2>1, YieldQueue DEF QueueTypes, SchedTypes, QueueInv, Queues, RunQueue
  <2>3. \A t \in Threads : /\ status'[t] = "blocked" <=> status[t] = "blocked"
                           /\ status'[t] = "none" => status[t] = "none"
      BY <2>2 DEF Kept
  <2>4. Queues'
      BY <1>1, <2>1, <2>2, <2>3, SameBlocked DEF Queues, QueueInv
  <2>5. ASSUME NEW k \in Sems PROVE Woken(k)' = Woken(k)
      BY <2>3, <1>3, WokenWaits, WokenPrime
  <2>6. NoLostWakeup'
    <3> SUFFICES ASSUME NEW k \in Sems, waiters'[k] # <<>>
                 PROVE  value'[k] <= Cardinality(Woken(k)')
        BY DEF NoLostWakeup
    <3>1. k # s /\ waiters[k] # <<>>
        BY <1>4, <2>1
    <3> QED
        BY <3>1, <2>5, <1>1 DEF QueueInv, NoLostWakeup
  <2> QED
      BY <2>4, <2>6, <1>2
<1>5. CASE waiters[s] # <<>>
  <2>1. Queues'
      BY <1>5, UpQueues DEF QueueInv
  <2>2. PICK w \in Threads :
           /\ w \in ToSet(waiters[s]) /\ Waiting(w, s) /\ status[w] = "blocked"
           /\ \A t \in Threads : status'[t] = "blocked" <=> status[t] = "blocked" /\ t # w
      BY <1>5, UpQueues DEF QueueInv
  <2>3. w \notin Woken(s) /\ Woken(s)' = Woken(s) \cup {w}
      BY <2>2, <1>3, WokenWaits, WokenPrime
  <2>4. ASSUME NEW k \in Sems, k # s PROVE Woken(k)' = Woken(k)
    <3>1. ~Waiting(w, k)
        BY <2>2, <2>4, WaitsForOne
    <3> QED
        BY <3>1, <2>2, <1>3, WokenWaits, WokenPrime
  <2>5. \A k \in Sems : k # s => waiters'[k] = waiters[k]
      BY <1>1, <1>5 DEF SemaUp, QueueTypes, SchedTypes
  <2>6. NoLostWakeup'
    <3> SUFFICES ASSUME NEW k \in Sems, waiters'[k] # <<>>
                 PROVE  value'[k] <= Cardinality(Woken(k)')
        BY DEF NoLostWakeup
    <3>1. CASE k = s
      <4>1. /\ value[s] \in Nat /\ value[s] <= Cardinality(Woken(s))
            /\ IsFiniteSet(Woken(s)) /\ Cardinality(Woken(s)) \in Nat
          BY <1>5, WokenFinite DEF QueueInv, NoLostWakeup, QueueTypes
      <4>2. Cardinality(Woken(s) \cup {w}) = Cardinality(Woken(s)) + 1
          BY <4>1, <2>3, FS_AddElement
      <4> QED
          BY <3>1, <4>1, <4>2, <2>3, <1>1
    <3>2. CASE k # s
        BY <3>2, <2>4, <2>5, <1>1 DEF QueueInv, NoLostWakeup
    <3> QED
        BY <3>1, <3>2
  <2> QED
      BY <2>1, <2>6, <1>2
<1> QED
    BY <1>4, <1>5

\* All kinds of step.
LEMMA ShapesKeep ==
    ASSUME QueueTypes, QueueInv, Shapes
    PROVE  QueueInv'
<1> USE DEF QueueInv
<1>1. CASE LocalShape
    BY <1>1, LocalQueues, LocalWakes DEF LocalShape
<1>2. CASE YieldShape
    BY <1>2, YieldQueues, YieldWakes
<1>3. ASSUME NEW s \in Sems, UpShape(s) PROVE QueueInv'
    BY <1>3, UpWakes
<1>4. ASSUME NEW t \in Threads, NEW s \in Sems, TakeShape(t, s) PROVE QueueInv'
    BY <1>4, LocalQueues, TakeWakes DEF TakeShape
<1>5. ASSUME NEW t \in Threads, NEW s \in Sems, BlockShape(t, s) PROVE QueueInv'
    BY <1>5, BlockQueues, BlockWakes
<1>6. ASSUME NEW t \in Threads, NEW u \in Threads, CreateShape(t, u) PROVE QueueInv'
    BY <1>6, CreateQueues, CreateWakes
<1>7. ASSUME NEW t \in Threads, NEW u \in Threads, UnblockShape(t, u) PROVE QueueInv'
    BY <1>7, UnblockQueues, UnblockWakes
<1>8. ASSUME NEW t \in Threads, ExitShape(t) PROVE QueueInv'
    BY <1>8, ExitQueues, ExitWakes
<1> QED
    BY <1>1, <1>2, <1>3, <1>4, <1>5, <1>6, <1>7, <1>8 DEF Shapes

-----------------------------------------------------------------------------
(* Every step of Synch is of one of the kinds. *)

\* The running thread t goes on in lock_acquire, lock_release or thread_create.
LEMMA GoOn ==
    ASSUME LockTypes, NEW t \in Threads, cur = t, NEW p, NEW x, NEW b,
           pc' = [pc EXCEPT ![t] = p], lk' = [lk EXCEPT ![t] = x], ret' = [ret EXCEPT ![t] = b],
           Creating(t) => p \in InCreate \/ b \in InCreate
    PROVE  CurGoesOn /\ pc'[t] = p /\ lk'[t] = x /\ ret'[t] = b
    BY DEF LockTypes, CurGoesOn, Creating

\* A step of sema_down is one of the two kinds.
LEMMA DownShapes ==
    ASSUME LockTypes, NEW t \in Threads, NEW s \in Sems, cur = t, UNCHANGED child,
           NEW ok, ok \notin WakePCs, NEW wake, SemaDown(t, s, ok, wake), CurGoesOn,
           pc[t] \in WakePCs => Waiting(t, s),
           value[s] = 0 => Waiting(t, s)'
    PROVE  Shapes
<1>1. pc'[t] = ok \/ pc'[t] = wake
    BY DEF SemaDown, Goto, LockTypes
<1>2. CASE value[s] > 0
  <2>1. TakeShape(t, s)
      BY <1>2 DEF SemaDown, TakeShape, Goto, LockTypes
  <2> QED
      BY <2>1 DEF Shapes
<1>3. CASE ~(value[s] > 0)
  <2>1. BlockShape(t, s)
      BY <1>3 DEF SemaDown, BlockShape, LockTypes
  <2> QED
      BY <2>1 DEF Shapes
<1> QED
    BY <1>2, <1>3

\* A step of lock_acquire or lock_release that touches no queue.
LEMMA InsideShapes ==
    ASSUME LockTypes, TidTypes, NEW t \in Threads, cur = t,
           NEW p \in (InAcquire \cup InRelease) \ WakePCs, pc[t] \notin WakePCs,
           pc[t] \in InAcquire \cup InRelease,
           pc' = [pc EXCEPT ![t] = p],
           UNCHANGED <<schedVars, waiters, child, value, lk, ret>>
    PROVE  Shapes
<1>1. pc[t] \notin InCreate
    BY DEF InAcquire, InRelease, InCreate
<1>2. CurGoesOn /\ pc'[t] = p
    BY <1>1 DEF CurGoesOn, Creating, LockTypes
<1>3. LocalShape
    BY <1>2 DEF LocalShape, NotDown, LockTypes
<1> QED
    BY <1>3 DEF Shapes

\* A step that touches nothing the queues depend on.
LEMMA StillShapes ==
    ASSUME LockTypes, NEW t \in Threads, cur = t, pc[t] \notin WakePCs,
           UNCHANGED <<schedVars, waiters, child, value, pc, lk, ret>>
    PROVE  Shapes
<1>1. CurGoesOn
    BY DEF CurGoesOn, Creating
<1>2. LocalShape
    BY <1>1 DEF LocalShape, NotDown, LockTypes
<1> QED
    BY <1>2 DEF Shapes

LEMMA CrashShapes ==
    ASSUME LockTypes, NEW t \in Threads, cur = t, pc[t] \notin WakePCs, NEW f, Crash(f)
    PROVE  Shapes
    BY StillShapes DEF Crash, semVars, tidVars, locVars

\* A return from lock_acquire, lock_try_acquire or lock_release.
LEMMA ReturnGoesOn ==
    ASSUME LockTypes, TidTypes, NEW t \in Threads, cur = t, Return(t),
           pc[t] \in InAcquire \cup InRelease \cup {"lt_own"}
    PROVE  CurGoesOn /\ pc'[t] = ret[t] /\ pc'[t] \notin WakePCs
<1>1. pc[t] \notin InCreate
    BY DEF InAcquire, InRelease, InCreate
<1>2. ret[t] \notin WakePCs
    BY DEF LockTypes, Backs
<1> QED
    BY <1>1, <1>2, GoOn DEF Return, Goto, Creating

LEMMA AcquireShapes ==
    ASSUME LockInv, Others, NEW t \in Threads,
           \/ AcquirePriority(t) \/ AcquireRecipient(t) \/ DonatePush(t) \/ DonateUpdate(t)
           \/ AcquireBene(t) \/ AcquireBeneElem(t) \/ AcquireHolder(t) \/ ReleasePriorities(t)
    PROVE  Shapes
<1>0. LockTypes /\ TidTypes
    BY DEF LockInv, Others
<1>1. cur = t /\ pc[t] \in (InAcquire \cup InRelease) \ WakePCs
    BY DEF AcquirePriority, AcquireRecipient, DonatePush, DonateUpdate, AcquireBene,
           AcquireBeneElem, AcquireHolder, ReleasePriorities, At, InAcquire, InRelease, WakePCs
<1>2. \/ \E f \in Faults : Crash(f)
      \/ /\ UNCHANGED <<schedVars, waiters, child, value, lk, ret>>
         /\ \/ UNCHANGED pc
            \/ \E p \in {"la_arg", "la_push", "la_upd", "la_bene", "la_elem", "la_down", "la_clr",
                         "lr_up"} : pc' = [pc EXCEPT ![t] = p]
  <2>1. CASE AcquirePriority(t)
      BY <2>1 DEF AcquirePriority, Goto, Faults, semVars, tidVars, locVars
  <2>2. CASE AcquireRecipient(t)
      BY <2>2 DEF AcquireRecipient, Goto, semVars, tidVars
  <2>3. CASE DonatePush(t)
      BY <2>3 DEF DonatePush, Goto, Faults, semVars, tidVars, locVars
  <2>4. CASE DonateUpdate(t)
      BY <2>4 DEF DonateUpdate, UpdateDonation, Goto, Faults, semVars, tidVars
  <2>5. CASE AcquireBene(t)
      BY <2>5 DEF AcquireBene, Goto, semVars, tidVars, locVars
  <2>6. CASE AcquireBeneElem(t)
      BY <2>6 DEF AcquireBeneElem, Goto, semVars, tidVars, locVars
  <2>7. CASE AcquireHolder(t)
      BY <2>7 DEF AcquireHolder, Goto, semVars, tidVars, locVars
  <2>8. CASE ReleasePriorities(t)
      BY <2>8 DEF ReleasePriorities, Goto, Faults, semVars, tidVars, locVars
  <2> QED
      BY <2>1, <2>2, <2>3, <2>4, <2>5, <2>6, <2>7, <2>8
<1>3. CASE \E f \in Faults : Crash(f)
    BY <1>0, <1>1, <1>3, CrashShapes
<1>4. CASE UNCHANGED <<schedVars, waiters, child, value, lk, ret, pc>>
    BY <1>0, <1>1, <1>4, StillShapes
<1>5. ASSUME NEW p \in {"la_arg", "la_push", "la_upd", "la_bene", "la_elem", "la_down", "la_clr",
                        "lr_up"},
             pc' = [pc EXCEPT ![t] = p], UNCHANGED <<schedVars, waiters, child, value, lk, ret>>
      PROVE  Shapes
  <2>1. p \in (InAcquire \cup InRelease) \ WakePCs
      BY DEF InAcquire, InRelease, WakePCs
  <2> QED
      BY <2>1, <1>0, <1>1, <1>5, InsideShapes
<1> QED
    BY <1>2, <1>3, <1>4, <1>5

\* The steps of lock_acquire, lock_release and sema_down that queue, wake or return.
LEMMA LockStepShapes ==
    ASSUME LockInv, Others, NEW t \in Threads,
           \/ AcquireDown(t) \/ SemaDownRetry(t) \/ AcquireReturn(t) \/ TryAcquireHolder(t)
           \/ ReleaseUp(t) \/ ReleaseReturn(t)
    PROVE  Shapes
<1>0. LockTypes /\ TidTypes
    BY DEF LockInv, Others
<1>1. CASE AcquireDown(t)
  <2>1. /\ cur = t /\ pc[t] \in {"la_down", "la_wake"} /\ UNCHANGED <<lk, ret, child>>
        /\ SemaDown(t, lk[t], "la_own", "la_wake")
      BY <1>1 DEF AcquireDown, At, tidVars, locVars
  <2>2. lk[t] \in Sems /\ value[lk[t]] \in Nat
      BY <2>1, <1>0 DEF LockTypes, InAcquire, Sems
  <2>3. /\ pc' = [pc EXCEPT ![t] = "la_own"] \/ pc' = [pc EXCEPT ![t] = "la_wake"]
        /\ value[lk[t]] = 0 => pc' = [pc EXCEPT ![t] = "la_wake"]
      BY <2>1, <2>2 DEF SemaDown, Goto
  <2>4. CurGoesOn
      BY <2>1, <2>3, <1>0 DEF CurGoesOn, Creating, LockTypes, InCreate
  <2>5. /\ pc[t] \in WakePCs => Waiting(t, lk[t])
        /\ value[lk[t]] = 0 => pc'[t] = "la_wake" /\ lk'[t] = lk[t]
      BY <2>1, <2>3, <1>0 DEF Waiting, WakePCs, LockTypes
  <2> DEFINE s == lk[t]
  <2>6. /\ s \in Sems /\ SemaDown(t, s, "la_own", "la_wake")
        /\ pc[t] \in WakePCs => Waiting(t, s)
        /\ value[s] = 0 => pc'[t] = "la_wake" /\ lk'[t] = s
      BY <2>1, <2>2, <2>5
  <2> HIDE DEF s
  <2>7. PICK k \in Sems : k = s
      BY <2>6
  <2>8. value[k] = 0 => Waiting(t, k)'
      BY <2>6, <2>7 DEF Waiting
  <2>9. "la_own" \notin WakePCs
      BY DEF WakePCs
  <2> QED
      BY <2>1, <2>4, <2>6, <2>7, <2>8, <2>9, <1>0, DownShapes
<1>2. CASE SemaDownRetry(t)
  <2>1. /\ cur = t /\ pc[t] = "sd_wake" /\ UNCHANGED <<ret, child>>
        /\ SemaDown(t, lk[t], "run", "sd_wake")
        /\ lk' = [lk EXCEPT ![t] = IF value[lk[t]] > 0 THEN NULL ELSE @]
      BY <1>2 DEF SemaDownRetry, At, tidVars
  <2> DEFINE s == lk[t]
  <2>2. /\ s \in Sems /\ value[s] \in Nat
        /\ SemaDown(t, s, "run", "sd_wake")
        /\ lk' = [lk EXCEPT ![t] = IF value[s] > 0 THEN NULL ELSE s]
        /\ pc[t] \in WakePCs => Waiting(t, s)
      BY <2>1, <1>0 DEF LockTypes, Sems, Waiting
  <2> HIDE DEF s
  <2>3. PICK k \in Sems : k = s
      BY <2>2
  <2>4. /\ pc' = [pc EXCEPT ![t] = "run"] \/ pc' = [pc EXCEPT ![t] = "sd_wake"]
        /\ value[k] = 0 => pc' = [pc EXCEPT ![t] = "sd_wake"]
      BY <2>2, <2>3 DEF SemaDown, Goto
  <2>5. ~Creating(t)
      BY <2>1, <1>0 DEF Creating, TidTypes, InCreate, InAcquire, InRelease
  <2>6. CurGoesOn
      BY <2>1, <2>2, <2>4, <2>5, <1>0 DEF CurGoesOn, Creating, LockTypes
  <2>7. value[k] = 0 => pc'[t] = "sd_wake" /\ lk'[t] = k
      BY <2>2, <2>3, <2>4, <1>0 DEF LockTypes
  <2>8. value[k] = 0 => Waiting(t, k)'
      BY <2>7 DEF Waiting
  <2>9. "run" \notin WakePCs
      BY DEF WakePCs
  <2> QED
      BY <2>1, <2>2, <2>3, <2>6, <2>8, <2>9, <1>0, DownShapes
<1>3. CASE AcquireReturn(t) \/ TryAcquireHolder(t)
  <2>1. /\ cur = t /\ pc[t] \in {"la_clr", "lt_own"} /\ Return(t)
        /\ UNCHANGED <<schedVars, waiters, child, value>>
      BY <1>3 DEF AcquireReturn, TryAcquireHolder, At, semVars, tidVars
  <2>2. CurGoesOn /\ pc'[t] \notin WakePCs
      BY <2>1, <1>0, ReturnGoesOn DEF InAcquire
  <2>3. LocalShape
      BY <2>1, <2>2, <1>0 DEF LocalShape, NotDown, LockTypes, WakePCs
  <2> QED
      BY <2>3 DEF Shapes
<1>4. CASE ReleaseUp(t)
  <2>1. /\ cur = t /\ pc[t] = "lr_up" /\ SemaUp(lk[t]) /\ UNCHANGED <<child, lk, ret>>
        /\ pc' = [pc EXCEPT ![t] = "lr_pri"]
      BY <1>4 DEF ReleaseUp, At, Goto, tidVars, locVars
  <2>2. CurGoesOn /\ NotDown
      BY <2>1, <1>0 DEF CurGoesOn, Creating, NotDown, LockTypes, InCreate, WakePCs
  <2>3. lk[t] \in Sems
      BY <2>1, <1>0 DEF LockTypes, InRelease, Sems
  <2>4. UpShape(lk[t])
      BY <2>1, <2>2 DEF UpShape
  <2> QED
      BY <2>3, <2>4 DEF Shapes
<1>5. CASE ReleaseReturn(t)
  <2>1. cur = t /\ pc[t] = "lr_pri"
      BY <1>5 DEF ReleaseReturn, At
  <2>2. CASE Crash("dangling")
      BY <2>1, <2>2, <1>0, CrashShapes DEF WakePCs
  <2>3. CASE ~Crash("dangling")
    <3> DEFINE n == UpdatedPriority(t, init_pri[t])
    <3>1. /\ priority' = [priority EXCEPT ![t] = n] /\ Return(t)
          /\ ThreadYield(ready_list, status, priority')
          /\ UNCHANGED <<waiters, value, child>>
        BY <1>5, <2>3 DEF ReleaseReturn, semVars, tidVars
    <3>2. n \in Pris
        BY UpdatedPriorityType DEF Others, PriTypes
    <3> HIDE DEF n
    <3>3. priority' \in [Threads -> Pris]
        BY <3>1, <3>2 DEF Others, PriTypes
    <3>4. CurGoesOn /\ pc'[t] \notin WakePCs
        BY <3>1, <2>1, <1>0, ReturnGoesOn DEF InRelease
    <3>5. YieldShape
        BY <3>1, <3>3, <3>4, <2>1 DEF YieldShape, NotDown, WakePCs
    <3> QED
        BY <3>5 DEF Shapes
  <2> QED
      BY <2>2, <2>3
<1> QED
    BY <1>1, <1>2, <1>3, <1>4, <1>5

\* thread_create.
LEMMA CreateShapes ==
    ASSUME LockInv, Others, NEW t \in Threads,
           \/ CreateAcquire(t) \/ CreateTid(t) \/ CreateNextTid(t) \/ CreateUnblock(t)
           \/ \E u \in Threads, p \in Pris : ThreadCreate(t, u, p)
    PROVE  Shapes
<1>0. LockTypes /\ TidTypes
    BY DEF LockInv, Others
<1>1. CASE CreateAcquire(t) \/ CreateTid(t) \/ CreateNextTid(t)
  <2>1. /\ cur = t /\ pc[t] \in InCreate \ WakePCs
        /\ UNCHANGED <<schedVars, waiters, child, value>>
      BY <1>1 DEF CreateAcquire, AcquireCheck, CreateTid, CreateNextTid, At, InCreate, WakePCs,
                  semVars, tidVars
  <2>2. \E p \in {"la_down", "la_pri", "tc_inc", "lr_rel"}, x \in Sems \cup {NULL}, b \in Backs :
           /\ pc' = [pc EXCEPT ![t] = p] /\ lk' = [lk EXCEPT ![t] = x] /\ ret' = [ret EXCEPT ![t] = b]
           /\ p \in InCreate \/ b \in InCreate
    <3>1. TidLock \in Sems /\ "tc_tid" \in Backs /\ "tc_go" \in Backs
          /\ {"tc_inc", "tc_tid", "tc_go"} \subseteq InCreate
        BY LocksAssumption DEF Sems, Backs, WakePCs, PCs, InAcquire, InRelease, InCreate, InCond,
                               InSleep
    <3>2. lk = [lk EXCEPT ![t] = lk[t]] /\ ret = [ret EXCEPT ![t] = ret[t]]
          /\ lk[t] \in Sems \cup {NULL} /\ ret[t] \in Backs
        BY <1>0 DEF LockTypes
    <3>3. CASE CreateAcquire(t)
        BY <3>1, <3>3 DEF CreateAcquire, AcquireCheck, Call, Goto
    <3>4. CASE CreateTid(t)
        BY <3>1, <3>2, <3>4 DEF CreateTid, Goto, locVars
    <3>5. CASE CreateNextTid(t)
        BY <3>1, <3>5 DEF CreateNextTid, ReleaseHolder, Call, Goto
    <3> QED
        BY <1>1, <3>3, <3>4, <3>5
  <2>3. CurGoesOn /\ pc'[t] \in {"la_down", "la_pri", "tc_inc", "lr_rel"}
      BY <2>1, <2>2, <1>0, GoOn
  <2>4. LocalShape
      BY <2>1, <2>3, <1>0 DEF LocalShape, NotDown, LockTypes, WakePCs
  <2> QED
      BY <2>4 DEF Shapes
<1>2. CASE CreateUnblock(t)
  <2>1. child[t] \in Threads
      BY <1>0, <1>2 DEF CreateUnblock, At, TidTypes, InCreate
  <2>2. UnblockShape(t, child[t])
      BY <1>2 DEF CreateUnblock, UnblockShape, At, Goto, semVars, locVars
  <2> QED
      BY <2>1, <2>2 DEF Shapes
<1>3. ASSUME NEW u \in Threads, NEW p \in Pris, ThreadCreate(t, u, p) PROVE Shapes
  <2>1. ~Creating(t)
      BY <1>0, <1>3 DEF ThreadCreate, At, Creating, TidTypes, InCreate, InAcquire, InRelease
  <2>2. CreateShape(t, u)
      BY <1>3, <2>1 DEF ThreadCreate, CreateShape, At, Goto, semVars, locVars
  <2> QED
      BY <2>2 DEF Shapes
<1> QED
    BY <1>1, <1>2, <1>3

\* The other calls.
LEMMA CallShapes ==
    ASSUME LockInv, Others, NEW t \in Threads,
           \/ \E l \in Locks : LockAcquire(t, l) \/ LockTryAcquire(t, l) \/ LockRelease(t, l)
           \/ \E s \in Semas : ThreadSemaDown(t, s) \/ ThreadSemaUp(t, s)
           \/ \E p \in NewPris : ThreadSetPriority(t, p)
           \/ ThreadExit(t)
    PROVE  Shapes
<1>0. LockTypes /\ TidTypes
    BY DEF LockInv, Others
<1>1. cur = t /\ pc[t] = "run"
    BY DEF LockAcquire, LockTryAcquire, LockRelease, ThreadSemaDown, ThreadSemaUp,
           ThreadSetPriority, ThreadExit, At
<1>2. ~Creating(t) /\ "run" \notin WakePCs
    BY <1>0, <1>1 DEF Creating, TidTypes, InCreate, InAcquire, InRelease, WakePCs
<1>3. ASSUME NEW l \in Locks, LockAcquire(t, l) \/ LockTryAcquire(t, l) \/ LockRelease(t, l)
      PROVE  Shapes
  <2>1. /\ \E p \in {"la_down", "la_pri", "lt_own", "lr_rel"} : pc' = [pc EXCEPT ![t] = p]
        /\ lk' = [lk EXCEPT ![t] = l] /\ ret' = [ret EXCEPT ![t] = "run"]
        /\ UNCHANGED <<schedVars, waiters, child>>
      BY <1>3 DEF LockAcquire, AcquireCheck, LockTryAcquire, LockRelease, ReleaseHolder, Call,
                  Goto, semVars, tidVars
  <2>2. CurGoesOn /\ pc'[t] \in {"la_down", "la_pri", "lt_own", "lr_rel"}
      BY <2>1, <1>0, <1>1, <1>2, GoOn
  <2>3. value' = value \/ (value[l] > 0 /\ value' = [value EXCEPT ![l] = @ - 1])
      BY <1>3 DEF LockAcquire, AcquireCheck, LockTryAcquire, LockRelease, semVars
  <2>4. \A s \in Sems : value'[s] \in Nat /\ value'[s] <= value[s]
      BY <2>3, <1>0 DEF LockTypes
  <2>5. LocalShape
      BY <2>1, <2>2, <2>4, <1>1, <1>2 DEF LocalShape, NotDown, WakePCs
  <2> QED
      BY <2>5 DEF Shapes
<1>4. ASSUME NEW s \in Semas, ThreadSemaDown(t, s) PROVE Shapes
  <2>1. /\ SemaDown(t, s, "run", "sd_wake") /\ UNCHANGED <<ret, child>>
        /\ lk' = [lk EXCEPT ![t] = IF value[s] > 0 THEN NULL ELSE s]
      BY <1>4 DEF ThreadSemaDown, tidVars
  <2>2. s \in Sems /\ value[s] \in Nat
      BY <1>0 DEF Sems, LockTypes
  <2>3. /\ pc' = [pc EXCEPT ![t] = "run"] \/ pc' = [pc EXCEPT ![t] = "sd_wake"]
        /\ value[s] = 0 => pc' = [pc EXCEPT ![t] = "sd_wake"]
      BY <2>1, <2>2 DEF SemaDown, Goto
  <2>4. CurGoesOn
      BY <2>1, <2>3, <1>0, <1>1, <1>2 DEF CurGoesOn, Creating, LockTypes
  <2>5. value[s] = 0 => pc'[t] = "sd_wake" /\ lk'[t] = s
      BY <2>1, <2>2, <2>3, <1>0 DEF LockTypes
  <2>6. value[s] = 0 => Waiting(t, s)'
      BY <2>5 DEF Waiting
  <2> QED
      BY <2>1, <2>2, <2>4, <2>6, <1>0, <1>1, <1>2, DownShapes
<1>5. ASSUME NEW s \in Semas, ThreadSemaUp(t, s) PROVE Shapes
  <2>1. SemaUp(s) /\ UNCHANGED <<child, pc, lk, ret>>
      BY <1>5 DEF ThreadSemaUp, tidVars, locVars
  <2>2. UpShape(s)
      BY <2>1, <1>1, <1>2 DEF UpShape, CurGoesOn, Creating, NotDown
  <2> QED
      BY <2>2 DEF Shapes, Sems
<1>6. ASSUME NEW p \in NewPris, ThreadSetPriority(t, p) PROVE Shapes
  <2>1. CASE Crash("dangling")
      BY <2>1, <1>0, <1>1, <1>2, CrashShapes
  <2>2. CASE ~Crash("dangling")
    <3> DEFINE n == UpdatedPriority(t, p)
    <3>1. /\ priority' = [priority EXCEPT ![t] = n]
          /\ ThreadYield(ready_list, status, priority')
          /\ UNCHANGED <<waiters, value, child, pc, lk, ret>>
        BY <1>6, <2>2 DEF ThreadSetPriority, semVars, tidVars, locVars
    <3>2. n \in Pris
        BY PrisAssumption, UpdatedPriorityType DEF Others
    <3> HIDE DEF n
    <3>3. priority' \in [Threads -> Pris]
        BY <3>1, <3>2 DEF Others, PriTypes
    <3>4. YieldShape
        BY <3>1, <3>3, <1>1, <1>2 DEF YieldShape, CurGoesOn, Creating, NotDown
    <3> QED
        BY <3>4 DEF Shapes
  <2> QED
      BY <2>1, <2>2
<1>7. CASE ThreadExit(t)
  <2>1. ExitShape(t)
      BY <1>7, <1>1 DEF ThreadExit, ExitShape, semVars, tidVars, locVars
  <2> QED
      BY <2>1 DEF Shapes
<1> QED
    BY <1>3, <1>4, <1>5, <1>6, <1>7

LEMMA InterruptShapes ==
    ASSUME LockInv, Others, Interrupt
    PROVE  Shapes
<1>1. InterruptsOn /\ UNCHANGED <<child, pc, lk, ret>>
    BY DEF Interrupt, TimeSliceExpiry, InterruptSemaUp, tidVars, locVars
<1>2. CurGoesOn /\ NotDown
    BY <1>1 DEF CurGoesOn, Creating, NotDown, InterruptsOn
<1>3. CASE TimeSliceExpiry
  <2>1. YieldShape
      BY <1>1, <1>2, <1>3 DEF TimeSliceExpiry, YieldShape, semVars, Others, PriTypes
  <2> QED
      BY <2>1 DEF Shapes
<1>4. ASSUME NEW s \in Semas, InterruptSemaUp(s) PROVE Shapes
  <2>1. UpShape(s)
      BY <1>1, <1>2, <1>4 DEF InterruptSemaUp, UpShape
  <2> QED
      BY <2>1 DEF Shapes, Sems
<1> QED
    BY <1>3, <1>4 DEF Interrupt

LEMMA NextShapes == LockInv /\ Others /\ Next => Shapes
<1> SUFFICES ASSUME LockInv, Others, Next PROVE Shapes
    OBVIOUS
<1>1. CASE Interrupt
    BY <1>1, InterruptShapes
<1>2. ASSUME NEW t \in Threads, KernelStep(t) PROVE Shapes
    BY <1>2, AcquireShapes, LockStepShapes, CreateShapes DEF KernelStep
<1>3. ASSUME NEW t \in Threads, ThreadCall(t) PROVE Shapes
    BY <1>3, CallShapes, CreateShapes DEF ThreadCall
<1> QED
    BY <1>1, <1>2, <1>3 DEF Next

-----------------------------------------------------------------------------
(* The initial states, and the theorems. *)

LEMMA QueueInit == Init => QueueInv
<1> SUFFICES ASSUME Init PROVE QueueInv
    OBVIOUS
<1>1. PICK r \in SetToSeqs(Started) : cur = Head(r) /\ ready_list = Tail(r)
    BY DEF Init
<1>2. r \in Seq(Started) /\ IsInjective(r) /\ ToSet(r) = Started
    BY StartedAssumption, SetToSeqsLists
<1>3. r # <<>>
  <2>1. Main \in ToSet(r)
      BY <1>2, StartedAssumption
  <2> QED
      BY <2>1 DEF ToSet
<1>4. /\ cur \in Started
      /\ IsInjective(ready_list) /\ ToSet(ready_list) = Started \ {cur}
    BY <1>1, <1>2, <1>3, TailList, HeadTailProperties
<1>5. /\ \A t \in Threads : status[t] = IF t = cur THEN "running"
                                        ELSE IF t \in Started THEN "ready" ELSE "none"
      /\ \A t \in Threads : pc[t] = "run" /\ child[t] = NULL
      /\ \A s \in Sems : waiters[s] = <<>>
    BY DEF Init
<1>6. RunQueue
    BY <1>4, <1>5 DEF RunQueue
<1>7. WaitLists
    BY <1>5 DEF WaitLists, ToSet, IsInjective
<1>8. Findable /\ Newborn
    BY <1>5 DEF Findable, Newborn
<1>9. {t \in Threads : pc[t] \in WakePCs} = {}
    BY <1>5 DEF WakePCs
<1>10. FewWaiting
    BY <1>9, FS_EmptySet DEF FewWaiting
<1>11. NoLostWakeup
    BY <1>5 DEF NoLostWakeup
<1> QED
    BY <1>6, <1>7, <1>8, <1>10, <1>11 DEF QueueInv, Queues

LEMMA QueueNext == LockInv /\ Others /\ QueueInv /\ [Next]_vars => QueueInv'
<1> SUFFICES ASSUME LockInv, Others, QueueInv, [Next]_vars PROVE QueueInv'
    OBVIOUS
<1>1. QueueTypes
    BY DEF QueueTypes, LockInv, LockTypes, Others, PriTypes, TidTypes
<1>2. CASE Next
    BY <1>1, <1>2, NextShapes, ShapesKeep
<1>3. CASE UNCHANGED vars
    BY <1>3 DEF QueueInv, Queues, RunQueue, WaitLists, Findable, Newborn, FewWaiting, NoLostWakeup,
                Waiting, Creating, Woken, vars, schedVars, semVars, tidVars, locVars
<1> QED
    BY <1>2, <1>3

LEMMA QueuesApart == ASSUME QueueTypes, Queues PROVE QueuesExclusive
<1> SUFFICES ASSUME NEW t \in Threads
             PROVE  /\ /\ status[t] \in {"ready", "blocked"}
                       /\ \A u \in Threads : child[u] # t
                       => Cardinality(Links(t)) = 1
                    /\ status[t] = "ready" => \E i \in DOMAIN ready_list : ready_list[i] = t
                    /\ status[t] = "blocked" => \A i \in DOMAIN ready_list : ready_list[i] # t
                    /\ status[t] \notin {"ready", "blocked"} => Links(t) = {}
                    /\ status[t] = "running" <=> t = cur
    BY DEF QueuesExclusive
<1> DEFINE Ready == {<<Idle, i>> : i \in {j \in DOMAIN ready_list : ready_list[j] = t}}
           Wait(s) == {<<s, i>> : i \in {j \in DOMAIN waiters[s] : waiters[s][j] = t}}
<1>1. \A x : x \in Links(t) <=> x \in Ready \/ \E s \in Sems : x \in Wait(s)
    BY DEF Links
<1>2. status[t] # "ready" => Ready = {} /\ \A i \in DOMAIN ready_list : ready_list[i] # t
    BY DEF Queues, RunQueue, ToSet
<1>3. \A s \in Sems : (status[t] # "blocked" \/ ~Waiting(t, s)) => Wait(s) = {}
    BY DEF Queues, WaitLists, ToSet
<1>4. ASSUME status[t] = "ready"
      PROVE  Cardinality(Links(t)) = 1 /\ \E i \in DOMAIN ready_list : ready_list[i] = t
  <2>1. PICK i \in DOMAIN ready_list : ready_list[i] = t
      BY <1>4 DEF Queues, RunQueue, ToSet
  <2>2. \A j \in DOMAIN ready_list : ready_list[j] = t => j = i
      BY <2>1 DEF Queues, RunQueue, IsInjective
  <2>3. Ready = {<<Idle, i>>}
      BY <2>1, <2>2
  <2>4. Links(t) = {<<Idle, i>>}
    <3> HIDE DEF Ready, Wait
    <3>1. \A s \in Sems : Wait(s) = {}
        BY <1>3, <1>4
    <3> QED
        BY <3>1, <2>3, <1>1
  <2> QED
      BY <2>1, <2>4, FS_Singleton
<1>5. ASSUME status[t] = "blocked", \A u \in Threads : child[u] # t
      PROVE  Cardinality(Links(t)) = 1
  <2>1. PICK s \in Sems : t \in ToSet(waiters[s])
      BY <1>5 DEF Queues, Findable
  <2>2. PICK i \in DOMAIN waiters[s] : waiters[s][i] = t
      BY <2>1 DEF ToSet
  <2>3. Waiting(t, s) /\ \A j \in DOMAIN waiters[s] : waiters[s][j] = t => j = i
      BY <2>1, <2>2 DEF Queues, WaitLists, IsInjective
  <2>4. Wait(s) = {<<s, i>>}
      BY <2>2, <2>3
  <2>5. \A k \in Sems : k # s => ~Waiting(t, k)
      BY <2>3, WaitsForOne
  <2>6. Links(t) = {<<s, i>>}
    <3> HIDE DEF Ready, Wait
    <3>1. Ready = {}
        BY <1>2, <1>5
    <3>2. \A k \in Sems : k # s => Wait(k) = {}
        BY <2>5, <1>3
    <3> QED
        BY <3>1, <3>2, <2>4, <1>1
  <2> QED
      BY <2>6, FS_Singleton
<1>6. ASSUME status[t] \notin {"ready", "blocked"} PROVE Links(t) = {}
  <2> HIDE DEF Ready, Wait
  <2> QED
      BY <1>1, <1>2, <1>3, <1>6
<1> QED
    BY <1>2, <1>4, <1>5, <1>6 DEF Queues, RunQueue

LEMMA QueueInvHolds == Spec => [](LockInv /\ Others /\ QueueInv)
<1>1. Init => LockInv /\ Others /\ QueueInv
    BY LockInvInit, TypeInvInit, QueueInit DEF TypeInv, Others
<1>2. LockInv /\ Others /\ QueueInv /\ [Next]_vars => (LockInv /\ Others /\ QueueInv)'
    BY LockInvNext, OthersNext, QueueNext
<1> QED
    BY <1>1, <1>2, PTL DEF Spec

\* The elem of a thread is on one list at a time, wherever the kernel is preempted:
\* a ready thread is on the run queue, a blocked one on one wait list or in the hands
\* of its creator, and nobody is on a list twice.
THEOREM OneQueuePerThread == Spec => []QueuesExclusive
<1>1. LockInv /\ Others /\ QueueInv => QueuesExclusive
  <2> SUFFICES ASSUME LockInv, Others, QueueInv PROVE QueuesExclusive
      OBVIOUS
  <2>1. QueueTypes
      BY DEF QueueTypes, LockInv, LockTypes, Others, PriTypes, TidTypes
  <2> QED
      BY <2>1, QueuesApart DEF QueueInv
<1> QED
    BY <1>1, QueueInvHolds, PTL

\* No wake-up is lost: whatever happens between thread_unblock in sema_up and the
\* moment the woken thread tests the value again, while threads wait on a semaphore
\* every unit of it is matched by a thread that is on its way to take it.
THEOREM WakeupsReachWaiters == Spec => []NoLostWakeup
<1>1. LockInv /\ Others /\ QueueInv => NoLostWakeup
    BY DEF QueueInv
<1> QED
    BY <1>1, QueueInvHolds, PTL

-----------------------------------------------------------------------------
(* Priorities, when no interrupt preempts a thread. *)

\* A step of a thread.
ThreadStep == \E t \in Threads : KernelStep(t) \/ ThreadCall(t)

\* The points of lock_acquire and lock_release that only the running thread is at.
Brief == {"la_pri", "la_arg", "la_push", "la_upd", "la_bene", "la_elem", "la_down", "lr_rel"}

Alone == \A t \in Threads : pc[t] \in Brief => t = cur

\* The holder a thread donates to does not go away meanwhile.
Giving == Brief \ {"la_down", "lr_rel"}

Held == \A t \in Threads : pc[t] \in Giving => holder[lk[t]] # NULL

\* The running thread is the best one, or has just boosted a better one and is
\* about to block.
Best == cur \in Threads => \A u \in ToSet(ready_list) : priority[u] <= priority[cur]

Blocking ==
    /\ cur \in Threads
    /\ pc[cur] \in {"la_upd", "la_bene", "la_elem", "la_down"}
    /\ holder[lk[cur]] # NULL

MaxInv == Alone /\ Held /\ (fault # "none" \/ Best \/ Blocking)

\* schedule() runs the best thread of the list it is given.
LEMMA ScheduleBest ==
    ASSUME NEW list \in Seq(Threads), NEW st, NEW pri \in [Threads -> Pris],
           Schedule(list, st, pri), priority' = pri
    PROVE  Best'
<1>1. cur' = NextThreadToRun(list, pri) /\ ready_list' = AfterPick(list, pri)
    BY DEF Schedule
<1>2. CASE list = <<>>
  <2>1. cur' \notin Threads
      BY <1>1, <1>2, IdleAssumption DEF NextThreadToRun
  <2> QED
      BY <2>1 DEF Best
<1>3. CASE list # <<>>
  <2> DEFINE i == ListMax(list, pri)
             n == Len(list)
  <2>1. /\ i \in 1..n
        /\ \A j \in 1..n : pri[list[j]] <= pri[list[i]]
      BY <1>3, ListMaxProperties
  <2>2. cur' = list[i] /\ ready_list' = RemoveAt(list, i)
      BY <1>1, <1>3 DEF NextThreadToRun, AfterPick
  <2> HIDE DEF i
  <2>3. /\ DOMAIN ready_list' = 1..n - 1
        /\ \E P \in [1..n - 1 -> 1..n] : \A j \in 1..n - 1 : ready_list'[j] = list[P[j]]
      BY <2>1, <2>2, RemoveAtOthers
  <2>4. ASSUME NEW u \in ToSet(ready_list') PROVE priority'[u] <= priority'[cur']
    <3>1. PICK j \in 1..n - 1 : ready_list'[j] = u
        BY <2>3 DEF ToSet
    <3>2. PICK k \in 1..n : list[k] = u
        BY <2>3, <3>1
    <3> QED
        BY <2>1, <2>2, <3>2
  <2> QED
      BY <2>4 DEF Best
<1> QED
    BY <1>2, <1>3

LEMMA YieldBest ==
    ASSUME SchedTypes, NEW list \in Seq(Threads), NEW st, NEW pri \in [Threads -> Pris],
           ThreadYield(list, st, pri), priority' = pri
    PROVE  Best'
<1>1. CASE cur = Idle
    BY <1>1, ScheduleBest DEF ThreadYield
<1>2. CASE cur # Idle
  <2>1. Cons(cur, list) \in Seq(Threads)
      BY <1>2, ConsType DEF SchedTypes
  <2>2. \E r : Schedule(Cons(cur, list), r, pri)
      BY <1>2 DEF ThreadYield
  <2> QED
      BY <2>1, <2>2, ScheduleBest
<1> QED
    BY <1>1, <1>2

LEMMA UpBest ==
    ASSUME SchedTypes, priority \in [Threads -> Pris], NEW s \in Sems, SemaUp(s),
           priority' = priority
    PROVE  Best'
<1> DEFINE i == ListMax(waiters[s], priority)
           w == waiters[s][i]
<1>0. waiters[s] \in Seq(Threads) /\ ready_list \in Seq(Threads)
    BY DEF SchedTypes
<1>1. CASE waiters[s] = <<>>
    BY <1>0, <1>1, YieldBest DEF SemaUp
<1>2. CASE waiters[s] # <<>>
  <2>1. i \in 1..Len(waiters[s])
      BY <1>0, <1>2, ListMaxProperties
  <2>2. w \in Threads
      BY <1>0, <2>1
  <2>3. Cons(w, ready_list) \in Seq(Threads)
      BY <1>0, <2>2, ConsType
  <2>4. \E r : ThreadYield(Cons(w, ready_list), r, priority)
      BY <1>2 DEF SemaUp
  <2> HIDE DEF w
  <2> QED
      BY <2>3, <2>4, YieldBest
<1> QED
    BY <1>1, <1>2

\* The running thread moves on and yields or blocks at a point that is not brief.
LEMMA SwitchMax ==
    ASSUME MaxInv, NEW t \in Threads, cur = t,
           \A u \in Threads : u # t => pc'[u] = pc[u],
           pc'[t] \notin Brief, Best'
    PROVE  MaxInv'
    BY DEF MaxInv, Alone, Held, Giving

\* The running thread goes on.
LEMMA GoOnMax ==
    ASSUME MaxInv, NEW t \in Threads, cur = t, fault = "none", UNCHANGED schedVars,
           \A u \in Threads : u # t => pc'[u] = pc[u],
           pc'[t] \in Giving => holder'[lk'[t]] # NULL,
           \/ UNCHANGED priority /\ ~Blocking
           \/ Blocking'
    PROVE  MaxInv'
<1>1. Alone' /\ Held'
    BY DEF MaxInv, Alone, Held, Giving, schedVars
<1>2. CASE UNCHANGED priority /\ ~Blocking
    BY <1>1, <1>2 DEF MaxInv, Best, schedVars
<1> QED
    BY <1>1, <1>2 DEF MaxInv

\* A step of lock_acquire, lock_release or thread_create that changes neither
\* priorities nor holders.
LEMMA InsideMax ==
    ASSUME LockTypes, MaxInv, NEW t \in Threads, cur = t, fault = "none", NEW p,
           UNCHANGED <<schedVars, priority, holder, lk>>, pc' = [pc EXCEPT ![t] = p],
           p \in Giving => holder[lk[t]] # NULL,
           Blocking => p \in {"la_upd", "la_bene", "la_elem", "la_down"}
    PROVE  MaxInv'
<1>1. pc'[t] = p /\ \A u \in Threads : u # t => pc'[u] = pc[u]
    BY DEF LockTypes
<1>2. Blocking => Blocking'
    BY <1>1 DEF Blocking, schedVars
<1> QED
    BY <1>1, <1>2, GoOnMax

LEMMA CrashMax ==
    ASSUME MaxInv, NEW f \in Faults \ {"none"}, Crash(f)
    PROVE  MaxInv'
    BY DEF MaxInv, Alone, Held, Crash, schedVars, locVars

\* The steps of lock_acquire that only the running thread is in the middle of.
LEMMA DonateMax ==
    ASSUME LockInv, Others, MaxInv, NEW t \in Threads,
           \/ AcquirePriority(t) \/ AcquireRecipient(t) \/ DonatePush(t) \/ DonateUpdate(t)
           \/ AcquireBene(t) \/ AcquireBeneElem(t)
    PROVE  MaxInv'
<1>0. /\ cur = t /\ fault = "none" /\ LockTypes
      /\ pc[t] \in Giving /\ holder[lk[t]] # NULL
    BY DEF AcquirePriority, AcquireRecipient, DonatePush, DonateUpdate, AcquireBene,
           AcquireBeneElem, At, LockInv, MaxInv, Held, Giving, Brief
<1>1. ASSUME NEW f \in Faults \ {"none"}, Crash(f) PROVE MaxInv'
    BY <1>1, CrashMax
<1>2. CASE AcquirePriority(t)
  <2>1. \/ Crash("dangling")
        \/ /\ pc' = [pc EXCEPT ![t] = "la_arg"]
           /\ UNCHANGED <<schedVars, priority, holder, lk>>
      BY <1>2 DEF AcquirePriority, Goto, locVars
  <2>2. pc[t] = "la_pri"
      BY <1>2 DEF AcquirePriority, At
  <2> QED
      BY <1>0, <1>1, <2>1, <2>2, InsideMax DEF Faults, Blocking
<1>3. CASE AcquireRecipient(t)
    BY <1>0, <1>3, InsideMax DEF AcquireRecipient, Goto, At, Blocking
<1>4. CASE DonatePush(t)
  <2>1. \/ Crash("null_recipient") \/ Crash("freed")
        \/ /\ pc' = [pc EXCEPT ![t] = "la_upd"]
           /\ UNCHANGED <<schedVars, priority, holder, lk>>
      BY <1>4 DEF DonatePush, Goto, locVars
  <2> QED
      BY <1>0, <1>1, <2>1, InsideMax DEF Faults
<1>5. CASE DonateUpdate(t)
  <2>1. \/ Crash("freed") \/ Crash("dangling") \/ Crash("null_elem")
        \/ /\ UNCHANGED <<schedVars, holder, lk>>
           /\ pc' = pc \/ pc' = [pc EXCEPT ![t] = "la_bene"]
      BY <1>5 DEF DonateUpdate, UpdateDonation, Goto
  <2>2. pc[t] = "la_upd"
      BY <1>5 DEF DonateUpdate, At
  <2>3. CASE /\ UNCHANGED <<schedVars, holder, lk>>
             /\ pc' = pc \/ pc' = [pc EXCEPT ![t] = "la_bene"]
    <3>1. pc'[t] \in {"la_upd", "la_bene"} /\ \A u \in Threads : u # t => pc'[u] = pc[u]
        BY <1>0, <2>2, <2>3 DEF LockTypes
    <3>2. Blocking'
        BY <1>0, <2>3, <3>1 DEF Blocking, schedVars
    <3> QED
        BY <1>0, <2>3, <3>1, <3>2, GoOnMax
  <2> QED
      BY <1>1, <2>1, <2>3 DEF Faults
<1>6. CASE AcquireBene(t) \/ AcquireBeneElem(t)
  <2>1. /\ \E p \in {"la_elem", "la_down"} : pc' = [pc EXCEPT ![t] = p]
        /\ UNCHANGED <<schedVars, priority, holder, lk>>
      BY <1>6 DEF AcquireBene, AcquireBeneElem, Goto, locVars
  <2> QED
      BY <1>0, <2>1, InsideMax
<1> QED
    BY <1>2, <1>3, <1>4, <1>5, <1>6

\* The rest of lock_acquire and lock_try_acquire.  A thread that has boosted the
\* holder of the lock finds the semaphore down.
LEMMA TakeMax ==
    ASSUME LockInv, Others, MaxInv, NEW t \in Threads,
           \/ AcquireDown(t) \/ AcquireHolder(t) \/ AcquireReturn(t) \/ TryAcquireHolder(t)
           \/ SemaDownRetry(t)
    PROVE  MaxInv'
<1>0. /\ cur = t /\ fault = "none" /\ LockTypes /\ ret[t] \in Backs
    BY DEF AcquireDown, AcquireHolder, AcquireReturn, TryAcquireHolder, SemaDownRetry, At,
           LockInv, LockTypes
<1>r. ret[t] \notin Brief
    BY <1>0 DEF Backs, Brief, InAcquire, InRelease
<1>1. CASE AcquireHolder(t)
  <2>1. /\ pc' = [pc EXCEPT ![t] = "la_clr"] /\ UNCHANGED <<schedVars, priority>>
        /\ pc[t] = "la_own"
      BY <1>1 DEF AcquireHolder, Goto, At
  <2>2. pc'[t] = "la_clr" /\ \A u \in Threads : u # t => pc'[u] = pc[u]
      BY <1>0, <2>1 DEF LockTypes
  <2> QED
      BY <1>0, <2>1, <2>2, GoOnMax DEF Giving, Brief, Blocking
<1>2. CASE AcquireReturn(t) \/ TryAcquireHolder(t)
  <2>1. /\ pc' = [pc EXCEPT ![t] = ret[t]] /\ UNCHANGED <<schedVars, priority>>
        /\ pc[t] \in {"la_clr", "lt_own"}
      BY <1>2 DEF AcquireReturn, TryAcquireHolder, Return, Goto, At
  <2>2. pc'[t] = ret[t] /\ \A u \in Threads : u # t => pc'[u] = pc[u]
      BY <1>0, <2>1 DEF LockTypes
  <2> QED
      BY <1>0, <1>r, <2>1, <2>2, GoOnMax DEF Giving, Blocking
<1>3. CASE AcquireDown(t) \/ SemaDownRetry(t)
  <2>1. PICK ok \in {"la_own", "run"}, wake \in {"la_wake", "sd_wake"} :
           /\ SemaDown(t, lk[t], ok, wake) /\ UNCHANGED <<priority, holder>>
      BY <1>3 DEF AcquireDown, SemaDownRetry, locVars
  <2>2. /\ pc[t] \in {"la_down", "la_wake", "sd_wake"}
        /\ pc[t] \in {"la_down", "la_wake"} => lk[t] \in Locks
      BY <1>3 DEF AcquireDown, SemaDownRetry, At, LockInv, LockTypes, InAcquire
  <2>3. CASE value[lk[t]] > 0
    <3>1. pc' = [pc EXCEPT ![t] = ok] /\ UNCHANGED schedVars
        BY <2>1, <2>3 DEF SemaDown, Goto
    <3>2. ~Blocking
      <4> SUFFICES ASSUME Blocking PROVE FALSE
          OBVIOUS
      <4>1. lk[t] \in Locks /\ holder[lk[t]] \in Threads
          BY <1>0, <2>2 DEF Blocking, LockTypes
      <4>2. value[lk[t]] = 0
          BY <4>1 DEF LockInv, MutualExclusion, Owner
      <4> QED
          BY <2>3, <4>2
    <3>3. pc'[t] = ok /\ \A u \in Threads : u # t => pc'[u] = pc[u]
        BY <1>0, <3>1 DEF LockTypes
    <3> QED
        BY <1>0, <2>1, <3>1, <3>2, <3>3, GoOnMax DEF Giving, Brief
  <2>4. CASE ~(value[lk[t]] > 0)
    <3>1. pc' = [pc EXCEPT ![t] = wake] /\ ThreadBlock
        BY <2>1, <2>4 DEF SemaDown, Goto
    <3>2. Best'
        BY <2>1, <3>1, ScheduleBest DEF ThreadBlock, Others, SchedTypes, PriTypes
    <3>3. pc'[t] = wake /\ \A u \in Threads : u # t => pc'[u] = pc[u]
        BY <1>0, <3>1 DEF LockTypes
    <3> QED
        BY <1>0, <3>2, <3>3, SwitchMax DEF Brief
  <2> QED
      BY <2>3, <2>4
<1> QED
    BY <1>1, <1>2, <1>3

\* lock_release yields at the donated priority, and again once it has given it up.
LEMMA ReleaseMax ==
    ASSUME LockInv, Others, MaxInv, NEW t \in Threads,
           ReleasePriorities(t) \/ ReleaseUp(t) \/ ReleaseReturn(t)
    PROVE  MaxInv'
<1>0. /\ cur = t /\ fault = "none" /\ LockTypes /\ ret[t] \in Backs
    BY DEF ReleasePriorities, ReleaseUp, ReleaseReturn, At, LockInv, LockTypes
<1>r. ret[t] \notin Brief
    BY <1>0 DEF Backs, Brief, InAcquire, InRelease
<1>1. CASE ReleasePriorities(t)
  <2>1. \/ Crash("dangling")
        \/ /\ pc' = [pc EXCEPT ![t] = "lr_up"] /\ UNCHANGED <<schedVars, priority, holder, lk>>
      BY <1>1 DEF ReleasePriorities, Goto, locVars
  <2>2. ~Blocking
      BY <1>0, <1>1 DEF ReleasePriorities, At, Blocking
  <2> QED
      BY <1>0, <2>1, <2>2, CrashMax, InsideMax DEF Faults, Giving, Brief
<1>2. CASE ReleaseUp(t)
  <2>1. /\ lk[t] \in Sems /\ SemaUp(lk[t]) /\ UNCHANGED priority
        /\ pc' = [pc EXCEPT ![t] = "lr_pri"]
      BY <1>2 DEF ReleaseUp, Goto, At, LockInv, LockTypes, InRelease, Sems
  <2>2. Best'
      BY <2>1, UpBest DEF Others, PriTypes
  <2>3. pc'[t] = "lr_pri" /\ \A u \in Threads : u # t => pc'[u] = pc[u]
      BY <1>0, <2>1 DEF LockTypes
  <2> QED
      BY <1>0, <2>2, <2>3, SwitchMax DEF Brief
<1>3. CASE ReleaseReturn(t)
  <2>1. CASE Crash("dangling")
      BY <2>1, CrashMax DEF Faults
  <2>2. CASE ~Crash("dangling")
    <3>1. /\ priority' = [priority EXCEPT ![t] = UpdatedPriority(t, init_pri[t])]
          /\ ThreadYield(ready_list, status, priority')
          /\ pc' = [pc EXCEPT ![t] = ret[t]]
        BY <1>3, <2>2 DEF ReleaseReturn, Return, Goto
    <3>2. priority' \in [Threads -> Pris]
        BY <3>1, UpdatedPriorityType DEF Others, PriTypes
    <3>3. Best'
        BY <3>1, <3>2, YieldBest DEF Others, SchedTypes
    <3>4. pc'[t] = ret[t] /\ \A u \in Threads : u # t => pc'[u] = pc[u]
        BY <1>0, <3>1 DEF LockTypes
    <3> QED
        BY <1>0, <1>r, <3>3, <3>4, SwitchMax
  <2> QED
      BY <2>1, <2>2
<1> QED
    BY <1>1, <1>2, <1>3

\* The calls of threads, and thread_create.
LEMMA CallMax ==
    ASSUME LockInv, Others, QueueInv, MaxInv, NEW t \in Threads,
           \/ ThreadCall(t)
           \/ CreateAcquire(t) \/ CreateTid(t) \/ CreateNextTid(t) \/ CreateUnblock(t)
    PROVE  MaxInv'
<1> USE DEF Others
<1>0. LockTypes /\ SchedTypes /\ priority \in [Threads -> Pris] /\ ready_list \in Seq(Threads)
    BY DEF LockInv, PriTypes, SchedTypes
<1>1. ASSUME NEW l \in Locks, NEW b, At(t, "run") \/ At(t, "tc_lock"), AcquireCheck(t, l, b)
      PROVE  MaxInv'
  <2>1. /\ pc'[t] = IF holder[l] = NULL THEN "la_down" ELSE "la_pri"
        /\ lk'[t] = l /\ \A u \in Threads : u # t => pc'[u] = pc[u]
        /\ UNCHANGED <<schedVars, priority, holder>>
      BY <1>0, <1>1 DEF AcquireCheck, Call, Goto, LockTypes
  <2> QED
      BY <1>1, <2>1, GoOnMax DEF At, Giving, Brief, Blocking
<1>2. ASSUME NEW l \in Locks, NEW b, At(t, "run") \/ At(t, "tc_inc"), ReleaseHolder(t, l, b),
             UNCHANGED <<schedVars, priority>>
      PROVE  MaxInv'
  <2>1. pc'[t] = "lr_rel" /\ \A u \in Threads : u # t => pc'[u] = pc[u]
      BY <1>0, <1>2 DEF ReleaseHolder, Call, Goto, LockTypes
  <2> QED
      BY <1>2, <2>1, GoOnMax DEF At, Giving, Blocking
<1>3. ASSUME NEW p \in {"lt_own", "tc_inc"}, At(t, "run") \/ At(t, "tc_tid"),
             pc' = [pc EXCEPT ![t] = p], UNCHANGED <<schedVars, priority>>
      PROVE  MaxInv'
  <2>1. pc'[t] = p /\ \A u \in Threads : u # t => pc'[u] = pc[u]
      BY <1>0, <1>3 DEF LockTypes
  <2> QED
      BY <1>3, <2>1, GoOnMax DEF At, Giving, Brief, Blocking
<1>4. CASE CreateAcquire(t) \/ \E l \in Locks : LockAcquire(t, l)
    BY <1>1, <1>4, LocksAssumption DEF CreateAcquire, LockAcquire
<1>5. CASE CreateNextTid(t) \/ \E l \in Locks : LockRelease(t, l)
    BY <1>2, <1>5, LocksAssumption DEF CreateNextTid, LockRelease
<1>6. CASE CreateTid(t) \/ \E l \in Locks : LockTryAcquire(t, l)
    BY <1>3, <1>6 DEF CreateTid, LockTryAcquire, Call, Goto
<1>7. ASSUME NEW s \in Semas, ThreadSemaUp(t, s) PROVE MaxInv'
  <2>1. Best'
      BY <1>0, <1>7, UpBest DEF ThreadSemaUp, Sems
  <2> QED
      BY <1>7, <2>1, SwitchMax DEF ThreadSemaUp, At, Brief
<1>8. ASSUME NEW s \in Semas, ThreadSemaDown(t, s) PROVE MaxInv'
  <2>1. /\ cur = t /\ pc[t] = "run" /\ fault = "none" /\ UNCHANGED priority
        /\ SemaDown(t, s, "run", "sd_wake")
      BY <1>8 DEF ThreadSemaDown, At
  <2>2. pc'[t] \in {"run", "sd_wake"} /\ \A u \in Threads : u # t => pc'[u] = pc[u]
      BY <1>0, <2>1 DEF SemaDown, Goto, LockTypes
  <2>3. CASE value[s] > 0
      BY <2>1, <2>2, <2>3, GoOnMax DEF SemaDown, Giving, Brief, Blocking
  <2>4. CASE ~(value[s] > 0)
    <3>1. Best'
        BY <1>0, <2>1, <2>4, ScheduleBest DEF SemaDown, ThreadBlock
    <3> QED
        BY <2>1, <2>2, <3>1, SwitchMax DEF Brief
  <2> QED
      BY <2>3, <2>4
<1>9. ASSUME NEW p \in NewPris, ThreadSetPriority(t, p) PROVE MaxInv'
  <2>1. CASE Crash("dangling")
      BY <2>1, CrashMax DEF Faults
  <2>2. CASE ~Crash("dangling")
    <3>1. /\ priority' = [priority EXCEPT ![t] = UpdatedPriority(t, p)]
          /\ ThreadYield(ready_list, status, priority')
          /\ UNCHANGED pc /\ cur = t /\ pc[t] = "run"
        BY <1>9, <2>2 DEF ThreadSetPriority, At
    <3>2. UpdatedPriority(t, p) \in Pris
        BY UpdatedPriorityType, PrisAssumption
    <3>3. priority' \in [Threads -> Pris]
        BY <1>0, <3>1, <3>2
    <3>4. Best'
        BY <1>0, <3>1, <3>3, YieldBest
    <3> QED
        BY <3>1, <3>4, SwitchMax DEF Brief
  <2> QED
      BY <2>1, <2>2
<1>10. ASSUME NEW u \in Threads, NEW p \in Pris, ThreadCreate(t, u, p) PROVE MaxInv'
  <2>1. /\ cur = t /\ pc[t] = "run" /\ fault = "none" /\ status[u] = "none"
        /\ UNCHANGED <<cur, ready_list, holder, lk>>
        /\ \A x \in Threads : x # u => priority'[x] = priority[x]
        /\ pc'[t] = "tc_lock" /\ \A x \in Threads : x # t => pc'[x] = pc[x]
      BY <1>0, <1>10 DEF ThreadCreate, At, Goto, LockTypes, locVars
  <2>2. u # cur /\ u \notin ToSet(ready_list) /\ ToSet(ready_list) \subseteq Threads
      BY <1>0, <2>1, ListElements DEF QueueInv, Queues, RunQueue
  <2>3. ~Blocking
      BY <2>1 DEF Blocking
  <2>4. Best'
      BY <2>1, <2>2, <2>3 DEF MaxInv, Best
  <2> QED
      BY <2>1, <2>4, SwitchMax DEF Brief
<1>11. CASE CreateUnblock(t)
  <2>1. /\ cur = t /\ UNCHANGED priority /\ child[t] \in Threads
        /\ \E st : ThreadYield(Cons(child[t], ready_list), st, priority)
        /\ pc' = [pc EXCEPT ![t] = "run"]
      BY <1>11 DEF CreateUnblock, At, Goto, TidTypes, InCreate
  <2>2. Cons(child[t], ready_list) \in Seq(Threads)
      BY <1>0, <2>1, ConsType
  <2>3. Best'
      BY <1>0, <2>1, <2>2, YieldBest
  <2>4. pc'[t] = "run" /\ \A x \in Threads : x # t => pc'[x] = pc[x]
      BY <1>0, <2>1 DEF LockTypes
  <2> QED
      BY <2>1, <2>3, <2>4, SwitchMax DEF Brief
<1>12. CASE ThreadExit(t)
  <2>1. Best'
      BY <1>0, <1>12, ScheduleBest DEF ThreadExit
  <2> QED
      BY <1>12, <2>1, SwitchMax DEF ThreadExit, At, Brief
<1> QED
    BY <1>4, <1>5, <1>6, <1>7, <1>8, <1>9, <1>10, <1>11, <1>12 DEF ThreadCall

LEMMA MaxInit == Init => MaxInv
<1> SUFFICES ASSUME Init PROVE MaxInv
    OBVIOUS
<1>1. \A t \in Threads : pc[t] = "run"
    BY DEF Init
<1>2. PICK r \in SetToSeqs(Started) :
         /\ \A t \in Started : priority[t] <= priority[Head(r)]
         /\ cur = Head(r) /\ ready_list = Tail(r)
    BY DEF Init
<1>3. r \in Seq(Started) /\ IsInjective(r) /\ ToSet(r) = Started
    BY StartedAssumption, SetToSeqsLists
<1>4. r # <<>>
    BY <1>3, StartedAssumption DEF ToSet
<1>5. ToSet(ready_list) \subseteq Started
    BY <1>2, <1>3, <1>4, TailList
<1> QED
    BY <1>1, <1>2, <1>5 DEF MaxInv, Alone, Held, Best, Brief, Giving

LEMMA MaxNext ==
    LockInv /\ Others /\ QueueInv /\ MaxInv /\ [ThreadStep]_vars => MaxInv'
<1> SUFFICES ASSUME LockInv, Others, QueueInv, MaxInv, [ThreadStep]_vars PROVE MaxInv'
    OBVIOUS
<1>1. CASE UNCHANGED vars
    BY <1>1 DEF vars, schedVars, locVars, MaxInv, Alone, Held, Best, Blocking
<1>2. ASSUME NEW t \in Threads, KernelStep(t) PROVE MaxInv'
    BY <1>2, DonateMax, TakeMax, ReleaseMax, CallMax DEF KernelStep
<1>3. ASSUME NEW t \in Threads, ThreadCall(t) PROVE MaxInv'
    BY <1>3, CallMax
<1> QED
    BY <1>1, <1>2, <1>3 DEF ThreadStep

LEMMA MaxInvHolds == UnpreemptedSpec => [](LockInv /\ Others /\ QueueInv /\ MaxInv)
<1>1. Init => LockInv /\ Others /\ QueueInv /\ MaxInv
    BY LockInvInit, TypeInvInit, QueueInit, MaxInit DEF TypeInv, Others
<1>2. [ThreadStep]_vars => [Next]_vars
    BY DEF ThreadStep, Next
<1>3. LockInv /\ Others /\ QueueInv /\ MaxInv /\ [ThreadStep]_vars
         => (LockInv /\ Others /\ QueueInv /\ MaxInv)'
    BY <1>2, LockInvNext, OthersNext, QueueNext, MaxNext
<1> QED
    BY <1>1, <1>3, PTL DEF UnpreemptedSpec, ThreadStep

\* Outside the kernel no ready thread has a higher priority than the running one,
\* when threads give up the CPU in calls only: every schedule() takes the best
\* thread, a thread that raises another one above itself blocks before it leaves
\* lock_acquire, and one that gives up a donation yields.
THEOREM BestThreadRuns == UnpreemptedSpec => []RunningIsMax
<1>1. LockInv /\ Others /\ QueueInv /\ MaxInv => RunningIsMax
  <2> SUFFICES ASSUME SchedTypes, MaxInv, fault = "none", cur # Idle, pc[cur] = "run",
                      NEW i \in DOMAIN ready_list
               PROVE  priority[ready_list[i]] <= priority[cur]
      BY DEF RunningIsMax, Others
  <2>1. Best /\ cur \in Threads
      BY DEF MaxInv, Blocking, SchedTypes
  <2> QED
      BY <2>1 DEF Best, ToSet
<1> QED
    BY <1>1, MaxInvHolds, PTL

-----------------------------------------------------------------------------
(* The order in which locks are taken. *)

\* tid_lock is held in allocate_tid only, where no other lock is taken; a thread
\* that asks for another lock holds only lower ones; a page without a thread in it
\* holds none.
Order(t) ==
    /\ pc[t] \in InAcquire /\ lk[t] = TidLock => ret[t] = "tc_tid"
    /\ pc[t] = "lt_own" => lk[t] # TidLock
    /\ holder[TidLock] = t => \/ pc[t] \in {"tc_tid", "tc_inc"}
                              \/ pc[t] = "la_clr" /\ lk[t] = TidLock
    /\ pc[t] \in AskPCs /\ lk[t] # TidLock => \A k \in Locks : holder[k] = t => k < lk[t]
    /\ status[t] = "none" => \A k \in Locks : holder[k] # t

Orderly == \A t \in Threads : Order(t)

\* A step puts no thread back to the state before its creation.
LEMMA NoneStays ==
    ASSUME SchedTypes, Shapes
    PROVE  \A u \in Threads : status'[u] = "none" => status[u] = "none"
<1> DEFINE Good == \A u \in Threads : status'[u] = "none" => status[u] = "none"
<1>0. status \in [Threads -> Status]
    BY DEF SchedTypes
<1>1. ASSUME NEW list, NEW st, NEW pri, Schedule(list, st, pri),
             \A u \in Threads : st[u] = "none" => status[u] = "none"
      PROVE  Good
    BY <1>1 DEF Schedule
<1>2. ASSUME NEW list, NEW st \in [Threads -> Status], NEW pri, ThreadYield(list, st, pri),
             \A u \in Threads : st[u] = "none" => status[u] = "none"
      PROVE  Good
  <2>1. \A u \in Threads : [st EXCEPT ![cur] = "ready"][u] = "none" => status[u] = "none"
      BY <1>2
  <2> QED
      BY <1>1, <1>2, <2>1 DEF ThreadYield
<1>3. ASSUME NEW w, NEW s \in {"ready", "blocked", "dead"}
      PROVE  /\ [status EXCEPT ![w] = s] \in [Threads -> Status]
             /\ \A u \in Threads : [status EXCEPT ![w] = s][u] = "none" => status[u] = "none"
    BY <1>0, <1>3 DEF Status
<1>4. CASE LocalShape \/ \E t \in Threads, s \in Sems : TakeShape(t, s)
    BY <1>4 DEF LocalShape, TakeShape, schedVars
<1>5. CASE YieldShape
    BY <1>0, <1>2, <1>5 DEF YieldShape
<1>6. ASSUME NEW s \in Sems, UpShape(s) PROVE Good
  <2>1. \/ \E list, pri : ThreadYield(list, status, pri)
        \/ \E list, pri, w : ThreadYield(list, [status EXCEPT ![w] = "ready"], pri)
      BY <1>6, Zenon DEF UpShape, SemaUp
  <2>2. CASE \E list, pri : ThreadYield(list, status, pri)
      BY <1>0, <1>2, <2>2
  <2>3. ASSUME NEW list, NEW pri, NEW w, ThreadYield(list, [status EXCEPT ![w] = "ready"], pri)
        PROVE  Good
      BY <1>2, <1>3, <2>3
  <2> QED
      BY <2>1, <2>2, <2>3
<1>7. ASSUME NEW t \in Threads, NEW s \in Sems, BlockShape(t, s) PROVE Good
    BY <1>1, <1>3, <1>7 DEF BlockShape, ThreadBlock
<1>8. ASSUME NEW t \in Threads, NEW u \in Threads, CreateShape(t, u) PROVE Good
    BY <1>3, <1>8 DEF CreateShape
<1>9. ASSUME NEW t \in Threads, NEW u \in Threads, UnblockShape(t, u) PROVE Good
    BY <1>2, <1>3, <1>9 DEF UnblockShape
<1>10. ASSUME NEW t \in Threads, ExitShape(t) PROVE Good
    BY <1>1, <1>3, <1>10 DEF ExitShape
<1> QED
    BY <1>4, <1>5, <1>6, <1>7, <1>8, <1>9, <1>10 DEF Shapes

\* What the running thread t does to the order of locks is up to itself.
LEMMA OneOrder ==
    ASSUME Orderly, NEW t \in Threads,
           \A u \in Threads : u # t => pc'[u] = pc[u] /\ lk'[u] = lk[u] /\ ret'[u] = ret[u],
           \A u \in Threads, k \in Locks : u # t /\ holder'[k] = u => holder[k] = u,
           \A u \in Threads : status'[u] = "none" => status[u] = "none",
           status[t] # "none",
           pc'[t] \in InAcquire /\ lk'[t] = TidLock => ret'[t] = "tc_tid",
           pc'[t] = "lt_own" => lk'[t] # TidLock,
           holder'[TidLock] = t => \/ pc'[t] \in {"tc_tid", "tc_inc"}
                                   \/ pc'[t] = "la_clr" /\ lk'[t] = TidLock,
           pc'[t] \in AskPCs /\ lk'[t] # TidLock => \A k \in Locks : holder'[k] = t => k < lk'[t]
    PROVE  Orderly'
<1>1. Order(t)'
    BY DEF Order
<1>2. ASSUME NEW u \in Threads, u # t PROVE Order(u)'
    BY <1>2, LocksAssumption DEF Orderly, Order
<1> QED
    BY <1>1, <1>2 DEF Orderly

\* The step of a thread that leaves the holders alone, and ends inside no call that
\* takes a lock, or goes on waiting for the same one.
LEMMA SameOrder ==
    ASSUME Orderly, NEW t \in Threads, holder' = holder,
           \A u \in Threads : u # t => pc'[u] = pc[u] /\ lk'[u] = lk[u] /\ ret'[u] = ret[u],
           \A u \in Threads : status'[u] = "none" => status[u] = "none",
           status[t] # "none",
           \/ /\ pc'[t] \notin InAcquire \cup {"lt_own"}
              /\ holder[TidLock] = t => pc'[t] \in {"tc_tid", "tc_inc"}
           \/ /\ pc[t] \in AskPCs /\ pc'[t] \in AskPCs \cup {"la_own"}
              /\ lk'[t] = lk[t] /\ ret'[t] = ret[t]
    PROVE  Orderly'
<1>1. Order(t)
    BY DEF Orderly
<1>2. "lt_own" \notin InAcquire /\ AskPCs \subseteq InAcquire /\ "la_own" \in InAcquire \ AskPCs
      /\ {"tc_tid", "tc_inc", "la_clr"} \cap AskPCs = {}
    BY DEF AskPCs, InAcquire
<1> QED
    BY <1>1, <1>2, OneOrder DEF Order

\* A thread that holds tid_lock is at one of three points.
LEMMA NotTid ==
    ASSUME Orderly, NEW t \in Threads, pc[t] \notin {"tc_tid", "tc_inc", "la_clr"}
    PROVE  holder[TidLock] # t
    BY DEF Orderly, Order

LEMMA KernelOrder ==
    ASSUME LockInv, Others, Orderly, NEW t \in Threads, status[t] # "none",
           KernelStep(t), \A u \in Threads : status'[u] = "none" => status[u] = "none"
    PROVE  Orderly'
<1> USE LocksAssumption
<1>0. /\ LockTypes /\ pc \in [Threads -> PCs] /\ lk \in [Threads -> Sems \cup {NULL}]
      /\ ret \in [Threads -> Backs] /\ holder \in [Locks -> Threads \cup {NULL}]
    BY DEF LockInv, LockTypes
<1>o. Order(t)
    BY DEF Orderly
<1>r. ret[t] \notin InAcquire \cup {"lt_own"}
    BY <1>0 DEF Backs
<1>1. CASE \/ AcquirePriority(t) \/ AcquireRecipient(t) \/ DonatePush(t) \/ AcquireBene(t)
           \/ AcquireBeneElem(t) \/ DonateUpdate(t) \/ AcquireDown(t)
  <2>1. pc[t] \in AskPCs
      BY <1>1 DEF AcquirePriority, AcquireRecipient, DonatePush, AcquireBene, AcquireBeneElem,
                  DonateUpdate, AcquireDown, At, AskPCs, InAcquire
  <2>2. /\ \/ pc' = pc
           \/ \E p \in AskPCs \cup {"la_own"} : pc' = [pc EXCEPT ![t] = p]
        /\ UNCHANGED <<lk, ret, holder>>
    <3>1. CASE \/ AcquirePriority(t) \/ AcquireRecipient(t) \/ DonatePush(t) \/ AcquireBene(t)
               \/ AcquireBeneElem(t)
        BY <3>1 DEF AcquirePriority, AcquireRecipient, DonatePush, AcquireBene, AcquireBeneElem,
                    Crash, Goto, locVars, AskPCs, InAcquire
    <3>2. CASE DonateUpdate(t)
        BY <3>2 DEF DonateUpdate, UpdateDonation, Crash, Goto, locVars, AskPCs, InAcquire
    <3>3. CASE AcquireDown(t)
        BY <3>3 DEF AcquireDown, SemaDown, Goto, locVars, AskPCs, InAcquire
    <3> QED
        BY <1>1, <3>1, <3>2, <3>3
  <2>3. /\ pc'[t] \in AskPCs \cup {"la_own"}
        /\ \A u \in Threads : u # t => pc'[u] = pc[u]
      BY <1>0, <2>1, <2>2
  <2> QED
      BY <2>1, <2>2, <2>3, SameOrder
<1>2. CASE AcquireHolder(t)
  <2>1. /\ pc[t] = "la_own" /\ pc'[t] = "la_clr" /\ UNCHANGED <<lk, ret>>
        /\ \A u \in Threads : u # t => pc'[u] = pc[u]
        /\ holder' = [holder EXCEPT ![lk[t]] = t]
      BY <1>0, <1>2 DEF AcquireHolder, At, Goto, locVars
  <2>2. holder'[TidLock] = t => lk[t] = TidLock
      BY <1>0, <2>1, NotTid
  <2>3. pc[t] \in InAcquire /\ "la_clr" \notin AskPCs
      BY <2>1 DEF InAcquire, AskPCs
  <2>4. \A u \in Threads, k \in Locks : u # t /\ holder'[k] = u => holder[k] = u
      BY <1>0, <2>1
  <2> QED
      BY <1>o, <2>1, <2>2, <2>3, <2>4, OneOrder DEF Order
<1>3. CASE AcquireReturn(t)
  <2>1. /\ pc[t] = "la_clr" /\ pc'[t] = ret[t] /\ UNCHANGED holder
        /\ \A u \in Threads : u # t => pc'[u] = pc[u] /\ lk'[u] = lk[u] /\ ret'[u] = ret[u]
      BY <1>0, <1>3 DEF AcquireReturn, Return, At, Goto
  <2>2. holder[TidLock] = t => ret[t] = "tc_tid"
      BY <1>o, <2>1 DEF Order, InAcquire
  <2> QED
      BY <1>r, <2>1, <2>2, SameOrder
<1>4. CASE TryAcquireHolder(t)
  <2>1. /\ pc[t] = "lt_own" /\ pc'[t] = ret[t]
        /\ \A u \in Threads : u # t => pc'[u] = pc[u] /\ lk'[u] = lk[u] /\ ret'[u] = ret[u]
        /\ holder' = [holder EXCEPT ![lk[t]] = t]
      BY <1>0, <1>4 DEF TryAcquireHolder, Return, At, Goto
  <2>2. holder'[TidLock] # t
      BY <1>0, <1>o, <2>1, NotTid DEF Order
  <2>3. \A u \in Threads, k \in Locks : u # t /\ holder'[k] = u => holder[k] = u
      BY <1>0, <2>1
  <2>4. ret[t] \notin AskPCs
      BY <1>r DEF AskPCs
  <2> QED
      BY <1>r, <2>1, <2>2, <2>3, <2>4, OneOrder
<1>5. CASE ReleasePriorities(t) \/ ReleaseUp(t) \/ ReleaseReturn(t) \/ SemaDownRetry(t)
  <2>1. /\ pc[t] \in {"lr_rel", "lr_up", "lr_pri", "sd_wake"} /\ UNCHANGED holder
        /\ \/ UNCHANGED pc
           \/ \E p \in {"lr_up", "lr_pri", "run", "sd_wake", ret[t]} : pc' = [pc EXCEPT ![t] = p]
        /\ \A u \in Threads : u # t => lk'[u] = lk[u] /\ ret'[u] = ret[u]
    <3>1. CASE ReleasePriorities(t) \/ ReleaseUp(t) \/ ReleaseReturn(t)
        BY <1>0, <3>1 DEF ReleasePriorities, ReleaseUp, ReleaseReturn, Return, Crash, At, Goto,
                          locVars
    <3>2. CASE SemaDownRetry(t)
        BY <1>0, <3>2 DEF SemaDownRetry, SemaDown, At, Goto
    <3> QED
        BY <1>5, <3>1, <3>2
  <2>2. /\ pc'[t] \notin InAcquire \cup {"lt_own"}
        /\ \A u \in Threads : u # t => pc'[u] = pc[u]
      BY <1>0, <1>r, <2>1 DEF InAcquire
  <2> QED
      BY <2>1, <2>2, NotTid, SameOrder
<1>6. CASE CreateAcquire(t)
  <2>1. /\ pc[t] = "tc_lock" /\ UNCHANGED holder
        /\ \A u \in Threads : u # t => pc'[u] = pc[u] /\ lk'[u] = lk[u] /\ ret'[u] = ret[u]
        /\ pc'[t] \in {"la_down", "la_pri"} /\ lk'[t] = TidLock /\ ret'[t] = "tc_tid"
      BY <1>0, <1>6 DEF CreateAcquire, AcquireCheck, Call, At, Goto
  <2>2. holder[TidLock] # t
      BY <2>1, NotTid
  <2> QED
      BY <2>1, <2>2, OneOrder
<1>7. CASE CreateNextTid(t)
  <2>1. /\ pc'[t] = "lr_rel"
        /\ \A u \in Threads : u # t => pc'[u] = pc[u] /\ lk'[u] = lk[u] /\ ret'[u] = ret[u]
        /\ holder' = [holder EXCEPT ![TidLock] = NULL]
      BY <1>0, <1>7 DEF CreateNextTid, ReleaseHolder, Call, Goto
  <2>2. /\ holder'[TidLock] # t /\ pc'[t] \notin InAcquire \cup AskPCs
        /\ \A u \in Threads, k \in Locks : u # t /\ holder'[k] = u => holder[k] = u
      BY <1>0, <2>1, DistinctAssumption DEF InAcquire, AskPCs
  <2> QED
      BY <2>1, <2>2, OneOrder
<1>8. CASE CreateTid(t) \/ CreateUnblock(t)
  <2>1. /\ \/ pc[t] = "tc_tid" /\ pc'[t] = "tc_inc"
           \/ pc[t] = "tc_go" /\ pc'[t] = "run"
        /\ \A u \in Threads : u # t => pc'[u] = pc[u]
        /\ UNCHANGED <<lk, ret, holder>>
      BY <1>0, <1>8 DEF CreateTid, CreateUnblock, At, Goto, locVars
  <2>2. pc'[t] \notin InAcquire \cup {"lt_own"}
      BY <2>1 DEF InAcquire
  <2> QED
      BY <2>1, <2>2, NotTid, SameOrder
<1> QED
    BY <1>1, <1>2, <1>3, <1>4, <1>5, <1>6, <1>7, <1>8 DEF KernelStep

LEMMA CallOrder ==
    ASSUME LockInv, Others, Orderly, NEW t \in Threads, status[t] # "none",
           ThreadCall(t), \A u \in Threads : status'[u] = "none" => status[u] = "none"
    PROVE  Orderly'
<1> USE LocksAssumption
<1>0. /\ pc \in [Threads -> PCs] /\ lk \in [Threads -> Sems \cup {NULL}]
      /\ ret \in [Threads -> Backs] /\ holder \in [Locks -> Threads \cup {NULL}]
    BY DEF LockInv, LockTypes
<1>1. pc[t] = "run"
    BY DEF ThreadCall, LockAcquire, LockTryAcquire, LockRelease, ThreadSemaDown, ThreadSemaUp,
           ThreadSetPriority, ThreadCreate, ThreadExit, At
<1>2. holder[TidLock] # t
    BY <1>1, NotTid
<1>3. ASSUME NEW l \in Locks, LockAcquire(t, l) \/ LockTryAcquire(t, l) PROVE Orderly'
  <2>1. /\ \A u \in Threads : u # t => pc'[u] = pc[u] /\ lk'[u] = lk[u] /\ ret'[u] = ret[u]
        /\ pc'[t] \in {"la_down", "la_pri", "lt_own"} /\ lk'[t] = l /\ UNCHANGED holder
      BY <1>0, <1>3 DEF LockAcquire, LockTryAcquire, AcquireCheck, Call, Goto
  <2>2. l # TidLock /\ \A k \in Locks : holder[k] = t => k < l
      BY <1>3 DEF LockAcquire, LockTryAcquire, MayTake
  <2> QED
      BY <1>2, <2>1, <2>2, OneOrder
<1>4. ASSUME NEW l \in Locks, LockRelease(t, l) PROVE Orderly'
  <2>1. /\ pc'[t] = "lr_rel"
        /\ \A u \in Threads : u # t => pc'[u] = pc[u] /\ lk'[u] = lk[u] /\ ret'[u] = ret[u]
        /\ holder' = [holder EXCEPT ![l] = NULL]
      BY <1>0, <1>4 DEF LockRelease, ReleaseHolder, Call, Goto
  <2>2. /\ holder'[TidLock] # t /\ pc'[t] \notin InAcquire \cup AskPCs
        /\ \A u \in Threads, k \in Locks : u # t /\ holder'[k] = u => holder[k] = u
      BY <1>0, <1>2, <2>1, DistinctAssumption DEF InAcquire, AskPCs
  <2> QED
      BY <2>1, <2>2, OneOrder
<1>5. CASE \/ \E s \in Semas : ThreadSemaDown(t, s) \/ ThreadSemaUp(t, s)
           \/ \E p \in NewPris : ThreadSetPriority(t, p)
           \/ \E u \in Threads, p \in Pris : ThreadCreate(t, u, p)
           \/ ThreadExit(t)
  <2>1. /\ UNCHANGED <<ret, holder>> /\ \A u \in Threads : u # t => lk'[u] = lk[u]
        /\ \/ UNCHANGED pc
           \/ \E p \in {"run", "sd_wake", "tc_lock"} : pc' = [pc EXCEPT ![t] = p]
    <3>1. CASE \E s \in Semas : ThreadSemaDown(t, s)
        BY <1>0, <3>1 DEF ThreadSemaDown, SemaDown, Goto
    <3>2. CASE \/ \E s \in Semas : ThreadSemaUp(t, s)
               \/ \E p \in NewPris : ThreadSetPriority(t, p)
               \/ \E u \in Threads, p \in Pris : ThreadCreate(t, u, p)
               \/ ThreadExit(t)
        BY <3>2 DEF ThreadSemaUp, ThreadSetPriority, ThreadCreate, ThreadExit, Crash, Goto,
                    locVars
    <3> QED
        BY <1>5, <3>1, <3>2
  <2>2. /\ pc'[t] \notin InAcquire \cup {"lt_own"}
        /\ \A u \in Threads : u # t => pc'[u] = pc[u]
      BY <1>0, <1>1, <2>1 DEF InAcquire
  <2> QED
      BY <1>2, <2>1, <2>2, SameOrder
<1> QED
    BY <1>3, <1>4, <1>5 DEF ThreadCall

LEMMA OrderInit == Init => Orderly
<1> SUFFICES ASSUME Init, NEW t \in Threads PROVE Order(t)
    BY DEF Orderly
<1>1. pc[t] = "run" /\ \A k \in Locks : holder[k] # t
    BY DistinctAssumption DEF Init
<1> QED
    BY <1>1, LocksAssumption DEF Order, InAcquire, AskPCs

LEMMA OrderNext ==
    LockInv /\ Others /\ QueueInv /\ Orderly /\ [ThreadStep]_vars => Orderly'
<1> SUFFICES ASSUME LockInv, Others, QueueInv, Orderly, [ThreadStep]_vars PROVE Orderly'
    OBVIOUS
<1>1. CASE UNCHANGED vars
    BY <1>1 DEF vars, schedVars, locVars, Orderly, Order
<1>2. ASSUME NEW t \in Threads, KernelStep(t) \/ ThreadCall(t) PROVE Orderly'
  <2>1. \A u \in Threads : status'[u] = "none" => status[u] = "none"
    <3>1. Next
        BY <1>2 DEF Next
    <3> QED
        BY <3>1, NextShapes, NoneStays DEF Others
  <2>2. cur = t
    <3>1. CASE KernelStep(t)
        BY <3>1 DEF KernelStep, AcquirePriority, AcquireRecipient, DonatePush, DonateUpdate,
             AcquireBene, AcquireBeneElem, AcquireDown, AcquireHolder, AcquireReturn,
             TryAcquireHolder, ReleasePriorities, ReleaseUp, ReleaseReturn, SemaDownRetry,
             CreateAcquire, CreateTid, CreateNextTid, CreateUnblock, At
    <3>2. CASE ThreadCall(t)
        BY <3>2 DEF ThreadCall, LockAcquire, LockTryAcquire, LockRelease, ThreadSemaDown,
             ThreadSemaUp, ThreadSetPriority, ThreadCreate, ThreadExit, At
    <3> QED
        BY <1>2, <3>1, <3>2
  <2>3. status[t] # "none"
      BY <2>2 DEF QueueInv, Queues, RunQueue
  <2> QED
      BY <1>2, <2>1, <2>3, KernelOrder, CallOrder
<1> QED
    BY <1>1, <1>2 DEF ThreadStep

-----------------------------------------------------------------------------
(* Donations, when no interrupt preempts a thread. *)

\* Where the priority_elem of a lock_acquire is linked.
Pushed == {"la_upd", "la_bene", "la_elem", "la_down", "la_wake"}

\* What lock_acquire(x) passes to thread_donate_priority.
Offer(x) == [priority |-> priority[x], lock |-> lk[x]]

\* x donates its priority to r, the holder of the lock it asks for (or the thread
\* that is just releasing it), and its bene is r.
Gives(x, r) ==
    /\ pc[x] \in Pushed
    /\ pe[x] = Offer(x)
    /\ holder[lk[x]] = r \/ (pc[r] = "lr_rel" /\ lk[r] = lk[x])
    /\ bene[x] = IF pc[x] \in {"la_upd", "la_bene"} THEN NULL ELSE r

Given == \A r \in Threads : \A x \in chain[r] : Gives(x, r)

\* The donor's side: bene is set in lock_acquire only, and what a thread is about
\* to donate is its priority, to the holder.
Donor(x) ==
    /\ pc[x] \notin {"la_elem", "la_down", "la_wake", "la_own", "la_clr"} => bene[x] = NULL
    /\ pc[x] = "la_push" => rcp[x] = holder[lk[x]]
    /\ pc[x] \in {"la_arg", "la_push"} => pe[x] = Offer(x)

\* A thread's priority is the one thread_update_priority computes ...
Updated(r) == UpdatedPriority(r, init_pri[r])

\* ... or higher, in lock_release, or about to be updated on behalf of the running
\* thread: r holds a lock above all that the running thread holds.
Above(t, m) == m = TidLock \/ \A k \in Locks : holder[k] = t => k < m

Pending(r) ==
    /\ cur \in Threads /\ pc[cur] = "la_upd" /\ rcp[cur] = r
    /\ \E m \in Locks : holder[m] = r /\ Above(cur, m)

Fresh(r) ==
    \/ priority[r] = Updated(r)
    \/ pc[r] \in {"lr_up", "lr_pri"} /\ Updated(r) <= priority[r]
    \/ Pending(r)

DonInv == Given /\ (\A x \in Threads : Donor(x)) /\ (\A r \in Threads : Fresh(r))

\* thread_update_priority computes the maximum of the base and the donations.
LEMMA UpdatedIsMax ==
    ASSUME PriTypes, NEW r \in Threads, NEW base \in Pris
    PROVE  /\ UpdatedPriority(r, base) \in Pris
           /\ base <= UpdatedPriority(r, base)
           /\ \A x \in chain[r] : pe[x].priority <= UpdatedPriority(r, base)
           /\ \/ UpdatedPriority(r, base) = base
              \/ \E x \in chain[r] : UpdatedPriority(r, base) = pe[x].priority
<1> DEFINE S == {base} \cup {pe[x].priority : x \in chain[r]}
<1>1. S \subseteq Pris /\ S # {}
    BY DEF PriTypes, Elem
<1>2. MaxOf(S) \in S /\ \A y \in S : y <= MaxOf(S)
    BY <1>1, MaxOfPris
<1> QED
    BY <1>1, <1>2 DEF UpdatedPriority

LEMMA UpdatedIsMaxPrime ==
    ASSUME PriTypes', NEW r \in Threads
    PROVE  \/ Updated(r)' = init_pri'[r]
           \/ \E x \in chain'[r] : Updated(r)' = pe'[x].priority
<1> DEFINE S == {init_pri'[r]} \cup {pe'[x].priority : x \in chain'[r]}
<1>1. S \subseteq Pris /\ S # {}
    BY DEF PriTypes, Elem
<1>2. MaxOf(S) \in S
    BY <1>1, MaxOfPris
<1> QED
    BY <1>2 DEF Updated, UpdatedPriority

\* It depends on the base and on the elements of the chain.
LEMMA SameUpdated ==
    ASSUME NEW r \in Threads, init_pri'[r] = init_pri[r], chain'[r] = chain[r],
           \A x \in chain[r] : pe'[x].priority = pe[x].priority
    PROVE  Updated(r)' = Updated(r)
<1>1. {pe'[x].priority : x \in chain'[r]} = {pe[x].priority : x \in chain[r]}
    OBVIOUS
<1> QED
    BY <1>1 DEF Updated, UpdatedPriority

LEMMA NotLinked ==
    ASSUME DonInv, NEW t \in Threads, pc[t] \notin Pushed, NEW r \in Threads
    PROVE  t \notin chain[r]
    BY DEF DonInv, Given, Gives

\* A priority that is not being updated.
LEMMA FreshStays ==
    ASSUME DonInv, NEW r \in Threads, ~Pending(r), init_pri'[r] = init_pri[r],
           chain'[r] = chain[r], \A x \in chain[r] : pe'[x].priority = pe[x].priority,
           priority'[r] = priority[r],
           pc[r] \in {"lr_up", "lr_pri"} => pc'[r] \in {"lr_up", "lr_pri"}
    PROVE  Fresh(r)'
<1>1. Updated(r)' = Updated(r)
    BY SameUpdated
<1> QED
    BY <1>1 DEF DonInv, Fresh

\* The donors other than the running thread t: they wait, and go on waiting for the
\* lock of the same holder.
LEMMA OthersGive ==
    ASSUME LockTypes, PriTypes, Alone, DonInv, NEW t \in Threads, cur = t, pc[t] # "lr_rel",
           \A u \in Threads : u # t => /\ pc'[u] = pc[u] /\ lk'[u] = lk[u]
                                       /\ bene'[u] = bene[u],
           \A l \in Locks, r \in Threads :
              holder[l] = r => holder'[l] = r \/ (r = t /\ pc'[t] = "lr_rel" /\ lk'[t] = l)
    PROVE  \A r \in Threads, x \in Threads :
              x \in chain[r] /\ x # t /\ pe'[x] = Offer(x)' => Gives(x, r)'
<1> SUFFICES ASSUME NEW r \in Threads, NEW x \in Threads, x \in chain[r], x # t,
                    pe'[x] = Offer(x)'
             PROVE  Gives(x, r)'
    OBVIOUS
<1>1. Gives(x, r)
    BY DEF DonInv, Given
<1>2. lk[x] \in Locks
    BY <1>1 DEF Gives, LockTypes, Pushed, InAcquire
<1>3. holder[lk[x]] = r
    BY <1>1 DEF Gives, Alone, Brief
<1>4. holder'[lk'[x]] = r \/ (pc'[r] = "lr_rel" /\ lk'[r] = lk'[x])
    BY <1>2, <1>3
<1> QED
    BY <1>1, <1>4 DEF Gives

\* Nobody but the running thread is about to donate.
LEMMA OthersDonor ==
    ASSUME Alone, DonInv, NEW t \in Threads, cur = t,
           \A u \in Threads : u # t => pc'[u] = pc[u] /\ bene'[u] = bene[u]
    PROVE  \A u \in Threads : u # t => Donor(u)'
    BY DEF DonInv, Donor, Alone, Brief

\* A step of the running thread t that changes no priority and no chain.
LEMMA DonStep ==
    ASSUME LockTypes, PriTypes, Alone, DonInv, NEW t \in Threads, cur = t,
           pc[t] \notin {"lr_rel", "la_upd"},
           UNCHANGED <<priority, init_pri, chain>>,
           \A u \in Threads : u # t => /\ pc'[u] = pc[u] /\ lk'[u] = lk[u]
                                       /\ bene'[u] = bene[u] /\ pe'[u] = pe[u],
           \A l \in Locks, r \in Threads :
              holder[l] = r => holder'[l] = r \/ (r = t /\ pc'[t] = "lr_rel" /\ lk'[t] = l),
           \A r \in Threads : t \in chain[r] => pe'[t] = pe[t] /\ Gives(t, r)',
           Donor(t)',
           pc[t] \in {"lr_up", "lr_pri"} => pc'[t] \in {"lr_up", "lr_pri"}
    PROVE  DonInv'
<1>0. chain \in [Threads -> SUBSET Threads]
    BY DEF PriTypes
<1>1. ASSUME NEW r \in Threads, NEW x \in chain[r] PROVE pe'[x] = pe[x] /\ Gives(x, r)'
  <2>1. CASE x = t
      BY <1>1, <2>1
  <2>2. CASE x # t
    <3>1. x \in Threads /\ pe[x] = Offer(x)
        BY <1>0, <1>1 DEF DonInv, Given, Gives
    <3>2. pe'[x] = pe[x] /\ Offer(x)' = Offer(x)
        BY <2>2, <3>1 DEF Offer
    <3> QED
        BY <1>1, <2>2, <3>1, <3>2, OthersGive
  <2> QED
      BY <2>1, <2>2
<1>2. Given'
    BY <1>1 DEF Given
<1>3. ASSUME NEW r \in Threads PROVE Fresh(r)'
  <2>1. ~Pending(r)
      BY DEF Pending
  <2>2. pc[r] \in {"lr_up", "lr_pri"} => pc'[r] \in {"lr_up", "lr_pri"}
      OBVIOUS
  <2> QED
      BY <1>1, <2>1, <2>2, FreshStays
<1>4. \A u \in Threads : Donor(u)'
    BY OthersDonor
<1> QED
    BY <1>2, <1>3, <1>4 DEF DonInv

\* The same, of a thread that is on no chain.
LEMMA FreeStep ==
    ASSUME LockTypes, PriTypes, Alone, DonInv, NEW t \in Threads, cur = t,
           pc[t] \notin Pushed \cup {"lr_rel"},
           UNCHANGED <<priority, init_pri, chain>>,
           \A u \in Threads : u # t => /\ pc'[u] = pc[u] /\ lk'[u] = lk[u]
                                       /\ bene'[u] = bene[u] /\ pe'[u] = pe[u],
           \A l \in Locks, r \in Threads :
              holder[l] = r => holder'[l] = r \/ (r = t /\ pc'[t] = "lr_rel" /\ lk'[t] = l),
           Donor(t)',
           pc[t] \in {"lr_up", "lr_pri"} => pc'[t] \in {"lr_up", "lr_pri"}
    PROVE  DonInv'
<1>1. \A r \in Threads : t \notin chain[r]
    BY NotLinked
<1>2. pc[t] \notin {"lr_rel", "la_upd"}
    BY DEF Pushed
<1> QED
    BY <1>1, <1>2, DonStep

LEMMA CrashDon ==
    ASSUME DonInv, UNCHANGED <<cur, priority, donVars, holder, pc, lk, rcp>>
    PROVE  DonInv'
<1>1. \A x, r : Gives(x, r)' <=> Gives(x, r)
    BY DEF Gives, Offer, donVars
<1>2. \A x : Donor(x)' <=> Donor(x)
    BY DEF Donor, Offer, donVars
<1>3. \A r : Pending(r)' <=> Pending(r)
    BY DEF Pending, Above
<1>4. \A r : Updated(r)' = Updated(r)
    BY DEF Updated, UpdatedPriority, donVars
<1>5. \A r : Fresh(r)' <=> Fresh(r)
    BY <1>3, <1>4 DEF Fresh
<1> QED
    BY <1>1, <1>2, <1>5 DEF DonInv, Given, donVars

\* lock_acquire before the donation, and the push.
LEMMA OfferDon ==
    ASSUME LockInv, Others, MaxInv, Orderly, DonInv, NEW t \in Threads,
           AcquirePriority(t) \/ AcquireRecipient(t) \/ DonatePush(t)
    PROVE  DonInv'
<1>0. /\ LockTypes /\ PriTypes /\ Alone /\ cur = t /\ Donor(t)
      /\ pc \in [Threads -> PCs] /\ rcp \in [Threads -> Threads \cup {NULL}]
      /\ pe \in [Threads -> Elem] /\ chain \in [Threads -> SUBSET Threads]
    BY DEF LockInv, LockTypes, Others, PriTypes, MaxInv, DonInv, AcquirePriority,
           AcquireRecipient, DonatePush, At
<1>c. ASSUME NEW f, Crash(f) PROVE DonInv'
    BY <1>c, CrashDon DEF Crash, schedVars, locVars
<1>1. CASE AcquirePriority(t) /\ ~Crash("dangling")
  <2>1. /\ pc[t] = "la_pri" /\ pc'[t] = "la_arg" /\ pe'[t] = Offer(t)
        /\ \A u \in Threads : u # t => pc'[u] = pc[u] /\ pe'[u] = pe[u]
        /\ UNCHANGED <<priority, init_pri, chain, bene, holder, lk>>
      BY <1>0, <1>1 DEF AcquirePriority, At, Goto, Offer, locVars
  <2>2. Offer(t)' = Offer(t)
      BY <2>1 DEF Offer
  <2>3. Donor(t)'
      BY <1>0, <2>1, <2>2 DEF Donor
  <2> QED
      BY <1>0, <2>1, <2>3, FreeStep DEF Pushed
<1>2. CASE AcquireRecipient(t)
  <2>1. /\ pc[t] = "la_arg" /\ pc'[t] = "la_push" /\ rcp'[t] = holder[lk[t]]
        /\ \A u \in Threads : u # t => pc'[u] = pc[u]
        /\ UNCHANGED <<priority, init_pri, chain, bene, pe, holder, lk>>
      BY <1>0, <1>2 DEF AcquireRecipient, At, Goto, donVars
  <2>2. Donor(t)'
      BY <1>0, <2>1 DEF Donor, Offer
  <2> QED
      BY <1>0, <2>1, <2>2, FreeStep DEF Pushed
<1>3. CASE DonatePush(t) /\ ~Crash("null_recipient") /\ ~Crash("freed")
  <2>1. PICK r \in Threads : r = rcp[t]
      BY <1>0, <1>3 DEF DonatePush
  <2>2. /\ pc[t] = "la_push" /\ pc'[t] = "la_upd"
        /\ chain' = [chain EXCEPT ![r] = @ \cup {t}]
        /\ \A u \in Threads : u # t => pc'[u] = pc[u]
        /\ UNCHANGED <<cur, priority, init_pri, bene, pe, holder, lk, rcp>>
      BY <1>0, <1>3, <2>1 DEF DonatePush, At, Goto, schedVars, locVars
  <2>3. /\ holder[lk[t]] = r /\ pe[t] = Offer(t) /\ bene[t] = NULL
      BY <1>0, <2>1, <2>2 DEF Donor
  <2>4. lk[t] \in Locks
      BY <2>2 DEF LockInv, LockTypes, InAcquire
  <2>5. \A x \in Threads : Offer(x)' = Offer(x)
      BY <2>2 DEF Offer
  <2>6. Gives(t, r)'
      BY <2>2, <2>3, <2>5 DEF Gives, Pushed
  <2>7. Given'
    <3> SUFFICES ASSUME NEW q \in Threads, NEW x \in chain'[q] PROVE Gives(x, q)'
        BY DEF Given
    <3>1. CASE x = t
      <4>1. q = r
          BY <1>0, <2>2, <3>1, NotLinked DEF Pushed
      <4> QED
          BY <2>6, <3>1, <4>1
    <3>2. CASE x # t
      <4>1. x \in Threads /\ x \in chain[q]
          BY <1>0, <2>2, <3>2
      <4>2. pe'[x] = Offer(x)'
          BY <2>2, <2>5, <4>1 DEF DonInv, Given, Gives
      <4> QED
          BY <1>0, <2>2, <3>2, <4>1, <4>2, OthersGive
    <3> QED
        BY <3>1, <3>2
  <2>8. Pending(r)'
    <3>1. Above(t, lk[t])
        BY <2>2 DEF Orderly, Order, Above, AskPCs, InAcquire
    <3>2. Above(t, lk[t])'
        BY <2>2, <3>1 DEF Above
    <3> QED
        BY <1>0, <2>1, <2>2, <2>3, <2>4, <3>2 DEF Pending
  <2>9. ASSUME NEW q \in Threads PROVE Fresh(q)'
    <3>1. CASE q = r
        BY <2>8, <3>1 DEF Fresh
    <3>2. CASE q # r
      <4>1. ~Pending(q) /\ chain'[q] = chain[q]
          BY <1>0, <2>2, <3>2 DEF Pending
      <4> QED
          BY <2>2, <4>1, FreshStays
    <3> QED
        BY <3>1, <3>2
  <2>10. Donor(t)'
      BY <2>2, <2>3 DEF Donor
  <2>11. \A u \in Threads : Donor(u)'
      BY <1>0, <2>2, <2>10, OthersDonor
  <2> QED
      BY <2>7, <2>9, <2>11 DEF DonInv
<1> QED
    BY <1>1, <1>2, <1>3, <1>c

\* One level of thread_update_donation.  A priority that changes is that of a thread
\* on the way from the running thread along held locks, which go up; where bene is
\* stale nothing changes any more.
LEMMA UpdateDon ==
    ASSUME LockInv, Others, MaxInv, Orderly, DonInv, NEW t \in Threads, DonateUpdate(t)
    PROVE  DonInv'
<1>0. /\ LockTypes /\ PriTypes /\ Alone /\ cur = t /\ pc[t] = "la_upd"
      /\ pc \in [Threads -> PCs] /\ rcp \in [Threads -> Threads \cup {NULL}]
      /\ pe \in [Threads -> Elem] /\ chain \in [Threads -> SUBSET Threads]
      /\ priority \in [Threads -> Pris] /\ rcp[t] \in Threads
    BY DEF LockInv, LockTypes, Others, PriTypes, MaxInv, DonateUpdate, At
<1>c. ASSUME NEW f, Crash(f) PROVE DonInv'
    BY <1>c, CrashDon DEF Crash, schedVars, locVars
<1> SUFFICES ASSUME \A f : ~Crash(f) PROVE DonInv'
    BY <1>c
<1>1. PICK r \in Threads : r = rcp[t]
    BY <1>0
<1>2. PICK n \in Pris : n = Updated(r)
    BY <1>0, UpdatedPriorityType DEF PriTypes, Updated
<1>3. /\ priority' = [priority EXCEPT ![r] = n]
      /\ \/ /\ bene[r] # NULL /\ pe' = [pe EXCEPT ![r].priority = n]
            /\ rcp'[t] = bene[r] /\ pc' = pc
         \/ /\ bene[r] = NULL /\ pe' = pe /\ pc' = [pc EXCEPT ![t] = "la_bene"]
      /\ UNCHANGED <<cur, init_pri, chain, bene, holder, lk>>
    BY <1>0, <1>1, <1>2 DEF DonateUpdate, UpdateDonation, Goto, schedVars, Updated
<1>4. /\ \A x \in Threads : x # r => priority'[x] = priority[x] /\ pe'[x] = pe[x]
      /\ priority'[r] = n
      /\ bene[r] # NULL => pe'[r] = [pe[r] EXCEPT !.priority = n] /\ pc' = pc
      /\ bene[r] = NULL => pe' = pe
      /\ \A x \in Threads : x # t => pc'[x] = pc[x]
      /\ pc'[t] \in {"la_upd", "la_bene"}
    BY <1>0, <1>3
\* The thread the update is about is not the running one, if its priority changes.
<1>5. Pending(r) => r # t
  <2> SUFFICES ASSUME NEW m \in Locks, holder[m] = t, Above(t, m) PROVE FALSE
      BY <1>0 DEF Pending
  <2>1. m # TidLock
      BY <1>0, NotTid
  <2> QED
      BY <2>1, LocksAssumption DEF Above
<1>6. pc[r] \in Pushed /\ ~Pending(r) => n = priority[r]
    BY <1>2 DEF DonInv, Fresh, Pushed
<1>7. ASSUME NEW q \in Threads, r \in chain[q]
      PROVE  /\ pc[r] \in Pushed /\ pe[r] = Offer(r) /\ holder[lk[r]] = q
             /\ bene[r] = IF pc[r] \in {"la_upd", "la_bene"} THEN NULL ELSE q
             /\ pe'[r].priority # pe[r].priority => Pending(r) /\ bene[r] = q
             /\ pe'[r] = Offer(r)'
  <2>1. Gives(r, q)
      BY <1>7 DEF DonInv, Given
  <2>2. holder[lk[r]] = q
      BY <1>0, <2>1 DEF Gives, Alone, Brief
  <2>3. pc[r] \in Pushed /\ pe[r] = Offer(r)
        /\ bene[r] = IF pc[r] \in {"la_upd", "la_bene"} THEN NULL ELSE q
      BY <2>1 DEF Gives
  <2>4. bene[r] = NULL => r = t
      BY <1>0, <2>3, DistinctAssumption DEF Alone, Brief
  <2>5. bene[r] = NULL => n = priority[r]
      BY <1>5, <1>6, <2>3, <2>4
  <2>6. pe[r].priority = priority[r] /\ pe[r].lock = lk[r] /\ pe[r] \in Elem
      BY <1>0, <2>3 DEF Offer
  <2>7. CASE bene[r] = NULL
      BY <1>3, <1>4, <2>2, <2>3, <2>5, <2>7 DEF Offer
  <2>8. CASE bene[r] # NULL
    <3>1. pe'[r] = [priority |-> n, lock |-> lk[r]]
        BY <1>4, <2>3, <2>8 DEF Offer
    <3>2. pe'[r] = Offer(r)'
        BY <1>3, <1>4, <3>1 DEF Offer
    <3>3. bene[r] = q
        BY <2>3, <2>8
    <3>4. pe'[r].priority # pe[r].priority => Pending(r)
        BY <1>6, <2>3, <2>6, <3>1
    <3> QED
        BY <2>2, <2>3, <3>2, <3>3, <3>4
  <2> QED
      BY <2>7, <2>8
<1>8. Given'
  <2> SUFFICES ASSUME NEW q \in Threads, NEW x \in chain[q] PROVE Gives(x, q)'
      BY <1>3 DEF Given
  <2>1. Gives(x, q) /\ x \in Threads
      BY <1>0 DEF DonInv, Given
  <2>2. pe'[x] = Offer(x)'
    <3>1. CASE x = r
        BY <1>7, <3>1
    <3>2. CASE x # r
        BY <1>3, <1>4, <2>1, <3>2 DEF Gives, Offer
    <3> QED
        BY <3>1, <3>2
  <2>3. holder[lk[x]] = q
      BY <1>0, <2>1 DEF Gives, Alone, Brief
  <2>4. pc'[x] \in Pushed /\ (pc'[x] \in {"la_upd", "la_bene"} <=> pc[x] \in {"la_upd", "la_bene"})
      BY <1>0, <1>4, <2>1 DEF Gives, Pushed
  <2>5. bene'[x] = IF pc'[x] \in {"la_upd", "la_bene"} THEN NULL ELSE q
      BY <1>3, <2>1, <2>4 DEF Gives
  <2> QED
      BY <1>3, <2>2, <2>3, <2>4, <2>5 DEF Gives
<1>9. ASSUME NEW q \in Threads PROVE Fresh(q)'
  <2>1. CASE q = r
    <3>1. r \notin chain[r]
      <4> SUFFICES ASSUME r \in chain[r] PROVE FALSE
          OBVIOUS
      <4>1. pc[r] \in Pushed /\ holder[lk[r]] = r
          BY <1>7
      <4>2. pc[r] \in AskPCs /\ lk[r] \in Locks
          BY <1>0, <4>1 DEF Pushed, AskPCs, InAcquire, LockTypes
      <4>3. lk[r] # TidLock
          BY <4>1, NotTid DEF Pushed
      <4>4. lk[r] < lk[r]
          BY <4>1, <4>2, <4>3 DEF Orderly, Order
      <4>5. \A k \in Nat : ~(k < k)
          OBVIOUS
      <4> QED
          BY <4>2, <4>4, <4>5, LocksAssumption
    <3>2. chain'[r] = chain[r] /\ init_pri'[r] = init_pri[r]
          /\ \A x \in chain[r] : pe'[x].priority = pe[x].priority
        BY <1>0, <1>3, <1>4, <3>1
    <3>3. Updated(r)' = Updated(r)
        BY <3>2, SameUpdated
    <3> QED
        BY <1>2, <1>4, <2>1, <3>3 DEF Fresh
  <2>2. CASE q # r
    <3>1. ~Pending(q) /\ priority'[q] = priority[q]
        BY <1>0, <1>1, <1>4, <2>2 DEF Pending
    <3>2. chain'[q] = chain[q] /\ init_pri'[q] = init_pri[q]
        BY <1>3
    <3>3. CASE r \in chain[q] /\ pe'[r].priority # pe[r].priority
      <4>1. Pending(r) /\ bene[r] = q /\ holder[lk[r]] = q /\ pc[r] \in Pushed
          BY <1>7, <3>3
      <4>2. PICK m \in Locks : holder[m] = r /\ Above(t, m)
          BY <1>0, <4>1 DEF Pending
      <4>3. pc[r] \in AskPCs /\ lk[r] \in Locks
          BY <1>0, <4>1 DEF Pushed, AskPCs, InAcquire, LockTypes
      <4>4. m # TidLock
          BY <4>1, <4>2, NotTid DEF Pushed
      <4>5. lk[r] = TidLock \/ m < lk[r]
          BY <4>2, <4>3 DEF Orderly, Order
      <4>6. Above(t, lk[r])
          BY <4>2, <4>3, <4>4, <4>5, LocksAssumption DEF Above
      <4>7. Above(t, lk[r])'
          BY <1>3, <4>6 DEF Above
      <4>8. q # NULL
          BY DistinctAssumption
      <4>9. pc'[t] = "la_upd" /\ rcp'[t] = q /\ cur' = t /\ holder'[lk'[r]] = q
          BY <1>0, <1>3, <4>1, <4>8
      <4>10. Pending(q)'
          BY <1>3, <4>3, <4>7, <4>9 DEF Pending
      <4> QED
          BY <4>10 DEF Fresh
    <3>4. CASE ~(r \in chain[q] /\ pe'[r].priority # pe[r].priority)
      <4>1. \A x \in chain[q] : pe'[x].priority = pe[x].priority
          BY <1>0, <1>4, <3>4
      <4>2. pc[q] \in {"lr_up", "lr_pri"} => pc'[q] \in {"lr_up", "lr_pri"}
          BY <1>0, <1>4
      <4> QED
          BY <3>1, <3>2, <4>1, <4>2, FreshStays
    <3> QED
        BY <3>3, <3>4
  <2> QED
      BY <2>1, <2>2
<1>10. \A u \in Threads : Donor(u)'
  <2>1. Donor(t)'
      BY <1>0, <1>3, <1>4 DEF DonInv, Donor
  <2> QED
      BY <1>0, <1>3, <1>4, <2>1, OthersDonor
<1> QED
    BY <1>8, <1>9, <1>10 DEF DonInv

\* The rest of lock_acquire, and lock_try_acquire.  A thread that finds the
\* semaphore up donates to nobody.
LEMMA TakeDon ==
    ASSUME LockInv, Others, MaxInv, DonInv, NEW t \in Threads,
           \/ AcquireBene(t) \/ AcquireBeneElem(t) \/ AcquireDown(t)
           \/ AcquireHolder(t) \/ AcquireReturn(t) \/ TryAcquireHolder(t)
    PROVE  DonInv'
<1>0. /\ LockTypes /\ PriTypes /\ Alone /\ cur = t /\ Donor(t)
      /\ pc \in [Threads -> PCs] /\ lk \in [Threads -> Sems \cup {NULL}]
      /\ ret \in [Threads -> Backs] /\ holder \in [Locks -> Threads \cup {NULL}]
      /\ pe \in [Threads -> Elem] /\ bene \in [Threads -> Threads \cup {NULL}]
    BY DEF LockInv, LockTypes, Others, PriTypes, MaxInv, DonInv, AcquireBene, AcquireBeneElem,
           AcquireDown, AcquireHolder, AcquireReturn, TryAcquireHolder, At
<1>h. ASSUME NEW l \in Locks, NEW r \in Threads, pc[t] \in {"la_own", "lt_own"},
             holder' = [holder EXCEPT ![lk[t]] = t], holder[l] = r
      PROVE  holder'[l] = r
  <2>1. holder[lk[t]] = NULL
      BY <1>h DEF LockInv, Between
  <2> QED
      BY <1>0, <1>h, <2>1, DistinctAssumption
<1>r. ret[t] \notin {"la_push", "la_arg", "la_elem", "la_down", "la_wake", "la_own", "la_clr"}
    BY <1>0 DEF Backs, InAcquire
<1>1. CASE AcquireBene(t)
  <2>1. /\ pc[t] = "la_bene" /\ pc'[t] = "la_elem" /\ bene'[t] = holder[lk[t]]
        /\ \A u \in Threads : u # t => pc'[u] = pc[u] /\ bene'[u] = bene[u]
        /\ UNCHANGED <<priority, init_pri, chain, pe, holder, lk>>
      BY <1>0, <1>1 DEF AcquireBene, At, Goto, locVars
  <2>2. ASSUME NEW r \in Threads, t \in chain[r] PROVE Gives(t, r)'
    <3>1. Gives(t, r)
        BY <2>2 DEF DonInv, Given
    <3>2. holder[lk[t]] = r
        BY <1>0, <2>1, <3>1 DEF Gives, Alone, Brief
    <3> QED
        BY <2>1, <3>1, <3>2 DEF Gives, Offer, Pushed
  <2>3. Donor(t)'
      BY <2>1 DEF Donor
  <2> QED
      BY <1>0, <2>1, <2>2, <2>3, DonStep
<1>2. CASE AcquireBeneElem(t)
  <2>1. /\ pc[t] = "la_elem" /\ pc'[t] = "la_down"
        /\ \A u \in Threads : u # t => pc'[u] = pc[u]
        /\ UNCHANGED <<priority, init_pri, chain, pe, bene, holder, lk>>
      BY <1>0, <1>2 DEF AcquireBeneElem, At, Goto, locVars
  <2>2. ASSUME NEW r \in Threads, t \in chain[r] PROVE Gives(t, r)'
    <3>1. Gives(t, r)
        BY <2>2 DEF DonInv, Given
    <3>2. holder[lk[t]] = r
        BY <1>0, <2>1, <3>1 DEF Gives, Alone, Brief
    <3> QED
        BY <2>1, <3>1, <3>2 DEF Gives, Offer, Pushed
  <2>3. Donor(t)'
      BY <2>1 DEF Donor
  <2> QED
      BY <1>0, <2>1, <2>2, <2>3, DonStep
<1>3. CASE AcquireDown(t)
  <2>1. /\ pc[t] \in {"la_down", "la_wake"} /\ SemaDown(t, lk[t], "la_own", "la_wake")
        /\ UNCHANGED <<priority, init_pri, chain, pe, bene, holder, lk>>
      BY <1>3 DEF AcquireDown, At, donVars, locVars
  <2>2. lk[t] \in Locks
      BY <1>0, <2>1 DEF LockTypes, InAcquire
  <2>3. /\ pc'[t] = IF value[lk[t]] > 0 THEN "la_own" ELSE "la_wake"
        /\ \A u \in Threads : u # t => pc'[u] = pc[u]
    <3>1. CASE value[lk[t]] > 0
        BY <1>0, <2>1, <3>1 DEF SemaDown, Goto
    <3>2. CASE ~(value[lk[t]] > 0)
        BY <1>0, <2>1, <3>2 DEF SemaDown, Goto
    <3> QED
        BY <3>1, <3>2
  <2>4. ASSUME NEW r \in Threads, t \in chain[r] PROVE Gives(t, r)'
    <3>1. Gives(t, r)
        BY <2>4 DEF DonInv, Given
    <3>2. holder[lk[t]] = r
        BY <1>0, <2>1, <3>1 DEF Gives, Alone, Brief
    <3>3. value[lk[t]] = 0
        BY <2>2, <3>2 DEF LockInv, MutualExclusion, Owner
    <3> QED
        BY <2>1, <2>3, <3>1, <3>2, <3>3 DEF Gives, Offer, Pushed
  <2>5. Donor(t)'
      BY <2>3 DEF Donor
  <2> QED
      BY <1>0, <2>1, <2>3, <2>4, <2>5, DonStep
<1>4. CASE AcquireHolder(t)
  <2>1. /\ pc[t] = "la_own" /\ pc'[t] = "la_clr"
        /\ \A u \in Threads : u # t => pc'[u] = pc[u]
        /\ holder' = [holder EXCEPT ![lk[t]] = t]
        /\ UNCHANGED <<priority, init_pri, chain, pe, bene, lk>>
      BY <1>0, <1>4 DEF AcquireHolder, At, Goto, donVars, locVars
  <2>2. Donor(t)'
      BY <2>1 DEF Donor
  <2> QED
      BY <1>0, <1>h, <2>1, <2>2, FreeStep DEF Pushed
<1>5. CASE AcquireReturn(t)
  <2>1. /\ pc[t] = "la_clr" /\ pc'[t] = ret[t] /\ bene'[t] = NULL
        /\ \A u \in Threads : u # t => /\ pc'[u] = pc[u] /\ lk'[u] = lk[u]
                                       /\ bene'[u] = bene[u] /\ pe'[u] = pe[u]
        /\ UNCHANGED <<priority, init_pri, chain, holder>>
      BY <1>0, <1>5 DEF AcquireReturn, Return, At, Goto
  <2>2. Donor(t)'
      BY <1>r, <2>1 DEF Donor
  <2> QED
      BY <1>0, <2>1, <2>2, FreeStep DEF Pushed
<1>6. CASE TryAcquireHolder(t)
  <2>1. /\ pc[t] = "lt_own" /\ pc'[t] = ret[t]
        /\ \A u \in Threads : u # t => pc'[u] = pc[u] /\ lk'[u] = lk[u]
        /\ holder' = [holder EXCEPT ![lk[t]] = t]
        /\ UNCHANGED <<priority, init_pri, chain, pe, bene>>
      BY <1>0, <1>6 DEF TryAcquireHolder, Return, At, Goto, donVars
  <2>2. Donor(t)'
      BY <1>0, <1>r, <2>1 DEF Donor
  <2> QED
      BY <1>0, <1>h, <2>1, <2>2, FreeStep DEF Pushed
<1> QED
    BY <1>1, <1>2, <1>3, <1>4, <1>5, <1>6

\* A thread computes its own priority: it gives its own donations to nobody.
LEMMA OwnPriority ==
    ASSUME LockTypes, PriTypes, Alone, DonInv, NEW t \in Threads, cur = t,
           pc[t] \notin Pushed \cup {"lr_rel"}, NEW p \in Pris,
           init_pri'[t] = p, \A u \in Threads : u # t => init_pri'[u] = init_pri[u],
           priority' = [priority EXCEPT ![t] = UpdatedPriority(t, p)],
           UNCHANGED <<chain, bene, pe, holder>>,
           \A u \in Threads : u # t => pc'[u] = pc[u] /\ lk'[u] = lk[u],
           pc'[t] \notin {"la_arg", "la_push", "la_elem", "la_down", "la_wake", "la_own",
                          "la_clr"},
           bene[t] = NULL
    PROVE  DonInv'
<1>0. chain \in [Threads -> SUBSET Threads] /\ priority \in [Threads -> Pris]
    BY DEF PriTypes
<1>1. PICK n : n = UpdatedPriority(t, p)
    OBVIOUS
<1>2. priority'[t] = n /\ \A u \in Threads : u # t => priority'[u] = priority[u]
    BY <1>0, <1>1
<1>3. Given'
  <2> SUFFICES ASSUME NEW r \in Threads, NEW x \in chain[r] PROVE Gives(x, r)'
      BY DEF Given
  <2>1. x \in Threads /\ x # t /\ pe[x] = Offer(x)
      BY <1>0, NotLinked DEF DonInv, Given, Gives
  <2>2. pe'[x] = Offer(x)'
      BY <1>2, <2>1 DEF Offer
  <2>3. pc[t] # "lr_rel" /\ \A l \in Locks, q \in Threads : holder[l] = q => holder'[l] = q
      OBVIOUS
  <2> QED
      BY <2>1, <2>2, <2>3, OthersGive
<1>4. ASSUME NEW r \in Threads PROVE Fresh(r)'
  <2>1. CASE r = t
    <3>1. Updated(t)' = n
        BY <1>1 DEF Updated, UpdatedPriority
    <3> QED
        BY <1>2, <2>1, <3>1 DEF Fresh
  <2>2. CASE r # t
    <3>1. ~Pending(r)
        BY DEF Pending, Pushed
    <3> QED
        BY <1>2, <2>2, <3>1, FreshStays
  <2> QED
      BY <2>1, <2>2
<1>5. Donor(t)'
    BY DEF Donor
<1>6. \A u \in Threads : Donor(u)'
    BY <1>5, OthersDonor
<1> QED
    BY <1>3, <1>4, <1>6 DEF DonInv

\* lock_release.  The donations that are dropped are those for locks the thread does
\* not hold, so that what stays is what its donors still wait for.
LEMMA ReleaseDon ==
    ASSUME LockInv, Others, MaxInv, DonInv, NEW t \in Threads,
           ReleasePriorities(t) \/ ReleaseUp(t) \/ ReleaseReturn(t)
    PROVE  DonInv'
<1>0. /\ LockTypes /\ PriTypes /\ Alone /\ cur = t /\ Donor(t)
      /\ pc \in [Threads -> PCs] /\ lk \in [Threads -> Sems \cup {NULL}]
      /\ ret \in [Threads -> Backs] /\ chain \in [Threads -> SUBSET Threads]
      /\ pe \in [Threads -> Elem] /\ priority \in [Threads -> Pris]
      /\ init_pri \in [Threads -> Pris]
    BY DEF LockInv, LockTypes, Others, PriTypes, MaxInv, DonInv, ReleasePriorities, ReleaseUp,
           ReleaseReturn, At
<1>c. ASSUME NEW f, Crash(f) PROVE DonInv'
    BY <1>c, CrashDon DEF Crash, schedVars, locVars
<1>1. CASE ReleasePriorities(t) /\ ~Crash("dangling")
  <2>1. /\ pc[t] = "lr_rel" /\ pc'[t] = "lr_up"
        /\ chain'[t] = {x \in chain[t] : holder[pe[x].lock] = t}
        /\ \A u \in Threads : u # t => pc'[u] = pc[u] /\ chain'[u] = chain[u]
        /\ UNCHANGED <<cur, priority, init_pri, pe, bene, holder, lk>>
      BY <1>0, <1>1 DEF ReleasePriorities, At, Goto, schedVars, locVars
  <2>2. Given'
    <3> SUFFICES ASSUME NEW r \in Threads, NEW x \in chain'[r] PROVE Gives(x, r)'
        BY DEF Given
    <3>1. x \in chain[r] /\ x \in Threads /\ (r = t => holder[pe[x].lock] = t)
        BY <1>0, <2>1
    <3>2. Gives(x, r) /\ x # t
        BY <2>1, <3>1, NotLinked DEF DonInv, Given, Pushed
    <3>3. holder[lk[x]] = r
      <4>1. CASE r = t
          BY <3>1, <3>2, <4>1 DEF Gives, Offer
      <4>2. CASE r # t
          BY <1>0, <3>2, <4>2 DEF Gives, Alone, Brief
      <4> QED
          BY <4>1, <4>2
    <3> QED
        BY <2>1, <3>1, <3>2, <3>3 DEF Gives, Offer
  <2>3. ASSUME NEW r \in Threads PROVE Fresh(r)'
    <3>1. ~Pending(r)
        BY <1>0, <2>1 DEF Pending
    <3>2. CASE r # t
        BY <2>1, <3>1, <3>2, FreshStays
    <3>3. CASE r = t
      <4>1. priority[t] = Updated(t)
          BY <2>1, <3>1, <3>3 DEF DonInv, Fresh
      <4>2. PriTypes'
        <5>1. chain' \in [Threads -> SUBSET Threads]
            BY <1>1 DEF ReleasePriorities, PriTypes, Others
        <5> QED
            BY <1>0, <1>1, <2>1, <5>1 DEF ReleasePriorities, PriTypes, locVars
      <4>3. \/ Updated(t)' = init_pri[t]
            \/ \E x \in chain[t] : Updated(t)' = pe[x].priority
          BY <1>0, <2>1, <4>2, UpdatedIsMaxPrime DEF Updated
      <4>4. init_pri[t] <= Updated(t) /\ \A x \in chain[t] : pe[x].priority <= Updated(t)
          BY <1>0, UpdatedIsMax DEF Updated
      <4>5. Updated(t)' <= priority'[t]
          BY <2>1, <4>1, <4>3, <4>4
      <4> QED
          BY <2>1, <3>3, <4>5 DEF Fresh
    <3> QED
        BY <3>2, <3>3
  <2>4. Donor(t)'
      BY <1>0, <2>1 DEF Donor
  <2>5. \A u \in Threads : Donor(u)'
      BY <1>0, <2>1, <2>4, OthersDonor
  <2> QED
      BY <2>2, <2>3, <2>5 DEF DonInv
<1>2. CASE ReleaseUp(t)
  <2>1. /\ pc[t] = "lr_up" /\ pc'[t] = "lr_pri"
        /\ \A u \in Threads : u # t => pc'[u] = pc[u]
        /\ UNCHANGED <<priority, init_pri, chain, pe, bene, holder, lk>>
      BY <1>0, <1>2 DEF ReleaseUp, At, Goto, donVars, locVars
  <2>2. Donor(t)'
      BY <1>0, <2>1 DEF Donor
  <2> QED
      BY <1>0, <2>1, <2>2, FreeStep DEF Pushed
<1>3. CASE ReleaseReturn(t) /\ ~Crash("dangling")
  <2>1. /\ pc[t] = "lr_pri" /\ pc'[t] = ret[t]
        /\ \A u \in Threads : u # t => pc'[u] = pc[u] /\ lk'[u] = lk[u]
        /\ priority' = [priority EXCEPT ![t] = UpdatedPriority(t, init_pri[t])]
        /\ UNCHANGED <<init_pri, chain, pe, bene, holder>>
      BY <1>0, <1>3 DEF ReleaseReturn, Return, At, Goto, donVars
  <2>2. /\ ret[t] \notin {"la_arg", "la_push", "la_elem", "la_down", "la_wake", "la_own",
                          "la_clr"}
        /\ bene[t] = NULL
      BY <1>0, <2>1 DEF Donor, Backs, InAcquire
  <2>3. pc[t] \notin Pushed \cup {"lr_rel"} /\ init_pri[t] \in Pris
      BY <1>0, <2>1 DEF Pushed
  <2> QED
      BY <1>0, <2>1, <2>2, <2>3, OwnPriority
<1> QED
    BY <1>1, <1>2, <1>3, <1>c

\* The calls of threads.  A new thread has no donors.
LEMMA CallDon ==
    ASSUME LockInv, Others, QueueInv, MaxInv, Orderly, DonInv, NEW t \in Threads,
           \/ ThreadCall(t) \/ SemaDownRetry(t)
           \/ CreateAcquire(t) \/ CreateTid(t) \/ CreateNextTid(t) \/ CreateUnblock(t)
    PROVE  DonInv'
<1>0. /\ LockTypes /\ PriTypes /\ Alone /\ cur = t /\ Donor(t)
      /\ pc \in [Threads -> PCs] /\ lk \in [Threads -> Sems \cup {NULL}]
      /\ chain \in [Threads -> SUBSET Threads] /\ holder \in [Locks -> Threads \cup {NULL}]
      /\ priority \in [Threads -> Pris] /\ init_pri \in [Threads -> Pris]
      /\ pc[t] \in {"run", "sd_wake", "tc_lock", "tc_tid", "tc_inc", "tc_go"}
    BY DEF LockInv, LockTypes, Others, PriTypes, MaxInv, DonInv, SemaDownRetry, CreateAcquire,
           CreateTid, CreateNextTid, CreateUnblock, ThreadCall, LockAcquire, LockTryAcquire,
           LockRelease, ThreadSemaDown, ThreadSemaUp, ThreadSetPriority, ThreadCreate,
           ThreadExit, At
<1>c. ASSUME NEW f, Crash(f) PROVE DonInv'
    BY <1>c, CrashDon DEF Crash, schedVars, locVars
<1>f. /\ pc[t] \notin Pushed \cup {"lr_rel"} /\ bene[t] = NULL
      /\ pc[t] \notin {"lr_up", "lr_pri"}
    BY <1>0 DEF Pushed, Donor
\* Steps that leave the donations alone, and do not go on to donate.
<1>1. ASSUME NEW p, p \notin {"la_arg", "la_push"},
             pc' = pc \/ pc' = [pc EXCEPT ![t] = p],
             UNCHANGED <<priority, donVars>>, \A u \in Threads : u # t => lk'[u] = lk[u],
             \/ UNCHANGED holder
             \/ \E l \in Locks : /\ holder' = [holder EXCEPT ![l] = NULL] /\ holder[l] = t
                                 /\ pc' = [pc EXCEPT ![t] = "lr_rel"] /\ lk'[t] = l
      PROVE  DonInv'
  <2>1. /\ pc'[t] \notin {"la_arg", "la_push"} /\ \A u \in Threads : u # t => pc'[u] = pc[u]
        /\ UNCHANGED <<init_pri, chain, pe, bene>>
      BY <1>0, <1>1 DEF donVars
  <2>2. ASSUME NEW l \in Locks, NEW r \in Threads, holder[l] = r
        PROVE  holder'[l] = r \/ (r = t /\ pc'[t] = "lr_rel" /\ lk'[t] = l)
      BY <1>0, <1>1, <2>2
  <2>3. Donor(t)'
      BY <1>f, <2>1 DEF Donor
  <2> QED
      BY <1>0, <1>1, <1>f, <2>1, <2>2, <2>3, FreeStep
<1>2. CASE CreateAcquire(t) \/ \E l \in Locks : LockAcquire(t, l) \/ LockTryAcquire(t, l)
  <2>1. /\ \E p \in {"la_down", "la_pri", "lt_own"} : pc' = [pc EXCEPT ![t] = p]
        /\ UNCHANGED <<priority, donVars, holder>> /\ \A u \in Threads : u # t => lk'[u] = lk[u]
      BY <1>0, <1>2 DEF CreateAcquire, LockAcquire, LockTryAcquire, AcquireCheck, Call, Goto
  <2> QED
      BY <1>1, <2>1
<1>3. CASE CreateNextTid(t) \/ \E l \in Locks : LockRelease(t, l)
  <2>1. /\ pc' = [pc EXCEPT ![t] = "lr_rel"] /\ UNCHANGED <<priority, donVars>>
        /\ \A u \in Threads : u # t => lk'[u] = lk[u]
        /\ \E l \in Locks : holder' = [holder EXCEPT ![l] = NULL] /\ holder[l] = t /\ lk'[t] = l
      BY <1>0, <1>3, LocksAssumption DEF CreateNextTid, LockRelease, ReleaseHolder, Call, Goto
  <2>2. \E l \in Locks : /\ holder' = [holder EXCEPT ![l] = NULL] /\ holder[l] = t
                          /\ pc' = [pc EXCEPT ![t] = "lr_rel"] /\ lk'[t] = l
      BY <2>1
  <2> DEFINE p == "lr_rel"
  <2>3. p \notin {"la_arg", "la_push"} /\ pc' = [pc EXCEPT ![t] = p]
      BY <2>1
  <2> HIDE DEF p
  <2> QED
      BY <1>1, <2>1, <2>2, <2>3
<1>4. CASE CreateTid(t) \/ CreateUnblock(t) \/ ThreadExit(t)
           \/ \E s \in Semas : ThreadSemaUp(t, s)
  <2>1. /\ pc' = pc \/ \E p \in {"tc_inc", "run"} : pc' = [pc EXCEPT ![t] = p]
        /\ UNCHANGED <<priority, donVars, holder, lk>>
      BY <1>4 DEF CreateTid, CreateUnblock, ThreadExit, ThreadSemaUp, Goto, locVars
  <2> QED
      BY <1>1, <2>1
<1>5. CASE SemaDownRetry(t) \/ \E s \in Semas : ThreadSemaDown(t, s)
  <2>1. /\ \E p \in {"run", "sd_wake"} : pc' = [pc EXCEPT ![t] = p]
        /\ UNCHANGED <<priority, donVars, holder>> /\ \A u \in Threads : u # t => lk'[u] = lk[u]
      BY <1>0, <1>5 DEF SemaDownRetry, ThreadSemaDown, SemaDown, Goto
  <2> QED
      BY <1>1, <2>1
<1>6. ASSUME NEW p \in NewPris, ThreadSetPriority(t, p), ~Crash("dangling") PROVE DonInv'
  <2>1. /\ init_pri' = [init_pri EXCEPT ![t] = p]
        /\ priority' = [priority EXCEPT ![t] = UpdatedPriority(t, p)]
        /\ UNCHANGED <<chain, bene, pe, holder, pc, lk>> /\ pc[t] = "run"
      BY <1>6 DEF ThreadSetPriority, At, locVars
  <2>2. p \in Pris /\ init_pri'[t] = p /\ \A u \in Threads : u # t => init_pri'[u] = init_pri[u]
      BY <1>0, <2>1, PrisAssumption
  <2> QED
      BY <1>0, <1>f, <2>1, <2>2, OwnPriority
<1>7. ASSUME NEW u \in Threads, NEW p \in Pris, ThreadCreate(t, u, p) PROVE DonInv'
  <2>1. /\ pc[t] = "run" /\ status[u] = "none" /\ pc'[t] = "tc_lock"
        /\ \A x \in Threads : x # t => pc'[x] = pc[x]
        /\ priority'[u] = p /\ init_pri'[u] = p
        /\ \A x \in Threads : x # u => priority'[x] = priority[x] /\ init_pri'[x] = init_pri[x]
        /\ UNCHANGED <<cur, chain, bene, pe, holder, lk>>
      BY <1>0, <1>7 DEF ThreadCreate, At, Goto, locVars
  <2>2. /\ pc[u] = "run" /\ \A k \in Locks : holder[k] # u
      BY <2>1 DEF QueueInv, Queues, Newborn, Orderly, Order
  <2>3. chain[u] = {}
    <3> SUFFICES ASSUME NEW x \in chain[u] PROVE FALSE
        OBVIOUS
    <3>1. Gives(x, u) /\ x \in Threads
        BY <1>0 DEF DonInv, Given
    <3>2. lk[x] \in Locks
        BY <1>0, <3>1 DEF Gives, LockTypes, Pushed, InAcquire
    <3> QED
        BY <2>2, <3>1, <3>2 DEF Gives
  <2>4. Given'
    <3> SUFFICES ASSUME NEW r \in Threads, NEW x \in chain[r] PROVE Gives(x, r)'
        BY <2>1 DEF Given
    <3>1. x \in Threads /\ x # t /\ x # u /\ pe[x] = Offer(x)
        BY <1>0, <2>1, <2>2, NotLinked DEF DonInv, Given, Gives, Pushed
    <3>2. pe'[x] = Offer(x)'
        BY <2>1, <3>1 DEF Offer
    <3>3. \A l \in Locks, q \in Threads : holder[l] = q => holder'[l] = q
        BY <2>1
    <3> QED
        BY <1>0, <2>1, <3>1, <3>2, <3>3, OthersGive
  <2>5. ASSUME NEW r \in Threads PROVE Fresh(r)'
    <3>1. CASE r = u
      <4>1. Updated(u)' = MaxOf({p})
        <5>1. {p} \cup {pe'[x].priority : x \in chain'[u]} = {p}
            BY <2>1, <2>3
        <5> QED
            BY <2>1, <5>1 DEF Updated, UpdatedPriority
      <4>2. MaxOf({p}) = p
          BY MaxOfPris
      <4> QED
          BY <2>1, <3>1, <4>1, <4>2 DEF Fresh
    <3>2. CASE r # u
      <4>1. ~Pending(r)
          BY <1>0, <2>1 DEF Pending
      <4>2. pc[r] \in {"lr_up", "lr_pri"} => pc'[r] \in {"lr_up", "lr_pri"}
          BY <2>1
      <4> QED
          BY <2>1, <3>2, <4>1, <4>2, FreshStays
    <3> QED
        BY <3>1, <3>2
  <2>6. Donor(t)'
      BY <1>f, <2>1 DEF Donor
  <2>7. \A x \in Threads : Donor(x)'
      BY <1>0, <2>1, <2>6, OthersDonor
  <2> QED
      BY <2>4, <2>5, <2>7 DEF DonInv
<1>8. ASSUME NEW p \in NewPris, ThreadSetPriority(t, p) PROVE DonInv'
    BY <1>6, <1>8, <1>c
<1> QED
    BY <1>2, <1>3, <1>4, <1>5, <1>7, <1>8 DEF ThreadCall

LEMMA DonInit == Init => DonInv
<1> SUFFICES ASSUME Init PROVE DonInv
    OBVIOUS
<1>0. PriTypes
    BY TypeInvInit DEF TypeInv
<1>1. /\ \A r \in Threads : /\ chain[r] = {} /\ pc[r] = "run" /\ bene[r] = NULL
                            /\ priority[r] = init_pri[r]
    BY DEF Init
<1>2. ASSUME NEW r \in Threads PROVE Fresh(r)
  <2>1. init_pri[r] \in Pris
      BY <1>0 DEF PriTypes
  <2>2. UpdatedPriority(r, init_pri[r]) = init_pri[r]
      BY <1>0, <1>1, <2>1, UpdatedIsMax
  <2> QED
      BY <1>1, <2>2 DEF Fresh, Updated
<1> QED
    BY <1>1, <1>2 DEF DonInv, Given, Donor

LEMMA DonNext ==
    LockInv /\ Others /\ QueueInv /\ MaxInv /\ Orderly /\ DonInv /\ [ThreadStep]_vars => DonInv'
<1> SUFFICES ASSUME LockInv, Others, QueueInv, MaxInv, Orderly, DonInv, [ThreadStep]_vars
             PROVE  DonInv'
    OBVIOUS
<1>1. CASE UNCHANGED vars
    BY <1>1, CrashDon DEF vars, schedVars, locVars
<1>2. ASSUME NEW t \in Threads, KernelStep(t) PROVE DonInv'
    BY <1>2, OfferDon, UpdateDon, TakeDon, ReleaseDon, CallDon DEF KernelStep
<1>3. ASSUME NEW t \in Threads, ThreadCall(t) PROVE DonInv'
    BY <1>3, CallDon
<1> QED
    BY <1>1, <1>2, <1>3 DEF ThreadStep

AllInv == LockInv /\ Others /\ QueueInv /\ MaxInv /\ Orderly /\ DonInv

LEMMA DonInvHolds == UnpreemptedSpec => []AllInv
<1>1. Init => AllInv
    BY LockInvInit, TypeInvInit, QueueInit, MaxInit, OrderInit, DonInit DEF TypeInv, Others, AllInv
<1>2. [ThreadStep]_vars => [Next]_vars
    BY DEF ThreadStep, Next
<1>3. AllInv /\ [ThreadStep]_vars => AllInv'
    BY <1>2, LockInvNext, OthersNext, QueueNext, MaxNext, OrderNext, DonNext DEF AllInv
<1> QED
    BY <1>1, <1>3, PTL DEF UnpreemptedSpec, ThreadStep

\* No lock is held at a lower priority than that of a thread blocked on it while its
\* donation stands: the priority computed from a chain covers every elem on it, an
\* elem carries its donor's present priority, and thread_update_donation reaches
\* every holder on the way before lock_acquire blocks.
THEOREM DonationsCount == UnpreemptedSpec => []HolderIsBoosted
<1>1. AllInv => HolderIsBoosted
  <2> SUFFICES ASSUME AllInv, cur \in {t \in Threads : pc[t] = "run"}, NEW l \in Locks,
                      holder[l] # NULL, NEW t \in chain[holder[l]]
               PROVE  priority[t] <= priority[holder[l]]
      BY DEF HolderIsBoosted
  <2>0. /\ PriTypes /\ DonInv /\ priority \in [Threads -> Pris]
        /\ chain \in [Threads -> SUBSET Threads] /\ init_pri \in [Threads -> Pris]
        /\ holder \in [Locks -> Threads \cup {NULL}]
      BY DEF AllInv, Others, PriTypes, LockInv, LockTypes
  <2>1. PICK r \in Threads : r = holder[l]
      BY <2>0
  <2>2. pe[t].priority = priority[t] /\ t \in Threads /\ t \in chain[r]
    <3>1. t \in chain[r] /\ t \in Threads
        BY <2>0, <2>1
    <3>2. pe[t] = Offer(t)
        BY <2>0, <3>1 DEF DonInv, Given, Gives
    <3> QED
        BY <3>1, <3>2 DEF Offer
  <2>3. pe[t].priority <= Updated(r) /\ Updated(r) \in Pris
      BY <2>0, <2>1, UpdatedIsMax DEF Updated
  <2>4. Updated(r) <= priority[r] /\ ~Pending(r)
    <3>1. ~Pending(r)
        BY DEF Pending
    <3>2. Updated(r) \in 0..PRI_MAX
        BY <2>3, PrisAssumption
    <3> QED
        BY <2>0, <3>1, <3>2 DEF DonInv, Fresh, PRI_MAX
  <2>5. priority[t] \in 0..PRI_MAX /\ Updated(r) \in 0..PRI_MAX /\ priority[r] \in 0..PRI_MAX
      BY <2>0, <2>2, <2>3, PrisAssumption
  <2> QED
      BY <2>1, <2>2, <2>3, <2>4, <2>5 DEF PRI_MAX
<1> QED
    BY <1>1, DonInvHolds, PTL

\* A thread outside the kernel that holds no lock runs at the priority it was given:
\* all that was donated to it was donated for a lock, and went with it.
THEOREM DonationsReturn == UnpreemptedSpec => []DonationRecalled
<1>1. AllInv => DonationRecalled
  <2> SUFFICES ASSUME AllInv, NEW t \in Threads, pc[t] = "run", \A l \in Locks : holder[l] # t
               PROVE  priority[t] = init_pri[t]
      BY DEF DonationRecalled
  <2>0. /\ PriTypes /\ LockTypes /\ DonInv /\ init_pri[t] \in Pris
        /\ chain \in [Threads -> SUBSET Threads]
      BY DEF AllInv, Others, PriTypes, LockInv
  <2>1. chain[t] = {}
    <3> SUFFICES ASSUME NEW x \in chain[t] PROVE FALSE
        OBVIOUS
    <3>1. Gives(x, t) /\ x \in Threads
        BY <2>0 DEF DonInv, Given
    <3>2. lk[x] \in Locks
        BY <2>0, <3>1 DEF Gives, LockTypes, Pushed, InAcquire
    <3> QED
        BY <3>1, <3>2 DEF Gives
  <2>2. Updated(t) = init_pri[t]
      BY <2>0, <2>1, UpdatedIsMax DEF Updated
  <2>3. ~Pending(t)
      BY DEF Pending
  <2> QED
      BY <2>0, <2>2, <2>3 DEF DonInv, Fresh
<1> QED
    BY <1>1, DonInvHolds, PTL
=============================================================================
