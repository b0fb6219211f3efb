-------------------------- MODULE StackSemaProofs --------------------------
(***************************************************************************)
(* Proofs about the two modules whose threads wait on a semaphore in a     *)
(* stack frame of their own: a thread in cond_wait (Monitor) is owed       *)
(* exactly one wake-up, and a thread in timer_sleep (Alarm) is woken once, *)
(* not before its time, and by the first tick that reaches it.  The proofs *)
(* of Synch carry over, since its steps are steps of both.                 *)
(***************************************************************************)
EXTENDS Monitor, Alarm, SynchProofs

-----------------------------------------------------------------------------
(* Condition variables: the inductive invariant. *)

MonTypes ==
    /\ cond_waiters \in [Conds -> Seq(Threads)]
    /\ cv \in [Threads -> Conds \cup {NULL}]

\* The locals of the calls of condition variables, and where the calls they make
\* return to.
Control ==
    \A t \in Threads :
        /\ pc[t] = "cs_up" => rcp[t] \in Threads /\ ret[t] \in {"run", "cb_loop"}
        /\ pc[t] = "cb_loop" \/ ret[t] = "cb_loop" => cv[t] \in Conds
        /\ pc[t] \in {"cw_down", "cw_wake", "cw_lock"} => lk[t] \in Locks
        /\ ret[t] \in {"run", "cw_down", "cb_loop"} \cup InCreate
        /\ ret[t] = "cw_down" => pc[t] \in InRelease
        /\ ret[t] = "cb_loop" => pc[t] = "cs_up"

Listed(t) == \E c \in Conds : t \in ToSet(cond_waiters[c])

\* A waiting thread is on one list, or has one signaller, or its semaphore is up.
OneDebt ==
    /\ \A c \in Conds : IsInjective(cond_waiters[c])
    /\ \A t \in Threads :
          /\ \A c, d \in Conds :
                t \in ToSet(cond_waiters[c]) /\ t \in ToSet(cond_waiters[d]) => c = d
          /\ \A u, v \in Signallers(t) : u = v
          /\ value[t] = IF Waiting(t) /\ ~Listed(t) /\ Signallers(t) = {} THEN 1 ELSE 0
          /\ Listed(t) \/ Signallers(t) # {} => Waiting(t)
          /\ ~(Listed(t) /\ Signallers(t) # {})

MonInv == LockInv /\ Others /\ MonTypes /\ Control /\ OneDebt

LEMMA MonInit == MInit => MonInv
<1> SUFFICES ASSUME MInit PROVE MonInv
    OBVIOUS
<1>1. LockInv /\ Others
    BY LockInvInit, TypeInvInit DEF MInit, TypeInv, Others
<1>2. MonTypes
    BY EmptySeq DEF MInit, MonTypes
<1>3. Control
    BY DEF MInit, Init, Control
<1>4. \A c \in Conds : cond_waiters[c] = <<>> /\ ToSet(cond_waiters[c]) = {} /\ IsInjective(cond_waiters[c])
    BY DEF MInit, ToSet, IsInjective
<1>5. \A t \in Threads : value[t] = 0 /\ ~Waiting(t) /\ Signallers(t) = {}
    BY DistinctAssumption DEF MInit, Init, Sems, Waiting, Signallers, InRelease
<1>6. OneDebt
    BY <1>4, <1>5 DEF OneDebt, Listed
<1> QED
    BY <1>1, <1>2, <1>3, <1>6 DEF MonInv

-----------------------------------------------------------------------------
(* Steps of Synch. *)

LEMMA SynchControl ==
    ASSUME MonInv, [Next]_vars, UNCHANGED monVars, NEW t \in Threads
    PROVE  /\ Waiting(t)' <=> Waiting(t)
           /\ pc'[t] = "cs_up" <=> pc[t] = "cs_up"
           /\ pc[t] = "cs_up" => rcp'[t] = rcp[t]
<1>1. Moves(t)
    BY NextMoves DEF MonInv
<1>2. /\ ret[t] \in {"run", "cw_down", "cb_loop"} \cup InCreate
      /\ ret[t] = "cw_down" => pc[t] \in InRelease
      /\ ret[t] = "cb_loop" => pc[t] = "cs_up"
    BY DEF MonInv, Control
<1> QED
    BY <1>1, <1>2, SMTT(30) DEF Moves, Waiting, InAcquire, InRelease, InCreate

LEMMA SynchMonitor ==
    ASSUME MonInv, [Next]_vars, UNCHANGED monVars
    PROVE  MonInv'
<1>1. LockInv' /\ Others'
    BY LockInvNext, OthersNext DEF MonInv
<1>2. StackSemas /\ \A t \in Threads : Moves(t)
    BY NextMoves DEF MonInv
<1>3. MonTypes'
    BY DEF MonInv, MonTypes, monVars
<1>4. Control'
  <2> SUFFICES ASSUME NEW t \in Threads
               PROVE  /\ pc'[t] = "cs_up" => rcp'[t] \in Threads /\ ret'[t] \in {"run", "cb_loop"}
                      /\ pc'[t] = "cb_loop" \/ ret'[t] = "cb_loop" => cv'[t] \in Conds
                      /\ pc'[t] \in {"cw_down", "cw_wake", "cw_lock"} => lk'[t] \in Locks
                      /\ ret'[t] \in {"run", "cw_down", "cb_loop"} \cup InCreate
                      /\ ret'[t] = "cw_down" => pc'[t] \in InRelease
                      /\ ret'[t] = "cb_loop" => pc'[t] = "cs_up"
      BY DEF Control
  <2>1. Moves(t) /\ cv' = cv
      BY <1>2 DEF monVars
  <2>2. /\ pc[t] = "cs_up" => rcp[t] \in Threads /\ ret[t] \in {"run", "cb_loop"}
        /\ pc[t] = "cb_loop" \/ ret[t] = "cb_loop" => cv[t] \in Conds
        /\ pc[t] \in {"cw_down", "cw_wake", "cw_lock"} => lk[t] \in Locks
        /\ ret[t] \in {"run", "cw_down", "cb_loop"} \cup InCreate
        /\ ret[t] = "cw_down" => pc[t] \in InRelease
        /\ ret[t] = "cb_loop" => pc[t] = "cs_up"
      BY DEF MonInv, Control
  <2>3. pc[t] \in InRelease => lk[t] \in Locks
      BY DEF MonInv, LockInv, LockTypes
  <2> QED
      BY <2>1, <2>2, <2>3, SMTT(30) DEF Moves, InAcquire, InRelease, InCreate
<1>5. OneDebt'
  <2>1. ASSUME NEW t \in Threads
        PROVE  /\ Signallers(t)' = Signallers(t)
               /\ value'[t] = value[t] /\ (Waiting(t)' <=> Waiting(t))
      BY <1>2, SynchControl DEF Signallers, StackSemas
  <2>2. cond_waiters' = cond_waiters
      BY DEF monVars
  <2> QED
      BY <2>1, <2>2 DEF MonInv, OneDebt, Listed
<1> QED
    BY <1>1, <1>3, <1>4, <1>5 DEF MonInv

-----------------------------------------------------------------------------
(* cond_wait. *)

LEMMA CondWaitKeeps ==
    ASSUME MonInv, NEW t \in Threads, NEW c \in Conds, CondWait(t, c)
    PROVE  MonInv'
<1> DEFINE l == CondLock[c]
<1>0. l \in Locks
    BY CondAssumption
<1>1. /\ pc[t] = "run" /\ pc' = [pc EXCEPT ![t] = "lr_rel"]
      /\ holder[l] = t /\ holder' = [holder EXCEPT ![l] = NULL]
      /\ lk' = [lk EXCEPT ![t] = l] /\ ret' = [ret EXCEPT ![t] = "cw_down"]
      /\ value' = [value EXCEPT ![t] = 0] /\ waiters' = [waiters EXCEPT ![t] = <<>>]
      /\ cond_waiters' = [cond_waiters EXCEPT ![c] = Append(cond_waiters[c], t)]
      /\ UNCHANGED <<schedVars, priority, donVars, tidVars, rcp, fault, cv>>
    BY DEF CondWait, ReleaseHolder, Call, At, Goto
<1> HIDE DEF l
<1>2. LockInv'
  <2>1. value' \in [Sems -> Nat] /\ \A k \in Locks : value'[k] = value[k]
      BY <1>1, DistinctAssumption DEF MonInv, LockInv, LockTypes, Sems
  <2>2. ret' \in [Threads -> Backs]
      BY <1>1 DEF MonInv, LockInv, LockTypes, Backs, PCs, InCond, InAcquire, InRelease, WakePCs
  <2>3. pc[t] \notin Between \cup AskPCs
      BY <1>1 DEF Between, AskPCs, InAcquire
  <2> QED
      BY <1>0, <1>1, <2>1, <2>2, <2>3, UnholdStep DEF MonInv
<1>3. Others'
  <2>1. SchedTypes'
      BY <1>1, EmptySeq DEF MonInv, Others, SchedTypes, schedVars
  <2>2. PriTypes'
      BY <1>1, PriSame DEF MonInv, Others, LockInv
  <2>3. TidTypes'
      BY <1>1 DEF MonInv, LockInv, LockTypes, Others, TidTypes, tidVars, InCreate, InAcquire,
                  InRelease
  <2> QED
      BY <1>1, <2>1, <2>2, <2>3 DEF MonInv, Others
<1>4. ~Waiting(t) /\ ~Listed(t) /\ Signallers(t) = {}
    BY <1>1 DEF MonInv, OneDebt, Waiting, InRelease
<1>5. /\ cond_waiters[c] \in Seq(Threads) /\ IsInjective(cond_waiters[c])
      /\ t \notin ToSet(cond_waiters[c])
    BY <1>4 DEF MonInv, MonTypes, OneDebt, Listed
<1>6. /\ Append(cond_waiters[c], t) \in Seq(Threads)
      /\ ToSet(Append(cond_waiters[c], t)) = ToSet(cond_waiters[c]) \cup {t}
      /\ IsInjective(Append(cond_waiters[c], t))
    BY <1>5, AppendList
<1>7. /\ cond_waiters'[c] = Append(cond_waiters[c], t)
      /\ \A d \in Conds \ {c} : cond_waiters'[d] = cond_waiters[d]
    BY <1>1 DEF MonInv, MonTypes
<1>8. MonTypes'
    BY <1>1, <1>6 DEF MonInv, MonTypes
<1>9. /\ pc'[t] = "lr_rel" /\ ret'[t] = "cw_down" /\ lk'[t] = l /\ value'[t] = 0
      /\ \A u \in Threads \ {t} : UNCHANGED <<pc[u], ret[u], lk[u], rcp[u], value[u]>>
    BY <1>1 DEF MonInv, LockInv, LockTypes, Sems
<1>10. Control'
    BY <1>0, <1>1, <1>9 DEF MonInv, Control, InRelease
<1>11. OneDebt'
  <2>1. Waiting(t)' /\ \A u \in Threads \ {t} : Waiting(u)' <=> Waiting(u)
      BY <1>9 DEF Waiting, InRelease
  <2>2. \A u \in Threads : Signallers(u)' = Signallers(u)
      BY <1>1, <1>9 DEF Signallers
  <2>3. Listed(t)' /\ \A u \in Threads \ {t} : Listed(u)' <=> Listed(u)
      BY <1>6, <1>7 DEF Listed
  <2>4. \A d \in Conds : IsInjective(cond_waiters'[d])
      BY <1>6, <1>7 DEF MonInv, OneDebt
  <2>5. ASSUME NEW u \in Threads, NEW d \in Conds, NEW e \in Conds,
               u \in ToSet(cond_waiters'[d]), u \in ToSet(cond_waiters'[e])
        PROVE  d = e
    <3>1. CASE u = t
        BY <2>5, <3>1, <1>4, <1>7 DEF Listed
    <3>2. CASE u # t
        BY <2>5, <3>2, <1>6, <1>7 DEF MonInv, OneDebt
    <3> QED
        BY <3>1, <3>2
  <2>6. ASSUME NEW u \in Threads
        PROVE  /\ \A v, w \in Signallers(u)' : v = w
               /\ value'[u] = IF Waiting(u)' /\ ~Listed(u)' /\ Signallers(u)' = {} THEN 1 ELSE 0
               /\ Listed(u)' \/ Signallers(u)' # {} => Waiting(u)'
               /\ ~(Listed(u)' /\ Signallers(u)' # {})
    <3>1. CASE u = t
        BY <3>1, <1>4, <1>9, <2>1, <2>2, <2>3
    <3>2. CASE u # t
        BY <3>2, <1>9, <2>1, <2>2, <2>3 DEF MonInv, OneDebt
    <3> QED
        BY <3>1, <3>2
  <2> QED
      BY <2>4, <2>5, <2>6 DEF OneDebt
<1> QED
    BY <1>2, <1>3, <1>8, <1>10, <1>11 DEF MonInv

LEMMA CondDownKeeps ==
    ASSUME MonInv, NEW t \in Threads, CondWaitDown(t)
    PROVE  MonInv'
<1>1. /\ pc[t] \in {"cw_down", "cw_wake"} /\ SemaDown(t, t, "cw_lock", "cw_wake")
      /\ UNCHANGED <<priority, donVars, holder, tidVars, lk, ret, rcp, fault, cond_waiters, cv>>
    BY DEF CondWaitDown, At, locVars, monVars
<1>2. t \in Sems /\ t \notin Locks /\ value[t] \in {0, 1}
    BY DistinctAssumption DEF Sems, MonInv, OneDebt
<1>3. \/ value[t] = 1 /\ value' = [value EXCEPT ![t] = 0] /\ pc' = [pc EXCEPT ![t] = "cw_lock"]
      \/ value[t] = 0 /\ value' = value /\ pc' = [pc EXCEPT ![t] = "cw_wake"]
    BY <1>1, <1>2 DEF SemaDown, Goto
<1>4. LockInv'
  <2>1. lk' = [lk EXCEPT ![t] = lk[t]] /\ lk[t] \in Sems \cup {NULL}
      BY <1>1 DEF MonInv, LockInv, LockTypes
  <2>2. value' \in [Sems -> Nat] /\ \A l \in Locks : value'[l] = value[l]
      BY <1>2, <1>3 DEF MonInv, LockInv, LockTypes, Sems
  <2>3. ret' \in [Threads -> Backs]
      BY <1>1 DEF MonInv, LockInv, LockTypes
  <2>4. /\ \A q \in {"cw_lock", "cw_wake"} : q \in PCs \ Between /\ q \notin InAcquire \cup InRelease
        /\ pc[t] \notin Between /\ pc[t] \notin AskPCs
      BY <1>1 DEF PCs, InCond, Between, AskPCs, InAcquire, InRelease
  <2> QED
      BY <1>1, <1>3, <2>1, <2>2, <2>3, <2>4, OutsideStep DEF MonInv
<1>5. Others'
  <2>1. SchedTypes'
      BY <1>1, <1>2, SemaDownType DEF MonInv, Others, PriTypes
  <2>2. PriTypes'
      BY <1>1, <1>3, PriSame DEF MonInv, Others, LockInv
  <2>3. TidTypes'
      BY <1>1, <1>3 DEF MonInv, LockInv, LockTypes, Others, TidTypes, tidVars, InCreate,
                  InAcquire, InRelease
  <2> QED
      BY <1>1, <2>1, <2>2, <2>3 DEF MonInv, Others
<1>6. /\ \/ value[t] = 1 /\ value'[t] = 0 /\ pc'[t] = "cw_lock"
         \/ value[t] = 0 /\ value'[t] = 0 /\ pc'[t] = "cw_wake"
      /\ \A u \in Threads \ {t} : UNCHANGED <<pc[u], value[u]>>
    BY <1>2, <1>3 DEF MonInv, LockInv, LockTypes, Sems
<1>7. MonTypes'
    BY <1>1 DEF MonInv, MonTypes
<1>8. Control'
    BY <1>1, <1>6 DEF MonInv, Control, InRelease
<1>9. OneDebt'
  <2>1. \A u \in Threads : Signallers(u)' = Signallers(u) /\ (Listed(u)' <=> Listed(u))
      BY <1>1, <1>6 DEF Signallers, Listed
  <2>2. \A u \in Threads \ {t} : Waiting(u)' <=> Waiting(u)
      BY <1>1, <1>6 DEF Waiting
  <2>3. Waiting(t) /\ (Waiting(t)' <=> pc'[t] = "cw_wake")
      BY <1>1, <1>6 DEF Waiting, InRelease
  <2> QED
      BY <1>1, <1>6, <2>1, <2>2, <2>3 DEF MonInv, OneDebt
<1> QED
    BY <1>4, <1>5, <1>7, <1>8, <1>9 DEF MonInv

LEMMA CondAcquireKeeps ==
    ASSUME MonInv, NEW t \in Threads, CondWaitAcquire(t)
    PROVE  MonInv'
<1> DEFINE p == IF holder[lk[t]] = NULL THEN "la_down" ELSE "la_pri"
<1>1. /\ pc[t] = "cw_lock" /\ pc' = [pc EXCEPT ![t] = p]
      /\ lk' = [lk EXCEPT ![t] = lk[t]] /\ ret' = [ret EXCEPT ![t] = "run"]
      /\ UNCHANGED <<schedVars, priority, donVars, holder, value, waiters, tidVars, rcp, fault,
                     cond_waiters, cv>>
    BY DEF CondWaitAcquire, AcquireCheck, Call, At, Goto, semVars, monVars
<1>2. p \in {"la_down", "la_pri"} /\ lk[t] \in Locks
    BY <1>1 DEF MonInv, Control
<1> HIDE DEF p
<1>3. LockInv'
  <2>1. lk[t] \in Sems \cup {NULL}
      BY <1>2 DEF Sems
  <2>2. value' \in [Sems -> Nat] /\ \A l \in Locks : value'[l] = value[l]
      BY <1>1 DEF MonInv, LockInv, LockTypes
  <2>3. ret' \in [Threads -> Backs]
      BY <1>1 DEF MonInv, LockInv, LockTypes, Backs, PCs, InAcquire, InRelease, WakePCs
  <2>4. p \in PCs \ Between /\ pc[t] \notin Between /\ pc[t] \notin AskPCs /\ p # "sd_wake"
      BY <1>1, <1>2 DEF PCs, Between, AskPCs, InAcquire
  <2> QED
      BY <1>1, <1>2, <2>1, <2>2, <2>3, <2>4, OutsideStep DEF MonInv
<1>4. Others'
  <2>1. SchedTypes'
      BY <1>1, SchedSame DEF MonInv, Others
  <2>2. PriTypes'
      BY <1>1, <1>2, PriSame DEF MonInv, Others, LockInv
  <2>3. TidTypes'
      BY <1>1, <1>2 DEF MonInv, LockInv, LockTypes, Others, TidTypes, tidVars, InCreate,
                  InAcquire, InRelease
  <2> QED
      BY <1>1, <2>1, <2>2, <2>3 DEF MonInv, Others
<1>5. /\ pc'[t] = p /\ ret'[t] = "run"
      /\ \A u \in Threads \ {t} : UNCHANGED <<pc[u], ret[u], lk[u]>>
    BY <1>1 DEF MonInv, LockInv, LockTypes
<1>6. MonTypes'
    BY <1>1 DEF MonInv, MonTypes
<1>7. Control'
    BY <1>1, <1>2, <1>5 DEF MonInv, Control, InRelease
<1>8. OneDebt'
  <2>1. \A u \in Threads : Signallers(u)' = Signallers(u) /\ (Listed(u)' <=> Listed(u))
      BY <1>1, <1>2, <1>5 DEF Signallers, Listed
  <2>2. \A u \in Threads : Waiting(u)' <=> Waiting(u)
      BY <1>1, <1>2, <1>5 DEF Waiting, InRelease
  <2> QED
      BY <1>1, <2>1, <2>2 DEF MonInv, OneDebt
<1> QED
    BY <1>3, <1>4, <1>6, <1>7, <1>8 DEF MonInv

-----------------------------------------------------------------------------
(* cond_signal and cond_broadcast. *)

\* list_max with sema_less returns an element of the list.
LEMMA CondMaxPlace ==
    ASSUME waiters \in [Sems -> Seq(Threads)], priority \in [Threads -> Pris],
           NEW list \in Seq(Threads), list # <<>>
    PROVE  CondMax(list) \in 1..Len(list)
<1> DEFINE B == {i \in DOMAIN list : waiters[list[i]] # <<>>}
           q(i) == priority[Last(waiters[list[i]])]
           Best(i) == \A j \in B : q(j) <= q(i) /\ (q(j) = q(i) => j <= i)
           Q == {q(i) : i \in B}
<1>1. /\ Len(list) \in Nat /\ DOMAIN list = 1..Len(list) /\ 1 \in 1..Len(list)
      /\ \A i \in 1..Len(list) : list[i] \in Threads
    BY EmptySeq, LenProperties, ElementOfSeq
<1>2. CondMax(list) = IF 1 \notin B THEN 1 ELSE CHOOSE i \in B : Best(i)
    BY DEF CondMax
<1>3. CASE 1 \notin B
    BY <1>1, <1>2, <1>3
<1>4. CASE 1 \in B
  <2>1. ASSUME NEW i \in B PROVE q(i) \in 0..PRI_MAX
    <3>1. waiters[list[i]] \in Seq(Threads) /\ waiters[list[i]] # <<>>
        BY <1>1 DEF Sems
    <3>2. Last(waiters[list[i]]) \in Threads
        BY <3>1, EmptySeq, LenProperties, ElementOfSeq DEF Last
    <3> QED
        BY <3>2, PrisAssumption
  <2>2. Q \subseteq 0..PRI_MAX /\ Q # {} /\ PRI_MAX \in Nat
      BY <1>4, <2>1 DEF PRI_MAX
  <2>3. B \subseteq 1..Len(list)
      BY <1>1
  <2> HIDE DEF B, q
  <2>4. PICK x \in Q : \A y \in Q : y <= x
    <3> HIDE DEF Q
    <3> QED
        BY <2>2, GreatestExists
  <2> DEFINE T == {i \in B : q(i) = x}
  <2>5. T \subseteq 0..Len(list) /\ T # {}
      BY <2>3, <2>4
  <2>6. PICK i \in T : \A j \in T : j <= i
    <3> HIDE DEF T
    <3> QED
        BY <1>1, <2>5, GreatestExists
  <2>7. i \in B /\ Best(i)
      BY <2>4, <2>6
  <2> HIDE DEF Best
  <2>8. CondMax(list) \in B
      BY <1>2, <1>4, <2>7
  <2> QED
      BY <2>3, <2>8
<1> QED
    BY <1>3, <1>4

LEMMA SignalRemoveKeeps ==
    ASSUME MonInv, NEW t \in Threads, NEW c \in Conds, NEW back \in {"run", "cb_loop"},
           pc[t] \in {"run", "cb_loop"}, SignalRemove(t, c, back),
           cv' \in [Threads -> Conds \cup {NULL}],
           back = "cb_loop" => cv'[t] \in Conds,
           \A u \in Threads \ {t} : cv'[u] = cv[u]
    PROVE  MonInv'
<1> DEFINE list == cond_waiters[c]
           i == CondMax(list)
<1>1. /\ list # <<>> /\ pc' = [pc EXCEPT ![t] = "cs_up"]
      /\ cond_waiters' = [cond_waiters EXCEPT ![c] = RemoveAt(list, i)]
      /\ rcp' = [rcp EXCEPT ![t] = list[i]] /\ ret' = [ret EXCEPT ![t] = back]
      /\ UNCHANGED <<schedVars, priority, donVars, holder, value, waiters, tidVars, lk, fault>>
    BY DEF SignalRemove, Goto, semVars
<1>2. list \in Seq(Threads) /\ IsInjective(list)
    BY DEF MonInv, MonTypes, OneDebt
<1>3. i \in 1..Len(list)
    BY <1>1, <1>2, CondMaxPlace DEF MonInv, Others, SchedTypes, PriTypes
<1> HIDE DEF i
<1>w. PICK w \in Threads : w = list[i]
    BY <1>2, <1>3, ElementOfSeq
<1>4. /\ w \in ToSet(list) /\ rcp' = [rcp EXCEPT ![t] = w]
      /\ RemoveAt(list, i) \in Seq(Threads) /\ IsInjective(RemoveAt(list, i))
      /\ ToSet(RemoveAt(list, i)) = ToSet(list) \ {w}
  <2>1. list[i] \in ToSet(list)
      BY <1>2, <1>3, ListElements
  <2>2. /\ RemoveAt(list, i) \in Seq(Threads) /\ IsInjective(RemoveAt(list, i))
        /\ ToSet(RemoveAt(list, i)) = ToSet(list) \ {list[i]}
      BY <1>2, <1>3, RemoveAtList
  <2> QED
      BY <1>1, <1>w, <2>1, <2>2
<1>5. /\ cond_waiters'[c] = RemoveAt(list, i)
      /\ \A d \in Conds \ {c} : cond_waiters'[d] = cond_waiters[d]
    BY <1>1 DEF MonInv, MonTypes
<1> HIDE DEF list
<1>6. LockInv'
  <2>1. lk' = [lk EXCEPT ![t] = lk[t]] /\ lk[t] \in Sems \cup {NULL}
      BY <1>1 DEF MonInv, LockInv, LockTypes
  <2>2. value' \in [Sems -> Nat] /\ \A l \in Locks : value'[l] = value[l]
      BY <1>1 DEF MonInv, LockInv, LockTypes
  <2>3. ret' \in [Threads -> Backs]
      BY <1>1 DEF MonInv, LockInv, LockTypes, Backs, PCs, InCond, InAcquire, InRelease, WakePCs
  <2>4. /\ "cs_up" \in PCs \ Between /\ "cs_up" \notin InAcquire \cup InRelease
        /\ pc[t] \notin Between /\ pc[t] \notin AskPCs
      BY DEF PCs, InCond, Between, AskPCs, InAcquire, InRelease
  <2> QED
      BY <1>1, <2>1, <2>2, <2>3, <2>4, OutsideStep DEF MonInv
<1>7. Others'
  <2>1. SchedTypes'
      BY <1>1, SchedSame DEF MonInv, Others
  <2>2. PriTypes'
      BY <1>1, <1>4 DEF MonInv, Others, PriTypes, LockInv, LockTypes, donVars
  <2>3. TidTypes'
      BY <1>1 DEF MonInv, LockInv, LockTypes, Others, TidTypes, tidVars, InCreate, InAcquire,
                  InRelease
  <2> QED
      BY <1>1, <2>1, <2>2, <2>3 DEF MonInv, Others
<1>8. /\ pc'[t] = "cs_up" /\ rcp'[t] = w /\ ret'[t] = back
      /\ \A u \in Threads \ {t} : UNCHANGED <<pc[u], ret[u], rcp[u]>>
    BY <1>1, <1>4 DEF MonInv, LockInv, LockTypes, Others, PriTypes
<1>9. MonTypes'
    BY <1>1, <1>4 DEF MonInv, MonTypes
<1>10. Control'
    BY <1>1, <1>4, <1>8 DEF MonInv, Control
<1>11. OneDebt'
  <2>1. \A u \in Threads : Waiting(u)' <=> Waiting(u)
      BY <1>1, <1>8 DEF Waiting, InRelease
  <2>2. Signallers(w) = {} /\ Waiting(w)
      BY <1>4 DEF MonInv, OneDebt, Listed, list
  <2>3. /\ Signallers(w)' = {t}
        /\ \A u \in Threads \ {w} : Signallers(u)' = Signallers(u)
      BY <1>1, <1>8, <2>2 DEF Signallers
  <2>4. /\ ~Listed(w)'
        /\ \A u \in Threads \ {w} : Listed(u)' <=> Listed(u)
    <3>1. \A d \in Conds : w \in ToSet(cond_waiters[d]) => d = c
        BY <1>4 DEF MonInv, OneDebt, list
    <3> QED
        BY <3>1, <1>4, <1>5 DEF Listed, list
  <2>5. \A d \in Conds : IsInjective(cond_waiters'[d])
      BY <1>4, <1>5 DEF MonInv, OneDebt
  <2>6. \A d \in Conds : ToSet(cond_waiters'[d]) \subseteq ToSet(cond_waiters[d])
      BY <1>4, <1>5 DEF list
  <2>7. ASSUME NEW u \in Threads
        PROVE  /\ \A v, x \in Signallers(u)' : v = x
               /\ value'[u] = IF Waiting(u)' /\ ~Listed(u)' /\ Signallers(u)' = {} THEN 1 ELSE 0
               /\ Listed(u)' \/ Signallers(u)' # {} => Waiting(u)'
               /\ ~(Listed(u)' /\ Signallers(u)' # {})
    <3>1. CASE u = w
      <4>1. value[w] = 0
          BY <1>4 DEF MonInv, OneDebt, Listed, list
      <4> QED
          BY <3>1, <4>1, <1>1, <2>1, <2>2, <2>3, <2>4
    <3>2. CASE u # w
        BY <3>2, <1>1, <2>1, <2>3, <2>4 DEF MonInv, OneDebt
    <3> QED
        BY <3>1, <3>2
  <2>8. \A u \in Threads : \A d, e \in Conds :
            u \in ToSet(cond_waiters'[d]) /\ u \in ToSet(cond_waiters'[e]) => d = e
      BY <2>6 DEF MonInv, OneDebt
  <2> QED
      BY <2>5, <2>7, <2>8 DEF OneDebt
<1> QED
    BY <1>6, <1>7, <1>9, <1>10, <1>11 DEF MonInv

LEMMA SignalUpKeeps ==
    ASSUME MonInv, NEW t \in Threads, SignalUp(t)
    PROVE  MonInv'
<1>0. PICK w \in Threads : w = rcp[t]
    BY DEF SignalUp, At, MonInv, Control
<1> DEFINE p == ret[t]
<1>1. /\ pc[t] = "cs_up" /\ SemaUp(w) /\ pc' = [pc EXCEPT ![t] = p]
      /\ ret' = [ret EXCEPT ![t] = "run"] /\ rcp' = [rcp EXCEPT ![t] = NULL]
      /\ value' = [value EXCEPT ![w] = @ + 1]
      /\ UNCHANGED <<priority, donVars, holder, tidVars, lk, fault, cond_waiters, cv>>
    BY <1>0 DEF SignalUp, SemaUp, At, Goto, monVars
<1>2. p \in {"run", "cb_loop"} /\ w \in Sems /\ w \notin Locks
    BY <1>1, DistinctAssumption DEF MonInv, Control, Sems
<1>3. p = "cb_loop" => cv[t] \in Conds
    BY DEF MonInv, Control
<1> HIDE DEF p
<1>4. LockInv'
  <2>1. lk' = [lk EXCEPT ![t] = lk[t]] /\ lk[t] \in Sems \cup {NULL}
      BY <1>1 DEF MonInv, LockInv, LockTypes
  <2>2. value' \in [Sems -> Nat] /\ \A l \in Locks : value'[l] = value[l]
      BY <1>1, <1>2 DEF MonInv, LockInv, LockTypes, Sems
  <2>3. ret' \in [Threads -> Backs]
      BY <1>1 DEF MonInv, LockInv, LockTypes, Backs, PCs, InAcquire, InRelease, WakePCs
  <2>4. /\ p \in PCs \ Between /\ p \notin InAcquire \cup InRelease /\ p # "sd_wake"
        /\ pc[t] \notin Between /\ pc[t] \notin AskPCs
      BY <1>1, <1>2 DEF PCs, InCond, Between, AskPCs, InAcquire, InRelease
  <2> QED
      BY <1>1, <2>1, <2>2, <2>3, <2>4, OutsideStep DEF MonInv
<1>5. Others'
  <2>1. SchedTypes'
      BY <1>1, <1>2, SemaUpType DEF MonInv, Others, PriTypes
  <2>2. PriTypes'
      BY <1>1, <1>2 DEF MonInv, Others, PriTypes, LockInv, LockTypes, donVars
  <2>3. TidTypes'
      BY <1>1, <1>2 DEF MonInv, LockInv, LockTypes, Others, TidTypes, tidVars, InCreate,
                  InAcquire, InRelease
  <2> QED
      BY <1>1, <2>1, <2>2, <2>3 DEF MonInv, Others
<1>6. /\ pc'[t] = p /\ ret'[t] = "run"
      /\ \A u \in Threads \ {t} : UNCHANGED <<pc[u], ret[u], rcp[u]>>
    BY <1>1 DEF MonInv, LockInv, LockTypes, Others, PriTypes
<1>7. MonTypes'
    BY <1>1 DEF MonInv, MonTypes
<1>8. Control'
    BY <1>1, <1>2, <1>3, <1>6 DEF MonInv, Control
<1>9. OneDebt'
  <2>1. \A u \in Threads : Waiting(u)' <=> Waiting(u)
      BY <1>1, <1>2, <1>6 DEF Waiting, InRelease
  <2>2. t \in Signallers(w)
      BY <1>0, <1>1 DEF Signallers
  <2>3. Signallers(w) = {t} /\ Waiting(w) /\ ~Listed(w) /\ value[w] = 0
      BY <1>2, <2>2 DEF MonInv, OneDebt
  <2>4. \A u \in Threads : Signallers(u)' = Signallers(u) \ {t}
      BY <1>1, <1>2, <1>6 DEF Signallers
  <2>5. \A u \in Threads \ {w} : t \notin Signallers(u)
      BY <1>0 DEF Signallers
  <2>6. \A u \in Threads : Listed(u)' <=> Listed(u)
      BY <1>1 DEF Listed
  <2>7. value'[w] = 1 /\ \A u \in Threads \ {w} : value'[u] = value[u]
      BY <1>1, <1>2, <2>3 DEF MonInv, LockInv, LockTypes, Sems
  <2>8. ASSUME NEW u \in Threads
        PROVE  /\ \A v, x \in Signallers(u)' : v = x
               /\ value'[u] = IF Waiting(u)' /\ ~Listed(u)' /\ Signallers(u)' = {} THEN 1 ELSE 0
               /\ Listed(u)' \/ Signallers(u)' # {} => Waiting(u)'
               /\ ~(Listed(u)' /\ Signallers(u)' # {})
    <3>1. CASE u = w
      <4>1. Signallers(w)' = {}
          BY <1>2, <2>3, <2>4
      <4> QED
          BY <3>1, <4>1, <2>1, <2>3, <2>6, <2>7
    <3>2. CASE u # w
      <4>1. Signallers(u)' = Signallers(u)
          BY <3>2, <2>4, <2>5
      <4> QED
          BY <3>2, <4>1, <2>1, <2>6, <2>7 DEF MonInv, OneDebt
    <3> QED
        BY <3>1, <3>2
  <2> QED
      BY <1>1, <2>8 DEF MonInv, OneDebt
<1> QED
    BY <1>4, <1>5, <1>7, <1>8, <1>9 DEF MonInv

\* cond_broadcast leaves its loop.
LEMMA LoopEndKeeps ==
    ASSUME MonInv, NEW t \in Threads, pc[t] = "cb_loop", pc' = [pc EXCEPT ![t] = "run"],
           cv' = [cv EXCEPT ![t] = NULL],
           UNCHANGED <<schedVars, priority, donVars, holder, value, waiters, tidVars, lk, ret,
                       rcp, fault, cond_waiters>>
    PROVE  MonInv'
<1>1. LockInv'
  <2>1. lk' = [lk EXCEPT ![t] = lk[t]] /\ lk[t] \in Sems \cup {NULL}
      BY DEF MonInv, LockInv, LockTypes
  <2>2. /\ value' \in [Sems -> Nat] /\ \A l \in Locks : value'[l] = value[l]
        /\ ret' \in [Threads -> Backs]
      BY DEF MonInv, LockInv, LockTypes
  <2>3. /\ "run" \in PCs \ Between /\ "run" \notin InAcquire \cup InRelease
        /\ pc[t] \notin Between /\ pc[t] \notin AskPCs
      BY DEF PCs, Between, AskPCs, InAcquire, InRelease
  <2> QED
      BY <2>1, <2>2, <2>3, OutsideStep DEF MonInv
<1>2. Others'
  <2>1. SchedTypes' /\ PriTypes'
      BY SchedSame, PriSame DEF MonInv, Others, LockInv
  <2>2. TidTypes'
      BY DEF MonInv, LockInv, LockTypes, Others, TidTypes, tidVars, InCreate, InAcquire, InRelease
  <2> QED
      BY <2>1, <2>2 DEF MonInv, Others
<1>3. /\ pc'[t] = "run" /\ ret[t] = "run"
      /\ \A u \in Threads \ {t} : pc'[u] = pc[u] /\ cv'[u] = cv[u]
    BY DEF MonInv, LockInv, LockTypes, MonTypes, Others, TidTypes, InAcquire, InRelease
<1>4. MonTypes' /\ Control'
    BY <1>3 DEF MonInv, MonTypes, Control
<1>5. OneDebt'
  <2>1. \A u \in Threads : Signallers(u)' = Signallers(u) /\ (Listed(u)' <=> Listed(u))
      BY <1>3 DEF Signallers, Listed
  <2>2. \A u \in Threads : Waiting(u)' <=> Waiting(u)
      BY <1>3 DEF Waiting, InRelease
  <2>3. cond_waiters' = cond_waiters /\ value' = value
      OBVIOUS
  <2> QED
      BY <2>1, <2>2, <2>3 DEF MonInv, OneDebt
<1> QED
    BY <1>1, <1>2, <1>4, <1>5 DEF MonInv

-----------------------------------------------------------------------------
(* The theorems. *)

LEMMA MonNext == MonInv /\ [MNext]_mvars => MonInv'
<1> SUFFICES ASSUME MonInv, [MNext]_mvars PROVE MonInv'
    OBVIOUS
<1>0. cv \in [Threads -> Conds \cup {NULL}]
    BY DEF MonInv, MonTypes
<1>1. CASE UNCHANGED mvars \/ (Next /\ UNCHANGED monVars)
    BY <1>1, SynchMonitor DEF mvars
<1>2. ASSUME NEW t \in Threads, NEW c \in Conds, CondWait(t, c) PROVE MonInv'
    BY <1>2, CondWaitKeeps
<1>3. ASSUME NEW t \in Threads, NEW c \in Conds, CondSignal(t, c) PROVE MonInv'
    BY <1>0, <1>3, SignalRemoveKeeps DEF CondSignal, At
<1>4. ASSUME NEW t \in Threads, NEW c \in Conds, CondBroadcast(t, c) PROVE MonInv'
  <2>1. /\ pc[t] = "run" /\ SignalRemove(t, c, "cb_loop")
        /\ cv' \in [Threads -> Conds \cup {NULL}] /\ cv'[t] \in Conds
        /\ \A u \in Threads \ {t} : cv'[u] = cv[u]
      BY <1>0, <1>4 DEF CondBroadcast, At
  <2> QED
      BY <2>1, SignalRemoveKeeps
<1>5. ASSUME NEW t \in Threads, CondWaitDown(t) \/ CondWaitAcquire(t) \/ SignalUp(t) PROVE MonInv'
    BY <1>5, CondDownKeeps, CondAcquireKeeps, SignalUpKeeps
<1>6. ASSUME NEW t \in Threads, BroadcastLoop(t) PROVE MonInv'
  <2>1. pc[t] = "cb_loop" /\ cv[t] \in Conds
      BY <1>6 DEF BroadcastLoop, At, MonInv, Control
  <2>2. CASE SignalRemove(t, cv[t], "cb_loop") /\ UNCHANGED cv
      BY <1>0, <2>1, <2>2, SignalRemoveKeeps
  <2>3. CASE ~(SignalRemove(t, cv[t], "cb_loop") /\ UNCHANGED cv)
    <3>1. /\ pc' = [pc EXCEPT ![t] = "run"] /\ cv' = [cv EXCEPT ![t] = NULL]
          /\ UNCHANGED <<schedVars, priority, donVars, holder, value, waiters, tidVars, lk, ret,
                         rcp, fault, cond_waiters>>
        BY <1>6, <2>3 DEF BroadcastLoop, Goto, semVars, locVars
    <3> QED
        BY <2>1, <3>1, LoopEndKeeps
  <2> QED
      BY <2>2, <2>3
<1> QED
    BY <1>1, <1>2, <1>3, <1>4, <1>5, <1>6 DEF MNext, CondStep

LEMMA MonInvHolds == MSpec => []MonInv
    BY MonInit, MonNext, PTL DEF MSpec

\* Type correctness of condition variables on the preemptible kernel: in
\* particular cond_signal always takes an element of the condition's list and ups
\* the semaphore of a thread.
THEOREM MonitorTypesHold == MSpec => []MTypeOK
<1>1. MonInv => MTypeOK
    BY TypeInvTypeOK DEF MonInv, MonTypes, MTypeOK, TypeInv, Others, LockInv
<1> QED
    BY <1>1, MonInvHolds, PTL

\* No signal is lost or sent twice: a thread in cond_wait is owed exactly one
\* wake-up and no other thread is, whatever the number of threads and conditions
\* and wherever lock_release, cond_signal and sema_down are preempted.
THEOREM WaitersOwedOneSignal == MSpec => []SignalAccounting
<1>1. ASSUME MonInv, NEW t \in Threads
      PROVE  Cardinality(CondLinks(t)) + Cardinality(Signallers(t)) + value[t]
                 = IF Waiting(t) THEN 1 ELSE 0
  <2> DEFINE Places(c) == {i \in DOMAIN cond_waiters[c] : cond_waiters[c][i] = t}
  <2>1. ASSUME Listed(t) PROVE Cardinality(CondLinks(t)) = 1
    <3>1. PICK c \in Conds : t \in ToSet(cond_waiters[c])
        BY <2>1 DEF Listed
    <3>2. PICK i \in DOMAIN cond_waiters[c] : cond_waiters[c][i] = t
        BY <3>1 DEF ToSet
    <3>3. Places(c) = {i}
        BY <1>1, <3>2 DEF MonInv, OneDebt, IsInjective
    <3>4. \A d \in Conds \ {c} : Places(d) = {}
        BY <1>1, <3>1 DEF MonInv, OneDebt, ToSet
    <3>5. CondLinks(t) = UNION {{d} \X Places(d) : d \in Conds}
        BY DEF CondLinks
    <3> HIDE DEF Places
    <3>6. CondLinks(t) = {<<c, i>>}
        BY <3>3, <3>4, <3>5
    <3> QED
        BY <3>6, FS_Singleton
  <2>2. ASSUME ~Listed(t) PROVE Cardinality(CondLinks(t)) = 0
    <3>1. \A d \in Conds : Places(d) = {}
        BY <2>2 DEF Listed, ToSet
    <3>2. CondLinks(t) = UNION {{d} \X Places(d) : d \in Conds}
        BY DEF CondLinks
    <3> HIDE DEF Places
    <3>3. CondLinks(t) = {}
        BY <3>1, <3>2
    <3> QED
        BY <3>3, FS_EmptySet
  <2>3. Cardinality(Signallers(t)) = IF Signallers(t) = {} THEN 0 ELSE 1
    <3>1. CASE Signallers(t) = {}
        BY <3>1, FS_EmptySet
    <3>2. CASE Signallers(t) # {}
      <4>1. PICK u \in Signallers(t) : TRUE
          BY <3>2
      <4>2. \A x, y \in Signallers(t) : x = y
          BY <1>1 DEF MonInv, OneDebt
      <4>3. Signallers(t) = {u}
          BY <4>1, <4>2
      <4>4. Cardinality(Signallers(t)) = 1
          BY <4>3, FS_Singleton
      <4> QED
          BY <3>2, <4>4
    <3> QED
        BY <3>1, <3>2
  <2>4. /\ value[t] = IF Waiting(t) /\ ~Listed(t) /\ Signallers(t) = {} THEN 1 ELSE 0
        /\ Listed(t) \/ Signallers(t) # {} => Waiting(t)
        /\ ~(Listed(t) /\ Signallers(t) # {})
      BY <1>1 DEF MonInv, OneDebt
  <2> QED
      BY <2>1, <2>2, <2>3, <2>4
<1>2. MonInv => SignalAccounting
    BY <1>1 DEF SignalAccounting
<1> QED
    BY <1>2, MonInvHolds, PTL


-----------------------------------------------------------------------------
(* The alarm clock: the inductive invariant. *)

\* Past the insertion into waiting_list, in sema_down.
Downs == {"ts_down", "ts_wake"}

AlarmTypes ==
    /\ ticks \in 0..MaxTicks
    /\ waiting_list \in Seq(Threads)
    /\ waituntil \in [Threads -> Int]

\* lock_acquire and lock_release are not called from timer_sleep.
Returns == \A t \in Threads : ret[t] \in {"run"} \cup InCreate

\* A sleeper's semaphore is up if the sleeper is not queued (any more), and then
\* its time has come.
Sleepers ==
    \A t \in Threads :
        /\ t \in ToSet(waiting_list) => pc[t] \in Downs
        /\ value[t] = IF pc[t] \in Downs /\ t \notin ToSet(waiting_list) THEN 1 ELSE 0
        /\ value[t] = 1 => waituntil[t] <= ticks

\* waiting_list is in the order of wait_less.
Sorted ==
    \A i, j \in DOMAIN waiting_list :
        i < j => waituntil[waiting_list[i]] <= waituntil[waiting_list[j]]

SleepInv == AlarmTypes /\ Returns /\ IsInjective(waiting_list) /\ Sleepers /\ Sorted

AlarmInv == LockInv /\ Others /\ SleepInv

LEMMA AlarmInit == AInit => AlarmInv
<1> SUFFICES ASSUME AInit PROVE AlarmInv
    OBVIOUS
<1>1. LockInv /\ Others
    BY LockInvInit, TypeInvInit DEF AInit, TypeInv, Others
<1>2. AlarmTypes
    BY AlarmAssumption, EmptySeq DEF AInit, AlarmTypes
<1>3. waiting_list = <<>> /\ DOMAIN waiting_list = {} /\ ToSet(waiting_list) = {}
    BY DEF AInit, ToSet
<1>4. IsInjective(waiting_list) /\ Sorted
    BY <1>3 DEF IsInjective, Sorted
<1>5. Returns
    BY DEF AInit, Init, Returns
<1>6. Sleepers
  <2>1. \A t \in Threads : pc[t] = "run" /\ value[t] = 0
      BY DistinctAssumption DEF AInit, Init, Sems
  <2> QED
      BY <2>1, <1>3 DEF Sleepers, Downs
<1> QED
    BY <1>1, <1>2, <1>4, <1>5, <1>6 DEF AlarmInv, SleepInv

-----------------------------------------------------------------------------
(* Steps of Synch. *)

LEMMA SynchKeeps ==
    ASSUME AlarmInv, [Next]_vars, UNCHANGED alarmVars
    PROVE  AlarmInv'
<1>1. LockInv' /\ Others'
    BY LockInvNext, OthersNext DEF AlarmInv
<1>2. StackSemas /\ \A t \in Threads : Moves(t)
    BY NextMoves DEF AlarmInv
<1>3. Returns'
    BY <1>2 DEF AlarmInv, SleepInv, Returns, Moves, InCreate
<1>4. ASSUME NEW t \in Threads PROVE pc'[t] \in Downs <=> pc[t] \in Downs
  <2>1. Moves(t) /\ ret[t] \in {"run"} \cup InCreate
      BY <1>2 DEF AlarmInv, SleepInv, Returns
  <2>2. \A q \in {"run", "sd_wake", "lt_own"} \cup InAcquire \cup InRelease \cup InCreate : q \notin Downs
      BY DEF Downs, InAcquire, InRelease, InCreate
  <2>3. pc'[t] = pc[t] \/ (pc[t] \notin Downs /\ pc'[t] \notin Downs)
      BY <2>1, <2>2 DEF Moves, InCreate, InAcquire, InRelease
  <2> QED
      BY <2>3
<1>5. AlarmTypes' /\ IsInjective(waiting_list)' /\ Sorted'
    BY DEF AlarmInv, SleepInv, AlarmTypes, Sorted, alarmVars
<1>6. Sleepers'
    BY <1>2, <1>4 DEF AlarmInv, SleepInv, Sleepers, StackSemas, alarmVars
<1> QED
    BY <1>1, <1>3, <1>5, <1>6 DEF AlarmInv, SleepInv

-----------------------------------------------------------------------------
(* timer_sleep. *)

LEMMA SleepKeeps ==
    ASSUME AlarmInv, NEW t \in Threads, NEW n \in Durations, TimerSleep(t, n)
    PROVE  AlarmInv'
<1>1. /\ pc[t] = "run" /\ pc' = [pc EXCEPT ![t] = "ts_ins"]
      /\ value' = [value EXCEPT ![t] = 0] /\ waiters' = [waiters EXCEPT ![t] = <<>>]
      /\ waituntil' = [waituntil EXCEPT ![t] = ticks + n]
      /\ UNCHANGED <<schedVars, priority, donVars, holder, tidVars, lk, ret, rcp, fault,
                     ticks, waiting_list>>
    BY DEF TimerSleep, At, Goto, locVars
<1>2. LockInv'
  <2>1. lk' = [lk EXCEPT ![t] = lk[t]] /\ lk[t] \in Sems \cup {NULL}
      BY <1>1 DEF AlarmInv, LockInv, LockTypes
  <2>2. value' \in [Sems -> Nat] /\ \A l \in Locks : value'[l] = value[l]
      BY <1>1, DistinctAssumption DEF AlarmInv, LockInv, LockTypes, Sems
  <2>3. ret' \in [Threads -> Backs]
      BY <1>1 DEF AlarmInv, LockInv, LockTypes
  <2>4. /\ "ts_ins" \in PCs \ Between /\ pc[t] \notin Between
        /\ pc[t] \notin AskPCs /\ "ts_ins" \notin InAcquire \cup InRelease
      BY <1>1 DEF PCs, InSleep, Between, AskPCs, InAcquire, InRelease
  <2> QED
      BY <1>1, <2>1, <2>2, <2>3, <2>4, OutsideStep DEF AlarmInv
<1>3. Others'
  <2>1. SchedTypes'
      BY <1>1, EmptySeq DEF AlarmInv, Others, SchedTypes, schedVars
  <2>2. PriTypes'
      BY <1>1, PriSame DEF AlarmInv, Others, LockInv
  <2>3. TidTypes'
      BY <1>1 DEF AlarmInv, LockInv, LockTypes, Others, TidTypes, tidVars, InCreate, InAcquire,
                  InRelease
  <2> QED
      BY <1>1, <2>1, <2>2, <2>3 DEF AlarmInv, Others
<1>4. t \notin ToSet(waiting_list)
    BY <1>1 DEF AlarmInv, SleepInv, Sleepers, Downs
<1>5. AlarmTypes'
    BY <1>1, AlarmAssumption DEF AlarmInv, SleepInv, AlarmTypes
<1>6. Sorted' /\ IsInjective(waiting_list)' /\ Returns'
  <2>1. \A i \in DOMAIN waiting_list : waituntil'[waiting_list[i]] = waituntil[waiting_list[i]]
      BY <1>1, <1>4 DEF AlarmInv, SleepInv, AlarmTypes, ToSet
  <2> QED
      BY <1>1, <2>1 DEF AlarmInv, SleepInv, Sorted, Returns
<1>7. Sleepers'
  <2>1. pc'[t] = "ts_ins" /\ value'[t] = 0
      BY <1>1 DEF AlarmInv, LockInv, LockTypes, Sems
  <2>2. \A u \in Threads \ {t} : UNCHANGED <<pc[u], value[u], waituntil[u]>>
      BY <1>1 DEF AlarmInv, LockInv, LockTypes, Sems, SleepInv, AlarmTypes
  <2> QED
      BY <1>1, <1>4, <2>1, <2>2 DEF AlarmInv, SleepInv, Sleepers, Downs
<1> QED
    BY <1>2, <1>3, <1>5, <1>6, <1>7 DEF AlarmInv, SleepInv

\* Where list_insert_ordered puts the sleeper: behind those that are not later.
LEMMA InsertPlace ==
    ASSUME AlarmTypes, NEW t \in Threads
    PROVE  \E k \in 1..Len(waiting_list) + 1 :
               /\ InsertOrdered(t) = InsertAt(waiting_list, k, t)
               /\ \A i \in 1..Len(waiting_list) :
                     i < k => waituntil[waiting_list[i]] <= waituntil[t]
               /\ k \in 1..Len(waiting_list) => waituntil[t] < waituntil[waiting_list[k]]
<1> DEFINE m == Len(waiting_list)
           later == {i \in DOMAIN waiting_list : waituntil[t] < waituntil[waiting_list[i]]}
           Place(i) == i \in later \cup {m + 1} /\ \A j \in later : i <= j
           k == CHOOSE i \in 1..m + 1 : Place(i)
<1>1. m \in Nat /\ DOMAIN waiting_list = 1..m /\ \A i \in 1..m : waiting_list[i] \in Threads
    BY LenProperties, ElementOfSeq DEF AlarmTypes
<1>2. later \subseteq 1..m
    BY <1>1
<1>3. InsertOrdered(t) = InsertAt(waiting_list, k, t)
    BY DEF InsertOrdered
<1>4. later \cup {m + 1} \subseteq Nat
    BY <1>1, <1>2
<1> HIDE DEF m, later
<1>5. PICK n \in later \cup {m + 1} : \A j \in later \cup {m + 1} : n <= j
    BY <1>4, LeastExists
<1>6. n \in 1..m + 1 /\ Place(n)
    BY <1>1, <1>2, <1>5
<1>7. k \in 1..m + 1 /\ Place(k)
    BY <1>6
<1> HIDE DEF k
<1>8. ASSUME NEW i \in 1..m, i < k PROVE waituntil[waiting_list[i]] <= waituntil[t]
  <2>1. i \notin later
      BY <1>1, <1>2, <1>7, <1>8
  <2>2. ~(waituntil[t] < waituntil[waiting_list[i]])
      BY <2>1, <1>1 DEF later
  <2>3. waituntil[t] \in Int /\ waituntil[waiting_list[i]] \in Int
      BY <1>1 DEF AlarmTypes
  <2> QED
      BY <2>2, <2>3
<1>9. ASSUME k \in 1..m PROVE waituntil[t] < waituntil[waiting_list[k]]
  <2>1. k \in later
      BY <1>1, <1>7, <1>9
  <2> QED
      BY <2>1 DEF later
<1> QED
    BY <1>3, <1>7, <1>8, <1>9 DEF m

LEMMA InsertKeeps ==
    ASSUME AlarmInv, NEW t \in Threads, SleepInsert(t)
    PROVE  AlarmInv'
<1> DEFINE m == Len(waiting_list)
<1>1. /\ pc[t] = "ts_ins" /\ pc' = [pc EXCEPT ![t] = "ts_down"]
      /\ waiting_list' = InsertOrdered(t)
      /\ UNCHANGED <<schedVars, priority, donVars, holder, value, waiters, tidVars, lk, ret,
                     rcp, fault, ticks, waituntil>>
    BY DEF SleepInsert, At, Goto, locVars, semVars
<1>2. LockInv'
  <2>1. lk' = [lk EXCEPT ![t] = lk[t]] /\ lk[t] \in Sems \cup {NULL}
      BY <1>1 DEF AlarmInv, LockInv, LockTypes
  <2>2. value' \in [Sems -> Nat] /\ \A l \in Locks : value'[l] = value[l]
      BY <1>1 DEF AlarmInv, LockInv, LockTypes
  <2>3. ret' \in [Threads -> Backs]
      BY <1>1 DEF AlarmInv, LockInv, LockTypes
  <2>4. /\ "ts_down" \in PCs \ Between /\ pc[t] \notin Between
        /\ pc[t] \notin AskPCs /\ "ts_down" \notin InAcquire \cup InRelease
      BY <1>1 DEF PCs, InSleep, Between, AskPCs, InAcquire, InRelease
  <2> QED
      BY <1>1, <2>1, <2>2, <2>3, <2>4, OutsideStep DEF AlarmInv
<1>3. Others'
  <2>1. SchedTypes'
      BY <1>1, SchedSame DEF AlarmInv, Others
  <2>2. PriTypes'
      BY <1>1, PriSame DEF AlarmInv, Others, LockInv
  <2>3. TidTypes'
      BY <1>1 DEF AlarmInv, LockInv, LockTypes, Others, TidTypes, tidVars, InCreate, InAcquire,
                  InRelease
  <2> QED
      BY <1>1, <2>1, <2>2, <2>3 DEF AlarmInv, Others
<1>4. t \notin ToSet(waiting_list) /\ value[t] = 0
    BY <1>1 DEF AlarmInv, SleepInv, Sleepers, Downs
<1>5. PICK k \in 1..m + 1 :
          /\ waiting_list' = InsertAt(waiting_list, k, t)
          /\ \A i \in 1..m : i < k => waituntil[waiting_list[i]] <= waituntil[t]
          /\ k \in 1..m => waituntil[t] < waituntil[waiting_list[k]]
    BY <1>1, InsertPlace DEF AlarmInv, SleepInv
<1>6. /\ waiting_list' \in Seq(Threads) /\ Len(waiting_list') = m + 1
      /\ \A i \in 1..m + 1 :
            waiting_list'[i] = IF i < k THEN waiting_list[i] ELSE IF i = k THEN t
                               ELSE waiting_list[i - 1]
      /\ ToSet(waiting_list') = ToSet(waiting_list) \cup {t}
      /\ IsInjective(waiting_list')
  <2>1. waiting_list \in Seq(Threads) /\ IsInjective(waiting_list)
      BY DEF AlarmInv, SleepInv, AlarmTypes
  <2>2. /\ InsertAt(waiting_list, k, t) \in Seq(Threads)
        /\ Len(InsertAt(waiting_list, k, t)) = Len(waiting_list) + 1
        /\ \A i \in 1..Len(waiting_list) + 1 :
              InsertAt(waiting_list, k, t)[i]
                 = IF i < k THEN waiting_list[i] ELSE IF i = k THEN t ELSE waiting_list[i - 1]
        /\ ToSet(InsertAt(waiting_list, k, t)) = ToSet(waiting_list) \cup {t}
        /\ IsInjective(InsertAt(waiting_list, k, t))
      BY <1>4, <2>1, InsertAtList
  <2> QED
      BY <1>5, <2>2
<1>7. AlarmTypes' /\ Returns'
    BY <1>1, <1>6 DEF AlarmInv, SleepInv, AlarmTypes, Returns
<1>8. Sleepers'
  <2>1. pc'[t] = "ts_down" /\ \A u \in Threads \ {t} : pc'[u] = pc[u]
      BY <1>1 DEF AlarmInv, LockInv, LockTypes
  <2> QED
      BY <1>1, <1>4, <1>6, <2>1 DEF AlarmInv, SleepInv, Sleepers, Downs
<1>9. Sorted'
  <2> DEFINE w(i) == waituntil[waiting_list[i]]
             v(i) == waituntil[waiting_list'[i]]
  <2>1. m \in Nat /\ DOMAIN waiting_list = 1..m /\ DOMAIN waiting_list' = 1..m + 1
      BY <1>6, LenProperties DEF AlarmInv, SleepInv, AlarmTypes
  <2>2. waituntil[t] \in Int /\ \A i \in 1..m : w(i) \in Int
      BY ElementOfSeq DEF AlarmInv, SleepInv, AlarmTypes
  <2>3. \A i, j \in 1..m : i < j => w(i) <= w(j)
      BY <2>1 DEF AlarmInv, SleepInv, Sorted
  <2>4. \A i \in 1..m + 1 : v(i) = IF i < k THEN w(i) ELSE IF i = k THEN waituntil[t] ELSE w(i - 1)
      BY <1>6
  <2>5. /\ \A i \in 1..m : i < k => w(i) <= waituntil[t]
        /\ k \in 1..m => waituntil[t] < w(k)
      BY <1>5
  <2> HIDE DEF m, w, v
  <2>6. \A i \in 1..m : i >= k => waituntil[t] < w(i)
      BY <2>1, <2>2, <2>3, <2>5
  <2>7. ASSUME NEW i \in 1..m + 1, NEW j \in 1..m + 1, i < j PROVE v(i) <= v(j)
    <3>1. CASE j < k
      <4>1. i \in 1..m /\ j \in 1..m /\ i < k
          BY <3>1, <2>1, <2>7
      <4> QED
          BY <3>1, <4>1, <2>3, <2>4, <2>7
    <3>2. CASE j = k
      <4>1. i \in 1..m /\ i < k
          BY <3>2, <2>1, <2>7
      <4> QED
          BY <3>2, <4>1, <2>4, <2>5
    <3>3. CASE j > k /\ i < k
      <4>1. i \in 1..m /\ j - 1 \in 1..m /\ i < j - 1
          BY <3>3, <2>1, <2>7
      <4> QED
          BY <3>3, <4>1, <2>3, <2>4
    <3>4. CASE j > k /\ i = k
      <4>1. j - 1 \in 1..m /\ j - 1 >= k
          BY <3>4, <2>1
      <4>2. v(i) = waituntil[t] /\ v(j) = w(j - 1) /\ waituntil[t] < w(j - 1)
          BY <3>4, <4>1, <2>4, <2>6
      <4> QED
          BY <4>1, <4>2, <2>2
    <3>5. CASE j > k /\ i > k
      <4>1. i - 1 \in 1..m /\ j - 1 \in 1..m /\ i - 1 < j - 1
          BY <3>5, <2>1, <2>7
      <4> QED
          BY <3>5, <4>1, <2>3, <2>4
    <3> QED
        BY <3>1, <3>2, <3>3, <3>4, <3>5, <2>1
  <2> QED
      BY <2>1, <2>7, <1>1 DEF Sorted, v
<1> QED
    BY <1>2, <1>3, <1>6, <1>7, <1>8, <1>9 DEF AlarmInv, SleepInv

LEMMA DownKeeps ==
    ASSUME AlarmInv, NEW t \in Threads, SleepDown(t)
    PROVE  AlarmInv' /\ (pc'[t] = "run" => waituntil[t] <= ticks)
<1>1. /\ pc[t] \in Downs /\ SemaDown(t, t, "run", "ts_wake")
      /\ UNCHANGED <<priority, donVars, holder, tidVars, lk, ret, rcp, fault, alarmVars>>
    BY DEF SleepDown, At, Downs, locVars
<1>2. t \in Sems /\ t \notin Locks /\ value[t] \in {0, 1}
    BY DistinctAssumption DEF Sems, AlarmInv, SleepInv, Sleepers
<1>3. \/ value[t] = 1 /\ value' = [value EXCEPT ![t] = 0] /\ pc' = [pc EXCEPT ![t] = "run"]
      \/ value[t] = 0 /\ value' = value /\ pc' = [pc EXCEPT ![t] = "ts_wake"]
    BY <1>1, <1>2 DEF SemaDown, Goto
<1>4. LockInv'
  <2>1. lk' = [lk EXCEPT ![t] = lk[t]] /\ lk[t] \in Sems \cup {NULL}
      BY <1>1 DEF AlarmInv, LockInv, LockTypes
  <2>2. value' \in [Sems -> Nat] /\ \A l \in Locks : value'[l] = value[l]
      BY <1>2, <1>3 DEF AlarmInv, LockInv, LockTypes, Sems
  <2>3. ret' \in [Threads -> Backs]
      BY <1>1 DEF AlarmInv, LockInv, LockTypes
  <2>4. /\ \A q \in {"run", "ts_wake"} : q \in PCs \ Between /\ q \notin InAcquire \cup InRelease
        /\ pc[t] \notin Between /\ pc[t] \notin AskPCs
      BY <1>1 DEF PCs, InSleep, Between, AskPCs, InAcquire, InRelease, Downs
  <2> QED
      BY <1>1, <1>3, <2>1, <2>2, <2>3, <2>4, OutsideStep DEF AlarmInv
<1>5. Others'
  <2>1. SchedTypes'
      BY <1>1, <1>2, SemaDownType DEF AlarmInv, Others, PriTypes
  <2>2. PriTypes'
      BY <1>1, <1>3, PriSame DEF AlarmInv, Others, LockInv
  <2>3. TidTypes'
      BY <1>1, <1>3 DEF AlarmInv, LockInv, LockTypes, Others, TidTypes, tidVars, InCreate,
                  InAcquire, InRelease, Downs
  <2> QED
      BY <1>1, <2>1, <2>2, <2>3 DEF AlarmInv, Others
<1>6. AlarmTypes' /\ Returns' /\ IsInjective(waiting_list)' /\ Sorted'
    BY <1>1 DEF AlarmInv, SleepInv, AlarmTypes, Returns, Sorted, alarmVars
<1>7. Sleepers'
  <2>1. /\ \/ value[t] = 1 /\ value'[t] = 0 /\ pc'[t] = "run"
           \/ value[t] = 0 /\ value'[t] = 0 /\ pc'[t] = "ts_wake"
        /\ \A u \in Threads \ {t} : UNCHANGED <<pc[u], value[u]>>
      BY <1>2, <1>3 DEF AlarmInv, LockInv, LockTypes, Sems
  <2>2. UNCHANGED <<ticks, waiting_list, waituntil>>
      BY <1>1 DEF alarmVars
  <2> QED
      BY <1>1, <2>1, <2>2 DEF AlarmInv, SleepInv, Sleepers, Downs
<1>8. pc'[t] = "run" => waituntil[t] <= ticks
    BY <1>3 DEF AlarmInv, SleepInv, Sleepers, LockInv, LockTypes
<1> QED
    BY <1>4, <1>5, <1>6, <1>7, <1>8 DEF AlarmInv, SleepInv

-----------------------------------------------------------------------------
(* timer_interrupt. *)

\* The sleepers at the front of waiting_list that are due at time now are those
\* up to the first that is not.
LEMMA DueCountProperties ==
    ASSUME AlarmTypes, NEW now \in Int
    PROVE  /\ DueCount(now) \in 0..Len(waiting_list)
           /\ \A i \in 1..DueCount(now) : waituntil[waiting_list[i]] <= now
           /\ DueCount(now) < Len(waiting_list)
                 => waituntil[waiting_list[DueCount(now) + 1]] > now
<1> DEFINE m == Len(waiting_list)
           Due(n) == /\ \A i \in 1..n : waituntil[waiting_list[i]] <= now
                     /\ n < m => waituntil[waiting_list[n + 1]] > now
           Stop == {n \in 0..m : n < m => waituntil[waiting_list[n + 1]] > now}
<1>1. m \in Nat /\ \A i \in 1..m : waituntil[waiting_list[i]] \in Int
    BY LenProperties, ElementOfSeq DEF AlarmTypes
<1> HIDE DEF m
<1>2. m \in Stop /\ Stop \subseteq Nat
    BY <1>1
<1>3. PICK n \in Stop : \A k \in Stop : n <= k
  <2> HIDE DEF Stop
  <2> QED
      BY <1>2, LeastExists
<1>4. ASSUME NEW i \in 1..n PROVE waituntil[waiting_list[i]] <= now
  <2>1. i - 1 \in 0..m /\ i - 1 < m /\ (i - 1) + 1 = i /\ i \in 1..m /\ ~(n <= i - 1)
      BY <1>1, <1>3
  <2>2. ~(waituntil[waiting_list[i]] > now)
      BY <2>1, <1>3
  <2> QED
      BY <2>1, <2>2, <1>1
<1>5. n \in 0..m /\ Due(n)
    BY <1>3, <1>4
<1>6. DueCount(now) = CHOOSE k \in 0..m : Due(k)
    BY DEF DueCount, m
<1>7. DueCount(now) \in 0..m /\ Due(DueCount(now))
    BY <1>5, <1>6
<1> QED
    BY <1>7 DEF m

\* The list splits into the sleepers that are woken and those that are not due.
LEMMA TickSplits ==
    ASSUME AlarmInv, NEW slice, TimerInterrupt(slice)
    PROVE  LET due == SubSeq(waiting_list, 1, DueCount(ticks + 1))
           IN  /\ due \in Seq(Threads) /\ waiting_list' \in Seq(Threads)
               /\ IsInjective(waiting_list') /\ Sorted'
               /\ ToSet(due) \subseteq ToSet(waiting_list)
               /\ ToSet(waiting_list') = ToSet(waiting_list) \ ToSet(due)
               /\ \A t \in ToSet(due) : waituntil[t] <= ticks'
               /\ \A i \in DOMAIN waiting_list' : waituntil[waiting_list'[i]] > ticks'
<1> DEFINE m == Len(waiting_list)
           n == DueCount(ticks + 1)
           due == SubSeq(waiting_list, 1, n)
           rest == SubSeq(waiting_list, n + 1, m)
           w(i) == waituntil[waiting_list[i]]
<1>1. /\ waiting_list \in Seq(Threads) /\ m \in Nat /\ DOMAIN waiting_list = 1..m
      /\ \A i \in 1..m : waiting_list[i] \in Threads /\ w(i) \in Int
      /\ AlarmTypes /\ IsInjective(waiting_list) /\ ticks + 1 \in Int
    BY LenProperties, ElementOfSeq, AlarmAssumption DEF AlarmInv, SleepInv, AlarmTypes
<1>2. /\ n \in 0..m
      /\ \A i \in 1..n : w(i) <= ticks + 1
      /\ n < m => w(n + 1) > ticks + 1
    BY <1>1, DueCountProperties
<1>3. /\ due \in Seq(Threads) /\ Len(due) = n /\ \A i \in 1..n : due[i] = waiting_list[i]
      /\ rest \in Seq(Threads) /\ Len(rest) = m - n
      /\ \A i \in 1..m - n : rest[i] = waiting_list[n + i]
    BY <1>1, <1>2, SplitList
<1>4. waiting_list' = rest /\ ticks' = ticks + 1 /\ waituntil' = waituntil
    BY <1>3 DEF TimerInterrupt
<1>5. \A i, j \in 1..m : i < j => w(i) <= w(j)
    BY <1>1 DEF AlarmInv, SleepInv, Sorted
<1>6. DOMAIN due = 1..n /\ DOMAIN rest = 1..m - n
    BY <1>3, LenProperties
<1> HIDE DEF m, n, due, rest, w
<1>7. \A i \in 1..m - n : n + i \in 1..m /\ n + i >= n + 1
    BY <1>1, <1>2
<1>8. \A i, j \in 1..m - n : i < j => n + i < n + j
    BY <1>1, <1>2
<1>9. ASSUME NEW i \in 1..m - n PROVE w(n + i) > ticks + 1
  <2>1. n < m /\ n + 1 \in 1..m /\ (i = 1 \/ n + 1 < n + i)
      BY <1>1, <1>2
  <2>2. w(n + 1) <= w(n + i)
      BY <2>1, <1>1, <1>5, <1>7
  <2> QED
      BY <2>1, <2>2, <1>1, <1>2, <1>7
<1>10. \A i \in 1..m - n : waituntil[rest[i]] = w(n + i)
    BY <1>3 DEF w
<1>11. Sorted'
  <2>1. \A i, j \in 1..m - n : i < j => waituntil[rest[i]] <= waituntil[rest[j]]
      BY <1>5, <1>7, <1>8, <1>10
  <2> QED
      BY <2>1, <1>4, <1>6 DEF Sorted
<1>12. IsInjective(rest)
  <2>1. \A i, j \in 1..m - n : n + i = n + j => i = j
      BY <1>1, <1>2
  <2> QED
      BY <2>1, <1>1, <1>3, <1>6, <1>7 DEF IsInjective
<1>13. ToSet(due) \subseteq ToSet(waiting_list)
    BY <1>1, <1>2, <1>3, <1>6 DEF ToSet
<1>14. ToSet(rest) = ToSet(waiting_list) \ ToSet(due)
  <2>1. ASSUME NEW i \in 1..m - n PROVE rest[i] \in ToSet(waiting_list) /\ rest[i] \notin ToSet(due)
    <3>1. \A j \in 1..n : j \in 1..m /\ j # n + i
        BY <1>1, <1>2
    <3>2. \A j \in 1..n : due[j] # rest[i]
        BY <3>1, <1>1, <1>3, <1>7 DEF IsInjective
    <3> QED
        BY <3>2, <1>1, <1>3, <1>6, <1>7 DEF ToSet
  <2>2. ASSUME NEW j \in 1..m, waiting_list[j] \notin ToSet(due)
        PROVE  waiting_list[j] \in ToSet(rest)
    <3>1. j \notin 1..n
        BY <2>2, <1>3, <1>6 DEF ToSet
    <3>2. j - n \in 1..m - n /\ n + (j - n) = j
        BY <3>1, <1>1, <1>2
    <3>3. rest[j - n] = waiting_list[j]
        BY <3>2, <1>3
    <3> QED
        BY <3>2, <3>3, <1>6 DEF ToSet
  <2>3. ToSet(rest) \subseteq ToSet(waiting_list) \ ToSet(due)
      BY <2>1, <1>6 DEF ToSet
  <2>4. ASSUME NEW e \in ToSet(waiting_list), e \notin ToSet(due) PROVE e \in ToSet(rest)
      BY <2>2, <2>4, <1>1 DEF ToSet
  <2> QED
      BY <2>3, <2>4
<1>15. \A t \in ToSet(due) : waituntil[t] <= ticks + 1
    BY <1>2, <1>3, <1>6 DEF ToSet, w
<1>16. \A i \in DOMAIN rest : waituntil[rest[i]] > ticks + 1
    BY <1>6, <1>9, <1>10
<1> QED
    BY <1>3, <1>4, <1>11, <1>12, <1>13, <1>14, <1>15, <1>16 DEF due, n

LEMMA TickKeeps ==
    ASSUME AlarmInv, NEW slice, TimerInterrupt(slice)
    PROVE  AlarmInv'
<1> DEFINE due == SubSeq(waiting_list, 1, DueCount(ticks + 1))
           D == ToSet(due)
           blocked == {t \in D : waiters[t] # <<>>}
           st == [t \in Threads |-> IF t \in blocked THEN "ready" ELSE status[t]]
<1>1. /\ due \in Seq(Threads) /\ waiting_list' \in Seq(Threads)
      /\ IsInjective(waiting_list') /\ Sorted'
      /\ D \subseteq ToSet(waiting_list)
      /\ ToSet(waiting_list') = ToSet(waiting_list) \ D
      /\ \A t \in D : waituntil[t] <= ticks'
    BY TickSplits
<1>2. /\ ticks < MaxTicks /\ ticks' = ticks + 1
      /\ value' = [s \in Sems |-> IF s \in D THEN value[s] + 1 ELSE value[s]]
      /\ waiters' = [s \in Sems |-> IF s \in D THEN <<>> ELSE waiters[s]]
      /\ UNCHANGED <<priority, donVars, holder, tidVars, pc, lk, ret, rcp, fault, waituntil>>
    BY DEF TimerInterrupt, locVars
<1>3. \/ UNCHANGED schedVars
      \/ \E woken \in SetToSeqs(blocked) : ThreadYield(woken \o ready_list, st, priority)
    BY DEF TimerInterrupt
<1>4. D \subseteq Threads /\ IsFiniteSet(D)
    BY <1>1, ListElements, ListFinite
<1> HIDE DEF due, D
<1>5. LockInv'
  <2>1. value' \in [Sems -> Nat] /\ \A l \in Locks : value'[l] = value[l]
      BY <1>2, <1>4, DistinctAssumption DEF AlarmInv, LockInv, LockTypes, Sems
  <2> QED
      BY <2>1, <1>2, OtherStep DEF AlarmInv
<1>6. Others'
  <2>1. waiters' \in [Sems -> Seq(Threads)]
      BY <1>2, EmptySeq DEF AlarmInv, Others, SchedTypes
  <2>2. SchedTypes'
    <3>1. CASE UNCHANGED schedVars
        BY <2>1, <3>1 DEF AlarmInv, Others, SchedTypes, schedVars
    <3>2. ASSUME NEW woken \in SetToSeqs(blocked), ThreadYield(woken \o ready_list, st, priority)
          PROVE  SchedTypes'
      <4>1. IsFiniteSet(blocked) /\ blocked \subseteq Threads
          BY <1>4, FS_Subset
      <4> HIDE DEF blocked
      <4>2. woken \in Seq(blocked)
          BY <4>1, SetToSeqsLists
      <4>3. woken \in Seq(Threads)
          BY <4>1, <4>2, LenProperties, ElementOfSeq, SeqDef
      <4>4. woken \o ready_list \in Seq(Threads)
          BY <4>3, ConcatProperties DEF AlarmInv, Others, SchedTypes
      <4>5. st \in [Threads -> Status]
          BY DEF AlarmInv, Others, SchedTypes, Status
      <4> HIDE DEF st
      <4> QED
          BY <2>1, <3>2, <4>4, <4>5, YieldType DEF AlarmInv, Others, SchedTypes, PriTypes
    <3> QED
        BY <1>3, <3>1, <3>2
  <2>3. PriTypes' /\ TidTypes'
      BY <1>2 DEF AlarmInv, Others, PriTypes, TidTypes, donVars, tidVars
  <2> QED
      BY <1>2, <2>2, <2>3 DEF AlarmInv, Others
<1>7. AlarmTypes' /\ Returns'
    BY <1>1, <1>2, AlarmAssumption DEF AlarmInv, SleepInv, AlarmTypes, Returns
<1>8. Sleepers'
  <2>1. ticks \in Int /\ ticks' = ticks + 1 /\ pc' = pc /\ waituntil' = waituntil
      BY <1>2, AlarmAssumption DEF AlarmInv, SleepInv, AlarmTypes
  <2>2. ASSUME NEW t \in D
        PROVE  t \in Threads /\ t \notin ToSet(waiting_list') /\ pc[t] \in Downs /\ value'[t] = 1
    <3>1. value[t] = 0 /\ pc[t] \in Downs /\ t \in Sems
        BY <1>1, <1>4 DEF AlarmInv, SleepInv, Sleepers, Sems
    <3> QED
        BY <3>1, <1>1, <1>2, <1>4
  <2>3. ASSUME NEW t \in Threads \ D
        PROVE  /\ t \in ToSet(waiting_list') <=> t \in ToSet(waiting_list)
               /\ value'[t] = value[t]
      BY <1>1, <1>2 DEF Sems
  <2>4. ASSUME NEW t \in Threads, waituntil[t] <= ticks PROVE waituntil[t] <= ticks'
      BY <2>1, <2>4 DEF AlarmInv, SleepInv, AlarmTypes
  <2> QED
      BY <1>1, <2>1, <2>2, <2>3, <2>4 DEF AlarmInv, SleepInv, Sleepers
<1> QED
    BY <1>1, <1>5, <1>6, <1>7, <1>8 DEF AlarmInv, SleepInv

-----------------------------------------------------------------------------
(* The theorems. *)

LEMMA AlarmNext == AlarmInv /\ [ANext]_avars => AlarmInv'
<1> SUFFICES ASSUME AlarmInv, [ANext]_avars PROVE AlarmInv'
    OBVIOUS
<1>1. CASE UNCHANGED avars
    BY <1>1, SynchKeeps DEF avars
<1>2. ASSUME NEW t \in Threads, SleepStep(t) PROVE AlarmInv'
    BY <1>2, SleepKeeps, InsertKeeps, DownKeeps DEF SleepStep
<1>3. ASSUME NEW slice, TimerInterrupt(slice) PROVE AlarmInv'
    BY <1>3, TickKeeps
<1>4. ASSUME \/ \E t \in Threads : KernelStep(t) \/ ThreadCall(t)
             \/ \E s \in Semas : InterruptSemaUp(s),
             UNCHANGED alarmVars
      PROVE  AlarmInv'
    BY <1>4, SynchKeeps DEF Next, Interrupt
<1> QED
    BY <1>1, <1>2, <1>3, <1>4 DEF ANext

LEMMA AlarmInvHolds == ASpec => []AlarmInv
    BY AlarmInit, AlarmNext, PTL DEF ASpec

\* Type correctness of the alarm clock on the preemptible kernel, whatever the
\* number of sleepers and however long they sleep: in particular the cut that
\* timer_interrupt makes in waiting_list and the place list_insert_ordered finds
\* always exist.
THEOREM AlarmTypesHold == ASpec => []ATypeOK
<1>1. AlarmInv => ATypeOK
    BY TypeInvTypeOK DEF AlarmInv, SleepInv, AlarmTypes, ATypeOK, TypeInv, Others, LockInv
<1> QED
    BY <1>1, AlarmInvHolds, PTL

\* The places of an element of a list of distinct elements.
LEMMA PlacesOf ==
    ASSUME NEW S, NEW s \in Seq(S), IsInjective(s), NEW e
    PROVE  Cardinality({i \in DOMAIN s : s[i] = e}) = IF e \in ToSet(s) THEN 1 ELSE 0
<1> DEFINE P == {i \in DOMAIN s : s[i] = e}
<1>1. CASE e \in ToSet(s)
  <2>1. PICK i \in DOMAIN s : s[i] = e
      BY <1>1 DEF ToSet
  <2>2. P = {i}
      BY <2>1 DEF IsInjective
  <2> QED
      BY <1>1, <2>2, FS_Singleton
<1>2. CASE e \notin ToSet(s)
  <2>1. P = {}
      BY <1>2 DEF ToSet
  <2> QED
      BY <1>2, <2>1, FS_EmptySet
<1> QED
    BY <1>1, <1>2

\* A thread in timer_sleep is owed exactly one wake-up, for any number of
\* sleepers and ticks, also when timer_interrupt runs between the insertion into
\* waiting_list and sema_down.
THEOREM SleepersOwedOneWakeup == ASpec => []WakeAccounting
<1>1. ASSUME AlarmInv, NEW t \in Threads
      PROVE  Cardinality({i \in DOMAIN waiting_list : waiting_list[i] = t}) + value[t]
                 = IF pc[t] \in {"ts_down", "ts_wake"} THEN 1 ELSE 0
  <2>1. Cardinality({i \in DOMAIN waiting_list : waiting_list[i] = t})
            = IF t \in ToSet(waiting_list) THEN 1 ELSE 0
      BY <1>1, PlacesOf DEF AlarmInv, SleepInv, AlarmTypes
  <2> QED
      BY <1>1, <2>1 DEF AlarmInv, SleepInv, Sleepers, Downs
<1>2. AlarmInv => WakeAccounting
    BY <1>1 DEF WakeAccounting
<1> QED
    BY <1>2, AlarmInvHolds, PTL

\* timer_sleep never returns before its time: whoever finds the semaphore up, on
\* entry or after a wake-up, was taken off waiting_list by a tick at or after
\* waituntil.
THEOREM SleepersNotEarly == ASpec => NeverEarly
<1>1. ASSUME AlarmInv, [ANext]_avars, NEW t \in Threads, pc[t] \in InSleep, pc'[t] = "run"
      PROVE  ticks >= waituntil[t]
  <2>0. waituntil[t] \in Int /\ ticks \in Int
      BY <1>1, AlarmAssumption DEF AlarmInv, SleepInv, AlarmTypes
  <2>1. CASE [Next]_vars
    <3>1. Moves(t)
        BY <1>1, <2>1, NextMoves DEF AlarmInv
    <3> QED
        BY <1>1, <3>1 DEF Moves, InSleep, InAcquire, InRelease, InCreate
  <2>2. ASSUME NEW u \in Threads, SleepDown(u) PROVE ticks >= waituntil[t]
    <3>1. u # t => pc'[t] = pc[t]
        BY <1>1, <2>2 DEF SleepDown, SemaDown, Goto, AlarmInv, LockInv, LockTypes
    <3>2. u = t
        BY <1>1, <3>1 DEF InSleep
    <3> QED
        BY <1>1, <2>0, <2>2, <3>2, DownKeeps
  <2>3. ASSUME NEW u \in Threads,
               SleepInsert(u) \/ \E n \in Durations : TimerSleep(u, n)
        PROVE  FALSE
      BY <1>1, <2>3 DEF SleepInsert, TimerSleep, Goto, AlarmInv, LockInv, LockTypes, InSleep
  <2>4. ASSUME NEW slice, TimerInterrupt(slice) PROVE FALSE
      BY <1>1, <2>4 DEF TimerInterrupt, InSleep
  <2> QED
      BY <1>1, <2>1, <2>2, <2>3, <2>4 DEF ANext, avars, SleepStep, Next, Interrupt
<1>2. AlarmInv /\ [ANext]_avars
          => [\A t \in Threads :
                 pc[t] \in InSleep /\ pc'[t] = "run" => ticks >= waituntil[t]]_avars
    BY <1>1
<1> QED
    BY <1>2, AlarmInvHolds, PTL DEF ASpec, NeverEarly

\* No sleeper that is due stays on waiting_list past a tick: timer_interrupt may
\* stop at the first one that is not due because waiting_list is sorted, whatever
\* the order of the calls of timer_sleep and however old the tick counts they
\* read.
THEOREM SleepersNotForgotten == ASpec => NoOversleep
<1>1. ASSUME AlarmInv, [ANext]_avars, ticks' # ticks
      PROVE  \A i \in DOMAIN waiting_list' : waituntil[waiting_list'[i]] > ticks'
  <2>1. PICK slice : TimerInterrupt(slice)
      BY <1>1 DEF ANext, avars, alarmVars, SleepStep, TimerSleep, SleepInsert, SleepDown
  <2> QED
      BY <1>1, <2>1, TickSplits
<1>2. AlarmInv /\ [ANext]_avars
          => [ticks' # ticks =>
                 \A i \in DOMAIN waiting_list' : waituntil[waiting_list'[i]] > ticks']_avars
    BY <1>1
<1> QED
    BY <1>2, AlarmInvHolds, PTL DEF ASpec, NoOversleep
=============================================================================
