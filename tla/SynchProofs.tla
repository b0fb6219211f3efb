----------------------------- MODULE SynchProofs -----------------------------
(***************************************************************************)
(* Proofs about Synch for every set of threads, locks, semaphores and      *)
(* priorities: its locks, its types and the thread ids.                    *)
(***************************************************************************)
EXTENDS Synch, ListProofs

-----------------------------------------------------------------------------
(* Mutual exclusion. *)

\* Where lock_acquire and lock_release return to.
Backs == PCs \ (InAcquire \cup InRelease \cup WakePCs \cup {"lt_own"})

\* The types of the variables the locks depend on, and what a thread's locals are
\* while it is in lock_acquire, lock_try_acquire or lock_release.
LockTypes ==
    /\ pc \in [Threads -> PCs]
    /\ ret \in [Threads -> Backs]
    /\ lk \in [Threads -> Sems \cup {NULL}]
    /\ holder \in [Locks -> Threads \cup {NULL}]
    /\ value \in [Sems -> Nat]
    /\ \A t \in Threads :
          /\ pc[t] \in InAcquire \cup InRelease \cup {"lt_own"} => lk[t] \in Locks
          /\ pc[t] = "sd_wake" => lk[t] \in Semas

\* The points where a thread owns the lock of its call and is not its holder.
Between == {"la_own", "lt_own", "lr_rel", "lr_up"}

\* The inductive invariant behind MutualExclusion: a lock taken but not yet (or no
\* longer) recorded has no holder.
LockInv ==
    /\ LockTypes
    /\ MutualExclusion
    /\ \A t \in Threads : pc[t] \in Between => holder[lk[t]] = NULL

LEMMA LockInvInit == Init => LockInv
<1> SUFFICES ASSUME Init PROVE LockInv
    OBVIOUS
<1> USE DistinctAssumption, LocksAssumption
<1>1. LockTypes
    BY DEF Init, LockTypes, Backs, WakePCs, PCs, InAcquire, InRelease, InCreate, InCond, InSleep, Sems
<1>2. \A t \in Threads : pc[t] \notin Between
    BY DEF Init, Between
<1>3. \A t \in Threads, l \in Locks : ~Owner(t, l)
    BY DEF Init, Owner
<1>4. MutualExclusion
    BY <1>3 DEF MutualExclusion, Init, Sems
<1> QED
    BY <1>1, <1>2, <1>4 DEF LockInv

-----------------------------------------------------------------------------
(* What a step does to the abstract lock of Mutex, from what it does to the    *)
(* owners and to the threads asking.                                           *)

absVars == <<[l \in Locks |-> OwnerOf(l)], [l \in Locks |-> Asking(l)]>>

MutexStep == [MX!Next]_absVars

AskPCs == InAcquire \ {"la_own", "la_clr"}

SameOwners == \A u \in Threads, k \in Locks : Owner(u, k)' <=> Owner(u, k)

SameAsking == \A k \in Locks : Asking(k)' = Asking(k)

\* What OwnerOf means when there is at most one owner.
OwnerOfIsOwner ==
    \A l \in Locks :
        /\ OwnerOf(l) \in Threads \cup {NULL}
        /\ \A t \in Threads : OwnerOf(l) = t <=> Owner(t, l)
        /\ OwnerOf(l) = NULL <=> \A t \in Threads : ~Owner(t, l)

LEMMA OwnerOfLemma == LockInv => OwnerOfIsOwner
<1> SUFFICES ASSUME LockInv, NEW l \in Locks
             PROVE  /\ OwnerOf(l) \in Threads \cup {NULL}
                    /\ \A t \in Threads : OwnerOf(l) = t <=> Owner(t, l)
                    /\ OwnerOf(l) = NULL <=> \A t \in Threads : ~Owner(t, l)
    BY DEF OwnerOfIsOwner
<1>1. CASE \E t \in Threads : Owner(t, l)
  <2>1. OwnerOf(l) = CHOOSE t \in Threads : Owner(t, l)
      BY <1>1 DEF OwnerOf
  <2>2. OwnerOf(l) \in Threads /\ Owner(OwnerOf(l), l)
      BY <1>1, <2>1
  <2> QED
      BY <2>2, DistinctAssumption DEF LockInv, MutualExclusion
<1>2. CASE ~\E t \in Threads : Owner(t, l)
    BY <1>2, DistinctAssumption DEF OwnerOf
<1> QED
    BY <1>1, <1>2

LEMMA OwnerOfPrime == LockInv' => OwnerOfIsOwner'
    BY OwnerOfLemma, PTL

LEMMA SameOwnersMap ==
    ASSUME LockInv, LockInv', SameOwners
    PROVE  [k \in Locks |-> OwnerOf(k)]' = [k \in Locks |-> OwnerOf(k)]
<1>1. \A k \in Locks : OwnerOf(k)' = OwnerOf(k)
    BY OwnerOfLemma, OwnerOfPrime DEF OwnerOfIsOwner, SameOwners
<1> QED
    BY <1>1

LEMMA StutterMap ==
    ASSUME LockInv, LockInv', SameOwners, SameAsking
    PROVE  MutexStep
<1>1. [k \in Locks |-> Asking(k)]' = [k \in Locks |-> Asking(k)]
    BY DEF SameAsking
<1> QED
    BY <1>1, SameOwnersMap DEF MutexStep, absVars

LEMMA AskMap ==
    ASSUME LockInv, LockInv', SameOwners, NEW t \in Threads, NEW l \in Locks,
           t \notin Asking(l),
           \A k \in Locks : Asking(k)' = IF k = l THEN Asking(k) \cup {t} ELSE Asking(k)
    PROVE  MutexStep
<1>1. [k \in Locks |-> Asking(k)]'
         = [[k \in Locks |-> Asking(k)] EXCEPT ![l] = @ \cup {t}]
    OBVIOUS
<1>2. MX!Ask(t, l)
    BY <1>1, SameOwnersMap DEF MX!Ask
<1> QED
    BY <1>2 DEF MutexStep, MX!Next

LEMMA GiveMap ==
    ASSUME LockInv, LockInv', NEW t \in Threads, NEW l \in Locks,
           \A u \in Threads : ~Owner(u, l),
           \A u \in Threads, k \in Locks : Owner(u, k)' <=> (u = t /\ k = l) \/ Owner(u, k)
    PROVE  /\ OwnerOf(l) = NULL
           /\ [k \in Locks |-> OwnerOf(k)]' = [[k \in Locks |-> OwnerOf(k)] EXCEPT ![l] = t]
<1>1. OwnerOf(l) = NULL /\ OwnerOf(l)' = t
    BY OwnerOfLemma, OwnerOfPrime DEF OwnerOfIsOwner
<1>2. \A k \in Locks \ {l} : OwnerOf(k)' = OwnerOf(k)
    BY OwnerOfLemma, OwnerOfPrime DEF OwnerOfIsOwner
<1> QED
    BY <1>1, <1>2

LEMMA ReleaseMap ==
    ASSUME LockInv, LockInv', SameAsking, NEW t \in Threads, NEW l \in Locks, Owner(t, l),
           \A u \in Threads, k \in Locks : Owner(u, k)' <=> Owner(u, k) /\ ~(u = t /\ k = l)
    PROVE  MutexStep
<1>1. OwnerOf(l) = t /\ OwnerOf(l)' = NULL
    BY OwnerOfLemma, OwnerOfPrime DEF OwnerOfIsOwner, LockInv, MutualExclusion
<1>2. \A k \in Locks \ {l} : OwnerOf(k)' = OwnerOf(k)
    BY OwnerOfLemma, OwnerOfPrime DEF OwnerOfIsOwner
<1>3. [k \in Locks |-> OwnerOf(k)]' = [[k \in Locks |-> OwnerOf(k)] EXCEPT ![l] = NULL]
    BY <1>1, <1>2
<1>4. [k \in Locks |-> Asking(k)]' = [k \in Locks |-> Asking(k)]
    BY DEF SameAsking
<1>5. MX!Release(t, l)
    BY <1>1, <1>3, <1>4 DEF MX!Release
<1> QED
    BY <1>5 DEF MutexStep, MX!Next

-----------------------------------------------------------------------------
(* The kinds of steps.  *)

\* A step that moves a thread between points outside Between and touches neither
\* the holders nor the semaphores of locks preserves LockInv.
LEMMA OutsideStep ==
    ASSUME LockInv, NEW t \in Threads,
           NEW p \in PCs \ Between, NEW x \in Sems \cup {NULL},
           pc[t] \notin Between,
           pc[t] \in AskPCs => p \in AskPCs /\ x = lk[t],
           pc' = [pc EXCEPT ![t] = p],
           lk' = [lk EXCEPT ![t] = x],
           ret' \in [Threads -> Backs],
           p \in InAcquire \cup InRelease => x \in Locks,
           p = "sd_wake" => x \in Semas,
           holder' = holder,
           value' \in [Sems -> Nat],
           \A l \in Locks : value'[l] = value[l]
    PROVE  LockInv' /\ MutexStep
<1>1. LockTypes'
    BY DEF LockInv, LockTypes, Between
<1>2. \A u \in Threads, l \in Locks : Owner(u, l)' <=> Owner(u, l)
    BY DEF LockInv, LockTypes, Owner, Between
<1>3. MutualExclusion'
    BY <1>2 DEF LockInv, MutualExclusion
<1>4. \A u \in Threads : pc'[u] \in Between => holder'[lk'[u]] = NULL
    BY DEF LockInv, LockTypes
<1>5. LockInv'
    BY <1>1, <1>3, <1>4 DEF LockInv
<1>6. SameOwners
    BY <1>2 DEF SameOwners
<1>7. CASE p \in AskPCs /\ pc[t] \notin AskPCs
  <2>1. x \in Locks /\ t \notin Asking(x)
      BY <1>7 DEF AskPCs, Asking
  <2>2. \A k \in Locks : Asking(k)' = IF k = x THEN Asking(k) \cup {t} ELSE Asking(k)
      BY <1>7, <2>1 DEF AskPCs, Asking, LockInv, LockTypes
  <2> QED
      BY <1>5, <1>6, <2>1, <2>2, AskMap
<1>8. CASE p \notin AskPCs \/ pc[t] \in AskPCs
  <2>1. SameAsking
      BY <1>8 DEF SameAsking, AskPCs, Asking, LockInv, LockTypes
  <2> QED
      BY <1>5, <1>6, <2>1, StutterMap
<1> QED
    BY <1>5, <1>7, <1>8

\* So does a step of the scheduler or of a plain semaphore.
LEMMA OtherStep ==
    ASSUME LockInv, UNCHANGED <<pc, lk, ret, holder>>,
           value' \in [Sems -> Nat],
           \A l \in Locks : value'[l] = value[l]
    PROVE  LockInv' /\ MutexStep
<1>1. \A u \in Threads, l \in Locks : Owner(u, l)' <=> Owner(u, l)
    BY DEF Owner
<1>2. MutualExclusion'
    BY <1>1 DEF LockInv, MutualExclusion
<1>3. LockInv'
    BY <1>2 DEF LockInv, LockTypes
<1>4. SameOwners /\ SameAsking
    BY <1>1 DEF SameOwners, SameAsking, Asking
<1> QED
    BY <1>3, <1>4, StutterMap

\* Taking the semaphore of a lock makes the thread its owner.
LEMMA TakeStep ==
    ASSUME LockInv, NEW t \in Threads, NEW l \in Locks, NEW p \in {"la_own", "lt_own"},
           pc[t] \notin Between, value[l] > 0,
           p = "la_own" => pc[t] \in AskPCs /\ lk[t] = l,
           p = "lt_own" => pc[t] \notin AskPCs,
           pc' = [pc EXCEPT ![t] = p],
           lk' = [lk EXCEPT ![t] = l],
           ret' \in [Threads -> Backs],
           holder' = holder,
           value' = [value EXCEPT ![l] = @ - 1]
    PROVE  LockInv' /\ MutexStep
<1>1. LockTypes'
  <2>1. value' \in [Sems -> Nat]
      BY DEF LockInv, LockTypes, Sems
  <2>2. pc' \in [Threads -> PCs] /\ lk' \in [Threads -> Sems \cup {NULL}]
      BY DEF LockInv, LockTypes, PCs, InAcquire, Sems
  <2> QED
      BY <2>1, <2>2 DEF LockInv, LockTypes
<1>2. \A u \in Threads : ~Owner(u, l)
    BY DEF LockInv, MutualExclusion
<1>3. holder[l] = NULL
    BY <1>2 DEF LockInv, LockTypes, Owner
<1>4. \A u \in Threads, k \in Locks : Owner(u, k)' <=> (u = t /\ k = l) \/ Owner(u, k)
    BY DEF LockInv, LockTypes, Owner, Between
<1>5. value[l] = 1 /\ value'[l] = 0 /\ \A k \in Locks \ {l} : value'[k] = value[k]
    BY <1>2 DEF LockInv, LockTypes, MutualExclusion, Sems
<1>6. MutualExclusion'
    BY <1>2, <1>4, <1>5 DEF LockInv, MutualExclusion
<1>7. \A u \in Threads : pc'[u] \in Between => holder'[lk'[u]] = NULL
    BY <1>3 DEF LockInv, LockTypes
<1>8. LockInv'
    BY <1>1, <1>6, <1>7 DEF LockInv
<1>9. /\ OwnerOf(l) = NULL
      /\ [k \in Locks |-> OwnerOf(k)]' = [[k \in Locks |-> OwnerOf(k)] EXCEPT ![l] = t]
    BY <1>2, <1>4, <1>8, GiveMap
<1>10. CASE p = "la_own"
  <2>1. t \in Asking(l) /\ \A k \in Locks : Asking(k)' = IF k = l THEN Asking(k) \ {t} ELSE Asking(k)
      BY <1>10 DEF AskPCs, Asking, LockInv, LockTypes
  <2>2. [k \in Locks |-> Asking(k)]' = [[k \in Locks |-> Asking(k)] EXCEPT ![l] = @ \ {t}]
      BY <2>1
  <2>3. MX!Grant(t, l)
      BY <2>1, <2>2, <1>9 DEF MX!Grant
  <2> QED
      BY <2>3, <1>8 DEF MutexStep, MX!Next
<1>11. CASE p = "lt_own"
  <2>1. \A k \in Locks : Asking(k)' = Asking(k)
      BY <1>11 DEF AskPCs, InAcquire, Asking, LockInv, LockTypes
  <2>2. MX!Take(t, l)
      BY <2>1, <1>9 DEF MX!Take
  <2> QED
      BY <2>2, <1>8 DEF MutexStep, MX!Next
<1> QED
    BY <1>10, <1>11

\* The owner records itself as the holder.
LEMMA HolderStep ==
    ASSUME LockInv, NEW t \in Threads, pc[t] \in {"la_own", "lt_own"},
           NEW p \in PCs \ (InRelease \cup {"la_own", "lt_own", "sd_wake"}),
           NEW x \in Sems \cup {NULL},
           p \in InAcquire => x \in Locks, p \notin AskPCs,
           pc' = [pc EXCEPT ![t] = p],
           lk' = [lk EXCEPT ![t] = x],
           ret' \in [Threads -> Backs],
           holder' = [holder EXCEPT ![lk[t]] = t],
           value' = value
    PROVE  LockInv' /\ MutexStep
<1>1. lk[t] \in Locks /\ holder[lk[t]] = NULL /\ Owner(t, lk[t])
    BY DEF LockInv, LockTypes, Owner, Between, InAcquire
<1>2. LockTypes'
    BY <1>1 DEF LockInv, LockTypes
<1>3. \A u \in Threads, k \in Locks : Owner(u, k)' <=> Owner(u, k)
  <2>1. pc'[t] \notin Between /\ ~(pc[t] \in {"lr_rel", "lr_up"})
      BY DEF LockInv, LockTypes, Between, InRelease
  <2>2. ASSUME NEW k \in Locks PROVE Owner(t, k)' <=> Owner(t, k)
    <3>1. Owner(t, k)' <=> holder'[k] = t
        BY <2>1 DEF Owner, Between
    <3>2. Owner(t, k) <=> lk[t] = k \/ holder[k] = t
        BY <2>1 DEF Owner
    <3> QED
        BY <3>1, <3>2, <1>1, DistinctAssumption DEF LockInv, LockTypes
  <2>3. ASSUME NEW u \in Threads \ {t}, NEW k \in Locks PROVE Owner(u, k)' <=> Owner(u, k)
    <3>1. pc'[u] = pc[u] /\ lk'[u] = lk[u]
        BY DEF LockInv, LockTypes
    <3>2. holder'[k] = u <=> holder[k] = u
        BY <1>1, DistinctAssumption DEF LockInv, LockTypes
    <3> QED
        BY <3>1, <3>2 DEF Owner
  <2> QED
      BY <2>2, <2>3
<1>4. MutualExclusion'
    BY <1>3 DEF LockInv, MutualExclusion
<1>5. ASSUME NEW u \in Threads, pc'[u] \in Between
      PROVE  holder'[lk'[u]] = NULL
  <2>1. u # t
      BY <1>5 DEF LockInv, LockTypes, Between, InRelease
  <2>2. pc[u] \in Between /\ lk'[u] = lk[u] /\ lk[u] \in Locks
      BY <2>1, <1>5 DEF LockInv, LockTypes, Between, InAcquire, InRelease
  <2>3. Owner(u, lk[u])
      BY <2>2 DEF Owner, Between
  <2>4. lk[u] # lk[t]
      BY <2>1, <2>2, <2>3, <1>1 DEF LockInv, MutualExclusion
  <2> QED
      BY <2>2, <2>4, <1>1 DEF LockInv, LockTypes
<1>6. LockInv'
    BY <1>2, <1>4, <1>5 DEF LockInv
<1>7. SameAsking
    BY DEF SameAsking, AskPCs, InAcquire, Asking, LockInv, LockTypes
<1> QED
    BY <1>3, <1>6, <1>7, StutterMap DEF SameOwners

\* The holder starts to release the lock.
LEMMA UnholdStep ==
    ASSUME LockInv, NEW t \in Threads, NEW l \in Locks, pc[t] \notin Between \cup AskPCs,
           holder[l] = t,
           pc' = [pc EXCEPT ![t] = "lr_rel"],
           lk' = [lk EXCEPT ![t] = l],
           ret' \in [Threads -> Backs],
           holder' = [holder EXCEPT ![l] = NULL],
           value' \in [Sems -> Nat], \A k \in Locks : value'[k] = value[k]
    PROVE  LockInv' /\ MutexStep
<1>1. LockTypes'
    BY DEF LockInv, LockTypes, PCs, InRelease, InAcquire, Sems
<1>2. \A u \in Threads, k \in Locks : Owner(u, k)' <=> Owner(u, k)
  <2>1. \A u \in Threads : Owner(u, l) => u = t
      BY DEF LockInv, MutualExclusion, Owner
  <2> QED
      BY <2>1, DistinctAssumption DEF LockInv, LockTypes, Owner, Between
<1>3. MutualExclusion'
    BY <1>2 DEF LockInv, MutualExclusion
<1>4. \A u \in Threads : pc'[u] \in Between => holder'[lk'[u]] = NULL
    BY DEF LockInv, LockTypes, Between, InAcquire, InRelease
<1>5. LockInv'
    BY <1>1, <1>3, <1>4 DEF LockInv
<1>6. SameAsking
    BY DEF SameAsking, AskPCs, InAcquire, Asking, LockInv, LockTypes
<1> QED
    BY <1>2, <1>5, <1>6, StutterMap DEF SameOwners

\* The owner gives the semaphore back.
LEMMA UpStep ==
    ASSUME LockInv, NEW t \in Threads, pc[t] = "lr_up",
           pc' = [pc EXCEPT ![t] = "lr_pri"],
           UNCHANGED <<lk, ret, holder>>,
           value' = [value EXCEPT ![lk[t]] = @ + 1]
    PROVE  LockInv' /\ MutexStep
<1>1. lk[t] \in Locks /\ holder[lk[t]] = NULL /\ Owner(t, lk[t])
    BY DEF LockInv, LockTypes, Owner, Between, InRelease
<1>2. LockTypes'
    BY <1>1 DEF LockInv, LockTypes, PCs, InRelease, InAcquire, Sems
<1>3. \A u \in Threads, k \in Locks :
          Owner(u, k)' <=> Owner(u, k) /\ ~(u = t /\ k = lk[t])
    BY <1>1, DistinctAssumption DEF LockInv, LockTypes, Owner
<1>4. value[lk[t]] = 0 /\ value'[lk[t]] = 1
         /\ \A k \in Locks \ {lk[t]} : value'[k] = value[k]
    BY <1>1 DEF LockInv, LockTypes, MutualExclusion, Sems
<1>5. \A u \in Threads : Owner(u, lk[t]) => u = t
    BY <1>1 DEF LockInv, MutualExclusion
<1>6. MutualExclusion'
    BY <1>1, <1>3, <1>4, <1>5 DEF LockInv, MutualExclusion
<1>7. \A u \in Threads : pc'[u] \in Between => holder'[lk'[u]] = NULL
    BY DEF LockInv, LockTypes, Between
<1>8. LockInv'
    BY <1>2, <1>6, <1>7 DEF LockInv
<1>9. SameAsking
    BY DEF SameAsking, InAcquire, Asking, LockInv, LockTypes
<1> QED
    BY <1>1, <1>3, <1>8, <1>9, ReleaseMap

\* Every step preserves LockInv and is a step of Mutex.
LEMMA LockInvNext == LockInv /\ [Next]_vars => LockInv' /\ MutexStep
<1> DEFINE Good == LockInv' /\ MutexStep
<1> SUFFICES ASSUME LockInv, [Next]_vars PROVE Good
    OBVIOUS
<1> USE DistinctAssumption, LocksAssumption
<1>types. /\ pc \in [Threads -> PCs] /\ ret \in [Threads -> Backs]
          /\ lk \in [Threads -> Sems \cup {NULL}] /\ value \in [Sems -> Nat]
    BY DEF LockInv, LockTypes
<1>sub. /\ Locks \subseteq Sems /\ Semas \subseteq Sems
        /\ \A s \in Semas : s \notin Locks
    BY DEF Sems
<1>pcs. /\ InAcquire \cup InRelease \cup InCreate \cup {"run", "sd_wake", "lt_own"} \subseteq PCs
        /\ \A p \in InCreate \cup {"run", "cw_down"} : p \in Backs
        /\ \A p \in Backs : p \in PCs \ Between /\ p \notin InAcquire \cup InRelease
                            /\ p # "sd_wake" /\ p # "lt_own" /\ p \notin AskPCs
        /\ AskPCs \subseteq InAcquire /\ AskPCs \cap Between = {}
    BY DEF PCs, Backs, WakePCs, Between, AskPCs, InAcquire, InRelease, InCreate, InCond
\* Steps that leave what the locks depend on alone.
<1>id. ASSUME UNCHANGED <<pc, lk, ret, holder, value>> PROVE Good
    BY <1>id, <1>types, OtherStep
\* A step of SemaUp on a plain semaphore.
<1>up. ASSUME NEW s \in Semas, SemaUp(s), UNCHANGED <<pc, lk, ret, holder>> PROVE Good
  <2>1. value' = [value EXCEPT ![s] = @ + 1]
      BY <1>up DEF SemaUp
  <2> QED
      BY <2>1, <1>up, <1>types, <1>sub, OtherStep
\* A step of SemaDown on a plain semaphore.
<1>down. ASSUME NEW t \in Threads, NEW s \in Semas, pc[t] \notin Between \cup AskPCs,
                SemaDown(t, s, "run", "sd_wake"),
                lk' = [lk EXCEPT ![t] = IF value[s] > 0 THEN NULL ELSE s],
                UNCHANGED <<ret, holder>>
         PROVE  Good
  <2>1. CASE value[s] > 0
    <3>0. value[s] # 0
        BY <2>1, <1>types, <1>sub
    <3>1. value' = [value EXCEPT ![s] = @ - 1] /\ pc' = [pc EXCEPT ![t] = "run"]
             /\ lk' = [lk EXCEPT ![t] = NULL]
      <4>1. value' = [value EXCEPT ![s] = @ - 1] /\ pc' = [pc EXCEPT ![t] = "run"]
          BY <3>0, <1>down DEF SemaDown, Goto
      <4> QED
          BY <4>1, <2>1, <1>down
    <3>2. value \in [Sems -> Nat] /\ s \in Sems /\ s \notin Locks /\ Locks \subseteq Sems
        BY <1>types, <1>sub
    <3>3. value[s] - 1 \in Nat
        BY <3>2, <2>1
    <3>4. value' \in [Sems -> Nat]
        BY <3>1, <3>2, <3>3
    <3>5. \A l \in Locks : value'[l] = value[l]
        BY <3>1, <3>2
    <3> QED
        BY <3>1, <3>4, <3>5, <1>down, <1>types, <1>pcs, OutsideStep
  <2>2. CASE ~(value[s] > 0)
    <3>1. value' = value /\ pc' = [pc EXCEPT ![t] = "sd_wake"] /\ lk' = [lk EXCEPT ![t] = s]
        BY <2>2, <1>down DEF SemaDown, Goto
    <3>2. "sd_wake" \in PCs \ Between /\ "sd_wake" \notin InAcquire \cup InRelease
        BY <1>pcs DEF Between, InAcquire, InRelease
    <3> QED
        BY <3>1, <3>2, <1>down, <1>types, <1>sub, OutsideStep
  <2> QED
      BY <2>1, <2>2
\* A step of a call that has nothing to do with locks.
<1>local. ASSUME NEW t \in Threads, NEW p \in Backs, pc[t] \notin Between \cup AskPCs, Goto(t, p),
                 UNCHANGED <<lk, ret, holder, value>>
          PROVE  Good
  <2>1. lk' = [lk EXCEPT ![t] = lk[t]] /\ lk[t] \in Sems \cup {NULL}
      BY <1>local, <1>types
  <2> QED
      BY <2>1, <1>local, <1>types, <1>pcs, OutsideStep DEF Goto
\* The start of lock_acquire.
<1>check. ASSUME NEW t \in Threads, NEW l \in Locks, NEW back \in Backs,
                 pc[t] \in Backs, AcquireCheck(t, l, back)
          PROVE  Good
  <2>1. \E p \in {"la_down", "la_pri"} : pc' = [pc EXCEPT ![t] = p]
      BY <1>check DEF AcquireCheck, Call, Goto
  <2>2. /\ lk' = [lk EXCEPT ![t] = l] /\ ret' \in [Threads -> Backs]
        /\ UNCHANGED <<holder, value>> /\ pc[t] \notin Between \cup AskPCs
      BY <1>check, <1>types, <1>pcs DEF AcquireCheck, Call, semVars
  <2>3. {"la_down", "la_pri"} \subseteq PCs \ Between
      BY <1>pcs DEF Between, InAcquire
  <2> QED
      BY <2>1, <2>2, <2>3, <1>types, <1>sub, OutsideStep
\* The start of lock_release.
<1>unhold. ASSUME NEW t \in Threads, NEW l \in Locks, NEW back \in Backs,
                  pc[t] \in Backs, ReleaseHolder(t, l, back), value' = value
           PROVE  Good
  <2>1. ret' \in [Threads -> Backs] /\ pc[t] \notin Between \cup AskPCs
      BY <1>unhold, <1>types, <1>pcs DEF ReleaseHolder, Call
  <2>2. value' \in [Sems -> Nat] /\ \A k \in Locks : value'[k] = value[k]
      BY <1>unhold, <1>types
  <2> QED
      BY <2>1, <2>2, <1>unhold, UnholdStep DEF ReleaseHolder, Call, Goto
<1>1. CASE UNCHANGED vars
    BY <1>1, <1>id DEF vars, locVars, semVars
<1>2. CASE Interrupt
  <2>1. CASE TimeSliceExpiry
      BY <2>1, <1>id DEF TimeSliceExpiry, semVars, locVars
  <2>2. ASSUME NEW s \in Semas, InterruptSemaUp(s) PROVE Good
      BY <2>2, <1>up DEF InterruptSemaUp, locVars
  <2> QED
      BY <1>2, <2>1, <2>2 DEF Interrupt
<1>3. ASSUME NEW t \in Threads, KernelStep(t) PROVE Good
  <2>crash. ASSUME NEW f, Crash(f) PROVE Good
      BY <2>crash, <1>id DEF Crash, semVars, locVars
  \* A step within lock_acquire, before the lock is taken.
  <2>goto. ASSUME NEW p \in AskPCs, pc[t] \in AskPCs, Goto(t, p),
                  UNCHANGED <<lk, ret, holder, value>>
           PROVE  Good
    <3>1. lk[t] \in Locks
        BY <2>goto, <1>pcs DEF LockInv, LockTypes
    <3>2. lk' = [lk EXCEPT ![t] = lk[t]]
        BY <2>goto, <1>types
    <3>3. p \in PCs \ Between /\ p # "sd_wake" /\ pc[t] \notin Between
        BY <2>goto, <1>pcs DEF AskPCs, InAcquire
    <3> QED
        BY <3>1, <3>2, <3>3, <2>goto, <1>types, <1>sub, OutsideStep DEF Goto
  <2>1. CASE AcquirePriority(t)
      BY <2>1, <2>goto, <2>crash DEF AcquirePriority, At, InAcquire, AskPCs, semVars, locVars
  <2>2. CASE AcquireRecipient(t)
      BY <2>2, <2>goto DEF AcquireRecipient, At, InAcquire, AskPCs, semVars
  <2>3. CASE DonatePush(t)
      BY <2>3, <2>goto, <2>crash DEF DonatePush, At, InAcquire, AskPCs, semVars, locVars
  <2>4. CASE DonateUpdate(t)
      BY <2>4, <2>goto, <2>crash, <1>id
         DEF DonateUpdate, UpdateDonation, At, InAcquire, AskPCs, semVars
  <2>5. CASE AcquireBene(t)
      BY <2>5, <2>goto DEF AcquireBene, At, InAcquire, AskPCs, semVars, locVars
  <2>6. CASE AcquireBeneElem(t)
      BY <2>6, <2>goto DEF AcquireBeneElem, At, InAcquire, AskPCs, semVars, locVars
  <2>7. CASE AcquireDown(t)
    <3>1. pc[t] \in {"la_down", "la_wake"} /\ lk[t] \in Locks /\ UNCHANGED <<lk, ret, holder>>
        BY <2>7 DEF AcquireDown, At, locVars, LockInv, LockTypes, InAcquire
    <3>2. CASE value[lk[t]] > 0
      <4>1. value' = [value EXCEPT ![lk[t]] = @ - 1] /\ Goto(t, "la_own")
          BY <2>7, <3>2, <3>1, <1>types, <1>sub DEF AcquireDown, SemaDown
      <4> DEFINE l == lk[t]
      <4>2. lk' = [lk EXCEPT ![t] = l] /\ lk[t] = l /\ pc[t] \in AskPCs /\ pc[t] \notin Between
          BY <3>1, <1>types DEF Between, AskPCs, InAcquire
      <4> HIDE DEF l
      <4>3. l \in Locks /\ value[l] > 0 /\ value' = [value EXCEPT ![l] = @ - 1]
          BY <3>1, <3>2, <4>1 DEF l
      <4> QED
          BY <4>1, <4>2, <4>3, <3>1, <1>types, TakeStep DEF Goto
    <3>3. CASE ~(value[lk[t]] > 0)
      <4>1. value' = value /\ Goto(t, "la_wake")
          BY <2>7, <3>3 DEF AcquireDown, SemaDown
      <4> QED
          BY <4>1, <3>1, <2>goto DEF InAcquire, AskPCs
    <3> QED
        BY <3>2, <3>3
  <2>8. CASE AcquireHolder(t)
    <3>1. lk[t] \in Locks /\ lk' = [lk EXCEPT ![t] = lk[t]]
        BY <2>8, <1>types DEF AcquireHolder, At, locVars, LockInv, LockTypes, InAcquire
    <3> QED
        BY <2>8, <3>1, <1>types, <1>sub, <1>pcs, HolderStep
           DEF AcquireHolder, At, Goto, semVars, locVars, InAcquire, InRelease, AskPCs
  \* The end of lock_acquire and lock_release.
  <2>ret. ASSUME Return(t) PROVE \E x \in Sems \cup {NULL} :
                    /\ pc' = [pc EXCEPT ![t] = ret[t]] /\ lk' = [lk EXCEPT ![t] = x]
                    /\ ret' \in [Threads -> Backs]
      BY <2>ret, <1>types, <1>pcs DEF Return, Goto
  <2>back. ret[t] \in Backs
      BY <1>types
  <2>9. CASE AcquireReturn(t)
    <3>1. pc[t] \notin Between \cup AskPCs /\ holder' = holder /\ value' = value /\ Return(t)
        BY <2>9 DEF AcquireReturn, At, Between, AskPCs, semVars
    <3> QED
        BY <3>1, <2>ret, <2>back, <1>types, <1>pcs, OutsideStep
  <2>10. CASE TryAcquireHolder(t)
    <3>1. pc[t] = "lt_own" /\ holder' = [holder EXCEPT ![lk[t]] = t] /\ value' = value /\ Return(t)
        BY <2>10 DEF TryAcquireHolder, At, semVars
    <3>2. ret[t] \in PCs \ (InRelease \cup {"la_own", "lt_own", "sd_wake"})
             /\ ret[t] \notin InAcquire /\ ret[t] \notin AskPCs
        BY <2>back, <1>pcs DEF InAcquire
    <3> QED
        BY <3>1, <3>2, <2>ret, HolderStep
  <2>11. CASE ReleasePriorities(t)
    <3>1. CASE \E f : Crash(f)
        BY <3>1, <2>crash
    <3>2. CASE ~\E f : Crash(f)
      <4>1. pc[t] = "lr_rel" /\ pc' = [pc EXCEPT ![t] = "lr_up"]
               /\ UNCHANGED <<lk, ret, holder, value>>
          BY <2>11, <3>2 DEF ReleasePriorities, At, Goto, semVars, locVars
      <4>2. LockTypes'
          BY <4>1, <1>pcs DEF LockInv, LockTypes, InRelease, InAcquire
      <4>3. \A u \in Threads, k \in Locks : Owner(u, k)' <=> Owner(u, k)
          BY <4>1, <1>types DEF Owner
      <4>4. MutualExclusion'
          BY <4>1, <4>3 DEF LockInv, MutualExclusion
      <4>5. LockInv'
          BY <4>1, <4>2, <4>4 DEF LockInv, LockTypes, Between
      <4>6. SameAsking
          BY <4>1, <1>types DEF SameAsking, Asking, InAcquire
      <4> QED
          BY <4>3, <4>5, <4>6, StutterMap DEF SameOwners
    <3> QED
        BY <3>1, <3>2
  <2>12. CASE ReleaseUp(t)
      BY <2>12, UpStep DEF ReleaseUp, At, SemaUp, Goto, locVars
  <2>13. CASE ReleaseReturn(t)
    <3>1. CASE \E f : Crash(f)
        BY <3>1, <2>crash
    <3>2. CASE ~\E f : Crash(f)
      <4>1. pc[t] \notin Between \cup AskPCs /\ holder' = holder /\ value' = value /\ Return(t)
          BY <2>13, <3>2 DEF ReleaseReturn, At, Between, AskPCs, InAcquire, semVars
      <4> QED
          BY <4>1, <2>ret, <2>back, <1>types, <1>pcs, OutsideStep
    <3> QED
        BY <3>1, <3>2
  <2>14. CASE SemaDownRetry(t)
    <3>1. lk[t] \in Semas /\ pc[t] \notin Between \cup AskPCs /\ UNCHANGED <<ret, holder>>
        BY <2>14 DEF SemaDownRetry, At, LockInv, LockTypes, Between, AskPCs, InAcquire
    <3> QED
        BY <2>14, <3>1, <1>down, <1>types DEF SemaDownRetry
  <2>15. CASE CreateAcquire(t)
      BY <2>15, <1>check, <1>pcs DEF CreateAcquire, At, InCreate
  <2>16. CASE CreateTid(t)
    <3>1. pc[t] \notin Between \cup AskPCs /\ Goto(t, "tc_inc") /\ UNCHANGED <<lk, ret, holder, value>>
        BY <2>16 DEF CreateTid, At, Between, AskPCs, InAcquire, semVars, locVars
    <3> QED
        BY <3>1, <1>local, <1>pcs DEF InCreate
  <2>17. CASE CreateNextTid(t)
      BY <2>17, <1>unhold, <1>pcs DEF CreateNextTid, At, InCreate, semVars
  <2>18. CASE CreateUnblock(t)
    <3>1. pc[t] \notin Between \cup AskPCs /\ Goto(t, "run") /\ UNCHANGED <<lk, ret, holder, value>>
        BY <2>18 DEF CreateUnblock, At, Between, AskPCs, InAcquire, semVars, locVars
    <3> QED
        BY <3>1, <1>local, <1>pcs
  <2> QED
      BY <1>3, <2>1, <2>2, <2>3, <2>4, <2>5, <2>6, <2>7, <2>8, <2>9, <2>10, <2>11, <2>12,
         <2>13, <2>14, <2>15, <2>16, <2>17, <2>18
         DEF KernelStep
<1>4. ASSUME NEW t \in Threads, ThreadCall(t) PROVE Good
  <2>1. ASSUME NEW l \in Locks, LockAcquire(t, l) PROVE Good
      BY <2>1, <1>check, <1>pcs DEF LockAcquire, At
  <2>2. ASSUME NEW l \in Locks, LockTryAcquire(t, l) PROVE Good
    <3>1. pc[t] \notin Between \cup AskPCs
        BY <2>2 DEF LockTryAcquire, At, Between, AskPCs, InAcquire
    <3>2. ret' \in [Threads -> Backs]
        BY <2>2, <1>types, <1>pcs DEF LockTryAcquire, Call
    <3> QED
        BY <2>2, <3>1, <3>2, TakeStep DEF LockTryAcquire, Call, Goto
  <2>3. ASSUME NEW l \in Locks, LockRelease(t, l) PROVE Good
      BY <2>3, <1>unhold, <1>pcs DEF LockRelease, At, semVars
  <2>4. ASSUME NEW s \in Semas, ThreadSemaDown(t, s) PROVE Good
      BY <2>4, <1>down DEF ThreadSemaDown, At, Between, AskPCs, InAcquire
  <2>5. ASSUME NEW s \in Semas, ThreadSemaUp(t, s) PROVE Good
      BY <2>5, <1>up DEF ThreadSemaUp, locVars
  <2>6. ASSUME NEW p \in NewPris, ThreadSetPriority(t, p) PROVE Good
      BY <2>6, <1>id DEF ThreadSetPriority, Crash, semVars, locVars
  <2>7. ASSUME NEW u \in Threads, NEW p \in Pris, ThreadCreate(t, u, p) PROVE Good
    <3>1. pc[t] \notin Between \cup AskPCs /\ Goto(t, "tc_lock") /\ UNCHANGED <<lk, ret, holder, value>>
        BY <2>7 DEF ThreadCreate, At, Between, AskPCs, InAcquire, semVars, locVars
    <3> QED
        BY <3>1, <1>local, <1>pcs DEF InCreate
  <2>8. CASE ThreadExit(t)
      BY <2>8, <1>id DEF ThreadExit, semVars, locVars
  <2> QED
      BY <1>4, <2>1, <2>2, <2>3, <2>4, <2>5, <2>6, <2>7, <2>8 DEF ThreadCall
<1> QED
    BY <1>1, <1>2, <1>3, <1>4 DEF Next

\* A lock has at most one owner, and its semaphore is 1 exactly while it has none,
\* whatever the priorities and wherever the timer preempts lock_acquire and
\* lock_release.
THEOREM MutualExclusionHolds == Spec => []MutualExclusion
<1>1. LockInv => MutualExclusion
    BY DEF LockInv
<1> QED
    BY <1>1, LockInvInit, LockInvNext, PTL DEF Spec

-----------------------------------------------------------------------------
(* Synch implements Mutex. *)

LEMMA MutexInit == Init => MX!Init
<1> SUFFICES ASSUME Init PROVE MX!Init
    OBVIOUS
<1>1. \A l \in Locks : Asking(l) = {}
    BY DEF Init, Asking, InAcquire
<1>2. \A l \in Locks, t \in Threads : ~Owner(t, l)
    BY DistinctAssumption DEF Init, Owner
<1>3. \A l \in Locks : OwnerOf(l) = NULL
    BY <1>2 DEF OwnerOf
<1> QED
    BY <1>1, <1>3 DEF MX!Init

\* The locks of the preempted kernel implement the abstract lock: lock_acquire
\* waits until the lock is free and leaves as its owner, lock_try_acquire takes a
\* free lock only, and lock_release gives up a lock the caller owns.
THEOREM LocksImplementMutex == Spec => ImplementsMutex
<1>1. LockInv /\ [Next]_vars => [MX!Next]_absVars
    BY LockInvNext DEF MutexStep
<1>2. LockInv /\ [Next]_vars => LockInv'
    BY LockInvNext
<1> QED
    BY <1>1, <1>2, LockInvInit, MutexInit, PTL DEF Spec, ImplementsMutex, MX!Spec, absVars

-----------------------------------------------------------------------------
(* Maxima. *)

\* MaxOf returns the greatest element of a set of priorities.
LEMMA MaxOfPris ==
    ASSUME NEW S, S \subseteq Pris, S # {}
    PROVE  MaxOf(S) \in S /\ \A y \in S : y <= MaxOf(S)
<1>1. S \subseteq 0..PRI_MAX /\ PRI_MAX \in Nat
    BY PrisAssumption DEF PRI_MAX
<1>2. \E x \in S : \A y \in S : y <= x
    BY <1>1, GreatestExists
<1> QED
    BY <1>2 DEF MaxOf

\* list_max returns the element of the highest priority nearest to the back.
LEMMA ListMaxProperties ==
    ASSUME NEW list \in Seq(Threads), list # <<>>, NEW pri \in [Threads -> Pris]
    PROVE  /\ ListMax(list, pri) \in 1..Len(list)
           /\ \A j \in 1..Len(list) :
                 /\ pri[list[j]] <= pri[list[ListMax(list, pri)]]
                 /\ pri[list[j]] = pri[list[ListMax(list, pri)]] => j <= ListMax(list, pri)
<1> DEFINE D == 1..Len(list)
           P == {pri[list[j]] : j \in D}
<1>1. DOMAIN list = D /\ Len(list) \in Nat /\ 1 \in D /\ \A j \in D : list[j] \in Threads
    BY EmptySeq, LenProperties
<1>2. P \subseteq 0..PRI_MAX /\ P # {} /\ PRI_MAX \in Nat
    BY <1>1, PrisAssumption DEF PRI_MAX
<1>3. \E x \in P : \A y \in P : y <= x
  <2> HIDE DEF P
  <2> QED
      BY <1>2, GreatestExists
<1>4. PICK j0 \in D : \A j \in D : pri[list[j]] <= pri[list[j0]]
    BY <1>3
<1> DEFINE B == {j \in D : pri[list[j]] = pri[list[j0]]}
<1>5. B \subseteq 0..Len(list) /\ B # {}
    BY <1>4
<1>6. \E i \in B : \A j \in B : j <= i
  <2> HIDE DEF B
  <2> QED
      BY <1>1, <1>5, GreatestExists
<1>7. \E i \in D : \A j \in D : /\ pri[list[j]] <= pri[list[i]]
                                /\ pri[list[j]] = pri[list[i]] => j <= i
    BY <1>4, <1>6
<1> HIDE DEF D, P, B
<1> QED
    BY <1>1, <1>7 DEF ListMax, D

-----------------------------------------------------------------------------
(* Lists of threads. *)

LEMMA RemoveAtType ==
    ASSUME NEW S, NEW s \in Seq(S), NEW i \in 1..Len(s)
    PROVE  RemoveAt(s, i) \in Seq(S)
    BY RemoveAtList

LEMMA ConsType ==
    ASSUME NEW S, NEW s \in Seq(S), NEW e \in S
    PROVE  Cons(e, s) \in Seq(S)
<1>1. <<e>> \in Seq(S)
    OBVIOUS
<1> QED
    BY <1>1, ConcatProperties DEF Cons
-----------------------------------------------------------------------------
(* The type invariant. *)

\* The run queue and the wait lists.
SchedTypes ==
    /\ cur \in Threads \cup {Idle}
    /\ status \in [Threads -> Status]
    /\ ready_list \in Seq(Threads)
    /\ waiters \in [Sems -> Seq(Threads)]

\* Donation.  thread_update_donation is called with a thread.
PriTypes ==
    /\ priority \in [Threads -> Pris] /\ init_pri \in [Threads -> Pris]
    /\ chain \in [Threads -> SUBSET Threads]
    /\ bene \in [Threads -> Threads \cup {NULL}] /\ bene_elem \in [Threads -> BOOLEAN]
    /\ pe \in [Threads -> Elem]
    /\ rcp \in [Threads -> Threads \cup {NULL}]
    /\ \A t \in Threads : pc[t] = "la_upd" => rcp[t] \in Threads

\* Thread creation.  A thread in thread_create, or in a call made from there, has
\* a child; a thread in no call will return nowhere (cs_up is a call of Monitor).
TidTypes ==
    /\ next_tid \in Nat /\ tid \in [Threads -> Nat]
    /\ child \in [Threads -> Threads \cup {NULL}]
    /\ \A t \in Threads :
          /\ pc[t] \in InCreate \/ ret[t] \in InCreate => child[t] \in Threads
          /\ pc[t] \notin InAcquire \cup InRelease \cup {"lt_own", "cs_up"} => ret[t] = "run"

TypeInv == LockTypes /\ SchedTypes /\ PriTypes /\ TidTypes /\ fault \in Faults

LEMMA TypeInvTypeOK == TypeInv => TypeOK
    BY DEF TypeInv, LockTypes, SchedTypes, PriTypes, TidTypes, TypeOK, Backs

LEMMA TypeInvInit == Init => TypeInv
<1> SUFFICES ASSUME Init PROVE TypeInv
    OBVIOUS
<1>1. LockTypes
    BY LockInvInit DEF LockInv
<1>2. SchedTypes
  <2>0. Cardinality(Started) \in Nat /\ Cardinality(Started) # 0
      BY StartedAssumption, FS_CardinalityType, FS_EmptySet
  <2>1. PICK r \in SetToSeqs(Started) : cur = Head(r) /\ ready_list = Tail(r)
      BY DEF Init
  <2>2. r \in [1..Cardinality(Started) -> Threads]
      BY StartedAssumption DEF SetToSeqs
  <2>3. r \in Seq(Threads) /\ r # <<>>
      BY <2>0, <2>2
  <2>4. cur \in Threads /\ ready_list \in Seq(Threads)
      BY <2>1, <2>3, HeadTailProperties
  <2>5. status \in [Threads -> Status]
      BY DEF Init, Status
  <2>6. waiters \in [Sems -> Seq(Threads)]
      BY EmptySeq DEF Init
  <2> QED
      BY <2>4, <2>5, <2>6 DEF SchedTypes
<1>3. PriTypes
  <2>1. NoElem \in Elem
      BY PrisAssumption, LocksAssumption DEF NoElem, Elem
  <2> QED
      BY <2>1 DEF Init, PriTypes
<1>4. TidTypes
  <2>1. Cardinality(Started) \in Nat
      BY StartedAssumption, FS_CardinalityType
  <2> QED
      BY <2>1 DEF Init, TidTypes, InCreate
<1> QED
    BY <1>1, <1>2, <1>3, <1>4 DEF TypeInv, Init, Faults

-----------------------------------------------------------------------------
(* The scheduler and the semaphores keep the types of the lists. *)

LEMMA ScheduleType ==
    ASSUME NEW list \in Seq(Threads), NEW st \in [Threads -> Status],
           NEW pri \in [Threads -> Pris], Schedule(list, st, pri)
    PROVE  /\ cur' \in Threads \cup {Idle}
           /\ status' \in [Threads -> Status]
           /\ ready_list' \in Seq(Threads)
<1>1. NextThreadToRun(list, pri) \in Threads \cup {Idle}
    BY ListMaxProperties, ElementOfSeq DEF NextThreadToRun
<1>2. AfterPick(list, pri) \in Seq(Threads)
    BY ListMaxProperties, RemoveAtType DEF AfterPick
<1>3. [t \in Threads |-> IF t = NextThreadToRun(list, pri) THEN "running" ELSE st[t]]
          \in [Threads -> Status]
    BY DEF Status
<1> QED
    BY <1>1, <1>2, <1>3 DEF Schedule

LEMMA YieldType ==
    ASSUME cur \in Threads \cup {Idle},
           NEW list \in Seq(Threads), NEW st \in [Threads -> Status],
           NEW pri \in [Threads -> Pris], ThreadYield(list, st, pri)
    PROVE  /\ cur' \in Threads \cup {Idle}
           /\ status' \in [Threads -> Status]
           /\ ready_list' \in Seq(Threads)
<1>1. CASE cur = Idle
    BY <1>1, ScheduleType DEF ThreadYield
<1>2. CASE cur # Idle
  <2>1. Cons(cur, list) \in Seq(Threads)
      BY <1>2, ConsType
  <2>2. [st EXCEPT ![cur] = "ready"] \in [Threads -> Status]
      BY DEF Status
  <2> QED
      BY <1>2, <2>1, <2>2, ScheduleType DEF ThreadYield
<1> QED
    BY <1>1, <1>2

LEMMA SemaUpType ==
    ASSUME SchedTypes, priority \in [Threads -> Pris], NEW s \in Sems, SemaUp(s)
    PROVE  SchedTypes'
<1> DEFINE i == ListMax(waiters[s], priority)
           w == waiters[s][i]
<1>0. waiters[s] \in Seq(Threads)
    BY DEF SchedTypes
<1>1. CASE waiters[s] = <<>>
    BY <1>1, YieldType DEF SemaUp, SchedTypes
<1>2. CASE waiters[s] # <<>>
  <2>1. i \in 1..Len(waiters[s]) /\ w \in Threads
      BY <1>0, <1>2, ListMaxProperties, ElementOfSeq
  <2>2. RemoveAt(waiters[s], i) \in Seq(Threads)
      BY <2>1, <1>0, RemoveAtType
  <2>3. waiters' = [waiters EXCEPT ![s] = RemoveAt(waiters[s], i)]
        /\ ThreadYield(Cons(w, ready_list), [status EXCEPT ![w] = "ready"], priority)
      BY <1>2 DEF SemaUp
  <2>4. Cons(w, ready_list) \in Seq(Threads)
        /\ [status EXCEPT ![w] = "ready"] \in [Threads -> Status]
      BY <2>1, ConsType DEF SchedTypes, Status
  <2> HIDE DEF i, w
  <2>5. waiters' \in [Sems -> Seq(Threads)]
      BY <2>2, <2>3 DEF SchedTypes
  <2> QED
      BY <2>3, <2>4, <2>5, YieldType DEF SchedTypes
<1> QED
    BY <1>1, <1>2

LEMMA SemaDownType ==
    ASSUME SchedTypes, priority \in [Threads -> Pris], NEW t \in Threads, NEW s \in Sems,
           NEW ok, NEW wake, SemaDown(t, s, ok, wake)
    PROVE  SchedTypes'
<1>1. CASE UNCHANGED <<schedVars, waiters>>
    BY <1>1 DEF SchedTypes, schedVars
<1>2. CASE waiters' = [waiters EXCEPT ![s] = Append(@, t)] /\ ThreadBlock
  <2>1. Append(waiters[s], t) \in Seq(Threads)
      BY AppendProperties DEF SchedTypes
  <2>2. waiters' \in [Sems -> Seq(Threads)]
      BY <1>2, <2>1 DEF SchedTypes
  <2>3. [status EXCEPT ![cur] = "blocked"] \in [Threads -> Status]
      BY DEF SchedTypes, Status
  <2> QED
      BY <1>2, <2>2, <2>3, ScheduleType DEF SchedTypes, ThreadBlock
<1> QED
    BY <1>1, <1>2 DEF SemaDown

LEMMA UpdatedPriorityType ==
    ASSUME PriTypes, NEW r \in Threads, NEW base \in Pris
    PROVE  UpdatedPriority(r, base) \in Pris
<1>1. {base} \cup {pe[x].priority : x \in chain[r]} \subseteq Pris
    BY DEF PriTypes, Elem
<1> QED
    BY <1>1, MaxOfPris DEF UpdatedPriority

-----------------------------------------------------------------------------
(* Steps.  What the locks depend on is typed by LockInvNext; what remains are   *)
(* the other three groups.                                                      *)

Others == SchedTypes /\ PriTypes /\ TidTypes /\ fault \in Faults

\* A step that leaves the variables of a group alone, apart from the control of
\* one thread.
LEMMA SchedSame == ASSUME SchedTypes, UNCHANGED <<schedVars, waiters>> PROVE SchedTypes'
    BY DEF SchedTypes, schedVars

LEMMA PriSame ==
    ASSUME PriTypes, LockTypes, NEW t \in Threads, NEW p, p # "la_upd",
           UNCHANGED <<priority, donVars, rcp>>, pc' = pc \/ pc' = [pc EXCEPT ![t] = p]
    PROVE  PriTypes'
    BY DEF PriTypes, LockTypes, donVars

LEMMA TidSame ==
    ASSUME TidTypes, LockTypes, NEW t \in Threads, NEW p, NEW b,
           p \in InCreate \/ b \in InCreate
               => pc[t] \in InCreate \/ ret[t] \in InCreate,
           p \notin InAcquire \cup InRelease \cup {"lt_own", "cs_up"} => b = "run",
           UNCHANGED tidVars, pc' = [pc EXCEPT ![t] = p], ret' = [ret EXCEPT ![t] = b]
    PROVE  TidTypes'
    BY DEF TidTypes, LockTypes, tidVars

\* A step within lock_acquire or lock_release keeps the place to return to.
LEMMA TidInside ==
    ASSUME TidTypes, LockTypes, NEW t \in Threads,
           NEW p \in InAcquire \cup InRelease,
           pc[t] \in InAcquire \cup InRelease,
           UNCHANGED <<tidVars, ret>>, pc' = [pc EXCEPT ![t] = p]
    PROVE  TidTypes'
<1>1. p \notin InCreate
    BY DEF InAcquire, InRelease, InCreate
<1> QED
    BY <1>1 DEF TidTypes, LockTypes, tidVars

LEMMA TidReturn ==
    ASSUME TidTypes, LockTypes, NEW t \in Threads, UNCHANGED tidVars, Return(t)
    PROVE  TidTypes'
<1>1. ret[t] \notin InAcquire \cup InRelease \cup {"lt_own"} /\ "run" \notin InCreate
    BY DEF LockTypes, Backs, InCreate
<1> QED
    BY <1>1, TidSame DEF Return, Goto

LEMMA CrashTypes ==
    ASSUME Others, NEW f \in Faults, Crash(f)
    PROVE  Others'
    BY DEF Others, Crash, SchedTypes, PriTypes, TidTypes, schedVars, donVars, semVars,
           tidVars, locVars

\* A step of lock_acquire that changes donations only.
LEMMA AcquireTypes ==
    ASSUME LockInv, Others, NEW t \in Threads,
           AcquirePriority(t) \/ AcquireRecipient(t) \/ DonatePush(t)
               \/ AcquireBene(t) \/ AcquireBeneElem(t) \/ AcquireReturn(t)
    PROVE  Others'
<1> USE DEF Others, LockInv
<1>0. LockTypes
    OBVIOUS
<1>1. CASE AcquirePriority(t)
  <2>1. CASE Linked(t)
      BY <1>1, <2>1, CrashTypes DEF AcquirePriority, Faults
  <2>2. CASE ~Linked(t)
    <3>1. [priority |-> priority[t], lock |-> lk[t]] \in Elem
        BY <1>1 DEF AcquirePriority, At, LockTypes, PriTypes, Elem, InAcquire
    <3>2. /\ pc[t] = "la_pri" /\ pc' = [pc EXCEPT ![t] = "la_arg"]
          /\ pe' = [pe EXCEPT ![t] = [priority |-> priority[t], lock |-> lk[t]]]
          /\ UNCHANGED <<schedVars, waiters, priority, init_pri, chain, bene, bene_elem,
                         tidVars, ret, rcp, fault>>
        BY <1>1, <2>2 DEF AcquirePriority, At, Goto, semVars, locVars
    <3>3. PriTypes'
        BY <3>1, <3>2 DEF PriTypes, LockTypes
    <3> QED
        BY <3>2, <3>3, <1>0, SchedSame, TidInside DEF InAcquire
  <2> QED
      BY <2>1, <2>2
<1>2. CASE AcquireRecipient(t)
  <2>1. /\ pc[t] = "la_arg" /\ pc' = [pc EXCEPT ![t] = "la_push"]
        /\ rcp' = [rcp EXCEPT ![t] = holder[lk[t]]]
        /\ UNCHANGED <<schedVars, waiters, priority, donVars, tidVars, ret, fault>>
      BY <1>2 DEF AcquireRecipient, At, Goto, semVars
  <2>2. holder[lk[t]] \in Threads \cup {NULL}
      BY <2>1 DEF LockTypes, InAcquire
  <2>3. PriTypes'
      BY <2>1, <2>2 DEF PriTypes, LockTypes, donVars
  <2> QED
      BY <2>1, <2>3, <1>0, SchedSame, TidInside DEF InAcquire
<1>3. CASE DonatePush(t)
  <2>1. CASE rcp[t] = NULL \/ Freed(rcp[t])
      BY <1>3, <2>1, CrashTypes DEF DonatePush, Faults
  <2>2. CASE ~(rcp[t] = NULL \/ Freed(rcp[t]))
    <3>1. /\ pc[t] = "la_push" /\ pc' = [pc EXCEPT ![t] = "la_upd"] /\ rcp[t] # NULL
          /\ chain' = [chain EXCEPT ![rcp[t]] = @ \cup {t}]
          /\ UNCHANGED <<schedVars, waiters, priority, init_pri, bene, bene_elem, pe,
                         tidVars, ret, rcp, fault>>
        BY <1>3, <2>2 DEF DonatePush, At, Goto, semVars, locVars
    <3>2. PriTypes'
        BY <3>1 DEF PriTypes, LockTypes
    <3> QED
        BY <3>1, <3>2, <1>0, SchedSame, TidInside DEF InAcquire
  <2> QED
      BY <2>1, <2>2
<1>4. CASE AcquireBene(t)
  <2>1. /\ pc[t] = "la_bene" /\ pc' = [pc EXCEPT ![t] = "la_elem"]
        /\ bene' = [bene EXCEPT ![t] = holder[lk[t]]]
        /\ UNCHANGED <<schedVars, waiters, priority, init_pri, chain, bene_elem, pe,
                       tidVars, ret, rcp, fault>>
      BY <1>4 DEF AcquireBene, At, Goto, semVars, locVars
  <2>2. holder[lk[t]] \in Threads \cup {NULL}
      BY <2>1 DEF LockTypes, InAcquire
  <2>3. PriTypes'
      BY <2>1, <2>2 DEF PriTypes, LockTypes
  <2> QED
      BY <2>1, <2>3, <1>0, SchedSame, TidInside DEF InAcquire
<1>5. CASE AcquireBeneElem(t)
  <2>1. /\ pc[t] = "la_elem" /\ pc' = [pc EXCEPT ![t] = "la_down"]
        /\ bene_elem' = [bene_elem EXCEPT ![t] = TRUE]
        /\ UNCHANGED <<schedVars, waiters, priority, init_pri, chain, bene, pe,
                       tidVars, ret, rcp, fault>>
      BY <1>5 DEF AcquireBeneElem, At, Goto, semVars, locVars
  <2>2. PriTypes'
      BY <2>1 DEF PriTypes, LockTypes
  <2> QED
      BY <2>1, <2>2, <1>0, SchedSame, TidInside DEF InAcquire
<1>6. CASE AcquireReturn(t)
  <2>1. NoElem \in Elem
      BY PrisAssumption, LocksAssumption DEF NoElem, Elem
  <2>2. /\ pc' = [pc EXCEPT ![t] = ret[t]] /\ Return(t)
        /\ pe' = [pe EXCEPT ![t] = NoElem]
        /\ bene' = [bene EXCEPT ![t] = NULL] /\ bene_elem' = [bene_elem EXCEPT ![t] = FALSE]
        /\ UNCHANGED <<schedVars, waiters, priority, init_pri, chain, tidVars, rcp, fault>>
      BY <1>6 DEF AcquireReturn, Return, Goto, semVars
  <2>3. ret[t] # "la_upd"
      BY DEF LockTypes, Backs, InAcquire
  <2>4. PriTypes'
      BY <2>1, <2>2, <2>3 DEF PriTypes, LockTypes
  <2> QED
      BY <2>2, <2>4, <1>0, SchedSame, TidReturn
<1> QED
    BY <1>1, <1>2, <1>3, <1>4, <1>5, <1>6

\* The walk of thread_update_donation.
LEMMA UpdateTypes ==
    ASSUME LockInv, Others, NEW t \in Threads, DonateUpdate(t)
    PROVE  Others'
<1> USE DEF Others, LockInv
<1> DEFINE r == rcp[t]
           u == UpdatedPriority(r, init_pri[r])
<1>0. LockTypes /\ pc[t] = "la_upd" /\ r \in Threads /\ UpdateDonation(t, r, "la_bene")
    BY DEF DonateUpdate, At, PriTypes
<1>1. u \in Pris
    BY <1>0, UpdatedPriorityType DEF PriTypes
<1> HIDE DEF r, u
<1>2. CASE Crash("freed") \/ Crash("dangling") \/ Crash("null_elem")
    BY <1>2, CrashTypes DEF Faults
<1>3. CASE ~(Crash("freed") \/ Crash("dangling") \/ Crash("null_elem"))
  <2>1. /\ priority' = [priority EXCEPT ![r] = u]
        /\ \/ /\ bene[r] # NULL
              /\ pe' = [pe EXCEPT ![r].priority = u]
              /\ rcp' = [rcp EXCEPT ![t] = bene[r]]
              /\ pc' = pc
           \/ /\ rcp' = [rcp EXCEPT ![t] = NULL]
              /\ pc' = [pc EXCEPT ![t] = "la_bene"]
              /\ pe' = pe
        /\ UNCHANGED <<schedVars, waiters, init_pri, chain, bene, bene_elem, tidVars,
                       ret, fault>>
      BY <1>0, <1>3 DEF UpdateDonation, Goto, semVars, u
  <2>2. PriTypes'
    <3>1. pe' \in [Threads -> Elem]
        BY <1>0, <1>1, <2>1 DEF PriTypes, Elem
    <3> QED
        BY <1>0, <1>1, <2>1, <3>1, ZenonT(30) DEF PriTypes, LockTypes
  <2>3. TidTypes'
    <3>1. pc' = [pc EXCEPT ![t] = "la_upd"] \/ pc' = [pc EXCEPT ![t] = "la_bene"]
        BY <1>0, <2>1 DEF LockTypes
    <3> QED
        BY <1>0, <2>1, <3>1, TidInside DEF InAcquire
  <2> QED
      BY <2>1, <2>2, <2>3, SchedSame
<1> QED
    BY <1>2, <1>3

\* The steps that take or release a lock or a semaphore.
LEMMA LockStepTypes ==
    ASSUME LockInv, Others, NEW t \in Threads,
           \/ AcquireDown(t) \/ AcquireHolder(t) \/ TryAcquireHolder(t)
           \/ ReleasePriorities(t) \/ ReleaseUp(t) \/ ReleaseReturn(t) \/ SemaDownRetry(t)
    PROVE  Others'
<1> USE DEF Others, LockInv
<1>0. LockTypes /\ priority \in [Threads -> Pris]
    BY DEF PriTypes
<1>r. ret[t] # "la_upd"
    BY DEF LockTypes, Backs, InAcquire
<1>1. CASE AcquireDown(t)
  <2>1. /\ pc[t] \in {"la_down", "la_wake"} /\ SemaDown(t, lk[t], "la_own", "la_wake")
        /\ UNCHANGED <<priority, donVars, rcp, tidVars, ret, fault>>
      BY <1>1 DEF AcquireDown, At, locVars
  <2>2. lk[t] \in Sems
      BY <2>1 DEF LockTypes, InAcquire, Sems
  <2>3. pc' = [pc EXCEPT ![t] = "la_own"] \/ pc' = [pc EXCEPT ![t] = "la_wake"]
      BY <2>1 DEF SemaDown, Goto
  <2>4. SchedTypes'
      BY <2>1, <2>2, <1>0, SemaDownType
  <2> QED
      BY <2>1, <2>3, <2>4, <1>0, PriSame, TidInside DEF InAcquire
<1>2. CASE AcquireHolder(t)
  <2>1. /\ pc[t] = "la_own" /\ pc' = [pc EXCEPT ![t] = "la_clr"]
        /\ UNCHANGED <<schedVars, waiters, priority, donVars, rcp, tidVars, ret, fault>>
      BY <1>2 DEF AcquireHolder, At, Goto, semVars, locVars
  <2> QED
      BY <2>1, <1>0, SchedSame, PriSame, TidInside DEF InAcquire
<1>3. CASE TryAcquireHolder(t)
  <2>1. /\ pc' = [pc EXCEPT ![t] = ret[t]] /\ Return(t)
        /\ UNCHANGED <<schedVars, waiters, priority, donVars, rcp, tidVars, fault>>
      BY <1>3 DEF TryAcquireHolder, Return, Goto, semVars
  <2> QED
      BY <2>1, <1>0, <1>r, SchedSame, PriSame, TidReturn
<1>4. CASE ReleasePriorities(t)
  <2>1. CASE Crash("dangling")
      BY <2>1, CrashTypes DEF Faults
  <2>2. CASE ~Crash("dangling")
    <3>1. /\ pc[t] = "lr_rel" /\ pc' = [pc EXCEPT ![t] = "lr_up"]
          /\ chain' = [chain EXCEPT ![t] = {x \in @ : holder[pe[x].lock] = t}]
          /\ UNCHANGED <<schedVars, waiters, priority, init_pri, bene, bene_elem, pe, rcp,
                         tidVars, ret, fault>>
        BY <1>4, <2>2 DEF ReleasePriorities, At, Goto, semVars, locVars
    <3>2. PriTypes'
        BY <3>1 DEF PriTypes, LockTypes
    <3> QED
        BY <3>1, <3>2, <1>0, SchedSame, TidInside DEF InRelease
  <2> QED
      BY <2>1, <2>2
<1>5. CASE ReleaseUp(t)
  <2>1. /\ pc[t] = "lr_up" /\ pc' = [pc EXCEPT ![t] = "lr_pri"] /\ SemaUp(lk[t])
        /\ UNCHANGED <<priority, donVars, rcp, tidVars, ret, fault>>
      BY <1>5 DEF ReleaseUp, At, Goto, locVars
  <2>2. lk[t] \in Sems
      BY <2>1 DEF LockTypes, InRelease, Sems
  <2>3. SchedTypes'
      BY <2>1, <2>2, <1>0, SemaUpType
  <2> QED
      BY <2>1, <2>3, <1>0, PriSame, TidInside DEF InRelease
<1>6. CASE ReleaseReturn(t)
  <2>1. CASE Crash("dangling")
      BY <2>1, CrashTypes DEF Faults
  <2>2. CASE ~Crash("dangling")
    <3> DEFINE u == UpdatedPriority(t, init_pri[t])
    <3>0. u \in Pris
        BY UpdatedPriorityType DEF PriTypes
    <3> HIDE DEF u
    <3>1. /\ priority' = [priority EXCEPT ![t] = u]
          /\ ThreadYield(ready_list, status, priority')
          /\ Return(t) /\ pc' = [pc EXCEPT ![t] = ret[t]]
          /\ UNCHANGED <<donVars, waiters, tidVars, rcp, fault>>
        BY <1>6, <2>2 DEF ReleaseReturn, Return, Goto, semVars, u
    <3>2. priority' \in [Threads -> Pris]
        BY <3>0, <3>1, <1>0
    <3>3. SchedTypes'
        BY <3>1, <3>2, YieldType DEF SchedTypes
    <3>4. PriTypes'
        BY <3>1, <3>2, <1>r DEF PriTypes, LockTypes, donVars
    <3> QED
        BY <3>1, <3>3, <3>4, <1>0, TidReturn
  <2> QED
      BY <2>1, <2>2
<1>7. CASE SemaDownRetry(t)
  <2>1. /\ pc[t] = "sd_wake" /\ SemaDown(t, lk[t], "run", "sd_wake")
        /\ UNCHANGED <<priority, donVars, rcp, tidVars, ret, fault>>
      BY <1>7 DEF SemaDownRetry, At
  <2>2. lk[t] \in Sems
      BY <2>1 DEF LockTypes, Sems
  <2>3. pc' = [pc EXCEPT ![t] = "run"] \/ pc' = [pc EXCEPT ![t] = "sd_wake"]
      BY <2>1 DEF SemaDown, Goto
  <2>4. SchedTypes'
      BY <2>1, <2>2, <1>0, SemaDownType
  <2>5. TidTypes'
      BY <2>1, <2>3 DEF TidTypes, LockTypes, tidVars, InCreate, InAcquire, InRelease
  <2> QED
      BY <2>1, <2>3, <2>4, <2>5, <1>0, PriSame
<1> QED
    BY <1>1, <1>2, <1>3, <1>4, <1>5, <1>6, <1>7

\* thread_create.
LEMMA CreateTypes ==
    ASSUME LockInv, Others, NEW t \in Threads,
           \/ CreateAcquire(t) \/ CreateTid(t) \/ CreateNextTid(t) \/ CreateUnblock(t)
           \/ \E u \in Threads, p \in Pris : ThreadCreate(t, u, p)
    PROVE  Others'
<1> USE DEF Others, LockInv
<1>0. LockTypes /\ priority \in [Threads -> Pris]
    BY DEF PriTypes
<1>1. CASE CreateAcquire(t)
  <2>1. /\ pc[t] = "tc_lock" /\ ret' = [ret EXCEPT ![t] = "tc_tid"]
        /\ pc' = [pc EXCEPT ![t] = "la_down"] \/ pc' = [pc EXCEPT ![t] = "la_pri"]
        /\ UNCHANGED <<schedVars, waiters, priority, donVars, rcp, tidVars, fault>>
      BY <1>1 DEF CreateAcquire, AcquireCheck, Call, At, Goto, semVars
  <2>2. TidTypes'
      BY <2>1, <1>0, TidSame DEF InCreate, InAcquire
  <2> QED
      BY <2>1, <2>2, <1>0, SchedSame, PriSame
<1>2. CASE CreateTid(t)
  <2>1. /\ pc[t] = "tc_tid" /\ pc' = [pc EXCEPT ![t] = "tc_inc"]
        /\ tid' = [tid EXCEPT ![child[t]] = next_tid]
        /\ UNCHANGED <<schedVars, waiters, priority, donVars, rcp, next_tid, child, ret,
                       fault>>
      BY <1>2 DEF CreateTid, At, Goto, semVars, locVars
  <2>2. TidTypes'
      BY <2>1, <1>0 DEF TidTypes, LockTypes, InCreate, InAcquire, InRelease
  <2> QED
      BY <2>1, <2>2, <1>0, SchedSame, PriSame
<1>3. CASE CreateNextTid(t)
  <2>1. /\ pc[t] = "tc_inc" /\ pc' = [pc EXCEPT ![t] = "lr_rel"]
        /\ ret' = [ret EXCEPT ![t] = "tc_go"]
        /\ next_tid' = tid[child[t]] + 1
        /\ UNCHANGED <<schedVars, waiters, priority, donVars, rcp, tid, child, fault>>
      BY <1>3 DEF CreateNextTid, ReleaseHolder, Call, At, Goto, semVars
  <2>2. TidTypes'
    <3>1. child[t] \in Threads /\ next_tid' \in Nat
        BY <2>1 DEF TidTypes, InCreate
    <3> QED
        BY <2>1, <3>1, <1>0 DEF TidTypes, LockTypes, InCreate, InAcquire, InRelease
  <2> QED
      BY <2>1, <2>2, <1>0, SchedSame, PriSame
<1>4. CASE CreateUnblock(t)
  <2> DEFINE u == child[t]
  <2>1. /\ pc[t] = "tc_go" /\ pc' = [pc EXCEPT ![t] = "run"]
        /\ ThreadYield(Cons(u, ready_list), [status EXCEPT ![u] = "ready"], priority)
        /\ child' = [child EXCEPT ![t] = NULL]
        /\ UNCHANGED <<waiters, priority, donVars, rcp, next_tid, tid, ret, fault>>
      BY <1>4 DEF CreateUnblock, At, Goto, semVars, locVars
  <2>2. u \in Threads
      BY <2>1 DEF TidTypes, InCreate
  <2> HIDE DEF u
  <2>3. Cons(u, ready_list) \in Seq(Threads)
        /\ [status EXCEPT ![u] = "ready"] \in [Threads -> Status]
      BY <2>2, ConsType DEF SchedTypes, Status
  <2>4. SchedTypes'
      BY <2>1, <2>3, <1>0, YieldType DEF SchedTypes
  <2>5. TidTypes'
      BY <2>1, <1>0 DEF TidTypes, LockTypes, InCreate, InAcquire, InRelease
  <2> QED
      BY <2>1, <2>4, <2>5, <1>0, PriSame
<1>5. ASSUME NEW u \in Threads, NEW p \in Pris, ThreadCreate(t, u, p) PROVE Others'
  <2>1. /\ pc[t] = "run" /\ pc' = [pc EXCEPT ![t] = "tc_lock"]
        /\ status' = [status EXCEPT ![u] = "blocked"]
        /\ priority' = [priority EXCEPT ![u] = p] /\ init_pri' = [init_pri EXCEPT ![u] = p]
        /\ child' = [child EXCEPT ![t] = u]
        /\ UNCHANGED <<cur, ready_list, waiters, chain, bene, bene_elem, pe, rcp, next_tid,
                       tid, ret, fault>>
      BY <1>5 DEF ThreadCreate, At, Goto, semVars, locVars
  <2>2. SchedTypes'
      BY <2>1 DEF SchedTypes, Status
  <2>3. PriTypes'
      BY <2>1 DEF PriTypes, LockTypes
  <2>4. TidTypes'
      BY <2>1, <1>0 DEF TidTypes, LockTypes, InCreate, InAcquire, InRelease
  <2> QED
      BY <2>1, <2>2, <2>3, <2>4
<1> QED
    BY <1>1, <1>2, <1>3, <1>4, <1>5

\* The other calls of a thread.
LEMMA CallTypes ==
    ASSUME LockInv, Others, NEW t \in Threads,
           \/ \E l \in Locks : LockAcquire(t, l) \/ LockTryAcquire(t, l) \/ LockRelease(t, l)
           \/ \E s \in Semas : ThreadSemaDown(t, s) \/ ThreadSemaUp(t, s)
           \/ \E p \in NewPris : ThreadSetPriority(t, p)
           \/ ThreadExit(t)
    PROVE  Others'
<1> USE DEF Others, LockInv
<1>0. LockTypes /\ priority \in [Threads -> Pris]
    BY DEF PriTypes
<1>1. ASSUME NEW l \in Locks, LockAcquire(t, l) \/ LockTryAcquire(t, l) \/ LockRelease(t, l)
      PROVE  Others'
  <2>1. /\ \E p \in {"la_down", "la_pri", "lt_own", "lr_rel"} : pc' = [pc EXCEPT ![t] = p]
        /\ ret' = [ret EXCEPT ![t] = "run"]
        /\ UNCHANGED <<schedVars, waiters, priority, donVars, rcp, tidVars, fault>>
      BY <1>1 DEF LockAcquire, AcquireCheck, LockTryAcquire, LockRelease, ReleaseHolder, Call,
                  Goto, semVars
  <2>2. TidTypes'
      BY <2>1, <1>0, TidSame DEF InCreate
  <2> QED
      BY <2>1, <2>2, <1>0, SchedSame, PriSame
<1>2. ASSUME NEW s \in Semas, ThreadSemaDown(t, s) PROVE Others'
  <2>1. /\ pc[t] = "run" /\ SemaDown(t, s, "run", "sd_wake")
        /\ UNCHANGED <<priority, donVars, rcp, tidVars, ret, fault>>
      BY <1>2 DEF ThreadSemaDown, At
  <2>2. pc' = [pc EXCEPT ![t] = "run"] \/ pc' = [pc EXCEPT ![t] = "sd_wake"]
      BY <2>1 DEF SemaDown, Goto
  <2>3. SchedTypes'
      BY <2>1, <1>0, SemaDownType DEF Sems
  <2>4. TidTypes'
      BY <2>1, <2>2 DEF TidTypes, LockTypes, tidVars, InCreate, InAcquire, InRelease
  <2> QED
      BY <2>1, <2>2, <2>3, <2>4, <1>0, PriSame
<1>3. ASSUME NEW s \in Semas, ThreadSemaUp(t, s) PROVE Others'
  <2>1. SemaUp(s) /\ UNCHANGED <<priority, donVars, rcp, tidVars, pc, ret, fault>>
      BY <1>3 DEF ThreadSemaUp, locVars
  <2>2. SchedTypes'
      BY <2>1, <1>0, SemaUpType DEF Sems
  <2> QED
      BY <2>1, <2>2 DEF PriTypes, TidTypes, donVars, tidVars
<1>4. ASSUME NEW p \in NewPris, ThreadSetPriority(t, p) PROVE Others'
  <2>1. CASE Crash("dangling")
      BY <2>1, CrashTypes DEF Faults
  <2>2. CASE ~Crash("dangling")
    <3> DEFINE u == UpdatedPriority(t, p)
    <3>0. p \in Pris /\ u \in Pris
        BY PrisAssumption, UpdatedPriorityType
    <3> HIDE DEF u
    <3>1. /\ priority' = [priority EXCEPT ![t] = u]
          /\ init_pri' = [init_pri EXCEPT ![t] = p]
          /\ ThreadYield(ready_list, status, priority')
          /\ UNCHANGED <<chain, bene, bene_elem, pe, waiters, tidVars, pc, ret, rcp, fault>>
        BY <1>4, <2>2 DEF ThreadSetPriority, semVars, locVars, u
    <3>2. priority' \in [Threads -> Pris]
        BY <3>0, <3>1, <1>0
    <3>3. SchedTypes'
        BY <3>1, <3>2, YieldType DEF SchedTypes
    <3> QED
        BY <3>0, <3>1, <3>2, <3>3 DEF PriTypes, TidTypes, tidVars
  <2> QED
      BY <2>1, <2>2
<1>5. CASE ThreadExit(t)
  <2>1. /\ Schedule(ready_list, [status EXCEPT ![t] = "dead"], priority)
        /\ UNCHANGED <<priority, donVars, waiters, tidVars, pc, ret, rcp, fault>>
      BY <1>5 DEF ThreadExit, semVars, locVars
  <2>2. [status EXCEPT ![t] = "dead"] \in [Threads -> Status]
      BY DEF SchedTypes, Status
  <2>3. SchedTypes'
      BY <2>1, <2>2, <1>0, ScheduleType DEF SchedTypes
  <2> QED
      BY <2>1, <2>3 DEF PriTypes, TidTypes, donVars, tidVars
<1> QED
    BY <1>1, <1>2, <1>3, <1>4, <1>5

LEMMA OthersNext == LockInv /\ Others /\ [Next]_vars => Others'
<1> SUFFICES ASSUME LockInv, Others, [Next]_vars PROVE Others'
    OBVIOUS
<1>1. CASE UNCHANGED vars
    BY <1>1 DEF Others, vars, schedVars, donVars, semVars, tidVars, locVars, SchedTypes,
                PriTypes, TidTypes
<1>2. CASE TimeSliceExpiry
  <2>1. /\ ThreadYield(ready_list, status, priority)
        /\ UNCHANGED <<priority, donVars, waiters, tidVars, pc, ret, rcp, fault>>
      BY <1>2 DEF TimeSliceExpiry, semVars, locVars
  <2>2. SchedTypes'
      BY <2>1, YieldType DEF Others, SchedTypes, PriTypes
  <2> QED
      BY <2>1, <2>2 DEF Others, PriTypes, TidTypes, donVars, tidVars
<1>3. ASSUME NEW s \in Semas, InterruptSemaUp(s) PROVE Others'
  <2>1. SemaUp(s) /\ UNCHANGED <<priority, donVars, rcp, tidVars, pc, ret, fault>>
      BY <1>3 DEF InterruptSemaUp, locVars
  <2>2. SchedTypes'
      BY <2>1, SemaUpType DEF Others, PriTypes, Sems
  <2> QED
      BY <2>1, <2>2 DEF Others, PriTypes, TidTypes, donVars, tidVars
<1>4. ASSUME NEW t \in Threads, KernelStep(t) PROVE Others'
    BY <1>4, AcquireTypes, UpdateTypes, LockStepTypes, CreateTypes DEF KernelStep
<1>5. ASSUME NEW t \in Threads, ThreadCall(t) PROVE Others'
    BY <1>5, CallTypes, CreateTypes DEF ThreadCall
<1> QED
    BY <1>1, <1>2, <1>3, <1>4, <1>5 DEF Next, Interrupt

\* Type correctness: in particular schedule() and sema_up always take an element
\* that is on the list, thread_update_donation is only called with a thread, and
\* a priority stays between PRI_MIN and PRI_MAX through every donation.
THEOREM TypesHold == Spec => []TypeOK
<1>1. Init => LockInv /\ Others
    BY LockInvInit, TypeInvInit DEF TypeInv, Others
<1>2. LockInv /\ Others /\ [Next]_vars => (LockInv /\ Others)'
    BY LockInvNext, OthersNext
<1>3. LockInv /\ Others => TypeOK
    BY TypeInvTypeOK DEF TypeInv, Others, LockInv
<1> QED
    BY <1>1, <1>2, <1>3, PTL DEF Spec

-----------------------------------------------------------------------------
(* Thread ids. *)

\* allocate_tid reads and writes next_tid as the holder of tid_lock: the thread that
\* returns from its lock_acquire is the holder, and stays so until it has written.
TidLocked ==
    \A t \in Threads :
        /\ pc[t] = "la_clr" => holder[lk[t]] = t
        /\ ret[t] = "tc_tid" => pc[t] \in InAcquire /\ lk[t] = TidLock
        /\ ret[t] # "tc_inc"
        /\ pc[t] \in {"tc_tid", "tc_inc"} => holder[TidLock] = t
        /\ pc[t] = "tc_inc" => tid[child[t]] = next_tid

\* Tids are below next_tid, but for the one that has just been read from it.
TidsGiven ==
    /\ next_tid # 0
    /\ \A t \in Threads :
          tid[t] < next_tid \/ \E v \in Threads : pc[v] = "tc_inc" /\ child[v] = t

TidInv == TidLocked /\ TidsGiven /\ TidsUnique

LEMMA TidInit == Init => TidInv
<1> SUFFICES ASSUME Init PROVE TidInv
    OBVIOUS
<1>1. Cardinality(Started) \in Nat
    BY StartedAssumption, FS_CardinalityType
<1>2. /\ next_tid = Cardinality(Started) + 1 /\ tid \in [Threads -> 0..Cardinality(Started)]
      /\ \A t \in Threads : t \in Started <=> tid[t] # 0
      /\ \A t, u \in Started : tid[t] = tid[u] => t = u
      /\ \A t \in Threads : pc[t] = "run" /\ ret[t] = "run"
    BY DEF Init
<1>3. TidLocked
    BY <1>2 DEF TidLocked
<1>4. TidsGiven
    BY <1>1, <1>2 DEF TidsGiven
<1>5. TidsUnique
    BY <1>2 DEF TidsUnique
<1> QED
    BY <1>3, <1>4, <1>5 DEF TidInv

\* A step of t that gives no tid, and after which what other threads hold they hold.
LEMMA OtherTid ==
    ASSUME LockTypes, TidInv, NEW t \in Threads,
           \A u \in Threads : u # t => /\ pc'[u] = pc[u] /\ lk'[u] = lk[u] /\ ret'[u] = ret[u]
                                       /\ child'[u] = child[u],
           \A u \in Threads, l \in Locks : u # t /\ holder[l] = u => holder'[l] = u,
           pc[t] # "tc_inc", pc'[t] # "tc_inc", ret'[t] # "tc_inc",
           pc'[t] = "la_clr" => holder'[lk'[t]] = t,
           ret'[t] = "tc_tid" => pc'[t] \in InAcquire /\ lk'[t] = TidLock,
           pc'[t] = "tc_tid" => holder'[TidLock] = t,
           UNCHANGED <<next_tid, tid>>
    PROVE  TidInv'
<1>3. ASSUME NEW u \in Threads, u # t
      PROVE  /\ pc'[u] = "la_clr" => holder'[lk'[u]] = u
             /\ ret'[u] = "tc_tid" => pc'[u] \in InAcquire /\ lk'[u] = TidLock
             /\ ret'[u] # "tc_inc"
             /\ pc'[u] \in {"tc_tid", "tc_inc"} => holder'[TidLock] = u
             /\ pc'[u] = "tc_inc" => tid'[child'[u]] = next_tid'
  <2>1. pc[u] = "la_clr" => lk[u] \in Locks
      BY DEF LockTypes, InAcquire
  <2>2. /\ pc[u] = "la_clr" => holder[lk[u]] = u
        /\ ret[u] = "tc_tid" => pc[u] \in InAcquire /\ lk[u] = TidLock
        /\ ret[u] # "tc_inc"
        /\ pc[u] \in {"tc_tid", "tc_inc"} => holder[TidLock] = u
        /\ pc[u] = "tc_inc" => tid[child[u]] = next_tid
      BY DEF TidInv, TidLocked
  <2>3. /\ pc'[u] = pc[u] /\ lk'[u] = lk[u] /\ ret'[u] = ret[u] /\ child'[u] = child[u]
        /\ \A l \in Locks : holder[l] = u => holder'[l] = u
      BY <1>3
  <2> QED
      BY <2>1, <2>2, <2>3, LocksAssumption
<1>4. TidLocked'
    BY <1>3 DEF TidLocked
<1>5. TidsGiven'
    BY DEF TidInv, TidsGiven
<1>6. TidsUnique'
    BY DEF TidInv, TidsUnique
<1> QED
    BY <1>4, <1>5, <1>6 DEF TidInv

LEMMA PlainTid ==
    ASSUME LockTypes, TidInv, NEW t \in Threads, NEW p, NEW x, NEW b,
           pc[t] # "tc_inc", p # "tc_inc", b # "tc_inc",
           pc' = [pc EXCEPT ![t] = p], lk' = [lk EXCEPT ![t] = x], ret' = [ret EXCEPT ![t] = b],
           p = "la_clr" => holder'[x] = t,
           b = "tc_tid" => p \in InAcquire /\ x = TidLock,
           p = "tc_tid" => holder'[TidLock] = t,
           \A u \in Threads, l \in Locks : u # t /\ holder[l] = u => holder'[l] = u,
           \A u \in Threads : u # t => child'[u] = child[u],
           UNCHANGED <<next_tid, tid>>
    PROVE  TidInv'
<1>1. \A u \in Threads : u # t => pc'[u] = pc[u] /\ lk'[u] = lk[u] /\ ret'[u] = ret[u]
    BY DEF LockTypes
<1>2. pc'[t] = p /\ lk'[t] = x /\ ret'[t] = b
    BY DEF LockTypes
<1> QED
    BY <1>1, <1>2, OtherTid

\* The same, within one call.
LEMMA PlainTidInside ==
    ASSUME LockTypes, TidInv, NEW t \in Threads, NEW p,
           pc[t] # "tc_inc", p # "tc_inc", pc' = [pc EXCEPT ![t] = p],
           p = "la_clr" => holder'[lk[t]] = t,
           ret[t] = "tc_tid" => p \in InAcquire,
           p # "tc_tid",
           \A u \in Threads, l \in Locks : u # t /\ holder[l] = u => holder'[l] = u,
           \A u \in Threads : u # t => child'[u] = child[u],
           UNCHANGED <<lk, ret, next_tid, tid>>
    PROVE  TidInv'
<1>1. pc'[t] = p /\ \A u \in Threads : u # t => pc'[u] = pc[u]
    BY DEF LockTypes
<1>2. ret[t] # "tc_inc" /\ (ret[t] = "tc_tid" => lk[t] = TidLock)
    BY DEF TidInv, TidLocked
<1> QED
    BY <1>1, <1>2, OtherTid

\* A step that changes nothing of this.
LEMMA SameTid ==
    ASSUME TidInv, UNCHANGED <<pc, lk, ret, holder, tidVars>>
    PROVE  TidInv'
    BY DEF TidInv, TidLocked, TidsGiven, TidsUnique, tidVars

\* Writing the holder of a lock that has none.
LEMMA HoldersStay ==
    ASSUME LockInv, NEW t \in Threads, pc[t] \in {"la_own", "lt_own"},
           holder' = [holder EXCEPT ![lk[t]] = t]
    PROVE  /\ lk[t] \in Locks /\ holder'[lk[t]] = t
           /\ \A u \in Threads, l \in Locks : u # t /\ holder[l] = u => holder'[l] = u
<1>1. lk[t] \in Locks /\ holder[lk[t]] = NULL /\ holder \in [Locks -> Threads \cup {NULL}]
    BY DEF LockInv, LockTypes, InAcquire, Between
<1> QED
    BY <1>1, DistinctAssumption

\* The steps of lock_acquire, lock_try_acquire and lock_release.
LEMMA LockStepTids ==
    ASSUME LockInv, Others, TidInv, NEW t \in Threads,
           \/ AcquirePriority(t) \/ AcquireRecipient(t) \/ DonatePush(t) \/ DonateUpdate(t)
           \/ AcquireBene(t) \/ AcquireBeneElem(t) \/ AcquireDown(t) \/ AcquireHolder(t)
           \/ AcquireReturn(t) \/ TryAcquireHolder(t)
           \/ ReleasePriorities(t) \/ ReleaseUp(t) \/ ReleaseReturn(t) \/ SemaDownRetry(t)
    PROVE  TidInv'
<1>0. /\ LockTypes /\ TidTypes
      /\ \A x \in Threads : lk = [lk EXCEPT ![x] = lk[x]] /\ ret = [ret EXCEPT ![x] = ret[x]]
    BY DEF LockInv, Others, LockTypes
<1>inv. /\ pc[t] = "la_clr" => holder[lk[t]] = t
        /\ ret[t] = "tc_tid" => pc[t] \in InAcquire /\ lk[t] = TidLock
        /\ ret[t] # "tc_inc"
    BY DEF TidInv, TidLocked
\* Going on inside lock_acquire or lock_release.
<1>in. ASSUME NEW p, UNCHANGED <<lk, ret, holder, tidVars>>, pc' = [pc EXCEPT ![t] = p],
              \/ pc[t] \in InAcquire /\ p \in InAcquire \ {"la_clr"}
              \/ pc[t] \in InRelease /\ p \in InRelease
       PROVE  TidInv'
  <2>1. p \notin {"tc_inc", "la_clr", "tc_tid"} /\ pc[t] # "tc_inc"
      BY <1>in DEF InAcquire, InRelease
  <2>2. ret[t] = "tc_tid" => p \in InAcquire /\ lk[t] = TidLock
      BY <1>in, <1>inv DEF InAcquire, InRelease
  <2> QED
      BY <2>1, <2>2, <1>in, <1>inv, <1>0, PlainTid DEF tidVars
\* A return, to a place other than allocate_tid or as the holder of tid_lock.
<1>return. ASSUME Return(t), UNCHANGED tidVars, pc[t] \in InAcquire \cup InRelease \cup {"lt_own"},
                  ret[t] = "tc_tid" => holder'[TidLock] = t,
                  \A u \in Threads, l \in Locks : u # t /\ holder[l] = u => holder'[l] = u
           PROVE  TidInv'
  <2>1. ret[t] # "la_clr" /\ pc[t] # "tc_inc"
      BY <1>0, <1>return DEF LockTypes, Backs, InAcquire, InRelease
  <2>2. /\ pc' = [pc EXCEPT ![t] = ret[t]] /\ ret' = [ret EXCEPT ![t] = "run"]
        /\ lk' = [lk EXCEPT ![t] = IF ret[t] = "cw_down" THEN lk[t] ELSE NULL]
      BY <1>return DEF Return, Goto
  <2> QED
      BY <2>1, <2>2, <1>return, <1>inv, <1>0, PlainTid DEF tidVars
<1>1. CASE AcquirePriority(t)
    BY <1>1, <1>in, SameTid DEF AcquirePriority, Crash, At, Goto, locVars, InAcquire
<1>2. CASE AcquireRecipient(t)
    BY <1>2, <1>in DEF AcquireRecipient, At, Goto, InAcquire
<1>3. CASE DonatePush(t)
    BY <1>3, <1>in, SameTid DEF DonatePush, Crash, At, Goto, locVars, InAcquire
<1>4. CASE DonateUpdate(t)
    BY <1>4, <1>in, SameTid DEF DonateUpdate, UpdateDonation, Crash, At, Goto, locVars, InAcquire
<1>5. CASE AcquireBene(t)
    BY <1>5, <1>in DEF AcquireBene, At, Goto, locVars, InAcquire
<1>6. CASE AcquireBeneElem(t)
    BY <1>6, <1>in DEF AcquireBeneElem, At, Goto, locVars, InAcquire
<1>7. CASE AcquireDown(t)
  <2>1. pc[t] \in InAcquire /\ UNCHANGED <<lk, ret, holder, tidVars>>
      BY <1>7 DEF AcquireDown, At, locVars, InAcquire
  <2>2. pc' = [pc EXCEPT ![t] = "la_own"] \/ pc' = [pc EXCEPT ![t] = "la_wake"]
      BY <1>7 DEF AcquireDown, SemaDown, Goto
  <2> QED
      BY <2>1, <2>2, <1>in DEF InAcquire
<1>8. CASE AcquireHolder(t)
  <2>1. /\ pc[t] = "la_own" /\ pc' = [pc EXCEPT ![t] = "la_clr"]
        /\ holder' = [holder EXCEPT ![lk[t]] = t] /\ UNCHANGED <<lk, ret, tidVars>>
      BY <1>8 DEF AcquireHolder, At, Goto, locVars
  <2>2. /\ holder'[lk[t]] = t
        /\ \A u \in Threads, l \in Locks : u # t /\ holder[l] = u => holder'[l] = u
      BY <2>1, HoldersStay
  <2> QED
      BY <2>1, <2>2, <1>0, PlainTidInside DEF tidVars, InAcquire
<1>9. CASE AcquireReturn(t)
  <2>1. pc[t] = "la_clr" /\ Return(t) /\ UNCHANGED <<holder, tidVars>>
      BY <1>9 DEF AcquireReturn, At
  <2> QED
      BY <2>1, <1>inv, <1>return DEF InAcquire
<1>10. CASE TryAcquireHolder(t)
  <2>1. /\ pc[t] = "lt_own" /\ Return(t) /\ UNCHANGED tidVars
        /\ holder' = [holder EXCEPT ![lk[t]] = t]
      BY <1>10 DEF TryAcquireHolder, At
  <2>2. ret[t] # "tc_tid"
      BY <2>1, <1>inv DEF InAcquire
  <2> QED
      BY <2>1, <2>2, <1>return, HoldersStay
<1>11. CASE ReleasePriorities(t)
    BY <1>11, <1>in, SameTid DEF ReleasePriorities, Crash, At, Goto, locVars, InRelease
<1>12. CASE ReleaseUp(t)
    BY <1>12, <1>in DEF ReleaseUp, At, Goto, locVars, InRelease
<1>13. CASE ReleaseReturn(t)
  <2>1. pc[t] = "lr_pri"
      BY <1>13 DEF ReleaseReturn, At
  <2>2. ret[t] # "tc_tid"
      BY <2>1, <1>inv DEF InAcquire
  <2>3. \/ UNCHANGED <<pc, lk, ret, holder, tidVars>>
        \/ Return(t) /\ UNCHANGED <<holder, tidVars>>
      BY <1>13 DEF ReleaseReturn, Crash, locVars
  <2> QED
      BY <2>1, <2>2, <2>3, <1>return, SameTid DEF InRelease
<1>14. CASE SemaDownRetry(t)
  <2>1. pc[t] = "sd_wake" /\ UNCHANGED <<ret, holder, tidVars>>
      BY <1>14 DEF SemaDownRetry, At
  <2>2. PICK p \in {"run", "sd_wake"} : pc' = [pc EXCEPT ![t] = p]
      BY <1>14 DEF SemaDownRetry, SemaDown, Goto
  <2>3. PICK x : lk' = [lk EXCEPT ![t] = x]
      BY <1>14 DEF SemaDownRetry
  <2>4. ret[t] # "tc_tid"
      BY <2>1, <1>inv DEF InAcquire
  <2>5. /\ ret' = [ret EXCEPT ![t] = ret[t]] /\ UNCHANGED <<next_tid, tid, child>>
        /\ p \notin {"tc_inc", "la_clr", "tc_tid"}
      BY <2>1, <1>0 DEF tidVars
  <2> QED
      BY <2>1, <2>2, <2>3, <2>4, <2>5, <1>inv, <1>0, PlainTid
<1> QED
    BY <1>1, <1>2, <1>3, <1>4, <1>5, <1>6, <1>7, <1>8, <1>9, <1>10, <1>11, <1>12, <1>13, <1>14

\* The calls, which start outside allocate_tid.
LEMMA CallTids ==
    ASSUME LockInv, Others, TidInv, NEW t \in Threads, ThreadCall(t)
    PROVE  TidInv'
<1>0. /\ LockTypes /\ TidTypes
      /\ \A x \in Threads : lk = [lk EXCEPT ![x] = lk[x]] /\ ret = [ret EXCEPT ![x] = ret[x]]
    BY DEF LockInv, Others, LockTypes
<1>run. pc[t] = "run" => ret[t] = "run"
    BY <1>0 DEF TidTypes, InAcquire, InRelease
<1>1. ASSUME NEW l \in Locks, LockAcquire(t, l) \/ LockTryAcquire(t, l) \/ LockRelease(t, l)
      PROVE  TidInv'
  <2>1. /\ pc[t] = "run"
        /\ \E p \in {"la_down", "la_pri", "lt_own", "lr_rel"} : pc' = [pc EXCEPT ![t] = p]
        /\ lk' = [lk EXCEPT ![t] = l] /\ ret' = [ret EXCEPT ![t] = "run"]
        /\ UNCHANGED tidVars
      BY <1>1 DEF LockAcquire, AcquireCheck, LockTryAcquire, LockRelease, ReleaseHolder, Call,
                  Goto, At
  <2>2. holder' = holder \/ (holder[l] = t /\ holder' = [holder EXCEPT ![l] = NULL])
      BY <1>1 DEF LockAcquire, AcquireCheck, LockTryAcquire, LockRelease, ReleaseHolder
  <2>3. \A u \in Threads, k \in Locks : u # t /\ holder[k] = u => holder'[k] = u
      BY <2>2, <1>0 DEF LockTypes
  <2>4. PICK p \in {"la_down", "la_pri", "lt_own", "lr_rel"} : pc' = [pc EXCEPT ![t] = p]
      BY <2>1
  <2>5. PICK b : b = "run" /\ ret' = [ret EXCEPT ![t] = b]
      BY <2>1
  <2>6. /\ lk' = [lk EXCEPT ![t] = l] /\ UNCHANGED <<next_tid, tid>>
        /\ \A u \in Threads : u # t => child'[u] = child[u]
        /\ pc[t] # "tc_inc" /\ p # "tc_inc" /\ p # "la_clr" /\ p # "tc_tid"
        /\ b # "tc_inc" /\ b # "tc_tid"
      BY <2>1, <2>4, <2>5 DEF tidVars
  <2> QED
      BY <2>3, <2>4, <2>5, <2>6, <1>0, PlainTid
<1>2. ASSUME NEW s \in Semas, ThreadSemaDown(t, s) PROVE TidInv'
  <2>1. pc[t] = "run" /\ UNCHANGED <<ret, holder, tidVars>>
      BY <1>2 DEF ThreadSemaDown, At
  <2>2. PICK p \in {"run", "sd_wake"} : pc' = [pc EXCEPT ![t] = p]
      BY <1>2 DEF ThreadSemaDown, SemaDown, Goto
  <2>3. PICK x : lk' = [lk EXCEPT ![t] = x]
      BY <1>2 DEF ThreadSemaDown
  <2>4. /\ ret' = [ret EXCEPT ![t] = "run"] /\ UNCHANGED <<next_tid, tid, child>>
        /\ p \notin {"tc_inc", "la_clr", "tc_tid"}
      BY <2>1, <1>0, <1>run DEF tidVars
  <2> QED
      BY <2>1, <2>2, <2>3, <2>4, <1>0, PlainTid
<1>3. ASSUME NEW s \in Semas, ThreadSemaUp(t, s) PROVE TidInv'
    BY <1>3, SameTid DEF ThreadSemaUp, locVars
<1>4. ASSUME NEW p \in NewPris, ThreadSetPriority(t, p) PROVE TidInv'
    BY <1>4, SameTid DEF ThreadSetPriority, Crash, locVars
<1>5. ASSUME NEW u \in Threads, NEW p \in Pris, ThreadCreate(t, u, p) PROVE TidInv'
  <2>1. /\ pc[t] = "run" /\ pc' = [pc EXCEPT ![t] = "tc_lock"]
        /\ child' = [child EXCEPT ![t] = u] /\ UNCHANGED <<lk, ret, holder, next_tid, tid>>
      BY <1>5 DEF ThreadCreate, At, Goto, locVars
  <2>2. \A v \in Threads : v # t => child'[v] = child[v]
      BY <2>1, <1>0 DEF TidTypes
  <2> QED
      BY <2>1, <2>2, <1>0, <1>run, PlainTidInside
<1>6. CASE ThreadExit(t)
    BY <1>6, SameTid DEF ThreadExit, locVars
<1> QED
    BY <1>1, <1>2, <1>3, <1>4, <1>5, <1>6 DEF ThreadCall

\* allocate_tid and the end of thread_create.
LEMMA CreateTids ==
    ASSUME LockInv, Others, TidInv, NEW t \in Threads,
           CreateAcquire(t) \/ CreateTid(t) \/ CreateNextTid(t) \/ CreateUnblock(t)
    PROVE  TidInv'
<1>0. /\ LockTypes /\ TidTypes
      /\ \A x \in Threads : lk = [lk EXCEPT ![x] = lk[x]] /\ ret = [ret EXCEPT ![x] = ret[x]]
    BY DEF LockInv, Others, LockTypes
<1>run. pc[t] \in InCreate => ret[t] = "run" /\ child[t] \in Threads
    BY <1>0 DEF TidTypes, InAcquire, InRelease, InCreate
<1>alone. ASSUME NEW u \in Threads, pc[t] \in {"tc_tid", "tc_inc"}, pc[u] \in {"tc_tid", "tc_inc"}
          PROVE  u = t
    BY <1>alone DEF TidInv, TidLocked
<1>types. /\ pc \in [Threads -> PCs] /\ lk \in [Threads -> Sems \cup {NULL}]
          /\ ret \in [Threads -> Backs] /\ holder \in [Locks -> Threads \cup {NULL}]
          /\ next_tid \in Nat /\ tid \in [Threads -> Nat]
    BY <1>0 DEF LockTypes, TidTypes
<1>1. CASE CreateAcquire(t)
  <2>1. /\ \E p \in {"la_down", "la_pri"} : pc' = [pc EXCEPT ![t] = p]
        /\ pc[t] = "tc_lock"
        /\ lk' = [lk EXCEPT ![t] = TidLock] /\ ret' = [ret EXCEPT ![t] = "tc_tid"]
        /\ UNCHANGED <<holder, tidVars>>
      BY <1>1 DEF CreateAcquire, AcquireCheck, Call, Goto, At
  <2> QED
      BY <2>1, <1>0, PlainTid DEF tidVars, InAcquire
<1>2. CASE CreateTid(t)
  <2>1. /\ pc[t] = "tc_tid" /\ pc' = [pc EXCEPT ![t] = "tc_inc"]
        /\ tid' = [tid EXCEPT ![child[t]] = next_tid]
        /\ UNCHANGED <<lk, ret, holder, next_tid, child>>
      BY <1>2 DEF CreateTid, At, Goto, locVars
  <2>2. child[t] \in Threads
      BY <2>1, <1>run DEF InCreate
  <2>3. /\ \A u \in Threads : pc'[u] = IF u = t THEN "tc_inc" ELSE pc[u]
        /\ \A u \in Threads : tid'[u] = IF u = child[t] THEN next_tid ELSE tid[u]
      BY <2>1, <2>2, <1>types
  <2>4. \A u \in Threads : pc[u] # "tc_inc"
      BY <2>1, <1>alone
  <2>5. \A u \in Threads : tid[u] < next_tid
      BY <2>4 DEF TidInv, TidsGiven
  <2>6. TidLocked'
      BY <2>1, <2>2, <2>3, <2>4, <1>run DEF TidInv, TidLocked, InCreate
  <2>7. TidsGiven'
      BY <2>1, <2>3, <2>5 DEF TidInv, TidsGiven
  <2>8. TidsUnique'
      BY <2>3, <2>5, <1>types DEF TidInv, TidsUnique
  <2> QED
      BY <2>6, <2>7, <2>8 DEF TidInv
<1>3. CASE CreateNextTid(t)
  <2>1. /\ pc[t] = "tc_inc" /\ pc' = [pc EXCEPT ![t] = "lr_rel"]
        /\ next_tid' = tid[child[t]] + 1
        /\ holder[TidLock] = t /\ holder' = [holder EXCEPT ![TidLock] = NULL]
        /\ lk' = [lk EXCEPT ![t] = TidLock] /\ ret' = [ret EXCEPT ![t] = "tc_go"]
        /\ UNCHANGED <<tid, child>>
      BY <1>3 DEF CreateNextTid, ReleaseHolder, Call, At, Goto
  <2>2. next_tid' = next_tid + 1
      BY <2>1 DEF TidInv, TidLocked
  <2>3. \A u \in Threads : /\ pc'[u] = IF u = t THEN "lr_rel" ELSE pc[u]
                           /\ lk'[u] = IF u = t THEN TidLock ELSE lk[u]
                           /\ ret'[u] = IF u = t THEN "tc_go" ELSE ret[u]
      BY <2>1, <1>types
  <2>4. \A u \in Threads : u # t => pc[u] \notin {"tc_tid", "tc_inc"}
      BY <2>1, <1>alone
  <2>5. \A u \in Threads, l \in Locks : u # t /\ holder[l] = u => holder'[l] = u
      BY <2>1, <1>types
  <2>6. ASSUME NEW u \in Threads, u # t
        PROVE  /\ pc[u] = "la_clr" => holder'[lk[u]] = u
               /\ ret[u] = "tc_tid" => pc[u] \in InAcquire /\ lk[u] = TidLock
               /\ ret[u] # "tc_inc"
    <3>1. pc[u] = "la_clr" => lk[u] \in Locks
        BY <1>0 DEF LockTypes, InAcquire
    <3> QED
        BY <3>1, <2>5, <2>6 DEF TidInv, TidLocked
  <2>7. TidLocked'
      BY <2>3, <2>4, <2>6 DEF TidLocked
  <2>8. \A u \in Threads : tid[u] <= next_tid
    <3> SUFFICES ASSUME NEW u \in Threads PROVE tid[u] <= next_tid
        OBVIOUS
    <3>1. CASE tid[u] < next_tid
        BY <3>1, <1>types
    <3>2. CASE \E v \in Threads : pc[v] = "tc_inc" /\ child[v] = u
      <4>1. tid[u] = next_tid
          BY <3>2 DEF TidInv, TidLocked
      <4> QED
          BY <4>1, <1>types
    <3> QED
        BY <3>1, <3>2 DEF TidInv, TidsGiven
  <2>9. TidsGiven'
      BY <2>1, <2>2, <2>8, <1>types DEF TidsGiven
  <2>10. TidsUnique'
      BY <2>1 DEF TidInv, TidsUnique
  <2> QED
      BY <2>7, <2>9, <2>10 DEF TidInv
<1>4. CASE CreateUnblock(t)
  <2>1. /\ pc[t] = "tc_go" /\ pc' = [pc EXCEPT ![t] = "run"]
        /\ child' = [child EXCEPT ![t] = NULL] /\ UNCHANGED <<lk, ret, holder, next_tid, tid>>
      BY <1>4 DEF CreateUnblock, At, Goto, locVars
  <2>2. \A v \in Threads : v # t => child'[v] = child[v]
      BY <2>1, <1>0 DEF TidTypes
  <2> QED
      BY <2>1, <2>2, <1>0, <1>run, PlainTidInside DEF InCreate
<1> QED
    BY <1>1, <1>2, <1>3, <1>4

LEMMA TidNext == LockInv /\ Others /\ TidInv /\ [Next]_vars => TidInv'
<1> SUFFICES ASSUME LockInv, Others, TidInv, [Next]_vars PROVE TidInv'
    OBVIOUS
<1>1. CASE Interrupt \/ UNCHANGED vars
    BY <1>1, SameTid DEF Interrupt, TimeSliceExpiry, InterruptSemaUp, vars, locVars
<1>2. ASSUME NEW t \in Threads, KernelStep(t) PROVE TidInv'
    BY <1>2, LockStepTids, CreateTids DEF KernelStep
<1>3. ASSUME NEW t \in Threads, ThreadCall(t) PROVE TidInv'
    BY <1>3, CallTids
<1> QED
    BY <1>1, <1>2, <1>3 DEF Next

\* allocate_tid gives no tid twice, although it reads and writes next_tid with
\* interrupts on: tid_lock keeps the two together, through every preemption.
THEOREM TidsStayUnique == Spec => []TidsUnique
<1>1. Init => LockInv /\ Others /\ TidInv
    BY LockInvInit, TypeInvInit, TidInit DEF TypeInv, Others
<1>2. LockInv /\ Others /\ TidInv /\ [Next]_vars => (LockInv /\ Others /\ TidInv)'
    BY LockInvNext, OthersNext, TidNext
<1>3. TidInv => TidsUnique
    BY DEF TidInv
<1> QED
    BY <1>1, <1>2, <1>3, PTL DEF Spec

-----------------------------------------------------------------------------
(* What a step of Synch does to the control of one thread, for the modules     *)
(* that add steps of their own.                                                *)

\* Thread t stays where it is, goes on in its call, starts a call, returns from
\* it, or moves outside the calls.
Moves(t) ==
    \/ UNCHANGED <<pc[t], ret[t], lk[t], rcp[t]>>
    \/ /\ \E C \in {InAcquire, InRelease} : pc[t] \in C /\ pc'[t] \in C
       /\ UNCHANGED <<ret[t], lk[t]>>
    \/ /\ pc[t] \in {"run", "tc_lock", "tc_inc"}
       /\ pc'[t] \in InAcquire \cup InRelease \cup {"lt_own"}
       /\ ret'[t] \in {"run", "tc_tid", "tc_go"}
    \/ /\ pc[t] \in {"la_clr", "lt_own", "lr_pri"} /\ pc'[t] = ret[t]
       /\ ret'[t] = "run"
       /\ lk'[t] = IF ret[t] = "cw_down" THEN lk[t] ELSE NULL
    \/ /\ pc[t] \in {"run", "sd_wake"} \cup InCreate
       /\ pc'[t] \in {"run", "sd_wake"} \cup InCreate
       /\ UNCHANGED <<ret[t], rcp[t]>>

\* A step that only moves thread t.
LEMMA OneMoves ==
    ASSUME LockTypes, PriTypes, NEW t \in Threads, Moves(t),
           \A u \in Threads \ {t} : UNCHANGED <<pc[u], ret[u], lk[u], rcp[u]>>
    PROVE  \A u \in Threads : Moves(u)
    BY DEF Moves

LEMMA KernelMoves ==
    ASSUME LockInv, Others, NEW t \in Threads, KernelStep(t)
    PROVE  \A u \in Threads : Moves(u)
<1> USE DEF LockInv, Others, LockTypes, PriTypes
<1>1. \A u \in Threads \ {t} : UNCHANGED <<pc[u], ret[u], lk[u], rcp[u]>>
  <2>1. CASE \/ AcquirePriority(t) \/ AcquireRecipient(t) \/ DonatePush(t) \/ AcquireBene(t)
             \/ AcquireBeneElem(t) \/ AcquireHolder(t) \/ AcquireReturn(t) \/ TryAcquireHolder(t)
             \/ ReleasePriorities(t) \/ ReleaseReturn(t)
      BY <2>1 DEF AcquirePriority, AcquireRecipient, DonatePush, AcquireBene, AcquireBeneElem,
                  AcquireHolder, AcquireReturn, TryAcquireHolder, ReleasePriorities,
                  ReleaseReturn, Crash, Goto, Return, locVars
  <2>2. CASE DonateUpdate(t)
      BY <2>2 DEF DonateUpdate, UpdateDonation, Crash, Goto, locVars
  <2>3. CASE AcquireDown(t) \/ ReleaseUp(t) \/ SemaDownRetry(t)
      BY <2>3 DEF AcquireDown, ReleaseUp, SemaDownRetry, SemaDown, Goto, locVars
  <2>4. CASE CreateAcquire(t) \/ CreateTid(t) \/ CreateNextTid(t) \/ CreateUnblock(t)
      BY <2>4 DEF CreateAcquire, CreateTid, CreateNextTid, CreateUnblock, AcquireCheck,
                  ReleaseHolder, Call, Goto, locVars
  <2> QED
      BY <2>1, <2>2, <2>3, <2>4 DEF KernelStep
<1>2. Moves(t)
  <2>1. CASE \/ AcquirePriority(t) \/ AcquireRecipient(t) \/ DonatePush(t) \/ AcquireBene(t)
             \/ AcquireBeneElem(t) \/ AcquireHolder(t)
      BY <2>1 DEF AcquirePriority, AcquireRecipient, DonatePush, AcquireBene, AcquireBeneElem,
                  AcquireHolder, Crash, At, Goto, locVars, Moves, InAcquire
  <2>2. CASE DonateUpdate(t)
      BY <2>2 DEF DonateUpdate, UpdateDonation, Crash, At, Goto, locVars, Moves, InAcquire
  <2>3. CASE AcquireReturn(t) \/ TryAcquireHolder(t) \/ ReleaseReturn(t)
      BY <2>3 DEF AcquireReturn, TryAcquireHolder, ReleaseReturn, Crash, At, Goto, Return,
                  locVars, Moves
  <2>4. CASE AcquireDown(t)
      BY <2>4 DEF AcquireDown, SemaDown, At, Goto, locVars, Moves, InAcquire
  <2>5. CASE ReleasePriorities(t) \/ ReleaseUp(t)
      BY <2>5 DEF ReleasePriorities, ReleaseUp, Crash, At, Goto, locVars, Moves, InRelease
  <2>6. CASE SemaDownRetry(t)
      BY <2>6 DEF SemaDownRetry, SemaDown, At, Goto, locVars, Moves
  <2>7. CASE CreateAcquire(t) \/ CreateNextTid(t)
      BY <2>7 DEF CreateAcquire, CreateNextTid, AcquireCheck, ReleaseHolder, Call, At, Goto,
                  locVars, Moves, InAcquire, InRelease
  <2>8. CASE CreateTid(t) \/ CreateUnblock(t)
      BY <2>8 DEF CreateTid, CreateUnblock, At, Goto, locVars, Moves, InCreate
  <2> QED
      BY <2>1, <2>2, <2>3, <2>4, <2>5, <2>6, <2>7, <2>8 DEF KernelStep
<1> QED
    BY <1>1, <1>2, OneMoves

LEMMA CallMoves ==
    ASSUME LockInv, Others, NEW t \in Threads, ThreadCall(t)
    PROVE  \A u \in Threads : Moves(u)
<1> USE DEF LockInv, Others, LockTypes, PriTypes
<1>1. ASSUME NEW l \in Locks, LockAcquire(t, l) \/ LockTryAcquire(t, l) \/ LockRelease(t, l)
      PROVE  /\ Moves(t)
             /\ \A u \in Threads \ {t} : UNCHANGED <<pc[u], ret[u], lk[u], rcp[u]>>
    BY <1>1 DEF LockAcquire, LockTryAcquire, LockRelease, AcquireCheck, ReleaseHolder, Call,
                At, Goto, Moves, InAcquire, InRelease
<1>2. ASSUME NEW s \in Semas, ThreadSemaDown(t, s)
      PROVE  /\ Moves(t)
             /\ \A u \in Threads \ {t} : UNCHANGED <<pc[u], ret[u], lk[u], rcp[u]>>
    BY <1>2 DEF ThreadSemaDown, SemaDown, At, Goto, Moves
<1>3. ASSUME NEW u \in Threads, NEW p \in Pris, ThreadCreate(t, u, p)
      PROVE  /\ Moves(t)
             /\ \A v \in Threads \ {t} : UNCHANGED <<pc[v], ret[v], lk[v], rcp[v]>>
    BY <1>3 DEF ThreadCreate, At, Goto, locVars, Moves, InCreate
<1>4. ASSUME UNCHANGED <<pc, locVars>> PROVE \A u \in Threads : Moves(u)
    BY <1>4 DEF Moves, locVars
<1>5. ASSUME NEW s \in Semas, ThreadSemaUp(t, s) PROVE UNCHANGED <<pc, locVars>>
    BY <1>5 DEF ThreadSemaUp
<1>6. ASSUME NEW p \in NewPris, ThreadSetPriority(t, p) PROVE UNCHANGED <<pc, locVars>>
    BY <1>6 DEF ThreadSetPriority, Crash
<1>7. CASE ThreadExit(t)
    BY <1>4, <1>7 DEF ThreadExit
<1> QED
    BY <1>1, <1>2, <1>3, <1>4, <1>5, <1>6, <1>7, OneMoves DEF ThreadCall

\* The semaphores on the stacks of threads belong to Monitor and Alarm.
StackSemas == \A t \in Threads : value'[t] = value[t]

LEMMA OwnSemas ==
    ASSUME LockInv, NEW s \in Locks \cup Semas,
           SemaUp(s) \/ \E t, ok, wake : SemaDown(t, s, ok, wake)
    PROVE  StackSemas
<1>1. s \in Sems /\ s \notin Threads /\ Threads \subseteq Sems
    BY DistinctAssumption DEF Sems
<1>2. CASE SemaUp(s)
    BY <1>1, <1>2 DEF SemaUp, StackSemas, LockInv, LockTypes
<1>3. ASSUME NEW t, NEW ok, NEW wake, SemaDown(t, s, ok, wake) PROVE StackSemas
    BY <1>1, <1>3 DEF SemaDown, StackSemas, LockInv, LockTypes
<1> QED
    BY <1>2, <1>3

LEMMA NextMoves ==
    LockInv /\ Others /\ [Next]_vars => StackSemas /\ \A t \in Threads : Moves(t)
<1> SUFFICES ASSUME LockInv, Others, [Next]_vars
             PROVE  StackSemas /\ \A t \in Threads : Moves(t)
    OBVIOUS
<1>1. ASSUME UNCHANGED value PROVE StackSemas
    BY <1>1 DEF StackSemas
<1>2. ASSUME UNCHANGED <<pc, locVars>> PROVE \A u \in Threads : Moves(u)
    BY <1>2 DEF Moves, locVars
<1>3. CASE UNCHANGED vars
    BY <1>1, <1>2, <1>3 DEF vars, semVars
<1>4. CASE TimeSliceExpiry
    BY <1>1, <1>2, <1>4 DEF TimeSliceExpiry, semVars
<1>5. ASSUME NEW s \in Semas, InterruptSemaUp(s)
      PROVE  StackSemas /\ \A u \in Threads : Moves(u)
    BY <1>2, <1>5, OwnSemas DEF InterruptSemaUp
<1>6. ASSUME NEW t \in Threads, KernelStep(t) PROVE StackSemas
  <2>1. CASE \/ AcquirePriority(t) \/ AcquireRecipient(t) \/ DonatePush(t) \/ AcquireBene(t)
             \/ AcquireBeneElem(t) \/ AcquireHolder(t) \/ AcquireReturn(t) \/ TryAcquireHolder(t)
             \/ ReleasePriorities(t) \/ ReleaseReturn(t) \/ CreateTid(t) \/ CreateUnblock(t)
      BY <1>1, <2>1 DEF AcquirePriority, AcquireRecipient, DonatePush, AcquireBene,
                  AcquireBeneElem, AcquireHolder, AcquireReturn, TryAcquireHolder,
                  ReleasePriorities, ReleaseReturn, CreateTid, CreateUnblock, Crash, semVars
  <2>2. CASE DonateUpdate(t)
      BY <1>1, <2>2 DEF DonateUpdate, UpdateDonation, Crash, semVars
  <2>3. CASE CreateAcquire(t) \/ CreateNextTid(t)
      BY <1>1, <2>3 DEF CreateAcquire, CreateNextTid, AcquireCheck, semVars
  <2>4. CASE AcquireDown(t)
    <3>1. lk[t] \in Locks /\ SemaDown(t, lk[t], "la_own", "la_wake")
        BY <2>4 DEF AcquireDown, At, LockInv, LockTypes, InAcquire
    <3> QED
        BY <3>1, OwnSemas
  <2>5. CASE ReleaseUp(t)
    <3>1. lk[t] \in Locks /\ SemaUp(lk[t])
        BY <2>5 DEF ReleaseUp, At, LockInv, LockTypes, InRelease
    <3> QED
        BY <3>1, OwnSemas
  <2>6. CASE SemaDownRetry(t)
    <3>1. lk[t] \in Semas /\ SemaDown(t, lk[t], "run", "sd_wake")
        BY <2>6 DEF SemaDownRetry, At, LockInv, LockTypes
    <3> QED
        BY <3>1, OwnSemas
  <2> QED
      BY <1>6, <2>1, <2>2, <2>3, <2>4, <2>5, <2>6 DEF KernelStep
<1>7. ASSUME NEW t \in Threads, ThreadCall(t) PROVE StackSemas
  <2>1. ASSUME NEW l \in Locks, LockAcquire(t, l) \/ LockRelease(t, l) PROVE StackSemas
      BY <1>1, <2>1 DEF LockAcquire, LockRelease, AcquireCheck, semVars
  <2>2. ASSUME NEW l \in Locks, LockTryAcquire(t, l) PROVE StackSemas
      BY <2>2, DistinctAssumption DEF LockTryAcquire, StackSemas, LockInv, LockTypes, Sems
  <2>3. ASSUME NEW s \in Semas, ThreadSemaDown(t, s) PROVE StackSemas
      BY <2>3, OwnSemas DEF ThreadSemaDown
  <2>4. ASSUME NEW s \in Semas, ThreadSemaUp(t, s) PROVE StackSemas
      BY <2>4, OwnSemas DEF ThreadSemaUp
  <2>5. ASSUME NEW p \in NewPris, ThreadSetPriority(t, p) PROVE StackSemas
      BY <1>1, <2>5 DEF ThreadSetPriority, Crash, semVars
  <2>6. ASSUME NEW u \in Threads, NEW p \in Pris, ThreadCreate(t, u, p) PROVE StackSemas
      BY <1>1, <2>6 DEF ThreadCreate, semVars
  <2>7. CASE ThreadExit(t)
      BY <1>1, <2>7 DEF ThreadExit, semVars
  <2> QED
      BY <1>7, <2>1, <2>2, <2>3, <2>4, <2>5, <2>6, <2>7 DEF ThreadCall
<1> QED
    BY <1>3, <1>4, <1>5, <1>6, <1>7, KernelMoves, CallMoves DEF Next, Interrupt
=============================================================================
