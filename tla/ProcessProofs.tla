----------------------------- MODULE ProcessProofs -----------------------------
(***************************************************************************)
(* Proofs about Process: types, the lists of children, who owns a          *)
(* process_info, what exec and wait return, and the denial of writes.      *)
(***************************************************************************)
EXTENDS Process, ListProofs

-----------------------------------------------------------------------------
(* The inductive invariant. *)

Kids(p) == ToSet(children[p])

\* In process_execute and process_wait a process uses a process_info of its list,
\* in process_wait that of a child.  In process_exit the pointer that it loaded is
\* to the child of the first process_info, or that child has cleared it.
Uses(p) ==
    /\ pc[p] \in {"release", "starting", "waiting"} => blk[p] \in Kids(p)
    /\ pc[p] = "waiting" => info[blk[p]].tid # NULL
    /\ pc[p] = "unlink" =>
           /\ children[p] # <<>>
           /\ kid[p] \in {info[Head(children[p])].tid, NULL}
           /\ kid[p] = NULL => info[Head(children[p])].child = NULL
    /\ pc[p] \in {"none", "close", "test", "mark", "finish", "success", "creator", "dead"} =>
           children[p] = <<>>

\* An allocated process_info belongs to one process, which refers to it until its
\* struct thread is gone.
Owned ==
    /\ \A b \in live :
          /\ info[b].tid # NULL => pc[info[b].tid] # "none" /\ reaped[info[b].tid] = <<>>
          /\ info[b].tid # NULL /\ pc[info[b].tid] # "dead" => p_info[info[b].tid] = b
    /\ \A a, b \in live : info[a].tid = info[b].tid /\ info[a].tid # NULL => a = b

\* While no process has used a process_info that was no longer its own, a process
\* that starts has a parent that waits for it, with its process_info.
Starters ==
    ~stale => \A c \in Procs : pc[c] \in Starting =>
        /\ p_info[c] \in live /\ info[p_info[c]].tid = c
        /\ info[p_info[c]].start = 0
        /\ pc[c] = "load" => loaded[c] = "no"
        /\ pc[c] # "load" => loaded[c] = "ok"
        /\ \E p \in Procs : pc[p] \in {"release", "starting"} /\ blk[p] = p_info[c]

\* child and sema_finish agree with what the child has done; so do, while no process
\* has used a process_info that was no longer its own, success and sema_start.
Results ==
    /\ \A b \in live :
          /\ info[b].child \in {info[b].tid, NULL}
          /\ ~stale => (info[b].success <=> info[b].tid = NULL \/ loaded[info[b].tid] # "failed")
          /\ ~stale /\ info[b].start > 0 => info[b].tid # NULL /\ loaded[info[b].tid] # "no"
          /\ info[b].tid # NULL /\ pc[info[b].tid] \in Finished => info[b].finish > 0
    /\ \A c \in Procs : pc[c] = "none" =>
          loaded[c] = "no" /\ told[c] = "no" /\ reaped[c] = <<>> /\ status[c] = -1
    /\ ~stale => \A c \in Procs : pc[c] = "creator" => loaded[c] = "failed"

\* ... and the child of a process in process_execute has told its parent, or is
\* going to.
Served ==
    ~stale => \A p \in Procs : pc[p] \in {"release", "starting"} /\ info[blk[p]].tid # NULL =>
        \/ info[blk[p]].start > 0 \/ pc[info[blk[p]].tid] \in Starting
        \/ ~info[blk[p]].success /\ pc[info[blk[p]].tid] # "dead"

\* While no process has used a process_info that was no longer its own, a child
\* clears its pointer and ups sema_finish only when it comes to that, and has
\* stored its status.
Timely ==
    ~stale => \A b \in live : info[b].tid # NULL =>
        /\ info[b].child = NULL => pc[info[b].tid] \in {"finish"} \cup Finished
        /\ info[b].finish > 0 => pc[info[b].tid] \in Finished
        /\ pc[info[b].tid] = "store" \/ info[b].exit_status = status[info[b].tid]

\* deny_write_cnt counts the descriptors that deny writes.
Denied ==
    /\ deny_write_cnt = Cardinality({p \in Procs : fd[p] = "denied"})
    /\ \A p \in Procs : /\ fd[p] = "open" => pc[p] = "deny"
                        /\ pc[p] \in {"none", "load", "open"} => fd[p] = "no"

\* ListedOnce, but that processes which have ended have an empty list.
Listed ==
    /\ UNION {Kids(p) : p \in Procs} = live
    /\ \A p \in Procs : IsInjective(children[p])
    /\ \A p, q \in Procs : p # q => Kids(p) \cap Kids(q) = {}

\* What holds of the process_infos and the processes that share them.
Shared == /\ \A p \in Procs : Uses(p)
          /\ Owned /\ Starters /\ Results /\ Served /\ ExecTells
          /\ Timely /\ OwnInfo /\ StatusReported

Inv == PTypeOK /\ Denied /\ Listed /\ Shared

\* What the proofs need to know of types and lists.
Basics ==
    /\ \A b \in live : info[b].tid \in Procs \cup {NULL}
    /\ \A p \in Procs : /\ Kids(p) \subseteq live
                        /\ children[p] # <<>> => Head(children[p]) \in Kids(p)
    /\ NULL \notin Procs /\ NULL \notin live

LEMMA InvBasics == Inv => Basics
<1> SUFFICES ASSUME Inv PROVE Basics
    OBVIOUS
<1>1. live \subseteq Blocks /\ \A b \in Blocks : info[b].tid \in Procs \cup {NULL}
    BY DEF Inv, PTypeOK, InfoType
<1>2. \A p \in Procs : Kids(p) \subseteq live
    BY DEF Inv, Listed
<1>3. \A p \in Procs : children[p] # <<>> => Head(children[p]) \in Kids(p)
    BY ListElements DEF Inv, PTypeOK, Kids
<1> QED
    BY <1>1, <1>2, <1>3, NullAssumption DEF Basics, Procs

-----------------------------------------------------------------------------
(* Steps that change no process_info and no list. *)

QuietVars == <<p_info, children, info, live, stale, loaded, told, reaped>>

LEMMA QuietStep ==
    ASSUME Shared, Basics, NEW p \in Procs, UNCHANGED QuietVars,
           \A q \in Procs \ {p} : /\ pc'[q] = pc[q] /\ blk'[q] = blk[q] /\ kid'[q] = kid[q]
                                  /\ status'[q] = status[q],
           pc[p] \notin {"none", "store", "finish", "success", "creator", "dead"},
           pc'[p] \notin {"none", "finish", "success", "creator"},
           pc'[p] \in Attached => pc[p] \in Attached,
           pc'[p] \in Starting <=> pc[p] \in Starting,
           pc[p] # "load",
           pc'[p] # "load",
           pc'[p] \in {"release", "starting"} <=> pc[p] \in {"release", "starting"},
           pc[p] \in {"release", "starting"} => blk'[p] = blk[p],
           pc'[p] = "dead" => p_info[p] = NULL,
           status'[p] # status[p] => pc'[p] = "store" \/ p_info[p] = NULL,
           Uses(p)'
    PROVE  Shared'
<1> USE DEF QuietVars
<1>1. ASSUME NEW q \in Procs PROVE Uses(q)'
    BY <1>1 DEF Shared, Uses, Kids
<1>2. Owned'
    BY DEF Shared, Owned, Basics
<1>3. Starters'
    BY DEF Shared, Starters, Starting
<1>4. Results'
    BY DEF Shared, Results, Owned, Basics, Finished
<1>5. Served'
    BY DEF Shared, Served, Starting, Owned, Basics, Uses
<1>6. ExecTells'
    BY DEF Shared, ExecTells
<1>7. Timely'
    BY DEF Shared, Timely, Owned, Basics, Finished
<1>8. OwnInfo'
    BY DEF Shared, OwnInfo
<1>9. StatusReported'
    BY DEF Shared, StatusReported, Finished
<1> QED
    BY <1>1, <1>2, <1>3, <1>4, <1>5, <1>6, <1>7, <1>8, <1>9 DEF Shared

\* The lists and descriptors are not touched.
LEMMA ListedSame == Listed /\ UNCHANGED <<children, live>> => Listed'
    BY DEF Listed, Kids

LEMMA DeniedSame ==
    ASSUME Denied, UNCHANGED <<fd, deny_write_cnt>>,
           \A q \in Procs : /\ pc[q] = "deny" => pc'[q] = "deny" \/ fd[q] # "open"
                            /\ pc'[q] \in {"none", "load", "open"} =>
                                   pc[q] \in {"none", "load", "open"}
    PROVE  Denied'
    BY DEF Denied

LEMMA FaultStep ==
    ASSUME Inv, NEW why \in {"null", "freed", "assert", "raced"}, Fault(why)
    PROVE  Inv'
<1> USE DEF Fault, procVars, heapVars, fileVars, history
<1>1. PTypeOK'
    BY DEF Inv, PTypeOK
<1>2. Denied' /\ Listed'
    BY ListedSame, DeniedSame DEF Inv
<1>3. Shared'
    BY DEF Inv, Shared, Uses, Kids, Owned, Starters, Results, Served, ExecTells, Timely, OwnInfo,
           StatusReported
<1> QED
    BY <1>1, <1>2, <1>3 DEF Inv
\* The descriptors that deny writes are counted.
LEMMA DeniedFinite ==
    /\ IsFiniteSet({q \in Procs : fd[q] = "denied"})
    /\ Cardinality({q \in Procs : fd[q] = "denied"}) \in Nat
<1>1. IsFiniteSet(Procs)
    BY FS_Interval, TidAssumption DEF Procs
<1> QED
    BY <1>1, FS_Subset, FS_CardinalityType

LEMMA OpenCount ==
    ASSUME PTypeOK, Denied, NEW p \in Procs, NEW x \in {"no", "open"},
           pc[p] = "open", pc'[p] = "deny", fd' = [fd EXCEPT ![p] = x],
           \A q \in Procs \ {p} : pc'[q] = pc[q], UNCHANGED deny_write_cnt
    PROVE  Denied'
<1>1. {q \in Procs : fd'[q] = "denied"} = {q \in Procs : fd[q] = "denied"}
    BY DEF PTypeOK, Denied
<1>2. \A q \in Procs : /\ fd'[q] = "open" => pc'[q] = "deny"
                       /\ pc'[q] \in {"none", "load", "open"} => fd'[q] = "no"
    BY DEF PTypeOK, Denied
<1> QED
    BY <1>1, <1>2 DEF Denied

LEMMA CloseCount ==
    ASSUME PTypeOK, Denied, NEW p \in Procs, CloseFile(p),
           \A q \in Procs \ {p} : pc'[q] = pc[q]
    PROVE  Denied' /\ deny_write_cnt' \in Nat
<1> DEFINE D == {q \in Procs : fd[q] = "denied"}
<1>1. {q \in Procs : fd'[q] = "denied"} = D \ {p}
    BY DEF PTypeOK, CloseFile
<1>2. IsFiniteSet(D \ {p}) /\ Cardinality(D \ {p}) = IF p \in D THEN Cardinality(D) - 1 ELSE Cardinality(D)
  <2> HIDE DEF D
  <2>1. IsFiniteSet(D)
      BY DeniedFinite DEF D
  <2> QED
      BY <2>1, FS_RemoveElement
<1>3. deny_write_cnt' = Cardinality(D \ {p})
    BY <1>2 DEF Denied, CloseFile
<1>4. \A q \in Procs : /\ fd'[q] = "open" => pc'[q] = "deny"
                       /\ pc'[q] \in {"none", "load", "open"} => fd'[q] = "no"
    BY DEF PTypeOK, Denied, CloseFile
<1>5. Cardinality(D \ {p}) \in Nat
    BY <1>2, FS_CardinalityType
<1> QED
    BY <1>1, <1>3, <1>4, <1>5 DEF Denied

LEMMA DenyCount ==
    ASSUME PTypeOK, Denied, NEW p \in Procs, fd[p] = "open",
           fd' = [fd EXCEPT ![p] = "denied"], deny_write_cnt' = deny_write_cnt + 1,
           pc'[p] = "ready", \A q \in Procs \ {p} : pc'[q] = pc[q]
    PROVE  Denied'
<1> DEFINE D == {q \in Procs : fd[q] = "denied"}
<1>1. {q \in Procs : fd'[q] = "denied"} = D \cup {p} /\ p \notin D
    BY DEF PTypeOK
<1>2. Cardinality(D \cup {p}) = Cardinality(D) + 1
  <2>1. IsFiniteSet(D)
      BY DeniedFinite
  <2> HIDE DEF D
  <2> QED
      BY <1>1, <2>1, FS_AddElement
<1>3. \A q \in Procs : /\ fd'[q] = "open" => pc'[q] = "deny"
                       /\ pc'[q] \in {"none", "load", "open"} => fd'[q] = "no"
    BY DEF PTypeOK, Denied
<1> QED
    BY <1>1, <1>2, <1>3 DEF Denied

\* process_wait finds a process_info of its list.
LEMMA FirstMatch ==
    ASSUME PTypeOK, NEW p \in Procs, NEW t, Matches(p, t) # {},
           NEW b, b = children[p][CHOOSE i \in Matches(p, t) : \A j \in Matches(p, t) : i <= j]
    PROVE  b \in Kids(p) /\ b \in Blocks /\ info[b].tid = t
<1>1. children[p] \in Seq(Blocks)
    BY DEF PTypeOK
<1>2. Matches(p, t) \subseteq Nat
    BY <1>1, LenProperties DEF Matches
<1>3. \E i \in Matches(p, t) : \A j \in Matches(p, t) : i <= j
    BY <1>2, LeastExists
<1>4. PICK i \in Matches(p, t) : b = children[p][i]
    BY <1>3
<1> QED
    BY <1>1, <1>4, ElementOfSeq, LenProperties DEF Matches, Kids, ToSet

LEMMA ExecNoPageInv ==
    ASSUME Inv, NEW p \in Procs, ExecNoPage(p)
    PROVE  Inv'
<1> USE DEF ExecNoPage, procVars, heapVars, fileVars, history
<1>1. PTypeOK'
    BY DEF Inv, PTypeOK
<1>2. Listed'
    BY ListedSame DEF Inv
<1>3. Denied'
    BY DeniedSame DEF Inv, PTypeOK
<1>4. Uses(p)'
    BY DEF Inv, Shared, Uses, Kids, PTypeOK
<1>5. Shared'
    BY <1>4, InvBasics, QuietStep DEF Inv, PTypeOK, QuietVars, Attached, Starting
<1> QED
    BY <1>1, <1>2, <1>3, <1>5 DEF Inv

LEMMA ExecReleaseInv ==
    ASSUME Inv, NEW p \in Procs, ExecRelease(p)
    PROVE  Inv'
<1> USE DEF ExecRelease, Step, procVars, heapVars, fileVars, history
<1>1. PTypeOK'
    BY DEF Inv, PTypeOK
<1>2. Listed'
    BY ListedSame DEF Inv
<1>3. Denied'
    BY DeniedSame DEF Inv, PTypeOK
<1>4. Uses(p)'
    BY DEF Inv, Shared, Uses, Kids, PTypeOK
<1>5. Shared'
    BY <1>4, InvBasics, QuietStep DEF Inv, PTypeOK, QuietVars, Attached, Starting
<1> QED
    BY <1>1, <1>2, <1>3, <1>5 DEF Inv

LEMMA OpenExecutableInv ==
    ASSUME Inv, NEW p \in Procs, OpenExecutable(p)
    PROVE  Inv'
<1>1. CASE Fault("null")
    BY <1>1, FaultStep
<1>2. CASE /\ pc[p] = "open" /\ pc' = [pc EXCEPT ![p] = "deny"]
           /\ \/ fd' = [fd EXCEPT ![p] = "open"] /\ UNCHANGED oom
              \/ UNCHANGED fd /\ oom' = (oom \/ present)
           /\ UNCHANGED <<p_info, children, blk, kid, status, heapVars, file_lock, present,
                          deny_write_cnt, fault, stale, loaded, told, reaped>>
  <2> USE <1>2 DEF heapVars
  <2>1. PTypeOK'
      BY DEF Inv, PTypeOK
  <2>2. Listed'
      BY ListedSame DEF Inv
  <2>3. Denied'
      BY OpenCount, DeniedSame DEF Inv, PTypeOK, Denied
  <2>4. Uses(p)'
      BY DEF Inv, Shared, Uses, Kids, PTypeOK
  <2>5. Shared'
      BY <2>4, InvBasics, QuietStep DEF Inv, PTypeOK, QuietVars, Attached, Starting
  <2> QED
      BY <2>1, <2>2, <2>3, <2>5 DEF Inv
<1> QED
    BY <1>1, <1>2 DEF OpenExecutable, Step

LEMMA WaitFindInv ==
    ASSUME Inv, NEW p \in Procs, NEW t \in Procs, WaitFind(p, t)
    PROVE  Inv'
<1> USE DEF WaitFind, Step, procVars, heapVars, fileVars, history
<1>0. blk'[p] \in Kids(p) /\ blk'[p] \in Blocks /\ info[blk'[p]].tid = t
  <2>1. blk'[p] = children[p][CHOOSE i \in Matches(p, t) : \A j \in Matches(p, t) : i <= j]
      BY DEF Inv, PTypeOK
  <2> QED
      BY <2>1, FirstMatch DEF Inv
<1>1. PTypeOK'
    BY <1>0 DEF Inv, PTypeOK
<1>2. Listed'
    BY ListedSame DEF Inv
<1>3. Denied'
    BY DeniedSame DEF Inv, PTypeOK
<1>4. Uses(p)'
    BY <1>0, InvBasics DEF Basics, Inv, Shared, Uses, Kids, PTypeOK
<1>5. Shared'
    BY <1>4, InvBasics, QuietStep DEF Inv, PTypeOK, QuietVars, Attached, Starting
<1> QED
    BY <1>1, <1>2, <1>3, <1>5 DEF Inv

LEMMA ExitInv ==
    ASSUME Inv, NEW p \in Procs, NEW s \in Statuses, Exit(p, s)
    PROVE  Inv'
<1> USE DEF Exit, Step, procVars, heapVars, fileVars, history
<1>1. PTypeOK'
    BY DEF Inv, PTypeOK
<1>2. Listed'
    BY ListedSame DEF Inv
<1>3. Denied'
    BY DeniedSame DEF Inv, PTypeOK
<1>4. Uses(p)'
    BY DEF Inv, Shared, Uses, Kids, PTypeOK
<1>5. Shared'
    BY <1>4, InvBasics, QuietStep DEF Inv, PTypeOK, QuietVars, Attached, Starting
<1> QED
    BY <1>1, <1>2, <1>3, <1>5 DEF Inv

LEMMA KillInv ==
    ASSUME Inv, NEW p \in Procs, Kill(p)
    PROVE  Inv'
<1> USE DEF Kill, Step, procVars, heapVars, fileVars, history
<1>1. PTypeOK'
    BY DEF Inv, PTypeOK
<1>2. Listed'
    BY ListedSame DEF Inv
<1>3. Denied'
    BY DeniedSame DEF Inv, PTypeOK
<1>4. Uses(p)'
    BY DEF Inv, Shared, Uses, Kids, PTypeOK
<1>5. Shared'
    BY <1>4, InvBasics, QuietStep DEF Inv, PTypeOK, QuietVars, Attached, Starting
<1> QED
    BY <1>1, <1>2, <1>3, <1>5 DEF Inv

LEMMA FindChildInv ==
    ASSUME Inv, NEW p \in Procs, FindChild(p)
    PROVE  Inv'
<1> USE DEF FindChild, procVars, heapVars, fileVars, history
<1>0. children[p] # <<>> => /\ Head(children[p]) \in live /\ Head(children[p]) \in Blocks
                             /\ info[Head(children[p])] \in InfoType
    BY ListElements, InvBasics DEF Inv, PTypeOK, Kids, Basics
<1>1. PTypeOK'
    BY <1>0 DEF Inv, PTypeOK, InfoType
<1>2. Listed'
    BY ListedSame DEF Inv
<1>3. Denied'
    BY DeniedSame DEF Inv, PTypeOK
<1>4. Uses(p)'
    BY <1>0, InvBasics DEF Basics, Results, Inv, Shared, Uses, Kids, PTypeOK
<1>5. Shared'
    BY <1>4, InvBasics, QuietStep DEF Inv, PTypeOK, QuietVars, Attached, Starting
<1> QED
    BY <1>1, <1>2, <1>3, <1>5 DEF Inv

LEMMA ExitCloseInv ==
    ASSUME Inv, NEW p \in Procs, ExitClose(p)
    PROVE  Inv'
<1> USE DEF ExitClose, Step, procVars, heapVars, fileVars, history
<1>1. PTypeOK'
    BY CloseCount DEF Inv, PTypeOK, CloseFile
<1>2. Listed'
    BY ListedSame DEF Inv
<1>3. Denied'
    BY CloseCount DEF Inv, PTypeOK
<1>4. Uses(p)'
    BY DEF Inv, Shared, Uses, Kids, PTypeOK
<1>5. Shared'
    BY <1>4, InvBasics, QuietStep DEF Inv, PTypeOK, QuietVars, Attached, Starting
<1> QED
    BY <1>1, <1>2, <1>3, <1>5 DEF Inv

LEMMA ExitTestInv ==
    ASSUME Inv, NEW p \in Procs, ExitTest(p)
    PROVE  Inv'
<1> USE DEF ExitTest, Step, procVars, heapVars, fileVars, history
<1>1. PTypeOK'
    BY DEF Inv, PTypeOK
<1>2. Listed'
    BY ListedSame DEF Inv
<1>3. Denied'
    BY DeniedSame DEF Inv, PTypeOK
<1>4. Uses(p)'
    BY DEF Inv, Shared, Uses, Kids, PTypeOK
<1>5. Shared'
    BY <1>4, InvBasics, QuietStep DEF Inv, PTypeOK, QuietVars, Attached, Starting
<1> QED
    BY <1>1, <1>2, <1>3, <1>5 DEF Inv

LEMMA RemoveExecutableInv ==
    ASSUME Inv, NEW p \in Procs, RemoveExecutable(p)
    PROVE  Inv'
<1> USE DEF RemoveExecutable, procVars, heapVars, fileVars, history
<1>1. PTypeOK'
    BY DEF Inv, PTypeOK
<1>2. Listed'
    BY ListedSame DEF Inv
<1>3. Denied'
    BY DeniedSame DEF Inv, PTypeOK
<1>4. Uses(p)'
    BY DEF Inv, Shared, Uses, Kids, PTypeOK
<1>5. Shared'
    BY <1>4, InvBasics, QuietStep DEF Inv, PTypeOK, QuietVars, Attached, Starting
<1> QED
    BY <1>1, <1>2, <1>3, <1>5 DEF Inv

LEMMA CloseExecutableInv ==
    ASSUME Inv, NEW p \in Procs, CloseExecutable(p)
    PROVE  Inv'
<1> USE DEF CloseExecutable, procVars, heapVars, fileVars, history
<1>1. PTypeOK'
    BY CloseCount DEF Inv, PTypeOK, CloseFile
<1>2. Listed'
    BY ListedSame DEF Inv
<1>3. Denied'
    BY CloseCount DEF Inv, PTypeOK
<1>4. Uses(p)'
    BY DEF Inv, Shared, Uses, Kids, PTypeOK
<1>5. Shared'
    BY <1>4, InvBasics, QuietStep DEF Inv, PTypeOK, QuietVars, Attached, Starting
<1> QED
    BY <1>1, <1>2, <1>3, <1>5 DEF Inv
LEMMA DenyWriteInv ==
    ASSUME Inv, NEW p \in Procs, DenyWrite(p)
    PROVE  Inv'
<1>1. CASE Fault("assert")
    BY <1>1, FaultStep
<1>2. CASE /\ pc[p] = "deny" /\ pc' = [pc EXCEPT ![p] = "ready"] /\ fd[p] = "open"
           /\ fd' = [fd EXCEPT ![p] = "denied"]
           /\ deny_write_cnt' = deny_write_cnt + 1
           /\ UNCHANGED <<p_info, children, blk, kid, status, heapVars, file_lock, present,
                          fault, history>>
  <2> USE <1>2 DEF heapVars, history
  <2>1. PTypeOK'
      BY DEF Inv, PTypeOK
  <2>2. Listed'
      BY ListedSame DEF Inv
  <2>3. Denied'
      BY DenyCount DEF Inv, PTypeOK
  <2>4. Uses(p)'
      BY DEF Inv, Shared, Uses, Kids, PTypeOK
  <2>5. Shared'
      BY <2>4, InvBasics, QuietStep DEF Inv, PTypeOK, QuietVars, Attached, Starting
  <2> QED
      BY <2>1, <2>2, <2>3, <2>5 DEF Inv
<1> QED
    BY <1>1, <1>2 DEF DenyWrite, Step

-----------------------------------------------------------------------------
(* Steps of a process through a pointer to a process_info, its own or not. *)

LEMMA ThroughStep ==
    ASSUME Shared, Basics, NEW p \in Procs, NEW b \in live,
           UNCHANGED <<children, kid, status, live, loaded, told, reaped>>,
           \A q \in Procs \ {p} : pc'[q] = pc[q] /\ blk'[q] = blk[q] /\ p_info'[q] = p_info[q],
           stale' = (stale \/ info[b].tid # p),
           \/ pc[p] = "ready" /\ pc'[p] = "user"
           \/ pc[p] = "store" /\ pc'[p] = "children"
           \/ pc[p] = "mark" /\ pc'[p] = "finish"
           \/ pc[p] = "finish" /\ pc'[p] = "success"
           \/ pc[p] = "success" /\ pc'[p] = IF info[b].success THEN "dead" ELSE "creator"
           \/ pc[p] = "creator" /\ pc'[p] = "dead",
           p_info'[p] = IF pc'[p] = "dead" THEN NULL ELSE p_info[p],
           \A a \in live \ {b} : info'[a] = info[a],
           info'[b].tid = info[b].tid /\ info'[b].success = info[b].success,
           info'[b].child = IF pc[p] = "mark" THEN NULL ELSE info[b].child,
           info'[b].exit_status = IF pc[p] = "store" THEN status[p] ELSE info[b].exit_status,
           pc[p] \in {"ready", "finish", "success", "creator"} => p_info[p] = b,
           pc[p] = "finish" => info'[b].finish > 0,
           pc[p] # "finish" => info'[b].finish = info[b].finish,
           pc[p] \in {"ready", "creator"} => info'[b].start > 0,
           pc[p] \notin {"ready", "creator"} => info'[b].start = info[b].start
    PROVE  Shared'
<1>0. ~stale' => ~stale /\ info[b].tid = p
    OBVIOUS
<1>1. ASSUME NEW q \in Procs PROVE Uses(q)'
    BY <1>1 DEF Shared, Uses, Basics, Kids
<1>2. Owned'
    BY DEF Shared, Owned, Basics
<1>3. Starters'
    BY <1>0 DEF Shared, Starters, Starting, Results
<1>4. Results'
  <2>1. ASSUME NEW a \in live PROVE info'[a].child \in {info'[a].tid, NULL}
      BY <2>1 DEF Shared, Results
  <2>2. ASSUME NEW a \in live, ~stale'
        PROVE  /\ info'[a].success <=> info'[a].tid = NULL \/ loaded'[info'[a].tid] # "failed"
               /\ info'[a].start > 0 => info'[a].tid # NULL /\ loaded'[info'[a].tid] # "no"
    <3>1. CASE a = b
      <4>1. info[b].tid = p /\ p \in Procs /\ p # NULL
          BY <1>0, <2>2 DEF Basics
      <4>2. info[b].success <=> loaded[p] # "failed"
          BY <1>0, <2>2, <4>1 DEF Shared, Results
      <4>3. pc[p] \in {"ready", "creator"} => loaded[p] # "no"
          BY <1>0, <2>2 DEF Shared, Results, Starters, Starting
      <4>4. info[b].start > 0 => loaded[p] # "no"
          BY <1>0, <2>2, <4>1 DEF Shared, Results
      <4> QED
          BY <3>1, <4>1, <4>2, <4>3, <4>4
    <3>2. CASE a # b
        BY <1>0, <2>2, <3>2 DEF Shared, Results
    <3> QED
        BY <3>1, <3>2
  <2>3. ASSUME NEW a \in live, info'[a].tid # NULL, pc'[info'[a].tid] \in Finished
        PROVE  info'[a].finish > 0
      BY <2>3 DEF Shared, Results, Owned, Basics, Finished
  <2>4. \A c \in Procs : pc'[c] = "none" =>
            loaded'[c] = "no" /\ told'[c] = "no" /\ reaped'[c] = <<>> /\ status'[c] = -1
      BY DEF Shared, Results
  <2>5. ASSUME NEW c \in Procs, ~stale', pc'[c] = "creator" PROVE loaded'[c] = "failed"
    <3>1. CASE c = p
      <4>1. info[b].tid = p /\ p # NULL /\ pc[p] = "success" /\ ~info[b].success
          BY <1>0, <2>5, <3>1 DEF Basics
      <4> QED
          BY <1>0, <2>5, <3>1, <4>1 DEF Shared, Results
    <3>2. CASE c # p
        BY <1>0, <2>5, <3>2 DEF Shared, Results
    <3> QED
        BY <3>1, <3>2
  <2> QED
      BY <2>1, <2>2, <2>3, <2>4, <2>5 DEF Results
<1>5. Served'
  <2> SUFFICES ASSUME ~stale', NEW q \in Procs, pc'[q] \in {"release", "starting"},
                      info'[blk'[q]].tid # NULL
               PROVE  \/ info'[blk'[q]].start > 0 \/ pc'[info'[blk'[q]].tid] \in Starting
                      \/ ~info'[blk'[q]].success /\ pc'[info'[blk'[q]].tid] # "dead"
      BY DEF Served
  <2>1. /\ q # p /\ pc[q] = pc'[q] /\ blk'[q] = blk[q] /\ blk[q] \in live
        /\ info'[blk[q]].tid = info[blk[q]].tid /\ info'[blk[q]].success = info[blk[q]].success
      BY DEF Shared, Uses, Basics
  <2>2. \/ info[blk[q]].start > 0 \/ pc[info[blk[q]].tid] \in Starting
        \/ ~info[blk[q]].success /\ pc[info[blk[q]].tid] # "dead"
      BY <1>0, <2>1 DEF Shared, Served
  <2>3. CASE info[blk[q]].tid # p
      BY <2>1, <2>2, <2>3 DEF Basics
  <2>4. CASE info[blk[q]].tid = p
    <3>1. p_info[p] = blk[q]
        BY <2>1, <2>4 DEF Shared, Owned
    <3>2. info'[blk[q]].start > 0 \/ info'[blk[q]].start = info[blk[q]].start
        BY <2>1
    <3>3. CASE pc[p] \in {"ready", "creator"}
        BY <2>1, <3>1, <3>3
    <3>4. CASE pc[p] = "success"
      <4>1. info[b].start > 0 \/ ~info[b].success
          BY <2>2, <2>4, <3>1, <3>4 DEF Starting
      <4> QED
          BY <2>1, <2>4, <3>1, <3>4, <4>1
    <3>5. CASE pc[p] \in {"store", "mark", "finish"}
        BY <2>1, <2>2, <2>4, <3>2, <3>5 DEF Starting
    <3>6. pc[p] \in {"ready", "store", "mark", "finish", "success", "creator"}
        OBVIOUS
    <3> QED
        BY <3>3, <3>4, <3>5, <3>6
  <2> QED
      BY <2>3, <2>4
<1>6. ExecTells'
    BY <1>0 DEF Shared, ExecTells
<1>7. Timely'
  <2> SUFFICES ASSUME ~stale', NEW a \in live, info[a].tid # NULL
               PROVE  /\ info'[a].child = NULL =>
                             pc'[info[a].tid] \in {"finish"} \cup Finished
                      /\ info'[a].finish > 0 => pc'[info[a].tid] \in Finished
                      /\ pc'[info[a].tid] = "store" \/ info'[a].exit_status = status[info[a].tid]
      BY DEF Timely
  <2>1. /\ info[a].child = NULL => pc[info[a].tid] \in {"finish"} \cup Finished
        /\ info[a].finish > 0 => pc[info[a].tid] \in Finished
        /\ pc[info[a].tid] = "store" \/ info[a].exit_status = status[info[a].tid]
      BY <1>0 DEF Shared, Timely
  <2>2. CASE a = b
      BY <1>0, <2>1, <2>2 DEF Finished
  <2>3. CASE a # b
    <3>1. info[a].tid \in Procs \ {p}
        BY <1>0, <2>3 DEF Shared, Owned, Basics
    <3> QED
        BY <2>1, <2>3, <3>1
  <2> QED
      BY <2>2, <2>3
<1>8. OwnInfo'
    BY <1>0 DEF Shared, OwnInfo, Attached, Starting
<1>9. StatusReported'
    BY <1>0 DEF Shared, StatusReported, Finished
<1> QED
    BY <1>1, <1>2, <1>3, <1>4, <1>5, <1>6, <1>7, <1>8, <1>9 DEF Shared

LEMMA InfoChange ==
    ASSUME NEW r \in InfoType
    PROVE  /\ [r EXCEPT !.start = @ + 1] \in InfoType
           /\ [r EXCEPT !.finish = @ + 1] \in InfoType
           /\ [r EXCEPT !.start = @ + 1].start > 0
           /\ [r EXCEPT !.finish = @ + 1].finish > 0
<1>1. r.start \in Nat /\ r.finish \in Nat
    BY DEF InfoType
<1>2. r.start + 1 \in Nat /\ r.start + 1 > 0 /\ r.finish + 1 \in Nat /\ r.finish + 1 > 0
    BY <1>1
<1> QED
    BY <1>2 DEF InfoType

\* What such a step does when the pointer is good, and that it is a fault if not.
LEMMA ThroughRest ==
    ASSUME Inv, NEW p \in Procs, NEW b, NEW from, NEW to, NEW new,
           Through(p, b, from, to, new), ~Inv',
           b \in Blocks => new \in InfoType,
           from \in {"ready", "store", "mark", "finish", "success", "creator"},
           to \in {"user", "children", "finish", "success", "creator", "dead"}
    PROVE  /\ PTypeOK' /\ Listed' /\ Denied'
           /\ b \in live /\ b \in Blocks /\ pc[p] = from /\ pc'[p] = to
           /\ UNCHANGED <<children, kid, status, live, loaded, told, reaped>>
           /\ \A q \in Procs \ {p} : pc'[q] = pc[q] /\ blk'[q] = blk[q] /\ p_info'[q] = p_info[q]
           /\ stale' = (stale \/ info[b].tid # p)
           /\ p_info'[p] = IF to = "dead" THEN NULL ELSE p_info[p]
           /\ info'[b] = new /\ \A a \in live \ {b} : info'[a] = info[a]
<1>1. ~(pc[p] = from /\ Bad(b) /\ Crash(b))
    BY FaultStep DEF Crash
<1>2. /\ pc[p] = from /\ pc' = [pc EXCEPT ![p] = to] /\ b \in live
      /\ info' = [info EXCEPT ![b] = new]
      /\ stale' = (stale \/ info[b].tid # p)
      /\ blk' = [blk EXCEPT ![p] = NULL]
      /\ p_info' = [p_info EXCEPT ![p] = IF to = "dead" THEN NULL ELSE @]
      /\ UNCHANGED <<children, kid, status, live, fileVars, fault, oom, loaded, told, reaped>>
    BY <1>1 DEF Through, Step, Bad
<1> USE <1>2 DEF fileVars
<1>3. PTypeOK'
  <2>1. b \in Blocks /\ info' \in [Blocks -> InfoType]
      BY DEF Inv, PTypeOK
  <2>2. stale' \in BOOLEAN
      BY DEF Inv, PTypeOK
  <2> QED
      BY <2>1, <2>2 DEF Inv, PTypeOK
<1>4. Listed'
    BY ListedSame DEF Inv
<1>5. Denied'
    BY DeniedSame DEF Inv, PTypeOK
<1>6. /\ pc'[p] = to /\ b \in Blocks
      /\ \A q \in Procs \ {p} : pc'[q] = pc[q] /\ blk'[q] = blk[q] /\ p_info'[q] = p_info[q]
      /\ p_info'[p] = IF to = "dead" THEN NULL ELSE p_info[p]
    BY DEF Inv, PTypeOK
<1>7. info'[b] = new /\ \A a \in live \ {b} : info'[a] = info[a]
    BY DEF Inv, PTypeOK
<1> QED
    BY <1>3, <1>4, <1>5, <1>6, <1>7

LEMMA ReadyInv ==
    ASSUME Inv, NEW p \in Procs, Ready(p)
    PROVE  Inv'
<1> SUFFICES ASSUME ~Inv' PROVE FALSE
    OBVIOUS
<1> DEFINE b == p_info[p]
           new == [info[p_info[p]] EXCEPT !.start = @ + 1]
<1>0. b \in Blocks => info[b] \in InfoType
    BY DEF Inv, PTypeOK
<1>1. b \in Blocks => new \in InfoType
    BY <1>0, InfoChange DEF Inv, PTypeOK, InfoType
<1>2. Through(p, b, "ready", "user", new)
    BY DEF Ready
<1> HIDE DEF new
<1>3. Shared'
    BY <1>0, <1>1, <1>2, ThroughRest, InvBasics, InfoChange, ThroughStep DEF Inv, InfoType, new
<1> QED
    BY <1>1, <1>2, <1>3, ThroughRest DEF Inv

LEMMA ExitStoreInv ==
    ASSUME Inv, NEW p \in Procs, ExitStore(p)
    PROVE  Inv'
<1> SUFFICES ASSUME ~Inv' PROVE FALSE
    OBVIOUS
<1> DEFINE b == blk[p]
           new == [info[blk[p]] EXCEPT !.exit_status = status[p]]
<1>0. b \in Blocks => info[b] \in InfoType
    BY DEF Inv, PTypeOK
<1>1. b \in Blocks => new \in InfoType
    BY <1>0, InfoChange DEF Inv, PTypeOK, InfoType
<1>2. Through(p, b, "store", "children", new)
    BY DEF ExitStore
<1> HIDE DEF new
<1>3. Shared'
    BY <1>0, <1>1, <1>2, ThroughRest, InvBasics, InfoChange, ThroughStep DEF Inv, InfoType, new
<1> QED
    BY <1>1, <1>2, <1>3, ThroughRest DEF Inv

LEMMA ExitMarkInv ==
    ASSUME Inv, NEW p \in Procs, ExitMark(p)
    PROVE  Inv'
<1> SUFFICES ASSUME ~Inv' PROVE FALSE
    OBVIOUS
<1> DEFINE b == blk[p]
           new == [info[blk[p]] EXCEPT !.child = NULL]
<1>0. b \in Blocks => info[b] \in InfoType
    BY DEF Inv, PTypeOK
<1>1. b \in Blocks => new \in InfoType
    BY <1>0, InfoChange DEF Inv, PTypeOK, InfoType
<1>2. Through(p, b, "mark", "finish", new)
    BY DEF ExitMark
<1> HIDE DEF new
<1>3. Shared'
    BY <1>0, <1>1, <1>2, ThroughRest, InvBasics, InfoChange, ThroughStep DEF Inv, InfoType, new
<1> QED
    BY <1>1, <1>2, <1>3, ThroughRest DEF Inv

LEMMA ExitFinishInv ==
    ASSUME Inv, NEW p \in Procs, ExitFinish(p)
    PROVE  Inv'
<1> SUFFICES ASSUME ~Inv' PROVE FALSE
    OBVIOUS
<1> DEFINE b == p_info[p]
           new == [info[p_info[p]] EXCEPT !.finish = @ + 1]
<1>0. b \in Blocks => info[b] \in InfoType
    BY DEF Inv, PTypeOK
<1>1. b \in Blocks => new \in InfoType
    BY <1>0, InfoChange DEF Inv, PTypeOK, InfoType
<1>2. Through(p, b, "finish", "success", new)
    BY DEF ExitFinish
<1> HIDE DEF new
<1>3. Shared'
    BY <1>0, <1>1, <1>2, ThroughRest, InvBasics, InfoChange, ThroughStep DEF Inv, InfoType, new
<1> QED
    BY <1>1, <1>2, <1>3, ThroughRest DEF Inv

LEMMA ExitSuccessInv ==
    ASSUME Inv, NEW p \in Procs, ExitSuccess(p)
    PROVE  Inv'
<1> SUFFICES ASSUME ~Inv' PROVE FALSE
    OBVIOUS
<1> DEFINE b == p_info[p]
           new == info[p_info[p]]
           to == IF info[b].success THEN "dead" ELSE "creator"
<1>0. b \in Blocks => info[b] \in InfoType
    BY DEF Inv, PTypeOK
<1>1. b \in Blocks => new \in InfoType
    BY <1>0, InfoChange DEF Inv, PTypeOK, InfoType
<1>2. Through(p, b, "success", to, new)
    BY DEF ExitSuccess
<1> HIDE DEF new
<1>3. Shared'
    BY <1>0, <1>1, <1>2, ThroughRest, InvBasics, InfoChange, ThroughStep DEF Inv, InfoType, new
<1> QED
    BY <1>1, <1>2, <1>3, ThroughRest DEF Inv

LEMMA ExitReleaseInv ==
    ASSUME Inv, NEW p \in Procs, ExitRelease(p)
    PROVE  Inv'
<1> SUFFICES ASSUME ~Inv' PROVE FALSE
    OBVIOUS
<1> DEFINE b == p_info[p]
           new == [info[p_info[p]] EXCEPT !.start = @ + 1]
<1>0. b \in Blocks => info[b] \in InfoType
    BY DEF Inv, PTypeOK
<1>1. b \in Blocks => new \in InfoType
    BY <1>0, InfoChange DEF Inv, PTypeOK, InfoType
<1>2. Through(p, b, "creator", "dead", new)
    BY DEF ExitRelease
<1> HIDE DEF new
<1>3. Shared'
    BY <1>0, <1>1, <1>2, ThroughRest, InvBasics, InfoChange, ThroughStep DEF Inv, InfoType, new
<1> QED
    BY <1>1, <1>2, <1>3, ThroughRest DEF Inv

-----------------------------------------------------------------------------
(* process_execute, load *)

LEMMA ExecInv ==
    ASSUME Inv, NEW p \in Procs, NEW b \in Blocks \ live, NEW c \in {NULL} \cup Fresh,
           Exec(p, b, c)
    PROVE  Inv'
<1> USE DEF Exec
<1>0. Basics
    BY InvBasics
<1>1. /\ pc[p] = "user" /\ c # p /\ b # NULL /\ b \notin live
      /\ c # NULL => c \in Procs /\ pc[c] = "none"
      /\ pc'[p] = "release" /\ (c # NULL => pc'[c] = "load" /\ p_info'[c] = b)
      /\ \A q \in Procs \ {p, c} : pc'[q] = pc[q]
      /\ \A q \in Procs \ {c} : p_info'[q] = p_info[q]
      /\ \A q \in Procs \ {p} : children'[q] = children[q] /\ blk'[q] = blk[q]
      /\ blk'[p] = b /\ children'[p] = Append(children[p], b)
    BY NullAssumption DEF Fresh, Procs, Inv, PTypeOK
<1>2. PTypeOK'
  <2>1. children' \in [Procs -> Seq(Blocks)]
      BY AppendList DEF Inv, PTypeOK
  <2>2. info' \in [Blocks -> InfoType]
      BY <1>1 DEF Inv, PTypeOK, InfoType, Blank
  <2>3. pc' \in [Procs -> {"none", "user", "release", "starting", "load", "open", "deny", "ready",
                         "waiting", "store", "children", "unlink", "close", "test", "mark",
                         "finish", "success", "creator", "dead"}]
      BY DEF Inv, PTypeOK
  <2>4. oom' \in BOOLEAN
      BY DEF Inv, PTypeOK
  <2> QED
      BY <2>1, <2>2, <2>3, <2>4 DEF Inv, PTypeOK
<1>3. Kids(p)' = Kids(p) \cup {b} /\ IsInjective(children'[p])
    BY <1>0, <1>1, AppendList DEF Inv, PTypeOK, Listed, Kids, Basics
<1>4. \A q \in Procs \ {p} : Kids(q)' = Kids(q)
    BY <1>1 DEF Kids
<1>5. Listed'
    BY <1>0, <1>1, <1>3, <1>4 DEF Inv, Listed, Basics
<1>6. Denied'
  <2>1. \A q \in Procs : /\ pc[q] = "deny" => pc'[q] = "deny"
                         /\ pc'[q] \in {"none", "load", "open"} => pc[q] \in {"none", "load", "open"}
      BY <1>0, <1>1 DEF Basics
  <2> QED
      BY <2>1, DeniedSame DEF Inv
<1>7. /\ info'[b].tid = c /\ info'[b].child = c /\ info'[b].success /\ info'[b].exit_status = -1
      /\ info'[b].start = 0 /\ info'[b].finish = 0
      /\ \A a \in live : info'[a] = info[a]
      /\ live' = live \cup {b}
    BY DEF Inv, PTypeOK, Blank
<1>8. \A a \in live : info[a].tid # NULL => info[a].tid # c /\ info[a].tid \in Procs
    BY <1>0, <1>1 DEF Basics, Inv, Shared, Owned
<1>9. UNCHANGED <<kid, status, stale, loaded, told, reaped>>
    OBVIOUS
<1>10. Shared
    BY DEF Inv
<1> HIDE DEF Exec
<1>11. ASSUME NEW q \in Procs PROVE Uses(q)'
    BY <1>0, <1>1, <1>3, <1>4, <1>7, <1>9, <1>10, <1>11 DEF Uses, Shared, Basics
<1>12. Owned'
    BY <1>0, <1>1, <1>7, <1>8, <1>9, <1>10 DEF Owned, Shared, Basics, Results
<1>13. Starters'
    BY <1>0, <1>1, <1>7, <1>8, <1>9, <1>10 DEF Starters, Shared, Basics, Results, Starting
<1>14. Results'
    BY <1>0, <1>1, <1>7, <1>8, <1>9, <1>10 DEF Shared, Basics, Results, Finished
<1>15. Served'
    BY <1>0, <1>1, <1>7, <1>8, <1>9, <1>10 DEF Served, Shared, Basics, Uses, Starting
<1>16. ExecTells'
    BY <1>9, <1>10 DEF Shared, ExecTells
<1>17. Timely'
    BY <1>0, <1>1, <1>7, <1>8, <1>9, <1>10 DEF Timely, Shared, Basics, Results, Finished
<1>18. OwnInfo'
    BY <1>0, <1>1, <1>7, <1>8, <1>9, <1>10 DEF OwnInfo, Shared, Basics, Attached, Starting
<1>19. StatusReported'
  <2>1. \A q \in Procs : pc'[q] = pc[q] \/ q = p \/ pc[q] = "none"
      BY <1>0, <1>1 DEF Basics
  <2> QED
      BY <1>1, <1>9, <1>10, <2>1 DEF StatusReported, Shared, Results, Finished
<1> QED
    BY <1>2, <1>5, <1>6, <1>11, <1>12, <1>13, <1>14, <1>15, <1>16, <1>17, <1>18, <1>19
       DEF Inv, Shared

LEMMA ProcessExecuteInv ==
    ASSUME Inv, NEW p \in Procs, ProcessExecute(p)
    PROVE  Inv'
<1>1. CASE ExecNoPage(p)
    BY <1>1, ExecNoPageInv
<1>2. CASE ExecNoBlock(p)
    BY <1>2, FaultStep DEF ExecNoBlock
<1>3. CASE \E b \in Blocks \ live, c \in {NULL} \cup {t \in Fresh : \A u \in Fresh : t <= u} :
               Exec(p, b, c)
    BY <1>3, ExecInv
<1> QED
    BY <1>1, <1>2, <1>3 DEF ProcessExecute

LEMMA ExecReturnInv ==
    ASSUME Inv, NEW p \in Procs, ExecReturn(p)
    PROVE  Inv'
<1> USE DEF ExecReturn, Step, fileVars
<1> DEFINE b == blk[p]
           t == info[b].tid
<1>0. Basics /\ Shared
    BY InvBasics DEF Inv
<1>1. b \in Kids(p) /\ b \in live /\ b \in Blocks
    BY <1>0 DEF Inv, Shared, Uses, Basics, PTypeOK
<1>2. info[b] \in InfoType /\ info[b].start > 0 /\ info[b].start \in Nat
    BY <1>1 DEF Inv, PTypeOK, InfoType
<1>3. ~stale => t \in Procs /\ loaded[t] # "no" /\ (info[b].success <=> loaded[t] # "failed")
    BY <1>0, <1>1, <1>2 DEF Shared, Results, Basics
<1>4. info[b].start - 1 \in Nat
    BY <1>2
<1>5. /\ info'[b].tid = t /\ info'[b].child = info[b].child /\ info'[b].success = info[b].success
      /\ info'[b].exit_status = info[b].exit_status /\ info'[b].finish = info[b].finish
      /\ \A a \in live \ {b} : info'[a] = info[a]
    BY <1>1, <1>2 DEF Inv, PTypeOK, InfoType
<1>6. /\ pc[p] = "starting" /\ pc'[p] = "user"
      /\ \A q \in Procs \ {p} : pc'[q] = pc[q] /\ blk'[q] = blk[q]
      /\ \A q \in Procs \ {t} : told'[q] = told[q]
      /\ ~stale => told'[t] = IF loaded[t] # "failed" THEN "tid" ELSE "error"
      /\ UNCHANGED <<p_info, children, kid, status, live, stale, loaded, reaped>>
    BY <1>3 DEF Inv, PTypeOK, Answered
<1>7. PTypeOK'
  <2>1. info' \in [Blocks -> InfoType]
      BY <1>1, <1>2, <1>4 DEF Inv, PTypeOK, InfoType
  <2>2. told' \in [Procs -> {"no", "tid", "error"}]
      BY DEF Inv, PTypeOK, Answered
  <2> QED
      BY <2>1, <2>2 DEF Inv, PTypeOK
<1>8. Listed'
    BY ListedSame DEF Inv
<1>9. Denied'
    BY DeniedSame DEF Inv, PTypeOK
<1>10. \A q \in Procs \ {p} : b \notin Kids(q)
    BY <1>1 DEF Inv, Listed
<1>11. /\ ~stale => loaded[t] \in {"ok", "failed"}
       /\ t \in Procs => pc[t] # "none"
    BY <1>0, <1>1, <1>3, NullAssumption DEF Inv, PTypeOK, Shared, Owned, Basics
<1> HIDE DEF ExecReturn, Step, b, t
<1>12. ASSUME NEW q \in Procs PROVE Uses(q)'
    BY <1>0, <1>1, <1>5, <1>6, <1>10, <1>12 DEF Uses, Shared, Basics, Kids, t
<1>13. Owned'
    BY <1>0, <1>5, <1>6 DEF Owned, Shared, Basics, t
<1>14. Starters'
    BY <1>0, <1>1, <1>2, <1>5, <1>6 DEF Starters, Shared, Basics, Starting, b, t
<1>15. Results'
    BY <1>0, <1>1, <1>2, <1>3, <1>5, <1>6, <1>11 DEF Shared, Basics, Results, Owned, Finished, t
<1>16. Served'
    BY <1>0, <1>5, <1>6, <1>10 DEF Served, Shared, Basics, Uses, Starting, t
<1>17. ExecTells'
    BY <1>0, <1>3, <1>6, <1>11 DEF Shared, ExecTells
<1>18. Timely'
    BY <1>0, <1>5, <1>6 DEF Timely, Shared, Basics, Finished, t
<1>19. OwnInfo'
    BY <1>0, <1>5, <1>6 DEF OwnInfo, Shared, Basics, Attached, Starting, t
<1>20. StatusReported'
    BY <1>0, <1>6 DEF StatusReported, Shared, Finished
<1> QED
    BY <1>7, <1>8, <1>9, <1>12, <1>13, <1>14, <1>15, <1>16, <1>17, <1>18, <1>19, <1>20
       DEF Inv, Shared

LEMMA LoadInv ==
    ASSUME Inv, NEW p \in Procs, NEW ok \in BOOLEAN, Load(p, ok)
    PROVE  Inv'
<1> SUFFICES ASSUME ~Inv' PROVE FALSE
    OBVIOUS
<1> DEFINE b == p_info[p]
<1>a. /\ pc[p] = "load" /\ pc' = [pc EXCEPT ![p] = IF ok THEN "open" ELSE "children"]
      /\ b \in live
      /\ loaded' = [loaded EXCEPT ![p] = IF ok THEN "ok" ELSE "failed"]
      /\ info' = [info EXCEPT ![b].success = ok]
      /\ oom' = (oom \/ (ok /\ ~present))
      /\ stale' = (stale \/ info[b].tid # p)
      /\ UNCHANGED <<p_info, children, blk, kid, status, live, fileVars, fault, told, reaped>>
    BY FaultStep DEF Load, Crash, Bad, Step
<1> USE <1>a DEF fileVars
<1>0. Basics /\ Shared
    BY InvBasics DEF Inv
<1>1. b \in live /\ b \in Blocks /\ info[b] \in InfoType
    BY DEF Inv, PTypeOK
<1>2. /\ info'[b].tid = info[b].tid /\ info'[b].child = info[b].child
      /\ (info'[b].success <=> ok)
      /\ info'[b].exit_status = info[b].exit_status /\ info'[b].finish = info[b].finish
      /\ info'[b].start = info[b].start
      /\ \A a \in live \ {b} : info'[a] = info[a]
    BY <1>1 DEF Inv, PTypeOK, InfoType
<1>3. /\ pc[p] = "load"
      /\ (ok => pc'[p] = "open" /\ loaded'[p] = "ok")
      /\ (~ok => pc'[p] = "children" /\ loaded'[p] = "failed")
      /\ \A q \in Procs \ {p} : pc'[q] = pc[q] /\ loaded'[q] = loaded[q]
      /\ UNCHANGED <<p_info, children, blk, kid, status, live, told, reaped>>
    BY DEF Inv, PTypeOK
<1>4. PTypeOK'
  <2>1. info' \in [Blocks -> InfoType]
      BY <1>1 DEF Inv, PTypeOK, InfoType
  <2>2. oom' \in BOOLEAN /\ stale' \in BOOLEAN
      BY DEF Inv, PTypeOK
  <2> QED
      BY <2>1, <2>2 DEF Inv, PTypeOK
<1>5. Listed'
    BY ListedSame DEF Inv
<1>6. Denied'
    BY DeniedSame DEF Inv, PTypeOK
<1>7. p # NULL
    BY <1>0 DEF Basics
<1>8. ~stale' => /\ ~stale /\ info[b].tid = p /\ info[b].start = 0 /\ loaded[p] = "no"
                 /\ \A a \in live \ {b} : info[a].tid # p
  <2> SUFFICES ASSUME ~stale' PROVE /\ info[b].tid = p /\ info[b].start = 0 /\ loaded[p] = "no"
                                    /\ \A a \in live \ {b} : info[a].tid # p
      OBVIOUS
  <2>1. ~stale /\ info[b].tid = p
      OBVIOUS
  <2>2. info[b].start = 0 /\ loaded[p] = "no"
      BY <1>0, <1>3, <2>1 DEF Shared, Starters, Starting
  <2>3. \A a \in live \ {b} : info[a].tid # p
      BY <1>0, <1>1, <1>7, <2>1 DEF Shared, Owned
  <2> QED
      BY <2>1, <2>2, <2>3
<1> HIDE <1>a
<1>9. ASSUME NEW q \in Procs PROVE Uses(q)'
    BY <1>0, <1>1, <1>2, <1>3, <1>9 DEF Uses, Shared, Basics, Kids
<1>10. Owned'
    BY <1>0, <1>1, <1>2, <1>3 DEF Owned, Shared, Basics
<1>11. Starters'
    BY <1>0, <1>1, <1>2, <1>3, <1>8 DEF Starters, Shared, Basics, Starting
<1>12. Results'
    BY <1>0, <1>1, <1>2, <1>3, <1>7, <1>8 DEF Shared, Basics, Results, Owned, Finished
<1>13. Served'
    BY <1>0, <1>1, <1>2, <1>3, <1>8 DEF Served, Shared, Basics, Uses, Starting
<1>14. ExecTells'
    BY <1>0, <1>1, <1>3, <1>8 DEF Shared, ExecTells
<1>15. Timely'
    BY <1>0, <1>1, <1>2, <1>3, <1>8 DEF Timely, Shared, Basics, Finished
<1>16. OwnInfo'
    BY <1>0, <1>1, <1>2, <1>3, <1>8 DEF OwnInfo, Shared, Basics, Attached, Starting
<1>17. StatusReported'
    BY <1>0, <1>1, <1>3, <1>8 DEF StatusReported, Shared, Finished
<1> QED
    BY <1>4, <1>5, <1>6, <1>9, <1>10, <1>11, <1>12, <1>13, <1>14, <1>15, <1>16, <1>17
       DEF Inv, Shared

-----------------------------------------------------------------------------
(* A process_info is freed: by process_wait, and by process_exit. *)

LEMMA ListedRemove ==
    ASSUME Listed, NEW p \in Procs, NEW b \in Kids(p), live' = live \ {b},
           Kids(p)' = Kids(p) \ {b}, IsInjective(children'[p]),
           \A q \in Procs \ {p} : children'[q] = children[q]
    PROVE  Listed'
<1>1. \A q \in Procs \ {p} : Kids(q)' = Kids(q) /\ b \notin Kids(q)
    BY DEF Listed, Kids
<1>2. UNION {Kids(q)' : q \in Procs} = live \ {b}
  <2>1. ASSUME NEW x PROVE (\E q \in Procs : x \in Kids(q)') <=> x \in live \ {b}
      BY <1>1 DEF Listed
  <2> QED
      BY <2>1
<1>3. \A q, r \in Procs : q # r => Kids(q)' \cap Kids(r)' = {}
    BY <1>1 DEF Listed
<1> QED
    BY <1>2, <1>3 DEF Listed

LEMMA FreedStep ==
    ASSUME Shared, Basics, Listed, NEW p \in Procs, NEW b \in Kids(p),
           live' = live \ {b}, Kids(p)' = Kids(p) \ {b},
           \A q \in Procs \ {p} : /\ pc'[q] = pc[q] /\ blk'[q] = blk[q] /\ kid'[q] = kid[q]
                                  /\ children'[q] = children[q],
           \A a \in live \ {b} : info'[a] = info[a],
           <<pc[p], pc'[p]>> \in {<<"waiting", "user">>, <<"unlink", "children">>},
           UNCHANGED <<status, stale, loaded, told>>,
           \A q \in Procs : p_info'[q] # p_info[q] => info[b].tid = q /\ p_info'[q] = NULL,
           \A q \in Procs : reaped'[q] # reaped[q] => info[b].tid = q,
           ~stale => StatusReported',
           \/ stale \/ info[b].child = NULL \/ p_info'[info[b].tid] = NULL
           \/ pc[info[b].tid] \notin Attached
    PROVE  Shared'
<1>0. /\ b \in live /\ pc[p] \in {"waiting", "unlink"} /\ pc'[p] \in {"user", "children"}
      /\ \A q \in Procs \ {p} : b \notin Kids(q) /\ Kids(q)' = Kids(q)
    BY DEF Basics, Listed, Kids
<1>1. ASSUME NEW q \in Procs PROVE Uses(q)'
  <2>1. CASE q = p
      BY <1>0, <2>1 DEF Uses
  <2>2. CASE q # p
    <3>1. children[q] # <<>> => Head(children[q]) \in Kids(q)
        BY DEF Basics
    <3> QED
      BY <1>0, <2>2, <3>1 DEF Shared, Uses, Basics
  <2> QED
      BY <2>1, <2>2
<1>2. Owned'
    BY <1>0 DEF Shared, Owned, Basics
<1>3. Starters'
  <2> SUFFICES ASSUME ~stale, NEW c \in Procs, pc'[c] \in Starting
               PROVE  /\ p_info'[c] \in live' /\ info'[p_info'[c]].tid = c
                      /\ info'[p_info'[c]].start = 0
                      /\ pc'[c] = "load" => loaded'[c] = "no"
                      /\ pc'[c] # "load" => loaded'[c] = "ok"
                      /\ \E q \in Procs : pc'[q] \in {"release", "starting"} /\ blk'[q] = p_info'[c]
      BY DEF Starters
  <2>1. c # p /\ pc[c] = pc'[c]
      BY <1>0 DEF Starting
  <2>2. /\ p_info[c] \in live /\ info[p_info[c]].tid = c
        /\ info[p_info[c]].start = 0
        /\ pc[c] = "load" => loaded[c] = "no"
        /\ pc[c] # "load" => loaded[c] = "ok"
      BY <2>1 DEF Shared, Starters
  <2>3. PICK q \in Procs : pc[q] \in {"release", "starting"} /\ blk[q] = p_info[c]
      BY <2>1 DEF Shared, Starters
  <2>4. q # p /\ p_info[c] # b
      BY <1>0, <2>3 DEF Shared, Uses
  <2>5. p_info'[c] = p_info[c]
      BY <1>0, <2>2, <2>4 DEF Shared, Owned, Basics
  <2> QED
      BY <2>1, <2>2, <2>3, <2>4, <2>5
<1>4. Results'
    BY <1>0 DEF Shared, Results, Owned, Basics, Finished
<1>5. Served'
    BY <1>0 DEF Shared, Served, Starting, Uses, Basics
<1>6. ExecTells'
    BY DEF Shared, ExecTells
<1>7. Timely'
    BY <1>0 DEF Shared, Timely, Owned, Basics, Finished
<1>8. OwnInfo'
    BY <1>0, <1>3 DEF Shared, OwnInfo, Attached, Starting, Starters, Basics
<1>9. StatusReported'
    BY DEF StatusReported
<1> QED
    BY <1>1, <1>2, <1>3, <1>4, <1>5, <1>6, <1>7, <1>8, <1>9 DEF Shared

LEMMA BlankType == Blank \in InfoType
    BY DEF Blank, InfoType

LEMMA UnlinkList ==
    ASSUME NEW S, NEW s \in Seq(S), NEW b \in ToSet(s), IsInjective(s)
    PROVE  /\ Unlink(s, b) \in Seq(S) /\ IsInjective(Unlink(s, b))
           /\ ToSet(Unlink(s, b)) = ToSet(s) \ {b}
<1>1. Len(s) \in Nat /\ DOMAIN s = 1..Len(s) /\ \E i \in DOMAIN s : s[i] = b
    BY ListElements
<1>2. PICK i \in 1..Len(s) : i = (CHOOSE j \in DOMAIN s : s[j] = b) /\ s[i] = b
    BY <1>1
<1> QED
    BY <1>2, RemoveAtList DEF Unlink

LEMMA WaitReturnInv ==
    ASSUME Inv, NEW p \in Procs, WaitReturn(p)
    PROVE  Inv'
<1> USE DEF WaitReturn, Step, fileVars
<1> DEFINE b == blk[p]
           t == info[b].tid
<1>0. Basics /\ Shared
    BY InvBasics DEF Inv
<1>1. /\ pc[p] = "waiting" /\ pc'[p] = "user" /\ b \in Kids(p) /\ b \in live /\ b \in Blocks
      /\ t \in Procs /\ reaped[t] = <<>> /\ info[b].finish > 0 /\ pc[t] # "none"
    BY <1>0 DEF Inv, Shared, Uses, Owned, Basics, PTypeOK
<1>2. info[b] \in InfoType
    BY <1>1 DEF Inv, PTypeOK
<1>3. /\ children'[p] = Unlink(children[p], b) /\ children'[p] \in Seq(Blocks)
      /\ IsInjective(children'[p]) /\ ToSet(children'[p]) = ToSet(children[p]) \ {b}
      /\ \A q \in Procs \ {p} : children'[q] = children[q]
    BY <1>1, UnlinkList DEF Inv, PTypeOK, Listed, Kids
<1>4. reaped'[t] = <<info[b].exit_status>> /\ \A q \in Procs \ {t} : reaped'[q] = reaped[q]
    BY <1>1, <1>2 DEF Inv, PTypeOK, InfoType
<1>5. PTypeOK'
  <2>1. info' \in [Blocks -> InfoType]
      BY BlankType DEF Inv, PTypeOK
  <2>2. children' \in [Procs -> Seq(Blocks)]
      BY <1>3 DEF Inv, PTypeOK
  <2>3. reaped' \in [Procs -> Seq(Statuses \cup {-1})]
      BY <1>1, <1>2, AppendProperties DEF Inv, PTypeOK, InfoType
  <2> QED
      BY <2>1, <2>2, <2>3 DEF Inv, PTypeOK
<1>6. Listed'
    BY <1>1, <1>3, ListedRemove DEF Inv, Kids
<1>7. Denied'
    BY DeniedSame DEF Inv, PTypeOK
<1>8. ~stale => pc[t] \in Finished /\ info[b].exit_status = status[t]
    BY <1>0, <1>1 DEF Shared, Timely, Basics, Finished
<1>9. /\ \A q \in Procs \ {p} : pc'[q] = pc[q] /\ blk'[q] = blk[q]
      /\ \A a \in live \ {b} : info'[a] = info[a]
      /\ live' = live \ {b} /\ UNCHANGED <<p_info, kid, status, stale, loaded, told>>
    BY DEF Inv, PTypeOK
<1>10. ~stale => StatusReported'
    BY <1>0, <1>1, <1>4, <1>8, <1>9 DEF Shared, StatusReported, Finished
<1>11. Shared'
  <2>1. stale \/ pc[t] \notin Attached
      BY <1>8 DEF Attached, Starting, Finished
  <2> QED
      BY <1>0, <1>1, <1>3, <1>4, <1>9, <1>10, <2>1, FreedStep DEF Inv, Kids
<1> QED
    BY <1>5, <1>6, <1>7, <1>11 DEF Inv

LEMMA FreeChildInv ==
    ASSUME Inv, NEW p \in Procs, FreeChild(p)
    PROVE  Inv'
<1> SUFFICES ASSUME ~Inv' PROVE FALSE
    OBVIOUS
<1> DEFINE b == Head(children[p])
           c == kid[p]
<1>1. /\ pc[p] = "unlink" /\ pc' = [pc EXCEPT ![p] = "children"]
      /\ p_info' = [q \in Procs |-> IF q = c THEN NULL ELSE p_info[q]]
      /\ live' = live \ {b}
      /\ info' = [info EXCEPT ![b] = Blank]
      /\ children' = [children EXCEPT ![p] = Tail(@)]
      /\ kid' = [kid EXCEPT ![p] = NULL]
      /\ UNCHANGED <<blk, status, fileVars, fault, history>>
    BY FaultStep DEF FreeChild, Step
<1> USE <1>1 DEF fileVars, history
<1>0. Basics /\ Shared
    BY InvBasics DEF Inv
<1>2. /\ children[p] # <<>> /\ b \in Kids(p) /\ b \in live /\ b \in Blocks
      /\ c \in {info[b].tid, NULL} /\ (c = NULL => info[b].child = NULL)
    BY <1>0 DEF Inv, Shared, Uses, Basics, PTypeOK
<1>3. /\ children'[p] \in Seq(Blocks) /\ IsInjective(children'[p])
      /\ ToSet(children'[p]) = ToSet(children[p]) \ {b}
      /\ \A q \in Procs \ {p} : children'[q] = children[q]
    BY <1>2, TailList DEF Inv, PTypeOK, Listed, Kids
<1>5. PTypeOK'
  <2>1. info' \in [Blocks -> InfoType]
      BY BlankType DEF Inv, PTypeOK
  <2>2. children' \in [Procs -> Seq(Blocks)]
      BY <1>3 DEF Inv, PTypeOK
  <2>3. p_info' \in [Procs -> Blocks \cup {NULL}] /\ kid' \in [Procs -> Procs \cup {NULL}]
      BY DEF Inv, PTypeOK
  <2> QED
      BY <2>1, <2>2, <2>3 DEF Inv, PTypeOK
<1>6. Listed'
    BY <1>2, <1>3, ListedRemove DEF Inv, Kids
<1>7. Denied'
    BY DeniedSame DEF Inv, PTypeOK
<1>8. /\ \A q \in Procs \ {p} : pc'[q] = pc[q] /\ blk'[q] = blk[q] /\ kid'[q] = kid[q]
      /\ \A a \in live \ {b} : info'[a] = info[a]
      /\ pc'[p] = "children"
      /\ \A q \in Procs : p_info'[q] # p_info[q] => info[b].tid = q /\ p_info'[q] = NULL
    BY <1>0, <1>2 DEF Inv, PTypeOK, Basics
<1>9. StatusReported'
    BY <1>0, <1>8 DEF Shared, StatusReported, Finished
<1>10. info[b].child = NULL \/ p_info'[info[b].tid] = NULL
    BY <1>0, <1>2 DEF Basics
<1>11. Shared'
    BY <1>0, <1>2, <1>3, <1>8, <1>9, <1>10, FreedStep, ZenonT(30) DEF Inv, Kids
<1> QED
    BY <1>5, <1>6, <1>7, <1>11 DEF Inv

-----------------------------------------------------------------------------
(* The invariant holds. *)

LEMMA InitInv == Init => Inv
<1> SUFFICES ASSUME Init PROVE Inv
    OBVIOUS
<1> USE DEF Init
<1>1. PTypeOK
  <2>1. /\ children \in [Procs -> Seq(Blocks)] /\ reaped \in [Procs -> Seq(Statuses \cup {-1})]
        /\ info \in [Blocks -> InfoType]
      BY BlankType
  <2>2. /\ p_info \in [Procs -> Blocks \cup {NULL}] /\ blk \in [Procs -> Blocks \cup {NULL}]
        /\ kid \in [Procs -> Procs \cup {NULL}] /\ status \in [Procs -> Statuses \cup {-1}]
        /\ live \subseteq Blocks /\ file_lock \in Procs \cup {NULL}
        /\ deny_write_cnt \in Nat
      OBVIOUS
  <2> QED
      BY <2>1, <2>2 DEF PTypeOK
<1>2. Denied
  <2>1. {p \in Procs : fd[p] = "denied"} = {}
      OBVIOUS
  <2> QED
      BY <2>1, FS_EmptySet DEF Denied
<1>3. \A p \in Procs : children[p] = <<>> /\ Kids(p) = {}
    BY DEF Kids, ToSet
<1>4. Listed
    BY <1>3 DEF Listed, IsInjective
<1>5. \A p \in Procs : pc[p] \in {"user", "none"} /\ p_info[p] = NULL
    OBVIOUS
<1>6. Shared
    BY <1>3, <1>5 DEF Shared, Uses, Owned, Starters, Results, Served, ExecTells, Timely, OwnInfo,
                      StatusReported, Starting, Attached
<1> QED
    BY <1>1, <1>2, <1>4, <1>6 DEF Inv

LEMMA NextInv == Inv /\ [Next]_vars => Inv'
<1> SUFFICES ASSUME Inv, [Next]_vars PROVE Inv'
    OBVIOUS
<1>1. CASE UNCHANGED vars
  <2> USE <1>1 DEF vars, procVars, heapVars, fileVars, history
  <2>1. PTypeOK'
      BY DEF Inv, PTypeOK
  <2>2. Denied' /\ Listed'
      BY ListedSame, DeniedSame DEF Inv
  <2>3. Shared'
      BY DEF Inv, Shared, Uses, Kids, Owned, Starters, Results, Served, ExecTells, Timely,
             OwnInfo, StatusReported
  <2> QED
      BY <2>1, <2>2, <2>3 DEF Inv
<1>2. ASSUME NEW p \in Procs, KernelStep(p) PROVE Inv'
  <2>1. CASE ExecRelease(p)
      BY <2>1, ExecReleaseInv
  <2>2. CASE ExecReturn(p)
      BY <2>2, ExecReturnInv
  <2>3. CASE \E ok \in BOOLEAN : Load(p, ok)
      BY <2>3, LoadInv
  <2>4. CASE OpenExecutable(p)
      BY <2>4, OpenExecutableInv
  <2>5. CASE DenyWrite(p)
      BY <2>5, DenyWriteInv
  <2>6. CASE Ready(p)
      BY <2>6, ReadyInv
  <2>7. CASE WaitReturn(p)
      BY <2>7, WaitReturnInv
  <2>8. CASE ExitStore(p)
      BY <2>8, ExitStoreInv
  <2>9. CASE FindChild(p)
      BY <2>9, FindChildInv
  <2>10. CASE FreeChild(p)
      BY <2>10, FreeChildInv
  <2>11. CASE ExitClose(p)
      BY <2>11, ExitCloseInv
  <2>12. CASE ExitTest(p)
      BY <2>12, ExitTestInv
  <2>13. CASE ExitMark(p)
      BY <2>13, ExitMarkInv
  <2>14. CASE ExitFinish(p)
      BY <2>14, ExitFinishInv
  <2>15. CASE ExitSuccess(p)
      BY <2>15, ExitSuccessInv
  <2>16. CASE ExitRelease(p)
      BY <2>16, ExitReleaseInv
  <2> QED
      BY <1>2, <2>1, <2>2, <2>3, <2>4, <2>5, <2>6, <2>7, <2>8, <2>9, <2>10, <2>11, <2>12,
         <2>13, <2>14, <2>15, <2>16 DEF KernelStep
<1>3. ASSUME NEW p \in Procs, UserStep(p) PROVE Inv'
  <2>1. CASE ProcessExecute(p)
      BY <2>1, ProcessExecuteInv
  <2>2. CASE LockTwice(p)
      BY <2>2, FaultStep DEF LockTwice
  <2>3. CASE \E t \in Procs : WaitFind(p, t)
      BY <2>3, WaitFindInv
  <2>4. CASE \E s \in Statuses : Exit(p, s)
      BY <2>4, ExitInv
  <2>5. CASE Kill(p)
      BY <2>5, KillInv
  <2>6. CASE RemoveExecutable(p)
      BY <2>6, RemoveExecutableInv
  <2>7. CASE CloseExecutable(p)
      BY <2>7, CloseExecutableInv
  <2>8. CASE \E q \in Procs : Race(p, q)
      BY <2>8, FaultStep DEF Race
  <2> QED
      BY <1>3, <2>1, <2>2, <2>3, <2>4, <2>5, <2>6, <2>7, <2>8 DEF UserStep
<1> QED
    BY <1>1, <1>2, <1>3 DEF Next

LEMMA AlwaysInv == Spec => []Inv
    BY InitInv, NextInv, PTL DEF Spec

-----------------------------------------------------------------------------
(* Theorems *)

\* In every instance, the variables keep their types: no list holds what is not a
\* block, and no semaphore or deny_write_cnt goes below zero.
THEOREM ProcessTypes == Spec => []PTypeOK
<1>1. Inv => PTypeOK
    BY DEF Inv
<1> QED
    BY <1>1, AlwaysInv, PTL

\* However many processes there are, every allocated process_info is on exactly
\* one list of children, once, and a process that has ended has left none: what
\* process_wait and process_exit free is never freed twice and never forgotten.
THEOREM ProcessInfosListed == Spec => []ListedOnce
<1>1. Inv => ListedOnce
    BY DEF Inv, Listed, Kids, ListedOnce, Shared, Uses
<1> QED
    BY <1>1, AlwaysInv, PTL

\* p_info leads to the process's own, allocated process_info, or is NULL, until
\* process_exit begins to leave it, as long as the race that sets stale has not
\* been lost: FreeChild of the parent always reaches the right child.
THEOREM ProcessInfoOwned == Spec => []OwnInfo
<1>1. Inv => OwnInfo
    BY DEF Inv, Shared
<1> QED
    BY <1>1, AlwaysInv, PTL

\* However the two threads interleave, process_execute returns a tid only if load
\* returned true in the child before, and an error only if it returned false: as
\* long as no process has used a process_info that had another owner.  After that an
\* exiting child may release a creator that is not its own.
THEOREM ExecTellsLoad == Spec => []ExecTells
<1>1. Inv => ExecTells
    BY DEF Inv, Shared
<1> QED
    BY <1>1, AlwaysInv, PTL

\* process_wait returns the child's own status, once, after its exit, unless a
\* process_info was used that no longer was the user's.
THEOREM WaitReportsStatus == Spec => []StatusReported
<1>1. Inv => StatusReported
    BY DEF Inv, Shared
<1> QED
    BY <1>1, AlwaysInv, PTL

\* No parent waits for sema_finish after its child has gone past the place where it
\* would up it, whoever has used whose process_info; nor for sema_start, as long as
\* no process has used a process_info that had another owner.
THEOREM NoWaiterForgotten == Spec => []WaitersServed
<1>1. ASSUME Inv PROVE WaitersServed
  <2>1. ASSUME NEW p \in Procs, pc[p] = "waiting"
        PROVE  info[blk[p]].finish > 0 \/ pc[info[blk[p]].tid] \notin Finished
    <3>1. blk[p] \in live /\ info[blk[p]].tid # NULL
        BY <2>1, <1>1, InvBasics DEF Inv, Shared, Uses, Basics
    <3> QED
        BY <3>1, <1>1 DEF Inv, Shared, Results
  <2> QED
      BY <2>1, <1>1 DEF Inv, Shared, Served, WaitersServed
<1> QED
    BY <1>1, AlwaysInv, PTL

\* Writes to an executable are denied while any process that runs it has it open:
\* closing one of its descriptors never allows writes too early.  This is claimed up
\* to the first time that load, which holds no lock, meets another use of
\* open_inodes (Race): the executable may then have two struct inodes.
THEOREM RunningExecutableDenied == Spec => []RunningDenied
<1>1. ASSUME Inv, NEW p \in Procs, pc[p] = "user", fd[p] # "no" PROVE deny_write_cnt > 0
  <2>1. fd[p] = "denied"
      BY <1>1 DEF Inv, Denied, PTypeOK
  <2>2. p \in {q \in Procs : fd[q] = "denied"}
      BY <2>1
  <2>3. Cardinality({q \in Procs : fd[q] = "denied"}) # 0
      BY <2>2, DeniedFinite, FS_EmptySet
  <2>4. Cardinality({q \in Procs : fd[q] = "denied"}) \in Nat
      BY DeniedFinite
  <2> QED
      BY <1>1, <2>3, <2>4 DEF Inv, Denied
<1>2. Inv => RunningDenied
    BY <1>1 DEF RunningDenied
<1> QED
    BY <1>2, AlwaysInv, PTL

=============================================================================
