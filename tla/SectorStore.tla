----------------------------- MODULE SectorStore -----------------------------
(***************************************************************************)
(* What the buffer cache promises the file system: a store of sectors,     *)
(* whatever is cached.  A call has its effect at one moment between its    *)
(* beginning and its return, and nothing but a call changes the store.     *)
(***************************************************************************)
CONSTANTS Sectors, Parts, Vals,
          Requests,     \* the calls: records with op, sector and arguments
          NULL

VARIABLES store,        \* the contents of each sector
          call,         \* the call in progress, or NULL
          done,         \* whether it has had its effect
          got           \* what it has read, or NULL

vars == <<store, call, done, got>>

Init ==
    /\ store \in [Sectors -> [Parts -> Vals]]
    /\ call = NULL /\ done = FALSE /\ got = NULL

Call(r) ==
    /\ call = NULL
    /\ call' = r
    /\ UNCHANGED <<store, done, got>>

\* The effect of the call in progress.
Effect ==
    /\ call # NULL /\ ~done
    /\ done' = TRUE
    /\ UNCHANGED call

Read ==
    /\ Effect /\ call.op = "read"
    /\ got' = [sector |-> call.sector, part |-> call.part,
               val |-> store[call.sector][call.part]]
    /\ UNCHANGED store

Write ==
    /\ Effect /\ call.op = "write"
    /\ store' = [store EXCEPT ![call.sector][call.part] = call.val]
    /\ UNCHANGED got

Create ==
    /\ Effect /\ call.op = "create"
    /\ store' = [store EXCEPT ![call.sector] = call.data]
    /\ UNCHANGED got

Return ==
    /\ done
    /\ call' = NULL /\ done' = FALSE /\ got' = NULL
    /\ UNCHANGED store

Next == Read \/ Write \/ Create \/ Return \/ \E r \in Requests : Call(r)

Spec == Init /\ [][Next]_vars
=============================================================================
