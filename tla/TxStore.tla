------------------------------ MODULE TxStore ------------------------------
(***************************************************************************)
(* What the sqlite driver promises its users, without a mutex, savepoints  *)
(* or handles: one transaction at a time owns the store, only its writes   *)
(* are staged, and they reach the durable state all together or not at     *)
(* all.  close() ends the promise: a transaction that is open across it has *)
(* lost its connection.  SqliteTx implements it (SqliteTxStore).           *)
(***************************************************************************)
CONSTANTS Flows, NoFlow, WriteIds

VARIABLES
    owner,      \* the transaction that owns the store, or NoFlow
    staged,     \* its uncommitted writes, each with the transaction it is of
    durable,    \* the committed writes
    closed      \* close() was called

vars == <<owner, staged, durable, closed>>

Init == owner = NoFlow /\ staged = {} /\ durable = {} /\ closed = FALSE

\* The store is taken when it is free, by whoever asks or waits.
Take ==
    /\ owner = NoFlow
    /\ owner' \in Flows
    /\ UNCHANGED <<staged, durable>>

\* The owner stages a write; nobody else can.
Stage ==
    /\ owner # NoFlow
    /\ \E w \in WriteIds \ durable : staged' = staged \cup {<<owner, w>>}
    /\ UNCHANGED <<owner, durable>>

\* Part of the staged writes is undone: a nested call rolled back.
Undo ==
    /\ staged' \in SUBSET staged
    /\ UNCHANGED <<owner, durable>>

\* The owner ends, with all of its writes or with none, and the store is free
\* or at once another's.
Settle ==
    /\ owner # NoFlow
    /\ owner' \in (Flows \cup {NoFlow}) \ {owner}
    /\ staged' = {}
    /\ durable' \in {durable, durable \cup {s[2] : s \in staged}}

\* A single write outside of any transaction, by the owner of the moment.
AutoCommit ==
    /\ owner # NoFlow /\ staged = {}
    /\ owner' \in (Flows \cup {NoFlow}) \ {owner}
    /\ \E w \in WriteIds : durable' = durable \cup {w}
    /\ UNCHANGED staged

\* From the first close() on, anything may become of the store.
Close ==
    /\ closed' = TRUE
    /\ owner' \in Flows \cup {NoFlow}
    /\ staged' \in SUBSET (Flows \X WriteIds)
    /\ durable' \in SUBSET WriteIds

Next == ((Take \/ Stage \/ Undo \/ Settle \/ AutoCommit) /\ UNCHANGED closed) \/ Close

Spec == Init /\ [][Next]_vars

=============================================================================
