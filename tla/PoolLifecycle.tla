--------------------------- MODULE PoolLifecycle ---------------------------
(***************************************************************************)
(* The shared connection pool of an engine: created on first use, replaced *)
(* by configure(), ended by close().  connection.ts and                    *)
(* drivers/postgres.ts create it synchronously; drivers/mssql.ts awaits    *)
(* its connect() between reading the shared variable and assigning it.     *)
(* close() awaits end() between reading it and clearing it.                *)
(***************************************************************************)
EXTENDS Naturals

CONSTANTS
    Callers,    \* the tasks that use, close and reconfigure the driver
    Engines,    \* among "mysql", "postgres" and "mssql"
    Uses,       \* "quiet": close() and configure() are called only while no
                \* other call is in progress; "busy": at any time
    MaxPools    \* bound: pools ever created

ASSUME PoolAssumption ==
    /\ Engines \subseteq {"mysql", "postgres", "mssql"}
    /\ Uses \subseteq {"quiet", "busy"}
    /\ MaxPools \in Nat \ {0}

VARIABLES
    engine,     \* the engine in use
    use,        \* and how it is used
    pool,       \* the shared variable: a pool, or 0 for null
    state,      \* what became of each pool
    pc,         \* what each caller is doing
    held        \* the pool a caller works with

vars == <<engine, use, pool, state, pc, held>>

\* getPool() awaits the new pool's connect().
AsyncConnect == engine = "mssql"
\* A second end() of one pool is accepted.
EndTwice == engine # "postgres"

Pools == 1 .. MaxPools

Init ==
    /\ engine \in Engines /\ use \in Uses
    /\ pool = 0
    /\ state = [p \in Pools |-> "none"]
    /\ pc = [c \in Callers |-> "idle"]
    /\ held = [c \in Callers |-> 0]

Goes(c, s, p) ==
    /\ pc' = [pc EXCEPT ![c] = s]
    /\ held' = [held EXCEPT ![c] = p]

\* createPool, new Pool, new ConnectionPool: the next unused one.
Create(p, s) ==
    /\ state[p] = "none" /\ \A q \in Pools : q < p => state[q] # "none"
    /\ state' = [state EXCEPT ![p] = s]

\* getPool() of a pool that exists, and a query on it.  A pool that is ending
\* refuses the query, and the caller is where it was.
Use(c) ==
    /\ pc[c] = "idle" /\ pool # 0
    /\ state[pool] = "open"
    /\ Goes(c, "using", pool)
    /\ UNCHANGED <<pool, state>>

\* getPool() of the first use: mysql and postgres.
Open(c) ==
    /\ pc[c] = "idle" /\ pool = 0 /\ ~ AsyncConnect
    /\ \E p \in Pools :
          /\ Create(p, "open")
          /\ pool' = p
          /\ Goes(c, "using", p)

\* getPool() of the first use: mssql, before and after the connect().
Connect(c) ==
    /\ pc[c] = "idle" /\ pool = 0 /\ AsyncConnect
    /\ \E p \in Pools :
          /\ Create(p, "connecting")
          /\ Goes(c, "connecting", p)
    /\ UNCHANGED pool

Connected(c) ==
    /\ pc[c] = "connecting"
    /\ pool' = held[c]
    /\ state' = [state EXCEPT ![held[c]] = "open"]
    /\ Goes(c, "using", held[c])

ConnectFails(c) ==
    /\ pc[c] = "connecting"
    /\ state' = [state EXCEPT ![held[c]] = "ended"]
    /\ Goes(c, "idle", 0)
    /\ UNCHANGED pool

Used(c) ==
    /\ pc[c] = "using"
    /\ Goes(c, "idle", 0)
    /\ UNCHANGED <<pool, state>>

Alone(c) == use = "quiet" => \A d \in Callers : pc[d] = "idle"

\* closePool(), close(): end() starts at once, ...
Close(c) ==
    /\ pc[c] = "idle" /\ pool # 0 /\ Alone(c)
    /\ state[pool] = "open" \/ EndTwice
    /\ state' = [state EXCEPT ![pool] = IF @ = "open" THEN "ending" ELSE @]
    /\ Goes(c, "closing", pool)
    /\ UNCHANGED pool

\* ... it resolves once the pool's users are done, and the variable is cleared,
\* whatever it holds by then.
Closed(c) ==
    /\ pc[c] = "closing"
    /\ \A d \in Callers : held[d] = held[c] => pc[d] # "using"
    /\ state' = [state EXCEPT ![held[c]] = "ended"]
    /\ pool' = 0
    /\ Goes(c, "idle", 0)

\* end() rejects: the assignment is skipped, and the variable keeps the pool,
\* which refuses queries all the same.
CloseFails(c) ==
    /\ pc[c] = "closing"
    /\ state' = [state EXCEPT ![held[c]] = "failed"]
    /\ Goes(c, "idle", 0)
    /\ UNCHANGED pool

\* Mutant: the old pool is not ended.
ConfigureOnlyClears(c) ==
    /\ pc[c] = "idle" /\ pool # 0 /\ Alone(c)
    /\ pool' = 0
    /\ UNCHANGED <<state, pc, held>>

\* Mutant: the old pool is ended and kept.
ConfigureOnlyEnds(c) ==
    /\ pc[c] = "idle" /\ pool # 0 /\ Alone(c)
    /\ state' = [state EXCEPT ![pool] = IF @ = "open" THEN "ending" ELSE @]
    /\ UNCHANGED <<pool, pc, held>>

\* configure(): the old pool ends in the background.
Configure(c) ==
    /\ pc[c] = "idle" /\ pool # 0 /\ Alone(c)
    /\ pool' = 0
    /\ state' = [state EXCEPT ![pool] = IF @ = "open" THEN "ending" ELSE @]
    /\ UNCHANGED <<pc, held>>

EndsInBackground ==
    /\ \E p \in Pools :
          /\ state[p] = "ending"
          /\ \A c \in Callers : held[c] = p => pc[c] = "idle"
          /\ state' = [state EXCEPT ![p] = "ended"]
    /\ UNCHANGED <<pool, pc, held>>

Works ==
    \/ \E c \in Callers :
          \/ Use(c) \/ Open(c) \/ Connect(c) \/ Connected(c) \/ ConnectFails(c) \/ Used(c)
          \/ Close(c) \/ Closed(c) \/ CloseFails(c) \/ Configure(c)
    \/ EndsInBackground

Next == Works /\ UNCHANGED <<engine, use>>

Spec == Init /\ [][Next]_vars

-----------------------------------------------------------------------------
\* Every variable keeps its type, and a caller has a pool just while it works.
TypeOK ==
    /\ engine \in Engines /\ use \in Uses
    /\ pool \in Pools \cup {0}
    /\ state \in [Pools -> {"none", "connecting", "open", "ending", "ended", "failed"}]
    /\ pc \in [Callers -> {"idle", "connecting", "using", "closing"}]
    /\ held \in [Callers -> Pools \cup {0}]
    /\ \A c \in Callers : held[c] = 0 <=> pc[c] = "idle"

\* close() can reach every open pool: a pool that is open is the shared one
\* ("`closePool` and `driver.close` release everything so processes exit
\* cleanly", docs/architecture.md).
NoOrphan == \A p \in Pools : state[p] = "open" => pool = p

\* The same, for the engines that create the pool synchronously, when close()
\* and configure() do not overlap other calls ("Reconfigure only when
\* quiescent", connection.ts:15-19).
NoOrphanWhenQuiet == use = "quiet" /\ ~ AsyncConnect => NoOrphan

\* The shared variable names a pool that refuses queries only while a close()
\* of it is under way, or when the close() of that very pool has rejected and told its
\* caller so: after any other close() or configure() the driver opens a new pool.
NoDeadPool ==
    pool # 0 /\ state[pool] \notin {"open", "failed"} =>
        \E c \in Callers : pc[c] = "closing" /\ held[c] = pool
=============================================================================
