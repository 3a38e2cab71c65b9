------------------------------ MODULE Migrate ------------------------------
(***************************************************************************)
(* The migration runner (migrate.ts) and the CLI commands that call it.    *)
(* migrate() reads the tracking table, then applies and records one        *)
(* pending migration after the other; rollback() reverses and unrecords    *)
(* the latest batches.  Nothing is transactional: a process may die        *)
(* between any two statements, several may run at once, and each works     *)
(* from what it read at its start.                                         *)
(*                                                                         *)
(* Migrations are numbered in the order of their names.                    *)
(***************************************************************************)
EXTENDS Integers, FiniteSets, FiniteSetsExt

CONSTANTS
    Runners,        \* the processes that run the commands
    NumMigrations,  \* the migrations that exist
    Releases,       \* the sets of definitions a process may have been shipped
    Commands,       \* "migrate" and "rollback", as far as they are in use
    Overlap,        \* commands that may be in progress together: "none",
                    \* "migrates" (a rollback is alone) or "any"
    Crashes,        \* processes may die between two statements
    Guarded,        \* up() may be repeated (IF NOT EXISTS in what it creates)
    MaxCount,       \* bound: batches one rollback reverses
    MaxRuns         \* bound: commands started

Migrations == 1 .. NumMigrations

ASSUME MigrateAssumption ==
    /\ NumMigrations \in Nat \ {0} /\ MaxCount \in Nat /\ MaxRuns \in Nat
    /\ Releases \subseteq SUBSET Migrations
    /\ Commands \subseteq {"migrate", "rollback"}
    /\ Overlap \in {"none", "migrates", "any"}
    /\ {Crashes, Guarded} \subseteq BOOLEAN

VARIABLES
    schema,     \* the migrations whose up() is in effect in the database
    tracked,    \* tsorm_migrations: the batch of each recorded name, else 0
    pc,         \* where each process is
    known,      \* the definitions it was passed
    todo,       \* the names it still has to apply, or to reverse
    batch,      \* the batch it records
    torn,       \* reversed but still recorded when their process died
    runs        \* commands started so far

dbVars == <<schema, tracked>>
vars == <<dbVars, pc, known, todo, batch, torn, runs>>

Recorded == {m \in Migrations : tracked[m] # 0}
Latest   == Max({tracked[m] : m \in Migrations})

Init ==
    /\ schema = {} /\ tracked = [m \in Migrations |-> 0]
    /\ pc = [r \in Runners |-> "idle"]
    /\ known = [r \in Runners |-> {}]
    /\ todo = [r \in Runners |-> {}]
    /\ batch = [r \in Runners |-> 0]
    /\ torn = {} /\ runs = 0

\* What migrate() does next, and what rollback() does next.
Newest(r) == Max(todo[r])
Oldest(r) == Min(todo[r])

\* The command line starts a command with the migration files it loaded.
Start(r, command) ==
    /\ pc[r] = "idle" /\ runs < MaxRuns
    /\ command \in Commands
    /\ \A q \in Runners :
          \/ pc[q] = "idle"
          \/ Overlap = "any"
          \/ Overlap = "migrates" /\ command = "migrate" /\ pc[q] \in {"up", "record"}
    /\ runs' = runs + 1
    /\ \E k \in Releases : known' = [known EXCEPT ![r] = k]
    /\ UNCHANGED <<dbVars, torn>>

\* migrate(): appliedBatches(), then what is pending and the new batch.
StartMigrate(r) ==
    /\ Start(r, "migrate")
    /\ LET pending == known'[r] \ Recorded IN
        /\ todo' = [todo EXCEPT ![r] = pending]
        /\ batch' = [batch EXCEPT ![r] = Latest + 1]
        /\ pc' = [pc EXCEPT ![r] = IF pending = {} THEN "idle" ELSE "up"]

\* Mutant: the first batches are taken.
RollbackTakesFirst(r, count) ==
    /\ Start(r, "rollback")
    /\ LET names == {m \in Recorded : tracked[m] <= count} IN
        /\ todo' = [todo EXCEPT ![r] = names]
        /\ pc' = [pc EXCEPT ![r] = IF names = {} THEN "idle" ELSE "down"]
    /\ UNCHANGED batch

\* rollback(): the names of the latest batches.
StartRollback(r, count) ==
    /\ Start(r, "rollback")
    /\ LET names == {m \in Recorded : tracked[m] >= Latest - count + 1} IN
        /\ todo' = [todo EXCEPT ![r] = names]
        /\ pc' = [pc EXCEPT ![r] = IF names = {} THEN "idle" ELSE "down"]
    /\ UNCHANGED batch

Stops(r) == pc' = [pc EXCEPT ![r] = "idle"] /\ todo' = [todo EXCEPT ![r] = {}]

\* Mutant: what was applied is left for a later run to record.
UpDoesNotRecord(r) ==
    LET m == Oldest(r) IN
    /\ pc[r] = "up"
    /\ schema' = schema \cup {m}
    /\ todo' = [todo EXCEPT ![r] = @ \ {m}]
    /\ pc' = [pc EXCEPT ![r] = IF todo[r] = {m} THEN "idle" ELSE "up"]
    /\ UNCHANGED <<tracked, known, batch, torn, runs>>

\* The oldest pending migration is applied: up() succeeds, ...
Up(r) ==
    LET m == Oldest(r) IN
    /\ pc[r] = "up"
    /\ Guarded \/ m \notin schema
    /\ schema' = schema \cup {m}
    /\ pc' = [pc EXCEPT ![r] = "record"]
    /\ UNCHANGED <<tracked, known, todo, batch, torn, runs>>

\* Mutant: a migration that threw is recorded all the same.
UpThrowsRecords(r) ==
    /\ pc[r] = "up"
    /\ pc' = [pc EXCEPT ![r] = "record"]
    /\ UNCHANGED <<dbVars, known, todo, batch, torn, runs>>

\* ... or throws, which ends the run.
UpThrows(r) ==
    /\ pc[r] = "up"
    /\ Stops(r)
    /\ UNCHANGED <<dbVars, known, batch, torn, runs>>

\* Then its row is inserted.  The name is the primary key: a row that another
\* process inserted meanwhile makes this one throw.
Record(r) ==
    LET m == Oldest(r) IN
    /\ pc[r] = "record" /\ tracked[m] = 0
    /\ tracked' = [tracked EXCEPT ![m] = batch[r]]
    /\ todo' = [todo EXCEPT ![r] = @ \ {m}]
    /\ pc' = [pc EXCEPT ![r] = IF todo[r] = {m} THEN "idle" ELSE "up"]
    /\ UNCHANGED <<schema, known, batch, torn, runs>>

RecordThrows(r) ==
    /\ pc[r] = "record" /\ tracked[Oldest(r)] # 0
    /\ Stops(r)
    /\ UNCHANGED <<dbVars, known, batch, torn, runs>>

\* The newest name is reversed.  down() throws when there is nothing to
\* reverse (DROP TABLE), and a name without a definition throws before it.
Down(r) ==
    LET m == Newest(r) IN
    /\ pc[r] = "down" /\ m \in known[r] /\ m \in schema
    /\ schema' = schema \ {m}
    /\ pc' = [pc EXCEPT ![r] = "unrecord"]
    /\ UNCHANGED <<tracked, known, todo, batch, torn, runs>>

DownThrows(r) ==
    /\ pc[r] = "down"
    /\ Stops(r)
    /\ UNCHANGED <<dbVars, known, batch, torn, runs>>

\* Then its row is deleted.
Unrecord(r) ==
    LET m == Newest(r) IN
    /\ pc[r] = "unrecord"
    /\ tracked' = [tracked EXCEPT ![m] = 0]
    /\ todo' = [todo EXCEPT ![r] = @ \ {m}]
    /\ pc' = [pc EXCEPT ![r] = IF todo[r] = {m} THEN "idle" ELSE "down"]
    /\ torn' = torn \ {m}
    /\ UNCHANGED <<schema, known, batch, runs>>

\* The process dies, or its connection does, between two statements.
Crash(r) ==
    /\ Crashes /\ pc[r] # "idle"
    /\ Stops(r)
    /\ torn' = IF pc[r] = "unrecord" THEN torn \cup {Newest(r)} ELSE torn
    /\ UNCHANGED <<dbVars, known, batch, runs>>

Finished == runs = MaxRuns /\ (\A r \in Runners : pc[r] = "idle") /\ UNCHANGED vars

Starts(r) ==
    \/ StartMigrate(r)
    \/ \E count \in 1 .. MaxCount : StartRollback(r, count)

Works(r) ==
    \/ Up(r) \/ UpThrows(r) \/ Record(r) \/ RecordThrows(r)
    \/ Down(r) \/ DownThrows(r) \/ Unrecord(r)

Next == (\E r \in Runners : Starts(r) \/ Works(r) \/ Crash(r)) \/ Finished

Spec == Init /\ [][Next]_vars

-----------------------------------------------------------------------------
(* Properties. *)

\* Every variable keeps its type.
TypeOK ==
    /\ schema \subseteq Migrations
    /\ tracked \in [Migrations -> 0 .. MaxRuns]
    /\ pc \in [Runners -> {"idle", "up", "record", "down", "unrecord"}]
    /\ known \in [Runners -> SUBSET Migrations]
    /\ todo \in [Runners -> SUBSET Migrations]
    /\ \A r \in Runners : pc[r] # "idle" => todo[r] # {}
    /\ batch \in [Runners -> 0 .. MaxRuns]
    /\ torn \subseteq Migrations
    /\ runs \in 0 .. MaxRuns

\* What is recorded is in effect ("each recorded after its `up` succeeds"),
\* save what a rollback has just reversed, or had when it died.
RecordedIsApplied ==
    \A m \in Recorded \ schema :
        m \in torn \/ \E r \in Runners : pc[r] = "unrecord" /\ m = Newest(r)

\* What is in effect and not recorded is what some run was about to record, or
\* could not: one migration for each run, so that a rerun has little to repeat.
UnrecordedAreFew == Cardinality(schema \ Recorded) <= runs

\* Migrations are recorded oldest first and unrecorded newest first, in batches
\* that follow the order of names: whatever runs died on the way, the recorded
\* ones are the oldest, and the latest batch is the newest of them, so that
\* rollback can go by batch and by name within it.
RecordedInOrder ==
    \A m \in Recorded : \A n \in 1 .. m : n \in Recorded /\ tracked[n] <= tracked[m]

\* A rollback touches only the latest batches: everything it unrecords is in a
\* batch no older than any that stays.
RollbackTakesLatest ==
    [][\A r \in Runners : pc[r] = "unrecord" /\ pc'[r] # "unrecord" =>
          \A m \in Recorded \ {n \in Migrations : tracked'[n] # 0} :
              \A n \in Recorded : tracked[n] <= tracked[m] \/ tracked'[n] = 0]_vars
=============================================================================
