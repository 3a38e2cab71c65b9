# Verification of ts-orm

TLA+ modules for the parts of ts-orm that keep state, TLC configurations that check them on small instances,
and TLAPS proofs of what matters most for every instance. Each module is translated from the TypeScript
sources under `src/`; `PROJECT.json` names the lines every definition stands for.

Run `tlc -config <run>.cfg <module>` for a run of the table below, and `tlapm <module>.tla` for the proofs of a module whose
name ends in `Proofs`.

## 1. The system

| component | state | operations | interacts with |
|---|---|---|---|
| sqlite driver (`drivers/sqlite.ts`) | one database handle, `locked`, `waiters`, `openTx`; `done`, `holding` per transaction | `query`, `execute`, `beginTransaction`, `commit`, `rollback`, `release`, `close` | reads `txScope` to recognise calls of its own transaction |
| transaction facade (`transaction.ts`) | `txScope` (AsyncLocalStorage), `settled` per handle | `transaction`, `beginTransaction`, `TxHandle.commit/rollback/asyncDispose` | calls the driver's TxConnection, drains the hooks |
| lifecycle (`lifecycle.ts`) | `deferred`: a queue of hooks per TxConnection | `afterCommit`, `drainAfterCommit`, `deliver`, timestamps | models call it, the facade drains it |
| pooled drivers (`drivers/mysql.ts`, `postgres.ts`, `mssql.ts`) | `settled` per checkout | the same as sqlite's, over a checked-out connection | the shared pool, the server |
| shared pool (`connection.ts` and the drivers) | `pool`, `overrides` | `configure`, `getPool`, `closePool` / `close` | every driver call |
| models (`model.ts`, `soft.ts`) | `attributes`, `original`, `lastAffectedRows` per instance | `create`, `save`, `delete`, `restore`, `forceDelete`, `deleteWhere`, reads | CRUD, hooks, casts, drivers |
| CRUD (`crud.ts`) | none | build and run one statement | drivers, validation |
| query builder (`query.ts`) | a mutable builder of immutable condition nodes | `where…`, `toSQL`, `first`, `paginate`, aggregates, `delete` | drivers |
| relations (`relations.ts`) | none | chunked loaders, `deleteRelated`, `softDeleteRelated` | query builder |
| casts (`casts.ts`), validation (`validation.ts`) | none | `castIn`, `castOut`, `valuesEqual`, `validatePayload`, `validateRow` | models, CRUD |
| schema, struct, introspection (`schema.ts`, `struct.ts`, `introspect.ts`) | none | a struct to the columns of each engine, MySQL columns to a struct | migrations, CLI |
| migrations (`migrate.ts`) | the table `tsorm_migrations` | `migrate`, `rollback` | a driver |
| CLI (`cli.ts`) | the generated files | `migrate`, `migrate:rollback`, `struct`, `model`, `make:migration` | migrations, introspection, a driver |
| identifiers, dialects, configuration, errors | none | text, environment lookup | everything |

What is hard in it:

* JavaScript is single-threaded, but every `await` lets other calls run. The sqlite driver puts a hand-written
  mutex over its one handle, and must tell a call made *inside* the open transaction from a concurrent one.
* A transaction ends on many paths (return, throw, failing COMMIT, failing ROLLBACK, dispose, dispose again), and
  each must settle the engine's transaction, give the lock or the connection back, and drain or drop the hooks.
* Pooled drivers keep a connection while they wait for another.
* The shared pool is replaced and cleared around awaits.
* Migrations are not transactional: a process may die between any two statements, and several may run.
* A relation is loaded in several statements, between which its rows change.
* A value passes `castIn`, a validator, a column type, an engine, its client and `castOut`, and is then compared with
  itself: five representations on four engines, which only have to agree pairwise by convention.

`PROJECT.json` lists the hazards at their lines with the properties that cover them.

## 2. The modules

| module | models | state and actions against the code |
|---|---|---|
| `SqliteTx` | `drivers/sqlite.ts`, `transaction.ts`, the queue of `lifecycle.ts` | `locked`, `waiters`, `openTx` are the driver's variables; `tx[f]` is a flow's TxConnection and TxHandle (`done`, `holding`, `savepoint`, `settled`, and `handle`, the database handle it captured); `deferred[f]` its after-commit queue. `journal` and `durable` are SQLite's. One action per piece of code between two awaits that another flow can observe. |
| `TxStore` | nothing: the abstract promise | an owner, staged writes, durable writes, and whether `close()` ended the promise |
| `SqliteTxStore` | the refinement of `TxStore` by `SqliteTx` | owner = who holds the lock, staged = the journal |
| `SqliteTxProofs` | theorems about `SqliteTx`: the mutex and the hooks, what is nested in a transaction, the refinement of `TxStore` and what becomes of a transaction | |
| `PooledProofs`, `PoolProofs`, `MigrateProofs`, `SoftProofs`, `RelationsProofs`, `QueriesProofs`, `StructProofs` | theorems about `PooledTx`, `PoolLifecycle`, `Migrate`, `SoftModel`, `Relations`, `Queries`, `StructLife` | |
| `PooledTx` | `drivers/mysql.ts`, `drivers/postgres.ts` under `transaction.ts` | `free`, `queue`, `conn` are the pool (external: mysql2, pg), `server` and `durable` the database (external). Every statement, those of plain calls and of callbacks included, may succeed or be refused; one that commits may also succeed with its reply lost. `Refuses` is what a refused statement does to its transaction: postgres aborts it, and its COMMIT is then a rollback without an error (`Commits`); mysql goes on with it, or rolls it back (a deadlock). The callback may catch the error (`catches`) |
| `PoolLifecycle` | `connection.ts`, and `configure`/`getPool`/`close` of `postgres.ts` and `mssql.ts` | `pool` is the shared variable; `state` is what became of each pool. The two halves of an operation around its `await` are two actions, the second of which may fail: a `connect()` that rejects (`ConnectFails`) leaves the variable `null`, an `end()` that rejects (`CloseFails`) leaves it naming the dead pool |
| `Migrate` | `migrate.ts`, the two commands of `cli.ts` | `tracked` is the table, `schema` what the migrations did to the database; each process has its own snapshot (`todo`, `batch`), and each statement is an action |
| `SoftModel` | `model.ts`, `soft.ts`, and the statements of `crud.ts` they send | `table` is the database's (external), `memory[i]` an instance's key, `attributes` and `original`; `call[f]` holds the locals of a call between its awaits: hooks, `freshRow`, the statement, its reply, the reread of who lost the race |
| `Queries` | `query.ts`, with the paging of `dialect.ts` | `builder` is the mutable QueryBuilder, `groups` the sub builders of running callbacks, `call` a `paginate()` between its two statements. `node` numbers the ConditionNodes in the order they are made, and lists hold the numbers. `compileNode`, `compileList` and `buildWhere` produce the flat token sequence that is sent; `Reads` is the database's reading of it (external) |
| `Relations` | `relations.ts` | `db` holds the target rows and pivot links (external), `call` the locals of a `load()` between its statements: keys, how many were asked for, what came back. One action per chunk; `Writes` are other programs. `past` is history: what the tables were during the call |
| `Values` | `casts.ts`, `validation.ts` | operators over abstract values: a runtime kind and what it spells. What JavaScript's built-ins make of them is given as functions (external) |
| `Columns` | `schema.ts`, the types of `struct.ts`, `introspect.ts`, `renderField` of `cli.ts` | operators from a field to a column of each engine and, through `SHOW COLUMNS`, back |
| `StructLife` | the composition: `fill`, `save`, `create`, `find` of `model.ts` on one column, with `Values` and `Columns`, and the `model` and `struct` commands of `cli.ts` | `column` is the live column, `row` the value as the client reads it, `model` the instance (`attr`, `orig` for `attributes`, `original`), `field` the struct the program was built with, `files` what the generator wrote. `meant` is history: what the last accepted save was given |
| `MC…` | the instances | symmetry sets, the uses and failures of `PooledTx`, the releases of migrations, the rows and conditions of `Queries` and `Relations`, the fields and inputs of `StructLife` |

Definitions whose comment starts with *Mutant* are single-point changes of the definition next to them, as a
plausible bug would make them. They are not part of the specification: each shows that some property of a run
is violated by such a change.

### What the models leave out

Values: a write is a pair (call, number), a migration a number. SQL text, parameters, error mapping and logging.
In `SqliteTx`: a raw `TxConnection` used without `TxHandle`, and SQLite rolling back a whole transaction by
itself (a full disk, an I/O error); a statement that SQLite refuses (a constraint, SQLITE_BUSY) changes nothing and leaves the transaction open.
In `PooledTx`: a checkout that is refused (it changes nothing), more than one level of
nesting (a bound), and the mssql `Transaction` object, which wraps the same steps. A plain call on postgres whose statement is
refused gives its connection back as a new one, as `pg` does. In `Migrate`: that
`up()` may fail half-way through several statements (it either took effect or did not).

In `SoftModel`: casts and validation (they may throw, which is a veto or, after an insert, a lost reply; what they do
to a value is `StructLife`'s subject), timestamps (one more dirty column), models without soft deletes, `lastAffectedRows` (no code reads it), and calls
inside a transaction, where `deliver` queues the hook for `SqliteTx` and `PooledTx` to drain. `fill` never sets
`deleted_at`. In `Queries`: the column list, LIKE patterns, row locks, the arithmetic of sums, and
operators other than one of each shape.

In `Relations`: the rows' other columns and the text of the statements, which is `Queries`' subject. **Keys are compared by identity**, in the
database and in `load()`: the code groups rows in a `Map` on the values the client returned (`relations.ts:274-333`), so a join between a
bigint column that a client returns as a string and a number column, or one under a case-insensitive collation, finds nothing for a
key where the database matched, and is outside what was checked. So is a pivot whose related key is not unique in the target
(`relations.ts:318-321` keeps the last row of each key); the key a pivot leads to is the target's `id` here. In `StructLife`: one column at a
time, values that are one of each shape a branch of the code tells apart, hooks and concurrency (`SoftModel` has them), columns a
migration writes by hand (`references`, `unique`, boolean and number defaults, ALTER TABLE, indexes, foreign keys), and
an edit *inside* a JSON object or a Date. What the engines and their clients do with a bound value (`SqliteKeeps`, `ServerKeeps`,
`Shape`) is external: it follows SQLite's affinity rules (a number is bound as a REAL, so a text column makes `'2.0'` of 2) and the
client settings of the drivers, MySQL in its strict mode and the 32 bits of an INT. **Only a process whose time zone is UTC is covered**: `connection.ts:33-42`
and `postgres.ts` set no time zone, so mysql2 and pg turn DATE, DATETIME and TIMESTAMP columns into Dates in the zone of
the process, while `castIn` writes UTC. Elsewhere a value of a datetime or date column comes back shifted, and none of the
properties of `StructLife` says anything about it. (docs/models.md:146 asks for UTC *sessions*, and calls a plain DATETIME
column self-consistent; it does not speak of the process.) `Suits` is what TypeScript
lets a program fill in, and docs/models.md:150: no booleans, Dates or objects as text, and no exact numeral beyond 2^53 where
a client reads numbers.

## 3. The runs

| run | instance | what it shows |
|---|---|---|
| `sqlite_core` | 3 flows (callbacks, manual handles, plain calls), each awaiting what it starts; COMMITs and other statements may fail; 1 write per transaction, 2 settling calls per handle | `LockIsOwned`, `AtomicOutcome`, `TopHooksAreDurable`, and the liveness property `EveryCallEnds` |
| `sqlite_store` | 3 flows, concurrent inside a callback; BEGIN, COMMIT and other statements may fail; one `close()`; 2 writes per transaction | the mutex: `MutualExclusion`, `NoLostWakeup`, `FIFO`; and `ImplementsStore`: `SqliteTx` implements `TxStore`; with it `Isolation`, `HooksInOrder` |
| `pooled` | 2 connections; eight settings of 2 to 4 calls: postgres with handles settled in any order and disposed twice, without and with lost replies, mysql and postgres with callbacks and plain calls, and with every refusal, either with caught errors and writes through settled handles, and 4 callbacks that can starve the pool | `ExclusiveConnection`, `NoConnectionLost` and, as long as ROLLBACK is accepted, `Isolation`; as long as no error is caught as well, `AtomicOutcome`, `HooksAreDurable`; and the liveness property `EveryCallEnds`: every call ends, unless nested calls starve the pool |
| `pool` | 3 tasks, 4 pools, the three engines, quiet or busy | `NoOrphanWhenQuiet`, `NoDeadPool` |
| `migrate` | 3 processes, 3 migrations, 2 releases, 4 commands, crashes; rollbacks run alone | `RecordedIsApplied`, `UnrecordedAreFew`, `RecordedInOrder`, `RollbackTakesLatest` |
| `soft_model` | 2 flows, 2 instances that may be shared, 2 keys, 2 fields, 6 operations; vetoes and lost replies | `EachChangeIsTold`, `MemoryStampIsReal`, `StampStands`, `SavesTouchOnlyEdits` |
| `queries` | every chain of 3 conditions or settings and one group, from 4 conditions; 4 rows (one NULL, one trashed); pages of 1 and 2 | `CompiledAsAsked` (with `MarkersInOrder`), `ScopeHolds`, `PagesPartition`, `RunnersKeepTheBuilder` |
| `relations` | 5 kinds of relation, with and without `deleted_at`; 3 keys in chunks of 2; 2 target rows and 2 links that 2 foreign statements move, trash, insert or delete | `NothingInvented`, `StableRowsAreLoaded`, `OnlyDependentsTouched`, `DependentsAreGone` |
| `struct_life` | 19 uses (a field of each of the 9 types, with the casts that fit it and without, with defaults and required) on 4 engines; up to 12 inputs each; every step of a command failing | `AcceptedIsReadable`, `MeaningKept` (with `DefaultHolds`), `EditsAreSeen`, `CheckedRowsAreAccepted`, `RegeneratedAccepts`, `CommandsEndCleanly` |
| `sqlite_nested_hooks`, `sqlite_begin_fails`, `pooled_rollback_fails` | the smallest that fails | the disagreements of section 4 |

**Bounds.** Three flows are the least with an owner and two waiters, with two siblings in one callback, and with a
transaction nested twice; a fourth flow (run by hand with symmetry and without handles) found nothing new. One
write per transaction tells all from nothing, two tell an order. Two settling calls per handle give every pair of
them. Two connections and three calls make the pool run out with and without nesting, but one of the three always has what
it needs; two outer and two nested calls are the least that starve two connections, hence the four of one setting of `pooled` (`Crowd`). Four pools let each
of three tasks create one and one replace it. Four commands over three migrations in two releases give rollback
after rollback, a partly applied release, and three racing migrates. In `soft_model` two flows are a race, two instances
make one of them stale, and six operations let both be loaded and edited and two calls run; a second
key appears when a keyless instance is inserted. In `queries` one condition before a group of two is the least where
parentheses matter, on either side of an OR; a clause speaks of one row at a time, so four rows that differ in age, NULL
and trash stand for every table. In `relations` three keys are two chunks, the last of them not full, and two foreign
statements can move a row from a key already asked for to one that is still to come, or relink and trash it. `struct_life`
is finite by itself: its state space is exhausted with no bound but the values. `TheoremsApply` in `MCStructLife` checks that its
uses meet the hypotheses of the theorems of `StructProofs`.

**Deadlock.** `Quiescent` is the stutter of a system whose calls have all ended, so a deadlock is a call that
is stuck. It is checked in `migrate`, in the runs of section 4, and in `struct_life`, which never stops. It is not checked
in `sqlite_store`, where the code does get stuck (a failed BEGIN keeps the lock), nor in `pooled`, where it does too
(starved callers) and `EveryCallEnds` finds any other stuck call, nor where `EveryCallEnds` finds a stuck call and more (`sqlite_core`), nor in
`pool`, `soft_model`, `queries` and `relations`, which end at a bound.

**Fairness.** `EveryCallEnds` assumes weak fairness of each flow's continuation: the event loop resumes a flow whose
awaited promise has settled, callbacks return or throw, and a manual handle is disposed in the end (`await
using`; docs/transactions.md:93 warns of handles that are not). In `PooledTx` it also assumes that the server answers or
the connection fails. No action is assumed to be chosen over another, and a waiting flow
gets no fairness of its own: that it is woken is what the property shows. On the pooled drivers `EveryCallEnds` has a
hypothesis, `[]~ Starved`: the code *can* starve (section 4), and the property says that no other wait is for ever.

**Usage assumptions**, each a constant of the module. `Nesting`: what holds of the sqlite driver
depends on whether a callback awaits the calls it starts. The lock properties need nothing (they are proved for every
usage, calls that outlive their callback included);
isolation needs that calls end before their callback does; atomicity of nested transactions needs them one at a time.
`LateWrites`: nobody writes through a handle that is settled. The statements of a TxConnection do not test `done` (`sqlite.ts:142-162`), so
such a write takes no lock: it commits by itself or lands in whatever transaction another flow has open. Only the lock properties
survive it: they are proved whether or not it happens. Everything else about `SqliteTx` assumes that it does not, and so do the runs (set
`LateWrites = TRUE` in `sqlite_store.cfg` to see `ImplementsStore` fail). On the
pooled drivers (`late`) such a write commits by itself, or, after the release, lands on a connection that may be another
call's, which is not modelled; `AtomicOutcome` excludes written-through handles there. The same goes for a callback's or a hook's work that is not awaited.
`catches`: on the pooled drivers no callback catches the error of a refused statement and goes on, where a property says so
(`ErrorsRethrown`); on sqlite it may.
`Overlap` in `Migrate`: a rollback that races a migrate breaks every property of the record, since neither knows of the
other; racing migrates do not, thanks to the primary key of the tracking table.

## 4. Where code and documentation disagree

Shown by a run:

1. `sqlite_nested_hooks`: a transaction nested in another one on sqlite delivers its after-hooks at its own
   RELEASE. The outer transaction may still roll back (docs/transactions.md:58, docs/models.md:92).
2. `sqlite_begin_fails`: when BEGIN IMMEDIATE throws, the lock stays taken and every later call hangs
   (docs/transactions.md:3).
3. `pooled_rollback_fails`: a refused ROLLBACK is swallowed and the connection goes back with its transaction
   open (docs/transactions.md:93).

Found on the way, most of them by changing one line of a configuration:

* `PooledTx`, a setting with `catches = TRUE`, and `HooksReportDurable`: a callback on postgres catches the error of a statement and
  returns. The server has aborted the transaction and answers COMMIT with a rollback, not with an error (`postgres.ts:147-150`); `transaction()`
  resolves, nothing is durable, and the after-hooks of its writes run (docs/transactions.md:58). On mysql a deadlock does the
  same: the statement that fails has rolled the transaction back.
* `PooledTx`, the setting `Crowd`, and `EveryCallEnds` without its hypothesis: outer transactions hold all connections of the pool and each awaits
  a nested one, which waits for a connection for ever; nothing is released, though transactions "always release it" (docs/transactions.md:3).
  The pool has 2 connections here and 10 by default.
* `Nesting = "concurrent"` and `AtomicOutcome`: the rollback of the older of two sibling savepoints undoes the newer one's
  writes too, though its call resolved (docs/transactions.md:97).
* `Nesting = "handed_up"` and `EveryCallEnds`: a call made in the scope of a nested transaction that has settled queues for the
  lock of its own outer transaction (the comment at `drivers/sqlite.ts:34-36`).
* `Nesting = "detached"` and `Isolation`: a call that outlives its outermost transaction can be caught in another's.
* `Roles = {"manual"}` and `HooksAreDurable` of `SqliteTx`: `commit()` after `rollback()` drains the hooks of undone writes
  (`lifecycle.ts:98`).
* `PooledTx`, a setting with mysql's pool and `twice = TRUE`, and `ExclusiveConnection`: a second dispose releases a connection that may be
  another call's (`transaction.ts:54` against `driver.ts:39-40`).
* `NoDeadPool` without its exception: when `end()` rejects, the assignment of `null` is skipped (`connection.ts:50-51`, `postgres.ts:77-78`,
  `mssql.ts:101-102`) and the driver keeps a pool that refuses queries, until `configure()` or, on mysql and mssql, whose clients accept a second
  `end()`, another `close()`.
* `Engines = {"mssql"}` and `NoOrphan`: two concurrent first uses connect two pools and lose one.
* `SoftModel`, `SaveUpdated` and `Deleted`: a `fill()` that comes while `save()` awaits its UPDATE, or any unsaved edit when
  `delete()` or `restore()` succeeds, is marked clean and never written (docs/models.md:47: "`isDirty` reports whether
  anything changed").
* `Overlap = "any"` and `RecordedIsApplied`, `RecordedInOrder`.
* `EditsAreSeen` without its exceptions: `valuesEqual` takes the text `'0'` for `''`, `'2.0'` for `'2'`, `'"a"'` for `'a'`, and two exact
  numerals beyond 2^53 that round to one double for each other, so such an edit of a string, decimal or bigint column is
  clean and never written (`casts.ts:142`, `159`; docs/models.md:47, and docs/models.md:150 on exact numbers). So is one between two
  options of an enum that are numerals or stamps of one value (`WordOptions` in the theorem).
* A stamp of 30 February in a datetime-cast column is stored as 1 March (`casts.ts:33-36`), though "impossible dates (e.g.
  Feb 30) fail" (`validation.ts:4`): the cast comes before the validator.
* A text read through a JSON cast cannot be written again: `castIn` takes a string for JSON text, and `'red'` does not
  parse (`casts.ts:96-98`).
* `'current_timestamp'` passes as the value of a datetime field (`validation.ts:153`): sqlite stores the words, the other
  engines refuse them.
* A `number` column is an INT: half of a value that `validatePayload` accepts is rounded or refused by the servers, and `''` is a
  number (`validation.ts:137`).
* Through `ts-orm model` (`RegeneratedAccepts` speaks of the rest): enum values come back in lower case and `''` inside
  one splits it (`introspect.ts:122`, `81`); a bigint comes back as `number` and a decimal as `string` of length 65; a uuid only
  where the column's name contains "id" (`introspect.ts:135`); in the JSON of `ts-orm struct` a required
  column without a default has the default `''` (`introspect.ts:111`). And what `Regenerable` rules out: a *string* of length 36
  with "id" in its name comes back as a uuid and refuses other texts (`introspect.ts:135`, the heuristic that
  tests/model-natural-key.test.ts:7 relies on), and a key that is declared without `required`, or not as a number, comes back as a
  required number.
* What `Fits` rules out: a boolean or an integer cast on a text column of SQLite stores the number 1 and reads
  the text `'1.0'`, which a boolean cast refuses, so a saved row is unreadable; other casts on columns they do
  not fit are refused by the validation or by the servers. docs/models.md:117-131 has casts on columns that fit only.
* `runCli` rejects, although "Never throws" (`cli.ts:251`), when `createDriver()` throws in `struct`, `migrate` or `rollback`, or
  when `close()` rejects there; for `model` a failing `close()` after success prints the usage text and answers 1. `Exit`
  models it, and no property speaks of it.
* `deleteRelated` with mode `ignore` or no keys answers 0 for a belongsTo too (`relations.ts:415`), and lets a
  pivot's links stand, where docs/relations.md:100 says "throws in every mode" and "every mode detaches".
* `load` of a belongsTo leaves out a key without an owner, where the comment has "empty array when none"
  (`relations.ts:248-249` against `288-304`).

## 5. What is proved

Every theorem holds for all values of the constants that satisfy the named assumptions of its module, and of the
hypotheses in the second column, each of which names a use of the code that the README, the docs or section 4 rules out.

| module | hypotheses | theorems |
|---|---|---|
| `SqliteTxProofs` | none: any nesting, any faults, any number of `close()`, writes through settled handles | `MutualExclusion`, `NoLostWakeup`, `FIFO` (`MutexCorrect`, `WakeupCorrect`, `OrderCorrect`) |
| `SqliteTxProofs` | `~ LateWrites`: nobody writes through a settled handle | `HooksInOrder` |
| `SqliteTxProofs` | `Awaits`: callbacks await the calls they start, and `~ LateWrites` | `Isolation` (`IsolationCorrect`); and, when BEGIN is accepted and nobody closes the driver, `LockIsOwned` (`OwnerCorrect`) |
| `SqliteTxProofs` | `Awaits` | `ImplementsStore`: `SqliteTx` implements `TxStore` (`StoreCorrect`) |
| `SqliteTxProofs` | `Nesting = "sequential"`: calls are awaited one at a time; `~ LateWrites`; `MaxCloses = 0`: nobody closes the driver | `AtomicOutcome`, `TopHooksAreDurable` |
| `PoolProofs` | none; the second property itself speaks of mysql and postgres only, used quietly | `NoDeadPool`, `NoOrphanWhenQuiet` |
| `PooledProofs` | `OnceOnMysql`: a handle of mysql's pool is disposed once | `ExclusiveConnection`, `NoConnectionLost`, and, under the conditions they state themselves, `Isolation` (`RollbacksAccepted`), `AtomicOutcome` and `HooksAreDurable` (`RollbacksAccepted` and `ErrorsRethrown`) |
| `MigrateProofs` | `Alone`: a rollback runs alone | `RecordedIsApplied`, `UnrecordedAreFew` |
| `MigrateProofs` | `Alone`, and `Appended`: a release adds migrations only after those there are | `RecordedInOrder`, `RollbackTakesLatest` |
| `SoftProofs` | none | `EachChangeIsTold`, `MemoryStampIsReal`, `StampStands`, `SavesTouchOnlyEdits` |
| `RelationsProofs` | none | `NothingInvented`, `StableRowsAreLoaded`, `OnlyDependentsTouched`, `DependentsAreGone` |
| `StructProofs` | none: any field, cast, engine and inputs that `SettingsAssumption` admits | `CheckedRowsAreAccepted`, `CommandsEndCleanly` |
| `StructProofs` | `Sound`: a cast is on a column it reads (`Fits`), an automatic key is a number (`NumericKey`), the cast reads the default (`ReadableDefault`) | `AcceptedIsReadable`, `MeaningKept` |
| `StructProofs` | `WordOptions`: the options of an enum without a cast are no numerals or stamps | `EditsAreSeen` |
| `StructProofs` | `Regenerable`: the key is a required number, no text of 36 characters has "id" in its name | `RegeneratedAccepts` |
| `QueriesProofs` | none | `CompiledAsAsked`, `ScopeHolds`, `RunnersKeepTheBuilder`, `PagesPartition` |

Each module with a type invariant also proves it (`TypeCorrect`). The properties are not inductive; what each needs:

* **The mutex.** That the flow at the head of the queue may be granted the lock depends on the queue's being exactly the
  set of waiting flows, each once, and on the releasing flow's being the only holder. `LockInv` joins these
  with what they need of a flow's `pc` (a flow holds the lock only after it was granted it). The proof goes
  through `acquire`, `releaseLock` and `unlock` once, as lemmas; `FIFO` follows because a step wakes the head of the queue or
  nobody.
* **Nesting.** Savepoints are opened and written in without the lock, so isolation rests on who is inside whom.
  `NestInv` has three parts for each flow and one for the engine: while a call runs the callbacks around it are open
  (`Enclosed`, where `Awaits` is used); the open transactions are the ones that work and are not done, of which the outermost
  has the lock (`InUse`); the journal's first frame is that one's unless `close()` took its handle (`Rooted`); and
  frames belong to open transactions of one outermost call (`Framed`). A flow that is handed the lock therefore
  finds an empty journal, which also is why its BEGIN succeeds and the lock is not lost (`OwnerCorrect`).
* **Hooks.** `HookInv` counts: the writes of a flow are numbered, the first `HooksRun` of them have been reported and its queue
  holds the rest in order. It needs nothing of the lock, so it holds for every nesting; a late write could queue a hook
  behind a drain, so it needs that there is none.
* **Outcomes.** `AtomicOutcome` asks where the writes of a call are while transactions open and end around it. `OutInv` answers for
  each call: nowhere, or durable, or in the frame of the innermost transaction of its chain that is still open (`Placed`); never
  in two of these, because the frames of the journal are one chain of nested calls (`Stacked`); and nowhere only if a
  transaction of the chain rejected or a handle was rolled back (`Accounted`). The two hypotheses are needed: two siblings that run
  concurrently have frames that do not nest, so that the rollback of one takes the other's writes (section 4), and after a `close()`
  a statement meant for the open transaction commits by itself. `TopHooksAreDurable` follows: `RanInv` says that such a hook has run
  only once its call was past its COMMIT.
* **The refinement.** Each step of `SqliteTx` maps to a step of `TxStore` or to a stutter. Beside `NestInv` that
  takes `MadeInv`: the writes of a transaction are numbered as they were made, and the lock is not with a transaction
  that is done. So `COMMIT` makes durable exactly what is staged, and a rollback takes back staged writes only. After
  `close()` the abstract specification promises types alone, and types are all that is shown.
* **The shared pool.** `ConnectInv` adds what a task between the halves of an operation still has in its hands to
  `NoDeadPool`; `QuietInv` does so for `NoOrphanWhenQuiet`. `CloseFails` marks the pool that the variable keeps.
* **Pooled transactions.** `PoolInv`: who holds a connection, who waits, and that each checkout is given back
  once. On it rests `CleanInv` (what is open on a connection was opened by its user, and idle ones are clean), on that
  `OutcomeInv` (what each step of a transaction may find durable), and on that `HookInv`.
* **Migrations.** `OrderInv` says that the record is a prefix and what each run still has to do begins where it ends, or
  has been overtaken, whereupon the primary key stops it; `AppliedInv` relates it to the schema. `FewInv` is a budget: what is in
  effect and unrecorded, and the runs that are about to apply a migration, are together no more than the commands that were started. A rollback
  that races a migrate breaks it (it reverses what the other is about to record), so `Alone` is needed; the order of migrations is not.
* **Soft models.** `SoftInv`: every stamp in the table, in an instance or in the hands of a call is one that a row
  carried; an instance is dirty only where it was filled in; a call that writes columns writes such ones. The
  action properties follow from it statement by statement (`RowSteps`). `EachChangeIsTold` counts: `Accounts` says that a
  step of a call moves what is untold by as much as it moves what the call owes, because `buildSoftUpdate` and
  `buildSoftRestore` report as many rows as they changed.
* **Relations.** `LoadInv` says that every row a load has in its hands was in the tables at some moment of the call, under a key that was
  asked for. `StableInv` is its converse: what has been asked for, and was there unchanged all the time, is in hand. That it comes once
  rests on no value being asked for twice (the keys are distinct, and so are the ids a pivot leads to) and on `PrimaryKeyAssumption`: `id` is a
  primary key. `OnlyDependentsTouched` and `DependentsAreGone` are about one statement and need only finiteness.

* **Queries.** `compileNode` and the reader of a clause are recursive, and no step of the chain changes what was compiled before. The
  state needs little, therefore: `QueryInv` says that a group's children were made before it (so that both recursions end)
  and that the builder and the open groups refer to nodes that were made. The argument is about the operators:
  * A piece of a clause *reads as* a condition when the reader, wherever it meets the piece, does to its state what it would do for
    one test with that truth value, and leaves the parentheses around it as they were (`ReadsAs`). A condition does so by `Says`;
    a list of pieces that do, joined by AND and OR, reads as its alternatives (`ListReads`: after each piece the
    reader has the alternatives that ended and the one in progress); and a list in parentheses is one piece again (`NodeReads`).
    The scope is a second piece next to a parenthesised list, so `Reads` is `Asked` and the scope (`BuilderReads`).
  * Markers: what is compiled from a counter n numbers its tests from n + 1 on, in the order of the parameters it adds, and two such
    clauses in a row do as well (`BuilderOrdered`).
  * Pages: a row's place is the number of rows before it. When no two are equal, places are a bijection onto 0 to N - 1 (`Place`), the
    first n rows are those with places below n, and no other set of n rows may come first (`OneHead`), so page p holds
    places (p - 1) * size to p * size - 1 (`PageIs`), and lastPage is the last p for which there are any (`PageNumbers`).

* **The life of a column.** The state needs two invariants and the values do the work. `ValuesInv` says that a row and an instance
  hold JavaScript values, whatever was written, refused, loaded or rebuilt. `LifeInv` adds to `MeaningKept` what the *next* save needs: an instance
  that holds nothing never held a value (so that an UPDATE has one to write), it holds no exact numeral that its column would round, and
  a row that this program wrote reads without a throw. `SavedValue` and `DefaultedValue` are one save: they go type by type through
  what each engine's column keeps (`NumeralsAreKept`, `FlagsAreKept`, `TimesAreKept`, `DaysAreKept`, `WordsAreKept`), and cast by
  cast through what is stored and read back (`StoredSurvives`, `CastKeepsMeaning`, `DefaultSurvives`). A text of a name the model does not list is any
  text that nothing takes for something else, so the theorems speak of all texts, not of those the run fills in.
  * `EditsAreSeen` is about `valuesEqual` alone: two values of one type that it takes for equal mean the same (`EqualMeansAlike`).
  * `RegeneratedAccepts`: `StructInv` says that the struct file is what SHOW COLUMNS makes of the declared field; the generated
    field then has at least the width and no stricter type (`GeneratedField`, `LengthsFit`, `GeneratedTakesWhatFits`).

Induction over data goes by minimal counterexample, without an induction theorem: in `MigrateProofs`, that every set of migrations that
is not empty has a first and a last one; in `QueriesProofs`, the same of numbers (`LeastExists`), and by it that a recursive function over
an interval is what its definition says (`StepsDefine`, `BeforeDefines`). Both follow from the well-foundedness of the
strict subsets of a finite set. So only the functions' definitions are unfolded: nothing is assumed of them.

Model-checked only: liveness (`EveryCallEnds`, on sqlite and on the pooled drivers), which is out of the prover's reach, and the three
disagreements, which are counterexamples. Every invariant and every other action property of the passing runs is a theorem.

## 6. Plan

1. Model: models inside a transaction (`SoftModel` over the hook queue), timestamps, the mssql `Transaction` object.
2. Prove: atomicity of nested transactions that run concurrently, for a weaker reading of it (section 4 has why the present one fails).

Not planned: identifiers, the text of the dialects, configuration, errors, `make:migration`, and the default driver. These are
pure functions of their input or one memoised variable, mostly text, and their tests enumerate what a model would.
