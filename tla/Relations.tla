----------------------------- MODULE Relations -----------------------------
(***************************************************************************)
(* relations.ts: the eager loader and deleteRelated, over the five kinds   *)
(* of relation.  load() collects the parents' keys and asks for them chunk *)
(* by chunk, one awaited statement each (two rounds across a pivot), so    *)
(* the rows may change while it runs.                                      *)
(*                                                                         *)
(* The database is the set of target rows and the set of pivot links.  A   *)
(* row's `key` is the column the relation matches (the foreign key, the    *)
(* morph id, or for belongsTo the owner key); `type` is the morph type:    *)
(* the relation's own or another's.  A stamp of 0 is a live row.           *)
(***************************************************************************)
EXTENDS Naturals, FiniteSets, Sequences

CONSTANTS
    Keys,       \* join values
    Null,       \* the absence of one
    Ids,        \* primary keys of target rows
    LinkIds,    \* primary keys of pivot rows
    Relations,  \* the relations considered: a kind, and whether the target
                \* struct declares deleted_at
    Databases,  \* the contents of the tables to start from
    ParentSets, \* the key values of the parents given to a call
    KEY_CHUNK_SIZE, \* keys per statement
    MaxWrites   \* bound: statements of others

Kinds  == {"hasOne", "hasMany", "belongsTo", "belongsToMany", "morphMany"}
Stamps == 0 .. 2     \* live, stamped before, stamped by deleteRelated
Rows   == [id : Ids, key : Keys \cup {Null}, type : {"own", "other"}, stamp : Stamps]
Links  == [id : LinkIds, key : Keys, related : Ids]

ASSUME ChunkAssumption == KEY_CHUNK_SIZE \in Nat \ {0}
ASSUME KeysAssumption == Null \notin Keys /\ LinkIds \subseteq Nat
ASSUME InputAssumption ==
    /\ Relations \subseteq [kind : Kinds, soft : BOOLEAN]
    /\ Databases \subseteq [rows : SUBSET Rows, links : SUBSET Links]
    /\ \A d \in Databases : IsFiniteSet(d.rows) /\ IsFiniteSet(d.links)
    /\ ParentSets \subseteq SUBSET (Keys \cup {Null})
    /\ \A ks \in ParentSets : IsFiniteSet(ks)
    /\ MaxWrites \in Nat
\* `id` is the primary key of the target table.
ASSUME PrimaryKeyAssumption ==
    \A d \in Databases : \A r, s \in d.rows : r.id = s.id => r = s

VARIABLES
    rel,        \* the relation
    db,         \* the tables
    call,       \* the locals of the load() or loadOne() that runs
    past,       \* what db was since that call started (history)
    reply,      \* the last deleteRelated(): its arguments and its outcome
    writes      \* statements of others so far (for MaxWrites)

vars == <<rel, db, call, past, reply, writes>>

NoCall == [pc |-> "idle", trashed |-> FALSE, keys |-> <<>>, asked |-> 0,
           links |-> {}, targetKeys |-> <<>>, rows |-> <<>>, out |-> {}]
NoReply == [mode |-> "none", ids |-> {}, ok |-> TRUE, affected |-> 0]

Init ==
    /\ rel \in Relations
    /\ db \in Databases
    /\ call = NoCall
    /\ past = {db}
    /\ reply = NoReply
    /\ writes = 0

\* History: what the database is while a load() runs.
Remembers == past' = IF call.pc \in {"pivot", "targets"} THEN past \cup {db'} ELSE past

-----------------------------------------------------------------------------
(* Statements. *)

\* A target query: the soft scope applies when the target declares the column.
scoped(trashed) ==
    {r \in db.rows : rel.soft /\ ~ trashed => r.stamp = 0}

\* The rows of the relation's own table and type; a pivot is matched by its
\* links, so any target row is.
OwnType(r) == rel.kind = "morphMany" => r.type = "own"

\* Mutant: the type is not asked for.
SelectsAnyType(trashed, ks) == {r \in scoped(trashed) : r.key \in ks}

\* WHERE key IN (...), with the morph type; across a pivot, WHERE id IN (...).
Selects(trashed, ks) ==
    {r \in scoped(trashed) :
        /\ OwnType(r)
        /\ IF rel.kind = "belongsToMany" THEN r.id \in ks ELSE r.key \in ks}

\* Pivot tables never scope.
SelectsLinks(ks) == {l \in db.links : l.key \in ks}

\* The distinct values of S in the order a Set gives them, whatever that is.
Orders(S) == {s \in [1 .. Cardinality(S) -> S] : \A x \in S : \E i \in DOMAIN s : s[i] = x}

\* Distinct non-null key values of the parents.
keySet(parents) == Orders(parents \ {Null})

\* Mutant: each slice is one short.
ShortSlice(s, i) == {s[j] : j \in {k \in DOMAIN s : i < k /\ k < i + KEY_CHUNK_SIZE}}

\* slice(i, i + KEY_CHUNK_SIZE)
Chunk(s, i) == {s[j] : j \in {k \in DOMAIN s : i < k /\ k <= i + KEY_CHUNK_SIZE}}

-----------------------------------------------------------------------------
(* load(). *)

\* The grouped result: an entry is a key, the number of the statement or of
\* the pivot link the row came by, and the row.  A link whose target was not read has no entry.
Grouped(c) ==
    IF rel.kind = "belongsToMany"
    THEN UNION {{<<l.key, l.id, r>> : r \in {t \in UNION {c.rows[i] : i \in DOMAIN c.rows} : t.id = l.related}} :
                   l \in c.links}
    ELSE UNION {{<<r.key, i, r>> : r \in c.rows[i]} : i \in DOMAIN c.rows}

\* When the last statement has returned, the rows are grouped with no await
\* between.
Finishes(c) ==
    IF c.asked < Len(c.targetKeys) THEN c
    ELSE [c EXCEPT !.pc = "done", !.out = Grouped(c)]

\* The call starts, and up to its first await.
load(parents, trashed) ==
    /\ call.pc = "idle"
    /\ \E ks \in keySet(parents) :
          call' = IF ks = <<>> THEN [NoCall EXCEPT !.pc = "done", !.trashed = trashed]
                  ELSE IF rel.kind = "belongsToMany"
                  THEN [NoCall EXCEPT !.pc = "pivot", !.trashed = trashed, !.keys = ks]
                  ELSE [NoCall EXCEPT !.pc = "targets", !.trashed = trashed, !.keys = ks,
                                      !.targetKeys = ks]
    /\ past' = {db}
    /\ UNCHANGED <<rel, db, reply, writes>>

\* One chunk of pivot rows; after the last, the distinct keys of the targets.
LoadPivot ==
    /\ call.pc = "pivot"
    /\ LET links == call.links \cup SelectsLinks(Chunk(call.keys, call.asked))
           asked == call.asked + KEY_CHUNK_SIZE
       IN IF asked < Len(call.keys)
          THEN call' = [call EXCEPT !.links = links, !.asked = asked]
          ELSE \E ks \in Orders({l.related : l \in links}) :
                  call' = Finishes([call EXCEPT !.pc = "targets", !.links = links, !.asked = 0,
                                                !.targetKeys = ks])
    /\ UNCHANGED <<rel, db, past, reply, writes>>

\* One chunk of target rows.
LoadTargets ==
    /\ call.pc = "targets"
    /\ call' = Finishes([call EXCEPT
                  !.rows  = Append(@, Selects(call.trashed, Chunk(call.targetKeys, call.asked))),
                  !.asked = @ + KEY_CHUNK_SIZE])
    /\ UNCHANGED <<rel, db, past, reply, writes>>

\* A statement fails: load() throws, and what was read is dropped.
LoadFails ==
    /\ call.pc \in {"pivot", "targets"}
    /\ call' = [NoCall EXCEPT !.pc = "failed"]
    /\ UNCHANGED <<rel, db, past, reply, writes>>

\* loadOne(): no statement for a null key, otherwise one with LIMIT 1, which
\* may fail.
loadOne(key, trashed) ==
    /\ call.pc = "idle" /\ rel.kind \in {"hasOne", "belongsTo"}
    /\ LET found == IF key = Null THEN {} ELSE Selects(trashed, {key}) IN
       \/ \E out \in IF found = {} THEN {{}} ELSE {{<<key, 1, r>>} : r \in found} :
             call' = [NoCall EXCEPT !.pc = "one", !.trashed = trashed, !.keys = <<key>>, !.out = out]
       \/ key # Null /\ call' = [NoCall EXCEPT !.pc = "failed"]
    /\ past' = {db}
    /\ UNCHANGED <<rel, db, reply, writes>>

-----------------------------------------------------------------------------
(* deleteRelated(). *)

Dependent(r, ids) == r.key \in ids /\ OwnType(r)

\* Mutant: dependents that are trashed already are stamped again.
StampsAll(ids) ==
    LET hit == {r \in db.rows : Dependent(r, ids)} IN
    /\ db' = [db EXCEPT !.rows = (@ \ hit) \cup {[r EXCEPT !.stamp = 2] : r \in hit}]
    /\ reply' = [mode |-> "soft", ids |-> ids, ok |-> TRUE, affected |-> Cardinality(hit)]

\* softDeleteRelated(): stamps the dependents that are live.
StampsDependents(ids) ==
    LET hit == {r \in db.rows : Dependent(r, ids) /\ r.stamp = 0} IN
    /\ db' = [db EXCEPT !.rows = (@ \ hit) \cup {[r EXCEPT !.stamp = 2] : r \in hit}]
    /\ reply' = [mode |-> "soft", ids |-> ids, ok |-> TRUE, affected |-> Cardinality(hit)]

\* force: a plain DELETE, which no soft scope narrows.
RemovesDependents(ids) ==
    LET hit == {r \in db.rows : Dependent(r, ids)} IN
    /\ db' = [db EXCEPT !.rows = @ \ hit]
    /\ reply' = [mode |-> "force", ids |-> ids, ok |-> TRUE, affected |-> Cardinality(hit)]

\* Mutant: soft leaves the links.
DetachesWhenForced(mode, ids) ==
    LET hit == {l \in db.links : l.key \in ids /\ mode = "force"} IN
    /\ db' = [db EXCEPT !.links = @ \ hit]
    /\ reply' = [mode |-> mode, ids |-> ids, ok |-> TRUE, affected |-> Cardinality(hit)]

\* Pivot links detach physically, in either mode.
Detaches(mode, ids) ==
    LET hit == {l \in db.links : l.key \in ids} IN
    /\ db' = [db EXCEPT !.links = @ \ hit]
    /\ reply' = [mode |-> mode, ids |-> ids, ok |-> TRUE, affected |-> Cardinality(hit)]

\* belongsTo, soft without the column, or the statement fails: it throws.
Refuses(mode, ids) ==
    /\ reply' = [mode |-> mode, ids |-> ids, ok |-> FALSE, affected |-> 0]
    /\ UNCHANGED db

\* No keys, or ignore: 0, before the kind is looked at.
Ignores(mode, ids) ==
    /\ reply' = [mode |-> mode, ids |-> ids, ok |-> TRUE, affected |-> 0]
    /\ UNCHANGED db

deleteRelated(mode, ids) ==
    /\ reply.mode = "none"      \* bound: one call, before or during a load
    /\ call.pc \in {"idle", "pivot", "targets"}
    /\ \/ (ids = {} \/ mode = "ignore") /\ Ignores(mode, ids)
       \/ /\ ids # {} /\ mode # "ignore"
          /\ \/ Refuses(mode, ids)
             \/ rel.kind = "belongsToMany" /\ Detaches(mode, ids)
             \/ /\ rel.kind \in {"hasOne", "hasMany", "morphMany"}
                /\ \/ mode = "force" /\ RemovesDependents(ids)
                   \/ mode = "soft" /\ rel.soft /\ StampsDependents(ids)
    /\ Remembers
    /\ UNCHANGED <<rel, call, writes>>

-----------------------------------------------------------------------------
(* Statements of others (external). *)

Writes ==
    /\ call.pc \in {"pivot", "targets"}     \* bound: earlier ones are in Databases
    /\ writes < MaxWrites
    /\ writes' = writes + 1
    /\ \/ \E r \in db.rows : db' = [db EXCEPT !.rows = @ \ {r}]
       \/ \E r \in db.rows, k \in Keys \cup {Null} :
             db' = [db EXCEPT !.rows = (@ \ {r}) \cup {[r EXCEPT !.key = k]}]
       \/ \E r \in db.rows, s \in {0, 1} :
             db' = [db EXCEPT !.rows = (@ \ {r}) \cup {[r EXCEPT !.stamp = s]}]
       \/ \E id \in Ids \ {r.id : r \in db.rows}, k \in Keys :
             db' = [db EXCEPT !.rows = @ \cup {[id |-> id, key |-> k, type |-> "own", stamp |-> 0]}]
       \/ rel.kind = "belongsToMany" /\ \E l \in db.links : db' = [db EXCEPT !.links = @ \ {l}]
       \/ rel.kind = "belongsToMany" /\ \E id \in LinkIds \ {l.id : l \in db.links}, k \in Keys, t \in Ids :
             db' = [db EXCEPT !.links = @ \cup {[id |-> id, key |-> k, related |-> t]}]
    /\ Remembers
    /\ UNCHANGED <<rel, call, reply>>

Next ==
    \/ \E parents \in ParentSets, trashed \in BOOLEAN : load(parents, trashed)
    \/ LoadPivot \/ LoadTargets \/ LoadFails
    \/ \E key \in Keys \cup {Null}, trashed \in BOOLEAN : loadOne(key, trashed)
    \/ \E mode \in {"force", "soft", "ignore"}, ids \in ParentSets : deleteRelated(mode, ids \ {Null})
    \/ Writes

Spec == Init /\ [][Next]_vars

-----------------------------------------------------------------------------
(* Properties. *)

\* The call's locals and the last outcome are of the shapes relations.ts gives
\* them; the tables hold rows and links only.
TypeOK ==
    /\ rel \in Relations
    /\ db \in [rows : SUBSET Rows, links : SUBSET Links]
    /\ call \in [pc : {"idle", "pivot", "targets", "done", "failed", "one"},
                 trashed : BOOLEAN,
                 keys : Seq(Keys \cup {Null}),
                 asked : Nat,
                 links : SUBSET Links,
                 targetKeys : Seq(Keys \cup Ids),
                 rows : Seq(SUBSET Rows),
                 out : SUBSET ((Keys \cup {Null}) \X Nat \X Rows)]
    /\ past \in SUBSET [rows : SUBSET Rows, links : SUBSET Links]
    /\ reply \in [mode : {"none", "force", "soft", "ignore"}, ids : SUBSET Keys,
                  ok : BOOLEAN, affected : Nat]
    /\ writes \in 0 .. MaxWrites

\* Row r belongs under key k by the relation's own columns.
Belongs(r, k) == r.key = k /\ (rel.kind = "morphMany" => r.type = "own")

InScope(r) == rel.soft /\ ~ call.trashed => r.stamp = 0

\* load() and loadOne() return no row that was not, at some moment of the call,
\* in the table, in scope and under the key it is returned for, across a pivot
\* by a link that existed at some moment: no chunk leaks another parent's,
\* another type's or a trashed row.
NothingInvented ==
    \A e \in call.out :
        /\ \E i \in DOMAIN call.keys : call.keys[i] = e[1]
        /\ InScope(e[3])
        /\ \E d \in past : e[3] \in d.rows
        /\ IF rel.kind = "belongsToMany"
           THEN \E d \in past : [id |-> e[2], key |-> e[1], related |-> e[3].id] \in d.links
           ELSE Belongs(e[3], e[1])

\* A row that nobody touches while load() runs is returned exactly once for its
\* key, in whatever chunk the key falls (across a pivot: once for each link that
\* nobody touches).
Untouched(rowsOf(_)) == {x \in UNION {rowsOf(d) : d \in past} : \A d \in past : x \in rowsOf(d)}

StableRowsAreLoaded ==
    call.pc = "done" =>
        \A i \in DOMAIN call.keys : \A r \in {s \in Untouched(LAMBDA d : d.rows) : InScope(s)} :
            LET k == call.keys[i] IN
            IF rel.kind = "belongsToMany"
            THEN \A l \in Untouched(LAMBDA d : d.links) :
                    l.key = k /\ l.related = r.id => <<k, l.id, r>> \in call.out
            ELSE Belongs(r, k) => Cardinality({e \in call.out : e[1] = k /\ e[3].id = r.id}) = 1

Called == reply' # reply

\* deleteRelated() touches only rows that depend on the given keys, and reports
\* how many: "soft" stamps, "skipping already stamped ones" (relations.ts:392),
\* and keeps every row; a pivot lets go of links and of no "shared target"
\* (relations.ts:455); a call that throws or ignores changes nothing.
OnlyDependentsTouched ==
    [][Called =>
        LET ids  == reply'.ids
            gone == db.rows \ db'.rows
            new  == db'.rows \ db.rows
            cut  == db.links \ db'.links
        IN /\ \A r \in gone : Belongs(r, r.key) /\ r.key \in ids
           /\ \A r \in new : r.stamp = 2 /\ [r EXCEPT !.stamp = 0] \in gone
           /\ reply'.mode = "soft" => {r.id : r \in db'.rows} = {r.id : r \in db.rows}
           /\ db'.links \subseteq db.links /\ \A l \in cut : l.key \in ids
           /\ IF rel.kind = "belongsToMany" THEN gone = {} ELSE cut = {}
           /\ reply'.affected = Cardinality(gone) + Cardinality(cut)
           /\ ~ reply'.ok \/ reply'.mode = "ignore" => db' = db]_vars

\* What a load() with the default scope would return for the keys of the call.
Reachable ==
    IF rel.kind = "belongsToMany"
    THEN {r \in db.rows : \E l \in db.links : l.key \in reply.ids /\ l.related = r.id}
    ELSE {r \in db.rows : r.key \in reply.ids /\ Belongs(r, r.key) /\ (rel.soft => r.stamp = 0)}

\* After a deleteRelated() that did not throw or ignore, loading the same keys
\* finds nothing: no dependent is orphaned, polymorphic ones included
\* (relations.ts:7-8).
DependentsAreGone ==
    [][Called /\ reply'.ok /\ reply'.mode # "ignore" => Reachable' = {}]_vars
=============================================================================
