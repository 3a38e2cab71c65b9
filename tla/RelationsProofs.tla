--------------------------- MODULE RelationsProofs ---------------------------
(***************************************************************************)
(* Theorems about Relations, for any tables, keys, chunk size and number   *)
(* of foreign statements.                                                  *)
(***************************************************************************)
EXTENDS Relations, FiniteSetTheorems, TLAPS

Tables == [rows : SUBSET Rows, links : SUBSET Links]
Call   == [pc : {"idle", "pivot", "targets", "done", "failed", "one"},
           trashed : BOOLEAN,
           keys : Seq(Keys \cup {Null}),
           asked : Nat,
           links : SUBSET Links,
           targetKeys : Seq(Keys \cup Ids),
           rows : Seq(SUBSET Rows),
           out : SUBSET ((Keys \cup {Null}) \X Nat \X Rows)]
Reply  == [mode : {"none", "force", "soft", "ignore"}, ids : SUBSET Keys,
           ok : BOOLEAN, affected : Nat]

\* The tables, and what a load() has read of the pivot, are finite.
Finite == IsFiniteSet(db.rows) /\ IsFiniteSet(db.links) /\ IsFiniteSet(call.links)

-----------------------------------------------------------------------------
(* Lemmas about the operators. *)

\* An order of a finite set is a sequence of its elements.
LEMMA OrdersType ==
    ASSUME NEW S, IsFiniteSet(S), NEW T, S \subseteq T, NEW s \in Orders(S)
    PROVE  s \in Seq(T)
  <1>1. Cardinality(S) \in Nat
    BY FS_CardinalityType
  <1>2. s \in [1 .. Cardinality(S) -> T]
    BY DEF Orders
  <1> QED BY <1>1, <1>2

\* The targets of finitely many links are finitely many.
LEMMA RelatedFinite ==
    ASSUME NEW L \in SUBSET Links, IsFiniteSet(L)
    PROVE  IsFiniteSet({l.related : l \in L}) /\ {l.related : l \in L} \subseteq Ids
  <1> DEFINE R == {l.related : l \in L}
             f == [l \in L |-> l.related]
  <1>1. f \in Surjection(L, R)
    BY DEF Surjection
  <1>2. IsFiniteSet(R)
    <2> HIDE DEF f, R
    <2> QED BY <1>1, FS_Surjection
  <1> QED BY <1>2 DEF Links

\* What a statement selects is in scope, of the relation's type, and under one
\* of the keys it asks for.
LEMMA SelectsRows ==
    ASSUME NEW t, NEW ks, NEW r \in Selects(t, ks)
    PROVE  /\ r \in db.rows /\ OwnType(r) /\ (rel.soft /\ ~ t => r.stamp = 0)
           /\ rel.kind # "belongsToMany" => r.key \in ks
  BY DEF Selects, scoped

\* An entry of the grouped result is made of a row that was read, and across a
\* pivot of a link to it.
LEMMA GroupedEntry ==
    ASSUME NEW c, NEW e \in Grouped(c)
    PROVE  \E i \in DOMAIN c.rows : \E r \in c.rows[i] :
              IF rel.kind = "belongsToMany"
              THEN \E l \in c.links : r.id = l.related /\ e = <<l.key, l.id, r>>
              ELSE e = <<r.key, i, r>>
  <1>1. CASE rel.kind = "belongsToMany"
    <2>1. PICK l \in c.links :
            e \in {<<l.key, l.id, r>> : r \in {t \in UNION {c.rows[i] : i \in DOMAIN c.rows} : t.id = l.related}}
      BY <1>1 DEF Grouped
    <2>2. PICK r \in UNION {c.rows[i] : i \in DOMAIN c.rows} : r.id = l.related /\ e = <<l.key, l.id, r>>
      BY <2>1
    <2>3. PICK i \in DOMAIN c.rows : r \in c.rows[i]
      BY <2>2
    <2> QED BY <1>1, <2>2, <2>3
  <1>2. CASE rel.kind # "belongsToMany"
    <2>1. PICK i \in DOMAIN c.rows : e \in {<<r.key, i, r>> : r \in c.rows[i]}
      BY <1>2 DEF Grouped
    <2> QED BY <1>2, <2>1
  <1> QED BY <1>1, <1>2

\* Grouping keeps the call typed.
LEMMA GroupedType ==
    ASSUME NEW c \in Call
    PROVE  Grouped(c) \in SUBSET ((Keys \cup {Null}) \X Nat \X Rows)
  <1> SUFFICES ASSUME NEW e \in Grouped(c) PROVE e \in (Keys \cup {Null}) \X Nat \X Rows
    OBVIOUS
  <1>1. PICK i \in DOMAIN c.rows : \E r \in c.rows[i] :
              IF rel.kind = "belongsToMany"
              THEN \E l \in c.links : r.id = l.related /\ e = <<l.key, l.id, r>>
              ELSE e = <<r.key, i, r>>
    BY GroupedEntry
  <1>2. i \in Nat /\ c.rows[i] \subseteq Rows /\ c.links \subseteq Links
    BY DEF Call
  <1>3. \A r \in Rows : r.key \in Keys \cup {Null}
    BY DEF Rows
  <1>4. \A l \in Links : l.key \in Keys /\ l.id \in Nat
    BY KeysAssumption DEF Links
  <1> QED BY <1>1, <1>2, <1>3, <1>4

\* So does the end of a load().
LEMMA FinishesType ==
    ASSUME NEW c \in Call
    PROVE  Finishes(c) \in Call
  BY GroupedType DEF Finishes, Call

\* A call that has read nothing yet is well typed.
LEMMA NoCallType == NoCall \in Call /\ NoCall.links = {}
  BY DEF NoCall, Call

-----------------------------------------------------------------------------
(* Type correctness. *)

Typed == TypeOK /\ Finite

\* A load() that starts keeps the types.
LEMMA LoadType ==
    ASSUME Typed, NEW parents \in ParentSets, NEW trashed \in BOOLEAN, load(parents, trashed)
    PROVE  Typed'
  <1>1. PICK ks \in keySet(parents) :
          call' = IF ks = <<>> THEN [NoCall EXCEPT !.pc = "done", !.trashed = trashed]
                  ELSE IF rel.kind = "belongsToMany"
                  THEN [NoCall EXCEPT !.pc = "pivot", !.trashed = trashed, !.keys = ks]
                  ELSE [NoCall EXCEPT !.pc = "targets", !.trashed = trashed, !.keys = ks,
                                      !.targetKeys = ks]
    BY DEF load
  <1>2. IsFiniteSet(parents \ {Null}) /\ parents \ {Null} \subseteq Keys
    BY InputAssumption, FS_Subset
  <1>3. ks \in Seq(Keys \cup {Null}) /\ ks \in Seq(Keys \cup Ids)
    BY <1>2, OrdersType DEF keySet
  <1>4. call' \in Call /\ call'.links = {}
    BY <1>1, <1>3, NoCallType DEF Call
  <1>5. TypeOK'
    BY <1>4 DEF load, Typed, TypeOK, Call
  <1>6. Finite'
    BY <1>4, FS_EmptySet DEF load, Typed, Finite
  <1> QED BY <1>5, <1>6 DEF Typed

\* So does a chunk of pivot rows.
LEMMA PivotType == ASSUME Typed, LoadPivot PROVE Typed'
  <1> DEFINE links == call.links \cup SelectsLinks(Chunk(call.keys, call.asked))
             next  == call.asked + KEY_CHUNK_SIZE
  <1>1. call \in Call /\ links \in SUBSET Links /\ next \in Nat
    BY ChunkAssumption DEF Typed, TypeOK, Call, SelectsLinks
  <1>2. IsFiniteSet(links)
    <2>1. IsFiniteSet(SelectsLinks(Chunk(call.keys, call.asked)))
      BY FS_Subset DEF SelectsLinks, Typed, Finite
    <2> QED BY <2>1, FS_Union DEF Typed, Finite
  <1>3. call' \in Call /\ call'.links = links
    <2>1. CASE next < Len(call.keys)
      <3>1. call' = [call EXCEPT !.links = links, !.asked = next]
        BY <2>1 DEF LoadPivot
      <3> HIDE DEF links, next
      <3> QED BY <1>1, <3>1 DEF Call
    <2>2. CASE ~ next < Len(call.keys)
      <3>1. PICK ks \in Orders({l.related : l \in links}) :
              call' = Finishes([call EXCEPT !.pc = "targets", !.links = links, !.asked = 0,
                                            !.targetKeys = ks])
        BY <2>2 DEF LoadPivot
      <3>2. ks \in Seq(Keys \cup Ids)
        <4> HIDE DEF links
        <4>1. IsFiniteSet({l.related : l \in links}) /\ {l.related : l \in links} \subseteq Keys \cup Ids
          BY <1>1, <1>2, RelatedFinite
        <4> QED BY <4>1, OrdersType
      <3> DEFINE c == [call EXCEPT !.pc = "targets", !.links = links, !.asked = 0, !.targetKeys = ks]
      <3>3. c \in Call /\ c.links = links
        <4> HIDE DEF links
        <4> QED BY <1>1, <3>2 DEF Call
      <3>4. Finishes(c) \in Call /\ Finishes(c).links = c.links
        <4> HIDE DEF c
        <4>1. Finishes(c) \in Call
          BY <3>3, FinishesType
        <4> QED BY <3>3, <4>1 DEF Finishes, Call
      <3> QED BY <3>1, <3>3, <3>4
    <2> QED BY <2>1, <2>2
  <1>4. TypeOK'
    BY <1>3 DEF LoadPivot, Typed, TypeOK, Call
  <1>5. Finite'
    BY <1>2, <1>3 DEF LoadPivot, Typed, Finite
  <1> QED BY <1>4, <1>5 DEF Typed

\* So does a chunk of target rows.
LEMMA TargetsType == ASSUME Typed, LoadTargets PROVE Typed'
  <1> DEFINE rows == Selects(call.trashed, Chunk(call.targetKeys, call.asked))
             c == [call EXCEPT !.rows  = Append(@, rows), !.asked = @ + KEY_CHUNK_SIZE]
  <1>1. call \in Call /\ rows \in SUBSET Rows
    BY SelectsRows DEF Typed, TypeOK, Call
  <1>2. c \in Call /\ c.links = call.links
    <2>1. Append(call.rows, rows) \in Seq(SUBSET Rows)
      BY <1>1 DEF Call
    <2>2. call.asked + KEY_CHUNK_SIZE \in Nat
      BY <1>1, ChunkAssumption DEF Call
    <2> DEFINE all == Append(call.rows, rows)
               next == call.asked + KEY_CHUNK_SIZE
    <2>3. c = [call EXCEPT !.rows = all, !.asked = next]
      BY <1>1 DEF Call
    <2> HIDE DEF all, next, c
    <2> QED BY <1>1, <2>1, <2>2, <2>3 DEF Call, all, next
  <1>3. Finishes(c) \in Call /\ Finishes(c).links = c.links
    <2> HIDE DEF c
    <2>1. Finishes(c) \in Call
      BY <1>2, FinishesType
    <2> QED BY <1>2, <2>1 DEF Finishes, Call
  <1>4. call' = Finishes(c)
    BY DEF LoadTargets
  <1> HIDE DEF c
  <1>5. TypeOK'
    BY <1>3, <1>4 DEF LoadTargets, Typed, TypeOK, Call
  <1>6. Finite'
    BY <1>2, <1>3, <1>4 DEF LoadTargets, Typed, Finite
  <1> QED BY <1>5, <1>6 DEF Typed

\* So does the end of a load() in a failure, and a loadOne().
LEMMA FailsType == ASSUME Typed, LoadFails PROVE Typed'
  <1>1. call' \in Call /\ call'.links = {}
    BY NoCallType DEF LoadFails, NoCall, Call
  <1>2. TypeOK'
    BY <1>1 DEF LoadFails, Typed, TypeOK, Call
  <1>3. Finite'
    BY <1>1, FS_EmptySet DEF LoadFails, Typed, Finite
  <1> QED BY <1>2, <1>3 DEF Typed

\* A loadOne() keeps the state well typed.
LEMMA OneType ==
    ASSUME Typed, NEW key \in Keys \cup {Null}, NEW trashed \in BOOLEAN, loadOne(key, trashed)
    PROVE  Typed'
  <1>1. call' \in Call /\ call'.links = {}
    <2>1. CASE call' = [NoCall EXCEPT !.pc = "failed"]
      BY <2>1, NoCallType DEF Call
    <2>2. CASE ~ call' = [NoCall EXCEPT !.pc = "failed"]
      <3> DEFINE found == IF key = Null THEN {} ELSE Selects(trashed, {key})
      <3>1. PICK out \in IF found = {} THEN {{}} ELSE {{<<key, 1, r>>} : r \in found} :
              call' = [NoCall EXCEPT !.pc = "one", !.trashed = trashed, !.keys = <<key>>, !.out = out]
        BY <2>2 DEF loadOne
      <3>2. found \subseteq Rows
        BY SelectsRows DEF Typed, TypeOK
      <3>3. out \in SUBSET ((Keys \cup {Null}) \X Nat \X Rows)
        <4> HIDE DEF found
        <4> QED BY <3>2
      <3>4. <<key>> \in Seq(Keys \cup {Null})
        OBVIOUS
      <3> QED BY <3>1, <3>3, <3>4, NoCallType DEF Call
    <2> QED BY <2>1, <2>2
  <1>2. TypeOK'
    BY <1>1 DEF loadOne, Typed, TypeOK, Call
  <1>3. Finite'
    BY <1>1, FS_EmptySet DEF loadOne, Typed, Finite
  <1> QED BY <1>2, <1>3 DEF Typed

\* Stamping rows leaves a finite set of rows.
LEMMA StampRows ==
    ASSUME NEW hit \in SUBSET Rows, IsFiniteSet(hit)
    PROVE  /\ {[r EXCEPT !.stamp = 2] : r \in hit} \in SUBSET Rows
           /\ IsFiniteSet({[r EXCEPT !.stamp = 2] : r \in hit})
  <1> DEFINE new == {[r EXCEPT !.stamp = 2] : r \in hit}
             f == [r \in hit |-> [r EXCEPT !.stamp = 2]]
  <1>1. f \in Surjection(hit, new)
    BY DEF Surjection
  <1>2. IsFiniteSet(new)
    <2> HIDE DEF f, new
    <2> QED BY <1>1, FS_Surjection
  <1> QED BY <1>2 DEF Rows, Stamps

\* What the three modes make of the tables and of the reply: one step per way
\* to answer.
LEMMA AnswerType ==
    ASSUME Typed, NEW mode \in {"force", "soft", "ignore"}, NEW ids \in SUBSET Keys,
           \/ Ignores(mode, ids) \/ Refuses(mode, ids) \/ Detaches(mode, ids)
           \/ mode = "force" /\ RemovesDependents(ids)
           \/ mode = "soft" /\ StampsDependents(ids)
    PROVE  /\ db' \in Tables /\ reply' \in Reply
           /\ IsFiniteSet(db'.rows) /\ IsFiniteSet(db'.links)
  <1>0. db \in Tables /\ IsFiniteSet(db.rows) /\ IsFiniteSet(db.links)
    BY DEF Typed, TypeOK, Finite, Tables
  <1>1. CASE Ignores(mode, ids) \/ Refuses(mode, ids)
    <2>1. db' = db
      BY <1>1 DEF Ignores, Refuses
    <2>2. PICK b \in BOOLEAN : reply' = [mode |-> mode, ids |-> ids, ok |-> b, affected |-> 0]
      BY <1>1 DEF Ignores, Refuses
    <2>3. reply' \in Reply
      BY <2>2 DEF Reply
    <2> QED BY <1>0, <2>1, <2>3
  <1>2. CASE Detaches(mode, ids)
    <2> DEFINE hit == {l \in db.links : l.key \in ids}
    <2>1. IsFiniteSet(hit) /\ IsFiniteSet(db.links \ hit)
      BY <1>0, FS_Subset
    <2>2. Cardinality(hit) \in Nat
      BY <2>1, FS_CardinalityType
    <2>3. db' = [db EXCEPT !.links = @ \ hit]
          /\ reply' = [mode |-> mode, ids |-> ids, ok |-> TRUE, affected |-> Cardinality(hit)]
      BY <1>2 DEF Detaches
    <2> HIDE DEF hit
    <2> QED BY <1>0, <2>1, <2>2, <2>3 DEF Tables, Reply
  <1>3. CASE mode = "force" /\ RemovesDependents(ids)
    <2> DEFINE hit == {r \in db.rows : Dependent(r, ids)}
    <2>1. IsFiniteSet(hit) /\ IsFiniteSet(db.rows \ hit)
      BY <1>0, FS_Subset
    <2>2. Cardinality(hit) \in Nat
      BY <2>1, FS_CardinalityType
    <2>3. db' = [db EXCEPT !.rows = @ \ hit]
          /\ reply' = [mode |-> "force", ids |-> ids, ok |-> TRUE, affected |-> Cardinality(hit)]
      BY <1>3 DEF RemovesDependents
    <2> HIDE DEF hit
    <2> QED BY <1>0, <2>1, <2>2, <2>3 DEF Tables, Reply
  <1>4. CASE mode = "soft" /\ StampsDependents(ids)
    <2> DEFINE hit == {r \in db.rows : Dependent(r, ids) /\ r.stamp = 0}
               new == {[r EXCEPT !.stamp = 2] : r \in hit}
    <2>1. IsFiniteSet(hit) /\ IsFiniteSet(db.rows \ hit) /\ hit \in SUBSET Rows
      BY <1>0, FS_Subset DEF Tables
    <2>2. Cardinality(hit) \in Nat
      BY <2>1, FS_CardinalityType
    <2>3. new \in SUBSET Rows /\ IsFiniteSet(new)
      <3> HIDE DEF hit
      <3> QED BY <2>1, StampRows
    <2>4. IsFiniteSet((db.rows \ hit) \cup new)
      <3> HIDE DEF hit, new
      <3> QED BY <2>1, <2>3, FS_Union
    <2>5. db' = [db EXCEPT !.rows = (@ \ hit) \cup new]
          /\ reply' = [mode |-> "soft", ids |-> ids, ok |-> TRUE, affected |-> Cardinality(hit)]
      BY <1>4 DEF StampsDependents
    <2> HIDE DEF hit, new
    <2> QED BY <1>0, <2>2, <2>3, <2>4, <2>5 DEF Tables, Reply
  <1> QED BY <1>1, <1>2, <1>3, <1>4

\* deleteRelated() keeps the types, ...
LEMMA DeleteType ==
    ASSUME Typed, NEW mode \in {"force", "soft", "ignore"}, NEW ids \in SUBSET Keys,
           deleteRelated(mode, ids)
    PROVE  Typed'
  <1>1. /\ db' \in Tables /\ reply' \in Reply
        /\ IsFiniteSet(db'.rows) /\ IsFiniteSet(db'.links)
    BY AnswerType DEF deleteRelated
  <1>2. TypeOK'
    BY <1>1 DEF deleteRelated, Remembers, Typed, TypeOK, Tables, Reply
  <1>3. Finite'
    BY <1>1 DEF deleteRelated, Typed, Finite
  <1> QED BY <1>2, <1>3 DEF Typed

\* ... and so do the statements of others.
LEMMA WritesType == ASSUME Typed, Writes PROVE Typed'
  <1>0. db \in Tables /\ IsFiniteSet(db.rows) /\ IsFiniteSet(db.links)
    BY DEF Typed, TypeOK, Finite, Tables
  <1>1. ASSUME NEW R \in SUBSET Rows, NEW x \in Rows, R \subseteq db.rows,
               db' = [db EXCEPT !.rows = R \cup {x}] \/ db' = [db EXCEPT !.rows = R]
        PROVE  db' \in Tables /\ IsFiniteSet(db'.rows) /\ IsFiniteSet(db'.links)
    <2>1. IsFiniteSet(R) /\ IsFiniteSet(R \cup {x})
      BY <1>0, <1>1, FS_Subset, FS_AddElement
    <2> QED BY <1>0, <1>1, <2>1 DEF Tables
  <1>2. ASSUME NEW L \in SUBSET Links, NEW x \in Links, L \subseteq db.links,
               db' = [db EXCEPT !.links = L \cup {x}] \/ db' = [db EXCEPT !.links = L]
        PROVE  db' \in Tables /\ IsFiniteSet(db'.rows) /\ IsFiniteSet(db'.links)
    <2>1. IsFiniteSet(L) /\ IsFiniteSet(L \cup {x})
      BY <1>0, <1>2, FS_Subset, FS_AddElement
    <2> QED BY <1>0, <1>2, <2>1 DEF Tables
  <1>3. db' \in Tables /\ IsFiniteSet(db'.rows) /\ IsFiniteSet(db'.links)
    <2> USE <1>0 DEF Tables
    <2>1. ASSUME NEW r \in db.rows, db' = [db EXCEPT !.rows = @ \ {r}]
          PROVE  db' \in Tables /\ IsFiniteSet(db'.rows) /\ IsFiniteSet(db'.links)
      <3>1. db' = [db EXCEPT !.rows = db.rows \ {r}]
        BY <2>1
      <3> QED BY <1>1, <3>1
    <2>2. ASSUME NEW r \in db.rows, NEW x \in Rows, db' = [db EXCEPT !.rows = (@ \ {r}) \cup {x}]
          PROVE  db' \in Tables /\ IsFiniteSet(db'.rows) /\ IsFiniteSet(db'.links)
      <3>1. db' = [db EXCEPT !.rows = (db.rows \ {r}) \cup {x}]
        BY <2>2
      <3> QED BY <1>1, <3>1
    <2>3. ASSUME NEW x \in Rows, db' = [db EXCEPT !.rows = @ \cup {x}]
          PROVE  db' \in Tables /\ IsFiniteSet(db'.rows) /\ IsFiniteSet(db'.links)
      <3>1. db' = [db EXCEPT !.rows = db.rows \cup {x}]
        BY <2>3
      <3> QED BY <1>1, <3>1
    <2>4. ASSUME NEW l \in db.links, db' = [db EXCEPT !.links = @ \ {l}]
          PROVE  db' \in Tables /\ IsFiniteSet(db'.rows) /\ IsFiniteSet(db'.links)
      <3>1. db' = [db EXCEPT !.links = db.links \ {l}]
        BY <2>4
      <3> QED BY <1>2, <3>1
    <2>5. ASSUME NEW x \in Links, db' = [db EXCEPT !.links = @ \cup {x}]
          PROVE  db' \in Tables /\ IsFiniteSet(db'.rows) /\ IsFiniteSet(db'.links)
      <3>1. db' = [db EXCEPT !.links = db.links \cup {x}]
        BY <2>5
      <3> QED BY <1>2, <3>1
    <2>6. \A r \in db.rows : /\ \A k \in Keys \cup {Null} : [r EXCEPT !.key = k] \in Rows
                             /\ \A st \in {0, 1} : [r EXCEPT !.stamp = st] \in Rows
      BY DEF Rows, Stamps
    <2>7. \A id \in Ids, k \in Keys : [id |-> id, key |-> k, type |-> "own", stamp |-> 0] \in Rows
      BY DEF Rows, Stamps
    <2>8. \A id \in LinkIds, k \in Keys, t \in Ids : [id |-> id, key |-> k, related |-> t] \in Links
      BY DEF Links
    <2> QED BY <2>1, <2>2, <2>3, <2>4, <2>5, <2>6, <2>7, <2>8 DEF Writes
  <1>4. TypeOK'
    BY <1>3, InputAssumption DEF Writes, Remembers, Typed, TypeOK, Tables
  <1>5. Finite'
    BY <1>3 DEF Writes, Typed, Finite
  <1> QED BY <1>4, <1>5 DEF Typed

\* So every step keeps the types.
LEMMA NextType == Typed /\ [Next]_vars => Typed'
  <1> SUFFICES ASSUME Typed, [Next]_vars PROVE Typed'
    OBVIOUS
  <1>1. ASSUME NEW parents \in ParentSets, NEW mode \in {"force", "soft", "ignore"},
               deleteRelated(mode, parents \ {Null})
        PROVE  Typed'
    <2>1. parents \ {Null} \in SUBSET Keys
      BY InputAssumption
    <2> QED BY <1>1, <2>1, DeleteType
  <1>2. CASE UNCHANGED vars
    BY <1>2 DEF vars, Typed, TypeOK, Finite
  <1> QED BY <1>1, <1>2, LoadType, PivotType, TargetsType, FailsType, OneType, WritesType DEF Next

\* The initial state is well typed, its tables finite.
LEMMA InitType == Init => Typed
  <1> SUFFICES ASSUME Init PROVE Typed
    OBVIOUS
  <1>1. NoReply \in Reply
    BY DEF NoReply, Reply
  <1>2. db \in Tables /\ IsFiniteSet(db.rows) /\ IsFiniteSet(db.links)
    BY InputAssumption DEF Init, Tables
  <1>3. TypeOK
    BY <1>1, <1>2, NoCallType, InputAssumption DEF Init, TypeOK, Tables, Call, Reply
  <1>4. Finite
    BY <1>2, NoCallType, FS_EmptySet DEF Init, Finite
  <1> QED BY <1>3, <1>4 DEF Typed

\* The locals of a load() and the last outcome of deleteRelated() are of the
\* shapes relations.ts gives them; an order of keys is a sequence of them
\* because every call has finitely many.
THEOREM TypeCorrect == Spec => []TypeOK
  <1>1. Typed => TypeOK
    BY DEF Typed
  <1> QED BY <1>1, InitType, NextType, PTL DEF Spec

-----------------------------------------------------------------------------
(* load() and loadOne() invent nothing. *)

Elements(s) == {s[i] : i \in DOMAIN s}

\* What a call has read so far, while the tables were those of P: links of its
\* keys that existed, and rows that existed, in scope, of the relation's type,
\* and (but across a pivot) under one of its keys.
HasRead(c, P) ==
    /\ \A l \in c.links : l.key \in Elements(c.keys) /\ \E d \in P : l \in d.links
    /\ \A i \in DOMAIN c.rows : \A r \in c.rows[i] :
          /\ OwnType(r) /\ (rel.soft /\ ~ c.trashed => r.stamp = 0)
          /\ rel.kind # "belongsToMany" => r.key \in Elements(c.keys)
          /\ \E d \in P : r \in d.rows

\* What a call returned is as NothingInvented says.
Returned(c, P) ==
    \A e \in c.out :
        /\ \E i \in DOMAIN c.keys : c.keys[i] = e[1]
        /\ rel.soft /\ ~ c.trashed => e[3].stamp = 0
        /\ \E d \in P : e[3] \in d.rows
        /\ IF rel.kind = "belongsToMany"
           THEN \E d \in P : [id |-> e[2], key |-> e[1], related |-> e[3].id] \in d.links
           ELSE Belongs(e[3], e[1])

\* The history goes with a call, which asks for rows under its own keys, unless
\* they are those of the links it read.
LoadInv ==
    /\ call.pc \in {"pivot", "targets"} => db \in past /\ call.out = {}
    /\ rel.kind # "belongsToMany" =>
          call.pc # "pivot" /\ (call.pc = "targets" => call.targetKeys = call.keys)
    /\ HasRead(call, past)
    /\ Returned(call, past)

\* A chunk of a list holds elements of it.
LEMMA ChunkElements ==
    ASSUME NEW s, NEW i
    PROVE  Chunk(s, i) \subseteq Elements(s)
  BY DEF Chunk, Elements

\* Grouping what was read invents nothing.
LEMMA GroupedReturned ==
    ASSUME NEW c \in Call, NEW P, HasRead(c, P), c.out = {}
    PROVE  HasRead(Finishes(c), P) /\ Returned(Finishes(c), P)
  <1>1. CASE c.asked < Len(c.targetKeys)
    <2>1. Finishes(c) = c
      BY <1>1 DEF Finishes
    <2> QED BY <2>1 DEF Returned
  <1>2. CASE ~ c.asked < Len(c.targetKeys)
    <2> DEFINE g == Grouped(c)
    <2>0. Finishes(c) = [c EXCEPT !.pc = "done", !.out = g]
      BY <1>2 DEF Finishes
    <2>1. /\ Finishes(c).out = g /\ Finishes(c).keys = c.keys /\ Finishes(c).rows = c.rows
          /\ Finishes(c).links = c.links /\ Finishes(c).trashed = c.trashed
      <3> HIDE DEF g
      <3> QED BY <2>0 DEF Call
    <2>2. ASSUME NEW e \in Grouped(c)
          PROVE  /\ \E i \in DOMAIN c.keys : c.keys[i] = e[1]
                 /\ rel.soft /\ ~ c.trashed => e[3].stamp = 0
                 /\ \E d \in P : e[3] \in d.rows
                 /\ IF rel.kind = "belongsToMany"
                    THEN \E d \in P : [id |-> e[2], key |-> e[1], related |-> e[3].id] \in d.links
                    ELSE Belongs(e[3], e[1])
      <3>1. PICK i \in DOMAIN c.rows : \E r \in c.rows[i] :
                IF rel.kind = "belongsToMany"
                THEN \E l \in c.links : r.id = l.related /\ e = <<l.key, l.id, r>>
                ELSE e = <<r.key, i, r>>
        BY GroupedEntry
      <3>2. PICK r \in c.rows[i] :
                IF rel.kind = "belongsToMany"
                THEN \E l \in c.links : r.id = l.related /\ e = <<l.key, l.id, r>>
                ELSE e = <<r.key, i, r>>
        BY <3>1
      <3>3. e[3] = r
        BY <3>2
      <3>4. /\ OwnType(r) /\ (rel.soft /\ ~ c.trashed => r.stamp = 0)
            /\ rel.kind # "belongsToMany" => r.key \in Elements(c.keys)
            /\ \E d \in P : r \in d.rows
        BY DEF HasRead
      <3>5. CASE rel.kind = "belongsToMany"
        <4>1. PICK l \in c.links : r.id = l.related /\ e = <<l.key, l.id, r>>
          BY <3>2, <3>5
        <4>2. l.key \in Elements(c.keys) /\ \E d \in P : l \in d.links
          BY DEF HasRead
        <4>3. l \in Links
          BY DEF Call
        <4>4. l = [id |-> e[2], key |-> e[1], related |-> e[3].id]
          BY <4>1, <4>3 DEF Links
        <4> QED BY <3>3, <3>4, <3>5, <4>1, <4>2, <4>4 DEF Elements
      <3>6. CASE rel.kind # "belongsToMany"
        <4>1. e = <<r.key, i, r>>
          BY <3>2, <3>6
        <4> QED BY <3>3, <3>4, <3>6, <4>1 DEF Elements, Belongs, OwnType
      <3> QED BY <3>5, <3>6
    <2>3. Returned(Finishes(c), P)
      BY <2>1, <2>2 DEF Returned
    <2>4. HasRead(Finishes(c), P)
      BY <2>1 DEF HasRead
    <2> QED BY <2>3, <2>4
  <1> QED BY <1>1, <1>2

\* What was read and returned stays so as the history grows.
LEMMA HistoryGrows ==
    ASSUME NEW c, NEW P, NEW Q, P \subseteq Q, HasRead(c, P), Returned(c, P)
    PROVE  HasRead(c, Q) /\ Returned(c, Q)
  BY DEF HasRead, Returned

\* One step per action.
LEMMA NextLoad == Typed /\ LoadInv /\ [Next]_vars => LoadInv'
  <1> SUFFICES ASSUME Typed, LoadInv, [Next]_vars PROVE LoadInv'
    OBVIOUS
  <1>0. call \in Call /\ db \in Tables
    BY DEF Typed, TypeOK, Call, Tables
  <1>1. ASSUME NEW parents \in ParentSets, NEW trashed \in BOOLEAN, load(parents, trashed)
        PROVE  LoadInv'
    <2>1. PICK ks \in keySet(parents) :
            call' = IF ks = <<>> THEN [NoCall EXCEPT !.pc = "done", !.trashed = trashed]
                    ELSE IF rel.kind = "belongsToMany"
                    THEN [NoCall EXCEPT !.pc = "pivot", !.trashed = trashed, !.keys = ks]
                    ELSE [NoCall EXCEPT !.pc = "targets", !.trashed = trashed, !.keys = ks,
                                        !.targetKeys = ks]
      BY <1>1 DEF load
    <2>2. /\ call'.links = {} /\ call'.rows = <<>> /\ call'.out = {}
          /\ rel.kind # "belongsToMany" =>
                call'.pc # "pivot" /\ (call'.pc = "targets" => call'.targetKeys = call'.keys)
      BY <2>1 DEF NoCall
    <2>3. past' = {db} /\ UNCHANGED <<rel, db>>
      BY <1>1 DEF load
    <2> QED BY <2>2, <2>3 DEF LoadInv, HasRead, Returned
  <1>2. CASE LoadPivot
    <2> DEFINE links == call.links \cup SelectsLinks(Chunk(call.keys, call.asked))
               next  == call.asked + KEY_CHUNK_SIZE
    <2>0. rel.kind = "belongsToMany" /\ db \in past /\ call.out = {} /\ call.pc = "pivot"
      BY <1>2 DEF LoadPivot, LoadInv
    <2>1. \A l \in links : l.key \in Elements(call.keys) /\ \E d \in past : l \in d.links
      BY <2>0, ChunkElements DEF SelectsLinks, LoadInv, HasRead
    <2>2. links \in SUBSET Links
      BY <1>0 DEF SelectsLinks, Call, Tables
    <2>3. UNCHANGED <<rel, db, past>>
      BY <1>2 DEF LoadPivot
    <2>4. CASE next < Len(call.keys)
      <3>1. call' = [call EXCEPT !.links = links, !.asked = next]
        BY <1>2, <2>4 DEF LoadPivot
      <3>2. /\ call'.links = links /\ call'.keys = call.keys /\ call'.rows = call.rows
            /\ call'.trashed = call.trashed /\ call'.out = {}
        <4> HIDE DEF links, next
        <4> QED BY <1>0, <2>0, <3>1 DEF Call
      <3>3. HasRead(call', past) /\ Returned(call', past)
        <4> HIDE DEF links
        <4> QED BY <2>1, <3>2 DEF LoadInv, HasRead, Returned
      <3> QED BY <2>0, <2>3, <3>2, <3>3 DEF LoadInv, HasRead, Returned, Belongs, OwnType
    <2>5. CASE ~ next < Len(call.keys)
      <3>1. PICK ks \in Orders({l.related : l \in links}) :
              call' = Finishes([call EXCEPT !.pc = "targets", !.links = links, !.asked = 0,
                                            !.targetKeys = ks])
        BY <1>2, <2>5 DEF LoadPivot
      <3> DEFINE c == [call EXCEPT !.pc = "targets", !.links = links, !.asked = 0, !.targetKeys = ks]
      <3>2. /\ c.links = links /\ c.keys = call.keys /\ c.rows = call.rows
            /\ c.trashed = call.trashed /\ c.out = {} /\ c.pc = "targets"
        <4> HIDE DEF links
        <4> QED BY <1>0, <2>0 DEF Call
      <3>3. ks \in Seq(Keys \cup Ids)
        <4>1. IsFiniteSet(links)
          <5>1. IsFiniteSet(SelectsLinks(Chunk(call.keys, call.asked)))
            BY FS_Subset DEF SelectsLinks, Typed, Finite
          <5> QED BY <5>1, FS_Union DEF Typed, Finite
        <4> HIDE DEF links
        <4>2. IsFiniteSet({l.related : l \in links}) /\ {l.related : l \in links} \subseteq Keys \cup Ids
          BY <2>2, <4>1, RelatedFinite
        <4> QED BY <4>2, OrdersType
      <3>4. c \in Call
        <4> HIDE DEF links
        <4> QED BY <1>0, <2>2, <3>3 DEF Call
      <3>5. HasRead(c, past)
        <4> HIDE DEF links, c
        <4> QED BY <2>1, <3>2 DEF LoadInv, HasRead
      <3> HIDE DEF c
      <3>6. HasRead(Finishes(c), past) /\ Returned(Finishes(c), past)
        BY <3>2, <3>4, <3>5, GroupedReturned
      <3>7. Finishes(c).pc \in {"pivot", "targets"} => Finishes(c).out = {}
        BY <3>2, <3>4 DEF Finishes, Call
      <3>8. call' = Finishes(c)
        BY <3>1 DEF c
      <3> QED BY <2>0, <2>3, <3>6, <3>7, <3>8 DEF LoadInv, HasRead, Returned, Belongs, OwnType
    <2> QED BY <2>4, <2>5
  <1>3. CASE LoadTargets
    <2> DEFINE rows == Selects(call.trashed, Chunk(call.targetKeys, call.asked))
               all  == Append(call.rows, rows)
               next == call.asked + KEY_CHUNK_SIZE
               c    == [call EXCEPT !.rows = all, !.asked = next]
    <2>0. /\ db \in past /\ call.out = {} /\ call.pc = "targets"
          /\ rel.kind # "belongsToMany" => call.targetKeys = call.keys
      BY <1>3 DEF LoadTargets, LoadInv
    <2>1. \A r \in rows :
              /\ OwnType(r) /\ (rel.soft /\ ~ call.trashed => r.stamp = 0)
              /\ rel.kind # "belongsToMany" => r.key \in Elements(call.keys)
              /\ r \in db.rows
      BY <2>0, SelectsRows, ChunkElements
    <2>2. rows \in SUBSET Rows
      BY <1>0, SelectsRows DEF Tables
    <2>3. all \in Seq(SUBSET Rows) /\ next \in Nat
      BY <1>0, <2>2, ChunkAssumption DEF Call
    <2>4. \A i \in DOMAIN all : all[i] = rows \/ (i \in DOMAIN call.rows /\ all[i] = call.rows[i])
      <3> HIDE DEF rows
      <3> QED BY <1>0, <2>2 DEF Call
    <2>5. /\ c \in Call /\ c.links = call.links /\ c.keys = call.keys /\ c.rows = all
          /\ c.trashed = call.trashed /\ c.out = {} /\ c.pc = "targets"
          /\ c.targetKeys = call.targetKeys
      <3> HIDE DEF all, next
      <3> QED BY <1>0, <2>0, <2>3 DEF Call
    <2>6. call' = Finishes(c)
      <3>1. c = [call EXCEPT !.rows  = Append(@, rows), !.asked = @ + KEY_CHUNK_SIZE]
        BY <1>0 DEF Call
      <3> HIDE DEF c
      <3> QED BY <1>3, <3>1 DEF LoadTargets
    <2>7. HasRead(c, past)
      <3> HIDE DEF c, rows, all
      <3> QED BY <2>0, <2>1, <2>4, <2>5 DEF LoadInv, HasRead
    <2> HIDE DEF c
    <2>8. HasRead(Finishes(c), past) /\ Returned(Finishes(c), past)
      BY <2>5, <2>7, GroupedReturned
    <2>9. /\ Finishes(c).pc \in {"pivot", "targets"} => Finishes(c).out = {}
          /\ Finishes(c).pc \in {"targets", "done"}
          /\ Finishes(c).targetKeys = call.targetKeys /\ Finishes(c).keys = call.keys
      BY <2>5 DEF Finishes, Call
    <2>10. UNCHANGED <<rel, db, past>>
      BY <1>3 DEF LoadTargets
    <2> QED BY <2>0, <2>6, <2>8, <2>9, <2>10 DEF LoadInv, HasRead, Returned, Belongs, OwnType
  <1>4. CASE LoadFails
    <2>1. call'.links = {} /\ call'.rows = <<>> /\ call'.out = {} /\ call'.pc = "failed"
      BY <1>4 DEF LoadFails, NoCall
    <2> QED BY <2>1 DEF LoadInv, HasRead, Returned
  <1>5. ASSUME NEW key \in Keys \cup {Null}, NEW trashed \in BOOLEAN, loadOne(key, trashed)
        PROVE  LoadInv'
    <2>0. past' = {db} /\ UNCHANGED <<rel, db>> /\ rel.kind # "belongsToMany"
      BY <1>5 DEF loadOne
    <2>1. CASE call' = [NoCall EXCEPT !.pc = "failed"]
      <3>1. call'.links = {} /\ call'.rows = <<>> /\ call'.out = {} /\ call'.pc = "failed"
        BY <2>1 DEF NoCall
      <3> QED BY <3>1 DEF LoadInv, HasRead, Returned
    <2>2. CASE ~ call' = [NoCall EXCEPT !.pc = "failed"]
      <3> DEFINE found == IF key = Null THEN {} ELSE Selects(trashed, {key})
      <3>1. PICK out \in IF found = {} THEN {{}} ELSE {{<<key, 1, r>>} : r \in found} :
              call' = [NoCall EXCEPT !.pc = "one", !.trashed = trashed, !.keys = <<key>>, !.out = out]
        BY <1>5, <2>2 DEF loadOne
      <3>2. /\ call'.links = {} /\ call'.rows = <<>> /\ call'.pc = "one" /\ call'.keys = <<key>>
            /\ call'.trashed = trashed /\ call'.out = out
        BY <3>1 DEF NoCall
      <3>3. ASSUME NEW e \in out PROVE \E r \in Selects(trashed, {key}) : e = <<key, 1, r>>
        <4>1. found # {} /\ e \in {<<key, 1, r>> : r \in found}
          <5>1. out \in (IF found = {} THEN {{}} ELSE {{<<key, 1, r>>} : r \in found})
            BY <3>1
          <5> HIDE DEF found
          <5> QED BY <3>3, <5>1
        <4>2. found = Selects(trashed, {key})
          BY <4>1
        <4> QED BY <4>1, <4>2
      <3>4. \A r \in Selects(trashed, {key}) :
              /\ r \in db.rows /\ OwnType(r) /\ (rel.soft /\ ~ trashed => r.stamp = 0)
              /\ r.key = key
        BY <2>0, SelectsRows
      <3>5. Returned(call', {db})
        <4> SUFFICES ASSUME NEW e \in out
                     PROVE  /\ \E i \in DOMAIN <<key>> : <<key>>[i] = e[1]
                            /\ rel.soft /\ ~ trashed => e[3].stamp = 0
                            /\ \E d \in {db} : e[3] \in d.rows
                            /\ Belongs(e[3], e[1])
          BY <2>0, <3>2 DEF Returned
        <4>1. PICK r \in Selects(trashed, {key}) : e = <<key, 1, r>>
          BY <3>3
        <4>2. e[1] = key /\ e[3] = r
          BY <4>1
        <4>3. \E i \in DOMAIN <<key>> : <<key>>[i] = e[1]
          <5>1. 1 \in DOMAIN <<key>> /\ <<key>>[1] = key
            OBVIOUS
          <5> QED BY <4>2, <5>1
        <4>4. /\ e[3] \in db.rows /\ Belongs(e[3], e[1])
              /\ rel.soft /\ ~ trashed => e[3].stamp = 0
          BY <3>4, <4>2 DEF Belongs, OwnType
        <4> QED BY <4>3, <4>4
      <3> QED BY <2>0, <3>2, <3>5 DEF LoadInv, HasRead, Returned, Belongs
    <2> QED BY <2>1, <2>2
  <1>6. ASSUME Remembers, UNCHANGED <<rel, call>> PROVE LoadInv'
    <2>1. past \subseteq past' /\ (call.pc \in {"pivot", "targets"} => db' \in past')
      BY <1>6 DEF Remembers
    <2>2. HasRead(call, past') /\ Returned(call, past')
      BY <2>1, HistoryGrows DEF LoadInv
    <2> QED BY <1>6, <2>1, <2>2 DEF LoadInv, HasRead, Returned, Belongs, OwnType
  <1>7. CASE UNCHANGED vars
    BY <1>7 DEF vars, LoadInv, HasRead, Returned, Belongs, OwnType
  <1> QED BY <1>1, <1>2, <1>3, <1>4, <1>5, <1>6, <1>7 DEF Next, deleteRelated, Writes

\* load() and loadOne() return no row, and across a pivot no link, that was not
\* there while they ran, in scope and under the key it is returned for: the
\* chunks (relations.ts) leak nothing whatever the tables, the number of keys
\* and the chunk size.
THEOREM LoadCorrect == Spec => []NothingInvented
  <1>1. Init => LoadInv
    BY DEF Init, NoCall, LoadInv, HasRead, Returned
  <1>2. LoadInv => NothingInvented
    BY DEF LoadInv, Returned, NothingInvented, InScope
  <1>3. LoadInv /\ Typed /\ [Next]_vars => LoadInv'
    BY NextLoad
  <1> QED BY <1>1, <1>2, <1>3, InitType, NextType, PTL DEF Spec

-----------------------------------------------------------------------------
(* deleteRelated(). *)

\* The row after the statement of softDeleteRelated().
Stamped(r) == [r EXCEPT !.stamp = 2]

\* The table after it.
StampedTable(S, hit) == (S \ hit) \cup {Stamped(r) : r \in hit}

\* Stamping live rows of a table replaces exactly them, and keeps every id.
LEMMA StampedRows ==
    ASSUME NEW S \in SUBSET Rows, NEW hit \in SUBSET S, \A r \in hit : r.stamp = 0
    PROVE  LET T == StampedTable(S, hit) IN
           /\ S \ T = hit
           /\ \A r \in T \ S : r.stamp = 2 /\ [r EXCEPT !.stamp = 0] \in hit
           /\ {r.id : r \in T} = {r.id : r \in S}
  <1> DEFINE T == StampedTable(S, hit)
  <1>1. \A r \in hit : /\ Stamped(r).stamp = 2 /\ Stamped(r).id = r.id
                       /\ [Stamped(r) EXCEPT !.stamp = 0] = r
    BY DEF Rows, Stamps, Stamped
  <1>2. /\ \A q \in T : q \in S \ hit \/ \E r \in hit : q = Stamped(r)
        /\ S \ hit \subseteq T
    BY DEF StampedTable
  <1>3. S \ T = hit
    <2>1. ASSUME NEW r \in hit PROVE r \notin T
      BY <1>1, <1>2, 0 # 2
    <2> QED BY <1>2, <2>1
  <1>4. \A r \in T \ S : r.stamp = 2 /\ [r EXCEPT !.stamp = 0] \in hit
    BY <1>1, <1>2
  <1>5. {r.id : r \in T} = {r.id : r \in S}
    <2>1. \A r \in S : \E t \in T : t.id = r.id
      <3>1. ASSUME NEW r \in hit PROVE \E t \in T : t.id = r.id
        <4>1. Stamped(r) \in T
          BY DEF StampedTable
        <4> QED BY <1>1, <4>1
      <3> QED BY <1>2, <3>1
    <2>2. \A t \in T : \E r \in S : r.id = t.id
      BY <1>1, <1>2
    <2>3. \A x : x \in {r.id : r \in T} <=> x \in {r.id : r \in S}
      BY <2>1, <2>2
    <2> QED BY <2>3
  <1> QED BY <1>3, <1>4, <1>5

\* What a deleteRelated() that found hit, of rows or of links, leaves behind.
LEMMA DeleteStep ==
    ASSUME Typed, NEW mode \in {"force", "soft", "ignore"}, NEW ids \in SUBSET Keys,
           deleteRelated(mode, ids)
    PROVE  LET gone == db.rows \ db'.rows
               new  == db'.rows \ db.rows
               cut  == db.links \ db'.links
           IN /\ \A r \in gone : Belongs(r, r.key) /\ r.key \in ids
              /\ \A r \in new : r.stamp = 2 /\ [r EXCEPT !.stamp = 0] \in gone
              /\ mode = "soft" => {r.id : r \in db'.rows} = {r.id : r \in db.rows}
              /\ db'.links \subseteq db.links /\ \A l \in cut : l.key \in ids
              /\ IF rel.kind = "belongsToMany" THEN gone = {} ELSE cut = {}
              /\ reply'.affected = Cardinality(gone) + Cardinality(cut)
              /\ ~ reply'.ok \/ mode = "ignore" => db' = db
              /\ reply'.mode = mode /\ reply'.ids = ids
  <1> DEFINE gone == db.rows \ db'.rows
             new  == db'.rows \ db.rows
             cut  == db.links \ db'.links
  <1>0. /\ db \in Tables /\ IsFiniteSet(db.rows) /\ IsFiniteSet(db.links)
        /\ Cardinality({}) = 0
    BY FS_EmptySet DEF Typed, TypeOK, Finite, Tables
  <1>1. ASSUME db' = db, reply'.affected = 0
        PROVE  /\ gone = {} /\ new = {} /\ cut = {}
               /\ reply'.affected = Cardinality(gone) + Cardinality(cut)
    BY <1>0, <1>1
  <1>2. CASE Ignores(mode, ids) \/ Refuses(mode, ids)
    BY <1>1, <1>2 DEF Ignores, Refuses
  <1>3. CASE rel.kind = "belongsToMany" /\ Detaches(mode, ids) /\ mode # "ignore"
    <2> DEFINE hit == {l \in db.links : l.key \in ids}
    <2>1. /\ db'.links = db.links \ hit /\ db'.rows = db.rows
          /\ reply' = [mode |-> mode, ids |-> ids, ok |-> TRUE, affected |-> Cardinality(hit)]
      BY <1>0, <1>3 DEF Detaches, Tables
    <2>2. cut = hit /\ gone = {} /\ new = {}
      BY <2>1
    <2>3. Cardinality(hit) \in Nat
      BY <1>0, FS_Subset, FS_CardinalityType
    <2>4. reply'.affected = Cardinality(gone) + Cardinality(cut)
      <3> HIDE DEF hit, gone, cut
      <3> QED BY <1>0, <2>1, <2>2, <2>3
    <2> QED BY <1>3, <2>1, <2>2, <2>4
  <1>4. CASE rel.kind \in {"hasOne", "hasMany", "morphMany"} /\ RemovesDependents(ids) /\ mode = "force"
    <2> DEFINE hit == {r \in db.rows : Dependent(r, ids)}
    <2>1. /\ db'.rows = db.rows \ hit /\ db'.links = db.links
          /\ reply' = [mode |-> "force", ids |-> ids, ok |-> TRUE, affected |-> Cardinality(hit)]
      BY <1>0, <1>4 DEF RemovesDependents, Tables
    <2>2. gone = hit /\ cut = {} /\ new = {}
      BY <2>1
    <2>3. Cardinality(hit) \in Nat
      BY <1>0, FS_Subset, FS_CardinalityType
    <2>4. reply'.affected = Cardinality(gone) + Cardinality(cut)
      <3> HIDE DEF hit, gone, cut
      <3> QED BY <1>0, <2>1, <2>2, <2>3
    <2> QED BY <1>4, <2>1, <2>2, <2>4 DEF Dependent, Belongs, OwnType
  <1>5. CASE rel.kind \in {"hasOne", "hasMany", "morphMany"} /\ StampsDependents(ids) /\ mode = "soft"
    <2> DEFINE hit == {r \in db.rows : Dependent(r, ids) /\ r.stamp = 0}
    <2>1. /\ db'.rows = (db.rows \ hit) \cup {Stamped(r) : r \in hit} /\ db'.links = db.links
          /\ reply' = [mode |-> "soft", ids |-> ids, ok |-> TRUE, affected |-> Cardinality(hit)]
      BY <1>0, <1>5 DEF StampsDependents, Tables, Stamped
    <2>2. /\ gone = hit /\ cut = {}
          /\ \A r \in new : r.stamp = 2 /\ [r EXCEPT !.stamp = 0] \in hit
          /\ {r.id : r \in db'.rows} = {r.id : r \in db.rows}
      <3>1. db.rows \in SUBSET Rows /\ hit \in SUBSET db.rows /\ \A r \in hit : r.stamp = 0
        BY <1>0 DEF Tables
      <3>2. /\ db.rows \ db'.rows = hit
            /\ \A r \in db'.rows \ db.rows : r.stamp = 2 /\ [r EXCEPT !.stamp = 0] \in hit
            /\ {r.id : r \in db'.rows} = {r.id : r \in db.rows}
        <4>1. db'.rows = StampedTable(db.rows, hit)
          BY <2>1 DEF StampedTable
        <4> HIDE DEF hit, gone, new
        <4>2. LET T == StampedTable(db.rows, hit) IN
              /\ db.rows \ T = hit
              /\ \A r \in T \ db.rows : r.stamp = 2 /\ [r EXCEPT !.stamp = 0] \in hit
              /\ {r.id : r \in T} = {r.id : r \in db.rows}
          BY <3>1, StampedRows
        <4> QED BY <4>1, <4>2
      <3> QED BY <2>1, <3>2
    <2>3. Cardinality(hit) \in Nat
      BY <1>0, FS_Subset, FS_CardinalityType
    <2>4. reply'.affected = Cardinality(gone) + Cardinality(cut)
      <3> HIDE DEF hit, gone, cut
      <3> QED BY <1>0, <2>1, <2>2, <2>3
    <2> QED BY <1>5, <2>1, <2>2, <2>4 DEF Dependent, Belongs, OwnType
  <1> QED BY <1>2, <1>3, <1>4, <1>5 DEF deleteRelated

\* deleteRelated() touches only what depends on the given keys, stamps only rows
\* that are live and keeps them, lets go of links and never of their targets,
\* and reports exactly how many, whatever the tables and the keys.
THEOREM DeleteCorrect == Spec => OnlyDependentsTouched
  <1> DEFINE Kept ==
        Called =>
          LET ids  == reply'.ids
              gone == db.rows \ db'.rows
              new  == db'.rows \ db.rows
              cut  == db.links \ db'.links
          IN /\ \A r \in gone : Belongs(r, r.key) /\ r.key \in ids
             /\ \A r \in new : r.stamp = 2 /\ [r EXCEPT !.stamp = 0] \in gone
             /\ reply'.mode = "soft" => {r.id : r \in db'.rows} = {r.id : r \in db.rows}
             /\ db'.links \subseteq db.links /\ \A l \in cut : l.key \in ids
             /\ IF rel.kind = "belongsToMany" THEN gone = {} ELSE cut = {}
             /\ reply'.affected = Cardinality(gone) + Cardinality(cut)
             /\ ~ reply'.ok \/ reply'.mode = "ignore" => db' = db
  <1>1. ASSUME Typed, [Next]_vars PROVE [Kept]_vars
    <2>1. CASE UNCHANGED vars
      BY <2>1
    <2>2. CASE UNCHANGED reply
      BY <2>2 DEF Called
    <2>3. ASSUME NEW mode \in {"force", "soft", "ignore"}, NEW parents \in ParentSets,
                 deleteRelated(mode, parents \ {Null})
          PROVE  Kept
      <3>1. parents \ {Null} \in SUBSET Keys
        BY InputAssumption
      <3>2. PICK ids \in SUBSET Keys : deleteRelated(mode, ids)
        BY <2>3, <3>1
      <3> QED BY <1>1, <3>2, DeleteStep
    <2> QED BY <1>1, <2>1, <2>2, <2>3
         DEF Next, load, LoadPivot, LoadTargets, LoadFails, loadOne, Writes
  <1> QED BY <1>1, InitType, NextType, PTL DEF Spec, OnlyDependentsTouched

\* After a deleteRelated() that neither threw nor ignored, a load() of the same
\* keys finds nothing.
THEOREM GoneCorrect == Spec => DependentsAreGone
  <1> DEFINE Gone == Called /\ reply'.ok /\ reply'.mode # "ignore" => Reachable' = {}
  <1>1. ASSUME Typed, NEW mode \in {"force", "soft", "ignore"}, NEW ids \in SUBSET Keys,
               deleteRelated(mode, ids)
        PROVE  Gone
    <2>0. db \in Tables /\ rel' = rel
      BY <1>1 DEF deleteRelated, Typed, TypeOK, Tables
    <2>1. CASE (ids = {} \/ mode = "ignore") /\ Ignores(mode, ids)
      BY <2>1 DEF Ignores, Reachable
    <2>2. CASE Refuses(mode, ids)
      BY <2>2 DEF Refuses
    <2>3. CASE rel.kind = "belongsToMany" /\ Detaches(mode, ids)
      <3>1. /\ db'.links = db.links \ {l \in db.links : l.key \in ids} /\ reply'.ids = ids
        BY <2>0, <2>3 DEF Detaches, Tables
      <3> QED BY <2>0, <2>3, <3>1 DEF Reachable
    <2>4. CASE rel.kind \in {"hasOne", "hasMany", "morphMany"} /\ RemovesDependents(ids)
      <3>1. /\ db'.rows = db.rows \ {r \in db.rows : Dependent(r, ids)} /\ reply'.ids = ids
        BY <2>0, <2>4 DEF RemovesDependents, Tables
      <3> QED BY <2>0, <2>4, <3>1 DEF Reachable, Dependent, OwnType, Belongs
    <2>5. CASE rel.kind \in {"hasOne", "hasMany", "morphMany"} /\ rel.soft /\ StampsDependents(ids)
      <3> DEFINE hit == {r \in db.rows : Dependent(r, ids) /\ r.stamp = 0}
      <3>1. /\ db'.rows = (db.rows \ hit) \cup {Stamped(r) : r \in hit} /\ reply'.ids = ids
        BY <2>0, <2>5 DEF StampsDependents, Tables, Stamped
      <3>2. \A r \in hit : Stamped(r).stamp # 0
        BY <2>0 DEF Tables, Rows, Stamped
      <3>3. ASSUME NEW r \in db'.rows, r.stamp = 0 PROVE ~ Dependent(r, ids)
        BY <3>1, <3>2, <3>3
      <3>4. Reachable' = {r \in db'.rows : r.key \in ids /\ Belongs(r, r.key) /\ r.stamp = 0}
        BY <2>0, <2>5, <3>1 DEF Reachable, Belongs
      <3> QED BY <3>3, <3>4 DEF Dependent, OwnType, Belongs
    <2> QED BY <1>1, <2>1, <2>2, <2>3, <2>4, <2>5 DEF deleteRelated
  <1>2. ASSUME Typed, [Next]_vars PROVE [Gone]_vars
    <2>1. CASE UNCHANGED reply
      BY <2>1 DEF Called
    <2>2. ASSUME NEW mode \in {"force", "soft", "ignore"}, NEW parents \in ParentSets,
                 deleteRelated(mode, parents \ {Null})
          PROVE  Gone
      <3>1. parents \ {Null} \in SUBSET Keys
        BY InputAssumption
      <3>2. PICK ids \in SUBSET Keys : deleteRelated(mode, ids)
        BY <2>2, <3>1
      <3> QED BY <1>1, <1>2, <3>2
    <2> QED BY <1>2, <2>1, <2>2
         DEF Next, load, LoadPivot, LoadTargets, LoadFails, loadOne, Writes
  <1> QED BY <1>2, InitType, NextType, PTL DEF Spec, DependentsAreGone

-----------------------------------------------------------------------------
(* What nobody touches while load() runs is returned, once.  In between,   *)
(* what has been asked for and was not touched is in hand: links by the    *)
(* key of a parent, rows by the value that a statement matches.  No value  *)
(* is asked for twice, so no row comes by two statements.                  *)

\* The rows of a table have distinct primary keys.
IdsDiffer(d) == \A r, s \in d.rows : r.id = s.id => r = s

\* The column that a statement for target rows matches.
Match(r) == IF rel.kind = "belongsToMany" THEN r.id ELSE r.key

Distinct(s) == \A i, j \in DOMAIN s : s[i] = s[j] => i = j
Stays(r, P) == \A d \in P : r \in d.rows
LinkStays(l, P) == \A d \in P : l \in d.links

\* The links of the first n parents' keys have been read.
LinksRead(c, P, n) ==
    \A j \in DOMAIN c.keys : j <= n =>
        \A l \in Links : LinkStays(l, P) /\ l.key = c.keys[j] => l \in c.links

\* So have the rows of the targets asked for, each by one statement.
RowsRead(c, P) ==
    /\ Distinct(c.targetKeys)
    /\ \A i \in DOMAIN c.rows : \A r \in c.rows[i] :
          \E j \in DOMAIN c.targetKeys : j <= c.asked /\ Match(r) = c.targetKeys[j]
    /\ \A i, k \in DOMAIN c.rows : \A r \in c.rows[i], s \in c.rows[k] :
          Match(r) = Match(s) => i = k
    /\ \A j \in DOMAIN c.targetKeys : j <= c.asked =>
          \A r \in Rows :
              /\ Stays(r, P) /\ OwnType(r) /\ (rel.soft /\ ~ c.trashed => r.stamp = 0)
              /\ Match(r) = c.targetKeys[j]
              => \E i \in DOMAIN c.rows : r \in c.rows[i]

\* The targets asked for are those of the links that were read, or the keys.
Targets(c, P) ==
    IF rel.kind = "belongsToMany"
    THEN LinksRead(c, P, Len(c.keys)) /\ \A l \in c.links : l.related \in Elements(c.targetKeys)
    ELSE c.targetKeys = c.keys

StableInv ==
    /\ IdsDiffer(db) /\ \A d \in past : IdsDiffer(d)
    /\ call.pc = "pivot" => LinksRead(call, past, call.asked) /\ call.rows = <<>>
    /\ call.pc \in {"targets", "done"} => Targets(call, past) /\ RowsRead(call, past)
    /\ call.pc = "done" => Len(call.targetKeys) <= call.asked /\ call.out = Grouped(call)

\* An order of a finite set holds each of its elements once.
LEMMA OrdersDistinct ==
    ASSUME NEW S, IsFiniteSet(S), NEW s \in Orders(S)
    PROVE  Distinct(s) /\ Elements(s) = S
  <1> DEFINE n == Cardinality(S)
  <1>1. n \in Nat /\ IsFiniteSet(1 .. n) /\ Cardinality(1 .. n) = n
    <2>1. n \in Nat
      BY FS_CardinalityType
    <2> HIDE DEF n
    <2>2. IsFiniteSet(1 .. n) /\ Cardinality(1 .. n) = IF 1 > n THEN 0 ELSE n - 1 + 1
      BY <2>1, FS_Interval
    <2> QED BY <2>1, <2>2
  <1>2. s \in [1 .. n -> S] /\ \A x \in S : \E i \in 1 .. n : s[i] = x
    BY DEF Orders
  <1>3. s \in Surjection(1 .. n, S)
    BY <1>2 DEF Surjection
  <1>4. s \in Injection(1 .. n, S)
    <2>1. Cardinality(1 .. n) = Cardinality(S)
      BY <1>1
    <2> HIDE DEF n
    <2> QED BY <1>1, <1>3, <2>1, FS_SurjSameCardinalityImpliesInj
  <1> HIDE DEF n
  <1>5. Distinct(s)
    BY <1>2, <1>4 DEF Distinct, Injection, IsInjective
  <1> QED BY <1>2, <1>5 DEF Elements

\* Statements keep the primary keys distinct.
LEMMA AnswerIds ==
    ASSUME Typed, IdsDiffer(db), NEW mode, NEW ids,
           \/ Ignores(mode, ids) \/ Refuses(mode, ids) \/ Detaches(mode, ids)
           \/ RemovesDependents(ids) \/ StampsDependents(ids)
    PROVE  IdsDiffer(db')
  <1>0. db \in Tables
    BY DEF Typed, TypeOK, Tables
  <1>1. CASE Ignores(mode, ids) \/ Refuses(mode, ids) \/ Detaches(mode, ids)
    <2>1. db'.rows = db.rows
      BY <1>0, <1>1 DEF Ignores, Refuses, Detaches, Tables
    <2> QED BY <2>1 DEF IdsDiffer
  <1>2. CASE RemovesDependents(ids)
    <2>1. db'.rows \subseteq db.rows
      BY <1>0, <1>2 DEF RemovesDependents, Tables
    <2> QED BY <2>1 DEF IdsDiffer
  <1>3. CASE StampsDependents(ids)
    <2> DEFINE hit == {r \in db.rows : Dependent(r, ids) /\ r.stamp = 0}
    <2>1. db'.rows = (db.rows \ hit) \cup {[r EXCEPT !.stamp = 2] : r \in hit}
      BY <1>0, <1>3 DEF StampsDependents, Tables
    <2>2. \A t \in db'.rows : \E r \in db.rows : t.id = r.id /\ t = IF r \in hit THEN [r EXCEPT !.stamp = 2] ELSE r
      <3>1. \A r \in hit : [r EXCEPT !.stamp = 2].id = r.id
        BY <1>0 DEF Tables, Rows
      <3> QED BY <2>1, <3>1
    <2> HIDE DEF hit
    <2> QED BY <2>2 DEF IdsDiffer
  <1> QED BY <1>1, <1>2, <1>3

LEMMA WritesIds ==
    ASSUME Typed, IdsDiffer(db), Writes
    PROVE  IdsDiffer(db')
  <1>0. db \in Tables
    BY DEF Typed, TypeOK, Tables
  <1>1. CASE db'.rows \subseteq db.rows
    BY <1>1 DEF IdsDiffer
  <1>2. ASSUME NEW r \in db.rows, NEW t, t.id = r.id, db'.rows = (db.rows \ {r}) \cup {t}
        PROVE  IdsDiffer(db')
    BY <1>2 DEF IdsDiffer
  <1>3. ASSUME NEW t, t.id \notin {r.id : r \in db.rows}, db'.rows = db.rows \cup {t}
        PROVE  IdsDiffer(db')
    BY <1>3 DEF IdsDiffer
  <1>4. ASSUME NEW r \in db.rows, NEW k, db' = [db EXCEPT !.rows = (@ \ {r}) \cup {[r EXCEPT !.key = k]}]
        PROVE  IdsDiffer(db')
    <2>1. [r EXCEPT !.key = k].id = r.id
      BY <1>0 DEF Tables, Rows
    <2> QED BY <1>0, <1>2, <1>4, <2>1 DEF Tables
  <1>5. ASSUME NEW r \in db.rows, NEW n, db' = [db EXCEPT !.rows = (@ \ {r}) \cup {[r EXCEPT !.stamp = n]}]
        PROVE  IdsDiffer(db')
    <2>1. [r EXCEPT !.stamp = n].id = r.id
      BY <1>0 DEF Tables, Rows
    <2> QED BY <1>0, <1>2, <1>5, <2>1 DEF Tables
  <1>6. ASSUME NEW id \in Ids \ {r.id : r \in db.rows}, NEW k,
               db' = [db EXCEPT !.rows = @ \cup {[id |-> id, key |-> k, type |-> "own", stamp |-> 0]}]
        PROVE  IdsDiffer(db')
    <2>1. PICK t : t = [id |-> id, key |-> k, type |-> "own", stamp |-> 0]
      OBVIOUS
    <2>2. db'.rows = db.rows \cup {t} /\ t.id = id
      BY <1>0, <1>6, <2>1 DEF Tables
    <2> QED BY <1>3, <2>2
  <1>7. CASE \/ \E r \in db.rows : db' = [db EXCEPT !.rows = @ \ {r}]
             \/ \E l \in db.links : db' = [db EXCEPT !.links = @ \ {l}]
             \/ \E id \in LinkIds \ {l.id : l \in db.links}, k \in Keys, t \in Ids :
                   db' = [db EXCEPT !.links = @ \cup {[id |-> id, key |-> k, related |-> t]}]
    BY <1>0, <1>1, <1>7 DEF Tables
  <1> QED BY <1>4, <1>5, <1>6, <1>7 DEF Writes

\* What is untouched in a longer history was untouched in a shorter one.
LEMMA StableShrinks ==
    ASSUME NEW c, NEW P, NEW Q, P \subseteq Q
    PROVE  /\ \A n : LinksRead(c, P, n) => LinksRead(c, Q, n)
           /\ RowsRead(c, P) => RowsRead(c, Q)
           /\ Targets(c, P) => Targets(c, Q)
  <1>1. \A r : (Stays(r, Q) => Stays(r, P)) /\ (LinkStays(r, Q) => LinkStays(r, P))
    BY DEF Stays, LinkStays
  <1>2. \A n : LinksRead(c, P, n) => LinksRead(c, Q, n)
    BY <1>1 DEF LinksRead
  <1>3. RowsRead(c, P) => RowsRead(c, Q)
    BY <1>1 DEF RowsRead
  <1> QED BY <1>2, <1>3 DEF Targets

\* A chunk is what the list holds next.
LEMMA ChunkNext ==
    ASSUME NEW s, NEW i, NEW x
    PROVE  x \in Chunk(s, i) <=> \E j \in DOMAIN s : i < j /\ j <= i + KEY_CHUNK_SIZE /\ x = s[j]
  BY DEF Chunk

\* A chunk of target rows is read.
LEMMA RowsReadMore ==
    ASSUME Typed, NEW P, db \in P, RowsRead(call, P), NEW c \in Call,
           c.rows = Append(call.rows, Selects(call.trashed, Chunk(call.targetKeys, call.asked))),
           c.asked = call.asked + KEY_CHUNK_SIZE,
           c.targetKeys = call.targetKeys, c.trashed = call.trashed
    PROVE  RowsRead(c, P)
  <1> DEFINE new == Selects(call.trashed, Chunk(call.targetKeys, call.asked))
             m   == Len(call.rows)
  <1>0. /\ call.asked \in Nat /\ c.asked \in Nat /\ call.asked <= c.asked /\ db \in Tables
        /\ call.targetKeys \in Seq(Keys \cup Ids) /\ call.rows \in Seq(SUBSET Rows) /\ m \in Nat
        /\ DOMAIN call.targetKeys \subseteq Nat /\ KEY_CHUNK_SIZE \in Nat
    BY ChunkAssumption DEF Typed, TypeOK, Call, Tables
  <1>1. new \in SUBSET Rows
    BY <1>0, SelectsRows DEF Tables
  <1>2. /\ DOMAIN c.rows = 1 .. (m + 1) /\ DOMAIN call.rows = 1 .. m
        /\ c.rows[m + 1] = new /\ \A i \in 1 .. m : c.rows[i] = call.rows[i]
    <2> HIDE DEF new
    <2>1. c.rows = Append(call.rows, new)
      BY DEF new
    <2> QED BY <1>0, <1>1, <2>1
  <1>3. \A r \in Rows :
          r \in new <=> /\ r \in db.rows /\ OwnType(r) /\ (rel.soft /\ ~ c.trashed => r.stamp = 0)
                        /\ \E j \in DOMAIN c.targetKeys :
                              call.asked < j /\ j <= c.asked /\ Match(r) = c.targetKeys[j]
    BY <1>0, ChunkNext DEF Selects, scoped, Match
  <1> HIDE DEF new
  <1>4. \A i \in DOMAIN call.rows : \A r \in call.rows[i] :
          \E j \in DOMAIN c.targetKeys : j <= call.asked /\ Match(r) = c.targetKeys[j]
    BY DEF RowsRead
  <1>5. Distinct(c.targetKeys)
    BY DEF RowsRead
  <1>6. ASSUME NEW i \in DOMAIN c.rows, NEW r \in c.rows[i]
        PROVE  \E j \in DOMAIN c.targetKeys : j <= c.asked /\ Match(r) = c.targetKeys[j]
    <2>1. CASE i = m + 1
      BY <1>1, <1>2, <1>3, <1>6, <2>1
    <2>2. CASE i # m + 1
      <3>1. i \in DOMAIN call.rows /\ r \in call.rows[i]
        BY <1>0, <1>2, <1>6, <2>2
      <3>2. PICK j \in DOMAIN c.targetKeys : j <= call.asked /\ Match(r) = c.targetKeys[j]
        BY <1>4, <3>1
      <3>3. j <= c.asked
        BY <1>0, <3>2
      <3> QED BY <3>2, <3>3
    <2> QED BY <2>1, <2>2
  <1>7. ASSUME NEW i \in 1 .. m, NEW r \in c.rows[i], NEW s \in new
        PROVE  Match(r) # Match(s)
    <2>1. PICK j \in DOMAIN c.targetKeys : j <= call.asked /\ Match(r) = c.targetKeys[j]
      BY <1>2, <1>4
    <2>2. PICK k \in DOMAIN c.targetKeys : call.asked < k /\ Match(s) = c.targetKeys[k]
      BY <1>1, <1>3
    <2>3. j # k
      BY <1>0, <2>1, <2>2
    <2> QED BY <1>5, <2>1, <2>2, <2>3 DEF Distinct
  <1>8. ASSUME NEW i \in DOMAIN c.rows, NEW k \in DOMAIN c.rows,
               NEW r \in c.rows[i], NEW s \in c.rows[k], Match(r) = Match(s)
        PROVE  i = k
    <2>1. CASE i = m + 1 /\ k = m + 1
      BY <2>1
    <2>2. CASE i # m + 1 /\ k = m + 1
      <3>1. i \in 1 .. m
        BY <1>0, <1>2, <2>2
      <3> QED BY <1>2, <1>7, <1>8, <2>2, <3>1
    <2>3. CASE i = m + 1 /\ k # m + 1
      <3>1. k \in 1 .. m
        BY <1>0, <1>2, <2>3
      <3> QED BY <1>2, <1>7, <1>8, <2>3, <3>1
    <2>4. CASE i # m + 1 /\ k # m + 1
      <3>1. i \in 1 .. m /\ k \in 1 .. m
        BY <1>0, <1>2, <2>4
      <3> QED BY <1>2, <1>8, <3>1 DEF RowsRead
    <2> QED BY <2>1, <2>2, <2>3, <2>4
  <1>9. ASSUME NEW j \in DOMAIN c.targetKeys, j <= c.asked, NEW r \in Rows,
               Stays(r, P), OwnType(r), rel.soft /\ ~ c.trashed => r.stamp = 0,
               Match(r) = c.targetKeys[j]
        PROVE  \E i \in DOMAIN c.rows : r \in c.rows[i]
    <2>1. CASE j <= call.asked
      <3>1. PICK i \in DOMAIN call.rows : r \in call.rows[i]
        BY <1>9, <2>1 DEF RowsRead
      <3>2. i \in DOMAIN c.rows
        BY <1>0, <1>2
      <3> QED BY <1>2, <3>1, <3>2
    <2>2. CASE ~ j <= call.asked
      <3>1. call.asked < j
        BY <1>0, <2>2
      <3>2. r \in db.rows
        BY <1>9 DEF Stays
      <3>3. r \in new
        BY <1>3, <1>9, <3>1, <3>2
      <3>4. m + 1 \in DOMAIN c.rows
        BY <1>0, <1>2
      <3> QED BY <1>2, <3>3, <3>4
    <2> QED BY <2>1, <2>2
  <1> QED BY <1>5, <1>6, <1>8, <1>9 DEF RowsRead

\* The rows in hand are grouped when the last chunk has come.
LEMMA FinishStable ==
    ASSUME NEW c \in Call, NEW P, c.pc = "targets", Targets(c, P), RowsRead(c, P)
    PROVE  LET f == Finishes(c) IN
           /\ f.pc \in {"targets", "done"} /\ Targets(f, P) /\ RowsRead(f, P)
           /\ f.pc = "done" => Len(f.targetKeys) <= f.asked /\ f.out = Grouped(f)
  <1>1. c.asked \in Nat /\ Len(c.targetKeys) \in Nat
    BY DEF Call
  <1>2. CASE c.asked < Len(c.targetKeys)
    <2>1. Finishes(c) = c
      BY <1>2 DEF Finishes
    <2> QED BY <2>1
  <1>3. CASE ~ c.asked < Len(c.targetKeys)
    <2> DEFINE g == Grouped(c)
               f == [c EXCEPT !.pc = "done", !.out = g]
    <2>1. Finishes(c) = f
      BY <1>3 DEF Finishes
    <2>2. /\ f.pc = "done" /\ f.out = g /\ f.links = c.links /\ f.rows = c.rows
          /\ f.keys = c.keys /\ f.targetKeys = c.targetKeys /\ f.asked = c.asked
          /\ f.trashed = c.trashed
      <3> HIDE DEF g
      <3> QED BY DEF Call
    <2> HIDE DEF f
    <2>3. Grouped(f) = g
      BY <2>2 DEF Grouped
    <2> HIDE DEF g
    <2>4. Targets(f, P) /\ RowsRead(f, P)
      BY <2>2 DEF Targets, LinksRead, RowsRead
    <2>5. Len(f.targetKeys) <= f.asked
      BY <1>1, <1>3, <2>2
    <2> QED BY <2>1, <2>2, <2>3, <2>4, <2>5
  <1> QED BY <1>2, <1>3

\* What a chunk of pivot rows adds to the links in hand.
LEMMA PivotMore ==
    ASSUME Typed, NEW P, db \in P, LinksRead(call, P, call.asked), NEW c,
           c.keys = call.keys,
           c.links = call.links \cup SelectsLinks(Chunk(call.keys, call.asked))
    PROVE  LinksRead(c, P, call.asked + KEY_CHUNK_SIZE)
  <1>1. call.asked \in Nat /\ DOMAIN call.keys \subseteq Nat
    BY DEF Typed, TypeOK
  <1> SUFFICES ASSUME NEW j \in DOMAIN call.keys, j <= call.asked + KEY_CHUNK_SIZE,
                      NEW l \in Links, LinkStays(l, P), l.key = call.keys[j]
               PROVE  l \in c.links
    BY DEF LinksRead
  <1>2. CASE j <= call.asked
    BY <1>2 DEF LinksRead
  <1>3. CASE ~ j <= call.asked
    <2>1. call.asked < j
      BY <1>1, <1>3
    <2>2. l \in db.links /\ l.key \in Chunk(call.keys, call.asked)
      BY <2>1, ChunkNext DEF LinkStays
    <2> QED BY <2>2 DEF SelectsLinks
  <1> QED BY <1>2, <1>3

\* The invariant does not depend on anything but the call and the history.
LEMMA StableNext ==
    ASSUME UNCHANGED rel, IdsDiffer(db'), \A d \in past' : IdsDiffer(d),
           call'.pc = "pivot" => LinksRead(call', past', call'.asked) /\ call'.rows = <<>>,
           call'.pc \in {"targets", "done"} => Targets(call', past') /\ RowsRead(call', past'),
           call'.pc = "done" => Len(call'.targetKeys) <= call'.asked /\ call'.out = Grouped(call')
    PROVE  StableInv'
  <1>1. \A r : Match(r)' = Match(r) /\ (OwnType(r) <=> OwnType(r)')
    BY DEF Match, OwnType
  <1>2. Grouped(call)' = Grouped(call')
    BY DEF Grouped
  <1>3. Targets(call', past') => Targets(call, past)'
    BY DEF Targets, LinksRead
  <1>4. RowsRead(call', past') => RowsRead(call, past)'
    BY <1>1 DEF RowsRead
  <1>5. LinksRead(call', past', call'.asked) => LinksRead(call, past, call.asked)'
    BY DEF LinksRead
  <1> QED BY <1>2, <1>3, <1>4, <1>5 DEF StableInv, IdsDiffer

\* One step per action.
LEMMA NextStable == Typed /\ LoadInv /\ StableInv /\ [Next]_vars => StableInv'
  <1> SUFFICES ASSUME Typed, LoadInv, StableInv, [Next]_vars PROVE StableInv'
    OBVIOUS
  <1>0. call \in Call /\ db \in Tables /\ IdsDiffer(db) /\ \A d \in past : IdsDiffer(d)
    BY DEF Typed, TypeOK, Call, Tables, StableInv
  <1>1. ASSUME NEW parents \in ParentSets, NEW trashed \in BOOLEAN, load(parents, trashed)
        PROVE  StableInv'
    <2>1. PICK ks \in keySet(parents) :
            call' = IF ks = <<>> THEN [NoCall EXCEPT !.pc = "done", !.trashed = trashed]
                    ELSE IF rel.kind = "belongsToMany"
                    THEN [NoCall EXCEPT !.pc = "pivot", !.trashed = trashed, !.keys = ks]
                    ELSE [NoCall EXCEPT !.pc = "targets", !.trashed = trashed, !.keys = ks,
                                        !.targetKeys = ks]
      BY <1>1 DEF load
    <2>2. past' = {db} /\ UNCHANGED <<rel, db>>
      BY <1>1 DEF load
    <2>3. IsFiniteSet(parents \ {Null}) /\ parents \ {Null} \subseteq Keys
      BY InputAssumption, FS_Subset
    <2>4. Distinct(ks) /\ ks \in Seq(Keys \cup Ids)
      BY <2>3, OrdersDistinct, OrdersType DEF keySet
    <2>5. /\ call'.links = {} /\ call'.rows = <<>> /\ call'.out = {} /\ call'.asked = 0
          /\ call'.pc \in {"pivot", "targets", "done"}
          /\ call'.pc = "pivot" => rel.kind = "belongsToMany"
          /\ call'.pc = "targets" => call'.targetKeys = ks /\ call'.keys = ks /\ rel.kind # "belongsToMany"
          /\ call'.pc = "done" => call'.targetKeys = <<>> /\ call'.keys = <<>>
      BY <2>1 DEF NoCall
    <2>6. \A j \in DOMAIN ks : ~ j <= 0
      BY <2>4
    <2>7. call'.pc = "pivot" => LinksRead(call', past', call'.asked)
      <3> SUFFICES ASSUME call'.pc = "pivot" PROVE LinksRead(call', past', call'.asked)
        OBVIOUS
      <3>1. call'.keys = ks
        BY <2>1 DEF NoCall
      <3> QED BY <2>5, <2>6, <3>1 DEF LinksRead
    <2>8. call'.pc \in {"targets", "done"} => Targets(call', past') /\ RowsRead(call', past')
      <3>1. CASE call'.pc = "targets"
        BY <2>4, <2>5, <2>6, <3>1 DEF Targets, RowsRead
      <3>2. CASE call'.pc = "done"
        <4>1. DOMAIN <<>> = {}
          OBVIOUS
        <4> QED BY <2>5, <3>2, <4>1 DEF Targets, RowsRead, LinksRead, Distinct
      <3> QED BY <3>1, <3>2
    <2>9. call'.pc = "done" => Len(call'.targetKeys) <= call'.asked /\ call'.out = Grouped(call')
      BY <2>5 DEF Grouped
    <2> QED BY <1>0, <2>2, <2>5, <2>7, <2>8, <2>9, StableNext
  <1>2. CASE LoadPivot
    <2> DEFINE links == call.links \cup SelectsLinks(Chunk(call.keys, call.asked))
               next  == call.asked + KEY_CHUNK_SIZE
    <2>0. /\ rel.kind = "belongsToMany" /\ db \in past /\ call.out = {} /\ call.pc = "pivot"
          /\ LinksRead(call, past, call.asked) /\ call.rows = <<>>
          /\ UNCHANGED <<rel, db, past>>
      BY <1>2 DEF LoadPivot, LoadInv, StableInv
    <2>1. links \in SUBSET Links /\ IsFiniteSet(links)
      <3>1. IsFiniteSet(SelectsLinks(Chunk(call.keys, call.asked)))
        BY FS_Subset DEF SelectsLinks, Typed, Finite
      <3>2. IsFiniteSet(links)
        BY <3>1, FS_Union DEF Typed, Finite
      <3> QED BY <1>0, <3>2 DEF SelectsLinks, Call, Tables
    <2>2. \A c : c.keys = call.keys /\ c.links = links => LinksRead(c, past, next)
      BY <2>0, PivotMore
    <2>3. CASE next < Len(call.keys)
      <3>1. call' = [call EXCEPT !.links = links, !.asked = next]
        BY <1>2, <2>3 DEF LoadPivot
      <3>2. /\ call'.links = links /\ call'.keys = call.keys /\ call'.rows = <<>>
            /\ call'.asked = next /\ call'.pc = "pivot"
        <4> HIDE DEF links, next
        <4> QED BY <1>0, <2>0, <3>1 DEF Call
      <3>3. LinksRead(call', past', call'.asked)
        <4> HIDE DEF links, next
        <4> QED BY <2>0, <2>2, <3>2
      <3> QED BY <1>0, <2>0, <3>2, <3>3, StableNext
    <2>4. CASE ~ next < Len(call.keys)
      <3>1. PICK ks \in Orders({l.related : l \in links}) :
              call' = Finishes([call EXCEPT !.pc = "targets", !.links = links, !.asked = 0,
                                            !.targetKeys = ks])
        BY <1>2, <2>4 DEF LoadPivot
      <3> DEFINE c == [call EXCEPT !.pc = "targets", !.links = links, !.asked = 0, !.targetKeys = ks]
      <3>2. /\ c.links = links /\ c.keys = call.keys /\ c.rows = <<>>
            /\ c.asked = 0 /\ c.targetKeys = ks /\ c.pc = "targets"
        <4> HIDE DEF links
        <4> QED BY <1>0, <2>0 DEF Call
      <3>3. ks \in Seq(Keys \cup Ids) /\ Distinct(ks) /\ Elements(ks) = {l.related : l \in links}
        <4> HIDE DEF links
        <4>1. IsFiniteSet({l.related : l \in links}) /\ {l.related : l \in links} \subseteq Keys \cup Ids
          BY <2>1, RelatedFinite
        <4> QED BY <4>1, OrdersType, OrdersDistinct
      <3>4. c \in Call
        <4> HIDE DEF links
        <4> QED BY <1>0, <2>1, <3>3 DEF Call
      <3>5. Targets(c, past)
        <4>1. LinksRead(c, past, next)
          <5> HIDE DEF c, links, next
          <5> QED BY <2>2, <3>2
        <4>2. Len(call.keys) \in Nat /\ DOMAIN call.keys = 1 .. Len(call.keys) /\ next \in Nat
          BY <1>0, ChunkAssumption DEF Call
        <4>3. \A j \in DOMAIN c.keys : j <= Len(c.keys) => j <= next
          <5> HIDE DEF c, next
          <5> QED BY <2>4, <3>2, <4>2
        <4>4. \A l \in c.links : l.related \in Elements(c.targetKeys)
          <5> HIDE DEF c, links
          <5> QED BY <3>2, <3>3
        <4> HIDE DEF c, links, next
        <4> QED BY <2>0, <4>1, <4>3, <4>4 DEF Targets, LinksRead
      <3>6. RowsRead(c, past)
        <4>1. \A j \in DOMAIN ks : ~ j <= 0
          BY <3>3
        <4>2. DOMAIN <<>> = {}
          OBVIOUS
        <4> HIDE DEF c
        <4> QED BY <3>2, <3>3, <4>1, <4>2 DEF RowsRead
      <3> HIDE DEF c
      <3>7. call' = Finishes(c)
        BY <3>1 DEF c
      <3>8. /\ call'.pc \in {"targets", "done"} /\ Targets(call', past) /\ RowsRead(call', past)
            /\ call'.pc = "done" => Len(call'.targetKeys) <= call'.asked /\ call'.out = Grouped(call')
        BY <3>2, <3>4, <3>5, <3>6, <3>7, FinishStable
      <3> QED BY <1>0, <2>0, <3>8, StableNext
    <2> QED BY <2>3, <2>4
  <1>3. CASE LoadTargets
    <2> DEFINE rows == Selects(call.trashed, Chunk(call.targetKeys, call.asked))
               all  == Append(call.rows, rows)
               next == call.asked + KEY_CHUNK_SIZE
               c    == [call EXCEPT !.rows = all, !.asked = next]
    <2>0. /\ db \in past /\ call.out = {} /\ call.pc = "targets"
          /\ Targets(call, past) /\ RowsRead(call, past)
          /\ UNCHANGED <<rel, db, past>>
      BY <1>3 DEF LoadTargets, LoadInv, StableInv
    <2>1. all \in Seq(SUBSET Rows) /\ next \in Nat
      <3>1. rows \in SUBSET Rows
        BY <1>0, SelectsRows DEF Tables
      <3> QED BY <1>0, <3>1, ChunkAssumption DEF Call
    <2>2. /\ c \in Call /\ c.links = call.links /\ c.keys = call.keys /\ c.rows = all
          /\ c.trashed = call.trashed /\ c.pc = "targets"
          /\ c.targetKeys = call.targetKeys /\ c.asked = next
      <3> HIDE DEF all, next
      <3> QED BY <1>0, <2>0, <2>1 DEF Call
    <2>3. call' = Finishes(c)
      <3>1. c = [call EXCEPT !.rows  = Append(@, rows), !.asked = @ + KEY_CHUNK_SIZE]
        BY <1>0 DEF Call
      <3> HIDE DEF c
      <3> QED BY <1>3, <3>1 DEF LoadTargets
    <2> HIDE DEF c
    <2>4. RowsRead(c, past)
      BY <2>0, <2>2, RowsReadMore
    <2>5. Targets(c, past)
      BY <2>0, <2>2 DEF Targets, LinksRead
    <2>6. /\ call'.pc \in {"targets", "done"} /\ Targets(call', past) /\ RowsRead(call', past)
          /\ call'.pc = "done" => Len(call'.targetKeys) <= call'.asked /\ call'.out = Grouped(call')
      BY <2>2, <2>3, <2>4, <2>5, FinishStable
    <2> QED BY <1>0, <2>0, <2>6, StableNext
  <1>4. ASSUME UNCHANGED <<rel, db>>, past' = past \/ past' = {db}, call'.pc \in {"failed", "one"}
        PROVE  StableInv'
    BY <1>0, <1>4, StableNext
  <1>5. CASE LoadFails
    BY <1>4, <1>5 DEF LoadFails, NoCall
  <1>6. ASSUME NEW key \in Keys \cup {Null}, NEW trashed \in BOOLEAN, loadOne(key, trashed)
        PROVE  StableInv'
    <2>1. call'.pc \in {"failed", "one"}
      BY <1>6 DEF loadOne, NoCall
    <2> QED BY <1>4, <1>6, <2>1 DEF loadOne
  <1>7. ASSUME Remembers, UNCHANGED <<rel, call>>, IdsDiffer(db') PROVE StableInv'
    <2>1. past \subseteq past' /\ (past' = past \/ past' = past \cup {db'})
      BY <1>7 DEF Remembers
    <2>2. \A d \in past' : IdsDiffer(d)
      BY <1>0, <1>7, <2>1
    <2>3. call.pc = "pivot" => LinksRead(call, past', call.asked) /\ call.rows = <<>>
      BY <2>1, StableShrinks DEF StableInv
    <2>4. call.pc \in {"targets", "done"} => Targets(call, past') /\ RowsRead(call, past')
      BY <2>1, StableShrinks DEF StableInv
    <2>5. call.pc = "done" => Len(call.targetKeys) <= call.asked /\ call.out = Grouped(call)
      BY DEF StableInv
    <2> QED BY <1>7, <2>2, <2>3, <2>4, <2>5, StableNext
  <1>8. ASSUME NEW mode \in {"force", "soft", "ignore"}, NEW ids, deleteRelated(mode, ids)
        PROVE  StableInv'
    <2>1. IdsDiffer(db')
      BY <1>0, <1>8, AnswerIds DEF deleteRelated
    <2> QED BY <1>7, <1>8, <2>1 DEF deleteRelated
  <1>9. CASE Writes
    BY <1>0, <1>7, <1>9, WritesIds DEF Writes
  <1>10. CASE UNCHANGED vars
    <2>1. past' = past /\ UNCHANGED <<rel, call, db>>
      BY <1>10 DEF vars
    <2>2. /\ call.pc = "pivot" => LinksRead(call, past, call.asked) /\ call.rows = <<>>
          /\ call.pc \in {"targets", "done"} => Targets(call, past) /\ RowsRead(call, past)
          /\ call.pc = "done" => Len(call.targetKeys) <= call.asked /\ call.out = Grouped(call)
      BY DEF StableInv
    <2> QED BY <1>0, <2>1, <2>2, StableNext
  <1> QED BY <1>1, <1>2, <1>3, <1>5, <1>6, <1>8, <1>9, <1>10 DEF Next

\* What the rows in hand amount to when the call is done.
LEMMA StableReturned ==
    ASSUME Typed, LoadInv, StableInv
    PROVE  StableRowsAreLoaded
  <1> SUFFICES ASSUME call.pc = "done", NEW m \in DOMAIN call.keys, NEW r,
                      r \in UNION {d.rows : d \in past}, \A d \in past : r \in d.rows, InScope(r)
               PROVE  LET k == call.keys[m] IN
                      IF rel.kind = "belongsToMany"
                      THEN \A l \in {x \in UNION {d.links : d \in past} : \A d \in past : x \in d.links} :
                              l.key = k /\ l.related = r.id => <<k, l.id, r>> \in call.out
                      ELSE Belongs(r, k) => Cardinality({e \in call.out : e[1] = k /\ e[3].id = r.id}) = 1
    BY DEF StableRowsAreLoaded, Untouched
  <1>1. /\ call \in Call /\ past \subseteq Tables /\ Targets(call, past) /\ RowsRead(call, past)
        /\ Len(call.targetKeys) <= call.asked /\ call.out = Grouped(call)
    BY DEF Typed, TypeOK, Call, Tables, StableInv
  <1>2. PICK d0 \in past : r \in d0.rows
    OBVIOUS
  <1>3. r \in Rows /\ Stays(r, past)
    BY <1>1, <1>2 DEF Tables, Stays
  <1>4. \A j \in DOMAIN call.targetKeys : j <= call.asked
    <2>1. call.asked \in Nat /\ DOMAIN call.targetKeys = 1 .. Len(call.targetKeys) /\ Len(call.targetKeys) \in Nat
      BY <1>1 DEF Call
    <2> QED BY <1>1, <2>1
  <1>5. ASSUME NEW j \in DOMAIN call.targetKeys, OwnType(r), Match(r) = call.targetKeys[j]
        PROVE  \E i \in DOMAIN call.rows : r \in call.rows[i]
    BY <1>1, <1>3, <1>4, <1>5 DEF RowsRead, InScope
  <1>6. CASE rel.kind = "belongsToMany"
    <2> SUFFICES ASSUME NEW l, l \in UNION {d.links : d \in past}, \A d \in past : l \in d.links,
                        l.key = call.keys[m], l.related = r.id
                 PROVE  <<call.keys[m], l.id, r>> \in call.out
      BY <1>6
    <2>1. l \in Links /\ LinkStays(l, past)
      BY <1>1 DEF Tables, LinkStays
    <2>2. m <= Len(call.keys)
      BY <1>1 DEF Call
    <2>3. l \in call.links
      BY <1>1, <1>6, <2>1, <2>2 DEF Targets, LinksRead
    <2>4. PICK j \in DOMAIN call.targetKeys : call.targetKeys[j] = l.related
      BY <1>1, <1>6, <2>3 DEF Targets, Elements
    <2>5. PICK i \in DOMAIN call.rows : r \in call.rows[i]
      BY <1>5, <1>6, <2>4 DEF OwnType, Match
    <2>6. <<l.key, l.id, r>> \in Grouped(call)
      BY <1>6, <2>3, <2>5 DEF Grouped
    <2> QED BY <1>1, <2>6
  <1>7. CASE rel.kind # "belongsToMany"
    <2> SUFFICES ASSUME Belongs(r, call.keys[m])
                 PROVE  Cardinality({e \in call.out : e[1] = call.keys[m] /\ e[3].id = r.id}) = 1
      BY <1>7
    <2>1. r.key = call.keys[m] /\ OwnType(r) /\ Match(r) = r.key /\ call.targetKeys = call.keys
      BY <1>1, <1>7 DEF Belongs, OwnType, Match, Targets
    <2>2. PICK i \in DOMAIN call.rows : r \in call.rows[i]
      BY <1>5, <2>1
    <2>3. <<r.key, i, r>> \in call.out
      <3>1. <<r.key, i, r>> \in {<<t.key, i, t>> : t \in call.rows[i]}
        BY <2>2
      <3> QED BY <1>1, <1>7, <3>1 DEF Grouped
    <2>4. ASSUME NEW e \in call.out, e[1] = call.keys[m], e[3].id = r.id
          PROVE  e = <<r.key, i, r>>
      <3>1. PICK n \in DOMAIN call.rows : \E t \in call.rows[n] : e = <<t.key, n, t>>
        BY <1>1, <1>7, GroupedEntry
      <3>2. PICK t \in call.rows[n] : e = <<t.key, n, t>>
        BY <3>1
      <3>3. t.id = r.id /\ t.key = r.key
        BY <2>1, <2>4, <3>2
      <3>4. PICK d \in past : t \in d.rows
        BY <3>2 DEF LoadInv, HasRead
      <3>5. IdsDiffer(d) /\ r \in d.rows
        BY DEF StableInv
      <3>6. t = r
        BY <3>3, <3>4, <3>5 DEF IdsDiffer
      <3>7. n = i
        BY <1>1, <2>2, <3>2, <3>6 DEF RowsRead
      <3> QED BY <3>2, <3>6, <3>7
    <2>5. {e \in call.out : e[1] = call.keys[m] /\ e[3].id = r.id} = {<<r.key, i, r>>}
      BY <2>1, <2>3, <2>4
    <2> QED BY <2>5, FS_Singleton
  <1> QED BY <1>6, <1>7

\* A row that nobody touches while load() runs is returned exactly once for its
\* key, and across a pivot once for each link that nobody touches: no chunk skips
\* or repeats a key, whatever the tables, the number of keys, the chunk size and
\* what others do in between (load() and chunks, relations.ts).
THEOREM StableCorrect == Spec => []StableRowsAreLoaded
  <1>1. Init => StableInv
    <2> SUFFICES ASSUME Init PROVE StableInv
      OBVIOUS
    <2>1. IdsDiffer(db) /\ past = {db} /\ call.pc = "idle"
      BY PrimaryKeyAssumption DEF Init, IdsDiffer, NoCall
    <2> QED BY <2>1 DEF StableInv
  <1>2. Init => LoadInv
    BY DEF Init, NoCall, LoadInv, HasRead, Returned
  <1>3. LoadInv /\ Typed /\ [Next]_vars => LoadInv'
    BY NextLoad
  <1>4. StableInv /\ LoadInv /\ Typed /\ [Next]_vars => StableInv'
    BY NextStable
  <1>5. Typed /\ LoadInv /\ StableInv => StableRowsAreLoaded
    BY StableReturned
  <1> QED BY <1>1, <1>2, <1>3, <1>4, <1>5, InitType, NextType, PTL DEF Spec
=============================================================================
