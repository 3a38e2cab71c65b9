----------------------------- MODULE SoftProofs -----------------------------
(***************************************************************************)
(* Theorems about SoftModel, for any flows, instances, keys, columns and   *)
(* bounds: whatever calls race, with stale or shared instances, vetoes and *)
(* lost replies.                                                           *)
(***************************************************************************)
EXTENDS SoftModel, FiniteSetTheorems, TLAPS

Rows     == [Columns -> Nat]
Changes  == {<< >>} \cup UNION {[S -> Nat] : S \in SUBSET Columns}
Instance == [id : Ids \cup {0}, attributes : Rows, original : Rows]
Call     == [op : Kinds \cup {"none", "saved", "removed"}, on : Instances \cup {0}, id : Ids \cup {0},
             changes : Changes, stamp : Nat, rows : {0, 1}, row : Rows \cup {<< >>}]

-----------------------------------------------------------------------------
(* The inductive invariant. *)

\* A stamp, if it is one, that a row really carried at some time.
Real(s) == s = 0 \/ \E id \in Ids : <<id, s>> \in stored

Typed ==
    /\ DOMAIN table \subseteq Ids /\ \A r \in DOMAIN table : table[r] \in Rows
    /\ memory \in [Instances -> Instance]
    /\ pc \in [Flows -> {"idle", "hooks", "fresh", "seen", "write", "wrote", "again", "reread"}]
    /\ call \in [Flows -> Call]
    /\ edited \in [Instances -> SUBSET Fields]
    /\ untold \in [Kinds -> Int]

\* An instance is clean about its stamp, and dirty only in what was filled in.
InstanceOk(i) ==
    /\ memory[i].attributes[soft] = memory[i].original[soft]
    /\ Real(memory[i].original[soft])
    /\ dirtyKeys(i) \subseteq edited[i]

\* A call works with what was edited on its instance and with real stamps.
CallOk(f) ==
    /\ pc[f] = "idle" <=> call[f].op = "none"
    /\ pc[f] # "idle" => call[f].on \in Instances
    /\ At(f, "saved", "write") => DOMAIN call[f].changes \subseteq edited[call[f].on]
    /\ call[f].op = "created" /\ pc[f] \in {"write", "wrote"} =>
          call[f].changes \in Rows /\ Real(call[f].changes[soft])
    /\ call[f].op = "created" => pc[f] \in {"hooks", "write", "wrote"}
    /\ call[f].row # << >> => Real(call[f].row[soft])
    /\ At(f, "deleted", "wrote") /\ call[f].rows > 0 => Real(call[f].stamp)

SoftInv ==
    /\ Typed
    /\ \A i \in Instances : InstanceOk(i)
    /\ \A f \in Flows : CallOk(f)
    /\ \A r \in DOMAIN table : Real(table[r][soft])

-----------------------------------------------------------------------------
(* Rows, and the size of what a statement by the key matched. *)

\* The stamp is a column, and a row can lose or gain one.
LEMMA StampRows ==
    ASSUME NEW row \in Rows, NEW s \in Nat
    PROVE  /\ [row EXCEPT ![soft] = s] \in Rows /\ [row EXCEPT ![soft] = s][soft] = s
           /\ \A c \in Fields : c # soft /\ [row EXCEPT ![soft] = s][c] = row[c]
  BY SoftModelAssumption DEF Rows, Columns

\* An UPDATE writes the changed columns and keeps the others.
LEMMA UpdatedRows ==
    ASSUME NEW row \in Rows, NEW changes \in Changes, changes # << >>
    PROVE  /\ Updated(row, changes) \in Rows
           /\ \A c \in Columns \ DOMAIN changes : Updated(row, changes)[c] = row[c]
  BY DEF Updated, Changes, Rows

\* A statement by the key matches one row or none.
LEMMA ByKey ==
    ASSUME NEW x, NEW S, S \subseteq {x}
    PROVE  /\ S = {} => Cardinality(S) = 0
           /\ S # {} => Cardinality(S) = 1
  <1>1. CASE S = {}
    BY <1>1, FS_EmptySet
  <1>2. CASE S # {}
    <2>1. S = {x}
      BY <1>2
    <2> QED BY <2>1, FS_Singleton
  <1> QED BY <1>1, <1>2

\* A call that has ended is as it was before it began.
LEMMA NoCallType == NoCall \in Call /\ NoCall.op = "none" /\ NoCall.row = << >>
  BY DEF NoCall, Call, Changes

-----------------------------------------------------------------------------
(* The parts of the invariant that a step leaves alone. *)

\* Another flow's call.
LEMMA CallKept ==
    ASSUME NEW g, CallOk(g), pc'[g] = pc[g], call'[g] = call[g], stored \subseteq stored',
           pc[g] # "idle" => edited[call[g].on] \subseteq edited'[call[g].on]
    PROVE  CallOk(g)'
  <1>1. \A s : Real(s) => Real(s)'
    BY DEF Real
  <1> QED BY <1>1 DEF CallOk, At

\* An instance.
LEMMA InstanceKept ==
    ASSUME NEW i, InstanceOk(i), memory'[i] = memory[i], edited[i] \subseteq edited'[i], stored \subseteq stored'
    PROVE  InstanceOk(i)'
  BY DEF InstanceOk, dirtyKeys, Real

\* A step of flow f's call, which leaves what others edited alone.
LEMMA OwnStep ==
    ASSUME SoftInv, Typed', NEW f \in Flows, CallOk(f)', UNCHANGED edited, stored \subseteq stored',
           \A g \in Flows \ {f} : pc'[g] = pc[g] /\ call'[g] = call[g],
           \A i \in Instances : memory'[i] = memory[i] \/ InstanceOk(i)',
           \A r \in DOMAIN table' :
              \/ r \in DOMAIN table /\ table'[r][soft] = table[r][soft]
              \/ Real(table[r][soft])'
    PROVE  SoftInv'
  <1>1. \A i \in Instances : InstanceOk(i)'
    BY InstanceKept DEF SoftInv
  <1>2. \A g \in Flows : CallOk(g)'
    BY CallKept DEF SoftInv
  <1>3. \A r \in DOMAIN table' : Real(table[r][soft])'
    BY DEF SoftInv, Real
  <1> QED BY <1>1, <1>2, <1>3 DEF SoftInv

\* A call that moves without changing its locals.
LEMMA GoesOk ==
    ASSUME Typed, NEW f \in Flows, NEW s, Goes(f, s),
           s \in {"idle", "hooks", "fresh", "seen", "write", "wrote", "again", "reread"}
    PROVE  /\ pc'[f] = s /\ \A g \in Flows \ {f} : pc'[g] = pc[g]
           /\ pc' \in [Flows -> {"idle", "hooks", "fresh", "seen", "write", "wrote", "again", "reread"}]
  BY DEF Typed, Goes

\* A call that ends.
LEMMA EndsOk ==
    ASSUME Typed, NEW f \in Flows, Ends(f)
    PROVE  /\ CallOk(f)' /\ \A g \in Flows \ {f} : pc'[g] = pc[g] /\ call'[g] = call[g]
           /\ pc' \in [Flows -> {"idle", "hooks", "fresh", "seen", "write", "wrote", "again", "reread"}]
           /\ call' \in [Flows -> Call]
           /\ pc'[f] = "idle" /\ call'[f] = NoCall
  <1>1. pc'[f] = "idle" /\ call'[f] = NoCall
    BY DEF Ends, Goes, Typed
  <1>2. CallOk(f)'
    BY <1>1, NoCallType DEF CallOk, At
  <1> QED BY <1>1, <1>2, NoCallType DEF Ends, Goes, Typed

\* An instance that takes a row.
LEMMA TakesOk ==
    ASSUME Typed, NEW i \in Instances, NEW row \in Rows, Takes(i, row), Real(row[soft]), UNCHANGED stored,
           edited' \in [Instances -> SUBSET Fields]
    PROVE  /\ memory' \in [Instances -> Instance] /\ InstanceOk(i)'
           /\ \A j \in Instances \ {i} : memory'[j] = memory[j]
  <1>1. /\ memory' \in [Instances -> Instance]
        /\ \A j \in Instances \ {i} : memory'[j] = memory[j]
    BY DEF Typed, Takes, Instance
  <1>2. memory'[i].attributes = row /\ memory'[i].original = row
    BY DEF Typed, Takes, Instance
  <1> QED BY <1>1, <1>2 DEF InstanceOk, dirtyKeys, Real

-----------------------------------------------------------------------------
(* The calls' steps that leave the table alone. *)

\* A call begins.
LEMMA BeginsInv ==
    ASSUME SoftInv, NEW f \in Flows, NEW i \in Instances,
           NEW op \in Kinds \cup {"saved", "removed"}, NEW where \in {"hooks", "fresh", "write"},
           Begins(f, i, op, where), op = "created" => where = "hooks", op = "saved" => where = "hooks"
    PROVE  SoftInv'
  <1>1. /\ Goes(f, where) /\ UNCHANGED <<table, memory, edited, untold, stored>>
        /\ call' = [call EXCEPT ![f] = [NoCall EXCEPT !.op = op, !.on = i, !.id = memory[i].id]]
    BY DEF Begins
  <1> DEFINE new == [NoCall EXCEPT !.op = op, !.on = i, !.id = memory[i].id]
  <1>2. new \in Call /\ new.op = op /\ new.on = i /\ new.row = << >>
    BY NoCallType DEF Call, SoftInv, Typed, Instance
  <1> HIDE DEF new
  <1>3. call' \in [Flows -> Call] /\ call'[f] = new /\ \A g \in Flows \ {f} : call'[g] = call[g]
    BY <1>1, <1>2 DEF SoftInv, Typed, new
  <1>4. /\ pc'[f] = where /\ \A g \in Flows \ {f} : pc'[g] = pc[g]
        /\ pc' \in [Flows -> {"idle", "hooks", "fresh", "seen", "write", "wrote", "again", "reread"}]
    BY <1>1, GoesOk DEF SoftInv
  <1>5. CallOk(f)'
    BY <1>2, <1>3, <1>4 DEF CallOk, At, Kinds
  <1>6. Typed'
    BY <1>1, <1>3, <1>4 DEF SoftInv, Typed
  <1> QED BY <1>1, <1>3, <1>4, <1>5, <1>6, OwnStep

\* freshRow() reads the row.
LEMMA freshRowInv ==
    ASSUME SoftInv, NEW f \in Flows, freshRow(f)
    PROVE  SoftInv'
  <1> DEFINE row == IF readOne(call[f].id, FALSE) = {} THEN << >> ELSE table[call[f].id]
  <1>1. PICK s \in {"seen", "reread"} : Goes(f, s)
    BY DEF freshRow
  <1>2. /\ pc[f] \in {"fresh", "again"} /\ UNCHANGED <<table, memory, edited, untold, stored>>
        /\ call' = [call EXCEPT ![f].row = row]
    BY DEF freshRow
  <1>3. row \in Rows \cup {<< >>} /\ (row # << >> => Real(row[soft]))
    BY DEF readOne, SoftInv, Typed
  <1> HIDE DEF row
  <1>4. /\ call' \in [Flows -> Call] /\ \A g \in Flows \ {f} : call'[g] = call[g]
        /\ call'[f].row = row /\ call'[f].op = call[f].op /\ call'[f].on = call[f].on
    BY <1>2, <1>3 DEF SoftInv, Typed, Call
  <1>5. /\ pc'[f] = s /\ \A g \in Flows \ {f} : pc'[g] = pc[g]
        /\ pc' \in [Flows -> {"idle", "hooks", "fresh", "seen", "write", "wrote", "again", "reread"}]
    BY <1>1, GoesOk DEF SoftInv
  <1>6. CallOk(f)
    BY DEF SoftInv
  <1>7. CallOk(f)'
    BY <1>2, <1>3, <1>4, <1>5, <1>6 DEF CallOk, At, Real
  <1>8. Typed'
    BY <1>2, <1>4, <1>5 DEF SoftInv, Typed
  <1> QED BY <1>2, <1>4, <1>5, <1>7, <1>8, OwnStep

\* A call ends and leaves what was stored as it is; its instance may take over a
\* row with a real stamp.
LEMMA EndsInv ==
    ASSUME SoftInv, NEW f \in Flows, Ends(f), UNCHANGED <<table, edited, stored>>,
           untold' \in [Kinds -> Int], memory' \in [Instances -> Instance],
           \A i \in Instances : memory'[i] = memory[i] \/ InstanceOk(i)'
    PROVE  SoftInv'
  <1>1. /\ CallOk(f)' /\ \A g \in Flows \ {f} : pc'[g] = pc[g] /\ call'[g] = call[g]
        /\ pc' \in [Flows -> {"idle", "hooks", "fresh", "seen", "write", "wrote", "again", "reread"}]
        /\ call' \in [Flows -> Call]
    BY EndsOk DEF SoftInv
  <1>2. Typed'
    BY <1>1 DEF SoftInv, Typed
  <1> QED BY <1>1, <1>2, OwnStep

\* The same, of a call whose instance takes a row.
LEMMA TakesInv ==
    ASSUME SoftInv, NEW f \in Flows, Ends(f), UNCHANGED <<table, edited, stored>>,
           untold' \in [Kinds -> Int], pc[f] # "idle",
           NEW row \in Rows, Takes(call[f].on, row), Real(row[soft])
    PROVE  SoftInv'
  <1>1. PICK i \in Instances : i = call[f].on
    BY DEF SoftInv, CallOk
  <1>2. Typed /\ edited' \in [Instances -> SUBSET Fields] /\ Takes(i, row)
    BY <1>1 DEF SoftInv, Typed
  <1>3. /\ memory' \in [Instances -> Instance] /\ InstanceOk(i)'
        /\ \A j \in Instances \ {i} : memory'[j] = memory[j]
    BY <1>2, TakesOk
  <1> QED BY <1>3, EndsInv

\* A call goes on, and leaves all the rest.
LEMMA MovesInv ==
    ASSUME SoftInv, NEW f \in Flows, NEW s \in {"write", "again"}, Goes(f, s),
           pc[f] # "idle", call[f].op \notin {"saved", "created"},
           UNCHANGED <<table, memory, call, edited, untold, stored>>
    PROVE  SoftInv'
  <1>1. /\ pc'[f] = s /\ \A g \in Flows \ {f} : pc'[g] = pc[g]
        /\ pc' \in [Flows -> {"idle", "hooks", "fresh", "seen", "write", "wrote", "again", "reread"}]
    BY GoesOk DEF SoftInv
  <1>2. CallOk(f)
    BY DEF SoftInv
  <1>3. CallOk(f)'
    BY <1>1, <1>2 DEF CallOk, At, Real
  <1>4. Typed'
    BY <1>1 DEF SoftInv, Typed
  <1> QED BY <1>1, <1>3, <1>4, OwnStep

\* What is untold stays a number.
LEMMA UntoldType ==
    ASSUME SoftInv, NEW k \in Kinds, NEW n \in Int
    PROVE  [untold EXCEPT ![k] = n] \in [Kinds -> Int] /\ untold[k] \in Int
  BY DEF SoftInv, Typed

\* The call with the changes and the key of what it sends.
LEMMA SentCall ==
    ASSUME NEW c \in Call, NEW changes \in Changes, NEW id \in Ids \cup {0}
    PROVE  [c EXCEPT !.changes = changes, !.id = id] \in Call
  BY DEF Call

\* save() has run the before-hooks and looks at what is dirty.
LEMMA SaveSendsInv ==
    ASSUME SoftInv, NEW f \in Flows, SaveSends(f)
    PROVE  SoftInv'
  <1> DEFINE i == call[f].on
             changes == IF call[f].op = "created" THEN memory[i].attributes ELSE getChanges(i)
             key == IF call[f].op = "created" THEN memory[i].id ELSE call[f].id
  <1>1. pc[f] = "hooks" /\ UNCHANGED <<table, memory, edited, untold, stored>>
    BY DEF SaveSends
  <1>2. CallOk(f) /\ i \in Instances /\ InstanceOk(i) /\ call[f].row \in Rows \cup {<< >>}
    BY <1>1 DEF SoftInv, CallOk, Typed, Call
  <1>3. memory[i].attributes \in Rows /\ dirtyKeys(i) \subseteq Columns /\ dirtyKeys(i) \subseteq edited[i]
    BY <1>2 DEF SoftInv, Typed, Instance, dirtyKeys, InstanceOk
  <1>4. /\ changes \in Changes
        /\ call[f].op = "created" => changes \in Rows /\ Real(changes[soft])
        /\ call[f].op # "created" => DOMAIN changes \subseteq edited[i]
    <2>1. CASE call[f].op = "created"
      <3>1. Columns \in SUBSET Columns /\ Rows \subseteq Changes
        BY DEF Rows, Changes
      <3> QED BY <1>2, <1>3, <2>1, <3>1 DEF InstanceOk
    <2>2. CASE call[f].op # "created"
      <3>1. getChanges(i) \in [dirtyKeys(i) -> Nat]
        BY <1>3 DEF getChanges, Rows
      <3>2. changes \in Changes
        BY <1>3, <2>2, <3>1 DEF Changes
      <3> QED BY <1>3, <2>2, <3>1, <3>2
    <2> QED BY <2>1, <2>2
  <1>5. CASE Ends(f)
    BY <1>1, <1>5, EndsInv DEF SoftInv, Typed
  <1>6. CASE ~ Ends(f)
    <2>1. Goes(f, "write") /\ call' = [call EXCEPT ![f].changes = changes, ![f].id = key]
      BY <1>6 DEF SaveSends
    <2>2. key \in Ids \cup {0}
      BY <1>2 DEF SoftInv, Typed, Call, Instance
    <2> HIDE DEF changes, key
    <2>3. [call[f] EXCEPT !.changes = changes, !.id = key] \in Call
      BY <1>4, <2>2, SentCall DEF SoftInv, Typed
    <2>4. call' = [call EXCEPT ![f] = [call[f] EXCEPT !.changes = changes, !.id = key]]
      BY <2>1 DEF SoftInv, Typed
    <2>5. /\ call' \in [Flows -> Call] /\ \A g \in Flows \ {f} : call'[g] = call[g]
          /\ call'[f].changes = changes /\ call'[f].op = call[f].op /\ call'[f].on = i
          /\ call'[f].row = call[f].row
      BY <1>4, <2>3, <2>4 DEF SoftInv, Typed, Call
    <2>6. /\ pc'[f] = "write" /\ \A g \in Flows \ {f} : pc'[g] = pc[g]
          /\ pc' \in [Flows -> {"idle", "hooks", "fresh", "seen", "write", "wrote", "again", "reread"}]
      BY <2>1, GoesOk DEF SoftInv
    <2>7. CallOk(f)'
      BY <1>1, <1>2, <1>4, <2>5, <2>6 DEF CallOk, At, Real
    <2>8. Typed'
      BY <1>1, <2>5, <2>6 DEF SoftInv, Typed
    <2> QED BY <1>1, <2>5, <2>6, <2>7, <2>8, OwnStep
  <1> QED BY <1>5, <1>6

-----------------------------------------------------------------------------
(* The statements that change rows. *)

\* A statement took effect, and its reply is on the way.
LEMMA WroteOk ==
    ASSUME Typed, NEW f \in Flows, NEW rows, Wrote(f, rows), Cardinality(rows) \in {0, 1}
    PROVE  /\ pc'[f] = "wrote" /\ call'[f] = [call[f] EXCEPT !.rows = Cardinality(rows)]
           /\ \A g \in Flows \ {f} : pc'[g] = pc[g] /\ call'[g] = call[g]
           /\ pc' \in [Flows -> {"idle", "hooks", "fresh", "seen", "write", "wrote", "again", "reread"}]
           /\ call' \in [Flows -> Call] /\ UNCHANGED <<memory, edited>>
  <1> DEFINE n == Cardinality(rows)
  <1>1. n \in {0, 1} /\ call[f] \in Call /\ call' = [call EXCEPT ![f].rows = n]
    BY DEF Typed, Wrote
  <1> HIDE DEF n
  <1>2. [call[f] EXCEPT !.rows = n] \in Call
    BY <1>1 DEF Call
  <1>3. /\ call' \in [Flows -> Call] /\ call'[f] = [call[f] EXCEPT !.rows = n]
        /\ \A g \in Flows \ {f} : call'[g] = call[g]
    BY <1>1, <1>2 DEF Typed
  <1> QED BY <1>3, GoesOk DEF Wrote, n

\* A save, a restore or a removal by the key.
LEMMA WroteInv ==
    ASSUME SoftInv, NEW f \in Flows, NEW rows, Wrote(f, rows), Cardinality(rows) \in {0, 1},
           pc[f] = "write", call[f].op # "created", call[f].op # "deleted",
           untold' \in [Kinds -> Int], UNCHANGED stored,
           DOMAIN table' \subseteq DOMAIN table,
           \A r \in DOMAIN table' : table'[r] \in Rows /\ (table'[r][soft] = table[r][soft] \/ table'[r][soft] = 0)
    PROVE  SoftInv'
  <1>1. /\ pc'[f] = "wrote" /\ call'[f] = [call[f] EXCEPT !.rows = Cardinality(rows)]
        /\ \A g \in Flows \ {f} : pc'[g] = pc[g] /\ call'[g] = call[g]
        /\ pc' \in [Flows -> {"idle", "hooks", "fresh", "seen", "write", "wrote", "again", "reread"}]
        /\ call' \in [Flows -> Call] /\ UNCHANGED <<memory, edited>>
    BY WroteOk DEF SoftInv
  <1>2. CallOk(f) /\ call[f] \in Call
    BY DEF SoftInv, Typed
  <1>3. call'[f].op = call[f].op /\ call'[f].on = call[f].on /\ call'[f].row = call[f].row
    BY <1>1, <1>2 DEF Call
  <1>4. CallOk(f)'
    BY <1>1, <1>2, <1>3 DEF CallOk, At, Real
  <1>5. Typed'
    BY <1>1 DEF SoftInv, Typed
  <1>6. \A r \in DOMAIN table' :
           \/ r \in DOMAIN table /\ table'[r][soft] = table[r][soft]
           \/ Real(table[r][soft])'
    BY DEF Real
  <1> QED BY <1>1, <1>4, <1>5, <1>6, OwnStep

\* save() of a row that is there: it writes only what was edited.
LEMMA SaveUpdatesRows ==
    ASSUME SoftInv, NEW f \in Flows, SaveUpdates(f)
    PROVE  /\ DOMAIN table' = DOMAIN table
           /\ \A r \in DOMAIN table :
                 /\ table'[r] \in Rows /\ table'[r][soft] = table[r][soft]
                 /\ \A c \in Fields : table'[r][c] # table[r][c] => r = call[f].id /\ c \in edited[call[f].on]
  <1> DEFINE changes == call[f].changes
  <1>1. /\ At(f, "saved", "write") /\ DOMAIN changes \subseteq edited[call[f].on]
        /\ edited[call[f].on] \subseteq Fields /\ changes \in Changes
    BY DEF SaveUpdates, SoftInv, CallOk, Typed, At, Call
  <1>2. \A r \in DOMAIN table : table[r] \in Rows
    BY DEF SoftInv, Typed
  <1>3. \A r \in DOMAIN table : Updated(table[r], changes) \in Rows
    BY <1>1, <1>2, UpdatedRows DEF Updated, Changes, Rows
  <1>4. \A row \in Rows : \A c \in Columns \ DOMAIN changes : Updated(row, changes)[c] = row[c]
    BY DEF Updated
  <1>5. soft \in Columns \ DOMAIN changes /\ Fields \subseteq Columns
    BY <1>1, SoftModelAssumption DEF Columns
  <1>6. table' = [r \in DOMAIN table |-> IF r \in {call[f].id} \cap DOMAIN table
                                         THEN Updated(table[r], changes) ELSE table[r]]
    BY DEF SaveUpdates
  <1> HIDE DEF changes
  <1> QED BY <1>1, <1>2, <1>3, <1>4, <1>5, <1>6

\* A stamp, or its removal, on some rows.
LEMMA SetStampRows ==
    ASSUME SoftInv, NEW rows \in SUBSET DOMAIN table, NEW s \in Nat, SetStamp(rows, s)
    PROVE  /\ DOMAIN table' = DOMAIN table
           /\ \A r \in DOMAIN table :
                 /\ table'[r] \in Rows
                 /\ table'[r][soft] = IF r \in rows THEN s ELSE table[r][soft]
                 /\ \A c \in Fields : table'[r][c] = table[r][c]
  BY StampRows DEF SetStamp, SoftInv, Typed

\* What a soft delete stamps and what a restore clears are rows by their keys.
LEMMA SoftRows ==
    ASSUME NEW ids
    PROVE  /\ buildSoftUpdate(ids) \subseteq ids /\ buildSoftUpdate(ids) \in SUBSET DOMAIN table
           /\ buildSoftRestore(ids) \subseteq ids /\ buildSoftRestore(ids) \in SUBSET DOMAIN table
  BY DEF buildSoftUpdate, buildSoftRestore

\* The size of what the statements by the key match.
LEMMA SoftSize ==
    ASSUME NEW id
    PROVE  /\ Cardinality(buildSoftUpdate({id})) \in {0, 1}
           /\ Cardinality(buildSoftRestore({id})) \in {0, 1}
           /\ Cardinality(buildSoftUpdate({id})) > 0 => buildSoftUpdate({id}) = {id}
           /\ Cardinality(buildSoftRestore({id})) > 0 => buildSoftRestore({id}) = {id}
  <1>1. ASSUME NEW S, S \subseteq {id}
        PROVE  Cardinality(S) \in {0, 1} /\ (Cardinality(S) > 0 => S = {id})
    BY <1>1, ByKey
  <1>2. buildSoftUpdate({id}) \subseteq {id} /\ buildSoftRestore({id}) \subseteq {id}
    BY SoftRows
  <1> QED BY <1>1, <1>2

\* The database inserts the row.
LEMMA SaveInsertsInv ==
    ASSUME SoftInv, NEW f \in Flows, SaveInserts(f)
    PROVE  SoftInv'
  <1>1. PICK id \in Ids \ DOMAIN table :
          /\ table' = [r \in DOMAIN table \cup {id} |-> IF r = id THEN call[f].changes ELSE table[r]]
          /\ Goes(f, "wrote")
          /\ call' = [call EXCEPT ![f].id = IF @ = 0 THEN id ELSE @, ![f].rows = 1]
    BY DEF SaveInserts
  <1>2. /\ call[f].op = "created" /\ pc[f] = "write" /\ UNCHANGED <<memory, edited, stored>>
        /\ untold' = [untold EXCEPT !["created"] = @ + 1] /\ call[f] \in Call
        /\ CallOk(f) /\ "created" \in Kinds
    BY DEF SaveInserts, At, SoftInv, Typed, Kinds
  <1>3. call[f].changes \in Rows /\ Real(call[f].changes[soft])
    BY <1>2 DEF CallOk
  <1>4. /\ call' \in [Flows -> Call] /\ \A g \in Flows \ {f} : call'[g] = call[g]
        /\ call'[f].op = "created" /\ call'[f].on = call[f].on /\ call'[f].row = call[f].row
        /\ call'[f].changes = call[f].changes
    BY <1>1, <1>2 DEF SoftInv, Typed, Call
  <1>5. /\ pc'[f] = "wrote" /\ \A g \in Flows \ {f} : pc'[g] = pc[g]
        /\ pc' \in [Flows -> {"idle", "hooks", "fresh", "seen", "write", "wrote", "again", "reread"}]
    BY <1>1, GoesOk DEF SoftInv
  <1>6. CallOk(f)'
    BY <1>2, <1>3, <1>4, <1>5 DEF CallOk, At, Real
  <1>7. untold' \in [Kinds -> Int]
    BY <1>2, UntoldType
  <1>8. /\ DOMAIN table' \subseteq Ids /\ \A r \in DOMAIN table' : table'[r] \in Rows
        /\ \A r \in DOMAIN table' :
              \/ r \in DOMAIN table /\ table'[r][soft] = table[r][soft]
              \/ Real(table[r][soft])'
    BY <1>1, <1>2, <1>3 DEF SoftInv, Typed, Real
  <1>9. Typed'
    BY <1>2, <1>4, <1>5, <1>7, <1>8 DEF SoftInv, Typed
  <1> QED BY <1>2, <1>4, <1>5, <1>6, <1>8, <1>9, OwnStep

\* The soft delete of a row.
LEMMA DeleteStampsInv ==
    ASSUME SoftInv, NEW f \in Flows, DeleteStamps(f)
    PROVE  SoftInv'
  <1> DEFINE rows == buildSoftUpdate({call[f].id})
  <1>1. PICK s \in Stamps :
          /\ SetStamp(rows, s) /\ stored' = stored \cup {<<r, s>> : r \in rows} /\ Goes(f, "wrote")
          /\ untold' = [untold EXCEPT !["deleted"] = @ + Cardinality(trashed(table') \ trashed(table))]
          /\ call' = [call EXCEPT ![f].rows = Cardinality(rows), ![f].stamp = s]
    BY DEF DeleteStamps
  <1>2. /\ call[f].op = "deleted" /\ pc[f] = "write" /\ UNCHANGED <<memory, edited>>
        /\ call[f] \in Call /\ CallOk(f) /\ "deleted" \in Kinds /\ s \in Nat
    BY DEF DeleteStamps, At, SoftInv, Typed, Kinds, Stamps
  <1>3. /\ rows \in SUBSET DOMAIN table /\ rows \subseteq {call[f].id} /\ Cardinality(rows) \in {0, 1}
        /\ Cardinality(rows) > 0 => rows # {}
    <2>1. rows \in SUBSET DOMAIN table /\ rows \subseteq {call[f].id}
      BY SoftRows
    <2>2. Cardinality(rows) \in {0, 1} /\ (Cardinality(rows) > 0 => rows = {call[f].id})
      BY SoftSize
    <2> HIDE DEF rows
    <2> QED BY <2>1, <2>2
  <1> HIDE DEF rows
  <1>4. /\ DOMAIN table' = DOMAIN table
        /\ \A r \in DOMAIN table :
              table'[r] \in Rows /\ table'[r][soft] = IF r \in rows THEN s ELSE table[r][soft]
    BY <1>1, <1>2, <1>3, SetStampRows
  <1>5. rows \subseteq Ids
    BY <1>3 DEF SoftInv, Typed
  <1>6. \A r \in rows : <<r, s>> \in stored'
    BY <1>1
  <1>7. \A r \in DOMAIN table' :
           \/ r \in DOMAIN table /\ table'[r][soft] = table[r][soft]
           \/ Real(table[r][soft])'
    BY <1>4, <1>5, <1>6 DEF Real
  <1>8. /\ call' \in [Flows -> Call] /\ \A g \in Flows \ {f} : call'[g] = call[g]
        /\ call'[f].op = "deleted" /\ call'[f].on = call[f].on /\ call'[f].row = call[f].row
        /\ call'[f].rows = Cardinality(rows) /\ call'[f].stamp = s
    BY <1>1, <1>2, <1>3 DEF SoftInv, Typed, Call
  <1>9. /\ pc'[f] = "wrote" /\ \A g \in Flows \ {f} : pc'[g] = pc[g]
        /\ pc' \in [Flows -> {"idle", "hooks", "fresh", "seen", "write", "wrote", "again", "reread"}]
    BY <1>1, GoesOk DEF SoftInv
  <1>10. CallOk(f)'
    <2>1. \A x : Real(x) => Real(x)'
      BY <1>1 DEF Real
    <2>2. Cardinality(rows) > 0 => Real(s)'
      BY <1>3, <1>5, <1>6 DEF Real
    <2> QED BY <1>2, <1>8, <1>9, <2>1, <2>2 DEF CallOk, At
  <1>11. untold' \in [Kinds -> Int]
    <2>1. trashed(table') \ trashed(table) \subseteq {call[f].id}
      BY <1>3, <1>4 DEF trashed, isTrashed
    <2> DEFINE n == Cardinality(trashed(table') \ trashed(table))
    <2>2. n \in Int
      BY <2>1, ByKey
    <2> HIDE DEF n
    <2>3. untold["deleted"] \in Int
      BY <1>2, UntoldType
    <2>4. untold' = [untold EXCEPT !["deleted"] = untold["deleted"] + n]
      BY <1>1 DEF n
    <2> QED BY <1>2, <2>2, <2>3, <2>4, UntoldType
  <1>12. Typed'
    BY <1>2, <1>4, <1>8, <1>9, <1>11 DEF SoftInv, Typed
  <1> QED BY <1>1, <1>2, <1>7, <1>8, <1>9, <1>10, <1>12, OwnStep

\* The other statements by the key.
LEMMA WritesInv ==
    ASSUME SoftInv, NEW f \in Flows, SaveUpdates(f) \/ RestoreClears(f) \/ Removes(f)
    PROVE  SoftInv'
  <1>1. CASE SaveUpdates(f)
    <2> DEFINE rows == {call[f].id} \cap DOMAIN table
    <2>1. /\ Wrote(f, rows) /\ UNCHANGED <<untold, stored>> /\ call[f].op = "saved" /\ pc[f] = "write"
      BY <1>1 DEF SaveUpdates, At
    <2>2. rows \subseteq {call[f].id}
      OBVIOUS
    <2> HIDE DEF rows
    <2>3. Cardinality(rows) \in {0, 1}
      BY <2>2, ByKey
    <2>4. untold' \in [Kinds -> Int]
      BY <2>1 DEF SoftInv, Typed
    <2> QED BY <1>1, <2>1, <2>3, <2>4, SaveUpdatesRows, WroteInv
  <1>2. CASE RestoreClears(f)
    <2> DEFINE rows == buildSoftRestore({call[f].id})
    <2>1. /\ Wrote(f, rows) /\ UNCHANGED stored /\ call[f].op = "restored" /\ pc[f] = "write"
          /\ untold' = [untold EXCEPT !["restored"] = @ + Cardinality(trashed(table) \ trashed(table'))]
          /\ SetStamp(rows, 0)
      BY <1>2 DEF RestoreClears, At
    <2>2. rows \subseteq {call[f].id} /\ rows \in SUBSET DOMAIN table /\ Cardinality(rows) \in {0, 1}
      BY SoftRows, SoftSize
    <2> HIDE DEF rows
    <2>3. /\ DOMAIN table' = DOMAIN table
          /\ \A r \in DOMAIN table :
                table'[r] \in Rows /\ table'[r][soft] = IF r \in rows THEN 0 ELSE table[r][soft]
      BY <2>1, <2>2, SetStampRows
    <2>4. untold' \in [Kinds -> Int]
      <3>1. trashed(table) \ trashed(table') \subseteq {call[f].id}
        BY <2>2, <2>3 DEF trashed, isTrashed
      <3> DEFINE n == Cardinality(trashed(table) \ trashed(table'))
      <3>2. n \in Int
        BY <3>1, ByKey
      <3> HIDE DEF n
      <3>3. "restored" \in Kinds
        BY DEF Kinds
      <3>4. untold' = [untold EXCEPT !["restored"] = untold["restored"] + n]
        BY <2>1 DEF n
      <3>5. untold["restored"] + n \in Int
        BY <3>2, <3>3, UntoldType
      <3> QED BY <3>3, <3>4, <3>5, UntoldType
    <2> QED BY <2>1, <2>2, <2>3, <2>4, WroteInv
  <1>3. CASE Removes(f)
    <2> DEFINE rows == DOMAIN table \ DOMAIN table'
    <2>1. /\ Wrote(f, rows) /\ UNCHANGED <<untold, stored>> /\ call[f].op = "removed" /\ pc[f] = "write"
          /\ table' = Restrict(table, DOMAIN table \ {call[f].id})
      BY <1>3 DEF Removes, At
    <2>2. /\ rows \subseteq {call[f].id} /\ DOMAIN table' \subseteq DOMAIN table
          /\ \A r \in DOMAIN table' : table'[r] = table[r]
      BY <2>1 DEF Restrict
    <2> HIDE DEF rows
    <2>3. Cardinality(rows) \in {0, 1}
      BY <2>2, ByKey
    <2>4. untold' \in [Kinds -> Int] /\ \A r \in DOMAIN table' : table'[r] \in Rows
      BY <2>1, <2>2 DEF SoftInv, Typed
    <2> QED BY <2>1, <2>2, <2>3, <2>4, WroteInv
  <1> QED BY <1>1, <1>2, <1>3

-----------------------------------------------------------------------------
(* The replies, and what a call makes of them. *)

\* The calls' steps that end it.
LEMMA RepliesInv ==
    ASSUME SoftInv, NEW f \in Flows,
           \/ Throws(f) \/ ReplyLost(f) \/ SaveInserted(f) \/ SaveUpdated(f)
           \/ Deleted(f) \/ Restored(f) \/ Refreshes(f) \/ Removed(f)
    PROVE  SoftInv'
  <1>0. /\ CallOk(f) /\ call[f] \in Call /\ untold \in [Kinds -> Int]
        /\ memory \in [Instances -> Instance] /\ edited \in [Instances -> SUBSET Fields]
    BY DEF SoftInv, Typed
  <1>1. CASE Throws(f) \/ Removed(f)
    BY <1>0, <1>1, EndsInv DEF Throws, Removed
  <1>2. CASE ReplyLost(f)
    <2>1. \A k \in Kinds : untold[k] - (IF call[f].op = k THEN call[f].rows ELSE 0) \in Int
      BY <1>0 DEF Call
    <2>2. untold' \in [Kinds -> Int]
      BY <1>2, <2>1 DEF ReplyLost
    <2> QED BY <1>0, <1>2, <2>2, EndsInv DEF ReplyLost
  <1>3. CASE SaveInserted(f)
    <2> DEFINE row == call[f].changes
    <2>1. /\ Ends(f) /\ UNCHANGED <<table, edited, stored>> /\ pc[f] = "wrote" /\ call[f].op = "created"
          /\ memory' = [memory EXCEPT ![call[f].on] = [id |-> call[f].id, attributes |-> row, original |-> row]]
          /\ untold' = [untold EXCEPT !["created"] = @ - 1]
      BY <1>3 DEF SaveInserted, At, deliver
    <2>2. PICK i \in Instances : i = call[f].on
      BY <1>0, <2>1 DEF CallOk
    <2>3. row \in Rows /\ Real(row[soft]) /\ call[f].id \in Ids \cup {0}
      BY <1>0, <2>1 DEF CallOk, Call
    <2> HIDE DEF row
    <2>4. /\ memory' \in [Instances -> Instance] /\ \A j \in Instances \ {i} : memory'[j] = memory[j]
          /\ memory'[i].attributes = row /\ memory'[i].original = row
      BY <1>0, <2>1, <2>2, <2>3 DEF Instance
    <2>5. InstanceOk(i)'
      BY <2>1, <2>3, <2>4 DEF InstanceOk, dirtyKeys, Real
    <2>6. untold' \in [Kinds -> Int]
      BY <2>1, UntoldType DEF Kinds
    <2> QED BY <2>1, <2>4, <2>5, <2>6, EndsInv
  <1>4. CASE SaveUpdated(f)
    <2>1. /\ Ends(f) /\ UNCHANGED <<table, edited, untold, stored>> /\ pc[f] = "wrote"
          /\ memory' = [memory EXCEPT ![call[f].on].original = memory[call[f].on].attributes]
      BY <1>4 DEF SaveUpdated, At
    <2>2. PICK i \in Instances : i = call[f].on
      BY <1>0, <2>1 DEF CallOk
    <2>3. InstanceOk(i)
      BY DEF SoftInv
    <2>4. /\ memory' \in [Instances -> Instance] /\ \A j \in Instances \ {i} : memory'[j] = memory[j]
          /\ memory'[i].attributes = memory[i].attributes /\ memory'[i].original = memory[i].attributes
      BY <1>0, <2>1, <2>2 DEF Instance
    <2>5. InstanceOk(i)'
      BY <2>1, <2>3, <2>4 DEF InstanceOk, dirtyKeys, Real
    <2> QED BY <1>0, <2>1, <2>4, <2>5, EndsInv
  <1>5. CASE Deleted(f)
    <2> DEFINE row == [memory[call[f].on].attributes EXCEPT ![soft] = call[f].stamp]
    <2>1. /\ Ends(f) /\ UNCHANGED <<table, edited, stored>> /\ At(f, "deleted", "wrote") /\ pc[f] = "wrote"
          /\ Takes(call[f].on, row) /\ call[f].rows > 0
          /\ untold' = [untold EXCEPT !["deleted"] = @ - 1]
      BY <1>5 DEF Deleted, At, deliver
    <2>2. Real(call[f].stamp) /\ call[f].stamp \in Nat /\ memory[call[f].on].attributes \in Rows
      BY <1>0, <2>1 DEF CallOk, Call, Instance
    <2>3. row \in Rows /\ Real(row[soft])
      BY <2>2, StampRows
    <2> HIDE DEF row
    <2>4. untold' \in [Kinds -> Int]
      BY <2>1, UntoldType DEF Kinds
    <2> QED BY <2>1, <2>3, <2>4, TakesInv
  <1>6. CASE Restored(f)
    <2> DEFINE row == [memory[call[f].on].attributes EXCEPT ![soft] = 0]
    <2>1. /\ Ends(f) /\ UNCHANGED <<table, edited, stored>> /\ pc[f] = "wrote" /\ Takes(call[f].on, row)
          /\ untold' = [untold EXCEPT !["restored"] = @ - 1]
      BY <1>6 DEF Restored, At, deliver
    <2>2. memory[call[f].on].attributes \in Rows
      BY <1>0, <2>1 DEF CallOk, Instance
    <2>3. row \in Rows /\ Real(row[soft])
      BY <2>2, StampRows DEF Real
    <2> HIDE DEF row
    <2>4. untold' \in [Kinds -> Int]
      BY <2>1, UntoldType DEF Kinds
    <2> QED BY <2>1, <2>3, <2>4, TakesInv
  <1>7. CASE Refreshes(f)
    <2>1. /\ Ends(f) /\ UNCHANGED <<table, edited, untold, stored>> /\ pc[f] = "reread"
          /\ IF call[f].row # << >> THEN Takes(call[f].on, call[f].row) ELSE UNCHANGED memory
      BY <1>7 DEF Refreshes
    <2>2. CASE call[f].row # << >>
      <3>1. call[f].row \in Rows /\ Real(call[f].row[soft])
        BY <1>0, <2>2 DEF CallOk, Call
      <3> QED BY <1>0, <2>1, <2>2, <3>1, TakesInv
    <2>3. CASE call[f].row = << >>
      BY <1>0, <2>1, <2>3, EndsInv
    <2> QED BY <2>2, <2>3
  <1> QED BY <1>1, <1>2, <1>3, <1>4, <1>5, <1>6, <1>7

\* A look at the row shows that another call was there first, or the call goes on.
LEMMA SeesInv ==
    ASSUME SoftInv, NEW f \in Flows, DeleteSees(f) \/ RestoreSees(f) \/ LosesRace(f)
    PROVE  SoftInv'
  <1>0. /\ CallOk(f) /\ call[f] \in Call /\ untold \in [Kinds -> Int]
    BY DEF SoftInv, Typed
  <1>1. CASE LosesRace(f)
    BY <1>1, MovesInv DEF LosesRace
  <1>2. CASE DeleteSees(f) \/ RestoreSees(f)
    <2>1. /\ pc[f] = "seen" /\ call[f].op \in {"deleted", "restored"}
          /\ UNCHANGED <<table, edited, untold, stored>>
          /\ \/ call[f].row # << >> /\ Takes(call[f].on, call[f].row) /\ Ends(f)
             \/ Goes(f, "write") /\ UNCHANGED <<memory, call>>
      BY <1>2 DEF DeleteSees, RestoreSees, At
    <2>2. CASE call[f].row # << >> /\ Takes(call[f].on, call[f].row) /\ Ends(f)
      <3>1. call[f].row \in Rows /\ Real(call[f].row[soft])
        BY <1>0, <2>2 DEF CallOk, Call
      <3> QED BY <1>0, <2>1, <2>2, <3>1, TakesInv
    <2>3. CASE Goes(f, "write") /\ UNCHANGED <<memory, call>>
      BY <2>1, <2>3, MovesInv
    <2> QED BY <2>1, <2>2, <2>3
  <1> QED BY <1>1, <1>2

-----------------------------------------------------------------------------
(* Between the calls. *)

\* A step that changes one instance and no call.
LEMMA UseInv ==
    ASSUME SoftInv, NEW i \in Instances, UNCHANGED <<table, pc, call, untold, stored>>,
           NEW m \in Instance, memory' = [memory EXCEPT ![i] = m],
           NEW E \in SUBSET Fields, edited' = [edited EXCEPT ![i] = E],
           Unused(i) \/ edited[i] \subseteq E,
           m.attributes[soft] = m.original[soft], Real(m.original[soft]),
           \A c \in Columns : m.attributes[c] # m.original[c] => c \in E
    PROVE  SoftInv'
  <1>1. /\ memory' \in [Instances -> Instance] /\ memory'[i] = m
        /\ edited' \in [Instances -> SUBSET Fields] /\ edited'[i] = E
        /\ \A j \in Instances \ {i} : memory'[j] = memory[j] /\ edited'[j] = edited[j]
    BY DEF SoftInv, Typed
  <1>2. Typed'
    BY <1>1 DEF SoftInv, Typed
  <1>3. InstanceOk(i)'
    BY <1>1 DEF InstanceOk, dirtyKeys, Real
  <1>4. \A j \in Instances : InstanceOk(j)'
    BY <1>1, <1>3, InstanceKept DEF SoftInv
  <1>5. ASSUME NEW f \in Flows
        PROVE  CallOk(f)'
    <2>1. CallOk(f) /\ stored \subseteq stored'
      BY DEF SoftInv
    <2>2. pc[f] # "idle" => call[f].on \in Instances /\ (call[f].on = i => edited[i] \subseteq E)
      BY <2>1 DEF CallOk, Unused
    <2>3. pc[f] # "idle" => edited[call[f].on] \subseteq edited'[call[f].on]
      BY <1>1, <2>2
    <2> QED BY <2>1, <2>3, CallKept
  <1>6. \A r \in DOMAIN table' : Real(table[r][soft])'
    BY DEF SoftInv, Real
  <1> QED BY <1>2, <1>4, <1>5, <1>6 DEF SoftInv

\* A new instance, one that is read, an edit.
LEMMA InstancesInv ==
    ASSUME SoftInv, NEW i \in Instances,
           \/ construct(i)
           \/ \E id \in Ids, withTrashed \in BOOLEAN : find(i, id, withTrashed)
           \/ \E c \in Fields, v \in Values : fill(i, c, v)
    PROVE  SoftInv'
  <1>0. Null \in Rows /\ Null[soft] = 0 /\ soft \in Columns /\ Fields \subseteq Columns /\ Real(0)
    BY DEF Null, Rows, Columns, Real
  <1>1. CASE construct(i)
    <2> DEFINE row == [[c \in Columns |-> 1] EXCEPT ![soft] = 0]
               m == [id |-> 0, attributes |-> row, original |-> Null]
    <2>1. row \in Rows /\ row[soft] = 0
      BY <1>0 DEF Rows
    <2> HIDE DEF row
    <2>2. m \in Instance /\ m.attributes = row /\ m.original = Null
      BY <1>0, <2>1 DEF Instance
    <2>3. /\ memory' = [memory EXCEPT ![i] = m] /\ edited' = [edited EXCEPT ![i] = Fields]
          /\ Unused(i) /\ UNCHANGED <<table, pc, call, untold, stored>>
      BY <1>1 DEF construct, row
    <2>4. \A c \in Columns : row[c] # Null[c] => c \in Fields
      BY <1>0, <2>1 DEF Columns
    <2> HIDE DEF m
    <2> QED BY <1>0, <2>1, <2>2, <2>3, <2>4, UseInv
  <1>2. CASE \E id \in Ids, withTrashed \in BOOLEAN : find(i, id, withTrashed)
    <2>1. PICK r \in DOMAIN table :
             hydrate(i, r, table[r]) /\ Unused(i) /\ UNCHANGED <<table, pc, call, untold, stored>>
      BY <1>2 DEF find, readOne
    <2> DEFINE row == table[r]
               m == [id |-> r, attributes |-> row, original |-> row]
    <2>2. r \in Ids /\ row \in Rows /\ Real(row[soft])
      BY DEF SoftInv, Typed
    <2>3. memory' = [memory EXCEPT ![i] = m] /\ edited' = [edited EXCEPT ![i] = {}]
      BY <2>1 DEF hydrate
    <2> HIDE DEF row
    <2>4. m \in Instance /\ m.attributes = row /\ m.original = row
      BY <2>2 DEF Instance
    <2> HIDE DEF m
    <2> QED BY <2>1, <2>2, <2>3, <2>4, UseInv
  <1>3. CASE \E c \in Fields, v \in Values : fill(i, c, v)
    <2>1. PICK c \in Fields, v \in Values :
             /\ memory' = [memory EXCEPT ![i].attributes[c] = v]
             /\ edited' = [edited EXCEPT ![i] = @ \cup {c}]
             /\ UNCHANGED <<table, pc, call, untold, stored>>
      BY <1>3 DEF fill
    <2> DEFINE row == [memory[i].attributes EXCEPT ![c] = v]
               m == [memory[i] EXCEPT !.attributes = row]
    <2>2. /\ memory[i] \in Instance /\ memory[i].attributes \in Rows /\ InstanceOk(i)
          /\ edited[i] \in SUBSET Fields /\ v \in Nat /\ c # soft
      BY SoftModelAssumption DEF SoftInv, Typed, Instance, Values
    <2>3. row \in Rows /\ \A d \in Columns \ {c} : row[d] = memory[i].attributes[d]
      BY <1>0, <2>2 DEF Rows
    <2>4. memory' = [memory EXCEPT ![i] = m]
      BY <2>1
    <2> HIDE DEF row
    <2>5. m \in Instance /\ m.attributes = row /\ m.original = memory[i].original
      BY <2>2, <2>3 DEF Instance
    <2> HIDE DEF m
    <2>6. \A d \in Columns : m.attributes[d] # m.original[d] => d \in edited[i] \cup {c}
      BY <2>2, <2>3, <2>5 DEF InstanceOk, dirtyKeys
    <2>7. m.attributes[soft] = m.original[soft] /\ Real(m.original[soft])
      BY <1>0, <2>2, <2>3, <2>5 DEF InstanceOk
    <2>8. edited[i] \cup {c} \in SUBSET Fields /\ edited' = [edited EXCEPT ![i] = edited[i] \cup {c}]
      BY <2>1, <2>2
    <2> QED BY <2>1, <2>4, <2>5, <2>6, <2>7, <2>8, UseInv
  <1> QED BY <1>1, <1>2, <1>3

\* A soft delete of many rows at once.
LEMMA deleteWhereInv ==
    ASSUME SoftInv, NEW matches, NEW s \in Stamps, deleteWhere(matches, s)
    PROVE  SoftInv'
  <1> DEFINE rows == buildSoftUpdate(matches)
  <1>1. /\ SetStamp(rows, s) /\ stored' = stored \cup {<<r, s>> : r \in rows}
        /\ UNCHANGED <<memory, pc, call, edited, untold>> /\ s \in Nat
    BY DEF deleteWhere, Stamps
  <1>2. rows \in SUBSET DOMAIN table
    BY SoftRows
  <1> HIDE DEF rows
  <1>3. /\ DOMAIN table' = DOMAIN table
        /\ \A r \in DOMAIN table :
              table'[r] \in Rows /\ table'[r][soft] = IF r \in rows THEN s ELSE table[r][soft]
    BY <1>1, <1>2, SetStampRows
  <1>4. Typed'
    BY <1>1, <1>3 DEF SoftInv, Typed
  <1>5. \A r \in DOMAIN table' : Real(table[r][soft])'
    <2>1. rows \subseteq Ids /\ (\A x : Real(x) => Real(x)')
      BY <1>1, <1>2 DEF SoftInv, Typed, Real
    <2>2. \A r \in rows : <<r, s>> \in stored'
      BY <1>1
    <2>3. rows # {} => Real(s)'
      BY <2>1, <2>2 DEF Real
    <2> QED BY <1>3, <2>1, <2>3 DEF SoftInv, Real
  <1>6. /\ \A i \in Instances : InstanceOk(i)'
        /\ \A f \in Flows : CallOk(f)'
    BY <1>1, InstanceKept, CallKept DEF SoftInv
  <1> QED BY <1>4, <1>5, <1>6 DEF SoftInv

\* A call begins.
LEMMA CallsInv ==
    ASSUME SoftInv, NEW f \in Flows, NEW i \in Instances,
           save(f, i) \/ delete(f, i) \/ restore(f, i) \/ forceDelete(f, i)
    PROVE  SoftInv'
  <1>1. \/ Begins(f, i, "created", "hooks") \/ Begins(f, i, "saved", "hooks")
        \/ Begins(f, i, "deleted", "fresh") \/ Begins(f, i, "restored", "fresh")
        \/ Begins(f, i, "removed", "write")
    BY DEF save, delete, restore, forceDelete
  <1> QED BY <1>1, BeginsInv DEF Kinds

-----------------------------------------------------------------------------
(* The theorems about every reachable state. *)

\* The first state: a live row, a trashed one, or none.
LEMMA InitInv == Init => SoftInv
  <1> SUFFICES ASSUME Init PROVE SoftInv
    OBVIOUS
  <1>0. Null \in Rows /\ Null[soft] = 0 /\ soft \in Columns
    BY DEF Null, Rows, Columns
  <1>1. PICK id \in Ids, s \in 0 .. MaxStamp :
          /\ table \in {[r \in {id} |-> [[c \in Columns |-> 1] EXCEPT ![soft] = s]], << >>}
          /\ stored = {<<r, table[r][soft]>> : r \in {r \in DOMAIN table : isTrashed(table[r])}}
    BY DEF Init
  <1>2. s \in Nat
    BY SoftModelAssumption
  <1>3. DOMAIN table \subseteq Ids /\ \A r \in DOMAIN table : table[r] \in Rows
    <2>1. [[c \in Columns |-> 1] EXCEPT ![soft] = s] \in Rows
      BY <1>0, <1>2 DEF Rows
    <2> DEFINE row == [[c \in Columns |-> 1] EXCEPT ![soft] = s]
    <2> HIDE DEF row
    <2>2. CASE table = [r \in {id} |-> row]
      BY <2>1, <2>2 DEF row
    <2>3. CASE table = << >>
      BY <2>3
    <2> QED BY <1>1, <2>2, <2>3 DEF row
  <1>4. \A r \in DOMAIN table : Real(table[r][soft])
    BY <1>1, <1>3 DEF Real, isTrashed
  <1>5. Typed
    BY <1>0, <1>3, NoCallType DEF Init, Typed, Instance, Kinds
  <1>6. \A i \in Instances : InstanceOk(i)
    BY <1>0 DEF Init, InstanceOk, dirtyKeys, Real
  <1>7. \A f \in Flows : CallOk(f)
    BY NoCallType DEF Init, CallOk, At
  <1> QED BY <1>4, <1>5, <1>6, <1>7 DEF SoftInv

\* Every step.
LEMMA NextInv == SoftInv /\ [Next]_vars => SoftInv'
  <1> SUFFICES ASSUME SoftInv, [Next]_vars PROVE SoftInv'
    OBVIOUS
  <1>1. CASE UNCHANGED vars
    BY <1>1, InstanceKept, CallKept DEF vars, SoftInv, Typed, Real
  <1>2. CASE Uses
    BY <1>2, InstancesInv, deleteWhereInv DEF Uses
  <1>3. ASSUME NEW f \in Flows, Calls(f)
        PROVE  SoftInv'
    BY <1>3, CallsInv DEF Calls
  <1>4. ASSUME NEW f \in Flows, Proceeds(f)
        PROVE  SoftInv'
    BY <1>4, freshRowInv, SaveSendsInv, SaveInsertsInv, DeleteStampsInv, WritesInv, RepliesInv, SeesInv
       DEF Proceeds
  <1> QED BY <1>1, <1>2, <1>3, <1>4 DEF Next

\* Instances, calls and rows always stand in the relation SoftInv states.
THEOREM SoftCorrect == Spec => []SoftInv
  BY InitInv, NextInv, PTL DEF Spec

\* An instance that is clean about its stamp has one that a row really carried:
\* no delete that lost a race leaves its own time behind (delete, restore and
\* freshRow in model.ts).
THEOREM StampCorrect == Spec => []MemoryStampIsReal
  <1>1. SoftInv => MemoryStampIsReal
    BY DEF SoftInv, InstanceOk, Real, MemoryStampIsReal
  <1> QED BY <1>1, SoftCorrect, PTL

-----------------------------------------------------------------------------
(* The theorems about every step. *)

\* The steps that write to the table.
LEMMA TableSteps ==
    ASSUME [Next]_vars
    PROVE  \/ UNCHANGED table
           \/ \E matches \in Conditions, s \in Stamps : deleteWhere(matches, s)
           \/ \E f \in Flows : \/ SaveInserts(f) \/ SaveUpdates(f) \/ DeleteStamps(f)
                               \/ RestoreClears(f) \/ Removes(f)
  <1>1. CASE UNCHANGED vars
    BY <1>1 DEF vars
  <1>2. CASE Uses
    <2>1. ASSUME NEW i \in Instances, construct(i) \/ \E c \in Fields, v \in Values : fill(i, c, v)
          PROVE  UNCHANGED table
      BY <2>1 DEF construct, fill
    <2>2. ASSUME NEW i \in Instances, NEW id \in Ids, NEW withTrashed \in BOOLEAN, find(i, id, withTrashed)
          PROVE  UNCHANGED table
      BY <2>2 DEF find
    <2>3. \/ \E i \in Instances : construct(i) \/ \E c \in Fields, v \in Values : fill(i, c, v)
          \/ \E i \in Instances, id \in Ids, withTrashed \in BOOLEAN : find(i, id, withTrashed)
          \/ \E matches \in Conditions, s \in Stamps : deleteWhere(matches, s)
      BY <1>2 DEF Uses
    <2> QED BY <2>1, <2>2, <2>3
  <1>3. ASSUME NEW f \in Flows, Calls(f)
        PROVE  UNCHANGED table
    BY <1>3 DEF Calls, save, delete, restore, forceDelete, Begins
  <1>4. ASSUME NEW f \in Flows, Proceeds(f)
        PROVE  UNCHANGED table \/ SaveInserts(f) \/ SaveUpdates(f) \/ DeleteStamps(f)
               \/ RestoreClears(f) \/ Removes(f)
    BY <1>4 DEF Proceeds, freshRow, Throws, ReplyLost, SaveSends, SaveInserted, SaveUpdated,
                DeleteSees, Deleted, RestoreSees, Restored, LosesRace, Refreshes, Removed
  <1> QED BY <1>1, <1>2, <1>3, <1>4 DEF Next

\* What a step does to a row that stays.
LEMMA RowSteps ==
    ASSUME SoftInv, [Next]_vars, NEW r \in DOMAIN table, r \in DOMAIN table'
    PROVE  /\ \/ table'[r][soft] = table[r][soft]
              \/ table[r][soft] = 0
              \/ table'[r][soft] = 0 /\ \E f \in Flows : At(f, "restored", "write") /\ call[f].id = r
           /\ \A c \in Fields : table'[r][c] # table[r][c] =>
                 \E f \in Flows : At(f, "saved", "write") /\ call[f].id = r /\ c \in edited[call[f].on]
  <1>1. CASE UNCHANGED table
    BY <1>1
  <1>2. ASSUME NEW matches, NEW s \in Stamps, SetStamp(buildSoftUpdate(matches), s)
        PROVE  /\ table'[r][soft] = table[r][soft] \/ table[r][soft] = 0
               /\ \A c \in Fields : table'[r][c] = table[r][c]
    <2>1. s \in Nat /\ buildSoftUpdate(matches) \in SUBSET DOMAIN table
      BY SoftRows DEF Stamps
    <2>2. r \in buildSoftUpdate(matches) => table[r][soft] = 0
      BY DEF buildSoftUpdate, isTrashed
    <2> QED BY <1>2, <2>1, <2>2, SetStampRows
  <1>3. CASE \E matches \in Conditions, s \in Stamps : deleteWhere(matches, s)
    BY <1>2, <1>3 DEF deleteWhere
  <1>4. ASSUME NEW f \in Flows, DeleteStamps(f)
        PROVE  /\ table'[r][soft] = table[r][soft] \/ table[r][soft] = 0
               /\ \A c \in Fields : table'[r][c] = table[r][c]
    BY <1>2, <1>4 DEF DeleteStamps
  <1>5. ASSUME NEW f \in Flows, RestoreClears(f)
        PROVE  /\ \/ table'[r][soft] = table[r][soft]
                  \/ table'[r][soft] = 0 /\ At(f, "restored", "write") /\ call[f].id = r
               /\ \A c \in Fields : table'[r][c] = table[r][c]
    <2> DEFINE rows == buildSoftRestore({call[f].id})
    <2>1. SetStamp(rows, 0) /\ rows \subseteq {call[f].id} /\ rows \in SUBSET DOMAIN table /\ At(f, "restored", "write")
      BY <1>5, SoftRows DEF RestoreClears
    <2> HIDE DEF rows
    <2> QED BY <2>1, SetStampRows
  <1>6. ASSUME NEW f \in Flows, SaveUpdates(f)
        PROVE  /\ table'[r][soft] = table[r][soft]
               /\ \A c \in Fields : table'[r][c] # table[r][c] =>
                     At(f, "saved", "write") /\ call[f].id = r /\ c \in edited[call[f].on]
    BY <1>6, SaveUpdatesRows DEF SaveUpdates
  <1>7. ASSUME NEW f \in Flows, SaveInserts(f) \/ Removes(f)
        PROVE  table'[r] = table[r]
    BY <1>7 DEF SaveInserts, Removes, Restrict
  <1> QED BY <1>1, <1>3, <1>4, <1>5, <1>6, <1>7, TableSteps

\* A trashed row keeps its stamp until a restore() clears it (buildSoftUpdate and
\* buildSoftRestore in crud.ts).
THEOREM StandsCorrect == Spec => StampStands
  <1> DEFINE Stands ==
        \A r \in trashed(table) \cap DOMAIN table' :
          \/ table'[r][soft] = table[r][soft]
          \/ table'[r][soft] = 0 /\ \E f \in Flows : At(f, "restored", "write") /\ call[f].id = r
  <1>1. SoftInv /\ [Next]_vars => [Stands]_vars
    BY RowSteps DEF trashed, isTrashed
  <1> QED BY <1>1, SoftCorrect, PTL DEF Spec, StampStands

\* A save of a stale instance brings back no column that was not filled in on it
\* (getChanges in model.ts, buildUpdate in crud.ts).
THEOREM EditsCorrect == Spec => SavesTouchOnlyEdits
  <1> DEFINE Touches ==
        \A r \in DOMAIN table \cap DOMAIN table', c \in Fields :
          table'[r][c] # table[r][c] =>
              \E f \in Flows :
                  /\ At(f, "saved", "write") /\ call[f].id = r
                  /\ c \in edited[call[f].on]
  <1>1. SoftInv /\ [Next]_vars => [Touches]_vars
    BY RowSteps
  <1> QED BY <1>1, SoftCorrect, PTL DEF Spec, SavesTouchOnlyEdits

-----------------------------------------------------------------------------
(* Changes and the after-hooks.  What is untold of a kind is counted by the *)
(* calls that wrote and have not told; a step moves both by the same.       *)

\* A call that is about to tell of a change.
Owes(f, k) == At(f, k, "wrote") /\ call[f].rows > 0
Weight(f, k) == IF Owes(f, k) THEN 1 ELSE 0
InsertOk(f) == At(f, "created", "wrote") => call[f].rows = 1

ToldInv == EachChangeIsTold /\ \A f \in Flows : InsertOk(f)

\* A step of f's call accounts for what it changes or tells.
Accounts(f) ==
    /\ \A g \in Flows \ {f} : pc'[g] = pc[g] /\ call'[g] = call[g]
    /\ \A k \in Kinds : untold'[k] = untold[k] + Weight(f, k)' - Weight(f, k)
    /\ InsertOk(f)'

\* Two sets that differ in one member at most.
LEMMA CountOne ==
    ASSUME NEW S, NEW T, IsFiniteSet(S), IsFiniteSet(T), NEW f, S \ {f} = T \ {f}
    PROVE  /\ Cardinality(T) = Cardinality(S) + (IF f \in T THEN 1 ELSE 0) - (IF f \in S THEN 1 ELSE 0)
           /\ Cardinality(S) \in Nat
  <1> DEFINE U == S \ {f}
  <1>1. IsFiniteSet(U)
    BY FS_RemoveElement
  <1>2. (f \in S => S = U \cup {f}) /\ (f \notin S => S = U)
    OBVIOUS
  <1>3. (f \in T => T = U \cup {f}) /\ (f \notin T => T = U)
    OBVIOUS
  <1>4. Cardinality(U \cup {f}) = Cardinality(U) + 1 /\ Cardinality(U) \in Nat
    BY <1>1, FS_AddElement, FS_CardinalityType
  <1>5. f \notin U
    OBVIOUS
  <1> HIDE DEF U
  <1>6. /\ f \in S => Cardinality(S) = Cardinality(U \cup {f})
        /\ f \notin S => Cardinality(S) = Cardinality(U)
    BY <1>2
  <1>7. /\ f \in T => Cardinality(T) = Cardinality(U \cup {f})
        /\ f \notin T => Cardinality(T) = Cardinality(U)
    BY <1>3
  <1> DEFINE a == Cardinality(S)
             b == Cardinality(T)
  <1> HIDE DEF a, b
  <1>8. a = Cardinality(U) + (IF f \in S THEN 1 ELSE 0) /\ b = Cardinality(U) + (IF f \in T THEN 1 ELSE 0)
    BY <1>4, <1>6, <1>7 DEF a, b
  <1>9. b = a + (IF f \in T THEN 1 ELSE 0) - (IF f \in S THEN 1 ELSE 0) /\ a \in Nat
    BY <1>4, <1>8
  <1> QED BY <1>9 DEF a, b

LEMMA AccountsInv ==
    ASSUME ToldInv, NEW f \in Flows, Accounts(f)
    PROVE  ToldInv'
  <1>1. ASSUME NEW k \in Kinds
        PROVE  untold'[k] = Cardinality({g \in Flows : Owes(g, k)'})
    <2> DEFINE S == {g \in Flows : Owes(g, k)}
               T == {g \in Flows : Owes(g, k)'}
    <2>1. IsFiniteSet(S) /\ IsFiniteSet(T)
      BY SoftModelAssumption, FS_Subset
    <2>2. S \ {f} = T \ {f}
      BY DEF Accounts, Owes, At
    <2>3. /\ Weight(f, k) = IF f \in S THEN 1 ELSE 0
          /\ Weight(f, k)' = IF f \in T THEN 1 ELSE 0
      BY DEF Weight
    <2>4. untold[k] = Cardinality(S)
      BY DEF ToldInv, EachChangeIsTold, Owes
    <2>5. untold'[k] = untold[k] + Weight(f, k)' - Weight(f, k)
      BY DEF Accounts
    <2> HIDE DEF S, T
    <2>6. Cardinality(T) = untold'[k]
      BY <2>1, <2>2, <2>3, <2>4, <2>5, CountOne
    <2> QED BY <2>6 DEF T
  <1>2. EachChangeIsTold'
    BY <1>1 DEF EachChangeIsTold, Owes
  <1>3. \A g \in Flows : InsertOk(g)'
    BY DEF Accounts, ToldInv, InsertOk, At
  <1> QED BY <1>2, <1>3 DEF ToldInv

\* A step that neither makes nor tells a change.
LEMMA SilentInv ==
    ASSUME SoftInv, ToldInv, NEW f \in Flows, UNCHANGED untold,
           \A g \in Flows \ {f} : pc'[g] = pc[g] /\ call'[g] = call[g],
           pc[f] # "wrote" \/ call[f].op \notin Kinds \/ call[f].rows = 0,
           pc'[f] # "wrote" \/ call'[f].op \notin Kinds
    PROVE  ToldInv'
  <1>1. \A k \in Kinds : Weight(f, k) = 0 /\ Weight(f, k)' = 0 /\ untold[k] \in Int
    BY DEF Weight, Owes, At, SoftInv, Typed
  <1>2. InsertOk(f)'
    BY DEF InsertOk, At, Kinds
  <1> QED BY <1>1, <1>2, AccountsInv DEF Accounts

\* A statement that changes, by the kind, n rows.
LEMMA MakesInv ==
    ASSUME SoftInv, ToldInv, NEW f \in Flows, NEW kind \in Kinds, NEW n \in {0, 1},
           pc[f] = "write", pc'[f] = "wrote", call'[f].op = kind, call'[f].rows = n,
           kind = "created" => n = 1,
           untold' = [untold EXCEPT ![kind] = @ + n],
           \A g \in Flows \ {f} : pc'[g] = pc[g] /\ call'[g] = call[g]
    PROVE  ToldInv'
  <1>1. untold \in [Kinds -> Int]
    BY DEF SoftInv, Typed
  <1>2. \A k \in Kinds : Weight(f, k) = 0 /\ Weight(f, k)' = IF k = kind THEN n ELSE 0
    BY DEF Weight, Owes, At
  <1>3. \A k \in Kinds : untold'[k] = untold[k] + Weight(f, k)' - Weight(f, k)
    BY <1>1, <1>2
  <1>4. InsertOk(f)'
    BY DEF InsertOk, At
  <1> QED BY <1>3, <1>4, AccountsInv DEF Accounts

\* A reply that tells of n rows.
LEMMA TellsInv ==
    ASSUME SoftInv, ToldInv, NEW f \in Flows, Ends(f), pc[f] = "wrote",
           \A k \in Kinds : untold'[k] = untold[k] - IF call[f].op = k THEN call[f].rows ELSE 0
    PROVE  ToldInv'
  <1>1. /\ untold \in [Kinds -> Int] /\ call[f].rows \in {0, 1}
        /\ pc'[f] = "idle" /\ \A g \in Flows \ {f} : pc'[g] = pc[g] /\ call'[g] = call[g]
    BY EndsOk DEF SoftInv, Typed, Call
  <1>2. \A k \in Kinds : /\ Weight(f, k) = IF call[f].op = k THEN call[f].rows ELSE 0
                         /\ Weight(f, k)' = 0
    BY <1>1 DEF Weight, Owes, At
  <1>3. \A k \in Kinds : untold'[k] = untold[k] + Weight(f, k)' - Weight(f, k)
    BY <1>1, <1>2
  <1>4. InsertOk(f)'
    BY <1>1 DEF InsertOk, At
  <1> QED BY <1>1, <1>3, <1>4, AccountsInv DEF Accounts

\* Statements.
LEMMA StatementsTold ==
    ASSUME SoftInv, ToldInv, NEW f \in Flows, SaveInserts(f) \/ DeleteStamps(f) \/ RestoreClears(f)
    PROVE  ToldInv'
  <1>0. Typed /\ call[f] \in Call /\ call \in [Flows -> Call]
    BY DEF SoftInv, Typed
  <1>1. CASE SaveInserts(f)
    <2>1. PICK id \in Ids : call' = [call EXCEPT ![f].id = IF @ = 0 THEN id ELSE @, ![f].rows = 1] /\ Goes(f, "wrote")
      BY <1>1 DEF SaveInserts
    <2>2. /\ call'[f].op = "created" /\ call'[f].rows = 1 /\ \A g \in Flows \ {f} : call'[g] = call[g]
          /\ pc[f] = "write" /\ untold' = [untold EXCEPT !["created"] = @ + 1]
      BY <1>0, <1>1, <2>1 DEF SaveInserts, At, Call
    <2> QED BY <1>0, <2>1, <2>2, GoesOk, MakesInv DEF Kinds
  <1>2. CASE DeleteStamps(f)
    <2> DEFINE rows == buildSoftUpdate({call[f].id})
               n == Cardinality(rows)
               m == Cardinality(trashed(table') \ trashed(table))
    <2>1. PICK s \in Stamps :
            /\ SetStamp(rows, s) /\ Goes(f, "wrote")
            /\ untold' = [untold EXCEPT !["deleted"] = @ + m]
            /\ call' = [call EXCEPT ![f].rows = n, ![f].stamp = s]
      BY <1>2 DEF DeleteStamps
    <2>0. n \in {0, 1}
      BY SoftSize
    <2>2. At(f, "deleted", "write") /\ n \in {0, 1} /\ rows \in SUBSET DOMAIN table /\ s \in Nat /\ s # 0
      BY <1>2, <2>0, SoftRows DEF DeleteStamps, Stamps
    <2>3. \A r \in rows : table[r][soft] = 0
      BY DEF buildSoftUpdate, isTrashed
    <2> HIDE DEF rows
    <2>8. /\ DOMAIN table' = DOMAIN table
          /\ \A r \in DOMAIN table : table'[r][soft] = IF r \in rows THEN s ELSE table[r][soft]
      BY <2>1, <2>2, SetStampRows
    <2>4. trashed(table') \ trashed(table) = rows
      BY <2>2, <2>3, <2>8 DEF trashed, isTrashed
    <2>5. m = n
      BY <2>4
    <2> HIDE DEF n, m
    <2>6. /\ call'[f].op = "deleted" /\ call'[f].rows = n /\ \A g \in Flows \ {f} : call'[g] = call[g]
          /\ pc[f] = "write"
      BY <1>0, <2>1, <2>2 DEF At, Call
    <2>7. untold' = [untold EXCEPT !["deleted"] = @ + n]
      BY <2>1, <2>5
    <2> QED BY <1>0, <2>1, <2>2, <2>6, <2>7, GoesOk, MakesInv DEF Kinds
  <1>3. CASE RestoreClears(f)
    <2> DEFINE rows == buildSoftRestore({call[f].id})
               n == Cardinality(rows)
               m == Cardinality(trashed(table) \ trashed(table'))
    <2>1. /\ SetStamp(rows, 0) /\ Wrote(f, rows) /\ At(f, "restored", "write")
          /\ untold' = [untold EXCEPT !["restored"] = @ + m]
          /\ n \in {0, 1} /\ rows \in SUBSET DOMAIN table
      BY <1>3, SoftRows, SoftSize DEF RestoreClears
    <2>2. \A r \in rows : table[r][soft] # 0
      BY DEF buildSoftRestore, isTrashed
    <2> HIDE DEF rows
    <2>8. /\ DOMAIN table' = DOMAIN table
          /\ \A r \in DOMAIN table : table'[r][soft] = IF r \in rows THEN 0 ELSE table[r][soft]
      BY <2>1, SetStampRows
    <2>3. trashed(table) \ trashed(table') = rows
      BY <2>1, <2>2, <2>8 DEF trashed, isTrashed
    <2>4. m = n
      BY <2>3
    <2>5. /\ pc'[f] = "wrote" /\ call'[f] = [call[f] EXCEPT !.rows = n]
          /\ \A g \in Flows \ {f} : pc'[g] = pc[g] /\ call'[g] = call[g]
      BY <1>0, <2>1, WroteOk
    <2> HIDE DEF n, m
    <2>6. call'[f].op = "restored" /\ call'[f].rows = n /\ pc[f] = "write"
      BY <1>0, <2>1, <2>5 DEF At, Call
    <2>7. untold' = [untold EXCEPT !["restored"] = @ + n]
      BY <2>1, <2>4
    <2> QED BY <2>1, <2>5, <2>6, <2>7, MakesInv DEF Kinds
  <1> QED BY <1>1, <1>2, <1>3

\* Replies.
LEMMA RepliesTold ==
    ASSUME SoftInv, ToldInv, NEW f \in Flows, SaveInserted(f) \/ Deleted(f) \/ Restored(f) \/ ReplyLost(f)
    PROVE  ToldInv'
  <1>0. untold \in [Kinds -> Int] /\ call[f].rows \in {0, 1} /\ InsertOk(f)
    BY DEF SoftInv, Typed, Call, ToldInv
  <1>1. CASE ReplyLost(f)
    BY <1>1, TellsInv DEF ReplyLost
  <1>2. CASE SaveInserted(f) \/ Deleted(f) \/ Restored(f)
    <2>1. PICK kind \in Kinds : At(f, kind, "wrote") /\ call[f].rows > 0 /\ deliver(kind) /\ Ends(f)
      BY <1>0, <1>2 DEF SaveInserted, Deleted, Restored, InsertOk, Kinds
    <2>2. \A k \in Kinds : untold'[k] = untold[k] - IF call[f].op = k THEN call[f].rows ELSE 0
      BY <1>0, <2>1 DEF deliver, At
    <2> QED BY <2>1, <2>2, TellsInv DEF At
  <1> QED BY <1>1, <1>2

\* All other steps of a call.
LEMMA OthersTold ==
    ASSUME SoftInv, ToldInv, NEW f \in Flows,
           \/ freshRow(f) \/ Throws(f) \/ SaveSends(f) \/ SaveUpdates(f) \/ SaveUpdated(f)
           \/ DeleteSees(f) \/ RestoreSees(f) \/ LosesRace(f) \/ Refreshes(f) \/ Removes(f) \/ Removed(f)
    PROVE  ToldInv'
  <1>0. Typed /\ call[f] \in Call /\ call \in [Flows -> Call] /\ "saved" \notin Kinds /\ "removed" \notin Kinds
    BY DEF SoftInv, Typed, Kinds
  <1>1. ASSUME Ends(f), UNCHANGED untold, pc[f] # "wrote" \/ call[f].op \notin Kinds
        PROVE  ToldInv'
    BY <1>0, <1>1, EndsOk, SilentInv
  <1>2. CASE Throws(f) \/ SaveUpdated(f) \/ Refreshes(f) \/ Removed(f)
    BY <1>0, <1>1, <1>2 DEF Throws, SaveUpdated, Refreshes, Removed, At
  <1>3. ASSUME NEW s \in {"seen", "reread", "write", "again"}, Goes(f, s), UNCHANGED untold,
               \A g \in Flows \ {f} : call'[g] = call[g], pc[f] # "wrote" \/ call[f].rows = 0
        PROVE  ToldInv'
    BY <1>0, <1>3, GoesOk, SilentInv
  <1>4. CASE freshRow(f)
    <2>1. \A g \in Flows \ {f} : call'[g] = call[g]
      BY <1>0, <1>4 DEF freshRow
    <2> QED BY <1>3, <1>4, <2>1 DEF freshRow
  <1>5. CASE SaveSends(f)
    <2> DEFINE i == call[f].on
               changes == IF call[f].op = "created" THEN memory[i].attributes ELSE getChanges(i)
               key == IF call[f].op = "created" THEN memory[i].id ELSE call[f].id
    <2>1. CASE Ends(f)
      BY <1>1, <1>5, <2>1 DEF SaveSends
    <2>2. CASE ~ Ends(f)
      <3>1. Goes(f, "write") /\ call' = [call EXCEPT ![f].changes = changes, ![f].id = key]
        BY <1>5, <2>2 DEF SaveSends
      <3> HIDE DEF changes, key
      <3>2. \A g \in Flows \ {f} : call'[g] = call[g]
        BY <1>0, <3>1
      <3> QED BY <1>3, <1>5, <3>1, <3>2 DEF SaveSends
    <2> QED BY <2>1, <2>2
  <1>6. CASE DeleteSees(f) \/ RestoreSees(f)
    BY <1>1, <1>3, <1>6 DEF DeleteSees, RestoreSees, At
  <1>7. CASE LosesRace(f)
    BY <1>3, <1>7 DEF LosesRace
  <1>8. ASSUME NEW rows, Wrote(f, rows), Cardinality(rows) \in {0, 1}, UNCHANGED untold,
               pc[f] = "write", call[f].op \notin Kinds
        PROVE  ToldInv'
    <2> DEFINE n == Cardinality(rows)
    <2>1. /\ pc'[f] = "wrote" /\ call'[f] = [call[f] EXCEPT !.rows = n]
          /\ \A g \in Flows \ {f} : pc'[g] = pc[g] /\ call'[g] = call[g]
      BY <1>0, <1>8, WroteOk
    <2> HIDE DEF n
    <2>2. call'[f].op = call[f].op
      BY <1>0, <2>1 DEF Call
    <2> QED BY <1>8, <2>1, <2>2, SilentInv
  <1>9. CASE SaveUpdates(f)
    <2> DEFINE rows == {call[f].id} \cap DOMAIN table
    <2>1. Wrote(f, rows) /\ At(f, "saved", "write") /\ UNCHANGED untold /\ Cardinality(rows) \in {0, 1}
      BY <1>9, ByKey DEF SaveUpdates
    <2> HIDE DEF rows
    <2> QED BY <1>0, <1>8, <2>1 DEF At
  <1>10. CASE Removes(f)
    <2> DEFINE rows == DOMAIN table \ DOMAIN table'
    <2>1. Wrote(f, rows) /\ At(f, "removed", "write") /\ UNCHANGED untold /\ rows \subseteq {call[f].id}
      BY <1>10 DEF Removes, Restrict
    <2> HIDE DEF rows
    <2>2. Cardinality(rows) \in {0, 1}
      BY <2>1, ByKey
    <2> QED BY <1>0, <1>8, <2>1, <2>2 DEF At
  <1> QED BY <1>2, <1>4, <1>5, <1>6, <1>7, <1>9, <1>10

\* A step that leaves the calls alone.
LEMMA KeptTold ==
    ASSUME ToldInv, UNCHANGED <<pc, call, untold>>
    PROVE  ToldInv'
  BY DEF ToldInv, EachChangeIsTold, InsertOk, At

\* The after-hooks hear of every change exactly once, however many calls race to
\* make it (remove and restore in model.ts: only who changed a row delivers).
THEOREM ToldCorrect == Spec => []EachChangeIsTold
  <1>1. Init => ToldInv
    <2> SUFFICES ASSUME Init PROVE ToldInv
      OBVIOUS
    <2>1. \A f \in Flows : pc[f] = "idle"
      BY DEF Init
    <2>2. \A k \in Kinds : {f \in Flows : At(f, k, "wrote") /\ call[f].rows > 0} = {}
      BY <2>1 DEF At
    <2>3. \A k \in Kinds : untold[k] = 0
      BY DEF Init
    <2> QED BY <2>1, <2>2, <2>3, FS_EmptySet DEF ToldInv, EachChangeIsTold, InsertOk, At
  <1>2. ASSUME SoftInv, ToldInv, [Next]_vars
        PROVE  ToldInv'
    <2>1. CASE UNCHANGED vars
      BY <1>2, <2>1, KeptTold DEF vars
    <2>2. CASE Uses
      <3>1. ASSUME NEW i \in Instances, construct(i) \/ \E c \in Fields, v \in Values : fill(i, c, v)
            PROVE  UNCHANGED <<pc, call, untold>>
        BY <3>1 DEF construct, fill
      <3>2. ASSUME NEW i \in Instances, NEW id \in Ids, NEW withTrashed \in BOOLEAN, find(i, id, withTrashed)
            PROVE  UNCHANGED <<pc, call, untold>>
        BY <3>2 DEF find
      <3>3. ASSUME NEW matches \in Conditions, NEW s \in Stamps, deleteWhere(matches, s)
            PROVE  UNCHANGED <<pc, call, untold>>
        BY <3>3 DEF deleteWhere
      <3>4. \/ \E i \in Instances : construct(i) \/ \E c \in Fields, v \in Values : fill(i, c, v)
            \/ \E i \in Instances, id \in Ids, withTrashed \in BOOLEAN : find(i, id, withTrashed)
            \/ \E matches \in Conditions, s \in Stamps : deleteWhere(matches, s)
        BY <2>2 DEF Uses
      <3> QED BY <1>2, <3>1, <3>2, <3>3, <3>4, KeptTold
    <2>3. ASSUME NEW f \in Flows, Calls(f)
          PROVE  ToldInv'
      <3>1. PICK i \in Instances, op \in {"created", "saved", "deleted", "restored", "removed"},
                 where \in {"hooks", "fresh", "write"} : Begins(f, i, op, where)
        BY <2>3 DEF Calls, save, delete, restore, forceDelete
      <3>2. /\ pc[f] = "idle" /\ UNCHANGED untold /\ Goes(f, where)
            /\ \A g \in Flows \ {f} : call'[g] = call[g]
        BY <1>2, <3>1 DEF Begins, SoftInv, Typed
      <3>3. pc'[f] = where /\ \A g \in Flows \ {f} : pc'[g] = pc[g]
        BY <1>2, <3>2, GoesOk DEF SoftInv
      <3> QED BY <1>2, <3>2, <3>3, SilentInv
    <2>4. ASSUME NEW f \in Flows, Proceeds(f)
          PROVE  ToldInv'
      BY <1>2, <2>4, StatementsTold, RepliesTold, OthersTold DEF Proceeds
    <2> QED BY <1>2, <2>1, <2>2, <2>3, <2>4 DEF Next
  <1>3. ToldInv => EachChangeIsTold
    BY DEF ToldInv
  <1> QED BY <1>1, <1>2, <1>3, SoftCorrect, PTL DEF Spec
=============================================================================
