----------------------------- MODULE SoftModel -----------------------------
(***************************************************************************)
(* Active-record models with soft deletes (model.ts over crud.ts): what     *)
(* save, delete, restore and forceDelete of model instances do to the rows  *)
(* of one table, to the instances and to the after-hooks, when calls of     *)
(* several flows interleave at every await.  Instances may be stale, two    *)
(* instances may stand for one row, two flows may share an instance, and a  *)
(* call may throw before its statement or lose the statement's reply.       *)
(*                                                                         *)
(* NULL, and a field that is not there, is 0.  Calls are made outside a     *)
(* transaction: each statement is its own.                                  *)
(***************************************************************************)
EXTENDS Integers, FiniteSets, Functions

CONSTANTS
    Flows,          \* asynchronous call chains
    Instances,      \* the model instances they hold
    Ids,            \* primary keys
    Fields,         \* the columns beside the key and deleted_at
    MaxValue,       \* bound: values of a field are 1 .. MaxValue
    MaxStamp,       \* bound: times a delete can be stamped with
    MaxOps          \* bound: operations

soft == "deleted_at"
Columns == Fields \cup {soft}
Values == 1 .. MaxValue
Stamps == 1 .. MaxStamp
Kinds == {"created", "deleted", "restored"}

ASSUME SoftModelAssumption ==
    /\ IsFiniteSet(Flows)
    /\ MaxValue \in Nat /\ MaxStamp \in Nat /\ MaxOps \in Nat
    /\ soft \notin Fields /\ 0 \notin Ids

VARIABLES
    table,      \* the rows, by primary key
    memory,     \* each instance's primary key (0: none), attributes, original
    pc,         \* where each flow's call is
    call,       \* its local variables
    edited,     \* the fields filled in since the instance was made
    untold,     \* changes of each kind made, less those told to after-hooks
    stored,     \* every stamp a row ever carried
    ops         \* operations so far

vars == <<table, memory, pc, call, edited, untold, stored, ops>>

Null == [c \in Columns |-> 0]
NoCall == [op |-> "none", on |-> 0, id |-> 0, changes |-> << >>, stamp |-> 0, rows |-> 0, row |-> << >>]

isTrashed(row) == row[soft] # 0
dirtyKeys(i) == {c \in Columns : memory[i].attributes[c] # memory[i].original[c]}

\* The table holds a live row, a trashed one, or none at all.
Init ==
    /\ \E id \in Ids, s \in 0 .. MaxStamp :
          /\ table \in {[r \in {id} |-> [[c \in Columns |-> 1] EXCEPT ![soft] = s]], << >>}
          /\ stored = {<<r, table[r][soft]>> : r \in {r \in DOMAIN table : isTrashed(table[r])}}
    /\ memory = [i \in Instances |-> [id |-> 0, attributes |-> Null, original |-> Null]]
    /\ pc = [f \in Flows |-> "idle"]
    /\ call = [f \in Flows |-> NoCall]
    /\ edited = [i \in Instances |-> {}]
    /\ untold = [k \in Kinds |-> 0]
    /\ ops = 0

-----------------------------------------------------------------------------
(* Statements.                                                             *)

\* Mutant: rows that are trashed already are stamped again.
SoftUpdateAll(ids) == ids \cap DOMAIN table

\* The rows a soft delete stamps: matching and not stamped yet.
buildSoftUpdate(ids) == {r \in ids \cap DOMAIN table : ~isTrashed(table[r])}

\* The rows a soft restore clears: matching and stamped.
buildSoftRestore(ids) == {r \in ids \cap DOMAIN table : isTrashed(table[r])}

\* UPDATE ... SET deleted_at = s.
SetStamp(rows, s) ==
    table' = [r \in DOMAIN table |-> IF r \in rows THEN [table[r] EXCEPT ![soft] = s] ELSE table[r]]

trashed(rows) == {r \in DOMAIN rows : isTrashed(rows[r])}

-----------------------------------------------------------------------------
(* Instances.                                                              *)

Unused(i) == \A f \in Flows : pc[f] # "idle" => call[f].on # i
Operation == ops < MaxOps /\ ops' = ops + 1

\* hydrate(): a fresh instance, clean.
hydrate(i, id, row) ==
    /\ memory' = [memory EXCEPT ![i] = [id |-> id, attributes |-> row, original |-> row]]
    /\ edited' = [edited EXCEPT ![i] = {}]

\* read() and readOne(), by the key: with isNull, rows in the trash are left out.
readOne(id, isNull) == {r \in {id} \cap DOMAIN table : isNull => ~isTrashed(table[r])}

\* find() and all() see live rows, those of withTrashed() every row.
find(i, id, withTrashed) ==
    /\ Operation /\ Unused(i)
    /\ \E r \in readOne(id, ~withTrashed) : hydrate(i, r, table[r])
    /\ UNCHANGED <<table, pc, call, untold, stored>>

\* new Model(data): not persisted, everything it was given is dirty.
construct(i) ==
    /\ Operation /\ Unused(i)
    /\ memory' = [memory EXCEPT ![i] =
          [id |-> 0, attributes |-> [[c \in Columns |-> 1] EXCEPT ![soft] = 0], original |-> Null]]
    /\ edited' = [edited EXCEPT ![i] = Fields]
    /\ UNCHANGED <<table, pc, call, untold, stored>>

Held(i) == memory[i].attributes # Null

\* fill() may come at any time, between the awaits of a call on the instance too.
fill(i, c, v) ==
    /\ Operation
    /\ Held(i) /\ memory[i].attributes[c] # v
    /\ memory' = [memory EXCEPT ![i].attributes[c] = v]
    /\ edited' = [edited EXCEPT ![i] = @ \cup {c}]
    /\ UNCHANGED <<table, pc, call, untold, stored>>

-----------------------------------------------------------------------------
(* Calls.  One runs to its next await in a step: "hooks" and "fresh" wait   *)
(* for before-hooks and for freshRow(), "write" for the statement to take   *)
(* effect, "wrote" for its reply, "again" and "reread" for a second look.   *)

At(f, op, where) == call[f].op = op /\ pc[f] = where
Goes(f, where) == pc' = [pc EXCEPT ![f] = where]
Ends(f) == Goes(f, "idle") /\ call' = [call EXCEPT ![f] = NoCall]

Begins(f, i, op, where) ==
    /\ Operation /\ pc[f] = "idle"
    /\ Goes(f, where)
    /\ call' = [call EXCEPT ![f] = [NoCall EXCEPT !.op = op, !.on = i, !.id = memory[i].id]]
    /\ UNCHANGED <<table, memory, edited, untold, stored>>

\* The statement took effect on these rows; its reply is on the way.
Wrote(f, rows) ==
    /\ Goes(f, "wrote")
    /\ call' = [call EXCEPT ![f].rows = Cardinality(rows)]
    /\ UNCHANGED <<memory, edited, ops>>

\* The instance takes a row for its own, clean.
Takes(i, row) == memory' = [memory EXCEPT ![i].attributes = row, ![i].original = row]

\* deliver(): the after-hooks hear of the change.
deliver(kind) == untold' = [untold EXCEPT ![kind] = @ - 1]

\* freshRow(): the row, trashed or not, or nothing.
freshRow(f) ==
    /\ \/ pc[f] = "fresh" /\ Goes(f, "seen")
       \/ pc[f] = "again" /\ Goes(f, "reread")
    /\ call' = [call EXCEPT ![f].row = IF readOne(call[f].id, FALSE) = {} THEN << >> ELSE table[call[f].id]]
    /\ UNCHANGED <<table, memory, edited, untold, stored, ops>>

\* A veto or a failing statement: the call throws before anything happened.
Throws(f) ==
    /\ pc[f] \in {"hooks", "fresh", "seen", "write", "again"}
    /\ Ends(f)
    /\ UNCHANGED <<table, memory, edited, untold, stored, ops>>

\* The statement's reply is lost: it throws all the same, and tells nobody.
ReplyLost(f) ==
    /\ pc[f] = "wrote"
    /\ untold' = [k \in Kinds |-> untold[k] - (IF call[f].op = k THEN call[f].rows ELSE 0)]
    /\ Ends(f)
    /\ UNCHANGED <<table, memory, edited, stored, ops>>

-----------------------------------------------------------------------------
(* save() and create().                                                     *)

\* Nothing is sent when nothing is dirty.
save(f, i) ==
    /\ Held(i)
    /\ IF memory[i].id = 0 THEN Begins(f, i, "created", "hooks")
       ELSE dirtyKeys(i) # {} /\ Begins(f, i, "saved", "hooks")

\* Mutant: every column is written.
AllColumns(i) == memory[i].attributes

\* The columns that differ from what was read or written last, after the hooks.
getChanges(i) == [c \in dirtyKeys(i) |-> memory[i].attributes[c]]

\* The before-hooks ran; an edit may have been taken back in the meantime, and
\* another flow's save may have given the instance its key.
SaveSends(f) ==
    /\ pc[f] = "hooks"
    /\ LET i == call[f].on
           changes == IF call[f].op = "created" THEN memory[i].attributes ELSE getChanges(i)
           key == IF call[f].op = "created" THEN memory[i].id ELSE call[f].id
       IN  IF changes = << >> THEN Ends(f)
           ELSE Goes(f, "write") /\ call' = [call EXCEPT ![f].changes = changes, ![f].id = key]
    /\ UNCHANGED <<table, memory, edited, untold, stored, ops>>

\* buildInsert: the database picks the row's key, which is the instance's too
\* unless it had one when its attributes were copied.
SaveInserts(f) ==
    /\ At(f, "created", "write")
    /\ \E id \in Ids \ DOMAIN table :
          /\ table' = [r \in DOMAIN table \cup {id} |-> IF r = id THEN call[f].changes ELSE table[r]]
          /\ Goes(f, "wrote")
          /\ call' = [call EXCEPT ![f].id = IF @ = 0 THEN id ELSE @, ![f].rows = 1]
    /\ untold' = [untold EXCEPT !["created"] = @ + 1]
    /\ UNCHANGED <<memory, edited, stored, ops>>

\* The instance becomes what was stored.
SaveInserted(f) ==
    /\ At(f, "created", "wrote")
    /\ LET row == call[f].changes IN
        memory' = [memory EXCEPT ![call[f].on] = [id |-> call[f].id, attributes |-> row, original |-> row]]
    /\ deliver("created")
    /\ Ends(f)
    /\ UNCHANGED <<table, edited, stored, ops>>

\* SET of the changed columns.
Updated(row, changes) == [c \in Columns |-> IF c \in DOMAIN changes THEN changes[c] ELSE row[c]]

\* buildUpdate: the row by its key, trashed or not, if it is still there.
SaveUpdates(f) ==
    /\ At(f, "saved", "write")
    /\ LET rows == {call[f].id} \cap DOMAIN table IN
        /\ table' = [r \in DOMAIN table |-> IF r \in rows THEN Updated(table[r], call[f].changes) ELSE table[r]]
        /\ Wrote(f, rows)
    /\ UNCHANGED <<untold, stored>>

\* Whatever the attributes are by now, they count as written.
SaveUpdated(f) ==
    /\ At(f, "saved", "wrote")
    /\ memory' = [memory EXCEPT ![call[f].on].original = memory[call[f].on].attributes]
    /\ Ends(f)
    /\ UNCHANGED <<table, edited, untold, stored, ops>>

-----------------------------------------------------------------------------
(* delete(), restore() and forceDelete().                                   *)

\* An instance that is trashed in memory is left alone.
delete(f, i) ==
    /\ memory[i].id # 0 /\ ~isTrashed(memory[i].attributes)
    /\ Begins(f, i, "deleted", "fresh")

\* One that turns out to be trashed in the database is refreshed.
DeleteSees(f) ==
    /\ At(f, "deleted", "seen")
    /\ LET row == call[f].row IN
        IF row # << >> /\ isTrashed(row)
        THEN Takes(call[f].on, row) /\ Ends(f)
        ELSE Goes(f, "write") /\ UNCHANGED <<memory, call>>
    /\ UNCHANGED <<table, edited, untold, stored, ops>>

\* The stamp is taken when the statement is built.
DeleteStamps(f) ==
    /\ At(f, "deleted", "write")
    /\ \E s \in Stamps :
        LET rows == buildSoftUpdate({call[f].id}) IN
        /\ SetStamp(rows, s)
        /\ untold' = [untold EXCEPT !["deleted"] = @ + Cardinality(trashed(table') \ trashed(table))]
        /\ stored' = stored \cup {<<r, s>> : r \in rows}
        /\ Goes(f, "wrote")
        /\ call' = [call EXCEPT ![f].rows = Cardinality(rows), ![f].stamp = s]
    /\ UNCHANGED <<memory, edited, ops>>

\* Mutant: a delete that lost the race goes on as if it had won.
DeletedAnyway(f) ==
    /\ At(f, "deleted", "wrote")
    /\ LET row == [memory[call[f].on].attributes EXCEPT ![soft] = call[f].stamp] IN Takes(call[f].on, row)
    /\ untold' = [untold EXCEPT !["deleted"] = @ - call[f].rows]
    /\ Ends(f)
    /\ UNCHANGED <<table, edited, stored, ops>>

\* The winner marks its instance, tells the hooks, and leaves nothing dirty.
Deleted(f) ==
    /\ At(f, "deleted", "wrote") /\ call[f].rows > 0
    /\ LET row == [memory[call[f].on].attributes EXCEPT ![soft] = call[f].stamp] IN Takes(call[f].on, row)
    /\ deliver("deleted")
    /\ Ends(f)
    /\ UNCHANGED <<table, edited, stored, ops>>

\* restore() is the other way round, with its own statement.
restore(f, i) ==
    /\ memory[i].id # 0 /\ isTrashed(memory[i].attributes)
    /\ Begins(f, i, "restored", "fresh")

RestoreSees(f) ==
    /\ At(f, "restored", "seen")
    /\ LET row == call[f].row IN
        IF row # << >> /\ ~isTrashed(row)
        THEN Takes(call[f].on, row) /\ Ends(f)
        ELSE Goes(f, "write") /\ UNCHANGED <<memory, call>>
    /\ UNCHANGED <<table, edited, untold, stored, ops>>

RestoreClears(f) ==
    /\ At(f, "restored", "write")
    /\ LET rows == buildSoftRestore({call[f].id}) IN
        /\ SetStamp(rows, 0)
        /\ untold' = [untold EXCEPT !["restored"] = @ + Cardinality(trashed(table) \ trashed(table'))]
        /\ Wrote(f, rows)
    /\ UNCHANGED stored

Restored(f) ==
    /\ At(f, "restored", "wrote") /\ call[f].rows > 0
    /\ LET row == [memory[call[f].on].attributes EXCEPT ![soft] = 0] IN Takes(call[f].on, row)
    /\ deliver("restored")
    /\ Ends(f)
    /\ UNCHANGED <<table, edited, stored, ops>>

\* Who lost the race looks at the row again, and says nothing.
LosesRace(f) ==
    /\ pc[f] = "wrote" /\ call[f].op \in {"deleted", "restored"} /\ call[f].rows = 0
    /\ Goes(f, "again")
    /\ UNCHANGED <<table, memory, call, edited, untold, stored, ops>>

Refreshes(f) ==
    /\ pc[f] = "reread"
    /\ IF call[f].row # << >> THEN Takes(call[f].on, call[f].row) ELSE UNCHANGED memory
    /\ Ends(f)
    /\ UNCHANGED <<table, edited, untold, stored, ops>>

\* forceDelete(): the row goes, if it is there; the instance keeps its values.
forceDelete(f, i) == memory[i].id # 0 /\ Begins(f, i, "removed", "write")

Removes(f) ==
    /\ At(f, "removed", "write")
    /\ table' = Restrict(table, DOMAIN table \ {call[f].id})
    /\ Wrote(f, DOMAIN table \ DOMAIN table')
    /\ UNCHANGED <<untold, stored>>

Removed(f) ==
    /\ At(f, "removed", "wrote")
    /\ Ends(f)
    /\ UNCHANGED <<table, memory, edited, untold, stored, ops>>

\* deleteWhere(): one statement, no instance and no hook.
deleteWhere(matches, s) ==
    /\ Operation
    /\ SetStamp(buildSoftUpdate(matches), s)
    /\ stored' = stored \cup {<<r, s>> : r \in buildSoftUpdate(matches)}
    /\ UNCHANGED <<memory, pc, call, edited, untold>>

Conditions == {DOMAIN table} \cup {{r \in DOMAIN table : table[r][c] = v} : c \in Fields, v \in Values}

-----------------------------------------------------------------------------
Uses ==
    \/ \E i \in Instances :
          \/ construct(i)
          \/ \E id \in Ids, withTrashed \in BOOLEAN : find(i, id, withTrashed)
          \/ \E c \in Fields, v \in Values : fill(i, c, v)
    \/ \E matches \in Conditions, s \in Stamps : deleteWhere(matches, s)

Calls(f) ==
    \E i \in Instances : save(f, i) \/ delete(f, i) \/ restore(f, i) \/ forceDelete(f, i)

Proceeds(f) ==
    \/ freshRow(f) \/ Throws(f) \/ ReplyLost(f)
    \/ SaveSends(f) \/ SaveInserts(f) \/ SaveInserted(f) \/ SaveUpdates(f) \/ SaveUpdated(f)
    \/ DeleteSees(f) \/ DeleteStamps(f) \/ Deleted(f)
    \/ RestoreSees(f) \/ RestoreClears(f) \/ Restored(f)
    \/ LosesRace(f) \/ Refreshes(f)
    \/ Removes(f) \/ Removed(f)

Next == Uses \/ \E f \in Flows : Calls(f) \/ Proceeds(f)

Spec == Init /\ [][Next]_vars

-----------------------------------------------------------------------------
\* However many flows race to delete or restore a row, through fresh, stale or
\* shared instances, the after-hooks hear of every change exactly once: what is
\* untold is what some call is about to tell.  (A lost reply is the exception.)
EachChangeIsTold ==
    \A k \in Kinds :
        untold[k] = Cardinality({f \in Flows : At(f, k, "wrote") /\ call[f].rows > 0})

\* An instance that believes it is clean about its stamp has one that a row it
\* stood for really carried at some time, never that of a delete that lost the
\* race.  (Two flows that save one keyless instance give it two rows.)
MemoryStampIsReal ==
    \A i \in Instances :
        LET s == memory[i].original[soft] IN
        s # 0 => \E id \in Ids : <<id, s>> \in stored

\* A trashed row keeps its stamp, whoever deletes or saves it, until a
\* restore() clears it or a forceDelete() removes it.
StampStands ==
    [][\A r \in trashed(table) \cap DOMAIN table' :
          \/ table'[r][soft] = table[r][soft]
          \/ table'[r][soft] = 0 /\ \E f \in Flows : At(f, "restored", "write") /\ call[f].id = r
      ]_vars

\* A column of a stored row only takes a value that was filled in on some
\* instance that stands for the row: a save of a stale instance brings back
\* no other column.
SavesTouchOnlyEdits ==
    [][\A r \in DOMAIN table \cap DOMAIN table', c \in Fields :
          table'[r][c] # table[r][c] =>
              \E f \in Flows :
                  /\ At(f, "saved", "write") /\ call[f].id = r
                  /\ c \in edited[call[f].on]
      ]_vars

============================================================================
