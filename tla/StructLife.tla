----------------------------- MODULE StructLife -----------------------------
(***************************************************************************)
(* The life of one column of one table: a struct declares it, a migration  *)
(* creates it, a model instance fills, saves and loads a value through the *)
(* casts and the validation, and on MySQL `ts-orm model` and `ts-orm       *)
(* struct` write the struct back from the live table, after which the      *)
(* program is built with the generated struct.                             *)
(*                                                                         *)
(* row is the row as the engine's client reads it back.                    *)
(*                                                                         *)
(* The process runs in UTC.  connection.ts and postgres.ts set no time     *)
(* zone, so elsewhere the clients read dates and stamps in the zone of the *)
(* process; such processes are outside this model.                         *)
(***************************************************************************)
EXTENDS Columns

CONSTANTS
    Settings    \* the uses considered: the engine, the declared field, the
                \* cast, and the values the application fills in

VARIABLES
    setting,    \* the use
    column,     \* the live column
    field,      \* the field the program validates with
    row,        \* the value in the row
    meant,      \* the value the last accepted save was given (history)
    model,      \* the instance: bound to the row, attribute, original
    reply,      \* what the last save or load came to
    files,      \* the generated struct, and the model file
    cli         \* the last command: --force, driver made, driver closed, exit

vars == <<setting, column, field, row, meant, model, reply, files, cli>>

\* What a program that TypeScript accepts fills into a column of text or of
\* numbers: no other kinds as text, and no number beyond 2^53 (docs/models.md:150)
\* where an engine's client reads numbers.
Suits(s, v) ==
    /\ IsJsValue(v) /\ v # Undefined
    /\ s.cast = "none" /\ s.field.type \in {"string", "uuid", "enum"} =>
          v.js \in Strings \cup {"number", "null"}
    /\ s.field.type = "number" \/ (s.dialect = "mssql" /\ s.field.type = "decimal") =>
          v.of \notin {"big", "bigger", "rounded"}

ASSUME SettingsAssumption ==
    \A s \in Settings :
        /\ s.dialect \in Dialects /\ s.cast \in CastTypes /\ IsField(s.field)
        /\ \A v \in s.inputs \cup ({s.field.default} \ {Undefined}) : Suits(s, v)

\* A cast on a column whose values it reads (docs/models.md:124-131), an
\* automatic key of numbers, which every engine makes an integer, and a default
\* that the cast reads.
CastColumns == [none |-> Types, boolean |-> {"number", "boolean"}, integer |-> {"number"},
                datetime |-> {"string", "datetime"}, json |-> {"string"}]
Fits(s) == s.field.type \in CastColumns[s.cast]
NumericKey(f) == f.default = AutoKey => f.type = "number"
ReadableDefault(s) ==
    s.field.default \notin {AutoKey, Undefined} =>
        outValue(s.cast, IF s.field.default = Now THEN Text("moment") ELSE s.field.default) # CastError
Sound(s) == Fits(s) /\ NumericKey(s.field) /\ ReadableDefault(s)

\* The options of an enum are words: numerals and stamps compare by what they say.
WordOptions(f) == f.enum \cap (DOMAIN NumberOfText \cup DOMAIN DateOfStamp) = {}

\* `ts-orm model` makes the key a required number, and a uuid of a column of
\* 36 characters with "id" in its name.
Regenerable(f) ==
    /\ f.default = AutoKey => f.type = "number" /\ f.required
    /\ f.type = "string" => ~ (f.id /\ f.length = 36)

NoColumn  == [base |-> "none"]
NoField   == [type |-> "none"]
NoRow     == V("none", "none")
Refused   == V("refused", "refused")
Foreign   == V("foreign", "foreign")    \* meant, of a row another program wrote
NoCommand == [force |-> FALSE, made |-> FALSE, closed |-> FALSE, exit |-> 0]
Fresh     == [bound |-> FALSE, attr |-> Undefined, orig |-> Undefined]

Init ==
    /\ setting \in Settings
    /\ column = NoColumn
    /\ field = setting.field
    /\ row = NoRow /\ meant = Undefined
    /\ model = Fresh
    /\ reply = "none"
    /\ files = [struct |-> NoField, model |-> "absent"]
    /\ cli = NoCommand

IsAuto == setting.field.default = AutoKey
out(v) == outValue(setting.cast, v)
in(v)  == inValue(setting.cast, v)

-----------------------------------------------------------------------------
(* The engine and its client. *)

\* What a client reads a column as.
Shape ==
    LET d == setting.dialect
    IN  CASE column.base \in {"int", "integer", "tinyint", "serial"} -> "number"
          [] column.base = "date" /\ d = "sqlite" -> "number"    \* by its affinity
          [] column.base \in {"boolean", "bit"} -> "boolean"
          [] column.base \in {"date", "datetime", "timestamp", "datetime2"} /\ d # "sqlite" -> "Date"
          [] column.base \in {"decimal", "numeric", "bigint"} ->
                IF d = "mssql" /\ column.base = "decimal" THEN "number" ELSE "digits"
          [] OTHER -> "text"

\* What an engine makes of a bound value, as it is read back: SQLite binds a
\* number as a REAL and converts only what looks like a number, the others
\* convert what fits the column.
RealText == [zero |-> "zero_0", one |-> "one_0", two |-> "two_0", half |-> "half", whole |-> "whole",
             epoch |-> "epoch", rounded |-> "rounded"]

SqliteKeeps(v) ==
    IF v.js \in {"boolean", "Date", "object"} THEN Refused
    ELSE IF v = Number("NaN") THEN IF column.notNull THEN Refused ELSE Null
    ELSE IF Shape = "number" /\ NumberOf(v).of # "NaN" /\ v # Text("empty") THEN NumberOf(v)
    ELSE IF Shape # "number" /\ v.js = "number" THEN Text(RealText[v.of])
    ELSE v

\* An INT has 32 bits, and of '2.0' and 2.5 only MySQL makes what it can.
IntKeeps(v, n) ==
    IF \/ n.of \in {"NaN", "epoch", "rounded"}
       \/ /\ v.of \in {"half", "zero_0", "one_0", "two_0"}
          /\ setting.dialect = "postgres" \/ (setting.dialect = "mssql" /\ v.js = "string")
    THEN Refused
    ELSE IF n.of = "half" THEN Number("whole") ELSE n

ServerKeeps(v) ==
    LET n == IF v = Text("empty") \/ v.js = "Date" THEN Number("NaN") ELSE NumberOf(v)
    IN  CASE Shape = "number"  -> IF column.base # "decimal" THEN IntKeeps(v, n)
                                  ELSE IF n.of = "NaN" THEN Refused ELSE n
          [] Shape = "boolean" -> IF v = Text("empty") \/ toBool(v) = Undefined THEN Refused ELSE toBool(v)
          [] Shape = "Date"    -> IF v = Text("feb30") \/ outDate(v) = CastError THEN Refused ELSE outDate(v)
          [] Shape = "digits"  -> IF n.of = "NaN" THEN Refused ELSE Text(IF v.js = "string" THEN v.of ELSE n.of)
          [] OTHER -> IF v.js \in Strings \cup {"number"} /\ (column.base = "enum" => v.of \in column.enum)
                      THEN IF v.js = "number" THEN Text(v.of) ELSE v
                      ELSE Refused

Keeps(v) ==
    IF v = Null THEN IF column.notNull THEN Refused ELSE Null
    ELSE IF setting.dialect = "sqlite" THEN SqliteKeeps(v) ELSE ServerKeeps(v)

\* The value of a column that an INSERT leaves out.
Default ==
    CASE column.auto -> Number("one")
      [] column.default = Now -> Keeps(Text("moment"))
      [] ~ column.auto /\ column.default = Undefined -> Keeps(Null)
      [] OTHER -> Keeps(column.default)

-----------------------------------------------------------------------------
(* The model. *)

createTable ==
    /\ column = NoColumn
    /\ column' = buildCreateTable(setting.dialect, setting.field)
    /\ UNCHANGED <<setting, field, row, meant, model, reply, files>>

\* An instance that knows its row, or one not saved yet.
Usable == column # NoColumn /\ (row # NoRow <=> model.bound)

\* fill() on a column that is not the key.
fill(v) ==
    /\ Usable /\ ~ IsAuto
    /\ v # model.attr
    /\ model' = [model EXCEPT !.attr = v]
    /\ UNCHANGED <<setting, column, field, row, meant, reply, files>>

Answers(r) ==
    /\ reply' = r
    /\ UNCHANGED <<setting, column, field, files>>

\* save() or create() throws before the statement: castIn, or validation.
Violates(how) == in(model.attr) = CastError \/ validatePayload(field, in(model.attr), how) # {}

SaveRefused ==
    /\ Usable
    /\ model.bound => ~ valuesEqual(model.attr, model.orig)
    /\ Violates(IF model.bound THEN "update" ELSE "insert")
    /\ Answers("refused")
    /\ UNCHANGED <<row, meant, model>>

\* The engine's answer to the statement: the row is as the engine keeps it.
Wrote(kept, attr) ==
    IF kept = Refused
    THEN Answers("refused") /\ UNCHANGED <<row, meant, model>>
    ELSE /\ row' = kept
         /\ meant' = model.attr
         /\ IF attr = CastError
            THEN Answers("late") /\ UNCHANGED model
            ELSE Answers("saved") /\ model' = [bound |-> TRUE, attr |-> attr, orig |-> attr]

\* The instance takes what was stored, cast back; the key is the engine's.
Insert ==
    /\ Usable /\ ~ model.bound /\ ~ Violates("insert")
    /\ LET stored == in(model.attr)
       IN  IF stored = Undefined
           THEN Wrote(Default, IF IsAuto THEN out(Default) ELSE Undefined)
           ELSE Wrote(Keeps(stored), out(stored))

\* Only a dirty column is written, and the instance keeps what it was given.
Update ==
    /\ Usable /\ model.bound /\ ~ valuesEqual(model.attr, model.orig)
    /\ ~ Violates("update")
    /\ Wrote(Keeps(in(model.attr)), model.attr)

\* save() of a clean instance sends nothing.
SaveClean ==
    /\ Usable /\ model.bound /\ valuesEqual(model.attr, model.orig)
    /\ Answers("clean")
    /\ UNCHANGED <<row, meant, model>>

\* find(): a new instance from the row.
load ==
    /\ row # NoRow
    /\ IF out(row) = CastError
       THEN Answers("unreadable") /\ UNCHANGED model
       ELSE Answers("loaded") /\ model' = [bound |-> TRUE, attr |-> out(row), orig |-> out(row)]
    /\ UNCHANGED <<row, meant>>

\* Another program writes the row, with no struct to hold it to.
ForeignWrite(v) ==
    /\ column # NoColumn /\ ~ IsAuto
    /\ Keeps(v) # Refused
    /\ row' = Keeps(v) /\ meant' = Foreign
    /\ UNCHANGED <<setting, column, field, model, reply, files>>

Model ==
    /\ \/ createTable \/ SaveRefused \/ Insert \/ Update \/ SaveClean \/ load
       \/ \E v \in setting.inputs : fill(v) \/ ForeignWrite(v)
    /\ cli' = NoCommand

-----------------------------------------------------------------------------
(* The command line. *)

Steps == {"none", "class name", "driver", "query", "struct file", "model file", "close"}

\* How a command ends that fails at the given step: runCli() answers 1 to
\* what modelCommand() throws, and itself throws what structCommand() does.
Exit(failing, throws) ==
    IF failing = "none" THEN 0 ELSE IF failing \in throws THEN 2 ELSE 1

\* finally: whatever fails once there is a driver.
Closes(failing) == failing \notin {"class name", "driver"}

WritesModel(force) == force \/ files.model = "absent"

\* Mutant: the files are written before the table is read.
WritesFirst(failing) == failing \notin {"class name", "driver"}

\* Everything before the model file went well.
ReachesModel(failing) == failing \notin {"class name", "driver", "query", "struct file"}

\* Commands are run while the program is not: it keeps nothing in memory.
Idle == setting.dialect = "mysql" /\ column # NoColumn /\ model = Fresh

\* `ts-orm model <table> [--force]`
modelCommand(force, failing) ==
    /\ Idle
    /\ failing = "model file" => WritesModel(force)
    /\ cli' = [force |-> force, made |-> failing \notin {"class name", "driver"},
               closed |-> Closes(failing), exit |-> Exit(failing, {})]
    /\ files' =
         [struct |-> IF failing \in {"class name", "driver", "query", "struct file"} THEN files.struct
                     ELSE renderField(mapColumnToField(ShowColumn(column))),
          model  |-> IF ReachesModel(failing) /\ failing # "model file" /\ WritesModel(force)
                     THEN "generated" ELSE files.model]
    /\ UNCHANGED <<setting, column, field, row, meant, model, reply>>

\* `ts-orm struct <table>` writes a JSON file nothing else here reads.
structCommand(failing) ==
    /\ Idle
    /\ failing \notin {"class name", "model file"}
    /\ cli' = [force |-> FALSE, made |-> failing # "driver",
               closed |-> Closes(failing), exit |-> Exit(failing, {"driver", "close"})]
    /\ UNCHANGED <<setting, column, field, row, meant, model, reply, files>>

\* The developer edits the model file.
EditModelFile ==
    /\ files.model = "generated"
    /\ files' = [files EXCEPT !.model = "edited"]
    /\ UNCHANGED <<setting, column, field, row, meant, model, reply, cli>>

\* The program ends, and is built again, with the struct it had or with the
\* generated one.
Restart ==
    /\ field' \in {field} \cup ({files.struct} \ {NoField})
    /\ model' = Fresh
    /\ reply' = "none"
    /\ UNCHANGED <<setting, column, row, meant, files, cli>>

CommandLine ==
    \/ \E failing \in Steps : structCommand(failing) \/ \E force \in BOOLEAN : modelCommand(force, failing)
    \/ EditModelFile
    \/ Restart

Next == Model \/ CommandLine
Spec == Init /\ [][Next]_vars

-----------------------------------------------------------------------------
(* What a value means to the application: the reference that casts, columns *)
(* and comparisons are held against, by the cast or else the type.          *)

Nothing == "nothing"
Digits  == {"zero", "one", "two", "big", "bigger", "half"}
Pointed == [zero_0 |-> "zero", one_0 |-> "one", two_0 |-> "two"]

Means(v) ==
    LET kind == IF setting.cast = "none" THEN setting.field.type ELSE setting.cast
    IN  CASE kind = "boolean" ->
               IF v \in {Bool("true"), Number("one"), Text("one")} THEN "true"
               ELSE IF v \in {Bool("false"), Number("zero"), Text("zero")} THEN "false" ELSE Nothing
          [] kind \in {"integer", "number", "decimal", "bigint"} ->
               IF v.js = "string" /\ v.of \in DOMAIN Pointed THEN Pointed[v.of]
               ELSE IF v.js \in {"number", "string"} /\ v.of \in Digits
                       /\ (v.of = "half" => kind = "decimal")
                       /\ (v.of \in {"big", "bigger"} => kind \in {"decimal", "bigint"})
               THEN v.of ELSE Nothing
          [] kind = "datetime" ->
               IF v \in {Date("moment"), Date("instant"), Text("moment"), Text("instant")} THEN "moment"
               ELSE IF v \in {Date("midnight"), Text("midnight"), Text("day")} THEN "midnight" ELSE Nothing
          [] kind = "date" -> IF v \in {Text("day"), Date("midnight")} THEN "day" ELSE Nothing
          [] kind = "json" ->
               IF v \in {Quoted("red"), Text("red")} THEN "red"
               ELSE IF v \in {Object, Text("object")} THEN "object"
               ELSE IF v.of \in {"true", "false", "two", "half"} THEN v.of ELSE Nothing
          [] kind = "uuid" -> IF v = Text("uuid") THEN "uuid" ELSE Nothing
          [] OTHER -> IF v.js = "string" /\ (kind = "enum" => v.of \in setting.field.enum)
                      THEN v.of ELSE Nothing

Reads(v) == v \notin {NoRow, Undefined, Null}

-----------------------------------------------------------------------------
(* Properties. *)

\* What save() accepts can be read: neither the cast back that follows the
\* INSERT throws, when the row is there and its after-hooks are not told, nor
\* any later load (model.ts:257-267, casts.ts).  Rows of other programs may
\* be unreadable.
AcceptedIsReadable == reply \notin {"late", "unreadable"} \/ (reply = "unreadable" /\ meant = Foreign)

\* A row inserted without the column holds the declared default (schema.ts:148-163).
DefaultHolds ==
    LET default == IF setting.field.default = Now THEN Text("moment") ELSE setting.field.default
    IN  row # NoRow /\ meant = Undefined /\ default \notin {AutoKey, Undefined} /\ Means(default) # Nothing =>
            Means(out(row)) = Means(default)

\* A value keeps its meaning through castIn, the validation, the column of
\* each engine, its client and castOut, and so does a default; and what an
\* instance takes for the row's value means what the row says (casts.ts, schema.ts).
MeaningKept ==
    /\ DefaultHolds
    /\ Reads(row) /\ Reads(meant) /\ Means(meant) # Nothing => Means(out(row)) = Means(meant)
    /\ model.bound /\ Reads(row) /\ meant # Foreign /\ Means(model.orig) # Nothing => Means(model.orig) = Means(out(row))

\* An edit that means something else than the row's value is dirty, so that
\* save() writes it.  Strings and exact numerals are left out: valuesEqual
\* takes '0' for '' and compares digits as JavaScript numbers (README).
EditsAreSeen ==
    /\ model.bound /\ {Means(model.attr), Means(model.orig)} \cap {Nothing} = {}
    /\ setting.cast # "none" \/ {setting.field.type, field.type} \cap {"string", "decimal", "bigint"} = {}
    /\ Means(model.attr) # Means(model.orig)
    => ~ valuesEqual(model.attr, model.orig)

\* A row that passes the strict check of validateRow could be written through
\* the struct, but for its length (validation.ts:187-221 against 82-181).
CheckedRowsAreAccepted ==
    row # NoRow /\ validateRow(field, row) = {} => validatePayload(field, row, "update") \subseteq {"length"}

\* A struct generated from the table the declared one created accepts what
\* that one accepts: no width, type or nullability is lost on the way through
\* SHOW COLUMNS.  Enum values must be in lower case (introspect.ts:130-160).
RegeneratedAccepts ==
    files.struct # NoField /\ "Red" \notin setting.field.enum =>
        \A v \in setting.inputs \cup {Undefined, Null}, how \in {"insert", "update"} :
            in(v) # CastError /\ validatePayload(setting.field, in(v), how) = {}
                => validatePayload(files.struct, in(v), how) = {}

\* Whatever step of a command fails, there is no model file without the struct
\* file it imports (cli.ts:184-193), and a driver that was made has been told to
\* close (cli.ts:196-198, 212-214).
CommandsEndCleanly ==
    /\ files.model # "absent" => files.struct # NoField
    /\ cli.made => cli.closed
=============================================================================
