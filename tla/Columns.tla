------------------------------ MODULE Columns ------------------------------
(***************************************************************************)
(* schema.ts and introspect.ts: a struct field becomes a column of each    *)
(* engine, and a MySQL column becomes a struct field again, which cli.ts   *)
(* renders into the struct file.  A column is a base type with a width (0  *)
(* for none); a length of 0 and a default of Undefined are absent ones.    *)
(* `id` says that the column's name contains "id".                         *)
(***************************************************************************)
EXTENDS Values

Dialects == {"mysql", "postgres", "sqlite", "mssql"}
Types    == {"number", "string", "uuid", "date", "datetime", "boolean", "enum", "decimal", "bigint"}
AutoKey  == Text("auto_increment")
Now      == Text("current_timestamp")

IsField(f) ==
    /\ f.type \in Types /\ f.length \in Nat /\ f.required \in BOOLEAN /\ f.id \in BOOLEAN
    /\ IsJsValue(f.default) /\ f.default.js \in {"string", "undefined"}
    /\ f.enum \subseteq STRING

\* What a struct folds into; auto_increment is the primary key.
structColumns(f) ==
    [type |-> f.type, length |-> f.length, required |-> f.required, enum |-> f.enum, id |-> f.id,
     auto |-> f.default = AutoKey, default |-> IF f.default = AutoKey THEN Undefined ELSE f.default]

\* The types every engine but SQLite has a word of its own for; SQLite has
\* INTEGER, TEXT and DATE.
TypeNames ==
    [mysql    |-> [number |-> "int", boolean |-> "tinyint", date |-> "date", decimal |-> "decimal",
                   bigint |-> "bigint", datetime |-> "datetime", uuid |-> "char", enum |-> "enum"],
     postgres |-> [number |-> "integer", boolean |-> "boolean", date |-> "date", decimal |-> "numeric",
                   bigint |-> "bigint", datetime |-> "timestamp", uuid |-> "uuid", enum |-> "text"],
     mssql    |-> [number |-> "int", boolean |-> "bit", date |-> "date", decimal |-> "decimal",
                   bigint |-> "bigint", datetime |-> "datetime2", uuid |-> "uniqueidentifier",
                   enum |-> "varchar"]]

\* The base type and its width.
typeSql(d, c) ==
    CASE c.auto /\ d = "postgres" -> <<"serial", 0>>
      [] c.auto /\ d = "sqlite"   -> <<"integer", 0>>
      [] c.auto /\ d \in {"mysql", "mssql"} -> <<"int", 0>>
      [] ~ c.auto /\ d = "sqlite" ->
            <<CASE c.type \in {"number", "boolean"} -> "integer" [] c.type = "date" -> "date"
                [] OTHER -> "text", 0>>
      [] ~ c.auto /\ d # "sqlite" /\ c.type = "string" ->
            IF c.length = 0 THEN <<"text", 0>> ELSE <<"varchar", c.length>>
      [] OTHER ->
            <<TypeNames[d][c.type],
              CASE <<d, c.type>> = <<"mysql", "boolean">> -> 1
                [] <<d, c.type>> = <<"mysql", "uuid">>    -> 36
                [] <<d, c.type>> = <<"mysql", "decimal">> -> 65
                [] <<d, c.type>> = <<"mssql", "decimal">> -> 38
                [] <<d, c.type>> = <<"mssql", "enum">>    -> 255
                [] OTHER -> 0>>

defaultSql(c) == IF c.auto THEN Undefined ELSE c.default

\* One column of CREATE TABLE: a primary key is never NULL and has no
\* default of its own.
columnSql(d, c) ==
    [base |-> typeSql(d, c)[1], width |-> typeSql(d, c)[2],
     enum |-> IF d = "mysql" /\ c.type = "enum" THEN c.enum ELSE {},
     notNull |-> c.auto \/ c.required, auto |-> c.auto, default |-> defaultSql(c), id |-> c.id]

buildCreateTable(d, f) == columnSql(d, structColumns(f))

-----------------------------------------------------------------------------
(* SHOW COLUMNS and back. *)

\* MySQL: what SHOW COLUMNS says of a column.
ShowColumn(col) ==
    [id |-> col.id, base |-> col.base, width |-> col.width, enum |-> col.enum,
     nullable |-> ~ col.notNull, default |-> IF col.default = Undefined THEN Null ELSE col.default,
     extra |-> IF col.auto THEN "auto_increment" ELSE ""]

TYPE_MAP == [int |-> "number", bigint |-> "number", varchar |-> "string", char |-> "string",
             text |-> "string", date |-> "date", datetime |-> "datetime", timestamp |-> "datetime",
             enum |-> "enum", json |-> "string"]

resolveDefault(s) ==
    CASE s.extra = "auto_increment" -> AutoKey
      [] s.extra = "" /\ s.default = Null -> IF s.nullable THEN Undefined ELSE Text("empty")
      [] OTHER -> s.default

\* Column types are read in lower case, the enum's values with them.
LowerCase(o) == IF o = "Red" THEN "red" ELSE o

FieldType(s) ==
    IF s.base = "tinyint" THEN IF s.width = 1 THEN "boolean" ELSE "number"
    ELSE IF s.base \in {"char", "varchar"} /\ s.width = 36 /\ s.id THEN "uuid"
    ELSE IF s.base \in DOMAIN TYPE_MAP THEN TYPE_MAP[s.base] ELSE "string"

\* Mutant: a stamp is as long as a date.
ShortStamps(s) == IF FieldType(s) \in {"date", "datetime"} THEN 10 ELSE s.width

FieldLength(s) ==
    CASE FieldType(s) = "enum"     -> 0
      [] FieldType(s) = "date"     -> 10
      [] FieldType(s) = "datetime" -> 19
      [] OTHER                     -> s.width

mapColumnToField(s) ==
    [type |-> FieldType(s), required |-> ~ s.nullable, length |-> FieldLength(s),
     default |-> resolveDefault(s),
     enum |-> IF FieldType(s) = "enum" THEN {LowerCase(o) : o \in s.enum} ELSE {}, id |-> s.id]

\* The struct file leaves out an empty default, and the width of a number.
renderField(f) ==
    [f EXCEPT !.default = IF f.default = Text("empty") THEN Undefined ELSE f.default,
              !.length  = IF f.type \in {"number", "boolean"} THEN 0 ELSE f.length]
=============================================================================
