---------------------------- MODULE StructProofs ----------------------------
(***************************************************************************)
(* StructLife, for every use: any field of any engine, any cast, any       *)
(* inputs.                                                                 *)
(*                                                                         *)
(* Commands and generated structs: StructInv says that the struct file is  *)
(* what SHOW COLUMNS makes of the declared field, which is then compared   *)
(* with the declared one, complaint by complaint.                          *)
(*                                                                         *)
(* Edits: ValuesInv says that rows and instances hold JavaScript values,   *)
(* and EqualMeansAlike that those which valuesEqual takes for the same     *)
(* mean the same.                                                          *)
(*                                                                         *)
(* Saves: by type and by cast, what each engine's column keeps of a value  *)
(* means what the value did (the lemmas ...AreKept, StoredSurvives,        *)
(* CastKeepsMeaning, DefaultSurvives).  SavedValue and DefaultedValue put  *)
(* them together for one save, and LifeInv carries that along, with what a *)
(* later save needs: an instance never loses a value it had, and holds     *)
(* none too long for its column.                                           *)
(***************************************************************************)
EXTENDS StructLife, TLAPS

-----------------------------------------------------------------------------
(* Commands. *)

LEMMA FieldTypeIsAType == ASSUME NEW s PROVE FieldType(s) \in Types
<1>1. CASE s.base = "tinyint"
  BY <1>1 DEF FieldType, Types
<1>2. CASE s.base # "tinyint" /\ s.base \in {"char", "varchar"} /\ s.width = 36 /\ s.id
  BY <1>2 DEF FieldType, Types
<1>3. CASE s.base # "tinyint" /\ ~ (s.base \in {"char", "varchar"} /\ s.width = 36 /\ s.id)
  <2>1. CASE s.base \in DOMAIN TYPE_MAP
    BY <1>3, <2>1 DEF FieldType, Types, TYPE_MAP
  <2>2. CASE s.base \notin DOMAIN TYPE_MAP
    BY <1>3, <2>2 DEF FieldType, Types
  <2> QED BY <2>1, <2>2
<1> QED BY <1>1, <1>2, <1>3

\* The struct file is the rendered field of a column.
Generated(col) == renderField(mapColumnToField(ShowColumn(col)))

LEMMA GeneratedIsAField == ASSUME NEW col PROVE Generated(col) # NoField
<1>1. mapColumnToField(ShowColumn(col)).type \in Types
  BY FieldTypeIsAType DEF mapColumnToField
<1>2. Generated(col).type = mapColumnToField(ShowColumn(col)).type
  BY DEF Generated, renderField, mapColumnToField
<1> QED BY <1>1, <1>2 DEF NoField, Types

LEMMA ModelLeavesFiles == ASSUME Model PROVE files' = files /\ cli' = NoCommand
<1>1. files' = files
  BY DEF Model, createTable, SaveRefused, Insert, Update, SaveClean, load, fill, ForeignWrite, Answers, Wrote
<1> QED BY <1>1 DEF Model

\* Whatever step of whatever sequence of commands fails, no model file is left
\* without the struct file that it imports, and a driver is closed.
THEOREM CommandsEndCleanlyHolds == Spec => []CommandsEndCleanly
<1>1. Init => CommandsEndCleanly
  BY DEF Init, CommandsEndCleanly, NoCommand
<1>2. CommandsEndCleanly /\ [Next]_vars => CommandsEndCleanly'
  <2> SUFFICES ASSUME CommandsEndCleanly, [Next]_vars PROVE CommandsEndCleanly'
    OBVIOUS
  <2>1. CASE Model
    BY <2>1, ModelLeavesFiles DEF CommandsEndCleanly, NoCommand
  <2>2. ASSUME NEW force \in BOOLEAN, NEW failing \in Steps, modelCommand(force, failing)
        PROVE  CommandsEndCleanly'
    <3>1. cli'.made => cli'.closed
      BY <2>2 DEF modelCommand, Closes
    <3>2. CASE failing \in {"class name", "driver", "query", "struct file"}
      BY <2>2, <3>1, <3>2 DEF modelCommand, ReachesModel, CommandsEndCleanly
    <3>3. CASE failing \notin {"class name", "driver", "query", "struct file"}
      BY <2>2, <3>1, <3>3, GeneratedIsAField DEF modelCommand, Generated, CommandsEndCleanly
    <3> QED BY <3>2, <3>3
  <2>3. ASSUME NEW failing \in Steps, structCommand(failing) PROVE CommandsEndCleanly'
    BY <2>3 DEF structCommand, Closes, CommandsEndCleanly
  <2>4. CASE EditModelFile
    BY <2>4 DEF EditModelFile, CommandsEndCleanly
  <2>5. CASE Restart
    BY <2>5 DEF Restart, CommandsEndCleanly
  <2>6. CASE UNCHANGED vars
    BY <2>6 DEF vars, CommandsEndCleanly
  <2> QED BY <2>1, <2>2, <2>3, <2>4, <2>5, <2>6 DEF Next, CommandLine
<1> QED BY <1>1, <1>2, PTL DEF Spec

-----------------------------------------------------------------------------
(* Two validations. *)

\* The strict check complains of whatever the check before a write does, but
\* for the length.
LEMMA StrictCheckIsStricter ==
    ASSUME NEW f, NEW v, validateRow(f, v) = {}
    PROVE  validatePayload(f, v, "update") \subseteq {"length"}
<1>1. CASE v \in {Null, Undefined}
  BY <1>1 DEF validateRow, validatePayload
<1>2. CASE v \notin {Null, Undefined}
  <2>1. validatePayload(f, v, "update") = Unfit(f, v)
    BY <1>2 DEF validatePayload
  <2> SUFFICES ASSUME NEW c \in Unfit(f, v), c # "length" PROVE FALSE
    BY <2>1
  <2>2. c \in {f.type, "enum"}
    BY DEF Unfit
  <2>3. c \notin validateRow(f, v)
    OBVIOUS
  <2>4. CASE c = "number"
    BY <1>2, <2>2, <2>3, <2>4 DEF Unfit, validateRow, NumberOf, Number, V
  <2>5. CASE c \in {"decimal", "bigint", "uuid", "date"}
    BY <1>2, <2>2, <2>3, <2>5 DEF validateRow
  <2>6. CASE c = "datetime"
    BY <1>2, <2>2, <2>3, <2>6 DEF Unfit, validateRow
  <2>7. CASE c = "boolean"
    BY <1>2, <2>2, <2>3, <2>7 DEF Unfit, validateRow, isValidBoolean
  <2>8. CASE c = "enum"
    BY <1>2, <2>2, <2>3, <2>8 DEF Unfit, validateRow
  <2> QED BY <2>2, <2>4, <2>5, <2>6, <2>7, <2>8 DEF Unfit
<1> QED BY <1>1, <1>2

\* A row that passes the strict check can be written through the struct, but
\* for its length: whatever the field, and whoever wrote the row.
THEOREM CheckedRowsAreAcceptedHolds == Spec => []CheckedRowsAreAccepted
<1>1. CheckedRowsAreAccepted
  BY StrictCheckIsStricter DEF CheckedRowsAreAccepted
<1> QED BY <1>1, PTL

-----------------------------------------------------------------------------
(* The generated struct. *)

\* The struct file is what MySQL's SHOW COLUMNS says of the column the
\* declared field became.
StructInv ==
    /\ setting \in Settings
    /\ column \in {NoColumn, buildCreateTable(setting.dialect, setting.field)}
    /\ files.struct = NoField \/ files.struct = Generated(buildCreateTable("mysql", setting.field))

LEMMA StructInvInit == Init => StructInv
BY DEF Init, StructInv

LEMMA StructInvNext == StructInv /\ [Next]_vars => StructInv'
<1> SUFFICES ASSUME StructInv, [Next]_vars PROVE StructInv'
  OBVIOUS
<1>1. setting' = setting
  BY DEF Next, Model, CommandLine, createTable, SaveRefused, Insert, Update, SaveClean, load, fill,
         ForeignWrite, Answers, Wrote, modelCommand, structCommand, EditModelFile, Restart, vars
<1>2. column' = column \/ column' = buildCreateTable(setting.dialect, setting.field)
  BY DEF Next, Model, CommandLine, createTable, SaveRefused, Insert, Update, SaveClean, load, fill,
         ForeignWrite, Answers, Wrote, modelCommand, structCommand, EditModelFile, Restart, vars
<1>3. files'.struct = files.struct \/ files'.struct = Generated(buildCreateTable("mysql", setting.field))
  <2>1. CASE Model
    BY <2>1, ModelLeavesFiles
  <2>2. ASSUME NEW force \in BOOLEAN, NEW failing \in Steps, modelCommand(force, failing)
        PROVE  files'.struct = files.struct \/ files'.struct = Generated(buildCreateTable("mysql", setting.field))
    <3>1. column = buildCreateTable("mysql", setting.field)
      BY <2>2 DEF modelCommand, Idle, StructInv
    <3>2. files'.struct \in {files.struct, Generated(column)}
      BY <2>2 DEF modelCommand, Generated
    <3> QED BY <3>1, <3>2
  <2>3. ASSUME NEW failing \in Steps, structCommand(failing) PROVE files' = files
    BY <2>3 DEF structCommand
  <2>4. CASE EditModelFile
    BY <2>4 DEF EditModelFile
  <2>5. CASE Restart \/ UNCHANGED vars
    BY <2>5 DEF Restart, vars
  <2> QED BY <2>1, <2>2, <2>3, <2>4, <2>5 DEF Next, CommandLine
<1> QED BY <1>1, <1>2, <1>3 DEF StructInv

\* The generated field, type by type.
LEMMA GeneratedField ==
    ASSUME NEW f, IsField(f), Regenerable(f), NEW g, g = Generated(buildCreateTable("mysql", f))
    PROVE  /\ f.type = "number" => g.type = "number" /\ g.length = 0
           /\ f.type = "bigint" => g.type = "number" /\ g.length = 0
           /\ f.type = "boolean" => g.type = "boolean" /\ g.length = 0
           /\ f.type = "string" => g.type = "string" /\ g.length = f.length
           /\ f.type = "decimal" => g.type = "string" /\ g.length = 65
           /\ f.type = "uuid" => g.type \in {"uuid", "string"} /\ g.length = 36
           /\ f.type = "date" => g.type = "date" /\ g.length = 10
           /\ f.type = "datetime" => g.type = "datetime" /\ g.length = 19
           /\ f.type = "enum" => g.type = "enum" /\ g.length = 0
<1> DEFINE c == buildCreateTable("mysql", f)
           s == ShowColumn(c)
<1>1. f.type \in Types /\ f.length \in Nat /\ f.id \in BOOLEAN
  BY DEF IsField
<1>8. f.default = AutoKey => f.type = "number"
  BY DEF Regenerable
<1>2. /\ f.default = AutoKey => s.base = "int" /\ s.width = 0
      /\ f.default # AutoKey /\ f.type = "string" =>
            (s.base = "text" /\ s.width = 0 /\ f.length = 0) \/ (s.base = "varchar" /\ s.width = f.length)
      /\ f.default # AutoKey /\ f.type = "number" => s.base = "int" /\ s.width = 0
      /\ f.default # AutoKey /\ f.type = "bigint" => s.base = "bigint" /\ s.width = 0
      /\ f.default # AutoKey /\ f.type = "boolean" => s.base = "tinyint" /\ s.width = 1
      /\ f.default # AutoKey /\ f.type = "decimal" => s.base = "decimal" /\ s.width = 65
      /\ f.default # AutoKey /\ f.type = "uuid" => s.base = "char" /\ s.width = 36
      /\ f.default # AutoKey /\ f.type = "date" => s.base = "date" /\ s.width = 0
      /\ f.default # AutoKey /\ f.type = "datetime" => s.base = "datetime" /\ s.width = 0
      /\ f.default # AutoKey /\ f.type = "enum" => s.base = "enum" /\ s.width = 0
  <2> DEFINE k == structColumns(f)
  <2>1. /\ s.base = typeSql("mysql", k)[1] /\ s.width = typeSql("mysql", k)[2]
    BY DEF ShowColumn, buildCreateTable, columnSql
  <2>0. k.type = f.type /\ k.length = f.length /\ k.auto = (f.default = AutoKey)
    BY DEF structColumns
  <2> HIDE DEF k, s, c
  <2>2. CASE k.auto
    BY <2>0, <2>1, <2>2, <1>8 DEF typeSql
  <2>3. CASE ~ k.auto /\ k.type = "string"
    BY <2>0, <2>1, <2>3 DEF typeSql
  <2>4. CASE ~ k.auto /\ k.type # "string"
    <3>1. typeSql("mysql", k) =
            <<TypeNames["mysql"][k.type],
              CASE k.type = "boolean" -> 1 [] k.type = "uuid" -> 36 [] k.type = "decimal" -> 65 [] OTHER -> 0>>
      <4>1. CASE k.type = "boolean"
        BY <2>4, <4>1 DEF typeSql
      <4>2. CASE k.type = "uuid"
        BY <2>4, <4>2 DEF typeSql
      <4>3. CASE k.type = "decimal"
        BY <2>4, <4>3 DEF typeSql
      <4>4. CASE k.type \notin {"boolean", "uuid", "decimal"}
        BY <2>4, <4>4 DEF typeSql
      <4> QED BY <4>1, <4>2, <4>3, <4>4
    <3>2. /\ s.base = TypeNames["mysql"][f.type]
          /\ s.width = CASE f.type = "boolean" -> 1 [] f.type = "uuid" -> 36 [] f.type = "decimal" -> 65 [] OTHER -> 0
      BY <2>0, <2>1, <3>1
    <3>3. /\ TypeNames["mysql"]["number"] = "int"
          /\ TypeNames["mysql"]["bigint"] = "bigint"
          /\ TypeNames["mysql"]["boolean"] = "tinyint"
          /\ TypeNames["mysql"]["decimal"] = "decimal"
          /\ TypeNames["mysql"]["uuid"] = "char"
          /\ TypeNames["mysql"]["date"] = "date"
          /\ TypeNames["mysql"]["datetime"] = "datetime"
          /\ TypeNames["mysql"]["enum"] = "enum"
      BY DEF TypeNames
    <3> QED BY <2>0, <2>4, <3>2, <3>3
  <2> QED BY <2>2, <2>3, <2>4
<1>3. s.id = f.id
  BY DEF ShowColumn, buildCreateTable, columnSql, structColumns
<1>4. g.type = FieldType(s)
  BY DEF Generated, renderField, mapColumnToField
<1>5. g.length = IF FieldType(s) \in {"number", "boolean"} THEN 0 ELSE FieldLength(s)
  BY DEF Generated, renderField, mapColumnToField
<1> HIDE DEF c, s
<1>6. /\ s.base \in {"int", "bigint"} => FieldType(s) = "number"
      /\ s.base = "tinyint" /\ s.width = 1 => FieldType(s) = "boolean"
      /\ s.base = "text" => FieldType(s) = "string"
      /\ s.base = "varchar" => FieldType(s) = IF s.width = 36 /\ s.id THEN "uuid" ELSE "string"
      /\ s.base = "char" => FieldType(s) \in {"uuid", "string"}
      /\ s.base = "decimal" => FieldType(s) = "string"
      /\ s.base = "date" => FieldType(s) = "date"
      /\ s.base = "datetime" => FieldType(s) = "datetime"
      /\ s.base = "enum" => FieldType(s) = "enum"
  BY DEF FieldType, TYPE_MAP
<1>7. /\ FieldType(s) = "enum" => FieldLength(s) = 0
      /\ FieldType(s) = "date" => FieldLength(s) = 10
      /\ FieldType(s) = "datetime" => FieldLength(s) = 19
      /\ FieldType(s) \in {"string", "uuid"} => FieldLength(s) = s.width
  BY DEF FieldLength
<1>9. f.type = "string" => ~ (s.id /\ f.length = 36)
  BY <1>3 DEF Regenerable
<1> QED BY <1>1, <1>2, <1>4, <1>5, <1>6, <1>7, <1>8, <1>9

LEMMA GeneratedRest ==
    ASSUME NEW f, IsField(f), Regenerable(f), "Red" \notin f.enum,
           NEW g, g = Generated(buildCreateTable("mysql", f))
    PROVE  /\ g.default = AutoKey <=> f.default = AutoKey
           /\ g.required <=> f.required
           /\ g.enum = IF f.type = "enum" THEN f.enum ELSE {}
<1> DEFINE c == buildCreateTable("mysql", f)
           s == ShowColumn(c)
<1>1. c.auto <=> f.default = AutoKey
  BY DEF buildCreateTable, columnSql, structColumns
<1>2. c.notNull <=> f.required
  BY DEF buildCreateTable, columnSql, structColumns, Regenerable
<1>3. c.default = IF f.default = AutoKey THEN Undefined ELSE f.default
  BY DEF buildCreateTable, columnSql, structColumns, defaultSql
<1>4. c.enum = IF f.type = "enum" THEN f.enum ELSE {}
  BY DEF buildCreateTable, columnSql, structColumns
<1>5. s.enum = c.enum /\ s.extra = (IF c.auto THEN "auto_increment" ELSE "")
  BY DEF ShowColumn
<1>6. s.nullable <=> ~ c.notNull
  BY DEF ShowColumn
<1>7. s.default = IF c.default = Undefined THEN Null ELSE c.default
  BY DEF ShowColumn
<1>8. g.type = "enum" <=> f.type = "enum"
  BY GeneratedField DEF IsField, Types
<1>9. /\ g.type = FieldType(s)
      /\ g.enum = IF FieldType(s) = "enum" THEN {LowerCase(o) : o \in s.enum} ELSE {}
  BY DEF Generated, renderField, mapColumnToField
<1>10. g.default = IF resolveDefault(s) = Text("empty") THEN Undefined ELSE resolveDefault(s)
  BY DEF Generated, renderField, mapColumnToField
<1>11. g.required <=> ~ s.nullable
  BY DEF Generated, renderField, mapColumnToField
<1> HIDE DEF c, s
<1>12. resolveDefault(s) = AutoKey <=> f.default = AutoKey
  BY <1>1, <1>3, <1>5, <1>7 DEF resolveDefault, AutoKey, Text, Null, Undefined, V
<1>13. g.default = AutoKey <=> f.default = AutoKey
  BY <1>10, <1>12 DEF AutoKey, Text, Undefined, V
<1>14. {LowerCase(o) : o \in f.enum} = f.enum
  BY DEF LowerCase
<1> QED BY <1>2, <1>4, <1>5, <1>6, <1>8, <1>9, <1>11, <1>13, <1>14

\* How long the texts are that a type lets through.
LEMMA LengthsFit ==
    ASSUME NEW v
    PROVE  /\ isExactDecimal(v) => (v.of \in DOMAIN LengthOf => LengthOf[v.of] <= 16)
           /\ isValidUUID(v) => (v.of \in DOMAIN LengthOf => LengthOf[v.of] <= 36)
           /\ isValidDate(v) => (v.of \in DOMAIN LengthOf => LengthOf[v.of] <= 10)
           /\ v = Text("current_timestamp") \/ isValidDatetime(v) =>
                 (v.of \in DOMAIN LengthOf => LengthOf[v.of] <= 19)
<1>1. /\ LengthOf["zero"] <= 16 /\ LengthOf["one"] <= 16 /\ LengthOf["two"] <= 16 /\ LengthOf["whole"] <= 16
      /\ LengthOf["epoch"] <= 16 /\ LengthOf["rounded"] <= 16 /\ LengthOf["big"] <= 16 /\ LengthOf["bigger"] <= 16
      /\ LengthOf["zero_0"] <= 16 /\ LengthOf["one_0"] <= 16 /\ LengthOf["two_0"] <= 16 /\ LengthOf["half"] <= 16
      /\ LengthOf["uuid"] <= 36 /\ LengthOf["day"] <= 10 /\ LengthOf["moment"] <= 19 /\ LengthOf["midnight"] <= 19
      /\ LengthOf["mar1"] <= 19 /\ LengthOf["current_timestamp"] <= 19
  BY DEF LengthOf
<1>2. isExactDecimal(v) => v.of \in {"zero", "one", "two", "whole", "epoch", "rounded", "big", "bigger",
                                     "zero_0", "one_0", "two_0", "half"}
  BY DEF isExactDecimal, isExactInteger, Text, V
<1>3. /\ isValidUUID(v) => v.of = "uuid"
      /\ isValidDate(v) => v.of = "day"
      /\ v = Text("current_timestamp") \/ isValidDatetime(v) =>
            v.of \in {"moment", "midnight", "mar1", "current_timestamp"}
  BY DEF isValidUUID, isValidDate, isValidDatetime, Text, V
<1> QED BY <1>1, <1>2, <1>3

\* The exact integers are numbers of JavaScript's too.
LEMMA ExactIntegersAreNumbers == ASSUME NEW v, isExactInteger(v) PROVE NumberOf(v) # Number("NaN")
<1>1. /\ v.js = "string" /\ v.of \in DOMAIN NumberOfText
      /\ NumberOfText[v.of] \in {"zero", "one", "two", "whole", "epoch", "rounded"}
  BY DEF isExactInteger, NumberOfText
<1> QED BY <1>1 DEF NumberOf, Number, V

LEMMA GeneratedTakesWhatFits ==
    ASSUME NEW f, IsField(f), Regenerable(f), "Red" \notin f.enum,
           NEW g, g = Generated(buildCreateTable("mysql", f)),
           NEW v, Unfit(f, v) = {}
    PROVE  Unfit(g, v) = {}
<1> SUFFICES ASSUME NEW c \in Unfit(g, v) PROVE FALSE
  OBVIOUS
<1>1. f.type \in Types /\ f.length \in Nat
  BY DEF IsField
<1>2. f.enum = {} \/ InEnum(f, v)
  BY DEF Unfit, InEnum
<1>3. ~ TooLong(f, v)
  BY DEF Unfit
<1>4. c # "enum"
  BY <1>2, GeneratedRest DEF Unfit, InEnum
<1>5. /\ f.type = "number" => NumberOf(v) # Number("NaN")
      /\ f.type = "decimal" => isExactDecimal(v)
      /\ f.type = "bigint" => isExactInteger(v)
      /\ f.type = "uuid" => isValidUUID(v)
      /\ f.type = "datetime" => v = Text("current_timestamp") \/ isValidDatetime(v)
      /\ f.type = "date" => isValidDate(v)
      /\ f.type = "boolean" => isValidBoolean(v)
  BY DEF Unfit
<1>6. CASE c = "length"
  <2>1. TooLong(g, v)
    BY <1>6, GeneratedField, <1>1 DEF Unfit, Types
  <2>2. g.length \in {f.length, 0} \/ (f.type = "uuid" /\ g.length = 36) \/ (f.type = "date" /\ g.length = 10)
        \/ (f.type = "datetime" /\ g.length = 19) \/ (f.type = "decimal" /\ g.length = 65)
    BY <1>1, GeneratedField DEF Types
  <2>3. CASE g.length \in {f.length, 0}
    BY <1>3, <2>1, <2>3 DEF TooLong
  <2>4. v.of \in DOMAIN LengthOf => LengthOf[v.of] \in Nat
    BY DEF LengthOf
  <2>5. CASE ~ (g.length \in {f.length, 0})
    <3>1. f.type \in {"uuid", "date", "datetime", "decimal"}
      BY <2>2, <2>5
    <3>2. v.js = "string"
      BY <1>5, <3>1 DEF isExactDecimal, isExactInteger, isValidUUID, isValidDate, isValidDatetime, Text, V
    <3>3. v.of \in DOMAIN LengthOf /\ LengthOf[v.of] > g.length
      BY <2>1, <3>2 DEF TooLong, Length
    <3> QED BY <1>5, <2>2, <2>4, <2>5, <3>3, LengthsFit
  <2> QED BY <2>3, <2>5
<1>7. CASE c # "length"
  <2>1. c = g.type
    BY <1>4, <1>7 DEF Unfit
  <2>2. /\ f.type = "number" => g.type = "number"
        /\ f.type = "bigint" => g.type = "number"
        /\ f.type = "boolean" => g.type = "boolean"
        /\ f.type \in {"string", "decimal"} => g.type = "string"
        /\ f.type = "uuid" => g.type \in {"uuid", "string"}
        /\ f.type = "date" => g.type = "date"
        /\ f.type = "datetime" => g.type = "datetime"
        /\ f.type = "enum" => g.type = "enum"
    BY GeneratedField
  <2>3. /\ c = "number" => NumberOf(v) = Number("NaN")
        /\ c = "uuid" => ~ isValidUUID(v)
        /\ c = "datetime" => v # Text("current_timestamp") /\ ~ isValidDatetime(v)
        /\ c = "date" => ~ isValidDate(v)
        /\ c = "boolean" => ~ isValidBoolean(v)
        /\ c # "string"
    BY <1>4, <1>7 DEF Unfit
  <2> QED BY <1>1, <1>4, <1>5, <2>1, <2>2, <2>3, ExactIntegersAreNumbers DEF Types
<1> QED BY <1>6, <1>7

\* The struct written back from MySQL's table accepts what the declared one
\* accepts, for every value: no width, type or nullability is lost on the way
\* through CREATE TABLE, SHOW COLUMNS and the struct file.
THEOREM RegeneratedAcceptsHolds ==
    ASSUME \A s \in Settings : Regenerable(s.field)
    PROVE  Spec => []RegeneratedAccepts
<1>1. StructInv => RegeneratedAccepts
  <2> SUFFICES ASSUME StructInv, files.struct # NoField, "Red" \notin setting.field.enum,
                      NEW w, NEW how \in {"insert", "update"},
                      validatePayload(setting.field, w, how) = {}
               PROVE  validatePayload(files.struct, w, how) = {}
    BY DEF RegeneratedAccepts
  <2> DEFINE f == setting.field
             g == files.struct
  <2>1. IsField(f) /\ Regenerable(f)
    BY SettingsAssumption DEF StructInv
  <2>2. g = Generated(buildCreateTable("mysql", f))
    BY DEF StructInv
  <2>3. /\ g.default = AutoKey <=> f.default = AutoKey
        /\ g.required <=> f.required
    BY <2>1, <2>2, GeneratedRest
  <2>4. Unfit(f, w) = {} => Unfit(g, w) = {}
    BY <2>1, <2>2, GeneratedTakesWhatFits
  <2> HIDE DEF f, g
  <2>5. validatePayload(f, w, how) = {}
    BY DEF f
  <2>6. validatePayload(g, w, how) = {}
    BY <2>3, <2>4, <2>5 DEF validatePayload, AutoKey
  <2> QED BY <2>6 DEF g
<1> QED BY <1>1, StructInvInit, StructInvNext, PTL DEF Spec

-----------------------------------------------------------------------------
(* Edits. *)

Kind == IF setting.cast = "none" THEN setting.field.type ELSE setting.cast

LEMMA ToBoolCases ==
    ASSUME NEW v
    PROVE  /\ toBool(v) \in {Bool("true"), Bool("false"), Undefined} \/ (v.js = "boolean" /\ toBool(v) = v)
           /\ toBool(v) = Bool("true") => v \in {Bool("true"), Number("one"), Text("one")}
           /\ toBool(v) = Bool("false") => v \in {Bool("false"), Number("zero"), Text("zero"), Text("empty")}
           /\ toBool(v) = Undefined => v \notin {Bool("true"), Bool("false"), Number("one"), Text("one"),
                                                 Number("zero"), Text("zero"), Text("empty")}
BY DEF toBool, Bool, Number, Text, Undefined, V

LEMMA Spelled ==
    ASSUME NEW o
    PROVE  /\ Text(o).js = "string" /\ Text(o).of = o
           /\ Quoted(o).js = "json string" /\ Quoted(o).of = o
           /\ Number(o).js = "number" /\ Number(o).of = o
           /\ Bool(o).js = "boolean" /\ Bool(o).of = o
           /\ Date(o).js = "Date" /\ Date(o).of = o
BY DEF Text, Quoted, Number, Bool, Date, V

LEMMA Kinds ==
    /\ Null.js = "null" /\ Undefined.js = "undefined" /\ Object.js = "object"
    /\ CastError.js = "CastError" /\ Refused.js = "refused" /\ NoRow.js = "none" /\ Foreign.js = "foreign"
    /\ Number("NaN").js = "number" /\ Number("NaN").of = "NaN"
    /\ Text("empty").js = "string" /\ Text("empty").of = "empty"
    /\ Bool("true").js = "boolean" /\ Bool("false").js = "boolean"
BY Spelled DEF Null, Undefined, Object, CastError, Refused, NoRow, Foreign, V

\* What the JSON text of a comparable says.
LEMMA JsonTextSays ==
    ASSUME NEW v, v.of # "bad", v.of # "NaN"
    PROVE  JsonText(v).of = v.of
BY DEF JsonText, Quoted, Text, Number, Date, V

LEMMA ComparableOfText ==
    ASSUME NEW o, o \notin DOMAIN DateOfStamp
    PROVE  comparable(Text(o)) = IF o \in DOMAIN JsonOfText THEN JsonOfText[o] ELSE Text(o)
<1>1. Text(o).js = "string" /\ Text(o).of = o
  BY DEF Text, V
<1>2. o \in DOMAIN JsonOfText => JsonParse(Text(o)) = JsonOfText[o] /\ JsonOfText[o] # CastError
  BY <1>1 DEF JsonParse, JsonOfText, CastError, Number, Bool, Null, Object, V
<1>3. o \notin DOMAIN JsonOfText => JsonParse(Text(o)) = CastError
  BY <1>1 DEF JsonParse
<1> QED BY <1>1, <1>2, <1>3 DEF comparable, Strings

LEMMA ComparableOfQuoted == ASSUME NEW o PROVE comparable(Quoted(o)) = Text(o)
BY DEF comparable, Strings, Quoted, Text, JsonParse, CastError, V

LEMMA ComparableOfOther ==
    ASSUME NEW v, v.js \notin {"Date", "string", "json string"}
    PROVE  comparable(v) = v
BY DEF comparable, Strings

LEMMA ValuesAre ==
    ASSUME NEW v, IsJsValue(v)
    PROVE  /\ v = V(v.js, v.of)
           /\ v.js \in {"string", "json string", "number", "boolean", "Date", "object", "null", "undefined"}
           /\ v.js = "number"  => v.of \in Numbers
           /\ v.js = "boolean" => v.of \in {"true", "false"}
           /\ v.js = "Date"    => v.of \in Dates
           /\ v.js \in {"object", "null", "undefined"} => v.of = v.js
BY DEF IsJsValue, V, Strings

\* What two values compare by says what they mean, kind by kind.
LEMMA NumbersCompare ==
    ASSUME NEW v, IsJsValue(v), Kind \in {"integer", "number"}, Means(v) # Nothing
    PROVE  /\ toBool(v) = Bool("true") => Means(v) = "one"
           /\ toBool(v) = Bool("false") => Means(v) = "zero"
           /\ toBool(v) = Undefined => JsonText(comparable(v)).of = Means(v)
           /\ toBool(v) \in {Bool("true"), Bool("false"), Undefined}
<1>1. \/ v.js = "string" /\ v.of \in DOMAIN Pointed /\ Means(v) = Pointed[v.of]
      \/ v.js \in {"number", "string"} /\ v.of \in {"zero", "one", "two"} /\ Means(v) = v.of
  BY DEF Means, Kind, Digits
<1>2. v = V(v.js, v.of)
  BY ValuesAre
<1>3. CASE v \in {Text("zero_0"), Text("one_0"), Text("two_0")}
  <2>1. Means(v) = Pointed[v.of] /\ v.js = "string"
    BY <1>1, <1>3 DEF Text, V
  <2>2. /\ v = Text("zero_0") => comparable(v) = Number("zero") /\ Means(v) = "zero"
        /\ v = Text("one_0") => comparable(v) = Number("one") /\ Means(v) = "one"
        /\ v = Text("two_0") => comparable(v) = Number("two") /\ Means(v) = "two"
    BY <2>1, ComparableOfText DEF DateOfStamp, JsonOfText, Pointed, Text, V
  <2>3. JsonText(comparable(v)).of = Means(v)
    BY <1>3, <2>2, JsonTextSays DEF Number, V
  <2> QED BY <1>3, <2>3, ToBoolCases DEF toBool, Text, Number, Bool, Undefined, V
<1>4. CASE v = Text("two") \/ v = Number("two")
  <2>1. comparable(v) = Number("two") /\ Means(v) = "two"
    <3>1. comparable(Text("two")) = Number("two")
      BY ComparableOfText DEF DateOfStamp, JsonOfText
    <3>2. comparable(Number("two")) = Number("two")
      <4>1. Number("two").js = "number"
        BY Spelled
      <4> QED BY <4>1, ComparableOfOther
    <3>3. v.of = "two"
      BY <1>4 DEF Text, Number, V
    <3>4. Means(v) = "two"
      BY <1>1, <3>3 DEF Pointed
    <3> QED BY <1>4, <3>1, <3>2, <3>4
  <2>2. JsonText(comparable(v)).of = "two"
    BY <2>1, JsonTextSays DEF Number, V
  <2> QED BY <1>4, <2>1, <2>2 DEF toBool, Text, Number, Bool, Undefined, V
<1>5. CASE v \in {Text("zero"), Number("zero")}
  BY <1>1, <1>5 DEF toBool, Pointed, Text, Number, Bool, Undefined, V
<1>6. CASE v \in {Text("one"), Number("one")}
  BY <1>1, <1>6 DEF toBool, Pointed, Text, Number, Bool, Undefined, V
<1> QED BY <1>1, <1>2, <1>3, <1>4, <1>5, <1>6 DEF Pointed, Text, Number

LEMMA FlagsCompare ==
    ASSUME NEW v, Kind = "boolean", Means(v) # Nothing
    PROVE  \/ toBool(v) = Bool("true") /\ Means(v) = "true"
           \/ toBool(v) = Bool("false") /\ Means(v) = "false"
<1>1. \/ v \in {Bool("true"), Number("one"), Text("one")} /\ Means(v) = "true"
      \/ v \in {Bool("false"), Number("zero"), Text("zero")} /\ Means(v) = "false"
  BY DEF Means, Kind
<1> QED BY <1>1 DEF toBool, Text, Number, Bool, V

LEMMA DatesCompare ==
    ASSUME NEW v, Kind = "datetime", Means(v) # Nothing
    PROVE  /\ toBool(v) = Undefined
           /\ \/ Means(v) = "moment" /\ JsonText(comparable(v)).of \in {"moment", "instant"}
              \/ Means(v) = "midnight" /\ JsonText(comparable(v)).of \in {"midnight", "day"}
<1>1. \/ v \in {Date("moment"), Date("instant"), Text("moment"), Text("instant")} /\ Means(v) = "moment"
      \/ v \in {Date("midnight"), Text("midnight"), Text("day")} /\ Means(v) = "midnight"
  BY DEF Means, Kind
<1>2. toBool(v) = Undefined
  BY <1>1 DEF toBool, Text, Number, Bool, Date, V
<1>3. /\ comparable(Date("moment")) = Number("moment") /\ comparable(Text("moment")) = Number("moment")
      /\ comparable(Date("midnight")) = Number("midnight") /\ comparable(Text("midnight")) = Number("midnight")
      /\ comparable(Date("instant")) = Number("instant")
  <2>1. ASSUME NEW o PROVE comparable(Date(o)) = Number(o)
    <3>1. Date(o).js = "Date" /\ Date(o).of = o
      BY Spelled
    <3> QED BY <3>1 DEF comparable, Strings
  <2>2. ASSUME NEW o \in DOMAIN DateOfStamp PROVE comparable(Text(o)) = Number(DateOfStamp[o])
    <3>1. Text(o).js = "string" /\ Text(o).of = o
      BY Spelled
    <3>2. JsonParse(Text(o)) = CastError
      BY <3>1 DEF JsonParse, DateOfStamp, JsonOfText
    <3> QED BY <3>1, <3>2 DEF comparable, Strings
  <2>3. /\ "moment" \in DOMAIN DateOfStamp /\ DateOfStamp["moment"] = "moment"
        /\ "midnight" \in DOMAIN DateOfStamp /\ DateOfStamp["midnight"] = "midnight"
    BY DEF DateOfStamp
  <2> QED BY <2>1, <2>2, <2>3
<1>4. comparable(Text("instant")) = Text("instant") /\ comparable(Text("day")) = Text("day")
  BY ComparableOfText DEF DateOfStamp, JsonOfText
<1>5. /\ JsonText(Number("moment")).of = "moment" /\ JsonText(Number("midnight")).of = "midnight"
      /\ JsonText(Number("instant")).of = "instant" /\ JsonText(Text("instant")).of = "instant"
      /\ JsonText(Text("day")).of = "day"
  BY JsonTextSays DEF Number, Text, V
<1> QED BY <1>1, <1>2, <1>3, <1>4, <1>5

LEMMA JsonsCompare ==
    ASSUME NEW v, IsJsValue(v), Kind = "json", Means(v) # Nothing
    PROVE  /\ toBool(v) = Bool("true") => Means(v) = "true"
           /\ toBool(v) = Bool("false") => Means(v) = "false"
           /\ toBool(v) = Undefined => JsonText(comparable(v)).of = Means(v)
           /\ toBool(v) \in {Bool("true"), Bool("false"), Undefined}
<1>1. \/ v \in {Quoted("red"), Text("red")} /\ Means(v) = "red"
      \/ v \in {Object, Text("object")} /\ Means(v) = "object"
      \/ v.of \in {"true", "false", "two", "half"} /\ Means(v) = v.of
  BY DEF Means, Kind
<1>2. v.of = Means(v)
  <2>1. \A o : Quoted(o).of = o /\ Text(o).of = o
    BY DEF Quoted, Text, V
  <2>2. Object.of = "object"
    BY DEF Object, V
  <2> QED BY <1>1, <2>1, <2>2
<1>3. Means(v) \in {"red", "object", "true", "false", "two", "half"}
  BY <1>1
<1>4. toBool(v) = Bool("true") => v = Bool("true")
  BY <1>2, <1>3, ToBoolCases DEF Bool, Number, Text, V
<1>5. toBool(v) = Bool("false") => v = Bool("false")
  BY <1>2, <1>3, ToBoolCases DEF Bool, Number, Text, V
<1>6. toBool(v) \in {Bool("true"), Bool("false"), Undefined}
  BY ToBoolCases, ValuesAre DEF Bool
<1>7. comparable(v).of = Means(v)
  <2>1. CASE v.js = "string"
    <3>1. v = Text(v.of)
      BY <2>1, ValuesAre DEF Text
    <3>2. v.of \notin DOMAIN DateOfStamp
      BY <1>2, <1>3 DEF DateOfStamp
    <3>3. v.of \in DOMAIN JsonOfText => JsonOfText[v.of].of = v.of
      BY <1>2, <1>3 DEF JsonOfText, Number, Bool, Object, Null, V
    <3> QED BY <1>2, <3>1, <3>2, <3>3, ComparableOfText DEF Text, V
  <2>2. CASE v.js = "json string"
    <3>1. v = Quoted(v.of)
      BY <2>2, ValuesAre DEF Quoted
    <3> QED BY <1>2, <3>1, ComparableOfQuoted DEF Text, V
  <2>3. v.js # "Date"
    BY <1>2, <1>3, ValuesAre DEF Dates
  <2>4. CASE v.js \notin {"Date", "string", "json string"}
    BY <1>2, <2>4, ComparableOfOther
  <2> QED BY <2>1, <2>2, <2>3, <2>4
<1>8. JsonText(comparable(v)).of = Means(v)
  BY <1>3, <1>7, JsonTextSays
<1> QED BY <1>2, <1>4, <1>5, <1>6, <1>8 DEF Bool, V

LEMMA EnumsCompare ==
    ASSUME NEW v, IsJsValue(v), Kind = "enum", Means(v) # Nothing,
           setting.field.enum \cap (DOMAIN NumberOfText \cup DOMAIN DateOfStamp) = {}
    PROVE  /\ toBool(v) = Undefined
           /\ JsonText(comparable(v)).of = Means(v)
<1>1. v.js = "string" /\ v.of \in setting.field.enum /\ Means(v) = v.of
  BY DEF Means, Kind
<1>2. v = Text(v.of)
  BY <1>1, ValuesAre DEF Text
<1>3. v.of \notin DOMAIN NumberOfText /\ v.of \notin DOMAIN DateOfStamp
  BY <1>1
<1>4. v.of \notin {"one", "zero", "empty"}
  BY <1>3 DEF NumberOfText
<1>5. toBool(v) = Undefined
  BY <1>1, <1>4, ValuesAre DEF toBool, Number, Text, V
<1>6. v.of \in DOMAIN JsonOfText => v.of \in {"true", "false", "null", "object"}
  BY <1>3 DEF JsonOfText, NumberOfText
<1>7. CASE v.of \in DOMAIN JsonOfText
  <2>1. comparable(v) = JsonOfText[v.of]
    BY <1>2, <1>3, <1>7, ComparableOfText
  <2>2. /\ JsonOfText["true"] = Bool("true") /\ JsonOfText["false"] = Bool("false")
        /\ JsonOfText["null"] = Null /\ JsonOfText["object"] = Object
    BY DEF JsonOfText
  <2>3. /\ Bool("true").of = "true" /\ Bool("false").of = "false"
        /\ Null.of = "null" /\ Object.of = "object"
    BY DEF Bool, Null, Object, V
  <2>4. comparable(v).of = v.of
    BY <1>6, <1>7, <2>1, <2>2, <2>3
  <2>5. JsonText(comparable(v)).of = comparable(v).of
    BY <1>6, <1>7, <2>4, JsonTextSays
  <2> QED BY <1>1, <1>5, <2>4, <2>5
<1>8. CASE v.of \notin DOMAIN JsonOfText
  <2>1. comparable(v) = v
    BY <1>2, <1>3, <1>8, ComparableOfText
  <2>2. JsonText(v) = Quoted(v.of)
    <3>1. v # Number("NaN") /\ v # Date("bad")
      BY <1>1, Spelled
    <3> QED BY <1>1, <3>1 DEF JsonText
  <2>3. Quoted(v.of).of = v.of
    BY Spelled
  <2> QED BY <1>1, <1>5, <2>1, <2>2, <2>3
<1> QED BY <1>5, <1>7, <1>8

LEMMA EqualMeansAlike ==
    ASSUME NEW a, IsJsValue(a), NEW b, IsJsValue(b), valuesEqual(a, b),
           Means(a) # Nothing, Means(b) # Nothing,
           Kind \in Types \cup CastTypes, Kind \notin {"none", "string", "decimal", "bigint"},
           Kind = "enum" => WordOptions(setting.field)
    PROVE  Means(a) = Means(b)
<1>1. a = b \/ (toBool(a) = toBool(b)
                 /\ (toBool(a) = Undefined => JsonText(comparable(a)).of = JsonText(comparable(b)).of))
  BY DEF valuesEqual
<1>2. Bool("true") # Bool("false") /\ Bool("true") # Undefined /\ Bool("false") # Undefined
  BY DEF Bool, Undefined, V
<1>3. CASE Kind \in {"integer", "number"}
  BY <1>1, <1>2, <1>3, NumbersCompare
<1>4. CASE Kind = "boolean"
  BY <1>1, <1>2, <1>4, FlagsCompare
<1>5. CASE Kind = "datetime"
  BY <1>1, <1>5, DatesCompare
<1>6. CASE Kind = "json"
  BY <1>1, <1>2, <1>6, JsonsCompare
<1>7. CASE Kind = "enum"
  BY <1>1, <1>7, EnumsCompare DEF WordOptions
<1>8. CASE Kind \in {"uuid", "date"}
  BY <1>8 DEF Means, Kind
<1> QED BY <1>3, <1>4, <1>5, <1>6, <1>7, <1>8 DEF Types, CastTypes

-----------------------------------------------------------------------------
(* Casts, columns and clients take values to values. *)

LEMMA ConstantsAreValues ==
    /\ \A o : IsJsValue(Text(o)) /\ IsJsValue(Quoted(o))
    /\ \A o \in Numbers : IsJsValue(Number(o))
    /\ \A o \in Dates : IsJsValue(Date(o))
    /\ IsJsValue(Bool("true")) /\ IsJsValue(Bool("false"))
    /\ IsJsValue(Object) /\ IsJsValue(Null) /\ IsJsValue(Undefined)
    /\ ~ IsJsValue(CastError) /\ ~ IsJsValue(Refused) /\ ~ IsJsValue(NoRow) /\ ~ IsJsValue(Foreign)
<1>1. ASSUME NEW o PROVE IsJsValue(Text(o)) /\ IsJsValue(Quoted(o))
  BY DEF IsJsValue, Text, Quoted, V, Strings
<1>2. ASSUME NEW o \in Numbers PROVE IsJsValue(Number(o))
  BY DEF IsJsValue, Number, V, Strings
<1>3. ASSUME NEW o \in Dates PROVE IsJsValue(Date(o))
  BY DEF IsJsValue, Date, V, Strings
<1>4. IsJsValue(Bool("true")) /\ IsJsValue(Bool("false"))
  BY DEF IsJsValue, Bool, V, Strings
<1>5. IsJsValue(Object) /\ IsJsValue(Null) /\ IsJsValue(Undefined)
  BY DEF IsJsValue, Object, Null, Undefined, V, Strings
<1>6. ~ IsJsValue(CastError) /\ ~ IsJsValue(Refused) /\ ~ IsJsValue(NoRow) /\ ~ IsJsValue(Foreign)
  BY DEF IsJsValue, CastError, Refused, NoRow, Foreign, V, Strings
<1> QED BY <1>1, <1>2, <1>3, <1>4, <1>5, <1>6

LEMMA NumberOfIsANumber ==
    ASSUME NEW v, IsJsValue(v)
    PROVE  \E o \in Numbers : NumberOf(v) = Number(o)
<1>1. v.js = "string" /\ v.of \in DOMAIN NumberOfText => NumberOfText[v.of] \in Numbers
  BY DEF NumberOfText, Numbers
<1>2. v.js = "number" => v = Number(v.of) /\ v.of \in Numbers
  BY ValuesAre DEF Number
<1>3. {"one", "zero", "epoch", "NaN"} \subseteq Numbers
  BY DEF Numbers
<1> QED BY <1>1, <1>2, <1>3 DEF NumberOf

LEMMA JsonParseIsAValue == ASSUME NEW v, IsJsValue(v) PROVE IsJsValue(JsonParse(v)) \/ JsonParse(v) = CastError
<1>1. v.of \in DOMAIN JsonOfText => IsJsValue(JsonOfText[v.of])
  BY ConstantsAreValues DEF JsonOfText, Numbers
<1> QED BY <1>1, ConstantsAreValues DEF JsonParse

LEMMA OutDateIsAValue == ASSUME NEW v, IsJsValue(v) PROVE IsJsValue(outDate(v)) \/ outDate(v) = CastError
<1>1. /\ v.of \in DOMAIN DateOfStamp => DateOfStamp[v.of] \in Dates
      /\ v.of \in DOMAIN DateOfText => DateOfText[v.of] \in Dates
  BY DEF DateOfStamp, DateOfText, Dates
<1>2. \/ outDate(v) \in {v, CastError}
      \/ v.of \in DOMAIN DateOfStamp /\ outDate(v) = Date(DateOfStamp[v.of])
      \/ v.of \in DOMAIN DateOfText /\ outDate(v) = Date(DateOfText[v.of])
  BY DEF outDate
<1> QED BY <1>1, <1>2, ConstantsAreValues

LEMMA ToBoolIsAValue == ASSUME NEW v, IsJsValue(v) PROVE IsJsValue(toBool(v))
BY ToBoolCases, ConstantsAreValues

LEMMA TruncIsANumber == ASSUME NEW o \in Numbers PROVE Trunc(Number(o)) = Number(IF o = "half" THEN "two" ELSE o)
<1>1. Number(o).of = o
  BY Spelled
<1> QED BY <1>1 DEF Trunc

LEMMA OutValueIsAValue ==
    ASSUME NEW v, IsJsValue(v), NEW type \in CastTypes
    PROVE  IsJsValue(outValue(type, v)) \/ outValue(type, v) = CastError
<1>1. CASE type = "none" \/ v \in {Null, Undefined}
  BY <1>1 DEF outValue
<1>2. CASE type = "boolean" /\ v \notin {Null, Undefined}
  BY <1>2, ToBoolIsAValue DEF outValue
<1>3. CASE type = "integer" /\ v \notin {Null, Undefined}
  <2>1. PICK o \in Numbers : NumberOf(v) = Number(o)
    BY NumberOfIsANumber
  <2>2. IsJsValue(Trunc(Number(o)))
    BY TruncIsANumber, ConstantsAreValues DEF Numbers
  <2>3. outValue(type, v) \in {CastError, Trunc(NumberOf(v))}
    BY <1>3 DEF outValue
  <2> QED BY <2>1, <2>2, <2>3
<1>4. CASE type = "datetime" /\ v \notin {Null, Undefined}
  BY <1>4, OutDateIsAValue DEF outValue
<1>5. CASE type = "json" /\ v \notin {Null, Undefined}
  BY <1>5, JsonParseIsAValue DEF outValue
<1> QED BY <1>1, <1>2, <1>3, <1>4, <1>5 DEF CastTypes

LEMMA JsonTextIsAText == ASSUME NEW v PROVE JsonText(v) \in {Text("null"), Quoted(v.of), Text(v.of)}
BY DEF JsonText

\* What is stored, cast by cast.
LEMMA StoredByCast ==
    ASSUME NEW v, IsJsValue(v), NEW type \in CastTypes \ {"none"}, v \notin {Null, Undefined},
           inValue(type, v) # CastError
    PROVE  /\ type = "boolean" => inValue(type, v) \in {Number("one"), Number("zero")}
           /\ type = "integer" => \E o \in Numbers \ {"NaN", "half"} : inValue(type, v) = Number(o)
           /\ type = "datetime" => \E o \in Dates \ {"bad", "instant"} : inValue(type, v) = Text(o)
           /\ type = "json" => \E w \in {v, outValue(type, v)} :
                                  IsJsValue(w) /\ w # CastError /\ inValue(type, v) = JsonText(w)
                                  /\ (v.js \notin Strings => w = v) /\ (v.js \in Strings => w = outValue(type, v))
<1>1. CASE type = "boolean"
  BY <1>1 DEF inValue, StorageOf
<1>2. CASE type = "integer"
  <2>1. PICK o \in Numbers : NumberOf(v) = Number(o)
    BY NumberOfIsANumber
  <2>2. inValue(type, v) = outValue(type, v) /\ outValue(type, v) # CastError
    BY <1>2 DEF inValue, StorageOf
  <2>3. outValue(type, v) = Trunc(NumberOf(v)) /\ NumberOf(v) # Number("NaN")
    BY <1>2, <2>2 DEF outValue
  <2> QED BY <1>2, <2>1, <2>2, <2>3, TruncIsANumber DEF Numbers
<1>3. CASE type = "datetime"
  <2>1. inValue(type, v) = StampOf(outDate(v)) /\ outDate(v) # CastError
    BY <1>3 DEF inValue, StorageOf, outValue
  <2>2. \E o \in Dates \ {"bad"} : outDate(v) = Date(o)
    <3>1. /\ v.of \in DOMAIN DateOfStamp => DateOfStamp[v.of] \in Dates \ {"bad"}
          /\ v.of \in DOMAIN DateOfText => DateOfText[v.of] \in Dates \ {"bad"}
      BY DEF DateOfStamp, DateOfText, Dates
    <3>2. v.js = "Date" => v = Date(v.of) /\ v.of \in Dates
      BY ValuesAre DEF Date
    <3>3. \/ v.js = "Date" /\ v.of # "bad" /\ outDate(v) = v
          \/ v.of \in DOMAIN DateOfStamp /\ outDate(v) = Date(DateOfStamp[v.of])
          \/ v.of \in DOMAIN DateOfText /\ outDate(v) = Date(DateOfText[v.of])
      BY <2>1 DEF outDate
    <3> QED BY <3>1, <3>2, <3>3
  <2>3. PICK o \in Dates \ {"bad"} : outDate(v) = Date(o)
    BY <2>2
  <2>4. StampOf(Date(o)) = Text(IF o = "instant" THEN "moment" ELSE o)
    <3>1. Date(o).of = o
      BY Spelled
    <3> QED BY <3>1 DEF StampOf
  <2> QED BY <1>3, <2>1, <2>3, <2>4 DEF Dates
<1>4. CASE type = "json"
  <2>1. CASE v.js \notin Strings
    BY <1>4, <2>1, ConstantsAreValues DEF inValue
  <2>2. CASE v.js \in Strings
    <3>1. inValue(type, v) = JsonText(outValue(type, v)) /\ outValue(type, v) # CastError
      BY <1>4, <2>2 DEF inValue, StorageOf
    <3>2. IsJsValue(outValue(type, v))
      BY <3>1, OutValueIsAValue
    <3> QED BY <1>4, <2>2, <3>1, <3>2
  <2> QED BY <2>1, <2>2
<1> QED BY <1>1, <1>2, <1>3, <1>4 DEF CastTypes

LEMMA InValueIsAValue ==
    ASSUME NEW v, IsJsValue(v), NEW type \in CastTypes
    PROVE  IsJsValue(inValue(type, v)) \/ inValue(type, v) = CastError
<1>1. CASE type = "none" \/ v \in {Null, Undefined}
  BY <1>1 DEF inValue
<1>2. CASE type # "none" /\ v \notin {Null, Undefined} /\ inValue(type, v) # CastError
  BY <1>2, StoredByCast, JsonTextIsAText, ConstantsAreValues DEF CastTypes, Numbers
<1> QED BY <1>1, <1>2

-----------------------------------------------------------------------------
(* What a client reads. *)

LEMMA Bases ==
    ASSUME NEW d \in Dialects, NEW f, IsField(f), NumericKey(f),
           NEW b, b = buildCreateTable(d, f).base
    PROVE  /\ d = "sqlite" => b = IF f.type \in {"number", "boolean"} THEN "integer"
                                  ELSE IF f.type = "date" THEN "date" ELSE "text"
           /\ d # "sqlite" =>
                /\ f.type = "number" => b \in {"int", "serial", "integer"}
                /\ f.type = "boolean" => b = IF d = "mysql" THEN "tinyint" ELSE IF d = "postgres" THEN "boolean" ELSE "bit"
                /\ f.type = "date" => b = "date"
                /\ f.type = "datetime" => b \in {"datetime", "timestamp", "datetime2"}
                /\ f.type = "decimal" => b = IF d = "postgres" THEN "numeric" ELSE "decimal"
                /\ f.type = "bigint" => b = "bigint"
                /\ f.type = "uuid" => b \in {"char", "uuid", "uniqueidentifier"}
                /\ f.type = "enum" => b \in {"enum", "text", "varchar"}
                /\ f.type = "string" => b \in {"text", "varchar"}
<1> DEFINE c == structColumns(f)
<1>1. b = typeSql(d, c)[1]
  BY DEF buildCreateTable, columnSql
<1>2. c.type = f.type /\ (c.auto <=> f.default = AutoKey) /\ c.length = f.length
  BY DEF structColumns
<1> HIDE DEF c
<1>3. f.type \in Types
  BY DEF IsField
<1>4. CASE c.auto
  BY <1>1, <1>2, <1>4 DEF typeSql, Dialects, NumericKey
<1>5. CASE ~ c.auto /\ d = "sqlite"
  BY <1>1, <1>2, <1>5 DEF typeSql
<1>6. CASE ~ c.auto /\ d # "sqlite" /\ c.type = "string"
  BY <1>1, <1>2, <1>6 DEF typeSql
<1>7. CASE ~ c.auto /\ d # "sqlite" /\ c.type # "string"
  <2>1. b = TypeNames[d][f.type]
    BY <1>1, <1>2, <1>7 DEF typeSql
  <2>2. ASSUME d = "mysql"
        PROVE  /\ TypeNames[d]["number"] = "int" /\ TypeNames[d]["boolean"] = "tinyint"
               /\ TypeNames[d]["date"] = "date" /\ TypeNames[d]["datetime"] = "datetime"
               /\ TypeNames[d]["decimal"] = "decimal" /\ TypeNames[d]["bigint"] = "bigint"
               /\ TypeNames[d]["uuid"] = "char" /\ TypeNames[d]["enum"] = "enum"
    BY <2>2 DEF TypeNames
  <2>3. ASSUME d = "postgres"
        PROVE  /\ TypeNames[d]["number"] = "integer" /\ TypeNames[d]["boolean"] = "boolean"
               /\ TypeNames[d]["date"] = "date" /\ TypeNames[d]["datetime"] = "timestamp"
               /\ TypeNames[d]["decimal"] = "numeric" /\ TypeNames[d]["bigint"] = "bigint"
               /\ TypeNames[d]["uuid"] = "uuid" /\ TypeNames[d]["enum"] = "text"
    BY <2>3 DEF TypeNames
  <2>4. ASSUME d = "mssql"
        PROVE  /\ TypeNames[d]["number"] = "int" /\ TypeNames[d]["boolean"] = "bit"
               /\ TypeNames[d]["date"] = "date" /\ TypeNames[d]["datetime"] = "datetime2"
               /\ TypeNames[d]["decimal"] = "decimal" /\ TypeNames[d]["bigint"] = "bigint"
               /\ TypeNames[d]["uuid"] = "uniqueidentifier" /\ TypeNames[d]["enum"] = "varchar"
    BY <2>4 DEF TypeNames
  <2>5. d \in {"mysql", "postgres", "mssql"}
    BY <1>7 DEF Dialects
  <2> HIDE DEF TypeNames
  <2>6. CASE d = "mysql"
    BY <1>2, <1>7, <2>1, <2>2, <2>6
  <2>7. CASE d = "postgres"
    BY <1>2, <1>7, <2>1, <2>3, <2>7
  <2>8. CASE d = "mssql"
    BY <1>2, <1>7, <2>1, <2>4, <2>8
  <2> QED BY <2>5, <2>6, <2>7, <2>8
<1> QED BY <1>4, <1>5, <1>6, <1>7

\* The column the declared field became.
Created == column = buildCreateTable(setting.dialect, setting.field)

LEMMA Shapes ==
    ASSUME setting \in Settings, NumericKey(setting.field), Created
    PROVE  /\ setting.dialect = "sqlite" =>
                Shape = IF setting.field.type \in {"number", "boolean", "date"} THEN "number" ELSE "text"
           /\ setting.dialect # "sqlite" =>
                /\ setting.field.type = "number" => Shape = "number" /\ column.base # "decimal"
                /\ setting.field.type = "boolean" =>
                      IF setting.dialect = "mysql" THEN Shape = "number" /\ column.base # "decimal" ELSE Shape = "boolean"
                /\ setting.field.type \in {"date", "datetime"} => Shape = "Date"
                /\ setting.field.type = "decimal" =>
                      IF setting.dialect = "mssql" THEN Shape = "number" /\ column.base = "decimal" ELSE Shape = "digits"
                /\ setting.field.type = "bigint" => Shape = "digits"
                /\ setting.field.type \in {"string", "uuid", "enum"} => Shape = "text"
<1>1. setting.dialect \in Dialects /\ IsField(setting.field)
  BY SettingsAssumption
<1>2. setting.field.type \in Types
  BY <1>1 DEF IsField
<1> DEFINE b == buildCreateTable(setting.dialect, setting.field).base
<1>3. column.base = b
  BY DEF Created
<1>4. /\ setting.dialect = "sqlite" => b = IF setting.field.type \in {"number", "boolean"} THEN "integer"
                                  ELSE IF setting.field.type = "date" THEN "date" ELSE "text"
      /\ setting.dialect # "sqlite" =>
           /\ setting.field.type = "number" => b \in {"int", "serial", "integer"}
           /\ setting.field.type = "boolean" =>
                 b = IF setting.dialect = "mysql" THEN "tinyint" ELSE IF setting.dialect = "postgres" THEN "boolean" ELSE "bit"
           /\ setting.field.type = "date" => b = "date"
           /\ setting.field.type = "datetime" => b \in {"datetime", "timestamp", "datetime2"}
           /\ setting.field.type = "decimal" => b = IF setting.dialect = "postgres" THEN "numeric" ELSE "decimal"
           /\ setting.field.type = "bigint" => b = "bigint"
           /\ setting.field.type = "uuid" => b \in {"char", "uuid", "uniqueidentifier"}
           /\ setting.field.type = "enum" => b \in {"enum", "text", "varchar"}
           /\ setting.field.type = "string" => b \in {"text", "varchar"}
  BY <1>1, Bases
<1> HIDE DEF b
<1>5. CASE setting.dialect = "sqlite"
  BY <1>3, <1>4, <1>5 DEF Shape
<1>6. CASE setting.dialect # "sqlite"
  BY <1>2, <1>3, <1>4, <1>6 DEF Shape, Types
<1> QED BY <1>5, <1>6

LEMMA KeepsAValue ==
    ASSUME NEW v, IsJsValue(v)
    PROVE  IsJsValue(Keeps(v)) \/ Keeps(v) = Refused
<1>1. IsJsValue(NumberOf(v)) /\ IsJsValue(Null) /\ \A o : IsJsValue(Text(o))
  BY NumberOfIsANumber, ConstantsAreValues
<1>2. SqliteKeeps(v) \in {Refused, Null, NumberOf(v), Text(RealText[v.of]), v}
  BY DEF SqliteKeeps
<1>3. IsJsValue(ServerKeeps(v)) \/ ServerKeeps(v) = Refused
  <2> DEFINE n == IF v = Text("empty") \/ v.js = "Date" THEN Number("NaN") ELSE NumberOf(v)
  <2>1. IsJsValue(n)
    BY <1>1, ConstantsAreValues DEF Numbers
  <2>2. IsJsValue(IntKeeps(v, n)) \/ IntKeeps(v, n) = Refused
    BY <2>1, ConstantsAreValues DEF IntKeeps, Numbers
  <2>3. CASE Shape = "number"
    BY <2>1, <2>2, <2>3 DEF ServerKeeps
  <2>4. CASE Shape = "boolean"
    BY <2>4, ToBoolIsAValue DEF ServerKeeps
  <2>5. CASE Shape = "Date"
    BY <2>5, OutDateIsAValue DEF ServerKeeps
  <2>6. CASE Shape = "digits"
    BY <1>1, <2>6 DEF ServerKeeps
  <2>7. CASE Shape \notin {"number", "boolean", "Date", "digits"}
    BY <1>1, <2>7 DEF ServerKeeps
  <2> QED BY <2>3, <2>4, <2>5, <2>6, <2>7
<1> QED BY <1>1, <1>2, <1>3 DEF Keeps

\* What a column keeps of a value, by what its client reads it as.
LEMMA SqliteKeepsText ==
    ASSUME NEW v, IsJsValue(v), v # Null, Shape = "text", setting.dialect = "sqlite", Keeps(v) \notin {Refused, Null}
    PROVE  Keeps(v) = IF v.js = "number" THEN Text(RealText[v.of]) ELSE v
BY DEF Keeps, SqliteKeeps

LEMMA SqliteKeepsNumber ==
    ASSUME NEW v, IsJsValue(v), v # Null, Shape = "number", setting.dialect = "sqlite", Keeps(v) \notin {Refused, Null}
    PROVE  /\ v.js \notin {"boolean", "Date", "object"}
           /\ Keeps(v) = IF NumberOf(v).of # "NaN" /\ v # Text("empty") THEN NumberOf(v) ELSE v
BY Spelled DEF Keeps, SqliteKeeps

LEMMA ServerKeepsShape ==
    ASSUME NEW v, v # Null, setting.dialect # "sqlite", Keeps(v) # Refused
    PROVE  /\ Shape = "number" /\ column.base # "decimal" =>
                \/ Keeps(v) = Number("whole") /\ v # Text("empty") /\ NumberOf(v).of = "half"
                \/ Keeps(v) = NumberOf(v) /\ v # Text("empty") /\ NumberOf(v).of \notin {"NaN", "epoch", "rounded", "half"}
           /\ Shape = "number" /\ column.base = "decimal" => Keeps(v) = NumberOf(v) /\ v # Text("empty") /\ v.js # "Date"
           /\ Shape = "boolean" => v # Text("empty") /\ Keeps(v) = toBool(v) /\ toBool(v) # Undefined
           /\ Shape = "Date" => v # Text("feb30") /\ Keeps(v) = outDate(v) /\ outDate(v) # CastError
           /\ Shape = "digits" => /\ v # Text("empty") /\ v.js # "Date" /\ NumberOf(v).of # "NaN"
                                  /\ Keeps(v) = Text(IF v.js = "string" THEN v.of ELSE NumberOf(v).of)
           /\ Shape = "text" => v.js \in {"string", "json string", "number"}
                                /\ Keeps(v) = IF v.js = "number" THEN Text(v.of) ELSE v
<1> DEFINE n == IF v = Text("empty") \/ v.js = "Date" THEN Number("NaN") ELSE NumberOf(v)
<1>1. Keeps(v) = ServerKeeps(v)
  BY DEF Keeps
<1>2. n.of # "NaN" => n = NumberOf(v) /\ v # Text("empty") /\ v.js # "Date"
  BY Spelled
<1>3. CASE Shape = "number"
  <2>1. CASE column.base # "decimal"
    <3>1. Keeps(v) = IntKeeps(v, n)
      BY <1>1, <1>3, <2>1 DEF ServerKeeps
    <3> QED BY <1>2, <1>3, <2>1, <3>1 DEF IntKeeps
  <2>2. CASE column.base = "decimal"
    BY <1>1, <1>2, <1>3, <2>2 DEF ServerKeeps
  <2> QED BY <1>3, <2>1, <2>2
<1>4. CASE Shape = "boolean"
  BY <1>1, <1>4 DEF ServerKeeps
<1>5. CASE Shape = "Date"
  BY <1>1, <1>5 DEF ServerKeeps
<1>6. CASE Shape = "digits"
  BY <1>1, <1>2, <1>6 DEF ServerKeeps
<1>7. CASE Shape = "text"
  BY <1>1, <1>7 DEF ServerKeeps, Strings
<1> QED BY <1>3, <1>4, <1>5, <1>6, <1>7

-----------------------------------------------------------------------------
(* A column keeps what a value means. *)

\* The values a numeral's meaning has, and their meanings.
LEMMA Numerals ==
    ASSUME NEW v, IsJsValue(v), Kind \in {"integer", "number", "decimal", "bigint"}, Means(v) # Nothing
    PROVE  \/ v \in {Text("zero"), Number("zero"), Text("zero_0")} /\ Means(v) = "zero"
           \/ v \in {Text("one"), Number("one"), Text("one_0")} /\ Means(v) = "one"
           \/ v \in {Text("two"), Number("two"), Text("two_0")} /\ Means(v) = "two"
           \/ Kind = "decimal" /\ v \in {Text("half"), Number("half")} /\ Means(v) = "half"
           \/ Kind \in {"decimal", "bigint"} /\ v \in {Text("big"), Text("bigger")} /\ Means(v) = v.of
<1>1. \/ v.js = "string" /\ v.of \in DOMAIN Pointed /\ Means(v) = Pointed[v.of]
      \/ /\ v.js \in {"number", "string"} /\ v.of \in Digits /\ Means(v) = v.of
         /\ (v.of = "half" => Kind = "decimal") /\ (v.of \in {"big", "bigger"} => Kind \in {"decimal", "bigint"})
  BY DEF Means, Kind
<1>2. v = V(v.js, v.of) /\ (v.js = "number" => v.of \in Numbers)
  BY ValuesAre
<1>3. CASE v.js = "string" /\ v.of \in DOMAIN Pointed /\ Means(v) = Pointed[v.of]
  <2>1. /\ Pointed["zero_0"] = "zero" /\ Pointed["one_0"] = "one" /\ Pointed["two_0"] = "two"
        /\ v.of \in {"zero_0", "one_0", "two_0"}
    BY <1>3 DEF Pointed
  <2>2. v = Text(v.of)
    BY <1>2, <1>3 DEF Text
  <2> QED BY <1>3, <2>1, <2>2
<1>4. CASE /\ v.js \in {"number", "string"} /\ v.of \in Digits /\ Means(v) = v.of
           /\ (v.of = "half" => Kind = "decimal") /\ (v.of \in {"big", "bigger"} => Kind \in {"decimal", "bigint"})
  <2>1. v = Text(v.of) \/ (v = Number(v.of) /\ v.of \in Numbers)
    BY <1>2, <1>4 DEF Text, Number
  <2>2. v.of \in {"zero", "one", "two", "big", "bigger", "half"}
    BY <1>4 DEF Digits
  <2>3. v = Number(v.of) => v.of \notin {"big", "bigger"} \/ v = Text(v.of)
    BY <2>1 DEF Numbers
  <2> QED BY <1>4, <2>1, <2>2, <2>3
<1> QED BY <1>1, <1>3, <1>4

LEMMA MeansOfNumerals ==
    ASSUME Kind \in {"integer", "number", "decimal", "bigint"}
    PROVE  /\ Means(Text("zero")) = "zero" /\ Means(Number("zero")) = "zero" /\ Means(Text("zero_0")) = "zero"
           /\ Means(Text("one")) = "one" /\ Means(Number("one")) = "one" /\ Means(Text("one_0")) = "one"
           /\ Means(Text("two")) = "two" /\ Means(Number("two")) = "two" /\ Means(Text("two_0")) = "two"
           /\ Kind = "decimal" => Means(Text("half")) = "half" /\ Means(Number("half")) = "half"
<1>1. ASSUME NEW v
      PROVE  Means(v) = IF v.js = "string" /\ v.of \in DOMAIN Pointed THEN Pointed[v.of]
                        ELSE IF v.js \in {"number", "string"} /\ v.of \in Digits
                                /\ (v.of = "half" => Kind = "decimal")
                                /\ (v.of \in {"big", "bigger"} => Kind \in {"decimal", "bigint"})
                        THEN v.of ELSE Nothing
  BY DEF Means, Kind
<1>2. ASSUME NEW v, v.js \in {"number", "string"}, v.of \in Digits, v.of \notin DOMAIN Pointed,
             v.of = "half" => Kind = "decimal", v.of \notin {"big", "bigger"}
      PROVE  Means(v) = v.of
  BY <1>1, <1>2
<1>3. Means(Text("zero_0")) = "zero" /\ Means(Text("one_0")) = "one" /\ Means(Text("two_0")) = "two"
  <2>1. ASSUME NEW o \in DOMAIN Pointed PROVE Means(Text(o)) = Pointed[o]
    <3>1. Text(o).js = "string" /\ Text(o).of = o
      BY Spelled
    <3> QED BY <1>1, <3>1
  <2>2. /\ {"zero_0", "one_0", "two_0"} \subseteq DOMAIN Pointed
        /\ Pointed["zero_0"] = "zero" /\ Pointed["one_0"] = "one" /\ Pointed["two_0"] = "two"
    BY DEF Pointed
  <2> QED BY <2>1, <2>2
<1>4. ASSUME NEW o \in {"zero", "one", "two", "half"}, o = "half" => Kind = "decimal"
      PROVE  Means(Text(o)) = o /\ Means(Number(o)) = o
  <2>1. o \in Digits /\ o \notin DOMAIN Pointed
    BY DEF Digits, Pointed
  <2>2. Text(o).js = "string" /\ Text(o).of = o /\ Number(o).js = "number" /\ Number(o).of = o
    BY Spelled
  <2> QED BY <1>2, <1>4, <2>1, <2>2
<1> QED BY <1>3, <1>4

LEMMA NumberOfNumerals ==
    /\ NumberOf(Text("zero")) = Number("zero") /\ NumberOf(Number("zero")) = Number("zero")
    /\ NumberOf(Text("zero_0")) = Number("zero")
    /\ NumberOf(Text("one")) = Number("one") /\ NumberOf(Number("one")) = Number("one")
    /\ NumberOf(Text("one_0")) = Number("one")
    /\ NumberOf(Text("two")) = Number("two") /\ NumberOf(Number("two")) = Number("two")
    /\ NumberOf(Text("two_0")) = Number("two")
    /\ NumberOf(Text("half")) = Number("half") /\ NumberOf(Number("half")) = Number("half")
<1>1. ASSUME NEW v, v.js = "number" PROVE NumberOf(v) = v
  BY <1>1 DEF NumberOf
<1>2. ASSUME NEW v, v.js = "string", v.of \in DOMAIN NumberOfText PROVE NumberOf(v) = Number(NumberOfText[v.of])
  BY <1>2 DEF NumberOf
<1>3. ASSUME NEW o \in DOMAIN NumberOfText PROVE NumberOf(Text(o)) = Number(NumberOfText[o])
  <2>1. Text(o).js = "string" /\ Text(o).of = o
    BY Spelled
  <2> QED BY <1>2, <2>1
<1>4. ASSUME NEW o PROVE NumberOf(Number(o)) = Number(o)
  <2>1. Number(o).js = "number"
    BY Spelled
  <2> QED BY <1>1, <2>1
<1>5. /\ {"zero", "zero_0", "one", "one_0", "two", "two_0", "half"} \subseteq DOMAIN NumberOfText
      /\ NumberOfText["zero"] = "zero" /\ NumberOfText["zero_0"] = "zero" /\ NumberOfText["one"] = "one"
      /\ NumberOfText["one_0"] = "one" /\ NumberOfText["two"] = "two" /\ NumberOfText["two_0"] = "two"
      /\ NumberOfText["half"] = "half"
  BY DEF NumberOfText
<1> QED BY <1>3, <1>4, <1>5

\* A numeral that is not too long for a double: its number, and what it means.
LEMMA NumeralsAreNumbers ==
    ASSUME NEW v, IsJsValue(v), Kind \in {"integer", "number", "decimal", "bigint"}, Means(v) # Nothing,
           v \notin {Text("big"), Text("bigger")}
    PROVE  \E o \in {"zero", "one", "two", "half"} :
              /\ o = "half" => Kind = "decimal"
              /\ Means(v) = o /\ NumberOf(v) = Number(o)
              /\ v.js \in {"string", "number"}
              /\ v.js = "number" => v = Number(o)
<1>1. \A o : Text(o).js = "string" /\ Number(o).js = "number"
  BY Spelled
<1>2. CASE v \in {Text("zero"), Number("zero"), Text("zero_0")} /\ Means(v) = "zero"
  <2>1. NumberOf(v) = Number("zero")
    BY <1>2, NumberOfNumerals
  <2>2. v.js \in {"string", "number"} /\ (v.js = "number" => v = Number("zero"))
    BY <1>1, <1>2
  <2> QED BY <1>2, <2>1, <2>2
<1>3. CASE v \in {Text("one"), Number("one"), Text("one_0")} /\ Means(v) = "one"
  <2>1. NumberOf(v) = Number("one")
    BY <1>3, NumberOfNumerals
  <2>2. v.js \in {"string", "number"} /\ (v.js = "number" => v = Number("one"))
    BY <1>1, <1>3
  <2> QED BY <1>3, <2>1, <2>2
<1>4. CASE v \in {Text("two"), Number("two"), Text("two_0")} /\ Means(v) = "two"
  <2>1. NumberOf(v) = Number("two")
    BY <1>4, NumberOfNumerals
  <2>2. v.js \in {"string", "number"} /\ (v.js = "number" => v = Number("two"))
    BY <1>1, <1>4
  <2> QED BY <1>4, <2>1, <2>2
<1>5. CASE Kind = "decimal" /\ v \in {Text("half"), Number("half")} /\ Means(v) = "half"
  <2>1. NumberOf(v) = Number("half")
    BY <1>5, NumberOfNumerals
  <2>2. v.js \in {"string", "number"} /\ (v.js = "number" => v = Number("half"))
    BY <1>1, <1>5
  <2> QED BY <1>5, <2>1, <2>2
<1> QED BY <1>2, <1>3, <1>4, <1>5, Numerals

\* As a number, as its text, and as SQLite's text for a REAL.
LEMMA NumbersMean ==
    ASSUME Kind \in {"integer", "number", "decimal", "bigint"},
           NEW o \in {"zero", "one", "two", "half"}, o = "half" => Kind = "decimal"
    PROVE  Means(Number(o)) = o /\ Means(Text(o)) = o /\ Means(Text(RealText[o])) = o
<1>1. /\ RealText["zero"] = "zero_0" /\ RealText["one"] = "one_0"
      /\ RealText["two"] = "two_0" /\ RealText["half"] = "half"
  BY DEF RealText
<1> QED BY <1>1, MeansOfNumerals

\* A setting as the theorems take it: its column is the one the declared field
\* became.
Live == setting \in Settings /\ NumericKey(setting.field) /\ Created

LEMMA NumeralsAreKept ==
    ASSUME Live, setting.cast = "none", setting.field.type \in {"number", "decimal", "bigint"},
           NEW s, IsJsValue(s), Means(s) # Nothing, Keeps(s) \notin {Refused, Null},
           setting.dialect = "mssql" /\ setting.field.type = "decimal" => s \notin {Text("big"), Text("bigger")}
    PROVE  Means(Keeps(s)) = Means(s)
<1>1. Kind = setting.field.type
  BY DEF Kind
<1>2. s # Null /\ s # Text("empty")
  <2>1. s.js \in {"string", "number"}
    BY <1>1 DEF Means, Kind
  <2>2. s.of # "empty"
    BY <1>1 DEF Means, Kind, Pointed, Digits
  <2>3. Null.js = "null"
    BY DEF Null, V
  <2>4. Text("empty").of = "empty"
    BY Spelled
  <2> QED BY <2>1, <2>2, <2>3, <2>4
<1>3. CASE s \in {Text("big"), Text("bigger")}
  <2>0. /\ Text("big").js = "string" /\ Text("bigger").js = "string"
        /\ Text("big").of = "big" /\ Text("bigger").of = "bigger"
    BY Spelled
  <2>1. s.js = "string" /\ s = Text(s.of) /\ s.of \in {"big", "bigger"}
    BY <1>3, <2>0
  <2>2. setting.field.type # "number"
    BY <1>1, <2>1 DEF Means, Kind, Pointed
  <2>3. CASE setting.dialect = "sqlite"
    <3>1. Shape = "text"
      BY <1>3, <2>2, <2>3, Shapes DEF Live
    <3> QED BY <1>2, <2>1, <2>3, <3>1, SqliteKeepsText
  <2>4. CASE setting.dialect # "sqlite"
    <3>1. Shape = "digits"
      BY <1>3, <2>2, <2>4, Shapes DEF Live
    <3>2. Keeps(s) = s
      BY <1>2, <2>1, <2>4, <3>1, ServerKeepsShape
    <3> QED BY <3>2
  <2> QED BY <2>3, <2>4
<1>4. CASE s \notin {Text("big"), Text("bigger")}
  <2>1. PICK o \in {"zero", "one", "two", "half"} :
              /\ o = "half" => Kind = "decimal"
              /\ Means(s) = o /\ NumberOf(s) = Number(o)
              /\ s.js \in {"string", "number"}
              /\ s.js = "number" => s = Number(o)
    BY <1>1, <1>4, NumeralsAreNumbers
  <2>2. Means(Number(o)) = o /\ Means(Text(o)) = o /\ Means(Text(RealText[o])) = o
    BY <1>1, <2>1, NumbersMean
  <2>3. Number(o).of = o
    BY Spelled
  <2>4. CASE setting.dialect = "sqlite" /\ setting.field.type = "number"
    <3>1. Shape = "number"
      BY <2>4, Shapes DEF Live
    <3>2. Keeps(s) = NumberOf(s)
      BY <1>2, <2>1, <2>3, <2>4, <3>1, SqliteKeepsNumber
    <3> QED BY <2>1, <2>2, <3>2
  <2>5. CASE setting.dialect = "sqlite" /\ setting.field.type # "number"
    <3>1. Shape = "text"
      BY <2>5, Shapes DEF Live
    <3>2. Keeps(s) = IF s.js = "number" THEN Text(RealText[s.of]) ELSE s
      BY <1>2, <2>5, <3>1, SqliteKeepsText
    <3> QED BY <2>1, <2>2, <2>3, <3>2
  <2>6. CASE setting.dialect # "sqlite" /\ setting.field.type = "number"
    <3>1. Shape = "number" /\ column.base # "decimal"
      BY <2>6, Shapes DEF Live
    <3>2. o # "half"
      BY <1>1, <2>1, <2>6
    <3>3. Keeps(s) = NumberOf(s)
      BY <1>2, <2>1, <2>3, <2>6, <3>1, <3>2, ServerKeepsShape
    <3> QED BY <2>1, <2>2, <3>3
  <2>7. CASE setting.dialect = "mssql" /\ setting.field.type = "decimal"
    <3>1. Shape = "number" /\ column.base = "decimal"
      BY <2>7, Shapes DEF Live
    <3>2. Keeps(s) = NumberOf(s)
      BY <1>2, <2>7, <3>1, ServerKeepsShape
    <3> QED BY <2>1, <2>2, <3>2
  <2>8. CASE /\ setting.dialect # "sqlite" /\ setting.field.type # "number"
             /\ ~ (setting.dialect = "mssql" /\ setting.field.type = "decimal")
    <3>1. Shape = "digits"
      BY <2>8, Shapes DEF Live
    <3>2. Keeps(s) = Text(IF s.js = "string" THEN s.of ELSE NumberOf(s).of)
      BY <1>2, <2>8, <3>1, ServerKeepsShape
    <3>3. s.js = "string" => s = Text(s.of)
      BY ValuesAre DEF Text
    <3>4. s.js = "string" => Keeps(s) = s
      BY <3>2, <3>3
    <3>5. s.js = "number" => Keeps(s) = Text(o)
      BY <2>1, <2>3, <3>2
    <3> QED BY <2>1, <2>2, <3>4, <3>5
  <2> QED BY <2>4, <2>5, <2>6, <2>7, <2>8
<1> QED BY <1>3, <1>4

LEMMA FlagCases ==
    ASSUME NEW v, Kind = "boolean", Means(v) # Nothing
    PROVE  \/ v \in {Bool("true"), Number("one"), Text("one")} /\ Means(v) = "true"
              /\ NumberOf(v) = Number("one") /\ toBool(v) = Bool("true")
           \/ v \in {Bool("false"), Number("zero"), Text("zero")} /\ Means(v) = "false"
              /\ NumberOf(v) = Number("zero") /\ toBool(v) = Bool("false")
<1>1. \/ v \in {Bool("true"), Number("one"), Text("one")} /\ Means(v) = "true"
      \/ v \in {Bool("false"), Number("zero"), Text("zero")} /\ Means(v) = "false"
  BY DEF Means, Kind
<1>2. NumberOf(Bool("true")) = Number("one") /\ NumberOf(Bool("false")) = Number("zero")
  BY DEF NumberOf, Bool, V
<1>3. /\ v = Bool("true") \/ v = Number("one") \/ v = Text("one") => toBool(v) = Bool("true")
      /\ v = Bool("false") \/ v = Number("zero") \/ v = Text("zero") => toBool(v) = Bool("false")
  BY DEF toBool, Bool, Number, Text, V
<1> QED BY <1>1, <1>2, <1>3, NumberOfNumerals

LEMMA FlagsMean ==
    ASSUME Kind = "boolean"
    PROVE  /\ Means(Bool("true")) = "true" /\ Means(Number("one")) = "true"
           /\ Means(Bool("false")) = "false" /\ Means(Number("zero")) = "false"
<1>1. ASSUME NEW v, v \in {Bool("true"), Number("one"), Text("one")} PROVE Means(v) = "true"
  BY <1>1 DEF Means, Kind
<1>2. {Bool("true"), Number("one"), Text("one")} \cap {Bool("false"), Number("zero"), Text("zero")} = {}
  BY DEF Bool, Number, Text, V
<1>3. ASSUME NEW v, v \in {Bool("false"), Number("zero"), Text("zero")} PROVE Means(v) = "false"
  BY <1>2, <1>3 DEF Means, Kind
<1> QED BY <1>1, <1>3

LEMMA FlagsAreKept ==
    ASSUME Live, setting.cast = "none", setting.field.type = "boolean",
           NEW s, IsJsValue(s), Means(s) # Nothing, Keeps(s) \notin {Refused, Null}
    PROVE  Means(Keeps(s)) = Means(s)
<1>1. Kind = "boolean"
  BY DEF Kind
<1>2. PICK o \in {"one", "zero"} : NumberOf(s) = Number(o) /\ Means(s) = Means(Number(o)) /\ Means(toBool(s)) = Means(s)
  BY <1>1, FlagCases, FlagsMean
<1>3. s # Null /\ s # Text("empty")
  <2>1. {Bool("true"), Number("one"), Text("one"), Bool("false"), Number("zero"), Text("zero")} \cap {Null, Text("empty")} = {}
    BY DEF Bool, Number, Text, Null, V
  <2> QED BY <1>1, <2>1, FlagCases
<1>4. Number(o).of = o
  BY Spelled
<1>5. CASE setting.dialect = "sqlite"
  <2>1. Shape = "number"
    BY <1>5, Shapes DEF Live
  <2>2. Keeps(s) = NumberOf(s)
    BY <1>2, <1>3, <1>4, <1>5, <2>1, SqliteKeepsNumber
  <2> QED BY <1>2, <2>2
<1>6. CASE setting.dialect = "mysql"
  <2>1. Shape = "number" /\ column.base # "decimal"
    BY <1>6, Shapes DEF Live
  <2>2. Keeps(s) = NumberOf(s)
    BY <1>2, <1>3, <1>4, <1>6, <2>1, ServerKeepsShape
  <2> QED BY <1>2, <2>2
<1>7. CASE setting.dialect \notin {"sqlite", "mysql"}
  <2>1. Shape = "boolean"
    BY <1>7, Shapes DEF Live
  <2>2. Keeps(s) = toBool(s)
    BY <1>3, <1>7, <2>1, ServerKeepsShape
  <2> QED BY <1>2, <2>2
<1> QED BY <1>5, <1>6, <1>7

\* Times, by the Date or the text that says them.
LEMMA TimesMean ==
    ASSUME Kind = "datetime"
    PROVE  /\ \A o \in {"moment", "instant"} : Means(Date(o)) = "moment" /\ Means(Text(o)) = "moment"
           /\ Means(Date("midnight")) = "midnight" /\ Means(Text("midnight")) = "midnight" /\ Means(Text("day")) = "midnight"
<1>1. ASSUME NEW v, v \in {Date("moment"), Date("instant"), Text("moment"), Text("instant")} PROVE Means(v) = "moment"
  BY <1>1 DEF Means, Kind
<1>2. {Date("moment"), Date("instant"), Text("moment"), Text("instant")}
        \cap {Date("midnight"), Text("midnight"), Text("day")} = {}
  BY DEF Date, Text, V
<1>3. ASSUME NEW v, v \in {Date("midnight"), Text("midnight"), Text("day")} PROVE Means(v) = "midnight"
  BY <1>2, <1>3 DEF Means, Kind
<1> QED BY <1>1, <1>3

LEMMA OutDates ==
    /\ \A o \in {"moment", "instant", "midnight"} : outDate(Date(o)) = Date(o) /\ outDate(Text(o)) = Date(o)
    /\ outDate(Text("day")) = Date("midnight") /\ outDate(Date("mar1")) = Date("mar1")
    /\ outDate(Text("mar1")) = Date("mar1")
<1>1. ASSUME NEW v, v.js = "Date", v.of # "bad" PROVE outDate(v) = v
  BY <1>1 DEF outDate
<1>2. ASSUME NEW v, v.js = "string", v.of \in DOMAIN DateOfStamp PROVE outDate(v) = Date(DateOfStamp[v.of])
  BY <1>2 DEF outDate, DateOfStamp, DateOfText
<1>3. ASSUME NEW v, v.js = "string", v.of \in DOMAIN DateOfText PROVE outDate(v) = Date(DateOfText[v.of])
  BY <1>3 DEF outDate, DateOfStamp, DateOfText
<1>4. ASSUME NEW o, o # "bad" PROVE outDate(Date(o)) = Date(o)
  <2>1. Date(o).js = "Date" /\ Date(o).of = o
    BY Spelled
  <2> QED BY <1>1, <1>4, <2>1
<1>5. ASSUME NEW o \in DOMAIN DateOfStamp PROVE outDate(Text(o)) = Date(DateOfStamp[o])
  <2>1. Text(o).js = "string" /\ Text(o).of = o
    BY Spelled
  <2> QED BY <1>2, <2>1
<1>6. ASSUME NEW o \in DOMAIN DateOfText PROVE outDate(Text(o)) = Date(DateOfText[o])
  <2>1. Text(o).js = "string" /\ Text(o).of = o
    BY Spelled
  <2> QED BY <1>3, <2>1
<1>7. /\ {"moment", "midnight", "mar1"} \subseteq DOMAIN DateOfStamp
      /\ DateOfStamp["moment"] = "moment" /\ DateOfStamp["midnight"] = "midnight" /\ DateOfStamp["mar1"] = "mar1"
      /\ {"instant", "day"} \subseteq DOMAIN DateOfText
      /\ DateOfText["instant"] = "instant" /\ DateOfText["day"] = "midnight"
  BY DEF DateOfStamp, DateOfText
<1> QED BY <1>4, <1>5, <1>6, <1>7

LEMMA TimesAreKept ==
    ASSUME Live, setting.cast = "none", setting.field.type = "datetime",
           NEW s, IsJsValue(s), Means(s) # Nothing, Keeps(s) \notin {Refused, Null}
    PROVE  Means(Keeps(s)) = Means(s)
<1>1. Kind = "datetime"
  BY DEF Kind
<1>2. \/ s \in {Date("moment"), Date("instant"), Text("moment"), Text("instant")}
      \/ s \in {Date("midnight"), Text("midnight"), Text("day")}
  BY <1>1 DEF Means, Kind
<1>3. s # Null /\ s.js # "number"
  BY <1>2 DEF Date, Text, Null, V
<1>4. CASE setting.dialect = "sqlite"
  <2>1. Shape = "text"
    BY <1>4, Shapes DEF Live
  <2> QED BY <1>3, <1>4, <2>1, SqliteKeepsText
<1>5. CASE setting.dialect # "sqlite"
  <2>1. Shape = "Date"
    BY <1>5, Shapes DEF Live
  <2>2. Keeps(s) = outDate(s)
    BY <1>3, <1>5, <2>1, ServerKeepsShape
  <2>3. \/ s \in {Date("moment"), Text("moment")} /\ outDate(s) = Date("moment")
        \/ s \in {Date("instant"), Text("instant")} /\ outDate(s) = Date("instant")
        \/ s \in {Date("midnight"), Text("midnight"), Text("day")} /\ outDate(s) = Date("midnight")
    BY <1>2, OutDates
  <2> QED BY <1>1, <2>2, <2>3, TimesMean
<1> QED BY <1>4, <1>5

LEMMA DaysAreKept ==
    ASSUME Live, setting.cast = "none", setting.field.type = "date",
           NEW s, IsJsValue(s), Means(s) # Nothing, Keeps(s) \notin {Refused, Null}
    PROVE  Means(Keeps(s)) = Means(s)
<1>1. Kind = "date"
  BY DEF Kind
<1>2. ASSUME NEW v PROVE Means(v) = IF v \in {Text("day"), Date("midnight")} THEN "day" ELSE Nothing
  BY <1>1 DEF Means, Kind
<1>3. s \in {Text("day"), Date("midnight")}
  BY <1>2
<1>4. Text("day").js = "string" /\ Text("day").of = "day" /\ Date("midnight").js = "Date" /\ Null.js = "null"
  BY Spelled DEF Null, V
<1>5. CASE setting.dialect = "sqlite"
  <2>1. Shape = "number"
    BY <1>5, Shapes DEF Live
  <2>2. s = Text("day") /\ s # Null
    BY <1>3, <1>4, <1>5, <2>1, SqliteKeepsNumber
  <2>3. NumberOf(s) = Number("NaN")
    BY <1>4, <2>2 DEF NumberOf, NumberOfText
  <2>4. Number("NaN").of = "NaN"
    BY Spelled
  <2>5. Keeps(s) = s
    BY <1>5, <2>1, <2>2, <2>3, <2>4, SqliteKeepsNumber
  <2> QED BY <2>5
<1>6. CASE setting.dialect # "sqlite"
  <2>1. Shape = "Date"
    BY <1>6, Shapes DEF Live
  <2>2. Keeps(s) = outDate(s)
    BY <1>3, <1>4, <1>6, <2>1, ServerKeepsShape
  <2>3. outDate(s) = Date("midnight")
    BY <1>3, OutDates
  <2> QED BY <1>2, <1>3, <2>2, <2>3
<1> QED BY <1>5, <1>6

\* Text columns: a string is kept as it is.
LEMMA WordsAreKept ==
    ASSUME Live, setting.field.type \in {"string", "uuid", "enum"},
           NEW s, IsJsValue(s), s.js \in {"string", "json string"}, Keeps(s) \notin {Refused, Null}
    PROVE  Keeps(s) = s
<1>1. Shape = "text"
  <2>1. CASE setting.dialect = "sqlite"
    BY <2>1, Shapes DEF Live
  <2>2. CASE setting.dialect # "sqlite"
    BY <2>2, Shapes DEF Live
  <2> QED BY <2>1, <2>2
<1>2. s # Null
  <2>1. Null.js = "null"
    BY DEF Null, V
  <2> QED BY <2>1
<1> QED BY <1>1, <1>2, SqliteKeepsText, ServerKeepsShape

LEMMA PlainIsKept ==
    ASSUME Live, setting.cast = "none", NEW s, IsJsValue(s), Means(s) # Nothing, Keeps(s) \notin {Refused, Null},
           setting.dialect = "mssql" /\ setting.field.type = "decimal" => s \notin {Text("big"), Text("bigger")}
    PROVE  Means(Keeps(s)) = Means(s)
<1>1. setting.field.type \in Types
  BY SettingsAssumption DEF Live, IsField
<1>2. CASE setting.field.type \in {"string", "uuid", "enum"}
  <2>1. Kind = setting.field.type
    BY DEF Kind
  <2>2. s.js = "string"
    <3>1. CASE Kind = "uuid"
      <4>1. s = Text("uuid")
        BY <3>1 DEF Means, Kind
      <4> QED BY <4>1, Spelled
    <3>2. CASE Kind \in {"string", "enum"}
      BY <2>1, <3>2 DEF Means, Kind
    <3> QED BY <1>2, <2>1, <3>1, <3>2
  <2> QED BY <1>2, <2>2, WordsAreKept
<1> QED BY <1>1, <1>2, NumeralsAreKept, FlagsAreKept, TimesAreKept, DaysAreKept DEF Types

-----------------------------------------------------------------------------
(* Casts. *)

LEMMA FitsCases ==
    ASSUME Live, Fits(setting)
    PROVE  /\ setting.cast \in CastTypes
           /\ setting.cast = "boolean" => setting.field.type \in {"number", "boolean"}
           /\ setting.cast = "integer" => setting.field.type = "number"
           /\ setting.cast = "datetime" => setting.field.type \in {"string", "datetime"}
           /\ setting.cast = "json" => setting.field.type = "string"
<1>1. setting.cast \in CastTypes
  BY SettingsAssumption DEF Live
<1>2. /\ CastColumns["boolean"] = {"number", "boolean"} /\ CastColumns["integer"] = {"number"}
      /\ CastColumns["datetime"] = {"string", "datetime"} /\ CastColumns["json"] = {"string"}
  BY DEF CastColumns
<1> QED BY <1>1, <1>2 DEF Fits

LEMMA JsonParseGives ==
    ASSUME NEW v, IsJsValue(v), JsonParse(v) # CastError
    PROVE  /\ JsonParse(v).js \in {"string", "number", "boolean", "null", "object"}
           /\ JsonParse(v) # Number("NaN")
<1>1. CASE v.js = "json string"
  <2>1. JsonParse(v) = Text(v.of)
    BY <1>1 DEF JsonParse
  <2> QED BY <2>1 DEF Text, Number, V
<1>2. CASE v.js = "string" /\ v.of \in DOMAIN JsonOfText
  <2>1. JsonParse(v) = JsonOfText[v.of]
    BY <1>2 DEF JsonParse
  <2>2. ASSUME NEW o \in DOMAIN JsonOfText
        PROVE  JsonOfText[o] \in {Number("zero"), Number("one"), Number("two"), Number("half"), Number("whole"),
                  Number("epoch"), Number("rounded"), Bool("true"), Bool("false"), Null, Object}
    BY DEF JsonOfText
  <2>3. Null.js = "null" /\ Object.js = "object"
    BY DEF Null, Object, V
  <2>4. \A o : Number(o).js = "number" /\ Number(o).of = o /\ Bool(o).js = "boolean"
    BY Spelled
  <2> QED BY <1>2, <2>1, <2>2, <2>3, <2>4
<1> QED BY <1>1, <1>2 DEF JsonParse

\* What was encoded is decoded.
LEMMA JsonBack ==
    ASSUME NEW w, IsJsValue(w), w.js \notin {"json string", "undefined"}
    PROVE  JsonParse(JsonText(w)) = IF w \in {Number("NaN"), Date("bad")} THEN Null
                                    ELSE IF w.js \in {"string", "Date"} THEN Text(w.of) ELSE w
<1>1. ASSUME NEW o \in DOMAIN JsonOfText PROVE JsonParse(Text(o)) = JsonOfText[o]
  <2>1. Text(o).js = "string" /\ Text(o).of = o
    BY Spelled
  <2> QED BY <2>1 DEF JsonParse
<1>2. CASE w \in {Number("NaN"), Date("bad")}
  <2>1. "null" \in DOMAIN JsonOfText /\ JsonOfText["null"] = Null
    BY DEF JsonOfText
  <2> QED BY <1>1, <1>2, <2>1 DEF JsonText
<1>3. CASE w \notin {Number("NaN"), Date("bad")} /\ w.js \in {"string", "Date"}
  <2>1. JsonText(w) = Quoted(w.of)
    BY <1>3 DEF JsonText
  <2>2. Quoted(w.of).js = "json string" /\ Quoted(w.of).of = w.of
    BY Spelled
  <2> QED BY <1>3, <2>1, <2>2 DEF JsonParse
<1>4. CASE w \notin {Number("NaN"), Date("bad")} /\ w.js \notin {"string", "Date"}
  <2>1. JsonText(w) = Text(w.of)
    BY <1>4 DEF JsonText
  <2>2. w = V(w.js, w.of)
    BY ValuesAre
  <2>3. CASE w.js = "number"
    <3>1. w = Number(w.of) /\ w.of \in Numbers \ {"NaN"}
      BY <1>4, <2>2, <2>3, ValuesAre DEF Number
    <3>2. ASSUME NEW o \in Numbers \ {"NaN"} PROVE o \in DOMAIN JsonOfText /\ JsonOfText[o] = Number(o)
      <4>1. /\ JsonOfText["zero"] = Number("zero") /\ JsonOfText["one"] = Number("one")
            /\ JsonOfText["two"] = Number("two") /\ JsonOfText["half"] = Number("half")
            /\ JsonOfText["whole"] = Number("whole") /\ JsonOfText["epoch"] = Number("epoch")
            /\ JsonOfText["rounded"] = Number("rounded")
        BY DEF JsonOfText
      <4>2. {"zero", "one", "two", "half", "whole", "epoch", "rounded"} \subseteq DOMAIN JsonOfText
        BY DEF JsonOfText
      <4> QED BY <4>1, <4>2 DEF Numbers
    <3>3. JsonParse(Text(w.of)) = w
      BY <1>1, <3>1, <3>2
    <3> QED BY <1>4, <2>1, <3>3
  <2>4. CASE w.js = "boolean"
    <3>1. w = Bool(w.of) /\ w.of \in {"true", "false"}
      BY <2>2, <2>4, ValuesAre DEF Bool
    <3>2. ASSUME NEW o \in {"true", "false"} PROVE o \in DOMAIN JsonOfText /\ JsonOfText[o] = Bool(o)
      <4>1. JsonOfText["true"] = Bool("true") /\ JsonOfText["false"] = Bool("false")
        BY DEF JsonOfText
      <4>2. {"true", "false"} \subseteq DOMAIN JsonOfText
        BY DEF JsonOfText
      <4> QED BY <4>1, <4>2
    <3>3. JsonParse(Text(w.of)) = w
      BY <1>1, <3>1, <3>2
    <3> QED BY <1>4, <2>1, <3>3
  <2>5. CASE w.js \in {"object", "null"}
    <3>1. w.of = w.js /\ (w.js = "object" => w = Object) /\ (w.js = "null" => w = Null)
      BY <2>2, <2>5, ValuesAre DEF Object, Null
    <3>2. /\ "object" \in DOMAIN JsonOfText /\ JsonOfText["object"] = Object
          /\ "null" \in DOMAIN JsonOfText /\ JsonOfText["null"] = Null
      BY DEF JsonOfText
    <3> QED BY <1>1, <1>4, <2>1, <2>5, <3>1, <3>2
  <2> QED BY <1>4, <2>3, <2>4, <2>5, ValuesAre
<1> QED BY <1>2, <1>3, <1>4

\* A JSON cast stores a text that says the value, and reads it back.
LEMMA JsonStored ==
    ASSUME NEW v, IsJsValue(v), v \notin {Null, Undefined}, inValue("json", v) # CastError
    PROVE  /\ inValue("json", v).js \in {"string", "json string"}
           /\ LET w == IF v.js \in Strings THEN JsonParse(v) ELSE v
              IN  /\ IsJsValue(w)
                  /\ outValue("json", inValue("json", v)) =
                       IF w \in {Number("NaN"), Date("bad")} THEN Null
                       ELSE IF w.js \in {"string", "Date"} THEN Text(w.of) ELSE w
<1> DEFINE w == IF v.js \in Strings THEN JsonParse(v) ELSE v
<1>1. v.js \in Strings => outValue("json", v) = JsonParse(v)
  BY DEF outValue
<1>2. v.js \in Strings => JsonParse(v) # CastError /\ inValue("json", v) = JsonText(JsonParse(v))
  BY <1>1 DEF inValue, StorageOf
<1>3. v.js \notin Strings => inValue("json", v) = JsonText(v)
  BY DEF inValue
<1>4. inValue("json", v) = JsonText(w)
  BY <1>2, <1>3
<1>5. IsJsValue(w) /\ w.js \notin {"json string", "undefined"}
  <2>1. CASE v.js \in Strings
    BY <1>2, <2>1, JsonParseIsAValue, JsonParseGives
  <2>2. CASE v.js \notin Strings
    <3>1. v.js = "undefined" => v = Undefined
      BY ValuesAre DEF Undefined
    <3> QED BY <2>2, <3>1 DEF Strings
  <2> QED BY <2>1, <2>2
<1> HIDE DEF w
<1>6. JsonText(w).js \in {"string", "json string"}
  <2>1. \A o : Text(o).js = "string" /\ Quoted(o).js = "json string"
    BY Spelled
  <2> QED BY <2>1, JsonTextIsAText
<1>7. JsonText(w) \notin {Null, Undefined}
  <2>1. Null.js = "null" /\ Undefined.js = "undefined"
    BY DEF Null, Undefined, V
  <2> QED BY <1>6, <2>1
<1>8. outValue("json", JsonText(w)) = JsonParse(JsonText(w))
  BY <1>6, <1>7 DEF outValue, Strings
<1> QED BY <1>4, <1>5, <1>6, <1>8, JsonBack DEF w

\* Only NULL, and SQLite's NaN, are kept as NULL.
LEMMA KeptNull ==
    ASSUME NEW v, IsJsValue(v), Keeps(v) = Null
    PROVE  v = Null \/ (v = Number("NaN") /\ setting.dialect = "sqlite")
<1> SUFFICES ASSUME v # Null, ~ (v = Number("NaN") /\ setting.dialect = "sqlite") PROVE FALSE
  OBVIOUS
<1>1. Null.js = "null" /\ Refused.js = "refused" /\ CastError.js = "CastError"
  BY DEF Null, Refused, CastError, V
<1>2. \A o : Text(o).js = "string" /\ Number(o).js = "number" /\ Bool(o).js = "boolean" /\ Date(o).js = "Date"
  BY Spelled
<1>3. NumberOf(v).js = "number"
  BY <1>2, NumberOfIsANumber
<1>4. CASE setting.dialect = "sqlite"
  <2>1. SqliteKeeps(v) \in {Refused, NumberOf(v), Text(RealText[v.of]), v}
    BY <1>4 DEF SqliteKeeps
  <2> QED BY <1>1, <1>2, <1>3, <1>4, <2>1 DEF Keeps
<1>5. CASE setting.dialect # "sqlite"
  <2> DEFINE n == IF v = Text("empty") \/ v.js = "Date" THEN Number("NaN") ELSE NumberOf(v)
  <2>1. n.js = "number" /\ (IntKeeps(v, n) = Refused \/ IntKeeps(v, n).js = "number")
    BY <1>2, <1>3 DEF IntKeeps
  <2>2. toBool(v) # Null
    BY <1>1, <1>2, ToBoolCases DEF Undefined, V
  <2>3. outDate(v) = CastError \/ outDate(v) = v \/ outDate(v).js = "Date"
    BY <1>2 DEF outDate
  <2>4. CASE Shape = "number"
    BY <1>1, <1>5, <2>1, <2>4 DEF Keeps, ServerKeeps
  <2>5. CASE Shape = "boolean"
    BY <1>1, <1>5, <2>2, <2>5 DEF Keeps, ServerKeeps
  <2>6. CASE Shape = "Date"
    BY <1>1, <1>5, <2>3, <2>6 DEF Keeps, ServerKeeps
  <2>7. CASE Shape = "digits"
    BY <1>1, <1>2, <1>5, <2>7 DEF Keeps, ServerKeeps
  <2>8. CASE Shape \notin {"number", "boolean", "Date", "digits"}
    BY <1>1, <1>2, <1>5, <2>8 DEF Keeps, ServerKeeps
  <2> QED BY <2>4, <2>5, <2>6, <2>7, <2>8
<1> QED BY <1>4, <1>5

LEMMA OutNumbers ==
    /\ outValue("boolean", Number("one")) = Bool("true") /\ outValue("boolean", Number("zero")) = Bool("false")
    /\ outValue("boolean", Bool("true")) = Bool("true") /\ outValue("boolean", Bool("false")) = Bool("false")
    /\ \A o \in Numbers \ {"NaN"} : outValue("integer", Number(o)) = Number(IF o = "half" THEN "two" ELSE o)
<1>1. /\ toBool(Number("one")) = Bool("true") /\ toBool(Bool("true")) = Bool("true")
      /\ toBool(Number("zero")) = Bool("false") /\ toBool(Bool("false")) = Bool("false")
  BY DEF toBool, Number, Bool, Text, V
<1>2. /\ {Number("one"), Number("zero"), Bool("true"), Bool("false")} \cap {Null, Undefined} = {}
      /\ Bool("true") # Undefined /\ Bool("false") # Undefined
  BY DEF Number, Bool, Null, Undefined, V
<1>3. ASSUME NEW v \in {Number("one"), Number("zero"), Bool("true"), Bool("false")}
      PROVE  outValue("boolean", v) = toBool(v)
  BY <1>1, <1>2 DEF outValue
<1>4. ASSUME NEW o \in Numbers \ {"NaN"} PROVE outValue("integer", Number(o)) = Number(IF o = "half" THEN "two" ELSE o)
  <2>1. Number(o).js = "number" /\ Number(o).of = o /\ Number("NaN").of = "NaN"
    BY Spelled
  <2>2. NumberOf(Number(o)) = Number(o)
    BY <2>1 DEF NumberOf
  <2>3. Null.js = "null" /\ Undefined.js = "undefined"
    BY DEF Null, Undefined, V
  <2>4. outValue("integer", Number(o)) = Trunc(Number(o))
    BY <2>1, <2>2, <2>3 DEF outValue
  <2> QED BY <2>4, TruncIsANumber
<1> QED BY <1>1, <1>3, <1>4

\* What a cast stored is read back from any column it fits as it would be
\* without the column.
LEMMA StoredSurvives ==
    ASSUME Live, Fits(setting), setting.cast # "none",
           NEW v, IsJsValue(v), v \notin {Null, Undefined}, in(v) # CastError, Keeps(in(v)) # Refused
    PROVE  /\ out(in(v)) # CastError
           /\ out(Keeps(in(v))) = out(in(v))
<1> DEFINE s == in(v)
<1>1. IsJsValue(s) /\ setting.cast \in CastTypes \ {"none"} /\ inValue(setting.cast, v) # CastError
  <2>1. setting.cast \in CastTypes
    BY FitsCases
  <2> QED BY <2>1, InValueIsAValue DEF in
<1>2. Null.js = "null" /\ CastError.js = "CastError"
  BY DEF Null, CastError, V
<1>3. CASE setting.cast = "boolean"
  <2>1. PICK o \in {"one", "zero"} : s = Number(o)
    BY <1>1, <1>3, StoredByCast DEF in
  <2>2. Number(o).js = "number" /\ Number(o).of = o
    BY Spelled
  <2>3. s # Null /\ s # Number("NaN")
    BY <2>1, <2>2, Kinds
  <2>4. Keeps(s) # Null
    BY <1>1, <2>3, KeptNull
  <2>5. NumberOf(s) = s /\ s # Text("empty")
    BY <2>1, <2>2, Kinds, NumberOfNumerals
  <2>6. toBool(s) = out(s) /\ out(s) \in {Bool("true"), Bool("false")}
    BY <1>3, <2>1, OutNumbers DEF out, toBool, Number, Text, Bool, V
  <2>7. Keeps(s) \in {s, toBool(s)}
    <3>1. CASE setting.dialect = "sqlite"
      BY <1>1, <1>3, <2>3, <2>4, <2>5, <3>1, Shapes, FitsCases, SqliteKeepsNumber DEF Live
    <3>2. CASE setting.dialect # "sqlite"
      <4>1. (Shape = "number" /\ column.base # "decimal") \/ Shape = "boolean"
        BY <1>3, <3>2, Shapes, FitsCases DEF Live
      <4> QED BY <2>1, <2>2, <2>3, <2>5, <3>2, <4>1, ServerKeepsShape
    <3> QED BY <3>1, <3>2
  <2>8. out(toBool(s)) = out(s)
    BY <1>3, <2>6, OutNumbers DEF out
  <2>9. out(s) # CastError
    BY <2>6, Kinds
  <2> QED BY <2>7, <2>8, <2>9
<1>4. CASE setting.cast = "integer"
  <2>1. PICK o \in Numbers \ {"NaN", "half"} : s = Number(o)
    BY <1>1, <1>4, StoredByCast DEF in
  <2>2. Number(o).js = "number" /\ Number(o).of = o
    BY Spelled
  <2>3. s # Null /\ s # Number("NaN") /\ s # Text("empty")
    BY <2>1, <2>2, Kinds
  <2>4. Keeps(s) # Null
    BY <1>1, <2>3, KeptNull
  <2>5. NumberOf(s) = s
    BY <2>1, <2>2 DEF NumberOf
  <2>6. Keeps(s) = s
    <3>1. CASE setting.dialect = "sqlite"
      BY <1>1, <1>4, <2>1, <2>2, <2>3, <2>4, <2>5, <3>1, Shapes, FitsCases, SqliteKeepsNumber DEF Live
    <3>2. CASE setting.dialect # "sqlite"
      <4>1. Shape = "number" /\ column.base # "decimal"
        BY <1>4, <3>2, Shapes, FitsCases DEF Live
      <4> QED BY <2>1, <2>2, <2>3, <2>5, <3>2, <4>1, ServerKeepsShape
    <3> QED BY <3>1, <3>2
  <2>7. out(s) = Number(o)
    BY <1>4, <2>1, OutNumbers DEF out
  <2> QED BY <1>2, <2>2, <2>6, <2>7
<1>5. CASE setting.cast = "datetime"
  <2>1. PICK o \in {"moment", "midnight", "mar1"} : s = Text(o)
    BY <1>1, <1>5, StoredByCast DEF in, Dates
  <2>2. Text(o).js = "string" /\ Text(o).of = o /\ Date(o).js = "Date"
    BY Spelled
  <2>3. s # Null /\ s # Number("NaN") /\ s # Undefined
    BY <2>1, <2>2, Kinds
  <2>4. Keeps(s) # Null
    BY <1>1, <2>3, KeptNull
  <2>5. outDate(s) = Date(o) /\ outDate(Date(o)) = Date(o)
    BY <2>1, OutDates
  <2>6. out(s) = Date(o)
    BY <1>5, <2>3, <2>5 DEF out, outValue
  <2>7. Keeps(s) \in {s, outDate(s)}
    <3>1. CASE setting.dialect = "sqlite"
      BY <1>1, <1>5, <2>1, <2>2, <2>3, <2>4, <3>1, Shapes, FitsCases, SqliteKeepsText DEF Live
    <3>2. CASE setting.dialect # "sqlite"
      <4>1. Shape \in {"Date", "text"}
        BY <1>5, <3>2, Shapes, FitsCases DEF Live
      <4> QED BY <2>1, <2>2, <2>3, <3>2, <4>1, ServerKeepsShape
    <3> QED BY <3>1, <3>2
  <2>8. out(Date(o)) = Date(o)
    <3>1. Date(o) \notin {Null, Undefined}
      BY <1>2, <2>2 DEF Undefined, V
    <3> QED BY <1>5, <2>5, <3>1 DEF out, outValue
  <2> QED BY <1>2, <2>2, <2>5, <2>6, <2>7, <2>8
<1>6. CASE setting.cast = "json"
  <2>1. s.js \in {"string", "json string"}
    BY <1>1, <1>6, JsonStored DEF in
  <2>2. s # Null /\ s # Number("NaN")
    BY <2>1, Kinds
  <2>3. Keeps(s) # Null
    BY <1>1, <2>2, KeptNull
  <2>4. Keeps(s) = s
    BY <1>1, <1>6, <2>1, <2>3, FitsCases, WordsAreKept
  <2>5. out(s) # CastError
    <3>1. PICK w : IsJsValue(w) /\ out(s) = IF w \in {Number("NaN"), Date("bad")} THEN Null
                                   ELSE IF w.js \in {"string", "Date"} THEN Text(w.of) ELSE w
      BY <1>1, <1>6, JsonStored DEF in, out
    <3>2. IsJsValue(out(s))
      BY <3>1, ConstantsAreValues
    <3> QED BY <3>2, ConstantsAreValues
  <2> QED BY <2>4, <2>5
<1> QED BY <1>1, <1>3, <1>4, <1>5, <1>6 DEF CastTypes

LEMMA JsonsMean ==
    ASSUME Kind = "json"
    PROVE  /\ Means(Text("red")) = "red" /\ Means(Object) = "object"
           /\ \A v : v.of \in {"true", "false", "two", "half"} => Means(v) = v.of
<1>1. ASSUME NEW v
      PROVE  Means(v) = IF v \in {Quoted("red"), Text("red")} THEN "red"
                        ELSE IF v \in {Object, Text("object")} THEN "object"
                        ELSE IF v.of \in {"true", "false", "two", "half"} THEN v.of ELSE Nothing
  BY <1>1 DEF Means, Kind
<1>2. /\ Quoted("red").of = "red" /\ Text("red").of = "red"
      /\ Object.of = "object" /\ Text("object").of = "object"
  BY Spelled DEF Object, V
<1> QED BY <1>1, <1>2

\* A cast reads back what it stored with the meaning it had.
LEMMA CastKeepsMeaning ==
    ASSUME Live, Fits(setting), setting.cast # "none",
           NEW v, IsJsValue(v), v \notin {Null, Undefined}, in(v) # CastError, Means(v) # Nothing
    PROVE  Means(out(in(v))) = Means(v)
<1>1. Kind = setting.cast /\ setting.cast \in CastTypes \ {"none"}
  BY FitsCases DEF Kind
<1>2. CASE setting.cast = "boolean"
  <2>1. \/ toBool(v) = Bool("true") /\ Means(v) = "true"
        \/ toBool(v) = Bool("false") /\ Means(v) = "false"
    BY <1>1, <1>2, FlagCases
  <2>2. toBool(v) # Undefined
    BY <2>1, Kinds
  <2>3. outValue("boolean", v) = toBool(v) /\ toBool(v) # CastError
    BY <1>2, <2>1, <2>2, Kinds DEF outValue
  <2>4. in(v) = Number(IF toBool(v) = Bool("true") THEN "one" ELSE "zero")
    BY <1>2, <2>3 DEF in, inValue, StorageOf
  <2>5. Bool("true") # Bool("false")
    BY DEF Bool, V
  <2>6. out(in(v)) = toBool(v)
    BY <1>2, <2>1, <2>4, <2>5, OutNumbers DEF out
  <2> QED BY <1>1, <1>2, <2>1, <2>6, FlagsMean
<1>3. CASE setting.cast = "integer"
  <2>1. v \notin {Text("big"), Text("bigger")}
    <3>1. /\ Text("big").js = "string" /\ Text("bigger").js = "string"
          /\ Text("big").of = "big" /\ Text("bigger").of = "bigger"
      BY Spelled
    <3> QED BY <1>1, <1>3, <3>1 DEF Means, Kind, Pointed
  <2>2. PICK o \in {"zero", "one", "two", "half"} :
              /\ o = "half" => Kind = "decimal"
              /\ Means(v) = o /\ NumberOf(v) = Number(o)
              /\ v.js \in {"string", "number"}
              /\ v.js = "number" => v = Number(o)
    BY <1>1, <1>3, <2>1, NumeralsAreNumbers
  <2>3. Number(o).js = "number" /\ Number(o).of = o
    BY Spelled
  <2>4. outValue("integer", v) = Number(o) /\ Number(o) # CastError
    <3>1. Trunc(Number(o)) = Number(o)
      BY <1>1, <1>3, <2>2, TruncIsANumber DEF Numbers
    <3> QED BY <2>2, <2>3, <3>1, Kinds DEF outValue
  <2>5. in(v) = Number(o)
    BY <1>3, <2>4 DEF in, inValue, StorageOf
  <2>6. out(in(v)) = Number(o)
    BY <1>1, <1>3, <2>2, <2>5, OutNumbers DEF out, Numbers
  <2> QED BY <1>1, <1>3, <2>2, <2>6, NumbersMean
<1>4. CASE setting.cast = "datetime"
  <2>1. \/ v \in {Date("moment"), Date("instant"), Text("moment"), Text("instant")} /\ Means(v) = "moment"
        \/ v \in {Date("midnight"), Text("midnight"), Text("day")} /\ Means(v) = "midnight"
    BY <1>1, <1>4 DEF Means, Kind
  <2>2. \/ outDate(v) \in {Date("moment"), Date("instant")} /\ Means(v) = "moment"
        \/ outDate(v) = Date("midnight") /\ Means(v) = "midnight"
    BY <2>1, OutDates
  <2>3. /\ Date("moment").of = "moment" /\ Date("instant").of = "instant" /\ Date("midnight").of = "midnight"
        /\ Date("moment").js = "Date" /\ Date("instant").js = "Date" /\ Date("midnight").js = "Date"
    BY Spelled
  <2>4. in(v) = StampOf(outDate(v))
    BY <1>4, <2>2, <2>3, Kinds DEF in, inValue, outValue, StorageOf
  <2>5. \/ in(v) = Text("moment") /\ Means(v) = "moment"
        \/ in(v) = Text("midnight") /\ Means(v) = "midnight"
    BY <2>2, <2>3, <2>4 DEF StampOf
  <2>6. /\ Text("moment").js = "string" /\ Text("midnight").js = "string"
    BY Spelled
  <2>7. out(in(v)) = outDate(in(v))
    BY <1>4, <2>5, <2>6, Kinds DEF out, outValue
  <2>8. \/ out(in(v)) = Date("moment") /\ Means(v) = "moment"
        \/ out(in(v)) = Date("midnight") /\ Means(v) = "midnight"
    BY <2>5, <2>7, OutDates
  <2> QED BY <1>1, <1>4, <2>8, TimesMean
<1>5. CASE setting.cast = "json"
  <2>1. \/ v \in {Quoted("red"), Text("red")} /\ Means(v) = "red"
        \/ v \in {Object, Text("object")} /\ Means(v) = "object"
        \/ v.of \in {"true", "false", "two", "half"} /\ Means(v) = v.of
    BY <1>1, <1>5 DEF Means, Kind
  <2> DEFINE w == IF v.js \in Strings THEN JsonParse(v) ELSE v
  <2>2. out(in(v)) = IF w \in {Number("NaN"), Date("bad")} THEN Null
                     ELSE IF w.js \in {"string", "Date"} THEN Text(w.of) ELSE w
    BY <1>5, JsonStored DEF in, out
  <2>3. v.js \in Strings => JsonParse(v) # CastError
    BY <1>5, Kinds DEF in, inValue, outValue
  <2>4. v.js = "string" => v = Text(v.of) /\ v.of \in DOMAIN JsonOfText /\ JsonParse(v) = JsonOfText[v.of]
    BY <2>3, ValuesAre DEF JsonParse, Strings, Text
  <2>5. v.js = "json string" => v = Quoted(v.of) /\ JsonParse(v) = Text(v.of)
    BY ValuesAre DEF JsonParse, Quoted
  <2>6. CASE v \in {Quoted("red"), Text("red")} /\ Means(v) = "red"
    <3>1. /\ Quoted("red").js = "json string" /\ Quoted("red").of = "red"
          /\ Text("red").js = "string" /\ Text("red").of = "red"
      BY Spelled
    <3>2. "red" \notin DOMAIN JsonOfText
      BY DEF JsonOfText
    <3>3. v = Quoted("red") /\ w = Text("red")
      BY <2>4, <2>5, <2>6, <3>1, <3>2 DEF Strings
    <3>4. out(in(v)) = Text("red")
      <4>1. Text("red") # Number("NaN") /\ Text("red") # Date("bad")
        BY DEF Text, Number, Date, V
      <4> QED BY <2>2, <3>1, <3>3, <4>1
    <3> QED BY <1>1, <1>5, <2>6, <3>4, JsonsMean
  <2>7. CASE v \in {Object, Text("object")} /\ Means(v) = "object"
    <3>1. Text("object").js = "string" /\ Text("object").of = "object" /\ JsonOfText["object"] = Object
      BY Spelled DEF JsonOfText
    <3>2. w = Object
      BY <2>4, <2>7, <3>1, Kinds DEF Strings
    <3>3. out(in(v)) = Object
      <4>1. Object # Number("NaN") /\ Object # Date("bad")
        BY DEF Object, Number, Date, V
      <4> QED BY <2>2, <3>2, <4>1, Kinds
    <3> QED BY <1>1, <1>5, <2>7, <3>3, JsonsMean
  <2>8. CASE v.of \in {"true", "false", "two", "half"} /\ Means(v) = v.of
    <3>1. w.of = v.of
      <4>1. /\ JsonOfText["true"] = Bool("true") /\ JsonOfText["false"] = Bool("false")
            /\ JsonOfText["two"] = Number("two") /\ JsonOfText["half"] = Number("half")
        BY DEF JsonOfText
      <4>2. /\ Bool("true").of = "true" /\ Bool("false").of = "false"
            /\ Number("two").of = "two" /\ Number("half").of = "half" /\ Text(v.of).of = v.of
        BY Spelled
      <4>3. CASE v.js = "string"
        BY <2>4, <2>8, <4>1, <4>2, <4>3 DEF Strings
      <4>4. CASE v.js = "json string"
        BY <2>5, <4>2, <4>4 DEF Strings
      <4>5. CASE v.js \notin {"string", "json string"}
        BY <4>5 DEF Strings
      <4> QED BY <4>3, <4>4, <4>5
    <3>2. w \notin {Number("NaN"), Date("bad")}
      <4>1. Number("NaN").of = "NaN" /\ Date("bad").of = "bad"
        BY Spelled
      <4> QED BY <2>8, <3>1, <4>1
    <3>3. out(in(v)).of = v.of
      <4>1. Text(w.of).of = w.of
        BY Spelled
      <4>2. out(in(v)) \in {Text(w.of), w}
        BY <2>2, <3>2
      <4> QED BY <3>1, <4>1, <4>2
    <3> QED BY <1>1, <1>5, <2>8, <3>3, JsonsMean
  <2> QED BY <2>1, <2>6, <2>7, <2>8
<1> QED BY <1>1, <1>2, <1>3, <1>4, <1>5 DEF CastTypes

LEMMA OutDateIsADate ==
    ASSUME NEW v, IsJsValue(v), outDate(v) # CastError
    PROVE  \E o \in Dates \ {"bad"} : outDate(v) = Date(o)
<1>1. /\ v.of \in DOMAIN DateOfStamp => DateOfStamp[v.of] \in Dates \ {"bad"}
      /\ v.of \in DOMAIN DateOfText => DateOfText[v.of] \in Dates \ {"bad"}
  BY DEF DateOfStamp, DateOfText, Dates
<1>2. v.js = "Date" => v = Date(v.of) /\ v.of \in Dates
  BY ValuesAre DEF Date
<1>3. \/ v.js = "Date" /\ v.of # "bad" /\ outDate(v) = v
      \/ v.of \in DOMAIN DateOfStamp /\ outDate(v) = Date(DateOfStamp[v.of])
      \/ v.of \in DOMAIN DateOfText /\ outDate(v) = Date(DateOfText[v.of])
  BY DEF outDate
<1> QED BY <1>1, <1>2, <1>3

\* A declared default that the cast reads is read from the column, too, and
\* with the meaning it was declared with.
LEMMA DefaultSurvives ==
    ASSUME Live, Fits(setting), setting.cast # "none",
           NEW v, IsJsValue(v), v.js = "string", out(v) # CastError, Keeps(v) # Refused
    PROVE  /\ out(Keeps(v)) # CastError
           /\ Means(v) # Nothing => Means(out(Keeps(v))) = Means(v)
<1>1. Kind = setting.cast /\ setting.cast \in CastTypes \ {"none"}
  BY FitsCases DEF Kind
<1>2. v # Null /\ v # Undefined /\ Keeps(v) # Null
  BY Kinds, KeptNull
<1>3. CASE setting.cast = "boolean"
  <2>1. out(v) = toBool(v) /\ toBool(v) # Undefined
    BY <1>2, <1>3 DEF out, outValue
  <2>2. toBool(v) \in {Bool("true"), Bool("false")}
    BY <2>1, ToBoolCases, Kinds
  <2>3. \/ v = Text("one") /\ toBool(v) = Bool("true")
        \/ v \in {Text("zero"), Text("empty")} /\ toBool(v) = Bool("false")
    <3>1. /\ Bool("true").js = "boolean" /\ Bool("false").js = "boolean"
          /\ Number("one").js = "number" /\ Number("zero").js = "number"
      BY Spelled
    <3> QED BY <2>2, <3>1, ToBoolCases
  <2>4. Keeps(v) \in {v, toBool(v)} \/ (v # Text("empty") /\ Keeps(v) = NumberOf(v))
    <3>1. CASE setting.dialect = "sqlite"
      BY <1>2, <1>3, <3>1, Shapes, FitsCases, SqliteKeepsNumber DEF Live
    <3>2. CASE setting.dialect # "sqlite"
      <4>1. (Shape = "number" /\ column.base # "decimal") \/ Shape = "boolean"
        BY <1>3, <3>2, Shapes, FitsCases DEF Live
      <4>2. v # Text("empty") => NumberOf(v).of # "half"
        <5>1. Number("one").of = "one" /\ Number("zero").of = "zero"
          BY Spelled
        <5> QED BY <2>3, <5>1, NumberOfNumerals
      <4> QED BY <1>2, <3>2, <4>1, <4>2, ServerKeepsShape
    <3> QED BY <3>1, <3>2
  <2>5. out(toBool(v)) = toBool(v)
    BY <1>3, <2>2, OutNumbers DEF out
  <2>6. v # Text("empty") => out(NumberOf(v)) = toBool(v)
    BY <1>3, <2>3, NumberOfNumerals, OutNumbers DEF out
  <2>7. out(Keeps(v)) = toBool(v)
    BY <2>1, <2>4, <2>5, <2>6
  <2>8. Means(v) # Nothing => Means(toBool(v)) = Means(v)
    BY <1>1, <1>3, FlagCases, FlagsMean
  <2> QED BY <2>2, <2>7, <2>8, Kinds
<1>4. CASE setting.cast = "integer"
  <2>1. PICK o \in Numbers : NumberOf(v) = Number(o)
    BY NumberOfIsANumber
  <2>2. Number(o).of = o
    BY Spelled
  <2>3. o # "NaN" /\ out(v) = Number(IF o = "half" THEN "two" ELSE o)
    BY <1>2, <1>4, <2>1, TruncIsANumber DEF out, outValue
  <2>4. \/ Keeps(v) = NumberOf(v)
        \/ Keeps(v) = v /\ v = Text("empty")
        \/ Keeps(v) = Number("whole") /\ o = "half"
    <3>1. CASE setting.dialect = "sqlite"
      BY <1>2, <1>4, <2>1, <2>2, <2>3, <3>1, Shapes, FitsCases, SqliteKeepsNumber DEF Live
    <3>2. CASE setting.dialect # "sqlite"
      <4>1. Shape = "number" /\ column.base # "decimal"
        BY <1>4, <3>2, Shapes, FitsCases DEF Live
      <4> QED BY <1>2, <2>1, <2>2, <3>2, <4>1, ServerKeepsShape
    <3> QED BY <3>1, <3>2
  <2>5. out(NumberOf(v)) = out(v)
    BY <1>4, <2>1, <2>3, OutNumbers DEF out
  <2>6. out(Number("whole")) # CastError
    <3>1. out(Number("whole")) = Number("whole")
      BY <1>4, OutNumbers DEF out, Numbers
    <3>2. Number("whole").js = "number"
      BY Spelled
    <3> QED BY <3>1, <3>2, Kinds
  <2>7. ASSUME Means(v) # Nothing PROVE Means(out(Keeps(v))) = Means(v)
    <3>0. v \notin {Text("big"), Text("bigger"), Text("empty")}
      <4>1. /\ Text("big").js = "string" /\ Text("bigger").js = "string" /\ Text("empty").js = "string"
            /\ Text("big").of = "big" /\ Text("bigger").of = "bigger" /\ Text("empty").of = "empty"
        BY Spelled
      <4> QED BY <1>1, <1>4, <2>7, <4>1 DEF Means, Kind, Pointed, Digits
    <3>1. PICK p \in {"zero", "one", "two", "half"} :
              /\ p = "half" => Kind = "decimal"
              /\ Means(v) = p /\ NumberOf(v) = Number(p)
              /\ v.js \in {"string", "number"}
              /\ v.js = "number" => v = Number(p)
      BY <1>1, <1>4, <2>7, <3>0, NumeralsAreNumbers
    <3>2. p # "half" /\ Number(p).of = p
      BY <1>1, <1>4, <3>1, Spelled
    <3>3. o = p
      BY <2>1, <2>2, <3>1, <3>2
    <3>4. out(Keeps(v)) = Number(p)
      BY <2>3, <2>4, <2>5, <3>0, <3>2, <3>3
    <3> QED BY <1>1, <1>4, <3>1, <3>2, <3>4, NumbersMean
  <2> QED BY <2>4, <2>5, <2>6, <2>7
<1>5. CASE setting.cast = "datetime"
  <2>1. out(v) = outDate(v) /\ outDate(v) # CastError
    BY <1>2, <1>5 DEF out, outValue
  <2>2. PICK o \in Dates \ {"bad"} : outDate(v) = Date(o)
    BY <2>1, OutDateIsADate
  <2>3. Date(o).js = "Date" /\ Date(o).of = o
    BY Spelled
  <2>4. out(outDate(v)) = outDate(v)
    BY <1>5, <2>2, <2>3, Kinds DEF out, outValue, outDate
  <2>5. Keeps(v) \in {v, outDate(v)}
    <3>1. CASE setting.dialect = "sqlite"
      BY <1>2, <1>5, <3>1, Shapes, FitsCases, SqliteKeepsText DEF Live
    <3>2. CASE setting.dialect # "sqlite"
      <4>1. Shape \in {"Date", "text"}
        BY <1>5, <3>2, Shapes, FitsCases DEF Live
      <4> QED BY <1>2, <3>2, <4>1, ServerKeepsShape
    <3> QED BY <3>1, <3>2
  <2>6. out(Keeps(v)) = outDate(v)
    BY <2>1, <2>4, <2>5
  <2>7. ASSUME Means(v) # Nothing PROVE Means(outDate(v)) = Means(v)
    <3>1. \/ v \in {Date("moment"), Date("instant"), Text("moment"), Text("instant")} /\ Means(v) = "moment"
          \/ v \in {Date("midnight"), Text("midnight"), Text("day")} /\ Means(v) = "midnight"
      BY <1>1, <1>5, <2>7 DEF Means, Kind
    <3>2. \/ outDate(v) \in {Date("moment"), Date("instant")} /\ Means(v) = "moment"
          \/ outDate(v) = Date("midnight") /\ Means(v) = "midnight"
      BY <3>1, OutDates
    <3> QED BY <1>1, <1>5, <3>2, TimesMean
  <2> QED BY <2>1, <2>6, <2>7
<1>6. CASE setting.cast = "json"
  <2>1. Keeps(v) = v
    BY <1>2, <1>6, FitsCases, WordsAreKept
  <2>2. out(v) = JsonParse(v) /\ v.of \in DOMAIN JsonOfText /\ JsonParse(v) = JsonOfText[v.of]
    BY <1>2, <1>6 DEF out, outValue, Strings, JsonParse
  <2>3. ASSUME Means(v) # Nothing PROVE Means(out(v)) = Means(v)
    <3>1. \/ v \in {Quoted("red"), Text("red")} /\ Means(v) = "red"
          \/ v \in {Object, Text("object")} /\ Means(v) = "object"
          \/ v.of \in {"true", "false", "two", "half"} /\ Means(v) = v.of
      BY <1>1, <1>6, <2>3 DEF Means, Kind
    <3>2. v \notin {Quoted("red"), Text("red"), Object}
      <4>1. Quoted("red").js = "json string" /\ Text("red").of = "red"
        BY Spelled
      <4>2. "red" \notin DOMAIN JsonOfText
        BY DEF JsonOfText
      <4> QED BY <2>2, <4>1, <4>2, Kinds
    <3>3. /\ JsonOfText["true"] = Bool("true") /\ JsonOfText["false"] = Bool("false")
          /\ JsonOfText["two"] = Number("two") /\ JsonOfText["half"] = Number("half")
          /\ JsonOfText["object"] = Object
      BY DEF JsonOfText
    <3>4. /\ Bool("true").of = "true" /\ Bool("false").of = "false"
          /\ Number("two").of = "two" /\ Number("half").of = "half" /\ Text("object").of = "object"
      BY Spelled
    <3>5. CASE v = Text("object") /\ Means(v) = "object"
      BY <1>1, <1>6, <2>2, <3>3, <3>4, <3>5, JsonsMean
    <3>6. CASE v.of \in {"true", "false", "two", "half"} /\ Means(v) = v.of
      <4>1. out(v).of = v.of
        BY <2>2, <3>3, <3>4, <3>6
      <4> QED BY <1>1, <1>6, <3>6, <4>1, JsonsMean
    <3> QED BY <3>1, <3>2, <3>5, <3>6
  <2> QED BY <2>1, <2>3
<1> QED BY <1>1, <1>3, <1>4, <1>5, <1>6 DEF CastTypes

-----------------------------------------------------------------------------
(* What a save leaves. *)

\* A SQL Server client reads a DECIMAL as a number, with 2^53 for its limit.
NotTooLong(v) ==
    setting.dialect = "mssql" /\ setting.field.type = "decimal" => v \notin {Text("big"), Text("bigger")}

LEMMA KeptIsNotTooLong ==
    ASSUME Live, Fits(setting), NEW v, IsJsValue(v), Keeps(v) # Refused
    PROVE  NotTooLong(out(Keeps(v)))
<1> SUFFICES ASSUME setting.dialect = "mssql", setting.field.type = "decimal"
             PROVE  out(Keeps(v)) \notin {Text("big"), Text("bigger")}
  BY DEF NotTooLong
<1>1. setting.cast = "none"
  BY FitsCases DEF CastTypes
<1>2. out(Keeps(v)) = Keeps(v)
  BY <1>1 DEF out, outValue
<1>3. Shape = "number" /\ column.base = "decimal"
  BY Shapes DEF Live
<1>4. Keeps(v).js \in {"null", "number"}
  <2>1. CASE v = Null
    BY <2>1, Kinds DEF Keeps
  <2>2. CASE v # Null
    <3>1. Keeps(v) = NumberOf(v)
      BY <1>3, <2>2, ServerKeepsShape
    <3>2. PICK o \in Numbers : NumberOf(v) = Number(o)
      BY NumberOfIsANumber
    <3>3. Number(o).js = "number"
      BY Spelled
    <3> QED BY <3>1, <3>2, <3>3
  <2> QED BY <2>1, <2>2
<1>5. Text("big").js = "string" /\ Text("bigger").js = "string"
  BY Spelled
<1> QED BY <1>2, <1>4, <1>5

LEMMA NullMeansNothing == Means(Null) = Nothing /\ Means(Undefined) = Nothing
<1>1. ASSUME NEW v \in {Null, Undefined} PROVE Means(v) = Nothing
  <2>1. v.js \in {"null", "undefined"} /\ v.of \in {"null", "undefined"}
    BY DEF Null, Undefined, V
  <2>2. \A o : /\ Bool(o).js = "boolean" /\ Number(o).js = "number" /\ Text(o).js = "string"
               /\ Date(o).js = "Date" /\ Quoted(o).js = "json string"
    BY Spelled
  <2>3. Object.js = "object"
    BY Kinds
  <2> QED BY <2>1, <2>2, <2>3 DEF Means
<1> QED BY <1>1

LEMMA NullIsNull ==
    ASSUME NEW v \in {Null, Undefined}
    PROVE  in(v) = v /\ out(v) = v
BY DEF in, out, inValue, outValue

\* save() of a value: it can be read back, and the row and the instance mean
\* what the value meant.
LEMMA SavedValue ==
    ASSUME Live, Fits(setting), NEW v, IsJsValue(v), v # Undefined, NotTooLong(v),
           in(v) # CastError, Keeps(in(v)) # Refused
    PROVE  /\ IsJsValue(Keeps(in(v))) /\ IsJsValue(out(in(v)))
           /\ out(Keeps(in(v))) # CastError /\ out(in(v)) # CastError
           /\ Means(v) # Nothing /\ Reads(Keeps(in(v))) => Means(out(Keeps(in(v)))) = Means(v)
           /\ Means(out(in(v))) # Nothing /\ Reads(Keeps(in(v))) => Means(out(in(v))) = Means(out(Keeps(in(v))))
           /\ NotTooLong(out(in(v))) /\ NotTooLong(out(Keeps(in(v))))
<1>1. IsJsValue(in(v)) /\ setting.cast \in CastTypes
  BY FitsCases, InValueIsAValue DEF in
<1>2. IsJsValue(Keeps(in(v)))
  BY <1>1, KeepsAValue
<1>3. IsJsValue(out(in(v))) \/ out(in(v)) = CastError
  BY <1>1, OutValueIsAValue DEF out
<1>4. NotTooLong(out(Keeps(in(v))))
  BY <1>1, KeptIsNotTooLong
<1>5. CASE v = Null
  <2>1. in(v) = Null /\ out(Null) = Null
    BY <1>5, NullIsNull
  <2>2. Keeps(Null) = Null
    BY <2>1 DEF Keeps
  <2>3. NotTooLong(Null)
    BY <1>5
  <2> QED BY <1>2, <1>5, <2>1, <2>2, <2>3, Kinds, ConstantsAreValues, NullMeansNothing
<1>6. CASE v # Null /\ setting.cast = "none"
  <2>1. \A w : in(w) = w /\ out(w) = w
    BY <1>6 DEF in, out, inValue, outValue
  <2>2. ~ IsJsValue(CastError)
    BY ConstantsAreValues
  <2>3. Means(v) # Nothing /\ Reads(Keeps(v)) => Means(Keeps(v)) = Means(v)
    BY <1>6, <2>1, PlainIsKept DEF NotTooLong, Reads
  <2> QED BY <1>2, <1>4, <2>1, <2>2, <2>3
<1>7. CASE v # Null /\ setting.cast # "none"
  <2>1. out(in(v)) # CastError /\ out(Keeps(in(v))) = out(in(v))
    BY <1>7, StoredSurvives
  <2>2. Means(v) # Nothing => Means(out(in(v))) = Means(v)
    BY <1>7, CastKeepsMeaning
  <2> QED BY <1>2, <1>3, <1>4, <2>1, <2>2
<1> QED BY <1>5, <1>6, <1>7

\* An INSERT without the column leaves its default, with its meaning.
LEMMA DefaultedValue ==
    ASSUME Live, Fits(setting), ReadableDefault(setting), Default # Refused
    PROVE  /\ IsJsValue(Default) /\ out(Default) # CastError /\ IsJsValue(out(Default))
           /\ NotTooLong(out(Default))
           /\ LET default == IF setting.field.default = Now THEN Text("moment") ELSE setting.field.default
              IN  default \notin {AutoKey, Undefined} /\ Means(default) # Nothing =>
                     Means(out(Default)) = Means(default)
<1> DEFINE d == setting.field.default
           e == IF d = Now THEN Text("moment") ELSE d
<1>1. setting.cast \in CastTypes /\ setting.dialect \in Dialects /\ IsField(setting.field)
  BY SettingsAssumption DEF Live
<1>2. IsJsValue(d) /\ (d.js = "string" \/ d = Undefined)
  <2>1. IsJsValue(d) /\ d.js \in {"string", "undefined"}
    BY <1>1 DEF IsField
  <2>2. d.js = "undefined" => d = Undefined
    BY <2>1, ValuesAre DEF Undefined
  <2> QED BY <2>1, <2>2
<1>3. (column.auto <=> d = AutoKey) /\ column.default = IF d = AutoKey THEN Undefined ELSE d
  BY DEF Live, Created, buildCreateTable, columnSql, structColumns, defaultSql
<1>4. Now # AutoKey /\ Now # Undefined /\ AutoKey # Undefined /\ Text("moment") # AutoKey /\ Text("moment") # Undefined
  BY DEF Now, AutoKey, Text, Undefined, V
<1>5. CASE d = AutoKey
  <2>1. Default = Number("one")
    BY <1>3, <1>4, <1>5 DEF Default
  <2>2. setting.field.type = "number"
    BY <1>5 DEF Live, NumericKey
  <2>3. setting.cast \in {"none", "boolean", "integer"}
    BY <1>1, <2>2, FitsCases DEF CastTypes
  <2>4. out(Number("one")) \in {Number("one"), Bool("true")}
    <3>1. setting.cast = "none" => out(Number("one")) = Number("one")
      BY DEF out, outValue
    <3>2. setting.cast = "integer" => out(Number("one")) = Number("one")
      BY OutNumbers DEF out, Numbers
    <3>3. setting.cast = "boolean" => out(Number("one")) = Bool("true")
      BY OutNumbers DEF out
    <3> QED BY <2>3, <3>1, <3>2, <3>3
  <2>5. IsJsValue(Number("one")) /\ IsJsValue(Bool("true")) /\ ~ IsJsValue(CastError)
    BY ConstantsAreValues DEF Numbers
  <2>6. NotTooLong(out(Default))
    BY <2>2 DEF NotTooLong
  <2> QED BY <1>4, <1>5, <2>1, <2>4, <2>5, <2>6
<1>6. CASE d = Undefined
  <2>1. Default = Keeps(Null)
    BY <1>3, <1>4, <1>6 DEF Default
  <2>2. Default = Null
    BY <2>1 DEF Keeps
  <2>3. out(Null) = Null /\ IsJsValue(Null) /\ ~ IsJsValue(CastError)
    BY NullIsNull, ConstantsAreValues
  <2>4. NotTooLong(Null)
    <3>1. Text("big").js = "string" /\ Text("bigger").js = "string"
      BY Spelled
    <3> QED BY <3>1, Kinds DEF NotTooLong
  <2> QED BY <1>4, <1>6, <2>2, <2>3, <2>4
<1>7. CASE d \notin {AutoKey, Undefined}
  <2>1. Default = Keeps(e)
    BY <1>3, <1>4, <1>7 DEF Default
  <2>2. IsJsValue(e) /\ e.js = "string"
    BY <1>2, <1>7, ConstantsAreValues, Spelled
  <2>3. IsJsValue(Keeps(e))
    BY <2>1, <2>2, KeepsAValue
  <2>4. out(e) # CastError
    BY <1>7 DEF ReadableDefault, out
  <2>5. NotTooLong(out(Keeps(e)))
    BY <2>1, <2>2, KeptIsNotTooLong
  <2>6. out(Keeps(e)) # CastError /\ (Means(e) # Nothing => Means(out(Keeps(e))) = Means(e))
    <3>1. CASE setting.cast # "none"
      BY <2>1, <2>2, <2>4, <3>1, DefaultSurvives
    <3>2. CASE setting.cast = "none"
      <4>1. out(Keeps(e)) = Keeps(e)
        BY <3>2 DEF out, outValue
      <4>2. Keeps(e) # Null
        BY <2>2, KeptNull, Kinds
      <4>3. setting.dialect = "mssql" /\ setting.field.type = "decimal" => e \notin {Text("big"), Text("bigger")}
        <5>1. Text("big").of = "big" /\ Text("bigger").of = "bigger" /\ Text("moment").of = "moment"
          BY Spelled
        <5>2. Suits(setting, d)
          BY <1>7, SettingsAssumption DEF Live
        <5>3. setting.dialect = "mssql" /\ setting.field.type = "decimal" => d.of \notin {"big", "bigger", "rounded"}
          BY <5>2 DEF Suits
        <5> QED BY <5>1, <5>3
      <4>4. Means(e) # Nothing => Means(Keeps(e)) = Means(e)
        BY <2>1, <2>2, <3>2, <4>2, <4>3, PlainIsKept
      <4>5. ~ IsJsValue(CastError)
        BY ConstantsAreValues
      <4> QED BY <2>3, <4>1, <4>4, <4>5
    <3> QED BY <3>1, <3>2
  <2>7. IsJsValue(out(Keeps(e)))
    BY <1>1, <2>3, <2>6, OutValueIsAValue DEF out
  <2> QED BY <2>1, <2>3, <2>5, <2>6, <2>7
<1> QED BY <1>5, <1>6, <1>7

-----------------------------------------------------------------------------
(* The values an instance and a row hold are JavaScript's, whatever the    *)
(* uses are.                                                               *)

ValuesInv ==
    /\ setting \in Settings
    /\ column = NoColumn \/ Created
    /\ row # NoRow => column # NoColumn /\ IsJsValue(row)
    /\ model = [bound |-> model.bound, attr |-> model.attr, orig |-> model.orig]
    /\ IsJsValue(model.attr) /\ IsJsValue(model.orig)
    /\ meant = Foreign \/ IsJsValue(meant)

LEMMA ValuesInvInit == Init => ValuesInv
<1> SUFFICES ASSUME Init PROVE ValuesInv
  OBVIOUS
<1>1. IsJsValue(Undefined)
  BY ConstantsAreValues
<1>2. /\ setting \in Settings /\ column = NoColumn /\ row = NoRow /\ meant = Undefined
      /\ model = [bound |-> FALSE, attr |-> Undefined, orig |-> Undefined]
  BY DEF Init, Fresh
<1> QED BY <1>1, <1>2 DEF ValuesInv

\* What the engine answers, and what the instance then holds.
LEMMA WroteValues ==
    ASSUME ValuesInv, column # NoColumn, NEW kept, NEW attr, Wrote(kept, attr),
           IsJsValue(kept) \/ kept = Refused, IsJsValue(attr) \/ attr = CastError
    PROVE  ValuesInv'
<1>1. setting' = setting /\ column' = column
  BY DEF Wrote, Answers
<1>2. Created' <=> Created
  BY <1>1 DEF Created
<1>3. CASE kept = Refused
  BY <1>1, <1>2, <1>3 DEF ValuesInv, Wrote
<1>4. CASE kept # Refused
  <2>1. row' = kept /\ meant' = model.attr
    BY <1>4 DEF Wrote
  <2>2. model' = model \/ (attr # CastError /\ model' = [bound |-> TRUE, attr |-> attr, orig |-> attr])
    BY <1>4 DEF Wrote
  <2> QED BY <1>1, <1>2, <1>4, <2>1, <2>2 DEF ValuesInv
<1> QED BY <1>3, <1>4

LEMMA DefaultIsAValue ==
    ASSUME setting \in Settings, Created
    PROVE  IsJsValue(Default) \/ Default = Refused
<1>1. IsJsValue(setting.field.default)
  BY SettingsAssumption DEF IsField
<1>2. (column.auto => column.default = Undefined) /\ column.default \in {Undefined, setting.field.default}
  BY DEF Created, buildCreateTable, columnSql, structColumns, defaultSql
<1>3. \A v : IsJsValue(v) => IsJsValue(Keeps(v)) \/ Keeps(v) = Refused
  BY KeepsAValue
<1>4. IsJsValue(Number("one")) /\ IsJsValue(Text("moment")) /\ IsJsValue(Null) /\ IsJsValue(Undefined)
  BY ConstantsAreValues DEF Numbers
<1>5. Default \in {Number("one"), Keeps(Text("moment")), Keeps(Null), Keeps(column.default)}
  <2>1. Now # Undefined
    BY DEF Now, Text, Undefined, V
  <2> QED BY <1>2, <2>1 DEF Default
<1> QED BY <1>1, <1>2, <1>3, <1>4, <1>5

LEMMA ValuesInvNext == ValuesInv /\ [Next]_vars => ValuesInv'
<1> SUFFICES ASSUME ValuesInv, [Next]_vars PROVE ValuesInv'
  OBVIOUS
<1>1. setting \in Settings /\ setting.cast \in CastTypes
  BY SettingsAssumption DEF ValuesInv
<1>2. \A v : IsJsValue(v) => (IsJsValue(out(v)) \/ out(v) = CastError) /\ (IsJsValue(in(v)) \/ in(v) = CastError)
  BY <1>1, OutValueIsAValue, InValueIsAValue DEF in, out
<1>3. \A v : IsJsValue(v) => IsJsValue(Keeps(v)) \/ Keeps(v) = Refused
  BY KeepsAValue
<1>4. IsJsValue(Undefined)
  BY ConstantsAreValues
<1>5. \A v \in setting.inputs : IsJsValue(v)
  BY <1>1, SettingsAssumption DEF Suits
<1>6. setting' = setting /\ column' = column => (Created' <=> Created)
  BY DEF Created
<1>7. CASE createTable
  <2>1. setting' = setting /\ column' = buildCreateTable(setting.dialect, setting.field)
    BY <1>7 DEF createTable
  <2>2. Created'
    BY <2>1 DEF Created
  <2>3. row' = row /\ model' = model /\ meant' = meant /\ column = NoColumn
    BY <1>7 DEF createTable
  <2> QED BY <2>1, <2>2, <2>3 DEF ValuesInv
<1>8. CASE SaveRefused \/ SaveClean
  BY <1>6, <1>8 DEF SaveRefused, SaveClean, Answers, ValuesInv
<1>9. CASE Insert
  <2>1. column # NoColumn /\ Created
    BY <1>9 DEF Insert, Usable, ValuesInv
  <2>2. CASE in(model.attr) = Undefined
    <3>1. Wrote(Default, IF IsAuto THEN out(Default) ELSE Undefined)
      BY <1>9, <2>2 DEF Insert
    <3>2. IsJsValue(Default) \/ Default = Refused
      BY <1>1, <2>1, DefaultIsAValue
    <3>3. CASE Default = Refused
      BY <1>6, <3>1, <3>3 DEF Wrote, Answers, ValuesInv
    <3>4. CASE Default # Refused
      BY <1>2, <1>4, <2>1, <3>1, <3>2, <3>4, WroteValues
    <3> QED BY <3>3, <3>4
  <2>3. CASE in(model.attr) # Undefined
    <3>1. Wrote(Keeps(in(model.attr)), out(in(model.attr))) /\ in(model.attr) # CastError
      BY <1>9, <2>3 DEF Insert, Violates
    <3>2. IsJsValue(in(model.attr))
      BY <1>2, <3>1 DEF ValuesInv
    <3> QED BY <1>2, <1>3, <2>1, <3>1, <3>2, WroteValues
  <2> QED BY <2>2, <2>3
<1>10. CASE Update
  <2>1. column # NoColumn /\ Wrote(Keeps(in(model.attr)), model.attr) /\ in(model.attr) # CastError
    BY <1>10 DEF Update, Usable, Violates
  <2>2. IsJsValue(in(model.attr)) /\ IsJsValue(model.attr)
    BY <1>2, <2>1 DEF ValuesInv
  <2> QED BY <1>3, <2>1, <2>2, WroteValues
<1>11. CASE load
  <2>1. IsJsValue(out(row)) \/ out(row) = CastError
    BY <1>2, <1>11 DEF load, ValuesInv
  <2>2. model' = model \/ (out(row) # CastError /\ model' = [bound |-> TRUE, attr |-> out(row), orig |-> out(row)])
    BY <1>11 DEF load
  <2>3. setting' = setting /\ column' = column /\ row' = row /\ meant' = meant
    BY <1>11 DEF load, Answers
  <2> QED BY <1>6, <2>1, <2>2, <2>3 DEF ValuesInv
<1>12. ASSUME NEW v \in setting.inputs, fill(v) PROVE ValuesInv'
  <2>1. model' = [bound |-> model.bound, attr |-> v, orig |-> model.orig]
    BY <1>12 DEF fill, ValuesInv
  <2>2. setting' = setting /\ column' = column /\ row' = row /\ meant' = meant
    BY <1>12 DEF fill
  <2> QED BY <1>5, <1>6, <2>1, <2>2 DEF ValuesInv
<1>13. ASSUME NEW v \in setting.inputs, ForeignWrite(v) PROVE ValuesInv'
  <2>1. setting' = setting /\ column' = column /\ model' = model /\ row' = Keeps(v) /\ meant' = Foreign
    BY <1>13 DEF ForeignWrite
  <2>2. column # NoColumn /\ IsJsValue(Keeps(v))
    BY <1>3, <1>5, <1>13 DEF ForeignWrite
  <2> QED BY <1>6, <2>1, <2>2 DEF ValuesInv
<1>14. CASE CommandLine
  <2>1. setting' = setting /\ column' = column /\ row' = row /\ meant' = meant /\ (model' = model \/ model' = Fresh)
    BY <1>14 DEF CommandLine, structCommand, modelCommand, EditModelFile, Restart
  <2> QED BY <1>4, <1>6, <2>1 DEF ValuesInv, Fresh
<1>15. CASE UNCHANGED vars
  BY <1>6, <1>15 DEF vars, ValuesInv
<1> QED BY <1>7, <1>8, <1>9, <1>10, <1>11, <1>12, <1>13, <1>14, <1>15 DEF Next, Model

\* An edit that means something else than the row's value is dirty, so that
\* save() writes it: valuesEqual (casts.ts:142-158) compares nothing as equal
\* that the column's type, or its cast, tells apart.  The options of an enum
\* have to be words: numerals and stamps compare by what they say.
THEOREM EditsAreSeenHolds ==
    ASSUME \A s \in Settings : s.cast = "none" /\ s.field.type = "enum" => WordOptions(s.field)
    PROVE  Spec => []EditsAreSeen
<1>1. ValuesInv => EditsAreSeen
  <2> SUFFICES ASSUME ValuesInv,
                      Means(model.attr) # Nothing, Means(model.orig) # Nothing,
                      setting.cast # "none" \/ {setting.field.type, field.type} \cap {"string", "decimal", "bigint"} = {},
                      valuesEqual(model.attr, model.orig)
               PROVE  Means(model.attr) = Means(model.orig)
    BY DEF EditsAreSeen
  <2>1. IsJsValue(model.attr) /\ IsJsValue(model.orig)
    BY DEF ValuesInv
  <2>2. setting.cast \in CastTypes /\ setting.field.type \in Types
    BY SettingsAssumption DEF ValuesInv, IsField
  <2>3. Kind \in Types \cup CastTypes /\ Kind \notin {"none", "string", "decimal", "bigint"}
    BY <2>2 DEF Kind, Types, CastTypes
  <2>4. Kind = "enum" => WordOptions(setting.field)
    BY <2>2 DEF Kind, CastTypes, ValuesInv
  <2> QED BY <2>1, <2>3, <2>4, EqualMeansAlike
<1> QED BY <1>1, ValuesInvInit, ValuesInvNext, PTL DEF Spec

-----------------------------------------------------------------------------
(* What is saved can be read, and keeps its meaning. *)

\* DefaultHolds, of what is read.
MeansDefault(v) ==
    LET default == IF setting.field.default = Now THEN Text("moment") ELSE setting.field.default
    IN  default \notin {AutoKey, Undefined} /\ Means(default) # Nothing => Means(v) = Means(default)

\* Beside MeaningKept: an instance holds nothing too long for its column, and
\* misses no value that it had; only the rows of other programs are unreadable.
LifeInv ==
    /\ ValuesInv
    /\ model.attr = Undefined => model.orig = Undefined
    /\ NotTooLong(model.attr)
    /\ row # NoRow => NotTooLong(out(row)) /\ (meant # Foreign => out(row) # CastError)
    /\ reply # "late" /\ (reply = "unreadable" => meant = Foreign)
    /\ row # NoRow /\ meant = Undefined => MeansDefault(out(row))
    /\ Reads(row) /\ Reads(meant) /\ Means(meant) # Nothing => Means(out(row)) = Means(meant)
    /\ model.bound /\ Reads(row) /\ meant # Foreign /\ Means(model.orig) # Nothing => Means(model.orig) = Means(out(row))

LEMMA LifeInvIsEnough == LifeInv => MeaningKept /\ AcceptedIsReadable
<1>1. LifeInv => DefaultHolds
  BY DEF LifeInv, DefaultHolds, MeansDefault
<1>2. LifeInv => AcceptedIsReadable
  BY DEF LifeInv, AcceptedIsReadable
<1> QED BY <1>1, <1>2 DEF LifeInv, MeaningKept

LEMMA SameUse ==
    ASSUME setting' = setting
    PROVE  \A v : /\ Means(v)' = Means(v) /\ out(v)' = out(v)
                  /\ NotTooLong(v)' <=> NotTooLong(v)
                  /\ MeansDefault(v)' <=> MeansDefault(v)
<1>1. \A v : Means(v)' = Means(v)
  BY DEF Means
<1>2. \A v : out(v)' = out(v) /\ (NotTooLong(v)' <=> NotTooLong(v))
  BY DEF out, NotTooLong
<1>3. \A v : MeansDefault(v)' <=> MeansDefault(v)
  BY <1>1 DEF MeansDefault
<1> QED BY <1>1, <1>2, <1>3

LEMMA ForeignMeansNothing == Means(Foreign) = Nothing
<1>1. Foreign.js = "foreign" /\ Foreign.of = "foreign"
  BY DEF Foreign, V
<1>2. \A o : /\ Bool(o).js = "boolean" /\ Number(o).js = "number" /\ Text(o).js = "string"
             /\ Date(o).js = "Date" /\ Quoted(o).js = "json string"
  BY Spelled
<1>3. Object.js = "object"
  BY Kinds
<1> QED BY <1>1, <1>2, <1>3 DEF Means

LEMMA LifeInvInit == Init => LifeInv
<1> SUFFICES ASSUME Init PROVE LifeInv
  OBVIOUS
<1>1. /\ row = NoRow /\ reply = "none"
      /\ model = [bound |-> FALSE, attr |-> Undefined, orig |-> Undefined]
  BY DEF Init, Fresh
<1>2. NotTooLong(Undefined)
  <2>1. Text("big").js = "string" /\ Text("bigger").js = "string"
    BY Spelled
  <2> QED BY <2>1, Kinds DEF NotTooLong
<1> QED BY <1>1, <1>2, ValuesInvInit DEF LifeInv, Reads

\* The engine's answer to a save keeps the invariant, when what the row reads
\* and the instance takes mean what was saved.
LEMMA WroteLife ==
    ASSUME LifeInv, ValuesInv', NEW kept, NEW attr, Wrote(kept, attr),
           kept # Refused =>
             /\ out(kept) # CastError /\ attr # CastError
             /\ NotTooLong(attr) /\ NotTooLong(out(kept))
             /\ model.attr = Undefined => MeansDefault(out(kept))
             /\ Means(model.attr) # Nothing /\ Reads(kept) => Means(out(kept)) = Means(model.attr)
             /\ Means(attr) # Nothing /\ Reads(kept) => Means(attr) = Means(out(kept))
    PROVE  LifeInv'
<1>1. setting' = setting
  BY DEF Wrote, Answers
<1>2. CASE kept = Refused
  <2>1. row' = row /\ meant' = meant /\ model' = model /\ reply' = "refused"
    BY <1>2 DEF Wrote, Answers
  <2> QED BY <1>1, <2>1, SameUse DEF LifeInv, Reads
<1>3. CASE kept # Refused
  <2>1. /\ row' = kept /\ meant' = model.attr /\ reply' = "saved"
        /\ model' = [bound |-> TRUE, attr |-> attr, orig |-> attr]
    BY <1>3 DEF Wrote, Answers
  <2>2. model'.attr = attr /\ model'.orig = attr /\ model.attr # Foreign
    BY <2>1, ConstantsAreValues DEF LifeInv, ValuesInv
  <2>3. out(row)' = out(kept)
    BY <1>1, <2>1, SameUse
  <2> HIDE <2>1
  <2>4. (row # NoRow => NotTooLong(out(row)) /\ (meant # Foreign => out(row) # CastError))'
    BY <1>1, <1>3, <2>3, SameUse
  <2>5. (row # NoRow /\ meant = Undefined => MeansDefault(out(row)))'
    BY <1>1, <1>3, <2>1, <2>3, SameUse
  <2>6. (Reads(row) /\ Reads(meant) /\ Means(meant) # Nothing => Means(out(row)) = Means(meant))'
    BY <1>1, <1>3, <2>1, <2>3, SameUse
  <2>7. (model.bound /\ Reads(row) /\ meant # Foreign /\ Means(model.orig) # Nothing => Means(model.orig) = Means(out(row)))'
    BY <1>1, <1>3, <2>1, <2>2, <2>3, SameUse
  <2>8. NotTooLong(model.attr)' /\ (model.attr = Undefined => model.orig = Undefined)'
    BY <1>1, <1>3, <2>2, SameUse
  <2>9. (reply # "late" /\ (reply = "unreadable" => meant = Foreign))'
    BY <2>1
  <2> QED BY <2>4, <2>5, <2>6, <2>7, <2>8, <2>9 DEF LifeInv
<1> QED BY <1>2, <1>3

\* castIn gives nothing only for nothing.
LEMMA InUndefined ==
    ASSUME setting.cast \in CastTypes, NEW v, IsJsValue(v), in(v) = Undefined
    PROVE  v = Undefined
<1> SUFFICES ASSUME v # Undefined PROVE FALSE
  OBVIOUS
<1>1. CASE setting.cast = "none" \/ v = Null
  <2>1. in(v) = v
    BY <1>1 DEF in, inValue
  <2> QED BY <2>1
<1>2. CASE setting.cast # "none" /\ v # Null
  <2>1. in(v) # CastError
    BY Kinds
  <2>2. \/ in(v) \in {Number("one"), Number("zero")}
        \/ \E o \in Numbers : in(v) = Number(o)
        \/ \E o : in(v) = Text(o) \/ in(v) = Quoted(o)
    BY <1>2, <2>1, StoredByCast, JsonTextIsAText DEF in, CastTypes
  <2>3. \A o : Number(o).js = "number" /\ Text(o).js = "string" /\ Quoted(o).js = "json string"
    BY Spelled
  <2> QED BY <2>2, <2>3, Kinds
<1> QED BY <1>1, <1>2

LEMMA InsertLife ==
    ASSUME \A s \in Settings : Sound(s), LifeInv, ValuesInv', Insert
    PROVE  LifeInv'
<1>1. column # NoColumn /\ setting \in Settings /\ IsJsValue(model.attr)
  BY DEF Insert, Usable, LifeInv, ValuesInv
<1>2. Live /\ Sound(setting)
  BY <1>1 DEF Live, Sound, LifeInv, ValuesInv
<1>3. setting.cast \in CastTypes
  BY <1>1, SettingsAssumption
<1>4. CASE in(model.attr) = Undefined
  <2>1. model.attr = Undefined
    BY <1>1, <1>3, <1>4, InUndefined
  <2>2. Wrote(Default, IF IsAuto THEN out(Default) ELSE Undefined)
    BY <1>4 DEF Insert
  <2>3. Means(Undefined) = Nothing
    BY NullMeansNothing
  <2>4. NotTooLong(Undefined) /\ Undefined # CastError
    <3>1. Text("big").js = "string" /\ Text("bigger").js = "string"
      BY Spelled
    <3> QED BY <3>1, Kinds DEF NotTooLong
  <2>5. ASSUME Default # Refused
        PROVE  /\ out(Default) # CastError /\ NotTooLong(out(Default)) /\ MeansDefault(out(Default))
    BY <1>2, <2>5, DefaultedValue DEF Sound, MeansDefault
  <2> QED BY <2>1, <2>2, <2>3, <2>4, <2>5, WroteLife
<1>5. CASE in(model.attr) # Undefined
  <2>1. Wrote(Keeps(in(model.attr)), out(in(model.attr))) /\ in(model.attr) # CastError
    BY <1>5 DEF Insert, Violates
  <2>2. model.attr # Undefined
    BY <1>5, NullIsNull
  <2>3. NotTooLong(model.attr)
    BY DEF LifeInv
  <2>4. ASSUME Keeps(in(model.attr)) # Refused
        PROVE  /\ out(Keeps(in(model.attr))) # CastError /\ out(in(model.attr)) # CastError
               /\ Means(model.attr) # Nothing /\ Reads(Keeps(in(model.attr))) =>
                     Means(out(Keeps(in(model.attr)))) = Means(model.attr)
               /\ Means(out(in(model.attr))) # Nothing /\ Reads(Keeps(in(model.attr))) =>
                     Means(out(in(model.attr))) = Means(out(Keeps(in(model.attr))))
               /\ NotTooLong(out(in(model.attr))) /\ NotTooLong(out(Keeps(in(model.attr))))
    BY <1>1, <1>2, <2>1, <2>2, <2>3, <2>4, SavedValue DEF Sound
  <2> QED BY <2>1, <2>2, <2>4, WroteLife
<1> QED BY <1>4, <1>5

LEMMA UpdateLife ==
    ASSUME \A s \in Settings : Sound(s), LifeInv, ValuesInv', Update
    PROVE  LifeInv'
<1>1. column # NoColumn /\ setting \in Settings /\ IsJsValue(model.attr)
  BY DEF Update, Usable, LifeInv, ValuesInv
<1>2. Live /\ Sound(setting)
  BY <1>1 DEF Live, Sound, LifeInv, ValuesInv
<1>3. Wrote(Keeps(in(model.attr)), model.attr) /\ in(model.attr) # CastError
  BY DEF Update, Violates
<1>4. model.attr # Undefined
  BY DEF Update, valuesEqual, LifeInv
<1>5. NotTooLong(model.attr) /\ model.attr # CastError
  BY <1>1, ConstantsAreValues DEF LifeInv
<1>6. ASSUME Keeps(in(model.attr)) # Refused
      PROVE  /\ out(Keeps(in(model.attr))) # CastError
             /\ Means(model.attr) # Nothing /\ Reads(Keeps(in(model.attr))) =>
                   Means(out(Keeps(in(model.attr)))) = Means(model.attr)
             /\ NotTooLong(out(Keeps(in(model.attr))))
  BY <1>1, <1>2, <1>3, <1>4, <1>5, <1>6, SavedValue DEF Sound
<1> QED BY <1>3, <1>4, <1>5, <1>6, WroteLife

LEMMA LoadLife ==
    ASSUME LifeInv, ValuesInv', load
    PROVE  LifeInv'
<1>1. setting' = setting /\ row' = row /\ meant' = meant /\ row # NoRow
  BY DEF load, Answers
<1>2. out(row)' = out(row)
  BY <1>1, SameUse
<1>3. setting.cast \in CastTypes /\ IsJsValue(row)
  BY <1>1, SettingsAssumption DEF LifeInv, ValuesInv
<1>4. CASE out(row) = CastError
  <2>1. reply' = "unreadable" /\ model' = model /\ meant = Foreign
    BY <1>1, <1>4 DEF load, Answers, LifeInv
  <2> QED BY <1>1, <2>1, SameUse DEF LifeInv, Reads
<1>5. CASE out(row) # CastError
  <2>1. reply' = "loaded" /\ model'.attr = out(row) /\ model'.orig = out(row)
    BY <1>5 DEF load, Answers
  <2>2. NotTooLong(model.attr)' /\ (model.attr = Undefined => model.orig = Undefined)'
    BY <1>1, <2>1, SameUse DEF LifeInv
  <2>3. (model.bound /\ Reads(row) /\ meant # Foreign /\ Means(model.orig) # Nothing => Means(model.orig) = Means(out(row)))'
    BY <1>1, <1>2, <2>1, SameUse
  <2> QED BY <1>1, <2>1, <2>2, <2>3, SameUse DEF LifeInv, Reads
<1> QED BY <1>4, <1>5

LEMMA FillLife ==
    ASSUME LifeInv, ValuesInv', NEW v \in setting.inputs, fill(v)
    PROVE  LifeInv'
<1>1. /\ setting' = setting /\ row' = row /\ meant' = meant /\ reply' = reply
      /\ model' = [bound |-> model.bound, attr |-> v, orig |-> model.orig]
  BY DEF fill, LifeInv, ValuesInv
<1>2. model'.bound = model.bound /\ model'.attr = v /\ model'.orig = model.orig
  BY <1>1
<1>3. v # Undefined /\ NotTooLong(v)
  <2>1. Suits(setting, v)
    BY SettingsAssumption DEF LifeInv, ValuesInv
  <2>2. Text("big").of = "big" /\ Text("bigger").of = "bigger"
    BY Spelled
  <2> QED BY <2>1, <2>2 DEF Suits, NotTooLong
<1> QED BY <1>1, <1>2, <1>3, SameUse DEF LifeInv, Reads

LEMMA ForeignLife ==
    ASSUME \A s \in Settings : Sound(s), LifeInv, ValuesInv', NEW v \in setting.inputs, ForeignWrite(v)
    PROVE  LifeInv'
<1>1. /\ setting' = setting /\ row' = Keeps(v) /\ meant' = Foreign /\ reply' = reply /\ model' = model
      /\ column # NoColumn /\ Keeps(v) # Refused
  BY DEF ForeignWrite
<1>2. IsJsValue(v)
  BY SettingsAssumption DEF Suits, LifeInv, ValuesInv
<1>3. Live /\ Sound(setting)
  BY <1>1 DEF Live, Sound, LifeInv, ValuesInv
<1>4. NotTooLong(out(Keeps(v)))
  BY <1>1, <1>2, <1>3, KeptIsNotTooLong DEF Sound
<1>5. Foreign # Undefined /\ Means(Foreign) = Nothing
  BY ForeignMeansNothing, Kinds
<1>6. NotTooLong(out(row))'
  BY <1>1, <1>4, SameUse
<1> QED BY <1>1, <1>5, <1>6, SameUse DEF LifeInv

LEMMA LifeInvNext ==
    ASSUME \A s \in Settings : Sound(s)
    PROVE  LifeInv /\ [Next]_vars => LifeInv'
<1> SUFFICES ASSUME LifeInv, [Next]_vars PROVE LifeInv'
  OBVIOUS
<1>1. ValuesInv'
  BY ValuesInvNext DEF LifeInv
<1>2. CASE createTable
  <2>1. setting' = setting /\ row' = row /\ meant' = meant /\ model' = model /\ reply' = reply
    BY <1>2 DEF createTable
  <2> QED BY <1>1, <2>1, SameUse DEF LifeInv, Reads
<1>3. CASE SaveRefused \/ SaveClean
  <2>1. setting' = setting /\ row' = row /\ meant' = meant /\ model' = model /\ reply' \in {"refused", "clean"}
    BY <1>3 DEF SaveRefused, SaveClean, Answers
  <2> QED BY <1>1, <2>1, SameUse DEF LifeInv, Reads
<1>4. CASE Insert \/ Update \/ load
  BY <1>1, <1>4, InsertLife, UpdateLife, LoadLife
<1>5. ASSUME NEW v \in setting.inputs, fill(v) \/ ForeignWrite(v) PROVE LifeInv'
  BY <1>1, <1>5, FillLife, ForeignLife
<1>6. CASE CommandLine
  <2>1. /\ setting' = setting /\ row' = row /\ meant' = meant
        /\ \/ model' = model /\ reply' = reply
           \/ model' = Fresh /\ reply' = "none"
    BY <1>6 DEF CommandLine, structCommand, modelCommand, EditModelFile, Restart
  <2>2. CASE model' = model /\ reply' = reply
    BY <1>1, <2>1, <2>2, SameUse DEF LifeInv, Reads
  <2>3. CASE model' = Fresh /\ reply' = "none"
    <3>1. model'.attr = Undefined /\ model'.orig = Undefined /\ model'.bound = FALSE
      BY <2>3 DEF Fresh
    <3>2. NotTooLong(Undefined)
      <4>1. Text("big").js = "string" /\ Text("bigger").js = "string"
        BY Spelled
      <4> QED BY <4>1, Kinds DEF NotTooLong
    <3> QED BY <1>1, <2>1, <2>3, <3>1, <3>2, SameUse DEF LifeInv, Reads
  <2> QED BY <2>1, <2>2, <2>3
<1>7. CASE UNCHANGED vars
  <2>1. setting' = setting /\ row' = row /\ meant' = meant /\ model' = model /\ reply' = reply
    BY <1>7 DEF vars
  <2> QED BY <1>1, <2>1, SameUse DEF LifeInv, Reads
<1> QED BY <1>2, <1>3, <1>4, <1>5, <1>6, <1>7 DEF Next, Model

\* What save() accepts can be read back, by the cast that follows the INSERT
\* and by any later load (model.ts:257-267, casts.ts): only the rows of other
\* programs are unreadable.
THEOREM AcceptedIsReadableHolds ==
    ASSUME \A s \in Settings : Sound(s)
    PROVE  Spec => []AcceptedIsReadable
BY LifeInvInit, LifeInvNext, LifeInvIsEnough, PTL DEF Spec

\* A value keeps its meaning through castIn, the validation, the column of
\* each engine, its client and castOut, and so does a declared default; and
\* what an instance takes for the row's value means what the row says
\* (casts.ts, schema.ts).
THEOREM MeaningKeptHolds ==
    ASSUME \A s \in Settings : Sound(s)
    PROVE  Spec => []MeaningKept
BY LifeInvInit, LifeInvNext, LifeInvIsEnough, PTL DEF Spec
=============================================================================
