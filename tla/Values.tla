------------------------------- MODULE Values -------------------------------
(***************************************************************************)
(* casts.ts and validation.ts over abstract JavaScript values.  A value is *)
(* its runtime kind and what it spells: Text("two_0") is '2.0',            *)
(* Date("instant") a Date with milliseconds, Text("moment") that instant   *)
(* as a stamp to the second.  Text("feb30") is the stamp of a day that     *)
(* does not exist, Date("mar1") the Date its parts roll over to.           *)
(* Quoted(o) is the JSON text of the string o.  A text of any other name   *)
(* is one that nothing takes for something else than text.                 *)
(*                                                                         *)
(* Of numbers: "half" is 2.5, "whole" the integer an INT makes of it,      *)
(* "rounded" the double that "big" and "bigger" round to, "epoch" the      *)
(* milliseconds of a Date, and a text "..._0" is a number with ".0".       *)
(***************************************************************************)
EXTENDS Naturals, FiniteSets

V(js, of)  == [js |-> js, of |-> of]
Text(o)    == V("string", o)
Quoted(o)  == V("json string", o)
Number(o)  == V("number", o)
Bool(o)    == V("boolean", o)
Date(o)    == V("Date", o)
Object     == V("object", "object")
Null       == V("null", "null")
Undefined  == V("undefined", "undefined")
CastError  == V("CastError", "CastError")    \* thrown

Strings   == {"string", "json string"}
CastTypes == {"none", "boolean", "integer", "datetime", "json"}

\* The values a program has.
Numbers  == {"zero", "one", "two", "half", "whole", "epoch", "rounded", "NaN"}
Dates    == {"moment", "midnight", "mar1", "instant", "bad"}
IsJsValue(v) ==
    /\ v = V(v.js, v.of)
    /\ v.js \in Strings \cup {"number", "boolean", "Date", "object", "null", "undefined"}
    /\ v.js = "number"  => v.of \in Numbers
    /\ v.js = "boolean" => v.of \in {"true", "false"}
    /\ v.js = "Date"    => v.of \in Dates
    /\ v.js \in {"object", "null", "undefined"} => v.of = v.js

\* What JavaScript's built-ins make of a text, as functions from what it
\* spells: Number(text), a stamp's Date, new Date(text), JSON.parse(text).
NumberOfText == [zero |-> "zero", one |-> "one", two |-> "two", half |-> "half", whole |-> "whole",
                 zero_0 |-> "zero", one_0 |-> "one", two_0 |-> "two", epoch |-> "epoch",
                 big |-> "rounded", bigger |-> "rounded", rounded |-> "rounded", empty |-> "zero"]
DateOfStamp  == [moment |-> "moment", midnight |-> "midnight", mar1 |-> "mar1", feb30 |-> "mar1"]
DateOfText   == [day |-> "midnight", instant |-> "instant"]
JsonOfText   == [zero |-> Number("zero"), one |-> Number("one"), two |-> Number("two"),
                 half |-> Number("half"), whole |-> Number("whole"), zero_0 |-> Number("zero"),
                 one_0 |-> Number("one"), two_0 |-> Number("two"), epoch |-> Number("epoch"),
                 big |-> Number("rounded"), bigger |-> Number("rounded"), rounded |-> Number("rounded"),
                 true |-> Bool("true"), false |-> Bool("false"), null |-> Null, object |-> Object]

\* toISOString().slice(0, 19): to the second.
StampOf(d) == IF d.of = "instant" THEN Text("moment") ELSE Text(d.of)

\* Number(value).
NumberOf(v) ==
    CASE v.js = "number"  -> v
      [] v.js = "string" /\ v.of \in DOMAIN NumberOfText -> Number(NumberOfText[v.of])
      [] v.js = "boolean" -> Number(IF v.of = "true" THEN "one" ELSE "zero")
      [] v.js = "Date" /\ v.of # "bad" -> Number("epoch")
      [] OTHER -> Number("NaN")

\* Math.trunc.
Trunc(n) == IF n.of = "half" THEN Number("two") ELSE n

\* JSON.parse, or CastError where it throws.
JsonParse(t) ==
    CASE t.js = "json string" -> Text(t.of)
      [] t.js = "string" /\ t.of \in DOMAIN JsonOfText -> JsonOfText[t.of]
      [] OTHER -> CastError

\* JSON.stringify.
JsonText(v) ==
    IF v \in {Number("NaN"), Date("bad")} THEN Text("null")
    ELSE IF v.js \in {"string", "Date"} THEN Quoted(v.of) ELSE Text(v.of)

-----------------------------------------------------------------------------
(* casts.ts *)

toBool(v) ==
    CASE v.js = "boolean" -> v
      [] v \in {Number("one"), Text("one")} -> Bool("true")
      [] v \in {Number("zero"), Text("zero"), Text("empty")} -> Bool("false")
      [] OTHER -> Undefined

outDate(v) ==
    CASE v.js = "Date" /\ v.of # "bad" -> v
      [] v.js = "string" /\ v.of \in DOMAIN DateOfStamp -> Date(DateOfStamp[v.of])
      [] v.js = "string" /\ v.of \in DOMAIN DateOfText -> Date(DateOfText[v.of])
      [] OTHER -> CastError

\* One storage value in its app shape.
outValue(type, v) ==
    IF type = "none" \/ v \in {Null, Undefined} THEN v
    ELSE CASE type = "boolean"  -> IF toBool(v) = Undefined THEN CastError ELSE toBool(v)
           [] type = "integer"  -> IF NumberOf(v) = Number("NaN") THEN CastError ELSE Trunc(NumberOf(v))
           [] type = "datetime" -> outDate(v)
           [] type = "json"     -> IF v.js \in Strings THEN JsonParse(v) ELSE v

\* What is stored for a value that can be read.
StorageOf(type, app) ==
    CASE type = "boolean"  -> Number(IF app = Bool("true") THEN "one" ELSE "zero")
      [] type = "integer"  -> app
      [] type = "datetime" -> StampOf(app)
      [] type = "json"     -> JsonText(app)

\* Mutant: a JSON text is stored without being parsed.
TrustsJsonText(type, v) ==
    IF type = "none" \/ v \in {Null, Undefined} THEN v
    ELSE IF type = "json" THEN IF v.js \in Strings THEN v ELSE JsonText(v)
    ELSE IF outValue(type, v) = CastError THEN CastError ELSE StorageOf(type, outValue(type, v))

\* Mutant: a JSON text is encoded once more.
EncodesTwice(type, v) ==
    IF type = "json" /\ v = Text("object") THEN Quoted("object") ELSE TrustsJsonText(type, v)

\* One app value in its storage shape.
inValue(type, v) ==
    IF type = "none" \/ v \in {Null, Undefined} THEN v
    ELSE IF type = "json" /\ v.js \notin Strings THEN JsonText(v)
    ELSE IF outValue(type, v) = CastError THEN CastError ELSE StorageOf(type, outValue(type, v))

\* Times compare as epochs, JSON texts as what they say, the rest as it is.
comparable(v) ==
    CASE v.js = "Date" -> Number(v.of)
      [] v.js = "string" /\ v.of \in DOMAIN DateOfStamp -> Number(DateOfStamp[v.of])
      [] v.js \in Strings /\ JsonParse(v) # CastError -> JsonParse(v)
      [] OTHER -> v

\* Mutant: any number is as true as another.
EqualIfTruthy(a, b) == a = b \/ (a.js = "number" /\ b.js = "number")

valuesEqual(a, b) ==
    \/ a = b
    \/ /\ {a, b} \cap {Null, Undefined} = {}
       /\ toBool(a) = toBool(b)
       /\ toBool(a) = Undefined => JsonText(comparable(a)) = JsonText(comparable(b))

-----------------------------------------------------------------------------
(* validation.ts *)

\* How long a text is; dates and stamps have fixed lengths.
LengthOf == [empty |-> 0, zero |-> 1, one |-> 1, two |-> 1, whole |-> 1, zero_0 |-> 3, one_0 |-> 3,
             two_0 |-> 3, half |-> 3, epoch |-> 13, rounded |-> 16, big |-> 16, bigger |-> 16,
             red |-> 3, Red |-> 3, day |-> 10, moment |-> 19, midnight |-> 19, mar1 |-> 19,
             instant |-> 24, feb30 |-> 19, object |-> 7, uuid |-> 36, true |-> 4, false |-> 5,
             null |-> 4, current_timestamp |-> 17]

isExactInteger(v)  == v.js = "string" /\ v.of \in {"zero", "one", "two", "whole", "epoch", "rounded", "big", "bigger"}
isExactDecimal(v)  == isExactInteger(v) \/ v \in {Text("zero_0"), Text("one_0"), Text("two_0"), Text("half")}
isValidUUID(v)     == v = Text("uuid")
isValidDatetime(v) == v \in {Text("moment"), Text("midnight"), Text("mar1")}   \* feb30 has the form only
isValidDate(v)     == v = Text("day")
isValidBoolean(v)  == v.js = "boolean" \/ v \in {Number("zero"), Number("one"), Text("zero"), Text("one")}

InEnum(f, v) == f.enum # {} => v.js = "string" /\ v.of \in f.enum
Length(v) == IF v.js = "string" THEN LengthOf[v.of] ELSE LengthOf[v.of] + 2    \* with its quotes
TooLong(f, v) == v.js \in Strings /\ v.of \in DOMAIN LengthOf /\ f.length > 0 /\ Length(v) > f.length

\* The complaints about a value that is there.
Unfit(f, v) ==
    {c \in {f.type, "enum", "length"} :
        \/ c = "number"   /\ NumberOf(v) = Number("NaN")
        \/ c = "decimal"  /\ ~ isExactDecimal(v)
        \/ c = "bigint"   /\ ~ isExactInteger(v)
        \/ c = "uuid"     /\ ~ isValidUUID(v)
        \/ c = "datetime" /\ v # Text("current_timestamp") /\ ~ isValidDatetime(v)
        \/ c = "date"     /\ ~ isValidDate(v)
        \/ c = "boolean"  /\ ~ isValidBoolean(v)
        \/ c = "enum"     /\ ~ InEnum(f, v)
        \/ c = "length"   /\ TooLong(f, v)}

\* `how` is "insert" (skipAutoIncrement) or "update" (partial).
validatePayload(f, v, how) ==
    IF how = "insert" /\ f.default = Text("auto_increment")
    THEN IF v = Undefined THEN {} ELSE {"auto_increment"}
    ELSE IF v \notin {Null, Undefined} THEN Unfit(f, v)
    ELSE IF f.required /\ (v = Null \/ how = "insert") THEN {"required"}
    ELSE {}

\* Mutant: only what is missing is complained of.
RequiredOnly(f, v) == IF f.required /\ v \in {Null, Undefined} THEN {"required"} ELSE {}

\* The strict check of a raw row: runtime kinds, and no lengths.
validateRow(f, v) ==
    IF v \in {Null, Undefined} THEN IF f.required THEN {"required"} ELSE {}
    ELSE {c \in {f.type, "enum"} :
            \/ c = "number"   /\ (v.js # "number" \/ v.of = "NaN")
            \/ c = "string"   /\ v.js \notin Strings
            \/ c = "boolean"  /\ v.js # "boolean"
            \/ c = "datetime" /\ ~ isValidDatetime(v)
            \/ c \in {"decimal", "bigint", "uuid", "date"} /\ c \in Unfit(f, v)
            \/ c = "enum"     /\ ~ InEnum(f, v)}
=============================================================================
