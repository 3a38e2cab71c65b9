---------------------------- MODULE MCStructLife ----------------------------
EXTENDS StructLife, TLC

Field(t) == [type |-> t, length |-> 0, required |-> FALSE, default |-> Undefined, enum |-> {}, id |-> FALSE]

Use(f, c, S) == [field |-> f, cast |-> c, inputs |-> S]

Texts(S) == {Text(o) : o \in S}
Numerals == Texts({"zero", "one", "two", "two_0", "half", "empty", "red"})
                \cup {Number("zero"), Number("two"), Number("half"), Number("NaN")}
Flags    == Texts({"zero", "one", "empty", "red"})
                \cup {Bool("true"), Bool("false"), Number("zero"), Number("one"), Number("two")}
Stamps   == Texts({"moment", "midnight", "day", "instant", "feb30", "red", "empty", "current_timestamp"})
                \cup {Date("instant"), Date("bad")}
Words    == Texts({"empty", "zero", "two", "red", "day", "object", "uuid"}) \cup {Null}
Jsons    == Texts({"two", "object", "true", "red", "empty"})
                \cup {Quoted("red"), Object, Bool("false"), Number("half"), Number("NaN"), Null}

\* A field of each type, with and without its cast.
Uses ==
    {Use([Field("number") EXCEPT !.default = AutoKey, !.required = TRUE, !.id = TRUE], "none", {}),
     Use([Field("number") EXCEPT !.default = Text("zero")], "none", Numerals),
     Use([Field("number") EXCEPT !.required = TRUE], "integer", Numerals \cup {Null}),
     Use([Field("boolean") EXCEPT !.default = Text("one")], "none", Flags),
     Use([Field("boolean") EXCEPT !.default = Text("zero")], "boolean", Flags),
     Use([Field("datetime") EXCEPT !.default = Now], "none", Stamps),
     Use([Field("datetime") EXCEPT !.required = TRUE], "datetime", Stamps \cup {Null}),
     Use(Field("date"), "none", Texts({"day", "moment", "feb30", "red"})),
     Use([Field("string") EXCEPT !.length = 7, !.required = TRUE], "none", Words),
     Use(Field("string"), "json", Jsons),
     Use([Field("string") EXCEPT !.length = 4], "json", Jsons),
     Use(Field("number"), "boolean", Flags),
     Use(Field("string"), "datetime", Stamps),
     Use([Field("uuid") EXCEPT !.id = TRUE], "none", Words),
     Use(Field("uuid"), "none", Words),
     Use([Field("enum") EXCEPT !.enum = {"red", "day"}, !.default = Text("red")], "none", Words),
     Use([Field("enum") EXCEPT !.enum = {"Red", "day"}], "none", Words \cup {Text("Red")})}

\* Exact numerals: a SQL Server client reads DECIMAL as a JavaScript number.
Exact(d) == Numerals \cup IF d = "mssql" THEN {} ELSE {Text("big"), Text("bigger")}

AllSettings ==
    {[dialect |-> d] @@ u : d \in Dialects, u \in Uses}
        \cup {[dialect |-> d] @@ Use(Field(t), "none", Exact(d)) : d \in Dialects, t \in {"decimal", "bigint"}}

\* The uses meet the hypotheses of the theorems in StructProofs.
ASSUME TheoremsApply ==
    \A s \in AllSettings : Sound(s) /\ Regenerable(s.field) /\ WordOptions(s.field)
=============================================================================
