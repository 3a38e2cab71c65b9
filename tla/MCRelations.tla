---------------------------- MODULE MCRelations ----------------------------
EXTENDS Relations, TLC

\* Every kind; a soft target, and a plain one where the code tells them apart.
AllRelations ==
    [kind : {"hasOne", "belongsTo", "belongsToMany"}, soft : {TRUE}]
        \cup [kind : {"hasMany", "morphMany"}, soft : BOOLEAN]

Row(i, k, t, s) == [id |-> i, key |-> k, type |-> t, stamp |-> s]
Link(i, k, t)   == [id |-> i, key |-> k, related |-> t]

\* A row per end of the key range, one of them shared, trashed or of another
\* type.
SomeDatabases ==
    {[rows  |-> {Row(11, 1, "own", 0), Row(12, 3, t, s)},
      links |-> {Link(21, 1, 11), Link(22, 3, 11)}] : t \in {"own", "other"}, s \in {0, 1}}

SomeParents == {{}, {0, 2}, {1, 2, 3}}
============================================================================
