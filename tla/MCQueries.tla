---------------------------- MODULE MCQueries ----------------------------
EXTENDS Queries

Row(id, age, trashed) == [id |-> id, age |-> age, deleted_at |-> IF trashed THEN 1 ELSE 0]
FourRows == {Row(1, 0, FALSE), Row(2, 1, FALSE), Row(3, 2, FALSE), Row(4, 1, TRUE)}

Test(on, not, values) == [on |-> on, column |-> "age", not |-> not, values |-> values]
SomeTests == {Test("IN", FALSE, << >>), Test("IN", TRUE, << >>), Test("IN", TRUE, <<1, 3>>),
              Test("BETWEEN", FALSE, <<2, 3>>)}

SomeOrders == {[column |-> "id", down |-> FALSE], [column |-> "age", down |-> TRUE]}
SomeCounts == {-1, 1}
SomePages == {[page |-> -1, perPage |-> 1], [page |-> 2, perPage |-> 9]}
==========================================================================
