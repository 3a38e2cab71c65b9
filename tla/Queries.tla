------------------------------ MODULE Queries ------------------------------
(***************************************************************************)
(* The fluent query builder (query.ts): a mutable object that collects     *)
(* conditions, compiles them to one flat WHERE clause with numbered        *)
(* parameters, and runs SELECT, COUNT, DELETE and two-statement pages over *)
(* a table that others change in between.                                  *)
(*                                                                         *)
(* The ConditionNodes made so far are numbered, and lists of them hold     *)
(* their numbers, as arrays hold references: a group is made after its     *)
(* children.  A clause is a sequence of tokens that the database reads by  *)
(* its own precedence.  NULL is 0; a condition on NULL is unknown, which a *)
(* WHERE without NOT cannot tell from false.                               *)
(***************************************************************************)
EXTENDS Integers, FiniteSets, SequencesExt

CONSTANTS
    AllRows,        \* every row the table may ever hold: [id, age, deleted_at]
    Tests,          \* conditions a chain may add: [on, column, not, values]
    Orders,         \* arguments of orderBy(): [column, down]
    Counts,         \* arguments of limit() and offset(); -1: not a usable number
    Pages,          \* arguments of paginate(): [page, perPage], integers
    MaxPerPage,     \* the largest page (100)
    MaxChain,       \* bound: conditions, orders and limits of a chain
    MaxGroups,      \* bound: its groups
    MaxWrites       \* bound: changes others make to the table

Columns == {"id", "age", "deleted_at"}
Rows    == [Columns -> Int]

ASSUME QueriesAssumption ==
    /\ MaxPerPage \in Nat \ {0} /\ MaxChain \in Nat /\ MaxGroups \in Nat /\ MaxWrites \in Nat
    /\ AllRows \subseteq Rows /\ IsFiniteSet(AllRows)
    /\ \A a, b \in AllRows : a["id"] = b["id"] => a = b
ASSUME InputAssumption ==
    /\ Tests \subseteq [on : {"=", "<", "IN", "BETWEEN", "IS NULL"}, column : Columns,
                        not : BOOLEAN, values : Seq(Int)]
    /\ Orders \subseteq [column : Columns, down : BOOLEAN]
    /\ Counts \subseteq Int /\ Pages \subseteq [page : Int, perPage : Int]

VARIABLES
    table,      \* the rows
    node,       \* the ConditionNodes made so far
    builder,    \* the QueryBuilder
    groups,     \* the sub builders of the where() callbacks that are running
    call,       \* the runner in progress: "none", or a paginate() between its statements
    answer,     \* what the last runner returned, until the builder is used again
    chained,    \* conditions, orders and limits so far
    grouped,    \* groups so far
    writes      \* changes to the table so far

vars == <<table, node, builder, groups, call, answer, chained, grouped, writes>>

NoOrder == [column |-> "none", down |-> FALSE]
NoCall == [at |-> "none", page |-> 0, perPage |-> 0]
NoAnswer == [op |-> "none", rows |-> {}]

\* query() never scopes, Model.query() scopes when the model has soft deletes.
Init ==
    /\ table = AllRows /\ node = <<>>
    /\ \E soft \in BOOLEAN : builder =
          [nodes |-> <<>>, order |-> NoOrder, limit |-> -1, offset |-> -1,
           softScope |-> soft, includeTrashed |-> FALSE]
    /\ groups = <<>> /\ call = NoCall /\ answer = NoAnswer
    /\ chained = 0 /\ grouped = 0 /\ writes = 0

-----------------------------------------------------------------------------
(* What a condition says of a row: its operator, over a column and values.  *)

\* 1 = 1 and 1 = 0.
Tautology(b) == [on |-> "1 = 1", column |-> "id", not |-> ~b, values |-> <<>>]

Says(test, values, row) ==
    LET x == row[test.column] IN
    CASE test.on = "1 = 1"   -> ~test.not
      [] test.on = "IS NULL" -> (x = 0) # test.not
      [] OTHER ->
          /\ x # 0 /\ \A k \in DOMAIN values : values[k] # 0
          /\ test.not # CASE test.on = "="       -> x = values[1]
                          [] test.on = "<"       -> x < values[1]
                          [] test.on = "IN"      -> \E k \in DOMAIN values : x = values[k]
                          [] test.on = "BETWEEN" -> values[1] <= x /\ x <= values[2]

-----------------------------------------------------------------------------
(* The compiler: what a piece of the clause says, where it leaves the       *)
(* counter of parameters that stood at n, and the parameters it adds.       *)

Word(w) == <<[word |-> w]>>

Nothing(n) == [sql |-> <<>>, n |-> n, params |-> <<>>]
Followed(clause, words, part) ==
    [sql |-> clause.sql \o words \o part.sql, n |-> part.n, params |-> clause.params \o part.params]

\* Mutant: a group is joined to its siblings without parentheses.
Bare(clause) == clause
Parenthesised(clause) == [clause EXCEPT !.sql = Word("(") \o @ \o Word(")")]

\* A condition gets a marker for each value it binds.
Condition(test, n) ==
    [sql |-> <<[word |-> "test", test |-> test, marks |-> [k \in DOMAIN test.values |-> n + k]]>>,
     n |-> n + Len(test.values), params |-> test.values]

\* Siblings are joined by the boolean of the later one; the first has no say.
Joint(list, k) == IF k = 1 THEN <<>> ELSE Word(node[list[k]].boolean)

\* part[k] is the k-th one's clause, as a function of the counter.
compileList(list, part, n) ==
    LET joined[k \in 0 .. Len(list)] ==
            IF k = 0 THEN Nothing(n)
            ELSE Followed(joined[k - 1], Joint(list, k), part[k][joined[k - 1].n])
    IN  joined[Len(list)]

\* A group goes in parentheses; an empty one says nothing.
compileNode[i \in DOMAIN node] ==
    [n \in Nat |->
        IF node[i].kind = "condition" THEN Condition(node[i].test, n)
        ELSE IF node[i].children = <<>> THEN Condition(Tautology(TRUE), n)
        ELSE Parenthesised(compileList(node[i].children,
                [k \in DOMAIN node[i].children |-> compileNode[node[i].children[k]]], n))]

compiled(list) == compileList(list, [k \in DOMAIN list |-> compileNode[list[k]]], 0)

scoped(b) == b.softScope /\ ~b.includeTrashed
IsLive == [on |-> "IS NULL", column |-> "deleted_at", not |-> FALSE, values |-> <<>>]

\* Mutant: the scope is appended to the user's conditions as they are.
WhereOpen(b) ==
    IF ~scoped(b) THEN compiled(b.nodes)
    ELSE IF b.nodes = <<>> THEN Condition(IsLive, 0)
    ELSE Followed(compiled(b.nodes), Word("AND"), Condition(IsLive, compiled(b.nodes).n))

\* The user's conditions are parenthesised before the scope is added.
buildWhere(b) ==
    IF ~scoped(b) THEN compiled(b.nodes)
    ELSE IF b.nodes = <<>> THEN Condition(IsLive, 0)
    ELSE Followed(Parenthesised(compiled(b.nodes)), Word("AND"),
                  Condition(IsLive, compiled(b.nodes).n))

-----------------------------------------------------------------------------
(* The database: how it reads a clause, and what a statement selects.       *)

\* AND binds tighter than OR: each open parenthesis holds the alternatives
\* finished so far and the conjunction in progress.
Open == [or |-> FALSE, and |-> TRUE]
Value(level) == level.or \/ level.and
And(level, b) == [level EXCEPT !.and = @ /\ b]

Reader(top, below) == [top |-> top, below |-> below]

\* What the reader of a clause makes of the next token, over one row.
Step(reader, token, params, row) ==
    LET top == reader.top  below == reader.below IN
    CASE token.word = "("   -> Reader(Open, Append(below, top))
      [] token.word = ")"   -> IF below = <<>> THEN reader
                               ELSE Reader(And(Last(below), Value(top)), Front(below))
      [] token.word = "OR"  -> Reader([or |-> Value(top), and |-> TRUE], below)
      [] token.word = "AND" -> reader
      [] token.word = "test" ->
            Reader(And(top, Says(token.test, [k \in DOMAIN token.marks |-> params[token.marks[k]]], row)),
                   below)

Reads(where, row) ==
    LET read[k \in 0 .. Len(where.sql)] ==
            IF k = 0 THEN Reader(Open, <<>>) ELSE Step(read[k - 1], where.sql[k], where.params, row)
    IN  Value(read[Len(where.sql)].top)

Selects(b) == {r \in table : Reads(buildWhere(b), r)}

\* ORDER BY leaves rows that compare equal, or all rows, in any order.
NotAfter(order, q, r) ==
    \/ order = NoOrder
    \/ IF order.down THEN q[order.column] >= r[order.column] ELSE q[order.column] <= r[order.column]

Unlimited(n) == n < 0

Least(m, n) == IF m < n THEN m ELSE n

\* Sets of n rows that may come before the others.
Heads(n, rows, order) ==
    {h \in kSubset(Least(n, Cardinality(rows)), rows) :
        \A q \in h, r \in rows \ h : NotAfter(order, q, r)}

\* The rows LIMIT and OFFSET may leave.  There is no OFFSET without a LIMIT.
Window(b, rows) ==
    IF Unlimited(b.limit) THEN {rows}
    ELSE UNION {Heads(b.limit, rows \ h, b.order) :
                h \in Heads(IF Unlimited(b.offset) THEN 0 ELSE b.offset, rows, b.order)}

-----------------------------------------------------------------------------
(* The chain.  Every call changes the builder in place.  (A clause is about *)
(* one row at a time: that the chain goes on when the table has changed is  *)
(* left out.)                                                              *)

Changes ==
    /\ writes = 0
    /\ answer' = NoAnswer
    /\ UNCHANGED <<table, call, writes>>

Chains == chained < MaxChain /\ chained' = chained + 1 /\ Changes /\ UNCHANGED grouped

\* A new node goes to the end of the builder's list; within a callback, of its
\* sub builder's.
push(new, open) ==
    LET ref == Len(node) + 1 IN
    /\ node' = Append(node, new)
    /\ IF open = <<>>
       THEN builder' = [builder EXCEPT !.nodes = Append(@, ref)] /\ groups' = open
       ELSE groups' = [open EXCEPT ![Len(open)].children = Append(@, ref)] /\ UNCHANGED builder

\* whereIn and whereNotIn of an empty list say nothing of the column.
EmptyList(test) == IF test.on = "IN" /\ test.values = <<>> THEN Tautology(test.not) ELSE test

\* where..., orWhere...: a condition.
where(boolean, test) ==
    /\ Chains
    /\ push([kind |-> "condition", boolean |-> boolean, test |-> EmptyList(test), asked |-> test], groups)

\* where(fn), orWhere(fn): the callback starts, and when it returns its
\* conditions become one node.
whereGroup(boolean) ==
    /\ grouped < MaxGroups /\ grouped' = grouped + 1 /\ Changes
    /\ groups' = Append(groups, [boolean |-> boolean, children |-> <<>>])
    /\ UNCHANGED <<node, builder, chained>>

GroupEnds ==
    /\ groups # <<>>
    /\ push([kind |-> "group", boolean |-> Last(groups).boolean, children |-> Last(groups).children],
            Front(groups))
    /\ UNCHANGED <<table, call, answer, chained, grouped, writes>>

Shapes(b) == groups = <<>> /\ builder' = b /\ Chains /\ UNCHANGED <<node, groups>>
orderBy(order) == Shapes([builder EXCEPT !.order = order])
limit(n)       == Shapes([builder EXCEPT !.limit = n])
offset(n)      == Shapes([builder EXCEPT !.offset = n])
withTrashed    == Shapes([builder EXCEPT !.includeTrashed = TRUE])

-----------------------------------------------------------------------------
(* The runners.                                                            *)

Runs == groups = <<>> /\ call = NoCall /\ answer = NoAnswer

Answers(op, rows) == answer' = [op |-> op, rows |-> rows]
Leaves == UNCHANGED <<table, node, builder, groups, call, chained, grouped, writes>>

\* get(): the window; first(): a window of one, of a clone.
get == Runs /\ (\E w \in Window(builder, Selects(builder)) : Answers("get", w)) /\ Leaves

\* Mutant: the builder itself is limited.
FirstInPlace ==
    /\ Runs
    /\ builder' = [builder EXCEPT !.limit = 1]
    /\ \E w \in Window(builder', Selects(builder)) : Answers("first", w)
    /\ UNCHANGED <<table, node, groups, call, chained, grouped, writes>>

first ==
    /\ Runs
    /\ LET copy == [builder EXCEPT !.limit = 1] IN
        \E w \in Window(copy, Selects(copy)) : Answers("first", w)
    /\ Leaves

\* count() and the aggregates: over all that is selected.
count == Runs /\ Answers("count", Selects(builder)) /\ Leaves

\* delete(): the rows are removed, whatever the order and the window.
delete ==
    /\ Runs
    /\ LET rows == Selects(builder) IN
        Answers("delete", rows) /\ table' = table \ rows
    /\ writes' = writes + 1
    /\ UNCHANGED <<node, builder, groups, call, chained, grouped>>

safePage(page) == IF page > 0 THEN page ELSE 1

safePerPage(perPage) ==
    IF perPage < 1 THEN 1 ELSE IF perPage > MaxPerPage THEN MaxPerPage ELSE perPage
lastPage(total, perPage) == (total + perPage - 1) \div perPage

\* Mutant: pages are skipped as if they were counted from 0.
SkipsOneMore(b, page, perPage) == [b EXCEPT !.limit = perPage, !.offset = page * perPage]

\* The second statement of paginate().
PageOf(b, page, perPage) == [b EXCEPT !.limit = perPage, !.offset = (page - 1) * perPage]

\* paginate() counts first; the total and lastPage it will report are those of
\* this moment ...
paginate(p) ==
    /\ Runs
    /\ call' = [at |-> "counted", page |-> safePage(p.page), perPage |-> safePerPage(p.perPage)]
    /\ UNCHANGED <<table, node, builder, groups, answer, chained, grouped, writes>>

\* ... and then reads the page, from what the builder and the table are by then.
PageReads ==
    /\ groups = <<>> /\ call # NoCall
    /\ LET b == PageOf(builder, call.page, call.perPage) IN
        \E w \in Window(b, Selects(b)) : Answers("paginate", w)
    /\ call' = NoCall
    /\ UNCHANGED <<table, node, builder, groups, chained, grouped, writes>>

\* Either statement may fail: the caller gets a failure.
PageFails ==
    /\ groups = <<>> /\ call # NoCall
    /\ call' = NoCall
    /\ UNCHANGED <<table, node, builder, groups, answer, chained, grouped, writes>>

\* Others insert and remove rows.  (Between two runners that makes no more
\* difference than another table to begin with.)
Others(r) ==
    /\ call # NoCall
    /\ writes < MaxWrites /\ writes' = writes + 1
    /\ table' = IF r \in table THEN table \ {r} ELSE table \cup {r}
    /\ UNCHANGED <<node, builder, groups, call, answer, chained, grouped>>

-----------------------------------------------------------------------------
Next ==
    \/ \E boolean \in {"AND", "OR"} :
          \/ \E test \in Tests : where(boolean, test)
          \/ whereGroup(boolean)
    \/ GroupEnds
    \/ \E order \in Orders : orderBy(order)
    \/ \E n \in Counts : limit(n) \/ offset(n)
    \/ withTrashed
    \/ get \/ first \/ count \/ delete
    \/ \E p \in Pages : paginate(p)
    \/ PageReads \/ PageFails
    \/ \E r \in AllRows : Others(r)

Spec == Init /\ [][Next]_vars

-----------------------------------------------------------------------------
(* What the chain asks for, read as the documentation reads it: each where   *)
(* adds to an alternative, each orWhere starts another, a group is one       *)
(* condition.                                                               *)

Wants(test, row) ==
    IF test.on = "IN" /\ test.values = <<>> THEN test.not ELSE Says(test, test.values, row)

\* The rows that a list asks for, when the k-th of its nodes asks for part[k].
Asks(list, part) ==
    LET Starts(i) == i = 1 \/ node[list[i]].boolean = "OR" IN
    {row \in AllRows :
        \/ list = <<>>
        \/ \E i \in DOMAIN list :
              /\ Starts(i)
              /\ \A j \in i .. Len(list) :
                    (\A k \in i + 1 .. j : ~Starts(k)) => row \in part[j]}

NodeAsks[i \in DOMAIN node] ==
    IF node[i].kind = "condition" THEN {row \in AllRows : Wants(node[i].asked, row)}
    ELSE Asks(node[i].children, [k \in DOMAIN node[i].children |-> NodeAsks[node[i].children[k]]])

Asked(b) ==
    {r \in Asks(b.nodes, [k \in DOMAIN b.nodes |-> NodeAsks[b.nodes[k]]]) :
        scoped(b) => r["deleted_at"] = 0}

\* The n-th marker of a clause is numbered n, so that engines that bind by
\* position and engines that bind by number run the same statement, and no IN
\* list is empty.
MarkersInOrder ==
    LET clause == buildWhere(builder)
        tests  == {k \in DOMAIN clause.sql : clause.sql[k].word = "test"}
        marks(k) == clause.sql[k].marks
    IN  /\ \A k \in tests : \A j \in DOMAIN marks(k) :
              /\ marks(k)[j] \in DOMAIN clause.params
              /\ \A l \in tests : \A i \in DOMAIN marks(l) :
                    l < k \/ (l = k /\ i < j) => marks(l)[i] < marks(k)[j]
        /\ \A m \in DOMAIN clause.params : \E k \in tests : \E j \in DOMAIN marks(k) : marks(k)[j] = m
        /\ \A k \in tests : clause.sql[k].test.on = "IN" => marks(k) # <<>>

\* The clause that is sent selects exactly the rows the chain asks for: each
\* marker stands for its own value, groups and the scope stay together under
\* the database's precedence, an empty list matches nothing or everything.
CompiledAsAsked ==
    Runs => /\ MarkersInOrder
            /\ {r \in AllRows : Reads(buildWhere(builder), r)} = Asked(builder)

\* On a scoped builder no runner returns or removes a trashed row, whatever
\* ORs and groups the chain has.
ScopeHolds ==
    answer # NoAnswer /\ scoped(builder) => \A r \in answer.rows : r["deleted_at"] = 0

\* Ordered by a unique key, the pages 1 to lastPage of any size hold every
\* selected row exactly once.
PagesPartition ==
    Runs /\ builder.order.column = "id" =>
        LET rows == Selects(builder) IN
        \A p \in Pages :
            LET size == safePerPage(p.perPage)
                last == lastPage(Cardinality(rows), size)
                page(n) == UNION Window(PageOf(builder, n, size), rows)
            IN  /\ UNION {page(n) : n \in 1 .. last} = rows
                /\ \A m, n \in 1 .. last : m # n => page(m) \cap page(n) = {}
                /\ \A n \in 1 .. last : page(n) # {} /\ Cardinality(page(n)) <= MaxPerPage

\* A runner leaves the builder as the chain made it, so that it can be run
\* again, and a delete() removes exactly what the chain asks for.
RunnersKeepTheBuilder ==
    [][answer' # answer /\ answer' # NoAnswer =>
          /\ builder' = builder
          /\ table' = IF answer'.op = "delete" THEN table \ Asked(builder) ELSE table
      ]_vars

============================================================================
