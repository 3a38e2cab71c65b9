---------------------------- MODULE QueriesProofs ----------------------------
(***************************************************************************)
(* Theorems about Queries, for any table, conditions, depth of groups and  *)
(* page size.  The recursive functions of the compiler, of the reader of a *)
(* clause and of what a chain asks for are shown to be what their          *)
(* definitions say, by minimal counterexample, and then to agree.          *)
(***************************************************************************)
EXTENDS Queries, FiniteSetTheorems, SequenceTheorems, TLAPS

-----------------------------------------------------------------------------
(* Numbers and recursion. *)

\* A set of numbers that is not empty has a least element.
LEMMA LeastExists ==
    ASSUME NEW S \in SUBSET Nat, S # {}
    PROVE  \E x \in S : \A y \in S : x <= y
  <1> DEFINE T == {0 .. x : x \in S}
  <1>1. T \subseteq FiniteSubsetsOf(Nat) /\ T # {}
    <2>1. ASSUME NEW x \in S PROVE IsFiniteSet(0 .. x) /\ 0 .. x \subseteq Nat
      BY FS_Interval
    <2> QED BY <2>1 DEF FiniteSubsetsOf
  <1>2. PICK I \in T : \A J \in T : ~ (<<J, I>> \in StrictSubsetOrdering(Nat))
    <2> HIDE DEF T
    <2> QED BY <1>1, FS_StrictSubsetOrderingWellFounded, WFMin
  <1>3. PICK x \in S : I = 0 .. x
    BY <1>2
  <1>4. ASSUME NEW y \in S PROVE x <= y
    <2>1. 0 .. y \subseteq I => 0 .. y = I
      <3>1. ~ (<<0 .. y, I>> \in StrictSubsetOrdering(Nat))
        BY <1>2
      <3>2. 0 .. y \in SUBSET Nat /\ I \in SUBSET Nat
        BY <1>3
      <3> QED BY <3>1, <3>2 DEF StrictSubsetOrdering
    <2>2. y < x => 0 .. y \subseteq 0 .. x /\ x \notin 0 .. y /\ x \in 0 .. x
      OBVIOUS
    <2> QED BY <1>3, <2>1, <2>2
  <1> QED BY <1>4

\* Induction up to L, over a set, ...
LEMMA Upwards ==
    ASSUME NEW L \in Nat, NEW S, 0 \in S, \A m \in 0 .. L : m < L /\ m \in S => m + 1 \in S
    PROVE  0 .. L \subseteq S
  <1> DEFINE Bad == {m \in 0 .. L : m \notin S}
  <1> SUFFICES ASSUME Bad # {} PROVE FALSE
    OBVIOUS
  <1>1. PICK m \in Bad : \A y \in Bad : m <= y
    <2>1. Bad \in SUBSET Nat
      OBVIOUS
    <2> QED BY <2>1, LeastExists
  <1>2. m # 0 /\ m - 1 \in 0 .. L /\ m - 1 < L /\ m - 1 + 1 = m /\ m \notin S
    BY <1>1
  <1>3. m - 1 \in S
    BY <1>1, <1>2
  <1> QED BY <1>2, <1>3

\* ... and from all that come before.
LEMMA FromBefore ==
    ASSUME NEW L \in Nat, NEW S, \A i \in 1 .. L : (\A j \in 1 .. (i - 1) : j \in S) => i \in S
    PROVE  1 .. L \subseteq S
  <1> DEFINE Bad == {m \in 1 .. L : m \notin S}
  <1> SUFFICES ASSUME Bad # {} PROVE FALSE
    OBVIOUS
  <1>1. PICK m \in Bad : \A y \in Bad : m <= y
    <2>1. Bad \in SUBSET Nat
      OBVIOUS
    <2> QED BY <2>1, LeastExists
  <1>2. \A j \in 1 .. (m - 1) : j \in S
    BY <1>1
  <1> QED BY <1>1, <1>2

\* f is base at 0, and steps by G ...
Steps(f, L, S, base, G) ==
    f \in [0 .. L -> S] /\ f[0] = base /\ \A k \in 1 .. L : f[k] = G[k][f[k - 1]]
\* ... or by G from all that it was before.
Builds(f, L, S, G) ==
    f \in [1 .. L -> S] /\ \A i \in 1 .. L : f[i] = G[i][[j \in 1 .. (i - 1) |-> f[j]]]

\* A function can be defined by what it is at 0 and a step from each number to
\* the next, ...
LEMMA StepsDefine ==
    ASSUME NEW L \in Nat, NEW S, NEW base \in S, NEW G, \A k \in 1 .. L : \A v \in S : G[k][v] \in S
    PROVE  \E f \in [0 .. L -> S] : Steps(f, L, S, base, G)
  <1> DEFINE Good == {m \in 0 .. L : \E f \in [0 .. m -> S] : Steps(f, m, S, base, G)}
  <1>1. 0 \in Good
    <2> DEFINE g == [k \in 0 .. 0 |-> base]
    <2>1. Steps(g, 0, S, base, G)
      BY DEF Steps
    <2>2. g \in [0 .. 0 -> S]
      OBVIOUS
    <2> HIDE DEF g
    <2>3. \E f \in [0 .. 0 -> S] : Steps(f, 0, S, base, G)
      BY <2>1, <2>2
    <2> QED BY <2>3
  <1>2. ASSUME NEW m \in 0 .. L, m < L, m \in Good PROVE m + 1 \in Good
    <2>1. PICK f \in [0 .. m -> S] : Steps(f, m, S, base, G)
      BY <1>2
    <2>2. f[m] \in S /\ m + 1 \in 1 .. L
      BY <1>2, <2>1 DEF Steps
    <2>3. G[m + 1][f[m]] \in S
      BY <2>2
    <2> DEFINE g == [k \in 0 .. m + 1 |-> IF k = m + 1 THEN G[m + 1][f[m]] ELSE f[k]]
    <2>4. g \in [0 .. m + 1 -> S]
      BY <2>1, <2>3
    <2>5. g[0] = base
      BY <2>1 DEF Steps
    <2>6. ASSUME NEW k \in 1 .. m + 1 PROVE g[k] = G[k][g[k - 1]]
      <3>1. CASE k = m + 1
        <4>1. g[k] = G[m + 1][f[m]] /\ g[k - 1] = f[m]
          BY <3>1
        <4> QED BY <3>1, <4>1
      <3>2. CASE k \in 1 .. m
        <4>1. g[k] = f[k] /\ g[k - 1] = f[k - 1]
          BY <3>2
        <4>2. f[k] = G[k][f[k - 1]]
          BY <2>1, <3>2 DEF Steps
        <4> QED BY <4>1, <4>2
      <3> QED BY <3>1, <3>2
    <2>7. Steps(g, m + 1, S, base, G)
      <3> HIDE DEF g
      <3> QED BY <2>4, <2>5, <2>6 DEF Steps
    <2> HIDE DEF g
    <2>8. \E h \in [0 .. m + 1 -> S] : Steps(h, m + 1, S, base, G)
      BY <2>4, <2>7
    <2> QED BY <2>2, <2>8
  <1>3. L \in Good
    <2>1. 0 .. L \subseteq Good
      <3> HIDE DEF Good
      <3> QED BY <1>1, <1>2, Upwards
    <2> QED BY <2>1
  <1> QED BY <1>3

\* ... or by a step from all that come before.
LEMMA BeforeDefines ==
    ASSUME NEW L \in Nat, NEW S, NEW G,
           \A i \in 1 .. L : \A g \in [1 .. (i - 1) -> S] : G[i][g] \in S
    PROVE  \E f \in [1 .. L -> S] : Builds(f, L, S, G)
  <1> DEFINE Good == {m \in 0 .. L : \E f \in [1 .. m -> S] : Builds(f, m, S, G)}
  <1>1. 0 \in Good
    <2> DEFINE g == [k \in 1 .. 0 |-> {}]
    <2>1. Builds(g, 0, S, G)
      BY DEF Builds
    <2>2. g \in [1 .. 0 -> S]
      OBVIOUS
    <2> HIDE DEF g
    <2>3. \E f \in [1 .. 0 -> S] : Builds(f, 0, S, G)
      BY <2>1, <2>2
    <2>4. 0 \in 0 .. L
      OBVIOUS
    <2> QED BY <2>3, <2>4, Zenon
  <1>2. ASSUME NEW m \in 0 .. L, m < L, m \in Good PROVE m + 1 \in Good
    <2>1. PICK f \in [1 .. m -> S] : Builds(f, m, S, G)
      BY <1>2
    <2>2. m + 1 \in 1 .. L /\ (m + 1) - 1 = m
      BY <1>2
    <2>3. G[m + 1][f] \in S
      BY <2>1, <2>2
    <2> DEFINE g == [k \in 1 .. m + 1 |-> IF k = m + 1 THEN G[m + 1][f] ELSE f[k]]
    <2>4. g \in [1 .. m + 1 -> S]
      BY <2>1, <2>3
    <2>5. ASSUME NEW i \in 1 .. m + 1 PROVE g[i] = G[i][[j \in 1 .. (i - 1) |-> g[j]]]
      <3>1. CASE i = m + 1
        <4>1. g[i] = G[m + 1][f] /\ \A j \in 1 .. m : g[j] = f[j]
          BY <3>1
        <4>2. [j \in 1 .. m |-> g[j]] = f
          <5>1. f = [j \in 1 .. m |-> f[j]]
            BY <2>1
          <5> HIDE DEF g
          <5> QED BY <4>1, <5>1
        <4>3. i - 1 = m
          BY <3>1
        <4> HIDE DEF g
        <4> QED BY <3>1, <4>1, <4>2, <4>3
      <3>2. CASE i \in 1 .. m
        <4>1. g[i] = f[i] /\ \A j \in 1 .. (i - 1) : g[j] = f[j]
          BY <3>2
        <4>2. [j \in 1 .. (i - 1) |-> g[j]] = [j \in 1 .. (i - 1) |-> f[j]]
          <5> HIDE DEF g
          <5> QED BY <4>1
        <4>3. f[i] = G[i][[j \in 1 .. (i - 1) |-> f[j]]]
          BY <2>1, <3>2 DEF Builds
        <4> HIDE DEF g
        <4> QED BY <4>1, <4>2, <4>3
      <3> QED BY <3>1, <3>2
    <2>6. Builds(g, m + 1, S, G)
      <3> HIDE DEF g
      <3> QED BY <2>4, <2>5 DEF Builds
    <2> HIDE DEF g
    <2>7. \E h \in [1 .. m + 1 -> S] : Builds(h, m + 1, S, G)
      BY <2>4, <2>6
    <2> QED BY <2>2, <2>7
  <1>3. L \in Good
    <2>1. 0 .. L \subseteq Good
      <3> HIDE DEF Good
      <3> QED BY <1>1, <1>2, Upwards
    <2> QED BY <2>1
  <1> QED BY <1>3

-----------------------------------------------------------------------------
(* Types, and the recursive functions unfolded. *)

Conditions == [on : {"1 = 1", "=", "<", "IN", "BETWEEN", "IS NULL"}, column : Columns,
               not : BOOLEAN, values : Seq(Int)]
Booleans == {"AND", "OR"}
Tokens   == [word : {"(", ")"} \cup Booleans] \cup [word : {"test"}, test : Conditions, marks : Seq(Nat)]
Clauses  == [sql : Seq(Tokens), n : Nat, params : Seq(Int)]
Levels   == [or : BOOLEAN, and : BOOLEAN]
Readers  == [top : Levels, below : Seq(Levels)]
Refs     == 1 .. Len(node)

\* A node is a condition, or a group of nodes that were made before it.
IsCondition(i) == /\ node[i].kind = "condition" /\ node[i].test \in Conditions
                  /\ node[i].asked \in Tests /\ node[i].test = EmptyList(node[i].asked)
IsGroup(i) == node[i].kind = "group" /\ node[i].children \in Seq(1 .. (i - 1))
NodesOK ==
    /\ Len(node) \in Nat /\ DOMAIN node = Refs
    /\ \A i \in Refs : node[i].boolean \in Booleans /\ (IsCondition(i) \/ IsGroup(i))

LEMMA WordType ==
    ASSUME NEW w \in {"(", ")", "AND", "OR"}
    PROVE  Word(w) \in Seq(Tokens) /\ Len(Word(w)) = 1 /\ Word(w)[1] = [word |-> w]
  <1>1. [word |-> w] \in Tokens
    BY DEF Tokens, Booleans
  <1> QED BY <1>1 DEF Word

LEMMA NothingType == ASSUME NEW n \in Nat PROVE Nothing(n) \in Clauses
  BY DEF Nothing, Clauses

LEMMA FollowedType ==
    ASSUME NEW c \in Clauses, NEW words \in Seq(Tokens), NEW d \in Clauses
    PROVE  Followed(c, words, d) \in Clauses
  <1>1. c.sql \in Seq(Tokens) /\ d.sql \in Seq(Tokens) /\ d.n \in Nat
        /\ c.params \in Seq(Int) /\ d.params \in Seq(Int)
    BY DEF Clauses
  <1>2. c.sql \o words \o d.sql \in Seq(Tokens) /\ c.params \o d.params \in Seq(Int)
    BY <1>1
  <1> QED BY <1>1, <1>2 DEF Followed, Clauses

LEMMA ParenthesisedType ==
    ASSUME NEW c \in Clauses
    PROVE  /\ Parenthesised(c) \in Clauses
           /\ Parenthesised(c).sql = Word("(") \o c.sql \o Word(")")
           /\ Parenthesised(c).n = c.n /\ Parenthesised(c).params = c.params
  <1>1. c.sql \in Seq(Tokens)
    BY DEF Clauses
  <1>2. Word("(") \o c.sql \o Word(")") \in Seq(Tokens)
    BY <1>1, WordType
  <1> QED BY <1>2 DEF Parenthesised, Clauses

LEMMA ConditionType ==
    ASSUME NEW test \in Conditions, NEW n \in Nat
    PROVE  Condition(test, n) \in Clauses
  <1>1. test.values \in Seq(Int) /\ Len(test.values) \in Nat /\ DOMAIN test.values = 1 .. Len(test.values)
    <2>1. test.values \in Seq(Int)
      BY DEF Conditions
    <2> QED BY <2>1
  <1>2. [k \in DOMAIN test.values |-> n + k] \in Seq(Nat)
    BY <1>1
  <1>3. [word |-> "test", test |-> test, marks |-> [k \in DOMAIN test.values |-> n + k]] \in Tokens
    BY <1>2 DEF Tokens
  <1> QED BY <1>1, <1>3 DEF Condition, Clauses

\* What the list holds after each of its nodes.
IsJoined(j, list, part, n) ==
    /\ j \in [0 .. Len(list) -> Clauses] /\ j[0] = Nothing(n)
    /\ \A k \in 1 .. Len(list) : j[k] = Followed(j[k - 1], Joint(list, k), part[k][j[k - 1].n])

LEMMA JointType ==
    ASSUME NodesOK, NEW list \in Seq(Refs), NEW k \in 1 .. Len(list)
    PROVE  Joint(list, k) \in Seq(Tokens)
  <1>1. node[list[k]].boolean \in Booleans
    BY DEF NodesOK
  <1> QED BY <1>1, WordType DEF Joint, Booleans

LEMMA ListIsJoined ==
    ASSUME NodesOK, NEW list \in Seq(Refs), NEW part \in [1 .. Len(list) -> [Nat -> Clauses]], NEW n \in Nat
    PROVE  \E j \in [0 .. Len(list) -> Clauses] :
              IsJoined(j, list, part, n) /\ compileList(list, part, n) = j[Len(list)]
  <1> DEFINE L == Len(list)
             G == [k \in 1 .. L |-> [c \in Clauses |-> Followed(c, Joint(list, k), part[k][c.n])]]
             Def(g) == [k \in 0 .. L |-> IF k = 0 THEN Nothing(n)
                                         ELSE Followed(g[k - 1], Joint(list, k), part[k][g[k - 1].n])]
             joined == CHOOSE g : g = Def(g)
  <1>1. L \in Nat
    OBVIOUS
  <1>2. \A k \in 1 .. L : \A c \in Clauses : G[k][c] \in Clauses
    <2> SUFFICES ASSUME NEW k \in 1 .. L, NEW c \in Clauses
                 PROVE  Followed(c, Joint(list, k), part[k][c.n]) \in Clauses
      OBVIOUS
    <2>1. c.n \in Nat
      BY DEF Clauses
    <2>2. part[k][c.n] \in Clauses
      BY <2>1
    <2> QED BY <2>2, JointType, FollowedType
  <1>3. PICK f \in [0 .. L -> Clauses] : Steps(f, L, Clauses, Nothing(n), G)
    <2>1. Nothing(n) \in Clauses
      BY NothingType
    <2> HIDE DEF L, G
    <2> QED BY <1>1, <1>2, <2>1, StepsDefine
  <1>4. f = Def(f)
    <2>1. ASSUME NEW k \in 0 .. L PROVE f[k] = Def(f)[k]
      <3>1. CASE k = 0
        BY <1>3, <3>1 DEF Steps
      <3>2. CASE k \in 1 .. L
        <4>1. f[k - 1] \in Clauses /\ f[k] = G[k][f[k - 1]]
          <5>1. k - 1 \in 0 .. L
            BY <3>2
          <5> HIDE DEF G, L
          <5> QED BY <1>3, <3>2, <5>1 DEF Steps
        <4>2. G[k][f[k - 1]] = Followed(f[k - 1], Joint(list, k), part[k][f[k - 1].n])
          BY <4>1, <3>2
        <4> HIDE DEF G
        <4> QED BY <3>2, <4>1, <4>2
      <3> QED BY <3>1, <3>2
    <2>2. DOMAIN f = 0 .. L /\ f = [k \in 0 .. L |-> f[k]]
      OBVIOUS
    <2>3. Def(f) = [k \in 0 .. L |-> Def(f)[k]]
      OBVIOUS
    <2> HIDE DEF Def, L
    <2> QED BY <2>1, <2>2, <2>3
  <1>5. joined = Def(joined)
    <2> HIDE DEF Def
    <2> QED BY <1>4
  <1>6. \A k \in 0 .. L : joined[k] = IF k = 0 THEN Nothing(n)
                                      ELSE Followed(joined[k - 1], Joint(list, k), part[k][joined[k - 1].n])
    <2> HIDE DEF joined
    <2> QED BY <1>5
  <1>7. joined[L] = compileList(list, part, n)
    BY DEF compileList
  <1> HIDE DEF joined
  <1> DEFINE Typed == {k \in 0 .. L : joined[k] \in Clauses}
  <1>8. 0 .. L \subseteq Typed
    <2>1. 0 \in Typed
      BY <1>1, <1>6, NothingType
    <2>2. ASSUME NEW m \in 0 .. L, m < L, m \in Typed PROVE m + 1 \in Typed
      <3>1. m + 1 \in 1 .. L /\ m + 1 # 0 /\ (m + 1) - 1 = m
        BY <2>2
      <3>2. joined[m + 1] = Followed(joined[m], Joint(list, m + 1), part[m + 1][joined[m].n])
        BY <1>6, <3>1
      <3>3. joined[m] \in Clauses /\ joined[m].n \in Nat
        BY <2>2 DEF Clauses
      <3>4. part[m + 1][joined[m].n] \in Clauses
        BY <3>1, <3>3
      <3> QED BY <3>1, <3>2, <3>3, <3>4, JointType, FollowedType
    <2> HIDE DEF Typed
    <2> QED BY <1>1, <2>1, <2>2, Upwards
  <1>9. joined = [k \in 0 .. L |-> joined[k]]
    <2>1. Def(joined) = [k \in 0 .. L |-> Def(joined)[k]]
      OBVIOUS
    <2> HIDE DEF Def
    <2> QED BY <1>5, <2>1
  <1>10. joined \in [0 .. L -> Clauses]
    BY <1>8, <1>9
  <1>11. IsJoined(joined, list, part, n)
    <2>1. \A k \in 1 .. L : k # 0 /\ k \in 0 .. L
      OBVIOUS
    <2> QED BY <1>1, <1>6, <1>10, <2>1 DEF IsJoined
  <1> QED BY <1>7, <1>10, <1>11

\* What each node of a list is compiled to.
Parts(list) == [k \in DOMAIN list |-> compileNode[list[k]]]

LEMMA RefsBelow ==
    ASSUME NodesOK, NEW i \in Refs, ~ IsCondition(i)
    PROVE  /\ node[i].kind # "condition" /\ IsGroup(i)
           /\ node[i].children \in Seq(1 .. (i - 1)) /\ node[i].children \in Seq(Refs)
           /\ DOMAIN node[i].children = 1 .. Len(node[i].children) /\ Len(node[i].children) \in Nat
  <1>1. IsGroup(i)
    BY DEF NodesOK
  <1>2. node[i].children \in Seq(1 .. (i - 1))
    BY <1>1 DEF IsGroup
  <1>3. Len(node) \in Nat /\ i \in 1 .. Len(node)
    BY DEF NodesOK, Refs
  <1>4. 1 .. (i - 1) \subseteq Refs
    BY <1>3 DEF Refs
  <1>5. node[i].children \in Seq(Refs)
    <2> HIDE DEF Refs
    <2> QED BY <1>2, <1>4, SeqMonotonic
  <1> QED BY <1>1, <1>2, <1>5 DEF IsGroup

\* compileNode is what its definition says.
LEMMA NodeIsCompiled ==
    ASSUME NodesOK
    PROVE  \A i \in Refs :
              /\ compileNode[i] \in [Nat -> Clauses]
              /\ \A n \in Nat : compileNode[i][n] =
                    IF node[i].kind = "condition" THEN Condition(node[i].test, n)
                    ELSE IF node[i].children = <<>> THEN Condition(Tautology(TRUE), n)
                    ELSE Parenthesised(compileList(node[i].children, Parts(node[i].children), n))
  <1> DEFINE L == Len(node)
             S == [Nat -> Clauses]
             Part(g, i) == [k \in DOMAIN node[i].children |-> g[node[i].children[k]]]
             One(part, i, n) == IF node[i].kind = "condition" THEN Condition(node[i].test, n)
                                ELSE IF node[i].children = <<>> THEN Condition(Tautology(TRUE), n)
                                ELSE Parenthesised(compileList(node[i].children, part, n))
             Text(part, i) == [n \in Nat |-> One(part, i, n)]
             G == [i \in 1 .. L |-> [g \in [1 .. (i - 1) -> S] |-> Text(Part(g, i), i)]]
             Def(g) == [i \in DOMAIN node |-> Text(Part(g, i), i)]
             f == CHOOSE g : g = Def(g)
  <1>1. L \in Nat /\ DOMAIN node = 1 .. L
    BY DEF NodesOK, Refs
  <1>2. ASSUME NEW i \in 1 .. L, NEW part, ~ IsCondition(i) => part \in [1 .. Len(node[i].children) -> S]
        PROVE  Text(part, i) \in S
    <2> SUFFICES ASSUME NEW n \in Nat PROVE One(part, i, n) \in Clauses
      OBVIOUS
    <2>1. CASE IsCondition(i)
      BY <2>1, ConditionType DEF IsCondition
    <2>2. CASE ~ IsCondition(i)
      <3>1. node[i].kind # "condition" /\ node[i].children \in Seq(Refs)
        BY <2>2, RefsBelow DEF Refs
      <3>2. Tautology(TRUE) \in Conditions
        BY DEF Tautology, Conditions, Columns
      <3>3. compileList(node[i].children, part, n) \in Clauses
        <4>1. PICK j \in [0 .. Len(node[i].children) -> Clauses] :
                  IsJoined(j, node[i].children, part, n)
                  /\ compileList(node[i].children, part, n) = j[Len(node[i].children)]
          BY <1>2, <2>2, <3>1, ListIsJoined
        <4>2. Len(node[i].children) \in 0 .. Len(node[i].children)
          BY <3>1
        <4> QED BY <4>1, <4>2
      <3> QED BY <3>1, <3>2, <3>3, ConditionType, ParenthesisedType
    <2> QED BY <2>1, <2>2
  <1>3. ASSUME NEW i \in 1 .. L, ~ IsCondition(i), NEW g \in [1 .. (i - 1) -> S]
        PROVE  Part(g, i) \in [1 .. Len(node[i].children) -> S]
    BY <1>3, RefsBelow DEF Refs
  <1>4. \A i \in 1 .. L : \A g \in [1 .. (i - 1) -> S] : G[i][g] \in S
    <2> SUFFICES ASSUME NEW i \in 1 .. L, NEW g \in [1 .. (i - 1) -> S] PROVE G[i][g] \in S
      OBVIOUS
    <2>1. G[i][g] = Text(Part(g, i), i)
      <3> HIDE DEF Text, Part
      <3> QED OBVIOUS
    <2> HIDE DEF Text, Part, G, S
    <2> QED BY <1>2, <1>3, <2>1
  <1>5. PICK h \in [1 .. L -> S] : Builds(h, L, S, G)
    <2> HIDE DEF L, S, G
    <2> QED BY <1>1, <1>4, BeforeDefines
  <1>6. h = Def(h)
    <2>1. ASSUME NEW i \in 1 .. L PROVE h[i] = Text(Part(h, i), i)
      <3> DEFINE g == [j \in 1 .. (i - 1) |-> h[j]]
      <3>1. g \in [1 .. (i - 1) -> S]
        <4>1. \A j \in 1 .. (i - 1) : j \in 1 .. L
          BY <1>1
        <4> HIDE DEF S, L
        <4> QED BY <4>1
      <3>2. h[i] = G[i][g]
        BY <1>5 DEF Builds
      <3>3. G[i][g] = Text(Part(g, i), i)
        <4> HIDE DEF g, Text, Part
        <4> QED BY <3>1
      <3>4. CASE IsCondition(i)
        <4>1. \A part : Text(part, i) = [n \in Nat |-> Condition(node[i].test, n)]
          BY <3>4 DEF IsCondition
        <4> HIDE DEF g, Text, Part, G
        <4> QED BY <3>2, <3>3, <4>1
      <3>5. CASE ~ IsCondition(i)
        <4>1. DOMAIN node[i].children = 1 .. Len(node[i].children)
              /\ \A k \in 1 .. Len(node[i].children) : node[i].children[k] \in 1 .. (i - 1)
          BY <3>5, RefsBelow DEF Refs
        <4>2. \A k \in 1 .. Len(node[i].children) : g[node[i].children[k]] = h[node[i].children[k]]
          BY <4>1
        <4>3. Part(g, i) = Part(h, i)
          <5> HIDE DEF g
          <5> QED BY <4>1, <4>2
        <4> HIDE DEF g, Text, Part, G
        <4> QED BY <3>2, <3>3, <4>3
      <3> QED BY <3>4, <3>5
    <2>2. h = [i \in 1 .. L |-> h[i]]
      OBVIOUS
    <2> HIDE DEF Text, Part, L
    <2> QED BY <1>1, <2>1, <2>2
  <1>7. compileNode = f
    BY DEF compileNode
  <1>8. f = Def(f)
    <2> HIDE DEF Def
    <2> QED BY <1>6
  <1>9. ASSUME NEW i \in 1 .. L PROVE compileNode[i] = Text(Part(compileNode, i), i)
    <2> HIDE DEF f, Text, Part
    <2> QED BY <1>1, <1>7, <1>8
  <1>10. ASSUME NEW i \in 1 .. L PROVE Part(compileNode, i) = Parts(node[i].children)
    BY DEF Parts
  <1>11. ASSUME NEW i \in 1 .. L, \A j \in 1 .. (i - 1) : compileNode[j] \in S
         PROVE  compileNode[i] \in S
    <2>1. ~ IsCondition(i) => Part(compileNode, i) \in [1 .. Len(node[i].children) -> S]
      <3> SUFFICES ASSUME ~ IsCondition(i) PROVE Part(compileNode, i) \in [1 .. Len(node[i].children) -> S]
        OBVIOUS
      <3>1. DOMAIN node[i].children = 1 .. Len(node[i].children)
            /\ \A k \in 1 .. Len(node[i].children) : node[i].children[k] \in 1 .. (i - 1)
        BY RefsBelow DEF Refs
      <3> HIDE DEF S
      <3> QED BY <1>11, <3>1
    <2> HIDE DEF Text, Part, S
    <2> QED BY <1>2, <1>9, <2>1
  <1> DEFINE Good == {i \in 1 .. L : compileNode[i] \in S}
  <1>12. 1 .. L \subseteq Good
    <2>1. \A i \in 1 .. L : (\A j \in 1 .. (i - 1) : j \in Good) => i \in Good
      <3> HIDE DEF S
      <3> QED BY <1>11
    <2> HIDE DEF Good, L
    <2> QED BY <1>1, <2>1, FromBefore
  <1>13. ASSUME NEW i \in 1 .. L, NEW n \in Nat PROVE compileNode[i][n] = One(Parts(node[i].children), i, n)
    <2>1. Text(Parts(node[i].children), i)[n] = One(Parts(node[i].children), i, n)
      <3> HIDE DEF One
      <3> QED OBVIOUS
    <2> HIDE DEF One, Text, Part
    <2> QED BY <1>9, <1>10, <2>1
  <1>14. \A i \in Refs : i \in 1 .. L
    BY DEF Refs
  <1> QED BY <1>12, <1>13, <1>14

\* What each node of a list asks for.
AskParts(list) == [k \in DOMAIN list |-> NodeAsks[list[k]]]

\* NodeAsks is what its definition says.
LEMMA NodeIsAsked ==
    ASSUME NodesOK
    PROVE  \A i \in Refs :
              /\ NodeAsks[i] \in SUBSET AllRows
              /\ NodeAsks[i] = IF node[i].kind = "condition" THEN {row \in AllRows : Wants(node[i].asked, row)}
                               ELSE Asks(node[i].children, AskParts(node[i].children))
  <1> DEFINE L == Len(node)
             S == SUBSET AllRows
             Part(g, i) == [k \in DOMAIN node[i].children |-> g[node[i].children[k]]]
             One(part, i) == IF node[i].kind = "condition" THEN {row \in AllRows : Wants(node[i].asked, row)}
                             ELSE Asks(node[i].children, part)
             G == [i \in 1 .. L |-> [g \in [1 .. (i - 1) -> S] |-> One(Part(g, i), i)]]
             Def(g) == [i \in DOMAIN node |-> One(Part(g, i), i)]
             f == CHOOSE g : g = Def(g)
  <1>1. L \in Nat /\ DOMAIN node = 1 .. L
    BY DEF NodesOK, Refs
  <1>2. \A i, part : One(part, i) \in S
    BY DEF Asks
  <1>3. \A i \in 1 .. L : \A g \in [1 .. (i - 1) -> S] : G[i][g] \in S
    <2> SUFFICES ASSUME NEW i \in 1 .. L, NEW g \in [1 .. (i - 1) -> S] PROVE G[i][g] \in S
      OBVIOUS
    <2>1. G[i][g] = One(Part(g, i), i)
      <3> HIDE DEF One, Part
      <3> QED OBVIOUS
    <2> HIDE DEF One, Part, G, S
    <2> QED BY <1>2, <2>1
  <1>4. PICK h \in [1 .. L -> S] : Builds(h, L, S, G)
    <2> HIDE DEF L, S, G
    <2> QED BY <1>1, <1>3, BeforeDefines
  <1>5. h = Def(h)
    <2>1. ASSUME NEW i \in 1 .. L PROVE h[i] = One(Part(h, i), i)
      <3> DEFINE g == [j \in 1 .. (i - 1) |-> h[j]]
      <3>1. g \in [1 .. (i - 1) -> S]
        <4>1. \A j \in 1 .. (i - 1) : j \in 1 .. L
          BY <1>1
        <4> HIDE DEF S, L
        <4> QED BY <4>1
      <3>2. h[i] = G[i][g]
        BY <1>4 DEF Builds
      <3>3. G[i][g] = One(Part(g, i), i)
        <4> HIDE DEF g, One, Part
        <4> QED BY <3>1
      <3>4. CASE IsCondition(i)
        <4>1. \A part : One(part, i) = {row \in AllRows : Wants(node[i].asked, row)}
          BY <3>4 DEF IsCondition
        <4> HIDE DEF g, One, Part, G
        <4> QED BY <3>2, <3>3, <4>1
      <3>5. CASE ~ IsCondition(i)
        <4>1. DOMAIN node[i].children = 1 .. Len(node[i].children)
              /\ \A k \in 1 .. Len(node[i].children) : node[i].children[k] \in 1 .. (i - 1)
          BY <3>5, RefsBelow DEF Refs
        <4>2. \A k \in 1 .. Len(node[i].children) : g[node[i].children[k]] = h[node[i].children[k]]
          BY <4>1
        <4>3. Part(g, i) = Part(h, i)
          <5> HIDE DEF g
          <5> QED BY <4>1, <4>2
        <4> HIDE DEF g, One, Part, G
        <4> QED BY <3>2, <3>3, <4>3
      <3> QED BY <3>4, <3>5
    <2>2. h = [i \in 1 .. L |-> h[i]]
      OBVIOUS
    <2> HIDE DEF One, Part, L
    <2> QED BY <1>1, <2>1, <2>2
  <1>6. NodeAsks = f
    BY DEF NodeAsks
  <1>7. f = Def(f)
    <2> HIDE DEF Def
    <2> QED BY <1>5
  <1>8. ASSUME NEW i \in 1 .. L PROVE NodeAsks[i] = One(Part(NodeAsks, i), i)
    <2> HIDE DEF f, One, Part
    <2> QED BY <1>1, <1>6, <1>7
  <1>9. ASSUME NEW i \in 1 .. L PROVE Part(NodeAsks, i) = AskParts(node[i].children)
    BY DEF AskParts
  <1>10. \A i \in Refs : i \in 1 .. L
    BY DEF Refs
  <1>11. ASSUME NEW i \in Refs
         PROVE  NodeAsks[i] \in S /\ NodeAsks[i] = One(AskParts(node[i].children), i)
    <2> HIDE DEF One, Part, S, L
    <2> QED BY <1>2, <1>8, <1>9, <1>10
  <1> QED BY <1>11

\* A reader of a clause is one at every token.
LEMMA StepType ==
    ASSUME NEW reader \in Readers, NEW token \in Tokens, NEW params, NEW row
    PROVE  Step(reader, token, params, row) \in Readers
  <1> DEFINE top == reader.top
             below == reader.below
             says == Says(token.test, [k \in DOMAIN token.marks |-> params[token.marks[k]]], row)
  <1>1. top \in Levels /\ below \in Seq(Levels)
    BY DEF Readers
  <1>2. \A level \in Levels : \A b : And(level, b) \in Levels
    BY DEF Levels, And
  <1>3. Value(top) \in BOOLEAN
    BY <1>1 DEF Value, Levels
  <1>4. \A l \in Levels, s \in Seq(Levels) : Reader(l, s) \in Readers
    BY DEF Reader, Readers
  <1>5. token.word \in {"(", ")", "AND", "OR", "test"}
    BY DEF Tokens, Booleans
  <1>6. Open \in Levels /\ [or |-> Value(top), and |-> TRUE] \in Levels
    BY <1>3 DEF Open, Levels
  <1>7. Append(below, top) \in Seq(Levels)
    BY <1>1
  <1>8. below # <<>> => Last(below) \in Levels /\ Front(below) \in Seq(Levels)
    BY <1>1 DEF Last, Front
  <1> HIDE DEF says
  <1>9. Step(reader, token, params, row) =
           CASE token.word = "("   -> Reader(Open, Append(below, top))
             [] token.word = ")"   -> IF below = <<>> THEN reader
                                      ELSE Reader(And(Last(below), Value(top)), Front(below))
             [] token.word = "OR"  -> Reader([or |-> Value(top), and |-> TRUE], below)
             [] token.word = "AND" -> reader
             [] token.word = "test" -> Reader(And(top, says), below)
    BY DEF Step, says
  <1> HIDE DEF top, below
  <1>10. CASE token.word = "("
    BY <1>1, <1>4, <1>6, <1>7, <1>9, <1>10
  <1>11. CASE token.word = ")"
    BY <1>2, <1>4, <1>8, <1>9, <1>11
  <1>12. CASE token.word = "OR"
    BY <1>1, <1>4, <1>6, <1>9, <1>12
  <1>13. CASE token.word = "AND"
    BY <1>9, <1>13
  <1>14. CASE token.word = "test"
    BY <1>1, <1>2, <1>4, <1>9, <1>14
  <1> QED BY <1>5, <1>10, <1>11, <1>12, <1>13, <1>14

\* Where the reader of a clause is after each token.
IsRead(r, clause, row) ==
    /\ r \in [0 .. Len(clause.sql) -> Readers] /\ r[0] = Reader(Open, <<>>)
    /\ \A k \in 1 .. Len(clause.sql) : r[k] = Step(r[k - 1], clause.sql[k], clause.params, row)

LEMMA ClauseIsRead ==
    ASSUME NEW clause \in Clauses, NEW row
    PROVE  \E r \in [0 .. Len(clause.sql) -> Readers] :
              IsRead(r, clause, row) /\ Reads(clause, row) = Value(r[Len(clause.sql)].top)
  <1> DEFINE L == Len(clause.sql)
             Start == Reader(Open, <<>>)
             G == [k \in 1 .. L |-> [r \in Readers |-> Step(r, clause.sql[k], clause.params, row)]]
             Def(g) == [k \in 0 .. L |-> IF k = 0 THEN Start
                                         ELSE Step(g[k - 1], clause.sql[k], clause.params, row)]
             read == CHOOSE g : g = Def(g)
  <1>1. L \in Nat /\ \A k \in 1 .. L : clause.sql[k] \in Tokens
    BY DEF Clauses
  <1>2. \A k \in 1 .. L : \A r \in Readers : G[k][r] \in Readers
    BY <1>1, StepType
  <1>3. Start \in Readers
    BY DEF Reader, Readers, Open, Levels
  <1>4. PICK f \in [0 .. L -> Readers] : Steps(f, L, Readers, Start, G)
    <2> HIDE DEF L, G, Start
    <2> QED BY <1>1, <1>2, <1>3, StepsDefine
  <1>5. f = Def(f)
    <2>1. ASSUME NEW k \in 0 .. L PROVE f[k] = Def(f)[k]
      <3>1. CASE k = 0
        BY <1>4, <3>1 DEF Steps
      <3>2. CASE k \in 1 .. L
        <4>1. f[k - 1] \in Readers /\ f[k] = G[k][f[k - 1]]
          <5>1. k - 1 \in 0 .. L
            BY <1>1, <3>2
          <5> HIDE DEF G, L
          <5> QED BY <1>4, <3>2, <5>1 DEF Steps
        <4>2. G[k][f[k - 1]] = Step(f[k - 1], clause.sql[k], clause.params, row)
          BY <4>1, <3>2
        <4> HIDE DEF G
        <4> QED BY <1>1, <3>2, <4>1, <4>2
      <3> QED BY <1>1, <3>1, <3>2
    <2>2. f = [k \in 0 .. L |-> f[k]]
      OBVIOUS
    <2>3. Def(f) = [k \in 0 .. L |-> Def(f)[k]]
      OBVIOUS
    <2> HIDE DEF Def, L
    <2> QED BY <2>1, <2>2, <2>3
  <1>6. read = Def(read)
    <2> HIDE DEF Def
    <2> QED BY <1>5
  <1>7. \A k \in 0 .. L : read[k] = IF k = 0 THEN Start ELSE Step(read[k - 1], clause.sql[k], clause.params, row)
    <2> HIDE DEF read
    <2> QED BY <1>6
  <1>8. Reads(clause, row) = Value(read[L].top)
    BY DEF Reads
  <1> HIDE DEF read
  <1> DEFINE Typed == {k \in 0 .. L : read[k] \in Readers}
  <1>9. 0 .. L \subseteq Typed
    <2>1. 0 \in Typed
      BY <1>1, <1>3, <1>7
    <2>2. ASSUME NEW m \in 0 .. L, m < L, m \in Typed PROVE m + 1 \in Typed
      <3>1. m + 1 \in 1 .. L /\ m + 1 \in 0 .. L /\ m + 1 # 0 /\ (m + 1) - 1 = m
        BY <1>1, <2>2
      <3>2. read[m + 1] = Step(read[m], clause.sql[m + 1], clause.params, row)
        BY <1>7, <3>1
      <3>3. read[m] \in Readers
        BY <2>2
      <3> HIDE DEF L
      <3> QED BY <1>1, <3>1, <3>2, <3>3, StepType
    <2> HIDE DEF Typed
    <2> QED BY <1>1, <2>1, <2>2, Upwards
  <1>10. read = [k \in 0 .. L |-> read[k]]
    <2>1. Def(read) = [k \in 0 .. L |-> Def(read)[k]]
      OBVIOUS
    <2> HIDE DEF Def
    <2> QED BY <1>6, <2>1
  <1>11. read \in [0 .. L -> Readers]
    BY <1>9, <1>10
  <1>12. IsRead(read, clause, row)
    <2>1. \A k \in 1 .. L : k # 0 /\ k \in 0 .. L
      BY <1>1
    <2>2. 0 \in 0 .. L
      BY <1>1
    <2> QED BY <1>7, <1>11, <2>1, <2>2 DEF IsRead
  <1> QED BY <1>8, <1>11, <1>12

-----------------------------------------------------------------------------
(* Alternatives: St are the positions at which one starts, A those of the  *)
(* conditions that hold.                                                   *)

\* The alternative that starts at i holds, as far as k.
AltHolds(St, A, i, k) == \A j \in i .. k : (\A m \in i + 1 .. j : m \notin St) => j \in A
\* What a reader that has come as far as k knows: that one which ended holds, ...
EndedHolds(St, A, k) == \E i \in 1 .. k : i \in St /\ (\E m \in i + 1 .. k : m \in St) /\ AltHolds(St, A, i, k)
\* ... and that the one it is in does.
LastHolds(St, A, k) == \A j \in 1 .. k : (\A m \in j + 1 .. k : m \notin St) => j \in A

LEMMA GreatestExists ==
    ASSUME NEW n \in Nat, NEW S \in SUBSET (1 .. n), S # {}
    PROVE  \E x \in S : \A y \in S : y <= x
  <1> DEFINE T == {n - x : x \in S}
  <1>1. T \in SUBSET Nat /\ T # {}
    <2>1. \A x \in S : n - x \in Nat
      OBVIOUS
    <2> QED BY <2>1
  <1>2. PICK z \in T : \A y \in T : z <= y
    <2> HIDE DEF T
    <2> QED BY <1>1, LeastExists
  <1>3. PICK x \in S : z = n - x
    BY <1>2
  <1>4. ASSUME NEW y \in S PROVE y <= x
    <2>1. n - y \in T
      OBVIOUS
    <2>2. z <= n - y
      BY <1>2, <2>1
    <2>3. x \in 1 .. n /\ y \in 1 .. n
      OBVIOUS
    <2> HIDE DEF T
    <2> QED BY <1>3, <2>2, <2>3
  <1> QED BY <1>4

\* Together, that some alternative does.
LEMMA SomeHolds ==
    ASSUME NEW k \in Nat, k >= 1, NEW St, NEW A, 1 \in St
    PROVE  (\E i \in 1 .. k : i \in St /\ AltHolds(St, A, i, k)) <=> EndedHolds(St, A, k) \/ LastHolds(St, A, k)
  <1>1. ASSUME NEW i \in 1 .. k, i \in St, AltHolds(St, A, i, k)
        PROVE  EndedHolds(St, A, k) \/ LastHolds(St, A, k)
    <2>1. CASE \E m \in i + 1 .. k : m \in St
      BY <1>1, <2>1 DEF EndedHolds
    <2>2. CASE \A m \in i + 1 .. k : m \notin St
      <3> SUFFICES ASSUME NEW j \in 1 .. k, \A m \in j + 1 .. k : m \notin St PROVE j \in A
        BY DEF LastHolds
      <3>1. j >= i
        BY <1>1
      <3>2. j \in i .. k /\ \A m \in i + 1 .. j : m \in i + 1 .. k
        BY <3>1
      <3> QED BY <1>1, <2>2, <3>2 DEF AltHolds
    <2> QED BY <2>1, <2>2
  <1>2. ASSUME LastHolds(St, A, k) PROVE \E i \in 1 .. k : i \in St /\ AltHolds(St, A, i, k)
    <2> DEFINE S == {i \in 1 .. k : i \in St}
    <2>1. PICK i \in S : \A y \in S : y <= i
      <3>1. S \in SUBSET (1 .. k) /\ S # {}
        OBVIOUS
      <3> HIDE DEF S
      <3> QED BY <3>1, GreatestExists
    <2>2. \A m \in i + 1 .. k : m \notin St
      <3> SUFFICES ASSUME NEW m \in i + 1 .. k, m \in St PROVE FALSE
        OBVIOUS
      <3>1. m \in S
        BY <2>1
      <3> QED BY <2>1, <3>1
    <2>3. ASSUME NEW j \in i .. k PROVE j \in A
      <3>1. j \in 1 .. k /\ \A m \in j + 1 .. k : m \in i + 1 .. k
        BY <2>1
      <3> QED BY <1>2, <2>2, <3>1 DEF LastHolds
    <2> QED BY <2>1, <2>3 DEF AltHolds
  <1>3. EndedHolds(St, A, k) => \E i \in 1 .. k : i \in St /\ AltHolds(St, A, i, k)
    BY DEF EndedHolds
  <1> QED BY <1>1, <1>2, <1>3

\* What the reader knows after one more condition.
LEMMA NextHolds ==
    ASSUME NEW k \in Nat, NEW St, NEW A, 1 \in St
    PROVE  /\ k + 1 \in St /\ k >= 1 =>
                /\ LastHolds(St, A, k + 1) <=> k + 1 \in A
                /\ EndedHolds(St, A, k + 1) <=> EndedHolds(St, A, k) \/ LastHolds(St, A, k)
           /\ k + 1 \notin St =>
                /\ LastHolds(St, A, k + 1) <=> LastHolds(St, A, k) /\ k + 1 \in A
                /\ EndedHolds(St, A, k + 1) <=> EndedHolds(St, A, k)
           /\ k = 0 => LastHolds(St, A, 0) /\ ~ EndedHolds(St, A, 0)
                       /\ (LastHolds(St, A, 1) <=> 1 \in A) /\ ~ EndedHolds(St, A, 1)
  <1>1. ASSUME k + 1 \in St, k >= 1 PROVE LastHolds(St, A, k + 1) <=> k + 1 \in A
    <2>1. \A j \in 1 .. k + 1 : j # k + 1 => k + 1 \in j + 1 .. k + 1
      OBVIOUS
    <2>2. k + 1 \in 1 .. k + 1 /\ \A m \in (k + 1) + 1 .. k + 1 : FALSE
      OBVIOUS
    <2> QED BY <1>1, <2>1, <2>2 DEF LastHolds
  <1>2. ASSUME k + 1 \in St, k >= 1
        PROVE  EndedHolds(St, A, k + 1) <=> EndedHolds(St, A, k) \/ LastHolds(St, A, k)
    <2>1. \A i \in 1 .. k : AltHolds(St, A, i, k + 1) <=> AltHolds(St, A, i, k)
      <3> SUFFICES ASSUME NEW i \in 1 .. k PROVE AltHolds(St, A, i, k + 1) <=> AltHolds(St, A, i, k)
        OBVIOUS
      <3>1. \A j \in i .. k + 1 : j \in i .. k \/ j = k + 1
        OBVIOUS
      <3>2. k + 1 \in i + 1 .. k + 1 /\ \A j \in i .. k : j \in i .. k + 1
        OBVIOUS
      <3> QED BY <1>2, <3>1, <3>2 DEF AltHolds
    <2>2. \A i \in 1 .. k : k + 1 \in i + 1 .. k + 1 /\ i \in 1 .. k + 1
      OBVIOUS
    <2>3. \A i \in 1 .. k + 1 : i \in 1 .. k \/ i = k + 1
      OBVIOUS
    <2>4. \A m \in (k + 1) + 1 .. k + 1 : FALSE
      OBVIOUS
    <2>5. EndedHolds(St, A, k + 1) <=> \E i \in 1 .. k : i \in St /\ AltHolds(St, A, i, k)
      BY <1>2, <2>1, <2>2, <2>3, <2>4 DEF EndedHolds
    <2> QED BY <1>2, <2>5, SomeHolds
  <1>3. ASSUME k + 1 \notin St PROVE LastHolds(St, A, k + 1) <=> LastHolds(St, A, k) /\ k + 1 \in A
    <2>1. \A j \in 1 .. k + 1 : j \in 1 .. k \/ j = k + 1
      OBVIOUS
    <2>2. \A j \in 1 .. k : /\ j \in 1 .. k + 1
                            /\ \A m \in j + 1 .. k + 1 : m \in j + 1 .. k \/ m = k + 1
                            /\ \A m \in j + 1 .. k : m \in j + 1 .. k + 1
      OBVIOUS
    <2>3. k + 1 \in 1 .. k + 1 /\ \A m \in (k + 1) + 1 .. k + 1 : FALSE
      OBVIOUS
    <2> QED BY <1>3, <2>1, <2>2, <2>3 DEF LastHolds
  <1>4. ASSUME k + 1 \notin St PROVE EndedHolds(St, A, k + 1) <=> EndedHolds(St, A, k)
    <2>1. \A i \in 1 .. k + 1 : i \in 1 .. k \/ i = k + 1
      OBVIOUS
    <2>2. \A m \in (k + 1) + 1 .. k + 1 : FALSE
      OBVIOUS
    <2>3. \A i \in 1 .. k : /\ i \in 1 .. k + 1
                            /\ (\E m \in i + 1 .. k + 1 : m \in St) <=> (\E m \in i + 1 .. k : m \in St)
      <3>1. \A i \in 1 .. k : /\ \A m \in i + 1 .. k + 1 : m \in i + 1 .. k \/ m = k + 1
                              /\ \A m \in i + 1 .. k : m \in i + 1 .. k + 1
        OBVIOUS
      <3>2. 1 .. k \subseteq 1 .. k + 1
        OBVIOUS
      <3> QED BY <1>4, <3>1, <3>2
    <2>4. \A i \in 1 .. k : (\E m \in i + 1 .. k : m \in St) =>
              (AltHolds(St, A, i, k + 1) <=> AltHolds(St, A, i, k))
      <3> SUFFICES ASSUME NEW i \in 1 .. k, NEW m \in i + 1 .. k, m \in St
                   PROVE  AltHolds(St, A, i, k + 1) <=> AltHolds(St, A, i, k)
        OBVIOUS
      <3>1. \A j \in i .. k + 1 : j \in i .. k \/ (j = k + 1 /\ m \in i + 1 .. j)
        OBVIOUS
      <3>2. \A j \in i .. k : j \in i .. k + 1
        OBVIOUS
      <3> QED BY <3>1, <3>2 DEF AltHolds
    <2> QED BY <2>1, <2>2, <2>3, <2>4 DEF EndedHolds
  <1>5. ASSUME k = 0
        PROVE  LastHolds(St, A, 0) /\ ~ EndedHolds(St, A, 0)
               /\ (LastHolds(St, A, 1) <=> 1 \in A) /\ ~ EndedHolds(St, A, 1)
    <2>1. (\A j \in 1 .. 0 : FALSE) /\ (\A j \in 1 .. 1 : j = 1) /\ 1 \in 1 .. 1 /\ (\A m \in 1 + 1 .. 1 : FALSE)
      OBVIOUS
    <2> QED BY <2>1 DEF LastHolds, EndedHolds
  <1> QED BY <1>1, <1>2, <1>3, <1>4, <1>5

-----------------------------------------------------------------------------
(* What a piece of a clause tells the reader, wherever it stands.          *)

\* The piece c, compiled with the counter at n, stands in w after o tokens.
At(c, n, w, o) ==
    /\ o \in Nat /\ o + Len(c.sql) <= Len(w.sql) /\ \A j \in 1 .. Len(c.sql) : w.sql[o + j] = c.sql[j]
    /\ n + Len(c.params) <= Len(w.params) /\ \A j \in 1 .. Len(c.params) : w.params[n + j] = c.params[j]

\* The counter counts the parameters.
Counted(c, n) == c.n = n + Len(c.params)

\* To a reader c is one condition, which holds if b does.
ReadsAs(c, n, row, b) ==
    \A w \in Clauses : \A r \in [0 .. Len(w.sql) -> Readers] : \A o \in Nat :
        IsRead(r, w, row) /\ At(c, n, w, o) =>
            r[o + Len(c.sql)] = Reader(And(r[o].top, b), r[o].below)

LEMMA FollowedIs ==
    ASSUME NEW c \in Clauses, NEW words \in Seq(Tokens), NEW d \in Clauses
    PROVE  /\ Followed(c, words, d).sql \in Seq(Tokens) /\ Followed(c, words, d).params \in Seq(Int) /\ Followed(c, words, d).n = d.n
           /\ Len(Followed(c, words, d).sql) = Len(c.sql) + Len(words) + Len(d.sql)
           /\ Len(Followed(c, words, d).params) = Len(c.params) + Len(d.params)
           /\ \A j \in 1 .. Len(c.sql) : Followed(c, words, d).sql[j] = c.sql[j]
           /\ \A j \in 1 .. Len(words) : Followed(c, words, d).sql[Len(c.sql) + j] = words[j]
           /\ \A j \in 1 .. Len(d.sql) : Followed(c, words, d).sql[Len(c.sql) + Len(words) + j] = d.sql[j]
           /\ \A j \in 1 .. Len(c.params) : Followed(c, words, d).params[j] = c.params[j]
           /\ \A j \in 1 .. Len(d.params) : Followed(c, words, d).params[Len(c.params) + j] = d.params[j]
  <1>1. c.sql \in Seq(Tokens) /\ d.sql \in Seq(Tokens) /\ c.params \in Seq(Int) /\ d.params \in Seq(Int)
    BY DEF Clauses
  <1>2. /\ Followed(c, words, d).sql = c.sql \o words \o d.sql
        /\ Followed(c, words, d).params = c.params \o d.params
        /\ Followed(c, words, d).n = d.n
    BY DEF Followed
  <1>3. /\ c.params \o d.params \in Seq(Int) /\ Len(c.params \o d.params) = Len(c.params) + Len(d.params)
        /\ \A j \in 1 .. Len(c.params) : (c.params \o d.params)[j] = c.params[j]
        /\ \A j \in 1 .. Len(d.params) : (c.params \o d.params)[Len(c.params) + j] = d.params[j]
    <2> DEFINE s == c.params
               t == d.params
    <2>1. s \in Seq(Int) /\ t \in Seq(Int)
      BY <1>1
    <2> HIDE DEF s, t
    <2>2. /\ s \o t \in Seq(Int) /\ Len(s \o t) = Len(s) + Len(t)
          /\ \A j \in 1 .. Len(s) : (s \o t)[j] = s[j]
          /\ \A j \in 1 .. Len(t) : (s \o t)[Len(s) + j] = t[j]
      BY <2>1
    <2> QED BY <2>2 DEF s, t
  <1>4. /\ c.sql \o words \in Seq(Tokens) /\ Len(c.sql \o words) = Len(c.sql) + Len(words)
        /\ \A j \in 1 .. Len(c.sql) : (c.sql \o words)[j] = c.sql[j]
        /\ \A j \in 1 .. Len(words) : (c.sql \o words)[Len(c.sql) + j] = words[j]
    <2> DEFINE s == c.sql
    <2>1. s \in Seq(Tokens)
      BY <1>1
    <2> HIDE DEF s
    <2>2. /\ s \o words \in Seq(Tokens) /\ Len(s \o words) = Len(s) + Len(words)
          /\ \A j \in 1 .. Len(s) : (s \o words)[j] = s[j]
          /\ \A j \in 1 .. Len(words) : (s \o words)[Len(s) + j] = words[j]
      BY <2>1
    <2> QED BY <2>2 DEF s
  <1> DEFINE cw == c.sql \o words
  <1>5. /\ cw \o d.sql \in Seq(Tokens) /\ Len(cw \o d.sql) = Len(cw) + Len(d.sql)
        /\ \A j \in 1 .. Len(cw) : (cw \o d.sql)[j] = cw[j]
        /\ \A j \in 1 .. Len(d.sql) : (cw \o d.sql)[Len(cw) + j] = d.sql[j]
    <2>1. cw \in Seq(Tokens)
      BY <1>4
    <2> HIDE DEF cw
    <2> QED BY <1>1, <2>1
  <1>6. Len(c.sql) \in Nat /\ Len(words) \in Nat /\ Len(d.sql) \in Nat
    BY <1>1
  <1>7. \A j \in 1 .. Len(words) : Len(c.sql) + j \in 1 .. Len(cw)
    BY <1>4, <1>6
  <1>8. \A j \in 1 .. Len(c.sql) : j \in 1 .. Len(cw)
    BY <1>4, <1>6
  <1>9. cw = c.sql \o words /\ Followed(c, words, d).sql = cw \o d.sql
    BY <1>2
  <1> HIDE DEF cw
  <1> QED BY <1>2, <1>3, <1>4, <1>5, <1>6, <1>7, <1>8, <1>9

\* Where a piece stands, the pieces it is made of stand.
LEMMA FollowedAt ==
    ASSUME NEW c \in Clauses, NEW words \in Seq(Tokens), NEW d \in Clauses, NEW n \in Nat,
           Counted(c, n), NEW w \in Clauses, NEW o \in Nat, At(Followed(c, words, d), n, w, o)
    PROVE  /\ At(c, n, w, o)
           /\ \A j \in 1 .. Len(words) : w.sql[o + Len(c.sql) + j] = words[j]
           /\ At(d, c.n, w, o + Len(c.sql) + Len(words))
  <1> DEFINE f == Followed(c, words, d)
             a == Len(c.sql)
             b == Len(words)
             e == Len(d.sql)
             p == Len(c.params)
             q == Len(d.params)
  <1>1. /\ Len(f.sql) = a + b + e /\ Len(f.params) = p + q
        /\ \A j \in 1 .. a : f.sql[j] = c.sql[j]
        /\ \A j \in 1 .. b : f.sql[a + j] = words[j]
        /\ \A j \in 1 .. e : f.sql[a + b + j] = d.sql[j]
        /\ \A j \in 1 .. p : f.params[j] = c.params[j]
        /\ \A j \in 1 .. q : f.params[p + j] = d.params[j]
    BY FollowedIs
  <1>2. a \in Nat /\ b \in Nat /\ e \in Nat /\ p \in Nat /\ q \in Nat /\ Len(w.sql) \in Nat /\ Len(w.params) \in Nat
    BY DEF Clauses
  <1>3. /\ o + Len(f.sql) <= Len(w.sql) /\ \A j \in 1 .. Len(f.sql) : w.sql[o + j] = f.sql[j]
        /\ n + Len(f.params) <= Len(w.params) /\ \A j \in 1 .. Len(f.params) : w.params[n + j] = f.params[j]
    BY DEF At
  <1>4. c.n = n + p
    BY DEF Counted
  <1> HIDE DEF a, b, e, p, q, f
  <1>5. \A j \in 1 .. a : w.sql[o + j] = c.sql[j]
    <2>1. \A j \in 1 .. a : j \in 1 .. Len(f.sql)
      BY <1>1, <1>2
    <2> QED BY <1>1, <1>3, <2>1
  <1>6. \A j \in 1 .. b : w.sql[o + a + j] = words[j]
    <2> SUFFICES ASSUME NEW j \in 1 .. b PROVE w.sql[o + a + j] = words[j]
      OBVIOUS
    <2>1. a + j \in 1 .. Len(f.sql)
      BY <1>1, <1>2
    <2>2. o + (a + j) = o + a + j
      BY <1>2
    <2>3. w.sql[o + (a + j)] = f.sql[a + j] /\ f.sql[a + j] = words[j]
      BY <1>1, <1>3, <2>1
    <2> QED BY <2>2, <2>3
  <1>7. \A j \in 1 .. e : w.sql[o + a + b + j] = d.sql[j]
    <2> SUFFICES ASSUME NEW j \in 1 .. e PROVE w.sql[o + a + b + j] = d.sql[j]
      OBVIOUS
    <2>1. a + b + j \in 1 .. Len(f.sql)
      BY <1>1, <1>2
    <2>2. o + (a + b + j) = o + a + b + j
      BY <1>2
    <2>3. w.sql[o + (a + b + j)] = f.sql[a + b + j] /\ f.sql[a + b + j] = d.sql[j]
      BY <1>1, <1>3, <2>1
    <2> QED BY <2>2, <2>3
  <1>8. \A j \in 1 .. p : w.params[n + j] = c.params[j]
    <2>1. \A j \in 1 .. p : j \in 1 .. Len(f.params)
      BY <1>1, <1>2
    <2> QED BY <1>1, <1>3, <2>1
  <1>9. \A j \in 1 .. q : w.params[n + p + j] = d.params[j]
    <2> SUFFICES ASSUME NEW j \in 1 .. q PROVE w.params[n + p + j] = d.params[j]
      OBVIOUS
    <2>1. p + j \in 1 .. Len(f.params)
      BY <1>1, <1>2
    <2>2. n + (p + j) = n + p + j
      BY <1>2
    <2>3. w.params[n + (p + j)] = f.params[p + j] /\ f.params[p + j] = d.params[j]
      BY <1>1, <1>3, <2>1
    <2> QED BY <2>2, <2>3
  <1>10. o + a <= Len(w.sql) /\ o + a + b + e <= Len(w.sql) /\ o + a + b \in Nat
         /\ n + p <= Len(w.params) /\ n + p + q <= Len(w.params)
    BY <1>1, <1>2, <1>3
  <1>11. At(c, n, w, o)
    BY <1>5, <1>8, <1>10 DEF At, a, p
  <1>12. At(d, n + p, w, o + a + b)
    BY <1>7, <1>9, <1>10 DEF At, e, q
  <1> QED BY <1>4, <1>6, <1>11, <1>12 DEF a, b

\* A condition is read as what it says of its own values.
LEMMA ConditionReads ==
    ASSUME NEW test \in Conditions, NEW n \in Nat, NEW row
    PROVE  /\ Counted(Condition(test, n), n)
           /\ ReadsAs(Condition(test, n), n, row, Says(test, test.values, row))
  <1> DEFINE c == Condition(test, n)
             token == [word |-> "test", test |-> test, marks |-> [k \in DOMAIN test.values |-> n + k]]
             v == test.values
             says == Says(test, v, row)
  <1>1. v \in Seq(Int) /\ Len(v) \in Nat /\ DOMAIN v = 1 .. Len(v)
    <2>1. v \in Seq(Int)
      BY DEF Conditions
    <2> QED BY <2>1
  <1>2. c.sql = <<token>> /\ Len(c.sql) = 1 /\ c.sql[1] = token /\ c.params = v /\ c.n = n + Len(v)
    BY DEF Condition
  <1>3. ASSUME NEW w \in Clauses, NEW r \in [0 .. Len(w.sql) -> Readers], NEW o \in Nat,
               IsRead(r, w, row), At(c, n, w, o)
        PROVE  r[o + 1] = Reader(And(r[o].top, says), r[o].below)
    <2>1. w.sql[o + 1] = token /\ o + 1 <= Len(w.sql) /\ Len(w.sql) \in Nat
      <3> HIDE DEF c, token
      <3> QED BY <1>2, <1>3 DEF At, Clauses
    <2>2. \A k \in 1 .. Len(v) : w.params[n + k] = v[k]
      <3> HIDE DEF c, v
      <3> QED BY <1>2, <1>3 DEF At
    <2>3. o + 1 \in 1 .. Len(w.sql) /\ (o + 1) - 1 = o
      BY <2>1
    <2>4. r[o + 1] = Step(r[o], token, w.params, row)
      <3> HIDE DEF token
      <3> QED BY <1>3, <2>1, <2>3 DEF IsRead
    <2>5. [k \in DOMAIN token.marks |-> w.params[token.marks[k]]] = v
      <3>1. DOMAIN token.marks = 1 .. Len(v) /\ \A k \in 1 .. Len(v) : token.marks[k] = n + k
        BY <1>1
      <3>2. v = [k \in 1 .. Len(v) |-> v[k]]
        BY <1>1
      <3> HIDE DEF token, v
      <3> QED BY <2>2, <3>1, <3>2
    <2>6. token.word = "test" /\ token.test = test
      OBVIOUS
    <2> HIDE DEF token, v
    <2> QED BY <2>4, <2>5, <2>6 DEF Step
  <1> HIDE DEF c, token, v, says
  <1>4. ReadsAs(c, n, row, says)
    BY <1>2, <1>3 DEF ReadsAs
  <1> QED BY <1>2, <1>4 DEF Counted, c, says, v

\* To a reader that begins with it, c leaves an alternative that holds if b does.
OpensAs(c, n, row, b) ==
    \A w \in Clauses : \A r \in [0 .. Len(w.sql) -> Readers] : \A o \in Nat :
        IsRead(r, w, row) /\ At(c, n, w, o) /\ r[o].top = Open =>
            /\ r[o + Len(c.sql)].below = r[o].below
            /\ Value(r[o + Len(c.sql)].top) <=> b

LEMMA FrontOfAppend ==
    ASSUME NEW S, NEW s \in Seq(S), NEW e \in S
    PROVE  Append(s, e) # <<>> /\ Last(Append(s, e)) = e /\ Front(Append(s, e)) = s
  <1> DEFINE t == Append(s, e)
  <1>1. t \in Seq(S) /\ Len(t) = Len(s) + 1 /\ t[Len(t)] = e /\ Len(s) \in Nat
        /\ \A j \in 1 .. Len(s) : t[j] = s[j]
    OBVIOUS
  <1> HIDE DEF t
  <1>2. t # <<>> /\ Last(t) = e
    BY <1>1 DEF Last
  <1>3. Front(t) = s
    <2>1. Front(t) = SubSeq(t, 1, Len(s))
      BY <1>1 DEF Front
    <2>2. SubSeq(t, 1, Len(s)) = [j \in 1 .. Len(s) |-> t[j]]
      BY <1>1
    <2>3. s = [j \in 1 .. Len(s) |-> s[j]]
      OBVIOUS
    <2> QED BY <1>1, <2>1, <2>2, <2>3
  <1> QED BY <1>2, <1>3 DEF t

LEMMA ParenthesisedIs ==
    ASSUME NEW c \in Clauses, NEW n \in Nat
    PROVE  /\ Followed(Nothing(n), Word("("), c) \in Clauses
           /\ Parenthesised(c) = Followed(Followed(Nothing(n), Word("("), c), Word(")"), Nothing(c.n))
  <1>1. c.sql \in Seq(Tokens) /\ c.params \in Seq(Int) /\ c.n \in Nat
        /\ c = [sql |-> c.sql, n |-> c.n, params |-> c.params]
    BY DEF Clauses
  <1>2. Word("(") \in Seq(Tokens) /\ Word(")") \in Seq(Tokens)
    BY WordType
  <1>3. <<>> \o Word("(") \o c.sql = Word("(") \o c.sql
    BY <1>2, ConcatEmptySeq
  <1>4. <<>> \o c.params = c.params /\ c.params \o <<>> = c.params
    BY <1>1, ConcatEmptySeq
  <1>5. Followed(Nothing(n), Word("("), c) = [sql |-> Word("(") \o c.sql, n |-> c.n, params |-> c.params]
    BY <1>3, <1>4 DEF Followed, Nothing
  <1>6. Word("(") \o c.sql \in Seq(Tokens)
    BY <1>1, <1>2
  <1>7. Word("(") \o c.sql \o Word(")") \in Seq(Tokens)
    BY <1>2, <1>6
  <1>8. Word("(") \o c.sql \o Word(")") \o <<>> = Word("(") \o c.sql \o Word(")")
    BY <1>7, ConcatEmptySeq
  <1>9. Followed(Followed(Nothing(n), Word("("), c), Word(")"), Nothing(c.n)) =
            [sql |-> Word("(") \o c.sql \o Word(")"), n |-> c.n, params |-> c.params]
    BY <1>4, <1>5, <1>8 DEF Followed, Nothing
  <1>10. Parenthesised(c) = [sql |-> Word("(") \o c.sql \o Word(")"), n |-> c.n, params |-> c.params]
    <2> DEFINE new == Word("(") \o c.sql \o Word(")")
    <2>1. Parenthesised(c) = [c EXCEPT !.sql = new]
      BY DEF Parenthesised
    <2> HIDE DEF new
    <2>2. [c EXCEPT !.sql = new] = [sql |-> new, n |-> c.n, params |-> c.params]
      BY <1>1
    <2> QED BY <2>1, <2>2 DEF new
  <1>11. Followed(Nothing(n), Word("("), c) \in Clauses
    BY <1>2, NothingType, FollowedType
  <1> QED BY <1>9, <1>10, <1>11

\* A group in parentheses is read as one condition.
LEMMA ParenthesisedReads ==
    ASSUME NEW c \in Clauses, NEW n \in Nat, NEW row, NEW b \in BOOLEAN, Counted(c, n), OpensAs(c, n, row, b)
    PROVE  Counted(Parenthesised(c), n) /\ ReadsAs(Parenthesised(c), n, row, b)
  <1> DEFINE left == Followed(Nothing(n), Word("("), c)
             p == Parenthesised(c)
             l == Len(c.sql)
  <1>1. p \in Clauses /\ p.n = c.n /\ p.params = c.params /\ left \in Clauses
        /\ p = Followed(left, Word(")"), Nothing(c.n))
    BY ParenthesisedType, ParenthesisedIs
  <1>2. Nothing(n) \in Clauses /\ c.n \in Nat /\ Nothing(c.n) \in Clauses
    BY NothingType DEF Clauses
  <1>3. Len(Nothing(n).sql) = 0 /\ Len(Nothing(c.n).sql) = 0 /\ Len(Nothing(n).params) = 0
        /\ Nothing(n).n = n /\ Counted(Nothing(n), n)
    BY DEF Nothing, Counted
  <1>4. /\ Word("(") \in Seq(Tokens) /\ Len(Word("(")) = 1 /\ Word("(")[1] = [word |-> "("]
        /\ Word(")") \in Seq(Tokens) /\ Len(Word(")")) = 1 /\ Word(")")[1] = [word |-> ")"]
    BY WordType
  <1>5. l \in Nat /\ Len(c.params) \in Nat
    BY DEF Clauses
  <1>6. Len(left.sql) = l + 1 /\ left.n = c.n /\ Len(left.params) = Len(c.params)
    <2>1. /\ Len(left.sql) = Len(Nothing(n).sql) + Len(Word("(")) + Len(c.sql) /\ left.n = c.n
          /\ Len(left.params) = Len(Nothing(n).params) + Len(c.params)
      BY <1>2, <1>4, FollowedIs
    <2>2. Len(Word("(")) = 1
      BY <1>4
    <2>3. 0 + 1 + l = l + 1 /\ 0 + Len(c.params) = Len(c.params)
      BY <1>5
    <2> HIDE DEF left
    <2> QED BY <1>3, <2>1, <2>2, <2>3
  <1>7. Len(p.sql) = l + 2
    <2>1. Len(p.sql) = Len(left.sql) + Len(Word(")")) + Len(Nothing(c.n).sql)
      <3>1. Len(Followed(left, Word(")"), Nothing(c.n)).sql) =
                Len(left.sql) + Len(Word(")")) + Len(Nothing(c.n).sql)
        <4> HIDE DEF left
        <4> QED BY <1>1, <1>2, <1>4, FollowedIs
      <3> HIDE DEF p, left
      <3> QED BY <1>1, <3>1
    <2>2. Len(Word(")")) = 1
      BY <1>4
    <2>3. l + 1 + 1 + 0 = l + 2
      BY <1>5
    <2> HIDE DEF p, left, l
    <2> QED BY <1>3, <1>6, <2>1, <2>2, <2>3
  <1>8. Counted(left, n) /\ Counted(p, n)
    BY <1>1, <1>6 DEF Counted
  <1> HIDE DEF left, p, l
  <1>9. ASSUME NEW w \in Clauses, NEW r \in [0 .. Len(w.sql) -> Readers], NEW o \in Nat,
               IsRead(r, w, row), At(p, n, w, o)
        PROVE  r[o + Len(p.sql)] = Reader(And(r[o].top, b), r[o].below)
    <2>1. At(left, n, w, o) /\ \A j \in 1 .. 1 : w.sql[o + (l + 1) + j] = Word(")")[j]
      <3>1. At(Followed(left, Word(")"), Nothing(c.n)), n, w, o)
        BY <1>1, <1>9
      <3>2. At(left, n, w, o) /\ \A j \in 1 .. Len(Word(")")) : w.sql[o + Len(left.sql) + j] = Word(")")[j]
        BY <1>1, <1>2, <1>4, <1>8, <3>1, FollowedAt
      <3> QED BY <1>4, <1>6, <3>2
    <2>2. /\ \A j \in 1 .. 1 : w.sql[o + 0 + j] = Word("(")[j]
          /\ At(c, n, w, o + 0 + 1)
      <3>1. At(Followed(Nothing(n), Word("("), c), n, w, o)
        BY <2>1 DEF left
      <3>2. /\ \A j \in 1 .. Len(Word("(")) : w.sql[o + Len(Nothing(n).sql) + j] = Word("(")[j]
            /\ At(c, Nothing(n).n, w, o + Len(Nothing(n).sql) + Len(Word("(")))
        <4>1. Word("(") \in Seq(Tokens)
          BY <1>4
        <4>2. Counted(Nothing(n), n)
          BY <1>3
        <4> QED BY <1>2, <3>1, <4>1, <4>2, FollowedAt
      <3>3. Len(Word("(")) = 1
        BY <1>4
      <3> QED BY <1>3, <3>2, <3>3
    <2>3. w.sql[o + 1] = [word |-> "("] /\ At(c, n, w, o + 1) /\ w.sql[o + l + 2] = [word |-> ")"]
      <3>1. 1 \in 1 .. 1 /\ o + 0 + 1 = o + 1 /\ o + (l + 1) + 1 = o + l + 2
        BY <1>5
      <3> QED BY <1>4, <2>1, <2>2, <3>1
    <2>4. o + l + 2 <= Len(w.sql) /\ Len(w.sql) \in Nat
      <3>1. o + Len(p.sql) <= Len(w.sql)
        BY <1>9 DEF At
      <3> QED BY <1>5, <1>7, <3>1 DEF Clauses
    <2>5. /\ o + 1 \in 1 .. Len(w.sql) /\ (o + 1) - 1 = o /\ o \in 0 .. Len(w.sql)
          /\ o + l + 2 \in 1 .. Len(w.sql) /\ (o + l + 2) - 1 = (o + 1) + l /\ (o + 1) + l \in 0 .. Len(w.sql)
          /\ o + 1 \in Nat /\ o + Len(p.sql) = o + l + 2
      BY <1>5, <1>7, <2>4
    <2>6. r[o] \in Readers /\ r[(o + 1) + l] \in Readers
      BY <2>5
    <2> DEFINE T == r[o].top
               B == r[o].below
               X == r[(o + 1) + l]
    <2>7. T \in Levels /\ B \in Seq(Levels) /\ X = Reader(X.top, X.below)
      BY <2>6 DEF Readers, Reader
    <2>8. r[o + 1] = Reader(Open, Append(B, T))
      <3>1. r[o + 1] = Step(r[o], [word |-> "("], w.params, row)
        BY <1>9, <2>3, <2>5 DEF IsRead
      <3> QED BY <3>1 DEF Step
    <2>9. r[o + 1].top = Open /\ r[o + 1].below = Append(B, T)
      BY <2>8 DEF Reader
    <2>10. X.below = Append(B, T) /\ (Value(X.top) <=> b)
      <3> HIDE DEF T, B
      <3> QED BY <1>9, <2>3, <2>5, <2>9 DEF OpensAs, l
    <2>11. r[o + l + 2] = Step(X, [word |-> ")"], w.params, row)
      <3> HIDE DEF X
      <3> QED BY <1>9, <2>3, <2>5 DEF IsRead, X
    <2>12. Append(B, T) # <<>> /\ Last(Append(B, T)) = T /\ Front(Append(B, T)) = B
      <3> HIDE DEF T, B
      <3> QED BY <2>7, FrontOfAppend
    <2>13. Step(X, [word |-> ")"], w.params, row) =
              IF X.below = <<>> THEN X ELSE Reader(And(Last(X.below), Value(X.top)), Front(X.below))
      <3> HIDE DEF X
      <3> QED BY DEF Step
    <2>14. And(T, Value(X.top)) = And(T, b)
      <3> HIDE DEF T, X
      <3> QED BY <2>7, <2>10 DEF And, Levels
    <2> HIDE DEF T, B, X
    <2>15. r[o + l + 2] = Reader(And(T, b), B)
      BY <2>10, <2>11, <2>12, <2>13, <2>14
    <2> QED BY <2>5, <2>15 DEF T, B
  <1> QED BY <1>8, <1>9 DEF ReadsAs, p

\* To a reader that begins with it, c leaves the alternatives so far at level.
LeavesAs(c, n, row, level) ==
    \A w \in Clauses : \A r \in [0 .. Len(w.sql) -> Readers] : \A o \in Nat :
        IsRead(r, w, row) /\ At(c, n, w, o) /\ r[o].top = Open =>
            r[o + Len(c.sql)] = Reader(level, r[o].below)

Joints == {<<>>, Word("AND"), Word("OR")}

\* OR ends the alternative it follows.
After(level, words) == IF words = Word("OR") THEN [or |-> Value(level), and |-> TRUE] ELSE level

\* A list is read as its alternatives: the next one of its conditions.
LEMMA FollowedReads ==
    ASSUME NEW c \in Clauses, NEW words \in Joints, NEW d \in Clauses,
           NEW n \in Nat, NEW row, NEW level \in Levels, NEW b \in BOOLEAN,
           Counted(c, n), LeavesAs(c, n, row, level), Counted(d, c.n), ReadsAs(d, c.n, row, b)
    PROVE  /\ Counted(Followed(c, words, d), n)
           /\ LeavesAs(Followed(c, words, d), n, row, And(After(level, words), b))
  <1> DEFINE f == Followed(c, words, d)
             a == Len(c.sql)
             v == Len(words)
             e == Len(d.sql)
  <1>1. /\ Word("AND") \in Seq(Tokens) /\ Len(Word("AND")) = 1 /\ Word("AND")[1] = [word |-> "AND"]
        /\ Word("OR") \in Seq(Tokens) /\ Len(Word("OR")) = 1 /\ Word("OR")[1] = [word |-> "OR"]
    BY WordType
  <1>2. words \in Seq(Tokens) /\ v \in Nat
    <2>1. Word("AND") \in Seq(Tokens) /\ Word("OR") \in Seq(Tokens)
      BY <1>1
    <2>2. words = <<>> \/ words = Word("AND") \/ words = Word("OR")
      BY DEF Joints
    <2>3. <<>> \in Seq(Tokens)
      OBVIOUS
    <2>4. words \in Seq(Tokens)
      BY <2>1, <2>2, <2>3, Zenon
    <2> QED BY <2>4
  <1>3. a \in Nat /\ e \in Nat /\ c.n \in Nat /\ Len(c.params) \in Nat /\ Len(d.params) \in Nat
    BY DEF Clauses
  <1>4. f \in Clauses /\ Len(f.sql) = a + v + e /\ f.n = d.n /\ Len(f.params) = Len(c.params) + Len(d.params)
    BY <1>2, FollowedIs, FollowedType
  <1>5. Counted(f, n)
    <2>1. c.n = n + Len(c.params) /\ d.n = c.n + Len(d.params)
      BY DEF Counted
    <2>2. Len(f.params) = Len(c.params) + Len(d.params) /\ f.n = d.n
      BY <1>4
    <2>3. Len(c.params) \in Nat /\ Len(d.params) \in Nat
      BY <1>3
    <2> HIDE DEF f
    <2>4. f.n = n + Len(f.params)
      <3> DEFINE p == Len(c.params)
                 q == Len(d.params)
                 k == c.n
      <3>1. p \in Nat /\ q \in Nat /\ Len(f.params) = p + q /\ f.n = d.n /\ k = n + p /\ d.n = k + q
        BY <2>1, <2>2, <2>3
      <3> HIDE DEF p, q, k
      <3> QED BY <3>1
    <2> QED BY <2>4 DEF Counted
  <1>6. ASSUME NEW w \in Clauses, NEW r \in [0 .. Len(w.sql) -> Readers], NEW o \in Nat,
               IsRead(r, w, row), At(f, n, w, o), r[o].top = Open
        PROVE  r[o + Len(f.sql)] = Reader(And(After(level, words), b), r[o].below)
    <2>1. /\ At(c, n, w, o) /\ \A j \in 1 .. v : w.sql[o + a + j] = words[j]
          /\ At(d, c.n, w, o + a + v)
      BY <1>2, <1>6, FollowedAt
    <2>2. o + Len(f.sql) <= Len(w.sql) /\ Len(w.sql) \in Nat
      <3> HIDE DEF f
      <3> QED BY <1>6 DEF At, Clauses
    <2> HIDE DEF f
    <2>3. o + a + v + e <= Len(w.sql) /\ o + a + v \in Nat /\ o + Len(f.sql) = o + a + v + e
      <3> HIDE DEF a, v, e
      <3> QED BY <1>2, <1>3, <1>4, <2>2
    <2>4. r[o + a] = Reader(level, r[o].below)
      BY <1>6, <2>1 DEF LeavesAs
    <2>5. r[o + a].top = level /\ r[o + a].below = r[o].below
      BY <2>4 DEF Reader
    <2>6. r[o + a + v] = Reader(After(level, words), r[o].below)
      <3>1. CASE words = <<>>
        <4>1. v = 0 /\ words # Word("OR") /\ o + a + v = o + a
          <5>1. v = 0
            BY <3>1
          <5>2. Len(<<>>) = 0 /\ Len(Word("OR")) # 0
            BY <1>1
          <5>3. o + a + 0 = o + a
            BY <1>3
          <5> HIDE DEF v
          <5> QED BY <3>1, <5>1, <5>2, <5>3
        <4> HIDE DEF v, a
        <4> QED BY <2>4, <4>1 DEF After
      <3>2. CASE words \in {Word("AND"), Word("OR")}
        <4>1. v = 1
          BY <1>1, <3>2
        <4>2. w.sql[o + a + 1] = words[1] /\ o + a + 1 \in 1 .. Len(w.sql) /\ (o + a + 1) - 1 = o + a
          <5> HIDE DEF v, a, e
          <5> QED BY <1>3, <2>1, <2>2, <2>3, <4>1
        <4>3. r[o + a + 1] = Step(r[o + a], words[1], w.params, row)
          <5> HIDE DEF a
          <5> QED BY <1>6, <4>2 DEF IsRead
        <4>4. CASE words = Word("AND")
          <5>1. words[1] = [word |-> "AND"]
            BY <1>1, <4>4
          <5>2. Step(r[o + a], [word |-> "AND"], w.params, row) = r[o + a]
            BY DEF Step
          <5>3. Word("AND") # Word("OR")
            <6>1. [word |-> "AND"] # [word |-> "OR"]
              <7>1. [word |-> "AND"].word # [word |-> "OR"].word
                OBVIOUS
              <7> QED BY <7>1
            <6> QED BY <1>1, <6>1
          <5> HIDE DEF a, v
          <5> QED BY <2>4, <4>1, <4>3, <4>4, <5>1, <5>2, <5>3 DEF After
        <4>5. CASE words = Word("OR")
          <5>1. words[1] = [word |-> "OR"]
            BY <1>1, <4>5
          <5>2. Step(r[o + a], [word |-> "OR"], w.params, row) =
                    Reader([or |-> Value(r[o + a].top), and |-> TRUE], r[o + a].below)
            BY DEF Step
          <5> HIDE DEF a, v
          <5> QED BY <2>5, <4>1, <4>3, <4>5, <5>1, <5>2 DEF After
        <4> QED BY <3>2, <4>4, <4>5
      <3>3. words = <<>> \/ words \in {Word("AND"), Word("OR")}
        BY DEF Joints
      <3> QED BY <3>1, <3>2, <3>3
    <2>7. r[o + a + v].top = After(level, words) /\ r[o + a + v].below = r[o].below
      <3> HIDE DEF a, v
      <3> QED BY <2>6 DEF Reader
    <2>8. r[(o + a + v) + e] = Reader(And(r[o + a + v].top, b), r[o + a + v].below)
      <3> HIDE DEF a, v
      <3> QED BY <1>6, <2>1, <2>3 DEF ReadsAs, e
    <2> HIDE DEF a, v, e
    <2> QED BY <2>3, <2>7, <2>8
  <1> HIDE DEF f
  <1>7. LeavesAs(f, n, row, And(After(level, words), b))
    BY <1>6 DEF LeavesAs
  <1> QED BY <1>5, <1>7 DEF f

LEMMA LevelEq ==
    ASSUME NEW a, NEW b, NEW c, NEW d, a \in BOOLEAN, b \in BOOLEAN, c \in BOOLEAN, d \in BOOLEAN, a <=> c, b <=> d
    PROVE  [or |-> a, and |-> b] = [or |-> c, and |-> d]
  <1>1. a = c /\ b = d
    OBVIOUS
  <1> QED BY <1>1

\* A list of conditions is read as one of its alternatives, whatever level
\* its reader is at.
LEMMA ListReads ==
    ASSUME NodesOK, NEW list \in Seq(Refs), NEW part \in [1 .. Len(list) -> [Nat -> Clauses]], NEW ask,
           NEW row \in AllRows, NEW n \in Nat,
           \A k \in 1 .. Len(list) : \A m \in Nat :
               Counted(part[k][m], m) /\ ReadsAs(part[k][m], m, row, row \in ask[k])
    PROVE  /\ compileList(list, part, n) \in Clauses
           /\ Counted(compileList(list, part, n), n)
           /\ OpensAs(compileList(list, part, n), n, row, row \in Asks(list, ask))
  <1> DEFINE L == Len(list)
             St == {i \in 1 .. L : i = 1 \/ node[list[i]].boolean = "OR"}
             A == {k \in 1 .. L : row \in ask[k]}
             Level(k) == [or |-> EndedHolds(St, A, k), and |-> LastHolds(St, A, k)]
  <1>1. L \in Nat /\ DOMAIN list = 1 .. L /\ (list = <<>> <=> L = 0)
    OBVIOUS
  <1>2. PICK j \in [0 .. L -> Clauses] :
            IsJoined(j, list, part, n) /\ compileList(list, part, n) = j[L]
    BY ListIsJoined
  <1>3. \A k : EndedHolds(St, A, k) \in BOOLEAN /\ LastHolds(St, A, k) \in BOOLEAN /\ Level(k) \in Levels
    <2> SUFFICES ASSUME NEW k
                 PROVE  EndedHolds(St, A, k) \in BOOLEAN /\ LastHolds(St, A, k) \in BOOLEAN /\ Level(k) \in Levels
      OBVIOUS
    <2>1. EndedHolds(St, A, k) \in BOOLEAN /\ LastHolds(St, A, k) \in BOOLEAN
      BY DEF EndedHolds, LastHolds
    <2> QED BY <2>1 DEF Levels
  <1> DEFINE Good == {k \in 0 .. L : Counted(j[k], n) /\ LeavesAs(j[k], n, row, Level(k))}
  <1>4. 0 \in Good
    <2>1. j[0] = Nothing(n) /\ Nothing(n).n = n /\ Len(Nothing(n).params) = 0 /\ Len(Nothing(n).sql) = 0
      BY <1>2 DEF IsJoined, Nothing
    <2>2. Counted(j[0], n)
      BY <2>1 DEF Counted
    <2>3. Level(0) = Open
      <3>1. LastHolds(St, A, 0) /\ ~ EndedHolds(St, A, 0)
        <4>1. \A i \in 1 .. 0 : FALSE
          OBVIOUS
        <4> QED BY <4>1 DEF LastHolds, EndedHolds
      <3> HIDE DEF St, A
      <3>2. EndedHolds(St, A, 0) = FALSE /\ LastHolds(St, A, 0) = TRUE
        BY <1>3, <3>1
      <3> QED BY <3>2 DEF Open
    <2>4. LeavesAs(j[0], n, row, Open)
      <3> SUFFICES ASSUME NEW w \in Clauses, NEW r \in [0 .. Len(w.sql) -> Readers], NEW o \in Nat,
                          IsRead(r, w, row), At(j[0], n, w, o), r[o].top = Open
                   PROVE  r[o + Len(j[0].sql)] = Reader(Open, r[o].below)
        BY DEF LeavesAs
      <3>1. o + 0 = o /\ o <= Len(w.sql) /\ Len(w.sql) \in Nat
        BY <2>1 DEF At, Clauses
      <3>2. r[o] \in Readers
        BY <3>1
      <3>3. r[o] = Reader(r[o].top, r[o].below)
        BY <3>2 DEF Readers, Reader
      <3> QED BY <2>1, <3>1, <3>3
    <2>5. 0 \in 0 .. L
      BY <1>1
    <2> HIDE DEF Level, L
    <2> QED BY <2>2, <2>3, <2>4, <2>5
  <1>5. ASSUME NEW k \in 0 .. L, k < L, k \in Good PROVE k + 1 \in Good
    <2>1. k \in Nat /\ k + 1 \in 1 .. L /\ k + 1 \in 0 .. L /\ (k + 1) - 1 = k
      BY <1>1, <1>5
    <2>2. j[k] \in Clauses /\ Counted(j[k], n) /\ LeavesAs(j[k], n, row, Level(k))
      BY <1>5
    <2> DEFINE words == Joint(list, k + 1)
               d == part[k + 1][j[k].n]
               b == row \in ask[k + 1]
    <2>3. j[k + 1] = Followed(j[k], words, d)
      <3> DEFINE i == k + 1
      <3>1. i \in 1 .. Len(list) /\ i - 1 = k
        BY <2>1
      <3> HIDE DEF i, L
      <3>2. j[i] = Followed(j[i - 1], Joint(list, i), part[i][j[i - 1].n])
        BY <1>2, <3>1 DEF IsJoined
      <3>3. j[i] = Followed(j[k], Joint(list, i), part[i][j[k].n])
        BY <3>1, <3>2
      <3> QED BY <3>3 DEF i
    <2>4. j[k].n \in Nat
      BY <2>2 DEF Clauses
    <2>5. d \in Clauses /\ Counted(d, j[k].n) /\ ReadsAs(d, j[k].n, row, b)
      BY <2>1, <2>4
    <2>6. node[list[k + 1]].boolean \in Booleans
      <3>1. list[k + 1] \in Refs
        BY <2>1
      <3> QED BY <3>1 DEF NodesOK
    <2>7. words \in Joints
      BY <2>6 DEF Joint, Joints, Booleans
    <2>8. k + 1 \in A <=> b
      BY <2>1
    <2>9. k + 1 \in St <=> (k = 0 \/ words = Word("OR"))
      <3>1. CASE k = 0
        <4>1. k + 1 = 1 /\ 1 \in 1 .. L
          BY <2>1, <3>1
        <4> QED BY <3>1, <4>1
      <3>2. CASE k # 0
        <4>1. k + 1 # 1 /\ words = Word(node[list[k + 1]].boolean)
          BY <2>1, <3>2 DEF Joint
        <4>2. Word("AND") # Word("OR")
          <5>1. Word("AND")[1].word = "AND" /\ Word("OR")[1].word = "OR"
            BY DEF Word
          <5> QED BY <5>1
        <4>3. k + 1 \in St <=> node[list[k + 1]].boolean = "OR"
          BY <2>1, <4>1
        <4> HIDE DEF words, St
        <4> QED BY <2>6, <3>2, <4>1, <4>2, <4>3 DEF Booleans
      <3> QED BY <3>1, <3>2
    <2>10. k = 0 => words # Word("OR")
      <3>1. Len(Word("OR")) = 1
        BY WordType
      <3>2. k = 0 => words = <<>>
        BY DEF Joint
      <3> HIDE DEF words
      <3> QED BY <3>1, <3>2
    <2>11. 1 \in St
      <3>1. 1 \in 1 .. L
        BY <2>1
      <3> QED BY <3>1
    <2>12. Counted(j[k + 1], n) /\ LeavesAs(j[k + 1], n, row, And(After(Level(k), words), b))
      <3>1. b \in BOOLEAN /\ Level(k) \in Levels
        BY <1>3
      <3> HIDE DEF b, Level, words, d
      <3> QED BY <2>2, <2>3, <2>5, <2>7, <3>1, FollowedReads
    <2>13. And(After(Level(k), words), b) = Level(k + 1)
      <3> DEFINE ek == EndedHolds(St, A, k)
                 lk == LastHolds(St, A, k)
                 e1 == EndedHolds(St, A, k + 1)
                 l1 == LastHolds(St, A, k + 1)
      <3>1. ek \in BOOLEAN /\ lk \in BOOLEAN /\ e1 \in BOOLEAN /\ l1 \in BOOLEAN /\ b \in BOOLEAN
        <4>1. ek \in BOOLEAN /\ lk \in BOOLEAN /\ e1 \in BOOLEAN /\ l1 \in BOOLEAN
          <5> HIDE DEF St, A
          <5> QED BY <1>3
        <4>2. b \in BOOLEAN
          OBVIOUS
        <4> QED BY <4>1, <4>2
      <3>2. Level(k) = [or |-> ek, and |-> lk] /\ Level(k + 1) = [or |-> e1, and |-> l1]
        OBVIOUS
      <3>3. /\ k + 1 \in St /\ k >= 1 => (l1 <=> b) /\ (e1 <=> ek \/ lk)
            /\ k + 1 \notin St => (l1 <=> lk /\ b) /\ (e1 <=> ek)
            /\ k = 0 => lk /\ ~ ek /\ (l1 <=> b) /\ ~ e1
        <4> HIDE DEF St, A, b, words, L
        <4>1. k \in Nat /\ 1 \in St
          BY <2>1, <2>11
        <4>2. /\ k + 1 \in St /\ k >= 1 => (l1 <=> k + 1 \in A) /\ (e1 <=> ek \/ lk)
              /\ k + 1 \notin St => (l1 <=> lk /\ k + 1 \in A) /\ (e1 <=> ek)
          BY <4>1, NextHolds
        <4>3. k = 0 => lk /\ ~ ek /\ (l1 <=> 1 \in A) /\ ~ e1
          <5> SUFFICES ASSUME k = 0 PROVE lk /\ ~ ek /\ (l1 <=> 1 \in A) /\ ~ e1
            OBVIOUS
          <5>1. 0 + 1 = 1
            OBVIOUS
          <5> QED BY <4>1, <5>1, NextHolds
        <4>4. k = 0 => (1 \in A <=> b)
          BY <2>8
        <4> HIDE DEF ek, lk, e1, l1
        <4> QED BY <2>8, <4>2, <4>3, <4>4
      <3> HIDE DEF ek, lk, e1, l1, b, Level, words, St, A
      <3>4. CASE words = Word("OR")
        <4>1. k >= 1 /\ k + 1 \in St
          BY <2>1, <2>9, <2>10, <3>4
        <4>2. And(After(Level(k), words), b) = [or |-> ek \/ lk, and |-> b]
          <5>1. After(Level(k), words) = [or |-> ek \/ lk, and |-> TRUE]
            BY <3>2, <3>4 DEF After, Value
          <5>2. And([or |-> ek \/ lk, and |-> TRUE], b) = [or |-> ek \/ lk, and |-> TRUE /\ b]
            BY DEF And
          <5>3. (TRUE /\ b) = b
            BY <3>1
          <5> QED BY <5>1, <5>2, <5>3
        <4>3. [or |-> ek \/ lk, and |-> b] = [or |-> e1, and |-> l1]
          <5>1. l1 <=> b
            BY <3>3, <4>1
          <5>2. e1 <=> ek \/ lk
            BY <3>3, <4>1
          <5>3. (ek \/ lk) \in BOOLEAN
            OBVIOUS
          <5> QED BY <3>1, <5>1, <5>2, <5>3, LevelEq
        <4> QED BY <3>2, <4>2, <4>3
      <3>5. CASE words # Word("OR")
        <4>1. After(Level(k), words) = [or |-> ek, and |-> lk]
          BY <3>2, <3>5 DEF After
        <4>2. And([or |-> ek, and |-> lk], b) = [or |-> ek, and |-> lk /\ b]
          BY DEF And
        <4>3. (e1 <=> ek) /\ (l1 <=> lk /\ b)
          BY <2>9, <3>3, <3>5
        <4>4. [or |-> ek, and |-> lk /\ b] = [or |-> e1, and |-> l1]
          <5>1. (lk /\ b) \in BOOLEAN
            OBVIOUS
          <5> QED BY <3>1, <4>3, <5>1, LevelEq
        <4> QED BY <3>2, <4>1, <4>2, <4>4
      <3> QED BY <3>4, <3>5
    <2> HIDE DEF Level, words, b, d, L
    <2> QED BY <2>1, <2>12, <2>13
  <1>6. L \in Good
    <2>1. 0 .. L \subseteq Good
      <3> HIDE DEF Good, L
      <3> QED BY <1>1, <1>4, <1>5, Upwards
    <2> QED BY <1>1, <2>1
  <1>7. j[L] \in Clauses /\ Counted(j[L], n) /\ LeavesAs(j[L], n, row, Level(L))
    BY <1>1, <1>6
  <1>8. Value(Level(L)) <=> row \in Asks(list, ask)
    <2>1. Value(Level(L)) <=> EndedHolds(St, A, L) \/ LastHolds(St, A, L)
      BY DEF Value
    <2> DEFINE Starts(i) == i = 1 \/ node[list[i]].boolean = "OR"
    <2>2. row \in Asks(list, ask) <=>
              \/ list = <<>>
              \/ \E i \in 1 .. L : /\ Starts(i)
                                   /\ \A k \in i .. L : (\A m \in i + 1 .. k : ~ Starts(m)) => row \in ask[k]
      <3> HIDE DEF L
      <3> QED BY <1>1 DEF Asks, L
    <2>3. CASE L = 0
      <3>1. LastHolds(St, A, 0)
        <4>1. \A i \in 1 .. 0 : FALSE
          OBVIOUS
        <4> QED BY <4>1 DEF LastHolds
      <3> HIDE DEF L, St, A, Level
      <3> QED BY <1>1, <2>1, <2>2, <2>3, <3>1
    <2>4. CASE L # 0
      <3>1. L >= 1 /\ 1 \in St
        BY <1>1, <2>4
      <3>2. (\E i \in 1 .. L : i \in St /\ AltHolds(St, A, i, L)) <=>
                EndedHolds(St, A, L) \/ LastHolds(St, A, L)
        <4> HIDE DEF L, St, A
        <4> QED BY <1>1, <3>1, SomeHolds
      <3>3. \A i \in 1 .. L : i \in St <=> Starts(i)
        OBVIOUS
      <3>4. ASSUME NEW i \in 1 .. L
            PROVE  AltHolds(St, A, i, L) <=>
                       \A k \in i .. L : (\A m \in i + 1 .. k : ~ Starts(m)) => row \in ask[k]
        <4>1. \A k \in i .. L : k \in 1 .. L /\ \A m \in i + 1 .. k : m \in 1 .. L
          BY <1>1
        <4>2. \A k \in i .. L : k \in A <=> row \in ask[k]
          BY <4>1
        <4> HIDE DEF L, St, A, Starts
        <4> QED BY <3>3, <4>1, <4>2 DEF AltHolds
      <3> HIDE DEF L, St, A, Starts, Level
      <3> QED BY <1>1, <2>1, <2>2, <2>4, <3>2, <3>3, <3>4
    <2> QED BY <2>3, <2>4
  <1>9. OpensAs(j[L], n, row, row \in Asks(list, ask))
    <2> HIDE DEF Level, L
    <2> SUFFICES ASSUME NEW w \in Clauses, NEW r \in [0 .. Len(w.sql) -> Readers], NEW o \in Nat,
                        IsRead(r, w, row), At(j[L], n, w, o), r[o].top = Open
                 PROVE  /\ r[o + Len(j[L].sql)].below = r[o].below
                        /\ Value(r[o + Len(j[L].sql)].top) <=> row \in Asks(list, ask)
      BY DEF OpensAs
    <2>1. r[o + Len(j[L].sql)] = Reader(Level(L), r[o].below)
      BY <1>7 DEF LeavesAs
    <2> QED BY <1>8, <2>1 DEF Reader
  <1> QED BY <1>2, <1>7, <1>9

-----------------------------------------------------------------------------
(* What the nodes and the clause of a builder are read as. *)

LEMMA SaysAsWanted ==
    ASSUME NEW i \in Refs, IsCondition(i), NEW row
    PROVE  Says(node[i].test, node[i].test.values, row) <=> Wants(node[i].asked, row)
  <1> DEFINE t == node[i].asked
  <1>1. t \in Tests /\ node[i].test = EmptyList(t) /\ t.not \in BOOLEAN
    BY InputAssumption DEF IsCondition
  <1> HIDE DEF t
  <1>2. CASE t.on = "IN" /\ t.values = <<>>
    <2>1. node[i].test = Tautology(t.not)
      BY <1>1, <1>2 DEF EmptyList
    <2>2. Says(Tautology(t.not), Tautology(t.not).values, row) <=> t.not
      BY <1>1 DEF Says, Tautology
    <2>3. Wants(t, row) <=> t.not
      BY <1>1, <1>2 DEF Wants
    <2> QED BY <2>1, <2>2, <2>3 DEF t
  <1>3. CASE ~ (t.on = "IN" /\ t.values = <<>>)
    <2>1. node[i].test = t
      BY <1>1, <1>3 DEF EmptyList
    <2>2. Wants(t, row) <=> Says(t, t.values, row)
      BY <1>3 DEF Wants
    <2> QED BY <2>1, <2>2 DEF t
  <1> QED BY <1>2, <1>3

\* A node is read as one condition: the rows it asks for.
LEMMA NodeReads ==
    ASSUME NodesOK, NEW row \in AllRows
    PROVE  \A i \in Refs : \A n \in Nat :
              /\ Counted(compileNode[i][n], n)
              /\ ReadsAs(compileNode[i][n], n, row, row \in NodeAsks[i])
  <1> DEFINE Fine(i) == \A n \in Nat : /\ Counted(compileNode[i][n], n)
                                       /\ ReadsAs(compileNode[i][n], n, row, row \in NodeAsks[i])
             Good == {i \in Refs : Fine(i)}
  <1>1. ASSUME NEW i \in Refs, \A j \in 1 .. (i - 1) : j \in Good PROVE Fine(i)
    <2> SUFFICES ASSUME NEW n \in Nat
                 PROVE  /\ Counted(compileNode[i][n], n)
                        /\ ReadsAs(compileNode[i][n], n, row, row \in NodeAsks[i])
      OBVIOUS
    <2>1. CASE IsCondition(i)
      <3>1. node[i].kind = "condition" /\ node[i].test \in Conditions
        BY <2>1 DEF IsCondition
      <3>2. compileNode[i][n] = Condition(node[i].test, n)
        BY <3>1, NodeIsCompiled
      <3>3. row \in NodeAsks[i] <=> Wants(node[i].asked, row)
        BY <3>1, NodeIsAsked
      <3>4. (row \in NodeAsks[i]) = Says(node[i].test, node[i].test.values, row)
        <4>1. row \in NodeAsks[i] <=> Says(node[i].test, node[i].test.values, row)
          BY <2>1, <3>3, SaysAsWanted
        <4>2. Says(node[i].test, node[i].test.values, row) \in BOOLEAN
          <5> DEFINE t == node[i].test
          <5>1. t.on \in {"1 = 1", "=", "<", "IN", "BETWEEN", "IS NULL"}
            BY <3>1 DEF Conditions
          <5> HIDE DEF t
          <5>2. Says(t, t.values, row) \in BOOLEAN
            BY <5>1 DEF Says
          <5> QED BY <5>2 DEF t
        <4>3. (row \in NodeAsks[i]) \in BOOLEAN
          OBVIOUS
        <4> QED BY <4>1, <4>2, <4>3
      <3> QED BY <3>1, <3>2, <3>4, ConditionReads
    <2>2. CASE ~ IsCondition(i)
      <3> DEFINE list == node[i].children
      <3>1. /\ node[i].kind # "condition" /\ list \in Seq(1 .. (i - 1)) /\ list \in Seq(Refs)
            /\ DOMAIN list = 1 .. Len(list) /\ Len(list) \in Nat
        BY <2>2, RefsBelow
      <3>2. row \in NodeAsks[i] <=> row \in Asks(list, AskParts(list))
        BY <3>1, NodeIsAsked
      <3>3. CASE list = <<>>
        <4>1. compileNode[i][n] = Condition(Tautology(TRUE), n)
          BY <3>1, <3>3, NodeIsCompiled
        <4>2. row \in NodeAsks[i]
          BY <3>2, <3>3 DEF Asks
        <4>3. Tautology(TRUE) \in Conditions
          BY DEF Tautology, Conditions, Columns
        <4>4. Says(Tautology(TRUE), Tautology(TRUE).values, row) = TRUE
          BY DEF Says, Tautology
        <4>5. (row \in NodeAsks[i]) = TRUE
          BY <4>2
        <4> HIDE DEF list
        <4> QED BY <4>1, <4>3, <4>4, <4>5, ConditionReads
      <3>4. CASE list # <<>>
        <4> DEFINE c == compileList(list, Parts(list), n)
        <4>1. compileNode[i][n] = Parenthesised(c)
          BY <3>1, <3>4, NodeIsCompiled
        <4>2. Parts(list) \in [1 .. Len(list) -> [Nat -> Clauses]]
          <5>1. \A k \in 1 .. Len(list) : list[k] \in Refs
            BY <3>1
          <5> HIDE DEF list
          <5> QED BY <3>1, <5>1, NodeIsCompiled DEF Parts
        <4>3. ASSUME NEW k \in 1 .. Len(list), NEW m \in Nat
              PROVE  Counted(Parts(list)[k][m], m)
                     /\ ReadsAs(Parts(list)[k][m], m, row, row \in AskParts(list)[k])
          <5>1. list[k] \in 1 .. (i - 1) /\ k \in DOMAIN list
            <6>1. list \in Seq(1 .. (i - 1)) /\ DOMAIN list = 1 .. Len(list)
              BY <3>1
            <6> HIDE DEF list
            <6> QED BY <6>1, ElementOfSeq
          <5>2. list[k] \in Good
            BY <1>1, <5>1
          <5>3. Parts(list)[k] = compileNode[list[k]] /\ AskParts(list)[k] = NodeAsks[list[k]]
            BY <5>1 DEF Parts, AskParts
          <5> HIDE DEF list
          <5> QED BY <5>2, <5>3
        <4>4. /\ c \in Clauses /\ Counted(c, n)
              /\ OpensAs(c, n, row, row \in Asks(list, AskParts(list)))
          <5> HIDE DEF list
          <5> QED BY <3>1, <4>2, <4>3, ListReads
        <4>5. (row \in Asks(list, AskParts(list))) = (row \in NodeAsks[i])
          BY <3>2
        <4>6. (row \in NodeAsks[i]) \in BOOLEAN
          OBVIOUS
        <4> HIDE DEF c, list
        <4> QED BY <4>1, <4>4, <4>5, <4>6, ParenthesisedReads
      <3> QED BY <3>3, <3>4
    <2> QED BY <2>1, <2>2
  <1>2. Refs \subseteq Good
    <2>1. Len(node) \in Nat /\ Refs = 1 .. Len(node)
      BY DEF NodesOK, Refs
    <2>2. \A i \in 1 .. Len(node) : (\A j \in 1 .. (i - 1) : j \in Good) => i \in Good
      <3> HIDE DEF Fine
      <3> QED BY <1>1, <2>1
    <2> HIDE DEF Good
    <2> QED BY <2>1, <2>2, FromBefore
  <1> QED BY <1>2

LEMMA AndIs ==
    ASSUME NEW e, NEW l, NEW b
    PROVE  And([or |-> e, and |-> l], b) = [or |-> e, and |-> l /\ b]
  BY DEF And

LEMMA OpenAnd ==
    ASSUME NEW b \in BOOLEAN
    PROVE  And(Open, b) = [or |-> FALSE, and |-> b]
  <1>1. And([or |-> FALSE, and |-> TRUE], b) = [or |-> FALSE, and |-> TRUE /\ b]
    BY AndIs
  <1>2. (TRUE /\ b) = b
    OBVIOUS
  <1> QED BY <1>1, <1>2 DEF Open

\* A builder of the nodes there are.
IsBuilder(b) == b.nodes \in Seq(Refs) /\ b.softScope \in BOOLEAN /\ b.includeTrashed \in BOOLEAN

LEMMA ListCompiled ==
    ASSUME NodesOK, NEW list \in Seq(Refs), NEW row \in AllRows
    PROVE  /\ compiled(list) \in Clauses /\ Counted(compiled(list), 0)
           /\ OpensAs(compiled(list), 0, row, row \in Asks(list, AskParts(list)))
  <1>1. DOMAIN list = 1 .. Len(list) /\ \A k \in 1 .. Len(list) : list[k] \in Refs
    OBVIOUS
  <1>2. Parts(list) \in [1 .. Len(list) -> [Nat -> Clauses]]
    BY <1>1, NodeIsCompiled DEF Parts
  <1>3. \A k \in 1 .. Len(list) : \A m \in Nat :
            Counted(Parts(list)[k][m], m) /\ ReadsAs(Parts(list)[k][m], m, row, row \in AskParts(list)[k])
    BY <1>1, NodeReads DEF Parts, AskParts
  <1>4. compiled(list) = compileList(list, Parts(list), 0)
    BY DEF compiled, Parts
  <1> QED BY <1>2, <1>3, <1>4, ListReads

\* The clause of a builder selects what the builder asks for.
LEMMA BuilderReads ==
    ASSUME NodesOK, NEW b, IsBuilder(b), NEW row \in AllRows
    PROVE  buildWhere(b) \in Clauses /\ (Reads(buildWhere(b), row) <=> row \in Asked(b))
  <1> DEFINE list == b.nodes
             c == compiled(list)
             asks == row \in Asks(list, AskParts(list))
             live == row["deleted_at"] = 0
             clause == buildWhere(b)
  <1>1. list \in Seq(Refs) /\ scoped(b) \in BOOLEAN
    BY DEF IsBuilder, scoped
  <1>2. c \in Clauses /\ Counted(c, 0) /\ OpensAs(c, 0, row, asks) /\ c.n \in Nat
    <2>1. c \in Clauses /\ Counted(c, 0) /\ OpensAs(c, 0, row, asks)
      <3> HIDE DEF list
      <3> QED BY <1>1, ListCompiled
    <2>2. c.n \in Nat
      BY <2>1 DEF Clauses
    <2> QED BY <2>1, <2>2
  <1>3. row \in Asked(b) <=> asks /\ (scoped(b) => live)
    BY DEF Asked, AskParts
  <1>4. IsLive \in Conditions
    BY DEF IsLive, Conditions, Columns
  <1>5. (Says(IsLive, IsLive.values, row) = live) /\ live \in BOOLEAN
    BY DEF Says, IsLive
  <1>6. \A n \in Nat : /\ Condition(IsLive, n) \in Clauses /\ Counted(Condition(IsLive, n), n)
                       /\ ReadsAs(Condition(IsLive, n), n, row, live)
    BY <1>4, <1>5, ConditionType, ConditionReads
  <1>7. ASSUME NEW d \in Clauses, NEW x \in BOOLEAN, ReadsAs(d, 0, row, x)
        PROVE  LeavesAs(d, 0, row, And(Open, x)) /\ And(Open, x) \in Levels /\ (Value(And(Open, x)) <=> x)
    <2>1. And(Open, x) = [or |-> FALSE, and |-> x]
      BY OpenAnd
    <2>2. Value(And(Open, x)) <=> x
      BY <2>1 DEF Value
    <2>3. LeavesAs(d, 0, row, And(Open, x))
      <3> SUFFICES ASSUME NEW w \in Clauses, NEW r \in [0 .. Len(w.sql) -> Readers], NEW o \in Nat,
                          IsRead(r, w, row), At(d, 0, w, o), r[o].top = Open
                   PROVE  r[o + Len(d.sql)] = Reader(And(Open, x), r[o].below)
        BY DEF LeavesAs
      <3> QED BY <1>7 DEF ReadsAs
    <2> QED BY <2>1, <2>2, <2>3 DEF Levels
  <1>8. ASSUME NEW d \in Clauses, NEW level \in Levels, LeavesAs(d, 0, row, level)
        PROVE  OpensAs(d, 0, row, Value(level))
    <2> SUFFICES ASSUME NEW w \in Clauses, NEW r \in [0 .. Len(w.sql) -> Readers], NEW o \in Nat,
                        IsRead(r, w, row), At(d, 0, w, o), r[o].top = Open
                 PROVE  /\ r[o + Len(d.sql)].below = r[o].below
                        /\ Value(r[o + Len(d.sql)].top) <=> Value(level)
      BY DEF OpensAs
    <2>1. r[o + Len(d.sql)] = Reader(level, r[o].below)
      BY <1>8 DEF LeavesAs
    <2> QED BY <2>1 DEF Reader
  <1> HIDE DEF c, asks, live, list
  <1>9. clause \in Clauses /\ OpensAs(clause, 0, row, row \in Asked(b))
    <2>1. CASE ~ scoped(b)
      <3>1. clause = c
        BY <2>1 DEF buildWhere, c, list
      <3>2. (row \in Asked(b)) <=> asks
        BY <1>3, <2>1
      <3> QED BY <1>2, <3>1, <3>2 DEF OpensAs
    <2>2. CASE scoped(b) /\ list = <<>>
      <3>1. clause = Condition(IsLive, 0)
        BY <2>2 DEF buildWhere, list
      <3>2. row \in Asked(b) <=> live
        <4>1. asks
          BY <2>2 DEF asks, Asks
        <4> QED BY <1>3, <2>2, <4>1
      <3>3. OpensAs(clause, 0, row, Value(And(Open, live)))
        <4>1. clause \in Clauses /\ ReadsAs(clause, 0, row, live)
          BY <1>6, <3>1
        <4> HIDE DEF clause
        <4> QED BY <1>5, <1>7, <1>8, <4>1
      <3>4. Value(And(Open, live)) <=> live
        BY <1>5, <1>6, <1>7
      <3> QED BY <1>6, <3>1, <3>2, <3>3, <3>4 DEF OpensAs
    <2>3. CASE scoped(b) /\ list # <<>>
      <3> DEFINE p == Parenthesised(c)
                 d == Condition(IsLive, c.n)
      <3>1. clause = Followed(p, Word("AND"), d)
        BY <2>3 DEF buildWhere, c, list
      <3>2. row \in Asked(b) <=> asks /\ live
        BY <1>3, <2>3
      <3>3. asks \in BOOLEAN
        BY DEF asks
      <3>4. p \in Clauses /\ p.n = c.n /\ Counted(p, 0) /\ ReadsAs(p, 0, row, asks)
        BY <1>2, <3>3, ParenthesisedReads, ParenthesisedType
      <3>5. LeavesAs(p, 0, row, And(Open, asks)) /\ And(Open, asks) \in Levels
        <4> HIDE DEF p
        <4> QED BY <1>7, <3>3, <3>4
      <3>6. Word("AND") \in Joints /\ Word("AND") \in Seq(Tokens)
        BY WordType DEF Joints
      <3>7. d \in Clauses /\ Counted(d, p.n) /\ ReadsAs(d, p.n, row, live)
        <4> HIDE DEF p
        <4> QED BY <1>2, <1>6, <3>4
      <3> DEFINE level == And(After(And(Open, asks), Word("AND")), live)
      <3>8. LeavesAs(clause, 0, row, level)
        <4> HIDE DEF p, d, clause
        <4> QED BY <1>5, <3>1, <3>4, <3>5, <3>6, <3>7, FollowedReads
      <3>9. level = [or |-> FALSE, and |-> asks /\ live]
        <4>1. After(And(Open, asks), Word("AND")) = And(Open, asks)
          <5>1. Word("AND")[1].word = "AND" /\ Word("OR")[1].word = "OR"
            BY DEF Word
          <5> QED BY <5>1 DEF After
        <4>2. And(Open, asks) = [or |-> FALSE, and |-> asks]
          BY <3>3, OpenAnd
        <4>3. And([or |-> FALSE, and |-> asks], live) = [or |-> FALSE, and |-> asks /\ live]
          BY AndIs
        <4> QED BY <4>1, <4>2, <4>3
      <3>10. level \in Levels /\ (Value(level) <=> asks /\ live)
        <4> HIDE DEF level
        <4> QED BY <3>9 DEF Levels, Value
      <3>11. clause \in Clauses
        <4> HIDE DEF p, d, clause
        <4> QED BY <3>1, <3>4, <3>6, <3>7, FollowedType
      <3>12. OpensAs(clause, 0, row, Value(level))
        <4> HIDE DEF level, clause
        <4> QED BY <1>8, <3>8, <3>10, <3>11
      <3> HIDE DEF level, clause
      <3> QED BY <3>2, <3>10, <3>11, <3>12 DEF OpensAs
    <2> QED BY <1>1, <2>1, <2>2, <2>3
  <1> HIDE DEF clause
  <1>10. PICK r \in [0 .. Len(clause.sql) -> Readers] :
            IsRead(r, clause, row) /\ Reads(clause, row) = Value(r[Len(clause.sql)].top)
    BY <1>9, ClauseIsRead
  <1>11. Len(clause.sql) \in Nat /\ Len(clause.params) \in Nat
    BY <1>9 DEF Clauses
  <1>12. At(clause, 0, clause, 0)
    <2>1. \A j \in 1 .. Len(clause.sql) : 0 + j = j
      OBVIOUS
    <2>2. \A j \in 1 .. Len(clause.params) : 0 + j = j
      OBVIOUS
    <2>3. 0 + Len(clause.sql) <= Len(clause.sql) /\ 0 + Len(clause.params) <= Len(clause.params)
      BY <1>11
    <2> QED BY <2>1, <2>2, <2>3 DEF At
  <1>13. r[0].top = Open
    BY <1>10 DEF IsRead, Reader
  <1>14. Value(r[0 + Len(clause.sql)].top) <=> row \in Asked(b)
    BY <1>9, <1>10, <1>12, <1>13 DEF OpensAs
  <1>15. 0 + Len(clause.sql) = Len(clause.sql)
    BY <1>11
  <1>16. Reads(clause, row) <=> row \in Asked(b)
    BY <1>10, <1>14, <1>15
  <1> QED BY <1>9, <1>16 DEF clause

-----------------------------------------------------------------------------
(* The markers of a clause. *)

TestsOf(c) == {k \in 1 .. Len(c.sql) : c.sql[k].word = "test"}
Marks(c, k) == c.sql[k].marks

\* The markers of c, compiled with the counter at n, are n + 1, n + 2, ... in
\* the order they stand in, and no IN is without.
Ordered(c, n) ==
    /\ Counted(c, n)
    /\ \A k \in TestsOf(c) : c.sql[k].test.on = "IN" => Marks(c, k) # <<>>
    /\ \A k \in TestsOf(c) : \A j \in DOMAIN Marks(c, k) : n < Marks(c, k)[j] /\ Marks(c, k)[j] <= c.n
    /\ \A k, l \in TestsOf(c) : \A j \in DOMAIN Marks(c, k) : \A i \in DOMAIN Marks(c, l) :
          l < k \/ (l = k /\ i < j) => Marks(c, l)[i] < Marks(c, k)[j]
    /\ \A m \in n + 1 .. c.n : \E k \in TestsOf(c) : \E j \in DOMAIN Marks(c, k) : Marks(c, k)[j] = m

LEMMA MarksType ==
    ASSUME NEW c \in Clauses, NEW k \in TestsOf(c)
    PROVE  /\ Marks(c, k) \in Seq(Nat)
           /\ \A j \in DOMAIN Marks(c, k) : Marks(c, k)[j] \in Nat
  <1>1. c.sql \in Seq(Tokens) /\ k \in 1 .. Len(c.sql) /\ c.sql[k].word = "test"
    BY DEF Clauses, TestsOf
  <1>2. c.sql[k] \in Tokens
    BY <1>1
  <1>3. Marks(c, k) \in Seq(Nat)
    BY <1>1, <1>2 DEF Tokens, Booleans, Marks
  <1> QED BY <1>3

LEMMA NothingOrdered ==
    ASSUME NEW n \in Nat
    PROVE  Ordered(Nothing(n), n)
  <1>1. Len(Nothing(n).sql) = 0 /\ Nothing(n).n = n /\ Len(Nothing(n).params) = 0
    BY DEF Nothing
  <1>2. TestsOf(Nothing(n)) = {} /\ n + 1 .. n = {}
    BY <1>1 DEF TestsOf
  <1> QED BY <1>1, <1>2 DEF Ordered, Counted

LEMMA ConditionOrdered ==
    ASSUME NEW test \in Conditions, test.on = "IN" => test.values # <<>>, NEW n \in Nat
    PROVE  Ordered(Condition(test, n), n)
  <1> DEFINE c == Condition(test, n)
             V == Len(test.values)
  <1>1. test.values \in Seq(Int) /\ V \in Nat /\ DOMAIN test.values = 1 .. V /\ (test.values = <<>> <=> V = 0)
    <2>1. test.values \in Seq(Int)
      BY DEF Conditions
    <2> QED BY <2>1
  <1>2. /\ Len(c.sql) = 1 /\ c.sql[1].word = "test" /\ c.sql[1].test = test
        /\ c.sql[1].marks = [k \in DOMAIN test.values |-> n + k] /\ c.n = n + V /\ c.params = test.values
    BY DEF Condition
  <1>3. TestsOf(c) = {1} /\ Marks(c, 1) = [k \in 1 .. V |-> n + k]
    <2> HIDE DEF c
    <2> QED BY <1>1, <1>2 DEF TestsOf, Marks
  <1>4. Counted(c, n)
    <2> HIDE DEF c
    <2> QED BY <1>2 DEF Counted
  <1> HIDE DEF c, V
  <1>5. test.on = "IN" => Marks(c, 1) # <<>>
    <2>1. V # 0 => 1 \in DOMAIN Marks(c, 1)
      BY <1>1, <1>3
    <2> QED BY <1>1, <2>1
  <1>6. \A j \in DOMAIN Marks(c, 1) : j \in 1 .. V /\ Marks(c, 1)[j] = n + j
    BY <1>3
  <1>7. \A k \in TestsOf(c) : c.sql[k].test.on = "IN" => Marks(c, k) # <<>>
    BY <1>2, <1>3, <1>5
  <1>8. \A k \in TestsOf(c) : \A j \in DOMAIN Marks(c, k) : n < Marks(c, k)[j] /\ Marks(c, k)[j] <= c.n
    <2>1. \A j \in 1 .. V : n < n + j /\ n + j <= n + V
      BY <1>1
    <2>2. c.n = n + V
      BY <1>2
    <2> QED BY <1>3, <1>6, <2>1, <2>2
  <1>9. \A k, l \in TestsOf(c) : \A j \in DOMAIN Marks(c, k) : \A i \in DOMAIN Marks(c, l) :
          l < k \/ (l = k /\ i < j) => Marks(c, l)[i] < Marks(c, k)[j]
    <2>1. \A i, j \in 1 .. V : i < j => n + i < n + j
      BY <1>1
    <2>2. ~ (1 < 1)
      OBVIOUS
    <2> QED BY <1>3, <1>6, <2>1, <2>2
  <1>10. \A m \in n + 1 .. c.n : \E k \in TestsOf(c) : \E j \in DOMAIN Marks(c, k) : Marks(c, k)[j] = m
    <2> SUFFICES ASSUME NEW m \in n + 1 .. c.n PROVE \E j \in DOMAIN Marks(c, 1) : Marks(c, 1)[j] = m
      BY <1>3
    <2>1. c.n = n + V
      BY <1>2
    <2>2. m - n \in 1 .. V /\ n + (m - n) = m
      BY <1>1, <2>1
    <2> QED BY <1>3, <2>2
  <1> QED BY <1>4, <1>7, <1>8, <1>9, <1>10 DEF Ordered, c

LEMMA FollowedOrdered ==
    ASSUME NEW c \in Clauses, NEW words \in Seq(Tokens), \A j \in 1 .. Len(words) : words[j].word # "test",
           NEW d \in Clauses, NEW n \in Nat, Ordered(c, n), Ordered(d, c.n)
    PROVE  Ordered(Followed(c, words, d), n)
  <1> DEFINE f == Followed(c, words, d)
             a == Len(c.sql)
             v == Len(words)
             e == Len(d.sql)
             C == TestsOf(c)
             D == TestsOf(d)
  <1>1. a \in Nat /\ v \in Nat /\ e \in Nat /\ c.n \in Nat /\ d.n \in Nat
        /\ Len(c.params) \in Nat /\ Len(d.params) \in Nat
    BY DEF Clauses
  <1>2. /\ Len(f.sql) = a + v + e /\ f.n = d.n /\ Len(f.params) = Len(c.params) + Len(d.params)
        /\ \A j \in 1 .. a : f.sql[j] = c.sql[j]
        /\ \A j \in 1 .. v : f.sql[a + j] = words[j]
        /\ \A j \in 1 .. e : f.sql[a + v + j] = d.sql[j]
    BY FollowedIs
  <1>3. c.n = n + Len(c.params) /\ d.n = c.n + Len(d.params)
    BY DEF Ordered, Counted
  <1>4. Counted(f, n)
    <2> DEFINE p == Len(c.params)
               q == Len(d.params)
               k == c.n
    <2>1. p \in Nat /\ q \in Nat /\ Len(f.params) = p + q /\ f.n = d.n /\ k = n + p /\ d.n = k + q
      BY <1>1, <1>2, <1>3
    <2> HIDE DEF p, q, k, f
    <2>2. f.n = n + Len(f.params)
      BY <2>1
    <2> QED BY <2>2 DEF Counted
  <1> HIDE DEF f, a, v, e
  <1>5. \A k \in TestsOf(f) : k \in C \/ (k - (a + v) \in D /\ k = a + v + (k - (a + v)) /\ k > a + v)
    <2> SUFFICES ASSUME NEW k \in TestsOf(f)
                 PROVE  k \in C \/ (k - (a + v) \in D /\ k = a + v + (k - (a + v)) /\ k > a + v)
      OBVIOUS
    <2>1. k \in 1 .. a + v + e /\ f.sql[k].word = "test"
      BY <1>2 DEF TestsOf
    <2>2. CASE k <= a
      <3>1. k \in 1 .. a
        BY <1>1, <2>1, <2>2
      <3> QED BY <1>2, <2>1, <3>1 DEF TestsOf, a
    <2>3. CASE a < k /\ k <= a + v
      <3>1. k - a \in 1 .. v /\ a + (k - a) = k
        BY <1>1, <2>1, <2>3
      <3>2. f.sql[k] = words[k - a]
        BY <1>2, <3>1
      <3> QED BY <2>1, <3>1, <3>2 DEF v
    <2>4. CASE a + v < k
      <3>1. k - (a + v) \in 1 .. e /\ a + v + (k - (a + v)) = k
        BY <1>1, <2>1, <2>4
      <3>2. f.sql[k] = d.sql[k - (a + v)]
        BY <1>2, <3>1
      <3>3. k - (a + v) \in D
        BY <2>1, <3>1, <3>2 DEF TestsOf, e
      <3> QED BY <2>4, <3>1, <3>3
    <2> QED BY <1>1, <2>1, <2>2, <2>3, <2>4
  <1>6. \A k \in C : k \in TestsOf(f) /\ f.sql[k] = c.sql[k] /\ k \in 1 .. a
    <2>1. \A k \in 1 .. a : k \in 1 .. Len(f.sql)
      BY <1>1, <1>2
    <2> QED BY <1>2, <2>1 DEF TestsOf, a
  <1>7. \A k \in D : a + v + k \in TestsOf(f) /\ f.sql[a + v + k] = d.sql[k] /\ k \in 1 .. e
    <2>1. \A k \in 1 .. e : a + v + k \in 1 .. Len(f.sql)
      BY <1>1, <1>2
    <2> QED BY <1>2, <2>1 DEF TestsOf, e
  <1>8. /\ \A k \in C : Marks(f, k) = Marks(c, k) /\ f.sql[k].test = c.sql[k].test
        /\ \A k \in D : Marks(f, a + v + k) = Marks(d, k) /\ f.sql[a + v + k].test = d.sql[k].test
    BY <1>6, <1>7 DEF Marks
  <1>9. /\ \A k \in C : \A j \in DOMAIN Marks(c, k) : Marks(c, k)[j] \in Nat
        /\ \A k \in D : \A j \in DOMAIN Marks(d, k) : Marks(d, k)[j] \in Nat
    BY MarksType
  <1>10. /\ \A k \in C : \A j \in DOMAIN Marks(c, k) : n < Marks(c, k)[j] /\ Marks(c, k)[j] <= c.n
         /\ \A k \in D : \A j \in DOMAIN Marks(d, k) : c.n < Marks(d, k)[j] /\ Marks(d, k)[j] <= d.n
    BY DEF Ordered
  <1> HIDE DEF C, D
  <1>11. \A k \in TestsOf(f) : f.sql[k].test.on = "IN" => Marks(f, k) # <<>>
    <2>1. /\ \A k \in C : c.sql[k].test.on = "IN" => Marks(c, k) # <<>>
          /\ \A k \in D : d.sql[k].test.on = "IN" => Marks(d, k) # <<>>
      BY DEF Ordered, C, D
    <2> SUFFICES ASSUME NEW k \in TestsOf(f), f.sql[k].test.on = "IN" PROVE Marks(f, k) # <<>>
      OBVIOUS
    <2>2. CASE k \in C
      BY <1>8, <2>1, <2>2
    <2>3. CASE k \notin C
      <3>1. k - (a + v) \in D /\ k = a + v + (k - (a + v))
        BY <1>5, <2>3
      <3> QED BY <1>8, <2>1, <3>1
    <2> QED BY <2>2, <2>3
  <1>12. ASSUME NEW k \in TestsOf(f), NEW j \in DOMAIN Marks(f, k)
         PROVE  n < Marks(f, k)[j] /\ Marks(f, k)[j] <= f.n
    <2>1. n <= c.n /\ c.n <= d.n
      BY <1>1, <1>3
    <2>2. CASE k \in C
      BY <1>1, <1>2, <1>8, <1>9, <1>10, <2>1, <2>2
    <2>3. CASE k \notin C
      <3>1. k - (a + v) \in D /\ k = a + v + (k - (a + v))
        BY <1>5, <2>3
      <3>2. Marks(f, k) = Marks(d, k - (a + v))
        BY <1>8, <3>1
      <3> QED BY <1>1, <1>2, <1>9, <1>10, <2>1, <3>1, <3>2
    <2> QED BY <2>2, <2>3
  <1>13. ASSUME NEW k \in TestsOf(f), NEW l \in TestsOf(f), NEW j \in DOMAIN Marks(f, k), NEW i \in DOMAIN Marks(f, l),
                l < k \/ (l = k /\ i < j)
         PROVE  Marks(f, l)[i] < Marks(f, k)[j]
    <2>1. \A x, y \in C : \A s \in DOMAIN Marks(c, x) : \A t \in DOMAIN Marks(c, y) :
              y < x \/ (y = x /\ t < s) => Marks(c, y)[t] < Marks(c, x)[s]
      BY DEF Ordered, C
    <2>2. \A x, y \in D : \A s \in DOMAIN Marks(d, x) : \A t \in DOMAIN Marks(d, y) :
              y < x \/ (y = x /\ t < s) => Marks(d, y)[t] < Marks(d, x)[s]
      BY DEF Ordered, D
    <2>3. CASE k \in C /\ l \in C
      BY <1>8, <1>13, <2>1, <2>3
    <2>4. CASE k \in C /\ l \notin C
      <3>1. k \in 1 .. a /\ l > a + v /\ l - (a + v) \in 1 .. e /\ l = a + v + (l - (a + v))
        BY <1>5, <1>6, <1>7, <2>4
      <3>2. l > k /\ l # k /\ ~ (l < k)
        BY <1>1, <3>1
      <3> QED BY <1>13, <3>2
    <2>5. CASE k \notin C /\ l \in C
      <3>1. k - (a + v) \in D /\ k = a + v + (k - (a + v))
        BY <1>5, <2>5
      <3>2. Marks(f, k) = Marks(d, k - (a + v)) /\ Marks(f, l) = Marks(c, l)
        BY <1>8, <2>5, <3>1
      <3>3. Marks(f, l)[i] <= c.n /\ Marks(f, l)[i] \in Nat
        BY <1>9, <1>10, <2>5, <3>2
      <3>4. c.n < Marks(f, k)[j] /\ Marks(f, k)[j] \in Nat
        BY <1>9, <1>10, <3>1, <3>2
      <3> QED BY <1>1, <3>3, <3>4
    <2>6. CASE k \notin C /\ l \notin C
      <3> DEFINE x == k - (a + v)
                 y == l - (a + v)
      <3>1. x \in D /\ k = a + v + x /\ y \in D /\ l = a + v + y
        BY <1>5, <2>6
      <3> HIDE DEF x, y
      <3>2. x \in 1 .. e /\ y \in 1 .. e
        BY <1>7, <3>1
      <3>3. (l < k <=> y < x) /\ (l = k <=> y = x)
        BY <1>1, <3>1, <3>2
      <3>4. Marks(f, k) = Marks(d, x) /\ Marks(f, l) = Marks(d, y)
        BY <1>8, <3>1
      <3> QED BY <1>13, <2>2, <3>1, <3>3, <3>4
    <2> QED BY <2>3, <2>4, <2>5, <2>6
  <1>14. ASSUME NEW m \in n + 1 .. f.n
         PROVE  \E k \in TestsOf(f) : \E j \in DOMAIN Marks(f, k) : Marks(f, k)[j] = m
    <2>1. m \in n + 1 .. c.n \/ m \in c.n + 1 .. d.n
      BY <1>1, <1>2
    <2>2. CASE m \in n + 1 .. c.n
      <3>1. PICK k \in C : \E j \in DOMAIN Marks(c, k) : Marks(c, k)[j] = m
        BY <2>2 DEF Ordered, C
      <3> QED BY <1>6, <1>8, <3>1
    <2>3. CASE m \in c.n + 1 .. d.n
      <3>1. PICK k \in D : \E j \in DOMAIN Marks(d, k) : Marks(d, k)[j] = m
        BY <2>3 DEF Ordered, D
      <3> QED BY <1>7, <1>8, <3>1
    <2> QED BY <2>1, <2>2, <2>3
  <1> QED BY <1>4, <1>11, <1>12, <1>13, <1>14 DEF Ordered, f

LEMMA WordsOrdered ==
    \A w \in {"(", ")", "AND", "OR"} : /\ Word(w) \in Seq(Tokens)
                                       /\ \A j \in 1 .. Len(Word(w)) : Word(w)[j].word # "test"
  <1> SUFFICES ASSUME NEW w \in {"(", ")", "AND", "OR"}
               PROVE  Word(w) \in Seq(Tokens) /\ \A j \in 1 .. Len(Word(w)) : Word(w)[j].word # "test"
    OBVIOUS
  <1>1. Word(w) \in Seq(Tokens) /\ Len(Word(w)) = 1 /\ Word(w)[1] = [word |-> w]
    BY WordType
  <1>2. \A j \in 1 .. 1 : j = 1
    OBVIOUS
  <1>3. [word |-> w].word # "test"
    OBVIOUS
  <1> QED BY <1>1, <1>2, <1>3

LEMMA ParenthesisedOrdered ==
    ASSUME NEW c \in Clauses, NEW n \in Nat, Ordered(c, n)
    PROVE  Ordered(Parenthesised(c), n)
  <1> DEFINE left == Followed(Nothing(n), Word("("), c)
  <1>1. left \in Clauses /\ Parenthesised(c) = Followed(left, Word(")"), Nothing(c.n)) /\ left.n = c.n
    BY ParenthesisedIs DEF Followed
  <1>2. Nothing(n) \in Clauses /\ Nothing(n).n = n /\ c.n \in Nat /\ Nothing(c.n) \in Clauses
    BY NothingType DEF Nothing, Clauses
  <1>3. Ordered(left, n)
    <2>1. Ordered(Nothing(n), n) /\ Ordered(c, Nothing(n).n)
      BY <1>2, NothingOrdered
    <2> QED BY <1>2, <2>1, WordsOrdered, FollowedOrdered
  <1>4. Ordered(Nothing(c.n), left.n)
    BY <1>1, <1>2, NothingOrdered
  <1>5. Ordered(Followed(left, Word(")"), Nothing(c.n)), n)
    <2> HIDE DEF left
    <2> QED BY <1>1, <1>2, <1>3, <1>4, WordsOrdered, FollowedOrdered
  <1> QED BY <1>1, <1>5

LEMMA ListOrdered ==
    ASSUME NodesOK, NEW list \in Seq(Refs), NEW part \in [1 .. Len(list) -> [Nat -> Clauses]], NEW n \in Nat,
           \A k \in 1 .. Len(list) : \A m \in Nat : Ordered(part[k][m], m)
    PROVE  Ordered(compileList(list, part, n), n)
  <1> DEFINE L == Len(list)
  <1>1. L \in Nat
    OBVIOUS
  <1>2. PICK j \in [0 .. L -> Clauses] :
            IsJoined(j, list, part, n) /\ compileList(list, part, n) = j[L]
    BY ListIsJoined
  <1> DEFINE Good == {k \in 0 .. L : Ordered(j[k], n)}
  <1>3. 0 \in Good
    <2>1. j[0] = Nothing(n) /\ 0 \in 0 .. L
      BY <1>1, <1>2 DEF IsJoined
    <2> QED BY <2>1, NothingOrdered
  <1>4. ASSUME NEW m \in 0 .. L, m < L, m \in Good PROVE m + 1 \in Good
    <2> DEFINE i == m + 1
    <2>1. i \in 1 .. Len(list) /\ i - 1 = m /\ i \in 0 .. L
      BY <1>1, <1>4
    <2> HIDE DEF i
    <2> DEFINE d == part[i][j[m].n]
               words == Joint(list, i)
    <2>2. j[i] = Followed(j[m], words, d)
      <3>1. j[i] = Followed(j[i - 1], Joint(list, i), part[i][j[i - 1].n])
        <4> HIDE DEF L
        <4> QED BY <1>2, <2>1 DEF IsJoined
      <3> QED BY <2>1, <3>1
    <2>3. j[m] \in Clauses /\ j[m].n \in Nat /\ Ordered(j[m], n)
      BY <1>4 DEF Clauses
    <2>4. d \in Clauses /\ Ordered(d, j[m].n)
      BY <2>1, <2>3
    <2>5. words \in Seq(Tokens) /\ \A k \in 1 .. Len(words) : words[k].word # "test"
      <3>1. list[i] \in Refs
        BY <2>1
      <3>2. node[list[i]].boolean \in Booleans
        BY <3>1 DEF NodesOK
      <3>3. i = 1 => words = <<>>
        BY DEF Joint
      <3>4. i # 1 => words = Word(node[list[i]].boolean)
        BY DEF Joint
      <3>5. words \in Seq(Tokens)
        <4> HIDE DEF L
        <4> QED BY <2>1, JointType
      <3>6. \A k \in 1 .. Len(<<>>) : FALSE
        OBVIOUS
      <3> HIDE DEF words
      <3> QED BY <3>2, <3>3, <3>4, <3>5, <3>6, WordsOrdered DEF Booleans
    <2>6. Ordered(j[i], n)
      <3> HIDE DEF words, d, L
      <3> QED BY <2>2, <2>3, <2>4, <2>5, FollowedOrdered
    <2> HIDE DEF L
    <2> QED BY <2>1, <2>6 DEF i
  <1>5. 0 .. L \subseteq Good
    <2> HIDE DEF Good, L
    <2> QED BY <1>1, <1>3, <1>4, Upwards
  <1> QED BY <1>1, <1>2, <1>5

LEMMA NodeOrdered ==
    ASSUME NodesOK
    PROVE  \A i \in Refs : \A n \in Nat : Ordered(compileNode[i][n], n)
  <1> DEFINE Fine(i) == \A n \in Nat : Ordered(compileNode[i][n], n)
             Good == {i \in Refs : Fine(i)}
  <1>1. ASSUME NEW i \in Refs, \A j \in 1 .. (i - 1) : j \in Good PROVE Fine(i)
    <2> SUFFICES ASSUME NEW n \in Nat PROVE Ordered(compileNode[i][n], n)
      OBVIOUS
    <2>1. CASE IsCondition(i)
      <3>1. node[i].kind = "condition" /\ node[i].test \in Conditions /\ node[i].test = EmptyList(node[i].asked)
        BY <2>1 DEF IsCondition
      <3>2. compileNode[i][n] = Condition(node[i].test, n)
        BY <3>1, NodeIsCompiled
      <3>3. node[i].test.on = "IN" => node[i].test.values # <<>>
        <4> DEFINE t == node[i].asked
        <4>1. CASE t.on = "IN" /\ t.values = <<>>
          <5>1. node[i].test = Tautology(t.not)
            BY <3>1, <4>1 DEF EmptyList
          <5>2. Tautology(t.not).on # "IN"
            BY DEF Tautology
          <5> QED BY <5>1, <5>2
        <4>2. CASE ~ (t.on = "IN" /\ t.values = <<>>)
          <5>1. node[i].test = t
            BY <3>1, <4>2 DEF EmptyList
          <5> HIDE DEF t
          <5> QED BY <4>2, <5>1
        <4> QED BY <4>1, <4>2
      <3> QED BY <3>1, <3>2, <3>3, ConditionOrdered
    <2>2. CASE ~ IsCondition(i)
      <3> DEFINE list == node[i].children
      <3>1. /\ node[i].kind # "condition" /\ list \in Seq(1 .. (i - 1)) /\ list \in Seq(Refs)
            /\ DOMAIN list = 1 .. Len(list) /\ Len(list) \in Nat
        BY <2>2, RefsBelow
      <3>2. CASE list = <<>>
        <4>1. compileNode[i][n] = Condition(Tautology(TRUE), n)
          BY <3>1, <3>2, NodeIsCompiled
        <4>2. Tautology(TRUE) \in Conditions /\ Tautology(TRUE).on # "IN"
          BY DEF Tautology, Conditions, Columns
        <4> HIDE DEF list
        <4> QED BY <4>1, <4>2, ConditionOrdered
      <3>3. CASE list # <<>>
        <4> DEFINE c == compileList(list, Parts(list), n)
        <4>1. compileNode[i][n] = Parenthesised(c)
          BY <3>1, <3>3, NodeIsCompiled
        <4>2. \A k \in 1 .. Len(list) : list[k] \in 1 .. (i - 1) /\ list[k] \in Refs /\ k \in DOMAIN list
          <5>1. list \in Seq(1 .. (i - 1)) /\ list \in Seq(Refs) /\ DOMAIN list = 1 .. Len(list)
            BY <3>1
          <5> HIDE DEF list
          <5> QED BY <5>1, ElementOfSeq
        <4> HIDE DEF list
        <4>3. Parts(list) \in [1 .. Len(list) -> [Nat -> Clauses]]
          BY <3>1, <4>2, NodeIsCompiled DEF Parts
        <4>4. ASSUME NEW k \in 1 .. Len(list), NEW m \in Nat PROVE Ordered(Parts(list)[k][m], m)
          <5>1. list[k] \in Good
            BY <1>1, <4>2
          <5>2. Parts(list)[k] = compileNode[list[k]]
            BY <4>2 DEF Parts
          <5> QED BY <5>1, <5>2
        <4>5. c \in Clauses /\ Ordered(c, n)
          <5>1. Ordered(c, n)
            BY <3>1, <4>3, <4>4, ListOrdered
          <5>2. PICK j \in [0 .. Len(list) -> Clauses] : c = j[Len(list)]
            BY <3>1, <4>3, ListIsJoined
          <5>3. Len(list) \in 0 .. Len(list)
            BY <3>1
          <5> QED BY <5>1, <5>2, <5>3
        <4> HIDE DEF c
        <4> QED BY <4>1, <4>5, ParenthesisedOrdered
      <3> QED BY <3>2, <3>3
    <2> QED BY <2>1, <2>2
  <1>2. Refs \subseteq Good
    <2>1. Len(node) \in Nat /\ Refs = 1 .. Len(node)
      BY DEF NodesOK, Refs
    <2>2. \A i \in 1 .. Len(node) : (\A j \in 1 .. (i - 1) : j \in Good) => i \in Good
      <3> HIDE DEF Fine
      <3> QED BY <1>1, <2>1
    <2> HIDE DEF Good
    <2> QED BY <2>1, <2>2, FromBefore
  <1> QED BY <1>2

\* The clause of a builder numbers its markers in the order they stand in.
LEMMA BuilderOrdered ==
    ASSUME NodesOK, NEW b, IsBuilder(b)
    PROVE  buildWhere(b) \in Clauses /\ Ordered(buildWhere(b), 0)
  <1> DEFINE list == b.nodes
             c == compiled(list)
  <1>1. list \in Seq(Refs)
    BY DEF IsBuilder
  <1>2. c \in Clauses /\ Ordered(c, 0) /\ c.n \in Nat
    <2> HIDE DEF list
    <2>1. DOMAIN list = 1 .. Len(list) /\ Len(list) \in Nat /\ \A k \in 1 .. Len(list) : list[k] \in Refs
      BY <1>1
    <2>2. Parts(list) \in [1 .. Len(list) -> [Nat -> Clauses]]
      BY <2>1, NodeIsCompiled DEF Parts
    <2>3. \A k \in 1 .. Len(list) : \A m \in Nat : Ordered(Parts(list)[k][m], m)
      BY <2>1, NodeOrdered DEF Parts
    <2>4. c = compileList(list, Parts(list), 0)
      BY DEF compiled, Parts
    <2>5. Ordered(c, 0)
      BY <1>1, <2>2, <2>3, <2>4, ListOrdered
    <2>6. c \in Clauses
      <3>1. PICK j \in [0 .. Len(list) -> Clauses] : c = j[Len(list)]
        BY <1>1, <2>2, <2>4, ListIsJoined
      <3>2. Len(list) \in 0 .. Len(list)
        BY <2>1
      <3> QED BY <3>1, <3>2
    <2> QED BY <2>5, <2>6 DEF Clauses
  <1>3. IsLive \in Conditions /\ IsLive.on # "IN"
    BY DEF IsLive, Conditions, Columns
  <1>4. \A n \in Nat : Condition(IsLive, n) \in Clauses /\ Ordered(Condition(IsLive, n), n)
    BY <1>3, ConditionType, ConditionOrdered
  <1>5. Parenthesised(c) \in Clauses /\ Parenthesised(c).n = c.n /\ Ordered(Parenthesised(c), 0)
    <2> HIDE DEF c
    <2> QED BY <1>2, ParenthesisedType, ParenthesisedOrdered
  <1>6. /\ Followed(Parenthesised(c), Word("AND"), Condition(IsLive, c.n)) \in Clauses
        /\ Ordered(Followed(Parenthesised(c), Word("AND"), Condition(IsLive, c.n)), 0)
    <2>1. /\ Word("AND") \in Seq(Tokens)
          /\ \A j \in 1 .. Len(Word("AND")) : Word("AND")[j].word # "test"
      BY WordsOrdered
    <2> HIDE DEF c
    <2> QED BY <1>2, <1>4, <1>5, <2>1, FollowedType, FollowedOrdered
  <1>7. buildWhere(b) \in {c, Condition(IsLive, 0), Followed(Parenthesised(c), Word("AND"), Condition(IsLive, c.n))}
    BY DEF buildWhere
  <1> HIDE DEF c
  <1> QED BY <1>2, <1>4, <1>6, <1>7

LEMMA MarkersAreOrdered ==
    ASSUME NodesOK, IsBuilder(builder)
    PROVE  MarkersInOrder
  <1> DEFINE clause == buildWhere(builder)
             tests == {k \in DOMAIN clause.sql : clause.sql[k].word = "test"}
             marks(k) == clause.sql[k].marks
  <1>1. clause \in Clauses /\ Ordered(clause, 0)
    BY BuilderOrdered
  <1> HIDE DEF clause
  <1>2. DOMAIN clause.sql = 1 .. Len(clause.sql) /\ DOMAIN clause.params = 1 .. Len(clause.params)
        /\ Len(clause.params) \in Nat
    <2>1. clause.sql \in Seq(Tokens) /\ clause.params \in Seq(Int)
      BY <1>1 DEF Clauses
    <2> QED BY <2>1
  <1>3. tests = TestsOf(clause) /\ \A k : marks(k) = Marks(clause, k)
    BY <1>2 DEF TestsOf, Marks
  <1>4. DOMAIN clause.params = 1 .. clause.n
    <2>1. clause.n = 0 + Len(clause.params)
      BY <1>1 DEF Ordered, Counted
    <2> QED BY <1>2, <2>1
  <1>5. \A k \in tests : \A j \in DOMAIN marks(k) : marks(k)[j] \in Nat
    BY <1>1, <1>3, MarksType
  <1>6. clause.n \in Nat
    BY <1>1 DEF Clauses
  <1> HIDE DEF tests, marks
  <1>7. \A k \in tests : \A j \in DOMAIN marks(k) : marks(k)[j] \in DOMAIN clause.params
    <2>1. \A k \in tests : \A j \in DOMAIN marks(k) : 0 < marks(k)[j] /\ marks(k)[j] <= clause.n
      BY <1>1, <1>3 DEF Ordered
    <2> QED BY <1>4, <1>5, <1>6, <2>1
  <1>8. \A k, l \in tests : \A j \in DOMAIN marks(k) : \A i \in DOMAIN marks(l) :
            l < k \/ (l = k /\ i < j) => marks(l)[i] < marks(k)[j]
    BY <1>1, <1>3 DEF Ordered
  <1>9. \A m \in DOMAIN clause.params : \E k \in tests : \E j \in DOMAIN marks(k) : marks(k)[j] = m
    <2>1. \A m \in DOMAIN clause.params : m \in 0 + 1 .. clause.n
      BY <1>4, <1>6
    <2> QED BY <1>1, <1>3, <2>1 DEF Ordered
  <1>10. \A k \in tests : clause.sql[k].test.on = "IN" => marks(k) # <<>>
    BY <1>1, <1>3 DEF Ordered
  <1> QED BY <1>7, <1>8, <1>9, <1>10 DEF MarkersInOrder, tests, marks, clause

-----------------------------------------------------------------------------
(* The invariant: what the builder and the groups refer to has been made. *)

NodeRecords == [kind : {"condition"}, boolean : Booleans, test : Conditions, asked : Tests]
               \cup [kind : {"group"}, boolean : Booleans, children : Seq(Nat)]
Builders    == [nodes : Seq(Nat), order : Orders \cup {NoOrder}, limit : Int, offset : Int,
                softScope : BOOLEAN, includeTrashed : BOOLEAN]
OpenGroups  == [boolean : Booleans, children : Seq(Nat)]
Calls       == [at : {"none", "counted"}, page : Nat, perPage : 0 .. MaxPerPage]
Replies     == [op : {"none", "get", "first", "count", "delete", "paginate"}, rows : SUBSET AllRows]

\* The references of open groups have been made.
Made(open) == open \in Seq(OpenGroups) /\ \A k \in DOMAIN open : open[k].children \in Seq(Refs)

NodeType  == node \in Seq(NodeRecords) /\ NodesOK
ChainType == builder \in Builders /\ builder.nodes \in Seq(Refs) /\ Made(groups)
RunType   == table \in SUBSET AllRows /\ call \in Calls /\ answer \in Replies
CountType == chained \in Nat /\ grouped \in Nat /\ writes \in Nat
QueryInv  == NodeType /\ ChainType /\ RunType /\ CountType

\* What it is to be a node at i.
NodeAt(i, new) ==
    \/ /\ new.kind = "condition" /\ new.test \in Conditions
       /\ new.asked \in Tests /\ new.test = EmptyList(new.asked)
    \/ new.kind = "group" /\ new.children \in Seq(1 .. (i - 1))

LEMMA PushKeeps ==
    ASSUME NodeType, ChainType, NEW new \in NodeRecords, NodeAt(Len(node) + 1, new),
           NEW open, Made(open), push(new, open)
    PROVE  NodeType' /\ ChainType'
  <1> DEFINE ref == Len(node) + 1
  <1>1. node \in Seq(NodeRecords) /\ Len(node) \in Nat /\ Refs = 1 .. Len(node) /\ ref \in Nat
    BY DEF NodeType, Refs
  <1>2. node' = Append(node, new)
    BY DEF push
  <1>3. /\ node' \in Seq(NodeRecords) /\ Len(node') = ref /\ node'[ref] = new
        /\ \A i \in Refs : node'[i] = node[i]
    BY <1>1, <1>2
  <1>4. Refs' = 1 .. ref /\ Refs \subseteq Refs' /\ ref \in Refs' /\ \A i \in Refs' : i \in Refs \/ i = ref
    BY <1>1, <1>3 DEF Refs
  <1>5. NodeType'
    <2>1. Len(node') \in Nat /\ DOMAIN node' = Refs'
      BY <1>1, <1>3 DEF Refs
    <2>2. \A i \in Refs' : node'[i].boolean \in Booleans
      <3>1. \A i \in Refs' : node'[i] \in NodeRecords
        BY <1>3, <1>4
      <3> QED BY <3>1 DEF NodeRecords
    <2>3. ASSUME NEW i \in Refs' PROVE IsCondition(i)' \/ IsGroup(i)'
      <3>1. CASE i \in Refs
        <4>1. IsCondition(i) \/ IsGroup(i)
          BY <3>1 DEF NodeType, NodesOK
        <4>2. node'[i] = node[i]
          BY <1>3, <3>1
        <4> QED BY <4>1, <4>2 DEF IsCondition, IsGroup, EmptyList, Tautology
      <3>2. CASE i = ref
        <4>1. node'[i] = new
          BY <1>3, <3>2
        <4> HIDE DEF ref
        <4>2. NodeAt(i, new)
          BY <3>2 DEF ref
        <4> QED BY <4>1, <4>2 DEF NodeAt, IsCondition, IsGroup, EmptyList, Tautology
      <3> QED BY <1>4, <3>1, <3>2
    <2> QED BY <1>3, <2>1, <2>2, <2>3 DEF NodeType, NodesOK
  <1>6. \A s \in Seq(Refs) : s \in Seq(Refs') /\ Append(s, ref) \in Seq(Refs')
    <2> HIDE DEF ref
    <2> SUFFICES ASSUME NEW s \in Seq(Refs) PROVE s \in Seq(Refs') /\ Append(s, ref) \in Seq(Refs')
      OBVIOUS
    <2>1. s \in Seq(Refs')
      BY <1>4, SeqMonotonic
    <2> DEFINE R == Refs'
    <2>2. s \in Seq(R) /\ ref \in R
      BY <1>4, <2>1
    <2> HIDE DEF R
    <2>3. Append(s, ref) \in Seq(R)
      BY <2>2
    <2> QED BY <2>1, <2>3 DEF R
  <1>7. builder \in Builders /\ builder.nodes \in Seq(Refs)
    BY DEF ChainType
  <1>8. CASE open = <<>>
    <2>1. builder' = [builder EXCEPT !.nodes = Append(@, ref)] /\ groups' = open
      BY <1>8 DEF push
    <2> DEFINE more == Append(builder.nodes, ref)
    <2>2. more \in Seq(Refs') /\ more \in Seq(Nat)
      <3>1. builder.nodes \in Seq(Nat)
        BY <1>7 DEF Builders
      <3>2. Append(builder.nodes, ref) \in Seq(Nat)
        <4> HIDE DEF ref
        <4> QED BY <1>1, <3>1
      <3> QED BY <1>6, <1>7, <3>2
    <2>3. builder' = [builder EXCEPT !.nodes = more]
      BY <2>1
    <2> HIDE DEF more
    <2>4. builder' \in Builders /\ builder'.nodes = more
      BY <1>7, <2>2, <2>3 DEF Builders
    <2>5. groups' = <<>> /\ groups' \in Seq(OpenGroups)
      BY <1>8, <2>1
    <2> QED BY <1>5, <2>2, <2>4, <2>5 DEF ChainType, Made
  <1>9. CASE open # <<>>
    <2>1. groups' = [open EXCEPT ![Len(open)].children = Append(@, ref)] /\ builder' = builder
      BY <1>9 DEF push
    <2>2. /\ open \in Seq(OpenGroups) /\ Len(open) \in Nat /\ Len(open) \in 1 .. Len(open)
          /\ DOMAIN open = 1 .. Len(open) /\ \A k \in 1 .. Len(open) : open[k].children \in Seq(Refs)
      BY <1>9 DEF Made
    <2> DEFINE last == open[Len(open)]
               more == Append(last.children, ref)
               new2 == [last EXCEPT !.children = more]
    <2>3. last \in OpenGroups /\ last.children \in Seq(Refs) /\ last.children \in Seq(Nat)
      <3>1. last \in OpenGroups /\ last.children \in Seq(Refs)
        BY <2>2
      <3> HIDE DEF last
      <3> QED BY <3>1 DEF OpenGroups
    <2>4. more \in Seq(Refs') /\ more \in Seq(Nat)
      <3>1. Append(last.children, ref) \in Seq(Nat)
        <4> HIDE DEF ref, last
        <4> QED BY <1>1, <2>3
      <3> HIDE DEF last
      <3> QED BY <1>6, <2>3, <3>1
    <2>5. groups' = [open EXCEPT ![Len(open)] = new2]
      BY <2>1
    <2>6. new2 \in OpenGroups /\ new2.children = more
      <3> HIDE DEF last, more
      <3> QED BY <2>3, <2>4 DEF OpenGroups
    <2> HIDE DEF last, more, new2
    <2>7. groups' \in Seq(OpenGroups) /\ Len(groups') = Len(open) /\ DOMAIN groups' = 1 .. Len(open)
          /\ groups'[Len(open)] = new2 /\ \A k \in 1 .. Len(open) : k # Len(open) => groups'[k] = open[k]
      BY <2>2, <2>5, <2>6
    <2>8. \A k \in 1 .. Len(open) : groups'[k].children \in Seq(Refs')
      BY <1>6, <2>2, <2>4, <2>6, <2>7
    <2>9. Made(groups)'
      BY <2>7, <2>8 DEF Made
    <2>10. builder' \in Builders /\ builder'.nodes \in Seq(Refs')
      BY <1>6, <1>7, <2>1
    <2> QED BY <1>5, <2>9, <2>10 DEF ChainType
  <1> QED BY <1>5, <1>8, <1>9

LEMMA Ends ==
    ASSUME NEW S, NEW s \in Seq(S), s # <<>>
    PROVE  /\ Front(s) \in Seq(S) /\ Last(s) = s[Len(s)] /\ Len(s) \in DOMAIN s
           /\ \A k \in DOMAIN Front(s) : Front(s)[k] = s[k] /\ k \in DOMAIN s
  <1>1. Len(s) \in Nat /\ Len(s) > 0 /\ DOMAIN s = 1 .. Len(s)
    OBVIOUS
  <1>2. Front(s) = SubSeq(s, 1, Len(s) - 1)
    BY DEF Front
  <1>3. /\ SubSeq(s, 1, Len(s) - 1) \in Seq(S)
        /\ DOMAIN SubSeq(s, 1, Len(s) - 1) = 1 .. Len(s) - 1
        /\ \A k \in 1 .. Len(s) - 1 : SubSeq(s, 1, Len(s) - 1)[k] = s[k]
    BY <1>1
  <1> QED BY <1>1, <1>2, <1>3 DEF Last

LEMMA NodesStay ==
    ASSUME NodeType, node' = node
    PROVE  NodeType' /\ Refs' = Refs
  BY DEF NodeType, NodesOK, IsCondition, IsGroup, Refs

LEMMA ChainStays ==
    ASSUME NodeType, ChainType, UNCHANGED <<node, builder, groups>>
    PROVE  NodeType' /\ ChainType'
  BY NodesStay DEF ChainType, Made

LEMMA WindowSubset ==
    ASSUME NEW b, NEW rows, NEW w \in Window(b, rows)
    PROVE  w \subseteq rows
  <1>1. \A n, S, order : \A h \in Heads(n, S, order) : h \subseteq S
    BY DEF Heads, kSubset
  <1>2. CASE Unlimited(b.limit)
    BY <1>2 DEF Window
  <1>3. CASE ~ Unlimited(b.limit)
    <2> DEFINE Before == Heads(IF Unlimited(b.offset) THEN 0 ELSE b.offset, rows, b.order)
    <2>1. PICK h \in Before : w \in Heads(b.limit, rows \ h, b.order)
      <3> HIDE DEF Before
      <3>1. w \in UNION {Heads(b.limit, rows \ h, b.order) : h \in Before}
        BY <1>3 DEF Window, Before
      <3> QED BY <3>1
    <2> QED BY <1>1, <2>1
  <1> QED BY <1>2, <1>3

LEMMA PagesType ==
    /\ \A page \in Int : safePage(page) \in Nat \ {0}
    /\ \A n \in Int : safePerPage(n) \in 1 .. MaxPerPage
  BY QueriesAssumption DEF safePage, safePerPage

LEMMA InitInv == Init => QueryInv
  <1> SUFFICES ASSUME Init PROVE QueryInv
    OBVIOUS
  <1>1. node = <<>> /\ groups = <<>>
    BY DEF Init
  <1>2. NodeType
    <2>1. node \in Seq(NodeRecords) /\ Len(node) = 0
      BY <1>1
    <2>2. DOMAIN node = Refs /\ Refs = {}
      BY <1>1, <2>1 DEF Refs
    <2> QED BY <2>1, <2>2 DEF NodeType, NodesOK
  <1>3. ChainType
    <2>1. <<>> \in Seq(Nat) /\ <<>> \in Seq(Refs)
      OBVIOUS
    <2>2. PICK soft \in BOOLEAN : builder =
              [nodes |-> <<>>, order |-> NoOrder, limit |-> -1, offset |-> -1,
               softScope |-> soft, includeTrashed |-> FALSE]
      BY DEF Init
    <2>3. builder \in Builders /\ builder.nodes = <<>>
      BY <2>1, <2>2 DEF Builders
    <2>4. Made(groups)
      BY <1>1 DEF Made
    <2> QED BY <2>1, <2>3, <2>4 DEF ChainType
  <1>4. RunType
    <2>1. call \in Calls
      BY QueriesAssumption DEF Init, NoCall, Calls
    <2>2. answer \in Replies
      BY DEF Init, NoAnswer, Replies
    <2> QED BY <2>1, <2>2 DEF RunType, Init
  <1>5. CountType
    BY DEF Init, CountType
  <1> QED BY <1>2, <1>3, <1>4, <1>5 DEF QueryInv

LEMMA StepInv == QueryInv /\ [Next]_vars => QueryInv'
  <1> SUFFICES ASSUME QueryInv, [Next]_vars PROVE QueryInv'
    OBVIOUS
  <1>1. NodeType /\ ChainType /\ RunType /\ CountType
    BY DEF QueryInv
  <1>2. NoAnswer \in Replies /\ NoCall \in Calls
    BY QueriesAssumption DEF NoAnswer, NoCall, Replies, Calls
  <1>3. ASSUME NEW op \in {"get", "first", "count", "delete", "paginate"}, NEW rows, rows \subseteq table, Answers(op, rows)
        PROVE  answer' \in Replies
    BY <1>1, <1>3 DEF Answers, Replies, RunType
  <1>4. \A b : Selects(b) \subseteq table
    BY DEF Selects
  <1>5. ASSUME NEW boolean \in {"AND", "OR"}, NEW test \in Tests, where(boolean, test)
        PROVE  QueryInv'
    <2> DEFINE new == [kind |-> "condition", boolean |-> boolean, test |-> EmptyList(test), asked |-> test]
    <2>1. push(new, groups) /\ Chains
      BY <1>5 DEF where
    <2>2. EmptyList(test) \in Conditions
      <3>1. test \in Conditions /\ test.not \in BOOLEAN
        BY InputAssumption DEF Conditions
      <3>2. Tautology(test.not) \in Conditions
        <4>1. \A not \in BOOLEAN : Tautology(not) \in Conditions
          BY DEF Tautology, Conditions, Columns
        <4> QED BY <3>1, <4>1
      <3> QED BY <3>1, <3>2 DEF EmptyList
    <2>3. new \in NodeRecords
      BY <2>2 DEF NodeRecords, Booleans
    <2>4. NodeAt(Len(node) + 1, new)
      BY <2>2 DEF NodeAt
    <2>5. NodeType' /\ ChainType'
      <3>1. Made(groups)
        BY <1>1 DEF ChainType
      <3> HIDE DEF new
      <3> QED BY <1>1, <2>1, <2>3, <2>4, <3>1, PushKeeps
    <2>6. RunType' /\ CountType'
      BY <1>1, <1>2, <2>1 DEF Chains, Changes, RunType, CountType
    <2> QED BY <2>5, <2>6 DEF QueryInv
  <1>6. ASSUME NEW boolean \in {"AND", "OR"}, whereGroup(boolean) PROVE QueryInv'
    <2>1. NodeType' /\ Refs' = Refs /\ UNCHANGED <<node, builder>>
      BY <1>1, <1>6, NodesStay DEF whereGroup
    <2>2. Made(groups)'
      <3> DEFINE new == [boolean |-> boolean, children |-> <<>>]
      <3>1. groups' = Append(groups, new)
        BY <1>6 DEF whereGroup
      <3>2. new \in OpenGroups /\ new.children = <<>>
        <4>1. <<>> \in Seq(Nat)
          OBVIOUS
        <4> QED BY <4>1 DEF OpenGroups, Booleans
      <3>3. groups \in Seq(OpenGroups) /\ \A k \in DOMAIN groups : groups[k].children \in Seq(Refs)
        BY <1>1 DEF ChainType, Made
      <3> HIDE DEF new
      <3>4. /\ groups' \in Seq(OpenGroups) /\ DOMAIN groups' = 1 .. Len(groups) + 1
            /\ groups'[Len(groups) + 1] = new
            /\ \A k \in DOMAIN groups : groups'[k] = groups[k]
        BY <3>1, <3>2, <3>3
      <3>5. \A k \in 1 .. Len(groups) + 1 : k \in DOMAIN groups \/ k = Len(groups) + 1
        BY <3>3
      <3>6. <<>> \in Seq(Refs)
        OBVIOUS
      <3>7. \A k \in DOMAIN groups' : groups'[k].children \in Seq(Refs)
        BY <3>2, <3>3, <3>4, <3>5, <3>6
      <3> QED BY <2>1, <3>4, <3>7 DEF Made
    <2>3. ChainType'
      BY <1>1, <2>1, <2>2 DEF ChainType
    <2>4. RunType' /\ CountType'
      BY <1>1, <1>2, <1>6 DEF whereGroup, Changes, RunType, CountType
    <2> QED BY <2>1, <2>3, <2>4 DEF QueryInv
  <1>7. ASSUME GroupEnds PROVE QueryInv'
    <2> DEFINE new == [kind |-> "group", boolean |-> Last(groups).boolean, children |-> Last(groups).children]
               open == Front(groups)
    <2>1. groups # <<>> /\ push(new, open)
      BY <1>7 DEF GroupEnds
    <2>2. groups \in Seq(OpenGroups) /\ \A k \in DOMAIN groups : groups[k].children \in Seq(Refs)
      BY <1>1 DEF ChainType, Made
    <2>3. /\ open \in Seq(OpenGroups) /\ Last(groups) = groups[Len(groups)] /\ Len(groups) \in DOMAIN groups
          /\ \A k \in DOMAIN open : open[k] = groups[k] /\ k \in DOMAIN groups
      BY <2>1, <2>2, Ends
    <2>4. Made(open)
      <3> HIDE DEF open
      <3> QED BY <2>2, <2>3 DEF Made
    <2>5. Last(groups) \in OpenGroups /\ Last(groups).children \in Seq(Refs)
      BY <2>2, <2>3
    <2>6. new \in NodeRecords
      <3>1. Last(groups).boolean \in Booleans /\ Last(groups).children \in Seq(Nat)
        BY <2>5 DEF OpenGroups
      <3> QED BY <3>1 DEF NodeRecords
    <2>7. NodeAt(Len(node) + 1, new)
      <3>1. Len(node) \in Nat
        BY <1>1 DEF NodeType, NodesOK
      <3>2. 1 .. ((Len(node) + 1) - 1) = Refs
        BY <3>1 DEF Refs
      <3> QED BY <2>5, <3>2 DEF NodeAt
    <2>8. NodeType' /\ ChainType'
      <3> HIDE DEF new, open
      <3> QED BY <1>1, <2>1, <2>4, <2>6, <2>7, PushKeeps
    <2>9. RunType' /\ CountType'
      BY <1>1, <1>7 DEF GroupEnds, RunType, CountType
    <2> QED BY <2>8, <2>9 DEF QueryInv
  <1>8. ASSUME NEW b, b \in Builders, b.nodes = builder.nodes, Shapes(b) PROVE QueryInv'
    <2>1. NodeType' /\ Refs' = Refs
      BY <1>1, <1>8, NodesStay DEF Shapes
    <2>2. ChainType'
      BY <1>1, <1>8, <2>1 DEF Shapes, ChainType, Made
    <2>3. RunType' /\ CountType'
      BY <1>1, <1>2, <1>8 DEF Shapes, Chains, Changes, RunType, CountType
    <2> QED BY <2>1, <2>2, <2>3 DEF QueryInv
  <1>9. ASSUME NEW order \in Orders, orderBy(order) PROVE QueryInv'
    <2>1. [builder EXCEPT !.order = order] \in Builders /\ [builder EXCEPT !.order = order].nodes = builder.nodes
      BY <1>1 DEF ChainType, Builders
    <2> QED BY <1>8, <1>9, <2>1 DEF orderBy
  <1>10. ASSUME NEW n \in Counts, limit(n) PROVE QueryInv'
    <2>1. [builder EXCEPT !.limit = n] \in Builders /\ [builder EXCEPT !.limit = n].nodes = builder.nodes
      BY <1>1, InputAssumption DEF ChainType, Builders
    <2> QED BY <1>8, <1>10, <2>1 DEF limit
  <1>11. ASSUME NEW n \in Counts, offset(n) PROVE QueryInv'
    <2>1. [builder EXCEPT !.offset = n] \in Builders /\ [builder EXCEPT !.offset = n].nodes = builder.nodes
      BY <1>1, InputAssumption DEF ChainType, Builders
    <2> QED BY <1>8, <1>11, <2>1 DEF offset
  <1>12. ASSUME withTrashed PROVE QueryInv'
    <2>1. [builder EXCEPT !.includeTrashed = TRUE] \in Builders
          /\ [builder EXCEPT !.includeTrashed = TRUE].nodes = builder.nodes
      BY <1>1 DEF ChainType, Builders
    <2> QED BY <1>8, <1>12, <2>1 DEF withTrashed
  <1>13. ASSUME get PROVE QueryInv'
    <2>1. NodeType' /\ ChainType'
      BY <1>1, <1>13, ChainStays DEF get, Leaves
    <2>2. answer' \in Replies
      <3>1. PICK w \in Window(builder, Selects(builder)) : Answers("get", w)
        BY <1>13 DEF get
      <3>2. w \subseteq table
        BY <1>4, <3>1, WindowSubset
      <3> QED BY <1>3, <3>1, <3>2
    <2> QED BY <1>1, <1>13, <2>1, <2>2 DEF get, Leaves, QueryInv, RunType, CountType
  <1>14. ASSUME first PROVE QueryInv'
    <2>1. NodeType' /\ ChainType'
      BY <1>1, <1>14, ChainStays DEF first, Leaves
    <2>2. answer' \in Replies
      <3> DEFINE copy == [builder EXCEPT !.limit = 1]
      <3>1. PICK w \in Window(copy, Selects(copy)) : Answers("first", w)
        BY <1>14 DEF first
      <3> HIDE DEF copy
      <3>2. w \subseteq table
        BY <1>4, <3>1, WindowSubset
      <3> QED BY <1>3, <3>1, <3>2
    <2> QED BY <1>1, <1>14, <2>1, <2>2 DEF first, Leaves, QueryInv, RunType, CountType
  <1>15. ASSUME count PROVE QueryInv'
    <2>1. NodeType' /\ ChainType'
      BY <1>1, <1>15, ChainStays DEF count, Leaves
    <2>2. answer' \in Replies
      BY <1>3, <1>4, <1>15 DEF count
    <2> QED BY <1>1, <1>15, <2>1, <2>2 DEF count, Leaves, QueryInv, RunType, CountType
  <1>16. ASSUME delete PROVE QueryInv'
    <2>1. NodeType' /\ ChainType'
      BY <1>1, <1>16, ChainStays DEF delete
    <2>2. answer' \in Replies
      BY <1>3, <1>4, <1>16 DEF delete
    <2>3. table' \in SUBSET AllRows
      BY <1>1, <1>16 DEF delete, RunType
    <2> QED BY <1>1, <1>16, <2>1, <2>2, <2>3 DEF delete, QueryInv, RunType, CountType
  <1>17. ASSUME NEW p \in Pages, paginate(p) PROVE QueryInv'
    <2>1. NodeType' /\ ChainType'
      BY <1>1, <1>17, ChainStays DEF paginate
    <2>2. call' \in Calls
      <3>1. p.page \in Int /\ p.perPage \in Int
        BY InputAssumption
      <3>2. safePage(p.page) \in Nat /\ safePerPage(p.perPage) \in 0 .. MaxPerPage
        BY <3>1, PagesType, QueriesAssumption
      <3> QED BY <1>17, <3>2 DEF paginate, Calls
    <2> QED BY <1>1, <1>17, <2>1, <2>2 DEF paginate, QueryInv, RunType, CountType
  <1>18. ASSUME PageReads PROVE QueryInv'
    <2>1. NodeType' /\ ChainType'
      BY <1>1, <1>18, ChainStays DEF PageReads
    <2>2. answer' \in Replies
      <3> DEFINE b == PageOf(builder, call.page, call.perPage)
      <3>1. PICK w \in Window(b, Selects(b)) : Answers("paginate", w)
        BY <1>18 DEF PageReads
      <3> HIDE DEF b
      <3>2. w \subseteq table
        BY <1>4, <3>1, WindowSubset
      <3> QED BY <1>3, <3>1, <3>2
    <2> QED BY <1>1, <1>2, <1>18, <2>1, <2>2 DEF PageReads, QueryInv, RunType, CountType
  <1>19. ASSUME PageFails PROVE QueryInv'
    <2>1. NodeType' /\ ChainType'
      BY <1>1, <1>19, ChainStays DEF PageFails
    <2> QED BY <1>1, <1>2, <1>19, <2>1 DEF PageFails, QueryInv, RunType, CountType
  <1>20. ASSUME NEW r \in AllRows, Others(r) PROVE QueryInv'
    <2>1. NodeType' /\ ChainType'
      BY <1>1, <1>20, ChainStays DEF Others
    <2>2. table' \in SUBSET AllRows
      BY <1>1, <1>20 DEF Others, RunType
    <2> QED BY <1>1, <1>20, <2>1, <2>2 DEF Others, QueryInv, RunType, CountType
  <1>21. CASE UNCHANGED vars
    <2>1. NodeType' /\ ChainType'
      BY <1>1, <1>21, ChainStays DEF vars
    <2> QED BY <1>1, <1>21, <2>1 DEF vars, QueryInv, RunType, CountType
  <1> QED BY <1>5, <1>6, <1>7, <1>9, <1>10, <1>11, <1>12, <1>13, <1>14, <1>15, <1>16, <1>17, <1>18,
             <1>19, <1>20, <1>21 DEF Next

LEMMA Invariant == Spec => []QueryInv
  BY InitInv, StepInv, PTL DEF Spec

-----------------------------------------------------------------------------
(* What is sent is what was asked for. *)

LEMMA BuilderIsBuilder ==
    ASSUME QueryInv
    PROVE  NodesOK /\ IsBuilder(builder)
  BY DEF QueryInv, NodeType, ChainType, IsBuilder, Builders

LEMMA SelectsAsked ==
    ASSUME QueryInv, NEW b, IsBuilder(b)
    PROVE  /\ Selects(b) = table \cap Asked(b)
           /\ scoped(b) => \A r \in Selects(b) : r["deleted_at"] = 0
  <1>1. NodesOK /\ table \in SUBSET AllRows
    BY BuilderIsBuilder DEF QueryInv, RunType
  <1>2. \A r \in table : Reads(buildWhere(b), r) <=> r \in Asked(b)
    BY <1>1, BuilderReads
  <1>3. Selects(b) = table \cap Asked(b)
    BY <1>2 DEF Selects
  <1>4. scoped(b) => \A r \in Asked(b) : r["deleted_at"] = 0
    BY DEF Asked
  <1> QED BY <1>3, <1>4

\* The clause that is sent selects exactly the rows that the chain asks for, and
\* its markers stand in the order of their values, whatever conditions, groups
\* and scope the chain has.
THEOREM CompiledCorrect == Spec => []CompiledAsAsked
  <1>1. QueryInv => CompiledAsAsked
    <2> SUFFICES ASSUME QueryInv
                 PROVE  MarkersInOrder /\ {r \in AllRows : Reads(buildWhere(builder), r)} = Asked(builder)
      BY DEF CompiledAsAsked
    <2>1. NodesOK /\ IsBuilder(builder)
      BY BuilderIsBuilder
    <2>2. \A r \in AllRows : Reads(buildWhere(builder), r) <=> r \in Asked(builder)
      BY <2>1, BuilderReads
    <2>3. Asked(builder) \subseteq AllRows
      BY DEF Asked, Asks
    <2> QED BY <2>1, <2>2, <2>3, MarkersAreOrdered
  <1> QED BY <1>1, Invariant, PTL

\* A call that leaves the builder's scope, and sets no answer.
LEMMA ScopeStays ==
    ASSUME ScopeHolds, scoped(builder)' = scoped(builder), answer' = answer \/ answer' = NoAnswer
    PROVE  ScopeHolds'
  BY DEF ScopeHolds

LEMMA ScopeStep == QueryInv /\ ScopeHolds /\ [Next]_vars => ScopeHolds'
  <1> SUFFICES ASSUME QueryInv, ScopeHolds, [Next]_vars PROVE ScopeHolds'
    OBVIOUS
  <1>1. IsBuilder(builder) /\ builder \in Builders
    BY BuilderIsBuilder DEF QueryInv, ChainType
  <1>2. ASSUME NEW op, NEW rows, Answers(op, rows), builder' = builder,
               NEW b, IsBuilder(b), scoped(b) = scoped(builder), rows \subseteq Selects(b)
        PROVE  ScopeHolds'
    <2>1. scoped(b) => \A r \in Selects(b) : r["deleted_at"] = 0
      BY <1>2, SelectsAsked
    <2>2. answer'.rows = rows /\ scoped(builder)' = scoped(builder)
      BY <1>2 DEF Answers, scoped
    <2> QED BY <1>2, <2>1, <2>2 DEF ScopeHolds
  <1>3. ASSUME answer' = NoAnswer PROVE ScopeHolds'
    BY <1>3 DEF ScopeHolds
  <1>4. ASSUME GroupEnds PROVE ScopeHolds'
    <2>1. PICK new, open : push(new, open)
      BY <1>4 DEF GroupEnds
    <2>2. scoped(builder)' = scoped(builder)
      <3>1. builder' = builder \/ builder' = [builder EXCEPT !.nodes = Append(@, Len(node) + 1)]
        BY <2>1 DEF push
      <3>2. builder'.softScope = builder.softScope /\ builder'.includeTrashed = builder.includeTrashed
        BY <1>1, <3>1 DEF Builders
      <3> QED BY <3>2 DEF scoped
    <2> QED BY <1>4, <2>2, ScopeStays DEF GroupEnds
  <1>5. ASSUME get PROVE ScopeHolds'
    <2>1. PICK w \in Window(builder, Selects(builder)) : Answers("get", w)
      BY <1>5 DEF get
    <2> QED BY <1>1, <1>2, <1>5, <2>1, WindowSubset DEF get, Leaves
  <1>6. ASSUME first PROVE ScopeHolds'
    <2> DEFINE copy == [builder EXCEPT !.limit = 1]
    <2>1. PICK w \in Window(copy, Selects(copy)) : Answers("first", w)
      BY <1>6 DEF first
    <2>2. IsBuilder(copy) /\ scoped(copy) = scoped(builder)
      BY <1>1 DEF Builders, IsBuilder, scoped
    <2>3. builder' = builder
      BY <1>6 DEF first, Leaves
    <2> HIDE DEF copy
    <2> QED BY <1>2, <2>1, <2>2, <2>3, WindowSubset
  <1>7. ASSUME count PROVE ScopeHolds'
    BY <1>1, <1>2, <1>7 DEF count, Leaves
  <1>8. ASSUME delete PROVE ScopeHolds'
    BY <1>1, <1>2, <1>8 DEF delete
  <1>9. ASSUME PageReads PROVE ScopeHolds'
    <2> DEFINE b == PageOf(builder, call.page, call.perPage)
    <2>1. PICK w \in Window(b, Selects(b)) : Answers("paginate", w)
      BY <1>9 DEF PageReads
    <2>2. IsBuilder(b) /\ scoped(b) = scoped(builder)
      BY <1>1 DEF Builders, IsBuilder, scoped, PageOf
    <2>3. builder' = builder
      BY <1>9 DEF PageReads
    <2> HIDE DEF b
    <2> QED BY <1>2, <2>1, <2>2, <2>3, WindowSubset
  <1>10. ASSUME NEW boolean \in {"AND", "OR"}, NEW test \in Tests, where(boolean, test)
         PROVE  ScopeHolds'
    BY <1>3, <1>10 DEF where, Chains, Changes
  <1>11. ASSUME NEW boolean \in {"AND", "OR"}, whereGroup(boolean) PROVE ScopeHolds'
    BY <1>3, <1>11 DEF whereGroup, Changes
  <1>12. ASSUME NEW b, Shapes(b) PROVE ScopeHolds'
    BY <1>3, <1>12 DEF Shapes, Chains, Changes
  <1>13. /\ \A order \in Orders : orderBy(order) => ScopeHolds'
         /\ \A n \in Counts : limit(n) \/ offset(n) => ScopeHolds'
         /\ withTrashed => ScopeHolds'
    BY <1>12 DEF orderBy, limit, offset, withTrashed
  <1>14. ASSUME builder' = builder, answer' = answer PROVE ScopeHolds'
    BY <1>14, ScopeStays DEF scoped
  <1>15. /\ \A p \in Pages : paginate(p) => ScopeHolds'
         /\ PageFails => ScopeHolds'
         /\ \A r \in AllRows : Others(r) => ScopeHolds'
         /\ UNCHANGED vars => ScopeHolds'
    BY <1>14 DEF paginate, PageFails, Others, vars
  <1> QED BY <1>4, <1>5, <1>6, <1>7, <1>8, <1>9, <1>10, <1>11, <1>13, <1>15 DEF Next

\* A runner of a scoped builder returns and removes no trashed row, whatever
\* ORs and groups stand in the chain.
THEOREM ScopeCorrect == Spec => []ScopeHolds
  <1>1. Init => ScopeHolds
    BY DEF Init, ScopeHolds
  <1> QED BY <1>1, ScopeStep, Invariant, PTL DEF Spec

\* A runner leaves the builder as the chain made it, and only a delete() the
\* table changed: by the rows that the chain asks for.
THEOREM RunnersCorrect == Spec => RunnersKeepTheBuilder
  <1> DEFINE A == answer' # answer /\ answer' # NoAnswer =>
                     /\ builder' = builder
                     /\ table' = IF answer'.op = "delete" THEN table \ Asked(builder) ELSE table
  <1>1. QueryInv /\ [Next]_vars => [A]_vars
    <2> SUFFICES ASSUME QueryInv, Next, answer' # answer, answer' # NoAnswer
                 PROVE  /\ builder' = builder
                        /\ table' = IF answer'.op = "delete" THEN table \ Asked(builder) ELSE table
      OBVIOUS
    <2>1. \A op, rows : Answers(op, rows) => answer'.op = op
      BY DEF Answers
    <2>2. ASSUME get PROVE A
      <3>1. answer'.op = "get"
        BY <2>1, <2>2 DEF get
      <3> QED BY <2>2, <3>1 DEF get, Leaves
    <2>3. ASSUME first PROVE A
      <3>1. answer'.op = "first"
        BY <2>1, <2>3 DEF first
      <3> QED BY <2>3, <3>1 DEF first, Leaves
    <2>4. ASSUME count PROVE A
      <3>1. answer'.op = "count"
        BY <2>1, <2>4 DEF count
      <3> QED BY <2>4, <3>1 DEF count, Leaves
    <2>5. ASSUME PageReads PROVE A
      <3>1. answer'.op = "paginate"
        BY <2>1, <2>5 DEF PageReads
      <3> QED BY <2>5, <3>1 DEF PageReads
    <2>6. ASSUME delete PROVE A
      <3>1. answer'.op = "delete" /\ builder' = builder /\ table' = table \ Selects(builder)
        BY <2>1, <2>6 DEF delete
      <3>2. Selects(builder) = table \cap Asked(builder)
        BY BuilderIsBuilder, SelectsAsked
      <3>3. table' = table \ Asked(builder)
        BY <3>1, <3>2
      <3> QED BY <3>1, <3>3
    <2>7. /\ \A boolean \in {"AND", "OR"} : \A test \in Tests : ~ where(boolean, test)
          /\ \A boolean \in {"AND", "OR"} : ~ whereGroup(boolean)
          /\ ~ GroupEnds /\ (\A order \in Orders : ~ orderBy(order))
          /\ \A n \in Counts : ~ limit(n) /\ ~ offset(n)
          /\ ~ withTrashed /\ (\A p \in Pages : ~ paginate(p)) /\ ~ PageFails /\ \A r \in AllRows : ~ Others(r)
      BY DEF where, whereGroup, GroupEnds, orderBy, limit, offset, withTrashed, Shapes, Chains, Changes,
             paginate, PageFails, Others
    <2>8. get \/ first \/ count \/ delete \/ PageReads
      BY <2>7 DEF Next
    <2> HIDE DEF A
    <2>9. A
      BY <2>2, <2>3, <2>4, <2>5, <2>6, <2>8
    <2> QED BY <2>9 DEF A
  <1> QED BY <1>1, Invariant, PTL DEF Spec, RunnersKeepTheBuilder

-----------------------------------------------------------------------------
(* Pages, ordered by a unique key. *)

ById == [column : {"id"}, down : BOOLEAN]
Ahead(order, q, r) == IF order.down THEN q["id"] > r["id"] ELSE q["id"] < r["id"]
AllAhead(order, S, q) == {r \in S : Ahead(order, r, q)}
\* The place of a row among S, counted from 0, and the first k places.
Place(order, S, q) == Cardinality(AllAhead(order, S, q))
FirstPlaces(order, S, k) == {q \in S : Place(order, S, q) < k}

LEMMA AheadIsOrder ==
    ASSUME NEW order \in ById, NEW q \in AllRows, NEW r \in AllRows
    PROVE  /\ q # r => Ahead(order, q, r) \/ Ahead(order, r, q)
           /\ ~ Ahead(order, q, q)
           /\ Ahead(order, q, r) => ~ Ahead(order, r, q)
           /\ \A s \in AllRows : Ahead(order, q, r) /\ Ahead(order, r, s) => Ahead(order, q, s)
           /\ NotAfter(order, q, r) <=> ~ Ahead(order, r, q)
  <1>1. \A s \in AllRows : s["id"] \in Int
    <2>1. AllRows \subseteq [Columns -> Int] /\ "id" \in Columns
      BY QueriesAssumption DEF Rows, Columns
    <2> QED BY <2>1
  <1>2. q # r => q["id"] # r["id"]
    BY QueriesAssumption
  <1>3. order.column = "id" /\ order.down \in BOOLEAN /\ order # NoOrder
    BY DEF ById, NoOrder
  <1>4. NotAfter(order, q, r) <=> IF order.down THEN q["id"] >= r["id"] ELSE q["id"] <= r["id"]
    BY <1>3 DEF NotAfter
  <1> QED BY <1>1, <1>2, <1>3, <1>4 DEF Ahead

LEMMA Places ==
    ASSUME NEW order \in ById, NEW S \in SUBSET AllRows
    PROVE  /\ IsFiniteSet(S) /\ Cardinality(S) \in Nat
           /\ \A q \in S : Place(order, S, q) \in 0 .. Cardinality(S) - 1
           /\ \A q, r \in S : Ahead(order, q, r) <=> Place(order, S, q) < Place(order, S, r)
           /\ \A k \in 0 .. Cardinality(S) - 1 : \E q \in S : Place(order, S, q) = k
  <1> DEFINE N == Cardinality(S)
             before(q) == AllAhead(order, S, q)
             P == [q \in S |-> Place(order, S, q)]
  <1>1. IsFiniteSet(S) /\ N \in Nat
    BY QueriesAssumption, FS_Subset, FS_CardinalityType
  <1>2. ASSUME NEW q \in S PROVE IsFiniteSet(before(q)) /\ Place(order, S, q) \in 0 .. N - 1
    <2>1. before(q) \in SUBSET (S \ {q})
      BY AheadIsOrder DEF AllAhead
    <2>2. IsFiniteSet(S \ {q}) /\ Cardinality(S \ {q}) = N - 1
      BY <1>1, FS_RemoveElement
    <2>3. IsFiniteSet(before(q)) /\ Cardinality(before(q)) <= N - 1
      <3> HIDE DEF before, N
      <3> QED BY <2>1, <2>2, FS_Subset
    <2>4. Cardinality(before(q)) \in Nat
      BY <2>3, FS_CardinalityType
    <2> QED BY <1>1, <2>3, <2>4 DEF Place
  <1>3. ASSUME NEW q \in S, NEW r \in S, Ahead(order, q, r) PROVE Place(order, S, q) < Place(order, S, r)
    <2>1. before(q) \in SUBSET before(r) /\ q \in before(r) /\ q \notin before(q)
      BY <1>3, AheadIsOrder DEF AllAhead
    <2>2. IsFiniteSet(before(q)) /\ IsFiniteSet(before(r))
      BY <1>2
    <2>3. Cardinality(before(q)) <= Cardinality(before(r)) /\ Cardinality(before(q)) # Cardinality(before(r))
      <3> HIDE DEF before
      <3> QED BY <2>1, <2>2, FS_Subset
    <2>4. Place(order, S, q) = Cardinality(before(q)) /\ Place(order, S, r) = Cardinality(before(r))
      BY DEF Place
    <2>5. Place(order, S, q) \in Int /\ Place(order, S, r) \in Int
      BY <1>1, <1>2
    <2> HIDE DEF before
    <2> QED BY <2>3, <2>4, <2>5
  <1>4. ASSUME NEW q \in S, NEW r \in S PROVE Ahead(order, q, r) <=> Place(order, S, q) < Place(order, S, r)
    <2>1. q = r \/ Ahead(order, q, r) \/ Ahead(order, r, q)
      BY AheadIsOrder
    <2>2. Ahead(order, r, q) => ~ Ahead(order, q, r)
      BY AheadIsOrder
    <2>3. ~ Ahead(order, q, q)
      BY AheadIsOrder
    <2>4. Place(order, S, q) \in Int /\ Place(order, S, r) \in Int
      BY <1>1, <1>2
    <2> QED BY <1>3, <2>1, <2>2, <2>3, <2>4
  <1>5. \A q, r \in S : Place(order, S, q) = Place(order, S, r) => q = r
    <2> SUFFICES ASSUME NEW q \in S, NEW r \in S, Place(order, S, q) = Place(order, S, r), q # r PROVE FALSE
      OBVIOUS
    <2>1. Ahead(order, q, r) \/ Ahead(order, r, q)
      BY AheadIsOrder
    <2>2. Place(order, S, q) \in Int
      BY <1>1, <1>2
    <2> QED BY <1>3, <2>1, <2>2
  <1>6. P \in Injection(S, 0 .. N - 1)
    <2>1. P \in [S -> 0 .. N - 1]
      BY <1>2
    <2>2. \A q, r \in S : P[q] = P[r] => q = r
      BY <1>5
    <2> HIDE DEF P, N
    <2> QED BY <2>1, <2>2 DEF Injection, IsInjective
  <1>7. P \in Surjection(S, 0 .. N - 1)
    <2>1. IsFiniteSet(0 .. N - 1) /\ Cardinality(0 .. N - 1) = N
      <3>1. 0 \in Int /\ N - 1 \in Int
        BY <1>1
      <3>2. IsFiniteSet(0 .. N - 1) /\ Cardinality(0 .. N - 1) = IF 0 > N - 1 THEN 0 ELSE (N - 1) - 0 + 1
        <4> HIDE DEF N
        <4> QED BY <3>1, FS_Interval
      <3> HIDE DEF N
      <3> QED BY <1>1, <3>2
    <2>2. Cardinality(S) = N
      OBVIOUS
    <2> HIDE DEF P, N
    <2> QED BY <1>6, <2>1, <2>2, FS_Injection
  <1>8. \A k \in 0 .. N - 1 : \E q \in S : P[q] = k
    <2> HIDE DEF P, N
    <2> QED BY <1>7 DEF Surjection
  <1>9. \A k \in 0 .. N - 1 : \E q \in S : Place(order, S, q) = k
    BY <1>8
  <1> QED BY <1>1, <1>2, <1>4, <1>9

LEMMA FirstPlacesCount ==
    ASSUME NEW order \in ById, NEW S \in SUBSET AllRows, NEW k \in Nat
    PROVE  Cardinality(FirstPlaces(order, S, k)) = Least(k, Cardinality(S))
  <1> DEFINE N == Cardinality(S)
             m == Least(k, N)
             F == FirstPlaces(order, S, k)
             P == [q \in F |-> Place(order, S, q)]
  <1>1. IsFiniteSet(S) /\ N \in Nat
    BY Places
  <1>2. m \in Nat /\ m <= N /\ m <= k /\ (m = N \/ m = k)
    BY <1>1 DEF Least
  <1>3. \A q \in S : Place(order, S, q) \in 0 .. N - 1
    BY Places
  <1>4. \A j \in 0 .. N - 1 : \E q \in S : Place(order, S, q) = j
    BY Places
  <1>5. \A q, r \in S : Place(order, S, q) = Place(order, S, r) => q = r
    <2> SUFFICES ASSUME NEW q \in S, NEW r \in S, Place(order, S, q) = Place(order, S, r), q # r PROVE FALSE
      OBVIOUS
    <2>1. Ahead(order, q, r) \/ Ahead(order, r, q)
      BY AheadIsOrder
    <2>2. Place(order, S, q) < Place(order, S, r) \/ Place(order, S, r) < Place(order, S, q)
      BY <2>1, Places
    <2> QED BY <1>1, <1>3, <2>2
  <1> HIDE DEF N, m
  <1>6. P \in Bijection(F, 0 .. m - 1)
    <2>1. \A q \in F : q \in S /\ Place(order, S, q) \in 0 .. m - 1
      BY <1>1, <1>2, <1>3 DEF FirstPlaces
    <2>2. P \in [F -> 0 .. m - 1]
      BY <2>1
    <2>3. \A q, r \in F : P[q] = P[r] => q = r
      BY <1>5, <2>1
    <2>4. ASSUME NEW j \in 0 .. m - 1 PROVE \E q \in F : P[q] = j
      <3>1. j \in 0 .. N - 1 /\ j < k
        BY <1>1, <1>2
      <3>2. PICK q \in S : Place(order, S, q) = j
        BY <1>4, <3>1
      <3>3. q \in F
        BY <3>1, <3>2 DEF FirstPlaces
      <3> QED BY <3>2, <3>3
    <2> HIDE DEF P, F
    <2> QED BY <2>2, <2>3, <2>4 DEF Bijection, Injection, IsInjective, Surjection
  <1>7. F \in SUBSET S
    BY DEF FirstPlaces
  <1>8. IsFiniteSet(F)
    BY <1>1, <1>7, FS_Subset
  <1>9. Cardinality(0 .. m - 1) = Cardinality(F)
    <2>1. ExistsBijection(F, 0 .. m - 1)
      <3> HIDE DEF P, F
      <3> QED BY <1>6 DEF ExistsBijection
    <2> HIDE DEF F
    <2> QED BY <1>8, <2>1, FS_Bijection
  <1>10. Cardinality(0 .. m - 1) = m
    <2>1. 0 \in Int /\ m - 1 \in Int
      BY <1>2
    <2>2. Cardinality(0 .. m - 1) = IF 0 > m - 1 THEN 0 ELSE (m - 1) - 0 + 1
      BY <2>1, FS_Interval
    <2> QED BY <1>2, <2>2
  <1> QED BY <1>9, <1>10 DEF m, N

\* The only set of k rows that may come before the others.
LEMMA OneHead ==
    ASSUME NEW order \in ById, NEW S \in SUBSET AllRows, NEW k \in Nat
    PROVE  Heads(k, S, order) = {FirstPlaces(order, S, k)}
  <1> DEFINE F == FirstPlaces(order, S, k)
  <1>1. F \in SUBSET S /\ IsFiniteSet(S)
    BY Places DEF FirstPlaces
  <1>2. Cardinality(F) = Least(k, Cardinality(S))
    BY FirstPlacesCount
  <1>3. \A q \in S : Place(order, S, q) \in Nat
    <2>1. \A q \in S : Place(order, S, q) \in 0 .. Cardinality(S) - 1
      BY Places
    <2> QED BY <2>1
  <1>4. ASSUME NEW q \in S, NEW r \in S, q \in F, r \notin F PROVE Ahead(order, q, r)
    <2>1. Place(order, S, q) < k /\ ~ (Place(order, S, r) < k)
      BY <1>4 DEF FirstPlaces
    <2>2. Place(order, S, q) < Place(order, S, r)
      BY <1>3, <2>1
    <2> QED BY <2>2, Places
  <1> HIDE DEF F
  <1>5. F \in Heads(k, S, order)
    <2>1. \A q \in F, r \in S \ F : NotAfter(order, q, r)
      BY <1>1, <1>4, AheadIsOrder
    <2> QED BY <1>1, <1>2, <2>1 DEF Heads, kSubset
  <1>6. ASSUME NEW h \in Heads(k, S, order) PROVE h = F
    <2>1. h \in SUBSET S /\ Cardinality(h) = Cardinality(F) /\ \A q \in h, r \in S \ h : NotAfter(order, q, r)
      BY <1>2 DEF Heads, kSubset
    <2>2. IsFiniteSet(h) /\ IsFiniteSet(F)
      BY <1>1, <2>1, FS_Subset
    <2>3. h \subseteq F => h = F
      BY <2>1, <2>2, FS_Subset
    <2>4. F \subseteq h => h = F
      BY <2>1, <2>2, FS_Subset
    <2> SUFFICES ASSUME h # F PROVE FALSE
      OBVIOUS
    <2>5. PICK q \in h : q \notin F
      BY <2>3
    <2>6. PICK r \in F : r \notin h
      BY <2>4
    <2>7. q \in S /\ r \in S /\ NotAfter(order, q, r) /\ Ahead(order, r, q)
      BY <1>1, <1>4, <2>1, <2>5, <2>6
    <2> QED BY <2>7, AheadIsOrder
  <1> QED BY <1>5, <1>6 DEF F

\* The next k rows after the first j.
LEMMA NextHead ==
    ASSUME NEW order \in ById, NEW S \in SUBSET AllRows, NEW j \in Nat, NEW k \in Nat
    PROVE  Heads(k, S \ FirstPlaces(order, S, j), order) =
               {FirstPlaces(order, S, j + k) \ FirstPlaces(order, S, j)}
  <1> DEFINE F == FirstPlaces(order, S, j)
             R == S \ F
             G == FirstPlaces(order, R, k)
             N == Cardinality(S)
  <1>1. IsFiniteSet(S) /\ N \in Nat /\ F \in SUBSET S /\ R \in SUBSET AllRows /\ G \in SUBSET R
    BY Places DEF FirstPlaces
  <1>2. Heads(k, R, order) = {G} /\ Heads(j, S, order) = {F} /\ Heads(j + k, S, order) = {FirstPlaces(order, S, j + k)}
    <2>1. j + k \in Nat
      OBVIOUS
    <2> HIDE DEF F, R
    <2> QED BY <1>1, <2>1, OneHead DEF F
  <1>3. Cardinality(F) = Least(j, N) /\ Cardinality(G) = Least(k, Cardinality(R))
    <2> HIDE DEF R
    <2> QED BY <1>1, FirstPlacesCount
  <1> HIDE DEF F, R, G, N
  <1>4. IsFiniteSet(F) /\ IsFiniteSet(R) /\ IsFiniteSet(G) /\ F \cap R = {} /\ F \cup R = S /\ F \cap G = {}
    <2>1. R \in SUBSET S /\ F \cap R = {} /\ F \cup R = S
      BY <1>1 DEF R
    <2>2. F \cap G = {}
      BY <1>1, <2>1
    <2> QED BY <1>1, <2>1, <2>2, FS_Subset
  <1>5. Cardinality(R) = N - Least(j, N)
    <2>1. Cardinality(F \cup R) = Cardinality(F) + Cardinality(R) - Cardinality(F \cap R)
      BY <1>4, FS_Union
    <2>2. Cardinality(F \cap R) = 0 /\ Cardinality(F \cup R) = N
      BY <1>4, FS_EmptySet DEF N
    <2>3. Cardinality(F) \in Nat /\ Cardinality(R) \in Nat
      BY <1>4, FS_CardinalityType
    <2> QED BY <1>1, <1>3, <2>1, <2>2, <2>3
  <1>6. Cardinality(F \cup G) = Least(j + k, N)
    <2>1. Cardinality(F \cup G) = Cardinality(F) + Cardinality(G) - Cardinality(F \cap G)
      BY <1>4, FS_Union
    <2>2. Cardinality(F \cap G) = 0
      BY <1>4, FS_EmptySet
    <2>3. Cardinality(F \cup G) = Least(j, N) + Least(k, N - Least(j, N))
      <3>1. Cardinality(F) \in Nat /\ Cardinality(G) \in Nat
        BY <1>4, FS_CardinalityType
      <3> QED BY <1>3, <1>5, <2>1, <2>2, <3>1
    <2> QED BY <1>1, <2>3 DEF Least
  <1>7. F \cup G \in Heads(j + k, S, order)
    <2>1. F \in Heads(j, S, order) /\ G \in Heads(k, R, order)
      BY <1>2
    <2>2. \A q \in F \cup G, r \in S \ (F \cup G) : NotAfter(order, q, r)
      <3>1. \A q \in F, r \in S \ F : NotAfter(order, q, r)
        BY <2>1 DEF Heads
      <3>2. \A q \in G, r \in R \ G : NotAfter(order, q, r)
        BY <2>1 DEF Heads
      <3> QED BY <3>1, <3>2 DEF R
    <2>3. F \cup G \in SUBSET S
      BY <1>1, <1>4
    <2> QED BY <1>6, <2>2, <2>3 DEF Heads, kSubset, N
  <1>8. F \cup G = FirstPlaces(order, S, j + k)
    BY <1>2, <1>7
  <1>9. G = FirstPlaces(order, S, j + k) \ F
    BY <1>4, <1>8
  <1> QED BY <1>2, <1>9 DEF F, R

\* A page holds the rows in its places.
LEMMA PageIs ==
    ASSUME NEW b \in Builders, b.order \in ById, NEW S \in SUBSET AllRows, NEW n \in Nat \ {0},
           NEW size \in Nat \ {0}
    PROVE  /\ (n - 1) * size \in Nat /\ n * size \in Nat
           /\ UNION Window(PageOf(b, n, size), S) =
                {q \in S : (n - 1) * size <= Place(b.order, S, q) /\ Place(b.order, S, q) < n * size}
           /\ Cardinality(UNION Window(PageOf(b, n, size), S)) <= size
  <1> DEFINE order == b.order
             page == PageOf(b, n, size)
             start == (n - 1) * size
             F == FirstPlaces(order, S, start)
             H == FirstPlaces(order, S, n * size) \ F
  <1>1. start \in Nat /\ n * size \in Nat /\ start + size = n * size
    <2>1. n - 1 \in Nat /\ size \in Nat
      OBVIOUS
    <2>2. start + size = n * size
      BY <2>1
    <2> QED BY <2>1, <2>2
  <1>2. page.limit = size /\ page.offset = start /\ page.order = order
    BY DEF PageOf, Builders
  <1> HIDE DEF page, order
  <1>3. order \in ById
    BY DEF order
  <1> DEFINE End == n * size
  <1> HIDE DEF start
  <1>4. Heads(start, S, order) = {F}
    BY <1>1, <1>3, OneHead
  <1>5. Heads(size, S \ F, order) = {FirstPlaces(order, S, start + size) \ F}
    BY <1>1, <1>3, NextHead
  <1>6. Heads(size, S \ F, order) = {H}
    <2>1. start + size = End
      BY <1>1
    <2> HIDE DEF F, End
    <2> QED BY <1>5, <2>1 DEF End
  <1> HIDE DEF F, H
  <1>7. Window(page, S) = {H}
    <2>1. ~ Unlimited(page.limit) /\ ~ Unlimited(page.offset)
      BY <1>1, <1>2 DEF Unlimited
    <2>2. Window(page, S) = UNION {Heads(size, S \ h, order) : h \in Heads(start, S, order)}
      BY <1>2, <2>1 DEF Window
    <2>3. {Heads(size, S \ h, order) : h \in {F}} = {Heads(size, S \ F, order)}
      OBVIOUS
    <2> QED BY <1>4, <1>6, <2>2, <2>3
  <1>8. UNION Window(page, S) = H
    BY <1>7
  <1>9. \A q \in S : Place(order, S, q) \in Int
    <2>1. /\ \A q \in S : Place(order, S, q) \in 0 .. Cardinality(S) - 1
          /\ Cardinality(S) \in Nat
      BY <1>3, Places
    <2> QED BY <2>1
  <1>10. H = {q \in S : start <= Place(order, S, q) /\ Place(order, S, q) < End}
    <2>1. End \in Int
      BY <1>1
    <2> HIDE DEF End
    <2>2. H = FirstPlaces(order, S, End) \ FirstPlaces(order, S, start)
      BY DEF H, F, End
    <2>3. H = {q \in S : Place(order, S, q) < End /\ ~ (Place(order, S, q) < start)}
      BY <2>2 DEF FirstPlaces
    <2>4. \A q \in S : ~ (Place(order, S, q) < start) <=> start <= Place(order, S, q)
      BY <1>1, <1>9
    <2> QED BY <2>3, <2>4
  <1>11. Cardinality(H) <= size
    <2>1. H \in Heads(size, S \ F, order)
      BY <1>6
    <2>2. Cardinality(H) = Least(size, Cardinality(S \ F))
      BY <2>1 DEF Heads, kSubset
    <2>3. Cardinality(S \ F) \in Nat
      <3>1. S \ F \in SUBSET AllRows
        OBVIOUS
      <3> QED BY <1>3, <3>1, Places
    <2> QED BY <2>2, <2>3 DEF Least
  <1> QED BY <1>1, <1>8, <1>10, <1>11 DEF page, order, start

\* Which page a place is on.
LEMMA PageNumbers ==
    ASSUME NEW N \in Nat, NEW size \in Nat \ {0}
    PROVE  /\ lastPage(N, size) \in Nat
           /\ \A r \in 0 .. N - 1 : \E n \in 1 .. lastPage(N, size) : (n - 1) * size <= r /\ r < n * size
           /\ \A n \in 1 .. lastPage(N, size) : (n - 1) * size \in 0 .. N - 1
           /\ \A m, n \in Nat : m < n => m * size <= (n - 1) * size
  <1> DEFINE T == N + size - 1
             last == lastPage(N, size)
  <1>1. T \in Nat /\ last = T \div size
    BY DEF lastPage
  <1>2. last \in Nat /\ last * size <= T /\ T < (last + 1) * size
    <2>1. \A t \in Nat : t \div size \in Nat /\ (t \div size) * size <= t /\ t < ((t \div size) + 1) * size
      OBVIOUS
    <2> HIDE DEF T, last
    <2> QED BY <1>1, <2>1
  <1> HIDE DEF last
  <1>3. ASSUME NEW r \in 0 .. N - 1
        PROVE  \E n \in 1 .. last : (n - 1) * size <= r /\ r < n * size
    <2> DEFINE d == r \div size
    <2>1. d \in Nat /\ d * size <= r /\ r < (d + 1) * size
      OBVIOUS
    <2> HIDE DEF d
    <2>2. d < last
      <3> SUFFICES ASSUME last <= d PROVE FALSE
        BY <1>2, <2>1
      <3>1. last * size <= d * size
        BY <1>2, <2>1
      <3>2. (last + 1) * size = last * size + size
        BY <1>2
      <3> QED BY <1>2, <2>1, <3>1, <3>2
    <2>3. d + 1 \in 1 .. last /\ (d + 1) - 1 = d
      BY <1>2, <2>1, <2>2
    <2> QED BY <2>1, <2>3
  <1>4. ASSUME NEW n \in 1 .. last PROVE (n - 1) * size \in 0 .. N - 1
    <2>1. n * size <= last * size
      BY <1>2
    <2>2. (n - 1) * size = n * size - size /\ (n - 1) * size \in Nat
      BY <1>2
    <2> QED BY <1>2, <2>1, <2>2
  <1>5. ASSUME NEW m \in Nat, NEW n \in Nat, m < n PROVE m * size <= (n - 1) * size
    <2>1. m <= n - 1 /\ n - 1 \in Nat
      BY <1>5
    <2>2. \A x, y \in Nat : x <= y => x * size <= y * size
      OBVIOUS
    <2> QED BY <2>1, <2>2
  <1> QED BY <1>2, <1>3, <1>4, <1>5 DEF last

\* Ordered by a unique key, the pages 1 to lastPage hold every selected row
\* exactly once, and none of them is empty or larger than a page may be,
\* whatever the number of rows and the size of a page.
THEOREM PagesCorrect == Spec => []PagesPartition
  <1>1. QueryInv => PagesPartition
    <2> SUFFICES ASSUME QueryInv, builder.order.column = "id", NEW p \in Pages
                 PROVE  LET rows == Selects(builder)
                            size == safePerPage(p.perPage)
                            last == lastPage(Cardinality(rows), size)
                            page(n) == UNION Window(PageOf(builder, n, size), rows)
                        IN  /\ UNION {page(n) : n \in 1 .. last} = rows
                            /\ \A m, n \in 1 .. last : m # n => page(m) \cap page(n) = {}
                            /\ \A n \in 1 .. last : page(n) # {} /\ Cardinality(page(n)) <= MaxPerPage
      BY DEF PagesPartition
    <2> DEFINE rows == Selects(builder)
               size == safePerPage(p.perPage)
               N == Cardinality(rows)
               last == lastPage(N, size)
               page(n) == UNION Window(PageOf(builder, n, size), rows)
               at(q) == Place(builder.order, rows, q)
    <2>1. builder \in Builders /\ builder.order \in ById
      <3>1. builder \in Builders
        BY DEF QueryInv, ChainType
      <3>2. builder.order \in Orders \cup {NoOrder}
        BY <3>1 DEF Builders
      <3>3. builder.order # NoOrder
        BY DEF NoOrder
      <3>4. builder.order \in [column : Columns, down : BOOLEAN]
        BY <3>2, <3>3, InputAssumption
      <3>5. builder.order \in ById
        BY <3>4 DEF ById
      <3> QED BY <3>1, <3>5
    <2>2. rows \in SUBSET AllRows
      BY DEF QueryInv, RunType, Selects
    <2>3. size \in Nat \ {0} /\ size <= MaxPerPage /\ MaxPerPage \in Nat
      <3>1. p.perPage \in Int
        BY InputAssumption
      <3>2. size \in 1 .. MaxPerPage /\ MaxPerPage \in Nat
        BY <3>1, PagesType, QueriesAssumption
      <3> HIDE DEF size
      <3> QED BY <3>2
    <2> HIDE DEF rows, size
    <2>4. /\ N \in Nat
          /\ \A q \in rows : at(q) \in 0 .. N - 1
          /\ \A k \in 0 .. N - 1 : \E q \in rows : at(q) = k
      BY <2>1, <2>2, Places
    <2>5. ASSUME NEW n \in Nat \ {0}
          PROVE  /\ (n - 1) * size \in Nat /\ n * size \in Nat
                 /\ page(n) = {q \in rows : (n - 1) * size <= at(q) /\ at(q) < n * size}
                 /\ Cardinality(page(n)) <= size
      BY <2>1, <2>2, <2>3, PageIs
    <2> HIDE DEF N, page, at
    <2>6. /\ last \in Nat
          /\ \A r \in 0 .. N - 1 : \E n \in 1 .. last : (n - 1) * size <= r /\ r < n * size
          /\ \A n \in 1 .. last : (n - 1) * size \in 0 .. N - 1
          /\ \A m, n \in Nat : m < n => m * size <= (n - 1) * size
      BY <2>3, <2>4, PageNumbers
    <2> HIDE DEF last
    <2>7. \A n \in 1 .. last : n \in Nat \ {0}
      BY <2>6
    <2>8. \A q \in rows : at(q) \in Int
      BY <2>4
    <2>9. UNION {page(n) : n \in 1 .. last} = rows
      <3>1. \A n \in 1 .. last : page(n) \subseteq rows
        BY <2>5, <2>7
      <3>2. ASSUME NEW q \in rows PROVE \E n \in 1 .. last : q \in page(n)
        <4>1. PICK n \in 1 .. last : (n - 1) * size <= at(q) /\ at(q) < n * size
          BY <2>4, <2>6
        <4>2. page(n) = {r \in rows : (n - 1) * size <= at(r) /\ at(r) < n * size}
          BY <2>5, <2>7
        <4> QED BY <4>1, <4>2
      <3> QED BY <3>1, <3>2
    <2>10. ASSUME NEW m \in 1 .. last, NEW n \in 1 .. last, m < n PROVE page(m) \cap page(n) = {}
      <3> SUFFICES ASSUME NEW q \in rows, q \in page(m), q \in page(n) PROVE FALSE
        BY <2>5, <2>7
      <3>1. at(q) < m * size /\ (n - 1) * size <= at(q)
        BY <2>5, <2>7
      <3>2. m * size <= (n - 1) * size
        BY <2>6, <2>7, <2>10
      <3>3. m * size \in Int /\ (n - 1) * size \in Int /\ at(q) \in Int
        BY <2>5, <2>7, <2>8
      <3> DEFINE x == m * size
                 y == (n - 1) * size
      <3> HIDE DEF x, y
      <3>4. at(q) < x /\ y <= at(q) /\ x <= y /\ x \in Int /\ y \in Int /\ at(q) \in Int
        BY <3>1, <3>2, <3>3 DEF x, y
      <3> QED BY <3>4
    <2>11. \A m, n \in 1 .. last : m # n => page(m) \cap page(n) = {}
      <3> SUFFICES ASSUME NEW m \in 1 .. last, NEW n \in 1 .. last, m # n PROVE page(m) \cap page(n) = {}
        OBVIOUS
      <3>1. m < n \/ n < m
        BY <2>6
      <3>2. n < m => page(n) \cap page(m) = {}
        BY <2>10
      <3> QED BY <2>10, <3>1, <3>2
    <2>12. ASSUME NEW n \in 1 .. last PROVE page(n) # {} /\ Cardinality(page(n)) <= MaxPerPage
      <3>1. PICK q \in rows : at(q) = (n - 1) * size
        BY <2>4, <2>6
      <3>2. (n - 1) * size < n * size
        <4>1. n \in Nat /\ size \in Nat \ {0}
          BY <2>3, <2>7
        <4> QED BY <4>1
      <3>3. (n - 1) * size \in Int
        BY <2>5, <2>7
      <3>4. (n - 1) * size <= at(q) /\ at(q) < n * size
        <4> DEFINE y == (n - 1) * size
        <4>1. y \in Int /\ at(q) = y /\ y < n * size
          BY <3>1, <3>2, <3>3
        <4>2. y <= at(q)
          <5> HIDE DEF y
          <5> QED BY <4>1
        <4> QED BY <4>1, <4>2
      <3>5. q \in page(n)
        <4>1. page(n) = {r \in rows : (n - 1) * size <= at(r) /\ at(r) < n * size}
          BY <2>5, <2>7
        <4> QED BY <3>4, <4>1
      <3>6. Cardinality(page(n)) <= size
        BY <2>5, <2>7
      <3>7. Cardinality(page(n)) \in Nat
        <4>1. page(n) \in SUBSET AllRows
          BY <2>2, <2>5, <2>7
        <4>2. IsFiniteSet(page(n))
          BY <4>1, QueriesAssumption, FS_Subset
        <4> QED BY <4>2, FS_CardinalityType
      <3> QED BY <2>3, <3>5, <3>6, <3>7
    <2> QED BY <2>9, <2>11, <2>12 DEF rows, size, N, last, page
  <1> QED BY <1>1, Invariant, PTL
=============================================================================
