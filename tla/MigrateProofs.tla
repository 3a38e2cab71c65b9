--------------------------- MODULE MigrateProofs ---------------------------
(***************************************************************************)
(* Theorems about Migrate, for any number of processes and migrations, any *)
(* crashes and any commands.  What is in effect follows the record as long *)
(* as a rollback runs alone (Alone).  The record also follows the order of *)
(* names when a release adds migrations only after those there are         *)
(* (Appended).                                                             *)
(***************************************************************************)
EXTENDS Migrate, FiniteSetTheorems, TLAPS

Alone    == Overlap # "any"
Appended == \A R \in Releases : \E n \in 0 .. NumMigrations : R = 1 .. n

-----------------------------------------------------------------------------
(* Minima and maxima. *)

\* A nonempty set of numbers has a least element, ...
LEMMA LeastExists ==
    ASSUME NEW S \in SUBSET Nat, S # {}
    PROVE  \E x \in S : \A y \in S : x <= y
  <1> DEFINE T == {0 .. x : x \in S}
  <1>1. T \subseteq FiniteSubsetsOf(Nat) /\ T # {}
    <2>1. ASSUME NEW x \in S PROVE IsFiniteSet(0 .. x) /\ 0 .. x \subseteq Nat
      BY FS_Interval
    <2> QED BY <2>1 DEF FiniteSubsetsOf
  <1>2. PICK I \in T : \A J \in T : ~ (<<J, I>> \in StrictSubsetOrdering(Nat))
    <2> HIDE DEF T
    <2> QED BY <1>1, FS_StrictSubsetOrderingWellFounded, WFMin
  <1>3. PICK x \in S : I = 0 .. x
    BY <1>2
  <1>4. ASSUME NEW y \in S PROVE x <= y
    <2>1. 0 .. y \subseteq I => 0 .. y = I
      <3>1. ~ (<<0 .. y, I>> \in StrictSubsetOrdering(Nat))
        BY <1>2
      <3>2. 0 .. y \in SUBSET Nat /\ I \in SUBSET Nat
        BY <1>3
      <3> QED BY <3>1, <3>2 DEF StrictSubsetOrdering
    <2>2. y < x => 0 .. y \subseteq 0 .. x /\ x \notin 0 .. y /\ x \in 0 .. x
      OBVIOUS
    <2> QED BY <1>3, <2>1, <2>2
  <1> QED BY <1>4

\* ... and, when it is bounded, a greatest one.
LEMMA GreatestExists ==
    ASSUME NEW n \in Nat, NEW S \in SUBSET (0 .. n), S # {}
    PROVE  \E x \in S : \A y \in S : y <= x
  <1> DEFINE T == {n - x : x \in S}
  <1>1. T \in SUBSET Nat /\ T # {}
    <2>1. \A x \in S : n - x \in Nat
      OBVIOUS
    <2> QED BY <2>1
  <1>2. PICK z \in T : \A y \in T : z <= y
    <2> HIDE DEF T
    <2> QED BY <1>1, LeastExists
  <1>3. PICK x \in S : z = n - x
    BY <1>2
  <1>4. ASSUME NEW y \in S PROVE y <= x
    BY <1>2, <1>3
  <1> QED BY <1>4

\* An element that bounds a set of numbers is its minimum, ...
LEMMA MinIs ==
    ASSUME NEW S \in SUBSET Int, NEW x \in S, \A y \in S : x <= y
    PROVE  Min(S) = x
  <1>1. \A z \in S : (\A y \in S : z <= y) => z = x
    OBVIOUS
  <1>2. Min(S) \in S /\ \A y \in S : Min(S) <= y
    BY DEF Min
  <1> QED BY <1>1, <1>2

\* ... or its maximum.
LEMMA MaxIs ==
    ASSUME NEW S \in SUBSET Int, NEW x \in S, \A y \in S : x >= y
    PROVE  Max(S) = x
  <1>1. \A z \in S : (\A y \in S : z >= y) => z = x
    OBVIOUS
  <1>2. Max(S) \in S /\ \A y \in S : Max(S) >= y
    BY DEF Max
  <1> QED BY <1>1, <1>2

\* What a busy run applies, or reverses, next is among what it has to do.
LEMMA NextOnes ==
    ASSUME TypeOK, NEW r \in Runners, pc[r] # "idle"
    PROVE  /\ Oldest(r) \in todo[r] /\ Oldest(r) \in Migrations
           /\ Newest(r) \in todo[r] /\ Newest(r) \in Migrations
  <1>1. /\ todo[r] # {} /\ todo[r] \subseteq Migrations
        /\ todo[r] \in SUBSET Nat /\ todo[r] \in SUBSET Int
        /\ todo[r] \in SUBSET (0 .. NumMigrations)
    BY MigrateAssumption DEF TypeOK, Migrations
  <1>2. PICK x \in todo[r] : \A y \in todo[r] : x <= y
    BY <1>1, LeastExists
  <1>3. PICK z \in todo[r] : \A y \in todo[r] : y <= z
    BY <1>1, GreatestExists, MigrateAssumption
  <1>4. Min(todo[r]) = x
    BY <1>1, <1>2, MinIs
  <1>5. \A y \in todo[r] : z >= y
    BY <1>1, <1>3
  <1>6. Max(todo[r]) = z
    BY <1>1, <1>5, MaxIs
  <1> QED BY <1>1, <1>4, <1>6 DEF Oldest, Newest

-----------------------------------------------------------------------------
(* Types, whatever overlaps and whatever the releases are.  A batch is one  *)
(* newer than those recorded when its run started, so that no batch is      *)
(* newer than the commands that ran.                                        *)

Batches ==
    /\ \A m \in Migrations : tracked[m] <= runs
    /\ \A r \in Runners : batch[r] <= runs
    /\ \A r \in Runners : pc[r] \in {"up", "record"} => batch[r] # 0

\* The latest batch bounds those recorded.
LEMMA LatestIs ==
    ASSUME TypeOK, Batches
    PROVE  Latest \in 0 .. runs /\ \A m \in Migrations : tracked[m] <= Latest
  <1> DEFINE S == {tracked[m] : m \in Migrations}
  <1>1. runs \in Nat /\ S \in SUBSET (0 .. runs) /\ S \in SUBSET Int /\ S # {}
    <2>1. runs \in Nat /\ 1 \in Migrations
      BY MigrateAssumption DEF TypeOK, Migrations
    <2>2. \A m \in Migrations : tracked[m] \in 0 .. runs
      BY <2>1, MigrateAssumption DEF TypeOK, Batches
    <2>3. S \in SUBSET (0 .. runs) /\ S # {}
      BY <2>1, <2>2
    <2> QED BY <2>1, <2>3
  <1> HIDE DEF S
  <1>2. PICK b \in S : \A y \in S : y <= b
    BY <1>1, GreatestExists
  <1>3. \A y \in S : b >= y
    BY <1>1, <1>2
  <1>4. Max(S) = b
    BY <1>1, <1>3, MaxIs
  <1>5. Latest = b
    BY <1>4 DEF Latest, S
  <1>6. \A m \in Migrations : tracked[m] \in S
    BY DEF S
  <1> QED BY <1>1, <1>2, <1>5, <1>6

\* A command that has started is alone or among migrates.
LEMMA StartAlone ==
    ASSUME Alone, TypeOK, NEW r \in Runners, NEW command, Start(r, command)
    PROVE  /\ pc[r] = "idle"
           /\ \A q \in Runners : pc[q] \notin {"down", "unrecord"}
           /\ command = "rollback" => \A q \in Runners : pc[q] = "idle"
  BY MigrateAssumption DEF Alone, Start, TypeOK

\* The start of a command, the places it goes to and the batch it will record.
LEMMA StartType ==
    ASSUME TypeOK, Batches, NEW r \in Runners, NEW command, Start(r, command),
           NEW names \in SUBSET Migrations, todo' = [todo EXCEPT ![r] = names],
           NEW p \in {"up", "down"}, pc' = [pc EXCEPT ![r] = IF names = {} THEN "idle" ELSE p],
           (p = "down" /\ UNCHANGED batch) \/ batch' = [batch EXCEPT ![r] = Latest + 1]
    PROVE  TypeOK' /\ Batches'
  <1>1. /\ runs \in 0 .. MaxRuns /\ runs < MaxRuns /\ runs' = runs + 1 /\ MaxRuns \in Nat
        /\ UNCHANGED <<schema, tracked, torn>>
    BY MigrateAssumption DEF Start, dbVars, TypeOK
  <1>2. PICK R \in Releases : known' = [known EXCEPT ![r] = R]
    BY DEF Start
  <1>3. R \in SUBSET Migrations
    BY MigrateAssumption
  <1>4. \A q \in Runners : batch'[q] \in 0 .. MaxRuns /\ batch'[q] <= runs'
    <2>1. ASSUME NEW q \in Runners PROVE batch[q] \in 0 .. MaxRuns /\ batch[q] <= runs'
      BY <1>1 DEF TypeOK, Batches
    <2>2. Latest + 1 \in 0 .. MaxRuns /\ Latest + 1 <= runs'
      BY <1>1, LatestIs
    <2> QED BY <2>1, <2>2 DEF TypeOK
  <1>5. \A q \in Runners : pc'[q] \in {"up", "record"} => batch'[q] # 0
    <2>1. Latest + 1 # 0
      BY <1>1, LatestIs
    <2> QED BY <2>1 DEF TypeOK, Batches
  <1>6. batch' \in [Runners -> 0 .. MaxRuns]
    <2>1. batch' = [q \in Runners |-> batch'[q]]
      BY DEF TypeOK
    <2> QED BY <1>4, <2>1
  <1>7. \A m \in Migrations : tracked'[m] <= runs'
    BY <1>1 DEF TypeOK, Batches
  <1>8. /\ pc' \in [Runners -> {"idle", "up", "record", "down", "unrecord"}]
        /\ todo' \in [Runners -> SUBSET Migrations]
        /\ \A q \in Runners : pc'[q] # "idle" => todo'[q] # {}
    BY DEF TypeOK
  <1>9. known' \in [Runners -> SUBSET Migrations] /\ runs' \in 0 .. MaxRuns
    BY <1>1, <1>2, <1>3 DEF TypeOK
  <1> QED BY <1>1, <1>4, <1>6, <1>7, <1>8, <1>9, <1>5 DEF TypeOK, Batches

\* One step per action.
LEMMA NextType == TypeOK /\ Batches /\ [Next]_vars => TypeOK' /\ Batches'
  <1> SUFFICES ASSUME TypeOK, Batches, [Next]_vars PROVE TypeOK' /\ Batches'
    OBVIOUS
  <1>1. ASSUME NEW r \in Runners, StartMigrate(r) PROVE TypeOK' /\ Batches'
    <2> DEFINE pending == known'[r] \ Recorded
    <2>1. pending \in SUBSET Migrations
      BY <1>1, MigrateAssumption DEF StartMigrate, Start, TypeOK
    <2>2. /\ Start(r, "migrate") /\ todo' = [todo EXCEPT ![r] = pending]
          /\ pc' = [pc EXCEPT ![r] = IF pending = {} THEN "idle" ELSE "up"]
          /\ batch' = [batch EXCEPT ![r] = Latest + 1]
      BY <1>1 DEF StartMigrate
    <2> HIDE DEF pending
    <2> QED BY <2>1, <2>2, StartType
  <1>2. ASSUME NEW r \in Runners, NEW count \in 1 .. MaxCount, StartRollback(r, count)
        PROVE  TypeOK' /\ Batches'
    <2> DEFINE names == {m \in Recorded : tracked[m] >= Latest - count + 1}
    <2>1. names \in SUBSET Migrations
      BY DEF Recorded
    <2>2. /\ Start(r, "rollback") /\ todo' = [todo EXCEPT ![r] = names]
          /\ pc' = [pc EXCEPT ![r] = IF names = {} THEN "idle" ELSE "down"]
          /\ UNCHANGED batch
      BY <1>2 DEF StartRollback
    <2> HIDE DEF names
    <2> QED BY <2>1, <2>2, StartType
  <1>3. ASSUME NEW r \in Runners, Works(r) \/ Crash(r) PROVE TypeOK' /\ Batches'
    <2>1. pc[r] # "idle" /\ UNCHANGED <<known, batch, runs>>
      BY <1>3 DEF Works, Crash, Up, UpThrows, Record, RecordThrows, Down, DownThrows, Unrecord
    <2>2. Oldest(r) \in Migrations /\ Newest(r) \in Migrations
      BY <2>1, NextOnes
    <2>3. schema' \subseteq Migrations
      BY <1>3, <2>2 DEF Works, Crash, Up, UpThrows, Record, RecordThrows, Down, DownThrows,
            Unrecord, dbVars, TypeOK
    <2>4. torn' \subseteq Migrations
      BY <1>3, <2>2 DEF Works, Crash, Up, UpThrows, Record, RecordThrows, Down, DownThrows,
            Unrecord, TypeOK
    <2>5. tracked' \in [Migrations -> 0 .. MaxRuns] /\ \A m \in Migrations : tracked'[m] <= runs
      <3>1. CASE UNCHANGED tracked
        BY <3>1 DEF TypeOK, Batches
      <3>2. CASE tracked' = [tracked EXCEPT ![Oldest(r)] = batch[r]]
        <4>1. batch[r] \in 0 .. MaxRuns /\ batch[r] <= runs
          BY DEF TypeOK, Batches
        <4> QED BY <3>2, <4>1 DEF TypeOK, Batches
      <3>3. CASE tracked' = [tracked EXCEPT ![Newest(r)] = 0]
        <4>1. 0 \in 0 .. MaxRuns /\ 0 <= runs
          BY MigrateAssumption DEF TypeOK
        <4> QED BY <3>3, <4>1 DEF TypeOK, Batches
      <3> QED BY <1>3, <3>1, <3>2, <3>3 DEF Works, Crash, Up, UpThrows, Record, RecordThrows,
            Down, DownThrows, Unrecord, dbVars
    <2>6. /\ pc' \in [Runners -> {"idle", "up", "record", "down", "unrecord"}]
          /\ todo' \in [Runners -> SUBSET Migrations]
          /\ \A q \in Runners : pc'[q] # "idle" => todo'[q] # {}
      <3>1. CASE Stops(r)
        BY <3>1 DEF Stops, TypeOK
      <3>2. ASSUME NEW p \in {"record", "unrecord"}, pc' = [pc EXCEPT ![r] = p], UNCHANGED todo
            PROVE  <2>6!:
        BY <2>1, <3>2 DEF TypeOK
      <3>3. ASSUME NEW p \in {"up", "down"}, NEW m,
                   todo' = [todo EXCEPT ![r] = @ \ {m}],
                   pc' = [pc EXCEPT ![r] = IF todo[r] = {m} THEN "idle" ELSE p]
            PROVE  <2>6!:
        <4>1. todo[r] # {}
          BY <2>1 DEF TypeOK
        <4>2. todo[r] # {m} => todo[r] \ {m} # {}
          BY <4>1
        <4> QED BY <3>3, <4>2 DEF TypeOK
      <3> QED BY <1>3, <3>1, <3>2, <3>3 DEF Works, Crash, Up, UpThrows, Record, RecordThrows,
            Down, DownThrows, Unrecord
    <2>7. \A q \in Runners : pc'[q] \in {"up", "record"} => batch'[q] # 0
      <3>1. PICK p \in {"idle", "up", "record", "down", "unrecord"} :
                pc' = [pc EXCEPT ![r] = p] /\ (p \in {"up", "record"} => pc[r] \in {"up", "record"})
        BY <1>3 DEF Works, Crash, Up, UpThrows, Record, RecordThrows, Down, DownThrows, Unrecord, Stops
      <3> QED BY <2>1, <3>1 DEF TypeOK, Batches
    <2> QED BY <2>1, <2>3, <2>4, <2>5, <2>6, <2>7 DEF TypeOK, Batches
  <1>4. CASE UNCHANGED vars
    BY <1>4 DEF vars, dbVars, TypeOK, Batches
  <1> QED BY <1>1, <1>2, <1>3, <1>4 DEF Next, Starts, Finished

\* An empty record has no batches.
LEMMA InitType == Init => TypeOK /\ Batches
  BY MigrateAssumption DEF Init, TypeOK, Batches

\* Every variable keeps its type: a run names only migrations there are, a busy
\* run has one to do, and no batch is newer than the commands that ran.
THEOREM TypeCorrect == Spec => []TypeOK
  BY InitType, NextType, PTL DEF Spec

-----------------------------------------------------------------------------
(* The order of the record. *)

\* The recorded migrations are the first j.
UpTo(j) == \A m \in Migrations : tracked[m] # 0 <=> m <= j

Recording ==
    /\ \E j \in 0 .. NumMigrations : UpTo(j)
    /\ \A m, n \in Migrations : m <= n /\ tracked[n] # 0 => tracked[m] <= tracked[n]

\* What a run has to apply has no gaps; either its next one was recorded by
\* another run, whereupon it throws, or its batch goes on where the record ends.
Applying(r) ==
    \E o, k \in Migrations :
        /\ o <= k /\ todo[r] = o .. k /\ batch[r] # 0
        /\ \/ tracked[o] # 0
           \/ UpTo(o - 1) /\ \A m \in Migrations : tracked[m] <= batch[r]

\* What a run has to reverse is the end of the record.
Reversing(r) ==
    \E j \in Migrations :
        /\ UpTo(j)
        /\ j \in todo[r] /\ todo[r] \subseteq 1 .. j
        /\ \A m \in todo[r] : m .. j \subseteq todo[r]

OrderInv ==
    /\ Recording
    /\ \A r \in Runners : pc[r] \in {"up", "record"} => Applying(r)
    /\ \A r \in Runners : pc[r] \in {"down", "unrecord"} =>
          Reversing(r) /\ \A q \in Runners \ {r} : pc[q] = "idle"

\* A migrate applies the oldest of what it has to apply, ...
LEMMA OldestIs ==
    ASSUME NEW r \in Runners, NEW o \in Migrations, NEW k \in Migrations, o <= k, todo[r] = o .. k
    PROVE  Oldest(r) = o
  <1>1. todo[r] \in SUBSET Int /\ o \in todo[r] /\ \A y \in todo[r] : o <= y
    BY DEF Migrations
  <1> QED BY <1>1, MinIs DEF Oldest

\* ... and a rollback reverses the newest migration that is recorded.
LEMMA NewestIs ==
    ASSUME NEW r \in Runners, NEW j \in Migrations, j \in todo[r], todo[r] \subseteq 1 .. j
    PROVE  Newest(r) = j
  <1>1. todo[r] \in SUBSET Int /\ \A y \in todo[r] : j >= y
    BY DEF Migrations
  <1> QED BY <1>1, MaxIs DEF Newest

\* What a step that touches only one run has to show.
LEMMA OneRun ==
    ASSUME TypeOK, OrderInv, NEW r \in Runners,
           UNCHANGED <<tracked, batch>>,
           NEW p \in {"idle", "up", "record", "down", "unrecord"}, pc' = [pc EXCEPT ![r] = p],
           \/ p = "idle"
           \/ p \in {"up", "record"} /\ pc[r] \in {"up", "record"}
           \/ p \in {"down", "unrecord"} /\ pc[r] \in {"down", "unrecord"},
           \/ UNCHANGED todo
           \/ p = "idle" /\ todo' = [todo EXCEPT ![r] = {}]
    PROVE  OrderInv'
  <1>1. Recording'
    BY DEF OrderInv, Recording, UpTo
  <1>2. /\ \A q \in Runners \ {r} : pc'[q] = pc[q] /\ todo'[q] = todo[q]
        /\ pc'[r] = p
        /\ p # "idle" => todo'[r] = todo[r]
    BY DEF TypeOK
  <1>3. ASSUME NEW q \in Runners, pc'[q] \in {"up", "record"} PROVE Applying(q)'
    <2>1. pc[q] \in {"up", "record"} /\ todo'[q] = todo[q]
      <3>1. CASE q = r
        BY <1>2, <1>3, <3>1
      <3>2. CASE q # r
        BY <1>2, <1>3, <3>2
      <3> QED BY <3>1, <3>2
    <2>2. Applying(q)
      BY <2>1 DEF OrderInv
    <2> QED BY <2>1, <2>2 DEF Applying, UpTo
  <1>4. ASSUME NEW q \in Runners, pc'[q] \in {"down", "unrecord"}
        PROVE  Reversing(q)' /\ \A t \in Runners \ {q} : pc'[t] = "idle"
    <2>1. pc[q] \in {"down", "unrecord"} /\ todo'[q] = todo[q]
      <3>1. CASE q = r
        BY <1>2, <1>4, <3>1
      <3>2. CASE q # r
        BY <1>2, <1>4, <3>2
      <3> QED BY <3>1, <3>2
    <2>2. Reversing(q) /\ \A t \in Runners \ {q} : pc[t] = "idle"
      BY <2>1 DEF OrderInv
    <2>3. Reversing(q)'
      BY <2>1, <2>2 DEF Reversing, UpTo
    <2>4. ASSUME NEW t \in Runners \ {q} PROVE pc'[t] = "idle"
      BY <1>2, <1>4, <2>1, <2>2
    <2> QED BY <2>3, <2>4
  <1> QED BY <1>1, <1>3, <1>4 DEF OrderInv

\* A migrate starts where the record ends.
LEMMA MigrateStarts ==
    ASSUME Alone, Appended, TypeOK, Batches, OrderInv, NEW r \in Runners, StartMigrate(r)
    PROVE  OrderInv'
  <1> DEFINE pending == known'[r] \ Recorded
  <1>1. /\ pc[r] = "idle" /\ runs' = runs + 1 /\ runs' \in 0 .. MaxRuns
        /\ \A q \in Runners : pc[q] \notin {"down", "unrecord"}
        /\ UNCHANGED <<schema, tracked, torn>>
    <2>1. Start(r, "migrate")
      BY DEF StartMigrate
    <2>2. pc[r] = "idle" /\ \A q \in Runners : pc[q] \notin {"down", "unrecord"}
      BY <2>1, StartAlone
    <2>3. runs < MaxRuns /\ runs' = runs + 1 /\ UNCHANGED <<schema, tracked, torn>>
      BY <2>1 DEF Start, dbVars
    <2> QED BY <2>2, <2>3, MigrateAssumption DEF TypeOK
  <1>2. PICK R \in Releases : known' = [known EXCEPT ![r] = R]
    BY DEF StartMigrate, Start
  <1>3. PICK n \in 0 .. NumMigrations : R = 1 .. n
    BY DEF Appended
  <1>4. PICK j \in 0 .. NumMigrations : UpTo(j)
    BY DEF OrderInv, Recording
  <1>5. pending = (j + 1) .. n
    BY <1>2, <1>3, <1>4, MigrateAssumption DEF UpTo, Recorded, Migrations, TypeOK
  <1>6. Latest \in 0 .. runs /\ \A m \in Migrations : tracked[m] <= Latest
    BY LatestIs
  <1>7. /\ todo' = [todo EXCEPT ![r] = pending] /\ batch' = [batch EXCEPT ![r] = Latest + 1]
        /\ pc' = [pc EXCEPT ![r] = IF pending = {} THEN "idle" ELSE "up"]
    BY DEF StartMigrate
  <1> HIDE DEF pending
  <1>8. Recording'
    BY <1>1 DEF OrderInv, Recording, UpTo
  <1>9. \A q \in Runners \ {r} : pc'[q] = pc[q] /\ todo'[q] = todo[q] /\ batch'[q] = batch[q]
    BY <1>7 DEF TypeOK
  <1>10. ASSUME NEW q \in Runners, pc'[q] \in {"up", "record"} PROVE Applying(q)'
    <2>1. CASE q # r
      <3>1. Applying(q)
        BY <1>9, <1>10, <2>1 DEF OrderInv
      <3> QED BY <1>1, <1>9, <2>1, <3>1 DEF Applying, UpTo
    <2>2. CASE q = r
      <3>1. pending # {} /\ todo'[r] = pending /\ batch'[r] = Latest + 1
        BY <1>7, <1>10, <2>2 DEF TypeOK
      <3>2. j + 1 \in Migrations /\ n \in Migrations /\ j + 1 <= n
        BY <1>5, <3>1, MigrateAssumption DEF Migrations
      <3>3. UpTo((j + 1) - 1)'
        BY <1>1, <1>4 DEF UpTo
      <3>4. batch'[r] # 0 /\ \A m \in Migrations : tracked'[m] <= batch'[r]
        BY <1>1, <1>6, <3>1 DEF TypeOK
      <3>5. todo'[r] = (j + 1) .. n
        BY <1>5, <3>1
      <3> QED BY <2>2, <3>2, <3>3, <3>4, <3>5 DEF Applying
    <2> QED BY <2>1, <2>2
  <1>11. \A q \in Runners : pc'[q] \notin {"down", "unrecord"}
    BY <1>1, <1>7, <1>9 DEF TypeOK
  <1> QED BY <1>8, <1>10, <1>11 DEF OrderInv

\* A rollback starts with the end of the record.
LEMMA RollbackStarts ==
    ASSUME Alone, Appended, TypeOK, Batches, OrderInv, NEW r \in Runners, NEW count \in 1 .. MaxCount,
           StartRollback(r, count)
    PROVE  OrderInv'
  <1> DEFINE names == {m \in Recorded : tracked[m] >= Latest - count + 1}
  <1>1. /\ pc[r] = "idle" /\ runs' = runs + 1 /\ runs' \in 0 .. MaxRuns
        /\ \A q \in Runners : pc[q] = "idle"
        /\ UNCHANGED <<schema, tracked, torn, batch>>
    <2>1. Start(r, "rollback") /\ UNCHANGED batch
      BY DEF StartRollback
    <2>2. pc[r] = "idle" /\ \A q \in Runners : pc[q] = "idle"
      BY <2>1, StartAlone
    <2>3. runs < MaxRuns /\ runs' = runs + 1 /\ UNCHANGED <<schema, tracked, torn>>
      BY <2>1 DEF Start, dbVars
    <2> QED BY <2>1, <2>2, <2>3, MigrateAssumption DEF TypeOK
  <1>2. PICK R \in Releases : known' = [known EXCEPT ![r] = R]
    BY DEF StartRollback, Start
  <1>3. PICK j \in 0 .. NumMigrations : UpTo(j)
    BY DEF OrderInv, Recording
  <1>4. Latest \in 0 .. runs
    BY LatestIs
  <1>5. /\ todo' = [todo EXCEPT ![r] = names]
        /\ pc' = [pc EXCEPT ![r] = IF names = {} THEN "idle" ELSE "down"]
    BY DEF StartRollback
  <1>6. names # {} => Reversing(r)'
    <2> SUFFICES ASSUME names # {} PROVE Reversing(r)'
      OBVIOUS
    <2>1. PICK m0 \in names : TRUE
      OBVIOUS
    <2>2. j \in Migrations /\ names \subseteq 1 .. j
      BY <1>3, <2>1, MigrateAssumption DEF UpTo, Recorded, Migrations
    <2>3. ASSUME NEW m \in names, NEW n \in m .. j PROVE n \in names
      <3>1. n \in Migrations /\ m \in Migrations /\ m <= n /\ tracked[n] # 0
        BY <1>3, <2>2, <2>3, MigrateAssumption DEF UpTo, Migrations
      <3>2. tracked[m] <= tracked[n] /\ tracked[m] >= Latest - count + 1
        BY <2>3, <3>1 DEF OrderInv, Recording
      <3>3. tracked[n] >= Latest - count + 1
        BY <1>4, <3>1, <3>2, MigrateAssumption DEF TypeOK
      <3> QED BY <3>1, <3>3 DEF Recorded
    <2>4. j \in names
      BY <2>1, <2>2, <2>3, MigrateAssumption DEF Migrations
    <2>5. todo'[r] = names
      BY <1>5 DEF TypeOK
    <2>6. UpTo(j)'
      BY <1>1, <1>3 DEF UpTo
    <2> HIDE DEF names
    <2> QED BY <2>2, <2>3, <2>4, <2>5, <2>6 DEF Reversing
  <1> HIDE DEF names
  <1>7. Recording'
    BY <1>1 DEF OrderInv, Recording, UpTo
  <1>8. \A q \in Runners \ {r} : pc'[q] = "idle"
    BY <1>1, <1>5 DEF TypeOK
  <1>9. pc'[r] = IF names = {} THEN "idle" ELSE "down"
    BY <1>5 DEF TypeOK
  <1> QED BY <1>6, <1>7, <1>8, <1>9 DEF OrderInv

\* Recording the migration where the record ends makes it one longer; who waits
\* to record the same one is refused.
LEMMA RecordStep ==
    ASSUME TypeOK, OrderInv, NEW r \in Runners, Record(r)
    PROVE  OrderInv'
  <1>1. Applying(r)
    BY DEF Record, OrderInv
  <1>2. PICK o \in Migrations, k \in Migrations :
          /\ o <= k /\ todo[r] = o .. k /\ batch[r] # 0
          /\ \/ tracked[o] # 0
             \/ UpTo(o - 1) /\ \A m \in Migrations : tracked[m] <= batch[r]
    BY <1>1 DEF Applying
  <1>3. Oldest(r) = o
    BY <1>2, OldestIs
  <1>4. /\ tracked[o] = 0 /\ UpTo(o - 1) /\ \A m \in Migrations : tracked[m] <= batch[r]
        /\ tracked' = [tracked EXCEPT ![o] = batch[r]]
        /\ todo' = [todo EXCEPT ![r] = @ \ {o}]
        /\ pc[r] = "record" /\ pc' = [pc EXCEPT ![r] = IF todo[r] = {o} THEN "idle" ELSE "up"]
        /\ UNCHANGED <<schema, known, batch, torn, runs>>
    BY <1>2, <1>3 DEF Record
  <1>5. /\ tracked'[o] = batch[r] /\ \A m \in Migrations \ {o} : tracked'[m] = tracked[m]
        /\ batch[r] \in Nat /\ \A m \in Migrations : tracked[m] \in Nat
    BY <1>4, MigrateAssumption DEF TypeOK
  <1>6. UpTo(o)'
    BY <1>2, <1>4, <1>5 DEF UpTo, Migrations
  <1>7. Recording'
    <2>1. \A m, n \in Migrations : m <= n /\ tracked'[n] # 0 => tracked'[m] <= tracked'[n]
      <3> SUFFICES ASSUME NEW m \in Migrations, NEW n \in Migrations, m <= n, tracked'[n] # 0
                   PROVE  tracked'[m] <= tracked'[n]
        OBVIOUS
      <3>1. n <= o
        BY <1>6 DEF UpTo
      <3>2. CASE n = o
        BY <1>4, <1>5, <3>2
      <3>3. CASE n # o
        <4>1. m # o
          BY <3>1, <3>3 DEF Migrations
        <4> QED BY <1>5, <3>3, <4>1 DEF OrderInv, Recording
      <3> QED BY <3>2, <3>3
    <2>2. o \in 0 .. NumMigrations
      BY MigrateAssumption DEF Migrations
    <2> QED BY <1>4, <1>6, <2>1, <2>2 DEF OrderInv, Recording
  <1>8. \A q \in Runners \ {r} : pc'[q] = pc[q] /\ todo'[q] = todo[q]
    BY <1>4 DEF TypeOK
  <1>9. ASSUME NEW q \in Runners, pc'[q] \in {"up", "record"} PROVE Applying(q)'
    <2>1. CASE q = r
      <3>1. todo[r] # {o} /\ todo'[r] = (o .. k) \ {o}
        BY <1>2, <1>4, <1>9, <2>1 DEF TypeOK
      <3>2. o + 1 \in Migrations /\ o + 1 <= k /\ todo'[r] = (o + 1) .. k
        <4>1. o < k
          <5>1. o = k => o .. k = {o}
            BY DEF Migrations
          <5> QED BY <1>2, <3>1, <5>1 DEF Migrations
        <4>2. (o .. k) \ {o} = (o + 1) .. k
          BY <4>1 DEF Migrations
        <4> QED BY <3>1, <4>1, <4>2, MigrateAssumption DEF Migrations
      <3>3. UpTo((o + 1) - 1)'
        BY <1>6 DEF UpTo, Migrations
      <3>4. \A m \in Migrations : tracked'[m] <= batch'[r]
        BY <1>4, <1>5
      <3> QED BY <1>2, <1>4, <2>1, <3>2, <3>3, <3>4 DEF Applying
    <2>2. CASE q # r
      <3>1. Applying(q)
        BY <1>8, <1>9, <2>2 DEF OrderInv
      <3>2. PICK b \in Migrations, e \in Migrations :
              /\ b <= e /\ todo[q] = b .. e /\ batch[q] # 0
              /\ \/ tracked[b] # 0
                 \/ UpTo(b - 1) /\ \A m \in Migrations : tracked[m] <= batch[q]
        BY <3>1 DEF Applying
      <3>3. tracked'[b] # 0
        <4>1. CASE tracked[b] # 0
          BY <1>4, <1>5, <4>1
        <4>2. CASE UpTo(b - 1)
          <5>1. b = o
            BY <1>4, <4>2 DEF UpTo, Migrations
          <5> QED BY <1>2, <1>5, <5>1
        <4> QED BY <3>2, <4>1, <4>2
      <3> QED BY <1>4, <1>8, <2>2, <3>2, <3>3 DEF Applying
    <2> QED BY <2>1, <2>2
  <1>10. \A q \in Runners : pc'[q] \notin {"down", "unrecord"}
    BY <1>4, <1>8 DEF TypeOK, OrderInv
  <1> QED BY <1>7, <1>9, <1>10 DEF OrderInv

\* Unrecording the last one makes the record one shorter.
LEMMA UnrecordStep ==
    ASSUME TypeOK, OrderInv, NEW r \in Runners, Unrecord(r)
    PROVE  OrderInv'
  <1>1. pc[r] = "unrecord" /\ Reversing(r) /\ \A q \in Runners \ {r} : pc[q] = "idle"
    BY DEF Unrecord, OrderInv
  <1>2. PICK j \in Migrations :
          /\ UpTo(j) /\ j \in todo[r] /\ todo[r] \subseteq 1 .. j
          /\ \A m \in todo[r] : m .. j \subseteq todo[r]
    BY <1>1 DEF Reversing
  <1>3. Newest(r) = j
    BY <1>2, NewestIs
  <1>4. /\ tracked' = [tracked EXCEPT ![j] = 0]
        /\ todo' = [todo EXCEPT ![r] = @ \ {j}]
        /\ pc' = [pc EXCEPT ![r] = IF todo[r] = {j} THEN "idle" ELSE "down"]
        /\ torn' = torn \ {j}
        /\ UNCHANGED <<schema, known, batch, runs>>
    BY <1>3 DEF Unrecord
  <1>5. /\ tracked'[j] = 0 /\ \A m \in Migrations \ {j} : tracked'[m] = tracked[m]
        /\ \A m \in Migrations : tracked[m] \in Nat
    BY <1>4, MigrateAssumption DEF TypeOK
  <1>6. UpTo(j - 1)'
    BY <1>2, <1>5 DEF UpTo, Migrations
  <1>7. Recording'
    <2>1. \A m, n \in Migrations : m <= n /\ tracked'[n] # 0 => tracked'[m] <= tracked'[n]
      <3> SUFFICES ASSUME NEW m \in Migrations, NEW n \in Migrations, m <= n, tracked'[n] # 0
                   PROVE  tracked'[m] <= tracked'[n]
        OBVIOUS
      <3>1. n <= j - 1
        BY <1>6 DEF UpTo
      <3>2. n # j /\ m # j
        BY <3>1 DEF Migrations
      <3> QED BY <1>5, <3>2 DEF OrderInv, Recording
    <2>2. j - 1 \in 0 .. NumMigrations
      BY MigrateAssumption DEF Migrations
    <2> QED BY <1>4, <1>6, <2>1, <2>2 DEF OrderInv, Recording
  <1>8. \A q \in Runners \ {r} : pc'[q] = "idle"
    BY <1>1, <1>4 DEF TypeOK
  <1>9. ASSUME pc'[r] # "idle" PROVE pc'[r] = "down" /\ Reversing(r)'
    <2>1. pc'[r] = "down" /\ todo[r] # {j} /\ todo'[r] = todo[r] \ {j}
      BY <1>4, <1>9 DEF TypeOK
    <2>2. PICK m \in todo[r] : m # j
      BY <1>2, <2>1
    <2>3. j - 1 \in Migrations /\ j - 1 \in todo'[r] /\ todo'[r] \subseteq 1 .. (j - 1)
      <3>1. m \in 1 .. j /\ j - 1 \in m .. j
        BY <1>2, <2>2 DEF Migrations
      <3>2. j - 1 \in todo[r] /\ j - 1 # j
        BY <1>2, <2>2, <3>1 DEF Migrations
      <3>3. j - 1 \in Migrations
        BY <2>2, <3>1, MigrateAssumption DEF Migrations
      <3>4. todo'[r] \subseteq 1 .. (j - 1)
        <4>1. \A i \in 1 .. j : i # j => i \in 1 .. (j - 1)
          BY DEF Migrations
        <4> QED BY <1>2, <2>1, <4>1
      <3> QED BY <2>1, <3>2, <3>3, <3>4
    <2>4. \A n \in todo'[r] : n .. (j - 1) \subseteq todo'[r]
      <3> SUFFICES ASSUME NEW n \in todo'[r], NEW i \in n .. (j - 1) PROVE i \in todo'[r]
        OBVIOUS
      <3>1. n \in todo[r] /\ i \in n .. j /\ i # j
        BY <1>2, <2>1 DEF Migrations
      <3> QED BY <1>2, <2>1, <3>1
    <2> QED BY <1>6, <2>1, <2>3, <2>4 DEF Reversing
  <1> QED BY <1>7, <1>8, <1>9 DEF OrderInv

\* One step per action.
LEMMA NextOrder ==
    ASSUME Alone, Appended
    PROVE  TypeOK /\ Batches /\ OrderInv /\ [Next]_vars => OrderInv'
  <1> SUFFICES ASSUME TypeOK, Batches, OrderInv, [Next]_vars PROVE OrderInv'
    OBVIOUS
  <1>1. ASSUME NEW r \in Runners, Starts(r) PROVE OrderInv'
    BY <1>1, MigrateStarts, RollbackStarts DEF Starts
  <1>2. ASSUME NEW r \in Runners, Works(r) PROVE OrderInv'
    <2>1. CASE Up(r)
      <3>1. /\ pc[r] = "up" /\ pc' = [pc EXCEPT ![r] = "record"]
            /\ UNCHANGED <<tracked, known, todo, batch, torn, runs>>
        BY <2>1 DEF Up
      <3> QED BY <3>1, OneRun
    <2>2. CASE UpThrows(r) \/ RecordThrows(r) \/ DownThrows(r)
      <3>1. /\ pc' = [pc EXCEPT ![r] = "idle"] /\ todo' = [todo EXCEPT ![r] = {}]
            /\ UNCHANGED <<schema, tracked, known, batch, torn, runs>>
        BY <2>2 DEF UpThrows, RecordThrows, DownThrows, Stops, dbVars
      <3> QED BY <3>1, OneRun
    <2>3. CASE Record(r)
      BY <2>3, RecordStep
    <2>4. CASE Down(r)
      <3>1. /\ pc' = [pc EXCEPT ![r] = "unrecord"] /\ pc[r] = "down"
            /\ UNCHANGED <<tracked, known, todo, batch, torn, runs>>
        BY <2>4 DEF Down
      <3> QED BY <3>1, OneRun
    <2>5. CASE Unrecord(r)
      BY <2>5, UnrecordStep
    <2> QED BY <1>2, <2>1, <2>2, <2>3, <2>4, <2>5 DEF Works
  <1>3. ASSUME NEW r \in Runners, Crash(r) PROVE OrderInv'
    <2>1. /\ pc' = [pc EXCEPT ![r] = "idle"] /\ todo' = [todo EXCEPT ![r] = {}]
          /\ UNCHANGED <<schema, tracked, known, batch, runs>>
      BY <1>3 DEF Crash, Stops, dbVars
    <2> QED BY <2>1, OneRun
  <1>4. CASE UNCHANGED vars
    <2>1. Recording'
      BY <1>4 DEF vars, dbVars, OrderInv, Recording, UpTo
    <2>2. \A r \in Runners : (Applying(r) => Applying(r)') /\ (Reversing(r) => Reversing(r)')
      BY <1>4 DEF vars, dbVars, Applying, Reversing, UpTo
    <2> QED BY <1>4, <2>1, <2>2 DEF vars, OrderInv
  <1> QED BY <1>1, <1>2, <1>3, <1>4 DEF Next, Finished

\* An empty record is in order.
LEMMA InitOrder == Init => OrderInv
  <1> SUFFICES ASSUME Init PROVE OrderInv
    OBVIOUS
  <1>1. UpTo(0) /\ 0 \in 0 .. NumMigrations
    BY MigrateAssumption DEF Init, UpTo, Migrations
  <1>2. Recording
    BY <1>1, MigrateAssumption DEF Init, Recording
  <1> QED BY <1>2 DEF Init, OrderInv

\* What the theorems of this part rest on.
LEMMA OrderKept ==
    ASSUME Alone, Appended
    PROVE  Spec => [](TypeOK /\ OrderInv)
  BY InitType, NextType, InitOrder, NextOrder, PTL DEF Spec

\* The record is always the oldest migrations, in batches that follow their
\* names, however many migrates race and wherever the runs die (migrate.ts).
THEOREM OrderCorrect ==
    ASSUME Alone, Appended
    PROVE  Spec => []RecordedInOrder
  <1>1. ASSUME OrderInv PROVE RecordedInOrder
    <2>1. PICK j \in 0 .. NumMigrations : UpTo(j)
      BY <1>1 DEF OrderInv, Recording
    <2> SUFFICES ASSUME NEW m \in Recorded, NEW n \in 1 .. m
                 PROVE  n \in Recorded /\ tracked[n] <= tracked[m]
      BY DEF RecordedInOrder
    <2>2. m \in Migrations /\ n \in Migrations /\ n <= m /\ n <= j /\ tracked[m] # 0
      BY <2>1, MigrateAssumption DEF Recorded, UpTo, Migrations
    <2> QED BY <1>1, <2>1, <2>2 DEF Recorded, UpTo, OrderInv, Recording
  <1> QED BY <1>1, OrderKept, PTL

\* A rollback unrecords nothing that is older than what it leaves recorded.
THEOREM LatestCorrect ==
    ASSUME Alone, Appended
    PROVE  Spec => RollbackTakesLatest
  <1> DEFINE Latests ==
        \A r \in Runners : pc[r] = "unrecord" /\ pc'[r] # "unrecord" =>
          \A m \in Recorded \ {n \in Migrations : tracked'[n] # 0} :
              \A n \in Recorded : tracked[n] <= tracked[m] \/ tracked'[n] = 0
  <1>1. ASSUME TypeOK, OrderInv, [Next]_vars PROVE [Latests]_vars
    <2> SUFFICES ASSUME Next PROVE Latests
      BY <1>1
    <2> SUFFICES ASSUME NEW m \in Migrations, tracked[m] # 0, tracked'[m] = 0,
                        NEW n \in Migrations
                 PROVE  tracked[n] <= tracked[m]
      BY DEF Recorded
    <2>1. PICK r \in Runners : Unrecord(r)
      <3>1. ASSUME NEW r \in Runners, Record(r) PROVE FALSE
        <4>1. batch[r] # 0
          BY <1>1, <3>1 DEF Record, OrderInv, Applying
        <4> QED BY <1>1, <3>1, <4>1 DEF Record, TypeOK
      <3>2. ~ UNCHANGED tracked
        OBVIOUS
      <3> QED BY <3>1, <3>2 DEF Next, Starts, Works, StartMigrate, StartRollback, Start, Up,
            UpThrows, RecordThrows, Down, DownThrows, Crash, Finished, vars, dbVars
    <2>2. PICK j \in Migrations : UpTo(j) /\ j \in todo[r] /\ todo[r] \subseteq 1 .. j
      BY <1>1, <2>1 DEF Unrecord, OrderInv, Reversing
    <2>3. tracked' = [tracked EXCEPT ![j] = 0]
      BY <2>1, <2>2, NewestIs DEF Unrecord
    <2>4. m = j
      BY <1>1, <2>3 DEF TypeOK
    <2>5. CASE n <= j
      BY <1>1, <2>4, <2>5 DEF OrderInv, Recording
    <2>6. CASE ~ n <= j
      <3>1. tracked[n] = 0 /\ tracked[m] \in Nat
        BY <1>1, <2>2, <2>6, MigrateAssumption DEF UpTo, TypeOK
      <3> QED BY <3>1
    <2> QED BY <2>5, <2>6
  <1> QED BY <1>1, OrderKept, PTL DEF Spec, RollbackTakesLatest

-----------------------------------------------------------------------------
(* What is in effect and what is recorded, when a rollback runs alone. *)

Reverses(r) == pc[r] \in {"down", "unrecord"}
AloneInv == \A r \in Runners : Reverses(r) => \A q \in Runners \ {r} : pc[q] = "idle"

\* A migration is recorded after its up() took effect, and no run reverses it in
\* between.
AppliedInv ==
    /\ \A r \in Runners : pc[r] = "record" => Oldest(r) \in schema
    /\ RecordedIsApplied

\* A run that is about to apply a migration has none in effect that it did not
\* record: each command leaves at most one, and makes up for it when it goes on.
Unrecorded == schema \ Recorded
Upping     == {r \in Runners : pc[r] = "up"}
FewInv ==
    /\ \A r \in Runners : pc[r] = "unrecord" => Newest(r) \notin schema
    /\ IsFiniteSet(Upping)
    /\ Cardinality(Unrecorded) + Cardinality(Upping) <= runs

\* One step per action.
LEMMA NextAlone == Alone => (TypeOK /\ AloneInv /\ [Next]_vars => AloneInv')
  <1> SUFFICES ASSUME Alone, TypeOK, AloneInv, [Next]_vars PROVE AloneInv'
    OBVIOUS
  <1>1. ASSUME NEW r \in Runners, NEW command, Start(r, command),
               NEW p \in {"idle", "up", "down"}, pc' = [pc EXCEPT ![r] = p],
               p = "down" => command = "rollback"
        PROVE  AloneInv'
    BY <1>1, StartAlone DEF AloneInv, Reverses, TypeOK
  <1>2. ASSUME NEW r \in Runners, Starts(r) PROVE AloneInv'
    <2>1. CASE StartMigrate(r)
      BY <1>1, <2>1 DEF StartMigrate
    <2>2. ASSUME NEW count \in 1 .. MaxCount, StartRollback(r, count) PROVE AloneInv'
      BY <1>1, <2>2 DEF StartRollback
    <2> QED BY <1>2, <2>1, <2>2 DEF Starts
  <1>3. ASSUME NEW r \in Runners, Works(r) \/ Crash(r) PROVE AloneInv'
    <2>1. PICK p \in {"idle", "up", "record", "down", "unrecord"} :
              pc' = [pc EXCEPT ![r] = p] /\ (p \in {"down", "unrecord"} => Reverses(r))
      BY <1>3 DEF Works, Crash, Up, UpThrows, Record, RecordThrows, Down, DownThrows, Unrecord,
            Stops, Reverses
    <2>2. pc[r] # "idle"
      BY <1>3 DEF Works, Crash, Up, UpThrows, Record, RecordThrows, Down, DownThrows, Unrecord
    <2> QED BY <2>1, <2>2 DEF AloneInv, Reverses, TypeOK
  <1>4. CASE UNCHANGED vars
    BY <1>4 DEF vars, AloneInv, Reverses
  <1> QED BY <1>2, <1>3, <1>4 DEF Next, Finished

LEMMA NextApplied == TypeOK /\ AloneInv /\ AppliedInv /\ [Next]_vars => AppliedInv'
  <1> SUFFICES ASSUME TypeOK, AloneInv, AppliedInv, [Next]_vars PROVE AppliedInv'
    OBVIOUS
  <1>1. ASSUME NEW r \in Runners, Starts(r) PROVE AppliedInv'
    <2>1. /\ pc[r] = "idle" /\ UNCHANGED <<schema, tracked, torn>>
          /\ pc'[r] \in {"idle", "up", "down"}
          /\ \A q \in Runners \ {r} : pc'[q] = pc[q] /\ todo'[q] = todo[q]
      BY <1>1 DEF Starts, StartMigrate, StartRollback, Start, dbVars, TypeOK
    <2> QED BY <2>1 DEF AppliedInv, RecordedIsApplied, Recorded, Oldest, Newest
  <1>2. ASSUME NEW r \in Runners, Works(r) PROVE AppliedInv'
    <2>1. CASE Up(r)
      <3>1. /\ schema' = schema \cup {Oldest(r)} /\ UNCHANGED <<tracked, torn, todo>>
            /\ pc[r] = "up" /\ pc'[r] = "record"
            /\ \A q \in Runners \ {r} : pc'[q] = pc[q]
        BY <2>1 DEF Up, TypeOK
      <3> QED BY <3>1 DEF AppliedInv, RecordedIsApplied, Recorded, Oldest, Newest
    <2>2. CASE UpThrows(r) \/ RecordThrows(r) \/ DownThrows(r)
      <3>1. /\ UNCHANGED <<schema, tracked, torn>>
            /\ pc[r] # "unrecord" /\ pc'[r] = "idle"
            /\ \A q \in Runners \ {r} : pc'[q] = pc[q] /\ todo'[q] = todo[q]
        BY <2>2 DEF UpThrows, RecordThrows, DownThrows, Stops, dbVars, TypeOK
      <3> QED BY <3>1 DEF AppliedInv, RecordedIsApplied, Recorded, Oldest, Newest
    <2>3. CASE Record(r)
      <3>1. /\ UNCHANGED <<schema, torn>> /\ pc[r] = "record" /\ pc'[r] \in {"idle", "up"}
            /\ \A m \in Migrations : tracked'[m] # 0 => tracked[m] # 0 \/ m = Oldest(r)
            /\ \A q \in Runners \ {r} : pc'[q] = pc[q] /\ todo'[q] = todo[q]
        BY <2>3 DEF Record, TypeOK
      <3> QED BY <3>1 DEF AppliedInv, RecordedIsApplied, Recorded, Oldest, Newest
    <2>4. CASE Down(r)
      <3>1. /\ schema' = schema \ {Newest(r)} /\ UNCHANGED <<tracked, torn, todo>>
            /\ pc[r] = "down" /\ pc'[r] = "unrecord"
            /\ \A q \in Runners \ {r} : pc'[q] = pc[q]
        BY <2>4 DEF Down, TypeOK
      <3>2. \A q \in Runners : pc'[q] # "record"
        BY <3>1 DEF AloneInv, Reverses
      <3> QED BY <3>1, <3>2 DEF AppliedInv, RecordedIsApplied, Recorded, Newest
    <2>5. CASE Unrecord(r)
      <3>1. /\ UNCHANGED schema /\ pc[r] = "unrecord" /\ pc'[r] \in {"idle", "down"}
            /\ torn' = torn \ {Newest(r)}
            /\ tracked' = [tracked EXCEPT ![Newest(r)] = 0]
            /\ \A q \in Runners \ {r} : pc'[q] = pc[q]
        BY <2>5 DEF Unrecord, TypeOK
      <3>2. \A q \in Runners : pc'[q] # "record" /\ (q # r => pc[q] = "idle")
        BY <3>1 DEF AloneInv, Reverses
      <3>3. \A m \in Migrations : tracked'[m] # 0 => tracked[m] # 0 /\ m # Newest(r)
        BY <3>1 DEF TypeOK
      <3> QED BY <3>1, <3>2, <3>3 DEF AppliedInv, RecordedIsApplied, Recorded
    <2> QED BY <1>2, <2>1, <2>2, <2>3, <2>4, <2>5 DEF Works
  <1>3. ASSUME NEW r \in Runners, Crash(r) PROVE AppliedInv'
    <2>1. /\ UNCHANGED <<schema, tracked>> /\ pc'[r] = "idle"
          /\ torn' = IF pc[r] = "unrecord" THEN torn \cup {Newest(r)} ELSE torn
          /\ \A q \in Runners \ {r} : pc'[q] = pc[q] /\ todo'[q] = todo[q]
      BY <1>3 DEF Crash, Stops, dbVars, TypeOK
    <2> QED BY <2>1 DEF AppliedInv, RecordedIsApplied, Recorded, Oldest, Newest
  <1>4. CASE UNCHANGED vars
    BY <1>4 DEF vars, dbVars, AppliedInv, RecordedIsApplied, Recorded, Oldest, Newest
  <1> QED BY <1>1, <1>2, <1>3, <1>4 DEF Next, Finished

\* How the number of runs that are about to apply a migration changes.
LEMMA UppingOther ==
    ASSUME TypeOK, IsFiniteSet(Upping), NEW r \in Runners, NEW p, pc' = [pc EXCEPT ![r] = p]
    PROVE  /\ IsFiniteSet(Upping')
           /\ Cardinality(Upping) \in Nat /\ Cardinality(Upping') \in Nat
           /\ Cardinality(Upping') <= Cardinality(Upping) + 1
           /\ p # "up" => Cardinality(Upping') <= Cardinality(Upping)
           /\ p # "up" /\ pc[r] = "up" => Cardinality(Upping') = Cardinality(Upping) - 1
  <1>1. p = "up" => Upping' = Upping \cup {r}
    BY DEF Upping, TypeOK
  <1>2. p # "up" => Upping' = Upping \ {r}
    BY DEF Upping, TypeOK
  <1>3. r \in Upping <=> pc[r] = "up"
    BY DEF Upping
  <1>4. /\ IsFiniteSet(Upping \cup {r}) /\ IsFiniteSet(Upping \ {r})
        /\ Cardinality(Upping \cup {r}) =
              IF r \in Upping THEN Cardinality(Upping) ELSE Cardinality(Upping) + 1
        /\ Cardinality(Upping \ {r}) =
              IF r \in Upping THEN Cardinality(Upping) - 1 ELSE Cardinality(Upping)
    BY FS_AddElement, FS_RemoveElement
  <1>5. IsFiniteSet(Upping')
    BY <1>1, <1>2, <1>4
  <1>6. Cardinality(Upping) \in Nat /\ Cardinality(Upping') \in Nat
    BY <1>5, FS_CardinalityType
  <1>7. CASE p = "up"
    <2>1. Cardinality(Upping') = IF r \in Upping THEN Cardinality(Upping) ELSE Cardinality(Upping) + 1
      BY <1>1, <1>4, <1>7
    <2> QED BY <1>5, <1>6, <1>7, <2>1
  <1>8. CASE p # "up"
    <2>1. Cardinality(Upping') = IF r \in Upping THEN Cardinality(Upping) - 1 ELSE Cardinality(Upping)
      BY <1>2, <1>4, <1>8
    <2> QED BY <1>3, <1>5, <1>6, <1>8, <2>1
  <1> QED BY <1>7, <1>8

\* What is in effect and not recorded is a finite set.
LEMMA UnrecordedFinite ==
    ASSUME TypeOK
    PROVE  IsFiniteSet(Unrecorded) /\ Cardinality(Unrecorded) \in Nat
  <1>1. IsFiniteSet(Migrations)
    BY FS_Interval, MigrateAssumption DEF Migrations
  <1>2. Unrecorded \in SUBSET Migrations
    BY DEF TypeOK, Unrecorded
  <1>3. IsFiniteSet(Unrecorded)
    BY <1>1, <1>2, FS_Subset
  <1> QED BY <1>3, FS_CardinalityType

LEMMA NextFew == TypeOK /\ Batches /\ AloneInv /\ AppliedInv /\ FewInv /\ [Next]_vars => FewInv'
  <1> SUFFICES ASSUME TypeOK, Batches, AloneInv, AppliedInv, FewInv, [Next]_vars PROVE FewInv'
    OBVIOUS
  <1> DEFINE U == Cardinality(Unrecorded)
             C == Cardinality(Upping)
  <1>1. /\ IsFiniteSet(Unrecorded) /\ U \in Nat /\ C \in Nat /\ runs \in Nat
        /\ IsFiniteSet(Upping) /\ U + C <= runs
    BY UnrecordedFinite, FS_CardinalityType, MigrateAssumption DEF FewInv, TypeOK
  <1> HIDE DEF U, C
  <1>2. ASSUME NEW r \in Runners, Starts(r) PROVE FewInv'
    <2>1. /\ pc[r] = "idle" /\ UNCHANGED <<schema, tracked>> /\ runs' = runs + 1
          /\ \A q \in Runners \ {r} : todo'[q] = todo[q]
      BY <1>2 DEF Starts, StartMigrate, StartRollback, Start, dbVars, TypeOK
    <2>2. PICK p \in {"idle", "up", "down"} : pc' = [pc EXCEPT ![r] = p]
      BY <1>2 DEF Starts, StartMigrate, StartRollback
    <2>3. Unrecorded' = Unrecorded
      BY <2>1 DEF Unrecorded, Recorded
    <2>4. IsFiniteSet(Upping') /\ Cardinality(Upping') \in Nat /\ Cardinality(Upping') <= C + 1
      <3>1. /\ IsFiniteSet(Upping') /\ Cardinality(Upping') \in Nat
            /\ Cardinality(Upping') <= Cardinality(Upping) + 1
        BY <1>1, <2>2, UppingOther
      <3> QED BY <3>1 DEF C
    <2>5. Cardinality(Unrecorded') + Cardinality(Upping') <= runs'
      BY <1>1, <2>1, <2>3, <2>4 DEF U
    <2>6. \A q \in Runners : pc'[q] = "unrecord" => Newest(q)' \notin schema'
      BY <2>1, <2>2 DEF FewInv, Newest, TypeOK
    <2> QED BY <2>4, <2>5, <2>6 DEF FewInv
  <1>3. ASSUME NEW r \in Runners, Works(r) \/ Crash(r) PROVE FewInv'
    <2>1. pc[r] # "idle" /\ runs' = runs
      BY <1>3 DEF Works, Crash, Up, UpThrows, Record, RecordThrows, Down, DownThrows, Unrecord
    <2>2. Oldest(r) \in Migrations /\ Newest(r) \in Migrations
      BY <2>1, NextOnes
    <2>3. ASSUME NEW p \in {"idle", "record", "down", "unrecord"}, pc' = [pc EXCEPT ![r] = p],
                 Unrecorded' \subseteq Unrecorded \/
                    (pc[r] = "up" /\ Unrecorded' = Unrecorded \cup {Oldest(r)}),
                 \A q \in Runners : pc'[q] = "unrecord" => Newest(q)' \notin schema'
          PROVE  FewInv'
      <3>1. IsFiniteSet(Upping') /\ Cardinality(Upping') \in Nat
        BY <1>1, <2>3, UppingOther
      <3>2. /\ Cardinality(Upping') <= C
            /\ pc[r] = "up" => Cardinality(Upping') = C - 1
        <4>1. /\ Cardinality(Upping') <= Cardinality(Upping)
              /\ pc[r] = "up" => Cardinality(Upping') = Cardinality(Upping) - 1
          BY <1>1, <2>3, UppingOther
        <4> QED BY <4>1 DEF C
      <3>3. CASE Unrecorded' \subseteq Unrecorded
        <4>1. PICK T \in SUBSET Unrecorded : T = Unrecorded'
          BY <3>3
        <4>2. Cardinality(T) <= U /\ Cardinality(T) \in Nat
          BY <1>1, FS_Subset, FS_CardinalityType DEF U
        <4>3. Cardinality(Unrecorded') + Cardinality(Upping') <= runs'
          BY <1>1, <2>1, <3>1, <3>2, <4>1, <4>2
        <4> QED BY <2>3, <3>1, <4>3 DEF FewInv
      <3>4. CASE pc[r] = "up" /\ Unrecorded' = Unrecorded \cup {Oldest(r)}
        <4>1. Cardinality(Unrecorded') = U \/ Cardinality(Unrecorded') = U + 1
          BY <1>1, <3>4, FS_AddElement DEF U
        <4>2. Cardinality(Unrecorded') + Cardinality(Upping') <= runs'
          BY <1>1, <2>1, <3>1, <3>2, <3>4, <4>1
        <4> QED BY <2>3, <3>1, <4>2 DEF FewInv
      <3> QED BY <2>3, <3>3, <3>4
    <2>4. CASE Up(r)
      <3>1. /\ pc[r] = "up" /\ schema' = schema \cup {Oldest(r)} /\ UNCHANGED <<tracked, todo>>
            /\ pc' = [pc EXCEPT ![r] = "record"]
        BY <2>4 DEF Up
      <3>2. Unrecorded' \subseteq Unrecorded \/ Unrecorded' = Unrecorded \cup {Oldest(r)}
        BY <3>1 DEF Unrecorded, Recorded
      <3>3. \A q \in Runners : pc'[q] # "unrecord"
        BY <3>1 DEF AloneInv, Reverses, TypeOK
      <3> QED BY <2>3, <3>1, <3>2, <3>3
    <2>5. CASE UpThrows(r) \/ RecordThrows(r) \/ DownThrows(r) \/ Crash(r)
      <3>1. /\ pc' = [pc EXCEPT ![r] = "idle"] /\ UNCHANGED <<schema, tracked>>
            /\ \A q \in Runners \ {r} : todo'[q] = todo[q]
        BY <2>5 DEF UpThrows, RecordThrows, DownThrows, Crash, Stops, dbVars, TypeOK
      <3>2. Unrecorded' = Unrecorded
        BY <3>1 DEF Unrecorded, Recorded
      <3>3. \A q \in Runners : pc'[q] = "unrecord" => Newest(q)' \notin schema'
        BY <3>1 DEF FewInv, Newest, TypeOK
      <3> QED BY <2>3, <3>1, <3>2, <3>3
    <2>6. CASE Record(r)
      <3>1. /\ pc[r] = "record" /\ tracked[Oldest(r)] = 0 /\ UNCHANGED schema
            /\ tracked' = [tracked EXCEPT ![Oldest(r)] = batch[r]]
        BY <2>6 DEF Record
      <3>2. PICK p \in {"idle", "up"} : pc' = [pc EXCEPT ![r] = p]
        BY <2>6 DEF Record
      <3>3. \A q \in Runners : pc'[q] # "unrecord"
        BY <3>1, <3>2 DEF AloneInv, Reverses, TypeOK
      <3>4. batch[r] # 0 /\ Oldest(r) \in schema
        BY <3>1 DEF Batches, AppliedInv
      <3>5. Oldest(r) \in Unrecorded /\ Unrecorded' = Unrecorded \ {Oldest(r)}
        BY <2>2, <3>1, <3>4 DEF Unrecorded, Recorded, TypeOK
      <3>6. Cardinality(Unrecorded') = U - 1
        BY <1>1, <3>5, FS_RemoveElement DEF U
      <3>7. IsFiniteSet(Upping') /\ Cardinality(Upping') \in Nat /\ Cardinality(Upping') <= C + 1
        <4>1. /\ IsFiniteSet(Upping') /\ Cardinality(Upping') \in Nat
              /\ Cardinality(Upping') <= Cardinality(Upping) + 1
          BY <1>1, <3>2, UppingOther
        <4> QED BY <4>1 DEF C
      <3>8. Cardinality(Unrecorded') + Cardinality(Upping') <= runs'
        BY <1>1, <2>1, <3>6, <3>7
      <3> QED BY <3>3, <3>7, <3>8 DEF FewInv
    <2>7. CASE Down(r)
      <3>1. /\ schema' = schema \ {Newest(r)} /\ UNCHANGED <<tracked, todo>>
            /\ pc[r] = "down" /\ pc' = [pc EXCEPT ![r] = "unrecord"]
        BY <2>7 DEF Down
      <3>2. Unrecorded' \subseteq Unrecorded
        BY <3>1 DEF Unrecorded, Recorded
      <3>3. \A q \in Runners : pc'[q] = "unrecord" => Newest(q)' \notin schema'
        BY <3>1 DEF FewInv, Newest, AloneInv, Reverses, TypeOK
      <3> QED BY <2>3, <3>1, <3>2, <3>3
    <2>8. CASE Unrecord(r)
      <3>1. /\ UNCHANGED schema /\ pc[r] = "unrecord"
            /\ tracked' = [tracked EXCEPT ![Newest(r)] = 0]
        BY <2>8 DEF Unrecord
      <3>2. PICK p \in {"idle", "down"} : pc' = [pc EXCEPT ![r] = p]
        BY <2>8 DEF Unrecord
      <3>3. Newest(r) \notin schema
        BY <3>1 DEF FewInv
      <3>4. Unrecorded' \subseteq Unrecorded
        BY <2>2, <3>1, <3>3 DEF Unrecorded, Recorded, TypeOK
      <3>5. \A q \in Runners : pc'[q] # "unrecord"
        BY <3>1, <3>2 DEF AloneInv, Reverses, TypeOK
      <3> QED BY <2>3, <3>2, <3>4, <3>5
    <2> QED BY <1>3, <2>4, <2>5, <2>6, <2>7, <2>8 DEF Works
  <1>4. CASE UNCHANGED vars
    BY <1>4 DEF vars, dbVars, FewInv, Unrecorded, Upping, Recorded, Newest
  <1> QED BY <1>2, <1>3, <1>4 DEF Next, Finished

\* What the theorems of this part rest on.
LEMMA AppliedKept ==
    ASSUME Alone
    PROVE  Spec => [](TypeOK /\ AppliedInv /\ FewInv)
  <1>1. Init => AloneInv /\ AppliedInv /\ FewInv
    <2> SUFFICES ASSUME Init PROVE AloneInv /\ AppliedInv /\ FewInv
      OBVIOUS
    <2>1. Unrecorded = {} /\ Upping = {} /\ Recorded = {} /\ runs = 0
      BY DEF Init, Unrecorded, Upping, Recorded
    <2>2. FewInv
      BY <2>1, FS_EmptySet DEF Init, FewInv
    <2> QED BY <2>1, <2>2 DEF Init, AloneInv, Reverses, AppliedInv, RecordedIsApplied
  <1>2. TypeOK /\ AloneInv /\ [Next]_vars => AloneInv'
    BY NextAlone
  <1> QED BY <1>1, <1>2, InitType, NextType, NextApplied, NextFew, PTL DEF Spec

\* What is recorded is in effect, save what a rollback has just reversed or had
\* reversed when it died; whatever migrates race and whatever the releases are
\* (runMigration() and rollback(), migrate.ts).
THEOREM AppliedCorrect ==
    ASSUME Alone
    PROVE  Spec => []RecordedIsApplied
  <1>1. AppliedInv => RecordedIsApplied
    BY DEF AppliedInv
  <1> QED BY <1>1, AppliedKept, PTL

\* No command leaves more than one migration in effect without its record: the
\* one between up() and the INSERT that follows it (migrate.ts).
THEOREM FewCorrect ==
    ASSUME Alone
    PROVE  Spec => []UnrecordedAreFew
  <1>1. TypeOK /\ FewInv => UnrecordedAreFew
    <2> SUFFICES ASSUME TypeOK, FewInv PROVE UnrecordedAreFew
      OBVIOUS
    <2> DEFINE U == Cardinality(Unrecorded)
               C == Cardinality(Upping)
    <2>1. U \in Nat /\ C \in Nat /\ U + C <= runs /\ runs \in Nat
      BY UnrecordedFinite, FS_CardinalityType, MigrateAssumption DEF FewInv, TypeOK
    <2>2. U <= runs
      <3> HIDE DEF U, C
      <3> QED BY <2>1
    <2> QED BY <2>2 DEF UnrecordedAreFew, Unrecorded
  <1> QED BY <1>1, AppliedKept, PTL
=============================================================================
