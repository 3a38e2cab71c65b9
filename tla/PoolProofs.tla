----------------------------- MODULE PoolProofs -----------------------------
(***************************************************************************)
(* Theorems about PoolLifecycle, for any number of callers and pools, the  *)
(* three engines, and any use of them.                                     *)
(***************************************************************************)
EXTENDS PoolLifecycle, TLAPS

\* The parts of the type invariant that the steps below change.
LEMMA GoesType ==
    ASSUME TypeOK, NEW c \in Callers,
           NEW s \in {"idle", "connecting", "using", "closing"}, NEW p \in Pools \cup {0},
           (p = 0) <=> (s = "idle"), Goes(c, s, p),
           state' \in [Pools -> {"none", "connecting", "open", "ending", "ended", "failed"}],
           pool' \in Pools \cup {0}, UNCHANGED <<engine, use>>
    PROVE  TypeOK'
  BY DEF TypeOK, Goes

\* Pools are numbered from 1, so that 0 is none of them.
LEMMA NoPoolZero == 0 \notin Pools
  BY PoolAssumption DEF Pools

\* Every step keeps the variables typed.
LEMMA NextType == TypeOK /\ [Next]_vars => TypeOK'
  <1> SUFFICES ASSUME TypeOK, [Next]_vars PROVE TypeOK'
    OBVIOUS
  <1> USE NoPoolZero
  <1>1. ASSUME NEW c \in Callers, UNCHANGED <<engine, use>>,
               Use(c) \/ Open(c) \/ Connect(c) \/ Connected(c) \/ ConnectFails(c) \/ Used(c)
                 \/ Close(c) \/ Closed(c) \/ CloseFails(c) \/ Configure(c)
        PROVE  TypeOK'
    <2>1. CASE Use(c)
      BY <1>1, <2>1, GoesType DEF Use, TypeOK
    <2>2. CASE Open(c)
      BY <1>1, <2>2, GoesType DEF Open, Create, TypeOK
    <2>3. CASE Connect(c)
      BY <1>1, <2>3, GoesType DEF Connect, Create, TypeOK
    <2>4. held[c] = 0 <=> pc[c] = "idle"
      BY DEF TypeOK
    <2>5. CASE Connected(c)
      BY <1>1, <2>4, <2>5, GoesType DEF Connected, TypeOK
    <2>6. CASE ConnectFails(c)
      BY <1>1, <2>6, GoesType DEF ConnectFails, TypeOK
    <2>7. CASE Used(c)
      BY <1>1, <2>7, GoesType DEF Used, TypeOK
    <2>8. CASE Close(c)
      BY <1>1, <2>8, GoesType DEF Close, TypeOK
    <2>9. CASE Closed(c)
      BY <1>1, <2>9, GoesType DEF Closed, TypeOK
    <2>10. CASE Configure(c)
      BY <1>1, <2>10 DEF Configure, TypeOK
    <2>11. CASE CloseFails(c)
      BY <1>1, <2>11, GoesType DEF CloseFails, TypeOK
    <2> QED BY <1>1, <2>1, <2>2, <2>3, <2>5, <2>6, <2>7, <2>8, <2>9, <2>10, <2>11
  <1>2. CASE EndsInBackground /\ UNCHANGED <<engine, use>>
    BY <1>2 DEF EndsInBackground, TypeOK
  <1>3. CASE UNCHANGED vars
    BY <1>3 DEF vars, TypeOK
  <1> QED BY <1>1, <1>2, <1>3 DEF Next, Works

\* Every variable keeps its type, and a caller has a pool just while it works
\* with one.
THEOREM TypeCorrect == Spec => []TypeOK
  <1>1. Init => TypeOK
    BY DEF Init, TypeOK
  <1> QED BY <1>1, NextType, PTL DEF Spec

-----------------------------------------------------------------------------
(* The shared variable never names a dead pool.  That a failing connect()     *)
(* does not end the pool the variable names needs that a pool has one caller  *)
(* connecting it, and is not shared before it is connected.                   *)

ConnectInv ==
    /\ pool # 0 => state[pool] \in {"open", "ending", "ended", "failed"}
    /\ \A c \in Callers :
          /\ pc[c] = "connecting" => state[held[c]] = "connecting"
          /\ pc[c] = "closing" => state[held[c]] \in {"ending", "ended", "failed"}
    /\ \A c, d \in Callers :
          pc[c] = "connecting" /\ pc[d] = "connecting" /\ held[c] = held[d] => c = d

\* A step keeps it: one step per action.
LEMMA NextConnect == TypeOK /\ ConnectInv /\ [Next]_vars => ConnectInv'
  <1> SUFFICES ASSUME TypeOK, ConnectInv, [Next]_vars PROVE ConnectInv'
    OBVIOUS
  <1> USE NoPoolZero
  <1>0. \A c \in Callers : pc[c] # "idle" => held[c] \in Pools
    BY DEF TypeOK
  <1>1. ASSUME NEW c \in Callers, Use(c) \/ Used(c) PROVE ConnectInv'
    BY <1>1 DEF Use, Used, Goes, ConnectInv, TypeOK
  <1>2. ASSUME NEW c \in Callers, Open(c) PROVE ConnectInv'
    BY <1>0, <1>2 DEF Open, Create, Goes, ConnectInv, TypeOK
  <1>3. ASSUME NEW c \in Callers, Connect(c) PROVE ConnectInv'
    BY <1>0, <1>3 DEF Connect, Create, Goes, ConnectInv, TypeOK
  <1>4. ASSUME NEW c \in Callers, Connected(c) PROVE ConnectInv'
    BY <1>0, <1>4 DEF Connected, Goes, ConnectInv, TypeOK
  <1>5. ASSUME NEW c \in Callers, ConnectFails(c) PROVE ConnectInv'
    BY <1>0, <1>5 DEF ConnectFails, Goes, ConnectInv, TypeOK
  <1>6. ASSUME NEW c \in Callers, Close(c) PROVE ConnectInv'
    BY <1>0, <1>6 DEF Close, Goes, ConnectInv, TypeOK
  <1>7. ASSUME NEW c \in Callers, Closed(c) \/ CloseFails(c) PROVE ConnectInv'
    BY <1>0, <1>7 DEF Closed, CloseFails, Goes, ConnectInv, TypeOK
  <1>8. ASSUME NEW c \in Callers, Configure(c) PROVE ConnectInv'
    BY <1>0, <1>8 DEF Configure, ConnectInv, TypeOK
  <1>9. CASE EndsInBackground
    BY <1>0, <1>9 DEF EndsInBackground, ConnectInv, TypeOK
  <1>10. CASE UNCHANGED vars
    BY <1>10 DEF vars, ConnectInv
  <1> QED BY <1>1, <1>2, <1>3, <1>4, <1>5, <1>6, <1>7, <1>8, <1>9, <1>10 DEF Next, Works

\* A pool that the variable names is put in it open, and stops being so in a
\* close(), which clears the variable before it is over, or in a configure(),
\* which clears it first.
LEMMA NextDeadPool == TypeOK /\ ConnectInv /\ NoDeadPool /\ [Next]_vars => NoDeadPool'
  <1> SUFFICES ASSUME TypeOK, ConnectInv, NoDeadPool, [Next]_vars PROVE NoDeadPool'
    OBVIOUS
  <1> USE NoPoolZero
  <1>0. \A c \in Callers : pc[c] # "idle" => held[c] \in Pools
    BY DEF TypeOK
  <1>1. ASSUME NEW c \in Callers, Use(c) \/ Used(c) \/ Connect(c) \/ ConnectFails(c)
        PROVE  NoDeadPool'
    <2>1. pool # 0 /\ state[pool] = "open" => state'[pool] = "open"
      BY <1>1 DEF Use, Used, Connect, Create, ConnectFails, ConnectInv, TypeOK
    <2>2. \A d \in Callers : pc[d] = "closing" => pc'[d] = "closing" /\ held'[d] = held[d]
      BY <1>1 DEF Use, Used, Connect, ConnectFails, Goes, TypeOK
    <2>3. pool' = pool
      BY <1>1 DEF Use, Used, Connect, ConnectFails
    <2>4. pool # 0 /\ state[pool] = "failed" => state'[pool] = "failed"
      BY <1>1 DEF Use, Used, Connect, Create, ConnectFails, ConnectInv, TypeOK
    <2> QED BY <2>1, <2>2, <2>3, <2>4 DEF NoDeadPool
  <1>2. ASSUME NEW c \in Callers, Open(c) \/ Connected(c) PROVE NoDeadPool'
    BY <1>2 DEF Open, Connected, Create, NoDeadPool, TypeOK
  <1>3. ASSUME NEW c \in Callers, Close(c) PROVE NoDeadPool'
    BY <1>3 DEF Close, Goes, NoDeadPool, TypeOK
  <1>4. ASSUME NEW c \in Callers, Closed(c) \/ Configure(c) PROVE NoDeadPool'
    BY <1>4 DEF Closed, Configure, NoDeadPool
  <1>5. CASE EndsInBackground
    BY <1>5 DEF EndsInBackground, NoDeadPool, TypeOK
  <1>6. CASE UNCHANGED vars
    BY <1>6 DEF vars, NoDeadPool
  <1>7. ASSUME NEW c \in Callers, CloseFails(c) PROVE NoDeadPool'
    <2>1. held[c] \in Pools /\ state[held[c]] \in {"ending", "ended", "failed"}
      BY <1>7 DEF CloseFails, ConnectInv, TypeOK
    <2>2. CASE pool = held[c]
      BY <1>7, <2>1, <2>2 DEF CloseFails, NoDeadPool, TypeOK
    <2>3. CASE pool # held[c]
      BY <1>7, <2>1, <2>3 DEF CloseFails, Goes, NoDeadPool, TypeOK
    <2> QED BY <2>2, <2>3
  <1> QED BY <1>1, <1>2, <1>3, <1>4, <1>5, <1>6, <1>7 DEF Next, Works

\* Outside of a close() the driver never works with a pool that has ended: the
\* next use opens a new one (getPool and closePool, connection.ts).
THEOREM DeadPoolCorrect == Spec => []NoDeadPool
  <1>1. Init => TypeOK /\ ConnectInv /\ NoDeadPool
    BY DEF Init, TypeOK, ConnectInv, NoDeadPool
  <1>2. TypeOK /\ ConnectInv /\ NoDeadPool /\ [Next]_vars => (TypeOK /\ ConnectInv /\ NoDeadPool)'
    BY NextType, NextConnect, NextDeadPool
  <1> QED BY <1>1, <1>2, PTL DEF Spec

-----------------------------------------------------------------------------
(* No pool is lost, when close() and configure() do not overlap other calls. *)

\* With an engine that creates its pool in one step nobody connects; and a
\* close() that started alone is the only one, closes the shared pool, and
\* keeps it out of use until it is over.
QuietInv ==
    use = "quiet" /\ ~ AsyncConnect =>
        /\ NoOrphan
        /\ \A c \in Callers : pc[c] # "connecting"
        /\ \A c \in Callers : pc[c] = "closing" => pool = held[c] /\ state[pool] # "open"
        /\ \A c, d \in Callers : pc[c] = "closing" /\ pc[d] = "closing" => c = d

\* A step keeps it: one step per action.
LEMMA NextQuiet == TypeOK /\ QuietInv /\ [Next]_vars => QuietInv'
  <1> SUFFICES ASSUME TypeOK, QuietInv, [Next]_vars, use = "quiet", ~ AsyncConnect PROVE QuietInv'
    BY DEF Next, vars, QuietInv, AsyncConnect
  <1> USE NoPoolZero
  <1>0. \A c \in Callers : pc[c] # "idle" => held[c] \in Pools
    BY DEF TypeOK
  <1>1. ASSUME NEW c \in Callers, Use(c) \/ Used(c) PROVE QuietInv'
    BY <1>1 DEF Use, Used, Goes, QuietInv, NoOrphan, TypeOK
  <1>2. ASSUME NEW c \in Callers, Open(c) PROVE QuietInv'
    BY <1>0, <1>2 DEF Open, Create, Goes, QuietInv, NoOrphan, TypeOK
  <1>3. ASSUME NEW c \in Callers, Connect(c) \/ Connected(c) \/ ConnectFails(c) PROVE FALSE
    BY <1>3 DEF Connect, Connected, ConnectFails, QuietInv
  <1>4. ASSUME NEW c \in Callers, Close(c) PROVE QuietInv'
    BY <1>4 DEF Close, Alone, Goes, QuietInv, NoOrphan, TypeOK
  <1>5. ASSUME NEW c \in Callers, Closed(c) \/ CloseFails(c) PROVE QuietInv'
    BY <1>0, <1>5 DEF Closed, CloseFails, Goes, QuietInv, NoOrphan, TypeOK
  <1>6. ASSUME NEW c \in Callers, Configure(c) PROVE QuietInv'
    BY <1>6 DEF Configure, Alone, QuietInv, NoOrphan, TypeOK
  <1>7. CASE EndsInBackground
    BY <1>7 DEF EndsInBackground, QuietInv, NoOrphan, TypeOK
  <1>8. CASE UNCHANGED vars
    BY <1>8 DEF vars, QuietInv, NoOrphan, AsyncConnect
  <1> QED BY <1>1, <1>2, <1>3, <1>4, <1>5, <1>6, <1>7, <1>8 DEF Next, Works

\* close() and configure() reach every open pool of mysql and postgres when
\* they are called while the driver is quiet ("Reconfigure only when
\* quiescent", connection.ts:15-19).
THEOREM OrphanCorrect == Spec => []NoOrphanWhenQuiet
  <1>1. Init => TypeOK /\ QuietInv
    BY DEF Init, TypeOK, QuietInv, NoOrphan
  <1>2. TypeOK /\ QuietInv /\ [Next]_vars => (TypeOK /\ QuietInv)'
    BY NextType, NextQuiet
  <1>3. QuietInv => NoOrphanWhenQuiet
    BY DEF QuietInv, NoOrphanWhenQuiet
  <1> QED BY <1>1, <1>2, <1>3, PTL DEF Spec
=============================================================================
