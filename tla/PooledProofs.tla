---------------------------- MODULE PooledProofs ----------------------------
(***************************************************************************)
(* Theorems about PooledTx, for any number of calls and connections and    *)
(* any failures of the server: every checkout is given back, once, and     *)
(* serves nobody else meanwhile; as long as the server accepts every       *)
(* ROLLBACK, transactions do not mix; and, if no callback catches the      *)
(* error of a statement and goes on, they end with all or nothing and      *)
(* report in their hooks what is durable.  All of them assume OnceOnMysql: *)
(* a handle of the mysql driver is not disposed twice.                     *)
(***************************************************************************)
EXTENDS PooledTx, TLAPS

OnceOnMysql == \A s \in Settings : s.twice => s.engine = "postgres"

-----------------------------------------------------------------------------
(* The inductive invariant. *)

\* The pool's side of the state ...
PoolTypes ==
    /\ setting \in Settings
    /\ pc \in [Flows -> Steps]
    /\ free \in SUBSET Conns
    /\ queue \in Seq(Flows)
    /\ conn \in [Flows -> Conns \cup {NoConn}]
    /\ released \in [Flows -> Nat]

\* Steps in which a flow has asked for a connection and not given it back.
Before  == {"idle", "waiting"}
Holding == {"granted", "open", "catching", "draining", "leaving"}

\* A flow has a connection from its checkout on, and has given it back when it
\* ended; only a second dispose runs after that.
Checkouts ==
    \A f \in Flows :
        /\ pc[f] \in Before => conn[f] = NoConn
        /\ pc[f] \notin Before => conn[f] \in Conns
        /\ pc[f] \in Before \cup Holding => released[f] = 0
        /\ HasEnded(f) => released[f] > 0
        /\ ~ setting.twice => released[f] = IF HasEnded(f) THEN 1 ELSE 0

\* The pending checkouts are those of waiting flows, each once.
Pending ==
    /\ \A i \in DOMAIN queue : pc[queue[i]] = "waiting"
    /\ \A i, j \in DOMAIN queue : i # j => queue[i] # queue[j]

\* A connection that is not idle is checked out.
AllOut == \A c \in Conns \ free : \E f \in Flows : HasConn(f) /\ conn[f] = c

PoolInv == PoolTypes /\ Checkouts /\ Pending /\ ExclusiveConnection /\ AllOut

-----------------------------------------------------------------------------
(* Every step keeps it. *)

\* A step that leaves the pool alone.
LEMMA Moves ==
    ASSUME PoolInv, NEW f \in Flows, NEW s \in Steps \ Ended,
           pc' = [pc EXCEPT ![f] = s], UNCHANGED <<setting, poolVars, released>>,
           pc[f] \notin Before, s \notin Before,
           s \in Holding => pc[f] \in Holding,
           HasEnded(f) => setting.twice
    PROVE  PoolInv'
  <1>0. /\ pc'[f] = s /\ \A g \in Flows \ {f} : pc'[g] = pc[g]
        /\ UNCHANGED <<setting, free, queue, conn, released>>
    BY DEF PoolInv, PoolTypes, poolVars
  <1>1. PoolTypes'
    BY <1>0 DEF PoolInv, PoolTypes
  <1>2. Checkouts'
    BY <1>0 DEF PoolInv, Checkouts, HasEnded, Holding, Before
  <1>3. Pending'
    <2>1. \A i \in DOMAIN queue : queue[i] \in Flows \ {f}
      BY DEF PoolInv, PoolTypes, Pending, Before
    <2> QED BY <1>0, <2>1 DEF PoolInv, Pending
  <1>4. ExclusiveConnection' /\ AllOut'
    BY <1>0 DEF PoolInv, ExclusiveConnection, AllOut, HasConn
  <1> QED BY <1>1, <1>2, <1>3, <1>4 DEF PoolInv

\* A checkout takes an idle connection or the last place in the queue.
LEMMA Gets ==
    ASSUME PoolInv, NEW f \in Flows, pc[f] = "idle", getConnection(f), UNCHANGED <<setting, released>>
    PROVE  PoolInv'
  <1> USE IdsAssumption
  <1>1. CASE /\ free = {} /\ queue' = Append(queue, f)
             /\ pc' = [pc EXCEPT ![f] = "waiting"] /\ UNCHANGED <<free, conn>>
    <2>0. pc'[f] = "waiting" /\ \A g \in Flows \ {f} : pc'[g] = pc[g]
      BY <1>1 DEF PoolInv, PoolTypes
    <2>1. PoolTypes'
      BY <1>1 DEF PoolInv, PoolTypes, Steps
    <2>2. Checkouts'
      BY <1>1, <2>0 DEF PoolInv, Checkouts, HasEnded, Holding, Before, Ended
    <2>3. \A i \in DOMAIN queue : queue[i] \in Flows \ {f}
      BY DEF PoolInv, PoolTypes, Pending
    <2>4. \A i \in DOMAIN queue' : queue'[i] = IF i \in DOMAIN queue THEN queue[i] ELSE f
      BY <1>1 DEF PoolInv, PoolTypes
    <2>5. \A i, j \in DOMAIN queue' : i \notin DOMAIN queue /\ j \notin DOMAIN queue => i = j
      BY <1>1 DEF PoolInv, PoolTypes
    <2>6. Pending'
      <3>1. ASSUME NEW i \in DOMAIN queue' PROVE pc'[queue'[i]] = "waiting"
        BY <2>0, <2>3, <2>4 DEF PoolInv, Pending
      <3>2. ASSUME NEW i \in DOMAIN queue', NEW j \in DOMAIN queue', i # j
            PROVE  queue'[i] # queue'[j]
        <4>1. CASE i \in DOMAIN queue /\ j \in DOMAIN queue
          BY <2>4, <3>2, <4>1 DEF PoolInv, Pending
        <4>2. CASE i \notin DOMAIN queue
          BY <2>3, <2>4, <2>5, <3>2, <4>2
        <4>3. CASE j \notin DOMAIN queue
          BY <2>3, <2>4, <2>5, <3>2, <4>3
        <4> QED BY <4>1, <4>2, <4>3
      <3> QED BY <3>1, <3>2 DEF Pending
    <2>7. ExclusiveConnection' /\ AllOut'
      BY <1>1 DEF PoolInv, ExclusiveConnection, AllOut, HasConn
    <2> QED BY <2>1, <2>2, <2>6, <2>7 DEF PoolInv
  <1>2. ASSUME NEW c \in free, free' = free \ {c}, conn' = [conn EXCEPT ![f] = c],
               pc' = [pc EXCEPT ![f] = "granted"], UNCHANGED queue
        PROVE  PoolInv'
    <2>0. /\ pc'[f] = "granted" /\ conn'[f] = c /\ c \in Conns /\ c # NoConn
          /\ \A g \in Flows \ {f} : pc'[g] = pc[g] /\ conn'[g] = conn[g]
      BY <1>2 DEF PoolInv, PoolTypes
    <2>1. PoolTypes'
      BY <1>2, <2>0 DEF PoolInv, PoolTypes, Steps
    <2>2. Checkouts'
      BY <1>2, <2>0 DEF PoolInv, Checkouts, HasEnded, Holding, Before, Ended
    <2>3. \A i \in DOMAIN queue : queue[i] \in Flows \ {f}
      BY DEF PoolInv, PoolTypes, Pending
    <2>4. Pending'
      BY <1>2, <2>0, <2>3 DEF PoolInv, Pending
    <2>5. released[f] = 0
      BY DEF PoolInv, Checkouts, Before
    <2>6. ExclusiveConnection'
      BY <1>2, <2>0, <2>5 DEF PoolInv, ExclusiveConnection, HasConn
    <2>7. AllOut'
      BY <1>2, <2>0, <2>5 DEF PoolInv, AllOut, HasConn, Checkouts, Before
    <2> QED BY <2>1, <2>2, <2>4, <2>6, <2>7 DEF PoolInv
  <1> QED BY <1>1, <1>2 DEF getConnection

\* A release makes the connection idle or another flow's, unless it was given
\* back before.
LEMMA Releases ==
    ASSUME OnceOnMysql, PoolInv, NEW f \in Flows, NEW s \in Ended, pc[f] \notin Before \cup Ended,
           release(f, s), UNCHANGED setting
    PROVE  PoolInv'
  <1> USE IdsAssumption
  <1>0. /\ released'[f] = released[f] + 1 /\ released[f] \in Nat
        /\ \A g \in Flows \ {f} : released'[g] = released[g]
        /\ released' \in [Flows -> Nat] /\ conn[f] \in Conns /\ conn[f] # NoConn
    BY DEF release, PoolInv, PoolTypes, Checkouts
  <1>00. \A i \in DOMAIN queue : queue[i] \in Flows \ {f}
    BY DEF PoolInv, PoolTypes, Pending, Before
  <1>1. Engine = "mysql" => released[f] = 0
    BY DEF OnceOnMysql, Engine, PoolInv, PoolTypes, Checkouts, HasEnded
  <1>2. s \in Steps /\ s \notin Before \cup Holding
    BY DEF Steps, Ended, Before, Holding
  <1>3. ~ setting.twice => released[f] = 0
    BY DEF PoolInv, Checkouts, HasEnded
  <1>4. CASE released[f] > 0 /\ pc' = [pc EXCEPT ![f] = s] /\ UNCHANGED poolVars
    <2>0. /\ pc'[f] = s /\ \A g \in Flows \ {f} : pc'[g] = pc[g]
          /\ UNCHANGED <<free, queue, conn>>
      BY <1>4 DEF PoolInv, PoolTypes, poolVars
    <2>1. PoolTypes'
      BY <1>0, <1>2, <1>4, <2>0 DEF PoolInv, PoolTypes
    <2>2. Checkouts'
      BY <1>0, <1>2, <1>3, <1>4, <2>0 DEF PoolInv, Checkouts, HasEnded
    <2>3. Pending'
      BY <1>00, <2>0 DEF PoolInv, Pending
    <2>4. \A g \in Flows : HasConn(g)' <=> HasConn(g)
      BY <1>0, <1>4, <2>0 DEF HasConn
    <2>5. ExclusiveConnection' /\ AllOut'
      BY <2>0, <2>4 DEF PoolInv, ExclusiveConnection, AllOut
    <2> QED BY <2>1, <2>2, <2>3, <2>5 DEF PoolInv
  <1>5. ASSUME released[f] = 0, queue = <<>>, free' = free \cup {conn[f]},
               pc' = [pc EXCEPT ![f] = s], UNCHANGED <<queue, conn>>
        PROVE  PoolInv'
    <2>0. pc'[f] = s /\ \A g \in Flows \ {f} : pc'[g] = pc[g]
      BY <1>5 DEF PoolInv, PoolTypes
    <2>1. PoolTypes'
      BY <1>0, <1>2, <1>5, <2>0 DEF PoolInv, PoolTypes
    <2>2. Checkouts'
      BY <1>0, <1>2, <1>5, <2>0 DEF PoolInv, Checkouts, HasEnded
    <2>3. Pending'
      BY <1>5 DEF Pending
    <2>4. ~ HasConn(f)' /\ HasConn(f) /\ \A g \in Flows \ {f} : HasConn(g)' <=> HasConn(g)
      BY <1>0, <1>5 DEF HasConn
    <2>5. ExclusiveConnection'
      BY <1>5, <2>4 DEF PoolInv, ExclusiveConnection
    <2>6. AllOut'
      BY <1>5, <2>4 DEF PoolInv, AllOut
    <2> QED BY <2>1, <2>2, <2>3, <2>5, <2>6 DEF PoolInv
  <1>6. ASSUME released[f] = 0, queue # <<>>, queue' = Tail(queue),
               conn' = [conn EXCEPT ![Head(queue)] = conn[f]],
               pc' = [pc EXCEPT ![f] = s, ![Head(queue)] = "granted"], UNCHANGED free
        PROVE  PoolInv'
    <2>0. Head(queue) \in Flows
      BY <1>6 DEF PoolInv, PoolTypes
    <2> PICK h \in Flows : h = Head(queue)
      BY <2>0
    <2>1. 1 \in DOMAIN queue /\ h = queue[1]
      BY <1>6 DEF PoolInv, PoolTypes
    <2>2. h \in Flows \ {f} /\ pc[h] = "waiting" /\ conn[h] = NoConn /\ released[h] = 0
      BY <1>00, <2>1 DEF PoolInv, Pending, Checkouts, Before
    <2>3. /\ pc'[f] = s /\ pc'[h] = "granted" /\ \A g \in Flows \ {f, h} : pc'[g] = pc[g]
          /\ conn'[h] = conn[f] /\ \A g \in Flows \ {h} : conn'[g] = conn[g]
      BY <1>6, <2>2 DEF PoolInv, PoolTypes
    <2>4. PoolTypes'
      BY <1>0, <1>2, <1>6, <2>2 DEF PoolInv, PoolTypes, Steps
    <2>5. Checkouts'
      <3> DEFINE P(g) ==
            /\ pc[g] \in Before => conn[g] = NoConn
            /\ pc[g] \notin Before => conn[g] \in Conns
            /\ pc[g] \in Before \cup Holding => released[g] = 0
            /\ HasEnded(g) => released[g] > 0
            /\ ~ setting.twice => released[g] = IF HasEnded(g) THEN 1 ELSE 0
      <3>1. P(f)'
        <4>1. conn'[f] = conn[f] /\ pc'[f] = s /\ released'[f] = 1
          BY <1>0, <1>6, <2>2, <2>3
        <4> QED BY <1>0, <1>2, <4>1 DEF HasEnded
      <3>2. P(h)'
        <4>1. conn'[h] = conn[f] /\ pc'[h] = "granted" /\ released'[h] = 0
          BY <1>0, <2>2, <2>3
        <4> QED BY <1>0, <4>1 DEF HasEnded, Before, Ended
      <3>3. ASSUME NEW g \in Flows \ {f, h} PROVE P(g)'
        <4>1. conn'[g] = conn[g] /\ pc'[g] = pc[g] /\ released'[g] = released[g]
          BY <1>0, <2>3
        <4> QED BY <4>1 DEF PoolInv, Checkouts, HasEnded
      <3> QED BY <3>1, <3>2, <3>3 DEF Checkouts
    <2>6. \A i \in DOMAIN queue' : /\ i + 1 \in DOMAIN queue /\ i + 1 # 1
                                   /\ queue'[i] = queue[i + 1]
      BY <1>6 DEF PoolInv, PoolTypes
    <2>7. \A i \in DOMAIN queue' : queue'[i] \in Flows \ {f, h} /\ pc[queue'[i]] = "waiting"
      BY <1>00, <2>1, <2>6 DEF PoolInv, Pending
    <2>8. Pending'
      <3>1. \A i \in DOMAIN queue' : pc'[queue'[i]] = "waiting"
        BY <2>3, <2>7
      <3>2. DOMAIN queue' \subseteq Nat
        BY <1>6 DEF PoolInv, PoolTypes
      <3>3. \A i, j \in DOMAIN queue' : i # j => queue'[i] # queue'[j]
        BY <2>6, <3>2 DEF PoolInv, Pending
      <3> QED BY <3>1, <3>3 DEF Pending
    <2>9. /\ HasConn(f) /\ ~ HasConn(f)' /\ HasConn(h)' /\ ~ HasConn(h)
          /\ \A g \in Flows \ {f, h} : HasConn(g)' <=> HasConn(g)
      <3>1. conn'[f] = conn[f] /\ released'[f] = 1 /\ released'[h] = 0
        BY <1>0, <1>6, <2>2, <2>3
      <3>2. \A g \in Flows \ {f, h} : conn'[g] = conn[g] /\ released'[g] = released[g]
        BY <1>0, <2>3
      <3> QED BY <1>0, <1>6, <2>2, <2>3, <3>1, <3>2 DEF HasConn
    <2>10. ExclusiveConnection'
      BY <1>6, <2>2, <2>3, <2>9 DEF PoolInv, ExclusiveConnection
    <2>11. AllOut'
      <3> SUFFICES ASSUME NEW c \in Conns \ free PROVE \E g \in Flows : HasConn(g)' /\ conn'[g] = c
        BY <1>6 DEF AllOut
      <3>1. PICK g \in Flows : HasConn(g) /\ conn[g] = c
        BY DEF PoolInv, AllOut
      <3>2. CASE g = f
        BY <2>2, <2>3, <2>9, <3>1, <3>2
      <3>3. CASE g # f
        BY <2>3, <2>9, <3>1, <3>3
      <3> QED BY <3>2, <3>3
    <2> QED BY <2>4, <2>5, <2>8, <2>10, <2>11 DEF PoolInv
  <1> QED BY <1>1, <1>4, <1>5, <1>6 DEF release

\* A step that touches nothing of it.
LEMMA Stays ==
    ASSUME PoolInv, UNCHANGED <<setting, pc, poolVars, released>>
    PROVE  PoolInv'
  BY DEF poolVars, PoolInv, PoolTypes, Checkouts, HasEnded, Pending, ExclusiveConnection, AllOut, HasConn

\* The steps of a TxHandle between a checkout and its release.
LEMMA HandleSteps ==
    ASSUME PoolInv, NEW f \in Flows, UNCHANGED setting,
           \/ BeginSucceeds(f) \/ Commit(f) \/ BodyThrows(f) \/ Rollback(f)
           \/ DisposeRollsBack(f) \/ Drain(f)
           \/ HandleCommit(f) \/ HandleRollback(f) \/ DisposeAgain(f) \/ HandleDispose(f)
    PROVE  PoolInv'
  <1> USE DEF Before, Holding, Ended, Steps, HasEnded
  <1>1. CASE BeginSucceeds(f)
    BY <1>1, Moves DEF BeginSucceeds
  <1>2. CASE Commit(f)
    <2>1. CASE pc' = [pc EXCEPT ![f] = "draining"]
      BY <1>2, <2>1, Moves DEF Commit
    <2>2. CASE pc' = [pc EXCEPT ![f] = "catching"]
      BY <1>2, <2>2, Moves DEF Commit
    <2> QED BY <1>2, <2>1, <2>2 DEF Commit, commit
  <1>3. CASE BodyThrows(f)
    BY <1>3, Moves DEF BodyThrows
  <1>4. CASE Rollback(f)
    BY <1>4, Moves DEF Rollback, rollback
  <1>5. CASE DisposeRollsBack(f)
    BY <1>5, Moves DEF DisposeRollsBack, rollback
  <1>6. CASE Drain(f)
    <2>1. CASE pc' = [pc EXCEPT ![f] = "open"]
      BY <1>6, <2>1, Moves DEF Drain
    <2>2. CASE pc' = [pc EXCEPT ![f] = "leaving"]
      BY <1>6, <2>2, Moves DEF Drain
    <2> QED BY <1>6, <2>1, <2>2 DEF Drain
  <1>7. CASE HandleCommit(f)
    <2>1. CASE pc' = [pc EXCEPT ![f] = "draining"]
      BY <1>7, <2>1, Moves DEF HandleCommit, ManualCall
    <2>2. CASE pc' = [pc EXCEPT ![f] = "open"]
      BY <1>7, <2>2, Moves DEF HandleCommit, ManualCall
    <2> QED BY <1>7, <2>1, <2>2 DEF HandleCommit, commit
  <1>8. CASE HandleRollback(f)
    BY <1>8, Moves DEF HandleRollback, ManualCall, rollback
  <1>9. CASE DisposeAgain(f)
    BY <1>9, Moves DEF DisposeAgain, ManualCall
  <1>10. CASE HandleDispose(f)
    BY <1>10, Moves DEF HandleDispose
  <1> QED BY <1>1, <1>2, <1>3, <1>4, <1>5, <1>6, <1>7, <1>8, <1>9, <1>10

\* One step per action.
LEMMA NextPool ==
    ASSUME OnceOnMysql
    PROVE  PoolInv /\ [Next]_vars => PoolInv'
  <1> SUFFICES ASSUME PoolInv, [Next]_vars PROVE PoolInv'
    OBVIOUS
  <1>1. ASSUME NEW f \in Flows, Starts(f) PROVE PoolInv'
    <2>1. pc[f] = "idle" /\ getConnection(f) /\ UNCHANGED <<setting, released>>
      BY <1>1 DEF Starts, Ask, IsNext
    <2> QED BY <2>1, Gets
  <1>2. ASSUME NEW f \in Flows, Continues(f) PROVE PoolInv'
    <2>1. CASE BeginFails(f) \/ PlainWorks(f) \/ PlainFails(f) \/ PlainReplyLost(f)
               \/ DisposeReleases(f)
      <3>1. PICK s \in Ended : release(f, s)
        BY <2>1 DEF BeginFails, PlainWorks, PlainFails, PlainReplyLost, DisposeReleases, Ended
      <3>2. pc[f] \notin Before \cup Ended
        BY <2>1 DEF BeginFails, PlainWorks, PlainFails, PlainReplyLost, DisposeReleases, Before, Ended
      <3> QED BY <1>2, <3>1, <3>2, Releases DEF Continues
    <2>2. CASE BodyWrites(f)
      BY <1>2, <2>2, Stays DEF BodyWrites, Continues
    <2>3. CASE BodyFails(f)
      <3>1. /\ pc[f] = "open" /\ UNCHANGED <<setting, poolVars, released>>
            /\ \/ UNCHANGED pc
               \/ pc' = [pc EXCEPT ![f] = "catching"]
               \/ pc' = [pc EXCEPT ![f] = "disposing"]
        BY <1>2, <2>3 DEF BodyFails, BodyRuns, Continues
      <3>2. CASE UNCHANGED pc
        BY <3>1, <3>2, Stays
      <3>3. CASE pc' = [pc EXCEPT ![f] = "catching"]
        BY <3>1, <3>3, Moves DEF Before, Holding, Ended, Steps, HasEnded
      <3>4. CASE pc' = [pc EXCEPT ![f] = "disposing"]
        BY <3>1, <3>4, Moves DEF Before, Holding, Ended, Steps, HasEnded
      <3> QED BY <3>1, <3>2, <3>3, <3>4
    <2> QED BY <1>2, <2>1, <2>2, <2>3, HandleSteps DEF Continues
  <1>3. CASE UNCHANGED vars
    BY <1>3, Stays DEF vars
  <1> QED BY <1>1, <1>2, <1>3 DEF Next, Quiescent

\* Nothing is checked out at first.
LEMMA InitPool == Init => PoolInv
  BY IdsAssumption DEF Init, PoolInv, PoolTypes, Steps, Ended, Checkouts, HasEnded, Before, Holding,
       Pending, ExclusiveConnection, AllOut, HasConn

\* No connection serves two calls at once, nested ones included, or is idle while
\* a call uses it (the checkouts of drivers/mysql.ts and drivers/postgres.ts).
THEOREM ExclusiveCorrect ==
    ASSUME OnceOnMysql
    PROVE  Spec => []ExclusiveConnection
  <1>1. PoolInv /\ [Next]_vars => PoolInv'
    BY NextPool
  <1>2. PoolInv => ExclusiveConnection
    BY DEF PoolInv
  <1> QED BY <1>1, <1>2, InitPool, PTL DEF Spec

\* Every connection is idle or some running call's, and a checkout is released
\* exactly once on every path ("exactly once per checkout, on every path
\* including throw", driver.ts:39-40), whatever statements the server refuses.
THEOREM ReturnCorrect ==
    ASSUME OnceOnMysql
    PROVE  Spec => []NoConnectionLost
  <1>1. PoolInv /\ [Next]_vars => PoolInv'
    BY NextPool
  <1>2. ASSUME PoolInv PROVE NoConnectionLost
    <2>1. ASSUME NEW c \in Conns \ free
          PROVE  \E f \in Flows : HasConn(f) /\ ~ HasEnded(f) /\ conn[f] = c
      <3>1. PICK f \in Flows : HasConn(f) /\ conn[f] = c
        BY <1>2 DEF PoolInv, AllOut
      <3>2. ~ HasEnded(f)
        BY <1>2, <3>1 DEF PoolInv, Checkouts, HasConn
      <3> QED BY <3>1, <3>2
    <2>2. ~ setting.twice => \A f \in Flows : released[f] = IF HasEnded(f) THEN 1 ELSE 0
      BY <1>2 DEF PoolInv, Checkouts
    <2> QED BY <2>1, <2>2 DEF NoConnectionLost
  <1> QED BY <1>1, <1>2, InitPool, PTL DEF Spec

-----------------------------------------------------------------------------
(* The rest of the types. *)

Tx == [by : Flows \cup {NoFlow}, writes : SUBSET WriteIds, status : {"ok", "aborted"}]

DataTypes ==
    /\ role \in [Flows -> setting.roles \cup {"none"}]
    /\ outer \in [Flows -> Flows \cup {NoFlow}]
    /\ settled \in [Flows -> BOOLEAN]
    /\ server \in [Conns -> Tx]
    /\ durable \in SUBSET WriteIds
    /\ written \in [Flows -> 0 .. MaxWrites]
    /\ deferred \in [Flows -> SUBSET WriteIds]
    /\ delivered \in SUBSET WriteIds
    /\ calls \in 0 .. MaxCalls

\* The parts of it that the server keeps.
ServerTypes ==
    /\ server \in [Conns -> Tx]
    /\ durable \in SUBSET WriteIds

\* No transaction, a new one, and changes to one.
LEMMA TxTypes ==
    /\ NoTx \in Tx /\ NoTx.by = NoFlow /\ NoTx.writes = {}
    /\ \A f \in Flows : [NoTx EXCEPT !.by = f] \in Tx
    /\ \A t \in Tx : /\ \A f \in Flows : [t EXCEPT !.by = f] \in Tx
                     /\ \A w \in WriteIds : [t EXCEPT !.writes = @ \cup {w}] \in Tx
                     /\ [t EXCEPT !.writes = {}, !.status = "aborted"] \in Tx
  BY DEF Tx, NoTx

\* BEGIN keeps the server's state typed.
LEMMA Begun ==
    ASSUME ServerTypes, NEW c \in Conns, NEW f \in Flows, Begins(c, f)
    PROVE  ServerTypes'
  <1>0. server[c] \in Tx /\ server[c].writes \subseteq WriteIds
    BY DEF ServerTypes, Tx
  <1>1. ASSUME NEW t \in Tx, server' = [server EXCEPT ![c] = t], durable' \subseteq WriteIds
        PROVE  ServerTypes'
    BY <1>1 DEF ServerTypes
  <1>2. CASE Engine = "mysql"
    BY <1>0, <1>1, <1>2, TxTypes DEF Begins, ServerTypes
  <1>3. CASE Engine # "mysql"
    BY <1>0, <1>1, <1>3, TxTypes DEF Begins, ServerTypes
  <1> QED BY <1>2, <1>3

\* COMMIT does.
LEMMA Committed ==
    ASSUME ServerTypes, NEW c \in Conns, Commits(c)
    PROVE  ServerTypes'
  <1>0. server[c].writes \subseteq WriteIds
    BY DEF ServerTypes, Tx
  <1> QED BY <1>0, TxTypes DEF Commits, ServerTypes

\* A write does.
LEMMA Written ==
    ASSUME ServerTypes, NEW c \in Conns, NEW w \in WriteIds, Writes(c, w)
    PROVE  ServerTypes'
  <1>0. server[c] \in Tx /\ [server[c] EXCEPT !.writes = @ \cup {w}] \in Tx
    BY TxTypes DEF ServerTypes
  <1>1. CASE server[c].by = NoFlow
    BY <1>1 DEF ServerTypes, Writes
  <1>2. CASE server[c].by # NoFlow
    BY <1>0, <1>2 DEF ServerTypes, Writes
  <1> QED BY <1>1, <1>2

\* So does a refused one.
LEMMA Refusals ==
    ASSUME ServerTypes, NEW c \in Conns,
           Refuses(c) \/ (server' = [server EXCEPT ![c] = NoTx] /\ UNCHANGED durable)
    PROVE  ServerTypes'
  <1>1. CASE server' \in {server, [server EXCEPT ![c] = NoTx]} /\ UNCHANGED durable
    BY <1>1, TxTypes DEF ServerTypes
  <1>2. CASE Refuses(c) /\ server' \notin {server, [server EXCEPT ![c] = NoTx]}
    BY <1>2 DEF ServerTypes, Refuses, Tx
  <1> QED BY <1>1, <1>2 DEF Refuses

\* Every write is named by its flow and its number.
LEMMA NextWrite ==
    ASSUME DataTypes, NEW f \in Flows, written[f] < MaxWrites
    PROVE  /\ <<f, written[f] + 1>> \in WriteIds /\ <<f, 1>> \in WriteIds
           /\ written[f] + 1 \in 0 .. MaxWrites /\ 1 \in 0 .. MaxWrites
  BY BoundsAssumption DEF DataTypes, WriteIds

\* One step per action.
LEMMA NextData == PoolInv /\ DataTypes /\ [Next]_vars => DataTypes'
  <1> SUFFICES ASSUME PoolInv, DataTypes, [Next]_vars PROVE DataTypes'
    OBVIOUS
  <1>0. ServerTypes
    BY DEF DataTypes, ServerTypes
  <1>1. ASSUME NEW f \in Flows, Starts(f) PROVE DataTypes'
    BY <1>1 DEF Starts, Ask, DataTypes, serverVars
  <1>2. ASSUME NEW f \in Flows, Continues(f) PROVE DataTypes'
    <2>0. UNCHANGED setting
      BY <1>2 DEF Continues
    <2>1. pc[f] \notin Before => conn[f] \in Conns
      BY DEF PoolInv, Checkouts
    <2>2. CASE BeginSucceeds(f)
      <3>1. conn[f] \in Conns /\ Begins(conn[f], f)
        BY <2>1, <2>2 DEF BeginSucceeds, Before
      <3>2. ServerTypes'
        BY <1>0, <3>1, Begun
      <3> QED BY <2>0, <2>2, <3>2 DEF BeginSucceeds, DataTypes, ServerTypes
    <2>3. CASE BeginFails(f) \/ DisposeReleases(f) \/ BodyThrows(f) \/ HandleDispose(f)
      BY <2>0, <2>3 DEF BeginFails, DisposeReleases, BodyThrows, HandleDispose, DataTypes, serverVars
    <2>4. CASE PlainWorks(f) \/ PlainReplyLost(f)
      <3>1. <<f, 1>> \in WriteIds /\ 1 \in 0 .. MaxWrites
        BY <2>4, NextWrite DEF PlainWorks, PlainReplyLost
      <3>2. conn[f] \in Conns /\ Writes(conn[f], <<f, 1>>)
        BY <2>1, <2>4 DEF PlainWorks, PlainReplyLost, Before
      <3>3. ServerTypes'
        BY <1>0, <3>1, <3>2, Written
      <3> QED BY <2>0, <2>4, <3>1, <3>3 DEF PlainWorks, PlainReplyLost, DataTypes, ServerTypes
    <2>10. CASE PlainFails(f) \/ BodyFails(f)
      <3>1. /\ conn[f] \in Conns
            /\ Refuses(conn[f]) \/ (server' = [server EXCEPT ![conn[f]] = NoTx] /\ UNCHANGED durable)
        BY <2>1, <2>10 DEF PlainFails, BodyFails, BodyRuns, Before
      <3>2. ServerTypes'
        BY <1>0, <3>1, Refusals
      <3> QED BY <2>0, <2>10, <3>2 DEF PlainFails, BodyFails, DataTypes, ServerTypes
    <2>5. CASE BodyWrites(f)
      <3>1. <<f, written[f] + 1>> \in WriteIds /\ written[f] + 1 \in 0 .. MaxWrites
        BY <2>5, NextWrite DEF BodyWrites
      <3>2. conn[f] \in Conns /\ Writes(conn[f], <<f, written[f] + 1>>)
        BY <2>1, <2>5 DEF BodyWrites, BodyRuns, Before
      <3>3. ServerTypes'
        BY <1>0, <3>1, <3>2, Written
      <3> QED BY <2>0, <2>5, <3>1, <3>3 DEF BodyWrites, DataTypes, ServerTypes
    <2>6. CASE Commit(f) \/ HandleCommit(f)
      <3>1. /\ conn[f] \in Conns
            /\ \E d, e \in Steps : commit(f, d, e)
            /\ UNCHANGED <<role, outer, written, deferred, delivered>>
            /\ calls' = calls \/ (calls < MaxCalls /\ calls' = calls + 1)
        BY <2>1, <2>6 DEF Commit, HandleCommit, ManualCall, Before, Steps
      <3>2. Commits(conn[f]) \/ UNCHANGED serverVars
        BY <3>1 DEF commit
      <3>3. ServerTypes'
        BY <1>0, <3>1, <3>2, Committed DEF ServerTypes, serverVars
      <3>4. settled' \in [Flows -> BOOLEAN]
        BY <3>1 DEF commit, DataTypes
      <3> QED BY <2>0, <3>1, <3>3, <3>4, BoundsAssumption DEF DataTypes, ServerTypes
    <2>7. CASE Rollback(f) \/ DisposeRollsBack(f) \/ HandleRollback(f)
      <3>1. /\ conn[f] \in Conns
            /\ \E d, e \in Steps : rollback(f, d, e)
            /\ UNCHANGED <<role, outer, written, deferred, delivered>>
            /\ calls' = calls \/ (calls < MaxCalls /\ calls' = calls + 1)
        BY <2>1, <2>7 DEF Rollback, DisposeRollsBack, HandleRollback, ManualCall, Before, Steps
      <3>2. \/ server' = [server EXCEPT ![conn[f]] = NoTx] /\ UNCHANGED durable
            \/ UNCHANGED serverVars
        BY <3>1 DEF rollback
      <3>3. ServerTypes'
        BY <1>0, <3>1, <3>2, TxTypes DEF ServerTypes, serverVars
      <3>4. settled' \in [Flows -> BOOLEAN]
        BY <3>1 DEF rollback, DataTypes
      <3> QED BY <2>0, <3>1, <3>3, <3>4, BoundsAssumption DEF DataTypes, ServerTypes
    <2>8. CASE Drain(f)
      BY <2>0, <2>8 DEF Drain, DataTypes, serverVars
    <2>9. CASE DisposeAgain(f)
      BY <2>0, <2>9, BoundsAssumption DEF DisposeAgain, ManualCall, DataTypes, serverVars
    <2> QED BY <1>2, <2>2, <2>3, <2>4, <2>5, <2>6, <2>7, <2>8, <2>9, <2>10 DEF Continues
  <1>3. CASE UNCHANGED vars
    BY <1>3 DEF vars, serverVars, DataTypes
  <1> QED BY <1>1, <1>2, <1>3 DEF Next, Quiescent

\* The variables are typed at first.
LEMMA InitData == Init => DataTypes
  <1> SUFFICES ASSUME Init PROVE DataTypes
    OBVIOUS
  <1>1. NoTx \in Tx /\ server = [c \in Conns |-> NoTx]
    BY TxTypes DEF Init
  <1>2. server \in [Conns -> Tx]
    BY <1>1
  <1>3. /\ role \in [Flows -> setting.roles \cup {"none"}]
        /\ outer \in [Flows -> Flows \cup {NoFlow}]
    BY DEF Init
  <1> QED BY <1>2, <1>3, BoundsAssumption DEF Init, DataTypes

\* Every variable keeps its type, and a flow past its checkout has a connection.
THEOREM TypeCorrect ==
    ASSUME OnceOnMysql
    PROVE  Spec => []TypeOK
  <1>1. PoolInv /\ [Next]_vars => PoolInv'
    BY NextPool
  <1>2. Init => DataTypes
    BY InitData
  <1>3. PoolInv /\ DataTypes => TypeOK
    BY DEF PoolInv, PoolTypes, Checkouts, Before, DataTypes, Tx, TypeOK
  <1> QED BY <1>1, <1>2, <1>3, InitPool, NextData, PTL DEF Spec

-----------------------------------------------------------------------------
(* What is open on a connection is its user's. *)

\* A settled handle has ended its transaction, and no handle gives its connection
\* back before.
CleanOf(f) ==
    /\ pc[f] \in Before \cup {"granted"} => ~ settled[f]
    /\ pc[f] \in {"draining", "leaving", "releasing", "disposed"} => settled[f]
    /\ released[f] > 0 /\ ~ HasEnded(f) => settled[f]
    /\ HasConn(f) /\ (pc[f] = "granted" \/ settled[f]) => server[conn[f]] = NoTx
    /\ HasConn(f) => \A w \in server[conn[f]].writes : w[1] = f

CleanInv ==
    RollbacksAccepted =>
        /\ \A c \in free : server[c] = NoTx
        /\ \A f \in Flows : CleanOf(f)

\* A step of one flow on its own connection.
LEMMA OwnStep ==
    ASSUME PoolInv, CleanInv, NEW f \in Flows, UNCHANGED <<setting, poolVars, released>>,
           HasConn(f) \/ UNCHANGED server,
           \A c \in Conns : c # conn[f] => server'[c] = server[c],
           \A g \in Flows \ {f} : pc'[g] = pc[g] /\ settled'[g] = settled[g],
           RollbacksAccepted /\ CleanOf(f) => CleanOf(f)'
    PROVE  CleanInv'
  <1> SUFFICES ASSUME RollbacksAccepted
               PROVE  /\ \A c \in free' : server'[c] = NoTx
                      /\ \A g \in Flows : CleanOf(g)'
    BY DEF CleanInv, RollbacksAccepted, Faults
  <1>0. UNCHANGED <<free, conn, released>>
    BY DEF poolVars
  <1>1. ASSUME NEW c \in free PROVE server'[c] = NoTx
    BY DEF CleanInv, PoolInv, PoolTypes, ExclusiveConnection
  <1>2. ASSUME NEW g \in Flows \ {f} PROVE CleanOf(g)'
    <2>1. HasConn(g) => server'[conn[g]] = server[conn[g]]
      BY DEF PoolInv, ExclusiveConnection
    <2>2. CleanOf(g)
      BY DEF CleanInv
    <2> QED BY <1>0, <2>1, <2>2 DEF CleanOf, HasEnded, HasConn
  <1>3. CleanOf(f)'
    BY DEF CleanInv
  <1> QED BY <1>0, <1>1, <1>2, <1>3

\* A connection that is taken is clean, whether idle or handed over.
LEMMA GetsClean ==
    ASSUME PoolInv, CleanInv, NEW f \in Flows, pc[f] = "idle", getConnection(f),
           UNCHANGED <<setting, released, settled, server>>
    PROVE  CleanInv'
  <1> SUFFICES ASSUME RollbacksAccepted
               PROVE  /\ \A c \in free' : server'[c] = NoTx
                      /\ \A g \in Flows : CleanOf(g)'
    BY DEF CleanInv, RollbacksAccepted, Faults
  <1>1. /\ \A g \in Flows \ {f} : pc'[g] = pc[g] /\ conn'[g] = conn[g]
        /\ free' \subseteq free
        /\ \/ pc'[f] = "waiting" /\ conn'[f] = NoConn
           \/ pc'[f] = "granted" /\ conn'[f] \in free
    BY DEF getConnection, PoolInv, PoolTypes, Checkouts, Before
  <1>2. ASSUME NEW g \in Flows \ {f} PROVE CleanOf(g)'
    <2>1. CleanOf(g)
      BY DEF CleanInv
    <2> QED BY <1>1, <2>1 DEF CleanOf, HasEnded, HasConn
  <1>3. CleanOf(f)'
    <2>1. released[f] = 0 /\ ~ settled[f]
      BY DEF PoolInv, Checkouts, Before, CleanInv, CleanOf
    <2>2. conn'[f] \in free => server[conn'[f]] = NoTx
      BY DEF CleanInv
    <2> QED BY <1>1, <2>1, <2>2 DEF CleanOf, HasEnded, HasConn, NoTx, Before
  <1> QED BY <1>1, <1>2, <1>3 DEF CleanInv

\* Only a clean connection is released.
LEMMA ReleasesClean ==
    ASSUME OnceOnMysql, PoolInv, CleanInv, NEW f \in Flows, NEW s \in Ended,
           pc[f] \notin Before \cup Ended, release(f, s),
           UNCHANGED <<setting, settled, server>>,
           RollbacksAccepted => /\ pc[f] = "granted" \/ settled[f]
                                /\ s = "disposed" => settled[f]
    PROVE  CleanInv'
  <1> SUFFICES ASSUME RollbacksAccepted
               PROVE  /\ \A c \in free' : server'[c] = NoTx
                      /\ \A g \in Flows : CleanOf(g)'
    BY DEF CleanInv, RollbacksAccepted, Faults
  <1>0. /\ released'[f] = released[f] + 1 /\ released[f] \in Nat
        /\ \A g \in Flows \ {f} : released'[g] = released[g]
        /\ conn[f] \in Conns /\ conn[f] # NoConn
    BY IdsAssumption DEF release, PoolInv, PoolTypes, Checkouts
  <1>1. released[f] = 0 => server[conn[f]] = NoTx
    BY <1>0 DEF CleanInv, CleanOf, HasConn
  <1>2. Engine = "mysql" => released[f] = 0
    BY DEF OnceOnMysql, Engine, PoolInv, PoolTypes, Checkouts, HasEnded
  <1>3. ASSUME pc'[f] = s, conn'[f] = conn[f] PROVE CleanOf(f)'
    BY <1>0, <1>3 DEF CleanOf, HasEnded, HasConn, Ended, Before
  <1>4. ASSUME NEW g \in Flows \ {f}, pc'[g] = pc[g], conn'[g] = conn[g] PROVE CleanOf(g)'
    <2>1. CleanOf(g)
      BY DEF CleanInv
    <2> QED BY <1>0, <1>4, <2>1 DEF CleanOf, HasEnded, HasConn
  <1>5. CASE pc' = [pc EXCEPT ![f] = s] /\ UNCHANGED poolVars
    <2>1. \A g \in Flows : pc'[g] = (IF g = f THEN s ELSE pc[g]) /\ conn'[g] = conn[g]
      BY <1>5 DEF PoolInv, PoolTypes, poolVars
    <2>2. \A g \in Flows : CleanOf(g)'
      BY <1>3, <1>4, <2>1
    <2> QED BY <1>5, <2>2 DEF poolVars, CleanInv
  <1>6. ASSUME released[f] = 0, free' = free \cup {conn[f]}, pc' = [pc EXCEPT ![f] = s],
               UNCHANGED conn
        PROVE  (\A c \in free' : server'[c] = NoTx) /\ \A g \in Flows : CleanOf(g)'
    <2>1. \A g \in Flows : pc'[g] = (IF g = f THEN s ELSE pc[g]) /\ conn'[g] = conn[g]
      BY <1>6 DEF PoolInv, PoolTypes
    <2>2. \A g \in Flows : CleanOf(g)'
      BY <1>3, <1>4, <2>1
    <2> QED BY <1>1, <1>6, <2>2 DEF CleanInv
  <1>7. ASSUME released[f] = 0, queue # <<>>, conn' = [conn EXCEPT ![Head(queue)] = conn[f]],
               pc' = [pc EXCEPT ![f] = s, ![Head(queue)] = "granted"], UNCHANGED free
        PROVE  (\A c \in free' : server'[c] = NoTx) /\ \A g \in Flows : CleanOf(g)'
    <2>0. Head(queue) \in Flows /\ 1 \in DOMAIN queue /\ Head(queue) = queue[1]
      BY <1>7 DEF PoolInv, PoolTypes
    <2> PICK h \in Flows : h = Head(queue)
      BY <2>0
    <2>1. pc[h] = "waiting" /\ h # f /\ released[h] = 0 /\ ~ settled[h]
      BY <2>0 DEF PoolInv, Pending, Checkouts, Before, CleanInv, CleanOf
    <2>2. /\ pc'[f] = s /\ conn'[f] = conn[f] /\ pc'[h] = "granted" /\ conn'[h] = conn[f]
          /\ \A g \in Flows \ {f, h} : pc'[g] = pc[g] /\ conn'[g] = conn[g]
      BY <1>7, <2>1 DEF PoolInv, PoolTypes
    <2>3. CleanOf(h)'
      BY <1>0, <1>1, <1>7, <2>1, <2>2 DEF CleanOf, HasEnded, HasConn, NoTx
    <2>4. \A g \in Flows : CleanOf(g)'
      BY <1>3, <1>4, <2>2, <2>3
    <2> QED BY <1>7, <2>4 DEF CleanInv
  <1> QED BY <1>2, <1>5, <1>6, <1>7, <1>0 DEF release

\* A flow between its checkout and its release has its connection.
LEMMA Holds ==
    ASSUME PoolInv, NEW f \in Flows, pc[f] \in Holding \/ (released[f] = 0 /\ pc[f] \notin Before)
    PROVE  HasConn(f) /\ conn[f] \in Conns
  BY IdsAssumption DEF PoolInv, Checkouts, HasConn, Holding, Before

Goes(f, s) == pc' = [pc EXCEPT ![f] = s]

\* A step of a flow that has its connection, from pc[f] to s.
LEMMA OwnCase ==
    ASSUME PoolInv, DataTypes, CleanInv, NEW f \in Flows, NEW s \in Steps,
           UNCHANGED <<setting, poolVars, released>>,
           Goes(f, s),
           settled' = settled \/ settled' = [settled EXCEPT ![f] = TRUE],
           \/ UNCHANGED server
           \/ HasConn(f) /\ \A c \in Conns : c # conn[f] => server'[c] = server[c],
           RollbacksAccepted /\ CleanOf(f) =>
              /\ s \in Before \cup {"granted"} => ~ settled'[f]
              /\ s \in {"draining", "leaving", "releasing", "disposed"} => settled'[f]
              /\ released[f] > 0 /\ s \notin Ended => settled'[f]
              /\ HasConn(f) /\ (s = "granted" \/ settled'[f]) => server'[conn[f]] = NoTx
              /\ HasConn(f) => \A w \in server'[conn[f]].writes : w[1] = f
    PROVE  CleanInv'
  <1>0. UNCHANGED <<free, conn, released, queue>>
    BY DEF poolVars
  <1>1. /\ pc'[f] = s
        /\ \A g \in Flows \ {f} : pc'[g] = pc[g] /\ settled'[g] = settled[g]
    BY DEF Goes, PoolInv, PoolTypes, DataTypes
  <1>2. RollbacksAccepted /\ CleanOf(f) => CleanOf(f)'
    BY <1>0, <1>1 DEF CleanOf, HasEnded, HasConn
  <1>3. \A c \in Conns : c # conn[f] => server'[c] = server[c]
    OBVIOUS
  <1> QED BY <1>1, <1>2, <1>3, OwnStep

\* BEGIN, on a clean connection.
LEMMA BeginClean ==
    ASSUME PoolInv, DataTypes, CleanInv, NEW f \in Flows, BeginSucceeds(f), UNCHANGED setting
    PROVE  CleanInv'
  <1>1. /\ pc[f] = "granted" /\ Goes(f, "open") /\ Begins(conn[f], f)
        /\ UNCHANGED <<settled, poolVars, released>> /\ HasConn(f) /\ conn[f] \in Conns
    BY Holds DEF BeginSucceeds, Holding, Goes
  <1>2. \A c \in Conns : c # conn[f] => server'[c] = server[c]
    BY <1>1 DEF Begins, DataTypes
  <1>3. CleanOf(f) => ~ settled[f] /\ server'[conn[f]].writes = {} /\ released[f] = 0
    BY <1>1 DEF CleanOf, Begins, NoTx, DataTypes, HasConn
  <1>4. "open" \in Steps /\ "open" \notin Before \cup Ended
    BY DEF Steps, Before, Ended
  <1> QED BY <1>1, <1>2, <1>3, <1>4, OwnCase

\* A write, to the transaction that is open or outside any.
LEMMA WriteClean ==
    ASSUME PoolInv, DataTypes, CleanInv, NEW f \in Flows, BodyWrites(f), UNCHANGED setting
    PROVE  CleanInv'
  <1>0. PICK w : w = <<f, written[f] + 1>>
    OBVIOUS
  <1>1. /\ pc[f] = "open" /\ Writes(conn[f], w) /\ w[1] = f
        /\ UNCHANGED <<pc, settled, poolVars, released>> /\ HasConn(f) /\ conn[f] \in Conns
        /\ released[f] = 0
    BY <1>0, Holds DEF BodyWrites, BodyRuns, Holding, PoolInv, Checkouts
  <1>2. /\ \A c \in Conns : c # conn[f] => server'[c] = server[c]
        /\ server'[conn[f]].writes \subseteq server[conn[f]].writes \cup {w}
        /\ server[conn[f]] = NoTx => UNCHANGED server
    <2>1. CASE server[conn[f]].by = NoFlow
      BY <1>1, <2>1 DEF Writes
    <2>2. CASE server[conn[f]].by # NoFlow
      <3>1. server' = [server EXCEPT ![conn[f]].writes = @ \cup {w}]
        BY <1>1, <2>2 DEF Writes
      <3>2. server[conn[f]] \in Tx /\ \A c \in Conns : c # conn[f] => server'[c] = server[c]
        BY <1>1, <3>1 DEF DataTypes
      <3>3. server'[conn[f]].writes = server[conn[f]].writes \cup {w}
        BY <1>1, <3>1, <3>2 DEF DataTypes, Tx
      <3> QED BY <2>2, <3>2, <3>3, TxTypes
    <2> QED BY <2>1, <2>2
  <1>3. CleanOf(f) => /\ \A x \in server'[conn[f]].writes : x[1] = f
                      /\ settled[f] => server'[conn[f]] = NoTx
    BY <1>1, <1>2 DEF CleanOf
  <1>4. Goes(f, "open") /\ "open" \in Steps /\ "open" \notin Before \cup Ended
    BY <1>1 DEF Goes, PoolInv, PoolTypes, Steps, Before, Ended
  <1> QED BY <1>1, <1>2, <1>3, <1>4, OwnCase

\* What a refused statement leaves on a connection.
LEMMA RefusedTx ==
    ASSUME DataTypes, NEW c \in Conns,
           Refuses(c) \/ (server' = [server EXCEPT ![c] = NoTx] /\ UNCHANGED durable)
    PROVE  /\ UNCHANGED durable /\ \A d \in Conns \ {c} : server'[d] = server[d]
           /\ server[c] = NoTx => UNCHANGED server
           /\ server'[c] = server[c] \/ server'[c].writes = {}
  <1>1. CASE server' \in {server, [server EXCEPT ![c] = NoTx]} /\ UNCHANGED durable
    BY <1>1, TxTypes DEF DataTypes
  <1>2. CASE Refuses(c) /\ server' \notin {server, [server EXCEPT ![c] = NoTx]}
    <2>1. /\ UNCHANGED durable /\ server[c].by # NoFlow
          /\ server' = [server EXCEPT ![c].writes = {}, ![c].status = "aborted"]
      BY <1>2 DEF Refuses
    <2>2. /\ \A d \in Conns \ {c} : server'[d] = server[d]
          /\ server'[c].writes = {}
      BY <2>1 DEF DataTypes, Tx
    <2> QED BY <2>1, <2>2, TxTypes
  <1> QED BY <1>1, <1>2 DEF Refuses

\* A refused statement in a transaction, or on a handle that is settled.
LEMMA FailClean ==
    ASSUME PoolInv, DataTypes, CleanInv, NEW f \in Flows, BodyFails(f), UNCHANGED setting
    PROVE  CleanInv'
  <1>1. /\ pc[f] = "open" /\ Refuses(conn[f])
        /\ UNCHANGED <<settled, poolVars, released>> /\ HasConn(f) /\ conn[f] \in Conns
        /\ released[f] = 0
    BY Holds DEF BodyFails, BodyRuns, Holding, PoolInv, Checkouts
  <1>2. PICK s \in {"open", "catching", "disposing"} : Goes(f, s)
    BY <1>1 DEF BodyFails, Goes, PoolInv, PoolTypes
  <1>3. /\ \A c \in Conns : c # conn[f] => server'[c] = server[c]
        /\ server[conn[f]] = NoTx => server'[conn[f]] = NoTx
        /\ server'[conn[f]] = server[conn[f]] \/ server'[conn[f]].writes = {}
    BY <1>1, RefusedTx
  <1>4. CleanOf(f) => /\ \A x \in server'[conn[f]].writes : x[1] = f
                      /\ settled[f] => server'[conn[f]] = NoTx
    BY <1>1, <1>3 DEF CleanOf
  <1>5. s \in Steps /\ s \notin Before \cup Ended /\ s \notin {"granted", "draining", "leaving", "releasing", "disposed"}
    BY DEF Steps, Before, Ended
  <1> QED BY <1>1, <1>2, <1>3, <1>4, <1>5, OwnCase

\* COMMIT: it ends the transaction, or the handle is not settled.
LEMMA CommitClean ==
    ASSUME PoolInv, DataTypes, CleanInv, NEW f \in Flows, pc[f] = "open", UNCHANGED <<setting, poolVars, released>>,
           NEW e \in {"catching", "open"}, commit(f, "draining", e)
    PROVE  CleanInv'
  <1>1. HasConn(f) /\ conn[f] \in Conns /\ released[f] = 0
    BY Holds DEF Holding, PoolInv, Checkouts
  <1>2. {"draining", e} \subseteq Steps \ (Before \cup Ended) /\ e # "draining" /\ e # "granted"
        /\ e \notin {"leaving", "releasing", "disposed"}
    BY DEF Steps, Before, Ended
  <1>3. CASE /\ Commits(conn[f]) /\ settled' = [settled EXCEPT ![f] = TRUE]
             /\ Goes(f, "draining")
    <2>1. /\ \A c \in Conns : c # conn[f] => server'[c] = server[c]
          /\ server'[conn[f]] = NoTx /\ NoTx.writes = {} /\ settled'[f] = TRUE
      BY <1>1, <1>3 DEF Commits, DataTypes, NoTx
    <2> QED BY <1>1, <1>2, <1>3, <2>1, OwnCase
  <1>4. CASE Commits(conn[f]) /\ Goes(f, e) /\ UNCHANGED settled
    <2>1. /\ \A c \in Conns : c # conn[f] => server'[c] = server[c]
          /\ server'[conn[f]] = NoTx /\ NoTx.writes = {}
      BY <1>1, <1>4 DEF Commits, DataTypes, NoTx
    <2> QED BY <1>1, <1>2, <1>4, <2>1, OwnCase
  <1>5. CASE Goes(f, e) /\ UNCHANGED <<settled, serverVars>>
    BY <1>1, <1>2, <1>5, OwnCase DEF serverVars, CleanOf
  <1> QED BY <1>3, <1>4, <1>5 DEF commit, Goes

\* ROLLBACK, which is accepted.
LEMMA RollbackClean ==
    ASSUME PoolInv, DataTypes, CleanInv, NEW f \in Flows, UNCHANGED <<setting, poolVars, released>>,
           pc[f] \in Holding \/ (pc[f] = "disposing" /\ ~ settled[f]),
           NEW e \in {"disposing", "releasing", "open"}, rollback(f, e, e)
    PROVE  CleanInv'
  <1>0. e \in Steps \ (Before \cup Ended) /\ e # "granted"
    BY DEF Steps, Before, Ended
  <1>1. CASE ~ RollbacksAccepted
    BY <1>1 DEF CleanInv, RollbacksAccepted, Faults
  <1>2. CASE RollbacksAccepted
    <2>1. HasConn(f) /\ conn[f] \in Conns
      <3>1. CASE pc[f] \in Holding
        BY <3>1, Holds
      <3>2. CASE pc[f] = "disposing" /\ ~ settled[f]
        <4>1. released[f] = 0
          BY <1>2, <3>2 DEF CleanInv, CleanOf, HasEnded, Ended, PoolInv, PoolTypes
        <4> QED BY <3>2, <4>1, Holds DEF Before
      <3> QED BY <3>1, <3>2
    <2>2. /\ server' = [server EXCEPT ![conn[f]] = NoTx] /\ settled' = [settled EXCEPT ![f] = TRUE]
          /\ Goes(f, e)
      BY <1>2 DEF rollback, RollbacksAccepted, Goes
    <2>3. /\ \A c \in Conns : c # conn[f] => server'[c] = server[c]
          /\ server'[conn[f]] = NoTx /\ NoTx.writes = {} /\ settled'[f] = TRUE
      BY <2>1, <2>2 DEF DataTypes, NoTx
    <2> QED BY <1>0, <2>1, <2>2, <2>3, OwnCase
  <1> QED BY <1>1, <1>2

\* Steps that send nothing.
LEMMA SilentClean ==
    ASSUME PoolInv, DataTypes, CleanInv, NEW f \in Flows, UNCHANGED setting,
           BodyThrows(f) \/ Drain(f) \/ DisposeAgain(f) \/ HandleDispose(f)
    PROVE  CleanInv'
  <1> DEFINE Next4 == {"catching", "open", "leaving", "disposing"}
  <1>1. /\ UNCHANGED <<poolVars, released, settled, server>>
        /\ \/ pc[f] \in {"open"} /\ Goes(f, "catching")
           \/ pc[f] = "draining" /\ Goes(f, "open")
           \/ pc[f] = "draining" /\ Goes(f, "leaving")
           \/ pc[f] = "disposed" /\ Goes(f, "disposing")
           \/ pc[f] = "open" /\ Goes(f, "disposing")
    BY DEF BodyThrows, Drain, DisposeAgain, ManualCall, HandleDispose, serverVars, Goes
  <1>2. Next4 \subseteq Steps \ (Before \cup Ended) /\ "granted" \notin Next4
    BY DEF Steps, Before, Ended
  <1>3. pc[f] \in {"open", "draining"} => released[f] = 0
    BY DEF PoolInv, Checkouts, Holding
  <1>4. CleanOf(f) =>
          /\ pc[f] \in {"draining", "disposed"} => settled[f]
          /\ HasConn(f) /\ settled[f] => server[conn[f]] = NoTx
          /\ HasConn(f) => \A w \in server[conn[f]].writes : w[1] = f
    BY DEF CleanOf
  <1> HIDE DEF Next4
  <1>5. ASSUME NEW s \in {"catching", "open", "leaving", "disposing"}, Goes(f, s),
               pc[f] \in {"open", "draining", "disposed"}, s = "leaving" => pc[f] = "draining"
        PROVE  CleanInv'
    <2>1. s \in Steps /\ s \notin Before \cup Ended /\ s \notin {"granted", "draining", "releasing", "disposed"}
      BY <1>2 DEF Next4
    <2> QED BY <1>1, <1>3, <1>4, <1>5, <2>1, OwnCase
  <1> QED BY <1>1, <1>5

\* One step per action.
LEMMA NextClean ==
    ASSUME OnceOnMysql
    PROVE  PoolInv /\ DataTypes /\ CleanInv /\ [Next]_vars => CleanInv'
  <1> SUFFICES ASSUME PoolInv, DataTypes, CleanInv, [Next]_vars PROVE CleanInv'
    OBVIOUS
  <1>1. ASSUME NEW f \in Flows, Starts(f) PROVE CleanInv'
    <2>1. /\ pc[f] = "idle" /\ getConnection(f)
          /\ UNCHANGED <<setting, released, settled, server>>
      BY <1>1 DEF Starts, Ask, IsNext, serverVars
    <2> QED BY <2>1, GetsClean
  <1>2. ASSUME NEW f \in Flows, Continues(f) PROVE CleanInv'
    <2>0. UNCHANGED setting
      BY <1>2 DEF Continues
    <2>1. CASE BeginSucceeds(f)
      BY <2>0, <2>1, BeginClean
    <2>2. CASE BodyWrites(f)
      BY <2>0, <2>2, WriteClean
    <2>3. CASE Commit(f) \/ HandleCommit(f)
      <3>1. /\ pc[f] = "open" /\ UNCHANGED <<poolVars, released>>
            /\ \E e \in {"catching", "open"} : commit(f, "draining", e)
        BY <2>3 DEF Commit, HandleCommit, ManualCall
      <3> QED BY <2>0, <3>1, CommitClean
    <2>4. CASE Rollback(f) \/ DisposeRollsBack(f) \/ HandleRollback(f)
      <3>1. /\ pc[f] \in Holding \/ (pc[f] = "disposing" /\ ~ settled[f])
            /\ UNCHANGED <<poolVars, released>>
            /\ \E e \in {"disposing", "releasing", "open"} : rollback(f, e, e)
        BY <2>4 DEF Rollback, DisposeRollsBack, HandleRollback, ManualCall, Holding
      <3> QED BY <2>0, <3>1, RollbackClean
    <2>5. CASE BodyThrows(f) \/ Drain(f) \/ DisposeAgain(f) \/ HandleDispose(f)
      BY <2>0, <2>5, SilentClean
    <2>6. CASE BeginFails(f)
      <3>1. /\ pc[f] = "granted" /\ release(f, "refused") /\ "refused" \in Ended
            /\ UNCHANGED <<settled, server>> /\ pc[f] \notin Before \cup Ended
        BY <2>6 DEF BeginFails, serverVars, Ended, Before
      <3> QED BY <2>0, <3>1, ReleasesClean
    <2>7. CASE PlainWorks(f) \/ PlainReplyLost(f) \/ PlainFails(f)
      <3>1. PICK s \in {"resolved", "rejected", "refused"} :
               /\ pc[f] = "granted" /\ release(f, s) /\ s \in Ended
               /\ UNCHANGED settled /\ pc[f] \notin Before \cup Ended
               /\ HasConn(f) /\ conn[f] \in Conns
        BY <2>7, Holds DEF PlainWorks, PlainReplyLost, PlainFails, Ended, Before, Holding
      <3>2. CASE ~ RollbacksAccepted
        BY <2>0, <3>2 DEF CleanInv, RollbacksAccepted, Faults
      <3>3. CASE RollbacksAccepted
        <4>1. server[conn[f]] = NoTx
          BY <3>1, <3>3 DEF CleanInv, CleanOf
        <4>2. PlainWorks(f) \/ PlainReplyLost(f) => UNCHANGED server
          BY <4>1 DEF PlainWorks, PlainReplyLost, Writes, NoTx
        <4>3. PlainFails(f) => UNCHANGED server
          BY <3>1, <4>1, RefusedTx DEF PlainFails
        <4>4. UNCHANGED server
          BY <2>7, <4>2, <4>3
        <4> QED BY <2>0, <3>1, <4>4, ReleasesClean
      <3> QED BY <3>2, <3>3
    <2>8. CASE DisposeReleases(f)
      <3>1. /\ pc[f] \in {"leaving", "releasing"} \/ (pc[f] = "disposing" /\ settled[f])
            /\ UNCHANGED <<settled, server>>
        BY <2>8 DEF DisposeReleases, serverVars
      <3>2. PICK s \in Ended : release(f, s)
        BY <2>8 DEF DisposeReleases, Ended
      <3>3. RollbacksAccepted => settled[f]
        BY <3>1 DEF CleanInv, CleanOf
      <3>4. pc[f] \notin Before \cup Ended
        BY <3>1 DEF Before, Ended
      <3> QED BY <2>0, <3>1, <3>2, <3>3, <3>4, ReleasesClean
    <2>9. CASE BodyFails(f)
      BY <2>0, <2>9, FailClean
    <2> QED BY <1>2, <2>1, <2>2, <2>3, <2>4, <2>5, <2>6, <2>7, <2>8, <2>9 DEF Continues
  <1>3. CASE UNCHANGED vars
    BY <1>3 DEF vars, poolVars, serverVars, CleanInv, CleanOf, RollbacksAccepted, Faults, HasEnded, HasConn
  <1> QED BY <1>1, <1>2, <1>3 DEF Next, Quiescent

\* As long as the server accepts every ROLLBACK, idle connections are clean, and
\* what is open on a connection was written by the call that has it: no write of
\* an earlier user can be committed by a later one, in whatever order handles
\* are settled, written through and disposed and whatever else fails.
THEOREM IsolationCorrect ==
    ASSUME OnceOnMysql
    PROVE  Spec => []Isolation
  <1>1. PoolInv /\ [Next]_vars => PoolInv'
    BY NextPool
  <1>2. Init => DataTypes
    BY InitData
  <1>3. Init => CleanInv
    BY IdsAssumption DEF Init, CleanInv, CleanOf, NoTx, HasConn
  <1>4. PoolInv /\ DataTypes /\ CleanInv /\ [Next]_vars => CleanInv'
    BY NextClean
  <1>5. PoolInv /\ CleanInv => Isolation
    <2> SUFFICES ASSUME PoolInv, CleanInv, RollbacksAccepted
                 PROVE  CleanConnections /\
                        \A f \in Flows : HasConn(f) => \A w \in server[conn[f]].writes : w[1] = f
      BY DEF Isolation
    <2>1. \A f \in Flows : pc[f] = "granted" => HasConn(f)
      BY Holds DEF Holding
    <2> QED BY <2>1 DEF CleanInv, CleanOf, CleanConnections
  <1> QED BY <1>1, <1>2, <1>3, <1>4, <1>5, InitPool, NextData, PTL DEF Spec

-----------------------------------------------------------------------------
(* What a call leaves behind. *)

AllIn(f)  == WritesOf(f) \subseteq durable
NoneIn(f) == WritesOf(f) \cap durable = {}

\* The API that a flow uses, as far as its step tells.
RoleOf(f) ==
    /\ pc[f] # "idle" => role[f] \in {"callback", "manual", "plain"}
    /\ pc[f] \notin Before \cup {"granted", "refused", "resolved", "rejected"} => role[f] # "plain"
    /\ pc[f] \in {"catching", "leaving"} => role[f] = "callback"
    /\ pc[f] = "rejected" => role[f] # "manual"

\* What is open on the connection of flow f when its transaction is whole.
Whole(f) == [by |-> f, writes |-> WritesOf(f), status |-> "ok"]

\* Until a transaction is settled, all it wrote is pending or, when the reply to
\* its COMMIT was lost, durable; or a statement was refused, and it can only be
\* rolled back.
Underway(f) ==
    pc[f] \in {"open", "catching", "disposing"} /\ ~ settled[f] =>
        \/ server[conn[f]] = Whole(f) /\ NoneIn(f)
        \/ server[conn[f]] = NoTx /\ AllIn(f) /\ "commit_reply" \in Faults
        \/ pc[f] # "open" /\ NoneIn(f)

OutcomeOf(f) ==
    /\ \A w \in durable : w[1] = f => w \in WritesOf(f)
    /\ deferred[f] \subseteq WritesOf(f)
    /\ pc[f] \in Before \cup {"granted", "refused"} => written[f] = 0
    /\ Underway(f)
    /\ settled[f] /\ ~ setting.late => NoneIn(f) \/ AllIn(f)
    /\ role[f] = "callback" /\ pc[f] \in {"open", "catching"} => ~ settled[f]
    /\ role[f] = "callback" /\ pc[f] \in {"draining", "leaving"} => AllIn(f)
    /\ role[f] = "callback" /\ settled[f] /\ pc[f] \in {"disposing", "releasing", "rejected"} =>
          NoneIn(f) \/ (AllIn(f) /\ "commit_reply" \in Faults)
    /\ pc[f] = "resolved" => AllIn(f)
    /\ pc[f] \in {"rejected", "disposed"} => settled[f] \/ role[f] = "plain"
    /\ pc[f] = "rejected" /\ role[f] = "plain" => AllIn(f) /\ "commit_reply" \in Faults

OutcomeInv ==
    /\ \A f \in Flows : RoleOf(f)
    /\ RollbacksAccepted /\ ErrorsRethrown => \A f \in Flows : OutcomeOf(f)

\* A write adds itself to what its flow wrote.
LEMMA WritesGrow ==
    ASSUME DataTypes, NEW f \in Flows, NEW n \in Nat, written[f] = n, written'[f] = n + 1
    PROVE  WritesOf(f)' = WritesOf(f) \cup {<<f, n + 1>>}
  <1>1. 1 .. (n + 1) = (1 .. n) \cup {n + 1}
    OBVIOUS
  <1> QED BY <1>1 DEF WritesOf

\* A flow that wrote nothing, and one that goes on as it was.
LEMMA WritesStay ==
    ASSUME NEW f \in Flows
    PROVE  /\ written[f] = 0 => WritesOf(f) = {}
           /\ written'[f] = written[f] => WritesOf(f)' = WritesOf(f)
           /\ \A w \in WritesOf(f) : w[1] = f
  BY DEF WritesOf

\* The connection of a transaction that is underway is its own.
LEMMA UnderwayHolds ==
    ASSUME PoolInv, CleanInv, RollbacksAccepted, NEW f \in Flows,
           pc[f] \in {"open", "catching", "disposing"}, ~ settled[f]
    PROVE  HasConn(f) /\ conn[f] \in Conns
  <1>1. CASE pc[f] \in Holding
    BY <1>1, Holds
  <1>2. CASE pc[f] \notin Holding
    <2>1. CleanOf(f) /\ ~ HasEnded(f) /\ pc[f] \notin Before
      BY DEF CleanInv, HasEnded, Ended, Before
    <2>2. released[f] = 0
      BY <2>1 DEF CleanOf, PoolInv, PoolTypes
    <2> QED BY <2>1, <2>2, Holds
  <1> QED BY <1>1, <1>2

\* Steps of flow f do nothing to the outcome of another one.
LEMMA OtherOutcome ==
    ASSUME PoolInv, CleanInv, RollbacksAccepted, NEW f \in Flows, NEW g \in Flows \ {f}, OutcomeOf(g),
           UNCHANGED setting,
           \/ pc'[g] = pc[g] /\ conn'[g] = conn[g]
           \/ pc[g] \in Before /\ pc'[g] = "granted",
           role'[g] = role[g], settled'[g] = settled[g], written'[g] = written[g], deferred'[g] = deferred[g],
           HasConn(g) => server'[conn[g]] = server[conn[g]],
           durable \subseteq durable', \A w \in durable' \ durable : w[1] = f
    PROVE  OutcomeOf(g)'
  <1>1. WritesOf(g)' = WritesOf(g) /\ \A w \in WritesOf(g) : w[1] # f
    BY WritesStay
  <1>2. (AllIn(g) => AllIn(g)') /\ (NoneIn(g) => NoneIn(g)')
    BY <1>1 DEF AllIn, NoneIn
  <1>3. Faults' = Faults
    BY DEF Faults
  <1>4. Underway(g)'
    <2> SUFFICES ASSUME pc'[g] \in {"open", "catching", "disposing"}, ~ settled[g]
                 PROVE  \/ server'[conn'[g]] = Whole(g) /\ NoneIn(g)'
                        \/ server'[conn'[g]] = NoTx /\ AllIn(g)' /\ "commit_reply" \in Faults
                        \/ pc'[g] # "open" /\ NoneIn(g)'
      BY <1>1, <1>3 DEF Underway, Whole
    <2>1. pc'[g] = pc[g] /\ conn'[g] = conn[g]
      OBVIOUS
    <2>2. server'[conn[g]] = server[conn[g]]
      BY <2>1, UnderwayHolds
    <2> QED BY <1>2, <2>1, <2>2 DEF OutcomeOf, Underway
  <1>5. \A w \in durable' : w[1] = g => w \in WritesOf(g)'
    BY <1>1 DEF OutcomeOf
  <1> QED BY <1>1, <1>2, <1>3, <1>4, <1>5 DEF OutcomeOf, Before

\* What a release does to the steps of the flows.
LEMMA ReleaseSteps ==
    ASSUME PoolInv, NEW f \in Flows, NEW s \in Ended, pc[f] \notin Before, release(f, s)
    PROVE  /\ pc'[f] = s
           /\ \A g \in Flows \ {f} :
                 \/ pc'[g] = pc[g] /\ conn'[g] = conn[g]
                 \/ pc[g] = "waiting" /\ pc'[g] = "granted"
  <1>1. CASE pc' = [pc EXCEPT ![f] = s] /\ UNCHANGED conn
    BY <1>1 DEF PoolInv, PoolTypes
  <1>2. CASE /\ queue # <<>> /\ conn' = [conn EXCEPT ![Head(queue)] = conn[f]]
             /\ pc' = [pc EXCEPT ![f] = s, ![Head(queue)] = "granted"]
    <2>1. Head(queue) \in Flows /\ pc[Head(queue)] = "waiting" /\ Head(queue) # f
      BY <1>2 DEF PoolInv, PoolTypes, Pending, Before
    <2> QED BY <1>2, <2>1 DEF PoolInv, PoolTypes
  <1> QED BY <1>1, <1>2 DEF release, poolVars

\* What a checkout does to them.
LEMMA GetSteps ==
    ASSUME PoolInv, NEW f \in Flows, pc[f] = "idle", getConnection(f)
    PROVE  /\ pc'[f] \in {"waiting", "granted"}
           /\ \A g \in Flows \ {f} : pc'[g] = pc[g] /\ conn'[g] = conn[g]
  BY DEF getConnection, PoolInv, PoolTypes

\* What the other steps do to them.
LEMMA OwnSteps ==
    ASSUME PoolInv, NEW f \in Flows, NEW s, pc' = [pc EXCEPT ![f] = s], UNCHANGED poolVars
    PROVE  pc'[f] = s /\ \A g \in Flows \ {f} : pc'[g] = pc[g] /\ conn'[g] = conn[g]
  BY DEF PoolInv, PoolTypes, poolVars

\* A step of a running flow keeps its API.
LEMMA NextRole ==
    ASSUME PoolInv, DataTypes, \A f \in Flows : RoleOf(f), [Next]_vars
    PROVE  \A f \in Flows : RoleOf(f)'
  <1> USE DEF Before, Ended
  <1>1. ASSUME NEW f \in Flows, Starts(f) PROVE \A g \in Flows : RoleOf(g)'
    <2>1. PICK r \in setting.roles : /\ pc[f] = "idle" /\ getConnection(f)
                                     /\ role' = [role EXCEPT ![f] = r]
      BY <1>1 DEF Starts, Ask, IsNext
    <2>2. r \in {"callback", "manual", "plain"}
      BY SettingsAssumption DEF Setting, PoolInv, PoolTypes
    <2>3. role'[f] = r /\ \A g \in Flows \ {f} : role'[g] = role[g]
      BY <2>1 DEF DataTypes
    <2> QED BY <2>1, <2>2, <2>3, GetSteps DEF RoleOf
  <1>2. ASSUME NEW f \in Flows, Continues(f) PROVE \A g \in Flows : RoleOf(g)'
    <2>0. UNCHANGED role
      BY <1>2 DEF Continues, BeginSucceeds, BeginFails, PlainWorks, PlainFails, PlainReplyLost,
           BodyWrites, BodyFails, Commit, BodyThrows, Rollback, DisposeRollsBack, DisposeReleases, Drain, HandleCommit, HandleRollback,
           DisposeAgain, HandleDispose, ManualCall
    <2>1. ASSUME NEW s \in Ended, release(f, s), pc[f] \notin Before,
                 s = "rejected" => role[f] # "manual",
                 s = "disposed" => role[f] # "plain"
          PROVE  \A g \in Flows : RoleOf(g)'
      <3>1. pc[f] # "idle" /\ role[f] \in {"callback", "manual", "plain"}
        BY <2>1 DEF RoleOf
      <3> QED BY <2>0, <2>1, <3>1, ReleaseSteps DEF RoleOf
    <2>2. ASSUME NEW s, pc' = [pc EXCEPT ![f] = s], UNCHANGED poolVars, pc[f] \notin Before,
                 role[f] # "plain", s # "rejected",
                 s \in {"catching", "leaving"} => role[f] = "callback"
          PROVE  \A g \in Flows : RoleOf(g)'
      <3>1. role[f] \in {"callback", "manual", "plain"}
        BY <2>2 DEF RoleOf
      <3> QED BY <2>0, <2>2, <3>1, OwnSteps DEF RoleOf
    <2>3. CASE BeginSucceeds(f)
      BY <2>2, <2>3 DEF BeginSucceeds
    <2>4. CASE BeginFails(f) \/ PlainWorks(f) \/ PlainFails(f) \/ PlainReplyLost(f)
      BY <2>1, <2>4 DEF BeginFails, PlainWorks, PlainFails, PlainReplyLost
    <2>5. CASE BodyWrites(f)
      BY <2>0, <2>5 DEF BodyWrites, RoleOf
    <2>13. CASE BodyFails(f)
      <3>1. pc[f] = "open" /\ role[f] # "plain" /\ UNCHANGED poolVars
        BY <2>13 DEF BodyFails, BodyRuns, RoleOf
      <3>2. CASE UNCHANGED pc
        BY <2>0, <3>2 DEF RoleOf
      <3>3. CASE pc' = [pc EXCEPT ![f] = IF role[f] = "callback" THEN "catching" ELSE "disposing"]
        BY <2>2, <3>1, <3>3
      <3> QED BY <2>13, <3>2, <3>3 DEF BodyFails
    <2>6. CASE Commit(f)
      BY <2>2, <2>6 DEF Commit, commit
    <2>7. CASE BodyThrows(f)
      BY <2>2, <2>7 DEF BodyThrows
    <2>8. CASE Rollback(f)
      BY <2>2, <2>8 DEF Rollback, rollback, RoleOf
    <2>9. CASE DisposeRollsBack(f)
      BY <2>2, <2>9 DEF DisposeRollsBack, rollback, RoleOf
    <2>10. CASE DisposeReleases(f)
      <3>1. pc[f] \in {"leaving", "releasing", "disposing"} /\ role[f] \in {"callback", "manual"}
        BY <2>10 DEF DisposeReleases, RoleOf
      <3>2. PICK s \in Ended : /\ release(f, s)
                               /\ s = "rejected" => role[f] # "manual"
        BY <2>10, <3>1 DEF DisposeReleases
      <3> QED BY <2>1, <3>1, <3>2
    <2>11. CASE Drain(f)
      <3>1. role[f] \in {"callback", "manual"} /\ pc[f] = "draining"
        BY <2>11 DEF Drain, RoleOf
      <3> QED BY <2>2, <2>11, <3>1 DEF Drain
    <2>12. CASE HandleCommit(f) \/ HandleRollback(f) \/ DisposeAgain(f) \/ HandleDispose(f)
      BY <2>2, <2>12 DEF HandleCommit, HandleRollback, DisposeAgain, HandleDispose, ManualCall, commit, rollback
    <2> QED BY <1>2, <2>3, <2>4, <2>5, <2>6, <2>7, <2>8, <2>9, <2>10, <2>11, <2>12, <2>13 DEF Continues
  <1>3. CASE UNCHANGED vars
    BY <1>3 DEF vars, RoleOf
  <1> QED BY <1>1, <1>2, <1>3 DEF Next, Quiescent

\* The state in which the steps below are taken.
OutcomeHyps ==
    /\ PoolInv /\ DataTypes /\ CleanInv /\ RollbacksAccepted /\ ErrorsRethrown
    /\ \A f \in Flows : RoleOf(f) /\ OutcomeOf(f)

\* A step of flow f that changes nothing of the others but, maybe, hands one of
\* them a connection, and makes nothing durable but what f wrote.
LocalTo(f) ==
    /\ UNCHANGED setting
    /\ \A g \in Flows \ {f} :
          /\ \/ pc'[g] = pc[g] /\ conn'[g] = conn[g]
             \/ pc[g] \in Before /\ pc'[g] = "granted"
          /\ role'[g] = role[g] /\ settled'[g] = settled[g]
          /\ written'[g] = written[g] /\ deferred'[g] = deferred[g]
    /\ UNCHANGED server \/ HasConn(f)
    /\ \A c \in Conns \ {conn[f]} : server'[c] = server[c]
    /\ durable \subseteq durable' /\ \A w \in durable' \ durable : w[1] = f

\* Such a step keeps what the other flows leave behind.
LEMMA OthersKeep ==
    ASSUME OutcomeHyps, NEW f \in Flows, LocalTo(f), NEW g \in Flows \ {f}
    PROVE  OutcomeOf(g)'
  <1>1. HasConn(g) => server'[conn[g]] = server[conn[g]]
    <2> SUFFICES ASSUME HasConn(g), HasConn(f) PROVE server'[conn[g]] = server[conn[g]]
      BY DEF LocalTo
    <2>1. conn[g] \in Conns /\ conn[g] # conn[f]
      BY DEF OutcomeHyps, PoolInv, ExclusiveConnection
    <2> QED BY <2>1 DEF LocalTo
  <1> QED BY <1>1, OtherOutcome DEF OutcomeHyps, LocalTo

\* What a flow wrote is as durable as it was.
LEMMA Same ==
    ASSUME NEW f \in Flows, UNCHANGED <<setting, durable>>, written'[f] = written[f]
    PROVE  /\ WritesOf(f)' = WritesOf(f) /\ AllIn(f)' = AllIn(f) /\ NoneIn(f)' = NoneIn(f)
           /\ Faults' = Faults /\ Whole(f)' = Whole(f)
  <1>1. WritesOf(f)' = WritesOf(f)
    BY WritesStay
  <1> QED BY <1>1 DEF AllIn, NoneIn, Faults, Whole

\* A checkout, a failed BEGIN and a release.
LEMMA AskOutcome ==
    ASSUME OutcomeHyps, NEW f \in Flows, Starts(f)
    PROVE  OutcomeOf(f)' /\ LocalTo(f)
  <1>1. /\ pc[f] = "idle" /\ getConnection(f)
        /\ UNCHANGED <<setting, settled, server, durable, written, deferred>>
        /\ \A g \in Flows \ {f} : role'[g] = role[g]
    BY DEF Starts, Ask, IsNext, serverVars, OutcomeHyps, DataTypes
  <1>2. ~ settled[f]
    BY <1>1 DEF OutcomeHyps, CleanInv, CleanOf, Before
  <1>3. /\ pc'[f] \in {"waiting", "granted"}
        /\ \A g \in Flows \ {f} : pc'[g] = pc[g] /\ conn'[g] = conn[g]
    BY <1>1, GetSteps DEF OutcomeHyps
  <1>4. LocalTo(f)
    BY <1>1, <1>3 DEF LocalTo
  <1>5. OutcomeOf(f)
    BY DEF OutcomeHyps
  <1>6. OutcomeOf(f)'
    BY <1>1, <1>2, <1>3, <1>5, Same DEF OutcomeOf, Underway, Before
  <1> QED BY <1>4, <1>6

\* A release that writes nothing.
LEMMA ReleaseOutcome ==
    ASSUME OutcomeHyps, NEW f \in Flows, NEW s \in Ended, release(f, s), pc[f] \notin Before,
           UNCHANGED <<setting, role, settled, server, durable, written, deferred>>,
           \/ pc[f] = "granted" /\ s = "refused"
           \/ pc[f] = "leaving" /\ s = "resolved"
           \/ settled[f] /\ pc[f] \in {"disposing", "releasing"} /\ s \in {"rejected", "disposed"}
    PROVE  OutcomeOf(f)' /\ LocalTo(f)
  <1>1. /\ pc'[f] = s
        /\ \A g \in Flows \ {f} :
              \/ pc'[g] = pc[g] /\ conn'[g] = conn[g]
              \/ pc[g] = "waiting" /\ pc'[g] = "granted"
    BY ReleaseSteps DEF OutcomeHyps
  <1>2. LocalTo(f)
    BY <1>1 DEF LocalTo, Before
  <1>3. OutcomeOf(f) /\ RoleOf(f)
    BY DEF OutcomeHyps
  <1>4. OutcomeOf(f)'
    BY <1>1, <1>3, Same DEF OutcomeOf, Underway, RoleOf, Before, Ended
  <1> QED BY <1>2, <1>4

\* A step of a flow on its own connection leaves the others alone.
LEMMA OwnLocal ==
    ASSUME OutcomeHyps, NEW f \in Flows, NEW s, Goes(f, s), UNCHANGED <<setting, poolVars, role>>,
           \A g \in Flows \ {f} : settled'[g] = settled[g] /\ written'[g] = written[g]
                                  /\ deferred'[g] = deferred[g],
           HasConn(f),
           \A c \in Conns \ {conn[f]} : server'[c] = server[c],
           durable \subseteq durable', \A w \in durable' \ durable : w[1] = f
    PROVE  LocalTo(f) /\ pc'[f] = s /\ conn'[f] = conn[f]
  <1>1. pc'[f] = s /\ \A g \in Flows \ {f} : pc'[g] = pc[g] /\ conn'[g] = conn[g]
    BY OwnSteps DEF OutcomeHyps, Goes
  <1>2. LocalTo(f)
    BY <1>1 DEF LocalTo
  <1> QED BY <1>1, <1>2 DEF poolVars

\* BEGIN starts from a clean connection.
LEMMA BeginOutcome ==
    ASSUME OutcomeHyps, NEW f \in Flows, BeginSucceeds(f), UNCHANGED setting
    PROVE  OutcomeOf(f)' /\ LocalTo(f)
  <1>1. /\ pc[f] = "granted" /\ Begins(conn[f], f) /\ Goes(f, "open")
        /\ UNCHANGED <<role, poolVars, settled, written, deferred>>
    BY DEF BeginSucceeds, Goes
  <1>2. HasConn(f) /\ conn[f] \in Conns
    BY <1>1, Holds DEF OutcomeHyps, Holding
  <1>3. server[conn[f]] = NoTx /\ ~ settled[f]
    BY <1>1, <1>2 DEF OutcomeHyps, CleanInv, CleanOf
  <1>4. /\ server'[conn[f]] = [NoTx EXCEPT !.by = f]
        /\ \A c \in Conns \ {conn[f]} : server'[c] = server[c]
        /\ UNCHANGED durable
    <2>1. server[conn[f]].writes = {} /\ [server[conn[f]] EXCEPT !.by = f] = [NoTx EXCEPT !.by = f]
      BY <1>3 DEF NoTx
    <2>2. UNCHANGED durable
      BY <1>1, <2>1 DEF Begins
    <2>3. \E t : server' = [server EXCEPT ![conn[f]] = t] /\ t = [NoTx EXCEPT !.by = f]
      BY <1>1, <2>1 DEF Begins
    <2> QED BY <1>2, <2>2, <2>3 DEF OutcomeHyps, DataTypes
  <1>5. LocalTo(f) /\ pc'[f] = "open" /\ conn'[f] = conn[f]
    BY <1>1, <1>2, <1>4, OwnLocal
  <1>6. OutcomeOf(f)
    BY DEF OutcomeHyps
  <1>7. WritesOf(f) = {} /\ NoneIn(f)
    BY <1>1, <1>6, WritesStay DEF OutcomeOf, NoneIn
  <1>8. Underway(f)'
    BY <1>1, <1>4, <1>5, <1>7, Same DEF Underway, Whole, NoTx
  <1>9. OutcomeOf(f)'
    BY <1>1, <1>3, <1>4, <1>5, <1>6, <1>8, Same DEF OutcomeOf, Before
  <1> QED BY <1>5, <1>9

\* A plain call writes on a clean connection: its write is durable at once.
LEMMA PlainOutcome ==
    ASSUME OutcomeHyps, NEW f \in Flows, PlainWorks(f) \/ PlainReplyLost(f), UNCHANGED setting
    PROVE  OutcomeOf(f)' /\ LocalTo(f) /\ <<f, 1>> \in durable'
  <1>0. PICK s \in {"resolved", "rejected"} :
           release(f, s) /\ (s = "rejected" => "commit_reply" \in Faults)
    BY DEF PlainWorks, PlainReplyLost
  <1>1. /\ pc[f] = "granted" /\ role[f] = "plain" /\ Writes(conn[f], <<f, 1>>)
        /\ written' = [written EXCEPT ![f] = 1]
        /\ UNCHANGED <<role, settled, deferred>>
    BY DEF PlainWorks, PlainReplyLost
  <1>2. HasConn(f) /\ conn[f] \in Conns
    BY <1>1, Holds DEF OutcomeHyps, Holding
  <1>3. server[conn[f]] = NoTx /\ ~ settled[f]
    BY <1>1, <1>2 DEF OutcomeHyps, CleanInv, CleanOf
  <1>4. durable' = durable \cup {<<f, 1>>} /\ UNCHANGED server
    BY <1>1, <1>3 DEF Writes, NoTx
  <1>5. /\ pc'[f] = s
        /\ \A g \in Flows \ {f} :
              \/ pc'[g] = pc[g] /\ conn'[g] = conn[g]
              \/ pc[g] = "waiting" /\ pc'[g] = "granted"
    BY <1>0, <1>1, ReleaseSteps DEF OutcomeHyps, Ended, Before
  <1>6. written'[f] = 1 /\ \A g \in Flows \ {f} : written'[g] = written[g]
    BY <1>1 DEF OutcomeHyps, DataTypes
  <1>7. \A w \in durable' \ durable : w[1] = f
    BY <1>4
  <1>8. LocalTo(f)
    BY <1>1, <1>4, <1>5, <1>6, <1>7 DEF LocalTo, Before
  <1>9. OutcomeOf(f) /\ written[f] = 0
    BY <1>1 DEF OutcomeHyps, OutcomeOf
  <1>10. WritesOf(f) = {} /\ WritesOf(f)' = {<<f, 1>>}
    BY <1>6, <1>9, WritesStay, WritesGrow DEF OutcomeHyps
  <1>11. AllIn(f)' /\ deferred'[f] \subseteq WritesOf(f)' /\ \A w \in durable' : w[1] = f => w \in WritesOf(f)'
    BY <1>1, <1>4, <1>9, <1>10 DEF AllIn, OutcomeOf
  <1>12. OutcomeOf(f)'
    BY <1>0, <1>1, <1>3, <1>5, <1>11 DEF OutcomeOf, Underway, Before, Faults
  <1> QED BY <1>4, <1>8, <1>12

\* A plain call that is refused leaves nothing.
LEMMA PlainFailOutcome ==
    ASSUME OutcomeHyps, NEW f \in Flows, PlainFails(f), UNCHANGED setting
    PROVE  OutcomeOf(f)' /\ LocalTo(f)
  <1>1. /\ pc[f] = "granted" /\ "refused" \in Ended /\ release(f, "refused") /\ pc[f] \notin Before
        /\ UNCHANGED <<role, settled, written, deferred>>
        /\ Refuses(conn[f]) \/ (server' = [server EXCEPT ![conn[f]] = NoTx] /\ UNCHANGED durable)
    BY DEF PlainFails, Ended, Before
  <1>2. HasConn(f) /\ conn[f] \in Conns
    BY <1>1, Holds DEF OutcomeHyps, Holding
  <1>3. server[conn[f]] = NoTx
    BY <1>1, <1>2 DEF OutcomeHyps, CleanInv, CleanOf
  <1>4. UNCHANGED <<server, durable>>
    BY <1>1, <1>2, <1>3, RefusedTx DEF OutcomeHyps
  <1> QED BY <1>1, <1>4, ReleaseOutcome

\* A write joins what is pending or, when the transaction is gone, what is durable.
LEMMA WriteOutcome ==
    ASSUME OutcomeHyps, NEW f \in Flows, BodyWrites(f), UNCHANGED setting
    PROVE  OutcomeOf(f)' /\ LocalTo(f)
  <1> DEFINE w == <<f, written[f] + 1>>
  <1>1. /\ pc[f] = "open" /\ (settled[f] => setting.late) /\ Writes(conn[f], w)
        /\ written' = [written EXCEPT ![f] = @ + 1]
        /\ deferred' = [deferred EXCEPT ![f] = @ \cup {w}]
        /\ UNCHANGED <<pc, role, poolVars, settled>>
    BY DEF BodyWrites, BodyRuns
  <1>2. HasConn(f) /\ conn[f] \in Conns
    BY <1>1, Holds DEF OutcomeHyps, Holding
  <1>3. /\ written[f] \in Nat /\ written'[f] = written[f] + 1 /\ deferred'[f] = deferred[f] \cup {w}
        /\ \A g \in Flows \ {f} : written'[g] = written[g] /\ deferred'[g] = deferred[g]
    BY <1>1, BoundsAssumption DEF OutcomeHyps, DataTypes
  <1>4. WritesOf(f)' = WritesOf(f) \cup {w} /\ \A v \in WritesOf(f) : v[1] = f
    BY <1>3, WritesGrow, WritesStay DEF OutcomeHyps
  <1>5. OutcomeOf(f) /\ w[1] = f
    BY DEF OutcomeHyps
  <1>6. /\ \/ settled[f]
           \/ server[conn[f]] = Whole(f) /\ NoneIn(f)
           \/ ~ settled[f] /\ server[conn[f]] = NoTx /\ AllIn(f) /\ "commit_reply" \in Faults
        /\ f # NoFlow /\ w \notin WritesOf(f)
    BY <1>1, <1>3, <1>5, IdsAssumption DEF OutcomeOf, Underway, WritesOf
  <1> HIDE DEF w
  <1>9. CASE settled[f]
    <2>1. server[conn[f]] = NoTx
      BY <1>2, <1>9 DEF OutcomeHyps, CleanInv, CleanOf
    <2>2. UNCHANGED server /\ durable' = durable \cup {w}
      BY <1>1, <2>1 DEF Writes, NoTx
    <2>3. LocalTo(f)
      BY <1>1, <1>2, <1>3, <1>5, <2>2 DEF LocalTo, poolVars
    <2>4. role[f] # "callback"
      BY <1>1, <1>5, <1>9 DEF OutcomeOf
    <2>5. OutcomeOf(f)'
      BY <1>1, <1>3, <1>4, <1>5, <1>9, <2>2, <2>4 DEF OutcomeOf, Underway, Before
    <2> QED BY <2>3, <2>5
  <1>7. CASE ~ settled[f] /\ server[conn[f]] = Whole(f) /\ NoneIn(f)
    <2>1. /\ UNCHANGED durable /\ server' = [server EXCEPT ![conn[f]].writes = @ \cup {w}]
      BY <1>1, <1>6, <1>7 DEF Writes, Whole
    <2>2. /\ server'[conn[f]] = Whole(f)'
          /\ \A c \in Conns \ {conn[f]} : server'[c] = server[c]
      <3>1. [server[conn[f]] EXCEPT !.writes = @ \cup {w}] = Whole(f)'
        BY <1>4, <1>7 DEF Whole
      <3> QED BY <1>2, <2>1, <3>1 DEF OutcomeHyps, DataTypes
    <2>3. w \notin durable
      BY <1>5, <1>6 DEF OutcomeOf
    <2>4. NoneIn(f)'
      BY <1>4, <1>7, <2>1, <2>3 DEF NoneIn
    <2>5. LocalTo(f)
      BY <1>1, <1>2, <1>3, <2>1, <2>2 DEF LocalTo, poolVars
    <2>6. Underway(f)'
      BY <1>1, <1>4, <2>2, <2>4 DEF Underway, poolVars
    <2>7. OutcomeOf(f)'
      BY <1>1, <1>3, <1>4, <1>5, <2>1, <2>6 DEF OutcomeOf, Before
    <2> QED BY <2>5, <2>7
  <1>8. CASE ~ settled[f] /\ server[conn[f]] = NoTx /\ AllIn(f) /\ "commit_reply" \in Faults
    <2>1. UNCHANGED server /\ durable' = durable \cup {w}
      BY <1>1, <1>8 DEF Writes, NoTx
    <2>2. AllIn(f)'
      BY <1>4, <1>8, <2>1 DEF AllIn
    <2>3. LocalTo(f)
      BY <1>1, <1>2, <1>3, <1>5, <2>1 DEF LocalTo, poolVars
    <2>4. Underway(f)'
      BY <1>1, <1>8, <2>1, <2>2 DEF Underway, poolVars, Faults
    <2>5. OutcomeOf(f)'
      BY <1>1, <1>3, <1>4, <1>5, <2>1, <2>4 DEF OutcomeOf, Before
    <2> QED BY <2>3, <2>5
  <1> QED BY <1>6, <1>7, <1>8, <1>9

\* A refused statement leaves a transaction that can only be rolled back.
LEMMA FailOutcome ==
    ASSUME OutcomeHyps, NEW f \in Flows, BodyFails(f), UNCHANGED setting
    PROVE  OutcomeOf(f)' /\ LocalTo(f)
  <1>1. /\ pc[f] = "open" /\ Refuses(conn[f])
        /\ Goes(f, IF role[f] = "callback" THEN "catching" ELSE "disposing")
        /\ UNCHANGED <<role, poolVars, settled, written, deferred>>
    BY DEF BodyFails, BodyRuns, OutcomeHyps, ErrorsRethrown, Goes
  <1>2. HasConn(f) /\ conn[f] \in Conns
    BY <1>1, Holds DEF OutcomeHyps, Holding
  <1>3. /\ UNCHANGED durable /\ \A c \in Conns \ {conn[f]} : server'[c] = server[c]
        /\ server[conn[f]] = NoTx => UNCHANGED server
    BY <1>1, <1>2, RefusedTx DEF OutcomeHyps
  <1>4. /\ LocalTo(f) /\ conn'[f] = conn[f]
        /\ pc'[f] = IF role[f] = "callback" THEN "catching" ELSE "disposing"
    BY <1>1, <1>2, <1>3, OwnLocal
  <1>5. OutcomeOf(f) /\ RoleOf(f)
    BY DEF OutcomeHyps
  <1>6. Underway(f)'
    BY <1>1, <1>3, <1>4, <1>5, Same DEF Underway, OutcomeOf
  <1>7. OutcomeOf(f)'
    BY <1>1, <1>3, <1>4, <1>5, <1>6, Same DEF OutcomeOf, Before
  <1> QED BY <1>4, <1>7

\* COMMIT makes durable what is pending, whether or not its reply arrives; a
\* second one finds nothing to commit.
LEMMA CommitOutcome ==
    ASSUME OutcomeHyps, NEW f \in Flows, pc[f] = "open", NEW s \in {"catching", "open"},
           commit(f, "draining", s), UNCHANGED <<setting, poolVars, role, written, deferred>>,
           role[f] = "callback" <=> s = "catching"
    PROVE  OutcomeOf(f)' /\ LocalTo(f)
  <1>1. HasConn(f) /\ conn[f] \in Conns
    BY Holds DEF OutcomeHyps, Holding
  <1>2. OutcomeOf(f) /\ RoleOf(f)
    BY DEF OutcomeHyps
  <1>3. WritesOf(f)' = WritesOf(f) /\ Faults' = Faults /\ \A v \in WritesOf(f) : v[1] = f
    BY WritesStay DEF Faults
  <1>4. CASE settled' = settled /\ Goes(f, s) /\ UNCHANGED serverVars
    <2>1. LocalTo(f) /\ pc'[f] = s /\ conn'[f] = conn[f]
      BY <1>1, <1>4, OwnLocal DEF serverVars
    <2>2. Underway(f)'
      BY <1>2, <1>4, <2>1, Same DEF Underway, OutcomeOf, serverVars
    <2>3. OutcomeOf(f)'
      BY <1>2, <1>4, <2>1, <2>2, Same DEF OutcomeOf, Before, serverVars
    <2> QED BY <2>1, <2>3
  <1>5. ASSUME Commits(conn[f]), NEW t \in {"draining", s}, Goes(f, t),
               \/ t = "draining" /\ settled' = [settled EXCEPT ![f] = TRUE]
               \/ t = s /\ UNCHANGED settled /\ "commit_reply" \in Faults
        PROVE  OutcomeOf(f)' /\ LocalTo(f)
    <2>1. /\ server'[conn[f]] = NoTx
          /\ \A c \in Conns \ {conn[f]} : server'[c] = server[c]
          /\ durable' = durable \cup server[conn[f]].writes
      BY <1>1, <1>5 DEF Commits, OutcomeHyps, DataTypes
    <2>2. \/ server[conn[f]].writes = WritesOf(f) /\ ~ settled[f]
          \/ server[conn[f]].writes = {} /\ ~ settled[f] /\ AllIn(f)
          \/ server[conn[f]].writes = {} /\ settled[f] /\ (setting.late \/ NoneIn(f) \/ AllIn(f))
                /\ role[f] # "callback"
      <3>1. CASE settled[f]
        <4>1. server[conn[f]] = NoTx
          BY <1>1, <3>1 DEF OutcomeHyps, CleanInv, CleanOf
        <4> QED BY <1>2, <3>1, <4>1 DEF NoTx, OutcomeOf
      <3>2. CASE ~ settled[f]
        BY <1>2, <3>2 DEF OutcomeOf, Underway, NoTx, Whole
      <3> QED BY <3>1, <3>2
    <2>3. durable \subseteq durable' /\ \A v \in durable' \ durable : v \in WritesOf(f)
      BY <2>1, <2>2
    <2>4. /\ ~ settled[f] => AllIn(f)'
          /\ setting.late \/ AllIn(f)' \/ NoneIn(f)'
          /\ ~ settled[f] \/ role[f] # "callback"
      BY <1>3, <2>1, <2>2 DEF AllIn, NoneIn
    <2>5. /\ \A g \in Flows \ {f} : settled'[g] = settled[g]
          /\ \/ t = "draining" /\ settled'[f]
             \/ t = s /\ settled'[f] = settled[f] /\ "commit_reply" \in Faults
      BY <1>5 DEF OutcomeHyps, DataTypes
    <2>6. LocalTo(f) /\ pc'[f] = t /\ conn'[f] = conn[f]
      BY <1>1, <1>3, <1>5, <2>1, <2>3, <2>5, OwnLocal
    <2>7. Underway(f)'
      BY <1>3, <2>1, <2>4, <2>5, <2>6 DEF Underway
    <2>8. role[f] = "callback" => ~ settled[f]
      BY <1>2 DEF OutcomeOf
    <2>9. \A v \in durable' : v[1] = f => v \in WritesOf(f)'
      BY <1>2, <1>3, <2>3 DEF OutcomeOf
    <2>10. OutcomeOf(f)'
      BY <1>2, <1>3, <2>4, <2>5, <2>6, <2>7, <2>8, <2>9 DEF OutcomeOf, Before
    <2> QED BY <2>6, <2>10
  <1>6. \/ settled' = settled /\ Goes(f, s) /\ UNCHANGED serverVars
        \/ Commits(conn[f]) /\ Goes(f, "draining") /\ settled' = [settled EXCEPT ![f] = TRUE]
        \/ Commits(conn[f]) /\ Goes(f, s) /\ UNCHANGED settled /\ "commit_reply" \in Faults
    BY DEF commit, Goes
  <1> QED BY <1>4, <1>5, <1>6

\* ROLLBACK drops what is pending; what a lost reply hid stays durable.
LEMMA RollbackOutcome ==
    ASSUME OutcomeHyps, NEW f \in Flows, NEW s \in {"disposing", "releasing", "open"},
           \/ pc[f] = "catching" /\ s = "disposing"
           \/ pc[f] = "disposing" /\ ~ settled[f] /\ s = "releasing"
           \/ pc[f] = "open" /\ s = "open" /\ role[f] = "manual",
           rollback(f, s, s), UNCHANGED <<setting, poolVars, role, written, deferred>>
    PROVE  OutcomeOf(f)' /\ LocalTo(f)
  <1>1. OutcomeOf(f) /\ RoleOf(f)
    BY DEF OutcomeHyps
  <1>2. HasConn(f) /\ conn[f] \in Conns
    <2>1. CASE pc[f] = "disposing"
      BY <2>1, UnderwayHolds DEF OutcomeHyps
    <2>2. CASE pc[f] \in {"catching", "open"}
      BY <2>2, Holds DEF OutcomeHyps, Holding
    <2> QED BY <2>1, <2>2
  <1>3. /\ server' = [server EXCEPT ![conn[f]] = NoTx]
        /\ settled' = [settled EXCEPT ![f] = TRUE]
        /\ Goes(f, s) /\ UNCHANGED durable
    BY DEF rollback, OutcomeHyps, RollbacksAccepted, Goes
  <1>4. \A c \in Conns \ {conn[f]} : server'[c] = server[c]
    BY <1>3 DEF OutcomeHyps, DataTypes
  <1>5. settled'[f] /\ \A g \in Flows \ {f} : settled'[g] = settled[g]
    BY <1>3 DEF OutcomeHyps, DataTypes
  <1>6. LocalTo(f) /\ pc'[f] = s /\ conn'[f] = conn[f]
    BY <1>2, <1>3, <1>4, <1>5, OwnLocal
  <1>7. /\ setting.late \/ NoneIn(f) \/ AllIn(f)
        /\ ~ settled[f] => NoneIn(f) \/ (AllIn(f) /\ "commit_reply" \in Faults)
    BY <1>1 DEF OutcomeOf, Underway
  <1>8. role[f] = "callback" => ~ settled[f]
    BY <1>1 DEF OutcomeOf
  <1>9. Underway(f)'
    BY <1>5 DEF Underway
  <1>10. OutcomeOf(f)'
    BY <1>1, <1>3, <1>5, <1>6, <1>7, <1>8, <1>9, Same DEF OutcomeOf, Before
  <1> QED BY <1>6, <1>10

\* The steps that send nothing.
LEMMA SilentOutcome ==
    ASSUME OutcomeHyps, NEW f \in Flows, UNCHANGED setting,
           BodyThrows(f) \/ Drain(f) \/ DisposeAgain(f) \/ HandleDispose(f)
    PROVE  OutcomeOf(f)' /\ LocalTo(f)
  <1>1. OutcomeOf(f) /\ RoleOf(f) /\ CleanOf(f)
    BY DEF OutcomeHyps, CleanInv
  <1>2. /\ UNCHANGED <<role, poolVars, settled, serverVars, written>>
        /\ \A g \in Flows \ {f} : deferred'[g] = deferred[g]
        /\ deferred'[f] \subseteq deferred[f]
    BY DEF BodyThrows, Drain, DisposeAgain, HandleDispose, ManualCall, OutcomeHyps, DataTypes
  <1>3. \/ pc[f] = "open" /\ role[f] = "callback" /\ Goes(f, "catching")
        \/ pc[f] = "draining" /\ role[f] # "callback" /\ Goes(f, "open")
        \/ pc[f] = "draining" /\ role[f] = "callback" /\ Goes(f, "leaving")
        \/ pc[f] \in {"open", "disposed"} /\ role[f] = "manual" /\ Goes(f, "disposing")
    BY <1>1 DEF BodyThrows, Drain, DisposeAgain, HandleDispose, ManualCall, RoleOf, Goes, Before
  <1>4. /\ \A g \in Flows \ {f} : pc'[g] = pc[g] /\ conn'[g] = conn[g]
        /\ conn'[f] = conn[f]
        /\ \/ pc[f] = "open" /\ role[f] = "callback" /\ pc'[f] = "catching"
           \/ pc[f] = "draining" /\ role[f] # "callback" /\ pc'[f] = "open"
           \/ pc[f] = "draining" /\ role[f] = "callback" /\ pc'[f] = "leaving"
           \/ pc[f] \in {"open", "disposed"} /\ role[f] = "manual" /\ pc'[f] = "disposing"
    BY <1>2, <1>3, OwnSteps DEF OutcomeHyps, Goes, poolVars
  <1>5. LocalTo(f)
    BY <1>2, <1>4 DEF LocalTo, serverVars
  <1>6. pc[f] \in {"draining", "disposed"} => settled[f]
    BY <1>1 DEF CleanOf
  <1>7. Underway(f)'
    BY <1>1, <1>2, <1>4, <1>6, Same DEF Underway, OutcomeOf, serverVars
  <1>8. OutcomeOf(f)'
    BY <1>1, <1>2, <1>4, <1>6, <1>7, Same DEF OutcomeOf, Before, serverVars
  <1> QED BY <1>5, <1>8

\* Every step of a call keeps its outcome and leaves the others theirs.
LEMMA CallOutcome ==
    ASSUME OutcomeHyps, NEW f \in Flows, Continues(f)
    PROVE  OutcomeOf(f)' /\ LocalTo(f)
  <1>0. UNCHANGED setting /\ RoleOf(f) /\ CleanOf(f)
    BY DEF Continues, OutcomeHyps, CleanInv
  <1>1. CASE BeginSucceeds(f)
    BY <1>0, <1>1, BeginOutcome
  <1>2. CASE PlainWorks(f) \/ PlainReplyLost(f)
    BY <1>0, <1>2, PlainOutcome
  <1>3. CASE BodyWrites(f)
    BY <1>0, <1>3, WriteOutcome
  <1>12. CASE PlainFails(f)
    BY <1>0, <1>12, PlainFailOutcome
  <1>13. CASE BodyFails(f)
    BY <1>0, <1>13, FailOutcome
  <1>4. CASE Commit(f)
    BY <1>0, <1>4, CommitOutcome DEF Commit
  <1>5. CASE HandleCommit(f)
    BY <1>0, <1>5, CommitOutcome DEF HandleCommit, ManualCall
  <1>6. CASE Rollback(f)
    BY <1>0, <1>6, RollbackOutcome DEF Rollback
  <1>7. CASE DisposeRollsBack(f)
    BY <1>0, <1>7, RollbackOutcome DEF DisposeRollsBack
  <1>8. CASE HandleRollback(f)
    BY <1>0, <1>8, RollbackOutcome DEF HandleRollback, ManualCall
  <1>9. CASE BodyThrows(f) \/ Drain(f) \/ DisposeAgain(f) \/ HandleDispose(f)
    BY <1>0, <1>9, SilentOutcome
  <1>10. CASE BeginFails(f)
    <2>1. /\ pc[f] = "granted" /\ "refused" \in Ended /\ release(f, "refused") /\ pc[f] \notin Before
          /\ UNCHANGED <<role, settled, server, durable, written, deferred>>
      BY <1>10 DEF BeginFails, serverVars, Ended, Before
    <2> QED BY <1>0, <2>1, ReleaseOutcome
  <1>11. CASE DisposeReleases(f)
    <2>1. /\ pc[f] \in {"leaving", "releasing"} \/ (pc[f] = "disposing" /\ settled[f])
          /\ UNCHANGED <<role, settled, server, durable, written, deferred>>
      BY <1>11 DEF DisposeReleases, serverVars
    <2>2. pc[f] = "leaving" => role[f] = "callback"
      BY <1>0 DEF RoleOf
    <2>3. PICK s \in Ended : /\ release(f, s)
                             /\ IF pc[f] = "leaving" THEN s = "resolved" ELSE s \in {"rejected", "disposed"}
      BY <1>11, <2>2 DEF DisposeReleases, Ended
    <2>4. settled[f] /\ pc[f] \notin Before
      BY <1>0, <2>1 DEF CleanOf, Before
    <2> QED BY <1>0, <2>1, <2>3, <2>4, ReleaseOutcome
  <1> QED BY <1>1, <1>2, <1>3, <1>4, <1>5, <1>6, <1>7, <1>8, <1>9, <1>10, <1>11, <1>12, <1>13 DEF Continues

\* The hooks that have run are of calls that have begun, and report durable
\* writes where transaction() settles them.
HookOf(w) == pc[w[1]] # "idle" /\ (role[w[1]] # "manual" => w \in durable)

HookInv == RollbacksAccepted /\ ErrorsRethrown => \A w \in delivered : HookOf(w)

\* A local step keeps the hooks that have run, and runs those of durable writes.
LEMMA HooksKeep ==
    ASSUME OutcomeHyps, HookInv, NEW f \in Flows, LocalTo(f), role'[f] = role[f] \/ pc[f] = "idle",
           pc'[f] # "idle",
           \A w \in delivered' \ delivered : w[1] = f /\ (role'[f] # "manual" => w \in durable')
    PROVE  \A w \in delivered' : HookOf(w)'
  <1> SUFFICES ASSUME NEW w \in delivered' PROVE HookOf(w)'
    OBVIOUS
  <1>1. CASE w \in delivered
    <2>1. HookOf(w) /\ w[1] \in Flows
      BY <1>1 DEF HookInv, OutcomeHyps, DataTypes, WriteIds
    <2>2. CASE w[1] = f
      BY <2>1, <2>2 DEF HookOf, LocalTo
    <2>3. CASE w[1] # f
      BY <2>1, <2>3 DEF HookOf, LocalTo
    <2> QED BY <2>2, <2>3
  <1>2. CASE w \notin delivered
    BY <1>2 DEF HookOf
  <1> QED BY <1>1, <1>2

\* Hooks run when a queue is drained after its COMMIT, or with a plain call.
LEMMA CallHooks ==
    ASSUME OutcomeHyps, HookInv, NEW f \in Flows, Continues(f)
    PROVE  \A w \in delivered' : HookOf(w)'
  <1>0. LocalTo(f) /\ OutcomeOf(f) /\ RoleOf(f)
    BY CallOutcome DEF OutcomeHyps
  <1>1. UNCHANGED role
    BY DEF Continues, BeginSucceeds, BeginFails, PlainWorks, PlainFails, PlainReplyLost, BodyWrites,
       BodyFails, Commit, BodyThrows, Rollback, DisposeRollsBack, DisposeReleases, Drain, HandleCommit, HandleRollback,
       DisposeAgain, HandleDispose, ManualCall
  <1>2. pc'[f] # "idle"
    <2>1. ASSUME NEW s \in Steps \ {"idle"}, Goes(f, s) PROVE pc'[f] # "idle"
      BY <2>1 DEF Goes, OutcomeHyps, PoolInv, PoolTypes
    <2>2. ASSUME NEW s \in Ended, release(f, s), pc[f] \notin Before PROVE pc'[f] # "idle"
      BY <2>2, ReleaseSteps DEF OutcomeHyps, Ended
    <2>3. CASE BeginSucceeds(f) \/ Commit(f) \/ BodyThrows(f) \/ Rollback(f) \/ DisposeRollsBack(f)
               \/ Drain(f) \/ HandleCommit(f) \/ HandleRollback(f) \/ DisposeAgain(f) \/ HandleDispose(f)
      <3>1. \E s \in Steps \ {"idle"} : Goes(f, s)
        BY <2>3 DEF BeginSucceeds, Commit, BodyThrows, Rollback, DisposeRollsBack, Drain, HandleCommit,
           HandleRollback, DisposeAgain, HandleDispose, ManualCall, commit, rollback, Goes, Steps
      <3> QED BY <2>1, <3>1
    <2>4. CASE BeginFails(f) \/ PlainWorks(f) \/ PlainFails(f) \/ PlainReplyLost(f) \/ DisposeReleases(f)
      <3>1. pc[f] \notin Before /\ \E s \in Ended : release(f, s)
        BY <2>4 DEF BeginFails, PlainWorks, PlainFails, PlainReplyLost, DisposeReleases, Ended, Before
      <3> QED BY <2>2, <3>1
    <2>5. CASE BodyWrites(f) \/ BodyFails(f)
      <3>1. pc[f] = "open" /\ \E s \in Steps \ {"idle"} : UNCHANGED pc \/ Goes(f, s)
        BY <2>5 DEF BodyWrites, BodyFails, BodyRuns, Goes, Steps
      <3> QED BY <2>1, <3>1
    <2> QED BY <2>3, <2>4, <2>5 DEF Continues
  <1>3. CASE Drain(f)
    <2>1. pc[f] = "draining" /\ UNCHANGED durable /\ delivered' = delivered \cup deferred[f]
      BY <1>3 DEF Drain, serverVars
    <2>2. role[f] # "manual" => AllIn(f)
      BY <1>0, <2>1 DEF RoleOf, OutcomeOf, Before
    <2>3. \A w \in deferred[f] : w[1] = f /\ (role[f] # "manual" => w \in durable)
      BY <1>0, <2>2, WritesStay DEF OutcomeOf, AllIn
    <2> QED BY <1>0, <1>1, <1>2, <2>1, <2>3, HooksKeep
  <1>4. CASE PlainWorks(f)
    <2>1. <<f, 1>> \in durable' /\ delivered' = delivered \cup {<<f, 1>>}
      BY <1>4, PlainOutcome DEF PlainWorks, Continues
    <2> QED BY <1>0, <1>1, <1>2, <2>1, HooksKeep
  <1>5. CASE UNCHANGED delivered
    BY <1>0, <1>1, <1>2, <1>5, HooksKeep
  <1>6. Drain(f) \/ PlainWorks(f) \/ UNCHANGED delivered
    BY DEF Continues, BeginSucceeds, BeginFails, PlainFails, PlainReplyLost, BodyWrites, BodyFails,
       Commit, BodyThrows, Rollback, DisposeRollsBack, DisposeReleases, HandleCommit, HandleRollback, DisposeAgain, HandleDispose,
       ManualCall
  <1> QED BY <1>3, <1>4, <1>5, <1>6

\* Every step keeps the outcomes and the hooks.
LEMMA NextOutcome ==
    PoolInv /\ DataTypes /\ CleanInv /\ OutcomeInv /\ HookInv /\ [Next]_vars => OutcomeInv' /\ HookInv'
  <1> SUFFICES ASSUME PoolInv, DataTypes, CleanInv, OutcomeInv, HookInv, [Next]_vars
               PROVE  OutcomeInv' /\ HookInv'
    OBVIOUS
  <1>1. \A f \in Flows : RoleOf(f)'
    BY NextRole DEF OutcomeInv
  <1>2. UNCHANGED setting
    BY DEF Next, Starts, Continues, Quiescent, vars
  <1>3. CASE ~ (RollbacksAccepted /\ ErrorsRethrown)
    BY <1>1, <1>2, <1>3 DEF OutcomeInv, HookInv, RollbacksAccepted, ErrorsRethrown, Faults
  <1>4. CASE RollbacksAccepted /\ ErrorsRethrown
    <2>1. OutcomeHyps
      BY <1>4 DEF OutcomeHyps, OutcomeInv
    <2>2. ASSUME NEW f \in Flows, Starts(f)
          PROVE  (\A g \in Flows : OutcomeOf(g)') /\ \A w \in delivered' : HookOf(w)'
      <3>1. OutcomeOf(f)' /\ LocalTo(f)
        BY <2>1, <2>2, AskOutcome
      <3>2. pc[f] = "idle" /\ UNCHANGED delivered /\ getConnection(f)
        BY <2>2 DEF Starts, Ask, IsNext
      <3>3. pc'[f] # "idle"
        BY <3>2, GetSteps
      <3>4. \A w \in delivered' : HookOf(w)'
        BY <2>1, <3>1, <3>2, <3>3, HooksKeep
      <3> QED BY <2>1, <3>1, <3>4, OthersKeep
    <2>3. ASSUME NEW f \in Flows, Continues(f)
          PROVE  (\A g \in Flows : OutcomeOf(g)') /\ \A w \in delivered' : HookOf(w)'
      BY <2>1, <2>3, CallOutcome, CallHooks, OthersKeep
    <2>4. ASSUME UNCHANGED vars
          PROVE  (\A g \in Flows : OutcomeOf(g)') /\ \A w \in delivered' : HookOf(w)'
      <3>1. \A g \in Flows : OutcomeOf(g)'
        BY <2>1, <2>4 DEF vars, poolVars, serverVars, OutcomeHyps, OutcomeOf, Underway, AllIn, NoneIn, WritesOf, Faults, Whole
      <3>2. \A w \in delivered' : HookOf(w)'
        BY <1>4, <2>4 DEF vars, serverVars, HookInv, HookOf
      <3> QED BY <3>1, <3>2
    <2>5. (\A g \in Flows : OutcomeOf(g)') /\ \A w \in delivered' : HookOf(w)'
      BY <2>2, <2>3, <2>4 DEF Next, Quiescent
    <2> QED BY <1>1, <2>5 DEF OutcomeInv, HookInv
  <1> QED BY <1>3, <1>4

\* The outcomes and the hooks hold in every state.
LEMMA OutcomeHolds ==
    ASSUME OnceOnMysql
    PROVE  Spec => [](OutcomeInv /\ HookInv)
  <1>1. Init => DataTypes /\ CleanInv /\ OutcomeInv /\ HookInv
    <2> SUFFICES ASSUME Init PROVE DataTypes /\ CleanInv /\ OutcomeInv /\ HookInv
      OBVIOUS
    <2>1. DataTypes
      BY InitData
    <2>2. CleanInv
      BY DEF Init, CleanInv, CleanOf, HasEnded, Ended, NoTx, HasConn
    <2>3. ASSUME NEW f \in Flows PROVE RoleOf(f) /\ OutcomeOf(f)
      <3>1. pc[f] = "idle" /\ role[f] = "none" /\ ~ settled[f] /\ written[f] = 0 /\ deferred[f] = {} /\ durable = {}
        BY DEF Init
      <3> QED BY <3>1 DEF RoleOf, OutcomeOf, Underway, Before
    <2>4. HookInv
      BY DEF Init, HookInv
    <2> QED BY <2>1, <2>2, <2>3, <2>4 DEF OutcomeInv
  <1>2. PoolInv /\ [Next]_vars => PoolInv'
    BY NextPool
  <1>3. PoolInv /\ DataTypes /\ CleanInv /\ [Next]_vars => CleanInv'
    BY NextClean
  <1> QED BY <1>1, <1>2, <1>3, InitPool, NextData, NextOutcome, PTL DEF Spec

\* As long as the server accepts every ROLLBACK and no callback catches the error
\* of a statement and goes on, a call that resolved is durable; one that rejected
\* left nothing, or everything when only the reply to what committed it was
\* lost; and a handle that is not written through once settled leaves all or
\* nothing (transaction.ts over drivers/mysql.ts and drivers/postgres.ts).
THEOREM OutcomeCorrect ==
    ASSUME OnceOnMysql
    PROVE  Spec => []AtomicOutcome
  <1>1. OutcomeInv => AtomicOutcome
    <2> SUFFICES ASSUME RollbacksAccepted, NEW f \in Flows, RoleOf(f), OutcomeOf(f)
                 PROVE  /\ pc[f] = "resolved" => AllIn(f)
                        /\ pc[f] = "rejected" => NoneIn(f) \/ (AllIn(f) /\ "commit_reply" \in Faults)
                        /\ pc[f] = "disposed" /\ ~ setting.late => NoneIn(f) \/ AllIn(f)
      BY DEF OutcomeInv, AtomicOutcome, AllIn, NoneIn
    <2> QED BY DEF OutcomeOf, RoleOf, Before
  <1> QED BY <1>1, OutcomeHolds, PTL

\* As long as the server accepts every ROLLBACK and no callback catches the error
\* of a statement and goes on, the after-hooks that transaction() and the plain
\* calls run report durable writes.
THEOREM HooksCorrect ==
    ASSUME OnceOnMysql
    PROVE  Spec => []HooksAreDurable
  <1>1. HookInv => HooksAreDurable
    BY DEF HookInv, HookOf, HooksAreDurable, HooksReportDurable
  <1> QED BY <1>1, OutcomeHolds, PTL
=============================================================================
