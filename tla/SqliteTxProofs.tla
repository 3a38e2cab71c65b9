--------------------------- MODULE SqliteTxProofs ---------------------------
(***************************************************************************)
(* Theorems about SqliteTx, for any number of flows, any nesting of their  *)
(* calls, any faults and any bounds: the mutex and the hooks, what is      *)
(* nested in a transaction, the store that SqliteTx implements, and what   *)
(* becomes of a transaction.                                               *)
(***************************************************************************)
EXTENDS SqliteTxStore, TLAPS

-----------------------------------------------------------------------------
(* Lemmas: what the steps of the mutex preserve. *)

\* The places a flow can be at.
LEMMA StepNames ==
    {"idle", "waiting", "granted", "open", "catching", "disposing", "draining",
     "resolved", "rejected", "refused", "disposed"} = Steps
  BY DEF Steps, Ended

\* The head of a queue of flows is one of them, and the rest is a queue.
LEMMA QueueHead ==
    ASSUME NEW q \in Seq(Flows), q # <<>>
    PROVE  Head(q) \in Flows /\ Tail(q) \in Seq(Flows)
  OBVIOUS

\* Asking for the lock keeps the mutex typed (acquire).
LEMMA AcquireType ==
    ASSUME MutexType, NEW f \in Flows, acquire(f)
    PROVE  MutexType'
  <1>1. "granted" \in Steps /\ "waiting" \in Steps
    BY StepNames
  <1>2. pc' \in [Flows -> Steps]
    BY <1>1 DEF acquire, MutexType
  <1>3. locked' \in BOOLEAN
    BY DEF acquire, MutexType
  <1>4. waiters' \in Seq(Flows)
    BY DEF acquire, MutexType
  <1> QED BY <1>2, <1>3, <1>4 DEF MutexType

\* So does handing it over or freeing it (releaseLock).
LEMMA ReleaseLockType ==
    ASSUME MutexType, NEW f \in Flows, NEW s \in Steps, releaseLock(f, s)
    PROVE  MutexType'
  <1>1. "granted" \in Steps
    BY StepNames
  <1>2. CASE waiters = <<>>
    BY <1>2 DEF releaseLock, MutexType
  <1>3. CASE waiters # <<>>
    <2>1. Head(waiters) \in Flows /\ Tail(waiters) \in Seq(Flows)
      BY <1>3, QueueHead DEF MutexType
    <2>2. pc' \in [Flows -> Steps]
      BY <1>1, <1>3, <2>1 DEF releaseLock, MutexType
    <2> QED BY <1>3, <2>1, <2>2 DEF releaseLock, MutexType
  <1> QED BY <1>2, <1>3

\* And so does an unlock, by a commit, a rollback or a release (unlock).
LEMMA UnlockType ==
    ASSUME MutexType, openTx \in SUBSET Flows,
           NEW f \in Flows, NEW s \in Steps, unlock(f, s)
    PROVE  MutexType' /\ openTx' \in SUBSET Flows
  <1>1. openTx' \in SUBSET Flows
    BY DEF unlock
  <1>2. CASE tx[f].holding
    BY <1>1, <1>2, ReleaseLockType DEF unlock
  <1>3. CASE ~ tx[f].holding
    BY <1>1, <1>3 DEF unlock, MutexType
  <1> QED BY <1>2, <1>3

-----------------------------------------------------------------------------
(* Lemmas: what the engine's statements preserve. *)

\* Changing the writes of one frame leaves a stack of frames.
LEMMA FrameUpdate ==
    ASSUME NEW j \in Seq(Frames), NEW i \in DOMAIN j, NEW ws \in SUBSET WriteIds
    PROVE  [j EXCEPT ![i].writes = ws] \in Seq(Frames)
  <1>1. j[i] \in Frames
    OBVIOUS
  <1>2. [j[i] EXCEPT !.writes = ws] \in Frames
    BY <1>1 DEF Frames
  <1> DEFINE fr == [j[i] EXCEPT !.writes = ws]
  <1>3. [j EXCEPT ![i] = fr] \in Seq(Frames)
    <2> HIDE DEF fr
    <2>1. fr \in Frames
      BY <1>2 DEF fr
    <2> QED BY <2>1
  <1> QED BY <1>3

\* The writes of a frame are writes of flows.
LEMMA FrameWrites ==
    ASSUME NEW j \in Seq(Frames), NEW i \in DOMAIN j
    PROVE  j[i].writes \in SUBSET WriteIds
  <1>1. j[i] \in Frames
    OBVIOUS
  <1> QED BY <1>1 DEF Frames

\* So are the writes of a stack of frames.
LEMMA WritesType ==
    ASSUME NEW j \in Seq(Frames)
    PROVE  WritesIn(j) \in SUBSET WriteIds
  BY FrameWrites DEF WritesIn

\* A write goes to the innermost frame, or commits (ExecWrite).
LEMMA ExecWriteType ==
    ASSUME EngineType, NEW w \in WriteIds, ExecWrite(w)
    PROVE  EngineType'
  <1>1. CASE journal = <<>>
    BY <1>1 DEF ExecWrite, EngineType
  <1>2. CASE journal # <<>>
    <2>1. Len(journal) \in DOMAIN journal
      BY <1>2 DEF EngineType
    <2>2. journal[Len(journal)].writes \cup {w} \in SUBSET WriteIds
      BY <2>1, FrameWrites DEF EngineType
    <2>3. [journal EXCEPT ![Len(journal)].writes = @ \cup {w}] \in Seq(Frames)
      BY <2>1, <2>2, FrameUpdate DEF EngineType
    <2> QED BY <1>2, <2>3 DEF ExecWrite, EngineType
  <1> QED BY <1>1, <1>2

\* The frame that a savepoint's name finds is on the stack, and what is below
\* it is a stack.
LEMMA BelowType ==
    ASSUME EngineType, NEW f \in Flows, HasFrame(f)
    PROVE  /\ Level(f) \in DOMAIN journal
           /\ Below(f) \in Seq(Frames)
           /\ Len(Below(f)) = Level(f) - 1
  <1>1. Level(f) \in DOMAIN journal
    BY DEF HasFrame, Level
  <1>2. Level(f) - 1 \in 0 .. Len(journal)
    BY <1>1 DEF EngineType
  <1> QED BY <1>1, <1>2 DEF Below, EngineType

\* Ending a transaction keeps the stack and commits only writes of flows.
LEMMA ExecCommitType ==
    ASSUME EngineType, NEW f \in Flows, CanEnd(f), ExecCommit(f)
    PROVE  EngineType'
  <1>1. CASE tx[f].savepoint /\ Below(f) # <<>>
    <2>1. HasFrame(f)
      BY <1>1 DEF CanEnd
    <2>2. Level(f) - 1 \in DOMAIN Below(f) /\ Level(f) - 1 \in 1 .. Len(journal)
      BY <1>1, <2>1, BelowType DEF EngineType
    <2> DEFINE ws == UNION {journal[i].writes : i \in Level(f) - 1 .. Len(journal)}
    <2>3. ws \in SUBSET WriteIds
      <3>1. \A i \in Level(f) - 1 .. Len(journal) : journal[i].writes \in SUBSET WriteIds
        BY <2>2, FrameWrites DEF EngineType
      <3> QED BY <3>1
    <2>4. Released(f) \in Seq(Frames)
      <3> HIDE DEF ws
      <3>1. [Below(f) EXCEPT ![Level(f) - 1].writes = ws] \in Seq(Frames)
        BY <2>1, <2>2, <2>3, BelowType, FrameUpdate
      <3> QED BY <3>1 DEF Released, ws
    <2> QED BY <1>1, <2>4 DEF ExecCommit, EngineType
  <1>2. CASE ~ (tx[f].savepoint /\ Below(f) # <<>>)
    <2>1. journal' = <<>> /\ durable' = durable \cup WritesIn(journal)
      BY <1>2, Zenon DEF ExecCommit
    <2>2. WritesIn(journal) \in SUBSET WriteIds
      BY WritesType DEF EngineType
    <2> QED BY <2>1, <2>2 DEF EngineType
  <1> QED BY <1>1, <1>2

\* Rolling back drops frames and commits nothing (ExecRollback).
LEMMA ExecRollbackType ==
    ASSUME EngineType, NEW f \in Flows, CanEnd(f), ExecRollback(f)
    PROVE  EngineType'
  <1>1. CASE tx[f].savepoint
    BY <1>1, BelowType DEF ExecRollback, CanEnd, EngineType
  <1>2. CASE ~ tx[f].savepoint
    BY <1>2 DEF ExecRollback, EngineType
  <1> QED BY <1>1, <1>2

-----------------------------------------------------------------------------
(* Lemmas: the transaction records, and the steps the actions share. *)

TxRecord == [done : BOOLEAN, holding : BOOLEAN, savepoint : BOOLEAN,
             settled : BOOLEAN, handle : Nat]

\* A new transaction record is well typed.
LEMMA NewTxType == NewTx \in TxRecord
  BY DEF NewTx, TxRecord

\* tx.commit() keeps the mutex, the transactions and the engine typed.
LEMMA TxCommitType ==
    ASSUME TypeOK, NEW f \in Flows, NEW s \in Steps, txCommit(f, s), conn' = conn
    PROVE  MutexType' /\ TxType' /\ EngineType'
  <1>1. MutexType' /\ openTx' \in SUBSET Flows
    BY UnlockType DEF txCommit, TypeOK, TxType
  <1>2. tx' \in [Flows -> TxRecord]
    BY DEF txCommit, TypeOK, TxType, TxRecord
  <1>3. EngineType'
    <2>1. CASE tx[f].done
      BY <2>1 DEF txCommit, TypeOK, EngineType, engineVars
    <2>2. CASE ~ tx[f].done
      BY <2>2, ExecCommitType DEF txCommit, TypeOK
    <2> QED BY <2>1, <2>2
  <1> QED BY <1>1, <1>2, <1>3 DEF TypeOK, TxType, TxRecord

\* So does tx.rollback().
LEMMA TxRollbackType ==
    ASSUME TypeOK, NEW f \in Flows, NEW s \in Steps, txRollback(f, s), conn' = conn
    PROVE  MutexType' /\ TxType' /\ EngineType'
  <1>1. MutexType' /\ openTx' \in SUBSET Flows
    BY UnlockType DEF txRollback, TypeOK, TxType
  <1>2. tx' \in [Flows -> TxRecord]
    BY DEF txRollback, TypeOK, TxType, TxRecord
  <1>3. EngineType'
    <2>1. CASE tx[f].done
      BY <2>1 DEF txRollback, TypeOK, EngineType, engineVars
    <2>2. CASE ~ tx[f].done
      BY <2>2, ExecRollbackType DEF txRollback, TypeOK
    <2> QED BY <2>1, <2>2
  <1> QED BY <1>1, <1>2, <1>3 DEF TypeOK, TxType, TxRecord

\* So does tx.release().
LEMMA TxReleaseType ==
    ASSUME TypeOK, NEW f \in Flows, NEW s \in Steps, txRelease(f, s), conn' = conn
    PROVE  MutexType' /\ TxType' /\ EngineType'
  <1>1. MutexType' /\ openTx' \in SUBSET Flows
    BY UnlockType DEF txRelease, TypeOK, TxType
  <1>2. tx' \in [Flows -> TxRecord]
    BY DEF txRelease, TypeOK, TxType, TxRecord
  <1> QED BY <1>1, <1>2 DEF txRelease, engineVars, EngineType, TypeOK, TxType, TxRecord

\* So does the dispose of a handle, which is one of the two.
LEMMA DisposeType ==
    ASSUME TypeOK, NEW f \in Flows, NEW s \in Steps, dispose(f, s), conn' = conn
    PROVE  MutexType' /\ TxType' /\ EngineType'
  BY TxRollbackType, TxReleaseType DEF dispose

\* A call that enters keeps the call records typed.
LEMMA EnterType ==
    ASSUME TypeOK, NEW f \in Flows, NEW r \in Roles, NEW p \in Flows \cup {NoFlow},
           Enter(f, r, p)
    PROVE  call' \in [Flows -> [role : Roles \cup {"none"}, scope : Flows \cup {NoFlow},
                                top : Flows, around : SUBSET Flows]]
  <1>1. isReentrant(p) => p \in Flows
    BY DEF isReentrant, TypeOK, TxType
  <1> DEFINE t == IF isReentrant(p) THEN call[p].top ELSE f
             a == IF isReentrant(p) THEN call[p].around \cup {p} ELSE {}
  <1>2. t \in Flows /\ a \in SUBSET Flows
    BY <1>1 DEF TypeOK, CallType
  <1>3. call' = [call EXCEPT ![f] = [role |-> r, scope |-> p, top |-> t, around |-> a]]
    BY DEF Enter
  <1> HIDE DEF t, a
  <1> QED BY <1>2, <1>3 DEF TypeOK, CallType

\* A model write keeps the journal, the counters and the queues typed.
LEMMA ModelWriteType ==
    ASSUME TypeOK, NEW f \in Flows, ModelWrite(f), delivered' = delivered
    PROVE  EngineType' /\ WriteType'
  <1> DEFINE w == <<f, written[f] + 1>>
  <1>1. w \in WriteIds /\ written[f] + 1 \in 0 .. MaxWrites
    BY BoundsAssumption DEF ModelWrite, WriteIds, TypeOK, WriteType
  <1>2. ExecWrite(w) /\ deferred' = [deferred EXCEPT ![f] = Append(@, w)]
    BY DEF ModelWrite
  <1>3. EngineType'
    BY <1>1, <1>2, ExecWriteType DEF TypeOK
  <1>4. written' \in [Flows -> 0 .. MaxWrites]
    BY <1>1 DEF ModelWrite, TypeOK, WriteType
  <1>5. deferred' \in [Flows -> Seq(WriteIds)]
    <2> HIDE DEF w
    <2> QED BY <1>1, <1>2 DEF TypeOK, WriteType
  <1> QED BY <1>3, <1>4, <1>5 DEF TypeOK, WriteType

-----------------------------------------------------------------------------
(* Type correctness. *)

\* The initial state is well typed.
LEMMA InitType == Init => TypeOK
  <1> SUFFICES ASSUME Init PROVE TypeOK
    OBVIOUS
  <1>1. CallType
    BY BoundsAssumption DEF Init, CallType
  <1>2. MutexType
    <2>1. "idle" \in Steps
      BY StepNames
    <2>2. pc \in [Flows -> Steps]
      <3>1. pc = [f \in Flows |-> "idle"]
        BY DEF Init
      <3> QED BY <2>1, <3>1
    <2>3. locked = FALSE /\ waiters = <<>>
      BY DEF Init
    <2>4. locked \in BOOLEAN
      BY <2>3
    <2>5. waiters \in Seq(Flows)
      BY <2>3
    <2> QED BY <2>2, <2>4, <2>5 DEF MutexType
  <1>3. TxType
    BY NewTxType DEF Init, TxType, TxRecord
  <1>4. EngineType /\ WriteType
    BY BoundsAssumption DEF Init, EngineType, WriteType
  <1> QED BY <1>1, <1>2, <1>3, <1>4 DEF TypeOK

\* A call that starts: it enters, and it opens a savepoint, asks for the lock
\* or joins the open transaction.
LEMMA StartsType ==
    ASSUME TypeOK, NEW f \in Flows, Starts(f)
    PROVE  TypeOK'
  <1>1. PICK p \in Flows \cup {NoFlow} :
            \/ \E r \in Roles : BeginNested(f, r, p) \/ JoinFails(f, r, p) \/ AskForLock(f, r, p)
            \/ PlainJoins(f, p)
    BY DEF Starts
  <1>2. ASSUME NEW r \in Roles, BeginNested(f, r, p) PROVE TypeOK'
    <2>1. CallType'
      BY <1>2, EnterType DEF BeginNested, TypeOK, CallType
    <2>2. MutexType'
      BY <1>2, StepNames DEF BeginNested, TypeOK, MutexType
    <2>3. TxType'
      <3>1. [NewTx EXCEPT !.savepoint = TRUE, !.handle = conn] \in TxRecord
        BY DEF NewTx, TxRecord, TypeOK, TxType
      <3>2. tx' \in [Flows -> TxRecord] /\ openTx' \in SUBSET Flows /\ conn' = conn
        BY <1>2, <3>1 DEF BeginNested, TypeOK, TxType, TxRecord
      <3> QED BY <3>2 DEF TypeOK, TxType, TxRecord
    <2>4. EngineType'
      <3>1. Frame(f) \in Frames
        BY DEF Frame, Frames
      <3> QED BY <1>2, <3>1 DEF BeginNested, TypeOK, EngineType
    <2>5. WriteType'
      BY <1>2 DEF BeginNested, hookVars, TypeOK, WriteType
    <2> QED BY <2>1, <2>2, <2>3, <2>4, <2>5 DEF TypeOK
  <1>3. ASSUME NEW r \in Roles, AskForLock(f, r, p) PROVE TypeOK'
    <2>1. CallType'
      BY <1>3, EnterType DEF AskForLock, TypeOK, CallType
    <2>2. MutexType'
      BY <1>3, AcquireType DEF AskForLock, TypeOK
    <2>3. TxType'
      BY <1>3 DEF AskForLock, TypeOK, TxType
    <2>4. EngineType' /\ WriteType'
      BY <1>3 DEF AskForLock, engineVars, hookVars, TypeOK, EngineType, WriteType
    <2> QED BY <2>1, <2>2, <2>3, <2>4 DEF TypeOK
  <1>4. ASSUME PlainJoins(f, p) PROVE TypeOK'
    <2>1. CallType'
      <3>1. "plain" \in Roles
        BY <1>4 DEF PlainJoins, Enter
      <3> QED BY <1>4, <3>1, EnterType DEF PlainJoins, TypeOK, CallType
    <2>2. MutexType' /\ TxType'
      BY <1>4, StepNames DEF PlainJoins, lockVars, TypeOK, MutexType, TxType
    <2>3. EngineType' /\ WriteType'
      BY <1>4, ModelWriteType DEF PlainJoins
    <2> QED BY <2>1, <2>2, <2>3 DEF TypeOK
  <1>5. ASSUME NEW r \in Roles, JoinFails(f, r, p) PROVE TypeOK'
    <2>1. CallType'
      BY <1>5, EnterType DEF JoinFails, TypeOK, CallType
    <2>2. MutexType' /\ TxType'
      BY <1>5, StepNames DEF JoinFails, lockVars, TypeOK, MutexType, TxType
    <2>3. EngineType' /\ WriteType'
      BY <1>5 DEF JoinFails, engineVars, hookVars, TypeOK, EngineType, WriteType
    <2> QED BY <2>1, <2>2, <2>3 DEF TypeOK
  <1> QED BY <1>1, <1>2, <1>3, <1>4, <1>5

\* The steps that move a flow and touch nothing else.
LEMMA MoveType ==
    ASSUME TypeOK, NEW f \in Flows, NEW s \in Steps,
           pc' = [pc EXCEPT ![f] = s],
           UNCHANGED <<call, lockVars, tx, conn, engineVars, written, hookVars, calls>>
    PROVE  TypeOK'
  <1>1. MutexType'
    BY DEF TypeOK, MutexType, lockVars
  <1>2. CallType' /\ TxType' /\ EngineType' /\ WriteType'
    BY DEF TypeOK, CallType, TxType, EngineType, WriteType, lockVars, engineVars, hookVars
  <1> QED BY <1>1, <1>2 DEF TypeOK

\* The steps that settle or dispose a transaction leave the rest alone.
LEMMA SettleType ==
    ASSUME TypeOK, MutexType', TxType', EngineType',
           UNCHANGED <<call, written, hookVars>>, calls' \in [Flows -> 0 .. MaxCalls]
    PROVE  TypeOK'
  BY DEF TypeOK, CallType, WriteType, hookVars

\* What the event loop resumes keeps every variable typed: one step per action.
LEMMA ContinuesType ==
    ASSUME TypeOK, NEW f \in Flows, Continues(f)
    PROVE  TypeOK'
  <1> USE StepNames
  <1>0. calls' = calls => calls' \in [Flows -> 0 .. MaxCalls]
    BY DEF TypeOK, CallType
  <1>1. CASE BeginTop(f)
    <2>1. MutexType'
      BY <1>1 DEF BeginTop, TypeOK, MutexType
    <2>2. TxType'
      BY <1>1 DEF BeginTop, TypeOK, TxType
    <2>3. EngineType'
      <3>1. Frame(f) \in Frames
        BY DEF Frame, Frames
      <3> QED BY <1>1, <3>1 DEF BeginTop, TypeOK, EngineType
    <2> QED BY <1>1, <2>1, <2>2, <2>3 DEF BeginTop, hookVars, TypeOK, CallType, WriteType
  <1>2. CASE BeginFails(f)
    BY <1>2, MoveType DEF BeginFails
  <1>3. CASE PlainWorks(f)
    <2>1. MutexType'
      BY <1>3, ReleaseLockType DEF PlainWorks, TypeOK
    <2>2. EngineType' /\ WriteType'
      BY <1>3, ModelWriteType DEF PlainWorks
    <2> QED BY <1>3, <2>1, <2>2 DEF PlainWorks, TypeOK, CallType, TxType
  <1>4. CASE BodyWrites(f)
    <2>1. EngineType' /\ WriteType'
      BY <1>4, ModelWriteType DEF BodyWrites
    <2> QED BY <1>4, <2>1 DEF BodyWrites, lockVars, TypeOK, CallType, MutexType, TxType
  <1>5. CASE Commit(f)
    BY <1>0, <1>5, TxCommitType, SettleType DEF Commit
  <1>6. CASE CommitFails(f)
    BY <1>6, MoveType DEF CommitFails
  <1>7. CASE BodyThrows(f)
    BY <1>7, MoveType DEF BodyThrows
  <1>8. CASE Rollback(f)
    <2>1. CASE txRollback(f, "rejected")
      BY <1>0, <1>8, <2>1, TxRollbackType, SettleType DEF Rollback
    <2>2. CASE ~ txRollback(f, "rejected")
      BY <1>8, <2>2, MoveType DEF Rollback
    <2> QED BY <2>1, <2>2
  <1>9. CASE Dispose(f)
    BY <1>0, <1>9, DisposeType, SettleType DEF Dispose
  <1>10. CASE Deliver(f)
    <2>1. Head(deferred[f]) \in WriteIds /\ Tail(deferred[f]) \in Seq(WriteIds)
      BY <1>10 DEF Deliver, TypeOK, WriteType
    <2>2. WriteType'
      BY <1>10, <2>1 DEF Deliver, TypeOK, WriteType
    <2> QED BY <1>10, <2>2
        DEF Deliver, TypeOK, CallType, MutexType, TxType, EngineType, lockVars, engineVars
  <1>11. CASE Drained(f)
    <2>1. PICK s \in Steps : pc' = [pc EXCEPT ![f] = s]
      BY <1>11 DEF Drained
    <2> QED BY <1>11, <2>1, MoveType DEF Drained
  <1>12. ManualCall(f) => calls' \in [Flows -> 0 .. MaxCalls]
    BY BoundsAssumption DEF ManualCall, TypeOK, CallType
  <1>13. ASSUME ManualCall(f), UNCHANGED <<pc, lockVars, tx, engineVars, call, conn, written, hookVars>>
         PROVE  TypeOK'
    BY <1>12, <1>13
      DEF TypeOK, CallType, MutexType, TxType, EngineType, WriteType, lockVars, engineVars, hookVars
  <1>17. CASE PlainFails(f)
    <2>1. MutexType'
      BY <1>17, ReleaseLockType DEF PlainFails, TypeOK
    <2> QED BY <1>17, <2>1
        DEF PlainFails, engineVars, hookVars, TypeOK, CallType, TxType, EngineType, WriteType
  <1>14. CASE HandleCommit(f)
    <2>1. CASE txCommit(f, "draining")
      BY <1>12, <1>14, <2>1, TxCommitType, SettleType DEF HandleCommit
    <2>2. CASE ~ txCommit(f, "draining")
      BY <1>13, <1>14, <2>2 DEF HandleCommit
    <2> QED BY <2>1, <2>2
  <1>15. CASE HandleRollback(f)
    <2>1. CASE txRollback(f, "open")
      BY <1>12, <1>15, <2>1, TxRollbackType, SettleType DEF HandleRollback
    <2>2. CASE ~ txRollback(f, "open")
      BY <1>13, <1>15, <2>2 DEF HandleRollback
    <2> QED BY <2>1, <2>2
  <1>16. CASE HandleDispose(f)
    BY <1>0, <1>16, DisposeType, SettleType DEF HandleDispose
  <1> QED
    BY <1>1, <1>2, <1>3, <1>4, <1>5, <1>6, <1>7, <1>8, <1>9, <1>10, <1>11, <1>14, <1>15, <1>16, <1>17
      DEF Continues

\* So does every step.
LEMMA NextType == TypeOK /\ [Next]_vars => TypeOK'
  <1> SUFFICES ASSUME TypeOK, [Next]_vars PROVE TypeOK'
    OBVIOUS
  <1>1. ASSUME NEW f \in Flows, Starts(f) \/ Continues(f) PROVE TypeOK'
    BY <1>1, StartsType, ContinuesType
  <1>2. CASE Close
    BY <1>2 DEF Close, TypeOK, CallType, MutexType, TxType, EngineType, WriteType, lockVars, hookVars
  <1>3. CASE UNCHANGED vars
    BY <1>3 DEF vars, TypeOK, CallType, MutexType, TxType, EngineType, WriteType,
                lockVars, engineVars, hookVars
  <1> QED BY <1>1, <1>2, <1>3 DEF Next, Quiescent

\* Every variable keeps its type, whatever the flows do.
THEOREM TypeCorrect == Spec => []TypeOK
  BY InitType, NextType, PTL DEF Spec

-----------------------------------------------------------------------------
(* The mutex.  MutualExclusion is not inductive by itself: it also takes    *)
(* that only queued flows wait, each once, so that a flow is handed the     *)
(* lock once and while nobody else has it, and that a transaction which     *)
(* holds the lock is past the point where its flow could be queued.         *)

HoldersAreOpen == \A f \in Flows : tx[f].holding => pc[f] \in {"open", "catching", "disposing"}

LockInv == MutualExclusion /\ NoLostWakeup /\ HoldersAreOpen

\* A flow asks for the lock.
LEMMA AcquireLock ==
    ASSUME TypeOK, LockInv, NEW f \in Flows, pc[f] = "idle", acquire(f),
           \A g \in Flows : tx'[g].holding = tx[g].holding
    PROVE  LockInv'
  <1> USE DEF TypeOK, MutexType
  <1>1. ~ Holds(f) /\ ~ tx[f].holding
    BY DEF LockInv, HoldersAreOpen, Holds
  <1>2. CASE ~ locked
    <2>1. waiters = <<>> /\ waiters' = <<>> /\ locked' /\ pc' = [pc EXCEPT ![f] = "granted"]
      BY <1>2 DEF acquire, LockInv, NoLostWakeup
    <2>2. \A g \in Flows : Holds(g)' <=> g = f
      BY <1>1, <1>2, <2>1 DEF Holds, LockInv, MutualExclusion
    <2>3. \A g \in Flows : pc'[g] # "waiting"
      BY <2>1 DEF LockInv, NoLostWakeup
    <2>4. HoldersAreOpen'
      BY <1>1, <2>1 DEF LockInv, HoldersAreOpen
    <2>5. MutualExclusion' /\ NoLostWakeup'
      BY <2>1, <2>2, <2>3 DEF MutualExclusion, NoLostWakeup
    <2> QED BY <2>4, <2>5 DEF LockInv
  <1>3. CASE locked
    <2>1. waiters' = Append(waiters, f) /\ locked' /\ pc' = [pc EXCEPT ![f] = "waiting"]
      BY <1>3 DEF acquire
    <2>2. \A g \in Flows : Holds(g)' <=> Holds(g)
      BY <1>1, <2>1 DEF Holds
    <2>3. MutualExclusion'
      BY <2>1, <2>2 DEF LockInv, MutualExclusion
    <2>4. NoLostWakeup'
      <3>1. \A i \in DOMAIN waiters : waiters[i] # f
        BY DEF LockInv, NoLostWakeup
      <3>2. /\ DOMAIN waiters' = DOMAIN waiters \cup {Len(waiters) + 1}
            /\ waiters'[Len(waiters) + 1] = f
            /\ \A i \in DOMAIN waiters : waiters'[i] = waiters[i]
        BY <2>1
      <3>3. \A g \in Flows : pc'[g] = "waiting" <=> \E i \in DOMAIN waiters' : waiters'[i] = g
        BY <2>1, <3>2 DEF LockInv, NoLostWakeup
      <3>4. \A i, j \in DOMAIN waiters' : waiters'[i] = waiters'[j] => i = j
        BY <3>1, <3>2 DEF LockInv, NoLostWakeup
      <3> QED BY <2>1, <3>3, <3>4 DEF NoLostWakeup
    <2>5. HoldersAreOpen'
      BY <1>1, <2>1 DEF LockInv, HoldersAreOpen
    <2> QED BY <2>3, <2>4, <2>5 DEF LockInv
  <1> QED BY <1>2, <1>3

\* The holder gives the lock back, and goes on to s.
LEMMA ReleaseLock ==
    ASSUME TypeOK, LockInv, NEW f \in Flows, Holds(f),
           NEW s \in Steps \ {"waiting", "granted"}, releaseLock(f, s),
           ~ tx'[f].holding, \A g \in Flows \ {f} : tx'[g].holding = tx[g].holding
    PROVE  LockInv'
  <1> USE DEF TypeOK, MutexType
  <1>1. /\ \A g \in Flows \ {f} : ~ Holds(g)
        /\ pc[f] # "waiting"
    BY DEF LockInv, MutualExclusion, HoldersAreOpen, Holds
  <1>2. \A g \in Flows : ~ tx'[g].holding
    BY <1>1 DEF Holds
  <1>3. HoldersAreOpen'
    BY <1>2 DEF HoldersAreOpen
  <1>4. CASE waiters = <<>>
    <2>1. waiters' = <<>> /\ pc' = [pc EXCEPT ![f] = s]
      BY <1>4 DEF releaseLock
    <2>2. \A g \in Flows : ~ Holds(g)'
      BY <1>1, <1>2, <2>1 DEF Holds
    <2>3. \A g \in Flows : pc'[g] # "waiting"
      BY <1>4, <2>1 DEF LockInv, NoLostWakeup
    <2>4. MutualExclusion' /\ NoLostWakeup'
      BY <2>1, <2>2, <2>3 DEF MutualExclusion, NoLostWakeup
    <2> QED BY <1>3, <2>4 DEF LockInv
  <1>5. CASE waiters # <<>>
    <2> DEFINE h == Head(waiters)
    <2>1. /\ waiters' = Tail(waiters) /\ locked'
          /\ pc' = [pc EXCEPT ![f] = s, ![h] = "granted"]
      BY <1>5 DEF releaseLock
    <2>2. h \in Flows /\ h = waiters[1] /\ 1 \in DOMAIN waiters
      BY <1>5
    <2>3. h # f
      BY <1>1, <2>2 DEF LockInv, NoLostWakeup
    <2>4. /\ DOMAIN waiters' = 1 .. Len(waiters) - 1
          /\ \A i \in DOMAIN waiters' : waiters'[i] = waiters[i + 1] /\ i + 1 \in DOMAIN waiters
      BY <1>5, <2>1
    <2> HIDE DEF h
    <2>5. \A g \in Flows : Holds(g)' <=> g = h
      BY <1>1, <1>2, <2>1, <2>2, <2>3 DEF Holds
    <2>6. MutualExclusion'
      BY <2>1, <2>5 DEF MutualExclusion
    <2>7. \A g \in Flows : pc'[g] = "waiting" <=> g # h /\ pc[g] = "waiting"
      BY <1>1, <2>1, <2>2, <2>3
    <2>8. ASSUME NEW g \in Flows
          PROVE  pc'[g] = "waiting" <=> \E i \in DOMAIN waiters' : waiters'[i] = g
      <3>1. ASSUME pc'[g] = "waiting"
            PROVE  \E i \in DOMAIN waiters' : waiters'[i] = g
        <4>1. PICK i \in DOMAIN waiters : waiters[i] = g
          BY <2>7, <3>1 DEF LockInv, NoLostWakeup
        <4>2. i # 1
          BY <2>2, <2>7, <3>1, <4>1
        <4>3. i - 1 \in DOMAIN waiters' /\ waiters'[i - 1] = g
          BY <2>4, <4>1, <4>2
        <4> QED BY <4>3
      <3>2. ASSUME NEW i \in DOMAIN waiters', waiters'[i] = g
            PROVE  pc'[g] = "waiting"
        <4>1. i + 1 \in DOMAIN waiters /\ waiters[i + 1] = g /\ i + 1 # 1
          BY <2>4, <3>2
        <4>2. g # h
          BY <2>2, <4>1 DEF LockInv, NoLostWakeup
        <4> QED BY <2>7, <4>1, <4>2 DEF LockInv, NoLostWakeup
      <3> QED BY <3>1, <3>2
    <2>9. ASSUME NEW i \in DOMAIN waiters', NEW j \in DOMAIN waiters', waiters'[i] = waiters'[j]
          PROVE  i = j
      <3>1. i + 1 = j + 1
        BY <2>4, <2>9 DEF LockInv, NoLostWakeup
      <3> QED BY <2>4, <3>1
    <2>10. NoLostWakeup'
      BY <2>1, <2>8, <2>9 DEF NoLostWakeup
    <2> QED BY <1>3, <2>6, <2>10 DEF LockInv
  <1> QED BY <1>4, <1>5

\* The steps that leave the mutex alone: a flow that does not wait moves to a
\* step where it does not wait either, and nobody becomes a holder.
LEMMA LockUntouched ==
    ASSUME TypeOK, LockInv, UNCHANGED <<locked, waiters>>, NEW f \in Flows,
           NEW s \in Steps \ {"waiting", "granted"}, pc[f] # "waiting",
           pc' = [pc EXCEPT ![f] = s],
           tx'[f].holding => Holds(f) /\ s \in {"open", "catching", "disposing"},
           \A g \in Flows \ {f} : tx'[g].holding = tx[g].holding
    PROVE  LockInv'
  <1> USE DEF TypeOK, MutexType
  <1>1. \A g \in Flows : Holds(g)' => Holds(g)
    BY DEF Holds
  <1>2. MutualExclusion'
    BY <1>1 DEF LockInv, MutualExclusion
  <1>3. \A g \in Flows : pc'[g] = "waiting" <=> pc[g] = "waiting"
    OBVIOUS
  <1>4. NoLostWakeup'
    BY <1>3 DEF LockInv, NoLostWakeup
  <1>5. HoldersAreOpen'
    BY DEF LockInv, HoldersAreOpen
  <1> QED BY <1>2, <1>4, <1>5 DEF LockInv

\* A step that changes neither the mutex nor a transaction keeps the invariant.
LEMMA SameLock ==
    ASSUME LockInv, UNCHANGED <<pc, lockVars, tx>>
    PROVE  LockInv'
  BY DEF LockInv, MutualExclusion, NoLostWakeup, HoldersAreOpen, Holds, lockVars

\* unlock, by a commit, a rollback or a release of an open transaction.
LEMMA UnlockLock ==
    ASSUME TypeOK, LockInv, NEW f \in Flows, NEW s \in Steps \ {"waiting", "granted"},
           pc[f] \notin {"waiting", "granted"}, unlock(f, s),
           ~ tx'[f].holding, \A g \in Flows \ {f} : tx'[g].holding = tx[g].holding
    PROVE  LockInv'
  <1>1. CASE tx[f].holding
    BY <1>1, ReleaseLock DEF unlock, Holds
  <1>2. CASE ~ tx[f].holding
    BY <1>2, LockUntouched DEF unlock
  <1> QED BY <1>1, <1>2

\* tx.commit(), tx.rollback() and tx.release() keep the lock invariant.
LEMMA SettleLock ==
    ASSUME TypeOK, LockInv, NEW f \in Flows, NEW s \in Steps \ {"waiting", "granted"},
           pc[f] \notin {"waiting", "granted"},
           txCommit(f, s) \/ txRollback(f, s) \/ txRelease(f, s)
    PROVE  LockInv'
  <1>1. unlock(f, s)
    BY DEF txCommit, txRollback, txRelease
  <1>2. ~ tx'[f].holding /\ \A g \in Flows \ {f} : tx'[g].holding = tx[g].holding
    BY DEF txCommit, txRollback, txRelease, TypeOK, TxType
  <1> QED BY <1>1, <1>2, UnlockLock

\* So does the dispose of a handle.
LEMMA DisposeLock ==
    ASSUME TypeOK, LockInv, NEW f \in Flows, NEW s \in Steps \ {"waiting", "granted"},
           pc[f] \notin {"waiting", "granted"}, dispose(f, s)
    PROVE  LockInv'
  BY SettleLock DEF dispose

\* Nobody has the lock or waits for it at the start.
LEMMA InitLock == Init => LockInv
  <1> SUFFICES ASSUME Init PROVE LockInv
    OBVIOUS
  <1>1. \A f \in Flows : pc[f] = "idle" /\ ~ tx[f].holding
    BY DEF Init, NewTx
  <1>2. waiters = <<>>
    BY DEF Init
  <1>3. \A f \in Flows : ~ Holds(f)
    BY <1>1 DEF Holds
  <1> QED BY <1>1, <1>2, <1>3 DEF LockInv, MutualExclusion, NoLostWakeup, HoldersAreOpen

\* A call that starts keeps the lock invariant.
LEMMA StartsLock ==
    ASSUME TypeOK, LockInv, NEW f \in Flows, Starts(f)
    PROVE  LockInv'
  <1> USE StepNames
  <1>1. PICK p \in Flows \cup {NoFlow} :
            \/ \E r \in Roles : BeginNested(f, r, p) \/ JoinFails(f, r, p) \/ AskForLock(f, r, p)
            \/ PlainJoins(f, p)
    BY DEF Starts
  <1>2. pc[f] = "idle"
    BY <1>1 DEF BeginNested, JoinFails, AskForLock, PlainJoins, Enter
  <1>3. ASSUME NEW r \in Roles, BeginNested(f, r, p) PROVE LockInv'
    <2>1. ~ tx'[f].holding /\ \A g \in Flows \ {f} : tx'[g].holding = tx[g].holding
      BY <1>3 DEF BeginNested, NewTx, TypeOK, TxType
    <2> QED BY <1>2, <1>3, <2>1, LockUntouched DEF BeginNested
  <1>4. ASSUME NEW r \in Roles, AskForLock(f, r, p) PROVE LockInv'
    <2>1. \A g \in Flows : tx'[g].holding = tx[g].holding
      BY <1>4 DEF AskForLock, TypeOK, TxType
    <2> QED BY <1>2, <1>4, <2>1, AcquireLock DEF AskForLock
  <1>5. ~ tx[f].holding
    BY <1>2 DEF LockInv, HoldersAreOpen
  <1>6. ASSUME PlainJoins(f, p) PROVE LockInv'
    BY <1>2, <1>5, <1>6, LockUntouched DEF PlainJoins, lockVars
  <1>7. ASSUME NEW r \in Roles, JoinFails(f, r, p) PROVE LockInv'
    BY <1>2, <1>5, <1>7, LockUntouched DEF JoinFails, lockVars
  <1> QED BY <1>1, <1>3, <1>4, <1>6, <1>7

\* So does what the event loop resumes: one step per action.
LEMMA ContinuesLock ==
    ASSUME TypeOK, LockInv, NEW f \in Flows, Continues(f)
    PROVE  LockInv'
  <1> USE StepNames
  <1>1. tx[f].holding => Holds(f)
    BY DEF Holds
  <1>2. CASE BeginTop(f)
    <2>1. Holds(f) /\ tx'[f].holding /\ \A g \in Flows \ {f} : tx'[g].holding = tx[g].holding
      BY <1>2 DEF BeginTop, Holds, TypeOK, TxType
    <2> QED BY <1>2, <2>1, LockUntouched DEF BeginTop
  <1>3. CASE BeginFails(f)
    <2>1. ~ tx[f].holding
      BY <1>3 DEF BeginFails, LockInv, HoldersAreOpen
    <2> QED BY <1>3, <2>1, LockUntouched DEF BeginFails, lockVars
  <1>4. CASE PlainWorks(f) \/ PlainFails(f)
    <2>1. Holds(f) /\ ~ tx[f].holding
      BY <1>4 DEF PlainWorks, PlainFails, Holds, LockInv, HoldersAreOpen
    <2> QED BY <1>4, <2>1, ReleaseLock DEF PlainWorks, PlainFails
  <1>5. CASE BodyWrites(f)
    BY <1>5, SameLock DEF BodyWrites
  <1>6. CASE Commit(f)
    BY <1>6, SettleLock DEF Commit, Returns
  <1>7. CASE CommitFails(f)
    BY <1>1, <1>7, LockUntouched DEF CommitFails, Returns, lockVars
  <1>8. CASE BodyThrows(f)
    BY <1>1, <1>8, LockUntouched DEF BodyThrows, Returns, lockVars
  <1>9. CASE Rollback(f)
    <2>1. CASE txRollback(f, "rejected")
      BY <1>9, <2>1, SettleLock DEF Rollback
    <2>2. CASE ~ txRollback(f, "rejected")
      BY <1>1, <1>9, <2>2, LockUntouched DEF Rollback, lockVars
    <2> QED BY <2>1, <2>2
  <1>10. CASE Dispose(f)
    BY <1>10, DisposeLock DEF Dispose
  <1>11. CASE Deliver(f)
    <2>1. pc' = [pc EXCEPT ![f] = "draining"] /\ ~ tx[f].holding
      BY <1>11 DEF Deliver, TypeOK, MutexType, LockInv, HoldersAreOpen
    <2> QED BY <1>11, <2>1, LockUntouched DEF Deliver, lockVars
  <1>12. CASE Drained(f)
    <2>1. PICK s \in {"open", "resolved"} : pc' = [pc EXCEPT ![f] = s]
      BY <1>12 DEF Drained
    <2>2. ~ tx[f].holding
      BY <1>12 DEF Drained, LockInv, HoldersAreOpen
    <2> QED BY <1>12, <2>1, <2>2, LockUntouched DEF Drained, lockVars
  <1>13. CASE HandleCommit(f)
    <2>1. CASE txCommit(f, "draining")
      BY <1>13, <2>1, SettleLock DEF HandleCommit, ManualCall
    <2>2. CASE ~ txCommit(f, "draining")
      BY <1>13, <2>2, SameLock DEF HandleCommit
    <2> QED BY <2>1, <2>2
  <1>14. CASE HandleRollback(f)
    <2>1. CASE txRollback(f, "open")
      BY <1>14, <2>1, SettleLock DEF HandleRollback, ManualCall
    <2>2. CASE ~ txRollback(f, "open")
      BY <1>14, <2>2, SameLock DEF HandleRollback
    <2> QED BY <2>1, <2>2
  <1>15. CASE HandleDispose(f)
    BY <1>15, DisposeLock DEF HandleDispose
  <1> QED
    BY <1>2, <1>3, <1>4, <1>5, <1>6, <1>7, <1>8, <1>9, <1>10, <1>11, <1>12, <1>13, <1>14, <1>15
      DEF Continues

\* So does every step.
LEMMA NextLock == TypeOK /\ LockInv /\ [Next]_vars => LockInv'
  <1> SUFFICES ASSUME TypeOK, LockInv, [Next]_vars PROVE LockInv'
    OBVIOUS
  <1>1. ASSUME NEW f \in Flows, Starts(f) \/ Continues(f) PROVE LockInv'
    BY <1>1, StartsLock, ContinuesLock
  <1>2. CASE Close
    BY <1>2, SameLock DEF Close
  <1>3. CASE UNCHANGED vars
    BY <1>3, SameLock DEF vars
  <1> QED BY <1>1, <1>2, <1>3 DEF Next, Quiescent

\* The lock invariant holds of every state of the driver (acquire,
\* releaseLock and unlock, drivers/sqlite.ts).
THEOREM LockCorrect == Spec => []LockInv
  <1>1. Init => TypeOK /\ LockInv
    BY InitType, InitLock
  <1>2. TypeOK /\ LockInv /\ [Next]_vars => (TypeOK /\ LockInv)'
    BY NextType, NextLock
  <1> QED BY <1>1, <1>2, PTL DEF Spec

\* No two flows ever have the use of the database at once.
THEOREM MutexCorrect == Spec => []MutualExclusion
  <1>1. LockInv => MutualExclusion
    BY DEF LockInv
  <1> QED BY <1>1, LockCorrect, PTL

\* No waiter is ever forgotten or queued twice, or waits for a free lock.
THEOREM WakeupCorrect == Spec => []NoLostWakeup
  <1>1. LockInv => NoLostWakeup
    BY DEF LockInv
  <1> QED BY <1>1, LockCorrect, PTL

-----------------------------------------------------------------------------
(* The order in which the lock is granted. *)

\* Of the flows in the queue a step wakes the first one or none.
WakesHead == \A i \in DOMAIN waiters : pc'[waiters[i]] # "waiting" => i = 1

\* A flow in the queue waits.
LEMMA QueuedWait ==
    ASSUME TypeOK, LockInv
    PROVE  \A i \in DOMAIN waiters : waiters[i] \in Flows /\ pc[waiters[i]] = "waiting"
  BY DEF TypeOK, MutexType, LockInv, NoLostWakeup

\* A flow that does not wait can move alone: it wakes nobody.
LEMMA MoveWakes ==
    ASSUME TypeOK, LockInv, NEW f \in Flows, pc[f] # "waiting",
           \A g \in Flows \ {f} : pc'[g] = pc[g]
    PROVE  WakesHead
  BY QueuedWait DEF WakesHead

\* Giving the lock back wakes the head of the queue (releaseLock, and unlock
\* when the transaction has the lock).
LEMMA UnlockWakes ==
    ASSUME TypeOK, LockInv, NEW f \in Flows, pc[f] # "waiting",
           NEW s, releaseLock(f, s) \/ unlock(f, s)
    PROVE  WakesHead
  <1>1. CASE \A g \in Flows \ {f} : pc'[g] = pc[g]
    BY <1>1, MoveWakes
  <1>2. CASE waiters # <<>> /\ pc' = [pc EXCEPT ![f] = s, ![Head(waiters)] = "granted"]
    <2> SUFFICES ASSUME NEW i \in DOMAIN waiters, i # 1
                 PROVE  pc'[waiters[i]] = "waiting"
      BY DEF WakesHead
    <2>1. waiters[i] # Head(waiters)
      <3>1. waiters \in Seq(Flows) /\ 1 \in DOMAIN waiters /\ Head(waiters) = waiters[1]
        BY <1>2 DEF TypeOK, MutexType
      <3> QED BY <3>1 DEF LockInv, NoLostWakeup
    <2>2. waiters[i] \in Flows /\ pc[waiters[i]] = "waiting" /\ waiters[i] # f
      BY QueuedWait
    <2> QED BY <1>2, <2>1, <2>2 DEF TypeOK, MutexType
  <1> QED BY <1>1, <1>2 DEF releaseLock, unlock, TypeOK, MutexType

\* So does whatever settles or disposes a transaction.
LEMMA SettleWakes ==
    ASSUME TypeOK, LockInv, NEW f \in Flows, pc[f] # "waiting", NEW s,
           txCommit(f, s) \/ txRollback(f, s) \/ dispose(f, s)
    PROVE  WakesHead
  BY UnlockWakes DEF txCommit, txRollback, txRelease, dispose

\* A call that starts joins the queue, at its end, or gets a free lock.
LEMMA StartsWake ==
    ASSUME TypeOK, LockInv, NEW f \in Flows, Starts(f)
    PROVE  WakesHead
  <1>1. pc[f] # "waiting"
    BY DEF Starts, BeginNested, JoinFails, AskForLock, PlainJoins, Enter
  <1>2. \A g \in Flows \ {f} : pc'[g] = pc[g]
    BY DEF Starts, BeginNested, JoinFails, AskForLock, PlainJoins, acquire, TypeOK, MutexType
  <1> QED BY <1>1, <1>2, MoveWakes

\* What the event loop resumes wakes nobody, or unlocks.
LEMMA ContinuesWake ==
    ASSUME TypeOK, LockInv, NEW f \in Flows, Continues(f)
    PROVE  WakesHead
  <1>1. CASE BeginTop(f) \/ BeginFails(f) \/ CommitFails(f) \/ BodyThrows(f)
             \/ Deliver(f) \/ Drained(f)
    <2>1. pc[f] # "waiting"
      BY <1>1 DEF BeginTop, BeginFails, CommitFails, BodyThrows, Returns, Deliver, Drained
    <2>2. \A g \in Flows \ {f} : pc'[g] = pc[g]
      BY <1>1 DEF BeginTop, BeginFails, CommitFails, BodyThrows, Deliver, Drained, TypeOK, MutexType
    <2> QED BY <2>1, <2>2, MoveWakes
  <1>2. CASE PlainWorks(f) \/ PlainFails(f)
    BY <1>2, UnlockWakes DEF PlainWorks, PlainFails
  <1>9. CASE BodyWrites(f)
    <2>1. UNCHANGED pc
      BY <1>9 DEF BodyWrites
    <2> QED BY <2>1, QueuedWait DEF WakesHead
  <1>3. CASE Commit(f)
    BY <1>3, SettleWakes DEF Commit, Returns
  <1>4. CASE Rollback(f)
    <2>1. pc[f] # "waiting"
      BY <1>4 DEF Rollback
    <2>2. CASE txRollback(f, "rejected")
      BY <2>1, <2>2, SettleWakes
    <2>3. CASE ~ txRollback(f, "rejected")
      BY <1>4, <2>1, <2>3, MoveWakes DEF Rollback, TypeOK, MutexType
    <2> QED BY <2>2, <2>3
  <1>5. CASE Dispose(f)
    BY <1>5, SettleWakes DEF Dispose
  <1>6. CASE HandleCommit(f)
    <2>1. pc[f] # "waiting"
      BY <1>6 DEF HandleCommit, ManualCall
    <2>2. CASE txCommit(f, "draining")
      BY <2>1, <2>2, SettleWakes
    <2>3. CASE UNCHANGED pc
      BY <2>1, <2>3, MoveWakes
    <2> QED BY <1>6, <2>2, <2>3 DEF HandleCommit
  <1>7. CASE HandleRollback(f)
    <2>1. pc[f] # "waiting"
      BY <1>7 DEF HandleRollback, ManualCall
    <2>2. CASE txRollback(f, "open")
      BY <2>1, <2>2, SettleWakes
    <2>3. CASE UNCHANGED pc
      BY <2>1, <2>3, MoveWakes
    <2> QED BY <1>7, <2>2, <2>3 DEF HandleRollback
  <1>8. CASE HandleDispose(f)
    BY <1>8, SettleWakes DEF HandleDispose
  <1> QED BY <1>1, <1>2, <1>3, <1>4, <1>5, <1>6, <1>7, <1>8, <1>9 DEF Continues

\* No step of the driver wakes a flow past the head of the queue.
LEMMA NextWakes == TypeOK /\ LockInv /\ [Next]_vars => WakesHead
  <1> SUFFICES ASSUME TypeOK, LockInv, [Next]_vars PROVE WakesHead
    OBVIOUS
  <1>1. ASSUME NEW f \in Flows, Starts(f) \/ Continues(f) PROVE WakesHead
    BY <1>1, StartsWake, ContinuesWake
  <1>2. CASE UNCHANGED pc
    BY <1>2, QueuedWait DEF WakesHead
  <1> QED BY <1>1, <1>2 DEF Next, Close, Quiescent, vars

\* The lock is granted in the order it was asked for (waiters.shift()).
THEOREM OrderCorrect == Spec => FIFO
  <1>1. TypeOK /\ LockInv /\ [Next]_vars =>
            [\A i, j \in DOMAIN waiters :
                i < j /\ pc'[waiters[j]] # "waiting" => pc'[waiters[i]] # "waiting"]_vars
    <2> SUFFICES ASSUME TypeOK, LockInv, [Next]_vars,
                        NEW i \in DOMAIN waiters, NEW j \in DOMAIN waiters,
                        i < j, pc'[waiters[j]] # "waiting"
                 PROVE  FALSE
      OBVIOUS
    <2>1. j = 1
      BY NextWakes DEF WakesHead
    <2>2. i \in Nat /\ i >= 1
      BY DEF TypeOK, MutexType
    <2> QED BY <2>1, <2>2
  <1> QED BY <1>1, TypeCorrect, LockCorrect, PTL DEF Spec, FIFO

-----------------------------------------------------------------------------
(* The after-hooks.  HooksInOrder says nothing of the queues, so it is not  *)
(* inductive: a queue could hold any write.  What makes it so is that the   *)
(* writes of a flow are numbered, that the hooks of the first few have run  *)
(* and that the queue holds the other ones, in order.                       *)

\* The number of f's writes whose after-hooks have run.
HooksRun(f) == written[f] - Len(deferred[f])

QueueHoldsTheRest ==
    \A f \in Flows :
        /\ Len(deferred[f]) <= written[f]
        /\ \A k \in DOMAIN deferred[f] : deferred[f][k] = <<f, HooksRun(f) + k>>
DeliveredAreFirst ==
    \A i \in DOMAIN delivered, f \in Flows :
        delivered[i][1] = f => delivered[i][2] <= HooksRun(f)
DeliveredRise ==
    \A i, j \in DOMAIN delivered :
        i < j /\ delivered[i][1] = delivered[j][1] => delivered[i][2] < delivered[j][2]
FirstAreDelivered ==
    \A f \in Flows : \A n \in 1 .. HooksRun(f) : \E i \in DOMAIN delivered : delivered[i] = <<f, n>>
ResolvedHaveNoHooks == \A f \in Flows : pc[f] = "resolved" => deferred[f] = <<>>

HookInv == /\ QueueHoldsTheRest /\ DeliveredAreFirst /\ DeliveredRise
           /\ FirstAreDelivered /\ ResolvedHaveNoHooks

\* A queue is a sequence of writes, no longer than the flow's counter.
LEMMA QueueType ==
    ASSUME TypeOK, QueueHoldsTheRest, NEW f \in Flows
    PROVE  /\ deferred[f] \in Seq(WriteIds) /\ Len(deferred[f]) \in Nat
           /\ written[f] \in Nat /\ HooksRun(f) \in Nat
  <1>1. deferred[f] \in Seq(WriteIds) /\ written[f] \in 0 .. MaxWrites
    BY DEF TypeOK, WriteType
  <1>2. Len(deferred[f]) \in Nat /\ written[f] \in Nat /\ Len(deferred[f]) <= written[f]
    BY <1>1, BoundsAssumption DEF QueueHoldsTheRest
  <1> QED BY <1>1, <1>2 DEF HooksRun

\* A hook that has run is that of a numbered write of a flow.
LEMMA DeliveredType ==
    ASSUME TypeOK, NEW i \in DOMAIN delivered
    PROVE  delivered[i][1] \in Flows /\ delivered[i][2] \in Nat
  <1>1. delivered[i] \in Flows \X (1 .. MaxWrites)
    BY DEF TypeOK, WriteType, WriteIds
  <1> QED BY <1>1, BoundsAssumption

\* Nothing is written, queued or run, and a call resolves only with an empty
\* queue.
LEMMA HooksUntouched ==
    ASSUME HookInv, UNCHANGED <<written, hookVars>>,
           \A g \in Flows : pc'[g] = "resolved" => pc[g] = "resolved" \/ deferred[g] = <<>>
    PROVE  HookInv'
  BY DEF HookInv, QueueHoldsTheRest, DeliveredAreFirst, DeliveredRise, FirstAreDelivered,
         ResolvedHaveNoHooks, HooksRun, hookVars

\* A model write takes the next number and the last place of the queue.
LEMMA WriteHooks ==
    ASSUME TypeOK, HookInv, NEW f \in Flows, ModelWrite(f), delivered' = delivered,
           pc'[f] # "resolved", \A g \in Flows : pc'[g] = "resolved" => pc[g] = "resolved"
    PROVE  HookInv'
  <1> DEFINE w == <<f, written[f] + 1>>
  <1>1. /\ written' = [written EXCEPT ![f] = @ + 1]
        /\ deferred' = [deferred EXCEPT ![f] = Append(@, w)]
    BY DEF ModelWrite
  <1>2. ASSUME NEW g \in Flows, g # f
        PROVE  written'[g] = written[g] /\ deferred'[g] = deferred[g]
    BY <1>1, <1>2 DEF TypeOK, WriteType
  <1>3. written'[f] = written[f] + 1 /\ deferred'[f] = Append(deferred[f], w)
    BY <1>1 DEF TypeOK, WriteType
  <1>4. /\ deferred[f] \in Seq(WriteIds) /\ Len(deferred[f]) \in Nat
        /\ written[f] \in Nat /\ HooksRun(f) \in Nat
    BY QueueType DEF HookInv
  <1>5. /\ Len(deferred'[f]) = Len(deferred[f]) + 1
        /\ DOMAIN deferred'[f] = DOMAIN deferred[f] \cup {Len(deferred[f]) + 1}
        /\ \A k \in DOMAIN deferred[f] : deferred'[f][k] = deferred[f][k]
        /\ deferred'[f][Len(deferred[f]) + 1] = w
    <2> HIDE DEF w
    <2>1. w \in {w}
      OBVIOUS
    <2>2. deferred[f] \in Seq(WriteIds \cup {w})
      BY <1>4
    <2> QED BY <1>3, <1>4, <2>2
  <1>6. \A g \in Flows : HooksRun(g)' = HooksRun(g)
    <2>1. ASSUME NEW g \in Flows, g # f PROVE HooksRun(g)' = HooksRun(g)
      BY <1>2, <2>1 DEF HooksRun
    <2>2. HooksRun(f)' = written'[f] - Len(deferred'[f])
      BY DEF HooksRun
    <2>3. HooksRun(f)' = (written[f] + 1) - (Len(deferred[f]) + 1)
      BY <1>3, <1>5, <2>2
    <2>4. HooksRun(f)' = HooksRun(f)
      BY <1>4, <2>3 DEF HooksRun
    <2> QED BY <2>1, <2>4
  <1>7. QueueHoldsTheRest'
    <2> SUFFICES ASSUME NEW g \in Flows
                 PROVE  /\ Len(deferred'[g]) <= written'[g]
                        /\ \A k \in DOMAIN deferred'[g] : deferred'[g][k] = <<g, HooksRun(g)' + k>>
      BY DEF QueueHoldsTheRest
    <2>1. CASE g # f
      BY <1>2, <1>6, <2>1 DEF HookInv, QueueHoldsTheRest
    <2>2. CASE g = f
      <3>1. Len(deferred'[f]) <= written'[f]
        BY <1>3, <1>4, <1>5 DEF HookInv, QueueHoldsTheRest
      <3>2. written[f] + 1 = HooksRun(f) + (Len(deferred[f]) + 1)
        BY <1>4 DEF HooksRun
      <3>3. \A k \in DOMAIN deferred'[f] : deferred'[f][k] = <<f, HooksRun(f) + k>>
        BY <1>5, <3>2 DEF HookInv, QueueHoldsTheRest
      <3> QED BY <1>6, <2>2, <3>1, <3>3
    <2> QED BY <2>1, <2>2
  <1>8. DeliveredAreFirst' /\ DeliveredRise' /\ FirstAreDelivered'
    BY <1>6, DeliveredType DEF HookInv, DeliveredAreFirst, DeliveredRise, FirstAreDelivered
  <1>9. ResolvedHaveNoHooks'
    BY <1>2 DEF HookInv, ResolvedHaveNoHooks
  <1> QED BY <1>7, <1>8, <1>9 DEF HookInv

\* A drain runs the hook of the first write that is left.
LEMMA DeliverHooks ==
    ASSUME TypeOK, HookInv, NEW f \in Flows, Deliver(f)
    PROVE  HookInv'
  <1> DEFINE w == <<f, HooksRun(f) + 1>>
  <1>1. /\ deferred[f] # <<>> /\ pc[f] = "draining"
        /\ delivered' = Append(delivered, Head(deferred[f]))
        /\ deferred' = [deferred EXCEPT ![f] = Tail(@)]
        /\ written' = written /\ pc' = pc
    BY DEF Deliver
  <1>2. /\ deferred[f] \in Seq(WriteIds) /\ Len(deferred[f]) \in Nat
        /\ written[f] \in Nat /\ HooksRun(f) \in Nat
    BY QueueType DEF HookInv
  <1>3. Head(deferred[f]) = w
    <2>1. 1 \in DOMAIN deferred[f] /\ Head(deferred[f]) = deferred[f][1]
      BY <1>1, <1>2
    <2> QED BY <2>1 DEF HookInv, QueueHoldsTheRest
  <1>4. /\ deferred'[f] = Tail(deferred[f])
        /\ Len(deferred'[f]) = Len(deferred[f]) - 1
        /\ DOMAIN deferred'[f] = 1 .. Len(deferred[f]) - 1
        /\ \A k \in DOMAIN deferred'[f] :
              deferred'[f][k] = deferred[f][k + 1] /\ k + 1 \in DOMAIN deferred[f]
    BY <1>1, <1>2 DEF TypeOK, WriteType
  <1>5. \A g \in Flows : g # f => deferred'[g] = deferred[g] /\ HooksRun(g)' = HooksRun(g)
    BY <1>1 DEF TypeOK, WriteType, HooksRun
  <1>6. HooksRun(f)' = HooksRun(f) + 1
    BY <1>1, <1>2, <1>4 DEF HooksRun
  <1>7. /\ DOMAIN delivered' = DOMAIN delivered \cup {Len(delivered) + 1}
        /\ Len(delivered) \in Nat /\ DOMAIN delivered = 1 .. Len(delivered)
        /\ \A i \in DOMAIN delivered : delivered'[i] = delivered[i]
        /\ delivered'[Len(delivered) + 1] = w
    <2>1. delivered \in Seq(WriteIds)
      BY DEF TypeOK, WriteType
    <2>2. w \in WriteIds
      <3>1. Head(deferred[f]) \in WriteIds
        BY <1>1, <1>2
      <3> QED BY <1>3, <3>1
    <2> HIDE DEF w
    <2> QED BY <1>1, <1>3, <2>1, <2>2
  <1>8. QueueHoldsTheRest'
    <2> SUFFICES ASSUME NEW g \in Flows
                 PROVE  /\ Len(deferred'[g]) <= written'[g]
                        /\ \A k \in DOMAIN deferred'[g] : deferred'[g][k] = <<g, HooksRun(g)' + k>>
      BY DEF QueueHoldsTheRest
    <2>1. CASE g # f
      BY <1>1, <1>5, <2>1 DEF HookInv, QueueHoldsTheRest
    <2>2. CASE g = f
      <3>1. Len(deferred'[f]) <= written'[f]
        BY <1>1, <1>2, <1>4 DEF HookInv, QueueHoldsTheRest
      <3>2. ASSUME NEW k \in DOMAIN deferred'[f]
            PROVE  deferred'[f][k] = <<f, HooksRun(f)' + k>>
        <4>1. deferred[f][k + 1] = <<f, HooksRun(f) + (k + 1)>>
          BY <1>4 DEF HookInv, QueueHoldsTheRest
        <4>2. HooksRun(f) + (k + 1) = (HooksRun(f) + 1) + k
          <5>1. k \in 1 .. Len(deferred[f]) - 1
            BY <1>4
          <5>2. k \in Nat
            BY <1>2, <5>1
          <5>3. HooksRun(f) \in Nat
            BY <1>2
          <5> HIDE DEF HooksRun
          <5> QED BY ONLY <5>2, <5>3
        <4> QED BY <1>4, <1>6, <4>1, <4>2
      <3> QED BY <2>2, <3>1, <3>2
    <2> QED BY <2>1, <2>2
  <1>9. DeliveredAreFirst'
    <2> SUFFICES ASSUME NEW i \in DOMAIN delivered', NEW g \in Flows, delivered'[i][1] = g
                 PROVE  delivered'[i][2] <= HooksRun(g)'
      BY DEF DeliveredAreFirst
    <2>1. CASE i = Len(delivered) + 1
      <3>1. g = f /\ delivered'[i][2] = HooksRun(f) + 1
        BY <1>7, <2>1
      <3> QED BY <1>2, <1>6, <3>1
    <2>2. CASE i \in DOMAIN delivered
      <3>1. /\ delivered[i][1] = g /\ delivered'[i][2] = delivered[i][2]
            /\ delivered[i][2] <= HooksRun(g) /\ delivered[i][2] \in Nat
        BY <1>7, <2>2, DeliveredType DEF HookInv, DeliveredAreFirst
      <3>2. CASE g = f
        <4>1. HooksRun(g)' = HooksRun(f) + 1 /\ HooksRun(g) = HooksRun(f)
          BY <1>6, <3>2
        <4> QED BY <1>2, <3>1, <4>1
      <3>3. CASE g # f
        BY <1>5, <3>1, <3>3
      <3> QED BY <3>2, <3>3
    <2> QED BY <1>7, <2>1, <2>2
  <1>10. DeliveredRise'
    <2> SUFFICES ASSUME NEW i \in DOMAIN delivered', NEW j \in DOMAIN delivered',
                        i < j, delivered'[i][1] = delivered'[j][1]
                 PROVE  delivered'[i][2] < delivered'[j][2]
      BY DEF DeliveredRise
    <2>1. i \in DOMAIN delivered
      BY <1>7
    <2>2. CASE j \in DOMAIN delivered
      BY <1>7, <2>1, <2>2 DEF HookInv, DeliveredRise
    <2>3. CASE j = Len(delivered) + 1
      <3>1. delivered[i][1] = f /\ delivered'[j][2] = HooksRun(f) + 1
        BY <1>7, <2>1, <2>3
      <3>2. delivered[i][2] <= HooksRun(f) /\ delivered[i][2] \in Nat
        BY <2>1, <3>1, DeliveredType DEF HookInv, DeliveredAreFirst
      <3>3. delivered'[i][2] = delivered[i][2]
        BY <1>7, <2>1
      <3> QED BY <1>2, <3>1, <3>2, <3>3
    <2> QED BY <1>7, <2>2, <2>3
  <1>11. FirstAreDelivered'
    <2> SUFFICES ASSUME NEW g \in Flows, NEW n \in 1 .. HooksRun(g)'
                 PROVE  \E i \in DOMAIN delivered' : delivered'[i] = <<g, n>>
      BY DEF FirstAreDelivered
    <2>1. CASE n \in 1 .. HooksRun(g)
      <3>1. PICK i \in DOMAIN delivered : delivered[i] = <<g, n>>
        BY <2>1 DEF HookInv, FirstAreDelivered
      <3> QED BY <1>7, <3>1
    <2>2. CASE n \notin 1 .. HooksRun(g)
      <3>1. g = f
        BY <1>5, <2>2
      <3>2. n = HooksRun(f) + 1
        BY <1>2, <1>6, <2>2, <3>1
      <3> QED BY <1>7, <3>1, <3>2
    <2> QED BY <2>1, <2>2
  <1>12. ResolvedHaveNoHooks'
    BY <1>1, <1>5 DEF HookInv, ResolvedHaveNoHooks
  <1> QED BY <1>8, <1>9, <1>10, <1>11, <1>12 DEF HookInv

\* Asking for the lock, giving it back and unlocking resolve nobody.
LEMMA MutexResolvesNobody ==
    ASSUME TypeOK, NEW f \in Flows, NEW s \in Steps \ {"resolved"},
           acquire(f) \/ releaseLock(f, s) \/ unlock(f, s),
           NEW g \in Flows, pc'[g] = "resolved"
    PROVE  pc[g] = "resolved"
  BY DEF acquire, releaseLock, unlock, TypeOK, MutexType

\* Nothing has been written at the start.
LEMMA InitHooks == Init => HookInv
  <1> SUFFICES ASSUME Init PROVE HookInv
    OBVIOUS
  <1>1. delivered = <<>> /\ \A f \in Flows : deferred[f] = <<>> /\ written[f] = 0 /\ HooksRun(f) = 0
    BY DEF Init, HooksRun
  <1> QED BY <1>1 DEF HookInv, QueueHoldsTheRest, DeliveredAreFirst, DeliveredRise,
                      FirstAreDelivered, ResolvedHaveNoHooks

\* When nobody writes late, a write through a TxConnection is its callback's.
LEMMA TimelyWrites ==
    ASSUME ~ LateWrites, NEW f \in Flows, MayWrite(f)
    PROVE  pc[f] = "open" /\ ~ tx[f].done /\ ~ Suspended(f)
  BY DEF MayWrite

\* A call that starts queues one hook if it writes at once.
LEMMA StartsHooks ==
    ASSUME TypeOK, HookInv, NEW f \in Flows, Starts(f)
    PROVE  HookInv'
  <1>1. PICK p \in Flows \cup {NoFlow} :
            \/ \E r \in Roles : BeginNested(f, r, p) \/ JoinFails(f, r, p) \/ AskForLock(f, r, p)
            \/ PlainJoins(f, p)
    BY DEF Starts
  <1>2. ASSUME NEW r \in Roles, BeginNested(f, r, p) PROVE HookInv'
    BY <1>2, HooksUntouched DEF BeginNested, TypeOK, MutexType
  <1>3. ASSUME NEW r \in Roles, AskForLock(f, r, p) PROVE HookInv'
    <2>1. "granted" \in Steps \ {"resolved"}
      BY StepNames
    <2>2. \A g \in Flows : pc'[g] = "resolved" => pc[g] = "resolved"
      BY <1>3, <2>1, MutexResolvesNobody DEF AskForLock
    <2> QED BY <1>3, <2>2, HooksUntouched DEF AskForLock
  <1>4. ASSUME PlainJoins(f, p) PROVE HookInv'
    BY <1>4, WriteHooks DEF PlainJoins, TypeOK, MutexType
  <1>5. ASSUME NEW r \in Roles, JoinFails(f, r, p) PROVE HookInv'
    BY <1>5, HooksUntouched DEF JoinFails, TypeOK, MutexType
  <1> QED BY <1>1, <1>2, <1>3, <1>4, <1>5

\* What the event loop resumes: one step per action.
LEMMA ContinuesHooks ==
    ASSUME ~ LateWrites, TypeOK, HookInv, NEW f \in Flows, Continues(f)
    PROVE  HookInv'
  <1> USE StepNames
  <1>1. CASE BeginTop(f) \/ BeginFails(f) \/ CommitFails(f) \/ BodyThrows(f)
    <2>1. \A g \in Flows : pc'[g] = "resolved" => pc[g] = "resolved"
      BY <1>1 DEF BeginTop, BeginFails, CommitFails, BodyThrows, TypeOK, MutexType
    <2> QED BY <1>1, <2>1, HooksUntouched DEF BeginTop, BeginFails, CommitFails, BodyThrows
  <1>2. CASE PlainWorks(f)
    <2>1. \A g \in Flows : pc'[g] = "resolved" => pc[g] = "resolved"
      BY <1>2, MutexResolvesNobody DEF PlainWorks
    <2>2. pc'[f] # "resolved"
      BY <1>2, <2>1 DEF PlainWorks
    <2> QED BY <1>2, <2>1, <2>2, WriteHooks DEF PlainWorks
  <1>3. CASE BodyWrites(f)
    BY <1>3, TimelyWrites, WriteHooks DEF BodyWrites
  <1>13. CASE PlainFails(f)
    <2>1. \A g \in Flows : pc'[g] = "resolved" => pc[g] = "resolved"
      BY <1>13, MutexResolvesNobody DEF PlainFails
    <2> QED BY <1>13, <2>1, HooksUntouched DEF PlainFails
  <1>4. CASE Commit(f)
    <2>1. \A g \in Flows : pc'[g] = "resolved" => pc[g] = "resolved"
      BY <1>4, MutexResolvesNobody DEF Commit, txCommit
    <2> QED BY <1>4, <2>1, HooksUntouched DEF Commit
  <1>5. ASSUME NEW s \in Steps \ {"resolved"}, txRollback(f, s) \/ txRelease(f, s) \/ dispose(f, s),
               UNCHANGED <<written, hookVars>>
        PROVE  HookInv'
    <2>1. \A g \in Flows : pc'[g] = "resolved" => pc[g] = "resolved"
      BY <1>5, MutexResolvesNobody DEF txRollback, txRelease, dispose
    <2> QED BY <1>5, <2>1, HooksUntouched
  <1>6. CASE Rollback(f)
    <2>1. CASE txRollback(f, "rejected")
      BY <1>5, <1>6, <2>1 DEF Rollback
    <2>2. CASE ~ txRollback(f, "rejected")
      BY <1>6, <2>2, HooksUntouched DEF Rollback, TypeOK, MutexType
    <2> QED BY <2>1, <2>2
  <1>7. CASE Dispose(f)
    BY <1>5, <1>7 DEF Dispose
  <1>8. CASE Deliver(f)
    BY <1>8, DeliverHooks
  <1>9. CASE Drained(f)
    BY <1>9, HooksUntouched DEF Drained, TypeOK, MutexType
  <1>10. CASE HandleCommit(f)
    <2>1. \A g \in Flows : pc'[g] = "resolved" => pc[g] = "resolved"
      BY <1>10, MutexResolvesNobody DEF HandleCommit, txCommit
    <2> QED BY <1>10, <2>1, HooksUntouched DEF HandleCommit
  <1>11. CASE HandleRollback(f)
    <2>1. CASE txRollback(f, "open")
      BY <1>5, <1>11, <2>1 DEF HandleRollback
    <2>2. CASE ~ txRollback(f, "open")
      BY <1>11, <2>2, HooksUntouched DEF HandleRollback
    <2> QED BY <2>1, <2>2
  <1>12. CASE HandleDispose(f)
    BY <1>5, <1>12 DEF HandleDispose
  <1> QED
    BY <1>1, <1>2, <1>3, <1>4, <1>6, <1>7, <1>8, <1>9, <1>10, <1>11, <1>12, <1>13 DEF Continues

\* So does every step.
LEMMA NextHooks ==
    ASSUME ~ LateWrites
    PROVE  TypeOK /\ HookInv /\ [Next]_vars => HookInv'
  <1> SUFFICES ASSUME TypeOK, HookInv, [Next]_vars PROVE HookInv'
    OBVIOUS
  <1>1. ASSUME NEW f \in Flows, Starts(f) \/ Continues(f) PROVE HookInv'
    BY <1>1, StartsHooks, ContinuesHooks
  <1>2. CASE Close
    BY <1>2, HooksUntouched DEF Close
  <1>3. CASE UNCHANGED vars
    BY <1>3, HooksUntouched DEF vars
  <1> QED BY <1>1, <1>2, <1>3 DEF Next, Quiescent

\* After-hooks run in the order of the writes they report, each at most once,
\* and a call resolves only once all of its own have run, as long as nobody
\* writes through a settled handle (afterCommit and drainAfterCommit,
\* lifecycle.ts; TxHandle.commit, transaction.ts).
THEOREM HooksCorrect ==
    ASSUME ~ LateWrites
    PROVE  Spec => []HooksInOrder
  <1>1. Init => TypeOK /\ HookInv
    BY InitType, InitHooks
  <1>2. TypeOK /\ HookInv /\ [Next]_vars => (TypeOK /\ HookInv)'
    BY NextType, NextHooks
  <1>3. TypeOK /\ HookInv => HooksInOrder
    <2> SUFFICES ASSUME TypeOK, HookInv PROVE HooksInOrder
      OBVIOUS
    <2>1. ASSUME NEW f \in Flows, pc[f] = "resolved", NEW w \in WritesOf(f)
          PROVE  \E i \in DOMAIN delivered : delivered[i] = w
      <3>1. HooksRun(f) = written[f]
        <4>1. Len(deferred[f]) = 0
          BY <2>1 DEF HookInv, ResolvedHaveNoHooks
        <4> QED BY <4>1, QueueType DEF HooksRun, HookInv
      <3>2. PICK n \in 1 .. written[f] : w = <<f, n>>
        BY <2>1 DEF WritesOf
      <3> QED BY <3>1, <3>2 DEF HookInv, FirstAreDelivered
    <2> QED BY <2>1 DEF HooksInOrder, HookInv, DeliveredRise
  <1> QED BY <1>1, <1>2, <1>3, PTL DEF Spec

-----------------------------------------------------------------------------
(* The nesting of transactions: savepoints are opened without the lock, so  *)
(* what is in the engine's journal is told apart from other calls' work by  *)
(* the callbacks around them alone.  What follows holds of programs whose   *)
(* callbacks await the calls they start and that write through no settled   *)
(* handle (Awaits), for any number of flows, any depth of nesting and any   *)
(* failures.                                                                *)

\* Every callback ends after the calls it started, and no write comes after the
\* end of its transaction.
Awaits == Nesting \in {"sequential", "concurrent"} /\ ~ LateWrites

-----------------------------------------------------------------------------
(* The inductive invariant. *)

Active(f)  == pc[f] \notin {"idle"} \cup Ended
Working(f) == pc[f] \in {"open", "catching", "disposing"}

\* While a call runs, the transactions around it are open, and each of them has a
\* call on the way to it that it awaits.
Enclosed(f) ==
    Active(f) =>
        /\ call[f].top \in IF call[f].scope = NoFlow THEN {f} ELSE call[f].around
        /\ call[call[f].top].top = call[f].top
        /\ call[f].scope = NoFlow => call[f].around = {}
        /\ \A g \in call[f].around :
              /\ call[g].role = "callback" /\ pc[g] = "open"
              /\ \E c \in call[f].around \cup {f} : call[c].scope = g

\* The open transactions are those that work and are not done.  The outermost
\* one of them holds the lock, and the others are savepoints.
InUse(f) ==
    /\ f \in openTx <=> Working(f) /\ ~ tx[f].done
    /\ f \in openTx => IF call[f].top = f THEN tx[f].holding /\ ~ tx[f].savepoint
                       ELSE tx[f].savepoint
    /\ tx[f].settled = tx[f].done
    /\ pc[f] \in {"idle", "waiting", "granted"} =>
          call[f].top = f /\ ~ tx[f].done /\ ~ tx[f].savepoint
    /\ call[f].role = "callback" /\ pc[f] = "open" => ~ tx[f].done
    /\ call[f].role = "manual" /\ pc[f] = "draining" => tx[f].done

\* The first frame is the outermost transaction's, unless close() took its
\* handle; and that is why a handle can be disposed without being done.
Rooted(f) ==
    /\ tx[f].handle <= conn
    /\ f \in openTx /\ ~ tx[f].savepoint /\ tx[f].handle = conn =>
          journal # <<>> /\ journal[1].by = f
    /\ pc[f] = "disposed" /\ ~ tx[f].done /\ ~ tx[f].savepoint => tx[f].handle < conn

\* The frames of the journal are of open transactions on the current handle, one
\* of each, with writes made under the same outermost one.
Framed ==
    /\ \A i \in DOMAIN journal :
          /\ journal[i].by \in openTx
          /\ tx[journal[i].by].handle = conn
          /\ \A w \in journal[i].writes :
                pc[w[1]] # "idle" /\ call[w[1]].top = call[journal[i].by].top
    /\ \A i, j \in DOMAIN journal : journal[i].by = journal[j].by => i = j

NestInv == Framed /\ \A f \in Flows : Enclosed(f) /\ InUse(f) /\ Rooted(f)

-----------------------------------------------------------------------------
(* What the invariant says of a single state. *)

\* The outermost transaction around an open one has the lock.
LEMMA TopHolds ==
    ASSUME TypeOK, NestInv, NEW f \in openTx
    PROVE  /\ call[f].top \in Flows /\ call[f].top \in openTx
           /\ tx[call[f].top].holding /\ Holds(call[f].top)
  <1> USE DEF TypeOK, TxType, CallType
  <1>1. f \in Flows /\ Enclosed(f) /\ InUse(f) /\ Active(f) /\ call[f].top \in Flows /\ call[f].around \subseteq Flows
    BY DEF NestInv, InUse, Working, Active, Ended
  <1> DEFINE t == call[f].top
  <1>2. t \in openTx /\ call[t].top = t
    <2>1. CASE call[f].scope = NoFlow
      BY <1>1, <2>1 DEF Enclosed
    <2>2. CASE call[f].scope # NoFlow
      <3>1. call[t].role = "callback" /\ pc[t] = "open" /\ call[t].top = t /\ InUse(t)
        BY <1>1, <2>2 DEF Enclosed, NestInv
      <3> QED BY <3>1 DEF InUse, Working
    <2> QED BY <2>1, <2>2
  <1>3. tx[t].holding
    BY <1>1, <1>2 DEF NestInv, InUse
  <1> QED BY <1>1, <1>2, <1>3 DEF Holds

\* There is one outermost transaction around all that are open, and who holds
\* the lock is it.
LEMMA OneTop ==
    ASSUME TypeOK, LockInv, NestInv, NEW f \in openTx
    PROVE  /\ \A g \in openTx : call[g].top = call[f].top
           /\ \A h \in Flows : Holds(h) => h = call[f].top
  BY TopHolds DEF LockInv, MutualExclusion

\* A flow that was just handed the lock finds no transaction in the engine.
LEMMA GrantedClean ==
    ASSUME TypeOK, LockInv, NestInv, NEW f \in Flows, pc[f] = "granted"
    PROVE  openTx = {} /\ journal = <<>>
  <1>1. Holds(f) /\ ~ tx[f].holding
    BY DEF Holds, LockInv, HoldersAreOpen
  <1>2. openTx = {}
    <2> SUFFICES ASSUME NEW g \in openTx PROVE FALSE
      OBVIOUS
    <2> QED BY <1>1, OneTop, TopHolds
  <1>3. DOMAIN journal = {}
    BY <1>2 DEF NestInv, Framed
  <1> QED BY <1>2, <1>3 DEF TypeOK, EngineType

-----------------------------------------------------------------------------
(* What a step does to the flows. *)

\* Flow f goes on to s; another may be granted the lock.
Moves(f, s) ==
    /\ pc'[f] = s
    /\ \A g \in Flows \ {f} : pc'[g] = pc[g] \/ (pc[g] = "waiting" /\ pc'[g] = "granted")

\* A flow that moves alone.
LEMMA MoveAlone ==
    ASSUME TypeOK, NEW f \in Flows, NEW s, pc' = [pc EXCEPT ![f] = s]
    PROVE  Moves(f, s)
  BY DEF TypeOK, MutexType, Moves

\* A release of the lock, and an unlock.
LEMMA ReleaseMoves ==
    ASSUME TypeOK, LockInv, NEW f \in Flows, NEW s, pc[f] # "waiting", releaseLock(f, s)
    PROVE  Moves(f, s)
  <1>1. CASE waiters = <<>>
    BY <1>1, MoveAlone DEF releaseLock
  <1>2. CASE waiters # <<>>
    <2>1. 1 \in DOMAIN waiters /\ Head(waiters) = waiters[1] /\ Head(waiters) \in Flows
      BY <1>2 DEF TypeOK, MutexType
    <2>2. pc[Head(waiters)] = "waiting" /\ Head(waiters) # f
      BY <2>1 DEF LockInv, NoLostWakeup
    <2>3. pc' = [pc EXCEPT ![f] = s, ![Head(waiters)] = "granted"]
      BY <1>2 DEF releaseLock
    <2> QED BY <2>1, <2>2, <2>3 DEF TypeOK, MutexType, Moves
  <1> QED BY <1>1, <1>2

\* The end of a transaction, or of its handle.
LEMMA UnlockMoves ==
    ASSUME TypeOK, LockInv, NEW f \in Flows, NEW s, pc[f] # "waiting", unlock(f, s)
    PROVE  Moves(f, s) /\ openTx' = openTx \ {f}
  BY ReleaseMoves, MoveAlone DEF unlock

\* A callback does not stop being open while a call inside it runs.
LEMMA EnclosedKeeps ==
    ASSUME Awaits, TypeOK, NestInv, NEW f \in Flows, NEW s, Moves(f, s), UNCHANGED call,
           pc[f] # "idle", s = "idle" \/ s \in Ended \/ pc[f] \notin Ended,
           call[f].role = "callback" /\ pc[f] = "open" => s = "open" \/ Returns(f)
    PROVE  \A g \in Flows : Enclosed(g)'
  <1> SUFFICES ASSUME NEW g \in Flows, Active(g)' PROVE Enclosed(g)'
    BY DEF Enclosed
  <1>1. Active(g) /\ Enclosed(g) /\ call[g].around \subseteq Flows
    BY DEF Active, Moves, NestInv, TypeOK, CallType, Ended
  <1>2. ASSUME NEW h \in call[g].around PROVE pc'[h] = "open"
    <2>1. PICK c \in call[g].around \cup {g} : call[c].scope = h
      BY <1>1 DEF Enclosed
    <2>2. ~ HasEnded(c) /\ c \in Flows
      BY <1>1, <2>1 DEF Enclosed, Active, HasEnded, Ended
    <2>3. ~ Returns(h)
      BY <2>1, <2>2 DEF Returns, Awaited, Inner, Awaits
    <2> QED BY <1>1, <2>3 DEF Enclosed, Moves
  <1> QED BY <1>1, <1>2 DEF Enclosed

-----------------------------------------------------------------------------
(* Steps that leave the engine and the handles alone. *)

\* Such a step keeps the invariant.
LEMMA QuietNest ==
    ASSUME Awaits, TypeOK, NestInv, NEW f \in Flows, NEW s, Moves(f, s),
           UNCHANGED <<call, openTx, tx, conn, journal>>,
           pc[f] \notin {"idle", "waiting"}, s \notin {"idle", "waiting", "granted", "disposed"},
           s \in Ended \/ pc[f] \notin Ended,
           Working(f) /\ ~ tx[f].done <=> s \in {"open", "catching", "disposing"} /\ ~ tx[f].done,
           call[f].role = "callback" /\ pc[f] = "open" => s = "open" \/ Returns(f),
           call[f].role = "callback" /\ s = "open" => pc[f] = "open",
           call[f].role = "manual" /\ s = "draining" => tx[f].done
    PROVE  NestInv'
  <1>1. \A g \in Flows : Enclosed(g)'
    BY EnclosedKeeps
  <1>2. \A g \in Flows : InUse(g)'
    BY DEF NestInv, InUse, Working, Moves
  <1>3. \A g \in Flows : Rooted(g)'
    BY DEF NestInv, Rooted, Moves
  <1>4. Framed'
    <2>1. \A g \in Flows : pc[g] # "idle" => pc'[g] # "idle"
      BY DEF Moves
    <2>2. \A i \in DOMAIN journal : \A w \in journal[i].writes : w[1] \in Flows
      BY FrameWrites DEF TypeOK, EngineType, WriteIds
    <2> QED BY <2>1, <2>2 DEF NestInv, Framed
  <1> QED BY <1>1, <1>2, <1>3, <1>4 DEF NestInv

-----------------------------------------------------------------------------
(* The end of a transaction. *)

\* The journal loses f's frame, if it has one, and keeps what is below it; writes
\* of the lost frames may stay.
Trims(f) ==
    /\ DOMAIN journal' \subseteq DOMAIN journal
    /\ \A i \in DOMAIN journal' :
          /\ journal'[i].by = journal[i].by /\ journal[i].by # f
          /\ \A w \in journal'[i].writes : \E k \in DOMAIN journal : w \in journal[k].writes
    /\ journal # <<>> /\ journal[1].by # f /\ (tx[f].savepoint \/ f \notin openTx) => 1 \in DOMAIN journal'

\* Only an open transaction can be ended in the engine.
LEMMA EndIsOpen ==
    ASSUME TypeOK, NestInv, NEW f \in Flows, pc[f] \notin {"idle", "waiting", "granted", "draining"},
           ~ tx[f].done, CanEnd(f), HasEnded(f) => pc[f] = "disposed"
    PROVE  f \in openTx
  <1>1. CASE tx[f].savepoint
    BY <1>1 DEF CanEnd, HasFrame, NestInv, Framed
  <1>2. CASE ~ tx[f].savepoint
    <2>1. pc[f] # "disposed"
      BY <1>2 DEF CanEnd, NestInv, Rooted, TypeOK, TxType
    <2>2. pc[f] \in Steps
      BY DEF TypeOK, MutexType
    <2>3. Working(f)
      BY <2>1, <2>2 DEF HasEnded, Working, Steps, Ended
    <2> QED BY <2>3 DEF NestInv, InUse
  <1> QED BY <1>1, <1>2

\* ROLLBACK, and ROLLBACK TO followed by RELEASE, trim the journal.
LEMMA RollbackTrims ==
    ASSUME TypeOK, NestInv, NEW f \in openTx, CanEnd(f), ExecRollback(f)
    PROVE  Trims(f)
  <1>0. f \in Flows /\ EngineType
    BY DEF TypeOK, TxType
  <1>1. CASE tx[f].savepoint
    <2>1. HasFrame(f) /\ journal' = Below(f)
      BY <1>1 DEF CanEnd, ExecRollback
    <2>2. /\ Level(f) \in DOMAIN journal /\ journal[Level(f)].by = f
          /\ Len(Below(f)) = Level(f) - 1 /\ Below(f) \in Seq(Frames)
      BY <1>0, <2>1, BelowType DEF HasFrame, Level
    <2>3. DOMAIN Below(f) = 1 .. Level(f) - 1 /\ \A i \in 1 .. Level(f) - 1 : Below(f)[i] = journal[i]
      BY <1>0, <2>2 DEF Below, EngineType
    <2>4. \A i \in 1 .. Level(f) - 1 : i \in DOMAIN journal /\ journal[i].by # f
      BY <1>0, <2>2 DEF NestInv, Framed, EngineType
    <2>5. journal[1].by # f => 1 \in DOMAIN Below(f)
      BY <1>0, <2>2, <2>3 DEF EngineType
    <2>6. /\ DOMAIN journal' = 1 .. Level(f) - 1
          /\ \A i \in 1 .. Level(f) - 1 : journal'[i] = journal[i]
      BY <2>1, <2>3
    <2> QED BY <2>1, <2>4, <2>5, <2>6 DEF Trims
  <1>2. CASE ~ tx[f].savepoint
    BY <1>2 DEF ExecRollback, Trims
  <1> QED BY <1>1, <1>2

\* So do COMMIT and RELEASE.
LEMMA CommitTrims ==
    ASSUME TypeOK, NestInv, NEW f \in openTx, CanEnd(f), ExecCommit(f)
    PROVE  Trims(f)
  <1>0. f \in Flows /\ EngineType
    BY DEF TypeOK, TxType
  <1>1. CASE tx[f].savepoint
    <2>1. HasFrame(f)
      BY <1>1 DEF CanEnd
    <2>2. /\ Level(f) \in DOMAIN journal /\ journal[Level(f)].by = f
          /\ Len(Below(f)) = Level(f) - 1 /\ Below(f) \in Seq(Frames)
      BY <1>0, <2>1, BelowType DEF HasFrame, Level
    <2>3. DOMAIN Below(f) = 1 .. Level(f) - 1 /\ \A i \in 1 .. Level(f) - 1 : Below(f)[i] = journal[i]
      BY <1>0, <2>2 DEF Below, EngineType
    <2>4. \A i \in 1 .. Level(f) - 1 : i \in DOMAIN journal /\ journal[i].by # f
      BY <1>0, <2>2 DEF NestInv, Framed, EngineType
    <2>5. CASE Below(f) = <<>>
      <3>1. journal' = <<>> /\ Level(f) = 1
        BY <1>0, <2>2, <2>5 DEF ExecCommit, EngineType
      <3> QED BY <2>2, <3>1 DEF Trims
    <2>6. CASE Below(f) # <<>>
      <3> DEFINE all == UNION {journal[i].writes : i \in Level(f) - 1 .. Len(journal)}
      <3>1. journal' = [Below(f) EXCEPT ![Level(f) - 1].writes = all] /\ Level(f) - 1 \in 1 .. Level(f) - 1
        BY <1>0, <1>1, <2>2, <2>6 DEF ExecCommit, Released, EngineType
      <3>2. \A w \in all : \E k \in DOMAIN journal : w \in journal[k].writes
        BY <1>0, <2>2, <3>1 DEF EngineType
      <3> HIDE DEF all
      <3>3. /\ DOMAIN journal' = 1 .. Level(f) - 1
            /\ \A i \in 1 .. Level(f) - 1 :
                  /\ journal'[i].by = journal[i].by
                  /\ journal'[i].writes = IF i = Level(f) - 1 THEN all ELSE journal[i].writes
        <4>1. \A i \in 1 .. Level(f) - 1 : Below(f)[i] \in Frames
          BY <2>2, <2>3
        <4> QED BY <2>3, <3>1, <4>1 DEF Frames
      <3>4. 1 \in DOMAIN journal'
        BY <1>0, <2>2, <3>1, <3>3 DEF EngineType
      <3> QED BY <2>4, <3>2, <3>3, <3>4 DEF Trims
    <2> QED BY <2>5, <2>6
  <1>2. CASE ~ tx[f].savepoint
    BY <1>2 DEF ExecCommit, Trims
  <1> QED BY <1>1, <1>2

\* Ending a transaction, or its handle, keeps the invariant.
LEMMA EndNest ==
    ASSUME Awaits, TypeOK, LockInv, NestInv, NEW f \in Flows, NEW s, Moves(f, s), Trims(f),
           UNCHANGED <<call, conn>>, openTx' = openTx \ {f},
           pc[f] \notin {"idle", "waiting", "granted"}, s \notin {"idle", "waiting", "granted"},
           s \in Ended \/ pc[f] \notin Ended,
           s \in Ended \/ tx'[f].done,
           \A g \in Flows \ {f} : tx'[g] = tx[g],
           tx'[f].handle = tx[f].handle /\ tx'[f].savepoint = tx[f].savepoint,
           tx'[f].settled = tx'[f].done,
           s = "disposed" /\ ~ tx'[f].done /\ ~ tx[f].savepoint => tx[f].handle < conn,
           call[f].role = "callback" => s # "open" /\ (pc[f] = "open" => Returns(f))
    PROVE  NestInv'
  <1>1. \A g \in Flows : Enclosed(g)'
    BY EnclosedKeeps
  <1>2. \A g \in Flows : InUse(g)'
    <2>1. InUse(f)'
      BY DEF NestInv, InUse, Working, Moves, Ended
    <2>2. \A g \in Flows \ {f} : InUse(g)'
      BY DEF NestInv, InUse, Working, Moves
    <2> QED BY <2>1, <2>2
  <1>3. ASSUME NEW g \in Flows PROVE Rooted(g)'
    <2>1. CASE g = f
      BY <2>1 DEF NestInv, Rooted, Moves
    <2>2. CASE g # f
      <3>1. ASSUME g \in openTx, ~ tx[g].savepoint, tx[g].handle = conn
            PROVE  journal' # <<>> /\ journal'[1].by = g
        <4>1. journal # <<>> /\ journal[1].by = g
          BY <3>1 DEF NestInv, Rooted
        <4>2. tx[f].savepoint \/ f \notin openTx
          <5> SUFFICES ASSUME f \in openTx, ~ tx[f].savepoint PROVE FALSE
            OBVIOUS
          <5>1. call[f].top = f /\ call[g].top = g
            BY <3>1 DEF NestInv, InUse
          <5> QED BY <2>2, <3>1, <5>1, OneTop
        <4>3. 1 \in DOMAIN journal'
          BY <2>2, <4>1, <4>2 DEF Trims
        <4>4. journal'[1].by = g
          BY <4>1, <4>3 DEF Trims
        <4> QED BY <4>3, <4>4
      <3> QED BY <2>2, <3>1 DEF NestInv, Rooted, Moves
    <2> QED BY <2>1, <2>2
  <1>4. Framed'
    <2>1. ASSUME NEW i \in DOMAIN journal'
          PROVE  /\ journal'[i].by \in openTx'
                 /\ tx'[journal'[i].by].handle = conn
                 /\ \A w \in journal'[i].writes :
                       pc'[w[1]] # "idle" /\ call[w[1]].top = call[journal'[i].by].top
      <3>1. /\ i \in DOMAIN journal /\ journal'[i].by = journal[i].by /\ journal[i].by # f
            /\ journal[i].by \in openTx /\ tx[journal[i].by].handle = conn
            /\ journal[i].by \in Flows
        BY <2>1 DEF Trims, NestInv, Framed, TypeOK, TxType
      <3>2. ASSUME NEW w \in journal'[i].writes
            PROVE  pc'[w[1]] # "idle" /\ call[w[1]].top = call[journal[i].by].top
        <4>1. PICK k \in DOMAIN journal : w \in journal[k].writes
          BY <2>1, <3>2 DEF Trims
        <4>2. /\ pc[w[1]] # "idle" /\ call[w[1]].top = call[journal[k].by].top
              /\ journal[k].by \in openTx
          BY <4>1 DEF NestInv, Framed
        <4>3. w[1] \in Flows
          BY <4>1, FrameWrites DEF TypeOK, EngineType, WriteIds
        <4> QED BY <3>1, <4>2, <4>3, OneTop DEF Moves
      <3> QED BY <3>1, <3>2
    <2>2. \A i, j \in DOMAIN journal' : journal'[i].by = journal'[j].by => i = j
      BY DEF Trims, NestInv, Framed
    <2> QED BY <2>1, <2>2 DEF Framed
  <1> QED BY <1>1, <1>2, <1>3, <1>4 DEF NestInv

\* A flow that has no frame in the journal leaves it as it is.
LEMMA NothingToTrim ==
    ASSUME TypeOK, NEW f \in Flows, UNCHANGED journal, \A i \in DOMAIN journal : journal[i].by # f
    PROVE  Trims(f)
  <1>1. journal # <<>> => 1 \in DOMAIN journal
    BY DEF TypeOK, EngineType
  <1> QED BY <1>1 DEF Trims

\* What tx.commit(), tx.rollback() and tx.release() of a handle do to the engine.
LEMMA SettleTrims ==
    ASSUME TypeOK, NestInv, NEW f \in Flows, NEW s,
           pc[f] \in {"open", "catching", "disposing", "disposed"},
           \/ txCommit(f, s) \/ txRollback(f, s)
           \/ txRelease(f, s) /\ (tx[f].settled \/ RollbackThrows(f))
    PROVE  /\ Trims(f)
           /\ durable' \in {durable, durable \cup WritesIn(journal)}
  <1>1. InUse(f)
    BY DEF NestInv
  <1>2. ASSUME tx[f].done PROVE \A i \in DOMAIN journal : journal[i].by # f
    BY <1>1, <1>2 DEF InUse, NestInv, Framed
  <1>3. CASE txCommit(f, s) \/ txRollback(f, s)
    <2>1. CASE tx[f].done
      BY <1>2, <1>3, <2>1, NothingToTrim DEF txCommit, txRollback, engineVars
    <2>2. CASE ~ tx[f].done
      <3>1. CanEnd(f) /\ (ExecCommit(f) \/ ExecRollback(f))
        BY <1>3, <2>2 DEF txCommit, txRollback
      <3>2. f \in openTx
        BY <2>2, <3>1, EndIsOpen DEF HasEnded, Ended
      <3>3. Trims(f)
        BY <3>1, <3>2, CommitTrims, RollbackTrims
      <3>4. durable' = durable \/ durable' = durable \cup WritesIn(journal)
        BY <3>1, Zenon DEF ExecCommit, ExecRollback
      <3> QED BY <3>3, <3>4
    <2> QED BY <2>1, <2>2
  <1>4. CASE txRelease(f, s) /\ tx[f].settled
    BY <1>1, <1>2, <1>4, NothingToTrim DEF InUse, txRelease, engineVars
  <1>5. CASE txRelease(f, s) /\ RollbackThrows(f)
    <2>1. \A i \in DOMAIN journal : journal[i].by # f
      BY <1>5 DEF RollbackThrows, CanEnd, HasFrame, NestInv, Framed
    <2> QED BY <1>5, <2>1, NothingToTrim DEF txRelease, engineVars
  <1> QED BY <1>3, <1>4, <1>5

\* tx.commit(), tx.rollback() and tx.release() of a handle keep the invariant.
LEMMA SettleNest ==
    ASSUME Awaits, TypeOK, LockInv, NestInv, UNCHANGED <<call, conn>>,
           NEW f \in Flows, pc[f] \in {"open", "catching", "disposing", "disposed"},
           NEW s \in {"draining", "open"} \cup Ended,
           s \in Ended \/ pc[f] \notin Ended,
           call[f].role = "callback" => s # "open" /\ (pc[f] = "open" => Returns(f)),
           \/ txCommit(f, s) \/ txRollback(f, s)
           \/ txRelease(f, s) /\ s \in Ended /\ (tx[f].settled \/ RollbackThrows(f))
    PROVE  NestInv'
  <1>1. Moves(f, s) /\ openTx' = openTx \ {f}
    BY UnlockMoves DEF txCommit, txRollback, txRelease
  <1>2. /\ \A g \in Flows \ {f} : tx'[g] = tx[g]
        /\ tx'[f].handle = tx[f].handle /\ tx'[f].savepoint = tx[f].savepoint
        /\ \/ tx'[f].done /\ tx'[f].settled
           \/ tx'[f].done = tx[f].done /\ tx'[f].settled = tx[f].settled /\ txRelease(f, s)
                 /\ s \in Ended /\ (tx[f].settled \/ RollbackThrows(f))
    BY DEF txCommit, txRollback, txRelease, TypeOK, TxType
  <1>3. InUse(f) /\ Rooted(f)
    BY DEF NestInv
  <1>4. tx[f].settled = tx[f].done /\ tx'[f].settled = tx'[f].done
    BY <1>2, <1>3 DEF InUse
  <1>6. Trims(f)
    BY SettleTrims
  <1>7. ASSUME s = "disposed", ~ tx'[f].done, ~ tx[f].savepoint PROVE tx[f].handle < conn
    <2>1. RollbackThrows(f)
      BY <1>2, <1>4, <1>7
    <2>2. tx[f].handle \in Nat /\ conn \in Nat
      BY DEF TypeOK, TxType
    <2>3. CASE tx[f].handle # conn
      BY <1>3, <2>2, <2>3 DEF Rooted
    <2>4. CASE tx[f].handle = conn
      <3>1. journal = <<>> /\ ~ tx[f].done
        BY <1>7, <2>1, <2>4 DEF RollbackThrows, CanEnd
      <3>2. f \notin openTx
        BY <1>3, <1>7, <2>4, <3>1 DEF Rooted
      <3>3. pc[f] = "disposed"
        BY <1>3, <3>1, <3>2 DEF InUse, Working
      <3> QED BY <1>3, <1>7, <3>1, <3>3 DEF Rooted
    <2> QED BY <2>3, <2>4
  <1>8. /\ pc[f] \notin {"idle", "waiting", "granted"} /\ s \notin {"idle", "waiting", "granted"}
        /\ s \in Ended \/ tx'[f].done
    BY <1>2 DEF Ended
  <1> QED BY <1>1, <1>2, <1>4, <1>6, <1>7, <1>8, EndNest

-----------------------------------------------------------------------------
(* The steps that write. *)

\* A write of flow f under the transaction that is open keeps the frames.
LEMMA WriteFramed ==
    ASSUME TypeOK, LockInv, NestInv, NEW f \in Flows, NEW n, ExecWrite(<<f, n>>),
           UNCHANGED <<openTx, tx, conn>>,
           \A g \in Flows \ {f} : pc'[g] = pc[g] /\ call'[g] = call[g],
           pc'[f] # "idle", pc[f] = "idle" \/ call'[f] = call[f], f \in openTx => call'[f] = call[f],
           \E p \in openTx : call'[f].top = call[p].top
    PROVE  /\ Framed'
           /\ journal # <<>> => journal' # <<>> /\ journal'[1].by = journal[1].by
  <1>0. journal \in Seq(Frames)
    BY DEF TypeOK, EngineType
  <1> DEFINE w == <<f, n>>
  <1>1. \A i \in DOMAIN journal :
           /\ journal[i] \in Frames /\ journal[i].by \in openTx
           /\ \A v \in journal[i].writes : v[1] \in Flows
    BY <1>0, FrameWrites DEF NestInv, Framed, WriteIds
  <1>2. \A i \in DOMAIN journal : call'[journal[i].by].top = call[journal[i].by].top /\ journal[i].by \in Flows
    BY <1>1 DEF TypeOK, TxType
  <1>3. \A i \in DOMAIN journal : call'[f].top = call[journal[i].by].top
    BY <1>1, OneTop
  <1>4. \A i \in DOMAIN journal : \A v \in journal[i].writes :
            pc'[v[1]] # "idle" /\ call'[v[1]].top = call[journal[i].by].top
    BY <1>1 DEF NestInv, Framed
  <1>5. CASE journal = <<>>
    BY <1>5 DEF ExecWrite, Framed
  <1>6. CASE journal # <<>>
    <2>1. journal' = [journal EXCEPT ![Len(journal)].writes = @ \cup {w}] /\ Len(journal) \in DOMAIN journal
      BY <1>0, <1>6 DEF ExecWrite
    <2> HIDE DEF w
    <2>2. /\ DOMAIN journal' = DOMAIN journal
          /\ \A i \in DOMAIN journal :
                /\ journal'[i].by = journal[i].by
                /\ journal'[i].writes \subseteq journal[i].writes \cup {w}
      BY <1>1, <2>1 DEF Frames
    <2>3. w[1] = f
      BY DEF w
    <2>4. \A i \in DOMAIN journal : \A v \in journal'[i].writes :
              pc'[v[1]] # "idle" /\ call'[v[1]].top = call[journal[i].by].top
      BY <1>3, <1>4, <2>2, <2>3
    <2>5. Framed'
      BY <1>2, <2>2, <2>4 DEF NestInv, Framed
    <2>6. journal' # <<>> /\ journal'[1].by = journal[1].by
      BY <1>0, <1>6, <2>2
    <2> QED BY <2>5, <2>6
  <1> QED BY <1>5, <1>6

\* A write of an open transaction.
LEMMA BodyWritesNest ==
    ASSUME Awaits, TypeOK, LockInv, NestInv, NEW f \in Flows, BodyWrites(f)
    PROVE  NestInv'
  <1>1. /\ pc[f] = "open" /\ ~ tx[f].done /\ ExecWrite(<<f, written[f] + 1>>)
        /\ UNCHANGED <<pc, call, openTx, tx, conn>>
    BY TimelyWrites DEF Awaits, BodyWrites, ModelWrite, lockVars
  <1>2. f \in openTx
    BY <1>1 DEF NestInv, InUse, Working
  <1>3. Framed' /\ (journal # <<>> => journal' # <<>> /\ journal'[1].by = journal[1].by)
    BY <1>1, <1>2, WriteFramed
  <1>4. \A g \in Flows : Enclosed(g)' /\ InUse(g)'
    BY <1>1 DEF NestInv, Enclosed, Active, InUse, Working
  <1>5. \A g \in Flows : Rooted(g)'
    BY <1>1, <1>3 DEF NestInv, Rooted
  <1> QED BY <1>3, <1>4, <1>5 DEF NestInv

-----------------------------------------------------------------------------
(* The calls that start. *)

\* The store a call is made under is that of an open transaction, or none.
Entered(f, r, p) ==
    /\ pc[f] = "idle" /\ f \notin openTx
    /\ \A g \in Flows \ {f} : call'[g] = call[g]
    /\ call'[f].role = r /\ call'[f].scope = p
    /\ p = NoFlow => ~ isReentrant(p) /\ call'[f].top = f /\ call'[f].around = {}
    /\ p # NoFlow =>
          /\ isReentrant(p) /\ p \in Flows \ {f} /\ call[p].role = "callback" /\ pc[p] = "open"
          /\ call'[f].top = call[p].top /\ call'[f].around = call[p].around \cup {p}

\* That is so of every call that starts.
LEMMA EnterScope ==
    ASSUME Awaits, TypeOK, NestInv, NEW f \in Flows, NEW r, NEW p \in Flows \cup {NoFlow}, Enter(f, r, p)
    PROVE  Entered(f, r, p)
  <1>1. pc[f] = "idle" /\ p \in Scopes(f)
    BY DEF Enter
  <1>2. p # NoFlow => p \in Flows \ {f} /\ call[p].role = "callback" /\ pc[p] = "open"
    BY <1>1 DEF Scopes, MayCall, Awaits
  <1>3. p # NoFlow => p \in openTx
    BY <1>2 DEF NestInv, InUse, Working
  <1>4. NoFlow \notin openTx /\ f \notin openTx
    BY <1>1, FlowsAssumption DEF TypeOK, TxType, NestInv, InUse, Working
  <1>5. call \in [Flows -> [role : Roles \cup {"none"}, scope : Flows \cup {NoFlow},
                            top : Flows, around : SUBSET Flows]]
    BY DEF TypeOK, CallType
  <1>6. /\ \A g \in Flows \ {f} : call'[g] = call[g]
        /\ call'[f] = [role |-> r, scope |-> p,
                       top |-> IF isReentrant(p) THEN call[p].top ELSE f,
                       around |-> IF isReentrant(p) THEN call[p].around \cup {p} ELSE {}]
    BY <1>5 DEF Enter
  <1>7. isReentrant(p) <=> p # NoFlow
    BY <1>3, <1>4 DEF isReentrant
  <1> QED BY <1>1, <1>2, <1>4, <1>6, <1>7 DEF Entered

\* A new call is enclosed by the transaction it is made under and those around it.
LEMMA EnterEnclosed ==
    ASSUME Awaits, TypeOK, NestInv, NEW f \in Flows, NEW r, NEW p \in Flows \cup {NoFlow}, Enter(f, r, p),
           NEW s, pc' = [pc EXCEPT ![f] = s]
    PROVE  \A g \in Flows : Enclosed(g)'
  <1>e. Entered(f, r, p)
    BY EnterScope
  <1> USE <1>e DEF Entered
  <1>0. /\ pc'[f] = s /\ \A g \in Flows \ {f} : pc'[g] = pc[g]
        /\ \A g \in Flows : call[g].top \in Flows /\ call[g].around \subseteq Flows
    BY DEF TypeOK, MutexType, CallType
  <1>1. ASSUME NEW g \in Flows \ {f} PROVE Enclosed(g)'
    <2> SUFFICES ASSUME Active(g) PROVE Enclosed(g)'
      BY <1>0 DEF Enclosed, Active
    <2>1. Enclosed(g) /\ \A c \in call[g].around : c \in Flows \ {f}
      BY <1>0 DEF NestInv, Enclosed
    <2>2. call[g].top \in Flows \ {f}
      BY <2>1 DEF Enclosed
    <2> QED BY <1>0, <2>1, <2>2 DEF Enclosed
  <1>2. Enclosed(f)'
    <2>1. CASE p = NoFlow
      BY <2>1 DEF Enclosed
    <2>2. CASE p # NoFlow
      <3>1. /\ p \in openTx /\ p \in Flows \ {f} /\ call[p].role = "callback" /\ pc[p] = "open"
            /\ Enclosed(p) /\ Active(p)
        BY <2>2 DEF isReentrant, NestInv, Active, Ended
      <3>2. call'[f].top = call[p].top /\ call'[f].around = call[p].around \cup {p} /\ call'[f].scope = p
        BY <2>2
      <3>3. \A c \in call'[f].around : c \in Flows \ {f} /\ call'[c] = call[c] /\ pc'[c] = pc[c]
        BY <1>0, <3>1, <3>2 DEF Enclosed
      <3>4. call'[f].top \in call'[f].around /\ call[call[p].top].top = call[p].top
        BY <3>1, <3>2 DEF Enclosed
      <3>5. \A g \in call'[f].around :
               /\ call[g].role = "callback" /\ pc[g] = "open"
               /\ g = p \/ \E c \in call'[f].around : call[c].scope = g
        BY <3>1, <3>2 DEF Enclosed
      <3>6. \A g \in call'[f].around : \E c \in call'[f].around \cup {f} : call'[c].scope = g
        BY <3>2, <3>3, <3>5
      <3> QED BY <2>2, <3>2, <3>3, <3>4, <3>5, <3>6 DEF Enclosed
    <2> QED BY <2>1, <2>2
  <1> QED BY <1>1, <1>2

\* A savepoint.
LEMMA BeginNestedNest ==
    ASSUME Awaits, TypeOK, LockInv, NestInv, NEW f \in Flows, NEW r, NEW p \in Flows \cup {NoFlow},
           BeginNested(f, r, p)
    PROVE  NestInv'
  <1>0. Entered(f, r, p) /\ Enter(f, r, p)
    BY EnterScope DEF BeginNested
  <1>1. /\ p \in openTx /\ p \in Flows \ {f} /\ p # NoFlow
        /\ pc' = [pc EXCEPT ![f] = "open"] /\ openTx' = openTx \cup {f}
        /\ tx' = [tx EXCEPT ![f] = [NewTx EXCEPT !.savepoint = TRUE, !.handle = conn]]
        /\ journal' = Append(journal, Frame(f)) /\ UNCHANGED conn
    BY <1>0 DEF BeginNested, isReentrant, Entered
  <1>2. /\ pc'[f] = "open" /\ \A g \in Flows \ {f} : pc'[g] = pc[g] /\ tx'[g] = tx[g]
        /\ tx'[f] = [done |-> FALSE, holding |-> FALSE, savepoint |-> TRUE, settled |-> FALSE, handle |-> conn]
        /\ conn \in Nat
    BY <1>1 DEF TypeOK, MutexType, TxType, NewTx
  <1>3. /\ pc[f] = "idle" /\ f \notin openTx /\ \A g \in Flows \ {f} : call'[g] = call[g]
        /\ call'[f].top = call[p].top
    BY <1>0, <1>1 DEF Entered
  <1>4. call'[f].top # f /\ call'[f].top \in Flows
    BY <1>1, <1>3, TopHolds
  <1>5. \A g \in Flows : Enclosed(g)'
    BY <1>0, <1>1, EnterEnclosed
  <1>6. \A g \in Flows : InUse(g)'
    <2>1. InUse(f)'
      <3>1. ~ tx'[f].done /\ tx'[f].savepoint /\ tx'[f].settled = tx'[f].done
        BY <1>2
      <3>2. f \in openTx'
        <4>1. openTx' = openTx \cup {f}
          BY <1>1
        <4> QED BY <4>1
      <3> QED BY <1>2, <1>4, <3>1, <3>2 DEF InUse, Working
    <2>2. \A g \in Flows \ {f} : InUse(g)'
      BY <1>1, <1>2, <1>3 DEF NestInv, InUse, Working
    <2> QED BY <2>1, <2>2
  <1>7. /\ DOMAIN journal' = DOMAIN journal \cup {Len(journal) + 1}
        /\ journal'[Len(journal) + 1] = Frame(f)
        /\ \A i \in DOMAIN journal : journal'[i] = journal[i] /\ i # Len(journal) + 1
        /\ journal' # <<>> /\ (journal # <<>> => 1 \in DOMAIN journal)
    BY <1>1 DEF TypeOK, EngineType
  <1>8. \A g \in Flows : Rooted(g)'
    BY <1>1, <1>2, <1>7 DEF NestInv, Rooted
  <1>9. Framed'
    <2>1. \A i \in DOMAIN journal :
             /\ journal[i].by \in Flows \ {f}
             /\ \A w \in journal[i].writes : w[1] \in Flows \ {f}
      BY <1>3, FrameWrites DEF NestInv, Framed, TypeOK, TxType, EngineType, WriteIds
    <2>2. ASSUME NEW i \in DOMAIN journal
          PROVE  /\ journal'[i].by \in openTx'
                 /\ tx'[journal'[i].by].handle = conn'
                 /\ \A w \in journal'[i].writes :
                       pc'[w[1]] # "idle" /\ call'[w[1]].top = call'[journal'[i].by].top
      BY <1>1, <1>2, <1>3, <1>7, <2>1 DEF NestInv, Framed
    <2>3. journal'[Len(journal) + 1].by = f /\ journal'[Len(journal) + 1].writes = {}
      BY <1>7 DEF Frame
    <2>4. \A i, j \in DOMAIN journal' : journal'[i].by = journal'[j].by => i = j
      BY <1>7, <2>1, <2>3 DEF NestInv, Framed
    <2>5. f \in openTx' /\ tx'[f].handle = conn'
      BY <1>1, <1>2
    <2> QED BY <1>7, <2>2, <2>3, <2>4, <2>5 DEF Framed
  <1> QED BY <1>5, <1>6, <1>8, <1>9 DEF NestInv

\* A call that asks for the lock is at top level.
LEMMA AskForLockNest ==
    ASSUME Awaits, TypeOK, LockInv, NestInv, NEW f \in Flows, NEW r, NEW p \in Flows \cup {NoFlow},
           AskForLock(f, r, p)
    PROVE  NestInv'
  <1>0. Entered(f, r, p) /\ Enter(f, r, p)
    BY EnterScope DEF AskForLock
  <1>1. /\ acquire(f) /\ ~ isReentrant(p)
        /\ tx' = [tx EXCEPT ![f].handle = conn]
        /\ UNCHANGED <<openTx, conn, journal>>
    BY DEF AskForLock, engineVars
  <1>2. PICK s \in {"waiting", "granted"} : pc' = [pc EXCEPT ![f] = s]
    BY <1>1 DEF acquire
  <1>3. /\ pc'[f] = s /\ \A g \in Flows \ {f} : pc'[g] = pc[g] /\ tx'[g] = tx[g]
        /\ tx'[f].done = tx[f].done /\ tx'[f].savepoint = tx[f].savepoint
        /\ tx'[f].settled = tx[f].settled /\ tx'[f].handle = conn /\ conn \in Nat
    BY <1>1, <1>2 DEF TypeOK, MutexType, TxType
  <1>4. /\ pc[f] = "idle" /\ f \notin openTx /\ \A g \in Flows \ {f} : call'[g] = call[g]
        /\ call'[f].top = f
    BY <1>0, <1>1 DEF Entered
  <1>5. \A g \in Flows : Enclosed(g)'
    BY <1>0, <1>1, <1>2, EnterEnclosed
  <1>6. \A g \in Flows : InUse(g)'
    <2>1. InUse(f)'
      BY <1>1, <1>3, <1>4 DEF NestInv, InUse, Working
    <2>2. \A g \in Flows \ {f} : InUse(g)'
      BY <1>1, <1>3, <1>4 DEF NestInv, InUse, Working
    <2> QED BY <2>1, <2>2
  <1>7. \A g \in Flows : Rooted(g)'
    BY <1>1, <1>3, <1>4 DEF NestInv, Rooted
  <1>8. Framed'
    <2>1. \A i \in DOMAIN journal :
             /\ journal[i].by \in Flows \ {f}
             /\ \A w \in journal[i].writes : w[1] \in Flows \ {f}
      BY <1>4, FrameWrites DEF NestInv, Framed, TypeOK, TxType, EngineType, WriteIds
    <2> QED BY <1>1, <1>3, <1>4, <2>1 DEF NestInv, Framed
  <1> QED BY <1>5, <1>6, <1>7, <1>8 DEF NestInv

\* A plain call inside a transaction writes in it.
LEMMA PlainJoinsNest ==
    ASSUME Awaits, TypeOK, LockInv, NestInv, NEW f \in Flows, NEW p \in Flows \cup {NoFlow},
           PlainJoins(f, p)
    PROVE  NestInv'
  <1>0. Entered(f, "plain", p) /\ Enter(f, "plain", p)
    BY EnterScope DEF PlainJoins
  <1>1. /\ p \in openTx /\ p \in Flows \ {f} /\ p # NoFlow
        /\ pc' = [pc EXCEPT ![f] = "draining"] /\ ExecWrite(<<f, written[f] + 1>>)
        /\ UNCHANGED <<openTx, tx, conn>>
    BY <1>0 DEF PlainJoins, ModelWrite, isReentrant, lockVars, Entered
  <1>2. /\ pc'[f] = "draining" /\ \A g \in Flows \ {f} : pc'[g] = pc[g]
    BY <1>1 DEF TypeOK, MutexType
  <1>3. /\ pc[f] = "idle" /\ f \notin openTx /\ \A g \in Flows \ {f} : call'[g] = call[g]
        /\ call'[f].top = call[p].top /\ call'[f].role = "plain"
    BY <1>0, <1>1 DEF Entered
  <1>4. Framed' /\ (journal # <<>> => journal' # <<>> /\ journal'[1].by = journal[1].by)
    BY <1>1, <1>2, <1>3, WriteFramed
  <1>5. \A g \in Flows : Enclosed(g)'
    BY <1>0, <1>1, EnterEnclosed
  <1>6. \A g \in Flows : InUse(g)'
    <2>1. InUse(f)'
      BY <1>1, <1>2, <1>3 DEF NestInv, InUse, Working
    <2>2. \A g \in Flows \ {f} : InUse(g)'
      BY <1>1, <1>2, <1>3 DEF NestInv, InUse, Working
    <2> QED BY <2>1, <2>2
  <1>7. \A g \in Flows : Rooted(g)'
    BY <1>1, <1>2, <1>4 DEF NestInv, Rooted
  <1> QED BY <1>4, <1>5, <1>6, <1>7 DEF NestInv

\* A call inside a transaction that SQLite refuses leaves no trace.
LEMMA JoinFailsNest ==
    ASSUME Awaits, TypeOK, LockInv, NestInv, NEW f \in Flows, NEW r, NEW p \in Flows \cup {NoFlow},
           JoinFails(f, r, p)
    PROVE  NestInv'
  <1>0. Entered(f, r, p) /\ Enter(f, r, p)
    BY EnterScope DEF JoinFails
  <1>1. pc' = [pc EXCEPT ![f] = "refused"] /\ UNCHANGED <<openTx, tx, conn, journal>>
    BY DEF JoinFails, lockVars, engineVars
  <1>2. /\ pc'[f] = "refused" /\ \A g \in Flows \ {f} : pc'[g] = pc[g]
        /\ pc[f] = "idle" /\ f \notin openTx /\ \A g \in Flows \ {f} : call'[g] = call[g]
    BY <1>0, <1>1 DEF Entered, TypeOK, MutexType
  <1>3. \A g \in Flows : Enclosed(g)'
    BY <1>0, <1>1, EnterEnclosed
  <1>4. ASSUME NEW g \in Flows PROVE InUse(g)' /\ Rooted(g)'
    BY <1>1, <1>2 DEF NestInv, InUse, Working, Rooted
  <1>5. Framed'
    <2>1. ASSUME NEW i \in DOMAIN journal
          PROVE  journal[i].by \in Flows \ {f} /\ \A w \in journal[i].writes : w[1] \in Flows
      BY <1>2, FrameWrites DEF NestInv, Framed, TypeOK, TxType, EngineType, Frames, WriteIds
    <2> QED BY <1>1, <1>2, <2>1 DEF NestInv, Framed
  <1> QED BY <1>3, <1>4, <1>5 DEF NestInv

-----------------------------------------------------------------------------
(* Every step keeps it. *)

\* BEGIN opens the first frame: the flow that has the lock finds none.
LEMMA BeginTopNest ==
    ASSUME Awaits, TypeOK, LockInv, NestInv, NEW f \in Flows, BeginTop(f)
    PROVE  NestInv'
  <1>1. /\ pc[f] = "granted" /\ tx[f].handle = conn /\ pc' = [pc EXCEPT ![f] = "open"]
        /\ journal' = <<Frame(f)>> /\ tx' = [tx EXCEPT ![f].holding = TRUE]
        /\ openTx' = openTx \cup {f} /\ UNCHANGED <<call, conn>>
    BY DEF BeginTop
  <1>2. openTx = {} /\ openTx' = {f}
    BY <1>1, GrantedClean
  <1>3. /\ pc'[f] = "open" /\ \A g \in Flows \ {f} : pc'[g] = pc[g] /\ tx'[g] = tx[g]
        /\ tx'[f].done = tx[f].done /\ tx'[f].savepoint = tx[f].savepoint
        /\ tx'[f].settled = tx[f].settled /\ tx'[f].handle = tx[f].handle /\ tx'[f].holding
    BY <1>1 DEF TypeOK, MutexType, TxType
  <1>4. \A g \in Flows : Enclosed(g)'
    BY <1>1, MoveAlone, EnclosedKeeps DEF Ended
  <1>5. call[f].top = f /\ ~ tx[f].done /\ ~ tx[f].savepoint /\ tx[f].settled = tx[f].done
    BY <1>1 DEF NestInv, InUse
  <1>6. InUse(f)'
    BY <1>1, <1>2, <1>3, <1>5 DEF InUse, Working
  <1>7. \A g \in Flows \ {f} : InUse(g)'
    BY <1>1, <1>2, <1>3 DEF NestInv, InUse, Working
  <1>8. /\ DOMAIN journal' = {1} /\ journal'[1].by = f /\ journal'[1].writes = {} /\ journal' # <<>>
    BY <1>1 DEF Frame
  <1>9. \A g \in Flows : Rooted(g)'
    BY <1>1, <1>2, <1>3, <1>8 DEF NestInv, Rooted
  <1>10. Framed'
    BY <1>1, <1>2, <1>3, <1>8 DEF Framed
  <1> QED BY <1>4, <1>6, <1>7, <1>9, <1>10 DEF NestInv

\* The steps that move one flow and leave the engine and the handles alone.
LEMMA QuietStep ==
    ASSUME Awaits, TypeOK, LockInv, NestInv, NEW f \in Flows,
           \/ BeginFails(f) \/ PlainWorks(f) \/ PlainFails(f) \/ CommitFails(f) \/ BodyThrows(f)
           \/ Deliver(f) \/ Drained(f)
           \/ Rollback(f) /\ UNCHANGED <<lockVars, tx, engineVars>> /\ pc' = [pc EXCEPT ![f] = "disposing"]
    PROVE  NestInv'
  <1>0. InUse(f)
    BY DEF NestInv
  <1>1. CASE BeginFails(f)
    BY <1>1, MoveAlone, QuietNest DEF BeginFails, Working, Ended, lockVars, engineVars
  <1>2. CASE PlainWorks(f)
    <2>1. journal = <<>> /\ pc[f] = "granted" /\ call[f].role = "plain" /\ releaseLock(f, "draining")
          /\ UNCHANGED <<call, openTx, tx, conn>> /\ ExecWrite(<<f, written[f] + 1>>)
      BY <1>2, GrantedClean DEF PlainWorks, ModelWrite
    <2>2. UNCHANGED journal /\ Moves(f, "draining")
      BY <2>1, ReleaseMoves DEF ExecWrite
    <2> QED BY <2>1, <2>2, QuietNest DEF Working, Ended
  <1>7. CASE PlainFails(f)
    <2>1. pc[f] = "granted" /\ Moves(f, "refused") /\ UNCHANGED <<call, openTx, tx, conn, journal>>
      BY <1>7, ReleaseMoves DEF PlainFails, engineVars
    <2> QED BY <2>1, QuietNest DEF Working, Ended
  <1>3. CASE CommitFails(f) \/ BodyThrows(f)
    BY <1>3, MoveAlone, QuietNest DEF CommitFails, BodyThrows, Returns, Working, Ended, lockVars, engineVars
  <1>4. CASE Deliver(f)
    <2>1. pc' = [pc EXCEPT ![f] = "draining"] /\ pc[f] = "draining"
      BY <1>4 DEF Deliver, TypeOK, MutexType
    <2>2. call[f].role = "manual" => tx[f].done
      BY <1>0, <2>1 DEF InUse
    <2> QED BY <1>4, <2>1, <2>2, MoveAlone, QuietNest DEF Deliver, Working, Ended, lockVars, engineVars
  <1>5. CASE Drained(f)
    <2>1. pc[f] = "draining" /\ (call[f].role = "manual" => tx[f].done)
          /\ UNCHANGED <<call, openTx, tx, conn, journal>>
      BY <1>0, <1>5 DEF Drained, InUse, lockVars, engineVars
    <2>2. CASE call[f].role = "manual"
      <3>1. Moves(f, "open")
        BY <1>5, <2>2, MoveAlone DEF Drained
      <3> QED BY <2>1, <2>2, <3>1, QuietNest DEF Working, Ended
    <2>3. CASE call[f].role # "manual"
      <3>1. Moves(f, "resolved")
        BY <1>5, <2>3, MoveAlone DEF Drained
      <3> QED BY <2>1, <2>3, <3>1, QuietNest DEF Working, Ended
    <2> QED BY <2>2, <2>3
  <1>6. CASE Rollback(f) /\ UNCHANGED <<lockVars, tx, engineVars>> /\ pc' = [pc EXCEPT ![f] = "disposing"]
    BY <1>6, MoveAlone, QuietNest DEF Rollback, Working, Ended, lockVars, engineVars
  <1> QED BY <1>1, <1>2, <1>3, <1>4, <1>5, <1>6, <1>7

\* A step that leaves all of it as it is.
LEMMA SameNest ==
    ASSUME NestInv, UNCHANGED <<pc, call, lockVars, tx, conn, journal>>
    PROVE  NestInv'
  <1>1. \A g \in Flows : Enclosed(g)' /\ InUse(g)'
    BY DEF NestInv, Enclosed, Active, InUse, Working, lockVars
  <1>2. \A g \in Flows : Rooted(g)'
    BY DEF NestInv, Rooted, lockVars
  <1>3. Framed'
    BY DEF NestInv, Framed, lockVars
  <1> QED BY <1>1, <1>2, <1>3 DEF NestInv

\* The dispose of a handle.
LEMMA DisposeNest ==
    ASSUME Awaits, TypeOK, LockInv, NestInv, UNCHANGED <<call, conn>>, NEW f \in Flows,
           NEW s \in Ended, pc[f] \in {"open", "disposing", "disposed"},
           call[f].role = "callback" => pc[f] # "open", dispose(f, s)
    PROVE  NestInv'
  <1>1. s # "open"
    BY DEF Ended
  <1> QED BY <1>1, SettleNest DEF dispose

\* One step per action of a call.
LEMMA ContinuesNest ==
    ASSUME Awaits, TypeOK, LockInv, NestInv, NEW f \in Flows, Continues(f)
    PROVE  NestInv'
  <1>1. CASE BeginTop(f)
    BY <1>1, BeginTopNest
  <1>2. CASE \/ BeginFails(f) \/ PlainWorks(f) \/ PlainFails(f) \/ CommitFails(f) \/ BodyThrows(f)
             \/ Deliver(f) \/ Drained(f)
    BY <1>2, QuietStep
  <1>3. CASE BodyWrites(f)
    BY <1>3, BodyWritesNest
  <1>4. CASE Commit(f)
    <2>1. txCommit(f, "draining") /\ pc[f] = "open" /\ Returns(f) /\ UNCHANGED <<call, conn>>
      BY <1>4 DEF Commit, Returns
    <2> QED BY <2>1, SettleNest DEF Ended
  <1>5. CASE Rollback(f)
    <2>1. pc[f] = "catching" /\ UNCHANGED <<call, conn>>
      BY <1>5 DEF Rollback
    <2>2. CASE txRollback(f, "rejected")
      BY <2>1, <2>2, SettleNest DEF Ended
    <2>3. CASE ~ txRollback(f, "rejected")
      BY <1>5, <2>3, QuietStep DEF Rollback
    <2> QED BY <2>2, <2>3
  <1>6. CASE Dispose(f)
    <2>1. pc[f] = "disposing" /\ UNCHANGED <<call, conn>> /\ dispose(f, "rejected") /\ "rejected" \in Ended
      BY <1>6 DEF Dispose, Ended
    <2> QED BY <2>1, DisposeNest
  <1>7. CASE HandleCommit(f)
    <2>1. pc[f] = "open" /\ call[f].role = "manual" /\ UNCHANGED <<call, conn>>
      BY <1>7 DEF HandleCommit, ManualCall
    <2>2. CASE txCommit(f, "draining")
      BY <2>1, <2>2, SettleNest DEF Ended
    <2>3. CASE ~ txCommit(f, "draining")
      BY <1>7, <2>3, SameNest DEF HandleCommit, engineVars
    <2> QED BY <2>2, <2>3
  <1>8. CASE HandleRollback(f)
    <2>1. pc[f] = "open" /\ call[f].role = "manual" /\ UNCHANGED <<call, conn>>
      BY <1>8 DEF HandleRollback, ManualCall
    <2>2. CASE txRollback(f, "open")
      BY <2>1, <2>2, SettleNest DEF Ended
    <2>3. CASE ~ txRollback(f, "open")
      BY <1>8, <2>3, SameNest DEF HandleRollback, engineVars
    <2> QED BY <2>2, <2>3
  <1>9. CASE HandleDispose(f)
    <2>1. /\ pc[f] \in {"open", "disposed"} /\ call[f].role = "manual" /\ UNCHANGED <<call, conn>>
          /\ dispose(f, "disposed") /\ "disposed" \in Ended
      BY <1>9 DEF HandleDispose, Ended
    <2> QED BY <2>1, DisposeNest
  <1> QED BY <1>1, <1>2, <1>3, <1>4, <1>5, <1>6, <1>7, <1>8, <1>9 DEF Continues

\* close() drops the journal and retires every handle.
LEMMA CloseNest ==
    ASSUME TypeOK, NestInv, Close
    PROVE  NestInv'
  <1>1. UNCHANGED <<pc, call, lockVars, tx>> /\ conn' = conn + 1 /\ journal' = <<>>
    BY DEF Close
  <1>2. \A g \in Flows : Enclosed(g)' /\ InUse(g)'
    BY <1>1 DEF NestInv, Enclosed, Active, InUse, Working, lockVars
  <1>3. \A g \in Flows : Rooted(g)'
    BY <1>1 DEF NestInv, Rooted, TypeOK, TxType
  <1>4. Framed'
    BY <1>1 DEF Framed
  <1> QED BY <1>2, <1>3, <1>4 DEF NestInv

\* Every step of the driver.
LEMMA NextNest ==
    ASSUME Awaits
    PROVE  TypeOK /\ LockInv /\ NestInv /\ [Next]_vars => NestInv'
  <1> SUFFICES ASSUME TypeOK, LockInv, NestInv, [Next]_vars PROVE NestInv'
    OBVIOUS
  <1>1. ASSUME NEW f \in Flows, Starts(f) PROVE NestInv'
    BY <1>1, BeginNestedNest, JoinFailsNest, AskForLockNest, PlainJoinsNest DEF Starts
  <1>2. ASSUME NEW f \in Flows, Continues(f) PROVE NestInv'
    BY <1>2, ContinuesNest
  <1>3. CASE Close
    BY <1>3, CloseNest
  <1>4. CASE UNCHANGED vars
    BY <1>4, SameNest DEF vars, engineVars
  <1> QED BY <1>1, <1>2, <1>3, <1>4 DEF Next, Quiescent

\* Nothing is open at the start.
LEMMA InitNest == Init => NestInv
  <1> SUFFICES ASSUME Init PROVE NestInv
    OBVIOUS
  <1>1. ASSUME NEW f \in Flows PROVE Enclosed(f) /\ InUse(f) /\ Rooted(f)
    <2>1. /\ pc[f] = "idle" /\ call[f].top = f /\ openTx = {} /\ conn = 0
          /\ call[f].role = "none"
      BY DEF Init
    <2>2. ~ tx[f].done /\ ~ tx[f].savepoint /\ tx[f].settled = tx[f].done /\ tx[f].handle = 0
      BY DEF Init, NewTx
    <2> QED BY <2>1, <2>2 DEF Enclosed, Active, InUse, Working, Rooted
  <1>2. Framed
    BY DEF Init, Framed
  <1> QED BY <1>1, <1>2 DEF NestInv

-----------------------------------------------------------------------------
(* What follows. *)

\* What is in the engine's open transaction was written by the transaction that
\* has the lock or by calls nested in it, as long as callbacks await what they
\* start: no write of a concurrent call is caught in it, at any depth of nesting,
\* whatever fails and whenever the driver is closed.
THEOREM IsolationCorrect ==
    ASSUME Awaits
    PROVE  Spec => []Isolation
  <1>1. TypeOK /\ NestInv => Isolation
    <2> SUFFICES ASSUME TypeOK, NestInv, NEW i \in DOMAIN journal
                 PROVE  \E h \in Flows :
                           /\ Holds(h) /\ call[journal[i].by].top = h
                           /\ \A w \in journal[i].writes : call[w[1]].top = h
      BY DEF Isolation
    <2>1. journal[i].by \in openTx
      BY DEF NestInv, Framed
    <2> DEFINE t == call[journal[i].by].top
    <2>2. t \in Flows /\ Holds(t)
      BY <2>1, TopHolds
    <2>3. \A w \in journal[i].writes : call[w[1]].top = t
      BY DEF NestInv, Framed
    <2> QED BY <2>2, <2>3
  <1>2. TypeOK /\ LockInv /\ NestInv /\ [Next]_vars => NestInv'
    BY NextNest
  <1> QED BY <1>1, <1>2, InitNest, TypeCorrect, LockCorrect, PTL DEF Spec

\* A flow that does not have the lock moves, and the lock stays where it is.
LEMMA MoveOwned ==
    ASSUME LockIsOwned, locked' = locked, NEW f \in Flows, ~ Holds(f),
           \A g \in Flows \ {f} : Holds(g) => Holds(g)'
    PROVE  LockIsOwned'
  BY DEF LockIsOwned

\* A flow moves on and keeps what it has of the lock.
LEMMA StayOwned ==
    ASSUME TypeOK, LockIsOwned, UNCHANGED <<locked, tx>>, NEW f \in Flows, NEW s,
           pc[f] # "granted", pc' = [pc EXCEPT ![f] = s]
    PROVE  LockIsOwned'
  <1>1. \A g \in Flows : Holds(g) => Holds(g)'
    BY DEF Holds, TypeOK, MutexType
  <1> QED BY <1>1 DEF LockIsOwned

\* Who asks for a free lock has it.
LEMMA AcquireOwned ==
    ASSUME TypeOK, LockInv, LockIsOwned, NEW f \in Flows, pc[f] = "idle", acquire(f),
           \A g \in Flows : tx'[g].holding = tx[g].holding
    PROVE  LockIsOwned'
  <1>1. CASE locked
    <2>1. ~ Holds(f)
      BY DEF Holds, LockInv, HoldersAreOpen
    <2>2. \A g \in Flows \ {f} : Holds(g) => Holds(g)'
      BY <1>1 DEF acquire, Holds, TypeOK, MutexType
    <2>3. locked' = locked
      BY <1>1 DEF acquire
    <2> QED BY <2>1, <2>2, <2>3, MoveOwned
  <1>2. CASE ~ locked
    <2>1. pc'[f] = "granted"
      BY <1>2 DEF acquire, TypeOK, MutexType
    <2> QED BY <2>1 DEF LockIsOwned, Holds
  <1> QED BY <1>1, <1>2

\* A lock that is given back is free, or the first waiter's.
LEMMA ReleaseOwned ==
    ASSUME TypeOK, NEW f \in Flows, NEW s, releaseLock(f, s)
    PROVE  LockIsOwned'
  <1>1. CASE waiters = <<>>
    BY <1>1 DEF releaseLock, LockIsOwned
  <1>2. CASE waiters # <<>>
    <2>1. Head(waiters) \in Flows
      BY <1>2 DEF TypeOK, MutexType
    <2>2. pc' = [pc EXCEPT ![f] = s, ![Head(waiters)] = "granted"]
      BY <1>2 DEF releaseLock
    <2>3. pc'[Head(waiters)] = "granted"
      BY <2>1, <2>2 DEF TypeOK, MutexType
    <2> QED BY <2>1, <2>3 DEF LockIsOwned, Holds
  <1> QED BY <1>1, <1>2

\* Ending a transaction gives back the lock it has, and no other's.
LEMMA UnlockOwned ==
    ASSUME TypeOK, LockIsOwned, NEW f \in Flows, NEW s, pc[f] # "granted", unlock(f, s),
           \A g \in Flows \ {f} : tx'[g] = tx[g]
    PROVE  LockIsOwned'
  <1>1. CASE tx[f].holding
    BY <1>1, ReleaseOwned DEF unlock
  <1>2. CASE ~ tx[f].holding
    <2>1. pc' = [pc EXCEPT ![f] = s] /\ locked' = locked
      BY <1>2 DEF unlock
    <2>2. \A g \in Flows \ {f} : Holds(g) => Holds(g)'
      BY <2>1 DEF Holds, TypeOK, MutexType
    <2>3. ~ Holds(f)
      BY <1>2 DEF Holds
    <2> QED BY <2>1, <2>2, <2>3, MoveOwned
  <1> QED BY <1>1, <1>2

\* So do commit(), rollback() and the dispose.
LEMMA SettleOwned ==
    ASSUME TypeOK, LockIsOwned, NEW f \in Flows, NEW s, pc[f] # "granted",
           txCommit(f, s) \/ txRollback(f, s) \/ dispose(f, s)
    PROVE  LockIsOwned'
  <1>1. unlock(f, s)
    BY DEF txCommit, txRollback, txRelease, dispose
  <1>2. \A g \in Flows \ {f} : tx'[g] = tx[g]
    BY DEF txCommit, txRollback, txRelease, dispose, TypeOK, TxType
  <1> QED BY <1>1, <1>2, UnlockOwned

\* A new call.
LEMMA StartsOwned ==
    ASSUME TypeOK, LockInv, LockIsOwned, NEW f \in Flows, Starts(f)
    PROVE  LockIsOwned'
  <1>1. pc[f] = "idle"
    BY DEF Starts, BeginNested, JoinFails, AskForLock, PlainJoins, Enter
  <1>2. ~ Holds(f)
    BY <1>1 DEF Holds, LockInv, HoldersAreOpen
  <1>3. ASSUME NEW r \in Roles, NEW p \in Flows \cup {NoFlow}, BeginNested(f, r, p)
        PROVE  LockIsOwned'
    <2>1. \A g \in Flows \ {f} : pc'[g] = pc[g] /\ tx'[g] = tx[g]
      BY <1>3 DEF BeginNested, TypeOK, MutexType, TxType
    <2>2. locked' = locked
      BY <1>3 DEF BeginNested
    <2> QED BY <1>2, <2>1, <2>2, MoveOwned DEF Holds
  <1>4. ASSUME NEW r \in Roles, NEW p \in Flows \cup {NoFlow}, AskForLock(f, r, p)
        PROVE  LockIsOwned'
    <2>1. \A g \in Flows : tx'[g].holding = tx[g].holding
      BY <1>4 DEF AskForLock, TypeOK, TxType
    <2> QED BY <1>1, <1>4, <2>1, AcquireOwned DEF AskForLock
  <1>5. ASSUME NEW p \in Flows \cup {NoFlow}, PlainJoins(f, p) PROVE LockIsOwned'
    BY <1>1, <1>5, StayOwned DEF PlainJoins, lockVars
  <1>6. ASSUME NEW r \in Roles, NEW p \in Flows \cup {NoFlow}, JoinFails(f, r, p)
        PROVE  LockIsOwned'
    BY <1>1, <1>6, StayOwned DEF JoinFails, lockVars
  <1> QED BY <1>3, <1>4, <1>5, <1>6 DEF Starts

\* One step per action of a call, when no BEGIN fails.
LEMMA ContinuesOwned ==
    ASSUME TypeOK, LockInv, LockIsOwned, NEW f \in Flows, Continues(f), ~ BeginFails(f)
    PROVE  LockIsOwned'
  <1>1. CASE BeginTop(f)
    <2>1. tx'[f].holding
      BY <1>1 DEF BeginTop, TypeOK, TxType
    <2> QED BY <2>1 DEF LockIsOwned, Holds
  <1>2. CASE PlainWorks(f) \/ PlainFails(f)
    BY <1>2, ReleaseOwned DEF PlainWorks, PlainFails
  <1>3. CASE BodyWrites(f) \/ Deliver(f)
    BY <1>3 DEF BodyWrites, Deliver, lockVars, LockIsOwned, Holds
  <1>4. CASE Commit(f)
    BY <1>4, SettleOwned DEF Commit, Returns
  <1>5. CASE CommitFails(f) \/ BodyThrows(f)
    BY <1>5, StayOwned DEF CommitFails, BodyThrows, Returns, lockVars
  <1>6. CASE Rollback(f)
    <2>1. pc[f] = "catching"
      BY <1>6 DEF Rollback
    <2>2. CASE txRollback(f, "rejected")
      BY <2>1, <2>2, SettleOwned
    <2>3. CASE ~ txRollback(f, "rejected")
      <3>1. pc' = [pc EXCEPT ![f] = "disposing"] /\ UNCHANGED <<locked, tx>>
        BY <1>6, <2>3 DEF Rollback, lockVars
      <3> QED BY <2>1, <3>1, StayOwned
    <2> QED BY <2>2, <2>3
  <1>7. CASE Dispose(f)
    BY <1>7, SettleOwned DEF Dispose
  <1>8. CASE Drained(f)
    <2>1. PICK s : pc' = [pc EXCEPT ![f] = s]
      BY <1>8 DEF Drained
    <2>2. pc[f] # "granted" /\ UNCHANGED <<locked, tx>>
      BY <1>8 DEF Drained, lockVars
    <2> QED BY <2>1, <2>2, StayOwned
  <1>9. CASE HandleCommit(f)
    <2>1. CASE txCommit(f, "draining")
      BY <1>9, <2>1, SettleOwned DEF HandleCommit, ManualCall
    <2>2. CASE ~ txCommit(f, "draining")
      BY <1>9, <2>2 DEF HandleCommit, lockVars, LockIsOwned, Holds
    <2> QED BY <2>1, <2>2
  <1>10. CASE HandleRollback(f)
    <2>1. CASE txRollback(f, "open")
      BY <1>10, <2>1, SettleOwned DEF HandleRollback, ManualCall
    <2>2. CASE ~ txRollback(f, "open")
      BY <1>10, <2>2 DEF HandleRollback, lockVars, LockIsOwned, Holds
    <2> QED BY <2>1, <2>2
  <1>11. CASE HandleDispose(f)
    BY <1>11, SettleOwned DEF HandleDispose
  <1> QED BY <1>1, <1>2, <1>3, <1>4, <1>5, <1>6, <1>7, <1>8, <1>9, <1>10, <1>11 DEF Continues

\* A taken lock is some flow's, which will give it back, as long as BEGIN is not
\* refused and nobody closes the driver: then a flow that is handed the lock always
\* gets its transaction.
THEOREM OwnerCorrect ==
    ASSUME Awaits, "begin" \notin Faults, MaxCloses = 0
    PROVE  Spec => []LockIsOwned
  <1> DEFINE Current == conn = 0 /\ \A f \in Flows : tx[f].handle = 0
  <1>1. Init => Current /\ LockIsOwned
    BY DEF Init, NewTx, LockIsOwned
  <1>2. TypeOK /\ Current /\ [Next]_vars => Current'
    <2> SUFFICES ASSUME TypeOK, Current, [Next]_vars PROVE Current'
      OBVIOUS
    <2>1. ASSUME NEW f \in Flows, Starts(f) PROVE Current'
      BY <2>1 DEF Starts, BeginNested, JoinFails, AskForLock, PlainJoins, NewTx, TypeOK, TxType
    <2>2. ASSUME NEW f \in Flows, Continues(f) PROVE Current'
      BY <2>2 DEF Continues, BeginTop, BeginFails, PlainWorks, PlainFails, BodyWrites, Commit, CommitFails, BodyThrows,
         Rollback, Dispose, Deliver, Drained, HandleCommit, HandleRollback, HandleDispose, dispose,
         txCommit, txRollback, txRelease, TypeOK, TxType
    <2>3. CASE UNCHANGED vars
      BY <2>3 DEF vars
    <2> QED BY <2>1, <2>2, <2>3 DEF Next, Close, Quiescent
  <1>3. TypeOK /\ LockInv /\ NestInv /\ Current /\ LockIsOwned /\ [Next]_vars => LockIsOwned'
    <2> SUFFICES ASSUME TypeOK, LockInv, NestInv, Current, LockIsOwned, [Next]_vars PROVE LockIsOwned'
      OBVIOUS
    <2>1. ASSUME NEW f \in Flows, Starts(f) PROVE LockIsOwned'
      BY <2>1, StartsOwned
    <2>2. ASSUME NEW f \in Flows, Continues(f) PROVE LockIsOwned'
      <3>1. ~ BeginFails(f)
        BY GrantedClean DEF BeginFails
      <3> QED BY <2>2, <3>1, ContinuesOwned
    <2>3. ~ Close
      BY DEF Close
    <2>4. CASE UNCHANGED vars
      BY <2>4 DEF vars, lockVars, LockIsOwned, Holds
    <2> QED BY <2>1, <2>2, <2>3, <2>4 DEF Next, Quiescent
  <1>4. TypeOK /\ LockInv /\ NestInv /\ [Next]_vars => NestInv'
    BY NextNest
  <1> QED BY <1>1, <1>2, <1>3, <1>4, InitNest, TypeCorrect, LockCorrect, PTL DEF Spec

-----------------------------------------------------------------------------
(* SqliteTx implements TxStore (SqliteTxStore), when callbacks await the   *)
(* calls and writes they start (Awaits): until the driver is closed, each  *)
(* of its steps is a step of the abstract store or leaves it alone.        *)
(*                                                                         *)
(* And what becomes of a transaction (AtomicOutcome, TopHooksAreDurable):  *)
(* when calls are awaited one at a time and nobody closes the driver, it   *)
(* is all or nothing as its caller was told, at any depth.                 *)

\* What the refinement needs besides NestInv: writes are numbered, so that a new
\* one is not among the old, and a transaction that is done has not got the lock.
MadeInv ==
    /\ \A w \in durable \cup WritesIn(journal) : w[2] <= written[w[1]]
    /\ \A f \in Flows : tx[f].done => ~ tx[f].holding

-----------------------------------------------------------------------------
(* The writes in the journal. *)

\* A journal that is trimmed holds no new ones.
LEMMA TrimsWrites ==
    ASSUME NEW f, Trims(f)
    PROVE  WritesIn(journal') \subseteq WritesIn(journal)
  BY DEF Trims, WritesIn

\* Nor does a savepoint add any.
LEMMA FrameAdds ==
    ASSUME TypeOK, NEW f, journal' = Append(journal, Frame(f))
    PROVE  WritesIn(journal') = WritesIn(journal)
  <1>1. /\ DOMAIN journal' = DOMAIN journal \cup {Len(journal) + 1}
        /\ journal'[Len(journal) + 1].writes = {}
        /\ \A i \in DOMAIN journal : journal'[i] = journal[i]
    BY DEF TypeOK, EngineType, Frame
  <1> QED BY <1>1 DEF WritesIn

\* A write adds itself, to the open transaction if there is one.
LEMMA WriteAdds ==
    ASSUME TypeOK, NEW w, ExecWrite(w)
    PROVE  IF journal = <<>> THEN journal' = <<>> /\ durable' = durable \cup {w}
           ELSE WritesIn(journal') = WritesIn(journal) \cup {w} /\ durable' = durable
  <1>1. CASE journal = <<>>
    BY <1>1 DEF ExecWrite
  <1>2. CASE journal # <<>>
    <2>1. /\ journal' = [journal EXCEPT ![Len(journal)].writes = @ \cup {w}]
          /\ Len(journal) \in DOMAIN journal /\ durable' = durable
      BY <1>2 DEF ExecWrite, TypeOK, EngineType
    <2>2. \A i \in DOMAIN journal : journal[i] \in Frames
      BY DEF TypeOK, EngineType
    <2>3. /\ DOMAIN journal' = DOMAIN journal
          /\ \A i \in DOMAIN journal :
                journal'[i].writes = IF i = Len(journal) THEN journal[i].writes \cup {w}
                                     ELSE journal[i].writes
      BY <2>1, <2>2 DEF Frames
    <2> QED BY <1>2, <2>1, <2>3 DEF WritesIn
  <1> QED BY <1>1, <1>2

\* They were all made under the transaction that has the lock.
LEMMA JournalWrites ==
    ASSUME TypeOK, LockInv, NestInv, NEW w \in WritesIn(journal)
    PROVE  /\ w \in WriteIds /\ w[1] \in Flows /\ pc[w[1]] # "idle"
           /\ \A h \in Flows : Holds(h) => call[w[1]].top = h
  <1>1. PICK i \in DOMAIN journal : w \in journal[i].writes
    BY DEF WritesIn
  <1>2. w \in WriteIds
    BY <1>1, FrameWrites DEF TypeOK, EngineType
  <1>3. /\ journal[i].by \in openTx /\ pc[w[1]] # "idle"
        /\ call[w[1]].top = call[journal[i].by].top
    BY <1>1 DEF NestInv, Framed
  <1> QED BY <1>2, <1>3, OneTop DEF WriteIds

-----------------------------------------------------------------------------
(* What the mapping makes of a state. *)

\* Who holds the lock is the owner.
LEMMA OwnerIs ==
    ASSUME LockInv, NEW f \in Flows, Holds(f)
    PROVE  ownerOf = f
  BY DEF ownerOf, LockInv, MutualExclusion

\* So it is after a step.
LEMMA OwnerBecomes ==
    ASSUME LockInv', NEW f \in Flows, Holds(f)'
    PROVE  ownerOf' = f
  BY DEF ownerOf, LockInv, MutualExclusion

\* When nobody has the lock there is no owner.
LEMMA OwnerIsNone ==
    /\ (\A f \in Flows : ~ Holds(f)) => ownerOf = NoFlow
    /\ (\A f \in Flows : ~ Holds(f)') => ownerOf' = NoFlow
  BY DEF ownerOf

\* A step that moves the lock to nobody keeps the owner.
LEMMA OwnerStays ==
    ASSUME LockInv, LockInv', \A g \in Flows : Holds(g)' <=> Holds(g)
    PROVE  ownerOf' = ownerOf
  <1>1. CASE \E g \in Flows : Holds(g)
    BY <1>1, OwnerIs, OwnerBecomes
  <1>2. CASE \A g \in Flows : ~ Holds(g)
    BY <1>2, OwnerIsNone
  <1> QED BY <1>1, <1>2

\* An owner that lets go of the lock is followed by another flow or none.
LEMMA OwnerLeaves ==
    ASSUME LockInv, LockInv', NEW f \in Flows, Holds(f), ~ Holds(f)'
    PROVE  ownerOf = f /\ ownerOf' \in (Flows \cup {NoFlow}) \ {ownerOf}
  <1>1. ownerOf = f /\ f # NoFlow
    BY OwnerIs, FlowsAssumption
  <1>2. CASE \E g \in Flows : Holds(g)'
    BY <1>1, <1>2, OwnerBecomes
  <1>3. CASE \A g \in Flows : ~ Holds(g)'
    BY <1>1, <1>3, OwnerIsNone
  <1> QED BY <1>2, <1>3

\* What is staged follows the writes in the journal.
LEMMA StagedFollows ==
    ASSUME TypeOK, LockInv, NestInv, \A g \in Flows : pc[g] # "idle" => call'[g] = call[g]
    PROVE  /\ WritesIn(journal') \subseteq WritesIn(journal) => stagedWrites' \subseteq stagedWrites
           /\ WritesIn(journal') = WritesIn(journal) => stagedWrites' = stagedWrites
  <1>1. \A w \in WritesIn(journal) : call'[w[1]].top = call[w[1]].top
    BY JournalWrites
  <1> QED BY <1>1 DEF stagedWrites

\* They are the writes in the journal.
LEMMA StagedAre == {x[2] : x \in stagedWrites} = WritesIn(journal)
  <1> DEFINE staged(w) == <<call[w[1]].top, w>>
  <1>1. \A w : staged(w)[2] = w
    OBVIOUS
  <1>2. stagedWrites = {staged(w) : w \in WritesIn(journal)}
    BY DEF stagedWrites
  <1> HIDE DEF staged
  <1> QED BY <1>1, <1>2

\* A step that leaves the promise as it is.
LEMMA StepStutters ==
    ASSUME ownerOf' = ownerOf, stagedWrites' = stagedWrites, UNCHANGED <<durable, conn>>
    PROVE  [Store!Next]_(Store!vars)
  BY DEF Store!vars

-----------------------------------------------------------------------------
(* The end of a transaction settles the owner, or undoes what is nested.    *)

\* The owner of a database handle that close() left alone is its journal's first.
LEMMA OwnerEnds ==
    ASSUME TypeOK, LockInv, NestInv, MadeInv, conn = 0, NEW f \in Flows, tx[f].holding
    PROVE  /\ f \in openTx /\ ~ tx[f].done /\ ~ tx[f].savepoint
           /\ CanEnd(f) /\ journal # <<>> /\ journal[1].by = f
  <1>1. pc[f] \in {"open", "catching", "disposing"} /\ ~ tx[f].done /\ InUse(f) /\ Rooted(f) /\ Holds(f)
    BY DEF LockInv, HoldersAreOpen, MadeInv, NestInv, Holds
  <1>2. f \in openTx
    BY <1>1 DEF InUse, Working
  <1>3. call[f].top = f
    BY <1>1, <1>2, OneTop
  <1>4. ~ tx[f].savepoint
    BY <1>1, <1>2, <1>3 DEF InUse
  <1>5. tx[f].handle = conn
    BY <1>1 DEF Rooted, TypeOK, TxType
  <1>6. journal # <<>> /\ journal[1].by = f
    BY <1>1, <1>2, <1>4, <1>5 DEF Rooted
  <1> QED BY <1>1, <1>2, <1>4, <1>5, <1>6 DEF CanEnd

\* RELEASE of a savepoint commits nothing, since a BEGIN is below it.
LEMMA SavepointBelow ==
    ASSUME TypeOK, LockInv, NestInv, MadeInv, conn = 0, NEW f \in openTx, tx[f].savepoint, CanEnd(f)
    PROVE  Below(f) # <<>>
  <1>0. f \in Flows /\ EngineType
    BY DEF TypeOK, TxType
  <1> DEFINE t == call[f].top
  <1>1. t \in Flows /\ tx[t].holding
    BY TopHolds
  <1>2. journal[1].by = t /\ ~ tx[t].savepoint /\ journal # <<>>
    BY <1>1, OwnerEnds
  <1>3. HasFrame(f)
    BY DEF CanEnd
  <1>4. /\ Level(f) \in DOMAIN journal /\ journal[Level(f)].by = f
        /\ Len(Below(f)) = Level(f) - 1
    BY <1>0, <1>3, BelowType DEF HasFrame, Level
  <1>5. Level(f) # 1
    <2>1. t # f
      BY <1>2
    <2> QED BY <1>2, <1>4, <2>1
  <1> QED BY <1>0, <1>4, <1>5 DEF EngineType

\* tx.commit(), tx.rollback() and the dispose of a handle.
LEMMA SettleStore ==
    ASSUME TypeOK, LockInv, LockInv', NestInv, MadeInv, conn = 0, UNCHANGED <<call, conn>>,
           NEW f \in Flows, pc[f] \in {"open", "catching", "disposing", "disposed"},
           NEW s \in {"draining", "open"} \cup Ended,
           txCommit(f, s) \/ txRollback(f, s) \/ dispose(f, s)
    PROVE  [Store!Next]_(Store!vars)
  <1>1. InUse(f)
    BY DEF NestInv
  <1>2. \/ txCommit(f, s) \/ txRollback(f, s)
        \/ txRelease(f, s) /\ (tx[f].settled \/ RollbackThrows(f))
    BY DEF dispose
  <1>3. /\ Trims(f) /\ durable' \in {durable, durable \cup WritesIn(journal)}
        /\ unlock(f, s) /\ Moves(f, s)
    <2>1. unlock(f, s)
      BY <1>2 DEF txCommit, txRollback, txRelease
    <2>2. Moves(f, s)
      BY <2>1, UnlockMoves
    <2> QED BY <1>2, <2>1, <2>2, SettleTrims
  <1>4. /\ WritesIn(journal') \subseteq WritesIn(journal) /\ stagedWrites' \subseteq stagedWrites
        /\ WritesIn(journal') = WritesIn(journal) => stagedWrites' = stagedWrites
    BY <1>3, TrimsWrites, StagedFollows
  <1>5. s # "granted" /\ pc[f] # "granted"
    BY DEF Ended
  <1>6. \A g \in Flows \ {f} : tx'[g] = tx[g]
    BY <1>2 DEF txCommit, txRollback, txRelease, TypeOK, TxType
  <1>7. CASE tx[f].holding
    <2>1. f \in openTx /\ ~ tx[f].done /\ ~ tx[f].savepoint /\ CanEnd(f)
      BY <1>7, OwnerEnds
    <2>2. ~ (tx[f].settled \/ RollbackThrows(f))
      BY <1>1, <2>1 DEF InUse, RollbackThrows
    <2>3. (txCommit(f, s) \/ txRollback(f, s)) /\ journal' = <<>>
      BY <1>2, <2>1, <2>2 DEF txCommit, txRollback, ExecCommit, ExecRollback
    <2>4. stagedWrites' = {}
      BY <2>3 DEF stagedWrites, WritesIn
    <2>5. {x[2] : x \in stagedWrites} = WritesIn(journal)
      BY StagedAre
    <2>6. Holds(f)
      BY <1>7 DEF Holds
    <2>7. ~ Holds(f)'
      BY <1>3, <1>5, <2>3 DEF Moves, Holds, txCommit, txRollback, TypeOK, TxType
    <2>8. ownerOf # NoFlow /\ ownerOf' \in (Flows \cup {NoFlow}) \ {ownerOf}
      BY <2>6, <2>7, OwnerLeaves, FlowsAssumption
    <2> QED BY <1>3, <2>4, <2>5, <2>8 DEF Store!Next, Store!Settle
  <1>8. CASE ~ tx[f].holding
    <2>1. pc' = [pc EXCEPT ![f] = s] /\ ~ tx'[f].holding
      BY <1>2, <1>3, <1>8 DEF unlock, txCommit, txRollback, txRelease, TypeOK, TxType
    <2>2. \A g \in Flows : Holds(g)' <=> Holds(g)
      BY <1>5, <1>6, <1>8, <2>1 DEF Holds, TypeOK, MutexType
    <2>3. ownerOf' = ownerOf
      BY <2>2, OwnerStays
    <2>4. CASE UNCHANGED engineVars
      BY <1>4, <2>3, <2>4, StepStutters DEF engineVars
    <2>5. CASE ~ UNCHANGED engineVars
      <3>1. CanEnd(f) /\ ~ tx[f].done /\ (ExecCommit(f) \/ ExecRollback(f))
        BY <1>2, <2>5 DEF txCommit, txRollback, txRelease
      <3>2. f \in openTx
        BY <3>1, EndIsOpen DEF HasEnded, Ended
      <3>3. tx[f].savepoint
        BY <1>1, <1>8, <3>2 DEF InUse
      <3>4. durable' = durable
        BY <3>1, <3>2, <3>3, SavepointBelow DEF ExecCommit, ExecRollback
      <3> QED BY <1>4, <2>3, <3>4 DEF Store!Next, Store!Undo
    <2> QED BY <2>4, <2>5
  <1> QED BY <1>7, <1>8

-----------------------------------------------------------------------------
(* Writes. *)

\* A write under the open transaction is staged for its owner.
LEMMA WriteStages ==
    ASSUME TypeOK, LockInv, LockInv', NestInv, MadeInv, conn = 0, UNCHANGED conn,
           NEW f \in Flows, written[f] < MaxWrites, ExecWrite(<<f, written[f] + 1>>),
           NEW p \in openTx, call'[f].top = call[p].top,
           \A g \in Flows : pc[g] # "idle" => call'[g] = call[g],
           \A g \in Flows : Holds(g)' <=> Holds(g)
    PROVE  [Store!Next]_(Store!vars)
  <1> DEFINE t == call[p].top
             w == <<f, written[f] + 1>>
  <1>1. t \in Flows /\ Holds(t) /\ tx[t].holding
    BY TopHolds
  <1>2. journal # <<>>
    BY <1>1, OwnerEnds
  <1>3. WritesIn(journal') = WritesIn(journal) \cup {w} /\ durable' = durable
    BY <1>2, WriteAdds
  <1>4. ownerOf = t /\ ownerOf' = t /\ t # NoFlow
    BY <1>1, OwnerIs, OwnerBecomes, FlowsAssumption
  <1>5. w \in WriteIds \ durable
    <2>1. written[f] \in Nat /\ written[f] + 1 \in 1 .. MaxWrites
      BY BoundsAssumption DEF TypeOK, WriteType
    <2>2. w \in WriteIds
      BY <2>1 DEF WriteIds
    <2>3. w \notin durable
      BY <2>1 DEF MadeInv
    <2> QED BY <2>2, <2>3
  <1>6. \A v \in WritesIn(journal) : call'[v[1]].top = call[v[1]].top
    BY JournalWrites
  <1>7. w[1] = f
    OBVIOUS
  <1>8. stagedWrites' = stagedWrites \cup {<<t, w>>}
    <2> HIDE DEF w
    <2> QED BY <1>3, <1>6, <1>7 DEF stagedWrites
  <1> HIDE DEF t, w
  <1> QED BY <1>3, <1>4, <1>5, <1>8 DEF Store!Next, Store!Stage

\* A plain call that had to wait writes by itself.
LEMMA PlainStore ==
    ASSUME TypeOK, LockInv, LockInv', NestInv, NEW f \in Flows, PlainWorks(f)
    PROVE  [Store!Next]_(Store!vars)
  <1>1. /\ pc[f] = "granted" /\ written[f] < MaxWrites /\ ExecWrite(<<f, written[f] + 1>>)
        /\ releaseLock(f, "draining") /\ UNCHANGED <<tx, conn>>
    BY DEF PlainWorks, ModelWrite
  <1>2. journal = <<>>
    BY <1>1, GrantedClean
  <1>3. journal' = <<>> /\ durable' = durable \cup {<<f, written[f] + 1>>}
    BY <1>1, <1>2, WriteAdds
  <1>4. stagedWrites = {} /\ stagedWrites' = {}
    BY <1>2, <1>3 DEF stagedWrites, WritesIn
  <1>5. <<f, written[f] + 1>> \in WriteIds
    BY <1>1, BoundsAssumption DEF WriteIds, TypeOK, WriteType
  <1>6. Holds(f) /\ ~ tx[f].holding
    BY <1>1 DEF Holds, LockInv, HoldersAreOpen
  <1>7. ~ Holds(f)'
    BY <1>1, <1>6, ReleaseMoves DEF Holds, Moves
  <1>8. ownerOf # NoFlow /\ ownerOf' \in (Flows \cup {NoFlow}) \ {ownerOf}
    BY <1>6, <1>7, OwnerLeaves, FlowsAssumption
  <1> QED BY <1>1, <1>3, <1>4, <1>5, <1>8 DEF Store!Next, Store!AutoCommit

-----------------------------------------------------------------------------
(* One step per action, on a handle that is not closed. *)

\* The calls that start take the store, stage a write or change nothing.
LEMMA StartsStore ==
    ASSUME Awaits, TypeOK, LockInv, LockInv', NestInv, MadeInv, conn = 0, NEW f \in Flows, Starts(f)
    PROVE  [Store!Next]_(Store!vars)
  <1>1. ASSUME NEW r, NEW p, Enter(f, r, p)
        PROVE  /\ pc[f] = "idle" /\ ~ Holds(f) /\ ~ tx[f].holding
               /\ \A g \in Flows : pc[g] # "idle" => call'[g] = call[g]
    <2>1. pc[f] = "idle" /\ \A g \in Flows \ {f} : call'[g] = call[g]
      BY <1>1 DEF Enter, TypeOK, CallType
    <2> QED BY <2>1 DEF Holds, LockInv, HoldersAreOpen
  <1>2. ASSUME NEW r, NEW p, BeginNested(f, r, p) PROVE [Store!Next]_(Store!vars)
    <2>1. /\ Enter(f, r, p) /\ pc' = [pc EXCEPT ![f] = "open"]
          /\ tx' = [tx EXCEPT ![f] = [NewTx EXCEPT !.savepoint = TRUE, !.handle = conn]]
          /\ journal' = Append(journal, Frame(f)) /\ UNCHANGED <<conn, durable>>
      BY <1>2 DEF BeginNested
    <2>2. ~ tx'[f].holding /\ pc'[f] = "open"
      BY <2>1 DEF TypeOK, TxType, MutexType, NewTx
    <2>3. \A g \in Flows \ {f} : tx'[g] = tx[g] /\ pc'[g] = pc[g]
      BY <2>1 DEF TypeOK, TxType, MutexType
    <2>4. ownerOf' = ownerOf
      <3>1. ~ Holds(f)
        BY <1>1, <2>1
      <3>2. \A g \in Flows : Holds(g)' <=> Holds(g)
        BY <3>1, <2>2, <2>3 DEF Holds
      <3> QED BY <3>2, OwnerStays
    <2>5. stagedWrites' = stagedWrites
      BY <1>1, <2>1, FrameAdds, StagedFollows
    <2> QED BY <2>1, <2>4, <2>5, StepStutters
  <1>3. ASSUME NEW r, NEW p, AskForLock(f, r, p) PROVE [Store!Next]_(Store!vars)
    <2>1. /\ Enter(f, r, p) /\ acquire(f) /\ UNCHANGED <<conn, journal, durable>>
          /\ tx' = [tx EXCEPT ![f].handle = conn]
      BY <1>3 DEF AskForLock, engineVars
    <2>2. stagedWrites' = stagedWrites
      BY <1>1, <2>1, StagedFollows
    <2>3. \A g \in Flows : tx'[g].holding = tx[g].holding
      BY <2>1 DEF TypeOK, TxType
    <2>4. CASE locked
      <3>1. pc' = [pc EXCEPT ![f] = "waiting"]
        BY <2>1, <2>4 DEF acquire
      <3>2. \A g \in Flows : Holds(g)' <=> Holds(g)
        BY <1>1, <2>1, <2>3, <3>1 DEF Holds, TypeOK, MutexType
      <3> QED BY <2>1, <2>2, <3>2, OwnerStays, StepStutters
    <2>5. CASE ~ locked
      <3>1. pc'[f] = "granted"
        BY <2>1, <2>5 DEF acquire, TypeOK, MutexType
      <3>2. ownerOf' = f
        BY <3>1, OwnerBecomes DEF Holds
      <3>3. ownerOf = NoFlow
        BY <2>5, OwnerIsNone DEF LockInv, MutualExclusion
      <3> QED BY <2>1, <2>2, <3>2, <3>3 DEF Store!Next, Store!Take
    <2> QED BY <2>4, <2>5
  <1>4. ASSUME NEW p \in Flows \cup {NoFlow}, PlainJoins(f, p) PROVE [Store!Next]_(Store!vars)
    <2>1. /\ Enter(f, "plain", p) /\ p \in openTx /\ written[f] < MaxWrites
          /\ ExecWrite(<<f, written[f] + 1>>) /\ UNCHANGED <<tx, conn>>
          /\ pc' = [pc EXCEPT ![f] = "draining"]
      BY <1>4 DEF PlainJoins, ModelWrite, isReentrant
    <2>2. call'[f].top = call[p].top
      <3>1. p # NoFlow
        BY <2>1, FlowsAssumption DEF TypeOK, TxType
      <3>2. Entered(f, "plain", p)
        BY <2>1, EnterScope
      <3> QED BY <3>1, <3>2 DEF Entered
    <2>3. \A g \in Flows : Holds(g)' <=> Holds(g)
      BY <1>1, <2>1 DEF Holds, TypeOK, MutexType
    <2> QED BY <1>1, <2>1, <2>2, <2>3, WriteStages
  <1>5. ASSUME NEW r, NEW p, JoinFails(f, r, p) PROVE [Store!Next]_(Store!vars)
    <2>1. /\ Enter(f, r, p) /\ pc' = [pc EXCEPT ![f] = "refused"]
          /\ UNCHANGED <<tx, conn, journal, durable>>
      BY <1>5 DEF JoinFails, engineVars
    <2>2. \A g \in Flows : Holds(g)' <=> Holds(g)
      BY <1>1, <2>1 DEF Holds, TypeOK, MutexType
    <2>3. stagedWrites' = stagedWrites
      BY <1>1, <2>1, StagedFollows
    <2> QED BY <2>1, <2>2, <2>3, OwnerStays, StepStutters
  <1> QED BY <1>2, <1>3, <1>4, <1>5 DEF Starts

\* A flow that neither gets nor loses the lock, and leaves the engine alone.
LEMMA QuietStore ==
    ASSUME TypeOK, LockInv, LockInv', NestInv, NEW f \in Flows, NEW s,
           pc' = [pc EXCEPT ![f] = s], pc[f] # "granted", s # "granted",
           UNCHANGED <<call, tx, conn, engineVars>>
    PROVE  [Store!Next]_(Store!vars)
  <1>1. \A g \in Flows : Holds(g)' <=> Holds(g)
    BY DEF Holds, TypeOK, MutexType
  <1> QED BY <1>1, OwnerStays, StagedFollows, StepStutters DEF engineVars

\* The steps of a call settle the owner, stage a write, commit one by itself or
\* change nothing.
LEMMA ContinuesStore ==
    ASSUME Awaits, TypeOK, LockInv, LockInv', NestInv, MadeInv, conn = 0, NEW f \in Flows, Continues(f)
    PROVE  [Store!Next]_(Store!vars)
  <1>1. CASE BeginTop(f)
    <2>1. /\ pc[f] = "granted" /\ pc' = [pc EXCEPT ![f] = "open"]
          /\ tx' = [tx EXCEPT ![f].holding = TRUE] /\ journal = <<>> /\ journal' = <<Frame(f)>>
          /\ UNCHANGED <<call, conn, durable>>
      BY <1>1 DEF BeginTop
    <2>2. \A g \in Flows : Holds(g)' <=> Holds(g)
      BY <2>1 DEF Holds, TypeOK, MutexType, TxType
    <2>3. journal' = Append(journal, Frame(f))
      BY <2>1
    <2> QED BY <2>1, <2>2, <2>3, OwnerStays, FrameAdds, StagedFollows, StepStutters
  <1>2. CASE BeginFails(f)
    <2>1. /\ pc[f] = "granted" /\ pc' = [pc EXCEPT ![f] = "refused"] /\ journal = <<>> /\ journal' = <<>>
          /\ UNCHANGED <<tx, conn, durable>>
      BY <1>2, GrantedClean DEF BeginFails, engineVars
    <2>2. Holds(f) /\ ~ Holds(f)'
      BY <2>1 DEF Holds, LockInv, HoldersAreOpen, TypeOK, MutexType
    <2>3. ownerOf # NoFlow /\ ownerOf' \in (Flows \cup {NoFlow}) \ {ownerOf}
      BY <2>2, OwnerLeaves, FlowsAssumption
    <2>4. stagedWrites' = {}
      BY <2>1 DEF stagedWrites, WritesIn
    <2> QED BY <2>1, <2>3, <2>4 DEF Store!Next, Store!Settle
  <1>3. CASE PlainWorks(f)
    BY <1>3, PlainStore
  <1>14. CASE PlainFails(f)
    <2>1. /\ pc[f] = "granted" /\ releaseLock(f, "refused") /\ journal = <<>> /\ journal' = <<>>
          /\ UNCHANGED <<tx, conn, durable>>
      BY <1>14, GrantedClean DEF PlainFails, engineVars
    <2>2. Holds(f) /\ ~ tx[f].holding
      BY <2>1 DEF Holds, LockInv, HoldersAreOpen
    <2>3. ~ Holds(f)'
      BY <2>1, <2>2, ReleaseMoves DEF Holds, Moves
    <2>4. ownerOf # NoFlow /\ ownerOf' \in (Flows \cup {NoFlow}) \ {ownerOf}
      BY <2>2, <2>3, OwnerLeaves, FlowsAssumption
    <2>5. stagedWrites' = {}
      BY <2>1 DEF stagedWrites, WritesIn
    <2> QED BY <2>1, <2>4, <2>5 DEF Store!Next, Store!Settle
  <1>4. CASE BodyWrites(f)
    <2>1. /\ pc[f] = "open" /\ ~ tx[f].done /\ written[f] < MaxWrites
          /\ ExecWrite(<<f, written[f] + 1>>) /\ UNCHANGED <<pc, call, tx, conn>>
      BY <1>4, TimelyWrites DEF Awaits, BodyWrites, ModelWrite
    <2>2. f \in openTx
      BY <2>1 DEF NestInv, InUse, Working
    <2>3. \A g \in Flows : Holds(g)' <=> Holds(g)
      BY <2>1 DEF Holds
    <2> QED BY <2>1, <2>2, <2>3, WriteStages
  <1>5. CASE Commit(f)
    BY <1>5, SettleStore DEF Commit, Returns
  <1>6. CASE CommitFails(f) \/ BodyThrows(f)
    BY <1>6, QuietStore DEF CommitFails, BodyThrows, Returns
  <1>7. CASE Rollback(f)
    <2>1. pc[f] = "catching" /\ UNCHANGED <<call, conn>>
      BY <1>7 DEF Rollback
    <2>2. CASE txRollback(f, "rejected")
      BY <2>1, <2>2, SettleStore DEF Ended
    <2>3. CASE ~ txRollback(f, "rejected")
      <3>1. pc' = [pc EXCEPT ![f] = "disposing"] /\ UNCHANGED <<tx, engineVars>>
        BY <1>7, <2>3 DEF Rollback
      <3> QED BY <2>1, <3>1, QuietStore
    <2> QED BY <2>2, <2>3
  <1>8. CASE Dispose(f)
    <2>1. pc[f] = "disposing" /\ dispose(f, "rejected") /\ UNCHANGED <<call, conn>> /\ "rejected" \in Ended
      BY <1>8 DEF Dispose, Ended
    <2> QED BY <2>1, SettleStore
  <1>9. CASE Deliver(f)
    <2>1. pc[f] = "draining" /\ pc' = [pc EXCEPT ![f] = "draining"] /\ UNCHANGED <<call, tx, conn, engineVars>>
      BY <1>9 DEF Deliver, TypeOK, MutexType
    <2> QED BY <2>1, QuietStore
  <1>10. CASE Drained(f)
    <2>1. PICK s \in {"open", "resolved"} : pc' = [pc EXCEPT ![f] = s]
      BY <1>10 DEF Drained
    <2>2. pc[f] = "draining" /\ UNCHANGED <<call, tx, conn, engineVars>>
      BY <1>10 DEF Drained
    <2> QED BY <2>1, <2>2, QuietStore
  <1>11. CASE HandleCommit(f)
    <2>1. pc[f] = "open" /\ UNCHANGED <<call, conn>>
      BY <1>11 DEF HandleCommit, ManualCall
    <2>2. CASE txCommit(f, "draining")
      BY <2>1, <2>2, SettleStore
    <2>3. CASE ~ txCommit(f, "draining")
      <3>1. UNCHANGED <<pc, tx, engineVars>> /\ pc' = [pc EXCEPT ![f] = "open"]
        BY <1>11, <2>1, <2>3 DEF HandleCommit, TypeOK, MutexType
      <3> QED BY <2>1, <3>1, QuietStore
    <2> QED BY <2>2, <2>3
  <1>12. CASE HandleRollback(f)
    <2>1. pc[f] = "open" /\ UNCHANGED <<call, conn>>
      BY <1>12 DEF HandleRollback, ManualCall
    <2>2. CASE txRollback(f, "open")
      BY <2>1, <2>2, SettleStore
    <2>3. CASE ~ txRollback(f, "open")
      <3>1. UNCHANGED <<pc, tx, engineVars>> /\ pc' = [pc EXCEPT ![f] = "open"]
        BY <1>12, <2>1, <2>3 DEF HandleRollback, TypeOK, MutexType
      <3> QED BY <2>1, <3>1, QuietStore
    <2> QED BY <2>2, <2>3
  <1>13. CASE HandleDispose(f)
    <2>1. /\ pc[f] \in {"open", "disposed"} /\ dispose(f, "disposed") /\ UNCHANGED <<call, conn>>
          /\ "disposed" \in Ended
      BY <1>13 DEF HandleDispose, Ended
    <2> QED BY <2>1, SettleStore
  <1> QED BY <1>1, <1>2, <1>3, <1>4, <1>5, <1>6, <1>7, <1>8, <1>9, <1>10, <1>11, <1>12, <1>13, <1>14 DEF Continues

-----------------------------------------------------------------------------
(* After close() nothing is promised but the types. *)

\* A handle number only grows, and only close() changes it.
LEMMA HandleKeeps ==
    ASSUME [Next]_vars, ~ Close
    PROVE  conn' = conn
  <1>1. ASSUME NEW f \in Flows, Starts(f) PROVE conn' = conn
    BY <1>1 DEF Starts, BeginNested, JoinFails, AskForLock, PlainJoins
  <1>2. ASSUME NEW f \in Flows, Continues(f) PROVE conn' = conn
    BY <1>2 DEF Continues, BeginTop, BeginFails, PlainWorks, PlainFails, BodyWrites, Commit, CommitFails, BodyThrows,
       Rollback, Dispose, Deliver, Drained, HandleCommit, HandleRollback, HandleDispose
  <1> QED BY <1>1, <1>2 DEF Next, Quiescent, vars

\* A step of a closed store.
LEMMA ClosedStore ==
    ASSUME TypeOK', conn' > 0
    PROVE  [Store!Next]_(Store!vars)
  <1>1. ownerOf' \in Flows \cup {NoFlow}
    BY DEF ownerOf
  <1>2. durable' \in SUBSET WriteIds /\ WritesIn(journal') \in SUBSET WriteIds
    BY WritesType DEF TypeOK, EngineType
  <1>3. \A w \in WritesIn(journal') : call'[w[1]].top \in Flows
    BY <1>2 DEF TypeOK, CallType, WriteIds
  <1>4. stagedWrites' \in SUBSET (Flows \X WriteIds)
    BY <1>2, <1>3 DEF stagedWrites
  <1> QED BY <1>1, <1>2, <1>4 DEF Store!Next, Store!Close

-----------------------------------------------------------------------------
(* MadeInv is kept. *)

\* A step that makes no write.
LEMMA NothingMade ==
    ASSUME MadeInv, UNCHANGED written,
           durable' \cup WritesIn(journal') \subseteq durable \cup WritesIn(journal),
           \A g \in Flows : tx'[g].done => ~ tx'[g].holding
    PROVE  MadeInv'
  BY DEF MadeInv

\* A step that makes one.
LEMMA OneMade ==
    ASSUME TypeOK, MadeInv, NEW f \in Flows, ExecWrite(<<f, written[f] + 1>>),
           written' = [written EXCEPT ![f] = @ + 1], UNCHANGED tx
    PROVE  MadeInv'
  <1>1. \A g \in Flows : written[g] \in Nat
    BY BoundsAssumption DEF TypeOK, WriteType
  <1>2. \A w \in durable \cup WritesIn(journal) : w[1] \in Flows /\ w[2] \in Nat
    BY WritesType DEF TypeOK, EngineType, WriteIds
  <1> DEFINE v == <<f, written[f] + 1>>
  <1>3. durable' \cup WritesIn(journal') \subseteq durable \cup WritesIn(journal) \cup {v}
    <2>1. CASE journal = <<>>
      BY <2>1, WriteAdds
    <2>2. CASE journal # <<>>
      BY <2>2, WriteAdds
    <2> QED BY <2>1, <2>2
  <1>4. v[1] = f /\ v[2] = written[f] + 1
    OBVIOUS
  <1>5. /\ \A g \in Flows : written[g] <= written'[g]
        /\ written'[f] = written[f] + 1
    BY <1>1 DEF TypeOK, WriteType
  <1> HIDE DEF v
  <1>6. ASSUME NEW w \in durable' \cup WritesIn(journal') PROVE w[2] <= written'[w[1]]
    <2>1. CASE w = v
      BY <1>4, <1>5, <2>1, <1>1
    <2>2. CASE w \in durable \cup WritesIn(journal)
      <3>1. w[2] <= written[w[1]]
        BY <2>2 DEF MadeInv
      <3> QED BY <1>1, <1>2, <1>5, <2>2, <3>1
    <2> QED BY <1>3, <2>1, <2>2
  <1> QED BY <1>6 DEF MadeInv

\* The end of a transaction.
LEMMA SettleMade ==
    ASSUME TypeOK, NestInv, MadeInv, UNCHANGED written, NEW f \in Flows, NEW s,
           pc[f] \in {"open", "catching", "disposing", "disposed"},
           txCommit(f, s) \/ txRollback(f, s) \/ dispose(f, s)
    PROVE  MadeInv'
  <1>1. \/ txCommit(f, s) \/ txRollback(f, s)
        \/ txRelease(f, s) /\ (tx[f].settled \/ RollbackThrows(f))
    BY DEF dispose
  <1>2. Trims(f) /\ durable' \in {durable, durable \cup WritesIn(journal)}
    BY <1>1, SettleTrims
  <1>3. durable' \cup WritesIn(journal') \subseteq durable \cup WritesIn(journal)
    BY <1>2, TrimsWrites
  <1>4. /\ ~ tx'[f].holding
        /\ \A g \in Flows \ {f} : tx'[g] = tx[g]
    BY <1>1 DEF txCommit, txRollback, txRelease, TypeOK, TxType
  <1>5. \A g \in Flows : tx'[g].done => ~ tx'[g].holding
    BY <1>4 DEF MadeInv
  <1> QED BY <1>3, <1>5, NothingMade

\* One step per action.
LEMMA NextMade == TypeOK /\ LockInv /\ NestInv /\ MadeInv /\ [Next]_vars => MadeInv'
  <1> SUFFICES ASSUME TypeOK, LockInv, NestInv, MadeInv, [Next]_vars PROVE MadeInv'
    OBVIOUS
  <1>0. ASSUME UNCHANGED <<tx, engineVars, written>> PROVE MadeInv'
    BY <1>0 DEF MadeInv, engineVars
  <1>1. ASSUME NEW f \in Flows, Starts(f) PROVE MadeInv'
    <2>1. ASSUME NEW r, NEW p, BeginNested(f, r, p) PROVE MadeInv'
      <3>1. /\ journal' = Append(journal, Frame(f)) /\ UNCHANGED <<durable, written>>
            /\ tx' = [tx EXCEPT ![f] = [NewTx EXCEPT !.savepoint = TRUE, !.handle = conn]]
        BY <2>1 DEF BeginNested
      <3>2. ~ tx'[f].done
        BY <3>1 DEF TypeOK, TxType, NewTx
      <3>3. \A g \in Flows : tx'[g].done => ~ tx'[g].holding
        BY <3>1, <3>2 DEF MadeInv, TypeOK, TxType
      <3> QED BY <3>1, <3>3, FrameAdds, NothingMade
    <2>2. ASSUME NEW r, NEW p, AskForLock(f, r, p) PROVE MadeInv'
      <3>1. tx' = [tx EXCEPT ![f].handle = conn] /\ UNCHANGED <<durable, journal, written>>
        BY <2>2 DEF AskForLock, engineVars
      <3>2. \A g \in Flows : tx'[g].done => ~ tx'[g].holding
        BY <3>1 DEF MadeInv, TypeOK, TxType
      <3> QED BY <3>1, <3>2, NothingMade
    <2>3. ASSUME NEW p, PlainJoins(f, p) PROVE MadeInv'
      BY <2>3, OneMade DEF PlainJoins, ModelWrite
    <2>4. ASSUME NEW r, NEW p, JoinFails(f, r, p) PROVE MadeInv'
      BY <1>0, <2>4 DEF JoinFails
    <2> QED BY <1>1, <2>1, <2>2, <2>3, <2>4 DEF Starts
  <1>2. ASSUME NEW f \in Flows, Continues(f) PROVE MadeInv'
    <2>1. CASE BeginTop(f)
      <3>1. /\ journal = <<>> /\ journal' = <<Frame(f)>> /\ UNCHANGED <<durable, written>>
            /\ tx' = [tx EXCEPT ![f].holding = TRUE] /\ pc[f] = "granted"
        BY <2>1 DEF BeginTop
      <3>2. ~ tx[f].done
        BY <3>1 DEF NestInv, InUse
      <3>3. \A g \in Flows : tx'[g].done => ~ tx'[g].holding
        BY <3>1, <3>2 DEF MadeInv, TypeOK, TxType
      <3>4. journal' = Append(journal, Frame(f))
        BY <3>1
      <3> QED BY <3>1, <3>3, <3>4, FrameAdds, NothingMade
    <2>2. CASE PlainWorks(f) \/ BodyWrites(f)
      BY <2>2, OneMade DEF PlainWorks, BodyWrites, ModelWrite
    <2>3. CASE \/ BeginFails(f) \/ PlainFails(f) \/ CommitFails(f) \/ BodyThrows(f)
               \/ Deliver(f) \/ Drained(f)
      BY <1>0, <2>3 DEF BeginFails, PlainFails, CommitFails, BodyThrows, Deliver, Drained
    <2>4. CASE Commit(f)
      BY <2>4, SettleMade DEF Commit, Returns
    <2>5. CASE Rollback(f)
      <3>1. CASE txRollback(f, "rejected")
        BY <2>5, <3>1, SettleMade DEF Rollback
      <3>2. CASE ~ txRollback(f, "rejected")
        BY <1>0, <2>5, <3>2 DEF Rollback
      <3> QED BY <3>1, <3>2
    <2>6. CASE Dispose(f)
      BY <2>6, SettleMade DEF Dispose
    <2>7. CASE HandleCommit(f)
      <3>1. CASE txCommit(f, "draining")
        BY <2>7, <3>1, SettleMade DEF HandleCommit, ManualCall
      <3>2. CASE ~ txCommit(f, "draining")
        BY <1>0, <2>7, <3>2 DEF HandleCommit
      <3> QED BY <3>1, <3>2
    <2>8. CASE HandleRollback(f)
      <3>1. CASE txRollback(f, "open")
        BY <2>8, <3>1, SettleMade DEF HandleRollback, ManualCall
      <3>2. CASE ~ txRollback(f, "open")
        BY <1>0, <2>8, <3>2 DEF HandleRollback
      <3> QED BY <3>1, <3>2
    <2>9. CASE HandleDispose(f)
      BY <2>9, SettleMade DEF HandleDispose
    <2> QED BY <1>2, <2>1, <2>2, <2>3, <2>4, <2>5, <2>6, <2>7, <2>8, <2>9 DEF Continues
  <1>3. CASE Close
    <2>1. journal' = <<>> /\ UNCHANGED <<tx, durable, written>>
      BY <1>3 DEF Close
    <2> QED BY <2>1 DEF MadeInv, WritesIn
  <1>4. CASE UNCHANGED vars
    BY <1>0, <1>4 DEF vars
  <1> QED BY <1>1, <1>2, <1>3, <1>4 DEF Next, Quiescent

-----------------------------------------------------------------------------
\* Every step of the driver is one of the abstract store.
LEMMA NextStore ==
    ASSUME Awaits
    PROVE  /\ TypeOK /\ LockInv /\ NestInv /\ MadeInv /\ [Next]_vars /\ TypeOK' /\ LockInv'
           => [Store!Next]_(Store!vars)
  <1> SUFFICES ASSUME TypeOK, LockInv, NestInv, MadeInv, [Next]_vars, TypeOK', LockInv'
               PROVE  [Store!Next]_(Store!vars)
    OBVIOUS
  <1>1. CASE conn' > 0
    BY <1>1, ClosedStore
  <1>2. CASE ~ conn' > 0
    <2>1. conn' = 0 /\ conn \in Nat
      BY <1>2 DEF TypeOK, TxType
    <2>2. ~ Close
      BY <2>1 DEF Close
    <2>3. conn = 0
      BY <2>1, <2>2, HandleKeeps
    <2>4. CASE UNCHANGED vars
      <3>1. UNCHANGED <<pc, call, tx, conn, journal, durable>>
        BY <2>4 DEF vars, engineVars
      <3>2. \A g \in Flows : Holds(g)' <=> Holds(g)
        BY <3>1 DEF Holds
      <3> QED BY <3>1, <3>2, OwnerStays, StagedFollows, StepStutters
    <2> QED BY <2>2, <2>3, <2>4, StartsStore, ContinuesStore DEF Next, Quiescent
  <1> QED BY <1>1, <1>2

\* The driver gives its users one transaction at a time and all-or-nothing
\* commits, however their calls interleave and nest and whatever fails, until one
\* of them calls close(): it implements the abstract store.
THEOREM StoreCorrect ==
    ASSUME Awaits
    PROVE  Spec => ImplementsStore
  <1>1. Init => Store!Init /\ MadeInv
    <2> SUFFICES ASSUME Init PROVE Store!Init /\ MadeInv
      OBVIOUS
    <2>1. \A f \in Flows : ~ Holds(f) /\ ~ tx[f].holding
      BY DEF Init, NewTx, Holds
    <2>2. journal = <<>> /\ durable = {} /\ conn = 0
      BY DEF Init
    <2>3. WritesIn(journal) = {} /\ stagedWrites = {}
      BY <2>2 DEF WritesIn, stagedWrites
    <2> QED BY <2>1, <2>2, <2>3, OwnerIsNone DEF Store!Init, MadeInv
  <1>2. TypeOK /\ LockInv /\ NestInv /\ [Next]_vars => NestInv'
    BY NextNest
  <1>3. TypeOK /\ LockInv /\ NestInv /\ MadeInv /\ [Next]_vars => MadeInv'
    BY NextMade
  <1>4. TypeOK /\ LockInv /\ NestInv /\ MadeInv /\ [Next]_vars /\ TypeOK' /\ LockInv'
            => [Store!Next]_(Store!vars)
    BY NextStore
  <1> QED BY <1>1, <1>2, <1>3, <1>4, InitNest, TypeCorrect, LockCorrect, PTL
          DEF Spec, ImplementsStore, Store!Spec

-----------------------------------------------------------------------------
(* The outcome of a transaction.  When callbacks await one call at a time   *)
(* and nobody closes the driver, the frames of the journal are a chain, one *)
(* inside the other, and only the innermost one is written to, released or  *)
(* rolled back.  So the writes of a call stay together: they are in one     *)
(* frame, that of the innermost open transaction around it, or all durable, *)
(* or all gone.                                                             *)

\* The transaction f, and those around it.
Chain(f) == {f} \cup call[f].around

\* What call f is within has started before it, and is within the same calls.
Related(f) ==
    /\ pc[f] = "idle" => call[f].around = {}
    /\ f \notin call[f].around
    /\ call[f].top \in IF call[f].around = {} THEN {f} ELSE call[f].around
    /\ \A g \in call[f].around :
          /\ call[g].role = "callback" /\ pc[g] \notin {"idle", "waiting", "granted"}
          /\ call[g].around \subseteq call[f].around
    /\ pc[f] \in {"idle", "waiting", "granted"} => written[f] = 0
    /\ pc[f] = "resolved" => call[f].role # "manual"
    /\ pc[f] = "catching" => call[f].role = "callback" /\ ~ tx[f].done
    /\ pc[f] # "disposing"

\* Each frame is within those below it, and each open transaction has one.
Stacked ==
    /\ \A i, j \in DOMAIN journal : i < j => journal[i].by \in call[journal[j].by].around
    /\ \A f \in openTx : HasFrame(f)

\* None of f's writes is in S.
Off(f, S) == WritesOf(f) \cap S = {}

\* Where the writes of f are: nowhere, in the database, or in the frame of the
\* innermost transaction of its chain that is open.
Gone(f) == Off(f, durable) /\ \A i \in DOMAIN journal : Off(f, journal[i].writes)
Kept(f) == WritesOf(f) \subseteq durable /\ Chain(f) \cap openTx = {}
Pending(f, i) ==
    /\ journal[i].by \in Chain(f) /\ WritesOf(f) \subseteq journal[i].writes
    /\ Off(f, durable) /\ \A j \in DOMAIN journal : j # i => Off(f, journal[j].writes)
    /\ \A j \in DOMAIN journal : j > i => journal[j].by \notin Chain(f)
Placed(f) == Gone(f) \/ Kept(f) \/ \E i \in DOMAIN journal : Pending(f, i)

\* They are gone if a transaction of the chain rejected, and only then, or when
\* the owner of a handle rolled it back.
Undone(f) == \E g \in Chain(f) : pc[g] = "rejected"
Accounted(f) ==
    /\ Undone(f) => Gone(f)
    /\ Gone(f) /\ written[f] > 0 => Undone(f) \/ (call[f].role = "manual" /\ f \notin openTx)

OutInv == conn = 0 /\ Stacked /\ \A f \in Flows : Related(f) /\ Placed(f) /\ Accounted(f)

-----------------------------------------------------------------------------
(* The innermost frame. *)

\* f's frame is the last one of the journal.
Innermost(f) ==
    /\ HasFrame(f) /\ Level(f) = Len(journal)
    /\ Len(journal) \in DOMAIN journal /\ journal[Len(journal)].by = f

\* An open transaction whose callback awaits nothing is the innermost one.
LEMMA InnermostIs ==
    ASSUME Nesting = "sequential", TypeOK, NestInv, Stacked, NEW f \in openTx,
           call[f].role = "callback" /\ pc[f] = "open" => ~ Suspended(f)
    PROVE  Innermost(f)
  <1>0. journal \in Seq(Frames) /\ Len(journal) \in Nat /\ DOMAIN journal = 1 .. Len(journal)
        /\ openTx \subseteq Flows
    BY DEF TypeOK, EngineType, TxType
  <1>1. PICK i \in DOMAIN journal : journal[i].by = f
    BY DEF Stacked, HasFrame
  <1>2. Len(journal) \in DOMAIN journal
    BY <1>0, <1>1
  <1>3. i = Len(journal)
    <2> SUFFICES ASSUME i # Len(journal) PROVE FALSE
      OBVIOUS
    <2>1. PICK g \in openTx : journal[Len(journal)].by = g
      BY <1>2 DEF NestInv, Framed
    <2>2. i < Len(journal)
      BY <1>0
    <2>3. f \in call[g].around
      BY <1>1, <1>2, <2>1, <2>2 DEF Stacked
    <2>4. g \in Flows /\ Enclosed(g) /\ Working(g) /\ Active(g)
      BY <1>0, <2>1 DEF NestInv, InUse, Working, Active, Ended
    <2>5. call[f].role = "callback" /\ pc[f] = "open"
      BY <2>3, <2>4 DEF Enclosed
    <2>6. PICK c \in call[g].around \cup {g} : call[c].scope = f
      BY <2>3, <2>4 DEF Enclosed
    <2>7. c \in Flows /\ ~ HasEnded(c)
      BY <2>4, <2>6 DEF Enclosed, Active, HasEnded, Ended, TypeOK, CallType
    <2> QED BY <2>5, <2>6, <2>7 DEF Suspended, Inner
  <1>4. Level(f) = i
    BY <1>1 DEF Level, NestInv, Framed
  <1> QED BY <1>1, <1>2, <1>3, <1>4 DEF Innermost, HasFrame

\* A callback that returns awaits nothing.
LEMMA ReturnsAlone ==
    ASSUME Nesting = "sequential", NEW f, Returns(f)
    PROVE  ~ Suspended(f)
  BY DEF Returns, Awaited, Suspended

\* SQLite accepts the end of an open transaction.
LEMMA OpenCanEnd ==
    ASSUME TypeOK, NestInv, Stacked, conn = 0, NEW f \in openTx
    PROVE  CanEnd(f)
  <1>1. f \in Flows /\ Rooted(f) /\ tx[f].handle \in Nat
    BY DEF TypeOK, TxType, NestInv
  <1>2. tx[f].handle = conn
    BY <1>1 DEF Rooted
  <1>3. HasFrame(f)
    BY DEF Stacked
  <1>4. journal # <<>>
    BY <1>3 DEF HasFrame
  <1> QED BY <1>2, <1>3, <1>4 DEF CanEnd

\* An innermost BEGIN is alone.
LEMMA BeginAlone ==
    ASSUME TypeOK, LockInv, NestInv, MadeInv, conn = 0, NEW f \in openTx, Innermost(f), ~ tx[f].savepoint
    PROVE  Len(journal) = 1
  <1>1. f \in Flows /\ InUse(f)
    BY DEF TypeOK, TxType, NestInv
  <1>2. tx[f].holding
    BY <1>1 DEF InUse
  <1>3. journal # <<>> /\ journal[1].by = f
    BY <1>1, <1>2, OwnerEnds
  <1>4. 1 \in DOMAIN journal
    BY <1>3 DEF TypeOK, EngineType
  <1> QED BY <1>3, <1>4 DEF Innermost, NestInv, Framed

\* Only the last frame of the journal goes.
Pops(f) ==
    /\ Len(journal) \in DOMAIN journal /\ journal[Len(journal)].by = f
    /\ DOMAIN journal' = 1 .. Len(journal) - 1
    /\ \A i \in DOMAIN journal' : i \in DOMAIN journal /\ journal'[i] = journal[i]
    /\ durable' = durable

\* That is what a rollback of the innermost transaction does.
LEMMA RollbackPops ==
    ASSUME TypeOK, LockInv, NestInv, MadeInv, conn = 0, NEW f \in openTx, Innermost(f), ExecRollback(f)
    PROVE  Pops(f)
  <1>0. f \in Flows /\ EngineType /\ DOMAIN journal = 1 .. Len(journal) /\ Len(journal) \in Nat
    BY DEF TypeOK, TxType, EngineType
  <1>1. CASE tx[f].savepoint
    <2>1. journal' = Below(f) /\ durable' = durable
      BY <1>1 DEF ExecRollback
    <2>2. DOMAIN Below(f) = 1 .. Len(journal) - 1 /\ \A i \in 1 .. Len(journal) - 1 : Below(f)[i] = journal[i]
      BY <1>0 DEF Below, Innermost, EngineType
    <2>3. \A i \in 1 .. Len(journal) - 1 : i \in DOMAIN journal
      BY <1>0
    <2> QED BY <2>1, <2>2, <2>3 DEF Pops, Innermost
  <1>2. CASE ~ tx[f].savepoint
    <2>1. Len(journal) = 1 /\ journal' = <<>> /\ durable' = durable
      BY <1>2, BeginAlone DEF ExecRollback
    <2> QED BY <2>1 DEF Pops, Innermost
  <1> QED BY <1>1, <1>2

\* The last frame becomes part of the one below it.
Merges(f) ==
    /\ Len(journal) \in DOMAIN journal /\ journal[Len(journal)].by = f /\ Len(journal) >= 2
    /\ DOMAIN journal' = 1 .. Len(journal) - 1
    /\ \A i \in DOMAIN journal' :
          /\ i \in DOMAIN journal /\ journal'[i].by = journal[i].by
          /\ journal'[i].writes = IF i = Len(journal) - 1 THEN journal[i].writes \cup journal[Len(journal)].writes
                                  ELSE journal[i].writes
    /\ durable' = durable

\* The only frame becomes durable.
Empties(f) ==
    /\ Len(journal) = 1 /\ 1 \in DOMAIN journal /\ journal[1].by = f
    /\ journal' = <<>> /\ durable' = durable \cup journal[1].writes

\* A commit of the innermost transaction does the one or the other.
LEMMA CommitMerges ==
    ASSUME TypeOK, LockInv, NestInv, MadeInv, conn = 0, NEW f \in openTx, CanEnd(f), Innermost(f), ExecCommit(f)
    PROVE  Merges(f) \/ Empties(f)
  <1>0. /\ f \in Flows /\ EngineType /\ DOMAIN journal = 1 .. Len(journal) /\ Len(journal) \in Nat
        /\ Len(journal) \in DOMAIN journal /\ Level(f) = Len(journal) /\ HasFrame(f)
        /\ journal[Len(journal)].by = f
    BY DEF TypeOK, TxType, EngineType, Innermost
  <1>1. CASE tx[f].savepoint
    <2>1. Below(f) # <<>>
      BY <1>1, SavepointBelow
    <2> DEFINE n == Len(journal)
               all == UNION {journal[i].writes : i \in n - 1 .. n}
    <2>2. journal' = [Below(f) EXCEPT ![n - 1].writes = all] /\ durable' = durable
      BY <1>0, <1>1, <2>1, Zenon DEF ExecCommit, Released
    <2>3. /\ Below(f) \in Seq(Frames) /\ DOMAIN Below(f) = 1 .. n - 1
          /\ \A i \in 1 .. n - 1 : Below(f)[i] = journal[i] /\ Below(f)[i] \in Frames
      BY <1>0 DEF Below, EngineType
    <2>4. n >= 2
      BY <1>0, <2>1, <2>3
    <2>5. all = journal[n - 1].writes \cup journal[n].writes
      <3>1. n - 1 .. n = {n - 1, n}
        BY <1>0
      <3> QED BY <3>1
    <2> HIDE DEF all
    <2>6. /\ DOMAIN journal' = 1 .. n - 1
          /\ \A i \in 1 .. n - 1 :
                /\ journal'[i].by = journal[i].by
                /\ journal'[i].writes = IF i = n - 1 THEN all ELSE journal[i].writes
      BY <2>2, <2>3 DEF Frames
    <2>7. \A i \in 1 .. n - 1 : i \in DOMAIN journal
      BY <1>0
    <2>8. \A i \in 1 .. n - 1 : journal'[i].writes = IF i = n - 1 THEN journal[i].writes \cup journal[n].writes
                                                     ELSE journal[i].writes
      BY <2>5, <2>6
    <2> QED BY <1>0, <2>2, <2>4, <2>6, <2>7, <2>8 DEF Merges
  <1>2. CASE ~ tx[f].savepoint
    <2>1. Len(journal) = 1
      BY <1>2, BeginAlone
    <2>2. journal' = <<>> /\ durable' = durable \cup WritesIn(journal)
      BY <1>2, Zenon DEF ExecCommit
    <2>3. DOMAIN journal = {1}
      BY <1>0, <2>1
    <2>4. WritesIn(journal) = journal[1].writes
      BY <2>3 DEF WritesIn
    <2> QED BY <1>0, <2>1, <2>2, <2>3, <2>4 DEF Empties
  <1> QED BY <1>1, <1>2

-----------------------------------------------------------------------------
(* Where the writes of a call go. *)

\* The innermost transaction of g's chain rolls back, or one outside it.
LEMMA PopPlaces ==
    ASSUME TypeOK, NEW f \in openTx, Pops(f), openTx' = openTx \ {f}, UNCHANGED <<call, written>>,
           NEW g \in Flows, Placed(g)
    PROVE  /\ Placed(g)' /\ (Gone(g) => Gone(g)') /\ (f \in Chain(g) => Gone(g)')
           /\ Gone(g)' => Gone(g) \/ f \in Chain(g)
  <1> DEFINE n == Len(journal)
  <1>0. n \in Nat /\ DOMAIN journal = 1 .. n /\ n \in DOMAIN journal /\ Chain(g)' = Chain(g)
        /\ WritesOf(g)' = WritesOf(g)
    BY DEF Pops, TypeOK, EngineType, Chain, WritesOf
  <1>1. CASE Gone(g)
    <2>1. Gone(g)'
      BY <1>0, <1>1 DEF Pops, Gone, Off
    <2> QED BY <1>1, <2>1 DEF Placed
  <1>2. CASE Kept(g)
    <2>1. Kept(g)' /\ f \notin Chain(g)
      BY <1>0, <1>2 DEF Pops, Kept
    <2>2. Gone(g)' => Gone(g)
      BY <1>0, <1>2 DEF Pops, Gone, Kept, Off
    <2> QED BY <2>1, <2>2, <1>1 DEF Placed
  <1>3. ASSUME NEW i \in DOMAIN journal, Pending(g, i)
        PROVE  /\ Placed(g)' /\ (f \in Chain(g) => Gone(g)')
               /\ Gone(g)' => Gone(g) \/ f \in Chain(g)
    <2>1. CASE i = n
      <3>1. Gone(g)' /\ f \in Chain(g)
        BY <1>0, <1>3, <2>1 DEF Pops, Pending, Gone, Off
      <3> QED BY <3>1 DEF Placed
    <2>2. CASE i # n
      <3>1. i \in DOMAIN journal' /\ i < n
        BY <1>0, <2>2 DEF Pops
      <3>2. Pending(g, i)' /\ f \notin Chain(g)
        BY <1>0, <1>3, <3>1 DEF Pops, Pending, Off
      <3>3. Gone(g)' => Gone(g)
        <4>1. Gone(g)' => WritesOf(g) = {}
          BY <1>0, <3>1, <3>2 DEF Gone, Pending, Off
        <4> QED BY <4>1 DEF Gone, Off
      <3> QED BY <3>1, <3>2, <3>3 DEF Placed
    <2> QED BY <2>1, <2>2
  <1> QED BY <1>1, <1>2, <1>3 DEF Placed

\* A savepoint is released: the writes in it go one frame down.
LEMMA MergePlaces ==
    ASSUME TypeOK, Stacked, NEW f \in openTx, Merges(f), openTx' = openTx \ {f}, UNCHANGED <<call, written>>,
           NEW g \in Flows, Placed(g), \A h \in call[g].around : call[h].around \subseteq call[g].around
    PROVE  Placed(g)' /\ (Gone(g)' <=> Gone(g))
  <1> DEFINE n == Len(journal)
  <1>0. /\ n \in Nat /\ DOMAIN journal = 1 .. n /\ n \in DOMAIN journal /\ n - 1 \in DOMAIN journal'
        /\ n - 1 \in DOMAIN journal /\ n - 1 < n /\ Chain(g)' = Chain(g)
        /\ WritesOf(g)' = WritesOf(g) /\ durable' = durable
    BY DEF Merges, TypeOK, EngineType, Chain, WritesOf
  <1>1. Gone(g)' <=> Gone(g)
    <2>1. ASSUME Gone(g) PROVE Gone(g)'
      BY <1>0, <2>1 DEF Merges, Gone, Off
    <2>2. ASSUME Gone(g)', NEW i \in DOMAIN journal PROVE Off(g, journal[i].writes)
      <3>1. CASE i \in DOMAIN journal'
        <4>1. journal[i].writes \subseteq journal'[i].writes
          BY <3>1 DEF Merges
        <4> QED BY <1>0, <2>2, <3>1, <4>1 DEF Gone, Off
      <3>2. CASE i \notin DOMAIN journal'
        <4>1. i = n
          BY <1>0, <3>2 DEF Merges
        <4>2. journal[n].writes \subseteq journal'[n - 1].writes
          BY <1>0 DEF Merges
        <4> QED BY <1>0, <2>2, <4>1, <4>2 DEF Gone, Off
      <3> QED BY <3>1, <3>2
    <2>3. Gone(g)' => Off(g, durable)
      BY <1>0 DEF Gone, Off
    <2> QED BY <2>1, <2>2, <2>3 DEF Gone
  <1>2. CASE Gone(g)
    BY <1>1, <1>2 DEF Placed
  <1>3. CASE Kept(g)
    <2>1. Kept(g)'
      BY <1>0, <1>3 DEF Kept
    <2> QED BY <1>1, <2>1 DEF Placed
  <1>4. ASSUME NEW i \in DOMAIN journal, Pending(g, i) PROVE Placed(g)'
    <2>1. CASE i = n
      <3>0. PICK k \in DOMAIN journal' : k = n - 1
        BY <1>0
      <3>1. journal'[k].by \in Chain(g)
        <4>1. journal[k].by \in call[f].around
          BY <1>0, <3>0 DEF Stacked, Merges
        <4>2. f \in Chain(g)
          BY <1>4, <2>1 DEF Pending, Merges
        <4>3. call[f].around \subseteq Chain(g)
          BY <4>2 DEF Chain
        <4> QED BY <1>0, <3>0, <4>1, <4>3 DEF Merges
      <3>2. WritesOf(g) \subseteq journal'[k].writes /\ Off(g, durable)
        BY <1>0, <1>4, <2>1, <3>0 DEF Merges, Pending
      <3>3. ASSUME NEW j \in DOMAIN journal', j # k PROVE Off(g, journal'[j].writes)
        <4>1. journal'[j].writes = journal[j].writes /\ j \in DOMAIN journal /\ j # n
          <5>1. j \in 1 .. n - 1
            BY <3>3 DEF Merges
          <5>2. j # n
            BY <1>0, <5>1
          <5>3. j \in DOMAIN journal /\ journal'[j].writes = journal[j].writes
            BY <3>0, <3>3 DEF Merges
          <5> QED BY <5>2, <5>3
        <4> QED BY <1>4, <2>1, <4>1 DEF Pending
      <3>4. \A j \in DOMAIN journal' : ~ j > k
        BY <1>0, <3>0 DEF Merges
      <3>5. Pending(g, k)'
        BY <1>0, <3>1, <3>2, <3>3, <3>4 DEF Pending, Off
      <3> QED BY <3>0, <3>5 DEF Placed
    <2>2. CASE i # n
      <3>1. i \in DOMAIN journal' /\ i < n
        BY <1>0, <2>2 DEF Merges
      <3>2. journal'[i].by \in Chain(g) /\ WritesOf(g) \subseteq journal'[i].writes /\ Off(g, durable)
        BY <1>4, <3>1 DEF Merges, Pending
      <3>3. \A j \in DOMAIN journal' : j # i => Off(g, journal'[j].writes)
        BY <1>0, <1>4, <2>2 DEF Merges, Pending, Off
      <3>4. \A j \in DOMAIN journal' : j > i => journal'[j].by \notin Chain(g)
        BY <1>0, <1>4 DEF Merges, Pending
      <3>5. Pending(g, i)'
        BY <1>0, <3>1, <3>2, <3>3, <3>4 DEF Pending, Off
      <3> QED BY <3>1, <3>5 DEF Placed
    <2> QED BY <2>1, <2>2
  <1> QED BY <1>1, <1>2, <1>3, <1>4 DEF Placed

\* The outermost transaction commits: what was pending is durable.
LEMMA EmptyPlaces ==
    ASSUME NEW f \in openTx, Empties(f), openTx' = {}, DOMAIN journal = {1}, UNCHANGED <<call, written>>,
           NEW g \in Flows, Placed(g)
    PROVE  Placed(g)' /\ (Gone(g)' <=> Gone(g))
  <1>0. /\ Chain(g)' \cap openTx' = {} /\ WritesOf(g)' = WritesOf(g)
        /\ durable' = durable \cup journal[1].writes /\ DOMAIN journal' = {}
    BY DEF Empties, Chain, WritesOf
  <1>1. Gone(g)' <=> Gone(g)
    BY <1>0 DEF Gone, Off
  <1>2. CASE Gone(g)
    BY <1>1, <1>2 DEF Placed
  <1>3. CASE Kept(g)
    <2>1. Kept(g)'
      BY <1>0, <1>3 DEF Kept
    <2> QED BY <1>1, <2>1 DEF Placed
  <1>4. ASSUME NEW i \in DOMAIN journal, Pending(g, i) PROVE Placed(g)'
    <2>1. Kept(g)'
      BY <1>0, <1>4 DEF Pending, Kept
    <2> QED BY <2>1 DEF Placed
  <1> QED BY <1>1, <1>2, <1>3, <1>4 DEF Placed

\* A call writes: one more write is its own, and nobody else's.
LEMMA WriteOf ==
    ASSUME TypeOK, NEW f \in Flows, written' = [written EXCEPT ![f] = @ + 1]
    PROVE  /\ \A g \in Flows \ {f} : WritesOf(g)' = WritesOf(g) /\ <<f, written[f] + 1>> \notin WritesOf(g)
           /\ WritesOf(f)' = WritesOf(f) \cup {<<f, written[f] + 1>>}
           /\ written[f] \in Nat
  <1>1. written[f] \in Nat /\ written'[f] = written[f] + 1
    BY BoundsAssumption DEF TypeOK, WriteType
  <1>2. 1 .. written[f] + 1 = 1 .. written[f] \cup {written[f] + 1}
    BY <1>1
  <1>3. WritesOf(f)' = WritesOf(f) \cup {<<f, written[f] + 1>>}
    BY <1>1, <1>2 DEF WritesOf
  <1>4. ASSUME NEW g \in Flows \ {f}
        PROVE  WritesOf(g)' = WritesOf(g) /\ <<f, written[f] + 1>> \notin WritesOf(g)
    BY DEF WritesOf, TypeOK, WriteType
  <1> QED BY <1>1, <1>3, <1>4

\* What the statement of a write does to the frames.
LEMMA WriteLast ==
    ASSUME TypeOK, NEW w, ExecWrite(w), Len(journal) \in DOMAIN journal
    PROVE  /\ DOMAIN journal' = DOMAIN journal /\ durable' = durable
           /\ \A i \in DOMAIN journal :
                 /\ journal'[i].by = journal[i].by
                 /\ journal'[i].writes = IF i = Len(journal) THEN journal[i].writes \cup {w} ELSE journal[i].writes
  <1>1. journal # <<>> /\ \A i \in DOMAIN journal : journal[i] \in Frames
    BY DEF TypeOK, EngineType
  <1>2. journal' = [journal EXCEPT ![Len(journal)].writes = @ \cup {w}] /\ durable' = durable
    BY <1>1 DEF ExecWrite
  <1> QED BY <1>1, <1>2 DEF Frames

\* The others' writes stay where they are.
LEMMA WriteOthers ==
    ASSUME TypeOK, NEW f \in Flows, Len(journal) \in DOMAIN journal, ExecWrite(<<f, written[f] + 1>>),
           written' = [written EXCEPT ![f] = @ + 1], openTx' = openTx,
           NEW g \in Flows \ {f}, call'[g] = call[g], Placed(g)
    PROVE  Placed(g)' /\ (Gone(g)' <=> Gone(g))
  <1> DEFINE w == <<f, written[f] + 1>>
  <1>0. WritesOf(g)' = WritesOf(g) /\ w \notin WritesOf(g) /\ Chain(g)' = Chain(g)
    BY WriteOf DEF Chain
  <1> HIDE DEF w
  <1>1. /\ DOMAIN journal' = DOMAIN journal /\ durable' = durable
        /\ \A i \in DOMAIN journal :
              /\ journal'[i].by = journal[i].by /\ journal[i].writes \subseteq journal'[i].writes
              /\ journal'[i].writes \subseteq journal[i].writes \cup {w}
    BY WriteLast DEF w
  <1>2. Gone(g)' <=> Gone(g)
    <2>1. \A i \in DOMAIN journal : Off(g, journal[i].writes)' <=> Off(g, journal[i].writes)
      BY <1>0, <1>1 DEF Off
    <2> QED BY <1>0, <1>1, <2>1 DEF Gone, Off
  <1>3. Kept(g) => Kept(g)'
    BY <1>0, <1>1 DEF Kept
  <1>4. ASSUME NEW i \in DOMAIN journal, Pending(g, i) PROVE Pending(g, i)'
    BY <1>0, <1>1, <1>4 DEF Pending, Off
  <1> QED BY <1>1, <1>2, <1>3, <1>4 DEF Placed

\* The writer's own go to the last frame, if the others of its own are there.
LEMMA WriteOwn ==
    ASSUME TypeOK, MadeInv, NEW f \in Flows, Len(journal) \in DOMAIN journal, ExecWrite(<<f, written[f] + 1>>),
           written' = [written EXCEPT ![f] = @ + 1], openTx' = openTx,
           written[f] = 0 \/ Pending(f, Len(journal)),
           journal[Len(journal)].by \in Chain(f)'
    PROVE  Placed(f)' /\ ~ Gone(f)'
  <1> DEFINE w == <<f, written[f] + 1>>
  <1>0. /\ WritesOf(f)' = WritesOf(f) \cup {w} /\ w[1] = f /\ w[2] = written[f] + 1
        /\ written[f] \in Nat
    BY WriteOf
  <1>n. PICK n \in DOMAIN journal : n = Len(journal)
    OBVIOUS
  <1>d. DOMAIN journal = 1 .. n
    BY <1>n DEF TypeOK, EngineType
  <1>1. /\ w \notin durable /\ \A i \in DOMAIN journal : w \notin journal[i].writes
    BY <1>0 DEF MadeInv, WritesIn
  <1>2. /\ WritesOf(f) \subseteq journal[n].writes
        /\ Off(f, durable) /\ \A j \in DOMAIN journal : j # n => Off(f, journal[j].writes)
    <2>1. CASE written[f] = 0
      BY <2>1 DEF Off, WritesOf
    <2>2. CASE Pending(f, Len(journal))
      BY <1>n, <2>2 DEF Pending
    <2> QED BY <2>1, <2>2
  <1>3. /\ DOMAIN journal' = DOMAIN journal /\ durable' = durable
        /\ \A i \in DOMAIN journal :
              /\ journal'[i].by = journal[i].by
              /\ journal'[i].writes = IF i = n THEN journal[i].writes \cup {w} ELSE journal[i].writes
    BY <1>n, WriteLast
  <1> HIDE DEF w
  <1>4. Pending(f, n)'
    <2>1. WritesOf(f)' \subseteq journal'[n].writes
      BY <1>0, <1>2, <1>3
    <2>2. Off(f, durable)'
      BY <1>0, <1>1, <1>2, <1>3 DEF Off
    <2>3. \A j \in DOMAIN journal' : j # n => Off(f, journal[j].writes)'
      BY <1>0, <1>1, <1>2, <1>3 DEF Off
    <2>4. \A j \in DOMAIN journal' : ~ j > n
      BY <1>d, <1>3
    <2> QED BY <1>n, <1>3, <2>1, <2>2, <2>3, <2>4 DEF Pending
  <1>5. ~ Gone(f)'
    BY <1>0, <1>3 DEF Gone, Off
  <1> QED BY <1>3, <1>4, <1>5 DEF Placed

\* A transaction begins: its frame is empty, and nothing else moves.
LEMMA FramePlaces ==
    ASSUME TypeOK, NEW f \in Flows, journal' = Append(journal, Frame(f)), openTx' = openTx \cup {f},
           UNCHANGED <<durable, written>>, written[f] = 0,
           NEW g \in Flows, Placed(g), g # f => f \notin Chain(g) /\ call'[g] = call[g]
    PROVE  Placed(g)' /\ (Gone(g)' <=> Gone(g)) /\ (g = f => Gone(g)')
  <1>0. WritesOf(g)' = WritesOf(g)
    BY DEF WritesOf
  <1>1. /\ DOMAIN journal' = DOMAIN journal \cup {Len(journal) + 1}
        /\ journal'[Len(journal) + 1] = Frame(f)
        /\ \A i \in DOMAIN journal : journal'[i] = journal[i]
    BY DEF TypeOK, EngineType
  <1>2. Frame(f).by = f /\ Frame(f).writes = {}
    BY DEF Frame
  <1>3. Gone(g)' <=> Gone(g)
    BY <1>0, <1>1, <1>2 DEF Gone, Off
  <1>4. CASE g = f
    <2>1. WritesOf(g) = {}
      BY <1>4 DEF WritesOf
    <2>2. Gone(g)
      BY <2>1 DEF Gone, Off
    <2> QED BY <1>3, <2>2 DEF Placed
  <1>5. CASE g # f
    <2>1. Chain(g)' = Chain(g)
      BY <1>5 DEF Chain
    <2>2. Kept(g) => Kept(g)'
      BY <1>0, <1>5, <2>1 DEF Kept
    <2>3. ASSUME NEW i \in DOMAIN journal, Pending(g, i) PROVE Pending(g, i)'
      BY <1>0, <1>1, <1>2, <1>5, <2>1, <2>3 DEF Pending, Off
    <2> QED BY <1>1, <1>3, <1>5, <2>2, <2>3 DEF Placed
  <1> QED BY <1>4, <1>5

-----------------------------------------------------------------------------
(* What the steps do to the relations of the calls and to their outcomes.   *)

\* A flow moves on: what it is within does not change.
LEMMA MoveRelated ==
    ASSUME TypeOK, \A g \in Flows : Related(g), NEW f \in Flows, NEW s, Moves(f, s), UNCHANGED call,
           pc[f] # "idle", s \notin {"idle", "waiting", "granted", "disposing"},
           s = "resolved" => call[f].role # "manual",
           s = "catching" => call[f].role = "callback" /\ ~ tx'[f].done,
           \A g \in Flows \ {f} : tx'[g] = tx[g] /\ written'[g] = written[g]
    PROVE  \A g \in Flows : Related(g)'
  <1> SUFFICES ASSUME NEW g \in Flows PROVE Related(g)'
    OBVIOUS
  <1>1. \A h \in call[g].around : h \in Flows
    BY DEF TypeOK, CallType
  <1>2. \A h \in call[g].around : pc'[h] \notin {"idle", "waiting", "granted"}
    BY <1>1 DEF Related, Moves
  <1>3. CASE g = f
    BY <1>2, <1>3 DEF Related, Moves
  <1>4. CASE g # f
    <2>1. Related(g) /\ call'[g] = call[g] /\ tx'[g] = tx[g] /\ written'[g] = written[g]
      BY <1>4
    <2>2. pc'[g] = pc[g] \/ (pc[g] = "waiting" /\ pc'[g] = "granted")
      BY <1>4 DEF Moves
    <2>3. /\ pc'[g] = "idle" => pc[g] = "idle"
          /\ pc'[g] \in {"idle", "waiting", "granted"} => pc[g] \in {"idle", "waiting", "granted"}
          /\ pc'[g] \in {"resolved", "catching", "disposing"} => pc[g] = pc'[g]
      BY <2>2
    <2>4. \A h \in call[g].around : call'[h] = call[h]
      BY <1>1
    <2> QED BY <1>2, <2>1, <2>3, <2>4 DEF Related
  <1> QED BY <1>3, <1>4

\* Who is rejected stays so, and nobody else is when f moves on to s.
LEMMA MoveUndone ==
    ASSUME TypeOK, NEW f \in Flows, NEW s, Moves(f, s), UNCHANGED call, pc[f] # "rejected", NEW g \in Flows
    PROVE  /\ Undone(g) => Undone(g)'
           /\ Undone(g)' => Undone(g) \/ (s = "rejected" /\ f \in Chain(g))
           /\ s = "rejected" /\ f \in Chain(g) => Undone(g)'
  <1>1. \A h \in Chain(g) : h \in Flows
    BY DEF TypeOK, CallType, Chain
  <1> QED BY <1>1 DEF Undone, Chain, Moves

\* A flow moves on, and leaves the engine and the transactions alone.
LEMMA QuietOut ==
    ASSUME TypeOK, OutInv, NEW f \in Flows, NEW s, Moves(f, s),
           UNCHANGED <<call, openTx, conn, engineVars, written>>,
           pc[f] \notin {"idle", "rejected"}, s \notin {"idle", "waiting", "granted", "disposing", "rejected"},
           s = "resolved" => call[f].role # "manual",
           s = "catching" => call[f].role = "callback" /\ ~ tx'[f].done,
           \A g \in Flows \ {f} : tx'[g] = tx[g]
    PROVE  OutInv'
  <1>1. \A g \in Flows : Related(g)'
    BY MoveRelated DEF OutInv
  <1>2. Stacked'
    BY DEF OutInv, Stacked, HasFrame, engineVars
  <1>3. ASSUME NEW g \in Flows PROVE Placed(g)' /\ Accounted(g)'
    <2>1. Gone(g)' <=> Gone(g)
      BY DEF Gone, Off, WritesOf, engineVars
    <2>2. Placed(g)'
      BY DEF OutInv, Placed, Gone, Kept, Pending, Off, WritesOf, Chain, engineVars
    <2>3. Undone(g)' <=> Undone(g)
      BY MoveUndone
    <2> QED BY <2>1, <2>2, <2>3 DEF OutInv, Accounted
  <1> QED BY <1>1, <1>2, <1>3 DEF OutInv

\* A step that leaves all of it as it is.
LEMMA SameOut ==
    ASSUME OutInv, UNCHANGED <<pc, call, openTx, tx, conn, engineVars, written>>
    PROVE  OutInv'
  <1>1. Stacked'
    BY DEF OutInv, Stacked, HasFrame, engineVars
  <1>2. ASSUME NEW g \in Flows PROVE Related(g)' /\ Placed(g)' /\ Accounted(g)'
    <2>1. Related(g)'
      BY DEF OutInv, Related
    <2>2. Placed(g)'
      BY DEF OutInv, Placed, Gone, Kept, Pending, Off, WritesOf, Chain, engineVars
    <2>3. Accounted(g)'
      BY DEF OutInv, Accounted, Gone, Off, Undone, WritesOf, Chain, engineVars
    <2> QED BY <2>1, <2>2, <2>3
  <1> QED BY <1>1, <1>2 DEF OutInv

\* The frames that are left are stacked as they were.
LEMMA StackedLess ==
    ASSUME TypeOK, NestInv, Stacked, UNCHANGED call, NEW f \in openTx, openTx' = openTx \ {f},
           Len(journal) \in DOMAIN journal, journal[Len(journal)].by = f,
           DOMAIN journal' = 1 .. Len(journal) - 1,
           \A i \in DOMAIN journal' : i \in DOMAIN journal /\ journal'[i].by = journal[i].by
    PROVE  Stacked'
  <1>1. \A i, j \in DOMAIN journal' : i < j => journal'[i].by \in call'[journal'[j].by].around
    BY DEF Stacked
  <1>2. ASSUME NEW g \in openTx \ {f} PROVE \E i \in DOMAIN journal' : journal'[i].by = g
    <2>1. PICK i \in DOMAIN journal : journal[i].by = g
      BY DEF Stacked, HasFrame
    <2>2. i # Len(journal) /\ DOMAIN journal = 1 .. Len(journal) /\ Len(journal) \in Nat
      BY <2>1 DEF TypeOK, EngineType
    <2>3. i \in DOMAIN journal'
      BY <2>2
    <2> QED BY <2>1, <2>3
  <1>3. \A g \in openTx' : HasFrame(g)'
    BY <1>2 DEF HasFrame
  <1> QED BY <1>1, <1>3 DEF Stacked

\* A transaction ends in the engine: a rollback undoes its whole chain, a commit
\* undoes nothing.
LEMMA EndOut ==
    ASSUME TypeOK, LockInv, NestInv, MadeInv, OutInv, NEW f \in openTx, Innermost(f),
           NEW s \in {"draining", "open", "rejected", "disposed"}, Moves(f, s),
           UNCHANGED <<call, conn, written>>, openTx' = openTx \ {f},
           \A g \in Flows \ {f} : tx'[g] = tx[g],
           \/ s = "draining" /\ ExecCommit(f)
           \/ s # "draining" /\ ExecRollback(f) /\ (s = "rejected" \/ call[f].role = "manual")
    PROVE  OutInv'
  <1>0. f \in Flows /\ Working(f) /\ openTx \subseteq Flows
    BY DEF NestInv, InUse, TypeOK, TxType
  <1>1. \A g \in Flows : Related(g)'
    BY <1>0, MoveRelated DEF OutInv, Working
  <1>2. pc[f] # "rejected"
    BY <1>0 DEF Working
  <1>3. conn = 0 /\ Stacked /\ CanEnd(f)
    BY OpenCanEnd DEF OutInv
  <1>4. \A g \in Flows : /\ Related(g) /\ Placed(g) /\ Accounted(g)
                         /\ \A h \in call[g].around : call[h].around \subseteq call[g].around
    BY DEF OutInv, Related
  <1>5. ASSUME Pops(f), s # "draining", s = "rejected" \/ call[f].role = "manual" PROVE OutInv'
    <2>1. Stacked'
      BY <1>3, <1>5, StackedLess DEF Pops
    <2>2. ASSUME NEW g \in Flows PROVE Placed(g)' /\ Accounted(g)'
      <3>1. /\ Placed(g)' /\ (Gone(g) => Gone(g)') /\ (f \in Chain(g) => Gone(g)')
            /\ Gone(g)' => Gone(g) \/ f \in Chain(g)
        BY <1>4, <1>5, PopPlaces
      <3>2. /\ Undone(g) => Undone(g)'
            /\ Undone(g)' => Undone(g) \/ (s = "rejected" /\ f \in Chain(g))
            /\ s = "rejected" /\ f \in Chain(g) => Undone(g)'
        BY <1>0, <1>2, MoveUndone
      <3>3. f \in Chain(g) /\ s # "rejected" => f = g /\ call[g].role = "manual"
        BY <1>4, <1>5 DEF Chain, Related
      <3>4. Accounted(g)'
        BY <1>4, <3>1, <3>2, <3>3 DEF Accounted
      <3> QED BY <3>1, <3>4
    <2> QED BY <1>1, <1>3, <2>1, <2>2 DEF OutInv
  <1>6. ASSUME s = "draining", NEW g \in Flows, Placed(g)', Gone(g)' <=> Gone(g) PROVE Accounted(g)'
    <2>1. Undone(g)' <=> Undone(g)
      BY <1>0, <1>2, <1>6, MoveUndone
    <2> QED BY <1>4, <1>6, <2>1 DEF Accounted
  <1>7. ASSUME Merges(f), s = "draining" PROVE OutInv'
    <2>1. Stacked'
      BY <1>3, <1>7, StackedLess DEF Merges
    <2>2. ASSUME NEW g \in Flows PROVE Placed(g)' /\ Accounted(g)'
      BY <1>3, <1>4, <1>6, <1>7, MergePlaces
    <2> QED BY <1>1, <1>3, <2>1, <2>2 DEF OutInv
  <1>8. ASSUME Empties(f), s = "draining" PROVE OutInv'
    <2>1. DOMAIN journal = {1}
      BY <1>8 DEF Empties, TypeOK, EngineType
    <2>2. openTx' = {}
      BY <1>3, <1>8, <2>1 DEF Stacked, HasFrame, Empties
    <2>3. Stacked'
      BY <1>8, <2>2 DEF Stacked, Empties
    <2>4. ASSUME NEW g \in Flows PROVE Placed(g)' /\ Accounted(g)'
      BY <1>4, <1>6, <1>8, <2>1, <2>2, EmptyPlaces
    <2> QED BY <1>1, <1>3, <2>3, <2>4 DEF OutInv
  <1> QED BY <1>3, <1>5, <1>7, <1>8, RollbackPops, CommitMerges

\* tx.commit(), tx.rollback() and the dispose of a handle: a transaction that is
\* open ends in the engine, and one that is not leaves it alone.
LEMMA SettleOut ==
    ASSUME Nesting = "sequential", TypeOK, LockInv, NestInv, MadeInv, OutInv, UNCHANGED <<call, conn, written>>,
           NEW f \in Flows, pc[f] \in {"open", "catching"} \/ (pc[f] = "disposed" /\ call[f].role = "manual"),
           call[f].role = "callback" /\ pc[f] = "open" => ~ Suspended(f),
           NEW s \in {"draining", "open", "rejected", "disposed"},
           \/ s = "draining" /\ txCommit(f, s)
           \/ s # "draining" /\ (txRollback(f, s) \/ dispose(f, s)),
           IF s = "rejected" THEN call[f].role = "callback"
           ELSE s = "draining" \/ call[f].role = "manual"
    PROVE  OutInv'
  <1>0. /\ InUse(f) /\ Related(f) /\ Stacked /\ conn = 0
        /\ (f \in openTx => CanEnd(f))
    BY OpenCanEnd DEF NestInv, OutInv
  <1>1. \/ txCommit(f, s) \/ txRollback(f, s)
        \/ txRelease(f, s) /\ (tx[f].settled \/ RollbackThrows(f))
    BY DEF dispose
  <1>2. Moves(f, s) /\ openTx' = openTx \ {f} /\ \A g \in Flows \ {f} : tx'[g] = tx[g]
    BY <1>1, UnlockMoves DEF txCommit, txRollback, txRelease, TypeOK, TxType
  <1>3. CASE f \in openTx
    <2>1. ~ tx[f].done /\ ~ tx[f].settled /\ CanEnd(f)
      BY <1>0, <1>3 DEF InUse
    <2>2. Innermost(f)
      BY <1>0, <1>3, InnermostIs
    <2>3. \/ s = "draining" /\ ExecCommit(f)
          \/ s # "draining" /\ ExecRollback(f)
      BY <2>1 DEF txCommit, txRollback, dispose, RollbackThrows
    <2> QED BY <1>2, <1>3, <2>2, <2>3, EndOut
  <1>4. CASE f \notin openTx
    <2>1. UNCHANGED engineVars
      <3> SUFFICES ASSUME ~ UNCHANGED engineVars PROVE FALSE
        OBVIOUS
      <3>1. ~ tx[f].done /\ CanEnd(f)
        BY <1>1 DEF txCommit, txRollback, txRelease
      <3> QED BY <1>4, <3>1, EndIsOpen DEF HasEnded, Ended
    <2>2. s # "rejected"
      <3> SUFFICES ASSUME s = "rejected" PROVE FALSE
        OBVIOUS
      <3>1. call[f].role = "callback" /\ pc[f] \in {"open", "catching"} /\ ~ tx[f].done
        BY <1>0 DEF InUse, Related
      <3>2. f \in openTx
        BY <1>0, <3>1 DEF InUse, Working
      <3> QED BY <1>4, <3>2
    <2>3. openTx' = openTx
      BY <1>2, <1>4
    <2> QED BY <1>2, <2>1, <2>2, <2>3, QuietOut
  <1> QED BY <1>3, <1>4

-----------------------------------------------------------------------------
(* The steps that write. *)

\* An open transaction writes.
LEMMA BodyWritesOut ==
    ASSUME Nesting = "sequential", ~ LateWrites, TypeOK, LockInv, NestInv, MadeInv, OutInv, NEW f \in Flows, BodyWrites(f)
    PROVE  OutInv'
  <1>1. /\ pc[f] = "open" /\ ~ tx[f].done /\ ~ Suspended(f) /\ ExecWrite(<<f, written[f] + 1>>)
        /\ written' = [written EXCEPT ![f] = @ + 1] /\ UNCHANGED <<pc, call, openTx, tx, conn>>
    BY TimelyWrites DEF BodyWrites, ModelWrite, lockVars
  <1>2. f \in openTx
    BY <1>1 DEF NestInv, InUse, Working
  <1>3. Innermost(f)
    BY <1>1, <1>2, InnermostIs DEF OutInv
  <1>n. Len(journal) \in DOMAIN journal /\ journal[Len(journal)].by = f
    BY <1>3 DEF Innermost
  <1>4. \A h \in Chain(f) : pc[h] = "open"
    <2>1. Enclosed(f) /\ Active(f)
      BY <1>1 DEF NestInv, Active, Ended
    <2> QED BY <1>1, <2>1 DEF Enclosed, Chain
  <1>5. written[f] = 0 \/ Pending(f, Len(journal))
    <2> SUFFICES ASSUME written[f] # 0 PROVE Pending(f, Len(journal))
      OBVIOUS
    <2>1. written[f] > 0 /\ Placed(f) /\ Accounted(f)
      BY BoundsAssumption DEF TypeOK, WriteType, OutInv
    <2>2. ~ Undone(f)
      BY <1>4 DEF Undone
    <2>3. ~ Gone(f)
      BY <1>2, <2>1, <2>2 DEF Accounted
    <2>4. ~ Kept(f)
      BY <1>2 DEF Kept, Chain
    <2>5. PICK i \in DOMAIN journal : Pending(f, i)
      BY <2>1, <2>3, <2>4 DEF Placed
    <2>6. ~ Len(journal) > i
      BY <1>n, <2>5 DEF Pending, Chain
    <2>7. i = Len(journal)
      BY <2>6 DEF TypeOK, EngineType
    <2> QED BY <2>5, <2>7
  <1>6. Placed(f)' /\ ~ Gone(f)'
    <2>1. journal[Len(journal)].by \in Chain(f)'
      BY <1>n DEF Chain
    <2> QED BY <1>1, <1>5, <1>n, <2>1, WriteOwn
  <1>7. ASSUME NEW g \in Flows PROVE Placed(g)' /\ Accounted(g)'
    <2>1. Undone(g)' <=> Undone(g)
      BY <1>1 DEF Undone, Chain
    <2>2. CASE g = f
      <3>1. ~ Undone(f)
        BY <1>4 DEF Undone
      <3> QED BY <1>6, <2>1, <2>2, <3>1 DEF Accounted
    <2>3. CASE g # f
      <3>1. Placed(g)' /\ (Gone(g)' <=> Gone(g))
        BY <1>1, <1>n, <2>3, WriteOthers DEF OutInv
      <3>2. written'[g] = written[g]
        BY <1>1, <2>3 DEF TypeOK, WriteType
      <3> QED BY <1>1, <2>1, <3>1, <3>2 DEF OutInv, Accounted
    <2> QED BY <2>2, <2>3
  <1>8. Stacked'
    <2>1. /\ DOMAIN journal' = DOMAIN journal
          /\ \A i \in DOMAIN journal : journal'[i].by = journal[i].by
      BY <1>1, <1>n, WriteLast
    <2> QED BY <1>1, <2>1 DEF OutInv, Stacked, HasFrame
  <1>9. \A g \in Flows : Related(g)'
    <2>1. Moves(f, "open")
      BY <1>1 DEF Moves
    <2>2. \A g \in Flows \ {f} : written'[g] = written[g]
      BY <1>1 DEF TypeOK, WriteType
    <2> QED BY <1>1, <2>1, <2>2, MoveRelated DEF OutInv
  <1> QED BY <1>1, <1>7, <1>8, <1>9 DEF OutInv

\* A plain call that had to wait writes by itself.
LEMMA PlainWorksOut ==
    ASSUME TypeOK, LockInv, NestInv, OutInv, NEW f \in Flows, PlainWorks(f)
    PROVE  OutInv'
  <1>1. /\ pc[f] = "granted" /\ ExecWrite(<<f, written[f] + 1>>) /\ releaseLock(f, "draining")
        /\ written' = [written EXCEPT ![f] = @ + 1] /\ UNCHANGED <<call, openTx, tx, conn>>
    BY DEF PlainWorks, ModelWrite
  <1>2. journal = <<>> /\ openTx = {}
    BY <1>1, GrantedClean
  <1>3. Moves(f, "draining")
    BY <1>1, ReleaseMoves
  <1> DEFINE w == <<f, written[f] + 1>>
  <1>4. journal' = <<>> /\ durable' = durable \cup {w}
    BY <1>1, <1>2 DEF ExecWrite
  <1>5. /\ \A g \in Flows \ {f} : WritesOf(g)' = WritesOf(g) /\ w \notin WritesOf(g)
        /\ WritesOf(f)' = WritesOf(f) \cup {w}
    BY <1>1, WriteOf
  <1> HIDE DEF w
  <1>6. Related(f) /\ InUse(f) /\ Placed(f) /\ Accounted(f)
    BY DEF OutInv, NestInv
  <1>7. call[f].around = {} /\ Chain(f) = {f} /\ WritesOf(f) = {}
    <2>1. call[f].top = f /\ written[f] = 0
      BY <1>1, <1>6 DEF InUse, Related
    <2>2. call[f].around = {}
      BY <1>6, <2>1 DEF Related
    <2> QED BY <2>1, <2>2 DEF Chain, WritesOf
  <1>8. Placed(f)' /\ Accounted(f)'
    <2>1. Kept(f)'
      BY <1>1, <1>2, <1>4, <1>5, <1>7 DEF Kept
    <2>2. ~ Gone(f)'
      BY <1>4, <1>5 DEF Gone, Off
    <2>3. ~ Undone(f)'
      BY <1>1, <1>3, <1>7 DEF Undone, Chain, Moves
    <2> QED BY <2>1, <2>2, <2>3 DEF Placed, Accounted
  <1>9. ASSUME NEW g \in Flows \ {f} PROVE Placed(g)' /\ Accounted(g)'
    <2>1. Gone(g)' <=> Gone(g)
      BY <1>2, <1>4, <1>5 DEF Gone, Off
    <2>2. Kept(g) => Kept(g)'
      BY <1>1, <1>4, <1>5 DEF Kept, Chain
    <2>3. Gone(g) \/ Kept(g)
      BY <1>2 DEF OutInv, Placed
    <2>4. Undone(g)' <=> Undone(g)
      BY <1>1, <1>3, MoveUndone
    <2>5. written'[g] = written[g]
      BY <1>1 DEF TypeOK, WriteType
    <2> QED BY <1>1, <2>1, <2>2, <2>3, <2>4, <2>5 DEF OutInv, Placed, Accounted
  <1>10. Stacked'
    BY <1>1, <1>2, <1>4 DEF Stacked
  <1>11. \A g \in Flows : Related(g)'
    <2>1. \A g \in Flows \ {f} : written'[g] = written[g]
      BY <1>1 DEF TypeOK, WriteType
    <2> QED BY <1>1, <1>3, <2>1, MoveRelated DEF OutInv
  <1> QED BY <1>1, <1>8, <1>9, <1>10, <1>11 DEF OutInv

-----------------------------------------------------------------------------
(* The calls that start. *)

\* A callback that makes a call is the innermost transaction, and what the call
\* is within follows.
LEMMA EnterOut ==
    ASSUME Nesting = "sequential", ~ LateWrites, TypeOK, NestInv, OutInv, NEW f \in Flows, NEW r \in Roles,
           NEW p \in Flows \cup {NoFlow}, Enter(f, r, p),
           NEW s \in {"open", "waiting", "granted", "draining", "refused"}, pc' = [pc EXCEPT ![f] = s],
           \A g \in Flows \ {f} : tx'[g] = tx[g] /\ written'[g] = written[g],
           s \in {"waiting", "granted"} => written'[f] = written[f]
    PROVE  /\ Entered(f, r, p) /\ \A g \in Flows : Related(g)'
           /\ \A g \in Flows \ {f} : f \notin Chain(g) /\ (Undone(g)' <=> Undone(g))
           /\ ~ Undone(f)' /\ written[f] = 0 /\ f \notin openTx
           /\ p # NoFlow => p \in openTx /\ p # f /\ Innermost(p)
  <1>0. Entered(f, r, p) /\ p \in Scopes(f)
    BY EnterScope DEF Awaits, Enter
  <1>1. /\ pc[f] = "idle" /\ f \notin openTx
        /\ \A g \in Flows \ {f} : call'[g] = call[g] /\ pc'[g] = pc[g]
        /\ pc'[f] = s
    BY <1>0 DEF Entered, TypeOK, MutexType
  <1>2. \A g \in Flows : Related(g) /\ call[g].around \subseteq Flows
    BY DEF OutInv, TypeOK, CallType
  <1>3. \A g \in Flows : f \notin call[g].around
    BY <1>1, <1>2 DEF Related
  <1>4. written[f] = 0
    BY <1>1, <1>2 DEF Related
  <1>5. ASSUME NEW g \in Flows \ {f}
        PROVE  Related(g)' /\ f \notin Chain(g) /\ (Undone(g)' <=> Undone(g))
    <2>1. \A h \in call[g].around : h \in Flows \ {f} /\ call'[h] = call[h] /\ pc'[h] = pc[h]
      BY <1>1, <1>2, <1>3
    <2>2. Related(g)'
      <3>1. /\ call'[g] = call[g] /\ pc'[g] = pc[g] /\ tx'[g] = tx[g] /\ written'[g] = written[g]
            /\ Related(g)
        BY <1>1, <1>2
      <3> QED BY <2>1, <3>1 DEF Related
    <2>3. Chain(g)' = Chain(g) /\ \A h \in Chain(g) : pc'[h] = pc[h]
      BY <1>1, <2>1 DEF Chain
    <2> QED BY <1>3, <2>2, <2>3 DEF Chain, Undone
  <1>6. CASE p = NoFlow
    <2>1. call'[f].top = f /\ call'[f].around = {}
      BY <1>0, <1>6 DEF Entered
    <2>2. Related(f)' /\ ~ Undone(f)'
      BY <1>1, <1>4, <2>1 DEF Related, Undone, Chain
    <2> QED BY <1>0, <1>1, <1>4, <1>5, <1>6, <2>2
  <1>7. CASE p # NoFlow
    <2>1. /\ p \in openTx /\ p \in Flows \ {f} /\ call[p].role = "callback" /\ pc[p] = "open"
          /\ call'[f].top = call[p].top /\ call'[f].around = call[p].around \cup {p}
      BY <1>0, <1>7 DEF Entered, isReentrant
    <2>2. ~ Suspended(p)
      BY <1>0, <1>7 DEF Scopes, MayCall
    <2>3. Innermost(p)
      BY <2>1, <2>2, InnermostIs DEF OutInv
    <2>4. Enclosed(p) /\ Active(p)
      BY <2>1 DEF NestInv, Active, Ended
    <2>5. ASSUME NEW h \in call'[f].around
          PROVE  /\ h \in Flows \ {f} /\ call'[h] = call[h] /\ pc'[h] = "open" /\ call[h].role = "callback"
                 /\ call[h].around \subseteq call'[f].around
      <3>1. CASE h = p
        BY <1>1, <2>1, <3>1
      <3>2. CASE h \in call[p].around
        <4>1. h \in Flows \ {f} /\ pc[h] = "open" /\ call[h].role = "callback"
          BY <1>2, <1>3, <2>1, <2>4, <3>2 DEF Enclosed
        <4>2. call[h].around \subseteq call[p].around
          BY <1>2, <2>1, <3>2 DEF Related
        <4> QED BY <1>1, <2>1, <4>1, <4>2
      <3> QED BY <2>1, <3>1, <3>2
    <2>6. call'[f].top \in call'[f].around /\ call'[f].around # {} /\ f \notin call'[f].around
      <3>1. call[p].top \in {p} \cup call[p].around
        BY <1>2, <2>1 DEF Related
      <3> QED BY <2>1, <2>5, <3>1
    <2>7. Related(f)'
      BY <1>1, <1>4, <2>5, <2>6 DEF Related
    <2>8. ~ Undone(f)'
      BY <1>1, <2>5 DEF Undone, Chain
    <2> QED BY <1>0, <1>1, <1>4, <1>5, <2>1, <2>3, <2>7, <2>8
  <1> QED BY <1>6, <1>7

\* A savepoint goes on top of the innermost frame.
LEMMA BeginNestedOut ==
    ASSUME Nesting = "sequential", ~ LateWrites, TypeOK, LockInv, NestInv, OutInv, NEW f \in Flows, NEW r \in Roles,
           NEW p \in Flows \cup {NoFlow}, BeginNested(f, r, p)
    PROVE  OutInv'
  <1>1. /\ Enter(f, r, p) /\ isReentrant(p) /\ pc' = [pc EXCEPT ![f] = "open"]
        /\ journal' = Append(journal, Frame(f)) /\ openTx' = openTx \cup {f}
        /\ UNCHANGED <<conn, durable, written>>
        /\ \A g \in Flows \ {f} : tx'[g] = tx[g]
    BY DEF BeginNested, TypeOK, TxType
  <1>2. /\ Entered(f, r, p) /\ \A g \in Flows : Related(g)'
        /\ \A g \in Flows \ {f} : f \notin Chain(g) /\ (Undone(g)' <=> Undone(g))
        /\ ~ Undone(f)' /\ written[f] = 0 /\ f \notin openTx
        /\ p # NoFlow => p \in openTx /\ p # f /\ Innermost(p)
    BY <1>1, EnterOut
  <1>3. /\ p \in openTx /\ Innermost(p) /\ call'[f].around = call[p].around \cup {p}
        /\ \A g \in Flows \ {f} : call'[g] = call[g]
    BY <1>1, <1>2 DEF Entered
  <1>4. ASSUME NEW g \in Flows PROVE Placed(g)' /\ Accounted(g)'
    <2>1. Placed(g)' /\ (Gone(g)' <=> Gone(g)) /\ (g = f => Gone(g)')
      BY <1>1, <1>2, <1>3, FramePlaces DEF OutInv
    <2>2. CASE g = f
      BY <1>1, <1>2, <2>1, <2>2 DEF Accounted
    <2>3. CASE g # f
      BY <1>1, <1>2, <1>3, <2>1, <2>3 DEF OutInv, Accounted
    <2> QED BY <2>1, <2>2, <2>3
  <1>5. Stacked'
    <2>1. /\ Len(journal) \in Nat /\ DOMAIN journal = 1 .. Len(journal)
          /\ DOMAIN journal' = 1 .. Len(journal) + 1
          /\ journal'[Len(journal) + 1] = Frame(f)
          /\ \A i \in DOMAIN journal : journal'[i] = journal[i]
      BY <1>1 DEF TypeOK, EngineType
    <2>2. Frame(f).by = f
      BY DEF Frame
    <2>3. \A i \in DOMAIN journal : journal[i].by \in Flows \ {f}
      BY <1>2 DEF NestInv, Framed, TypeOK, TxType
    <2>4. ASSUME NEW i \in DOMAIN journal', NEW j \in DOMAIN journal', i < j
          PROVE  journal'[i].by \in call'[journal'[j].by].around
      <3>1. i \in DOMAIN journal
        BY <2>1, <2>4
      <3>2. CASE j \in DOMAIN journal
        BY <1>3, <2>1, <2>3, <2>4, <3>1, <3>2 DEF OutInv, Stacked
      <3>3. CASE j = Len(journal) + 1
        <4>1. journal[i].by \in call[p].around \cup {p}
          <5>1. CASE i = Len(journal)
            BY <1>3, <5>1 DEF Innermost
          <5>2. CASE i < Len(journal)
            BY <1>3, <3>1, <5>2 DEF Innermost, OutInv, Stacked
          <5> QED BY <2>1, <3>1, <5>1, <5>2
        <4> QED BY <1>3, <2>1, <2>2, <3>1, <3>3, <4>1
      <3> QED BY <2>1, <3>2, <3>3
    <2>5. ASSUME NEW g \in openTx' PROVE \E i \in DOMAIN journal' : journal'[i].by = g
      <3>1. CASE g = f
        BY <2>1, <2>2, <3>1
      <3>2. CASE g \in openTx
        <4>1. PICK i \in DOMAIN journal : journal[i].by = g
          BY <3>2 DEF OutInv, Stacked, HasFrame
        <4> QED BY <2>1, <4>1
      <3> QED BY <1>1, <3>1, <3>2
    <2>6. \A g \in openTx' : HasFrame(g)'
      BY <2>5 DEF HasFrame
    <2> QED BY <2>4, <2>6 DEF Stacked
  <1> QED BY <1>1, <1>2, <1>4, <1>5 DEF OutInv

\* A call that asks for the lock, or that is refused, writes nothing.
LEMMA AskForLockOut ==
    ASSUME Nesting = "sequential", ~ LateWrites, TypeOK, NestInv, OutInv, NEW f \in Flows, NEW r \in Roles,
           NEW p \in Flows \cup {NoFlow}, AskForLock(f, r, p) \/ JoinFails(f, r, p)
    PROVE  OutInv'
  <1>1. /\ Enter(f, r, p) /\ UNCHANGED <<openTx, conn, journal, durable, written>>
        /\ \A g \in Flows \ {f} : tx'[g] = tx[g]
    BY DEF AskForLock, JoinFails, lockVars, engineVars, TypeOK, TxType
  <1>2. PICK s \in {"waiting", "granted", "refused"} : pc' = [pc EXCEPT ![f] = s]
    BY DEF AskForLock, JoinFails, acquire
  <1>3. /\ Entered(f, r, p) /\ \A g \in Flows : Related(g)'
        /\ \A g \in Flows \ {f} : f \notin Chain(g) /\ (Undone(g)' <=> Undone(g))
        /\ ~ Undone(f)' /\ written[f] = 0 /\ f \notin openTx
    BY <1>1, <1>2, EnterOut
  <1>4. \A g \in Flows \ {f} : call'[g] = call[g]
    BY <1>3 DEF Entered
  <1>5. \A g \in Flows : Gone(g)' <=> Gone(g)
    BY <1>1 DEF Gone, Off, WritesOf
  <1>6. ASSUME NEW g \in Flows PROVE Placed(g)' /\ Accounted(g)'
    <2>1. CASE g = f
      <3>1. WritesOf(f) = {}
        BY <1>3 DEF WritesOf
      <3>2. Gone(f)'
        BY <1>5, <3>1 DEF Gone, Off
      <3> QED BY <1>1, <1>3, <2>1, <3>2 DEF Placed, Accounted
    <2>2. CASE g # f
      <3>1. Chain(g)' = Chain(g)
        BY <1>4, <2>2 DEF Chain
      <3>2. Placed(g)'
        BY <1>1, <1>5, <3>1 DEF OutInv, Placed, Kept, Pending, Off, WritesOf
      <3> QED BY <1>1, <1>3, <1>4, <1>5, <2>2, <3>2 DEF OutInv, Accounted
    <2> QED BY <2>1, <2>2
  <1>7. Stacked'
    <2>1. \A i \in DOMAIN journal : journal[i].by \in Flows \ {f}
      BY <1>3 DEF NestInv, Framed, TypeOK, TxType
    <2> QED BY <1>1, <1>4, <2>1 DEF OutInv, Stacked, HasFrame
  <1> QED BY <1>1, <1>3, <1>6, <1>7 DEF OutInv

\* A plain call inside an open transaction writes in the innermost frame.
LEMMA PlainJoinsOut ==
    ASSUME Nesting = "sequential", ~ LateWrites, TypeOK, LockInv, NestInv, MadeInv, OutInv, NEW f \in Flows,
           NEW p \in Flows \cup {NoFlow}, PlainJoins(f, p)
    PROVE  OutInv'
  <1>1. /\ Enter(f, "plain", p) /\ isReentrant(p) /\ pc' = [pc EXCEPT ![f] = "draining"]
        /\ ExecWrite(<<f, written[f] + 1>>) /\ written' = [written EXCEPT ![f] = @ + 1]
        /\ UNCHANGED <<openTx, conn, tx>> /\ "plain" \in Roles
    BY DEF PlainJoins, Enter, ModelWrite, lockVars
  <1>2. /\ Entered(f, "plain", p) /\ \A g \in Flows : Related(g)'
        /\ \A g \in Flows \ {f} : f \notin Chain(g) /\ (Undone(g)' <=> Undone(g))
        /\ ~ Undone(f)' /\ written[f] = 0 /\ f \notin openTx
        /\ p # NoFlow => p \in openTx /\ p # f /\ Innermost(p)
    <2>1. \A g \in Flows \ {f} : tx'[g] = tx[g] /\ written'[g] = written[g]
      BY <1>1 DEF TypeOK, WriteType
    <2> QED BY <1>1, <2>1, EnterOut
  <1>3. /\ p \in openTx /\ Innermost(p) /\ call'[f].around = call[p].around \cup {p}
        /\ \A g \in Flows \ {f} : call'[g] = call[g]
    BY <1>1, <1>2 DEF Entered
  <1>n. Len(journal) \in DOMAIN journal /\ journal[Len(journal)].by = p
    BY <1>3 DEF Innermost
  <1>4. Placed(f)' /\ ~ Gone(f)'
    <2>1. journal[Len(journal)].by \in Chain(f)'
      BY <1>3, <1>n DEF Chain
    <2> QED BY <1>1, <1>2, <1>n, <2>1, WriteOwn
  <1>5. ASSUME NEW g \in Flows PROVE Placed(g)' /\ Accounted(g)'
    <2>1. CASE g = f
      BY <1>2, <1>4, <2>1 DEF Accounted
    <2>2. CASE g # f
      <3>1. Placed(g)' /\ (Gone(g)' <=> Gone(g))
        BY <1>1, <1>3, <1>n, <2>2, WriteOthers DEF OutInv
      <3>2. written'[g] = written[g]
        BY <1>1, <2>2 DEF TypeOK, WriteType
      <3> QED BY <1>1, <1>2, <1>3, <2>2, <3>1, <3>2 DEF OutInv, Accounted
    <2> QED BY <2>1, <2>2
  <1>6. Stacked'
    <2>1. /\ DOMAIN journal' = DOMAIN journal
          /\ \A i \in DOMAIN journal : journal'[i].by = journal[i].by
      BY <1>1, <1>n, WriteLast
    <2>2. \A i \in DOMAIN journal : journal[i].by \in Flows \ {f}
      BY <1>2 DEF NestInv, Framed, TypeOK, TxType
    <2> QED BY <1>1, <1>3, <2>1, <2>2 DEF OutInv, Stacked, HasFrame
  <1> QED BY <1>1, <1>2, <1>5, <1>6 DEF OutInv

\* A transaction begins when nothing is open.
LEMMA BeginTopOut ==
    ASSUME TypeOK, LockInv, NestInv, OutInv, NEW f \in Flows, BeginTop(f)
    PROVE  OutInv'
  <1>1. /\ pc[f] = "granted" /\ journal = <<>> /\ journal' = <<Frame(f)>> /\ openTx' = openTx \cup {f}
        /\ pc' = [pc EXCEPT ![f] = "open"] /\ UNCHANGED <<call, conn, durable, written>>
        /\ \A g \in Flows \ {f} : tx'[g] = tx[g]
    BY DEF BeginTop, TypeOK, TxType
  <1>2. openTx = {}
    BY <1>1, GrantedClean
  <1>3. Moves(f, "open")
    BY <1>1, MoveAlone
  <1>4. \A g \in Flows : Related(g)'
    BY <1>1, <1>3, MoveRelated DEF OutInv
  <1>5. written[f] = 0 /\ \A g \in Flows \ {f} : f \notin Chain(g)
    BY <1>1 DEF OutInv, Related, Chain
  <1>6. journal' = Append(journal, Frame(f))
    BY <1>1
  <1>7. ASSUME NEW g \in Flows PROVE Placed(g)' /\ Accounted(g)'
    <2>1. Placed(g)' /\ (Gone(g)' <=> Gone(g)) /\ (g = f => Gone(g)')
      BY <1>1, <1>5, <1>6, FramePlaces DEF OutInv
    <2>2. Undone(g)' <=> Undone(g)
      BY <1>1, <1>3, MoveUndone
    <2>3. CASE g = f
      BY <1>1, <1>5, <2>1, <2>3 DEF Accounted
    <2>4. CASE g # f
      BY <1>1, <2>1, <2>2, <2>4 DEF OutInv, Accounted
    <2> QED BY <2>1, <2>3, <2>4
  <1>8. Stacked'
    <2>1. DOMAIN journal' = {1} /\ journal'[1].by = f /\ openTx' = {f}
      BY <1>1, <1>2 DEF Frame
    <2> QED BY <2>1 DEF Stacked, HasFrame
  <1> QED BY <1>1, <1>4, <1>7, <1>8 DEF OutInv

-----------------------------------------------------------------------------
(* Every step keeps the outcomes. *)

\* One step per action of a call.
LEMMA ContinuesOut ==
    ASSUME Nesting = "sequential", ~ LateWrites, TypeOK, LockInv, NestInv, MadeInv, OutInv, NEW f \in Flows, Continues(f)
    PROVE  OutInv'
  <1>0. Related(f) /\ InUse(f)
    BY DEF OutInv, NestInv
  <1>1. CASE BeginTop(f)
    BY <1>1, BeginTopOut
  <1>2. CASE PlainWorks(f)
    BY <1>2, PlainWorksOut
  <1>3. CASE BodyWrites(f)
    BY <1>3, BodyWritesOut
  <1>4. CASE BeginFails(f)
    <2>1. Moves(f, "refused") /\ pc[f] = "granted"
          /\ UNCHANGED <<call, openTx, conn, engineVars, written, tx>>
      BY <1>4, MoveAlone DEF BeginFails, lockVars
    <2> QED BY <2>1, QuietOut
  <1>14. CASE PlainFails(f)
    <2>1. Moves(f, "refused") /\ pc[f] = "granted"
          /\ UNCHANGED <<call, openTx, conn, engineVars, written, tx>>
      BY <1>14, ReleaseMoves DEF PlainFails
    <2> QED BY <2>1, QuietOut
  <1>5. CASE CommitFails(f) \/ BodyThrows(f)
    <2>1. /\ Moves(f, "catching") /\ pc[f] = "open" /\ call[f].role = "callback"
          /\ UNCHANGED <<call, openTx, conn, engineVars, written, tx>>
      BY <1>5, MoveAlone DEF CommitFails, BodyThrows, Returns, lockVars
    <2>2. ~ tx[f].done
      BY <1>0, <2>1 DEF InUse
    <2> QED BY <2>1, <2>2, QuietOut
  <1>6. CASE Deliver(f)
    BY <1>6, SameOut DEF Deliver, lockVars
  <1>7. CASE Drained(f)
    <2>1. PICK s \in {"open", "resolved"} :
              pc' = [pc EXCEPT ![f] = s] /\ (s = "resolved" => call[f].role # "manual")
      BY <1>7 DEF Drained
    <2>2. Moves(f, s) /\ pc[f] = "draining" /\ UNCHANGED <<call, openTx, conn, engineVars, written, tx>>
      BY <1>7, <2>1, MoveAlone DEF Drained, lockVars
    <2> QED BY <2>1, <2>2, QuietOut
  <1>8. CASE Commit(f)
    <2>1. /\ pc[f] = "open" /\ ~ Suspended(f) /\ txCommit(f, "draining")
          /\ UNCHANGED <<call, conn, written>>
      BY <1>8, ReturnsAlone DEF Commit, Returns
    <2> QED BY <2>1, SettleOut
  <1>9. CASE Rollback(f)
    <2>1. pc[f] = "catching" /\ call[f].role = "callback" /\ ~ tx[f].done
      BY <1>0, <1>9 DEF Rollback, Related
    <2>2. f \in openTx
      BY <1>0, <2>1 DEF InUse, Working
    <2>3. CanEnd(f)
      BY <2>2, OpenCanEnd DEF OutInv
    <2>4. txRollback(f, "rejected") /\ UNCHANGED <<call, conn, written>>
      BY <1>9, <2>3 DEF Rollback, RollbackThrows
    <2> QED BY <2>1, <2>4, SettleOut
  <1>10. CASE Dispose(f)
    BY <1>0, <1>10 DEF Dispose, Related
  <1>11. CASE HandleCommit(f)
    <2>1. pc[f] = "open" /\ call[f].role = "manual" /\ UNCHANGED <<call, conn, written>>
      BY <1>11 DEF HandleCommit, ManualCall
    <2>2. CASE txCommit(f, "draining")
      BY <2>1, <2>2, SettleOut
    <2>3. CASE ~ txCommit(f, "draining")
      BY <1>11, <2>3, SameOut DEF HandleCommit, lockVars
    <2> QED BY <2>2, <2>3
  <1>12. CASE HandleRollback(f)
    <2>1. pc[f] = "open" /\ call[f].role = "manual" /\ UNCHANGED <<call, conn, written>>
      BY <1>12 DEF HandleRollback, ManualCall
    <2>2. CASE txRollback(f, "open")
      BY <2>1, <2>2, SettleOut
    <2>3. CASE ~ txRollback(f, "open")
      BY <1>12, <2>3, SameOut DEF HandleRollback, lockVars
    <2> QED BY <2>2, <2>3
  <1>13. CASE HandleDispose(f)
    <2>1. /\ pc[f] \in {"open", "disposed"} /\ call[f].role = "manual" /\ UNCHANGED <<call, conn, written>>
          /\ dispose(f, "disposed")
      BY <1>13 DEF HandleDispose
    <2> QED BY <2>1, SettleOut
  <1> QED BY <1>1, <1>2, <1>3, <1>4, <1>5, <1>6, <1>7, <1>8, <1>9, <1>10, <1>11, <1>12, <1>13, <1>14 DEF Continues

\* Every step of a driver that nobody closes.
LEMMA NextOut ==
    ASSUME Nesting = "sequential", ~ LateWrites, MaxCloses = 0
    PROVE  TypeOK /\ LockInv /\ NestInv /\ MadeInv /\ OutInv /\ [Next]_vars => OutInv'
  <1> SUFFICES ASSUME TypeOK, LockInv, NestInv, MadeInv, OutInv, [Next]_vars PROVE OutInv'
    OBVIOUS
  <1>1. ASSUME NEW f \in Flows, Starts(f) PROVE OutInv'
    <2>1. PICK p \in Flows \cup {NoFlow} :
              \/ \E r \in Roles : BeginNested(f, r, p) \/ JoinFails(f, r, p) \/ AskForLock(f, r, p)
              \/ PlainJoins(f, p)
      BY <1>1 DEF Starts
    <2> QED BY <2>1, BeginNestedOut, AskForLockOut, PlainJoinsOut
  <1>2. ASSUME NEW f \in Flows, Continues(f) PROVE OutInv'
    BY <1>2, ContinuesOut
  <1>3. ~ Close
    BY DEF Close, OutInv
  <1>4. CASE UNCHANGED vars
    BY <1>4, SameOut DEF vars, lockVars
  <1> QED BY <1>1, <1>2, <1>3, <1>4 DEF Next, Quiescent

\* At the start nothing is written.
LEMMA InitOut == Init => OutInv /\ MadeInv
  <1> SUFFICES ASSUME Init PROVE OutInv /\ MadeInv
    OBVIOUS
  <1>1. conn = 0 /\ journal = <<>> /\ durable = {} /\ openTx = {}
    BY DEF Init
  <1>2. ASSUME NEW f \in Flows PROVE Related(f) /\ Placed(f) /\ Accounted(f)
    <2>1. /\ pc[f] = "idle" /\ call[f].top = f /\ call[f].around = {} /\ written[f] = 0
          /\ call[f].role = "none"
      BY DEF Init
    <2>2. Gone(f)
      BY <1>1, <2>1 DEF Gone, Off
    <2> QED BY <2>1, <2>2 DEF Related, Placed, Accounted
  <1>3. Stacked
    BY <1>1 DEF Stacked
  <1>4. MadeInv
    <2>1. WritesIn(journal) = {}
      BY <1>1 DEF WritesIn
    <2>2. \A f \in Flows : ~ tx[f].done
      BY DEF Init, NewTx
    <2> QED BY <1>1, <2>1, <2>2 DEF MadeInv
  <1> QED BY <1>1, <1>2, <1>3, <1>4 DEF OutInv

\* What the theorems of this part rest on.
LEMMA OutCorrect ==
    ASSUME Nesting = "sequential", ~ LateWrites, MaxCloses = 0
    PROVE  Spec => [](TypeOK /\ LockInv /\ NestInv /\ OutInv)
  <1>1. Awaits
    BY DEF Awaits
  <1>2. TypeOK /\ LockInv /\ NestInv /\ [Next]_vars => NestInv'
    BY <1>1, NextNest
  <1>3. TypeOK /\ LockInv /\ NestInv /\ MadeInv /\ [Next]_vars => MadeInv'
    BY NextMade
  <1>4. TypeOK /\ LockInv /\ NestInv /\ MadeInv /\ OutInv /\ [Next]_vars => OutInv'
    BY NextOut
  <1> QED BY <1>2, <1>3, <1>4, InitNest, InitOut, TypeCorrect, LockCorrect, PTL DEF Spec

\* A transaction is all or nothing, at any depth of nesting and whatever fails:
\* its writes are durable when it and those around it resolved, and none of them
\* is when one of these rejected; a disposed handle left all of its writes or
\* none (transaction(), transaction.ts; ROLLBACK TO and RELEASE, sqlite.ts).
THEOREM OutcomeCorrect ==
    ASSUME Nesting = "sequential", ~ LateWrites, MaxCloses = 0
    PROVE  Spec => []AtomicOutcome
  <1>1. TypeOK /\ NestInv /\ OutInv => AtomicOutcome
    <2> SUFFICES ASSUME TypeOK, NestInv, OutInv, NEW f \in Flows
                 PROVE  LET outcomes == {pc[g] : g \in {f} \cup call[f].around} IN
                        /\ outcomes = {"resolved"} => WritesOf(f) \subseteq durable
                        /\ "rejected" \in outcomes => WritesOf(f) \cap durable = {}
                        /\ outcomes \subseteq {"resolved", "disposed"} =>
                              WritesOf(f) \subseteq durable \/ WritesOf(f) \cap durable = {}
      BY DEF AtomicOutcome
    <2> DEFINE outcomes == {pc[g] : g \in Chain(f)}
    <2>1. Related(f) /\ Placed(f) /\ Accounted(f) /\ written[f] \in Nat
      BY BoundsAssumption DEF OutInv, TypeOK, WriteType
    <2>2. "rejected" \in outcomes => Off(f, durable)
      BY <2>1 DEF Accounted, Undone, Gone
    <2>3. ASSUME outcomes \subseteq {"resolved", "disposed"}
          PROVE  Gone(f) \/ WritesOf(f) \subseteq durable
      <3>1. \A i \in DOMAIN journal : ~ Pending(f, i)
        <4> SUFFICES ASSUME NEW i \in DOMAIN journal, Pending(f, i) PROVE FALSE
          OBVIOUS
        <4>1. PICK g \in Chain(f) : journal[i].by = g
          BY DEF Pending
        <4>2. g \in openTx /\ g \in Flows
          BY <4>1 DEF NestInv, Framed, TypeOK, TxType
        <4>3. Working(g)
          BY <4>2 DEF NestInv, InUse
        <4> QED BY <2>3, <4>1, <4>3 DEF Working
      <3> QED BY <2>1, <3>1 DEF Placed, Kept
    <2>4. ASSUME outcomes = {"resolved"} PROVE WritesOf(f) \subseteq durable
      <3>1. ~ Undone(f)
        BY <2>4 DEF Undone
      <3>2. pc[f] = "resolved"
        BY <2>4 DEF Chain
      <3>3. Gone(f) => written[f] = 0
        BY <2>1, <3>1, <3>2 DEF Accounted, Related
      <3>4. Gone(f) => WritesOf(f) = {}
        BY <3>3 DEF WritesOf
      <3> QED BY <2>3, <2>4, <3>4
    <2> QED BY <2>2, <2>3, <2>4 DEF Chain, Gone, Off
  <1> QED BY <1>1, OutCorrect, PTL

\* Hooks run only for calls that have ended in the engine.
RanInv ==
    \A i \in DOMAIN delivered : \A f \in Flows :
        delivered[i][1] = f =>
            pc[f] # "idle" /\ (call[f].role = "manual" \/ pc[f] \in {"draining", "resolved"})

\* A step that runs none of them.
LEMMA RanKeeps ==
    ASSUME TypeOK, RanInv, NEW f \in Flows, NEW s, Moves(f, s), delivered' = delivered,
           s # "idle", \A g \in Flows : pc[g] # "idle" => call'[g] = call[g],
           pc[f] \in {"draining", "resolved"} => call[f].role = "manual" \/ s \in {"draining", "resolved"}
    PROVE  RanInv'
  BY DEF RanInv, Moves

\* Every step.
LEMMA NextRan == TypeOK /\ LockInv /\ HookInv /\ RanInv /\ [Next]_vars => RanInv'
  <1> SUFFICES ASSUME TypeOK, LockInv, HookInv, RanInv, [Next]_vars PROVE RanInv'
    OBVIOUS
  <1>0. ASSUME UNCHANGED <<pc, call, delivered>> PROVE RanInv'
    BY <1>0 DEF RanInv
  <1>1. ASSUME NEW f \in Flows, Starts(f) PROVE RanInv'
    <2>1. PICK p \in Flows \cup {NoFlow}, r \in Roles \cup {"plain"} :
              /\ Enter(f, r, p)
              /\ BeginNested(f, r, p) \/ JoinFails(f, r, p) \/ AskForLock(f, r, p) \/ PlainJoins(f, p)
      BY <1>1 DEF Starts, BeginNested, JoinFails, AskForLock, PlainJoins
    <2>2. PICK s \in {"open", "waiting", "granted", "draining", "refused"} : pc' = [pc EXCEPT ![f] = s]
      BY <2>1 DEF BeginNested, JoinFails, AskForLock, PlainJoins, acquire
    <2>3. pc[f] = "idle" /\ \A g \in Flows : pc[g] # "idle" => call'[g] = call[g]
      BY <2>1 DEF Enter, TypeOK, CallType
    <2>4. delivered' = delivered
      BY <2>1 DEF BeginNested, JoinFails, AskForLock, PlainJoins, hookVars
    <2>5. Moves(f, s)
      BY <2>2, MoveAlone
    <2> QED BY <2>3, <2>4, <2>5, RanKeeps
  <1>2. ASSUME NEW f \in Flows, Continues(f) PROVE RanInv'
    <2>1. ASSUME NEW s \in Steps \ {"idle"}, Moves(f, s), UNCHANGED <<call, delivered>>,
                 pc[f] \notin {"draining", "resolved"}
          PROVE  RanInv'
      BY <2>1, RanKeeps
    <2>2. CASE BeginTop(f) \/ BeginFails(f) \/ CommitFails(f) \/ BodyThrows(f)
      <3>1. PICK s \in {"open", "refused", "catching"} : pc' = [pc EXCEPT ![f] = s]
        BY <2>2 DEF BeginTop, BeginFails, CommitFails, BodyThrows
      <3>2. pc[f] \in {"granted", "open"} /\ UNCHANGED <<call, delivered>>
        BY <2>2 DEF BeginTop, BeginFails, CommitFails, BodyThrows, Returns, hookVars
      <3> QED BY <2>1, <3>1, <3>2, MoveAlone, StepNames
    <2>3. CASE PlainWorks(f) \/ PlainFails(f)
      <3>1. PICK s \in {"draining", "refused"} : releaseLock(f, s)
        BY <2>3 DEF PlainWorks, PlainFails
      <3>2. pc[f] = "granted" /\ UNCHANGED <<call, delivered>>
        BY <2>3 DEF PlainWorks, PlainFails, hookVars
      <3> QED BY <2>1, <3>1, <3>2, ReleaseMoves, StepNames
    <2>4. CASE BodyWrites(f)
      BY <1>0, <2>4 DEF BodyWrites
    <2>5. ASSUME NEW s \in Steps \ {"idle"}, pc[f] \in {"open", "catching", "disposing", "disposed"},
                 txCommit(f, s) \/ txRollback(f, s) \/ dispose(f, s), UNCHANGED <<call, delivered>>
          PROVE  RanInv'
      <3>1. Moves(f, s)
        BY <2>5, UnlockMoves DEF txCommit, txRollback, txRelease, dispose
      <3> QED BY <2>1, <2>5, <3>1
    <2>6. CASE Commit(f)
      BY <2>5, <2>6, StepNames DEF Commit, Returns, hookVars
    <2>7. CASE Rollback(f)
      <3>1. pc[f] = "catching" /\ UNCHANGED <<call, delivered>>
        BY <2>7 DEF Rollback, hookVars
      <3>2. CASE txRollback(f, "rejected")
        BY <2>5, <3>1, <3>2, StepNames
      <3>3. CASE pc' = [pc EXCEPT ![f] = "disposing"]
        BY <2>1, <3>1, <3>3, MoveAlone, StepNames
      <3> QED BY <2>7, <3>2, <3>3 DEF Rollback
    <2>8. CASE Dispose(f)
      BY <2>5, <2>8, StepNames DEF Dispose, hookVars
    <2>9. CASE Deliver(f)
      <3>1. /\ pc[f] = "draining" /\ deferred[f] # <<>> /\ UNCHANGED <<pc, call>>
            /\ delivered' = Append(delivered, Head(deferred[f]))
        BY <2>9 DEF Deliver
      <3>2. /\ DOMAIN delivered' = DOMAIN delivered \cup {Len(delivered) + 1}
            /\ \A i \in DOMAIN delivered : delivered'[i] = delivered[i]
        <4>1. Head(deferred[f]) \in WriteIds /\ delivered \in Seq(WriteIds)
          BY <3>1 DEF TypeOK, WriteType
        <4> QED BY <3>1, <4>1
      <3>3. delivered'[Len(delivered) + 1] = Head(deferred[f])
        BY <3>1 DEF TypeOK, WriteType
      <3>4. Head(deferred[f])[1] = f
        <4>1. deferred[f] \in Seq(WriteIds) /\ 1 \in DOMAIN deferred[f]
          BY <3>1 DEF TypeOK, WriteType
        <4>2. deferred[f][1] = <<f, HooksRun(f) + 1>>
          BY <4>1 DEF HookInv, QueueHoldsTheRest
        <4> QED BY <4>1, <4>2
      <3>5. ASSUME NEW i \in DOMAIN delivered', NEW g \in Flows, delivered'[i][1] = g
            PROVE  pc[g] # "idle" /\ (call[g].role = "manual" \/ pc[g] \in {"draining", "resolved"})
        <4>1. CASE i \in DOMAIN delivered
          BY <3>2, <3>5, <4>1 DEF RanInv
        <4>2. CASE i = Len(delivered) + 1
          BY <3>1, <3>3, <3>4, <3>5, <4>2
        <4> QED BY <3>2, <4>1, <4>2
      <3> QED BY <3>1, <3>5 DEF RanInv
    <2>10. CASE Drained(f)
      <3>1. PICK s \in {"open", "resolved"} :
                pc' = [pc EXCEPT ![f] = s] /\ (s = "open" => call[f].role = "manual")
        BY <2>10 DEF Drained
      <3>2. UNCHANGED <<call, delivered>>
        BY <2>10 DEF Drained, hookVars
      <3> QED BY <3>1, <3>2, MoveAlone, RanKeeps
    <2>11. CASE HandleCommit(f)
      <3>1. pc[f] = "open" /\ UNCHANGED <<call, delivered>>
        BY <2>11 DEF HandleCommit, ManualCall, hookVars
      <3>2. CASE txCommit(f, "draining")
        BY <2>5, <3>1, <3>2, StepNames
      <3>3. CASE UNCHANGED pc
        BY <1>0, <3>1, <3>3
      <3> QED BY <2>11, <3>2, <3>3 DEF HandleCommit
    <2>12. CASE HandleRollback(f)
      <3>1. pc[f] = "open" /\ UNCHANGED <<call, delivered>>
        BY <2>12 DEF HandleRollback, ManualCall, hookVars
      <3>2. CASE txRollback(f, "open")
        BY <2>5, <3>1, <3>2, StepNames
      <3>3. CASE UNCHANGED pc
        BY <1>0, <3>1, <3>3
      <3> QED BY <2>12, <3>2, <3>3 DEF HandleRollback
    <2>13. CASE HandleDispose(f)
      BY <2>5, <2>13, StepNames DEF HandleDispose, hookVars
    <2> QED BY <1>2, <2>2, <2>3, <2>4, <2>6, <2>7, <2>8, <2>9, <2>10, <2>11, <2>12, <2>13 DEF Continues
  <1>3. CASE Close \/ UNCHANGED vars
    BY <1>0, <1>3 DEF Close, vars, hookVars
  <1> QED BY <1>1, <1>2, <1>3 DEF Next, Quiescent

\* The after-hook of a write of a call that is not nested in another one finds
\* the write durable, when transaction() settles it or it is a plain call: a
\* commit drains the queue after COMMIT, and a rollback leaves it alone
\* (transaction(), transaction.ts; drainAfterCommit(), lifecycle.ts).
THEOREM TopHooksCorrect ==
    ASSUME Nesting = "sequential", ~ LateWrites, MaxCloses = 0
    PROVE  Spec => []TopHooksAreDurable
  <1>1. TypeOK /\ NestInv /\ OutInv /\ HookInv /\ RanInv => TopHooksAreDurable
    <2> SUFFICES ASSUME TypeOK, NestInv, OutInv, HookInv, RanInv, NEW i \in DOMAIN delivered,
                        call[delivered[i][1]].top = delivered[i][1],
                        call[delivered[i][1]].role # "manual"
                 PROVE  delivered[i] \in durable
      BY DEF TopHooksAreDurable
    <2>1. PICK f \in Flows, n \in 1 .. MaxWrites : delivered[i] = <<f, n>>
      BY DEF TypeOK, WriteType, WriteIds
    <2>2. /\ pc[f] \in {"draining", "resolved"} /\ call[f].role # "manual"
          /\ call[f].top = f
      BY <2>1 DEF RanInv
    <2>3. delivered[i] \in WritesOf(f) /\ written[f] \in Nat /\ written[f] > 0
      <3>1. n <= HooksRun(f)
        BY <2>1 DEF HookInv, DeliveredAreFirst
      <3>2. written[f] \in Nat /\ Len(deferred[f]) \in Nat
        BY QueueType DEF HookInv
      <3>3. n \in Nat /\ 1 <= n /\ n <= written[f]
        BY <3>1, <3>2, BoundsAssumption DEF HooksRun
      <3> QED BY <2>1, <3>2, <3>3 DEF WritesOf
    <2>4. Related(f) /\ Placed(f) /\ Accounted(f)
      BY DEF OutInv
    <2>5. Chain(f) = {f}
      BY <2>2, <2>4 DEF Related, Chain
    <2>6. ~ Gone(f)
      BY <2>2, <2>3, <2>4, <2>5 DEF Accounted, Undone
    <2>7. ASSUME NEW k \in DOMAIN journal PROVE ~ Pending(f, k)
      <3> SUFFICES ASSUME Pending(f, k) PROVE FALSE
        OBVIOUS
      <3>1. journal[k].by = f
        BY <2>5 DEF Pending
      <3>2. f \in openTx
        BY <3>1 DEF NestInv, Framed
      <3>3. Working(f)
        BY <3>2 DEF NestInv, InUse
      <3> QED BY <2>2, <3>3 DEF Working
    <2> QED BY <2>3, <2>4, <2>6, <2>7 DEF Placed, Kept
  <1>2. TypeOK /\ HookInv /\ [Next]_vars => HookInv'
    BY NextHooks
  <1>3. TypeOK /\ LockInv /\ HookInv /\ RanInv /\ [Next]_vars => RanInv'
    BY NextRan
  <1>4. Init => RanInv
    BY DEF Init, RanInv
  <1> QED BY <1>1, <1>2, <1>3, <1>4, InitHooks, OutCorrect, PTL DEF Spec
=============================================================================
