------------------------------ MODULE SqliteTx ------------------------------
(***************************************************************************)
(* Transactions on the sqlite driver.  One driver owns one database        *)
(* handle, so a FIFO mutex serialises what its callers do with it, and     *)
(* AsyncLocalStorage (txScope) tells a call made inside an open            *)
(* transaction, which joins it or opens a savepoint, from a concurrent     *)
(* one, which must wait.  The module puts together                         *)
(*   drivers/sqlite.ts  the mutex, beginTransaction and its TxConnection,  *)
(*   transaction.ts     transaction(), beginTransaction() and TxHandle,    *)
(*   lifecycle.ts       the after-commit queue that each commit drains,    *)
(* over a small model of what SQLite does with BEGIN, SAVEPOINT, RELEASE,  *)
(* ROLLBACK and COMMIT.                                                    *)
(*                                                                         *)
(* A flow is one asynchronous call on the driver.  JavaScript runs a flow  *)
(* without interruption from one await to the next, so each action is the  *)
(* code between two awaits at which another flow can tell the difference.  *)
(***************************************************************************)
EXTENDS Naturals, Sequences

CONSTANTS
    Flows,      \* the asynchronous calls made on the driver
    NoFlow,     \* the absence of a flow: an empty txScope store
    Roles,      \* the APIs in use, among "callback", "manual" and "plain"
    Nesting,    \* what a callback does with the calls it starts (see Nestings)
    Faults,     \* what SQLite may refuse: "begin", "commit", "statement"
    LateWrites, \* whether callers write through a handle they have settled
    MaxWrites,  \* bound: writes per transaction
    MaxCalls,   \* bound: commit and rollback calls on one manual handle
    MaxCloses   \* bound: calls of driver.close()

\* "sequential": awaits each one before it starts the next.
\* "concurrent": starts several, then awaits them all (Promise.allSettled).
\* "handed_up":  an inner callback may return before what it started has
\*               ended, and the outermost callback awaits it instead.
\* "detached":   nobody need await them (a Promise.all that rejects early).
Nestings == {"sequential", "concurrent", "handed_up", "detached"}

ASSUME FlowsAssumption == NoFlow \notin Flows
ASSUME UsageAssumption ==
    /\ Roles \subseteq {"callback", "manual", "plain"}
    /\ Nesting \in Nestings
    /\ Faults \subseteq {"begin", "commit", "statement"}
    /\ LateWrites \in BOOLEAN
ASSUME BoundsAssumption == MaxWrites \in Nat /\ MaxCalls \in Nat /\ MaxCloses \in Nat

VARIABLES
    pc,         \* where each flow is
    call,       \* role and txScope store of each flow; and, for the properties
                \* only, the transactions around it and the outermost of them
    locked, waiters, openTx,    \* the driver's mutex and open transactions
    tx,         \* each flow's TxConnection and TxHandle
    conn,       \* which database handle is current: close() retires one
    journal,    \* the open engine transaction, <<>> in autocommit mode: a stack of
                \* frames, one of BEGIN and one of each SAVEPOINT, with the writes
                \* made since
    durable,    \* the writes SQLite has committed
    written,    \* number of writes each flow has made
    deferred,   \* the after-commit queue of each flow's TxConnection
    delivered,  \* the after-hooks that have run, in order
    calls       \* settling calls made on each manual handle (for MaxCalls)

lockVars   == <<locked, waiters, openTx>>
engineVars == <<journal, durable>>
hookVars   == <<deferred, delivered>>
vars == <<pc, call, lockVars, tx, conn, engineVars, written, hookVars, calls>>

-----------------------------------------------------------------------------
(* What SQLite does with the statements the driver sends (external). *)

WriteIds == Flows \X (1 .. MaxWrites)
Frames   == [by : Flows, writes : SUBSET WriteIds]

WritesIn(j) == UNION {j[i].writes : i \in DOMAIN j}

\* What flow f's BEGIN or SAVEPOINT pushes, where it is on the stack, and what
\* is below it.
Frame(f)    == [by |-> f, writes |-> {}]
HasFrame(f) == \E i \in DOMAIN journal : journal[i].by = f
Level(f)    == CHOOSE i \in DOMAIN journal : journal[i].by = f
Below(f)    == SubSeq(journal, 1, Level(f) - 1)

\* A statement outside a transaction commits by itself.
ExecWrite(w) ==
    IF journal = <<>>
    THEN durable' = durable \cup {w} /\ UNCHANGED journal
    ELSE journal' = [journal EXCEPT ![Len(journal)].writes = @ \cup {w}] /\ UNCHANGED durable

\* RELEASE: the frame and those above it become part of the one below.
Released(f) ==
    [Below(f) EXCEPT ![Level(f) - 1].writes =
        UNION {journal[i].writes : i \in Level(f) - 1 .. Len(journal)}]

\* Mutant: a nested commit sends COMMIT.
NestedCommits(f) == journal' = <<>> /\ durable' = durable \cup WritesIn(journal)

\* COMMIT, or RELEASE: releasing the outermost savepoint commits when no BEGIN
\* is below it.
ExecCommit(f) ==
    IF tx[f].savepoint /\ Below(f) # <<>>
    THEN journal' = Released(f) /\ UNCHANGED durable
    ELSE journal' = <<>> /\ durable' = durable \cup WritesIn(journal)

\* Mutant: the savepoint is released without ROLLBACK TO.
RollbackOnlyReleases(f) ==
    /\ journal' = IF tx[f].savepoint THEN Released(f) ELSE <<>>
    /\ UNCHANGED durable

\* ROLLBACK, or ROLLBACK TO followed by RELEASE.
ExecRollback(f) ==
    /\ journal' = IF tx[f].savepoint THEN Below(f) ELSE <<>>
    /\ UNCHANGED durable

\* Whether SQLite accepts the statement that ends f's transaction: the handle
\* is open and the transaction, or the savepoint, still exists.
CanEnd(f) ==
    /\ tx[f].handle = conn
    /\ IF tx[f].savepoint THEN HasFrame(f) ELSE journal # <<>>

-----------------------------------------------------------------------------
(* The flows and their nesting. *)

Ended == {"resolved", "rejected", "refused", "disposed"}
HasEnded(f) == pc[f] \in Ended
Started(f)  == pc[f] \notin {"idle", "waiting", "granted", "refused"}

\* The calls whose end flow f's callback waits for before it returns.
Inner(f) == {c \in Flows : call[c].scope = f}
Awaited(f) ==
    CASE Nesting = "detached"  -> {}
      [] Nesting = "handed_up" ->
            {c \in Flows : \E p \in Flows : call[c].scope = p /\ call[p].top = f}
      [] OTHER -> Inner(f)

\* A callback that awaits one call at a time does nothing else meanwhile.
Suspended(f) == Nesting = "sequential" /\ \E c \in Inner(f) : ~ HasEnded(c)

\* The txScope stores a new call can be made under: none, or that of a
\* callback that is running or that the call has escaped.
MayCall(p) ==
    /\ call[p].role = "callback"
    /\ CASE Nesting = "sequential" -> pc[p] = "open" /\ ~ Suspended(p)
         [] Nesting = "concurrent" -> pc[p] = "open"
         [] Nesting = "handed_up"  -> Started(p) /\ pc[call[p].top] = "open"
         [] Nesting = "detached"   -> Started(p)
Scopes(f) == {NoFlow} \cup {p \in Flows \ {f} : MayCall(p)}

isReentrant(p) == p \in openTx

-----------------------------------------------------------------------------
(* The mutex. *)

\* Mutant: nobody waits.
AcquireNeverWaits(f) ==
    /\ locked' = TRUE
    /\ pc' = [pc EXCEPT ![f] = "granted"]
    /\ UNCHANGED waiters

acquire(f) ==
    \/ /\ ~ locked
       /\ locked' = TRUE
       /\ pc' = [pc EXCEPT ![f] = "granted"]
       /\ UNCHANGED waiters
    \/ /\ locked
       /\ waiters' = Append(waiters, f)
       /\ pc' = [pc EXCEPT ![f] = "waiting"]
       /\ UNCHANGED locked

\* Mutant: the flag is left clear while the lock passes to a waiter.
ReleaseClearsFlag(f, s) ==
    /\ locked' = FALSE
    /\ waiters' = IF waiters = <<>> THEN <<>> ELSE Tail(waiters)
    /\ pc' = [g \in Flows |->
                CASE g = f -> s
                  [] waiters # <<>> /\ g = Head(waiters) -> "granted"
                  [] OTHER -> pc[g]]

\* Mutant: the waiters are left in the queue.
ReleaseWakesNobody(f, s) ==
    /\ locked' = FALSE
    /\ pc' = [pc EXCEPT ![f] = s]
    /\ UNCHANGED waiters

\* Mutant: the last waiter comes first.
ReleaseWakesLast(f, s) ==
    \/ /\ waiters = <<>>
       /\ locked' = FALSE
       /\ pc' = [pc EXCEPT ![f] = s]
       /\ UNCHANGED waiters
    \/ /\ waiters # <<>>
       /\ locked' = TRUE
       /\ waiters' = SubSeq(waiters, 1, Len(waiters) - 1)
       /\ pc' = [pc EXCEPT ![f] = s, ![waiters[Len(waiters)]] = "granted"]

\* The lock passes to the first waiter without being free in between.  Flow f
\* goes on to s.
releaseLock(f, s) ==
    \/ /\ waiters = <<>>
       /\ locked' = FALSE
       /\ pc' = [pc EXCEPT ![f] = s]
       /\ UNCHANGED waiters
    \/ /\ waiters # <<>>
       /\ locked' = TRUE
       /\ waiters' = Tail(waiters)
       /\ pc' = [pc EXCEPT ![f] = s, ![Head(waiters)] = "granted"]

unlock(f, s) ==
    /\ openTx' = openTx \ {f}
    /\ IF tx[f].holding THEN releaseLock(f, s)
       ELSE pc' = [pc EXCEPT ![f] = s] /\ UNCHANGED <<locked, waiters>>

-----------------------------------------------------------------------------
NewTx == [done |-> FALSE, holding |-> FALSE, savepoint |-> FALSE,
          settled |-> FALSE, handle |-> 0]

Init ==
    /\ pc = [f \in Flows |-> "idle"]
    /\ call = [f \in Flows |-> [role |-> "none", scope |-> NoFlow, top |-> f, around |-> {}]]
    /\ locked = FALSE /\ waiters = <<>> /\ openTx = {}
    /\ tx = [f \in Flows |-> NewTx]
    /\ conn = 0
    /\ journal = <<>> /\ durable = {}
    /\ written = [f \in Flows |-> 0]
    /\ deferred = [f \in Flows |-> <<>>] /\ delivered = <<>>
    /\ calls = [f \in Flows |-> 0]

Enter(f, r, p) ==
    /\ pc[f] = "idle"
    /\ r \in Roles
    /\ p \in Scopes(f)
    /\ call' = [call EXCEPT ![f] =
            [role |-> r, scope |-> p,
             top |-> IF isReentrant(p) THEN call[p].top ELSE f,
             around |-> IF isReentrant(p) THEN call[p].around \cup {p} ELSE {}]]

\* beginTransaction() inside this driver's own open transaction: a savepoint,
\* taken without the lock.
BeginNested(f, r, p) ==
    /\ r # "plain"
    /\ isReentrant(p)
    /\ Enter(f, r, p)
    /\ pc' = [pc EXCEPT ![f] = "open"]
    /\ tx' = [tx EXCEPT ![f] = [NewTx EXCEPT !.savepoint = TRUE, !.handle = conn]]
    /\ journal' = Append(journal, Frame(f))
    /\ openTx' = openTx \cup {f}
    /\ UNCHANGED <<locked, waiters, conn, durable, written, hookVars, calls>>

\* SQLite refuses the SAVEPOINT, or the statement of a plain call that joins.
JoinFails(f, r, p) ==
    /\ "statement" \in Faults
    /\ isReentrant(p)
    /\ Enter(f, r, p)
    /\ pc' = [pc EXCEPT ![f] = "refused"]
    /\ UNCHANGED <<lockVars, tx, conn, engineVars, written, hookVars, calls>>

\* Any other call asks for the lock.  beginTransaction() has already taken the
\* database handle it will use once it gets it.
AskForLock(f, r, p) ==
    /\ ~ isReentrant(p)
    /\ Enter(f, r, p)
    /\ acquire(f)
    /\ tx' = [tx EXCEPT ![f].handle = conn]
    /\ UNCHANGED <<openTx, conn, engineVars, written, hookVars, calls>>

\* BEGIN IMMEDIATE, once the lock is held.  When it throws, nothing gives the
\* lock back: the flow rejects before a TxConnection exists.
BeginTop(f) ==
    /\ pc[f] = "granted" /\ call[f].role # "plain"
    /\ tx[f].handle = conn /\ journal = <<>>
    /\ journal' = <<Frame(f)>>
    /\ tx' = [tx EXCEPT ![f].holding = TRUE]
    /\ openTx' = openTx \cup {f}
    /\ pc' = [pc EXCEPT ![f] = "open"]
    /\ UNCHANGED <<call, locked, waiters, conn, durable, written, hookVars, calls>>

BeginFails(f) ==
    /\ pc[f] = "granted" /\ call[f].role # "plain"
    /\ tx[f].handle # conn \/ journal # <<>> \/ "begin" \in Faults
    /\ pc' = [pc EXCEPT ![f] = "refused"]
    /\ UNCHANGED <<call, lockVars, tx, conn, engineVars, written, hookVars, calls>>

-----------------------------------------------------------------------------
(* driver.execute(), and the model write made through it: its after-hook    *)
(* runs inline, since a driver is not a transaction connection.             *)

ModelWrite(f) ==
    LET w == <<f, written[f] + 1>> IN
    /\ written[f] < MaxWrites
    /\ ExecWrite(w)
    /\ written' = [written EXCEPT ![f] = @ + 1]
    /\ deferred' = [deferred EXCEPT ![f] = Append(@, w)]

\* Inside an open transaction of this driver: no lock.
PlainJoins(f, p) ==
    /\ isReentrant(p)
    /\ Enter(f, "plain", p)
    /\ ModelWrite(f)
    /\ pc' = [pc EXCEPT ![f] = "draining"]
    /\ UNCHANGED <<lockVars, tx, conn, delivered, calls>>

PlainWorks(f) ==
    /\ pc[f] = "granted" /\ call[f].role = "plain"
    /\ ModelWrite(f)
    /\ releaseLock(f, "draining")
    /\ UNCHANGED <<call, openTx, tx, conn, delivered, calls>>

\* SQLite refuses the statement: the call rejects, without its write or its
\* after-hook, and guarded()'s finally releases the lock all the same.
PlainFails(f) ==
    /\ "statement" \in Faults
    /\ pc[f] = "granted" /\ call[f].role = "plain"
    /\ releaseLock(f, "refused")
    /\ UNCHANGED <<call, openTx, tx, conn, engineVars, written, hookVars, calls>>

-----------------------------------------------------------------------------
(* The transaction's body. *)

\* A settled TxConnection still takes statements, without the lock: a late one
\* commits by itself or joins whatever transaction is open.  Hooks that a drain
\* is running write nothing through it.
MayWrite(f) ==
    IF tx[f].done THEN LateWrites /\ pc[f] # "draining"
    ELSE pc[f] = "open" /\ ~ Suspended(f)

\* A model write on the TxConnection: its after-hook is deferred.  On a handle
\* that close() has retired the statement throws, as one that SQLite refuses
\* does: it changes nothing, and the callback throws too (BodyThrows) or not.
BodyWrites(f) ==
    /\ MayWrite(f)
    /\ tx[f].handle = conn
    /\ ModelWrite(f)
    /\ UNCHANGED <<pc, call, lockVars, tx, conn, delivered, calls>>

Returns(f) == pc[f] = "open" /\ \A c \in Awaited(f) : HasEnded(c)

\* tx.commit(): ends the engine transaction once, and unlocks.
txCommit(f, s) ==
    /\ IF tx[f].done THEN UNCHANGED engineVars ELSE CanEnd(f) /\ ExecCommit(f)
    /\ unlock(f, s)
    /\ tx' = [tx EXCEPT ![f].done = TRUE, ![f].holding = FALSE, ![f].settled = TRUE]

CommitThrows(f) ==
    /\ ~ tx[f].done
    /\ ~ CanEnd(f) \/ ("commit" \in Faults /\ ~ tx[f].savepoint)

\* Mutant: the lock is given back only by commit().
RollbackKeepsLock(f, s) ==
    /\ IF tx[f].done THEN UNCHANGED engineVars ELSE CanEnd(f) /\ ExecRollback(f)
    /\ pc' = [pc EXCEPT ![f] = s]
    /\ tx' = [tx EXCEPT ![f].done = TRUE, ![f].settled = TRUE]
    /\ UNCHANGED lockVars

\* tx.rollback(): settleRollback(), then unlock.
txRollback(f, s) ==
    /\ IF tx[f].done THEN UNCHANGED engineVars ELSE CanEnd(f) /\ ExecRollback(f)
    /\ unlock(f, s)
    /\ tx' = [tx EXCEPT ![f].done = TRUE, ![f].holding = FALSE, ![f].settled = TRUE]

RollbackThrows(f) == ~ tx[f].done /\ ~ CanEnd(f)

\* tx.release(): unlock.
txRelease(f, s) ==
    /\ unlock(f, s)
    /\ tx' = [tx EXCEPT ![f].holding = FALSE]
    /\ UNCHANGED engineVars

\* transaction(): the callback has returned, and COMMIT or RELEASE succeeds.
Commit(f) ==
    /\ call[f].role = "callback" /\ Returns(f)
    /\ txCommit(f, "draining")
    /\ UNCHANGED <<call, conn, written, hookVars, calls>>

\* Mutant: the hooks run whether or not the COMMIT succeeded.
CommitFailsDrains(f) ==
    /\ call[f].role = "callback" /\ Returns(f)
    /\ CommitThrows(f)
    /\ pc' = [pc EXCEPT ![f] = "draining"]
    /\ UNCHANGED <<call, lockVars, tx, conn, engineVars, written, hookVars, calls>>

CommitFails(f) ==
    /\ call[f].role = "callback" /\ Returns(f)
    /\ CommitThrows(f)
    /\ pc' = [pc EXCEPT ![f] = "catching"]
    /\ UNCHANGED <<call, lockVars, tx, conn, engineVars, written, hookVars, calls>>

\* transaction(): the callback throws.
BodyThrows(f) ==
    /\ call[f].role = "callback" /\ Returns(f)
    /\ pc' = [pc EXCEPT ![f] = "catching"]
    /\ UNCHANGED <<call, lockVars, tx, conn, engineVars, written, hookVars, calls>>

\* transaction(): its catch rolls back and swallows a failure to do so, which
\* leaves the handle to the `await using` dispose.
Rollback(f) ==
    /\ pc[f] = "catching"
    /\ \/ txRollback(f, "rejected")
       \/ /\ RollbackThrows(f)
          /\ pc' = [pc EXCEPT ![f] = "disposing"]
          /\ UNCHANGED <<lockVars, tx, engineVars>>
    /\ UNCHANGED <<call, conn, written, hookVars, calls>>

\* Mutant: the dispose only releases.
DisposeOnlyReleases(f, s) == txRelease(f, s)

\* TxHandle's asyncDispose: rolls back unless settled, and releases whether or
\* not that throws.
dispose(f, s) ==
    \/ /\ ~ tx[f].settled
       /\ txRollback(f, s)
    \/ /\ tx[f].settled \/ RollbackThrows(f)
       /\ txRelease(f, s)

Dispose(f) ==
    /\ pc[f] = "disposing"
    /\ dispose(f, "rejected")
    /\ UNCHANGED <<call, conn, written, hookVars, calls>>

\* Mutant: the queue is drained from its end.
DeliversLastFirst(f) ==
    LET q == deferred[f] IN
    /\ pc[f] = "draining" /\ q # <<>>
    /\ delivered' = Append(delivered, q[Len(q)])
    /\ deferred' = [deferred EXCEPT ![f] = SubSeq(q, 1, Len(q) - 1)]
    /\ UNCHANGED <<pc, call, lockVars, tx, conn, engineVars, written, calls>>

\* drainAfterCommit(), or the inline delivery of a plain call: one hook.
Deliver(f) ==
    /\ pc[f] = "draining" /\ deferred[f] # <<>>
    /\ delivered' = Append(delivered, Head(deferred[f]))
    /\ deferred' = [deferred EXCEPT ![f] = Tail(@)]
    /\ UNCHANGED <<pc, call, lockVars, tx, conn, engineVars, written, calls>>

\* The queue is empty.  What the dispose of a settled handle does, unlock, was
\* done by the commit.
Drained(f) ==
    /\ pc[f] = "draining" /\ deferred[f] = <<>>
    /\ pc' = [pc EXCEPT ![f] = IF call[f].role = "manual" THEN "open" ELSE "resolved"]
    /\ UNCHANGED <<call, lockVars, tx, conn, engineVars, written, hookVars, calls>>

-----------------------------------------------------------------------------
(* A manual handle: commit and rollback in any order and number, then       *)
(* dispose.  A call that throws leaves the handle as it was.                *)

ManualCall(f) ==
    /\ call[f].role = "manual" /\ pc[f] = "open"
    /\ calls[f] < MaxCalls
    /\ calls' = [calls EXCEPT ![f] = @ + 1]

HandleCommit(f) ==
    /\ ManualCall(f)
    /\ \/ txCommit(f, "draining")
       \/ CommitThrows(f) /\ UNCHANGED <<pc, lockVars, tx, engineVars>>
    /\ UNCHANGED <<call, conn, written, hookVars>>

HandleRollback(f) ==
    /\ ManualCall(f)
    /\ \/ txRollback(f, "open")
       \/ RollbackThrows(f) /\ UNCHANGED <<pc, lockVars, tx, engineVars>>
    /\ UNCHANGED <<call, conn, written, hookVars>>

\* "Safe to run twice": a disposed handle may be disposed again.
HandleDispose(f) ==
    /\ call[f].role = "manual" /\ pc[f] \in {"open", "disposed"}
    /\ dispose(f, "disposed")
    /\ UNCHANGED <<call, conn, written, hookVars, calls>>

-----------------------------------------------------------------------------
\* driver.close() takes no lock.  The engine drops what the handle had open,
\* and the next call opens a new handle.
Close ==
    /\ conn < MaxCloses
    /\ conn' = conn + 1
    /\ journal' = <<>>
    /\ UNCHANGED <<pc, call, lockVars, tx, durable, written, hookVars, calls>>

Quiescent == (\A f \in Flows : HasEnded(f)) /\ UNCHANGED vars

Starts(f) ==
    \E p \in Flows \cup {NoFlow} :
        \/ \E r \in Roles : BeginNested(f, r, p) \/ JoinFails(f, r, p) \/ AskForLock(f, r, p)
        \/ PlainJoins(f, p)

\* What the event loop resumes.
Continues(f) ==
    \/ BeginTop(f) \/ BeginFails(f) \/ PlainWorks(f) \/ PlainFails(f)
    \/ BodyWrites(f) \/ Commit(f) \/ CommitFails(f) \/ BodyThrows(f)
    \/ Rollback(f) \/ Dispose(f) \/ Deliver(f) \/ Drained(f)
    \/ HandleCommit(f) \/ HandleRollback(f) \/ HandleDispose(f)

Next == (\E f \in Flows : Starts(f) \/ Continues(f)) \/ Close \/ Quiescent

\* The event loop resumes every flow whose await has settled, and a callback
\* that awaits nothing any more returns or throws.
Fairness == \A f \in Flows : WF_vars(Continues(f))

Spec == Init /\ [][Next]_vars /\ Fairness

-----------------------------------------------------------------------------
(* Properties. *)

Steps == {"idle", "waiting", "granted", "open", "catching", "disposing", "draining"} \cup Ended

CallType ==
    /\ call \in [Flows -> [role : Roles \cup {"none"}, scope : Flows \cup {NoFlow},
                           top : Flows, around : SUBSET Flows]]
    /\ calls \in [Flows -> 0 .. MaxCalls]
MutexType ==
    /\ pc \in [Flows -> Steps]
    /\ locked \in BOOLEAN
    /\ waiters \in Seq(Flows)
TxType ==
    /\ openTx \in SUBSET Flows
    /\ tx \in [Flows -> [done : BOOLEAN, holding : BOOLEAN, savepoint : BOOLEAN,
                         settled : BOOLEAN, handle : Nat]]
    /\ conn \in Nat
EngineType ==
    /\ journal \in Seq(Frames)
    /\ durable \in SUBSET WriteIds
WriteType ==
    /\ written \in [Flows -> 0 .. MaxWrites]
    /\ deferred \in [Flows -> Seq(WriteIds)]
    /\ delivered \in Seq(WriteIds)

\* Every variable keeps its type (drivers/sqlite.ts:30-40, 137-138).
TypeOK == CallType /\ MutexType /\ TxType /\ EngineType /\ WriteType

\* The flow may use the database as its owner: it was handed the lock and has
\* not acted on it, or its transaction has not released it.
Holds(f) == pc[f] = "granted" \/ tx[f].holding

\* The lock serialises its users: no two flows hold it, and while one does it
\* is not free for a third (the comment at drivers/sqlite.ts:32-37).
MutualExclusion ==
    /\ \A f, g \in Flows : Holds(f) /\ Holds(g) => f = g
    /\ \A f \in Flows : Holds(f) => locked

\* No wakeup is lost: the flows that wait are the queued ones, each queued
\* once, and none of them waits for a free lock (acquire and releaseLock).
NoLostWakeup ==
    /\ \A f \in Flows : pc[f] = "waiting" <=> \E i \in DOMAIN waiters : waiters[i] = f
    /\ \A i, j \in DOMAIN waiters : waiters[i] = waiters[j] => i = j
    /\ waiters # <<>> => locked

\* The lock is never lost: when it is taken, some flow has it and will release
\* it ("always release it", docs/transactions.md; driver.ts:37-41).
LockIsOwned == locked => \E f \in Flows : Holds(f)

\* What is in the open engine transaction belongs to the transaction that
\* holds the lock, or to a call nested in it: nothing of a concurrent call is
\* caught in it ("keeps ordinary operations out of an open one").
Isolation ==
    \A i \in DOMAIN journal :
        \E h \in Flows :
            /\ Holds(h) /\ call[journal[i].by].top = h
            /\ \A w \in journal[i].writes : call[w[1]].top = h

WritesOf(f) == {f} \X (1 .. written[f])

\* A transaction is all or nothing: its writes are durable when it and every
\* transaction around it resolved, and none of them is when one of these
\* rejected.  A disposed handle left all of its writes or none.
AtomicOutcome ==
    \A f \in Flows :
        LET outcomes == {pc[g] : g \in {f} \cup call[f].around} IN
        /\ outcomes = {"resolved"} => WritesOf(f) \subseteq durable
        /\ "rejected" \in outcomes => WritesOf(f) \cap durable = {}
        /\ outcomes \subseteq {"resolved", "disposed"} =>
              WritesOf(f) \subseteq durable \/ WritesOf(f) \cap durable = {}

\* An after-hook reports a durable write ("an after-hook can assume the write
\* is durable", docs/transactions.md): TxHandle.commit drains after tx.commit.
HooksAreDurable == \A i \in DOMAIN delivered : delivered[i] \in durable

\* The same, for the writes of the calls that are not nested in another one: of
\* plain calls, and of transactions that transaction() settles.
TopHooksAreDurable ==
    \A i \in DOMAIN delivered :
        LET f == delivered[i][1] IN
        call[f].top = f /\ call[f].role # "manual" => delivered[i] \in durable

\* After-hooks of one call run in the order of its writes, each at most once,
\* and a transaction resolves only when all of its own have run.
HooksInOrder ==
    /\ \A i, j \in DOMAIN delivered :
          i < j /\ delivered[i][1] = delivered[j][1] => delivered[i][2] < delivered[j][2]
    /\ \A f \in Flows : pc[f] = "resolved" => 
          \A w \in WritesOf(f) : \E i \in DOMAIN delivered : delivered[i] = w

\* A call that started ends: it gets the lock it waits for, however the calls
\* before it end ("reentrant use neither hangs nor escapes").
EveryCallEnds == \A f \in Flows : pc[f] # "idle" ~> HasEnded(f)

\* The lock is granted in the order it was asked for: a flow never gets it
\* while one queued before it still waits.
FIFO ==
    [][\A i, j \in DOMAIN waiters :
          i < j /\ pc'[waiters[j]] # "waiting" => pc'[waiters[i]] # "waiting"]_vars
=============================================================================
