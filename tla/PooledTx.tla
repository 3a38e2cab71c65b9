------------------------------ MODULE PooledTx ------------------------------
(***************************************************************************)
(* Transactions on the pooled drivers.  drivers/mysql.ts and               *)
(* drivers/postgres.ts check a connection out of a pool of bounded size,   *)
(* begin a transaction on it and give it back when the TxHandle of         *)
(* transaction.ts is disposed.  Nested calls check out a connection of     *)
(* their own while the outer one keeps its own.                            *)
(*                                                                         *)
(* Every statement is a round trip to the server, which may refuse it; the *)
(* reply to one that commits may be lost.  The pool and the server are     *)
(* models of what the two drivers use of mysql2 and pg.                    *)
(***************************************************************************)
EXTENDS Naturals, Sequences

CONSTANTS
    Flows,      \* the asynchronous calls made on the driver, numbered as they come
    NoFlow,     \* the absence of a flow
    Conns,      \* the pool's connections, numbered
    NoConn,     \* the absence of a connection
    Settings,   \* the engines, usages and failures to consider (see Setting)
    MaxWrites,  \* bound: writes per transaction
    MaxCalls    \* bound: commit, rollback and second dispose calls on the handles

\* An engine; the APIs in use; how many of the calls are made (bound: those numbered
\* up to it); what the server refuses ("statement": any other
\* one; "commit_reply": it commits and the reply is lost); and what the caller
\* may do: catch the error of a statement inside the transaction and go on,
\* write through a handle that is settled, dispose a handle again.
Setting == [engine  : {"mysql", "postgres"},
            roles   : SUBSET {"callback", "manual", "plain"},
            flows   : Nat,
            faults  : SUBSET {"begin", "statement", "commit", "rollback", "commit_reply"},
            catches : BOOLEAN,
            late    : BOOLEAN,
            twice   : BOOLEAN]

ASSUME IdsAssumption ==
    /\ Flows \subseteq Nat /\ NoFlow \notin Flows
    /\ Conns \subseteq Nat /\ NoConn \notin Conns
ASSUME SettingsAssumption == Settings \subseteq Setting
ASSUME BoundsAssumption == MaxWrites \in Nat /\ MaxCalls \in Nat

VARIABLES
    setting,    \* the setting of this behaviour
    pc,         \* where each flow is
    role,       \* the API of each flow
    outer,      \* the callback that awaits each flow
    free,       \* the pool's idle connections
    queue,      \* the pool's pending checkouts, first come first served
    conn,       \* the connection each flow has checked out
    settled,    \* TxHandle.settled
    server,     \* the transaction open on each connection: its flow, its writes,
                \* and its status, which a refused statement can change
    durable,    \* the writes the server has committed
    written,    \* number of writes each flow has made
    deferred,   \* the after-commit queue of each flow's TxConnection
    delivered,  \* the writes whose after-hooks have run
    released,   \* release() calls made for each flow's checkout
    calls       \* calls made on manual handles (for MaxCalls)

poolVars   == <<free, queue, conn>>
serverVars == <<server, durable>>
vars == <<setting, pc, role, outer, poolVars, settled, serverVars, written, deferred,
          delivered, released, calls>>

Engine == setting.engine
Faults == setting.faults

NoTx == [by |-> NoFlow, writes |-> {}, status |-> "ok"]
Ended == {"resolved", "rejected", "refused", "disposed"}
HasEnded(f) == pc[f] \in Ended

-----------------------------------------------------------------------------
(* The pool (external): getConnection(), which takes the first idle         *)
(* connection, and release(), which passes the connection to the first      *)
(* pending checkout.                                                        *)

getConnection(f) ==
    \/ \E c \in free :
          /\ \A d \in free : c <= d
          /\ free' = free \ {c}
          /\ conn' = [conn EXCEPT ![f] = c]
          /\ pc' = [pc EXCEPT ![f] = "granted"]
          /\ UNCHANGED queue
    \/ /\ free = {}
       /\ queue' = Append(queue, f)
       /\ pc' = [pc EXCEPT ![f] = "waiting"]
       /\ UNCHANGED <<free, conn>>

\* Flow f goes on to s.  pg refuses a second release of one checkout; mysql2
\* takes the connection again.
release(f, s) ==
    /\ released' = [released EXCEPT ![f] = @ + 1]
    /\ \/ /\ Engine = "postgres" /\ released[f] > 0
          /\ pc' = [pc EXCEPT ![f] = s]
          /\ UNCHANGED poolVars
       \/ /\ Engine = "mysql" \/ released[f] = 0
          /\ queue = <<>>
          /\ free' = free \cup {conn[f]}
          /\ pc' = [pc EXCEPT ![f] = s]
          /\ UNCHANGED <<queue, conn>>
       \/ /\ Engine = "mysql" \/ released[f] = 0
          /\ queue # <<>>
          /\ queue' = Tail(queue)
          /\ conn' = [conn EXCEPT ![Head(queue)] = conn[f]]
          /\ pc' = [pc EXCEPT ![f] = s, ![Head(queue)] = "granted"]
          /\ UNCHANGED free

-----------------------------------------------------------------------------
(* The server (external). *)

Aborted(c) == server[c].status = "aborted"

\* COMMIT.  An aborted transaction has no writes left: it is rolled back, and the
\* answer is no error.
Commits(c) ==
    /\ server' = [server EXCEPT ![c] = NoTx]
    /\ durable' = durable \cup server[c].writes

\* BEGIN on a connection with an open transaction: mysql commits that one,
\* postgres warns and stays in it.
Begins(c, f) ==
    IF Engine = "mysql"
    THEN /\ server' = [server EXCEPT ![c] = [NoTx EXCEPT !.by = f]]
         /\ durable' = durable \cup server[c].writes
    ELSE /\ server' = [server EXCEPT ![c].by = f]
         /\ UNCHANGED durable

Writes(c, w) ==
    IF server[c].by = NoFlow
    THEN durable' = durable \cup {w} /\ UNCHANGED server
    ELSE server' = [server EXCEPT ![c].writes = @ \cup {w}] /\ UNCHANGED durable

\* A statement that the server refuses.  postgres aborts the transaction it is
\* in; mysql goes on with it, or rolls it back (a deadlock).
Refuses(c) ==
    /\ \/ Engine = "mysql" /\ server' \in {server, [server EXCEPT ![c] = NoTx]}
       \/ /\ Engine = "postgres"
          /\ server' = IF server[c].by = NoFlow THEN server
                       ELSE [server EXCEPT ![c].writes = {}, ![c].status = "aborted"]
    /\ UNCHANGED durable

\* Whether the server may refuse the next statement on a connection.
MayRefuse(kind, c) == kind \in Faults \/ Aborted(c)

-----------------------------------------------------------------------------
Init ==
    /\ setting \in Settings
    /\ pc = [f \in Flows |-> "idle"]
    /\ role = [f \in Flows |-> "none"]
    /\ outer = [f \in Flows |-> NoFlow]
    /\ free = Conns /\ queue = <<>> /\ conn = [f \in Flows |-> NoConn]
    /\ settled = [f \in Flows |-> FALSE]
    /\ server = [c \in Conns |-> NoTx] /\ durable = {}
    /\ written = [f \in Flows |-> 0]
    /\ deferred = [f \in Flows |-> {}] /\ delivered = {}
    /\ released = [f \in Flows |-> 0] /\ calls = 0

\* A callback, or an after-hook, awaits the calls it makes one at a time.
Awaiting(f) == \E g \in Flows : outer[g] = f /\ ~ HasEnded(g)

\* Calls are numbered in the order they are made.
IsNext(f) ==
    /\ pc[f] = "idle" /\ f <= setting.flows
    /\ \A g \in Flows : g < f => pc[g] # "idle"

\* A new call is made at top level, or by a top-level callback or after-hook
\* (bound: one level of nesting).
MayCall(p) ==
    p # NoFlow =>
       /\ role[p] = "callback" /\ pc[p] \in {"open", "draining"}
       /\ outer[p] = NoFlow
       /\ ~ Awaiting(p)

\* Mutant: a nested call uses the connection of the outer one.
AskSharesOuter(f, r, p) ==
    /\ IsNext(f) /\ p # f /\ MayCall(p)
    /\ role' = [role EXCEPT ![f] = r]
    /\ outer' = [outer EXCEPT ![f] = p]
    /\ IF p = NoFlow THEN getConnection(f)
       ELSE /\ conn' = [conn EXCEPT ![f] = conn[p]]
            /\ pc' = [pc EXCEPT ![f] = "granted"]
            /\ UNCHANGED <<free, queue>>
    /\ UNCHANGED <<settled, serverVars, written, deferred, delivered, released, calls>>

\* transaction(), beginTransaction() or driver.execute(): each asks the pool
\* for a connection of its own.
Ask(f, r, p) ==
    /\ IsNext(f) /\ p # f /\ MayCall(p)
    /\ role' = [role EXCEPT ![f] = r]
    /\ outer' = [outer EXCEPT ![f] = p]
    /\ getConnection(f)
    /\ UNCHANGED <<settled, serverVars, written, deferred, delivered, released, calls>>

BeginSucceeds(f) ==
    /\ pc[f] = "granted" /\ role[f] # "plain"
    /\ ~ Aborted(conn[f])
    /\ Begins(conn[f], f)
    /\ pc' = [pc EXCEPT ![f] = "open"]
    /\ UNCHANGED <<role, outer, poolVars, settled, written, deferred, delivered, released, calls>>

\* Mutant: a failed BEGIN does not release.
BeginFailsLeaks(f) ==
    /\ pc[f] = "granted" /\ role[f] # "plain"
    /\ MayRefuse("begin", conn[f])
    /\ pc' = [pc EXCEPT ![f] = "refused"]
    /\ UNCHANGED <<role, outer, poolVars, settled, serverVars, written, deferred,
                   delivered, released, calls>>

\* The connection goes back before the error is rethrown.
BeginFails(f) ==
    /\ pc[f] = "granted" /\ role[f] # "plain"
    /\ MayRefuse("begin", conn[f])
    /\ release(f, "refused")
    /\ UNCHANGED <<role, outer, settled, serverVars, written, deferred, delivered, calls>>

\* pool.query() and pool.execute(): one statement, and the connection is back;
\* a model's after-hook then runs inline.
PlainWorks(f) ==
    /\ pc[f] = "granted" /\ role[f] = "plain"
    /\ written[f] < MaxWrites
    /\ ~ Aborted(conn[f])
    /\ Writes(conn[f], <<f, 1>>)
    /\ written' = [written EXCEPT ![f] = 1]
    /\ delivered' = delivered \cup {<<f, 1>>}
    /\ release(f, "resolved")
    /\ UNCHANGED <<role, outer, settled, deferred, calls>>

\* The statement is refused and the call rejects.  mysql2 takes the connection
\* back as it is, pg replaces it by a new one.
PlainFails(f) ==
    /\ pc[f] = "granted" /\ role[f] = "plain"
    /\ MayRefuse("statement", conn[f])
    /\ IF Engine = "mysql" THEN Refuses(conn[f])
       ELSE server' = [server EXCEPT ![conn[f]] = NoTx] /\ UNCHANGED durable
    /\ release(f, "refused")
    /\ UNCHANGED <<role, outer, settled, written, deferred, delivered, calls>>

\* The statement commits by itself, the reply is lost, and the call rejects
\* without its after-hook.
PlainReplyLost(f) ==
    /\ pc[f] = "granted" /\ role[f] = "plain"
    /\ written[f] < MaxWrites
    /\ "commit_reply" \in Faults /\ server[conn[f]].by = NoFlow
    /\ Writes(conn[f], <<f, 1>>)
    /\ written' = [written EXCEPT ![f] = 1]
    /\ release(f, "rejected")
    /\ UNCHANGED <<role, outer, settled, deferred, delivered, calls>>

\* The callback, or the scope of a handle, may send a statement.
BodyRuns(f) ==
    /\ pc[f] = "open" /\ ~ Awaiting(f)
    /\ settled[f] => setting.late

\* A model write on the TxConnection: its after-hook is deferred.
BodyWrites(f) ==
    LET w == <<f, written[f] + 1>> IN
    /\ BodyRuns(f)
    /\ written[f] < MaxWrites
    /\ ~ Aborted(conn[f])
    /\ Writes(conn[f], w)
    /\ written' = [written EXCEPT ![f] = @ + 1]
    /\ deferred' = [deferred EXCEPT ![f] = @ \cup {w}]
    /\ UNCHANGED <<pc, role, outer, poolVars, settled, delivered, released, calls>>

\* The statement is refused.  The error leaves the callback, or the scope of the
\* handle, unless it is caught there.
BodyFails(f) ==
    /\ BodyRuns(f)
    /\ MayRefuse("statement", conn[f])
    /\ Refuses(conn[f])
    /\ \/ setting.catches /\ UNCHANGED pc
       \/ pc' = [pc EXCEPT ![f] = IF role[f] = "callback" THEN "catching" ELSE "disposing"]
    /\ UNCHANGED <<role, outer, poolVars, settled, written, deferred, delivered, released, calls>>

-----------------------------------------------------------------------------
(* TxHandle, over this driver's TxConnection. *)

\* Mutant: COMMIT is not sent.
CommitSendsNothing(f, done, failed) ==
    /\ settled' = [settled EXCEPT ![f] = TRUE]
    /\ pc' = [pc EXCEPT ![f] = done]
    /\ UNCHANGED serverVars

\* commit(): COMMIT, then the queue is drained, with the connection still out.
commit(f, done, failed) ==
    \/ /\ Commits(conn[f])
       /\ settled' = [settled EXCEPT ![f] = TRUE]
       /\ pc' = [pc EXCEPT ![f] = done]
    \/ /\ "commit_reply" \in Faults
       /\ Commits(conn[f])
       /\ pc' = [pc EXCEPT ![f] = failed]
       /\ UNCHANGED settled
    \/ /\ "commit" \in Faults
       /\ pc' = [pc EXCEPT ![f] = failed]
       /\ UNCHANGED <<settled, serverVars>>

\* Mutant: ROLLBACK is not sent.
RollbackSendsNothing(f, done, failed) ==
    /\ settled' = [settled EXCEPT ![f] = TRUE]
    /\ pc' = [pc EXCEPT ![f] = done]
    /\ UNCHANGED serverVars

\* rollback(): ROLLBACK, whatever became of the COMMIT.
rollback(f, done, failed) ==
    \/ /\ server' = [server EXCEPT ![conn[f]] = NoTx]
       /\ settled' = [settled EXCEPT ![f] = TRUE]
       /\ pc' = [pc EXCEPT ![f] = done]
       /\ UNCHANGED durable
    \/ /\ "rollback" \in Faults
       /\ pc' = [pc EXCEPT ![f] = failed]
       /\ UNCHANGED <<settled, serverVars>>

\* Mutant: the hooks run whether or not the COMMIT succeeded.
CommitDrainsAlways(f) ==
    /\ pc[f] = "open" /\ role[f] = "callback" /\ ~ Awaiting(f)
    /\ commit(f, "draining", "draining")
    /\ UNCHANGED <<role, outer, poolVars, written, deferred, delivered, released, calls>>

\* transaction(): the callback returned.
Commit(f) ==
    /\ pc[f] = "open" /\ role[f] = "callback" /\ ~ Awaiting(f)
    /\ commit(f, "draining", "catching")
    /\ UNCHANGED <<role, outer, poolVars, written, deferred, delivered, released, calls>>

\* transaction(): the callback threw.
BodyThrows(f) ==
    /\ pc[f] = "open" /\ role[f] = "callback" /\ ~ Awaiting(f)
    /\ pc' = [pc EXCEPT ![f] = "catching"]
    /\ UNCHANGED <<role, outer, poolVars, settled, serverVars, written, deferred,
                   delivered, released, calls>>

\* transaction(): the catch rolls back and swallows a failure to.
Rollback(f) ==
    /\ pc[f] = "catching"
    /\ rollback(f, "disposing", "disposing")
    /\ UNCHANGED <<role, outer, poolVars, written, deferred, delivered, released, calls>>

\* asyncDispose rolls back what is not settled, ...
DisposeRollsBack(f) ==
    /\ pc[f] = "disposing" /\ ~ settled[f]
    /\ rollback(f, "releasing", "releasing")
    /\ UNCHANGED <<role, outer, poolVars, written, deferred, delivered, released, calls>>

\* ... then releases, and does so too when the rollback threw.
DisposeReleases(f) ==
    /\ pc[f] \in {"leaving", "releasing"} \/ (pc[f] = "disposing" /\ settled[f])
    /\ release(f, IF role[f] = "manual" THEN "disposed"
                  ELSE IF pc[f] = "leaving" THEN "resolved" ELSE "rejected")
    /\ UNCHANGED <<role, outer, settled, serverVars, written, deferred, delivered, calls>>

\* drainAfterCommit(), with the connection still checked out.
Drain(f) ==
    /\ pc[f] = "draining" /\ ~ Awaiting(f)
    /\ delivered' = delivered \cup deferred[f]
    /\ deferred' = [deferred EXCEPT ![f] = {}]
    /\ pc' = [pc EXCEPT ![f] = IF role[f] = "manual" THEN "open" ELSE "leaving"]
    /\ UNCHANGED <<role, outer, poolVars, settled, serverVars, written, released, calls>>

\* A manual handle: commit, rollback and dispose in any order and number.
ManualCall(f, from) ==
    /\ role[f] = "manual" /\ pc[f] \in from
    /\ calls < MaxCalls
    /\ calls' = calls + 1
    /\ UNCHANGED <<role, outer, poolVars, written, deferred, delivered, released>>

HandleCommit(f)   == ManualCall(f, {"open"}) /\ commit(f, "draining", "open")
HandleRollback(f) == ManualCall(f, {"open"}) /\ rollback(f, "open", "open")
DisposeAgain(f) ==
    /\ setting.twice
    /\ ManualCall(f, {"disposed"})
    /\ pc' = [pc EXCEPT ![f] = "disposing"]
    /\ UNCHANGED <<settled, serverVars>>

\* `await using` disposes the handle when its scope ends.
HandleDispose(f) ==
    /\ role[f] = "manual" /\ pc[f] = "open"
    /\ pc' = [pc EXCEPT ![f] = "disposing"]
    /\ UNCHANGED <<role, outer, poolVars, settled, serverVars, written, deferred,
                   delivered, released, calls>>

-----------------------------------------------------------------------------
Quiescent == (\A f \in Flows : f <= setting.flows => HasEnded(f)) /\ UNCHANGED vars

Starts(f) ==
    /\ \E r \in setting.roles, p \in Flows \cup {NoFlow} : Ask(f, r, p)
    /\ UNCHANGED setting

Continues(f) ==
    /\ \/ BeginSucceeds(f) \/ BeginFails(f) \/ PlainWorks(f)
       \/ PlainFails(f) \/ PlainReplyLost(f) \/ BodyFails(f)
       \/ BodyWrites(f) \/ Commit(f) \/ BodyThrows(f) \/ Rollback(f)
       \/ DisposeRollsBack(f) \/ DisposeReleases(f) \/ Drain(f)
       \/ HandleCommit(f) \/ HandleRollback(f) \/ DisposeAgain(f) \/ HandleDispose(f)
    /\ UNCHANGED setting

Next == (\E f \in Flows : Starts(f) \/ Continues(f)) \/ Quiescent

\* The server answers every statement or the connection fails, and callbacks
\* return or throw.
Fairness == \A f \in Flows : WF_vars(Continues(f))

Spec == Init /\ [][Next]_vars /\ Fairness

-----------------------------------------------------------------------------
(* Properties. *)

Steps == {"idle", "waiting", "granted", "open", "catching", "disposing", "releasing",
          "draining", "leaving"} \cup Ended
WriteIds == Flows \X (1 .. MaxWrites)

\* Every variable keeps its type, and a flow past its checkout has a connection.
TypeOK ==
    /\ pc \in [Flows -> Steps]
    /\ setting \in Settings
    /\ role \in [Flows -> setting.roles \cup {"none"}]
    /\ outer \in [Flows -> Flows \cup {NoFlow}]
    /\ free \in SUBSET Conns
    /\ queue \in Seq(Flows)
    /\ conn \in [Flows -> Conns \cup {NoConn}]
    /\ \A f \in Flows : pc[f] \notin {"idle", "waiting"} => conn[f] \in Conns
    /\ settled \in [Flows -> BOOLEAN]
    /\ server \in [Conns -> [by : Flows \cup {NoFlow}, writes : SUBSET WriteIds,
                             status : {"ok", "aborted"}]]
    /\ durable \in SUBSET WriteIds
    /\ written \in [Flows -> 0 .. MaxWrites]
    /\ deferred \in [Flows -> SUBSET WriteIds]
    /\ delivered \in SUBSET WriteIds
    /\ released \in [Flows -> Nat]
    /\ calls \in 0 .. MaxCalls

\* The flow has a connection checked out.
HasConn(f) == conn[f] # NoConn /\ released[f] = 0

\* No connection serves two flows at once, or is idle while one uses it.
ExclusiveConnection ==
    \A f \in Flows : HasConn(f) =>
        /\ conn[f] \in Conns \ free
        /\ \A g \in Flows \ {f} : HasConn(g) => conn[g] # conn[f]

\* No connection is lost: one that is not idle is some running flow's.
\* "Release must run exactly once per checkout, on every path including throw"
\* (driver.ts:39-40), as long as a handle is disposed once.
NoConnectionLost ==
    /\ \A c \in Conns \ free :
          \E f \in Flows : HasConn(f) /\ ~ HasEnded(f) /\ conn[f] = c
    /\ ~ setting.twice => \A f \in Flows : released[f] = IF HasEnded(f) THEN 1 ELSE 0

\* "The connection returns to the pool in a clean state" (docs/transactions.md):
\* no transaction is open on an idle connection, or on one just handed over.
CleanConnections ==
    /\ \A c \in free : server[c] = NoTx
    /\ \A f \in Flows : pc[f] = "granted" => server[conn[f]] = NoTx

RollbacksAccepted == "rollback" \notin Faults

\* What is open on a connection is its user's, as long as the server accepts
\* every ROLLBACK, however handles are settled and disposed: idle connections
\* are clean, and no write of an earlier user can be committed by a later one.
Isolation ==
    RollbacksAccepted =>
        /\ CleanConnections
        /\ \A f \in Flows : HasConn(f) => \A w \in server[conn[f]].writes : w[1] = f

WritesOf(f) == {f} \X (1 .. written[f])

\* Nothing that a transaction() is given to do hides from it that a statement
\* was refused.
ErrorsRethrown == ~ setting.catches

\* A transaction that resolved is durable; one that rejected left nothing,
\* unless only the reply to its COMMIT was lost, when it left everything; a
\* handle that is not written through once it is settled leaves all or nothing.
\* No outcome depends on the call it is nested in.  (All this as long as the
\* server accepts every ROLLBACK, since mysql commits what is still open at the
\* next BEGIN, and no callback catches the error of a statement and goes on.)
AtomicOutcome ==
    RollbacksAccepted /\ ErrorsRethrown => \A f \in Flows :
        /\ pc[f] = "resolved" => WritesOf(f) \subseteq durable
        /\ pc[f] = "rejected" =>
              \/ WritesOf(f) \cap durable = {}
              \/ WritesOf(f) \subseteq durable /\ "commit_reply" \in Faults
        /\ pc[f] = "disposed" /\ ~ setting.late =>
              \/ WritesOf(f) \cap durable = {}
              \/ WritesOf(f) \subseteq durable

\* The after-hooks of the calls that transaction() settles, and of plain calls,
\* report durable writes: "A write that rolls back never fires its after-hooks,
\* so an after-hook can assume the write is durable" (docs/transactions.md:58).
\* (A handle that is committed after its rollback has nothing to keep its hooks
\* back.)
HooksReportDurable == \A w \in delivered : role[w[1]] # "manual" => w \in durable

\* They do, also when the calls are nested, as long as the server accepts every
\* ROLLBACK and no callback catches the error of a statement and goes on.
HooksAreDurable == RollbacksAccepted /\ ErrorsRethrown => HooksReportDurable

\* Every connection is held by a call that awaits a nested one, which waits for
\* a connection.
Starved ==
    \A c \in Conns : \E f, g \in Flows :
        HasConn(f) /\ conn[f] = c /\ outer[g] = f /\ pc[g] = "waiting"

\* Every call ends, unless the outer calls take all the connections and each
\* awaits one more: whatever is refused, nested and queued, no call waits for
\* ever for any other reason.
EveryCallEnds == []~ Starved => \A f \in Flows : pc[f] # "idle" ~> HasEnded(f)
=============================================================================
