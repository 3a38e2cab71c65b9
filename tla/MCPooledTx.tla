---------------------------- MODULE MCPooledTx ----------------------------
EXTENDS PooledTx

\* postgres's pool: handles settled in any order and disposed twice beside
\* callbacks, and refused statements and COMMITs.
AnyHandle == [engine |-> "postgres", roles |-> {"callback", "manual"}, flows |-> 3,
              faults |-> {"statement", "commit"},
              catches |-> FALSE, late |-> FALSE, twice |-> TRUE]

\* The same, and replies to COMMIT that are lost.
AnyReply == [AnyHandle EXCEPT !.flows = 2, !.faults = @ \cup {"commit_reply"}]

\* mysql's pool: callbacks and plain calls, with the same failures and refused
\* BEGINs.
AnyCall == [engine |-> "mysql", roles |-> {"callback", "plain"}, flows |-> 3,
            faults |-> {"begin", "statement", "commit", "commit_reply"},
            catches |-> FALSE, late |-> FALSE, twice |-> FALSE]

\* postgres's pool under callbacks and plain calls.
PlainCall == [AnyCall EXCEPT !.engine = "postgres", !.faults = {"statement", "commit"}]

\* The whole of what mysql's server can refuse.
AnyRefusal == [AnyCall EXCEPT !.faults = {"begin", "statement", "commit", "rollback"}]

\* Callers that catch the error of a statement and go on, and write through
\* handles that are settled.
AnyUse(e) == [engine |-> e, roles |-> {"callback", "manual"}, flows |-> 2,
              faults |-> {"statement"}, catches |-> TRUE, late |-> TRUE, twice |-> FALSE]

\* Callbacks enough to starve two connections: two that nest one more each.
Crowd == [AnyCall EXCEPT !.roles = {"callback"}, !.flows = 4, !.faults = {"begin", "commit"}]

AllUses == {AnyHandle, AnyReply, AnyCall, PlainCall, AnyRefusal, AnyUse("mysql"),
            AnyUse("postgres"), Crowd}

\* mysql's pool, and ROLLBACKs that are refused.
RefusedRollback == {[AnyCall EXCEPT !.roles = {"callback"}, !.faults = {"rollback"}]}
===========================================================================
