--------------------------- MODULE SqliteTxStore ---------------------------
(***************************************************************************)
(* SqliteTx implements TxStore: the owner is the flow that holds the lock, *)
(* and the writes in the engine's journal are the staged ones, each of the *)
(* outermost transaction around the call that made it.                     *)
(***************************************************************************)
EXTENDS SqliteTx

ownerOf ==
    IF \E f \in Flows : Holds(f) THEN CHOOSE f \in Flows : Holds(f) ELSE NoFlow

stagedWrites == {<<call[w[1]].top, w>> : w \in WritesIn(journal)}

Store == INSTANCE TxStore WITH owner <- ownerOf, staged <- stagedWrites,
                               closed <- conn > 0

\* The driver gives its users one transaction at a time and all-or-nothing
\* commits, however their calls interleave (drivers/sqlite.ts:32-37), until one
\* of them calls close().
ImplementsStore == Store!Spec
=============================================================================
