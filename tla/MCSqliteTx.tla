---------------------------- MODULE MCSqliteTx ----------------------------
EXTENDS SqliteTxStore, TLC

FlowSymmetry == Permutations(Flows)
============================================================================
