--------------------------- MODULE MCSoftModel ---------------------------
EXTENDS SoftModel, TLC

SoftModelSymmetry == Permutations(Flows) \cup Permutations(Instances)
==========================================================================
