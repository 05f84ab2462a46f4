---------------------------- MODULE MCStateFiles ----------------------------
EXTENDS StateFiles, TLC

Symmetry == Permutations(Callers) \cup Permutations(Keys)
=============================================================================
