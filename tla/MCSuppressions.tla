--------------------------- MODULE MCSuppressions ---------------------------
EXTENDS Suppressions, TLC

Symmetry == Permutations(Threads) \cup Permutations(Sessions) \cup Permutations(Records)
=============================================================================
