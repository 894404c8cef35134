------------------------- MODULE MCCustomerTraffic -------------------------
EXTENDS CustomerTraffic, TLC

Symmetry == Permutations(Threads)
=============================================================================
