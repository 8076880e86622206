----------------------------- MODULE MCBarrier -----------------------------
EXTENDS BarrierSyncServer, TLC
CONSTANTS c1, c2, c3
Symmetry == Permutations(Started)
=============================================================================
