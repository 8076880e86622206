------------------------------ MODULE MCFutex ------------------------------
EXTENDS SyscallServer
CONSTANTS t1, t2, t3
Symmetry == Permutations(Threads)
=============================================================================
