------------------------------- MODULE MCSync -------------------------------
EXTENDS SyncServer
CONSTANTS t1, t2, t3
=============================================================================
