---------------------------- MODULE MCCoherence ----------------------------
EXTENDS Coherence

CONSTANTS n1, n2, n3, n4

PrivateLlcs == [k \in Cores |-> k]
SharedLlc == [k \in Cores |-> IF k = n2 THEN n1 ELSE k]
=============================================================================
