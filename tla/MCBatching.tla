----------------------------- MODULE MCBatching -----------------------------
EXTENDS Batching

Spec == BatchingInit /\ [][BatchingNext]_batchVars
=============================================================================
