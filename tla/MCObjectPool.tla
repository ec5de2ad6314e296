---------------------------- MODULE MCObjectPool ----------------------------
EXTENDS ObjectPool, TLC

Symmetry == Permutations(Threads)
=============================================================================
