--------------------------- MODULE MCBoundedQueue ---------------------------
EXTENDS BoundedQueue, TLC

Symmetry == Permutations(Items)
=============================================================================
