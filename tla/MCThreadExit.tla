---------------------------- MODULE MCThreadExit ----------------------------
EXTENDS ThreadExit, TLC

Symmetry == Permutations(Functions)
=============================================================================
