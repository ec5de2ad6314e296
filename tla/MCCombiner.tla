----------------------------- MODULE MCCombiner -----------------------------
EXTENDS Combiner, TLC

Symmetry == Permutations(Threads) \cup Permutations(Samples)
=============================================================================
