----------------------------- MODULE MCReducers -----------------------------
EXTENDS Reducers, TLC

Symmetry == Permutations(Threads) \cup Permutations(Combiners) \cup Permutations(Values)
=============================================================================
