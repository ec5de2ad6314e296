---------------------------- MODULE MCSampleLists ---------------------------
EXTENDS SampleLists, TLC

Symmetry == Permutations(Threads \ {Grab}) \cup Permutations(Samples)
=============================================================================
