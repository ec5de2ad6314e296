----------------------------- MODULE MCProfiler -----------------------------
EXTENDS Profiler, TLC

Symmetry ==
    Permutations(Controllers) \cup Permutations(Profilers) \cup Permutations(Samples)
=============================================================================
