---------------------------- MODULE MCSpeedLimit ----------------------------
EXTENDS SpeedLimit, TLC

Symmetry == Permutations(Threads)
=============================================================================
