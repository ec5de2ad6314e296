-------------------------- MODULE MCContentionHook --------------------------
EXTENDS ContentionHook, TLC

(* Every mutex shares one slot of g_mutex_map. *)
OneSlot(m) == 1

Symmetry == Permutations(Threads)
=============================================================================
