-------------------------- MODULE MCEmergencySlab --------------------------
(* Three threads, two regions, a slab of four bytes at an odd address.     *)
EXTENDS EmergencySlab, TLC

MCLayouts == {[size |-> 1, align |-> 1], [size |-> 2, align |-> 2]}

Symmetry == Permutations(Threads) \cup Permutations(Blocks)
=============================================================================
