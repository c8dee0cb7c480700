------------------------------ MODULE MCModuleBus ------------------------------
(* Small instances of ModuleBus. *)
EXTENDS ModuleBus, TLC

Symmetry == Permutations(Threads) \cup Permutations(Factories) \cup Permutations(Versions)
=============================================================================
