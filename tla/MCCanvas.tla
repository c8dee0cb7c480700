------------------------------- MODULE MCCanvas -------------------------------
(* Small instances of Canvas. *)
EXTENDS Canvas, TLC

Symmetry == Permutations(Names) \cup Permutations(Ports)
=============================================================================
