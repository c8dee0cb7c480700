------------------------------ MODULE MCPlugins ------------------------------
(* Small instances of Plugins. *)
EXTENDS Plugins, TLC

CONSTANTS one, two, x, y, z, m1, m2, m3, m4

\* two plugins, with a type that both provide
TwoModules == (one :> <<x, z>>) @@ (two :> <<z, y>>)

FourKeys == (one :> <<m1, m2>>) @@ (two :> <<m3, m4>>)

Symmetry == Permutations(Threads)
=============================================================================
