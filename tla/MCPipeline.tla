------------------------------ MODULE MCPipeline ------------------------------
(* Small instances of Pipeline: a diamond, and a fork.                     *)
EXTENDS Pipeline, TLC

CONSTANTS a, b, c, d

DiamondNodes  == {a, b, c, d}
DiamondDeps   == a :> {} @@ b :> {a} @@ c :> {a} @@ d :> {b, c}
DiamondGroups == << <<a>>, <<b, c>>, <<d>> >>

ForkNodes  == {a, b, c}
ForkDeps   == a :> {} @@ b :> {a} @@ c :> {a}
ForkGroups == << <<a>>, <<b, c>> >>

Symmetry == Permutations(Runs)
=============================================================================
