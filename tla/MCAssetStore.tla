----------------------------- MODULE MCAssetStore -----------------------------
(* Small instances of AssetStore. *)
EXTENDS AssetStore, TLC

CONSTANTS x, y

\* two contents of one size
SameSizes == (x :> 1) @@ (y :> 1)

Symmetry == Permutations(Threads) \cup Permutations(Assets) \cup Permutations({x, y})
=============================================================================
