----------------------------- MODULE MCModelCache -----------------------------
(* Small instances of ModelCache. *)
EXTENDS ModelCache, TLC

CONSTANTS latest, tagged

\* the entry without a revision contains the other one
Nested == (latest :> {latest, tagged}) @@ (tagged :> {tagged})

Symmetry == Permutations(Threads) \cup Permutations(Versions) \cup Permutations(Files)
=============================================================================
