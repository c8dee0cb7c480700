--------------------------- MODULE MCBudgetTracker ---------------------------
(* Small instances of BudgetTracker. *)
EXTENDS BudgetTracker, TLC

\* a request for v GB of VRAM, m model slots and q request slots
Ask(v, m, q) ==
    [k \in Resources |-> CASE k = "vram_gb" -> v
                           [] k = "model_slot" -> m
                           [] k = "request_slot" -> q
                           [] OTHER -> 0]

Limits(v, m, q) == Ask(v, m, q)

TwoGb == Limits(2, 1, 1)

\* one GB, both GB, a GB with the only model slot, the slot alone,
\* and more than there is
MixedRequests == {Ask(3, 0, 0), Ask(1, 0, 0), Ask(2, 0, 0), Ask(1, 1, 0), Ask(0, 1, 0)}
\* One grant uses this budget up and two other threads can be in the middle of
\* a release, so with three handles a request that fits finds a fresh one.
OneGb     == Limits(1, 1, 1)
OneGbOnly == {Ask(1, 0, 0)}

Pairs == {<<Ask(1, 0, 0), Ask(1, 0, 0)>>, <<Ask(1, 0, 0), Ask(1, 1, 0)>>}

Symmetry == Permutations(Threads) \cup Permutations(Handles)
=============================================================================
