----------------------------- MODULE ResourcePool -----------------------------
(***************************************************************************)
(* What a budget tracker promises, without counters or queues: grants are  *)
(* made one at a time and together they never exceed the capacity; a grant *)
(* is given back whole.                                                    *)
(***************************************************************************)
EXTENDS Integers, Functions

CONSTANTS Resources, Capacity, Requests, Grants, None

VARIABLE granted   \* what each grant holds, or None

Total(k) == SumFunction([g \in Grants |->
                IF granted[g] = None THEN 0 ELSE granted[g][k]])

Init == granted = [g \in Grants |-> None]

Grant(g, r) ==
    /\ granted[g] = None
    /\ \A k \in Resources : Total(k) + r[k] <= Capacity[k]
    /\ granted' = [granted EXCEPT ![g] = r]

GiveBack(g) ==
    /\ granted[g] # None
    /\ granted' = [granted EXCEPT ![g] = None]

Clear == granted' = [g \in Grants |-> None]

Next ==
    \/ \E g \in Grants : (\E r \in Requests : Grant(g, r)) \/ GiveBack(g)
    \/ Clear

Spec == Init /\ [][Next]_granted
=============================================================================
