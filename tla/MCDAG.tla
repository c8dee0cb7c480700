--------------------------------- MODULE MCDAG ---------------------------------
(* Small instances of DAG. *)
EXTENDS DAG, TLC

\* every way to insert some of the nodes
AnyOrder ==
    UNION {{s \in [1 .. k -> Node] : \A i, j \in 1 .. k : s[i] = s[j] => i = j} :
              k \in 0 .. Cardinality(Node)}

NothingDeclared == {{}}

Symmetry == Permutations(Node)
=============================================================================
