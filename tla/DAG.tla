---------------------------------- MODULE DAG ----------------------------------
(***************************************************************************)
(* pipeline/dag.py: the node graph of a pipeline, and one call of          *)
(* parallel_groups. It runs topological_sort (Kahn's algorithm, under the  *)
(* lock throughout), gives the lock up, takes it again to read the         *)
(* dependencies and then computes the depth of every node without it.      *)
(* Other threads may add nodes and edges whenever the lock is free.        *)
(* (Its names differ from those of module Pipeline: PipelineProofs proves  *)
(* about both, as the groups computed here are what that module assumes.)  *)
(***************************************************************************)
EXTENDS Integers, Sequences, FiniteSets, SequencesExt

CONSTANTS
    Node,       \* the node ids
    Orders,     \* the insertion orders to start from
    Declarable, \* the dependency sets a node may declare
    MayAdd      \* do other threads add nodes and edges meanwhile

ASSUME DagAssumption ==
    /\ IsFiniteSet(Node)
    /\ \A s \in Orders :
          /\ s \in Seq(Node)
          /\ \A i, j \in DOMAIN s : s[i] = s[j] => i = j
    /\ Declarable \subseteq SUBSET Node
    /\ MayAdd \in BOOLEAN

VARIABLES
    nodes,      \* _nodes: the ids in insertion order
    declared,   \* dependencies of each node object
    edges,      \* _edges, as (from_node, to_node)
    phase,         \* where parallel_groups is, or how it ended
    adjacency,  \* topological_sort's local copy: the known dependencies
    indegree,   \* how many of them are not emitted yet
    queue,      \* the ready nodes, first in first out
    order,      \* the nodes emitted
    reverse,    \* parallel_groups' local reverse_adj
    at,         \* its position in order
    depth       \* the depths computed so far

graph     == <<nodes, declared, edges>>
sort      == <<adjacency, indegree, queue, order>>
grouping  == <<reverse, at, depth>>
graphVars == <<graph, phase, sort, grouping>>

NoDepth == -1

\* get_dependencies: what a node declares and what its incoming edges imply
Dependencies(n) == declared[n] \cup {m \in Node : <<m, n>> \in edges}

Emitted == Range(order)

\* some of the nodes, in insertion order
Place(n)   == CHOOSE i \in DOMAIN nodes : nodes[i] = n
InOrder(S) == CHOOSE s \in SetToSeqs(S) :
                 \A i, j \in DOMAIN s : i < j => Place(s[i]) < Place(s[j])
MaxOf(S) == CHOOSE x \in S : \A y \in S : y <= x

GraphInit ==
    /\ nodes \in Orders
    /\ declared \in [Node -> Declarable]
    /\ edges = {}
    /\ phase = "idle"
    /\ adjacency = [n \in Node |-> {}]
    /\ indegree = [n \in Node |-> 0]
    /\ queue = <<>> /\ order = <<>>
    /\ reverse = [n \in Node |-> {}]
    /\ at = 1
    /\ depth = [n \in Node |-> NoDepth]

-----------------------------------------------------------------------------
(* topological_sort: the lock is held while phase = "sort"                 *)

\* dependencies that are not nodes do not count
Seed ==
    /\ phase = "idle"
    /\ adjacency' = [n \in Node |->
          IF n \in Range(nodes) THEN Dependencies(n) \cap Range(nodes) ELSE {}]
    /\ indegree' = [n \in Node |-> Cardinality(adjacency'[n])]
    /\ queue' = InOrder({n \in Range(nodes) : indegree'[n] = 0})
    /\ phase' = "sort"
    /\ UNCHANGED <<graph, order, grouping>>

\* (mutants are marked so: each is a plausible bug that a run must catch)
\* mutant: the first ready node is read but not removed
VisitPeek ==
    /\ phase = "sort"
    /\ queue # <<>>
    /\ LET current == Head(queue)
           waiting == {n \in Node : current \in adjacency[n]}
           ready   == {n \in waiting : indegree[n] = 1}
       IN  /\ order' = Append(order, current)
           /\ indegree' = [n \in Node |->
                 IF n \in waiting THEN indegree[n] - 1 ELSE indegree[n]]
           /\ queue' = queue \o InOrder(ready)
    /\ UNCHANGED <<graph, phase, adjacency, grouping>>

\* mutant: a dependent is ready as soon as one dependency is emitted
VisitEager ==
    /\ phase = "sort"
    /\ queue # <<>>
    /\ LET current == Head(queue)
           waiting == {n \in Node : current \in adjacency[n]}
           ready   == {n \in waiting : n \notin Range(queue) \cup Emitted}
       IN  /\ order' = Append(order, current)
           /\ indegree' = [n \in Node |->
                 IF n \in waiting THEN indegree[n] - 1 ELSE indegree[n]]
           /\ queue' = Tail(queue) \o InOrder(ready)
    /\ UNCHANGED <<graph, phase, adjacency, grouping>>

\* emit the first ready node; its dependents lose one dependency each
Visit ==
    /\ phase = "sort"
    /\ queue # <<>>
    /\ LET current == Head(queue)
           waiting == {n \in Node : current \in adjacency[n]}
           ready   == {n \in waiting : indegree[n] = 1}
       IN  /\ order' = Append(order, current)
           /\ indegree' = [n \in Node |->
                 IF n \in waiting THEN indegree[n] - 1 ELSE indegree[n]]
           /\ queue' = Tail(queue) \o InOrder(ready)
    /\ UNCHANGED <<graph, phase, adjacency, grouping>>

\* mutant: "at least one node is left" instead of "not all are emitted"
SortEndsHasty ==
    /\ phase = "sort"
    /\ queue = <<>>
    /\ phase' = IF Len(order) < Cardinality(Node) THEN "cycle" ELSE "sorted"
    /\ UNCHANGED <<graph, sort, grouping>>

\* nothing is ready: all are emitted, or the rest is on or behind a cycle
SortEnds ==
    /\ phase = "sort"
    /\ queue = <<>>
    /\ phase' = IF Len(order) # Len(nodes) THEN "cycle" ELSE "sorted"
    /\ UNCHANGED <<graph, sort, grouping>>

-----------------------------------------------------------------------------
(* parallel_groups, after the sort                                         *)

ReadEdges ==
    /\ phase = "sorted"
    /\ reverse' = [n \in Node |-> IF n \in Emitted THEN Dependencies(n) ELSE {}]
    /\ phase' = "depths"
    /\ UNCHANGED <<graph, sort, at, depth>>

Missing(n) == {m \in reverse[n] : depth[m] = NoDepth}

\* mutant: the depth of a node is that of its shallowest dependency plus one
DepthOfShallowest ==
    /\ phase = "depths"
    /\ at <= Len(order)
    /\ LET n == order[at]
       IN  /\ Missing(n) = {}
           /\ depth' = [depth EXCEPT ![n] =
                 IF reverse[n] = {} THEN 0
                 ELSE 1 - MaxOf({- depth[m] : m \in reverse[n]})]
    /\ at' = at + 1
    /\ UNCHANGED <<graph, phase, sort, reverse>>

DepthOfNext ==
    /\ phase = "depths"
    /\ at <= Len(order)
    /\ LET n == order[at]
       IN  /\ Missing(n) = {}
           /\ depth' = [depth EXCEPT ![n] =
                 IF reverse[n] = {} THEN 0
                 ELSE 1 + MaxOf({depth[m] : m \in reverse[n]})]
    /\ at' = at + 1
    /\ UNCHANGED <<graph, phase, sort, reverse>>

\* ValueError: depends on non-existent nodes
DependencyMissing ==
    /\ phase = "depths"
    /\ at <= Len(order)
    /\ Missing(order[at]) # {}
    /\ phase' = "missing"
    /\ UNCHANGED <<graph, sort, grouping>>

Grouped ==
    /\ phase = "depths"
    /\ at > Len(order)
    /\ phase' = "grouped"
    /\ UNCHANGED <<graph, sort, grouping>>

-----------------------------------------------------------------------------
(* Other threads, when the lock is free                                    *)

Unlocked == MayAdd /\ phase # "sort"

\* add_node: an id that is there already keeps its place and its edges
AddNode(n, D) ==
    /\ Unlocked
    /\ declared' = [declared EXCEPT ![n] = D]
    /\ nodes' = IF n \in Range(nodes) THEN nodes ELSE Append(nodes, n)
    /\ UNCHANGED <<edges, phase, sort, grouping>>

\* add_edge: the ends need not be nodes yet
AddEdge(m, n) ==
    /\ Unlocked
    /\ edges' = edges \cup {<<m, n>>}
    /\ UNCHANGED <<nodes, declared, phase, sort, grouping>>

GraphNext ==
    \/ Seed \/ Visit \/ SortEnds
    \/ ReadEdges \/ DepthOfNext \/ DependencyMissing \/ Grouped
    \/ \E n \in Node : \E D \in Declarable : AddNode(n, D)
    \/ \E m, n \in Node : AddEdge(m, n)

GraphSpec == GraphInit /\ [][GraphNext]_graphVars

-----------------------------------------------------------------------------
(* Properties *)

GraphTypeOK ==
    /\ nodes \in Seq(Node)
    /\ declared \in [Node -> SUBSET Node]
    /\ edges \subseteq Node \X Node
    /\ phase \in {"idle", "sort", "sorted", "cycle", "depths", "missing", "grouped"}
    /\ adjacency \in [Node -> SUBSET Node]
    /\ indegree \in [Node -> Nat]
    /\ queue \in Seq(Node)
    /\ order \in Seq(Node)
    /\ reverse \in [Node -> SUBSET Node]
    /\ at \in 1 .. Len(order) + 1
    /\ depth \in [Node -> Int]

\* Every node comes after all of its known dependencies in the order, and no
\* node comes twice.
OrderRespectsDependencies ==
    \A i \in DOMAIN order :
        /\ adjacency[order[i]] \subseteq {order[j] : j \in 1 .. i - 1}
        /\ \A j \in 1 .. i - 1 : order[j] # order[i]

Cyclic(d) == \E S \in (SUBSET Node) \ {{}} : \A n \in S : d[n] \cap S # {}

\* The sort rejects the graph only if there is a cycle: some nodes each of
\* which depends on another of them.
CycleIsReal == phase = "cycle" => Cyclic(adjacency)

\* Groups are layers: a node is deeper than all of its dependencies, and no
\* deeper than the deepest of them demands, so no group could run earlier.
GroupsAreLayers ==
    phase = "grouped" =>
        \A n \in Emitted :
            /\ depth[n] >= 0
            /\ \A m \in reverse[n] : m \in Emitted /\ depth[m] < depth[n]
            /\ depth[n] > 0 => \E m \in reverse[n] : depth[m] = depth[n] - 1
=============================================================================
