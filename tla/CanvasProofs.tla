----------------------------- MODULE CanvasProofs ------------------------------
(***************************************************************************)
(* For any ids, ports and bounds: every state of a canvas is a graph       *)
(* without cycles, and a merge keeps the nodes and wires of both sides.    *)
(***************************************************************************)
EXTENDS Canvas, FiniteSetTheorems, WellFoundedInduction, TLAPS

Graph(s) == s \in State /\ IsFiniteSet(s.nodes) /\ Wired(s)

CanvasInv ==
    /\ Graph(canvas) /\ Graph(mine) /\ Graph(theirs)
    /\ branch # None => Graph(branch)
    /\ versions \in Seq(State) /\ \A i \in DOMAIN versions : Graph(versions[i])
    /\ merging \in {"idle", "theirs", "replace"} /\ edited \in BOOLEAN
    /\ merging = "theirs" => branch # None
    /\ merging = "replace" => \A n \in theirs.nodes : n[2] < MaxMerges
    /\ merging # "idle" /\ ~edited => canvas = mine

-----------------------------------------------------------------------------
(* Cycles *)

\* A set of nodes without a source, each fed by another one: what a cycle is.
Fed(S, W) == \A n \in S : \E w \in W : w.to = n /\ w.from \in S

\* A finite set without a source has a least subset without one.
LEMMA LeastCycle ==
  ASSUME NEW N, IsFiniteSet(N), NEW W, NEW C \in SUBSET N, C # {}, Fed(C, W)
  PROVE  \E S \in SUBSET N : /\ S # {} /\ Fed(S, W)
                             /\ \A T \in SUBSET S : T # {} /\ Fed(T, W) => T = S
<1> DEFINE Cycles == {S \in SUBSET N : S # {} /\ Fed(S, W)}
<1>1. IsWellFoundedOn(StrictSubsetOrdering(N), FiniteSubsetsOf(N))
  BY FS_StrictSubsetOrderingWellFounded
<1>2. Cycles \subseteq FiniteSubsetsOf(N) /\ Cycles # {}
  BY FS_Subset DEF FiniteSubsetsOf
<1>3. PICK S \in Cycles : \A T \in Cycles : <<T, S>> \notin StrictSubsetOrdering(N)
  BY <1>1, <1>2, WFMin
<1>4. ASSUME NEW T \in SUBSET S, T # {}, Fed(T, W) PROVE T = S
  <2>1. T \in Cycles
    BY <1>3, <1>4
  <2>2. <<T, S>> \notin StrictSubsetOrdering(N)
    BY <1>3, <2>1
  <2> QED
    BY <1>3, <2>1, <2>2 DEF StrictSubsetOrdering
<1> QED
  BY <1>3, <1>4

\* Wires of which none closes a cycle with the others close none together.
LEMMA JoinedAcyclic ==
  ASSUME NEW N \in SUBSET Ids, IsFiniteSet(N), NEW W, NEW K,
         \A w \in W \cup K : w.from \in N /\ w.to \in N,
         \A S \in (SUBSET N) \ {{}} : ~Fed(S, W),
         \A w \in K : ~Reaches((W \cup K) \ {w}, w.to, w.from),
         NEW C \in SUBSET N, C # {}
  PROVE  ~Fed(C, W \cup K)
<1> SUFFICES ASSUME Fed(C, W \cup K) PROVE FALSE
  OBVIOUS
<1>1. PICK S \in SUBSET N : /\ S # {} /\ Fed(S, W \cup K)
                            /\ \A T \in SUBSET S : T # {} /\ Fed(T, W \cup K) => T = S
  <2> DEFINE V == W \cup K
  <2>1. Fed(C, V)
    OBVIOUS
  <2> HIDE DEF V
  <2>2. \E S \in SUBSET N : /\ S # {} /\ Fed(S, V)
                            /\ \A T \in SUBSET S : T # {} /\ Fed(T, V) => T = S
    BY <2>1, LeastCycle
  <2> QED
    BY <2>2 DEF V
<1>2. ASSUME NEW w \in K PROVE ~(w.to \in S /\ w.from \in S)
  <2>1. PICK T \in SUBSET Ids :
           /\ w.to \in T /\ w.from \notin T
           /\ \A v \in (W \cup K) \ {w} : v.from \in T => v.to \in T
    BY <1>2 DEF Reaches
  <2>2. Fed(S \ T, W \cup K)
    <3> SUFFICES ASSUME NEW n \in S \ T
                 PROVE  \E v \in W \cup K : v.to = n /\ v.from \in S \ T
      BY DEF Fed
    <3>1. PICK v \in W \cup K : v.to = n /\ v.from \in S
      BY <1>1 DEF Fed
    <3>2. v # w
      BY <2>1, <3>1
    <3> QED
      BY <2>1, <3>1, <3>2
  <2>3. S \ T = {} \/ S \ T = S
    <3> DEFINE U == S \ T
    <3>1. U \in SUBSET S /\ Fed(U, W \cup K)
      BY <2>2
    <3> HIDE DEF U
    <3>2. U = {} \/ U = S
      BY <1>1, <3>1
    <3> QED
      BY <3>2 DEF U
  <2> QED
    BY <2>1, <2>3
<1>3. Fed(S, W)
  BY <1>1, <1>2 DEF Fed
<1> QED
  BY <1>1, <1>3

LEMMA AcyclicFed ==
  ASSUME NEW s
  PROVE  Acyclic(s) <=> \A S \in (SUBSET s.nodes) \ {{}} : ~Fed(S, s.wires)
  BY DEF Acyclic, Fed

LEMMA JoinedWired ==
  ASSUME NEW s, Graph(s), NEW K \in SUBSET Wire,
         \A w \in K : MayConnect([s EXCEPT !.wires = (s.wires \cup K) \ {w}], w)
  PROVE  Graph([s EXCEPT !.wires = s.wires \cup K])
<1> DEFINE r == [s EXCEPT !.wires = s.wires \cup K]
<1>1. /\ s.nodes \in SUBSET Ids /\ s.wires \in SUBSET Wire /\ IsFiniteSet(s.nodes)
      /\ Wired(s)
      /\ r \in State /\ r.nodes = s.nodes /\ r.wires = s.wires \cup K
  BY DEF Graph, State
<1>2. ASSUME NEW w \in K
      PROVE  /\ w.from \in s.nodes /\ w.to \in s.nodes /\ w.from # w.to
             /\ \A v \in (s.wires \cup K) \ {w} : <<v.to, v.port>> # <<w.to, w.port>>
             /\ ~Reaches((s.wires \cup K) \ {w}, w.to, w.from)
  <2> DEFINE q == [s EXCEPT !.wires = (s.wires \cup K) \ {w}]
  <2>1. q.nodes = s.nodes /\ q.wires = (s.wires \cup K) \ {w}
    BY DEF Graph, State
  <2>2. MayConnect(q, w)
    BY <1>2
  <2> HIDE DEF q
  <2> QED
    BY <2>1, <2>2 DEF MayConnect
<1> HIDE DEF r
<1>3. Valid(r)
  BY <1>1, <1>2 DEF Valid, Wired
<1>4. \A v, w \in r.wires : v.to = w.to /\ v.port = w.port => v = w
  BY <1>1, <1>2 DEF Wired
<1>5. Acyclic(r)
  <2>1. \A S \in (SUBSET s.nodes) \ {{}} : ~Fed(S, s.wires)
    BY <1>1, AcyclicFed DEF Wired
  <2>2. \A w \in s.wires \cup K : w.from \in s.nodes /\ w.to \in s.nodes
    BY <1>1, <1>2 DEF Wired, Valid
  <2>3. \A S \in (SUBSET s.nodes) \ {{}} : ~Fed(S, s.wires \cup K)
    BY <1>1, <1>2, <2>1, <2>2, JoinedAcyclic
  <2> QED
    BY <1>1, <2>3, AcyclicFed
<1> QED
  BY <1>1, <1>3, <1>4, <1>5 DEF Graph, Wired, r

-----------------------------------------------------------------------------
(* Edits *)

LEMMA EmptyGraph == Graph(Empty)
  BY FS_EmptySet DEF Graph, Empty, State, Wired, Valid, Acyclic

\* Nodes that no wire touches close no cycle.
LEMMA MoreNodes ==
  ASSUME NEW s, Graph(s), NEW M \in SUBSET Ids, IsFiniteSet(M)
  PROVE  Graph([s EXCEPT !.nodes = s.nodes \cup M])
<1> DEFINE r == [s EXCEPT !.nodes = s.nodes \cup M]
<1>1. /\ s.nodes \in SUBSET Ids /\ s.wires \in SUBSET Wire /\ IsFiniteSet(s.nodes)
      /\ Wired(s)
      /\ r \in State /\ r.nodes = s.nodes \cup M /\ r.wires = s.wires
  BY DEF Graph, State
<1> HIDE DEF r
<1>2. IsFiniteSet(r.nodes)
  BY <1>1, FS_Union
<1>3. Valid(r) /\ \A v, w \in r.wires : v.to = w.to /\ v.port = w.port => v = w
  BY <1>1 DEF Wired, Valid
<1>4. ASSUME NEW S \in SUBSET r.nodes, S # {}
      PROVE  \E n \in S : \A w \in r.wires : w.to = n => w.from \notin S
  <2>1. CASE S \subseteq s.nodes
    BY <1>1, <1>4, <2>1 DEF Wired, Acyclic
  <2>2. CASE ~(S \subseteq s.nodes)
    <3>1. PICK n \in S : n \notin s.nodes
      BY <2>2
    <3>2. \A w \in r.wires : w.to # n
      BY <1>1, <3>1 DEF Wired, Valid
    <3> QED
      BY <3>2
  <2> QED
    BY <2>1, <2>2
<1>5. Acyclic(r)
  BY <1>4 DEF Acyclic
<1> QED
  BY <1>1, <1>2, <1>3, <1>5 DEF Graph, Wired, r

\* Neither do fewer nodes, as long as their wires go too.
LEMMA FewerNodes ==
  ASSUME NEW s, Graph(s), NEW r \in State,
         r.nodes \subseteq s.nodes, r.wires \subseteq s.wires,
         \A w \in r.wires : w.from \in r.nodes /\ w.to \in r.nodes
  PROVE  Graph(r)
<1>1. IsFiniteSet(r.nodes)
  BY FS_Subset DEF Graph
<1>2. Valid(r) /\ \A v, w \in r.wires : v.to = w.to /\ v.port = w.port => v = w
  BY DEF Graph, Wired, Valid
<1>3. ASSUME NEW S \in SUBSET r.nodes, S # {}
      PROVE  \E n \in S : \A w \in r.wires : w.to = n => w.from \notin S
  <2>1. PICK n \in S : \A w \in s.wires : w.to = n => w.from \notin S
    BY <1>3 DEF Graph, Wired, Acyclic
  <2> QED
    BY <2>1
<1>4. Acyclic(r)
  BY <1>3 DEF Acyclic
<1> QED
  BY <1>1, <1>2, <1>4 DEF Graph, Wired

\* Each edit of a graph, checked by itself, gives a graph.
LEMMA EditedGraph ==
  ASSUME NEW s, Graph(s), NEW r \in Edited(s)
  PROVE  Graph(r)
<1>0. s \in State /\ s.nodes \in SUBSET Ids /\ s.wires \in SUBSET Wire
  BY DEF Graph, State
<1>1. CASE r \in Added(s)
  <2>1. PICK n \in (Names \X {0}) \ s.nodes : r = [s EXCEPT !.nodes = @ \cup {n}]
    BY <1>1 DEF Added
  <2>2. n \in Ids
    BY BoundAssumption DEF Ids
  <2>3. IsFiniteSet({n}) /\ {n} \in SUBSET Ids
    BY <2>2, FS_Singleton
  <2> QED
    BY <2>1, <2>3, MoreNodes
<1>2. CASE r \in Removed(s)
  <2>1. PICK n \in s.nodes : r = Without(s, n)
    BY <1>2 DEF Removed
  <2>2. /\ r.nodes = s.nodes \ {n} /\ r.wires = {w \in s.wires : w.from # n /\ w.to # n}
        /\ r \in State
    BY <1>0, <2>1 DEF Without, State
  <2>3. \A w \in r.wires : w.from \in r.nodes /\ w.to \in r.nodes
    BY <2>2 DEF Graph, Wired, Valid
  <2> QED
    BY <2>2, <2>3, FewerNodes
<1>3. CASE r \in Connected(s)
  <2>1. PICK w \in Wire : MayConnect(s, w) /\ r = [s EXCEPT !.wires = @ \cup {w}]
    BY <1>3 DEF Connected
  <2>2. w \notin s.wires
    BY <2>1 DEF MayConnect
  <2>3. [s EXCEPT !.wires = (s.wires \cup {w}) \ {w}] = s
    BY <1>0, <2>2 DEF State
  <2>4. Graph([s EXCEPT !.wires = s.wires \cup {w}])
    BY <2>1, <2>3, JoinedWired
  <2> QED
    BY <2>1, <2>4
<1>4. CASE r \in Disconnected(s)
  <2>1. PICK w \in s.wires : r = [s EXCEPT !.wires = @ \ {w}]
    BY <1>4 DEF Disconnected
  <2>2. r.nodes = s.nodes /\ r.wires = s.wires \ {w} /\ r \in State
    BY <1>0, <2>1 DEF State
  <2> QED
    BY <2>2, FewerNodes DEF Graph, Wired, Valid
<1> QED
  BY <1>1, <1>2, <1>3, <1>4 DEF Edited

-----------------------------------------------------------------------------
(* Merging *)

Copies(h)   == {Prefixed(n) : n \in h.nodes}
Rewires(h)  == {Rewired(w) : w \in h.wires}
Both(m, h)  == [m EXCEPT !.nodes = @ \cup Copies(h)]
Bounded(h)  == \A n \in h.nodes : n[2] < MaxMerges

LEMMA PrefixedIds ==
  /\ \A n \in Ids : n[2] < MaxMerges => Prefixed(n) \in Ids
  /\ \A n, o \in Ids : Prefixed(n) = Prefixed(o) => n = o
  BY BoundAssumption DEF Ids, Prefixed

LEMMA RewiredWires ==
  ASSUME NEW h, Graph(h), Bounded(h)
  PROVE  /\ Copies(h) \in SUBSET Ids /\ IsFiniteSet(Copies(h))
         /\ Rewires(h) \in SUBSET Wire
         /\ \A w \in h.wires : /\ Rewired(w).from = Prefixed(w.from)
                               /\ Rewired(w).to = Prefixed(w.to)
                               /\ Rewired(w).port = w.port
<1>1. h.nodes \in SUBSET Ids /\ h.wires \in SUBSET Wire /\ IsFiniteSet(h.nodes)
  BY DEF Graph, State
<1>2. Copies(h) \in SUBSET Ids
  BY <1>1, PrefixedIds DEF Copies, Bounded
<1>3. IsFiniteSet(Copies(h))
  <2> DEFINE f == [n \in h.nodes |-> Prefixed(n)]
  <2>1. f \in Surjection(h.nodes, Copies(h))
    BY DEF Surjection, Copies
  <2> QED
    BY <1>1, <2>1, FS_Surjection
<1>4. ASSUME NEW w \in h.wires
      PROVE  /\ Rewired(w).from = Prefixed(w.from) /\ Rewired(w).to = Prefixed(w.to)
             /\ Rewired(w).port = w.port /\ Rewired(w) \in Wire
  <2>1. w \in Wire /\ w.from \in h.nodes /\ w.to \in h.nodes
    BY <1>1, <1>4 DEF Graph, Wired, Valid
  <2>2. Prefixed(w.from) \in Ids /\ Prefixed(w.to) \in Ids
    BY <1>1, <2>1, PrefixedIds DEF Bounded
  <2> QED
    BY <2>1, <2>2 DEF Rewired, Wire
<1> QED
  BY <1>2, <1>3, <1>4 DEF Rewires

\* What merge makes is a graph, whichever wires connect accepts.
LEMMA MergedGraph ==
  ASSUME NEW m, Graph(m), NEW h, Graph(h), Bounded(h),
         NEW K \in Accepted(Both(m, h), Rewires(h))
  PROVE  Graph([Both(m, h) EXCEPT !.wires = @ \cup K])
<1>1. Graph(Both(m, h))
  BY RewiredWires, MoreNodes DEF Both
<1>2. K \in SUBSET Wire
  BY RewiredWires DEF Accepted
<1>3. \A w \in K :
         MayConnect([Both(m, h) EXCEPT !.wires = (Both(m, h).wires \cup K) \ {w}], w)
  BY DEF Accepted
<1> QED
  BY <1>1, <1>2, <1>3, JoinedWired

\* The nodes reached from the end of a wire of a graph do not include its start.
LEMMA Downstream ==
  ASSUME NEW h, Graph(h), NEW w \in h.wires
  PROVE  \E D \in SUBSET h.nodes : /\ w.to \in D /\ w.from \notin D
                                   /\ \A v \in h.wires : v.from \in D => v.to \in D
<1>1. \A v \in h.wires : v.from \in h.nodes /\ v.to \in h.nodes
  BY DEF Graph, Wired, Valid
<1> DEFINE Closed(S) == \A v \in h.wires : v.from \in S => v.to \in S
           D == {n \in h.nodes : \A S \in SUBSET h.nodes : w.to \in S /\ Closed(S) => n \in S}
<1>2. D \in SUBSET h.nodes /\ w.to \in D /\ Closed(D)
  BY <1>1
<1>3. ASSUME w.from \in D PROVE FALSE
  <2>1. PICK n \in D : \A v \in h.wires : v.to = n => v.from \notin D
    BY <1>2 DEF Graph, Wired, Acyclic
  <2>2. n # w.to
    BY <1>3, <2>1
  <2>3. (D \ {n}) \in SUBSET h.nodes /\ w.to \in D \ {n} /\ Closed(D \ {n})
    BY <1>2, <2>1, <2>2
  <2>4. n \in D \ {n}
    BY <2>1, <2>3
  <2> QED
    BY <2>4
<1> QED
  BY <1>2, <1>3

\* connect refuses none of the wires of the branch: the copies are apart from
\* the nodes of the canvas, and wired as the originals are.
LEMMA AllAccepted ==
  ASSUME NEW m, Graph(m), NEW h, Graph(h), Bounded(h),
         \A n \in h.nodes : Prefixed(n) \notin m.nodes,
         NEW K \in Accepted(Both(m, h), Rewires(h)), NEW o \in h.wires
  PROVE  Rewired(o) \in K
<1> SUFFICES ASSUME Rewired(o) \notin K PROVE FALSE
  OBVIOUS
<1> DEFINE w == Rewired(o)
           q == [Both(m, h) EXCEPT !.wires = Both(m, h).wires \cup K]
<1>1. /\ m.nodes \in SUBSET Ids /\ m.wires \in SUBSET Wire
      /\ h.nodes \in SUBSET Ids /\ h.wires \in SUBSET Wire
      /\ q.nodes = m.nodes \cup Copies(h) /\ q.wires = m.wires \cup K
  BY DEF Graph, State, Both
<1>2. K \subseteq Rewires(h) /\ ~MayConnect(q, w)
  BY DEF Accepted, Rewires
<1>3. w.from = Prefixed(o.from) /\ w.to = Prefixed(o.to) /\ w.port = o.port
  BY RewiredWires
<1>4. \A v \in h.wires : v.from \in h.nodes /\ v.to \in h.nodes /\ v.from # v.to
  BY DEF Graph, Wired, Valid
<1>5. \A v \in m.wires : v.from \in m.nodes /\ v.to \in m.nodes
  BY DEF Graph, Wired, Valid
<1>6. \A v \in K : \E x \in h.wires :
         v = Rewired(x) /\ v.from = Prefixed(x.from) /\ v.to = Prefixed(x.to) /\ v.port = x.port
  BY <1>2, RewiredWires DEF Rewires
<1> HIDE DEF w, q
<1>7. w.from \in q.nodes /\ w.to \in q.nodes
  BY <1>1, <1>3, <1>4 DEF Copies
<1>8. w.from # w.to
  BY <1>1, <1>3, <1>4, PrefixedIds
<1>9. ASSUME NEW v \in q.wires PROVE <<v.to, v.port>> # <<w.to, w.port>>
  <2>1. CASE v \in m.wires
    BY <1>3, <1>4, <1>5, <2>1
  <2>2. CASE v \in K
    <3> SUFFICES ASSUME v.to = w.to, v.port = w.port PROVE FALSE
      OBVIOUS
    <3>1. PICK x \in h.wires : v = Rewired(x) /\ v.to = Prefixed(x.to) /\ v.port = x.port
      BY <1>6, <2>2
    <3>2. x.to = o.to /\ x.port = o.port
      BY <1>1, <1>3, <1>4, <3>1, PrefixedIds
    <3>3. x = o
      BY <3>2 DEF Graph, Wired
    <3> QED
      BY <2>2, <3>1, <3>3
  <2> QED
    BY <1>1, <1>9, <2>1, <2>2
<1>10. ~Reaches(q.wires, w.to, w.from)
  <2>1. PICK D \in SUBSET h.nodes : /\ o.to \in D /\ o.from \notin D
                                   /\ \A v \in h.wires : v.from \in D => v.to \in D
    BY Downstream
  <2> DEFINE T == {Prefixed(n) : n \in D}
  <2>2. T \in SUBSET Ids
    BY <1>1, PrefixedIds DEF Bounded
  <2>3. w.to \in T
    BY <1>3, <2>1
  <2>4. w.from \notin T
    BY <1>1, <1>3, <1>4, <2>1, PrefixedIds
  <2>5. ASSUME NEW v \in q.wires, v.from \in T PROVE v.to \in T
    <3>1. CASE v \in m.wires
      BY <1>5, <2>5, <3>1
    <3>2. CASE v \in K
      <4>1. PICK x \in h.wires : v.from = Prefixed(x.from) /\ v.to = Prefixed(x.to)
        BY <1>6, <3>2
      <4>2. x.from \in D
        BY <1>1, <1>4, <2>5, <4>1, PrefixedIds
      <4> QED
        BY <2>1, <4>1, <4>2
    <3> QED
      BY <1>1, <2>5, <3>1, <3>2
  <2> HIDE DEF T
  <2> QED
    BY <2>2, <2>3, <2>4, <2>5 DEF Reaches
<1> QED
  BY <1>2, <1>7, <1>8, <1>9, <1>10 DEF MayConnect

-----------------------------------------------------------------------------
(* Every step *)

LEMMA CanvasInit == Init => CanvasInv
<1> SUFFICES ASSUME Init PROVE CanvasInv
  OBVIOUS
<1>1. versions \in Seq(State) /\ \A i \in DOMAIN versions : Graph(versions[i])
  BY DEF Init
<1> QED
  BY <1>1, EmptyGraph DEF Init, CanvasInv

\* What Replace makes of the two snapshots.
LEMMA ReplaceMerges ==
  ASSUME CanvasInv, Replace
  PROVE  \E K \in Accepted(Both(mine, theirs), Rewires(theirs)) :
            canvas' = [Both(mine, theirs) EXCEPT !.wires = @ \cup K]
  BY DEF Replace, Base, Both, Copies, Rewires

LEMMA CanvasStep == CanvasInv /\ [Next]_vars => CanvasInv'
<1> SUFFICES ASSUME CanvasInv, [Next]_vars PROVE CanvasInv'
  OBVIOUS
<1> USE EmptyGraph DEF CanvasInv, documents, merge
<1>1. CASE Edit
  BY <1>1, EditedGraph DEF Edit
<1>2. CASE EditBranch
  <2>1. Graph(branch')
    BY <1>2, EditedGraph DEF EditBranch
  <2>2. branch' # None
    BY <2>1, NoneAssumption DEF Graph
  <2> QED
    BY <1>2, <2>1, <2>2 DEF EditBranch
<1>3. CASE Commit
  <2>1. versions' = Append(versions, canvas) /\ UNCHANGED <<documents, merge, edits, edited>>
    BY <1>3 DEF Commit
  <2>2. versions' \in Seq(State) /\ \A i \in DOMAIN versions' : Graph(versions'[i])
    BY <2>1 DEF Graph
  <2> QED
    BY <2>1, <2>2
<1>4. CASE Revert
  BY <1>4 DEF Revert
<1>5. CASE Branch
  BY <1>5, NoneAssumption DEF Branch, Graph
<1>6. CASE ReadCanvas
  BY <1>6 DEF ReadCanvas
<1>7. CASE ReadBranch
  BY <1>7 DEF ReadBranch
<1>8. CASE Replace
  <2>1. PICK K \in Accepted(Both(mine, theirs), Rewires(theirs)) :
           canvas' = [Both(mine, theirs) EXCEPT !.wires = @ \cup K]
    BY <1>8, ReplaceMerges
  <2>2. Graph(mine) /\ Graph(theirs) /\ Bounded(theirs)
    BY <1>8 DEF Replace, Bounded
  <2>3. Graph(canvas')
    BY <2>1, <2>2, MergedGraph
  <2> QED
    BY <1>8, <2>3 DEF Replace
<1>9. CASE MergeRaises
  BY <1>9 DEF MergeRaises
<1>10. CASE UNCHANGED vars
  BY <1>10 DEF vars
<1> QED
  BY <1>1, <1>2, <1>3, <1>4, <1>5, <1>6, <1>7, <1>8, <1>9, <1>10 DEF Next

\* Every state of the canvas, of a branch, of a version and of a merge is a
\* graph without cycles, with both ends of each wire on the canvas and one wire
\* per input, though each check is local and none is made on what is reverted to.
THEOREM GraphsStayWired == Spec => []WellWired
<1>1. CanvasInv => WellWired
  BY DEF CanvasInv, Graph, WellWired
<1> QED
  BY CanvasInit, CanvasStep, <1>1, PTL DEF Spec

LEMMA MergedBoth ==
  ASSUME CanvasInv, [Next]_vars, merging = "replace", merging' = "idle"
  PROVE  \/ canvas' = canvas /\ Collides
         \/ /\ edited \/ (canvas.nodes \subseteq canvas'.nodes
                             /\ canvas.wires \subseteq canvas'.wires)
            /\ \A n \in theirs.nodes : Prefixed(n) \in canvas'.nodes
            /\ \A w \in theirs.wires : Rewired(w) \in canvas'.wires
<1>1. Replace \/ MergeRaises
  BY DEF Next, vars, merge, Edit, EditBranch, Commit, Revert, Branch, ReadCanvas, ReadBranch
<1>2. CASE MergeRaises
  BY <1>2 DEF MergeRaises, documents
<1>3. CASE Replace
  <2>1. PICK K \in Accepted(Both(mine, theirs), Rewires(theirs)) :
           canvas' = [Both(mine, theirs) EXCEPT !.wires = @ \cup K]
    BY <1>3, ReplaceMerges
  <2>2. /\ Graph(mine) /\ Graph(theirs) /\ Bounded(theirs)
        /\ \A n \in theirs.nodes : Prefixed(n) \notin mine.nodes
        /\ edited \/ canvas = mine
    BY <1>3 DEF CanvasInv, Replace, Bounded, Collides
  <2>3. canvas'.nodes = mine.nodes \cup Copies(theirs) /\ canvas'.wires = mine.wires \cup K
    BY <2>1, <2>2 DEF Both, Graph, State
  <2>4. \A w \in theirs.wires : Rewired(w) \in K
    BY <2>2, AllAccepted
  <2> QED
    BY <2>2, <2>3, <2>4 DEF Copies
<1> QED
  BY <1>1, <1>2, <1>3

\* A merge that does not raise keeps what both canvases had, unless the tracked
\* one was edited under it; connect refuses none of the wires of the branch.
THEOREM MergeKeeps == Spec => MergeKeepsBoth
<1>1. CanvasInv /\ [Next]_vars =>
        [merging = "replace" /\ merging' = "idle" =>
          \/ canvas' = canvas /\ Collides
          \/ /\ edited \/ (canvas.nodes \subseteq canvas'.nodes
                              /\ canvas.wires \subseteq canvas'.wires)
             /\ \A n \in theirs.nodes : Prefixed(n) \in canvas'.nodes
             /\ \A w \in theirs.wires : Rewired(w) \in canvas'.wires]_vars
  BY MergedBoth
<1> QED
  BY CanvasInit, CanvasStep, <1>1, PTL DEF Spec, MergeKeepsBoth
=============================================================================
