------------------------- MODULE BudgetTrackerProofs -------------------------
(***************************************************************************)
(* For any number of threads, handles and requests and any budget: the     *)
(* limits hold, the counters are what is on record, no waiter sleeps while *)
(* it fits, a handle marked released has given its budget back, and the    *)
(* tracker implements ResourcePool.                                        *)
(***************************************************************************)
EXTENDS BudgetTracker, FiniteSetTheorems, WellFoundedInduction, TLAPS

\* What the calls that give the lock up rely on when they go on: a waiting or
\* backing-off thread has a request, a releasing one a handle, and the budget
\* of the handle a thread is about to mark is already back.
CallsOK ==
    \A t \in Threads :
        /\ pc[t] \in {"waiting", "woken", "backoff"} => req[t] \in Requests
        /\ timer[t] # "none" => pc[t] \in {"waiting", "woken"}
        /\ pc[t] \in {"releasing", "marking"} => target[t] \in Handles
        /\ pc[t] = "marking" => allocations[target[t]] = None

BaseInv == TypeOK /\ CallsOK /\ ReleasedIsReturned

LEMMA RequestType == \A r \in Requests : r \in Request /\ r # None
  BY RequestAssumption

LEMMA PlusType ==
  ASSUME NEW u \in [Resources -> Int], NEW r \in Request
  PROVE  Plus(u, r) \in [Resources -> Int]
  BY DEF Plus, Request

LEMMA MinusType ==
  ASSUME NEW u \in [Resources -> Int], NEW r \in Request
  PROVE  Minus(u, r) \in [Resources -> Int]
  BY DEF Minus, Request, MaxOf

-----------------------------------------------------------------------------
(* Sums. The folds of the community modules go through a set in the order  *)
(* of CHOOSE; what the counters need to know of them is that the order     *)
(* does not matter. Induction is by least counterexample.                  *)

\* A set of natural numbers has a least one.
LEMMA LeastElement ==
  ASSUME NEW S, S \subseteq Nat, S # {}
  PROVE  \E x \in S : \A y \in S : x <= y
<1>1. \E R : IsWellFoundedOn(R, Nat) /\ \A x, y \in Nat : y < x => <<y, x>> \in R
  <2>1. \A x, y \in Nat : y < x => <<y, x>> \in OpToRel(<, Nat)
    BY DEF OpToRel
  <2> QED
    BY <2>1, NatLessThanWellFounded
<1>2. PICK R : IsWellFoundedOn(R, Nat) /\ \A x, y \in Nat : y < x => <<y, x>> \in R
  BY <1>1
<1>3. PICK x \in S : \A y \in S : <<y, x>> \notin R
  BY <1>2, WFMin
<1>4. \A y \in S : ~(y < x) /\ x \in Nat /\ y \in Nat
  BY <1>2, <1>3
<1> QED
  BY <1>4

\* Of some subsets of a finite set, one has no smaller one beside it.
LEMMA SmallestSet ==
  ASSUME NEW S, IsFiniteSet(S), NEW B \in SUBSET SUBSET S, B # {}
  PROVE  \E s \in B : \A x \in s : s \ {x} \notin B
<1> DEFINE sizes == {Cardinality(s) : s \in B}
<1>1. \A s \in B : IsFiniteSet(s) /\ Cardinality(s) \in Nat
  BY FS_Subset, FS_CardinalityType
<1>2. sizes \subseteq Nat /\ sizes # {}
  BY <1>1
<1>3. PICK n \in sizes : \A m \in sizes : n <= m
  <2> HIDE DEF sizes
  <2> QED
    BY <1>2, LeastElement
<1>4. PICK s \in B : n = Cardinality(s)
  BY <1>3
<1>5. ASSUME NEW x \in s PROVE s \ {x} \notin B
  <2>1. Cardinality(s \ {x}) = n - 1
    BY <1>1, <1>4, FS_RemoveElement
  <2>2. n \in Nat /\ ~(n <= n - 1)
    BY <1>1, <1>4
  <2>3. n - 1 \notin sizes
    BY <1>3, <2>2
  <2> QED
    BY <2>1, <2>3
<1> QED
  BY <1>4, <1>5

Some(s) == CHOOSE x \in s : TRUE

\* The element a fold takes next, and what is left.
LEMMA SomeIn == \A s : s # {} => Some(s) \in s
  BY DEF Some

\* it folds the subsets of S with g, from base
Folds(it, S, base, g) ==
  \A s \in SUBSET S :
     it[s] = IF s = {} THEN base ELSE g[Some(s)][it[s \ {Some(s)}]]

\* Folding is well defined.
LEMMA FoldExists ==
  ASSUME NEW S, IsFiniteSet(S), NEW V, NEW base \in V, NEW g \in [S -> [V -> V]]
  PROVE  \E it \in [SUBSET S -> V] : Folds(it, S, base, g)
<1> DEFINE Sub(n)  == {s \in SUBSET S : Cardinality(s) <= n}
           Def(it, n) == \A s \in Sub(n) :
                 it[s] = IF s = {} THEN base ELSE g[Some(s)][it[s \ {Some(s)}]]
           P(n)    == \E it \in [Sub(n) -> V] : Def(it, n)
           Bad     == {n \in Nat : ~P(n)}
<1>1. \A s \in SUBSET S : /\ IsFiniteSet(s) /\ Cardinality(s) \in Nat
                          /\ Cardinality(s) = 0 <=> s = {}
  BY FS_Subset, FS_CardinalityType, FS_EmptySet
<1>2. P(0)
  <2>1. \A s \in Sub(0) : s = {}
    BY <1>1
  <2>2. [s \in Sub(0) |-> base] \in [Sub(0) -> V]
    OBVIOUS
  <2> QED
    BY <2>1, <2>2
<1>3. ASSUME NEW n \in Nat, P(n) PROVE P(n + 1)
  <2>1. PICK it \in [Sub(n) -> V] : Def(it, n)
    BY <1>3
  <2> DEFINE jt == [s \in Sub(n + 1) |->
                       IF s = {} THEN base ELSE g[Some(s)][it[s \ {Some(s)}]]]
  <2>2. ASSUME NEW s \in Sub(n + 1), s # {}
        PROVE  s \ {Some(s)} \in Sub(n) /\ Some(s) \in S
    <3>1. Some(s) \in s /\ s \in SUBSET S /\ Cardinality(s) <= n + 1
      BY <2>2, SomeIn
    <3>2. Cardinality(s \ {Some(s)}) = Cardinality(s) - 1
      BY <1>1, <3>1, FS_RemoveElement
    <3> QED
      BY <1>1, <3>1, <3>2
  <2>3. \A s \in Sub(n + 1) : s # {} => it[s \ {Some(s)}] \in V
    BY <2>1, <2>2
  <2>4. jt \in [Sub(n + 1) -> V]
    <3> HIDE DEF Sub
    <3>1. \A s \in Sub(n + 1) : s # {} => g[Some(s)][it[s \ {Some(s)}]] \in V
      BY <2>2, <2>3
    <3> QED
      BY <3>1
  <2>5. ASSUME NEW s \in Sub(n) PROVE s \in Sub(n + 1) /\ jt[s] = it[s]
    <3>1. s \in Sub(n + 1)
      BY <1>1
    <3> HIDE DEF Sub
    <3>2. jt[s] = IF s = {} THEN base ELSE g[Some(s)][it[s \ {Some(s)}]]
      BY <3>1
    <3> QED
      BY <2>1, <3>1, <3>2
  <2>6. Def(jt, n + 1)
    <3> HIDE DEF Sub
    <3> QED
      BY <2>2, <2>5
  <2> HIDE DEF jt, Def
  <2> QED
    BY <2>4, <2>6
<1> HIDE DEF P
<1>4. Bad = {}
  <2> SUFFICES ASSUME Bad # {} PROVE FALSE
    OBVIOUS
  <2>1. PICK n \in Bad : \A m \in Bad : n <= m
    BY LeastElement
  <2>2. n # 0
    BY <1>2, <2>1
  <2>3. n - 1 \in Nat /\ n - 1 \notin Bad
    BY <2>1, <2>2
  <2>4. P((n - 1) + 1)
    BY <1>3, <2>3
  <2> QED
    BY <2>1, <2>4
<1>5. P(Cardinality(S))
  BY <1>1, <1>4
<1>6. Sub(Cardinality(S)) = SUBSET S
  <2>1. \A s \in SUBSET S : Cardinality(s) <= Cardinality(S)
    BY FS_Subset
  <2> QED
    BY <2>1
<1>7. PICK it \in [Sub(Cardinality(S)) -> V] : Def(it, Cardinality(S))
  BY <1>5 DEF P
<1> HIDE DEF Sub
<1> QED
  BY <1>6, <1>7 DEF Folds

\* it has the sums of f over the subsets of S
Sums(it, S, f) ==
  /\ it \in [SUBSET S -> Int]
  /\ \A s \in SUBSET S : it[s] = IF s = {} THEN 0 ELSE f[Some(s)] + it[s \ {Some(s)}]

LEMMA SumIs ==
  ASSUME NEW S, IsFiniteSet(S), NEW f \in [S -> Int]
  PROVE  \E it : Sums(it, S, f) /\ SumFunction(f) = it[S]
<1> DEFINE Eq(it) == it = [s \in SUBSET S |->
                 IF s = {} THEN 0 ELSE f[Some(s)] + it[s \ {Some(s)}]]
           c == CHOOSE it : Eq(it)
<1>1. SumFunction(f) = c[S]
  BY DEF SumFunction, SumFunctionOnSet, FoldFunctionOnSet, MapThenFoldSet, Some
<1>2. Eq(c)
  <2> DEFINE g == [x \in S |-> [v \in Int |-> f[x] + v]]
  <2>1. g \in [S -> [Int -> Int]] /\ \A x \in S, v \in Int : g[x][v] = f[x] + v
    OBVIOUS
  <2>2. PICK it \in [SUBSET S -> Int] : Folds(it, S, 0, g)
    <3> HIDE DEF g
    <3>1. 0 \in Int
      OBVIOUS
    <3> QED
      BY <2>1, <3>1, FoldExists
  <2>3. \A s \in SUBSET S : s # {} => Some(s) \in S /\ s \ {Some(s)} \in SUBSET S
    BY SomeIn
  <2>4. \A s \in SUBSET S : it[s] = IF s = {} THEN 0 ELSE f[Some(s)] + it[s \ {Some(s)}]
    <3> HIDE DEF g
    <3> QED
      BY <2>1, <2>2, <2>3 DEF Folds
  <2>5. Eq(it)
    BY <2>4
  <2> HIDE DEF Eq
  <2> QED
    BY <2>5
<1> HIDE DEF c
<1>3. \A s \in SUBSET S : c[s] = IF s = {} THEN 0 ELSE f[Some(s)] + c[s \ {Some(s)}]
  BY <1>2
<1> DEFINE B == {s \in SUBSET S : c[s] \notin Int}
<1>4. B = {}
  <2> SUFFICES ASSUME B # {} PROVE FALSE
    OBVIOUS
  <2>1. PICK s \in B : \A x \in s : s \ {x} \notin B
    <3>1. B \in SUBSET SUBSET S
      OBVIOUS
    <3> HIDE DEF B
    <3> QED
      BY <3>1, SmallestSet
  <2>2. s \in SUBSET S /\ c[s] \notin Int
    BY <2>1
  <2>3. s # {} /\ c[s] = f[Some(s)] + c[s \ {Some(s)}]
    <3>1. c[{}] = 0
      BY <1>3
    <3>2. s # {}
      BY <2>2, <3>1
    <3> QED
      BY <1>3, <2>2, <3>2
  <2>4. Some(s) \in s /\ Some(s) \in S
    BY <2>2, <2>3, SomeIn
  <2>5. c[s \ {Some(s)}] \in Int
    BY <2>1, <2>2, <2>4
  <2> QED
    BY <2>2, <2>3, <2>4, <2>5
<1>5. Sums(c, S, f)
  <2>1. c = [s \in SUBSET S |-> c[s]]
    BY <1>2
  <2>2. \A s \in SUBSET S : c[s] \in Int
    BY <1>4
  <2> QED
    BY <1>3, <2>1, <2>2 DEF Sums
<1> QED
  BY <1>1, <1>5

\* Any element can be taken first.
LEMMA AnyFirst ==
  ASSUME NEW S, IsFiniteSet(S), NEW f \in [S -> Int], NEW it, Sums(it, S, f),
         NEW T \in SUBSET S, NEW z \in T
  PROVE  it[T] = f[z] + it[T \ {z}]
<1> DEFINE B == {s \in SUBSET S : \E x \in s : it[s] # f[x] + it[s \ {x}]}
<1>1. \A s \in SUBSET S : it[s] \in Int /\ \A x \in s : f[x] \in Int /\ s \ {x} \in SUBSET S
  BY DEF Sums
<1>2. B = {}
  <2> SUFFICES ASSUME B # {} PROVE FALSE
    OBVIOUS
  <2>1. PICK s \in B : \A x \in s : s \ {x} \notin B
    <3>1. B \in SUBSET SUBSET S
      OBVIOUS
    <3> HIDE DEF B
    <3> QED
      BY <3>1, SmallestSet
  <2>2. PICK x \in s : it[s] # f[x] + it[s \ {x}]
    BY <2>1
  <2> DEFINE y == Some(s)
  <2>3. y \in s /\ it[s] = f[y] + it[s \ {y}]
    BY <2>1, <2>2, SomeIn DEF Sums
  <2> HIDE DEF y
  <2>4. y # x
    BY <2>2, <2>3
  <2> DEFINE r == s \ {x, y}
  <2>5. it[s \ {y}] = f[x] + it[r]
    <3>1. x \in s \ {y} /\ (s \ {y}) \ {x} = r /\ s \ {y} \in SUBSET S
      BY <2>1, <2>4
    <3>2. s \ {y} \notin B
      BY <2>1, <2>3
    <3> QED
      BY <3>1, <3>2
  <2>6. it[s \ {x}] = f[y] + it[r]
    <3>1. y \in s \ {x} /\ (s \ {x}) \ {y} = r /\ s \ {x} \in SUBSET S
      BY <2>1, <2>3, <2>4
    <3>2. s \ {x} \notin B
      BY <2>1
    <3> QED
      BY <3>1, <3>2
  <2>7. it[r] \in Int /\ f[x] \in Int /\ f[y] \in Int
    BY <1>1, <2>1, <2>2, <2>3
  <2> QED
    BY <2>2, <2>3, <2>5, <2>6, <2>7
<1> QED
  BY <1>2

\* Sums of the same terms are the same.
LEMMA SameTerms ==
  ASSUME NEW S, IsFiniteSet(S), NEW f, NEW g, NEW it, NEW jt,
         Sums(it, S, f), Sums(jt, S, g), NEW T \in SUBSET S, \A x \in T : f[x] = g[x]
  PROVE  it[T] = jt[T]
<1> DEFINE B == {s \in SUBSET T : it[s] # jt[s]}
<1>1. B = {}
  <2> SUFFICES ASSUME B # {} PROVE FALSE
    OBVIOUS
  <2>0. IsFiniteSet(T)
    BY FS_Subset
  <2>1. PICK s \in B : \A x \in s : s \ {x} \notin B
    <3>1. B \in SUBSET SUBSET T
      OBVIOUS
    <3> HIDE DEF B
    <3> QED
      BY <2>0, <3>1, SmallestSet
  <2>2. s \in SUBSET S /\ s # {}
    BY <2>1 DEF Sums
  <2>3. Some(s) \in s /\ Some(s) \in T /\ it[s \ {Some(s)}] = jt[s \ {Some(s)}]
    BY <2>1, <2>2, SomeIn
  <2> QED
    BY <2>1, <2>2, <2>3 DEF Sums
<1> QED
  BY <1>1

\* Changing one term changes the sum by as much.
LEMMA SumChange ==
  ASSUME NEW S, IsFiniteSet(S), NEW f \in [S -> Int], NEW g \in [S -> Int],
         NEW h \in S, \A x \in S \ {h} : g[x] = f[x]
  PROVE  /\ SumFunction(f) \in Int /\ SumFunction(g) \in Int
         /\ SumFunction(g) = SumFunction(f) - f[h] + g[h]
<1>1. PICK it : Sums(it, S, f) /\ SumFunction(f) = it[S]
  BY SumIs
<1>2. PICK jt : Sums(jt, S, g) /\ SumFunction(g) = jt[S]
  BY SumIs
<1>3. it[S] = f[h] + it[S \ {h}] /\ jt[S] = g[h] + jt[S \ {h}]
  <2>1. S \in SUBSET S
    OBVIOUS
  <2>2. it[S] = f[h] + it[S \ {h}]
    <3>1. \A z \in S : it[S] = f[z] + it[S \ {z}]
      BY <1>1, <2>1, AnyFirst
    <3> QED
      BY <3>1
  <2>3. jt[S] = g[h] + jt[S \ {h}]
    BY <1>2, <2>1, AnyFirst
  <2> QED
    BY <2>2, <2>3
<1>4. it[S \ {h}] = jt[S \ {h}]
  BY <1>1, <1>2, SameTerms
<1>5. it[S] \in Int /\ jt[S] \in Int /\ it[S \ {h}] \in Int /\ f[h] \in Int /\ g[h] \in Int
  BY <1>1, <1>2 DEF Sums
<1> QED
  BY <1>1, <1>2, <1>3, <1>4, <1>5

\* A sum of terms that are not negative is at least each of them, and zero if
\* all are zero.
LEMMA SumBounds ==
  ASSUME NEW S, IsFiniteSet(S), NEW f \in [S -> Int], \A x \in S : f[x] >= 0
  PROVE  /\ SumFunction(f) \in Int /\ SumFunction(f) >= 0
         /\ \A x \in S : f[x] <= SumFunction(f)
         /\ (\A x \in S : f[x] = 0) => SumFunction(f) = 0
<1>1. PICK it : Sums(it, S, f) /\ SumFunction(f) = it[S]
  BY SumIs
<1> DEFINE Fine(s) == it[s] >= 0 /\ ((\A x \in S : f[x] = 0) => it[s] = 0)
           B == {s \in SUBSET S : ~Fine(s)}
<1>2. B = {}
  <2> SUFFICES ASSUME B # {} PROVE FALSE
    OBVIOUS
  <2>1. PICK s \in B : \A x \in s : s \ {x} \notin B
    <3>1. B \in SUBSET SUBSET S
      OBVIOUS
    <3> HIDE DEF B
    <3> QED
      BY <3>1, SmallestSet
  <2>2. s # {}
    BY <1>1, <2>1 DEF Sums
  <2>3. Some(s) \in s /\ Some(s) \in S /\ s \ {Some(s)} \in SUBSET S
    BY <2>1, <2>2, SomeIn
  <2>4. it[s] = f[Some(s)] + it[s \ {Some(s)}] /\ it[s \ {Some(s)}] \in Int
    BY <1>1, <2>1, <2>2, <2>3 DEF Sums
  <2>5. Fine(s \ {Some(s)})
    BY <2>1, <2>3
  <2>6. f[Some(s)] \in Int /\ f[Some(s)] >= 0
    BY <2>3
  <2>7. Fine(s)
    BY <2>3, <2>4, <2>5, <2>6
  <2> QED
    BY <2>1, <2>7
<1>3. it[S] \in Int
  BY <1>1 DEF Sums
<1>4. ASSUME NEW x \in S PROVE f[x] <= it[S]
  <2>1. it[S] = f[x] + it[S \ {x}] /\ it[S \ {x}] \in Int /\ f[x] \in Int
    <3>1. S \in SUBSET S /\ it[S] = f[x] + it[S \ {x}]
      BY <1>1, AnyFirst
    <3> QED
      BY <1>1, <3>1 DEF Sums
  <2>2. it[S \ {x}] >= 0
    BY <1>2
  <2> QED
    BY <2>1, <2>2
<1> QED
  BY <1>1, <1>2, <1>3, <1>4

\* What some new terms in the place of zeros add to a sum.
LEMMA SumMany ==
  ASSUME NEW S, IsFiniteSet(S), NEW J, IsFiniteSet(J),
         NEW f \in [S -> Int], NEW g \in [S -> Int], NEW w \in [J -> Int],
         NEW hs \in [J -> S], \A i, j \in J : hs[i] = hs[j] => i = j,
         \A i \in J : f[hs[i]] = 0 /\ g[hs[i]] = w[i],
         \A x \in S : (\A i \in J : hs[i] # x) => g[x] = f[x]
  PROVE  SumFunction(g) = SumFunction(f) + SumFunction(w)
<1> DEFINE part(T) == [x \in S |-> IF \E i \in T : hs[i] = x THEN g[x] ELSE f[x]]
<1>1. PICK it : Sums(it, J, w) /\ SumFunction(w) = it[J]
  BY SumIs
<1>2. SumFunction(f) \in Int
  <2>1. PICK jt : Sums(jt, S, f) /\ SumFunction(f) = jt[S]
    BY SumIs
  <2> QED
    BY <2>1 DEF Sums
<1> DEFINE B == {T \in SUBSET J : SumFunction(part(T)) # SumFunction(f) + it[T]}
<1>3. B = {}
  <2> SUFFICES ASSUME B # {} PROVE FALSE
    OBVIOUS
  <2>1. PICK T \in B : \A x \in T : T \ {x} \notin B
    <3>1. B \in SUBSET SUBSET J
      OBVIOUS
    <3> HIDE DEF B
    <3> QED
      BY <3>1, SmallestSet
  <2>2. T \in SUBSET J /\ SumFunction(part(T)) # SumFunction(f) + it[T]
    BY <2>1
  <2>3. CASE T = {}
    <3>1. part({}) = f
      OBVIOUS
    <3>2. it[{}] = 0
      BY <1>1 DEF Sums
    <3> QED
      BY <1>2, <2>2, <2>3, <3>1, <3>2
  <2>4. CASE T # {}
    <3> DEFINE i == Some(T)
               R == T \ {i}
    <3>1. i \in T /\ i \in J /\ R \in SUBSET J
      BY <2>2, <2>4, SomeIn
    <3>2. it[T] = w[i] + it[R] /\ it[R] \in Int /\ w[i] \in Int
      BY <1>1, <2>2, <2>4, <3>1 DEF Sums
    <3> HIDE DEF i
    <3>3. SumFunction(part(R)) = SumFunction(f) + it[R]
      BY <2>1, <3>1
    <3>4. part(T)[hs[i]] = w[i] /\ part(R)[hs[i]] = 0 /\ hs[i] \in S
      BY <2>2, <3>1
    <3>5. \A x \in S \ {hs[i]} : part(T)[x] = part(R)[x]
      BY <2>2, <3>1
    <3>6. part(T) \in [S -> Int] /\ part(R) \in [S -> Int]
      OBVIOUS
    <3> HIDE DEF part, R
    <3>7. /\ SumFunction(part(T)) = SumFunction(part(R)) - part(R)[hs[i]] + part(T)[hs[i]]
          /\ SumFunction(part(R)) \in Int
      BY <3>4, <3>5, <3>6, SumChange
    <3> QED
      BY <1>2, <2>2, <3>2, <3>3, <3>4, <3>7
  <2> QED
    BY <2>3, <2>4
<1>4. SumFunction(part(J)) = SumFunction(f) + it[J]
  BY <1>3
<1>5. part(J) = g
  <2>1. \A x \in S : part(J)[x] = g[x]
    OBVIOUS
  <2>2. part(J) \in [S -> Int]
    OBVIOUS
  <2> HIDE DEF part
  <2> QED
    BY <2>1, <2>2
<1> QED
  BY <1>1, <1>4, <1>5

\* allocate_many adds to each counter what its specs sum up to.
LEMMA BatchFold ==
  ASSUME NEW u \in [Resources -> Int], NEW batch \in Seq(Request)
  PROVE  /\ FoldSeq(LAMBDA r, v : Plus(v, r), u, batch) \in [Resources -> Int]
         /\ \A k \in Resources :
               FoldSeq(LAMBDA r, v : Plus(v, r), u, batch)[k]
                 = u[k] + SumFunction([i \in DOMAIN batch |-> batch[i][k]])
<1> DEFINE D     == DOMAIN batch
           V     == [Resources -> Int]
           Eq(it) == it = [s \in SUBSET D |->
                IF s = {} THEN u ELSE Plus(it[s \ {Some(s)}], batch[Some(s)])]
           c     == CHOOSE it : Eq(it)
           total == FoldSeq(LAMBDA r, v : Plus(v, r), u, batch)
<1>1. total = c[D]
  BY DEF FoldSeq, FoldFunction, FoldFunctionOnSet, MapThenFoldSet, Some
<1> HIDE DEF total
<1>2. IsFiniteSet(D) /\ \A i \in D : batch[i] \in Request
  <2>1. Len(batch) \in Nat /\ D = 1 .. Len(batch)
    OBVIOUS
  <2> QED
    BY <2>1, FS_Interval
<1> HIDE DEF D
<1>3. \A v \in V, i \in D : Plus(v, batch[i]) \in V
  BY <1>2, PlusType
<1>4. Eq(c)
  <2> DEFINE g == [i \in D |-> [v \in V |-> Plus(v, batch[i])]]
  <2>1. g \in [D -> [V -> V]] /\ \A i \in D, v \in V : g[i][v] = Plus(v, batch[i])
    BY <1>3
  <2>2. PICK it \in [SUBSET D -> V] : Folds(it, D, u, g)
    <3> HIDE DEF g, V
    <3>1. u \in V
      BY DEF V
    <3> QED
      BY <1>2, <2>1, <3>1, FoldExists
  <2>3. \A s \in SUBSET D : s # {} => Some(s) \in D /\ s \ {Some(s)} \in SUBSET D
    BY SomeIn
  <2>4. \A s \in SUBSET D :
           it[s] = IF s = {} THEN u ELSE Plus(it[s \ {Some(s)}], batch[Some(s)])
    <3> HIDE DEF g, V
    <3> QED
      BY <2>1, <2>2, <2>3 DEF Folds
  <2>5. Eq(it)
    BY <2>4
  <2> HIDE DEF Eq
  <2> QED
    BY <2>5
<1> HIDE DEF c
<1>5. \A s \in SUBSET D :
         c[s] = IF s = {} THEN u ELSE Plus(c[s \ {Some(s)}], batch[Some(s)])
  BY <1>4
<1>6. ASSUME NEW k \in Resources
      PROVE  /\ c[D] \in V
             /\ c[D][k] = u[k] + SumFunction([i \in D |-> batch[i][k]])
  <2> DEFINE f == [i \in D |-> batch[i][k]]
  <2>1. f \in [D -> Int] /\ \A i \in D : f[i] = batch[i][k]
    BY <1>2 DEF Request
  <2> HIDE DEF f
  <2>2. PICK it : Sums(it, D, f) /\ SumFunction(f) = it[D]
    BY <1>2, <2>1, SumIs
  <2> DEFINE Fine(s) == c[s] \in V /\ c[s][k] = u[k] + it[s]
             B == {s \in SUBSET D : ~Fine(s)}
  <2>3. B = {}
    <3> SUFFICES ASSUME B # {} PROVE FALSE
      OBVIOUS
    <3>1. PICK s \in B : \A x \in s : s \ {x} \notin B
      <4>1. B \in SUBSET SUBSET D
        OBVIOUS
      <4> HIDE DEF B
      <4> QED
        BY <1>2, <4>1, SmallestSet
    <3>2. s \in SUBSET D /\ ~Fine(s)
      BY <3>1
    <3>3. CASE s = {}
      <4>1. c[s] = u /\ it[s] = 0
        BY <1>5, <2>2, <3>2, <3>3 DEF Sums
      <4> QED
        BY <3>2, <4>1
    <3>4. CASE s # {}
      <4> DEFINE i == Some(s)
                 q == s \ {i}
      <4>1. i \in s /\ i \in D /\ q \in SUBSET D
        BY <3>2, <3>4, SomeIn
      <4>2. c[s] = Plus(c[q], batch[i])
        BY <1>5, <3>2, <3>4
      <4>3. it[s] = f[i] + it[q] /\ it[q] \in Int /\ f[i] = batch[i][k] /\ f[i] \in Int
        BY <2>1, <2>2, <3>2, <3>4, <4>1 DEF Sums
      <4> HIDE DEF i
      <4>4. Fine(q)
        BY <3>1, <4>1
      <4> HIDE DEF q
      <4>5. c[s] \in V /\ c[s][k] = c[q][k] + batch[i][k]
        BY <1>3, <4>1, <4>2, <4>4 DEF Plus
      <4>6. u[k] \in Int /\ c[q][k] = u[k] + it[q]
        BY <4>4
      <4> QED
        BY <3>2, <4>3, <4>5, <4>6
    <3> QED
      BY <3>3, <3>4
  <2>4. Fine(D)
    BY <2>3
  <2> QED
    BY <2>2, <2>4 DEF f
<1>7. "vram_gb" \in Resources
  BY DEF Resources, Gb
<1>8. total \in [Resources -> Int] /\ \A k \in Resources :
         total[k] = u[k] + SumFunction([i \in D |-> batch[i][k]])
  BY <1>1, <1>6, <1>7
<1> QED
  BY <1>8 DEF total, D

-----------------------------------------------------------------------------
(* The books *)

\* Taking a request for a fresh handle keeps the books well formed.
LEMMA ConsumeBase ==
  ASSUME BaseInv, NEW r \in Requests, Consume(r)
  PROVE  /\ used' \in [Resources -> Int]
         /\ allocations' \in [Handles -> Requests \cup {None}]
         /\ handle' \in [Handles -> {"none", "held", "released"}]
         /\ \A h \in Handles : handle'[h] = "released" => allocations'[h] = None
         /\ \A t \in Threads :
               target[t] \in Handles => allocations'[target[t]] = allocations[target[t]]
<1>1. used' \in [Resources -> Int]
  BY RequestType, PlusType DEF Consume, BaseInv, TypeOK
<1>2. PICK h \in Handles :
         /\ Fresh(h)
         /\ allocations' = [allocations EXCEPT ![h] = r]
         /\ handle' = [handle EXCEPT ![h] = "held"]
  BY DEF Consume
<1> QED
  BY <1>1, <1>2 DEF Fresh, BaseInv, TypeOK, ReleasedIsReturned

\* The locked part of a release keeps the books well formed.
LEMMA ReturnBase ==
  ASSUME BaseInv, NEW h \in Handles, NEW p, Return(h, p)
  PROVE  /\ used' \in [Resources -> Int]
         /\ allocations' \in [Handles -> Requests \cup {None}]
         /\ allocations'[h] = None
         /\ \A g \in Handles : allocations[g] = None => allocations'[g] = None
         /\ pc' = p \/ pc' = WakeAll(p)
<1>1. CASE allocations[h] = None
  BY <1>1 DEF Return, BaseInv, TypeOK, tracker
<1>2. CASE allocations[h] # None
  <2>1. allocations[h] \in Request
    BY <1>2, RequestType DEF BaseInv, TypeOK
  <2>2. used' \in [Resources -> Int]
    BY <1>2, <2>1, MinusType DEF Return, BaseInv, TypeOK
  <2> QED
    BY <1>2, <2>2 DEF Return, BaseInv, TypeOK
<1> QED
  BY <1>1, <1>2

LEMMA BaseInit == Init => BaseInv
<1> SUFFICES ASSUME Init PROVE BaseInv
  OBVIOUS
<1>1. TypeOK
  BY BoundAssumption DEF Init, TypeOK, Resources, Gb, Slots
<1>2. CallsOK /\ ReleasedIsReturned
  BY DEF Init, CallsOK, ReleasedIsReturned
<1> QED
  BY <1>1, <1>2 DEF BaseInv

\* A batch keeps the books well formed, too.
LEMMA ManyBase ==
  ASSUME BaseInv, NEW t \in Threads, NEW batch \in Batches, AllocateMany(t, batch)
  PROVE  BaseInv'
<1> DEFINE D == DOMAIN batch
<1>0. batch \in Seq(Requests) /\ batch \in Seq(Request)
  BY BatchAssumption, RequestAssumption
<1>1. PICK hs \in [D -> Handles] :
         /\ \A i \in D : Fresh(hs[i])
         /\ allocations' = [h \in Handles |->
               IF \E i \in D : hs[i] = h
               THEN batch[CHOOSE i \in D : hs[i] = h]
               ELSE allocations[h]]
         /\ handle' = [h \in Handles |->
               IF \E i \in D : hs[i] = h THEN "held" ELSE handle[h]]
  BY DEF AllocateMany
<1>2. UNCHANGED <<pc, req, timer, attempt, target>>
      /\ used' = FoldSeq(LAMBDA r, u : Plus(u, r), used, batch)
  BY DEF AllocateMany, call
<1>3. used' \in [Resources -> Int]
  BY <1>0, <1>2, BatchFold DEF BaseInv, TypeOK
<1>4. \A i \in D : batch[i] \in Requests
  BY <1>0
<1> HIDE DEF D
<1>5. allocations' \in [Handles -> Requests \cup {None}]
  BY <1>1, <1>4 DEF BaseInv, TypeOK
<1>6. \A h \in Handles : \/ handle'[h] = "held"
                         \/ handle'[h] = handle[h] /\ allocations'[h] = allocations[h]
  BY <1>1
<1>7. \A u \in Threads : target[u] \in Handles =>
         allocations'[target[u]] = allocations[target[u]]
  BY <1>1 DEF Fresh
<1> QED
  BY <1>1, <1>2, <1>3, <1>5, <1>6, <1>7 DEF BaseInv, TypeOK, CallsOK, ReleasedIsReturned

LEMMA BaseStep ==
  ASSUME BaseInv, [Next]_vars
  PROVE  BaseInv'
<1> USE DEF BaseInv, TypeOK, CallsOK, ReleasedIsReturned, tracker, call
<1>1. ASSUME NEW t \in Threads, NEW r \in Requests, Allocate(t, r)
      PROVE  BaseInv'
  BY <1>1, ConsumeBase DEF Allocate
<1>2. ASSUME NEW t \in Threads, NEW r \in Requests, TryAcquire(t, r)
      PROVE  BaseInv'
  BY <1>2, ConsumeBase DEF TryAcquire
<1>3. ASSUME NEW t \in Threads, NEW r \in Requests,
             NEW w \in {"none", "running"}, StartWaiting(t, r, w)
      PROVE  BaseInv'
  BY <1>3 DEF StartWaiting, Idle
<1>4. ASSUME NEW t \in Threads, NEW r \in Requests, StartBackoff(t, r)
      PROVE  BaseInv'
  BY <1>4, BoundAssumption DEF StartBackoff, Idle
<1>5. ASSUME NEW t \in Threads, NEW h \in Handles, TrackerRelease(t, h)
      PROVE  BaseInv'
  <2>1. /\ used' \in [Resources -> Int]
        /\ allocations' \in [Handles -> Requests \cup {None}]
        /\ \A g \in Handles : allocations[g] = None => allocations'[g] = None
        /\ pc' = pc \/ pc' = WakeAll(pc)
    BY <1>5, ReturnBase DEF TrackerRelease
  <2> QED
    BY <1>5, <2>1 DEF TrackerRelease, WakeAll
<1>6. ASSUME NEW t \in Threads, NEW h \in Handles, BeginHandleRelease(t, h)
      PROVE  BaseInv'
  BY <1>6 DEF BeginHandleRelease, Idle
<1>7. ASSUME NEW t \in Threads, ReleaseAll(t)
      PROVE  BaseInv'
  BY <1>7 DEF ReleaseAll
<1>8. ASSUME NEW t \in Threads, ServeWaiter(t)
      PROVE  BaseInv'
  <2>1. req[t] \in Requests
    BY <1>8 DEF ServeWaiter
  <2> QED
    BY <1>8, <2>1, ConsumeBase, BoundAssumption DEF ServeWaiter, Leave
<1>9. ASSUME NEW t \in Threads, GiveUp(t)
      PROVE  BaseInv'
  BY <1>9, BoundAssumption DEF GiveUp, Leave
<1>10. ASSUME NEW t \in Threads, WaitAgain(t)
      PROVE  BaseInv'
  BY <1>10 DEF WaitAgain
<1>11. ASSUME NEW t \in Threads, RetryServed(t)
      PROVE  BaseInv'
  <2>1. req[t] \in Requests
    BY <1>11 DEF RetryServed
  <2> QED
    BY <1>11, <2>1, ConsumeBase, BoundAssumption DEF RetryServed, Leave
<1>12. ASSUME NEW t \in Threads, RetryFailed(t)
      PROVE  BaseInv'
  BY <1>12, BoundAssumption DEF RetryFailed, Leave
<1>13. ASSUME NEW t \in Threads, LockedHandleRelease(t)
      PROVE  BaseInv'
  <2> DEFINE p == [pc EXCEPT ![t] = "marking"]
  <2>1. target[t] \in Handles /\ Return(target[t], p)
    BY <1>13 DEF LockedHandleRelease
  <2>2. /\ used' \in [Resources -> Int]
        /\ allocations' \in [Handles -> Requests \cup {None}]
        /\ allocations'[target[t]] = None
        /\ \A g \in Handles : allocations[g] = None => allocations'[g] = None
        /\ pc' = p \/ pc' = WakeAll(p)
    BY <2>1, ReturnBase
  <2> QED
    BY <1>13, <2>1, <2>2 DEF LockedHandleRelease, WakeAll
<1>14. ASSUME NEW t \in Threads, MarkReleased(t)
      PROVE  BaseInv'
  BY <1>14 DEF MarkReleased
<1>15. ASSUME NEW t \in Threads, DeadlinePasses(t)
      PROVE  BaseInv'
  BY <1>15 DEF DeadlinePasses
<1>16. ASSUME NEW t \in Threads, NEW batch \in Batches, AllocateMany(t, batch)
      PROVE  BaseInv'
  BY <1>16, ManyBase
<1>17. CASE UNCHANGED vars
  BY <1>17 DEF vars
<1> QED
  BY <1>1, <1>2, <1>3, <1>4, <1>5, <1>6, <1>7, <1>8, <1>9, <1>10, <1>11,
     <1>12, <1>13, <1>14, <1>15, <1>16, <1>17 DEF Next, Starts, Proceeds

\* A state of the tracker is always well typed, whatever its threads call.
THEOREM TypeCorrect == Spec => []TypeOK
<1>1. Init => BaseInv
  BY BaseInit
<1>2. BaseInv /\ [Next]_vars => BaseInv'
  BY BaseStep
<1>3. BaseInv => TypeOK
  BY DEF BaseInv
<1> QED
  BY <1>1, <1>2, <1>3, PTL DEF Spec

\* A handle whose released flag is set has given its budget back.
THEOREM ReleasedCorrect == Spec => []ReleasedIsReturned
<1>1. BaseInv => ReleasedIsReturned
  BY DEF BaseInv
<1> QED
  BY <1>1, BaseInit, BaseStep, PTL DEF Spec

-----------------------------------------------------------------------------
(* The limits *)

RequestsNonNegative == \A r \in Requests : NonNegative(r)

\* Both tests leave room for the request in every resource.
LEMMA RoomChecked ==
  ASSUME TypeOK, WithinBudget, Epsilon = 0, NEW r \in Requests, NonNegative(r),
         WithinLimit(r) \/ Fits(r)
  PROVE  \A k \in Resources : used[k] + r[k] <= Budget[k]
<1> USE RequestType, BudgetAssumption DEF TypeOK, WithinBudget, Request, Resources
<1>1. CASE WithinLimit(r)
  BY <1>1 DEF WithinLimit, MaxOf
<1>2. CASE Fits(r)
  <2>1. ASSUME NEW g \in Gb PROVE used[g] + r[g] <= Budget[g]
    BY <1>2, <2>1 DEF Fits
  <2>2. ASSUME NEW s \in Slots PROVE used[s] + r[s] <= Budget[s]
    <3>1. r[s] \in {0, 1} /\ used[s] \in Int /\ Budget[s] \in Nat
      BY <2>2
    <3>2. r[s] = 1 => used[s] < Budget[s]
      BY <1>2, <2>2 DEF Fits
    <3>3. used[s] <= Budget[s]
      BY <2>2
    <3> QED
      BY <3>1, <3>2, <3>3
  <2> QED
    BY <2>1, <2>2
<1> QED
  BY <1>1, <1>2

LEMMA ConsumeKeepsLimits ==
  ASSUME TypeOK, NEW r \in Requests, Consume(r),
         \A k \in Resources : used[k] + r[k] <= Budget[k]
  PROVE  WithinBudget'
  BY DEF Consume, Plus, WithinBudget

LEMMA ReturnKeepsLimits ==
  ASSUME TypeOK, WithinBudget, RequestsNonNegative,
         NEW h \in Handles, NEW p, Return(h, p)
  PROVE  WithinBudget'
<1>1. CASE allocations[h] = None
  BY <1>1 DEF Return, WithinBudget, tracker
<1>2. CASE allocations[h] # None
  <2> DEFINE r == allocations[h]
  <2>1. r \in Request /\ NonNegative(r)
    BY <1>2, RequestType DEF TypeOK, RequestsNonNegative
  <2>2. \A k \in Resources : r[k] \in Int /\ r[k] >= 0
    BY <2>1 DEF Request, NonNegative, Resources
  <2>3. \A k \in Resources : MaxOf(0, used[k] - r[k]) <= Budget[k]
    BY <2>2, BudgetAssumption DEF TypeOK, WithinBudget, MaxOf
  <2>4. used' = Minus(used, r)
    BY <1>2 DEF Return
  <2> QED
    BY <2>3, <2>4 DEF Minus, WithinBudget
<1> QED
  BY <1>1, <1>2

LEMMA LimitsStep ==
  ASSUME Batches = {}, Epsilon = 0, RequestsNonNegative,
         BaseInv, WithinBudget, [Next]_vars
  PROVE  WithinBudget'
<1> USE DEF tracker, call
<1>0. TypeOK /\ \A t \in Threads :
          /\ pc[t] \in {"woken", "backoff"} => req[t] \in Requests
          /\ pc[t] = "releasing" => target[t] \in Handles
  BY DEF BaseInv, CallsOK
<1>1. ASSUME NEW t \in Threads, NEW r \in Requests, Allocate(t, r)
      PROVE  WithinBudget'
  BY <1>0, <1>1, RoomChecked, ConsumeKeepsLimits DEF Allocate
<1>2. ASSUME NEW t \in Threads, NEW r \in Requests, TryAcquire(t, r)
      PROVE  WithinBudget'
  BY <1>0, <1>2, RoomChecked, ConsumeKeepsLimits DEF TryAcquire, RequestsNonNegative
<1>3. ASSUME NEW t \in Threads, NEW h \in Handles, TrackerRelease(t, h)
      PROVE  WithinBudget'
  BY <1>0, <1>3, ReturnKeepsLimits DEF TrackerRelease
<1>4. ASSUME NEW t \in Threads, ReleaseAll(t)
      PROVE  WithinBudget'
  BY <1>4, BudgetAssumption DEF ReleaseAll, WithinBudget
<1>5. ASSUME NEW t \in Threads, ServeWaiter(t)
      PROVE  WithinBudget'
  BY <1>0, <1>5, RoomChecked, ConsumeKeepsLimits DEF ServeWaiter, RequestsNonNegative
<1>6. ASSUME NEW t \in Threads, RetryServed(t)
      PROVE  WithinBudget'
  BY <1>0, <1>6, RoomChecked, ConsumeKeepsLimits DEF RetryServed, RequestsNonNegative
<1>7. ASSUME NEW t \in Threads, LockedHandleRelease(t)
      PROVE  WithinBudget'
  BY <1>0, <1>7, ReturnKeepsLimits DEF LockedHandleRelease
<1>8. ASSUME UNCHANGED used
      PROVE  WithinBudget'
  BY <1>8 DEF WithinBudget
<1>9. \A t \in Threads :
        \/ \E r \in Requests :
              (\E w \in {"none", "running"} : StartWaiting(t, r, w)) \/ StartBackoff(t, r)
        \/ \E h \in Handles : BeginHandleRelease(t, h)
        \/ GiveUp(t) \/ WaitAgain(t) \/ RetryFailed(t) \/ MarkReleased(t)
        \/ DeadlinePasses(t)
        => UNCHANGED used
  BY DEF StartWaiting, StartBackoff, BeginHandleRelease, GiveUp, WaitAgain,
         RetryFailed, MarkReleased, DeadlinePasses
<1>10. UNCHANGED vars => UNCHANGED used
  BY DEF vars
<1> QED
  BY <1>1, <1>2, <1>3, <1>4, <1>5, <1>6, <1>7, <1>8, <1>9, <1>10
     DEF Next, Starts, Proceeds

\* No interleaving hands out more than the budget of any resource: every path
\* but allocate_many tests and counts a request in one critical section.
THEOREM LimitsHold ==
  ASSUME Batches = {}, Epsilon = 0, RequestsNonNegative
  PROVE  Spec => []WithinBudget
<1> DEFINE IInv == BaseInv /\ WithinBudget
<1>1. Init => IInv
  BY BaseInit, BudgetAssumption DEF Init, WithinBudget
<1>2. IInv /\ [Next]_vars => IInv'
  BY BaseStep, LimitsStep
<1> QED
  BY <1>1, <1>2, PTL DEF Spec

-----------------------------------------------------------------------------
(* No lost wake-up *)

\* A request that does not fit does not fit a fuller tracker either.
LEMMA FitsAntitone ==
  ASSUME TypeOK, NEW r \in Requests, used' \in [Resources -> Int],
         \A k \in Resources : used[k] <= used'[k], ~Fits(r)
  PROVE  ~Fits(r)'
<1>1. r \in Request
  BY RequestType
<1> QED
  BY <1>1, BudgetAssumption DEF Fits, TypeOK, Request, Resources

LEMMA ConsumeFills ==
  ASSUME TypeOK, NEW r \in Requests, NonNegative(r), Consume(r)
  PROVE  used' \in [Resources -> Int] /\ \A k \in Resources : used[k] <= used'[k]
<1>1. r \in Request /\ \A k \in Resources : r[k] \in Int /\ r[k] >= 0
  BY RequestType DEF Request, NonNegative, Resources
<1>2. used' = Plus(used, r)
  BY DEF Consume
<1> QED
  BY <1>1, <1>2 DEF Plus, TypeOK

\* A sleeper's request keeps not fitting while the tracker only fills up.
LEMMA SleepersStaySaturated ==
  ASSUME BaseInv, NoSleepingWhileFits,
         used' \in [Resources -> Int], \A k \in Resources : used[k] <= used'[k],
         NEW t \in Threads, pc[t] = "waiting"
  PROVE  ~Fits(req[t])'  \/ req'[t] # req[t]
<1>1. TypeOK /\ req[t] \in Requests /\ ~Fits(req[t])
  BY DEF BaseInv, CallsOK, NoSleepingWhileFits
<1> DEFINE q == req[t]
<1>3. q \in Requests /\ ~Fits(q)
  BY <1>1
<1> HIDE DEF q
<1>4. ~(/\ \A g \in Gb : used'[g] + q[g] <= Budget[g]
        /\ \A s \in Slots : q[s] = 1 => used'[s] < Budget[s])
  BY <1>1, <1>3, FitsAntitone DEF Fits
<1>5. CASE req'[t] = req[t]
  BY <1>4, <1>5 DEF q, Fits
<1> QED
  BY <1>5

\* A return either changes nothing or leaves no thread asleep.
LEMMA ReturnWakes ==
  ASSUME NEW h \in Handles, NEW p, Return(h, p)
  PROVE  (UNCHANGED used /\ pc' = p) \/ \A t \in Threads : pc'[t] # "waiting"
  BY DEF Return, WakeAll, tracker

\* A batch fills the tracker up, too.
LEMMA BatchFills ==
  ASSUME TypeOK, RequestsNonNegative,
         NEW t \in Threads, NEW batch \in Batches, AllocateMany(t, batch)
  PROVE  used' \in [Resources -> Int] /\ \A k \in Resources : used[k] <= used'[k]
<1> DEFINE D == DOMAIN batch
<1>0. batch \in Seq(Request) /\ IsFiniteSet(D)
      /\ \A i \in D, k \in Resources : batch[i][k] \in Int /\ batch[i][k] >= 0
  <2>1. batch \in Seq(Requests) /\ batch \in Seq(Request)
    BY BatchAssumption, RequestAssumption
  <2>2. Len(batch) \in Nat /\ D = 1 .. Len(batch)
    BY <2>1
  <2>3. IsFiniteSet(D)
    BY <2>2, FS_Interval
  <2>4. \A i \in D : batch[i] \in Requests
    BY <2>1
  <2>5. \A r \in Requests, k \in Resources : r[k] \in Int /\ r[k] >= 0
    BY RequestType DEF RequestsNonNegative, NonNegative, Request, Resources
  <2> QED
    BY <2>1, <2>3, <2>4, <2>5
<1>1. used' = FoldSeq(LAMBDA r, u : Plus(u, r), used, batch)
  BY DEF AllocateMany
<1>2. ASSUME NEW k \in Resources PROVE used[k] <= used'[k]
  <2> DEFINE f == [i \in D |-> batch[i][k]]
  <2>1. f \in [D -> Int] /\ \A i \in D : f[i] >= 0
    BY <1>0
  <2>2. used'[k] = used[k] + SumFunction(f) /\ used[k] \in Int
    BY <1>0, <1>1, BatchFold DEF TypeOK
  <2> HIDE DEF f, D
  <2>3. SumFunction(f) \in Int /\ SumFunction(f) >= 0
    BY <1>0, <2>1, SumBounds
  <2> QED
    BY <2>2, <2>3
<1> QED
  BY <1>0, <1>1, <1>2, BatchFold DEF TypeOK

LEMMA WakeStep ==
  ASSUME Teardown = FALSE, RequestsNonNegative,
         BaseInv, NoSleepingWhileFits, [Next]_vars
  PROVE  NoSleepingWhileFits'
<1> USE DEF tracker, call
<1>0. TypeOK /\ \A t \in Threads :
          /\ pc[t] \in {"waiting", "woken", "backoff"} => req[t] \in Requests
          /\ pc[t] = "releasing" => target[t] \in Handles
  BY DEF BaseInv, CallsOK
<1>1. ASSUME NEW r \in Requests, Consume(r),
             \A u \in Threads : pc'[u] = "waiting" => pc[u] = "waiting" /\ req'[u] = req[u]
      PROVE  NoSleepingWhileFits'
  <2>1. used' \in [Resources -> Int] /\ \A k \in Resources : used[k] <= used'[k]
    BY <1>0, <1>1, ConsumeFills DEF RequestsNonNegative
  <2> QED
    BY <1>1, <2>1, SleepersStaySaturated DEF NoSleepingWhileFits
<1>2. ASSUME NEW t \in Threads, NEW r \in Requests, Allocate(t, r) \/ TryAcquire(t, r)
      PROVE  NoSleepingWhileFits'
  BY <1>1, <1>2 DEF Allocate, TryAcquire
<1>3. ASSUME NEW t \in Threads, ServeWaiter(t) \/ RetryServed(t)
      PROVE  NoSleepingWhileFits'
  <2>1. req[t] \in Requests /\ Consume(req[t])
    BY <1>0, <1>3 DEF ServeWaiter, RetryServed
  <2>2. \A u \in Threads : pc'[u] = "waiting" => pc[u] = "waiting" /\ req'[u] = req[u]
    BY <1>0, <1>3 DEF ServeWaiter, RetryServed, Leave, TypeOK
  <2> QED
    BY <1>1, <2>1, <2>2
<1>4. ASSUME NEW t \in Threads, NEW h \in Handles, TrackerRelease(t, h)
      PROVE  NoSleepingWhileFits'
  <2>1. (UNCHANGED <<used, pc>>) \/ \A u \in Threads : pc'[u] # "waiting"
    BY <1>4, ReturnWakes DEF TrackerRelease
  <2> QED
    BY <1>4, <2>1 DEF TrackerRelease, NoSleepingWhileFits, Fits
<1>5. ASSUME NEW t \in Threads, LockedHandleRelease(t)
      PROVE  NoSleepingWhileFits'
  <2> DEFINE p == [pc EXCEPT ![t] = "marking"]
  <2>1. target[t] \in Handles /\ Return(target[t], p)
    BY <1>0, <1>5 DEF LockedHandleRelease
  <2>2. (UNCHANGED used /\ pc' = p) \/ \A u \in Threads : pc'[u] # "waiting"
    BY <2>1, ReturnWakes
  <2> QED
    BY <1>0, <1>5, <2>2 DEF LockedHandleRelease, NoSleepingWhileFits, Fits, TypeOK
<1>6. ASSUME NEW t \in Threads, NEW r \in Requests,
             NEW w \in {"none", "running"}, StartWaiting(t, r, w)
      PROVE  NoSleepingWhileFits'
  BY <1>0, <1>6 DEF StartWaiting, NoSleepingWhileFits, Fits, TypeOK
<1>7. ASSUME NEW t \in Threads, WaitAgain(t)
      PROVE  NoSleepingWhileFits'
  BY <1>0, <1>7 DEF WaitAgain, NoSleepingWhileFits, Fits, TypeOK
<1>8. ASSUME UNCHANGED used,
             \A u \in Threads : pc'[u] = "waiting" => pc[u] = "waiting" /\ req'[u] = req[u]
      PROVE  NoSleepingWhileFits'
  BY <1>8 DEF NoSleepingWhileFits, Fits
<1>9. ASSUME NEW t \in Threads, NEW r \in Requests, StartBackoff(t, r)
      PROVE  NoSleepingWhileFits'
  BY <1>0, <1>8, <1>9 DEF StartBackoff, TypeOK
<1>10. ASSUME NEW t \in Threads, NEW h \in Handles, BeginHandleRelease(t, h)
       PROVE  NoSleepingWhileFits'
  BY <1>0, <1>8, <1>10 DEF BeginHandleRelease, TypeOK
<1>11. ASSUME NEW t \in Threads,
              GiveUp(t) \/ RetryFailed(t) \/ MarkReleased(t) \/ DeadlinePasses(t)
       PROVE  NoSleepingWhileFits'
  BY <1>0, <1>8, <1>11
     DEF GiveUp, RetryFailed, MarkReleased, DeadlinePasses, Leave, TypeOK
<1>12. ASSUME NEW t \in Threads, NEW batch \in Batches, AllocateMany(t, batch)
       PROVE  NoSleepingWhileFits'
  <2>1. used' \in [Resources -> Int] /\ \A k \in Resources : used[k] <= used'[k]
    BY <1>0, <1>12, BatchFills
  <2>2. UNCHANGED <<pc, req>>
    BY <1>12 DEF AllocateMany
  <2> QED
    BY <2>1, <2>2, SleepersStaySaturated DEF NoSleepingWhileFits
<1>13. CASE UNCHANGED vars
  BY <1>8, <1>13 DEF vars
<1> QED
  BY <1>2, <1>3, <1>4, <1>5, <1>6, <1>7, <1>9, <1>10, <1>11, <1>12, <1>13
     DEF Next, Starts, Proceeds, ReleaseAll

\* No wake-up is lost: whatever the interleaving of releases, deadlines and
\* new calls, a thread asleep in allocate_or_wait has a request that does not
\* fit, as long as release_all, which notifies nobody, is not called.
THEOREM NoLostWakeUp ==
  ASSUME Teardown = FALSE, RequestsNonNegative
  PROVE  Spec => []NoSleepingWhileFits
<1> DEFINE IInv == BaseInv /\ NoSleepingWhileFits
<1>1. Init => IInv
  BY BaseInit DEF Init, NoSleepingWhileFits
<1>2. IInv /\ [Next]_vars => IInv'
  BY BaseStep, WakeStep
<1> QED
  BY <1>1, <1>2, PTL DEF Spec

-----------------------------------------------------------------------------
(* The counters. None of the five ways to allocate, of the two ways to      *)
(* release and of release_all lets them drift from the records, and the     *)
(* clamp at zero of a release never has anything to hide.                   *)

\* what the handles on record a count of resource k
Shares(a, k) == [h \in Handles |-> IF a[h] = None THEN 0 ELSE a[h][k]]

LEMMA ShareType ==
  ASSUME NEW a \in [Handles -> Requests \cup {None}], NEW k \in Resources
  PROVE  Shares(a, k) \in [Handles -> Int]
<1>1. \A r \in Requests : r[k] \in Int
  BY RequestType DEF Request
<1> QED
  BY <1>1 DEF Shares

LEMMA HeldIs == \A k : Held(k) = SumFunction(Shares(allocations, k))
  BY DEF Held, Shares

\* One record more or less changes the sums by its request.
LEMMA OneRecord ==
  ASSUME TypeOK, TypeOK', NEW h \in Handles,
         \A g \in Handles \ {h} : allocations'[g] = allocations[g],
         NEW k \in Resources
  PROVE  /\ Held(k) \in Int
         /\ Held(k)' = Held(k) - Shares(allocations, k)[h] + Shares(allocations', k)[h]
<1> DEFINE f == Shares(allocations, k)
           g == Shares(allocations', k)
<1>1. f \in [Handles -> Int] /\ g \in [Handles -> Int]
  BY ShareType DEF TypeOK
<1>2. \A x \in Handles \ {h} : g[x] = f[x]
  BY DEF Shares
<1>3. Held(k) = SumFunction(f) /\ Held(k)' = SumFunction(g)
  BY HeldIs DEF Held, Shares
<1> HIDE DEF f, g
<1>4. /\ SumFunction(f) \in Int
      /\ SumFunction(g) = SumFunction(f) - f[h] + g[h]
  BY <1>1, <1>2, BoundAssumption, SumChange
<1> QED
  BY <1>3, <1>4 DEF f, g

LEMMA ConsumeAccounts ==
  ASSUME TypeOK, TypeOK', Accounting, NEW r \in Requests, Consume(r)
  PROVE  Accounting'
<1>1. PICK h \in Handles :
         /\ allocations[h] = None
         /\ used' = Plus(used, r)
         /\ allocations' = [allocations EXCEPT ![h] = r]
  BY DEF Consume, Fresh
<1>2. allocations'[h] = r /\ r # None /\ r \in Request
      /\ \A g \in Handles \ {h} : allocations'[g] = allocations[g]
  BY <1>1, RequestType DEF TypeOK
<1>3. ASSUME NEW k \in Resources PROVE used'[k] = Held(k)'
  <2>1. Shares(allocations, k)[h] = 0 /\ Shares(allocations', k)[h] = r[k]
    BY <1>1, <1>2 DEF Shares
  <2>2. Held(k)' = Held(k) - 0 + r[k] /\ Held(k) \in Int /\ r[k] \in Int
    BY <1>2, <2>1, OneRecord DEF Request
  <2>3. used'[k] = used[k] + r[k] /\ used[k] = Held(k)
    BY <1>1 DEF Plus, Accounting
  <2> QED
    BY <2>2, <2>3
<1> QED
  BY <1>3 DEF Accounting

LEMMA ReturnAccounts ==
  ASSUME TypeOK, TypeOK', Accounting, RequestsNonNegative,
         NEW h \in Handles, NEW p, Return(h, p)
  PROVE  Accounting'
<1>1. CASE allocations[h] = None
  <2>1. UNCHANGED <<used, allocations>>
    BY <1>1 DEF Return, tracker
  <2> QED
    BY <2>1 DEF Accounting, Held
<1>2. CASE allocations[h] # None
  <2> DEFINE r == allocations[h]
  <2>1. r \in Requests /\ used' = Minus(used, r) /\ allocations'[h] = None
        /\ \A g \in Handles \ {h} : allocations'[g] = allocations[g]
    BY <1>2 DEF Return, TypeOK
  <2>2. ASSUME NEW k \in Resources PROVE used'[k] = Held(k)'
    <3>1. Shares(allocations, k)[h] = r[k] /\ Shares(allocations', k)[h] = 0
      BY <1>2, <2>1 DEF Shares
    <3>2. Held(k)' = Held(k) - r[k] + 0 /\ Held(k) \in Int
      BY <2>1, <3>1, OneRecord
    <3>3. \A q \in Requests : q[k] \in Int /\ q[k] >= 0
      BY RequestType DEF RequestsNonNegative, NonNegative, Request, Resources
    <3>4. r[k] <= Held(k)
      <4> DEFINE f == Shares(allocations, k)
      <4>1. f \in [Handles -> Int] /\ \A g \in Handles : f[g] >= 0
        BY <3>3, ShareType DEF TypeOK, Shares
      <4> HIDE DEF f
      <4>2. f[h] <= SumFunction(f)
        BY <4>1, BoundAssumption, SumBounds
      <4> QED
        BY <3>1, <4>2, HeldIs DEF f
    <3>5. used'[k] = MaxOf(0, used[k] - r[k]) /\ used[k] = Held(k) /\ r[k] \in Int
      BY <2>1, <3>3 DEF Minus, Accounting
    <3> HIDE DEF r
    <3> QED
      BY <3>2, <3>4, <3>5 DEF MaxOf
  <2> QED
    BY <2>2 DEF Accounting
<1> QED
  BY <1>1, <1>2

LEMMA ManyAccounts ==
  ASSUME TypeOK, TypeOK', Accounting,
         NEW t \in Threads, NEW batch \in Batches, AllocateMany(t, batch)
  PROVE  Accounting'
<1> DEFINE D == DOMAIN batch
<1>0. /\ batch \in Seq(Request) /\ IsFiniteSet(D)
      /\ \A i \in D : batch[i] \in Request /\ batch[i] # None
  <2>1. batch \in Seq(Requests) /\ batch \in Seq(Request)
    BY BatchAssumption, RequestAssumption
  <2>2. Len(batch) \in Nat /\ D = 1 .. Len(batch)
    BY <2>1
  <2> QED
    BY <2>1, <2>2, FS_Interval, RequestType
<1>1. PICK hs \in [D -> Handles] :
         /\ \A i, j \in D : hs[i] = hs[j] => i = j
         /\ \A i \in D : Fresh(hs[i])
         /\ allocations' = [h \in Handles |->
               IF \E i \in D : hs[i] = h
               THEN batch[CHOOSE i \in D : hs[i] = h]
               ELSE allocations[h]]
  BY DEF AllocateMany
<1>2. used' = FoldSeq(LAMBDA r, u : Plus(u, r), used, batch)
  BY DEF AllocateMany
<1>3. ASSUME NEW i \in D
      PROVE  allocations[hs[i]] = None /\ allocations'[hs[i]] = batch[i]
  <2>1. (CHOOSE j \in D : hs[j] = hs[i]) = i
    BY <1>1
  <2> HIDE DEF D
  <2> QED
    BY <1>1, <2>1 DEF Fresh
<1>4. \A h \in Handles : (\A i \in D : hs[i] # h) => allocations'[h] = allocations[h]
  BY <1>1
<1>5. ASSUME NEW k \in Resources PROVE used'[k] = Held(k)'
  <2> DEFINE f == Shares(allocations, k)
             g == Shares(allocations', k)
             w == [i \in D |-> batch[i][k]]
  <2>1. f \in [Handles -> Int] /\ g \in [Handles -> Int]
    BY ShareType DEF TypeOK
  <2>2. w \in [D -> Int]
    BY <1>0 DEF Request
  <2>3. \A i \in D : f[hs[i]] = 0 /\ g[hs[i]] = w[i]
    BY <1>0, <1>1, <1>3 DEF Shares
  <2>4. \A h \in Handles : (\A i \in D : hs[i] # h) => g[h] = f[h]
    BY <1>4 DEF Shares
  <2>5. used'[k] = used[k] + SumFunction(w)
    BY <1>0, <1>2, BatchFold DEF TypeOK
  <2>6. Held(k) = SumFunction(f) /\ Held(k)' = SumFunction(g) /\ used[k] = Held(k)
    BY HeldIs DEF Held, Shares, Accounting
  <2> HIDE DEF f, g, w, D
  <2>7. SumFunction(g) = SumFunction(f) + SumFunction(w)
    <3>1. IsFiniteSet(Handles) /\ IsFiniteSet(D)
      BY <1>0, BoundAssumption
    <3>2. \A i, j \in D : hs[i] = hs[j] => i = j
      BY <1>1
    <3> QED
      BY <3>1, <3>2, <2>1, <2>2, <2>3, <2>4, SumMany
  <2> QED
    BY <2>5, <2>6, <2>7
<1> QED
  BY <1>5 DEF Accounting

LEMMA NothingHeld ==
  ASSUME NEW k \in Resources
  PROVE  SumFunction(Shares([h \in Handles |-> None], k)) = 0
<1> DEFINE f == Shares([h \in Handles |-> None], k)
<1>1. f \in [Handles -> Int] /\ \A h \in Handles : f[h] = 0
  BY DEF Shares
<1> HIDE DEF f
<1>2. \A h \in Handles : f[h] >= 0
  BY <1>1
<1>3. SumFunction(f) = 0
  BY <1>1, <1>2, BoundAssumption, SumBounds
<1> QED
  BY <1>3 DEF f

LEMMA AccountStep ==
  ASSUME RequestsNonNegative, BaseInv, Accounting, [Next]_vars
  PROVE  Accounting'
<1> USE DEF tracker, call
<1>0. /\ TypeOK /\ TypeOK'
      /\ \A t \in Threads :
            /\ pc[t] \in {"woken", "backoff"} => req[t] \in Requests
            /\ pc[t] = "releasing" => target[t] \in Handles
  BY BaseStep DEF BaseInv, CallsOK
<1>1. ASSUME NEW t \in Threads, NEW r \in Requests, Allocate(t, r) \/ TryAcquire(t, r)
      PROVE  Accounting'
  BY <1>0, <1>1, ConsumeAccounts DEF Allocate, TryAcquire
<1>2. ASSUME NEW t \in Threads, ServeWaiter(t) \/ RetryServed(t)
      PROVE  Accounting'
  BY <1>0, <1>2, ConsumeAccounts DEF ServeWaiter, RetryServed
<1>3. ASSUME NEW t \in Threads, NEW h \in Handles, TrackerRelease(t, h)
      PROVE  Accounting'
  BY <1>0, <1>3, ReturnAccounts DEF TrackerRelease
<1>4. ASSUME NEW t \in Threads, LockedHandleRelease(t)
      PROVE  Accounting'
  BY <1>0, <1>4, ReturnAccounts DEF LockedHandleRelease
<1>5. ASSUME NEW t \in Threads, NEW batch \in Batches, AllocateMany(t, batch)
      PROVE  Accounting'
  BY <1>0, <1>5, ManyAccounts
<1>6. ASSUME NEW t \in Threads, ReleaseAll(t)
      PROVE  Accounting'
  <2>1. allocations' = [h \in Handles |-> None] /\ used' = [k \in Resources |-> 0]
    BY <1>6 DEF ReleaseAll
  <2>2. \A k \in Resources : Held(k)' = SumFunction(Shares([h \in Handles |-> None], k))
    BY <2>1 DEF Held, Shares
  <2> QED
    BY <2>1, <2>2, NothingHeld DEF Accounting
<1>7. ASSUME UNCHANGED <<used, allocations>>
      PROVE  Accounting'
  BY <1>7 DEF Accounting, Held
<1>8. \A t \in Threads :
        \/ \E r \in Requests :
              (\E w \in {"none", "running"} : StartWaiting(t, r, w)) \/ StartBackoff(t, r)
        \/ \E h \in Handles : BeginHandleRelease(t, h)
        \/ GiveUp(t) \/ WaitAgain(t) \/ RetryFailed(t) \/ MarkReleased(t)
        \/ DeadlinePasses(t)
        => UNCHANGED <<used, allocations>>
  BY DEF StartWaiting, StartBackoff, BeginHandleRelease, GiveUp, WaitAgain,
         RetryFailed, MarkReleased, DeadlinePasses
<1>9. UNCHANGED vars => UNCHANGED <<used, allocations>>
  BY DEF vars
<1> QED
  BY <1>1, <1>2, <1>3, <1>4, <1>5, <1>6, <1>7, <1>8, <1>9 DEF Next, Starts, Proceeds

\* The counters are at every moment what the records add up to, through every
\* operation, over-committing batches, double releases and release_all
\* included; a release never has to clamp a counter at zero.
THEOREM CountersExact ==
  ASSUME RequestsNonNegative
  PROVE  Spec => []Accounting
<1> DEFINE IInv == BaseInv /\ Accounting
<1>1. Init => IInv
  BY BaseInit, HeldIs, NothingHeld DEF Init, Accounting
<1>2. IInv /\ [Next]_vars => IInv'
  BY BaseStep, AccountStep
<1> QED
  BY <1>1, <1>2, PTL DEF Spec
-----------------------------------------------------------------------------
(* The pool. Every allocation is a grant that fits what is granted already, *)
(* because the counters it is tested against are what is granted; a release *)
(* gives one grant back or finds nothing on record.                         *)

LEMMA SameTotals == \A k : Pool!Total(k) = Held(k)
<1>1. \A f : Pool!SumFunction(f) = SumFunction(f)
  BY DEF Pool!SumFunction, SumFunction, Pool!SumFunctionOnSet, SumFunctionOnSet,
         Pool!FoldFunctionOnSet, FoldFunctionOnSet,
         Pool!MapThenFoldSet, MapThenFoldSet
<1> QED
  BY <1>1 DEF Pool!Total, Held

LEMMA ConsumeGrants ==
  ASSUME TypeOK, Accounting, NEW r \in Requests, Consume(r),
         \A k \in Resources : used[k] + r[k] <= Budget[k]
  PROVE  Pool!Next
<1>1. PICK h \in Handles :
         /\ allocations[h] = None
         /\ allocations' = [allocations EXCEPT ![h] = r]
  BY DEF Consume, Fresh
<1>2. \A k \in Resources : Pool!Total(k) + r[k] <= Budget[k]
  BY SameTotals DEF Accounting
<1>3. Pool!Grant(h, r)
  BY <1>1, <1>2 DEF Pool!Grant
<1> QED
  BY <1>3 DEF Pool!Next

LEMMA ReturnGivesBack ==
  ASSUME NEW h \in Handles, NEW p, Return(h, p)
  PROVE  Pool!Next \/ UNCHANGED allocations
<1>1. CASE allocations[h] = None
  BY <1>1 DEF Return, tracker
<1>2. CASE allocations[h] # None
  <2>1. Pool!GiveBack(h)
    BY <1>2 DEF Return, Pool!GiveBack
  <2> QED
    BY <2>1 DEF Pool!Next
<1> QED
  BY <1>1, <1>2

LEMMA PoolStep ==
  ASSUME Batches = {}, Epsilon = 0, RequestsNonNegative,
         BaseInv, WithinBudget, Accounting, [Next]_vars
  PROVE  [Pool!Next]_allocations
<1> USE DEF tracker, call
<1>0. /\ TypeOK
      /\ \A t \in Threads :
            /\ pc[t] \in {"woken", "backoff"} => req[t] \in Requests
            /\ pc[t] = "releasing" => target[t] \in Handles
  BY DEF BaseInv, CallsOK
<1>1. ASSUME NEW r \in Requests, WithinLimit(r) \/ Fits(r), Consume(r)
      PROVE  Pool!Next
  BY <1>0, <1>1, RoomChecked, ConsumeGrants DEF RequestsNonNegative
<1>2. ASSUME NEW t \in Threads, NEW r \in Requests, Allocate(t, r) \/ TryAcquire(t, r)
      PROVE  Pool!Next
  BY <1>1, <1>2 DEF Allocate, TryAcquire
<1>3. ASSUME NEW t \in Threads, ServeWaiter(t) \/ RetryServed(t)
      PROVE  Pool!Next
  BY <1>0, <1>1, <1>3 DEF ServeWaiter, RetryServed
<1>4. ASSUME NEW t \in Threads, NEW h \in Handles, TrackerRelease(t, h)
      PROVE  Pool!Next \/ UNCHANGED allocations
  BY <1>4, ReturnGivesBack DEF TrackerRelease
<1>5. ASSUME NEW t \in Threads, LockedHandleRelease(t)
      PROVE  Pool!Next \/ UNCHANGED allocations
  BY <1>0, <1>5, ReturnGivesBack DEF LockedHandleRelease
<1>6. ASSUME NEW t \in Threads, ReleaseAll(t)
      PROVE  Pool!Next
  BY <1>6 DEF ReleaseAll, Pool!Next, Pool!Clear
<1>7. \A t \in Threads :
        \/ \E r \in Requests :
              (\E w \in {"none", "running"} : StartWaiting(t, r, w)) \/ StartBackoff(t, r)
        \/ \E h \in Handles : BeginHandleRelease(t, h)
        \/ GiveUp(t) \/ WaitAgain(t) \/ RetryFailed(t) \/ MarkReleased(t)
        \/ DeadlinePasses(t)
        => UNCHANGED allocations
  BY DEF StartWaiting, StartBackoff, BeginHandleRelease, GiveUp, WaitAgain,
         RetryFailed, MarkReleased, DeadlinePasses
<1>8. UNCHANGED vars => UNCHANGED allocations
  BY DEF vars
<1> QED
  BY <1>2, <1>3, <1>4, <1>5, <1>6, <1>7, <1>8 DEF Next, Starts, Proceeds

\* The tracker, with its waits, deadlines, retries and unlocked flags,
\* implements the pool: every grant fits beside what is granted, and comes back
\* whole and once. (allocate_many is excepted, which tests the specs of a batch
\* one by one.)
THEOREM ImplementsPool ==
  ASSUME Batches = {}, Epsilon = 0, RequestsNonNegative
  PROVE  Spec => PoolSpec
<1> DEFINE IInv == BaseInv /\ WithinBudget /\ Accounting
<1>1. Init => IInv
  BY BaseInit, BudgetAssumption, HeldIs, NothingHeld DEF Init, WithinBudget, Accounting
<1>2. IInv /\ [Next]_vars => IInv'
  BY BaseStep, LimitsStep, AccountStep
<1>3. Init => Pool!Init
  BY DEF Init, Pool!Init
<1>4. IInv /\ [Next]_vars => [Pool!Next]_allocations
  BY PoolStep
<1> QED
  BY <1>1, <1>2, <1>3, <1>4, PTL DEF Spec, PoolSpec, Pool!Spec
=============================================================================
