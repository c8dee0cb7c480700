---------------------------- MODULE ModuleBusProofs ----------------------------
(***************************************************************************)
(* For any threads, keys, versions and factories: resolve runs a factory   *)
(* at most once per cache key and caches only what the registered factory  *)
(* made, as long as no key is cleared under a resolve in progress.         *)
(***************************************************************************)
EXTENDS ModuleBus, TLAPS

\* The local variables of a resolve that is under way.
CallsOK ==
    \A t \in Threads : pc[t] # "idle" =>
        /\ ckey[t] \in CacheKey
        /\ spec[t] \in ModuleSpec
        /\ lock[t] # 0
        /\ pc[t] = "store" => instance[t] \in Instance
                              /\ instance[t].factory = spec[t].factory

\* Two threads are never both inside the lock of a cache key.
Exclusive ==
    \A t, u \in Threads :
        Holds(t) /\ Holds(u) /\ ckey[t] = ckey[u] /\ lock[t] = lock[u] => t = u

Calm(c) == ~disturbed[c[1]]

\* While a key is not cleared under them, its resolves work with the spec that
\* is registered and wait for the lock that is in the table.
CallsCurrent ==
    \A t \in Threads : pc[t] # "idle" /\ Calm(ckey[t]) =>
        spec[t] = registry[ckey[t][1]] /\ lock[t] = locks[ckey[t]]

\* The one instance is either cached or about to be stored.
CountOK ==
    \A c \in CacheKey : Calm(c) =>
        /\ built[c] <= 1
        /\ built[c] = 1 /\ cache[c] = None => \E t \in Threads : pc[t] = "store" /\ ckey[t] = c
        /\ \A t \in Threads : ckey[t] = c /\ pc[t] = "build" => built[c] = 0
        /\ \A t \in Threads : ckey[t] = c /\ pc[t] \in {"build", "store"} => cache[c] = None

CallInv == TypeOK /\ CallsOK /\ Exclusive
IInv    == CallInv /\ CallsCurrent /\ CountOK /\ CacheIsCurrent

LEMMA CacheKeyParts ==
  /\ \A c \in CacheKey : c[1] \in Keys /\ c # None
  /\ \A k \in Keys, v \in Versions : <<k, v>> \in CacheKey /\ <<k, v>>[1] = k
  BY NoneAssumption DEF CacheKey

LEMMA NoneIsNothing ==
  /\ \A s \in ModuleSpec : s # None
  /\ \A i \in Instance : i # None
  BY NoneAssumption

LEMMA MadeType ==
  ASSUME NEW t \in Threads, spec[t] \in ModuleSpec
  PROVE  Made(t) \in Instance /\ Made(t).factory = spec[t].factory
  BY DEF Made, Instance, ModuleSpec

LEMMA CallInit == Init => CallInv
<1> SUFFICES ASSUME Init PROVE CallInv
  OBVIOUS
<1>1. TypeOK
  BY DEF Init, TypeOK
<1>2. CallsOK /\ Exclusive
  BY DEF Init, CallsOK, Exclusive, Holds
<1> QED
  BY <1>1, <1>2 DEF CallInv

\* Clearing a set of keys changes no resolve.
LEMMA ClearType ==
  ASSUME NEW S, Clear(S), TypeOK
  PROVE  /\ disturbed' \in [Keys -> BOOLEAN]
         /\ built' \in [CacheKey -> 0 .. 2]
<1>1. built' \in [CacheKey -> 0 .. 2]
  BY DEF Clear, TypeOK
<1>2. \A k \in Keys : (IF k \in S THEN Resolving(k) ELSE disturbed[k]) \in BOOLEAN
  BY Zenon DEF TypeOK, Resolving
<1>3. disturbed' = [k \in Keys |-> IF k \in S THEN Resolving(k) ELSE disturbed[k]]
  BY Zenon DEF Clear
<1>4. disturbed' \in [Keys -> BOOLEAN]
  BY <1>2, <1>3, Zenon
<1> QED
  BY <1>1, <1>4

LEMMA InvalidateType ==
  ASSUME NEW k \in Keys, InvalidateLocked(k), TypeOK
  PROVE  /\ cache' \in [CacheKey -> Instance \cup {None}]
         /\ locks' \in [CacheKey -> Nat]
         /\ disturbed' \in [Keys -> BOOLEAN]
         /\ built' \in [CacheKey -> 0 .. 2]
<1>1. Clear({k})
  BY DEF InvalidateLocked
<1>2. /\ cache' \in [CacheKey -> Instance \cup {None}]
      /\ locks' \in [CacheKey -> Nat]
  BY DEF InvalidateLocked, TypeOK
<1> QED
  BY <1>1, <1>2, ClearType

LEMMA CallStep == CallInv /\ [Next]_vars => CallInv'
<1> SUFFICES ASSUME CallInv, [Next]_vars PROVE CallInv'
  OBVIOUS
<1> USE DEF CallInv
<1>1. ASSUME NEW k \in Keys, NEW s \in ModuleSpec, Register(k, s)
      PROVE  CallInv'
  <2>1. TypeOK'
    BY <1>1, InvalidateType DEF Register, TypeOK, call, history
  <2> QED
    BY <1>1, <2>1 DEF Register, call, CallsOK, Exclusive, Holds
<1>2. ASSUME NEW k \in Keys, Unregister(k) PROVE CallInv'
  <2>1. TypeOK'
    BY <1>2, InvalidateType DEF Unregister, TypeOK, call
  <2> QED
    BY <1>2, <2>1 DEF Unregister, call, CallsOK, Exclusive, Holds
<1>3. ASSUME NEW k \in Keys, Invalidate(k) PROVE CallInv'
  <2>1. TypeOK'
    BY <1>3, InvalidateType DEF Invalidate, TypeOK, call
  <2> QED
    BY <1>3, <2>1 DEF Invalidate, call, CallsOK, Exclusive, Holds
<1>4. ASSUME InvalidateAll PROVE CallInv'
  <2>1. TypeOK'
    BY <1>4, ClearType DEF InvalidateAll, TypeOK, call
  <2> QED
    BY <1>4, <2>1 DEF InvalidateAll, call, CallsOK, Exclusive, Holds
<1>5. ASSUME NEW t \in Threads, NEW k \in Keys, NEW v \in Versions,
             StartResolve(t, k, v)
      PROVE  CallInv'
  <2> DEFINE c == <<k, v>>
             n == IF locks[c] = 0 THEN CHOOSE f \in FreshLocks(c) : TRUE ELSE locks[c]
  <2>1. c \in CacheKey /\ registry[k] \in ModuleSpec
    BY <1>5, CacheKeyParts DEF StartResolve, TypeOK
  <2>2. n \in Nat \ {0}
    BY <1>5, <2>1, LockAssumption DEF StartResolve, FreshLocks, TypeOK
  <2>3. /\ locks' = [locks EXCEPT ![c] = n]
        /\ ckey' = [ckey EXCEPT ![t] = c]
        /\ lock' = [lock EXCEPT ![t] = n]
        /\ spec' = [spec EXCEPT ![t] = registry[k]]
        /\ pc' = [pc EXCEPT ![t] = "lock"]
        /\ UNCHANGED <<registry, cache, instance, history>>
    BY <1>5 DEF StartResolve
  <2> HIDE DEF c, n
  <2>4. TypeOK'
    BY <2>1, <2>2, <2>3 DEF TypeOK, history
  <2> QED
    BY <2>1, <2>2, <2>3, <2>4 DEF TypeOK, CallsOK, Exclusive, Holds
<1>6. ASSUME NEW t \in Threads, Acquire(t) PROVE CallInv'
  BY <1>6 DEF Acquire, InFlight, bus, history, TypeOK, CallsOK, Exclusive, Holds
<1>7. ASSUME NEW t \in Threads, DoubleCheckHit(t) PROVE CallInv'
  BY <1>7 DEF DoubleCheckHit, Leave, bus, history, TypeOK, CallsOK, Exclusive, Holds
<1>8. ASSUME NEW t \in Threads, DoubleCheckMiss(t) PROVE CallInv'
  BY <1>8 DEF DoubleCheckMiss, bus, history, TypeOK, CallsOK, Exclusive, Holds
<1>9. ASSUME NEW t \in Threads, FactoryReturns(t) PROVE CallInv'
  <2>1. ckey[t] \in CacheKey /\ spec[t] \in ModuleSpec
    BY <1>9 DEF FactoryReturns, CallsOK
  <2>2. Made(t) \in Instance /\ Made(t).factory = spec[t].factory
    BY <2>1, MadeType
  <2>3. TypeOK'
    BY <1>9, <2>1, <2>2 DEF FactoryReturns, bus, TypeOK
  <2>4. CallsOK'
    BY <1>9, <2>1, <2>2 DEF FactoryReturns, TypeOK, CallsOK
  <2> QED
    BY <1>9, <2>3, <2>4 DEF FactoryReturns, TypeOK, Exclusive, Holds
<1>10. ASSUME NEW t \in Threads, FactoryRaises(t) PROVE CallInv'
  BY <1>10 DEF FactoryRaises, Leave, bus, history, TypeOK, CallsOK, Exclusive, Holds
<1>11. ASSUME NEW t \in Threads, Store(t) PROVE CallInv'
  <2>1. ckey[t] \in CacheKey /\ instance[t] \in Instance
    BY <1>11 DEF Store, CallsOK
  <2>2. TypeOK'
    BY <1>11, <2>1 DEF Store, Leave, history, TypeOK
  <2> QED
    BY <1>11, <2>2 DEF Store, Leave, TypeOK, CallsOK, Exclusive, Holds
<1>12. CASE UNCHANGED vars
  BY <1>12 DEF vars, bus, call, history, TypeOK, CallsOK, Exclusive, Holds
<1> QED
  BY <1>1, <1>2, <1>3, <1>4, <1>5, <1>6, <1>7, <1>8, <1>9, <1>10, <1>11, <1>12
     DEF Next, Proceeds

\* The bus and the resolves in progress stay well typed.
THEOREM TypeCorrect == Spec => []TypeOK
<1>1. CallInv => TypeOK
  BY DEF CallInv
<1> QED
  BY CallInit, CallStep, <1>1, PTL DEF Spec

-----------------------------------------------------------------------------
(* What holds while a key is not cleared under its resolves *)

LEMMA FullInit == Init => IInv
<1> SUFFICES ASSUME Init PROVE IInv
  OBVIOUS
<1> QED
  BY CallInit DEF IInv, Init, CallsCurrent, CountOK, CacheIsCurrent

\* A key is calm after a clear only if no resolve of it is in progress.
LEMMA ClearCalm ==
  ASSUME TypeOK, NEW S \in SUBSET Keys, Clear(S)
  PROVE  /\ \A k \in S : ~disturbed'[k] => \A t \in Threads : pc[t] # "idle" => ckey[t][1] # k
         /\ \A k \in Keys \ S : disturbed'[k] = disturbed[k]
         /\ \A c \in CacheKey : built'[c] = IF c[1] \in S THEN 0 ELSE built[c]
<1>1. \A k \in Keys : disturbed'[k] = IF k \in S THEN Resolving(k) ELSE disturbed[k]
  BY Zenon DEF Clear
<1>2. \A c \in CacheKey : built'[c] = IF c[1] \in S THEN 0 ELSE built[c]
  BY DEF Clear
<1> QED
  BY <1>1, <1>2, Zenon DEF Resolving

\* Clearing the keys of S, whatever becomes of the specs of those keys.
LEMMA ClearKeeps ==
  ASSUME IInv, NEW S \in SUBSET Keys, Clear(S), UNCHANGED call, CallInv',
         \A k \in Keys \ S : registry'[k] = registry[k],
         \A c \in CacheKey : c[1] \in S => cache'[c] = None,
         \A c \in CacheKey : c[1] \notin S => cache'[c] = cache[c] /\ locks'[c] = locks[c]
  PROVE  IInv'
<1>1. /\ \A k \in S : ~disturbed'[k] => \A t \in Threads : pc[t] # "idle" => ckey[t][1] # k
      /\ \A k \in Keys \ S : disturbed'[k] = disturbed[k]
      /\ \A c \in CacheKey : built'[c] = IF c[1] \in S THEN 0 ELSE built[c]
  BY ClearCalm DEF IInv, CallInv
<1>2. CallsCurrent'
  BY <1>1, CacheKeyParts DEF IInv, CallInv, CallsOK, CallsCurrent, Calm, call
<1>3. CountOK'
  BY <1>1, CacheKeyParts DEF IInv, CallInv, CountOK, Calm, call
<1>4. CacheIsCurrent'
  BY <1>1, CacheKeyParts DEF IInv, CacheIsCurrent
<1> QED
  BY <1>2, <1>3, <1>4 DEF IInv

LEMMA InvalidateKeeps ==
  ASSUME IInv, NEW k \in Keys, InvalidateLocked(k), UNCHANGED call, CallInv',
         \A j \in Keys : j # k => registry'[j] = registry[j]
  PROVE  IInv'
<1>1. Clear({k})
  BY DEF InvalidateLocked
<1>2. /\ \A c \in CacheKey : c[1] \in {k} => cache'[c] = None
      /\ \A c \in CacheKey : c[1] \notin {k} => cache'[c] = cache[c] /\ locks'[c] = locks[c]
  BY DEF InvalidateLocked
<1> QED
  BY <1>1, <1>2, ClearKeeps

\* In a calm key all resolves wait for one lock: whoever holds it is alone.
LEMMA HolderAlone ==
  ASSUME IInv, NEW t \in Threads, NEW u \in Threads,
         Holds(t), Holds(u), ckey[t] = ckey[u], Calm(ckey[t])
  PROVE  t = u
  BY DEF IInv, CallInv, CallsCurrent, Exclusive, Holds

LEMMA FullStep == IInv /\ [Next]_vars => IInv'
<1> SUFFICES ASSUME IInv, [Next]_vars PROVE IInv'
  OBVIOUS
<1>0. CallInv'
  BY CallStep DEF IInv
<1>1. ASSUME NEW k \in Keys, NEW s \in ModuleSpec, Register(k, s)
      PROVE  IInv'
  <2>1. CASE registry[k] # None
    BY <1>0, <1>1, <2>1, InvalidateKeeps DEF Register, IInv, CallInv, TypeOK
  <2>2. CASE registry[k] = None
    <3>1. \A t \in Threads : pc[t] # "idle" /\ Calm(ckey[t]) => ckey[t][1] # k
      BY <2>2, NoneIsNothing DEF IInv, CallInv, CallsOK, CallsCurrent
    <3>2. \A c \in CacheKey : Calm(c) /\ c[1] = k => cache[c] = None
      BY <2>2 DEF IInv, CacheIsCurrent, Calm
    <3>3. CallsCurrent'
      BY <1>1, <2>2, <3>1, CacheKeyParts
         DEF Register, call, history, IInv, CallInv, TypeOK, CallsOK, CallsCurrent, Calm
    <3>4. CountOK'
      BY <1>1, <2>2 DEF Register, call, history, IInv, CountOK, Calm
    <3>5. CacheIsCurrent'
      BY <1>1, <2>2, <3>2, CacheKeyParts
         DEF Register, history, IInv, CallInv, TypeOK, CacheIsCurrent, Calm
    <3> QED
      BY <1>0, <3>3, <3>4, <3>5 DEF IInv
  <2> QED
    BY <2>1, <2>2
<1>2. ASSUME NEW k \in Keys, Unregister(k) PROVE IInv'
  BY <1>0, <1>2, InvalidateKeeps DEF Unregister, IInv, CallInv, TypeOK
<1>3. ASSUME NEW k \in Keys, Invalidate(k) PROVE IInv'
  BY <1>0, <1>3, InvalidateKeeps DEF Invalidate, call
<1>4. ASSUME InvalidateAll PROVE IInv'
  <2>1. \A c \in CacheKey : c[1] \in Keys /\ cache'[c] = None
    BY <1>4, CacheKeyParts DEF InvalidateAll
  <2> QED
    BY <1>0, <1>4, <2>1, ClearKeeps DEF InvalidateAll
<1>5. ASSUME NEW t \in Threads, NEW k \in Keys, NEW v \in Versions,
             StartResolve(t, k, v)
      PROVE  IInv'
  <2> DEFINE c == <<k, v>>
             n == IF locks[c] = 0 THEN CHOOSE f \in FreshLocks(c) : TRUE ELSE locks[c]
  <2>1. c \in CacheKey /\ c[1] = k
    BY CacheKeyParts
  <2>2. /\ locks[c] # 0 => n = locks[c]
        /\ pc[t] = "idle" /\ cache[c] = None
        /\ locks' = [locks EXCEPT ![c] = n]
        /\ ckey' = [ckey EXCEPT ![t] = c]
        /\ lock' = [lock EXCEPT ![t] = n]
        /\ spec' = [spec EXCEPT ![t] = registry[k]]
        /\ pc' = [pc EXCEPT ![t] = "lock"]
        /\ UNCHANGED <<registry, cache, instance, history>>
    BY <1>5 DEF StartResolve
  <2> HIDE DEF c, n
  <2>3. CallsCurrent'
    BY <2>1, <2>2 DEF IInv, CallInv, TypeOK, CallsOK, CallsCurrent, Calm, history
  <2>4. CountOK'
    BY <2>1, <2>2 DEF IInv, CallInv, TypeOK, CountOK, Calm, history
  <2>5. CacheIsCurrent'
    BY <2>2 DEF IInv, CacheIsCurrent, history
  <2> QED
    BY <1>0, <2>3, <2>4, <2>5 DEF IInv
<1>6. ASSUME NEW t \in Threads, Acquire(t) PROVE IInv'
  <2>1. CallsCurrent' /\ CacheIsCurrent'
    BY <1>6 DEF Acquire, bus, history, IInv, CallInv, TypeOK, CallsCurrent, CacheIsCurrent, Calm
  <2>2. CountOK'
    BY <1>6 DEF Acquire, bus, history, IInv, CallInv, TypeOK, CountOK, Calm
  <2> QED
    BY <1>0, <2>1, <2>2 DEF IInv
<1>7. ASSUME NEW t \in Threads, DoubleCheckHit(t) PROVE IInv'
  <2>1. CallsCurrent' /\ CacheIsCurrent'
    BY <1>7 DEF DoubleCheckHit, Leave, bus, history, IInv, CallInv, TypeOK, CallsCurrent,
                CacheIsCurrent, Calm
  <2>2. CountOK'
    BY <1>7, CacheKeyParts DEF DoubleCheckHit, Leave, bus, history, IInv, CallInv, TypeOK, CountOK, Calm
  <2> QED
    BY <1>0, <2>1, <2>2 DEF IInv
<1>8. ASSUME NEW t \in Threads, DoubleCheckMiss(t) PROVE IInv'
  <2>1. CallsCurrent' /\ CacheIsCurrent'
    BY <1>8 DEF DoubleCheckMiss, bus, history, IInv, CallInv, TypeOK, CallsCurrent,
                CacheIsCurrent, Calm
  <2>2. Calm(ckey[t]) => built[ckey[t]] = 0
    <3>1. ckey[t] \in CacheKey /\ cache[ckey[t]] = None
      BY <1>8 DEF DoubleCheckMiss, IInv, CallInv, CallsOK
    <3>2. Calm(ckey[t]) =>
            ~\E u \in Threads : pc[u] = "store" /\ ckey[u] = ckey[t]
      BY <1>8, HolderAlone DEF DoubleCheckMiss, Holds
    <3> QED
      BY <3>1, <3>2 DEF IInv, CallInv, TypeOK, CountOK
  <2>3. CountOK'
    BY <1>8, <2>2 DEF DoubleCheckMiss, bus, history, IInv, CallInv, TypeOK, CountOK, Calm
  <2> QED
    BY <1>0, <2>1, <2>3 DEF IInv
<1>9. ASSUME NEW t \in Threads, FactoryReturns(t) PROVE IInv'
  <2>1. CallsCurrent' /\ CacheIsCurrent'
    BY <1>9 DEF FactoryReturns, bus, IInv, CallInv, TypeOK, CallsCurrent, CacheIsCurrent, Calm
  <2>2. \A u \in Threads : Calm(ckey[t]) /\ pc[u] = "build" /\ ckey[u] = ckey[t] => u = t
    BY <1>9, HolderAlone DEF FactoryReturns, Holds
  <2>3. CountOK'
    BY <1>9, <2>2 DEF FactoryReturns, bus, IInv, CallInv, TypeOK, CallsOK, CountOK, Calm
  <2> QED
    BY <1>0, <2>1, <2>3 DEF IInv
<1>10. ASSUME NEW t \in Threads, FactoryRaises(t) PROVE IInv'
  <2>1. CallsCurrent' /\ CacheIsCurrent'
    BY <1>10 DEF FactoryRaises, Leave, bus, history, IInv, CallInv, TypeOK, CallsCurrent,
                 CacheIsCurrent, Calm
  <2>2. CountOK'
    BY <1>10, CacheKeyParts DEF FactoryRaises, Leave, bus, history, IInv, CallInv, TypeOK, CountOK, Calm
  <2> QED
    BY <1>0, <2>1, <2>2 DEF IInv
<1>11. ASSUME NEW t \in Threads, Store(t) PROVE IInv'
  <2>1. /\ ckey[t] \in CacheKey /\ instance[t] \in Instance
        /\ Calm(ckey[t]) => /\ registry[ckey[t][1]] # None
                            /\ instance[t].factory = registry[ckey[t][1]].factory
    BY <1>11, NoneIsNothing DEF Store, IInv, CallInv, CallsOK, CallsCurrent
  <2>2. \A u \in Threads :
          Calm(ckey[t]) /\ pc[u] \in {"build", "store"} /\ ckey[u] = ckey[t] => u = t
    BY <1>11, HolderAlone DEF Store, Holds
  <2>3. CallsCurrent'
    BY <1>11 DEF Store, Leave, history, IInv, CallInv, TypeOK, CallsCurrent, Calm
  <2>4. CountOK'
    BY <1>11, <2>1, <2>2, NoneIsNothing, CacheKeyParts
       DEF Store, Leave, history, IInv, CallInv, TypeOK, CountOK, Calm
  <2>5. CacheIsCurrent'
    BY <1>11, <2>1 DEF Store, history, IInv, CallInv, TypeOK, CacheIsCurrent, Calm
  <2> QED
    BY <1>0, <2>3, <2>4, <2>5 DEF IInv
<1>12. CASE UNCHANGED vars
  BY <1>0, <1>12 DEF vars, bus, call, history, IInv, CallsCurrent, CountOK, CacheIsCurrent, Calm
<1> QED
  BY <1>1, <1>2, <1>3, <1>4, <1>5, <1>6, <1>7, <1>8, <1>9, <1>10, <1>11, <1>12
     DEF Next, Proceeds

\* A factory makes one instance per cache key, however many threads resolve
\* it, unless the key is cleared under one of them.
THEOREM OneInstance == Spec => []AtMostOnce
<1>1. IInv => AtMostOnce
  BY DEF IInv, CountOK, AtMostOnce, Calm
<1> QED
  BY FullInit, FullStep, <1>1, PTL DEF Spec

\* What is cached was made by the factory that is registered, unless the key
\* was cleared under a resolve in progress.
THEOREM CacheCorrect == Spec => []CacheIsCurrent
<1>1. IInv => CacheIsCurrent
  BY DEF IInv
<1> QED
  BY FullInit, FullStep, <1>1, PTL DEF Spec

\* An instance that is cached is never replaced by another one.
THEOREM SharedForGood == Spec => NeverReplaced
<1>1. CallInv /\ [Next]_vars =>
         [\A c \in CacheKey : cache[c] # None => cache'[c] \in {cache[c], None}]_vars
  <2> SUFFICES ASSUME CallInv, [Next]_vars, NEW c \in CacheKey, cache[c] # None
               PROVE  cache'[c] \in {cache[c], None}
    OBVIOUS
  <2>1. ASSUME NEW k \in Keys, InvalidateLocked(k)
        PROVE  cache'[c] \in {cache[c], None}
    BY <2>1 DEF InvalidateLocked
  <2>2. ASSUME NEW t \in Threads, Store(t) PROVE cache'[c] \in {cache[c], None}
    BY <2>2 DEF Store, CallInv, TypeOK
  <2> QED
    BY <2>1, <2>2
       DEF Next, Proceeds, vars, bus, Register, Unregister, Invalidate, InvalidateAll,
           StartResolve, Acquire, DoubleCheckHit, DoubleCheckMiss, FactoryReturns,
           FactoryRaises
<1> QED
  BY CallInit, CallStep, <1>1, PTL DEF Spec, NeverReplaced
=============================================================================
