------------------------------- MODULE ModuleBus -------------------------------
(***************************************************************************)
(* core/module_bus.py: the registry of factories and the cache of the      *)
(* instances they make. register, unregister, invalidate and               *)
(* invalidate_all each hold the global lock throughout and are one step.   *)
(* resolve takes the lock three times: to read the spec, to look into the  *)
(* cache again once it holds the lock of its cache key, and to store what  *)
(* the factory made outside the global lock.                               *)
(***************************************************************************)
EXTENDS Naturals

CONSTANTS
    Threads,    \* the threads that resolve
    Keys,       \* (kind, name)
    Versions,   \* version strings
    Factories,  \* the callables that get registered
    LockIds,    \* identities of lock objects (a bound on those in use at once)
    None        \* an absent entry

CacheKey   == Keys \X Versions
ModuleSpec == [version : Versions, factory : Factories]
\* which factory made it, in whose resolve: two constructions in flight at
\* once are never the same instance
Instance   == [factory : Factories, by : Threads]

ASSUME NoneAssumption == None \notin CacheKey \cup ModuleSpec \cup Instance
ASSUME LockAssumption == LockIds \subseteq Nat \ {0}

VARIABLES
    registry,  \* _registry
    cache,     \* _cache
    locks,     \* _factory_locks: 0 or the number of the lock object
    pc,        \* where a resolve is
    spec,      \* its local variables spec,
    ckey,      \*   cache_key,
    lock,      \*   factory_lock
    instance,  \*   and instance
    disturbed, \* history: was the key invalidated under a resolve in progress
    built      \* history: instances made since the key was last cleared (to 2)

bus     == <<registry, cache, locks>>
call    == <<pc, spec, ckey, lock, instance>>
history == <<disturbed, built>>
vars    == <<bus, call, history>>

InFlight(t, c) == pc[t] # "idle" /\ ckey[t] = c
Resolving(k)   == \E t \in Threads : pc[t] # "idle" /\ ckey[t][1] = k

\* the thread is inside "with factory_lock"
Holds(t) == pc[t] \in {"check", "build", "store"}

Init ==
    /\ registry = [k \in Keys |-> None]
    /\ cache = [c \in CacheKey |-> None]
    /\ locks = [c \in CacheKey |-> 0]
    /\ pc = [t \in Threads |-> "idle"]
    /\ spec = [t \in Threads |-> None]
    /\ ckey = [t \in Threads |-> None]
    /\ lock = [t \in Threads |-> 0]
    /\ instance = [t \in Threads |-> None]
    /\ disturbed = [k \in Keys |-> FALSE]
    /\ built = [c \in CacheKey |-> 0]

-----------------------------------------------------------------------------
(* Registration and invalidation *)

\* the keys of S are cleared: what they built no longer counts, unless a
\* resolve that is under way may still put an old instance back
Clear(S) ==
    /\ disturbed' = [k \in Keys |-> IF k \in S THEN Resolving(k) ELSE disturbed[k]]
    /\ built' = [c \in CacheKey |-> IF c[1] \in S THEN 0 ELSE built[c]]

\* (mutants are marked so: each is a plausible bug that a run must catch)
\* mutant: only the version that is registered is dropped
InvalidateRegistered(k) ==
    LET stale == {c \in CacheKey : c[1] = k /\ cache[c] # None
                                   /\ registry[k] # None /\ c[2] = registry[k].version}
    IN  /\ cache' = [c \in CacheKey |-> IF c \in stale THEN None ELSE cache[c]]
        /\ locks' = [c \in CacheKey |-> IF c \in stale THEN 0 ELSE locks[c]]
        /\ Clear({k})

\* _invalidate_locked: all versions; a lock goes only with its instance
InvalidateLocked(k) ==
    LET stale == {c \in CacheKey : c[1] = k /\ cache[c] # None}
    IN  /\ cache' = [c \in CacheKey |-> IF c \in stale THEN None ELSE cache[c]]
        /\ locks' = [c \in CacheKey |-> IF c \in stale THEN 0 ELSE locks[c]]
        /\ Clear({k})

Register(k, s) ==
    /\ registry' = [registry EXCEPT ![k] = s]
    /\ IF registry[k] # None
       THEN InvalidateLocked(k)
       ELSE UNCHANGED <<cache, locks, history>>
    /\ UNCHANGED call

Unregister(k) ==
    /\ registry' = [registry EXCEPT ![k] = None]
    /\ InvalidateLocked(k)
    /\ UNCHANGED call

Invalidate(k) ==
    /\ InvalidateLocked(k)
    /\ UNCHANGED <<registry, call>>

\* every lock goes, those of resolves under way included
InvalidateAll ==
    /\ cache' = [c \in CacheKey |-> None]
    /\ locks' = [c \in CacheKey |-> 0]
    /\ Clear(Keys)
    /\ UNCHANGED <<registry, call>>

-----------------------------------------------------------------------------
(* resolve. An unknown key raises and a cached instance is returned at     *)
(* once: neither is a step.                                                *)

\* Lock objects of one key are told apart by their numbers. A new one has a
\* number no resolve of the key still holds a reference to.
FreshLocks(c) == {n \in LockIds : \A t \in Threads : InFlight(t, c) => lock[t] # n}

\* the first locked section: v is the version asked for, or the spec's own
StartResolve(t, k, v) ==
    /\ pc[t] = "idle"
    /\ registry[k] # None
    /\ cache[<<k, v>>] = None
    /\ LET c == <<k, v>>
           n == IF locks[c] = 0 THEN CHOOSE f \in FreshLocks(c) : TRUE ELSE locks[c]
       IN  /\ locks[c] = 0 => FreshLocks(c) # {}
           /\ locks' = [locks EXCEPT ![c] = n]
           /\ ckey' = [ckey EXCEPT ![t] = c]
           /\ lock' = [lock EXCEPT ![t] = n]
    /\ spec' = [spec EXCEPT ![t] = registry[k]]
    /\ pc' = [pc EXCEPT ![t] = "lock"]
    /\ UNCHANGED <<registry, cache, instance, history>>

Acquire(t) ==
    /\ pc[t] = "lock"
    /\ \A u \in Threads : InFlight(u, ckey[t]) /\ Holds(u) => lock[u] # lock[t]
    /\ pc' = [pc EXCEPT ![t] = "check"]
    /\ UNCHANGED <<bus, spec, ckey, lock, instance, history>>

\* resolve returns or raises, and gives the lock of the key back
Leave(t) ==
    /\ pc' = [pc EXCEPT ![t] = "idle"]
    /\ spec' = [spec EXCEPT ![t] = None]
    /\ ckey' = [ckey EXCEPT ![t] = None]
    /\ lock' = [lock EXCEPT ![t] = 0]
    /\ instance' = [instance EXCEPT ![t] = None]

\* another thread was faster
DoubleCheckHit(t) ==
    /\ pc[t] = "check"
    /\ cache[ckey[t]] # None
    /\ Leave(t)
    /\ UNCHANGED <<bus, history>>

\* mutant: the cache is not looked at again
NoDoubleCheck(t) ==
    /\ pc[t] = "check"
    /\ pc' = [pc EXCEPT ![t] = "build"]
    /\ UNCHANGED <<bus, spec, ckey, lock, instance, history>>

DoubleCheckMiss(t) ==
    /\ pc[t] = "check"
    /\ cache[ckey[t]] = None
    /\ pc' = [pc EXCEPT ![t] = "build"]
    /\ UNCHANGED <<bus, spec, ckey, lock, instance, history>>

\* mutant: an instance that carries no trace of its factory
MadeNothing(t) == [factory |-> None, by |-> t]

Made(t) == [factory |-> spec[t].factory, by |-> t]

FactoryReturns(t) ==
    /\ pc[t] = "build"
    /\ instance' = [instance EXCEPT ![t] = Made(t)]
    /\ built' = [built EXCEPT ![ckey[t]] = IF @ = 0 THEN 1 ELSE 2]
    /\ pc' = [pc EXCEPT ![t] = "store"]
    /\ UNCHANGED <<bus, spec, ckey, lock, disturbed>>

\* mutant: a factory that fails is tried again
FactoryRetried(t) ==
    /\ pc[t] = "build"
    /\ pc' = [pc EXCEPT ![t] = "lock"]
    /\ UNCHANGED <<bus, spec, ckey, lock, instance, history>>

FactoryRaises(t) ==
    /\ pc[t] = "build"
    /\ Leave(t)
    /\ UNCHANGED <<bus, history>>

\* mutant: the last one wins
StoreAnyway(t) ==
    /\ pc[t] = "store"
    /\ cache' = [cache EXCEPT ![ckey[t]] = instance[t]]
    /\ Leave(t)
    /\ UNCHANGED <<registry, locks, history>>

\* the third locked section: an instance that is there already is preferred
Store(t) ==
    /\ pc[t] = "store"
    /\ cache' = [cache EXCEPT ![ckey[t]] = IF @ = None THEN instance[t] ELSE @]
    /\ Leave(t)
    /\ UNCHANGED <<registry, locks, history>>

-----------------------------------------------------------------------------
Proceeds(t) ==
    \/ DoubleCheckHit(t) \/ DoubleCheckMiss(t)
    \/ FactoryReturns(t) \/ FactoryRaises(t) \/ Store(t)

Next ==
    \/ \E k \in Keys :
          \/ \E s \in ModuleSpec : Register(k, s)
          \/ registry[k] # None /\ Unregister(k)
          \/ Invalidate(k)
    \/ InvalidateAll
    \/ \E t \in Threads :
          \/ \E k \in Keys, v \in Versions : StartResolve(t, k, v)
          \/ Acquire(t) \/ Proceeds(t)

\* Factories return or raise. A thread that waits for a lock which is free
\* again and again gets it some time.
Fairness == \A t \in Threads : WF_vars(Proceeds(t)) /\ SF_vars(Acquire(t))

Spec == Init /\ [][Next]_vars /\ Fairness

-----------------------------------------------------------------------------
(* Properties *)

TypeOK ==
    /\ registry \in [Keys -> ModuleSpec \cup {None}]
    /\ cache \in [CacheKey -> Instance \cup {None}]
    /\ locks \in [CacheKey -> Nat]
    /\ pc \in [Threads -> {"idle", "lock", "check", "build", "store"}]
    /\ spec \in [Threads -> ModuleSpec \cup {None}]
    /\ ckey \in [Threads -> CacheKey \cup {None}]
    /\ lock \in [Threads -> Nat]
    /\ instance \in [Threads -> Instance \cup {None}]
    /\ disturbed \in [Keys -> BOOLEAN]
    /\ built \in [CacheKey -> 0 .. 2]

\* However many threads resolve a (kind, name, version) at once, its factory
\* makes one instance until the key is cleared; clearing it while a resolve of
\* the key is under way is the only thing that can break this.
AtMostOnce == \A c \in CacheKey : ~disturbed[c[1]] => built[c] <= 1

\* A cached instance, of whatever version, is one the registered factory made,
\* unless the key was cleared under a resolve in progress.
CacheIsCurrent ==
    \A c \in CacheKey : cache[c] # None /\ ~disturbed[c[1]] =>
        registry[c[1]] # None /\ cache[c].factory = registry[c[1]].factory

\* An instance that was handed out is shared from then on: it can be dropped
\* but never replaced by another one.
NeverReplaced ==
    [][\A c \in CacheKey : cache[c] # None => cache'[c] \in {cache[c], None}]_vars

\* Every resolve ends, whatever else is registered, invalidated or fails.
ResolveEnds == \A t \in Threads : pc[t] # "idle" ~> pc[t] = "idle"
=============================================================================
