---------------------------- MODULE BudgetTracker ----------------------------
(***************************************************************************)
(* infrastructure/resource_budget/_tracker.py: the accountant that hands   *)
(* out VRAM, RAM, disk and concurrency slots to the threads of a run.      *)
(*                                                                         *)
(* Every public method runs its body under one RLock, so a method is one   *)
(* action, except where it gives the lock up: allocate_or_wait inside      *)
(* Condition.wait, allocate_with_backoff inside time.sleep, and            *)
(* AllocationHandle.release, which reads and writes its flag unlocked.     *)
(***************************************************************************)
EXTENDS Integers, Sequences, FiniteSets, SequencesExt

CONSTANTS
    Threads,      \* the threads that share the tracker
    Handles,      \* identities of AllocationHandle objects (a bound)
    Budget,       \* ResourceBudget: the limit of every resource
    Requests,     \* the requests threads make
    Batches,      \* the spec lists passed to allocate_many; {}: never called
    Epsilon,      \* _types.EPSILON, in the unit the amounts are given in
    MaxAttempts,  \* allocate_with_backoff's max_attempts
    Teardown,     \* whether release_all is called while threads are running
    None          \* Python's None

Gb        == {"vram_gb", "ram_gb", "disk_gb"}
Slots     == {"model_slot", "request_slot"}
Resources == Gb \cup Slots
Request   == {r \in [Resources -> Int] : \A s \in Slots : r[s] \in {0, 1}}

ASSUME BudgetAssumption == Budget \in [Resources -> Nat]
ASSUME RequestAssumption == Requests \subseteq Request /\ None \notin Requests
ASSUME BatchAssumption == Batches \subseteq Seq(Requests)
ASSUME BoundAssumption ==
    /\ Epsilon \in Nat
    /\ MaxAttempts \in Nat \ {0}
    /\ Teardown \in BOOLEAN
    /\ IsFiniteSet(Handles) /\ None \notin Handles

VARIABLES
    used,         \* _used_vram .. _used_request_slots
    allocations,  \* _allocations: the request recorded under a handle id
    handle,       \* a handle object: not created, or its _released flag
    pc,           \* where a thread is in a call that gives the lock up
    req,          \* the request of that call
    timer,        \* the deadline of allocate_or_wait
    attempt,      \* failed attempts of allocate_with_backoff
    target        \* the handle being released

tracker == <<used, allocations>>
call    == <<pc, req, timer, attempt, target>>
vars    == <<used, allocations, handle, call>>

-----------------------------------------------------------------------------
(* Limits *)

NonNegative(r) == \A g \in Gb : r[g] >= 0
MaxOf(a, b)    == IF a >= b THEN a ELSE b

\* _check_limit, against the clamped availability of _available_locked
WithinLimit(r) ==
    /\ \A g \in Gb : r[g] <= MaxOf(0, Budget[g] - used[g]) + Epsilon
    /\ \A s \in Slots : r[s] <= MaxOf(0, Budget[s] - used[s])

\* _would_exceed: the gigabytes only, never the slots
WouldExceed(r) == \E g \in Gb : r[g] > Budget[g]

\* (mutants are marked so: each is a plausible bug that a run must catch)
\* mutant: the slots are not looked at
FitsGigabytes(r) == \A g \in Gb : used[g] + r[g] <= Budget[g]

\* _fits; its 1e-9 tolerance is below one unit
Fits(r) ==
    /\ \A g \in Gb : used[g] + r[g] <= Budget[g]
    /\ \A s \in Slots : r[s] = 1 => used[s] < Budget[s]

SlotOnly(r) == (\E s \in Slots : r[s] = 1) /\ \A g \in Gb : r[g] = 0

\* mutant: slots are not counted
PlusGigabytes(u, r) == [k \in Resources |-> IF k \in Gb THEN u[k] + r[k] ELSE u[k]]

Plus(u, r)  == [k \in Resources |-> u[k] + r[k]]
Minus(u, r) == [k \in Resources |-> MaxOf(0, u[k] - r[k])]

-----------------------------------------------------------------------------
(* The two ways the books change *)

\* An identity off the books that no call is using can stand for the next
\* uuid4: Handles bounds the handles alive at once, not the calls.
Fresh(h) == allocations[h] = None /\ \A t \in Threads : target[t] # h

\* _consume: count the request and record it under a fresh handle
Consume(r) ==
    \E h \in Handles :
        /\ Fresh(h)
        /\ used' = Plus(used, r)
        /\ allocations' = [allocations EXCEPT ![h] = r]
        /\ handle' = [handle EXCEPT ![h] = "held"]

\* mutants: notify for notify_all, and no notification at all
WakeOne(p) ==
    IF \E t \in Threads : p[t] = "waiting"
    THEN [p EXCEPT ![CHOOSE t \in Threads : p[t] = "waiting"] = "woken"]
    ELSE p
WakeNobody(p) == p

WakeAll(p) == [t \in Threads |-> IF p[t] = "waiting" THEN "woken" ELSE p[t]]

\* the locked part of release: a handle that is not on record is a no-op,
\* any other returns what was recorded and wakes every waiter
Return(h, p) ==
    IF allocations[h] = None
    THEN UNCHANGED tracker /\ pc' = p
    ELSE /\ used' = Minus(used, allocations[h])
         /\ allocations' = [allocations EXCEPT ![h] = None]
         /\ pc' = WakeAll(p)

Idle(t) == pc[t] = "idle"

\* the call of t returns or raises
Leave(t) ==
    /\ pc' = [pc EXCEPT ![t] = "idle"]
    /\ req' = [req EXCEPT ![t] = None]
    /\ timer' = [timer EXCEPT ![t] = "none"]
    /\ attempt' = [attempt EXCEPT ![t] = 0]
    /\ UNCHANGED target

-----------------------------------------------------------------------------
(* Allocation. A call that raises at once changes nothing and is no step.   *)

Init ==
    /\ used = [k \in Resources |-> 0]
    /\ allocations = [h \in Handles |-> None]
    /\ handle = [h \in Handles |-> "none"]
    /\ pc = [t \in Threads |-> "idle"]
    /\ req = [t \in Threads |-> None]
    /\ timer = [t \in Threads |-> "none"]
    /\ attempt = [t \in Threads |-> 0]
    /\ target = [t \in Threads |-> None]

Allocate(t, r) ==
    /\ Idle(t)
    /\ NonNegative(r)
    /\ WithinLimit(r)
    /\ Consume(r)
    /\ UNCHANGED call

\* try_acquire, and allocate_or_wait served by the first pass of its loop
TryAcquire(t, r) ==
    /\ Idle(t)
    /\ ~WouldExceed(r)
    /\ Fits(r)
    /\ Consume(r)
    /\ UNCHANGED call

\* allocate_or_wait reaching Condition.wait; w: has the call a timeout
StartWaiting(t, r, w) ==
    /\ Idle(t)
    /\ ~WouldExceed(r)
    /\ ~Fits(r)
    /\ ~SlotOnly(r)
    /\ pc' = [pc EXCEPT ![t] = "waiting"]
    /\ req' = [req EXCEPT ![t] = r]
    /\ timer' = [timer EXCEPT ![t] = w]
    /\ UNCHANGED <<tracker, handle, attempt, target>>

\* the deadline passes; a thread still asleep is woken by it
DeadlinePasses(t) ==
    /\ timer[t] = "running"
    /\ timer' = [timer EXCEPT ![t] = "expired"]
    /\ pc' = [pc EXCEPT ![t] = "woken"]
    /\ UNCHANGED <<tracker, handle, req, attempt, target>>

\* a woken waiter gets the lock and the request fits, deadline or not
ServeWaiter(t) ==
    /\ pc[t] = "woken"
    /\ Fits(req[t])
    /\ Consume(req[t])
    /\ Leave(t)

\* it does not fit and the deadline is over: BudgetExceededError
GiveUp(t) ==
    /\ pc[t] = "woken"
    /\ ~Fits(req[t])
    /\ timer[t] = "expired"
    /\ Leave(t)
    /\ UNCHANGED <<tracker, handle>>

\* mutant: the deadline is not looked at after a wake-up
WaitAgainLate(t) ==
    /\ pc[t] = "woken"
    /\ ~Fits(req[t])
    /\ pc' = [pc EXCEPT ![t] = "waiting"]
    /\ UNCHANGED <<tracker, handle, req, timer, attempt, target>>

WaitAgain(t) ==
    /\ pc[t] = "woken"
    /\ ~Fits(req[t])
    /\ timer[t] # "expired"
    /\ pc' = [pc EXCEPT ![t] = "waiting"]
    /\ UNCHANGED <<tracker, handle, req, timer, attempt, target>>

\* allocate_many: each spec is checked against the usage before the batch,
\* then all are consumed
AllocateMany(t, batch) ==
    /\ Idle(t)
    /\ \A i \in DOMAIN batch : ~WouldExceed(batch[i]) /\ Fits(batch[i])
    /\ \E hs \in [DOMAIN batch -> Handles] :
          /\ \A i, j \in DOMAIN batch : hs[i] = hs[j] => i = j
          /\ \A i \in DOMAIN batch : Fresh(hs[i])
          /\ allocations' = [h \in Handles |->
                IF \E i \in DOMAIN batch : hs[i] = h
                THEN batch[CHOOSE i \in DOMAIN batch : hs[i] = h]
                ELSE allocations[h]]
          /\ handle' = [h \in Handles |->
                IF \E i \in DOMAIN batch : hs[i] = h THEN "held" ELSE handle[h]]
    /\ used' = FoldSeq(LAMBDA r, u : Plus(u, r), used, batch)
    /\ UNCHANGED call

\* allocate_with_backoff: the first attempt failed and was not the last
StartBackoff(t, r) ==
    /\ Idle(t)
    /\ NonNegative(r)
    /\ ~WithinLimit(r)
    /\ MaxAttempts > 1
    /\ pc' = [pc EXCEPT ![t] = "backoff"]
    /\ req' = [req EXCEPT ![t] = r]
    /\ attempt' = [attempt EXCEPT ![t] = 1]
    /\ UNCHANGED <<tracker, handle, timer, target>>

\* the sleep is over: the next attempt, in the order the loop tries it
RetryServed(t) ==
    /\ pc[t] = "backoff"
    /\ WithinLimit(req[t])
    /\ Consume(req[t])
    /\ Leave(t)

\* mutant: the attempts are never used up
RetryForever(t) ==
    /\ pc[t] = "backoff"
    /\ ~WithinLimit(req[t])
    /\ attempt' = [attempt EXCEPT ![t] = @ + 1]
    /\ UNCHANGED <<tracker, handle, pc, req, timer, target>>

RetryFailed(t) ==
    /\ pc[t] = "backoff"
    /\ ~WithinLimit(req[t])
    /\ IF attempt[t] + 1 >= MaxAttempts
       THEN Leave(t)
       ELSE /\ attempt' = [attempt EXCEPT ![t] = @ + 1]
            /\ UNCHANGED <<pc, req, timer, target>>
    /\ UNCHANGED <<tracker, handle>>

-----------------------------------------------------------------------------
(* Release *)

\* tracker.release(handle), by any thread that has a reference
TrackerRelease(t, h) ==
    /\ Idle(t)
    /\ handle[h] # "none"
    /\ Return(h, pc)
    /\ UNCHANGED <<handle, req, timer, attempt, target>>

\* mutant: the flag is set before the budget is returned
MarkBeforeRelease(t, h) ==
    /\ Idle(t)
    /\ handle[h] = "held"
    /\ pc' = [pc EXCEPT ![t] = "releasing"]
    /\ target' = [target EXCEPT ![t] = h]
    /\ handle' = [handle EXCEPT ![h] = "released"]
    /\ UNCHANGED <<tracker, req, timer, attempt>>

\* handle.release(): the flag is read outside the lock
BeginHandleRelease(t, h) ==
    /\ Idle(t)
    /\ handle[h] = "held"
    /\ pc' = [pc EXCEPT ![t] = "releasing"]
    /\ target' = [target EXCEPT ![t] = h]
    /\ UNCHANGED <<tracker, handle, req, timer, attempt>>

LockedHandleRelease(t) ==
    /\ pc[t] = "releasing"
    /\ Return(target[t], [pc EXCEPT ![t] = "marking"])
    /\ UNCHANGED <<handle, req, timer, attempt, target>>

MarkReleased(t) ==
    /\ pc[t] = "marking"
    /\ handle' = [handle EXCEPT ![target[t]] = "released"]
    /\ pc' = [pc EXCEPT ![t] = "idle"]
    /\ target' = [target EXCEPT ![t] = None]
    /\ UNCHANGED <<tracker, req, timer, attempt>>

\* mutant: the slot counters are not reset
ReleaseAllButSlots(t) ==
    /\ Teardown
    /\ Idle(t)
    /\ used' = [k \in Resources |-> IF k \in Gb THEN 0 ELSE used[k]]
    /\ allocations' = [h \in Handles |-> None]
    /\ UNCHANGED <<handle, call>>

\* release_all: the books are cleared; nobody is notified
ReleaseAll(t) ==
    /\ Teardown
    /\ Idle(t)
    /\ used' = [k \in Resources |-> 0]
    /\ allocations' = [h \in Handles |-> None]
    /\ UNCHANGED <<handle, call>>

-----------------------------------------------------------------------------
Starts(t) ==
    \/ \E r \in Requests :
          \/ Allocate(t, r)
          \/ TryAcquire(t, r)
          \/ \E w \in {"none", "running"} : StartWaiting(t, r, w)
          \/ StartBackoff(t, r)
    \/ \E batch \in Batches : AllocateMany(t, batch)
    \/ \E h \in Handles : TrackerRelease(t, h) \/ BeginHandleRelease(t, h)
    \/ ReleaseAll(t)

\* the steps a thread takes in a call already under way, its return included
Proceeds(t) ==
    \/ ServeWaiter(t) \/ GiveUp(t) \/ WaitAgain(t)
    \/ RetryServed(t) \/ RetryFailed(t)
    \/ LockedHandleRelease(t) \/ MarkReleased(t)

Next == \E t \in Threads : Starts(t) \/ Proceeds(t) \/ DeadlinePasses(t)

\* A thread that can go on does: the lock is only held for the length of a
\* method body and sleeps end. Time passes on its own, so every deadline comes.
\* Nothing forces new calls, nor a release.
Fairness ==
    \A t \in Threads : WF_vars(Proceeds(t)) /\ WF_vars(DeadlinePasses(t))

Spec == Init /\ [][Next]_vars /\ Fairness

-----------------------------------------------------------------------------
(* Properties *)

TypeOK ==
    /\ used \in [Resources -> Int]
    /\ allocations \in [Handles -> Requests \cup {None}]
    /\ handle \in [Handles -> {"none", "held", "released"}]
    /\ pc \in [Threads -> {"idle", "waiting", "woken", "backoff",
                           "releasing", "marking"}]
    /\ req \in [Threads -> Requests \cup {None}]
    /\ timer \in [Threads -> {"none", "running", "expired"}]
    /\ attempt \in [Threads -> 0 .. MaxAttempts]
    /\ target \in [Threads -> Handles \cup {None}]

\* The hard limits hold whatever the threads interleave (allocate,
\* allocate_or_wait, try_acquire and backoff all check and consume under one
\* lock). With requests that are not negative and no allocate_many.
WithinBudget == \A k \in Resources : used[k] <= Budget[k]

Held(k) == SumFunction([h \in Handles |->
               IF allocations[h] = None THEN 0 ELSE allocations[h][k]])

\* The running totals are exactly what the live allocations add up to: no
\* double release, stale handle or clamp makes the counters drift.
Accounting == \A k \in Resources : used[k] = Held(k)

\* No waiter sleeps while its request fits: each change of the books that
\* makes room wakes whoever waits (the notify_all of release).
NoSleepingWhileFits ==
    \A t \in Threads : pc[t] = "waiting" => ~Fits(req[t])

\* A handle whose flag says released has given its budget back: the flag is
\* set last, so a failing or racing release never strands an allocation.
ReleasedIsReturned ==
    \A h \in Handles : handle[h] = "released" => allocations[h] = None

Pool == INSTANCE ResourcePool
            WITH Capacity <- Budget, Grants <- Handles, granted <- allocations

\* Every behaviour of the tracker is one of the abstract pool: what is handed
\* out never exceeds the limits and comes back exactly once.
PoolSpec == Pool!Spec

\* A wait with a timeout ends, served or not, whatever the others do.
TimedWaitEnds ==
    \A t \in Threads : timer[t] = "running" ~> pc[t] = "idle"

\* When the threads stop holding anything for good, nobody is left blocked:
\* the last release wakes whoever an empty tracker can serve.
DrainedLeavesNobodyBlocked ==
    <>[](\A h \in Handles : allocations[h] = None)
        => []<>(\A t \in Threads : pc[t] # "waiting")
=============================================================================
