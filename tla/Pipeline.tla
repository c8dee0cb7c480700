------------------------------- MODULE Pipeline -------------------------------
(***************************************************************************)
(* pipeline/composer.py: Pipeline.run executes the layers of a DAG on a    *)
(* thread pool while other threads (or the nodes themselves) call cancel,  *)
(* pause, resume and close.                                                *)
(*                                                                         *)
(* Only the _running flag and the executor in close() are guarded by       *)
(* _run_lock. The two events and the executor are read by the run without  *)
(* it, so each of those reads is a step of its own.                        *)
(***************************************************************************)
EXTENDS Integers, Sequences, FiniteSets, SequencesExt

CONSTANTS
    Runs,           \* calls of run(), each with a NodeContext of its own
    Nodes,          \* the nodes of the DAG
    Deps,           \* DAG.get_dependencies
    Groups,         \* DAG.parallel_groups
    EarlyCancel,    \* may cancel() come while run() resets the events
    CloseDuringRun, \* may close() come while a run is in progress
    CallbackRaises  \* may the progress callback raise

ASSUME GraphAssumption ==
    /\ IsFiniteSet(Nodes)
    /\ Deps \in [Nodes -> SUBSET Nodes]
    /\ Groups \in Seq(Seq(Nodes))
ASSUME SwitchAssumption ==
    {EarlyCancel, CloseDuringRun, CallbackRaises} \subseteq BOOLEAN

\* What parallel_groups promises (module DAG): every node is in exactly one
\* place, and its dependencies are in earlier groups.
Layering(ids, deps, groups) ==
    /\ \A n \in ids : \E g \in DOMAIN groups : n \in Range(groups[g])
    /\ \A g, h \in DOMAIN groups :
          \A i \in DOMAIN groups[g], j \in DOMAIN groups[h] :
             /\ groups[g][i] = groups[h][j] => g = h /\ i = j
             /\ groups[g][i] \in deps[groups[h][j]] => g < h

ASSUME LayersAssumption == Layering(Nodes, Deps, Groups)

VARIABLES
    cancelled,  \* _cancel_event
    paused,     \* ~ _pause_event
    running,    \* _running
    executor,   \* _executor: whether the pipeline holds a pool
    pc,         \* where a run is
    layer,      \* the group a run is at
    idx,        \* its place in the loop over that group
    pool,       \* the run's local variable "pool"
    node,       \* the future of a node: new, queued, running, ok or failed
    results,    \* the mapping a run returns, as the set of its keys
    outputs,    \* the keys of ctx._outputs
    step,       \* the progress counter
    stopAt      \* history: the last group a cancelled run may still execute

control == <<cancelled, paused>>
books   == <<results, outputs, step>>
vars    == <<control, running, executor, pc, layer, idx, pool, node, books, stopAt>>

Goto(r, l)   == pc' = [pc EXCEPT ![r] = l]
Group(r)     == Groups[layer[r]]
Current(r)   == Group(r)[idx[r]]
Unlimited    == Len(Groups)
InReset(r)   == pc[r] \in {"resetCancel", "resetPause"}
Active(r)    == pc[r] \notin {"idle", "returned", "raised"}

\* (mutants are marked so: each is a plausible bug that a run must catch)
Init ==
    /\ cancelled = FALSE /\ paused = FALSE /\ running = FALSE
    /\ executor = "none"
    /\ pc = [r \in Runs |-> "idle"]
    /\ layer = [r \in Runs |-> 1]
    /\ idx = [r \in Runs |-> 1]
    /\ pool = [r \in Runs |-> "none"]
    /\ node = [r \in Runs |-> [n \in Nodes |-> "new"]]
    /\ results = [r \in Runs |-> {}]
    /\ outputs = [r \in Runs |-> {}]
    /\ step = [r \in Runs |-> 0]
    /\ stopAt = [r \in Runs |-> Unlimited]

-----------------------------------------------------------------------------
(* run(): claim the pipeline and reset the events, under _run_lock. A      *)
(* second run raises at once, which is no step.                            *)

\* mutant: the flag is not looked at
ClaimAnyway(r) ==
    /\ pc[r] = "idle"
    /\ \A q \in Runs : ~InReset(q)
    /\ running' = TRUE
    /\ Goto(r, "resetCancel")
    /\ UNCHANGED <<control, executor, layer, idx, pool, node, books, stopAt>>

Claim(r) ==
    /\ pc[r] = "idle"
    /\ \A q \in Runs : ~InReset(q)
    /\ ~running
    /\ running' = TRUE
    /\ Goto(r, "resetCancel")
    /\ UNCHANGED <<control, executor, layer, idx, pool, node, books, stopAt>>

ResetCancel(r) ==
    /\ pc[r] = "resetCancel"
    /\ cancelled' = FALSE
    /\ Goto(r, "resetPause")
    /\ UNCHANGED <<paused, running, executor, layer, idx, pool, node, books, stopAt>>

ResetPause(r) ==
    /\ pc[r] = "resetPause"
    /\ paused' = FALSE
    /\ Goto(r, "gate")
    /\ UNCHANGED <<cancelled, running, executor, layer, idx, pool, node, books, stopAt>>

-----------------------------------------------------------------------------
(* _run(): one layer after the other                                       *)

\* the groups are used up: return results
LastLayerDone(r) ==
    /\ pc[r] = "gate"
    /\ layer[r] > Len(Groups)
    /\ Goto(r, "return")
    /\ UNCHANGED <<control, running, executor, layer, idx, pool, node, books, stopAt>>

\* mutant: the pause loop does not look at the cancel event
WaitForResume(r) ==
    /\ pc[r] = "gate"
    /\ layer[r] <= Len(Groups)
    /\ ~paused
    /\ Goto(r, "check")
    /\ UNCHANGED <<control, running, executor, layer, idx, pool, node, books, stopAt>>

\* the pause loop ends: resumed, or cancelled while paused
LeavePause(r) ==
    /\ pc[r] = "gate"
    /\ layer[r] <= Len(Groups)
    /\ ~paused \/ cancelled
    /\ Goto(r, "check")
    /\ UNCHANGED <<control, running, executor, layer, idx, pool, node, books, stopAt>>

\* mutant: cancellation is only looked at inside the pause loop
SkipCancelCheck(r) ==
    /\ pc[r] = "check"
    /\ Goto(r, "ensure")
    /\ UNCHANGED <<control, running, executor, layer, idx, pool, node, books, stopAt>>

CheckCancel(r) ==
    /\ pc[r] = "check"
    /\ Goto(r, IF cancelled THEN "return" ELSE "ensure")
    /\ UNCHANGED <<control, running, executor, layer, idx, pool, node, books, stopAt>>

\* Create the executor if there is none, or replace one with fewer workers than
\* the run needs. That number is the same for all layers, so a pool is replaced
\* before the run has submitted anything, and what an earlier run left in it goes
\* on: the new one is as open as the old. close() may come between the looks at
\* _executor, but then the step raises as SubmitRaises does after TakePool.
EnsureExecutor(r) ==
    /\ pc[r] = "ensure"
    /\ executor' = "open"
    /\ Goto(r, "take")
    /\ UNCHANGED <<control, running, layer, idx, pool, node, books, stopAt>>

\* pool = self._executor: None if close() came in between
TakePool(r) ==
    /\ pc[r] = "take"
    /\ pool' = [pool EXCEPT ![r] = executor]
    /\ idx' = [idx EXCEPT ![r] = 1]
    /\ Goto(r, "submit")
    /\ UNCHANGED <<control, running, executor, layer, node, books, stopAt>>

Submit(r) ==
    /\ pc[r] = "submit"
    /\ idx[r] <= Len(Group(r))
    /\ pool[r] = "open"
    /\ node' = [node EXCEPT ![r][Current(r)] = "queued"]
    /\ idx' = [idx EXCEPT ![r] = @ + 1]
    /\ UNCHANGED <<control, running, executor, pc, layer, pool, books, stopAt>>

\* pool.submit on None or on a pool that was shut down
SubmitRaises(r) ==
    /\ pc[r] = "submit"
    /\ idx[r] <= Len(Group(r))
    /\ pool[r] # "open"
    /\ Goto(r, "raise")
    /\ UNCHANGED <<control, running, executor, layer, idx, pool, node, books, stopAt>>

\* mutant: the next layer is submitted without waiting for this one
NoBarrier(r) ==
    /\ pc[r] = "submit"
    /\ idx[r] > Len(Group(r))
    /\ layer' = [layer EXCEPT ![r] = @ + 1]
    /\ Goto(r, "gate")
    /\ UNCHANGED <<control, running, executor, idx, pool, node, books, stopAt>>

AllSubmitted(r) ==
    /\ pc[r] = "submit"
    /\ idx[r] > Len(Group(r))
    /\ idx' = [idx EXCEPT ![r] = 1]
    /\ Goto(r, "collect")
    /\ UNCHANGED <<control, running, executor, layer, pool, node, books, stopAt>>

\* mutant: every result counts for its whole layer
RecordLayer(r, S) ==
    /\ results' = [results EXCEPT ![r] = @ \cup S]
    /\ outputs' = [outputs EXCEPT ![r] = @ \cup S]
    /\ step' = [step EXCEPT ![r] = @ + Len(Group(r))]

\* record the outputs of the nodes in S
Record(r, S) ==
    /\ results' = [results EXCEPT ![r] = @ \cup S]
    /\ outputs' = [outputs EXCEPT ![r] = @ \cup S]
    /\ step' = [step EXCEPT ![r] = @ + Cardinality(S)]

\* fut.result() of the next future of the layer
Collect(r) ==
    /\ pc[r] = "collect"
    /\ idx[r] <= Len(Group(r))
    /\ node[r][Current(r)] = "ok"
    /\ Record(r, {Current(r)})
    /\ idx' = [idx EXCEPT ![r] = @ + 1]
    /\ UNCHANGED <<control, running, executor, pc, layer, pool, node, stopAt>>

\* mutant: a layer only fails when all of its nodes did
CollectTotalFailure(r) ==
    /\ pc[r] = "collect"
    /\ idx[r] <= Len(Group(r))
    /\ \A n \in Range(Group(r)) : node[r][n] = "failed"
    /\ Goto(r, "drain")
    /\ UNCHANGED <<control, running, executor, layer, idx, pool, node, books, stopAt>>

CollectFailure(r) ==
    /\ pc[r] = "collect"
    /\ idx[r] <= Len(Group(r))
    /\ node[r][Current(r)] = "failed"
    /\ Goto(r, "drain")
    /\ UNCHANGED <<control, running, executor, layer, idx, pool, node, books, stopAt>>

Done(r, n) == node[r][n] \in {"ok", "failed"}

\* mutant: the nodes that are still executing are not waited for
DrainAtOnce(r) ==
    /\ pc[r] = "drain"
    /\ Record(r, {n \in Range(Group(r)) : node[r][n] = "ok" /\ n \notin results[r]})
    /\ Goto(r, "raise")
    /\ UNCHANGED <<control, running, executor, layer, idx, pool, node, stopAt>>

\* a node failed: wait for the rest of the layer, keep what succeeded, raise
Drain(r) ==
    /\ pc[r] = "drain"
    /\ \A n \in Range(Group(r)) : Done(r, n)
    /\ Record(r, {n \in Range(Group(r)) : node[r][n] = "ok" /\ n \notin results[r]})
    /\ Goto(r, "raise")
    /\ UNCHANGED <<control, running, executor, layer, idx, pool, node, stopAt>>

NextLayer(r) ==
    /\ pc[r] = "collect"
    /\ idx[r] > Len(Group(r))
    /\ layer' = [layer EXCEPT ![r] = @ + 1]
    /\ Goto(r, "gate")
    /\ UNCHANGED <<control, running, executor, idx, pool, node, books, stopAt>>

\* the callback raises on "start", "done" or "error": nothing catches it
CallbackFails(r) ==
    /\ CallbackRaises
    /\ \/ pc[r] = "submit" /\ idx[r] <= Len(Group(r))
       \/ pc[r] = "collect" /\ idx[r] > 1
       \/ pc[r] = "drain"
    /\ Goto(r, "raise")
    /\ UNCHANGED <<control, running, executor, layer, idx, pool, node, books, stopAt>>

\* it raises on "done" while the layer of a failed node is drained
CallbackFailsInDrain(r) ==
    /\ CallbackRaises
    /\ pc[r] = "drain"
    /\ \A n \in Range(Group(r)) : Done(r, n)
    /\ \E i \in DOMAIN Group(r) :
          LET S == {Group(r)[j] : j \in 1 .. i}
          IN  Record(r, {n \in S : node[r][n] = "ok" /\ n \notin results[r]})
    /\ Goto(r, "raise")
    /\ UNCHANGED <<control, running, executor, layer, idx, pool, node, stopAt>>

\* the finally clause of run()
Finish(r) ==
    /\ pc[r] \in {"return", "raise"}
    /\ \A q \in Runs : ~InReset(q)
    /\ running' = FALSE
    /\ Goto(r, IF pc[r] = "return" THEN "returned" ELSE "raised")
    /\ UNCHANGED <<control, executor, layer, idx, pool, node, books, stopAt>>

-----------------------------------------------------------------------------
(* The pool's threads: there is one for every node of a layer              *)

StartNode(r, n) ==
    /\ node[r][n] = "queued"
    /\ node' = [node EXCEPT ![r][n] = "running"]
    /\ UNCHANGED <<control, running, executor, pc, layer, idx, pool, books, stopAt>>

EndNode(r, n, how) ==
    /\ node[r][n] = "running"
    /\ node' = [node EXCEPT ![r][n] = how]
    /\ UNCHANGED <<control, running, executor, pc, layer, idx, pool, books, stopAt>>

-----------------------------------------------------------------------------
(* Run control, from any thread and without the lock (close() takes it)    *)

\* the last group that may still execute when a run hears cancel() now
LastAllowed(r) ==
    IF InReset(r) THEN 0
    ELSE IF pc[r] \in {"gate", "check"} THEN layer[r] - 1
    ELSE layer[r]

Lower(a, b) == IF a <= b THEN a ELSE b

Cancel ==
    /\ EarlyCancel \/ \A r \in Runs : ~InReset(r)
    /\ cancelled' = TRUE
    /\ stopAt' = [r \in Runs |-> IF Active(r) THEN Lower(stopAt[r], LastAllowed(r))
                                 ELSE stopAt[r]]
    /\ UNCHANGED <<paused, running, executor, pc, layer, idx, pool, node, books>>

Pause ==
    /\ paused' = TRUE
    /\ UNCHANGED <<cancelled, running, executor, pc, layer, idx, pool, node, books, stopAt>>

Resume ==
    /\ paused' = FALSE
    /\ UNCHANGED <<cancelled, running, executor, pc, layer, idx, pool, node, books, stopAt>>

\* close(): shutdown(wait=False) of the executor; futures already submitted
\* still run
Close ==
    /\ \A r \in Runs : ~InReset(r)
    /\ CloseDuringRun \/ ~running
    /\ executor = "open"
    /\ executor' = "none"
    /\ pool' = [r \in Runs |-> IF pool[r] = "open" THEN "shut" ELSE pool[r]]
    /\ UNCHANGED <<control, running, pc, layer, idx, node, books, stopAt>>

-----------------------------------------------------------------------------
RunStep(r) ==
    \/ Claim(r) \/ ResetCancel(r) \/ ResetPause(r)
    \/ LastLayerDone(r) \/ LeavePause(r) \/ CheckCancel(r)
    \/ EnsureExecutor(r) \/ TakePool(r)
    \/ Submit(r) \/ SubmitRaises(r) \/ AllSubmitted(r)
    \/ Collect(r) \/ CollectFailure(r) \/ Drain(r) \/ NextLayer(r)
    \/ CallbackFails(r) \/ CallbackFailsInDrain(r) \/ Finish(r)

NodeStep(r, n) == StartNode(r, n) \/ \E how \in {"ok", "failed"} : EndNode(r, n, how)

Next ==
    \/ \E r \in Runs : RunStep(r) \/ \E n \in Nodes : NodeStep(r, n)
    \/ Cancel \/ Pause \/ Resume \/ Close

\* The thread in run() and the pool's threads are scheduled, and node
\* executors return. Nobody has to call run, cancel, pause, resume or close.
Fairness ==
    \A r \in Runs :
        /\ WF_vars(pc[r] # "idle" /\ RunStep(r))
        /\ \A n \in Nodes : WF_vars(NodeStep(r, n))

Spec == Init /\ [][Next]_vars /\ Fairness

-----------------------------------------------------------------------------
(* Properties *)

TypeOK ==
    /\ {cancelled, paused, running} \subseteq BOOLEAN
    /\ executor \in {"none", "open"}
    /\ pc \in [Runs -> {"idle", "resetCancel", "resetPause", "gate", "check",
                        "ensure", "take", "submit", "collect", "drain",
                        "return", "raise", "returned", "raised"}]
    /\ layer \in [Runs -> 1 .. Len(Groups) + 1]
    /\ idx \in [Runs -> Nat \ {0}]
    /\ pool \in [Runs -> {"none", "open", "shut"}]
    /\ node \in [Runs -> [Nodes -> {"new", "queued", "running", "ok", "failed"}]]
    /\ results \in [Runs -> SUBSET Nodes]
    /\ outputs \in [Runs -> SUBSET Nodes]
    /\ step \in [Runs -> 0 .. Cardinality(Nodes)]
    /\ stopAt \in [Runs -> 0 .. Len(Groups)]

\* At most one run() is past its claim of the pipeline at any time.
OneRun == \A q, r \in Runs : Active(q) /\ Active(r) => q = r

\* No node executes before the outputs of all its dependencies are in the
\* context: layers, failures and cancellation never let a node start early.
InputsReady ==
    \A r \in Runs, n \in Nodes :
        node[r][n] \in {"queued", "running", "ok", "failed"} => Deps[n] \subseteq outputs[r]

\* The counter reported to the progress callback is the number of nodes whose
\* results were collected, on the failure path too.
StepCountsResults == \A r \in Runs : step[r] = Cardinality(results[r])

\* When run() is over, however it ended, none of its nodes is still queued or
\* executing, and every node that succeeded has its outputs in the context.
QuietAfterReturn ==
    \A r \in Runs : pc[r] \in {"returned", "raised"} =>
        \A n \in Nodes : /\ node[r][n] \notin {"queued", "running"}
                         /\ node[r][n] = "ok" => n \in outputs[r]

\* A run that is cancelled finishes the layer it is in and starts no node of a
\* later one.
CancelStopsNextLayer ==
    \A r \in Runs : \A g \in DOMAIN Groups :
        g > stopAt[r] => \A i \in DOMAIN Groups[g] : node[r][Groups[g][i]] = "new"

\* A run that is not paused for ever comes to an end.
RunEnds ==
    \A r \in Runs : <>[]~paused => (Active(r) ~> ~Active(r))

\* A cancelled run comes to an end even if nobody ever resumes it.
CancelEndsRun ==
    \A r \in Runs : (Active(r) /\ cancelled /\ ~InReset(r)) ~> ~Active(r)
=============================================================================
