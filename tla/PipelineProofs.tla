---------------------------- MODULE PipelineProofs ----------------------------
(***************************************************************************)
(* For any graph with layers, any number of calls of run() and any         *)
(* interleaving with cancel, pause, resume and close: runs exclude each    *)
(* other, no node starts before its inputs are there, and every result is  *)
(* counted once. The last part is about module DAG, which computes the     *)
(* layers.                                                                 *)
(***************************************************************************)
EXTENDS Pipeline, DAG, FiniteSetTheorems, WellFoundedInduction, TLAPS

\* where a run is inside a layer
InLayer(r)   == pc[r] \in {"check", "ensure", "take", "submit", "collect", "drain"}
\* nothing of the layer has been submitted yet
AtStart(r)   == pc[r] \in {"idle", "resetCancel", "resetPause", "gate",
                           "check", "ensure", "take"}

\* TypeOK, without the bound of the counter
Shape ==
    /\ {cancelled, paused, running} \subseteq BOOLEAN
    /\ executor \in {"none", "open"}
    /\ pc \in [Runs -> {"idle", "resetCancel", "resetPause", "gate", "check",
                        "ensure", "take", "submit", "collect", "drain",
                        "return", "raise", "returned", "raised"}]
    /\ layer \in [Runs -> 1 .. Len(Groups) + 1]
    /\ idx \in [Runs -> Nat \ {0}]
    /\ pool \in [Runs -> {"none", "open", "shut"}]
    /\ node \in [Runs -> [Nodes -> {"new", "queued", "running", "ok", "failed"}]]
    /\ results \in [Runs -> SUBSET Nodes]
    /\ outputs \in [Runs -> SUBSET Nodes]
    /\ step \in [Runs -> Int]
    /\ stopAt \in [Runs -> 0 .. Len(Groups)]
    /\ \A r \in Runs : InLayer(r) => layer[r] <= Len(Groups)

\* A run that is under way has claimed the pipeline.
ClaimOK == \A r \in Runs : Active(r) => running

Base == Shape /\ ClaimOK /\ OneRun

-----------------------------------------------------------------------------
(* What the layers are *)

LEMMA GroupType ==
  /\ Len(Groups) \in Nat
  /\ DOMAIN Groups = 1 .. Len(Groups)
  /\ \A g \in 1 .. Len(Groups) :
        /\ Groups[g] \in Seq(Nodes)
        /\ Len(Groups[g]) \in Nat
        /\ DOMAIN Groups[g] = 1 .. Len(Groups[g])
        /\ \A i \in 1 .. Len(Groups[g]) : Groups[g][i] \in Nodes
        /\ \A n : n \in Range(Groups[g]) <=> \E i \in 1 .. Len(Groups[g]) : n = Groups[g][i]
  BY GraphAssumption DEF Range

\* Places given by two pairs of numbers, as the assumption speaks of them.
LEMMA Places ==
  ASSUME NEW g \in 1 .. Len(Groups), NEW h \in 1 .. Len(Groups),
         NEW i \in 1 .. Len(Groups[g]), NEW j \in 1 .. Len(Groups[h])
  PROVE  /\ Groups[g][i] = Groups[h][j] => g = h /\ i = j
         /\ Groups[g][i] \in Deps[Groups[h][j]] => g < h
<1>1. g \in DOMAIN Groups /\ h \in DOMAIN Groups
  BY GroupType
<1>2. i \in DOMAIN Groups[g] /\ j \in DOMAIN Groups[h]
  BY GroupType
<1> QED
  BY <1>1, <1>2, LayersAssumption, Zenon DEF Layering

\* No node has two places.
LEMMA OtherPlace ==
  ASSUME NEW g \in 1 .. Len(Groups), NEW h \in 1 .. Len(Groups),
         NEW i \in 1 .. Len(Groups[g]), NEW j \in 1 .. Len(Groups[h]),
         ~(h = g /\ j = i)
  PROVE  Groups[h][j] # Groups[g][i]
  BY Places

\* The dependencies of a node are in the groups before its own.
LEMMA DepsEarlier ==
  ASSUME NEW g \in 1 .. Len(Groups), NEW i \in 1 .. Len(Groups[g]),
         NEW m \in Deps[Groups[g][i]]
  PROVE  \E h \in 1 .. Len(Groups) : \E j \in 1 .. Len(Groups[h]) : h < g /\ m = Groups[h][j]
<1>1. Groups[g][i] \in Nodes
  BY GroupType
<1>2. m \in Nodes
  BY <1>1, GraphAssumption
<1>3. PICK h \in 1 .. Len(Groups) : m \in Range(Groups[h])
  BY <1>2, LayersAssumption, GroupType DEF Layering
<1>4. PICK j \in 1 .. Len(Groups[h]) : m = Groups[h][j]
  BY <1>3, GroupType
<1>5. h < g
  BY <1>4, Places
<1> QED
  BY <1>4, <1>5

LEMMA CurrentType ==
  ASSUME Shape, NEW r \in Runs, InLayer(r)
  PROVE  /\ layer[r] \in 1 .. Len(Groups)
         /\ Group(r) = Groups[layer[r]]
         /\ Len(Group(r)) \in Nat
         /\ idx[r] <= Len(Group(r)) => Current(r) = Groups[layer[r]][idx[r]] /\ Current(r) \in Nodes
  BY GroupType DEF Shape, Group, Current

-----------------------------------------------------------------------------
(* Types, and one run at a time *)

LEMMA BaseInit == Init => Base
<1> SUFFICES ASSUME Init PROVE Base
  OBVIOUS
<1>1. Shape
  <2>1. stopAt \in [Runs -> 0 .. Len(Groups)] /\ layer \in [Runs -> 1 .. Len(Groups) + 1]
    BY GroupType DEF Init, Unlimited
  <2>2. {cancelled, paused, running} \subseteq BOOLEAN
    BY DEF Init
  <2> QED
    BY <2>1, <2>2 DEF Init, Shape, InLayer
<1>2. ClaimOK /\ OneRun
  BY DEF Init, ClaimOK, OneRun, Active
<1> QED
  BY <1>1, <1>2 DEF Base

\* Recording outputs keeps the types.
LEMMA RecordType ==
  ASSUME Shape, NEW r \in Runs, NEW S \in SUBSET Nodes, Cardinality(S) \in Int, Record(r, S)
  PROVE  /\ results' \in [Runs -> SUBSET Nodes]
         /\ outputs' \in [Runs -> SUBSET Nodes]
         /\ step' \in [Runs -> Int]
  BY DEF Shape, Record

LEMMA SubsetCount == \A S \in SUBSET Nodes : IsFiniteSet(S) /\ Cardinality(S) \in Nat
  BY GraphAssumption, FS_Subset, FS_CardinalityType

LEMMA BaseStep == Base /\ [Next]_vars => Base'
<1> SUFFICES ASSUME Base, [Next]_vars PROVE Base'
  OBVIOUS
<1> USE DEF Base, control, books, Goto, ClaimOK, OneRun, Active
<1>1. ASSUME NEW r \in Runs, Claim(r) PROVE Base'
  BY <1>1 DEF Claim, Shape, InLayer
<1>2. ASSUME NEW r \in Runs, ResetCancel(r) PROVE Base'
  BY <1>2 DEF ResetCancel, Shape, InLayer
<1>3. ASSUME NEW r \in Runs, ResetPause(r) PROVE Base'
  BY <1>3 DEF ResetPause, Shape, InLayer
<1>4. ASSUME NEW r \in Runs, LastLayerDone(r) PROVE Base'
  BY <1>4 DEF LastLayerDone, Shape, InLayer
<1>5. ASSUME NEW r \in Runs, LeavePause(r) PROVE Base'
  BY <1>5 DEF LeavePause, Shape, InLayer
<1>6. ASSUME NEW r \in Runs, CheckCancel(r) PROVE Base'
  BY <1>6 DEF CheckCancel, Shape, InLayer
<1>7. ASSUME NEW r \in Runs, EnsureExecutor(r) PROVE Base'
  BY <1>7 DEF EnsureExecutor, Shape, InLayer
<1>8. ASSUME NEW r \in Runs, TakePool(r) PROVE Base'
  BY <1>8 DEF TakePool, Shape, InLayer
<1>9. ASSUME NEW r \in Runs, Submit(r) PROVE Base'
  <2>1. Current(r) \in Nodes
    BY <1>9, CurrentType DEF Submit, InLayer
  <2> QED
    BY <1>9, <2>1 DEF Submit, Shape, InLayer
<1>10. ASSUME NEW r \in Runs, SubmitRaises(r) PROVE Base'
  BY <1>10 DEF SubmitRaises, Shape, InLayer
<1>11. ASSUME NEW r \in Runs, AllSubmitted(r) PROVE Base'
  BY <1>11 DEF AllSubmitted, Shape, InLayer
<1>12. ASSUME NEW r \in Runs, Collect(r) PROVE Base'
  <2>1. {Current(r)} \in SUBSET Nodes
    BY <1>12, CurrentType DEF Collect, InLayer
  <2>2. /\ results' \in [Runs -> SUBSET Nodes]
        /\ outputs' \in [Runs -> SUBSET Nodes]
        /\ step' \in [Runs -> Int]
    BY <1>12, <2>1, SubsetCount, RecordType DEF Collect
  <2>3. idx' \in [Runs -> Nat \ {0}]
    BY <1>12 DEF Collect, Shape
  <2>4. Shape'
    BY <1>12, <2>2, <2>3 DEF Collect, Shape, InLayer
  <2> QED
    BY <1>12, <2>4 DEF Collect
<1>13. ASSUME NEW r \in Runs, CollectFailure(r) PROVE Base'
  BY <1>13 DEF CollectFailure, Shape, InLayer
<1>14. ASSUME NEW r \in Runs, Drain(r) PROVE Base'
  <2> DEFINE S == {n \in Range(Group(r)) : node[r][n] = "ok" /\ n \notin results[r]}
  <2>1. S \in SUBSET Nodes
    BY <1>14, CurrentType, GroupType DEF Drain, InLayer
  <2>2. Record(r, S)
    BY <1>14 DEF Drain
  <2> HIDE DEF S
  <2>3. /\ results' \in [Runs -> SUBSET Nodes]
        /\ outputs' \in [Runs -> SUBSET Nodes]
        /\ step' \in [Runs -> Int]
    BY <2>1, <2>2, SubsetCount, RecordType
  <2> QED
    BY <1>14, <2>3 DEF Drain, Shape, InLayer
<1>15. ASSUME NEW r \in Runs, NextLayer(r) PROVE Base'
  <2>1. pc[r] = "collect" /\ layer[r] \in 1 .. Len(Groups) /\ Len(Groups) \in Nat
    BY <1>15, CurrentType, GroupType DEF NextLayer, InLayer
  <2>2. layer' \in [Runs -> 1 .. Len(Groups) + 1]
    BY <1>15, <2>1 DEF NextLayer, Shape
  <2> QED
    BY <1>15, <2>1, <2>2 DEF NextLayer, Shape, InLayer
<1>16. ASSUME NEW r \in Runs, CallbackFails(r) PROVE Base'
  BY <1>16 DEF CallbackFails, Shape, InLayer
<1>17. ASSUME NEW r \in Runs, CallbackFailsInDrain(r) PROVE Base'
  <2>1. PICK i \in DOMAIN Group(r) :
          Record(r, {n \in {Group(r)[j] : j \in 1 .. i} :
                        node[r][n] = "ok" /\ n \notin results[r]})
    BY <1>17 DEF CallbackFailsInDrain
  <2> DEFINE S == {n \in {Group(r)[j] : j \in 1 .. i} :
                      node[r][n] = "ok" /\ n \notin results[r]}
  <2>2. S \in SUBSET Nodes
    BY <1>17, CurrentType, GroupType DEF CallbackFailsInDrain, InLayer
  <2> HIDE DEF S
  <2>3. /\ results' \in [Runs -> SUBSET Nodes]
        /\ outputs' \in [Runs -> SUBSET Nodes]
        /\ step' \in [Runs -> Int]
    BY <2>1, <2>2, SubsetCount, RecordType DEF S
  <2> QED
    BY <1>17, <2>3 DEF CallbackFailsInDrain, Shape, InLayer
<1>18. ASSUME NEW r \in Runs, Finish(r) PROVE Base'
  BY <1>18 DEF Finish, Shape, InLayer
<1>19. ASSUME NEW r \in Runs, NEW n \in Nodes, NodeStep(r, n) PROVE Base'
  <2>1. node' \in [Runs -> [Nodes -> {"new", "queued", "running", "ok", "failed"}]]
    <3>1. CASE StartNode(r, n)
      BY <3>1 DEF StartNode, Shape
    <3>2. ASSUME NEW how \in {"ok", "failed"}, EndNode(r, n, how)
          PROVE  node' \in [Runs -> [Nodes -> {"new", "queued", "running", "ok", "failed"}]]
      BY <3>2 DEF EndNode, Shape
    <3> QED
      BY <1>19, <3>1, <3>2 DEF NodeStep
  <2>2. UNCHANGED <<control, running, executor, pc, layer, idx, pool, books, stopAt>>
    BY <1>19 DEF NodeStep, StartNode, EndNode
  <2>3. Shape'
    BY <2>1, <2>2 DEF Shape, InLayer
  <2> QED
    BY <2>2, <2>3
<1>20. CASE Cancel
  BY <1>20, GroupType DEF Cancel, Lower, LastAllowed, Shape, InLayer
<1>21. CASE Pause \/ Resume
  <2>1. /\ paused' \in BOOLEAN
        /\ UNCHANGED <<cancelled, running, executor, pc, layer, idx, pool, node, books, stopAt>>
    BY <1>21 DEF Pause, Resume
  <2>2. Shape'
    BY <2>1 DEF Shape, InLayer
  <2> QED
    BY <2>1, <2>2
<1>22. CASE Close
  BY <1>22 DEF Close, Shape, InLayer
<1>23. CASE UNCHANGED vars
  BY <1>23 DEF vars, Shape, InLayer
<1> QED
  BY <1>1, <1>2, <1>3, <1>4, <1>5, <1>6, <1>7, <1>8, <1>9, <1>10, <1>11, <1>12, <1>13,
     <1>14, <1>15, <1>16, <1>17, <1>18, <1>19, <1>20, <1>21, <1>22, <1>23
     DEF Next, RunStep

\* Two calls of run() never execute at the same time.
THEOREM RunsExclude == Spec => []OneRun
<1>1. Base => OneRun
  BY DEF Base
<1> QED
  BY BaseInit, BaseStep, <1>1, PTL DEF Spec

-----------------------------------------------------------------------------
(* The inputs of a node are there before it starts *)

\* the layers behind a run are in the context, and so are the results of its
\* own layer that it has collected
Behind(r) == \A h \in 1 .. Len(Groups) : h < layer[r] =>
                 \A j \in 1 .. Len(Groups[h]) : Groups[h][j] \in outputs[r]
SoFar(r)  == pc[r] = "collect" =>
                 \A j \in 1 .. Len(Groups[layer[r]]) : j < idx[r] =>
                     Groups[layer[r]][j] \in outputs[r]

Inputs == InputsReady /\ \A r \in Runs : Behind(r) /\ SoFar(r)

LEMMA InputsInit == Init => Inputs
<1> SUFFICES ASSUME Init PROVE Inputs
  OBVIOUS
<1>1. InputsReady
  BY DEF Init, InputsReady
<1>2. ASSUME NEW r \in Runs PROVE Behind(r) /\ SoFar(r)
  BY DEF Init, Behind, SoFar
<1> QED
  BY <1>1, <1>2 DEF Inputs

\* A step that does not submit, collect or leave a layer keeps them.
LEMMA InputsKept ==
  ASSUME Inputs, UNCHANGED layer,
         \A q \in Runs, n \in Nodes : node'[q][n] = "new" \/ node[q][n] # "new",
         node \in [Runs -> [Nodes -> {"new", "queued", "running", "ok", "failed"}]],
         \A q \in Runs : outputs[q] \subseteq outputs'[q],
         \A q \in Runs : pc'[q] = "collect" => pc[q] = "collect" /\ idx'[q] = idx[q]
  PROVE  Inputs'
<1>1. InputsReady'
  <2> SUFFICES ASSUME NEW q \in Runs, NEW n \in Nodes,
                      node'[q][n] \in {"queued", "running", "ok", "failed"}
               PROVE  Deps[n] \subseteq outputs'[q]
    BY DEF InputsReady
  <2>1. node[q][n] \in {"queued", "running", "ok", "failed"}
    OBVIOUS
  <2> QED
    BY <2>1 DEF Inputs, InputsReady
<1>2. ASSUME NEW q \in Runs PROVE (Behind(q) /\ SoFar(q))'
  BY DEF Inputs, Behind, SoFar
<1> QED
  BY <1>1, <1>2 DEF Inputs

\* Recording only adds outputs.
LEMMA RecordAdds ==
  ASSUME Shape, NEW r \in Runs, NEW S, Record(r, S)
  PROVE  /\ \A q \in Runs : outputs[q] \subseteq outputs'[q]
         /\ S \subseteq outputs'[r]
  BY DEF Shape, Record

LEMMA InputsStep == Base /\ Inputs /\ [Next]_vars => Inputs'
<1> SUFFICES ASSUME Base, Inputs, [Next]_vars PROVE Inputs'
  OBVIOUS
<1> USE DEF control, books, Goto
<1>0. Shape
  BY DEF Base
<1>1. ASSUME NEW r \in Runs,
             \/ Claim(r) \/ ResetCancel(r) \/ ResetPause(r) \/ LastLayerDone(r)
             \/ LeavePause(r) \/ CheckCancel(r) \/ EnsureExecutor(r) \/ TakePool(r)
      PROVE  Inputs'
  <2>1. /\ UNCHANGED <<layer, node, outputs>>
        /\ \A q \in Runs : pc'[q] = "collect" => pc[q] = "collect" /\ idx'[q] = idx[q]
    BY <1>0, <1>1 DEF Shape, Claim, ResetCancel, ResetPause, LastLayerDone, LeavePause,
                      CheckCancel, EnsureExecutor, TakePool
  <2> QED
    BY <1>0, <2>1, InputsKept DEF Shape
<1>2. ASSUME NEW r \in Runs, Submit(r) PROVE Inputs'
  <2>1. /\ layer[r] \in 1 .. Len(Groups) /\ Group(r) = Groups[layer[r]]
        /\ idx[r] \in 1 .. Len(Groups[layer[r]])
        /\ Current(r) = Groups[layer[r]][idx[r]]
    BY <1>0, <1>2, CurrentType DEF Submit, InLayer, Shape
  <2>2. Deps[Current(r)] \subseteq outputs[r]
    <3> SUFFICES ASSUME NEW m \in Deps[Current(r)] PROVE m \in outputs[r]
      OBVIOUS
    <3>1. m \in Deps[Groups[layer[r]][idx[r]]]
      BY <2>1
    <3>2. PICK h \in 1 .. Len(Groups) :
            \E j \in 1 .. Len(Groups[h]) : h < layer[r] /\ m = Groups[h][j]
      BY <2>1, <3>1, DepsEarlier
    <3> QED
      BY <3>2 DEF Inputs, Behind
  <2>3. InputsReady'
    <3> SUFFICES ASSUME NEW q \in Runs, NEW n \in Nodes,
                        node'[q][n] \in {"queued", "running", "ok", "failed"}
                 PROVE  Deps[n] \subseteq outputs'[q]
      BY DEF InputsReady
    <3>1. CASE q = r /\ n = Current(r)
      BY <1>2, <2>2, <3>1 DEF Submit
    <3>2. CASE ~(q = r /\ n = Current(r))
      <4>1. node'[q][n] = node[q][n] /\ UNCHANGED outputs
        BY <1>0, <1>2, <3>2 DEF Submit, Shape
      <4> QED
        BY <4>1 DEF Inputs, InputsReady
    <3> QED
      BY <3>1, <3>2
  <2>4. ASSUME NEW q \in Runs PROVE (Behind(q) /\ SoFar(q))'
    <3>1. UNCHANGED <<layer, outputs, pc>> /\ (pc[q] = "collect" => idx'[q] = idx[q])
      BY <1>0, <1>2 DEF Submit, Shape
    <3> QED
      BY <3>1 DEF Inputs, Behind, SoFar
  <2> QED
    BY <2>3, <2>4 DEF Inputs
<1>3. ASSUME NEW r \in Runs, AllSubmitted(r) PROVE Inputs'
  <2>1. /\ UNCHANGED <<layer, node, outputs>>
        /\ \A q \in Runs \ {r} : pc'[q] = pc[q] /\ idx'[q] = idx[q]
        /\ idx'[r] = 1
    BY <1>0, <1>3 DEF AllSubmitted, Shape
  <2>2. ASSUME NEW q \in Runs PROVE (Behind(q) /\ SoFar(q))'
    BY <2>1 DEF Inputs, Behind, SoFar
  <2> QED
    BY <2>1, <2>2 DEF Inputs, InputsReady
<1>4. ASSUME NEW r \in Runs, Collect(r) PROVE Inputs'
  <2>1. /\ layer[r] \in 1 .. Len(Groups) /\ Group(r) = Groups[layer[r]]
        /\ idx[r] \in 1 .. Len(Groups[layer[r]])
        /\ Current(r) = Groups[layer[r]][idx[r]]
    BY <1>0, <1>4, CurrentType DEF Collect, InLayer, Shape
  <2>2. /\ \A q \in Runs : outputs[q] \subseteq outputs'[q]
        /\ Current(r) \in outputs'[r]
    BY <1>0, <1>4, RecordAdds DEF Collect
  <2>3. /\ UNCHANGED <<layer, node, pc>>
        /\ \A q \in Runs \ {r} : idx'[q] = idx[q]
        /\ idx'[r] = idx[r] + 1
    BY <1>0, <1>4 DEF Collect, Shape
  <2>4. ASSUME NEW q \in Runs PROVE (Behind(q) /\ SoFar(q))'
    <3>1. Behind(q)'
      BY <2>2, <2>3 DEF Inputs, Behind
    <3>2. CASE q = r
      <4> SUFFICES ASSUME NEW j \in 1 .. Len(Groups[layer[r]]), j < idx[r] + 1
                   PROVE  Groups[layer[r]][j] \in outputs'[r]
        BY <2>3, <3>1, <3>2 DEF SoFar
      <4>1. j < idx[r] \/ j = idx[r]
        BY <2>1
      <4> QED
        BY <1>4, <2>1, <2>2, <4>1 DEF Inputs, SoFar, Collect
    <3>3. CASE q # r
      BY <2>2, <2>3, <3>1, <3>3 DEF Inputs, SoFar
    <3> QED
      BY <3>2, <3>3
  <2>5. InputsReady'
    BY <2>2, <2>3 DEF Inputs, InputsReady
  <2> QED
    BY <2>4, <2>5 DEF Inputs
<1>5. ASSUME NEW r \in Runs, NextLayer(r) PROVE Inputs'
  <2>1. /\ layer[r] \in 1 .. Len(Groups) /\ Group(r) = Groups[layer[r]]
        /\ Len(Groups[layer[r]]) \in Nat /\ idx[r] > Len(Groups[layer[r]])
        /\ idx[r] \in Nat
    BY <1>0, <1>5, CurrentType DEF NextLayer, InLayer, Shape
  <2>2. /\ UNCHANGED <<node, outputs, idx>>
        /\ \A q \in Runs \ {r} : layer'[q] = layer[q] /\ pc'[q] = pc[q]
        /\ layer'[r] = layer[r] + 1 /\ pc'[r] = "gate"
    BY <1>0, <1>5 DEF NextLayer, Shape
  <2>3. Behind(r)'
    <3> SUFFICES ASSUME NEW h \in 1 .. Len(Groups), h < layer[r] + 1,
                        NEW j \in 1 .. Len(Groups[h])
                 PROVE  Groups[h][j] \in outputs[r]
      BY <2>2 DEF Behind
    <3>1. CASE h < layer[r]
      BY <3>1 DEF Inputs, Behind
    <3>2. CASE h = layer[r]
      BY <1>5, <2>1, <3>2 DEF Inputs, SoFar, NextLayer
    <3> QED
      BY <2>1, <3>1, <3>2
  <2>4. ASSUME NEW q \in Runs PROVE (Behind(q) /\ SoFar(q))'
    <3>1. CASE q = r
      BY <2>2, <2>3, <3>1 DEF SoFar
    <3>2. CASE q # r
      BY <2>2, <3>2 DEF Inputs, Behind, SoFar
    <3> QED
      BY <3>1, <3>2
  <2> QED
    BY <2>2, <2>4 DEF Inputs, InputsReady
<1>6. ASSUME NEW r \in Runs,
             SubmitRaises(r) \/ CollectFailure(r) \/ CallbackFails(r) \/ Finish(r)
      PROVE  Inputs'
  <2>1. /\ UNCHANGED <<layer, node, outputs>>
        /\ \A q \in Runs : pc'[q] = "collect" => pc[q] = "collect" /\ idx'[q] = idx[q]
    BY <1>0, <1>6 DEF Shape, SubmitRaises, CollectFailure, CallbackFails, Finish
  <2> QED
    BY <1>0, <2>1, InputsKept DEF Shape
<1>7. ASSUME NEW r \in Runs, Drain(r) \/ CallbackFailsInDrain(r) PROVE Inputs'
  <2>1. \E S : Record(r, S)
    BY <1>7 DEF Drain, CallbackFailsInDrain
  <2>2. \A q \in Runs : outputs[q] \subseteq outputs'[q]
    BY <1>0, <2>1, RecordAdds
  <2>3. /\ UNCHANGED <<layer, node>>
        /\ \A q \in Runs : pc'[q] = "collect" => pc[q] = "collect" /\ idx'[q] = idx[q]
    BY <1>0, <1>7 DEF Shape, Drain, CallbackFailsInDrain
  <2> QED
    BY <1>0, <2>2, <2>3, InputsKept DEF Shape
<1>8. ASSUME NEW r \in Runs, NEW n \in Nodes, NodeStep(r, n) PROVE Inputs'
  <2>1. UNCHANGED <<layer, outputs, pc, idx>>
    BY <1>8 DEF NodeStep, StartNode, EndNode
  <2>2. \A q \in Runs, m \in Nodes : node'[q][m] = "new" \/ node[q][m] # "new"
    <3>1. CASE StartNode(r, n)
      BY <1>0, <3>1 DEF StartNode, Shape
    <3>2. ASSUME NEW how \in {"ok", "failed"}, EndNode(r, n, how)
          PROVE  \A q \in Runs, m \in Nodes : node'[q][m] = "new" \/ node[q][m] # "new"
      BY <1>0, <3>2 DEF EndNode, Shape
    <3> QED
      BY <1>8, <3>1, <3>2 DEF NodeStep
  <2> QED
    BY <1>0, <2>1, <2>2, InputsKept DEF Shape
<1>9. CASE Cancel \/ Pause \/ Resume \/ Close \/ UNCHANGED vars
  <2>1. UNCHANGED <<layer, node, outputs, pc, idx>>
    BY <1>9 DEF Cancel, Pause, Resume, Close, vars
  <2> QED
    BY <1>0, <2>1, InputsKept DEF Shape
<1> QED
  BY <1>1, <1>2, <1>3, <1>4, <1>5, <1>6, <1>7, <1>8, <1>9 DEF Next, RunStep

\* Whatever the graph, the failures and the run control, a node executes only
\* when the outputs of all its dependencies are in the context.
THEOREM InputsComeFirst == Spec => []InputsReady
<1>1. Inputs => InputsReady
  BY DEF Inputs
<1> QED
  BY BaseInit, BaseStep, InputsInit, InputsStep, <1>1, PTL DEF Spec

-----------------------------------------------------------------------------
(* Every result is counted once *)

\* the results of the places a run has still to collect are not there yet
Ahead(r) ==
    \A h \in 1 .. Len(Groups) : \A j \in 1 .. Len(Groups[h]) :
        \/ h > layer[r]
        \/ h = layer[r] /\ (AtStart(r) \/ pc[r] = "submit")
        \/ h = layer[r] /\ pc[r] = "collect" /\ j >= idx[r]
        => Groups[h][j] \notin results[r]

Counted == \A r \in Runs : Ahead(r) /\ step[r] = Cardinality(results[r])

LEMMA CountedInit == Init => Counted
  BY FS_EmptySet DEF Init, Counted, Ahead

\* Recording nodes that are not among the results counts each of them.
LEMMA RecordCounts ==
  ASSUME Shape, Counted, NEW r \in Runs, NEW S \in SUBSET Nodes,
         S \cap results[r] = {}, Record(r, S)
  PROVE  \A q \in Runs : step'[q] = Cardinality(results'[q])
<1>1. results[r] \in SUBSET Nodes /\ step[r] = Cardinality(results[r])
  BY DEF Shape, Counted
<1>2. IsFiniteSet(S) /\ IsFiniteSet(results[r])
  BY <1>1, SubsetCount
<1>3. /\ Cardinality(S) \in Nat /\ Cardinality(results[r]) \in Nat
      /\ Cardinality(results[r] \cap S) = 0
  <2>1. results[r] \cap S = {}
    OBVIOUS
  <2> QED
    BY <1>1, <2>1, SubsetCount, FS_EmptySet
<1>4. Cardinality(results[r] \cup S) = Cardinality(results[r]) + Cardinality(S)
  <2>1. Cardinality(results[r] \cup S)
          = Cardinality(results[r]) + Cardinality(S) - Cardinality(results[r] \cap S)
    BY <1>2, FS_Union
  <2> QED
    BY <1>3, <2>1
<1>5. results'[r] = results[r] \cup S /\ step'[r] = step[r] + Cardinality(S)
  BY DEF Record, Shape
<1>6. \A q \in Runs \ {r} : results'[q] = results[q] /\ step'[q] = step[q]
  BY DEF Record, Shape
<1> QED
  BY <1>1, <1>4, <1>5, <1>6 DEF Counted

\* A step that records nothing keeps the count if it brings no place ahead.
LEMMA CountedKept ==
  ASSUME Counted, UNCHANGED <<results, step, layer>>,
         \A q \in Runs :
            /\ (AtStart(q) \/ pc[q] = "submit")' => AtStart(q) \/ pc[q] = "submit"
            /\ pc'[q] = "collect" => pc[q] = "submit" \/ (pc[q] = "collect" /\ idx'[q] = idx[q])
  PROVE  Counted'
  BY DEF Counted, Ahead

LEMMA CountedStep == Base /\ Counted /\ [Next]_vars => Counted'
<1> SUFFICES ASSUME Base, Counted, [Next]_vars PROVE Counted'
  OBVIOUS
<1> USE DEF control, books, Goto
<1>0. Shape
  BY DEF Base
<1>1. ASSUME NEW r \in Runs,
             \/ Claim(r) \/ ResetCancel(r) \/ ResetPause(r) \/ LastLayerDone(r)
             \/ LeavePause(r) \/ CheckCancel(r) \/ EnsureExecutor(r) \/ TakePool(r)
             \/ Submit(r) \/ AllSubmitted(r)
             \/ SubmitRaises(r) \/ CollectFailure(r) \/ CallbackFails(r) \/ Finish(r)
      PROVE  Counted'
  <2>1. /\ UNCHANGED <<results, step, layer>>
        /\ \A q \in Runs :
            /\ (AtStart(q) \/ pc[q] = "submit")' => AtStart(q) \/ pc[q] = "submit"
            /\ pc'[q] = "collect" => pc[q] = "submit" \/ (pc[q] = "collect" /\ idx'[q] = idx[q])
    BY <1>0, <1>1 DEF Shape, AtStart, Claim, ResetCancel, ResetPause, LastLayerDone, LeavePause,
                      CheckCancel, EnsureExecutor, TakePool, Submit, AllSubmitted,
                      SubmitRaises, CollectFailure, CallbackFails, Finish
  <2> QED
    BY <2>1, CountedKept
<1>2. ASSUME NEW r \in Runs, Collect(r) PROVE Counted'
  <2>1. /\ layer[r] \in 1 .. Len(Groups)
        /\ idx[r] \in 1 .. Len(Groups[layer[r]])
        /\ Current(r) = Groups[layer[r]][idx[r]] /\ Current(r) \in Nodes
    BY <1>0, <1>2, CurrentType DEF Collect, InLayer, Shape
  <2>2. pc[r] = "collect" /\ Record(r, {Current(r)})
    BY <1>2 DEF Collect
  <2>3. Current(r) \notin results[r]
    BY <2>1, <2>2 DEF Counted, Ahead
  <2>4. \A q \in Runs : step'[q] = Cardinality(results'[q])
    <3>1. {Current(r)} \in SUBSET Nodes /\ {Current(r)} \cap results[r] = {}
      BY <2>1, <2>3
    <3> QED
      BY <1>0, <2>2, <3>1, RecordCounts
  <2>5. /\ UNCHANGED <<layer, pc>>
        /\ \A q \in Runs \ {r} : idx'[q] = idx[q] /\ results'[q] = results[q]
        /\ idx'[r] = idx[r] + 1 /\ results'[r] = results[r] \cup {Current(r)}
    BY <1>0, <1>2 DEF Collect, Record, Shape
  <2>6. ASSUME NEW q \in Runs PROVE Ahead(q)'
    <3>1. CASE q = r
      <4> SUFFICES ASSUME NEW h \in 1 .. Len(Groups), NEW j \in 1 .. Len(Groups[h]),
                          h > layer[r] \/ (h = layer[r] /\ j >= idx[r] + 1)
                   PROVE  Groups[h][j] \notin results[r] \cup {Current(r)}
        BY <2>2, <2>5, <3>1 DEF Ahead, AtStart
      <4>1. Groups[h][j] # Current(r)
        <5>1. ~(h = layer[r] /\ j = idx[r])
          BY <2>1
        <5>2. Groups[h][j] # Groups[layer[r]][idx[r]]
          BY <2>1, <5>1, OtherPlace
        <5> QED
          BY <2>1, <5>2
      <4>2. Groups[h][j] \notin results[r]
        BY <2>1, <2>2 DEF Counted, Ahead
      <4> QED
        BY <4>1, <4>2
    <3>2. CASE q # r
      BY <2>5, <3>2 DEF Counted, Ahead, AtStart
    <3> QED
      BY <3>1, <3>2
  <2> QED
    BY <2>4, <2>6 DEF Counted
<1>3. ASSUME NEW r \in Runs, Drain(r) \/ CallbackFailsInDrain(r) PROVE Counted'
  <2>1. PICK S \in SUBSET Range(Group(r)) :
          S \cap results[r] = {} /\ Record(r, S)
    <3>1. CASE Drain(r)
      <4> DEFINE T == {n \in Range(Group(r)) : node[r][n] = "ok" /\ n \notin results[r]}
      <4>1. Record(r, T)
        BY <3>1 DEF Drain
      <4>2. T \in SUBSET Range(Group(r)) /\ T \cap results[r] = {}
        OBVIOUS
      <4> QED
        BY <4>1, <4>2
    <3>2. CASE CallbackFailsInDrain(r)
      <4>1. PICK i \in DOMAIN Group(r) :
              Record(r, {n \in {Group(r)[j] : j \in 1 .. i} :
                            node[r][n] = "ok" /\ n \notin results[r]})
        BY <3>2 DEF CallbackFailsInDrain
      <4> DEFINE T == {n \in {Group(r)[j] : j \in 1 .. i} :
                            node[r][n] = "ok" /\ n \notin results[r]}
      <4>2. Group(r) = Groups[layer[r]] /\ layer[r] \in 1 .. Len(Groups)
        BY <1>0, <3>2, CurrentType DEF CallbackFailsInDrain, InLayer
      <4>3. T \in SUBSET Range(Group(r)) /\ T \cap results[r] = {}
        BY <4>2, GroupType
      <4> HIDE DEF T
      <4> QED
        BY <4>1, <4>3 DEF T
    <3> QED
      BY <1>3, <3>1, <3>2
  <2>2. pc[r] = "drain" /\ layer[r] \in 1 .. Len(Groups) /\ Group(r) = Groups[layer[r]]
    BY <1>0, <1>3, CurrentType DEF Drain, CallbackFailsInDrain, InLayer
  <2>3. S \in SUBSET Nodes
    BY <2>1, <2>2, GroupType
  <2>4. \A q \in Runs : step'[q] = Cardinality(results'[q])
    BY <1>0, <2>1, <2>3, RecordCounts
  <2>5. /\ UNCHANGED <<layer, idx>>
        /\ \A q \in Runs \ {r} : pc'[q] = pc[q] /\ results'[q] = results[q]
        /\ pc'[r] = "raise" /\ results'[r] = results[r] \cup S
    BY <1>0, <1>3, <2>1 DEF Drain, CallbackFailsInDrain, Record, Shape
  <2>6. ASSUME NEW q \in Runs PROVE Ahead(q)'
    <3>1. CASE q = r
      <4> SUFFICES ASSUME NEW h \in 1 .. Len(Groups), NEW j \in 1 .. Len(Groups[h]), h > layer[r]
                   PROVE  Groups[h][j] \notin results[r] \cup S
        BY <2>5, <3>1 DEF Ahead, AtStart
      <4>1. Groups[h][j] \notin S
        <5> SUFFICES ASSUME Groups[h][j] \in S PROVE FALSE
          OBVIOUS
        <5>1. PICK i \in 1 .. Len(Groups[layer[r]]) : Groups[h][j] = Groups[layer[r]][i]
          BY <2>1, <2>2, GroupType
        <5>2. h = layer[r]
          BY <2>2, <5>1, OtherPlace
        <5> QED
          BY <2>2, <5>2
      <4>2. Groups[h][j] \notin results[r]
        BY DEF Counted, Ahead
      <4> QED
        BY <4>1, <4>2
    <3>2. CASE q # r
      BY <2>5, <3>2 DEF Counted, Ahead, AtStart
    <3> QED
      BY <3>1, <3>2
  <2> QED
    BY <2>4, <2>6 DEF Counted
<1>4. ASSUME NEW r \in Runs, NextLayer(r) PROVE Counted'
  <2>1. /\ UNCHANGED <<results, step, idx>>
        /\ \A q \in Runs \ {r} : pc'[q] = pc[q] /\ layer'[q] = layer[q]
        /\ pc'[r] = "gate" /\ layer'[r] = layer[r] + 1 /\ layer[r] \in Nat
    BY <1>0, <1>4, GroupType DEF NextLayer, Shape
  <2>2. ASSUME NEW q \in Runs PROVE Ahead(q)'
    <3>1. CASE q = r
      BY <2>1, <3>1 DEF Counted, Ahead
    <3>2. CASE q # r
      BY <2>1, <3>2 DEF Counted, Ahead, AtStart
    <3> QED
      BY <3>1, <3>2
  <2> QED
    BY <2>1, <2>2 DEF Counted
<1>5. ASSUME NEW r \in Runs, NEW n \in Nodes, NodeStep(r, n) PROVE Counted'
  <2>1. UNCHANGED <<results, step, layer, pc, idx>>
    BY <1>5 DEF NodeStep, StartNode, EndNode
  <2> QED
    BY <2>1, CountedKept DEF AtStart
<1>6. CASE Cancel \/ Pause \/ Resume \/ Close \/ UNCHANGED vars
  <2>1. UNCHANGED <<results, step, layer, pc, idx>>
    BY <1>6 DEF Cancel, Pause, Resume, Close, vars
  <2> QED
    BY <2>1, CountedKept DEF AtStart
<1> QED
  BY <1>1, <1>2, <1>3, <1>4, <1>5, <1>6 DEF Next, RunStep

\* The progress counter is the number of collected results, whichever way a
\* layer ends.
THEOREM ResultsCountOnce == Spec => []StepCountsResults
<1>1. Counted => StepCountsResults
  BY DEF Counted, StepCountsResults
<1> QED
  BY BaseInit, BaseStep, CountedInit, CountedStep, <1>1, PTL DEF Spec

\* Every state has the type of its variables, and the counter never exceeds
\* the number of nodes.
THEOREM TypeCorrect == Spec => []TypeOK
<1>1. Base /\ Counted => TypeOK
  <2> SUFFICES ASSUME Base, Counted PROVE TypeOK
    OBVIOUS
  <2>1. ASSUME NEW r \in Runs PROVE step[r] \in 0 .. Cardinality(Nodes)
    <3>1. results[r] \in SUBSET Nodes /\ step[r] = Cardinality(results[r])
      BY DEF Base, Shape, Counted
    <3>2. Cardinality(results[r]) <= Cardinality(Nodes)
      BY <3>1, GraphAssumption, FS_Subset
    <3>3. Cardinality(results[r]) \in Nat /\ Cardinality(Nodes) \in Nat
      BY <3>1, SubsetCount
    <3> QED
      BY <3>1, <3>2, <3>3
  <2>2. step \in [Runs -> 0 .. Cardinality(Nodes)]
    BY <2>1 DEF Base, Shape
  <2> QED
    BY <2>2 DEF Base, Shape, TypeOK
<1> QED
  BY BaseInit, BaseStep, CountedInit, CountedStep, <1>1, PTL DEF Spec

-----------------------------------------------------------------------------
(* What has not been submitted is new, what is recorded has succeeded *)

Untouched(r) ==
    \A h \in 1 .. Len(Groups) : \A j \in 1 .. Len(Groups[h]) :
        \/ h > layer[r]
        \/ h = layer[r] /\ AtStart(r)
        \/ h = layer[r] /\ pc[r] = "submit" /\ j >= idx[r]
        => node[r][Groups[h][j]] = "new"
Recorded(r) ==
    /\ results[r] = outputs[r]
    /\ \A n \in outputs[r] : node[r][n] = "ok"

Fresh == \A r \in Runs : Untouched(r) /\ Recorded(r)

LEMMA FreshInit == Init => Fresh
<1> SUFFICES ASSUME Init, NEW r \in Runs PROVE Untouched(r) /\ Recorded(r)
  BY DEF Fresh
<1>1. ASSUME NEW h \in 1 .. Len(Groups), NEW j \in 1 .. Len(Groups[h])
      PROVE  node[r][Groups[h][j]] = "new"
  BY GroupType DEF Init
<1> QED
  BY <1>1 DEF Init, Untouched, Recorded

LEMMA FreshKept ==
  ASSUME Fresh, UNCHANGED <<node, results, outputs, layer>>,
         \A q \in Runs :
            /\ AtStart(q)' => AtStart(q)
            /\ pc'[q] = "submit" => AtStart(q) \/ (pc[q] = "submit" /\ idx'[q] = idx[q])
  PROVE  Fresh'
  BY DEF Fresh, Untouched, Recorded

\* Recording results of nodes that succeeded.
LEMMA FreshRecord ==
  ASSUME Shape, Fresh, NEW r \in Runs, NEW S, Record(r, S),
         \A n \in S : node[r][n] = "ok",
         UNCHANGED <<node, layer>>, pc[r] \in {"collect", "drain"},
         \A q \in Runs \ {r} : pc'[q] = pc[q] /\ idx'[q] = idx[q],
         pc'[r] \in {"collect", "raise"}
  PROVE  Fresh'
<1>1. /\ results'[r] = results[r] \cup S /\ outputs'[r] = outputs[r] \cup S
      /\ \A q \in Runs \ {r} : results'[q] = results[q] /\ outputs'[q] = outputs[q]
  BY DEF Record, Shape
<1>2. ASSUME NEW q \in Runs PROVE Recorded(q)'
  <2>1. CASE q = r
    <3>1. results'[r] = outputs'[r]
      BY <1>1 DEF Fresh, Recorded
    <3>2. \A n \in outputs'[r] : node[r][n] = "ok"
      BY <1>1 DEF Fresh, Recorded
    <3> QED
      BY <2>1, <3>1, <3>2 DEF Recorded
  <2>2. CASE q # r
    BY <1>1, <2>2 DEF Fresh, Recorded
  <2> QED
    BY <2>1, <2>2
<1>3. ASSUME NEW q \in Runs PROVE Untouched(q)'
  <2>1. CASE q = r
    BY <2>1 DEF Fresh, Untouched, AtStart
  <2>2. CASE q # r
    BY <2>2 DEF Fresh, Untouched, AtStart
  <2> QED
    BY <2>1, <2>2
<1> QED
  BY <1>2, <1>3 DEF Fresh

LEMMA FreshStep == Base /\ Fresh /\ [Next]_vars => Fresh'
<1> SUFFICES ASSUME Base, Fresh, [Next]_vars PROVE Fresh'
  OBVIOUS
<1> USE DEF control, books, Goto
<1>0. Shape
  BY DEF Base
<1>1. ASSUME NEW r \in Runs,
             \/ Claim(r) \/ ResetCancel(r) \/ ResetPause(r) \/ LastLayerDone(r)
             \/ LeavePause(r) \/ CheckCancel(r) \/ EnsureExecutor(r) \/ TakePool(r)
             \/ AllSubmitted(r) \/ SubmitRaises(r) \/ CollectFailure(r)
             \/ CallbackFails(r) \/ Finish(r)
      PROVE  Fresh'
  <2>1. /\ UNCHANGED <<node, results, outputs, layer>>
        /\ \A q \in Runs :
            /\ AtStart(q)' => AtStart(q)
            /\ pc'[q] = "submit" => AtStart(q) \/ (pc[q] = "submit" /\ idx'[q] = idx[q])
    BY <1>0, <1>1 DEF Shape, AtStart, Claim, ResetCancel, ResetPause, LastLayerDone, LeavePause,
                      CheckCancel, EnsureExecutor, TakePool, AllSubmitted,
                      SubmitRaises, CollectFailure, CallbackFails, Finish
  <2> QED
    BY <2>1, FreshKept
<1>2. ASSUME NEW r \in Runs, Submit(r) PROVE Fresh'
  <2>1. /\ layer[r] \in 1 .. Len(Groups)
        /\ idx[r] \in 1 .. Len(Groups[layer[r]])
        /\ Current(r) = Groups[layer[r]][idx[r]] /\ Current(r) \in Nodes
        /\ pc[r] = "submit"
    BY <1>0, <1>2, CurrentType DEF Submit, InLayer, Shape
  <2>2. node[r][Current(r)] = "new"
    BY <2>1 DEF Fresh, Untouched
  <2>3. /\ UNCHANGED <<layer, pc, results, outputs>>
        /\ \A q \in Runs \ {r} : idx'[q] = idx[q] /\ node'[q] = node[q]
        /\ idx'[r] = idx[r] + 1
        /\ \A n \in Nodes \ {Current(r)} : node'[r][n] = node[r][n]
    BY <1>0, <1>2 DEF Submit, Shape
  <2>4. ASSUME NEW q \in Runs PROVE Untouched(q)'
    <3>1. CASE q = r
      <4> SUFFICES ASSUME NEW h \in 1 .. Len(Groups), NEW j \in 1 .. Len(Groups[h]),
                          h > layer[r] \/ (h = layer[r] /\ j >= idx[r] + 1)
                   PROVE  node'[r][Groups[h][j]] = "new"
        BY <2>1, <2>3, <3>1 DEF Untouched, AtStart
      <4>1. Groups[h][j] # Current(r)
        <5>1. ~(h = layer[r] /\ j = idx[r])
          BY <2>1
        <5>2. Groups[h][j] # Groups[layer[r]][idx[r]]
          BY <2>1, <5>1, OtherPlace
        <5> QED
          BY <2>1, <5>2
      <4>2. Groups[h][j] \in Nodes
        BY GroupType
      <4>3. node[r][Groups[h][j]] = "new"
        BY <2>1 DEF Fresh, Untouched
      <4> QED
        BY <2>3, <4>1, <4>2, <4>3
    <3>2. CASE q # r
      BY <2>3, <3>2 DEF Fresh, Untouched, AtStart
    <3> QED
      BY <3>1, <3>2
  <2>5. ASSUME NEW q \in Runs PROVE Recorded(q)'
    <3>1. outputs[q] \subseteq Nodes
      BY <1>0 DEF Shape
    <3> QED
      BY <2>2, <2>3, <3>1 DEF Fresh, Recorded
  <2> QED
    BY <2>4, <2>5 DEF Fresh
<1>3. ASSUME NEW r \in Runs, Collect(r) PROVE Fresh'
  <2>1. /\ Record(r, {Current(r)}) /\ node[r][Current(r)] = "ok"
        /\ UNCHANGED <<node, layer, pc>> /\ pc[r] = "collect"
        /\ \A q \in Runs \ {r} : idx'[q] = idx[q]
    BY <1>0, <1>3 DEF Collect, Shape
  <2> QED
    BY <1>0, <2>1, FreshRecord
<1>4. ASSUME NEW r \in Runs, Drain(r) \/ CallbackFailsInDrain(r) PROVE Fresh'
  <2>1. PICK S : Record(r, S) /\ \A n \in S : node[r][n] = "ok"
    <3>1. CASE Drain(r)
      <4> DEFINE T == {n \in Range(Group(r)) : node[r][n] = "ok" /\ n \notin results[r]}
      <4>1. Record(r, T)
        BY <3>1 DEF Drain
      <4>2. \A n \in T : node[r][n] = "ok"
        OBVIOUS
      <4> QED
        BY <4>1, <4>2
    <3>2. CASE CallbackFailsInDrain(r)
      <4>1. PICK i \in DOMAIN Group(r) :
              Record(r, {n \in {Group(r)[j] : j \in 1 .. i} :
                            node[r][n] = "ok" /\ n \notin results[r]})
        BY <3>2 DEF CallbackFailsInDrain
      <4> DEFINE T == {n \in {Group(r)[j] : j \in 1 .. i} :
                            node[r][n] = "ok" /\ n \notin results[r]}
      <4>2. \A n \in T : node[r][n] = "ok"
        OBVIOUS
      <4> HIDE DEF T
      <4> QED
        BY <4>1, <4>2 DEF T
    <3> QED
      BY <1>4, <3>1, <3>2
  <2>2. /\ UNCHANGED <<node, layer, idx>> /\ pc[r] = "drain" /\ pc'[r] = "raise"
        /\ \A q \in Runs \ {r} : pc'[q] = pc[q]
    BY <1>0, <1>4 DEF Drain, CallbackFailsInDrain, Shape
  <2> QED
    BY <1>0, <2>1, <2>2, FreshRecord
<1>5. ASSUME NEW r \in Runs, NextLayer(r) PROVE Fresh'
  <2>1. /\ UNCHANGED <<node, results, outputs, idx>>
        /\ \A q \in Runs \ {r} : pc'[q] = pc[q] /\ layer'[q] = layer[q]
        /\ pc'[r] = "gate" /\ layer'[r] = layer[r] + 1 /\ layer[r] \in Nat
    BY <1>0, <1>5, GroupType DEF NextLayer, Shape
  <2>2. ASSUME NEW q \in Runs PROVE Untouched(q)'
    <3>1. CASE q = r
      BY <2>1, <3>1 DEF Fresh, Untouched
    <3>2. CASE q # r
      BY <2>1, <3>2 DEF Fresh, Untouched, AtStart
    <3> QED
      BY <3>1, <3>2
  <2> QED
    BY <2>1, <2>2 DEF Fresh, Recorded
<1>6. ASSUME NEW r \in Runs, NEW n \in Nodes, NodeStep(r, n) PROVE Fresh'
  <2>1. UNCHANGED <<results, outputs, layer, pc, idx>>
    BY <1>6 DEF NodeStep, StartNode, EndNode
  <2>2. node[r][n] \in {"queued", "running"}
    BY <1>6 DEF NodeStep, StartNode, EndNode
  <2>3. \A q \in Runs, m \in Nodes : q # r \/ m # n => node'[q][m] = node[q][m]
    <3>1. CASE StartNode(r, n)
      BY <1>0, <3>1 DEF StartNode, Shape
    <3>2. ASSUME NEW how \in {"ok", "failed"}, EndNode(r, n, how)
          PROVE  \A q \in Runs, m \in Nodes : q # r \/ m # n => node'[q][m] = node[q][m]
      BY <1>0, <3>2 DEF EndNode, Shape
    <3> QED
      BY <1>6, <3>1, <3>2 DEF NodeStep
  <2>4. ASSUME NEW q \in Runs PROVE Untouched(q)'
    <3> SUFFICES ASSUME NEW h \in 1 .. Len(Groups), NEW j \in 1 .. Len(Groups[h]),
                        \/ h > layer[q]
                        \/ h = layer[q] /\ AtStart(q)
                        \/ h = layer[q] /\ pc[q] = "submit" /\ j >= idx[q]
                 PROVE  node'[q][Groups[h][j]] = "new"
      BY <2>1 DEF Untouched, AtStart
    <3>1. node[q][Groups[h][j]] = "new" /\ Groups[h][j] \in Nodes
      BY GroupType DEF Fresh, Untouched
    <3> QED
      BY <2>2, <2>3, <3>1
  <2>5. ASSUME NEW q \in Runs PROVE Recorded(q)'
    <3>1. outputs[q] \subseteq Nodes
      BY <1>0 DEF Shape
    <3> QED
      BY <2>1, <2>2, <2>3, <3>1 DEF Fresh, Recorded
  <2> QED
    BY <2>4, <2>5 DEF Fresh
<1>7. CASE Cancel \/ Pause \/ Resume \/ Close \/ UNCHANGED vars
  <2>1. UNCHANGED <<node, results, outputs, layer, pc, idx>>
    BY <1>7 DEF Cancel, Pause, Resume, Close, vars
  <2> QED
    BY <2>1, FreshKept DEF AtStart
<1> QED
  BY <1>1, <1>2, <1>3, <1>4, <1>5, <1>6, <1>7 DEF Next, RunStep

\* Every node has a place.
LEMMA PlaceOf ==
  ASSUME NEW n \in Nodes
  PROVE  \E h \in 1 .. Len(Groups) : \E j \in 1 .. Len(Groups[h]) : n = Groups[h][j]
<1>1. PICK h \in 1 .. Len(Groups) : n \in Range(Groups[h])
  BY LayersAssumption, GroupType DEF Layering
<1> QED
  BY <1>1, GroupType

-----------------------------------------------------------------------------
(* A run that is over leaves nothing behind *)

Over(r)     == pc[r] \in {"return", "raise", "returned", "raised"}
Quiet(r)    == \A n \in Nodes : /\ node[r][n] \notin {"queued", "running"}
                                /\ node[r][n] = "ok" => n \in outputs[r]
PoolOpen(r) == /\ pc[r] = "take" => executor = "open"
               /\ pc[r] = "submit" => pool[r] = "open"

Settled == \A r \in Runs : PoolOpen(r) /\ (Over(r) => Quiet(r))

LEMMA SettledInit == Init => Settled
  BY DEF Init, Settled, PoolOpen, Over

LEMMA SettledStep ==
  ASSUME ~CloseDuringRun, ~CallbackRaises, Base, Inputs, Fresh, Settled, [Next]_vars
  PROVE  Settled'
<1> USE DEF control, books, Goto
<1>0. Shape
  BY DEF Base
<1>1. ASSUME NEW r \in Runs,
             \/ Claim(r) \/ ResetCancel(r) \/ ResetPause(r) \/ LeavePause(r)
             \/ EnsureExecutor(r) \/ AllSubmitted(r) \/ CollectFailure(r) \/ NextLayer(r)
      PROVE  Settled'
  <2>1. /\ UNCHANGED <<node, outputs, pool>>
        /\ \A q \in Runs : Over(q)' => Over(q)
        /\ \A q \in Runs : pc'[q] = "take" => executor' = "open"
        /\ \A q \in Runs : pc'[q] = "submit" => pc[q] = "submit"
    BY <1>0, <1>1 DEF Shape, Settled, PoolOpen, Over, Claim, ResetCancel, ResetPause, LeavePause,
                      EnsureExecutor, AllSubmitted, CollectFailure, NextLayer
  <2> QED
    BY <2>1 DEF Settled, PoolOpen, Quiet
<1>2. ASSUME NEW r \in Runs, TakePool(r) PROVE Settled'
  <2>1. UNCHANGED <<node, outputs, executor>> /\ pool'[r] = "open"
    BY <1>0, <1>2 DEF TakePool, Shape, Settled, PoolOpen
  <2>2. pc'[r] = "submit" /\ \A q \in Runs \ {r} : pc'[q] = pc[q] /\ pool'[q] = pool[q]
    BY <1>0, <1>2 DEF TakePool, Shape
  <2> QED
    BY <2>1, <2>2 DEF Settled, PoolOpen, Over, Quiet
<1>3. ASSUME NEW r \in Runs, Submit(r) PROVE Settled'
  <2>1. /\ UNCHANGED <<outputs, executor, pool, pc>> /\ pc[r] = "submit"
        /\ \A q \in Runs \ {r} : node'[q] = node[q]
    BY <1>0, <1>3 DEF Submit, Shape
  <2> QED
    BY <2>1 DEF Settled, PoolOpen, Over, Quiet
<1>4. ASSUME NEW r \in Runs, Collect(r) PROVE Settled'
  <2>1. /\ UNCHANGED <<node, executor, pool, pc>> /\ pc[r] = "collect"
        /\ \A q \in Runs \ {r} : outputs'[q] = outputs[q]
    BY <1>0, <1>4 DEF Collect, Record, Shape
  <2> QED
    BY <2>1 DEF Settled, PoolOpen, Over, Quiet
<1>5. ASSUME NEW r \in Runs, LastLayerDone(r) \/ CheckCancel(r) \/ Finish(r) PROVE Settled'
  <2>1. /\ UNCHANGED <<node, outputs, executor, pool>>
        /\ \A q \in Runs \ {r} : pc'[q] = pc[q]
        /\ pc'[r] \notin {"take", "submit"}
    BY <1>0, <1>5 DEF LastLayerDone, CheckCancel, Finish, Shape
  <2>2. Over(r)' => Quiet(r)
    <3>1. CASE Finish(r)
      BY <3>1 DEF Finish, Settled, Over
    <3>2. CASE LastLayerDone(r)
      <4> SUFFICES ASSUME NEW n \in Nodes PROVE n \in outputs[r] /\ node[r][n] = "ok"
        BY DEF Quiet
      <4>1. PICK h \in 1 .. Len(Groups) : \E j \in 1 .. Len(Groups[h]) : n = Groups[h][j]
        BY PlaceOf
      <4>2. h < layer[r]
        BY <1>0, <3>2, <4>1, GroupType DEF LastLayerDone, Shape
      <4>3. n \in outputs[r]
        BY <4>1, <4>2 DEF Inputs, Behind
      <4> QED
        BY <4>3 DEF Fresh, Recorded
    <3>3. CASE CheckCancel(r)
      <4> SUFFICES ASSUME NEW n \in Nodes
                   PROVE  node[r][n] = "new" \/ (n \in outputs[r] /\ node[r][n] = "ok")
        BY DEF Quiet
      <4>1. PICK h \in 1 .. Len(Groups) : \E j \in 1 .. Len(Groups[h]) : n = Groups[h][j]
        BY PlaceOf
      <4>2. layer[r] \in Int /\ AtStart(r)
        BY <1>0, <3>3, GroupType DEF CheckCancel, Shape, AtStart
      <4>3. CASE h < layer[r]
        BY <4>1, <4>3 DEF Inputs, Behind, Fresh, Recorded
      <4>4. CASE h >= layer[r]
        <5>1. h > layer[r] \/ h = layer[r]
          BY <4>2, <4>4
        <5> QED
          BY <4>1, <4>2, <5>1 DEF Fresh, Untouched
      <4> QED
        BY <4>2, <4>3, <4>4
    <3> QED
      BY <1>5, <3>1, <3>2, <3>3
  <2>3. ASSUME NEW q \in Runs PROVE (PoolOpen(q) /\ (Over(q) => Quiet(q)))'
    <3>1. CASE q = r
      BY <2>1, <2>2, <3>1 DEF PoolOpen, Over, Quiet
    <3>2. CASE q # r
      BY <2>1, <3>2 DEF Settled, PoolOpen, Over, Quiet
    <3> QED
      BY <3>1, <3>2
  <2> QED
    BY <2>3 DEF Settled
<1>6. ASSUME NEW r \in Runs,
             SubmitRaises(r) \/ CallbackFails(r) \/ CallbackFailsInDrain(r)
      PROVE  FALSE
  BY <1>6 DEF SubmitRaises, CallbackFails, CallbackFailsInDrain, Settled, PoolOpen
<1>7. ASSUME NEW r \in Runs, Drain(r) PROVE Settled'
  <2> DEFINE S == {n \in Range(Group(r)) : node[r][n] = "ok" /\ n \notin results[r]}
  <2>1. /\ layer[r] \in 1 .. Len(Groups) /\ Group(r) = Groups[layer[r]]
        /\ \A n \in Range(Groups[layer[r]]) : node[r][n] \in {"ok", "failed"}
    BY <1>0, <1>7, CurrentType DEF Drain, InLayer, Done
  <2>2. outputs'[r] = outputs[r] \cup S
    BY <1>0, <1>7 DEF Drain, Record, Shape
  <2>3. /\ UNCHANGED <<node, executor, pool>> /\ pc[r] = "drain" /\ pc'[r] = "raise"
        /\ \A q \in Runs \ {r} : pc'[q] = pc[q] /\ outputs'[q] = outputs[q]
    BY <1>0, <1>7 DEF Drain, Record, Shape
  <2>4. Quiet(r)'
    <3> SUFFICES ASSUME NEW n \in Nodes
                 PROVE  /\ node[r][n] \notin {"queued", "running"}
                        /\ node[r][n] = "ok" => n \in outputs'[r]
      BY <2>3 DEF Quiet
    <3>1. PICK h \in 1 .. Len(Groups) : \E j \in 1 .. Len(Groups[h]) : n = Groups[h][j]
      BY PlaceOf
    <3>2. CASE h < layer[r]
      BY <2>2, <3>1, <3>2 DEF Inputs, Behind, Fresh, Recorded
    <3>3. CASE h = layer[r]
      <4>1. n \in Range(Groups[layer[r]])
        BY <3>1, <3>3, GroupType
      <4>2. node[r][n] = "ok" => n \in S \/ n \in results[r]
        BY <2>1, <4>1
      <4>3. results[r] = outputs[r]
        BY DEF Fresh, Recorded
      <4> QED
        BY <2>1, <2>2, <4>1, <4>2, <4>3
    <3>4. CASE h > layer[r]
      BY <3>1, <3>4 DEF Fresh, Untouched
    <3> QED
      BY <2>1, <3>2, <3>3, <3>4
  <2> HIDE DEF S
  <2>5. ASSUME NEW q \in Runs PROVE (PoolOpen(q) /\ (Over(q) => Quiet(q)))'
    <3>1. CASE q = r
      BY <2>3, <2>4, <3>1 DEF PoolOpen
    <3>2. CASE q # r
      BY <2>3, <3>2 DEF Settled, PoolOpen, Over, Quiet
    <3> QED
      BY <3>1, <3>2
  <2> QED
    BY <2>5 DEF Settled
<1>8. ASSUME NEW r \in Runs, NEW n \in Nodes, NodeStep(r, n) PROVE Settled'
  <2>1. /\ UNCHANGED <<outputs, executor, pool, pc>>
        /\ node[r][n] \in {"queued", "running"}
    BY <1>8 DEF NodeStep, StartNode, EndNode
  <2>2. \A q \in Runs \ {r} : node'[q] = node[q]
    <3>1. CASE StartNode(r, n)
      BY <1>0, <3>1 DEF StartNode, Shape
    <3>2. ASSUME NEW how \in {"ok", "failed"}, EndNode(r, n, how)
          PROVE  \A q \in Runs \ {r} : node'[q] = node[q]
      BY <1>0, <3>2 DEF EndNode, Shape
    <3> QED
      BY <1>8, <3>1, <3>2 DEF NodeStep
  <2>3. ~Over(r)
    BY <2>1 DEF Settled, Quiet
  <2> QED
    BY <2>1, <2>2, <2>3 DEF Settled, PoolOpen, Over, Quiet
<1>9. CASE Close
  <2>1. \A q \in Runs : ~Active(q)
    BY <1>9 DEF Close, Base, ClaimOK
  <2>2. \A q \in Runs : pc[q] \notin {"take", "submit"}
    BY <2>1 DEF Active
  <2>3. UNCHANGED <<pc, node, outputs>>
    BY <1>9 DEF Close
  <2> QED
    BY <2>2, <2>3 DEF Settled, PoolOpen, Over, Quiet
<1>10. CASE Cancel \/ Pause \/ Resume \/ UNCHANGED vars
  <2>1. UNCHANGED <<pc, node, outputs, executor, pool>>
    BY <1>10 DEF Cancel, Pause, Resume, vars
  <2> QED
    BY <2>1 DEF Settled, PoolOpen, Over, Quiet
<1> QED
  BY <1>1, <1>2, <1>3, <1>4, <1>5, <1>6, <1>7, <1>8, <1>9, <1>10 DEF Next, RunStep

\* If the pipeline is not closed during a run and the callback does not raise,
\* a run that is over has no node queued or executing, and the outputs of every
\* node that succeeded are in the context.
THEOREM QuietAtTheEnd ==
  ASSUME ~CloseDuringRun, ~CallbackRaises
  PROVE  Spec => []QuietAfterReturn
<1>1. Settled => QuietAfterReturn
  BY DEF Settled, Over, Quiet, QuietAfterReturn
<1>2. Base /\ Inputs /\ Fresh /\ Settled /\ [Next]_vars => Settled'
  BY SettledStep
<1> QED
  BY BaseInit, BaseStep, InputsInit, InputsStep, FreshInit, FreshStep, SettledInit, <1>1, <1>2,
     PTL DEF Spec

-----------------------------------------------------------------------------
(* A cancelled run starts no later layer *)

Stop(r) ==
    /\ pc[r] = "idle" \/ InReset(r) => stopAt[r] = Len(Groups)
    /\ Active(r) /\ stopAt[r] < Len(Groups) => cancelled
    /\ pc[r] \in {"gate", "check"} => layer[r] <= stopAt[r] + 1
    /\ pc[r] \in {"ensure", "take", "submit", "collect", "drain"} => layer[r] <= stopAt[r]
NewBeyond(r) ==
    \A h \in 1 .. Len(Groups) : h > stopAt[r] =>
        \A j \in 1 .. Len(Groups[h]) : node[r][Groups[h][j]] = "new"

Stops == \A r \in Runs : Stop(r) /\ NewBeyond(r)

LEMMA StopsInit == Init => Stops
<1> SUFFICES ASSUME Init, NEW r \in Runs PROVE Stop(r) /\ NewBeyond(r)
  BY DEF Stops
<1>1. Stop(r)
  BY DEF Init, Stop, InReset, Active, Unlimited
<1>2. NewBeyond(r)
  BY GroupType DEF Init, NewBeyond
<1> QED
  BY <1>1, <1>2

LEMMA StopsStep ==
  ASSUME ~EarlyCancel, Base, Fresh, Stops, [Next]_vars
  PROVE  Stops'
<1> USE DEF control, books, Goto
<1>0. Shape
  BY DEF Base
<1>1. ASSUME NEW r \in Runs,
             \/ Claim(r) \/ ResetPause(r) \/ LastLayerDone(r) \/ LeavePause(r)
             \/ EnsureExecutor(r) \/ TakePool(r) \/ AllSubmitted(r)
             \/ SubmitRaises(r) \/ CollectFailure(r) \/ CallbackFails(r) \/ Finish(r)
             \/ Collect(r) \/ Drain(r) \/ CallbackFailsInDrain(r)
      PROVE  Stops'
  <2>1. UNCHANGED <<node, stopAt, layer, cancelled>>
    BY <1>1 DEF Claim, ResetPause, LastLayerDone, LeavePause, EnsureExecutor, TakePool,
                AllSubmitted, SubmitRaises, CollectFailure, CallbackFails, Finish,
                Collect, Drain, CallbackFailsInDrain
  <2>2. \A q \in Runs \ {r} : pc'[q] = pc[q]
    BY <1>0, <1>1 DEF Shape, Claim, ResetPause, LastLayerDone, LeavePause, EnsureExecutor, TakePool,
                AllSubmitted, SubmitRaises, CollectFailure, CallbackFails, Finish,
                Collect, Drain, CallbackFailsInDrain
  <2>3. \/ pc[r] = "idle" /\ pc'[r] = "resetCancel"
        \/ pc[r] = "resetPause" /\ pc'[r] = "gate"
        \/ pc[r] = "gate" /\ pc'[r] = "check"
        \/ /\ pc[r] \in {"ensure", "take", "submit", "collect", "drain"}
           /\ pc'[r] \in {"take", "submit", "collect", "drain", "raise"}
        \/ Active(r) /\ pc'[r] \in {"return", "returned", "raised"}
    BY <1>0, <1>1 DEF Shape, Active, Claim, ResetPause, LastLayerDone, LeavePause, EnsureExecutor,
                TakePool, AllSubmitted, SubmitRaises, CollectFailure, CallbackFails, Finish,
                Collect, Drain, CallbackFailsInDrain
  <2>4. layer[r] \in 1 .. Len(Groups) + 1 /\ Len(Groups) \in Nat
    BY <1>0, GroupType DEF Shape
  <2>5. ASSUME NEW q \in Runs PROVE Stop(q)'
    <3>1. CASE q = r
      BY <2>1, <2>3, <2>4, <3>1 DEF Stops, Stop, InReset, Active
    <3>2. CASE q # r
      BY <2>1, <2>2, <3>2 DEF Stops, Stop, InReset, Active
    <3> QED
      BY <3>1, <3>2
  <2> QED
    BY <2>1, <2>5 DEF Stops, NewBeyond
<1>2. ASSUME NEW r \in Runs, ResetCancel(r) PROVE Stops'
  <2>1. /\ UNCHANGED <<node, stopAt, layer>> /\ pc[r] = "resetCancel" /\ pc'[r] = "resetPause"
        /\ \A q \in Runs \ {r} : pc'[q] = pc[q]
    BY <1>0, <1>2 DEF ResetCancel, Shape
  <2>2. \A q \in Runs \ {r} : ~Active(q)
    BY <2>1 DEF Base, OneRun, Active
  <2>3. ASSUME NEW q \in Runs PROVE Stop(q)'
    <3>1. CASE q = r
      BY <1>0, <2>1, <3>1, GroupType DEF Stops, Stop, InReset, Active, Shape
    <3>2. CASE q # r
      BY <2>1, <2>2, <3>2 DEF Stops, Stop, InReset, Active
    <3> QED
      BY <3>1, <3>2
  <2> QED
    BY <2>1, <2>3 DEF Stops, NewBeyond
<1>3. ASSUME NEW r \in Runs, CheckCancel(r) PROVE Stops'
  <2>1. /\ UNCHANGED <<node, stopAt, layer, cancelled>> /\ pc[r] = "check"
        /\ pc'[r] = IF cancelled THEN "return" ELSE "ensure"
        /\ \A q \in Runs \ {r} : pc'[q] = pc[q]
    BY <1>0, <1>3 DEF CheckCancel, Shape
  <2>2. layer[r] <= Len(Groups) /\ stopAt[r] \in 0 .. Len(Groups)
    BY <1>0, <2>1 DEF Shape, InLayer
  <2>3. ~cancelled => stopAt[r] = Len(Groups)
    BY <2>1, <2>2, GroupType DEF Stops, Stop, Active
  <2>4. ASSUME NEW q \in Runs PROVE Stop(q)'
    <3>1. CASE q = r
      BY <2>1, <2>2, <2>3, <3>1 DEF Stops, Stop, InReset, Active
    <3>2. CASE q # r
      BY <2>1, <3>2 DEF Stops, Stop, InReset, Active
    <3> QED
      BY <3>1, <3>2
  <2> QED
    BY <2>1, <2>4 DEF Stops, NewBeyond
<1>4. ASSUME NEW r \in Runs, Submit(r) PROVE Stops'
  <2>1. /\ layer[r] \in 1 .. Len(Groups)
        /\ idx[r] \in 1 .. Len(Groups[layer[r]])
        /\ Current(r) = Groups[layer[r]][idx[r]]
        /\ pc[r] = "submit" /\ stopAt[r] \in 0 .. Len(Groups)
    BY <1>0, <1>4, CurrentType DEF Submit, InLayer, Shape
  <2>2. /\ UNCHANGED <<pc, stopAt, layer, cancelled>>
        /\ \A q \in Runs \ {r} : node'[q] = node[q]
        /\ \A n \in Nodes \ {Current(r)} : node'[r][n] = node[r][n]
    BY <1>0, <1>4 DEF Submit, Shape
  <2>3. ASSUME NEW q \in Runs PROVE NewBeyond(q)'
    <3>1. CASE q = r
      <4> SUFFICES ASSUME NEW h \in 1 .. Len(Groups), NEW j \in 1 .. Len(Groups[h]), h > stopAt[r]
                   PROVE  node'[r][Groups[h][j]] = "new"
        BY <2>2, <3>1 DEF NewBeyond
      <4>1. h > layer[r]
        BY <2>1 DEF Stops, Stop
      <4>2. Groups[h][j] # Current(r)
        <5>1. ~(h = layer[r] /\ j = idx[r])
          BY <2>1, <4>1
        <5>2. Groups[h][j] # Groups[layer[r]][idx[r]]
          BY <2>1, <5>1, OtherPlace
        <5> QED
          BY <2>1, <5>2
      <4>3. Groups[h][j] \in Nodes /\ node[r][Groups[h][j]] = "new"
        BY GroupType DEF Stops, NewBeyond
      <4> QED
        BY <2>2, <4>2, <4>3
    <3>2. CASE q # r
      BY <2>2, <3>2 DEF Stops, NewBeyond
    <3> QED
      BY <3>1, <3>2
  <2> QED
    BY <2>2, <2>3 DEF Stops, Stop, InReset, Active
<1>5. ASSUME NEW r \in Runs, NextLayer(r) PROVE Stops'
  <2>1. /\ UNCHANGED <<node, stopAt, cancelled>> /\ pc[r] = "collect" /\ pc'[r] = "gate"
        /\ layer'[r] = layer[r] + 1
        /\ \A q \in Runs \ {r} : pc'[q] = pc[q] /\ layer'[q] = layer[q]
    BY <1>0, <1>5 DEF NextLayer, Shape
  <2>2. layer[r] \in Int /\ stopAt[r] \in Int
    BY <1>0, GroupType DEF Shape
  <2>3. ASSUME NEW q \in Runs PROVE Stop(q)'
    <3>1. CASE q = r
      BY <2>1, <2>2, <3>1 DEF Stops, Stop, InReset, Active
    <3>2. CASE q # r
      BY <2>1, <3>2 DEF Stops, Stop, InReset, Active
    <3> QED
      BY <3>1, <3>2
  <2> QED
    BY <2>1, <2>3 DEF Stops, NewBeyond
<1>6. ASSUME NEW r \in Runs, NEW n \in Nodes, NodeStep(r, n) PROVE Stops'
  <2>1. /\ UNCHANGED <<pc, stopAt, layer, cancelled>>
        /\ node[r][n] # "new"
    BY <1>6 DEF NodeStep, StartNode, EndNode
  <2>2. \A q \in Runs, m \in Nodes : q # r \/ m # n => node'[q][m] = node[q][m]
    <3>1. CASE StartNode(r, n)
      BY <1>0, <3>1 DEF StartNode, Shape
    <3>2. ASSUME NEW how \in {"ok", "failed"}, EndNode(r, n, how)
          PROVE  \A q \in Runs, m \in Nodes : q # r \/ m # n => node'[q][m] = node[q][m]
      BY <1>0, <3>2 DEF EndNode, Shape
    <3> QED
      BY <1>6, <3>1, <3>2 DEF NodeStep
  <2>3. ASSUME NEW q \in Runs PROVE NewBeyond(q)'
    <3> SUFFICES ASSUME NEW h \in 1 .. Len(Groups), NEW j \in 1 .. Len(Groups[h]), h > stopAt[q]
                 PROVE  node'[q][Groups[h][j]] = "new"
      BY <2>1 DEF NewBeyond
    <3>1. Groups[h][j] \in Nodes /\ node[q][Groups[h][j]] = "new"
      BY GroupType DEF Stops, NewBeyond
    <3> QED
      BY <2>1, <2>2, <3>1
  <2> QED
    BY <2>1, <2>3 DEF Stops, Stop, InReset, Active
<1>7. CASE Cancel
  <2>1. /\ UNCHANGED <<pc, node, layer>> /\ cancelled' = TRUE
        /\ \A q \in Runs : ~InReset(q)
        /\ \A q \in Runs : stopAt'[q] = IF Active(q) THEN Lower(stopAt[q], LastAllowed(q))
                                        ELSE stopAt[q]
    BY <1>7 DEF Cancel
  <2>2. ASSUME NEW q \in Runs PROVE (Stop(q) /\ NewBeyond(q))'
    <3>1. layer[q] \in Int /\ stopAt[q] \in Int
      BY <1>0, GroupType DEF Shape
    <3>2. CASE ~Active(q)
      BY <2>1, <3>2 DEF Stops, Stop, NewBeyond, InReset, Active
    <3>3. CASE Active(q)
      <4>1. stopAt'[q] = Lower(stopAt[q], LastAllowed(q))
        BY <2>1, <3>3
      <4>2. Stop(q)'
        BY <2>1, <3>1, <3>3, <4>1 DEF Stops, Stop, Lower, LastAllowed, InReset, Active
      <4>3. NewBeyond(q)'
        <5> SUFFICES ASSUME NEW h \in 1 .. Len(Groups), NEW j \in 1 .. Len(Groups[h]),
                            h > stopAt'[q]
                     PROVE  node[q][Groups[h][j]] = "new"
          BY <2>1 DEF NewBeyond
        <5>1. CASE h > stopAt[q]
          BY <5>1 DEF Stops, NewBeyond
        <5>2. CASE h > LastAllowed(q)
          <6>1. h > layer[q] \/ (h = layer[q] /\ AtStart(q))
            BY <2>1, <3>1, <5>2 DEF LastAllowed, AtStart
          <6> QED
            BY <6>1 DEF Fresh, Untouched
        <5> QED
          BY <4>1, <5>1, <5>2 DEF Lower
      <4> QED
        BY <4>2, <4>3
    <3> QED
      BY <3>2, <3>3
  <2> QED
    BY <2>2 DEF Stops
<1>8. CASE Pause \/ Resume \/ Close \/ UNCHANGED vars
  <2>1. UNCHANGED <<pc, node, layer, stopAt, cancelled>>
    BY <1>8 DEF Pause, Resume, Close, vars
  <2> QED
    BY <2>1 DEF Stops, Stop, NewBeyond, InReset, Active
<1> QED
  BY <1>1, <1>2, <1>3, <1>4, <1>5, <1>6, <1>7, <1>8 DEF Next, RunStep

\* Unless cancel() comes while run() resets its events, a cancelled run starts
\* no node of a layer after the one it was in.
THEOREM CancelIsHeard ==
  ASSUME ~EarlyCancel
  PROVE  Spec => []CancelStopsNextLayer
<1>1. Stops => CancelStopsNextLayer
  BY GroupType DEF Stops, NewBeyond, CancelStopsNextLayer
<1>2. Base /\ Fresh /\ Stops /\ [Next]_vars => Stops'
  BY StopsStep
<1> QED
  BY BaseInit, BaseStep, FreshInit, FreshStep, StopsInit, <1>1, <1>2, PTL DEF Spec

-----------------------------------------------------------------------------
(***************************************************************************)
(* The groups that LayersAssumption takes for granted: module DAG, of any  *)
(* nodes, insertion order and declared dependencies, with other threads    *)
(* adding to the graph or not.                                             *)
(***************************************************************************)

\* A set of natural numbers has a least one.
LEMMA LeastElement ==
  ASSUME NEW S, S \subseteq Nat, S # {}
  PROVE  \E x \in S : \A y \in S : x <= y
<1>1. \E R : IsWellFoundedOn(R, Nat) /\ \A x \in Nat : \A y \in Nat : y < x => <<y, x>> \in R
  <2>1. \A x \in Nat : \A y \in Nat : y < x => <<y, x>> \in OpToRel(<, Nat)
    BY DEF OpToRel
  <2> QED
    BY <2>1, NatLessThanWellFounded
<1>2. PICK R : IsWellFoundedOn(R, Nat) /\ \A x \in Nat : \A y \in Nat : y < x => <<y, x>> \in R
  BY <1>1
<1>3. PICK x \in S : \A y \in S : <<y, x>> \notin R
  BY <1>2, WFMin
<1>4. \A y \in S : ~(y < x) /\ x \in Nat /\ y \in Nat
  BY <1>2, <1>3
<1> QED
  BY <1>4

\* nothing comes twice
Distinct(s) == \A i, j \in DOMAIN s : s[i] = s[j] => i = j

LEMMA UpTo ==
  ASSUME NEW n \in Nat
  PROVE  IsFiniteSet(1..n) /\ Cardinality(1..n) = n
BY FS_Interval

\* A sequence without repetition is as long as its set of elements is large.
LEMMA DistinctLength ==
  ASSUME NEW S, NEW s \in Seq(S), Distinct(s)
  PROVE  IsFiniteSet(Range(s)) /\ Cardinality(Range(s)) = Len(s)
<1>1. Len(s) \in Nat /\ DOMAIN s = 1..Len(s)
  OBVIOUS
<1>2. s \in Bijection(1..Len(s), Range(s))
  BY <1>1 DEF Distinct, Bijection, Injection, Surjection, Range, IsInjective
<1>3. IsFiniteSet(1..Len(s)) /\ Cardinality(1..Len(s)) = Len(s)
  BY <1>1, UpTo
<1> QED
  BY <1>2, <1>3, FS_Bijection DEF ExistsBijection

\* Place inverts nodes.
LEMMA PlaceInNodes ==
  ASSUME nodes \in Seq(Node), Distinct(nodes), NEW i \in DOMAIN nodes
  PROVE  Place(nodes[i]) = i
BY DEF Place, Distinct

\* There is a sequence of the nodes of S in insertion order.
LEMMA Orderable ==
  ASSUME nodes \in Seq(Node), Distinct(nodes), NEW S
  PROVE  \E s \in Seq(Node) :
            /\ Range(s) = S \cap Range(nodes)
            /\ \A i, j \in DOMAIN s : i < j => Place(s[i]) < Place(s[j])
<1> DEFINE Up(k) == {nodes[i] : i \in 1..k}
           P(k) == \E s \in Seq(Node) :
                      /\ Range(s) = S \cap Up(k)
                      /\ \A i, j \in DOMAIN s : i < j => Place(s[i]) < Place(s[j])
           Bad == {k \in Nat : k <= Len(nodes) /\ ~P(k)}
<1>0. Len(nodes) \in Nat /\ DOMAIN nodes = 1..Len(nodes)
      /\ \A i \in 1..Len(nodes) : nodes[i] \in Node
  OBVIOUS
<1>1. Up(Len(nodes)) = Range(nodes)
  BY <1>0 DEF Range
<1>2. P(0)
  <2>1. Up(0) = {}
    OBVIOUS
  <2>2. <<>> \in Seq(Node) /\ Range(<<>>) = {} /\ DOMAIN <<>> = {}
    BY DEF Range
  <2> QED
    BY <2>1, <2>2
<1>3. ASSUME NEW k \in Nat, k + 1 <= Len(nodes), P(k) PROVE P(k + 1)
  <2> DEFINE n == nodes[k + 1]
  <2>1. n \in Node /\ k + 1 \in DOMAIN nodes /\ Place(n) = k + 1
    BY <1>0, <1>3, PlaceInNodes
  <2>2. Up(k + 1) = Up(k) \cup {n}
    BY <1>0, <1>3
  <2>3. PICK s \in Seq(Node) :
           /\ Range(s) = S \cap Up(k)
           /\ \A i, j \in DOMAIN s : i < j => Place(s[i]) < Place(s[j])
    BY <1>3
  <2>4. \A i \in DOMAIN s : Place(s[i]) <= k /\ Place(s[i]) \in Nat
    <3> SUFFICES ASSUME NEW i \in DOMAIN s PROVE Place(s[i]) <= k /\ Place(s[i]) \in Nat
      OBVIOUS
    <3>1. s[i] \in Up(k)
      BY <2>3 DEF Range
    <3>2. PICK m \in 1..k : s[i] = nodes[m]
      BY <3>1
    <3> QED
      BY <1>0, <1>3, <3>2, PlaceInNodes
  <2>5. CASE n \notin S
    <3>1. S \cap Up(k + 1) = S \cap Up(k)
      BY <2>2, <2>5
    <3> QED
      BY <2>3, <3>1
  <2>6. CASE n \in S
    <3> DEFINE u == Append(s, n)
    <3>1. u \in Seq(Node) /\ Len(u) = Len(s) + 1 /\ Len(s) \in Nat
          /\ DOMAIN u = 1..Len(s) + 1 /\ DOMAIN s = 1..Len(s)
          /\ u[Len(s) + 1] = n /\ \A i \in 1..Len(s) : u[i] = s[i]
      BY <2>1
    <3> HIDE DEF u
    <3>2. Range(u) = Range(s) \cup {n}
      BY <3>1 DEF Range
    <3>3. Range(u) = S \cap Up(k + 1)
      BY <2>2, <2>3, <2>6, <3>2
    <3> HIDE DEF n
    <3>4. ASSUME NEW i \in DOMAIN u, NEW j \in DOMAIN u, i < j
          PROVE  Place(u[i]) < Place(u[j])
      <4>1. CASE j \in 1..Len(s)
        BY <2>3, <3>1, <3>4, <4>1
      <4>2. CASE j = Len(s) + 1
        BY <2>1, <2>4, <3>1, <3>4, <4>2
      <4> QED
        BY <3>1, <4>1, <4>2
    <3> QED
      BY <3>1, <3>3, <3>4
  <2> QED
    BY <2>5, <2>6
<1> HIDE DEF P
<1>4. Bad = {}
  <2> SUFFICES ASSUME Bad # {} PROVE FALSE
    OBVIOUS
  <2>1. PICK k \in Bad : \A m \in Bad : k <= m
    BY LeastElement
  <2>2. k # 0
    BY <1>2, <2>1
  <2>3. k - 1 \in Nat /\ k - 1 <= Len(nodes) /\ k - 1 \notin Bad
    BY <1>0, <2>1, <2>2
  <2>4. P(k - 1)
    BY <2>3
  <2>5. P((k - 1) + 1)
    BY <1>0, <1>3, <2>1, <2>3, <2>4
  <2> QED
    BY <2>1, <2>5
<1>5. P(Len(nodes))
  BY <1>0, <1>4
<1> QED
  BY <1>1, <1>5 DEF P

\* InOrder lists the nodes of a set, each once.
LEMMA InOrderOK ==
  ASSUME nodes \in Seq(Node), Distinct(nodes), NEW S, S \subseteq Range(nodes)
  PROVE  /\ InOrder(S) \in Seq(Node)
         /\ Range(InOrder(S)) = S
         /\ Distinct(InOrder(S))
<1>1. PICK s \in Seq(Node) :
         /\ Range(s) = S
         /\ \A i, j \in DOMAIN s : i < j => Place(s[i]) < Place(s[j])
  <2>1. S \cap Range(nodes) = S
    OBVIOUS
  <2> QED
    BY <2>1, Orderable
<1>2. Len(s) \in Nat /\ DOMAIN s = 1..Len(s)
  OBVIOUS
<1>3. \A i \in DOMAIN s : Place(s[i]) \in Nat
  <2> SUFFICES ASSUME NEW i \in DOMAIN s PROVE Place(s[i]) \in Nat
    OBVIOUS
  <2>1. PICK m \in DOMAIN nodes : s[i] = nodes[m]
    BY <1>1 DEF Range
  <2> QED
    BY <2>1, PlaceInNodes
<1>4. Distinct(s)
  BY <1>1, <1>2, <1>3 DEF Distinct
<1>5. IsFiniteSet(S) /\ Cardinality(S) = Len(s)
  BY <1>1, <1>4, DistinctLength
<1>6. s \in SetToSeqs(S)
  BY <1>1, <1>2, <1>4, <1>5 DEF SetToSeqs, Distinct, Range
<1> DEFINE u == InOrder(S)
<1>7. u \in SetToSeqs(S)
  BY <1>1, <1>6 DEF InOrder
<1> HIDE DEF u
<1>8. u \in [1..Len(s) -> S] /\ \A i, j \in 1..Len(s) : i # j => u[i] # u[j]
  BY <1>5, <1>7 DEF SetToSeqs
<1>9. u \in Seq(Node) /\ Distinct(u) /\ DOMAIN u = 1..Len(s)
  <2>1. S \subseteq Node
    BY DEF Range
  <2> QED
    BY <1>2, <1>8, <2>1 DEF Distinct
<1>10. u \in Surjection(1..Len(s), S)
  <2>1. u \in Injection(1..Len(s), S)
    BY <1>8 DEF Injection, IsInjective
  <2>2. Cardinality(1..Len(s)) = Len(s)
    BY <1>2, UpTo
  <2> QED
    BY <1>5, <2>1, <2>2, FS_Injection
<1>11. Range(u) = S
  BY <1>9, <1>10 DEF Range, Surjection
<1> QED
  BY <1>9, <1>11 DEF u

-----------------------------------------------------------------------------
(* The sort *)

Types ==
    /\ nodes \in Seq(Node) /\ Distinct(nodes)
    /\ declared \in [Node -> SUBSET Node]
    /\ edges \subseteq Node \X Node
    /\ phase \in {"idle", "sort", "sorted", "cycle", "depths", "missing", "grouped"}
    /\ adjacency \in [Node -> SUBSET Node]
    /\ indegree \in [Node -> Nat]
    /\ queue \in Seq(Node) /\ Distinct(queue)
    /\ order \in Seq(Node) /\ Distinct(order)

\* While the sort has the lock: the counters are right, and the nodes without
\* open dependencies are those emitted or queued, each once.
Sorting ==
    phase = "sort" =>
        /\ \A n \in Node : adjacency[n] \subseteq Range(nodes)
        /\ \A n \in Node \ Range(nodes) : adjacency[n] = {}
        /\ Emitted \cup Range(queue) \subseteq Range(nodes)
        /\ Emitted \cap Range(queue) = {}
        /\ \A n \in Node : indegree[n] = Cardinality(adjacency[n] \ Emitted)
        /\ \A n \in Range(nodes) : indegree[n] = 0 <=> n \in Emitted \cup Range(queue)

SortInv ==
    /\ Types
    /\ phase = "idle" => order = <<>>
    /\ Sorting
    /\ OrderRespectsDependencies
    /\ CycleIsReal

LEMMA SortInit == GraphInit => SortInv
<1> SUFFICES ASSUME GraphInit PROVE SortInv
  OBVIOUS
<1>1. nodes \in Seq(Node) /\ Distinct(nodes) /\ declared \in [Node -> SUBSET Node]
  BY DagAssumption DEF GraphInit, Distinct
<1>2. <<>> \in Seq(Node) /\ Distinct(<<>>) /\ DOMAIN <<>> = {}
  BY DEF Distinct
<1>3. Types
  BY <1>1, <1>2 DEF GraphInit, Types
<1> QED
  BY <1>2, <1>3 DEF GraphInit, SortInv, Sorting, OrderRespectsDependencies, CycleIsReal

\* Sets of nodes are finite, so that they can be counted.
LEMMA FiniteNode ==
  ASSUME NEW S \in SUBSET Node
  PROVE  IsFiniteSet(S) /\ Cardinality(S) \in Nat /\ (Cardinality(S) = 0 <=> S = {})
<1>1. IsFiniteSet(Node)
  BY DagAssumption
<1> QED
  BY <1>1, FS_Subset, FS_CardinalityType, FS_EmptySet

\* A step of another thread, or one that leaves the sort alone.
LEMMA SortKept ==
  ASSUME SortInv, UNCHANGED sort, Types', phase' # "sort",
         phase' = "idle" => phase = "idle", phase' = "cycle" => phase = "cycle"
  PROVE  SortInv'
BY DEF SortInv, sort, Sorting, OrderRespectsDependencies, CycleIsReal, Cyclic

\* The counters start at the numbers of known dependencies.
LEMMA SeedOK ==
  ASSUME SortInv, Seed
  PROVE  SortInv'
<1>0. Types /\ order = <<>>
  BY DEF SortInv, Seed
<1> DEFINE free == {n \in Range(nodes) : indegree'[n] = 0}
<1>1. /\ phase' = "sort" /\ UNCHANGED <<nodes, declared, edges, order>>
      /\ adjacency' = [n \in Node |->
            IF n \in Range(nodes) THEN Dependencies(n) \cap Range(nodes) ELSE {}]
      /\ indegree' = [n \in Node |-> Cardinality(adjacency'[n])]
      /\ queue' = InOrder(free)
  BY DEF Seed, graph
<1>2. Range(nodes) \subseteq Node /\ Range(order) = {}
  BY <1>0 DEF Types, Range
<1>3. adjacency' \in [Node -> SUBSET Node]
      /\ (\A n \in Node : adjacency'[n] \subseteq Range(nodes))
      /\ (\A n \in Node \ Range(nodes) : adjacency'[n] = {})
  BY <1>1, <1>2
<1>4. indegree' \in [Node -> Nat]
  BY <1>1, <1>3, FiniteNode
<1>5. queue' \in Seq(Node) /\ Range(queue') = free /\ Distinct(queue')
  BY <1>0, <1>1, InOrderOK DEF Types
<1>6. Types'
  BY <1>0, <1>1, <1>3, <1>4, <1>5 DEF Types, Distinct
<1>7. \A n \in Node : adjacency'[n] \ {} = adjacency'[n]
  OBVIOUS
<1>8. Emitted' = {}
  BY <1>1, <1>2 DEF Emitted
<1>9. Range(nodes)' = Range(nodes) /\ Range(queue)' = free
  BY <1>1, <1>5
<1>10. Sorting'
  BY <1>1, <1>2, <1>3, <1>7, <1>8, <1>9 DEF Sorting
<1>11. OrderRespectsDependencies'
  BY <1>0, <1>1 DEF OrderRespectsDependencies
<1> QED
  BY <1>0, <1>1, <1>6, <1>10, <1>11 DEF SortInv, CycleIsReal

\* The node taken has no open dependency, and each node that waits for it has
\* one less.
LEMMA VisitOK ==
  ASSUME SortInv, Visit
  PROVE  SortInv'
<1> DEFINE c       == Head(queue)
           waiting == {n \in Node : c \in adjacency[n]}
           ready   == {n \in waiting : indegree[n] = 1}
           more    == InOrder(ready)
<1>0. Types /\ phase = "sort" /\ queue # <<>>
      /\ (\A n \in Node : adjacency[n] \subseteq Range(nodes))
      /\ (\A n \in Node \ Range(nodes) : adjacency[n] = {})
      /\ Emitted \cup Range(queue) \subseteq Range(nodes)
      /\ Emitted \cap Range(queue) = {}
      /\ (\A n \in Node : indegree[n] = Cardinality(adjacency[n] \ Emitted))
      /\ (\A n \in Range(nodes) : indegree[n] = 0 <=> n \in Emitted \cup Range(queue))
  BY DEF SortInv, Sorting, Visit
<1>1. /\ order' = Append(order, c)
      /\ indegree' = [n \in Node |-> IF n \in waiting THEN indegree[n] - 1 ELSE indegree[n]]
      /\ queue' = Tail(queue) \o more
      /\ UNCHANGED <<nodes, declared, edges, phase, adjacency>>
  BY DEF Visit, graph
<1>2. /\ c \in Range(queue) /\ c \in Node
      /\ Tail(queue) \in Seq(Node) /\ Distinct(Tail(queue))
      /\ Range(Tail(queue)) = Range(queue) \ {c}
  <2>1. /\ queue \in Seq(Node) /\ Len(queue) \in Nat \ {0} /\ DOMAIN queue = 1..Len(queue)
        /\ c = queue[1] /\ Distinct(queue)
    BY <1>0 DEF Types
  <2>2. /\ Tail(queue) \in Seq(Node) /\ Len(Tail(queue)) = Len(queue) - 1
        /\ DOMAIN Tail(queue) = 1..Len(queue) - 1
        /\ \A i \in 1..Len(queue) - 1 : Tail(queue)[i] = queue[i + 1]
    BY <2>1
  <2> HIDE DEF c
  <2>3. Distinct(Tail(queue))
    BY <2>1, <2>2 DEF Distinct
  <2>4. c \in Range(queue) /\ c \in Node
    BY <2>1 DEF Range
  <2> DEFINE q == Tail(queue)
  <2> HIDE DEF q
  <2>5. ASSUME NEW x \in Range(q) PROVE x \in Range(queue) \ {c}
    BY <2>1, <2>2 DEF q, Range, Distinct
  <2>6. ASSUME NEW x \in Range(queue) \ {c} PROVE x \in Range(q)
    <3>1. PICK i \in 1..Len(queue) : x = queue[i]
      BY <2>1, <2>6 DEF Range
    <3>2. i - 1 \in 1..Len(queue) - 1 /\ q[i - 1] = x
      BY <2>1, <2>2, <2>6, <3>1 DEF q
    <3> QED
      BY <2>2, <3>2 DEF Range, q
  <2> QED
    BY <2>2, <2>3, <2>4, <2>5, <2>6 DEF q
<1> HIDE DEF c
<1>3. Range(nodes) \subseteq Node /\ Emitted \subseteq Node
  BY <1>0 DEF Types, Range, Emitted
<1>4. Emitted' = Emitted \cup {c} /\ Distinct(order)' /\ order' \in Seq(Node)
      /\ Len(order') = Len(order) + 1 /\ Len(order) \in Nat
      /\ order'[Len(order) + 1] = c /\ \A i \in 1..Len(order) : order'[i] = order[i]
  <2>1. /\ order' \in Seq(Node) /\ Len(order') = Len(order) + 1 /\ Len(order) \in Nat
        /\ DOMAIN order' = 1..Len(order) + 1 /\ DOMAIN order = 1..Len(order)
        /\ order'[Len(order) + 1] = c /\ \A i \in 1..Len(order) : order'[i] = order[i]
    BY <1>0, <1>1, <1>2 DEF Types
  <2>2. Range(order') = Range(order) \cup {c}
    BY <2>1 DEF Range
  <2>3. \A i \in 1..Len(order) : order[i] # c
    <3>1. c \notin Emitted
      BY <1>0, <1>2
    <3> QED
      BY <2>1, <3>1 DEF Emitted, Range
  <2>4. Distinct(order)
    BY <1>0 DEF Types
  <2>5. Distinct(order')
    BY <2>1, <2>3, <2>4 DEF Distinct
  <2> QED
    BY <2>1, <2>2, <2>5 DEF Emitted
<1>5. ASSUME NEW n \in Node
      PROVE  /\ n \in waiting => indegree[n] # 0
             /\ indegree[n] \in Nat
             /\ indegree'[n] = IF n \in waiting THEN indegree[n] - 1 ELSE indegree[n]
             /\ indegree'[n] \in Nat
             /\ indegree'[n] = Cardinality(adjacency[n] \ Emitted')
  <2> DEFINE open == adjacency[n] \ Emitted
  <2>1. open \in SUBSET Node /\ indegree[n] = Cardinality(open) /\ indegree[n] \in Nat
    BY <1>0 DEF Types
  <2>2. adjacency[n] \ Emitted' = open \ {c}
    BY <1>4
  <2>3. n \in waiting <=> c \in open
    BY <1>0, <1>2
  <2> HIDE DEF open
  <2>4. IsFiniteSet(open) /\ (Cardinality(open) = 0 <=> open = {})
    BY <2>1, FiniteNode
  <2>5. Cardinality(open \ {c}) = IF c \in open THEN Cardinality(open) - 1
                                                ELSE Cardinality(open)
    BY <2>4, FS_RemoveElement
  <2> HIDE DEF waiting
  <2>6. indegree'[n] = IF n \in waiting THEN indegree[n] - 1 ELSE indegree[n]
    BY <1>1
  <2>7. /\ n \in waiting => indegree[n] # 0
        /\ indegree'[n] \in Nat
        /\ indegree'[n] = Cardinality(open \ {c})
    <3> HIDE DEF c
    <3>1. CASE n \in waiting
      <4>1. c \in open /\ open # {}
        BY <2>3, <3>1
      <4>2. indegree[n] # 0
        BY <2>1, <2>4, <4>1
      <4> QED
        BY <2>1, <2>5, <2>6, <3>1, <4>1, <4>2
    <3>2. CASE n \notin waiting
      BY <2>1, <2>3, <2>5, <2>6, <3>2
    <3> QED
      BY <3>1, <3>2
  <2> QED
    BY <2>1, <2>2, <2>6, <2>7
<1>6. ready \subseteq Range(nodes) /\ ready \subseteq Node
      /\ ready \cap (Emitted \cup Range(queue)) = {}
  BY <1>0, <1>3
<1>7. more \in Seq(Node) /\ Range(more) = ready /\ Distinct(more)
  BY <1>0, <1>6, InOrderOK DEF Types
<1> HIDE DEF more
<1>8. /\ queue' \in Seq(Node) /\ Distinct(queue)'
      /\ Range(queue') = (Range(queue) \ {c}) \cup ready
  <2> DEFINE q == Tail(queue)
  <2>1. q \in Seq(Node) /\ Distinct(q) /\ Range(q) = Range(queue) \ {c}
        /\ queue' = q \o more
    BY <1>1, <1>2
  <2> HIDE DEF q
  <2>2. /\ queue' \in Seq(Node) /\ Len(queue') = Len(q) + Len(more)
        /\ DOMAIN queue' = 1..Len(q) + Len(more) /\ Len(q) \in Nat /\ Len(more) \in Nat
        /\ DOMAIN q = 1..Len(q) /\ DOMAIN more = 1..Len(more)
        /\ \A i \in 1..Len(q) + Len(more) :
              queue'[i] = IF i <= Len(q) THEN q[i] ELSE more[i - Len(q)]
    BY <1>7, <2>1
  <2>3. \A i \in 1..Len(q), j \in 1..Len(more) : q[i] # more[j]
    <3>1. \A i \in 1..Len(q) : q[i] \in Range(queue)
      BY <2>1, <2>2 DEF Range
    <3>2. \A j \in 1..Len(more) : more[j] \in ready
      BY <1>7, <2>2 DEF Range
    <3> QED
      BY <1>6, <3>1, <3>2
  <2>4. Distinct(queue')
    BY <1>7, <2>1, <2>2, <2>3 DEF Distinct
  <2>5. Range(queue') \subseteq Range(q) \cup Range(more)
    <3> SUFFICES ASSUME NEW i \in 1..Len(q) + Len(more)
                 PROVE  queue'[i] \in Range(q) \cup Range(more)
      BY <2>2 DEF Range
    <3>1. CASE i <= Len(q)
      BY <2>2, <3>1 DEF Range
    <3>2. CASE ~(i <= Len(q))
      <4>1. i - Len(q) \in DOMAIN more /\ queue'[i] = more[i - Len(q)]
        BY <2>2, <3>2
      <4> QED
        BY <4>1 DEF Range
    <3> QED
      BY <3>1, <3>2
  <2>6. Range(q) \subseteq Range(queue')
    BY <2>2 DEF Range
  <2>7. Range(more) \subseteq Range(queue')
    <3> SUFFICES ASSUME NEW j \in 1..Len(more) PROVE more[j] \in Range(queue')
      BY <2>2 DEF Range
    <3>1. Len(q) + j \in DOMAIN queue' /\ queue'[Len(q) + j] = more[j]
      BY <2>2
    <3> QED
      BY <3>1 DEF Range
  <2> QED
    BY <1>7, <2>1, <2>2, <2>4, <2>5, <2>6, <2>7
<1>9. Types'
  <2>1. indegree' \in [Node -> Nat]
    BY <1>1, <1>5
  <2> QED
    BY <1>0, <1>1, <1>4, <1>8, <2>1 DEF Types, Distinct
<1>10. Sorting'
  <2>1. Range(nodes)' = Range(nodes) /\ Range(queue)' = (Range(queue) \ {c}) \cup ready
    BY <1>1, <1>8
  <2>2. ASSUME NEW n \in Range(nodes)
        PROVE  indegree'[n] = 0 <=> n \in Emitted' \cup ((Range(queue) \ {c}) \cup ready)
    <3>2. /\ n \in waiting => indegree[n] # 0
          /\ indegree[n] \in Nat
          /\ indegree'[n] = IF n \in waiting THEN indegree[n] - 1 ELSE indegree[n]
          /\ indegree[n] = 0 <=> n \in Emitted \cup Range(queue)
          /\ n \in ready <=> n \in waiting /\ indegree[n] = 1
      BY <1>0, <1>3, <1>5
    <3> HIDE DEF waiting, ready
    <3>3. CASE n \in waiting
      <4>1. indegree'[n] = 0 <=> n \in ready
        BY <3>2, <3>3
      <4>2. n \notin Emitted \cup Range(queue)
        BY <3>2, <3>3
      <4>3. n # c
        BY <1>2, <4>2
      <4> QED
        BY <1>4, <4>1, <4>2, <4>3
    <3>4. CASE n \notin waiting
      <4>1. indegree'[n] = 0 <=> n \in Emitted \cup Range(queue)
        BY <3>2, <3>4
      <4>2. n \notin ready
        BY <3>2, <3>4
      <4> QED
        BY <1>2, <1>4, <4>1, <4>2
    <3> QED
      BY <3>3, <3>4
  <2>3. Emitted' \cup ((Range(queue) \ {c}) \cup ready) \subseteq Range(nodes)
        /\ Emitted' \cap ((Range(queue) \ {c}) \cup ready) = {}
    BY <1>0, <1>2, <1>4, <1>6
  <2> HIDE DEF ready, waiting
  <2> QED
    BY <1>0, <1>1, <1>5, <2>1, <2>2, <2>3 DEF Sorting
<1>11. OrderRespectsDependencies'
  <2> SUFFICES ASSUME NEW i \in DOMAIN order'
               PROVE  /\ adjacency[order'[i]] \subseteq {order'[j] : j \in 1..i - 1}
                      /\ \A j \in 1..i - 1 : order'[j] # order'[i]
    BY <1>1 DEF OrderRespectsDependencies
  <2>1. DOMAIN order' = 1..Len(order) + 1 /\ DOMAIN order = 1..Len(order)
    BY <1>0, <1>4 DEF Types
  <2>2. \A j \in 1..i - 1 : order'[j] # order'[i]
    BY <1>4, <2>1 DEF Distinct
  <2>3. CASE i \in 1..Len(order)
    <3>1. adjacency[order[i]] \subseteq {order[j] : j \in 1..i - 1}
      BY <2>1, <2>3 DEF SortInv, OrderRespectsDependencies
    <3>2. {order[j] : j \in 1..i - 1} = {order'[j] : j \in 1..i - 1}
      BY <1>4, <2>3
    <3> QED
      BY <1>4, <2>2, <2>3, <3>1, <3>2
  <2>4. CASE i = Len(order) + 1
    <3>1. indegree[c] = 0 /\ adjacency[c] \ Emitted \in SUBSET Node
      BY <1>0, <1>2 DEF Types
    <3>2. adjacency[c] \ Emitted = {}
      BY <1>0, <1>2, <3>1, FiniteNode
    <3>3. Emitted = {order[j] : j \in 1..Len(order)}
      BY <2>1 DEF Emitted, Range
    <3>4. {order[j] : j \in 1..Len(order)} = {order'[j] : j \in 1..i - 1}
      BY <1>4, <2>4
    <3> QED
      BY <1>4, <2>2, <2>4, <3>2, <3>3, <3>4
  <2> QED
    BY <2>1, <2>3, <2>4
<1> QED
  BY <1>0, <1>1, <1>9, <1>10, <1>11 DEF SortInv, CycleIsReal

\* What is left when nothing is ready is a set of nodes each of which depends
\* on another of them.
LEMMA SortEndsOK ==
  ASSUME SortInv, SortEnds
  PROVE  SortInv'
<1>0. Types /\ phase = "sort" /\ queue = <<>>
      /\ (\A n \in Node : adjacency[n] \subseteq Range(nodes))
      /\ Emitted \cup Range(queue) \subseteq Range(nodes)
      /\ (\A n \in Node : indegree[n] = Cardinality(adjacency[n] \ Emitted))
      /\ (\A n \in Range(nodes) : indegree[n] = 0 <=> n \in Emitted \cup Range(queue))
  BY DEF SortInv, Sorting, SortEnds
<1>1. /\ UNCHANGED <<nodes, declared, edges, adjacency, indegree, queue, order>>
      /\ phase' = IF Len(order) # Len(nodes) THEN "cycle" ELSE "sorted"
  BY DEF SortEnds, graph, sort
<1>2. Types'
  BY <1>0, <1>1 DEF Types, Distinct
<1>3. ASSUME Len(order) # Len(nodes) PROVE Cyclic(adjacency)
  <2> DEFINE S == Range(nodes) \ Emitted
  <2>1. Range(queue) = {}
    BY <1>0 DEF Range
  <2>2. Range(nodes) \subseteq Node
    BY <1>0 DEF Types, Range
  <2>3. S # {}
    <3>1. Cardinality(Range(nodes)) = Len(nodes) /\ Cardinality(Range(order)) = Len(order)
      BY <1>0, DistinctLength DEF Types
    <3> QED
      <4>1. Emitted = Range(order) /\ Emitted \subseteq Range(nodes)
        BY <1>0 DEF Emitted
      <4>2. Range(nodes) # Range(order)
        BY <1>3, <3>1
      <4> QED
        BY <4>1, <4>2
  <2>4. ASSUME NEW n \in S PROVE adjacency[n] \cap S # {}
    <3>1. n \in Node /\ indegree[n] # 0 /\ adjacency[n] \subseteq Range(nodes)
      BY <1>0, <2>1, <2>2, <2>4
    <3>2. adjacency[n] \ Emitted \in SUBSET Node
      BY <1>0, <3>1 DEF Types
    <3>3. adjacency[n] \ Emitted # {}
      BY <1>0, <3>1, <3>2, FiniteNode
    <3> QED
      BY <3>1, <3>3
  <2>5. S \in (SUBSET Node) \ {{}}
    BY <2>2, <2>3
  <2> HIDE DEF S
  <2> QED
    BY <2>4, <2>5 DEF Cyclic
<1>4. CycleIsReal'
  BY <1>1, <1>3 DEF CycleIsReal, Cyclic
<1> QED
  BY <1>1, <1>2, <1>4 DEF SortInv, Sorting, OrderRespectsDependencies

LEMMA SortStep == SortInv /\ [GraphNext]_graphVars => SortInv'
<1> SUFFICES ASSUME SortInv, [GraphNext]_graphVars PROVE SortInv'
  OBVIOUS
<1>0. Types
  BY DEF SortInv
<1>1. CASE Seed
  BY <1>1, SeedOK
<1>2. CASE Visit
  BY <1>2, VisitOK
<1>3. CASE SortEnds
  BY <1>3, SortEndsOK
<1>4. CASE ReadEdges \/ DepthOfNext \/ DependencyMissing \/ Grouped
  <2>1. UNCHANGED <<graph, sort>> /\ phase' \in {"depths", "missing", "grouped"}
    BY <1>4 DEF ReadEdges, DepthOfNext, DependencyMissing, Grouped
  <2>2. Types'
    BY <1>0, <2>1 DEF Types, Distinct, graph, sort
  <2> QED
    BY <2>1, <2>2, SortKept
<1>5. ASSUME NEW n \in Node, NEW D \in Declarable, AddNode(n, D) PROVE SortInv'
  <2>1. UNCHANGED <<sort, phase, edges>> /\ phase # "sort"
        /\ declared' = [declared EXCEPT ![n] = D]
        /\ nodes' = IF n \in Range(nodes) THEN nodes ELSE Append(nodes, n)
    BY <1>5 DEF AddNode, Unlocked
  <2>2. declared' \in [Node -> SUBSET Node]
    BY <1>0, <2>1, DagAssumption DEF Types
  <2>3. nodes' \in Seq(Node) /\ Distinct(nodes')
    <3>1. CASE n \in Range(nodes)
      BY <1>0, <2>1, <3>1 DEF Types
    <3>2. CASE n \notin Range(nodes)
      <4>1. /\ nodes' \in Seq(Node) /\ Len(nodes) \in Nat
            /\ DOMAIN nodes' = 1..Len(nodes) + 1 /\ DOMAIN nodes = 1..Len(nodes)
            /\ nodes'[Len(nodes) + 1] = n
            /\ \A i \in 1..Len(nodes) : nodes'[i] = nodes[i] /\ nodes[i] # n
        BY <1>0, <2>1, <3>2 DEF Types, Range
      <4>2. Distinct(nodes)
        BY <1>0 DEF Types
      <4> QED
        BY <4>1, <4>2 DEF Distinct
    <3> QED
      BY <3>1, <3>2
  <2>4. Types'
    BY <1>0, <2>1, <2>2, <2>3 DEF Types, Distinct, sort
  <2> QED
    BY <2>1, <2>4, SortKept
<1>6. ASSUME NEW m \in Node, NEW n \in Node, AddEdge(m, n) PROVE SortInv'
  <2>1. UNCHANGED <<sort, phase, nodes, declared>> /\ phase # "sort"
        /\ edges' = edges \cup {<<m, n>>}
    BY <1>6 DEF AddEdge, Unlocked
  <2>2. Types'
    BY <1>0, <2>1 DEF Types, Distinct, sort
  <2> QED
    BY <2>1, <2>2, SortKept
<1>7. CASE UNCHANGED graphVars
  <2>1. UNCHANGED <<nodes, declared, edges, phase, adjacency, indegree, queue, order>>
    BY <1>7 DEF graphVars, graph, sort
  <2>2. Types' /\ (phase' = "idle" => order' = <<>>)
    BY <2>1 DEF SortInv, Types, Distinct
  <2>3. Sorting'
    <3>1. Emitted' = Emitted
      BY <2>1 DEF Emitted
    <3>2. Range(nodes)' = Range(nodes) /\ Range(queue)' = Range(queue)
      BY <2>1
    <3> QED
      BY <2>1, <3>1, <3>2 DEF SortInv, Sorting
  <2>4. OrderRespectsDependencies' /\ CycleIsReal'
    BY <2>1 DEF SortInv, OrderRespectsDependencies, CycleIsReal, Cyclic
  <2> QED
    BY <2>2, <2>3, <2>4 DEF SortInv
<1> QED
  BY <1>1, <1>2, <1>3, <1>4, <1>5, <1>6, <1>7 DEF GraphNext

-----------------------------------------------------------------------------
(* The groups *)

\* A set of numbers below a bound has a largest one.
LEMMA LargestElement ==
  ASSUME NEW S, S \subseteq Nat, S # {}, NEW b \in Nat, \A x \in S : x <= b
  PROVE  MaxOf(S) \in S /\ \A y \in S : y <= MaxOf(S)
<1> DEFINE U == {u \in Nat : \A x \in S : x <= u}
<1>1. PICK u \in U : \A v \in U : u <= v
  <2>1. b \in U /\ U \subseteq Nat
    OBVIOUS
  <2> HIDE DEF U
  <2> QED
    BY <2>1, LeastElement
<1>2. u \in Nat /\ \A x \in S : x \in Nat /\ x <= u
  OBVIOUS
<1>3. u \in S
  <2> SUFFICES ASSUME u \notin S PROVE FALSE
    OBVIOUS
  <2>1. \A x \in S : x < u
    BY <1>2
  <2>2. u # 0
    <3>1. PICK x \in S : TRUE
      OBVIOUS
    <3> QED
      BY <1>2, <2>1, <3>1
  <2>3. u - 1 \in U
    BY <1>2, <2>1, <2>2
  <2>4. u <= u - 1
    BY <1>1, <2>3
  <2> QED
    BY <1>2, <2>4
<1>4. \E x \in S : \A y \in S : y <= x
  BY <1>2, <1>3
<1> QED
  BY <1>4 DEF MaxOf

\* the nodes whose depth is computed
WithDepth == {order[j] : j \in 1..at - 1}

\* The depths computed so far are those of layers, whatever other threads add.
Layered ==
    \A n \in Node :
        IF n \in WithDepth
        THEN /\ depth[n] \in Nat /\ depth[n] < at
             /\ \A m \in reverse[n] : m \in WithDepth /\ depth[m] < depth[n]
             /\ depth[n] > 0 => \E m \in reverse[n] : depth[m] = depth[n] - 1
        ELSE depth[n] = NoDepth

LayerInv ==
    /\ SortInv
    /\ reverse \in [Node -> SUBSET Node]
    /\ at \in 1..Len(order) + 1
    /\ depth \in [Node -> Int]
    /\ phase \notin {"depths", "missing", "grouped"} => at = 1
    /\ phase = "grouped" => at > Len(order)
    /\ Layered

LEMMA LayerInit == GraphInit => LayerInv
<1> SUFFICES ASSUME GraphInit PROVE LayerInv
  OBVIOUS
<1>1. SortInv
  BY SortInit
<1>2. at = 1 /\ Len(order) = 0 /\ phase = "idle"
  BY DEF GraphInit
<1>3. WithDepth = {}
  BY <1>2 DEF WithDepth
<1>4. depth \in [Node -> Int] /\ reverse \in [Node -> SUBSET Node]
  BY DEF GraphInit, NoDepth
<1>5. Layered
  BY <1>3 DEF GraphInit, Layered
<1> QED
  BY <1>1, <1>2, <1>4, <1>5 DEF LayerInv

\* Before the groups are computed nothing is done, and afterwards a step of the
\* sort's and the graph's variables disturbs nothing.
LEMMA LayerEarly ==
  ASSUME LayerInv, SortInv', at = 1, UNCHANGED <<at, depth>>,
         reverse' \in [Node -> SUBSET Node],
         phase' # "grouped"
  PROVE  LayerInv'
<1>1. WithDepth = {} /\ WithDepth' = {}
  BY DEF WithDepth
<1>2. Layered'
  BY <1>1 DEF LayerInv, Layered
<1>3. Len(order') \in Nat
  BY DEF SortInv, Types
<1> QED
  BY <1>2, <1>3 DEF LayerInv

LEMMA LayerKept ==
  ASSUME LayerInv, SortInv', UNCHANGED <<order, reverse, at, depth>>,
         phase' \in {"depths", "missing", "grouped"} \/ phase' = phase,
         phase' = "grouped" => phase = "grouped" \/ at > Len(order)
  PROVE  LayerInv'
<1>1. Layered'
  BY DEF LayerInv, Layered, WithDepth
<1> QED
  BY <1>1 DEF LayerInv

\* One more than the largest depth below is the depth of a layer.
LEMMA DepthOK ==
  ASSUME LayerInv, DepthOfNext, SortInv'
  PROVE  LayerInv'
<1> DEFINE n == order[at]
           d == IF reverse[n] = {} THEN 0 ELSE 1 + MaxOf({depth[m] : m \in reverse[n]})
<1>0. /\ order \in Seq(Node) /\ Distinct(order) /\ Len(order) \in Nat
      /\ at \in 1..Len(order) /\ phase = "depths"
      /\ reverse \in [Node -> SUBSET Node] /\ depth \in [Node -> Int] /\ Layered
  BY DEF LayerInv, SortInv, Types, DepthOfNext
<1>1. /\ Missing(n) = {} /\ depth' = [depth EXCEPT ![n] = d] /\ at' = at + 1
      /\ UNCHANGED <<phase, order, reverse>>
  BY DEF DepthOfNext, sort
<1>2. n \in Node /\ n \notin WithDepth /\ WithDepth \subseteq Node
  BY <1>0 DEF WithDepth, Distinct
<1>3. WithDepth' = WithDepth \cup {n}
  <2>1. \A j \in 1..at : j = at \/ j \in 1..at - 1
    BY <1>0
  <2>2. at' - 1 = at /\ order' = order
    BY <1>0, <1>1
  <2> QED
    BY <1>0, <2>1, <2>2 DEF WithDepth
<1>4. \A m \in reverse[n] : m \in WithDepth /\ m \in Node /\ depth[m] \in Nat /\ depth[m] < at
  <2> SUFFICES ASSUME NEW m \in reverse[n]
               PROVE  m \in WithDepth /\ m \in Node /\ depth[m] \in Nat /\ depth[m] < at
    OBVIOUS
  <2>1. m \in Node /\ depth[m] # NoDepth
    BY <1>0, <1>1, <1>2 DEF Missing
  <2> QED
    BY <1>0, <2>1 DEF Layered
<1>5. /\ d \in Nat /\ d <= at
      /\ \A m \in reverse[n] : depth[m] < d
      /\ d > 0 => \E m \in reverse[n] : depth[m] = d - 1
  <2>1. CASE reverse[n] = {}
    BY <1>0, <2>1
  <2>2. CASE reverse[n] # {}
    <3> DEFINE S == {depth[m] : m \in reverse[n]}
    <3>1. S \subseteq Nat /\ S # {} /\ at \in Nat /\ \A x \in S : x <= at
      BY <1>0, <1>4, <2>2
    <3>2. MaxOf(S) \in S /\ \A y \in S : y <= MaxOf(S)
      <4> HIDE DEF S
      <4> QED
        BY <3>1, LargestElement
    <3>3. d = 1 + MaxOf(S)
      BY <2>2
    <3>4. MaxOf(S) \in Nat /\ MaxOf(S) < at
      BY <1>0, <1>4, <3>2
    <3>5. \A m \in reverse[n] : depth[m] \in Nat /\ depth[m] <= MaxOf(S)
      BY <1>4, <3>2
    <3>6. \E m \in reverse[n] : depth[m] = MaxOf(S)
      BY <3>2
    <3> HIDE DEF S, d
    <3> QED
      BY <1>0, <3>3, <3>4, <3>5, <3>6
  <2> QED
    BY <2>1, <2>2
<1> HIDE DEF n, d
<1>6. depth' \in [Node -> Int] /\ depth'[n] = d /\ \A m \in Node \ {n} : depth'[m] = depth[m]
  BY <1>0, <1>1, <1>2, <1>5
<1>7. ASSUME NEW x \in Node
      PROVE  IF x \in WithDepth'
             THEN /\ depth'[x] \in Nat /\ depth'[x] < at'
                  /\ \A m \in reverse[x] : m \in WithDepth' /\ depth'[m] < depth'[x]
                  /\ depth'[x] > 0 => \E m \in reverse[x] : depth'[m] = depth'[x] - 1
             ELSE depth'[x] = NoDepth
  <2>1. CASE x = n
    <3>1. \A m \in reverse[n] : m # n /\ depth'[m] = depth[m]
      BY <1>2, <1>4, <1>6
    <3> QED
      BY <1>0, <1>1, <1>3, <1>4, <1>5, <1>6, <2>1, <3>1
  <2>2. CASE x # n /\ x \in WithDepth
    <3>1. /\ depth[x] \in Nat /\ depth[x] < at
          /\ \A m \in reverse[x] : m \in WithDepth /\ depth[m] < depth[x]
          /\ depth[x] > 0 => \E m \in reverse[x] : depth[m] = depth[x] - 1
      BY <1>0, <2>2 DEF Layered
    <3>2. \A m \in reverse[x] : m \in Node /\ m # n /\ depth'[m] = depth[m]
      BY <1>2, <1>6, <3>1
    <3> QED
      BY <1>0, <1>1, <1>3, <1>6, <2>2, <3>1, <3>2
  <2>3. CASE x # n /\ x \notin WithDepth
    BY <1>0, <1>3, <1>6, <2>3 DEF Layered
  <2> QED
    BY <2>1, <2>2, <2>3
<1>8. Layered'
  BY <1>1, <1>7 DEF Layered, NoDepth
<1>9. at' \in 1..Len(order') + 1
  BY <1>0, <1>1
<1> QED
  BY <1>0, <1>1, <1>6, <1>8, <1>9 DEF LayerInv

LEMMA LayerStep == LayerInv /\ [GraphNext]_graphVars => LayerInv'
<1> SUFFICES ASSUME LayerInv, [GraphNext]_graphVars PROVE LayerInv'
  OBVIOUS
<1>0. SortInv' /\ reverse \in [Node -> SUBSET Node]
      /\ (phase \notin {"depths", "missing", "grouped"} => at = 1)
  BY SortStep DEF LayerInv
<1>1. CASE Seed \/ Visit \/ SortEnds
  <2>1. UNCHANGED <<reverse, at, depth>> /\ at = 1 /\ phase' # "grouped"
    BY <1>0, <1>1 DEF Seed, Visit, SortEnds, grouping
  <2> QED
    BY <1>0, <2>1, LayerEarly
<1>2. CASE ReadEdges
  <2>1. at = 1 /\ UNCHANGED <<at, depth>> /\ phase' # "grouped"
    BY <1>0, <1>2 DEF ReadEdges
  <2>2. \A n \in Node : Dependencies(n) \subseteq Node
    BY DEF LayerInv, SortInv, Types, Dependencies
  <2>3. reverse' \in [Node -> SUBSET Node]
    BY <1>2, <2>2 DEF ReadEdges
  <2> QED
    BY <1>0, <2>1, <2>3, LayerEarly
<1>3. CASE DepthOfNext
  BY <1>0, <1>3, DepthOK
<1>4. CASE DependencyMissing \/ Grouped
  BY <1>0, <1>4, LayerKept DEF DependencyMissing, Grouped, sort, grouping
<1>5. CASE \/ \E n \in Node : \E D \in Declarable : AddNode(n, D)
           \/ \E m, n \in Node : AddEdge(m, n)
           \/ UNCHANGED graphVars
  <2>1. UNCHANGED <<phase, sort, grouping>>
    BY <1>5 DEF AddNode, AddEdge, graphVars
  <2> QED
    BY <1>0, <2>1, LayerKept DEF sort, grouping
<1> QED
  BY <1>1, <1>2, <1>3, <1>4, <1>5 DEF GraphNext

\* The variables of topological_sort and parallel_groups keep their types: an
\* in-degree, for one, never falls below zero.
THEOREM GraphTypes == GraphSpec => []GraphTypeOK
<1>1. LayerInv => GraphTypeOK
  BY DEF LayerInv, SortInv, Types, GraphTypeOK
<1> QED
  BY LayerInit, LayerStep, <1>1, PTL DEF GraphSpec

\* topological_sort emits a node after all of its known dependencies, and once,
\* for any graph and whatever other threads add after the sort.
THEOREM GraphOrder == GraphSpec => []OrderRespectsDependencies
<1>1. LayerInv => OrderRespectsDependencies
  BY DEF LayerInv, SortInv
<1> QED
  BY LayerInit, LayerStep, <1>1, PTL DEF GraphSpec

\* topological_sort raises its ValueError only when there is a cycle.
THEOREM GraphCycle == GraphSpec => []CycleIsReal
<1>1. LayerInv => CycleIsReal
  BY DEF LayerInv, SortInv
<1> QED
  BY LayerInit, LayerStep, <1>1, PTL DEF GraphSpec

\* The groups of parallel_groups are layers, in every call that returns, also
\* when edges arrive between the sort and the reading of the dependencies.
THEOREM GraphLayers == GraphSpec => []GroupsAreLayers
<1>1. LayerInv => GroupsAreLayers
  <2> SUFFICES ASSUME LayerInv, phase = "grouped", NEW n \in Emitted
               PROVE  /\ depth[n] >= 0
                      /\ \A m \in reverse[n] : m \in Emitted /\ depth[m] < depth[n]
                      /\ depth[n] > 0 => \E m \in reverse[n] : depth[m] = depth[n] - 1
    BY DEF GroupsAreLayers
  <2>1. order \in Seq(Node) /\ at = Len(order) + 1 /\ Len(order) \in Nat
    BY DEF LayerInv, SortInv, Types
  <2>2. WithDepth = Emitted
    BY <2>1 DEF WithDepth, Emitted, Range
  <2>3. n \in Node
    BY <2>1 DEF Emitted, Range
  <2> QED
    BY <2>2, <2>3 DEF LayerInv, Layered
<1> QED
  BY LayerInit, LayerStep, <1>1, PTL DEF GraphSpec

\* The lists that parallel_groups fills in the end: the nodes of each depth,
\* each once.
ByDepth(groups) ==
    /\ groups \in Seq(Seq(Node))
    /\ \A g \in DOMAIN groups :
          Distinct(groups[g]) /\ Range(groups[g]) = {n \in Emitted : depth[n] = g - 1}
    /\ \A n \in Emitted : depth[n] + 1 \in DOMAIN groups

\* The two modules compose: the groups that a call of parallel_groups returns
\* are what module Pipeline assumes of Nodes, Deps and Groups, for the graph as
\* the call read it.
THEOREM GroupsServePipeline ==
  GraphSpec => [](phase = "grouped" =>
                     /\ \A n \in Emitted : reverse[n] \subseteq Emitted
                     /\ \A G : ByDepth(G) => Layering(Emitted, reverse, G))
<1>1. GraphTypeOK /\ GroupsAreLayers =>
        (phase = "grouped" =>
            /\ \A n \in Emitted : reverse[n] \subseteq Emitted
            /\ \A G : ByDepth(G) => Layering(Emitted, reverse, G))
  <2> SUFFICES ASSUME GraphTypeOK, GroupsAreLayers, phase = "grouped"
               PROVE  /\ \A n \in Emitted : reverse[n] \subseteq Emitted
                      /\ \A G : ByDepth(G) => Layering(Emitted, reverse, G)
    OBVIOUS
  <2>1. \A n \in Emitted : \A m \in reverse[n] : m \in Emitted /\ depth[m] < depth[n]
    BY DEF GroupsAreLayers
  <2>2. ASSUME NEW G, ByDepth(G) PROVE Layering(Emitted, reverse, G)
    <3>1. \A g \in DOMAIN G : /\ g \in Nat /\ DOMAIN G[g] \subseteq Nat
                             /\ \A i, j \in DOMAIN G[g] : G[g][i] = G[g][j] => i = j
      BY <2>2 DEF ByDepth, Distinct
    <3>2. \A g \in DOMAIN G : \A i \in DOMAIN G[g] :
             G[g][i] \in Emitted /\ depth[G[g][i]] = g - 1
      BY <2>2 DEF ByDepth, Range
    <3>3. \A n \in Emitted : \E g \in DOMAIN G : n \in Range(G[g])
      <4> SUFFICES ASSUME NEW n \in Emitted PROVE n \in Range(G[depth[n] + 1])
                                                /\ depth[n] + 1 \in DOMAIN G
        OBVIOUS
      <4>1. depth[n] \in Int
        BY DEF GraphTypeOK, Emitted, Range
      <4> QED
        BY <2>2, <4>1 DEF ByDepth
    <3>4. ASSUME NEW g \in DOMAIN G, NEW h \in DOMAIN G,
                 NEW i \in DOMAIN G[g], NEW j \in DOMAIN G[h]
          PROVE  /\ G[g][i] = G[h][j] => g = h /\ i = j
                 /\ G[g][i] \in reverse[G[h][j]] => g < h
      BY <2>1, <3>1, <3>2
    <3> QED
      BY <3>3, <3>4 DEF Layering
  <2> QED
    BY <2>1, <2>2
<1> QED
  BY GraphTypes, GraphLayers, <1>1, PTL
=============================================================================
