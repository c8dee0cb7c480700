------------------------------- MODULE Training --------------------------------
(***************************************************************************)
(* training/sft_trainer.py over infrastructure/checkpoint_manager/: the    *)
(* training loop and the checkpoint-<step> directories it writes, prunes   *)
(* and loads again.                                                        *)
(*                                                                         *)
(* A save writes weights, training state and metadata in place, one after  *)
(* the other, then deletes what exceeds save_total_limit. It may fail at   *)
(* any file (the trainer logs that and goes on) and the process may die at *)
(* any point. A file is the number of the save that wrote it: tensors are  *)
(* left out, and of the metadata only the step is kept.                    *)
(***************************************************************************)
EXTENDS Integers, FiniteSets, FiniteSetsExt

CONSTANTS
    SaveSteps,  \* config.save_steps
    Batches,    \* batches of an epoch
    Limit,      \* save_total_limit; 0 keeps everything
    MaxEpochs,  \* a bound on the epochs of a call of train
    MaxStep,    \* a bound on global_step
    MaxSaves    \* a bound on the saves

ASSUME SaveStepsAssumption == SaveSteps \in Nat \ {0}
ASSUME BatchesAssumption   == Batches \in Nat \ {0}
ASSUME LimitAssumption     == Limit \in Nat
ASSUME BoundAssumption     == MaxEpochs \in Nat /\ MaxStep \in Nat /\ MaxSaves \in Nat

Absent == 0
Torn   == -1
Steps  == 0..MaxStep
Files  == {"weights", "state", "meta"}
NoFile == [f \in Files |-> Absent]

VARIABLES
    dirs,      \* the steps that have a checkpoint directory
    disk,      \* what is in it
    pc,        \* where the trainer is
    back,      \*   and where a save returns to
    step,      \* global_step
    batch,     \* batches of the epoch so far
    epochs,    \* epochs still to run
    excess,    \* the directories a prune still has to delete
    origin,    \* which saves the last load took things from
    source,    \*   and the directory it read
    saves,     \* how many saves were begun
    last,      \* history: the step of the last save that was completed
    unsettled  \* history: directories in which a save, or a deletion, has
               \*   begun and not ended

store   == <<dirs, disk>>
loop    == <<step, batch, epochs>>
memory  == <<origin, source>>
history == <<last, unsettled>>
vars    == <<store, pc, back, loop, excess, memory, saves, history>>

Init ==
    /\ dirs = {}
    /\ disk = [s \in Steps |-> NoFile]
    /\ pc = "idle"
    /\ back = "batch"
    /\ step = 0
    /\ batch = 0
    /\ epochs = 0
    /\ excess = {}
    /\ origin = NoFile
    /\ source = 0
    /\ saves = 0
    /\ last = 0
    /\ unsettled = {}

-----------------------------------------------------------------------------
(* save_checkpoint *)

\* mkdir, which takes the directory of an earlier save of the step as it is
SaveNow(return) ==
    /\ saves < MaxSaves
    /\ saves' = saves + 1
    /\ dirs' = dirs \cup {step'}
    /\ unsettled' = unsettled \cup {step'}
    /\ back' = return
    /\ pc' = "weights"

\* (mutants are marked so: each is a plausible bug that a run must catch)
\* mutant: the newest are deleted
Newest(D) ==
    {s \in D : Limit # 0 /\ Cardinality({u \in D : u <= s}) > Limit}

\* prune_checkpoints: all but the Limit highest steps
Excess(D) ==
    {s \in D : Limit # 0 /\ Cardinality({u \in D : u >= s}) > Limit}

WriteFile(f, next) ==
    /\ pc = f
    /\ disk' = [disk EXCEPT ![step][f] = saves]
    /\ pc' = next
    /\ UNCHANGED <<dirs, back, loop, memory, saves>>

WriteWeights == WriteFile("weights", "state") /\ UNCHANGED <<excess, history>>

\* mutant: the training state is forgotten
SkipState == /\ pc = "state"
             /\ pc' = "meta"
             /\ UNCHANGED <<store, back, loop, excess, memory, saves, history>>

WriteState == WriteFile("state", "meta") /\ UNCHANGED <<excess, history>>

WriteMeta ==
    /\ WriteFile("meta", "prune")
    /\ excess' = Excess(dirs)
    /\ last' = step
    /\ unsettled' = unsettled \ {step}

\* the oldest first; rmtree may fail half way, which is ignored
Prune ==
    LET s == Min(excess) IN
    /\ pc = "prune"
    /\ excess # {}
    /\ excess' = excess \ {s}
    /\ \/ /\ dirs' = dirs \ {s}
          /\ disk' = [disk EXCEPT ![s] = NoFile]
          /\ unsettled' = unsettled \ {s}
       \/ /\ \E gone \in SUBSET Files :
                disk' = [disk EXCEPT ![s] = [f \in Files |-> IF f \in gone THEN Absent ELSE @[f]]]
          /\ unsettled' = unsettled \cup {s}
          /\ UNCHANGED dirs
    /\ UNCHANGED <<pc, back, loop, memory, saves, last>>

Saved ==
    /\ pc = "prune"
    /\ excess = {}
    /\ pc' = back
    /\ UNCHANGED <<store, back, loop, excess, memory, saves, history>>

\* what a write that is cut short leaves: the old file, or a part of the new
CutShort == {disk} \cup
    (IF pc \in Files THEN {[disk EXCEPT ![step][pc] = Torn]} ELSE {})

\* writing raises; _save_checkpoint logs it and training goes on
SaveFails ==
    /\ pc \in Files
    /\ disk' \in CutShort
    /\ pc' = back
    /\ UNCHANGED <<dirs, back, loop, excess, memory, saves, history>>

-----------------------------------------------------------------------------
(* The training loop *)

Train ==
    /\ pc \in {"idle", "loaded"}
    /\ epochs' \in 1..MaxEpochs
    /\ batch' = 0
    /\ pc' = "batch"
    /\ UNCHANGED <<store, back, step, excess, memory, saves, history>>

\* one batch, and a save every save_steps batches
Batch ==
    /\ pc = "batch"
    /\ batch < Batches
    /\ step < MaxStep
    /\ step' = step + 1
    /\ batch' = batch + 1
    /\ IF step' % SaveSteps = 0
       THEN SaveNow("batch")
       ELSE UNCHANGED <<dirs, pc, back, saves, unsettled>>
    /\ UNCHANGED <<disk, epochs, excess, memory, last>>

\* the end of an epoch; a better evaluation saves the step once more
EndOfEpoch ==
    /\ pc = "batch"
    /\ batch = Batches
    /\ UNCHANGED step
    /\ epochs' = epochs - 1
    /\ batch' = 0
    /\ LET next == IF epochs = 1 THEN "idle" ELSE "batch" IN
       \/ SaveNow(next)
       \/ pc' = next /\ UNCHANGED <<dirs, back, saves, unsettled>>
    /\ UNCHANGED <<disk, excess, memory, last>>

-----------------------------------------------------------------------------
(* load_checkpoint *)

\* mutant: a file cut short reads like any other
ReadsAnyway(s, f) == TRUE

Reads(s, f) == disk[s][f] # Torn

\* the weights come first, into the model
WeightsRead(s) == disk[s]["weights"] # Absent /\ Reads(s, "weights")

\* then metadata and training state, where there are any; the state only if
\* the caller allows pickles
RestRead(s, unsafe) ==
    /\ Reads(s, "meta")
    /\ disk[s]["state"] # Absent => unsafe /\ Reads(s, "state")

LoadRaises(s, unsafe) ==
    IF WeightsRead(s)
    THEN origin' = [origin EXCEPT !["weights"] = disk[s]["weights"]] /\ source' = s
    ELSE UNCHANGED memory

\* The caller's step is that of the metadata, else that of the state, else 0.
\* SFTTrainer.load_checkpoint never allows pickles; a caller of the manager may.
Load(s, unsafe) ==
    /\ pc \in {"idle", "loaded"}
    /\ IF WeightsRead(s) /\ RestRead(s, unsafe)
       THEN /\ origin' = disk[s]
            /\ source' = s
            /\ step' = IF disk[s]["meta"] # Absent \/ disk[s]["state"] # Absent THEN s ELSE 0
            /\ pc' = "loaded"
       ELSE LoadRaises(s, unsafe) /\ pc' = "idle" /\ UNCHANGED step
    /\ UNCHANGED <<store, back, batch, epochs, excess, saves, history>>

\* SFTTrainer.resume loads the highest step, then unpacks a dict as a pair,
\* which always raises
Resume ==
    /\ pc \in {"idle", "loaded"}
    /\ dirs # {}
    /\ LoadRaises(Max(dirs), FALSE)
    /\ pc' = "idle"
    /\ UNCHANGED <<store, back, loop, excess, saves, history>>

-----------------------------------------------------------------------------

\* the process dies; a new one starts at step 0
Crash ==
    /\ disk' \in CutShort
    /\ pc' = "idle"
    /\ step' = 0 /\ batch' = 0 /\ epochs' = 0
    /\ excess' = {}
    /\ origin' = NoFile /\ source' = 0
    /\ UNCHANGED <<dirs, back, saves, history>>

Next ==
    \/ Train \/ Batch \/ EndOfEpoch
    \/ WriteWeights \/ WriteState \/ WriteMeta \/ Prune \/ Saved \/ SaveFails
    \/ \E s \in dirs, unsafe \in BOOLEAN : Load(s, unsafe)
    \/ Resume \/ Crash

Spec == Init /\ [][Next]_vars

-----------------------------------------------------------------------------
(* Properties *)

\* Every variable has its type; only files that could be read were loaded.
TypeOK ==
    /\ dirs \subseteq Steps
    /\ disk \in [Steps -> [Files -> {Torn} \cup 0..MaxSaves]]
    /\ \A s \in Steps \ dirs : disk[s] = NoFile
    /\ pc \in Files \cup {"idle", "loaded", "batch", "prune"}
    /\ back \in {"idle", "batch"}
    /\ step \in Steps /\ batch \in 0..Batches /\ epochs \in 0..MaxEpochs
    /\ excess \subseteq dirs
    /\ origin \in [Files -> 0..MaxSaves] /\ source \in Steps
    /\ saves \in 0..MaxSaves
    /\ last \in Steps
    /\ unsettled \subseteq dirs

\* A load that returns has restored weights, optimizer and step of one save,
\* through overwrites in place, failed saves, failed deletions and crashes, if
\* the last save into that directory was completed.
LoadIsOneSave ==
    pc = "loaded" /\ source \notin unsettled =>
        /\ origin["weights"] = origin["state"] /\ origin["state"] = origin["meta"]
        /\ origin["weights"] # Absent
        /\ step = source

\* The last save that was completed is on disk, complete, until the directory
\* is written again, or unless save_total_limit directories have higher steps:
\* those of an earlier process, since a run that was not resumed counts from 0.
LastSaveKept ==
    last # 0 /\ last \notin unsettled =>
        \/ last \in dirs /\ \E n \in 1..MaxSaves : disk[last] = [f \in Files |-> n]
        \/ Limit # 0 /\ Cardinality({s \in dirs : s > last}) >= Limit
=============================================================================
