---------------------------- MODULE TrainingProofs -----------------------------
(***************************************************************************)
(* For any save_steps, save_total_limit and bounds: a checkpoint that is   *)
(* loaded is one save, and pruning keeps the last save that was completed, *)
(* through saves in place, failures and crashes.                           *)
(***************************************************************************)
EXTENDS Training, FiniteSetTheorems, WellFoundedInduction, TLAPS

Complete(s) == \E n \in 1..MaxSaves : disk[s] = [f \in Files |-> n]

\* A save under way has its directory marked, and has written what comes before.
Saving ==
    /\ pc \in Files => step \in unsettled /\ saves # 0
    /\ pc \in {"state", "meta"} => disk[step]["weights"] = saves
    /\ pc = "meta" => disk[step]["state"] = saves
    /\ pc = "batch" \/ (pc \in Files \cup {"prune"} /\ back = "batch") => epochs # 0

\* Whatever is not marked is one save.
Settled == \A s \in dirs \ unsettled : Complete(s)

StoreInv == TypeOK /\ Saving /\ Settled

-----------------------------------------------------------------------------
(* The lowest and the highest step *)

LEMMA LeastElement ==
  ASSUME NEW S, S \subseteq Nat, S # {}
  PROVE  \E x \in S : \A y \in S : x =< y
<1>1. \E R : IsWellFoundedOn(R, Nat) /\ \A x \in Nat : \A y \in Nat : y < x => <<y, x>> \in R
  <2>1. \A x \in Nat : \A y \in Nat : y < x => <<y, x>> \in OpToRel(<, Nat)
    BY DEF OpToRel
  <2> QED
    BY <2>1, NatLessThanWellFounded
<1>2. PICK R : IsWellFoundedOn(R, Nat) /\ \A x \in Nat : \A y \in Nat : y < x => <<y, x>> \in R
  BY <1>1
<1>3. PICK x \in S : \A y \in S : <<y, x>> \notin R
  BY <1>2, WFMin
<1>4. \A y \in S : ~(y < x) /\ x \in Nat /\ y \in Nat
  BY <1>2, <1>3
<1> QED
  BY <1>4

LEMMA MinIsLeast ==
  ASSUME NEW S, S \subseteq Nat, S # {}
  PROVE  Min(S) \in S /\ \A y \in S : Min(S) <= y
  BY LeastElement DEF Min

LEMMA MaxIsGreatest ==
  ASSUME NEW S, S \subseteq Steps, S # {}
  PROVE  Max(S) \in S /\ \A y \in S : Max(S) >= y
<1> DEFINE Mirrored == {MaxStep - x : x \in S}
<1>1. Mirrored \subseteq Nat /\ Mirrored # {}
  BY BoundAssumption DEF Steps
<1>2. PICK m \in Mirrored : \A y \in Mirrored : m =< y
  BY <1>1, LeastElement
<1>3. PICK x \in S : m = MaxStep - x
  BY <1>2
<1>4. ASSUME NEW y \in S PROVE x >= y
  <2>1. MaxStep - x =< MaxStep - y
    BY <1>2, <1>3
  <2> QED
    BY <2>1, BoundAssumption DEF Steps
<1> QED
  BY <1>4 DEF Max

-----------------------------------------------------------------------------
(* Typing, and the files of a save *)

LEMMA StoreInit == Init => StoreInv
  BY BoundAssumption, BatchesAssumption
     DEF Init, StoreInv, TypeOK, Saving, Settled, Steps, Files, NoFile, Absent, Torn

\* What is left of the store when writing is cut short, in the directory of
\* the save under way.
LEMMA CutShortType ==
  ASSUME StoreInv, disk' \in CutShort
  PROVE  /\ disk' \in [Steps -> [Files -> {Torn} \cup 0..MaxSaves]]
         /\ \A s \in Steps : disk'[s] # disk[s] => pc \in Files /\ s = step
<1>1. CASE disk' = disk
  BY <1>1 DEF StoreInv, TypeOK
<1>2. CASE pc \in Files /\ disk' = [disk EXCEPT ![step][pc] = Torn]
  BY <1>2 DEF StoreInv, TypeOK
<1> QED
  BY <1>1, <1>2 DEF CutShort

LEMMA StoreStep == StoreInv /\ [Next]_vars => StoreInv'
<1> SUFFICES ASSUME StoreInv, [Next]_vars PROVE StoreInv'
  OBVIOUS
<1> USE BoundAssumption, BatchesAssumption, SaveStepsAssumption
        DEF store, loop, memory, history
<1>0. /\ TypeOK /\ Saving /\ Settled
      /\ Absent \in 0..MaxSaves /\ Absent # Torn /\ Torn \notin 0..MaxSaves
      /\ \A s \in Steps : s \in Nat
  BY DEF StoreInv, Absent, Torn, Steps
<1>1. CASE Train
  <2>1. TypeOK'
    BY <1>0, <1>1 DEF Train, TypeOK, Files
  <2> QED
    BY <1>0, <1>1, <2>1 DEF Train, StoreInv, Saving, Settled, Complete, Files
<1>2. CASE Batch
  <2>1. TypeOK'
    <3>1. step' = step + 1 /\ step < MaxStep /\ batch' = batch + 1 /\ batch < Batches
      BY <1>2 DEF Batch
    <3>2. step' \in Steps /\ batch' \in 0..Batches
      BY <1>0, <3>1 DEF TypeOK, Steps
    <3>3. UNCHANGED <<disk, epochs, excess, memory, last>>
      BY <1>2 DEF Batch
    <3>4. CASE SaveNow("batch")
      <4>1. /\ saves < MaxSaves /\ saves' = saves + 1 /\ dirs' = dirs \cup {step'}
            /\ unsettled' = unsettled \cup {step'} /\ back' = "batch" /\ pc' = "weights"
        BY <3>4 DEF SaveNow
      <4>2. saves' \in 0..MaxSaves
        BY <1>0, <4>1 DEF TypeOK
      <4> QED
        BY <1>0, <3>2, <3>3, <4>1, <4>2 DEF TypeOK, Files
    <3>5. CASE UNCHANGED <<dirs, pc, back, saves, unsettled>>
      BY <1>0, <3>2, <3>3, <3>5 DEF TypeOK
    <3> QED
      BY <1>2, <3>4, <3>5 DEF Batch
  <2>2. Saving'
    BY <1>0, <1>2 DEF Batch, SaveNow, TypeOK, Saving, Files
  <2>3. Settled'
    BY <1>0, <1>2 DEF Batch, SaveNow, Settled, Complete
  <2> QED
    BY <2>1, <2>2, <2>3 DEF StoreInv
<1>3. CASE EndOfEpoch
  <2>1. TypeOK'
    <3> DEFINE After == IF epochs = 1 THEN "idle" ELSE "batch"
    <3>1. epochs' = epochs - 1 /\ batch' = 0 /\ UNCHANGED <<step, disk, excess, memory, last>>
      BY <1>3 DEF EndOfEpoch
    <3>2. epochs' \in 0..MaxEpochs /\ batch' \in 0..Batches
      BY <1>0, <1>3, <3>1 DEF EndOfEpoch, TypeOK, Saving
    <3>3. CASE SaveNow(After)
      <4>1. /\ saves < MaxSaves /\ saves' = saves + 1 /\ dirs' = dirs \cup {step'}
            /\ unsettled' = unsettled \cup {step'} /\ back' = After /\ pc' = "weights"
        BY <3>3 DEF SaveNow
      <4>2. saves' \in 0..MaxSaves
        BY <1>0, <4>1 DEF TypeOK
      <4> QED
        BY <1>0, <3>1, <3>2, <4>1, <4>2 DEF TypeOK, Files
    <3>4. CASE pc' = After /\ UNCHANGED <<dirs, back, saves, unsettled>>
      BY <1>0, <3>1, <3>2, <3>4 DEF TypeOK
    <3> QED
      BY <1>3, <3>3, <3>4 DEF EndOfEpoch
  <2>2. Saving'
    BY <1>0, <1>3 DEF EndOfEpoch, SaveNow, TypeOK, Saving, Files
  <2>3. Settled'
    BY <1>0, <1>3 DEF EndOfEpoch, SaveNow, Settled, Complete
  <2> QED
    BY <2>1, <2>2, <2>3 DEF StoreInv
<1>4. CASE WriteWeights
  <2>1. /\ pc = "weights" /\ pc' = "state"
        /\ disk' = [disk EXCEPT ![step]["weights"] = saves]
        /\ UNCHANGED <<dirs, back, loop, memory, saves, excess, history>>
    BY <1>4 DEF WriteWeights, WriteFile
  <2>2. TypeOK'
    BY <1>0, <2>1 DEF TypeOK, Saving, Files
  <2>3. Saving'
    BY <1>0, <2>1 DEF TypeOK, Saving, Files
  <2>4. Settled'
    <3>1. step \in unsettled
      BY <1>0, <2>1 DEF Saving, Files
    <3>2. \A s \in dirs \ unsettled : disk'[s] = disk[s]
      BY <1>0, <2>1, <3>1 DEF TypeOK
    <3> QED
      BY <1>0, <2>1, <3>2 DEF Settled, Complete
  <2> QED
    BY <2>2, <2>3, <2>4 DEF StoreInv
<1>5. CASE WriteState
  <2>1. /\ pc = "state" /\ pc' = "meta"
        /\ disk' = [disk EXCEPT ![step]["state"] = saves]
        /\ UNCHANGED <<dirs, back, loop, memory, saves, excess, history>>
    BY <1>5 DEF WriteState, WriteFile
  <2>2. TypeOK'
    BY <1>0, <2>1 DEF TypeOK, Saving, Files
  <2>3. Saving'
    BY <1>0, <2>1 DEF TypeOK, Saving, Files
  <2>4. Settled'
    <3>1. step \in unsettled
      BY <1>0, <2>1 DEF Saving, Files
    <3>2. \A s \in dirs \ unsettled : disk'[s] = disk[s]
      BY <1>0, <2>1, <3>1 DEF TypeOK
    <3> QED
      BY <1>0, <2>1, <3>2 DEF Settled, Complete
  <2> QED
    BY <2>2, <2>3, <2>4 DEF StoreInv
<1>6. CASE WriteMeta
  <2>1. /\ pc = "meta" /\ pc' = "prune"
        /\ disk' = [disk EXCEPT ![step]["meta"] = saves]
        /\ excess' = Excess(dirs) /\ last' = step /\ unsettled' = unsettled \ {step}
        /\ UNCHANGED <<dirs, back, loop, memory, saves>>
    BY <1>6 DEF WriteMeta, WriteFile
  <2>2. TypeOK'
    BY <1>0, <2>1 DEF TypeOK, Saving, Files, Excess
  <2>3. Saving'
    BY <1>0, <2>1 DEF TypeOK, Saving, Files
  <2>4. \A s \in Steps : s # step => disk'[s] = disk[s]
    BY <2>1
  <2>5. disk'[step] = [f \in Files |-> saves]
    <3>1. disk[step]["weights"] = saves /\ disk[step]["state"] = saves
      BY <1>0, <2>1 DEF Saving
    <3>2. disk'[step] = [disk[step] EXCEPT !["meta"] = saves]
      BY <1>0, <2>1 DEF TypeOK
    <3>3. disk[step] \in [Files -> {Torn} \cup 0..MaxSaves]
      BY <1>0 DEF TypeOK
    <3>4. \A f \in Files : [disk[step] EXCEPT !["meta"] = saves][f] = saves
      BY <3>1, <3>3 DEF Files
    <3> QED
      BY <3>2, <3>3, <3>4
  <2>6. saves \in 1..MaxSaves
    BY <1>0, <2>1 DEF TypeOK, Saving, Files
  <2>7. ASSUME NEW s \in dirs' \ unsettled' PROVE Complete(s)'
    <3>1. s \in Steps /\ s \in dirs
      BY <1>0, <2>1 DEF TypeOK
    <3>2. CASE s = step
      BY <2>5, <2>6, <3>2 DEF Complete
    <3>3. CASE s # step
      BY <1>0, <2>1, <2>4, <2>7, <3>1, <3>3 DEF Settled, Complete
    <3> QED
      BY <3>2, <3>3
  <2>8. Settled'
    BY <2>7 DEF Settled
  <2> QED
    BY <2>2, <2>3, <2>8 DEF StoreInv
<1>7. CASE Prune
  <2> DEFINE s == Min(excess)
  <2>1. s \in excess /\ s \in dirs /\ s \in Steps
    BY <1>0, <1>7, MinIsLeast DEF Prune, TypeOK, Steps
  <2>2. /\ pc = "prune" /\ excess' = excess \ {s}
        /\ UNCHANGED <<pc, back, loop, memory, saves, last>>
    BY <1>7 DEF Prune
  <2> HIDE DEF s
  <2>3. CASE /\ dirs' = dirs \ {s}
             /\ disk' = [disk EXCEPT ![s] = NoFile]
             /\ unsettled' = unsettled \ {s}
    <3>1. TypeOK'
      BY <1>0, <2>1, <2>2, <2>3 DEF TypeOK, NoFile
    <3> QED
      BY <1>0, <2>1, <2>2, <2>3, <3>1 DEF StoreInv, TypeOK, Saving, Settled, Complete, Files
  <2>4. CASE /\ \E gone \in SUBSET Files :
                   disk' = [disk EXCEPT ![s] =
                               [f \in Files |-> IF f \in gone THEN Absent ELSE @[f]]]
             /\ unsettled' = unsettled \cup {s}
             /\ UNCHANGED dirs
    <3>1. TypeOK'
      BY <1>0, <2>1, <2>2, <2>4 DEF TypeOK
    <3> QED
      BY <1>0, <2>1, <2>2, <2>4, <3>1 DEF StoreInv, TypeOK, Saving, Settled, Complete, Files
  <2> QED
    BY <1>7, <2>3, <2>4 DEF Prune, s
<1>8. CASE Saved
  <2>1. TypeOK'
    BY <1>0, <1>8 DEF Saved, TypeOK
  <2> QED
    BY <1>0, <1>8, <2>1 DEF Saved, StoreInv, TypeOK, Saving, Settled, Complete, Files
<1>9. CASE SaveFails
  <2>1. /\ pc \in Files /\ pc' = back
        /\ UNCHANGED <<dirs, back, loop, excess, memory, saves, history>>
    BY <1>9 DEF SaveFails
  <2>2. /\ disk' \in [Steps -> [Files -> {Torn} \cup 0..MaxSaves]]
        /\ \A s \in Steps : disk'[s] # disk[s] => s = step
    BY <1>9, CutShortType DEF SaveFails
  <2>3. TypeOK'
    BY <1>0, <2>1, <2>2 DEF TypeOK, Saving
  <2>4. Saving'
    BY <1>0, <2>1 DEF TypeOK, Saving, Files
  <2>5. \A s \in dirs \ unsettled : disk'[s] = disk[s]
    BY <1>0, <2>1, <2>2 DEF TypeOK, Saving
  <2>6. Settled'
    BY <1>0, <2>1, <2>5 DEF Settled, Complete
  <2> QED
    BY <2>3, <2>4, <2>6 DEF StoreInv
<1>10. ASSUME NEW s \in dirs, NEW unsafe \in BOOLEAN, Load(s, unsafe) PROVE StoreInv'
  <2>1. s \in Steps /\ disk[s] \in [Files -> {Torn} \cup 0..MaxSaves] /\ 0 \in Steps
    BY <1>0 DEF TypeOK, Steps
  <2>2. WeightsRead(s) /\ RestRead(s, unsafe) => disk[s] \in [Files -> 0..MaxSaves]
    BY <1>0, <2>1 DEF WeightsRead, RestRead, Reads, Files
  <2>3. /\ origin' \in [Files -> 0..MaxSaves] /\ source' \in Steps /\ step' \in Steps
        /\ pc' \in {"idle", "loaded"}
    BY <1>0, <1>10, <2>1, <2>2 DEF Load, LoadRaises, WeightsRead, Reads, TypeOK, Files
  <2>4. UNCHANGED <<store, back, batch, epochs, excess, saves, history>>
    BY <1>10 DEF Load
  <2>5. TypeOK'
    BY <1>0, <2>3, <2>4 DEF TypeOK
  <2> QED
    BY <1>0, <2>3, <2>4, <2>5 DEF StoreInv, Saving, Settled, Complete, Files
<1>11. CASE Resume
  <2>1. Max(dirs) \in dirs
    BY <1>0, <1>11, MaxIsGreatest DEF Resume, TypeOK
  <2>2. Max(dirs) \in Steps /\ disk[Max(dirs)] \in [Files -> {Torn} \cup 0..MaxSaves]
    BY <1>0, <2>1 DEF TypeOK
  <2>3. /\ origin' \in [Files -> 0..MaxSaves] /\ source' \in Steps
    BY <1>0, <1>11, <2>2 DEF Resume, LoadRaises, WeightsRead, Reads, TypeOK, Files
  <2>4. pc' = "idle" /\ UNCHANGED <<store, back, loop, excess, saves, history>>
    BY <1>11 DEF Resume
  <2>5. TypeOK'
    BY <1>0, <2>3, <2>4 DEF TypeOK
  <2> QED
    BY <1>0, <2>4, <2>5 DEF StoreInv, Saving, Settled, Complete, Files
<1>12. CASE Crash
  <2>1. /\ pc' = "idle" /\ step' = 0 /\ batch' = 0 /\ epochs' = 0 /\ excess' = {}
        /\ origin' = NoFile /\ source' = 0
        /\ UNCHANGED <<dirs, back, saves, history>>
    BY <1>12 DEF Crash
  <2>2. /\ disk' \in [Steps -> [Files -> {Torn} \cup 0..MaxSaves]]
        /\ \A s \in Steps : disk'[s] # disk[s] => pc \in Files /\ s = step
    BY <1>12, CutShortType DEF Crash
  <2>3. TypeOK'
    BY <1>0, <2>1, <2>2 DEF TypeOK, Saving, Steps, NoFile
  <2>4. Saving'
    BY <1>0, <2>1 DEF TypeOK, Saving, Files
  <2>5. \A s \in dirs \ unsettled : disk'[s] = disk[s]
    BY <1>0, <2>1, <2>2 DEF TypeOK, Saving
  <2>6. Settled'
    BY <1>0, <2>1, <2>5 DEF Settled, Complete
  <2> QED
    BY <2>3, <2>4, <2>6 DEF StoreInv
<1>13. CASE UNCHANGED vars
  BY <1>0, <1>13 DEF vars, StoreInv, TypeOK, Saving, Settled, Complete
<1> QED
  BY <1>1, <1>2, <1>3, <1>4, <1>5, <1>6, <1>7, <1>8, <1>9, <1>10, <1>11, <1>12, <1>13
     DEF Next

\* Every variable has its type; no load restores a file that was cut short.
THEOREM TypeCorrect == Spec => []TypeOK
<1>1. StoreInv => TypeOK
  BY DEF StoreInv
<1> QED
  BY StoreInit, StoreStep, <1>1, PTL DEF Spec

-----------------------------------------------------------------------------
(* Loading *)

LoadInv == StoreInv /\ LoadIsOneSave

LEMMA LoadInit == Init => LoadInv
  BY StoreInit DEF LoadInv, LoadIsOneSave, Init

LEMMA LoadStep == LoadInv /\ [Next]_vars => LoadInv'
<1> SUFFICES ASSUME LoadInv, [Next]_vars PROVE LoadIsOneSave'
  BY StoreStep DEF LoadInv
<1>0. TypeOK /\ Settled /\ LoadIsOneSave
  BY DEF LoadInv, StoreInv
<1> USE DEF store, loop, memory, history
<1>1. CASE Train \/ Batch \/ EndOfEpoch
  <2>1. pc' # "loaded"
    BY <1>0, <1>1 DEF Train, Batch, EndOfEpoch, SaveNow
  <2> QED
    BY <2>1 DEF LoadIsOneSave
<1>2. CASE WriteWeights \/ WriteState \/ WriteMeta \/ Prune
  <2>1. pc' # "loaded"
    BY <1>2 DEF WriteWeights, WriteState, WriteMeta, WriteFile, Prune
  <2> QED
    BY <2>1 DEF LoadIsOneSave
<1>3. CASE Saved \/ SaveFails \/ Resume \/ Crash
  <2>1. pc' # "loaded"
    BY <1>0, <1>3 DEF Saved, SaveFails, Resume, Crash, TypeOK
  <2> QED
    BY <2>1 DEF LoadIsOneSave
<1>4. ASSUME NEW s \in dirs, NEW unsafe \in BOOLEAN, Load(s, unsafe) PROVE LoadIsOneSave'
  <2>1. CASE WeightsRead(s) /\ RestRead(s, unsafe)
    <3>1. /\ origin' = disk[s] /\ source' = s /\ unsettled' = unsettled
          /\ step' = IF disk[s]["meta"] # Absent \/ disk[s]["state"] # Absent THEN s ELSE 0
      BY <1>4, <2>1 DEF Load
    <3>2. ASSUME s \notin unsettled
          PROVE  /\ disk[s]["weights"] = disk[s]["state"] /\ disk[s]["state"] = disk[s]["meta"]
                 /\ disk[s]["weights"] # Absent
      <4>1. PICK n \in 1..MaxSaves : disk[s] = [f \in Files |-> n]
        BY <1>0, <3>2 DEF Settled, Complete
      <4> QED
        BY <4>1 DEF Files, Absent
    <3> QED
      BY <3>1, <3>2 DEF LoadIsOneSave
  <2>2. CASE ~(WeightsRead(s) /\ RestRead(s, unsafe))
    BY <1>4, <2>2 DEF Load, LoadIsOneSave
  <2> QED
    BY <2>1, <2>2
<1>5. CASE UNCHANGED vars
  BY <1>0, <1>5 DEF vars, LoadIsOneSave
<1> QED
  BY <1>1, <1>2, <1>3, <1>4, <1>5 DEF Next

\* What a load that returns has restored is weights, optimizer and step of one
\* save, if the last save into its directory was completed.
THEOREM OneSaveLoaded == Spec => []LoadIsOneSave
<1>1. LoadInv => LoadIsOneSave
  BY DEF LoadInv
<1> QED
  BY LoadInit, LoadStep, <1>1, PTL DEF Spec

-----------------------------------------------------------------------------
(* Pruning *)

\* Of what a prune leaves, Limit directories are higher than s.
Outranked(s) == Limit # 0 /\ Cardinality({u \in dirs \ excess : u > s}) >= Limit

\* Only such a directory is deleted. (That Limit directories are higher would
\* not be enough: the prune may be about to delete them too.)
PruneInv ==
    /\ StoreInv
    /\ \A s \in excess : Outranked(s)
    /\ last # 0 /\ last \notin dirs => Outranked(last)

LEMMA FiniteSteps == \A D \in SUBSET Steps : IsFiniteSet(D) /\ Cardinality(D) \in Nat
<1>1. IsFiniteSet(Steps)
  BY BoundAssumption, FS_Interval DEF Steps
<1> QED
  BY <1>1, FS_Subset, FS_CardinalityType

\* Limit directories that are kept are higher than any that is deleted.
LEMMA ExcessOutranked ==
  ASSUME NEW D \in SUBSET Steps, NEW s \in Excess(D)
  PROVE  Limit # 0 /\ Cardinality({u \in D \ Excess(D) : u > s}) >= Limit
<1> DEFINE m       == Max(Excess(D))
           Above   == {u \in D : u > m}
           From    == {u \in D : u >= m}
           Higher  == {u \in D \ Excess(D) : u > s}
<1>1. m \in Excess(D) /\ \A u \in Excess(D) : m >= u
  BY MaxIsGreatest DEF Excess
<1>2. m \in D /\ Limit # 0 /\ Cardinality(From) > Limit
  BY <1>1 DEF Excess
<1>3. \A u \in D : u \in Nat
  BY DEF Steps
<1> HIDE DEF m
<1>4. From = Above \cup {m} /\ m \notin Above
  BY <1>2, <1>3
<1>5. Above \in SUBSET Steps /\ Higher \in SUBSET Steps
  OBVIOUS
<1>6. Above \in SUBSET Higher
  <2>1. ASSUME NEW u \in Above PROVE u \notin Excess(D) /\ u > s
    BY <1>1, <1>2, <1>3, <2>1 DEF Excess
  <2> QED
    BY <2>1
<1> HIDE DEF Above, From, Higher
<1>7. Cardinality(From) = Cardinality(Above) + 1
  BY <1>4, <1>5, FiniteSteps, FS_AddElement
<1>8. Cardinality(Above) <= Cardinality(Higher)
  BY <1>5, <1>6, FiniteSteps, FS_Subset
<1>9. Cardinality(Higher) >= Limit
  BY <1>2, <1>5, <1>7, <1>8, FiniteSteps, LimitAssumption
<1> QED
  BY <1>2, <1>9 DEF Higher

LEMMA OutrankedGrows ==
  ASSUME TypeOK', dirs \ excess \subseteq dirs' \ excess', NEW s, Outranked(s)
  PROVE  Outranked(s)'
<1> DEFINE Old == {u \in dirs \ excess : u > s}
           New == {u \in dirs' \ excess' : u > s}
<1>1. New \in SUBSET Steps /\ Old \in SUBSET New
  BY DEF TypeOK
<1> HIDE DEF Old, New
<1>2. Cardinality(Old) <= Cardinality(New) /\ Old \in SUBSET Steps
  BY <1>1, FiniteSteps, FS_Subset
<1>3. Limit # 0 /\ Cardinality(Old) >= Limit
  BY DEF Outranked, Old
<1>4. Cardinality(New) >= Limit
  BY <1>1, <1>2, <1>3, FiniteSteps, LimitAssumption
<1> QED
  BY <1>3, <1>4 DEF Outranked, New

LEMMA PruneInit == Init => PruneInv
  BY StoreInit DEF PruneInv, Init

\* A step that deletes nothing and completes nothing.
LEMMA PruneKept ==
  ASSUME PruneInv, StoreInv', UNCHANGED last, dirs \subseteq dirs', excess' \subseteq excess
  PROVE  PruneInv'
<1>1. TypeOK' /\ dirs \ excess \subseteq dirs' \ excess'
  BY DEF StoreInv
<1>2. ASSUME NEW s \in excess' PROVE Outranked(s)'
  BY <1>1, <1>2, OutrankedGrows DEF PruneInv
<1>3. last # 0 /\ last \notin dirs' => Outranked(last)'
  BY <1>1, OutrankedGrows DEF PruneInv
<1> QED
  BY <1>2, <1>3 DEF PruneInv, Outranked

LEMMA PruneStep == PruneInv /\ [Next]_vars => PruneInv'
<1> SUFFICES ASSUME PruneInv, [Next]_vars PROVE PruneInv'
  OBVIOUS
<1>0. /\ StoreInv /\ StoreInv' /\ TypeOK /\ TypeOK' /\ Saving
      /\ \A u \in Steps : u \in Nat
  BY StoreStep DEF PruneInv, StoreInv, Steps
<1> USE DEF store, loop, memory, history
<1>1. CASE Train \/ Saved \/ SaveFails \/ Resume \/ Crash
  BY <1>0, <1>1, PruneKept DEF Train, Saved, SaveFails, Resume, Crash
<1>2. CASE Batch \/ EndOfEpoch
  BY <1>0, <1>2, PruneKept DEF Batch, EndOfEpoch, SaveNow
<1>3. CASE WriteWeights \/ WriteState
  BY <1>0, <1>3, PruneKept DEF WriteWeights, WriteState, WriteFile
<1>4. ASSUME NEW s \in dirs, NEW unsafe \in BOOLEAN, Load(s, unsafe) PROVE PruneInv'
  BY <1>0, <1>4, PruneKept DEF Load
<1>5. CASE WriteMeta
  <2>1. pc = "meta" /\ excess' = Excess(dirs) /\ last' = step /\ dirs' = dirs
    BY <1>5 DEF WriteMeta, WriteFile
  <2>2. step \in dirs /\ dirs \in SUBSET Steps
    BY <1>0, <2>1 DEF TypeOK, Saving, Files
  <2>3. ASSUME NEW s \in excess' PROVE Outranked(s)'
    BY <2>1, <2>2, <2>3, ExcessOutranked DEF Outranked
  <2> QED
    BY <1>0, <2>1, <2>2, <2>3 DEF PruneInv
<1>6. CASE Prune
  <2> DEFINE s == Min(excess)
  <2>1. s \in excess
    BY <1>0, <1>6, MinIsLeast DEF Prune, TypeOK
  <2>2. /\ excess' = excess \ {s} /\ last' = last
        /\ dirs' = dirs \ {s} \/ dirs' = dirs
    BY <1>6 DEF Prune
  <2> HIDE DEF s
  <2>3. dirs \ excess \subseteq dirs' \ excess'
    BY <2>1, <2>2
  <2>4. ASSUME NEW u \in excess PROVE Outranked(u)'
    BY <1>0, <2>3, <2>4, OutrankedGrows DEF PruneInv
  <2>5. last # 0 /\ last \notin dirs' => Outranked(last)'
    <3>1. CASE last \in dirs
      BY <2>1, <2>2, <2>4, <3>1
    <3>2. CASE last \notin dirs
      BY <1>0, <2>2, <2>3, <3>2, OutrankedGrows DEF PruneInv
    <3> QED
      BY <3>1, <3>2
  <2> QED
    BY <1>0, <2>2, <2>4, <2>5 DEF PruneInv, Outranked
<1>7. CASE UNCHANGED vars
  BY <1>0, <1>7, PruneKept DEF vars
<1> QED
  BY <1>1, <1>2, <1>3, <1>4, <1>5, <1>6, <1>7 DEF Next

\* The last save that was completed is on disk and complete, until its directory
\* is written again, unless save_total_limit directories have higher steps.
THEOREM LastKept == Spec => []LastSaveKept
<1>1. PruneInv => LastSaveKept
  <2> SUFFICES ASSUME PruneInv, last # 0, last \notin unsettled, last \notin dirs
               PROVE  Limit # 0 /\ Cardinality({s \in dirs : s > last}) >= Limit
    BY DEF PruneInv, StoreInv, Settled, Complete, LastSaveKept
  <2> DEFINE Left   == {u \in dirs \ excess : u > last}
             Higher == {s \in dirs : s > last}
  <2>1. Limit # 0 /\ Cardinality(Left) >= Limit
    BY DEF PruneInv, Outranked
  <2>2. Left \in SUBSET Higher /\ Higher \in SUBSET Steps
    BY DEF PruneInv, StoreInv, TypeOK
  <2> HIDE DEF Left, Higher
  <2>3. Cardinality(Left) <= Cardinality(Higher) /\ Left \in SUBSET Steps
    BY <2>2, FiniteSteps, FS_Subset
  <2>4. Cardinality(Higher) >= Limit
    BY <2>1, <2>2, <2>3, FiniteSteps, LimitAssumption
  <2> QED
    BY <2>1, <2>4 DEF Higher
<1> QED
  BY PruneInit, PruneStep, <1>1, PTL DEF Spec
=============================================================================
