--------------------------- MODULE ModelCacheProofs ---------------------------
(***************************************************************************)
(* For any threads, entries nested in any way, files and versions: a       *)
(* manifest says what is there, and what a verifying fetch returned was    *)
(* what its manifest says.                                                 *)
(***************************************************************************)
EXTENDS ModelCache, TLAPS

\* The local variables of the steps that rely on them: the version being
\* written or compared, the files of an entry still to go, the paths of a
\* clear.
CallsOK ==
    \A t \in Threads :
        /\ pc[t] \in {"dedup", "write"} => got[t] \in Versions
        /\ pc[t] = "check" => listed[t] \in Versions
        /\ pc[t] \in {"check", "write"} => todo[t] \subseteq Files
        /\ pc[t] = "clear" => todo[t] \subseteq Paths(entry[t])

CallInv == TypeOK /\ CallsOK

\* A clear has still to unlink the manifests that there are below it, and
\* they count as being outdated.
ClearsOK ==
    \A t \in Threads : pc[t] = "clear" =>
        \A e \in Below[entry[t]] : manifest[e] # None =>
            e \in unsettled /\ <<e, "manifest.json">> \in todo[t]

\* A write has outdated the manifest there was; and unless something else made
\* the entry unsettled, the files it is done with are the new ones.
WritesOK ==
    \A t \in Threads : pc[t] = "write" =>
        \/ entry[t] \in unsettled
        \/ /\ manifest[entry[t]] = None
           /\ \A f \in Files \ todo[t] : disk[entry[t]][f] = got[t]

ManifestInv == CallInv /\ ClearsOK /\ WritesOK /\ ManifestIsTruthful

\* As long as nobody touches its entry, a fetch that verifies has the manifest
\* of the entry in hand, the one it wrote if it wrote any, and the files it is
\* done with match it.
ChecksOK ==
    \A t \in Threads \ touched :
        /\ pc[t] = "check" =>
              /\ manifest[entry[t]] = listed[t]
              /\ wrote[t] => got[t] = listed[t]
              /\ \A f \in Files \ todo[t] : disk[entry[t]][f] = listed[t]
        /\ pc[t] = "load" /\ checked[t] => Whole(entry[t], manifest[entry[t]])

ServeInv == CallInv /\ ChecksOK /\ ServedIsWhole

LEMMA BelowType ==
  \A e \in Entries : Below[e] \subseteq Entries /\ Paths(e) \subseteq Entries \X (Files \cup {"manifest.json"})
  BY BelowAssumption DEF Paths

-----------------------------------------------------------------------------
(* Typing, the locals of a fetch, and one writer at a time *)

LEMMA CallInit == Init => CallInv
<1> SUFFICES ASSUME Init PROVE CallInv
  OBVIOUS
<1> QED
  BY BoundAssumption DEF Init, CallInv, TypeOK, CallsOK

LEMMA CallStep == CallInv /\ [Next]_vars => CallInv'
<1> SUFFICES ASSUME CallInv, [Next]_vars PROVE CallInv'
  OBVIOUS
<1> USE DEF CallInv, TypeOK, CallsOK, Goto
<1>1. ASSUME NEW t \in Threads, NEW e \in Entries, NEW v \in BOOLEAN, Fetch(t, e, v)
      PROVE  CallInv'
  BY <1>1, BoundAssumption DEF Fetch, store, history
<1>2. ASSUME NEW t \in Threads, NEW e \in Entries, Dedup(t, e) PROVE CallInv'
  BY <1>2 DEF Dedup, store, history
<1>3. ASSUME NEW t \in Threads, Lookup(t) PROVE CallInv'
  BY <1>3 DEF Lookup, store, history
<1>4. ASSUME NEW t \in Threads, Verify(t) PROVE CallInv'
  <2>1. /\ UNCHANGED <<disk, manifest, entry, checked, got, wrote, fetches, unsettled>>
        /\ pc[t] = "verify" /\ touched' \subseteq Threads
    BY <1>4 DEF Verify, store
  <2>2. CASE pc' = [pc EXCEPT ![t] = "condemn"] /\ UNCHANGED <<listed, todo>>
    BY <2>1, <2>2
  <2>3. CASE /\ pc' = [pc EXCEPT ![t] = "check"]
             /\ listed' = [listed EXCEPT ![t] = manifest[entry[t]]]
             /\ todo' = [todo EXCEPT ![t] = Files]
             /\ manifest[entry[t]] # None
    <3>1. manifest[entry[t]] \in Versions
      BY <2>3
    <3>2. listed' \in [Threads -> Versions \cup {None}] /\ listed'[t] \in Versions
      BY <2>3, <3>1
    <3> QED
      BY <2>1, <2>3, <3>2
  <2> QED
    BY <1>4, <2>2, <2>3 DEF Verify
<1>5. ASSUME NEW t \in Threads, CheckFile(t) PROVE CallInv'
  <2>1. /\ pc[t] = "check"
        /\ UNCHANGED <<disk, manifest, entry, checked, got, wrote, fetches, unsettled, touched>>
    BY <1>5 DEF CheckFile, store, history
  <2>2. CASE /\ pc' = [pc EXCEPT ![t] = "condemn"] /\ todo' = todo
             /\ listed' = [listed EXCEPT ![t] = None]
    BY <2>1, <2>2
  <2>3. ASSUME NEW f, pc' = pc, listed' = listed, todo' = [todo EXCEPT ![t] = @ \ {f}]
        PROVE  CallInv'
    BY <2>1, <2>3
  <2> QED
    BY <1>5, <2>2, <2>3 DEF CheckFile, Forget
<1>6. ASSUME NEW t \in Threads, Verified(t) PROVE CallInv'
  BY <1>6 DEF Verified, Forget, store, history
<1>7. ASSUME NEW t \in Threads, Hit(t) PROVE CallInv'
  BY <1>7 DEF Hit, store, history
<1>8. ASSUME NEW t \in Threads, StartClear(t) PROVE CallInv'
  <2> DEFINE all == {p \in Paths(entry[t]) : Exists(p)}
  <2>1. all \subseteq Paths(entry[t]) /\ entry[t] \in Entries
    OBVIOUS
  <2>2. todo' = [todo EXCEPT ![t] = all]
    BY <1>8 DEF StartClear
  <2> HIDE DEF all
  <2> QED
    BY <1>8, <2>1, <2>2, BelowType DEF StartClear, LockFree, store
<1>9. ASSUME NEW t \in Threads, Unlink(t) PROVE CallInv'
  <2>1. PICK p \in todo[t] :
           /\ IF p[2] = "manifest.json"
              THEN manifest' = [manifest EXCEPT ![p[1]] = None] /\ UNCHANGED disk
              ELSE disk' = [disk EXCEPT ![p[1]][p[2]] = None] /\ UNCHANGED manifest
           /\ todo' = [todo EXCEPT ![t] = @ \ {p}]
    BY <1>9 DEF Unlink
  <2>2. p[1] \in Entries /\ p[2] \in Files \cup {"manifest.json"}
    BY <1>9, BelowType DEF Unlink
  <2>3. manifest' \in [Entries -> Versions \cup {None}]
    BY <2>1, <2>2
  <2>4. disk' \in [Entries -> [Files -> Versions \cup {None, Rotten}]]
    <3>1. CASE p[2] = "manifest.json"
      BY <2>1, <3>1
    <3>2. CASE p[2] # "manifest.json"
      <4>1. PICK e \in Entries, f \in Files : e = p[1] /\ f = p[2]
        BY <2>2, <3>2
      <4>2. disk' = [disk EXCEPT ![e][f] = None]
        BY <2>1, <3>2, <4>1
      <4> QED
        BY <4>2
    <3> QED
      BY <3>1, <3>2
  <2>5. touched' \subseteq Threads
    BY <1>9 DEF Unlink, OthersOn
  <2>6. /\ todo' \in [Threads -> SUBSET (Files \cup (Entries \X (Files \cup {"manifest.json"})))]
        /\ \A u \in Threads : todo'[u] \subseteq todo[u]
    BY <2>1
  <2> QED
    BY <1>9, <2>3, <2>4, <2>5, <2>6 DEF Unlink
<1>10. ASSUME NEW t \in Threads, Cleared(t) PROVE CallInv'
  BY <1>10 DEF Cleared, store
<1>11. ASSUME NEW t \in Threads, Download(t) PROVE CallInv'
  BY <1>11 DEF Download, store, history
<1>12. ASSUME NEW t \in Threads, StartWrite(t) PROVE CallInv'
  BY <1>12 DEF StartWrite, LockFree, store
<1>13. ASSUME NEW t \in Threads, WriteFile(t) PROVE CallInv'
  BY <1>13 DEF WriteFile, OthersOn
<1>14. ASSUME NEW t \in Threads, WriteManifest(t) PROVE CallInv'
  BY <1>14 DEF WriteManifest, OthersOn
<1>15. ASSUME NEW t \in Threads, Raise(t) PROVE CallInv'
  BY <1>15 DEF Raise, store, history
<1>16. ASSUME NEW t \in Threads, Interrupted(t) PROVE CallInv'
  BY <1>16 DEF Interrupted, store, history
<1>17. ASSUME NEW e \in Entries, NEW f \in Files, Rot(e, f) PROVE CallInv'
  BY <1>17 DEF Rot, call
<1>18. CASE Crash
  BY <1>18 DEF Crash, store, history
<1>19. CASE UNCHANGED vars
  BY <1>19 DEF vars, store, call, history
<1> QED
  BY <1>1, <1>2, <1>3, <1>4, <1>5, <1>6, <1>7, <1>8, <1>9, <1>10, <1>11, <1>12,
     <1>13, <1>14, <1>15, <1>16, <1>17, <1>18, <1>19 DEF Next

\* The cache and the fetches in progress stay well typed, and at most one
\* thread writes or clears: what write_files and clear rely on their lock for.
THEOREM TypeCorrect == Spec => []TypeOK
<1>1. CallInv => TypeOK
  BY DEF CallInv
<1> QED
  BY CallInit, CallStep, <1>1, PTL DEF Spec

-----------------------------------------------------------------------------
(* A manifest says what is there *)

LEMMA ManifestInit == Init => ManifestInv
<1> SUFFICES ASSUME Init PROVE ManifestInv
  OBVIOUS
<1> QED
  BY CallInit DEF Init, ManifestInv, ClearsOK, WritesOK, ManifestIsTruthful

\* A step that changes neither the store nor a writer changes nothing here.
LEMMA ManifestKept ==
  ASSUME ManifestInv, CallInv', UNCHANGED <<disk, manifest>>, unsettled \subseteq unsettled',
         \A t \in Threads : pc'[t] \in {"write", "clear"} =>
             pc[t] = pc'[t] /\ UNCHANGED <<entry[t], got[t], todo[t]>>
  PROVE  ManifestInv'
<1> USE DEF ManifestInv
<1>1. ClearsOK'
  BY DEF ClearsOK
<1>2. WritesOK'
  BY DEF WritesOK
<1>3. ManifestIsTruthful'
  BY DEF ManifestIsTruthful, Whole
<1> QED
  BY <1>1, <1>2, <1>3

LEMMA ManifestStep == ManifestInv /\ [Next]_vars => ManifestInv'
<1> SUFFICES ASSUME ManifestInv, [Next]_vars PROVE ManifestInv'
  OBVIOUS
<1>0. CallInv /\ CallInv'
  BY CallStep DEF ManifestInv
<1> USE <1>0 DEF CallInv, TypeOK, Goto
<1>1. ASSUME NEW t \in Threads, NEW e \in Entries, NEW v \in BOOLEAN, Fetch(t, e, v)
      PROVE  ManifestInv'
  BY <1>1, ManifestKept DEF Fetch, store, history
<1>2. ASSUME NEW t \in Threads, NEW e \in Entries, Dedup(t, e) PROVE ManifestInv'
  BY <1>2, ManifestKept DEF Dedup, store, history
<1>3. ASSUME NEW t \in Threads, Lookup(t) PROVE ManifestInv'
  BY <1>3, ManifestKept DEF Lookup, store, history
<1>4. ASSUME NEW t \in Threads, Verify(t) PROVE ManifestInv'
  BY <1>4, ManifestKept DEF Verify, store
<1>5. ASSUME NEW t \in Threads, CheckFile(t) PROVE ManifestInv'
  <2>1. \A u \in Threads : pc'[u] \in {"write", "clear"} =>
           pc[u] = pc'[u] /\ UNCHANGED <<entry[u], got[u], todo[u]>>
    BY <1>5 DEF CheckFile
  <2> QED
    BY <1>5, <2>1, ManifestKept DEF CheckFile, store, history
<1>6. ASSUME NEW t \in Threads, Verified(t) PROVE ManifestInv'
  BY <1>6, ManifestKept DEF Verified, store, history
<1>7. ASSUME NEW t \in Threads, Hit(t) PROVE ManifestInv'
  BY <1>7, ManifestKept DEF Hit, store, history
<1>8. ASSUME NEW t \in Threads, StartClear(t) PROVE ManifestInv'
  <2>1. /\ \A u \in Threads : pc[u] \notin {"write", "clear"}
        /\ pc' = [pc EXCEPT ![t] = "clear"]
        /\ unsettled' = unsettled \cup {e \in Below[entry[t]] : manifest[e] # None}
        /\ UNCHANGED <<disk, manifest, entry>>
    BY <1>8 DEF StartClear, LockFree, store
  <2>2. \A e \in Below[entry[t]] : manifest[e] # None => <<e, "manifest.json">> \in todo'[t]
    BY <1>8 DEF StartClear, Paths, Exists
  <2>3. ClearsOK'
    BY <2>1, <2>2 DEF ClearsOK
  <2>4. WritesOK' /\ ManifestIsTruthful'
    BY <2>1 DEF WritesOK, ManifestInv, ManifestIsTruthful, Whole
  <2> QED
    BY <2>3, <2>4 DEF ManifestInv
<1>9. ASSUME NEW t \in Threads, Unlink(t) PROVE ManifestInv'
  <2>1. PICK p \in todo[t] :
           /\ IF p[2] = "manifest.json"
              THEN manifest' = [manifest EXCEPT ![p[1]] = None] /\ UNCHANGED disk
              ELSE disk' = [disk EXCEPT ![p[1]][p[2]] = None] /\ UNCHANGED manifest
           /\ todo' = [todo EXCEPT ![t] = @ \ {p}]
    BY <1>9 DEF Unlink
  <2>2. /\ p[1] \in Below[entry[t]] /\ p[1] \in Entries
        /\ p = <<p[1], p[2]>>
        /\ pc[t] = "clear" /\ UNCHANGED <<pc, entry, got, unsettled>>
        /\ \A u \in Threads \ {t} : pc[u] \notin {"write", "clear"}
    BY <1>9, BelowType DEF Unlink, CallsOK, Paths
  <2>3. \A e \in Entries : e # p[1] => disk'[e] = disk[e] /\ manifest'[e] = manifest[e]
    BY <2>1
  <2>4. manifest'[p[1]] = IF p[2] = "manifest.json" THEN None ELSE manifest[p[1]]
    BY <2>1, <2>2
  <2>5. ClearsOK'
    <3>1. ASSUME NEW e \in Below[entry[t]], manifest'[e] # None
          PROVE  e \in unsettled /\ <<e, "manifest.json">> \in todo'[t]
      <4>1. e \in Entries /\ manifest[e] # None
        BY <2>3, <2>4, <3>1, BelowType
      <4>2. <<e, "manifest.json">> # p
        BY <2>2, <2>4, <3>1
      <4> QED
        BY <2>1, <2>2, <4>1, <4>2 DEF ManifestInv, ClearsOK
    <3> QED
      BY <2>2, <3>1 DEF ClearsOK
  <2>6. WritesOK'
    BY <2>2 DEF WritesOK
  <2>7. ManifestIsTruthful'
    <3>1. ASSUME NEW e \in Entries \ unsettled, manifest'[e] # None PROVE Whole(e, manifest[e])'
      <4>1. CASE e = p[1]
        BY <2>2, <2>4, <3>1, <4>1 DEF ManifestInv, ClearsOK
      <4>2. CASE e # p[1]
        BY <2>3, <3>1, <4>2 DEF ManifestInv, ManifestIsTruthful, Whole
      <4> QED
        BY <4>1, <4>2
    <3> QED
      BY <2>2, <3>1 DEF ManifestIsTruthful
  <2> QED
    BY <2>5, <2>6, <2>7 DEF ManifestInv
<1>10. ASSUME NEW t \in Threads, Cleared(t) PROVE ManifestInv'
  <2>1. /\ \A u \in Threads : pc'[u] \notin {"write", "clear"}
        /\ unsettled' = unsettled \ Below[entry[t]]
        /\ UNCHANGED <<disk, manifest>>
    BY <1>10 DEF Cleared, store
  <2>2. \A e \in Below[entry[t]] : manifest[e] = None
    BY <1>10 DEF Cleared, ManifestInv, ClearsOK
  <2>3. ManifestIsTruthful'
    BY <2>1, <2>2 DEF ManifestInv, ManifestIsTruthful, Whole
  <2> QED
    BY <2>1, <2>3 DEF ManifestInv, ClearsOK, WritesOK
<1>11. ASSUME NEW t \in Threads, Download(t) PROVE ManifestInv'
  BY <1>11, ManifestKept DEF Download, store, history
<1>12. ASSUME NEW t \in Threads, StartWrite(t) PROVE ManifestInv'
  <2>1. /\ \A u \in Threads : pc[u] \notin {"write", "clear"}
        /\ pc' = [pc EXCEPT ![t] = "write"]
        /\ todo'[t] = Files
        /\ unsettled \subseteq unsettled'
        /\ manifest[entry[t]] # None => entry[t] \in unsettled'
        /\ UNCHANGED <<disk, manifest, entry, got>>
    BY <1>12 DEF StartWrite, LockFree, store
  <2>2. ClearsOK' /\ WritesOK'
    BY <2>1 DEF ClearsOK, WritesOK
  <2>3. ManifestIsTruthful'
    BY <2>1 DEF ManifestInv, ManifestIsTruthful, Whole
  <2> QED
    BY <2>2, <2>3 DEF ManifestInv
<1>13. ASSUME NEW t \in Threads, WriteFile(t) PROVE ManifestInv'
  <2>1. PICK f \in Files : /\ disk' = [disk EXCEPT ![entry[t]][f] = got[t]]
                           /\ todo' = [todo EXCEPT ![t] = @ \ {f}]
    BY <1>13 DEF WriteFile, CallsOK
  <2>2. /\ pc[t] = "write" /\ UNCHANGED <<manifest, pc, entry, got, unsettled>>
        /\ \A u \in Threads \ {t} : pc[u] \notin {"write", "clear"}
        /\ entry[t] \in Entries
    BY <1>13 DEF WriteFile
  <2>3. /\ \A e \in Entries : e # entry[t] => disk'[e] = disk[e]
        /\ \A g \in Files : disk'[entry[t]][g] = IF g = f THEN got[t] ELSE disk[entry[t]][g]
    BY <2>1, <2>2
  <2>4. ClearsOK'
    BY <2>2 DEF ClearsOK
  <2>5. WritesOK'
    BY <2>1, <2>2, <2>3 DEF ManifestInv, WritesOK
  <2>6. ASSUME NEW e \in Entries \ unsettled, manifest[e] # None
        PROVE  Whole(e, manifest[e])'
    <3>1. e # entry[t]
      BY <2>2, <2>6 DEF ManifestInv, WritesOK
    <3> QED
      BY <2>2, <2>3, <2>6, <3>1 DEF ManifestInv, ManifestIsTruthful, Whole
  <2>7. ManifestIsTruthful'
    BY <2>2, <2>6 DEF ManifestIsTruthful
  <2> QED
    BY <2>4, <2>5, <2>7 DEF ManifestInv
<1>14. ASSUME NEW t \in Threads, WriteManifest(t) PROVE ManifestInv'
  <2>1. /\ \A u \in Threads : pc'[u] \notin {"write", "clear"}
        /\ manifest' = [manifest EXCEPT ![entry[t]] = got[t]]
        /\ unsettled' = unsettled \ {e \in {entry[t]} : Whole(e, got[t])}
        /\ UNCHANGED disk
        /\ entry[t] \in Entries
    BY <1>14 DEF WriteManifest
  <2>2. entry[t] \in unsettled \/ Whole(entry[t], got[t])
    BY <1>14 DEF WriteManifest, FilesWritten, ManifestInv, WritesOK, Whole
  <2>3. ManifestIsTruthful'
    BY <2>1, <2>2 DEF ManifestInv, ManifestIsTruthful, Whole
  <2> QED
    BY <2>1, <2>3 DEF ManifestInv, ClearsOK, WritesOK
<1>15. ASSUME NEW t \in Threads, Raise(t) PROVE ManifestInv'
  BY <1>15, ManifestKept DEF Raise, store, history
<1>16. ASSUME NEW t \in Threads, Interrupted(t) PROVE ManifestInv'
  BY <1>16, ManifestKept DEF Interrupted, store, history
<1>17. ASSUME NEW e \in Entries, NEW f \in Files, Rot(e, f) PROVE ManifestInv'
  <2>1. /\ \A d \in Entries : d # e => disk'[d] = disk[d]
        /\ unsettled' = unsettled \cup {e}
        /\ UNCHANGED <<manifest, pc, entry, got, todo>>
    BY <1>17 DEF Rot, call
  <2>2. ClearsOK' /\ WritesOK'
    BY <2>1 DEF ManifestInv, ClearsOK, WritesOK
  <2>3. ManifestIsTruthful'
    BY <2>1 DEF ManifestInv, ManifestIsTruthful, Whole
  <2> QED
    BY <2>2, <2>3 DEF ManifestInv
<1>18. CASE Crash
  BY <1>18, ManifestKept DEF Crash, store, history
<1>19. CASE UNCHANGED vars
  BY <1>19, ManifestKept DEF vars, store, call, history
<1> QED
  BY <1>1, <1>2, <1>3, <1>4, <1>5, <1>6, <1>7, <1>8, <1>9, <1>10, <1>11, <1>12,
     <1>13, <1>14, <1>15, <1>16, <1>17, <1>18, <1>19 DEF Next

\* An entry with a manifest has every file it lists, at any moment, with
\* writes and clears that fail or die half way: only files that changed behind the
\* cache's back and old manifests being outdated are excepted.
THEOREM ManifestsHold == Spec => []ManifestIsTruthful
<1>1. ManifestInv => ManifestIsTruthful
  BY DEF ManifestInv
<1> QED
  BY ManifestInit, ManifestStep, <1>1, PTL DEF Spec

-----------------------------------------------------------------------------
(* What a verifying fetch returned is what its manifest says *)

LEMMA ServeInit == Init => ServeInv
<1> SUFFICES ASSUME Init PROVE ServeInv
  OBVIOUS
<1> QED
  BY CallInit DEF Init, ServeInv, ChecksOK, ServedIsWhole

\* A change of the store that counts every fetch of a changed entry as touched
\* breaks no promise, if the fetches that it makes step leave verification.
LEMMA ServeTouched ==
  ASSUME ServeInv, CallInv', touched \subseteq touched',
         \A t \in Threads : pc'[t] \in {"check", "load", "returned"} =>
             /\ pc[t] = pc'[t]
             /\ UNCHANGED <<entry[t], got[t], listed[t], todo[t], checked[t], wrote[t]>>
             /\ t \in touched' \/ UNCHANGED <<disk[entry[t]], manifest[entry[t]]>>
  PROVE  ServeInv'
<1> USE DEF ServeInv, Whole
<1>1. ChecksOK'
  <2>1. ASSUME NEW t \in Threads \ touched', pc'[t] = "check"
        PROVE  /\ manifest'[entry'[t]] = listed'[t]
               /\ wrote'[t] => got'[t] = listed'[t]
               /\ \A f \in Files \ todo'[t] : disk'[entry'[t]][f] = listed'[t]
    BY <2>1 DEF ChecksOK
  <2>2. ASSUME NEW t \in Threads \ touched', pc'[t] = "load", checked'[t]
        PROVE  Whole(entry[t], manifest[entry[t]])'
    BY <2>2 DEF ChecksOK
  <2> QED
    BY <2>1, <2>2 DEF ChecksOK
<1>2. ServedIsWhole'
  BY DEF ServedIsWhole
<1> QED
  BY <1>1, <1>2

LEMMA ServeStep == ServeInv /\ [Next]_vars => ServeInv'
<1> SUFFICES ASSUME ServeInv, [Next]_vars PROVE ServeInv'
  OBVIOUS
<1>0. CallInv /\ CallInv'
  BY CallStep DEF ServeInv
<1> USE <1>0 DEF CallInv, TypeOK, Goto
<1>1. ASSUME NEW t \in Threads, NEW e \in Entries, NEW v \in BOOLEAN, Fetch(t, e, v)
      PROVE  ServeInv'
  BY <1>1, ServeTouched DEF Fetch, store, history
<1>2. ASSUME NEW t \in Threads, NEW e \in Entries, Dedup(t, e) PROVE ServeInv'
  <2>1. /\ pc' = [pc EXCEPT ![t] = "returned"]
        /\ checked' = [checked EXCEPT ![t] = FALSE]
        /\ entry' = [entry EXCEPT ![t] = e]
        /\ UNCHANGED <<disk, manifest, got, listed, todo, wrote, touched>>
    BY <1>2 DEF Dedup, store, history
  <2>2. ChecksOK'
    BY <2>1 DEF ServeInv, ChecksOK, Whole
  <2>3. ServedIsWhole'
    BY <2>1 DEF ServeInv, ServedIsWhole, Whole
  <2> QED
    BY <2>2, <2>3 DEF ServeInv
<1>3. ASSUME NEW t \in Threads, Lookup(t) PROVE ServeInv'
  <2>1. /\ pc[t] = "lookup"
        /\ \A u \in Threads : u # t => pc'[u] = pc[u]
        /\ pc'[t] \in {"download", "verify", "load"}
        /\ checked[t] => pc'[t] # "load"
        /\ UNCHANGED <<disk, manifest, entry, checked, got, listed, todo, wrote, touched>>
    BY <1>3 DEF Lookup, store, history
  <2>2. ChecksOK'
    <3>1. \A u \in Threads :
             /\ pc'[u] = "check" => pc[u] = "check"
             /\ pc'[u] = "load" /\ checked[u] => pc[u] = "load"
      BY <2>1
    <3> QED
      BY <2>1, <3>1 DEF ServeInv, ChecksOK, Whole
  <2>3. ServedIsWhole'
    BY <2>1 DEF ServeInv, ServedIsWhole, Whole
  <2> QED
    BY <2>2, <2>3 DEF ServeInv
<1>4. ASSUME NEW t \in Threads, Verify(t) PROVE ServeInv'
  <2>1. /\ \A u \in Threads : u # t =>
              /\ UNCHANGED <<pc[u], listed[u], todo[u]>>
              /\ u \in touched <=> u \in touched'
        /\ UNCHANGED <<disk, manifest, entry, checked, got, wrote>>
    BY <1>4 DEF Verify, store
  <2>2. \/ pc'[t] = "condemn"
        \/ pc'[t] = "check" /\ listed'[t] = manifest[entry[t]] /\ todo'[t] = Files
    BY <1>4 DEF Verify
  <2>3. t \notin touched' /\ wrote[t] => manifest[entry[t]] = got[t]
    BY <1>4 DEF Verify
  <2>4. ChecksOK'
    <3>1. ASSUME NEW u \in Threads \ touched', u # t
          PROVE  /\ pc'[u] = "check" =>
                       /\ manifest'[entry'[u]] = listed'[u]
                       /\ wrote'[u] => got'[u] = listed'[u]
                       /\ \A f \in Files \ todo'[u] : disk'[entry'[u]][f] = listed'[u]
                 /\ pc'[u] = "load" /\ checked'[u] => Whole(entry[u], manifest[entry[u]])'
      BY <2>1, <3>1 DEF ServeInv, ChecksOK, Whole
    <3>2. /\ pc'[t] = "check" =>
                /\ manifest'[entry'[t]] = listed'[t]
                /\ t \notin touched' /\ wrote'[t] => got'[t] = listed'[t]
                /\ \A f \in Files \ todo'[t] : disk'[entry'[t]][f] = listed'[t]
          /\ pc'[t] # "load"
      BY <2>1, <2>2, <2>3
    <3> QED
      BY <3>1, <3>2 DEF ChecksOK
  <2>5. ServedIsWhole'
    BY <2>1, <2>2 DEF ServeInv, ServedIsWhole, Whole
  <2> QED
    BY <2>4, <2>5 DEF ServeInv
<1>5. ASSUME NEW t \in Threads, CheckFile(t) PROVE ServeInv'
  <2>1. UNCHANGED <<disk, manifest, entry, checked, got, wrote, touched>>
    BY <1>5 DEF CheckFile, store, history
  <2>2. CASE /\ pc' = [pc EXCEPT ![t] = "condemn"] /\ todo' = todo
             /\ listed' = [listed EXCEPT ![t] = None]
    BY <2>1, <2>2, ServeTouched
  <2>3. ASSUME NEW f \in Files, pc' = pc, listed' = listed, todo' = [todo EXCEPT ![t] = @ \ {f}],
               pc[t] = "check", disk[entry[t]][f] = listed[t]
        PROVE  ServeInv'
    <3>1. ChecksOK'
      BY <2>1, <2>3 DEF ServeInv, ChecksOK, Whole
    <3>2. ServedIsWhole'
      BY <2>1, <2>3 DEF ServeInv, ServedIsWhole, Whole
    <3> QED
      BY <3>1, <3>2 DEF ServeInv
  <2>4. \/ /\ pc' = [pc EXCEPT ![t] = "condemn"] /\ todo' = todo
           /\ listed' = [listed EXCEPT ![t] = None]
        \/ \E f \in Files : /\ pc' = pc /\ listed' = listed
                            /\ todo' = [todo EXCEPT ![t] = @ \ {f}]
                            /\ pc[t] = "check" /\ disk[entry[t]][f] = listed[t]
    BY <1>5 DEF CheckFile, Same, Forget, CallsOK
  <2> QED
    BY <2>2, <2>3, <2>4
<1>6. ASSUME NEW t \in Threads, Verified(t) PROVE ServeInv'
  <2>1. /\ pc[t] = "check" /\ todo[t] = {}
        /\ \A u \in Threads : u # t => pc'[u] = pc[u] /\ listed'[u] = listed[u]
        /\ pc'[t] = IF wrote[t] THEN "returned" ELSE "load"
        /\ UNCHANGED <<disk, manifest, entry, checked, got, todo, wrote, touched>>
    BY <1>6 DEF Verified, Forget, store, history
  <2>2. t \notin touched =>
           /\ Whole(entry[t], manifest[entry[t]])
           /\ wrote[t] => Whole(entry[t], got[t])
    BY <2>1 DEF ServeInv, ChecksOK, Whole
  <2>3. ChecksOK'
    BY <2>1, <2>2 DEF ServeInv, ChecksOK, Whole
  <2>4. ServedIsWhole'
    BY <2>1, <2>2 DEF ServeInv, ServedIsWhole, Whole
  <2> QED
    BY <2>3, <2>4 DEF ServeInv
<1>7. ASSUME NEW t \in Threads, Hit(t) PROVE ServeInv'
  <2>1. /\ pc[t] = "load"
        /\ pc' = [pc EXCEPT ![t] = "returned"]
        /\ got' = [got EXCEPT ![t] = manifest[entry[t]]]
        /\ UNCHANGED <<disk, manifest, entry, checked, listed, todo, wrote, touched>>
    BY <1>7 DEF Hit, store, history
  <2>2. t \notin touched /\ checked[t] => Whole(entry[t], manifest[entry[t]])
    BY <2>1 DEF ServeInv, ChecksOK
  <2>3. ChecksOK'
    BY <2>1 DEF ServeInv, ChecksOK, Whole
  <2>4. ServedIsWhole'
    BY <2>1, <2>2 DEF ServeInv, ServedIsWhole, Whole
  <2> QED
    BY <2>3, <2>4 DEF ServeInv
<1>8. ASSUME NEW t \in Threads, StartClear(t) PROVE ServeInv'
  <2>1. /\ pc' = [pc EXCEPT ![t] = "clear"]
        /\ \A u \in Threads : u # t => todo'[u] = todo[u]
        /\ UNCHANGED <<disk, manifest, entry, got, listed, wrote, checked, touched>>
    BY <1>8 DEF StartClear, store
  <2> QED
    BY <2>1, ServeTouched
<1>9. ASSUME NEW t \in Threads, Unlink(t) PROVE ServeInv'
  <2>1. PICK p \in todo[t] :
           /\ IF p[2] = "manifest.json"
              THEN manifest' = [manifest EXCEPT ![p[1]] = None] /\ UNCHANGED disk
              ELSE disk' = [disk EXCEPT ![p[1]][p[2]] = None] /\ UNCHANGED manifest
           /\ todo' = [todo EXCEPT ![t] = @ \ {p}]
    BY <1>9 DEF Unlink
  <2>2. /\ p[1] \in Below[entry[t]]
        /\ pc[t] = "clear" /\ UNCHANGED <<pc, entry, got, listed, wrote, checked>>
        /\ touched' = touched \cup OthersOn(t, Below[entry[t]])
    BY <1>9 DEF Unlink, CallsOK, Paths
  <2>3. \A e \in Entries : e # p[1] => disk'[e] = disk[e] /\ manifest'[e] = manifest[e]
    BY <2>1
  <2>4. ASSUME NEW u \in Threads, pc[u] \in {"check", "load", "returned"}
        PROVE  u \in touched' \/ UNCHANGED <<disk[entry[u]], manifest[entry[u]]>>
    BY <2>2, <2>3, <2>4 DEF OthersOn
  <2> QED
    BY <2>1, <2>2, <2>4, ServeTouched
<1>10. ASSUME NEW t \in Threads, Cleared(t) PROVE ServeInv'
  BY <1>10, ServeTouched DEF Cleared, store
<1>11. ASSUME NEW t \in Threads, Download(t) PROVE ServeInv'
  BY <1>11, ServeTouched DEF Download, store, history
<1>12. ASSUME NEW t \in Threads, StartWrite(t) PROVE ServeInv'
  BY <1>12, ServeTouched DEF StartWrite, store
<1>13. ASSUME NEW t \in Threads, WriteFile(t) PROVE ServeInv'
  <2>1. PICK f \in Files : /\ disk' = [disk EXCEPT ![entry[t]][f] = got[t]]
                           /\ todo' = [todo EXCEPT ![t] = @ \ {f}]
    BY <1>13 DEF WriteFile, CallsOK
  <2>2. /\ pc[t] = "write" /\ UNCHANGED <<manifest, pc, entry, got, listed, wrote, checked>>
        /\ touched' = touched \cup OthersOn(t, {entry[t]})
    BY <1>13 DEF WriteFile
  <2>3. ASSUME NEW u \in Threads, pc[u] \in {"check", "load", "returned"}
        PROVE  u \in touched' \/ UNCHANGED <<disk[entry[u]], manifest[entry[u]]>>
    BY <2>1, <2>2, <2>3 DEF OthersOn
  <2> QED
    BY <2>1, <2>2, <2>3, ServeTouched
<1>14. ASSUME NEW t \in Threads, WriteManifest(t) PROVE ServeInv'
  <2>1. /\ manifest' = [manifest EXCEPT ![entry[t]] = got[t]]
        /\ pc[t] = "write" /\ pc' = [pc EXCEPT ![t] = "verify"]
        /\ checked' = [checked EXCEPT ![t] = TRUE]
        /\ touched' = touched \cup OthersOn(t, {entry[t]})
        /\ wrote' = [wrote EXCEPT ![t] = TRUE]
        /\ UNCHANGED <<disk, entry, got, listed, todo>>
    BY <1>14 DEF WriteManifest
  <2>2. ASSUME NEW u \in Threads, pc'[u] \in {"check", "load", "returned"}
        PROVE  /\ u # t
               /\ u \in touched' \/ UNCHANGED <<disk[entry[u]], manifest[entry[u]]>>
    BY <2>1, <2>2 DEF OthersOn
  <2> QED
    BY <2>1, <2>2, ServeTouched
<1>15. ASSUME NEW t \in Threads, Raise(t) PROVE ServeInv'
  BY <1>15, ServeTouched DEF Raise, store, history
<1>16. ASSUME NEW t \in Threads, Interrupted(t) PROVE ServeInv'
  BY <1>16, ServeTouched DEF Interrupted, store, history
<1>17. ASSUME NEW e \in Entries, NEW f \in Files, Rot(e, f) PROVE ServeInv'
  <2>1. /\ \A d \in Entries : d # e => disk'[d] = disk[d]
        /\ touched' = touched \cup {t \in Threads : pc[t] # "idle" /\ entry[t] = e}
        /\ UNCHANGED <<manifest, pc, entry, checked, got, listed, wrote, todo>>
    BY <1>17 DEF Rot, call
  <2> QED
    BY <2>1, ServeTouched
<1>18. CASE Crash
  BY <1>18, ServeTouched DEF Crash, store, history
<1>19. CASE UNCHANGED vars
  BY <1>19, ServeTouched DEF vars, store, call, history
<1> QED
  BY <1>1, <1>2, <1>3, <1>4, <1>5, <1>6, <1>7, <1>8, <1>9, <1>10, <1>11, <1>12,
     <1>13, <1>14, <1>15, <1>16, <1>17, <1>18, <1>19 DEF Next

\* A fetch that verified, or downloaded, returned an entry that was complete and
\* matched the manifest it returned, in whatever state it found the cache and
\* whoever wrote and cleared beside it, until somebody touches the entry. A
\* fetch over whose entry another wrote before it verified it is excepted.
THEOREM ServedWhole == Spec => []ServedIsWhole
<1>1. ServeInv => ServedIsWhole
  BY DEF ServeInv
<1> QED
  BY ServeInit, ServeStep, <1>1, PTL DEF Spec
=============================================================================
