------------------------------ MODULE ModelCache -------------------------------
(***************************************************************************)
(* models/source/cache.py and fetch/_inner.py: the directory of fetched    *)
(* models, and the fetches that look into it, verify, clear and fill it.   *)
(*                                                                         *)
(* write_files and clear hold the cache's lock and touch the disk file by  *)
(* file; has, load_manifest and verify take no lock, so they see an entry  *)
(* half written or half cleared. Files and manifests are replaced          *)
(* atomically and survive a crash. The model of an entry is written as a   *)
(* version: a manifest of a version lists the hashes of all its files.     *)
(***************************************************************************)
EXTENDS FiniteSets, Naturals

CONSTANTS
    Threads,    \* the threads that fetch
    Entries,    \* (source, repo_id, revision)
    Below,      \* the entries whose directory lies in that of an entry, itself
                \*   included: repo@"" is the parent of repo@"v1"
    Versions,   \* what the source may serve
    Files,      \* the names of a model's files
    Rotten,     \* a file whose bytes match no manifest
    MaxFetches, \* a bound on the calls of fetch
    None        \* no file, no manifest

ASSUME BelowAssumption ==
    /\ Below \in [Entries -> SUBSET Entries]
    /\ \A e \in Entries : e \in Below[e]
ASSUME BoundAssumption == MaxFetches \in Nat
ASSUME NoneAssumption == {None, Rotten} \cap Versions = {} /\ None # Rotten

VARIABLES
    disk,      \* the files of each entry
    manifest,  \* the manifests
    pc,        \* where a fetch is
    entry,     \* its local variables: the location,
    checked,   \*   verify_cache, and TRUE after a download,
    got,       \*   the manifest or the downloads in hand,
    listed,    \*   the manifest that verify compares the files with,
    todo,      \*   the files (or paths of a clear) still to go,
    wrote,     \*   and has it written the entry?
    fetches,   \* how many fetches were called
    unsettled, \* history: entries whose old manifest is being outdated by a
               \*   write or a clear, or was by one that never ended
    touched    \* history: fetches whose entry changed since they began to
               \*   verify it, or between their own write and that

store   == <<disk, manifest>>
call    == <<pc, entry, checked, got, listed, todo, wrote, fetches>>
history == <<unsettled, touched>>
vars    == <<store, call, history>>

Init ==
    /\ disk = [e \in Entries |-> [f \in Files |-> None]]
    /\ manifest = [e \in Entries |-> None]
    /\ pc = [t \in Threads |-> "idle"]
    /\ entry \in [Threads -> Entries]
    /\ checked = [t \in Threads |-> FALSE]
    /\ got = [t \in Threads |-> None]
    /\ listed = [t \in Threads |-> None]
    /\ todo = [t \in Threads |-> {}]
    /\ wrote = [t \in Threads |-> FALSE]
    /\ fetches = 0
    /\ unsettled = {}
    /\ touched = {}

\* (mutants are marked so: each is a plausible bug that a run must catch)
\* mutant: write_files does not lock
LockFreeOfClears == \A t \in Threads : pc[t] # "clear"

LockFree == \A t \in Threads : pc[t] \notin {"write", "clear"}

Whole(e, v) == \A f \in Files : disk[e][f] = v

\* the fetches other than t that are at work on, or have returned, an entry in E
OthersOn(t, E) == {u \in Threads \ {t} : pc[u] # "idle" /\ entry[u] \in E}

Goto(t, l) == pc' = [pc EXCEPT ![t] = l]

-----------------------------------------------------------------------------
(* The cache *)

Paths(e) == Below[e] \X (Files \cup {"manifest.json"})

Exists(p) == IF p[2] = "manifest.json" THEN manifest[p[1]] # None ELSE disk[p[1]][p[2]] # None

\* clear takes the lock and lists the directory; nothing there, nothing done
StartClear(t) ==
    LET all == {p \in Paths(entry[t]) : Exists(p)} IN
    /\ pc[t] = "condemn"
    /\ LockFree
    /\ todo' = [todo EXCEPT ![t] = all]
    /\ unsettled' = unsettled \cup {e \in Below[entry[t]] : manifest[e] # None}
    /\ Goto(t, "clear")
    /\ UNCHANGED <<store, entry, checked, got, listed, wrote, fetches, touched>>

\* it unlinks the paths one by one, in the order of their names
Unlink(t) ==
    /\ pc[t] = "clear"
    /\ \E p \in todo[t] :
          /\ IF p[2] = "manifest.json"
             THEN manifest' = [manifest EXCEPT ![p[1]] = None] /\ UNCHANGED disk
             ELSE disk' = [disk EXCEPT ![p[1]][p[2]] = None] /\ UNCHANGED manifest
          /\ todo' = [todo EXCEPT ![t] = @ \ {p}]
    /\ touched' = touched \cup OthersOn(t, Below[entry[t]])
    /\ UNCHANGED <<pc, entry, checked, got, listed, wrote, fetches, unsettled>>

\* then the fetch downloads, or, if it had written the entry itself, raises
Cleared(t) ==
    /\ pc[t] = "clear"
    /\ todo[t] = {}
    /\ Goto(t, IF wrote[t] THEN "idle" ELSE "download")
    /\ unsettled' = unsettled \ Below[entry[t]]
    /\ UNCHANGED <<store, entry, checked, got, listed, todo, wrote, fetches, touched>>

\* write_files takes the lock
StartWrite(t) ==
    /\ pc[t] = "dedup"
    /\ LockFree
    /\ todo' = [todo EXCEPT ![t] = Files]
    /\ unsettled' = IF manifest[entry[t]] # None THEN unsettled \cup {entry[t]} ELSE unsettled
    /\ Goto(t, "write")
    /\ UNCHANGED <<store, entry, checked, got, listed, wrote, fetches, touched>>

WriteFile(t) ==
    /\ pc[t] = "write"
    /\ \E f \in todo[t] :
          /\ disk' = [disk EXCEPT ![entry[t]][f] = got[t]]
          /\ todo' = [todo EXCEPT ![t] = @ \ {f}]
    /\ touched' = touched \cup OthersOn(t, {entry[t]})
    /\ UNCHANGED <<manifest, pc, entry, checked, got, listed, wrote, fetches, unsettled>>

\* mutant: the manifest may go first
AnyOrder(t) == TRUE

FilesWritten(t) == todo[t] = {}

\* the manifest is written last, and the lock released
WriteManifest(t) ==
    /\ pc[t] = "write"
    /\ FilesWritten(t)
    /\ manifest' = [manifest EXCEPT ![entry[t]] = got[t]]
    /\ unsettled' = unsettled \ {e \in {entry[t]} : Whole(e, got[t])}
    /\ touched' = touched \cup OthersOn(t, {entry[t]})
    /\ wrote' = [wrote EXCEPT ![t] = TRUE]
    /\ checked' = [checked EXCEPT ![t] = TRUE]
    /\ Goto(t, "verify")
    /\ UNCHANGED <<disk, entry, got, listed, todo, fetches>>

\* writing or unlinking raises: what was done stays done
Interrupted(t) ==
    /\ pc[t] \in {"write", "clear"}
    /\ Goto(t, "idle")
    /\ UNCHANGED <<store, entry, checked, got, listed, todo, wrote, fetches, history>>

-----------------------------------------------------------------------------
(* fetch *)

Fetch(t, e, verify) ==
    /\ pc[t] \in {"idle", "returned"}
    /\ fetches < MaxFetches
    /\ fetches' = fetches + 1
    /\ entry' = [entry EXCEPT ![t] = e]
    /\ checked' = [checked EXCEPT ![t] = verify]
    /\ wrote' = [wrote EXCEPT ![t] = FALSE]
    /\ got' = [got EXCEPT ![t] = None]
    /\ todo' = [todo EXCEPT ![t] = {}]
    /\ Goto(t, "lookup")
    /\ UNCHANGED <<store, listed, history>>

\* the license is refused, the source fails or pins do not match, a manifest
\* is gone before it is read: nothing is cached
Raise(t) ==
    /\ \/ pc[t] \in {"lookup", "download", "dedup"}
       \/ pc[t] = "load" /\ manifest[entry[t]] = None
    /\ Goto(t, "idle")
    /\ UNCHANGED <<store, entry, checked, got, listed, todo, wrote, fetches, history>>

\* has
Lookup(t) ==
    /\ pc[t] = "lookup"
    /\ Goto(t, IF manifest[entry[t]] = None THEN "download"
               ELSE IF checked[t] THEN "verify" ELSE "load")
    /\ UNCHANGED <<store, entry, checked, got, listed, todo, wrote, fetches, history>>

\* verify reads the manifest; without one it fails. After a write that need not
\* be the manifest that was written.
Verify(t) ==
    LET m == manifest[entry[t]] IN
    /\ pc[t] = "verify"
    /\ IF m = None
       THEN Goto(t, "condemn") /\ UNCHANGED <<listed, todo>>
       ELSE /\ Goto(t, "check")
            /\ listed' = [listed EXCEPT ![t] = m]
            /\ todo' = [todo EXCEPT ![t] = Files]
    /\ touched' = IF wrote[t] /\ m # got[t] THEN touched \cup {t} ELSE touched \ {t}
    /\ UNCHANGED <<store, entry, checked, got, wrote, fetches, unsettled>>

Forget(t) == listed' = [listed EXCEPT ![t] = None]

\* mutant: only presence is checked
Matches(t, f) == disk[entry[t]][f] # None

Same(t, f) == disk[entry[t]][f] = listed[t]

\* and hashes file after file
CheckFile(t) ==
    /\ pc[t] = "check"
    /\ \E f \in todo[t] :
          IF Same(t, f)
          THEN todo' = [todo EXCEPT ![t] = @ \ {f}] /\ UNCHANGED <<pc, listed>>
          ELSE Goto(t, "condemn") /\ Forget(t) /\ UNCHANGED todo
    /\ UNCHANGED <<store, entry, checked, got, wrote, fetches, history>>

\* the entry verified: a hit reads the manifest again, a fetch that has just
\* written the entry returns the manifest it wrote
Verified(t) ==
    /\ pc[t] = "check"
    /\ todo[t] = {}
    /\ Goto(t, IF wrote[t] THEN "returned" ELSE "load")
    /\ Forget(t)
    /\ UNCHANGED <<store, entry, checked, got, todo, wrote, fetches, history>>

\* load_manifest and return
Hit(t) ==
    /\ pc[t] = "load"
    /\ manifest[entry[t]] # None
    /\ got' = [got EXCEPT ![t] = manifest[entry[t]]]
    /\ Goto(t, "returned")
    /\ UNCHANGED <<store, entry, checked, listed, todo, wrote, fetches, history>>

\* the source serves what it has now
Download(t) ==
    /\ pc[t] = "download"
    /\ \E v \in Versions : got' = [got EXCEPT ![t] = v]
    /\ Goto(t, "dedup")
    /\ UNCHANGED <<store, entry, checked, listed, todo, wrote, fetches, history>>

\* find_by_fingerprint, under the lock: another entry's manifest lists the same
\* content, so that entry is returned, its files unseen, and nothing is written.
\* The path of an entry without a revision is read back as that of another
\* repository, so such an entry is never recognised as the caller's own.
Dedup(t, e) ==
    /\ pc[t] = "dedup"
    /\ LockFree
    /\ e # entry[t] \/ Below[e] # {e}
    /\ manifest[e] = got[t]
    /\ entry' = [entry EXCEPT ![t] = e]
    /\ checked' = [checked EXCEPT ![t] = FALSE]
    /\ Goto(t, "returned")
    /\ UNCHANGED <<store, got, listed, todo, wrote, fetches, history>>

-----------------------------------------------------------------------------
(* The world *)

\* a file decays, or is changed by somebody else
Rot(e, f) ==
    /\ disk[e][f] \notin {None, Rotten}
    /\ disk' = [disk EXCEPT ![e][f] = Rotten]
    /\ unsettled' = unsettled \cup {e}
    /\ touched' = touched \cup {t \in Threads : pc[t] # "idle" /\ entry[t] = e}
    /\ UNCHANGED <<manifest, call>>

\* the process dies and comes back
Crash ==
    /\ pc' = [t \in Threads |-> "idle"]
    /\ listed' = [t \in Threads |-> None]
    /\ UNCHANGED <<store, entry, checked, got, todo, wrote, fetches, history>>

Next ==
    \/ \E t \in Threads :
          \/ \E e \in Entries : (\E verify \in BOOLEAN : Fetch(t, e, verify)) \/ Dedup(t, e)
          \/ Lookup(t) \/ Verify(t) \/ CheckFile(t) \/ Verified(t) \/ Hit(t)
          \/ StartClear(t) \/ Unlink(t) \/ Cleared(t)
          \/ Download(t) \/ StartWrite(t) \/ WriteFile(t) \/ WriteManifest(t)
          \/ Raise(t) \/ Interrupted(t)
    \/ \E e \in Entries, f \in Files : Rot(e, f)
    \/ Crash

Spec == Init /\ [][Next]_vars

-----------------------------------------------------------------------------
(* Properties *)

\* Every variable has its type, and at most one thread writes or clears.
TypeOK ==
    /\ disk \in [Entries -> [Files -> Versions \cup {None, Rotten}]]
    /\ manifest \in [Entries -> Versions \cup {None}]
    /\ pc \in [Threads -> {"idle", "lookup", "verify", "check", "condemn", "clear", "load",
                           "download", "dedup", "write", "returned"}]
    /\ entry \in [Threads -> Entries]
    /\ checked \in [Threads -> BOOLEAN]
    /\ got \in [Threads -> Versions \cup {None}]
    /\ listed \in [Threads -> Versions \cup {None}]
    /\ todo \in [Threads -> SUBSET (Files \cup (Entries \X (Files \cup {"manifest.json"})))]
    /\ wrote \in [Threads -> BOOLEAN]
    /\ fetches \in 0..MaxFetches
    /\ unsettled \subseteq Entries
    /\ touched \subseteq Threads
    /\ \A t, u \in Threads : pc[t] \in {"write", "clear"} /\ pc[u] \in {"write", "clear"} => t = u

\* "a partial write leaves no manifest behind": at any moment, crashes and
\* failures included, an entry with a manifest has every file it lists, unless
\* files changed behind the cache's back or an old manifest is being outdated
\* by an overwrite or a clear (or was by one that did not end).
ManifestIsTruthful ==
    \A e \in Entries \ unsettled : manifest[e] # None => Whole(e, manifest[e])

\* What a verifying fetch, or one that downloaded, has returned was complete
\* and matched the manifest it returned, whatever was in the cache before and
\* whatever ran beside it; it stays so until another fetch writes or clears the
\* entry, or the one its directory lies in, or a file decays. What happened
\* before the verification began is no excuse, with one exception: a fetch that
\* wrote the entry and then verified what another has written over it.
ServedIsWhole ==
    \A t \in Threads :
        pc[t] = "returned" /\ checked[t] /\ t \notin touched => Whole(entry[t], got[t])
=============================================================================
