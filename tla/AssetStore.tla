------------------------------ MODULE AssetStore -------------------------------
(***************************************************************************)
(* assets/store/: assets with revisions, kept in three tiers. The hot tier *)
(* is an LRU of Asset objects, the warm one a SQLite table and a directory *)
(* of blobs named by their hash, the cold one a second blob store.         *)
(*                                                                         *)
(* put works in three phases: it snapshots the revisions under the lock,   *)
(* copies and hashes the content without it, and places the blob, saves    *)
(* the row and mirrors the blob under it again. evict_to_cold and          *)
(* promote_from_cold take no lock, so they fall between these last steps.  *)
(* A content stands for its hash, and revision "r<i>" is position i. The   *)
(* process may die at any point; rows and blobs survive it.                *)
(***************************************************************************)
EXTENDS Naturals, Sequences, SequencesExt, FiniteSets

CONSTANTS
    Threads,   \* the threads that call the store
    Assets,    \* asset identifiers
    Contents,  \* contents, each with
    SizeOf,    \*   its size in bytes
    HotSize,   \* capacity of the hot tier
    HasCold,   \* is a cold tier configured
    MaxPuts,   \* a bound on the calls of put and fork
    None       \* an absent row or object

ASSUME SizeAssumption == SizeOf \in [Contents -> Nat]
ASSUME HotAssumption  == HotSize \in Nat \ {0}
ASSUME ColdAssumption == HasCold \in BOOLEAN
ASSUME PutsAssumption == MaxPuts \in Nat

\* an Asset: unsaved marks an object that differs from its row because the
\* save that changed it failed
Asset == [revs : Seq(Contents), archived : BOOLEAN, unsaved : BOOLEAN]

\* the local variables of put; revs are the revisions of the caller's object,
\* seen the sizes in existing_revisions, rev the revision it saved
Job == [asset : Assets, content : Contents, revs : Seq(Contents),
        fork : BOOLEAN, seen : SUBSET Nat, rev : Nat]

ASSUME NoneAssumption == None \notin Asset \cup Job

VARIABLES
    db,       \* the rows of the table
    hot,      \* the objects of the hot tier
    order,    \*   least recently used first
    warm,     \* the blobs in the objects directory
    cold,     \* the blobs in the cold tier: "absent", "torn" or "whole"
    mirror,   \* _mirror_to_cold
    closed,   \* _closed
    pc,       \* where a put is
    job,      \*   and its local variables
    puts,     \* how many puts were called
    issued,   \* history: the references put has returned
    lost,     \* history: contents evicted without a whole copy in the cold tier
    overlap   \* history: contents whose puts into one asset overlapped

hotTier == <<hot, order>>
blobs   == <<warm, cold, lost>>
call    == <<pc, job, puts>>
vars    == <<db, hotTier, blobs, mirror, closed, call, issued, overlap>>

Init ==
    /\ db = [a \in Assets |-> None]
    /\ hot = [a \in Assets |-> None]
    /\ order = <<>>
    /\ warm = {}
    /\ cold = [c \in Contents |-> "absent"]
    /\ mirror \in BOOLEAN
    /\ closed = FALSE
    /\ pc = [t \in Threads |-> "idle"]
    /\ job = [t \in Threads |-> None]
    /\ puts = 0
    /\ issued = {}
    /\ lost = {}
    /\ overlap = {}

\* the last phase of a put holds the lock from the blob to the reference
LockFree == \A t \in Threads : pc[t] \notin {"save", "push"}
Usable   == LockFree /\ ~closed

InFlight(t) == pc[t] \notin {"idle", "begin"}

Goto(t, l) == pc' = [pc EXCEPT ![t] = l]
End(t, j)  == Goto(t, "idle") /\ job' = [job EXCEPT ![t] = j] /\ UNCHANGED puts

-----------------------------------------------------------------------------
(* The hot tier *)

\* the other objects, in their order
Others(a) ==
    IF hot[a] = None THEN order
    ELSE RemoveAt(order, CHOOSE i \in DOMAIN order : order[i] = a)

\* (mutants are marked so: each is a plausible bug that a run must catch)
\* mutant: nothing makes room
HotPutOnly(a, obj) ==
    /\ order' = Append(Others(a), a)
    /\ hot' = [hot EXCEPT ![a] = obj]

\* HotCache.put: the entry becomes the youngest, the oldest make room
HotPut(a, obj) ==
    LET queue == Append(Others(a), a)
        kept  == SubSeq(queue, IF Len(queue) > HotSize THEN Len(queue) - HotSize + 1 ELSE 1,
                        Len(queue))
    IN  /\ order' = kept
        /\ hot' = [b \in Assets |->
                     IF b = a THEN obj
                     ELSE IF \E i \in DOMAIN kept : kept[i] = b THEN hot[b] ELSE None]

\* _load_asset: the object of the hot tier, else the row, which enters it
Loaded(a) == IF hot[a] # None THEN hot[a] ELSE db[a]

LoadAsset(a) == IF Loaded(a) = None THEN UNCHANGED hotTier ELSE HotPut(a, Loaded(a))

Revs(obj) == IF obj = None THEN <<>> ELSE obj.revs

\* get_revision and the comparison of the hashes
Resolves(ref) ==
    LET revs == Revs(Loaded(ref[1])) IN ref[2] \in DOMAIN revs /\ revs[ref[2]] = ref[3]

-----------------------------------------------------------------------------
(* put *)

\* A caller brings a new object or, after a put that failed, the same one.
Put(t, a, c) ==
    /\ pc[t] = "idle"
    /\ puts < MaxPuts
    /\ \E old \in {<<>>} \cup
                  (IF job[t] # None /\ job[t].asset = a THEN {job[t].revs} ELSE {}) :
          job' = [job EXCEPT ![t] = [asset |-> a, content |-> c, revs |-> old,
                                     fork |-> FALSE, seen |-> {}, rev |-> 0]]
    /\ Goto(t, "begin")
    /\ puts' = puts + 1
    /\ UNCHANGED <<db, hotTier, blobs, mirror, closed, issued, overlap>>

Leftover(t) == {job[t].revs[i] : i \in DOMAIN job[t].revs}
Brings(t)   == Leftover(t) \cup {job[t].content}

\* the contents that another put between its phases brings into the asset as
\* well, or that the object of a failed put already has as a revision
Overlaps(t) ==
    (Leftover(t) \cap {job[t].content}) \cup
    UNION {Brings(t) \cap Brings(u) :
             u \in {v \in Threads \ {t} : InFlight(v) /\ job[v].asset = job[t].asset}}

\* phase 1, under the lock: the sizes of the revisions known so far
Begin(t) ==
    LET a == job[t].asset IN
    /\ pc[t] = "begin"
    /\ Usable
    /\ job' = [job EXCEPT ![t].seen = {SizeOf[Revs(Loaded(a))[i]] : i \in DOMAIN Revs(Loaded(a))}]
    /\ overlap' = overlap \cup ({a} \X Overlaps(t))
    /\ LoadAsset(a)
    /\ Goto(t, "stage")
    /\ UNCHANGED <<db, blobs, mirror, closed, puts, issued>>

\* phase 2, without it: copy and hash. A fork reads the blob itself.
Stage(t) ==
    /\ pc[t] = "stage"
    /\ job[t].fork => job[t].content \in warm
    /\ Goto(t, "place")
    /\ UNCHANGED <<db, hotTier, blobs, mirror, closed, job, puts, issued, overlap>>

\* copying or hashing raises; or the store was closed under the call
Abandon(t) ==
    /\ \/ pc[t] = "stage"
       \/ pc[t] \in {"begin", "place"} /\ LockFree /\ closed
    /\ End(t, job[t])
    /\ UNCHANGED <<db, hotTier, blobs, mirror, closed, issued, overlap>>

\* phase 3 takes the lock: rename the staging file unless the blob is there
Place(t) ==
    /\ pc[t] = "place"
    /\ Usable
    /\ warm' = warm \cup {job[t].content}
    /\ lost' = lost \ {job[t].content}
    /\ Goto(t, "save")
    /\ UNCHANGED <<db, hotTier, cold, mirror, closed, job, puts, issued, overlap>>

\* mutant: the history of phase 1 is trusted
NoReload(t) == job[t].revs

\* the revisions the transaction starts from: the stored ones, if any
Base(t) == LET stored == Revs(Loaded(job[t].asset)) IN
           IF stored # <<>> THEN stored ELSE job[t].revs

\* mutant: no revision is ever reused
NoReuse(t) == {}

\* a revision with the hash, looked for only if phase 1 saw one of the size
Reusable(t) ==
    {i \in DOMAIN Base(t) : /\ SizeOf[job[t].content] \in job[t].seen
                            /\ Base(t)[i] = job[t].content}

NewRevs(t) == IF Reusable(t) = {} THEN Append(Base(t), job[t].content) ELSE Base(t)
Revision(t) == IF Reusable(t) = {} THEN Len(Base(t)) + 1
               ELSE CHOOSE i \in Reusable(t) : \A j \in Reusable(t) : i <= j

\* Is the caller's object the one the hot tier holds? Callers get it from get,
\* and may hand one object to two puts.
MayShare(a) == {FALSE} \cup (IF hot[a] # None THEN {TRUE} ELSE {})

\* mutant: the hot tier is not told
CommitOnly(t) ==
    LET a == job[t].asset IN
    /\ pc[t] = "save"
    /\ db' = [db EXCEPT ![a] = [revs |-> NewRevs(t), archived |-> FALSE, unsaved |-> FALSE]]
    /\ job' = [job EXCEPT ![t].rev = Revision(t)]
    /\ Goto(t, "push")
    /\ UNCHANGED <<hotTier, blobs, mirror, closed, puts, issued, overlap>>

\* the transaction commits; another object than the hot one replaces it and
\* brings its own status, which is active
Save(t) ==
    LET a == job[t].asset IN
    /\ pc[t] = "save"
    /\ \E shared \in MayShare(a) :
          LET obj == [revs |-> NewRevs(t), archived |-> shared /\ hot[a].archived,
                      unsaved |-> FALSE]
          IN  /\ db' = [db EXCEPT ![a] = obj]
              /\ HotPut(a, obj)
    /\ job' = [job EXCEPT ![t].rev = Revision(t)]
    /\ Goto(t, "push")
    /\ UNCHANGED <<blobs, mirror, closed, puts, issued, overlap>>

\* it rolls back: the caller's object keeps the new revision all the same
SaveFails(t) ==
    LET a == job[t].asset IN
    /\ pc[t] = "save"
    /\ \E shared \in MayShare(a) :
          IF shared
          THEN /\ HotPut(a, [hot[a] EXCEPT !.revs = NewRevs(t),
                                           !.unsaved = @ \/ NewRevs(t) # Base(t)])
               /\ End(t, None)
          ELSE LoadAsset(a) /\ End(t, [job[t] EXCEPT !.revs = NewRevs(t)])
    /\ UNCHANGED <<db, blobs, mirror, closed, issued, overlap>>

\* push_to_cold: a blob that is there in any state counts as stored; a copy
\* may fail half way, and no failure reaches the caller
Pushed(c) ==
    IF HasCold /\ mirror /\ cold[c] = "absent" /\ c \in warm
    THEN {"absent", "torn", "whole"} ELSE {cold[c]}

Push(t) ==
    LET c == job[t].content IN
    /\ pc[t] = "push"
    /\ \E s \in Pushed(c) : cold' = [cold EXCEPT ![c] = s]
    /\ issued' = issued \cup {<<job[t].asset, job[t].rev, c>>}
    /\ End(t, None)
    /\ UNCHANGED <<db, hotTier, warm, lost, mirror, closed, overlap>>

-----------------------------------------------------------------------------
(* The other operations *)

\* promote_from_cold: the fetched copy is hashed before it enters the warm tier
Fetched(c) ==
    IF HasCold /\ cold[c] = "whole" THEN {warm, warm \cup {c}} ELSE {warm}

Promote(c) ==
    /\ warm' \in Fetched(c)
    /\ UNCHANGED <<db, hotTier, cold, lost, mirror, closed, call, issued, overlap>>

\* get, and exists and verify, which load the asset but fetch nothing
Get(ref) ==
    /\ Usable
    /\ LoadAsset(ref[1])
    /\ warm' \in (IF Resolves(ref) THEN Fetched(ref[3]) ELSE {warm})
    /\ UNCHANGED <<db, cold, lost, mirror, closed, call, issued, overlap>>

\* fork: get, and put the blob under an identifier nobody has used
Fork(t, ref, b) ==
    /\ pc[t] = "idle"
    /\ puts < MaxPuts
    /\ Usable
    /\ db[b] = None
    /\ \A u \in Threads : job[u] # None => job[u].asset # b
    /\ Resolves(ref)
    /\ LoadAsset(ref[1])
    /\ warm' \in Fetched(ref[3]) /\ ref[3] \in warm'
    /\ job' = [job EXCEPT ![t] = [asset |-> b, content |-> ref[3], revs |-> <<>>,
                                  fork |-> TRUE, seen |-> {}, rev |-> 0]]
    /\ Goto(t, "begin")
    /\ puts' = puts + 1
    /\ UNCHANGED <<db, cold, lost, mirror, closed, issued, overlap>>

\* delete archives the loaded object, then saves it; the save may fail
Delete(a) ==
    LET obj == [Loaded(a) EXCEPT !.archived = TRUE] IN
    /\ Usable
    /\ Loaded(a) # None
    /\ \/ /\ db' = [db EXCEPT ![a] = [obj EXCEPT !.unsaved = FALSE]]
          /\ HotPut(a, [obj EXCEPT !.unsaved = FALSE])
       \/ db' = db /\ HotPut(a, [obj EXCEPT !.unsaved = @ \/ ~Loaded(a).archived])
    /\ UNCHANGED <<blobs, mirror, closed, call, issued, overlap>>

\* evict_to_cold does not ask the cold tier
EvictToCold(c) ==
    /\ HasCold
    /\ c \in warm
    /\ warm' = warm \ {c}
    /\ lost' = IF cold[c] = "whole" THEN lost ELSE lost \cup {c}
    /\ UNCHANGED <<db, hotTier, cold, mirror, closed, call, issued, overlap>>

SetMirror ==
    /\ LockFree
    /\ mirror' = ~mirror
    /\ UNCHANGED <<db, hotTier, blobs, closed, call, issued, overlap>>

Close ==
    /\ Usable
    /\ closed' = TRUE
    /\ hot' = [a \in Assets |-> None]
    /\ order' = <<>>
    /\ UNCHANGED <<db, blobs, mirror, call, issued, overlap>>

\* The process dies. A blob on its way to the cold tier may stay there torn.
Crash ==
    /\ closed' = TRUE
    /\ hot' = [a \in Assets |-> None]
    /\ order' = <<>>
    /\ pc' = [t \in Threads |-> "idle"]
    /\ job' = [t \in Threads |-> None]
    /\ \E torn \in SUBSET {job[t].content : t \in {u \in Threads : pc[u] = "push"}} :
          cold' = [c \in Contents |-> IF c \in torn /\ "torn" \in Pushed(c)
                                      THEN "torn" ELSE cold[c]]
    /\ UNCHANGED <<db, warm, lost, mirror, puts, issued, overlap>>

\* a new store over the same directories
Reopen ==
    /\ closed
    /\ \A t \in Threads : pc[t] = "idle"
    /\ closed' = FALSE
    /\ UNCHANGED <<db, hotTier, blobs, mirror, call, issued, overlap>>

Next ==
    \/ \E t \in Threads :
          \/ \E a \in Assets, c \in Contents : Put(t, a, c)
          \/ \E ref \in issued, b \in Assets : Fork(t, ref, b)
          \/ Begin(t) \/ Stage(t) \/ Abandon(t) \/ Place(t)
          \/ Save(t) \/ SaveFails(t) \/ Push(t)
    \/ \E ref \in issued : Get(ref)
    \/ \E a \in Assets : Delete(a)
    \/ \E c \in Contents : Promote(c) \/ EvictToCold(c)
    \/ SetMirror \/ Close \/ Crash \/ Reopen

Spec == Init /\ [][Next]_vars

-----------------------------------------------------------------------------
(* Properties *)

\* Every variable has its type; rows are never unsaved, and the hot tier holds
\* at most HotSize objects, those that order lists.
TypeOK ==
    /\ db \in [Assets -> {obj \in Asset : ~obj.unsaved} \cup {None}]
    /\ hot \in [Assets -> Asset \cup {None}]
    /\ order \in Seq(Assets) /\ Len(order) <= HotSize
    /\ {a \in Assets : hot[a] # None} = {order[i] : i \in DOMAIN order}
    /\ warm \in SUBSET Contents
    /\ cold \in [Contents -> {"absent", "torn", "whole"}]
    /\ mirror \in BOOLEAN /\ closed \in BOOLEAN
    /\ pc \in [Threads -> {"idle", "begin", "stage", "place", "save", "push"}]
    /\ job \in [Threads -> Job \cup {None}]
    /\ puts \in 0..MaxPuts
    /\ issued \in SUBSET (Assets \X (Nat \ {0}) \X Contents)
    /\ lost \in SUBSET Contents
    /\ overlap \in SUBSET (Assets \X Contents)

\* "If a revision with the same content hash already exists it is reused": an
\* asset has one revision per content. The phase without the lock is the
\* exception: puts of one content that overlap, and the object of a failed
\* first put used again, append it twice.
OneRevisionPerContent ==
    \A a \in Assets : db[a] # None =>
        \A i, j \in DOMAIN db[a].revs :
            db[a].revs[i] = db[a].revs[j] => i = j \/ <<a, db[a].revs[i]>> \in overlap

\* An object in the hot tier is what its row says, through evictions, forks,
\* deletes and failed saves; only a failed save of the very object it holds
\* leaves it ahead of the row, and then by further revisions or the status.
HotIsFresh ==
    \A a \in Assets : hot[a] # None =>
        /\ ~hot[a].unsaved => hot[a] = db[a]
        /\ hot[a].unsaved => db[a] # None /\ IsPrefix(db[a].revs, hot[a].revs)

\* The store implements the ledger: across overlapping puts, failed saves,
\* evictions and crashes a history only grows, names only contents that were
\* placed (and are in a tier still unless evict_to_cold dropped the last whole
\* copy), and a reference that put returned stands for its content for ever.
Ledger ==
    INSTANCE ContentLedger WITH
        log   <- [a \in Assets |-> Revs(db[a])],
        known <- warm \cup {c \in Contents : cold[c] = "whole"} \cup lost

LedgerSpec == Ledger!Spec
=============================================================================
