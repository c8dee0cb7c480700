-------------------------------- MODULE Canvas ---------------------------------
(***************************************************************************)
(* canvas/canvas.py and canvas/versioning.py: a tracked canvas of nodes    *)
(* and connections that several threads edit, the history of its versions, *)
(* and a branch that is edited beside it and merged back.                  *)
(*                                                                         *)
(* Each canvas has a lock, and each edit is one section under it. The      *)
(* history has a lock of its own: its merge holds that one throughout, but *)
(* the canvases' only while it reads them and while it replaces the state, *)
(* so edits fall between. Types, positions and inputs of nodes are left    *)
(* out, and with them the checks and edits that are only about them.       *)
(***************************************************************************)
EXTENDS Naturals, Sequences, FiniteSets

CONSTANTS
    Names,        \* the ids that callers give to nodes
    Ports,        \* input ports; all outputs are one
    MaxMerges,    \* a bound on the "merge_" prefixes of an id
    MaxVersions,  \* a bound on the versions
    MaxEdits,     \* a bound on the edits
    None          \* no branch

Ids == Names \X (0..MaxMerges)

\* "merge_" + id
Prefixed(n) == <<n[1], n[2] + 1>>

Wire  == [from : Ids, to : Ids, port : Ports]
State == [nodes : SUBSET Ids, wires : SUBSET Wire]
Empty == [nodes |-> {}, wires |-> {}]

ASSUME NoneAssumption  == None \notin State
ASSUME BoundAssumption == MaxMerges \in Nat /\ MaxVersions \in Nat /\ MaxEdits \in Nat

VARIABLES
    canvas,     \* the state of the tracked canvas
    branch,     \* that of the branch
    versions,   \* the committed states
    merging,    \* where history.merge is; it holds the history's lock
    mine,       \*   its snapshot of the tracked canvas
    theirs,     \*   and of the branch
    edits,      \* how many edits there were
    edited      \* history: was the canvas changed since merge read it?

documents == <<canvas, branch>>
merge     == <<merging, mine, theirs>>
vars      == <<documents, versions, merge, edits, edited>>

Init ==
    /\ canvas = Empty
    /\ branch = None
    /\ versions = <<>>
    /\ merging = "idle"
    /\ mine = Empty
    /\ theirs = Empty
    /\ edits = 0
    /\ edited = FALSE

-----------------------------------------------------------------------------
(* Connections *)

\* would_create_cycle: is there a path? (b is in whatever holds a and what is
\* wired to a member)
Reaches(W, a, b) ==
    \A S \in SUBSET Ids :
        a \in S /\ (\A w \in W : w.from \in S => w.to \in S) => b \in S

\* the checks of connect and validate_connection
MayConnect(s, w) ==
    /\ w.from \in s.nodes
    /\ w.to \in s.nodes
    /\ \A v \in s.wires : <<v.to, v.port>> # <<w.to, w.port>>
    /\ w.from # w.to
    /\ ~Reaches(s.wires, w.to, w.from)

\* validate: neither cycles nor the number of wires at an input are looked at
Valid(s) == \A w \in s.wires : w.from \in s.nodes /\ w.to \in s.nodes /\ w.from # w.to

-----------------------------------------------------------------------------
(* Edits of a state: add_node, remove_node, connect and disconnect *)

Added(s) == {[s EXCEPT !.nodes = @ \cup {n}] : n \in (Names \X {0}) \ s.nodes}

Without(s, n) ==
    [nodes |-> s.nodes \ {n},
     wires |-> {w \in s.wires : w.from # n /\ w.to # n}]

Removed(s) == {Without(s, n) : n \in s.nodes}

\* (mutants are marked so: each is a plausible bug that a run must catch)
\* mutant: a path the other way round is not looked for
ConnectedAnyway(s) ==
    {[s EXCEPT !.wires = @ \cup {w}] :
        w \in {x \in Wire : /\ x.from \in s.nodes /\ x.to \in s.nodes /\ x.from # x.to
                            /\ \A v \in s.wires : <<v.to, v.port>> # <<x.to, x.port>>}}

Connected(s) ==
    {[s EXCEPT !.wires = @ \cup {w}] : w \in {x \in Wire : MayConnect(s, x)}}

Disconnected(s) == {[s EXCEPT !.wires = @ \ {w}] : w \in s.wires}

Edited(s) == Added(s) \cup Removed(s) \cup Connected(s) \cup Disconnected(s)

Edit ==
    /\ edits < MaxEdits
    /\ edits' = edits + 1
    /\ canvas' \in Edited(canvas)
    /\ edited' = TRUE
    /\ UNCHANGED <<branch, versions, merge>>

EditBranch ==
    /\ edits < MaxEdits
    /\ edits' = edits + 1
    /\ branch # None
    /\ branch' \in Edited(branch)
    /\ UNCHANGED <<canvas, versions, merge, edited>>

-----------------------------------------------------------------------------
(* The history: each operation holds its lock *)

Commit ==
    /\ merging = "idle"
    /\ Len(versions) < MaxVersions
    /\ versions' = Append(versions, canvas)
    /\ UNCHANGED <<documents, merge, edits, edited>>

Revert ==
    /\ merging = "idle"
    /\ \E i \in DOMAIN versions : canvas' = versions[i]
    /\ edited' = TRUE
    /\ UNCHANGED <<branch, versions, merge, edits>>

Branch ==
    /\ merging = "idle"
    /\ branch' = canvas
    /\ UNCHANGED <<canvas, versions, merge, edits, edited>>

\* merge takes a snapshot of the tracked canvas,
ReadCanvas ==
    /\ merging = "idle"
    /\ branch # None
    /\ \A n \in branch.nodes : n[2] < MaxMerges
    /\ mine' = canvas
    /\ edited' = FALSE
    /\ merging' = "theirs"
    /\ UNCHANGED <<documents, versions, theirs, edits>>

\* then one of the branch,
ReadBranch ==
    /\ merging = "theirs"
    /\ \A n \in branch.nodes : n[2] < MaxMerges
    /\ theirs' = branch
    /\ merging' = "replace"
    /\ UNCHANGED <<documents, versions, mine, edits, edited>>

Rewired(w) == [w EXCEPT !.from = Prefixed(@), !.to = Prefixed(@)]

\* adds the nodes of the branch, a taken id raises,
Collides == \E n \in theirs.nodes : Prefixed(n) \in mine.nodes

\* and connects its wires one by one, leaving out what connect refuses: in
\* whichever order, a set to which no other of them could be added.
Accepted(s, W) ==
    {K \in SUBSET W :
        /\ \A w \in K : MayConnect([s EXCEPT !.wires = (s.wires \cup K) \ {w}], w)
        /\ \A w \in W \ K : ~MayConnect([s EXCEPT !.wires = s.wires \cup K], w)}

\* mutant: the result starts from the branch
MergedBase == [mine EXCEPT !.nodes = {}, !.wires = {}]

Base == mine

\* the tracked canvas becomes the merged one, whatever it has become meanwhile
Replace ==
    LET both == [Base EXCEPT !.nodes = @ \cup {Prefixed(n) : n \in theirs.nodes}] IN
    /\ merging = "replace"
    /\ ~Collides
    /\ \E K \in Accepted(both, {Rewired(w) : w \in theirs.wires}) :
          canvas' = [both EXCEPT !.wires = @ \cup K]
    /\ merging' = "idle" /\ mine' = Empty /\ theirs' = Empty
    /\ UNCHANGED <<branch, versions, edits, edited>>

MergeRaises ==
    /\ merging = "replace"
    /\ Collides
    /\ merging' = "idle" /\ mine' = Empty /\ theirs' = Empty
    /\ UNCHANGED <<documents, versions, edits, edited>>

Next ==
    \/ Edit \/ EditBranch
    \/ Commit \/ Revert \/ Branch
    \/ ReadCanvas \/ ReadBranch \/ Replace \/ MergeRaises

Spec == Init /\ [][Next]_vars

-----------------------------------------------------------------------------
(* Properties *)

\* every set of nodes has one that no other of them feeds
Acyclic(s) ==
    \A S \in (SUBSET s.nodes) \ {{}} :
        \E n \in S : \A w \in s.wires : w.to = n => w.from \notin S

Wired(s) ==
    /\ Valid(s)
    /\ \A v, w \in s.wires : v.to = w.to /\ v.port = w.port => v = w
    /\ Acyclic(s)

\* Every state that can be reached by editing, committing, reverting,
\* branching and merging is a graph without cycles, with both ends of each wire
\* on the canvas and one wire per input, though edits only look at the wire at
\* hand, merge checks the wires of the branch once more, and nothing checks
\* what is reverted to. That is what to_pipeline relies on: it converts in
\* another locked section than it validates in, and validate sees no cycles.
WellWired ==
    /\ Wired(canvas) /\ Wired(mine) /\ Wired(theirs)
    /\ branch # None => Wired(branch)
    /\ \A i \in DOMAIN versions : Wired(versions[i])

\* "After the merge, the tracked canvas contains nodes and connections from
\* both": all of its own, unless it was edited under the merge, and all of the
\* branch's, none of which connect refuses; a merge that raises changes nothing.
MergeKeepsBoth ==
    [][merging = "replace" /\ merging' = "idle" =>
        \/ canvas' = canvas /\ Collides
        \/ /\ edited \/ (canvas.nodes \subseteq canvas'.nodes
                            /\ canvas.wires \subseteq canvas'.wires)
           /\ \A n \in theirs.nodes : Prefixed(n) \in canvas'.nodes
           /\ \A w \in theirs.wires : Rewired(w) \in canvas'.wires]_vars
=============================================================================
