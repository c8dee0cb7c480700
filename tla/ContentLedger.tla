----------------------------- MODULE ContentLedger -----------------------------
(***************************************************************************)
(* What an asset store promises, without tiers, staging files or locks: a  *)
(* revision history only ever grows, it names only contents the store took *)
(* in, and a reference handed out stands for the same content for ever.    *)
(***************************************************************************)
EXTENDS Naturals, Sequences, SequencesExt

CONSTANTS Assets, Contents

VARIABLES
    log,     \* the revisions of each asset, oldest first
    known,   \* the contents the store has taken in
    issued   \* references handed out: <<asset, revision, content>>

ledger == <<log, known, issued>>

Init ==
    /\ log = [a \in Assets |-> <<>>]
    /\ known = {}
    /\ issued = {}

TakeIn(c) == known' = known \cup {c} /\ UNCHANGED <<log, issued>>

\* one save may publish what earlier, failed ones left in memory as well
Publish(a, revs) ==
    /\ IsStrictPrefix(log[a], revs)
    /\ \A i \in DOMAIN revs : revs[i] \in known
    /\ log' = [log EXCEPT ![a] = revs]
    /\ UNCHANGED <<known, issued>>

Issue(a, i) ==
    /\ issued' = issued \cup {<<a, i, log[a][i]>>}
    /\ UNCHANGED <<log, known>>

Next ==
    \/ \E c \in Contents : TakeIn(c)
    \/ \E a \in Assets :
          \/ Publish(a, log'[a])
          \/ \E i \in DOMAIN log[a] : Issue(a, i)

Spec == Init /\ [][Next]_ledger
=============================================================================
