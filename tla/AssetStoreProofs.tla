--------------------------- MODULE AssetStoreProofs ---------------------------
(***************************************************************************)
(* For any assets, contents, threads and sizes: the hot tier never lies    *)
(* about a row, an asset has one revision per content as far as the code   *)
(* promises it, and the store implements the ledger.                       *)
(***************************************************************************)
EXTENDS AssetStore, SequenceTheorems, WellFoundedInduction, TLAPS

HotOK ==
    /\ hot \in [Assets -> Asset \cup {None}]
    /\ order \in Seq(Assets) /\ Len(order) <= HotSize
    /\ {a \in Assets : hot[a] # None} = {order[i] : i \in DOMAIN order}
    /\ \A i, j \in DOMAIN order : order[i] = order[j] => i = j

DataOK ==
    /\ db \in [Assets -> {obj \in Asset : ~obj.unsaved} \cup {None}]
    /\ warm \in SUBSET Contents
    /\ cold \in [Contents -> {"absent", "torn", "whole"}]
    /\ mirror \in BOOLEAN /\ closed \in BOOLEAN
    /\ pc \in [Threads -> {"idle", "begin", "stage", "place", "save", "push"}]
    /\ job \in [Threads -> Job \cup {None}]
    /\ puts \in 0..MaxPuts
    /\ issued \in SUBSET (Assets \X (Nat \ {0}) \X Contents)
    /\ lost \in SUBSET Contents
    /\ overlap \in SUBSET (Assets \X Contents)

\* A put under way has its local variables, the last phase its revision.
JobsOK ==
    \A t \in Threads : /\ pc[t] # "idle" => job[t] # None
                       /\ pc[t] = "push" => job[t].rev # 0

TypeInv == HotOK /\ DataOK /\ JobsOK

-----------------------------------------------------------------------------
(* Sequences and sets of numbers *)

LEMMA LeastElement ==
  ASSUME NEW S, S \subseteq Nat, S # {}
  PROVE  \E x \in S : \A y \in S : x =< y
<1>1. \E R : IsWellFoundedOn(R, Nat) /\ \A x \in Nat : \A y \in Nat : y < x => <<y, x>> \in R
  <2>1. \A x \in Nat : \A y \in Nat : y < x => <<y, x>> \in OpToRel(<, Nat)
    BY DEF OpToRel
  <2> QED
    BY <2>1, NatLessThanWellFounded
<1>2. PICK R : IsWellFoundedOn(R, Nat) /\ \A x \in Nat : \A y \in Nat : y < x => <<y, x>> \in R
  BY <1>1
<1>3. PICK x \in S : \A y \in S : <<y, x>> \notin R
  BY <1>2, WFMin
<1>4. \A y \in S : ~(y < x) /\ x \in Nat /\ y \in Nat
  BY <1>2, <1>3
<1> QED
  BY <1>4

LEMMA SubSeqOf ==
  ASSUME NEW S, NEW s \in Seq(S), NEW m \in 1..Len(s) + 1, NEW n \in 0..Len(s)
  PROVE  /\ SubSeq(s, m, n) \in Seq(S)
         /\ Len(SubSeq(s, m, n)) = IF m <= n THEN n - m + 1 ELSE 0
         /\ \A i \in 1..Len(SubSeq(s, m, n)) : SubSeq(s, m, n)[i] = s[m + i - 1]
<1>1. \A i \in m..n : s[i] \in S
  OBVIOUS
<1>2. m \in Int /\ n \in Int
  OBVIOUS
<1> QED
  BY <1>1, <1>2, SubSeqProperties

\* What is left of a sequence without repetition when one place is taken out.
LEMMA RemovedAt ==
  ASSUME NEW S, NEW s \in Seq(S), NEW k \in DOMAIN s,
         \A i, j \in DOMAIN s : s[i] = s[j] => i = j
  PROVE  /\ RemoveAt(s, k) \in Seq(S)
         /\ Len(RemoveAt(s, k)) = Len(s) - 1
         /\ \A i, j \in DOMAIN RemoveAt(s, k) :
               RemoveAt(s, k)[i] = RemoveAt(s, k)[j] => i = j
         /\ \A x : (\E i \in DOMAIN RemoveAt(s, k) : RemoveAt(s, k)[i] = x)
                      <=> (\E i \in DOMAIN s : s[i] = x) /\ x # s[k]
<1> DEFINE u == SubSeq(s, 1, k - 1)
           v == SubSeq(s, k + 1, Len(s))
           r == RemoveAt(s, k)
<1>1. k \in 1..Len(s) /\ Len(s) \in Nat
  OBVIOUS
<1>2. /\ u \in Seq(S) /\ Len(u) = k - 1
      /\ \A i \in 1..Len(u) : u[i] = s[1 + i - 1]
  BY <1>1, SubSeqOf
<1>3. /\ v \in Seq(S) /\ Len(v) = Len(s) - k
      /\ \A i \in 1..Len(v) : v[i] = s[(k + 1) + i - 1]
  BY <1>1, SubSeqOf
<1>4. r = u \o v
  BY DEF RemoveAt
<1> HIDE DEF u, v, r
<1>5. r \in Seq(S) /\ Len(r) = Len(s) - 1
  BY <1>1, <1>2, <1>3, <1>4
<1>6. \A i \in 1..Len(s) - 1 : r[i] = IF i < k THEN s[i] ELSE s[i + 1]
  BY <1>1, <1>2, <1>3, <1>4
<1>7. \A i, j \in DOMAIN r : r[i] = r[j] => i = j
  BY <1>1, <1>5, <1>6
<1>8. ASSUME NEW i \in DOMAIN r PROVE (\E j \in DOMAIN s : s[j] = r[i]) /\ r[i] # s[k]
  BY <1>1, <1>5, <1>6
<1>9. ASSUME NEW i \in DOMAIN s, s[i] # s[k] PROVE \E j \in DOMAIN r : r[j] = s[i]
  <2>1. i \in 1..Len(s) /\ i # k
    BY <1>9
  <2>2. CASE i < k
    BY <1>1, <1>5, <1>6, <2>1, <2>2
  <2>3. CASE i > k
    <3>1. i - 1 \in DOMAIN r /\ r[i - 1] = s[i]
      BY <1>1, <1>5, <1>6, <2>1, <2>3
    <3> QED
      BY <3>1
  <2> QED
    BY <1>1, <2>1, <2>2, <2>3
<1> QED
  BY <1>5, <1>7, <1>8, <1>9 DEF r

-----------------------------------------------------------------------------
(* The hot tier *)

LEMMA OthersOK ==
  ASSUME HotOK, NEW a \in Assets
  PROVE  /\ Others(a) \in Seq(Assets) /\ Len(Others(a)) <= Len(order)
         /\ \A i, j \in DOMAIN Others(a) : Others(a)[i] = Others(a)[j] => i = j
         /\ \A b : (\E i \in DOMAIN Others(a) : Others(a)[i] = b)
                      <=> b \in Assets \ {a} /\ hot[b] # None
<1>1. /\ order \in Seq(Assets) /\ Len(order) \in Nat
      /\ \A i, j \in DOMAIN order : order[i] = order[j] => i = j
      /\ \A b \in Assets : hot[b] # None <=> \E i \in DOMAIN order : order[i] = b
      /\ \A i \in DOMAIN order : order[i] \in Assets
  BY DEF HotOK
<1>2. CASE hot[a] = None
  BY <1>1, <1>2 DEF Others
<1>3. CASE hot[a] # None
  <2> DEFINE k == CHOOSE i \in DOMAIN order : order[i] = a
  <2>1. k \in DOMAIN order /\ order[k] = a
    BY <1>1, <1>3
  <2> DEFINE r == RemoveAt(order, k)
  <2>2. Others(a) = r
    BY <1>3 DEF Others
  <2> HIDE DEF k
  <2>3. /\ r \in Seq(Assets) /\ Len(r) = Len(order) - 1
        /\ \A i, j \in DOMAIN r : r[i] = r[j] => i = j
        /\ \A x : (\E i \in DOMAIN r : r[i] = x)
                     <=> (\E i \in DOMAIN order : order[i] = x) /\ x # order[k]
    BY <1>1, <2>1, RemovedAt
  <2> HIDE DEF r
  <2>4. ASSUME NEW b
        PROVE  (\E i \in DOMAIN r : r[i] = b) <=> b \in Assets \ {a} /\ hot[b] # None
    <3>1. (\E i \in DOMAIN r : r[i] = b) <=> (\E i \in DOMAIN order : order[i] = b) /\ b # a
      BY <2>1, <2>3
    <3>2. (\E i \in DOMAIN order : order[i] = b) <=> b \in Assets /\ hot[b] # None
      BY <1>1
    <3> QED
      BY <3>1, <3>2
  <2>5. Len(r) <= Len(order)
    BY <1>1, <2>3
  <2> QED
    BY <2>2, <2>3, <2>4, <2>5
<1> QED
  BY <1>2, <1>3

\* put keeps the hot tier in order, holds the object, and of the others drops
\* some and changes none.
LEMMA HotPutOK ==
  ASSUME HotOK, NEW a \in Assets, NEW obj \in Asset, HotPut(a, obj)
  PROVE  /\ HotOK'
         /\ hot'[a] = obj
         /\ \A b \in Assets \ {a} : hot'[b] \in {hot[b], None}
<1> DEFINE others == Others(a)
           queue  == Append(others, a)
           first  == IF Len(queue) > HotSize THEN Len(queue) - HotSize + 1 ELSE 1
           kept   == SubSeq(queue, first, Len(queue))
<1>1. /\ order' = kept
      /\ hot' = [b \in Assets |->
                   IF b = a THEN obj
                   ELSE IF \E i \in DOMAIN kept : kept[i] = b THEN hot[b] ELSE None]
  BY DEF HotPut
<1>2. /\ others \in Seq(Assets)
      /\ \A i, j \in DOMAIN others : others[i] = others[j] => i = j
      /\ \A b : (\E i \in DOMAIN others : others[i] = b) <=> b \in Assets \ {a} /\ hot[b] # None
  BY OthersOK
<1>3. /\ Len(others) \in Nat /\ HotSize \in Nat \ {0} /\ obj # None
      /\ hot \in [Assets -> Asset \cup {None}]
  BY <1>2, HotAssumption, NoneAssumption DEF HotOK
<1> HIDE DEF others
<1>4. /\ queue \in Seq(Assets) /\ Len(queue) = Len(others) + 1
      /\ \A i \in 1..Len(others) : queue[i] = others[i]
      /\ queue[Len(queue)] = a
  BY <1>2
<1>5. \A i, j \in 1..Len(queue) : queue[i] = queue[j] => i = j
  <2>1. \A i \in 1..Len(others) : queue[i] # a
    BY <1>2, <1>4
  <2> QED
    BY <1>2, <1>3, <1>4, <2>1
<1> HIDE DEF queue
<1>6. first \in 1..Len(queue) /\ Len(queue) - first + 1 <= HotSize /\ Len(queue) \in Nat
  BY <1>3, <1>4
<1> HIDE DEF first
<1>7. /\ kept \in Seq(Assets) /\ Len(kept) = Len(queue) - first + 1
      /\ \A i \in 1..Len(kept) : kept[i] = queue[first + i - 1]
  BY <1>4, <1>6, SubSeqOf
<1> HIDE DEF kept
<1>8. \A i, j \in DOMAIN kept : kept[i] = kept[j] => i = j
  <2>1. DOMAIN kept = 1..Len(queue) - first + 1 /\ first \in Nat \ {0} /\ Len(queue) \in Nat
    BY <1>6, <1>7
  <2>2. ASSUME NEW i \in DOMAIN kept, NEW j \in DOMAIN kept, kept[i] = kept[j] PROVE i = j
    <3>1. i \in Nat /\ j \in Nat /\ first + i - 1 \in 1..Len(queue) /\ first + j - 1 \in 1..Len(queue)
      BY <2>1
    <3>2. kept[i] = queue[first + i - 1] /\ kept[j] = queue[first + j - 1]
      BY <1>7
    <3>3. first + i - 1 = first + j - 1
      BY <1>5, <2>2, <3>1, <3>2
    <3> QED
      BY <2>1, <3>1, <3>3
  <2> QED
    BY <2>2
<1>9. kept[Len(kept)] = a /\ Len(kept) \in DOMAIN kept /\ Len(kept) <= HotSize
  BY <1>4, <1>6, <1>7
<1>10. \A i \in DOMAIN kept : kept[i] = a \/ hot[kept[i]] # None
  <2> SUFFICES ASSUME NEW i \in DOMAIN kept, kept[i] # a PROVE hot[kept[i]] # None
    OBVIOUS
  <2>1. kept[i] = queue[first + i - 1] /\ first + i - 1 \in 1..Len(queue)
    BY <1>6, <1>7
  <2>2. first + i - 1 \in 1..Len(others)
    BY <1>3, <1>4, <2>1
  <2> QED
    BY <1>2, <1>4, <2>1, <2>2
<1>11. {b \in Assets : hot'[b] # None} = {kept[i] : i \in DOMAIN kept}
  BY <1>1, <1>3, <1>7, <1>9, <1>10
<1>12. hot' \in [Assets -> Asset \cup {None}]
  BY <1>1, <1>3
<1>13. order' = kept /\ Len(kept) <= HotSize
  BY <1>1, <1>9, <1>7, <1>6
<1>14. HotOK'
  BY <1>7, <1>8, <1>11, <1>12, <1>13 DEF HotOK
<1> QED
  BY <1>1, <1>14

LEMMA LoadedType ==
  ASSUME HotOK, DataOK, NEW a \in Assets
  PROVE  /\ Loaded(a) \in Asset \cup {None}
         /\ Revs(Loaded(a)) \in Seq(Contents) /\ Revs(db[a]) \in Seq(Contents)
BY DEF HotOK, DataOK, Loaded, Revs, Asset

\* Loading an asset changes nothing that a caller would see of it.
LEMMA LoadOK ==
  ASSUME HotOK, DataOK, NEW a \in Assets, LoadAsset(a)
  PROVE  /\ HotOK'
         /\ hot'[a] = Loaded(a)
         /\ \A b \in Assets \ {a} : hot'[b] \in {hot[b], None}
<1>1. CASE Loaded(a) = None
  BY <1>1 DEF LoadAsset, hotTier, HotOK, Loaded
<1>2. CASE Loaded(a) # None
  BY <1>2, LoadedType, HotPutOK DEF LoadAsset
<1> QED
  BY <1>1, <1>2

LEMMA HotSame ==
  ASSUME HotOK, UNCHANGED hotTier
  PROVE  HotOK'
BY DEF HotOK, hotTier

LEMMA HotCleared ==
  ASSUME hot' = [a \in Assets |-> None], order' = <<>>
  PROVE  HotOK'
<1>1. order' \in Seq(Assets) /\ Len(order') = 0
  OBVIOUS
<1>2. hot' \in [Assets -> Asset \cup {None}]
  OBVIOUS
<1> QED
  BY <1>1, <1>2, HotAssumption DEF HotOK

-----------------------------------------------------------------------------
(* The last phase of put *)

LEMMA JobFields ==
  ASSUME DataOK, NEW t \in Threads, job[t] # None
  PROVE  /\ job[t] \in Job
         /\ job[t].asset \in Assets /\ job[t].content \in Contents
         /\ job[t].revs \in Seq(Contents) /\ job[t].rev \in Nat
BY DEF DataOK, Job

\* The history a save would write extends the one it found, and the revision it
\* reports is one of its places that holds the content.
LEMMA NewRevsOK ==
  ASSUME HotOK, DataOK, NEW t \in Threads, job[t] # None
  PROVE  /\ Base(t) \in Seq(Contents) /\ NewRevs(t) \in Seq(Contents)
         /\ \/ NewRevs(t) = Base(t)
            \/ Reusable(t) = {} /\ NewRevs(t) = Append(Base(t), job[t].content)
         /\ Revision(t) \in DOMAIN NewRevs(t)
         /\ NewRevs(t)[Revision(t)] = job[t].content
<1>1. Base(t) \in Seq(Contents) /\ job[t].content \in Contents
  BY JobFields, LoadedType DEF Base
<1>2. CASE Reusable(t) = {}
  BY <1>1, <1>2 DEF NewRevs, Revision
<1>3. CASE Reusable(t) # {}
  <2>1. Reusable(t) \subseteq DOMAIN Base(t) /\ Reusable(t) \subseteq Nat
    BY <1>1 DEF Reusable
  <2>2. \E i \in Reusable(t) : \A j \in Reusable(t) : i <= j
    BY <1>3, <2>1, LeastElement
  <2>3. Revision(t) \in Reusable(t)
    BY <1>3, <2>2 DEF Revision
  <2> QED
    BY <1>1, <1>3, <2>1, <2>3 DEF NewRevs, Reusable
<1> QED
  BY <1>2, <1>3

-----------------------------------------------------------------------------
(* Types *)

LEMMA TypeInit == Init => TypeInv
<1> SUFFICES ASSUME Init PROVE TypeInv
  OBVIOUS
<1>1. HotOK
  <2>1. order \in Seq(Assets) /\ Len(order) = 0 /\ hot = [a \in Assets |-> None]
    BY DEF Init
  <2> QED
    BY <2>1, HotAssumption DEF HotOK, Init
<1>2. DataOK
  <2>1. db \in [Assets -> {None}] /\ job \in [Threads -> {None}] /\ 0 \in 0..MaxPuts
    BY PutsAssumption DEF Init
  <2> QED
    BY <2>1 DEF Init, DataOK
<1> QED
  BY <1>1, <1>2 DEF Init, TypeInv, JobsOK

\* Only the last phase of a put and its ends need a look at the local variables.
LEMMA JobsSame ==
  ASSUME JobsOK, UNCHANGED <<pc, job>>
  PROVE  JobsOK'
BY DEF JobsOK

LEMMA JobsGoto ==
  ASSUME JobsOK, DataOK, NEW t \in Threads, NEW l \in {"idle", "stage", "place", "save"},
         Goto(t, l), job' = job, pc[t] # "idle"
  PROVE  JobsOK' /\ pc' \in [Threads -> {"idle", "begin", "stage", "place", "save", "push"}]
BY DEF JobsOK, DataOK, Goto

LEMMA TypeStep == TypeInv /\ [Next]_vars => TypeInv'
<1> SUFFICES ASSUME TypeInv, [Next]_vars PROVE TypeInv'
  OBVIOUS
<1>0. HotOK /\ DataOK /\ JobsOK
  BY DEF TypeInv
<1>1. ASSUME NEW t \in Threads, NEW a \in Assets, NEW c \in Contents, Put(t, a, c)
      PROVE  TypeInv'
  <2>1. PICK old \in {<<>>} \cup
                       (IF job[t] # None /\ job[t].asset = a THEN {job[t].revs} ELSE {}) :
           job' = [job EXCEPT ![t] = [asset |-> a, content |-> c, revs |-> old,
                                      fork |-> FALSE, seen |-> {}, rev |-> 0]]
    BY <1>1 DEF Put
  <2>2. old \in Seq(Contents)
    <3>1. CASE old = <<>>
      BY <3>1
    <3>2. CASE old # <<>>
      BY <1>0, <3>2, JobFields
    <3> QED
      BY <3>1, <3>2
  <2> DEFINE j == [asset |-> a, content |-> c, revs |-> old,
                   fork |-> FALSE, seen |-> {}, rev |-> 0]
  <2>3. j \in Job /\ j # None
    <3>1. j \in Job
      BY <2>2 DEF Job
    <3> QED
      BY <3>1, NoneAssumption
  <2>4. job' = [job EXCEPT ![t] = j] /\ pc' = [pc EXCEPT ![t] = "begin"]
        /\ puts' = puts + 1 /\ puts < MaxPuts
        /\ UNCHANGED <<db, hotTier, warm, cold, lost, mirror, closed, issued, overlap>>
    BY <1>1, <2>1 DEF Put, Goto, blobs
  <2> HIDE DEF j
  <2>5. DataOK'
    BY <1>0, <2>3, <2>4, PutsAssumption DEF DataOK
  <2>6. JobsOK'
    BY <1>0, <2>3, <2>4 DEF JobsOK, DataOK
  <2> QED
    BY <1>0, <2>4, <2>5, <2>6, HotSame DEF TypeInv
<1>2. ASSUME NEW t \in Threads, NEW ref \in issued, NEW b \in Assets, Fork(t, ref, b)
      PROVE  TypeInv'
  <2>1. ref[1] \in Assets /\ ref[3] \in Contents
    BY <1>0 DEF DataOK
  <2> DEFINE j == [asset |-> b, content |-> ref[3], revs |-> <<>>,
                   fork |-> TRUE, seen |-> {}, rev |-> 0]
  <2>2. j \in Job /\ j # None
    <3>1. j \in Job
      BY <2>1 DEF Job
    <3> QED
      BY <3>1, NoneAssumption
  <2>3. job' = [job EXCEPT ![t] = j] /\ pc' = [pc EXCEPT ![t] = "begin"]
        /\ puts' = puts + 1 /\ puts < MaxPuts /\ warm' \in {warm, warm \cup {ref[3]}}
        /\ UNCHANGED <<db, cold, lost, mirror, closed, issued, overlap>>
        /\ LoadAsset(ref[1])
    BY <1>2 DEF Fork, Goto, Fetched
  <2> HIDE DEF j
  <2>4. HotOK'
    BY <1>0, <2>1, <2>3, LoadOK
  <2>5. DataOK'
    BY <1>0, <2>1, <2>2, <2>3, PutsAssumption DEF DataOK
  <2>6. JobsOK'
    BY <1>0, <2>2, <2>3 DEF JobsOK, DataOK
  <2> QED
    BY <2>4, <2>5, <2>6 DEF TypeInv
<1>3. ASSUME NEW t \in Threads, Begin(t) PROVE TypeInv'
  <2> DEFINE a == job[t].asset
             s == {SizeOf[Revs(Loaded(a))[i]] : i \in DOMAIN Revs(Loaded(a))}
  <2>1. pc[t] = "begin" /\ job' = [job EXCEPT ![t].seen = s] /\ LoadAsset(a)
        /\ Goto(t, "stage") /\ overlap' = overlap \cup ({a} \X Overlaps(t))
        /\ UNCHANGED <<db, warm, cold, lost, mirror, closed, puts, issued>>
    BY <1>3 DEF Begin, blobs
  <2>2. job[t] # None
    BY <1>0, <2>1 DEF JobsOK
  <2>3. job[t] \in Job /\ a \in Assets /\ job[t].content \in Contents
        /\ job[t].revs \in Seq(Contents)
    BY <1>0, <2>2, JobFields
  <2>4. s \subseteq Nat
    BY <1>0, <2>3, LoadedType, SizeAssumption
  <2>5. Overlaps(t) \subseteq Contents
    <3>1. Brings(t) \subseteq Contents
      BY <2>3 DEF Brings, Leftover
    <3> QED
      BY <2>3, <3>1 DEF Overlaps
  <2> HIDE DEF a, s
  <2>6. HotOK'
    BY <1>0, <2>1, <2>3, LoadOK
  <2>7. [job[t] EXCEPT !.seen = s] \in Job
    BY <2>3, <2>4 DEF Job
  <2>8. job' = [job EXCEPT ![t] = [job[t] EXCEPT !.seen = s]]
    BY <2>1
  <2>9. job'[t] # None /\ job'[t] \in Job
    BY <1>0, <2>7, <2>8, NoneAssumption DEF DataOK
  <2>10. DataOK'
    BY <1>0, <2>1, <2>3, <2>5, <2>7, <2>8 DEF DataOK, Goto
  <2>11. JobsOK'
    BY <1>0, <2>1, <2>8, <2>9 DEF JobsOK, DataOK, Goto
  <2> QED
    BY <2>6, <2>10, <2>11 DEF TypeInv
<1>4. ASSUME NEW t \in Threads, Stage(t) PROVE TypeInv'
  BY <1>0, <1>4, HotSame, JobsGoto DEF Stage, TypeInv, DataOK, blobs
<1>5. ASSUME NEW t \in Threads, Abandon(t) PROVE TypeInv'
  <2>1. pc[t] # "idle" /\ Goto(t, "idle") /\ job' = [job EXCEPT ![t] = job[t]]
        /\ UNCHANGED <<db, hotTier, blobs, puts, mirror, closed, issued, overlap>>
    BY <1>5 DEF Abandon, End
  <2>2. job' = job
    BY <1>0, <2>1 DEF DataOK
  <2> QED
    BY <1>0, <2>1, <2>2, HotSame, JobsGoto DEF TypeInv, DataOK, blobs
<1>6. ASSUME NEW t \in Threads, Place(t) PROVE TypeInv'
  <2>1. pc[t] = "place" /\ Goto(t, "save") /\ job' = job
        /\ warm' = warm \cup {job[t].content} /\ lost' = lost \ {job[t].content}
        /\ UNCHANGED <<db, hotTier, cold, mirror, closed, puts, issued, overlap>>
    BY <1>6 DEF Place
  <2>2. job[t].content \in Contents
    BY <1>0, <2>1, JobFields DEF JobsOK
  <2> QED
    BY <1>0, <2>1, <2>2, HotSame, JobsGoto DEF TypeInv, DataOK
<1>7. ASSUME NEW t \in Threads, Save(t) PROVE TypeInv'
  <2> DEFINE a == job[t].asset
             n == NewRevs(t)
             r == Revision(t)
  <2>1. pc[t] = "save" /\ job[t] # None
    BY <1>0, <1>7 DEF Save, JobsOK
  <2>2. job[t] \in Job /\ a \in Assets /\ n \in Seq(Contents) /\ r \in Nat \ {0}
    BY <1>0, <2>1, JobFields, NewRevsOK
  <2>3. PICK shared \in MayShare(a) :
           LET obj == [revs |-> n, archived |-> shared /\ hot[a].archived, unsaved |-> FALSE]
           IN  db' = [db EXCEPT ![a] = obj] /\ HotPut(a, obj)
    BY <1>7 DEF Save
  <2> DEFINE obj == [revs |-> n, archived |-> shared /\ hot[a].archived, unsaved |-> FALSE]
  <2>4. job' = [job EXCEPT ![t].rev = r] /\ pc' = [pc EXCEPT ![t] = "push"]
        /\ UNCHANGED <<warm, cold, lost, mirror, closed, puts, issued, overlap>>
    BY <1>7 DEF Save, Goto, blobs
  <2>5. db' = [db EXCEPT ![a] = obj] /\ HotPut(a, obj)
    BY <2>3
  <2> HIDE DEF a, n, r
  <2>6. obj \in Asset /\ ~obj.unsaved
    <3>1. (shared /\ hot[a].archived) \in BOOLEAN
      OBVIOUS
    <3> QED
      BY <2>2, <3>1 DEF Asset
  <2> HIDE DEF obj
  <2>7. HotOK'
    BY <1>0, <2>2, <2>5, <2>6, HotPutOK
  <2>8. [job[t] EXCEPT !.rev = r] \in Job /\ [job[t] EXCEPT !.rev = r].rev = r
    BY <2>2 DEF Job
  <2>9. job' = [job EXCEPT ![t] = [job[t] EXCEPT !.rev = r]]
    BY <2>4
  <2> DEFINE j == [job[t] EXCEPT !.rev = r]
  <2> HIDE DEF j
  <2>10. DataOK'
    BY <1>0, <2>2, <2>4, <2>5, <2>6, <2>8, <2>9 DEF DataOK, j
  <2>11. JobsOK'
    BY <1>0, <2>2, <2>4, <2>8, <2>9, NoneAssumption DEF JobsOK, DataOK, j
  <2> QED
    BY <2>7, <2>10, <2>11 DEF TypeInv

<1>8. ASSUME NEW t \in Threads, SaveFails(t) PROVE TypeInv'
  <2> DEFINE a == job[t].asset
             n == NewRevs(t)
  <2>1. pc[t] = "save" /\ job[t] # None
    BY <1>0, <1>8 DEF SaveFails, JobsOK
  <2>2. job[t] \in Job /\ a \in Assets /\ n \in Seq(Contents)
    BY <1>0, <2>1, JobFields, NewRevsOK
  <2>3. PICK shared \in MayShare(a) :
           IF shared
           THEN /\ HotPut(a, [hot[a] EXCEPT !.revs = n, !.unsaved = @ \/ n # Base(t)])
                /\ End(t, None)
           ELSE LoadAsset(a) /\ End(t, [job[t] EXCEPT !.revs = n])
    BY <1>8 DEF SaveFails
  <2> DEFINE obj == [hot[a] EXCEPT !.revs = n, !.unsaved = @ \/ n # Base(t)]
             j   == [job[t] EXCEPT !.revs = n]
  <2>4. UNCHANGED <<db, warm, cold, lost, mirror, closed, issued, overlap, puts>>
    BY <1>8, <2>3 DEF SaveFails, blobs, End
  <2>5. PICK k \in {None, j} : job' = [job EXCEPT ![t] = k] /\ Goto(t, "idle")
    BY <2>3 DEF End
  <2> HIDE DEF a, n
  <2>6. j \in Job
    BY <2>2 DEF Job
  <2>7. HotOK'
    <3>1. CASE shared
      <4>1. hot[a] # None /\ HotPut(a, obj)
        BY <2>3, <3>1 DEF MayShare
      <4>2. hot[a] \in Asset
        BY <1>0, <2>2, <4>1 DEF HotOK
      <4>3. obj \in Asset
        BY <2>2, <4>2 DEF Asset
      <4> QED
        BY <1>0, <2>2, <4>1, <4>3, HotPutOK
    <3>2. CASE ~shared
      BY <1>0, <2>2, <2>3, <3>2, LoadOK
    <3> QED
      BY <3>1, <3>2
  <2> HIDE DEF j
  <2>8. DataOK'
    BY <1>0, <2>4, <2>5, <2>6 DEF DataOK, Goto
  <2>9. JobsOK'
    BY <1>0, <2>4, <2>5 DEF JobsOK, DataOK, Goto
  <2> QED
    BY <2>7, <2>8, <2>9 DEF TypeInv
<1>9. ASSUME NEW t \in Threads, Push(t) PROVE TypeInv'
  <2> DEFINE r == <<job[t].asset, job[t].rev, job[t].content>>
  <2>1. pc[t] = "push" /\ job[t] # None /\ job[t].rev # 0
    BY <1>0, <1>9 DEF Push, JobsOK
  <2>2. r \in Assets \X (Nat \ {0}) \X Contents /\ job[t].content \in Contents
    BY <1>0, <2>1, JobFields
  <2>3. PICK s \in Pushed(job[t].content) : cold' = [cold EXCEPT ![job[t].content] = s]
    BY <1>9 DEF Push
  <2>4. s \in {"absent", "torn", "whole"}
    BY <1>0, <2>2 DEF Pushed, DataOK
  <2>5. issued' = issued \cup {r} /\ Goto(t, "idle") /\ job' = [job EXCEPT ![t] = None]
        /\ UNCHANGED <<puts, db, hotTier, warm, lost, mirror, closed, overlap>>
    BY <1>9 DEF Push, End
  <2> HIDE DEF r
  <2>6. DataOK'
    BY <1>0, <2>2, <2>3, <2>4, <2>5 DEF DataOK, Goto
  <2>7. JobsOK'
    BY <1>0, <2>5 DEF JobsOK, DataOK, Goto
  <2> QED
    BY <1>0, <2>5, <2>6, <2>7, HotSame DEF TypeInv
<1>10. ASSUME NEW ref \in issued, Get(ref) PROVE TypeInv'
  <2>1. ref[1] \in Assets /\ ref[3] \in Contents
    BY <1>0 DEF DataOK
  <2>2. LoadAsset(ref[1]) /\ warm' \in {warm, warm \cup {ref[3]}}
        /\ UNCHANGED <<db, cold, lost, mirror, closed, pc, job, puts, issued, overlap>>
    BY <1>10 DEF Get, Fetched, call
  <2> QED
    BY <1>0, <2>1, <2>2, LoadOK, JobsSame DEF TypeInv, DataOK
<1>11. ASSUME NEW a \in Assets, Delete(a) PROVE TypeInv'
  <2> DEFINE obj == [Loaded(a) EXCEPT !.archived = TRUE]
             x   == [obj EXCEPT !.unsaved = FALSE]
             y   == [obj EXCEPT !.unsaved = @ \/ ~Loaded(a).archived]
  <2>1. Loaded(a) \in Asset
    BY <1>0, <1>11, LoadedType DEF Delete
  <2>2. /\ \/ db' = [db EXCEPT ![a] = x] /\ HotPut(a, x)
           \/ db' = db /\ HotPut(a, y)
        /\ UNCHANGED <<warm, cold, lost, mirror, closed, pc, job, puts, issued, overlap>>
    BY <1>11 DEF Delete, blobs, call
  <2>3. x \in Asset /\ ~x.unsaved /\ y \in Asset
    BY <2>1 DEF Asset
  <2> HIDE DEF x, y
  <2>4. HotOK'
    BY <1>0, <2>2, <2>3, HotPutOK
  <2>5. DataOK'
    BY <1>0, <2>2, <2>3 DEF DataOK
  <2> QED
    BY <1>0, <2>2, <2>4, <2>5, JobsSame DEF TypeInv
<1>12. ASSUME NEW c \in Contents, Promote(c) PROVE TypeInv'
  BY <1>0, <1>12, HotSame, JobsSame DEF TypeInv, Promote, Fetched, DataOK, call
<1>13. ASSUME NEW c \in Contents, EvictToCold(c) PROVE TypeInv'
  BY <1>0, <1>13, HotSame, JobsSame DEF TypeInv, EvictToCold, DataOK, call
<1>14. CASE SetMirror
  BY <1>0, <1>14, HotSame, JobsSame DEF TypeInv, SetMirror, DataOK, call, blobs
<1>15. CASE Close
  BY <1>0, <1>15, HotCleared, JobsSame DEF TypeInv, Close, DataOK, call, blobs
<1>16. CASE Crash
  <2>1. cold' \in [Contents -> {"absent", "torn", "whole"}]
    BY <1>0, <1>16 DEF Crash, DataOK
  <2> QED
    BY <1>0, <1>16, <2>1, HotCleared DEF TypeInv, Crash, DataOK, JobsOK
<1>17. CASE Reopen
  BY <1>0, <1>17, HotSame, JobsSame DEF TypeInv, Reopen, DataOK, call, blobs
<1>18. CASE UNCHANGED vars
  BY <1>0, <1>18, HotSame, JobsSame DEF TypeInv, vars, DataOK, call, blobs
<1> QED
  BY <1>1, <1>2, <1>3, <1>4, <1>5, <1>6, <1>7, <1>8, <1>9, <1>10, <1>11, <1>12,
     <1>13, <1>14, <1>15, <1>16, <1>17, <1>18 DEF Next

\* Every variable has its type in every reachable state.
THEOREM TypeCorrect == Spec => []TypeOK
<1>1. TypeInv => TypeOK
  BY DEF TypeInv, HotOK, DataOK, TypeOK
<1> QED
  BY TypeInit, TypeStep, <1>1, PTL DEF Spec

-----------------------------------------------------------------------------
(* Prefixes *)

LEMMA PrefixIs ==
  ASSUME NEW S, NEW s \in Seq(S), NEW t \in Seq(S)
  PROVE  IsPrefix(s, t) <=> /\ Len(s) <= Len(t)
                            /\ \A i \in 1..Len(s) : s[i] = t[i]
<1>1. CASE Len(s) <= Len(t)
  <2>1. /\ SubSeq(s, 1, Len(s)) \in Seq(S) /\ Len(SubSeq(s, 1, Len(s))) = Len(s)
        /\ \A i \in 1..Len(s) : SubSeq(s, 1, Len(s))[i] = s[i]
    <3>1. 1 \in 1..Len(s) + 1 /\ Len(s) \in 0..Len(s)
      OBVIOUS
    <3> QED
      BY <3>1, SubSeqOf
  <2>2. /\ SubSeq(t, 1, Len(s)) \in Seq(S) /\ Len(SubSeq(t, 1, Len(s))) = Len(s)
        /\ \A i \in 1..Len(s) : SubSeq(t, 1, Len(s))[i] = t[i]
    <3>1. 1 \in 1..Len(t) + 1 /\ Len(s) \in 0..Len(t)
      BY <1>1
    <3> QED
      BY <3>1, SubSeqOf
  <2> DEFINE u == SubSeq(s, 1, Len(s))
             v == SubSeq(t, 1, Len(s))
  <2> HIDE DEF u, v
  <2>3. IsPrefix(s, t) <=> u = v
    BY <1>1 DEF IsPrefix, u, v
  <2>4. u = v <=> \A i \in 1..Len(s) : u[i] = v[i]
    BY <2>1, <2>2, SeqEqual DEF u, v
  <2> QED
    BY <1>1, <2>1, <2>2, <2>3, <2>4 DEF u, v
<1>2. CASE ~(Len(s) <= Len(t))
  BY <1>2 DEF IsPrefix
<1> QED
  BY <1>1, <1>2

LEMMA PrefixSelf ==
  ASSUME NEW S, NEW s \in Seq(S)
  PROVE  IsPrefix(s, s)
BY PrefixIs

LEMMA PrefixOfAppend ==
  ASSUME NEW S, NEW s \in Seq(S), NEW t \in Seq(S), NEW e \in S, IsPrefix(s, t)
  PROVE  IsPrefix(s, Append(t, e))
<1> DEFINE u == Append(t, e)
<1>1. /\ u \in Seq(S) /\ Len(u) = Len(t) + 1
      /\ \A i \in 1..Len(t) : u[i] = t[i]
  OBVIOUS
<1>2. Len(s) <= Len(t) /\ \A i \in 1..Len(s) : s[i] = t[i]
  BY PrefixIs
<1> HIDE DEF u
<1>3. Len(s) <= Len(u) /\ \A i \in 1..Len(s) : s[i] = u[i]
  BY <1>1, <1>2
<1>4. IsPrefix(s, u)
  BY <1>1, <1>3, PrefixIs
<1> QED
  BY <1>4 DEF u

-----------------------------------------------------------------------------
(* The hot tier and the rows *)

\* What the hot tier may hold of an asset whose row is d.
Fresh(h, d) ==
    h # None => /\ ~h.unsaved => h = d
                /\ h.unsaved => d # None /\ IsPrefix(d.revs, h.revs)

FreshInv ==
    /\ TypeInv
    /\ \A a \in Assets : /\ Fresh(hot[a], db[a])
                         /\ db[a] # None => db[a].revs # <<>>

\* What put and get see of an asset is its row, or an object ahead of it.
LEMMA LoadedAhead ==
  ASSUME FreshInv, NEW a \in Assets
  PROVE  /\ Fresh(Loaded(a), db[a])
         /\ IsPrefix(Revs(db[a]), Revs(Loaded(a)))
         /\ Loaded(a) # None => db[a] # None /\ Loaded(a) \in Asset
                                /\ Revs(Loaded(a)) = Loaded(a).revs
                                /\ Revs(Loaded(a)) # <<>>
<1>1. HotOK /\ DataOK /\ Fresh(hot[a], db[a]) /\ (db[a] # None => db[a].revs # <<>>)
  BY DEF FreshInv, TypeInv
<1>2. Loaded(a) \in Asset \cup {None} /\ db[a] \in Asset \cup {None}
      /\ (db[a] # None => ~db[a].unsaved)
      /\ Revs(Loaded(a)) \in Seq(Contents) /\ Revs(db[a]) \in Seq(Contents)
  BY <1>1, LoadedType DEF DataOK
<1>3. Fresh(Loaded(a), db[a])
  BY <1>1, <1>2 DEF Fresh, Loaded
<1>4. CASE Loaded(a) = None
  <2>1. db[a] = None
    BY <1>4 DEF Loaded
  <2>2. Revs(db[a]) = Revs(Loaded(a))
    BY <1>4, <2>1
  <2> QED
    BY <1>2, <1>3, <1>4, <2>2, PrefixSelf
<1>5. CASE Loaded(a) # None
  <2>1. db[a] # None
    BY <1>3, <1>5 DEF Fresh
  <2>2. Revs(db[a]) = db[a].revs /\ Revs(Loaded(a)) = Loaded(a).revs
    BY <1>5, <2>1 DEF Revs
  <2>3. IsPrefix(Revs(db[a]), Revs(Loaded(a)))
    BY <1>2, <1>3, <1>5, <2>2, PrefixSelf DEF Fresh
  <2>4. Len(Revs(db[a])) # 0 /\ Len(Revs(db[a])) <= Len(Revs(Loaded(a)))
    BY <1>1, <1>2, <2>1, <2>2, <2>3, PrefixIs
  <2>5. Revs(Loaded(a)) # <<>>
    BY <1>2, <2>4
  <2> QED
    BY <1>2, <1>3, <1>5, <2>1, <2>2, <2>3, <2>5
<1> QED
  BY <1>4, <1>5

\* A save starts from what is stored, if an asset is.
LEMMA BaseIsStored ==
  ASSUME FreshInv, NEW t \in Threads, job[t] # None
  PROVE  /\ Loaded(job[t].asset) # None => Base(t) = Loaded(job[t].asset).revs
         /\ Loaded(job[t].asset) = None => Base(t) = job[t].revs
         /\ NewRevs(t) # <<>>
         /\ IsPrefix(Revs(db[job[t].asset]), NewRevs(t))
<1>1. HotOK /\ DataOK
  BY DEF FreshInv, TypeInv
<1>2. job[t].asset \in Assets
  BY <1>1, JobFields
<1> DEFINE a == job[t].asset
<1>3. Loaded(a) # None => Base(t) = Loaded(a).revs /\ Base(t) = Revs(Loaded(a))
  BY <1>2, LoadedAhead DEF Base
<1>4. Loaded(a) = None => Base(t) = job[t].revs /\ Revs(db[a]) = <<>>
  BY DEF Base, Revs, Loaded
<1>5. /\ Base(t) \in Seq(Contents) /\ NewRevs(t) \in Seq(Contents)
      /\ NewRevs(t) \in {Base(t), Append(Base(t), job[t].content)}
      /\ Revision(t) \in DOMAIN NewRevs(t) /\ job[t].content \in Contents
      /\ Revs(db[a]) \in Seq(Contents)
  BY <1>1, <1>2, NewRevsOK, JobFields, LoadedType
<1>6. IsPrefix(Revs(db[a]), Base(t))
  <2>1. CASE Loaded(a) # None
    BY <1>2, <1>3, <2>1, LoadedAhead
  <2>2. CASE Loaded(a) = None
    <3>1. Len(Revs(db[a])) = 0
      BY <1>4, <2>2
    <3> QED
      BY <1>5, <3>1, PrefixIs
  <2> QED
    BY <2>1, <2>2
<1>7. IsPrefix(Revs(db[a]), NewRevs(t))
  BY <1>5, <1>6, PrefixOfAppend
<1> QED
  BY <1>3, <1>4, <1>5, <1>7

LEMMA FreshInit == Init => FreshInv
BY TypeInit DEF Init, FreshInv, Fresh

\* A step that leaves the rows alone and takes objects out or loads one.
LEMMA FreshLoads ==
  ASSUME FreshInv, TypeInv', db' = db,
         \A a \in Assets : hot'[a] \in {hot[a], Loaded(a), None}
  PROVE  FreshInv'
<1>1. \A a \in Assets : Fresh(hot[a], db[a]) /\ Fresh(Loaded(a), db[a])
  BY LoadedAhead DEF FreshInv
<1>2. \A a \in Assets : Fresh(hot'[a], db'[a])
  BY <1>1 DEF Fresh
<1> QED
  BY <1>2 DEF FreshInv

LEMMA FreshSame ==
  ASSUME FreshInv, TypeInv', UNCHANGED <<db, hotTier>>
  PROVE  FreshInv'
BY FreshLoads DEF hotTier

LEMMA FreshLoadAsset ==
  ASSUME FreshInv, TypeInv', db' = db, NEW a \in Assets, LoadAsset(a)
  PROVE  FreshInv'
BY FreshLoads, LoadOK DEF FreshInv, TypeInv

\* A step that saves an object or, without the row, puts it into the hot tier.
LEMMA FreshPuts ==
  ASSUME FreshInv, TypeInv', NEW a \in Assets, NEW obj \in Asset, HotPut(a, obj),
         \/ db' = db /\ Fresh(obj, db[a])
         \/ db' = [db EXCEPT ![a] = obj] /\ ~obj.unsaved /\ obj.revs # <<>>
  PROVE  FreshInv'
<1>0. HotOK /\ DataOK /\ \A b \in Assets : /\ Fresh(hot[b], db[b])
                                           /\ db[b] # None => db[b].revs # <<>>
  BY DEF FreshInv, TypeInv
<1>1. /\ hot'[a] = obj
      /\ \A b \in Assets \ {a} : hot'[b] \in {hot[b], None} /\ db'[b] = db[b]
  <2>1. \A b \in Assets \ {a} : db'[b] = db[b]
    BY <1>0 DEF DataOK
  <2> QED
    BY <1>0, <2>1, HotPutOK
<1>2. \A b \in Assets \ {a} : Fresh(hot'[b], db'[b])
  BY <1>0, <1>1 DEF Fresh
<1>3. Fresh(hot'[a], db'[a]) /\ (db'[a] # None => db'[a].revs # <<>>)
  <2>1. CASE db' = db /\ Fresh(obj, db[a])
    BY <1>0, <1>1, <2>1 DEF Fresh
  <2>2. CASE db' = [db EXCEPT ![a] = obj] /\ ~obj.unsaved /\ obj.revs # <<>>
    <3>1. db'[a] = obj
      BY <1>0, <2>2 DEF DataOK
    <3> QED
      BY <1>1, <2>2, <3>1 DEF Fresh
  <2> QED
    BY <1>1, <2>1, <2>2
<1>4. \A b \in Assets : /\ Fresh(hot'[b], db'[b])
                        /\ db'[b] # None => db'[b].revs # <<>>
  BY <1>0, <1>1, <1>2, <1>3
<1> QED
  BY <1>4 DEF FreshInv

LEMMA FreshStep == FreshInv /\ [Next]_vars => FreshInv'
<1> SUFFICES ASSUME FreshInv, [Next]_vars PROVE FreshInv'
  OBVIOUS
<1>0. TypeInv' /\ TypeInv /\ HotOK /\ DataOK /\ JobsOK
  BY TypeStep DEF FreshInv, TypeInv
<1>1. ASSUME NEW t \in Threads, NEW a \in Assets, NEW c \in Contents, Put(t, a, c)
      PROVE  FreshInv'
  BY <1>0, <1>1, FreshSame DEF Put
<1>2. ASSUME NEW t \in Threads, NEW ref \in issued, NEW b \in Assets, Fork(t, ref, b)
      PROVE  FreshInv'
  <2>1. ref[1] \in Assets
    BY <1>0 DEF DataOK
  <2> QED
    BY <1>0, <1>2, <2>1, FreshLoadAsset DEF Fork
<1>3. ASSUME NEW t \in Threads, Begin(t) PROVE FreshInv'
  <2>1. job[t].asset \in Assets
    BY <1>0, <1>3, JobFields DEF Begin, JobsOK
  <2> QED
    BY <1>0, <1>3, <2>1, FreshLoadAsset DEF Begin
<1>4. ASSUME NEW t \in Threads, Stage(t) \/ Abandon(t) \/ Place(t) \/ Push(t)
      PROVE  FreshInv'
  BY <1>0, <1>4, FreshSame DEF Stage, Abandon, Place, Push
<1>5. ASSUME NEW t \in Threads, Save(t) PROVE FreshInv'
  <2> DEFINE a == job[t].asset
             n == NewRevs(t)
  <2>1. pc[t] = "save" /\ job[t] # None
    BY <1>0, <1>5 DEF Save, JobsOK
  <2>2. a \in Assets /\ n \in Seq(Contents) /\ n # <<>>
    BY <1>0, <2>1, JobFields, NewRevsOK, BaseIsStored
  <2>3. PICK shared \in MayShare(a) :
           LET obj == [revs |-> n, archived |-> shared /\ hot[a].archived, unsaved |-> FALSE]
           IN  db' = [db EXCEPT ![a] = obj] /\ HotPut(a, obj)
    BY <1>5 DEF Save
  <2> DEFINE obj == [revs |-> n, archived |-> shared /\ hot[a].archived, unsaved |-> FALSE]
  <2>4. db' = [db EXCEPT ![a] = obj] /\ HotPut(a, obj)
    BY <2>3
  <2> HIDE DEF a, n
  <2>5. obj \in Asset /\ ~obj.unsaved /\ obj.revs # <<>>
    <3>1. (shared /\ hot[a].archived) \in BOOLEAN
      OBVIOUS
    <3> QED
      BY <2>2, <3>1 DEF Asset
  <2> HIDE DEF obj
  <2> QED
    BY <1>0, <2>2, <2>4, <2>5, FreshPuts
<1>6. ASSUME NEW t \in Threads, SaveFails(t) PROVE FreshInv'
  <2> DEFINE a == job[t].asset
             n == NewRevs(t)
  <2>1. pc[t] = "save" /\ job[t] # None
    BY <1>0, <1>6 DEF SaveFails, JobsOK
  <2>2. a \in Assets /\ n \in Seq(Contents)
    BY <1>0, <2>1, JobFields, NewRevsOK
  <2>3. PICK shared \in MayShare(a) :
           IF shared
           THEN /\ HotPut(a, [hot[a] EXCEPT !.revs = n, !.unsaved = @ \/ n # Base(t)])
                /\ End(t, None)
           ELSE LoadAsset(a) /\ End(t, [job[t] EXCEPT !.revs = n])
    BY <1>6 DEF SaveFails
  <2>4. db' = db
    BY <1>6 DEF SaveFails
  <2>5. CASE ~shared
    BY <1>0, <2>2, <2>3, <2>4, <2>5, FreshLoadAsset
  <2>6. CASE shared
    <3> DEFINE obj == [hot[a] EXCEPT !.revs = n, !.unsaved = @ \/ n # Base(t)]
    <3>1. hot[a] # None /\ HotPut(a, obj)
      BY <2>3, <2>6 DEF MayShare
    <3>2. hot[a] \in Asset /\ Loaded(a) = hot[a] /\ Base(t) = hot[a].revs
          /\ IsPrefix(Revs(db[a]), n) /\ db[a] # None
      BY <1>0, <2>1, <2>2, <3>1, BaseIsStored, LoadedAhead DEF Loaded, HotOK
    <3>3. Revs(db[a]) = db[a].revs
      BY <3>2 DEF Revs
    <3> HIDE DEF n, a
    <3>4. obj \in Asset /\ obj.unsaved = (hot[a].unsaved \/ n # Base(t)) /\ obj.revs = n
      BY <2>2, <3>2 DEF Asset
    <3>5. ASSUME ~obj.unsaved PROVE obj = db[a]
      <4>1. ~hot[a].unsaved /\ n = hot[a].revs /\ ~(hot[a].unsaved \/ n # Base(t))
        BY <3>2, <3>4, <3>5
      <4>2. obj = hot[a]
        BY <3>2, <4>1 DEF Asset
      <4>3. hot[a] = db[a]
        BY <2>2, <3>1, <4>1 DEF FreshInv, Fresh
      <4> QED
        BY <4>2, <4>3
    <3>6. Fresh(obj, db[a])
      BY <3>2, <3>3, <3>4, <3>5 DEF Fresh
    <3> HIDE DEF obj
    <3> QED
      BY <1>0, <2>2, <2>4, <3>1, <3>4, <3>6, FreshPuts
  <2> QED
    BY <2>5, <2>6
<1>7. ASSUME NEW ref \in issued, Get(ref) PROVE FreshInv'
  <2>1. ref[1] \in Assets
    BY <1>0 DEF DataOK
  <2> QED
    BY <1>0, <1>7, <2>1, FreshLoadAsset DEF Get
<1>8. ASSUME NEW a \in Assets, Delete(a) PROVE FreshInv'
  <2> DEFINE obj == [Loaded(a) EXCEPT !.archived = TRUE]
             x   == [obj EXCEPT !.unsaved = FALSE]
             y   == [obj EXCEPT !.unsaved = @ \/ ~Loaded(a).archived]
  <2>1. Loaded(a) # None
    BY <1>8 DEF Delete
  <2>2. Loaded(a) \in Asset /\ Fresh(Loaded(a), db[a]) /\ db[a] # None
        /\ IsPrefix(Revs(db[a]), Revs(Loaded(a)))
        /\ Revs(Loaded(a)) = Loaded(a).revs /\ Revs(Loaded(a)) # <<>>
    BY <2>1, LoadedAhead
  <2>3. Revs(db[a]) = db[a].revs
    BY <2>2 DEF Revs
  <2>4. \/ db' = [db EXCEPT ![a] = x] /\ HotPut(a, x)
        \/ db' = db /\ HotPut(a, y)
    BY <1>8 DEF Delete
  <2>5. x \in Asset /\ ~x.unsaved /\ x.revs = Loaded(a).revs /\ y \in Asset
        /\ y.revs = Loaded(a).revs /\ y.unsaved = (Loaded(a).unsaved \/ ~Loaded(a).archived)
    BY <2>2 DEF Asset
  <2>6. ASSUME ~y.unsaved PROVE y = db[a]
    <3>1. ~Loaded(a).unsaved /\ Loaded(a).archived
          /\ (Loaded(a).unsaved \/ ~Loaded(a).archived) = FALSE
      BY <2>2, <2>5, <2>6 DEF Asset
    <3>2. y = Loaded(a)
      BY <2>2, <3>1 DEF Asset
    <3>3. Loaded(a) = db[a]
      BY <2>1, <2>2, <3>1 DEF Fresh
    <3> QED
      BY <3>2, <3>3
  <2>7. Fresh(y, db[a])
    BY <2>2, <2>3, <2>5, <2>6 DEF Fresh
  <2>8. x.revs # <<>>
    BY <2>2, <2>5
  <2> HIDE DEF x, y
  <2>9. CASE db' = [db EXCEPT ![a] = x] /\ HotPut(a, x)
    BY <1>0, <2>5, <2>8, <2>9, FreshPuts
  <2>10. CASE db' = db /\ HotPut(a, y)
    BY <1>0, <2>5, <2>7, <2>10, FreshPuts
  <2> QED
    BY <2>4, <2>9, <2>10
<1>9. ASSUME NEW c \in Contents, Promote(c) \/ EvictToCold(c) PROVE FreshInv'
  BY <1>0, <1>9, FreshSame DEF Promote, EvictToCold
<1>10. CASE SetMirror \/ Reopen
  BY <1>0, <1>10, FreshSame DEF SetMirror, Reopen
<1>11. CASE Close \/ Crash
  BY <1>0, <1>11, FreshLoads DEF Close, Crash
<1>12. CASE UNCHANGED vars
  BY <1>0, <1>12, FreshSame DEF vars
<1> QED
  BY <1>1, <1>2, <1>3, <1>4, <1>5, <1>6, <1>7, <1>8, <1>9, <1>10, <1>11, <1>12 DEF Next

\* An object in the hot tier is what its row says, through evictions, forks,
\* deletes and failed saves; only a failed save of that object leaves it ahead.
THEOREM HotFresh == Spec => []HotIsFresh
<1>1. FreshInv => HotIsFresh
  BY DEF FreshInv, Fresh, HotIsFresh
<1> QED
  BY FreshInit, FreshStep, <1>1, PTL DEF Spec

-----------------------------------------------------------------------------
(* The rows and the blobs *)

\* A step leaves the rows alone or gives one asset an object whose history
\* extends the stored one.
LEMMA RowsStep ==
  ASSUME FreshInv, [Next]_vars
  PROVE  \/ db' = db
         \/ \E t \in Threads : /\ Save(t) /\ job[t] # None
                               /\ \E obj \in Asset :
                                     /\ obj.revs = NewRevs(t)
                                     /\ db' = [db EXCEPT ![job[t].asset] = obj]
                                     /\ HotPut(job[t].asset, obj)
         \/ \E a \in Assets : /\ Delete(a) /\ Loaded(a) # None
                              /\ \E obj \in Asset :
                                    /\ obj.revs = Loaded(a).revs
                                    /\ db' = [db EXCEPT ![a] = obj]
                                    /\ HotPut(a, obj)
<1>0. HotOK /\ DataOK /\ JobsOK
  BY DEF FreshInv, TypeInv
<1>1. CASE db' = db
  BY <1>1
<1>2. ASSUME NEW t \in Threads, Save(t)
      PROVE  /\ job[t] # None
             /\ \E obj \in Asset : /\ obj.revs = NewRevs(t)
                                   /\ db' = [db EXCEPT ![job[t].asset] = obj]
                                   /\ HotPut(job[t].asset, obj)
  <2> DEFINE a == job[t].asset
             n == NewRevs(t)
  <2>1. job[t] # None
    BY <1>0, <1>2 DEF Save, JobsOK
  <2>2. a \in Assets /\ n \in Seq(Contents)
    BY <1>0, <2>1, JobFields, NewRevsOK
  <2>3. PICK shared \in MayShare(a) :
           LET obj == [revs |-> n, archived |-> shared /\ hot[a].archived, unsaved |-> FALSE]
           IN  db' = [db EXCEPT ![a] = obj] /\ HotPut(a, obj)
    BY <1>2 DEF Save
  <2> DEFINE obj == [revs |-> n, archived |-> shared /\ hot[a].archived, unsaved |-> FALSE]
  <2>4. db' = [db EXCEPT ![a] = obj] /\ HotPut(a, obj)
    BY <2>3
  <2>5. (shared /\ hot[a].archived) \in BOOLEAN
    OBVIOUS
  <2>6. obj \in Asset /\ obj.revs = n
    BY <2>2, <2>5 DEF Asset
  <2> HIDE DEF obj
  <2> QED
    BY <2>1, <2>4, <2>6
<1>3. ASSUME NEW a \in Assets, Delete(a)
      PROVE  \/ db' = db
             \/ /\ Loaded(a) # None
                /\ \E obj \in Asset : /\ obj.revs = Loaded(a).revs
                                      /\ db' = [db EXCEPT ![a] = obj]
                                      /\ HotPut(a, obj)
  <2> DEFINE obj == [[Loaded(a) EXCEPT !.archived = TRUE] EXCEPT !.unsaved = FALSE]
  <2>1. Loaded(a) # None
    BY <1>3 DEF Delete
  <2>2. Loaded(a) \in Asset
    BY <1>0, <2>1, LoadedType
  <2>3. obj \in Asset /\ obj.revs = Loaded(a).revs
    BY <2>2 DEF Asset
  <2>4. db' = db \/ (db' = [db EXCEPT ![a] = obj] /\ HotPut(a, obj))
    BY <1>3 DEF Delete
  <2> HIDE DEF obj
  <2> QED
    BY <2>1, <2>3, <2>4
<1>4. ASSUME NEW t \in Threads,
             \/ \E a \in Assets, c \in Contents : Put(t, a, c)
             \/ \E ref \in issued, b \in Assets : Fork(t, ref, b)
             \/ Begin(t) \/ Stage(t) \/ Abandon(t) \/ Place(t)
             \/ SaveFails(t) \/ Push(t)
      PROVE  db' = db
  BY <1>4 DEF Put, Fork, Begin, Stage, Abandon, Place, SaveFails, Push
<1>5. ASSUME \/ \E ref \in issued : Get(ref)
             \/ \E c \in Contents : Promote(c) \/ EvictToCold(c)
             \/ SetMirror \/ Close \/ Crash \/ Reopen
             \/ UNCHANGED vars
      PROVE  db' = db
  BY <1>5 DEF Get, Promote, EvictToCold, SetMirror, Close, Crash, Reopen, vars
<1>6. CASE \E t \in Threads : Save(t)
  BY <1>2, <1>6
<1>7. CASE \E a \in Assets : Delete(a)
  BY <1>3, <1>7
<1> QED
  BY <1>1, <1>4, <1>5, <1>6, <1>7 DEF Next

LEMMA RowsExtend ==
  ASSUME FreshInv, [Next]_vars, NEW a \in Assets
  PROVE  IsPrefix(Revs(db[a]), Revs(db'[a]))
<1>0. DataOK /\ HotOK
  BY DEF FreshInv, TypeInv
<1>1. CASE db' = db
  <2>1. Revs(db[a]) \in Seq(Contents) /\ Revs(db'[a]) = Revs(db[a])
    BY <1>0, <1>1, LoadedType
  <2> QED
    BY <2>1, PrefixSelf
<1>2. ASSUME NEW b \in Assets, NEW obj \in Asset, IsPrefix(Revs(db[b]), obj.revs),
             db' = [db EXCEPT ![b] = obj]
      PROVE  IsPrefix(Revs(db[a]), Revs(db'[a]))
  <2>1. CASE a = b
    <3>1. db'[a] = obj /\ obj # None
      BY <1>0, <1>2, <2>1, NoneAssumption DEF DataOK
    <3> QED
      BY <1>2, <2>1, <3>1 DEF Revs
  <2>2. CASE a # b
    <3>1. db'[a] = db[a]
      BY <1>0, <1>2, <2>2 DEF DataOK
    <3>2. Revs(db[a]) \in Seq(Contents) /\ Revs(db'[a]) = Revs(db[a])
      BY <1>0, <3>1, LoadedType
    <3> QED
      BY <3>2, PrefixSelf
  <2> QED
    BY <2>1, <2>2
<1>3. ASSUME NEW t \in Threads, job[t] # None
      PROVE  job[t].asset \in Assets /\ IsPrefix(Revs(db[job[t].asset]), NewRevs(t))
  BY <1>0, <1>3, JobFields, BaseIsStored
<1>4. ASSUME NEW b \in Assets, Loaded(b) # None
      PROVE  IsPrefix(Revs(db[b]), Loaded(b).revs)
  BY <1>4, LoadedAhead
<1> QED
  BY <1>1, <1>2, <1>3, <1>4, RowsStep

\* The contents the store has taken in: what is in a tier, and what
\* evict_to_cold dropped.
Known == warm \cup {c \in Contents : cold[c] = "whole"} \cup lost

LEMMA KnownKept ==
  ASSUME warm' = warm, cold' = cold, lost' = lost
  PROVE  Known' = Known
BY DEF Known

\* Only put takes contents in, and nothing makes the store forget one.
LEMMA KnownStep ==
  ASSUME TypeInv, [Next]_vars
  PROVE  \/ Known' = Known
         \/ \E t \in Threads : Place(t) /\ Known' = Known \cup {job[t].content}
<1>0. DataOK
  BY DEF TypeInv
<1>1. ASSUME NEW c \in Contents, warm' \in Fetched(c), cold' = cold, lost' = lost
      PROVE  Known' = Known
  BY <1>0, <1>1 DEF Fetched, Known, DataOK
<1>2. ASSUME NEW ref \in issued PROVE ref[3] \in Contents
  BY <1>0, <1>2 DEF DataOK
<1>3. ASSUME NEW t \in Threads,
             \/ \E a \in Assets, c \in Contents : Put(t, a, c)
             \/ Begin(t) \/ Stage(t) \/ Abandon(t) \/ Save(t) \/ SaveFails(t)
      PROVE  Known' = Known
  BY <1>3, KnownKept DEF Put, Begin, Stage, Abandon, Save, SaveFails, blobs
<1>4. ASSUME NEW t \in Threads, NEW ref \in issued, NEW b \in Assets, Fork(t, ref, b)
      PROVE  Known' = Known
  BY <1>1, <1>2, <1>4 DEF Fork
<1>5. ASSUME NEW t \in Threads, Place(t) PROVE Known' = Known \cup {job[t].content}
  BY <1>5 DEF Place, Known
<1>6. ASSUME NEW t \in Threads, Push(t) PROVE Known' = Known
  <2> DEFINE c == job[t].content
  <2>1. PICK s \in Pushed(c) : cold' = [cold EXCEPT ![c] = s]
    BY <1>6 DEF Push
  <2>2. warm' = warm /\ lost' = lost
    BY <1>6 DEF Push
  <2>3. s = cold[c] \/ (cold[c] = "absent" /\ c \in warm)
    BY <2>1 DEF Pushed
  <2>4. c \notin Contents => cold' = cold
    BY <1>0, <2>1 DEF DataOK
  <2>5. \A d \in Contents : d # c => cold'[d] = cold[d]
    BY <1>0, <2>1 DEF DataOK
  <2>6. c \in Contents => cold'[c] = s
    BY <1>0, <2>1 DEF DataOK
  <2> HIDE DEF c
  <2> QED
    BY <2>2, <2>3, <2>4, <2>5, <2>6 DEF Known
<1>7. ASSUME NEW ref \in issued, Get(ref) PROVE Known' = Known
  <2>1. CASE warm' = warm
    BY <1>7, <2>1, KnownKept DEF Get
  <2>2. CASE warm' \in Fetched(ref[3])
    BY <1>1, <1>2, <1>7, <2>2 DEF Get
  <2> QED
    BY <1>7, <2>1, <2>2 DEF Get
<1>8. ASSUME NEW c \in Contents, Promote(c) PROVE Known' = Known
  BY <1>1, <1>8 DEF Promote
<1>9. ASSUME NEW c \in Contents, EvictToCold(c) PROVE Known' = Known
  BY <1>9 DEF EvictToCold, Known
<1>10. CASE Crash
  <2>1. \A c \in Contents : cold'[c] = "whole" <=> cold[c] = "whole"
    <3>1. PICK torn \in SUBSET {job[t].content : t \in {u \in Threads : pc[u] = "push"}} :
             cold' = [c \in Contents |-> IF c \in torn /\ "torn" \in Pushed(c)
                                         THEN "torn" ELSE cold[c]]
      BY <1>10 DEF Crash
    <3>2. \A c \in Contents : "torn" \in Pushed(c) => cold[c] \in {"absent", "torn"}
      BY DEF Pushed
    <3> QED
      BY <3>1, <3>2
  <2> QED
    BY <1>10, <2>1 DEF Crash, Known
<1>11. CASE (\E a \in Assets : Delete(a)) \/ SetMirror \/ Close \/ Reopen \/ UNCHANGED vars
  BY <1>11, KnownKept DEF Delete, SetMirror, Close, Reopen, vars, blobs
<1> QED
  BY <1>3, <1>4, <1>5, <1>6, <1>7, <1>8, <1>9, <1>10, <1>11 DEF Next

-----------------------------------------------------------------------------
(* The store implements the ledger *)

InKnown(revs) == \A i \in DOMAIN revs : revs[i] \in Known

\* Whatever a save could publish names contents the store has taken in ...
RevsKnown == \A a \in Assets : InKnown(Revs(db[a])) /\ InKnown(Revs(hot[a]))

JobsKnown ==
    \A t \in Threads : /\ job[t] # None => InKnown(job[t].revs)
                       /\ pc[t] \in {"save", "push"} => job[t].content \in Known

\* ... and the reference a put is about to return is one that its row holds.
Holds(ref) == ref[2] \in DOMAIN Revs(db[ref[1]]) /\ Revs(db[ref[1]])[ref[2]] = ref[3]

RefsHold ==
    \A t \in Threads :
        pc[t] = "push" => Holds(<<job[t].asset, job[t].rev, job[t].content>>)

LedgerInv == FreshInv /\ RevsKnown /\ JobsKnown /\ RefsHold

LEMMA LedgerInit == Init => LedgerInv
BY FreshInit DEF Init, LedgerInv, RevsKnown, JobsKnown, RefsHold, InKnown, Revs

LEMMA KnownGrows ==
  ASSUME FreshInv, [Next]_vars
  PROVE  /\ Known \subseteq Known'
         /\ \A revs : InKnown(revs) => \A i \in DOMAIN revs : revs[i] \in Known'
<1>1. Known \subseteq Known'
  BY KnownStep DEF FreshInv
<1> QED
  BY <1>1 DEF InKnown

LEMMA NewRevsKnown ==
  ASSUME LedgerInv, NEW t \in Threads, pc[t] = "save", job[t] # None
  PROVE  InKnown(NewRevs(t))
<1>1. HotOK /\ DataOK
  BY DEF LedgerInv, FreshInv, TypeInv
<1>2. job[t].asset \in Assets /\ job[t].content \in Known /\ InKnown(job[t].revs)
  BY <1>1, JobFields DEF LedgerInv, JobsKnown
<1>3. InKnown(Revs(Loaded(job[t].asset)))
  BY <1>2 DEF LedgerInv, RevsKnown, Loaded
<1>4. InKnown(Base(t))
  BY <1>2, <1>3 DEF Base
<1>5. Base(t) \in Seq(Contents) /\ NewRevs(t) \in Seq(Contents)
      /\ (NewRevs(t) = Base(t) \/ NewRevs(t) = Append(Base(t), job[t].content))
  BY <1>1, NewRevsOK
<1> DEFINE n == NewRevs(t)
           b == Base(t)
           c == job[t].content
<1> HIDE DEF n, b, c
<1>6. InKnown(n)
  <2>1. CASE n = b
    BY <1>4, <2>1 DEF b
  <2>2. CASE n = Append(b, c)
    BY <1>2, <1>4, <1>5, <2>2 DEF b, c, InKnown
  <2> QED
    BY <1>5, <2>1, <2>2 DEF n, b, c
<1> QED
  BY <1>6 DEF n

\* What the next step may put into a row, the hot tier or a call.
LEMMA LoadedKnown ==
  ASSUME LedgerInv, NEW a \in Assets
  PROVE  InKnown(Revs(Loaded(a)))
BY DEF LedgerInv, RevsKnown, Loaded

LEMMA RowsKnownStep ==
  ASSUME LedgerInv, [Next]_vars, NEW a \in Assets
  PROVE  InKnown(Revs(db'[a]))
<1>0. DataOK /\ HotOK /\ JobsOK
  BY DEF LedgerInv, FreshInv, TypeInv
<1>1. CASE db' = db
  BY <1>1 DEF LedgerInv, RevsKnown, Revs
<1>2. ASSUME NEW b \in Assets, NEW obj \in Asset, InKnown(obj.revs),
             db' = [db EXCEPT ![b] = obj]
      PROVE  InKnown(Revs(db'[a]))
  <2>1. db'[a] = obj \/ db'[a] = db[a]
    BY <1>0, <1>2 DEF DataOK
  <2>2. InKnown(Revs(obj)) /\ InKnown(Revs(db[a]))
    BY <1>2, NoneAssumption DEF LedgerInv, RevsKnown, Revs
  <2> QED
    BY <2>1, <2>2
<1>3. ASSUME NEW t \in Threads, Save(t), job[t] # None
      PROVE  job[t].asset \in Assets /\ InKnown(NewRevs(t))
  BY <1>0, <1>3, JobFields, NewRevsKnown DEF Save
<1>4. ASSUME NEW b \in Assets, Loaded(b) # None PROVE InKnown(Loaded(b).revs)
  BY <1>4, LoadedKnown DEF Revs
<1>5. FreshInv
  BY DEF LedgerInv
<1> QED
  BY <1>1, <1>2, <1>3, <1>4, <1>5, RowsStep

LEMMA RefsStep ==
  ASSUME LedgerInv, [Next]_vars
  PROVE  RefsHold'
<1>0. DataOK /\ HotOK /\ JobsOK /\ FreshInv /\ FreshInv' /\ TypeInv'
  BY FreshStep DEF LedgerInv, FreshInv, TypeInv
<1> SUFFICES ASSUME NEW t \in Threads, pc'[t] = "push"
             PROVE  Holds(<<job[t].asset, job[t].rev, job[t].content>>)'
  BY DEF RefsHold
<1> DEFINE ref == <<job[t].asset, job[t].rev, job[t].content>>
<1>1. CASE pc[t] = "push" /\ job'[t] = job[t]
  <2>1. Holds(ref) /\ job[t].asset \in Assets
    BY <1>0, <1>1, JobFields DEF LedgerInv, RefsHold, JobsOK
  <2>2. IsPrefix(Revs(db[job[t].asset]), Revs(db'[job[t].asset]))
    BY <1>0, <2>1, RowsExtend
  <2>3. Revs(db[job[t].asset]) \in Seq(Contents) /\ Revs(db'[job[t].asset]) \in Seq(Contents)
    <3>1. DataOK' /\ db'[job[t].asset] \in Asset \cup {None}
      BY <1>0, <2>1 DEF TypeInv, DataOK
    <3> QED
      BY <1>0, <2>1, <3>1, LoadedType DEF Revs, Asset
  <2> DEFINE s == Revs(db[job[t].asset])
             u == Revs(db'[job[t].asset])
  <2>4. ref[2] \in DOMAIN s /\ s[ref[2]] = ref[3]
    BY <2>1 DEF Holds
  <2> HIDE DEF s, u
  <2>5. ref[2] \in DOMAIN u /\ u[ref[2]] = ref[3]
    BY <2>2, <2>3, <2>4, PrefixIs DEF s, u
  <2> QED
    BY <1>1, <2>5 DEF Holds, Revs, u
<1>2. CASE Save(t)
  <2>1. pc[t] = "save" /\ job[t] # None
    BY <1>0, <1>2 DEF Save, JobsOK
  <2>2. job[t] \in Job /\ job' = [job EXCEPT ![t].rev = Revision(t)]
    BY <1>0, <1>2, <2>1, JobFields DEF Save
  <2>3. job'[t].asset = job[t].asset /\ job'[t].content = job[t].content
        /\ job'[t].rev = Revision(t)
    BY <1>0, <2>2 DEF DataOK, Job
  <2>4. PICK shared \in MayShare(job[t].asset) :
           db' = [db EXCEPT ![job[t].asset] =
                     [revs |-> NewRevs(t),
                      archived |-> shared /\ hot[job[t].asset].archived, unsaved |-> FALSE]]
    BY <1>2 DEF Save
  <2>5. job[t].asset \in Assets /\ Revision(t) \in DOMAIN NewRevs(t)
        /\ NewRevs(t)[Revision(t)] = job[t].content
    BY <1>0, <2>1, JobFields, NewRevsOK
  <2>6. db'[job[t].asset].revs = NewRevs(t)
    BY <1>0, <2>4, <2>5 DEF DataOK
  <2>7. db'[job[t].asset] # None
    <3>2. NewRevs(t) # <<>>
      BY <1>0, <2>1, BaseIsStored
    <3>3. PICK obj \in Asset : db' = [db EXCEPT ![job[t].asset] = obj]
      <4> DEFINE obj == [revs |-> NewRevs(t),
                         archived |-> shared /\ hot[job[t].asset].archived, unsaved |-> FALSE]
      <4>1. (shared /\ hot[job[t].asset].archived) \in BOOLEAN
        OBVIOUS
      <4>2. obj \in Asset
        BY <1>0, <2>1, <4>1, NewRevsOK DEF Asset
      <4> QED
        BY <2>4, <4>2
    <3> QED
      BY <1>0, <2>5, <3>3, NoneAssumption DEF DataOK
  <2> QED
    BY <2>3, <2>5, <2>6, <2>7 DEF Holds, Revs
<1>3. ASSUME NEW u \in Threads, Save(u), u # t PROVE pc[t] = "push" /\ job'[t] = job[t]
  BY <1>0, <1>3 DEF Save, Goto, DataOK
<1>4. ASSUME NEW u \in Threads,
             \/ \E a \in Assets, c \in Contents : Put(u, a, c)
             \/ \E r \in issued, b \in Assets : Fork(u, r, b)
             \/ Begin(u) \/ Stage(u) \/ Abandon(u) \/ Place(u)
             \/ SaveFails(u) \/ Push(u)
      PROVE  pc[t] = "push" /\ job'[t] = job[t]
  <2>1. ~Push(u) \/ u # t
    BY <1>0 DEF Push, End, Goto, DataOK
  <2>2. /\ u # t
        /\ \E l \in {"idle", "begin", "stage", "place", "save"} : pc' = [pc EXCEPT ![u] = l]
        /\ job' = job \/ \E j : job' = [job EXCEPT ![u] = j]
    <3>1. CASE \E a \in Assets, c \in Contents : Put(u, a, c)
      BY <1>0, <3>1 DEF Put, Goto, DataOK
    <3>2. CASE \E r \in issued, b \in Assets : Fork(u, r, b)
      BY <1>0, <3>2 DEF Fork, Goto, DataOK
    <3>3. CASE Begin(u)
      BY <1>0, <3>3 DEF Begin, Goto, DataOK
    <3>4. CASE Stage(u) \/ Place(u)
      BY <1>0, <3>4 DEF Stage, Place, Goto, DataOK
    <3>5. CASE Abandon(u) \/ SaveFails(u) \/ Push(u)
      BY <1>0, <3>5 DEF Abandon, SaveFails, Push, End, Goto, DataOK
    <3> QED
      BY <1>4, <3>1, <3>2, <3>3, <3>4, <3>5
  <2> QED
    BY <1>0, <2>2 DEF DataOK
<1>5. ASSUME \/ \E r \in issued : Get(r)
             \/ \E c \in Contents : Promote(c) \/ EvictToCold(c)
             \/ \E a \in Assets : Delete(a)
             \/ SetMirror \/ Close \/ Reopen \/ UNCHANGED vars
      PROVE  pc[t] = "push" /\ job'[t] = job[t]
  BY <1>5 DEF Get, Promote, EvictToCold, Delete, SetMirror, Close, Reopen, vars, call
<1>6. ~Crash
  BY DEF Crash
<1> QED
  BY <1>1, <1>2, <1>3, <1>4, <1>5, <1>6 DEF Next

\* Objects enter the hot tier with the history they had, or one a save made.
LEMMA HotStep ==
  ASSUME FreshInv, [Next]_vars, NEW a \in Assets
  PROVE  \/ Revs(hot'[a]) \in {Revs(hot[a]), Revs(Loaded(a)), <<>>}
         \/ \E t \in Threads : /\ Save(t) \/ SaveFails(t)
                               /\ pc[t] = "save" /\ job[t] # None /\ job[t].asset = a
                               /\ Revs(hot'[a]) = NewRevs(t)
<1>0. HotOK /\ DataOK /\ JobsOK
  BY DEF FreshInv, TypeInv
<1>1. ASSUME hot'[a] \in {hot[a], Loaded(a), None}
      PROVE  Revs(hot'[a]) \in {Revs(hot[a]), Revs(Loaded(a)), <<>>}
  BY <1>1 DEF Revs
<1>2. ASSUME NEW b \in Assets, LoadAsset(b) PROVE hot'[a] \in {hot[a], Loaded(a), None}
  BY <1>0, <1>2, LoadOK
<1>3. ASSUME NEW b \in Assets, NEW obj \in Asset, HotPut(b, obj)
      PROVE  IF a = b THEN Revs(hot'[a]) = obj.revs ELSE hot'[a] \in {hot[a], None}
  BY <1>0, <1>3, HotPutOK, NoneAssumption DEF Revs
<1>4. ASSUME NEW t \in Threads, job[t] # None PROVE job[t].asset \in Assets
  BY <1>0, <1>4, JobFields
<1>5. ASSUME NEW t \in Threads, Save(t)
      PROVE  pc[t] = "save" /\ job[t] # None /\ job[t].asset \in Assets
             /\ \E obj \in Asset : obj.revs = NewRevs(t) /\ HotPut(job[t].asset, obj)
  <2> DEFINE b == job[t].asset
             n == NewRevs(t)
  <2>1. pc[t] = "save" /\ job[t] # None
    BY <1>0, <1>5 DEF Save, JobsOK
  <2>2. n \in Seq(Contents)
    BY <1>0, <2>1, NewRevsOK
  <2>3. PICK shared \in MayShare(b) :
           HotPut(b, [revs |-> n, archived |-> shared /\ hot[b].archived, unsaved |-> FALSE])
    BY <1>5 DEF Save
  <2> DEFINE obj == [revs |-> n, archived |-> shared /\ hot[b].archived, unsaved |-> FALSE]
  <2>4. (shared /\ hot[b].archived) \in BOOLEAN
    OBVIOUS
  <2>5. obj \in Asset /\ obj.revs = n
    BY <2>2, <2>4 DEF Asset
  <2> QED
    BY <1>4, <2>1, <2>3, <2>5
<1>6. ASSUME NEW t \in Threads, SaveFails(t)
      PROVE  pc[t] = "save" /\ job[t] # None /\ job[t].asset \in Assets
             /\ \/ LoadAsset(job[t].asset)
                \/ \E obj \in Asset : obj.revs = NewRevs(t) /\ HotPut(job[t].asset, obj)
  <2> DEFINE b == job[t].asset
             n == NewRevs(t)
  <2>1. pc[t] = "save" /\ job[t] # None
    BY <1>0, <1>6 DEF SaveFails, JobsOK
  <2>2. n \in Seq(Contents) /\ b \in Assets
    BY <1>0, <1>4, <2>1, NewRevsOK
  <2>3. PICK shared \in MayShare(b) :
           IF shared
           THEN HotPut(b, [hot[b] EXCEPT !.revs = n, !.unsaved = @ \/ n # Base(t)])
           ELSE LoadAsset(b)
    BY <1>6 DEF SaveFails
  <2> DEFINE obj == [hot[b] EXCEPT !.revs = n, !.unsaved = @ \/ n # Base(t)]
  <2>4. CASE shared
    <3>1. hot[b] # None
      BY <2>4 DEF MayShare
    <3>2. hot[b] \in Asset
      BY <1>0, <2>2, <3>1 DEF HotOK
    <3>3. obj \in Asset /\ obj.revs = n
      BY <2>2, <3>2 DEF Asset
    <3> QED
      BY <2>1, <2>2, <2>3, <2>4, <3>3
  <2> QED
    BY <2>1, <2>2, <2>3, <2>4
<1>7. ASSUME NEW b \in Assets, Delete(b)
      PROVE  \E obj \in Asset : obj.revs = Revs(Loaded(b)) /\ HotPut(b, obj)
  <2> DEFINE obj == [Loaded(b) EXCEPT !.archived = TRUE]
             x   == [obj EXCEPT !.unsaved = FALSE]
             y   == [obj EXCEPT !.unsaved = @ \/ ~Loaded(b).archived]
  <2>1. Loaded(b) \in Asset /\ Revs(Loaded(b)) = Loaded(b).revs
    BY <1>0, <1>7, LoadedType DEF Delete, Revs
  <2>2. HotPut(b, x) \/ HotPut(b, y)
    BY <1>7 DEF Delete
  <2>3. x \in Asset /\ x.revs = Loaded(b).revs /\ y \in Asset /\ y.revs = Loaded(b).revs
    BY <2>1 DEF Asset
  <2> HIDE DEF x, y
  <2> QED
    BY <2>1, <2>2, <2>3
<1>8. ASSUME NEW t \in Threads, Begin(t) PROVE hot'[a] \in {hot[a], Loaded(a), None}
  <2>1. job[t] # None
    BY <1>0, <1>8 DEF Begin, JobsOK
  <2> QED
    BY <1>2, <1>4, <1>8, <2>1 DEF Begin
<1>9. ASSUME NEW ref \in issued, LoadAsset(ref[1]) PROVE hot'[a] \in {hot[a], Loaded(a), None}
  <2>1. ref[1] \in Assets
    BY <1>0 DEF DataOK
  <2> QED
    BY <1>2, <1>9, <2>1
<1>10. ASSUME \/ \E ref \in issued : Get(ref)
              \/ \E t \in Threads : \E ref \in issued, b \in Assets : Fork(t, ref, b)
       PROVE  hot'[a] \in {hot[a], Loaded(a), None}
  BY <1>9, <1>10 DEF Get, Fork
<1>11. ASSUME NEW t \in Threads,
              \/ \E b \in Assets, c \in Contents : Put(t, b, c)
              \/ Stage(t) \/ Abandon(t) \/ Place(t) \/ Push(t)
       PROVE  hot' = hot
  BY <1>11 DEF Put, Stage, Abandon, Place, Push, hotTier
<1>12. ASSUME \/ \E c \in Contents : Promote(c) \/ EvictToCold(c)
              \/ SetMirror \/ Reopen \/ UNCHANGED vars
       PROVE  hot' = hot
  BY <1>12 DEF Promote, EvictToCold, SetMirror, Reopen, vars, hotTier
<1>13. ASSUME Close \/ Crash PROVE hot'[a] = None
  BY <1>13 DEF Close, Crash
<1>14. ASSUME NEW t \in Threads, Save(t) \/ SaveFails(t)
       PROVE  \/ Revs(hot'[a]) \in {Revs(hot[a]), Revs(Loaded(a)), <<>>}
              \/ /\ pc[t] = "save" /\ job[t] # None /\ job[t].asset = a
                 /\ Revs(hot'[a]) = NewRevs(t)
  <2>1. pc[t] = "save" /\ job[t] # None /\ job[t].asset \in Assets
    BY <1>5, <1>6, <1>14
  <2>2. CASE LoadAsset(job[t].asset)
    BY <1>1, <1>2, <2>1, <2>2
  <2>3. CASE \E obj \in Asset : obj.revs = NewRevs(t) /\ HotPut(job[t].asset, obj)
    BY <1>1, <1>3, <2>1, <2>3
  <2> QED
    BY <1>5, <1>6, <1>14, <2>2, <2>3
<1>15. ASSUME NEW b \in Assets, Delete(b)
       PROVE  Revs(hot'[a]) \in {Revs(hot[a]), Revs(Loaded(a)), <<>>}
  BY <1>1, <1>3, <1>7, <1>15
<1> QED
  BY <1>1, <1>8, <1>10, <1>11, <1>12, <1>13, <1>14, <1>15 DEF Next

\* The local variables of a call change by a call and at its own steps only.
LEMMA JobsStep ==
  ASSUME FreshInv, [Next]_vars, NEW t \in Threads, job'[t] # None
  PROVE  /\ \/ job'[t].revs = <<>>
            \/ /\ job[t] # None /\ job'[t].asset = job[t].asset
               /\ \/ job'[t].revs = job[t].revs
                  \/ pc[t] = "save" /\ job'[t].revs = NewRevs(t)
         /\ pc'[t] \in {"save", "push"} =>
               /\ job'[t].content = job[t].content
               /\ pc[t] \in {"save", "push"} \/ Place(t)
<1>0. DataOK /\ JobsOK
  BY DEF FreshInv, TypeInv
<1>1. CASE pc'[t] = pc[t] /\ job'[t] = job[t]
  BY <1>1
<1>2. CASE \E a \in Assets, c \in Contents : Put(t, a, c)
  <2>1. PICK a \in Assets, c \in Contents : Put(t, a, c)
    BY <1>2
  <2>2. PICK old \in {<<>>} \cup
                       (IF job[t] # None /\ job[t].asset = a THEN {job[t].revs} ELSE {}) :
           job' = [job EXCEPT ![t] = [asset |-> a, content |-> c, revs |-> old,
                                      fork |-> FALSE, seen |-> {}, rev |-> 0]]
    BY <2>1 DEF Put
  <2>3. job'[t].revs = old /\ pc'[t] = "begin" /\ job'[t].asset = a
    BY <1>0, <2>1, <2>2 DEF Put, Goto, DataOK
  <2> QED
    BY <2>2, <2>3
<1>3. CASE \E ref \in issued, b \in Assets : Fork(t, ref, b)
  BY <1>0, <1>3 DEF Fork, Goto, DataOK
<1>4. CASE Begin(t)
  <2>1. job[t] # None
    BY <1>0, <1>4 DEF Begin, JobsOK
  <2>2. job[t] \in Job
    BY <1>0, <2>1, JobFields
  <2> QED
    BY <1>0, <1>4, <2>1, <2>2 DEF Begin, Goto, DataOK, Job
<1>5. CASE Stage(t) \/ Place(t)
  BY <1>0, <1>5 DEF Stage, Place, Goto, DataOK
<1>6. CASE Abandon(t) \/ Push(t)
  BY <1>0, <1>6 DEF Abandon, Push, End, Goto, DataOK
<1>7. CASE Save(t)
  <2>1. job[t] # None /\ pc[t] = "save"
    BY <1>0, <1>7 DEF Save, JobsOK
  <2>2. job[t] \in Job
    BY <1>0, <2>1, JobFields
  <2>3. job' = [job EXCEPT ![t].rev = Revision(t)]
    BY <1>7 DEF Save
  <2> QED
    BY <1>0, <2>1, <2>2, <2>3 DEF DataOK, Job
<1>8. CASE SaveFails(t)
  <2>1. job[t] # None /\ pc[t] = "save"
    BY <1>0, <1>8 DEF SaveFails, JobsOK
  <2>2. job[t] \in Job
    BY <1>0, <2>1, JobFields
  <2>3. Goto(t, "idle") /\ (\/ job' = [job EXCEPT ![t] = None]
                            \/ job' = [job EXCEPT ![t] = [job[t] EXCEPT !.revs = NewRevs(t)]])
    BY <1>8 DEF SaveFails, End
  <2> QED
    BY <1>0, <2>1, <2>2, <2>3 DEF DataOK, Job, Goto
<1>9. ASSUME NEW u \in Threads \ {t},
             \/ \E a \in Assets, c \in Contents : Put(u, a, c)
             \/ \E ref \in issued, b \in Assets : Fork(u, ref, b)
             \/ Begin(u) \/ Stage(u) \/ Abandon(u) \/ Place(u)
             \/ Save(u) \/ SaveFails(u) \/ Push(u)
      PROVE  pc'[t] = pc[t] /\ job'[t] = job[t]
  <2>1. ASSUME NEW a \in Assets, NEW c \in Contents, Put(u, a, c)
        PROVE  pc'[t] = pc[t] /\ job'[t] = job[t]
    BY <1>0, <2>1 DEF Put, Goto, DataOK
  <2>2. ASSUME NEW ref \in issued, NEW b \in Assets, Fork(u, ref, b)
        PROVE  pc'[t] = pc[t] /\ job'[t] = job[t]
    BY <1>0, <2>2 DEF Fork, Goto, DataOK
  <2>3. CASE Begin(u) \/ Stage(u) \/ Place(u) \/ Save(u)
    BY <1>0, <2>3 DEF Begin, Stage, Place, Save, Goto, DataOK
  <2>4. CASE Abandon(u) \/ SaveFails(u) \/ Push(u)
    BY <1>0, <2>4 DEF Abandon, SaveFails, Push, End, Goto, DataOK
  <2> QED
    BY <1>9, <2>1, <2>2, <2>3, <2>4
<1>10. ASSUME \/ \E ref \in issued : Get(ref)
              \/ \E c \in Contents : Promote(c) \/ EvictToCold(c)
              \/ \E a \in Assets : Delete(a)
              \/ SetMirror \/ Close \/ Reopen \/ UNCHANGED vars
       PROVE  pc'[t] = pc[t] /\ job'[t] = job[t]
  BY <1>10 DEF Get, Promote, EvictToCold, Delete, SetMirror, Close, Reopen, vars, call
<1>11. ~Crash
  BY DEF Crash
<1> QED
  BY <1>1, <1>2, <1>3, <1>4, <1>5, <1>6, <1>7, <1>8, <1>9, <1>10, <1>11 DEF Next

LEMMA LedgerInvStep == LedgerInv /\ [Next]_vars => LedgerInv'
<1> SUFFICES ASSUME LedgerInv, [Next]_vars PROVE LedgerInv'
  OBVIOUS
<1>0. FreshInv /\ FreshInv' /\ HotOK /\ DataOK
  BY FreshStep DEF LedgerInv, FreshInv, TypeInv
<1>1. ASSUME NEW a \in Assets PROVE InKnown(Revs(db[a]))'
  <2>1. InKnown(Revs(db'[a]))
    BY RowsKnownStep
  <2> QED
    BY <1>0, <2>1, KnownGrows DEF InKnown, Revs
<1>2. ASSUME NEW a \in Assets PROVE InKnown(Revs(hot[a]))'
  <2>1. InKnown(Revs(hot[a])) /\ InKnown(Revs(Loaded(a))) /\ InKnown(<<>>)
    BY LoadedKnown DEF LedgerInv, RevsKnown, InKnown
  <2>2. InKnown(Revs(hot'[a]))
    BY <1>0, <2>1, HotStep, NewRevsKnown
  <2> QED
    BY <1>0, <2>2, KnownGrows DEF InKnown, Revs
<1>3. ASSUME NEW t \in Threads, job'[t] # None PROVE InKnown(job[t].revs)'
  <2>1. InKnown(<<>>) /\ (job[t] # None => InKnown(job[t].revs))
    BY DEF LedgerInv, JobsKnown, InKnown
  <2>2. InKnown(job'[t].revs)
    BY <1>0, <1>3, <2>1, JobsStep, NewRevsKnown
  <2> QED
    BY <1>0, <2>2, KnownGrows DEF InKnown
<1>4. ASSUME NEW t \in Threads, pc'[t] \in {"save", "push"}
      PROVE  job'[t].content \in Known'
  <2>1. job'[t] # None
    BY <1>0, <1>4 DEF FreshInv, TypeInv, JobsOK
  <2>2. job'[t].content = job[t].content /\ (pc[t] \in {"save", "push"} \/ Place(t))
    BY <1>0, <1>4, <2>1, JobsStep
  <2>3. CASE Place(t)
    BY <2>2, <2>3 DEF Place, Known
  <2>4. CASE pc[t] \in {"save", "push"}
    BY <1>0, <2>2, <2>4, KnownGrows DEF LedgerInv, JobsKnown
  <2> QED
    BY <2>2, <2>3, <2>4
<1> QED
  BY <1>0, <1>1, <1>2, <1>3, <1>4, RefsStep DEF LedgerInv, RevsKnown, JobsKnown

\* Only the end of a put hands out a reference.
LEMMA IssuedStep ==
  ASSUME [Next]_vars
  PROVE  issued' = issued \/ \E t \in Threads : Push(t)
<1>1. ASSUME NEW t \in Threads,
             \/ \E a \in Assets, c \in Contents : Put(t, a, c)
             \/ \E ref \in issued, b \in Assets : Fork(t, ref, b)
             \/ Begin(t) \/ Stage(t) \/ Abandon(t) \/ Place(t)
             \/ Save(t) \/ SaveFails(t)
      PROVE  issued' = issued
  BY <1>1 DEF Put, Fork, Begin, Stage, Abandon, Place, Save, SaveFails
<1>2. ASSUME \/ \E ref \in issued : Get(ref)
             \/ \E c \in Contents : Promote(c) \/ EvictToCold(c)
             \/ \E a \in Assets : Delete(a)
             \/ SetMirror \/ Close \/ Crash \/ Reopen \/ UNCHANGED vars
      PROVE  issued' = issued
  BY <1>2 DEF Get, Promote, EvictToCold, Delete, SetMirror, Close, Crash, Reopen, vars
<1> QED
  BY <1>1, <1>2 DEF Next

Log == [a \in Assets |-> Revs(db[a])]

\* Each step of the store takes in a content, publishes a longer history, hands
\* out a reference, or does nothing the ledger sees.
LEMMA LedgerNext ==
  ASSUME LedgerInv, [Next]_vars
  PROVE  [Ledger!Next]_(Ledger!ledger)
<1>0. FreshInv /\ HotOK /\ DataOK /\ JobsOK
  BY DEF LedgerInv, FreshInv, TypeInv
<1>1. Ledger!ledger = <<Log, Known, issued>> /\ Ledger!ledger' = <<Log', Known', issued'>>
  BY DEF Ledger!ledger, Log, Known
<1>2. CASE Log' = Log /\ Known' = Known /\ issued' = issued
  BY <1>1, <1>2
<1>3. ASSUME NEW t \in Threads, Place(t) PROVE Ledger!Next
  <2>1. PICK c \in Contents : c = job[t].content
    BY <1>0, <1>3, JobFields DEF Place, JobsOK
  <2>2. db' = db /\ issued' = issued /\ Known' = Known \cup {c}
    BY <1>3, <2>1 DEF Place, Known
  <2>3. Log' = Log
    BY <2>2 DEF Log, Revs
  <2>4. Ledger!TakeIn(c)
    BY <2>2, <2>3 DEF Ledger!TakeIn, Log, Known
  <2> QED
    BY <2>4 DEF Ledger!Next
<1>4. CASE Known' = Known
  <2>1. ASSUME NEW t \in Threads, Push(t) PROVE Ledger!Next
    <3> DEFINE a == job[t].asset
               i == job[t].rev
    <3>1. pc[t] = "push" /\ a \in Assets
      BY <1>0, <2>1, JobFields DEF Push, JobsOK
    <3>2. Holds(<<a, i, job[t].content>>)
      BY <3>1 DEF LedgerInv, RefsHold
    <3>3. i \in DOMAIN Log[a] /\ Log[a][i] = job[t].content
      BY <3>1, <3>2 DEF Holds, Log
    <3>4. db' = db /\ issued' = issued \cup {<<a, i, job[t].content>>}
      BY <2>1 DEF Push
    <3>5. Log' = Log
      BY <3>4 DEF Log, Revs
    <3> HIDE DEF a, i
    <3>6. Ledger!Issue(a, i)
      BY <1>4, <3>3, <3>4, <3>5 DEF Ledger!Issue, Log, Known
    <3> QED
      BY <3>1, <3>3, <3>6 DEF Ledger!Next, Log
  <2>2. ASSUME NEW a \in Assets, NEW obj \in Asset, db' = [db EXCEPT ![a] = obj],
               issued' = issued
        PROVE  [Ledger!Next]_(Ledger!ledger)
    <3>1. Log' = [Log EXCEPT ![a] = Revs(db'[a])]
      <4>1. \A b \in Assets \ {a} : db'[b] = db[b]
        BY <1>0, <2>2 DEF DataOK
      <4> QED
        BY <4>1 DEF Log, Revs
    <3>2. CASE Revs(db'[a]) = Revs(db[a])
      <4>1. Log' = Log
        BY <3>1, <3>2 DEF Log
      <4> QED
        BY <1>2, <1>4, <2>2, <4>1
    <3>3. CASE Revs(db'[a]) # Revs(db[a])
      <4>1. Log'[a] = Revs(db'[a]) /\ Log[a] = Revs(db[a])
        BY <3>1 DEF Log
      <4>2. IsStrictPrefix(Log[a], Log'[a])
        BY <1>0, <3>3, <4>1, RowsExtend DEF IsStrictPrefix
      <4>3. \A i \in DOMAIN Log'[a] : Log'[a][i] \in Known
        BY <4>1, RowsKnownStep DEF InKnown
      <4>4. Log' = [Log EXCEPT ![a] = Log'[a]]
        BY <3>1, <4>1
      <4>5. Ledger!Publish(a, Log'[a])
        BY <1>4, <2>2, <4>2, <4>3, <4>4
           DEF Ledger!Publish, Log, Known, IsStrictPrefix, IsPrefix,
               Ledger!IsStrictPrefix, Ledger!IsPrefix
      <4> QED
        BY <4>5 DEF Ledger!Next, Log
    <3> QED
      BY <3>2, <3>3
  <2>3. CASE db' = db
    <3>1. Log' = Log
      BY <2>3 DEF Log, Revs
    <3> QED
      BY <1>2, <1>4, <2>1, <3>1, IssuedStep
  <2>4. ASSUME NEW t \in Threads, Save(t)
        PROVE  job[t].asset \in Assets /\ issued' = issued
    BY <1>0, <2>4, JobFields DEF Save, JobsOK
  <2>5. ASSUME NEW a \in Assets, Delete(a)
        PROVE  issued' = issued
    BY <2>5 DEF Delete
  <2> QED
    BY <1>0, <2>2, <2>3, <2>4, <2>5, RowsStep
<1> QED
  BY <1>0, <1>3, <1>4, KnownStep DEF FreshInv

\* The store implements the ledger: across overlapping puts, failed saves,
\* evictions and crashes a history only grows, names only contents that were
\* placed, and a reference that put returned stands for its content for ever.
THEOREM ImplementsLedger == Spec => LedgerSpec
<1>1. Init => Ledger!Init
  <2> SUFFICES ASSUME Init PROVE Ledger!Init
    OBVIOUS
  <2>1. \A a \in Assets : Revs(db[a]) = <<>>
    BY DEF Init, Revs
  <2>2. {c \in Contents : cold[c] = "whole"} = {}
    BY DEF Init
  <2> QED
    BY <2>1, <2>2 DEF Init, Ledger!Init
<1>2. LedgerInv /\ [Next]_vars => [Ledger!Next]_(Ledger!ledger)
  BY LedgerNext
<1> QED
  BY LedgerInit, LedgerInvStep, <1>1, <1>2, PTL DEF Spec, LedgerSpec, Ledger!Spec

-----------------------------------------------------------------------------
(* One revision per content *)

Holding(revs) == {revs[i] : i \in DOMAIN revs}

OneRev(a, revs) ==
    \A i, j \in DOMAIN revs : revs[i] = revs[j] => i = j \/ <<a, revs[i]>> \in overlap

StoredOnce == \A a \in Assets : OneRev(a, Revs(db[a])) /\ OneRev(a, Revs(hot[a]))

LeftOnce == \A t \in Threads : job[t] # None => OneRev(job[t].asset, job[t].revs)

\* What a put brings is marked if its own object has it already ...
SelfMarked ==
    \A t \in Threads :
        InFlight(t) /\ job[t].content \in Leftover(t)
            => <<job[t].asset, job[t].content>> \in overlap

\* ... or if another put between its phases brings it as well ...
PairsMarked ==
    \A t, u \in Threads :
        t # u /\ InFlight(t) /\ InFlight(u) /\ job[t].asset = job[u].asset
            => \A c \in Brings(t) \cap Brings(u) : <<job[t].asset, c>> \in overlap

\* ... so a revision of its content that it does not look for came in between.
SeenOrMarked ==
    \A t \in Threads :
        pc[t] \in {"stage", "place", "save"} /\
        job[t].content \in Holding(Revs(Loaded(job[t].asset)))
            => \/ SizeOf[job[t].content] \in job[t].seen
               \/ <<job[t].asset, job[t].content>> \in overlap

OneInv == FreshInv /\ StoredOnce /\ LeftOnce /\ SelfMarked /\ PairsMarked /\ SeenOrMarked

LEMMA OneInit == Init => OneInv
<1> SUFFICES ASSUME Init PROVE OneInv
  OBVIOUS
<1>1. StoredOnce
  BY DEF Init, StoredOnce, OneRev, Revs
<1>2. \A t \in Threads : pc[t] = "idle" /\ job[t] = None
  BY DEF Init
<1> QED
  BY FreshInit, <1>1, <1>2
     DEF OneInv, LeftOnce, SelfMarked, PairsMarked, SeenOrMarked, InFlight

LEMMA PrefixHolds ==
  ASSUME NEW s \in Seq(Contents), NEW t \in Seq(Contents), IsPrefix(s, t)
  PROVE  Holding(s) \subseteq Holding(t)
BY PrefixIs DEF Holding

\* A save writes no second revision of a content that is not marked, and what
\* it adds the put brought.
LEMMA NewRevsOnce ==
  ASSUME OneInv, NEW t \in Threads, pc[t] = "save", job[t] # None
  PROVE  /\ OneRev(job[t].asset, NewRevs(t))
         /\ Holding(NewRevs(t)) \subseteq Holding(Revs(Loaded(job[t].asset))) \cup Brings(t)
<1> DEFINE a == job[t].asset
           c == job[t].content
           b == Base(t)
           n == NewRevs(t)
           l == Revs(Loaded(a))
<1>0. HotOK /\ DataOK /\ FreshInv
  BY DEF OneInv, FreshInv, TypeInv
<1>1. /\ a \in Assets /\ b \in Seq(Contents) /\ n \in Seq(Contents)
      /\ n = b \/ (Reusable(t) = {} /\ n = Append(b, c))
  BY <1>0, JobFields, NewRevsOK
<1>2. OneRev(a, l) /\ OneRev(a, job[t].revs)
  BY <1>1 DEF OneInv, StoredOnce, LeftOnce, Loaded
<1>3. \/ b = l
      \/ b = job[t].revs
  BY DEF Base
<1>4. OneRev(a, b) /\ Holding(b) \subseteq Holding(l) \cup Brings(t)
  BY <1>2, <1>3 DEF Holding, Brings, Leftover
<1>5. Reusable(t) = {} /\ c \in Holding(b) => <<a, c>> \in overlap
  <2> SUFFICES ASSUME Reusable(t) = {}, c \in Holding(b) PROVE <<a, c>> \in overlap
    OBVIOUS
  <2>1. SizeOf[c] \notin job[t].seen
    BY DEF Reusable, Holding
  <2>2. CASE b = l
    BY <2>1, <2>2 DEF OneInv, SeenOrMarked
  <2>3. CASE b = job[t].revs
    BY <2>3 DEF OneInv, SelfMarked, InFlight, Leftover, Holding
  <2> QED
    BY <1>3, <2>2, <2>3
<1>6. CASE n = b
  BY <1>4, <1>6
<1>7. CASE Reusable(t) = {} /\ n = Append(b, c)
  <2>1. Len(n) = Len(b) + 1 /\ n[Len(n)] = c /\ \A i \in 1..Len(b) : n[i] = b[i]
    BY <1>1, <1>7
  <2>2. DOMAIN n = 1..Len(b) + 1 /\ DOMAIN b = 1..Len(b) /\ Len(b) \in Nat
    BY <1>1, <2>1
  <2>3. c \in Brings(t)
    BY DEF Brings
  <2> HIDE DEF n, b, c, l
  <2>4. Holding(n) \subseteq Holding(b) \cup {c}
    BY <2>1, <2>2 DEF Holding
  <2>5. ASSUME NEW i \in 1..Len(b), b[i] = c PROVE <<a, c>> \in overlap
    <3>1. c \in Holding(b)
      BY <2>2, <2>5 DEF Holding
    <3> QED
      BY <1>5, <1>7, <3>1
  <2>6. OneRev(a, n)
    <3> SUFFICES ASSUME NEW i \in DOMAIN n, NEW j \in DOMAIN n, n[i] = n[j], i # j
                 PROVE  <<a, n[i]>> \in overlap
      BY DEF OneRev
    <3>1. CASE i \in 1..Len(b) /\ j \in 1..Len(b)
      BY <1>4, <2>1, <2>2, <3>1 DEF OneRev
    <3>2. CASE i \in 1..Len(b) /\ j = Len(b) + 1
      BY <2>1, <2>2, <2>5, <3>2
    <3>3. CASE i = Len(b) + 1 /\ j \in 1..Len(b)
      BY <2>1, <2>2, <2>5, <3>3
    <3> QED
      BY <2>2, <3>1, <3>2, <3>3
  <2> QED
    BY <1>4, <2>3, <2>4, <2>6 DEF n, c, l
<1> QED
  BY <1>1, <1>6, <1>7

\* Between its phases a put keeps its local variables but for the revision.
LEMMA FlightStep ==
  ASSUME FreshInv, [Next]_vars, NEW t \in Threads, InFlight(t)'
  PROVE  /\ job[t] # None
         /\ job'[t].asset = job[t].asset /\ job'[t].content = job[t].content
         /\ job'[t].revs = job[t].revs
         /\ \/ Begin(t)
            \/ InFlight(t) /\ job'[t].seen = job[t].seen /\ pc[t] # "begin"
               /\ (pc'[t] \in {"stage", "place", "save"}
                      => pc[t] \in {"stage", "place", "save"} /\ ~Save(t) /\ ~SaveFails(t))
<1>0. DataOK /\ JobsOK
  BY DEF FreshInv, TypeInv
<1>1. CASE /\ pc'[t] = pc[t] /\ job'[t] = job[t]
           /\ ~Save(t) /\ ~SaveFails(t)
  BY <1>0, <1>1 DEF InFlight, JobsOK, DataOK
<1>2. CASE \/ \E a \in Assets, c \in Contents : Put(t, a, c)
           \/ \E ref \in issued, b \in Assets : Fork(t, ref, b)
  BY <1>0, <1>2 DEF Put, Fork, Goto, DataOK, InFlight
<1>3. CASE Begin(t)
  <2>1. job[t] # None
    BY <1>0, <1>3 DEF Begin, JobsOK
  <2>2. job[t] \in Job
    BY <1>0, <2>1, JobFields
  <2> QED
    BY <1>0, <1>3, <2>1, <2>2 DEF Begin, DataOK, Job
<1>4. CASE Stage(t) \/ Place(t)
  <2>1. ~Save(t) /\ ~SaveFails(t) /\ job[t] # None
    BY <1>0, <1>4 DEF Stage, Place, Save, SaveFails, JobsOK
  <2> QED
    BY <1>0, <1>4, <2>1 DEF Stage, Place, Goto, DataOK, InFlight
<1>5. CASE Abandon(t) \/ Push(t) \/ SaveFails(t)
  BY <1>0, <1>5 DEF Abandon, Push, SaveFails, End, Goto, DataOK, InFlight
<1>6. CASE Save(t)
  <2>1. job[t] # None /\ pc[t] = "save"
    BY <1>0, <1>6 DEF Save, JobsOK
  <2>2. job[t] \in Job
    BY <1>0, <2>1, JobFields
  <2>3. job' = [job EXCEPT ![t].rev = Revision(t)] /\ pc' = [pc EXCEPT ![t] = "push"]
    BY <1>6 DEF Save, Goto
  <2> QED
    BY <1>0, <2>1, <2>2, <2>3 DEF DataOK, Job, InFlight
<1>7. ASSUME NEW u \in Threads \ {t},
             \/ \E a \in Assets, c \in Contents : Put(u, a, c)
             \/ \E ref \in issued, b \in Assets : Fork(u, ref, b)
             \/ Begin(u) \/ Stage(u) \/ Abandon(u) \/ Place(u)
             \/ Save(u) \/ SaveFails(u) \/ Push(u)
      PROVE  pc'[t] = pc[t] /\ job'[t] = job[t]
  <2>1. ASSUME NEW a \in Assets, NEW c \in Contents, Put(u, a, c)
        PROVE  pc'[t] = pc[t] /\ job'[t] = job[t]
    BY <1>0, <2>1 DEF Put, Goto, DataOK
  <2>2. ASSUME NEW ref \in issued, NEW b \in Assets, Fork(u, ref, b)
        PROVE  pc'[t] = pc[t] /\ job'[t] = job[t]
    BY <1>0, <2>2 DEF Fork, Goto, DataOK
  <2>3. CASE Begin(u) \/ Stage(u) \/ Place(u) \/ Save(u)
    BY <1>0, <2>3 DEF Begin, Stage, Place, Save, Goto, DataOK
  <2>4. CASE Abandon(u) \/ SaveFails(u) \/ Push(u)
    BY <1>0, <2>4 DEF Abandon, SaveFails, Push, End, Goto, DataOK
  <2> QED
    BY <1>7, <2>1, <2>2, <2>3, <2>4
<1>8. ASSUME \/ \E ref \in issued : Get(ref)
             \/ \E c \in Contents : Promote(c) \/ EvictToCold(c)
             \/ \E a \in Assets : Delete(a)
             \/ SetMirror \/ Close \/ Reopen \/ UNCHANGED vars
      PROVE  pc'[t] = pc[t] /\ job'[t] = job[t]
  BY <1>8 DEF Get, Promote, EvictToCold, Delete, SetMirror, Close, Reopen, vars, call
<1>9. ~Crash
  BY DEF Crash, InFlight
<1>10. pc'[t] = pc[t] /\ InFlight(t)' => ~Save(t) /\ ~SaveFails(t)
  BY <1>0 DEF Save, SaveFails, End, Goto, DataOK
<1> QED
  BY <1>1, <1>2, <1>3, <1>4, <1>5, <1>6, <1>7, <1>8, <1>9, <1>10 DEF Next

\* What a put or a get sees of an asset grows only by what a put brought.
LEMMA LoadedStep ==
  ASSUME FreshInv, [Next]_vars, NEW a \in Assets,
         \A t \in Threads : pc[t] = "save" /\ job[t] # None
            => Holding(NewRevs(t)) \subseteq Holding(Revs(Loaded(job[t].asset))) \cup Brings(t),
         NEW c \in Holding(Revs(Loaded(a))')
  PROVE  \/ c \in Holding(Revs(Loaded(a)))
         \/ \E t \in Threads : /\ Save(t) \/ SaveFails(t)
                               /\ pc[t] = "save" /\ job[t].asset = a
                               /\ c \in Brings(t)
<1>0. HotOK /\ DataOK /\ JobsOK
  BY DEF FreshInv, TypeInv
<1>1. Holding(Revs(db[a])) \subseteq Holding(Revs(Loaded(a)))
  BY <1>0, LoadedAhead, LoadedType, PrefixHolds
<1>2. Holding(Revs(hot[a])) \subseteq Holding(Revs(Loaded(a))) /\ Holding(<<>>) = {}
  BY DEF Loaded, Revs, Holding
<1>3. c \in Holding(Revs(hot'[a])) \/ c \in Holding(Revs(db'[a]))
  BY DEF Loaded, Revs, Holding
<1>4. ASSUME c \in Holding(Revs(hot'[a]))
      PROVE  \/ c \in Holding(Revs(Loaded(a)))
             \/ \E t \in Threads : /\ Save(t) \/ SaveFails(t)
                                   /\ pc[t] = "save" /\ job[t].asset = a
                                   /\ c \in Brings(t)
  BY <1>2, <1>4, HotStep
<1>5. ASSUME c \in Holding(Revs(db'[a]))
      PROVE  \/ c \in Holding(Revs(Loaded(a)))
             \/ \E t \in Threads : /\ Save(t) \/ SaveFails(t)
                                   /\ pc[t] = "save" /\ job[t].asset = a
                                   /\ c \in Brings(t)
  <2>1. CASE db' = db
    BY <1>1, <1>5, <2>1 DEF Revs
  <2>2. ASSUME NEW b \in Assets, NEW obj \in Asset, db' = [db EXCEPT ![b] = obj],
               c \notin Holding(Revs(Loaded(a)))
        PROVE  a = b /\ c \in Holding(obj.revs)
    <3>1. a # b => db'[a] = db[a]
      BY <1>0, <2>2 DEF DataOK
    <3>2. a # b => Revs(db'[a]) = Revs(db[a])
      BY <3>1 DEF Revs
    <3>3. a = b
      BY <1>1, <1>5, <2>2, <3>2
    <3>4. db'[a] = obj /\ obj # None
      BY <1>0, <2>2, <3>3, NoneAssumption DEF DataOK
    <3> QED
      BY <1>5, <3>3, <3>4 DEF Revs
  <2>3. ASSUME NEW t \in Threads, Save(t), job[t] # None
        PROVE  job[t].asset \in Assets /\ pc[t] = "save"
    BY <1>0, <2>3, JobFields DEF Save
  <2>4. ASSUME NEW b \in Assets, Loaded(b) # None
        PROVE  Revs(Loaded(b)) = Loaded(b).revs
    BY <2>4, LoadedAhead
  <2> QED
    BY <2>1, <2>2, <2>3, <2>4, RowsStep
<1> QED
  BY <1>3, <1>4, <1>5

LEMMA MarksStay ==
  ASSUME [Next]_vars
  PROVE  overlap \subseteq overlap'
<1>1. ASSUME NEW t \in Threads,
             \/ \E a \in Assets, c \in Contents : Put(t, a, c)
             \/ \E ref \in issued, b \in Assets : Fork(t, ref, b)
             \/ Begin(t) \/ Stage(t) \/ Abandon(t) \/ Place(t)
             \/ Save(t) \/ SaveFails(t) \/ Push(t)
      PROVE  overlap \subseteq overlap'
  BY <1>1 DEF Put, Fork, Begin, Stage, Abandon, Place, Save, SaveFails, Push
<1>2. ASSUME \/ \E ref \in issued : Get(ref)
             \/ \E c \in Contents : Promote(c) \/ EvictToCold(c)
             \/ \E a \in Assets : Delete(a)
             \/ SetMirror \/ Close \/ Crash \/ Reopen \/ UNCHANGED vars
      PROVE  overlap \subseteq overlap'
  BY <1>2 DEF Get, Promote, EvictToCold, Delete, SetMirror, Close, Crash, Reopen, vars
<1> QED
  BY <1>1, <1>2 DEF Next

LEMMA OneStep == OneInv /\ [Next]_vars => OneInv'
<1> SUFFICES ASSUME OneInv, [Next]_vars PROVE OneInv'
  OBVIOUS
<1>0. FreshInv /\ FreshInv' /\ HotOK /\ DataOK /\ JobsOK /\ overlap \subseteq overlap'
  BY FreshStep, MarksStay DEF OneInv, FreshInv, TypeInv
<1>1. StoredOnce'
  <2> SUFFICES ASSUME NEW a \in Assets
               PROVE  OneRev(a, Revs(db[a]))' /\ OneRev(a, Revs(hot[a]))'
    BY DEF StoredOnce
  <2>1. OneRev(a, Revs(db[a])) /\ OneRev(a, Revs(hot[a])) /\ OneRev(a, <<>>)
        /\ OneRev(a, Revs(Loaded(a)))
    BY DEF OneInv, StoredOnce, OneRev, Loaded
  <2>2. OneRev(a, Revs(hot'[a]))
    BY <1>0, <2>1, HotStep, NewRevsOnce
  <2>3. OneRev(a, Revs(db'[a]))
    <3>1. CASE db' = db
      BY <2>1, <3>1 DEF Revs
    <3>2. ASSUME NEW b \in Assets, NEW obj \in Asset, db' = [db EXCEPT ![b] = obj],
                 OneRev(b, obj.revs)
          PROVE  OneRev(a, Revs(db'[a]))
      <4>1. CASE a # b
        <5>1. Revs(db'[a]) = Revs(db[a])
          BY <1>0, <3>2, <4>1 DEF DataOK, Revs
        <5> QED
          BY <2>1, <5>1
      <4>2. CASE a = b
        <5>1. Revs(db'[a]) = obj.revs
          BY <1>0, <3>2, <4>2, NoneAssumption DEF DataOK, Revs
        <5> QED
          BY <3>2, <4>2, <5>1
      <4> QED
        BY <4>1, <4>2
    <3>3. ASSUME NEW t \in Threads, Save(t), job[t] # None
          PROVE  job[t].asset \in Assets /\ OneRev(job[t].asset, NewRevs(t))
      BY <1>0, <3>3, JobFields, NewRevsOnce DEF Save
    <3>4. ASSUME NEW b \in Assets, Loaded(b) # None PROVE OneRev(b, Loaded(b).revs)
      <4>1. Revs(Loaded(b)) = Loaded(b).revs
        BY <1>0, <3>4, LoadedAhead
      <4>2. OneRev(b, Revs(Loaded(b)))
        BY DEF OneInv, StoredOnce, Loaded
      <4> QED
        BY <4>1, <4>2
    <3> QED
      BY <1>0, <3>1, <3>2, <3>3, <3>4, RowsStep
  <2> QED
    BY <1>0, <2>2, <2>3 DEF OneRev, Revs
<1>2. LeftOnce'
  <2> SUFFICES ASSUME NEW t \in Threads, job'[t] # None
               PROVE  OneRev(job[t].asset, job[t].revs)'
    BY DEF LeftOnce
  <2>1. OneRev(job'[t].asset, job'[t].revs)
    <3>1. OneRev(job'[t].asset, <<>>)
      BY DEF OneRev
    <3>2. job[t] # None => OneRev(job[t].asset, job[t].revs)
      BY DEF OneInv, LeftOnce
    <3>3. pc[t] = "save" /\ job[t] # None => OneRev(job[t].asset, NewRevs(t))
      BY NewRevsOnce
    <3> QED
      BY <1>0, <3>1, <3>2, <3>3, JobsStep
  <2> QED
    BY <1>0, <2>1 DEF OneRev
<1>3. ASSUME NEW t \in Threads, InFlight(t)'
      PROVE  Leftover(t)' = Leftover(t) /\ Brings(t)' = Brings(t)
  BY <1>0, <1>3, FlightStep DEF Leftover, Brings
<1>4. ASSUME NEW t \in Threads, Begin(t), NEW c \in Overlaps(t)
      PROVE  <<job[t].asset, c>> \in overlap'
  BY <1>4 DEF Begin
<1>5. SelfMarked'
  <2> SUFFICES ASSUME NEW t \in Threads, InFlight(t)', job'[t].content \in Leftover(t)'
               PROVE  <<job'[t].asset, job'[t].content>> \in overlap'
    BY DEF SelfMarked
  <2>1. job'[t].asset = job[t].asset /\ job'[t].content = job[t].content
        /\ job[t].content \in Leftover(t)
    BY <1>0, <1>3, FlightStep
  <2>2. CASE Begin(t)
    <3>1. job[t].content \in Overlaps(t)
      BY <2>1 DEF Overlaps
    <3> QED
      BY <1>4, <2>1, <2>2, <3>1
  <2>3. CASE InFlight(t)
    BY <1>0, <2>1, <2>3 DEF OneInv, SelfMarked
  <2> QED
    BY <1>0, <2>2, <2>3, FlightStep
<1>6. PairsMarked'
  <2> SUFFICES ASSUME NEW t \in Threads, NEW u \in Threads, t # u, InFlight(t)', InFlight(u)',
                      job'[t].asset = job'[u].asset,
                      NEW c \in Brings(t)' \cap Brings(u)'
               PROVE  <<job'[t].asset, c>> \in overlap'
    BY DEF PairsMarked
  <2>1. job'[t].asset = job[t].asset /\ job'[u].asset = job[u].asset
        /\ job[t].asset = job[u].asset /\ c \in Brings(t) \cap Brings(u)
    BY <1>0, <1>3, FlightStep
  <2>2. Begin(t) \/ InFlight(t)
    BY <1>0, FlightStep
  <2>3. Begin(u) \/ InFlight(u)
    BY <1>0, FlightStep
  <2>4. ~(Begin(t) /\ Begin(u))
    BY <1>0 DEF Begin, Goto, DataOK
  <2>5. CASE Begin(t) /\ InFlight(u)
    <3>1. c \in Overlaps(t)
      BY <2>1, <2>5 DEF Overlaps
    <3> QED
      BY <1>4, <2>1, <2>5, <3>1
  <2>6. CASE InFlight(t) /\ Begin(u)
    <3>1. c \in Overlaps(u)
      BY <2>1, <2>6 DEF Overlaps
    <3> QED
      BY <1>4, <2>1, <2>6, <3>1
  <2>7. CASE InFlight(t) /\ InFlight(u)
    BY <1>0, <2>1, <2>7 DEF OneInv, PairsMarked
  <2> QED
    BY <2>2, <2>3, <2>4, <2>5, <2>6, <2>7
<1>7. SeenOrMarked'
  <2> SUFFICES ASSUME NEW t \in Threads, pc'[t] \in {"stage", "place", "save"},
                      (job[t].content \in Holding(Revs(Loaded(job[t].asset))))'
               PROVE  \/ SizeOf[job'[t].content] \in job'[t].seen
                      \/ <<job'[t].asset, job'[t].content>> \in overlap'
    BY DEF SeenOrMarked
  <2>1. InFlight(t)'
    BY DEF InFlight
  <2>2. job[t] # None
    BY <1>0, <2>1, FlightStep
  <2> PICK a \in Assets, c \in Contents : job[t].asset = a /\ job[t].content = c
    BY <1>0, <2>2, JobFields
  <2>3. job'[t].asset = a /\ job'[t].content = c /\ c \in Holding(Revs(Loaded(a)))'
    BY <1>0, <2>1, FlightStep DEF Holding, Revs, Loaded
  <2>4. CASE Begin(t)
    <3>1. LoadAsset(a) /\ db' = db
      BY <2>4 DEF Begin
    <3>2. hot'[a] = Loaded(a)
      BY <1>0, <3>1, LoadOK
    <3>3. Revs(Loaded(a))' = Revs(Loaded(a))
      BY <3>1, <3>2 DEF Loaded, Revs
    <3>4. c \in Holding(Revs(Loaded(a)))
      BY <2>3, <3>3 DEF Holding
    <3>5. job'[t].seen = {SizeOf[Revs(Loaded(a))[i]] : i \in DOMAIN Revs(Loaded(a))}
      <4>1. job[t] \in Job
        BY <1>0, <2>2, JobFields
      <4>2. job' = [job EXCEPT ![t].seen =
                      {SizeOf[Revs(Loaded(a))[i]] : i \in DOMAIN Revs(Loaded(a))}]
        BY <2>4 DEF Begin
      <4> QED
        BY <1>0, <4>1, <4>2 DEF DataOK, Job
    <3> QED
      BY <2>3, <3>4, <3>5 DEF Holding
  <2>5. CASE ~Begin(t)
    <3>1. /\ InFlight(t) /\ pc[t] \in {"stage", "place", "save"}
          /\ job'[t].seen = job[t].seen /\ ~Save(t) /\ ~SaveFails(t)
      BY <1>0, <2>1, <2>5, FlightStep
    <3>2. c \in Holding(Revs(Loaded(a))')
      BY <2>3 DEF Holding
    <3>3. CASE c \in Holding(Revs(Loaded(a)))
      BY <1>0, <2>3, <3>1, <3>3 DEF OneInv, SeenOrMarked
    <3>4. ASSUME NEW u \in Threads, Save(u) \/ SaveFails(u), pc[u] = "save",
                 job[u].asset = a, c \in Brings(u)
          PROVE  <<a, c>> \in overlap
      <4>1. u # t /\ InFlight(u)
        BY <3>1, <3>4 DEF InFlight
      <4>2. c \in Brings(t)
        BY DEF Brings
      <4> QED
        BY <3>1, <3>4, <4>1, <4>2 DEF OneInv, PairsMarked
    <3>5. \A u \in Threads : pc[u] = "save" /\ job[u] # None
             => Holding(NewRevs(u)) \subseteq Holding(Revs(Loaded(job[u].asset))) \cup Brings(u)
      BY NewRevsOnce
    <3>6. \/ c \in Holding(Revs(Loaded(a)))
          \/ \E u \in Threads : /\ Save(u) \/ SaveFails(u)
                                /\ pc[u] = "save" /\ job[u].asset = a
                                /\ c \in Brings(u)
      BY <1>0, <3>2, <3>5, LoadedStep
    <3> QED
      BY <1>0, <2>3, <3>3, <3>4, <3>6
  <2> QED
    BY <2>4, <2>5
<1> QED
  BY <1>0, <1>1, <1>2, <1>5, <1>6, <1>7 DEF OneInv

\* An asset has one revision per content, unless puts of the content overlapped
\* or brought back the object of a failed first put.
THEOREM OneRevision == Spec => []OneRevisionPerContent
<1>1. OneInv => OneRevisionPerContent
  BY DEF OneInv, StoredOnce, OneRev, Revs, OneRevisionPerContent
<1> QED
  BY OneInit, OneStep, <1>1, PTL DEF Spec
=============================================================================
