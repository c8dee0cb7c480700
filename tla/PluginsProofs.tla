----------------------------- MODULE PluginsProofs -----------------------------
(***************************************************************************)
(* For any callers, plugins and node types: what is disabled stays out,    *)
(* what is unloaded leaves nothing behind and what is loaded has its       *)
(* nodes, in the situations in which the code keeps that at all: the       *)
(* history variables of Plugins say in which others it does not.           *)
(***************************************************************************)
EXTENDS Plugins, TLAPS

\* from the mark to the entry in _loaded
LoadPhase == {"snapshot", "import", "module", "register", "body", "attribute",
              "hook", "finish", "failed", "rollback"}

\* What a call relies on: which lock it holds, that its plugin is marked as
\* loading or is loaded, and which of its local variables are in use.
CallsOK ==
    \A t \in Threads :
        /\ pc[t] = "idle" <=> plugin[t] = None
        /\ pc[t] \in {"unhook", "unload"} <=> lock = t
        /\ pc[t] \in {"module", "register", "body"} <=> importLock = t
        /\ pc[t] \in LoadPhase => plugin[t] \in loading
        /\ pc[t] \in {"unhook", "unload"} => plugin[t] \in loaded
        /\ next[t] # 0
        /\ pc[t] \in {"idle", "mark", "snapshot", "import"} => next[t] = 1
        /\ pc[t] \in {"register", "body"} => next[t] <= Len(Provides[plugin[t]])
        /\ todo[t] # {} => pc[t] \in {"hook", "finish", "rollback", "failed", "unload"}
        /\ current[t] # None => Unregistering(t)

\* A plugin that is marked is loaded by one thread.
OneLoader ==
    /\ \A t, u \in Threads :
          pc[t] \in LoadPhase /\ pc[u] \in LoadPhase /\ plugin[t] = plugin[u] => t = u
    /\ \A p \in loading : \E t \in Threads : pc[t] \in LoadPhase /\ plugin[t] = p

CallInv == TypeOK /\ CallsOK /\ OneLoader

\* A plugin under way or loaded is enabled, or was disabled after load had
\* looked, or could not be unloaded, or is being unloaded.
EnabledInv ==
    /\ CallInv
    /\ \A p \in PluginNames : Underway(p) => enabled[p] \/ p \in escaped
    /\ \A p \in loaded :
          enabled[p] \/ p \in escaped \/ \E t \in Threads : lock = t /\ plugin[t] = p

-----------------------------------------------------------------------------
(* Typing, locks and who loads what *)

LEMMA CallInit == Init => CallInv
<1> SUFFICES ASSUME Init PROVE CallInv
  OBVIOUS
<1>1. TypeOK
  BY DEF Init, TypeOK, Labels
<1>2. CallsOK /\ OneLoader
  BY NoneAssumption DEF Init, CallsOK, OneLoader, LoadPhase
<1> QED
  BY <1>1, <1>2 DEF CallInv

LEMMA ModuleType ==
  ASSUME CallInv, NEW t \in Threads, pc[t] # "idle", next[t] <= Len(Provides[plugin[t]])
  PROVE  /\ plugin[t] \in PluginNames
         /\ Module(t) \in PluginNames \X Nat
         /\ ModuleKey(t) \in Names
         /\ Provided(t) \in Types
<1>1. plugin[t] \in PluginNames /\ next[t] \in Nat \ {0}
  BY DEF CallInv, CallsOK, TypeOK
<1>2. next[t] \in DOMAIN Provides[plugin[t]]
  BY <1>1, ProvidesAssumption
<1> QED
  BY <1>1, <1>2, ProvidesAssumption, ModNameAssumption DEF Module, ModuleKey, Provided

LEMMA CallStep == CallInv /\ [Next]_vars => CallInv'
<1> SUFFICES ASSUME CallInv, [Next]_vars PROVE CallInv'
  OBVIOUS
<1> USE NoneAssumption
        DEF CallInv, TypeOK, Labels, CallsOK, OneLoader, LoadPhase, Unregistering, Goto,
            manager, registry, locks, local, history
<1>1. ASSUME NEW t \in Threads, NEW p \in PluginNames, Check(t, p) PROVE CallInv'
  BY <1>1 DEF Check
<1>2. ASSUME NEW t \in Threads, NEW p \in PluginNames, Unload(t, p) PROVE CallInv'
  BY <1>2 DEF Unload, BeginUnload
<1>3. ASSUME NEW t \in Threads, NEW p \in PluginNames, Disable(t, p) PROVE CallInv'
  <2>1. CASE p \in loaded
    <3>1. /\ pc[t] = "idle" /\ lock = None
          /\ enabled' = [enabled EXCEPT ![p] = FALSE]
          /\ lock' = t
          /\ pc' = [pc EXCEPT ![t] = "unhook"]
          /\ plugin' = [plugin EXCEPT ![t] = p]
          /\ UNCHANGED <<loading, loaded, record, index, bus, imported, importLock,
                         next, before, todo, current>>
      BY <1>3, <2>1 DEF Disable, BeginUnload
    <3>2. TypeOK'
      BY <3>1
    <3>3. CallsOK'
      BY <2>1, <3>1
    <3>4. OneLoader'
      BY <3>1
    <3> QED
      BY <3>2, <3>3, <3>4
  <2>2. CASE p \notin loaded
    BY <1>3, <2>2 DEF Disable
  <2> QED
    BY <2>1, <2>2
<1>4. ASSUME NEW t \in Threads, NEW p \in PluginNames, Enable(t, p) PROVE CallInv'
  BY <1>4 DEF Enable
<1>5. ASSUME NEW t \in Threads, Mark(t) PROVE CallInv'
  BY <1>5 DEF Mark, Free
<1>6. ASSUME NEW t \in Threads, AlreadyLoaded(t) PROVE CallInv'
  <2>1. TypeOK'
    BY <1>6 DEF AlreadyLoaded, Done
  <2>2. CallsOK'
    BY <1>6 DEF AlreadyLoaded, Done
  <2>3. /\ pc[t] = "mark" /\ UNCHANGED loading
        /\ pc' = [pc EXCEPT ![t] = "idle"]
        /\ plugin' = [plugin EXCEPT ![t] = None]
    BY <1>6 DEF AlreadyLoaded, Done
  <2>4. /\ \A u \in Threads : pc'[u] \in LoadPhase <=> pc[u] \in LoadPhase
        /\ \A u \in Threads : pc[u] \in LoadPhase => plugin'[u] = plugin[u]
    BY <2>3
  <2>5. OneLoader'
    <3> HIDE DEF TypeOK, CallsOK, LoadPhase
    <3> QED
      BY <2>3, <2>4
  <2> QED
    BY <2>1, <2>2, <2>5
<1>7. ASSUME NEW t \in Threads, Snapshot(t) PROVE CallInv'
  BY <1>7 DEF Snapshot, OnBus
<1>8. ASSUME NEW t \in Threads, BeginImport(t) PROVE CallInv'
  BY <1>8 DEF BeginImport
<1>9. ASSUME NEW t \in Threads, KnownModule(t) PROVE CallInv'
  BY <1>9 DEF KnownModule, HasModule
<1>10. ASSUME NEW t \in Threads, IndexClass(t) PROVE CallInv'
  BY <1>10, ModuleType DEF IndexClass, HasModule
<1>11. ASSUME NEW t \in Threads, RegisterClass(t) PROVE CallInv'
  BY <1>11, ModuleType DEF RegisterClass
<1>12. ASSUME NEW t \in Threads, ModuleEnds(t) PROVE CallInv'
  BY <1>12, ModuleType DEF ModuleEnds
<1>13. ASSUME NEW t \in Threads, ModuleRaises(t) PROVE CallInv'
  BY <1>13 DEF ModuleRaises, HasModule
<1>14. ASSUME NEW t \in Threads, LastModule(t) PROVE CallInv'
  BY <1>14 DEF LastModule
<1>15. ASSUME NEW t \in Threads, Attribute(t) PROVE CallInv'
  BY <1>15 DEF Attribute, NewTypes, OnBus
<1>16. ASSUME NEW t \in Threads, HookSucceeds(t) PROVE CallInv'
  BY <1>16 DEF HookSucceeds
<1>17. ASSUME NEW t \in Threads, HookFails(t) PROVE CallInv'
  BY <1>17 DEF HookFails
<1>18. ASSUME NEW t \in Threads, Discard(t) PROVE CallInv'
  BY <1>18 DEF Discard, Done
<1>19. ASSUME NEW t \in Threads, Finish(t) PROVE CallInv'
  BY <1>19 DEF Finish, Done
<1>20. ASSUME NEW t \in Threads, TakeOff(t) PROVE CallInv'
  BY <1>20 DEF TakeOff
<1>21. ASSUME NEW t \in Threads, DropClass(t) PROVE CallInv'
  BY <1>21 DEF DropClass, Drop
<1>22. ASSUME NEW t \in Threads, RolledBack(t) PROVE CallInv'
  BY <1>22 DEF RolledBack
<1>23. ASSUME NEW t \in Threads, Unloaded(t) PROVE CallInv'
  BY <1>23 DEF Unloaded, Done
<1>24. ASSUME NEW t \in Threads, HookRaises(t) PROVE CallInv'
  BY <1>24 DEF HookRaises
<1>25. ASSUME NEW t \in Threads, UnloadHook(t) PROVE CallInv'
  BY <1>25 DEF UnloadHook
<1>26. ASSUME NEW t \in Threads, UnloadRaises(t) PROVE CallInv'
  BY <1>26 DEF UnloadRaises, Done
<1>27. CASE UNCHANGED vars
  BY <1>27 DEF vars
<1> QED
  BY <1>1, <1>2, <1>3, <1>4, <1>5, <1>6, <1>7, <1>8, <1>9, <1>10, <1>11, <1>12, <1>13,
     <1>14, <1>15, <1>16, <1>17, <1>18, <1>19, <1>20, <1>21, <1>22, <1>23, <1>24, <1>25, <1>26,
     <1>27 DEF Next

\* The manager's tables stay well typed, and no plugin is ever loaded and
\* marked as loading at once: the roll-back of the third phase cannot run.
THEOREM TypeCorrect == Spec => []TypeOK
<1>1. CallInv => TypeOK
  BY DEF CallInv
<1> QED
  BY CallInit, CallStep, <1>1, PTL DEF Spec

-----------------------------------------------------------------------------
(* Disabled plugins *)

LEMMA EnabledInit == Init => EnabledInv
<1> SUFFICES ASSUME Init PROVE EnabledInv
  OBVIOUS
<1>1. CallInv
  BY CallInit
<1> QED
  BY <1>1 DEF Init, EnabledInv

\* A step that neither begins a load nor ends one, nor disables anything.
LEMMA EnabledKept ==
  ASSUME EnabledInv, CallInv', UNCHANGED <<enabled, loaded, lock, plugin, escaped>>,
         \A t \in Threads :
            pc[t] \in {"unhook", "unload"} => pc'[t] \in {"unhook", "unload"}
  PROVE  EnabledInv'
  BY DEF EnabledInv, Underway

LEMMA EnabledStep == EnabledInv /\ [Next]_vars => EnabledInv'
<1> SUFFICES ASSUME EnabledInv, [Next]_vars PROVE EnabledInv'
  OBVIOUS
<1>0. CallInv /\ CallInv'
  BY CallStep DEF EnabledInv
<1> USE <1>0, NoneAssumption
        DEF CallInv, TypeOK, CallsOK, Goto, manager, registry, locks, local, history
<1>1. ASSUME NEW t \in Threads, NEW p \in PluginNames, Check(t, p) PROVE EnabledInv'
  BY <1>1 DEF Check, EnabledInv, Underway
<1>2. ASSUME NEW t \in Threads, NEW p \in PluginNames, Unload(t, p) PROVE EnabledInv'
  BY <1>2 DEF Unload, BeginUnload, EnabledInv, Underway
<1>3. ASSUME NEW t \in Threads, NEW p \in PluginNames, Disable(t, p) PROVE EnabledInv'
  <2>1. CASE p \in loaded
    BY <1>3, <2>1 DEF Disable, BeginUnload, EnabledInv, Underway
  <2>2. CASE p \notin loaded
    BY <1>3, <2>2 DEF Disable, EnabledInv, Underway
  <2> QED
    BY <2>1, <2>2
<1>4. ASSUME NEW t \in Threads, NEW p \in PluginNames, Enable(t, p) PROVE EnabledInv'
  BY <1>4 DEF Enable, EnabledInv, Underway
<1>5. ASSUME NEW t \in Threads, Mark(t) PROVE EnabledInv'
  BY <1>5, EnabledKept DEF Mark
<1>6. ASSUME NEW t \in Threads, AlreadyLoaded(t) PROVE EnabledInv'
  BY <1>6 DEF AlreadyLoaded, Done, EnabledInv, Underway
<1>7. ASSUME NEW t \in Threads, Snapshot(t) PROVE EnabledInv'
  BY <1>7, EnabledKept DEF Snapshot
<1>8. ASSUME NEW t \in Threads, BeginImport(t) PROVE EnabledInv'
  BY <1>8, EnabledKept DEF BeginImport
<1>9. ASSUME NEW t \in Threads, KnownModule(t) PROVE EnabledInv'
  BY <1>9, EnabledKept DEF KnownModule
<1>10. ASSUME NEW t \in Threads, IndexClass(t) PROVE EnabledInv'
  BY <1>10, EnabledKept DEF IndexClass, HasModule
<1>11. ASSUME NEW t \in Threads, RegisterClass(t) PROVE EnabledInv'
  BY <1>11, EnabledKept DEF RegisterClass
<1>12. ASSUME NEW t \in Threads, ModuleEnds(t) PROVE EnabledInv'
  BY <1>12, EnabledKept DEF ModuleEnds
<1>13. ASSUME NEW t \in Threads, ModuleRaises(t) PROVE EnabledInv'
  BY <1>13, EnabledKept DEF ModuleRaises, HasModule
<1>14. ASSUME NEW t \in Threads, LastModule(t) PROVE EnabledInv'
  BY <1>14, EnabledKept DEF LastModule
<1>15. ASSUME NEW t \in Threads, Attribute(t) PROVE EnabledInv'
  BY <1>15, EnabledKept DEF Attribute
<1>16. ASSUME NEW t \in Threads, HookSucceeds(t) PROVE EnabledInv'
  BY <1>16, EnabledKept DEF HookSucceeds
<1>17. ASSUME NEW t \in Threads, HookFails(t) PROVE EnabledInv'
  BY <1>17, EnabledKept DEF HookFails
<1>18. ASSUME NEW t \in Threads, Discard(t) PROVE EnabledInv'
  BY <1>18 DEF Discard, Done, EnabledInv, Underway
<1>19. ASSUME NEW t \in Threads, Finish(t) PROVE EnabledInv'
  BY <1>19 DEF Finish, Done, EnabledInv, Underway
<1>20. ASSUME NEW t \in Threads, TakeOff(t) PROVE EnabledInv'
  BY <1>20, EnabledKept DEF TakeOff
<1>21. ASSUME NEW t \in Threads, DropClass(t) PROVE EnabledInv'
  BY <1>21, EnabledKept DEF DropClass
<1>22. ASSUME NEW t \in Threads, RolledBack(t) PROVE EnabledInv'
  BY <1>22, EnabledKept DEF RolledBack
<1>23. ASSUME NEW t \in Threads, Unloaded(t) PROVE EnabledInv'
  BY <1>23 DEF Unloaded, Done, EnabledInv, Underway
<1>24. ASSUME NEW t \in Threads, HookRaises(t) PROVE EnabledInv'
  BY <1>24, EnabledKept DEF HookRaises
<1>25. ASSUME NEW t \in Threads, UnloadHook(t) PROVE EnabledInv'
  BY <1>25, EnabledKept DEF UnloadHook
<1>26. ASSUME NEW t \in Threads, UnloadRaises(t) PROVE EnabledInv'
  BY <1>26 DEF UnloadRaises, Done, EnabledInv, Underway
<1>27. CASE UNCHANGED vars
  BY <1>27, EnabledKept DEF vars
<1> QED
  BY <1>1, <1>2, <1>3, <1>4, <1>5, <1>6, <1>7, <1>8, <1>9, <1>10, <1>11, <1>12, <1>13,
     <1>14, <1>15, <1>16, <1>17, <1>18, <1>19, <1>20, <1>21, <1>22, <1>23, <1>24, <1>25, <1>26,
     <1>27 DEF Next

\* A plugin that is loaded is enabled, however disable races with the three
\* sections of load, unless it was disabled after load had looked or its
\* on_unload could not be imported.
THEOREM DisabledOut == Spec => []DisabledStaysOut
<1>1. EnabledInv => DisabledStaysOut
  BY NoneAssumption DEF EnabledInv, DisabledStaysOut
<1> QED
  BY EnabledInit, EnabledStep, <1>1, PTL DEF Spec

-----------------------------------------------------------------------------
(* What is left behind *)

Dirty(y)   == bus[y] # None \/ index[y] # None
Blurred    == failed \cup overlapped
Halfway(t) == pc[t] = "register"

\* As long as a plugin's loads overlapped with no other, only calls about it
\* have its own types in hand, only its record names them, and whoever takes
\* stock of the bus meanwhile has seen them before.
OwnApart ==
    \A p \in PluginNames \ overlapped : \A y \in Own(p) :
        /\ \A q \in PluginNames : y \in record[q] => q = p
        /\ \A t \in Threads : y \in todo[t] \/ y = current[t] => plugin[t] = p
        /\ \A t \in Threads : Watching(t) /\ plugin[t] # p /\ bus[y] # None => y \in before[t]

\* Whatever a call has put on the bus or into the index, it will find when it
\* takes stock, or has found and will record or unregister.
Traced(t) ==
    \A y \in Own(plugin[t]) :
        /\ pc[t] \in {"snapshot", "failed"} => ~Dirty(y)
        /\ Watching(t) =>
              /\ y \notin before[t]
              /\ bus[y] = None /\ index[y] # None => Halfway(t) /\ y = Provided(t)
        /\ pc[t] \in {"hook", "finish"} /\ Dirty(y) => y \in todo[t]
        /\ Unregistering(t) /\ Dirty(y) => y \in todo[t] \/ y = current[t]
        /\ Unregistering(t) /\ y = current[t] => bus[y] = None

Engaged(t) == pc[t] \in LoadPhase \cup {"unload"}

CallTraced == \A t \in Threads : Engaged(t) /\ plugin[t] \notin Blurred => Traced(t)

\* A loaded plugin has recorded what there is of it.
LoadedTraced ==
    \A p \in loaded \ Blurred : \A y \in Own(p) : Dirty(y) => y \in record[p]

\* Of the others nothing is there.
RestClean ==
    \A p \in PluginNames \ (loaded \cup loading \cup Blurred) : \A y \in Own(p) : ~Dirty(y)

TracedInv == CallInv /\ OwnApart /\ CallTraced /\ LoadedTraced /\ RestClean

\* An own type belongs to one plugin, the one that provides it.
LEMMA OwnType ==
  /\ \A p \in PluginNames : \A y \in Own(p) : y \in Types /\ y # None
  /\ \A p, q \in PluginNames : \A y \in Own(p) : y \in Own(q) => p = q
  BY NoneAssumption DEF Own

LEMMA OwnProvided ==
  ASSUME CallInv, NEW t \in Threads, pc[t] # "idle", next[t] <= Len(Provides[plugin[t]]),
         NEW p \in PluginNames, Provided(t) \in Own(p)
  PROVE  p = plugin[t]
<1>1. plugin[t] \in PluginNames /\ next[t] \in Nat \ {0}
  BY DEF CallInv, CallsOK, TypeOK
<1>2. Provided(t) \in Range(Provides[plugin[t]])
  BY <1>1, ProvidesAssumption DEF Provided, Range
<1> QED
  BY <1>1, <1>2 DEF Own

\* The thread that loads or unloads a plugin does so alone.
LEMMA AloneOn ==
  ASSUME CallInv, NEW t \in Threads, NEW u \in Threads,
         pc[t] \in LoadPhase \cup {"unload"}, pc[u] \in LoadPhase \cup {"unload"},
         plugin[t] = plugin[u]
  PROVE  t = u
<1>1. plugin[t] \in loading \/ plugin[t] \in loaded
  BY DEF CallInv, CallsOK
<1>2. CASE pc[t] \in LoadPhase
  <2>1. pc[u] \in LoadPhase
    BY <1>2 DEF CallInv, CallsOK, TypeOK
  <2> QED
    BY <1>2, <2>1 DEF CallInv, OneLoader
<1>3. CASE pc[t] = "unload"
  <2>1. pc[u] = "unload"
    BY <1>3 DEF CallInv, CallsOK, TypeOK
  <2> QED
    BY <1>3, <2>1 DEF CallInv, CallsOK
<1> QED
  BY <1>2, <1>3

LEMMA TracedInit == Init => TracedInv
<1> SUFFICES ASSUME Init PROVE TracedInv
  OBVIOUS
<1>1. CallInv
  BY CallInit
<1>2. \A p \in PluginNames : \A y \in Own(p) : ~Dirty(y)
  BY OwnType DEF Init, Dirty
<1>3. OwnApart
  BY OwnType DEF Init, OwnApart
<1>4. CallTraced /\ LoadedTraced
  BY DEF Init, CallTraced, Engaged, LoadPhase, LoadedTraced
<1> QED
  BY <1>1, <1>2, <1>3, <1>4 DEF TracedInv, RestClean

\* A step that only moves calls on from one stage to the next.
LEMMA TracedKept ==
  ASSUME TracedInv, CallInv',
         UNCHANGED <<index, bus, record, loaded, loading, before, todo, current, plugin,
                     overlapped>>,
         failed \subseteq failed',
         \A t \in Threads :
            \/ pc'[t] = pc[t] /\ (Halfway(t) => next'[t] = next[t])
            \/ Watching(t) /\ Watching(t)' /\ ~Halfway(t)
            \/ pc[t] = "hook" /\ pc'[t] \in {"finish", "rollback"}
            \/ pc[t] = "rollback" /\ pc'[t] = "failed" /\ todo[t] = {} /\ current[t] = None
            \/ pc'[t] = "failed" /\ plugin[t] \in failed'
  PROVE  TracedInv'
<1> USE DEF TracedInv
<1>1. OwnApart'
  <2>1. \A t \in Threads : Watching(t)' => Watching(t)
    BY DEF Watching
  <2> QED
    BY <2>1 DEF OwnApart, Watching
<1>2. ASSUME NEW t \in Threads, Engaged(t)', plugin[t] \notin Blurred' PROVE Traced(t)'
  <2> SUFFICES ASSUME NEW y \in Own(plugin[t])
               PROVE  /\ pc'[t] \in {"snapshot", "failed"} => ~Dirty(y)
                      /\ Watching(t)' =>
                            /\ y \notin before[t]
                            /\ bus[y] = None /\ index[y] # None
                                  => Halfway(t)' /\ y = Provided(t)'
                      /\ pc'[t] \in {"hook", "finish"} /\ Dirty(y) => y \in todo[t]
                      /\ Unregistering(t)' /\ Dirty(y) => y \in todo[t] \/ y = current[t]
                      /\ Unregistering(t)' /\ y = current[t] => bus[y] = None
    BY DEF Traced, Dirty
  <2>1. plugin[t] \notin Blurred /\ ~(pc'[t] = "failed" /\ plugin[t] \in failed')
    BY <1>2 DEF Blurred
  <2>2. plugin[t] \in PluginNames /\ y # None
    BY <1>2, OwnType DEF CallInv, CallsOK, TypeOK, Engaged, LoadPhase
  <2>3. CASE pc'[t] = pc[t] /\ (Halfway(t) => next'[t] = next[t])
    BY <1>2, <2>1, <2>3 DEF CallTraced, Traced, Engaged, Watching, Halfway, Provided, Unregistering
  <2>4. CASE Watching(t) /\ Watching(t)' /\ ~Halfway(t)
    <3>1. y \notin before[t] /\ ~(bus[y] = None /\ index[y] # None)
      BY <1>2, <2>1, <2>4 DEF CallTraced, Traced, Engaged, LoadPhase, Watching
    <3> QED
      BY <2>4, <3>1 DEF Watching, Unregistering
  <2>5. CASE pc[t] = "hook" /\ pc'[t] \in {"finish", "rollback"}
    <3>1. (Dirty(y) => y \in todo[t]) /\ current[t] = None
      BY <1>2, <2>1, <2>5 DEF CallTraced, Traced, Engaged, LoadPhase, CallInv, CallsOK, Unregistering
    <3> QED
      BY <2>2, <2>5, <3>1 DEF Watching
  <2>6. CASE pc[t] = "rollback" /\ pc'[t] = "failed" /\ todo[t] = {} /\ current[t] = None
    <3>1. ~Dirty(y)
      BY <1>2, <2>1, <2>2, <2>6 DEF CallTraced, Traced, Engaged, LoadPhase, Unregistering
    <3> QED
      BY <2>6, <3>1 DEF Watching, Unregistering
  <2> QED
    BY <2>1, <2>3, <2>4, <2>5, <2>6
<1>3. CallTraced'
  BY <1>2 DEF CallTraced
<1>4. LoadedTraced' /\ RestClean'
  BY DEF LoadedTraced, RestClean, Dirty, Blurred
<1> QED
  BY <1>1, <1>3, <1>4

\* A call that does not move, and whose own types nobody touches.
LEMMA TracedOther ==
  ASSUME TracedInv, NEW u \in Threads, Engaged(u), plugin[u] \notin Blurred,
         UNCHANGED <<pc[u], plugin[u], next[u], before[u], todo[u], current[u]>>,
         \A y \in Own(plugin[u]) : UNCHANGED <<bus[y], index[y]>>
  PROVE  Traced(u)'
<1>1. Traced(u)
  BY DEF TracedInv, CallTraced
<1> QED
  BY <1>1 DEF Traced, Dirty, Watching, Halfway, Provided, Unregistering

\* Two calls that are engaged with different plugins have different own types.
LEMMA EngagedApart ==
  ASSUME CallInv, NEW t \in Threads, NEW u \in Threads, Engaged(t), Engaged(u), t # u
  PROVE  plugin[t] # plugin[u] /\ plugin[t] \in PluginNames /\ plugin[u] \in PluginNames
  BY AloneOn DEF Engaged, LoadPhase, CallInv, CallsOK, TypeOK

\* A call begins with nothing in hand.
LEMMA BeginTraced ==
  ASSUME TracedInv, CallInv', NEW t \in Threads, NEW p \in PluginNames, pc[t] = "idle",
         NEW label \in {"mark", "unhook"}, Goto(t, label),
         plugin' = [plugin EXCEPT ![t] = p],
         UNCHANGED <<loading, loaded, record, registry, next, before, todo, current,
                     overlapped, failed>>
  PROVE  TracedInv'
<1>1. /\ pc' = [pc EXCEPT ![t] = label]
      /\ UNCHANGED <<index, bus>>
  BY DEF Goto, registry
<1>2. todo[t] = {} /\ current[t] = None
  BY DEF TracedInv, CallInv, CallsOK, TypeOK, Unregistering
<1>3. OwnApart'
  BY <1>1, <1>2, OwnType DEF TracedInv, OwnApart, Watching, CallInv, TypeOK
<1>4. CallTraced'
  <2>1. ASSUME NEW u \in Threads, Engaged(u)', plugin'[u] \notin Blurred' PROVE Traced(u)'
    <3>1. u # t
      BY <1>1, <2>1 DEF Engaged, LoadPhase, TracedInv, CallInv, TypeOK
    <3> QED
      BY <1>1, <2>1, <3>1, TracedOther DEF Engaged, Blurred, TracedInv, CallInv, TypeOK
  <2> QED
    BY <2>1 DEF CallTraced
<1>5. LoadedTraced' /\ RestClean'
  BY <1>1 DEF TracedInv, LoadedTraced, RestClean, Dirty, Blurred
<1> QED
  BY <1>3, <1>4, <1>5 DEF TracedInv

\* A call that was not engaged is over.
LEMMA IdleTraced ==
  ASSUME TracedInv, CallInv', NEW t \in Threads, ~Engaged(t), Done(t),
         UNCHANGED <<loading, loaded, record, index, bus, overlapped, failed>>
  PROVE  TracedInv'
<1>1. /\ pc' = [pc EXCEPT ![t] = "idle"]
      /\ plugin' = [plugin EXCEPT ![t] = None]
      /\ next' = [next EXCEPT ![t] = 1]
      /\ before' = [before EXCEPT ![t] = {}]
      /\ todo' = [todo EXCEPT ![t] = {}]
      /\ current' = [current EXCEPT ![t] = None]
  BY DEF Done
<1>2. OwnApart'
  BY <1>1, OwnType DEF TracedInv, OwnApart, Watching, CallInv, TypeOK
<1>3. CallTraced'
  <2>1. ASSUME NEW u \in Threads, Engaged(u)', plugin'[u] \notin Blurred' PROVE Traced(u)'
    <3>1. u # t
      BY <1>1, <2>1 DEF Engaged, LoadPhase, TracedInv, CallInv, TypeOK
    <3> QED
      BY <1>1, <2>1, <3>1, TracedOther DEF Engaged, Blurred, TracedInv, CallInv, TypeOK
  <2> QED
    BY <2>1 DEF CallTraced
<1>4. LoadedTraced' /\ RestClean'
  BY <1>1 DEF TracedInv, LoadedTraced, RestClean, Dirty, Blurred
<1> QED
  BY <1>2, <1>3, <1>4 DEF TracedInv

\* A call that is over has nothing in hand.
LEMMA OverTraced ==
  ASSUME TracedInv, NEW t \in Threads, Engaged(t), Done(t),
         UNCHANGED <<index, bus, overlapped, failed>>
  PROVE  /\ record' = record \/ record' = [record EXCEPT ![plugin[t]] = todo[t]] => OwnApart'
         /\ CallTraced'
         /\ loaded' = loaded /\ record' = record => LoadedTraced'
<1>1. /\ pc' = [pc EXCEPT ![t] = "idle"]
      /\ plugin' = [plugin EXCEPT ![t] = None]
      /\ next' = [next EXCEPT ![t] = 1]
      /\ before' = [before EXCEPT ![t] = {}]
      /\ todo' = [todo EXCEPT ![t] = {}]
      /\ current' = [current EXCEPT ![t] = None]
  BY DEF Done
<1>2. CallInv /\ plugin[t] \in PluginNames
  BY DEF TracedInv, CallInv, CallsOK, TypeOK, Engaged, LoadPhase
<1>3. ASSUME record' = record \/ record' = [record EXCEPT ![plugin[t]] = todo[t]]
      PROVE  OwnApart'
  <2>1. ASSUME NEW p \in PluginNames \ overlapped, NEW y \in Own(p), NEW q \in PluginNames,
               y \in record'[q]
        PROVE  q = p
    BY <1>2, <1>3, <2>1 DEF TracedInv, OwnApart, CallInv, TypeOK
  <2>2. ASSUME NEW p \in PluginNames \ overlapped, NEW y \in Own(p), NEW u \in Threads
        PROVE  /\ y \in todo'[u] \/ y = current'[u] => plugin'[u] = p
               /\ Watching(u)' /\ plugin'[u] # p /\ bus'[y] # None => y \in before'[u]
    BY <1>1, <1>2, OwnType DEF TracedInv, OwnApart, Watching, CallInv, TypeOK
  <2> QED
    BY <2>1, <2>2 DEF OwnApart
<1>4. CallTraced'
  <2>1. ASSUME NEW u \in Threads, Engaged(u)', plugin'[u] \notin Blurred' PROVE Traced(u)'
    <3>1. u # t
      BY <1>1, <1>2, <2>1 DEF Engaged, LoadPhase, CallInv, TypeOK
    <3> QED
      BY <1>1, <1>2, <2>1, <3>1, TracedOther DEF Engaged, Blurred, CallInv, TypeOK
  <2> QED
    BY <2>1 DEF CallTraced
<1>5. loaded' = loaded /\ record' = record => LoadedTraced'
  BY DEF TracedInv, LoadedTraced, Dirty, Blurred
<1> QED
  BY <1>3, <1>4, <1>5

LEMMA TracedStep == TracedInv /\ [Next]_vars => TracedInv'
<1> SUFFICES ASSUME TracedInv, [Next]_vars PROVE TracedInv'
  OBVIOUS
<1>0. CallInv /\ CallInv'
  BY CallStep DEF TracedInv
<1> USE <1>0 DEF Goto, manager, registry, locks, local, history
<1>1. ASSUME NEW t \in Threads, NEW p \in PluginNames, Check(t, p) PROVE TracedInv'
  BY <1>1, BeginTraced DEF Check
<1>2. ASSUME NEW t \in Threads, NEW p \in PluginNames, Unload(t, p) PROVE TracedInv'
  BY <1>2, BeginTraced DEF Unload, BeginUnload
<1>3. ASSUME NEW t \in Threads, NEW p \in PluginNames, Disable(t, p) PROVE TracedInv'
  <2>1. CASE p \in loaded
    BY <1>3, <2>1, BeginTraced DEF Disable, BeginUnload
  <2>2. CASE p \notin loaded
    BY <1>3, <2>2, TracedKept DEF Disable
  <2> QED
    BY <2>1, <2>2
<1>4. ASSUME NEW t \in Threads, NEW p \in PluginNames, Enable(t, p) PROVE TracedInv'
  BY <1>4, TracedKept DEF Enable
<1>5. ASSUME NEW t \in Threads, Mark(t) PROVE TracedInv'
  <2>1. /\ pc[t] = "mark" /\ pc' = [pc EXCEPT ![t] = "snapshot"]
        /\ plugin[t] \notin loaded \cup loading
        /\ loading' = loading \cup {plugin[t]}
        /\ UNCHANGED <<loaded, record, index, bus, plugin, next, before, todo, current,
                       overlapped, failed>>
    BY <1>5 DEF Mark, Free
  <2>2. plugin[t] \in PluginNames
    BY <2>1 DEF CallInv, CallsOK, TypeOK
  <2>3. OwnApart'
    BY <2>1 DEF TracedInv, OwnApart, Watching, CallInv, TypeOK
  <2>4. plugin[t] \notin Blurred => Traced(t)'
    <3>1. ASSUME plugin[t] \notin Blurred, NEW y \in Own(plugin[t]) PROVE ~Dirty(y)
      BY <2>1, <2>2, <3>1 DEF TracedInv, RestClean
    <3>2. pc'[t] = "snapshot"
      BY <2>1 DEF CallInv, TypeOK
    <3> QED
      BY <2>1, <3>1, <3>2 DEF Traced, Dirty, Watching, Unregistering
  <2>5. CallTraced'
    <3>1. ASSUME NEW u \in Threads, u # t, Engaged(u)', plugin'[u] \notin Blurred'
          PROVE  Traced(u)'
      BY <2>1, <3>1, TracedOther DEF Engaged, Blurred, CallInv, TypeOK
    <3> QED
      BY <2>1, <2>4, <3>1 DEF CallTraced, Blurred
  <2>6. LoadedTraced' /\ RestClean'
    BY <2>1 DEF TracedInv, LoadedTraced, RestClean, Dirty, Blurred
  <2> QED
    BY <2>3, <2>5, <2>6 DEF TracedInv
<1>6. ASSUME NEW t \in Threads, AlreadyLoaded(t) PROVE TracedInv'
  <2>1. /\ Done(t) /\ ~Engaged(t)
        /\ UNCHANGED <<loaded, loading, record, index, bus, overlapped, failed>>
    BY <1>6 DEF AlreadyLoaded, Engaged, LoadPhase
  <2> QED
    BY <2>1, IdleTraced
<1>7. ASSUME NEW t \in Threads, Snapshot(t) PROVE TracedInv'
  <2>1. /\ pc[t] = "snapshot" /\ pc' = [pc EXCEPT ![t] = "import"]
        /\ before' = [before EXCEPT ![t] = OnBus]
        /\ UNCHANGED <<loaded, loading, record, index, bus, plugin, next, todo, current,
                       overlapped, failed>>
    BY <1>7 DEF Snapshot
  <2>2. OwnApart'
    BY <2>1, OwnType DEF TracedInv, OwnApart, OnBus, Watching, CallInv, TypeOK
  <2>3. plugin[t] \notin Blurred => Traced(t)'
    <3>1. ASSUME plugin[t] \notin Blurred, NEW y \in Own(plugin[t]) PROVE ~Dirty(y)
      BY <2>1, <3>1 DEF TracedInv, CallTraced, Traced, Engaged, LoadPhase
    <3>2. pc'[t] = "import" /\ before'[t] = OnBus
      BY <2>1 DEF CallInv, TypeOK
    <3> QED
      BY <2>1, <3>1, <3>2 DEF Traced, Dirty, OnBus, Unregistering
  <2>4. CallTraced'
    <3>1. ASSUME NEW u \in Threads, u # t, Engaged(u)', plugin'[u] \notin Blurred'
          PROVE  Traced(u)'
      BY <2>1, <3>1, TracedOther DEF Engaged, Blurred, CallInv, TypeOK
    <3> QED
      BY <2>1, <2>3, <3>1 DEF CallTraced, Blurred
  <2>5. LoadedTraced' /\ RestClean'
    BY <2>1 DEF TracedInv, LoadedTraced, RestClean, Dirty, Blurred
  <2> QED
    BY <2>2, <2>4, <2>5 DEF TracedInv
<1>8. ASSUME NEW t \in Threads, BeginImport(t) PROVE TracedInv'
  <2>1. \A u \in Threads : pc'[u] = pc[u] \/ (Watching(u) /\ Watching(u)' /\ ~Halfway(u))
    BY <1>8 DEF BeginImport, Watching, Halfway, CallInv, TypeOK
  <2> QED
    BY <1>8, <2>1, TracedKept DEF BeginImport
<1>9. ASSUME NEW t \in Threads, KnownModule(t) PROVE TracedInv'
  <2>1. \A u \in Threads : pc'[u] = pc[u] /\ (Halfway(u) => next'[u] = next[u])
    BY <1>9 DEF KnownModule, HasModule, Halfway, CallInv, TypeOK
  <2> QED
    BY <1>9, <2>1, TracedKept DEF KnownModule
<1>10. ASSUME NEW t \in Threads, IndexClass(t) PROVE TracedInv'
  <2>1. /\ pc[t] = "module" /\ pc' = [pc EXCEPT ![t] = "register"]
        /\ index' = [index EXCEPT ![Provided(t)] = plugin[t]]
        /\ next[t] <= Len(Provides[plugin[t]])
        /\ UNCHANGED <<loaded, loading, record, bus, plugin, next, before, todo, current,
                       overlapped, failed>>
    BY <1>10 DEF IndexClass, HasModule
  <2>2. /\ \A p \in PluginNames \ {plugin[t]} : \A y \in Own(p) : index'[y] = index[y]
        /\ plugin[t] \in loading /\ plugin[t] \in PluginNames
    BY <2>1, OwnProvided, OwnType DEF CallInv, CallsOK, TypeOK, LoadPhase
  <2>3. OwnApart'
    BY <2>1 DEF TracedInv, OwnApart, Watching, CallInv, TypeOK
  <2>4. plugin[t] \notin Blurred => Traced(t)'
    <3>1. ASSUME plugin[t] \notin Blurred, NEW y \in Own(plugin[t])
          PROVE  y \notin before[t] /\ (bus[y] = None /\ index[y] # None => Halfway(t) /\ y = Provided(t))
      BY <2>1, <3>1 DEF TracedInv, CallTraced, Traced, Engaged, LoadPhase, Watching
    <3>2. pc'[t] = "register" /\ Provided(t)' = Provided(t) /\ ~Halfway(t)
      BY <2>1 DEF Provided, Halfway, CallInv, TypeOK
    <3>3. \A y \in Own(plugin[t]) : y # Provided(t) => index'[y] = index[y]
      BY <2>1, <2>2, OwnType DEF CallInv, TypeOK
    <3> QED
      BY <2>1, <3>1, <3>2, <3>3 DEF Traced, Dirty, Halfway, Unregistering
  <2>5. CallTraced'
    <3>1. ASSUME NEW u \in Threads, u # t, Engaged(u)', plugin'[u] \notin Blurred'
          PROVE  Traced(u)'
      <4>1. Engaged(u) /\ Engaged(t)
        BY <2>1, <3>1 DEF Engaged, LoadPhase, CallInv, TypeOK
      <4>2. \A y \in Own(plugin[u]) : index'[y] = index[y]
        BY <2>2, <3>1, <4>1, EngagedApart
      <4> QED
        BY <2>1, <3>1, <4>1, <4>2, TracedOther DEF Blurred, CallInv, TypeOK
    <3> QED
      BY <2>1, <2>4, <3>1 DEF CallTraced, Blurred
  <2>6. LoadedTraced' /\ RestClean'
    <3>1. plugin[t] \notin loaded /\ loaded \subseteq PluginNames
      BY <2>2 DEF CallInv, TypeOK
    <3>2. LoadedTraced'
      BY <2>1, <2>2, <3>1 DEF TracedInv, LoadedTraced, Dirty, Blurred
    <3>3. RestClean'
      BY <2>1, <2>2, <3>1 DEF TracedInv, RestClean, Dirty, Blurred
    <3> QED
      BY <3>2, <3>3
  <2> QED
    BY <2>3, <2>5, <2>6 DEF TracedInv
<1>11. ASSUME NEW t \in Threads, RegisterClass(t) PROVE TracedInv'
  <2>1. /\ pc[t] = "register" /\ pc' = [pc EXCEPT ![t] = "body"]
        /\ bus' = [bus EXCEPT ![Provided(t)] = plugin[t]]
        /\ overlapped' = IF Disturbed(t) = {} THEN overlapped
                         ELSE overlapped \cup {plugin[u] : u \in Disturbed(t) \cup {t}}
        /\ UNCHANGED <<loaded, loading, record, index, plugin, next, before, todo, current,
                       failed>>
    BY <1>11 DEF RegisterClass
  <2>2. next[t] <= Len(Provides[plugin[t]]) /\ plugin[t] \in loading /\ plugin[t] \in PluginNames
    BY <2>1 DEF CallInv, CallsOK, TypeOK, LoadPhase
  <2>3. \A p \in PluginNames \ {plugin[t]} : \A y \in Own(p) : bus'[y] = bus[y]
    <3> SUFFICES ASSUME NEW p \in PluginNames \ {plugin[t]}, NEW y \in Own(p)
                 PROVE  bus'[y] = bus[y]
      OBVIOUS
    <3>1. y # Provided(t)
      BY <2>1, <2>2, OwnProvided
    <3>2. y \in Types /\ bus \in [Types -> PluginNames \cup {None}]
      BY OwnType DEF CallInv, TypeOK
    <3> QED
      BY <2>1, <3>1, <3>2
  <2>4. overlapped \subseteq overlapped' /\ Blurred \subseteq Blurred'
    BY <2>1 DEF Blurred
  <2>5. OwnApart'
    <3>1. ASSUME NEW p \in PluginNames \ overlapped', NEW y \in Own(p), NEW u \in Threads,
                 Watching(u)', plugin[u] # p, bus'[y] # None
          PROVE  y \in before[u]
      <4>1. Watching(u)
        BY <2>1, <3>1 DEF Watching, CallInv, TypeOK
      <4>2. CASE p = plugin[t]
        <5>1. u \in Disturbed(t)
          BY <3>1, <4>1, <4>2 DEF Disturbed
        <5>2. p \in overlapped'
          BY <2>1, <4>2, <5>1
        <5> QED
          BY <3>1, <5>2
      <4>3. CASE p # plugin[t]
        BY <2>3, <2>4, <3>1, <4>1, <4>3 DEF TracedInv, OwnApart
      <4> QED
        BY <4>2, <4>3
    <3> QED
      BY <2>1, <2>4, <3>1 DEF TracedInv, OwnApart
  <2>6. plugin[t] \notin Blurred => Traced(t)'
    <3>1. ASSUME plugin[t] \notin Blurred, NEW y \in Own(plugin[t])
          PROVE  y \notin before[t] /\ (bus[y] = None /\ index[y] # None => y = Provided(t))
      BY <2>1, <3>1 DEF TracedInv, CallTraced, Traced, Engaged, LoadPhase, Watching
    <3>2. pc'[t] = "body"
      BY <2>1 DEF CallInv, TypeOK
    <3>3. \A y \in Own(plugin[t]) :
             bus'[y] = IF y = Provided(t) THEN plugin[t] ELSE bus[y]
      BY <2>1, <2>2, OwnType DEF CallInv, TypeOK
    <3> QED
      BY <2>1, <2>2, <3>1, <3>2, <3>3, NoneAssumption DEF Traced, Dirty, Halfway, Unregistering
  <2>7. CallTraced'
    <3>1. ASSUME NEW u \in Threads, u # t, Engaged(u)', plugin'[u] \notin Blurred'
          PROVE  Traced(u)'
      <4>1. Engaged(u) /\ Engaged(t)
        BY <2>1, <3>1 DEF Engaged, LoadPhase, CallInv, TypeOK
      <4>2. \A y \in Own(plugin[u]) : bus'[y] = bus[y]
        BY <2>3, <3>1, <4>1, EngagedApart
      <4> QED
        BY <2>1, <2>4, <3>1, <4>1, <4>2, TracedOther DEF CallInv, TypeOK
    <3> QED
      BY <2>1, <2>4, <2>6, <3>1 DEF CallTraced
  <2>8. LoadedTraced' /\ RestClean'
    <3>1. plugin[t] \notin loaded /\ loaded \subseteq PluginNames
      BY <2>2 DEF CallInv, TypeOK
    <3>2. LoadedTraced'
      BY <2>1, <2>3, <2>4, <3>1 DEF TracedInv, LoadedTraced, Dirty
    <3>3. RestClean'
      BY <2>1, <2>2, <2>3, <2>4, <3>1 DEF TracedInv, RestClean, Dirty
    <3> QED
      BY <3>2, <3>3
  <2> QED
    BY <2>5, <2>7, <2>8 DEF TracedInv
<1>12. ASSUME NEW t \in Threads, ModuleEnds(t) PROVE TracedInv'
  <2>1. \A u \in Threads : \/ pc'[u] = pc[u] /\ next'[u] = next[u]
                           \/ Watching(u) /\ Watching(u)' /\ ~Halfway(u)
    BY <1>12 DEF ModuleEnds, Watching, Halfway, CallInv, TypeOK
  <2> QED
    BY <1>12, <2>1, TracedKept DEF ModuleEnds
<1>13. ASSUME NEW t \in Threads, ModuleRaises(t) PROVE TracedInv'
  <2>1. \A u \in Threads : \/ pc'[u] = pc[u] /\ next'[u] = next[u]
                           \/ pc'[u] = "failed" /\ plugin[u] \in failed'
    BY <1>13 DEF ModuleRaises, CallInv, TypeOK
  <2> QED
    BY <1>13, <2>1, TracedKept DEF ModuleRaises
<1>14. ASSUME NEW t \in Threads, LastModule(t) PROVE TracedInv'
  <2>1. \A u \in Threads : \/ pc'[u] = pc[u] /\ next'[u] = next[u]
                           \/ Watching(u) /\ Watching(u)' /\ ~Halfway(u)
    BY <1>14 DEF LastModule, Watching, Halfway, CallInv, TypeOK
  <2> QED
    BY <1>14, <2>1, TracedKept DEF LastModule
<1>15. ASSUME NEW t \in Threads, Attribute(t) PROVE TracedInv'
  <2>1. /\ pc[t] = "attribute" /\ pc' = [pc EXCEPT ![t] = "hook"]
        /\ todo' = [todo EXCEPT ![t] = OnBus \ before[t]]
        /\ UNCHANGED <<loaded, loading, record, index, bus, plugin, next, before, current,
                       overlapped, failed>>
    BY <1>15 DEF Attribute, NewTypes
  <2>2. OwnApart'
    <3>1. \A u \in Threads : Watching(u)' => Watching(u)
      BY <2>1 DEF Watching, CallInv, TypeOK
    <3>2. \A p \in PluginNames \ overlapped : \A y \in Own(p) :
             y \in OnBus \ before[t] => plugin[t] = p
      BY <2>1 DEF OnBus, TracedInv, OwnApart, Watching
    <3> QED
      BY <2>1, <3>1, <3>2 DEF TracedInv, OwnApart, CallInv, TypeOK
  <2>3. plugin[t] \notin Blurred => Traced(t)'
    <3>1. ASSUME plugin[t] \notin Blurred, NEW y \in Own(plugin[t])
          PROVE  y \notin before[t] /\ (Dirty(y) => bus[y] # None)
      BY <2>1, <3>1 DEF TracedInv, CallTraced, Traced, Engaged, LoadPhase, Watching, Halfway, Dirty
    <3>2. pc'[t] = "hook" /\ todo'[t] = OnBus \ before[t]
      BY <2>1 DEF CallInv, TypeOK
    <3>3. \A y \in Own(plugin[t]) : y \in Types
      BY DEF Own
    <3> QED
      BY <2>1, <3>1, <3>2, <3>3 DEF Traced, Dirty, OnBus, Watching, Unregistering
  <2>4. CallTraced'
    <3>1. ASSUME NEW u \in Threads, u # t, Engaged(u)', plugin'[u] \notin Blurred'
          PROVE  Traced(u)'
      BY <2>1, <3>1, TracedOther DEF Engaged, Blurred, CallInv, TypeOK
    <3> QED
      BY <2>1, <2>3, <3>1 DEF CallTraced, Blurred
  <2>5. LoadedTraced' /\ RestClean'
    BY <2>1 DEF TracedInv, LoadedTraced, RestClean, Dirty, Blurred
  <2> QED
    BY <2>2, <2>4, <2>5 DEF TracedInv
<1>16. ASSUME NEW t \in Threads, HookSucceeds(t) PROVE TracedInv'
  <2>1. \A u \in Threads : \/ pc'[u] = pc[u] /\ next'[u] = next[u]
                           \/ pc[u] = "hook" /\ pc'[u] \in {"finish", "rollback"}
    BY <1>16 DEF HookSucceeds, CallInv, TypeOK
  <2> QED
    BY <1>16, <2>1, TracedKept DEF HookSucceeds
<1>17. ASSUME NEW t \in Threads, HookFails(t) PROVE TracedInv'
  <2>1. \A u \in Threads : \/ pc'[u] = pc[u] /\ next'[u] = next[u]
                           \/ pc[u] = "hook" /\ pc'[u] \in {"finish", "rollback"}
    BY <1>17 DEF HookFails, CallInv, TypeOK
  <2> QED
    BY <1>17, <2>1, TracedKept DEF HookFails
<1>18. ASSUME NEW t \in Threads, Discard(t) PROVE TracedInv'
  <2>1. /\ pc[t] = "failed" /\ Engaged(t) /\ Done(t)
        /\ loading' = loading \ {plugin[t]}
        /\ UNCHANGED <<loaded, record, index, bus, overlapped, failed>>
    BY <1>18 DEF Discard, Engaged, LoadPhase
  <2>2. OwnApart' /\ CallTraced' /\ LoadedTraced'
    BY <2>1, OverTraced
  <2>3. ASSUME plugin[t] \notin Blurred, NEW y \in Own(plugin[t]) PROVE ~Dirty(y)
    BY <2>1, <2>3 DEF TracedInv, CallTraced, Traced, Engaged, LoadPhase
  <2>4. RestClean'
    BY <2>1, <2>3 DEF TracedInv, RestClean, Dirty, Blurred
  <2> QED
    BY <2>2, <2>4 DEF TracedInv
<1>19. ASSUME NEW t \in Threads, Finish(t) PROVE TracedInv'
  <2>1. /\ pc[t] = "finish" /\ Engaged(t) /\ Done(t)
        /\ loading' = loading \ {plugin[t]}
        /\ loaded' = loaded \cup {plugin[t]}
        /\ record' = [record EXCEPT ![plugin[t]] = todo[t]]
        /\ UNCHANGED <<index, bus, overlapped, failed>>
    BY <1>19 DEF Finish, Engaged, LoadPhase
  <2>2. plugin[t] \in PluginNames
    BY <2>1 DEF CallInv, CallsOK, TypeOK, LoadPhase
  <2>3. OwnApart' /\ CallTraced'
    BY <2>1, <2>2, OverTraced
  <2>4. ASSUME plugin[t] \notin Blurred, NEW y \in Own(plugin[t]), Dirty(y)
        PROVE  y \in todo[t]
    BY <2>1, <2>4 DEF TracedInv, CallTraced, Traced, Engaged, LoadPhase
  <2>5. LoadedTraced'
    BY <2>1, <2>2, <2>4 DEF TracedInv, LoadedTraced, Dirty, Blurred, CallInv, TypeOK
  <2>6. RestClean'
    BY <2>1 DEF TracedInv, RestClean, Dirty, Blurred
  <2> QED
    BY <2>3, <2>5, <2>6 DEF TracedInv
<1>20. ASSUME NEW t \in Threads, TakeOff(t) PROVE TracedInv'
  <2>1. PICK z \in todo[t] :
          /\ Unregistering(t) /\ current[t] = None
          /\ bus' = [bus EXCEPT ![z] = None]
          /\ current' = [current EXCEPT ![t] = z]
          /\ todo' = [todo EXCEPT ![t] = @ \ {z}]
          /\ UNCHANGED <<loaded, loading, record, index, pc, plugin, next, before,
                         overlapped, failed>>
    BY <1>20 DEF TakeOff
  <2>2. /\ z \in Types /\ z # None /\ bus' \in [Types -> PluginNames \cup {None}]
        /\ \A y \in Types : bus'[y] = IF y = z THEN None ELSE bus[y]
        /\ current'[t] = z /\ todo'[t] = todo[t] \ {z}
        /\ \A u \in Threads \ {t} : current'[u] = current[u] /\ todo'[u] = todo[u]
    BY <2>1, NoneAssumption DEF CallInv, TypeOK
  <2>3. \A p \in PluginNames \ overlapped : z \in Own(p) => plugin[t] = p
    BY <2>1 DEF TracedInv, OwnApart
  <2>4. \A y \in Types : Dirty(y)' => Dirty(y)
    BY <2>1, <2>2 DEF Dirty
  <2>5. OwnApart'
    BY <2>1, <2>2, <2>3, OwnType DEF TracedInv, OwnApart, Watching
  <2>6. plugin[t] \notin Blurred => Traced(t)'
    <3>1. ASSUME plugin[t] \notin Blurred, NEW y \in Own(plugin[t]), Dirty(y)
          PROVE  y \in todo[t]
      BY <2>1, <3>1, OwnType DEF TracedInv, CallTraced, Traced, Engaged, LoadPhase, Unregistering,
            CallInv, CallsOK, TypeOK
    <3>2. ~Watching(t) /\ pc[t] \notin {"snapshot", "failed", "hook", "finish"}
      BY <2>1 DEF Unregistering, Watching
    <3>3. \A y \in Own(plugin[t]) : y \in Types
      BY DEF Own
    <3> QED
      BY <2>1, <2>2, <2>4, <3>1, <3>2, <3>3 DEF Traced, Watching
  <2>7. CallTraced'
    <3>1. ASSUME NEW u \in Threads, u # t, Engaged(u)', plugin'[u] \notin Blurred'
          PROVE  Traced(u)'
      <4>1. Engaged(u) /\ Engaged(t) /\ plugin[u] \notin Blurred
        BY <2>1, <3>1 DEF Engaged, LoadPhase, Unregistering, Blurred
      <4>2. \A y \in Own(plugin[u]) : bus'[y] = bus[y]
        BY <2>2, <2>3, <3>1, <4>1, EngagedApart, OwnType DEF Blurred
      <4> QED
        BY <2>1, <2>2, <3>1, <4>1, <4>2, TracedOther
    <3> QED
      BY <2>1, <2>6, <3>1 DEF CallTraced, Blurred
  <2>8. LoadedTraced' /\ RestClean'
    <3>1. loaded \subseteq PluginNames /\ \A p \in PluginNames : \A y \in Own(p) : y \in Types
      BY DEF Own, CallInv, TypeOK
    <3>2. LoadedTraced'
      BY <2>1, <2>4, <3>1 DEF TracedInv, LoadedTraced, Blurred
    <3>3. RestClean'
      BY <2>1, <2>4, <3>1 DEF TracedInv, RestClean, Blurred
    <3> QED
      BY <3>2, <3>3
  <2> QED
    BY <2>5, <2>7, <2>8 DEF TracedInv
<1>21. ASSUME NEW t \in Threads, DropClass(t) PROVE TracedInv'
  <2>1. /\ Unregistering(t) /\ current[t] # None
        /\ index' = [index EXCEPT ![current[t]] = None]
        /\ current' = [current EXCEPT ![t] = None]
        /\ UNCHANGED <<loaded, loading, record, bus, pc, plugin, next, before, todo,
                       overlapped, failed>>
    BY <1>21 DEF DropClass, Drop
  <2>2. /\ \A y \in Types : index'[y] = IF y = current[t] THEN None ELSE index[y]
        /\ current'[t] = None
        /\ \A u \in Threads \ {t} : current'[u] = current[u]
    BY <2>1 DEF CallInv, TypeOK
  <2>3. \A p \in PluginNames \ overlapped : current[t] \in Own(p) => plugin[t] = p
    BY <2>1 DEF TracedInv, OwnApart
  <2>4. \A y \in Types : Dirty(y)' => Dirty(y)
    BY <2>1, <2>2 DEF Dirty
  <2>5. OwnApart'
    BY <2>1, <2>2, OwnType DEF TracedInv, OwnApart, Watching
  <2>6. plugin[t] \notin Blurred => Traced(t)'
    <3>1. ASSUME plugin[t] \notin Blurred, NEW y \in Own(plugin[t])
          PROVE  /\ Dirty(y) => y \in todo[t] \/ y = current[t]
                 /\ y = current[t] => bus[y] = None
      BY <2>1, <3>1 DEF TracedInv, CallTraced, Traced, Engaged, LoadPhase, Unregistering
    <3>2. ~Watching(t) /\ pc[t] \notin {"snapshot", "failed", "hook", "finish"}
      BY <2>1 DEF Unregistering, Watching
    <3>3. \A y \in Own(plugin[t]) : y \in Types /\ y # None
      BY NoneAssumption DEF Own
    <3> QED
      BY <2>1, <2>2, <3>1, <3>2, <3>3 DEF Traced, Watching, Dirty
  <2>7. CallTraced'
    <3>1. ASSUME NEW u \in Threads, u # t, Engaged(u)', plugin'[u] \notin Blurred'
          PROVE  Traced(u)'
      <4>1. Engaged(u) /\ Engaged(t) /\ plugin[u] \notin Blurred
        BY <2>1, <3>1 DEF Engaged, LoadPhase, Unregistering, Blurred
      <4>2. \A y \in Own(plugin[u]) : index'[y] = index[y]
        BY <2>2, <2>3, <3>1, <4>1, EngagedApart, OwnType DEF Blurred
      <4> QED
        BY <2>1, <2>2, <3>1, <4>1, <4>2, TracedOther
    <3> QED
      BY <2>1, <2>6, <3>1 DEF CallTraced, Blurred
  <2>8. LoadedTraced' /\ RestClean'
    <3>1. loaded \subseteq PluginNames /\ \A p \in PluginNames : \A y \in Own(p) : y \in Types
      BY DEF Own, CallInv, TypeOK
    <3>2. LoadedTraced'
      BY <2>1, <2>4, <3>1 DEF TracedInv, LoadedTraced, Blurred
    <3>3. RestClean'
      BY <2>1, <2>4, <3>1 DEF TracedInv, RestClean, Blurred
    <3> QED
      BY <3>2, <3>3
  <2> QED
    BY <2>5, <2>7, <2>8 DEF TracedInv
<1>22. ASSUME NEW t \in Threads, RolledBack(t) PROVE TracedInv'
  <2>1. \A u \in Threads :
           \/ pc'[u] = pc[u] /\ next'[u] = next[u]
           \/ pc[u] = "rollback" /\ pc'[u] = "failed" /\ todo[u] = {} /\ current[u] = None
    BY <1>22 DEF RolledBack, CallInv, TypeOK
  <2> QED
    BY <1>22, <2>1, TracedKept DEF RolledBack
<1>23. ASSUME NEW t \in Threads, Unloaded(t) PROVE TracedInv'
  <2>1. /\ pc[t] = "unload" /\ current[t] = None /\ todo[t] = {} /\ Engaged(t) /\ Done(t)
        /\ loaded' = loaded \ {plugin[t]}
        /\ record' = [record EXCEPT ![plugin[t]] = {}]
        /\ UNCHANGED <<loading, index, bus, overlapped, failed>>
    BY <1>23 DEF Unloaded, Engaged
  <2>2. plugin[t] \in PluginNames
    BY <2>1 DEF CallInv, CallsOK, TypeOK
  <2>3. OwnApart' /\ CallTraced'
    BY <2>1, <2>2, OverTraced
  <2>4. ASSUME plugin[t] \notin Blurred, NEW y \in Own(plugin[t]) PROVE ~Dirty(y)
    BY <2>1, <2>2, <2>4, OwnType DEF TracedInv, CallTraced, Traced, Engaged, Unregistering
  <2>5. LoadedTraced'
    BY <2>1 DEF TracedInv, LoadedTraced, Dirty, Blurred, CallInv, TypeOK
  <2>6. RestClean'
    BY <2>1, <2>4 DEF TracedInv, RestClean, Dirty, Blurred
  <2> QED
    BY <2>3, <2>5, <2>6 DEF TracedInv
<1>24. ASSUME NEW t \in Threads, HookRaises(t) PROVE TracedInv'
  <2>1. \A u \in Threads : \/ pc'[u] = pc[u] /\ next'[u] = next[u]
                           \/ pc'[u] = "failed" /\ plugin[u] \in failed'
    BY <1>24 DEF HookRaises, CallInv, TypeOK
  <2> QED
    BY <1>24, <2>1, TracedKept DEF HookRaises
<1>25. ASSUME NEW t \in Threads, UnloadHook(t) PROVE TracedInv'
  <2>1. /\ pc[t] = "unhook" /\ pc' = [pc EXCEPT ![t] = "unload"]
        /\ todo' = [todo EXCEPT ![t] = record[plugin[t]]]
        /\ UNCHANGED <<loading, loaded, record, index, bus, plugin, before, current, next,
                       overlapped, failed>>
    BY <1>25 DEF UnloadHook
  <2>2. plugin[t] \in loaded /\ plugin[t] \in PluginNames /\ current[t] = None
    BY <2>1 DEF CallInv, CallsOK, TypeOK, Unregistering
  <2>3. OwnApart'
    BY <2>1, <2>2, OwnType DEF TracedInv, OwnApart, Watching, CallInv, TypeOK
  <2>4. Traced(t)' \/ plugin[t] \in Blurred
    <3>1. ASSUME plugin[t] \notin Blurred, NEW y \in Own(plugin[t])
          PROVE  (Dirty(y) => y \in record[plugin[t]]) /\ y # None
      BY <2>2, <3>1, OwnType DEF TracedInv, LoadedTraced
    <3>2. pc'[t] = "unload" /\ todo'[t] = record[plugin[t]] /\ current'[t] = None
      BY <2>1, <2>2 DEF CallInv, TypeOK
    <3> QED
      BY <2>1, <3>1, <3>2 DEF Traced, Dirty, Watching, Unregistering
  <2>5. CallTraced'
    <3>1. ASSUME NEW u \in Threads, u # t, Engaged(u)', plugin'[u] \notin Blurred'
          PROVE  Traced(u)'
      BY <2>1, <3>1, TracedOther DEF Engaged, Blurred, CallInv, TypeOK
    <3> QED
      BY <2>1, <2>4, <3>1 DEF CallTraced, Blurred
  <2>6. LoadedTraced' /\ RestClean'
    BY <2>1 DEF TracedInv, LoadedTraced, RestClean, Dirty, Blurred
  <2> QED
    BY <2>3, <2>5, <2>6 DEF TracedInv
<1>26. ASSUME NEW t \in Threads, UnloadRaises(t) PROVE TracedInv'
  <2>1. /\ Done(t) /\ ~Engaged(t)
        /\ UNCHANGED <<loaded, loading, record, index, bus, overlapped, failed>>
    BY <1>26 DEF UnloadRaises, Engaged, LoadPhase
  <2> QED
    BY <2>1, IdleTraced
<1>27. CASE UNCHANGED vars
  BY <1>27, TracedKept DEF vars
<1> QED
  BY <1>1, <1>2, <1>3, <1>4, <1>5, <1>6, <1>7, <1>8, <1>9, <1>10, <1>11, <1>12, <1>13,
     <1>14, <1>15, <1>16, <1>17, <1>18, <1>19, <1>20, <1>21, <1>22, <1>23, <1>24, <1>25, <1>26,
     <1>27 DEF Next

\* Of a plugin that is neither loaded nor being loaded nothing is left on the
\* bus or in the index, whatever other threads load and unload meanwhile, unless
\* importing one of its modules or its on_load failed or its load overlapped
\* with another.
THEOREM NothingLeft == Spec => []NothingLeftBehind
<1>1. TracedInv => NothingLeftBehind
  <2> SUFFICES ASSUME TracedInv, NEW p \in PluginNames \ (loaded \cup failed \cup overlapped),
                      ~Busy(p), NEW y \in Own(p)
               PROVE  bus[y] = None /\ index[y] = None
    BY DEF NothingLeftBehind
  <2>1. p \notin loading
    BY DEF TracedInv, CallInv, OneLoader, Busy
  <2> QED
    BY <2>1 DEF TracedInv, RestClean, Dirty, Blurred
<1> QED
  BY TracedInit, TracedStep, <1>1, PTL DEF Spec

-----------------------------------------------------------------------------
(* What a loaded plugin has *)

\* The loads the code gets right: none overlapped with another, the last one
\* skipped no module, none failed.
Intact(p)     == p \notin overlapped \cup skipped \cup failed
OnOffer(p, y) == bus[y] = p /\ index[y] = p
Importing(t)  == pc[t] \in {"import", "module", "register", "body"}

\* What the modules have registered so far is still there. As long as none is
\* skipped, when the last has ended all that the plugin provides is in its place,
\* and found when stock is taken.
Nodes(t) ==
    LET p == plugin[t] IN
    /\ Importing(t) =>
          \A i \in DOMAIN Provides[p] :
             i < next[t] /\ Provides[p][i] \in Own(p) => OnOffer(p, Provides[p][i])
    /\ pc[t] \in {"register", "body"} /\ Provided(t) \in Own(p) => index[Provided(t)] = p
    /\ pc[t] = "body" /\ Provided(t) \in Own(p) => bus[Provided(t)] = p
    /\ pc[t] \in {"attribute", "hook", "finish"} => \A y \in Own(p) : OnOffer(p, y)
    /\ pc[t] \in {"hook", "finish"} => \A y \in Own(p) : y \in todo[t]

CallNodes == \A t \in Threads : Engaged(t) /\ Intact(plugin[t]) => Nodes(t)

Leaving(p) == \E t \in Threads : pc[t] = "unload" /\ plugin[t] = p

LoadedNodes ==
    \A p \in loaded : Intact(p) /\ ~Leaving(p) =>
        \A y \in Own(p) : y \in record[p] /\ OnOffer(p, y)

NodesInv == TracedInv /\ CallNodes /\ LoadedNodes

LEMMA NodesInit == Init => NodesInv
  BY TracedInit DEF NodesInv, CallNodes, LoadedNodes, Engaged, LoadPhase, Init

\* A call that does not move, and whose own types nobody touches.
LEMMA NodesOther ==
  ASSUME NodesInv, NEW u \in Threads, Engaged(u), Intact(plugin[u]),
         UNCHANGED <<pc[u], plugin[u], next[u], todo[u]>>,
         \A y \in Own(plugin[u]) : UNCHANGED <<bus[y], index[y]>>
  PROVE  Nodes(u)'
<1>1. Nodes(u)
  BY DEF NodesInv, CallNodes
<1> QED
  BY <1>1 DEF Nodes, Importing, OnOffer, Provided

\* A step that registers nothing and records nothing, and
\* leaves its call where nothing need be known of the nodes.
LEMMA NodesKept ==
  ASSUME NodesInv, TracedInv', UNCHANGED <<index, bus>>,
         \A p \in PluginNames : Intact(p)' => Intact(p),
         \A p \in loaded' : p \in loaded /\ record'[p] = record[p],
         \A t \in Threads :
            /\ \/ UNCHANGED <<pc[t], plugin[t], next[t], todo[t]>>
               \/ pc'[t] \in {"idle", "mark", "snapshot", "rollback", "failed", "unhook", "unload"}
            /\ pc[t] = "unload" => \/ pc'[t] = "unload" /\ plugin'[t] = plugin[t]
                                   \/ plugin[t] \notin loaded'
  PROVE  NodesInv'
<1>1. ASSUME NEW t \in Threads, Engaged(t)', Intact(plugin[t])' PROVE Nodes(t)'
  <2>1. plugin'[t] \in PluginNames
    BY <1>1 DEF TracedInv, CallInv, CallsOK, TypeOK, Engaged
  <2>2. CASE UNCHANGED <<pc[t], plugin[t], next[t], todo[t]>>
    <3>1. Engaged(t) /\ Intact(plugin[t])
      BY <1>1, <2>1, <2>2 DEF Engaged, Intact
    <3> QED
      BY <2>2, <3>1, NodesOther
  <2>3. CASE pc'[t] \in {"idle", "mark", "snapshot", "rollback", "failed", "unhook", "unload"}
    BY <2>3 DEF Nodes, Importing
  <2> QED
    BY <2>2, <2>3
<1>2. LoadedNodes'
  <2> SUFFICES ASSUME NEW p \in loaded', Intact(p)', ~Leaving(p)', NEW y \in Own(p)
               PROVE  y \in record'[p] /\ OnOffer(p, y)'
    BY DEF LoadedNodes
  <2>1. p \in loaded /\ p \in PluginNames /\ Intact(p)
    BY DEF TracedInv, CallInv, TypeOK
  <2>2. ~Leaving(p)
    BY DEF Leaving
  <2> QED
    BY <2>1, <2>2 DEF NodesInv, LoadedNodes, OnOffer
<1> QED
  BY <1>1, <1>2 DEF NodesInv, CallNodes

\* A step of one load or unload that touches no other plugin's own types.
LEMMA NodesElse ==
  ASSUME NodesInv, TracedInv', NEW t \in Threads, Engaged(t),
         UNCHANGED <<plugin, loaded, record>>,
         pc'[t] = "unload" <=> pc[t] = "unload",
         \A u \in Threads \ {t} : UNCHANGED <<pc[u], next[u], todo[u]>>,
         \A p \in PluginNames \ {plugin[t]} :
            Intact(p)' =>
               /\ Intact(p)
               /\ \A y \in Own(p) : UNCHANGED <<bus[y], index[y]>>,
         Intact(plugin[t])' => Nodes(t)'
  PROVE  NodesInv'
<1> USE DEF NodesInv
<1>0. CallInv /\ plugin[t] \in PluginNames
  BY DEF TracedInv, CallInv, CallsOK, TypeOK, Engaged, LoadPhase
<1>1. ASSUME NEW u \in Threads, Engaged(u)', Intact(plugin[u])' PROVE Nodes(u)'
  <2>1. CASE u = t
    BY <1>1, <2>1 DEF Intact
  <2>2. CASE u # t
    <3>1. Engaged(u)
      BY <1>1, <2>2 DEF Engaged
    <3>2. plugin[u] \in PluginNames \ {plugin[t]} /\ plugin'[u] = plugin[u]
      BY <1>0, <2>2, <3>1, EngagedApart
    <3>3. Intact(plugin[u])' <=> plugin[u] \notin overlapped' \cup skipped' \cup failed'
      BY <3>2 DEF Intact
    <3>4. Intact(plugin[u])
      BY <1>1, <3>2, <3>3 DEF Intact
    <3>5. \A y \in Own(plugin[u]) : UNCHANGED <<bus[y], index[y]>>
      BY <1>1, <3>2, <3>3 DEF Intact
    <3> QED
      BY <2>2, <3>1, <3>2, <3>4, <3>5, NodesOther
  <2> QED
    BY <2>1, <2>2
<1>2. LoadedNodes'
  <2> SUFFICES ASSUME NEW p \in loaded', Intact(p)', ~Leaving(p)', NEW y \in Own(p)
               PROVE  y \in record'[p] /\ OnOffer(p, y)'
    BY DEF LoadedNodes
  <2>1. p \in PluginNames /\ p \in loaded /\ ~Leaving(p)
    <3>1. \A u \in Threads : pc[u] = "unload" => pc'[u] = "unload"
      OBVIOUS
    <3> QED
      BY <3>1 DEF Leaving, TracedInv, CallInv, TypeOK
  <2>2. p # plugin[t]
    BY <2>1 DEF TracedInv, CallInv, CallsOK, TypeOK, Engaged, Leaving
  <2>3. Intact(p) /\ UNCHANGED <<bus[y], index[y]>>
    BY <2>1, <2>2
  <2> QED
    BY <2>1, <2>3 DEF LoadedNodes, OnOffer
<1> QED
  BY <1>1, <1>2 DEF CallNodes

LEMMA NodesStep == NodesInv /\ [Next]_vars => NodesInv'
<1> SUFFICES ASSUME NodesInv, [Next]_vars PROVE NodesInv'
  OBVIOUS
<1>0. TracedInv /\ TracedInv' /\ CallInv
  BY TracedStep DEF NodesInv, TracedInv
<1> USE <1>0 DEF Goto, manager, registry, locks, local, history
<1>1. ASSUME NEW t \in Threads, NEW p \in PluginNames, Check(t, p) PROVE NodesInv'
  BY <1>1, NodesKept DEF Check, Intact, CallInv, TypeOK
<1>2. ASSUME NEW t \in Threads, NEW p \in PluginNames, Unload(t, p) PROVE NodesInv'
  BY <1>2, NodesKept DEF Unload, BeginUnload, Intact, CallInv, TypeOK
<1>3. ASSUME NEW t \in Threads, NEW p \in PluginNames, Disable(t, p) PROVE NodesInv'
  <2>1. CASE p \in loaded
    BY <1>3, <2>1, NodesKept DEF Disable, BeginUnload, Intact, CallInv, TypeOK
  <2>2. CASE p \notin loaded
    BY <1>3, <2>2, NodesKept DEF Disable, Intact
  <2> QED
    BY <2>1, <2>2
<1>4. ASSUME NEW t \in Threads, NEW p \in PluginNames, Enable(t, p) PROVE NodesInv'
  BY <1>4, NodesKept DEF Enable, Intact
<1>5. ASSUME NEW t \in Threads, Mark(t) PROVE NodesInv'
  BY <1>5, NodesKept DEF Mark, Intact, CallInv, TypeOK
<1>6. ASSUME NEW t \in Threads, AlreadyLoaded(t) PROVE NodesInv'
  BY <1>6, NodesKept DEF AlreadyLoaded, Done, Intact, CallInv, TypeOK
<1>7. ASSUME NEW t \in Threads, Snapshot(t) PROVE NodesInv'
  <2>1. /\ pc[t] = "snapshot" /\ pc' = [pc EXCEPT ![t] = "import"]
        /\ skipped' = skipped \ {plugin[t]}
        /\ UNCHANGED <<loaded, record, index, bus, plugin, next, todo,
                       overlapped, failed>>
    BY <1>7 DEF Snapshot
  <2>2. Engaged(t) /\ pc'[t] = "import" /\ \A u \in Threads \ {t} : pc'[u] = pc[u]
    BY <2>1 DEF Engaged, LoadPhase, CallInv, TypeOK
  <2>3. next[t] = 1
    BY <2>1 DEF CallInv, CallsOK
  <2>4. Intact(plugin[t])' => Nodes(t)'
    <3>1. ASSUME NEW i \in DOMAIN Provides[plugin[t]] PROVE ~(i < 1)
      BY <2>1, <3>1, ProvidesAssumption DEF CallInv, CallsOK, TypeOK, LoadPhase
    <3> QED
      BY <2>1, <2>2, <2>3, <3>1 DEF Nodes, Intact, Importing
  <2> QED
    BY <2>1, <2>2, <2>4, NodesElse DEF Intact
<1>8. ASSUME NEW t \in Threads, BeginImport(t) PROVE NodesInv'
  <2>1. /\ Engaged(t) /\ pc[t] = "import" /\ pc'[t] = "module"
        /\ \A u \in Threads \ {t} : pc'[u] = pc[u]
    BY <1>8 DEF BeginImport, Engaged, LoadPhase, CallInv, TypeOK
  <2>2. Intact(plugin[t])' => Nodes(t)'
    BY <1>8, <2>1 DEF BeginImport, NodesInv, CallNodes, Nodes, Intact, Importing, OnOffer
  <2> QED
    BY <1>8, <2>1, <2>2, NodesElse DEF BeginImport, Intact
<1>9. ASSUME NEW t \in Threads, KnownModule(t) PROVE NodesInv'
  <2>1. /\ Engaged(t) /\ pc[t] = "module" /\ skipped' = skipped \cup {plugin[t]}
        /\ \A u \in Threads \ {t} : next'[u] = next[u]
        /\ UNCHANGED <<pc, plugin, loaded, record, bus, index, todo, overlapped, failed>>
    BY <1>9 DEF KnownModule, HasModule, Engaged, LoadPhase, CallInv, TypeOK
  <2>2. ~Intact(plugin[t])'
    BY <2>1 DEF Intact
  <2> QED
    BY <2>1, <2>2, NodesElse DEF Intact
<1>10. ASSUME NEW t \in Threads, IndexClass(t) PROVE NodesInv'
  <2>1. /\ pc[t] = "module" /\ pc' = [pc EXCEPT ![t] = "register"]
        /\ index' = [index EXCEPT ![Provided(t)] = plugin[t]]
        /\ next[t] <= Len(Provides[plugin[t]])
        /\ UNCHANGED <<loaded, record, bus, plugin, next, todo,
                       overlapped, skipped, failed>>
    BY <1>10 DEF IndexClass, HasModule
  <2>2. /\ Engaged(t) /\ pc'[t] = "register" /\ Provided(t)' = Provided(t)
        /\ \A u \in Threads \ {t} : pc'[u] = pc[u]
    BY <2>1 DEF Provided, Engaged, LoadPhase, CallInv, TypeOK
  <2>3. \A y \in Types : index'[y] = IF y = Provided(t) THEN plugin[t] ELSE index[y]
    BY <2>1 DEF CallInv, TypeOK
  <2>4. \A p \in PluginNames \ {plugin[t]} : \A y \in Own(p) : index'[y] = index[y]
    BY <2>1, <2>3, OwnProvided, OwnType
  <2>5. Intact(plugin[t])' => Nodes(t)'
    <3>1. ASSUME Intact(plugin[t]) PROVE Nodes(t)
      BY <2>2, <3>1 DEF NodesInv, CallNodes
    <3>2. \A y \in Own(plugin[t]) : y \in Types
      BY DEF Own
    <3> QED
      BY <2>1, <2>2, <2>3, <3>1, <3>2 DEF Nodes, Intact, Importing, OnOffer
  <2> QED
    BY <2>1, <2>2, <2>4, <2>5, NodesElse DEF Intact
<1>11. ASSUME NEW t \in Threads, RegisterClass(t) PROVE NodesInv'
  <2>1. /\ pc[t] = "register" /\ pc' = [pc EXCEPT ![t] = "body"]
        /\ bus' = [bus EXCEPT ![Provided(t)] = plugin[t]]
        /\ overlapped \subseteq overlapped'
        /\ UNCHANGED <<loaded, record, index, plugin, next, todo, skipped, failed>>
    BY <1>11 DEF RegisterClass
  <2>2. /\ Engaged(t) /\ pc'[t] = "body" /\ Provided(t)' = Provided(t)
        /\ \A u \in Threads \ {t} : pc'[u] = pc[u]
        /\ next[t] <= Len(Provides[plugin[t]])
    BY <2>1 DEF Provided, Engaged, LoadPhase, CallInv, CallsOK, TypeOK
  <2>3. \A y \in Types : bus'[y] = IF y = Provided(t) THEN plugin[t] ELSE bus[y]
    BY <2>1 DEF CallInv, TypeOK
  <2>4. \A p \in PluginNames \ {plugin[t]} : \A y \in Own(p) : bus'[y] = bus[y]
    BY <2>1, <2>2, <2>3, OwnProvided, OwnType
  <2>5. Intact(plugin[t])' => Nodes(t)'
    <3>1. ASSUME Intact(plugin[t]) PROVE Nodes(t)
      BY <2>2, <3>1 DEF NodesInv, CallNodes
    <3>2. \A y \in Own(plugin[t]) : y \in Types
      BY DEF Own
    <3> QED
      BY <2>1, <2>2, <2>3, <3>1, <3>2 DEF Nodes, Intact, Importing, OnOffer
  <2> QED
    BY <2>1, <2>2, <2>4, <2>5, NodesElse DEF Intact
<1>12. ASSUME NEW t \in Threads, ModuleEnds(t) PROVE NodesInv'
  <2>1. /\ pc[t] = "body" /\ pc' = [pc EXCEPT ![t] = "module"]
        /\ next' = [next EXCEPT ![t] = @ + 1]
        /\ UNCHANGED <<loaded, record, index, bus, plugin, todo, overlapped, skipped, failed>>
    BY <1>12 DEF ModuleEnds
  <2>2. /\ Engaged(t) /\ pc'[t] = "module" /\ next'[t] = next[t] + 1 /\ next[t] \in Nat
        /\ \A u \in Threads \ {t} : pc'[u] = pc[u] /\ next'[u] = next[u]
        /\ plugin[t] \in PluginNames
    BY <2>1 DEF Engaged, LoadPhase, CallInv, CallsOK, TypeOK
  <2>3. Intact(plugin[t])' => Nodes(t)'
    <3>1. ASSUME Intact(plugin[t]) PROVE Nodes(t)
      BY <2>2, <3>1 DEF NodesInv, CallNodes
    <3>2. \A i \in DOMAIN Provides[plugin[t]] : i \in Nat
      BY <2>2, ProvidesAssumption
    <3>3. ASSUME Intact(plugin[t]), NEW i \in DOMAIN Provides[plugin[t]]
          PROVE  i < next'[t] /\ Provides[plugin[t]][i] \in Own(plugin[t])
                    => OnOffer(plugin[t], Provides[plugin[t]][i])
      <4>1. /\ i < next[t] /\ Provides[plugin[t]][i] \in Own(plugin[t])
                  => OnOffer(plugin[t], Provides[plugin[t]][i])
            /\ i = next[t] /\ Provides[plugin[t]][i] \in Own(plugin[t])
                  => OnOffer(plugin[t], Provides[plugin[t]][i])
        BY <2>1, <3>1, <3>3 DEF Nodes, Importing, Provided, OnOffer
      <4>2. i \in Nat
        BY <3>2, <3>3
      <4>3. i < next'[t] => i < next[t] \/ i = next[t]
        BY <2>2, <4>2
      <4> QED
        BY <2>1, <4>1, <4>3
    <3> QED
      BY <2>1, <2>2, <3>3 DEF Nodes, Intact, Importing, OnOffer
  <2> QED
    BY <2>1, <2>2, <2>3, NodesElse DEF Intact
<1>13. ASSUME NEW t \in Threads, ModuleRaises(t) PROVE NodesInv'
  BY <1>13, NodesKept DEF ModuleRaises, HasModule, Intact, CallInv, TypeOK
<1>14. ASSUME NEW t \in Threads, LastModule(t) PROVE NodesInv'
  <2>1. /\ Engaged(t) /\ pc[t] = "module" /\ pc'[t] = "attribute"
        /\ plugin[t] \in PluginNames /\ next[t] \in Nat
        /\ next[t] > Len(Provides[plugin[t]])
        /\ \A u \in Threads \ {t} : pc'[u] = pc[u]
        /\ UNCHANGED <<loaded, record, index, bus, plugin, next, todo,
                       overlapped, skipped, failed>>
    BY <1>14 DEF LastModule, Engaged, LoadPhase, CallInv, CallsOK, TypeOK
  <2>2. ASSUME Intact(plugin[t]), NEW y \in Own(plugin[t]) PROVE OnOffer(plugin[t], y)
    <3>1. PICK i \in DOMAIN Provides[plugin[t]] : y = Provides[plugin[t]][i]
      BY <2>1 DEF Own, Range
    <3>2. i < next[t]
      BY <2>1, <3>1, ProvidesAssumption
    <3> QED
      BY <2>1, <2>2, <3>1, <3>2 DEF NodesInv, CallNodes, Nodes, Importing
  <2>3. Intact(plugin[t])' => Nodes(t)'
    BY <2>1, <2>2 DEF Nodes, Intact, Importing, OnOffer
  <2> QED
    BY <2>1, <2>3, NodesElse DEF Intact
<1>15. ASSUME NEW t \in Threads, Attribute(t) PROVE NodesInv'
  <2>1. /\ pc[t] = "attribute" /\ pc' = [pc EXCEPT ![t] = "hook"]
        /\ todo' = [todo EXCEPT ![t] = OnBus \ before[t]]
        /\ UNCHANGED <<loaded, record, index, bus, plugin, next,
                       overlapped, skipped, failed>>
    BY <1>15 DEF Attribute, NewTypes
  <2>2. /\ Engaged(t) /\ pc'[t] = "hook" /\ todo'[t] = OnBus \ before[t]
        /\ \A u \in Threads \ {t} : pc'[u] = pc[u] /\ todo'[u] = todo[u]
        /\ plugin[t] \in PluginNames
    BY <2>1 DEF Engaged, LoadPhase, CallInv, CallsOK, TypeOK
  <2>3. ASSUME Intact(plugin[t]), NEW y \in Own(plugin[t])
        PROVE  OnOffer(plugin[t], y) /\ y \in OnBus \ before[t]
    <3>1. OnOffer(plugin[t], y)
      BY <2>1, <2>2, <2>3 DEF NodesInv, CallNodes, Nodes
    <3>2. y \notin before[t]
      BY <2>1, <2>2, <2>3 DEF TracedInv, CallTraced, Traced, Watching, Intact, Blurred
    <3>3. y \in Types /\ plugin[t] # None
      BY <2>2, NoneAssumption DEF Own
    <3> QED
      BY <3>1, <3>2, <3>3 DEF OnOffer, OnBus
  <2>4. Intact(plugin[t])' => Nodes(t)'
    BY <2>1, <2>2, <2>3 DEF Nodes, Intact, Importing, OnOffer
  <2> QED
    BY <2>1, <2>2, <2>4, NodesElse DEF Intact
<1>16. ASSUME NEW t \in Threads, HookSucceeds(t) PROVE NodesInv'
  <2>1. /\ Engaged(t) /\ pc[t] = "hook" /\ pc'[t] = "finish"
        /\ \A u \in Threads \ {t} : pc'[u] = pc[u]
    BY <1>16 DEF HookSucceeds, Engaged, LoadPhase, CallInv, TypeOK
  <2>2. Intact(plugin[t])' => Nodes(t)'
    BY <1>16, <2>1 DEF HookSucceeds, NodesInv, CallNodes, Nodes, Intact, Importing, OnOffer
  <2> QED
    BY <1>16, <2>1, <2>2, NodesElse DEF HookSucceeds, Intact
<1>17. ASSUME NEW t \in Threads, HookFails(t) PROVE NodesInv'
  BY <1>17, NodesKept DEF HookFails, Intact, CallInv, TypeOK
<1>18. ASSUME NEW t \in Threads, Discard(t) PROVE NodesInv'
  BY <1>18, NodesKept DEF Discard, Done, Intact, CallInv, TypeOK
<1>19. ASSUME NEW t \in Threads, Finish(t) PROVE NodesInv'
  <2>1. /\ pc[t] = "finish" /\ Done(t)
        /\ loaded' = loaded \cup {plugin[t]}
        /\ record' = [record EXCEPT ![plugin[t]] = todo[t]]
        /\ UNCHANGED <<index, bus, overlapped, skipped, failed>>
    BY <1>19 DEF Finish
  <2>2. /\ plugin[t] \in PluginNames /\ Engaged(t)
        /\ record'[plugin[t]] = todo[t]
        /\ \A p \in PluginNames \ {plugin[t]} : record'[p] = record[p]
    BY <2>1 DEF CallInv, CallsOK, TypeOK, Engaged, LoadPhase
  <2>3. /\ pc'[t] = "idle"
        /\ \A u \in Threads \ {t} : UNCHANGED <<pc[u], plugin[u], next[u], todo[u]>>
    BY <2>1 DEF Done, CallInv, TypeOK
  <2>4. CallNodes'
    <3>1. ASSUME NEW u \in Threads, Engaged(u)', Intact(plugin[u])' PROVE Nodes(u)'
      <4>1. u # t /\ Engaged(u)
        BY <2>3, <3>1 DEF Engaged, LoadPhase
      <4>2. Intact(plugin[u])
        BY <2>1, <2>3, <3>1, <4>1 DEF Intact
      <4> QED
        BY <2>1, <2>3, <4>1, <4>2, NodesOther
    <3> QED
      BY <3>1 DEF CallNodes
  <2>5. LoadedNodes'
    <3> SUFFICES ASSUME NEW p \in loaded', Intact(p)', ~Leaving(p)', NEW y \in Own(p)
                 PROVE  y \in record'[p] /\ OnOffer(p, y)'
      BY DEF LoadedNodes
    <3>1. Intact(p) /\ p \in PluginNames
      BY <2>1, <2>2 DEF Intact, CallInv, TypeOK
    <3>2. CASE p = plugin[t]
      BY <2>1, <2>2, <3>1, <3>2 DEF NodesInv, CallNodes, Nodes, OnOffer
    <3>3. CASE p # plugin[t]
      <4>1. p \in loaded /\ ~Leaving(p)
        BY <2>1, <2>3, <3>3 DEF Leaving
      <4> QED
        BY <2>1, <2>2, <3>1, <3>3, <4>1 DEF NodesInv, LoadedNodes, OnOffer
    <3> QED
      BY <3>2, <3>3
  <2> QED
    BY <2>4, <2>5 DEF NodesInv
<1>20. ASSUME NEW t \in Threads, TakeOff(t) PROVE NodesInv'
  <2>1. PICK z \in todo[t] :
          /\ Unregistering(t)
          /\ bus' = [bus EXCEPT ![z] = None]
          /\ todo' = [todo EXCEPT ![t] = @ \ {z}]
          /\ UNCHANGED <<loaded, record, index, pc, plugin, next,
                         overlapped, skipped, failed>>
    BY <1>20 DEF TakeOff
  <2>2. /\ Engaged(t) /\ \A u \in Threads \ {t} : todo'[u] = todo[u]
        /\ \A y \in Types : y # z => bus'[y] = bus[y]
    BY <2>1 DEF Engaged, LoadPhase, Unregistering, CallInv, TypeOK
  <2>3. \A p \in PluginNames \ {plugin[t]} :
           p \notin overlapped => \A y \in Own(p) : bus'[y] = bus[y]
    BY <2>1, <2>2, OwnType DEF TracedInv, OwnApart
  <2>4. Nodes(t)'
    BY <2>1 DEF Nodes, Importing, Unregistering
  <2> QED
    BY <2>1, <2>2, <2>3, <2>4, NodesElse DEF Intact
<1>21. ASSUME NEW t \in Threads, DropClass(t) PROVE NodesInv'
  <2>1. /\ Unregistering(t)
        /\ index' = [index EXCEPT ![current[t]] = None]
        /\ UNCHANGED <<loaded, record, bus, pc, plugin, next, todo,
                       overlapped, skipped, failed>>
    BY <1>21 DEF DropClass, Drop
  <2>2. Engaged(t) /\ \A y \in Types : y # current[t] => index'[y] = index[y]
    BY <2>1 DEF Engaged, LoadPhase, Unregistering, CallInv, TypeOK
  <2>3. \A p \in PluginNames \ {plugin[t]} :
           p \notin overlapped => \A y \in Own(p) : index'[y] = index[y]
    BY <2>1, <2>2, OwnType DEF TracedInv, OwnApart
  <2>4. Nodes(t)'
    BY <2>1 DEF Nodes, Importing, Unregistering
  <2> QED
    BY <2>1, <2>2, <2>3, <2>4, NodesElse DEF Intact
<1>22. ASSUME NEW t \in Threads, RolledBack(t) PROVE NodesInv'
  BY <1>22, NodesKept DEF RolledBack, Intact, CallInv, TypeOK
<1>23. ASSUME NEW t \in Threads, Unloaded(t) PROVE NodesInv'
  BY <1>23, NodesKept DEF Unloaded, Done, Intact, CallInv, CallsOK, TypeOK
<1>24. ASSUME NEW t \in Threads, HookRaises(t) PROVE NodesInv'
  BY <1>24, NodesKept DEF HookRaises, Intact, CallInv, TypeOK
<1>25. ASSUME NEW t \in Threads, UnloadHook(t) PROVE NodesInv'
  BY <1>25, NodesKept DEF UnloadHook, Intact, CallInv, TypeOK
<1>26. ASSUME NEW t \in Threads, UnloadRaises(t) PROVE NodesInv'
  BY <1>26, NodesKept DEF UnloadRaises, Done, Intact, CallInv, TypeOK
<1>27. CASE UNCHANGED vars
  BY <1>27, NodesKept DEF vars, Intact
<1> QED
  BY <1>1, <1>2, <1>3, <1>4, <1>5, <1>6, <1>7, <1>8, <1>9, <1>10, <1>11, <1>12, <1>13,
     <1>14, <1>15, <1>16, <1>17, <1>18, <1>19, <1>20, <1>21, <1>22, <1>23, <1>24, <1>25, <1>26,
     <1>27 DEF Next

\* A loaded plugin has recorded its types and they are on the bus and in the
\* index, whatever others load and unload, unless one of its modules was skipped
\* for its key in sys.modules, a load of it failed, or one overlapped with another.
THEOREM LoadedServes == Spec => []LoadedHasItsNodes
<1>1. NodesInv => LoadedHasItsNodes
  BY DEF NodesInv, LoadedNodes, LoadedHasItsNodes, Intact, OnOffer, Leaving, Busy
<1> QED
  BY NodesInit, NodesStep, <1>1, PTL DEF Spec
=============================================================================
