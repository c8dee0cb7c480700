-------------------------------- MODULE Plugins --------------------------------
(***************************************************************************)
(* plugins/manager.py: PluginManager loads plugins by importing their node *)
(* modules, each of which registers a node type, and unloads them by       *)
(* unregistering the types that appeared while they were loaded.           *)
(*                                                                         *)
(* The manager's lock is not held while modules are imported. A second     *)
(* lock lets one thread import at a time. Registration takes neither: the  *)
(* index of node classes and the module bus have locks of their own.       *)
(***************************************************************************)
EXTENDS Naturals, Sequences, FiniteSets, Functions

CONSTANTS
    Threads,     \* callers of the manager
    PluginNames, \* the plugins that discover finds
    Types,       \* node types
    Provides,    \* [PluginNames -> Seq(Types)]: what its modules register, in order
    Names,       \* keys of sys.modules
    ModName,     \* the key of each module. That of a file is made of the plugin's
                 \*   name, with _ for what is no letter or digit, and the file's name
                 \*   without its directory: modules of one plugin, or of two, may
                 \*   have one key. That of a dotted module is its name.
    None         \* no thread, no plugin, no type, not in sys.modules

ASSUME ProvidesAssumption == Provides \in [PluginNames -> Seq(Types)]
ASSUME ModNameAssumption  == \A p \in PluginNames : ModName[p] \in [DOMAIN Provides[p] -> Names]
ASSUME NoneAssumption     == None \notin Threads \cup PluginNames \cup Types

VARIABLES
    enabled,    \* _enabled_state
    loading,    \* _loading
    loaded,     \* the keys of _loaded
    record,     \* plugin -> _registered_node_types
    index,      \* node type -> the plugin whose class is in _NODE_CLASSES
    bus,        \* node type -> the plugin whose class is on the module bus
    imported,   \* sys.modules: key -> the plugin and the number of the module that ran
    lock,       \* who unloads under the manager's lock
    importLock, \* who holds _import_lock
    pc, plugin, \* where each thread is, and with which plugin
    next,       \* the module it imports
    before,     \* the node types on the bus before that
    todo,       \* the types it recorded, or has still to unregister
    current,    \* the one it has taken off the bus but not out of the index
    overlapped, \* history: loads that registered while another took its snapshots
    failed,     \* history: plugins with a load that raised before it could roll back
    skipped,    \* history: plugins whose last load found a key in sys.modules
    escaped     \* history: plugins disabled after load looked, or disabled but
                \*   not unloaded because that raised

manager  == <<enabled, loading, loaded, record>>
registry == <<index, bus, imported>>
locks    == <<lock, importLock>>
local    == <<pc, plugin, next, before, todo, current>>
history  == <<overlapped, failed, skipped, escaped>>
vars     == <<manager, registry, locks, local, history>>

Init ==
    /\ enabled = [p \in PluginNames |-> TRUE]
    /\ loading = {} /\ loaded = {}
    /\ record = [p \in PluginNames |-> {}]
    /\ index = [y \in Types |-> None]
    /\ bus = [y \in Types |-> None]
    /\ imported = [n \in Names |-> None]
    /\ lock = None /\ importLock = None
    /\ pc = [t \in Threads |-> "idle"]
    /\ plugin = [t \in Threads |-> None]
    /\ next = [t \in Threads |-> 1]
    /\ before = [t \in Threads |-> {}]
    /\ todo = [t \in Threads |-> {}]
    /\ current = [t \in Threads |-> None]
    /\ overlapped = {} /\ failed = {} /\ skipped = {} /\ escaped = {}

OnBus == {y \in Types : bus[y] # None}

\* between its check and its entry in _loaded
Underway(p) == \E t \in Threads : plugin[t] = p /\ pc[t] \notin {"unhook", "unload"}

Goto(t, label) == pc' = [pc EXCEPT ![t] = label]

\* the call is over
Done(t) ==
    /\ pc' = [pc EXCEPT ![t] = "idle"]
    /\ plugin' = [plugin EXCEPT ![t] = None]
    /\ next' = [next EXCEPT ![t] = 1]
    /\ before' = [before EXCEPT ![t] = {}]
    /\ todo' = [todo EXCEPT ![t] = {}]
    /\ current' = [current EXCEPT ![t] = None]

-----------------------------------------------------------------------------
(* load, phase 1: three short sections under the lock *)

\* loaded, loading and disabled plugins are refused,
Check(t, p) ==
    /\ pc[t] = "idle" /\ lock = None
    /\ p \notin loaded \cup loading
    /\ enabled[p]
    /\ Goto(t, "mark")
    /\ plugin' = [plugin EXCEPT ![t] = p]
    /\ UNCHANGED <<manager, registry, locks, next, before, todo, current, history>>

\* (mutants are marked so: each is a plausible bug that a run must catch)
\* mutant: the second look is left out
Ready(p) == TRUE

Free(p) == p \notin loaded \cup loading

\* and once more after discover, except for disabled ones.
Mark(t) ==
    LET p == plugin[t] IN
    /\ pc[t] = "mark" /\ lock = None
    /\ Free(p)
    /\ loading' = loading \cup {p}
    /\ Goto(t, "snapshot")
    /\ UNCHANGED <<enabled, loaded, record, registry, locks, plugin, next, before, todo, current, history>>

AlreadyLoaded(t) ==
    /\ pc[t] = "mark" /\ lock = None
    /\ ~Free(plugin[t])
    /\ Done(t)
    /\ UNCHANGED <<manager, registry, locks, history>>

-----------------------------------------------------------------------------
(* load, phase 2: without the lock *)

Snapshot(t) ==
    /\ pc[t] = "snapshot"
    /\ before' = [before EXCEPT ![t] = OnBus]
    /\ skipped' = skipped \ {plugin[t]}
    /\ Goto(t, "import")
    /\ UNCHANGED <<manager, registry, locks, plugin, next, todo, current,
                   overlapped, failed, escaped>>

BeginImport(t) ==
    /\ pc[t] = "import"
    /\ importLock = None
    /\ importLock' = t
    /\ Goto(t, "module")
    /\ UNCHANGED <<manager, registry, lock, plugin, next, before, todo, current, history>>

Module(t) == <<plugin[t], next[t]>>
Provided(t) == Provides[plugin[t]][next[t]]
ModuleKey(t) == ModName[plugin[t]][next[t]]
HasModule(t) == pc[t] = "module" /\ next[t] <= Len(Provides[plugin[t]])

Known(t) == imported[ModuleKey(t)] # None

\* a module whose key is in sys.modules is not run: it registers nothing,
\* whether it ran before or another one that has its key did
KnownModule(t) ==
    /\ HasModule(t)
    /\ Known(t)
    /\ next' = [next EXCEPT ![t] = @ + 1]
    /\ skipped' = skipped \cup {plugin[t]}
    /\ UNCHANGED <<manager, registry, locks, pc, plugin, before, todo, current,
                   overlapped, failed, escaped>>

\* a new one runs: register_node writes the index,
IndexClass(t) ==
    /\ HasModule(t)
    /\ ~Known(t)
    /\ index' = [index EXCEPT ![Provided(t)] = plugin[t]]
    /\ Goto(t, "register")
    /\ UNCHANGED <<manager, bus, imported, locks, plugin, next, before, todo, current, history>>

\* between its two snapshots of the bus
Watching(t) == pc[t] \in {"import", "module", "register", "body", "attribute"}

Disturbed(t) == {u \in Threads \ {t} : Watching(u) /\ plugin[u] # plugin[t]}

\* then the bus,
RegisterClass(t) ==
    /\ pc[t] = "register"
    /\ bus' = [bus EXCEPT ![Provided(t)] = plugin[t]]
    /\ Goto(t, "body")
    /\ overlapped' = IF Disturbed(t) = {} THEN overlapped
                     ELSE overlapped \cup {plugin[u] : u \in Disturbed(t) \cup {t}}
    /\ UNCHANGED <<manager, index, imported, locks, plugin, next, before, todo, current,
                   failed, skipped, escaped>>

\* and comes to its end (its key is in sys.modules from the start, but nobody
\* else imports before the import lock is free),
ModuleEnds(t) ==
    /\ pc[t] = "body"
    /\ imported' = [imported EXCEPT ![ModuleKey(t)] = Module(t)]
    /\ next' = [next EXCEPT ![t] = @ + 1]
    /\ Goto(t, "module")
    /\ UNCHANGED <<manager, index, bus, locks, plugin, before, todo, current, history>>

\* or raises, before or after it registered its class. It is not kept in
\* sys.modules then, but the types registered so far stay, recorded by nobody.
ModuleRaises(t) ==
    /\ (HasModule(t) /\ ~Known(t)) \/ pc[t] = "body"
    /\ importLock' = None
    /\ failed' = failed \cup {plugin[t]}
    /\ Goto(t, "failed")
    /\ UNCHANGED <<manager, registry, lock, plugin, next, before, todo, current,
                   overlapped, skipped, escaped>>

LastModule(t) ==
    /\ pc[t] = "module"
    /\ next[t] > Len(Provides[plugin[t]])
    /\ importLock' = None
    /\ Goto(t, "attribute")
    /\ UNCHANGED <<manager, registry, lock, plugin, next, before, todo, current, history>>

\* mutant: what was there before is recorded too
AllTypes(t) == OnBus

NewTypes(t) == OnBus \ before[t]

\* whatever appeared meanwhile is taken for the plugin's
Attribute(t) ==
    /\ pc[t] = "attribute"
    /\ todo' = [todo EXCEPT ![t] = NewTypes(t)]
    /\ Goto(t, "hook")
    /\ UNCHANGED <<manager, registry, locks, plugin, next, before, current, history>>

\* on_load is not defined, not found or not callable, or runs
HookSucceeds(t) ==
    /\ pc[t] = "hook"
    /\ Goto(t, "finish")
    /\ UNCHANGED <<manager, registry, locks, plugin, next, before, todo, current, history>>

\* it raises when called: what was recorded is unregistered
HookFails(t) ==
    /\ pc[t] = "hook"
    /\ Goto(t, "rollback")
    /\ UNCHANGED <<manager, registry, locks, plugin, next, before, todo, current, history>>

\* it cannot be called, because importing its file raises: the exception leaves
\* load, and what was recorded stays where it is
HookRaises(t) ==
    /\ pc[t] = "hook"
    /\ failed' = failed \cup {plugin[t]}
    /\ Goto(t, "failed")
    /\ UNCHANGED <<manager, registry, locks, plugin, next, before, todo, current,
                   overlapped, skipped, escaped>>

\* load raises
Discard(t) ==
    /\ pc[t] = "failed" /\ lock = None
    /\ loading' = loading \ {plugin[t]}
    /\ Done(t)
    /\ UNCHANGED <<enabled, loaded, record, registry, locks, history>>

-----------------------------------------------------------------------------
(* load, phase 3: under the lock again *)

\* Whether the plugin is still enabled is not asked, and it is never loaded
\* already (TypeOK): the roll-back the code has for that case cannot run.
Finish(t) ==
    LET p == plugin[t] IN
    /\ pc[t] = "finish" /\ lock = None
    /\ loading' = loading \ {p}
    /\ loaded' = loaded \cup {p}
    /\ record' = [record EXCEPT ![p] = todo[t]]
    /\ Done(t)
    /\ UNCHANGED <<enabled, registry, locks, history>>

-----------------------------------------------------------------------------
(* unload and disable, under the lock; the end of a failed load, without it *)

\* on_unload comes first
BeginUnload(t, p) ==
    /\ lock' = t
    /\ Goto(t, "unhook")
    /\ plugin' = [plugin EXCEPT ![t] = p]

Unload(t, p) ==
    /\ pc[t] = "idle" /\ lock = None
    /\ p \in loaded
    /\ BeginUnload(t, p)
    /\ UNCHANGED <<manager, registry, importLock, next, before, todo, current, history>>

\* mutant: a loaded plugin is only marked
DisableLater(t, p) ==
    /\ pc[t] = "idle" /\ lock = None
    /\ enabled' = [enabled EXCEPT ![p] = FALSE]
    /\ escaped' = IF Underway(p) THEN escaped \cup {p} ELSE escaped
    /\ UNCHANGED <<loading, loaded, record, registry, locks, local, overlapped, failed, skipped>>

Disable(t, p) ==
    /\ pc[t] = "idle" /\ lock = None
    /\ enabled' = [enabled EXCEPT ![p] = FALSE]
    /\ escaped' = IF Underway(p) THEN escaped \cup {p} ELSE escaped
    /\ IF p \in loaded THEN BeginUnload(t, p) ELSE UNCHANGED <<lock, pc, plugin>>
    /\ UNCHANGED <<loading, loaded, record, registry, importLock, next, before, todo, current,
                   overlapped, failed, skipped>>

Enable(t, p) ==
    /\ pc[t] = "idle" /\ lock = None
    /\ enabled' = [enabled EXCEPT ![p] = TRUE]
    /\ escaped' = escaped \ {p}
    /\ UNCHANGED <<loading, loaded, record, registry, locks, local, overlapped, failed, skipped>>

\* whether on_unload runs or fails, its plugin is unloaded,
UnloadHook(t) ==
    /\ pc[t] = "unhook"
    /\ todo' = [todo EXCEPT ![t] = record[plugin[t]]]
    /\ Goto(t, "unload")
    /\ UNCHANGED <<manager, registry, locks, plugin, next, before, current, history>>

\* unless importing its file raises: then the plugin stays loaded, disabled or not
UnloadRaises(t) ==
    LET p == plugin[t] IN
    /\ pc[t] = "unhook"
    /\ lock' = None
    /\ escaped' = IF enabled[p] THEN escaped ELSE escaped \cup {p}
    /\ Done(t)
    /\ UNCHANGED <<manager, registry, importLock, overlapped, failed, skipped>>

Unregistering(t) == pc[t] \in {"unload", "rollback"}

\* each type is taken off the bus,
TakeOff(t) ==
    /\ Unregistering(t) /\ current[t] = None
    /\ \E y \in todo[t] :
          /\ bus' = [bus EXCEPT ![y] = None]
          /\ current' = [current EXCEPT ![t] = y]
          /\ todo' = [todo EXCEPT ![t] = @ \ {y}]
    /\ UNCHANGED <<manager, index, imported, locks, pc, plugin, next, before, history>>

\* mutant: the index keeps its class
Forget(t) == UNCHANGED index

Drop(t) == index' = [index EXCEPT ![current[t]] = None]

\* then out of the index
DropClass(t) ==
    /\ Unregistering(t) /\ current[t] # None
    /\ Drop(t)
    /\ current' = [current EXCEPT ![t] = None]
    /\ UNCHANGED <<manager, bus, imported, locks, pc, plugin, next, before, todo, history>>

RolledBack(t) ==
    /\ pc[t] = "rollback" /\ current[t] = None /\ todo[t] = {}
    /\ Goto(t, "failed")
    /\ UNCHANGED <<manager, registry, locks, plugin, next, before, todo, current, history>>

Unloaded(t) ==
    LET p == plugin[t] IN
    /\ pc[t] = "unload" /\ current[t] = None /\ todo[t] = {}
    /\ loaded' = loaded \ {p}
    /\ record' = [record EXCEPT ![p] = {}]
    /\ lock' = None
    /\ Done(t)
    /\ UNCHANGED <<enabled, loading, registry, importLock, history>>

-----------------------------------------------------------------------------
Next ==
    \E t \in Threads :
        \/ \E p \in PluginNames :
              Check(t, p) \/ Unload(t, p) \/ Disable(t, p) \/ Enable(t, p)
        \/ Mark(t) \/ AlreadyLoaded(t)
        \/ Snapshot(t) \/ BeginImport(t)
        \/ KnownModule(t) \/ IndexClass(t) \/ RegisterClass(t) \/ ModuleEnds(t)
        \/ ModuleRaises(t) \/ LastModule(t)
        \/ Attribute(t) \/ HookSucceeds(t) \/ HookFails(t) \/ HookRaises(t)
        \/ Discard(t) \/ Finish(t)
        \/ UnloadHook(t) \/ UnloadRaises(t)
        \/ TakeOff(t) \/ DropClass(t) \/ RolledBack(t) \/ Unloaded(t)

Spec == Init /\ [][Next]_vars

-----------------------------------------------------------------------------
(* Properties *)

Labels == {"idle", "mark", "snapshot", "import", "module", "register", "body", "attribute",
           "hook", "finish", "failed", "rollback", "unhook", "unload"}

\* Every variable has its type, and no plugin is loaded and being loaded: the
\* look before the mark is enough, though checking, looking for the plugin and
\* marking it are three sections.
TypeOK ==
    /\ enabled \in [PluginNames -> BOOLEAN]
    /\ loading \subseteq PluginNames /\ loaded \subseteq PluginNames
    /\ loading \cap loaded = {}
    /\ record \in [PluginNames -> SUBSET Types]
    /\ index \in [Types -> PluginNames \cup {None}]
    /\ bus \in [Types -> PluginNames \cup {None}]
    /\ imported \in [Names -> (PluginNames \X Nat) \cup {None}]
    /\ lock \in Threads \cup {None} /\ importLock \in Threads \cup {None}
    /\ pc \in [Threads -> Labels]
    /\ plugin \in [Threads -> PluginNames \cup {None}]
    /\ next \in [Threads -> Nat]
    /\ before \in [Threads -> SUBSET Types] /\ todo \in [Threads -> SUBSET Types]
    /\ current \in [Threads -> Types \cup {None}]

Own(p) == {y \in Types : \A q \in PluginNames : y \in Range(Provides[q]) <=> q = p}

Busy(p) == \E t \in Threads : plugin[t] = p

\* "Unloading reverses the process": of a plugin that is not loaded, nothing is
\* left on the bus or in the index, after an unload or a hook that failed and
\* whatever other threads load, provided that each of its modules and the file of
\* its on_load could be imported (else nothing is rolled back) and that no load
\* registered types while another was taking stock of them. Types that other
\* plugins provide too are excepted.
NothingLeftBehind ==
    \A p \in PluginNames \ (loaded \cup failed \cup overlapped) :
        ~Busy(p) => \A y \in Own(p) : bus[y] = None /\ index[y] = None

\* A loaded plugin has recorded its types, and they are on the bus and in the
\* index, provided that no load overlapped with another, that no module was
\* skipped for its key in sys.modules when it was loaded (because it ran before an
\* unload, or another file has the key) and that no load had raised (what was registered before that
\* is no news to the next load).
LoadedHasItsNodes ==
    \A p \in loaded \ (overlapped \cup skipped \cup failed) :
        ~Busy(p) => \A y \in Own(p) : y \in record[p] /\ bus[y] = p /\ index[y] = p

\* disable "unloads it first" and load refuses what is disabled: a plugin that
\* is loaded is enabled, unless it was disabled after load had looked or could
\* not be unloaded for an on_unload whose import raises.
DisabledStaysOut ==
    lock = None => \A p \in loaded : enabled[p] \/ p \in escaped
================================================================================
