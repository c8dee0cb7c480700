# TLA+ models of torcha-verse

torcha-verse is a Python framework for assembling generative-media workflows:
graphs of nodes (text, image, video, audio) that resolve their models through a
registry, take GPU memory from a shared budget and keep their results in a
tiered asset store. This directory models the parts of it in which threads,
locks, files and failures interact. Tensor code is not modelled.

Paths below are relative to `src/`.

## 1. The system

| Part | State it keeps | Operations | Talks to |
|---|---|---|---|
| Resource budget `infrastructure/resource_budget/` | totals per resource, allocations by handle, a `Condition` with its waiters | `allocate`, `try_acquire`, `allocate_or_wait`, `allocate_many`, `allocate_with_backoff`, `release`, `release_all`, `AllocationHandle.release` | node executors, tenants, serving |
| Pipeline graph `pipeline/dag.py` | nodes with declared dependencies, edges, a lock | `add_node`, `add_edge`, `topological_sort`, `parallel_groups` | pipeline, canvas |
| Pipeline execution `pipeline/composer.py` | running flag, cancel and pause events, a thread pool | `run`, `cancel`, `pause`, `resume`, `close` | graph, node context, progress callback |
| Node registry `nodes/base/_registry_index.py` | an index of node classes, a lock | `register_node`, `_unregister_node_class`, `get`, `search` | module bus, plugins |
| Node context `nodes/base/_context.py` | outputs of nodes, explicit executors, executor cache | `set_output`, `register_executor`, `resolve_executor` | module bus, pipeline threads |
| Module bus `core/module_bus.py` | registry of factories, instance cache, a lock per cache key | `register`, `unregister`, `resolve`, `invalidate`, `invalidate_all` | nodes, plugins, runtime switch |
| Plugin manager `plugins/manager.py` | available, loading and loaded plugins, enabled state on disk | `load`, `unload`, `enable`, `disable`, `discover` | node registry, module bus |
| Asset store `assets/store/` | metadata in SQLite, blobs in hot, warm and cold tiers | `put`, `get`, `fork`, `delete`, `evict_to_cold` | file system |
| Model cache `models/source/cache.py` | files and a manifest per entry, a lock per instance | `write_files`, `has`, `load_manifest`, `verify`, `find_by_fingerprint`, `clear` | fetcher, file system |
| Model fetcher `models/source/fetch/` | a cache, an adapter shared by the calls | `fetch` | model cache, hubs |
| Checkpoint manager `infrastructure/checkpoint_manager/` | three files per checkpoint | `save_checkpoint`, `load_checkpoint`, `prune_checkpoints` | training, file system |
| Training loop `training/sft_trainer.py` | the global step, model and optimizer | `train`, `load_checkpoint`, `resume` | checkpoint manager |
| Canvas `canvas/` | nodes, connections, a lock; a history of versions with another | `add_node`, `remove_node`, `connect`, `disconnect`, `commit`, `revert`, `branch`, `merge` | pipeline graph, web front end |
| Schedulers `infrastructure/scheduler.py` | counters, an executor | `submit`, `shutdown`, `stats` | serving |
| Rate limiter `infrastructure/rate_limiter.py` | tokens, time of the last refill | `try_acquire`, `acquire`, `reset` | serving |
| LRU cache store `infrastructure/cache_store.py` | ordered entries with expiry times | `get`, `set`, `prune_expired` | services |
| Runtime switch `models/runtime/module_bus_runtime_switch.py` | the active configuration | `enable_local_runtime`, `disable_local_runtime` | module bus |
| Agents, retrieval, serving, security, consistency, models, other trainers, papers | prompts, indexes, profiles, weights | inference, I/O | the layers below |

How they interact: a caller builds a `Pipeline` over a `DAG` and calls `run`.
Layer by layer, every node of a layer is submitted to the pool; a pool thread
gathers its inputs from the context, resolves the executor (explicitly
registered, or through the module bus) and stores the outputs. Executors take
budget from the tracker and give it back through handles. Plugins add and
remove entries of the bus while this goes on. What the nodes produce goes into the
asset store; what they compute with comes through the fetcher from the model
cache, or from a checkpoint that a trainer saved. A canvas is edited by hand and
turned into a pipeline.

### What is hard, and what would make each part correct

`PROJECT.json` lists the hazards at their lines. The main ones:

- **Budget.** Check and counting in one critical section on five allocation
  paths; wake-ups that must not be lost; a deadline racing a release; handles
  released twice. Correct: limits hold, totals equal what is allocated, nobody
  sleeps while served could be, every grant comes back once.
- **Pipeline.** `cancel`, `pause`, `resume` and `close` race with a run that
  reads events and the executor without the lock; nodes of a layer fail while
  others execute. Correct: one run at a time, no node before its inputs,
  nothing executing when `run` is over, cancellation at the layer boundary,
  every run ends.
- **Graph.** `parallel_groups` reads the graph twice with the lock released in
  between. Correct: the order respects dependencies, groups are layers, only
  real cycles are reported.
- **Module bus.** A factory runs outside the lock between a read of the registry
  and a write of the cache. Correct: one shared instance per key, made by the
  factory that is registered.
- **Plugins.** Modules are imported without the manager's lock, and what a plugin
  registered is found out by comparing two snapshots of the bus; hooks and
  imports fail half way; a plugin is disabled while it is being loaded. Correct:
  what is unloaded leaves nothing behind, what is loaded has its nodes, what is
  disabled is not loaded.
- **Node context.** A cached "not found" overtaking a registration.
- **Asset store.** A put decides on a snapshot of the revisions and writes a blob,
  a row and a mirror one after the other; evictions take no lock; saves fail
  after the object in memory has changed. Correct: histories only grow, a
  reference means one content for ever, an asset has one revision per content, the
  hot tier agrees with the table.
- **Model cache.** Readers take no lock while files and manifest are written or
  unlinked one by one; a crash leaves any part of that. Correct: a manifest
  lists what is there, a fetch that verified returns what its manifest says.
- **Checkpoints.** Three files written in place, pruning, failures that are
  ignored, restarts that count from 0. Correct: a load restores one save, the
  last completed save is kept.
- **Canvas.** A merge reads two canvases and replaces one in three locked
  sections. Correct: no cycles, whole wires, nothing lost in a merge.
- **Schedulers, rate limiter, cache store, runtime switch.** Counters and
  limits at their boundaries, shutdown racing submission.

## 2. Plan

The order is that of importance to a workflow run.

1. `ResourcePool` (abstract), `BudgetTracker` (implements it),
   `BudgetTrackerProofs`. *Done.*
2. `DAG`, then `Pipeline`, which assumes of its groups what `DAG` shows of them,
   `PipelineProofs` about both. *Done.*
3. `ModuleBus`, `ModuleBusProofs`. *Done.*
4. `ContentLedger` (abstract) and `AssetStore`, which implements it,
   `AssetStoreProofs`. *Done.*
5. `ModelCache`, with the fetcher that calls it, `ModelCacheProofs`. *Done.*
6. `Training`, the training loop over the checkpoint manager, `TrainingProofs`.
   *Done.*
7. `Plugins`, the plugin manager over the registry and the bus, `PluginsProofs`.
   *Done.*
8. `Canvas`, with its history, `CanvasProofs`. *Done.*
9. Theorems for every safety property that a run checks, and for both
   refinements. *Done.*
10. Not begun: `NodeContext` over the bus, `Scheduler`, `RateLimiter`,
    `CacheStore`, `RuntimeSwitch`, and the feasibility estimate as operators
    compared with `allocate`.

## 3. Modules

A module models one component; `MC*` modules give small instances their
constants; `*Proofs` modules hold the theorems. Definitions marked *mutant* are
not part of any specification: each is a plausible bug of the definition below
it, kept to show that a property notices it.

### BudgetTracker

Every public method holds one `RLock` throughout, so a method is one action,
except where it gives the lock up. `allocate_or_wait` becomes `TryAcquire` (served
in the first pass), `StartWaiting` (asleep in `Condition.wait`), and
`ServeWaiter`, `GiveUp` or `WaitAgain` once woken; `DeadlinePasses` is time.
`allocate_with_backoff` is `StartBackoff`, `RetryServed` and `RetryFailed`.
`AllocationHandle.release` reads its flag, calls the tracker and sets the flag in
three steps. `Plus` and `Minus` are the counters with their clamp at 0; amounts
are integers, in units larger than the 1e-9 tolerance of `_fits`.
`ResourcePool` is what the tracker promises: a grant is given out while it fits
and comes back once, with nothing else visible.

Bounds: `Handles` bounds the handle objects alive at once (an identity off the
books that no call refers to stands for the next uuid4); `MaxAttempts` is the
code's own parameter.

### DAG

One call of `parallel_groups` against threads that add nodes and edges. The sort
holds the lock (`phase = "sort"`), so no other thread moves during it; the second
read (`ReadEdges`) is a step of its own and the depths (`DepthOfNext`) are
computed from local copies. A node's dependencies are a set, as in the code,
where a duplicate edge or an edge repeating a declared dependency changes nothing.
The instance of the run declares nothing: both locked sections put the declared
dependencies and the edges of a node into one set before they use either.
`InOrder` is a filter over `_nodes`: some of the ids, in insertion order. The names of
this module differ from those of `Pipeline`, so that one module can prove about both.

### Pipeline

`run()` is a program counter per call: claim under `_run_lock`, reset of the two
events, then per layer the pause loop, the cancel check, creation and reading of
the executor, one `Submit` per node, one `Collect` per future in the order of
submission, and `Drain` when a node failed. `StartNode` and `EndNode` are the
pool's threads. `Cancel`, `Pause` and `Resume` take no lock and may come at any
step; `Close` takes the lock. While a run resets its events it holds `_run_lock`:
`InReset` keeps other claims, `Close` and `Finish` out. The set of keys stands for
the results mapping and for the outputs in the context. `stopAt` records, when
`cancel()` comes, the last group that may still execute.

`EarlyCancel`, `CloseDuringRun` and `CallbackRaises` switch the three situations on in
which the code does not keep what it says (section 5): `pipeline_safe` is without
them, `pipeline_full` with them. A pool with fewer workers than a run needs is
replaced by the code before that run submits anything: an open pool for an open one,
so `EnsureExecutor` does not count workers.

### ModuleBus

The three locked sections of `resolve` are `StartResolve`, `DoubleCheckHit` or
`DoubleCheckMiss`, and `Store`; `Acquire` takes the lock of the cache key and
`FactoryReturns` or `FactoryRaises` is the call outside the global lock. The lock objects of a
key are numbered, because clearing the table makes two of them live at once.
An instance is identified by its factory and the thread that made it.
`disturbed` records that a key was cleared under a resolve in progress, `built`
counts the instances since the key was last cleared.

### AssetStore and ContentLedger

A content stands for its SHA-256, and revision `r<i>` is position `i` of `revs`.
A put is `Put`, `Begin` (the snapshot under the lock), `Stage` (copy and hash
without it), then `Place`, `Save` or `SaveFails`, and `Push`. The last three run
under one lock; they are separate steps because `evict_to_cold` and
`promote_from_cold` take none and the process may die between them. `LockFree`
keeps everything else out. `Loaded` is `_load_asset`: the hot tier's object, else the
row. Objects are shared with callers: `MayShare` says whether the object that a put
changes is the one in the hot tier, and a put that failed leaves the caller an
object with one revision more, which `Put` may bring again. `Get` stands for
`get`, `exists` and `verify`; `Fork` ends in a put of its own. `Close`, `Crash` and
`Reopen` keep table and blobs. A blob in the cold tier is absent, torn or whole.

History: `issued` are the references put returned, `lost` the contents evicted
without a whole cold copy, `overlap` the contents whose puts overlapped in the phase
without the lock. `ContentLedger` is what remains when tiers, locks and phases
are taken away; the refinement maps its `log` to the rows and its `known` to
what some tier holds, or held before an eviction dropped it.

### ModelCache

The version of a model that the source served stands for its bytes; a manifest
is the version it lists. `StartWrite`, `WriteFile` and `WriteManifest` are
`write_files`, `StartClear`, `Unlink` and `Cleared` are `clear`: file by file,
with `Interrupted` and `Crash` at any of them. The fetch around them is
`models/source/fetch/_inner.py`: `Lookup`, `Verify` and `CheckFile` (no lock), `StartClear`
when a hit does not verify, `Download`, `Dedup` or `StartWrite`, and a
verification after the write. `got` is the manifest a fetch returns: the one it wrote,
or the one `Hit` loads. `listed` is the one `verify` reads, which after a write is
whatever manifest is there by then. `Below` says which entries lie in the directory of
another: a repository without a revision is the parent of its revisions.
`Dedup` leaves out the caller's own entry where the code cannot recognise it: a
path without a revision is read back as another repository. `Rot` is a file
changed behind the cache's back.

History: `unsettled` are the entries whose old manifest a write or a clear was
outdating when it ended early, or is; `touched` are the fetches whose entry was
changed since they began to verify it, or between their own write and the check of it.

### Training

`Train`, `Batch` and `EndOfEpoch` are the loop; `SaveNow` enters a save, which is
`WriteWeights`, `WriteState`, `WriteMeta`, one `Prune` per excess directory, and
`Saved`. A file is the number of the save that wrote it, or `Torn`. `SaveFails`
is an exception while writing, which the trainer logs before it goes on. `Load` is
`load_checkpoint`; `unsafe` is the caller's permission to unpickle, which
`SFTTrainer` never gives and other callers of the manager may. `LoadRaises` keeps
what was loaded before the exception. `Resume` always ends in one. `Crash` starts
a new process at step 0 over the same directories. `last` and `unsettled` record
the last completed save and the directories in which a save or a deletion has
not ended.

### Plugins

A plugin is the sequence of the types its modules register. `ModName` gives each
module its key in `sys.modules`: two modules may have one, because the code makes the
key of a file of the plugin's name and the file's stem. `load` is `Check` and
`Mark` (two looks under the lock), `Snapshot`, then under the import lock
`IndexClass`, `RegisterClass` and `ModuleEnds` per module, or `KnownModule` for one
whose key is in `sys.modules`, or `ModuleRaises`; then `Attribute` (the difference of
the snapshots), the hook, and `Finish` or `Discard` under the lock. The hook runs or is
not found (`HookSucceeds`), raises when called and is rolled back (`HookFails`), or raises
while its file is imported, which leaves `load` without a roll-back (`HookRaises`).
`Unload` and `Disable` hold the lock from `BeginUnload` to `Unloaded`: on_unload comes first
(`UnloadHook`, whether it runs or fails), and if its file cannot be imported the call ends there
(`UnloadRaises`). Then they take each type off
the bus (`TakeOff`) and out of the index (`DropClass`) in two sections of two
other locks. Deadlock is checked.

History: `overlapped` loads had another load register types between their
snapshots, `failed` plugins had a load that raised without a roll-back, `skipped`
plugins had a module whose key was known when they were last loaded, `escaped` ones
were disabled after `load` had looked, or disabled but not unloaded because that raised.

### Canvas

Edits of a canvas are one locked section each (`Added`, `Removed`, `Connected`,
`Disconnected`); the checks of `connect` are `MayConnect`, with `Reaches` for
`would_create_cycle`, which says of sets of nodes what the code finds by a search. `history.merge` holds the history's lock and takes the
canvases' in `ReadCanvas`, `ReadBranch` and `Replace`. The merge connects the
branch's wires one by one and swallows refusals: `Accepted` are the results over
all orders. The ids of merged nodes are `Prefixed`; an id that is taken makes the merge
raise. Types of ports, positions and node inputs are left out, and with
them the checks and edits about nothing else.

## 4. Runs

All runs use breadth-first search to completion; the largest, `model_cache`, has
3.6 million distinct states. `CHECK_DEADLOCK FALSE` is set
where the system may really stop: threads that all wait for budget held by
nobody who must release it, a pipeline whose runs are over, a graph call that
returned, a bound on puts, fetches, saves or edits that is used up.

| Run | Instance | Shows |
|---|---|---|
| `budget_core` | 3 threads, 3 handles, 2 GB, 1 model slot, five kinds of request | `TypeOK`, `WithinBudget`, `NoSleepingWhileFits`, `ReleasedIsReturned`, and that the tracker implements `ResourcePool` |
| `budget_full` | 2 threads, 4 handles, batches and `release_all` too | `Accounting` |
| `budget_live` | 3 threads, 3 handles, 1 GB | `TimedWaitEnds`, `DrainedLeavesNobodyBlocked` |
| `dag` | every graph over 3 nodes, built edge by edge before and during the call | `GraphTypeOK`, `OrderRespectsDependencies`, `CycleIsReal`, `GroupsAreLayers` |
| `pipeline_safe` | 2 runs over a diamond | `TypeOK`, `OneRun`, `QuietAfterReturn`, `CancelStopsNextLayer` |
| `pipeline_full` | 2 runs over a fork, everything switched on | `InputsReady`, `RunEnds`, `CancelEndsRun` |
| `module_bus` | 2 threads, 2 versions, 2 factories | `TypeOK`, `AtMostOnce`, `CacheIsCurrent`, `NeverReplaced`, `ResolveEnds` |
| `asset_store` | 2 threads, 2 assets, 2 contents of one size, a hot tier of 1, 3 puts | `TypeOK`, `OneRevisionPerContent`, `HotIsFresh`, and that the store implements `ContentLedger` |
| `model_cache` | 2 threads, 2 entries, one in the directory of the other, 2 versions, 2 files, 3 fetches | `TypeOK`, `ManifestIsTruthful`, `ServedIsWhole` |
| `training` | epochs of 2 batches, a save after each, 2 checkpoints kept, 4 saves | `TypeOK`, `LoadIsOneSave`, `LastSaveKept` |
| `plugins` | 2 threads, 2 plugins of 2 modules, one type in both | `TypeOK`, `NothingLeftBehind`, `LoadedHasItsNodes`, `DisabledStaysOut` |
| `canvas` | 2 names, 1 port, 1 prefix, 1 version, 6 edits | `WellWired`, `MergeKeepsBoth` |

Why the bounds are enough. Budget: three threads give two waiters and one
releaser, the least in which waking one waiter differs from waking all; the
requests cover "fits alone", "fits only when empty", "needs the slot", "the
slot alone" and "never fits". In `budget_live` a grant uses the whole budget and two
threads can be in the middle of a release, so with three handles a request that
fits always finds a fresh one and the bound blocks nobody. Pipeline: the diamond has
a layer of two (one fails while the other executes) between two others; a second
run shares the flag, the events and the executor. Graph: three nodes give
cycles of every length up to three, chains, forks and joins. Bus: two resolves of
one cache key are what every race here needs; with two locks per key a resolve
always finds a fresh one. Asset store: with a hot tier of one, two assets push each
other out; two contents of one size pass the size check and differ in their
hash; three puts are an overlapping pair after or before a third, or a put, a
fork and a put. Model cache: two files are the least that can be half written,
two versions the least that can be mixed, nested entries the least in which a clear
reaches too far; three fetches let one thread fetch twice beside the other.
Training: four saves of two kept are enough to prune, to overwrite a directory
in place after a restart or at the end of an epoch, and to prune lower steps.
Plugins: two loads that overlap, each with a module before and after the other's, and
a type registered by both; every module has a key of its own, and keys are found known by
loading a plugin again, while the proofs allow any keys; nothing else is bounded. Canvas: two nodes and their
merged copies hold every cycle and every double wire that two locked sections can make
between them; one prefix lets a branch be merged, and once more to collide.

Symmetry is declared only where no liveness property is checked (an `MC` module's
`Symmetry` permutes threads, handles, runs, names or files that nothing
distinguishes). The properties checked beside it are invariants and action
properties, among them the two refinements, which state no fairness.

Fairness. `BudgetTracker`: a thread that can go on in a call does (method bodies
are short, sleeps end) and deadlines come, because time passes; nothing forces a
new call or a release. `Pipeline`: the thread in `run()` and the pool's threads
are scheduled, and node executors return; nobody has to call `resume`.
`ModuleBus`: the same, factories return or raise, and strong fairness of
`Acquire`: a thread waiting for a lock that is free again and again gets it
some time, as operating system locks do in practice. The modules of the asset
store, the model cache, training, plugins and the canvas state safety only, and
no fairness: nothing in them waits for anything but a lock.

## 5. What the models found

Each of these came up as a counterexample, or as a condition a property needs. The
conditions are in the properties, in the switches of the constants or in
the history variables named in section 3, so that the runs
check everything else.

**Budget.** `allocate_many` checks the specs of a batch one by one against the usage
before the batch and grants them together, past the limit (`WithinBudget`
is checked without batches). `release_all` frees the budget and notifies nobody
(`NoSleepingWhileFits` is checked without it).

**Pipeline.** A `cancel()` that comes while `run()` resets its events is forgotten,
although `is_running` is already true (`CancelStopsNextLayer` is
checked without, by `EarlyCancel`).
`close()` during a run and a progress callback that raises both make `run()` leave
while nodes execute (`QuietAfterReturn` is checked without).

**Graph.** `parallel_groups` reports an existing node as missing when an edge
is added between its two locked sections.

**Module bus.** An instance of the old factory is cached after its key was
re-registered or unregistered under a resolve. Clearing a key drops the locks in use, so
a second factory call can start (`AtMostOnce` excepts such keys).

**Asset store.** Two overlapping puts of one content into one asset each append a
revision: the check for reuse trusts the sizes seen before the lock was given
up. A save that fails leaves its revision in the object in memory, and the next
save of that object publishes it. `evict_to_cold` deletes the warm blob without
asking the cold tier for a copy. A blob evicted between `Place` and `Push` is
never mirrored. A torn cold blob counts as stored for ever, because only its presence is
looked at. `close()` during the copy leaks the staging file.

**Model cache and fetcher.** A crash while an entry is being overwritten leaves the
old manifest beside new files, although the manifest is written last
(`ManifestIsTruthful` excepts it by `unsettled`). Clearing a repository without a
revision deletes its revisions. One fetch may clear what another has just
written or verified. Between a fetch's write and the check after it another fetch may write
the entry: the check reads the other's manifest and passes, and the first fetch returns
its own manifest beside the other's files (`ServedIsWhole`
excepts it by `touched`). A manifest may vanish between `has` and `load_manifest`. A
deduplicated fetch returns another entry without verifying it and writes nothing under
the key that was asked for, where the comment speaks of reuse; of an entry without a
revision it does not notice that it is the caller's own. A hit is not compared with
the pinned hashes. The lock belongs to the instance, so two caches over one
directory exclude nothing. The adapter that calls share has its mirrors and token
swapped without a lock, and its `_api_base` is never restored.

**Checkpoints and training.** `SFTTrainer.load_checkpoint` never allows pickles,
so every complete checkpoint is refused, after its weights went into the model.
`SFTTrainer.resume` unpacks the dictionary it gets as a pair and always raises.
A crash after the weights leaves a directory that loads without an error, at step 0. A
run that was restarted from step 0 saves lower steps than those on disk, and
pruning deletes them first (`LastSaveKept` says so). A deletion that fails half way leaves
remains that still load. Accumulated gradients are not saved.

**Plugins.** A plugin that is unloaded and loaded again has no nodes: its modules
are still in `sys.modules`. Two files with one name in different
directories of a plugin, or of two plugins whose names differ in punctuation, have one key
there: the second is never run (`LoadedHasItsNodes` excepts both by `skipped`). An on_load whose file cannot be imported
makes `load` fail without the roll-back (`NothingLeftBehind` excepts it by `failed`); an on_unload like that makes
`disable` fail with the plugin disabled and loaded (`DisabledStaysOut` excepts it by `escaped`). Overlapping loads record each other's types, so
unloading one removes the other's nodes. A module that raises leaves what was
registered before it, recorded by nobody, and a second try does not record it
either. A type that was on the bus already is never taken for the plugin's. A
plugin disabled during its import ends loaded and disabled (`escaped` again). The roll-back in
the third phase for a plugin that is loaded already cannot run (`TypeOK`).

**Canvas.** Edits made between a merge's snapshot and its replacement are lost.
Merging one branch twice raises, because the prefixed ids are taken.

## 6. Proofs

The theorems hold for every value of the constants that satisfies the named
assumptions of the module; hypotheses beyond those stand in the theorem. Every
safety property of section 4 has one. Each proof has the same shape: an inductive
invariant, a lemma that the initial states satisfy it, one that every step
preserves it with a case per action, and the theorem.

**BudgetTrackerProofs.** `BaseInv` is typing, what a call that gave the lock up
relies on when it goes on (`CallsOK`: the request of a waiter, the handle of a
releaser, and that the budget of a handle about to be marked is back), and
`ReleasedIsReturned`. It gives `TypeCorrect` and `ReleasedCorrect` without
hypotheses. On top of it:

- `CountersExact`: `Accounting`, if no request is negative. A release clamps at 0,
  so the step needs that a single request never exceeds its counter, which is a
  fact about sums of non-negative terms.
- `LimitsHold`: `WithinBudget`, without `allocate_many` (section 5), if no request
  is negative and `EPSILON` is 0 in the unit of the amounts.
- `ImplementsPool`: under the same hypotheses every step is a step of
  `ResourcePool` or changes none of its state. The abstract guard speaks of the
  sum of the grants and the code of its counters: `Accounting` is what joins them.
- `NoLostWakeUp`: `NoSleepingWhileFits`, if `release_all` is not called and no
  request is negative. It covers batches: counters only grow in one, and what
  does not fit does not fit a fuller tracker.

The sums over handles and over the specs of a batch are folds of the community
modules, defined by choosing elements of a set one after the other. That
such a fold exists, and does not depend on the choices, is shown in the section
*Sums* by taking a smallest set for which it would fail (`SmallestSet`).

**PipelineProofs, execution.** It uses of the graph only `GraphAssumption` and
`LayersAssumption`: every node has one place in the groups, and its dependencies
have earlier ones. The argument is a stack of inductive invariants. `Base` is
typing and mutual exclusion (a run under way holds the flag): `RunsExclude`.
`Inputs` says that the layers behind a run are in its context and so are the
results of its own layer that it has collected; with `Base` it gives
`InputsComeFirst`. `Counted` says that no result of a place still ahead is
recorded, so recording never counts a node twice: `ResultsCountOnce`, and with it
the bound of the counter in `TypeCorrect`. `Fresh` says that what was not
submitted is new and that what is recorded succeeded; on it rest the two theorems
with hypotheses. `QuietAtTheEnd` needs that the pipeline is not closed during a run
and that the callback does not raise; without either a run leaves futures behind
(section 5). `CancelIsHeard` needs that `cancel()` does not come while the events
are being reset.

**PipelineProofs, graph.** `Sorting` is what makes Kahn's algorithm right while it has
the lock: an in-degree is the number of dependencies not yet emitted, and the
nodes with in-degree 0 are those emitted or queued, each once. `GraphOrder`
and `GraphCycle` follow, the second because the nodes left over when the queue is
empty each depend on another of them. `Layered` says that the depths computed so
far are those of layers in the copy of the edges that the second locked section
took, whatever is added meanwhile: `GraphLayers`. `GroupsServePipeline` closes the
gap between the two modules: the groups such a call returns satisfy the
condition (`Layering`) that `LayersAssumption` takes for granted.

**ModuleBusProofs.** `CallInv` is typing, the local variables of a resolve and
mutual exclusion per lock object. `AtMostOnce` and `CacheIsCurrent` are not
inductive on it: two resolves of a key might wait for different locks, or hold
a spec that is no longer registered. `CallsCurrent` says that neither happens
while the key is calm, and `CountOK` that the one instance made is either cached
or about to be. `OneInstance`, `CacheCorrect` and `SharedForGood` follow.

**AssetStoreProofs.** `TypeInv` is typing and the bookkeeping of the hot tier: its
order lists the assets it holds, each once, and no more than its size. `FreshInv`
adds that an object in the hot tier is the row, or a row ahead of it by revisions that
a failed save left: `HotFresh`. `LedgerInv` adds that whatever a save could publish
names contents the store has taken in, and that a reference about to be
returned is in its row: with it every step is one of `ContentLedger`
(`ImplementsLedger`). `OneInv` says where a revision that a put did not look for can
have come from, another put between its phases or its own left-over object,
and that both are marked: `OneRevision`.

**ModelCacheProofs.** `ManifestIsTruthful` is not inductive: a clear may be half way
through the files, a write half way through new ones. `ClearsOK` and `WritesOK` say
that such an entry has no manifest, or one that counts as unsettled and is still to
be unlinked: `ManifestsHold`. `ChecksOK` says that the files a verifying fetch is
done with match the manifest `verify` reads, and that this is the manifest the fetch
returns, as long as nobody touches its entry: `ServedWhole`. Both hold for entries nested in any way.

**TrainingProofs.** `Saving` and `Settled` say that every directory is one complete
save unless a save or a deletion in it has not ended: `OneSaveLoaded`. For
`LastKept`, that more than `Limit` higher directories exist is not inductive,
because the prune may be about to delete those too. `Outranked` counts only
what the prune leaves, so that a directory is deleted only below `Limit` others
which stay.

**PluginsProofs.** `CallInv` is typing, who has which lock, and that a plugin marked
as loading has one thread that loads it. `EnabledInv` is inductive on it:
`DisabledOut`. `TracedInv` follows every type from its registration to the record:
what a call has put on the bus or into the index it will find when it takes
stock, or has found and will record or take off again (`Traced`), and nobody else
has it in hand (`OwnApart`): `NothingLeft`. `NodesInv` says the converse, that
what the modules registered so far is still there: `LoadedServes`. All of this
is about plugins whose loads did not overlap and did not fail without a roll-back, and the
last part about loads that skipped no module (section 5); types provided by two
plugins belong to neither. `ModName` may be any assignment of keys.

**CanvasProofs.** `CanvasInv` says that the canvas, the branch, every version and the
two sides of a merge are graphs without cycles and with whole wires, and that
between the sections of a merge a canvas nobody edited is the one that was read.
`JoinedAcyclic` takes a smallest set without a source: wires close a cycle together
only if the target of one of them reaches its source, which is what `Reaches` refuses
(`GraphsStayWired`).
`MergeKeeps` needs that the wires of an acyclic branch are accepted in every order
(`AllAccepted`): a refusal would need a cycle among copies of the branch.

Induction. The induction theorems of the library take an operator as a
parameter, which the provers cannot instantiate. Where a proof needs
induction, over the length of a sort or the size of a set, it takes a least
counterexample instead (`LeastElement`, from `WFMin` and
`NatLessThanWellFounded`).

Only model-checked: the liveness properties (`TimedWaitEnds`,
`DrainedLeavesNobodyBlocked`, `RunEnds`, `CancelEndsRun`, `ResolveEnds`), because
fairness and `ENABLED` are out of the prover's reach. The properties with
hypotheses above are checked under the same ones or stronger. `StepCountsResults` of `Pipeline`
and `GroupsServePipeline` are proved and not checked by a run of their own.

## 7. Not modelled

`PROJECT.json` lists every component with its status. Left for later (section 2, step
10): the node context's executor cache, the schedulers, the rate limiter, the
LRU and fingerprint caches, the runtime switch, tenants and the feasibility
estimate. Out of reach: numerical code (models, loaders, diffusion
schedules, scores, losses), which is most of the source and real arithmetic that TLC
cannot evaluate. Out of scope: HTTP and command line front ends, text
templates, static analysis of plugin sources and input sanitising, which keep no
shared state beyond one critical section each.

Within the modelled components the following is left out.

- Everywhere: read-only views and statistics, logging, serialisation.
- Pipeline and graph: `Pipeline.dry_run`, the builder, `DAG.validate`, rendering.
- Module bus: the construction and the reset of the singleton.
- Asset store: `list`, `search`, the SQL text, the names of staging files, and the
  network requests of the S3 tier.
- Model cache and fetcher: mirrors, tokens and progress callbacks; license and pin
  checks appear only as ways for a fetch to raise.
- Training: losses, gradients, precision, evaluation scores; the other trainers;
  checkpoints kept as single files.
- Plugins: the places `discover` looks in, entry points, the state file, and what
  hooks do besides failing (importing the file of a hook runs it, under a key of its own,
  without the import lock). A hook or a module that calls the manager from
  inside an import is not modelled.
- Canvas: port types, positions, node inputs, sharing links, conversions.
