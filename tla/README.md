# CCCaster: specifications, model checks and proofs

CCCaster runs addons inside MBAA.exe. A launcher starts the game suspended and
injects a wrapper; the wrapper offers memory writes, patches and detours and
loads the modloader; the modloader runs the addons' Luau scripts, applies their
patches and hooks, and reloads what changes on disk. This directory holds TLA+
modules of that system, the TLC configurations that check them on small
instances, and TLAPS proofs.

## The system

| Component | State | Operations | Talks to |
| --- | --- | --- | --- |
| Launcher (`launcher/src`) | profile, arguments, shared mapping, the suspended process | read profile, merge with arguments, create process, inject, resume | wrapper, through a shared mapping and a remote thread |
| Wrapper: storage (`wrapper/src/storage.cpp`, `patch.cpp`) | slots with generations, free list, saved bytes | `makePatch`, `removePatch`, `hasPatch` under one mutex | game memory |
| Wrapper: native API (`wrapper/src/api.cpp`) | detours and their trampolines, the no-patches flag | `readMemory`, `writeMemory`, `createDetour`, `removeDetour` | storage, game memory |
| Wrapper: life (`wrapper/src/wrapper.cpp`) | handle of `main.so` | attach: read configuration, load, `init`; detach: unload | launcher, modloader |
| Modloader: control plane (`loader/core.rs`) | runtime thread, control channel, startup signal, staged variables | start, register variable, call event, call hook, shut down | wrapper (host), other libraries and game threads (callers), addons |
| Modloader: addon loading (`loader/core.rs`) | list of loaded addons in order | discover, order, load, `post_init`, unload, `quit` | patches, Luau, file system |
| Modloader: patches (`patch.rs`, `hook.rs`) | handles and call sites per addon, `HOOKS` | resolve, overlap check, apply, drop, hook dispatch | wrapper, control plane |
| Modloader: hot reload (`loader/core.rs`) | hashes of watched files | classify an event, reload patches, scripts or assets | addon loading, patches |
| Modloader: Engine API (`engine_*.rs`) | context addon, local VFS, dispatch table | dispatch, require, memory, fs | addons, patches |
| Modloader: overlay (`overlay_vfs.rs`) | root files, conversion cache | register assets, convert, mount | file system |

Hard behaviour, and what correct means there:

* **Storage** - slots are reused, handles outlive their patches, and backups are
  written back long after they were taken. A handle must name one patch ever,
  the free list must be exact, memory must show the newest patch.
* **Control plane** - four kinds of threads meet in one channel served one
  message per turn, with a startup signal, a 50 ms timeout, failures that drop
  the channel, and a destructor that joins. Calls are served in order and at most
  once, no answer reaches the wrong call, and everyone who waits is released.
* **Patches of addons** - loads, reloads and unloads of several addons interleave
  over shared memory, entries fail one by one. Addons must not overlap, nothing
  may stay behind, and what is loaded must stay in force.
* **Hooks in the game's threads** - code is rewritten and trampolines are freed
  while threads run through them.
* **Hot reload** - events, hashes and file contents are read at different times;
  `unload` runs before the new script is known to be good.
* **Engine API** - callbacks nest; closures are bound to the addon loaded last; an
  addon's archive is rewritten in place. The context must name whose code runs,
  nobody may be unloaded for another, what a script was told is written must stay.
* **Assets** - conversions are cached by the name of their result, in an archive that
  is rewritten in place. Nobody may see that there is a cache.
* **Launch** - arguments, a profile that outlives the launch, filters and three ways
  to an order meet. Each addon is initialised once, behind what it depends on or as
  the order says, and leaves in the opposite order.
* **Launcher** - a remote thread with a timeout, resources freed while in use, one
  shared mapping for every launch. What is reported must be what became of the
  game, and a game must get its own configuration.

`PROJECT.json` lists each hazard with its line and the properties that cover it.

## Plan

| Order | Module | Models | State |
| --- | --- | --- | --- |
| 1 | `PatchRegistry`, `PatchStorage` | what the storage promises, and the storage | checked, proved |
| 2 | `RuntimeLifecycle`, `ControlPlane` | what the runtime promises, and the threads and channel | checked, proved |
| 3 | `ModPatches` | addons' patches and hooks over `makePatch` and detours | checked, proved |
| 4 | `HotReload` | watcher events, hashes, classification, reload of patches, assets and scripts | checked, proved |
| 5 | `LoadOrder` | the launch: profile and arguments, filters, dependency graph, explicit order, callbacks | checked, proved |
| 6 | `HookDispatch` | game threads in `hook_entry` against creation and removal of a detour and its trampoline; torn writes | checked, proved |
| 7 | `EngineDispatch` | callbacks, nested dispatch, context, unloads, for whom `Engine.require` and `Engine.fs` stand | checked, proved |
| 8 | `LocalVfs` | the archive of an addon's files, caches, writes, crashes | checked, proved |
| 9 | `AssetOverlay` | registration of assets, conversion cache, copies | checked, proved |
| 10 | `AddonRuntime` | 7, 8 and 9 on one thread, over several starts of the game | checked, proved |
| 11 | `Injection` | launcher, suspended game, remote thread, attach, shared mapping | checked, proved |

How they compose. `AddonRuntime` is the conjunction of `EngineDispatch`, `LocalVfs`
and `AssetOverlay`: each of its steps is a step of at most two of them, and it is
proved to implement all three. `ModPatches` uses of `PatchStorage` only what
`PatchRegistry` promises - handles are fresh - so the two compose through that
specification; `HookDispatch` uses of `ControlPlane` that a hook call returns with
its own answer or none (`AnswerIsForThisCall`, `EveryoneReleased`). `HotReload` says
when a file is read again, `ModPatches` what applying it does to memory,
`AddonRuntime` what the callbacks of a reload may do: they share steps of the loop
and are kept apart because none looks at the others' state. `Injection` ends where
`ControlPlane` begins, with the call of `init`.

Planned next: every safety property the runs check is proved. What is left is what the
liveness properties rest on and can be stated of single steps: that the steps fairness is
assumed of bring a launch, a call or a registration nearer to its end.

### Disagreements no run states

Met while modelling, and left without a run of their own:

* `play` is always true, so `--no-inject`, `--attach` and `--dry-run` have no effect
  (`args.rs:44`, `args.rs:106`, `windows/mod.rs:37`);
* `Engine.fs.immanent` is the directory of the addon loaded last, also for callbacks
  of the others (`engine_fs.rs:82` says "scoped to the currently loading mod
  directory"; `core/main.luau:104` keeps it in `init`);
* `Engine.unload` fails in a callback that has dispatched (`core.rs:1475` against
  `engine-types.luau:111`);
* `Engine.memory.patch.make` "returns patch handle(s) or nil on failure"
  (`engine-types.luau:56`): a list refused at a later entry keeps the earlier ones
  (`engine_memory.rs:197`), and a patch the wrapper refuses is handle 0;
* an optional dependency still adds an edge, so it takes part in cycles
  (`core.rs:2424` against `types.rs:17`);
* an explicit order fails with the resolver it is said to bypass (`core.rs:519`
  against `args.rs:20`);
* register overrides of a hook are read from the decision itself (`core.rs:1029`)
  where `engine-types.luau:30` declares them under `registers`;
* an addon present both as a directory and as an archive would not have a "unique
  mod id" (`types.rs:51`);
* an archive of conversions that is torn fails every later start of its addon
  (`overlay_vfs.rs:240`).

## The modules

### PatchStorage (implements PatchRegistry)

State: `slots` and `free` are `_slots` and `_free` (positions are the code's index
plus one, the number a handle packs), `memory` is the game's image, `noPatches`
the flag the launcher sets before the first call. `base`, `clock` and `tainted`
are history: the image without patches, the age of patches, and whether patches
were removed out of order, a write-back failed, or a script wrote over a patch.

Actions: `MakePatch` is `makePatch` down to the patch constructor, with slot
choice, backup and write; `RefuseMake` each way it returns the invalid handle,
including the slot taken and given back when pages cannot be made writable;
`MakePatchAtBase` the `std::terminate` of the constructor; `RemovePatch` and
`RefuseRemove` are `removePatch`, the former with or without success of the
write-back; `WriteMemory` is a script's write. Every operation holds the mutex, so
each is one step. Handles are pairs of bounded fields, with both widths as
constants, packed with `%` as the code's shifts and masks do.

`MemoryShowsNewest` holds only without `tainted`: taking a patch from under
another one brings its backup back too early, which is how backups work here,
not a defect of the storage. Scripts can get there, and two addons whose entries the
overlap check cannot tell apart.

A handle carries 16 bits of a 32-bit generation. `ImplementsRegistry` is checked for
slots that are emptied less often than the field counts (`MaxGeneration` below
`HandleGenerations`), where each handle names one patch ever; `MCWornHandles` goes one
removal further, with a field that counts to two, and finds a patch whose own handle
does not remove it.

### ControlPlane (implements RuntimeLifecycle)

State: where the host thread, the runtime thread and each caller are; the startup
signal, the stored sender, the receiver, the queue; staged variables and
`Engine.external`. One action per point at which a thread can be overtaken: the
host stores the sender in another step than it starts the thread, the destructor
takes the sender before it sends, a caller stages before it looks up the sender,
looks up before it sends, and waits after. The runtime serves one message per
turn. `Break` is every `?` that leaves loader or loop, and a panic.

Addon code is one step that succeeds or fails. `hook` calls come only from
threads of the game; a script that runs into a hook of its own on the runtime
thread waits out the 50 ms, which adds nothing to the model.

Fairness: the host, the runtime and each call that began go on (weak fairness of
`Host`, `Runtime`, `CallGoesOn`): the operating system schedules them, `join` and
the channel's `recv_timeout` wait on nothing else, and callbacks of addons are
taken to return. Nothing makes anyone call, fail or unload, so these are not fair.

`EveryoneReleased` is that start-up is reported, unloading completes and every call
returns. It excepts a panic: `load_mods_from_addons` keeps its own reference
to the startup signal while it waits for it, so unwinding the runtime thread does
not close the channel and `init` never returns. `VariablesCurrent` excepts
registrations that fall between the applying of the staged values and the storing
of the sender, and variables that several threads register: staging and sending
are two steps, and two threads may take them in different orders.

### ModPatches

State: the image, the patches in the wrapper's storage and the detours, each with
what it will write back, `HOOKS` (by call site), the loaded addons with their
handles, call sites and spans, the patch set being applied, and what is left to
drop. `BeginLoad`/`BeginReload` are the overlap check, `Apply` one turn of the loop
in `Patches::new` (bytes or hook, success or not), `EndLoad`/`EndReload` the
assignment to the list of addons with the drop it causes, `Drop` one turn of the
loops in `Patches`' `Drop`, `FailLoad`, `Unload` and `Stop` the other ways addons
go; they leave in `doomed` one element per patch set, its handles and call sites, and
`Dropped` is the end of one `drop`. Spans are compared by the addresses written in the
file and the bytes it gives, as the code does, while the writes go to resolved addresses
and a detour always has ten bytes. `SpansTell` says of two entries that the comparison
tells them apart as well as the writes would: both are spelled alike, and no hook gives
fewer bytes than a detour overwrites. What the check misses is shown by `short_hook` and,
of spellings, by `MCSpelledPatch`; the files of `mod_patches` contain such entries too, next to others, and
`untold` is set when an addon's patch comes to lie on one the check cannot tell from it.

`BeginMake`, `MakeEntry`, `RefuseEntry`, `EndMake` and `ScriptRemove` are
`Engine.memory.patch` in the scripts, called from `init` while the addon is being
loaded or from callbacks of loaded addons. A script's patch is under no overlap
check, and nothing takes it back when its addon goes.

The properties speak of the states between operations (`Idle`), and except
write-backs that failed (`failed`), an addon that patched over its own bytes, and
scripts that patched over anybody's or were patched over (`overlaid`): what the
code does for an addon's own bytes is shown by `edited_patch`. `ModsDisjoint` is about
pairs of entries under `SpansTell`, whatever the check misses elsewhere; `GameRestored`
and `AddonsInForce` hold until `untold`. `AllOwned`, which does not ask for that, says
that each patch is an addon's or has its handle with a script, but for lists refused
halfway (`lost`).

### HotReload

State: what is saved (`disk`), the watcher's events, `watched_hashes`, what the
patches, assets and script in force were read from, and where the loader is.
Contents and hash are one value. One addon: hashes and events of different addons
meet in nothing but the loop.

`Save` is anybody's, at any moment, told in one event or two. `Detect` is one turn
of the loop down to the classification: it keeps the new hash before the file is
read. `ReloadPatches` and `ReloadAssets` read the file in a step of their own;
copying assets may write the conversion cache, which is watched too. A script
reload goes through `CallUnload`, `ReadScripts`, `Evaluate` (files required at the top
level are read again) and `HashFiles` (everything watched is hashed), and may fail at each;
the start takes the same steps without unload and fails for good. Reading that
no save could tell apart is one step: main.luau together with the analysis and
precheck of the files it requires. An event names one file; a rename's third event,
which names two, comes after each had its own.

`Require` is `Engine.require`, or its alias `require`, in a callback or a handler of the
running script: it reads a file, with what that requires, and adds them to
`required_files`. Called from `load` or `init` that is before `HashFiles` makes the list
into watched files; from `post_init`, a handler or `unload` it is after that, and a file
that was not watched stays so (`late`). It is not taken while a reload's own reading is
under way, since the runtime thread does that in one go.

Fairness: the loader goes on (weak fairness of `Loader`): the runtime thread is
scheduled and callbacks of addons are taken to return. Nobody has to save.

`missed` holds the files that were read and hashed with different contents. The
properties except them, and scripts after a failed reload, which keeps the watched
files of the script before; `missed_save` shows what the first exception costs.
`RunningFilesWatched` excepts `late`; `MCLateRequire` shows what that costs, by
`RequiredFilesReload`, which excepts only the other two.

### HookDispatch

State: what each call site's ten bytes hold, `g_detours`, the memory of trampolines,
`HOOKS`, what the runtime thread is doing, and for each thread of the game where it
is in its call. `raced`, `botched`, `leaked`, `stale`, `crossed` and `strayed` are history.

`HOOKS` and what the addons owe are kept under the address as an addon spells it (`Key`),
while detours, the address a detour pushes and `hook_dispatch` know the resolved one
(`Site`, through `SiteOf`). Of the keys of a site only the site itself is ever found:
`MCOffsetHook` is the hook that never finds its handlers. Such a hook gets as far as that
only where memory is mapped at the offset itself, since `resolve_direct_hook` reads the
replaced bytes there. One site hooked under two spellings (`crossed`) is hooked over a
hook, and the two are then removed in any order.

A trampoline below the module base (`Low`) is taken for an offset: it may be read as
nothing, and an override of it goes to what is at the base plus its address (`Behind`), as
far as the pages there are writable - other trampolines always are, the game's code while
it is being patched. What was hit is `strayed`; `MCLowTrampoline` is the override that
lands in another hook's trampoline.

The runtime makes a hook in three steps (trampoline and half a write, the write
done, the metadata) and removes it in four (metadata, half a write, the write done,
trampoline freed); each may fail. A thread of the game arrives at a site, looks up
the metadata, waits for the answer or gives up, may write the trampoline, and goes
on behind the site or through the trampoline, one step each. It is `lost` when it
meets half a write, freed memory, bytes of the wrong length or a copied detour;
what the game does then is not followed. Nobody is suspended, since
`processSuspendGuard` returns at once. `execute_replaced_bytes` is left out: it
changes nothing, and the thread that would free its trampoline is its own.

A thread whose call meets the making or removal of its own hook can be lost, and
its late override can reach a trampoline that took the place of the one it meant
(`raced`, `stale`). The properties say that nothing else goes wrong: hooks do not
disturb each other. They also except a site hooked over a hook or whose removal
failed (`botched`), as `ModPatches` does, what a stray write has hit, and, of finding
handlers, hooks spelled as offsets.

### LoadOrder

State: the profile on disk, which outlives the launch; the command line as given
(`asked`) and as merged (`args`); the entries found, their order, `loaded_mods`,
the `Engine` table of each id, and the callbacks called (`calls`).

`Launch` is `run_cli`: it may save a profile, reads one, and merges
(`Merged`, `EffectiveLoadOrder`). `Discover` reads the directory in any order and
filters (`Selected`). `Resolve` takes one of `Orders`: any topological order of
`Edges`, since the library promises no more, or the given order (`Ranked`).
`Load`, `PostInit` and `Quit` are a turn each of their loops, `Unload` is
`Engine.unload` as the loader carries it out, and `StartupFails` the ways the
startup can end early. `Edges` keeps what the code does when two entries have one
id: the later stands for both.

Archives, manifests and version text are values: whether a manifest can be read is a
field of the entry, a requirement is the set of versions it accepts, and `Parsed` says
what a part of an order means. Orders and the callbacks' nesting are claimed for
unique ids (`IdsUnique`): two entries of one id share a table, and the later is called
for both.

### EngineDispatch

State: what the runtime thread is at (`task`, with the addon whose turn it is), the
callbacks and dispatches under way, the log context, `Engine[id]`, `loaded_mods`,
for whom `Engine.require` and `Engine.fs` were registered, `PENDING_UNLOADS`.

`Register`, `ScriptRefused`, `Enter`, `CallbackReturns` are `load_mod` step by step;
`Dispatch`, `HandlerCalled`, `HandlerReturns`, `DispatchReturns` the closure of
`Engine.dispatch`, whose handlers may dispatch again; `Unload` and `Drain` the request
and its service; `EventMessage`, `Reload`, `TurnEnds`, `Shutdown` the loop. A callback
makes any calls and returns or fails. The result of a dispatch is left out.

`ContextNamesRunner` states what the code does after a nested dispatch, where the
context is cleared although the callback goes on (`lost`): from there on the context
names nobody, and never anybody else.

### LocalVfs

State: `vfs.tar.zstd` (absent, torn or whole), the cache of each pair of closures, the
write under way. `BeginWrite` is the write closure up to the truncation of the archive,
`Persisted` and `PersistFails` the rest, `CreateFails` the call that gets nowhere -
with the cache changed all the same. `VfsCrash` may come between.

What the successful calls wrote is `stored`. The archive differs from it only for one
of three noted reasons (`flaws`): a call was cut off after the truncation, a closure
wrote what an earlier call of it had failed to write, or a closure left behind by an
older load wrote from its old cache. `FilesKept` is both halves: the archive
(`AcknowledgedKept`) and what scripts read (`ReadsAreStored`).

### AssetOverlay

State: assets and converters as installed, `converts.tar.zstd` of each addon, the files
under the launcher's directory, the registration under way. `Prepare` is the loop over
matching pairs with the look-up (`Hit`) or conversion (`Convert`), `SaveCache` the
rewriting of the archive, `CopyAsset`, `CopyOutput` and `CopyDone` the copies; each may
fail, and the game may end between any two. `fs::write` truncates and then writes, so a
copy that fails or is cut off may be `Torn` (`CutShort`), and stays so until something
copies that file again. `NameOf` is the name the installed version of a converter gives
a result; a hit serves it under the name it was converted under.

`CacheTransparent`: what lies under the launcher's directory, torn copies included, is
what the same registrations would have left had they converted everything anew, but for
what the code's own key leaves out: two sources of one name (`Shared`), the old and the new
name of a result that a new version of its converter names otherwise (`Renamed`), and
results of an older version of a converter (`Older`). And a registration copies the
results of all matching assets and no others.

`CopiesWhole`: a registration that comes to its end leaves every asset and every result
of its addon whole, whatever an earlier one left behind. One that fails promises nothing:
its error ends the loading, and torn copies stay under the launcher's directory until the
next one.

### AddonRuntime (implements EngineDispatch, LocalVfs and AssetOverlay)

The three on the runtime thread. Scripts reach the files of one addon (`Keeper`) through
the closures registered last or those they kept; assets are registered at the start and
when one is saved. The disk outlives a crash, the rest starts anew. `WritesStayHome`
says to whose files a write may go.

### Injection

State, per launch: command line, launcher, main thread of the game, the buffer with the
wrapper's path, the remote thread, whose configuration the wrapper and the modloader
read; and the one mapping all launches share. `Spawn`, `WriteSize`, `WriteValue`,
`Allocate`, `WritePath`, `StartThread`, `ThreadEnded`, `TimesOut`, `WaitFails` and
`Resume` are `launch_with_injection`, `write_shared_string` and `inject_dll`; `Load`,
`Library`, `OpenMapping`, `Configure` and `CallInit` are `DllMain` and `attach` in the
game. Every call of Windows may fail and a game may die at any point. Text becomes a
configuration by being the launcher's number; a value under the size of another's is
read or refused.

A launch that another one overtakes is noted (`lapped`); `OwnConfiguration` is about
the others. `OutcomeAsReported` is `RunsAttached` and `SuspendedAsReported`.

Fairness: the launchers go on (weak fairness of `LauncherStep`): processes are
scheduled. Nothing in a game is fair, since its start may hang, and neither is a wait
that fails.

## The runs

| Run | Instance | Shows |
| --- | --- | --- |
| `patch_storage` | 3 cells above a base, 4 requests (offset, absolute, the base, past the end), 3 slots, 2 removals per slot, 4 makes | types, exact free list, memory, refinement of the registry |
| `control_plane` | one library that registers twice and calls events, one game thread in a hook, 2 calls each | order, loss, answers, variables, lifecycle, and that init, unload and calls return |
| `mod_patches` | 2 adjacent addons, 3 patch files each (none, adjacent, a hook without bytes, an offset, overlapping each other or themselves), 8 cells, 2 reloads, one list of two patches by a script, one failing write-back | separation, ownership of patches and hooks, restoration, force |
| `hot_reload` | five files, two or three contents each, one of them broken, 3 saves, 1 or 2 events each, saves also before the watcher runs, required files read in callbacks and handlers too | what is in force at rest, reloads without reason, watched files, rest |
| `hook_dispatch` | two threads, two sites under two spellings each, memory for two trampolines of which one lies below the module base, two detours | handlers found and threads not lost (`ThreadsKeepTheirWay`), overrides at home, no trampoline without owner |
| `load_order` | six entries in four directories (a cycle through an optional dependency, an id twice, an unreadable manifest), nine command lines, four profiles, two launches | who is loaded (`AskedForAreLoaded`: once, and as the filters say), in which order (`OrderRespected`), and which callbacks are called |
| `addon_runtime` | two addons, the second handling the events of both, one file, two assets of which one changes the name of its result to the other's, a converter in two versions with other names for some results, one crash | context, unloads, files kept and written at home, a cache nobody sees, whole copies |
| `injection` | two launches, one with all six combinations of options, one plain with a timeout | reports, the path under its reader, own configuration, return of the launcher |
| `profile_order` (violated) | as `load_order` | a profile without an order turns dependencies off |
| `missed_save` (violated) | as `hot_reload` with 2 saves, none before the watcher runs | a save during a script reload has no effect |
| `edited_patch` (violated) | one addon with an entry edited in place | a reload undoes itself |
| `short_hook` (violated) | two addons, a hook without bytes next to another hook | detours of two addons overlap (`NoOverlap`) |

What else the properties except by name has a configuration of its own beside these runs,
each with one invariant that excepts nothing of the kind and that TLC finds violated:

| Configuration | Of | Instance | Violated | Shows |
| --- | --- | --- | --- | --- |
| `MCWornHandles.cfg` | `MCPatchStorage` | one slot, two removals, generations modulo two | `ReturnedHandleRemoves` | a handle that removes nothing (`storage.cpp:75`) |
| `MCSpelledPatch.cfg` | `MCModPatches` | two addons, a byte by its address and by its offset | `NoOverlap` | two patches on one byte (`patch.rs:205`) |
| `MCLateRequire.cfg` | `MCHotReload` | 1 save, none before the watcher runs | `RequiredFilesReload` | a file required after the hashing is not reloaded (`engine_require_dispatch.rs:184`) |
| `MCHookRegisters.cfg` | `MCHookDispatch` | three detours | `RegistersAsDecided` | every return from a hook overwrites ecx and edx (`hook.rs:173`), where `engine-types.luau:30` lets a decision set them |
| `MCOffsetHook.cfg` | `MCHookDispatch` | as `hook_dispatch` | `SpellingsAlike` | a hook spelled as an offset has no handlers (`hook.rs:91`) |
| `MCLowTrampoline.cfg` | `MCHookDispatch` | as `hook_dispatch`, with the game's code never writable | `LowOverridesStayHome` | an override in another hook's trampoline (`hook.rs:281`) |

Bounds. Storage: two slots are needed for order on the free list, three patches
for a middle one in a stack, two removals for a handle two generations old; the
requests nest and overlap partly. Control plane: a second call of a thread is what
an answer to the first could be mistaken for; two registrations are needed for an
old value; the queue holds up to five messages with `Shutdown` behind or between
them. Patches: two addons suffice for every pairwise property, and the second
reload starts from a state the first one left; a list of two script patches is one
that can be refused halfway, and its second entry lies on bytes an addon may patch.
After one failed write-back only the ownership of patches is claimed, so a second adds
nothing. Detours have three bytes and hooks
at least two in place of ten and five: only their order matters. Hot reload: a
reload takes one save, a second one comes in its way, and a third tells whether
the loop recovers. Hooks: the second
detour takes the memory of a freed one while a thread still knows it, the site that
was hooked before under the same spelling or the other one, or lies where the override
of the first goes astray; a third meets what the first two already show.
Threads are symmetric, and so are the two sites with their spellings; the run checks
no liveness. Launch:
the first launch saves the profile the second one uses, and one edit puts a
hand-written profile before either; nothing else passes from launch to launch.
Runtime: `MaxDepth` 3 is a handler dispatched by a handler, three registrations let a
closure be two loads old, four requests (calls of scripts, events, saves) are a write, a
reload, a write behind the older closure and a read; a second crash meets nothing
the first did not leave. Injection: who is overtaken is a matter of two; six of eight
option combinations, as a timeout means nothing without a wait.
`MaxGeneration`, `MaxMakes`, `MaxSlots`, `MaxCalls`, `MaxReloads`, `MaxSaves`,
`MaxLaunches`, `MaxEdits`, `MaxDetours`, `MaxFailures`, `MaxRequests`, `MaxCrashes`,
`MaxLength`, `MaxVersion` and `MaxRegistrations` bound how long a run goes on
and cut off no kind of step but one: below `HandleGenerations`, `MaxGeneration` cuts off
the wrap-around of a generation, which is `MCWornHandles`.

Deadlock is not checked where the system may stop: after `std::terminate`, after
unload when every call is used up, when the last addon is dropped, after the
last launch, when every thread of the game is lost, when requests and crashes are used
up, and when every launcher has exited.

## The proofs

`PatchStorage_proofs` proves for every image, request set, width and bound:

* `TypeCorrect`, `FreeListCorrect`: `TypeOK /\ FreeListExact` is inductive, and
  neither is alone: the slot a make fills is typed because it is on the free list.
* `MemoryCorrect`: `MemoryShowsNewest` says nothing of what backups hold, so it is
  strengthened by `BackupChain` - each patch saved the byte of the next older
  patch on the cell, or the game's byte if it is the oldest - and `AgesOrdered`.
* `RegistryImplemented`: initial states map to initial states and each step to a
  step of `PatchRegistry` or to none, under `RegistryInv`, when
  `MaxGeneration < HandleGenerations`. Without that assumption it is false, as
  `MCWornHandles` shows.

The assumptions on constants are `BoundsAssumption` and `MemoryAssumption` of
`PatchStorage`; TLC evaluates them in `patch_storage`.

`HotReload_proofs` proves for every set of files, every contents and every bound
on saves:

* `TypeCorrect`: a script reload reads only files below the addon, because what
  is required is (`UsedBounded`).
* `CurrentWhenSettled`: `SettledIsCurrent` looks at rest only, so the invariant
  says what holds before: a kept hash that is no longer the file's has an event
  on its way (`HashesFollow`), and what is in force was read as it was hashed or
  is being read again (`InForceHashed`). At rest there is no event and nothing
  busy, and the two give disk = hash = force.
* `ReloadsAreJustified`: `ReloadsJustified` with the change not yet seen, which is
  counted but not yet spent (`ChangesCounted`).
* `RunningIsWatched`: `RunningFilesWatched` with what a load has read before it
  hashes it (`FilesWatched`), which is where a file required by `load` or `init` is not
  lost and one required later is `late`.

`Phases` says that no event comes before the first load is over. `Inv` is the
conjunction of these and `TypeOK`; each part has a lemma that every step keeps it.
The assumption is `FilesAssumption`, evaluated by TLC in `hot_reload`; of the
program it assumes that no script requires an asset or patch.jsonc as a script.

`AddonRuntime_proofs` proves of `EngineDispatch`, for every order of addons, set of events
and bound:

* `ContextCorrect`: `ContextNamesRunner` speaks of the top of the stack and says nothing
  of what a return uncovers, so `DispatchInv` says of the whole stack that callbacks and
  dispatches alternate and a dispatch with a callback on it has called a handler
  (`Alternating`), that the outermost callback is the one the runtime thread is at
  (`Bottom`), and what the context is also while a dispatch is on top (`ContextNamed`).
* `UnloadsCorrect`: with `Progress`, which relates what is loaded to the turn the
  thread is at: until the loading is over nobody is missing for another reason.

of `LocalVfs`, for every set of closures, files and contents:

* `ArchiveKept`, `ReadsCorrect`: neither is inductive. `VfsInv` says when an archive is
  torn (`TornIsKnown`), that a whole one and each cache of a closure nobody wrote behind
  hold what is stored unless a flaw is noted (`ArchiveStored`, `CachesStored`), and that
  the write under way is about to write what its caller will be told (`WritesTold`).

of `AssetOverlay`, for every sequence of matching pairs, contents and naming of results:

* `OverlayTransparent`: `CacheTransparent` looks at files that were copied, so `OverlayInv`
  says what leads there: each entry of a cache names a result its pair has claimed, and
  the file of that name is the pair's, of this or an older version of the converter,
  unless another pair has claimed the name (`CacheStands`, of the cache on disk and of the
  one about to be written); and each result about to be copied is right or its name is
  shared or given up (`JobStands`). A torn copy is torn with and without a cache. `Prepared` is a recursive function, and `PreparedStands` an
  induction on its turns: it exists, has its type, leaves a cache that stands, and its
  results are those `Anew` gives.
* `OverlayWhole`: `CopiesWhole` speaks of the end of a registration, so `CopiesStand` says
  of every moment of it that what is no longer to be copied is in place.

and carries the three over: `DispatchImplemented`, `VfsImplemented` and
`OverlayImplemented` show that each step of the composed runtime is a step of
`EngineDispatch`, `LocalVfs` and `AssetOverlay` or leaves its variables alone;
`RuntimeContextCorrect`, `RuntimeUnloadsCorrect`, `RuntimeFilesKept`, `RuntimeTransparent`, `RuntimeWhole`
and `RuntimeTypeCorrect` follow without looking at a step again. `RuntimeWritesStayHome` is an
action property, proved from `DispatchInv`.

`Injection_proofs` proves for any number of launches and any command lines:

* `TypeCorrect`, `OutcomeCorrect`, `BufferKept`, `ConfiguredAsTold`: `InjectionInv` adds the order of the
  three processes of a launch (`Stages`), what the exit code of the remote thread stands
  for (`Finished`), and that what a launch wrote is still in the mapping, or gone with
  it, while its game may read it and nobody else has written (`Mine`). There is a lemma
  per action; they share lemmas on what an assignment to a field of a record does.

`ControlPlane_proofs` proves for every set of threads, requests and variables and every
bound on calls:

* `TypeCorrect`, `AcceptedAreServed`, `AnswersCorrect`, `VariablesCorrect`:
  `ControlInv` adds where host, runtime and callers can be at the same time (`Stages`),
  that what a thread has in the channel is younger than all it was served and older
  than the call it is about to send (`Orders`), and what was staged but not yet applied
  or sent (`NothingYet`, `Staged`, `LastCurrent`): the last message about a variable
  carries its staged value, also while the runtime has yet to apply what is staged.
* `LifecycleImplemented`: under that invariant each step maps to a step of
  `RuntimeLifecycle` or to none.

`HookDispatch_proofs` proves for every set of threads, sites, spellings, addresses and
decisions. At a site a stray write has hit, or that was hooked under two spellings, little
can be said; the others are `Sound`, and everything is said of each of them apart:

* `TypeCorrect`: with `owned[k] <= handle`, without which the count has no bound
  (`Shapes`, which also has that a site hooked under two spellings was hooked over a hook).
* `TrampolinesCorrect`: every detour has a trampoline of its own with a copy of what it
  replaced (`DetoursStand`, of all sites), and at a sound site each detour is named exactly
  once, by the code or as what a later detour wrote over (`NamedOnce`), but for the one
  being removed (`JobStands`, `JobAt`).
* `ThreadsSafe`, `OverridesCorrect`: the metadata of a key name a detour of its site
  (`HooksStand`), at a sound site the one in its code (`SitesStand`), and a thread that
  met no write still has the metadata it found, or finds it where its call began
  (`ThreadsStand`); so what it writes goes to the trampoline of its site (`BytesStand`),
  and the trampoline it enters is that one.

`ModPatches_proofs` proves for every load order, all contents of patch.jsonc, every image
and every list of a script. The argument is about who holds what. A patch set sits in a
place: the list of loaded addons, the job, or what waits to be dropped. Load, reload,
unload, failure and stop only move patch sets from place to place (`Moved`), which keeps
all that is said of them; what is left are the steps that make or remove one patch or
hook. `PatchesInv` has three parts:

* `Kept` holds always, whatever fails or overlaps: types, what is under way, and that
  each patch in the storage has one holder, a patch set or the scripts (`HoldersOf`).
  `TypeCorrect` and `PatchesHaveOwners` follow from it.
* `Orderly` holds while nothing failed and no addon patched over itself or a script: each
  call site has one holder and one detour (`HooksOf`), what an addon holds is its own, was
  made for entries of its file and lies within its spans (`ClaimsOf`), and no two entries of
  different addons meet that the check can tell apart (`ApartOf`). Spans of different
  addons never meet, which is the overlap check; that bytes do not meet either is
  `SpansTell` of the two entries. `EverythingHasAnOwner` and `ModsKeptApart` follow.
* `Imaged` holds while, besides, nobody's patch lies on one the check cannot tell from it
  (`untold`): no byte lies under two patches and each saved the game's (`ImageOf`), and
  what an addon shows is what the image has (`ShowsOf`). `GameIsRestored` and
  `AppliedStaysInForce` follow; a patch set that replaces the one of its own addon is where
  `overlaid` is needed, as `edited_patch` shows.

None of them assumes anything of what the files contain.

`LoadOrder_proofs` proves for every finite set of entries, whatever their manifests say,
and every command line and profile. The loader makes three passes over the addons, and
`calls` is what they have written one after the other, so `LaunchInv` says which call
stands where:

* the first `Len(order)` calls are init of the load order, the next `posted` ones
  post_init of the same, and what follows is quit of `loaded` read backwards
  (`CallsStand`); `loaded` is the order with holes where something was unloaded
  (`LoadedInOrder`), each phase has written so much of it (`Stages`), and the table of
  an id is that of an addon of this id (`TablesStand`). `CallbacksAreNested` follows.
* the order is an arrangement of what was found in which dependencies, or the parts of a
  given order, come first (`Orderly`). `OrdersAreOrderly` shows it of every outcome of the
  resolvers: of any topological order of `Edges`, and of any order that `Rank` sorts.
  `OrderIsRespected` follows.
* what was found passed the filters of the merged command line (`Chosen`, `Arguments`).
  `AskedForIsLoaded` follows.
* `TypeCorrect` needs that a profile's order is a list again after
  `effective_load_order`, a recursive function of the list: `EffectiveOrderType`, by
  induction on its length.

That arrangement and `CallbacksNest` are about unique ids, as the properties are. Of the
program `LaunchAssumption` says that names have no @ and that what is searched is finite.

Induction goes through the least counterexample: the library's induction theorems take an
operator as a parameter, but `WFMin` takes a set, and gives that a set of numbers that is
not empty has a least element (`LeastElement`); a set with 0 and with the successor of
each of its elements is then all of `Nat` (`Induction`).

The assumptions are `FileAssumption`, `LaunchAssumption`, `DispatchAssumption`,
`VfsAssumption`, `OverlayAssumption`, `RuntimeAssumption`,
`LaunchersAssumption`, `CallerAssumption`, `DecisionAssumption` and `NoneAssumption`,
evaluated by TLC in `mod_patches`, `load_order`, `addon_runtime`, `injection`, `control_plane` and
`hook_dispatch`;
the last says only that `None` is none of the sites, addresses, decisions and records
it stands for the absence of.

Only model-checked: the liveness properties (`EveryoneReleased`, `ComesToRest`,
`LaunchReturns`; the prover has no rule for fairness that it can check here). The
exceptions the theorems name are not idle: for most of them a violated run or configuration
shows the code doing what is excepted. The recursion that collects required files is stated as the least
closed set, which needs no induction.

## Not modelled

Patterns in `patch.jsonc` and `patch.make` (they expand to entries before anything
modelled here), events the watcher loses when the kernel's queue overflows, writes of a
patch that another thread sees half done (`HookDispatch` has those of a detour), the
mocks of `tests.luau`, `Engine.fs.global` (single files, no state), the result of a
dispatch, calls of what another addon exported (`Engine[mod_id]`), `load` and `init` called
again by a script's reload (`LoadOrder` has the callbacks of a launch without reloads), an
unload asked for before the startup was reported (`init` has not returned to the host
then), the conversion itself (a WASM module: its result is a function of the
content and the module), the wait for a debugger, and the launcher's ways that `play` makes
unreachable; and the components marked so in `PROJECT.json`, with reasons.
Parsing, logging, archives and Win32 calls appear as a choice of outcomes.
