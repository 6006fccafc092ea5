------------------------------ MODULE ModPatches ------------------------------
(***************************************************************************)
(* The patches and hooks of the addons over their lives: loading in order, *)
(* the overlap check, hot reload of patch.jsonc, unloading, and the end of *)
(* the runtime (cccaster/src/patch.rs, hook.rs, loader/core.rs), on top of *)
(* the wrapper's makePatch, removePatch, createDetour and removeDetour     *)
(* (wrapper/src/api.cpp).  Scripts make and remove patches of their own    *)
(* (loader/engine_memory.rs), which no overlap check knows of.             *)
(*                                                                         *)
(* One thread does all this, entry by entry, while the game runs.  A patch *)
(* handle is a fresh number: that the storage never hands one out twice is *)
(* what module PatchStorage is about.                                      *)
(***************************************************************************)
EXTENDS Integers, Sequences

CONSTANTS
  Mod,           \* addons
  LoadOrder,     \* the sequence they are loaded in
  File,          \* Mod -> the contents its patch.jsonc may have over time:
                 \*   sequences of [kind, addr, bytes], empty without a file
  Cell,          \* addresses of the game's image
  Original,      \* the image before the first patch
  ModuleBase,    \* GetModuleHandle(nullptr)
  DetourLength,  \* api.cpp g_detourPatchLength: bytes a detour overwrites
  MinOverwrite,  \* bytes a hook is taken to overwrite at least
  Lists,         \* what scripts may give Engine.memory.patch.make: sequences
                 \*   of entries of kind "bytes"
  MaxReloads,    \* bound: hot reloads
  MaxMakes,      \* bound: calls of Engine.memory.patch.make
  MaxFailures    \* bound: writes back that fail

Entry == [kind : {"bytes", "hook"}, addr : Nat, bytes : Seq(STRING \X Nat)]

ASSUME FileAssumption ==
  /\ LoadOrder \in Seq(Mod)
  /\ \A m \in Mod : File[m] \subseteq Seq(Entry)
  /\ DOMAIN Original = Cell
  /\ DetourLength \in Nat \ {0} /\ MinOverwrite \in Nat \ {0}
  /\ ModuleBase \in Nat /\ MaxReloads \in Nat /\ MaxMakes \in Nat
  /\ MaxFailures \in Nat
  /\ Lists \subseteq Seq({e \in Entry : e.kind = "bytes"})
  /\ "script" \notin Mod /\ "none" \notin Mod

VARIABLES
  memory,     \* the game's image
  applied,    \* the wrapper's storage: handle -> [owner, entry, backup], of
              \* which it knows the backup
  detours,    \* api.cpp g_detours: the same
  hooks,      \* hook.rs HOOKS: call site -> handle of its detour
  mods,       \* loaded_mods in load order: [mod, patches, spans], the spans
              \* as the set of addresses in them
  phase,      \* of the runtime
  job,        \* the patch set being applied
  doomed,     \* what is left to drop: the handles and sites of patch sets
  next,       \* how many addons of LoadOrder were started
  handle,     \* the last handle handed out
  reloads,    \* hot reloads so far
  call,       \* the call of patch.make under way: entries left, handles so far
  known,      \* handles scripts were given and did not remove
  makes,      \* calls of patch.make so far
  \* What the properties compare the state with; the code keeps none of it.
  failed,     \* how often bytes could not be written back
  overlaid,   \* an addon applied a patch over one of its own, or a script over
              \* anybody's, or an addon over a script's
  untold,     \* an addon applied a patch over one that the overlap check cannot
              \* tell from it
  lost        \* handles of a list of which a later entry was refused

scriptVars == <<call, known, makes, lost>>
vars == <<memory, applied, detours, hooks, mods, phase, job, doomed, next, handle,
          reloads, failed, overlaid, untold, scriptVars>>

-----------------------------------------------------------------------------
Overwrite(f, part) ==
  [x \in DOMAIN f \cup DOMAIN part |-> IF x \in DOMAIN part THEN part[x] ELSE f[x]]
Put(f, x, value) == Overwrite(f, [y \in {x} |-> value])
Without(f, x) == [y \in DOMAIN f \ {x} |-> f[y]]

resolveAddress(addr) == IF addr > ModuleBase THEN addr ELSE ModuleBase + addr

(* ResolvedPatch::len: what the overlap check takes an entry to cover.     *)
LengthOf(e) ==
  IF e.kind = "hook" /\ Len(e.bytes) < MinOverwrite THEN MinOverwrite ELSE Len(e.bytes)

SpanOf(e) == e.addr .. e.addr + LengthOf(e) - 1

(* What the wrapper writes for an entry: a detour has its own length.      *)
Written(e) ==
  LET a == resolveAddress(e.addr)
  IN IF e.kind = "hook"
     THEN [c \in a .. a + DetourLength - 1 |-> <<"call", a>>]
     ELSE [c \in a .. a + Len(e.bytes) - 1 |-> e.bytes[c - a + 1]]

Spans(f) == UNION {SpanOf(f[k]) : k \in DOMAIN f}

FileEntries == UNION {UNION {{f[k] : k \in DOMAIN f} : f \in File[m]} : m \in Mod}

(* The overlap check compares addresses as patch.jsonc spells them and the *)
(* bytes it gives, the wrapper writes to resolved addresses, and ten bytes *)
(* for any hook.  So the check can tell two entries apart when both give   *)
(* an offset from the module base or neither does, and no hook gives fewer *)
(* bytes than a detour has.                                                *)
Whole(e) == e.kind = "hook" => Len(e.bytes) >= DetourLength
SpansTell(e, f) == Whole(e) /\ Whole(f) /\ (e.addr > ModuleBase <=> f.addr > ModuleBase)

\* Faulty: an addon is compared with itself only.
Occupied_Nothing(skip) == {}

(* The spans of every loaded addon but the one that is reloaded.           *)
Occupied(skip) == UNION {mods[i].spans : i \in DOMAIN mods \ {skip}}

(* spans_for_patches and ensure_no_overlap return no error.                *)
Acceptable(f, skip) ==
  /\ \A k \in DOMAIN f : LengthOf(f[k]) > 0
  /\ \A k, l \in DOMAIN f : k # l => SpanOf(f[k]) \cap SpanOf(f[l]) = {}
  /\ Spans(f) \cap Occupied(skip) = {}

NoPatches == [handles |-> << >>, sites |-> << >>, shown |-> << >>]
NoJob == [mod |-> "none", index |-> 0, todo |-> << >>, patches |-> NoPatches, spans |-> {}]
NoCall == [todo |-> << >>, made |-> << >>]
Idle == job = NoJob /\ doomed = << >> /\ call = NoCall

\* Faulty: the hooks of a patch set stay.
Removals_Handles(p) == [handles |-> p.handles, sites |-> << >>]

\* Faulty: the patches of a patch set stay.
Removals_Sites(p) == [handles |-> << >>, sites |-> p.sites]

(* What dropping a Patches removes: its patches, then its hooks, each in    *)
(* the order of their creation.                                            *)
Removals(p) == [handles |-> p.handles, sites |-> p.sites]

(* Dropping the list of addons drops them in load order.                   *)
AllRemovals == [i \in DOMAIN mods |-> Removals(mods[i].patches)]

\* Faulty: what is saved is read after the write.
SavedFor_Written(m, e) == [owner |-> m, entry |-> e, backup |-> Written(e)]

(* What the wrapper remembers for a patch or a detour.                     *)
SavedFor(m, e) ==
  [owner |-> m, entry |-> e, backup |-> [c \in DOMAIN Written(e) |-> memory[c]]]

Owned(h) == IF h \in DOMAIN applied THEN applied[h] ELSE detours[h]
Records == DOMAIN applied \cup DOMAIN detours

(* The patches and detours on bytes of which an entry would lie.           *)
LiesOn(e) == {h \in Records : DOMAIN Written(e) \cap DOMAIN Owned(h).backup # {}}

(* The bytes the patches and detours of an addon lie on.                   *)
CoveredBy(m) == UNION {DOMAIN Owned(h).backup : h \in {k \in Records : Owned(k).owner = m}}

-----------------------------------------------------------------------------
Init ==
  /\ memory = Original
  /\ applied = << >> /\ detours = << >> /\ hooks = << >>
  /\ mods = << >>
  /\ phase = "loading"
  /\ job = NoJob
  /\ doomed = << >>
  /\ next = 0 /\ handle = 0 /\ reloads = 0
  /\ failed = 0 /\ overlaid = FALSE /\ untold = FALSE
  /\ call = NoCall /\ known = {} /\ makes = 0 /\ lost = {}

StartJob(m, index, f) ==
  job' = [mod |-> m, index |-> index, todo |-> f, patches |-> NoPatches, spans |-> Spans(f)]

(* The error leaves the runtime, which drops every addon.                  *)
Break ==
  /\ phase' = "ended"
  /\ doomed' = AllRemovals
  /\ mods' = << >>
  /\ UNCHANGED job

BeginLoad(f) ==
  /\ phase = "loading" /\ Idle /\ next < Len(LoadOrder)
  /\ f \in File[LoadOrder[next + 1]]
  /\ next' = next + 1
  /\ \/ /\ Acceptable(f, 0)
        /\ StartJob(LoadOrder[next + 1], 0, f)
        /\ UNCHANGED <<mods, phase, doomed>>
     \/ ~Acceptable(f, 0) /\ Break
  /\ UNCHANGED <<memory, applied, detours, hooks, handle, reloads, failed, overlaid, untold,
                 scriptVars>>

(* Patches::new takes the next entry.  A patch that could not be made      *)
(* leaves the invalid handle behind, a hook that could not be made nothing. *)
ApplyBytes(e, ok) ==
  /\ e.kind = "bytes"
  /\ applied' = IF ok THEN Put(applied, handle + 1, SavedFor(job.mod, e)) ELSE applied
  /\ job' = [job EXCEPT !.todo = Tail(@),
                        !.patches.handles = Append(@, IF ok THEN handle + 1 ELSE 0),
                        !.patches.shown = IF ok THEN Overwrite(@, Written(e)) ELSE @]
  /\ UNCHANGED <<detours, hooks>>

(* register_trampoline_hook: the call site's metadata replaces what was    *)
(* there.                                                                  *)
ApplyHook(e, ok) ==
  /\ e.kind = "hook"
  /\ detours' = IF ok THEN Put(detours, handle + 1, SavedFor(job.mod, e)) ELSE detours
  /\ hooks' = IF ok THEN Put(hooks, e.addr, handle + 1) ELSE hooks
  /\ job' = [job EXCEPT !.todo = Tail(@),
                        !.patches.sites = IF ok THEN Append(@, e.addr) ELSE @,
                        !.patches.shown = IF ok THEN Overwrite(@, Written(e)) ELSE @]
  /\ UNCHANGED applied

Apply(ok) ==
  LET e == Head(job.todo)
  IN
  /\ job # NoJob /\ job.todo # << >>
  /\ ok => DOMAIN Written(e) \subseteq Cell
  /\ ApplyBytes(e, ok) \/ ApplyHook(e, ok)
  /\ memory' = IF ok THEN Overwrite(memory, Written(e)) ELSE memory
  /\ handle' = IF ok THEN handle + 1 ELSE handle
  /\ overlaid' = (overlaid \/ (ok /\ \E h \in LiesOn(e) : Owned(h).owner \in {job.mod, "script"}))
  /\ untold' = (untold \/ (ok /\ \E h \in LiesOn(e) : ~SpansTell(e, Owned(h).entry)))
  /\ UNCHANGED <<mods, phase, doomed, next, reloads, failed, scriptVars>>

Applied == job # NoJob /\ job.todo = << >> /\ call = NoCall
Loaded == [mod |-> job.mod, patches |-> job.patches, spans |-> job.spans]

EndLoad ==
  /\ Applied /\ job.index = 0
  /\ mods' = Append(mods, Loaded)
  /\ job' = NoJob
  /\ UNCHANGED <<memory, applied, detours, hooks, phase, doomed, next, handle, reloads,
                 failed, overlaid, untold, scriptVars>>

(* The script of the addon fails after its patches were applied: they are  *)
(* dropped first, then the addons loaded before.                           *)
FailLoad ==
  /\ Applied /\ job.index = 0
  /\ job' = NoJob
  /\ phase' = "ended"
  /\ doomed' = <<Removals(job.patches)>> \o AllRemovals
  /\ mods' = << >>
  /\ UNCHANGED <<memory, applied, detours, hooks, next, handle, reloads, failed, overlaid, untold,
                 scriptVars>>

StartServing ==
  /\ phase = "loading" /\ Idle /\ next = Len(LoadOrder)
  /\ phase' = "serving"
  /\ UNCHANGED <<memory, applied, detours, hooks, mods, job, doomed, next, handle, reloads,
                 failed, overlaid, untold, scriptVars>>

\* Faulty: the reloaded addon is listed again.
Reloaded_Pushed == Append(mods, Loaded)

Reloaded == [mods EXCEPT ![job.index] = Loaded]

\* Faulty: the patch set just applied is dropped.
Superseded_New == job.patches

Superseded == mods[job.index].patches

(* The new patch set, which may hold entries of the old one, is applied    *)
(* while the old one still is; assigning it to the addon drops the old one. *)
BeginReload(i, f) ==
  /\ phase = "serving" /\ Idle /\ reloads < MaxReloads
  /\ i \in DOMAIN mods /\ f \in File[mods[i].mod]
  /\ reloads' = reloads + 1
  /\ \/ /\ Acceptable(f, i)
        /\ StartJob(mods[i].mod, i, f)
        /\ UNCHANGED <<mods, phase, doomed>>
     \/ ~Acceptable(f, i) /\ Break
  /\ UNCHANGED <<memory, applied, detours, hooks, next, handle, failed, overlaid, untold,
                 scriptVars>>

EndReload ==
  /\ Applied /\ job.index # 0
  /\ doomed' = <<Removals(Superseded)>>
  /\ mods' = Reloaded
  /\ job' = NoJob
  /\ UNCHANGED <<memory, applied, detours, hooks, phase, next, handle, reloads, failed, overlaid, untold,
                 scriptVars>>

(* process_pending_unloads, for an addon that asked to be unloaded.        *)
Unload(i) ==
  /\ phase = "serving" /\ Idle /\ i \in DOMAIN mods
  /\ doomed' = <<Removals(mods[i].patches)>>
  /\ mods' = [k \in 1 .. Len(mods) - 1 |-> mods[IF k < i THEN k ELSE k + 1]]
  /\ UNCHANGED <<memory, applied, detours, hooks, phase, job, next, handle, reloads, failed, overlaid, untold,
                 scriptVars>>

(* Shutdown, or an error that ends the loop.                               *)
Stop ==
  /\ phase = "serving" /\ Idle
  /\ Break
  /\ UNCHANGED <<memory, applied, detours, hooks, next, handle, reloads, failed, overlaid, untold,
                 scriptVars>>

-----------------------------------------------------------------------------
(* Dropping.  A patch leaves the storage even when its bytes could not be  *)
(* written back; a detour whose bytes could not stays recorded, but its    *)
(* metadata is gone.                                                       *)
DropPatch(h, ok) ==
  /\ memory' = IF h \in DOMAIN applied /\ ok THEN Overwrite(memory, applied[h].backup)
                                             ELSE memory
  /\ applied' = Without(applied, h)
  /\ failed' = IF h \in DOMAIN applied /\ ~ok THEN failed + 1 ELSE failed
  /\ failed' <= MaxFailures
  /\ UNCHANGED <<detours, hooks>>

DropHook(site, ok) ==
  LET d == hooks[site]
      restored == site \in DOMAIN hooks /\ d \in DOMAIN detours /\ ok
  IN
  /\ memory' = IF restored THEN Overwrite(memory, detours[d].backup) ELSE memory
  /\ detours' = IF restored THEN Without(detours, d) ELSE detours
  /\ hooks' = Without(hooks, site)
  /\ failed' = IF ok THEN failed ELSE failed + 1
  /\ failed' <= MaxFailures
  /\ UNCHANGED applied

(* Everything of the patch set is removed.                                 *)
Dropped ==
  /\ doomed[1].handles = << >> /\ doomed[1].sites = << >>
  /\ doomed' = Tail(doomed)
  /\ UNCHANGED <<memory, applied, detours, hooks, failed>>

Drop(ok) ==
  /\ doomed # << >>
  /\ \/ /\ doomed[1].handles # << >>
        /\ DropPatch(Head(doomed[1].handles), ok)
        /\ doomed' = [doomed EXCEPT ![1].handles = Tail(@)]
     \/ /\ doomed[1].handles = << >> /\ doomed[1].sites # << >>
        /\ DropHook(Head(doomed[1].sites), ok)
        /\ doomed' = [doomed EXCEPT ![1].sites = Tail(@)]
     \/ Dropped
  /\ UNCHANGED <<mods, phase, job, next, handle, reloads, overlaid, untold, scriptVars>>

-----------------------------------------------------------------------------
(* Engine.memory.patch, called by init, whose addon is not loaded yet, or   *)
(* by a callback of a loaded addon.                                         *)
ScriptsRun ==
  \/ phase = "serving" /\ Idle /\ mods # << >>
  \/ Applied /\ job.index = 0

(* The entries are taken one by one.                                        *)
BeginMake(list) ==
  /\ ScriptsRun /\ makes < MaxMakes /\ list # << >>
  /\ call' = [todo |-> list, made |-> << >>]
  /\ makes' = makes + 1
  /\ UNCHANGED <<memory, applied, detours, hooks, mods, phase, job, doomed, next, handle,
                 reloads, failed, overlaid, untold, known, lost>>

(* A patch the wrapper refuses leaves its invalid handle in the result.     *)
MakeEntry(ok) ==
  LET e == Head(call.todo)
  IN
  /\ call.todo # << >>
  /\ ok => DOMAIN Written(e) \subseteq Cell
  /\ applied' = IF ok THEN Put(applied, handle + 1, SavedFor("script", e)) ELSE applied
  /\ memory' = IF ok THEN Overwrite(memory, Written(e)) ELSE memory
  /\ handle' = IF ok THEN handle + 1 ELSE handle
  /\ overlaid' = (overlaid \/ (ok /\ LiesOn(e) # {}))
  /\ call' = [todo |-> Tail(call.todo),
              made |-> Append(call.made, IF ok THEN handle + 1 ELSE 0)]
  /\ UNCHANGED <<detours, hooks, mods, phase, job, doomed, next, reloads, failed, untold, known,
                 makes, lost>>

Handles(s) == {s[k] : k \in DOMAIN s} \ {0}

(* The range overflows or is not writable: nil for the whole list, and what *)
(* was made of it stays.                                                    *)
RefuseEntry ==
  /\ call.todo # << >>
  /\ lost' = lost \cup Handles(call.made)
  /\ call' = NoCall
  /\ UNCHANGED <<memory, applied, detours, hooks, mods, phase, job, doomed, next, handle,
                 reloads, failed, overlaid, untold, known, makes>>

EndMake ==
  /\ call # NoCall /\ call.todo = << >>
  /\ known' = known \cup Handles(call.made)
  /\ call' = NoCall
  /\ UNCHANGED <<memory, applied, detours, hooks, mods, phase, job, doomed, next, handle,
                 reloads, failed, overlaid, untold, makes, lost>>

(* Engine.memory.patch.remove with a handle the script was given.           *)
ScriptRemove(h, ok) ==
  /\ ScriptsRun /\ h \in known
  /\ DropPatch(h, ok)
  /\ known' = known \ {h}
  /\ UNCHANGED <<mods, phase, job, doomed, next, handle, reloads, overlaid, untold, call, makes, lost>>

-----------------------------------------------------------------------------
Next ==
  \/ \E m \in Mod : \E f \in File[m] : BeginLoad(f)
  \/ \E ok \in BOOLEAN : Apply(ok) \/ Drop(ok)
  \/ EndLoad \/ FailLoad \/ StartServing \/ EndReload \/ Stop
  \/ \E i \in DOMAIN mods : Unload(i) \/ \E f \in File[mods[i].mod] : BeginReload(i, f)
  \/ \E list \in Lists : BeginMake(list)
  \/ \E ok \in BOOLEAN : MakeEntry(ok) \/ \E h \in known : ScriptRemove(h, ok)
  \/ RefuseEntry \/ EndMake

Spec == Init /\ [][Next]_vars

-----------------------------------------------------------------------------
TypeOK ==
  /\ DOMAIN memory = Cell
  /\ DOMAIN applied \cap DOMAIN detours = {} /\ Records \subseteq 1 .. handle
  /\ \A h \in Records : Owned(h).owner \in Mod \cup {"script"} /\ DOMAIN Owned(h).backup \subseteq Cell
  /\ \A s \in DOMAIN hooks : hooks[s] \in 1 .. handle
  /\ handle \in Nat /\ next \in 0 .. Len(LoadOrder) /\ Len(mods) <= next
  /\ phase \in {"loading", "serving", "ended"}
  /\ reloads \in 0 .. MaxReloads
  /\ failed \in 0 .. MaxFailures /\ overlaid \in BOOLEAN /\ untold \in BOOLEAN
  /\ makes \in 0 .. MaxMakes
  /\ known \subseteq 1 .. handle /\ lost \subseteq (1 .. handle) \ known

(* No patch or detour of an addon lies on a byte of another addon's,       *)
(* through loads, hot reloads and unloads (ensure_no_overlap against the   *)
(* spans the loader remembers of every other addon) - if the check can     *)
(* tell their entries apart, which NoOverlap is about.                     *)
ModsDisjoint ==
  failed = 0 /\ ~overlaid =>
    \A h, k \in Records :
      Owned(h).owner # Owned(k).owner /\ SpansTell(Owned(h).entry, Owned(k).entry)
        => DOMAIN Owned(h).backup \cap DOMAIN Owned(k).backup = {}

(* The same for all entries: "Binary patch definitions in `patch.jsonc`,   *)
(* including checks for overlapping patch ranges" (README.md:38), of which *)
(* an addon that overlaps another is refused with "patch overlap: mod ...  *)
(* range ... overlaps mod ... range ..." (patch.rs:194).                   *)
NoOverlap ==
  failed = 0 /\ ~overlaid =>
    \A h, k \in Records :
      Owned(h).owner # Owned(k).owner => DOMAIN Owned(h).backup \cap DOMAIN Owned(k).backup = {}

SitesOf(p) == {p.sites[k] : k \in DOMAIN p.sites}

(* Between operations, the patches the wrapper holds are exactly those a    *)
(* loaded addon will remove and those a script made and can remove: no      *)
(* reload, unload or failed start takes a script's or leaves one without an *)
(* owner (Patches::new pushing every handle, Drop) - but for a list given   *)
(* to patch.make of which a later entry is refused (engine_memory.rs:197).  *)
PatchesOwned ==
  Idle => DOMAIN applied =
            known \cup lost \cup UNION {Handles(mods[i].patches.handles) : i \in DOMAIN mods}

(* The same for hooks: between operations every call site a loaded addon   *)
(* hooked has the metadata hook_dispatch looks up, no other site has, and   *)
(* each detour in the game's code belongs to one of them.                   *)
HooksOwned ==
  Idle /\ failed = 0 /\ ~overlaid =>
    /\ DOMAIN hooks = UNION {SitesOf(mods[i].patches) : i \in DOMAIN mods}
    /\ {hooks[s] : s \in DOMAIN hooks} = DOMAIN detours
    /\ \A s, t \in DOMAIN hooks : hooks[s] = hooks[t] => s = t

(* Nothing that changes the game is without an addon that will undo it.    *)
AllOwned == PatchesOwned /\ HooksOwned

(* Between operations, each byte no addon and no script is showing is the   *)
(* game's own, whatever was loaded, reloaded and dropped before: after the  *)
(* end of the runtime, the whole image but for what scripts left patched,   *)
(* which nobody takes back, and where an addon patched over another's that  *)
(* the overlap check cannot tell from it.                                   *)
GameRestored ==
  Idle /\ failed = 0 /\ ~overlaid /\ ~untold =>
    \A c \in Cell \ CoveredBy("script") :
      (\A i \in DOMAIN mods : c \notin DOMAIN mods[i].patches.shown)
        => memory[c] = Original[c]

InForce ==
  \A i \in DOMAIN mods :
    /\ \A c \in DOMAIN mods[i].patches.shown : memory[c] = mods[i].patches.shown[c]
    /\ \A k \in DOMAIN mods[i].patches.sites : mods[i].patches.sites[k] \in DOMAIN hooks

(* Between operations, what a loaded addon applied is in the image and its  *)
(* hooks are registered: no load, reload or unload of another addon, and no *)
(* reload of its own that keeps clear of what it replaces, takes effect     *)
(* away from it (Patches::new, Drop and the assignment between them) - but  *)
(* for another addon's patch over it that the overlap check cannot tell.    *)
AddonsInForce == Idle /\ failed = 0 /\ ~overlaid /\ ~untold => InForce

(* The same without the exception: also a reload that rewrites bytes its    *)
(* addon had already patched leaves the new patches in force.  "Manages a   *)
(* set of patches; applies patches on creation and removes them on Drop"    *)
(* (patch.rs:419); the loader reloads by creating the new set first.        *)
ReloadTakesEffect == Idle /\ failed = 0 => InForce
=============================================================================
