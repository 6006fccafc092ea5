------------------------------- MODULE LoadOrder -------------------------------
(***************************************************************************)
(* From the command line to the running addons: the launcher merges its    *)
(* arguments with a profile (launcher/src/lib.rs, profile/config.rs), the  *)
(* loader finds addons, orders them by their dependencies or by an order   *)
(* it is given (cccaster/src/loader/core.rs), and calls init, post_init    *)
(* and quit.  The profile stays on disk from launch to launch.             *)
(*                                                                         *)
(* Text that nobody looks into is a value: a version requirement is the    *)
(* set of versions it accepts, and Parsed says what a part of an order     *)
(* means.                                                                  *)
(***************************************************************************)
EXTENDS Integers, Sequences, SequencesExt

CONSTANTS
  None,         \* an option that is not given
  Malformed,    \* what a part of an order without a version means
  Entry,        \* directories and archives below addons/
  Addon,        \* Entry -> [id, version, readable, deps], where deps are
                \*   [id, accepts, optional]
  Parsed,       \* part of an order -> Malformed or [id, accepts]
  Directories,  \* what addons/ may hold: sets of entries
  Launches,     \* command lines, see Options
  Profiles,     \* profiles somebody may write by hand
  MaxLaunches,  \* bound: launches
  MaxEdits      \* bound: profiles written by hand

Id == {Addon[e].id : e \in Entry}

\* A name on the command line is anything: an addon, or a part of an order.
Name == Id \cup DOMAIN Parsed
OrderOption == {None} \cup Seq(DOMAIN Parsed)

\* env is MODLOADER_LOAD_ORDER.
Options ==
  [addon : {None} \cup SUBSET Name, disable : SUBSET Name, order : OrderOption, env : OrderOption,
   noDeps : BOOLEAN, force : BOOLEAN, safe : BOOLEAN, dryRun : BOOLEAN, profile : BOOLEAN,
   save : BOOLEAN]
ProfileFile == [enabled : SUBSET Name, disabled : SUBSET Name, order : OrderOption]

(* Names have no @, so a name that stands for a part of an order is        *)
(* malformed.                                                              *)
ASSUME LaunchAssumption ==
  /\ IsFiniteSet(Entry) /\ \A S \in SUBSET Name : S # None
  /\ Launches \subseteq Options /\ Profiles \subseteq ProfileFile
  /\ \A t \in DOMAIN Parsed \cap Id : Parsed[t] = Malformed
  /\ \A d \in Directories : d \subseteq Entry
  /\ MaxLaunches \in Nat /\ MaxEdits \in Nat

VARIABLES
  profile,     \* profiles/<name>.json, or None
  asked,       \* the command line of this launch
  args,        \* the same, merged with the profile
  directory,   \* what addons/ holds
  phase,       \* of the launch
  candidates,  \* mod_entries: entries in the order they were found
  order,       \* the load order
  loaded,      \* loaded_mods
  tables,      \* Engine[id]: the entry whose table it is
  calls,       \* callbacks called in this launch, <<callback, entry>>
  posted,      \* entries of the order post_init was called for
  leaving,     \* entries quit is still to be called for
  launches, edits

vars == <<profile, asked, args, directory, phase, candidates, order, loaded, tables, calls,
          posted, leaving, launches, edits>>

-----------------------------------------------------------------------------
(* The launcher.                                                           *)
Given(option) == IF option = None THEN {} ELSE option

SavedProfile(o) == [enabled |-> Given(o.addon), disabled |-> o.disable, order |-> o.order]

(* Parts of an order are compared with the names of the enabled addons as  *)
(* they are written.                                                       *)
EffectiveLoadOrder(p) ==
  LET effective[k \in 0 .. Len(p.order)] ==
        IF k = 0 THEN << >>
        ELSE IF p.order[k] \in p.enabled \ p.disabled THEN Append(effective[k - 1], p.order[k])
        ELSE effective[k - 1]
  IN IF p.order = None THEN << >> ELSE effective[Len(p.order)]

\* Faulty: what the profile disables replaces what the command line disables.
Merged_Replace(o, p) ==
  IF o.profile /\ p # None
  THEN [o EXCEPT !.addon = Given(@) \cup p.enabled,
                 !.disable = p.disabled,
                 !.order = EffectiveLoadOrder(p)]
  ELSE o

(* A profile that is not there is reported and left out.                   *)
Merged(o, p) ==
  IF o.profile /\ p # None
  THEN [o EXCEPT !.addon = Given(@) \cup p.enabled,
                 !.disable = @ \cup p.disabled,
                 !.order = EffectiveLoadOrder(p)]
  ELSE o

-----------------------------------------------------------------------------
(* The loader.                                                             *)
LoadOrderAsked == IF args.env # None THEN args.env ELSE args.order

Selected(e) ==
  /\ Addon[e].readable
  /\ args.safe => Addon[e].id \in {"core", "runtime"}
  /\ Addon[e].id \notin args.disable
  /\ args.addon # None => Addon[e].id \in args.addon

Found == ToSet(candidates)
Position(e) == CHOOSE k \in DOMAIN candidates : candidates[k] = e
Named(id) == {e \in Found : Addon[e].id = id}
First(S) == CHOOSE e \in S : \A f \in S : Position(e) <= Position(f)

(* The graph has a node per entry, but finds nodes by id: of two entries   *)
(* with one id, the later.                                                 *)
NodeOf(id) == CHOOSE e \in Named(id) : \A f \in Named(id) : Position(f) <= Position(e)

\* Faulty: only dependencies that are required order the addons.
Edges_Required ==
  {p \in Found \X Found : \E e \in Found : \E d \in Addon[e].deps :
     /\ Named(d.id) # {} /\ ~d.optional
     /\ p = <<NodeOf(d.id), NodeOf(Addon[e].id)>>
     /\ Addon[p[1]].version \in d.accepts}

(* From each dependency to what depends on it, optional or not.            *)
Edges ==
  {p \in Found \X Found : \E e \in Found : \E d \in Addon[e].deps :
     /\ Named(d.id) # {}
     /\ p = <<NodeOf(d.id), NodeOf(Addon[e].id)>>
     /\ Addon[p[1]].version \in d.accepts}

Before(s, e, f) == \E j \in DOMAIN s : \E k \in DOMAIN s : j < k /\ s[j] = e /\ s[k] = f

(* resolve_load_order: any order toposort may return; none on a cycle.     *)
Resolved ==
  IF args.noDeps THEN {candidates}
  ELSE {s \in SetToSeqs(Found) : \A p \in Edges : Before(s, p[1], p[2])}

(* The entries a part of an order may mean, the best first.                *)
Meant(part) ==
  LET t == Parsed[part]
      fitting == {e \in Named(t.id) : Addon[e].version \in t.accepts}
  IN IF t = Malformed THEN {}
     ELSE IF fitting # {} THEN {First(fitting)}
     ELSE IF args.force /\ Named(t.id) # {} THEN {First(Named(t.id))}
     ELSE {}

\* Faulty: a later mention moves the addon back.
Rank_Last(e) ==
  LET mentions == {k \in DOMAIN LoadOrderAsked : e \in Meant(LoadOrderAsked[k])}
  IN IF mentions # {} THEN CHOOSE k \in mentions : \A j \in mentions : j <= k
     ELSE Len(LoadOrderAsked) + Position(e)

(* Entries go by their first mention, and those not mentioned after them   *)
(* as they were found.                                                     *)
Rank(e) ==
  LET mentions == {k \in DOMAIN LoadOrderAsked : e \in Meant(LoadOrderAsked[k])}
  IN IF mentions # {} THEN CHOOSE k \in mentions : \A j \in mentions : k <= j
     ELSE Len(LoadOrderAsked) + Position(e)

Ranked(S) ==
  {s \in SetToSeqs(S) : \A j, k \in DOMAIN s : j < k => Rank(s[j]) < Rank(s[k])}

OrderUnderstood == \A k \in DOMAIN LoadOrderAsked : Meant(LoadOrderAsked[k]) # {}

\* Faulty: entries that are not mentioned are not loaded.
Orders_Mentioned ==
  IF LoadOrderAsked = None THEN Resolved
  ELSE IF Resolved # {} /\ OrderUnderstood
  THEN Ranked({e \in Found : Rank(e) <= Len(LoadOrderAsked)}) ELSE {}

(* The load order, if there is any: resolve_explicit_load_order, or the    *)
(* one of the dependencies, which are resolved, and may fail to be, also   *)
(* when the result is not used.                                            *)
Orders ==
  IF LoadOrderAsked = None THEN Resolved
  ELSE IF Resolved # {} /\ OrderUnderstood THEN Ranked(Found) ELSE {}

-----------------------------------------------------------------------------
Idle == phase \in {"off", "failed", "ended"}

NoLaunch ==
  [addon |-> None, disable |-> {}, order |-> None, env |-> None, noDeps |-> FALSE,
   force |-> FALSE, safe |-> FALSE, dryRun |-> FALSE, profile |-> FALSE, save |-> FALSE]

Init ==
  /\ profile = None
  /\ asked = NoLaunch /\ args = NoLaunch
  /\ directory = {} /\ phase = "off"
  /\ candidates = << >> /\ order = << >> /\ loaded = << >> /\ tables = << >>
  /\ calls = << >> /\ posted = 0 /\ leaving = << >>
  /\ launches = 0 /\ edits = 0

(* Somebody writes the profile, or removes it.                             *)
EditProfile(p) ==
  /\ Idle /\ edits < MaxEdits
  /\ profile' = p
  /\ edits' = edits + 1
  /\ UNCHANGED <<asked, args, directory, phase, candidates, order, loaded, tables, calls,
                 posted, leaving, launches>>

(* run_cli, and what it starts with; a new process each time.              *)
Launch(o, d) ==
  /\ Idle /\ launches < MaxLaunches
  /\ profile' = IF o.profile /\ o.save THEN SavedProfile(o) ELSE profile
  /\ asked' = o
  /\ args' = Merged(o, profile')
  /\ directory' = d
  /\ phase' = "discovering"
  /\ candidates' = << >> /\ order' = << >> /\ loaded' = << >> /\ tables' = << >>
  /\ calls' = << >> /\ posted' = 0 /\ leaving' = << >>
  /\ launches' = launches + 1
  /\ UNCHANGED edits

(* The directory is read in any order.                                     *)
Discover ==
  /\ phase = "discovering"
  /\ candidates' \in SetToSeqs({e \in directory : Selected(e)})
  /\ phase' = "resolving"
  /\ UNCHANGED <<profile, asked, args, directory, order, loaded, tables, calls, posted,
                 leaving, launches, edits>>

(* Without a directory the runtime reports that it started, and ends.      *)
NoDirectory ==
  /\ phase = "discovering" /\ directory = {}
  /\ phase' = "ended"
  /\ UNCHANGED <<profile, asked, args, directory, candidates, order, loaded, tables, calls,
                 posted, leaving, launches, edits>>

Resolve ==
  /\ phase = "resolving"
  /\ order' \in Orders
  /\ phase' = IF args.dryRun THEN "ended" ELSE "loading"
  /\ UNCHANGED <<profile, asked, args, directory, candidates, loaded, tables, calls, posted,
                 leaving, launches, edits>>

(* The startup fails: an archive cannot be unpacked, there is no order, or *)
(* an addon does not load, which calls quit of none.                       *)
StartupFails ==
  /\ \/ phase = "discovering" /\ directory # {}
     \/ phase = "resolving" /\ Orders = {}
     \/ phase = "loading" /\ Len(loaded) < Len(order)
  /\ phase' = "failed"
  /\ UNCHANGED <<profile, asked, args, directory, candidates, order, loaded, tables, calls,
                 posted, leaving, launches, edits>>

(* The next addon: its table replaces one of the same id.                  *)
Load ==
  /\ phase = "loading" /\ Len(loaded) < Len(order)
  /\ LET e == order[Len(loaded) + 1] IN
       /\ loaded' = Append(loaded, e)
       /\ tables' = [id \in DOMAIN tables \cup {Addon[e].id} |->
                       IF id = Addon[e].id THEN e ELSE tables[id]]
       /\ calls' = Append(calls, <<"init", e>>)
  /\ UNCHANGED <<profile, asked, args, directory, phase, candidates, order, posted, leaving,
                 launches, edits>>

AllLoaded ==
  /\ phase = "loading" /\ Len(loaded) = Len(order)
  /\ phase' = "posting"
  /\ UNCHANGED <<profile, asked, args, directory, candidates, order, loaded, tables, calls,
                 posted, leaving, launches, edits>>

(* The callback is taken from the table; an error of it is logged.         *)
PostInit ==
  /\ phase = "posting"
  /\ IF posted < Len(order)
     THEN /\ calls' = Append(calls, <<"post_init", tables[Addon[order[posted + 1]].id]>>)
          /\ posted' = posted + 1
          /\ UNCHANGED phase
     ELSE phase' = "running" /\ UNCHANGED <<calls, posted>>
  /\ UNCHANGED <<profile, asked, args, directory, candidates, order, loaded, tables, leaving,
                 launches, edits>>

\* Faulty: the name keeps standing for nothing.
Unload_Nil(id) ==
  /\ phase = "running"
  /\ \E k \in DOMAIN loaded : Addon[loaded[k]].id = id /\ loaded' = RemoveAt(loaded, k)
  /\ tables' = [tables EXCEPT ![id] = None]
  /\ UNCHANGED <<profile, asked, args, directory, phase, candidates, order, calls, posted,
                 leaving, launches, edits>>

(* Engine.unload of an addon that is loaded.                               *)
Unload(id) ==
  /\ phase = "running"
  /\ \E k \in DOMAIN loaded :
       /\ Addon[loaded[k]].id = id
       /\ \A j \in 1 .. k - 1 : Addon[loaded[j]].id # id
       /\ loaded' = RemoveAt(loaded, k)
  /\ tables' = [other \in DOMAIN tables \ {id} |-> tables[other]]
  /\ UNCHANGED <<profile, asked, args, directory, phase, candidates, order, calls, posted,
                 leaving, launches, edits>>

\* Faulty: quit is called in the order of loading.
Shutdown_Forward ==
  /\ phase = "running"
  /\ phase' = "quitting"
  /\ leaving' = loaded
  /\ UNCHANGED <<profile, asked, args, directory, candidates, order, loaded, tables, calls,
                 posted, launches, edits>>

Shutdown ==
  /\ phase = "running"
  /\ phase' = "quitting"
  /\ leaving' = Reverse(loaded)
  /\ UNCHANGED <<profile, asked, args, directory, candidates, order, loaded, tables, calls,
                 posted, launches, edits>>

(* An addon whose table is gone ends the rest of the quits.                *)
Quit ==
  /\ phase = "quitting"
  /\ IF leaving = << >>
     THEN phase' = "ended" /\ UNCHANGED <<calls, leaving>>
     ELSE LET id == Addon[Head(leaving)].id IN
          IF id \in DOMAIN tables
          THEN /\ calls' = Append(calls, <<"quit", tables[id]>>)
               /\ leaving' = Tail(leaving)
               /\ UNCHANGED phase
          ELSE phase' = "failed" /\ UNCHANGED <<calls, leaving>>
  /\ UNCHANGED <<profile, asked, args, directory, candidates, order, loaded, tables, posted,
                 launches, edits>>

Next ==
  \/ \E p \in Profiles \cup {None} : EditProfile(p)
  \/ \E o \in Launches, d \in Directories : Launch(o, d)
  \/ Discover \/ NoDirectory \/ Resolve \/ StartupFails
  \/ Load \/ AllLoaded \/ PostInit
  \/ \E id \in Id : Unload(id)
  \/ Shutdown \/ Quit

Spec == Init /\ [][Next]_vars

-----------------------------------------------------------------------------
IdsUnique == \A e, f \in Found : Addon[e].id = Addon[f].id => e = f
Called(callback, e) == <<callback, e>> \in ToSet(calls)

TypeOK ==
  /\ profile \in {None} \cup ProfileFile
  /\ asked \in Options /\ args \in Options
  /\ directory \subseteq Entry
  /\ phase \in {"off", "discovering", "resolving", "loading", "posting", "running",
                "quitting", "ended", "failed"}
  /\ {candidates, order, loaded, leaving} \subseteq Seq(Entry)
  /\ \A id \in DOMAIN tables : tables[id] \in Entry
  /\ calls \in Seq({"init", "post_init", "quit"} \X Entry)
  /\ posted \in 0 .. Len(order)
  /\ launches \in 0 .. MaxLaunches /\ edits \in 0 .. MaxEdits

(* What was found is loaded, all of it and each once, whatever an order    *)
(* repeats or leaves out (the set consumed in                              *)
(* resolve_explicit_load_order).                                           *)
EachLoadedOnce ==
  phase \in {"posting", "running", "quitting"} =>
    \A e \in Found : \E k \in DOMAIN calls :
      \A j \in DOMAIN calls : calls[j] = <<"init", e>> <=> j = k

(* No script runs of an addon that the command line or the profile of this *)
(* launch disables, of one left out by either, or of any but core and      *)
(* runtime in safe mode (run_cli's merging and the filters of discovery).  *)
FiltersHold ==
  ~Idle => \A k \in DOMAIN calls :
    LET id == Addon[calls[k][2]].id
        used == IF asked.profile THEN profile ELSE None
    IN /\ id \notin asked.disable /\ (used # None => id \notin used.disabled)
       /\ asked.safe => id \in {"core", "runtime"}
       /\ used # None \/ asked.addon # None =>
            id \in Given(asked.addon) \cup IF used # None THEN used.enabled ELSE {}

(* Exactly the addons that were found and asked for are loaded.            *)
AskedForAreLoaded == EachLoadedOnce /\ FiltersHold

(* Every dependency that is there in a fitting version is initialised      *)
(* before the addon that names it, in any order of the directory.          *)
DependenciesInOrder ==
  IdsUnique => \A e \in Found : \A d \in Addon[e].deps : \A f \in Named(d.id) :
    Addon[f].version \in d.accepts /\ Called("init", e) =>
      Before(calls, <<"init", f>>, <<"init", e>>)

Unordered == asked.env = None /\ asked.order = None /\ ~asked.noDeps

(* Dependencies are first unless the launch gives an order, turns          *)
(* dependencies off or uses a profile (resolve_load_order).                *)
PlainDependenciesFirst == Unordered /\ ~asked.profile => DependenciesInOrder

(* The same for every launch for which nobody gives an order:              *)
(* "Semantic-version dependency checks, dependency-graph load ordering,    *)
(* and circular-dependency detection" (README.md:37).                      *)
DependenciesFirst ==
  Unordered /\ (asked.profile /\ profile # None => profile.order = None) => DependenciesInOrder

(* An order given without a profile is kept: what is named first is        *)
(* initialised first, and before anything not named.  What is named more   *)
(* than once counts where it is named first (resolve_explicit_load_order). *)
OrderKept ==
  ~asked.profile /\ IdsUnique /\ LoadOrderAsked # None =>
    LET Names(k, e) == Parsed[LoadOrderAsked[k]].id = Addon[e].id
        Mentioned(e) == \E k \in DOMAIN LoadOrderAsked : Names(k, e)
    IN \A e, f \in Found : Before(calls, <<"init", e>>, <<"init", f>>) /\ Mentioned(f) =>
         \E m \in DOMAIN LoadOrderAsked : Names(m, e) /\ \A n \in 1 .. m : ~Names(n, f)

(* Addons are initialised in the order of their dependencies or in the one *)
(* that was given.                                                         *)
OrderRespected == PlainDependenciesFirst /\ OrderKept

(* post_init waits until every addon is initialised and is called in that  *)
(* order.                                                                  *)
PostInitNests ==
  \A e, f \in Found : Called("post_init", f) =>
    /\ Before(calls, <<"init", e>>, <<"post_init", f>>)
    /\ Before(calls, <<"init", e>>, <<"init", f>>) =>
         Before(calls, <<"post_init", e>>, <<"post_init", f>>)

(* quit is called for the addons still loaded, in the opposite order; if   *)
(* the launch does not fail, for all of them.                              *)
QuitNests ==
  /\ \A e \in Found : Called("quit", e) => e \in ToSet(loaded)
  /\ \A e \in Found : \A f \in ToSet(loaded) :
       Called("quit", e) /\ Before(calls, <<"init", e>>, <<"init", f>>) =>
         Before(calls, <<"quit", f>>, <<"quit", e>>)
  /\ phase \in {"quitting", "ended"} =>
       \A e \in ToSet(loaded) : Called("quit", e) \/ e \in ToSet(leaving)
  /\ phase = "failed" => \A e \in Found : ~Called("quit", e)

(* Each callback of an addon is called at most once and where it belongs,  *)
(* whatever was unloaded in between (call_post_init_callbacks,             *)
(* call_quit_callbacks and process_pending_unloads).                       *)
CallbacksNest ==
  IdsUnique =>
    /\ \A j, k \in DOMAIN calls : calls[j] = calls[k] => j = k
    /\ PostInitNests /\ QuitNests
=============================================================================
