------------------------------- MODULE HotReload -------------------------------
(***************************************************************************)
(* Hot reload of one addon (cccaster/src/loader/core.rs): the watcher's    *)
(* events, the hashes the loader compares files with, the classification   *)
(* of a changed file, and the reload of patch.jsonc, of assets and of      *)
(* scripts, while somebody else saves files at any moment.                 *)
(*                                                                         *)
(* The contents of a file and its hash are told apart by nobody, so one    *)
(* value stands for both.  What matters is when each file is read, when it *)
(* is hashed, and when its event is received: each is a step of its own    *)
(* wherever a save in between makes a difference.                          *)
(***************************************************************************)
EXTENDS Integers, Sequences

CONSTANTS
  File,              \* files below the addon's directory
  PatchFile,         \* patch.jsonc
  MainFile,          \* main.luau
  CacheFile,         \* converts.tar.zstd
  ScriptFile,        \* *.luau and script.tar.zstd, main.luau among them
  AssetFile,         \* assets/** and assets.tar.zstd
  Contents,          \* File -> what may be saved in it:
                     \*   [version, valid, requires], see Missing
  Saved,             \* File -> its contents at the start
  SavesDuringStart,  \* bound: whether files are saved before the watcher runs
  MaxSaves           \* bound: saves

(* A file that is not there; None for its hash.                            *)
Missing == [version |-> 0, valid |-> FALSE, requires |-> {}]

Content == {Missing} \cup UNION {Contents[f] : f \in File}

(* No script requires patch.jsonc or a file below assets.                  *)
Requirable == File \ (AssetFile \cup {PatchFile})

ASSUME FilesAssumption ==
  /\ ScriptFile \subseteq File /\ AssetFile \subseteq File
  /\ {PatchFile, MainFile, CacheFile} \subseteq File
  /\ MainFile \in ScriptFile
  /\ {PatchFile, CacheFile} \cap (ScriptFile \cup AssetFile) = {}
  /\ ScriptFile \cap AssetFile = {} /\ PatchFile # CacheFile
  /\ Saved \in [File -> Content]
  /\ \A f \in File : \A c \in Contents[f] : c.requires \subseteq Requirable
  /\ MaxSaves \in Nat

VARIABLES
  disk,      \* what is saved
  events,    \* rx: files named by the watcher's events, oldest first
  watching,  \* the watcher is running
  hashes,    \* watched_hashes of the addon
  inForce,   \* what the patches applied, the assets copied and the script
             \* running were read from
  phase,     \* of the loader
  job,       \* what a load has read: the text of main.luau, the files used
  saves,     \* saves so far
  \* What the properties compare the state with; the code keeps none of it.
  edits,     \* per file, how often a save changed it
  reloads,   \* per file, how many reloads its events started
  missed,    \* files that were read and hashed with different contents
  late,      \* files required when the watched files were hashed already
  failing    \* the last script reload failed

vars == <<disk, events, watching, hashes, inForce, phase, job, saves, edits, reloads,
          missed, late, failing>>

-----------------------------------------------------------------------------
Put(f, x, value) == [y \in DOMAIN f \cup {x} |-> IF y = x THEN value ELSE f[y]]

(* classify_hot_reload_path; files of the last kind are hashed only.       *)
Kind(f) ==
  CASE f = PatchFile -> "patch"
    [] f \in AssetFile -> "asset"
    [] f \in ScriptFile -> "script"
    [] OTHER -> "other"

NoJob == [text |-> Missing, used |-> {}]

ContentsNow(text) == [f \in File |-> IF f = MainFile THEN text ELSE disk[f]]

(* What is read when start is: the files it requires as it runs, directly  *)
(* or through others.  They are in every set that has what its members     *)
(* require.                                                                *)
Closed(files, start, text) ==
  start \in files /\ \A f \in files : ContentsNow(text)[f].requires \subseteq files

UsedFrom(start, text) ==
  {f \in Requirable : \A files \in SUBSET Requirable : Closed(files, start, text) => f \in files}

Used(text) == UsedFrom(MainFile, text)

Loadable(text) == \A f \in Used(text) : ContentsNow(text)[f].valid

(* An addon without main.luau runs an empty table.                         *)
WithScript(text) ==
  [f \in {g \in DOMAIN inForce : Kind(g) # "script"} \cup Used(text) |->
     IF f \in Used(text) THEN ContentsNow(text)[f] ELSE inForce[f]]

(* Copying the assets leaves behind what was copied from a file that is    *)
(* gone.                                                                   *)
WithAssets(previous) ==
  [f \in DOMAIN previous \cup {g \in AssetFile : disk[g] # Missing} |->
     IF f \in AssetFile /\ disk[f] # Missing THEN disk[f] ELSE previous[f]]

\* Faulty: the files a script requires are not watched.
WatchedFiles_Core ==
  {PatchFile, MainFile, CacheFile} \cup {f \in AssetFile : disk[f] # Missing}

(* build_watched_files                                                     *)
WatchedFiles ==
  {PatchFile, MainFile, CacheFile} \cup job.used \cup {f \in AssetFile : disk[f] # Missing}

HashesNow == [f \in WatchedFiles |-> disk[f]]

(* What is in force was read before the last save; the copy of an asset    *)
(* that is gone is not.                                                    *)
Stale(f) ==
  /\ f \in DOMAIN inForce /\ inForce[f] # disk[f]
  /\ ~ (f \in AssetFile /\ disk[f] = Missing)

-----------------------------------------------------------------------------
Init ==
  /\ disk = Saved
  /\ events = << >> /\ watching = FALSE
  /\ hashes = << >> /\ inForce = << >>
  /\ phase = "reading" /\ job = NoJob
  /\ saves = 0
  /\ edits = [f \in File |-> 0] /\ reloads = [f \in File |-> 0]
  /\ missed = {} /\ late = {} /\ failing = FALSE

Notify(f, n) == events' = IF watching THEN events \o [k \in 1 .. n |-> f] ELSE events

(* Somebody saves or removes a file, which the watcher tells in one event  *)
(* or in several.                                                          *)
Save(f, c, n) ==
  /\ saves < MaxSaves
  /\ watching \/ SavesDuringStart
  /\ disk' = [disk EXCEPT ![f] = c]
  /\ Notify(f, n)
  /\ saves' = saves + 1
  /\ edits' = [edits EXCEPT ![f] = IF c = disk[f] THEN @ ELSE @ + 1]
  /\ UNCHANGED <<watching, hashes, inForce, phase, job, reloads, missed, late, failing>>

-----------------------------------------------------------------------------
(* The start: the assets are copied, patch.jsonc is applied, main.luau and *)
(* what it requires are read and checked.  Nothing tells between the       *)
(* readings, so they are one step.                                         *)
PatchFileFine == disk[PatchFile] = Missing \/ disk[PatchFile].valid

ReadFiles ==
  /\ phase = "reading" /\ ~watching
  /\ PatchFileFine
  /\ disk[MainFile] = Missing \/ Loadable(disk[MainFile])
  /\ inForce' = Put(WithAssets(<< >>), PatchFile, disk[PatchFile])
  /\ job' = [text |-> disk[MainFile], used |-> Used(disk[MainFile])]
  /\ phase' = "evaluating"
  /\ UNCHANGED <<disk, events, watching, hashes, saves, edits, reloads, missed, late, failing>>

(* Any error of the first load ends the runtime.                           *)
StartFails ==
  /\ phase \in {"reading", "evaluating"} /\ ~watching
  /\ phase' = "ended"
  /\ UNCHANGED <<disk, events, watching, hashes, inForce, job, saves, edits, reloads,
                 missed, late, failing>>

StartWatching ==
  /\ phase = "hashed" /\ ~watching
  /\ watching' = TRUE
  /\ phase' = "waiting"
  /\ missed' = {f \in File : Stale(f) \/ (f \in DOMAIN hashes /\ hashes[f] # disk[f])}
  /\ UNCHANGED <<disk, events, hashes, inForce, job, saves, edits, reloads, late, failing>>

-----------------------------------------------------------------------------
(* detect_changed_mod: an asset is watched from its first event on.        *)
Tracked(f) == f \in DOMAIN hashes \cup AssetFile
KnownHash(f) == IF f \in DOMAIN hashes THEN hashes[f] ELSE Missing

\* Faulty: every event counts as a change.
Changed_Event(f) == Tracked(f)

\* Faulty: a file that is gone is not looked at.
Changed_Present(f) == Tracked(f) /\ disk[f] # Missing /\ KnownHash(f) # disk[f]

Changed(f) == Tracked(f) /\ KnownHash(f) # disk[f]

\* Faulty: the kind of the file is taken for the next step.
AfterEvent_Kind(f) == IF Changed(f) THEN Kind(f) ELSE "waiting"

(* The next event.  A changed script starts a reload, unless main.luau is  *)
(* gone.                                                                   *)
AfterEvent(f) ==
  IF ~Changed(f) \/ Kind(f) = "other" THEN "waiting"
  ELSE CASE Kind(f) = "patch" -> "patching"
         [] Kind(f) = "asset" -> "copying"
         [] Kind(f) = "script" -> IF disk[MainFile] = Missing THEN "waiting" ELSE "unloading"

HashesAfter(f) == IF Tracked(f) THEN Put(hashes, f, disk[f]) ELSE hashes

Detect(f) ==
  /\ phase = "waiting" /\ events # << >> /\ f = Head(events)
  /\ events' = Tail(events)
  /\ hashes' = HashesAfter(f)
  /\ phase' = AfterEvent(f)
  /\ reloads' = [reloads EXCEPT ![f] = IF phase' = "waiting" THEN @ ELSE @ + 1]
  /\ failing' = (failing \/ (phase' = "waiting" /\ Changed(f) /\ Kind(f) = "script"))
  /\ UNCHANGED <<disk, watching, inForce, job, saves, edits, missed, late>>

-----------------------------------------------------------------------------
(* The files not read as they were hashed, after these were read.          *)
MissedReading(files) == {f \in files : KnownHash(f) # disk[f]} \cup (missed \ files)

(* hot_reload_patches_only.  The file is read now, not when it was hashed. *)
ReloadPatches ==
  /\ phase = "patching" /\ PatchFileFine
  /\ inForce' = Put(inForce, PatchFile, disk[PatchFile])
  /\ missed' = MissedReading({PatchFile})
  /\ phase' = "waiting"
  /\ UNCHANGED <<disk, events, watching, hashes, job, saves, edits, reloads, late, failing>>

(* A patch file that cannot be parsed, or whose patches would overlap      *)
(* another addon's, ends the runtime; so do assets that cannot be copied.  *)
ReloadEnds ==
  /\ phase = "copying" \/ (phase = "patching" /\ disk[PatchFile] # Missing)
  /\ phase' = "ended"
  /\ UNCHANGED <<disk, events, watching, hashes, inForce, job, saves, edits, reloads,
                 missed, late, failing>>

(* register_mod_assets.  A converter runs on what changed, and the cache   *)
(* of its results is a file below the addon.                               *)
ReloadAssets(c) ==
  /\ phase = "copying"
  /\ inForce' = WithAssets(inForce)
  /\ \/ c = disk[CacheFile] /\ UNCHANGED <<disk, events>>
     \/ /\ inForce' # inForce
        /\ disk' = [disk EXCEPT ![CacheFile] = c]
        /\ Notify(CacheFile, 1)
  /\ missed' = MissedReading(AssetFile)
  /\ phase' = "waiting"
  /\ UNCHANGED <<watching, hashes, job, saves, edits, reloads, late, failing>>

-----------------------------------------------------------------------------
(* hot_reload_scripts_only: unload of the running script is called before  *)
(* anything of the new one is read.                                        *)
CallUnload ==
  /\ phase = "unloading"
  /\ phase' = "reading"
  /\ UNCHANGED <<disk, events, watching, hashes, inForce, job, saves, edits, reloads,
                 missed, late, failing>>

ReadScripts ==
  /\ phase = "reading" /\ watching
  /\ Loadable(disk[MainFile])
  /\ job' = [text |-> disk[MainFile], used |-> Used(disk[MainFile])]
  /\ phase' = "evaluating"
  /\ UNCHANGED <<disk, events, watching, hashes, inForce, saves, edits, reloads,
                 missed, late, failing>>

(* main.luau runs as it was read, what it requires is read again, and      *)
(* load, or init at the start, is called.                                  *)
Evaluate ==
  /\ phase = "evaluating"
  /\ job.text = Missing \/ Loadable(job.text)
  /\ inForce' = WithScript(job.text)
  /\ job' = [job EXCEPT !.used = @ \cup Used(job.text)]
  /\ phase' = "evaluated"
  /\ UNCHANGED <<disk, events, watching, hashes, saves, edits, reloads, missed, late, failing>>

HashFiles ==
  /\ phase = "evaluated"
  /\ hashes' = HashesNow
  /\ job' = NoJob
  /\ phase' = IF watching THEN "waiting" ELSE "hashed"
  /\ missed' = {f \in File : Stale(f)}
  /\ late' = {} /\ failing' = FALSE
  /\ UNCHANGED <<disk, events, watching, inForce, saves, edits, reloads>>

(* The running script requires a file: from load or init, before the files *)
(* are hashed, or from post_init, a handler or unload after that, when     *)
(* what is added to required_files is looked at no more.                   *)
Running == MainFile \in DOMAIN inForce /\ inForce[MainFile] # Missing

Require(f) ==
  LET files == UsedFrom(f, disk[MainFile])
  IN
  /\ phase \in {"evaluated", "hashed", "waiting", "unloading"} /\ Running
  /\ \A g \in files : disk[g].valid
  /\ inForce' = [g \in DOMAIN inForce \cup files |->
                   IF g \in files THEN disk[g] ELSE inForce[g]]
  /\ IF phase = "evaluated"
     THEN job' = [job EXCEPT !.used = @ \cup files] /\ UNCHANGED <<missed, late>>
     ELSE /\ missed' = missed \cup {g \in files \cap DOMAIN hashes : hashes[g] # disk[g]}
          /\ late' = late \cup (files \ DOMAIN hashes)
          /\ UNCHANGED job
  /\ UNCHANGED <<disk, events, watching, hashes, phase, saves, edits, reloads, failing>>

\* Faulty: a reload that fails is tried again at once.
ReloadFails_Again ==
  /\ watching /\ phase \in {"unloading", "reading", "evaluating", "evaluated"}
  /\ job' = NoJob
  /\ phase' = "unloading"
  /\ failing' = TRUE
  /\ UNCHANGED <<disk, events, watching, hashes, inForce, saves, edits, reloads, missed,
                 late>>

(* A reload that fails - in unload, while reading or checking, in the      *)
(* script or in its load - is logged and leaves the hashes as they are.    *)
(* When load fails, the new script is registered already.                  *)
ReloadFails ==
  /\ watching /\ phase \in {"unloading", "reading", "evaluating", "evaluated"}
  /\ job' = NoJob
  /\ phase' = "waiting"
  /\ failing' = TRUE
  /\ UNCHANGED <<disk, events, watching, hashes, inForce, saves, edits, reloads, missed,
                 late>>

-----------------------------------------------------------------------------
Loader ==
  \/ ReadFiles \/ StartFails \/ StartWatching
  \/ \E f \in File : Detect(f)
  \/ ReloadPatches \/ ReloadEnds
  \/ \E c \in Contents[CacheFile] \cup {disk[CacheFile]} : ReloadAssets(c)
  \/ CallUnload \/ ReadScripts \/ Evaluate \/ HashFiles \/ ReloadFails

Next ==
  \/ Loader
  \/ \E f \in ScriptFile : Require(f)
  \/ \E f \in File \ {CacheFile} : \E c \in Contents[f] \cup {Missing} : \E n \in 1 .. 2 : Save(f, c, n)

(* The runtime thread is scheduled and callbacks return.                   *)
Spec == Init /\ [][Next]_vars /\ WF_vars(Loader)

-----------------------------------------------------------------------------
TypeOK ==
  /\ disk \in [File -> Content]
  /\ events \in Seq(File) /\ watching \in BOOLEAN
  /\ DOMAIN hashes \subseteq File /\ \A f \in DOMAIN hashes : hashes[f] \in Content
  /\ DOMAIN inForce \subseteq File /\ \A f \in DOMAIN inForce : inForce[f] \in Content
  /\ phase \in {"reading", "evaluating", "evaluated", "hashed", "waiting", "patching",
                "copying", "unloading", "ended"}
  /\ job \in [text : Content, used : SUBSET File]
  /\ saves \in 0 .. MaxSaves
  /\ edits \in [File -> Nat] /\ reloads \in [File -> Nat]
  /\ missed \subseteq File /\ late \subseteq File /\ failing \in BOOLEAN

Reloadable(f) == Kind(f) # "other" /\ ~ (failing /\ Kind(f) = "script")
Settled == phase = "waiting" /\ events = << >>

(* Once every event is handled, what runs is what is saved: no order of     *)
(* saves, duplicate events and reloads leaves an older version in force.    *)
(* Excepted are files read and hashed with different contents, and scripts  *)
(* after a failed reload (detect_changed_mod, which keeps the new   *)
(* hash before the file is read again, against the hashing at the end of a  *)
(* script reload).                                                          *)
SettledIsCurrent ==
  Settled => \A f \in DOMAIN hashes \ missed : Reloadable(f) => ~Stale(f)

(* No reload without a change: a save told in several events, a save that   *)
(* leaves a file as it was, and an event that comes after the file was      *)
(* read anyway take nothing down (the comparison of hashes in               *)
(* detect_changed_mod).                                                     *)
ReloadsJustified == \A f \in File : reloads[f] <= edits[f]

(* Between reloads, every file the running script was read from is watched, *)
(* also one that is required only after an edit, through another file, or   *)
(* by load; excepted are files the script required when its load was over,  *)
(* and scripts after a failed reload (required_files, which Engine.require  *)
(* adds to, and build_watched_files, which reads it once).                  *)
RunningFilesWatched ==
  watching /\ phase \in {"waiting", "patching", "copying", "unloading"} /\ ~failing =>
    \A f \in DOMAIN inForce \ late : Kind(f) = "script" => f \in DOMAIN hashes

(* Once nobody saves any more, the loop comes to rest: it follows no event  *)
(* its own writing below the addon caused for ever (the cache of converted  *)
(* assets), and no failed reload keeps it busy.                             *)
ComesToRest == <>[](Settled \/ phase = "ended")


(* The same of every file the running script was read from, with files it   *)
(* required when its load was over: "File-watcher-based hot reload for      *)
(* addon scripts" (README.md:42).  Nobody watches those.                    *)
RequiredFilesReload ==
  Settled /\ ~failing =>
    \A f \in DOMAIN inForce \ missed : Kind(f) = "script" => ~Stale(f)
=============================================================================
