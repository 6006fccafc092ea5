--------------------------- MODULE HotReload_proofs ---------------------------
(***************************************************************************)
(* Proofs about HotReload, for every set of files and contents and every   *)
(* bound on saves: what is in force at rest is what is saved, no reload    *)
(* without a change, and the files of the running script are watched.      *)
(*                                                                         *)
(* None of the three is inductive.  The first needs that a kept hash which *)
(* is no longer the file's has an event on its way, and that what is in    *)
(* force was read with the hash kept, or is being read again; the second   *)
(* that a change not yet seen is still owed to the count of changes; the   *)
(* third what a load has read before it watches it.                        *)
(***************************************************************************)
EXTENDS HotReload, TLAPS

Phases ==
  /\ ~watching => /\ phase \in {"reading", "evaluating", "evaluated", "hashed", "ended"}
                  /\ events = << >>
  /\ watching => phase # "hashed"

Queued(f) == \E k \in DOMAIN events : events[k] = f

HashesFollow ==
  watching => \A f \in DOMAIN hashes \ missed : hashes[f] = disk[f] \/ Queued(f)

(* The file is being read again, or its reload failed.                     *)
Busy(f) ==
  \/ Kind(f) = "patch" /\ phase = "patching"
  \/ Kind(f) = "asset" /\ phase = "copying"
  \/ Kind(f) = "script" /\ (failing \/ phase \in {"unloading", "reading", "evaluating", "evaluated"})
  \/ Kind(f) = "other"

InForceHashed ==
  watching /\ phase # "ended" =>
    \A f \in (DOMAIN hashes \cap DOMAIN inForce) \ missed :
      \/ Busy(f) \/ inForce[f] = hashes[f]
      \/ f \in AssetFile /\ hashes[f] = Missing

ChangesCounted ==
  /\ \A f \in File : reloads[f] <= edits[f]
  /\ watching \/ phase = "hashed" =>
       \A f \in File : Kind(f) # "other" /\ Tracked(f) /\ KnownHash(f) # disk[f]
                         => reloads[f] < edits[f]

FilesWatched ==
  /\ phase = "evaluated" => \A f \in DOMAIN inForce : Kind(f) = "script" => f \in job.used
  /\ phase = "hashed" \/ (watching /\ ~failing /\ phase \notin {"evaluated", "ended"}) =>
       \A f \in DOMAIN inForce \ late : Kind(f) = "script" => f \in DOMAIN hashes

-----------------------------------------------------------------------------
(* What a file may hold is something somebody may save in it.              *)
LEMMA ContentsAreContent ==
  /\ Missing \in Content
  /\ \A f \in File : Contents[f] \subseteq Content
  /\ \A c \in Content : c.requires \subseteq Requirable
BY FilesAssumption DEF Content, Missing

(* A script is read from files that are neither assets nor patch.jsonc     *)
(* (collect_used_script_files, Engine.require).                            *)
LEMMA UsedBounded ==
  ASSUME TypeOK, NEW start, NEW text \in Content
  PROVE  /\ UsedFrom(start, text) \subseteq Requirable
         /\ \A f \in File : ContentsNow(text)[f] \in Content
BY DEF TypeOK, ContentsNow, UsedFrom

(* What a load reads is bounded in the same way.                           *)
LEMMA LoadBounded ==
  ASSUME TypeOK, NEW text \in Content
  PROVE  /\ Used(text) \subseteq Requirable
         /\ \A f \in File : ContentsNow(text)[f] \in Content
BY UsedBounded DEF Used

(* What the running script requires late is read as it is saved then, and  *)
(* nothing but scripts and what is in force already is affected.           *)
LEMMA RequireEffect ==
  ASSUME TypeOK, NEW f \in File, Require(f)
  PROVE  \E files \in SUBSET Requirable :
           /\ phase \in {"evaluated", "hashed", "waiting", "unloading"}
           /\ inForce' = [g \in DOMAIN inForce \cup files |->
                            IF g \in files THEN disk[g] ELSE inForce[g]]
           /\ \/ /\ phase = "evaluated" /\ job' = [job EXCEPT !.used = @ \cup files]
                 /\ UNCHANGED <<missed, late>>
              \/ /\ phase # "evaluated" /\ UNCHANGED job
                 /\ missed' = missed \cup {g \in files \cap DOMAIN hashes : hashes[g] # disk[g]}
                 /\ late' = late \cup (files \ DOMAIN hashes)
           /\ UNCHANGED <<disk, events, watching, hashes, phase, saves, edits, reloads, failing>>
<1> DEFINE files == UsedFrom(f, disk[MainFile])
<1>1. disk[MainFile] \in Content
  BY FilesAssumption DEF TypeOK
<1>2. files \in SUBSET Requirable
  BY <1>1, UsedBounded
<1>3. /\ phase \in {"evaluated", "hashed", "waiting", "unloading"}
      /\ inForce' = [g \in DOMAIN inForce \cup files |->
                       IF g \in files THEN disk[g] ELSE inForce[g]]
      /\ IF phase = "evaluated"
         THEN job' = [job EXCEPT !.used = @ \cup files] /\ UNCHANGED <<missed, late>>
         ELSE /\ missed' = missed \cup {g \in files \cap DOMAIN hashes : hashes[g] # disk[g]}
              /\ late' = late \cup (files \ DOMAIN hashes)
              /\ UNCHANGED job
      /\ UNCHANGED <<disk, events, watching, hashes, phase, saves, edits, reloads, failing>>
  BY DEF Require
<1> HIDE DEF files
<1> QED BY <1>2, <1>3

(* Telling of a save appends it to the events.                             *)
LEMMA NotifyType ==
  ASSUME TypeOK, NEW f \in File, NEW n \in {1, 2}, Notify(f, n)
  PROVE  /\ events' \in Seq(File)
         /\ watching => \A g \in File : Queued(g) \/ g = f => Queued(g)'
<1>1. [k \in 1 .. n |-> f] \in Seq(File) /\ Len([k \in 1 .. n |-> f]) = n
  OBVIOUS
<1>2. events \in Seq(File) /\ watching \in BOOLEAN
  BY DEF TypeOK
<1>3. events' \in Seq(File)
  BY <1>1, <1>2 DEF Notify
<1>4. ASSUME watching, NEW g \in File, Queued(g) \/ g = f PROVE Queued(g)'
  <2> DEFINE added == [k \in 1 .. n |-> f]
  <2>1. events' = events \o added
    BY <1>4 DEF Notify
  <2>2. CASE Queued(g)
    <3>1. PICK k \in DOMAIN events : events[k] = g
      BY <2>2 DEF Queued
    <3>2. k \in DOMAIN events' /\ events'[k] = g
      BY <1>1, <1>2, <2>1, <3>1
    <3> QED BY <3>2 DEF Queued
  <2>3. CASE g = f
    <3>1. Len(events) + 1 \in DOMAIN events' /\ events'[Len(events) + 1] = f
      BY <1>1, <1>2, <2>1
    <3> QED BY <2>3, <3>1 DEF Queued
  <2> QED BY <1>4, <2>2, <2>3
<1> QED BY <1>3, <1>4

-----------------------------------------------------------------------------
(* Types: nothing is saved, watched or in force at the start but Saved.    *)
LEMMA InitType == Init => TypeOK
<1> SUFFICES ASSUME Init PROVE TypeOK
  OBVIOUS
<1>1. disk \in [File -> Content] /\ saves \in 0 .. MaxSaves
  BY FilesAssumption DEF Init
<1>2. events \in Seq(File) /\ DOMAIN hashes = {} /\ DOMAIN inForce = {}
  BY DEF Init
<1>3. job \in [text : Content, used : SUBSET File]
  BY ContentsAreContent DEF Init, NoJob
<1>4. edits \in [File -> Nat] /\ reloads \in [File -> Nat]
  BY DEF Init
<1> QED BY <1>1, <1>2, <1>3, <1>4 DEF Init, TypeOK

(* Somebody's save keeps the types.                                        *)
LEMMA SaveType ==
  ASSUME TypeOK, NEW f \in File, NEW c \in Content, NEW n \in {1, 2}, Save(f, c, n)
  PROVE  TypeOK'
<1>1. events' \in Seq(File)
  BY NotifyType DEF Save
<1>2. saves' \in 0 .. MaxSaves
  BY FilesAssumption DEF Save, TypeOK
<1>3. edits' \in [File -> Nat]
  BY DEF Save, TypeOK
<1> QED BY <1>1, <1>2, <1>3 DEF Save, TypeOK

(* So does every step of the loader.                                       *)
LEMMA LoaderType ==
  ASSUME TypeOK, Loader
  PROVE  TypeOK'
<1> USE ContentsAreContent
<1>1. CASE ReadFiles
  <2>1. disk[MainFile] \in Content /\ disk[PatchFile] \in Content
    BY FilesAssumption DEF TypeOK
  <2>2. Used(disk[MainFile]) \subseteq File
    BY <2>1, LoadBounded DEF Requirable
  <2>3. DOMAIN inForce' \subseteq File /\ \A f \in DOMAIN inForce' : inForce'[f] \in Content
    BY <1>1, <2>1, FilesAssumption DEF ReadFiles, Put, WithAssets, TypeOK
  <2> QED BY <1>1, <2>1, <2>2, <2>3 DEF ReadFiles, TypeOK
<1>2. CASE StartFails
  BY <1>2 DEF StartFails, TypeOK
<1>3. CASE StartWatching
  BY <1>3 DEF StartWatching, TypeOK
<1>4. CASE \E f \in File : Detect(f)
  <2>1. PICK f \in File : Detect(f)
    BY <1>4
  <2>2. events' \in Seq(File)
    BY <2>1 DEF Detect, TypeOK
  <2>3. DOMAIN hashes' \subseteq File /\ \A g \in DOMAIN hashes' : hashes'[g] \in Content
    BY <2>1 DEF Detect, HashesAfter, Put, TypeOK
  <2>4. phase' \in {"waiting", "patching", "copying", "unloading"}
    BY <2>1 DEF Detect, AfterEvent, Kind
  <2>5. reloads' \in [File -> Nat]
    BY <2>1 DEF Detect, TypeOK
  <2>6. failing' \in BOOLEAN
    BY <2>1, ZenonT(30) DEF Detect, TypeOK
  <2> QED BY <2>1, <2>2, <2>3, <2>4, <2>5, <2>6 DEF Detect, TypeOK
<1>5. CASE ReloadPatches
  BY <1>5, FilesAssumption DEF ReloadPatches, MissedReading, Put, TypeOK
<1>6. CASE ReloadEnds
  BY <1>6 DEF ReloadEnds, TypeOK
<1>7. CASE \E c \in Contents[CacheFile] \cup {disk[CacheFile]} : ReloadAssets(c)
  <2>1. PICK c \in Content : ReloadAssets(c)
    BY <1>7, FilesAssumption DEF TypeOK
  <2>2. disk' \in [File -> Content] /\ events' \in Seq(File)
    BY ZenonT(40), <2>1, FilesAssumption, NotifyType DEF ReloadAssets, TypeOK
  <2>3. DOMAIN inForce' \subseteq File /\ \A f \in DOMAIN inForce' : inForce'[f] \in Content
    BY <2>1, FilesAssumption DEF ReloadAssets, WithAssets, TypeOK
  <2> QED BY <2>1, <2>2, <2>3, FilesAssumption DEF ReloadAssets, MissedReading, TypeOK
<1>8. CASE CallUnload
  BY <1>8 DEF CallUnload, TypeOK
<1>9. CASE ReadScripts
  <2>1. disk[MainFile] \in Content
    BY FilesAssumption DEF TypeOK
  <2>2. Used(disk[MainFile]) \subseteq File
    BY <2>1, LoadBounded DEF Requirable
  <2> QED BY <1>9, <2>1, <2>2 DEF ReadScripts, TypeOK
<1>10. CASE Evaluate
  <2>1. job.text \in Content /\ job.used \subseteq File
    BY DEF TypeOK
  <2>2. Used(job.text) \subseteq File /\ \A f \in File : ContentsNow(job.text)[f] \in Content
    BY <2>1, LoadBounded DEF Requirable
  <2>3. DOMAIN inForce' \subseteq File /\ \A f \in DOMAIN inForce' : inForce'[f] \in Content
    BY <1>10, <2>2 DEF Evaluate, WithScript, TypeOK
  <2>4. job' \in [text : Content, used : SUBSET File]
    <3>1. job' = [job EXCEPT !.used = job.used \cup Used(job.text)]
      BY <1>10 DEF Evaluate
    <3> QED BY <2>2, <3>1 DEF TypeOK
  <2> QED BY <1>10, <2>3, <2>4 DEF Evaluate, TypeOK
<1>11. CASE HashFiles
  BY <1>11, FilesAssumption DEF HashFiles, HashesNow, WatchedFiles, NoJob, TypeOK
<1>12. CASE ReloadFails
  BY <1>12 DEF ReloadFails, NoJob, TypeOK
<1> QED
  BY <1>1, <1>2, <1>3, <1>4, <1>5, <1>6, <1>7, <1>8, <1>9, <1>10, <1>11, <1>12 DEF Loader

(* And a late require.                                                     *)
LEMMA RequireType ==
  ASSUME TypeOK, NEW f \in File, Require(f)
  PROVE  TypeOK'
<1>1. PICK files \in SUBSET File :
        /\ inForce' = [g \in DOMAIN inForce \cup files |->
                         IF g \in files THEN disk[g] ELSE inForce[g]]
        /\ job' = job \/ job' = [job EXCEPT !.used = @ \cup files]
        /\ missed' = missed \/ missed' = missed \cup {g \in files \cap DOMAIN hashes : hashes[g] # disk[g]}
        /\ late' = late \/ late' = late \cup (files \ DOMAIN hashes)
        /\ UNCHANGED <<disk, events, watching, hashes, phase, saves, edits, reloads, failing>>
  BY RequireEffect DEF Requirable
<1>2. DOMAIN inForce' \subseteq File /\ \A g \in DOMAIN inForce' : inForce'[g] \in Content
  BY <1>1 DEF TypeOK
<1>3. job' \in [text : Content, used : SUBSET File]
  BY <1>1 DEF TypeOK
<1>4. missed' \subseteq File /\ late' \subseteq File
  BY <1>1 DEF TypeOK
<1> QED BY <1>1, <1>2, <1>3, <1>4 DEF TypeOK

-----------------------------------------------------------------------------
Inv == TypeOK /\ Phases /\ HashesFollow /\ InForceHashed /\ ChangesCounted /\ FilesWatched

(* A step of the system, or none.                                          *)
LEMMA Steps ==
  ASSUME [Next]_vars
  PROVE  \/ \E f \in File, c \in Content, n \in {1, 2} : Save(f, c, n)
         \/ \E f \in File : Require(f)
         \/ Loader
         \/ UNCHANGED vars
BY ContentsAreContent, FilesAssumption DEF Next

(* The loader starts reading, and hashes before it watches: an event finds *)
(* it in its loop (run_loader).                                            *)
LEMMA PhasesStep ==
  ASSUME TypeOK, Phases, [Next]_vars
  PROVE  Phases'
<1>1. CASE \E f \in File, c \in Content, n \in {1, 2} : Save(f, c, n)
  BY <1>1 DEF Save, Notify, Phases
<1>2. CASE \E f \in File : Detect(f)
  <2>1. PICK f \in File : Detect(f)
    BY <1>2
  <2>2. phase' \in {"waiting", "patching", "copying", "unloading"} /\ watching' = watching
    BY <2>1 DEF Detect, AfterEvent, Kind
  <2>3. watching
    BY <2>1 DEF Detect, Phases
  <2> QED BY <2>2, <2>3 DEF Phases
<1>3. CASE \E c \in Contents[CacheFile] \cup {disk[CacheFile]} : ReloadAssets(c)
  BY <1>3 DEF ReloadAssets, Phases
<1>4. CASE UNCHANGED vars
  BY <1>4 DEF vars, Phases
<1>5. CASE \/ ReadFiles \/ StartFails \/ StartWatching \/ ReloadPatches \/ ReloadEnds
           \/ CallUnload \/ ReadScripts \/ Evaluate \/ HashFiles \/ ReloadFails
  BY <1>5 DEF ReadFiles, StartFails, StartWatching, ReloadPatches, ReloadEnds, CallUnload,
              ReadScripts, Evaluate, HashFiles, ReloadFails, Phases
<1>6. CASE \E f \in File : Require(f)
  BY <1>6 DEF Require, Phases
<1> QED
  BY <1>1, <1>2, <1>3, <1>4, <1>5, <1>6, Steps DEF Loader

(* A hash that is no longer the file's has an event on its way: only a     *)
(* save changes a file, and it is told after the change                    *)
(* (detect_changed_mod hashes the file when it takes the event).           *)
LEMMA HashesFollowStep ==
  ASSUME TypeOK, HashesFollow, [Next]_vars
  PROVE  HashesFollow'
<1>1. ASSUME NEW f \in File, NEW c \in Content, NEW n \in {1, 2}, Save(f, c, n)
      PROVE  HashesFollow'
  <2>1. watching => \A g \in File : Queued(g) \/ g = f => Queued(g)'
    BY <1>1, NotifyType DEF Save
  <2>2. \A g \in File \ {f} : disk'[g] = disk[g]
    BY <1>1 DEF Save, TypeOK
  <2> QED BY <1>1, <2>1, <2>2 DEF Save, HashesFollow, TypeOK
<1>2. ASSUME NEW f \in File, Detect(f) PROVE HashesFollow'
  <2> SUFFICES ASSUME watching, NEW g \in DOMAIN hashes' \ missed
               PROVE  hashes'[g] = disk[g] \/ Queued(g)'
    BY <1>2 DEF Detect, HashesFollow
  <2>1. CASE g = f
    BY <1>2, <2>1 DEF Detect, HashesAfter, Put, Tracked
  <2>2. CASE g # f
    <3>1. g \in DOMAIN hashes /\ hashes'[g] = hashes[g]
      BY <1>2, <2>2 DEF Detect, HashesAfter, Put
    <3>2. ASSUME Queued(g) PROVE Queued(g)'
      <4>1. PICK k \in DOMAIN events : events[k] = g
        BY <3>2 DEF Queued
      <4>2. k # 1 /\ k \in 1 .. Len(events)
        BY <1>2, <2>2, <4>1 DEF Detect, TypeOK
      <4>3. k - 1 \in DOMAIN events' /\ events'[k - 1] = g
        BY <1>2, <4>1, <4>2 DEF Detect, TypeOK
      <4> QED BY <4>3 DEF Queued
    <3> QED BY <3>1, <3>2 DEF HashesFollow
  <2> QED BY <2>1, <2>2
<1>3. ASSUME NEW c \in Content, ReloadAssets(c) PROVE HashesFollow'
  <2> SUFFICES ASSUME watching, NEW g \in DOMAIN hashes \ missed'
               PROVE  hashes[g] = disk'[g] \/ Queued(g)'
    BY <1>3 DEF ReloadAssets, HashesFollow
  <2>1. hashes[g] = disk[g] \/ Queued(g)
    BY <1>3 DEF ReloadAssets, MissedReading, KnownHash, HashesFollow
  <2>2. CASE UNCHANGED <<disk, events>>
    BY <2>1, <2>2 DEF Queued
  <2>3. CASE disk' = [disk EXCEPT ![CacheFile] = c] /\ Notify(CacheFile, 1)
    <3>1. \A h \in File : Queued(h) \/ h = CacheFile => Queued(h)'
      BY <2>3, NotifyType, FilesAssumption
    <3>2. g \in File
      BY DEF TypeOK
    <3>3. g # CacheFile => disk'[g] = disk[g]
      BY <2>3, <3>2 DEF TypeOK
    <3> QED BY <2>1, <3>1, <3>2, <3>3
  <2> QED BY <1>3, <2>2, <2>3 DEF ReloadAssets
<1>4. CASE StartWatching
  BY <1>4 DEF StartWatching, HashesFollow, TypeOK
<1>5. CASE HashFiles
  BY <1>5 DEF HashFiles, HashesNow, HashesFollow
<1>6. CASE ReloadPatches
  BY <1>6 DEF ReloadPatches, MissedReading, KnownHash, HashesFollow, Queued
<1>7. CASE \/ ReadFiles \/ StartFails \/ ReloadEnds \/ CallUnload \/ ReadScripts
           \/ Evaluate \/ ReloadFails
  BY <1>7 DEF ReadFiles, StartFails, ReloadEnds, CallUnload, ReadScripts, Evaluate,
              ReloadFails, HashesFollow, Queued
<1>8. CASE UNCHANGED vars
  BY <1>8 DEF vars, HashesFollow, Queued
<1>9. disk[CacheFile] \in Content /\ Contents[CacheFile] \subseteq Content
  BY FilesAssumption, ContentsAreContent DEF TypeOK
<1>10. CASE \E f \in File : Require(f)
  <2>1. missed \subseteq missed' /\ UNCHANGED <<watching, hashes, disk, events>>
    BY <1>10, RequireEffect
  <2> QED BY <2>1 DEF HashesFollow, Queued
<1> QED
  BY <1>1, <1>2, <1>3, <1>4, <1>5, <1>6, <1>7, <1>8, <1>9, <1>10, Steps DEF Loader

(* The kinds of files tell the sets apart (classify_hot_reload_path).      *)
LEMMA Kinds ==
  ASSUME NEW f \in File
  PROVE  /\ Kind(f) \in {"patch", "asset", "script", "other"}
         /\ Kind(f) = "patch" <=> f = PatchFile
         /\ Kind(f) = "asset" <=> f \in AssetFile
         /\ Kind(f) = "script" <=> f \in ScriptFile
BY FilesAssumption DEF Kind

(* What is in force was read as it is hashed, but for what is being read   *)
(* again: every reload reads all files of the kind that changed, and those *)
(* it read after they were hashed differently are set apart.               *)
LEMMA InForceHashedStep ==
  ASSUME TypeOK, Phases, InForceHashed, [Next]_vars
  PROVE  InForceHashed'
<1>1. ASSUME NEW f \in File, NEW c \in Content, NEW n \in {1, 2}, Save(f, c, n)
      PROVE  InForceHashed'
  BY <1>1 DEF Save, InForceHashed, Busy
<1>2. ASSUME NEW f \in File, Detect(f) PROVE InForceHashed'
  <2> SUFFICES ASSUME watching, NEW g \in (DOMAIN hashes' \cap DOMAIN inForce) \ missed
               PROVE  Busy(g)' \/ inForce[g] = hashes'[g] \/ (g \in AssetFile /\ hashes'[g] = Missing)
    BY <1>2 DEF Detect, InForceHashed
  <2>1. g \in File
    BY DEF TypeOK
  <2>2. CASE g = f /\ Changed(f)
    <3>1. \/ Kind(f) = "patch" /\ phase' = "patching"
          \/ Kind(f) = "asset" /\ phase' = "copying"
          \/ Kind(f) = "script" /\ (failing' \/ phase' = "unloading")
          \/ Kind(f) = "other"
      BY <1>2, <2>2, Kinds DEF Detect, AfterEvent
    <3> QED BY <2>2, <3>1 DEF Busy
  <2>3. CASE g = f /\ ~Changed(f)
    <3>1. hashes'[f] = KnownHash(f) /\ (f \in DOMAIN hashes \/ (f \in AssetFile /\ KnownHash(f) = Missing))
      BY <1>2, <2>3 DEF Detect, HashesAfter, Put, Changed, Tracked, KnownHash
    <3>2. phase = "waiting"
      BY <1>2 DEF Detect
    <3>3. Busy(f) => Busy(f)'
      BY <1>2, <3>2 DEF Detect, Busy
    <3> QED BY <2>3, <3>1, <3>2, <3>3 DEF KnownHash, InForceHashed
  <2>4. CASE g # f
    <3>1. g \in DOMAIN hashes /\ hashes'[g] = hashes[g]
      BY <1>2, <2>4 DEF Detect, HashesAfter, Put
    <3>2. phase = "waiting"
      BY <1>2 DEF Detect
    <3>3. Busy(g) => Busy(g)'
      BY <1>2, <3>2 DEF Detect, Busy
    <3> QED BY <3>1, <3>2, <3>3 DEF InForceHashed
  <2> QED BY <2>2, <2>3, <2>4
<1>3. ASSUME NEW c \in Content, ReloadAssets(c) PROVE InForceHashed'
  <2> SUFFICES ASSUME watching, NEW g \in (DOMAIN hashes \cap DOMAIN inForce') \ missed'
               PROVE  Busy(g)' \/ inForce'[g] = hashes[g] \/ (g \in AssetFile /\ hashes[g] = Missing)
    BY <1>3 DEF ReloadAssets, InForceHashed
  <2>1. g \in File
    BY DEF TypeOK
  <2>2. CASE g \in AssetFile
    BY <1>3, <2>2 DEF ReloadAssets, WithAssets, MissedReading, KnownHash
  <2>3. CASE g \notin AssetFile
    <3>1. g \in DOMAIN inForce /\ inForce'[g] = inForce[g] /\ g \notin missed
      BY <1>3, <2>3 DEF ReloadAssets, WithAssets, MissedReading
    <3>2. Kind(g) # "asset"
      BY <2>1, <2>3, Kinds
    <3>3. Busy(g) => Busy(g)'
      BY <1>3, <3>2 DEF ReloadAssets, Busy
    <3> QED BY <1>3, <3>1, <3>3 DEF ReloadAssets, InForceHashed
  <2> QED BY <2>2, <2>3
<1>4. CASE ReloadPatches
  <2> SUFFICES ASSUME watching, NEW g \in (DOMAIN hashes \cap DOMAIN inForce') \ missed'
               PROVE  Busy(g)' \/ inForce'[g] = hashes[g] \/ (g \in AssetFile /\ hashes[g] = Missing)
    BY <1>4 DEF ReloadPatches, InForceHashed
  <2>1. g \in File
    BY DEF TypeOK
  <2>2. CASE g = PatchFile
    BY <1>4, <2>2 DEF ReloadPatches, Put, MissedReading, KnownHash
  <2>3. CASE g # PatchFile
    <3>1. g \in DOMAIN inForce /\ inForce'[g] = inForce[g] /\ g \notin missed
      BY <1>4, <2>3 DEF ReloadPatches, Put, MissedReading
    <3>2. Kind(g) # "patch"
      BY <2>1, <2>3, Kinds
    <3>3. Busy(g) => Busy(g)'
      BY <1>4, <3>2 DEF ReloadPatches, Busy
    <3> QED BY <1>4, <3>1, <3>3 DEF ReloadPatches, InForceHashed
  <2> QED BY <2>2, <2>3
<1>5. CASE StartWatching
  BY <1>5 DEF StartWatching, Stale, InForceHashed, TypeOK
<1>6. CASE HashFiles
  BY <1>6 DEF HashFiles, HashesNow, Stale, InForceHashed, TypeOK
<1>7. CASE Evaluate
  <2> SUFFICES ASSUME watching, NEW g \in (DOMAIN hashes \cap DOMAIN inForce') \ missed
               PROVE  Busy(g)' \/ inForce'[g] = hashes[g] \/ (g \in AssetFile /\ hashes[g] = Missing)
    BY <1>7 DEF Evaluate, InForceHashed
  <2>1. g \in File /\ job.text \in Content
    BY DEF TypeOK
  <2>2. CASE Kind(g) \in {"script", "other"}
    BY <1>7, <2>2 DEF Evaluate, Busy
  <2>3. CASE Kind(g) \in {"patch", "asset"}
    <3>1. g \notin Used(job.text)
      BY <2>1, <2>3, Kinds, LoadBounded DEF Requirable
    <3>2. g \in DOMAIN inForce /\ inForce'[g] = inForce[g]
      BY <1>7, <3>1 DEF Evaluate, WithScript
    <3>3. ~Busy(g)
      BY <1>7, <2>3 DEF Evaluate, Busy
    <3> QED BY <1>7, <3>2, <3>3 DEF Evaluate, InForceHashed
  <2> QED BY <2>1, <2>2, <2>3, Kinds
<1>8. CASE ReadFiles \/ StartFails \/ ReloadEnds
  BY <1>8 DEF ReadFiles, StartFails, ReloadEnds, InForceHashed
<1>9. CASE CallUnload \/ ReadScripts \/ ReloadFails
  BY <1>9 DEF CallUnload, ReadScripts, ReloadFails, InForceHashed, Busy
<1>10. CASE UNCHANGED vars
  BY <1>10 DEF vars, InForceHashed, Busy
<1>11. disk[CacheFile] \in Content /\ Contents[CacheFile] \subseteq Content
  BY FilesAssumption, ContentsAreContent DEF TypeOK
<1>12. ASSUME NEW f \in File, Require(f) PROVE InForceHashed'
  <2> SUFFICES ASSUME watching, NEW g \in (DOMAIN hashes \cap DOMAIN inForce') \ missed'
               PROVE  Busy(g)' \/ inForce'[g] = hashes[g] \/ (g \in AssetFile /\ hashes[g] = Missing)
    BY <1>12 DEF Require, InForceHashed
  <2>1. PICK files \in SUBSET Requirable :
          /\ phase \in {"evaluated", "hashed", "waiting", "unloading"}
          /\ inForce' = [h \in DOMAIN inForce \cup files |->
                           IF h \in files THEN disk[h] ELSE inForce[h]]
          /\ phase # "evaluated" =>
               missed' = missed \cup {h \in files \cap DOMAIN hashes : hashes[h] # disk[h]}
          /\ phase = "evaluated" => missed' = missed
          /\ UNCHANGED <<phase, failing>>
    BY <1>12, RequireEffect
  <2>2. Busy(g)' <=> Busy(g)
    BY <2>1 DEF Busy
  <2>3. CASE g \notin files
    BY <2>1, <2>2, <2>3 DEF InForceHashed
  <2>4. CASE g \in files /\ phase # "evaluated"
    BY <2>1, <2>4
  <2>5. CASE g \in files /\ phase = "evaluated"
    <3>1. g \in File /\ Kind(g) \in {"script", "other"}
      BY <2>5, Kinds DEF Requirable
    <3> QED BY <2>2, <2>5, <3>1 DEF Busy
  <2> QED BY <2>3, <2>4, <2>5
<1> QED
  BY <1>1, <1>2, <1>3, <1>4, <1>5, <1>6, <1>7, <1>8, <1>9, <1>10, <1>11, <1>12, Steps DEF Loader

(* Every reload is paid for by a change: the change is counted when it is  *)
(* saved, and its hash is kept before the reload starts.                   *)
LEMMA ChangesCountedStep ==
  ASSUME TypeOK, Phases, ChangesCounted, [Next]_vars
  PROVE  ChangesCounted'
<1>0. \A f \in File : edits[f] \in Nat /\ reloads[f] \in Nat
  BY DEF TypeOK
<1>1. ASSUME NEW f \in File, NEW c \in Content, NEW n \in {1, 2}, Save(f, c, n)
      PROVE  ChangesCounted'
  <2>1. \A g \in File : IF g = f /\ c # disk[f] THEN edits'[g] = edits[g] + 1 ELSE edits'[g] = edits[g]
    BY <1>1 DEF Save, TypeOK
  <2>2. \A g \in File : disk'[g] = IF g = f THEN c ELSE disk[g]
    BY <1>1 DEF Save, TypeOK
  <2>3. ASSUME NEW g \in File PROVE reloads'[g] <= edits'[g]
    BY <1>0, <1>1, <2>1 DEF Save, ChangesCounted
  <2>4. ASSUME watching \/ phase = "hashed", NEW g \in File, Kind(g) # "other", Tracked(g), KnownHash(g) # disk'[g]
        PROVE  reloads[g] < edits'[g]
    BY <1>0, <2>1, <2>2, <2>4 DEF ChangesCounted
  <2> QED BY <1>1, <2>3, <2>4 DEF Save, ChangesCounted, Tracked, KnownHash
<1>2. ASSUME NEW f \in File, Detect(f) PROVE ChangesCounted'
  <2>1. phase' # "waiting" => Changed(f) /\ Kind(f) # "other"
    BY <1>2 DEF Detect, AfterEvent
  <2>2. watching /\ watching' = watching
    BY <1>2 DEF Detect, Phases
  <2>3. \A g \in File : reloads'[g] = IF g = f /\ phase' # "waiting" THEN reloads[g] + 1 ELSE reloads[g]
    BY <1>2 DEF Detect, TypeOK
  <2>4. ASSUME NEW g \in File PROVE reloads'[g] <= edits'[g]
    BY <1>0, <1>2, <2>1, <2>2, <2>3 DEF Detect, Changed, ChangesCounted
  <2>5. Tracked(f)' => KnownHash(f)' = disk[f]
    BY <1>2 DEF Detect, HashesAfter, Put, Tracked, KnownHash
  <2>6. \A g \in File \ {f} : (Tracked(g)' <=> Tracked(g)) /\ KnownHash(g)' = KnownHash(g)
    BY <1>2 DEF Detect, HashesAfter, Put, Tracked, KnownHash
  <2>7. ASSUME NEW g \in File, Kind(g) # "other", Tracked(g)', KnownHash(g)' # disk[g]
        PROVE  reloads'[g] < edits[g]
    BY <2>2, <2>3, <2>5, <2>6, <2>7 DEF ChangesCounted
  <2> QED BY <1>2, <2>4, <2>7 DEF Detect, ChangesCounted
<1>3. ASSUME NEW c \in Content, ReloadAssets(c) PROVE ChangesCounted'
  <2>1. \A g \in File : Kind(g) # "other" => disk'[g] = disk[g]
    BY <1>3, FilesAssumption, Kinds DEF ReloadAssets, TypeOK
  <2>2. watching
    BY <1>3 DEF ReloadAssets, Phases
  <2>3. ASSUME NEW g \in File, Kind(g) # "other", Tracked(g), KnownHash(g) # disk'[g]
        PROVE  reloads[g] < edits[g]
    BY <2>1, <2>2, <2>3 DEF ChangesCounted
  <2> QED BY <1>3, <2>3 DEF ReloadAssets, ChangesCounted, Tracked, KnownHash
<1>4. CASE StartWatching
  BY <1>4 DEF StartWatching, ChangesCounted, Tracked, KnownHash
<1>5. CASE HashFiles
  <2>1. \A g \in File : Tracked(g)' => KnownHash(g)' = disk[g]
    BY <1>5 DEF HashFiles, HashesNow, WatchedFiles, Tracked, KnownHash
  <2> QED BY <1>5, <2>1 DEF HashFiles, ChangesCounted
<1>6. CASE ReadFiles \/ StartFails \/ (Evaluate /\ ~watching)
  BY <1>6 DEF ReadFiles, StartFails, Evaluate, ChangesCounted
<1>7. CASE ReloadPatches \/ ReloadEnds \/ CallUnload \/ ReadScripts \/ (Evaluate /\ watching) \/ ReloadFails
  <2>1. watching
    BY <1>7 DEF ReloadPatches, ReloadEnds, CallUnload, ReadScripts, Evaluate, ReloadFails, Phases
  <2> QED
    BY <1>7, <2>1 DEF ReloadPatches, ReloadEnds, CallUnload, ReadScripts, Evaluate, ReloadFails,
                      ChangesCounted, Tracked, KnownHash
<1>8. CASE UNCHANGED vars
  BY <1>8 DEF vars, ChangesCounted, Tracked, KnownHash
<1>9. disk[CacheFile] \in Content /\ Contents[CacheFile] \subseteq Content
  BY FilesAssumption, ContentsAreContent DEF TypeOK
<1>10. CASE \E f \in File : Require(f)
  BY <1>10, RequireEffect DEF ChangesCounted, Tracked, KnownHash
<1> QED
  BY <1>1, <1>2, <1>3, <1>4, <1>5, <1>6, <1>7, <1>8, <1>9, <1>10, Steps DEF Loader

(* What a script was read from is collected, and then hashed               *)
(* (required_files, build_watched_files); the hashes of a file are never   *)
(* dropped but by the next load.                                           *)
LEMMA FilesWatchedStep ==
  ASSUME TypeOK, Phases, FilesWatched, [Next]_vars
  PROVE  FilesWatched'
<1>1. ASSUME NEW f \in File, NEW c \in Content, NEW n \in {1, 2}, Save(f, c, n)
      PROVE  FilesWatched'
  BY <1>1 DEF Save, FilesWatched
<1>2. ASSUME NEW f \in File, Detect(f) PROVE FilesWatched'
  <2>1. phase' \in {"waiting", "patching", "copying", "unloading"}
    BY <1>2 DEF Detect, AfterEvent, Kind
  <2>2. DOMAIN hashes \subseteq DOMAIN hashes'
    BY <1>2 DEF Detect, HashesAfter, Put
  <2>3. phase = "waiting" /\ watching /\ watching' = watching /\ inForce' = inForce
        /\ late' = late
    BY <1>2 DEF Detect, Phases
  <2>4. ~failing' => ~failing
    BY <1>2, Zenon DEF Detect
  <2> QED BY <2>1, <2>2, <2>3, <2>4 DEF FilesWatched
<1>3. ASSUME NEW c \in Content, ReloadAssets(c) PROVE FilesWatched'
  <2>1. \A g \in DOMAIN inForce' : Kind(g) = "script" => g \in DOMAIN inForce
    BY <1>3, FilesAssumption, Kinds DEF ReloadAssets, WithAssets, TypeOK
  <2> QED BY <1>3, <2>1 DEF ReloadAssets, Phases, FilesWatched
<1>4. CASE ReloadPatches
  <2>1. \A g \in DOMAIN inForce' : Kind(g) = "script" => g \in DOMAIN inForce
    BY <1>4, FilesAssumption, Kinds DEF ReloadPatches, Put
  <2> QED BY <1>4, <2>1 DEF ReloadPatches, Phases, FilesWatched
<1>5. CASE Evaluate
  <2>1. \A g \in DOMAIN inForce' : Kind(g) = "script" => g \in Used(job.text)
    BY <1>5 DEF Evaluate, WithScript
  <2>2. Used(job.text) \subseteq job'.used
    <3>1. job' = [job EXCEPT !.used = job.used \cup Used(job.text)]
      BY <1>5 DEF Evaluate
    <3> QED BY <3>1 DEF TypeOK
  <2> QED BY <1>5, <2>1, <2>2 DEF Evaluate, FilesWatched
<1>6. CASE HashFiles
  <2>1. job.used \subseteq DOMAIN hashes'
    BY <1>6 DEF HashFiles, HashesNow, WatchedFiles
  <2> QED BY <1>6, <2>1 DEF HashFiles, FilesWatched
<1>7. CASE \/ ReadFiles \/ StartFails \/ StartWatching \/ ReloadEnds \/ CallUnload
           \/ ReadScripts \/ ReloadFails
  BY <1>7 DEF ReadFiles, StartFails, StartWatching, ReloadEnds, CallUnload, ReadScripts,
              ReloadFails, Phases, FilesWatched
<1>8. CASE UNCHANGED vars
  BY <1>8 DEF vars, FilesWatched
<1>9. disk[CacheFile] \in Content /\ Contents[CacheFile] \subseteq Content
  BY FilesAssumption, ContentsAreContent DEF TypeOK
<1>10. ASSUME NEW f \in File, Require(f) PROVE FilesWatched'
  <2>1. PICK files \in SUBSET Requirable :
          /\ inForce' = [g \in DOMAIN inForce \cup files |->
                           IF g \in files THEN disk[g] ELSE inForce[g]]
          /\ \/ /\ phase = "evaluated" /\ job' = [job EXCEPT !.used = @ \cup files]
                /\ UNCHANGED <<missed, late>>
             \/ /\ phase # "evaluated" /\ late' = late \cup (files \ DOMAIN hashes)
          /\ phase \in {"evaluated", "hashed", "waiting", "unloading"}
          /\ UNCHANGED <<watching, hashes, phase, failing>>
    BY <1>10, RequireEffect
  <2>2. CASE phase = "evaluated"
    <3>1. job'.used = job.used \cup files
      BY <2>1, <2>2 DEF TypeOK
    <3> QED BY <2>1, <2>2, <3>1 DEF FilesWatched
  <2>3. CASE phase # "evaluated"
    BY <2>1, <2>3 DEF FilesWatched
  <2> QED BY <2>2, <2>3
<1> QED
  BY <1>1, <1>2, <1>3, <1>4, <1>5, <1>6, <1>7, <1>8, <1>9, <1>10, Steps DEF Loader

-----------------------------------------------------------------------------
(* At the start nothing is hashed, in force or counted, and every step     *)
(* keeps the invariant.                                                    *)
LEMMA Invariant == Spec => []Inv
<1>1. Init => Inv
  <2> SUFFICES ASSUME Init PROVE Inv
    OBVIOUS
  <2>1. TypeOK
    BY InitType
  <2>2. ~watching /\ phase = "reading" /\ events = << >> /\ inForce = << >>
    BY DEF Init
  <2>3. ASSUME NEW f \in File PROVE reloads[f] <= edits[f]
    <3>1. reloads[f] = 0 /\ edits[f] = 0
      BY DEF Init
    <3> QED BY <3>1
  <2> QED
    BY <2>1, <2>2, <2>3 DEF Inv, Phases, HashesFollow, InForceHashed, ChangesCounted, FilesWatched
<1>2. Inv /\ [Next]_vars => Inv'
  <2> SUFFICES ASSUME Inv, [Next]_vars PROVE Inv'
    OBVIOUS
  <2>1. TypeOK'
    <3>1. CASE \E f \in File, c \in Content, n \in {1, 2} : Save(f, c, n)
      BY <3>1, SaveType DEF Inv
    <3>2. CASE Loader
      BY <3>2, LoaderType DEF Inv
    <3>3. CASE UNCHANGED vars
      BY <3>3 DEF vars, TypeOK, Inv
    <3>4. CASE \E f \in File : Require(f)
      BY <3>4, RequireType DEF Inv
    <3> QED BY <3>1, <3>2, <3>3, <3>4, Steps
  <2> QED
    BY <2>1, PhasesStep, HashesFollowStep, InForceHashedStep, ChangesCountedStep,
       FilesWatchedStep DEF Inv
<1> QED BY <1>1, <1>2, PTL DEF Spec

(* The state keeps its types, whatever is saved and however loads fail.    *)
THEOREM TypeCorrect == Spec => []TypeOK
<1>1. Inv => TypeOK
  BY DEF Inv
<1> QED BY <1>1, Invariant, PTL

(* Once every event is handled, what runs is what is saved, for every      *)
(* order of saves, events and reloads (detect_changed_mod, run_loader).    *)
THEOREM CurrentWhenSettled == Spec => []SettledIsCurrent
<1>1. Inv => SettledIsCurrent
  <2> SUFFICES ASSUME Inv, Settled, NEW f \in DOMAIN hashes \ missed, Reloadable(f), Stale(f)
               PROVE  FALSE
    BY DEF SettledIsCurrent
  <2>1. watching
    BY DEF Inv, Phases, Settled
  <2>2. hashes[f] = disk[f]
    BY <2>1 DEF Inv, HashesFollow, Settled, Queued
  <2>3. ~Busy(f)
    BY DEF Busy, Reloadable, Settled
  <2>4. inForce[f] = disk[f] \/ (f \in AssetFile /\ disk[f] = Missing)
    BY <2>1, <2>2, <2>3 DEF Inv, InForceHashed, Settled, Stale
  <2> QED BY <2>4 DEF Stale
<1> QED BY <1>1, Invariant, PTL

(* No reload without a change: duplicate events and saves that leave a     *)
(* file as it was take nothing down (the hashes in detect_changed_mod).    *)
THEOREM ReloadsAreJustified == Spec => []ReloadsJustified
<1>1. Inv => ReloadsJustified
  BY DEF Inv, ChangesCounted, ReloadsJustified
<1> QED BY <1>1, Invariant, PTL

(* Between reloads every file the running script was read from is watched, *)
(* but for those it required when its load was over (required_files,       *)
(* build_watched_files).                                                   *)
THEOREM RunningIsWatched == Spec => []RunningFilesWatched
<1>1. Inv => RunningFilesWatched
  BY DEF Inv, FilesWatched, RunningFilesWatched
<1> QED BY <1>1, Invariant, PTL
=============================================================================
