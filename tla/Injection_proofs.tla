-------------------------- MODULE Injection_proofs --------------------------
(***************************************************************************)
(* What Injection promises, for every set of launchers and every choice of *)
(* command lines: what a launcher reports is what became of its game, the  *)
(* path outlives the thread that reads it, and a game is configured as its *)
(* own launcher was told.                                                  *)
(***************************************************************************)
EXTENDS Injection, TLAPS

(***************************************************************************)
(* The strengthening.  Stages orders the three processes of a launch: the  *)
(* game is there before its thread, the thread before it is waited for.    *)
(* Finished says what the exit code of the thread stands for.  Mine says   *)
(* that what a launch has written is still there, or gone altogether, for  *)
(* as long as its game may read it and no other launch has written.        *)
(***************************************************************************)

StagesOf(i) ==
    /\ launcher[i] \notin {"spawn", "failed"} => main[i] # "none"
    /\ thread[i].at # "none" => /\ launcher[i] \in {"wait", "resume", "ok", "failed"}
                               /\ main[i] # "none"
    /\ main[i] = "running" => At(i, "ok")
    /\ At(i, "spawn") => main[i] = "none"
    /\ launcher[i] \in {"path", "start"} => buffer[i] = "allocated"
    /\ At(i, "wait") => options[i].wait

Stages == \A i \in Launchers : StagesOf(i)

FinishedOf(i) ==
    /\ options[i].wait /\ launcher[i] \in {"resume", "ok"} =>
           thread[i].at = "ended" /\ thread[i].code = "other"
    /\ thread[i].at = "ended" /\ thread[i].code = "other" =>
           i \in attached \/ main[i] = "dead"
    /\ i \in attached => thread[i].at = "ended"

Finished == \A i \in Launchers : FinishedOf(i)

MineOf(i) ==
    /\ At(i, "value") => mapping.size = i /\ i \in mapping.writers
    /\ ~At(i, "value") => \/ mapping.size = i /\ mapping.value = i
                          \/ mapping.size = 0 /\ mapping.value = 0
    /\ thread[i].at = "init" => config[i].wrapper = i

Mine == \A i \in Underway \ lapped : MineOf(i)

InjectionInv ==
    /\ TypeOK
    /\ Stages
    /\ Finished
    /\ Mine
    /\ OutcomeAsReported
    /\ BufferOutlivesReader
    /\ OwnConfiguration

-----------------------------------------------------------------------------
(* What the assignments of a step do to the variables they touch.          *)

LauncherIs(i, step) ==
    /\ launcher' \in [Launchers -> LauncherSteps]
    /\ launcher'[i] = step
    /\ \A j \in Launchers \ {i} : launcher'[j] = launcher[j]

ThreadIs(i, at, code) ==
    /\ thread' \in [Launchers -> [at : ThreadSteps, code : {"zero", "other"}]]
    /\ thread'[i].at = at /\ thread'[i].code = code
    /\ \A j \in Launchers \ {i} : thread'[j] = thread[j]

ConfigIs(i, wrapper, loader) ==
    /\ config' \in [Launchers -> [wrapper : Somebody, loader : Somebody]]
    /\ config'[i].wrapper = wrapper /\ config'[i].loader = loader
    /\ \A j \in Launchers \ {i} : config'[j] = config[j]

\* What is in the mapping stays, or goes when nobody writes.
MappingLeft(writers) ==
    /\ mapping' \in [writers : SUBSET Launchers, readers : SUBSET Launchers,
                     size : Somebody, value : Somebody]
    /\ mapping'.writers = writers
    /\ \/ mapping'.size = mapping.size /\ mapping'.value = mapping.value
       \/ mapping'.size = 0 /\ mapping'.value = 0 /\ writers = {}

MappingIs(writers, readers, size, value) ==
    /\ mapping' \in [writers : SUBSET Launchers, readers : SUBSET Launchers,
                     size : Somebody, value : Somebody]
    /\ mapping'.writers = writers /\ mapping'.readers = readers
    /\ mapping'.size = size /\ mapping'.value = value

LEMMA GoesTo ==
  ASSUME TypeOK, NEW i \in Launchers, NEW step \in LauncherSteps, Goes(i, step)
  PROVE  LauncherIs(i, step)
  BY DEF TypeOK, Goes, LauncherIs

LEMMA MovesTo ==
  ASSUME TypeOK, NEW i \in Launchers, NEW step \in ThreadSteps, Moves(i, step)
  PROVE  ThreadIs(i, step, thread[i].code)
<1>1. thread[i] \in [at : ThreadSteps, code : {"zero", "other"}]
  BY DEF TypeOK
<1>2. thread' = [thread EXCEPT ![i] = [thread[i] EXCEPT !.at = step]]
  BY DEF TypeOK, Moves
<1>3. [thread[i] EXCEPT !.at = step] \in [at : ThreadSteps, code : {"zero", "other"}]
  BY <1>1
<1> QED
  BY <1>1, <1>2, <1>3 DEF TypeOK, ThreadIs

LEMMA EndsAs ==
  ASSUME TypeOK, NEW i \in Launchers, NEW code \in {"zero", "other"}, Ends(i, code)
  PROVE  ThreadIs(i, "ended", code)
<1>1. [at |-> "ended", code |-> code] \in [at : ThreadSteps, code : {"zero", "other"}]
  BY DEF ThreadSteps
<1> QED
  BY <1>1 DEF TypeOK, Ends, ThreadIs

LEMMA ConfigWritten ==
  ASSUME TypeOK, NEW i \in Launchers, NEW v \in Somebody
  PROVE  /\ config' = [config EXCEPT ![i].wrapper = v] => ConfigIs(i, v, config[i].loader)
         /\ config' = [config EXCEPT ![i].loader = v] => ConfigIs(i, config[i].wrapper, v)
<1>1. config[i] \in [wrapper : Somebody, loader : Somebody]
  BY DEF TypeOK
<1>2. /\ [config[i] EXCEPT !.wrapper = v] \in [wrapper : Somebody, loader : Somebody]
      /\ [config[i] EXCEPT !.loader = v] \in [wrapper : Somebody, loader : Somebody]
  BY <1>1
<1>3. ASSUME config' = [config EXCEPT ![i] = [config[i] EXCEPT !.wrapper = v]]
      PROVE  ConfigIs(i, v, config[i].loader)
  BY <1>1, <1>2, <1>3 DEF TypeOK, ConfigIs
<1>4. ASSUME config' = [config EXCEPT ![i] = [config[i] EXCEPT !.loader = v]]
      PROVE  ConfigIs(i, config[i].wrapper, v)
  BY <1>1, <1>2, <1>4 DEF TypeOK, ConfigIs
<1> QED
  BY <1>3, <1>4 DEF TypeOK

LEMMA MappingWritten ==
  ASSUME TypeOK, NEW i \in Launchers
  PROVE  /\ mapping' = [mapping EXCEPT !.writers = @ \cup {i}, !.size = i] =>
                MappingIs(mapping.writers \cup {i}, mapping.readers, i, mapping.value)
         /\ mapping' = [mapping EXCEPT !.value = i] =>
                MappingIs(mapping.writers, mapping.readers, mapping.size, i)
         /\ mapping' = [mapping EXCEPT !.readers = @ \cup {i}] =>
                MappingIs(mapping.writers, mapping.readers \cup {i}, mapping.size, mapping.value)
<1>1. /\ mapping \in [writers : SUBSET Launchers, readers : SUBSET Launchers,
                       size : Somebody, value : Somebody]
      /\ i \in Somebody
      /\ mapping.writers \cup {i} \in SUBSET Launchers
      /\ mapping.readers \cup {i} \in SUBSET Launchers
  BY DEF TypeOK, Somebody
<1> QED
  BY <1>1 DEF MappingIs

LEMMA MappingClosed ==
  ASSUME TypeOK, NEW i \in Launchers
  PROVE  /\ mapping' = Closed(i) => MappingLeft(mapping.writers)
         /\ mapping' = Held([mapping EXCEPT !.writers = @ \ {i}]) =>
                MappingLeft(mapping.writers \ {i})
<1>1. NoMapping.writers = {} /\ NoMapping.size = 0 /\ NoMapping.value = 0
  BY DEF NoMapping
<1>2. NoMapping \in [writers : SUBSET Launchers, readers : SUBSET Launchers,
                     size : Somebody, value : Somebody]
  BY DEF NoMapping, Somebody
<1>3. /\ mapping \in [writers : SUBSET Launchers, readers : SUBSET Launchers,
                       size : Somebody, value : Somebody]
      /\ mapping.writers \ {i} \in SUBSET Launchers
      /\ mapping.readers \ {i} \in SUBSET Launchers
      /\ mapping.readers \in SUBSET Launchers
      /\ mapping.size \in Somebody /\ mapping.value \in Somebody
  BY DEF TypeOK
<1>4. ASSUME mapping' = Closed(i)
      PROVE  MappingLeft(mapping.writers)
  BY <1>1, <1>2, <1>3, <1>4 DEF Closed, Held, MappingLeft
<1>5. ASSUME mapping' = Held([mapping EXCEPT !.writers = @ \ {i}])
      PROVE  MappingLeft(mapping.writers \ {i})
  <2> DEFINE m == [mapping EXCEPT !.writers = @ \ {i}]
  <2>1. m = [writers |-> mapping.writers \ {i}, readers |-> mapping.readers,
             size |-> mapping.size, value |-> mapping.value]
    BY <1>3
  <2> HIDE DEF m
  <2>2. /\ m \in [writers : SUBSET Launchers, readers : SUBSET Launchers,
                   size : Somebody, value : Somebody]
        /\ m.writers = mapping.writers \ {i} /\ m.size = mapping.size
        /\ m.value = mapping.value
    BY <1>3, <2>1
  <2> QED
    BY <1>1, <1>2, <1>5, <2>2 DEF Held, MappingLeft, m
<1> QED
  BY <1>4, <1>5

-----------------------------------------------------------------------------
(* One lemma for each step of a launch: the invariant survives it.         *)

LEMMA SpawnKeeps ==
  ASSUME InjectionInv, NEW i \in Launchers, Spawn(i)
  PROVE  InjectionInv'
<1>1. CASE Goes(i, "size") /\ main' = [main EXCEPT ![i] = "suspended"]
  <2>1. /\ At(i, "spawn")
        /\ LauncherIs(i, "size")
        /\ main' = [main EXCEPT ![i] = "suspended"]
        /\ UNCHANGED <<options, buffer, thread, mapping, config, attached, late, lapped>>
    BY <1>1, GoesTo DEF InjectionInv, Spawn, LauncherSteps, Results
  <2>2. TypeOK'
    BY <2>1, LaunchersAssumption DEF InjectionInv, TypeOK, LauncherSteps,
       ThreadSteps, Results, Somebody, Options, Underway, At, LauncherIs
  <2>3. Stages'
    BY <2>1, LaunchersAssumption DEF InjectionInv, TypeOK, Stages, StagesOf, At,
       Results, LauncherIs
  <2>4. Finished'
    BY <2>1, LaunchersAssumption DEF InjectionInv, TypeOK, Stages, StagesOf,
       Finished, FinishedOf, At, Results, LauncherIs
  <2>5. Mine'
    BY <2>1, LaunchersAssumption DEF InjectionInv, TypeOK, Stages, StagesOf, Mine,
       MineOf, Underway, At, Results, LauncherIs
  <2>6. OutcomeAsReported'
    BY <2>1, LaunchersAssumption DEF InjectionInv, TypeOK, Stages, StagesOf,
       Finished, FinishedOf, OutcomeAsReported, RunsAttached,
       SuspendedAsReported, Results, At, LauncherIs
  <2>7. BufferOutlivesReader'
    BY <2>1, LaunchersAssumption DEF InjectionInv, TypeOK, Stages, StagesOf,
       BufferOutlivesReader, At, Results, LauncherIs
  <2>8. OwnConfiguration'
    BY <2>1, LaunchersAssumption DEF InjectionInv, TypeOK, Stages, StagesOf,
       Finished, FinishedOf, Mine, MineOf, Underway, OwnConfiguration, At,
       Results, LauncherIs
  <2> QED
    BY <2>2, <2>3, <2>4, <2>5, <2>6, <2>7, <2>8 DEF InjectionInv
<1>2. CASE Goes(i, "failed") /\ UNCHANGED main
  <2>1. /\ At(i, "spawn")
        /\ LauncherIs(i, "failed")
        /\ UNCHANGED <<options, main, buffer, thread, mapping, config, attached, late, lapped>>
    BY <1>2, GoesTo DEF InjectionInv, Spawn, LauncherSteps, Results
  <2>2. TypeOK'
    BY <2>1, LaunchersAssumption DEF InjectionInv, TypeOK, LauncherSteps,
       ThreadSteps, Results, Somebody, Options, Underway, At, LauncherIs
  <2>3. Stages'
    BY <2>1, LaunchersAssumption DEF InjectionInv, TypeOK, Stages, StagesOf, At,
       Results, LauncherIs
  <2>4. Finished'
    BY <2>1, LaunchersAssumption DEF InjectionInv, TypeOK, Stages, StagesOf,
       Finished, FinishedOf, At, Results, LauncherIs
  <2>5. Mine'
    <3>1. ASSUME NEW j \in Launchers, j \in Underway', j \notin lapped'
           PROVE  MineOf(j)'
      <4>1. CASE j = i
        BY <2>1, <3>1, <4>1, LaunchersAssumption DEF InjectionInv, Stages, StagesOf,
           Mine, MineOf, Underway, At, Results, LauncherIs
      <4>2. CASE j # i
        BY <2>1, <3>1, <4>2, LaunchersAssumption DEF InjectionInv, Stages, StagesOf,
           Mine, MineOf, Underway, At, Results, LauncherIs
      <4> QED
        BY <4>1, <4>2
    <3> QED
      BY <3>1 DEF Mine, Underway
  <2>6. OutcomeAsReported'
    BY <2>1, LaunchersAssumption DEF InjectionInv, TypeOK, Stages, StagesOf,
       Finished, FinishedOf, OutcomeAsReported, RunsAttached,
       SuspendedAsReported, Results, At, LauncherIs
  <2>7. BufferOutlivesReader'
    BY <2>1, LaunchersAssumption DEF InjectionInv, TypeOK, Stages, StagesOf,
       BufferOutlivesReader, At, Results, LauncherIs
  <2>8. OwnConfiguration'
    BY <2>1, LaunchersAssumption DEF InjectionInv, TypeOK, Stages, StagesOf,
       Finished, FinishedOf, Mine, MineOf, Underway, OwnConfiguration, At,
       Results, LauncherIs
  <2> QED
    BY <2>2, <2>3, <2>4, <2>5, <2>6, <2>7, <2>8 DEF InjectionInv
<1> QED
  BY <1>1, <1>2 DEF Spawn

LEMMA WriteSizeKeeps ==
  ASSUME InjectionInv, NEW i \in Launchers, WriteSize(i)
  PROVE  InjectionInv'
<1>1. /\ At(i, "size")
      /\ MappingIs(mapping.writers \cup {i}, mapping.readers, i, mapping.value)
      /\ lapped' = lapped \cup (Underway \ {i})
      /\ LauncherIs(i, "value")
      /\ UNCHANGED <<options, main, buffer, thread, config, attached, late>>
  BY GoesTo, MappingWritten DEF InjectionInv, WriteSize, LauncherSteps, Results
<1>2. TypeOK'
  BY <1>1, LaunchersAssumption DEF InjectionInv, TypeOK, LauncherSteps,
     ThreadSteps, Results, Somebody, Options, Underway, At, LauncherIs,
     MappingIs
<1>3. Stages'
  BY <1>1, LaunchersAssumption DEF InjectionInv, TypeOK, Stages, StagesOf, At,
     Results, LauncherIs, MappingIs
<1>4. Finished'
  BY <1>1, LaunchersAssumption DEF InjectionInv, TypeOK, Stages, StagesOf,
     Finished, FinishedOf, At, Results, LauncherIs, MappingIs
<1>5. Mine'
  BY <1>1, LaunchersAssumption DEF InjectionInv, TypeOK, Stages, StagesOf, Mine,
     MineOf, Underway, At, Results, LauncherIs, MappingIs
<1>6. OutcomeAsReported'
  BY <1>1, LaunchersAssumption DEF InjectionInv, TypeOK, Stages, StagesOf,
     Finished, FinishedOf, OutcomeAsReported, RunsAttached, SuspendedAsReported,
     Results, At, LauncherIs, MappingIs
<1>7. BufferOutlivesReader'
  BY <1>1, LaunchersAssumption DEF InjectionInv, TypeOK, Stages, StagesOf,
     BufferOutlivesReader, At, Results, LauncherIs, MappingIs
<1>8. OwnConfiguration'
  BY <1>1, LaunchersAssumption DEF InjectionInv, TypeOK, Stages, StagesOf,
     Finished, FinishedOf, Mine, MineOf, Underway, OwnConfiguration, At,
     Results, LauncherIs, MappingIs
<1> QED
  BY <1>2, <1>3, <1>4, <1>5, <1>6, <1>7, <1>8 DEF InjectionInv

LEMMA WriteValueKeeps ==
  ASSUME InjectionInv, NEW i \in Launchers, WriteValue(i)
  PROVE  InjectionInv'
<1>1. /\ At(i, "value")
      /\ MappingIs(mapping.writers, mapping.readers, mapping.size, i)
      /\ lapped' = lapped \cup (Underway \ {i})
      /\ LauncherIs(i, "alloc")
      /\ UNCHANGED <<options, main, buffer, thread, config, attached, late>>
  BY GoesTo, MappingWritten DEF InjectionInv, WriteValue, LauncherSteps, Results
<1>2. TypeOK'
  BY <1>1, LaunchersAssumption DEF InjectionInv, TypeOK, LauncherSteps,
     ThreadSteps, Results, Somebody, Options, Underway, At, LauncherIs,
     MappingIs
<1>3. Stages'
  BY <1>1, LaunchersAssumption DEF InjectionInv, TypeOK, Stages, StagesOf, At,
     Results, LauncherIs, MappingIs
<1>4. Finished'
  BY <1>1, LaunchersAssumption DEF InjectionInv, TypeOK, Stages, StagesOf,
     Finished, FinishedOf, At, Results, LauncherIs, MappingIs
<1>5. Mine'
  BY <1>1, LaunchersAssumption DEF InjectionInv, TypeOK, Stages, StagesOf, Mine,
     MineOf, Underway, At, Results, LauncherIs, MappingIs
<1>6. OutcomeAsReported'
  BY <1>1, LaunchersAssumption DEF InjectionInv, TypeOK, Stages, StagesOf,
     Finished, FinishedOf, OutcomeAsReported, RunsAttached, SuspendedAsReported,
     Results, At, LauncherIs, MappingIs
<1>7. BufferOutlivesReader'
  BY <1>1, LaunchersAssumption DEF InjectionInv, TypeOK, Stages, StagesOf,
     BufferOutlivesReader, At, Results, LauncherIs, MappingIs
<1>8. OwnConfiguration'
  BY <1>1, LaunchersAssumption DEF InjectionInv, TypeOK, Stages, StagesOf,
     Finished, FinishedOf, Mine, MineOf, Underway, OwnConfiguration, At,
     Results, LauncherIs, MappingIs
<1> QED
  BY <1>2, <1>3, <1>4, <1>5, <1>6, <1>7, <1>8 DEF InjectionInv

LEMMA WriteRefusedKeeps ==
  ASSUME InjectionInv, NEW i \in Launchers, WriteRefused(i)
  PROVE  InjectionInv'
<1>1. /\ At(i, "size")
      /\ lapped' = lapped \cup {i}
      /\ LauncherIs(i, "alloc")
      /\ UNCHANGED <<options, main, buffer, thread, mapping, config, attached, late>>
  BY GoesTo DEF InjectionInv, WriteRefused, LauncherSteps, Results
<1>2. TypeOK'
  BY <1>1, LaunchersAssumption DEF InjectionInv, TypeOK, LauncherSteps,
     ThreadSteps, Results, Somebody, Options, Underway, At, LauncherIs
<1>3. Stages'
  BY <1>1, LaunchersAssumption DEF InjectionInv, TypeOK, Stages, StagesOf, At,
     Results, LauncherIs
<1>4. Finished'
  BY <1>1, LaunchersAssumption DEF InjectionInv, TypeOK, Stages, StagesOf,
     Finished, FinishedOf, At, Results, LauncherIs
<1>5. Mine'
  BY <1>1, LaunchersAssumption DEF InjectionInv, TypeOK, Stages, StagesOf, Mine,
     MineOf, Underway, At, Results, LauncherIs
<1>6. OutcomeAsReported'
  BY <1>1, LaunchersAssumption DEF InjectionInv, TypeOK, Stages, StagesOf,
     Finished, FinishedOf, OutcomeAsReported, RunsAttached, SuspendedAsReported,
     Results, At, LauncherIs
<1>7. BufferOutlivesReader'
  BY <1>1, LaunchersAssumption DEF InjectionInv, TypeOK, Stages, StagesOf,
     BufferOutlivesReader, At, Results, LauncherIs
<1>8. OwnConfiguration'
  BY <1>1, LaunchersAssumption DEF InjectionInv, TypeOK, Stages, StagesOf,
     Finished, FinishedOf, Mine, MineOf, Underway, OwnConfiguration, At,
     Results, LauncherIs
<1> QED
  BY <1>2, <1>3, <1>4, <1>5, <1>6, <1>7, <1>8 DEF InjectionInv

LEMMA AllocateKeeps ==
  ASSUME InjectionInv, NEW i \in Launchers, Allocate(i)
  PROVE  InjectionInv'
<1>1. CASE Goes(i, "path") /\ buffer' = [buffer EXCEPT ![i] = "allocated"]
  <2>1. /\ At(i, "alloc")
        /\ LauncherIs(i, "path")
        /\ buffer' = [buffer EXCEPT ![i] = "allocated"]
        /\ UNCHANGED <<options, main, thread, mapping, config, attached, late, lapped>>
    BY <1>1, GoesTo DEF InjectionInv, Allocate, LauncherSteps, Results
  <2>2. TypeOK'
    BY <2>1, LaunchersAssumption DEF InjectionInv, TypeOK, LauncherSteps,
       ThreadSteps, Results, Somebody, Options, Underway, At, LauncherIs
  <2>3. Stages'
    BY <2>1, LaunchersAssumption DEF InjectionInv, TypeOK, Stages, StagesOf, At,
       Results, LauncherIs
  <2>4. Finished'
    BY <2>1, LaunchersAssumption DEF InjectionInv, TypeOK, Stages, StagesOf,
       Finished, FinishedOf, At, Results, LauncherIs
  <2>5. Mine'
    BY <2>1, LaunchersAssumption DEF InjectionInv, TypeOK, Stages, StagesOf, Mine,
       MineOf, Underway, At, Results, LauncherIs
  <2>6. OutcomeAsReported'
    BY <2>1, LaunchersAssumption DEF InjectionInv, TypeOK, Stages, StagesOf,
       Finished, FinishedOf, OutcomeAsReported, RunsAttached,
       SuspendedAsReported, Results, At, LauncherIs
  <2>7. BufferOutlivesReader'
    BY <2>1, LaunchersAssumption DEF InjectionInv, TypeOK, Stages, StagesOf,
       BufferOutlivesReader, At, Results, LauncherIs
  <2>8. OwnConfiguration'
    BY <2>1, LaunchersAssumption DEF InjectionInv, TypeOK, Stages, StagesOf,
       Finished, FinishedOf, Mine, MineOf, Underway, OwnConfiguration, At,
       Results, LauncherIs
  <2> QED
    BY <2>2, <2>3, <2>4, <2>5, <2>6, <2>7, <2>8 DEF InjectionInv
<1>2. CASE Goes(i, "failed") /\ UNCHANGED buffer
  <2>1. /\ At(i, "alloc")
        /\ LauncherIs(i, "failed")
        /\ UNCHANGED <<options, main, buffer, thread, mapping, config, attached, late, lapped>>
    BY <1>2, GoesTo DEF InjectionInv, Allocate, LauncherSteps, Results
  <2>2. TypeOK'
    BY <2>1, LaunchersAssumption DEF InjectionInv, TypeOK, LauncherSteps,
       ThreadSteps, Results, Somebody, Options, Underway, At, LauncherIs
  <2>3. Stages'
    BY <2>1, LaunchersAssumption DEF InjectionInv, TypeOK, Stages, StagesOf, At,
       Results, LauncherIs
  <2>4. Finished'
    BY <2>1, LaunchersAssumption DEF InjectionInv, TypeOK, Stages, StagesOf,
       Finished, FinishedOf, At, Results, LauncherIs
  <2>5. Mine'
    BY <2>1, LaunchersAssumption DEF InjectionInv, TypeOK, Stages, StagesOf, Mine,
       MineOf, Underway, At, Results, LauncherIs
  <2>6. OutcomeAsReported'
    BY <2>1, LaunchersAssumption DEF InjectionInv, TypeOK, Stages, StagesOf,
       Finished, FinishedOf, OutcomeAsReported, RunsAttached,
       SuspendedAsReported, Results, At, LauncherIs
  <2>7. BufferOutlivesReader'
    BY <2>1, LaunchersAssumption DEF InjectionInv, TypeOK, Stages, StagesOf,
       BufferOutlivesReader, At, Results, LauncherIs
  <2>8. OwnConfiguration'
    BY <2>1, LaunchersAssumption DEF InjectionInv, TypeOK, Stages, StagesOf,
       Finished, FinishedOf, Mine, MineOf, Underway, OwnConfiguration, At,
       Results, LauncherIs
  <2> QED
    BY <2>2, <2>3, <2>4, <2>5, <2>6, <2>7, <2>8 DEF InjectionInv
<1> QED
  BY <1>1, <1>2 DEF Allocate

LEMMA WritePathKeeps ==
  ASSUME InjectionInv, NEW i \in Launchers, WritePath(i)
  PROVE  InjectionInv'
<1>1. CASE Goes(i, "start") /\ UNCHANGED buffer
  <2>1. /\ At(i, "path")
        /\ LauncherIs(i, "start")
        /\ UNCHANGED <<options, main, buffer, thread, mapping, config, attached, late, lapped>>
    BY <1>1, GoesTo DEF InjectionInv, WritePath, GivesUp, LauncherSteps, Results
  <2>2. TypeOK'
    BY <2>1, LaunchersAssumption DEF InjectionInv, TypeOK, LauncherSteps,
       ThreadSteps, Results, Somebody, Options, Underway, At, LauncherIs
  <2>3. Stages'
    BY <2>1, LaunchersAssumption DEF InjectionInv, TypeOK, Stages, StagesOf, At,
       Results, LauncherIs
  <2>4. Finished'
    BY <2>1, LaunchersAssumption DEF InjectionInv, TypeOK, Stages, StagesOf,
       Finished, FinishedOf, At, Results, LauncherIs
  <2>5. Mine'
    BY <2>1, LaunchersAssumption DEF InjectionInv, TypeOK, Stages, StagesOf, Mine,
       MineOf, Underway, At, Results, LauncherIs
  <2>6. OutcomeAsReported'
    BY <2>1, LaunchersAssumption DEF InjectionInv, TypeOK, Stages, StagesOf,
       Finished, FinishedOf, OutcomeAsReported, RunsAttached,
       SuspendedAsReported, Results, At, LauncherIs
  <2>7. BufferOutlivesReader'
    BY <2>1, LaunchersAssumption DEF InjectionInv, TypeOK, Stages, StagesOf,
       BufferOutlivesReader, At, Results, LauncherIs
  <2>8. OwnConfiguration'
    BY <2>1, LaunchersAssumption DEF InjectionInv, TypeOK, Stages, StagesOf,
       Finished, FinishedOf, Mine, MineOf, Underway, OwnConfiguration, At,
       Results, LauncherIs
  <2> QED
    BY <2>2, <2>3, <2>4, <2>5, <2>6, <2>7, <2>8 DEF InjectionInv
<1>2. CASE GivesUp(i)
  <2>1. /\ At(i, "path")
        /\ buffer' = [buffer EXCEPT ![i] = "freed"]
        /\ LauncherIs(i, "failed")
        /\ UNCHANGED <<options, main, thread, mapping, config, attached, late, lapped>>
    BY <1>2, GoesTo DEF InjectionInv, WritePath, GivesUp, LauncherSteps, Results
  <2>2. TypeOK'
    BY <2>1, LaunchersAssumption DEF InjectionInv, TypeOK, LauncherSteps,
       ThreadSteps, Results, Somebody, Options, Underway, At, LauncherIs
  <2>3. Stages'
    BY <2>1, LaunchersAssumption DEF InjectionInv, TypeOK, Stages, StagesOf, At,
       Results, LauncherIs
  <2>4. Finished'
    BY <2>1, LaunchersAssumption DEF InjectionInv, TypeOK, Stages, StagesOf,
       Finished, FinishedOf, At, Results, LauncherIs
  <2>5. Mine'
    BY <2>1, LaunchersAssumption DEF InjectionInv, TypeOK, Stages, StagesOf, Mine,
       MineOf, Underway, At, Results, LauncherIs
  <2>6. OutcomeAsReported'
    BY <2>1, LaunchersAssumption DEF InjectionInv, TypeOK, Stages, StagesOf,
       Finished, FinishedOf, OutcomeAsReported, RunsAttached,
       SuspendedAsReported, Results, At, LauncherIs
  <2>7. BufferOutlivesReader'
    BY <2>1, LaunchersAssumption DEF InjectionInv, TypeOK, Stages, StagesOf,
       BufferOutlivesReader, At, Results, LauncherIs
  <2>8. OwnConfiguration'
    BY <2>1, LaunchersAssumption DEF InjectionInv, TypeOK, Stages, StagesOf,
       Finished, FinishedOf, Mine, MineOf, Underway, OwnConfiguration, At,
       Results, LauncherIs
  <2> QED
    BY <2>2, <2>3, <2>4, <2>5, <2>6, <2>7, <2>8 DEF InjectionInv
<1> QED
  BY <1>1, <1>2 DEF WritePath

LEMMA StartThreadKeeps ==
  ASSUME InjectionInv, NEW i \in Launchers, StartThread(i)
  PROVE  InjectionInv'
<1>1. CASE options[i].wait /\ ~GivesUp(i)
  <2>1. /\ At(i, "start")
        /\ options[i].wait
        /\ ThreadIs(i, "load", thread[i].code)
        /\ LauncherIs(i, "wait")
        /\ UNCHANGED <<options, main, buffer, mapping, config, attached, late, lapped>>
    BY <1>1, GoesTo, MovesTo, EndsAs DEF InjectionInv, StartThread, GivesUp, Moves,
       LauncherSteps, Results, ThreadSteps
  <2>2. TypeOK'
    BY <2>1, LaunchersAssumption DEF InjectionInv, TypeOK, LauncherSteps,
       ThreadSteps, Results, Somebody, Options, Underway, At, LauncherIs,
       ThreadIs
  <2>3. Stages'
    BY <2>1, LaunchersAssumption DEF InjectionInv, TypeOK, Stages, StagesOf, At,
       Results, LauncherIs, ThreadIs
  <2>4. Finished'
    BY <2>1, LaunchersAssumption DEF InjectionInv, TypeOK, Stages, StagesOf,
       Finished, FinishedOf, At, Results, LauncherIs, ThreadIs
  <2>5. Mine'
    <3>1. ASSUME NEW j \in Launchers, j \in Underway', j \notin lapped'
           PROVE  MineOf(j)'
      <4>1. CASE j = i
        BY <2>1, <3>1, <4>1, LaunchersAssumption DEF InjectionInv, Stages, StagesOf,
           Mine, MineOf, Underway, At, Results, LauncherIs, ThreadIs
      <4>2. CASE j # i
        BY <2>1, <3>1, <4>2, LaunchersAssumption DEF InjectionInv, Stages, StagesOf,
           Mine, MineOf, Underway, At, Results, LauncherIs, ThreadIs
      <4> QED
        BY <4>1, <4>2
    <3> QED
      BY <3>1 DEF Mine, Underway
  <2>6. OutcomeAsReported'
    <3>1. RunsAttached'
      BY <2>1 DEF InjectionInv, Stages, StagesOf, Finished, FinishedOf,
         OutcomeAsReported, RunsAttached, At, Results, LauncherIs, ThreadIs
    <3>2. SuspendedAsReported'
      BY <2>1 DEF InjectionInv, Stages, StagesOf, Finished, FinishedOf,
         OutcomeAsReported, SuspendedAsReported, At, Results, LauncherIs,
         ThreadIs
    <3> QED
      BY <3>1, <3>2 DEF OutcomeAsReported
  <2>7. BufferOutlivesReader'
    BY <2>1, LaunchersAssumption DEF InjectionInv, TypeOK, Stages, StagesOf,
       BufferOutlivesReader, At, Results, LauncherIs, ThreadIs
  <2>8. OwnConfiguration'
    BY <2>1, LaunchersAssumption DEF InjectionInv, TypeOK, Stages, StagesOf,
       Finished, FinishedOf, Mine, MineOf, Underway, OwnConfiguration, At,
       Results, LauncherIs, ThreadIs
  <2> QED
    BY <2>2, <2>3, <2>4, <2>5, <2>6, <2>7, <2>8 DEF InjectionInv
<1>2. CASE ~options[i].wait /\ ~GivesUp(i)
  <2>1. /\ At(i, "start")
        /\ ~options[i].wait
        /\ ThreadIs(i, "load", thread[i].code)
        /\ LauncherIs(i, "resume")
        /\ UNCHANGED <<options, main, buffer, mapping, config, attached, late, lapped>>
    BY <1>2, GoesTo, MovesTo, EndsAs DEF InjectionInv, StartThread, GivesUp, Moves,
       LauncherSteps, Results, ThreadSteps
  <2>2. TypeOK'
    BY <2>1, LaunchersAssumption DEF InjectionInv, TypeOK, LauncherSteps,
       ThreadSteps, Results, Somebody, Options, Underway, At, LauncherIs,
       ThreadIs
  <2>3. Stages'
    BY <2>1, LaunchersAssumption DEF InjectionInv, TypeOK, Stages, StagesOf, At,
       Results, LauncherIs, ThreadIs
  <2>4. Finished'
    <3>1. ASSUME NEW j \in Launchers
           PROVE  FinishedOf(j)'
      <4>1. CASE j = i
        BY <2>1, <3>1, <4>1, LaunchersAssumption DEF InjectionInv, Stages, StagesOf,
           Finished, FinishedOf, At, Results, LauncherIs, ThreadIs
      <4>2. CASE j # i
        BY <2>1, <3>1, <4>2, LaunchersAssumption DEF InjectionInv, Stages, StagesOf,
           Finished, FinishedOf, At, Results, LauncherIs, ThreadIs
      <4> QED
        BY <4>1, <4>2
    <3> QED
      BY <3>1 DEF Finished
  <2>5. Mine'
    <3>1. ASSUME NEW j \in Launchers, j \in Underway', j \notin lapped'
           PROVE  MineOf(j)'
      <4>1. CASE j = i
        BY <2>1, <3>1, <4>1, LaunchersAssumption DEF InjectionInv, Stages, StagesOf,
           Mine, MineOf, Underway, At, Results, LauncherIs, ThreadIs
      <4>2. CASE j # i
        BY <2>1, <3>1, <4>2, LaunchersAssumption DEF InjectionInv, Stages, StagesOf,
           Mine, MineOf, Underway, At, Results, LauncherIs, ThreadIs
      <4> QED
        BY <4>1, <4>2
    <3> QED
      BY <3>1 DEF Mine, Underway
  <2>6. OutcomeAsReported'
    <3>1. RunsAttached'
      BY <2>1 DEF InjectionInv, Stages, StagesOf, Finished, FinishedOf,
         OutcomeAsReported, RunsAttached, At, Results, LauncherIs, ThreadIs
    <3>2. SuspendedAsReported'
      BY <2>1 DEF InjectionInv, Stages, StagesOf, Finished, FinishedOf,
         OutcomeAsReported, SuspendedAsReported, At, Results, LauncherIs,
         ThreadIs
    <3> QED
      BY <3>1, <3>2 DEF OutcomeAsReported
  <2>7. BufferOutlivesReader'
    BY <2>1, LaunchersAssumption DEF InjectionInv, TypeOK, Stages, StagesOf,
       BufferOutlivesReader, At, Results, LauncherIs, ThreadIs
  <2>8. OwnConfiguration'
    BY <2>1, LaunchersAssumption DEF InjectionInv, TypeOK, Stages, StagesOf,
       Finished, FinishedOf, Mine, MineOf, Underway, OwnConfiguration, At,
       Results, LauncherIs, ThreadIs
  <2> QED
    BY <2>2, <2>3, <2>4, <2>5, <2>6, <2>7, <2>8 DEF InjectionInv
<1>3. CASE GivesUp(i)
  <2>1. /\ At(i, "start")
        /\ buffer' = [buffer EXCEPT ![i] = "freed"]
        /\ LauncherIs(i, "failed")
        /\ UNCHANGED <<options, main, thread, mapping, config, attached, late, lapped>>
    BY <1>3, GoesTo DEF InjectionInv, StartThread, GivesUp, Moves, LauncherSteps,
       Results
  <2>2. TypeOK'
    BY <2>1, LaunchersAssumption DEF InjectionInv, TypeOK, LauncherSteps,
       ThreadSteps, Results, Somebody, Options, Underway, At, LauncherIs
  <2>3. Stages'
    BY <2>1, LaunchersAssumption DEF InjectionInv, TypeOK, Stages, StagesOf, At,
       Results, LauncherIs
  <2>4. Finished'
    BY <2>1, LaunchersAssumption DEF InjectionInv, TypeOK, Stages, StagesOf,
       Finished, FinishedOf, At, Results, LauncherIs
  <2>5. Mine'
    BY <2>1, LaunchersAssumption DEF InjectionInv, TypeOK, Stages, StagesOf, Mine,
       MineOf, Underway, At, Results, LauncherIs
  <2>6. OutcomeAsReported'
    BY <2>1, LaunchersAssumption DEF InjectionInv, TypeOK, Stages, StagesOf,
       Finished, FinishedOf, OutcomeAsReported, RunsAttached,
       SuspendedAsReported, Results, At, LauncherIs
  <2>7. BufferOutlivesReader'
    BY <2>1, LaunchersAssumption DEF InjectionInv, TypeOK, Stages, StagesOf,
       BufferOutlivesReader, At, Results, LauncherIs
  <2>8. OwnConfiguration'
    BY <2>1, LaunchersAssumption DEF InjectionInv, TypeOK, Stages, StagesOf,
       Finished, FinishedOf, Mine, MineOf, Underway, OwnConfiguration, At,
       Results, LauncherIs
  <2> QED
    BY <2>2, <2>3, <2>4, <2>5, <2>6, <2>7, <2>8 DEF InjectionInv
<1> QED
  BY <1>1, <1>2, <1>3 DEF StartThread, GivesUp

LEMMA ThreadEndedKeeps ==
  ASSUME InjectionInv, NEW i \in Launchers, ThreadEnded(i)
  PROVE  InjectionInv'
<1>1. CASE thread[i].code = "zero"
  <2>1. /\ At(i, "wait")
        /\ buffer' = [buffer EXCEPT ![i] = "freed"]
        /\ LauncherIs(i, "failed")
        /\ UNCHANGED <<options, main, thread, mapping, config, attached, late, lapped>>
    BY <1>1, GoesTo DEF InjectionInv, ThreadEnded, TypeOK, LauncherSteps, Results
  <2>2. TypeOK'
    BY <2>1, LaunchersAssumption DEF InjectionInv, TypeOK, LauncherSteps,
       ThreadSteps, Results, Somebody, Options, Underway, At, LauncherIs
  <2>3. Stages'
    BY <2>1, LaunchersAssumption DEF InjectionInv, TypeOK, Stages, StagesOf, At,
       Results, LauncherIs
  <2>4. Finished'
    BY <2>1, LaunchersAssumption DEF InjectionInv, TypeOK, Stages, StagesOf,
       Finished, FinishedOf, At, Results, LauncherIs
  <2>5. Mine'
    BY <2>1, LaunchersAssumption DEF InjectionInv, TypeOK, Stages, StagesOf, Mine,
       MineOf, Underway, At, Results, LauncherIs
  <2>6. OutcomeAsReported'
    BY <2>1, LaunchersAssumption DEF InjectionInv, TypeOK, Stages, StagesOf,
       Finished, FinishedOf, OutcomeAsReported, RunsAttached,
       SuspendedAsReported, Results, At, LauncherIs
  <2>7. BufferOutlivesReader'
    BY <2>1, LaunchersAssumption DEF InjectionInv, TypeOK, Stages, StagesOf,
       BufferOutlivesReader, At, Results, LauncherIs
  <2>8. OwnConfiguration'
    BY <2>1, LaunchersAssumption DEF InjectionInv, TypeOK, Stages, StagesOf,
       Finished, FinishedOf, Mine, MineOf, Underway, OwnConfiguration, At,
       Results, LauncherIs
  <2> QED
    BY <2>2, <2>3, <2>4, <2>5, <2>6, <2>7, <2>8 DEF InjectionInv
<1>2. CASE thread[i].code # "zero"
  <2>1. /\ At(i, "wait")
        /\ thread[i].at = "ended"
        /\ thread[i].code = "other"
        /\ buffer' = [buffer EXCEPT ![i] = "freed"]
        /\ LauncherIs(i, "resume")
        /\ UNCHANGED <<options, main, thread, mapping, config, attached, late, lapped>>
    BY <1>2, GoesTo DEF InjectionInv, ThreadEnded, TypeOK, LauncherSteps, Results
  <2>2. TypeOK'
    BY <2>1, LaunchersAssumption DEF InjectionInv, TypeOK, LauncherSteps,
       ThreadSteps, Results, Somebody, Options, Underway, At, LauncherIs
  <2>3. Stages'
    BY <2>1, LaunchersAssumption DEF InjectionInv, TypeOK, Stages, StagesOf, At,
       Results, LauncherIs
  <2>4. Finished'
    BY <2>1, LaunchersAssumption DEF InjectionInv, TypeOK, Stages, StagesOf,
       Finished, FinishedOf, At, Results, LauncherIs
  <2>5. Mine'
    BY <2>1, LaunchersAssumption DEF InjectionInv, TypeOK, Stages, StagesOf, Mine,
       MineOf, Underway, At, Results, LauncherIs
  <2>6. OutcomeAsReported'
    BY <2>1, LaunchersAssumption DEF InjectionInv, TypeOK, Stages, StagesOf,
       Finished, FinishedOf, OutcomeAsReported, RunsAttached,
       SuspendedAsReported, Results, At, LauncherIs
  <2>7. BufferOutlivesReader'
    BY <2>1, LaunchersAssumption DEF InjectionInv, TypeOK, Stages, StagesOf,
       BufferOutlivesReader, At, Results, LauncherIs
  <2>8. OwnConfiguration'
    BY <2>1, LaunchersAssumption DEF InjectionInv, TypeOK, Stages, StagesOf,
       Finished, FinishedOf, Mine, MineOf, Underway, OwnConfiguration, At,
       Results, LauncherIs
  <2> QED
    BY <2>2, <2>3, <2>4, <2>5, <2>6, <2>7, <2>8 DEF InjectionInv
<1> QED
  BY <1>1, <1>2 DEF ThreadEnded

LEMMA TimesOutKeeps ==
  ASSUME InjectionInv, NEW i \in Launchers, TimesOut(i)
  PROVE  InjectionInv'
<1>1. /\ At(i, "wait")
      /\ options[i].wait
      /\ buffer' = [buffer EXCEPT ![i] = "freed"]
      /\ LauncherIs(i, "failed")
      /\ UNCHANGED <<options, main, thread, mapping, config, attached, late, lapped>>
  BY GoesTo DEF InjectionInv, TimesOut, GivesUp, Stages, StagesOf, LauncherSteps,
     Results, At
<1>2. TypeOK'
  BY <1>1, LaunchersAssumption DEF InjectionInv, TypeOK, LauncherSteps,
     ThreadSteps, Results, Somebody, Options, Underway, At, LauncherIs
<1>3. Stages'
  BY <1>1, LaunchersAssumption DEF InjectionInv, TypeOK, Stages, StagesOf, At,
     Results, LauncherIs
<1>4. Finished'
  BY <1>1, LaunchersAssumption DEF InjectionInv, TypeOK, Stages, StagesOf,
     Finished, FinishedOf, At, Results, LauncherIs
<1>5. Mine'
  <2>1. ASSUME NEW j \in Launchers, j \in Underway', j \notin lapped'
         PROVE  MineOf(j)'
    <3>1. CASE j = i
      BY <1>1, <2>1, <3>1, LaunchersAssumption DEF InjectionInv, TypeOK, Stages,
         StagesOf, Mine, MineOf, Underway, At, Results, LauncherIs
    <3>2. CASE j # i
      BY <1>1, <2>1, <3>2, LaunchersAssumption DEF InjectionInv, TypeOK, Stages,
         StagesOf, Mine, MineOf, Underway, At, Results, LauncherIs
    <3> QED
      BY <3>1, <3>2
  <2> QED
    BY <2>1 DEF Mine, Underway
<1>6. OutcomeAsReported'
  BY <1>1, LaunchersAssumption DEF InjectionInv, TypeOK, Stages, StagesOf,
     Finished, FinishedOf, OutcomeAsReported, RunsAttached, SuspendedAsReported,
     Results, At, LauncherIs
<1>7. BufferOutlivesReader'
  BY <1>1, LaunchersAssumption DEF InjectionInv, TypeOK, Stages, StagesOf,
     BufferOutlivesReader, At, Results, LauncherIs
<1>8. OwnConfiguration'
  BY <1>1, LaunchersAssumption DEF InjectionInv, TypeOK, Stages, StagesOf,
     Finished, FinishedOf, Mine, MineOf, Underway, OwnConfiguration, At,
     Results, LauncherIs
<1> QED
  BY <1>2, <1>3, <1>4, <1>5, <1>6, <1>7, <1>8 DEF InjectionInv

LEMMA WaitFailsKeeps ==
  ASSUME InjectionInv, NEW i \in Launchers, WaitFails(i)
  PROVE  InjectionInv'
<1>1. /\ At(i, "wait")
      /\ options[i].wait
      /\ buffer' = [buffer EXCEPT ![i] = "freed"]
      /\ LauncherIs(i, "failed")
      /\ UNCHANGED <<options, main, thread, mapping, config, attached, late, lapped>>
  BY GoesTo DEF InjectionInv, WaitFails, GivesUp, Stages, StagesOf, LauncherSteps,
     Results, At
<1>2. TypeOK'
  BY <1>1, LaunchersAssumption DEF InjectionInv, TypeOK, LauncherSteps,
     ThreadSteps, Results, Somebody, Options, Underway, At, LauncherIs
<1>3. Stages'
  BY <1>1, LaunchersAssumption DEF InjectionInv, TypeOK, Stages, StagesOf, At,
     Results, LauncherIs
<1>4. Finished'
  BY <1>1, LaunchersAssumption DEF InjectionInv, TypeOK, Stages, StagesOf,
     Finished, FinishedOf, At, Results, LauncherIs
<1>5. Mine'
  <2>1. ASSUME NEW j \in Launchers, j \in Underway', j \notin lapped'
         PROVE  MineOf(j)'
    <3>1. CASE j = i
      BY <1>1, <2>1, <3>1, LaunchersAssumption DEF InjectionInv, TypeOK, Stages,
         StagesOf, Mine, MineOf, Underway, At, Results, LauncherIs
    <3>2. CASE j # i
      BY <1>1, <2>1, <3>2, LaunchersAssumption DEF InjectionInv, TypeOK, Stages,
         StagesOf, Mine, MineOf, Underway, At, Results, LauncherIs
    <3> QED
      BY <3>1, <3>2
  <2> QED
    BY <2>1 DEF Mine, Underway
<1>6. OutcomeAsReported'
  BY <1>1, LaunchersAssumption DEF InjectionInv, TypeOK, Stages, StagesOf,
     Finished, FinishedOf, OutcomeAsReported, RunsAttached, SuspendedAsReported,
     Results, At, LauncherIs
<1>7. BufferOutlivesReader'
  BY <1>1, LaunchersAssumption DEF InjectionInv, TypeOK, Stages, StagesOf,
     BufferOutlivesReader, At, Results, LauncherIs
<1>8. OwnConfiguration'
  BY <1>1, LaunchersAssumption DEF InjectionInv, TypeOK, Stages, StagesOf,
     Finished, FinishedOf, Mine, MineOf, Underway, OwnConfiguration, At,
     Results, LauncherIs
<1> QED
  BY <1>2, <1>3, <1>4, <1>5, <1>6, <1>7, <1>8 DEF InjectionInv

LEMMA ResumeKeeps ==
  ASSUME InjectionInv, NEW i \in Launchers, Resume(i)
  PROVE  InjectionInv'
<1>1. CASE options[i].suspend /\ Goes(i, "ok") /\ UNCHANGED main
  <2>1. /\ At(i, "resume")
        /\ options[i].suspend
        /\ LauncherIs(i, "ok")
        /\ UNCHANGED <<options, main, buffer, thread, mapping, config, attached, late, lapped>>
    BY <1>1, GoesTo DEF InjectionInv, Resume, LauncherSteps, Results
  <2>2. TypeOK'
    BY <2>1, LaunchersAssumption DEF InjectionInv, TypeOK, LauncherSteps,
       ThreadSteps, Results, Somebody, Options, Underway, At, LauncherIs
  <2>3. Stages'
    BY <2>1, LaunchersAssumption DEF InjectionInv, TypeOK, Stages, StagesOf, At,
       Results, LauncherIs
  <2>4. Finished'
    BY <2>1, LaunchersAssumption DEF InjectionInv, TypeOK, Stages, StagesOf,
       Finished, FinishedOf, At, Results, LauncherIs
  <2>5. Mine'
    BY <2>1, LaunchersAssumption DEF InjectionInv, TypeOK, Stages, StagesOf, Mine,
       MineOf, Underway, At, Results, LauncherIs
  <2>6. OutcomeAsReported'
    BY <2>1, LaunchersAssumption DEF InjectionInv, TypeOK, Stages, StagesOf,
       Finished, FinishedOf, OutcomeAsReported, RunsAttached,
       SuspendedAsReported, Results, At, LauncherIs
  <2>7. BufferOutlivesReader'
    BY <2>1, LaunchersAssumption DEF InjectionInv, TypeOK, Stages, StagesOf,
       BufferOutlivesReader, At, Results, LauncherIs
  <2>8. OwnConfiguration'
    BY <2>1, LaunchersAssumption DEF InjectionInv, TypeOK, Stages, StagesOf,
       Finished, FinishedOf, Mine, MineOf, Underway, OwnConfiguration, At,
       Results, LauncherIs
  <2> QED
    BY <2>2, <2>3, <2>4, <2>5, <2>6, <2>7, <2>8 DEF InjectionInv
<1>2. CASE main[i] = "suspended" /\ Goes(i, "ok") /\ main' = [main EXCEPT ![i] =
            "running"]
  <2>1. /\ At(i, "resume")
        /\ main[i] = "suspended"
        /\ main' = [main EXCEPT ![i] = "running"]
        /\ LauncherIs(i, "ok")
        /\ UNCHANGED <<options, buffer, thread, mapping, config, attached, late, lapped>>
    BY <1>2, GoesTo DEF InjectionInv, Resume, LauncherSteps, Results
  <2>2. TypeOK'
    BY <2>1, LaunchersAssumption DEF InjectionInv, TypeOK, LauncherSteps,
       ThreadSteps, Results, Somebody, Options, Underway, At, LauncherIs
  <2>3. Stages'
    BY <2>1, LaunchersAssumption DEF InjectionInv, TypeOK, Stages, StagesOf, At,
       Results, LauncherIs
  <2>4. Finished'
    BY <2>1, LaunchersAssumption DEF InjectionInv, TypeOK, Stages, StagesOf,
       Finished, FinishedOf, At, Results, LauncherIs
  <2>5. Mine'
    BY <2>1, LaunchersAssumption DEF InjectionInv, TypeOK, Stages, StagesOf, Mine,
       MineOf, Underway, At, Results, LauncherIs
  <2>6. OutcomeAsReported'
    BY <2>1, LaunchersAssumption DEF InjectionInv, TypeOK, Stages, StagesOf,
       Finished, FinishedOf, OutcomeAsReported, RunsAttached,
       SuspendedAsReported, Results, At, LauncherIs
  <2>7. BufferOutlivesReader'
    BY <2>1, LaunchersAssumption DEF InjectionInv, TypeOK, Stages, StagesOf,
       BufferOutlivesReader, At, Results, LauncherIs
  <2>8. OwnConfiguration'
    BY <2>1, LaunchersAssumption DEF InjectionInv, TypeOK, Stages, StagesOf,
       Finished, FinishedOf, Mine, MineOf, Underway, OwnConfiguration, At,
       Results, LauncherIs
  <2> QED
    BY <2>2, <2>3, <2>4, <2>5, <2>6, <2>7, <2>8 DEF InjectionInv
<1>3. CASE Goes(i, "failed") /\ UNCHANGED main
  <2>1. /\ At(i, "resume")
        /\ LauncherIs(i, "failed")
        /\ UNCHANGED <<options, main, buffer, thread, mapping, config, attached, late, lapped>>
    BY <1>3, GoesTo DEF InjectionInv, Resume, LauncherSteps, Results
  <2>2. TypeOK'
    BY <2>1, LaunchersAssumption DEF InjectionInv, TypeOK, LauncherSteps,
       ThreadSteps, Results, Somebody, Options, Underway, At, LauncherIs
  <2>3. Stages'
    BY <2>1, LaunchersAssumption DEF InjectionInv, TypeOK, Stages, StagesOf, At,
       Results, LauncherIs
  <2>4. Finished'
    BY <2>1, LaunchersAssumption DEF InjectionInv, TypeOK, Stages, StagesOf,
       Finished, FinishedOf, At, Results, LauncherIs
  <2>5. Mine'
    BY <2>1, LaunchersAssumption DEF InjectionInv, TypeOK, Stages, StagesOf, Mine,
       MineOf, Underway, At, Results, LauncherIs
  <2>6. OutcomeAsReported'
    BY <2>1, LaunchersAssumption DEF InjectionInv, TypeOK, Stages, StagesOf,
       Finished, FinishedOf, OutcomeAsReported, RunsAttached,
       SuspendedAsReported, Results, At, LauncherIs
  <2>7. BufferOutlivesReader'
    BY <2>1, LaunchersAssumption DEF InjectionInv, TypeOK, Stages, StagesOf,
       BufferOutlivesReader, At, Results, LauncherIs
  <2>8. OwnConfiguration'
    BY <2>1, LaunchersAssumption DEF InjectionInv, TypeOK, Stages, StagesOf,
       Finished, FinishedOf, Mine, MineOf, Underway, OwnConfiguration, At,
       Results, LauncherIs
  <2> QED
    BY <2>2, <2>3, <2>4, <2>5, <2>6, <2>7, <2>8 DEF InjectionInv
<1> QED
  BY <1>1, <1>2, <1>3 DEF Resume

LEMMA ExitKeeps ==
  ASSUME InjectionInv, NEW i \in Launchers, Exit(i)
  PROVE  InjectionInv'
<1>1. /\ launcher[i] \in Results
      /\ MappingLeft(mapping.writers \ {i})
      /\ UNCHANGED <<options, launcher, main, buffer, thread, config, attached, late, lapped>>
  BY MappingClosed DEF InjectionInv, Exit
<1>2. TypeOK'
  BY <1>1, LaunchersAssumption DEF InjectionInv, TypeOK, LauncherSteps,
     ThreadSteps, Results, Somebody, Options, Underway, At, MappingLeft
<1>3. Stages'
  BY <1>1, LaunchersAssumption DEF InjectionInv, TypeOK, Stages, StagesOf, At,
     Results, MappingLeft
<1>4. Finished'
  BY <1>1, LaunchersAssumption DEF InjectionInv, TypeOK, Stages, StagesOf,
     Finished, FinishedOf, At, Results, MappingLeft
<1>5. Mine'
  BY <1>1, LaunchersAssumption DEF InjectionInv, TypeOK, Stages, StagesOf, Mine,
     MineOf, Underway, At, Results, MappingLeft
<1>6. OutcomeAsReported'
  BY <1>1, LaunchersAssumption DEF InjectionInv, TypeOK, Stages, StagesOf,
     Finished, FinishedOf, OutcomeAsReported, RunsAttached, SuspendedAsReported,
     Results, At, MappingLeft
<1>7. BufferOutlivesReader'
  BY <1>1, LaunchersAssumption DEF InjectionInv, TypeOK, Stages, StagesOf,
     BufferOutlivesReader, At, Results, MappingLeft
<1>8. OwnConfiguration'
  BY <1>1, LaunchersAssumption DEF InjectionInv, TypeOK, Stages, StagesOf,
     Finished, FinishedOf, Mine, MineOf, Underway, OwnConfiguration, At,
     Results, MappingLeft
<1> QED
  BY <1>2, <1>3, <1>4, <1>5, <1>6, <1>7, <1>8 DEF InjectionInv

LEMMA LoadKeeps ==
  ASSUME InjectionInv, NEW i \in Launchers, Load(i)
  PROVE  InjectionInv'
<1>1. CASE buffer[i] = "allocated" /\ Moves(i, "library") /\ UNCHANGED late
  <2>1. /\ In(i, "load")
        /\ ThreadIs(i, "library", thread[i].code)
        /\ UNCHANGED <<options, launcher, main, buffer, mapping, config, attached, late, lapped>>
    BY <1>1, MovesTo, EndsAs DEF InjectionInv, Load, ThreadSteps
  <2>2. TypeOK'
    BY <2>1, LaunchersAssumption DEF InjectionInv, TypeOK, LauncherSteps,
       ThreadSteps, Results, Somebody, Options, Underway, At, In, ThreadIs
  <2>3. Stages'
    BY <2>1, LaunchersAssumption DEF InjectionInv, TypeOK, Stages, StagesOf, At,
       Results, In, ThreadIs
  <2>4. Finished'
    BY <2>1, LaunchersAssumption DEF InjectionInv, TypeOK, Stages, StagesOf,
       Finished, FinishedOf, At, Results, In, ThreadIs
  <2>5. Mine'
    BY <2>1, LaunchersAssumption DEF InjectionInv, TypeOK, Stages, StagesOf, Mine,
       MineOf, Underway, At, Results, In, ThreadIs
  <2>6. OutcomeAsReported'
    BY <2>1, LaunchersAssumption DEF InjectionInv, TypeOK, Stages, StagesOf,
       Finished, FinishedOf, OutcomeAsReported, RunsAttached,
       SuspendedAsReported, Results, At, In, ThreadIs
  <2>7. BufferOutlivesReader'
    BY SMTT(30), <2>1, LaunchersAssumption DEF InjectionInv, TypeOK, Stages, StagesOf,
       BufferOutlivesReader, At, Results, In, ThreadIs
  <2>8. OwnConfiguration'
    BY <2>1, LaunchersAssumption DEF InjectionInv, TypeOK, Stages, StagesOf,
       Finished, FinishedOf, Mine, MineOf, Underway, OwnConfiguration, At,
       Results, In, ThreadIs
  <2> QED
    BY <2>2, <2>3, <2>4, <2>5, <2>6, <2>7, <2>8 DEF InjectionInv
<1>2. CASE Ends(i, "zero")
  <2>1. /\ In(i, "load")
        /\ ThreadIs(i, "ended", "zero")
        /\ late' = IF buffer[i] = "freed" THEN late \cup {i} ELSE late
        /\ UNCHANGED <<options, launcher, main, buffer, mapping, config, attached, lapped>>
    BY <1>2, MovesTo, EndsAs DEF InjectionInv, Load, ThreadSteps
  <2>2. TypeOK'
    BY <2>1, LaunchersAssumption DEF InjectionInv, TypeOK, LauncherSteps,
       ThreadSteps, Results, Somebody, Options, Underway, At, In, ThreadIs
  <2>3. Stages'
    BY <2>1, LaunchersAssumption DEF InjectionInv, TypeOK, Stages, StagesOf, At,
       Results, In, ThreadIs
  <2>4. Finished'
    <3>1. ASSUME NEW j \in Launchers
           PROVE  FinishedOf(j)'
      <4>1. CASE j = i
        BY <2>1, <3>1, <4>1, LaunchersAssumption DEF InjectionInv, Stages, StagesOf,
           Finished, FinishedOf, At, Results, ThreadIs, In
      <4>2. CASE j # i
        BY <2>1, <3>1, <4>2, LaunchersAssumption DEF InjectionInv, Stages, StagesOf,
           Finished, FinishedOf, At, Results, ThreadIs, In
      <4> QED
        BY <4>1, <4>2
    <3> QED
      BY <3>1 DEF Finished
  <2>5. Mine'
    BY SMTT(30), <2>1, LaunchersAssumption DEF InjectionInv, TypeOK, Stages, StagesOf, Mine,
       MineOf, Underway, At, Results, In, ThreadIs
  <2>6. OutcomeAsReported'
    BY <2>1, LaunchersAssumption DEF InjectionInv, TypeOK, Stages, StagesOf,
       Finished, FinishedOf, OutcomeAsReported, RunsAttached,
       SuspendedAsReported, Results, At, In, ThreadIs
  <2>7. BufferOutlivesReader'
    BY <2>1, LaunchersAssumption DEF InjectionInv, TypeOK, Stages, StagesOf,
       BufferOutlivesReader, At, Results, In, ThreadIs
  <2>8. OwnConfiguration'
    BY <2>1, LaunchersAssumption DEF InjectionInv, TypeOK, Stages, StagesOf,
       Finished, FinishedOf, Mine, MineOf, Underway, OwnConfiguration, At,
       Results, In, ThreadIs
  <2> QED
    BY <2>2, <2>3, <2>4, <2>5, <2>6, <2>7, <2>8 DEF InjectionInv
<1> QED
  BY <1>1, <1>2 DEF Load

LEMMA LibraryKeeps ==
  ASSUME InjectionInv, NEW i \in Launchers, Library(i)
  PROVE  InjectionInv'
<1>1. CASE Moves(i, "open")
  <2>1. /\ In(i, "library")
        /\ ThreadIs(i, "open", thread[i].code)
        /\ UNCHANGED <<options, launcher, main, buffer, mapping, config, attached, late, lapped>>
    BY <1>1, MovesTo, EndsAs DEF InjectionInv, Library, ThreadSteps
  <2>2. TypeOK'
    BY <2>1, LaunchersAssumption DEF InjectionInv, TypeOK, LauncherSteps,
       ThreadSteps, Results, Somebody, Options, Underway, At, In, ThreadIs
  <2>3. Stages'
    BY SMTT(30), <2>1, LaunchersAssumption DEF InjectionInv, TypeOK, Stages, StagesOf, At,
       Results, In, ThreadIs
  <2>4. Finished'
    BY <2>1, LaunchersAssumption DEF InjectionInv, TypeOK, Stages, StagesOf,
       Finished, FinishedOf, At, Results, In, ThreadIs
  <2>5. Mine'
    BY <2>1, LaunchersAssumption DEF InjectionInv, TypeOK, Stages, StagesOf, Mine,
       MineOf, Underway, At, Results, In, ThreadIs
  <2>6. OutcomeAsReported'
    BY <2>1, LaunchersAssumption DEF InjectionInv, TypeOK, Stages, StagesOf,
       Finished, FinishedOf, OutcomeAsReported, RunsAttached,
       SuspendedAsReported, Results, At, In, ThreadIs
  <2>7. BufferOutlivesReader'
    BY <2>1, LaunchersAssumption DEF InjectionInv, TypeOK, Stages, StagesOf,
       BufferOutlivesReader, At, Results, In, ThreadIs
  <2>8. OwnConfiguration'
    BY <2>1, LaunchersAssumption DEF InjectionInv, TypeOK, Stages, StagesOf,
       Finished, FinishedOf, Mine, MineOf, Underway, OwnConfiguration, At,
       Results, In, ThreadIs
  <2> QED
    BY <2>2, <2>3, <2>4, <2>5, <2>6, <2>7, <2>8 DEF InjectionInv
<1>2. CASE Ends(i, "zero")
  <2>1. /\ In(i, "library")
        /\ ThreadIs(i, "ended", "zero")
        /\ UNCHANGED <<options, launcher, main, buffer, mapping, config, attached, late, lapped>>
    BY <1>2, MovesTo, EndsAs DEF InjectionInv, Library, ThreadSteps
  <2>2. TypeOK'
    BY <2>1, LaunchersAssumption DEF InjectionInv, TypeOK, LauncherSteps,
       ThreadSteps, Results, Somebody, Options, Underway, At, In, ThreadIs
  <2>3. Stages'
    BY <2>1, LaunchersAssumption DEF InjectionInv, TypeOK, Stages, StagesOf, At,
       Results, In, ThreadIs
  <2>4. Finished'
    BY SMTT(30), <2>1, LaunchersAssumption DEF InjectionInv, TypeOK, Stages, StagesOf,
       Finished, FinishedOf, At, Results, In, ThreadIs
  <2>5. Mine'
    BY SMTT(30), <2>1, LaunchersAssumption DEF InjectionInv, TypeOK, Stages, StagesOf, Mine,
       MineOf, Underway, At, Results, In, ThreadIs
  <2>6. OutcomeAsReported'
    BY <2>1, LaunchersAssumption DEF InjectionInv, TypeOK, Stages, StagesOf,
       Finished, FinishedOf, OutcomeAsReported, RunsAttached,
       SuspendedAsReported, Results, At, In, ThreadIs
  <2>7. BufferOutlivesReader'
    BY <2>1, LaunchersAssumption DEF InjectionInv, TypeOK, Stages, StagesOf,
       BufferOutlivesReader, At, Results, In, ThreadIs
  <2>8. OwnConfiguration'
    BY <2>1, LaunchersAssumption DEF InjectionInv, TypeOK, Stages, StagesOf,
       Finished, FinishedOf, Mine, MineOf, Underway, OwnConfiguration, At,
       Results, In, ThreadIs
  <2> QED
    BY <2>2, <2>3, <2>4, <2>5, <2>6, <2>7, <2>8 DEF InjectionInv
<1> QED
  BY <1>1, <1>2 DEF Library

LEMMA OpenMappingKeeps ==
  ASSUME InjectionInv, NEW i \in Launchers, OpenMapping(i)
  PROVE  InjectionInv'
<1>1. CASE Moves(i, "configure") /\ mapping' = [mapping EXCEPT !.readers = @
            \cup {i}]
  <2>1. /\ In(i, "open")
        /\ ThreadIs(i, "configure", thread[i].code)
        /\ MappingIs(mapping.writers, mapping.readers \cup {i}, mapping.size, mapping.value)
        /\ UNCHANGED <<options, launcher, main, buffer, config, attached, late, lapped>>
    BY <1>1, MovesTo, EndsAs, MappingWritten DEF InjectionInv, OpenMapping,
       ThreadSteps
  <2>2. TypeOK'
    BY <2>1, LaunchersAssumption DEF InjectionInv, TypeOK, LauncherSteps,
       ThreadSteps, Results, Somebody, Options, Underway, At, In, ThreadIs,
       MappingIs
  <2>3. Stages'
    BY <2>1, LaunchersAssumption DEF InjectionInv, TypeOK, Stages, StagesOf, At,
       Results, In, ThreadIs, MappingIs
  <2>4. Finished'
    BY <2>1, LaunchersAssumption DEF InjectionInv, TypeOK, Stages, StagesOf,
       Finished, FinishedOf, At, Results, In, ThreadIs, MappingIs
  <2>5. Mine'
    BY SMTT(30), <2>1, LaunchersAssumption DEF InjectionInv, TypeOK, Stages, StagesOf, Mine,
       MineOf, Underway, At, Results, In, ThreadIs, MappingIs
  <2>6. OutcomeAsReported'
    BY <2>1, LaunchersAssumption DEF InjectionInv, TypeOK, Stages, StagesOf,
       Finished, FinishedOf, OutcomeAsReported, RunsAttached,
       SuspendedAsReported, Results, At, In, ThreadIs, MappingIs
  <2>7. BufferOutlivesReader'
    BY <2>1, LaunchersAssumption DEF InjectionInv, TypeOK, Stages, StagesOf,
       BufferOutlivesReader, At, Results, In, ThreadIs, MappingIs
  <2>8. OwnConfiguration'
    BY <2>1, LaunchersAssumption DEF InjectionInv, TypeOK, Stages, StagesOf,
       Finished, FinishedOf, Mine, MineOf, Underway, OwnConfiguration, At,
       Results, In, ThreadIs, MappingIs
  <2> QED
    BY <2>2, <2>3, <2>4, <2>5, <2>6, <2>7, <2>8 DEF InjectionInv
<1>2. CASE Ends(i, "zero") /\ UNCHANGED mapping
  <2>1. /\ In(i, "open")
        /\ ThreadIs(i, "ended", "zero")
        /\ UNCHANGED <<options, launcher, main, buffer, mapping, config, attached, late, lapped>>
    BY <1>2, MovesTo, EndsAs DEF InjectionInv, OpenMapping, ThreadSteps
  <2>2. TypeOK'
    BY <2>1, LaunchersAssumption DEF InjectionInv, TypeOK, LauncherSteps,
       ThreadSteps, Results, Somebody, Options, Underway, At, In, ThreadIs
  <2>3. Stages'
    BY <2>1, LaunchersAssumption DEF InjectionInv, TypeOK, Stages, StagesOf, At,
       Results, In, ThreadIs
  <2>4. Finished'
    BY SMTT(30), <2>1, LaunchersAssumption DEF InjectionInv, TypeOK, Stages, StagesOf,
       Finished, FinishedOf, At, Results, In, ThreadIs
  <2>5. Mine'
    BY SMTT(30), <2>1, LaunchersAssumption DEF InjectionInv, TypeOK, Stages, StagesOf, Mine,
       MineOf, Underway, At, Results, In, ThreadIs
  <2>6. OutcomeAsReported'
    BY <2>1, LaunchersAssumption DEF InjectionInv, TypeOK, Stages, StagesOf,
       Finished, FinishedOf, OutcomeAsReported, RunsAttached,
       SuspendedAsReported, Results, At, In, ThreadIs
  <2>7. BufferOutlivesReader'
    BY <2>1, LaunchersAssumption DEF InjectionInv, TypeOK, Stages, StagesOf,
       BufferOutlivesReader, At, Results, In, ThreadIs
  <2>8. OwnConfiguration'
    BY <2>1, LaunchersAssumption DEF InjectionInv, TypeOK, Stages, StagesOf,
       Finished, FinishedOf, Mine, MineOf, Underway, OwnConfiguration, At,
       Results, In, ThreadIs
  <2> QED
    BY <2>2, <2>3, <2>4, <2>5, <2>6, <2>7, <2>8 DEF InjectionInv
<1> QED
  BY <1>1, <1>2 DEF OpenMapping

LEMMA ConfigureKeeps ==
  ASSUME InjectionInv, NEW i \in Launchers, Configure(i)
  PROVE  InjectionInv'
<1>1. CASE Readable /\ UNCHANGED mapping /\ Moves(i, "init") /\ config' =
            [config EXCEPT ![i].wrapper = mapping.value]
  <2>1. /\ In(i, "configure")
        /\ Readable
        /\ ThreadIs(i, "init", thread[i].code)
        /\ ConfigIs(i, mapping.value, config[i].loader)
        /\ UNCHANGED <<options, launcher, main, buffer, mapping, attached, late, lapped>>
    BY <1>1, MovesTo, EndsAs, ConfigWritten DEF InjectionInv, Configure,
       ThreadSteps, TypeOK, Somebody
  <2>2. TypeOK'
    BY <2>1, LaunchersAssumption DEF InjectionInv, TypeOK, LauncherSteps,
       ThreadSteps, Results, Somebody, Options, Underway, At, Readable, In,
       ThreadIs, ConfigIs
  <2>3. Stages'
    BY <2>1, LaunchersAssumption DEF InjectionInv, TypeOK, Stages, StagesOf, At,
       Results, Readable, In, ThreadIs, ConfigIs
  <2>4. Finished'
    BY <2>1, LaunchersAssumption DEF InjectionInv, TypeOK, Stages, StagesOf,
       Finished, FinishedOf, At, Results, Readable, In, ThreadIs, ConfigIs
  <2>5. Mine'
    <3>1. ASSUME NEW j \in Launchers, j \in Underway', j \notin lapped'
           PROVE  MineOf(j)'
      <4>1. CASE j = i
        BY <2>1, <3>1, <4>1, LaunchersAssumption DEF InjectionInv, Stages, StagesOf,
           Mine, MineOf, Underway, At, Results, ThreadIs, ConfigIs, In, Readable
      <4>2. CASE j # i
        BY <2>1, <3>1, <4>2, LaunchersAssumption DEF InjectionInv, Stages, StagesOf,
           Mine, MineOf, Underway, At, Results, ThreadIs, ConfigIs, In, Readable
      <4> QED
        BY <4>1, <4>2
    <3> QED
      BY <3>1 DEF Mine, Underway
  <2>6. OutcomeAsReported'
    BY <2>1, LaunchersAssumption DEF InjectionInv, TypeOK, Stages, StagesOf,
       Finished, FinishedOf, OutcomeAsReported, RunsAttached,
       SuspendedAsReported, Results, At, Readable, In, ThreadIs, ConfigIs
  <2>7. BufferOutlivesReader'
    BY <2>1, LaunchersAssumption DEF InjectionInv, TypeOK, Stages, StagesOf,
       BufferOutlivesReader, At, Results, Readable, In, ThreadIs, ConfigIs
  <2>8. OwnConfiguration'
    <3>1. ASSUME NEW j \in Launchers, j \in attached', j \notin lapped'
           PROVE  config'[j] = [wrapper |-> j, loader |-> j]
      <4>1. CASE j = i
        BY <2>1, <3>1, <4>1, LaunchersAssumption DEF InjectionInv, Stages, StagesOf,
           Finished, FinishedOf, Mine, MineOf, Underway, OwnConfiguration, At,
           Results, ThreadIs, ConfigIs, In, Readable
      <4>2. CASE j # i
        BY <2>1, <3>1, <4>2, LaunchersAssumption DEF InjectionInv, OwnConfiguration, At,
           Results, ConfigIs
      <4> QED
        BY <4>1, <4>2
    <3> QED
      BY <3>1, <2>2 DEF OwnConfiguration, TypeOK
  <2> QED
    BY <2>2, <2>3, <2>4, <2>5, <2>6, <2>7, <2>8 DEF InjectionInv
<1>2. CASE Ends(i, "zero") /\ mapping' = Closed(i) /\ UNCHANGED config
  <2>1. /\ In(i, "configure")
        /\ ThreadIs(i, "ended", "zero")
        /\ MappingLeft(mapping.writers)
        /\ UNCHANGED <<options, launcher, main, buffer, config, attached, late, lapped>>
    BY <1>2, MovesTo, EndsAs, MappingClosed DEF InjectionInv, Configure, ThreadSteps
  <2>2. TypeOK'
    BY <2>1, LaunchersAssumption DEF InjectionInv, TypeOK, LauncherSteps,
       ThreadSteps, Results, Somebody, Options, Underway, At, In, ThreadIs,
       MappingLeft
  <2>3. Stages'
    BY SMTT(30), <2>1, LaunchersAssumption DEF InjectionInv, TypeOK, Stages, StagesOf, At,
       Results, In, ThreadIs, MappingLeft
  <2>4. Finished'
    <3>1. ASSUME NEW j \in Launchers
           PROVE  FinishedOf(j)'
      <4>1. CASE j = i
        BY <2>1, <3>1, <4>1, LaunchersAssumption DEF InjectionInv, Stages, StagesOf,
           Finished, FinishedOf, At, Results, ThreadIs, MappingLeft, In
      <4>2. CASE j # i
        BY <2>1, <3>1, <4>2, LaunchersAssumption DEF InjectionInv, Stages, StagesOf,
           Finished, FinishedOf, At, Results, ThreadIs, MappingLeft, In
      <4> QED
        BY <4>1, <4>2
    <3> QED
      BY <3>1 DEF Finished
  <2>5. Mine'
    <3>1. ASSUME NEW j \in Launchers, j \in Underway', j \notin lapped'
           PROVE  MineOf(j)'
      <4>1. CASE j = i
        BY <2>1, <3>1, <4>1, LaunchersAssumption DEF InjectionInv, Stages, StagesOf,
           Mine, MineOf, Underway, At, Results, ThreadIs, MappingLeft, In
      <4>2. CASE j # i
        BY <2>1, <3>1, <4>2, LaunchersAssumption DEF InjectionInv, Stages, StagesOf,
           Mine, MineOf, Underway, At, Results, ThreadIs, MappingLeft, In
      <4> QED
        BY <4>1, <4>2
    <3> QED
      BY <3>1 DEF Mine, Underway
  <2>6. OutcomeAsReported'
    BY <2>1, LaunchersAssumption DEF InjectionInv, TypeOK, Stages, StagesOf,
       Finished, FinishedOf, OutcomeAsReported, RunsAttached,
       SuspendedAsReported, Results, At, In, ThreadIs, MappingLeft
  <2>7. BufferOutlivesReader'
    BY SMTT(30), <2>1, LaunchersAssumption DEF InjectionInv, TypeOK, Stages, StagesOf,
       BufferOutlivesReader, At, Results, In, ThreadIs, MappingLeft
  <2>8. OwnConfiguration'
    BY <2>1, LaunchersAssumption DEF InjectionInv, TypeOK, Stages, StagesOf,
       Finished, FinishedOf, Mine, MineOf, Underway, OwnConfiguration, At,
       Results, In, ThreadIs, MappingLeft
  <2> QED
    BY <2>2, <2>3, <2>4, <2>5, <2>6, <2>7, <2>8 DEF InjectionInv
<1> QED
  BY <1>1, <1>2 DEF Configure

LEMMA CallInitKeeps ==
  ASSUME InjectionInv, NEW i \in Launchers, CallInit(i)
  PROVE  InjectionInv'
<1>1. CASE Readable /\ Ends(i, "other") /\ attached' = attached \cup {i}
  <2>1. /\ In(i, "init")
        /\ Readable
        /\ ThreadIs(i, "ended", "other")
        /\ attached' = attached \cup {i}
        /\ ConfigIs(i, config[i].wrapper, mapping.value)
        /\ MappingLeft(mapping.writers)
        /\ UNCHANGED <<options, launcher, main, buffer, late, lapped>>
    BY <1>1, MovesTo, EndsAs, ConfigWritten, MappingClosed DEF InjectionInv,
       CallInit, ThreadSteps, TypeOK, Somebody
  <2>2. TypeOK'
    BY <2>1, LaunchersAssumption DEF InjectionInv, TypeOK, LauncherSteps,
       ThreadSteps, Results, Somebody, Options, Underway, At, Readable, In,
       ThreadIs, ConfigIs, MappingLeft
  <2>3. Stages'
    BY SMTT(30), <2>1, LaunchersAssumption DEF InjectionInv, TypeOK, Stages, StagesOf, At,
       Results, Readable, In, ThreadIs, ConfigIs, MappingLeft
  <2>4. Finished'
    <3>1. ASSUME NEW j \in Launchers
           PROVE  FinishedOf(j)'
      <4>1. CASE j = i
        BY <2>1, <3>1, <4>1, LaunchersAssumption DEF InjectionInv, Stages, StagesOf,
           Finished, FinishedOf, At, Results, ThreadIs, ConfigIs, MappingLeft,
           In, Readable
      <4>2. CASE j # i
        BY <2>1, <3>1, <4>2, LaunchersAssumption DEF InjectionInv, Stages, StagesOf,
           Finished, FinishedOf, At, Results, ThreadIs, ConfigIs, MappingLeft,
           In, Readable
      <4> QED
        BY <4>1, <4>2
    <3> QED
      BY <3>1 DEF Finished
  <2>5. Mine'
    <3>1. ASSUME NEW j \in Launchers, j \in Underway', j \notin lapped'
           PROVE  MineOf(j)'
      <4>1. CASE j = i
        BY <2>1, <3>1, <4>1, LaunchersAssumption DEF InjectionInv, Stages, StagesOf,
           Mine, MineOf, Underway, At, Results, ThreadIs, ConfigIs, MappingLeft,
           In, Readable
      <4>2. CASE j # i
        BY <2>1, <3>1, <4>2, LaunchersAssumption DEF InjectionInv, Stages, StagesOf,
           Mine, MineOf, Underway, At, Results, ThreadIs, ConfigIs, MappingLeft,
           In, Readable
      <4> QED
        BY <4>1, <4>2
    <3> QED
      BY <3>1 DEF Mine, Underway
  <2>6. OutcomeAsReported'
    BY <2>1, LaunchersAssumption DEF InjectionInv, TypeOK, Stages, StagesOf,
       Finished, FinishedOf, OutcomeAsReported, RunsAttached,
       SuspendedAsReported, Results, At, Readable, In, ThreadIs, ConfigIs,
       MappingLeft
  <2>7. BufferOutlivesReader'
    BY <2>1, LaunchersAssumption DEF InjectionInv, TypeOK, Stages, StagesOf,
       BufferOutlivesReader, At, Results, Readable, In, ThreadIs, ConfigIs,
       MappingLeft
  <2>8. OwnConfiguration'
    <3>1. ASSUME NEW j \in Launchers, j \in attached', j \notin lapped'
           PROVE  config'[j] = [wrapper |-> j, loader |-> j]
      <4>1. CASE j = i
        BY <2>1, <3>1, <4>1, LaunchersAssumption DEF InjectionInv, Stages, StagesOf,
           Finished, FinishedOf, Mine, MineOf, Underway, OwnConfiguration, At,
           Results, ThreadIs, ConfigIs, MappingLeft, In, Readable
      <4>2. CASE j # i
        BY <2>1, <3>1, <4>2, LaunchersAssumption DEF InjectionInv, OwnConfiguration, At,
           Results, ConfigIs
      <4> QED
        BY <4>1, <4>2
    <3> QED
      BY <3>1, <2>2 DEF OwnConfiguration, TypeOK
  <2> QED
    BY <2>2, <2>3, <2>4, <2>5, <2>6, <2>7, <2>8 DEF InjectionInv
<1>2. CASE Ends(i, "zero") /\ UNCHANGED attached
  <2>1. /\ In(i, "init")
        /\ ThreadIs(i, "ended", "zero")
        /\ ConfigIs(i, config[i].wrapper, mapping.value)
        /\ MappingLeft(mapping.writers)
        /\ UNCHANGED <<options, launcher, main, buffer, attached, late, lapped>>
    BY <1>2, MovesTo, EndsAs, ConfigWritten, MappingClosed DEF InjectionInv,
       CallInit, ThreadSteps, TypeOK, Somebody
  <2>2. TypeOK'
    BY <2>1, LaunchersAssumption DEF InjectionInv, TypeOK, LauncherSteps,
       ThreadSteps, Results, Somebody, Options, Underway, At, In, ThreadIs,
       ConfigIs, MappingLeft
  <2>3. Stages'
    BY <2>1, LaunchersAssumption DEF InjectionInv, TypeOK, Stages, StagesOf, At,
       Results, In, ThreadIs, ConfigIs, MappingLeft
  <2>4. Finished'
    <3>1. ASSUME NEW j \in Launchers
           PROVE  FinishedOf(j)'
      <4>1. CASE j = i
        BY <2>1, <3>1, <4>1, LaunchersAssumption DEF InjectionInv, Stages, StagesOf,
           Finished, FinishedOf, At, Results, ThreadIs, ConfigIs, MappingLeft,
           In
      <4>2. CASE j # i
        BY <2>1, <3>1, <4>2, LaunchersAssumption DEF InjectionInv, Stages, StagesOf,
           Finished, FinishedOf, At, Results, ThreadIs, ConfigIs, MappingLeft,
           In
      <4> QED
        BY <4>1, <4>2
    <3> QED
      BY <3>1 DEF Finished
  <2>5. Mine'
    <3>1. ASSUME NEW j \in Launchers, j \in Underway', j \notin lapped'
           PROVE  MineOf(j)'
      <4>1. CASE j = i
        BY <2>1, <3>1, <4>1, LaunchersAssumption DEF InjectionInv, Stages, StagesOf,
           Mine, MineOf, Underway, At, Results, ThreadIs, ConfigIs, MappingLeft,
           In
      <4>2. CASE j # i
        BY <2>1, <3>1, <4>2, LaunchersAssumption DEF InjectionInv, Stages, StagesOf,
           Mine, MineOf, Underway, At, Results, ThreadIs, ConfigIs, MappingLeft,
           In
      <4> QED
        BY <4>1, <4>2
    <3> QED
      BY <3>1 DEF Mine, Underway
  <2>6. OutcomeAsReported'
    BY <2>1, LaunchersAssumption DEF InjectionInv, TypeOK, Stages, StagesOf,
       Finished, FinishedOf, OutcomeAsReported, RunsAttached,
       SuspendedAsReported, Results, At, In, ThreadIs, ConfigIs, MappingLeft
  <2>7. BufferOutlivesReader'
    BY SMTT(30), <2>1, LaunchersAssumption DEF InjectionInv, TypeOK, Stages, StagesOf,
       BufferOutlivesReader, At, Results, In, ThreadIs, ConfigIs, MappingLeft
  <2>8. OwnConfiguration'
    <3>1. ASSUME NEW j \in Launchers, j \in attached', j \notin lapped'
           PROVE  config'[j] = [wrapper |-> j, loader |-> j]
      <4>1. CASE j = i
        BY <2>1, <3>1, <4>1, LaunchersAssumption DEF InjectionInv, Stages, StagesOf,
           Finished, FinishedOf, Mine, MineOf, Underway, OwnConfiguration, At,
           Results, ThreadIs, ConfigIs, MappingLeft, In
      <4>2. CASE j # i
        BY <2>1, <3>1, <4>2, LaunchersAssumption DEF InjectionInv, OwnConfiguration, At,
           Results, ConfigIs
      <4> QED
        BY <4>1, <4>2
    <3> QED
      BY <3>1, <2>2 DEF OwnConfiguration, TypeOK
  <2> QED
    BY <2>2, <2>3, <2>4, <2>5, <2>6, <2>7, <2>8 DEF InjectionInv
<1> QED
  BY <1>1, <1>2 DEF CallInit

LEMMA GameDiesKeeps ==
  ASSUME InjectionInv, NEW i \in Launchers, GameDies(i)
  PROVE  InjectionInv'
<1>1. CASE thread[i].at \in {"none", "ended"} /\ UNCHANGED thread
  <2>1. /\ main[i] \in {"suspended", "running"}
        /\ thread[i].at \in {"none", "ended"}
        /\ main' = [main EXCEPT ![i] = "dead"]
        /\ MappingLeft(mapping.writers)
        /\ UNCHANGED <<options, launcher, buffer, thread, config, attached, late, lapped>>
    BY <1>1, MappingClosed DEF InjectionInv, GameDies
  <2>2. TypeOK'
    BY <2>1, LaunchersAssumption DEF InjectionInv, TypeOK, LauncherSteps,
       ThreadSteps, Results, Somebody, Options, Underway, At, MappingLeft
  <2>3. Stages'
    BY <2>1, LaunchersAssumption DEF InjectionInv, TypeOK, Stages, StagesOf, At,
       Results, MappingLeft
  <2>4. Finished'
    BY <2>1, LaunchersAssumption DEF InjectionInv, TypeOK, Stages, StagesOf,
       Finished, FinishedOf, At, Results, MappingLeft
  <2>5. Mine'
    BY <2>1, LaunchersAssumption DEF InjectionInv, TypeOK, Stages, StagesOf, Mine,
       MineOf, Underway, At, Results, MappingLeft
  <2>6. OutcomeAsReported'
    BY <2>1, LaunchersAssumption DEF InjectionInv, TypeOK, Stages, StagesOf,
       Finished, FinishedOf, OutcomeAsReported, RunsAttached,
       SuspendedAsReported, Results, At, MappingLeft
  <2>7. BufferOutlivesReader'
    BY <2>1, LaunchersAssumption DEF InjectionInv, TypeOK, Stages, StagesOf,
       BufferOutlivesReader, At, Results, MappingLeft
  <2>8. OwnConfiguration'
    BY <2>1, LaunchersAssumption DEF InjectionInv, TypeOK, Stages, StagesOf,
       Finished, FinishedOf, Mine, MineOf, Underway, OwnConfiguration, At,
       Results, MappingLeft
  <2> QED
    BY <2>2, <2>3, <2>4, <2>5, <2>6, <2>7, <2>8 DEF InjectionInv
<1>2. CASE thread[i].at \notin {"none", "ended"} /\ Ends(i, "other")
  <2>1. /\ main[i] \in {"suspended", "running"}
        /\ thread[i].at \notin {"none", "ended"}
        /\ main' = [main EXCEPT ![i] = "dead"]
        /\ ThreadIs(i, "ended", "other")
        /\ MappingLeft(mapping.writers)
        /\ UNCHANGED <<options, launcher, buffer, config, attached, late, lapped>>
    BY <1>2, MovesTo, EndsAs, MappingClosed DEF InjectionInv, GameDies, ThreadSteps
  <2>2. TypeOK'
    BY <2>1, LaunchersAssumption DEF InjectionInv, TypeOK, LauncherSteps,
       ThreadSteps, Results, Somebody, Options, Underway, At, ThreadIs,
       MappingLeft
  <2>3. Stages'
    <3>1. ASSUME NEW j \in Launchers
           PROVE  StagesOf(j)'
      <4>1. CASE j = i
        BY <2>1, <3>1, <4>1, LaunchersAssumption DEF InjectionInv, TypeOK, Stages,
           StagesOf, At, Results, ThreadIs, MappingLeft
      <4>2. CASE j # i
        BY <2>1, <3>1, <4>2, LaunchersAssumption DEF InjectionInv, TypeOK, Stages,
           StagesOf, At, Results, ThreadIs, MappingLeft
      <4> QED
        BY <4>1, <4>2
    <3> QED
      BY <3>1 DEF Stages
  <2>4. Finished'
    BY <2>1, LaunchersAssumption DEF InjectionInv, TypeOK, Stages, StagesOf,
       Finished, FinishedOf, At, Results, ThreadIs, MappingLeft
  <2>5. Mine'
    BY <2>1, LaunchersAssumption DEF InjectionInv, TypeOK, Stages, StagesOf, Mine,
       MineOf, Underway, At, Results, ThreadIs, MappingLeft
  <2>6. OutcomeAsReported'
    BY <2>1, LaunchersAssumption DEF InjectionInv, TypeOK, Stages, StagesOf,
       Finished, FinishedOf, OutcomeAsReported, RunsAttached,
       SuspendedAsReported, Results, At, ThreadIs, MappingLeft
  <2>7. BufferOutlivesReader'
    BY <2>1, LaunchersAssumption DEF InjectionInv, TypeOK, Stages, StagesOf,
       BufferOutlivesReader, At, Results, ThreadIs, MappingLeft
  <2>8. OwnConfiguration'
    BY <2>1, LaunchersAssumption DEF InjectionInv, TypeOK, Stages, StagesOf,
       Finished, FinishedOf, Mine, MineOf, Underway, OwnConfiguration, At,
       Results, ThreadIs, MappingLeft
  <2> QED
    BY <2>2, <2>3, <2>4, <2>5, <2>6, <2>7, <2>8 DEF InjectionInv
<1> QED
  BY <1>1, <1>2 DEF GameDies

-----------------------------------------------------------------------------

\* Who holds what at each point of a launch, for any number of launches; the
\* theorems below are read off it.
THEOREM InjectionInvariant == Spec => []InjectionInv
<1>1. Init => InjectionInv
  BY LaunchersAssumption DEF Init, InjectionInv, TypeOK, Stages, StagesOf, Finished, FinishedOf, Mine, MineOf,
     Underway,
     OutcomeAsReported, RunsAttached, SuspendedAsReported, BufferOutlivesReader,
     OwnConfiguration, At, Results, LauncherSteps, ThreadSteps, Somebody, NoMapping
<1>2. InjectionInv /\ [Next]_vars => InjectionInv'
  <2>1. ASSUME InjectionInv, NEW i \in Launchers, LauncherStep(i)
        PROVE  InjectionInv'
    BY <2>1, SpawnKeeps, WriteSizeKeeps, WriteValueKeeps, WriteRefusedKeeps,
       AllocateKeeps, WritePathKeeps, StartThreadKeeps, ThreadEndedKeeps,
       TimesOutKeeps, ResumeKeeps DEF LauncherStep
  <2>2. ASSUME InjectionInv, NEW i \in Launchers, ThreadStep(i)
        PROVE  InjectionInv'
    BY <2>2, LoadKeeps, LibraryKeeps, OpenMappingKeeps, ConfigureKeeps,
       CallInitKeeps DEF ThreadStep
  <2>3. ASSUME InjectionInv, UNCHANGED vars
        PROVE  InjectionInv'
    BY <2>3 DEF vars, InjectionInv, TypeOK, Stages, StagesOf, Finished, FinishedOf, Mine, MineOf,
     Underway,
       OutcomeAsReported, RunsAttached, SuspendedAsReported, BufferOutlivesReader,
       OwnConfiguration, At
  <2> QED
    BY <2>1, <2>2, <2>3, WaitFailsKeeps, ExitKeeps, GameDiesKeeps DEF Next
<1> QED
  BY <1>1, <1>2, PTL DEF Spec

\* Every variable keeps its type, for any number of launchers and whatever
\* their command lines are.
THEOREM TypeCorrect == Spec => []TypeOK
<1>1. InjectionInv => TypeOK
  BY DEF InjectionInv
<1> QED
  BY <1>1, InjectionInvariant, PTL

\* What a launcher reports is what became of its game, for any number of
\* launchers: nothing runs that was reported as failed, and what was waited
\* for runs only with the modloader in it (process.rs:190-273).
THEOREM OutcomeCorrect == Spec => []OutcomeAsReported
<1>1. InjectionInv => OutcomeAsReported
  BY DEF InjectionInv
<1> QED
  BY <1>1, InjectionInvariant, PTL

\* The path is freed under the thread that reads it only when the launcher
\* gave up waiting, which it reports (inject.rs:99-117).
THEOREM BufferKept == Spec => []BufferOutlivesReader
<1>1. InjectionInv => BufferOutlivesReader
  BY DEF InjectionInv
<1> QED
  BY <1>1, InjectionInvariant, PTL

\* Any number of launches at once: a game is configured as its own launcher was
\* told unless another one wrote the mapping in between (shared_memory.rs:30).
THEOREM ConfiguredAsTold == Spec => []OwnConfiguration
<1>1. InjectionInv => OwnConfiguration
  BY DEF InjectionInv
<1> QED
  BY <1>1, InjectionInvariant, PTL
=============================================================================
