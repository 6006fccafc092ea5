----------------------------- MODULE Injection -----------------------------
(***************************************************************************)
(* How a game is started with the wrapper in it: the launcher              *)
(* (launcher/windows/process.rs, inject.rs, shared_memory.rs) creates the  *)
(* game suspended, leaves the configuration in a file mapping, has a       *)
(* thread in the game load the wrapper and resumes the game; that thread   *)
(* runs the wrapper's attach (wrapper.cpp), which loads the modloader and  *)
(* hands it the configuration.  Several launchers may run at once; all of  *)
(* them use one name for the mapping.                                      *)
(*                                                                         *)
(* The launcher always launches with injection: args.play is always true.  *)
(* External: Windows.  Creating a mapping of a name that exists opens it;  *)
(* a mapping lives until its last handle is closed, at the latest by the   *)
(* end of the process; the main thread of a dead game cannot be resumed.   *)
(***************************************************************************)
EXTENDS Naturals, FiniteSets

CONSTANTS
    Launchers,    \* each with the game it starts; 0 is none of them
    CommandLines  \* launcher -> the options it may be given

Options == [wait : BOOLEAN, timed : BOOLEAN, suspend : BOOLEAN]

ASSUME LaunchersAssumption ==
    /\ 0 \notin Launchers
    /\ CommandLines \in [Launchers -> SUBSET Options]

VARIABLES
    options,   \* launcher -> wait, timed, suspend: its command line
    launcher,  \* launcher -> what it does next, or its result
    main,      \* launcher -> the game's main thread
    buffer,    \* launcher -> the path of the wrapper in the game's memory
    thread,    \* launcher -> where the remote thread is, and its exit code
    mapping,   \* Local\MySharedData: who holds it, and whose size and value
    config,    \* launcher -> whose configuration the wrapper and init read
    attached,  \* games in which init succeeded
    late,      \* history: games that read the path after it was freed
    lapped     \* history: launches whose mapping was not, or not only, their own

vars == <<options, launcher, main, buffer, thread, mapping, config, attached,
          late, lapped>>

Results == {"ok", "failed"}
LauncherSteps == {"spawn", "size", "value", "alloc", "path", "start", "wait",
                  "resume"} \cup Results
ThreadSteps == {"none", "load", "library", "open", "configure", "init", "ended"}
Somebody == Launchers \cup {0}

NoMapping == [writers |-> {}, readers |-> {}, size |-> 0, value |-> 0]

TypeOK ==
    /\ options \in [Launchers -> Options]
    /\ launcher \in [Launchers -> LauncherSteps]
    /\ main \in [Launchers -> {"none", "suspended", "running", "dead"}]
    /\ buffer \in [Launchers -> {"none", "allocated", "freed"}]
    /\ thread \in [Launchers -> [at : ThreadSteps, code : {"zero", "other"}]]
    /\ mapping \in [writers : SUBSET Launchers, readers : SUBSET Launchers,
                    size : Somebody, value : Somebody]
    /\ config \in [Launchers -> [wrapper : Somebody, loader : Somebody]]
    /\ attached \subseteq Launchers
    /\ late \subseteq Launchers /\ lapped \subseteq Launchers

Init ==
    /\ options \in {o \in [Launchers -> Options] :
                      \A i \in Launchers : o[i] \in CommandLines[i]}
    /\ launcher = [i \in Launchers |-> "spawn"]
    /\ main = [i \in Launchers |-> "none"]
    /\ buffer = [i \in Launchers |-> "none"]
    /\ thread = [i \in Launchers |-> [at |-> "none", code |-> "zero"]]
    /\ mapping = NoMapping
    /\ config = [i \in Launchers |-> [wrapper |-> 0, loader |-> 0]]
    /\ attached = {} /\ late = {} /\ lapped = {}

\* The mapping goes with its last handle.
Held(m) == IF m.writers \cup m.readers = {} THEN NoMapping ELSE m

At(i, step) == launcher[i] = step
Goes(i, step) == launcher' = [launcher EXCEPT ![i] = step]

-----------------------------------------------------------------------------
(* launch_with_injection and write_shared_string.                          *)

Spawn(i) ==
    /\ At(i, "spawn")
    /\ \/ Goes(i, "size") /\ main' = [main EXCEPT ![i] = "suspended"]
       \/ Goes(i, "failed") /\ UNCHANGED main
    /\ UNCHANGED <<options, buffer, thread, mapping, config, attached, late, lapped>>

\* Launches that have written and whose game has not read yet.
Underway == {i \in Launchers : /\ launcher[i] \notin {"spawn", "size"}
                               /\ thread[i].at # "ended"
                               /\ main[i] # "none"}

\* Faulty: counts the end of the text as well.
WriteSize_OneMore(i) ==
    /\ At(i, "size")
    /\ mapping' = [mapping EXCEPT !.writers = @ \cup {i}, !.size = i + 1]
    /\ lapped' = lapped \cup (Underway \ {i})
    /\ Goes(i, "value")
    /\ UNCHANGED <<options, main, buffer, thread, config, attached, late>>

WriteSize(i) ==
    /\ At(i, "size")
    /\ mapping' = [mapping EXCEPT !.writers = @ \cup {i}, !.size = i]
    /\ lapped' = lapped \cup (Underway \ {i})
    /\ Goes(i, "value")
    /\ UNCHANGED <<options, main, buffer, thread, config, attached, late>>

\* Faulty: a value that is there is left alone.
WriteValue_Kept(i) ==
    /\ At(i, "value")
    /\ mapping' = [mapping EXCEPT !.value = IF @ = 0 THEN i ELSE @]
    /\ lapped' = lapped \cup (Underway \ {i})
    /\ Goes(i, "alloc")
    /\ UNCHANGED <<options, main, buffer, thread, config, attached, late>>

WriteValue(i) ==
    /\ At(i, "value")
    /\ mapping' = [mapping EXCEPT !.value = i]
    /\ lapped' = lapped \cup (Underway \ {i})
    /\ Goes(i, "alloc")
    /\ UNCHANGED <<options, main, buffer, thread, config, attached, late>>

\* The mapping cannot be created, or one that exists is too small: a warning.
WriteRefused(i) ==
    /\ At(i, "size")
    /\ lapped' = lapped \cup {i}
    /\ Goes(i, "alloc")
    /\ UNCHANGED <<options, main, buffer, thread, mapping, config, attached, late>>

-----------------------------------------------------------------------------
(* inject_dll.                                                             *)

Allocate(i) ==
    /\ At(i, "alloc")
    /\ \/ Goes(i, "path") /\ buffer' = [buffer EXCEPT ![i] = "allocated"]
       \/ Goes(i, "failed") /\ UNCHANGED buffer
    /\ UNCHANGED <<options, main, thread, mapping, config, attached, late, lapped>>

\* Every error frees the buffer, as does the end of the wait.
GivesUp(i) ==
    /\ buffer' = [buffer EXCEPT ![i] = "freed"]
    /\ Goes(i, "failed")
    /\ UNCHANGED <<options, main, thread, mapping, config, attached, late, lapped>>

WritePath(i) ==
    /\ At(i, "path")
    /\ \/ /\ Goes(i, "start")
          /\ UNCHANGED <<options, main, buffer, thread, mapping, config, attached,
                         late, lapped>>
       \/ GivesUp(i)

\* Faulty: the buffer is freed also when nobody waits for the thread.
StartThread_Frees(i) ==
    /\ At(i, "start")
    /\ thread' = [thread EXCEPT ![i].at = "load"]
    /\ Goes(i, IF options[i].wait THEN "wait" ELSE "resume")
    /\ buffer' = IF options[i].wait THEN buffer ELSE [buffer EXCEPT ![i] = "freed"]
    /\ UNCHANGED <<options, main, mapping, config, attached, late, lapped>>

StartThread(i) ==
    /\ At(i, "start")
    /\ \/ /\ thread' = [thread EXCEPT ![i].at = "load"]
          /\ Goes(i, IF options[i].wait THEN "wait" ELSE "resume")
          /\ UNCHANGED <<options, main, buffer, mapping, config, attached, late, lapped>>
       \/ GivesUp(i)

\* Faulty: the exit code is not looked at.
ThreadEnded_NoCode(i) ==
    /\ At(i, "wait")
    /\ thread[i].at = "ended"
    /\ buffer' = [buffer EXCEPT ![i] = "freed"]
    /\ Goes(i, "resume")
    /\ UNCHANGED <<options, main, thread, mapping, config, attached, late, lapped>>

ThreadEnded(i) ==
    /\ At(i, "wait")
    /\ thread[i].at = "ended"
    /\ buffer' = [buffer EXCEPT ![i] = "freed"]
    /\ Goes(i, IF thread[i].code = "zero" THEN "failed" ELSE "resume")
    /\ UNCHANGED <<options, main, thread, mapping, config, attached, late, lapped>>

\* Faulty: the timeout is not passed on.
TimesOut_Never(i) == FALSE /\ GivesUp(i)

TimesOut(i) ==
    /\ At(i, "wait")
    /\ options[i].timed
    /\ thread[i].at # "ended"
    /\ GivesUp(i)

\* WaitForSingleObject or GetExitCodeThread.
WaitFails(i) == At(i, "wait") /\ GivesUp(i)

Resume(i) ==
    /\ At(i, "resume")
    /\ \/ options[i].suspend /\ Goes(i, "ok") /\ UNCHANGED main
       \/ /\ ~options[i].suspend /\ main[i] = "suspended"
          /\ Goes(i, "ok") /\ main' = [main EXCEPT ![i] = "running"]
       \/ ~options[i].suspend /\ Goes(i, "failed") /\ UNCHANGED main
    /\ UNCHANGED <<options, buffer, thread, mapping, config, attached, late, lapped>>

\* The handle that write_shared_string made is closed by the end of the process.
Exit(i) ==
    /\ launcher[i] \in Results
    /\ i \in mapping.writers
    /\ mapping' = Held([mapping EXCEPT !.writers = @ \ {i}])
    /\ UNCHANGED <<options, launcher, main, buffer, thread, config, attached,
                   late, lapped>>

LauncherStep(i) ==
    \/ Spawn(i) \/ WriteSize(i) \/ WriteValue(i) \/ WriteRefused(i)
    \/ Allocate(i) \/ WritePath(i) \/ StartThread(i)
    \/ ThreadEnded(i) \/ TimesOut(i) \/ Resume(i)

-----------------------------------------------------------------------------
(* The remote thread: LoadLibraryW, DllMain and attach.                    *)

Ends(i, code) == thread' = [thread EXCEPT ![i] = [at |-> "ended", code |-> code]]
Moves(i, step) == thread' = [thread EXCEPT ![i].at = step]
In(i, step) == thread[i].at = step /\ main[i] # "dead"

\* The path is read; what was freed is no path.
Load(i) ==
    /\ In(i, "load")
    /\ \/ buffer[i] = "allocated" /\ Moves(i, "library") /\ UNCHANGED late
       \/ /\ Ends(i, "zero")
          /\ late' = IF buffer[i] = "freed" THEN late \cup {i} ELSE late
    /\ UNCHANGED <<options, launcher, main, buffer, mapping, config, attached, lapped>>

\* dlopen and dlsym.
Library(i) ==
    /\ In(i, "library")
    /\ Moves(i, "open") \/ Ends(i, "zero")
    /\ UNCHANGED <<options, launcher, main, buffer, mapping, config, attached,
                   late, lapped>>

OpenMapping(i) ==
    /\ In(i, "open")
    /\ \/ /\ mapping.writers \cup mapping.readers # {}
          /\ mapping' = [mapping EXCEPT !.readers = @ \cup {i}]
          /\ Moves(i, "configure")
       \/ Ends(i, "zero") /\ UNCHANGED mapping
    /\ UNCHANGED <<options, launcher, main, buffer, config, attached, late, lapped>>

\* A value under the size of another one is the other's by chance, or no JSON.
Readable == mapping.size # 0 /\ mapping.value # 0
Closed(i) == Held([mapping EXCEPT !.readers = @ \ {i}])

Configure(i) ==
    /\ In(i, "configure")
    /\ \/ /\ Readable
          /\ config' = [config EXCEPT ![i].wrapper = mapping.value]
          /\ Moves(i, "init")
          /\ UNCHANGED mapping
       \/ /\ Ends(i, "zero")
          /\ mapping' = Closed(i)
          /\ UNCHANGED config
    /\ UNCHANGED <<options, launcher, main, buffer, attached, late, lapped>>

\* The value is read again; init parses it and may refuse.
CallInit(i) ==
    /\ In(i, "init")
    /\ config' = [config EXCEPT ![i].loader = mapping.value]
    /\ \/ Readable /\ Ends(i, "other") /\ attached' = attached \cup {i}
       \/ Ends(i, "zero") /\ UNCHANGED attached
    /\ mapping' = Closed(i)
    /\ UNCHANGED <<options, launcher, main, buffer, late, lapped>>

\* The game crashes in attach, or is ended by the user: the exit code of the
\* thread becomes that of the game, and its handles are closed.
GameDies(i) ==
    /\ main[i] \in {"suspended", "running"}
    /\ main' = [main EXCEPT ![i] = "dead"]
    /\ IF thread[i].at \in {"none", "ended"} THEN UNCHANGED thread ELSE Ends(i, "other")
    /\ mapping' = Closed(i)
    /\ UNCHANGED <<options, launcher, buffer, config, attached, late, lapped>>

ThreadStep(i) ==
    Load(i) \/ Library(i) \/ OpenMapping(i) \/ Configure(i) \/ CallInit(i)

-----------------------------------------------------------------------------

Next == \E i \in Launchers :
    LauncherStep(i) \/ WaitFails(i) \/ Exit(i) \/ ThreadStep(i) \/ GameDies(i)

\* The launchers are scheduled; what happens in a game may take for ever, and
\* nobody may count on a wait that fails.
Fairness == \A i \in Launchers : WF_vars(LauncherStep(i))

Spec == Init /\ [][Next]_vars /\ Fairness

-----------------------------------------------------------------------------
(* Properties.                                                             *)

\* The game is created suspended so that none of its code runs before the
\* modloader is in it: unless the user waived the wait, a game runs only after
\* init succeeded, and success is reported only then - or of a game that died
\* while it was attached to and was to be left suspended anyway.
RunsAttached ==
    \A i \in Launchers : options[i].wait =>
        /\ main[i] = "running" => i \in attached
        /\ At(i, "ok") => i \in attached \/ (main[i] = "dead" /\ options[i].suspend)

\* A game left suspended for good is never passed off as started: the
\* launcher was told to leave it so or has reported that it failed
\* (process.rs:245); and what it reports as failed does not run.
SuspendedAsReported ==
    \A i \in Launchers : launcher[i] \in Results =>
        /\ main[i] = "suspended" => At(i, "failed") \/ options[i].suspend
        /\ main[i] = "running" => At(i, "ok")

\* What the launcher reports is what became of the game.
OutcomeAsReported == RunsAttached /\ SuspendedAsReported

\* The path is freed under the thread that reads it only when the launcher gave
\* up waiting (inject.rs:114), which it reports.
BufferOutlivesReader ==
    \A i \in Launchers :
        (thread[i].at = "load" /\ buffer[i] = "freed") \/ i \in late =>
            At(i, "failed") /\ options[i].wait

\* A game is configured as its own launcher was told, wrapper and modloader
\* alike, unless the launcher could not write the mapping or another launcher
\* wrote it before the game had read it (shared_memory.rs:30, wrapper.cpp:90);
\* then the two may even differ.
OwnConfiguration ==
    \A i \in attached \ lapped : config[i] = [wrapper |-> i, loader |-> i]

\* A launcher that was given a timeout, or told not to wait, returns whatever
\* the game does.
LaunchReturns ==
    \A i \in Launchers :
        options[i].timed \/ ~options[i].wait => <>(launcher[i] \in Results)
=============================================================================
