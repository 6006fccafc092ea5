--------------------------- MODULE RuntimeLifecycle ---------------------------
(***************************************************************************)
(* What the modloader's control plane promises the library that loads and  *)
(* unloads it, with threads, channels and addons left out: the runtime     *)
(* starts at most once, reports at most one startup result, serves         *)
(* messages only once it reported success and never after it was told to   *)
(* quit, ends for good, and is gone before the library holding its code    *)
(* is.                                                                     *)
(***************************************************************************)
EXTENDS Sequences

CONSTANTS
  Message,   \* what the runtime can be asked to do
  Shutdown   \* the message that asks it to quit

VARIABLES
  phase,     \* of the runtime
  ready,     \* the startup result reported to init
  served,    \* the messages the addons were run for
  unloaded   \* the library's destructor has returned

vars == <<phase, ready, served, unloaded>>

Init ==
  /\ phase = "absent"
  /\ ready = "unset"
  /\ served = << >>
  /\ unloaded = FALSE

Start ==
  /\ phase = "absent" /\ phase' = "starting"
  /\ UNCHANGED <<ready, served, unloaded>>

Ready ==
  /\ phase = "starting" /\ phase' = "serving"
  /\ ready' = "ok"
  /\ UNCHANGED <<served, unloaded>>

(* Startup succeeded without anything to serve.                            *)
Finish ==
  /\ phase = "starting" /\ phase' = "ending"
  /\ ready' = "ok"
  /\ UNCHANGED <<served, unloaded>>

Break ==
  /\ phase \in {"starting", "serving"} /\ phase' = "ending"
  /\ UNCHANGED <<ready, served, unloaded>>

Serve(m) ==
  /\ phase = "serving"
  /\ served' = Append(served, m)
  /\ phase' \in IF m = Shutdown THEN {"ending"} ELSE {"serving", "ending"}
  /\ UNCHANGED <<ready, unloaded>>

(* A runtime that dies of a panic reports nothing.                         *)
End ==
  /\ phase = "ending" /\ phase' = "gone"
  /\ ready' \in {ready, IF ready = "unset" THEN "err" ELSE ready}
  /\ UNCHANGED <<served, unloaded>>

Unload ==
  /\ phase \in {"absent", "gone"} /\ unloaded' = TRUE
  /\ UNCHANGED <<phase, ready, served>>

Next ==
  \/ Start \/ Ready \/ Finish \/ Break \/ End \/ Unload
  \/ \E m \in Message : Serve(m)

Spec == Init /\ [][Next]_vars
=============================================================================
