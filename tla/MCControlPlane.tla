---------------------------- MODULE MCControlPlane ----------------------------
(* A library that registers a variable twice and calls an event, and a      *)
(* thread of the game that runs into a hook.                                *)
EXTENDS ControlPlane

CONSTANTS library, game, gravity, unset

MCCaller == {library, game}
MCName == {gravity}

Registration(v) == [kind |-> "variable", name |-> gravity, value |-> v]
Event == [kind |-> "event"]
Hook == [kind |-> "hook"]

MCRequest == {Registration(v) : v \in {1, 2}} \cup {Event, Hook}
MCDuty == [c \in MCCaller |-> IF c = game THEN {Hook} ELSE MCRequest \ {Hook}]
=============================================================================
