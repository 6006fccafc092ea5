----------------------------- MODULE MCModPatches -----------------------------
(* Two addons next to each other in an image of eight bytes.  A detour has  *)
(* three bytes and a hook is taken to overwrite at least two (ten and five  *)
(* in the code).                                                            *)
EXTENDS ModPatches

CONSTANTS core, extra

MCMod == {core, extra}
MCLoadOrder == <<core, extra>>
MCCell == 11 .. 18
MCOriginal == [c \in MCCell |-> <<"game", c>>]

Bytes(a, v, n) == [kind |-> "bytes", addr |-> a, bytes |-> [k \in 1 .. n |-> <<"patch", v>>]]
Hook(a, n) == [kind |-> "hook", addr |-> a, bytes |-> [k \in 1 .. n |-> <<"patch", 0>>]]

(* The hook of no bytes is taken to end before byte 14, where a hook of the *)
(* other addon begins; the address 5 is an offset and stands for byte 15.   *)
MCFile ==
  [m \in MCMod |->
     IF m = core
     THEN {<< >>, <<Bytes(11, 1, 2), Hook(13, 3)>>, <<Hook(12, 0)>>}
     ELSE {<<Hook(14, 3)>>, <<Bytes(16, 4, 2), Bytes(5, 5, 1)>>, <<Bytes(17, 6, 1), Bytes(17, 7, 2)>>}]

(* A script patches the last byte and one that an addon may patch as well.  *)
MCLists == {<<Bytes(18, 8, 1), Bytes(13, 9, 1)>>}
MCNoLists == {}

(* One addon whose patch.jsonc is edited in place.                          *)
MCEditedFile ==
  [m \in MCMod |-> IF m = core THEN {<<Bytes(11, 1, 2)>>, <<Bytes(11, 2, 2)>>, <<Hook(14, 3)>>}
                               ELSE {<< >>}]

(* A hook of no bytes next to another hook.                                 *)
MCShortFile == [m \in MCMod |-> IF m = core THEN {<<Hook(12, 0)>>} ELSE {<<Hook(14, 3)>>}]

(* Two patches of the same byte, one of which gives its offset.             *)
MCSpelledFile ==
  [m \in MCMod |-> IF m = core THEN {<<Bytes(15, 1, 1)>>} ELSE {<<Bytes(5, 5, 1)>>}]
=============================================================================
