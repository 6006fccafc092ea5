---------------------------- MODULE MCPatchStorage ----------------------------
(* Three cells above a module base at 10, reached by absolute addresses and  *)
(* by offsets; requests that nest, overlap partly and touch nothing mapped.  *)
EXTENDS PatchStorage

MCCell == 11 .. 13
MCByte == 0 .. 1
MCOriginal == [c \in MCCell |-> 0]
MCRequest == {[addr |-> 1,  bytes |-> <<1, 0>>],
              [addr |-> 12, bytes |-> <<0, 1>>],
              [addr |-> 10, bytes |-> <<1>>],
              [addr |-> 13, bytes |-> <<1, 1>>]}

(* A handle's generation field that still holds every generation reached.    *)
MCIndexes == 4
MCGenerations == 3

=============================================================================
