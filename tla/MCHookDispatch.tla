----------------------------- MODULE MCHookDispatch -----------------------------
(* Handlers that set a register and skip the game's code, that run it, and  *)
(* that write the trampoline first, with the right length or not.          *)
EXTENDS HookDispatch, TLC

MCRegister == {"eax", "ecx", "edx", "esp"}
Says(registers, run, bytes) == [registers |-> registers, run |-> run, bytes |-> bytes]
MCDecision == {Says({}, TRUE, None), Says({}, TRUE, "fitting"), Says({}, TRUE, "other")}
MCSetting == MCDecision \cup {Says({"eax"}, FALSE, None)}

\* Each site may be spelled as an offset; a low trampoline stands for all there is.
CONSTANTS First, Second, FirstOffset, SecondOffset
MCSite == {First, Second}
MCKey == MCSite \cup {FirstOffset, SecondOffset}
MCSiteOf == [k \in MCKey |-> IF k \in {First, FirstOffset} THEN First ELSE Second]
MCBehind == [a \in Low |-> MCSite \cup (Address \ Low)]

\* The same where all pages of the game's code are read-only.
MCTrampolines == [a \in Low |-> Address \ Low]

Swap ==
  [k \in MCKey |-> CASE k = First -> Second [] k = Second -> First
                     [] k = FirstOffset -> SecondOffset [] OTHER -> FirstOffset]
Alike == Permutations(Thread) \cup {Swap}
=============================================================================
