----------------------------- MODULE PatchStorage -----------------------------
(***************************************************************************)
(* The wrapper's patch storage (wrapper/src/storage.cpp) with the patches  *)
(* it owns (wrapper/src/patch.cpp) and the entry points makePatch,         *)
(* removePatch and writeMemory (wrapper/src/api.cpp).                      *)
(*                                                                         *)
(* A slot holds a patch and a generation that counts how often the slot    *)
(* was emptied.  A patch saves the bytes it overwrites and writes them     *)
(* back when it is destroyed.  Every operation runs under the storage's    *)
(* mutex, so each call is one step.                                        *)
(*                                                                         *)
(* Positions in slots and free are the code's index plus one, which is the *)
(* number makeHandle packs.                                                *)
(***************************************************************************)
EXTENDS Integers, Sequences

CONSTANTS
  Cell,               \* addresses of the mapped image, all above ModuleBase
  Byte,               \* values of one cell
  Original,           \* the image before the first call
  ModuleBase,         \* GetModuleHandle(nullptr)
  Request,            \* calls: [addr : Nat, bytes : Seq(Byte)]
  HandleIndexes,      \* 2^16: values of the index field of a handle
  HandleGenerations,  \* 2^16: values of the generation field of a handle
  MaxSlots,           \* bound: slots the vector ever holds
  MaxGeneration,      \* bound: times one slot is emptied
  MaxMakes            \* bound: successful makePatch calls

ASSUME BoundsAssumption ==
  /\ HandleIndexes \in Nat /\ MaxSlots \in Nat /\ MaxSlots < HandleIndexes
  /\ HandleGenerations \in Nat \ {0}
  /\ MaxGeneration \in Nat /\ MaxMakes \in Nat

ASSUME MemoryAssumption ==
  /\ ModuleBase \in Nat
  /\ Cell \subseteq {c \in Nat : c > ModuleBase}
  /\ Original \in [Cell -> Byte]
  /\ Request \subseteq [addr : Nat, bytes : Seq(Byte)]

VARIABLES
  memory,     \* the game's image
  slots,      \* storage::_slots
  free,       \* storage::_free, used as a stack
  noPatches,  \* api.cpp g_noPatches: set once, before the first call
  running,    \* FALSE once std::terminate was called
  result,     \* what the last call returned
  \* What the properties compare the state with; the code keeps none of it.
  base,       \* the image as it would be without any patch
  clock,      \* successful makePatch calls so far
  tainted     \* some removal or write left the stack discipline

vars == <<memory, slots, free, noPatches, running, result, base, clock, tainted>>

-----------------------------------------------------------------------------
(* Handles: the code packs both fields into one word.                      *)

Handle == (0 .. HandleGenerations - 1) \X (0 .. HandleIndexes - 1)
InvalidHandle == <<0, 0>>

makeHandle(index, gen) == <<gen % HandleGenerations, index % HandleIndexes>>
handleIndex(h) == h[2]
handleGen(h) == h[1]

(* The bytes a patch wrote, those it saved, and when it was applied; the   *)
(* empty slot holds NoPatch.                                               *)
Image == UNION {[S -> Byte] : S \in SUBSET Cell}
Patch == [new : Image, backup : Image, age : Nat]
NoPatch == [new |-> << >>, backup |-> << >>, age |-> 0]
Slot == [patch : Patch \cup {NoPatch}, generation : Nat]

Live == {i \in DOMAIN slots : slots[i].patch # NoPatch}
SpanOf(i) == DOMAIN slots[i].patch.new
Age(i) == slots[i].patch.age

HasPatch(h) ==
  /\ handleIndex(h) \in Live
  /\ slots[handleIndex(h)].generation = handleGen(h)

(* The handle makePatch returned for the patch in slot i.                  *)
HandleOf(i) == makeHandle(i, slots[i].generation)

(* Addresses up to the module base are offsets from it.                    *)
resolveAddress(addr) == IF addr > ModuleBase THEN addr ELSE ModuleBase + addr

Span(req) ==
  resolveAddress(req.addr) .. resolveAddress(req.addr) + Len(req.bytes) - 1

Written(req) == [c \in Span(req) |-> req.bytes[c - resolveAddress(req.addr) + 1]]

\* Faulty: the backup misses the last byte, or is taken after the write.
Saved_Short(req) ==
  [c \in Span(req) \ {resolveAddress(req.addr) + Len(req.bytes) - 1} |-> memory[c]]
Saved_AfterWrite(req) == Written(req)

Saved(req) == [c \in Span(req) |-> memory[c]]

Overwrite(image, patch) ==
  [c \in Cell |-> IF c \in DOMAIN patch THEN patch[c] ELSE image[c]]

Made(h) == [op |-> "make", handle |-> h]
Removed(h, ok) == [op |-> "remove", handle |-> h, ok |-> ok]
Result == [op : {"none"}] \cup [op : {"make"}, handle : Handle]
          \cup [op : {"remove"}, handle : Handle, ok : BOOLEAN]

-----------------------------------------------------------------------------
Init ==
  /\ memory = Original
  /\ slots = << >>
  /\ free = << >>
  /\ noPatches \in BOOLEAN
  /\ running = TRUE
  /\ result = [op |-> "none"]
  /\ base = Original
  /\ clock = 0
  /\ tainted = FALSE

Acceptable(req) == req.addr # 0 /\ req.bytes # << >>

\* Faulty: takes the oldest free slot but drops the newest.
EmplaceIndex_Oldest == IF free # << >> THEN free[1] ELSE Len(slots) + 1

(* Where _emplacePatchLocked puts a patch: the slot freed last, or a new   *)
(* one at the end.                                                         *)
EmplaceIndex == IF free # << >> THEN free[Len(free)] ELSE Len(slots) + 1

GenerationAt(i) == IF i \in DOMAIN slots THEN slots[i].generation ELSE 0

\* Faulty: an emptied slot keeps its generation.
NextGeneration_Kept(g) == g

NextGeneration(g) == g + 1

MakePatch(req) ==
  LET i == EmplaceIndex
      patch == [new |-> Written(req), backup |-> Saved(req),
                age |-> clock + 1]
      slot == [patch |-> patch, generation |-> GenerationAt(i)]
  IN
  /\ running /\ ~noPatches
  /\ Acceptable(req) /\ req.addr # ModuleBase
  /\ Span(req) \subseteq Cell
  /\ i <= MaxSlots /\ clock < MaxMakes
  /\ free' = IF free # << >> THEN SubSeq(free, 1, Len(free) - 1) ELSE free
  /\ slots' = IF free # << >> THEN [slots EXCEPT ![i] = slot] ELSE Append(slots, slot)
  /\ memory' = Overwrite(memory, patch.new)
  /\ result' = Made(makeHandle(i, slot.generation))
  /\ clock' = clock + 1
  /\ UNCHANGED <<noPatches, running, base, tainted>>

(* The call is rejected, or the pages cannot be made writable: then the    *)
(* slot just taken is given back and nothing remains of the attempt.       *)
RefuseMake(req) ==
  /\ running
  /\ noPatches \/ ~Acceptable(req) \/ req.addr # ModuleBase
  /\ result' = Made(InvalidHandle)
  /\ UNCHANGED <<memory, slots, free, noPatches, running, base, clock, tainted>>

(* The patch constructor calls std::terminate on the module base itself.   *)
MakePatchAtBase(req) ==
  /\ running /\ ~noPatches
  /\ Acceptable(req) /\ req.addr = ModuleBase
  /\ running' = FALSE
  /\ UNCHANGED <<memory, slots, free, noPatches, result, base, clock, tainted>>

(* Some patch applied after the one in slot i covers a cell of it.         *)
Covered(i) ==
  \E j \in Live : /\ Age(j) > Age(i)
                  /\ SpanOf(j) \cap SpanOf(i) # {}

(* Destroying the patch writes its backup back, unless the pages cannot be *)
(* made writable; the slot is given up in both cases.                      *)
RemovePatch(h, restored) ==
  LET i == handleIndex(h)
  IN
  /\ running /\ ~noPatches
  /\ HasPatch(h)
  /\ slots[i].generation < MaxGeneration
  /\ memory' = IF restored THEN Overwrite(memory, slots[i].patch.backup) ELSE memory
  /\ slots' = [slots EXCEPT ![i] = [patch |-> NoPatch,
                                         generation |-> NextGeneration(@.generation)]]
  /\ free' = Append(free, i)
  /\ result' = Removed(h, TRUE)
  /\ tainted' = (tainted \/ ~restored \/ Covered(i))
  /\ UNCHANGED <<noPatches, running, base, clock>>

RefuseRemove(h) ==
  /\ running
  /\ noPatches \/ ~HasPatch(h)
  /\ result' = Removed(h, FALSE)
  /\ UNCHANGED <<memory, slots, free, noPatches, running, base, clock, tainted>>

(* A script's write.  Where no patch lies it changes the image itself; a   *)
(* write over a live patch is undone by the removal of that patch.         *)
WriteMemory(req) ==
  /\ running /\ ~noPatches
  /\ Acceptable(req) /\ req.addr # ModuleBase
  /\ Span(req) \subseteq Cell
  /\ memory' = Overwrite(memory, Written(req))
  /\ base' = Overwrite(base, Written(req))
  /\ tainted' = (tainted \/ \E i \in Live : SpanOf(i) \cap Span(req) # {})
  /\ UNCHANGED <<slots, free, noPatches, running, result, clock>>

Next ==
  \/ \E req \in Request :
       MakePatch(req) \/ RefuseMake(req) \/ MakePatchAtBase(req) \/ WriteMemory(req)
  \/ \E h \in Handle, restored \in BOOLEAN : RemovePatch(h, restored)
  \/ \E h \in Handle : RefuseRemove(h)

Spec == Init /\ [][Next]_vars

-----------------------------------------------------------------------------
TypeOK ==
  /\ memory \in [Cell -> Byte]
  /\ slots \in Seq(Slot)
  /\ \A i \in DOMAIN slots : DOMAIN slots[i].patch.backup = SpanOf(i)
  /\ free \in Seq(Nat)
  /\ noPatches \in BOOLEAN
  /\ running \in BOOLEAN
  /\ result \in Result
  /\ base \in [Cell -> Byte]
  /\ clock \in Nat
  /\ tainted \in BOOLEAN

(* The free list names every empty slot, and each of them once: a slot     *)
(* listed twice would be given to two patches, and the second one would    *)
(* destroy the first (storage.cpp, _emplacePatchLocked and removePatch).   *)
FreeListExact ==
  /\ \A k \in DOMAIN free : free[k] \in DOMAIN slots \ Live
  /\ \A i \in DOMAIN slots \ Live : \E k \in DOMAIN free : free[k] = i
  /\ \A k, l \in DOMAIN free : free[k] = free[l] => k = l

(* A handle that makePatch returned removes the patch it was returned for.  *)
(* A slot counts in 32 bits how often it was emptied, its handles carry 16  *)
(* of them, and removePatch compares the two (storage.cpp, makeHandle and   *)
(* removePatch): one emptied as often as the field counts returns handles   *)
(* that remove nothing.                                                     *)
ReturnedHandleRemoves ==
  result.op = "make" /\ result.handle # InvalidHandle => HasPatch(result.handle)

(* While patches that overlap are removed newest first, every write back   *)
(* succeeds and nothing else writes over a patch, each cell holds the byte *)
(* of the newest patch on it, and the game's own byte when there is none   *)
(* (patch.cpp, the backup taken in the constructor and written back in     *)
(* _release).                                                              *)
Over(c) == {i \in Live : c \in SpanOf(i)}

Newest(c, i) == i \in Over(c) /\ \A j \in Over(c) : Age(j) <= Age(i)

MemoryShowsNewest ==
  ~tainted => \A c \in Cell :
    /\ Over(c) = {} => memory[c] = base[c]
    /\ \A i \in Live : Newest(c, i) => memory[c] = slots[i].patch.new[c]

(* The storage implements the abstract registry: a handle is retired when  *)
(* its slot has moved on to a later generation.                            *)
RetiredHandles ==
  {h \in Handle : /\ handleIndex(h) \in DOMAIN slots
                  /\ handleGen(h) < slots[handleIndex(h)].generation}

Registry == INSTANCE PatchRegistry WITH
              live <- {HandleOf(i) : i \in Live},
              retired <- RetiredHandles

(* Every call returns what the registry would: no handle is handed out     *)
(* twice, and a removal succeeds exactly for the patches still applied.    *)
ImplementsRegistry == Registry!Spec
=============================================================================
