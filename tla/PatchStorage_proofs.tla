------------------------- MODULE PatchStorage_proofs -------------------------
(***************************************************************************)
(* Proofs about the patch storage, for every image, request set and bound. *)
(* TypeOK and FreeListExact are proved together, because each step of one  *)
(* needs the other: the slot a make fills is read off the free list.  With *)
(* the bounds they form StorageInv, on which the handles, the memory and   *)
(* the refinement of PatchRegistry rest.                                   *)
(***************************************************************************)
EXTENDS PatchStorage, SequenceTheorems, TLAPS

(* A remainder is smaller than the divisor, so a packed field keeps its     *)
(* width.                                                                   *)
LEMMA ModRange ==
  ASSUME NEW n \in Nat, NEW m \in Nat \ {0}
  PROVE  n % m \in 0 .. m - 1
OBVIOUS

(* Packing a number that fits its field loses nothing.                      *)
LEMMA ModSmall ==
  ASSUME NEW m \in Nat \ {0}, NEW n \in 0 .. m - 1
  PROVE  n % m = n
OBVIOUS

(* Writing bytes of the image keeps it an image.                            *)
LEMMA OverwriteType ==
  ASSUME NEW image \in [Cell -> Byte], NEW S, S \subseteq Cell, NEW patch \in [S -> Byte]
  PROVE  Overwrite(image, patch) \in [Cell -> Byte]
BY DEF Overwrite

(* The cells a request writes carry the bytes of the request.               *)
LEMMA WrittenType ==
  ASSUME NEW req \in Request
  PROVE  Written(req) \in [Span(req) -> Byte]
<1>1. req.addr \in Nat /\ req.bytes \in Seq(Byte)
  BY MemoryAssumption
<1>2. resolveAddress(req.addr) \in Nat
  BY <1>1, MemoryAssumption DEF resolveAddress
<1>3. \A c \in Span(req) : c - resolveAddress(req.addr) + 1 \in 1 .. Len(req.bytes)
  BY <1>1, <1>2 DEF Span
<1>q. QED  BY <1>1, <1>3 DEF Written

(* Every handle the storage packs is a value its callers can hold.          *)
LEMMA MakeHandleType ==
  ASSUME NEW i \in Nat, NEW g \in Nat
  PROVE  makeHandle(i, g) \in Handle
<1>1. HandleIndexes \in Nat \ {0} /\ HandleGenerations \in Nat \ {0}
  BY BoundsAssumption
<1>2. g % HandleGenerations \in 0 .. HandleGenerations - 1
  BY <1>1, ModRange
<1>3. i % HandleIndexes \in 0 .. HandleIndexes - 1
  BY <1>1, ModRange
<1>q. QED  BY <1>2, <1>3 DEF makeHandle, Handle

(* Each position of the vector holds a slot.                                *)
LEMMA SlotType ==
  ASSUME TypeOK, NEW i \in DOMAIN slots
  PROVE  slots[i] \in Slot /\ slots[i].generation \in Nat
<1>1. slots \in Seq(Slot)
  BY DEF TypeOK
<1>2. slots[i] \in Slot
  BY <1>1
<1>q. QED  BY <1>2 DEF Slot

(* The slot a patch goes into, and what becomes of the vector.               *)
Emplaced(slot) ==
  IF free # << >> THEN [slots EXCEPT ![EmplaceIndex] = slot] ELSE Append(slots, slot)

(* The slot a patch is put into was empty, and no other slot changes.       *)
LEMMA EmplaceType ==
  ASSUME TypeOK, FreeListExact, NEW slot \in Slot
  PROVE  /\ Emplaced(slot) \in Seq(Slot)
         /\ EmplaceIndex \in DOMAIN Emplaced(slot)
         /\ DOMAIN Emplaced(slot) = DOMAIN slots \cup {EmplaceIndex}
         /\ EmplaceIndex \notin Live /\ EmplaceIndex \in Nat
         /\ Emplaced(slot)[EmplaceIndex] = slot
         /\ \A j \in DOMAIN slots : j # EmplaceIndex => Emplaced(slot)[j] = slots[j]
<1> DEFINE n == Len(slots)
<1>1. slots \in Seq(Slot) /\ free \in Seq(Nat) /\ n \in Nat /\ DOMAIN slots = 1 .. n
  BY DEF TypeOK
<1>2. CASE free # << >>
  <2>1. Len(free) \in DOMAIN free /\ EmplaceIndex = free[Len(free)]
    BY <1>1, <1>2 DEF EmplaceIndex
  <2>2. EmplaceIndex \in DOMAIN slots \ Live
    BY <2>1 DEF FreeListExact
  <2>3. Emplaced(slot) = [slots EXCEPT ![EmplaceIndex] = slot]
    BY <1>2 DEF Emplaced
  <2>q. QED  BY <1>1, <2>2, <2>3
<1>3. CASE free = << >>
  <2>1. EmplaceIndex = n + 1 /\ Emplaced(slot) = Append(slots, slot)
    BY <1>3 DEF EmplaceIndex, Emplaced
  <2>2. /\ Emplaced(slot) \in Seq(Slot) /\ Len(Emplaced(slot)) = n + 1
        /\ Emplaced(slot)[n + 1] = slot /\ \A j \in 1 .. n : Emplaced(slot)[j] = slots[j]
    <3> HIDE DEF n
    <3>1. Append(slots, slot) \in Seq(Slot) /\ Len(Append(slots, slot)) = Len(slots) + 1
      BY <1>1, AppendProperties
    <3>2. /\ \A j \in 1 .. Len(slots) : Append(slots, slot)[j] = slots[j]
          /\ Append(slots, slot)[Len(slots) + 1] = slot
      BY <1>1, AppendProperties
    <3>q. QED  BY <2>1, <3>1, <3>2 DEF n
  <2>3. n + 1 \notin DOMAIN slots
    BY <1>1
  <2>4. DOMAIN Emplaced(slot) = 1 .. n + 1
    BY <2>2
  <2>5. DOMAIN Emplaced(slot) = DOMAIN slots \cup {n + 1} /\ n + 1 \in DOMAIN Emplaced(slot)
    BY <1>1, <2>4
  <2>6. n + 1 \notin Live
    BY <2>3 DEF Live
  <2> HIDE DEF n
  <2>q. QED  BY <1>1, <2>1, <2>2, <2>3, <2>5, <2>6
<1>q. QED  BY <1>2, <1>3

(* The types hold before the first call.                                    *)
LEMMA TypeInit == Init => TypeOK
<1> SUFFICES ASSUME Init PROVE TypeOK
  OBVIOUS
<1>1. slots = << >> /\ DOMAIN slots = {} /\ slots \in Seq(Slot) /\ free \in Seq(Nat)
  BY DEF Init
<1>q. QED  BY <1>1, MemoryAssumption DEF Init, TypeOK, Result

(* What a successful makePatch does to the vector of slots.                  *)
NewPatch(req) == [new |-> Written(req), backup |-> Saved(req), age |-> clock + 1]

(* What a successful makePatch does: one slot more holds a patch.           *)
LEMMA MakeEffect ==
  ASSUME TypeOK, FreeListExact, NEW req \in Request, MakePatch(req)
  PROVE  /\ Written(req) \in [Span(req) -> Byte] /\ Saved(req) \in [Span(req) -> Byte]
         /\ Span(req) \subseteq Cell
         /\ slots' \in Seq(Slot) /\ DOMAIN slots' = DOMAIN slots \cup {EmplaceIndex}
         /\ EmplaceIndex \notin Live /\ EmplaceIndex \in Nat
         /\ slots'[EmplaceIndex].patch = NewPatch(req)
         /\ slots'[EmplaceIndex].generation = GenerationAt(EmplaceIndex)
         /\ GenerationAt(EmplaceIndex) \in Nat
         /\ \A j \in DOMAIN slots : j # EmplaceIndex => slots'[j] = slots[j]
         /\ Live' = Live \cup {EmplaceIndex}
<1> DEFINE slot == [patch |-> NewPatch(req), generation |-> GenerationAt(EmplaceIndex)]
<1>1. Written(req) \in [Span(req) -> Byte] /\ Span(req) \subseteq Cell
  BY WrittenType DEF MakePatch
<1>2. Saved(req) \in [Span(req) -> Byte]
  BY <1>1 DEF Saved, TypeOK
<1>3. Written(req) \in Image /\ Saved(req) \in Image
  BY <1>1, <1>2 DEF Image
<1>4. GenerationAt(EmplaceIndex) \in Nat
  BY SlotType DEF GenerationAt
<1>5. slot \in Slot
  BY <1>3, <1>4 DEF Slot, Patch, NewPatch, TypeOK
<1>6. slots' = Emplaced(slot)
  BY DEF MakePatch, NewPatch, Emplaced
<1>7. slot.patch = NewPatch(req) /\ slot.generation = GenerationAt(EmplaceIndex)
  OBVIOUS
<1> HIDE DEF slot
<1>8. /\ slots' \in Seq(Slot) /\ EmplaceIndex \in DOMAIN slots'
      /\ DOMAIN slots' = DOMAIN slots \cup {EmplaceIndex}
      /\ EmplaceIndex \notin Live /\ EmplaceIndex \in Nat
      /\ slots'[EmplaceIndex] = slot
      /\ \A j \in DOMAIN slots : j # EmplaceIndex => slots'[j] = slots[j]
  BY <1>5, <1>6, EmplaceType
<1>10. NewPatch(req) # NoPatch
  <2>1. NewPatch(req).age # 0
    BY DEF NewPatch, TypeOK
  <2>2. NoPatch.age = 0
    BY DEF NoPatch
  <2>q. QED  BY <2>1, <2>2
<1>11. Live' = Live \cup {EmplaceIndex}
  BY <1>7, <1>8, <1>10 DEF Live
<1>q. QED  BY <1>1, <1>2, <1>4, <1>7, <1>8, <1>11

(* And what a successful removePatch does to it.                             *)
LEMMA RemoveEffect ==
  ASSUME TypeOK, NEW h \in Handle, NEW restored \in BOOLEAN, RemovePatch(h, restored)
  PROVE  /\ handleIndex(h) \in Live
         /\ slots' \in Seq(Slot) /\ DOMAIN slots' = DOMAIN slots
         /\ slots'[handleIndex(h)].patch = NoPatch
         /\ slots'[handleIndex(h)].generation = slots[handleIndex(h)].generation + 1
         /\ \A j \in DOMAIN slots : j # handleIndex(h) => slots'[j] = slots[j]
         /\ Live' = Live \ {handleIndex(h)}
<1> DEFINE i == handleIndex(h)
           slot == [patch |-> NoPatch, generation |-> slots[i].generation + 1]
<1>1. i \in Live /\ i \in DOMAIN slots
  BY DEF RemovePatch, HasPatch, Live
<1>2. slots[i] \in Slot
  BY <1>1, SlotType
<1>3. slot \in Slot
  BY <1>2 DEF Slot
<1>4. slots' = [slots EXCEPT ![i] = slot]
  BY DEF RemovePatch, NextGeneration
<1>5. slots' \in Seq(Slot) /\ DOMAIN slots' = DOMAIN slots /\ slots'[i] = slot
      /\ \A j \in DOMAIN slots : j # i => slots'[j] = slots[j]
  BY <1>1, <1>3, <1>4 DEF TypeOK
<1>6. slot.patch = NoPatch /\ slot.generation = slots[i].generation + 1
  OBVIOUS
<1> HIDE DEF i, slot
<1>7. slots'[i].patch = NoPatch /\ slots'[i].generation = slots[i].generation + 1
  BY <1>5, <1>6
<1>8. Live' = Live \ {i}
  BY <1>1, <1>5, <1>7 DEF Live
<1>q. QED  BY <1>1, <1>5, <1>7, <1>8 DEF i

(* Type correctness and the free list are inductive together: the slot a     *)
(* patch goes into is only known to be empty because the free list is exact. *)
LEMMA TypeStep == TypeOK /\ FreeListExact /\ [Next]_vars => TypeOK'
<1> SUFFICES ASSUME TypeOK, FreeListExact, [Next]_vars PROVE TypeOK'
  OBVIOUS
<1> USE DEF TypeOK
<1>1. ASSUME NEW req \in Request, MakePatch(req) PROVE TypeOK'
  <2>1. \A i \in DOMAIN slots' : DOMAIN slots'[i].patch.backup = SpanOf(i)'
    <3>1. DOMAIN NewPatch(req).backup = DOMAIN NewPatch(req).new
      BY <1>1, MakeEffect DEF NewPatch
    <3>2. \A j \in DOMAIN slots : DOMAIN slots[j].patch.backup = DOMAIN slots[j].patch.new
      BY DEF SpanOf
    <3>q. QED  BY <1>1, <3>1, <3>2, MakeEffect DEF SpanOf
  <2>2. free' \in Seq(Nat)
    <3>1. CASE free = << >>
      BY <1>1, <3>1 DEF MakePatch
    <3>2. CASE free # << >>
      BY <1>1, <3>2 DEF MakePatch
    <3>q. QED  BY <3>1, <3>2
  <2>3. memory' \in [Cell -> Byte]
    BY <1>1, MakeEffect, OverwriteType DEF MakePatch
  <2>4. result' \in Result
    <3>1. makeHandle(EmplaceIndex, GenerationAt(EmplaceIndex)) \in Handle
      BY <1>1, MakeEffect, MakeHandleType
    <3>q. QED  BY <1>1, <3>1 DEF MakePatch, Made, Result
  <2>5. slots' \in Seq(Slot) /\ clock' \in Nat
    <3>1. slots' \in Seq(Slot)
      BY <1>1, MakeEffect
    <3>2. clock' = clock + 1
      BY <1>1 DEF MakePatch
    <3>q. QED  BY <3>1, <3>2
  <2>6. UNCHANGED <<noPatches, running, base, tainted>>
    BY <1>1 DEF MakePatch
  <2>q. QED  BY <2>1, <2>2, <2>3, <2>4, <2>5, <2>6 DEF SpanOf
<1>2. ASSUME NEW req \in Request, RefuseMake(req) PROVE TypeOK'
  <2>1. InvalidHandle \in Handle
    BY BoundsAssumption DEF InvalidHandle, Handle
  <2>q. QED  BY <1>2, <2>1 DEF RefuseMake, Made, Result, SpanOf
<1>3. ASSUME NEW req \in Request, MakePatchAtBase(req) PROVE TypeOK'
  BY <1>3 DEF MakePatchAtBase, SpanOf
<1>4. ASSUME NEW req \in Request, WriteMemory(req) PROVE TypeOK'
  <2>1. Written(req) \in [Span(req) -> Byte] /\ Span(req) \subseteq Cell
    BY <1>4, WrittenType DEF WriteMemory
  <2>2. memory' \in [Cell -> Byte] /\ base' \in [Cell -> Byte]
    BY <1>4, <2>1, OverwriteType DEF WriteMemory
  <2>q. QED  BY <1>4, <2>2 DEF WriteMemory, SpanOf
<1>5. ASSUME NEW h \in Handle, NEW restored \in BOOLEAN, RemovePatch(h, restored)
      PROVE  TypeOK'
  <2> DEFINE i == handleIndex(h)
  <2>1. \A j \in DOMAIN slots' : DOMAIN slots'[j].patch.backup = SpanOf(j)'
    <3>1. DOMAIN NoPatch.backup = DOMAIN NoPatch.new
      BY DEF NoPatch
    <3>2. \A j \in DOMAIN slots : DOMAIN slots[j].patch.backup = DOMAIN slots[j].patch.new
      BY DEF SpanOf
    <3>q. QED  BY <1>5, <3>1, <3>2, RemoveEffect DEF SpanOf
  <2>2. i \in DOMAIN slots /\ i \in Nat
    BY <1>5, RemoveEffect DEF Live
  <2>3. free' \in Seq(Nat)
    <3>1. free' = Append(free, i)
      BY <1>5 DEF RemovePatch
    <3> HIDE DEF i
    <3>q. QED  BY <2>2, <3>1, AppendProperties
  <2>4. memory' \in [Cell -> Byte]
    <3>1. slots[i].patch \in Patch
      BY <1>5, <2>2, SlotType DEF Slot, RemovePatch, HasPatch, Live
    <3>2. PICK S \in SUBSET Cell : slots[i].patch.backup \in [S -> Byte]
      BY <3>1 DEF Patch, Image
    <3>q. QED  BY <1>5, <3>2, OverwriteType DEF RemovePatch
  <2>5. result' \in Result /\ tainted' \in BOOLEAN
    BY <1>5 DEF RemovePatch, Removed, Result
  <2>6. slots' \in Seq(Slot)
    BY <1>5, RemoveEffect
  <2>7. UNCHANGED <<noPatches, running, base, clock>>
    BY <1>5 DEF RemovePatch
  <2> HIDE DEF i
  <2>q. QED  BY <2>1, <2>3, <2>4, <2>5, <2>6, <2>7 DEF SpanOf
<1>6. ASSUME NEW h \in Handle, RefuseRemove(h) PROVE TypeOK'
  BY <1>6 DEF RefuseRemove, Removed, Result, SpanOf
<1>7. CASE UNCHANGED vars
  BY <1>7 DEF vars, SpanOf
<1>q. QED  BY <1>1, <1>2, <1>3, <1>4, <1>5, <1>6, <1>7 DEF Next

-----------------------------------------------------------------------------
(* The free list.                                                            *)
LEMMA FreeListStep == TypeOK /\ FreeListExact /\ [Next]_vars => FreeListExact'
<1> SUFFICES ASSUME TypeOK, FreeListExact, [Next]_vars PROVE FreeListExact'
  OBVIOUS
<1>0. slots \in Seq(Slot) /\ free \in Seq(Nat) /\ DOMAIN free = 1 .. Len(free) /\ Len(free) \in Nat
  BY DEF TypeOK
<1>1. ASSUME NEW req \in Request, MakePatch(req) PROVE FreeListExact'
  <2>1. /\ DOMAIN slots' = DOMAIN slots \cup {EmplaceIndex}
        /\ Live' = Live \cup {EmplaceIndex}
    BY <1>1, MakeEffect
  <2>2. CASE free = << >>
    <3>1. free' = free /\ DOMAIN free = {}
      BY <1>0, <1>1, <2>2 DEF MakePatch
    <3>2. DOMAIN slots' \ Live' = {}
      BY <2>1, <3>1 DEF FreeListExact
    <3>q. QED  BY <3>1, <3>2 DEF FreeListExact
  <2>3. CASE free # << >>
    <3> DEFINE n == Len(free)
    <3>1. n \in DOMAIN free /\ EmplaceIndex = free[n] /\ n \in Nat /\ DOMAIN free = 1 .. n
      BY <1>0, <2>3 DEF EmplaceIndex
    <3>2. free' = SubSeq(free, 1, n - 1)
      BY <1>1, <2>3 DEF MakePatch
    <3>3. DOMAIN free' = 1 .. n - 1 /\ \A k \in 1 .. n - 1 : free'[k] = free[k]
      BY <1>0, <3>1, <3>2
    <3>4. DOMAIN slots' \ Live' = (DOMAIN slots \ Live) \ {free[n]}
      BY <2>1, <3>1 DEF FreeListExact
    <3> HIDE DEF n
    <3>5. \A k \in DOMAIN free' : k \in DOMAIN free /\ k # n /\ free'[k] = free[k]
      BY <3>1, <3>3
    <3>6. \A k \in DOMAIN free : k # n => k \in DOMAIN free'
      BY <3>1, <3>3
    <3>q. QED  BY <3>1, <3>4, <3>5, <3>6 DEF FreeListExact
  <2>q. QED  BY <2>2, <2>3
<1>2. ASSUME NEW h \in Handle, NEW restored \in BOOLEAN, RemovePatch(h, restored)
      PROVE  FreeListExact'
  <2> DEFINE i == handleIndex(h)
             n == Len(free)
  <2>1. i \in Live /\ DOMAIN slots' = DOMAIN slots /\ Live' = Live \ {i} /\ i \in DOMAIN slots
    BY <1>2, RemoveEffect DEF Live
  <2>2. free' = Append(free, i) /\ i \in Nat
    BY <1>0, <1>2, <2>1 DEF RemovePatch
  <2> HIDE DEF i
  <2>3. /\ DOMAIN free' = DOMAIN free \cup {n + 1} /\ n + 1 \notin DOMAIN free
        /\ free'[n + 1] = i /\ \A k \in DOMAIN free : free'[k] = free[k]
    <3>1. Append(free, i) \in Seq(Nat) /\ Len(Append(free, i)) = n + 1
      BY <1>0, <2>2, AppendProperties
    <3>2. \A k \in 1 .. n : Append(free, i)[k] = free[k]
      BY <1>0, <2>2, AppendProperties
    <3>3. Append(free, i)[n + 1] = i
      BY <1>0, <2>2, AppendProperties
    <3>4. DOMAIN Append(free, i) = 1 .. n + 1
      BY <3>1
    <3>q. QED  BY <1>0, <2>2, <3>2, <3>3, <3>4
  <2>4. DOMAIN slots' \ Live' = (DOMAIN slots \ Live) \cup {i}
    BY <2>1
  <2> HIDE DEF n
  <2>q. QED  BY <2>1, <2>3, <2>4 DEF FreeListExact
<1>3. ASSUME UNCHANGED <<slots, free>> PROVE FreeListExact'
  BY <1>3 DEF FreeListExact, Live
<1>4. ASSUME NEW req \in Request, RefuseMake(req) \/ MakePatchAtBase(req) \/ WriteMemory(req)
      PROVE  FreeListExact'
  BY <1>3, <1>4 DEF RefuseMake, MakePatchAtBase, WriteMemory
<1>5. ASSUME NEW h \in Handle, RefuseRemove(h) PROVE FreeListExact'
  BY <1>3, <1>5 DEF RefuseRemove
<1>6. CASE UNCHANGED vars
  BY <1>3, <1>6 DEF vars
<1>q. QED  BY <1>1, <1>2, <1>4, <1>5, <1>6 DEF Next

(* The free list is exact before the first call.                            *)
LEMMA FreeListInit == Init => FreeListExact
<1> SUFFICES ASSUME Init PROVE FreeListExact
  OBVIOUS
<1>1. DOMAIN slots = {} /\ DOMAIN free = {}
  BY DEF Init
<1>q. QED  BY <1>1 DEF FreeListExact, Live

(* Every value of the state has its type, whatever the constants are.        *)
THEOREM TypeCorrect == Spec => []TypeOK
<1>1. Init => TypeOK /\ FreeListExact
  BY TypeInit, FreeListInit
<1>2. TypeOK /\ FreeListExact /\ [Next]_vars => TypeOK' /\ FreeListExact'
  BY TypeStep, FreeListStep
<1>q. QED  BY <1>1, <1>2, PTL DEF Spec

(* The free list names each empty slot exactly once in every reachable       *)
(* state, so that a slot is never given to two patches.                      *)
THEOREM FreeListCorrect == Spec => []FreeListExact
<1>1. Init => TypeOK /\ FreeListExact
  BY TypeInit, FreeListInit
<1>2. TypeOK /\ FreeListExact /\ [Next]_vars => TypeOK' /\ FreeListExact'
  BY TypeStep, FreeListStep
<1>q. QED  BY <1>1, <1>2, PTL DEF Spec

-----------------------------------------------------------------------------
(* Handles.                                                                  *)

(* The positions and generations that occur fit the fields of a handle.      *)
Fits == \A i \in DOMAIN slots : i \in 1 .. MaxSlots /\ slots[i].generation \in 0 .. MaxGeneration

StorageInv == TypeOK /\ FreeListExact /\ Fits

(* Every call keeps positions and generations within their bounds.          *)
LEMMA FitsStep == StorageInv /\ [Next]_vars => Fits'
<1> SUFFICES ASSUME StorageInv, [Next]_vars PROVE Fits'
  OBVIOUS
<1> USE DEF StorageInv
<1>0. MaxSlots \in Nat /\ MaxGeneration \in Nat
  BY BoundsAssumption
<1>1. ASSUME NEW req \in Request, MakePatch(req) PROVE Fits'
  <2>1. EmplaceIndex \in 1 .. MaxSlots
    <3>1. EmplaceIndex \in DOMAIN slots' /\ slots' \in Seq(Slot)
      BY <1>1, MakeEffect
    <3>2. EmplaceIndex \in 1 .. Len(slots') /\ Len(slots') \in Nat
      BY <3>1, LenProperties
    <3>3. EmplaceIndex <= MaxSlots
      BY <1>1 DEF MakePatch
    <3>q. QED  BY <1>0, <3>2, <3>3
  <2>2. GenerationAt(EmplaceIndex) \in 0 .. MaxGeneration
    BY <1>0 DEF GenerationAt, Fits
  <2>q. QED  BY <1>1, <2>1, <2>2, MakeEffect DEF Fits
<1>2. ASSUME NEW h \in Handle, NEW restored \in BOOLEAN, RemovePatch(h, restored)
      PROVE  Fits'
  <2> DEFINE i == handleIndex(h)
  <2>1. i \in DOMAIN slots /\ slots[i].generation < MaxGeneration
    BY <1>2, RemoveEffect DEF RemovePatch, Live
  <2>2. slots[i].generation + 1 \in 0 .. MaxGeneration
    BY <1>0, <2>1, SlotType
  <2>q. QED  BY <1>2, <2>1, <2>2, RemoveEffect DEF Fits
<1>3. ASSUME UNCHANGED slots PROVE Fits'
  BY <1>3 DEF Fits
<1>4. ASSUME NEW req \in Request, RefuseMake(req) \/ MakePatchAtBase(req) \/ WriteMemory(req)
      PROVE  Fits'
  BY <1>3, <1>4 DEF RefuseMake, MakePatchAtBase, WriteMemory
<1>5. ASSUME NEW h \in Handle, RefuseRemove(h) PROVE Fits'
  BY <1>3, <1>5 DEF RefuseRemove
<1>6. CASE UNCHANGED vars
  BY <1>3, <1>6 DEF vars
<1>q. QED  BY <1>1, <1>2, <1>4, <1>5, <1>6 DEF Next

(* Types, free list and bounds together are invariant.                      *)
LEMMA StorageInvariant == Spec => []StorageInv
<1>1. Init => StorageInv
  <2> SUFFICES ASSUME Init PROVE StorageInv
    OBVIOUS
  <2>1. DOMAIN slots = {}
    BY DEF Init
  <2>q. QED  BY <2>1, TypeInit, FreeListInit DEF StorageInv, Fits
<1>2. StorageInv /\ [Next]_vars => StorageInv'
  BY TypeStep, FreeListStep, FitsStep DEF StorageInv
<1>q. QED  BY <1>1, <1>2, PTL DEF Spec

(* Packing loses nothing of a position and a generation that fit.            *)
LEMMA HandleFields ==
  ASSUME MaxGeneration < HandleGenerations, Fits, NEW i \in DOMAIN slots
  PROVE  /\ HandleOf(i) = <<slots[i].generation, i>>
         /\ HandleOf(i) \in Handle
<1>1. /\ i \in 0 .. HandleIndexes - 1 /\ HandleIndexes \in Nat \ {0}
      /\ slots[i].generation \in 0 .. HandleGenerations - 1
      /\ HandleGenerations \in Nat \ {0}
  BY BoundsAssumption DEF Fits
<1>2. i % HandleIndexes = i
  BY <1>1, ModSmall
<1>3. slots[i].generation % HandleGenerations = slots[i].generation
  BY <1>1, ModSmall
<1>q. QED  BY <1>1, <1>2, <1>3 DEF HandleOf, makeHandle, Handle

-----------------------------------------------------------------------------
(* Memory.  MemoryShowsNewest alone is not inductive: what a removal writes  *)
(* back was saved long before.  The strengthening says what each backup      *)
(* holds: the byte of the next older patch on the cell, or the game's own.   *)

AgesOrdered ==
  /\ \A i \in Live : Age(i) \in Nat /\ Age(i) <= clock
  /\ \A i, j \in Live : Age(i) = Age(j) => i = j

(* Patch j is the next older one below patch i on cell c.                    *)
Below(c, i, j) ==
  /\ j \in Over(c) /\ Age(j) < Age(i)
  /\ \A k \in Over(c) : Age(k) < Age(i) => Age(k) <= Age(j)

Lowest(c, i) == \A k \in Over(c) : Age(i) <= Age(k)

BackupChain ==
  ~tainted => \A c \in Cell : \A i \in Over(c) :
    /\ Lowest(c, i) => slots[i].patch.backup[c] = base[c]
    /\ \A j \in Live : Below(c, i, j) => slots[i].patch.backup[c] = slots[j].patch.new[c]

MemoryInv == AgesOrdered /\ BackupChain /\ MemoryShowsNewest

(* A call that leaves image and slots alone keeps what memory shows.        *)
LEMMA MemoryUnchanged ==
  ASSUME MemoryInv, UNCHANGED <<memory, slots, base, clock, tainted>>
  PROVE  MemoryInv'
BY DEF MemoryInv, AgesOrdered, BackupChain, MemoryShowsNewest, Newest, Lowest, Below, Over,
       Live, SpanOf, Age

(* A new patch becomes the newest on its cells and saves what the next      *)
(* older one, or the game, had there.                                       *)
LEMMA MemoryMake ==
  ASSUME StorageInv, MemoryInv, NEW req \in Request, MakePatch(req)
  PROVE  MemoryInv'
<1> USE DEF Age
<1>1. PICK n :
      /\ n \notin Live /\ Live' = Live \cup {n}
      /\ slots'[n].patch = NewPatch(req)
      /\ \A j \in Live : slots'[j] = slots[j]
      /\ Written(req) \in [Span(req) -> Byte] /\ Saved(req) \in [Span(req) -> Byte]
  BY MakeEffect DEF StorageInv, Live
<1>2. clock \in Nat /\ clock' = clock + 1 /\ tainted' = tainted /\ base' = base
      /\ memory' = Overwrite(memory, Written(req))
  BY DEF MakePatch, StorageInv, TypeOK
<1>3. Age(n)' = clock + 1 /\ SpanOf(n)' = Span(req)
  BY <1>1 DEF Age, SpanOf, NewPatch
<1>4. \A j \in Live : Age(j)' = Age(j) /\ SpanOf(j)' = SpanOf(j) /\ j # n
  BY <1>1 DEF Age, SpanOf
<1>5. \A j \in Live : Age(j) \in Nat /\ Age(j) < clock + 1
  BY <1>2 DEF MemoryInv, AgesOrdered
<1>6. AgesOrdered'
  BY <1>1, <1>2, <1>3, <1>4, <1>5 DEF MemoryInv, AgesOrdered
<1>7. \A c : Over(c)' = IF c \in Span(req) THEN Over(c) \cup {n} ELSE Over(c)
  BY <1>1, <1>3, <1>4 DEF Over
<1>8. BackupChain'
  <2> SUFFICES ASSUME ~tainted, NEW c \in Cell, NEW i \in Over(c)'
               PROVE  /\ Lowest(c, i)' => slots'[i].patch.backup[c] = base[c]
                      /\ \A j \in Live' : Below(c, i, j)' =>
                            slots'[i].patch.backup[c] = slots'[j].patch.new[c]
    BY <1>2 DEF BackupChain
  <2>1. CASE i = n
    <3>1. c \in Span(req)
      BY <1>1, <1>7, <2>1 DEF Over
    <3>2. slots'[i].patch.backup[c] = memory[c]
      BY <1>1, <2>1, <3>1 DEF NewPatch, Saved
    <3>3. ASSUME Lowest(c, i)' PROVE memory[c] = base[c]
      <4>1. Over(c) = {}
        <5>1. \A k \in Over(c)' : Age(i)' <= Age(k)'
          BY <3>3 DEF Lowest, Over, Live, SpanOf
        <5>2. \A k \in Over(c) : k \in Live /\ k \in Over(c)'
          BY <1>7, <3>1 DEF Over
        <5>q. QED  BY <1>2, <1>3, <1>4, <1>5, <2>1, <5>1, <5>2
      <4>q. QED  BY <4>1 DEF MemoryInv, MemoryShowsNewest
    <3>4. ASSUME NEW j \in Live', Below(c, i, j)' PROVE memory[c] = slots'[j].patch.new[c]
      <4>1. j \in Over(c) /\ j \in Live /\ j # n
        BY <1>1, <1>2, <1>3, <1>7, <2>1, <3>1, <3>4 DEF Below, Over
      <4>2. Newest(c, j)
        <5>1. \A k \in Over(c) : Age(k)' < Age(i)' => Age(k)' <= Age(j)'
          BY <1>7, <3>4 DEF Below
        <5>2. \A k \in Over(c) : Age(k) <= Age(j)
          BY <1>3, <1>4, <1>5, <2>1, <4>1, <5>1 DEF Over
        <5>q. QED  BY <4>1, <5>2 DEF Newest
      <4>3. memory[c] = slots[j].patch.new[c]
        BY <4>1, <4>2 DEF MemoryInv, MemoryShowsNewest
      <4>q. QED  BY <1>1, <4>1, <4>3
    <3>q. QED  BY <3>2, <3>3, <3>4
  <2>2. CASE i # n
    <3>1. i \in Over(c) /\ i \in Live /\ slots'[i] = slots[i]
      BY <1>1, <1>7, <2>2 DEF Over
    <3>2. ASSUME Lowest(c, i)' PROVE slots[i].patch.backup[c] = base[c]
      <4>1. Lowest(c, i)
        BY <1>4, <1>7, <3>1, <3>2 DEF Lowest, Over
      <4>q. QED  BY <3>1, <4>1 DEF MemoryInv, BackupChain
    <3>3. ASSUME NEW j \in Live', Below(c, i, j)'
          PROVE  slots[i].patch.backup[c] = slots'[j].patch.new[c]
      <4>1. j # n
        <5>1. Age(j)' < Age(i)'
          BY <3>3 DEF Below, Live, SpanOf, Over
        <5>q. QED  BY <1>2, <1>3, <1>4, <1>5, <3>1, <5>1
      <4>2. j \in Live /\ j \in Over(c)
        BY <1>1, <1>7, <3>3, <4>1 DEF Below
      <4>3. Below(c, i, j)
        <5>1. Age(j)' < Age(i)' /\ \A k \in Over(c) : Age(k)' < Age(i)' => Age(k)' <= Age(j)'
          BY <1>7, <3>3 DEF Below
        <5>2. \A k \in Over(c) : Age(k)' = Age(k)
          BY <1>4 DEF Over
        <5>q. QED  BY <3>1, <4>2, <5>1, <5>2 DEF Below
      <4>q. QED  BY <1>1, <3>1, <4>2, <4>3 DEF MemoryInv, BackupChain
    <3>q. QED  BY <3>1, <3>2, <3>3
  <2>q. QED  BY <2>1, <2>2
<1>9. MemoryShowsNewest'
  <2> SUFFICES ASSUME ~tainted, NEW c \in Cell
               PROVE  /\ Over(c)' = {} => memory'[c] = base[c]
                      /\ \A i \in Live' : Newest(c, i)' => memory'[c] = slots'[i].patch.new[c]
    BY <1>2 DEF MemoryShowsNewest
  <2>1. CASE c \in Span(req)
    <3>1. memory'[c] = Written(req)[c]
      BY <1>1, <1>2, <2>1 DEF Overwrite
    <3>2. ASSUME NEW i \in Live', Newest(c, i)' PROVE i = n
      <4>1. n \in Over(c)'
        BY <1>7, <2>1
      <4>2. Age(n)' <= Age(i)'
        <5>1. \A k \in Over(c)' : Age(k)' <= Age(i)'
          BY <3>2 DEF Newest, Over, Live, SpanOf
        <5>q. QED  BY <4>1, <5>1
      <4>q. QED  BY <1>1, <1>2, <1>3, <1>4, <1>5, <4>2
    <3>q. QED  BY <1>1, <1>7, <2>1, <3>1, <3>2 DEF NewPatch
  <2>2. CASE c \notin Span(req)
    <3>1. memory'[c] = memory[c] /\ Over(c)' = Over(c)
      BY <1>1, <1>2, <1>7, <2>2 DEF Overwrite
    <3>2. \A i \in Live' : Newest(c, i)' => i \in Live /\ Newest(c, i)
      BY <1>1, <1>4, <3>1 DEF Newest, Over
    <3>q. QED  BY <1>1, <3>1, <3>2 DEF MemoryInv, MemoryShowsNewest
  <2>q. QED  BY <2>1, <2>2
<1>q. QED  BY <1>6, <1>8, <1>9 DEF MemoryInv

(* Only the newest patch on each of its cells is removed, and the backup it  *)
(* writes back is the byte of the next older one.                            *)
LEMMA MemoryRemove ==
  ASSUME StorageInv, MemoryInv, NEW h \in Handle, NEW restored \in BOOLEAN,
         RemovePatch(h, restored)
  PROVE  MemoryInv'
<1> USE DEF Age
<1>1. PICK m :
      /\ m = handleIndex(h) /\ m \in Live /\ Live' = Live \ {m}
      /\ \A j \in Live' : slots'[j] = slots[j]
  BY RemoveEffect DEF StorageInv, Live
<1>2. clock' = clock /\ base' = base
  BY DEF RemovePatch
<1>3. \A j \in Live' : Age(j)' = Age(j) /\ SpanOf(j)' = SpanOf(j)
  BY <1>1 DEF SpanOf
<1>4. \A c : Over(c)' = Over(c) \ {m}
  BY <1>1, <1>3 DEF Over
<1>5. AgesOrdered'
  BY <1>1, <1>2, <1>3 DEF MemoryInv, AgesOrdered
<1>6. ASSUME ~tainted' PROVE BackupChain' /\ MemoryShowsNewest'
  <2>1. /\ ~tainted /\ memory' = Overwrite(memory, slots[m].patch.backup)
        /\ \A j \in Live : Age(j) > Age(m) => SpanOf(j) \cap SpanOf(m) = {}
    BY <1>1, <1>6 DEF RemovePatch, Covered
  <2>2. DOMAIN slots[m].patch.backup = SpanOf(m)
    BY <1>1 DEF StorageInv, TypeOK, Live
  <2>3. \A c \in Cell : memory'[c] = IF m \in Over(c) THEN slots[m].patch.backup[c] ELSE memory[c]
    BY <1>1, <2>1, <2>2 DEF Overwrite, Over
  <2>4. \A c : m \in Over(c) => \A k \in Over(c) \ {m} : Age(k) < Age(m)
    <3>1. \A k \in Live : Age(k) \in Nat /\ (Age(k) = Age(m) => k = m)
      BY <1>1 DEF MemoryInv, AgesOrdered
    <3>q. QED  BY <1>1, <2>1, <3>1 DEF Over
  <2>5. \A c : \A k \in Over(c) \ {m} : k \in Live /\ k \in Live' /\ Age(k)' = Age(k)
    BY <1>1, <1>3 DEF Over
  <2>6. ASSUME NEW c \in Cell, NEW i \in Over(c) \ {m}, Lowest(c, i)' PROVE Lowest(c, i)
    <3>1. \A k \in Over(c) \ {m} : Age(i)' <= Age(k)'
      BY <1>4, <2>6 DEF Lowest, Over, Live, SpanOf
    <3>2. \A k \in Over(c) : Age(k) \in Nat
      BY DEF Over, MemoryInv, AgesOrdered
    <3>q. QED  BY <2>4, <2>5, <3>1, <3>2 DEF Lowest
  <2>7. ASSUME NEW c \in Cell, NEW i \in Over(c) \ {m}, NEW j \in Live', Below(c, i, j)'
        PROVE  Below(c, i, j) /\ j \in Live
    <3>1. /\ j \in Over(c) \ {m} /\ Age(j)' < Age(i)'
          /\ \A k \in Over(c) \ {m} : Age(k)' < Age(i)' => Age(k)' <= Age(j)'
      BY <1>4, <2>7 DEF Below, Over, Live, SpanOf
    <3>2. \A k \in Over(c) : Age(k) \in Nat
      BY DEF Over, MemoryInv, AgesOrdered
    <3>q. QED  BY <2>4, <2>5, <3>1, <3>2 DEF Below
  <2>8. BackupChain'
    <3> SUFFICES ASSUME NEW c \in Cell, NEW i \in Over(c)'
                 PROVE  /\ Lowest(c, i)' => slots'[i].patch.backup[c] = base[c]
                        /\ \A j \in Live' : Below(c, i, j)' =>
                              slots'[i].patch.backup[c] = slots'[j].patch.new[c]
      BY <1>2 DEF BackupChain
    <3>1. i \in Over(c) \ {m} /\ slots'[i] = slots[i]
      BY <1>1, <1>4, <2>5
    <3>2. Lowest(c, i)' => slots[i].patch.backup[c] = base[c]
      BY <2>1, <2>6, <3>1 DEF MemoryInv, BackupChain
    <3>3. \A j \in Live' : Below(c, i, j)' => slots[i].patch.backup[c] = slots[j].patch.new[c]
      BY <2>1, <2>7, <3>1 DEF MemoryInv, BackupChain
    <3>q. QED  BY <1>1, <3>1, <3>2, <3>3
  <2>9. MemoryShowsNewest'
    <3> SUFFICES ASSUME NEW c \in Cell
                 PROVE  /\ Over(c)' = {} => memory'[c] = base[c]
                        /\ \A i \in Live' : Newest(c, i)' => memory'[c] = slots'[i].patch.new[c]
      BY <1>2 DEF MemoryShowsNewest
    <3>1. ASSUME NEW i \in Live', Newest(c, i)'
          PROVE  /\ i \in Over(c) \ {m} /\ slots'[i] = slots[i]
                 /\ \A k \in Over(c) \ {m} : Age(k) <= Age(i)
      <4>1. i \in Over(c) \ {m} /\ \A k \in Over(c) \ {m} : Age(k)' <= Age(i)'
        BY <1>4, <3>1 DEF Newest, Over, Live, SpanOf
      <4>q. QED  BY <1>1, <2>5, <4>1
    <3>2. CASE m \in Over(c)
      <4>1. memory'[c] = slots[m].patch.backup[c]
        BY <2>3, <3>2
      <4>2. ASSUME Over(c)' = {} PROVE slots[m].patch.backup[c] = base[c]
        <5>1. Age(m) \in Nat
          BY <1>1 DEF MemoryInv, AgesOrdered
        <5>2. Lowest(c, m)
          BY <1>4, <4>2, <5>1 DEF Lowest
        <5>q. QED  BY <2>1, <3>2, <5>2 DEF MemoryInv, BackupChain
      <4>3. ASSUME NEW i \in Live', Newest(c, i)'
            PROVE  slots[m].patch.backup[c] = slots'[i].patch.new[c]
        <5>1. Below(c, m, i)
          <6>1. \A k \in Over(c) : Age(k) \in Nat
            BY DEF Over, MemoryInv, AgesOrdered
          <6>q. QED  BY <2>4, <3>1, <3>2, <4>3, <6>1 DEF Below
        <5>q. QED  BY <1>1, <2>1, <3>1, <3>2, <4>3, <5>1 DEF MemoryInv, BackupChain
      <4>q. QED  BY <4>1, <4>2, <4>3
    <3>3. CASE m \notin Over(c)
      <4>1. memory'[c] = memory[c] /\ Over(c)' = Over(c)
        BY <1>4, <2>3, <3>3
      <4>2. \A i \in Live' : Newest(c, i)' => i \in Live /\ Newest(c, i) /\ slots'[i] = slots[i]
        BY <1>1, <3>1, <3>3 DEF Newest
      <4>q. QED  BY <2>1, <4>1, <4>2 DEF MemoryInv, MemoryShowsNewest
    <3>q. QED  BY <3>2, <3>3
  <2>q. QED  BY <2>8, <2>9
<1>7. ASSUME tainted' PROVE BackupChain' /\ MemoryShowsNewest'
  BY <1>7 DEF BackupChain, MemoryShowsNewest
<1>q. QED  BY <1>5, <1>6, <1>7 DEF MemoryInv

(* A write clear of every patch changes the game's own bytes only.          *)
LEMMA MemoryWrite ==
  ASSUME StorageInv, MemoryInv, NEW req \in Request, WriteMemory(req)
  PROVE  MemoryInv'
<1>1. /\ UNCHANGED <<slots, clock>>
      /\ memory' = Overwrite(memory, Written(req)) /\ base' = Overwrite(base, Written(req))
  BY DEF WriteMemory
<1>2. AgesOrdered'
  BY <1>1 DEF MemoryInv, AgesOrdered, Live, Age
<1>3. ASSUME ~tainted' PROVE BackupChain' /\ MemoryShowsNewest'
  <2>1. ~tainted /\ \A i \in Live : SpanOf(i) \cap Span(req) = {}
    BY <1>3 DEF WriteMemory
  <2>2. DOMAIN Written(req) = Span(req)
    BY DEF Written
  <2>3. ASSUME NEW c \in Cell, NEW i \in Over(c) PROVE memory'[c] = memory[c] /\ base'[c] = base[c]
    BY <1>1, <2>1, <2>2, <2>3 DEF Overwrite, Over
  <2>4. ASSUME NEW c \in Cell, memory[c] = base[c] PROVE memory'[c] = base'[c]
    BY <1>1, <2>4 DEF Overwrite
  <2>5. BackupChain'
    BY <1>1, <2>1, <2>3 DEF MemoryInv, BackupChain, Lowest, Below, Over, Live, SpanOf, Age
  <2>6. MemoryShowsNewest'
    BY <1>1, <2>1, <2>3, <2>4 DEF MemoryInv, MemoryShowsNewest, Newest, Over, Live, SpanOf, Age
  <2>q. QED  BY <2>5, <2>6
<1>4. ASSUME tainted' PROVE BackupChain' /\ MemoryShowsNewest'
  BY <1>4 DEF BackupChain, MemoryShowsNewest
<1>q. QED  BY <1>2, <1>3, <1>4 DEF MemoryInv

(* Every call keeps what memory shows and what the backups hold.            *)
LEMMA MemoryStep ==
  ASSUME StorageInv, MemoryInv, [Next]_vars
  PROVE  MemoryInv'
<1>1. ASSUME NEW req \in Request, RefuseMake(req) \/ MakePatchAtBase(req) PROVE MemoryInv'
  BY <1>1, MemoryUnchanged DEF RefuseMake, MakePatchAtBase
<1>2. ASSUME NEW h \in Handle, RefuseRemove(h) PROVE MemoryInv'
  BY <1>2, MemoryUnchanged DEF RefuseRemove
<1>3. ASSUME NEW req \in Request, MakePatch(req) \/ WriteMemory(req) PROVE MemoryInv'
  BY <1>3, MemoryMake, MemoryWrite
<1>4. ASSUME NEW h \in Handle, NEW restored \in BOOLEAN, RemovePatch(h, restored)
      PROVE  MemoryInv'
  BY <1>4, MemoryRemove
<1>5. CASE UNCHANGED vars
  BY <1>5, MemoryUnchanged DEF vars
<1>q. QED  BY <1>1, <1>2, <1>3, <1>4, <1>5 DEF Next

(* While overlapping patches are removed newest first and nothing else       *)
(* writes over a patch, the image shows the newest patch on every cell, and  *)
(* the game's own byte where no patch lies.                                  *)
THEOREM MemoryCorrect == Spec => []MemoryShowsNewest
<1>1. Init => MemoryInv
  BY DEF Init, MemoryInv, AgesOrdered, BackupChain, MemoryShowsNewest, Newest, Over, Live
<1>2. StorageInv /\ MemoryInv /\ [Next]_vars => MemoryInv'
  BY MemoryStep
<1>3. MemoryInv => MemoryShowsNewest
  BY DEF MemoryInv
<1>q. QED  BY <1>1, <1>2, <1>3, StorageInvariant, PTL DEF Spec

-----------------------------------------------------------------------------
(* Refinement.  A handle stands for its slot and generation, so the sets of  *)
(* the registry are read off the slots.                                      *)

LiveHandles == {HandleOf(i) : i \in Live}

(* The flag is set before the first call, so no patch was ever applied.      *)
NothingWithout == noPatches => Live = {}

RegistryInv == StorageInv /\ NothingWithout

(* With patches switched off, no slot is ever filled.                       *)
LEMMA NothingWithoutStep ==
  ASSUME StorageInv, NothingWithout, [Next]_vars
  PROVE  NothingWithout'
<1>1. CASE noPatches
  <2>1. UNCHANGED slots
    BY <1>1 DEF Next, vars, MakePatch, RefuseMake, MakePatchAtBase, WriteMemory, RemovePatch,
                RefuseRemove
  <2>q. QED  BY <1>1, <2>1 DEF NothingWithout, Live
<1>2. CASE ~noPatches
  <2>1. ~noPatches'
    BY <1>2 DEF Next, vars, MakePatch, RefuseMake, MakePatchAtBase, WriteMemory, RemovePatch,
                RefuseRemove
  <2>q. QED  BY <2>1 DEF NothingWithout
<1>q. QED  BY <1>1, <1>2

(* What the refinement needs of a state holds in every reachable one.       *)
LEMMA RegistryInvariant == Spec => []RegistryInv
<1>1. Init => NothingWithout
  BY DEF Init, NothingWithout, Live
<1>2. StorageInv /\ NothingWithout /\ [Next]_vars => NothingWithout'
  BY NothingWithoutStep
<1>q. QED  BY <1>1, <1>2, StorageInvariant, PTL DEF Spec, RegistryInv

(* The same as HandleFields, for the state after a step.                    *)
LEMMA HandleFieldsNext ==
  ASSUME MaxGeneration < HandleGenerations, Fits', NEW i \in DOMAIN slots'
  PROVE  /\ HandleOf(i)' = <<slots'[i].generation, i>>
         /\ HandleOf(i)' \in Handle
<1>1. /\ i \in 0 .. HandleIndexes - 1 /\ HandleIndexes \in Nat \ {0}
      /\ slots'[i].generation \in 0 .. HandleGenerations - 1
      /\ HandleGenerations \in Nat \ {0}
  BY BoundsAssumption DEF Fits
<1>2. i % HandleIndexes = i
  BY <1>1, ModSmall
<1>3. slots'[i].generation % HandleGenerations = slots'[i].generation
  BY <1>1, ModSmall
<1>q. QED  BY <1>1, <1>2, <1>3 DEF HandleOf, makeHandle, Handle

(* A successful makePatch is the registry's Make with a handle never used   *)
(* before.                                                                  *)
LEMMA RegistryMake ==
  ASSUME MaxGeneration < HandleGenerations, StorageInv, StorageInv',
         NEW req \in Request, MakePatch(req)
  PROVE  Registry!Next
<1>1. PICK n :
      /\ n = EmplaceIndex /\ n \notin Live /\ Live' = Live \cup {n}
      /\ DOMAIN slots' = DOMAIN slots \cup {n}
      /\ slots'[n].generation = GenerationAt(n)
      /\ \A j \in DOMAIN slots : j # n => slots'[j] = slots[j]
  BY MakeEffect DEF StorageInv
<1>2. PICK g : g = GenerationAt(n)
  OBVIOUS
<1> DEFINE h == <<g, n>>
<1>3. \A i \in DOMAIN slots : HandleOf(i) = <<slots[i].generation, i>> /\ HandleOf(i) \in Handle
  BY HandleFields DEF StorageInv
<1>4. \A i \in DOMAIN slots' : HandleOf(i)' = <<slots'[i].generation, i>>
  BY HandleFieldsNext DEF StorageInv
<1>5. /\ h \in Handle /\ n # 0 /\ g \in Nat
      /\ h = makeHandle(n, g)
  BY <1>1, <1>2, HandleFieldsNext DEF StorageInv, Fits, HandleOf
<1>6. h \notin LiveHandles
  BY <1>1, <1>3 DEF LiveHandles, Live
<1>7. h \notin RetiredHandles
  BY <1>1, <1>2, <1>5 DEF RetiredHandles, GenerationAt, handleIndex, handleGen
<1>8. LiveHandles' = LiveHandles \cup {h}
  <2>1. \A i \in Live : HandleOf(i)' = HandleOf(i)
    BY <1>1, <1>3, <1>4 DEF Live
  <2>2. HandleOf(n)' = h
    BY <1>1, <1>2, <1>4
  <2>q. QED  BY <1>1, <2>1, <2>2 DEF LiveHandles
<1>9. RetiredHandles' = RetiredHandles
  <2>1. \A k \in Handle : handleGen(k) \in Nat
    BY BoundsAssumption DEF Handle, handleGen
  <2>2. n \in DOMAIN slots => slots'[n].generation = slots[n].generation
    BY <1>1 DEF GenerationAt
  <2>3. n \notin DOMAIN slots => slots'[n].generation = 0
    BY <1>1 DEF GenerationAt
  <2>q. QED  BY <1>1, <2>1, <2>2, <2>3 DEF RetiredHandles
<1>10. result' = Registry!Made(h)
  BY <1>1, <1>2, <1>5 DEF MakePatch, Made, Registry!Made
<1>11. h # InvalidHandle
  BY <1>5 DEF InvalidHandle
<1>q. QED
  BY <1>5, <1>6, <1>7, <1>8, <1>9, <1>10, <1>11 DEF LiveHandles, Registry!Next, Registry!Make

(* A successful removePatch is the registry's Remove, and retires exactly   *)
(* that handle.                                                             *)
LEMMA RegistryRemove ==
  ASSUME MaxGeneration < HandleGenerations, StorageInv, StorageInv',
         NEW h \in Handle, NEW restored \in BOOLEAN, RemovePatch(h, restored)
  PROVE  Registry!Next
<1>1. PICK m :
      /\ m = handleIndex(h) /\ m \in Live /\ Live' = Live \ {m}
      /\ DOMAIN slots' = DOMAIN slots
      /\ slots'[m].generation = slots[m].generation + 1
      /\ \A j \in DOMAIN slots : j # m => slots'[j] = slots[j]
  BY RemoveEffect DEF StorageInv
<1>2. m \in DOMAIN slots /\ h = <<slots[m].generation, m>>
  BY <1>1 DEF RemovePatch, HasPatch, handleGen, handleIndex, Handle, Live
<1>3. \A i \in DOMAIN slots : HandleOf(i) = <<slots[i].generation, i>> /\ HandleOf(i) \in Handle
  BY HandleFields DEF StorageInv
<1>4. \A i \in DOMAIN slots' : HandleOf(i)' = <<slots'[i].generation, i>>
  BY HandleFieldsNext DEF StorageInv
<1>5. h \in LiveHandles
  BY <1>1, <1>2, <1>3 DEF LiveHandles
<1>6. LiveHandles' = LiveHandles \ {h}
  <2>1. \A i \in Live' : HandleOf(i)' = HandleOf(i) /\ HandleOf(i) # h
    BY <1>1, <1>2, <1>3, <1>4 DEF Live
  <2>q. QED  BY <1>1, <1>2, <1>3, <2>1 DEF LiveHandles
<1>7. RetiredHandles' = RetiredHandles \cup {h}
  <2>1. \A k \in Handle : handleGen(k) \in Nat /\ k = <<handleGen(k), handleIndex(k)>>
    BY BoundsAssumption DEF Handle, handleGen, handleIndex
  <2>2. slots[m].generation \in Nat /\ handleIndex(h) = m /\ handleGen(h) = slots[m].generation
    BY <1>2 DEF StorageInv, Fits, handleGen, handleIndex
  <2>3. ASSUME NEW k \in Handle, handleIndex(k) = m
        PROVE  handleGen(k) < slots[m].generation + 1 <=>
                 handleGen(k) < slots[m].generation \/ k = h
    BY <1>2, <2>1, <2>2, <2>3
  <2>4. ASSUME NEW k \in Handle
        PROVE  k \in RetiredHandles' <=> k \in RetiredHandles \/ k = h
    <3>1. CASE handleIndex(k) = m
      BY <1>1, <1>2, <2>3, <3>1 DEF RetiredHandles
    <3>2. CASE handleIndex(k) # m
      BY <1>1, <2>2, <3>2 DEF RetiredHandles
    <3>q. QED  BY <3>1, <3>2
  <2>q. QED  BY <2>4 DEF RetiredHandles
<1>8. result' = Registry!Removed(h, TRUE)
  BY DEF RemovePatch, Removed, Registry!Removed
<1>q. QED  BY <1>5, <1>6, <1>7, <1>8 DEF LiveHandles, Registry!Next, Registry!Remove

(* Live and retired handles depend on the slots alone.                      *)
LEMMA RegistryUnchanged ==
  ASSUME UNCHANGED slots
  PROVE  LiveHandles' = LiveHandles /\ RetiredHandles' = RetiredHandles
BY DEF LiveHandles, RetiredHandles, HandleOf, Live

(* A removal is refused only for a handle that is not live.                 *)
LEMMA RegistryRefuseRemove ==
  ASSUME MaxGeneration < HandleGenerations, RegistryInv, NEW h \in Handle, RefuseRemove(h)
  PROVE  Registry!Next
<1>1. LiveHandles' = LiveHandles /\ RetiredHandles' = RetiredHandles
  BY RegistryUnchanged DEF RefuseRemove
<1>2. h \notin LiveHandles
  <2>1. ASSUME NEW i \in Live, h = HandleOf(i) PROVE FALSE
    <3>1. h = <<slots[i].generation, i>>
      BY <2>1, HandleFields DEF RegistryInv, StorageInv, Live
    <3>2. HasPatch(h)
      BY <2>1, <3>1 DEF HasPatch, handleIndex, handleGen
    <3>3. ~noPatches
      BY DEF RegistryInv, NothingWithout
    <3>q. QED  BY <3>2, <3>3 DEF RefuseRemove
  <2>q. QED  BY <2>1 DEF LiveHandles
<1>q. QED
  BY <1>1, <1>2 DEF LiveHandles, RefuseRemove, Removed, Registry!Next, Registry!RefuseRemove,
                    Registry!Removed

(* Every step of the storage is a step of the registry or leaves it as it   *)
(* is.                                                                      *)
LEMMA RegistryStep ==
  ASSUME MaxGeneration < HandleGenerations, RegistryInv, RegistryInv', [Next]_vars
  PROVE  [Registry!Next]_(Registry!vars)
<1>1. ASSUME NEW req \in Request, MakePatch(req) PROVE Registry!Next
  BY <1>1, RegistryMake DEF RegistryInv
<1>2. ASSUME NEW req \in Request, RefuseMake(req) PROVE Registry!Next
  <2>1. LiveHandles' = LiveHandles /\ RetiredHandles' = RetiredHandles
    BY <1>2, RegistryUnchanged DEF RefuseMake
  <2>q. QED
    BY <1>2, <2>1 DEF LiveHandles, RefuseMake, Made, Registry!Next, Registry!RefuseMake, Registry!Made
<1>3. ASSUME UNCHANGED <<slots, result>> PROVE UNCHANGED Registry!vars
  BY <1>3, RegistryUnchanged DEF LiveHandles, Registry!vars
<1>4. ASSUME NEW req \in Request, MakePatchAtBase(req) \/ WriteMemory(req)
      PROVE  UNCHANGED Registry!vars
  BY <1>3, <1>4 DEF MakePatchAtBase, WriteMemory
<1>5. ASSUME NEW h \in Handle, NEW restored \in BOOLEAN, RemovePatch(h, restored)
      PROVE  Registry!Next
  BY <1>5, RegistryRemove DEF RegistryInv
<1>6. ASSUME NEW h \in Handle, RefuseRemove(h) PROVE Registry!Next
  BY <1>6, RegistryRefuseRemove
<1>7. CASE UNCHANGED vars
  BY <1>3, <1>7 DEF vars
<1>q. QED  BY <1>1, <1>2, <1>4, <1>5, <1>6, <1>7 DEF Next

(* The storage implements the registry: every handle it returns names the    *)
(* patch for as long as it is applied and is never returned again, as long   *)
(* as the generation field of a handle can count the times a slot is emptied.*)
THEOREM RegistryImplemented ==
  ASSUME MaxGeneration < HandleGenerations
  PROVE  Spec => ImplementsRegistry
<1>1. Init => Registry!Init
  BY DEF Init, Registry!Init, Registry!NoCall, Live, RetiredHandles
<1>2. RegistryInv /\ RegistryInv' /\ [Next]_vars => [Registry!Next]_(Registry!vars)
  BY RegistryStep
<1>q. QED  BY <1>1, <1>2, RegistryInvariant, PTL DEF Spec, ImplementsRegistry, Registry!Spec

=============================================================================
