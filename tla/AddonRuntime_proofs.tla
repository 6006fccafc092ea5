------------------------ MODULE AddonRuntime_proofs ------------------------
(***************************************************************************)
(* Proofs about the runtime thread with what it keeps on disk, for every   *)
(* load order, depth of the stack, set of handlers, closures, files,       *)
(* contents, assets and converters.                                        *)
(*                                                                         *)
(* Scripts (EngineDispatch): what the log context names is a matter of the *)
(* innermost two frames, so the shape of the whole stack is needed:        *)
(* callbacks and dispatches take turns, and a dispatch from which a        *)
(* handler was called has lost the context of its caller, which the caller *)
(* learns when it returns.                                                 *)
(*                                                                         *)
(* Files (LocalVfs): while no flaw but "cut" is noted, the whole archive,  *)
(* and the cache of each closure that nobody wrote behind, hold what is    *)
(* stored; a call under way is about to write what it will be told.        *)
(*                                                                         *)
(* Assets (AssetOverlay): an entry of the cache of conversions names a     *)
(* result its pair has claimed, and unless another pair has claimed the    *)
(* name, the file there is that result, of the converter installed now or  *)
(* of an older one.  The loops over assets and converters keep this, by    *)
(* induction on their turns.                                               *)
(*                                                                         *)
(* Each step of the runtime is a step of each of the three, or leaves it   *)
(* alone, so what is proved of the parts holds of the whole; that what an  *)
(* addon writes goes home needs the first two.                             *)
(***************************************************************************)
EXTENDS AddonRuntime, SequenceTheorems, WellFoundedInduction, TLAPS

-----------------------------------------------------------------------------
(* The scripts on the thread (EngineDispatch).                             *)

USE DispatchAssumption

LEMMA OrderFacts ==
    /\ Len(Order) \in Nat \ {0}
    /\ \A i \in 1..Len(Order) : Order[i] \in Addons
    /\ \A a \in Addons : \E i \in 1..Len(Order) : a = Order[i]
  BY DEF Addons

-----------------------------------------------------------------------------
(* Stacks are sequences with their top in front.                           *)

LEMMA PushFacts ==
    ASSUME NEW S, NEW s \in Seq(S), NEW x \in S
    PROVE  LET p == <<x>> \o s IN
           /\ p \in Seq(S) /\ p # <<>>
           /\ Len(p) = Len(s) + 1
           /\ Head(p) = x /\ p[1] = x
           /\ \A k \in 1..Len(s) : p[k + 1] = s[k]
  OBVIOUS

LEMMA PopFacts ==
    ASSUME NEW S, NEW s \in Seq(S), s # <<>>
    PROVE  /\ Len(s) \in Nat \ {0}
           /\ Head(s) = s[1] /\ s[1] \in S
           /\ Tail(s) \in Seq(S)
           /\ Len(Tail(s)) = Len(s) - 1
           /\ \A k \in 1..(Len(s) - 1) : Tail(s)[k] = s[k + 1]
<1>1. Len(s) \in Nat \ {0}
  BY EmptySeq
<1>2. Head(s) = s[1]
  OBVIOUS
<1>3. s[1] \in S
  BY <1>1, ElementOfSeq
<1> QED
  BY <1>1, <1>2, <1>3, HeadTailProperties

\* There is a last of some positions.
LEMMA LastExists ==
    ASSUME NEW n \in Nat, NEW left \in SUBSET (1..n), left # {}
    PROVE  \E j \in left : \A k \in left : k <= j
<1> DEFINE fromEnd == {n - k : k \in left}
<1>1. fromEnd \subseteq Nat /\ fromEnd # {}
  <2>1. \A k \in left : n - k \in Nat
    OBVIOUS
  <2>2. PICK k \in left : TRUE
    OBVIOUS
  <2>3. n - k \in fromEnd
    BY <2>2
  <2> QED
    BY <2>1, <2>3
<1>2. PICK x \in fromEnd : \A y \in fromEnd : ~(<<y, x>> \in OpToRel(<, Nat))
  BY <1>1, NatLessThanWellFounded, WFMin
<1>3. \A y \in fromEnd : ~(y < x)
  BY <1>1, <1>2 DEF OpToRel
<1>4. PICK j \in left : x = n - j
  OBVIOUS
<1>5. ASSUME NEW k \in left
      PROVE  k <= j
  <2>1. ~(n - k < n - j)
    BY <1>3, <1>4
  <2>2. k \in Nat /\ j \in Nat
    OBVIOUS
  <2> QED
    BY <2>1, <2>2
<1> QED
  BY <1>5

-----------------------------------------------------------------------------
(* The invariant.                                                          *)

Turns ==
    task.step \notin {"drain", "message", "watch", "ended"} =>
        task.turn \in 1..Len(Order)

Alternating ==
    \A k \in 1..Len(stack) : k < Len(stack) =>
        IF stack[k].of = Nobody THEN stack[k + 1].of # Nobody
        ELSE stack[k + 1].of = Nobody /\ stack[k + 1].lost

\* The outermost frame is the callback of the runtime, or serves an event.
Bottom ==
    stack # <<>> =>
        IF task.step = "message" THEN stack[Len(stack)].of = Nobody
        ELSE task.step \in Callbacks /\ stack[Len(stack)].of = Current

Named(f) == IF f.lost THEN Nobody ELSE f.of

ContextNamed ==
    IF stack = <<>> THEN context = Nobody
    ELSE IF stack[1].of # Nobody THEN context = Named(stack[1])
    ELSE IF Len(stack) = 1 \/ stack[1].lost THEN context = Nobody
    ELSE context = Named(stack[2])

\* The first load loads all addons; later only those that asked for it go.
Progress ==
    /\ task.step \in {"assets", "register", "eval", "init"} =>
          \A j \in 1..Len(Order) : j < task.turn => Order[j] \in loaded
    /\ task.step \in {"post_init", "drain", "message", "watch", "unload",
                      "re_register", "re_eval", "load"} => Addons \ loaded \subseteq asked
    /\ pending \subseteq asked

\* The addon whose script loads is the one Engine stands for.
Registered ==
    /\ Len(regs) <= MaxRegistrations
    /\ task.step \in Loading => regs # <<>> /\ regs[Len(regs)] = Current

DispatchInv ==
    /\ DispatchTypeOK /\ Turns /\ Alternating /\ Bottom
    /\ ContextNamed /\ Progress /\ Registered

LEMMA InitDispatchInv == DispatchInit => DispatchInv
<1> SUFFICES ASSUME DispatchInit PROVE DispatchInv
  OBVIOUS
<1>1. DispatchTypeOK /\ Turns
  BY OrderFacts DEF DispatchInit, DispatchTypeOK, Turns, Task, Steps
<1>2. Alternating /\ Bottom /\ ContextNamed /\ Registered
  BY DEF DispatchInit, Alternating, Bottom, ContextNamed, Registered, Task, Loading
<1>3. Progress
  BY DEF DispatchInit, Progress, Task
<1> QED
  BY <1>1, <1>2, <1>3 DEF DispatchInv

-----------------------------------------------------------------------------
(* Steps outside of all callbacks: the stack stays empty.                  *)

\* Where the runtime is at nothing of these, no code of an addon runs.
LEMMA NothingRuns ==
    ASSUME DispatchInv, task.step \notin Callbacks \cup {"message"}
    PROVE  stack = <<>>
  BY DEF DispatchInv, Bottom

LEMMA QuitTurn ==
    ASSUME DispatchTypeOK, NEW i \in 0..Len(Order)
    PROVE  /\ NextToQuit(i) \in [step : {"quit", "ended"}, turn : 0..Len(Order)]
           /\ NextToQuit(i).step = "quit" => NextToQuit(i).turn \in 1..Len(Order)
<1> DEFINE left == {j \in 1..i : Order[j] \in loaded}
<1>1. CASE left = {}
  BY <1>1, OrderFacts DEF NextToQuit, Ended, Task
<1>2. CASE left # {}
  <2>1. \E j \in left : \A k \in left : k <= j
    <3>1. left \in SUBSET (1..i) /\ i \in Nat
      BY OrderFacts
    <3> HIDE DEF left
    <3> QED
      BY <1>2, <3>1, LastExists
  <2>2. (CHOOSE j \in left : \A k \in left : k <= j) \in left
    BY <2>1
  <2> HIDE DEF left
  <2>3. NextToQuit(i) = Task("quit", CHOOSE j \in left : \A k \in left : k <= j)
    BY <1>2 DEF NextToQuit, left
  <2>4. left \subseteq 1..Len(Order)
    BY OrderFacts DEF left
  <2>5. (CHOOSE j \in left : \A k \in left : k <= j) \in 1..Len(Order)
    BY <2>2, <2>4
  <2> QED
    BY <2>3, <2>5, OrderFacts DEF Task
<1> QED
  BY <1>1, <1>2

\* Steps between callbacks that only move the runtime on.
LEMMA OutsideInv ==
    ASSUME DispatchInv, stack = <<>>, stack' = <<>>, context' = context,
           tables' = tables, loaded' = loaded, regs' = regs,
           pending' = pending, asked' = asked,
           task' \in [step : Steps, turn : 0..Len(Order)],
           Turns', Progress', Registered'
    PROVE  DispatchInv'
<1>1. DispatchTypeOK'
  BY DEF DispatchInv, DispatchTypeOK
<1>2. Alternating' /\ Bottom' /\ ContextNamed'
  BY DEF DispatchInv, Alternating, Bottom, ContextNamed
<1> QED
  BY <1>1, <1>2 DEF DispatchInv

LEMMA MovesOnInv ==
    ASSUME DispatchInv,
           AssetsRegistered \/ AssetsFail \/ ScriptRefused \/ NoMessage \/ Shutdown
             \/ TurnEnds \/ \E i \in 1..Len(Order) : Reload(i)
    PROVE  DispatchInv'
<1> USE DEF DispatchInv
<1>1. CASE AssetsRegistered
  <2>1. /\ task' \in [step : Steps, turn : 0..Len(Order)]
        /\ task'.step = "register" /\ task'.turn = task.turn
    BY <1>1, OrderFacts DEF AssetsRegistered, Task, Steps, Callbacks, Loading, DispatchTypeOK
  <2>2. Turns' /\ Progress' /\ Registered'
    BY <1>1, <2>1 DEF AssetsRegistered, Turns, Progress, Registered, Loading
  <2> QED
    BY <1>1, <2>1, <2>2, NothingRuns, OutsideInv DEF AssetsRegistered, Callbacks, Loading
<1>2. CASE AssetsFail
  <2>1. /\ task' \in [step : Steps, turn : 0..Len(Order)]
        /\ task'.step = "ended"
    BY <1>2, OrderFacts DEF AssetsFail, Task, Steps, Callbacks, Loading, Ended
  <2>2. Turns' /\ Progress' /\ Registered'
    BY <1>2, <2>1 DEF AssetsFail, Turns, Progress, Registered, Loading
  <2> QED
    BY <1>2, <2>1, <2>2, NothingRuns, OutsideInv DEF AssetsFail, Callbacks, Loading
<1>3. CASE ScriptRefused
  <2>1. /\ task' \in [step : Steps, turn : 0..Len(Order)]
        /\ task'.step = "ended" \/ (task.step = "re_eval" /\ task'.step = "watch")
    BY <1>3, OrderFacts DEF ScriptRefused, Task, Steps, Callbacks, Loading, Ended
  <2>2. Turns' /\ Progress' /\ Registered'
    BY <1>3, <2>1 DEF ScriptRefused, Turns, Progress, Registered, Loading
  <2> QED
    BY <1>3, <2>1, <2>2, NothingRuns, OutsideInv DEF ScriptRefused, Callbacks, Loading
<1>4. CASE NoMessage
  <2>1. /\ task' \in [step : Steps, turn : 0..Len(Order)]
        /\ task'.step = "watch"
    BY <1>4, OrderFacts DEF NoMessage, Task, Steps, Callbacks, Loading
  <2>2. Turns' /\ Progress' /\ Registered'
    BY <1>4, <2>1 DEF NoMessage, Turns, Progress, Registered, Loading
  <2> QED
    BY <1>4, <2>1, <2>2, NothingRuns, OutsideInv DEF NoMessage, Callbacks, Loading
<1>5. CASE Shutdown
  <2>1. /\ task' \in [step : {"quit", "ended"}, turn : 0..Len(Order)]
        /\ task'.step = "quit" => task'.turn \in 1..Len(Order)
    <3>1. Len(Order) \in 0..Len(Order)
      BY OrderFacts
    <3>2. task' = NextToQuit(Len(Order)) /\ DispatchTypeOK
      BY <1>5 DEF Shutdown
    <3> QED
      BY <3>1, <3>2, QuitTurn
  <2>2. task' \in [step : Steps, turn : 0..Len(Order)]
    BY <2>1 DEF Steps, Callbacks
  <2>3. Turns' /\ Progress' /\ Registered'
    BY <1>5, <2>1 DEF Shutdown, Turns, Progress, Registered, Loading
  <2> QED
    BY <1>5, <2>2, <2>3, OutsideInv DEF Shutdown
<1>6. CASE TurnEnds
  <2>1. /\ task' \in [step : Steps, turn : 0..Len(Order)]
        /\ task'.step = "drain"
    BY <1>6, OrderFacts DEF TurnEnds, Task, Steps, Callbacks, Loading
  <2>2. Turns' /\ Progress' /\ Registered'
    BY <1>6, <2>1 DEF TurnEnds, Turns, Progress, Registered, Loading
  <2> QED
    BY <1>6, <2>1, <2>2, NothingRuns, OutsideInv DEF TurnEnds, Callbacks, Loading
<1>7. ASSUME NEW i \in 1..Len(Order), Reload(i)
      PROVE  DispatchInv'
  <2>1. /\ task' \in [step : Steps, turn : 0..Len(Order)]
        /\ task'.step = "unload" /\ task'.turn = i
    BY <1>7, OrderFacts DEF Reload, Task, Steps, Callbacks, Loading
  <2>2. Turns' /\ Progress' /\ Registered'
    BY <1>7, <2>1 DEF Reload, Turns, Progress, Registered, Loading
  <2> QED
    BY <1>7, <2>1, <2>2, NothingRuns, OutsideInv DEF Reload, Callbacks, Loading
<1> QED
  BY <1>1, <1>2, <1>3, <1>4, <1>5, <1>6, <1>7

LEMMA RegisterInv ==
    ASSUME DispatchInv, Register
    PROVE  DispatchInv'
<1> USE DEF DispatchInv, Register
<1>1. stack = <<>> /\ stack' = <<>> /\ Current \in Addons
  BY NothingRuns, OrderFacts DEF Turns, Current, Callbacks, Loading
<1>2. DispatchTypeOK'
  <2>1. task' \in [step : Steps, turn : 0..Len(Order)]
    BY DEF DispatchTypeOK, Task, Steps, Callbacks, Loading
  <2>2. regs' \in Seq(Addons)
    BY <1>1 DEF DispatchTypeOK
  <2> QED
    BY <1>1, <2>1, <2>2 DEF DispatchTypeOK
<1>3. Alternating' /\ Bottom' /\ ContextNamed'
  BY <1>1 DEF Alternating, Bottom, ContextNamed
<1>4. Turns' /\ Progress'
  BY DEF Turns, Progress, Task
<1>5. Registered'
  <2>1. regs' = Append(regs, Current) /\ regs \in Seq(Addons) /\ Current' = Current
    BY DEF DispatchTypeOK, Current, Task
  <2>2. regs' # <<>> /\ regs'[Len(regs')] = Current
    BY <1>1, <2>1
  <2> QED
    BY <2>1, <2>2 DEF Registered
<1> QED
  BY <1>2, <1>3, <1>4, <1>5

LEMMA DrainInv ==
    ASSUME DispatchInv, Drain
    PROVE  DispatchInv'
<1> USE DEF DispatchInv, Drain
<1>1. stack = <<>> /\ stack' = <<>>
  BY NothingRuns DEF Callbacks, Loading
<1>2. DispatchTypeOK' /\ Turns'
  BY OrderFacts DEF DispatchTypeOK, Turns, Task, Steps
<1>3. Alternating' /\ Bottom' /\ ContextNamed' /\ Registered'
  BY <1>1 DEF Alternating, Bottom, ContextNamed, Registered, Task, Loading
<1>4. Progress'
  BY DEF Progress, Task
<1> QED
  BY <1>2, <1>3, <1>4

-----------------------------------------------------------------------------
(* Steps that call or return.                                              *)

\* What a step keeps that does not move the runtime on.
LEMMA InsideInv ==
    ASSUME DispatchInv, UNCHANGED <<task, tables, loaded, regs>>,
           pending' \subseteq Addons, asked' \subseteq Addons,
           asked \subseteq asked', pending' \subseteq asked',
           stack' \in Seq(Frames), context' \in Addons \cup {Nobody}
    PROVE  DispatchTypeOK' /\ Turns' /\ Progress' /\ Registered'
<1> USE DEF DispatchInv
<1>1. DispatchTypeOK' /\ Turns'
  BY DEF DispatchTypeOK, Turns
<1>2. Progress'
  BY DEF Progress
<1>3. Registered'
  BY DEF Registered, Current
<1> QED
  BY <1>1, <1>2, <1>3

LEMMA EnterInv ==
    ASSUME DispatchInv, Enter
    PROVE  DispatchInv'
<1> USE DEF DispatchInv, Enter
<1>1. Current \in Addons /\ Current' = Current
  BY OrderFacts DEF Turns, Current, Callbacks, Loading
<1>2. Callback(Current) \in Frames
  BY <1>1 DEF Callback, Frames
<1>3. stack' \in Seq(Frames) /\ Len(stack') = 1 /\ stack'[1] = Callback(Current)
  BY <1>2
<1>4. DispatchTypeOK' /\ Turns' /\ Progress' /\ Registered'
  BY <1>1, <1>3, InsideInv DEF DispatchTypeOK, Progress
<1>5. Alternating' /\ Bottom'
  BY <1>1, <1>3 DEF Alternating, Bottom, Callback, Callbacks, Loading
<1>6. ContextNamed'
  BY <1>1, <1>3 DEF ContextNamed, Named, Callback
<1> QED
  BY <1>4, <1>5, <1>6

LEMMA DispatchActionInv ==
    ASSUME DispatchInv, NEW e \in Events, Dispatch(e)
    PROVE  DispatchInv'
<1> USE DEF DispatchInv, Dispatch
<1> DEFINE d == Dispatching(HandlersOf(e))
<1>1. d \in Frames /\ d.of = Nobody /\ ~d.lost
  BY DEF Dispatching, HandlersOf, Frames
<1>2. stack \in Seq(Frames) /\ stack # <<>> /\ Len(stack) \in Nat \ {0} /\ Head(stack) = stack[1]
  BY PopFacts DEF InCallback, DispatchTypeOK
<1> HIDE DEF d
<1>3. stack' = <<d>> \o stack
  BY DEF d
<1>4. /\ stack' \in Seq(Frames) /\ stack' # <<>> /\ Len(stack') = Len(stack) + 1
      /\ stack'[1] = d
      /\ \A k \in 1..Len(stack) : stack'[k + 1] = stack[k]
  BY <1>1, <1>2, <1>3, PushFacts
<1>5. DispatchTypeOK' /\ Turns' /\ Progress' /\ Registered'
  BY <1>4, InsideInv DEF DispatchTypeOK, Progress
<1>6. Alternating'
  <2> SUFFICES ASSUME NEW k \in 1..Len(stack'), k < Len(stack')
               PROVE  IF stack'[k].of = Nobody THEN stack'[k + 1].of # Nobody
                      ELSE stack'[k + 1].of = Nobody /\ stack'[k + 1].lost
    BY DEF Alternating
  <2>1. CASE k = 1
    BY <1>1, <1>2, <1>4, <2>1 DEF InCallback
  <2>2. CASE k # 1
    <3>1. k - 1 \in 1..Len(stack) /\ k - 1 < Len(stack) /\ (k - 1) + 1 = k
      BY <1>2, <1>4, <2>2
    <3>2. stack'[k] = stack[k - 1] /\ stack'[k + 1] = stack[k]
      BY <1>2, <1>4, <3>1
    <3> QED
      BY <3>1, <3>2 DEF Alternating
  <2> QED
    BY <2>1, <2>2
<1>7. Bottom' /\ ContextNamed'
  BY <1>1, <1>2, <1>4 DEF Bottom, ContextNamed, Named, InCallback, Current
<1> QED
  BY <1>5, <1>6, <1>7

LEMMA EventMessageInv ==
    ASSUME DispatchInv, NEW e \in Events, EventMessage(e)
    PROVE  DispatchInv'
<1> USE DEF DispatchInv, EventMessage
<1> DEFINE d == Dispatching(HandlersOf(e))
<1>1. d \in Frames /\ d.of = Nobody /\ ~d.lost
  BY DEF Dispatching, HandlersOf, Frames
<1> HIDE DEF d
<1>2. stack' \in Seq(Frames) /\ Len(stack') = 1 /\ stack'[1] = d
  BY <1>1 DEF d
<1>3. DispatchTypeOK' /\ Turns' /\ Progress' /\ Registered'
  BY <1>2, InsideInv DEF DispatchTypeOK, Progress
<1>4. Alternating' /\ Bottom' /\ ContextNamed'
  BY <1>1, <1>2 DEF Alternating, Bottom, ContextNamed
<1> QED
  BY <1>3, <1>4

LEMMA HandlerCalledInv ==
    ASSUME DispatchInv, HandlerCalled
    PROVE  DispatchInv'
<1> USE DEF DispatchInv
<1>1. /\ stack \in Seq(Frames) /\ stack # <<>> /\ Len(stack) \in Nat \ {0}
      /\ Head(stack) = stack[1] /\ stack[1] \in Frames /\ stack[1].of = Nobody
      /\ Tail(stack) \in Seq(Frames) /\ Len(Tail(stack)) = Len(stack) - 1
      /\ \A k \in 1..(Len(stack) - 1) : Tail(stack)[k] = stack[k + 1]
  BY PopFacts DEF HandlerCalled, InDispatch, DispatchTypeOK
<1>2. PICK i \in stack[1].left :
         /\ stack' = <<Callback(Order[i]),
                       [stack[1] EXCEPT !.left = @ \ {i}, !.lost = TRUE]>> \o Tail(stack)
         /\ context' = Order[i]
  BY <1>1 DEF HandlerCalled
<1> DEFINE c == Callback(Order[i])
           d == [stack[1] EXCEPT !.left = @ \ {i}, !.lost = TRUE]
<1>3. /\ Order[i] \in Addons
      /\ c \in Frames /\ c.of = Order[i] /\ ~c.lost
      /\ d \in Frames /\ d.of = Nobody /\ d.lost
  BY <1>1, OrderFacts DEF Frames, Callback
<1> HIDE DEF c, d
<1>4. <<c, d>> \in Seq(Frames) /\ Len(<<c, d>>) = 2 /\ <<c, d>>[1] = c /\ <<c, d>>[2] = d
  BY <1>3
<1>5. stack' = <<c, d>> \o Tail(stack)
  BY <1>2 DEF c, d
<1>6. /\ stack' \in Seq(Frames) /\ Len(stack') = Len(stack) + 1
      /\ stack'[1] = c /\ stack'[2] = d
      /\ \A k \in 3..Len(stack') : stack'[k] = stack[k - 1]
  <2>1. /\ stack' \in Seq(Frames) /\ Len(stack') = 2 + (Len(stack) - 1)
        /\ \A k \in 1..(2 + (Len(stack) - 1)) :
              stack'[k] = IF k <= 2 THEN <<c, d>>[k] ELSE Tail(stack)[k - 2]
    BY <1>1, <1>4, <1>5, ConcatProperties
  <2>2. ASSUME NEW k \in 3..Len(stack')
        PROVE  stack'[k] = stack[k - 1]
    <3>1. stack'[k] = Tail(stack)[k - 2] /\ k - 2 \in 1..(Len(stack) - 1)
      BY <1>1, <2>1
    <3>2. Tail(stack)[k - 2] = stack[(k - 2) + 1]
      BY <1>1, <3>1
    <3> QED
      BY <3>1, <3>2
  <2> QED
    BY <1>1, <1>4, <2>1, <2>2
<1>7. DispatchTypeOK' /\ Turns' /\ Progress' /\ Registered'
  BY <1>2, <1>3, <1>6, InsideInv DEF HandlerCalled, DispatchTypeOK, Progress
<1>8. Alternating'
  <2> SUFFICES ASSUME NEW k \in 1..Len(stack'), k < Len(stack')
               PROVE  IF stack'[k].of = Nobody THEN stack'[k + 1].of # Nobody
                      ELSE stack'[k + 1].of = Nobody /\ stack'[k + 1].lost
    BY DEF Alternating
  <2>1. CASE k = 1
    BY <1>3, <1>6, <2>1
  <2>2. CASE k = 2
    <3>1. 1 \in 1..Len(stack) /\ 1 < Len(stack) /\ stack'[3] = stack[2]
      BY <1>1, <1>6, <2>2
    <3>2. stack[1 + 1].of # Nobody
      BY <1>1, <3>1 DEF Alternating
    <3> QED
      BY <1>3, <1>6, <2>2, <3>1, <3>2
  <2>3. CASE k > 2
    <3>1. k - 1 \in 1..Len(stack) /\ k - 1 < Len(stack) /\ (k - 1) + 1 = k
      BY <1>1, <1>6, <2>3
    <3>2. stack'[k] = stack[k - 1] /\ stack'[k + 1] = stack[k]
      BY <1>1, <1>6, <2>3, <3>1
    <3> QED
      BY <3>1, <3>2 DEF Alternating
  <2> QED
    BY <2>1, <2>2, <2>3
<1>9. Bottom'
  <2>1. stack'[Len(stack')].of = stack[Len(stack)].of
    BY <1>1, <1>3, <1>6
  <2>2. Current' = Current
    BY DEF HandlerCalled, Current
  <2> QED
    BY <1>1, <2>1, <2>2 DEF HandlerCalled, Bottom
<1>10. ContextNamed'
  <2>1. stack' # <<>>
    BY <1>1, <1>6
  <2> QED
    BY <1>2, <1>3, <1>6, <2>1 DEF ContextNamed, Named
<1> QED
  BY <1>7, <1>8, <1>9, <1>10

LEMMA HandlerReturnsInv ==
    ASSUME DispatchInv, HandlerReturns
    PROVE  DispatchInv'
<1> USE DEF DispatchInv, HandlerReturns
<1>1. /\ stack \in Seq(Frames) /\ stack # <<>> /\ Len(stack) \in Nat \ {0, 1}
      /\ stack[1].of # Nobody
      /\ stack' \in Seq(Frames) /\ Len(stack') = Len(stack) - 1
      /\ \A k \in 1..(Len(stack) - 1) : stack'[k] = stack[k + 1]
  BY PopFacts DEF InCallback, DispatchTypeOK
<1>2. DispatchTypeOK' /\ Turns' /\ Progress' /\ Registered'
  BY <1>1, InsideInv DEF DispatchTypeOK, Progress
<1>3. Alternating'
  <2> SUFFICES ASSUME NEW k \in 1..Len(stack'), k < Len(stack')
               PROVE  IF stack'[k].of = Nobody THEN stack'[k + 1].of # Nobody
                      ELSE stack'[k + 1].of = Nobody /\ stack'[k + 1].lost
    BY DEF Alternating
  <2>1. k + 1 \in 1..Len(stack) /\ k + 1 < Len(stack)
    BY <1>1
  <2>2. stack'[k] = stack[k + 1] /\ stack'[k + 1] = stack[(k + 1) + 1]
    BY <1>1, <2>1
  <2> QED
    BY <2>1, <2>2 DEF Alternating
<1>4. Bottom'
  <2>1. stack'[Len(stack')] = stack[Len(stack)] /\ Current' = Current
    BY <1>1 DEF Current
  <2> QED
    BY <1>1, <2>1 DEF Bottom
<1>5. stack'[1].of = Nobody /\ stack'[1].lost
  <2>1. 1 \in 1..Len(stack) /\ 1 < Len(stack) /\ stack'[1] = stack[1 + 1]
    BY <1>1
  <2> QED
    BY <1>1, <2>1 DEF Alternating
<1>6. ContextNamed'
  BY <1>5 DEF ContextNamed
<1> QED
  BY <1>2, <1>3, <1>4, <1>6

LEMMA DispatchReturnsInv ==
    ASSUME DispatchInv, DispatchReturns
    PROVE  DispatchInv'
<1> USE DEF DispatchInv
<1> DEFINE c == [stack[2] EXCEPT !.lost = @ \/ stack[1].lost]
           rest == Tail(Tail(stack))
<1>1. /\ stack \in Seq(Frames) /\ stack # <<>> /\ Len(stack) \in Nat \ {0, 1}
      /\ Head(stack) = stack[1] /\ stack[1] \in Frames /\ stack[1].of = Nobody
      /\ stack[2] \in Frames
      /\ Tail(stack) \in Seq(Frames) /\ Len(Tail(stack)) = Len(stack) - 1
      /\ \A k \in 1..(Len(stack) - 1) : Tail(stack)[k] = stack[k + 1]
  BY PopFacts, ElementOfSeq DEF DispatchReturns, InDispatch, DispatchTypeOK
<1>2. /\ rest \in Seq(Frames) /\ Len(rest) = Len(stack) - 2
      /\ \A k \in 1..(Len(stack) - 2) : rest[k] = stack[k + 2]
  <2>1. Tail(stack) # <<>>
    <3>1. Len(Tail(stack)) # 0 /\ Len(<<>>) = 0
      BY <1>1
    <3> QED
      BY <3>1, Zenon
  <2>2. /\ rest \in Seq(Frames) /\ Len(rest) = Len(Tail(stack)) - 1
        /\ \A k \in 1..(Len(Tail(stack)) - 1) : rest[k] = Tail(stack)[k + 1]
    BY <1>1, <2>1, PopFacts
  <2>3. ASSUME NEW k \in 1..(Len(stack) - 2)
        PROVE  rest[k] = stack[k + 2]
    <3>1. k \in 1..(Len(Tail(stack)) - 1) /\ k + 1 \in 1..(Len(stack) - 1)
      BY <1>1
    <3>2. rest[k] = Tail(stack)[k + 1] /\ Tail(stack)[k + 1] = stack[(k + 1) + 1]
      BY <1>1, <2>2, <3>1
    <3> QED
      BY <3>2
  <2> QED
    BY <1>1, <2>2, <2>3
<1>3. c \in Frames /\ c.of = stack[2].of /\ c.lost = (stack[2].lost \/ stack[1].lost)
  BY <1>1 DEF Frames
<1>4. stack' = <<c>> \o rest
  BY <1>1 DEF DispatchReturns
<1> HIDE DEF c, rest
<1>5. /\ stack' \in Seq(Frames) /\ stack' # <<>> /\ Len(stack') = Len(stack) - 1
      /\ stack'[1] = c
      /\ \A k \in 2..(Len(stack) - 1) : stack'[k] = stack[k + 1]
  <2>1. /\ stack' \in Seq(Frames) /\ stack' # <<>> /\ Len(stack') = Len(rest) + 1
        /\ stack'[1] = c
        /\ \A k \in 1..Len(rest) : stack'[k + 1] = rest[k]
    BY <1>2, <1>3, <1>4, PushFacts
  <2>2. ASSUME NEW k \in 2..(Len(stack) - 1)
        PROVE  stack'[k] = stack[k + 1]
    <3>1. k - 1 \in 1..Len(rest) /\ k - 1 \in 1..(Len(stack) - 2)
          /\ (k - 1) + 1 = k /\ (k - 1) + 2 = k + 1
      BY <1>1, <1>2
    <3> QED
      BY <1>2, <2>1, <3>1
  <2> QED
    BY <1>1, <1>2, <2>1, <2>2
<1>6. DispatchTypeOK' /\ Turns' /\ Progress' /\ Registered'
  BY <1>5, InsideInv DEF DispatchReturns, DispatchTypeOK, Progress
<1>7. stack[2].of # Nobody
  <2>1. 1 \in 1..Len(stack) /\ 1 < Len(stack) /\ 1 + 1 = 2
    BY <1>1
  <2> QED
    BY <1>1, <2>1 DEF Alternating
<1>8. Alternating'
  <2> SUFFICES ASSUME NEW k \in 1..Len(stack'), k < Len(stack')
               PROVE  IF stack'[k].of = Nobody THEN stack'[k + 1].of # Nobody
                      ELSE stack'[k + 1].of = Nobody /\ stack'[k + 1].lost
    BY DEF Alternating
  <2>1. /\ k + 1 \in 1..Len(stack) /\ k + 1 < Len(stack)
        /\ k + 1 \in 2..(Len(stack) - 1)
    BY <1>1, <1>5
  <2>2. stack'[k].of = stack[k + 1].of /\ stack'[k + 1] = stack[(k + 1) + 1]
    BY <1>1, <1>3, <1>5, <2>1
  <2> QED
    BY <2>1, <2>2 DEF Alternating
<1>9. Bottom'
  <2>1. stack'[Len(stack')].of = stack[Len(stack)].of
    <3>1. CASE Len(stack) = 2
      BY <1>3, <1>5, <3>1
    <3>2. CASE Len(stack) # 2
      <4>1. Len(stack) - 1 \in 2..(Len(stack) - 1) /\ (Len(stack) - 1) + 1 = Len(stack)
        BY <1>1, <3>2
      <4> QED
        BY <1>5, <4>1
    <3> QED
      BY <3>1, <3>2
  <2>2. Current' = Current /\ task' = task
    BY DEF Current, DispatchReturns
  <2> QED
    BY <1>1, <2>1, <2>2 DEF Bottom
<1>10. ContextNamed'
  BY <1>1, <1>3, <1>5, <1>7 DEF ContextNamed, Named, DispatchReturns
<1> QED
  BY <1>6, <1>8, <1>9, <1>10

LEMMA EventServedInv ==
    ASSUME DispatchInv, EventServed
    PROVE  DispatchInv'
<1> USE DEF DispatchInv, EventServed
<1>1. stack[1].of = Nobody /\ stack # <<>>
  BY PopFacts DEF InDispatch, DispatchTypeOK
<1>2. context = Nobody
  BY <1>1 DEF ContextNamed
<1>3. DispatchTypeOK' /\ Turns'
  BY SMTT(30), OrderFacts DEF DispatchTypeOK, Turns, Task, Steps
<1>4. Alternating' /\ Bottom' /\ ContextNamed'
  BY <1>2 DEF Alternating, Bottom, ContextNamed
<1>5. Progress' /\ Registered'
  BY DEF Progress, Registered, Task, Loading
<1> QED
  BY <1>3, <1>4, <1>5

LEMMA UnloadInv ==
    ASSUME DispatchInv, Unload
    PROVE  DispatchInv'
<1> USE DEF DispatchInv, Unload
<1>1. stack[1] = Head(stack) /\ stack[1].of # Nobody /\ stack # <<>>
  BY PopFacts DEF InCallback, DispatchTypeOK
<1>2. context = Head(stack).of /\ context \in Addons
  BY <1>1 DEF ContextNamed, Named, DispatchTypeOK
<1>3. DispatchTypeOK' /\ Turns' /\ Progress' /\ Registered'
  BY <1>2, InsideInv DEF DispatchTypeOK, Progress
<1>4. Alternating' /\ Bottom' /\ ContextNamed'
  BY DEF Alternating, Bottom, ContextNamed, Current
<1> QED
  BY <1>3, <1>4

\* The callback of the runtime returns: by where it was in the life of the addon.
LEMMA CallbackReturnsInv ==
    ASSUME DispatchInv, NEW ok \in BOOLEAN, CallbackReturns(ok)
    PROVE  DispatchInv'
<1> USE DEF DispatchInv
<1>1. /\ stack # <<>> /\ stack[1].of # Nobody /\ Len(stack) = 1
      /\ task.step \in Callbacks
  BY PopFacts DEF CallbackReturns, InCallback, DispatchTypeOK, Bottom
<1>2. task.turn \in 1..Len(Order) /\ Current \in Addons
  BY <1>1, OrderFacts DEF Turns, Current, Callbacks, Loading
<1>3. /\ tables' \subseteq Addons /\ loaded' \subseteq Addons /\ loaded \subseteq loaded'
      /\ stack' = <<>> /\ context' = Nobody
  BY <1>2 DEF CallbackReturns, DispatchTypeOK
<1>4. DispatchTypeOK' /\ Turns' /\ Progress' /\ Registered'
  <2>1. SUFFICES task' \in [step : Steps, turn : 0..Len(Order)] /\ Turns'
                   /\ Progress' /\ Registered'
    BY <1>3 DEF CallbackReturns, DispatchTypeOK
  <2>2. /\ regs' = regs /\ pending' = pending /\ asked' = asked
        /\ loaded' = IF task.step = "init" THEN loaded \cup {Current} ELSE loaded
        /\ task' = AfterCallback(ok)
    BY DEF CallbackReturns
  <2>3. pending \subseteq asked
    BY DEF Progress
  <2>4. CASE task.step = "eval"
    <3>1. task' = IF ok THEN Task("init", task.turn) ELSE Ended
      BY <2>2, <2>4 DEF AfterCallback
    <3>2. /\ task' \in [step : Steps, turn : 0..Len(Order)]
          /\ task'.step = "init" \/ task'.step = "ended"
          /\ task'.step = "init" => task'.turn = task.turn
      BY <1>2, <3>1 DEF Task, Ended, Steps, Callbacks, Loading
    <3> QED
      BY <1>2, <2>2, <2>3, <2>4, <3>2 DEF Turns, Progress, Registered, Loading, Current
  <2>5. CASE task.step = "init"
    <3>1. task' = NextToLoad(task.turn) /\ loaded' = loaded \cup {Order[task.turn]}
      BY <2>2, <2>5 DEF AfterCallback, Current
    <3>2. \A j \in 1..Len(Order) : j < task.turn + 1 => Order[j] \in loaded'
      <4> SUFFICES ASSUME NEW j \in 1..Len(Order), j < task.turn + 1
                   PROVE  Order[j] \in loaded'
        OBVIOUS
      <4>0. j \in Nat /\ task.turn \in Nat
        BY SMTT(30), <1>2, OrderFacts
      <4>1. j < task.turn \/ j = task.turn
        BY <4>0
      <4> QED
        BY <2>5, <3>1, <4>1 DEF Progress
    <3>3. CASE task.turn < Len(Order)
      <4>1. task' = Task("assets", task.turn + 1) /\ task.turn + 1 \in 1..Len(Order)
        BY SMTT(30), <1>2, <3>1, <3>3, OrderFacts DEF NextToLoad
      <4>2. /\ task' \in [step : Steps, turn : 0..Len(Order)]
            /\ task'.step = "assets" /\ task'.turn = task.turn + 1
        BY <4>1, OrderFacts DEF Task, Steps
      <4> QED
        BY <2>2, <2>3, <3>2, <4>1, <4>2 DEF Turns, Progress, Registered, Loading
    <3>4. CASE ~(task.turn < Len(Order))
      <4>1. task' = Task("post_init", 1) /\ task.turn = Len(Order)
        BY <1>2, <3>1, <3>4, OrderFacts DEF NextToLoad
      <4>2. ASSUME NEW a \in Addons
            PROVE  a \in loaded'
        <5>1. PICK j \in 1..Len(Order) : a = Order[j]
          BY OrderFacts
        <5>2. j < task.turn + 1
          BY <4>1, OrderFacts
        <5> QED
          BY <3>2, <5>1, <5>2
      <4>3. /\ task' \in [step : Steps, turn : 0..Len(Order)]
            /\ task'.step = "post_init" /\ task'.turn \in 1..Len(Order)
        BY <4>1, OrderFacts DEF Task, Steps, Callbacks
      <4> QED
        BY <2>2, <2>3, <4>2, <4>3 DEF Turns, Progress, Registered, Loading
    <3> QED
      BY <3>3, <3>4
  <2>6. CASE task.step = "post_init"
    <3>1. task' = NextToPostInit(task.turn)
      BY <2>2, <2>6 DEF AfterCallback
    <3>2. /\ task' \in [step : Steps, turn : 0..Len(Order)]
          /\ \/ task'.step = "drain"
             \/ task'.step = "post_init" /\ task'.turn \in 1..Len(Order)
      BY SMTT(30), <1>2, <3>1, OrderFacts DEF NextToPostInit, Task, Steps, Callbacks
    <3> QED
      BY <2>2, <2>3, <2>6, <3>2 DEF Turns, Progress, Registered, Loading
  <2>7. CASE task.step = "unload"
    <3>1. task' = IF ok THEN Task("re_register", task.turn) ELSE Task("watch", 0)
      BY <2>2, <2>7 DEF AfterCallback
    <3>2. /\ task' \in [step : Steps, turn : 0..Len(Order)]
          /\ \/ task'.step = "watch"
             \/ task'.step = "re_register" /\ task'.turn \in 1..Len(Order)
      BY <1>2, <3>1, OrderFacts DEF Task, Steps
    <3> QED
      BY <2>2, <2>3, <2>7, <3>2 DEF Turns, Progress, Registered, Loading
  <2>8. CASE task.step = "re_eval"
    <3>1. task' = IF ok THEN Task("load", task.turn) ELSE Task("watch", 0)
      BY <2>2, <2>8 DEF AfterCallback
    <3>2. /\ task' \in [step : Steps, turn : 0..Len(Order)]
          /\ \/ task'.step = "watch"
             \/ task'.step = "load" /\ task'.turn = task.turn
      BY <1>2, <3>1, OrderFacts DEF Task, Steps, Callbacks, Loading
    <3> QED
      BY <1>2, <2>2, <2>3, <2>8, <3>2 DEF Turns, Progress, Registered, Loading, Current
  <2>9. CASE task.step = "load"
    <3>1. task' = Task("watch", 0)
      BY <2>2, <2>9 DEF AfterCallback
    <3>2. task' \in [step : Steps, turn : 0..Len(Order)] /\ task'.step = "watch"
      BY <3>1, OrderFacts DEF Task, Steps
    <3> QED
      BY <2>2, <2>3, <2>9, <3>2 DEF Turns, Progress, Registered, Loading
  <2>10. CASE task.step = "quit"
    <3>1. task' = NextToQuit(task.turn - 1) /\ task.turn - 1 \in 0..Len(Order)
      BY SMTT(30), <1>2, <2>2, <2>10, OrderFacts DEF AfterCallback
    <3>2. /\ task' \in [step : {"quit", "ended"}, turn : 0..Len(Order)]
          /\ task'.step = "quit" => task'.turn \in 1..Len(Order)
      BY <3>1, QuitTurn
    <3>3. task' \in [step : Steps, turn : 0..Len(Order)] /\ task'.step \in {"quit", "ended"}
      BY <3>2 DEF Steps, Callbacks
    <3> QED
      BY <2>2, <2>3, <3>2, <3>3 DEF Turns, Progress, Registered, Loading
  <2> QED
    BY <1>1, <2>4, <2>5, <2>6, <2>7, <2>8, <2>9, <2>10 DEF Callbacks, Loading
<1>5. Alternating' /\ Bottom' /\ ContextNamed'
  BY <1>3 DEF Alternating, Bottom, ContextNamed
<1> QED
  BY <1>4, <1>5

LEMMA NextDispatchInv == DispatchInv /\ [DispatchNext]_dispatchVars => DispatchInv'
<1> SUFFICES ASSUME DispatchInv, [DispatchNext]_dispatchVars
             PROVE  DispatchInv'
  OBVIOUS
<1>1. CASE UNCHANGED dispatchVars
  BY <1>1 DEF dispatchVars, DispatchInv, DispatchTypeOK, Turns, Alternating, Bottom,
     ContextNamed, Progress, Registered, Current
<1>2. CASE RuntimeMoves
  BY <1>2, RegisterInv, EnterInv, CallbackReturnsInv, HandlerCalledInv,
     HandlerReturnsInv, DispatchReturnsInv, DrainInv, EventServedInv, MovesOnInv
     DEF RuntimeMoves
<1>3. CASE Requested
  BY <1>3, DispatchActionInv, EventMessageInv, UnloadInv, MovesOnInv DEF Requested
<1>4. CASE AssetsRegistered \/ AssetsFail
  BY <1>4, MovesOnInv
<1>5. CASE DispatchCrash
  <2>1. DispatchInit'
    BY <1>5 DEF DispatchCrash, DispatchInit
  <2> QED
    BY <2>1, InitDispatchInv, PTL
<1> QED
  BY <1>1, <1>2, <1>3, <1>4, <1>5 DEF DispatchNext

\* The types of the stack, the tables and the history, and the shape of the
\* stack, in every reachable state.
THEOREM DispatchInvariant == DispatchSpec => []DispatchInv
  BY InitDispatchInv, NextDispatchInv, PTL DEF DispatchSpec

\* The log context names the addon whose code runs, or nobody once a dispatch
\* of that code has called a handler (install_engine_dispatch_api,
\* set_engine_log_mod_id).
THEOREM ContextCorrect == DispatchSpec => []ContextNamesRunner
<1>1. DispatchInv => ContextNamesRunner
  <2> SUFFICES ASSUME DispatchInv PROVE ContextNamesRunner
    OBVIOUS
  <2>1. stack # <<>> => Head(stack) = stack[1]
    BY PopFacts DEF DispatchInv, DispatchTypeOK
  <2> QED
    BY <2>1 DEF DispatchInv, ContextNamesRunner, ContextNamed, InCallback, Named
<1> QED
  BY <1>1, DispatchInvariant, PTL

\* Nobody is unloaded but on request of its own code (install_engine_unload_api,
\* process_pending_unloads).
THEOREM UnloadsCorrect == DispatchSpec => []UnloadsOwn
<1>1. DispatchInv => UnloadsOwn
  BY DEF DispatchInv, UnloadsOwn, Progress
<1> QED
  BY <1>1, DispatchInvariant, PTL

HIDE DispatchAssumption

-----------------------------------------------------------------------------
(* The files of an addon (LocalVfs).                                       *)

USE VfsAssumption

LEMMA SeqFacts ==
    /\ <<>> \in Seq(Chunks)
    /\ \A c \in Chunks : <<c>> \in Seq(Chunks)
    /\ \A c \in Chunks, s \in Seq(Chunks) : Append(s, c) \in Seq(Chunks)
  OBVIOUS

LEMMA NoFilesType == NoFiles \in Entries
  BY SeqFacts DEF NoFiles, Entries

\* Writing to a file gives files.
LEMMA ChangedType ==
    ASSUME NEW files \in Entries, NEW f \in Files, NEW c \in Chunks,
           NEW append \in BOOLEAN
    PROVE  Changed(files, f, c, append) \in Entries
<1>1. files[f] \in Seq(Chunks)
  BY DEF Entries
<1>2. (IF append THEN Append(files[f], c) ELSE <<c>>) \in Seq(Chunks)
  BY <1>1, SeqFacts
<1> QED
  BY <1>2 DEF Changed, Entries

LEMMA HeldType ==
    ASSUME VfsTypeOK, NEW r \in Closures
    PROVE  Held(r) \in Entries
  BY DEF VfsTypeOK, Held

-----------------------------------------------------------------------------

\* No flaw that outlives the next whole archive.
Clean == flaws \subseteq {"cut"}

\* An archive is torn while it is written, or after a call was cut off.
TornIsKnown ==
    /\ VfsIdle /\ archive.state = "torn" => "cut" \in flaws
    /\ ~VfsIdle => archive.state = "torn"
    /\ archive.state = "absent" => archive.files = NoFiles

ArchiveStored == Clean /\ archive.state # "torn" => archive.files = stored

CachesStored ==
    Clean => \A r \in newest \ dirty :
                r # writing.by /\ cache[r].loaded => cache[r].files = stored

\* What the call under way writes is what it will be told, unless its closure
\* holds something else: the result of a failed call, or of an old archive.
WritesTold ==
    LET r == writing.by IN
    ~VfsIdle /\ Clean /\ r \notin dirty /\ (cache[r].loaded => r \in newest)
        => writing.files = writing.told

VfsInv == VfsTypeOK /\ TornIsKnown /\ ArchiveStored /\ CachesStored /\ WritesTold

LEMMA InitInv == VfsInit => VfsInv
  BY NoFilesType DEF VfsInit, VfsInv, VfsTypeOK, TornIsKnown, ArchiveStored,
     CachesStored, WritesTold, VfsIdle, NotWriting, Unloaded

LEMMA ReadInv ==
    ASSUME VfsInv, NEW r \in Closures, Read(r)
    PROVE  VfsInv'
<1> USE DEF VfsInv
<1>1. VfsTypeOK'
  BY HeldType DEF VfsTypeOK, Read, LoadedNow
<1>2. TornIsKnown' /\ ArchiveStored' /\ WritesTold'
  BY DEF TornIsKnown, ArchiveStored, WritesTold, Read, VfsIdle, Clean
<1>3. CachesStored'
  BY DEF CachesStored, ArchiveStored, Read, VfsIdle, Clean, Held, LoadedNow, VfsTypeOK
<1> QED
  BY <1>1, <1>2, <1>3

LEMMA BeginOpenInv ==
    ASSUME VfsInv, NEW r \in Closures, BeginOpen(r)
    PROVE  VfsInv'
<1> USE DEF VfsInv
<1>1. VfsTypeOK'
  BY NoFilesType DEF VfsTypeOK, BeginOpen
<1>2. TornIsKnown' /\ ArchiveStored'
  BY DEF TornIsKnown, ArchiveStored, BeginOpen, VfsIdle, Clean, VfsTypeOK
<1>3. CachesStored'
  BY DEF CachesStored, BeginOpen, VfsIdle, Clean, VfsTypeOK
<1>4. WritesTold'
  BY DEF WritesTold, BeginOpen, TornIsKnown, ArchiveStored, VfsIdle, Clean
<1> QED
  BY <1>1, <1>2, <1>3, <1>4

LEMMA BeginWriteInv ==
    ASSUME VfsInv, NEW r \in Closures, NEW f \in Files, NEW c \in Chunks,
           NEW append \in BOOLEAN, BeginWrite(r, f, c, append)
    PROVE  VfsInv'
<1> USE DEF VfsInv, BeginWrite, ChangeCache
<1>1. /\ Changed(Held(r), f, c, append) \in Entries
      /\ Changed(stored, f, c, append) \in Entries
  BY HeldType, ChangedType DEF VfsTypeOK
<1>2. VfsTypeOK'
  BY <1>1, NoFilesType DEF VfsTypeOK, LoadedNow
<1>3. TornIsKnown' /\ ArchiveStored'
  BY DEF TornIsKnown, ArchiveStored, VfsIdle, WriteAllowed, VfsTypeOK
<1>4. CachesStored'
  BY DEF CachesStored, Clean, LoadedNow, VfsTypeOK, WriteAllowed, VfsIdle
<1>5. WritesTold'
  <2>1. ASSUME Clean, r \notin dirty, cache[r].loaded => r \in newest
        PROVE  Held(r) = stored
    BY <2>1 DEF Held, CachesStored, ArchiveStored, WriteAllowed, VfsIdle, Clean
  <2>2. r \in newest' => r \in newest \/ ~cache[r].loaded
    BY DEF LoadedNow
  <2>3. cache'[r].loaded /\ writing'.by = r /\ dirty' = dirty /\ (Clean' <=> Clean)
    BY DEF VfsTypeOK, Clean
  <2> QED
    BY <2>1, <2>2, <2>3 DEF WritesTold
<1> QED
  BY <1>2, <1>3, <1>4, <1>5

LEMMA CreateFailsInv ==
    ASSUME VfsInv, NEW r \in Closures, NEW f \in Files, NEW c \in Chunks,
           NEW append \in BOOLEAN, CreateFails(r, f, c, append)
    PROVE  VfsInv'
<1> USE DEF VfsInv, CreateFails, ChangeCache
<1>1. Changed(Held(r), f, c, append) \in Entries
  BY HeldType, ChangedType DEF VfsTypeOK
<1>2. VfsTypeOK'
  BY <1>1 DEF VfsTypeOK, LoadedNow
<1>3. TornIsKnown' /\ ArchiveStored' /\ WritesTold'
  BY DEF TornIsKnown, ArchiveStored, WritesTold, VfsIdle, WriteAllowed, Clean
<1>4. CachesStored'
  BY DEF CachesStored, Clean, LoadedNow, VfsTypeOK
<1> QED
  BY <1>2, <1>3, <1>4

LEMMA PersistedInv ==
    ASSUME VfsInv, Persisted
    PROVE  VfsInv'
<1> DEFINE r == writing.by
<1> USE DEF VfsInv, Persisted
<1>1. r \in Closures
  BY DEF VfsTypeOK, VfsIdle
<1>2. VfsTypeOK'
  BY <1>1, NoFilesType DEF VfsTypeOK, NotWriting
<1>3. Clean' => writing.files = writing.told
  BY <1>1 DEF WritesTold, Clean
<1>4. TornIsKnown' /\ WritesTold'
  BY DEF TornIsKnown, WritesTold, VfsIdle, NotWriting
<1>5. ArchiveStored'
  BY <1>3 DEF ArchiveStored
<1>6. CachesStored'
  BY <1>1, <1>3 DEF CachesStored, VfsTypeOK
<1> QED
  BY <1>2, <1>4, <1>5, <1>6

LEMMA PersistFailsInv ==
    ASSUME VfsInv, PersistFails
    PROVE  VfsInv'
<1> USE DEF VfsInv, PersistFails
<1>1. writing.by \in Closures
  BY DEF VfsTypeOK, VfsIdle
<1>2. VfsTypeOK'
  BY <1>1, NoFilesType DEF VfsTypeOK, NotWriting
<1>3. TornIsKnown' /\ ArchiveStored' /\ WritesTold'
  BY DEF TornIsKnown, ArchiveStored, WritesTold, VfsIdle, NotWriting, Clean
<1>4. CachesStored'
  BY <1>1 DEF CachesStored, Clean, NotWriting
<1> QED
  BY <1>2, <1>3, <1>4

LEMMA VfsCrashInv ==
    ASSUME VfsInv, VfsCrash
    PROVE  VfsInv'
<1> USE DEF VfsInv, VfsCrash
<1>1. VfsTypeOK'
  BY NoFilesType DEF VfsTypeOK, NotWriting, Unloaded
<1>2. TornIsKnown' /\ WritesTold'
  BY DEF TornIsKnown, WritesTold, VfsIdle, NotWriting
<1>3. ArchiveStored' /\ CachesStored'
  BY DEF ArchiveStored, CachesStored, Clean
<1> QED
  BY <1>1, <1>2, <1>3

LEMMA NextInv == VfsInv /\ [VfsNext]_vfsVars => VfsInv'
<1> SUFFICES ASSUME VfsInv, [VfsNext]_vfsVars
             PROVE  VfsInv'
  OBVIOUS
<1>1. CASE UNCHANGED vfsVars
  BY <1>1 DEF vfsVars, VfsInv, VfsTypeOK, TornIsKnown, ArchiveStored,
     CachesStored, WritesTold, VfsIdle, Clean
<1>2. ASSUME NEW r \in Closures, VfsCall(r)
      PROVE  VfsInv'
  BY <1>2, ReadInv, BeginOpenInv, BeginWriteInv, CreateFailsInv DEF VfsCall
<1>3. CASE VfsGoesOn
  BY <1>3, PersistedInv, PersistFailsInv DEF VfsGoesOn
<1>4. CASE VfsCrash
  BY <1>4, VfsCrashInv
<1> QED
  BY <1>1, <1>2, <1>3, <1>4 DEF VfsNext

\* The types of the archive, the caches and the history of calls, and the
\* invariant that the other theorems read off.
THEOREM VfsInvariant == VfsSpec => []VfsInv
  BY InitInv, NextInv, PTL DEF VfsSpec

\* The archive holds what the successful calls of all sessions wrote, whatever
\* failed or crashed between calls (persist_vfs and the write closure).
THEOREM ArchiveKept == VfsSpec => []AcknowledgedKept
<1>1. VfsInv => AcknowledgedKept
  BY DEF VfsInv, AcknowledgedKept, TornIsKnown, ArchiveStored, Clean
<1> QED
  BY <1>1, VfsInvariant, PTL

\* What a script reads through a closure nobody wrote behind is what is stored
\* (ensure_loaded and the read closure).
THEOREM ReadsCorrect == VfsSpec => []ReadsAreStored
<1>1. VfsInv => ReadsAreStored
  BY DEF VfsInv, ReadsAreStored, CachesStored, VfsTypeOK, VfsIdle, Clean
<1> QED
  BY <1>1, VfsInvariant, PTL

HIDE VfsAssumption

-----------------------------------------------------------------------------
(* The assets (AssetOverlay).                                              *)

USE OverlayAssumption

\* Induction on numbers, as the existence of a least counterexample.
LEMMA LeastElement ==
    ASSUME NEW T \in SUBSET Nat, T # {}
    PROVE  \E n \in T : \A m \in T : n <= m
<1> DEFINE R == OpToRel(<, Nat)
<1>1. IsWellFoundedOn(R, Nat)
  BY NatLessThanWellFounded
<1> HIDE DEF R
<1>2. PICK x \in T : \A y \in T : ~ (<<y, x>> \in R)
  BY <1>1, WFMin
<1>3. \A a, b \in Nat : <<b, a>> \in R <=> b < a
  BY DEF R, OpToRel
<1>4. \A y \in T : ~ (y < x)
  BY <1>2, <1>3
<1> QED
  BY <1>4

LEMMA Induction ==
    ASSUME NEW T \in SUBSET Nat, NEW n \in Nat, 0 \in T,
           \A k \in 0..(n - 1) : k \in T => k + 1 \in T
    PROVE  \A k \in 0..n : k \in T
<1> DEFINE Missing == {k \in 0..n : k \notin T}
<1> SUFFICES ASSUME Missing # {} PROVE FALSE
  OBVIOUS
<1>1. Missing \in SUBSET Nat
  OBVIOUS
<1>2. \A k : k \in Missing <=> k \in 0..n /\ k \notin T
  OBVIOUS
<1> HIDE DEF Missing
<1>3. PICK k \in Missing : \A m \in Missing : k <= m
  BY <1>1, LeastElement
<1>4. k \in 0..n /\ k \notin T /\ k # 0
  BY <1>2, <1>3
<1>5. k - 1 \in T
  BY <1>2, <1>3, <1>4
<1> QED
  BY <1>4, <1>5

\* f holds what a loop of n turns has made of start after each of them.
Loops(f, n, start, turn) ==
    f = [k \in 0..n |-> IF k = 0 THEN start ELSE turn[<<f[k - 1], k>>]]

LEMMA LoopExists ==
    ASSUME NEW n \in Nat, NEW D, NEW start \in D, NEW turn \in [D \X (1..n) -> D]
    PROVE  \E f \in [0..n -> D] : Loops(f, n, start, turn)
<1> DEFINE Fits(f, m) == /\ f \in [0..m -> D] /\ f[0] = start
                         /\ \A k \in 1..m : f[k] = turn[<<f[k - 1], k>>]
           T == {m \in Nat : m <= n => \E f : Fits(f, m)}
<1>1. \A m : m \in T <=> m \in Nat /\ (m <= n => \E f : Fits(f, m))
  OBVIOUS
<1>2. T \in SUBSET Nat
  OBVIOUS
<1>3. 0 \in T
  <2>1. Fits([k \in 0..0 |-> start], 0)
    OBVIOUS
  <2> QED
    BY <1>1, <2>1
<1>4. ASSUME NEW m \in 0..(n - 1), m \in T
      PROVE  m + 1 \in T
  <2>1. PICK f : Fits(f, m)
    BY <1>1, <1>4
  <2> DEFINE g == [k \in 0..(m + 1) |-> IF k = m + 1 THEN turn[<<f[m], k>>] ELSE f[k]]
  <2>2. turn[<<f[m], m + 1>>] \in D
    BY <2>1
  <2>3. g \in [0..(m + 1) -> D] /\ g[0] = start
    BY <2>1, <2>2
  <2>4. ASSUME NEW k \in 1..(m + 1)
        PROVE  g[k] = turn[<<g[k - 1], k>>]
    <3>1. k - 1 \in 0..m /\ g[k - 1] = f[k - 1]
      OBVIOUS
    <3>2. CASE k = m + 1
      BY <3>1, <3>2
    <3>3. CASE k # m + 1
      BY <2>1, <3>1, <3>3
    <3> QED
      BY <3>2, <3>3
  <2>5. Fits(g, m + 1)
    BY <2>3, <2>4
  <2> HIDE DEF Fits, g
  <2> QED
    BY <1>1, <2>5
<1> HIDE DEF T
<1>5. \A k \in 0..n : k \in T
  <2>1. \A k \in 0..(n - 1) : k \in T => k + 1 \in T
    BY <1>4
  <2> QED
    BY <1>2, <1>3, <2>1, Induction, Zenon
<1>6. PICK f : Fits(f, n)
  <2> HIDE DEF Fits
  <2>1. n \in 0..n /\ n <= n
    OBVIOUS
  <2> QED
    BY <1>1, <1>5, <2>1
<1>7. Loops(f, n, start, turn)
  BY <1>6 DEF Loops
<1> QED
  BY <1>6, <1>7

-----------------------------------------------------------------------------
(* One turn of the loops over assets and converters.                       *)

\* What the loops change.
Accs == [outs : [Outputs -> {Nothing} \cup Results], cache : Caches, dirty : BOOLEAN]

\* d is what p made of c, with the converter installed now or an older one.
MadeBy(versions, d, c, p) == \E v \in 1..versions[p[1]] : d = <<c, p[2], p[1], v>>

\* An entry names a result its pair has claimed, and the file of this name is
\* that result unless another pair has claimed the name.
CacheStands(versions, o, kept, conversions) ==
    \A p \in Pairs : kept.manifest[p] # NoEntry =>
        LET hash == kept.manifest[p].hash
            output == kept.manifest[p].output
        IN /\ <<o, p, hash, output>> \in conversions
           /\ ~Shared(conversions, output) => MadeBy(versions, kept.files[output], hash, p)

\* The result of this name is that of a pair up to the n-th.
OutStands(outs, o, n, conversions, output) ==
    ~Renamed(conversions, output) =>
        /\ outs[output] # Nothing <=> \E k \in 1..n : Makes(o, k, output)
        /\ outs[output] # Nothing /\ ~Shared(conversions, output) =>
              \E k \in 1..n : /\ Makes(o, k, output)
                              /\ MadeBy(version, outs[output], assets[o][Matches[k][2]], Matches[k])

OutsStand(outs, o, n, conversions) ==
    \A output \in Outputs : OutStands(outs, o, n, conversions, output)

TurnInv(acc, o, n, conversions) ==
    /\ acc \in Accs
    /\ CacheStands(version, o, acc.cache, conversions)
    /\ OutsStand(acc.outs, o, n, conversions)

LEMMA MatchFacts ==
    /\ Len(Matches) \in Nat
    /\ \A n \in 1..Len(Matches) :
          /\ Matches[n] \in Pairs
          /\ Matches[n][1] \in Converters /\ Matches[n][2] \in Sources
          /\ Matches[n] \in ToSet(Matches)
  BY DEF Pairs, ToSet

LEMMA PairFacts ==
    ASSUME NEW p \in Pairs
    PROVE  p[1] \in Converters /\ p[2] \in Sources /\ p = <<p[1], p[2]>>
  BY DEF Pairs

LEMMA ResultFacts == Results \subseteq Data /\ Nothing \notin Results
  BY DEF Results, Data, Versions

LEMMA ConvertedFacts ==
    ASSUME OverlayTypeOK, NEW p \in Pairs, NEW c \in Contents
    PROVE  /\ NameOf(p, c) \in Outputs
           /\ Converted(c, p) \in Results
           /\ MadeBy(version, Converted(c, p), c, p)
<1>1. p[1] \in Converters /\ p[2] \in Sources
  BY PairFacts
<1>2. version[p[1]] \in Versions
  BY <1>1 DEF OverlayTypeOK
<1>3. version[p[1]] \in 1..version[p[1]]
  BY <1>2 DEF Versions
<1>5. NameOf(p, c) \in Outputs
  <2>1. <<p, c, version[p[1]]>> \in (Converters \X Sources) \X Contents \X (1..MaxVersion)
    BY <1>2 DEF Pairs, Versions
  <2> QED
    BY <2>1 DEF NameOf
<1>6. Converted(c, p) \in Results
  BY <1>1, <1>2 DEF Converted, Results
<1>8. MadeBy(version, Converted(c, p), c, p)
  BY <1>3 DEF MadeBy, Converted
<1> QED
  BY <1>5, <1>6, <1>8

LEMMA MadeFacts ==
    ASSUME OverlayTypeOK, NEW p \in Pairs, NEW c \in Contents, NEW d, MadeBy(version, d, c, p)
    PROVE  d \in Results
<1>1. p[1] \in Converters /\ p[2] \in Sources
  BY PairFacts
<1>2. version[p[1]] \in Versions
  BY <1>1 DEF OverlayTypeOK
<1>3. PICK v \in 1..version[p[1]] : d = <<c, p[2], p[1], v>>
  BY DEF MadeBy
<1>4. v \in Versions
  BY <1>2, <1>3 DEF Versions
<1> QED
  BY <1>1, <1>3, <1>4 DEF Results

LEMMA EntryFacts ==
    ASSUME NEW kept \in Caches, NEW p \in Pairs
    PROVE  \/ kept.manifest[p] = NoEntry
           \/ /\ kept.manifest[p] # NoEntry
              /\ kept.manifest[p].hash \in Contents
              /\ kept.manifest[p].output \in Outputs
<1>1. kept.manifest[p] \in {NoEntry} \cup [hash : Contents, output : Outputs]
  BY DEF Caches
<1>2. NoEntry.hash = Nothing
  BY DEF NoEntry
<1> QED
  BY <1>1, <1>2

LEMMA HitFacts ==
    ASSUME NEW kept \in Caches, NEW p \in Pairs, NEW c \in Contents, Hit(kept, p, c)
    PROVE  /\ kept.manifest[p] # NoEntry /\ kept.manifest[p].hash = c
           /\ kept.manifest[p].output \in Outputs
           /\ kept.files[kept.manifest[p].output] \in Results
<1>1. NoEntry.hash = Nothing
  BY DEF NoEntry
<1>2. kept.manifest[p] # NoEntry /\ kept.manifest[p].hash = c
  BY <1>1 DEF Hit
<1>3. kept.manifest[p].output \in Outputs
  BY <1>2, EntryFacts
<1>4. kept.files \in [Outputs -> {Nothing} \cup Results]
  BY DEF Caches
<1> QED
  BY <1>2, <1>3, <1>4 DEF Hit

LEMMA ServeIs ==
    ASSUME NEW acc \in Accs, NEW p \in Pairs, NEW c \in Contents, Hit(acc.cache, p, c)
    PROVE  /\ Serve(acc, p) \in Accs
           /\ Serve(acc, p).cache = acc.cache
           /\ Serve(acc, p).outs =
                 [acc.outs EXCEPT ![acc.cache.manifest[p].output] =
                     acc.cache.files[acc.cache.manifest[p].output]]
<1> DEFINE output == acc.cache.manifest[p].output
<1>1. acc.cache \in Caches /\ acc.outs \in [Outputs -> {Nothing} \cup Results] /\ acc.dirty \in BOOLEAN
  BY DEF Accs
<1>2. output \in Outputs /\ acc.cache.files[output] \in Results
  BY <1>1, HitFacts
<1>3. Serve(acc, p) = [outs |-> [acc.outs EXCEPT ![output] = acc.cache.files[output]],
                       cache |-> acc.cache, dirty |-> acc.dirty]
  BY DEF Serve, Accs
<1>4. [acc.outs EXCEPT ![output] = acc.cache.files[output]] \in [Outputs -> {Nothing} \cup Results]
  BY <1>1, <1>2
<1> QED
  BY <1>1, <1>3, <1>4 DEF Accs

LEMMA ConvertType ==
    ASSUME OverlayTypeOK, NEW acc \in Accs, NEW p \in Pairs, NEW c \in Contents
    PROVE  Convert(acc, p, c) \in Accs
<1> DEFINE output == NameOf(p, c)
<1>1. acc.cache \in Caches /\ acc.outs \in [Outputs -> {Nothing} \cup Results] /\ acc.dirty \in BOOLEAN
  BY DEF Accs
<1>2. output \in Outputs /\ Converted(c, p) \in Results
  BY ConvertedFacts
<1> DEFINE manifest == [acc.cache.manifest EXCEPT ![p] = [hash |-> c, output |-> output]]
           files == [acc.cache.files EXCEPT ![output] = Converted(c, p)]
           outs == [acc.outs EXCEPT ![output] = Converted(c, p)]
<1>3. Convert(acc, p, c) = [outs |-> outs, cache |-> [manifest |-> manifest, files |-> files],
                            dirty |-> TRUE]
  BY DEF Convert
<1>4. outs \in [Outputs -> {Nothing} \cup Results]
  BY <1>1, <1>2
<1>5. files \in [Outputs -> {Nothing} \cup Results]
  BY <1>1, <1>2 DEF Caches
<1>6. manifest \in [Pairs -> {NoEntry} \cup [hash : Contents, output : Outputs]]
  BY <1>1, <1>2 DEF Caches
<1> HIDE DEF outs, files, manifest
<1>7. [manifest |-> manifest, files |-> files] \in Caches
  BY <1>5, <1>6 DEF Caches
<1> QED
  BY <1>3, <1>4, <1>7 DEF Accs

LEMMA SharedFacts ==
    ASSUME NEW o, NEW p, NEW q, NEW c, NEW d, NEW output, NEW conversions,
           <<o, p, c, output>> \in conversions, <<o, q, d, output>> \in conversions, p # q
    PROVE  Shared(conversions, output)
<1> DEFINE x == <<o, p, c, output>>
           y == <<o, q, d, output>>
<1>1. x \in conversions /\ y \in conversions
  OBVIOUS
<1>2. x[1] = y[1] /\ x[2] # y[2] /\ x[4] = output /\ y[4] = output
  OBVIOUS
<1> HIDE DEF x, y
<1> QED
  BY <1>1, <1>2 DEF Shared

LEMMA RenamedFacts ==
    ASSUME NEW o, NEW p, NEW c, NEW output, NEW other, NEW conversions,
           <<o, p, c, output>> \in conversions, <<o, p, c, other>> \in conversions,
           output # other
    PROVE  Renamed(conversions, output) /\ Renamed(conversions, other)
<1> DEFINE x == <<o, p, c, output>>
           y == <<o, p, c, other>>
<1>1. x \in conversions /\ y \in conversions
  OBVIOUS
<1>2. x[1] = y[1] /\ x[2] = y[2] /\ x[3] = y[3] /\ x[4] = output /\ y[4] = other
  OBVIOUS
<1> HIDE DEF x, y
<1> QED
  BY <1>1, <1>2 DEF Renamed

LEMMA MakesNext ==
    ASSUME NEW o, NEW n \in Nat, NEW output
    PROVE  (\E k \in 1..(n + 1) : Makes(o, k, output)) <=>
              (\E k \in 1..n : Makes(o, k, output)) \/ Makes(o, n + 1, output)
<1>1. \A k : k \in 1..(n + 1) <=> k \in 1..n \/ k = n + 1
  OBVIOUS
<1> QED
  BY <1>1, Zenon

\* Results stay what they are when the next pair gives another name, or none.
LEMMA OutsGoOn ==
    ASSUME NEW o, NEW n \in Nat, NEW outs, NEW conversions,
           OutsStand(outs, o, n, conversions),
           NEW new, NEW output \in Outputs, new[output] = outs[output],
           ~Makes(o, n + 1, output)
    PROVE  OutStands(new, o, n + 1, conversions, output)
<1> SUFFICES ASSUME ~Renamed(conversions, output)
    PROVE  /\ new[output] # Nothing <=> \E k \in 1..(n + 1) : Makes(o, k, output)
           /\ new[output] # Nothing /\ ~Shared(conversions, output) =>
                \E k \in 1..(n + 1) :
                   /\ Makes(o, k, output)
                   /\ MadeBy(version, new[output], assets[o][Matches[k][2]], Matches[k])
  BY DEF OutStands
<1>1. new[output] # Nothing <=> \E k \in 1..n : Makes(o, k, output)
  BY DEF OutsStand, OutStands
<1>2. new[output] # Nothing /\ ~Shared(conversions, output) =>
         \E k \in 1..n : /\ Makes(o, k, output)
                         /\ MadeBy(version, new[output], assets[o][Matches[k][2]], Matches[k])
  BY DEF OutsStand, OutStands
<1>3. \A k \in 1..n : k \in 1..(n + 1)
  OBVIOUS
<1> QED
  BY <1>1, <1>2, <1>3, MakesNext

LEMMA TurnKeeps ==
    ASSUME OverlayTypeOK, NEW o \in Owners, NEW n \in 0..(Len(Matches) - 1), NEW acc,
           NEW conversions, Claimed(o) \subseteq conversions, TurnInv(acc, o, n, conversions)
    PROVE  TurnInv(Turn(acc, o, Matches[n + 1]), o, n + 1, conversions)
<1> DEFINE p == Matches[n + 1]
           c == assets[o][p[2]]
           new == Turn(acc, o, p)
<1>1. n \in Nat /\ n + 1 \in 1..Len(Matches) /\ n + 1 \in 1..(n + 1)
  BY MatchFacts
<1>2. p \in Pairs /\ p[1] \in Converters /\ p[2] \in Sources /\ p \in ToSet(Matches)
  BY <1>1, MatchFacts
<1>3. c \in Contents \cup {Nothing}
  BY <1>2 DEF OverlayTypeOK
<1>4. acc \in Accs /\ acc.cache \in Caches /\ acc.outs \in [Outputs -> {Nothing} \cup Results]
  BY DEF TurnInv, Accs
<1>5. \A output : Makes(o, n + 1, output) <=> c # Nothing /\ NameOf(p, c) = output
  BY DEF Makes
<1>6. c # Nothing => <<o, p, c, NameOf(p, c)>> \in conversions
  BY <1>2 DEF Claimed
<1>7. CacheStands(version, o, acc.cache, conversions) /\ OutsStand(acc.outs, o, n, conversions)
  BY DEF TurnInv
<1>8. new = IF c = Nothing THEN acc
            ELSE IF Hit(acc.cache, p, c) THEN Serve(acc, p)
            ELSE Convert(acc, p, c)
  BY DEF Turn
<1>9. assets[o][Matches[n + 1][2]] = c /\ Matches[n + 1] = p
  OBVIOUS
<1> HIDE DEF p, c, new
<1>10. CASE c = Nothing
  <2>1. new = acc
    BY <1>8, <1>10
  <2>2. OutsStand(acc.outs, o, n + 1, conversions)
    <3> SUFFICES ASSUME NEW output \in Outputs
        PROVE  OutStands(acc.outs, o, n + 1, conversions, output)
      BY DEF OutsStand
    <3> QED
      BY <1>1, <1>5, <1>7, <1>10, OutsGoOn, Zenon
  <2> QED
    BY <1>4, <1>7, <2>1, <2>2 DEF TurnInv, new, p
<1>11. CASE c # Nothing
  <2> DEFINE name == NameOf(p, c)
  <2>1. c \in Contents
    BY <1>3, <1>11
  <2>2. name \in Outputs /\ Makes(o, n + 1, name) /\ <<o, p, c, name>> \in conversions
    BY <1>2, <1>5, <1>6, <1>11, <2>1, ConvertedFacts
  <2>3. ASSUME NEW to \in Outputs, <<o, p, c, to>> \in conversions,
               NEW file, file # Nothing,
               ~Shared(conversions, to) => MadeBy(version, file, c, p),
               new.outs = [acc.outs EXCEPT ![to] = file]
        PROVE  OutsStand(new.outs, o, n + 1, conversions)
    <3> HIDE DEF name
    <3> SUFFICES ASSUME NEW output \in Outputs
        PROVE  OutStands(new.outs, o, n + 1, conversions, output)
      BY DEF OutsStand
    <3>1. CASE to = name /\ output = name
      <4>1. new.outs[output] = file
        BY <1>4, <2>3, <3>1
      <4>2. Makes(o, n + 1, output)
        BY <2>2, <3>1
      <4>3. ~Shared(conversions, output) =>
               MadeBy(version, new.outs[output], assets[o][Matches[n + 1][2]], Matches[n + 1])
        BY <1>9, <2>3, <3>1, <4>1
      <4> QED
        BY <1>1, <2>3, <4>1, <4>2, <4>3 DEF OutStands
    <3>2. CASE to # name /\ output \in {to, name}
      <4>1. Renamed(conversions, to) /\ Renamed(conversions, name)
        BY <2>2, <2>3, <3>2, RenamedFacts
      <4> QED
        BY <3>2, <4>1 DEF OutStands
    <3>3. CASE output \notin {to, name}
      <4>1. new.outs[output] = acc.outs[output]
        BY <1>4, <2>3, <3>3
      <4>2. ~Makes(o, n + 1, output)
        BY <1>5, <3>3 DEF name
      <4> QED
        BY <1>1, <1>7, <4>1, <4>2, OutsGoOn, Zenon
    <3> QED
      BY <3>1, <3>2, <3>3
  <2>4. CASE Hit(acc.cache, p, c)
    <3> DEFINE to == acc.cache.manifest[p].output
    <3>1. acc.cache.manifest[p] # NoEntry /\ acc.cache.manifest[p].hash = c
      BY <1>2, <1>4, <2>1, <2>4, HitFacts
    <3>2. /\ <<o, p, c, to>> \in conversions
          /\ ~Shared(conversions, to) => MadeBy(version, acc.cache.files[to], c, p)
      BY <1>2, <1>7, <3>1 DEF CacheStands
    <3>3. to \in Outputs /\ acc.cache.files[to] \in Results
      BY <1>2, <1>4, <2>1, <2>4, HitFacts
    <3>4. acc.cache.files[to] # Nothing
      BY <3>3, ResultFacts
    <3>5. new = Serve(acc, p)
      BY <1>8, <1>11, <2>4
    <3>6. /\ new \in Accs /\ new.cache = acc.cache
          /\ new.outs = [acc.outs EXCEPT ![to] = acc.cache.files[to]]
      <4>1. /\ Serve(acc, p) \in Accs /\ Serve(acc, p).cache = acc.cache
            /\ Serve(acc, p).outs =
                 [acc.outs EXCEPT ![acc.cache.manifest[p].output] =
                     acc.cache.files[acc.cache.manifest[p].output]]
        BY <1>2, <1>4, <2>1, <2>4, ServeIs
      <4> QED
        BY <3>5, <4>1, Zenon
    <3> HIDE DEF to
    <3>7. OutsStand(new.outs, o, n + 1, conversions)
      BY <2>3, <3>2, <3>3, <3>4, <3>6
    <3> QED
      BY <1>7, <3>6, <3>7 DEF TurnInv, new, p
  <2>5. CASE ~Hit(acc.cache, p, c)
    <3>1. new = Convert(acc, p, c)
      BY <1>8, <1>11, <2>5
    <3>2. /\ new \in Accs
          /\ new.outs = [acc.outs EXCEPT ![name] = Converted(c, p)]
          /\ new.cache.manifest = [acc.cache.manifest EXCEPT ![p] = [hash |-> c, output |-> name]]
          /\ new.cache.files = [acc.cache.files EXCEPT ![name] = Converted(c, p)]
      <4>1. Convert(acc, p, c) \in Accs
        BY <1>2, <1>4, <2>1, ConvertType
      <4>2. /\ Convert(acc, p, c).outs = [acc.outs EXCEPT ![name] = Converted(c, p)]
            /\ Convert(acc, p, c).cache.manifest =
                 [acc.cache.manifest EXCEPT ![p] = [hash |-> c, output |-> name]]
            /\ Convert(acc, p, c).cache.files = [acc.cache.files EXCEPT ![name] = Converted(c, p)]
        BY DEF Convert
      <4> QED
        BY <3>1, <4>1, <4>2, Zenon
    <3>3. Converted(c, p) # Nothing /\ MadeBy(version, Converted(c, p), c, p)
      BY <1>2, <2>1, ConvertedFacts, ResultFacts
    <3>4. OutsStand(new.outs, o, n + 1, conversions)
      BY <2>2, <2>3, <3>2, <3>3
    <3>5. CacheStands(version, o, new.cache, conversions)
      <4> SUFFICES ASSUME NEW q \in Pairs, new.cache.manifest[q] # NoEntry,
                          NEW entry, entry = new.cache.manifest[q]
          PROVE  /\ <<o, q, entry.hash, entry.output>> \in conversions
                 /\ ~Shared(conversions, entry.output) =>
                      MadeBy(version, new.cache.files[entry.output], entry.hash, q)
        BY DEF CacheStands
      <4> HIDE DEF name
      <4>1. /\ acc.cache.manifest \in [Pairs -> {NoEntry} \cup [hash : Contents, output : Outputs]]
            /\ acc.cache.files \in [Outputs -> {Nothing} \cup Results]
        BY <1>4 DEF Caches
      <4>2. new.cache.files[name] = Converted(c, p)
        BY <2>2, <3>2, <4>1
      <4>3. CASE q = p
        <5>1. entry = [hash |-> c, output |-> name]
          BY <3>2, <4>1, <4>3
        <5>2. entry.hash = c /\ entry.output = name
          BY <5>1
        <5> QED
          BY <2>2, <3>3, <4>2, <4>3, <5>2
      <4>4. CASE q # p
        <5>1. entry = acc.cache.manifest[q] /\ acc.cache.manifest[q] # NoEntry
          BY <3>2, <4>1, <4>4
        <5>2. /\ <<o, q, entry.hash, entry.output>> \in conversions
              /\ ~Shared(conversions, entry.output) =>
                   MadeBy(version, acc.cache.files[entry.output], entry.hash, q)
          BY <1>7, <5>1 DEF CacheStands
        <5>3. CASE entry.output = name
          <6>1. Shared(conversions, name)
            BY <2>2, <4>4, <5>2, <5>3, SharedFacts
          <6> QED
            BY <5>2, <5>3, <6>1
        <5>4. CASE entry.output # name
          <6>1. entry.output \in Outputs
            BY <1>4, <5>1, EntryFacts
          <6>2. new.cache.files[entry.output] = acc.cache.files[entry.output]
            BY <3>2, <4>1, <5>4, <6>1
          <6> QED
            BY <5>2, <6>2
        <5> QED
          BY <5>3, <5>4
      <4> QED
        BY <4>3, <4>4
    <3> QED
      BY <3>2, <3>4, <3>5 DEF TurnInv, new, p
  <2> QED
    BY <2>4, <2>5
<1> QED
  BY <1>10, <1>11

LEMMA TurnType ==
    ASSUME OverlayTypeOK, NEW o \in Owners, NEW acc \in Accs, NEW p \in Pairs
    PROVE  Turn(acc, o, p) \in Accs
<1> DEFINE c == assets[o][p[2]]
<1>1. c \in Contents \cup {Nothing}
  BY PairFacts DEF OverlayTypeOK
<1>2. Turn(acc, o, p) = IF c = Nothing THEN acc
                        ELSE IF Hit(acc.cache, p, c) THEN Serve(acc, p)
                        ELSE Convert(acc, p, c)
  BY DEF Turn
<1> HIDE DEF c
<1>3. CASE c = Nothing
  BY <1>2, <1>3
<1>4. CASE c # Nothing /\ Hit(acc.cache, p, c)
  <2>1. Serve(acc, p) \in Accs
    BY <1>1, <1>4, ServeIs
  <2> QED
    BY <1>2, <1>4, <2>1
<1>5. CASE c # Nothing /\ ~Hit(acc.cache, p, c)
  <2>1. Convert(acc, p, c) \in Accs
    BY <1>1, <1>5, ConvertType
  <2> QED
    BY <1>2, <1>5, <2>1
<1> QED
  BY <1>3, <1>4, <1>5

LEMMA StartStands ==
    ASSUME OverlayTypeOK, NEW o \in Owners, NEW conversions,
           CacheStands(version, o, converts[o].cache, conversions)
    PROVE  TurnInv([outs |-> NoFile, cache |-> converts[o].cache, dirty |-> FALSE],
                   o, 0, conversions)
<1> DEFINE start == [outs |-> NoFile, cache |-> converts[o].cache, dirty |-> FALSE]
<1>1. start.outs = NoFile /\ start.cache = converts[o].cache
  OBVIOUS
<1>2. NoFile \in [Outputs -> {Nothing} \cup Results] /\ \A output \in Outputs : NoFile[output] = Nothing
  BY DEF NoFile, Data
<1>3. converts[o].cache \in Caches
  BY DEF OverlayTypeOK
<1>4. start \in Accs
  BY <1>2, <1>3 DEF Accs
<1>5. OutsStand(NoFile, o, 0, conversions)
  BY <1>2 DEF OutsStand, OutStands
<1> HIDE DEF start
<1>6. TurnInv(start, o, 0, conversions)
  BY <1>1, <1>4, <1>5 DEF TurnInv
<1> QED
  BY <1>6 DEF start

\* The loops lose nothing and mix nothing up.
LEMMA PreparedStands ==
    ASSUME OverlayTypeOK, NEW o \in Owners, NEW conversions, Claimed(o) \subseteq conversions,
           CacheStands(version, o, converts[o].cache, conversions)
    PROVE  TurnInv(Prepared(o), o, Len(Matches), conversions)
<1> DEFINE N == Len(Matches)
           start == [outs |-> NoFile, cache |-> converts[o].cache, dirty |-> FALSE]
           Fits(f) == f = [n \in 0..N |-> IF n = 0 THEN start
                                          ELSE Turn(f[n - 1], o, Matches[n])]
           after == CHOOSE f : Fits(f)
<1>1. Prepared(o) = after[N]
  BY DEF Prepared
<1>2. N \in Nat /\ \A n \in 1..N : Matches[n] \in Pairs
  BY MatchFacts
<1>3. TurnInv(start, o, 0, conversions)
  BY StartStands
<1>4. start \in Accs
  BY <1>3 DEF TurnInv
<1> HIDE DEF N, start
<1>5. \E f : Fits(f)
  <2> DEFINE turn == [x \in Accs \X (1..N) |-> Turn(x[1], o, Matches[x[2]])]
  <2>1. ASSUME NEW x \in Accs \X (1..N)
        PROVE  Turn(x[1], o, Matches[x[2]]) \in Accs
    <3>1. x[1] \in Accs /\ Matches[x[2]] \in Pairs
      BY <1>2
    <3> QED
      BY <3>1, TurnType
  <2>2. turn \in [Accs \X (1..N) -> Accs]
    BY <2>1
  <2>3. \A acc \in Accs, n \in 1..N : turn[<<acc, n>>] = Turn(acc, o, Matches[n])
    OBVIOUS
  <2> HIDE DEF turn
  <2>4. PICK f \in [0..N -> Accs] : Loops(f, N, start, turn)
    BY <1>2, <1>4, <2>2, LoopExists, Zenon
  <2>5. ASSUME NEW k \in 0..N, k # 0
        PROVE  turn[<<f[k - 1], k>>] = Turn(f[k - 1], o, Matches[k])
    <3>1. k \in 1..N /\ k - 1 \in 0..N
      BY <1>2, <2>5
    <3> QED
      BY <2>3, <2>4, <3>1
  <2>6. f = [n \in 0..N |-> IF n = 0 THEN start ELSE Turn(f[n - 1], o, Matches[n])]
    BY <2>4, <2>5 DEF Loops
  <2> QED
    BY <2>6
<1>6. Fits(after)
  <2> HIDE DEF Fits
  <2> QED
    BY <1>5
<1>7. \A n \in 0..N : after[n] = IF n = 0 THEN start ELSE Turn(after[n - 1], o, Matches[n])
  BY <1>6
<1> HIDE DEF after, Fits
<1> DEFINE T == {n \in Nat : n <= N => TurnInv(after[n], o, n, conversions)}
<1>8. \A n : n \in T <=> n \in Nat /\ (n <= N => TurnInv(after[n], o, n, conversions))
  OBVIOUS
<1>9. T \in SUBSET Nat
  OBVIOUS
<1> HIDE DEF T
<1>10. 0 \in T
  <2>1. after[0] = start
    BY <1>2, <1>7
  <2> QED
    BY <1>3, <1>8, <2>1
<1>11. ASSUME NEW n \in 0..(N - 1), n \in T
       PROVE  n + 1 \in T
  <2>1. n + 1 \in 0..N /\ n + 1 # 0 /\ (n + 1) - 1 = n /\ n + 1 \in Nat /\ n <= N
    BY <1>2
  <2>2. TurnInv(after[n], o, n, conversions)
    BY <1>8, <1>11, <2>1
  <2>3. after[n + 1] = Turn(after[n], o, Matches[n + 1])
    BY <1>7, <2>1
  <2>4. TurnInv(Turn(after[n], o, Matches[n + 1]), o, n + 1, conversions)
    BY <2>2, TurnKeeps DEF N
  <2> QED
    BY <1>8, <2>1, <2>3, <2>4
<1>12. \A n \in 0..N : n \in T
  <2>1. \A n \in 0..(N - 1) : n \in T => n + 1 \in T
    BY <1>11
  <2> QED
    BY <1>2, <1>9, <1>10, <2>1, Induction, Zenon
<1>13. TurnInv(after[N], o, N, conversions)
  <2>1. N \in 0..N /\ N <= N
    BY <1>2
  <2> QED
    BY <1>8, <1>12, <2>1
<1> QED
  BY <1>1, <1>13 DEF N

-----------------------------------------------------------------------------
(* Registration.                                                           *)

\* File f holds d where converting anew gives e.
Right(conversions, f, d, e) ==
    \/ d = e
    \/ f \in Outputs /\ (Shared(conversions, f) \/ Renamed(conversions, f))
    \/ Older(d, e)

\* No result is left out, and none is without its asset.
SameNames(conversions, outs, anew) ==
    \A f \in Outputs : Renamed(conversions, f) \/ (outs[f] = Nothing <=> anew[f] = Nothing)

CachesStand == \A o \in Owners : CacheStands(version, o, converts[o].cache, claims)

\* The registration under way is about to copy what it should.
JobStands ==
    /\ OverlayIdle => job = NoJob
    /\ ~OverlayIdle => job.of \in Owners
    /\ job.puts \subseteq Written(job.outs)
    /\ \A o \in Owners : ~OverlayIdle /\ job.of = o =>
          /\ job.raws \subseteq Present(o)
          /\ SameNames(claims, job.outs, Anew(o))
          /\ \A f \in Written(job.outs) : Right(claims, f, job.outs[f], Anew(o)[f])
          /\ job.step = "saving" => CacheStands(version, o, job.cache, claims)

RootStands == \A f \in Paths : Right(claims, f, root[f], due[f])

OverlayInv == OverlayTypeOK /\ CachesStand /\ JobStands /\ RootStands

LEMMA AnewFacts ==
    ASSUME OverlayTypeOK, NEW o \in Owners, NEW output \in Outputs
    PROVE  /\ Anew(o)[output] \in {Nothing} \cup Results
           /\ Anew(o)[output] # Nothing <=> \E n \in 1..Len(Matches) : Makes(o, n, output)
           /\ Anew(o)[output] # Nothing =>
                \E n \in 1..Len(Matches) :
                   /\ Makes(o, n, output)
                   /\ assets[o][Matches[n][2]] \in Contents
                   /\ Anew(o)[output] = Converted(assets[o][Matches[n][2]], Matches[n])
<1> DEFINE makers == {n \in 1..Len(Matches) : Makes(o, n, output)}
           last == CHOOSE n \in makers : \A k \in makers : k <= n
<1>1. Anew(o)[output] = IF makers = {} THEN Nothing
                        ELSE Converted(assets[o][Matches[last][2]], Matches[last])
  BY DEF Anew
<1>2. \A n : n \in makers <=> n \in 1..Len(Matches) /\ Makes(o, n, output)
  OBVIOUS
<1>3. makers \in SUBSET (1..Len(Matches)) /\ Len(Matches) \in Nat
  BY MatchFacts
<1> HIDE DEF makers
<1>4. CASE makers = {}
  <2>1. Anew(o)[output] = Nothing
    BY <1>1, <1>4
  <2> QED
    BY <1>2, <1>4, <2>1
<1>5. CASE makers # {}
  <2>1. \E n \in makers : \A k \in makers : k <= n
    BY <1>3, <1>5, LastExists
  <2>2. last \in makers
    BY <2>1
  <2> HIDE DEF last
  <2>3. last \in 1..Len(Matches) /\ Makes(o, last, output) /\ Matches[last] \in Pairs
          /\ Matches[last][2] \in Sources
    BY <1>2, <2>2, MatchFacts
  <2>4. assets[o][Matches[last][2]] \in Contents
    BY <2>3 DEF Makes, OverlayTypeOK
  <2>5. /\ Converted(assets[o][Matches[last][2]], Matches[last]) \in Results
        /\ Converted(assets[o][Matches[last][2]], Matches[last]) # Nothing
    BY <2>3, <2>4, ConvertedFacts, ResultFacts
  <2>6. Anew(o)[output] = Converted(assets[o][Matches[last][2]], Matches[last])
    BY <1>1, <1>5
  <2> QED
    BY <2>3, <2>4, <2>5, <2>6
<1> QED
  BY <1>4, <1>5

LEMMA AnewType ==
    ASSUME OverlayTypeOK, NEW o \in Owners
    PROVE  Anew(o) \in [Outputs -> {Nothing} \cup Results]
<1>1. \A output \in Outputs : Anew(o)[output] \in {Nothing} \cup Results
  BY AnewFacts
<1>2. Anew(o) = [output \in Outputs |-> Anew(o)[output]]
  BY DEF Anew
<1> QED
  BY <1>1, <1>2

\* Files agree in their first three parts.
LEMMA SameUpTo ==
    ASSUME NEW d, NEW e, \A i \in 1..3 : d[i] = e[i]
    PROVE  SubSeq(d, 1, 3) = SubSeq(e, 1, 3)
<1> DEFINE S == {d[i] : i \in 1..3}
<1>1. (\A i \in 1..3 : d[i] \in S) /\ (\A i \in 1..3 : e[i] \in S)
  OBVIOUS
<1> HIDE DEF S
<1>2. /\ SubSeq(d, 1, 3) \in Seq(S) /\ Len(SubSeq(d, 1, 3)) = 3
      /\ \A i \in 1..3 : SubSeq(d, 1, 3)[i] = d[i]
  BY <1>1, SubSeqProperties
<1>3. /\ SubSeq(e, 1, 3) \in Seq(S) /\ Len(SubSeq(e, 1, 3)) = 3
      /\ \A i \in 1..3 : SubSeq(e, 1, 3)[i] = e[i]
  BY <1>1, SubSeqProperties
<1> QED
  BY <1>2, <1>3, SeqEqual

\* What a converter made once is what it makes now, or older.
LEMMA MadeIsOlder ==
    ASSUME OverlayTypeOK, NEW p \in Pairs, NEW c \in Contents, NEW d, MadeBy(version, d, c, p)
    PROVE  d = Converted(c, p) \/ Older(d, Converted(c, p))
<1>1. p[1] \in Converters /\ p[2] \in Sources
  BY PairFacts
<1>2. version[p[1]] \in Nat
  BY <1>1 DEF OverlayTypeOK, Versions
<1>3. PICK v \in 1..version[p[1]] : d = <<c, p[2], p[1], v>>
  BY DEF MadeBy
<1>4. Converted(c, p) = <<c, p[2], p[1], version[p[1]]>>
  BY DEF Converted
<1>5. d \in Results /\ Converted(c, p) \in Results
  BY MadeFacts, ConvertedFacts
<1>6. CASE v = version[p[1]]
  BY <1>3, <1>4, <1>6
<1>7. CASE v # version[p[1]]
  <2>1. d[4] = v /\ Converted(c, p)[4] = version[p[1]]
    BY <1>3, <1>4
  <2>2. d[4] < Converted(c, p)[4]
    BY <1>2, <1>3, <1>7, <2>1
  <2>3. SubSeq(d, 1, 3) = SubSeq(Converted(c, p), 1, 3)
    <3>1. \A i \in 1..3 : d[i] = Converted(c, p)[i]
      BY <1>3, <1>4
    <3> QED
      BY <3>1, SameUpTo
  <2> QED
    BY <1>5, <2>2, <2>3 DEF Older
<1> QED
  BY <1>6, <1>7

\* Two pairs that give one name share it.
LEMMA MakersShare ==
    ASSUME NEW o \in Owners, NEW conversions, Claimed(o) \subseteq conversions,
           NEW output, NEW n \in 1..Len(Matches), NEW k \in 1..Len(Matches),
           Makes(o, n, output), Makes(o, k, output), Matches[n] # Matches[k]
    PROVE  Shared(conversions, output)
<1>1. <<o, Matches[n], assets[o][Matches[n][2]], output>> \in conversions
  BY MatchFacts DEF Makes, Claimed
<1>2. <<o, Matches[k], assets[o][Matches[k][2]], output>> \in conversions
  BY MatchFacts DEF Makes, Claimed
<1> QED
  BY <1>1, <1>2, SharedFacts

\* What the loops leave is to be seen as what converting anew gives.
LEMMA ResultsRight ==
    ASSUME OverlayTypeOK, NEW o \in Owners, NEW conversions, Claimed(o) \subseteq conversions,
           NEW outs, OutsStand(outs, o, Len(Matches), conversions)
    PROVE  /\ SameNames(conversions, outs, Anew(o))
           /\ \A f \in Written(outs) : Right(conversions, f, outs[f], Anew(o)[f])
<1>1. ASSUME NEW f \in Outputs, ~Renamed(conversions, f)
      PROVE  outs[f] # Nothing <=> Anew(o)[f] # Nothing
  <2>1. outs[f] # Nothing <=> \E n \in 1..Len(Matches) : Makes(o, n, f)
    BY <1>1 DEF OutsStand, OutStands
  <2> QED
    BY <2>1, AnewFacts
<1>2. SameNames(conversions, outs, Anew(o))
  BY <1>1 DEF SameNames
<1>3. ASSUME NEW f \in Written(outs), ~Shared(conversions, f), ~Renamed(conversions, f)
      PROVE  outs[f] = Anew(o)[f] \/ Older(outs[f], Anew(o)[f])
  <2>1. f \in Outputs /\ outs[f] # Nothing /\ Anew(o)[f] # Nothing
    BY <1>1, <1>3 DEF Written
  <2>2. PICK n \in 1..Len(Matches) :
           /\ Makes(o, n, f)
           /\ MadeBy(version, outs[f], assets[o][Matches[n][2]], Matches[n])
    BY <1>3, <2>1 DEF OutsStand, OutStands
  <2>3. PICK k \in 1..Len(Matches) :
           /\ Makes(o, k, f)
           /\ assets[o][Matches[k][2]] \in Contents
           /\ Anew(o)[f] = Converted(assets[o][Matches[k][2]], Matches[k])
    BY <2>1, AnewFacts
  <2>4. Matches[n] = Matches[k]
    BY <1>3, <2>2, <2>3, MakersShare
  <2>5. Matches[k] \in Pairs
    BY MatchFacts
  <2>6. MadeBy(version, outs[f], assets[o][Matches[k][2]], Matches[k])
    BY <2>2, <2>4
  <2> QED
    BY <2>3, <2>5, <2>6, MadeIsOlder
<1>4. \A f \in Written(outs) : f \in Outputs
  BY DEF Written
<1> QED
  BY <1>2, <1>3, <1>4 DEF Right

-----------------------------------------------------------------------------
(* Steps of the registration, and of the user.                             *)

LEMMA SharedGrows ==
    ASSUME NEW conversions, NEW more, conversions \subseteq more, NEW f,
           Shared(conversions, f)
    PROVE  Shared(more, f)
  BY DEF Shared

LEMMA RenamedGrows ==
    ASSUME NEW conversions, NEW more, conversions \subseteq more, NEW f,
           Renamed(conversions, f)
    PROVE  Renamed(more, f)
  BY DEF Renamed

LEMMA RightGrows ==
    ASSUME NEW conversions, NEW more, conversions \subseteq more, NEW f, NEW d, NEW e,
           Right(conversions, f, d, e)
    PROVE  Right(more, f, d, e)
  BY SharedGrows, RenamedGrows DEF Right

LEMMA CacheGrows ==
    ASSUME NEW o, NEW kept, NEW conversions, NEW more, conversions \subseteq more,
           NEW versions, CacheStands(versions, o, kept, conversions)
    PROVE  CacheStands(versions, o, kept, more)
<1>1. \A f : Shared(conversions, f) => Shared(more, f)
  BY SharedGrows
<1> QED
  BY <1>1 DEF CacheStands

LEMMA CacheAges ==
    ASSUME NEW o, NEW kept, NEW conversions,
           NEW versions \in [Converters -> Nat], NEW newer \in [Converters -> Nat],
           \A w \in Converters : versions[w] <= newer[w],
           CacheStands(versions, o, kept, conversions)
    PROVE  CacheStands(newer, o, kept, conversions)
<1>1. ASSUME NEW p \in Pairs, NEW c, NEW d, MadeBy(versions, d, c, p)
      PROVE  MadeBy(newer, d, c, p)
  <2>1. p[1] \in Converters
    BY PairFacts
  <2>2. \A v \in 1..versions[p[1]] : v \in 1..newer[p[1]]
    BY <2>1
  <2> QED
    BY <1>1, <2>2 DEF MadeBy
<1> QED
  BY <1>1 DEF CacheStands

LEMMA NoCacheStands ==
    ASSUME NEW versions, NEW o, NEW conversions
    PROVE  NoCache \in Caches /\ CacheStands(versions, o, NoCache, conversions)
<1>1. NoCache.manifest = [p \in Pairs |-> NoEntry] /\ NoCache.files = NoFile
  BY DEF NoCache
<1>2. NoFile \in [Outputs -> {Nothing} \cup Results]
  BY DEF NoFile, Data
<1> QED
  BY <1>1, <1>2 DEF NoCache, Caches, CacheStands

LEMMA NoJobStands ==
    ASSUME OverlayTypeOK, CachesStand, RootStands,
           job' = NoJob, UNCHANGED <<assets, version, converts, claims>>,
           \/ UNCHANGED <<root, due>>
           \/ \E f \in Paths : /\ root' = [root EXCEPT ![f] = Torn]
                               /\ due' = [due EXCEPT ![f] = Torn]
    PROVE  OverlayInv'
<1>1. /\ NoJob.step = "none" /\ NoJob.puts = {} /\ NoJob.raws = {} /\ NoJob.of = Nothing
      /\ NoJob.outs = NoFile /\ NoJob.cache = NoCache
  BY DEF NoJob
<1>2. NoJob \in [of : Owners \cup {Nothing}, step : {"none", "saving", "copying"},
                 cache : Caches, outs : [Outputs -> {Nothing} \cup Results],
                 raws : SUBSET Sources, puts : SUBSET Outputs]
  <2>1. NoCache \in Caches /\ NoFile \in [Outputs -> {Nothing} \cup Results]
    BY NoCacheStands DEF NoFile, Data
  <2> QED
    BY <2>1 DEF NoJob
<1>3. OverlayTypeOK'
  <2>1. root' \in [Paths -> Data] /\ due' \in [Paths -> Data]
    <3>1. root \in [Paths -> Data] /\ due \in [Paths -> Data] /\ Torn \in Data
      BY DEF OverlayTypeOK, Data
    <3> QED
      BY <3>1
  <2> QED
    BY <1>2, <2>1 DEF OverlayTypeOK
<1>4. OverlayIdle'
  BY <1>1 DEF OverlayIdle
<1>5. JobStands'
  BY <1>1, <1>4 DEF JobStands
<1>6. CachesStand'
  BY DEF CachesStand
<1>7. RootStands'
  <2> SUFFICES ASSUME NEW g \in Paths
      PROVE  Right(claims, g, root'[g], due'[g])
    BY DEF RootStands
  <2>1. Right(claims, g, root[g], due[g])
    BY DEF RootStands
  <2>2. CASE UNCHANGED <<root, due>>
    BY <2>1, <2>2
  <2>3. CASE \E f \in Paths : /\ root' = [root EXCEPT ![f] = Torn]
                             /\ due' = [due EXCEPT ![f] = Torn]
    <3>1. PICK f \in Paths : /\ root' = [root EXCEPT ![f] = Torn]
                            /\ due' = [due EXCEPT ![f] = Torn]
      BY <2>3
    <3>2. root \in [Paths -> Data] /\ due \in [Paths -> Data]
      BY DEF OverlayTypeOK
    <3>3. CASE f = g
      <4>1. root'[g] = Torn /\ due'[g] = Torn
        BY <3>1, <3>2, <3>3
      <4> QED
        BY <4>1 DEF Right
    <3>4. CASE f # g
      <4>1. root'[g] = root[g] /\ due'[g] = due[g]
        BY <3>1, <3>2, <3>4
      <4> QED
        BY <2>1, <4>1
    <3> QED
      BY <3>3, <3>4
  <2> QED
    BY <2>2, <2>3
<1> QED
  BY <1>3, <1>5, <1>6, <1>7 DEF OverlayInv

LEMMA OverlayInitInv ==
    ASSUME NEW initial \in [Owners -> [Sources -> Contents \cup {Nothing}]],
           OverlayInit(initial)
    PROVE  OverlayInv
<1>1. /\ NoJob.step = "none" /\ NoJob.puts = {}
  BY DEF NoJob
<1>2. NoCache \in Caches /\ NoFile \in [Outputs -> {Nothing} \cup Results] /\ Nothing \in Data
  BY NoCacheStands DEF NoFile, Data
<1>3. job = NoJob /\ OverlayIdle /\ claims = {} /\ due = root
  BY <1>1 DEF OverlayInit, OverlayIdle
<1>4. NoJob \in [of : Owners \cup {Nothing}, step : {"none", "saving", "copying"},
                 cache : Caches, outs : [Outputs -> {Nothing} \cup Results],
                 raws : SUBSET Sources, puts : SUBSET Outputs]
  BY <1>2 DEF NoJob
<1>5. OverlayTypeOK
  <2>1. assets \in [Owners -> [Sources -> Contents \cup {Nothing}]]
    BY DEF OverlayInit
  <2>2. version \in [Converters -> Versions]
    BY DEF OverlayInit, Versions
  <2>3. converts \in [Owners -> [state : {"absent", "torn", "whole"}, cache : Caches]]
    BY <1>2 DEF OverlayInit
  <2>4. root \in [Paths -> Data] /\ due \in [Paths -> Data]
    BY <1>2, <1>3 DEF OverlayInit
  <2> QED
    BY <1>3, <1>4, <2>1, <2>2, <2>3, <2>4 DEF OverlayTypeOK
<1>6. CachesStand
  <2>1. \A o \in Owners : converts[o].cache = NoCache
    BY DEF OverlayInit
  <2> QED
    BY <2>1, NoCacheStands DEF CachesStand
<1>7. JobStands
  BY <1>1, <1>3 DEF JobStands
<1>8. RootStands
  BY <1>3 DEF RootStands, Right
<1> QED
  BY <1>5, <1>6, <1>7, <1>8 DEF OverlayInv

\* Conversions and assets are what they were.
LEMMA SameAnew ==
    ASSUME UNCHANGED <<assets, version>>, NEW o
    PROVE  Anew(o)' = Anew(o) /\ Present(o)' = Present(o)
  BY DEF Anew, Present, Makes, NameOf, Converted

LEMMA PrepareInv ==
    ASSUME OverlayInv, NEW o \in Owners, Prepare(o)
    PROVE  OverlayInv'
<1> DEFINE result == Prepared(o)
           more == claims \cup Claimed(o)
<1>1. OverlayTypeOK /\ CachesStand /\ JobStands /\ RootStands
  BY DEF OverlayInv
<1>2. claims \subseteq more /\ Claimed(o) \subseteq more
  OBVIOUS
<1>3. UNCHANGED <<assets, version, root, due>> /\ claims' = more
  BY DEF Prepare
<1> HIDE DEF more
<1>4. \A p \in Owners : CacheStands(version, p, converts[p].cache, more)
  BY <1>1, <1>2, CacheGrows DEF CachesStand
<1>5. TurnInv(result, o, Len(Matches), more)
  BY <1>1, <1>2, <1>4, PreparedStands
<1>6. /\ result \in Accs /\ result.outs \in [Outputs -> {Nothing} \cup Results] /\ result.cache \in Caches
      /\ result.dirty \in BOOLEAN
      /\ CacheStands(version, o, result.cache, more)
      /\ OutsStand(result.outs, o, Len(Matches), more)
  BY <1>5 DEF TurnInv, Accs
<1>7. /\ SameNames(more, result.outs, Anew(o))
      /\ \A f \in Written(result.outs) : Right(more, f, result.outs[f], Anew(o)[f])
  BY <1>1, <1>2, <1>6, ResultsRight
<1>8. /\ job'.of = o /\ job'.outs = result.outs
      /\ job'.raws = Present(o) /\ job'.puts = Written(result.outs)
      /\ job'.step \in {"saving", "copying"}
      /\ job'.step = "saving" => job'.cache = result.cache
      /\ job'.cache \in {result.cache, NoCache}
      /\ job' = [of |-> job'.of, step |-> job'.step, cache |-> job'.cache,
                 outs |-> job'.outs, raws |-> job'.raws, puts |-> job'.puts]
  <2>1. CASE result.dirty
    <3>1. job' = [of |-> o, step |-> "saving", cache |-> result.cache, outs |-> result.outs,
                  raws |-> Present(o), puts |-> Written(result.outs)]
      BY <2>1 DEF Prepare, Copying
    <3> QED
      BY <3>1
  <2>2. CASE ~result.dirty
    <3>1. job' = [of |-> o, step |-> "copying", cache |-> NoCache, outs |-> result.outs,
                  raws |-> Present(o), puts |-> Written(result.outs)]
      BY <2>2 DEF Prepare, Copying
    <3> QED
      BY <3>1
  <2> QED
    BY <2>1, <2>2
<1>9. \/ converts' = converts
      \/ converts' = [converts EXCEPT ![o] = [state |-> "torn", cache |-> NoCache]]
  BY DEF Prepare
<1> HIDE DEF result
<1>10. NoCache \in Caches /\ \A p : CacheStands(version, p, NoCache, more)
  BY NoCacheStands
<1>11. OverlayTypeOK'
  <2>1. converts' \in [Owners -> [state : {"absent", "torn", "whole"}, cache : Caches]]
    <3>1. [state |-> "torn", cache |-> NoCache] \in
             [state : {"absent", "torn", "whole"}, cache : Caches]
      BY <1>10
    <3>2. converts \in [Owners -> [state : {"absent", "torn", "whole"}, cache : Caches]]
      BY <1>1 DEF OverlayTypeOK
    <3> QED
      BY <1>9, <3>1, <3>2
  <2>2. Present(o) \in SUBSET Sources /\ Written(result.outs) \in SUBSET Outputs
    BY DEF Present, Written
  <2>3. job' \in [of : Owners \cup {Nothing}, step : {"none", "saving", "copying"},
                  cache : Caches, outs : [Outputs -> {Nothing} \cup Results],
                  raws : SUBSET Sources, puts : SUBSET Outputs]
    <3>1. job'.cache \in Caches /\ job'.of \in Owners \cup {Nothing}
            /\ job'.step \in {"none", "saving", "copying"} /\ job'.outs \in [Outputs -> {Nothing} \cup Results]
            /\ job'.raws \in SUBSET Sources /\ job'.puts \in SUBSET Outputs
      BY <1>6, <1>8, <1>10, <2>2
    <3>2. job' = [of |-> job'.of, step |-> job'.step, cache |-> job'.cache,
                  outs |-> job'.outs, raws |-> job'.raws, puts |-> job'.puts]
      BY <1>8
    <3> QED
      BY <3>1, <3>2
  <2>4. Claimed(o) \subseteq Owners \X Pairs \X Contents \X Outputs
    <3> SUFFICES ASSUME NEW p \in ToSet(Matches), assets[o][p[2]] # Nothing
                 PROVE  <<o, p, assets[o][p[2]], NameOf(p, assets[o][p[2]])>> \in
                            Owners \X Pairs \X Contents \X Outputs
      BY DEF Claimed
    <3>1. p \in Pairs
      BY MatchFacts DEF ToSet
    <3>2. assets[o][p[2]] \in Contents
      BY <1>1, <3>1, PairFacts DEF OverlayTypeOK
    <3> QED
      BY <1>1, <3>1, <3>2, ConvertedFacts
  <2>5. claims' \subseteq Owners \X Pairs \X Contents \X Outputs
    BY <1>1, <1>3, <2>4 DEF OverlayTypeOK, more
  <2> QED
    BY <1>1, <1>3, <2>1, <2>3, <2>5 DEF OverlayTypeOK
<1>12. CachesStand'
  <2> SUFFICES ASSUME NEW p \in Owners
      PROVE  CacheStands(version', p, converts'[p].cache, claims')
    BY DEF CachesStand
  <2>1. converts'[p].cache \in {converts[p].cache, NoCache}
    BY <1>1, <1>9 DEF OverlayTypeOK
  <2> QED
    BY <1>3, <1>4, <1>10, <2>1
<1>13. JobStands'
  <2>1. ~OverlayIdle'
    BY <1>8 DEF OverlayIdle
  <2>2. Anew(o)' = Anew(o) /\ Present(o)' = Present(o)
    BY <1>3, SameAnew
  <2>3. \A p \in Owners : job'.of = p => p = o
    BY <1>8
  <2>4. /\ job'.raws \subseteq Present(o)
        /\ SameNames(claims', job'.outs, Anew(o))
        /\ \A f \in Written(job'.outs) : Right(claims', f, job'.outs[f], Anew(o)[f])
        /\ job'.step = "saving" => CacheStands(version', o, job'.cache, claims')
    BY <1>3, <1>6, <1>7, <1>8
  <2>5. job'.puts \subseteq Written(job'.outs)
    BY <1>8
  <2> SUFFICES ASSUME NEW p \in Owners, job'.of = p
      PROVE  /\ job'.raws \subseteq Present(p)'
             /\ SameNames(claims', job'.outs, Anew(p)')
             /\ \A f \in Written(job'.outs) : Right(claims', f, job'.outs[f], Anew(p)'[f])
             /\ job'.step = "saving" => CacheStands(version', p, job'.cache, claims')
    BY <1>8, <2>1, <2>5 DEF JobStands
  <2>6. p = o
    BY <1>8
  <2> QED
    BY <2>2, <2>4, <2>6
<1>14. RootStands'
  BY <1>1, <1>2, <1>3, RightGrows DEF RootStands
<1> QED
  BY <1>11, <1>12, <1>13, <1>14 DEF OverlayInv

\* A registration goes on with what is left to copy.
LEMMA JobGoesOnStands ==
    ASSUME OverlayTypeOK, JobStands, NEW o \in Owners, job.of = o, ~OverlayIdle,
           UNCHANGED <<assets, version, claims>>,
           job'.of = job.of, job'.outs = job.outs, job'.raws \subseteq job.raws,
           job'.puts \subseteq job.puts, job'.step = "copying"
    PROVE  JobStands'
<1>1. /\ job.raws \subseteq Present(o)
      /\ SameNames(claims, job.outs, Anew(o))
      /\ \A f \in Written(job.outs) : Right(claims, f, job.outs[f], Anew(o)[f])
      /\ job.puts \subseteq Written(job.outs)
  BY DEF JobStands
<1>2. ~OverlayIdle'
  BY DEF OverlayIdle
<1>3. Anew(o)' = Anew(o) /\ Present(o)' = Present(o)
  BY SameAnew
<1>4. job'.puts \subseteq Written(job'.outs)
  BY <1>1
<1> SUFFICES ASSUME NEW p \in Owners, job'.of = p
    PROVE  /\ job'.raws \subseteq Present(p)'
           /\ SameNames(claims', job'.outs, Anew(p)')
           /\ \A f \in Written(job'.outs) : Right(claims', f, job'.outs[f], Anew(p)'[f])
           /\ job'.step = "saving" => CacheStands(version', p, job'.cache, claims')
  BY <1>2, <1>4 DEF JobStands
<1>5. p = o
  OBVIOUS
<1> QED
  BY <1>1, <1>3, <1>5

LEMMA IdleJobStands ==
    ASSUME JobStands, OverlayIdle, UNCHANGED job
    PROVE  JobStands'
  BY DEF JobStands, OverlayIdle

\* The cache is written; the copies follow.
LEMMA SaveCacheInv ==
    ASSUME OverlayInv, SaveCache
    PROVE  OverlayInv'
<1>1. OverlayTypeOK /\ CachesStand /\ JobStands /\ RootStands
  BY DEF OverlayInv
<1>2. PICK o \in Owners : job.of = o /\ ~OverlayIdle
  BY <1>1 DEF SaveCache, OverlayIdle, JobStands
<1>3. /\ UNCHANGED <<assets, version, root, due, claims>>
      /\ converts' = [converts EXCEPT ![o] = [state |-> "whole", cache |-> job.cache]]
      /\ job.step = "saving" /\ job' = [job EXCEPT !.step = "copying", !.cache = NoCache]
  BY <1>2 DEF SaveCache
<1>4. CacheStands(version, o, job.cache, claims) /\ job.cache \in Caches
  BY <1>1, <1>2, <1>3 DEF JobStands, OverlayTypeOK
<1>5. NoCache \in Caches
  BY NoCacheStands
<1>6. /\ job'.of = job.of /\ job'.outs = job.outs /\ job'.raws = job.raws
      /\ job'.puts = job.puts /\ job'.step = "copying"
  BY <1>1, <1>3 DEF OverlayTypeOK
<1>7. OverlayTypeOK'
  BY <1>1, <1>3, <1>4, <1>5 DEF OverlayTypeOK
<1>8. CachesStand'
  <2> SUFFICES ASSUME NEW p \in Owners
      PROVE  CacheStands(version', p, converts'[p].cache, claims')
    BY DEF CachesStand
  <2>1. converts'[p].cache = IF p = o THEN job.cache ELSE converts[p].cache
    BY <1>1, <1>3 DEF OverlayTypeOK
  <2> QED
    BY <1>1, <1>3, <1>4, <2>1 DEF CachesStand
<1>9. JobStands'
  BY <1>1, <1>2, <1>3, <1>6, JobGoesOnStands
<1>10. RootStands'
  BY <1>1, <1>3 DEF RootStands
<1> QED
  BY <1>7, <1>8, <1>9, <1>10 DEF OverlayInv

LEMMA CopyAssetInv ==
    ASSUME OverlayInv, NEW s \in Sources, CopyAsset(s)
    PROVE  OverlayInv'
<1>1. OverlayTypeOK /\ CachesStand /\ JobStands /\ RootStands
  BY DEF OverlayInv
<1>2. PICK o \in Owners : job.of = o /\ ~OverlayIdle
  BY <1>1 DEF CopyAsset, OverlayIdle, JobStands
<1> DEFINE d == Raw(assets[o][s])
<1>3. /\ UNCHANGED <<assets, version, converts, claims>>
      /\ job.step = "copying" /\ s \in job.raws /\ job' = [job EXCEPT !.raws = @ \ {s}]
      /\ root' = [root EXCEPT ![s] = d] /\ due' = [due EXCEPT ![s] = d]
  BY <1>2 DEF CopyAsset
<1>4. s \in Present(o)
  BY <1>1, <1>2, <1>3 DEF JobStands
<1>5. d \in Data
  BY <1>1, <1>4 DEF OverlayTypeOK, Present, Data
<1> HIDE DEF d
<1>6. /\ job'.of = job.of /\ job'.outs = job.outs /\ job'.raws \subseteq job.raws
      /\ job'.puts = job.puts /\ job'.step = "copying"
  BY <1>1, <1>3 DEF OverlayTypeOK
<1>7. OverlayTypeOK'
  BY <1>1, <1>3, <1>5 DEF OverlayTypeOK
<1>8. CachesStand'
  BY <1>1, <1>3 DEF CachesStand
<1>9. JobStands'
  BY <1>1, <1>2, <1>3, <1>6, JobGoesOnStands
<1>10. RootStands'
  <2> SUFFICES ASSUME NEW f \in Paths
      PROVE  Right(claims', f, root'[f], due'[f])
    BY DEF RootStands
  <2>1. root \in [Paths -> Data] /\ due \in [Paths -> Data]
    BY <1>1 DEF OverlayTypeOK
  <2>2. CASE f = s
    <3>1. root'[f] = d /\ due'[f] = d
      BY <1>3, <2>1, <2>2
    <3> QED
      BY <3>1 DEF Right
  <2>3. CASE f # s
    <3>1. root'[f] = root[f] /\ due'[f] = due[f]
      BY <1>3, <2>1, <2>3
    <3> QED
      BY <1>1, <1>3, <3>1 DEF RootStands
  <2> QED
    BY <2>2, <2>3
<1> QED
  BY <1>7, <1>8, <1>9, <1>10 DEF OverlayInv

LEMMA CopyOutputInv ==
    ASSUME OverlayInv, NEW output \in Outputs, CopyOutput(output)
    PROVE  OverlayInv'
<1>1. OverlayTypeOK /\ CachesStand /\ JobStands /\ RootStands
  BY DEF OverlayInv
<1>2. PICK o \in Owners : job.of = o /\ ~OverlayIdle
  BY <1>1 DEF CopyOutput, OverlayIdle, JobStands
<1> DEFINE d == job.outs[output]
           e == Anew(o)[output]
<1>3. /\ UNCHANGED <<assets, version, converts, claims>>
      /\ job.step = "copying" /\ output \in job.puts
      /\ job' = [job EXCEPT !.puts = @ \ {output}]
      /\ root' = [root EXCEPT ![output] = d] /\ due' = [due EXCEPT ![output] = e]
  BY <1>2 DEF CopyOutput
<1>4. d \in Data /\ e \in Data
  BY <1>1, AnewType, ResultFacts DEF OverlayTypeOK, Data
<1>5. Right(claims, output, d, e)
  BY <1>1, <1>2, <1>3 DEF JobStands
<1> HIDE DEF d, e
<1>6. /\ job'.of = job.of /\ job'.outs = job.outs /\ job'.raws = job.raws
      /\ job'.puts \subseteq job.puts /\ job'.step = "copying"
  BY <1>1, <1>3 DEF OverlayTypeOK
<1>7. OverlayTypeOK'
  BY <1>1, <1>3, <1>4 DEF OverlayTypeOK
<1>8. CachesStand'
  BY <1>1, <1>3 DEF CachesStand
<1>9. JobStands'
  BY <1>1, <1>2, <1>3, <1>6, JobGoesOnStands
<1>10. RootStands'
  <2> SUFFICES ASSUME NEW f \in Paths
      PROVE  Right(claims', f, root'[f], due'[f])
    BY DEF RootStands
  <2>1. root \in [Paths -> Data] /\ due \in [Paths -> Data]
    BY <1>1 DEF OverlayTypeOK
  <2>2. CASE f = output
    <3>1. root'[f] = d /\ due'[f] = e
      BY <1>3, <2>1, <2>2
    <3> QED
      BY <1>3, <1>5, <2>2, <3>1
  <2>3. CASE f # output
    <3>1. root'[f] = root[f] /\ due'[f] = due[f]
      BY <1>3, <2>1, <2>3
    <3> QED
      BY <1>1, <1>3, <3>1 DEF RootStands
  <2> QED
    BY <2>2, <2>3
<1> QED
  BY <1>7, <1>8, <1>9, <1>10 DEF OverlayInv

LEMMA EditInv ==
    ASSUME OverlayInv, NEW o \in Owners, NEW s \in Sources,
           NEW c \in Contents \cup {Nothing}, Edit(o, s, c)
    PROVE  OverlayInv'
<1>1. OverlayTypeOK /\ CachesStand /\ JobStands /\ RootStands
  BY DEF OverlayInv
<1>2. UNCHANGED <<version, converts, root, job, due, claims>> /\ OverlayIdle
  BY DEF Edit
<1>3. OverlayTypeOK'
  BY <1>1 DEF Edit, OverlayTypeOK
<1>4. CachesStand'
  BY <1>1, <1>2 DEF CachesStand
<1>5. JobStands'
  BY <1>1, <1>2, IdleJobStands
<1>6. RootStands'
  BY <1>1, <1>2 DEF RootStands
<1> QED
  BY <1>3, <1>4, <1>5, <1>6 DEF OverlayInv

LEMMA UpgradeInv ==
    ASSUME OverlayInv, NEW w \in Converters, Upgrade(w)
    PROVE  OverlayInv'
<1>1. OverlayTypeOK /\ CachesStand /\ JobStands /\ RootStands
  BY DEF OverlayInv
<1>2. UNCHANGED <<assets, converts, root, job, due, claims>> /\ OverlayIdle
  BY DEF Upgrade
<1>3. version[w] + 1 \in Versions
  BY <1>1 DEF Upgrade, OverlayTypeOK, Versions
<1>4. OverlayTypeOK'
  BY <1>1, <1>2, <1>3 DEF Upgrade, OverlayTypeOK
<1>5. /\ version \in [Converters -> Nat] /\ version' \in [Converters -> Nat]
      /\ \A x \in Converters : version[x] <= version'[x]
  BY <1>1, <1>4 DEF OverlayTypeOK, Versions, Upgrade
<1>6. CachesStand'
  <2>1. \A o \in Owners : CacheStands(version, o, converts[o].cache, claims)
    BY <1>1 DEF CachesStand
  <2>2. \A o \in Owners : CacheStands(version', o, converts[o].cache, claims)
    BY <1>5, <2>1, CacheAges
  <2> QED
    BY <1>2, <2>2 DEF CachesStand
<1>7. JobStands'
  BY <1>1, <1>2, IdleJobStands
<1>8. RootStands'
  BY <1>1, <1>2 DEF RootStands
<1> QED
  BY <1>4, <1>6, <1>7, <1>8 DEF OverlayInv

LEMMA NextOverlayInv == OverlayInv /\ [OverlayNext]_overlayVars => OverlayInv'
<1> SUFFICES ASSUME OverlayInv, [OverlayNext]_overlayVars PROVE OverlayInv'
  OBVIOUS
<1>1. OverlayTypeOK /\ CachesStand /\ RootStands
  BY DEF OverlayInv
<1>2. CASE \E o \in Owners : Prepare(o)
  BY <1>2, PrepareInv
<1>3. CASE JobGoesOn
  BY <1>3, SaveCacheInv, CopyAssetInv, CopyOutputInv DEF JobGoesOn
<1>4. CASE CopyDone \/ JobFails \/ OverlayCrash
  <2>1. BeingWritten \subseteq Paths
    BY <1>1 DEF BeingWritten, Paths, OverlayTypeOK
  <2>2. job' = NoJob /\ UNCHANGED <<assets, version, converts, claims>>
    BY <1>4 DEF CopyDone, JobFails, OverlayCrash, CutShort
  <2>3. \/ UNCHANGED <<root, due>>
        \/ \E f \in Paths : /\ root' = [root EXCEPT ![f] = Torn]
                            /\ due' = [due EXCEPT ![f] = Torn]
    BY <1>4, <2>1 DEF CopyDone, JobFails, OverlayCrash, CutShort
  <2> QED
    BY <1>1, <2>2, <2>3, NoJobStands
<1>5. CASE UserChanges
  BY <1>5, EditInv, UpgradeInv DEF UserChanges
<1>6. CASE UNCHANGED overlayVars
  <2>1. UNCHANGED <<assets, version, converts, root, job, due, claims>>
    BY <1>6 DEF overlayVars
  <2>2. OverlayTypeOK' /\ CachesStand' /\ RootStands'
    BY <1>1, <2>1 DEF OverlayTypeOK, CachesStand, RootStands
  <2>3. JobStands'
    <3>1. CASE OverlayIdle
      BY <2>1, <3>1, IdleJobStands DEF OverlayInv
    <3>2. CASE ~OverlayIdle
      <4>1. JobStands
        BY DEF OverlayInv
      <4>2. ~OverlayIdle' /\ job'.puts \subseteq Written(job'.outs) /\ job'.of \in Owners
        BY <2>1, <3>2, <4>1 DEF JobStands, OverlayIdle
      <4> SUFFICES ASSUME NEW o \in Owners, job'.of = o
          PROVE  /\ job'.raws \subseteq Present(o)'
                 /\ SameNames(claims', job'.outs, Anew(o)')
                 /\ \A f \in Written(job'.outs) : Right(claims', f, job'.outs[f], Anew(o)'[f])
                 /\ job'.step = "saving" => CacheStands(version', o, job'.cache, claims')
        BY <4>2 DEF JobStands
      <4>3. Anew(o)' = Anew(o) /\ Present(o)' = Present(o)
        BY <2>1, SameAnew
      <4> QED
        BY <2>1, <3>2, <4>1, <4>3 DEF JobStands
    <3> QED
      BY <3>1, <3>2
  <2> QED
    BY <2>2, <2>3 DEF OverlayInv
<1>7. CASE \E o \in Owners : PrepareFails(o)
  BY <1>6, <1>7 DEF PrepareFails
<1> QED
  BY <1>2, <1>3, <1>4, <1>5, <1>6, <1>7 DEF OverlayNext

LEMMA InvIsTransparent == OverlayInv => CacheTransparent
<1> SUFFICES ASSUME OverlayInv PROVE CacheTransparent
  OBVIOUS
<1>1. JobStands /\ RootStands
  BY DEF OverlayInv
<1>2. ~OverlayIdle => SameNames(claims, job.outs, Anew(job.of))
  BY <1>1 DEF JobStands
<1>3. \A f \in Paths : \/ root[f] = due[f]
                       \/ f \in Outputs /\ (Shared(claims, f) \/ Renamed(claims, f))
                       \/ Older(root[f], due[f])
  BY <1>1 DEF RootStands, Right
<1> QED
  BY <1>2, <1>3 DEF CacheTransparent, SameNames

\* The invariant of the registration of assets.
THEOREM OverlayInvariant ==
    ASSUME NEW CONSTANT initial \in [Owners -> [Sources -> Contents \cup {Nothing}]]
    PROVE  OverlaySpec(initial) => []OverlayInv
<1>1. OverlayInit(initial) => OverlayInv
  BY OverlayInitInv
<1> QED
  BY <1>1, NextOverlayInv, PTL DEF OverlaySpec

\* Whatever is edited, replaced, fails or is cut short: the cache is not seen in
\* what the game is given, but for names that were shared or replaced, and for
\* the older version of a converter.
THEOREM OverlayTransparent ==
    ASSUME NEW CONSTANT initial \in [Owners -> [Sources -> Contents \cup {Nothing}]]
    PROVE  OverlaySpec(initial) => []CacheTransparent
  BY OverlayInvariant, InvIsTransparent, PTL

\* What has been copied so far is there: assets first, results over them.
CopiesStand ==
    ~OverlayIdle =>
        /\ \A f \in Written(job.outs) \ job.puts : job.raws = {} /\ root[f] = job.outs[f]
        /\ \A s \in Present(job.of) \ Written(job.outs) :
               s \notin job.raws => root[s] = Raw(assets[job.of][s])

LEMMA CopyAssetStands ==
    ASSUME OverlayInv, CopiesStand, NEW s \in Sources, CopyAsset(s)
    PROVE  CopiesStand'
<1>1. OverlayTypeOK /\ JobStands /\ ~OverlayIdle
  BY DEF OverlayInv, CopyAsset, OverlayIdle
<1>2. /\ s \in job.raws /\ UNCHANGED <<assets, version>>
      /\ root' = [root EXCEPT ![s] = Raw(assets[job.of][s])]
      /\ job'.of = job.of /\ job'.outs = job.outs /\ job'.puts = job.puts
      /\ job'.raws = job.raws \ {s}
  BY <1>1 DEF CopyAsset, OverlayTypeOK
<1>3. root \in [Paths -> Data] /\ s \in Paths
  BY <1>1 DEF OverlayTypeOK, Paths
<1>4. \A f \in Written(job.outs) : f \in job.puts
  BY <1>1, <1>2 DEF CopiesStand
<1>5. Present(job.of)' = Present(job.of)
  BY <1>2 DEF Present
<1>6. ASSUME NEW x \in Present(job.of) \ Written(job.outs), x \notin job'.raws
      PROVE  root'[x] = Raw(assets[job.of][x])
  <2>1. x \in Paths
    BY DEF Present, Paths
  <2>2. CASE x = s
    BY <1>2, <1>3, <2>2
  <2>3. CASE x # s
    <3>1. x \notin job.raws
      BY <1>2, <1>6, <2>3
    <3>2. root[x] = Raw(assets[job.of][x])
      BY <1>1, <1>6, <3>1 DEF CopiesStand
    <3> QED
      BY <1>2, <1>3, <2>1, <2>3, <3>2
  <2> QED
    BY <2>2, <2>3
<1>7. Written(job'.outs) = Written(job.outs)
  BY <1>2
<1> QED
  BY <1>2, <1>4, <1>5, <1>6, <1>7 DEF CopiesStand, Raw

LEMMA CopyOutputStands ==
    ASSUME OverlayInv, CopiesStand, NEW output \in Outputs, CopyOutput(output)
    PROVE  CopiesStand'
<1>1. OverlayTypeOK /\ JobStands /\ ~OverlayIdle
  BY DEF OverlayInv, CopyOutput, OverlayIdle
<1>2. /\ output \in job.puts /\ job.raws = {} /\ UNCHANGED <<assets, version>>
      /\ root' = [root EXCEPT ![output] = job.outs[output]]
      /\ job'.of = job.of /\ job'.outs = job.outs /\ job'.raws = {}
      /\ job'.puts = job.puts \ {output}
  BY <1>1 DEF CopyOutput, OverlayTypeOK
<1>3. root \in [Paths -> Data] /\ output \in Written(job.outs)
  BY <1>1, <1>2 DEF OverlayTypeOK, JobStands
<1>5. Present(job.of)' = Present(job.of)
  BY <1>2 DEF Present
<1>6. ASSUME NEW x \in Present(job.of) \ Written(job.outs)
      PROVE  root'[x] = Raw(assets[job.of][x])
  <2>1. x \in Paths /\ x # output
    BY <1>3 DEF Present, Paths
  <2>2. root[x] = Raw(assets[job.of][x])
    BY <1>1, <1>2, <1>6 DEF CopiesStand
  <2> QED
    BY <1>2, <1>3, <2>1, <2>2
<1>7. ASSUME NEW f \in Written(job.outs) \ job'.puts
      PROVE  root'[f] = job.outs[f]
  <2>1. f \in Paths
    BY DEF Written, Paths
  <2>2. CASE f = output
    BY <1>2, <1>3, <2>1, <2>2
  <2>3. CASE f # output
    <3>1. root[f] = job.outs[f]
      BY <1>1, <1>2, <1>7, <2>3 DEF CopiesStand
    <3> QED
      BY <1>2, <1>3, <2>1, <2>3, <3>1
  <2> QED
    BY <2>2, <2>3
<1>8. Written(job'.outs) = Written(job.outs)
  BY <1>2
<1> QED
  BY <1>2, <1>5, <1>6, <1>7, <1>8 DEF CopiesStand, Raw

LEMMA NextCopiesStand == OverlayInv /\ CopiesStand /\ [OverlayNext]_overlayVars => CopiesStand'
<1> SUFFICES ASSUME OverlayInv, CopiesStand, [OverlayNext]_overlayVars PROVE CopiesStand'
  OBVIOUS
<1>1. OverlayTypeOK
  BY DEF OverlayInv
<1>2. CASE \E o \in Owners : Prepare(o)
  <2>1. PICK o \in Owners : Prepare(o)
    BY <1>2
  <2>2. /\ job'.of = o /\ job'.raws = Present(o) /\ job'.puts = Written(job'.outs)
        /\ UNCHANGED assets
    <3> DEFINE result == Prepared(o)
    <3>1. UNCHANGED assets
          /\ \/ job' = [Copying(o, result) EXCEPT !.step = "saving", !.cache = result.cache]
             \/ job' = Copying(o, result)
      BY <2>1 DEF Prepare
    <3> HIDE DEF result
    <3> DEFINE saving == [of |-> o, step |-> "saving", cache |-> result.cache,
                          outs |-> result.outs, raws |-> Present(o),
                          puts |-> Written(result.outs)]
               copying == [of |-> o, step |-> "copying", cache |-> NoCache,
                           outs |-> result.outs, raws |-> Present(o),
                           puts |-> Written(result.outs)]
    <3>2. job' = saving \/ job' = copying
      BY <3>1 DEF Copying
    <3>3. CASE job' = saving
      BY <3>1, <3>3
    <3>4. CASE job' = copying
      BY <3>1, <3>4
    <3> QED
      BY <3>2, <3>3, <3>4
  <2>3. Present(job.of)' = Present(o)
    BY <2>2 DEF Present
  <2> QED
    BY <2>2, <2>3 DEF CopiesStand
<1>3. CASE SaveCache
  <2>1. /\ job'.of = job.of /\ job'.outs = job.outs /\ job'.raws = job.raws
        /\ job'.puts = job.puts /\ UNCHANGED <<assets, root>> /\ ~OverlayIdle
    BY <1>1, <1>3 DEF SaveCache, OverlayTypeOK, OverlayIdle
  <2>2. Present(job.of)' = Present(job.of)
    BY <2>1 DEF Present
  <2> QED
    BY <2>1, <2>2 DEF CopiesStand, Written, Raw
<1>4. CASE CopyDone \/ JobFails \/ OverlayCrash
  <2>1. job' = NoJob
    BY <1>4 DEF CopyDone, JobFails, OverlayCrash, CutShort
  <2> QED
    BY <2>1 DEF CopiesStand, OverlayIdle, NoJob
<1>5. CASE UserChanges
  <2>1. UNCHANGED job /\ OverlayIdle
    BY <1>5 DEF UserChanges, Edit, Upgrade
  <2> QED
    BY <2>1 DEF CopiesStand, OverlayIdle
<1>6. CASE UNCHANGED overlayVars
  <2>1. UNCHANGED <<assets, job, root>>
    BY <1>6 DEF overlayVars
  <2>2. Present(job.of)' = Present(job.of) /\ OverlayIdle' = OverlayIdle
    BY <2>1 DEF Present, OverlayIdle
  <2> QED
    BY <2>1, <2>2 DEF CopiesStand, Written, Raw
<1>7. CASE \E o \in Owners : PrepareFails(o)
  BY <1>6, <1>7 DEF PrepareFails
<1> QED
  BY <1>2, <1>3, <1>4, <1>5, <1>6, <1>7, CopyAssetStands, CopyOutputStands
  DEF OverlayNext, JobGoesOn

\* A registration that ends leaves no copy torn or old.
THEOREM OverlayWhole ==
    ASSUME NEW CONSTANT initial \in [Owners -> [Sources -> Contents \cup {Nothing}]]
    PROVE  OverlaySpec(initial) => []CopiesWhole
<1>1. OverlayInit(initial) => CopiesStand
  BY DEF OverlayInit, CopiesStand, OverlayIdle, NoJob
<1>2. CopiesStand => CopiesWhole
  BY DEF CopiesStand, CopiesWhole, OverlayIdle
<1> QED
  BY <1>1, <1>2, NextCopiesStand, OverlayInvariant, PTL DEF OverlaySpec

HIDE OverlayAssumption

-----------------------------------------------------------------------------
(* The runtime (AddonRuntime).                                             *)

LEMMA DispatchStep == [Next]_vars => [DispatchNext]_dispatchVars
<1> SUFFICES ASSUME [Next]_vars PROVE [DispatchNext]_dispatchVars
  OBVIOUS
<1>1. CASE Moves
  BY <1>1 DEF Moves, DispatchNext
<1>2. CASE FileCall \/ FileCallGoesOn \/ StartCopies \/ ReloadCopies \/ CopiesGoOn
             \/ UserSaves \/ UNCHANGED vars
  BY <1>2 DEF FileCall, FileCallGoesOn, StartCopies, ReloadCopies, CopiesGoOn,
     UserSaves, vars
<1>3. CASE NoAssets \/ CopiesEnd \/ CopiesFail \/ Crash
  BY <1>3 DEF NoAssets, CopiesEnd, CopiesFail, Crash, DispatchNext
<1> QED
  BY <1>1, <1>2, <1>3 DEF Next

\* The runtime implements the machine of callbacks and dispatches.
THEOREM DispatchImplemented == Spec => DispatchSpec
<1>1. Init => DispatchInit
  BY DEF Init
<1> QED
  BY <1>1, DispatchStep, PTL DEF Spec, DispatchSpec

LEMMA RuntimeDispatchInv == Spec => []DispatchInv
  BY DispatchImplemented, DispatchInvariant, PTL

\* Files are called through what some addon registered.
LEMMA VfsStep == DispatchInv /\ [Next]_vars => [VfsNext]_vfsVars
<1> SUFFICES ASSUME DispatchInv, [Next]_vars PROVE [VfsNext]_vfsVars
  OBVIOUS
<1>1. CASE FileCall
  <2>1. Len(regs) \in Nat /\ Len(regs) <= MaxRegistrations
    BY DEF DispatchInv, DispatchTypeOK, Registered
  <2>2. 1..Len(regs) \subseteq Closures
    BY <2>1, RuntimeAssumption, DispatchAssumption
  <2> QED
    BY <1>1, <2>2 DEF FileCall, VfsNext
<1>2. CASE FileCallGoesOn \/ Crash
  BY <1>2 DEF FileCallGoesOn, Crash, VfsNext
<1>3. CASE Moves \/ NoAssets \/ StartCopies \/ ReloadCopies \/ CopiesGoOn \/ CopiesEnd
             \/ CopiesFail \/ UserSaves \/ UNCHANGED vars
  BY <1>3 DEF Moves, NoAssets, StartCopies, ReloadCopies, CopiesGoOn, CopiesEnd,
     CopiesFail, UserSaves, vars
<1> QED
  BY <1>1, <1>2, <1>3 DEF Next

\* What the scripts of the runtime do to the files is what LocalVfs has.
THEOREM VfsImplemented == Spec => VfsSpec
<1>1. Init => VfsInit
  BY DEF Init
<1> QED
  BY <1>1, VfsStep, RuntimeDispatchInv, PTL DEF Spec, VfsSpec

\* Assets are registered at the start and when one is saved.
LEMMA OverlayStep == [Next]_vars => [OverlayNext]_overlayVars
<1> SUFFICES ASSUME [Next]_vars PROVE [OverlayNext]_overlayVars
  OBVIOUS
<1>1. CASE Moves \/ FileCall \/ FileCallGoesOn \/ NoAssets \/ UNCHANGED vars
  BY <1>1 DEF Moves, FileCall, FileCallGoesOn, NoAssets, vars
<1>2. CASE StartCopies
  BY <1>2 DEF StartCopies, OverlayNext
<1>3. CASE ReloadCopies
  BY <1>3 DEF ReloadCopies, OverlayNext
<1>4. CASE CopiesGoOn \/ CopiesEnd \/ UserSaves \/ Crash
  BY <1>4 DEF CopiesGoOn, CopiesEnd, UserSaves, Crash, OverlayNext
<1>5. CASE CopiesFail
  BY <1>5 DEF CopiesFail, OverlayNext
<1> QED
  BY <1>1, <1>2, <1>3, <1>4, <1>5 DEF Next

\* What the runtime does with assets and copies is what AssetOverlay has.
THEOREM OverlayImplemented == Spec => OverlaySpec(InitialAssets)
<1>1. Init => OverlayInit(InitialAssets)
  BY DEF Init
<1> QED
  BY <1>1, OverlayStep, PTL DEF Spec, OverlaySpec

-----------------------------------------------------------------------------

\* The log context of the runtime names the addon whose code runs, or nobody
\* once a dispatch of that code has called a handler.
THEOREM RuntimeContextCorrect == Spec => []ContextNamesRunner
  BY DispatchImplemented, ContextCorrect, PTL

\* Nobody is unloaded but on request of its own code.
THEOREM RuntimeUnloadsCorrect == Spec => []UnloadsOwn
  BY DispatchImplemented, UnloadsCorrect, PTL

\* What scripts were told is written stays written, whatever fails, crashes or
\* is started again, and is what they read.
THEOREM RuntimeFilesKept == Spec => []FilesKept
<1>1. AcknowledgedKept /\ ReadsAreStored => FilesKept
  BY DEF FilesKept
<1> QED
  BY <1>1, VfsImplemented, ArchiveKept, ReadsCorrect, PTL

\* In the runtime as well the cache is not seen in what the game is given, but
\* for shared names and what is left of a replaced converter.
THEOREM RuntimeTransparent == Spec => []CacheTransparent
<1>1. OverlaySpec(InitialAssets) => []CacheTransparent
  BY RuntimeAssumption, OverlayTransparent
<1> QED
  BY <1>1, OverlayImplemented, PTL

\* And in the runtime a registration that ends leaves no copy torn or old.
THEOREM RuntimeWhole == Spec => []CopiesWhole
<1>1. OverlaySpec(InitialAssets) => []CopiesWhole
  BY RuntimeAssumption, OverlayWhole
<1> QED
  BY <1>1, OverlayImplemented, PTL

LEMMA CountsKept ==
    ASSUME requests \in 0..MaxRequests, crashes \in 0..MaxCrashes, [Next]_vars
    PROVE  requests' \in 0..MaxRequests /\ crashes' \in 0..MaxCrashes
<1> USE RuntimeAssumption
<1>1. CASE UNCHANGED <<requests, crashes>>
  BY <1>1
<1>2. CASE Counted
  BY <1>2 DEF Counted
<1>3. CASE Crash
  BY <1>3 DEF Crash
<1>4. Free \/ Counted \/ Crash \/ UNCHANGED <<requests, crashes>>
  BY DEF Next, vars, Moves, FileCall, FileCallGoesOn, NoAssets, StartCopies, ReloadCopies,
     CopiesGoOn, CopiesEnd, CopiesFail, UserSaves
<1> QED
  BY <1>1, <1>2, <1>3, <1>4 DEF Free

\* The types of scripts, files, assets and copies, and of the counts.
THEOREM RuntimeTypeCorrect == Spec => []RuntimeTypeOK
<1> DEFINE Counts == requests \in 0..MaxRequests /\ crashes \in 0..MaxCrashes
<1>1. Spec => []Counts
  <2>1. Init => Counts
    BY RuntimeAssumption DEF Init
  <2>2. Counts /\ [Next]_vars => Counts'
    BY CountsKept
  <2> QED
    BY <2>1, <2>2, PTL DEF Spec
<1>2. OverlaySpec(InitialAssets) => []OverlayInv
  BY RuntimeAssumption, OverlayInvariant
<1>3. DispatchInv /\ VfsInv /\ OverlayInv /\ Counts => RuntimeTypeOK
  BY DEF DispatchInv, VfsInv, OverlayInv, RuntimeTypeOK
<1> QED
  BY <1>1, <1>2, <1>3, RuntimeDispatchInv, VfsImplemented, VfsInvariant, OverlayImplemented, PTL

\* A write begins in a call of a script only.
LEMMA WritesAreCalls ==
    ASSUME [Next]_vars, writing.by = 0, writing'.by # 0
    PROVE  /\ InCallback
           /\ \E r \in 1..Len(regs) : writing'.by = r /\ (r = Len(regs) \/ regs[r] = Head(stack).of)
<1>1. CASE FileCall
  BY <1>1 DEF FileCall, Reaches, VfsCall, Read, BeginOpen, BeginWrite, CreateFails
<1>2. CASE FileCallGoesOn
  BY <1>2 DEF FileCallGoesOn, VfsGoesOn, Persisted, PersistFails, VfsIdle
<1>3. CASE Crash
  BY <1>3 DEF Crash, VfsCrash, NotWriting
<1>4. CASE Moves \/ NoAssets \/ StartCopies \/ ReloadCopies \/ CopiesGoOn \/ CopiesEnd
             \/ CopiesFail \/ UserSaves \/ UNCHANGED vars
  BY <1>4 DEF Moves, NoAssets, StartCopies, ReloadCopies, CopiesGoOn, CopiesEnd,
     CopiesFail, UserSaves, vars, vfsVars
<1> QED
  BY <1>1, <1>2, <1>3, <1>4 DEF Next

\* While an addon is loaded or reloaded, its code writes its own files, and a
\* handler it dispatches to writes its own or those of the addon being loaded
\* (register_engine_fs_local).
THEOREM RuntimeWritesStayHome == Spec => WritesStayHome
<1> DEFINE Home ==
      writing.by = 0 /\ writing'.by # 0 =>
        LET target == regs[writing'.by] IN
        /\ task.step \in Loading => target \in {Current, Head(stack).of}
        /\ Len(stack) = 1 /\ task.step \in Loading => target = Head(stack).of
<1>1. ASSUME DispatchInv, [Next]_vars
      PROVE  Home
  <2> SUFFICES ASSUME writing.by = 0, writing'.by # 0, task.step \in Loading
               PROVE  /\ regs[writing'.by] \in {Current, Head(stack).of}
                      /\ Len(stack) = 1 => regs[writing'.by] = Head(stack).of
    OBVIOUS
  <2>1. PICK r \in 1..Len(regs) :
           writing'.by = r /\ (r = Len(regs) \/ regs[r] = Head(stack).of)
    BY <1>1, WritesAreCalls
  <2>2. regs[Len(regs)] = Current
    BY <1>1 DEF DispatchInv, Registered
  <2>3. Len(stack) = 1 => Head(stack).of = Current
    <3>1. stack # <<>> /\ Head(stack) = stack[1]
      BY <1>1, WritesAreCalls, PopFacts DEF InCallback, DispatchInv, DispatchTypeOK
    <3> QED
      BY <1>1, <3>1 DEF DispatchInv, Bottom, Loading
  <2> QED
    BY <2>1, <2>2, <2>3
<1>2. DispatchInv /\ [Next]_vars => [Home]_vars
  BY <1>1
<1> HIDE DEF Home
<1>3. Spec => [][Home]_vars
  BY <1>2, RuntimeDispatchInv, PTL DEF Spec
<1> QED
  BY <1>3 DEF WritesStayHome, Home
=============================================================================
