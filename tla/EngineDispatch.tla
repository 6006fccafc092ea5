--------------------------- MODULE EngineDispatch ---------------------------
(***************************************************************************)
(* The scripts of the addons on the runtime thread (loader/core.rs) and    *)
(* what the Engine table means to them (engine_require_dispatch.rs,        *)
(* engine_fs.rs): which callback of which addon runs, the handlers that    *)
(* Engine.dispatch calls from inside of callbacks, the addon that the log  *)
(* context names and Engine.unload unloads, and whose directory            *)
(* Engine.require and Engine.fs.immanent stand for.                        *)
(*                                                                         *)
(* A callback that a script does not define is one that returns at once.   *)
(* Scripts are external: a callback makes any calls and returns or fails.  *)
(***************************************************************************)
EXTENDS Naturals, Sequences, FiniteSets

CONSTANTS
    Order,            \* the load order: addons, none twice
    Events,           \* names of events
    Handles,          \* <<addon, event>>: subscribed to and defined
    Nobody,           \* no addon in the context
    MaxDepth,         \* bound: callbacks and dispatches on the stack
    MaxRegistrations  \* bound: registrations of require and fs in a session

Addons == {Order[i] : i \in 1..Len(Order)}

ASSUME DispatchAssumption ==
    /\ Order \in Seq(Addons) /\ Order # <<>>
    /\ \A i, j \in 1..Len(Order) : Order[i] = Order[j] => i = j
    /\ Nobody \notin Addons
    /\ MaxDepth \in Nat /\ MaxRegistrations \in Nat

VARIABLES
    task,     \* what the runtime thread is at, and for which addon of Order
    stack,    \* callbacks and dispatches under way, the innermost first
    context,  \* the registry value ENGINE_LOG_MOD_ID_KEY
    tables,   \* addons whose table is Engine[id]
    loaded,   \* loaded_mods
    regs,     \* addons that Engine.require and Engine.fs were registered for
    pending,  \* PENDING_UNLOADS
    asked     \* history: addons that called Engine.unload in code of their own

dispatchVars == <<task, stack, context, tables, loaded, regs, pending, asked>>

Loading == {"eval", "init", "re_eval", "load"}
Callbacks == Loading \cup {"post_init", "unload", "quit"}
Steps == Callbacks \cup {"assets", "register", "re_register", "drain",
                         "message", "watch", "ended"}

Task(step, i) == [step |-> step, turn |-> i]
Ended == Task("ended", 0)
Current == Order[task.turn]

\* A frame is a callback of an addon, or a dispatch with handlers left to call,
\* as positions in Order.
\* lost: a dispatch the callback made, or this dispatch, has called a handler.
Callback(a) == [of |-> a, left |-> {}, lost |-> FALSE]
Dispatching(handlers) == [of |-> Nobody, left |-> handlers, lost |-> FALSE]
Frames == [of : Addons \cup {Nobody}, left : SUBSET (1..Len(Order)), lost : BOOLEAN]

InCallback == stack # <<>> /\ Head(stack).of # Nobody
InDispatch == stack # <<>> /\ Head(stack).of = Nobody

DispatchTypeOK ==
    /\ task \in [step : Steps, turn : 0..Len(Order)]
    /\ stack \in Seq(Frames)
    /\ context \in Addons \cup {Nobody}
    /\ tables \subseteq Addons /\ loaded \subseteq Addons
    /\ regs \in Seq(Addons)
    /\ pending \subseteq Addons /\ asked \subseteq Addons

DispatchInit ==
    /\ task = Task("assets", 1)
    /\ stack = <<>>
    /\ context = Nobody
    /\ tables = {} /\ loaded = {}
    /\ regs = <<>>
    /\ pending = {} /\ asked = {}

-----------------------------------------------------------------------------
(* Callbacks of the runtime: load_mod, call_post_init_callbacks,           *)
(* hot_reload_scripts_only, call_quit_callbacks.                           *)

\* Faulty: goes on behind the last addon.
NextToLoad_Past(i) ==
    IF i <= Len(Order) THEN Task("assets", i + 1) ELSE Task("post_init", 1)

NextToLoad(i) ==
    IF i < Len(Order) THEN Task("assets", i + 1) ELSE Task("post_init", 1)

NextToPostInit(i) ==
    IF i < Len(Order) THEN Task("post_init", i + 1) ELSE Task("drain", 0)

\* Callbacks named quit run from the addon loaded last to the first.
NextToQuit(i) ==
    LET left == {j \in 1..i : Order[j] \in loaded}
    IN IF left = {} THEN Ended
       ELSE Task("quit", CHOOSE j \in left : \A k \in left : k <= j)

\* Faulty: what an earlier addon registered is taken to be there.
Register_Once ==
    /\ task.step \in {"register", "re_register"}
    /\ Len(regs) < MaxRegistrations
    /\ regs' = IF regs = <<>> THEN <<Current>> ELSE regs
    /\ task' = Task(IF task.step = "register" THEN "eval" ELSE "re_eval", task.turn)
    /\ UNCHANGED <<stack, context, tables, loaded, pending, asked>>

Register ==
    /\ task.step \in {"register", "re_register"}
    /\ Len(regs) < MaxRegistrations
    /\ regs' = Append(regs, Current)
    /\ task' = Task(IF task.step = "register" THEN "eval" ELSE "re_eval", task.turn)
    /\ UNCHANGED <<stack, context, tables, loaded, pending, asked>>

\* The script, or what it requires, cannot be read or does not compile.
ScriptRefused ==
    /\ stack = <<>>
    /\ \/ task.step = "eval" /\ task' = Ended
       \/ task.step = "re_eval" /\ task' = Task("watch", 0)
    /\ UNCHANGED <<stack, context, tables, loaded, regs, pending, asked>>

Enter ==
    /\ stack = <<>>
    /\ task.step \in Callbacks
    /\ stack' = <<Callback(Current)>>
    /\ context' = Current
    /\ UNCHANGED <<task, tables, loaded, regs, pending, asked>>

AfterCallback(ok) ==
    LET i == task.turn IN
    CASE task.step = "eval" -> IF ok THEN Task("init", i) ELSE Ended
      [] task.step = "init" -> NextToLoad(i)
      [] task.step = "post_init" -> NextToPostInit(i)
      [] task.step = "unload" -> IF ok THEN Task("re_register", i) ELSE Task("watch", 0)
      [] task.step = "re_eval" -> IF ok THEN Task("load", i) ELSE Task("watch", 0)
      [] task.step = "load" -> Task("watch", 0)
      [] task.step = "quit" -> NextToQuit(i - 1)

\* The context is cleared whether the callback fails or not; a failed init,
\* post_init or quit is logged and changes nothing else.
CallbackReturns(ok) ==
    /\ InCallback /\ Len(stack) = 1
    /\ stack' = <<>>
    /\ context' = Nobody
    /\ task' = AfterCallback(ok)
    /\ tables' = IF ok /\ task.step \in {"eval", "re_eval"}
                 THEN tables \cup {Current} ELSE tables
    /\ loaded' = IF task.step = "init" THEN loaded \cup {Current} ELSE loaded
    /\ UNCHANGED <<regs, pending, asked>>

-----------------------------------------------------------------------------
(* The Engine table: dispatch and unload.                                  *)

\* Events go through the whole load order; an addon without a table is passed.
HandlersOf(e) ==
    {i \in 1..Len(Order) : <<Order[i], e>> \in Handles /\ Order[i] \in tables}

Dispatch(e) ==
    /\ InCallback /\ Len(stack) < MaxDepth
    /\ stack' = <<Dispatching(HandlersOf(e))>> \o stack
    /\ UNCHANGED <<task, context, tables, loaded, regs, pending, asked>>

HandlerCalled ==
    /\ InDispatch
    /\ \E i \in Head(stack).left :
          /\ \A j \in Head(stack).left : i <= j
          /\ LET d == [Head(stack) EXCEPT !.left = @ \ {i}, !.lost = TRUE]
             IN stack' = <<Callback(Order[i]), d>> \o Tail(stack)
          /\ context' = Order[i]
    /\ UNCHANGED <<task, tables, loaded, regs, pending, asked>>

\* Faulty: the context is not cleared.
HandlerReturns_Keeps ==
    /\ InCallback /\ Len(stack) > 1
    /\ stack' = Tail(stack)
    /\ UNCHANGED <<task, context, tables, loaded, regs, pending, asked>>

\* A handler that fails is logged; the next one is called all the same.
HandlerReturns ==
    /\ InCallback /\ Len(stack) > 1
    /\ stack' = Tail(stack)
    /\ context' = Nobody
    /\ UNCHANGED <<task, tables, loaded, regs, pending, asked>>

\* Back in the callback that dispatched, whose context nobody restores.
DispatchReturns ==
    /\ InDispatch /\ Len(stack) > 1
    /\ Head(stack).left = {}
    /\ LET caller == stack[2]
       IN stack' = <<[caller EXCEPT !.lost = @ \/ Head(stack).lost]>>
                      \o Tail(Tail(stack))
    /\ UNCHANGED <<task, context, tables, loaded, regs, pending, asked>>

\* Faulty: takes the addon registered last for the one that runs.
Unload_Last ==
    /\ InCallback
    /\ regs # <<>>
    /\ pending' = pending \cup {regs[Len(regs)]}
    /\ asked' = asked \cup {Head(stack).of}
    /\ UNCHANGED <<task, stack, context, tables, loaded, regs>>

\* Engine.unload unloads whom the context names, and is an error without one.
Unload ==
    /\ InCallback
    /\ context # Nobody
    /\ pending' = pending \cup {context}
    /\ asked' = asked \cup {Head(stack).of}
    /\ UNCHANGED <<task, stack, context, tables, loaded, regs>>

-----------------------------------------------------------------------------
(* start_hot_reload_loop.                                                  *)

\* process_pending_unloads, at the start and at the end of a turn.
Drain ==
    /\ task.step = "drain"
    /\ loaded' = loaded \ pending
    /\ tables' = tables \ (pending \cap loaded)
    /\ pending' = {}
    /\ task' = Task("message", 0)
    /\ UNCHANGED <<stack, context, regs, asked>>

NoMessage ==
    /\ task.step = "message" /\ stack = <<>>
    /\ task' = Task("watch", 0)
    /\ UNCHANGED <<stack, context, tables, loaded, regs, pending, asked>>

\* An event of the wrapper or of a hook.
EventMessage(e) ==
    /\ task.step = "message" /\ stack = <<>>
    /\ stack' = <<Dispatching(HandlersOf(e))>>
    /\ UNCHANGED <<task, context, tables, loaded, regs, pending, asked>>

EventServed ==
    /\ task.step = "message" /\ InDispatch
    /\ Len(stack) = 1 /\ Head(stack).left = {}
    /\ stack' = <<>>
    /\ task' = Task("watch", 0)
    /\ UNCHANGED <<context, tables, loaded, regs, pending, asked>>

Shutdown ==
    /\ task.step = "message" /\ stack = <<>>
    /\ task' = NextToQuit(Len(Order))
    /\ UNCHANGED <<stack, context, tables, loaded, regs, pending, asked>>

\* A script of addon i was saved.
Reload(i) ==
    /\ task.step = "watch" /\ Order[i] \in loaded
    /\ task' = Task("unload", i)
    /\ UNCHANGED <<stack, context, tables, loaded, regs, pending, asked>>

TurnEnds ==
    /\ task.step = "watch"
    /\ task' = Task("drain", 0)
    /\ UNCHANGED <<stack, context, tables, loaded, regs, pending, asked>>

-----------------------------------------------------------------------------

AssetsRegistered ==
    /\ task.step = "assets"
    /\ task' = Task("register", task.turn)
    /\ UNCHANGED <<stack, context, tables, loaded, regs, pending, asked>>

\* Both callers of register_mod_assets return its error, which ends the runtime
\* without quit.
AssetsFail ==
    /\ task.step \in {"assets", "watch"}
    /\ task' = Ended
    /\ UNCHANGED <<stack, context, tables, loaded, regs, pending, asked>>

\* The game ends and is started again: nothing of this is kept.
DispatchCrash ==
    /\ task' = Task("assets", 1)
    /\ stack' = <<>>
    /\ context' = Nobody
    /\ tables' = {} /\ loaded' = {}
    /\ regs' = <<>>
    /\ pending' = {} /\ asked' = {}

\* What the runtime and the scripts do of themselves.
RuntimeMoves ==
    \/ Register \/ ScriptRefused \/ Enter
    \/ \E ok \in BOOLEAN : CallbackReturns(ok)
    \/ HandlerCalled \/ HandlerReturns \/ DispatchReturns
    \/ Drain \/ NoMessage \/ EventServed \/ Shutdown \/ TurnEnds

\* What a script, the game or the user asks for.
Requested ==
    \/ \E e \in Events : Dispatch(e) \/ EventMessage(e)
    \/ Unload
    \/ \E i \in 1..Len(Order) : Reload(i)

DispatchNext ==
    AssetsRegistered \/ AssetsFail \/ RuntimeMoves \/ Requested \/ DispatchCrash

DispatchSpec == DispatchInit /\ [][DispatchNext]_dispatchVars

-----------------------------------------------------------------------------
(* Properties.                                                             *)

\* Whenever code of an addon runs, however deep in dispatches, the context
\* names that addon - or nobody, and then exactly because a dispatch it made
\* itself called a handler (engine_require_dispatch.rs:141); outside of all
\* callbacks it names nobody, so no log line or unload goes to the wrong addon.
ContextNamesRunner ==
    /\ InCallback =>
          context = IF Head(stack).lost THEN Nobody ELSE Head(stack).of
    /\ stack = <<>> => context = Nobody

\* "Request unloading of the currently executing mod." (engine-types.luau:111):
\* nobody is unloaded, or waits to be, but addons whose own code asked for it.
UnloadsOwn ==
    /\ pending \subseteq asked
    /\ task.step \in {"drain", "message", "watch"} => Addons \ loaded \subseteq asked
=============================================================================
