----------------------------- MODULE ControlPlane -----------------------------
(***************************************************************************)
(* The threads of the modloader and the channel between them               *)
(* (cccaster/src/loader/core.rs): the host's thread runs init and, at      *)
(* unload, the library's destructor; the runtime thread loads the addons   *)
(* and then serves one control message per turn of its hot-reload loop;    *)
(* callers are the other threads of the process, which register Engine     *)
(* variables, call Engine events, or run into a hook of an addon and wait  *)
(* at most 50 ms for its handlers.                                         *)
(*                                                                         *)
(* What the addons' own code does is left out, except that it may fail or  *)
(* panic and end the runtime.  Every lock is held for one step.            *)
(***************************************************************************)
EXTENDS Integers, Sequences

CONSTANTS
  Caller,     \* threads of the process that are neither host nor runtime
  Request,    \* what they ask for: [kind : Kind, ...]
  Duty,       \* Caller -> SUBSET Request: which of it each one does
  Name,       \* Engine variables
  Unset,      \* the value of a variable nobody registered
  MaxCalls    \* bound: calls each caller makes

Kind == {"variable", "event", "hook"}

ASSUME CallerAssumption ==
  /\ \A r \in Request : r.kind \in Kind
  /\ \A r \in Request : r.kind = "variable" => r.name \in Name /\ r.value # Unset
  /\ Duty \in [Caller -> SUBSET Request]
  /\ MaxCalls \in Nat

VARIABLES
  host,       \* where init, and later the destructor, is
  runtime,    \* where the hot-reload thread is
  ready,      \* the oneshot startup signal
  sender,     \* SHUTDOWN_SIGNAL holds a sender
  receiving,  \* the runtime still owns the receiver
  queue,      \* the control channel
  pending,    \* PENDING_ENGINE_VARIABLES
  external,   \* the Lua table Engine.external
  step,       \* Caller -> where its call is
  doing,      \* Caller -> what it asks for
  call,       \* Caller -> number of the call
  reply,      \* Caller -> what its last call returned
  \* What the properties compare the state with; the code keeps none of it.
  served,     \* the messages the addons were run for
  unseen,     \* variables registered since they were applied, without a
              \* sender to tell
  panicked    \* the runtime thread died of a panic

callerVars == <<pending, step, doing, call, reply>>
vars == <<host, runtime, ready, sender, receiving, queue, pending, external,
          step, doing, call, reply, served, unseen, panicked>>

-----------------------------------------------------------------------------
Shutdown == [kind |-> "shutdown"]
NoRequest == [kind |-> "none"]
MessageOf(c) == [kind |-> doing[c].kind, body |-> doing[c], caller |-> c, call |-> call[c]]

Message ==
  {[kind |-> r.kind, body |-> r, caller |-> c, call |-> n] :
     r \in Request, c \in Caller, n \in 1 .. MaxCalls} \cup {Shutdown}

(* What a call returns: a refusal or a timeout answers no call.            *)
NoReply == [ok |-> FALSE, for |-> 0]

\* Faulty: numbers the reply after the call to come.
Accepted_Next(c) == [ok |-> TRUE, for |-> call[c] + 1]

Accepted(c) == [ok |-> TRUE, for |-> call[c]]

Init ==
  /\ host = "start"
  /\ runtime = "absent"
  /\ ready = "unset"
  /\ sender = FALSE
  /\ receiving = FALSE
  /\ queue = << >>
  /\ pending = [n \in Name |-> Unset]
  /\ external = [n \in Name |-> Unset]
  /\ step = [c \in Caller |-> "idle"]
  /\ doing = [c \in Caller |-> NoRequest]
  /\ call = [c \in Caller |-> 0]
  /\ reply = [c \in Caller |-> NoReply]
  /\ served = << >>
  /\ unseen = {}
  /\ panicked = FALSE

-----------------------------------------------------------------------------
(* The channel.  A send fails once the receiver is dropped, and dropping it *)
(* drops what is still in the queue.                                        *)

\* Faulty: the newest message is served first.
Enqueue_Front(m) == queue' = IF receiving THEN <<m>> \o queue ELSE queue

Enqueue(m) == queue' = IF receiving THEN Append(queue, m) ELSE queue

DropReceiver == receiving' = FALSE /\ queue' = << >>

-----------------------------------------------------------------------------
(* The host's thread: load_mods_from_addons, then shutdown_before_unload.   *)

(* Preparing the archives or creating the thread fails.                     *)
SpawnFails ==
  /\ host = "start" /\ host' = "up"
  /\ UNCHANGED <<runtime, ready, sender, receiving, queue, external, served, unseen, panicked>>
  /\ UNCHANGED callerVars

Spawn ==
  /\ host = "start" /\ host' = "spawned"
  /\ runtime' = "starting" /\ receiving' = TRUE
  /\ UNCHANGED <<ready, sender, queue, external, served, unseen, panicked>>
  /\ UNCHANGED callerVars

StoreSender ==
  /\ host = "spawned" /\ host' = "awaiting"
  /\ sender' = TRUE
  /\ UNCHANGED <<runtime, ready, receiving, queue, external, served, unseen, panicked>>
  /\ UNCHANGED callerVars

(* init returns; a startup that failed is only logged.                      *)
InitReturns ==
  /\ host = "awaiting" /\ ready # "unset"
  /\ host' = "up"
  /\ UNCHANGED <<runtime, ready, sender, receiving, queue, external, served, unseen, panicked>>
  /\ UNCHANGED callerVars

(* The destructor takes the sender out of SHUTDOWN_SIGNAL, then sends.      *)
BeginUnload ==
  /\ host = "up"
  /\ host' = IF sender THEN "signalling" ELSE "joining"
  /\ sender' = FALSE
  /\ UNCHANGED <<runtime, ready, receiving, queue, external, served, unseen, panicked>>
  /\ UNCHANGED callerVars

SendShutdown ==
  /\ host = "signalling" /\ host' = "joining"
  /\ Enqueue(Shutdown)
  /\ UNCHANGED <<runtime, ready, sender, receiving, external, served, unseen, panicked>>
  /\ UNCHANGED callerVars

\* Faulty: does not wait for the thread.
Joined_Always == TRUE

(* HOT_RELOAD_THREAD holds no thread, or the thread has returned.           *)
Joined == runtime \in {"absent", "gone"}

Unload ==
  /\ host = "joining" /\ Joined
  /\ host' = "down"
  /\ UNCHANGED <<runtime, ready, sender, receiving, queue, external, served, unseen, panicked>>
  /\ UNCHANGED callerVars

-----------------------------------------------------------------------------
(* The runtime thread.                                                      *)

(* A dry run, or no addons directory.                                       *)
NothingToServe ==
  /\ runtime = "starting" /\ runtime' = "ending"
  /\ ready' = "ok"
  /\ DropReceiver
  /\ UNCHANGED <<host, sender, external, served, unseen, panicked>>
  /\ UNCHANGED callerVars

ApplyVariables ==
  /\ runtime = "starting" /\ runtime' = "loading"
  /\ external' = pending
  /\ unseen' = {}
  /\ UNCHANGED <<host, ready, sender, receiving, queue, served, panicked>>
  /\ UNCHANGED callerVars

(* Every addon is loaded and its post_init has run.                         *)
FinishLoading ==
  /\ runtime = "loading" /\ runtime' = "serving"
  /\ ready' = "ok"
  /\ UNCHANGED <<host, sender, receiving, queue, external, served, unseen, panicked>>
  /\ UNCHANGED callerVars

(* An error leaves the loader or its loop, or a panic unwinds the thread.   *)
Break(panic) ==
  /\ runtime \in {"starting", "loading", "serving"} /\ runtime' = "ending"
  /\ panicked' = panic
  /\ DropReceiver
  /\ UNCHANGED <<host, ready, sender, external, served, unseen>>
  /\ UNCHANGED callerVars

\* Faulty: the loop goes on after Shutdown.
AfterShutdown_Loop == "serving"

AfterShutdown == "quitting"

ServeShutdown ==
  /\ runtime = "serving" /\ queue # << >> /\ Head(queue) = Shutdown
  /\ runtime' = AfterShutdown
  /\ queue' = Tail(queue)
  /\ served' = Append(served, Shutdown)
  /\ UNCHANGED <<host, ready, sender, receiving, external, unseen, panicked>>
  /\ UNCHANGED callerVars

\* Faulty: one turn of the loop discards the rest of the channel.
Remaining_None == << >>

Remaining == Tail(queue)

\* Faulty: only the first registration of a variable counts.
Applied_First(m) ==
  [external EXCEPT ![m.body.name] = IF @ = Unset THEN m.body.value ELSE @]

Applied(m) == [external EXCEPT ![m.body.name] = m.body.value]

(* An error of the variable's table or of an event's handler ends the loop; *)
(* an error of a hook's handler only makes the decision the default one.    *)
Serve(fails) ==
  LET m == Head(queue)
  IN
  /\ runtime = "serving" /\ queue # << >> /\ m.kind \in {"variable", "event"}
  /\ served' = Append(served, m)
  /\ external' = IF m.kind = "variable" /\ ~fails THEN Applied(m) ELSE external
  /\ IF fails THEN runtime' = "ending" /\ DropReceiver
              ELSE queue' = Remaining /\ UNCHANGED <<runtime, receiving>>
  /\ UNCHANGED <<host, ready, sender, unseen, panicked>>
  /\ UNCHANGED callerVars

\* Faulty: one response channel for all calls of a thread.
Awaits_Caller(m) == step[m.caller] = "waiting"

(* The response channel belongs to one call: nobody receives what is sent   *)
(* on it after that call gave up.                                           *)
Awaits(m) == step[m.caller] = "waiting" /\ call[m.caller] = m.call

ServeHook ==
  LET m == Head(queue)
  IN
  /\ runtime = "serving" /\ queue # << >> /\ m.kind = "hook"
  /\ served' = Append(served, m)
  /\ queue' = Remaining
  /\ step' = IF Awaits(m) THEN [step EXCEPT ![m.caller] = "idle"] ELSE step
  /\ reply' = IF Awaits(m) THEN [reply EXCEPT ![m.caller] = [ok |-> TRUE, for |-> m.call]]
                          ELSE reply
  /\ UNCHANGED <<host, runtime, ready, sender, receiving, pending, external, doing, call,
                 unseen, panicked>>

(* The quit callbacks have returned, and with them the loop.                *)
QuitReturns ==
  /\ runtime = "quitting" /\ runtime' = "ending"
  /\ DropReceiver
  /\ UNCHANGED <<host, ready, sender, external, served, unseen, panicked>>
  /\ UNCHANGED callerVars

\* Faulty: an error is not reported to the waiting init.
ReportError_Nothing == ready

(* send_startup_signal does nothing once the signal was sent.               *)
ReportError == IF ready = "unset" THEN "err" ELSE ready

ThreadEnds ==
  /\ runtime = "ending" /\ runtime' = "gone"
  /\ ready' = IF panicked THEN ready ELSE ReportError
  /\ UNCHANGED <<host, sender, receiving, queue, external, served, unseen, panicked>>
  /\ UNCHANGED callerVars

-----------------------------------------------------------------------------
(* The callers: register_engine_variable, dispatch_engine_event and         *)
(* dispatch_hook_event_sync.                                                *)

(* A variable is staged before the sender is looked up.                     *)
Begin(c, r) ==
  /\ step[c] = "idle" /\ call[c] < MaxCalls
  /\ r.kind = "hook" => runtime \in {"loading", "serving", "quitting", "ending"}
  /\ step' = [step EXCEPT ![c] = "asking"]
  /\ doing' = [doing EXCEPT ![c] = r]
  /\ call' = [call EXCEPT ![c] = @ + 1]
  /\ pending' = IF r.kind = "variable" THEN [pending EXCEPT ![r.name] = r.value]
                                       ELSE pending
  /\ UNCHANGED <<host, runtime, ready, sender, receiving, queue, external, reply, served,
                 unseen, panicked>>

Return(c, value) ==
  /\ step' = [step EXCEPT ![c] = "idle"]
  /\ reply' = [reply EXCEPT ![c] = value]

(* Registering a variable succeeds also when nobody can be told of it.      *)
Refusal(c) == IF doing[c].kind = "variable" THEN Accepted(c) ELSE NoReply

FindSender(c) ==
  /\ step[c] = "asking" /\ sender
  /\ step' = [step EXCEPT ![c] = "sending"]
  /\ UNCHANGED <<host, runtime, ready, sender, receiving, queue, pending, external, doing,
                 call, reply, served, unseen, panicked>>

FindNoSender(c) ==
  /\ step[c] = "asking" /\ ~sender
  /\ Return(c, Refusal(c))
  /\ unseen' = unseen \cup {n \in Name : doing[c].kind = "variable" /\ n = doing[c].name}
  /\ UNCHANGED <<host, runtime, ready, sender, receiving, queue, pending, external, doing,
                 call, served, panicked>>

Send(c) ==
  /\ step[c] = "sending"
  /\ Enqueue(MessageOf(c))
  /\ IF ~receiving THEN Return(c, Refusal(c))
     ELSE IF doing[c].kind = "hook"
          THEN step' = [step EXCEPT ![c] = "waiting"] /\ UNCHANGED reply
          ELSE Return(c, Accepted(c))
  /\ UNCHANGED <<host, runtime, ready, sender, receiving, pending, external, doing, call,
                 served, unseen, panicked>>

\* Faulty: nobody is woken once the receiver is gone.
MayGiveUp_WhileReceiving == receiving

(* 50 ms pass, or the response channel was dropped with the receiver.       *)
MayGiveUp == TRUE

GiveUp(c) ==
  /\ step[c] = "waiting" /\ MayGiveUp
  /\ Return(c, NoReply)
  /\ UNCHANGED <<host, runtime, ready, sender, receiving, queue, pending, external, doing,
                 call, served, unseen, panicked>>

-----------------------------------------------------------------------------
Host == Spawn \/ StoreSender \/ InitReturns \/ SendShutdown \/ Unload

Runtime ==
  \/ ApplyVariables \/ FinishLoading \/ ServeShutdown \/ Serve(FALSE) \/ ServeHook
  \/ QuitReturns \/ ThreadEnds

CallGoesOn(c) == FindSender(c) \/ FindNoSender(c) \/ Send(c) \/ GiveUp(c)

Next ==
  \/ Host \/ SpawnFails \/ BeginUnload
  \/ Runtime \/ NothingToServe \/ Serve(TRUE)
  \/ \E panic \in BOOLEAN : Break(panic)
  \/ \E c \in Caller : CallGoesOn(c) \/ \E r \in Duty[c] : Begin(c, r)

(* Threads are scheduled, addon callbacks and loads return, and a wait of   *)
(* 50 ms ends.  Nobody has to call, to fail or to unload.                   *)
Fairness ==
  /\ WF_vars(Host) /\ WF_vars(Runtime)
  /\ \A c \in Caller : WF_vars(CallGoesOn(c))

Spec == Init /\ [][Next]_vars /\ Fairness

-----------------------------------------------------------------------------
TypeOK ==
  /\ host \in {"start", "spawned", "awaiting", "up", "signalling", "joining", "down"}
  /\ runtime \in {"absent", "starting", "loading", "serving", "quitting", "ending", "gone"}
  /\ ready \in {"unset", "ok", "err"}
  /\ sender \in BOOLEAN
  /\ receiving \in BOOLEAN
  /\ queue \in Seq(Message)
  /\ DOMAIN pending = Name /\ DOMAIN external = Name
  /\ step \in [Caller -> {"idle", "asking", "sending", "waiting"}]
  /\ doing \in [Caller -> Request \cup {NoRequest}]
  /\ call \in [Caller -> 0 .. MaxCalls]
  /\ reply \in [Caller -> [ok : BOOLEAN, for : 0 .. MaxCalls]]
  /\ served \in Seq(Message)
  /\ unseen \subseteq Name
  /\ panicked \in BOOLEAN

(* The addons are run for the calls of a thread in the order of the calls,  *)
(* and at most once for each, however sends, timeouts and restarts of the   *)
(* loop's turns interleave (the mpsc channel and the loop that receives one *)
(* message per turn).                                                       *)
ServedInCallOrder ==
  \A k, l \in DOMAIN served :
    /\ k < l
    /\ served[k] # Shutdown /\ served[l] # Shutdown
    /\ served[k].caller = served[l].caller
    => served[k].call < served[l].call

(* An event the caller was told is queued is not lost while the runtime     *)
(* serves: it waits in the channel or its handlers were run                 *)
(* (dispatch_engine_event returning Ok against the loop's try_recv).        *)
AcceptedNotLost ==
  receiving =>
    \A c \in Caller :
      step[c] = "idle" /\ doing[c].kind = "event" /\ reply[c].ok =>
        \/ \E k \in DOMAIN queue : queue[k] = MessageOf(c)
        \/ \E k \in DOMAIN served : served[k] = MessageOf(c)

(* What is accepted is served, once and in turn.                            *)
ServedAsAccepted == ServedInCallOrder /\ AcceptedNotLost

(* The decision a hook acts on was made for this run into it, never for an  *)
(* earlier one that timed out (dispatch_hook_event_sync, one response       *)
(* channel per call).                                                       *)
AnswerIsForThisCall ==
  \A c \in Caller : step[c] = "idle" /\ reply[c].ok => reply[c].for = call[c]

(* Once nothing is on its way, the addons see the value registered last,    *)
(* however the registration met the startup of the runtime; excepted are    *)
(* the registrations that came after the staged values were applied and     *)
(* before there was a sender to tell, and the variables that several        *)
(* threads register, whose values may be sent in another order than staged  *)
(* (register_engine_variable against apply_registered_engine_variables and  *)
(* the storing of SHUTDOWN_SIGNAL).                                         *)
Registers(c, n) == \E r \in Duty[c] : r.kind = "variable" /\ r.name = n

OneRegistrant(n) == \A c, d \in Caller : Registers(c, n) /\ Registers(d, n) => c = d

OnItsWay(n) ==
  \/ \E c \in Caller : /\ step[c] \in {"asking", "sending"}
                        /\ doing[c].kind = "variable" /\ doing[c].name = n
  \/ \E k \in DOMAIN queue : queue[k].kind = "variable" /\ queue[k].body.name = n

VariablesCurrent ==
  runtime = "serving" =>
    \A n \in Name \ unseen :
      OneRegistrant(n) => OnItsWay(n) \/ external[n] = pending[n]

(* The control plane implements the lifecycle: no addon code runs before    *)
(* startup was reported or after quit, startup is reported once, and the    *)
(* destructor returns only when the runtime thread is gone.                 *)
Lifecycle == INSTANCE RuntimeLifecycle WITH
  phase <- CASE runtime = "loading" -> "starting"
             [] runtime = "quitting" -> "ending"
             [] OTHER -> runtime,
  unloaded <- host = "down"

ImplementsLifecycle == Lifecycle!Spec

(* init returns, unless the runtime thread panicked before it reported: the *)
(* host keeps the startup signal itself, so a panic does not close it.      *)
StartupReported == host = "awaiting" ~> host = "up" \/ panicked

(* The destructor returns whatever is queued before Shutdown and however    *)
(* the runtime ends.                                                        *)
UnloadCompletes == host \in {"signalling", "joining"} ~> host = "down"

(* Every call returns: a thread of the game that runs into a hook is not    *)
(* held for ever, whatever becomes of the runtime.                          *)
CallsReturn == \A c \in Caller : step[c] # "idle" ~> step[c] = "idle"

(* Nobody waits for the runtime for ever: the host, the destructor and the  *)
(* threads of the game are all let go.                                      *)
EveryoneReleased == StartupReported /\ UnloadCompletes /\ CallsReturn
=============================================================================
