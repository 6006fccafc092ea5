-------------------------- MODULE ControlPlane_proofs --------------------------
(***************************************************************************)
(* Proofs about ControlPlane, for every set of threads, requests and       *)
(* variables and every bound on calls: calls are served in order and not   *)
(* lost, answers fit their calls, the addons see the variables registered  *)
(* last, and the threads together keep the promises of RuntimeLifecycle.   *)
(*                                                                         *)
(* The first needs that a message in the channel is older than the call    *)
(* its thread is about to send and younger than all that was served; the   *)
(* third that the last message about a variable carries its staged value,  *)
(* also while the runtime has not yet applied what is staged.              *)
(***************************************************************************)
EXTENDS ControlPlane, TLAPS

(* Where the three kinds of threads may be at the same time.               *)
Stages ==
  /\ host = "start" => runtime = "absent" /\ ~sender /\ ready = "unset"
  /\ host = "spawned" => ~sender
  /\ host = "awaiting" => sender
  /\ host \in {"start", "spawned"} =>
       queue = << >> /\ \A c \in Caller : step[c] \notin {"sending", "waiting"}
  /\ runtime = "starting" => host \in {"spawned", "awaiting"} /\ ready = "unset"
  /\ receiving <=> runtime \in {"starting", "loading", "serving", "quitting"}
  /\ ~receiving => queue = << >>

(* A call under way is one of the thread's, and only hooks are waited for. *)
CallingOf(c) ==
  step[c] # "idle" =>
    /\ doing[c] \in Duty[c] /\ call[c] \in 1 .. MaxCalls
    /\ step[c] = "waiting" => doing[c].kind = "hook"

Calling == \A c \in Caller : CallingOf(c)

(* m was sent before n, when one thread sent both.                         *)
Before(m, n) ==
  m # Shutdown /\ n # Shutdown /\ m.caller = n.caller => m.call < n.call

(* m is not of a call still to be sent.                                    *)
IssuedAt(m, steps, calls) ==
  m # Shutdown =>
    /\ m.call <= calls[m.caller]
    /\ steps[m.caller] \in {"asking", "sending"} => m.call < calls[m.caller]

Issued(m) == IssuedAt(m, step, call)

Orders ==
  /\ \A k, l \in DOMAIN served : k < l => Before(served[k], served[l])
  /\ \A k, l \in DOMAIN queue : k < l => Before(queue[k], queue[l])
  /\ \A k \in DOMAIN served, l \in DOMAIN queue : Before(served[k], queue[l])
  /\ \A k \in DOMAIN served : Issued(served[k])
  /\ \A k \in DOMAIN queue : Issued(queue[k])

(* Nobody was told that an event is queued before there was a runtime.     *)
NothingYet ==
  host = "start" =>
    \A c \in Caller : step[c] = "idle" /\ doing[c].kind = "event" => ~reply[c].ok

-----------------------------------------------------------------------------
(* Variables.                                                              *)
About(m, n) == m.kind = "variable" /\ m.body.name = n

InHand(n) ==
  \E c \in Caller : /\ step[c] \in {"asking", "sending"}
                     /\ doing[c].kind = "variable" /\ doing[c].name = n

(* What a thread is about to tell of is staged.                            *)
Staged ==
  \A c \in Caller :
    step[c] \in {"asking", "sending"} /\ doing[c].kind = "variable"
      /\ OneRegistrant(doing[c].name)
    => pending[doing[c].name] = doing[c].value

IsLast(k, n) ==
  /\ k \in DOMAIN queue /\ About(queue[k], n)
  /\ \A l \in DOMAIN queue : l > k => ~About(queue[l], n)

(* The last message about a variable carries what is staged.               *)
LastCurrent ==
  \A n \in Name :
    /\ runtime \in {"starting", "loading", "serving"}
    /\ runtime = "starting" \/ n \notin unseen
    /\ OneRegistrant(n) /\ ~InHand(n)
    => \A k \in DOMAIN queue : IsLast(k, n) => queue[k].body.value = pending[n]

(* With no such message, the addons see what is staged.                    *)
AppliedCurrent ==
  \A n \in Name \ unseen :
    /\ runtime \in {"loading", "serving"} /\ OneRegistrant(n) /\ ~InHand(n)
    /\ \A k \in DOMAIN queue : ~About(queue[k], n)
    => external[n] = pending[n]

ControlInv ==
  /\ TypeOK /\ Stages /\ Calling
  /\ Orders /\ NothingYet /\ AcceptedNotLost /\ AnswerIsForThisCall
  /\ Staged /\ LastCurrent /\ AppliedCurrent

-----------------------------------------------------------------------------
(* Messages and sequences of them.                                         *)

LEMMA MessageFacts ==
  /\ Shutdown \in Message
  /\ \A m \in Message : m.kind # "shutdown" => m # Shutdown
  /\ \A m \in Message : m # Shutdown =>
       /\ m.kind \in Kind /\ m.kind = m.body.kind /\ m.body \in Request
       /\ m.caller \in Caller /\ m.call \in 1 .. MaxCalls
  BY CallerAssumption DEF Message, Shutdown, Kind

LEMMA OwnMessage ==
  ASSUME TypeOK, Calling, NEW c \in Caller, step[c] # "idle"
  PROVE  /\ doing[c] \in Request /\ doing[c].kind \in Kind
         /\ MessageOf(c) \in Message /\ MessageOf(c) # Shutdown
         /\ MessageOf(c).kind = doing[c].kind /\ MessageOf(c).body = doing[c]
         /\ MessageOf(c).caller = c /\ MessageOf(c).call = call[c]
<1>1. doing[c] \in Request /\ call[c] \in 1 .. MaxCalls
  BY CallerAssumption DEF Calling, CallingOf
<1>2. doing[c].kind \in Kind
  BY <1>1, CallerAssumption
<1>3. MessageOf(c) \in Message
  BY <1>1 DEF MessageOf, Message
<1>4. MessageOf(c) # Shutdown
  <2>1. MessageOf(c).kind # Shutdown.kind
    BY <1>2 DEF MessageOf, Shutdown, Kind
  <2> QED
    BY <2>1
<1> QED
  BY <1>1, <1>2, <1>3, <1>4 DEF MessageOf

LEMMA AppendFacts ==
  ASSUME NEW S, NEW s \in Seq(S), NEW x \in S
  PROVE  LET t == Append(s, x) IN
         /\ t \in Seq(S) /\ DOMAIN t = 1 .. (Len(s) + 1) /\ Len(s) \in Nat
         /\ DOMAIN s = 1 .. Len(s)
         /\ \A k \in DOMAIN s : t[k] = s[k]
         /\ t[Len(s) + 1] = x
  OBVIOUS

LEMMA TailFacts ==
  ASSUME NEW S, NEW s \in Seq(S), s # << >>
  PROVE  /\ Len(s) \in Nat \ {0} /\ DOMAIN s = 1 .. Len(s)
         /\ Head(s) = s[1] /\ Head(s) \in S /\ 1 \in DOMAIN s
         /\ Tail(s) \in Seq(S)
         /\ DOMAIN Tail(s) = 1 .. (Len(s) - 1)
         /\ \A k \in DOMAIN Tail(s) : k + 1 \in DOMAIN s /\ Tail(s)[k] = s[k + 1]
  OBVIOUS

LEMMA InitInv == Init => ControlInv
<1> SUFFICES ASSUME Init PROVE ControlInv
  OBVIOUS
<1>1. TypeOK
  <2>1. /\ queue \in Seq(Message) /\ served \in Seq(Message)
        /\ DOMAIN pending = Name /\ DOMAIN external = Name
    BY DEF Init
  <2>2. /\ call \in [Caller -> 0 .. MaxCalls]
        /\ reply \in [Caller -> [ok : BOOLEAN, for : 0 .. MaxCalls]]
    BY CallerAssumption DEF Init, NoReply
  <2> QED
    BY <2>1, <2>2 DEF Init, TypeOK
<1>2. Stages /\ Calling /\ NothingYet
  BY DEF Init, Stages, Calling, CallingOf, NothingYet, NoReply
<1>3. Orders /\ AcceptedNotLost /\ AnswerIsForThisCall
  BY DEF Init, Orders, AcceptedNotLost, AnswerIsForThisCall, NoReply
<1>4. Staged /\ LastCurrent /\ AppliedCurrent
  BY DEF Init, Staged, LastCurrent, AppliedCurrent
<1> QED
  BY <1>1, <1>2, <1>3, <1>4 DEF ControlInv

-----------------------------------------------------------------------------
(* The steps by what they do to the channel and to the callers.            *)

(* They touch neither.                                                     *)
Quiet ==
  \/ SpawnFails \/ Spawn \/ StoreSender \/ InitReturns \/ BeginUnload \/ Unload
  \/ FinishLoading \/ ThreadEnds

(* They drop the receiver.                                                 *)
Drops == NothingToServe \/ QuitReturns \/ \E panic \in BOOLEAN : Break(panic)

LEMMA Steps ==
  [Next]_vars <=>
    \/ Quiet \/ Drops \/ ApplyVariables \/ SendShutdown \/ ServeShutdown
    \/ (\E fails \in BOOLEAN : Serve(fails)) \/ ServeHook
    \/ (\E c \in Caller :
          \/ FindSender(c) \/ FindNoSender(c) \/ Send(c) \/ GiveUp(c)
          \/ \E r \in Duty[c] : Begin(c, r))
    \/ UNCHANGED vars
  BY Zenon DEF Next, Host, Runtime, CallGoesOn, Quiet, Drops

LEMMA QuietKeeps ==
  ASSUME Quiet
  PROVE  UNCHANGED <<queue, pending, external, step, doing, call, reply, served, unseen>>
  BY DEF Quiet, SpawnFails, Spawn, StoreSender, InitReturns, BeginUnload, Unload,
     FinishLoading, ThreadEnds, callerVars

LEMMA DropsKeeps ==
  ASSUME Drops
  PROVE  /\ UNCHANGED <<host, sender, pending, external, step, doing, call, reply, served, unseen>>
         /\ queue' = << >> /\ receiving' = FALSE /\ runtime' = "ending"
  BY DEF Drops, NothingToServe, QuitReturns, Break, DropReceiver, callerVars

-----------------------------------------------------------------------------
(* Types.                                                                  *)

LEMMA MaxCallsType == MaxCalls \in Nat
  BY CallerAssumption

LEMMA ReturnType ==
  ASSUME TypeOK, NEW c \in Caller, NEW v, v = NoReply \/ v = Accepted(c), Return(c, v)
  PROVE  /\ step' \in [Caller -> {"idle", "asking", "sending", "waiting"}]
         /\ reply' \in [Caller -> [ok : BOOLEAN, for : 0 .. MaxCalls]]
<1>1. v \in [ok : BOOLEAN, for : 0 .. MaxCalls]
  <2>1. CASE v = NoReply
    BY <2>1, MaxCallsType DEF NoReply
  <2>2. CASE v = Accepted(c)
    BY <2>2 DEF TypeOK, Accepted
  <2> QED
    BY <2>1, <2>2
<1> QED
  BY <1>1 DEF TypeOK, Return

LEMMA EnqueueType ==
  ASSUME TypeOK, NEW m \in Message, Enqueue(m)
  PROVE  queue' \in Seq(Message)
  BY AppendFacts DEF TypeOK, Enqueue

LEMMA TypeKeeps ==
  ASSUME TypeOK, Calling, [Next]_vars
  PROVE  TypeOK'
<1>1. CASE Quiet
  <2>1. UNCHANGED <<queue, pending, external, step, doing, call, reply, served, unseen>>
    BY <1>1, QuietKeeps
  <2>2. /\ host' \in {"start", "spawned", "awaiting", "up", "signalling", "joining", "down"}
        /\ runtime' \in {"absent", "starting", "loading", "serving", "quitting", "ending", "gone"}
        /\ ready' \in {"unset", "ok", "err"}
        /\ sender' \in BOOLEAN /\ receiving' \in BOOLEAN /\ panicked' \in BOOLEAN
    <3>1. CASE SpawnFails \/ Spawn \/ StoreSender \/ InitReturns
      BY <3>1 DEF TypeOK, SpawnFails, Spawn, StoreSender, InitReturns
    <3>2. CASE BeginUnload \/ Unload
      BY <3>2 DEF TypeOK, BeginUnload, Unload
    <3>3. CASE FinishLoading \/ ThreadEnds
      BY <3>3 DEF TypeOK, FinishLoading, ThreadEnds, ReportError
    <3> QED
      BY <1>1, <3>1, <3>2, <3>3 DEF Quiet
  <2> QED
    BY <2>1, <2>2 DEF TypeOK
<1>2. CASE Drops
  <2>1. ready' \in {"unset", "ok", "err"} /\ panicked' \in BOOLEAN
    BY <1>2 DEF TypeOK, Drops, NothingToServe, QuitReturns, Break
  <2>2. queue' \in Seq(Message)
    BY <1>2, DropsKeeps
  <2> QED
    BY <1>2, <2>1, <2>2, DropsKeeps DEF TypeOK
<1>3. CASE ApplyVariables
  BY <1>3 DEF TypeOK, ApplyVariables, callerVars
<1>4. CASE SendShutdown
  BY <1>4, EnqueueType, MessageFacts DEF TypeOK, SendShutdown, callerVars
<1>5. CASE ServeShutdown
  <2>1. served' \in Seq(Message) /\ queue' \in Seq(Message)
    BY <1>5, MessageFacts, AppendFacts, TailFacts DEF TypeOK, ServeShutdown
  <2> QED
    BY <1>5, <2>1 DEF TypeOK, ServeShutdown, AfterShutdown, callerVars
<1>6. CASE \E fails \in BOOLEAN : Serve(fails)
  <2>1. PICK fails \in BOOLEAN : Serve(fails)
    BY <1>6
  <2>2. served' \in Seq(Message)
    BY <2>1, AppendFacts, TailFacts DEF TypeOK, Serve
  <2>3. queue' \in Seq(Message)
    <3>1. Tail(queue) \in Seq(Message) /\ << >> \in Seq(Message)
      BY <2>1, TailFacts DEF TypeOK, Serve
    <3>2. queue' = Tail(queue) \/ queue' = << >>
      BY <2>1 DEF Serve, DropReceiver, Remaining
    <3> QED
      BY <3>1, <3>2
  <2>4. DOMAIN external' = Name
    BY <2>1 DEF TypeOK, Serve, Applied
  <2> QED
    BY <2>1, <2>2, <2>3, <2>4 DEF TypeOK, Serve, DropReceiver, callerVars
<1>7. CASE ServeHook
  <2> DEFINE m == Head(queue)
  <2>1. m \in Message /\ m # Shutdown
    BY <1>7, TailFacts DEF TypeOK, ServeHook, Shutdown
  <2>2. served' \in Seq(Message) /\ queue' \in Seq(Message)
    BY <1>7, <2>1, AppendFacts, TailFacts DEF TypeOK, ServeHook, Remaining
  <2>3. m.caller \in Caller /\ [ok |-> TRUE, for |-> m.call] \in [ok : BOOLEAN, for : 0 .. MaxCalls]
    BY <2>1, MessageFacts
  <2>4. /\ step' \in [Caller -> {"idle", "asking", "sending", "waiting"}]
        /\ reply' \in [Caller -> [ok : BOOLEAN, for : 0 .. MaxCalls]]
    BY <1>7, <2>3 DEF TypeOK, ServeHook
  <2> QED
    BY <1>7, <2>2, <2>4 DEF TypeOK, ServeHook
<1>8. ASSUME NEW c \in Caller,
             FindSender(c) \/ FindNoSender(c) \/ Send(c) \/ GiveUp(c) \/ \E r \in Duty[c] : Begin(c, r)
      PROVE  TypeOK'
  <2>1. CASE FindSender(c)
    BY <2>1 DEF TypeOK, FindSender
  <2>2. CASE FindNoSender(c)
    <3>1. unseen' \subseteq Name
      BY <2>2 DEF TypeOK, FindNoSender
    <3>2. /\ Return(c, Refusal(c))
          /\ (Refusal(c) = NoReply \/ Refusal(c) = Accepted(c))
      BY <2>2 DEF FindNoSender, Refusal
    <3> QED
      BY <2>2, <3>1, <3>2, ReturnType DEF TypeOK, FindNoSender
  <2>3. CASE Send(c)
    <3>1. queue' \in Seq(Message)
      BY <2>3, OwnMessage, EnqueueType DEF Send
    <3>2. /\ step' \in [Caller -> {"idle", "asking", "sending", "waiting"}]
          /\ reply' \in [Caller -> [ok : BOOLEAN, for : 0 .. MaxCalls]]
      <4>1. CASE Return(c, Refusal(c)) \/ Return(c, Accepted(c))
        BY <4>1, ReturnType DEF Refusal
      <4>2. CASE step' = [step EXCEPT ![c] = "waiting"] /\ UNCHANGED reply
        BY <4>2 DEF TypeOK
      <4> QED
        BY <2>3, <4>1, <4>2 DEF Send
    <3> QED
      BY <2>3, <3>1, <3>2 DEF TypeOK, Send
  <2>4. CASE GiveUp(c)
    BY <2>4, ReturnType DEF TypeOK, GiveUp
  <2>5. ASSUME NEW r \in Duty[c], Begin(c, r)
        PROVE  TypeOK'
    <3>1. r \in Request
      BY CallerAssumption
    <3>2. call[c] + 1 \in 0 .. MaxCalls
      <4>1. call[c] \in 0 .. MaxCalls /\ call[c] < MaxCalls
        BY <2>5 DEF TypeOK, Begin
      <4> QED
        BY <4>1, CallerAssumption
    <3>3. DOMAIN pending' = Name
      BY <2>5 DEF TypeOK, Begin
    <3> QED
      BY <2>5, <3>1, <3>2, <3>3 DEF TypeOK, Begin
  <2> QED
    BY <1>8, <2>1, <2>2, <2>3, <2>4, <2>5
<1>9. CASE UNCHANGED vars
  BY <1>9 DEF TypeOK, vars
<1> QED
  BY <1>1, <1>2, <1>3, <1>4, <1>5, <1>6, <1>7, <1>8, <1>9, Steps

LEMMA StagesKeeps ==
  ASSUME TypeOK, Stages, Calling, [Next]_vars
  PROVE  Stages'
<1>1. CASE Quiet
  <2>1. CASE SpawnFails \/ Spawn \/ StoreSender
    BY <2>1 DEF Stages, SpawnFails, Spawn, StoreSender, callerVars
  <2>2. CASE InitReturns \/ Unload
    BY <2>2 DEF Stages, InitReturns, Unload, Joined, callerVars
  <2>3. CASE FinishLoading \/ ThreadEnds
    BY <2>3 DEF Stages, FinishLoading, ThreadEnds, callerVars
  <2>4. CASE BeginUnload
    <3>1. host = "up" /\ host' \in {"signalling", "joining"}
      BY <2>4 DEF BeginUnload
    <3> QED
      BY <2>4, <3>1 DEF Stages, BeginUnload, callerVars
  <2> QED
    BY <1>1, <2>1, <2>2, <2>3, <2>4 DEF Quiet
<1>2. CASE Drops
  <2>1. host # "start"
    BY <1>2 DEF Stages, Drops, NothingToServe, QuitReturns, Break
  <2> QED
    BY <1>2, <2>1, DropsKeeps DEF Stages
<1>3. CASE ApplyVariables
  BY <1>3 DEF Stages, ApplyVariables, callerVars
<1>4. CASE SendShutdown
  BY <1>4 DEF Stages, SendShutdown, Enqueue, callerVars
<1>5. CASE ServeShutdown
  BY <1>5 DEF Stages, ServeShutdown, AfterShutdown, callerVars
<1>6. CASE \E fails \in BOOLEAN : Serve(fails)
  <2>1. PICK fails \in BOOLEAN : Serve(fails)
    BY <1>6
  <2>2. /\ host \notin {"start", "spawned"} /\ runtime = "serving"
        /\ UNCHANGED <<host, sender, ready>>
    BY <2>1 DEF Stages, Serve
  <2>3. \/ queue' = << >> /\ receiving' = FALSE /\ runtime' = "ending"
        \/ UNCHANGED <<receiving, runtime>>
    BY <2>1 DEF Serve, DropReceiver
  <2> QED
    BY <2>2, <2>3 DEF Stages
<1>7. CASE ServeHook
  <2>1. \A c \in Caller : step'[c] \in {step[c], "idle"}
    BY <1>7 DEF TypeOK, ServeHook
  <2> QED
    BY <1>7, <2>1 DEF Stages, ServeHook
<1>8. ASSUME NEW c \in Caller,
             FindSender(c) \/ FindNoSender(c) \/ Send(c) \/ GiveUp(c) \/ \E r \in Duty[c] : Begin(c, r)
      PROVE  Stages'
  <2>1. /\ UNCHANGED <<host, runtime, ready, sender, receiving>>
        /\ queue' = queue \/ (step[c] = "sending" /\ receiving)
    BY <1>8 DEF FindSender, FindNoSender, Send, GiveUp, Begin, Enqueue
  <2>2. /\ \A d \in Caller \ {c} : step'[d] = step[d]
        /\ step'[c] = "sending" => sender
        /\ step'[c] = "waiting" => step[c] = "sending"
    BY <1>8 DEF TypeOK, FindSender, FindNoSender, Send, GiveUp, Begin, Return
  <2> QED
    BY <2>1, <2>2 DEF Stages
<1>9. CASE UNCHANGED vars
  BY <1>9 DEF Stages, vars
<1> QED
  BY <1>1, <1>2, <1>3, <1>4, <1>5, <1>6, <1>7, <1>8, <1>9, Steps

LEMMA CallingKeeps ==
  ASSUME TypeOK, Calling, [Next]_vars
  PROVE  Calling'
<1>1. CASE UNCHANGED <<step, doing, call>>
  BY <1>1 DEF Calling, CallingOf
<1>2. CASE ServeHook
  <2>1. /\ UNCHANGED <<doing, call>>
        /\ \A c \in Caller : step'[c] \in {step[c], "idle"}
    BY <1>2 DEF TypeOK, ServeHook
  <2> QED
    BY <2>1 DEF Calling, CallingOf
<1>3. ASSUME NEW c \in Caller,
             FindSender(c) \/ FindNoSender(c) \/ Send(c) \/ GiveUp(c)
      PROVE  Calling'
  <2>1. /\ UNCHANGED <<doing, call>>
        /\ \A d \in Caller \ {c} : step'[d] = step[d]
        /\ step'[c] # "idle" => step[c] # "idle"
        /\ step'[c] = "waiting" => doing[c].kind = "hook"
    BY <1>3 DEF TypeOK, FindSender, FindNoSender, Send, GiveUp, Return
  <2> QED
    BY <2>1 DEF Calling, CallingOf
<1>4. ASSUME NEW c \in Caller, NEW r \in Duty[c], Begin(c, r)
      PROVE  Calling'
  <2>1. call[c] + 1 \in 1 .. MaxCalls
    BY <1>4, CallerAssumption DEF TypeOK, Begin
  <2>2. /\ step'[c] = "asking" /\ doing'[c] = r /\ call'[c] = call[c] + 1
        /\ \A d \in Caller \ {c} : step'[d] = step[d] /\ doing'[d] = doing[d] /\ call'[d] = call[d]
    BY <1>4 DEF TypeOK, Begin
  <2> QED
    BY <2>1, <2>2 DEF Calling, CallingOf
<1>5. Quiet \/ Drops \/ ApplyVariables \/ SendShutdown \/ ServeShutdown
        \/ (\E fails \in BOOLEAN : Serve(fails)) \/ UNCHANGED vars
      => UNCHANGED <<step, doing, call>>
  BY QuietKeeps, DropsKeeps DEF ApplyVariables, SendShutdown, ServeShutdown, Serve, vars, callerVars
<1> QED
  BY <1>1, <1>2, <1>3, <1>4, <1>5, Steps

-----------------------------------------------------------------------------
(* Order.                                                                  *)

(* What the threads' calls do leaves every message issued.                 *)
LEMMA IssuedKept ==
  ASSUME NEW m \in Message, Issued(m),
         \A c \in Caller : /\ call'[c] = call[c]
                           /\ step'[c] \in {"asking", "sending"} => step[c] \in {"asking", "sending"}
  PROVE  IssuedAt(m, step', call')
  BY MessageFacts DEF Issued, IssuedAt

(* Serving moves the oldest message.                                       *)
LEMMA ServingOrders ==
  ASSUME TypeOK, Orders, queue # << >>,
         served' = Append(served, Head(queue)),
         queue' = Tail(queue) \/ queue' = << >>,
         \A m \in Message : Issued(m) => IssuedAt(m, step', call')
  PROVE  Orders'
<1>1. /\ queue \in Seq(Message) /\ served \in Seq(Message) /\ Head(queue) \in Message
      /\ Head(queue) = queue[1] /\ 1 \in DOMAIN queue
  BY TailFacts DEF TypeOK
<1>2. \A k \in DOMAIN served' :
        \/ k \in DOMAIN served /\ served'[k] = served[k]
        \/ k = Len(served) + 1 /\ served'[k] = queue[1]
  BY <1>1, AppendFacts
<1>3. DOMAIN served = 1 .. Len(served) /\ Len(served) \in Nat
  BY <1>1
<1>4. \A k \in DOMAIN queue' : k \in Nat \ {0} /\ k + 1 \in DOMAIN queue /\ queue'[k] = queue[k + 1]
  <2>1. CASE queue' = Tail(queue)
    BY <1>1, <2>1, TailFacts
  <2>2. CASE queue' = << >>
    BY <2>2
  <2> QED
    BY <2>1, <2>2
<1>5. ASSUME NEW k \in DOMAIN served', NEW l \in DOMAIN served', k < l
      PROVE  Before(served'[k], served'[l])
  <2>1. k \in DOMAIN served /\ served'[k] = served[k]
    BY <1>2, <1>3, <1>5
  <2> QED
    BY <1>1, <1>2, <1>5, <2>1 DEF Orders
<1>6. ASSUME NEW k \in DOMAIN queue', NEW l \in DOMAIN queue', k < l
      PROVE  Before(queue'[k], queue'[l])
  BY <1>4, <1>6 DEF Orders
<1>7. ASSUME NEW k \in DOMAIN served', NEW l \in DOMAIN queue'
      PROVE  Before(served'[k], queue'[l])
  <2>1. l + 1 \in DOMAIN queue /\ queue'[l] = queue[l + 1] /\ 1 < l + 1
    BY <1>4
  <2> QED
    BY <1>1, <1>2, <2>1 DEF Orders
<1>8. \A k \in DOMAIN served : served[k] \in Message
  BY <1>1, <1>3
<1>9. \A k \in DOMAIN queue : queue[k] \in Message
  BY <1>1
<1>10. \A k \in DOMAIN served' : IssuedAt(served'[k], step', call')
  BY <1>1, <1>2, <1>8, <1>9 DEF Orders
<1>11. \A k \in DOMAIN queue' : IssuedAt(queue'[k], step', call')
  BY <1>4, <1>9 DEF Orders
<1> QED
  BY <1>5, <1>6, <1>7, <1>10, <1>11 DEF Orders, Before, Issued

(* A message sent last is younger than all others of its thread.           *)
LEMMA SendingOrders ==
  ASSUME TypeOK, Orders, NEW m \in Message,
         queue' = Append(queue, m), served' = served,
         \A n \in Message : Issued(n) => IssuedAt(n, step', call') /\ Before(n, m),
         IssuedAt(m, step', call')
  PROVE  Orders'
<1>1. /\ queue \in Seq(Message) /\ served \in Seq(Message)
      /\ \A k \in DOMAIN queue : queue[k] \in Message
      /\ \A k \in DOMAIN served : served[k] \in Message
      /\ DOMAIN queue = 1 .. Len(queue) /\ Len(queue) \in Nat
  BY DEF TypeOK
<1>2. \A k \in DOMAIN queue' :
        \/ k \in DOMAIN queue /\ queue'[k] = queue[k]
        \/ k = Len(queue) + 1 /\ queue'[k] = m
  BY <1>1, AppendFacts
<1>3. ASSUME NEW k \in DOMAIN queue', NEW l \in DOMAIN queue', k < l
      PROVE  Before(queue'[k], queue'[l])
  <2>1. k \in DOMAIN queue /\ queue'[k] = queue[k]
    BY <1>1, <1>2, <1>3
  <2> QED
    BY <1>1, <1>2, <1>3, <2>1 DEF Orders
<1>4. ASSUME NEW k \in DOMAIN served, NEW l \in DOMAIN queue'
      PROVE  Before(served[k], queue'[l])
  BY <1>1, <1>2 DEF Orders
<1>5. \A k \in DOMAIN queue' : IssuedAt(queue'[k], step', call')
  BY <1>1, <1>2 DEF Orders
<1>6. \A k \in DOMAIN served : IssuedAt(served[k], step', call')
  BY <1>1 DEF Orders
<1> QED
  BY <1>3, <1>4, <1>5, <1>6 DEF Orders, Before, Issued

(* The channel as it was, or dropped.                                      *)
LEMMA QuietOrders ==
  ASSUME TypeOK, Orders, served' = served, queue' = queue \/ queue' = << >>,
         \A n \in Message : Issued(n) => IssuedAt(n, step', call')
  PROVE  Orders'
<1>1. /\ \A k \in DOMAIN queue : queue[k] \in Message
      /\ \A k \in DOMAIN served : served[k] \in Message
  BY DEF TypeOK
<1>2. \A k \in DOMAIN queue' : k \in DOMAIN queue /\ queue'[k] = queue[k]
  OBVIOUS
<1>3. \A k \in DOMAIN queue' : IssuedAt(queue'[k], step', call')
  BY <1>1, <1>2 DEF Orders
<1>4. \A k \in DOMAIN served : IssuedAt(served[k], step', call')
  BY <1>1 DEF Orders
<1> QED
  BY <1>2, <1>3, <1>4 DEF Orders, Before, Issued

LEMMA OrdersKeeps ==
  ASSUME TypeOK, Calling, Orders, [Next]_vars
  PROVE  Orders'
<1>1. CASE Quiet \/ Drops \/ ApplyVariables \/ UNCHANGED vars
  <2>1. /\ UNCHANGED <<served, step, call>>
        /\ queue' = queue \/ queue' = << >>
    BY <1>1, QuietKeeps, DropsKeeps DEF ApplyVariables, callerVars, vars
  <2>2. \A n \in Message : Issued(n) => IssuedAt(n, step', call')
    BY <2>1, IssuedKept
  <2> QED
    BY <2>1, <2>2, QuietOrders
<1>2. CASE SendShutdown
  <2>1. UNCHANGED <<served, step, call>>
    BY <1>2 DEF SendShutdown, callerVars
  <2>2. \A n \in Message : Issued(n) => IssuedAt(n, step', call') /\ Before(n, Shutdown)
    BY <2>1, IssuedKept DEF Before
  <2>3. IssuedAt(Shutdown, step', call')
    BY DEF Issued, IssuedAt
  <2>4. queue' = queue \/ queue' = Append(queue, Shutdown)
    BY <1>2 DEF SendShutdown, Enqueue
  <2>5. CASE queue' = queue
    BY <2>1, <2>2, <2>5, QuietOrders
  <2>6. CASE queue' = Append(queue, Shutdown)
    BY <2>1, <2>2, <2>3, <2>6, SendingOrders, MessageFacts
  <2> QED
    BY <2>4, <2>5, <2>6
<1>3. CASE ServeShutdown \/ \E fails \in BOOLEAN : Serve(fails)
  <2>1. /\ UNCHANGED <<step, call>> /\ queue # << >>
        /\ served' = Append(served, Head(queue))
        /\ queue' = Tail(queue) \/ queue' = << >>
    BY <1>3 DEF ServeShutdown, Serve, Remaining, DropReceiver, callerVars
  <2>2. \A n \in Message : Issued(n) => IssuedAt(n, step', call')
    BY <2>1, IssuedKept
  <2> QED
    BY <2>1, <2>2, ServingOrders
<1>4. CASE ServeHook
  <2>1. /\ call' = call /\ queue # << >>
        /\ served' = Append(served, Head(queue)) /\ queue' = Tail(queue)
    BY <1>4 DEF ServeHook, Remaining
  <2>2. \A c \in Caller : step'[c] \in {step[c], "idle"}
    BY <1>4 DEF TypeOK, ServeHook
  <2>3. \A n \in Message : Issued(n) => IssuedAt(n, step', call')
    BY <2>1, <2>2, IssuedKept
  <2> QED
    BY <2>1, <2>3, ServingOrders
<1>5. ASSUME NEW c \in Caller, FindSender(c) \/ FindNoSender(c) \/ GiveUp(c)
      PROVE  Orders'
  <2>1. UNCHANGED <<served, queue, call>>
    BY <1>5 DEF FindSender, FindNoSender, GiveUp
  <2>2. \A d \in Caller : step'[d] \in {"asking", "sending"} => step[d] \in {"asking", "sending"}
    BY <1>5 DEF TypeOK, FindSender, FindNoSender, GiveUp, Return
  <2>3. \A n \in Message : Issued(n) => IssuedAt(n, step', call')
    BY <2>1, <2>2, IssuedKept
  <2> QED
    BY <2>1, <2>3, QuietOrders
<1>6. ASSUME NEW c \in Caller, Send(c)
      PROVE  Orders'
  <2>1. /\ UNCHANGED <<served, call>> /\ step[c] = "sending" /\ step'[c] \in {"idle", "waiting"}
        /\ \A d \in Caller \ {c} : step'[d] = step[d]
    BY <1>6 DEF TypeOK, Send, Return
  <2>2. \A n \in Message : Issued(n) => IssuedAt(n, step', call')
    BY <2>1, IssuedKept
  <2>3. CASE queue' = queue
    BY <2>1, <2>2, <2>3, QuietOrders
  <2>4. CASE queue' = Append(queue, MessageOf(c))
    <3>1. /\ MessageOf(c) \in Message
          /\ MessageOf(c).caller = c /\ MessageOf(c).call = call[c] /\ call[c] \in Nat
      BY <2>1, OwnMessage, MaxCallsType DEF TypeOK
    <3>2. \A n \in Message : Issued(n) => Before(n, MessageOf(c))
      BY <2>1, <3>1 DEF Issued, IssuedAt, Before
    <3>3. IssuedAt(MessageOf(c), step', call')
      BY <2>1, <3>1 DEF IssuedAt, MessageOf
    <3> QED
      BY <2>1, <2>2, <2>4, <3>1, <3>2, <3>3, SendingOrders
  <2> QED
    BY <1>6, <2>3, <2>4 DEF Send, Enqueue
<1>7. ASSUME NEW c \in Caller, NEW r \in Duty[c], Begin(c, r)
      PROVE  Orders'
  <2>1. /\ UNCHANGED <<served, queue>> /\ call'[c] = call[c] + 1
        /\ \A d \in Caller \ {c} : step'[d] = step[d] /\ call'[d] = call[d]
    BY <1>7 DEF TypeOK, Begin
  <2>2. call[c] \in Nat
    BY MaxCallsType DEF TypeOK
  <2>3. ASSUME NEW n \in Message, Issued(n)
        PROVE  IssuedAt(n, step', call')
    <3>1. CASE n = Shutdown
      BY <3>1 DEF Issued, IssuedAt
    <3>2. CASE n # Shutdown
      <4>1. n.caller \in Caller /\ n.call \in Nat /\ n.call <= call[n.caller]
        BY <2>3, <3>2, MessageFacts, MaxCallsType DEF Issued, IssuedAt
      <4>2. CASE n.caller = c
        BY <2>1, <2>2, <4>1, <4>2 DEF Issued, IssuedAt
      <4>3. CASE n.caller # c
        BY <2>1, <2>3, <3>2, <4>1, <4>3 DEF Issued, IssuedAt
      <4> QED
        BY <4>2, <4>3
    <3> QED
      BY <3>1, <3>2
  <2> QED
    BY <2>1, <2>3, QuietOrders
<1> QED
  BY <1>1, <1>2, <1>3, <1>4, <1>5, <1>6, <1>7, Steps

-----------------------------------------------------------------------------
(* What is accepted stays in the channel until it is served.               *)

InLine(m) ==
  \/ \E k \in DOMAIN queue : queue[k] = m
  \/ \E k \in DOMAIN served : served[k] = m

Told(c) == step[c] = "idle" /\ doing[c].kind = "event" /\ reply[c].ok

LEMMA AcceptedInLine ==
  AcceptedNotLost <=> (receiving => \A c \in Caller : Told(c) => InLine(MessageOf(c)))
  BY DEF AcceptedNotLost, InLine, Told

LEMMA ServingKeepsInLine ==
  ASSUME TypeOK, queue # << >>, NEW m, InLine(m),
         served' = Append(served, Head(queue)), queue' = Tail(queue)
  PROVE  InLine(m)'
<1>1. /\ queue \in Seq(Message) /\ served \in Seq(Message) /\ Head(queue) \in Message
      /\ Head(queue) = queue[1]
  BY TailFacts DEF TypeOK
<1>2. CASE \E k \in DOMAIN served : served[k] = m
  <2>1. PICK k \in DOMAIN served : served[k] = m
    BY <1>2
  <2>2. k \in DOMAIN served' /\ served'[k] = m
    BY <1>1, <2>1, AppendFacts
  <2> QED
    BY <2>2 DEF InLine
<1>3. CASE \E k \in DOMAIN queue : queue[k] = m
  <2>1. PICK k \in DOMAIN queue : queue[k] = m
    BY <1>3
  <2>2. CASE k = 1
    <3>1. Len(served) + 1 \in DOMAIN served' /\ served'[Len(served) + 1] = m
      BY <1>1, <2>1, <2>2, AppendFacts
    <3> QED
      BY <3>1 DEF InLine
  <2>3. CASE k # 1
    <3>1. k - 1 \in DOMAIN queue' /\ queue'[k - 1] = m
      BY <1>1, <2>1, <2>3, TailFacts
    <3> QED
      BY <3>1 DEF InLine
  <2> QED
    BY <2>2, <2>3
<1> QED
  BY <1>2, <1>3 DEF InLine

LEMMA SendingKeepsInLine ==
  ASSUME TypeOK, NEW n \in Message, Enqueue(n), served' = served
  PROVE  /\ \A m : InLine(m) => InLine(m)'
         /\ receiving => InLine(n)'
<1>1. queue \in Seq(Message)
  BY DEF TypeOK
<1>2. CASE ~receiving
  BY <1>2 DEF Enqueue, InLine
<1>3. CASE receiving
  <2>1. queue' = Append(queue, n)
    BY <1>3 DEF Enqueue
  <2>2. Len(queue) + 1 \in DOMAIN queue' /\ queue'[Len(queue) + 1] = n
    BY <1>1, <2>1, AppendFacts
  <2>3. \A k \in DOMAIN queue : k \in DOMAIN queue' /\ queue'[k] = queue[k]
    BY <1>1, <2>1, AppendFacts
  <2> QED
    BY <2>2, <2>3 DEF InLine
<1> QED
  BY <1>2, <1>3

(* A step that leaves what a thread was told and what is in line.          *)
LEMMA LeavesInLine ==
  ASSUME AcceptedNotLost, receiving' => receiving, UNCHANGED <<doing, call>>,
         \A c \in Caller : Told(c)' => Told(c),
         \A c \in Caller : InLine(MessageOf(c)) => InLine(MessageOf(c))'
  PROVE  AcceptedNotLost'
  BY AcceptedInLine DEF AcceptedNotLost, Told, InLine

LEMMA NothingYetKeeps ==
  ASSUME TypeOK, Stages, Calling, NothingYet, [Next]_vars
  PROVE  NothingYet'
<1> SUFFICES ASSUME host' = "start" PROVE NothingYet'
  BY DEF NothingYet
<1>1. CASE Quiet
  <2>1. host = "start"
    BY <1>1 DEF Quiet, SpawnFails, Spawn, StoreSender, InitReturns, BeginUnload, Unload,
       FinishLoading, ThreadEnds
  <2> QED
    BY <1>1, <2>1, QuietKeeps DEF NothingYet
<1>2. CASE Drops
  BY <1>2, DropsKeeps DEF NothingYet
<1>3. CASE ApplyVariables \/ SendShutdown \/ ServeShutdown \/ (\E fails \in BOOLEAN : Serve(fails))
             \/ UNCHANGED vars
  BY <1>3 DEF ApplyVariables, SendShutdown, ServeShutdown, Serve, callerVars, vars, NothingYet
<1>4. CASE ServeHook
  BY <1>4 DEF ServeHook, Stages
<1>5. ASSUME NEW c \in Caller,
             FindSender(c) \/ FindNoSender(c) \/ Send(c) \/ GiveUp(c) \/ \E r \in Duty[c] : Begin(c, r)
      PROVE  NothingYet'
  <2>1. host = "start" /\ ~Send(c)
    BY <1>5 DEF FindSender, FindNoSender, Send, GiveUp, Begin, Stages
  <2>2. \A d \in Caller \ {c} : /\ step'[d] = step[d] /\ doing'[d] = doing[d]
                                /\ reply'[d] = reply[d]
    BY <1>5, <2>1 DEF TypeOK, FindSender, FindNoSender, GiveUp, Begin, Return
  <2>3. step'[c] = "idle" /\ doing'[c].kind = "event" => ~reply'[c].ok
    BY <1>5, <2>1 DEF TypeOK, FindSender, FindNoSender, GiveUp, Begin, Return, Refusal, NoReply
  <2> QED
    BY <2>1, <2>2, <2>3 DEF NothingYet
<1> QED
  BY <1>1, <1>2, <1>3, <1>4, <1>5, Steps

LEMMA AcceptedKeeps ==
  ASSUME TypeOK, Stages, Calling, NothingYet, AcceptedNotLost, [Next]_vars
  PROVE  AcceptedNotLost'
<1> SUFFICES ASSUME receiving' PROVE AcceptedNotLost'
  BY DEF AcceptedNotLost
<1>1. CASE Spawn
  BY <1>1 DEF Spawn, NothingYet, AcceptedNotLost, callerVars
<1>2. CASE Quiet /\ ~Spawn
  <2>1. receiving
    BY <1>2 DEF Quiet, SpawnFails, StoreSender, InitReturns, BeginUnload, Unload,
       FinishLoading, ThreadEnds
  <2> QED
    BY <1>2, <2>1, QuietKeeps DEF AcceptedNotLost, MessageOf
<1>3. CASE Drops
  BY <1>3, DropsKeeps
<1>4. CASE ApplyVariables \/ UNCHANGED vars
  BY <1>4 DEF ApplyVariables, callerVars, vars, AcceptedNotLost, MessageOf
<1>5. CASE SendShutdown
  <2>1. UNCHANGED <<receiving, step, doing, call, reply, served>> /\ Enqueue(Shutdown)
    BY <1>5 DEF SendShutdown, callerVars
  <2>2. \A m : InLine(m) => InLine(m)'
    BY <2>1, SendingKeepsInLine, MessageFacts
  <2> QED
    BY <2>1, <2>2, LeavesInLine DEF Told, InLine, MessageOf
<1>6. CASE ServeShutdown \/ (\E fails \in BOOLEAN : Serve(fails)) \/ ServeHook
  <2>1. /\ receiving /\ UNCHANGED <<doing, call>> /\ queue # << >>
        /\ served' = Append(served, Head(queue)) /\ queue' = Tail(queue)
    BY <1>6 DEF ServeShutdown, Serve, ServeHook, Remaining, DropReceiver, callerVars
  <2>2. \A c \in Caller : Told(c)' => Told(c)
    <3>1. CASE ServeHook
      <4>1. \A c \in Caller : \/ step'[c] = step[c] /\ reply'[c] = reply[c]
                              \/ step[c] = "waiting"
        BY <3>1 DEF TypeOK, ServeHook, Awaits
      <4>2. \A c \in Caller : step[c] = "waiting" => doing[c].kind = "hook"
        BY DEF Calling, CallingOf
      <4> QED
        BY <2>1, <4>1, <4>2 DEF Told
    <3>2. CASE ~ServeHook
      BY <1>6, <3>2 DEF ServeShutdown, Serve, callerVars, Told
    <3> QED
      BY <3>1, <3>2
  <2>3. \A m : InLine(m) => InLine(m)'
    BY <2>1, ServingKeepsInLine
  <2>4. \A c \in Caller : InLine(MessageOf(c)) => InLine(MessageOf(c))'
    <3> SUFFICES ASSUME NEW c \in Caller, InLine(MessageOf(c)) PROVE InLine(MessageOf(c))'
      OBVIOUS
    <3>1. PICK m : m = MessageOf(c) /\ InLine(m)
      OBVIOUS
    <3>2. MessageOf(c)' = m /\ InLine(m)'
      BY <2>1, <2>3, <3>1 DEF MessageOf
    <3> QED
      BY <3>2 DEF InLine
  <2> QED
    BY <2>1, <2>2, <2>4, LeavesInLine
<1>7. ASSUME NEW c \in Caller,
             FindSender(c) \/ FindNoSender(c) \/ GiveUp(c) \/ \E r \in Duty[c] : Begin(c, r)
      PROVE  AcceptedNotLost'
  <2>1. UNCHANGED <<receiving, queue, served>>
    BY <1>7 DEF FindSender, FindNoSender, GiveUp, Begin
  <2>2. \A d \in Caller \ {c} : /\ step'[d] = step[d] /\ doing'[d] = doing[d]
                                /\ reply'[d] = reply[d] /\ call'[d] = call[d]
    BY <1>7 DEF TypeOK, FindSender, FindNoSender, GiveUp, Begin, Return
  <2>3. step'[c] = "idle" /\ doing'[c].kind = "event" => ~reply'[c].ok
    <3>1. CASE FindSender(c) \/ \E r \in Duty[c] : Begin(c, r)
      BY <3>1 DEF TypeOK, FindSender, Begin
    <3>2. CASE FindNoSender(c) \/ GiveUp(c)
      <4>1. doing' = doing /\ (doing[c].kind = "event" => reply'[c] = NoReply)
        BY <3>2 DEF TypeOK, FindNoSender, GiveUp, Return, Refusal
      <4> QED
        BY <4>1 DEF NoReply
    <3> QED
      BY <1>7, <3>1, <3>2
  <2> QED
    BY <2>1, <2>2, <2>3 DEF AcceptedNotLost, MessageOf
<1>8. ASSUME NEW c \in Caller, Send(c)
      PROVE  AcceptedNotLost'
  <2>1. /\ UNCHANGED <<receiving, doing, call, served>> /\ Enqueue(MessageOf(c))
        /\ step[c] = "sending" /\ receiving
        /\ \A d \in Caller \ {c} : step'[d] = step[d] /\ reply'[d] = reply[d]
    BY <1>8 DEF TypeOK, Send, Return
  <2>2. \A m : InLine(m) => InLine(m)'
    BY <2>1, SendingKeepsInLine, OwnMessage
  <2>3. InLine(MessageOf(c))'
    <3>1. PICK m \in Message : m = MessageOf(c)
      BY <2>1, OwnMessage
    <3>2. InLine(m)' /\ MessageOf(c)' = m
      BY <2>1, <3>1, SendingKeepsInLine DEF MessageOf
    <3> QED
      BY <3>2 DEF InLine
  <2>4. \A d \in Caller \ {c} : Told(d)' => Told(d) /\ MessageOf(d)' = MessageOf(d)
    BY <2>1 DEF Told, MessageOf
  <2>5. \A d \in Caller \ {c} : Told(d)' => InLine(MessageOf(d))'
    <3>1. SUFFICES ASSUME NEW d \in Caller \ {c}, Told(d)' PROVE InLine(MessageOf(d))'
      OBVIOUS
    <3>2. PICK m : m = MessageOf(d)
      OBVIOUS
    <3>3. InLine(m) /\ MessageOf(d)' = m
      BY <2>1, <2>4, <3>1, <3>2, AcceptedInLine
    <3> QED
      BY <2>2, <3>3 DEF InLine
  <2> QED
    BY <2>3, <2>5 DEF AcceptedNotLost, InLine, Told
<1> QED
  BY <1>1, <1>2, <1>3, <1>4, <1>5, <1>6, <1>7, <1>8, Steps

-----------------------------------------------------------------------------
(* Answers.                                                                *)

LEMMA AnswersKeeps ==
  ASSUME TypeOK, AnswerIsForThisCall, [Next]_vars
  PROVE  AnswerIsForThisCall'
<1>1. CASE UNCHANGED <<step, reply, call>>
  BY <1>1 DEF AnswerIsForThisCall
<1>2. Quiet \/ Drops \/ ApplyVariables \/ SendShutdown \/ ServeShutdown
        \/ (\E fails \in BOOLEAN : Serve(fails)) \/ UNCHANGED vars
      => UNCHANGED <<step, reply, call>>
  BY QuietKeeps, DropsKeeps DEF ApplyVariables, SendShutdown, ServeShutdown, Serve, vars, callerVars
<1>3. CASE ServeHook
  <2>1. \A c \in Caller :
          \/ step'[c] = step[c] /\ reply'[c] = reply[c]
          \/ reply'[c] = [ok |-> TRUE, for |-> call[c]]
    <3>1. CASE ~Awaits(Head(queue))
      BY <1>3, <3>1 DEF ServeHook
    <3>2. CASE Awaits(Head(queue))
      <4>1. /\ step' = [step EXCEPT ![Head(queue).caller] = "idle"]
            /\ reply' = [reply EXCEPT ![Head(queue).caller] =
                                        [ok |-> TRUE, for |-> Head(queue).call]]
            /\ call[Head(queue).caller] = Head(queue).call
        BY <1>3, <3>2 DEF ServeHook, Awaits
      <4>2. ASSUME NEW c \in Caller, c # Head(queue).caller
            PROVE  step'[c] = step[c] /\ reply'[c] = reply[c]
        BY <4>1, <4>2 DEF TypeOK
      <4>3. ASSUME NEW c \in Caller, c = Head(queue).caller
            PROVE  reply'[c] = [ok |-> TRUE, for |-> call[c]]
        <5>1. reply'[c] = [ok |-> TRUE, for |-> Head(queue).call]
          BY <4>1, <4>3 DEF TypeOK
        <5> QED
          BY <4>1, <4>3, <5>1
      <4> QED
        BY <4>2, <4>3
    <3> QED
      BY <3>1, <3>2
  <2>2. call' = call
    BY <1>3 DEF ServeHook
  <2>3. ASSUME NEW c \in Caller, step'[c] = "idle", reply'[c].ok
        PROVE  reply'[c].for = call[c]
    <3>1. CASE step'[c] = step[c] /\ reply'[c] = reply[c]
      BY <2>3, <3>1 DEF AnswerIsForThisCall
    <3>2. CASE reply'[c] = [ok |-> TRUE, for |-> call[c]]
      BY <3>2
    <3> QED
      BY <2>1, <3>1, <3>2
  <2> QED
    BY <2>2, <2>3 DEF AnswerIsForThisCall
<1>4. ASSUME NEW c \in Caller,
             FindSender(c) \/ FindNoSender(c) \/ Send(c) \/ GiveUp(c) \/ \E r \in Duty[c] : Begin(c, r)
      PROVE  AnswerIsForThisCall'
  <2>1. \A d \in Caller \ {c} : /\ step'[d] = step[d] /\ call'[d] = call[d]
                                /\ reply'[d] = reply[d]
    BY <1>4 DEF TypeOK, FindSender, FindNoSender, Send, GiveUp, Begin, Return
  <2>2. step'[c] = "idle" => reply'[c] \in {NoReply, Accepted(c)} /\ call' = call
    BY <1>4 DEF TypeOK, FindSender, FindNoSender, Send, GiveUp, Begin, Return, Refusal
  <2> QED
    BY <2>1, <2>2 DEF AnswerIsForThisCall, NoReply, Accepted
<1> QED
  BY <1>1, <1>2, <1>3, <1>4, Steps

-----------------------------------------------------------------------------
(* Variables.  Of the only thread that registers n, no other has n in hand. *)

LEMMA OnlyRegistrant ==
  ASSUME Calling, NEW n, OneRegistrant(n),
         NEW c \in Caller, NEW r \in Duty[c], r.kind = "variable", r.name = n,
         NEW d \in Caller, step[d] # "idle", doing[d].kind = "variable", doing[d].name = n
  PROVE  c = d
  BY DEF Calling, CallingOf, OneRegistrant, Registers

LEMMA StagedKeeps ==
  ASSUME TypeOK, Calling, Staged, [Next]_vars
  PROVE  Staged'
<1>1. CASE /\ UNCHANGED <<pending, doing>>
           /\ \A c \in Caller : step'[c] \in {"asking", "sending"} => step[c] \in {"asking", "sending"}
  BY <1>1 DEF Staged, OneRegistrant, Registers
<1>2. Quiet \/ Drops \/ ApplyVariables \/ SendShutdown \/ ServeShutdown
        \/ (\E fails \in BOOLEAN : Serve(fails)) \/ UNCHANGED vars
      => UNCHANGED <<pending, step, doing>>
  BY QuietKeeps, DropsKeeps DEF ApplyVariables, SendShutdown, ServeShutdown, Serve, vars, callerVars
<1>3. ServeHook => /\ UNCHANGED <<pending, doing>>
                   /\ \A c \in Caller : step'[c] \in {step[c], "idle"}
  BY DEF TypeOK, ServeHook
<1>4. ASSUME NEW c \in Caller, FindSender(c) \/ FindNoSender(c) \/ Send(c) \/ GiveUp(c)
      PROVE  /\ UNCHANGED <<pending, doing>>
             /\ \A d \in Caller : step'[d] \in {"asking", "sending"} => step[d] \in {"asking", "sending"}
  BY <1>4 DEF TypeOK, FindSender, FindNoSender, Send, GiveUp, Return
<1>5. ASSUME NEW c \in Caller, NEW r \in Duty[c], Begin(c, r)
      PROVE  Staged'
  <2>1. /\ doing'[c] = r
        /\ \A d \in Caller \ {c} : step'[d] = step[d] /\ doing'[d] = doing[d]
        /\ pending' = IF r.kind = "variable" THEN [pending EXCEPT ![r.name] = r.value] ELSE pending
    BY <1>5 DEF TypeOK, Begin
  <2>2. r.kind = "variable" => r.name \in DOMAIN pending
    BY CallerAssumption DEF TypeOK
  <2> SUFFICES ASSUME NEW d \in Caller, step'[d] \in {"asking", "sending"},
                      doing'[d].kind = "variable", OneRegistrant(doing'[d].name)
               PROVE  pending'[doing'[d].name] = doing'[d].value
    BY DEF Staged, OneRegistrant, Registers
  <2>3. CASE d = c
    BY <2>1, <2>2, <2>3
  <2>4. CASE d # c
    <3>1. pending[doing[d].name] = doing[d].value /\ doing'[d] = doing[d] /\ step[d] # "idle"
      BY <2>1, <2>4 DEF Staged
    <3>2. r.kind = "variable" => r.name # doing[d].name
      BY <2>4, <3>1, OnlyRegistrant
    <3>3. doing[d].name \in Name
      BY <3>1, CallerAssumption DEF Calling, CallingOf
    <3> QED
      BY <2>1, <3>1, <3>2, <3>3 DEF TypeOK
  <2> QED
    BY <2>3, <2>4
<1> QED
  BY <1>1, <1>2, <1>3, <1>4, <1>5, Steps

-----------------------------------------------------------------------------
(* The last message about a variable.                                      *)

Last(n) == \A k \in DOMAIN queue : IsLast(k, n) => queue[k].body.value = pending[n]

LEMMA LastSame ==
  ASSUME NEW n, Last(n), queue' = queue, pending'[n] = pending[n]
  PROVE  Last(n)'
  BY DEF Last, IsLast, About

LEMMA LastTail ==
  ASSUME TypeOK, NEW n, Last(n), queue # << >>, queue' = Tail(queue), pending'[n] = pending[n]
  PROVE  Last(n)'
<1>1. /\ queue \in Seq(Message) /\ DOMAIN queue = 1 .. Len(queue) /\ Len(queue) \in Nat \ {0}
      /\ DOMAIN queue' = 1 .. (Len(queue) - 1)
      /\ \A k \in DOMAIN queue' : queue'[k] = queue[k + 1]
  BY TailFacts DEF TypeOK
<1>2. ASSUME NEW k \in DOMAIN queue', IsLast(k, n)'
      PROVE  queue'[k].body.value = pending'[n]
  <2>1. k + 1 \in DOMAIN queue /\ About(queue[k + 1], n)
    BY <1>1, <1>2 DEF IsLast, About
  <2>2. ASSUME NEW l \in DOMAIN queue, l > k + 1
        PROVE  ~About(queue[l], n)
    <3>1. l - 1 \in DOMAIN queue' /\ l - 1 > k /\ (l - 1) + 1 = l
      BY <1>1, <2>2
    <3> QED
      BY <1>1, <1>2, <3>1 DEF IsLast, About
  <2>3. IsLast(k + 1, n)
    BY <2>1, <2>2 DEF IsLast
  <2> QED
    BY <1>1, <2>1, <2>3 DEF Last
<1> QED
  BY <1>2 DEF Last

LEMMA LastOther ==
  ASSUME TypeOK, NEW n, Last(n), NEW m \in Message, ~About(m, n),
         queue' = Append(queue, m), pending'[n] = pending[n]
  PROVE  Last(n)'
<1>1. /\ queue \in Seq(Message) /\ DOMAIN queue = 1 .. Len(queue) /\ Len(queue) \in Nat
      /\ DOMAIN queue' = 1 .. (Len(queue) + 1)
      /\ \A k \in DOMAIN queue : queue'[k] = queue[k]
      /\ queue'[Len(queue) + 1] = m
  BY AppendFacts DEF TypeOK
<1>2. ASSUME NEW k \in DOMAIN queue', IsLast(k, n)'
      PROVE  queue'[k].body.value = pending'[n]
  <2>1. About(queue'[k], n) /\ \A l \in DOMAIN queue' : l > k => ~About(queue'[l], n)
    BY <1>2 DEF IsLast, About
  <2>2. k \in DOMAIN queue
    BY <1>1, <2>1
  <2>3. IsLast(k, n)
    BY <1>1, <2>1, <2>2 DEF IsLast
  <2> QED
    BY <1>1, <2>2, <2>3 DEF Last
<1> QED
  BY <1>2 DEF Last

LEMMA LastAbout ==
  ASSUME TypeOK, NEW n, NEW m \in Message, About(m, n),
         queue' = Append(queue, m), m.body.value = pending'[n]
  PROVE  /\ Last(n)'
         /\ \E k \in DOMAIN queue' : About(queue'[k], n)
<1>1. /\ queue \in Seq(Message) /\ DOMAIN queue = 1 .. Len(queue) /\ Len(queue) \in Nat
      /\ DOMAIN queue' = 1 .. (Len(queue) + 1)
      /\ queue'[Len(queue) + 1] = m
  BY AppendFacts DEF TypeOK
<1>2. ASSUME NEW k \in DOMAIN queue', IsLast(k, n)'
      PROVE  queue'[k].body.value = pending'[n]
  <2>1. \A l \in DOMAIN queue' : l > k => ~About(queue'[l], n)
    BY <1>2 DEF IsLast, About
  <2>2. k = Len(queue) + 1
    BY <1>1, <2>1
  <2> QED
    BY <1>1, <2>2
<1> QED
  BY <1>1, <1>2 DEF Last

(* When a message in the channel is the only one about n, it is the last.  *)
LEMMA HeadLast ==
  ASSUME TypeOK, NEW n, Last(n), queue # << >>, About(Head(queue), n),
         \A k \in DOMAIN Tail(queue) : ~About(Tail(queue)[k], n)
  PROVE  Head(queue).body.value = pending[n]
<1>1. /\ queue \in Seq(Message) /\ DOMAIN queue = 1 .. Len(queue) /\ Len(queue) \in Nat \ {0}
      /\ DOMAIN Tail(queue) = 1 .. (Len(queue) - 1) /\ Head(queue) = queue[1]
      /\ \A k \in DOMAIN Tail(queue) : Tail(queue)[k] = queue[k + 1]
  BY TailFacts DEF TypeOK
<1>2. ASSUME NEW l \in DOMAIN queue, l > 1
      PROVE  ~About(queue[l], n)
  <2>1. l - 1 \in DOMAIN Tail(queue) /\ (l - 1) + 1 = l
    BY <1>1, <1>2
  <2> QED
    BY <1>1, <2>1
<1>3. IsLast(1, n)
  BY <1>1, <1>2 DEF IsLast
<1> QED
  BY <1>1, <1>3 DEF Last

-----------------------------------------------------------------------------
(* The last message carries what is staged, step by step.                  *)

Due(n) ==
  /\ runtime \in {"starting", "loading", "serving"}
  /\ runtime = "starting" \/ n \notin unseen
  /\ OneRegistrant(n) /\ ~InHand(n)

LEMMA DueLast == LastCurrent <=> \A n \in Name : Due(n) => Last(n)
  BY DEF LastCurrent, Due, Last

(* Who tells of a variable has it in hand before and after the other steps. *)
LEMMA InHandSame ==
  ASSUME NEW n, UNCHANGED doing,
         \A c \in Caller : step'[c] \in {"asking", "sending"} <=> step[c] \in {"asking", "sending"}
  PROVE  InHand(n)' <=> InHand(n)
  BY DEF InHand

(* A call that ends is about its own variable.                             *)
LEMMA InHandOther ==
  ASSUME NEW n, NEW c \in Caller, ~(doing[c].kind = "variable" /\ doing[c].name = n),
         UNCHANGED doing, \A d \in Caller \ {c} : step'[d] = step[d]
  PROVE  InHand(n)' <=> InHand(n)
  BY DEF InHand

LEMMA QuietVariables ==
  ASSUME TypeOK, Stages, LastCurrent, AppliedCurrent, Quiet
  PROVE  LastCurrent' /\ AppliedCurrent'
<1>1. UNCHANGED <<queue, pending, external, step, doing, call, reply, served, unseen>>
  BY QuietKeeps
<1>2. CASE Spawn
  <2>1. queue = << >> /\ runtime' = "starting"
    BY <1>2 DEF Spawn, Stages
  <2> QED
    BY <1>1, <2>1 DEF LastCurrent, AppliedCurrent
<1>3. CASE ~Spawn
  <2>1. /\ runtime' \in {"starting", "loading", "serving"} => runtime \in {"starting", "loading", "serving"}
        /\ runtime' \in {"loading", "serving"} <=> runtime \in {"loading", "serving"}
    BY <1>3 DEF Quiet, SpawnFails, StoreSender, InitReturns, BeginUnload, Unload,
       FinishLoading, ThreadEnds
  <2>2. \A n : (InHand(n)' <=> InHand(n)) /\ (Last(n) => Last(n)')
    BY <1>1, InHandSame, LastSame
  <2>3. \A n \in Name : Due(n)' => Due(n)
    BY <1>1, <2>1, <2>2 DEF Due, OneRegistrant, Registers
  <2>4. LastCurrent'
    BY <2>2, <2>3, DueLast DEF LastCurrent, Due, Last
  <2>5. AppliedCurrent'
    BY <1>1, <2>1, <2>2 DEF AppliedCurrent, OneRegistrant, Registers
  <2> QED
    BY <2>4, <2>5
<1> QED
  BY <1>2, <1>3

LEMMA ApplyVariablesKeeps ==
  ASSUME LastCurrent, ApplyVariables
  PROVE  LastCurrent' /\ AppliedCurrent'
<1>1. /\ UNCHANGED <<queue, pending, step, doing>> /\ external' = pending
      /\ runtime = "starting" /\ runtime' = "loading"
  BY DEF ApplyVariables, callerVars
<1>2. \A n : (InHand(n)' <=> InHand(n)) /\ (Last(n) => Last(n)')
  BY <1>1, InHandSame, LastSame
<1>3. \A n \in Name : Due(n)' => Due(n)
  BY <1>1, <1>2 DEF Due, OneRegistrant, Registers
<1> QED
  BY <1>1, <1>2, <1>3, DueLast DEF LastCurrent, Due, Last, AppliedCurrent

LEMMA SendShutdownKeeps ==
  ASSUME TypeOK, LastCurrent, AppliedCurrent, SendShutdown
  PROVE  LastCurrent' /\ AppliedCurrent'
<1>1. /\ UNCHANGED <<pending, external, step, doing, runtime, unseen>>
      /\ queue' = queue \/ queue' = Append(queue, Shutdown)
  BY DEF SendShutdown, Enqueue, callerVars
<1>2. \A n : InHand(n)' <=> InHand(n)
  BY <1>1, InHandSame
<1>3. Shutdown \in Message /\ \A n : ~About(Shutdown, n)
  BY MessageFacts DEF About, Shutdown
<1>4. \A n : Last(n) => Last(n)'
  BY <1>1, <1>3, LastSame, LastOther
<1>5. \A n \in Name : Due(n)' => Due(n)
  BY <1>1, <1>2 DEF Due, OneRegistrant, Registers
<1>6. \A k \in DOMAIN queue : k \in DOMAIN queue' /\ queue'[k] = queue[k]
  <2>1. queue \in Seq(Message)
    BY DEF TypeOK
  <2>2. CASE queue' = Append(queue, Shutdown)
    BY <1>3, <2>1, <2>2, AppendFacts
  <2>3. CASE queue' = queue
    BY <2>3
  <2> QED
    BY <1>1, <2>2, <2>3
<1>7. LastCurrent'
  BY <1>4, <1>5, DueLast DEF LastCurrent, Due, Last
<1>8. AppliedCurrent'
  BY <1>1, <1>2, <1>6 DEF AppliedCurrent, OneRegistrant, Registers, About
<1> QED
  BY <1>7, <1>8

LEMMA ServingVariables ==
  ASSUME TypeOK, LastCurrent, AppliedCurrent, Serve(FALSE) \/ ServeHook
  PROVE  LastCurrent' /\ AppliedCurrent'
<1> DEFINE m == Head(queue)
<1>1. /\ UNCHANGED <<pending, doing, runtime, unseen>> /\ runtime = "serving"
      /\ queue # << >> /\ queue' = Tail(queue)
      /\ external' = IF m.kind = "variable" THEN Applied(m) ELSE external
  BY DEF Serve, ServeHook, Remaining, callerVars
<1>2. \A c \in Caller : step'[c] \in {"asking", "sending"} <=> step[c] \in {"asking", "sending"}
  BY DEF TypeOK, Serve, ServeHook, Awaits, callerVars
<1>3. \A n : InHand(n)' <=> InHand(n)
  BY <1>1, <1>2, InHandSame
<1>4. \A n : Last(n) => Last(n)'
  BY <1>1, LastTail
<1>5. \A n \in Name : Due(n)' => Due(n)
  BY <1>1, <1>3 DEF Due, OneRegistrant, Registers
<1>6. LastCurrent'
  BY <1>4, <1>5, DueLast DEF LastCurrent, Due, Last
<1>7. ASSUME NEW n \in Name, n \notin unseen, OneRegistrant(n), ~InHand(n),
             \A k \in DOMAIN queue' : ~About(queue'[k], n)
      PROVE  external'[n] = pending[n]
  <2>1. CASE About(m, n)
    <3>1. m.body.value = pending[n]
      BY <1>1, <1>7, <2>1, HeadLast, DueLast DEF Due
    <3> QED
      BY <1>1, <2>1, <3>1 DEF TypeOK, Applied, About
  <2>2. CASE ~About(m, n)
    <3>1. external'[n] = external[n]
      BY <1>1, <2>2 DEF TypeOK, Applied, About
    <3>2. \A k \in DOMAIN queue : ~About(queue[k], n)
      <4>1. /\ DOMAIN queue = 1 .. Len(queue) /\ Len(queue) \in Nat \ {0} /\ Head(queue) = queue[1]
            /\ DOMAIN queue' = 1 .. (Len(queue) - 1)
            /\ \A k \in DOMAIN queue' : queue'[k] = queue[k + 1]
        BY <1>1, TailFacts DEF TypeOK
      <4>2. ASSUME NEW k \in DOMAIN queue, k # 1
            PROVE  ~About(queue[k], n)
        <5>1. k - 1 \in DOMAIN queue' /\ (k - 1) + 1 = k
          BY <4>1, <4>2
        <5> QED
          BY <1>7, <4>1, <5>1
      <4> QED
        BY <2>2, <4>1, <4>2
    <3> QED
      BY <1>1, <1>7, <3>1, <3>2 DEF AppliedCurrent
  <2> QED
    BY <2>1, <2>2
<1>8. AppliedCurrent'
  BY <1>1, <1>3, <1>7 DEF AppliedCurrent, OneRegistrant, Registers, About
<1> QED
  BY <1>6, <1>8

(* The calls of the threads.                                               *)
LEMMA FindSenderVariables ==
  ASSUME TypeOK, LastCurrent, AppliedCurrent,
         NEW c \in Caller, FindSender(c) \/ GiveUp(c)
  PROVE  LastCurrent' /\ AppliedCurrent'
<1>1. UNCHANGED <<queue, pending, external, doing, runtime, unseen>>
  BY DEF FindSender, GiveUp
<1>2. \A d \in Caller : step'[d] \in {"asking", "sending"} <=> step[d] \in {"asking", "sending"}
  BY DEF TypeOK, FindSender, GiveUp, Return
<1>3. \A n : (InHand(n)' <=> InHand(n)) /\ (Last(n) => Last(n)')
  BY <1>1, <1>2, InHandSame, LastSame
<1>4. \A n \in Name : Due(n)' => Due(n)
  BY <1>1, <1>3 DEF Due, OneRegistrant, Registers
<1>5. LastCurrent'
  BY <1>3, <1>4, DueLast DEF LastCurrent, Due, Last
<1>6. AppliedCurrent'
  BY <1>1, <1>3 DEF AppliedCurrent, OneRegistrant, Registers
<1> QED
  BY <1>5, <1>6

LEMMA FindNoSenderVariables ==
  ASSUME TypeOK, Stages, LastCurrent, AppliedCurrent, NEW c \in Caller, FindNoSender(c)
  PROVE  LastCurrent' /\ AppliedCurrent'
<1> DEFINE Its(n) == doing[c].kind = "variable" /\ doing[c].name = n
<1>1. /\ UNCHANGED <<queue, pending, external, doing, runtime>> /\ ~sender
      /\ unseen' = unseen \cup {n \in Name : Its(n)}
      /\ \A d \in Caller \ {c} : step'[d] = step[d]
  BY DEF TypeOK, FindNoSender, Return
<1>2. \A n : ~Its(n) => (InHand(n)' <=> InHand(n))
  BY <1>1, InHandOther
<1>3. \A n : Last(n) => Last(n)'
  BY <1>1, LastSame
<1>4. ASSUME NEW n \in Name, Due(n)'
      PROVE  Last(n)'
  <2>1. CASE runtime = "starting"
    <3>1. queue' = << >>
      BY <1>1, <2>1 DEF Stages
    <3> QED
      BY <3>1 DEF Last
  <2>2. CASE runtime # "starting"
    <3>1. n \notin unseen' /\ ~Its(n)
      BY <1>1, <1>4, <2>2 DEF Due
    <3>2. Due(n)
      BY <1>1, <1>2, <1>4, <3>1 DEF Due, OneRegistrant, Registers
    <3> QED
      BY <1>3, <3>2, DueLast
  <2> QED
    BY <2>1, <2>2
<1>5. LastCurrent'
  BY <1>4 DEF LastCurrent, Due, Last
<1>6. AppliedCurrent'
  BY <1>1, <1>2 DEF AppliedCurrent, OneRegistrant, Registers
<1> QED
  BY <1>5, <1>6

LEMMA SendVariables ==
  ASSUME TypeOK, Stages, Calling, Staged, LastCurrent, AppliedCurrent,
         NEW c \in Caller, Send(c)
  PROVE  LastCurrent' /\ AppliedCurrent'
<1> DEFINE Its(n) == doing[c].kind = "variable" /\ doing[c].name = n
<1>1. /\ UNCHANGED <<pending, external, doing, runtime, unseen>> /\ step[c] = "sending"
      /\ queue' = IF receiving THEN Append(queue, MessageOf(c)) ELSE queue
      /\ \A d \in Caller \ {c} : step'[d] = step[d]
  BY DEF TypeOK, Send, Enqueue, Return
<1>2. /\ MessageOf(c) \in Message
      /\ MessageOf(c).kind = doing[c].kind /\ MessageOf(c).body = doing[c]
  BY <1>1, OwnMessage
<1>3. ASSUME NEW n \in Name, ~Its(n)
      PROVE  /\ InHand(n)' <=> InHand(n)
             /\ Last(n) => Last(n)'
             /\ \A k \in DOMAIN queue : k \in DOMAIN queue' /\ queue'[k] = queue[k]
  <2>1. InHand(n)' <=> InHand(n)
    BY <1>1, <1>3, InHandOther
  <2>2. ~About(MessageOf(c), n)
    BY <1>2, <1>3 DEF About
  <2>3. Last(n) => Last(n)'
    BY <1>1, <1>2, <2>2, LastSame, LastOther
  <2>4. \A k \in DOMAIN queue : k \in DOMAIN queue' /\ queue'[k] = queue[k]
    <3>1. queue \in Seq(Message)
      BY DEF TypeOK
    <3>2. CASE receiving
      BY <1>1, <1>2, <3>1, <3>2, AppendFacts
    <3>3. CASE ~receiving
      BY <1>1, <3>3
    <3> QED
      BY <3>2, <3>3
  <2> QED
    BY <2>1, <2>3, <2>4
<1>4. ASSUME NEW n \in Name, Its(n), OneRegistrant(n), runtime \in {"starting", "loading", "serving"}
      PROVE  Last(n)' /\ \E k \in DOMAIN queue' : About(queue'[k], n)
  <2>1. About(MessageOf(c), n) /\ queue' = Append(queue, MessageOf(c))
    BY <1>1, <1>2, <1>4 DEF About, Stages
  <2>2. MessageOf(c).body.value = pending'[n]
    BY <1>1, <1>2, <1>4 DEF Staged
  <2> QED
    BY <1>2, <2>1, <2>2, LastAbout
<1>5. ASSUME NEW n \in Name, Due(n)'
      PROVE  Last(n)'
  <2>1. OneRegistrant(n) /\ runtime \in {"starting", "loading", "serving"}
    BY <1>1, <1>5 DEF Due, OneRegistrant, Registers
  <2>2. CASE Its(n)
    BY <1>4, <2>1, <2>2
  <2>3. CASE ~Its(n)
    <3>1. Due(n)
      BY <1>1, <1>3, <1>5, <2>1, <2>3 DEF Due
    <3> QED
      BY <1>3, <2>3, <3>1, DueLast
  <2> QED
    BY <2>2, <2>3
<1>6. LastCurrent'
  BY <1>5 DEF LastCurrent, Due, Last
<1>7. ASSUME NEW n \in Name, n \notin unseen, runtime \in {"loading", "serving"},
             OneRegistrant(n), ~InHand(n)', \A k \in DOMAIN queue' : ~About(queue'[k], n)
      PROVE  external[n] = pending[n]
  <2>1. ~Its(n)
    BY <1>4, <1>7
  <2> QED
    BY <1>3, <1>7, <2>1 DEF AppliedCurrent
<1>8. AppliedCurrent'
  BY <1>1, <1>7 DEF AppliedCurrent, OneRegistrant, Registers, About, InHand
<1> QED
  BY <1>6, <1>8

LEMMA BeginVariables ==
  ASSUME TypeOK, LastCurrent, AppliedCurrent,
         NEW c \in Caller, NEW r \in Duty[c], Begin(c, r)
  PROVE  LastCurrent' /\ AppliedCurrent'
<1> DEFINE Its(n) == r.kind = "variable" /\ r.name = n
<1>1. /\ UNCHANGED <<queue, external, runtime, unseen>>
      /\ step[c] = "idle" /\ step'[c] = "asking" /\ doing'[c] = r
      /\ \A d \in Caller \ {c} : step'[d] = step[d] /\ doing'[d] = doing[d]
      /\ pending' = IF r.kind = "variable" THEN [pending EXCEPT ![r.name] = r.value] ELSE pending
  BY DEF TypeOK, Begin
<1>2. \A n \in Name : Its(n) => InHand(n)'
  BY <1>1 DEF InHand
<1>3. ASSUME NEW n \in Name, ~Its(n)
      PROVE  (InHand(n)' <=> InHand(n)) /\ pending'[n] = pending[n]
  <2>1. InHand(n)' <=> InHand(n)
    BY <1>1, <1>3 DEF InHand
  <2>2. pending'[n] = pending[n]
    BY <1>1, <1>3 DEF TypeOK
  <2> QED
    BY <2>1, <2>2
<1>4. ASSUME NEW n \in Name, Due(n)'
      PROVE  Last(n)'
  <2>1. ~Its(n) /\ ~InHand(n)'
    BY <1>2, <1>4 DEF Due
  <2>2. Due(n)
    BY <1>1, <1>3, <1>4, <2>1 DEF Due, OneRegistrant, Registers
  <2> QED
    BY <1>1, <1>3, <2>1, <2>2, DueLast, LastSame
<1>5. LastCurrent'
  BY <1>4 DEF LastCurrent, Due, Last
<1>6. AppliedCurrent'
  BY <1>1, <1>2, <1>3 DEF AppliedCurrent, OneRegistrant, Registers
<1> QED
  BY <1>5, <1>6

LEMMA VariablesKeep ==
  ASSUME TypeOK, Stages, Calling, Staged, LastCurrent, AppliedCurrent, [Next]_vars
  PROVE  LastCurrent' /\ AppliedCurrent'
<1>1. CASE Drops \/ ServeShutdown \/ Serve(TRUE)
  <2>1. runtime' \in {"ending", "quitting"}
    BY <1>1, DropsKeeps DEF ServeShutdown, AfterShutdown, Serve
  <2> QED
    BY <2>1 DEF LastCurrent, AppliedCurrent
<1>2. CASE UNCHANGED vars
  BY <1>2 DEF vars, LastCurrent, AppliedCurrent, IsLast, About, InHand, OneRegistrant, Registers
<1>3. CASE Quiet
  BY <1>3, QuietVariables
<1>4. CASE ApplyVariables
  BY <1>4, ApplyVariablesKeeps
<1>5. CASE SendShutdown
  BY <1>5, SendShutdownKeeps
<1>6. CASE Serve(FALSE) \/ ServeHook
  BY <1>6, ServingVariables
<1>7. ASSUME NEW c \in Caller,
             FindSender(c) \/ FindNoSender(c) \/ Send(c) \/ GiveUp(c) \/ \E r \in Duty[c] : Begin(c, r)
      PROVE  LastCurrent' /\ AppliedCurrent'
  BY <1>7, FindSenderVariables, FindNoSenderVariables, SendVariables, BeginVariables
<1> QED
  BY <1>1, <1>2, <1>3, <1>4, <1>5, <1>6, <1>7, Steps

-----------------------------------------------------------------------------

\* All of the above holds in every state of the modloader's threads.
THEOREM ControlInvariant == Spec => []ControlInv
<1>1. Init => ControlInv
  BY InitInv
<1>2. ControlInv /\ [Next]_vars => ControlInv'
  <2> SUFFICES ASSUME ControlInv, [Next]_vars PROVE ControlInv'
    OBVIOUS
  <2>1. TypeOK' /\ Stages' /\ Calling'
    BY TypeKeeps, StagesKeeps, CallingKeeps DEF ControlInv
  <2>2. Orders' /\ NothingYet' /\ AcceptedNotLost' /\ AnswerIsForThisCall'
    BY OrdersKeeps, NothingYetKeeps, AcceptedKeeps, AnswersKeeps DEF ControlInv
  <2>3. Staged' /\ LastCurrent' /\ AppliedCurrent'
    BY StagedKeeps, VariablesKeep DEF ControlInv
  <2> QED
    BY <2>1, <2>2, <2>3 DEF ControlInv
<1> QED
  BY <1>1, <1>2, PTL DEF Spec

\* Only requests of its own kinds are in the channel and answered.
THEOREM TypeCorrect == Spec => []TypeOK
<1>1. ControlInv => TypeOK
  BY DEF ControlInv
<1> QED
  BY <1>1, ControlInvariant, PTL

\* The addons are run for each accepted call once, in the order of a thread's
\* calls, and for every event the caller was told is queued, while the runtime
\* receives (core.rs, the channel and the loop).
THEOREM AcceptedAreServed == Spec => []ServedAsAccepted
<1>1. ControlInv => ServedAsAccepted
  BY DEF ControlInv, Orders, Before, ServedAsAccepted, ServedInCallOrder
<1> QED
  BY <1>1, ControlInvariant, PTL

\* A hook acts on a decision made for this run into it, however many runs
\* before it timed out (dispatch_hook_event_sync).
THEOREM AnswersCorrect == Spec => []AnswerIsForThisCall
<1>1. ControlInv => AnswerIsForThisCall
  BY DEF ControlInv
<1> QED
  BY <1>1, ControlInvariant, PTL

\* At rest the addons see the value registered last, however the registration
\* met the startup of the runtime (register_engine_variable).
THEOREM VariablesCorrect == Spec => []VariablesCurrent
<1>1. ControlInv => VariablesCurrent
  <2> SUFFICES ASSUME ControlInv, runtime = "serving",
                      NEW n \in Name \ unseen, OneRegistrant(n), ~OnItsWay(n)
               PROVE  external[n] = pending[n]
    BY DEF VariablesCurrent
  <2>1. ~InHand(n) /\ \A k \in DOMAIN queue : ~About(queue[k], n)
    BY DEF OnItsWay, InHand, About
  <2> QED
    BY <2>1 DEF ControlInv, AppliedCurrent
<1> QED
  BY <1>1, ControlInvariant, PTL

-----------------------------------------------------------------------------
(* Each step of the threads is one of the lifecycle, or leaves it alone.   *)

LEMMA ServeStep ==
  ASSUME TypeOK, runtime = "serving", queue # << >>, UNCHANGED <<host, ready>>,
         served' = Append(served, Head(queue)),
         runtime' \in IF Head(queue) = Shutdown THEN {"quitting"} ELSE {"serving", "ending"}
  PROVE  Lifecycle!Next
<1>1. Head(queue) \in Message
  BY TailFacts DEF TypeOK
<1>2. Lifecycle!Serve(Head(queue))
  BY DEF Lifecycle!Serve
<1> QED
  BY <1>1, <1>2 DEF Lifecycle!Next

LEMMA LifecycleStep ==
  ASSUME ControlInv, [Next]_vars
  PROVE  [Lifecycle!Next]_Lifecycle!vars
<1> USE DEF Lifecycle!vars
<1>1. CASE Spawn
  <2>1. runtime = "absent" /\ runtime' = "starting" /\ UNCHANGED <<ready, served>>
        /\ host = "start" /\ host' = "spawned"
    BY <1>1 DEF ControlInv, Stages, Spawn
  <2> QED
    BY <2>1 DEF Lifecycle!Next, Lifecycle!Start
<1>2. CASE SpawnFails \/ StoreSender \/ InitReturns \/ BeginUnload
  BY <1>2 DEF SpawnFails, StoreSender, InitReturns, BeginUnload
<1>3. CASE Unload
  BY <1>3 DEF Unload, Joined, Lifecycle!Next, Lifecycle!Unload
<1>4. CASE FinishLoading
  BY <1>4 DEF FinishLoading, Lifecycle!Next, Lifecycle!Ready
<1>5. CASE ThreadEnds
  BY <1>5 DEF ThreadEnds, ReportError, Lifecycle!Next, Lifecycle!End
<1>6. CASE NothingToServe
  BY <1>6 DEF NothingToServe, Lifecycle!Next, Lifecycle!Finish
<1>7. CASE \E panic \in BOOLEAN : Break(panic)
  BY <1>7 DEF Break, Lifecycle!Next, Lifecycle!Break
<1>8. CASE QuitReturns
  BY <1>8 DEF QuitReturns
<1>9. CASE ApplyVariables
  BY <1>9 DEF ApplyVariables
<1>10. CASE SendShutdown
  BY <1>10 DEF SendShutdown
<1>11. CASE ServeShutdown
  BY <1>11, ServeStep DEF ControlInv, ServeShutdown, AfterShutdown
<1>12. CASE (\E fails \in BOOLEAN : Serve(fails)) \/ ServeHook
  <2>1. Head(queue) # Shutdown
    BY <1>12 DEF Serve, ServeHook, Shutdown
  <2> QED
    BY <1>12, <2>1, ServeStep DEF ControlInv, Serve, ServeHook
<1>13. ASSUME NEW c \in Caller,
              FindSender(c) \/ FindNoSender(c) \/ Send(c) \/ GiveUp(c) \/ \E r \in Duty[c] : Begin(c, r)
       PROVE  UNCHANGED Lifecycle!vars
  BY <1>13 DEF FindSender, FindNoSender, Send, GiveUp, Begin
<1>14. CASE UNCHANGED vars
  BY <1>14 DEF vars
<1> QED
  BY <1>1, <1>2, <1>3, <1>4, <1>5, <1>6, <1>7, <1>8, <1>9, <1>10, <1>11, <1>12,
     <1>13, <1>14, Steps DEF Quiet, Drops

\* The threads together keep what the modloader promises its host: started and
\* reported once, served only in between, gone before the library is
\* (load_mods_from_addons, shutdown_before_unload).
THEOREM LifecycleImplemented == Spec => ImplementsLifecycle
<1>1. Init => Lifecycle!Init
  BY DEF Init, Lifecycle!Init
<1>2. ControlInv /\ [Next]_vars => [Lifecycle!Next]_Lifecycle!vars
  BY LifecycleStep
<1> QED
  BY <1>1, <1>2, ControlInvariant, PTL DEF Spec, ImplementsLifecycle, Lifecycle!Spec
=============================================================================
