------------------------------ MODULE HookDispatch ------------------------------
(***************************************************************************)
(* Threads of the game that run into hooks while the runtime thread makes  *)
(* and removes them (cccaster/src/hook.rs, createDetour and removeDetour   *)
(* of wrapper/src/api.cpp).  Nobody is suspended: processSuspendGuard      *)
(* returns at once, so game code is run while it is written.               *)
(*                                                                         *)
(* An address above the module base is meant as it is, one below it as an  *)
(* offset into the game (resolveAddress): an addon may spell a site either *)
(* way, and a trampoline below the base is taken for what lies elsewhere.  *)
(*                                                                         *)
(* Who makes which hooks is the subject of ModPatches, how a thread waits  *)
(* for its answer that of ControlPlane.  Code is not run byte by byte: a   *)
(* thread that meets half a write, freed memory or a misplaced instruction *)
(* is lost, and what happens to the game then is not followed.             *)
(***************************************************************************)
EXTENDS Integers

CONSTANTS
  None,
  Thread,      \* threads of the game
  Site,        \* call sites, ten bytes of game code each
  Key,         \* what addons write for them: the sites themselves and offsets
  SiteOf,      \* Key -> Site: resolveAddress
  Address,     \* where VirtualAlloc may put a trampoline
  Low,         \* those below the module base
  Behind,      \* Low -> sites and trampolines that resolveAddress finds for it
  Register,    \* what pushad saves and a decision may name
  Decision,    \* what handlers may answer: [registers, run, bytes]
  MaxDetours   \* bound: detours made

ASSUME DecisionAssumption ==
  /\ {"ecx", "edx", "esp"} \subseteq Register
  /\ Site \subseteq Key /\ SiteOf \in [Key -> Site]
  /\ \A s \in Site : SiteOf[s] = s
  /\ Site \cap Address = {} /\ Low \subseteq Address
  /\ Behind \in [Low -> SUBSET (Site \cup (Address \ Low))]
  /\ Decision \subseteq [registers : SUBSET Register, run : BOOLEAN,
                         bytes : {None, "fitting", "other"}]
  /\ MaxDetours \in Nat

Game == 0    \* what is at a site besides detours, which count from one:
Torn == -1   \* the game's own code, or half a write

VARIABLES
  code,        \* Site -> Game, Torn, or the detour that is there
  detours,     \* g_detours: handle -> [site, original, trampoline]
  trampoline,  \* Address -> None or [site, copied, bytes, by]: for which site,
               \*   a copy of what, and who gave the bytes that are there
  hooks,       \* HOOKS: key -> [handle, address, readable]
  owned,       \* how often the addons will unregister a key
  job,         \* what the runtime thread is doing
  handle,      \* g_nextDetourHandle
  at,          \* Thread -> where it is
  frame,       \* Thread -> its call of a hook
  \* What the properties compare the state with; the code keeps none of it.
  raced,       \* threads whose call met a write to what it runs or looks up
  botched,     \* sites hooked twice over, or whose detour stayed
  leaked,      \* trampolines VirtualFree did not free
  stale,       \* trampolines written by a thread that raced
  crossed,     \* sites hooked under two spellings at once
  strayed      \* sites and trampolines hit by the override of a low trampoline

runtimeVars == <<detours, hooks, owned, job, handle, botched, leaked, crossed>>
vars == <<code, detours, trampoline, hooks, owned, job, handle, at, frame,
          raced, botched, leaked, stale, crossed, strayed>>

-----------------------------------------------------------------------------
NoJob == [op |-> "none", key |-> None, site |-> None]
NoFrame == [site |-> None, meta |-> None, answer |-> None, target |-> None, entered |-> None]

Put(f, x, value) == [y \in DOMAIN f \cup {x} |-> IF y = x THEN value ELSE f[y]]
Without(f, x) == [y \in DOMAIN f \ {x} |-> f[y]]

InCall(s) == {t \in Thread : at[t] # "away" /\ frame[t].site = s}
Inside(a) == {t \in Thread : at[t] = "trampoline" /\ frame[t].target = a}

Init ==
  /\ code = [s \in Site |-> Game]
  /\ detours = << >> /\ hooks = << >>
  /\ trampoline = [a \in Address |-> None]
  /\ owned = [k \in Key |-> 0]
  /\ job = NoJob
  /\ handle = 0
  /\ at = [t \in Thread |-> "away"]
  /\ frame = [t \in Thread |-> NoFrame]
  /\ raced = {} /\ botched = {} /\ leaked = {} /\ stale = {}
  /\ crossed = {} /\ strayed = {}

-----------------------------------------------------------------------------
(* The runtime thread makes a hook.                                        *)

(* createDetour, down to the write.  One that fails changes nothing.       *)
CreateDetour(k, a) ==
  LET s == SiteOf[k]
  IN
  /\ job = NoJob /\ handle < MaxDetours
  /\ trampoline[a] = None
  /\ trampoline' = [trampoline EXCEPT
                      ![a] = [site |-> s, copied |-> code[s], bytes |-> "fitting", by |-> s]]
  /\ code' = [code EXCEPT ![s] = Torn]
  /\ job' = [op |-> "create", key |-> k, site |-> s, address |-> a, original |-> code[s]]
  /\ handle' = handle + 1
  /\ raced' = raced \cup InCall(s)
  /\ botched' = IF code[s] = Game THEN botched ELSE botched \cup {s}
  /\ crossed' = IF \E j \in DOMAIN hooks : j # k /\ SiteOf[j] = s
                THEN crossed \cup {s} ELSE crossed
  /\ stale' = stale \ {a} /\ strayed' = strayed \ {a}
  /\ UNCHANGED <<detours, hooks, owned, at, frame, leaked>>

FinishDetour ==
  /\ job.op = "create"
  /\ code' = [code EXCEPT ![job.site] = handle]
  /\ detours' = Put(detours, handle, [site |-> job.site, original |-> job.original,
                                      trampoline |-> job.address])
  /\ job' = [job EXCEPT !.op = "insert"]
  /\ UNCHANGED <<trampoline, hooks, owned, handle, at, frame, raced, botched, leaked, stale,
                 crossed, strayed>>

(* The rest of register_trampoline_hook, which keeps the address as it is  *)
(* spelled.  readMemory may read nothing for a low trampoline.             *)
InsertHook(readable) ==
  /\ job.op = "insert"
  /\ job.address \notin Low => readable
  /\ hooks' = Put(hooks, job.key,
                  [handle |-> handle, address |-> job.address, readable |-> readable])
  /\ owned' = [owned EXCEPT ![job.key] = @ + 1]
  /\ job' = NoJob
  /\ UNCHANGED <<code, detours, trampoline, handle, at, frame, raced, botched, leaked, stale,
                 crossed, strayed>>

-----------------------------------------------------------------------------
(* The runtime thread removes a hook.                                      *)

(* unregister_trampoline_hook: without metadata nothing more is done.      *)
Unregister(k) ==
  /\ job = NoJob /\ owned[k] > 0
  /\ owned' = [owned EXCEPT ![k] = @ - 1]
  /\ hooks' = Without(hooks, k)
  /\ job' = IF k \in DOMAIN hooks
            THEN [op |-> "remove", key |-> k, site |-> SiteOf[k], handle |-> hooks[k].handle]
            ELSE NoJob
  /\ raced' = raced \cup InCall(SiteOf[k])
  /\ UNCHANGED <<code, detours, trampoline, handle, at, frame, botched, leaked, stale,
                 crossed, strayed>>

(* removeDetour, down to the write, or without success.                    *)
RemoveDetour ==
  /\ job.op = "remove" /\ job.handle \in DOMAIN detours
  /\ code' = [code EXCEPT ![job.site] = Torn]
  /\ job' = [job EXCEPT !.op = "restore"]
  /\ UNCHANGED <<detours, trampoline, hooks, owned, handle, at, frame, raced, botched,
                 leaked, stale, crossed, strayed>>

KeepDetour ==
  /\ job.op = "remove"
  /\ job' = NoJob
  /\ botched' = botched \cup {job.site}
  /\ UNCHANGED <<code, detours, trampoline, hooks, owned, handle, at, frame, raced, leaked,
                 stale, crossed, strayed>>

\* Faulty: the record says what to write back, but nothing does.
Restore_Not ==
  /\ job.op = "restore"
  /\ code' = [code EXCEPT ![job.site] = job.handle]
  /\ job' = [job EXCEPT !.op = "free"]
  /\ UNCHANGED <<detours, trampoline, hooks, owned, handle, at, frame, raced, botched,
                 leaked, stale, crossed, strayed>>

Restore ==
  /\ job.op = "restore"
  /\ code' = [code EXCEPT ![job.site] = detours[job.handle].original]
  /\ job' = [job EXCEPT !.op = "free"]
  /\ UNCHANGED <<detours, trampoline, hooks, owned, handle, at, frame, raced, botched,
                 leaked, stale, crossed, strayed>>

\* Faulty: a trampoline that could not be freed keeps its record.
Free_Early(ok) ==
  LET a == detours[job.handle].trampoline
  IN
  /\ job.op = "free"
  /\ trampoline' = [trampoline EXCEPT ![a] = IF ok THEN None ELSE @]
  /\ job' = NoJob
  /\ leaked' = IF ok THEN leaked ELSE leaked \cup {a}
  /\ UNCHANGED <<code, detours, hooks, owned, handle, at, frame, raced, botched, stale,
                 crossed, strayed>>

(* A trampoline that is not freed is only reported.                        *)
Free(ok) ==
  LET a == detours[job.handle].trampoline
  IN
  /\ job.op = "free"
  /\ trampoline' = [trampoline EXCEPT ![a] = IF ok THEN None ELSE @]
  /\ detours' = Without(detours, job.handle)
  /\ job' = NoJob
  /\ leaked' = IF ok THEN leaked ELSE leaked \cup {a}
  /\ UNCHANGED <<code, hooks, owned, handle, at, frame, raced, botched, stale, crossed, strayed>>

-----------------------------------------------------------------------------
(* The game's threads.                                                     *)

Go(t, where) == at' = [at EXCEPT ![t] = where]

\* Where it is back in the game's code, or lost for it.
LeaveHook(t, well) ==
  /\ Go(t, IF well THEN "away" ELSE "lost")
  /\ frame' = [frame EXCEPT ![t] =
                 IF well THEN NoFrame
                 ELSE [NoFrame EXCEPT !.site = frame[t].site, !.target = frame[t].target]]
  /\ raced' = IF well THEN raced \ {t} ELSE raced

(* The thread comes to a call site: it runs the game's code, a detour that *)
(* is complete, or half a write.                                           *)
Arrive(t, s) ==
  /\ at[t] = "away"
  /\ Go(t, CASE code[s] = Game -> "site" [] code[s] = Torn -> "lost" [] OTHER -> "entry")
  /\ frame' = [frame EXCEPT ![t] = [NoFrame EXCEPT !.site = s]]
  /\ raced' = IF job.site = s THEN raced \cup {t} ELSE raced
  /\ UNCHANGED <<runtimeVars, code, trampoline, stale, strayed>>

(* It leaves the ten bytes of the site, if they are still what they were.  *)
PassSite(t) ==
  /\ at[t] = "site"
  /\ LeaveHook(t, code[frame[t].site] = Game)
  /\ UNCHANGED <<runtimeVars, code, trampoline, stale, strayed>>

\* Faulty: the metadata of the hook registered last.
LookUp_Last(t) ==
  LET last == {k \in DOMAIN hooks : \A j \in DOMAIN hooks : hooks[j].handle <= hooks[k].handle}
  IN
  /\ at[t] = "entry"
  /\ \/ /\ last # {}
        /\ frame' = [frame EXCEPT ![t].meta = hooks[CHOOSE k \in last : TRUE]]
        /\ Go(t, "waiting")
     \/ last = {} /\ Go(t, "returning") /\ UNCHANGED frame
  /\ UNCHANGED <<runtimeVars, code, trampoline, raced, stale, strayed>>

(* hook_dispatch takes a copy of the metadata of the address that the      *)
(* detour pushed, which is the resolved one, and asks the runtime, or      *)
(* gives up.                                                               *)
LookUp(t) ==
  /\ at[t] = "entry"
  /\ \/ /\ frame[t].site \in DOMAIN hooks
        /\ frame' = [frame EXCEPT ![t].meta = hooks[frame[t].site]]
        /\ Go(t, "waiting")
     \/ frame[t].site \notin DOMAIN hooks /\ Go(t, "returning") /\ UNCHANGED frame
  /\ UNCHANGED <<runtimeVars, code, trampoline, raced, stale, strayed>>

\* What handlers that fail, or answer nothing, have decided.
DefaultDecision == [registers |-> {}, run |-> FALSE, bytes |-> None]

(* The runtime thread runs the handlers: not in the middle of a job.       *)
Answer(t, d) ==
  /\ at[t] = "waiting" /\ frame[t].answer = None /\ job = NoJob
  /\ frame' = [frame EXCEPT ![t].answer = d]
  /\ UNCHANGED <<runtimeVars, code, trampoline, at, raced, stale, strayed>>

\* Faulty: bytes are not compared with what they replace.
Fits_Always(t) == frame[t].answer.bytes # None /\ frame[t].meta.readable

(* The bytes have the length of those the metadata keeps: of none, when    *)
(* the trampoline could not be read.                                       *)
Fits(t) == frame[t].answer.bytes = "fitting" /\ frame[t].meta.readable

Target(t) == IF frame[t].answer.run THEN frame[t].meta.address ELSE None

Receive(t) ==
  /\ at[t] = "waiting" /\ frame[t].answer # None
  /\ frame' = [frame EXCEPT ![t].target = Target(t)]
  /\ Go(t, IF Fits(t) THEN "overriding" ELSE "returning")
  /\ UNCHANGED <<runtimeVars, code, trampoline, raced, stale, strayed>>

\* Faulty: the call stays where it is known to nobody.
GiveUp_Stuck(t) ==
  /\ at[t] = "waiting" /\ frame[t].answer = None
  /\ Go(t, "timed out")
  /\ UNCHANGED <<runtimeVars, code, trampoline, frame, raced, stale, strayed>>

(* The runtime has ended, failed, or took more than 50 ms.                 *)
GiveUp(t) ==
  /\ at[t] = "waiting" /\ frame[t].answer = None
  /\ Go(t, "returning")
  /\ UNCHANGED <<runtimeVars, code, trampoline, frame, raced, stale, strayed>>

(* write_memory to the address in the metadata: to whatever trampoline is  *)
(* there, to nothing if it was freed.  Instead of a low trampoline it hits *)
(* what resolveAddress finds, as far as its pages are writable, which the  *)
(* game's code is not but while it is patched; that the bytes of other     *)
(* memory change is not followed.                                          *)
Override(t, hit) ==
  LET a == frame[t].meta.address
      written == {b \in hit \cap Address : trampoline[b] # None}
  IN
  /\ at[t] = "overriding"
  /\ IF a \in Low THEN hit \subseteq Behind[a] ELSE hit = {a}
  /\ trampoline' = [b \in Address |->
                      IF b \in written
                      THEN [trampoline[b] EXCEPT !.bytes = frame[t].answer.bytes,
                                                 !.by = frame[t].site]
                      ELSE trampoline[b]]
  /\ code' = [s \in Site |-> IF s \in hit THEN Torn ELSE code[s]]
  /\ strayed' = IF a \in Low THEN strayed \cup written \cup (hit \cap Site) ELSE strayed
  /\ raced' = IF a \in written THEN raced \cup Inside(a) ELSE raced
  /\ stale' = IF a \in written /\ t \in raced THEN stale \cup {a} ELSE stale
  /\ Go(t, "returning")
  /\ UNCHANGED <<runtimeVars, frame>>

(* hook_entry goes on behind the site, or to the trampoline.               *)
Return(t) ==
  LET a == frame[t].target
  IN
  /\ at[t] = "returning"
  /\ \/ a = None /\ LeaveHook(t, TRUE)
     \/ a # None /\ trampoline[a] = None /\ LeaveHook(t, FALSE)
     \/ /\ a # None /\ trampoline[a] # None
        /\ frame' = [frame EXCEPT ![t].entered = trampoline[a], ![t].meta = None,
                                  ![t].answer = None]
        /\ Go(t, "trampoline")
        /\ UNCHANGED raced
  /\ UNCHANGED <<runtimeVars, code, trampoline, stale, strayed>>

(* The registers as hook_entry leaves them: popad does not load the stack  *)
(* pointer, and the way out goes through ecx and edx.                      *)
RegistersAfter(t) ==
  LET set == IF frame[t].answer = None THEN {} ELSE frame[t].answer.registers
  IN [r \in Register |->
        CASE r \in {"ecx", "edx"} -> "overwritten"
          [] r \in set \ {"ecx", "edx", "esp"} -> "decided"
          [] OTHER -> "kept"]

(* The trampoline runs through when nothing was done to it meanwhile, it   *)
(* holds a copy of this site's code, of the right length, and not of       *)
(* another detour, whose call is relative to where it was.                 *)
Leave(t) ==
  LET e == frame[t].entered
  IN
  /\ at[t] = "trampoline"
  /\ LeaveHook(t, /\ trampoline[frame[t].target] = e
                  /\ e.site = frame[t].site /\ e.by = e.site
                  /\ e.copied = Game /\ e.bytes = "fitting")
  /\ UNCHANGED <<runtimeVars, code, trampoline, stale, strayed>>

-----------------------------------------------------------------------------
Runtime ==
  \/ \E k \in Key : Unregister(k) \/ \E a \in Address : CreateDetour(k, a)
  \/ FinishDetour \/ RemoveDetour \/ KeepDetour \/ Restore
  \/ \E ok \in BOOLEAN : InsertHook(ok) \/ Free(ok)
  \/ \E t \in Thread : \E d \in Decision \cup {DefaultDecision} : Answer(t, d)

CallGoesOn(t) ==
  \/ PassSite(t) \/ LookUp(t) \/ Receive(t) \/ GiveUp(t) \/ Return(t) \/ Leave(t)
  \/ \E hit \in SUBSET (Site \cup Address) : Override(t, hit)

Next ==
  \/ Runtime
  \/ \E t \in Thread : CallGoesOn(t) \/ \E s \in Site : Arrive(t, s)

Spec == Init /\ [][Next]_vars

-----------------------------------------------------------------------------
Metadata == [handle : 1 .. MaxDetours, address : Address, readable : BOOLEAN]
Trampoline == [site : Site, copied : Int, bytes : {None, "fitting", "other"}, by : Site]

ASSUME NoneAssumption ==
  None \notin Site \cup Address \cup Metadata \cup Trampoline \cup Decision \cup {DefaultDecision}

TypeOK ==
  /\ \A s \in Site : code[s] \in {Game, Torn} \/ code[s] \in 1 .. handle
  /\ DOMAIN detours \subseteq 1 .. handle
  /\ \A h \in DOMAIN detours : detours[h].trampoline \in Address /\ detours[h].site \in Site
  /\ DOMAIN hooks \subseteq Key
  /\ \A k \in DOMAIN hooks : hooks[k] \in Metadata
  /\ owned \in [Key -> 0 .. MaxDetours]
  /\ job.op \in {"none", "create", "insert", "remove", "restore", "free"}
  /\ handle \in 0 .. MaxDetours
  /\ at \in [Thread -> {"away", "site", "entry", "waiting", "overriding", "returning",
                        "trampoline", "lost"}]
  /\ \A t \in Thread : /\ frame[t].meta = None \/ frame[t].meta \in Metadata
                       /\ frame[t].answer = None \/ frame[t].answer \in Decision \cup {DefaultDecision}
  /\ raced \subseteq Thread /\ botched \cup crossed \subseteq Site
  /\ leaked \cup stale \subseteq Address /\ strayed \subseteq Site \cup Address

(* A thread that comes to a hook finds its handlers, so that the game's    *)
(* own instructions are not skipped for want of metadata, except while     *)
(* this hook is being made or removed, or after a removal that failed or   *)
(* was of another hook at the site (register_trampoline_hook and           *)
(* unregister_trampoline_hook write code and metadata in separate steps),  *)
(* and but for hooks spelled as an offset and sites hit by a stray write.  *)
HandlersFound ==
  \A t \in Thread :
    LET s == frame[t].site
    IN at[t] = "returning" /\ t \notin raced /\ s \notin botched \cup strayed =>
         frame[t].meta # None \/ \E k \in DOMAIN hooks \ Site : SiteOf[k] = s

(* The game's threads are safe from hooks: whatever hooks are made,        *)
(* removed and answered meanwhile, a thread loses its way only when the    *)
(* very code or trampoline it is in is written or freed during its call,   *)
(* at a site that was hooked over a hook, or where a stray write has hit   *)
(* (the length check of hook_dispatch, one trampoline per detour, and the  *)
(* order of the writes in createDetour and removeDetour).                  *)
LostOnlyInRaces ==
  \A t \in Thread :
    at[t] = "lost" =>
      \/ t \in raced \/ frame[t].site \in botched \cup strayed
      \/ frame[t].target # None /\ frame[t].target \in stale \cup strayed

(* The game goes on as if its code had been there all along.               *)
ThreadsKeepTheirWay == HandlersFound /\ LostOnlyInRaces

(* A hook has handlers whichever way its address is spelled: "Runtime APIs *)
(* for [...] byte patches, and detour hooks" (README.md:40) all take an    *)
(* offset from the module base for an address (resolveAddress).            *)
SpellingsAlike ==
  \A t \in Thread :
    at[t] = "returning" /\ t \notin raced /\ frame[t].site \notin botched \cup strayed =>
      frame[t].meta # None

(* What a decision writes goes to the trampoline of its own call site,     *)
(* also when trampolines are freed and their memory is used again, unless  *)
(* the hook was made or removed during the call (hook_dispatch writes to   *)
(* the address in its copy of the metadata), or its trampoline is below    *)
(* the module base.                                                        *)
OverridesStayHome ==
  \A a \in Address :
    trampoline[a] # None /\ a \notin stale \cup strayed =>
      trampoline[a].by = trampoline[a].site

(* The same wherever VirtualAlloc puts it: the "trampoline_bytes" of a     *)
(* HookDecision are those of the hook in its HookContext                   *)
(* (addons/core/engine-types.luau:27, :33), and nothing else is written.   *)
LowOverridesStayHome ==
  /\ \A a \in Address :
       trampoline[a] # None /\ a \notin stale => trampoline[a].by = trampoline[a].site
  /\ \A s \in Site : code[s] = Torn => job.site = s

(* Each trampoline belongs to one detour that will free it, and each       *)
(* detour in the game's code, or under another one there, is recorded and  *)
(* has its trampoline (g_detours against the code, through failed          *)
(* removals; VirtualFree may fail), but at a site that was hooked under    *)
(* two spellings, whose hooks may be removed in any order, and where a     *)
(* stray write has hit.                                                    *)
TrampolinesOwned ==
  LET kept == {h \in DOMAIN detours : job.op # "free" \/ h # job.handle}
      behind(s) == {code[s]} \cup {detours[h].original : h \in {k \in kept : detours[k].site = s}}
  IN /\ \A h, k \in DOMAIN detours : detours[h].trampoline = detours[k].trampoline => h = k
     /\ {detours[h].trampoline : h \in DOMAIN detours}
          = {a \in Address \ leaked : trampoline[a] # None}
              \ IF job.op = "create" THEN {job.address} ELSE {}
     /\ \A s \in Site \ (crossed \cup strayed) : behind(s) \ {Game, Torn} \subseteq kept

(* After a hook every register has the value the decision gives it, or the *)
(* one the game had: HookDecision has "registers: HookRegisters?", of all  *)
(* eight from eax to esp (addons/core/engine-types.luau:32, :11-20), which *)
(* hook_dispatch stores in the frame.                                      *)
RegistersAsDecided ==
  \A t \in Thread :
    at[t] = "returning" =>
      \A r \in Register :
        RegistersAfter(t)[r] =
          IF frame[t].answer # None /\ r \in frame[t].answer.registers THEN "decided" ELSE "kept"
=============================================================================
