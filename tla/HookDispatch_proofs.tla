---------------------- MODULE HookDispatch_proofs ----------------------
(***************************************************************************)
(* Proofs about HookDispatch, for every set of threads, call sites, ways   *)
(* to spell them, addresses and decisions: a thread of the game loses its  *)
(* way or misses its handlers only in a race with a write to the hook it   *)
(* is in, or for one of the reasons the properties name, what a decision   *)
(* writes goes to the trampoline of its own site, and each trampoline      *)
(* belongs to one detour.                                                  *)
(*                                                                         *)
(* What makes them inductive: at a sound site, which no stray write has    *)
(* hit and which was never hooked under two spellings, each detour is      *)
(* named once, by the code or by the detour made over it, and the metadata *)
(* name the one in the code; a thread that met no write during its call    *)
(* still has the metadata it found, or what it found in the code.          *)
(***************************************************************************)
EXTENDS HookDispatch, TLAPS

Handles == 1 .. handle
Decisions == Decision \cup {DefaultDecision}

Detour == [site : Site, original : Int, trampoline : Address]
Frame == [site : Site \cup {None}, meta : Metadata \cup {None}, answer : Decisions \cup {None},
          target : Address \cup {None}, entered : Trampoline \cup {None}]
MakingJob ==
  [op : {"create", "insert"}, key : Key, site : Site, address : Address, original : Int]
RemovingJob ==
  [op : {"remove", "restore", "free"}, key : Key, site : Site, handle : 1 .. MaxDetours]

Making == job.op \in {"create", "insert"}
Removing == job.op \in {"remove", "restore", "free"}
Sound == Site \ (crossed \cup strayed)

(* Types, how many hooks may be owed to the addons, and that a site hooked *)
(* under two spellings is one that was hooked over a hook.                 *)
Shapes ==
  /\ code \in [Site -> Int] /\ \A s \in Site : code[s] \in {Game, Torn} \cup Handles
  /\ DOMAIN detours \subseteq Handles /\ \A h \in DOMAIN detours : detours[h] \in Detour
  /\ \A h \in DOMAIN detours : detours[h].original \in {Game, Torn} \cup Handles
  /\ Making => job.original \in {Game, Torn} \cup Handles
  /\ trampoline \in [Address -> Trampoline \cup {None}]
  /\ DOMAIN hooks \subseteq Key /\ \A k \in DOMAIN hooks : hooks[k] \in Metadata
  /\ owned \in [Key -> Nat]
  /\ \A k \in Key : owned[k] <= handle /\ (Making => owned[k] < handle)
  /\ job \in {NoJob} \cup MakingJob \cup RemovingJob /\ handle \in 0 .. MaxDetours
  /\ at \in [Thread -> {"away", "site", "entry", "waiting", "overriding", "returning",
                        "trampoline", "lost"}]
  /\ frame \in [Thread -> Frame]
  /\ raced \subseteq Thread /\ botched \subseteq Site
  /\ leaked \subseteq Address /\ stale \subseteq Address
  /\ strayed \subseteq Site \cup Address
  /\ crossed \subseteq Site /\ crossed \subseteq botched \cup strayed

Kept == {h \in DOMAIN detours : job.op = "free" => h # job.handle}
At(s) == {h \in Kept : detours[h].site = s}
HooksOf(s) == {k \in DOMAIN hooks : SiteOf[k] = s}

(* h is neither in the code of s nor under another detour there.           *)
Unnamed(s, h) == code[s] # h /\ \A k \in At(s) : detours[k].original # h

(* Where the runtime thread is in making or removing a detour.             *)
JobStands ==
  /\ job.op = "create" =>
       /\ handle > 0 /\ handle \notin DOMAIN detours /\ job.address \notin leaked
       /\ trampoline[job.address] # None
       /\ trampoline[job.address].site = job.site
       /\ trampoline[job.address].copied = job.original
       /\ \A h \in DOMAIN detours : detours[h].trampoline # job.address
       /\ job.site \notin botched => job.original = Game
  /\ job.op = "insert" =>
       /\ handle \in DOMAIN detours /\ detours[handle].site = job.site
       /\ detours[handle].trampoline = job.address
       /\ \A k \in DOMAIN hooks : hooks[k].handle # handle
  /\ Making => SiteOf[job.key] = job.site
  /\ Removing =>
       /\ job.handle \in DOMAIN detours /\ detours[job.handle].site = job.site
       /\ \A k \in DOMAIN hooks : hooks[k].handle # job.handle

(* Each detour has a trampoline of its own.                                *)
DetoursStand ==
  /\ \A h \in DOMAIN detours :
       LET a == detours[h].trampoline
       IN /\ trampoline[a] # None /\ a \notin leaked
          /\ trampoline[a].site = detours[h].site
          /\ trampoline[a].copied = detours[h].original
  /\ \A h, k \in DOMAIN detours : detours[h].trampoline = detours[k].trampoline => h = k
  /\ \A h \in DOMAIN detours : detours[h].site \notin botched => detours[h].original = Game
  /\ \A a \in Address :
       trampoline[a] # None =>
         \/ a \in leaked \/ (job.op = "create" /\ a = job.address)
         \/ \E h \in DOMAIN detours : a = detours[h].trampoline
  /\ \A a \in leaked : trampoline[a] # None

(* The metadata of a key name a detour of its site, each another one.      *)
HooksStand ==
  /\ \A k \in DOMAIN hooks :
       LET h == hooks[k].handle
       IN h \in Kept /\ detours[h].site = SiteOf[k] /\ hooks[k].address = detours[h].trampoline
  /\ \A j, k \in DOMAIN hooks : hooks[j].handle = hooks[k].handle => j = k

(* Each detour at s is named once.                                         *)
NamedOnce(s) ==
  /\ code[s] \notin {Game, Torn} => code[s] \in At(s)
  /\ \A h \in At(s) :
       /\ detours[h].original # Torn
       /\ detours[h].original # Game =>
            detours[h].original \in At(s) /\ code[s] # detours[h].original
  /\ \A h, k \in At(s) :
       detours[h].original = detours[k].original /\ detours[h].original # Game => h = k

(* What the job has done at its site so far.                               *)
JobAt(s) ==
  /\ Making => HooksOf(s) \subseteq {job.key}
  /\ job.op = "create" =>
       /\ job.original # Torn
       /\ job.original # Game => job.original \in At(s) /\ Unnamed(s, job.original)
  /\ job.op = "insert" => code[s] = handle
  /\ Removing => HooksOf(s) = {}
  /\ job.op = "remove" => code[s] = job.handle
  /\ job.op \in {"restore", "free"} => Unnamed(s, job.handle)
  /\ job.op = "free" => code[s] = detours[job.handle].original

(* The metadata of a sound site name the detour in its code.               *)
SiteStands(s) ==
  /\ code[s] = Torn <=> job.op \in {"create", "restore"} /\ job.site = s
  /\ NamedOnce(s)
  /\ \A k \in HooksOf(s) : code[s] = hooks[k].handle \/ (Making /\ job.site = s)
  /\ \A j, k \in HooksOf(s) : j = k
  /\ code[s] \notin {Game, Torn} /\ s \notin botched /\ job.site # s => HooksOf(s) # {}
  /\ job.site = s => JobAt(s)

SitesStand == \A s \in Sound : SiteStands(s)

(* What overrides leave in the trampolines.                                *)
BytesStand ==
  \A a \in Address :
    trampoline[a] # None =>
      /\ trampoline[a].bytes = "fitting"
      /\ a \notin stale \cup strayed => trampoline[a].by = trampoline[a].site

(* What a thread has in hand, race or not.                                 *)
InHand(t) ==
  /\ at[t] # "away" => frame[t].site \in Site
  /\ at[t] = "site" => frame[t].target = None
  /\ at[t] = "entry" => frame[t].meta = None /\ frame[t].target = None
  /\ at[t] \in {"waiting", "overriding"} => frame[t].meta # None
  /\ at[t] = "waiting" => frame[t].target = None
  /\ at[t] = "overriding" => frame[t].answer # None /\ frame[t].answer.bytes = "fitting"
  /\ at[t] \in {"overriding", "returning"} /\ frame[t].target # None =>
       frame[t].meta # None /\ frame[t].target = frame[t].meta.address
  /\ at[t] = "trampoline" => frame[t].target # None

Hooked(t) ==
  LET s == frame[t].site
  IN s \in DOMAIN hooks /\ hooks[s].address = frame[t].target

(* What is still as it found it, when it met no write.                     *)
Undisturbed(t) ==
  LET s == frame[t].site
      a == frame[t].target
      sure == s \notin botched \cup strayed
  IN
  at[t] # "away" /\ t \notin raced =>
    /\ job.site # s
    /\ at[t] = "site" => code[s] = Game \/ s \in strayed
    /\ at[t] = "entry" /\ sure => HooksOf(s) # {}
    /\ at[t] \in {"waiting", "overriding", "returning"} /\ frame[t].meta # None =>
         s \in DOMAIN hooks /\ hooks[s] = frame[t].meta
    /\ at[t] = "returning" /\ sure => frame[t].meta # None \/ HooksOf(s) \ Site # {}
    /\ at[t] = "trampoline" => Hooked(t) /\ (trampoline[a] = frame[t].entered \/ a \in strayed)
    /\ at[t] = "lost" /\ sure => Hooked(t) /\ a \in stale \cup strayed

ThreadsStand == \A t \in Thread : InHand(t) /\ Undisturbed(t)

HookInv ==
  /\ Shapes /\ JobStands /\ DetoursStand /\ HooksStand /\ SitesStand /\ BytesStand
  /\ ThreadsStand

-----------------------------------------------------------------------------
LEMMA WithoutFacts ==
  ASSUME NEW f, NEW x
  PROVE  /\ DOMAIN Without(f, x) = DOMAIN f \ {x}
         /\ \A y \in DOMAIN f : y # x => Without(f, x)[y] = f[y]
  BY DEF Without

LEMMA NoneFacts ==
  /\ None \notin Site /\ None \notin Address
  /\ None \notin Metadata /\ None \notin Trampoline /\ None \notin Decisions
  BY NoneAssumption DEF Decisions

LEMMA SpellingFacts ==
  /\ Site \subseteq Key /\ Site \cap Address = {} /\ MaxDetours \in Nat
  /\ \A k \in Key : SiteOf[k] \in Site
  /\ \A s \in Site : SiteOf[s] = s
  /\ \A a \in Low : Behind[a] \subseteq Site \cup (Address \ Low)
  BY DecisionAssumption

(* What each kind of job has.                                              *)
LEMMA JobFacts ==
  ASSUME Shapes
  PROVE  /\ job.op \in {"none", "create", "insert", "remove", "restore", "free"}
         /\ job.op = "none" <=> job = NoJob
         /\ NoJob.site = None /\ NoJob.op = "none"
         /\ job.op # "none" => job.site \in Site /\ job.key \in Key
         /\ Making => job \in MakingJob /\ job.address \in Address /\ job.original \in Int
         /\ Removing => job \in RemovingJob /\ job.handle \in 1 .. MaxDetours
<1>1. CASE job = NoJob
  BY <1>1 DEF NoJob, Making, Removing
<1>2. CASE job \in MakingJob
  BY <1>2 DEF MakingJob, NoJob, Making, Removing
<1>3. CASE job \in RemovingJob
  BY <1>3 DEF RemovingJob, NoJob, Making, Removing
<1> QED
  BY <1>1, <1>2, <1>3 DEF Shapes

LEMMA FrameFacts ==
  /\ NoFrame \in Frame
  /\ NoFrame.meta = None /\ NoFrame.answer = None /\ NoFrame.target = None
  /\ \A s \in Site : /\ [NoFrame EXCEPT !.site = s] \in Frame
                     /\ [NoFrame EXCEPT !.site = s].site = s
                     /\ [NoFrame EXCEPT !.site = s].meta = None
                     /\ [NoFrame EXCEPT !.site = s].target = None
  BY DEF NoFrame, Frame

LEMMA InitInv == Init => HookInv
<1> SUFFICES ASSUME Init PROVE HookInv
  OBVIOUS
<1> USE DEF Init
<1>1. /\ DOMAIN detours = {} /\ DOMAIN hooks = {} /\ job.op = "none" /\ job.site = None
      /\ MaxDetours \in Nat
  BY SpellingFacts DEF NoJob
<1>2. Shapes
  BY <1>1, FrameFacts DEF Shapes, Game, Torn, Handles, Making
<1>3. JobStands /\ DetoursStand /\ HooksStand /\ BytesStand
  BY <1>1 DEF JobStands, DetoursStand, HooksStand, BytesStand, Making, Removing
<1>4. ASSUME NEW s \in Site PROVE SiteStands(s)
  <2>1. At(s) = {} /\ HooksOf(s) = {} /\ code[s] = Game /\ Game # Torn /\ job.site # s
    BY <1>1, NoneFacts DEF At, Kept, HooksOf, Game, Torn
  <2> QED
    BY <1>1, <2>1 DEF SiteStands, NamedOnce
<1>5. SitesStand
  BY <1>4 DEF SitesStand, Sound
<1>6. ThreadsStand
  BY DEF ThreadsStand, InHand, Undisturbed
<1> QED
  BY <1>2, <1>3, <1>5, <1>6 DEF HookInv

-----------------------------------------------------------------------------
(* The threads of the game leave the runtime's part alone: they write to   *)
(* trampolines, but never free one or make it another's, and code is hit   *)
(* only by a stray write.                                                  *)

Alike ==
  \A a \in Address : /\ trampoline'[a] = None <=> trampoline[a] = None
                     /\ trampoline[a] # None =>
                          /\ trampoline'[a].site = trampoline[a].site
                          /\ trampoline'[a].copied = trampoline[a].copied

OnlyStrayed ==
  /\ strayed \subseteq strayed' /\ strayed' \subseteq Site \cup Address
  /\ \A s \in Site \ strayed' : code'[s] = code[s]

LEMMA RuntimeStands ==
  ASSUME HookInv, UNCHANGED runtimeVars, Alike, OnlyStrayed
  PROVE  JobStands' /\ DetoursStand' /\ HooksStand' /\ SitesStand'
<1>1. UNCHANGED <<detours, hooks, owned, job, handle, botched, leaked, crossed>>
  BY DEF runtimeVars
<1>2. job.op = "create" => job.address \in Address
  BY JobFacts DEF HookInv, Making
<1>3. \A h \in DOMAIN detours : detours[h].trampoline \in Address
  BY DEF HookInv, Shapes, Detour
<1>4. Kept' = Kept /\ Making' = Making /\ Removing' = Removing
  BY <1>1 DEF Kept, Making, Removing
<1>5. HooksStand'
  BY <1>1, <1>4 DEF HookInv, HooksStand
<1>6. DetoursStand'
  <2>1. leaked \subseteq Address
    BY DEF HookInv, Shapes
  <2> QED
    BY <1>1, <1>3, <2>1 DEF HookInv, DetoursStand, Alike
<1>7. JobStands'
  BY <1>1, <1>2, <1>4 DEF HookInv, JobStands, Alike
<1>8. SitesStand'
  <2> SUFFICES ASSUME NEW s \in Sound' PROVE SiteStands(s)'
    BY DEF SitesStand
  <2>1. s \in Sound /\ code'[s] = code[s]
    BY <1>1 DEF Sound, OnlyStrayed
  <2>2. SiteStands(s)
    BY <2>1 DEF HookInv, SitesStand
  <2>3. At(s)' = At(s) /\ HooksOf(s)' = HooksOf(s)
    BY <1>1, <1>4 DEF At, HooksOf
  <2>4. NamedOnce(s)'
    BY <1>1, <2>1, <2>2, <2>3 DEF SiteStands, NamedOnce
  <2>5. JobAt(s) => JobAt(s)'
    BY <1>1, <1>4, <2>1, <2>3 DEF JobAt, Unnamed
  <2> QED
    BY <1>1, <1>4, <2>1, <2>2, <2>3, <2>4, <2>5 DEF SiteStands
<1> QED
  BY <1>5, <1>6, <1>7, <1>8

LEMMA OthersStand ==
  ASSUME ThreadsStand, UNCHANGED runtimeVars, OnlyStrayed, NEW t \in Thread,
         stale \subseteq stale',
         \A u \in Thread \ {t} :
           /\ at'[u] = at[u] /\ frame'[u] = frame[u]
           /\ u \in raced => u \in raced'
           /\ \/ u \in raced' \/ at[u] # "trampoline" \/ frame[u].target \in strayed'
              \/ trampoline'[frame[u].target] = trampoline[frame[u].target],
         InHand(t)', Undisturbed(t)'
  PROVE  ThreadsStand'
<1>1. ASSUME NEW u \in Thread \ {t} PROVE InHand(u)' /\ Undisturbed(u)'
  <2>1. UNCHANGED <<hooks, job, botched>>
    BY DEF runtimeVars
  <2>2. InHand(u)'
    BY DEF ThreadsStand, InHand
  <2>3. Undisturbed(u)'
    <3> SUFFICES ASSUME at[u] # "away", u \notin raced' PROVE Undisturbed(u)'
      BY DEF Undisturbed
    <3>1. /\ Undisturbed(u) /\ u \notin raced /\ frame[u].site \in Site
          /\ at'[u] = at[u] /\ frame'[u] = frame[u]
      BY DEF ThreadsStand, InHand
    <3>2. \A s : HooksOf(s)' = HooksOf(s)
      BY <2>1 DEF HooksOf
    <3>3. Hooked(u)' = Hooked(u)
      BY <2>1, <3>1 DEF Hooked
    <3>4. frame[u].site \notin strayed' => code'[frame[u].site] = code[frame[u].site]
      BY <3>1 DEF OnlyStrayed
    <3> QED
      BY <2>1, <3>1, <3>2, <3>3, <3>4 DEF Undisturbed, OnlyStrayed
  <2> QED
    BY <2>2, <2>3
<1> QED
  BY <1>1 DEF ThreadsStand

(* A step of one thread that writes nothing.                               *)
LEMMA QuietStep ==
  ASSUME HookInv, UNCHANGED <<runtimeVars, code, trampoline, stale, strayed>>, NEW t \in Thread,
         NEW where \in {"away", "site", "entry", "waiting", "overriding", "returning",
                        "trampoline", "lost"}, at' = [at EXCEPT ![t] = where],
         NEW f \in Frame, frame' = [frame EXCEPT ![t] = f],
         raced' \in {raced, raced \cup {t}, raced \ {t}},
         InHand(t)', Undisturbed(t)'
  PROVE  HookInv'
<1>1. /\ UNCHANGED <<detours, hooks, owned, job, handle, botched, leaked, crossed>>
      /\ UNCHANGED runtimeVars
      /\ code' = code /\ trampoline' = trampoline /\ stale' = stale /\ strayed' = strayed
  BY DEF runtimeVars
<1>2. at \in [Thread -> {"away", "site", "entry", "waiting", "overriding", "returning",
                         "trampoline", "lost"}] /\ frame \in [Thread -> Frame]
      /\ raced \subseteq Thread
  BY DEF HookInv, Shapes
<1>3. Shapes'
  BY <1>1, <1>2 DEF HookInv, Shapes, Handles, Making
<1>4. OnlyStrayed
  BY <1>1 DEF OnlyStrayed, HookInv, Shapes
<1>5. JobStands' /\ DetoursStand' /\ HooksStand' /\ SitesStand'
  BY <1>1, <1>4, RuntimeStands DEF Alike
<1>6. BytesStand'
  BY <1>1 DEF HookInv, BytesStand
<1>7. ThreadsStand'
  BY <1>1, <1>2, <1>4, OthersStand DEF HookInv
<1> QED
  BY <1>3, <1>5, <1>6, <1>7 DEF HookInv

-----------------------------------------------------------------------------
(* The steps of the threads that write nothing.                            *)

LEMMA LostFrame ==
  ASSUME NEW s \in Site, NEW a \in Address \cup {None}
  PROVE  LET f == [NoFrame EXCEPT !.site = s, !.target = a]
         IN f \in Frame /\ f.site = s /\ f.target = a
  BY DEF NoFrame, Frame

LEMMA ThreadFacts ==
  ASSUME HookInv, NEW t \in Thread
  PROVE  /\ InHand(t) /\ Undisturbed(t)
         /\ frame \in [Thread -> Frame] /\ at \in [Thread -> {"away", "site", "entry",
              "waiting", "overriding", "returning", "trampoline", "lost"}]
         /\ frame[t].meta \in Metadata \cup {None} /\ frame[t].target \in Address \cup {None}
         /\ frame[t].answer \in Decisions \cup {None}
         /\ frame[t].entered \in Trampoline \cup {None}
         /\ frame[t].site \in Site \cup {None}
  BY DEF HookInv, ThreadsStand, Shapes, Frame

LEMMA ArriveInv ==
  ASSUME HookInv, NEW t \in Thread, NEW s \in Site, Arrive(t, s)
  PROVE  HookInv'
<1> DEFINE f == [NoFrame EXCEPT !.site = s]
<1>1. f \in Frame /\ f.site = s /\ f.meta = None /\ f.target = None
  BY FrameFacts
<1>2. PICK where \in {"site", "lost", "entry"} :
        /\ at' = [at EXCEPT ![t] = where]
        /\ where = "site" => code[s] = Game
        /\ where = "lost" => code[s] = Torn
        /\ where = "entry" => code[s] \notin {Game, Torn}
  <2>1. Game # Torn
    BY DEF Game, Torn
  <2>2. CASE code[s] = Game
    BY <2>1, <2>2 DEF Arrive, Go
  <2>3. CASE code[s] = Torn
    BY <2>1, <2>3 DEF Arrive, Go
  <2>4. CASE code[s] \notin {Game, Torn}
    BY <2>4 DEF Arrive, Go
  <2> QED
    BY <2>2, <2>3, <2>4
<1>3. /\ UNCHANGED <<runtimeVars, code, trampoline, stale, strayed>> /\ frame' = [frame EXCEPT ![t] = f]
      /\ raced' = IF job.site = s THEN raced \cup {t} ELSE raced
  BY DEF Arrive
<1> HIDE DEF f
<1>4. at'[t] = where /\ frame'[t] = f
  BY <1>2, <1>3, ThreadFacts
<1>5. UNCHANGED <<code, hooks, job, botched, stale, strayed>> /\ HooksOf(s)' = HooksOf(s)
  BY <1>3 DEF runtimeVars, HooksOf
<1>6. InHand(t)'
  BY <1>1, <1>4 DEF InHand
<1>7. Undisturbed(t)'
  <2> SUFFICES ASSUME t \notin raced' PROVE Undisturbed(t)'
    BY DEF Undisturbed
  <2>1. job.site # s /\ t \notin raced
    BY <1>3
  <2>2. ASSUME s \notin botched \cup strayed PROVE SiteStands(s)
    BY <2>2 DEF HookInv, Shapes, SitesStand, Sound
  <2>3. where = "entry" /\ s \notin botched \cup strayed => HooksOf(s) # {}
    BY <1>2, <2>1, <2>2 DEF SiteStands
  <2>4. where = "lost" => s \in botched \cup strayed
    BY <1>2, <2>1, <2>2 DEF SiteStands
  <2> QED
    BY <1>1, <1>2, <1>4, <1>5, <2>1, <2>3, <2>4 DEF Undisturbed
<1> QED
  BY <1>1, <1>2, <1>3, <1>6, <1>7, QuietStep

(* A call ends well, or the thread is lost for a reason.                   *)
LEMMA LeaveHookInv ==
  ASSUME HookInv, NEW t \in Thread, at[t] # "away", NEW well \in BOOLEAN, LeaveHook(t, well),
         UNCHANGED <<runtimeVars, code, trampoline, stale, strayed>>,
         ~well /\ t \notin raced /\ frame[t].site \notin botched \cup strayed =>
           Hooked(t) /\ frame[t].target \in stale \cup strayed
  PROVE  HookInv'
<1>0. frame[t].site \in Site
  BY ThreadFacts DEF InHand
<1>1. CASE well
  <2>1. /\ at' = [at EXCEPT ![t] = "away"] /\ frame' = [frame EXCEPT ![t] = NoFrame]
        /\ raced' = raced \ {t}
    BY <1>1 DEF LeaveHook, Go
  <2>2. at'[t] = "away"
    BY <2>1, ThreadFacts
  <2>3. InHand(t)' /\ Undisturbed(t)'
    BY <2>2 DEF InHand, Undisturbed
  <2> QED
    BY <2>1, <2>3, FrameFacts, QuietStep
<1>2. CASE ~well
  <2> DEFINE f == [NoFrame EXCEPT !.site = frame[t].site, !.target = frame[t].target]
  <2>1. /\ at' = [at EXCEPT ![t] = "lost"] /\ frame' = [frame EXCEPT ![t] = f]
        /\ raced' = raced
    BY <1>2 DEF LeaveHook, Go
  <2>2. f \in Frame /\ f.site = frame[t].site /\ f.target = frame[t].target
    BY <1>0, LostFrame, ThreadFacts
  <2> HIDE DEF f
  <2>3. at'[t] = "lost" /\ frame'[t] = f
    BY <2>1, ThreadFacts
  <2>4. UNCHANGED <<hooks, job, botched, stale, strayed>>
    BY DEF runtimeVars
  <2>5. InHand(t)'
    BY <1>0, <2>2, <2>3 DEF InHand
  <2>6. Undisturbed(t)'
    <3>1. t \notin raced => job.site # frame[t].site
      BY ThreadFacts DEF Undisturbed
    <3> QED
      BY <1>2, <2>1, <2>2, <2>3, <2>4, <3>1 DEF Undisturbed, Hooked
  <2> QED
    BY <2>1, <2>2, <2>5, <2>6, QuietStep
<1> QED
  BY <1>1, <1>2

LEMMA PassSiteInv ==
  ASSUME HookInv, NEW t \in Thread, PassSite(t)
  PROVE  HookInv'
<1>1. /\ at[t] = "site"
      /\ t \notin raced => code[frame[t].site] = Game \/ frame[t].site \in strayed
  BY ThreadFacts DEF PassSite, Undisturbed
<1> QED
  BY <1>1, LeaveHookInv DEF PassSite

LEMMA LookUpInv ==
  ASSUME HookInv, NEW t \in Thread, LookUp(t)
  PROVE  HookInv'
<1> DEFINE s == frame[t].site
<1>1. /\ UNCHANGED <<runtimeVars, code, trampoline, raced, stale, strayed>> /\ at[t] = "entry"
      /\ UNCHANGED <<code, hooks, job, botched, strayed>> /\ \A x : HooksOf(x)' = HooksOf(x)
  BY DEF LookUp, runtimeVars, HooksOf
<1>2. /\ s \in Site /\ frame[t].meta = None /\ frame[t].target = None /\ frame[t] \in Frame
      /\ t \notin raced => job.site # s /\ (s \notin botched \cup strayed => HooksOf(s) # {})
  BY <1>1, ThreadFacts DEF InHand, Undisturbed
<1>3. CASE s \in DOMAIN hooks
  <2> DEFINE f == [frame[t] EXCEPT !.meta = hooks[s]]
  <2>1. hooks[s] \in Metadata
    BY <1>3 DEF HookInv, Shapes
  <2>2. f \in Frame /\ f.meta = hooks[s] /\ f.site = s /\ f.target = None /\ hooks[s] # None
    BY <1>2, <2>1, NoneFacts DEF Frame
  <2>3. at' = [at EXCEPT ![t] = "waiting"] /\ frame' = [frame EXCEPT ![t] = f]
    BY <1>3 DEF LookUp, Go
  <2> HIDE DEF f
  <2>4. at'[t] = "waiting" /\ frame'[t] = f
    BY <2>3, ThreadFacts
  <2>5. InHand(t)' /\ Undisturbed(t)'
    BY <1>1, <1>2, <1>3, <2>2, <2>4 DEF InHand, Undisturbed
  <2> QED
    BY <1>1, <2>2, <2>3, <2>5, QuietStep
<1>4. CASE s \notin DOMAIN hooks
  <2>1. at' = [at EXCEPT ![t] = "returning"] /\ frame' = [frame EXCEPT ![t] = frame[t]]
    BY <1>4, ThreadFacts DEF LookUp, Go
  <2>2. at'[t] = "returning" /\ frame'[t] = frame[t]
    BY <2>1, ThreadFacts
  <2>3. HooksOf(s) \cap Site = {}
    BY <1>2, <1>4, SpellingFacts DEF HooksOf
  <2>4. InHand(t)' /\ Undisturbed(t)'
    BY <1>1, <1>2, <1>4, <2>2, <2>3 DEF InHand, Undisturbed
  <2> QED
    BY <1>1, <1>2, <2>1, <2>4, QuietStep
<1> QED
  BY <1>3, <1>4

LEMMA AnswerInv ==
  ASSUME HookInv, NEW t \in Thread, NEW d \in Decisions, Answer(t, d)
  PROVE  HookInv'
<1> DEFINE f == [frame[t] EXCEPT !.answer = d]
<1>1. /\ UNCHANGED <<runtimeVars, code, trampoline, raced, stale, strayed>> /\ at[t] = "waiting"
      /\ UNCHANGED <<code, hooks, job, botched, strayed>>
  BY DEF Answer, runtimeVars
<1>2. f \in Frame /\ f.meta = frame[t].meta /\ f.site = frame[t].site /\ f.target = frame[t].target
  BY ThreadFacts DEF Frame
<1>3. at' = [at EXCEPT ![t] = "waiting"] /\ frame' = [frame EXCEPT ![t] = f]
  BY <1>1, ThreadFacts DEF Answer
<1> HIDE DEF f
<1>4. at'[t] = "waiting" /\ frame'[t] = f
  BY <1>3, ThreadFacts
<1>5. InHand(t)' /\ Undisturbed(t)'
  BY <1>1, <1>2, <1>4, ThreadFacts DEF InHand, Undisturbed
<1> QED
  BY <1>1, <1>2, <1>3, <1>5, QuietStep

LEMMA ReceiveInv ==
  ASSUME HookInv, NEW t \in Thread, Receive(t)
  PROVE  HookInv'
<1> DEFINE f == [frame[t] EXCEPT !.target = Target(t)]
           where == IF Fits(t) THEN "overriding" ELSE "returning"
<1>1. /\ UNCHANGED <<runtimeVars, code, trampoline, raced, stale, strayed>>
      /\ at[t] = "waiting" /\ frame[t].answer # None
      /\ UNCHANGED <<code, hooks, job, botched, strayed>>
  BY DEF Receive, runtimeVars
<1>2. frame[t].meta \in Metadata
  BY <1>1, ThreadFacts DEF InHand
<1>3. Target(t) \in {None, frame[t].meta.address} /\ frame[t].meta.address \in Address
  BY <1>2 DEF Target, Metadata
<1>4. /\ f \in Frame /\ f.meta = frame[t].meta /\ f.site = frame[t].site
      /\ f.target = Target(t) /\ f.answer = frame[t].answer
  BY <1>3, ThreadFacts DEF Frame
<1>5. at' = [at EXCEPT ![t] = where] /\ frame' = [frame EXCEPT ![t] = f]
  BY DEF Receive, Go
<1>6. where \in {"overriding", "returning"} /\ (where = "overriding" => frame[t].answer.bytes = "fitting")
  BY DEF Fits
<1> HIDE DEF f, where
<1>7. at'[t] = where /\ frame'[t] = f
  BY <1>5, <1>6, ThreadFacts
<1>8. frame[t].meta # None
  BY <1>2, NoneFacts
<1>9. InHand(t)'
  <2>1. frame[t].site \in Site
    BY <1>1, ThreadFacts DEF InHand
  <2> QED
    BY <1>1, <1>3, <1>4, <1>6, <1>7, <1>8, <2>1 DEF InHand
<1>10. Undisturbed(t)'
  <2>1. t \notin raced => /\ job.site # frame[t].site /\ frame[t].site \in DOMAIN hooks
                          /\ hooks[frame[t].site] = frame[t].meta
    BY <1>1, <1>8, ThreadFacts DEF Undisturbed
  <2> QED
    BY <1>1, <1>4, <1>6, <1>7, <1>8, <2>1 DEF Undisturbed
<1> QED
  BY <1>1, <1>4, <1>5, <1>6, <1>9, <1>10, QuietStep

LEMMA GiveUpInv ==
  ASSUME HookInv, NEW t \in Thread, GiveUp(t)
  PROVE  HookInv'
<1>1. /\ UNCHANGED <<runtimeVars, code, trampoline, raced, stale, strayed>> /\ at[t] = "waiting"
      /\ UNCHANGED <<code, hooks, job, botched, strayed>>
  BY DEF GiveUp, runtimeVars
<1>2. at' = [at EXCEPT ![t] = "returning"] /\ frame' = [frame EXCEPT ![t] = frame[t]]
      /\ frame[t] \in Frame
  BY ThreadFacts DEF GiveUp, Go
<1>3. at'[t] = "returning" /\ frame'[t] = frame[t]
  BY <1>2, ThreadFacts
<1>4. InHand(t)' /\ Undisturbed(t)'
  BY <1>1, <1>3, ThreadFacts DEF InHand, Undisturbed
<1> QED
  BY <1>1, <1>2, <1>4, QuietStep

(* A decision that fits is written to the trampoline of its site, unless   *)
(* the thread met a write; instead of a low trampoline it hits others.     *)
LEMMA OverrideInv ==
  ASSUME HookInv, NEW t \in Thread, NEW hit \in SUBSET (Site \cup Address), Override(t, hit)
  PROVE  HookInv'
<1> DEFINE a == frame[t].meta.address
           written == {b \in hit \cap Address : trampoline[b] # None}
<1>1. /\ UNCHANGED runtimeVars /\ frame' = frame
      /\ UNCHANGED <<detours, hooks, owned, job, handle, botched, leaked, crossed>>
      /\ at[t] = "overriding" /\ at' = [at EXCEPT ![t] = "returning"]
      /\ IF a \in Low THEN hit \subseteq Behind[a] ELSE hit = {a}
      /\ code' = [s \in Site |-> IF s \in hit THEN Torn ELSE code[s]]
      /\ strayed' = (IF a \in Low THEN strayed \cup written \cup (hit \cap Site) ELSE strayed)
      /\ raced' = (IF a \in written THEN raced \cup Inside(a) ELSE raced)
      /\ stale' = (IF a \in written /\ t \in raced THEN stale \cup {a} ELSE stale)
      /\ trampoline' = [b \in Address |->
                          IF b \in written
                          THEN [trampoline[b] EXCEPT !.bytes = frame[t].answer.bytes,
                                                     !.by = frame[t].site]
                          ELSE trampoline[b]]
  BY DEF Override, runtimeVars, Go
<1>2. /\ frame[t].site \in Site /\ frame[t].meta \in Metadata /\ frame[t].answer.bytes = "fitting"
      /\ frame[t].meta # None
  BY <1>1, ThreadFacts DEF InHand
<1>3. a \in Address
  BY <1>2 DEF Metadata
<1>4. /\ trampoline \in [Address -> Trampoline \cup {None}] /\ code \in [Site -> Int]
      /\ raced \subseteq Thread /\ stale \subseteq Address /\ strayed \subseteq Site \cup Address
      /\ at'[t] = "returning"
  BY <1>1, ThreadFacts DEF HookInv, Shapes
<1>5. /\ a \in Low => a \notin hit
      /\ a \notin Low => hit \cap Site = {} /\ written \subseteq {a}
      /\ written \subseteq Address
  BY <1>1, <1>3, SpellingFacts
<1> HIDE DEF a
<1>6. /\ \A b \in Address \ written : trampoline'[b] = trampoline[b]
      /\ \A b \in written : /\ trampoline[b] \in Trampoline /\ trampoline'[b] \in Trampoline
                            /\ trampoline'[b].site = trampoline[b].site
                            /\ trampoline'[b].copied = trampoline[b].copied
                            /\ trampoline'[b].bytes = "fitting"
                            /\ trampoline'[b].by = frame[t].site
      /\ trampoline' \in [Address -> Trampoline \cup {None}]
  <2>1. ASSUME NEW b \in written
        PROVE  /\ trampoline[b] \in Trampoline /\ trampoline'[b] \in Trampoline
               /\ trampoline'[b].site = trampoline[b].site
               /\ trampoline'[b].copied = trampoline[b].copied
               /\ trampoline'[b].bytes = "fitting" /\ trampoline'[b].by = frame[t].site
    <3> DEFINE e == [trampoline[b] EXCEPT !.bytes = frame[t].answer.bytes, !.by = frame[t].site]
    <3>1. trampoline[b] \in Trampoline
      BY <1>4
    <3>2. e \in Trampoline /\ e.site = trampoline[b].site /\ e.copied = trampoline[b].copied
          /\ e.bytes = "fitting" /\ e.by = frame[t].site
      BY <1>2, <3>1 DEF Trampoline
    <3>3. trampoline'[b] = e
      BY <1>1
    <3> HIDE DEF e
    <3> QED
      BY <3>1, <3>2, <3>3
  <2> HIDE DEF written
  <2>2. \A b \in Address \ written : trampoline'[b] = trampoline[b]
    BY <1>1
  <2>3. trampoline' = [b \in Address |-> trampoline'[b]]
    BY <1>1
  <2> QED
    BY <1>4, <2>1, <2>2, <2>3
<1>7. Inside(a) \subseteq Thread /\ \A u \in Thread : at[u] = "trampoline" /\ frame[u].target = a
                                                        => u \in Inside(a)
  BY DEF Inside
<1>8. \A b \in written : trampoline[b] # None
  OBVIOUS
<1> HIDE DEF written
<1>9. /\ raced \subseteq raced' /\ raced' \subseteq Thread
      /\ stale \subseteq stale' /\ stale' \subseteq Address
      /\ a \in written => raced' = raced \cup Inside(a)
  BY <1>1, <1>3, <1>4, <1>7
<1>10. OnlyStrayed
  <2>1. strayed \subseteq strayed' /\ strayed' \subseteq Site \cup Address
    BY <1>1, <1>4, <1>5
  <2>2. \A s \in Site \ strayed' : code'[s] = code[s]
    <3>1. \A s \in Site \ strayed' : s \notin hit
      BY <1>1, <1>5
    <3> QED
      BY <1>1, <3>1
  <2> QED
    BY <2>1, <2>2 DEF OnlyStrayed
<1>11. Shapes'
  <2>1. code' \in [Site -> Int] /\ \A s \in Site : code'[s] \in {Game, Torn} \cup Handles
    <3>1. /\ code' = [s \in Site |-> code'[s]]
          /\ \A s \in Site : code'[s] = Torn \/ code'[s] = code[s]
      BY <1>1
    <3>2. Torn \in Int
      BY DEF Torn
    <3>3. \A s \in Site : code[s] \in {Game, Torn} \cup Handles
      BY DEF HookInv, Shapes
    <3>4. \A s \in Site : code'[s] \in Int
      BY <1>4, <3>1, <3>2
    <3>5. code' \in [Site -> Int]
      BY <3>1, <3>4
    <3> QED
      BY <3>1, <3>3, <3>5
  <2>2. at' \in [Thread -> {"away", "site", "entry", "waiting", "overriding", "returning",
                            "trampoline", "lost"}]
    BY <1>1, ThreadFacts
  <2>3. crossed \subseteq botched \cup strayed' /\ strayed' \subseteq Site \cup Address
    BY <1>10 DEF HookInv, Shapes, OnlyStrayed
  <2> QED
    BY <1>1, <1>6, <1>9, <2>1, <2>2, <2>3 DEF HookInv, Shapes, Handles, Making
<1>12. Alike
  <2> SUFFICES ASSUME NEW b \in Address
               PROVE  /\ trampoline'[b] = None <=> trampoline[b] = None
                      /\ trampoline[b] # None => /\ trampoline'[b].site = trampoline[b].site
                                                 /\ trampoline'[b].copied = trampoline[b].copied
    BY DEF Alike
  <2> QED
    BY <1>6, NoneFacts
<1>13. JobStands' /\ DetoursStand' /\ HooksStand' /\ SitesStand'
  BY <1>1, <1>10, <1>12, RuntimeStands
<1>14. t \notin raced /\ a \in written => trampoline[a].site = frame[t].site
  <2> SUFFICES ASSUME t \notin raced, a \in written PROVE trampoline[a].site = frame[t].site
    OBVIOUS
  <2>1. frame[t].site \in DOMAIN hooks /\ hooks[frame[t].site] = frame[t].meta
    BY <1>1, <1>2, ThreadFacts DEF Undisturbed
  <2> DEFINE h == hooks[frame[t].site].handle
  <2>2. h \in DOMAIN detours /\ detours[h].site = frame[t].site /\ a = detours[h].trampoline
    BY <1>2, <2>1, SpellingFacts DEF HookInv, HooksStand, Kept, a
  <2> HIDE DEF h
  <2> QED
    BY <2>2 DEF HookInv, DetoursStand
<1>15. BytesStand'
  <2> SUFFICES ASSUME NEW b \in Address, trampoline'[b] # None
               PROVE  /\ trampoline'[b].bytes = "fitting"
                      /\ b \notin stale' \cup strayed' => trampoline'[b].by = trampoline'[b].site
    BY DEF BytesStand
  <2>1. CASE b \in written
    <3>1. a \in Low => b \in strayed'
      BY <1>1, <2>1
    <3>2. a \notin Low => b = a /\ (b \notin stale' => t \notin raced)
      BY <1>1, <1>5, <2>1
    <3> QED
      BY <1>6, <1>14, <2>1, <3>1, <3>2
  <2>2. CASE b \notin written
    BY <1>6, <1>9, <1>10, <2>2 DEF HookInv, BytesStand, OnlyStrayed
  <2> QED
    BY <2>1, <2>2
<1>16. InHand(t)' /\ Undisturbed(t)'
  <2>1. InHand(t)'
    BY <1>1, <1>2, <1>4, ThreadFacts DEF InHand
  <2>2. Undisturbed(t)'
    BY <1>1, <1>2, <1>4, <1>9, ThreadFacts DEF Undisturbed
  <2> QED
    BY <2>1, <2>2
<1>17. \A u \in Thread \ {t} :
         /\ at'[u] = at[u] /\ frame'[u] = frame[u]
         /\ u \in raced => u \in raced'
         /\ \/ u \in raced' \/ at[u] # "trampoline" \/ frame[u].target \in strayed'
            \/ trampoline'[frame[u].target] = trampoline[frame[u].target]
  <2> TAKE u \in Thread \ {t}
  <2>1. at'[u] = at[u] /\ frame'[u] = frame[u] /\ (u \in raced => u \in raced')
    BY <1>1, <1>9, ThreadFacts
  <2>2. ASSUME u \notin raced', at[u] = "trampoline", frame[u].target \notin strayed'
        PROVE  trampoline'[frame[u].target] = trampoline[frame[u].target]
    <3>1. frame[u].target \in Address
      BY <2>2, ThreadFacts DEF InHand
    <3>2. frame[u].target \notin written
      <4>1. CASE a \in Low
        BY <1>1, <2>2, <4>1
      <4>2. CASE a \notin Low
        BY <1>5, <1>7, <1>9, <2>2, <4>2
      <4> QED
        BY <4>1, <4>2
    <3> QED
      BY <1>6, <3>1, <3>2
  <2> QED
    BY <2>1, <2>2
<1>18. ThreadsStand'
  BY <1>1, <1>9, <1>10, <1>16, <1>17, OthersStand DEF HookInv
<1> QED
  BY <1>11, <1>13, <1>15, <1>18 DEF HookInv

(* A trampoline is gone only when its hook was removed during the call.    *)
LEMMA ReturnInv ==
  ASSUME HookInv, NEW t \in Thread, Return(t)
  PROVE  HookInv'
<1> DEFINE a == frame[t].target
<1>1. at[t] = "returning" /\ UNCHANGED <<runtimeVars, code, trampoline, stale, strayed>>
      /\ UNCHANGED <<code, hooks, job, botched, strayed>>
  BY DEF Return, runtimeVars
<1>2. a # None =>
        /\ a \in Address /\ frame[t].meta # None /\ a = frame[t].meta.address
  BY <1>1, ThreadFacts DEF InHand
<1>3. ASSUME t \notin raced, a # None
      PROVE  Hooked(t) /\ trampoline[a] # None
  <2>1. frame[t].site \in DOMAIN hooks /\ hooks[frame[t].site] = frame[t].meta
    BY <1>1, <1>2, <1>3, ThreadFacts DEF Undisturbed
  <2> DEFINE h == hooks[frame[t].site].handle
  <2>2. h \in DOMAIN detours /\ a = detours[h].trampoline
    BY <1>2, <1>3, <2>1 DEF HookInv, HooksStand, Kept
  <2> HIDE DEF h
  <2> QED
    BY <1>2, <1>3, <2>1, <2>2 DEF HookInv, DetoursStand, Hooked
<1>4. CASE a = None
  BY <1>1, <1>4, LeaveHookInv DEF Return
<1>5. CASE a # None /\ trampoline[a] = None
  BY <1>1, <1>3, <1>5, LeaveHookInv DEF Return
<1>6. CASE a # None /\ trampoline[a] # None
  <2> DEFINE f == [frame[t] EXCEPT !.entered = trampoline[a], !.meta = None, !.answer = None]
  <2>1. at' = [at EXCEPT ![t] = "trampoline"] /\ raced' = raced
        /\ frame' = [frame EXCEPT ![t].entered = trampoline[a], ![t].meta = None,
                                  ![t].answer = None]
    BY <1>6 DEF Return, Go
  <2>2. frame' = [frame EXCEPT ![t] = f]
    BY <2>1, ThreadFacts
  <2>3. trampoline[a] \in Trampoline
    BY <1>2, <1>6 DEF HookInv, Shapes
  <2>4. f \in Frame /\ f.site = frame[t].site /\ f.target = a /\ f.entered = trampoline[a]
    BY <2>3, ThreadFacts DEF Frame
  <2> HIDE DEF f
  <2>5. at'[t] = "trampoline" /\ frame'[t] = f
    BY <2>1, <2>2, ThreadFacts
  <2>6. frame[t].site \in Site
    BY <1>1, ThreadFacts DEF InHand
  <2>7. InHand(t)'
    BY <1>6, <2>4, <2>5, <2>6 DEF InHand
  <2>8. Undisturbed(t)'
    <3>1. t \notin raced => job.site # frame[t].site /\ Hooked(t)
      BY <1>1, <1>3, <1>6, ThreadFacts DEF Undisturbed
    <3> QED
      BY <1>1, <2>1, <2>4, <2>5, <3>1 DEF Undisturbed, Hooked
  <2> QED
    BY <1>1, <2>1, <2>2, <2>4, <2>7, <2>8, QuietStep
<1> QED
  BY <1>4, <1>5, <1>6

(* In a trampoline nobody wrote to, of a site hooked once, the thread gets *)
(* through, unless a thread that raced had written there before.           *)
LEMMA LeaveInv ==
  ASSUME HookInv, NEW t \in Thread, Leave(t)
  PROVE  HookInv'
<1> DEFINE e == frame[t].entered
           s == frame[t].site
           a == frame[t].target
           well == /\ trampoline[a] = e /\ e.site = s /\ e.by = e.site
                   /\ e.copied = Game /\ e.bytes = "fitting"
<1>1. at[t] = "trampoline" /\ UNCHANGED <<runtimeVars, code, trampoline, stale, strayed>>
  BY DEF Leave
<1>2. LeaveHook(t, well) /\ well \in BOOLEAN
  BY DEF Leave
<1>3. ASSUME t \notin raced, s \notin botched \cup strayed, a \notin stale \cup strayed PROVE well
  <2>1. Hooked(t) /\ trampoline[a] = e /\ a \in Address /\ s \in DOMAIN hooks
        /\ hooks[s].address = a
    BY <1>1, <1>3, ThreadFacts DEF InHand, Undisturbed, Hooked
  <2> DEFINE h == hooks[s].handle
  <2>2. h \in DOMAIN detours /\ detours[h].site = s /\ detours[h].trampoline = a
    <3>1. SiteOf[s] = s
      BY <1>1, ThreadFacts, SpellingFacts DEF InHand
    <3> QED
      BY <2>1, <3>1 DEF HookInv, HooksStand, Kept
  <2> HIDE DEF h, s, a
  <2>3. trampoline[a] # None /\ trampoline[a].site = s /\ trampoline[a].copied = Game
    BY <1>3, <2>2 DEF HookInv, DetoursStand
  <2>4. trampoline[a].bytes = "fitting" /\ trampoline[a].by = trampoline[a].site
    BY <1>3, <2>1, <2>3 DEF HookInv, BytesStand
  <2> QED
    BY <2>1, <2>3, <2>4
<1>4. t \notin raced => Hooked(t)
  BY <1>1, ThreadFacts DEF Undisturbed
<1> HIDE DEF well
<1> QED
  BY <1>1, <1>2, <1>3, <1>4, LeaveHookInv

-----------------------------------------------------------------------------
(* The runtime thread's steps.                                             *)

SameHooks(s) ==
  \A k \in Key : SiteOf[k] = s => /\ k \in DOMAIN hooks' <=> k \in DOMAIN hooks
                                  /\ k \in DOMAIN hooks => hooks'[k] = hooks[k]

SameDetours(s) ==
  /\ {h \in Kept' : detours'[h].site = s} = At(s)
  /\ \A h \in At(s) : detours'[h] = detours[h]

(* What the runtime thread does at one site leaves the others alone.       *)
LEMMA Elsewhere ==
  ASSUME HookInv, Shapes', NEW z \in Site, Sound' \subseteq Sound, botched \subseteq botched',
         \A s \in Site \ {z} : /\ job.site # s /\ job'.site # s /\ code'[s] = code[s]
                               /\ SameHooks(s) /\ SameDetours(s),
         z \in Sound' => SiteStands(z)'
  PROVE  SitesStand'
<1> SUFFICES ASSUME NEW s \in Sound', s # z PROVE SiteStands(s)'
  BY DEF SitesStand
<1>1. s \in Site /\ s \in Sound /\ SiteStands(s)
  BY DEF Sound, HookInv, SitesStand
<1>2. job.site # s /\ job'.site # s /\ code'[s] = code[s] /\ SameHooks(s) /\ SameDetours(s)
  BY <1>1
<1>3. At(s)' = At(s) /\ \A h \in At(s) : detours'[h] = detours[h]
  BY <1>2 DEF At, SameDetours
<1>4. HooksOf(s)' = HooksOf(s) /\ \A k \in HooksOf(s) : hooks'[k] = hooks[k]
  BY <1>2 DEF HooksOf, SameHooks, HookInv, Shapes
<1>5. NamedOnce(s)'
  BY <1>1, <1>2, <1>3 DEF SiteStands, NamedOnce
<1> QED
  BY <1>1, <1>2, <1>4, <1>5 DEF SiteStands

(* A thread that met no write is elsewhere.                                *)
LEMMA ThreadsLeftAlone ==
  ASSUME HookInv, Shapes', UNCHANGED <<at, frame>>, raced \subseteq raced',
         botched \subseteq botched', strayed \cap Site \subseteq strayed',
         \A u \in Thread :
           at[u] # "away" /\ u \notin raced' =>
             LET s == frame[u].site
                 a == frame[u].target
             IN /\ job'.site # s /\ code'[s] = code[s] /\ SameHooks(s)
                /\ Hooked(u) => /\ trampoline'[a] = trampoline[a]
                                /\ a \in stale => a \in stale'
                                /\ a \in strayed => a \in strayed'
  PROVE  ThreadsStand'
<1> SUFFICES ASSUME NEW u \in Thread PROVE InHand(u)' /\ Undisturbed(u)'
  BY DEF ThreadsStand
<1>1. InHand(u)'
  BY DEF HookInv, ThreadsStand, InHand
<1>2. Undisturbed(u)'
  <2> SUFFICES ASSUME at[u] # "away", u \notin raced' PROVE Undisturbed(u)'
    BY DEF Undisturbed
  <2>1. Undisturbed(u) /\ u \notin raced /\ frame[u].site \in Site
    BY ThreadFacts DEF InHand
  <2>2. HooksOf(frame[u].site)' = HooksOf(frame[u].site)
    BY <2>1 DEF HooksOf, SameHooks, HookInv, Shapes
  <2>3. frame[u].site \in DOMAIN hooks =>
          /\ frame[u].site \in DOMAIN hooks'
          /\ hooks'[frame[u].site] = hooks[frame[u].site]
    BY <2>1, SpellingFacts DEF SameHooks
  <2>4. Hooked(u) => Hooked(u)'
    BY <2>3 DEF Hooked
  <2> QED
    BY <2>1, <2>2, <2>3, <2>4 DEF Undisturbed
<1> QED
  BY <1>1, <1>2

(* A site whose code or metadata is to be written takes the threads there  *)
(* into the race.                                                          *)
LEMMA NotInCall ==
  ASSUME NEW s \in Site, raced' = raced \cup InCall(s), NEW u \in Thread,
         at[u] # "away", u \notin raced'
  PROVE  frame[u].site # s
  BY DEF InCall

(* The trampoline of a hook, as its thread knows it.                       *)
LEMMA HookedFacts ==
  ASSUME HookInv, NEW u \in Thread, at[u] # "away", Hooked(u)
  PROVE  \E h \in Kept : /\ detours[h].site = frame[u].site
                         /\ detours[h].trampoline = frame[u].target
                         /\ trampoline[frame[u].target] # None
<1> DEFINE h == hooks[frame[u].site].handle
<1>1. h \in Kept /\ detours[h].site = frame[u].site /\ detours[h].trampoline = frame[u].target
  <2>1. SiteOf[frame[u].site] = frame[u].site
    BY ThreadFacts, SpellingFacts DEF InHand
  <2> QED
    BY <2>1 DEF Hooked, HookInv, HooksStand
<1>2. h \in DOMAIN detours
  BY <1>1 DEF Kept
<1> HIDE DEF h
<1>3. trampoline[frame[u].target] # None
  BY <1>1, <1>2 DEF HookInv, DetoursStand
<1> QED
  BY <1>1, <1>3

(* A thread in a call that met no write is not where the job is.           *)
LEMMA NotAtTheJob ==
  ASSUME HookInv, NEW u \in Thread, at[u] # "away", u \notin raced
  PROVE  job.site # frame[u].site /\ frame[u].site \in Site /\ NoJob.site # frame[u].site
  BY ThreadFacts, NoneFacts DEF InHand, Undisturbed, NoJob

LEMMA MakingFacts ==
  ASSUME job \in MakingJob
  PROVE  LET j == [job EXCEPT !.op = "insert"]
         IN /\ j \in MakingJob /\ j.op = "insert" /\ j.site = job.site /\ j.key = job.key
            /\ j.address = job.address /\ j.original = job.original
  BY DEF MakingJob

LEMMA RemovingFacts ==
  ASSUME job \in RemovingJob, NEW op \in {"restore", "free"}
  PROVE  LET j == [job EXCEPT !.op = op]
         IN /\ j \in RemovingJob /\ j.op = op
            /\ j.site = job.site /\ j.key = job.key /\ j.handle = job.handle
  BY DEF RemovingJob

LEMMA CreateDetourInv ==
  ASSUME HookInv, NEW k \in Key, NEW a \in Address, CreateDetour(k, a)
  PROVE  HookInv'
<1> DEFINE z == SiteOf[k]
           new == [site |-> z, copied |-> code[z], bytes |-> "fitting", by |-> z]
           j == [op |-> "create", key |-> k, site |-> z, address |-> a, original |-> code[z]]
<1>0. z \in Site
  BY SpellingFacts
<1>1. /\ job = NoJob /\ handle < MaxDetours /\ trampoline[a] = None
      /\ trampoline' = [trampoline EXCEPT ![a] = new]
      /\ code' = [code EXCEPT ![z] = Torn]
      /\ job' = j /\ handle' = handle + 1
      /\ raced' = raced \cup InCall(z)
      /\ botched' = (IF code[z] = Game THEN botched ELSE botched \cup {z})
      /\ crossed' = (IF \E i \in DOMAIN hooks : i # k /\ SiteOf[i] = z
                     THEN crossed \cup {z} ELSE crossed)
      /\ stale' = stale \ {a} /\ strayed' = strayed \ {a}
      /\ UNCHANGED <<detours, hooks, owned, at, frame, leaked>>
  BY DEF CreateDetour
<1>2. /\ code \in [Site -> Int] /\ trampoline \in [Address -> Trampoline \cup {None}]
      /\ handle \in 0 .. MaxDetours /\ MaxDetours \in Nat /\ DOMAIN detours \subseteq Handles
      /\ \A x \in Site : code[x] \in {Game, Torn} \cup Handles
      /\ DOMAIN hooks \subseteq Key
  BY SpellingFacts DEF HookInv, Shapes
<1>3. new \in Trampoline /\ new # None /\ new.site = z /\ new.copied = code[z]
      /\ new.bytes = "fitting" /\ new.by = z
  <2>1. new \in Trampoline
    BY <1>0, <1>2 DEF Trampoline
  <2> QED
    BY <2>1, NoneFacts
<1>4. j \in MakingJob /\ j.op = "create" /\ j.key = k /\ j.site = z
      /\ j.address = a /\ j.original = code[z]
  BY <1>0, <1>2 DEF MakingJob
<1>5. job.op = "none" /\ job.site = None /\ ~Making /\ Making' /\ ~Removing'
  BY <1>1, <1>4 DEF NoJob, Making, Removing
<1> HIDE DEF new, j, z
<1>6. trampoline'[a] = new /\ \A b \in Address \ {a} : trampoline'[b] = trampoline[b]
  BY <1>1, <1>2
<1>7. code'[z] = Torn /\ \A x \in Site \ {z} : code'[x] = code[x]
  BY <1>0, <1>1, <1>2
<1>8. /\ Kept = DOMAIN detours /\ Kept' = DOMAIN detours /\ detours' = detours
      /\ \A x : At(x)' = At(x) /\ HooksOf(x)' = HooksOf(x)
      /\ \A x : SameHooks(x) /\ SameDetours(x)
  BY <1>1, <1>4, <1>5 DEF Kept, At, HooksOf, SameHooks, SameDetours
<1>9. /\ \A h \in DOMAIN detours : detours[h].trampoline \in Address /\ detours[h].trampoline # a
      /\ a \notin leaked /\ handle + 1 \notin DOMAIN detours
      /\ Torn # Game /\ Torn \notin DOMAIN detours
      /\ botched \subseteq botched' /\ (z \notin botched' => code[z] = Game)
  <2>1. \A h \in DOMAIN detours : detours[h].trampoline \in Address /\ detours[h].trampoline # a
    BY <1>1 DEF HookInv, DetoursStand, Shapes, Detour
  <2>2. a \notin leaked
    BY <1>1 DEF HookInv, DetoursStand
  <2> QED
    BY <1>1, <1>2, <2>1, <2>2 DEF Handles, Torn, Game
<1>10. strayed \cap Site \subseteq strayed' /\ crossed \subseteq crossed' /\ Sound' \subseteq Sound
  BY <1>1, SpellingFacts DEF Sound
<1>11. z \in Sound => SiteStands(z)
  BY DEF HookInv, SitesStand
<1>12. Shapes'
  <2>1. \A x \in Site : code'[x] \in {Game, Torn} \cup Handles'
    BY <1>1, <1>2, <1>7 DEF Handles
  <2>2. code' \in [Site -> Int]
    <3>1. code' = [code EXCEPT ![z] = Torn] /\ code \in [Site -> Int]
      BY <1>1, <1>2
    <3> QED
      BY <1>0, <3>1 DEF Torn
  <2>3. DOMAIN detours' \subseteq Handles' /\ handle' \in 0 .. MaxDetours
    BY <1>1, <1>2 DEF Handles
  <2>4. \A x \in Key : owned'[x] <= handle' /\ owned'[x] < handle'
    <3>1. \A x \in Key : owned[x] \in Nat /\ owned[x] <= handle
      BY DEF HookInv, Shapes
    <3> QED
      BY <1>1, <1>2, <3>1
  <2>5. trampoline' \in [Address -> Trampoline \cup {None}]
    BY <1>1, <1>2, <1>3
  <2>6. /\ raced' \subseteq Thread /\ botched' \subseteq Site /\ stale' \subseteq Address
        /\ strayed' \subseteq Site \cup Address /\ crossed' \subseteq Site
    BY <1>0, <1>1 DEF HookInv, Shapes, InCall
  <2>7. crossed' \subseteq botched' \cup strayed'
    <3>1. crossed \subseteq botched' \cup strayed'
      BY <1>9, <1>10 DEF HookInv, Shapes
    <3>2. ASSUME NEW i \in DOMAIN hooks, SiteOf[i] = z, z \notin strayed, z \notin crossed
          PROVE  z \in botched'
      <4>1. SiteStands(z) /\ i \in HooksOf(z)
        BY <1>0, <1>11, <3>2 DEF Sound, HooksOf
      <4>2. code[z] = hooks[i].handle /\ hooks[i].handle \in DOMAIN detours
        BY <1>5, <1>8, <4>1 DEF SiteStands, HookInv, HooksStand
      <4>3. code[z] # Game
        BY <1>2, <4>2 DEF Handles, Game
      <4> QED
        BY <1>1, <4>3
    <3> QED
      BY <1>0, <1>1, <1>10, <3>1, <3>2
  <2>8. /\ \A h \in DOMAIN detours : detours[h].original \in {Game, Torn} \cup Handles'
        /\ job'.original \in {Game, Torn} \cup Handles'
    BY <1>0, <1>1, <1>2, <1>4 DEF HookInv, Shapes, Handles
  <2> QED
    BY <1>1, <1>4, <2>1, <2>2, <2>3, <2>4, <2>5, <2>6, <2>7, <2>8 DEF HookInv, Shapes
<1>13. JobStands'
  <2>1. handle' > 0 /\ handle' \notin DOMAIN detours
    BY <1>1, <1>2, <1>9
  <2>2. /\ trampoline'[a] # None /\ trampoline'[a].site = z /\ trampoline'[a].copied = code[z]
    BY <1>3, <1>6
  <2>3. SiteOf[k] = z
    BY DEF z
  <2> USE <1>1, <1>4, <1>9
  <2> QED
    BY <1>5, <2>1, <2>2, <2>3 DEF JobStands
<1>14. DetoursStand'
  <2>1. \A h \in DOMAIN detours :
          /\ trampoline'[detours[h].trampoline] = trampoline[detours[h].trampoline]
          /\ detours[h].site \notin botched' => detours[h].original = Game
    BY <1>6, <1>9 DEF HookInv, DetoursStand
  <2>2. \A b \in Address : trampoline'[b] # None =>
          \/ b \in leaked \/ b = a \/ \E h \in DOMAIN detours : b = detours[h].trampoline
    BY <1>5, <1>6 DEF HookInv, DetoursStand
  <2>3. \A b \in leaked : trampoline'[b] # None
    BY <1>3, <1>6 DEF HookInv, DetoursStand, Shapes
  <2>4. detours' = detours /\ leaked' = leaked /\ job'.op = "create" /\ job'.address = a
    BY <1>1, <1>4
  <2> QED
    BY <2>1, <2>2, <2>3, <2>4 DEF HookInv, DetoursStand
<1>15. HooksStand'
  BY <1>1, <1>8 DEF HookInv, HooksStand
<1>16. SitesStand'
  <2>1. ASSUME z \in Sound' PROVE SiteStands(z)'
    <3>1. SiteStands(z)
      BY <1>10, <1>11, <2>1
    <3>2. HooksOf(z) \subseteq {k}
      BY <1>1, <2>1 DEF Sound, HooksOf
    <3>3. code[z] # Torn /\ (code[z] # Game => code[z] \in At(z))
      <4>1. code[z] # Torn
        BY <1>5, <3>1 DEF SiteStands
      <4>2. NamedOnce(z)
        BY <3>1 DEF SiteStands
      <4> QED
        BY <4>1, <4>2 DEF NamedOnce
    <3>4. code[z] # Game => \A h \in At(z) : detours[h].original # code[z]
      BY <3>1 DEF SiteStands, NamedOnce
    <3>5. \A h \in At(z) : h # Torn
      BY <1>8, <1>9 DEF At
    <3>6. NamedOnce(z)'
      BY <1>7, <1>8, <3>1, <3>5 DEF SiteStands, NamedOnce
    <3>7. JobAt(z)'
      BY <1>1, <1>4, <1>5, <1>7, <1>8, <3>2, <3>3, <3>4 DEF JobAt, Unnamed
    <3> QED
      BY <1>1, <1>4, <1>5, <1>7, <1>8, <3>2, <3>6, <3>7 DEF SiteStands
  <2>2. \A s \in Site \ {z} : job.site # s /\ job'.site # s
    BY <1>1, <1>4, <1>5, NoneFacts
  <2> QED
    BY <1>0, <1>7, <1>8, <1>9, <1>10, <1>12, <2>1, <2>2, Elsewhere
<1>17. BytesStand'
  BY <1>1, <1>3, <1>6 DEF HookInv, BytesStand
<1>18. ThreadsStand'
  <2>1. ASSUME NEW u \in Thread, at[u] # "away", u \notin raced'
        PROVE  LET x == frame[u].site
                   b == frame[u].target
               IN /\ job'.site # x /\ code'[x] = code[x] /\ SameHooks(x)
                  /\ Hooked(u) => /\ trampoline'[b] = trampoline[b]
                                  /\ b \in stale => b \in stale'
                                  /\ b \in strayed => b \in strayed'
    <3>1. frame[u].site # z /\ u \notin raced
      BY <1>0, <1>1, <2>1, NotInCall
    <3>2. frame[u].site \in Site
      BY <2>1, <3>1, NotAtTheJob
    <3>3. Hooked(u) => frame[u].target \in Address \ {a}
      BY <1>9, <2>1, HookedFacts DEF Kept
    <3> QED
      BY <1>1, <1>4, <1>6, <1>7, <1>8, <3>1, <3>2, <3>3
  <2> QED
    BY <1>1, <1>9, <1>10, <1>12, <2>1, ThreadsLeftAlone
<1> QED
  BY <1>12, <1>13, <1>14, <1>15, <1>16, <1>17, <1>18 DEF HookInv

LEMMA FinishDetourInv ==
  ASSUME HookInv, FinishDetour
  PROVE  HookInv'
<1>0. PICK z \in Site : job.site = z
  BY JobFacts DEF HookInv, FinishDetour
<1> DEFINE d == [site |-> z, original |-> job.original, trampoline |-> job.address]
           j == [job EXCEPT !.op = "insert"]
<1>1. /\ job.op = "create" /\ code' = [code EXCEPT ![z] = handle]
      /\ detours' = Put(detours, handle, d) /\ job' = j
      /\ UNCHANGED <<trampoline, hooks, owned, handle, at, frame, raced, botched, leaked, stale,
                     crossed, strayed>>
  BY <1>0 DEF FinishDetour
<1>2. /\ job \in MakingJob /\ job.address \in Address /\ job.original \in Int
      /\ code \in [Site -> Int] /\ handle \in 0 .. MaxDetours /\ MaxDetours \in Nat
  BY <1>1, JobFacts, SpellingFacts DEF HookInv, Shapes, Making
<1>3. /\ j \in MakingJob /\ j.op = "insert" /\ j.site = z /\ j.key = job.key
      /\ j.address = job.address /\ j.original = job.original
  BY <1>0, <1>2, MakingFacts
<1>4. /\ d \in Detour /\ d.site = z /\ d.original = job.original /\ d.trampoline = job.address
  BY <1>2 DEF Detour
<1> HIDE DEF d, j
<1>5. /\ handle > 0 /\ handle \notin DOMAIN detours
      /\ Making /\ Making' /\ ~Removing /\ ~Removing'
      /\ job.address \notin leaked /\ trampoline[job.address] # None
      /\ trampoline[job.address].site = z /\ trampoline[job.address].copied = job.original
      /\ \A h \in DOMAIN detours : detours[h].trampoline # job.address
      /\ z \notin botched => job.original = Game
      /\ SiteOf[job.key] = z
  BY <1>0, <1>1, <1>3 DEF HookInv, JobStands, Making, Removing
<1>6. /\ DOMAIN detours' = DOMAIN detours \cup {handle} /\ detours'[handle] = d
      /\ \A h \in DOMAIN detours : detours'[h] = detours[h] /\ h # handle
  <2>1. /\ DOMAIN Put(detours, handle, d) = DOMAIN detours \cup {handle}
        /\ Put(detours, handle, d)[handle] = d
        /\ \A y \in DOMAIN detours : y # handle => Put(detours, handle, d)[y] = detours[y]
    BY DEF Put
  <2> QED
    BY <1>1, <1>5, <2>1
<1>7. Kept = DOMAIN detours /\ Kept' = DOMAIN detours'
  BY <1>1, <1>3 DEF Kept
<1>8. code'[z] = handle /\ \A x \in Site \ {z} : code'[x] = code[x]
  BY <1>1, <1>2
<1>9. handle \notin {Game, Torn}
  BY <1>2, <1>5 DEF Game, Torn
<1>10. Shapes'
  <2>1. code' \in [Site -> Int]
    <3>1. code' = [code EXCEPT ![z] = handle] /\ handle \in Int
      BY <1>1, <1>2
    <3> QED
      BY <1>2, <3>1
  <2>2. \A x \in Site : code'[x] \in {Game, Torn} \cup Handles'
    BY <1>1, <1>2, <1>5, <1>8 DEF HookInv, Shapes, Handles
  <2>3. DOMAIN detours' \subseteq Handles' /\ \A h \in DOMAIN detours' : detours'[h] \in Detour
    BY <1>1, <1>2, <1>4, <1>5, <1>6 DEF HookInv, Shapes, Handles
  <2>4. /\ \A h \in DOMAIN detours' : detours'[h].original \in {Game, Torn} \cup Handles'
        /\ job'.original \in {Game, Torn} \cup Handles'
    BY <1>1, <1>3, <1>4, <1>5, <1>6 DEF HookInv, Shapes, Handles
  <2> QED
    BY <1>1, <1>3, <1>5, <2>1, <2>2, <2>3, <2>4 DEF HookInv, Shapes
<1>11. JobStands'
  <2>1. \A k \in DOMAIN hooks : hooks[k].handle # handle
    BY <1>5, <1>7 DEF HookInv, HooksStand
  <2> QED
    BY <1>1, <1>3, <1>4, <1>5, <1>6, <2>1 DEF JobStands
<1>12. DetoursStand'
  <2>1. \A h \in DOMAIN detours' :
          LET a == detours'[h].trampoline
          IN /\ trampoline[a] # None /\ a \notin leaked
             /\ trampoline[a].site = detours'[h].site
             /\ trampoline[a].copied = detours'[h].original
    BY <1>4, <1>5, <1>6 DEF HookInv, DetoursStand
  <2>2. \A h, k \in DOMAIN detours' : detours'[h].trampoline = detours'[k].trampoline => h = k
    BY <1>4, <1>5, <1>6 DEF HookInv, DetoursStand
  <2>3. \A h \in DOMAIN detours' : detours'[h].site \notin botched => detours'[h].original = Game
    BY <1>4, <1>5, <1>6 DEF HookInv, DetoursStand
  <2>4. \A a \in Address : trampoline[a] # None =>
          a \in leaked \/ \E h \in DOMAIN detours' : a = detours'[h].trampoline
    BY <1>4, <1>6 DEF HookInv, DetoursStand
  <2> QED
    BY <1>1, <2>1, <2>2, <2>3, <2>4 DEF HookInv, DetoursStand
<1>13. HooksStand'
  <2>1. \A k \in DOMAIN hooks : hooks[k].handle \in DOMAIN detours
    BY <1>7 DEF HookInv, HooksStand
  <2> QED
    BY <1>1, <1>6, <1>7, <2>1 DEF HookInv, HooksStand
<1>14. SitesStand'
  <2>1. ASSUME z \in Sound' PROVE SiteStands(z)'
    <3>1. z \in Sound /\ SiteStands(z)
      BY <1>1, <2>1 DEF Sound, HookInv, SitesStand
    <3>2. JobAt(z) /\ NamedOnce(z) /\ \A k, l \in HooksOf(z) : k = l
      BY <1>0, <3>1 DEF SiteStands
    <3>3. HooksOf(z)' = HooksOf(z) /\ HooksOf(z) \subseteq {job.key}
      BY <1>1, <1>5, <3>2 DEF HooksOf, JobAt
    <3>4. At(z) \subseteq DOMAIN detours
      BY <1>7 DEF At
    <3>5. {h \in Kept' : detours'[h].site = z} = At(z) \cup {handle}
      BY <1>4, <1>6, <1>7 DEF At
    <3>6. /\ job.original # Torn
          /\ job.original # Game =>
               /\ job.original \in At(z)
               /\ \A k \in At(z) : detours[k].original # job.original
      BY <1>1, <3>2 DEF JobAt, Unnamed
    <3>7. /\ detours'[handle].original = job.original
          /\ \A h \in At(z) : detours'[h] = detours[h] /\ h # handle
      BY <1>4, <1>6, <3>4
    <3>8. \A h \in At(z) \cup {handle} :
            /\ detours'[h].original # Torn
            /\ detours'[h].original # Game =>
                 detours'[h].original \in At(z) /\ handle # detours'[h].original
      BY <3>2, <3>4, <3>6, <3>7 DEF NamedOnce
    <3>9. \A h, k \in At(z) \cup {handle} :
            detours'[h].original = detours'[k].original /\ detours'[h].original # Game => h = k
      BY <3>2, <3>6, <3>7 DEF NamedOnce
    <3>10. At(z)' = At(z) \cup {handle}
      BY <3>5 DEF At
    <3>11. NamedOnce(z)'
      BY <1>8, <3>8, <3>9, <3>10 DEF NamedOnce
    <3>12. JobAt(z)'
      BY <1>1, <1>3, <1>5, <1>8, <3>3 DEF JobAt
    <3> QED
      BY <1>1, <1>3, <1>5, <1>8, <1>9, <3>2, <3>3, <3>11, <3>12 DEF SiteStands
  <2>2. ASSUME NEW s \in Site \ {z}
        PROVE  job.site # s /\ job'.site # s /\ code'[s] = code[s] /\ SameHooks(s) /\ SameDetours(s)
    <3>1. SameDetours(s)
      BY <1>4, <1>6, <1>7, <2>2 DEF SameDetours, At
    <3> QED
      BY <1>0, <1>1, <1>3, <1>8, <2>2, <3>1 DEF SameHooks
  <2>3. Sound' \subseteq Sound
    BY <1>1 DEF Sound
  <2> QED
    BY <1>1, <1>10, <2>1, <2>2, <2>3, Elsewhere
<1>15. BytesStand'
  BY <1>1 DEF HookInv, BytesStand
<1>16. ThreadsStand'
  <2>1. \A s : SameHooks(s)
    BY <1>1 DEF SameHooks
  <2> QED
    BY <1>0, <1>1, <1>3, <1>8, <1>10, <2>1, NotAtTheJob, ThreadsLeftAlone
<1> QED
  BY <1>10, <1>11, <1>12, <1>13, <1>14, <1>15, <1>16 DEF HookInv

LEMMA InsertHookInv ==
  ASSUME HookInv, NEW readable \in BOOLEAN, InsertHook(readable)
  PROVE  HookInv'
<1>0. PICK z \in Site, k \in Key : job.site = z /\ job.key = k
  BY JobFacts DEF HookInv, InsertHook
<1> DEFINE m == [handle |-> handle, address |-> job.address, readable |-> readable]
<1>1. /\ job.op = "insert" /\ hooks' = Put(hooks, k, m)
      /\ owned' = [owned EXCEPT ![k] = @ + 1] /\ job' = NoJob
      /\ UNCHANGED <<code, detours, trampoline, handle, at, frame, raced, botched, leaked, stale,
                     crossed, strayed>>
  BY <1>0 DEF InsertHook
<1>2. /\ job \in MakingJob /\ job.address \in Address /\ MaxDetours \in Nat
      /\ handle \in 0 .. MaxDetours /\ handle \in DOMAIN detours
      /\ detours[handle].site = z /\ detours[handle].trampoline = job.address
      /\ SiteOf[k] = z /\ \A i \in DOMAIN hooks : hooks[i].handle # handle
  BY <1>0, <1>1, JobFacts, SpellingFacts DEF HookInv, Shapes, JobStands, Making
<1>3. m \in Metadata /\ m.handle = handle /\ m.address = job.address
  <2>1. handle \in 1 .. MaxDetours
    BY <1>2 DEF HookInv, Shapes, Handles
  <2> QED
    BY <1>2, <2>1 DEF Metadata
<1> HIDE DEF m
<1>4. /\ DOMAIN hooks' = DOMAIN hooks \cup {k} /\ hooks'[k] = m
      /\ \A x \in DOMAIN hooks : x # k => hooks'[x] = hooks[x]
  <2>1. /\ DOMAIN Put(hooks, k, m) = DOMAIN hooks \cup {k}
        /\ Put(hooks, k, m)[k] = m
        /\ \A x \in DOMAIN hooks : x # k => Put(hooks, k, m)[x] = hooks[x]
    BY DEF Put
  <2> QED
    BY <1>1, <2>1
<1>5. /\ job'.op = "none" /\ job'.site = None /\ Making /\ ~Making' /\ ~Removing /\ ~Removing'
      /\ Kept = DOMAIN detours /\ Kept' = DOMAIN detours
  BY <1>1 DEF NoJob, Making, Removing, Kept
<1>6. Shapes'
  <2>1. \A x \in Key : owned[x] \in Nat /\ owned[x] < handle
    BY <1>5 DEF HookInv, Shapes
  <2>2. owned' \in [Key -> Nat] /\ \A x \in Key : owned'[x] <= handle
    BY <1>1, <1>2, <2>1 DEF HookInv, Shapes
  <2>3. DOMAIN hooks' \subseteq Key /\ \A x \in DOMAIN hooks' : hooks'[x] \in Metadata
    BY <1>3, <1>4 DEF HookInv, Shapes
  <2> QED
    BY <1>1, <1>5, <2>2, <2>3 DEF HookInv, Shapes, Handles
<1>7. JobStands'
  BY <1>1, <1>5 DEF JobStands
<1>8. DetoursStand'
  BY <1>1, <1>5 DEF HookInv, DetoursStand
<1>9. HooksStand'
  <2>1. \A x \in DOMAIN hooks' :
          LET h == hooks'[x].handle
          IN h \in Kept /\ detours[h].site = SiteOf[x] /\ hooks'[x].address = detours[h].trampoline
    BY <1>2, <1>3, <1>4, <1>5 DEF HookInv, HooksStand
  <2>2. \A x, y \in DOMAIN hooks' : hooks'[x].handle = hooks'[y].handle => x = y
    BY <1>2, <1>3, <1>4 DEF HookInv, HooksStand
  <2> QED
    BY <1>1, <1>5, <2>1, <2>2 DEF HooksStand
<1>10. \A s \in Site \ {z} : SameHooks(s)
  BY <1>2, <1>4 DEF SameHooks
<1>11. \A x : At(x)' = At(x) /\ SameDetours(x)
  BY <1>1, <1>5 DEF At, SameDetours
<1>12. SitesStand'
  <2>1. ASSUME z \in Sound' PROVE SiteStands(z)'
    <3>1. z \in Sound /\ SiteStands(z)
      BY <1>1, <2>1 DEF Sound, HookInv, SitesStand
    <3>2. code[z] = handle /\ HooksOf(z) \subseteq {k} /\ NamedOnce(z)
      BY <1>0, <1>1, <1>5, <3>1 DEF SiteStands, JobAt
    <3>3. HooksOf(z)' = {k}
      BY <1>2, <1>4, <3>2 DEF HooksOf
    <3>4. NamedOnce(z)'
      BY <1>1, <1>11, <3>2 DEF NamedOnce
    <3>5. handle # Torn /\ None # z
      BY <1>2, NoneFacts DEF Torn
    <3> QED
      BY <1>1, <1>3, <1>4, <1>5, <3>2, <3>3, <3>4, <3>5 DEF SiteStands
  <2>2. \A s \in Site \ {z} : job.site # s /\ job'.site # s /\ code'[s] = code[s]
    BY <1>0, <1>1, <1>5, NoneFacts
  <2>3. Sound' \subseteq Sound
    BY <1>1 DEF Sound
  <2> QED
    BY <1>1, <1>6, <1>10, <1>11, <2>1, <2>2, <2>3, Elsewhere
<1>13. BytesStand'
  BY <1>1 DEF HookInv, BytesStand
<1>14. ThreadsStand'
  <2>1. ASSUME NEW u \in Thread, at[u] # "away", u \notin raced'
        PROVE  job'.site # frame[u].site /\ SameHooks(frame[u].site)
    BY <1>0, <1>1, <1>10, <2>1, NotAtTheJob
  <2> QED
    BY <1>1, <1>6, <2>1, ThreadsLeftAlone
<1> QED
  BY <1>6, <1>7, <1>8, <1>9, <1>12, <1>13, <1>14 DEF HookInv

LEMMA UnregisterInv ==
  ASSUME HookInv, NEW k \in Key, Unregister(k)
  PROVE  HookInv'
<1>0. PICK z \in Site : SiteOf[k] = z
  BY SpellingFacts
<1> DEFINE j == [op |-> "remove", key |-> k, site |-> z, handle |-> hooks[k].handle]
<1>1. /\ job = NoJob /\ owned[k] > 0 /\ owned' = [owned EXCEPT ![k] = @ - 1]
      /\ hooks' = Without(hooks, k)
      /\ job' = (IF k \in DOMAIN hooks THEN j ELSE NoJob)
      /\ raced' = raced \cup InCall(z)
      /\ UNCHANGED <<code, detours, trampoline, handle, at, frame, botched, leaked, stale,
                     crossed, strayed>>
  BY <1>0 DEF Unregister
<1>2. /\ job.op = "none" /\ job.site = None /\ ~Making /\ Kept = DOMAIN detours /\ z # None
  BY <1>1, NoneFacts DEF NoJob, Making, Kept
<1>3. k \in DOMAIN hooks =>
        /\ j \in RemovingJob /\ j.op = "remove" /\ j.key = k /\ j.site = z
        /\ j.handle = hooks[k].handle
        /\ j.handle \in DOMAIN detours /\ detours[j.handle].site = z
  <2> SUFFICES ASSUME k \in DOMAIN hooks
               PROVE  /\ hooks[k].handle \in 1 .. MaxDetours
                      /\ hooks[k].handle \in DOMAIN detours
                      /\ detours[hooks[k].handle].site = z
    BY DEF RemovingJob
  <2>1. hooks[k] \in Metadata
    BY DEF HookInv, Shapes
  <2> QED
    BY <1>0, <1>2, <2>1 DEF HookInv, HooksStand, Metadata
<1> HIDE DEF j
<1>4. /\ DOMAIN hooks' = DOMAIN hooks \ {k}
      /\ \A x \in DOMAIN hooks : x # k => hooks'[x] = hooks[x]
  BY <1>1, WithoutFacts
<1>5. /\ job'.op \in {"none", "remove"} /\ ~Making' /\ Kept' = DOMAIN detours
      /\ job' \in {NoJob} \cup RemovingJob /\ job'.site \in {z, None}
      /\ job'.op = "remove" => k \in DOMAIN hooks /\ job' = j
      /\ k \in DOMAIN hooks => job' = j /\ job'.op = "remove" /\ job'.site = z
      /\ Removing' => job'.op = "remove"
  <2>1. CASE k \in DOMAIN hooks
    BY <1>1, <1>3, <2>1 DEF Making, Removing, Kept
  <2>2. CASE k \notin DOMAIN hooks
    BY <1>1, <2>2 DEF Making, Removing, Kept, NoJob
  <2> QED
    BY <2>1, <2>2
<1>6. Shapes'
  <2>1. \A x \in Key : owned[x] \in Nat /\ owned[x] <= handle
    BY DEF HookInv, Shapes
  <2>2. owned' \in [Key -> Nat] /\ \A x \in Key : owned'[x] <= handle
    <3>1. handle \in Int /\ owned \in [Key -> Nat]
      BY DEF HookInv, Shapes
    <3> QED
      BY <1>1, <2>1, <3>1
  <2>3. DOMAIN hooks' \subseteq Key /\ \A x \in DOMAIN hooks' : hooks'[x] \in Metadata
    BY <1>4 DEF HookInv, Shapes
  <2>4. raced' \subseteq Thread
    BY <1>1 DEF HookInv, Shapes, InCall
  <2> QED
    BY <1>1, <1>5, <2>2, <2>3, <2>4 DEF HookInv, Shapes, Handles
<1>7. JobStands'
  <2>1. k \in DOMAIN hooks => \A x \in DOMAIN hooks' : hooks'[x].handle # j.handle
    BY <1>3, <1>4 DEF HookInv, HooksStand
  <2> QED
    BY <1>1, <1>3, <1>5, <2>1 DEF JobStands
<1>8. DetoursStand'
  BY <1>1, <1>2, <1>5 DEF HookInv, DetoursStand
<1>9. HooksStand'
  BY <1>1, <1>2, <1>4, <1>5 DEF HookInv, HooksStand
<1>10. \A s \in Site \ {z} : SameHooks(s)
  BY <1>0, <1>4 DEF SameHooks
<1>11. \A x : At(x)' = At(x) /\ SameDetours(x)
  BY <1>1, <1>2, <1>5 DEF At, SameDetours
<1>12. SitesStand'
  <2>1. ASSUME z \in Sound' PROVE SiteStands(z)'
    <3>1. z \in Sound /\ SiteStands(z)
      BY <1>1, <2>1 DEF Sound, HookInv, SitesStand
    <3>2. code[z] # Torn /\ NamedOnce(z)
      BY <1>2, <3>1 DEF SiteStands
    <3>3. NamedOnce(z)'
      BY <1>1, <1>11, <3>2 DEF NamedOnce
    <3>4. CASE k \in DOMAIN hooks
      <4>1. k \in HooksOf(z) /\ code[z] = j.handle
        BY <1>0, <1>2, <1>3, <3>1, <3>4 DEF HooksOf, SiteStands
      <4>2. HooksOf(z)' = {}
        BY <1>4, <3>1, <4>1 DEF SiteStands, HooksOf
      <4>3. JobAt(z)'
        BY <1>1, <1>3, <1>5, <3>4, <4>1, <4>2 DEF JobAt
      <4> QED
        BY <1>1, <1>5, <3>2, <3>3, <3>4, <4>2, <4>3 DEF SiteStands
    <3>5. CASE k \notin DOMAIN hooks
      <4>1. HooksOf(z)' = HooksOf(z) /\ \A x \in HooksOf(z) : hooks'[x] = hooks[x]
        BY <1>4, <3>5 DEF HooksOf
      <4>2. job'.op = "none" /\ job'.site = None
        BY <1>1, <3>5 DEF NoJob
      <4> QED
        BY <1>1, <1>2, <1>5, <3>1, <3>2, <3>3, <4>1, <4>2 DEF SiteStands
    <3> QED
      BY <3>4, <3>5
  <2>2. \A s \in Site \ {z} : job.site # s /\ job'.site # s /\ code'[s] = code[s]
    BY <1>1, <1>2, <1>5, NoneFacts
  <2>3. Sound' \subseteq Sound
    BY <1>1 DEF Sound
  <2> QED
    BY <1>1, <1>6, <1>10, <1>11, <2>1, <2>2, <2>3, Elsewhere
<1>13. BytesStand'
  BY <1>1 DEF HookInv, BytesStand
<1>14. ThreadsStand'
  <2>1. ASSUME NEW u \in Thread, at[u] # "away", u \notin raced'
        PROVE  job'.site # frame[u].site /\ SameHooks(frame[u].site)
    <3>1. frame[u].site # z /\ u \notin raced
      BY <1>1, <2>1, NotInCall
    <3>2. frame[u].site # None /\ frame[u].site \in Site
      BY <2>1, <3>1, NotAtTheJob, NoneFacts
    <3> QED
      BY <1>5, <1>10, <3>1, <3>2
  <2> QED
    BY <1>1, <1>6, <2>1, ThreadsLeftAlone
<1> QED
  BY <1>6, <1>7, <1>8, <1>9, <1>12, <1>13, <1>14 DEF HookInv

LEMMA RemoveDetourInv ==
  ASSUME HookInv, RemoveDetour
  PROVE  HookInv'
<1>0. PICK z \in Site, h \in DOMAIN detours :
        job.site = z /\ job.handle = h /\ detours[h].site = z
  BY JobFacts DEF HookInv, RemoveDetour, JobStands, Removing
<1> DEFINE j == [job EXCEPT !.op = "restore"]
<1>1. /\ job.op = "remove" /\ code' = [code EXCEPT ![z] = Torn] /\ job' = j
      /\ UNCHANGED <<detours, trampoline, hooks, owned, handle, at, frame, raced, botched,
                     leaked, stale, crossed, strayed>>
  BY <1>0 DEF RemoveDetour
<1>2. /\ job \in RemovingJob /\ code \in [Site -> Int] /\ Torn # Game /\ h \notin {Game, Torn}
  <2>1. h \in 1 .. MaxDetours /\ job \in RemovingJob
    BY <1>0, <1>1, JobFacts DEF HookInv, Removing
  <2> QED
    BY <2>1, SpellingFacts DEF HookInv, Shapes, Game, Torn
<1>3. j \in RemovingJob /\ j.op = "restore" /\ j.site = z /\ j.handle = h
  BY <1>0, <1>2, RemovingFacts
<1> HIDE DEF j
<1>4. /\ ~Making /\ ~Making' /\ Removing /\ Removing'
      /\ Kept = DOMAIN detours /\ Kept' = DOMAIN detours
  BY <1>1, <1>3 DEF Making, Removing, Kept
<1>5. code'[z] = Torn /\ \A x \in Site \ {z} : code'[x] = code[x]
  BY <1>1, <1>2
<1>6. \A x : /\ At(x)' = At(x) /\ HooksOf(x)' = HooksOf(x)
             /\ SameHooks(x) /\ SameDetours(x)
  BY <1>1, <1>4 DEF At, HooksOf, SameHooks, SameDetours
<1>7. Shapes'
  <2>1. code' \in [Site -> Int]
    BY <1>1, <1>2 DEF Torn
  <2>2. \A x \in Site : code'[x] \in {Game, Torn} \cup Handles
    BY <1>5 DEF HookInv, Shapes
  <2> QED
    BY <1>1, <1>3, <1>4, <2>1, <2>2 DEF HookInv, Shapes, Handles
<1>8. JobStands'
  BY <1>0, <1>1, <1>3, <1>4 DEF HookInv, JobStands
<1>9. DetoursStand'
  BY <1>1, <1>3 DEF HookInv, DetoursStand
<1>10. HooksStand'
  BY <1>1, <1>4 DEF HookInv, HooksStand
<1>11. SitesStand'
  <2>1. ASSUME z \in Sound' PROVE SiteStands(z)'
    <3>1. z \in Sound /\ SiteStands(z)
      BY <1>1, <2>1 DEF Sound, HookInv, SitesStand
    <3>2. NamedOnce(z) /\ HooksOf(z) = {} /\ code[z] = h
      BY <1>0, <1>1, <1>4, <3>1 DEF SiteStands, JobAt
    <3>3. \A k \in At(z) : detours[k].original # h
      BY <1>2, <3>2 DEF NamedOnce
    <3>4. \A k \in At(z) : k # Torn
      <4>1. \A k \in DOMAIN detours : k \in 1 .. handle /\ handle \in Nat
        BY DEF HookInv, Shapes, Handles
      <4> QED
        BY <1>4, <4>1 DEF At, Torn
    <3>5. NamedOnce(z)'
      BY <1>1, <1>5, <1>6, <3>2, <3>4 DEF NamedOnce
    <3>6. JobAt(z)'
      BY <1>1, <1>2, <1>3, <1>4, <1>5, <1>6, <3>2, <3>3 DEF JobAt, Unnamed
    <3> QED
      BY <1>1, <1>3, <1>5, <1>6, <3>2, <3>5, <3>6 DEF SiteStands
  <2>2. \A s \in Site \ {z} : job.site # s /\ job'.site # s
    BY <1>0, <1>1, <1>3
  <2>3. Sound' \subseteq Sound
    BY <1>1 DEF Sound
  <2> QED
    BY <1>1, <1>5, <1>6, <1>7, <2>1, <2>2, <2>3, Elsewhere
<1>12. BytesStand'
  BY <1>1 DEF HookInv, BytesStand
<1>13. ThreadsStand'
  BY <1>0, <1>1, <1>3, <1>5, <1>6, <1>7, NotAtTheJob, ThreadsLeftAlone
<1> QED
  BY <1>7, <1>8, <1>9, <1>10, <1>11, <1>12, <1>13 DEF HookInv

LEMMA KeepDetourInv ==
  ASSUME HookInv, KeepDetour
  PROVE  HookInv'
<1>0. PICK z \in Site : job.site = z
  BY JobFacts DEF HookInv, KeepDetour
<1>1. /\ job.op = "remove" /\ job' = NoJob /\ botched' = botched \cup {z}
      /\ UNCHANGED <<code, detours, trampoline, hooks, owned, handle, at, frame, raced, leaked,
                     stale, crossed, strayed>>
  BY <1>0 DEF KeepDetour
<1>2. /\ job'.op = "none" /\ job'.site = None /\ ~Making /\ ~Making' /\ Removing /\ ~Removing'
      /\ Kept = DOMAIN detours /\ Kept' = DOMAIN detours
  BY <1>1 DEF NoJob, Making, Removing, Kept
<1>3. \A x : /\ At(x)' = At(x) /\ HooksOf(x)' = HooksOf(x)
             /\ SameHooks(x) /\ SameDetours(x)
  BY <1>1, <1>2 DEF At, HooksOf, SameHooks, SameDetours
<1>4. Shapes'
  BY <1>1, <1>2 DEF HookInv, Shapes, Handles
<1>5. JobStands'
  BY <1>1, <1>2 DEF HookInv, JobStands
<1>6. DetoursStand'
  BY <1>1, <1>2 DEF HookInv, DetoursStand
<1>7. HooksStand'
  BY <1>1, <1>2 DEF HookInv, HooksStand
<1>8. SitesStand'
  <2>1. ASSUME z \in Sound' PROVE SiteStands(z)'
    <3>1. z \in Sound /\ SiteStands(z)
      BY <1>1, <2>1 DEF Sound, HookInv, SitesStand
    <3>2. NamedOnce(z) /\ HooksOf(z) = {} /\ code[z] # Torn
      BY <1>0, <1>1, <1>2, <3>1 DEF SiteStands, JobAt
    <3>3. NamedOnce(z)'
      BY <1>1, <1>3, <3>2 DEF NamedOnce
    <3> QED
      BY <1>1, <1>2, <1>3, <3>2, <3>3, NoneFacts DEF SiteStands
  <2>2. \A s \in Site \ {z} : job.site # s /\ job'.site # s
    BY <1>0, <1>2, NoneFacts
  <2>3. Sound' \subseteq Sound
    BY <1>1 DEF Sound
  <2> QED
    BY <1>1, <1>3, <1>4, <2>1, <2>2, <2>3, Elsewhere
<1>9. BytesStand'
  BY <1>1 DEF HookInv, BytesStand
<1>10. ThreadsStand'
  BY <1>1, <1>3, <1>4, NotAtTheJob, ThreadsLeftAlone
<1> QED
  BY <1>4, <1>5, <1>6, <1>7, <1>8, <1>9, <1>10 DEF HookInv

LEMMA RestoreInv ==
  ASSUME HookInv, Restore
  PROVE  HookInv'
<1>0. PICK z \in Site, h \in DOMAIN detours :
        job.site = z /\ job.handle = h /\ detours[h].site = z
  BY JobFacts DEF HookInv, Restore, JobStands, Removing
<1>00. PICK o \in Int : detours[h].original = o
  BY DEF HookInv, Shapes, Detour
<1> DEFINE j == [job EXCEPT !.op = "free"]
<1>1. /\ job.op = "restore" /\ code' = [code EXCEPT ![z] = o] /\ job' = j
      /\ UNCHANGED <<detours, trampoline, hooks, owned, handle, at, frame, raced, botched,
                     leaked, stale, crossed, strayed>>
  BY <1>0, <1>00 DEF Restore
<1>2. job \in RemovingJob /\ code \in [Site -> Int]
  BY <1>1, JobFacts DEF HookInv, Shapes, Removing
<1>3. j \in RemovingJob /\ j.op = "free" /\ j.site = z /\ j.handle = h
  BY <1>0, <1>2, RemovingFacts
<1> HIDE DEF j
<1>4. /\ ~Making /\ ~Making' /\ Removing /\ Removing'
      /\ Kept = DOMAIN detours /\ Kept' = DOMAIN detours \ {h}
  BY <1>1, <1>3 DEF Making, Removing, Kept
<1>5. code'[z] = o /\ \A x \in Site \ {z} : code'[x] = code[x]
  BY <1>1, <1>2
<1>6. /\ \A x : HooksOf(x)' = HooksOf(x) /\ SameHooks(x)
      /\ \A x \in Site \ {z} : SameDetours(x)
      /\ At(z)' = At(z) \ {h} /\ h \in At(z)
  BY <1>0, <1>1, <1>4 DEF At, HooksOf, SameHooks, SameDetours
<1>7. Shapes'
  <2>1. code' \in [Site -> Int]
    BY <1>1, <1>2
  <2>2. o \in {Game, Torn} \cup Handles
    BY <1>00 DEF HookInv, Shapes
  <2>3. \A x \in Site : code'[x] \in {Game, Torn} \cup Handles
    BY <1>5, <2>2 DEF HookInv, Shapes
  <2> QED
    BY <1>1, <1>3, <1>4, <2>1, <2>3 DEF HookInv, Shapes, Handles
<1>8. JobStands'
  BY <1>0, <1>1, <1>3, <1>4 DEF HookInv, JobStands
<1>9. DetoursStand'
  BY <1>1, <1>3 DEF HookInv, DetoursStand
<1>10. HooksStand'
  <2>1. \A k \in DOMAIN hooks : hooks[k].handle # h
    BY <1>0, <1>4 DEF HookInv, JobStands
  <2> QED
    BY <1>1, <1>4, <2>1 DEF HookInv, HooksStand
<1>11. SitesStand'
  <2>1. ASSUME z \in Sound' PROVE SiteStands(z)'
    <3>1. z \in Sound /\ SiteStands(z)
      BY <1>1, <2>1 DEF Sound, HookInv, SitesStand
    <3>2. NamedOnce(z) /\ HooksOf(z) = {}
      BY <1>0, <1>1, <1>4, <3>1 DEF SiteStands, JobAt
    <3>3. \A k \in At(z) : detours[k].original # h
      BY <1>0, <1>1, <3>1 DEF SiteStands, JobAt, Unnamed
    <3>4. o # Torn /\ o # h /\ (o # Game => o \in At(z))
      BY <1>00, <1>6, <3>2, <3>3 DEF NamedOnce
    <3>5. \A k \in At(z) \ {h} : detours[k].original # Game => detours[k].original # o
      BY <1>00, <1>6, <3>2 DEF NamedOnce
    <3>6. NamedOnce(z)'
      BY <1>1, <1>5, <1>6, <3>2, <3>3, <3>4, <3>5 DEF NamedOnce
    <3>7. JobAt(z)'
      BY <1>00, <1>1, <1>3, <1>4, <1>5, <1>6, <3>2, <3>3, <3>4 DEF JobAt, Unnamed
    <3> QED
      BY <1>1, <1>3, <1>5, <1>6, <3>2, <3>4, <3>6, <3>7 DEF SiteStands
  <2>2. \A s \in Site \ {z} : job.site # s /\ job'.site # s
    BY <1>0, <1>1, <1>3
  <2>3. Sound' \subseteq Sound
    BY <1>1 DEF Sound
  <2> QED
    BY <1>1, <1>5, <1>6, <1>7, <2>1, <2>2, <2>3, Elsewhere
<1>12. BytesStand'
  BY <1>1 DEF HookInv, BytesStand
<1>13. ThreadsStand'
  BY <1>0, <1>1, <1>3, <1>5, <1>6, <1>7, NotAtTheJob, ThreadsLeftAlone
<1> QED
  BY <1>7, <1>8, <1>9, <1>10, <1>11, <1>12, <1>13 DEF HookInv

LEMMA FreeInv ==
  ASSUME HookInv, NEW ok \in BOOLEAN, Free(ok)
  PROVE  HookInv'
<1>0. PICK z \in Site, h \in DOMAIN detours :
        job.site = z /\ job.handle = h /\ detours[h].site = z
  BY JobFacts DEF HookInv, Free, JobStands, Removing
<1>00. PICK a \in Address : detours[h].trampoline = a
  BY DEF HookInv, Shapes, Detour
<1>1. /\ job.op = "free" /\ trampoline' = [trampoline EXCEPT ![a] = IF ok THEN None ELSE @]
      /\ detours' = Without(detours, h) /\ job' = NoJob
      /\ leaked' = (IF ok THEN leaked ELSE leaked \cup {a})
      /\ UNCHANGED <<code, hooks, owned, handle, at, frame, raced, botched, stale, crossed,
                     strayed>>
  BY <1>0, <1>00 DEF Free
<1>2. /\ trampoline \in [Address -> Trampoline \cup {None}]
      /\ trampoline[a] # None /\ a \notin leaked /\ leaked \subseteq Address
      /\ \A k \in DOMAIN hooks : hooks[k].handle # h
  BY <1>0, <1>00, <1>1 DEF HookInv, Shapes, DetoursStand, JobStands, Removing
<1>3. /\ job'.op = "none" /\ job'.site = None /\ ~Making /\ ~Making' /\ Removing /\ ~Removing'
  BY <1>1 DEF NoJob, Making, Removing
<1>4. /\ DOMAIN detours' = DOMAIN detours \ {h}
      /\ \A k \in DOMAIN detours' : detours'[k] = detours[k] /\ detours[k].trampoline # a
  <2>1. /\ DOMAIN detours' = DOMAIN detours \ {h}
        /\ \A k \in DOMAIN detours : k # h => detours'[k] = detours[k]
    BY <1>1 DEF Without
  <2> QED
    BY <1>00, <2>1 DEF HookInv, DetoursStand
<1>5. Kept = DOMAIN detours' /\ Kept' = DOMAIN detours'
  BY <1>0, <1>1, <1>3, <1>4 DEF Kept
<1>6. /\ trampoline' \in [Address -> Trampoline \cup {None}]
      /\ trampoline'[a] = IF ok THEN None ELSE trampoline[a]
      /\ \A b \in Address \ {a} : trampoline'[b] = trampoline[b]
  BY <1>1, <1>2
<1>7. \A x : /\ At(x)' = At(x) /\ HooksOf(x)' = HooksOf(x)
             /\ SameHooks(x) /\ SameDetours(x)
             /\ \A k \in At(x) : detours'[k] = detours[k]
  BY <1>1, <1>4, <1>5 DEF At, HooksOf, SameHooks, SameDetours
<1>8. Shapes'
  <2>1. DOMAIN detours' \subseteq Handles' /\ \A k \in DOMAIN detours' : detours'[k] \in Detour
    BY <1>1, <1>4 DEF HookInv, Shapes, Handles
  <2>2. leaked' \subseteq Address
    BY <1>1, <1>2
  <2>3. \A k \in DOMAIN detours' : detours'[k].original \in {Game, Torn} \cup Handles'
    BY <1>1, <1>4 DEF HookInv, Shapes, Handles
  <2> QED
    BY <1>1, <1>3, <1>6, <2>1, <2>2, <2>3 DEF HookInv, Shapes, Handles
<1>9. JobStands'
  BY <1>1, <1>3 DEF JobStands
<1>10. DetoursStand'
  <2>1. \A k \in DOMAIN detours' :
          LET b == detours'[k].trampoline
          IN /\ b \in Address /\ trampoline'[b] = trampoline[b]
             /\ trampoline[b] # None /\ b \notin leaked'
             /\ trampoline[b].site = detours'[k].site
             /\ trampoline[b].copied = detours'[k].original
    <3>1. \A k \in DOMAIN detours :
            LET b == detours[k].trampoline
            IN /\ b \in Address /\ trampoline[b] # None /\ b \notin leaked
               /\ trampoline[b].site = detours[k].site
               /\ trampoline[b].copied = detours[k].original
      BY DEF HookInv, Shapes, DetoursStand, Detour
    <3> QED
      BY <1>1, <1>4, <1>6, <3>1
  <2>2. \A b \in Address : trampoline'[b] # None =>
          b \in leaked' \/ \E k \in DOMAIN detours' : b = detours'[k].trampoline
    <3> SUFFICES ASSUME NEW b \in Address, trampoline'[b] # None
                 PROVE  b \in leaked' \/ \E k \in DOMAIN detours' : b = detours'[k].trampoline
      OBVIOUS
    <3>1. CASE b = a
      BY <1>1, <1>6, <3>1
    <3>2. CASE b # a
      <4>1. trampoline[b] # None
        BY <1>6, <3>2
      <4>2. b \in leaked \/ \E k \in DOMAIN detours : b = detours[k].trampoline
        BY <1>1, <4>1 DEF HookInv, DetoursStand
      <4>3. ASSUME NEW k \in DOMAIN detours, b = detours[k].trampoline
            PROVE  k \in DOMAIN detours' /\ detours'[k] = detours[k]
        BY <1>00, <1>4, <3>2, <4>3
      <4> QED
        BY <1>1, <4>2, <4>3
    <3> QED
      BY <3>1, <3>2
  <2>3. \A b \in leaked' : trampoline'[b] # None
    <3>1. \A b \in leaked : trampoline[b] # None
      BY DEF HookInv, DetoursStand
    <3> QED
      BY <1>1, <1>2, <1>6, <3>1
  <2>4. \A k, l \in DOMAIN detours' : detours'[k].trampoline = detours'[l].trampoline => k = l
    BY <1>4 DEF HookInv, DetoursStand
  <2>5. \A k \in DOMAIN detours' : detours'[k].site \notin botched' => detours'[k].original = Game
    BY <1>1, <1>4 DEF HookInv, DetoursStand
  <2> QED
    BY <2>1, <2>2, <2>3, <2>4, <2>5 DEF DetoursStand
<1>11. HooksStand'
  <2>1. \A k \in DOMAIN hooks : hooks[k].handle \in DOMAIN detours'
    BY <1>5 DEF HookInv, HooksStand
  <2> QED
    BY <1>1, <1>4, <1>5, <2>1 DEF HookInv, HooksStand
<1>12. SitesStand'
  <2>1. ASSUME z \in Sound' PROVE SiteStands(z)'
    <3>1. z \in Sound /\ SiteStands(z)
      BY <1>1, <2>1 DEF Sound, HookInv, SitesStand
    <3>2. /\ NamedOnce(z) /\ HooksOf(z) = {} /\ code[z] # Torn
          /\ code[z] = detours[h].original
      BY <1>0, <1>1, <1>3, <3>1 DEF SiteStands, JobAt
    <3>3. NamedOnce(z)'
      BY <1>1, <1>7, <3>2 DEF NamedOnce
    <3>4. z \notin botched => code[z] = Game
      BY <1>0, <3>2 DEF HookInv, DetoursStand
    <3> QED
      BY <1>1, <1>3, <1>7, <3>2, <3>3, <3>4, NoneFacts DEF SiteStands
  <2>2. \A s \in Site \ {z} : job.site # s /\ job'.site # s
    BY <1>0, <1>3, NoneFacts
  <2>3. Sound' \subseteq Sound
    BY <1>1 DEF Sound
  <2> QED
    BY <1>1, <1>7, <1>8, <2>1, <2>2, <2>3, Elsewhere
<1>13. BytesStand'
  BY <1>1, <1>6 DEF HookInv, BytesStand
<1>14. ThreadsStand'
  <2>1. ASSUME NEW u \in Thread, at[u] # "away", u \notin raced'
        PROVE  /\ job'.site # frame[u].site
               /\ Hooked(u) => trampoline'[frame[u].target] = trampoline[frame[u].target]
    <3>1. job'.site # frame[u].site
      BY <1>1, <2>1, NotAtTheJob
    <3>2. ASSUME Hooked(u)
          PROVE  trampoline'[frame[u].target] = trampoline[frame[u].target]
      <4>1. PICK k \in Kept : detours[k].trampoline = frame[u].target
        BY <2>1, <3>2, HookedFacts
      <4>2. frame[u].target \in Address \ {a}
        BY <1>4, <1>5, <4>1 DEF HookInv, Shapes, Detour
      <4> QED
        BY <1>6, <4>2
    <3> QED
      BY <3>1, <3>2
  <2> QED
    BY <1>1, <1>7, <1>8, <2>1, ThreadsLeftAlone
<1> QED
  BY <1>8, <1>9, <1>10, <1>11, <1>12, <1>13, <1>14 DEF HookInv

-----------------------------------------------------------------------------
LEMMA StepInv == HookInv /\ [Next]_vars => HookInv'
<1> SUFFICES ASSUME HookInv, [Next]_vars PROVE HookInv'
  OBVIOUS
<1>1. CASE Runtime
  <2>1. ASSUME NEW k \in Key, Unregister(k) PROVE HookInv'
    BY <2>1, UnregisterInv
  <2>2. ASSUME NEW k \in Key, NEW a \in Address, CreateDetour(k, a) PROVE HookInv'
    BY <2>2, CreateDetourInv
  <2>3. CASE FinishDetour
    BY <2>3, FinishDetourInv
  <2>4. CASE RemoveDetour
    BY <2>4, RemoveDetourInv
  <2>5. CASE KeepDetour
    BY <2>5, KeepDetourInv
  <2>6. CASE Restore
    BY <2>6, RestoreInv
  <2>7. ASSUME NEW ok \in BOOLEAN, InsertHook(ok) PROVE HookInv'
    BY <2>7, InsertHookInv
  <2>8. ASSUME NEW ok \in BOOLEAN, Free(ok) PROVE HookInv'
    BY <2>8, FreeInv
  <2>9. ASSUME NEW t \in Thread, NEW d \in Decision \cup {DefaultDecision}, Answer(t, d)
        PROVE  HookInv'
    BY <2>9, AnswerInv DEF Decisions
  <2> QED
    BY <1>1, <2>1, <2>2, <2>3, <2>4, <2>5, <2>6, <2>7, <2>8, <2>9 DEF Runtime
<1>2. ASSUME NEW t \in Thread, CallGoesOn(t) PROVE HookInv'
  BY <1>2, PassSiteInv, LookUpInv, ReceiveInv, GiveUpInv, OverrideInv, ReturnInv, LeaveInv
  DEF CallGoesOn
<1>3. ASSUME NEW t \in Thread, NEW s \in Site, Arrive(t, s) PROVE HookInv'
  BY <1>3, ArriveInv
<1>4. CASE UNCHANGED vars
  <2>1. UNCHANGED <<code, detours, trampoline, hooks, owned, job, handle, at, frame, raced,
                    botched, leaked, stale, crossed, strayed>>
    BY <1>4 DEF vars
  <2>2. Shapes' /\ BytesStand'
    BY <2>1 DEF HookInv, Shapes, BytesStand, Handles, Making
  <2>3. JobStands' /\ DetoursStand' /\ HooksStand' /\ SitesStand'
    <3>1. OnlyStrayed
      BY <2>1 DEF OnlyStrayed, HookInv, Shapes
    <3> QED
      BY <2>1, <3>1, RuntimeStands DEF runtimeVars, Alike
  <2>4. ThreadsStand'
    BY <2>1 DEF HookInv, ThreadsStand, InHand, Undisturbed, Hooked, HooksOf
  <2> QED
    BY <2>2, <2>3, <2>4 DEF HookInv
<1> QED
  BY <1>1, <1>2, <1>3, <1>4 DEF Next

(* However the steps of the runtime thread and of the game's threads mix,  *)
(* each detour has a trampoline of its own and at a sound site is named    *)
(* once, and a thread that met no write still has what it found.           *)
THEOREM HookInvariant == Spec => []HookInv
<1> QED
  BY InitInv, StepInv, PTL DEF Spec

(* The state of hook.rs, of g_detours and of the threads keeps its types,  *)
(* and no hook is owed to the addons more often than it was made.          *)
THEOREM TypeCorrect == Spec => []TypeOK
<1>1. HookInv => TypeOK
  <2> SUFFICES ASSUME HookInv PROVE TypeOK
    OBVIOUS
  <2>1. Shapes
    BY DEF HookInv
  <2>2. MaxDetours \in Nat /\ handle \in 0 .. MaxDetours
    BY <2>1, DecisionAssumption DEF Shapes
  <2>3. owned \in [Key -> 0 .. MaxDetours]
    <3>1. \A k \in Key : owned[k] \in Nat /\ owned[k] <= handle
      BY <2>1 DEF Shapes
    <3>2. \A k \in Key : owned[k] \in 0 .. MaxDetours
      BY <2>2, <3>1
    <3> QED
      BY <2>1, <3>2 DEF Shapes
  <2>4. \A h \in DOMAIN detours : detours[h].trampoline \in Address /\ detours[h].site \in Site
    BY <2>1 DEF Shapes, Detour
  <2>5. \A t \in Thread : /\ frame[t].meta = None \/ frame[t].meta \in Metadata
                          /\ frame[t].answer = None
                               \/ frame[t].answer \in Decision \cup {DefaultDecision}
    BY <2>1 DEF Shapes, Frame, Decisions
  <2>6. job.op \in {"none", "create", "insert", "remove", "restore", "free"}
    BY <2>1, JobFacts
  <2> QED
    BY <2>1, <2>2, <2>3, <2>4, <2>5, <2>6 DEF TypeOK, Shapes, Handles
<1> QED
  BY <1>1, HookInvariant, PTL

(* A thread finds its handlers and keeps its way, whatever is hooked,      *)
(* removed and answered meanwhile, unless the hook it is in is written to  *)
(* or freed during its call, its site was hooked over a hook or by an      *)
(* offset, or the site or trampoline was hit by a stray write.             *)
THEOREM ThreadsSafe == Spec => []ThreadsKeepTheirWay
<1>1. HookInv => ThreadsKeepTheirWay
  <2> SUFFICES ASSUME HookInv, NEW t \in Thread
               PROVE  /\ at[t] = "returning" /\ t \notin raced
                           /\ frame[t].site \notin botched \cup strayed =>
                             \/ frame[t].meta # None
                             \/ \E k \in DOMAIN hooks \ Site : SiteOf[k] = frame[t].site
                      /\ at[t] = "lost" =>
                           \/ t \in raced \/ frame[t].site \in botched \cup strayed
                           \/ frame[t].target # None /\ frame[t].target \in stale \cup strayed
    BY DEF ThreadsKeepTheirWay, HandlersFound, LostOnlyInRaces
  <2>1. at[t] = "returning" /\ t \notin raced /\ frame[t].site \notin botched \cup strayed =>
          frame[t].meta # None \/ \E k \in DOMAIN hooks \ Site : SiteOf[k] = frame[t].site
    BY ThreadFacts DEF Undisturbed, HooksOf
  <2>2. ASSUME at[t] = "lost", t \notin raced, frame[t].site \notin botched \cup strayed
        PROVE  frame[t].target # None /\ frame[t].target \in stale \cup strayed
    <3>1. frame[t].target \in stale \cup strayed /\ Hooked(t)
      BY <2>2, ThreadFacts DEF Undisturbed
    <3>2. frame[t].target \in Address
      BY <2>2, <3>1, HookedFacts DEF Kept, HookInv, Shapes, Detour
    <3> QED
      BY <3>1, <3>2, NoneFacts
  <2> QED
    BY <2>1, <2>2
<1> QED
  BY <1>1, HookInvariant, PTL

(* hook_dispatch writes a decision's bytes to the trampoline of its own    *)
(* call site, also when memory is used again, but for threads in a race    *)
(* and for trampolines that the override of a low one has hit.             *)
THEOREM OverridesCorrect == Spec => []OverridesStayHome
<1>1. HookInv => OverridesStayHome
  BY DEF HookInv, BytesStand, OverridesStayHome
<1> QED
  BY <1>1, HookInvariant, PTL

(* g_detours, the trampolines and the game's code agree: each trampoline   *)
(* has one record that frees it, each detour in the code of a site that    *)
(* was never hooked under two spellings nor hit astray has its record.     *)
THEOREM TrampolinesCorrect == Spec => []TrampolinesOwned
<1>1. HookInv => TrampolinesOwned
  <2> SUFFICES ASSUME HookInv PROVE TrampolinesOwned
    OBVIOUS
  <2> DEFINE making == IF job.op = "create" THEN {job.address} ELSE {}
  <2>1. \A h, k \in DOMAIN detours : detours[h].trampoline = detours[k].trampoline => h = k
    BY DEF HookInv, DetoursStand
  <2>2. \A h \in DOMAIN detours :
          /\ detours[h].trampoline \in Address \ leaked
          /\ trampoline[detours[h].trampoline] # None
          /\ detours[h].trampoline \notin making
    BY DEF HookInv, Shapes, Detour, DetoursStand, JobStands
  <2>3. \A a \in Address \ leaked : trampoline[a] # None /\ a \notin making =>
          \E h \in DOMAIN detours : a = detours[h].trampoline
    BY DEF HookInv, DetoursStand
  <2>4. {detours[h].trampoline : h \in DOMAIN detours}
          = {a \in Address \ leaked : trampoline[a] # None} \ making
    BY <2>2, <2>3
  <2>5. ASSUME NEW s \in Sound
        PROVE  ({code[s]} \cup {detours[h].original : h \in {k \in Kept : detours[k].site = s}})
                 \ {Game, Torn} \subseteq Kept
    <3>1. NamedOnce(s)
      BY DEF HookInv, SitesStand, SiteStands
    <3>2. At(s) \subseteq Kept
      BY DEF At
    <3> QED
      BY <3>1, <3>2 DEF NamedOnce, At
  <2>6. Kept = {h \in DOMAIN detours : job.op # "free" \/ h # job.handle}
    BY DEF Kept
  <2> QED
    BY <2>1, <2>4, <2>5, <2>6 DEF TrampolinesOwned, Sound
<1> QED
  BY <1>1, HookInvariant, PTL
=============================================================================
