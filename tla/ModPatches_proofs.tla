-------------------------- MODULE ModPatches_proofs -------------------------
(***************************************************************************)
(* Proofs about the patches and hooks of addons, for every load order, all *)
(* contents of patch.jsonc and every image.                                *)
(*                                                                         *)
(* The argument is about who holds what.  A patch set sits in a place: it  *)
(* is the one of a loaded addon, the one being applied, or one that waits  *)
(* to be dropped.  Loading, reloading, unloading and stopping only move    *)
(* patch sets from place to place (Moved), which keeps everything that is  *)
(* said about them; what is left are the steps that make or remove one     *)
(* patch or hook.                                                          *)
(***************************************************************************)
EXTENDS ModPatches, SequenceTheorems, TLAPS

-----------------------------------------------------------------------------
(* Places: the numbers of loaded addons, 0 for the patch set that is being *)
(* applied, and the negative numbers of those waiting to be dropped.       *)

Places == Int
NoRemovals == [handles |-> << >>, sites |-> << >>]
Nobody == [mod |-> "none", patches |-> NoPatches, spans |-> {}]

HeldIn(loaded, current, waiting) ==
  [x \in Places |->
     IF x \in DOMAIN loaded THEN Removals(loaded[x].patches)
     ELSE IF x = 0 THEN Removals(current.patches)
     ELSE IF -x \in DOMAIN waiting THEN waiting[-x] ELSE NoRemovals]

AddonIn(loaded, current) ==
  [x \in Places |->
     IF x \in DOMAIN loaded THEN loaded[x]
     ELSE IF x = 0
          THEN [mod |-> current.mod, patches |-> current.patches, spans |-> current.spans]
          ELSE Nobody]

Held == HeldIn(mods, job, doomed)
Addon == AddonIn(mods, job)

Record == [h \in Records |-> Owned(h)]
Scripts == known \cup lost \cup Handles(call.made)

(* No element twice; no handle twice, the invalid one aside.               *)
Distinct(s) == \A k, l \in DOMAIN s : s[k] = s[l] => k = l
Once(s) == \A k, l \in DOMAIN s : s[k] = s[l] => k = l \/ s[k] = 0

(* Each patch has one holder, a patch set or the scripts.                  *)
HoldersOf(held, app, scripts) ==
  /\ scripts \subseteq DOMAIN app
  /\ \A h \in DOMAIN app : h \in scripts \/ \E x \in Places : h \in Handles(held[x].handles)
  /\ \A x \in Places : Handles(held[x].handles) \subseteq DOMAIN app
  /\ \A x \in Places : Once(held[x].handles) /\ Handles(held[x].handles) \cap scripts = {}
  /\ \A x, y \in Places : x # y => Handles(held[x].handles) \cap Handles(held[y].handles) = {}

ScriptsApart ==
  /\ known \cap lost = {} /\ known \cap Handles(call.made) = {}
  /\ lost \cap Handles(call.made) = {} /\ Once(call.made)

(* Each hooked call site has one holder, and one detour, which was made    *)
(* for it and lies on it.                                                  *)
MadeFor(r, site) ==
  r.entry.kind = "hook" /\ r.entry.addr = site /\ resolveAddress(site) \in DOMAIN r.backup

HooksOf(held, det, hk) ==
  /\ \A s \in DOMAIN hk : \E x \in Places : s \in SitesOf(held[x])
  /\ \A x \in Places : SitesOf(held[x]) \subseteq DOMAIN hk
  /\ \A x \in Places : Distinct(held[x].sites)
  /\ \A x, y \in Places : x # y => SitesOf(held[x]) \cap SitesOf(held[y]) = {}
  /\ \A s, t \in DOMAIN hk : hk[s] = hk[t] => s = t
  /\ DOMAIN det = {hk[s] : s \in DOMAIN hk}
  /\ \A s \in DOMAIN hk : MadeFor(det[hk[s]], s)

(* No byte is under two patches, each patch saved what the game had, and    *)
(* bytes under no patch are the game's.                                    *)
ImageOf(rec, mem) ==
  /\ \A h, k \in DOMAIN rec : h # k => DOMAIN rec[h].backup \cap DOMAIN rec[k].backup = {}
  /\ \A h \in DOMAIN rec : \A c \in DOMAIN rec[h].backup : rec[h].backup[c] = Original[c]
  /\ \A c \in Cell : (\A h \in DOMAIN rec : c \notin DOMAIN rec[h].backup) => mem[c] = Original[c]

HoldsAt(removals, hk) == Handles(removals.handles) \cup {hk[s] : s \in SitesOf(removals)}

(* What an addon holds is its own and was made for an entry within its     *)
(* spans.                                                                  *)
ClaimOf(held, addon, rec) ==
  \A h \in held : /\ rec[h].owner = addon.mod
                  /\ rec[h].entry \in FileEntries
                  /\ DOMAIN rec[h].backup = DOMAIN Written(rec[h].entry)
                  /\ SpanOf(rec[h].entry) \subseteq addon.spans

ClaimsOf(held, addon, hk, rec) ==
  \A x \in Nat : ClaimOf(HoldsAt(held[x], hk), addon[x], rec)

(* An addon shows just what lies under its patches, and the image has it.  *)
ShowOf(held, addon, rec, mem) ==
  /\ \A h \in held : DOMAIN rec[h].backup \subseteq DOMAIN addon.patches.shown
  /\ \A c \in DOMAIN addon.patches.shown :
       /\ mem[c] = addon.patches.shown[c]
       /\ \E h \in held : c \in DOMAIN rec[h].backup

ShowsOf(held, addon, hk, rec, mem) ==
  \A x \in Nat : ShowOf(HoldsAt(held[x], hk), addon[x], rec, mem)

(* What the overlap check tells apart does not meet.                       *)
ApartOf(rec) ==
  \A h, k \in DOMAIN rec :
    rec[h].owner # rec[k].owner /\ SpansTell(rec[h].entry, rec[k].entry)
      => DOMAIN rec[h].backup \cap DOMAIN rec[k].backup = {}

ScriptsOf(scripts, rec) == \A h \in scripts : rec[h].owner = "script"

-----------------------------------------------------------------------------

Values == (STRING \cup {"call"}) \X Nat
Shown == UNION {[D -> Values] : D \in SUBSET Int}
PatchSet == [handles : Seq(Nat), sites : Seq(Nat), shown : Shown]
Jobs == [mod : Mod, index : Nat, todo : Seq(FileEntries), patches : PatchSet,
         spans : SUBSET Int]

LoadedAddons == [mod : Mod, patches : PatchSet, spans : SUBSET Int]

HoldersTypeOK ==
  /\ mods \in Seq(LoadedAddons)
  /\ job \in Jobs \cup {NoJob}
  /\ doomed \in Seq([handles : Seq(Nat), sites : Seq(Nat)])
  /\ call \in [todo : Seq(Entry), made : Seq(Nat)]

(* One thing is under way at a time, and what is applied keeps clear of    *)
(* all other addons.                                                       *)
Underway ==
  /\ job # NoJob =>
       /\ doomed = << >>
       /\ job.index \in DOMAIN mods \cup {0}
       /\ job.index # 0 => mods[job.index].mod = job.mod
       /\ job.index = 0 => Len(mods) < next
       /\ \A k \in DOMAIN job.todo : SpanOf(job.todo[k]) \subseteq job.spans
       /\ \A i \in DOMAIN mods \ {job.index} : job.spans \cap mods[i].spans = {}
  /\ call # NoCall => doomed = << >> /\ job.todo = << >> /\ job.index = 0
  /\ \A i, j \in DOMAIN mods : i # j => mods[i].spans \cap mods[j].spans = {}

Kept == HoldersTypeOK /\ TypeOK /\ Underway /\ ScriptsApart
        /\ HoldersOf(Held, applied, Scripts)

(* As long as nothing failed and no addon applied over itself or a script: *)
(* the hooks, the owners and the spans are in order.                       *)
Orderly ==
  /\ HooksOf(Held, detours, hooks)
  /\ ClaimsOf(Held, Addon, hooks, Record)
  /\ ScriptsOf(Scripts, Record)
  /\ ApartOf(Record)

(* And the image, as long as nobody applied over anybody.                  *)
Imaged ==
  /\ ImageOf(Record, memory)
  /\ ShowsOf(Held, Addon, hooks, Record, memory)

Regular == failed = 0 /\ ~overlaid

PatchesInv == Kept /\ (Regular => Orderly) /\ (Regular /\ ~untold => Imaged)

-----------------------------------------------------------------------------
(* Sequences of handles and sites.                                         *)

LEMMA AppendHandle ==
  ASSUME NEW s \in Seq(Nat), NEW h \in Nat
  PROVE  /\ Append(s, h) \in Seq(Nat)
         /\ Handles(Append(s, h)) = Handles(s) \cup ({h} \ {0})
         /\ Once(s) /\ h \notin Handles(s) => Once(Append(s, h))
<1>1. /\ Append(s, h) \in Seq(Nat)
      /\ DOMAIN Append(s, h) = 1 .. Len(s) + 1
      /\ \A k \in 1 .. Len(s) : Append(s, h)[k] = s[k]
      /\ Append(s, h)[Len(s) + 1] = h
      /\ DOMAIN s = 1 .. Len(s) /\ Len(s) \in Nat
  OBVIOUS
<1>2. 1 .. Len(s) + 1 = (1 .. Len(s)) \cup {Len(s) + 1}
  BY <1>1
<1>3. Handles(Append(s, h)) = Handles(s) \cup ({h} \ {0})
  BY <1>1, <1>2 DEF Handles
<1>4. ASSUME Once(s), h \notin Handles(s)
      PROVE  Once(Append(s, h))
  BY <1>1, <1>2, <1>4 DEF Once, Handles
<1> QED
  BY <1>1, <1>3, <1>4

LEMMA TailFacts ==
  ASSUME NEW s \in Seq(Nat), s # << >>
  PROVE  /\ Tail(s) \in Seq(Nat) /\ Head(s) = s[1] /\ Head(s) \in Nat
         /\ DOMAIN s = 1 .. Len(s) /\ Len(s) \in Nat /\ Len(s) > 0
         /\ DOMAIN Tail(s) = 1 .. Len(s) - 1
         /\ \A k \in 1 .. Len(s) - 1 : Tail(s)[k] = s[k + 1]
         /\ \A k \in 1 .. Len(s) : k = 1 \/ k - 1 \in DOMAIN Tail(s)
         /\ \A k \in DOMAIN Tail(s) : k + 1 \in 1 .. Len(s)
  OBVIOUS

LEMMA TailHandle ==
  ASSUME NEW s \in Seq(Nat), s # << >>
  PROVE  /\ Handles(s) = Handles(Tail(s)) \cup ({Head(s)} \ {0})
         /\ Once(s) => Once(Tail(s)) /\ Head(s) \notin Handles(Tail(s))
<1>1. Handles(s) \subseteq Handles(Tail(s)) \cup ({Head(s)} \ {0})
  <2> SUFFICES ASSUME NEW k \in 1 .. Len(s), s[k] # 0
               PROVE  s[k] \in Handles(Tail(s)) \cup ({Head(s)} \ {0})
    BY TailFacts, SMTT(30) DEF Handles
  <2>1. CASE k = 1
    BY <2>1, TailFacts
  <2>2. CASE k # 1
    <3>1. k - 1 \in DOMAIN Tail(s) /\ Tail(s)[k - 1] = s[k]
      BY <2>2, TailFacts
    <3> QED
      BY <3>1 DEF Handles
  <2> QED
    BY <2>1, <2>2
<1>2. Handles(Tail(s)) \cup ({Head(s)} \ {0}) \subseteq Handles(s)
  BY TailFacts DEF Handles
<1>3. ASSUME Once(s)
      PROVE  Once(Tail(s)) /\ Head(s) \notin Handles(Tail(s))
  <2>1. Once(Tail(s))
    <3> SUFFICES ASSUME NEW k \in DOMAIN Tail(s), NEW l \in DOMAIN Tail(s),
                        Tail(s)[k] = Tail(s)[l]
                 PROVE  k = l \/ Tail(s)[k] = 0
      BY DEF Once
    <3>1. k \in Nat /\ l \in Nat /\ s[k + 1] = s[l + 1] /\ k + 1 \in DOMAIN s /\ l + 1 \in DOMAIN s
      BY TailFacts
    <3>2. k + 1 = l + 1 \/ s[k + 1] = 0
      BY <1>3, <3>1 DEF Once
    <3> QED
      BY <3>1, <3>2, TailFacts
  <2>2. Head(s) \notin Handles(Tail(s))
    <3> SUFFICES ASSUME NEW k \in DOMAIN Tail(s), Tail(s)[k] = s[1], s[1] # 0
                 PROVE  FALSE
      BY TailFacts DEF Handles
    <3>1. k \in Nat \ {0} /\ s[k + 1] = s[1] /\ k + 1 \in DOMAIN s /\ 1 \in DOMAIN s
      BY TailFacts
    <3> QED
      BY <1>3, <3>1 DEF Once
  <2> QED
    BY <2>1, <2>2
<1> QED
  BY <1>1, <1>2, <1>3

LEMMA AppendSite ==
  ASSUME NEW p, NEW q, p.sites \in Seq(Nat), NEW site \in Nat, q.sites = Append(p.sites, site)
  PROVE  /\ q.sites \in Seq(Nat)
         /\ SitesOf(q) = SitesOf(p) \cup {site}
         /\ Distinct(p.sites) /\ site \notin SitesOf(p) => Distinct(q.sites)
<1> DEFINE s == p.sites
<1>1. /\ Append(s, site) \in Seq(Nat)
      /\ DOMAIN Append(s, site) = 1 .. Len(s) + 1
      /\ \A k \in 1 .. Len(s) : Append(s, site)[k] = s[k]
      /\ Append(s, site)[Len(s) + 1] = site
      /\ DOMAIN s = 1 .. Len(s) /\ Len(s) \in Nat
  OBVIOUS
<1>2. 1 .. Len(s) + 1 = (1 .. Len(s)) \cup {Len(s) + 1}
  BY <1>1
<1> HIDE DEF s
<1>3. SitesOf(q) = SitesOf(p) \cup {site}
  BY <1>1, <1>2 DEF SitesOf, s
<1>4. ASSUME Distinct(p.sites), site \notin SitesOf(p)
      PROVE  Distinct(q.sites)
  BY <1>1, <1>2, <1>4 DEF Distinct, SitesOf, s
<1> QED
  BY <1>1, <1>3, <1>4 DEF s

LEMMA TailSite ==
  ASSUME NEW p, NEW q, p.sites \in Seq(Nat), p.sites # << >>, q.sites = Tail(p.sites)
  PROVE  /\ SitesOf(p) = SitesOf(q) \cup {Head(p.sites)}
         /\ Distinct(p.sites) => Distinct(q.sites) /\ Head(p.sites) \notin SitesOf(q)
<1>1. SitesOf(p) \subseteq SitesOf(q) \cup {Head(p.sites)}
  <2> SUFFICES ASSUME NEW k \in 1 .. Len(p.sites)
               PROVE  p.sites[k] \in SitesOf(q) \cup {Head(p.sites)}
    BY TailFacts DEF SitesOf
  <2>1. CASE k = 1
    BY <2>1, TailFacts
  <2>2. CASE k # 1
    <3>1. k - 1 \in DOMAIN q.sites /\ q.sites[k - 1] = p.sites[k]
      BY <2>2, TailFacts
    <3> QED
      BY <3>1 DEF SitesOf
  <2> QED
    BY <2>1, <2>2
<1>2. SitesOf(q) \cup {Head(p.sites)} \subseteq SitesOf(p)
  BY TailFacts DEF SitesOf
<1>3. ASSUME Distinct(p.sites)
      PROVE  Distinct(q.sites) /\ Head(p.sites) \notin SitesOf(q)
  <2>1. Distinct(q.sites)
    <3> SUFFICES ASSUME NEW k \in DOMAIN q.sites, NEW l \in DOMAIN q.sites,
                        q.sites[k] = q.sites[l]
                 PROVE  k = l
      BY DEF Distinct
    <3>1. k \in Nat /\ l \in Nat /\ p.sites[k + 1] = p.sites[l + 1]
          /\ k + 1 \in DOMAIN p.sites /\ l + 1 \in DOMAIN p.sites
      BY TailFacts, SMTT(30)
    <3>2. k + 1 = l + 1
      BY <1>3, <3>1 DEF Distinct
    <3> QED
      BY <3>1, <3>2
  <2>2. Head(p.sites) \notin SitesOf(q)
    <3> SUFFICES ASSUME NEW k \in DOMAIN q.sites, q.sites[k] = p.sites[1]
                 PROVE  FALSE
      BY TailFacts DEF SitesOf
    <3>1. k \in Nat \ {0} /\ p.sites[k + 1] = p.sites[1]
          /\ k + 1 \in DOMAIN p.sites /\ 1 \in DOMAIN p.sites
      BY TailFacts
    <3> QED
      BY <1>3, <3>1 DEF Distinct
  <2> QED
    BY <2>1, <2>2
<1> QED
  BY <1>1, <1>2, <1>3

LEMMA NoHandles == Handles(<< >>) = {} /\ Once(<< >>) /\ Distinct(<< >>)
  BY DEF Handles, Once, Distinct

-----------------------------------------------------------------------------
(* Patch sets move from place to place.                                    *)

Moves(f, g, pi) ==
  /\ pi \in [Places -> Places]
  /\ \A x \in Places : g[x] # NoRemovals => g[x] = f[pi[x]]
  /\ \A x, y \in Places : g[x] # NoRemovals /\ g[y] # NoRemovals /\ pi[x] = pi[y] => x = y
  /\ \A y \in Places : f[y] # NoRemovals => \E x \in Places : pi[x] = y /\ g[x] = f[y]

Moved(f, g) == \E pi \in [Places -> Places] : Moves(f, g, pi)

LEMMA NothingHeld ==
  ASSUME NEW r, r = NoRemovals
  PROVE  /\ Handles(r.handles) = {} /\ Once(r.handles)
         /\ SitesOf(r) = {} /\ Distinct(r.sites)
  BY NoHandles DEF NoRemovals, SitesOf

LEMMA MovedHolders ==
  ASSUME NEW f, NEW g, NEW app, NEW scripts, HoldersOf(f, app, scripts), Moved(f, g)
  PROVE  HoldersOf(g, app, scripts)
<1>1. PICK pi \in [Places -> Places] : Moves(f, g, pi)
  BY DEF Moved
<1>2. \A x \in Places : pi[x] \in Places
  OBVIOUS
<1>3. /\ \A h \in DOMAIN app : h \in scripts \/ \E x \in Places : h \in Handles(g[x].handles)
      /\ \A x \in Places : Handles(g[x].handles) \subseteq DOMAIN app
  BY <1>1, <1>2, NothingHeld DEF Moves, HoldersOf
<1>4. \A x \in Places : Once(g[x].handles) /\ Handles(g[x].handles) \cap scripts = {}
  BY <1>1, <1>2, NothingHeld DEF Moves, HoldersOf
<1>5. ASSUME NEW x \in Places, NEW y \in Places, x # y
      PROVE  Handles(g[x].handles) \cap Handles(g[y].handles) = {}
  <2>1. CASE g[x] = NoRemovals \/ g[y] = NoRemovals
    BY <2>1, NothingHeld
  <2>2. CASE g[x] # NoRemovals /\ g[y] # NoRemovals
    <3>1. g[x] = f[pi[x]] /\ g[y] = f[pi[y]] /\ pi[x] # pi[y]
      BY <1>1, <1>5, <2>2 DEF Moves
    <3> QED
      BY <1>2, <3>1 DEF HoldersOf
  <2> QED
    BY <2>1, <2>2
<1> QED
  BY <1>3, <1>4, <1>5 DEF HoldersOf

LEMMA MovedHooks ==
  ASSUME NEW f, NEW g, NEW det, NEW hk, HooksOf(f, det, hk), Moved(f, g)
  PROVE  HooksOf(g, det, hk)
<1>1. PICK pi \in [Places -> Places] : Moves(f, g, pi)
  BY DEF Moved
<1>2. \A x \in Places : pi[x] \in Places
  OBVIOUS
<1>3. /\ \A s \in DOMAIN hk : \E x \in Places : s \in SitesOf(g[x])
      /\ \A x \in Places : SitesOf(g[x]) \subseteq DOMAIN hk
  BY <1>1, <1>2, NothingHeld DEF Moves, HooksOf
<1>4. \A x \in Places : Distinct(g[x].sites)
  BY <1>1, <1>2, NothingHeld DEF Moves, HooksOf
<1>5. ASSUME NEW x \in Places, NEW y \in Places, x # y
      PROVE  SitesOf(g[x]) \cap SitesOf(g[y]) = {}
  <2>1. CASE g[x] = NoRemovals \/ g[y] = NoRemovals
    BY <2>1, NothingHeld
  <2>2. CASE g[x] # NoRemovals /\ g[y] # NoRemovals
    <3>1. g[x] = f[pi[x]] /\ g[y] = f[pi[y]] /\ pi[x] # pi[y]
      BY <1>1, <1>5, <2>2 DEF Moves
    <3> QED
      BY <1>2, <3>1 DEF HooksOf
  <2> QED
    BY <2>1, <2>2
<1> QED
  BY <1>3, <1>4, <1>5 DEF HooksOf

(* An addon goes on, with its patch set, or holds and shows nothing.       *)
AddonsMoved(f, af, g, ag) ==
  \A x \in Nat :
    \/ g[x] = NoRemovals /\ DOMAIN ag[x].patches.shown = {}
    \/ \E y \in Nat : g[x] = f[y] /\ ag[x] = af[y]

LEMMA MovedClaims ==
  ASSUME NEW f, NEW af, NEW g, NEW ag, NEW hk, NEW rec,
         ClaimsOf(f, af, hk, rec), AddonsMoved(f, af, g, ag)
  PROVE  ClaimsOf(g, ag, hk, rec)
<1> SUFFICES ASSUME NEW x \in Nat
             PROVE  ClaimOf(HoldsAt(g[x], hk), ag[x], rec)
  BY DEF ClaimsOf
<1>1. CASE g[x] = NoRemovals /\ DOMAIN ag[x].patches.shown = {}
  <2>1. HoldsAt(g[x], hk) = {}
    BY <1>1, NothingHeld DEF HoldsAt
  <2> QED
    BY <2>1 DEF ClaimOf
<1>2. ASSUME NEW y \in Nat, g[x] = f[y], ag[x] = af[y]
      PROVE  ClaimOf(HoldsAt(g[x], hk), ag[x], rec)
  BY <1>2 DEF ClaimsOf
<1> QED
  BY <1>1, <1>2 DEF AddonsMoved

LEMMA MovedShows ==
  ASSUME NEW f, NEW af, NEW g, NEW ag, NEW hk, NEW rec, NEW mem,
         ShowsOf(f, af, hk, rec, mem), AddonsMoved(f, af, g, ag)
  PROVE  ShowsOf(g, ag, hk, rec, mem)
<1> SUFFICES ASSUME NEW x \in Nat
             PROVE  ShowOf(HoldsAt(g[x], hk), ag[x], rec, mem)
  BY DEF ShowsOf
<1>1. CASE g[x] = NoRemovals /\ DOMAIN ag[x].patches.shown = {}
  <2>1. HoldsAt(g[x], hk) = {}
    BY <1>1, NothingHeld DEF HoldsAt
  <2> QED
    BY <1>1, <2>1 DEF ShowOf
<1>2. ASSUME NEW y \in Nat, g[x] = f[y], ag[x] = af[y]
      PROVE  ShowOf(HoldsAt(g[x], hk), ag[x], rec, mem)
  BY <1>2 DEF ShowsOf
<1> QED
  BY <1>1, <1>2 DEF AddonsMoved

-----------------------------------------------------------------------------
(* One handle more or less in a place.                                     *)

LEMMA HandleHeld ==
  ASSUME NEW f, NEW g, NEW app, NEW app2, NEW scripts, NEW p \in Places, NEW h \in Nat,
         HoldersOf(f, app, scripts),
         h \notin DOMAIN app, DOMAIN app2 = DOMAIN app \cup ({h} \ {0}),
         Handles(g[p].handles) = Handles(f[p].handles) \cup ({h} \ {0}), Once(g[p].handles),
         \A x \in Places : x # p => g[x] = f[x]
  PROVE  HoldersOf(g, app2, scripts)
<1>1. h \notin scripts /\ \A x \in Places : h \notin Handles(f[x].handles)
  BY DEF HoldersOf
<1>2. Handles(g[p].handles) = Handles(f[p].handles) \cup ({h} \ {0}) /\ Once(g[p].handles)
  OBVIOUS
<1>3. \A k \in DOMAIN app2 : k \in scripts \/ \E x \in Places : k \in Handles(g[x].handles)
  BY <1>2 DEF HoldersOf
<1>4. \A x \in Places : Once(g[x].handles) /\ Handles(g[x].handles) \cap scripts = {}
  BY <1>1, <1>2 DEF HoldersOf
<1>5. \A x, y \in Places : x # y => Handles(g[x].handles) \cap Handles(g[y].handles) = {}
  BY <1>1, <1>2 DEF HoldersOf
<1>6. scripts \subseteq DOMAIN app2 /\ \A x \in Places : Handles(g[x].handles) \subseteq DOMAIN app2
  BY <1>2 DEF HoldersOf
<1> QED
  BY <1>3, <1>4, <1>5, <1>6 DEF HoldersOf

LEMMA HandleDropped ==
  ASSUME NEW f, NEW g, NEW app, NEW app2, NEW scripts, NEW p \in Places, NEW h,
         HoldersOf(f, app, scripts), 0 \notin DOMAIN app,
         DOMAIN app2 = DOMAIN app \ {h},
         Handles(f[p].handles) = Handles(g[p].handles) \cup ({h} \ {0}),
         Once(g[p].handles), h \notin Handles(g[p].handles),
         \A x \in Places : x # p => g[x] = f[x]
  PROVE  HoldersOf(g, app2, scripts)
<1>1. /\ Handles(f[p].handles) = Handles(g[p].handles) \cup ({h} \ {0})
      /\ Once(g[p].handles) /\ h \notin Handles(g[p].handles)
  OBVIOUS
<1>2. h \notin scripts /\ \A x \in Places : x # p => h \notin Handles(f[x].handles)
  <2>1. CASE h = 0
    BY <2>1 DEF HoldersOf
  <2>2. CASE h # 0
    BY <1>1, <2>2 DEF HoldersOf
  <2> QED
    BY <2>1, <2>2
<1>3. \A k \in DOMAIN app2 : k \in scripts \/ \E x \in Places : k \in Handles(g[x].handles)
  BY <1>1 DEF HoldersOf
<1>4. \A x \in Places : Once(g[x].handles) /\ Handles(g[x].handles) \cap scripts = {}
  BY <1>1 DEF HoldersOf
<1>5. \A x, y \in Places : x # y => Handles(g[x].handles) \cap Handles(g[y].handles) = {}
  BY <1>1 DEF HoldersOf
<1>6. scripts \subseteq DOMAIN app2 /\ \A x \in Places : Handles(g[x].handles) \subseteq DOMAIN app2
  BY <1>1, <1>2 DEF HoldersOf
<1> QED
  BY <1>3, <1>4, <1>5, <1>6 DEF HoldersOf

-----------------------------------------------------------------------------
(* A patch more or less in the image.                                      *)

LEMMA PutFacts ==
  ASSUME NEW f, NEW x, NEW v
  PROVE  /\ DOMAIN Put(f, x, v) = DOMAIN f \cup {x}
         /\ Put(f, x, v)[x] = v
         /\ \A y \in DOMAIN f : y # x => Put(f, x, v)[y] = f[y]
  BY DEF Put, Overwrite

LEMMA WithoutFacts ==
  ASSUME NEW f, NEW x
  PROVE  /\ DOMAIN Without(f, x) = DOMAIN f \ {x}
         /\ \A y \in DOMAIN f : y # x => Without(f, x)[y] = f[y]
  BY DEF Without

LEMMA ImageGains ==
  ASSUME NEW rec, NEW rec2, NEW mem, NEW w, NEW h,
         ImageOf(rec, mem), DOMAIN mem = Cell, DOMAIN w \subseteq Cell,
         h \notin DOMAIN rec, DOMAIN rec2 = DOMAIN rec \cup {h},
         \A k \in DOMAIN rec : rec2[k] = rec[k],
         rec2[h].backup = [c \in DOMAIN w |-> mem[c]],
         \A k \in DOMAIN rec : DOMAIN w \cap DOMAIN rec[k].backup = {}
  PROVE  ImageOf(rec2, Overwrite(mem, w))
<1>1. \A k, l \in DOMAIN rec2 : k # l => DOMAIN rec2[k].backup \cap DOMAIN rec2[l].backup = {}
  BY DEF ImageOf
<1>2. \A k \in DOMAIN rec2 : \A c \in DOMAIN rec2[k].backup : rec2[k].backup[c] = Original[c]
  <2>1. \A c \in DOMAIN w : mem[c] = Original[c]
    BY DEF ImageOf
  <2> QED
    BY <2>1 DEF ImageOf
<1>3. ASSUME NEW c \in Cell, \A k \in DOMAIN rec2 : c \notin DOMAIN rec2[k].backup
      PROVE  Overwrite(mem, w)[c] = Original[c]
  <2>1. c \notin DOMAIN w /\ \A k \in DOMAIN rec : c \notin DOMAIN rec[k].backup
    BY <1>3
  <2> QED
    BY <2>1 DEF ImageOf, Overwrite
<1> QED
  BY <1>1, <1>2, <1>3 DEF ImageOf

LEMMA ImageLoses ==
  ASSUME NEW rec, NEW rec2, NEW mem, NEW h \in DOMAIN rec,
         ImageOf(rec, mem), DOMAIN mem = Cell,
         DOMAIN rec2 = DOMAIN rec \ {h}, \A k \in DOMAIN rec2 : rec2[k] = rec[k]
  PROVE  ImageOf(rec2, Overwrite(mem, rec[h].backup))
<1>1. \A k, l \in DOMAIN rec2 : k # l => DOMAIN rec2[k].backup \cap DOMAIN rec2[l].backup = {}
  BY DEF ImageOf
<1>2. \A k \in DOMAIN rec2 : \A c \in DOMAIN rec2[k].backup : rec2[k].backup[c] = Original[c]
  BY DEF ImageOf
<1>3. ASSUME NEW c \in Cell, \A k \in DOMAIN rec2 : c \notin DOMAIN rec2[k].backup
      PROVE  Overwrite(mem, rec[h].backup)[c] = Original[c]
  <2>1. CASE c \in DOMAIN rec[h].backup
    BY <2>1 DEF ImageOf, Overwrite
  <2>2. CASE c \notin DOMAIN rec[h].backup
    <3>1. \A k \in DOMAIN rec : c \notin DOMAIN rec[k].backup
      BY <1>3, <2>2
    <3> QED
      BY <2>2, <3>1 DEF ImageOf, Overwrite
  <2> QED
    BY <2>1, <2>2
<1> QED
  BY <1>1, <1>2, <1>3 DEF ImageOf

(* Nothing of the addon changes.                                           *)
LEMMA ShowKept ==
  ASSUME NEW held, NEW addon, NEW rec, NEW rec2, NEW mem, NEW mem2,
         ShowOf(held, addon, rec, mem),
         \A h \in held : rec2[h] = rec[h],
         \A h \in held : \A c \in DOMAIN rec[h].backup : mem2[c] = mem[c]
  PROVE  ShowOf(held, addon, rec2, mem2)
<1>1. \A h \in held : DOMAIN rec2[h].backup \subseteq DOMAIN addon.patches.shown
  BY DEF ShowOf
<1>2. ASSUME NEW c \in DOMAIN addon.patches.shown
      PROVE  /\ mem2[c] = addon.patches.shown[c]
             /\ \E h \in held : c \in DOMAIN rec2[h].backup
  BY DEF ShowOf
<1> QED
  BY <1>1, <1>2 DEF ShowOf

(* The addon gets a patch or a hook for an entry.                          *)
LEMMA ShowGains ==
  ASSUME NEW held, NEW addon, NEW addon2, NEW rec, NEW rec2, NEW mem, NEW h, NEW e,
         ShowOf(held, addon, rec, mem), DOMAIN mem = Cell, DOMAIN Written(e) \subseteq Cell,
         \A k \in held : rec2[k] = rec[k] /\ DOMAIN rec[k].backup \subseteq Cell,
         DOMAIN rec2[h].backup = DOMAIN Written(e),
         addon2.patches.shown = Overwrite(addon.patches.shown, Written(e))
  PROVE  ShowOf(held \cup {h}, addon2, rec2, Overwrite(mem, Written(e)))
<1> DEFINE shown == addon.patches.shown
           w == Written(e)
<1>1. DOMAIN addon2.patches.shown = DOMAIN shown \cup DOMAIN w
  BY DEF Overwrite
<1> HIDE DEF w
<1>2. ASSUME NEW k \in held \cup {h}
      PROVE  DOMAIN rec2[k].backup \subseteq DOMAIN addon2.patches.shown
  <2>1. CASE k = h
    BY <1>1, <2>1 DEF w
  <2>2. CASE k \in held
    BY <1>1, <2>2 DEF ShowOf
  <2> QED
    BY <2>1, <2>2
<1>3. ASSUME NEW c \in DOMAIN addon2.patches.shown
      PROVE  /\ Overwrite(mem, w)[c] = addon2.patches.shown[c]
             /\ \E k \in held \cup {h} : c \in DOMAIN rec2[k].backup
  <2>1. CASE c \in DOMAIN w
    BY <2>1 DEF w, Overwrite
  <2>2. CASE c \notin DOMAIN w
    <3>1. c \in DOMAIN shown
      BY <1>1, <2>2
    <3>2. mem[c] = shown[c] /\ \E k \in held : c \in DOMAIN rec[k].backup
      BY <3>1 DEF ShowOf
    <3>3. Overwrite(shown, w)[c] = shown[c]
      BY <2>2, <3>1 DEF Overwrite
    <3>4. c \in Cell
      BY <3>2
    <3>5. Overwrite(mem, w)[c] = mem[c]
      BY <2>2, <3>4 DEF Overwrite
    <3> QED
      BY <3>2, <3>3, <3>5 DEF w
  <2> QED
    BY <2>1, <2>2
<1> QED
  BY <1>2, <1>3 DEF ShowOf, w

-----------------------------------------------------------------------------
(* What is in which place.                                                 *)

LEMMA HeldFacts ==
  ASSUME NEW f, NEW loaded, NEW current, NEW waiting, f = HeldIn(loaded, current, waiting),
         DOMAIN loaded \subseteq Nat \ {0}, DOMAIN waiting \subseteq Nat \ {0}
  PROVE  /\ f[0] = Removals(current.patches)
         /\ \A i \in DOMAIN loaded : f[i] = Removals(loaded[i].patches)
         /\ \A x \in Nat \ {0} : x \notin DOMAIN loaded => f[x] = NoRemovals
         /\ \A k \in DOMAIN waiting : f[-k] = waiting[k]
         /\ \A k \in Nat \ {0} : k \notin DOMAIN waiting => f[-k] = NoRemovals
  BY DEF HeldIn, Places

LEMMA AddonFacts ==
  ASSUME NEW a, NEW loaded, NEW current, a = AddonIn(loaded, current),
         DOMAIN loaded \subseteq Nat \ {0}
  PROVE  /\ a[0] = [mod |-> current.mod, patches |-> current.patches, spans |-> current.spans]
         /\ \A i \in DOMAIN loaded : a[i] = loaded[i]
         /\ \A x \in Nat \ {0} : x \notin DOMAIN loaded => a[x] = Nobody
  BY DEF AddonIn, Places

LEMMA SplitPlaces ==
  /\ \A x \in Places : x = 0 \/ x \in Nat \ {0} \/ \E k \in Nat \ {0} : x = -k
  /\ Nat \subseteq Places /\ \A k \in Nat : -k \in Places
<1>1. ASSUME NEW x \in Int
      PROVE  x = 0 \/ x \in Nat \ {0} \/ \E k \in Nat \ {0} : x = -k
  <2>1. CASE x < 0
    <3>1. -x \in Nat \ {0} /\ x = -(-x)
      BY <2>1
    <3> QED
      BY <3>1
  <2> QED
    BY <2>1
<1> QED
  BY <1>1 DEF Places

LEMMA HoldsFacts ==
  ASSUME NEW f, NEW app, NEW det, NEW hk, NEW scripts,
         HoldersOf(f, app, scripts), HooksOf(f, det, hk), DOMAIN app \cap DOMAIN det = {}
  PROVE  /\ \A x \in Places : /\ HoldsAt(f[x], hk) \subseteq DOMAIN app \cup DOMAIN det
                              /\ HoldsAt(f[x], hk) \cap scripts = {}
         /\ \A x, y \in Places : x # y => HoldsAt(f[x], hk) \cap HoldsAt(f[y], hk) = {}
         /\ \A h \in DOMAIN app \cup DOMAIN det :
              h \in scripts \/ \E x \in Places : h \in HoldsAt(f[x], hk)
<1>1. /\ \A x \in Places : Handles(f[x].handles) \subseteq DOMAIN app
      /\ \A x \in Places : {hk[s] : s \in SitesOf(f[x])} \subseteq DOMAIN det
  BY DEF HoldersOf, HooksOf
<1>2. scripts \subseteq DOMAIN app /\ \A x \in Places : Handles(f[x].handles) \cap scripts = {}
  BY DEF HoldersOf
<1>3. \A x, y \in Places : x # y =>
        /\ Handles(f[x].handles) \cap Handles(f[y].handles) = {}
        /\ {hk[s] : s \in SitesOf(f[x])} \cap {hk[s] : s \in SitesOf(f[y])} = {}
  <2> SUFFICES ASSUME NEW x \in Places, NEW y \in Places, x # y,
                      NEW s \in SitesOf(f[x]), NEW t \in SitesOf(f[y]), hk[s] = hk[t]
               PROVE  FALSE
    BY DEF HoldersOf
  <2>1. s \in DOMAIN hk /\ t \in DOMAIN hk
    BY DEF HooksOf
  <2>2. s = t
    BY <2>1 DEF HooksOf
  <2> QED
    BY <2>2 DEF HooksOf
<1>4. \A h \in DOMAIN app \cup DOMAIN det :
        h \in scripts \/ \E x \in Places : h \in HoldsAt(f[x], hk)
  <2>1. ASSUME NEW h \in DOMAIN app, h \notin scripts
        PROVE  \E x \in Places : h \in HoldsAt(f[x], hk)
    BY <2>1 DEF HoldersOf, HoldsAt
  <2>2. ASSUME NEW h \in DOMAIN det
        PROVE  \E x \in Places : h \in HoldsAt(f[x], hk)
    <3>1. PICK s \in DOMAIN hk : h = hk[s]
      BY DEF HooksOf
    <3>2. PICK x \in Places : s \in SitesOf(f[x])
      BY DEF HooksOf
    <3> QED
      BY <3>1, <3>2 DEF HoldsAt
  <2> QED
    BY <2>1, <2>2
<1>5. \A x, y \in Places : x # y => HoldsAt(f[x], hk) \cap HoldsAt(f[y], hk) = {}
  BY <1>1, <1>3 DEF HoldsAt
<1>6. \A x \in Places : /\ HoldsAt(f[x], hk) \subseteq DOMAIN app \cup DOMAIN det
                        /\ HoldsAt(f[x], hk) \cap scripts = {}
  BY <1>1, <1>2 DEF HoldsAt
<1> QED
  BY <1>4, <1>5, <1>6

(* Hooks do not depend on handles, nor patches on sites.                   *)
LEMMA SameSites ==
  ASSUME NEW f, NEW g, NEW det, NEW hk, HooksOf(f, det, hk),
         \A x \in Places : g[x].sites = f[x].sites
  PROVE  HooksOf(g, det, hk)
<1>1. \A x \in Places : SitesOf(g[x]) = SitesOf(f[x])
  BY DEF SitesOf
<1> QED
  BY <1>1 DEF HooksOf

LEMMA SameHandles ==
  ASSUME NEW f, NEW g, NEW app, NEW scripts, HoldersOf(f, app, scripts),
         \A x \in Places : g[x].handles = f[x].handles
  PROVE  HoldersOf(g, app, scripts)
<1>1. \A x \in Places : Handles(g[x].handles) = Handles(f[x].handles)
  OBVIOUS
<1> QED
  BY <1>1 DEF HoldersOf

LEMMA ClaimsGain ==
  ASSUME NEW f, NEW g, NEW af, NEW ag, NEW hk, NEW hk2, NEW rec, NEW rec2,
         ClaimsOf(f, af, hk, rec),
         \A k \in DOMAIN rec : rec2[k] = rec[k],
         \A x \in Nat : HoldsAt(f[x], hk) \subseteq DOMAIN rec,
         \A x \in Nat : \/ HoldsAt(g[x], hk2) = HoldsAt(f[x], hk) /\ ag[x] = af[x]
                        \/ ClaimOf(HoldsAt(g[x], hk2), ag[x], rec2)
  PROVE  ClaimsOf(g, ag, hk2, rec2)
<1> SUFFICES ASSUME NEW x \in Nat,
                    HoldsAt(g[x], hk2) = HoldsAt(f[x], hk), ag[x] = af[x]
             PROVE  ClaimOf(HoldsAt(f[x], hk), af[x], rec2)
  BY DEF ClaimsOf
<1>1. ClaimOf(HoldsAt(f[x], hk), af[x], rec)
  BY DEF ClaimsOf
<1>2. \A h \in HoldsAt(f[x], hk) : rec2[h] = rec[h]
  OBVIOUS
<1> QED
  BY <1>1, <1>2 DEF ClaimOf

LEMMA ShowsGain ==
  ASSUME NEW f, NEW g, NEW af, NEW ag, NEW hk, NEW hk2, NEW rec, NEW rec2, NEW mem, NEW w,
         ShowsOf(f, af, hk, rec, mem), DOMAIN mem = Cell,
         \A k \in DOMAIN rec : /\ rec2[k] = rec[k]
                               /\ DOMAIN rec[k].backup \subseteq Cell
                               /\ DOMAIN w \cap DOMAIN rec[k].backup = {},
         \A x \in Nat : HoldsAt(f[x], hk) \subseteq DOMAIN rec,
         \A x \in Nat : \/ HoldsAt(g[x], hk2) = HoldsAt(f[x], hk) /\ ag[x] = af[x]
                        \/ ShowOf(HoldsAt(g[x], hk2), ag[x], rec2, Overwrite(mem, w))
  PROVE  ShowsOf(g, ag, hk2, rec2, Overwrite(mem, w))
<1> SUFFICES ASSUME NEW x \in Nat,
                    HoldsAt(g[x], hk2) = HoldsAt(f[x], hk), ag[x] = af[x]
             PROVE  ShowOf(HoldsAt(f[x], hk), af[x], rec2, Overwrite(mem, w))
  BY DEF ShowsOf
<1>1. ShowOf(HoldsAt(f[x], hk), af[x], rec, mem)
  BY DEF ShowsOf
<1>2. \A h \in HoldsAt(f[x], hk) : rec2[h] = rec[h]
  OBVIOUS
<1>3. \A h \in HoldsAt(f[x], hk) : \A c \in DOMAIN rec[h].backup : Overwrite(mem, w)[c] = mem[c]
  BY DEF Overwrite
<1> QED
  BY <1>1, <1>2, <1>3, ShowKept

LEMMA ShowsLose ==
  ASSUME NEW f, NEW g, NEW addon, NEW hk, NEW hk2, NEW rec, NEW rec2, NEW mem, NEW h \in DOMAIN rec,
         ShowsOf(f, addon, hk, rec, mem), ImageOf(rec, mem), DOMAIN mem = Cell,
         \A k \in DOMAIN rec : DOMAIN rec[k].backup \subseteq Cell,
         \A k \in DOMAIN rec : k # h => rec2[k] = rec[k],
         \A x \in Nat : /\ HoldsAt(g[x], hk2) = HoldsAt(f[x], hk)
                        /\ HoldsAt(f[x], hk) \subseteq DOMAIN rec \ {h}
  PROVE  ShowsOf(g, addon, hk2, rec2, Overwrite(mem, rec[h].backup))
<1> SUFFICES ASSUME NEW x \in Nat
             PROVE  ShowOf(HoldsAt(f[x], hk), addon[x], rec2, Overwrite(mem, rec[h].backup))
  BY DEF ShowsOf
<1>1. ShowOf(HoldsAt(f[x], hk), addon[x], rec, mem)
  BY DEF ShowsOf
<1>2. \A k \in HoldsAt(f[x], hk) : rec2[k] = rec[k]
  OBVIOUS
<1>3. \A k \in HoldsAt(f[x], hk) : DOMAIN rec[h].backup \cap DOMAIN rec[k].backup = {}
  BY DEF ImageOf
<1>4. \A k \in HoldsAt(f[x], hk) : \A c \in DOMAIN rec[k].backup :
        Overwrite(mem, rec[h].backup)[c] = mem[c]
  BY <1>3 DEF Overwrite
<1> QED
  BY <1>1, <1>2, <1>4, ShowKept

LEMMA ClaimsLose ==
  ASSUME NEW f, NEW g, NEW addon, NEW hk, NEW hk2, NEW rec, NEW rec2, NEW h \in DOMAIN rec,
         ClaimsOf(f, addon, hk, rec),
         \A k \in DOMAIN rec : k # h => rec2[k] = rec[k],
         \A x \in Nat : /\ HoldsAt(g[x], hk2) = HoldsAt(f[x], hk)
                        /\ HoldsAt(f[x], hk) \subseteq DOMAIN rec \ {h}
  PROVE  ClaimsOf(g, addon, hk2, rec2)
<1> SUFFICES ASSUME NEW x \in Nat
             PROVE  ClaimOf(HoldsAt(f[x], hk), addon[x], rec2)
  BY DEF ClaimsOf
<1>1. ClaimOf(HoldsAt(f[x], hk), addon[x], rec)
  BY DEF ClaimsOf
<1>2. \A k \in HoldsAt(f[x], hk) : rec2[k] = rec[k]
  OBVIOUS
<1> QED
  BY <1>1, <1>2 DEF ClaimOf

-----------------------------------------------------------------------------
(* Types.                                                                  *)

LEMMA NoPatchesType == NoPatches \in PatchSet
<1>1. << >> \in [{} -> Values] /\ {} \in SUBSET Int
  OBVIOUS
<1>2. << >> \in Shown
  BY <1>1 DEF Shown
<1> QED
  BY <1>2 DEF NoPatches, PatchSet

LEMMA FileTypes ==
  ASSUME NEW m \in Mod, NEW f \in File[m]
  PROVE  f \in Seq(FileEntries) /\ f \in Seq(Entry) /\ Spans(f) \in SUBSET Int
<1>1. f \in Seq(Entry)
  BY FileAssumption
<1>2. \A k \in DOMAIN f : f[k] \in FileEntries
  BY DEF FileEntries
<1>3. f \in Seq(FileEntries)
  <2>1. Len(f) \in Nat /\ DOMAIN f = 1 .. Len(f) /\ f = [k \in 1 .. Len(f) |-> f[k]]
    BY <1>1
  <2> QED
    BY <1>2, <2>1
<1>4. \A k \in DOMAIN f : SpanOf(f[k]) \subseteq Int
  BY DEF SpanOf
<1> QED
  BY <1>1, <1>3, <1>4 DEF Spans

LEMMA EntryFacts ==
  ASSUME NEW e \in Entry
  PROVE  /\ Written(e) \in Shown
         /\ e.kind = "hook" => e.addr \in Nat /\ resolveAddress(e.addr) \in DOMAIN Written(e)
<1>1. resolveAddress(e.addr) \in Nat /\ DetourLength \in Nat \ {0}
  BY FileAssumption DEF resolveAddress, Entry
<1>2. CASE e.kind = "hook"
  <2> DEFINE a == resolveAddress(e.addr)
  <2>1. Written(e) = [c \in a .. a + DetourLength - 1 |-> <<"call", a>>]
    BY <1>2 DEF Written
  <2>2. a .. a + DetourLength - 1 \in SUBSET Int /\ a \in a .. a + DetourLength - 1
    BY <1>1
  <2>6. a \in Nat
    BY <1>1
  <2> HIDE DEF a
  <2>5. <<"call", a>> \in Values
    BY <2>6 DEF Values
  <2>3. Written(e) \in [a .. a + DetourLength - 1 -> Values]
    BY <2>1, <2>5
  <2>4. Written(e) \in Shown
    BY <2>2, <2>3 DEF Shown
  <2> QED
    BY <2>1, <2>2, <2>4 DEF Entry, a
<1>3. CASE e.kind # "hook"
  <2> DEFINE a == resolveAddress(e.addr)
             n == Len(e.bytes)
  <2>1. Written(e) = [c \in a .. a + n - 1 |-> e.bytes[c - a + 1]]
    BY <1>3 DEF Written
  <2>2. e.bytes \in Seq(STRING \X Nat) /\ n \in Nat
    BY DEF Entry
  <2>3. \A c \in a .. a + n - 1 : e.bytes[c - a + 1] \in Values
    <3> SUFFICES ASSUME NEW c \in a .. a + n - 1
                 PROVE  e.bytes[c - a + 1] \in Values
      OBVIOUS
    <3>1. c - a + 1 \in 1 .. n
      BY <1>1, <2>2
    <3>2. e.bytes[c - a + 1] \in STRING \X Nat
      BY <2>2, <3>1
    <3> QED
      BY <3>2 DEF Values
  <2>4. a .. a + n - 1 \in SUBSET Int
    BY <1>1, <2>2
  <2>5. Written(e) \in [a .. a + n - 1 -> Values]
    BY <2>1, <2>3
  <2> HIDE DEF a, n
  <2> QED
    BY <1>3, <2>4, <2>5 DEF Shown
<1> QED
  BY <1>2, <1>3

LEMMA ShownType ==
  ASSUME NEW s \in Shown, NEW w \in Shown
  PROVE  Overwrite(s, w) \in Shown
<1>1. PICK S \in SUBSET Int : s \in [S -> Values]
  BY DEF Shown
<1>2. PICK W \in SUBSET Int : w \in [W -> Values]
  BY DEF Shown
<1>3. Overwrite(s, w) \in [S \cup W -> Values]
  BY <1>1, <1>2 DEF Overwrite
<1> QED
  BY <1>3 DEF Shown

LEMMA StateFacts ==
  ASSUME Kept
  PROVE  /\ DOMAIN mods = 1 .. Len(mods) /\ Len(mods) \in Nat
         /\ DOMAIN mods \subseteq Nat \ {0} /\ DOMAIN doomed \subseteq Nat \ {0}
         /\ DOMAIN doomed = 1 .. Len(doomed) /\ Len(doomed) \in Nat
         /\ Records \subseteq 1 .. handle /\ handle \in Nat
         /\ DOMAIN Record = DOMAIN applied \cup DOMAIN detours
         /\ job.patches \in PatchSet
         /\ \A i \in DOMAIN mods : mods[i] \in LoadedAddons
         /\ \A k \in DOMAIN doomed : doomed[k] \in [handles : Seq(Nat), sites : Seq(Nat)]
<1>1. mods \in Seq(LoadedAddons) /\ doomed \in Seq([handles : Seq(Nat), sites : Seq(Nat)])
  BY DEF Kept, HoldersTypeOK
<1>2. job.patches \in PatchSet
  BY NoPatchesType DEF Kept, HoldersTypeOK, Jobs, NoJob
<1>3. Records \subseteq 1 .. handle /\ handle \in Nat
  BY DEF Kept, TypeOK
<1>4. /\ DOMAIN mods = 1 .. Len(mods) /\ Len(mods) \in Nat
      /\ DOMAIN doomed = 1 .. Len(doomed) /\ Len(doomed) \in Nat
  BY <1>1
<1>5. /\ \A i \in DOMAIN mods : mods[i] \in LoadedAddons
      /\ \A k \in DOMAIN doomed : doomed[k] \in [handles : Seq(Nat), sites : Seq(Nat)]
  BY <1>1, <1>4, ElementOfSeq
<1>6. DOMAIN Record = DOMAIN applied \cup DOMAIN detours
  BY DEF Record, Records
<1> QED
  BY <1>2, <1>3, <1>4, <1>5, <1>6

-----------------------------------------------------------------------------
(* Steps that make and remove nothing.                                     *)

LEMMA StaysMoved ==
  ASSUME NEW f
  PROVE  Moved(f, f)
<1>1. Moves(f, f, [x \in Places |-> x])
  BY DEF Moves
<1>2. [x \in Places |-> x] \in [Places -> Places]
  OBVIOUS
<1> QED
  BY <1>1, <1>2 DEF Moved

LEMMA QuietStep ==
  ASSUME PatchesInv, UNCHANGED <<memory, applied, detours, hooks, failed, overlaid, untold>>,
         Scripts' = Scripts, Moved(Held, Held'), AddonsMoved(Held, Addon, Held', Addon'),
         HoldersTypeOK', TypeOK', Underway', ScriptsApart'
  PROVE  PatchesInv'
<1>1. HoldersOf(Held', applied, Scripts)
  BY MovedHolders DEF PatchesInv, Kept
<1>2. Kept'
  BY <1>1 DEF Kept
<1>3. Record' = Record
  BY DEF Record, Records, Owned
<1>4. ASSUME Regular
      PROVE  Orderly'
  <2>1. Orderly
    BY <1>4 DEF PatchesInv
  <2>2. HooksOf(Held', detours, hooks)
    BY <2>1, MovedHooks DEF Orderly
  <2>3. ClaimsOf(Held', Addon', hooks, Record)
    BY <2>1, MovedClaims DEF Orderly
  <2> QED
    BY <1>3, <2>1, <2>2, <2>3 DEF Orderly
<1>5. ASSUME Imaged
      PROVE  Imaged'
  <2>1. ShowsOf(Held', Addon', hooks, Record, memory)
    BY <1>5, MovedShows DEF Imaged
  <2> QED
    BY <1>3, <1>5, <2>1 DEF Imaged
<1>6. Regular' => Regular /\ untold' = untold
  BY DEF Regular
<1> QED
  BY <1>2, <1>4, <1>5, <1>6 DEF PatchesInv

LEMMA NowFacts ==
  ASSUME Kept
  PROVE  /\ Held[0] = Removals(job.patches) /\ Addon[0] = Loaded
         /\ \A i \in DOMAIN mods : Held[i] = Removals(mods[i].patches) /\ Addon[i] = mods[i]
         /\ \A x \in Nat \ {0} : x \notin DOMAIN mods => Held[x] = NoRemovals /\ Addon[x] = Nobody
         /\ \A k \in DOMAIN doomed : Held[-k] = doomed[k]
         /\ \A k \in Nat \ {0} : k \notin DOMAIN doomed => Held[-k] = NoRemovals
<1>1. DOMAIN mods \subseteq Nat \ {0} /\ DOMAIN doomed \subseteq Nat \ {0}
  BY StateFacts
<1>2. Held = HeldIn(mods, job, doomed) /\ Addon = AddonIn(mods, job)
  BY DEF Held, Addon
<1>3. /\ Held[0] = Removals(job.patches)
      /\ \A i \in DOMAIN mods : Held[i] = Removals(mods[i].patches)
      /\ \A x \in Nat \ {0} : x \notin DOMAIN mods => Held[x] = NoRemovals
      /\ \A k \in DOMAIN doomed : Held[-k] = doomed[k]
      /\ \A k \in Nat \ {0} : k \notin DOMAIN doomed => Held[-k] = NoRemovals
  BY <1>1, <1>2, HeldFacts
<1>4. /\ Addon[0] = Loaded
      /\ \A i \in DOMAIN mods : Addon[i] = mods[i]
      /\ \A x \in Nat \ {0} : x \notin DOMAIN mods => Addon[x] = Nobody
  BY <1>1, <1>2, AddonFacts DEF Loaded
<1> QED
  BY <1>3, <1>4

LEMMA NextFacts ==
  ASSUME DOMAIN mods' \subseteq Nat \ {0}, DOMAIN doomed' \subseteq Nat \ {0}
  PROVE  /\ Held'[0] = Removals(job'.patches) /\ Addon'[0] = Loaded'
         /\ \A i \in DOMAIN mods' : Held'[i] = Removals(mods'[i].patches) /\ Addon'[i] = mods'[i]
         /\ \A x \in Nat \ {0} : x \notin DOMAIN mods' => Held'[x] = NoRemovals /\ Addon'[x] = Nobody
         /\ \A k \in DOMAIN doomed' : Held'[-k] = doomed'[k]
         /\ \A k \in Nat \ {0} : k \notin DOMAIN doomed' => Held'[-k] = NoRemovals
<1>2. Held' = HeldIn(mods', job', doomed') /\ Addon' = AddonIn(mods', job')
  BY DEF Held, Addon
<1>3. /\ Held'[0] = Removals(job'.patches)
      /\ \A i \in DOMAIN mods' : Held'[i] = Removals(mods'[i].patches)
      /\ \A x \in Nat \ {0} : x \notin DOMAIN mods' => Held'[x] = NoRemovals
      /\ \A k \in DOMAIN doomed' : Held'[-k] = doomed'[k]
      /\ \A k \in Nat \ {0} : k \notin DOMAIN doomed' => Held'[-k] = NoRemovals
  BY <1>2, HeldFacts
<1>4. /\ Addon'[0] = Loaded'
      /\ \A i \in DOMAIN mods' : Addon'[i] = mods'[i]
      /\ \A x \in Nat \ {0} : x \notin DOMAIN mods' => Addon'[x] = Nobody
  BY <1>2, AddonFacts DEF Loaded
<1> QED
  BY <1>3, <1>4

LEMMA HeldStays ==
  ASSUME mods' = mods, doomed' = doomed, Removals(job.patches)' = Removals(job.patches)
  PROVE  Held' = Held
  BY DEF Held, HeldIn

LEMMA AddonsStay ==
  ASSUME Held' = Held, Addon' = Addon
  PROVE  AddonsMoved(Held, Addon, Held', Addon')
  BY DEF AddonsMoved

LEMMA IdleFacts ==
  ASSUME Idle
  PROVE  job.patches = NoPatches /\ job.todo = << >> /\ job.index = 0 /\ doomed = << >>
  BY DEF Idle, NoJob

(* Loading or reloading begins.                                            *)
LEMMA StartKeeps ==
  ASSUME PatchesInv, Idle, NEW m \in Mod, NEW f \in File[m], NEW index \in DOMAIN mods \cup {0},
         Acceptable(f, index), StartJob(m, index, f),
         index = 0 => Len(mods) < next', index # 0 => mods[index].mod = m,
         UNCHANGED <<memory, applied, detours, hooks, mods, phase, doomed, handle, failed,
                     overlaid, untold, scriptVars>>,
         TypeOK'
  PROVE  PatchesInv'
<1> USE DEF PatchesInv, Kept
<1>1. job' = [mod |-> m, index |-> index, todo |-> f, patches |-> NoPatches, spans |-> Spans(f)]
  BY DEF StartJob
<1>2. Scripts' = Scripts
  BY DEF Scripts, scriptVars
<1>3. job'.patches = NoPatches /\ job'.mod = m /\ job'.spans = Spans(f) /\ job'.todo = f
      /\ job'.index = index
  BY <1>1
<1>4. Held' = Held
  BY <1>3, IdleFacts, HeldStays DEF Removals
<1>5. AddonsMoved(Held, Addon, Held', Addon')
  <2>1. ASSUME NEW x \in Nat, x # 0
        PROVE  Addon'[x] = Addon[x]
    BY <2>1, SplitPlaces DEF Addon, AddonIn
  <2>2. Held'[0] = NoRemovals /\ DOMAIN Addon'[0].patches.shown = {}
    <3>1. 0 \notin DOMAIN mods /\ 0 \in Places
      BY StateFacts, SplitPlaces
    <3>2. Held[0] = Removals(NoPatches)
      BY <3>1, IdleFacts DEF Held, HeldIn
    <3>3. Addon'[0].patches = NoPatches
      BY <1>3, <3>1 DEF Addon, AddonIn
    <3> QED
      BY <1>4, <3>2, <3>3 DEF Removals, NoPatches, NoRemovals
  <2> QED
    BY <1>4, <2>1, <2>2 DEF AddonsMoved
<1>6. HoldersTypeOK'
  <2>1. job' \in Jobs
    <3>1. index \in Nat
      BY StateFacts
    <3> QED
      BY <1>1, <3>1, FileTypes, NoPatchesType DEF Jobs
  <2> QED
    BY <2>1 DEF HoldersTypeOK, scriptVars
<1>7. Underway'
  <2>1. \A k \in DOMAIN f : SpanOf(f[k]) \subseteq Spans(f)
    BY DEF Spans
  <2>2. \A i \in DOMAIN mods \ {index} : Spans(f) \cap mods[i].spans = {}
    BY DEF Acceptable, Occupied
  <2>3. call' = NoCall /\ doomed' = << >> /\ mods' = mods
    BY DEF Idle, scriptVars
  <2>4. \A i, j \in DOMAIN mods : i # j => mods[i].spans \cap mods[j].spans = {}
    BY DEF Underway
  <2> QED
    BY <1>3, <2>1, <2>2, <2>3, <2>4 DEF Underway
<1>8. ScriptsApart'
  BY DEF ScriptsApart, scriptVars
<1> QED
  BY <1>2, <1>4, <1>5, <1>6, <1>7, <1>8, QuietStep, StaysMoved

(* Everything waits to be dropped.                                         *)
LEMMA BreakKeeps ==
  ASSUME PatchesInv, Idle, Break,
         UNCHANGED <<memory, applied, detours, hooks, handle, failed, overlaid, untold, scriptVars>>,
         TypeOK'
  PROVE  PatchesInv'
<1> USE DEF PatchesInv, Kept
<1>1. /\ job' = job /\ mods' = << >> /\ DOMAIN mods' = {}
      /\ doomed' = AllRemovals /\ DOMAIN doomed' = DOMAIN mods
      /\ \A i \in DOMAIN mods : doomed'[i] = Removals(mods[i].patches)
  BY DEF Break, AllRemovals
<1>2. Scripts' = Scripts
  BY DEF Scripts, scriptVars
<1>3. Removals(job.patches) = NoRemovals
  BY IdleFacts DEF Removals, NoPatches, NoRemovals
<1>4. /\ \A i \in DOMAIN mods : Held[i] = Removals(mods[i].patches)
      /\ Held[0] = NoRemovals /\ \A k \in Nat \ {0} : Held[-k] = NoRemovals
      /\ \A i \in Nat \ {0} : i \notin DOMAIN mods => Held[i] = NoRemovals
  <2>1. Kept /\ DOMAIN doomed = {}
    BY IdleFacts
  <2> HIDE DEF Kept
  <2> QED
    BY <1>3, <2>1, NowFacts
<1>5. /\ Held'[0] = NoRemovals /\ \A i \in Nat \ {0} : Held'[i] = NoRemovals
      /\ \A k \in DOMAIN mods : Held'[-k] = Removals(mods[k].patches)
      /\ \A k \in Nat \ {0} : k \notin DOMAIN mods => Held'[-k] = NoRemovals
  BY <1>1, <1>3, StateFacts, NextFacts
<1>6. Moved(Held, Held')
  <2> DEFINE pi == [x \in Places |-> -x]
  <2>1. pi \in [Places -> Places] /\ \A x \in Places : pi[x] = -x
    BY DEF Places
  <2>2. \A x \in Places : Held'[x] # NoRemovals => \E k \in DOMAIN mods : x = -k
    <3> SUFFICES ASSUME NEW x \in Places, Held'[x] # NoRemovals
                 PROVE  \E k \in DOMAIN mods : x = -k
      OBVIOUS
    <3>1. PICK k \in Nat \ {0} : x = -k
      BY <1>5, SplitPlaces
    <3>2. k \in DOMAIN mods
      BY <1>5, <3>1
    <3> QED
      BY <3>1, <3>2
  <2>3. \A x \in Places : Held[x] # NoRemovals => x \in DOMAIN mods
    BY <1>4, SplitPlaces
  <2>4. DOMAIN mods \subseteq Nat
    BY StateFacts
  <2> HIDE DEF pi
  <2>5. \A x \in Places : Held'[x] # NoRemovals => Held'[x] = Held[pi[x]]
    BY <1>4, <1>5, <2>1, <2>2, <2>4 DEF Places
  <2>6. \A x, y \in Places : pi[x] = pi[y] => x = y
    BY <2>1 DEF Places
  <2>7. \A y \in Places : Held[y] # NoRemovals => \E x \in Places : pi[x] = y /\ Held'[x] = Held[y]
    <3> SUFFICES ASSUME NEW y \in DOMAIN mods
                 PROVE  \E x \in Places : pi[x] = y /\ Held'[x] = Held[y]
      BY <2>3
    <3>1. -y \in Places /\ pi[-y] = y
      BY <2>1, <2>4 DEF Places
    <3> QED
      BY <1>4, <1>5, <3>1
  <2> QED
    BY <2>1, <2>5, <2>6, <2>7 DEF Moved, Moves
<1>7. AddonsMoved(Held, Addon, Held', Addon')
  <2>1. \A x \in Nat : Addon'[x].patches = NoPatches
    BY <1>1, IdleFacts, SplitPlaces DEF Addon, AddonIn, Nobody
  <2> QED
    BY <1>5, <2>1 DEF AddonsMoved, NoPatches
<1>8. HoldersTypeOK'
  <2>1. AllRemovals \in Seq([handles : Seq(Nat), sites : Seq(Nat)])
    <3>1. \A i \in 1 .. Len(mods) : Removals(mods[i].patches) \in [handles : Seq(Nat), sites : Seq(Nat)]
      BY StateFacts DEF LoadedAddons, PatchSet, Removals
    <3> QED
      BY <3>1, StateFacts DEF AllRemovals
  <2> QED
    BY <1>1, <2>1 DEF HoldersTypeOK, scriptVars
<1>9. Underway'
  BY <1>1 DEF Underway, Idle, scriptVars
<1>10. ScriptsApart'
  BY DEF ScriptsApart, scriptVars
<1> QED
  BY <1>2, <1>6, <1>7, <1>8, <1>9, <1>10, QuietStep

LEMMA BeginLoadKeeps ==
  ASSUME PatchesInv, NEW m \in Mod, NEW f \in File[m], BeginLoad(f)
  PROVE  PatchesInv'
<1> DEFINE started == LoadOrder[next + 1]
<1>1. started \in Mod /\ f \in File[started] /\ next \in Nat /\ next' = next + 1
      /\ next < Len(LoadOrder) /\ Len(mods) <= next /\ Len(mods) \in Nat
  BY FileAssumption, StateFacts DEF BeginLoad, PatchesInv, Kept, TypeOK
<1>2. CASE Acceptable(f, 0) /\ StartJob(started, 0, f) /\ UNCHANGED <<mods, phase, doomed>>
  <2>1. TypeOK'
    BY <1>1, <1>2 DEF PatchesInv, Kept, TypeOK, Records, Owned, BeginLoad, scriptVars
  <2>2. Len(mods) < next'
    BY <1>1
  <2>3. UNCHANGED <<memory, applied, detours, hooks, mods, phase, doomed, handle, failed,
                    overlaid, untold, scriptVars>>
    BY <1>2 DEF BeginLoad
  <2> HIDE DEF started
  <2> QED
    BY <1>1, <1>2, <2>1, <2>2, <2>3, StartKeeps DEF BeginLoad
<1>3. CASE Break
  <2>1. mods' = << >> /\ phase' = "ended"
    BY <1>3 DEF Break
  <2>2. TypeOK'
    BY <1>1, <2>1 DEF PatchesInv, Kept, TypeOK, Records, Owned, BeginLoad, scriptVars
  <2> QED
    BY <1>3, <2>2, BreakKeeps DEF BeginLoad
<1> QED
  BY <1>2, <1>3 DEF BeginLoad

LEMMA BeginReloadKeeps ==
  ASSUME PatchesInv, NEW i \in DOMAIN mods, NEW f \in File[mods[i].mod], BeginReload(i, f)
  PROVE  PatchesInv'
<1>1. mods[i].mod \in Mod /\ i # 0
  BY StateFacts DEF PatchesInv, LoadedAddons
<1>2. reloads' \in 0 .. MaxReloads
  BY FileAssumption DEF BeginReload, PatchesInv, Kept, TypeOK
<1>3. CASE Acceptable(f, i) /\ StartJob(mods[i].mod, i, f) /\ UNCHANGED <<mods, phase, doomed>>
  <2>1. TypeOK'
    BY <1>2, <1>3 DEF PatchesInv, Kept, TypeOK, Records, Owned, BeginReload, scriptVars
  <2> QED
    BY <1>1, <1>3, <2>1, StartKeeps DEF BeginReload
<1>4. CASE Break
  <2>1. mods' = << >> /\ phase' = "ended" /\ next' = next
    BY <1>4 DEF Break, BeginReload
  <2>2. Len(mods') = 0 /\ next \in Nat
    BY <2>1 DEF PatchesInv, Kept, TypeOK
  <2>3. TypeOK'
    BY <1>2, <2>1, <2>2 DEF PatchesInv, Kept, TypeOK, Records, Owned, BeginReload, scriptVars
  <2> QED
    BY <1>4, <2>3, BreakKeeps DEF BeginReload
<1> QED
  BY <1>3, <1>4 DEF BeginReload

LEMMA StopKeeps ==
  ASSUME PatchesInv, Stop
  PROVE  PatchesInv'
<1>1. mods' = << >> /\ phase' = "ended" /\ next' = next
  BY DEF Break, Stop
<1>2. Len(mods') = 0 /\ next \in Nat
  BY <1>1 DEF PatchesInv, Kept, TypeOK
<1>3. TypeOK'
  BY <1>1, <1>2 DEF PatchesInv, Kept, TypeOK, Records, Owned, Stop, scriptVars
<1> QED
  BY <1>3, BreakKeeps DEF Stop

LEMMA StartServingKeeps ==
  ASSUME PatchesInv, StartServing
  PROVE  PatchesInv'
<1> USE DEF PatchesInv, Kept, StartServing, scriptVars
<1>1. Held' = Held /\ Addon' = Addon
  BY HeldStays DEF Addon
<1>2. HoldersTypeOK' /\ TypeOK' /\ ScriptsApart' /\ Scripts' = Scripts
  BY DEF HoldersTypeOK, TypeOK, Records, Owned, ScriptsApart, Scripts
<1>3. Underway'
  BY DEF Underway
<1> QED
  BY <1>1, <1>2, <1>3, AddonsStay, StaysMoved, QuietStep

(* Calls of scripts that make and remove nothing.                          *)
LEMMA ScriptQuietKeeps ==
  ASSUME PatchesInv, UNCHANGED <<memory, applied, detours, hooks, mods, phase, job, doomed, next,
                                 handle, reloads, failed, overlaid, untold>>,
         call' \in [todo : Seq(Entry), made : Seq(Nat)], makes' \in 0 .. MaxMakes,
         call' # NoCall => doomed = << >> /\ job.todo = << >> /\ job.index = 0,
         Scripts' = Scripts, ScriptsApart'
  PROVE  PatchesInv'
<1> USE DEF PatchesInv, Kept
<1>1. Held' = Held /\ Addon' = Addon
  BY HeldStays DEF Addon
<1>2. HoldersTypeOK'
  BY DEF HoldersTypeOK
<1>3. Underway'
  BY DEF Underway
<1>4. known' \subseteq 1 .. handle /\ lost' \subseteq (1 .. handle) \ known'
  <2>1. Scripts \subseteq 1 .. handle
    BY StateFacts DEF HoldersOf, Records
  <2>2. known' \subseteq Scripts /\ lost' \subseteq Scripts /\ known' \cap lost' = {}
    BY DEF Scripts, ScriptsApart
  <2> QED
    BY <2>1, <2>2
<1>5. TypeOK'
  BY <1>4 DEF TypeOK, Records, Owned
<1> QED
  BY <1>1, <1>2, <1>3, <1>5, AddonsStay, StaysMoved, QuietStep

LEMMA BeginMakeKeeps ==
  ASSUME PatchesInv, NEW list \in Lists, BeginMake(list)
  PROVE  PatchesInv'
<1>1. call'.made = << >> /\ call' \in [todo : Seq(Entry), made : Seq(Nat)]
  <2>1. list \in Seq(Entry)
    BY FileAssumption, SeqMonotonic
  <2> QED
    BY <2>1 DEF BeginMake
<1>2. call = NoCall /\ doomed = << >> /\ job.todo = << >> /\ job.index = 0
  BY IdleFacts DEF BeginMake, ScriptsRun, Idle, Applied, PatchesInv, Kept, Underway
<1>3. Scripts' = Scripts /\ ScriptsApart'
  BY <1>1, <1>2, NoHandles DEF Scripts, ScriptsApart, NoCall, BeginMake, PatchesInv, Kept
<1>4. makes' \in 0 .. MaxMakes
  BY FileAssumption DEF BeginMake, PatchesInv, Kept, TypeOK
<1> QED
  BY <1>1, <1>2, <1>3, <1>4, ScriptQuietKeeps DEF BeginMake

LEMMA RefuseEntryKeeps ==
  ASSUME PatchesInv, RefuseEntry
  PROVE  PatchesInv'
<1>1. call'.made = << >> /\ call' \in [todo : Seq(Entry), made : Seq(Nat)]
  BY DEF RefuseEntry, NoCall
<1>2. Scripts' = Scripts
  BY <1>1, NoHandles DEF Scripts, RefuseEntry
<1>3. ScriptsApart'
  BY <1>1, NoHandles DEF ScriptsApart, RefuseEntry, PatchesInv, Kept
<1>4. makes' \in 0 .. MaxMakes
  BY DEF RefuseEntry, PatchesInv, Kept, TypeOK
<1> QED
  BY <1>1, <1>2, <1>3, <1>4, ScriptQuietKeeps DEF RefuseEntry

LEMMA EndMakeKeeps ==
  ASSUME PatchesInv, EndMake
  PROVE  PatchesInv'
<1>1. call'.made = << >> /\ call' \in [todo : Seq(Entry), made : Seq(Nat)]
  BY DEF EndMake, NoCall
<1>2. Scripts' = Scripts
  BY <1>1, NoHandles DEF Scripts, EndMake
<1>3. ScriptsApart'
  BY <1>1, NoHandles DEF ScriptsApart, EndMake, PatchesInv, Kept
<1>4. makes' \in 0 .. MaxMakes
  BY DEF EndMake, PatchesInv, Kept, TypeOK
<1> QED
  BY <1>1, <1>2, <1>3, <1>4, ScriptQuietKeeps DEF EndMake

(* The patch set just applied becomes that of the addon loaded last.       *)
LEMMA EndLoadKeeps ==
  ASSUME PatchesInv, EndLoad
  PROVE  PatchesInv'
<1> USE DEF PatchesInv, Kept
<1> DEFINE n == Len(mods) + 1
<1>1. /\ job # NoJob /\ job \in Jobs /\ job.index = 0 /\ doomed = << >>
      /\ Len(mods) < next /\ \A i \in DOMAIN mods : job.spans \cap mods[i].spans = {}
      /\ call = NoCall
  BY StateFacts DEF EndLoad, Applied, HoldersTypeOK, Underway
<1>2. Loaded \in LoadedAddons
  BY <1>1 DEF Loaded, LoadedAddons, Jobs
<1>3. /\ mods' \in Seq(LoadedAddons) /\ DOMAIN mods' = 1 .. n /\ Len(mods') = n
      /\ \A i \in DOMAIN mods : mods'[i] = mods[i]
      /\ mods'[n] = Loaded /\ n \in Nat \ {0} /\ n \notin DOMAIN mods
      /\ DOMAIN mods \subseteq DOMAIN mods' /\ DOMAIN mods' = DOMAIN mods \cup {n}
  BY <1>2 DEF EndLoad, HoldersTypeOK
<1>4. job' = NoJob /\ doomed' = doomed /\ Removals(job'.patches) = NoRemovals
  BY DEF EndLoad, NoJob, NoPatches, NoRemovals, Removals
<1>14. job'.patches = NoPatches
  BY <1>4 DEF NoJob
<1> HIDE DEF n
<1>5. /\ \A i \in DOMAIN mods : Held[i] = Removals(mods[i].patches) /\ Addon[i] = mods[i]
      /\ Held[0] = Removals(job.patches)
      /\ Addon[0] = Loaded
      /\ \A x \in Nat \ {0} : x \notin DOMAIN mods => Held[x] = NoRemovals
      /\ \A k \in Nat \ {0} : Held[-k] = NoRemovals
  BY <1>1, NowFacts
<1>6. /\ \A i \in DOMAIN mods : Held'[i] = Held[i] /\ Addon'[i] = Addon[i]
      /\ Held'[n] = Held[0] /\ Addon'[n] = Loaded
      /\ Held'[0] = NoRemovals /\ Addon'[0].patches = NoPatches
      /\ \A x \in Nat \ {0} : x \notin DOMAIN mods /\ x # n =>
           Held'[x] = NoRemovals /\ Addon'[x] = Nobody
      /\ \A k \in Nat \ {0} : Held'[-k] = NoRemovals
  <2>1. DOMAIN mods' \subseteq Nat \ {0} /\ DOMAIN doomed' \subseteq Nat \ {0}
    BY <1>1, <1>3, <1>4
  <2>2. Loaded.patches = job.patches
    BY DEF Loaded
  <2>3. /\ Held'[0] = Removals(job'.patches) /\ Addon'[0].patches = job'.patches
        /\ \A i \in DOMAIN mods' : Held'[i] = Removals(mods'[i].patches) /\ Addon'[i] = mods'[i]
        /\ \A x \in Nat \ {0} : x \notin DOMAIN mods' => Held'[x] = NoRemovals /\ Addon'[x] = Nobody
        /\ \A k \in Nat \ {0} : k \notin DOMAIN doomed' => Held'[-k] = NoRemovals
    BY <2>1, NextFacts DEF Loaded
  <2>4. DOMAIN doomed' = {}
    BY <1>1, <1>4
  <2>5. Held'[n] = Held[0] /\ Addon'[n] = Loaded
    BY <1>3, <1>5, <2>2, <2>3
  <2>6. \A i \in DOMAIN mods : Held'[i] = Held[i] /\ Addon'[i] = Addon[i]
    BY <1>3, <1>5, <2>3
  <2> QED
    BY <1>3, <1>4, <1>14, <2>3, <2>4, <2>5, <2>6
<1>8. Moved(Held, Held')
  <2> DEFINE pi == [x \in Places |-> IF x = n THEN 0 ELSE IF x = 0 THEN n ELSE x]
  <2>1. /\ pi \in [Places -> Places] /\ pi[n] = 0 /\ pi[0] = n
        /\ \A x \in Places : x # n /\ x # 0 => pi[x] = x
    BY <1>3, SplitPlaces DEF Places
  <2>2. n \in Places /\ 0 \in Places
    BY <1>3, SplitPlaces
  <2> HIDE DEF pi
  <2>3. \A x, y \in Places : pi[x] = pi[y] => x = y
    BY <2>1, <2>2
  <2>4. \A x \in Places : x # 0 => Held'[x] = Held[pi[x]]
    <3> SUFFICES ASSUME NEW x \in Places, x # 0
                 PROVE  Held'[x] = Held[pi[x]]
      OBVIOUS
    <3>1. CASE x \in Nat
      BY <1>5, <1>6, <2>1, <3>1
    <3>2. ASSUME NEW k \in Nat \ {0}, x = -k
          PROVE  Held'[x] = Held[pi[x]]
      BY <1>3, <1>5, <1>6, <2>1, <3>2
    <3> QED
      BY <3>1, <3>2, SplitPlaces
  <2>5. ASSUME NEW y \in Places, Held[y] # NoRemovals
        PROVE  \E x \in Places : pi[x] = y /\ Held'[x] = Held[y]
    <3>1. y # n
      BY <1>3, <1>5, <2>5
    <3>2. CASE y = 0
      BY <1>6, <2>1, <2>2, <3>2
    <3>3. CASE y # 0
      BY <2>1, <2>4, <3>1, <3>3
    <3> QED
      BY <3>2, <3>3
  <2>6. \A x \in Places : Held'[x] # NoRemovals => Held'[x] = Held[pi[x]]
    BY <1>6, <2>4
  <2> QED
    BY <2>1, <2>3, <2>5, <2>6 DEF Moved, Moves
<1>9. AddonsMoved(Held, Addon, Held', Addon')
  <2> SUFFICES ASSUME NEW x \in Nat
               PROVE  \/ Held'[x] = NoRemovals /\ DOMAIN Addon'[x].patches.shown = {}
                      \/ \E y \in Nat : Held'[x] = Held[y] /\ Addon'[x] = Addon[y]
    BY DEF AddonsMoved
  <2>1. DOMAIN NoPatches.shown = {} /\ DOMAIN Nobody.patches.shown = {}
    BY DEF NoPatches, Nobody
  <2>2. CASE x \in DOMAIN mods
    BY <1>6, <2>2
  <2>3. CASE x = n
    BY <1>5, <1>6, <2>3
  <2>4. CASE x = 0
    BY <1>6, <2>1, <2>4
  <2> QED
    BY <1>6, <2>1, <2>2, <2>3, <2>4
<1>10. HoldersTypeOK'
  BY <1>3, <1>4 DEF HoldersTypeOK, EndLoad, scriptVars
<1>11. TypeOK'
  <2>1. Len(mods') <= next
    BY <1>1, <1>3, StateFacts DEF n, TypeOK
  <2> QED
    BY <2>1 DEF TypeOK, Records, Owned, EndLoad, scriptVars
<1>12. Underway'
  <2>1. \A i, j \in DOMAIN mods : i # j => mods[i].spans \cap mods[j].spans = {}
    BY DEF Underway
  <2>2. Loaded.spans = job.spans
    BY DEF Loaded
  <2>3. \A i, j \in DOMAIN mods' : i # j => mods'[i].spans \cap mods'[j].spans = {}
    BY <1>1, <1>3, <2>1, <2>2
  <2>4. call' = NoCall
    BY <1>1 DEF EndLoad, scriptVars
  <2> QED
    BY <1>4, <2>3, <2>4 DEF Underway
<1>13. ScriptsApart' /\ Scripts' = Scripts
  BY DEF ScriptsApart, Scripts, EndLoad, scriptVars
<1> QED
  BY <1>8, <1>9, <1>10, <1>11, <1>12, <1>13, QuietStep DEF EndLoad

(* The patch set just applied waits to be dropped, and all others after it. *)
LEMMA FailLoadKeeps ==
  ASSUME PatchesInv, FailLoad
  PROVE  PatchesInv'
<1> USE DEF PatchesInv, Kept
<1>1. job # NoJob /\ doomed = << >> /\ DOMAIN doomed = {} /\ call = NoCall
  BY DEF FailLoad, Applied, Underway
<1>2. /\ \A i \in 1 .. Len(mods) : Removals(mods[i].patches) \in [handles : Seq(Nat), sites : Seq(Nat)]
      /\ Removals(job.patches) \in [handles : Seq(Nat), sites : Seq(Nat)]
  BY StateFacts DEF LoadedAddons, PatchSet, Removals
<1>3. /\ AllRemovals \in Seq([handles : Seq(Nat), sites : Seq(Nat)])
      /\ Len(AllRemovals) = Len(mods)
      /\ \A i \in DOMAIN mods : AllRemovals[i] = Removals(mods[i].patches)
  BY <1>2, StateFacts DEF AllRemovals
<1>4. /\ doomed' \in Seq([handles : Seq(Nat), sites : Seq(Nat)])
      /\ DOMAIN doomed' = 1 .. Len(mods) + 1
      /\ doomed'[1] = Removals(job.patches)
      /\ \A i \in DOMAIN mods : doomed'[i + 1] = Removals(mods[i].patches)
  <2> DEFINE S == [handles : Seq(Nat), sites : Seq(Nat)]
             s == <<Removals(job.patches)>>
             t == AllRemovals
  <2>1. s \in Seq(S) /\ Len(s) = 1 /\ s[1] = Removals(job.patches)
    BY <1>2
  <2>2. t \in Seq(S) /\ Len(t) = Len(mods) /\ Len(mods) \in Nat /\ DOMAIN mods = 1 .. Len(mods)
    BY <1>3, StateFacts
  <2> HIDE DEF S, s, t
  <2>7. /\ s \o t \in Seq(S) /\ Len(s \o t) = Len(s) + Len(t)
        /\ \A i \in 1 .. Len(s) + Len(t) : (s \o t)[i] = IF i <= Len(s) THEN s[i] ELSE t[i - Len(s)]
    BY <2>1, <2>2, ConcatProperties, Zenon
  <2>3. /\ s \o t \in Seq(S) /\ Len(s \o t) = 1 + Len(mods)
        /\ \A i \in 1 .. 1 + Len(mods) : (s \o t)[i] = IF i <= 1 THEN s[i] ELSE t[i - 1]
    BY <2>1, <2>2, <2>7
  <2>4. doomed' = s \o t
    BY DEF FailLoad, s, t
  <2>5. \A i \in DOMAIN mods : doomed'[i + 1] = t[i]
    BY <2>2, <2>3, <2>4
  <2>6. /\ doomed' \in Seq(S) /\ DOMAIN doomed' = 1 .. Len(mods) + 1
        /\ doomed'[1] = s[1]
    BY <2>2, <2>3, <2>4
  <2> QED
    BY <1>3, <2>1, <2>5, <2>6 DEF S, t
<1>5. mods' = << >> /\ DOMAIN mods' = {} /\ job' = NoJob
  BY DEF FailLoad
<1>6. /\ \A i \in DOMAIN mods : Held[i] = Removals(mods[i].patches)
      /\ Held[0] = Removals(job.patches)
      /\ \A x \in Nat \ {0} : x \notin DOMAIN mods => Held[x] = NoRemovals
      /\ \A k \in Nat \ {0} : Held[-k] = NoRemovals
  BY <1>1, NowFacts
<1>7. DOMAIN mods = 1 .. Len(mods) /\ Len(mods) \in Nat
  BY StateFacts
<1>8. /\ Held'[0] = Removals(NoPatches)
      /\ \A x \in Nat \ {0} : Held'[x] = NoRemovals
      /\ \A k \in 1 .. Len(mods) + 1 : Held'[-k] = doomed'[k]
      /\ \A k \in Nat \ {0} : k \notin 1 .. Len(mods) + 1 => Held'[-k] = NoRemovals
      /\ \A x \in Nat : Addon'[x].patches = NoPatches
  <2>1. DOMAIN mods' \subseteq Nat \ {0} /\ DOMAIN doomed' \subseteq Nat \ {0}
    BY <1>4, <1>5, <1>7
  <2>2. Loaded'.patches = NoPatches /\ job'.patches = NoPatches /\ Nobody.patches = NoPatches
    BY <1>5 DEF Loaded, NoJob, Nobody
  <2> QED
    BY <1>4, <1>5, <2>1, <2>2, NextFacts
<1>9. Held'[0] = NoRemovals /\ DOMAIN NoPatches.shown = {}
  BY <1>8 DEF Removals, NoPatches, NoRemovals
<1>10. Moved(Held, Held')
  <2> DEFINE pi == [x \in Places |-> -x - 1]
  <2>1. pi \in [Places -> Places] /\ \A x \in Places : pi[x] = -x - 1
    BY DEF Places
  <2> HIDE DEF pi
  <2>2. \A x, y \in Places : pi[x] = pi[y] => x = y
    BY <2>1 DEF Places
  <2>3. \A i \in 0 .. Len(mods) : -(i + 1) \in Places /\ pi[-(i + 1)] = i /\ Held'[-(i + 1)] = Held[i]
    <3> SUFFICES ASSUME NEW i \in 0 .. Len(mods)
                 PROVE  -(i + 1) \in Places /\ pi[-(i + 1)] = i /\ Held'[-(i + 1)] = Held[i]
      OBVIOUS
    <3>1. i + 1 \in 1 .. Len(mods) + 1 /\ i + 1 \in Nat /\ Held'[-(i + 1)] = doomed'[i + 1]
      BY <1>7, <1>8
    <3>2. doomed'[i + 1] = Held[i]
      <4>1. CASE i = 0
        BY <1>4, <1>6, <4>1
      <4>2. CASE i # 0
        <5>1. i \in DOMAIN mods
          BY <1>7, <4>2
        <5> QED
          BY <1>4, <1>6, <5>1
      <4> QED
        BY <4>1, <4>2
    <3>3. -(i + 1) \in Places /\ -(-(i + 1)) - 1 = i
      BY <3>1 DEF Places
    <3> QED
      BY <2>1, <3>1, <3>2, <3>3
  <2>4. ASSUME NEW x \in Places, Held'[x] # NoRemovals
        PROVE  Held'[x] = Held[pi[x]]
    <3>1. PICK k \in Nat \ {0} : x = -k
      BY <1>8, <1>9, <2>4, SplitPlaces
    <3>2. k \in 1 .. Len(mods) + 1
      BY <1>8, <2>4, <3>1
    <3>3. k - 1 \in 0 .. Len(mods) /\ -((k - 1) + 1) = x
      BY <1>7, <3>1, <3>2
    <3>4. pi[x] = k - 1 /\ Held'[x] = Held[k - 1]
      BY <2>3, <3>3
    <3> QED
      BY <3>4
  <2>5. ASSUME NEW y \in Places, Held[y] # NoRemovals
        PROVE  \E x \in Places : pi[x] = y /\ Held'[x] = Held[y]
    <3>1. y \in 0 .. Len(mods)
      BY <1>6, <1>7, <2>5, SplitPlaces
    <3> QED
      BY <2>3, <3>1
  <2> QED
    BY <2>1, <2>2, <2>4, <2>5 DEF Moved, Moves
<1>11. AddonsMoved(Held, Addon, Held', Addon')
  BY <1>8, <1>9 DEF AddonsMoved
<1>12. HoldersTypeOK'
  BY <1>4, <1>5 DEF HoldersTypeOK, FailLoad, scriptVars
<1>13. TypeOK'
  <2>1. Len(mods') <= next
    BY <1>5 DEF TypeOK
  <2> QED
    BY <2>1 DEF TypeOK, Records, Owned, FailLoad, scriptVars
<1>14. Underway'
  BY <1>1, <1>5 DEF Underway, FailLoad, scriptVars
<1>15. ScriptsApart' /\ Scripts' = Scripts
  BY DEF ScriptsApart, Scripts, FailLoad, scriptVars
<1> QED
  BY <1>10, <1>11, <1>12, <1>13, <1>14, <1>15, QuietStep DEF FailLoad

(* The new patch set takes the place of the old one, which waits.          *)
LEMMA EndReloadKeeps ==
  ASSUME PatchesInv, EndReload
  PROVE  PatchesInv'
<1> USE DEF PatchesInv, Kept
<1> DEFINE r == job.index
<1>1. /\ job # NoJob /\ job \in Jobs /\ r \in DOMAIN mods /\ doomed = << >> /\ DOMAIN doomed = {}
      /\ \A i \in DOMAIN mods \ {r} : job.spans \cap mods[i].spans = {}
      /\ call = NoCall
  BY DEF EndReload, Applied, HoldersTypeOK, Underway
<1>2. Loaded \in LoadedAddons /\ Loaded.patches = job.patches /\ Loaded.spans = job.spans
  BY <1>1 DEF Loaded, LoadedAddons, Jobs
<1>3. /\ mods' \in Seq(LoadedAddons) /\ DOMAIN mods' = DOMAIN mods /\ Len(mods') = Len(mods)
      /\ \A i \in DOMAIN mods : i # r => mods'[i] = mods[i]
      /\ mods'[r] = Loaded /\ r \in Nat \ {0} /\ DOMAIN mods \subseteq Nat \ {0}
  BY <1>1, <1>2, StateFacts DEF EndReload, Reloaded, HoldersTypeOK
<1>4. Removals(mods[r].patches) \in [handles : Seq(Nat), sites : Seq(Nat)]
  BY <1>1, StateFacts DEF LoadedAddons, PatchSet, Removals
<1>5. /\ doomed' = <<Removals(mods[r].patches)>> /\ DOMAIN doomed' = {1}
      /\ doomed' \in Seq([handles : Seq(Nat), sites : Seq(Nat)])
      /\ doomed'[1] = Removals(mods[r].patches)
      /\ job' = NoJob
  BY <1>4 DEF EndReload, Superseded
<1> HIDE DEF r
<1>6. /\ \A i \in DOMAIN mods : Held[i] = Removals(mods[i].patches) /\ Addon[i] = mods[i]
      /\ Held[0] = Removals(job.patches) /\ Addon[0] = Loaded
      /\ \A x \in Nat \ {0} : x \notin DOMAIN mods => Held[x] = NoRemovals
      /\ \A k \in Nat \ {0} : Held[-k] = NoRemovals
  BY <1>1, NowFacts
<1>7. /\ \A i \in DOMAIN mods : i # r => Held'[i] = Held[i] /\ Addon'[i] = Addon[i]
      /\ Held'[r] = Held[0] /\ Addon'[r] = Addon[0]
      /\ Held'[0] = Removals(NoPatches) /\ Addon'[0].patches = NoPatches
      /\ Held'[-1] = Held[r]
      /\ \A x \in Nat \ {0} : x \notin DOMAIN mods => Held'[x] = NoRemovals /\ Addon'[x] = Nobody
      /\ \A k \in Nat \ {0} : k # 1 => Held'[-k] = NoRemovals
  <2>1. DOMAIN mods' \subseteq Nat \ {0} /\ DOMAIN doomed' \subseteq Nat \ {0}
    BY <1>3, <1>5
  <2>2. Loaded'.patches = NoPatches /\ job'.patches = NoPatches
    BY <1>5 DEF Loaded, NoJob
  <2>3. /\ Held'[0] = Removals(job'.patches) /\ Addon'[0] = Loaded'
        /\ \A i \in DOMAIN mods' : Held'[i] = Removals(mods'[i].patches) /\ Addon'[i] = mods'[i]
        /\ \A x \in Nat \ {0} : x \notin DOMAIN mods' => Held'[x] = NoRemovals /\ Addon'[x] = Nobody
        /\ \A k \in DOMAIN doomed' : Held'[-k] = doomed'[k]
        /\ \A k \in Nat \ {0} : k \notin DOMAIN doomed' => Held'[-k] = NoRemovals
    BY <2>1, NextFacts
  <2>4. \A i \in DOMAIN mods : i # r => Held'[i] = Held[i] /\ Addon'[i] = Addon[i]
    BY <1>3, <1>6, <2>3
  <2>5. Held'[r] = Held[0] /\ Addon'[r] = Addon[0]
    BY <1>1, <1>2, <1>3, <1>6, <2>3
  <2>6. Held'[-1] = Held[r]
    BY <1>1, <1>5, <1>6, <2>3
  <2> QED
    BY <1>3, <1>5, <2>2, <2>3, <2>4, <2>5, <2>6
<1>8. Held'[0] = NoRemovals /\ DOMAIN NoPatches.shown = {} /\ DOMAIN Nobody.patches.shown = {}
  BY <1>7 DEF Removals, NoPatches, NoRemovals, Nobody
<1>9. Moved(Held, Held')
  <2> DEFINE pi == [x \in Places |-> IF x = r THEN 0 ELSE IF x = 0 THEN -1 ELSE IF x = -1 THEN r ELSE x]
  <2>1. r \in Places /\ 0 \in Places /\ -1 \in Places /\ r # 0 /\ r # -1
    BY <1>3, SplitPlaces DEF Places
  <2>2. /\ pi \in [Places -> Places] /\ pi[r] = 0 /\ pi[0] = -1 /\ pi[-1] = r
        /\ \A x \in Places : x # r /\ x # 0 /\ x # -1 => pi[x] = x
    BY <2>1 DEF Places
  <2> HIDE DEF pi
  <2>3. \A x, y \in Places : pi[x] = pi[y] => x = y
    BY <2>1, <2>2
  <2>4. ASSUME NEW x \in Places, x # 0, x # r, x # -1
        PROVE  Held'[x] = Held[x]
    <3>1. CASE x \in Nat \ {0}
      BY <1>6, <1>7, <2>4, <3>1
    <3>2. ASSUME NEW k \in Nat \ {0}, x = -k
          PROVE  Held'[x] = Held[x]
      BY <1>6, <1>7, <2>4, <3>2
    <3> QED
      BY <2>4, <3>1, <3>2, SplitPlaces
  <2>5. \A x \in Places : Held'[x] # NoRemovals => Held'[x] = Held[pi[x]]
    BY <1>7, <1>8, <2>1, <2>2, <2>4
  <2>6. ASSUME NEW y \in Places, Held[y] # NoRemovals
        PROVE  \E x \in Places : pi[x] = y /\ Held'[x] = Held[y]
    <3>1. Held[-1] = NoRemovals
      BY <1>6
    <3>2. CASE y = 0
      BY <1>7, <2>1, <2>2, <3>2
    <3>3. CASE y = r
      BY <1>7, <2>1, <2>2, <3>3
    <3>4. CASE y # 0 /\ y # r
      BY <2>2, <2>4, <2>6, <3>1, <3>4
    <3> QED
      BY <3>2, <3>3, <3>4
  <2> QED
    BY <2>2, <2>3, <2>5, <2>6 DEF Moved, Moves
<1>10. AddonsMoved(Held, Addon, Held', Addon')
  <2> SUFFICES ASSUME NEW x \in Nat
               PROVE  \/ Held'[x] = NoRemovals /\ DOMAIN Addon'[x].patches.shown = {}
                      \/ \E y \in Nat : Held'[x] = Held[y] /\ Addon'[x] = Addon[y]
    BY DEF AddonsMoved
  <2>1. CASE x = r
    BY <1>7, <2>1
  <2>2. CASE x \in DOMAIN mods /\ x # r
    BY <1>7, <2>2
  <2>3. CASE x = 0
    BY <1>7, <1>8, <2>3
  <2> QED
    BY <1>7, <1>8, <2>1, <2>2, <2>3
<1>11. HoldersTypeOK'
  BY <1>3, <1>5 DEF HoldersTypeOK, EndReload, scriptVars
<1>12. TypeOK'
  <2>1. Len(mods') <= next
    BY <1>3 DEF TypeOK
  <2> QED
    BY <2>1 DEF TypeOK, Records, Owned, EndReload, scriptVars
<1>13. Underway'
  <2>1. \A i, j \in DOMAIN mods : i # j => mods[i].spans \cap mods[j].spans = {}
    BY DEF Underway
  <2>2. \A i, j \in DOMAIN mods' : i # j => mods'[i].spans \cap mods'[j].spans = {}
    BY <1>1, <1>2, <1>3, <2>1 DEF r
  <2>3. call' = NoCall
    BY <1>1 DEF EndReload, scriptVars
  <2> QED
    BY <1>5, <2>2, <2>3 DEF Underway
<1>14. ScriptsApart' /\ Scripts' = Scripts
  BY DEF ScriptsApart, Scripts, EndReload, scriptVars
<1> QED
  BY <1>9, <1>10, <1>11, <1>12, <1>13, <1>14, QuietStep DEF EndReload

(* An addon is unloaded: its patch set waits to be dropped.                *)
LEMMA UnloadKeeps ==
  ASSUME PatchesInv, NEW i \in DOMAIN mods, Unload(i)
  PROVE  PatchesInv'
<1> USE DEF PatchesInv, Kept
<1> DEFINE n == Len(mods)
           from(k) == IF k < i THEN k ELSE k + 1
<1>1. job = NoJob /\ job' = NoJob /\ doomed = << >> /\ DOMAIN doomed = {} /\ call = NoCall /\ call' = NoCall
  BY DEF Unload, Idle, scriptVars
<1>2. n \in Nat \ {0} /\ i \in 1 .. n /\ DOMAIN mods = 1 .. n /\ mods \in Seq(LoadedAddons)
  BY StateFacts DEF HoldersTypeOK
<1>3. \A k \in 1 .. n - 1 : from(k) \in 1 .. n /\ from(k) # i
  BY <1>2
<1>4. /\ mods' \in Seq(LoadedAddons) /\ DOMAIN mods' = 1 .. n - 1 /\ Len(mods') = n - 1
      /\ \A k \in 1 .. n - 1 : mods'[k] = mods[from(k)]
  <2>1. mods' = [k \in 1 .. n - 1 |-> mods[from(k)]]
    BY DEF Unload
  <2>2. \A k \in 1 .. n - 1 : mods[from(k)] \in LoadedAddons
    BY <1>2, <1>3, ElementOfSeq
  <2> HIDE DEF from
  <2> QED
    BY <1>2, <2>1, <2>2
<1>5. Removals(mods[i].patches) \in [handles : Seq(Nat), sites : Seq(Nat)]
  BY StateFacts DEF LoadedAddons, PatchSet, Removals
<1>6. /\ doomed' = <<Removals(mods[i].patches)>> /\ DOMAIN doomed' = {1}
      /\ doomed' \in Seq([handles : Seq(Nat), sites : Seq(Nat)])
      /\ doomed'[1] = Removals(mods[i].patches)
  BY <1>5 DEF Unload
<1> HIDE DEF n
<1>7. /\ \A k \in DOMAIN mods : Held[k] = Removals(mods[k].patches) /\ Addon[k] = mods[k]
      /\ Held[0] = NoRemovals
      /\ \A x \in Nat \ {0} : x \notin DOMAIN mods => Held[x] = NoRemovals
      /\ \A k \in Nat \ {0} : Held[-k] = NoRemovals
  BY <1>1, NowFacts, IdleFacts DEF NoRemovals, Removals, NoPatches, NoJob
<1>8. /\ \A k \in 1 .. n - 1 : Held'[k] = Held[from(k)] /\ Addon'[k] = Addon[from(k)]
      /\ Held'[0] = NoRemovals /\ Addon'[0].patches = NoPatches
      /\ Held'[-1] = Held[i]
      /\ \A x \in Nat \ {0} : x \notin 1 .. n - 1 => Held'[x] = NoRemovals /\ Addon'[x] = Nobody
      /\ \A k \in Nat \ {0} : k # 1 => Held'[-k] = NoRemovals
  <2>1. DOMAIN mods' \subseteq Nat \ {0} /\ DOMAIN doomed' \subseteq Nat \ {0}
    BY <1>2, <1>4, <1>6
  <2>2. Loaded'.patches = NoPatches /\ job'.patches = NoPatches
    BY <1>1 DEF Loaded, NoJob
  <2>3. /\ Held'[0] = Removals(job'.patches) /\ Addon'[0] = Loaded'
        /\ \A k \in DOMAIN mods' : Held'[k] = Removals(mods'[k].patches) /\ Addon'[k] = mods'[k]
        /\ \A x \in Nat \ {0} : x \notin DOMAIN mods' => Held'[x] = NoRemovals /\ Addon'[x] = Nobody
        /\ \A k \in DOMAIN doomed' : Held'[-k] = doomed'[k]
        /\ \A k \in Nat \ {0} : k \notin DOMAIN doomed' => Held'[-k] = NoRemovals
    BY <2>1, NextFacts
  <2> HIDE DEF from
  <2>4. \A k \in 1 .. n - 1 : Held'[k] = Held[from(k)] /\ Addon'[k] = Addon[from(k)]
    BY <1>2, <1>3, <1>4, <1>7, <2>3
  <2>5. Held'[-1] = Held[i]
    BY <1>6, <1>7, <2>3
  <2>6. Held'[0] = NoRemovals
    BY <2>2, <2>3 DEF NoRemovals, Removals, NoPatches
  <2> QED
    BY <1>4, <1>6, <2>2, <2>3, <2>4, <2>5, <2>6
<1>9. Moved(Held, Held')
  <2> DEFINE pi == [x \in Places |-> IF x >= i THEN x + 1 ELSE IF x = -1 THEN i ELSE x]
  <2>1. i \in Int /\ i >= 1
    BY <1>2
  <2>2. /\ pi \in [Places -> Places]
        /\ \A x \in Places : pi[x] = IF x >= i THEN x + 1 ELSE IF x = -1 THEN i ELSE x
    BY <2>1 DEF Places
  <2> HIDE DEF pi
  <2>3. \A x, y \in Places : pi[x] = pi[y] => x = y
    BY <2>1, <2>2 DEF Places
  <2>4. ASSUME NEW k \in 1 .. n - 1
        PROVE  k \in Places /\ pi[k] = from(k)
    <3>1. k \in Places /\ k \in Nat /\ k # -1
      BY <1>2, SplitPlaces
    <3>2. pi[k] = IF k >= i THEN k + 1 ELSE k
      BY <2>2, <3>1
    <3> QED
      BY <2>1, <3>1, <3>2
  <2>5. -1 \in Places /\ pi[-1] = i
    BY <2>1, <2>2 DEF Places
  <2>6. ASSUME NEW x \in Places, Held'[x] # NoRemovals
        PROVE  Held'[x] = Held[pi[x]]
    <3>1. x \in 1 .. n - 1 \/ x = -1
      BY <1>8, <2>6, SplitPlaces
    <3> HIDE DEF from
    <3> QED
      BY <1>8, <2>4, <2>5, <3>1
  <2>7. ASSUME NEW y \in Places, Held[y] # NoRemovals
        PROVE  \E x \in Places : pi[x] = y /\ Held'[x] = Held[y]
    <3>1. y \in 1 .. n
      BY <1>2, <1>7, <2>7, SplitPlaces
    <3>2. CASE y = i
      BY <1>8, <2>5, <3>2
    <3>3. CASE y < i
      <4>1. y \in 1 .. n - 1 /\ from(y) = y
        BY <1>2, <3>1, <3>3
      <4> HIDE DEF from
      <4> QED
        BY <1>8, <2>4, <4>1
    <3>4. CASE y > i
      <4>1. y - 1 \in 1 .. n - 1 /\ from(y - 1) = y
        BY <1>2, <3>1, <3>4
      <4> HIDE DEF from
      <4> QED
        BY <1>8, <2>4, <4>1
    <3> QED
      BY <1>2, <3>1, <3>2, <3>3, <3>4
  <2> QED
    BY <2>2, <2>3, <2>6, <2>7 DEF Moved, Moves
<1>10. AddonsMoved(Held, Addon, Held', Addon')
  <2> SUFFICES ASSUME NEW x \in Nat
               PROVE  \/ Held'[x] = NoRemovals /\ DOMAIN Addon'[x].patches.shown = {}
                      \/ \E y \in Nat : Held'[x] = Held[y] /\ Addon'[x] = Addon[y]
    BY DEF AddonsMoved
  <2>1. DOMAIN NoPatches.shown = {} /\ DOMAIN Nobody.patches.shown = {}
    BY DEF NoPatches, Nobody
  <2>2. CASE x \in 1 .. n - 1
    <3>1. from(x) \in Nat
      BY <1>2, <1>3, <2>2
    <3> HIDE DEF from
    <3> QED
      BY <1>8, <2>2, <3>1
  <2>3. CASE x = 0
    BY <1>8, <2>1, <2>3
  <2> HIDE DEF from
  <2> QED
    BY <1>8, <2>1, <2>2, <2>3
<1>11. HoldersTypeOK'
  BY <1>1, <1>4, <1>6 DEF HoldersTypeOK, Unload, scriptVars
<1>12. TypeOK'
  <2>1. Len(mods') <= next /\ next' = next
    BY <1>2, <1>4 DEF TypeOK, Unload, n
  <2> QED
    BY <2>1 DEF TypeOK, Records, Owned, Unload, scriptVars
<1>13. Underway'
  <2>1. \A j, k \in DOMAIN mods : j # k => mods[j].spans \cap mods[k].spans = {}
    BY DEF Underway
  <2>2. \A j, k \in 1 .. n - 1 : j # k => from(j) # from(k)
    BY <1>2
  <2> HIDE DEF from
  <2>3. \A j, k \in DOMAIN mods' : j # k => mods'[j].spans \cap mods'[k].spans = {}
    BY <1>2, <1>3, <1>4, <2>1, <2>2
  <2> QED
    BY <1>1, <2>3 DEF Underway
<1>14. ScriptsApart' /\ Scripts' = Scripts
  BY DEF ScriptsApart, Scripts, Unload, scriptVars
<1> QED
  BY <1>9, <1>10, <1>11, <1>12, <1>13, <1>14, QuietStep DEF Unload

(* All of a patch set is removed.                                          *)
LEMMA DroppedKeeps ==
  ASSUME PatchesInv, doomed # << >>, Dropped,
         UNCHANGED <<mods, phase, job, next, handle, reloads, overlaid, untold, scriptVars>>
  PROVE  PatchesInv'
<1> USE DEF PatchesInv, Kept
<1> DEFINE n == Len(doomed)
<1>1. /\ n \in Nat \ {0} /\ DOMAIN doomed = 1 .. n /\ doomed \in Seq([handles : Seq(Nat), sites : Seq(Nat)])
      /\ doomed[1] \in [handles : Seq(Nat), sites : Seq(Nat)]
  BY StateFacts DEF HoldersTypeOK
<1>2. /\ doomed' \in Seq([handles : Seq(Nat), sites : Seq(Nat)]) /\ DOMAIN doomed' = 1 .. n - 1
      /\ \A k \in 1 .. n - 1 : doomed'[k] = doomed[k + 1]
      /\ doomed' = << >> \/ doomed' # << >>
  BY <1>1 DEF Dropped
<1>3. doomed[1] = NoRemovals
  BY <1>1 DEF Dropped, NoRemovals
<1>4. job = NoJob /\ call = NoCall
  BY DEF Underway
<1> HIDE DEF n
<1>5. /\ \A x \in Nat : Held'[x] = Held[x] /\ Addon'[x] = Addon[x]
      /\ \A k \in Nat \ {0} : Held'[-k] = Held[-(k + 1)]
      /\ Held[-1] = NoRemovals
  <2>1. DOMAIN mods' \subseteq Nat \ {0} /\ DOMAIN doomed' \subseteq Nat \ {0}
    BY <1>1, <1>2, StateFacts
  <2>2. Loaded' = Loaded
    BY DEF Loaded
  <2>3. \A x \in Nat : Held'[x] = Held[x] /\ Addon'[x] = Addon[x]
    <3> SUFFICES ASSUME NEW x \in Nat
                 PROVE  Held'[x] = Held[x] /\ Addon'[x] = Addon[x]
      OBVIOUS
    <3>1. CASE x = 0
      BY <2>1, <2>2, <3>1, NowFacts, NextFacts
    <3>2. CASE x \in DOMAIN mods
      BY <2>1, <3>2, NowFacts, NextFacts
    <3>3. CASE x # 0 /\ x \notin DOMAIN mods
      BY <2>1, <3>3, NowFacts, NextFacts
    <3> QED
      BY <3>1, <3>2, <3>3
  <2>4. /\ \A k \in DOMAIN doomed' : Held'[-k] = doomed'[k]
        /\ \A k \in Nat \ {0} : k \notin DOMAIN doomed' => Held'[-k] = NoRemovals
    BY <2>1, NextFacts
  <2>5. /\ \A k \in DOMAIN doomed : Held[-k] = doomed[k]
        /\ \A k \in Nat \ {0} : k \notin DOMAIN doomed => Held[-k] = NoRemovals
    BY NowFacts
  <2>6. ASSUME NEW k \in Nat \ {0}
        PROVE  Held'[-k] = Held[-(k + 1)]
    <3>1. CASE k \in 1 .. n - 1
      <4>1. k + 1 \in DOMAIN doomed
        BY <1>1, <3>1
      <4> QED
        BY <1>2, <2>4, <2>5, <3>1, <4>1
    <3>2. CASE k \notin 1 .. n - 1
      <4>1. k + 1 \in Nat \ {0} /\ k + 1 \notin DOMAIN doomed /\ k \notin DOMAIN doomed'
        BY <1>1, <1>2, <3>2
      <4>2. Held'[-k] = NoRemovals
        BY <2>4, <4>1
      <4>3. Held[-(k + 1)] = NoRemovals
        BY <2>5, <4>1
      <4> QED
        BY <4>2, <4>3
    <3> QED
      BY <3>1, <3>2
  <2>7. Held[-1] = NoRemovals
    <3>1. 1 \in DOMAIN doomed
      BY <1>1
    <3> QED
      BY <1>3, <2>5, <3>1
  <2> QED
    BY <2>3, <2>6, <2>7
<1>6. Moved(Held, Held')
  <2> DEFINE pi == [x \in Places |-> IF x < 0 THEN x - 1 ELSE x]
  <2>1. /\ pi \in [Places -> Places]
        /\ \A x \in Places : pi[x] = IF x < 0 THEN x - 1 ELSE x
    BY DEF Places
  <2> HIDE DEF pi
  <2>2. \A x, y \in Places : pi[x] = pi[y] => x = y
    BY <2>1 DEF Places
  <2>3. ASSUME NEW x \in Places
        PROVE  Held'[x] = Held[pi[x]]
    <3>1. CASE x \in Nat
      BY <1>5, <2>1, <3>1
    <3>2. ASSUME NEW k \in Nat \ {0}, x = -k
          PROVE  Held'[x] = Held[pi[x]]
      <4>1. pi[x] = -(k + 1)
        BY <2>1, <3>2
      <4> QED
        BY <1>5, <3>2, <4>1
    <3> QED
      BY <3>1, <3>2, SplitPlaces
  <2>4. ASSUME NEW y \in Places, Held[y] # NoRemovals
        PROVE  \E x \in Places : pi[x] = y /\ Held'[x] = Held[y]
    <3>1. y # -1
      BY <1>5, <2>4
    <3>2. CASE y >= 0
      BY <2>1, <2>3, <3>2, SMTT(30) DEF Places
    <3>3. CASE y < 0
      <4>1. y + 1 \in Places /\ pi[y + 1] = y
        BY <2>1, <3>1, <3>3 DEF Places
      <4> QED
        BY <2>3, <4>1
    <3> QED
      BY <3>2, <3>3 DEF Places
  <2> QED
    BY <2>1, <2>2, <2>3, <2>4 DEF Moved, Moves
<1>7. AddonsMoved(Held, Addon, Held', Addon')
  BY <1>5 DEF AddonsMoved
<1>8. HoldersTypeOK' /\ TypeOK' /\ ScriptsApart' /\ Scripts' = Scripts
  BY <1>2 DEF HoldersTypeOK, TypeOK, Records, Owned, ScriptsApart, Scripts, scriptVars, Dropped
<1>9. Underway'
  BY <1>4 DEF Underway, scriptVars
<1> QED
  BY <1>6, <1>7, <1>8, <1>9, QuietStep DEF Dropped

-----------------------------------------------------------------------------
(* Steps that make a patch or a hook.                                      *)

LEMMA FileEntriesType == FileEntries \subseteq Entry
<1> SUFFICES ASSUME NEW m \in Mod, NEW f \in File[m], NEW k \in DOMAIN f
             PROVE  f[k] \in Entry
  BY DEF FileEntries
<1>1. f \in Seq(Entry)
  BY FileTypes
<1> QED
  BY <1>1

LEMMA RecordFacts ==
  /\ DOMAIN Record = Records
  /\ \A h \in Records : Record[h] = Owned(h)
  BY DEF Record

LEMMA RecordGains ==
  ASSUME Kept, NEW h, h = handle + 1, handle' = h,
         NEW r, r.owner \in Mod \cup {"script"}, DOMAIN r.backup \subseteq Cell,
         \/ applied' = Put(applied, h, r) /\ detours' = detours
         \/ detours' = Put(detours, h, r) /\ applied' = applied
  PROVE  /\ h \notin DOMAIN Record /\ h \in Nat \ {0}
         /\ DOMAIN Record' = DOMAIN Record \cup {h}
         /\ Record'[h] = r
         /\ \A k \in DOMAIN Record : Record'[k] = Record[k]
         /\ \A k \in Records' : /\ Owned(k)'.owner \in Mod \cup {"script"}
                                /\ DOMAIN Owned(k)'.backup \subseteq Cell
         /\ DOMAIN applied' \cap DOMAIN detours' = {} /\ Records' \subseteq 1 .. handle'
         /\ handle' \in Nat
<1>1. h \notin Records /\ h \in Nat \ {0} /\ handle \in Nat /\ Records \subseteq 1 .. handle
  BY StateFacts
<1>2. DOMAIN applied \cap DOMAIN detours = {}
  BY DEF Kept, TypeOK
<1>3. /\ Records' = Records \cup {h} /\ DOMAIN applied' \cap DOMAIN detours' = {}
      /\ Owned(h)' = r /\ \A k \in Records : Owned(k)' = Owned(k)
  <2>1. CASE applied' = Put(applied, h, r) /\ detours' = detours
    <3>1. DOMAIN applied' = DOMAIN applied \cup {h} /\ applied'[h] = r
          /\ \A k \in DOMAIN applied : k # h => applied'[k] = applied[k]
      BY <2>1 DEF Put, Overwrite
    <3> QED
      BY <1>1, <1>2, <2>1, <3>1 DEF Records, Owned
  <2>2. CASE detours' = Put(detours, h, r) /\ applied' = applied
    <3>1. DOMAIN detours' = DOMAIN detours \cup {h} /\ detours'[h] = r
          /\ \A k \in DOMAIN detours : k # h => detours'[k] = detours[k]
      BY <2>2 DEF Put, Overwrite
    <3> QED
      BY <1>1, <1>2, <2>2, <3>1 DEF Records, Owned
  <2> QED
    BY <2>1, <2>2
<1>4. DOMAIN Record' = Records' /\ \A k \in Records' : Record'[k] = Owned(k)'
  BY DEF Record
<1>5. \A k \in Records : Owned(k).owner \in Mod \cup {"script"} /\ DOMAIN Owned(k).backup \subseteq Cell
  BY DEF Kept, TypeOK
<1>6. Records' \subseteq 1 .. handle' /\ handle' \in Nat
  BY <1>1, <1>3
<1>7. \A k \in Records' : /\ Owned(k)'.owner \in Mod \cup {"script"}
                         /\ DOMAIN Owned(k)'.backup \subseteq Cell
  BY <1>3, <1>5
<1>8. /\ DOMAIN Record' = DOMAIN Record \cup {h} /\ Record'[h] = r /\ h \notin DOMAIN Record
      /\ \A k \in DOMAIN Record : Record'[k] = Record[k]
  BY <1>1, <1>3, <1>4, RecordFacts
<1> QED
  BY <1>1, <1>3, <1>6, <1>7, <1>8

LEMMA CoveredFacts ==
  ASSUME NEW h \in DOMAIN Record
  PROVE  DOMAIN Record[h].backup \subseteq CoveredBy(Record[h].owner)
  BY RecordFacts DEF CoveredBy

(* What is written for an entry lies within its span, moved to the base its *)
(* address is counted from: spans tell such entries apart.                  *)
LEMMA WrittenWithin ==
  ASSUME NEW e \in Entry, Whole(e),
         NEW base \in Nat, resolveAddress(e.addr) = base + e.addr, NEW c \in DOMAIN Written(e)
  PROVE  c - base \in SpanOf(e)
<1>1. e.addr \in Nat /\ e.bytes \in Seq(STRING \X Nat) /\ DetourLength \in Nat \ {0}
      /\ MinOverwrite \in Nat \ {0}
  BY FileAssumption DEF Entry
<1>2. Len(e.bytes) \in Nat
  BY <1>1
<1>3. CASE e.kind = "hook"
  <2>1. c \in base + e.addr .. base + e.addr + DetourLength - 1
    BY <1>3 DEF Written
  <2>2. LengthOf(e) >= DetourLength /\ LengthOf(e) \in Nat
    BY <1>1, <1>2, <1>3 DEF LengthOf, Whole
  <2> QED
    BY <1>1, <2>1, <2>2 DEF SpanOf
<1>4. CASE e.kind # "hook"
  <2>1. c \in base + e.addr .. base + e.addr + Len(e.bytes) - 1
    BY <1>4 DEF Written
  <2>2. LengthOf(e) = Len(e.bytes)
    BY <1>4 DEF LengthOf
  <2> QED
    BY <1>1, <1>2, <2>1, <2>2 DEF SpanOf
<1> QED
  BY <1>3, <1>4

LEMMA ToldApart ==
  ASSUME NEW e \in Entry, NEW f \in Entry, SpansTell(e, f), SpanOf(e) \cap SpanOf(f) = {}
  PROVE  DOMAIN Written(e) \cap DOMAIN Written(f) = {}
<1> SUFFICES ASSUME NEW c \in DOMAIN Written(e), c \in DOMAIN Written(f)
             PROVE  FALSE
  OBVIOUS
<1>1. Whole(e) /\ Whole(f) /\ (e.addr > ModuleBase <=> f.addr > ModuleBase)
  BY DEF SpansTell
<1>2. e.addr \in Nat /\ f.addr \in Nat /\ ModuleBase \in Nat
  BY FileAssumption DEF Entry
<1>3. PICK base \in Nat : resolveAddress(e.addr) = base + e.addr /\ resolveAddress(f.addr) = base + f.addr
  <2>1. CASE e.addr > ModuleBase
    <3>1. resolveAddress(e.addr) = 0 + e.addr /\ resolveAddress(f.addr) = 0 + f.addr
      BY <1>1, <1>2, <2>1 DEF resolveAddress
    <3> QED
      BY <3>1
  <2>2. CASE ~(e.addr > ModuleBase)
    <3>1. /\ resolveAddress(e.addr) = ModuleBase + e.addr
          /\ resolveAddress(f.addr) = ModuleBase + f.addr
      BY <1>1, <1>2, <2>2 DEF resolveAddress
    <3> QED
      BY <1>2, <3>1
  <2> QED
    BY <2>1, <2>2
<1>4. c - base \in SpanOf(e) /\ c - base \in SpanOf(f)
  BY <1>1, <1>3, WrittenWithin
<1> QED
  BY <1>4

(* An entry that lies on a patch of another addon has a span of its own.   *)
LEMMA LiesElsewhere ==
  ASSUME Kept, Orderly, job # NoJob, job.todo # << >>, NEW e, e = Head(job.todo),
         NEW h \in DOMAIN Record, Record[h].owner \notin {job.mod, "script"}
  PROVE  /\ Record[h].entry \in FileEntries
         /\ DOMAIN Record[h].backup = DOMAIN Written(Record[h].entry)
         /\ SpanOf(e) \cap SpanOf(Record[h].entry) = {}
<1>1. job \in Jobs /\ job.todo \in Seq(FileEntries)
  BY DEF Kept, HoldersTypeOK, Jobs
<1>2. e = job.todo[1] /\ 1 \in DOMAIN job.todo /\ e \in FileEntries
  BY <1>1
<1>3. SpanOf(e) \subseteq job.spans
  BY <1>2 DEF Kept, Underway
<1>4. DOMAIN applied \cap DOMAIN detours = {} /\ DOMAIN Record = DOMAIN applied \cup DOMAIN detours
  BY StateFacts DEF Kept, TypeOK
<1>5. HoldersOf(Held, applied, Scripts) /\ HooksOf(Held, detours, hooks)
  BY DEF Kept, Orderly
<1>6. h \notin Scripts
  BY DEF Orderly, ScriptsOf
<1>7. PICK x \in Places : h \in HoldsAt(Held[x], hooks)
  BY <1>4, <1>5, <1>6, HoldsFacts
<1>8. doomed = << >> /\ DOMAIN doomed = {}
  BY DEF Kept, Underway
<1>9. Held[x] # NoRemovals
  BY <1>7, NothingHeld DEF HoldsAt
<1>10. x \in DOMAIN mods \cup {0}
  BY <1>8, <1>9, NowFacts, SplitPlaces
<1>11. x \in Nat
  BY <1>10, StateFacts
<1>12. /\ Record[h].entry \in FileEntries
       /\ DOMAIN Record[h].backup = DOMAIN Written(Record[h].entry)
       /\ SpanOf(Record[h].entry) \subseteq Addon[x].spans
       /\ Record[h].owner = Addon[x].mod
  BY <1>7, <1>11 DEF Orderly, ClaimsOf, ClaimOf
<1>13. x \in DOMAIN mods /\ Addon[x] = mods[x]
  BY <1>10, <1>12, NowFacts DEF Loaded
<1>14. x # job.index
  BY <1>12, <1>13, StateFacts DEF Kept, Underway
<1>15. job.spans \cap mods[x].spans = {}
  BY <1>13, <1>14 DEF Kept, Underway
<1> QED
  BY <1>3, <1>12, <1>13, <1>15

(* A new entry of an addon does not touch what can be told from it.        *)
LEMMA EntryClear ==
  ASSUME Kept, Orderly, job # NoJob, job.todo # << >>, NEW e, e = Head(job.todo), e \in Entry,
         \A k \in LiesOn(e) : Owned(k).owner \notin {job.mod, "script"},
         NEW h \in DOMAIN Record, SpansTell(e, Record[h].entry)
  PROVE  DOMAIN Written(e) \cap DOMAIN Record[h].backup = {}
<1>1. h \in LiesOn(e) \/ DOMAIN Written(e) \cap DOMAIN Record[h].backup = {}
  BY RecordFacts DEF LiesOn
<1>2. CASE h \in LiesOn(e)
  <2>1. Record[h].owner \notin {job.mod, "script"}
    BY <1>2, RecordFacts
  <2>2. /\ Record[h].entry \in Entry
        /\ DOMAIN Record[h].backup = DOMAIN Written(Record[h].entry)
        /\ SpanOf(e) \cap SpanOf(Record[h].entry) = {}
    BY <2>1, LiesElsewhere, FileEntriesType
  <2> QED
    BY <2>2, ToldApart
<1> QED
  BY <1>1, <1>2

(* A new hook is at a call site that has none.                             *)
LEMMA SiteNew ==
  ASSUME Kept, Orderly, job # NoJob, job.todo # << >>, NEW e, e = Head(job.todo),
         e \in Entry, e.kind = "hook",
         \A k \in LiesOn(e) : Owned(k).owner \notin {job.mod, "script"}
  PROVE  e.addr \notin DOMAIN hooks
<1> SUFFICES ASSUME e.addr \in DOMAIN hooks
             PROVE  FALSE
  OBVIOUS
<1> DEFINE h == hooks[e.addr]
<1>1. h \in DOMAIN detours /\ MadeFor(detours[h], e.addr)
  BY DEF Orderly, HooksOf
<1>2. h \in DOMAIN Record /\ Record[h] = detours[h] /\ Owned(h) = detours[h]
  BY <1>1 DEF Record, Records, Owned, Kept, TypeOK
<1> HIDE DEF h
<1>3. h \in LiesOn(e)
  BY <1>1, <1>2, EntryFacts DEF MadeFor, LiesOn, Records
<1>4. Record[h].owner \notin {job.mod, "script"}
  BY <1>2, <1>3
<1>5. Record[h].entry \in Entry /\ SpanOf(e) \cap SpanOf(Record[h].entry) = {}
  BY <1>2, <1>4, LiesElsewhere, FileEntriesType
<1>6. ASSUME NEW f \in Entry, f.kind = "hook"
      PROVE  f.addr \in SpanOf(f)
  <2>1. f.addr \in Nat /\ Len(f.bytes) \in Nat /\ MinOverwrite \in Nat \ {0}
    BY FileAssumption DEF Entry
  <2>2. LengthOf(f) \in Nat \ {0}
    BY <1>6, <2>1 DEF LengthOf
  <2> QED
    BY <2>1, <2>2 DEF SpanOf
<1> QED
  BY <1>1, <1>2, <1>5, <1>6 DEF MadeFor

(* What the wrapper gains with a patch or detour that meets nothing it can *)
(* be told from.                                                           *)
LEMMA GainKeepsOrder ==
  ASSUME Kept, Orderly, NEW h, NEW r,
         h \notin DOMAIN Record, DOMAIN Record' = DOMAIN Record \cup {h},
         \A k \in DOMAIN Record : Record'[k] = Record[k],
         Record'[h] = r,
         \A k \in DOMAIN Record :
           SpansTell(r.entry, Record[k].entry) => DOMAIN r.backup \cap DOMAIN Record[k].backup = {},
         \A x \in Nat :
           \/ HoldsAt(Held'[x], hooks') = HoldsAt(Held[x], hooks) /\ Addon'[x] = Addon[x]
           \/ ClaimOf(HoldsAt(Held'[x], hooks'), Addon'[x], Record'),
         Scripts' \subseteq Scripts \cup {h}, h \in Scripts' => r.owner = "script"
  PROVE  /\ ClaimsOf(Held', Addon', hooks', Record')
         /\ ScriptsOf(Scripts', Record')
         /\ ApartOf(Record')
<1>1. DOMAIN applied \cap DOMAIN detours = {} /\ DOMAIN Record = DOMAIN applied \cup DOMAIN detours
  BY StateFacts DEF Kept, TypeOK
<1>2. HoldersOf(Held, applied, Scripts) /\ HooksOf(Held, detours, hooks)
  BY DEF Kept, Orderly
<1>3. \A x \in Nat : HoldsAt(Held[x], hooks) \subseteq DOMAIN Record
  BY <1>1, <1>2, HoldsFacts, SplitPlaces
<1>4. ClaimsOf(Held', Addon', hooks', Record')
  BY <1>3, ClaimsGain DEF Orderly
<1>5. Scripts \subseteq DOMAIN Record
  BY <1>1, <1>2 DEF HoldersOf
<1>6. ScriptsOf(Scripts', Record')
  BY <1>5 DEF Orderly, ScriptsOf
<1>7. ApartOf(Record')
  <2>1. \A k, l \in DOMAIN Record :
          Record[k].owner # Record[l].owner /\ SpansTell(Record[k].entry, Record[l].entry)
            => DOMAIN Record[k].backup \cap DOMAIN Record[l].backup = {}
    BY DEF Orderly, ApartOf
  <2>2. \A k \in DOMAIN Record :
          SpansTell(Record[k].entry, r.entry) => DOMAIN Record[k].backup \cap DOMAIN r.backup = {}
    BY DEF SpansTell
  <2> QED
    BY <2>1, <2>2 DEF ApartOf
<1> QED
  BY <1>4, <1>6, <1>7

LEMMA GainKeepsImage ==
  ASSUME Kept, Orderly, Imaged, NEW h, NEW w, DOMAIN w \subseteq Cell,
         h \notin DOMAIN Record, DOMAIN Record' = DOMAIN Record \cup {h},
         \A k \in DOMAIN Record : Record'[k] = Record[k],
         Record'[h].backup = [c \in DOMAIN w |-> memory[c]],
         memory' = Overwrite(memory, w),
         \A k \in DOMAIN Record : DOMAIN w \cap DOMAIN Record[k].backup = {},
         \A x \in Nat :
           \/ HoldsAt(Held'[x], hooks') = HoldsAt(Held[x], hooks) /\ Addon'[x] = Addon[x]
           \/ ShowOf(HoldsAt(Held'[x], hooks'), Addon'[x], Record', memory')
  PROVE  Imaged'
<1>1. DOMAIN memory = Cell
  BY DEF Kept, TypeOK
<1>2. DOMAIN applied \cap DOMAIN detours = {} /\ DOMAIN Record = DOMAIN applied \cup DOMAIN detours
  BY StateFacts DEF Kept, TypeOK
<1>3. \A k \in DOMAIN Record : DOMAIN Record[k].backup \subseteq Cell
  BY RecordFacts DEF Kept, TypeOK
<1>4. ImageOf(Record', memory')
  BY <1>1, ImageGains DEF Imaged
<1>5. HoldersOf(Held, applied, Scripts) /\ HooksOf(Held, detours, hooks)
  BY DEF Kept, Orderly
<1>6. \A x \in Nat : HoldsAt(Held[x], hooks) \subseteq DOMAIN Record
  BY <1>2, <1>5, HoldsFacts, SplitPlaces
<1>7. ShowsOf(Held', Addon', hooks', Record', memory')
  BY <1>1, <1>3, <1>6, ShowsGain DEF Imaged
<1> QED
  BY <1>4, <1>7 DEF Imaged

(* What is the same for every entry that is taken.                         *)
LEMMA EntryTaken ==
  ASSUME Kept, job # NoJob, job.todo # << >>, NEW e, e = Head(job.todo), NEW q \in PatchSet,
         job' = [mod |-> job.mod, index |-> job.index, todo |-> Tail(job.todo),
                 patches |-> q, spans |-> job.spans],
         UNCHANGED <<mods, doomed, next, scriptVars>>
  PROVE  /\ HoldersTypeOK' /\ Underway' /\ ScriptsApart' /\ Scripts' = Scripts
         /\ Held[0] = Removals(job.patches) /\ Held'[0] = Removals(q)
         /\ \A x \in Places : x # 0 => Held'[x] = Held[x]
         /\ Addon[0] = Loaded
         /\ Addon'[0] = [mod |-> job.mod, patches |-> q, spans |-> job.spans]
         /\ \A x \in Places : x # 0 => Addon'[x] = Addon[x]
         /\ job \in Jobs /\ e \in FileEntries /\ e \in Entry /\ SpanOf(e) \subseteq job.spans
<1> USE DEF Kept
<1>1. job \in Jobs /\ job.todo \in Seq(FileEntries) /\ doomed = << >>
  BY DEF HoldersTypeOK, Jobs, Underway
<1>2. e = job.todo[1] /\ 1 \in DOMAIN job.todo /\ e \in FileEntries
  BY <1>1
<1>3. e \in Entry /\ SpanOf(e) \subseteq job.spans
  BY <1>2, FileEntriesType DEF Underway
<1>4. /\ Tail(job.todo) \in Seq(FileEntries)
      /\ \A k \in DOMAIN Tail(job.todo) : k + 1 \in DOMAIN job.todo /\ Tail(job.todo)[k] = job.todo[k + 1]
  BY <1>1
<1>5. /\ job'.patches = q /\ job'.mod = job.mod /\ job'.spans = job.spans
      /\ job'.todo = Tail(job.todo) /\ job'.index = job.index
  OBVIOUS
<1>6. HoldersTypeOK'
  <2>1. job' \in Jobs
    BY <1>1, <1>4 DEF Jobs
  <2> QED
    BY <2>1 DEF HoldersTypeOK, scriptVars
<1>7. Underway'
  <2>1. /\ job.index \in DOMAIN mods \cup {0}
        /\ job.index # 0 => mods[job.index].mod = job.mod
        /\ job.index = 0 => Len(mods) < next
        /\ \A i \in DOMAIN mods \ {job.index} : job.spans \cap mods[i].spans = {}
    BY DEF Underway
  <2>2. \A k \in DOMAIN Tail(job.todo) : SpanOf(Tail(job.todo)[k]) \subseteq job.spans
    BY <1>4 DEF Underway
  <2>3. call' = NoCall /\ doomed' = << >> /\ mods' = mods /\ next' = next
    BY <1>1 DEF Underway, scriptVars
  <2>4. \A i, j \in DOMAIN mods : i # j => mods[i].spans \cap mods[j].spans = {}
    BY DEF Underway
  <2> QED
    BY <1>5, <2>1, <2>2, <2>3, <2>4 DEF Underway
<1>8. ScriptsApart' /\ Scripts' = Scripts
  BY DEF ScriptsApart, Scripts, scriptVars
<1>9. DOMAIN mods' \subseteq Nat \ {0} /\ DOMAIN doomed' \subseteq Nat \ {0}
  BY StateFacts
<1>10. /\ Held'[0] = Removals(q)
       /\ Addon'[0] = [mod |-> job.mod, patches |-> q, spans |-> job.spans]
  BY <1>5, <1>9, NextFacts DEF Loaded
<1>11. \A x \in Places : x # 0 => Held'[x] = Held[x] /\ Addon'[x] = Addon[x]
  BY DEF Held, HeldIn, Addon, AddonIn
<1> QED
  BY <1>1, <1>2, <1>3, <1>6, <1>7, <1>8, <1>10, <1>11, NowFacts

(* The types of the other variables.                                       *)
LEMMA GainType ==
  ASSUME Kept, NEW h, h = handle + 1, handle' = h, NEW w, DOMAIN w \subseteq Cell,
         memory' = Overwrite(memory, w),
         DOMAIN applied' \cap DOMAIN detours' = {}, Records' \subseteq 1 .. handle',
         \A k \in Records' : /\ Owned(k)'.owner \in Mod \cup {"script"}
                             /\ DOMAIN Owned(k)'.backup \subseteq Cell,
         \/ hooks' = hooks
         \/ \E site : hooks' = Put(hooks, site, h),
         overlaid' \in BOOLEAN, untold' \in BOOLEAN,
         UNCHANGED <<mods, phase, next, reloads, failed, known, makes, lost>>
  PROVE  TypeOK'
<1> USE DEF Kept
<1>1. handle \in Nat /\ h \in 1 .. h
  BY DEF TypeOK
<1>2. DOMAIN memory' = Cell
  BY DEF TypeOK, Overwrite
<1>3. \A s \in DOMAIN hooks' : hooks'[s] \in 1 .. handle'
  <2>1. \A s \in DOMAIN hooks : hooks[s] \in 1 .. h
    BY <1>1 DEF TypeOK
  <2>2. ASSUME NEW site, hooks' = Put(hooks, site, h)
        PROVE  \A s \in DOMAIN hooks' : hooks'[s] \in 1 .. h
    BY <1>1, <2>1, <2>2 DEF Put, Overwrite
  <2> QED
    BY <2>1, <2>2
<1>4. known' \subseteq 1 .. handle' /\ lost' \subseteq (1 .. handle') \ known'
  BY <1>1 DEF TypeOK
<1> QED
  BY <1>1, <1>2, <1>3, <1>4 DEF TypeOK

(* An entry the wrapper refuses leaves at most the invalid handle.         *)
LEMMA RefusedBytesKeeps ==
  ASSUME PatchesInv, Apply(FALSE), ApplyBytes(Head(job.todo), FALSE)
  PROVE  PatchesInv'
<1> USE DEF PatchesInv
<1> DEFINE q == [handles |-> Append(job.patches.handles, 0), sites |-> job.patches.sites,
                 shown |-> job.patches.shown]
           e == Head(job.todo)
<1>1. Kept /\ job # NoJob /\ job.todo # << >>
      /\ UNCHANGED <<applied, detours, hooks, memory, handle, failed>>
      /\ UNCHANGED <<mods, phase, doomed, next, reloads, scriptVars>>
  BY DEF Apply, ApplyBytes
<1>2. job.patches \in PatchSet /\ job \in Jobs
  BY <1>1, StateFacts DEF Kept, HoldersTypeOK
<1>3. /\ q \in PatchSet /\ q.handles = Append(job.patches.handles, 0)
      /\ q.sites = job.patches.sites /\ q.shown = job.patches.shown
  BY <1>2 DEF PatchSet
<1>4. job' = [mod |-> job.mod, index |-> job.index, todo |-> Tail(job.todo),
              patches |-> q, spans |-> job.spans]
  BY <1>2 DEF ApplyBytes, Jobs, PatchSet
<1>5. overlaid' = overlaid /\ untold' = untold
  BY DEF Apply, Kept, TypeOK
<1>6. job.patches.handles \in Seq(Nat)
  BY <1>2 DEF PatchSet
<1> HIDE DEF q, e
<1>7. /\ HoldersTypeOK' /\ Underway' /\ ScriptsApart' /\ Scripts' = Scripts
      /\ Held[0] = Removals(job.patches) /\ Held'[0] = Removals(q)
      /\ \A x \in Places : x # 0 => Held'[x] = Held[x]
      /\ Addon[0] = Loaded
      /\ Addon'[0] = [mod |-> job.mod, patches |-> q, spans |-> job.spans]
      /\ \A x \in Places : x # 0 => Addon'[x] = Addon[x]
  BY <1>1, <1>3, <1>4, EntryTaken DEF e
<1>8. TypeOK'
  BY <1>1, <1>5 DEF Kept, TypeOK, Records, Owned, scriptVars
<1>9. 0 \notin DOMAIN applied /\ 0 \in Places /\ 0 \in Nat
  BY <1>1, StateFacts, SplitPlaces DEF Records
<1>10. HoldersOf(Held, applied, Scripts)
  BY DEF Kept
<1>11. /\ Handles(Held'[0].handles) = Handles(Held[0].handles) \cup ({0} \ {0})
       /\ Once(Held[0].handles) /\ Once(Held'[0].handles)
       /\ Held'[0].sites = Held[0].sites
  <2>1. Held[0].handles = job.patches.handles /\ Held'[0].handles = Append(job.patches.handles, 0)
        /\ Held'[0].sites = Held[0].sites
    BY <1>3, <1>7 DEF Removals
  <2>2. Once(Held[0].handles)
    BY <1>9, <1>10 DEF HoldersOf
  <2>3. 0 \notin Handles(job.patches.handles)
    BY DEF Handles
  <2> QED
    BY <1>6, <2>1, <2>2, <2>3, AppendHandle
<1>12. HoldersOf(Held', applied, Scripts)
  BY <1>7, <1>9, <1>10, <1>11, HandleHeld
<1>13. Kept'
  BY <1>1, <1>7, <1>8, <1>12 DEF Kept
<1>14. Record' = Record
  BY <1>1 DEF Record, Records, Owned
<1>15. /\ HoldsAt(Held'[0], hooks) = HoldsAt(Held[0], hooks)
       /\ Addon'[0].mod = Addon[0].mod /\ Addon'[0].spans = Addon[0].spans
       /\ Addon'[0].patches.shown = Addon[0].patches.shown
  BY <1>3, <1>7, <1>11 DEF HoldsAt, SitesOf, Loaded
<1>16. \A x \in Nat : x # 0 => Held'[x] = Held[x] /\ Addon'[x] = Addon[x]
  BY <1>7, SplitPlaces
<1>17. ASSUME Regular
       PROVE  Orderly'
  <2>1. Orderly
    BY <1>17
  <2>2. HooksOf(Held', detours, hooks)
    BY <1>7, <1>11, <2>1, SameSites DEF Orderly
  <2>3. ASSUME NEW x \in Nat
        PROVE  ClaimOf(HoldsAt(Held'[x], hooks), Addon'[x], Record)
    <3>1. ClaimOf(HoldsAt(Held[x], hooks), Addon[x], Record)
      BY <2>1 DEF Orderly, ClaimsOf
    <3> QED
      BY <1>15, <1>16, <3>1 DEF ClaimOf
  <2> QED
    BY <1>1, <1>7, <1>14, <2>1, <2>2, <2>3 DEF Orderly, ClaimsOf
<1>18. ASSUME Imaged
       PROVE  Imaged'
  <2>1. ASSUME NEW x \in Nat
        PROVE  ShowOf(HoldsAt(Held'[x], hooks), Addon'[x], Record, memory)
    <3>1. ShowOf(HoldsAt(Held[x], hooks), Addon[x], Record, memory)
      BY <1>18 DEF Imaged, ShowsOf
    <3> QED
      BY <1>15, <1>16, <3>1 DEF ShowOf
  <2> QED
    BY <1>1, <1>14, <1>18, <2>1 DEF Imaged, ShowsOf
<1>19. Regular' => Regular /\ untold' = untold
  BY <1>1, <1>5 DEF Regular
<1> QED
  BY <1>13, <1>17, <1>18, <1>19

LEMMA RefusedHookKeeps ==
  ASSUME PatchesInv, Apply(FALSE), ApplyHook(Head(job.todo), FALSE)
  PROVE  PatchesInv'
<1> USE DEF PatchesInv
<1> DEFINE e == Head(job.todo)
<1>1. Kept /\ job # NoJob /\ job.todo # << >>
      /\ UNCHANGED <<applied, detours, hooks, memory, handle, failed>>
      /\ UNCHANGED <<mods, phase, doomed, next, reloads, scriptVars>>
  BY DEF Apply, ApplyHook
<1>2. job.patches \in PatchSet /\ job \in Jobs
  BY <1>1, StateFacts DEF Kept, HoldersTypeOK
<1>3. job' = [mod |-> job.mod, index |-> job.index, todo |-> Tail(job.todo),
              patches |-> job.patches, spans |-> job.spans]
  BY <1>2 DEF ApplyHook, Jobs, PatchSet
<1>4. overlaid' = overlaid /\ untold' = untold
  BY DEF Apply, Kept, TypeOK
<1> HIDE DEF e
<1>5. /\ HoldersTypeOK' /\ Underway' /\ ScriptsApart' /\ Scripts' = Scripts
      /\ Held[0] = Removals(job.patches) /\ Held'[0] = Removals(job.patches)
      /\ \A x \in Places : x # 0 => Held'[x] = Held[x]
      /\ Addon[0] = Loaded
      /\ Addon'[0] = [mod |-> job.mod, patches |-> job.patches, spans |-> job.spans]
      /\ \A x \in Places : x # 0 => Addon'[x] = Addon[x]
  BY <1>1, <1>2, <1>3, EntryTaken DEF e
<1>6. Held' = Held
  <2>1. job'.patches = job.patches
    BY <1>3
  <2> QED
    BY <1>1, <2>1, HeldStays DEF Removals
<1>7. AddonsMoved(Held, Addon, Held', Addon')
  BY <1>5, <1>6, SplitPlaces DEF AddonsMoved, Loaded
<1>8. TypeOK'
  BY <1>1, <1>4 DEF Kept, TypeOK, Records, Owned, scriptVars
<1> QED
  BY <1>1, <1>4, <1>5, <1>6, <1>7, <1>8, StaysMoved, QuietStep

(* A patch that is made.                                                   *)
LEMMA AppliedBytesKeeps ==
  ASSUME PatchesInv, Apply(TRUE), ApplyBytes(Head(job.todo), TRUE)
  PROVE  PatchesInv'
<1> USE DEF PatchesInv
<1> DEFINE q == [handles |-> Append(job.patches.handles, handle + 1),
                 sites |-> job.patches.sites,
                 shown |-> Overwrite(job.patches.shown, Written(Head(job.todo)))]
           e == Head(job.todo)
           h == handle + 1
           r == SavedFor(job.mod, e)
           w == Written(e)
<1>1. Kept /\ job # NoJob /\ job.todo # << >>
      /\ applied' = Put(applied, h, r) /\ UNCHANGED <<detours, hooks>>
      /\ memory' = Overwrite(memory, w) /\ handle' = h
      /\ DOMAIN w \subseteq Cell
      /\ overlaid' = (overlaid \/ \E k \in LiesOn(e) : Owned(k).owner \in {job.mod, "script"})
      /\ untold' = (untold \/ \E k \in LiesOn(e) : ~SpansTell(e, Owned(k).entry))
      /\ UNCHANGED <<mods, phase, doomed, next, reloads, failed, scriptVars>>
  BY DEF Apply, ApplyBytes
<1>2. job.patches \in PatchSet /\ job \in Jobs
  BY <1>1, StateFacts DEF Kept, HoldersTypeOK
<1>3. e \in Entry /\ w \in Shown /\ handle \in Nat
  <2>1. job.todo \in Seq(FileEntries)
    BY <1>2 DEF Jobs
  <2>2. e \in Entry
    BY <1>1, <2>1, FileEntriesType
  <2> QED
    BY <2>2, EntryFacts, StateFacts
<1>4. /\ q \in PatchSet /\ q.handles = Append(job.patches.handles, h)
      /\ q.sites = job.patches.sites /\ q.shown = Overwrite(job.patches.shown, w)
  BY <1>2, <1>3, ShownType DEF PatchSet
<1>5. job' = [mod |-> job.mod, index |-> job.index, todo |-> Tail(job.todo),
              patches |-> q, spans |-> job.spans]
  BY <1>2 DEF ApplyBytes, Jobs, PatchSet
<1>6. job.patches.handles \in Seq(Nat) /\ job.mod \in Mod
  BY <1>2 DEF PatchSet, Jobs
<1>7. r.owner = job.mod /\ r.entry = e /\ r.backup = [c \in DOMAIN w |-> memory[c]] /\ DOMAIN r.backup = DOMAIN w
  BY DEF SavedFor
<1>8. h = handle + 1
  OBVIOUS
<1> HIDE DEF q, e, h, r, w
<1>9. /\ HoldersTypeOK' /\ Underway' /\ ScriptsApart' /\ Scripts' = Scripts
      /\ Held[0] = Removals(job.patches) /\ Held'[0] = Removals(q)
      /\ \A x \in Places : x # 0 => Held'[x] = Held[x]
      /\ Addon[0] = Loaded
      /\ Addon'[0] = [mod |-> job.mod, patches |-> q, spans |-> job.spans]
      /\ \A x \in Places : x # 0 => Addon'[x] = Addon[x]
      /\ e \in FileEntries /\ SpanOf(e) \subseteq job.spans
  BY <1>1, <1>4, <1>5, EntryTaken DEF e
<1>10. /\ h \notin DOMAIN Record /\ h \in Nat \ {0}
       /\ DOMAIN Record' = DOMAIN Record \cup {h}
       /\ Record'[h] = r
       /\ \A k \in DOMAIN Record : Record'[k] = Record[k]
       /\ \A k \in Records' : /\ Owned(k)'.owner \in Mod \cup {"script"}
                              /\ DOMAIN Owned(k)'.backup \subseteq Cell
       /\ DOMAIN applied' \cap DOMAIN detours' = {} /\ Records' \subseteq 1 .. handle'
  BY <1>1, <1>6, <1>7, <1>8, RecordGains
<1>11. TypeOK'
  BY <1>1, <1>8, <1>10, GainType DEF scriptVars
<1>12. h \notin DOMAIN applied /\ DOMAIN applied' = DOMAIN applied \cup ({h} \ {0}) /\ 0 \in Places
  BY <1>1, <1>10, StateFacts, SplitPlaces DEF Put, Overwrite
<1>13. HoldersOf(Held, applied, Scripts)
  BY DEF Kept
<1>14. /\ Handles(Held'[0].handles) = Handles(Held[0].handles) \cup ({h} \ {0})
       /\ Once(Held'[0].handles)
       /\ Held'[0].sites = Held[0].sites
  <2>1. /\ Held[0].handles = job.patches.handles
        /\ Held'[0].handles = Append(job.patches.handles, h)
        /\ Held'[0].sites = Held[0].sites
    BY <1>4, <1>9 DEF Removals
  <2>2. Once(Held[0].handles) /\ h \notin Handles(Held[0].handles)
    BY <1>12, <1>13 DEF HoldersOf
  <2> QED
    BY <1>6, <1>10, <2>1, <2>2, AppendHandle
<1>15. HoldersOf(Held', applied', Scripts)
  <2>1. h \in Nat /\ \A x \in Places : x # 0 => Held'[x] = Held[x]
    BY <1>9, <1>10
  <2> QED
    BY <1>12, <1>13, <1>14, <2>1, HandleHeld
<1>16. Kept'
  BY <1>9, <1>11, <1>15 DEF Kept
<1>17. Regular' => Regular /\ \A k \in LiesOn(e) : Owned(k).owner \notin {job.mod, "script"}
  BY <1>1 DEF Regular
<1>18. untold' \/ (~untold /\ \A k \in LiesOn(e) : SpansTell(e, Owned(k).entry))
  BY <1>1
<1>19. e \in Entry /\ r.entry = e /\ DOMAIN r.backup = DOMAIN Written(e)
  BY <1>3, <1>7 DEF w
<1>20. ASSUME Regular, \A k \in LiesOn(e) : Owned(k).owner \notin {job.mod, "script"}
       PROVE  Orderly' /\ (~untold' => Imaged')
  <2>1. Orderly
    BY <1>20
  <2>2. HooksOf(Held', detours', hooks')
    BY <1>1, <1>9, <1>14, <2>1, SameSites DEF Orderly
  <2>3. HoldsAt(Held'[0], hooks') = HoldsAt(Held[0], hooks) \cup {h}
    BY <1>1, <1>10, <1>14 DEF HoldsAt, SitesOf
  <2>4. \A x \in Nat : x # 0 =>
          HoldsAt(Held'[x], hooks') = HoldsAt(Held[x], hooks) /\ Addon'[x] = Addon[x]
    BY <1>1, <1>9, SplitPlaces DEF HoldsAt
  <2>7. HoldsAt(Held[0], hooks) \subseteq DOMAIN Record
    BY <1>12, <1>13, <2>1, HoldsFacts, StateFacts DEF Orderly, Kept, TypeOK
  <2>8. /\ Addon[0].mod = job.mod /\ Addon[0].spans = job.spans
        /\ Addon[0].patches = job.patches
        /\ Addon'[0].mod = job.mod /\ Addon'[0].spans = job.spans
        /\ Addon'[0].patches = q
    BY <1>9 DEF Loaded
  <2>9. ClaimOf(HoldsAt(Held'[0], hooks'), Addon'[0], Record')
    <3>1. ClaimOf(HoldsAt(Held[0], hooks), Addon[0], Record)
      BY <2>1 DEF Orderly, ClaimsOf
    <3>2. /\ Record'[h].owner = job.mod /\ Record'[h].entry = e
          /\ DOMAIN Record'[h].backup = DOMAIN Written(e)
      BY <1>7, <1>10, <1>19
    <3> QED
      BY <1>9, <1>10, <2>3, <2>7, <2>8, <3>1, <3>2 DEF ClaimOf
  <2>10. /\ ClaimsOf(Held', Addon', hooks', Record')
         /\ ScriptsOf(Scripts', Record')
         /\ ApartOf(Record')
    <3>1. h \notin Scripts
      BY <1>12, <1>13 DEF HoldersOf
    <3>2. \A k \in DOMAIN Record :
            SpansTell(r.entry, Record[k].entry) => DOMAIN r.backup \cap DOMAIN Record[k].backup = {}
      BY <1>1, <1>19, <1>20, <2>1, EntryClear DEF e
    <3>3. \A x \in Nat :
            \/ HoldsAt(Held'[x], hooks') = HoldsAt(Held[x], hooks) /\ Addon'[x] = Addon[x]
            \/ ClaimOf(HoldsAt(Held'[x], hooks'), Addon'[x], Record')
      BY <2>4, <2>9
    <3> QED
      BY <1>1, <1>9, <1>10, <2>1, <3>1, <3>2, <3>3, GainKeepsOrder
  <2>11. ASSUME ~untold'
         PROVE  Imaged'
    <3>1. Imaged
      BY <1>18, <1>20, <2>11
    <3>2. \A k \in DOMAIN Record : DOMAIN w \cap DOMAIN Record[k].backup = {}
      <4>1. \A k \in LiesOn(e) : SpansTell(e, Record[k].entry) /\ k \in DOMAIN Record
        BY <1>18, <2>11, RecordFacts DEF LiesOn
      <4>2. \A k \in DOMAIN Record :
              SpansTell(e, Record[k].entry) => DOMAIN Written(e) \cap DOMAIN Record[k].backup = {}
        BY <1>1, <1>19, <1>20, <2>1, EntryClear DEF e
      <4> QED
        BY <4>1, <4>2, RecordFacts DEF LiesOn, w
    <3>3. ShowOf(HoldsAt(Held[0], hooks), Addon[0], Record, memory)
      BY <3>1 DEF Imaged, ShowsOf
    <3>4. \A k \in DOMAIN Record : DOMAIN Record[k].backup \subseteq Cell
      BY RecordFacts DEF Kept, TypeOK
    <3>5. DOMAIN memory = Cell
      BY DEF Kept, TypeOK
    <3>6. /\ DOMAIN Record'[h].backup = DOMAIN Written(e)
          /\ \A k \in HoldsAt(Held[0], hooks) : /\ Record'[k] = Record[k]
                                               /\ DOMAIN Record[k].backup \subseteq Cell
      BY <1>10, <1>19, <2>7, <3>4
    <3>7. /\ Addon'[0].patches.shown = Overwrite(Addon[0].patches.shown, Written(e))
          /\ memory' = Overwrite(memory, Written(e)) /\ DOMAIN Written(e) \subseteq Cell
      BY <1>1, <1>4, <2>8 DEF w
    <3>8. ShowOf(HoldsAt(Held[0], hooks) \cup {h}, Addon'[0], Record', Overwrite(memory, Written(e)))
      BY <3>3, <3>5, <3>6, <3>7, ShowGains
    <3>9. \A x \in Nat :
            \/ HoldsAt(Held'[x], hooks') = HoldsAt(Held[x], hooks) /\ Addon'[x] = Addon[x]
            \/ ShowOf(HoldsAt(Held'[x], hooks'), Addon'[x], Record', memory')
      BY <2>3, <2>4, <3>7, <3>8
    <3> QED
      BY <1>1, <1>7, <1>10, <2>1, <3>1, <3>2, <3>9, GainKeepsImage
  <2> QED
    BY <2>2, <2>10, <2>11 DEF Orderly
<1>21. Regular' /\ ~untold' => ~untold
  BY <1>18
<1> QED
  BY <1>16, <1>17, <1>20, <1>21

(* The step of a hook that is made.                                        *)
LEMMA SiteHeld ==
  ASSUME NEW p \in Places, NEW site \in Nat, NEW d, HooksOf(Held, detours, hooks),
         site \notin DOMAIN hooks, d \notin DOMAIN detours,
         DOMAIN hooks' = DOMAIN hooks \cup {site}, hooks'[site] = d,
         \A s \in DOMAIN hooks : hooks'[s] = hooks[s],
         DOMAIN detours' = DOMAIN detours \cup {d}, \A k \in DOMAIN detours : detours'[k] = detours[k],
         MadeFor(detours'[d], site),
         SitesOf(Held'[p]) = SitesOf(Held[p]) \cup {site}, Distinct(Held'[p].sites),
         \A x \in Places : x # p => Held'[x] = Held[x]
  PROVE  HooksOf(Held', detours', hooks')
<1>1. \A x \in Places : site \notin SitesOf(Held[x])
  BY DEF HooksOf
<1>2. SitesOf(Held'[p]) = SitesOf(Held[p]) \cup {site} /\ Distinct(Held'[p].sites)
  OBVIOUS
<1>3. \A s \in DOMAIN hooks' : \E x \in Places : s \in SitesOf(Held'[x])
  BY <1>2 DEF HooksOf
<1>4. \A x \in Places : Distinct(Held'[x].sites)
  BY <1>2 DEF HooksOf
<1>5. \A x, y \in Places : x # y => SitesOf(Held'[x]) \cap SitesOf(Held'[y]) = {}
  BY <1>1, <1>2 DEF HooksOf
<1>6. \A s \in DOMAIN hooks : hooks[s] \in DOMAIN detours
  BY DEF HooksOf
<1>7. \A s, t \in DOMAIN hooks' : hooks'[s] = hooks'[t] => s = t
  BY <1>6 DEF HooksOf
<1>8. DOMAIN detours' = {hooks'[s] : s \in DOMAIN hooks'}
  BY DEF HooksOf
<1>9. \A s \in DOMAIN hooks' : MadeFor(detours'[hooks'[s]], s)
  BY <1>6 DEF HooksOf
<1>10. \A x \in Places : SitesOf(Held'[x]) \subseteq DOMAIN hooks'
  BY <1>2 DEF HooksOf
<1> QED
  BY <1>3, <1>4, <1>5, <1>7, <1>8, <1>9, <1>10 DEF HooksOf

(* A hook that is made: its call site was not hooked.                      *)
LEMMA AppliedHookKeeps ==
  ASSUME PatchesInv, Apply(TRUE), ApplyHook(Head(job.todo), TRUE)
  PROVE  PatchesInv'
<1> USE DEF PatchesInv
<1> DEFINE e == Head(job.todo)
           h == handle + 1
           r == SavedFor(job.mod, e)
           w == Written(e)
           site == e.addr
           q == [handles |-> job.patches.handles, sites |-> Append(job.patches.sites, site),
                 shown |-> Overwrite(job.patches.shown, w)]
<1>1. Kept /\ job # NoJob /\ job.todo # << >> /\ e.kind = "hook"
      /\ detours' = Put(detours, h, r) /\ hooks' = Put(hooks, site, h) /\ applied' = applied
      /\ memory' = Overwrite(memory, w) /\ handle' = h
      /\ DOMAIN w \subseteq Cell
      /\ overlaid' = (overlaid \/ \E k \in LiesOn(e) : Owned(k).owner \in {job.mod, "script"})
      /\ untold' = (untold \/ \E k \in LiesOn(e) : ~SpansTell(e, Owned(k).entry))
      /\ UNCHANGED <<mods, phase, doomed, next, reloads, failed, scriptVars>>
  BY DEF Apply, ApplyHook
<1>2. job.patches \in PatchSet /\ job \in Jobs
  BY <1>1, StateFacts DEF Kept, HoldersTypeOK
<1>3. e \in Entry /\ w \in Shown /\ handle \in Nat /\ site \in Nat
      /\ resolveAddress(site) \in DOMAIN w
  <2>1. job.todo \in Seq(FileEntries)
    BY <1>2 DEF Jobs
  <2>2. e \in Entry
    BY <1>1, <2>1, FileEntriesType
  <2> QED
    BY <1>1, <2>2, EntryFacts, StateFacts
<1>4. /\ q \in PatchSet /\ q.handles = job.patches.handles
      /\ q.sites = Append(job.patches.sites, site) /\ q.shown = Overwrite(job.patches.shown, w)
  BY <1>2, <1>3, ShownType DEF PatchSet
<1>5. job' = [mod |-> job.mod, index |-> job.index, todo |-> Tail(job.todo),
              patches |-> q, spans |-> job.spans]
  BY <1>2 DEF ApplyHook, Jobs, PatchSet
<1>6. job.patches.sites \in Seq(Nat) /\ job.mod \in Mod
  BY <1>2 DEF PatchSet, Jobs
<1>7. r.owner = job.mod /\ r.entry = e /\ r.backup = [c \in DOMAIN w |-> memory[c]] /\ DOMAIN r.backup = DOMAIN w
  BY DEF SavedFor
<1>8. h = handle + 1
  OBVIOUS
<1> HIDE DEF q, e, h, r, w, site
<1>9. /\ HoldersTypeOK' /\ Underway' /\ ScriptsApart' /\ Scripts' = Scripts
      /\ Held[0] = Removals(job.patches) /\ Held'[0] = Removals(q)
      /\ \A x \in Places : x # 0 => Held'[x] = Held[x]
      /\ Addon[0] = Loaded
      /\ Addon'[0] = [mod |-> job.mod, patches |-> q, spans |-> job.spans]
      /\ \A x \in Places : x # 0 => Addon'[x] = Addon[x]
      /\ e \in FileEntries /\ SpanOf(e) \subseteq job.spans
  BY <1>1, <1>4, <1>5, EntryTaken DEF e
<1>10. /\ h \notin DOMAIN Record /\ h \in Nat \ {0}
       /\ DOMAIN Record' = DOMAIN Record \cup {h}
       /\ Record'[h] = r
       /\ \A k \in DOMAIN Record : Record'[k] = Record[k]
       /\ \A k \in Records' : /\ Owned(k)'.owner \in Mod \cup {"script"}
                              /\ DOMAIN Owned(k)'.backup \subseteq Cell
       /\ DOMAIN applied' \cap DOMAIN detours' = {} /\ Records' \subseteq 1 .. handle'
  BY <1>1, <1>6, <1>7, <1>8, RecordGains
<1>11. TypeOK'
  BY <1>1, <1>8, <1>10, GainType DEF scriptVars
<1>12. 0 \in Places /\ h \notin DOMAIN detours /\ h \notin DOMAIN applied
  BY <1>10, StateFacts, SplitPlaces
<1>13. HoldersOf(Held, applied, Scripts)
  BY DEF Kept
<1>14. /\ \A x \in Places : Held'[x].handles = Held[x].handles
       /\ Held[0].sites = job.patches.sites /\ Held'[0].sites = q.sites
  BY <1>4, <1>9 DEF Removals
<1>15. HoldersOf(Held', applied', Scripts)
  BY <1>1, <1>13, <1>14, SameHandles
<1>16. Kept'
  BY <1>9, <1>11, <1>15 DEF Kept
<1>17. Regular' => Regular /\ \A k \in LiesOn(e) : Owned(k).owner \notin {job.mod, "script"}
  BY <1>1 DEF Regular
<1>18. untold' \/ (~untold /\ \A k \in LiesOn(e) : SpansTell(e, Owned(k).entry))
  BY <1>1
<1>19. e \in Entry /\ r.entry = e /\ DOMAIN r.backup = DOMAIN Written(e)
  BY <1>3, <1>7 DEF w
<1>20. ASSUME Regular, \A k \in LiesOn(e) : Owned(k).owner \notin {job.mod, "script"}
       PROVE  Orderly' /\ (~untold' => Imaged')
  <2>1. Orderly
    BY <1>20
  <2>20. HooksOf(Held, detours, hooks)
    BY <2>1 DEF Orderly
  <2>21. site \notin DOMAIN hooks
    BY <1>1, <1>19, <1>20, <2>1, SiteNew DEF e, site
  <2>22. /\ DOMAIN hooks' = DOMAIN hooks \cup {site} /\ hooks'[site] = h
         /\ \A s \in DOMAIN hooks : hooks'[s] = hooks[s]
         /\ DOMAIN detours' = DOMAIN detours \cup {h} /\ detours'[h] = r
         /\ \A d \in DOMAIN detours : detours'[d] = detours[d]
    BY <1>1, <1>12, <2>21 DEF Put, Overwrite
  <2>23. /\ SitesOf(Held'[0]) = SitesOf(Held[0]) \cup {site}
         /\ Distinct(Held'[0].sites)
    <3>1. Held'[0].sites = Append(Held[0].sites, site) /\ Held[0].sites \in Seq(Nat)
      BY <1>4, <1>6, <1>14
    <3>2. site \notin SitesOf(Held[0]) /\ Distinct(Held[0].sites)
      BY <1>12, <2>20, <2>21 DEF HooksOf
    <3> QED
      BY <1>3, <3>1, <3>2, AppendSite
  <2>2. HooksOf(Held', detours', hooks')
    <3>1. MadeFor(detours'[h], site)
      BY <1>1, <1>3, <1>7, <2>22 DEF MadeFor, site
    <3>2. \A x \in Places : x # 0 => Held'[x] = Held[x]
      BY <1>9
    <3>3. site \in Nat /\ h \notin DOMAIN detours /\ 0 \in Places
      BY <1>3, <1>12
    <3> QED
      BY <2>20, <2>21, <2>22, <2>23, <3>1, <3>2, <3>3, SiteHeld
  <2>24. \A x \in Places : SitesOf(Held[x]) \subseteq DOMAIN hooks
    BY <2>20 DEF HooksOf
  <2>3. HoldsAt(Held'[0], hooks') = HoldsAt(Held[0], hooks) \cup {h}
    BY <1>12, <1>14, <2>22, <2>23, <2>24 DEF HoldsAt
  <2>4. ASSUME NEW x \in Nat, x # 0
        PROVE  HoldsAt(Held'[x], hooks') = HoldsAt(Held[x], hooks) /\ Addon'[x] = Addon[x]
    <3>1. x \in Places /\ Held'[x] = Held[x] /\ Addon'[x] = Addon[x]
      BY <1>9, <2>4, SplitPlaces
    <3>2. \A s \in SitesOf(Held[x]) : hooks'[s] = hooks[s]
      BY <2>22, <2>24, <3>1
    <3> QED
      BY <3>1, <3>2 DEF HoldsAt
  <2>7. HoldsAt(Held[0], hooks) \subseteq DOMAIN Record
    BY <1>12, <1>13, <2>1, HoldsFacts, StateFacts DEF Orderly, Kept, TypeOK
  <2>8. /\ Addon[0].mod = job.mod /\ Addon[0].spans = job.spans
        /\ Addon[0].patches = job.patches
        /\ Addon'[0].mod = job.mod /\ Addon'[0].spans = job.spans
        /\ Addon'[0].patches = q
    BY <1>9 DEF Loaded
  <2>9. ClaimOf(HoldsAt(Held'[0], hooks'), Addon'[0], Record')
    <3>1. ClaimOf(HoldsAt(Held[0], hooks), Addon[0], Record)
      BY <2>1 DEF Orderly, ClaimsOf
    <3>2. /\ Record'[h].owner = job.mod /\ Record'[h].entry = e
          /\ DOMAIN Record'[h].backup = DOMAIN Written(e)
      BY <1>7, <1>10, <1>19
    <3> QED
      BY <1>9, <1>10, <2>3, <2>7, <2>8, <3>1, <3>2 DEF ClaimOf
  <2>10. /\ ClaimsOf(Held', Addon', hooks', Record')
         /\ ScriptsOf(Scripts', Record')
         /\ ApartOf(Record')
    <3>1. h \notin Scripts
      BY <1>12, <1>13 DEF HoldersOf
    <3>2. \A k \in DOMAIN Record :
            SpansTell(r.entry, Record[k].entry) => DOMAIN r.backup \cap DOMAIN Record[k].backup = {}
      BY <1>1, <1>19, <1>20, <2>1, EntryClear DEF e
    <3>3. \A x \in Nat :
            \/ HoldsAt(Held'[x], hooks') = HoldsAt(Held[x], hooks) /\ Addon'[x] = Addon[x]
            \/ ClaimOf(HoldsAt(Held'[x], hooks'), Addon'[x], Record')
      BY <2>4, <2>9
    <3> QED
      BY <1>1, <1>9, <1>10, <2>1, <3>1, <3>2, <3>3, GainKeepsOrder
  <2>11. ASSUME ~untold'
         PROVE  Imaged'
    <3>1. Imaged
      BY <1>18, <1>20, <2>11
    <3>2. \A k \in DOMAIN Record : DOMAIN w \cap DOMAIN Record[k].backup = {}
      <4>1. \A k \in LiesOn(e) : SpansTell(e, Record[k].entry) /\ k \in DOMAIN Record
        BY <1>18, <2>11, RecordFacts DEF LiesOn
      <4>2. \A k \in DOMAIN Record :
              SpansTell(e, Record[k].entry) => DOMAIN Written(e) \cap DOMAIN Record[k].backup = {}
        BY <1>1, <1>19, <1>20, <2>1, EntryClear DEF e
      <4> QED
        BY <4>1, <4>2, RecordFacts DEF LiesOn, w
    <3>3. ShowOf(HoldsAt(Held[0], hooks), Addon[0], Record, memory)
      BY <3>1 DEF Imaged, ShowsOf
    <3>4. \A k \in DOMAIN Record : DOMAIN Record[k].backup \subseteq Cell
      BY RecordFacts DEF Kept, TypeOK
    <3>5. DOMAIN memory = Cell
      BY DEF Kept, TypeOK
    <3>6. /\ DOMAIN Record'[h].backup = DOMAIN Written(e)
          /\ \A k \in HoldsAt(Held[0], hooks) : /\ Record'[k] = Record[k]
                                               /\ DOMAIN Record[k].backup \subseteq Cell
      BY <1>10, <1>19, <2>7, <3>4
    <3>7. /\ Addon'[0].patches.shown = Overwrite(Addon[0].patches.shown, Written(e))
          /\ memory' = Overwrite(memory, Written(e)) /\ DOMAIN Written(e) \subseteq Cell
      BY <1>1, <1>4, <2>8 DEF w
    <3>8. ShowOf(HoldsAt(Held[0], hooks) \cup {h}, Addon'[0], Record', Overwrite(memory, Written(e)))
      BY <3>3, <3>5, <3>6, <3>7, ShowGains
    <3>9. \A x \in Nat :
            \/ HoldsAt(Held'[x], hooks') = HoldsAt(Held[x], hooks) /\ Addon'[x] = Addon[x]
            \/ ShowOf(HoldsAt(Held'[x], hooks'), Addon'[x], Record', memory')
      BY <2>3, <2>4, <3>7, <3>8
    <3> QED
      BY <1>1, <1>7, <1>10, <2>1, <3>1, <3>2, <3>9, GainKeepsImage
  <2> QED
    BY <2>2, <2>10, <2>11 DEF Orderly
<1>21. Regular' /\ ~untold' => ~untold
  BY <1>18
<1> QED
  BY <1>16, <1>17, <1>20, <1>21

LEMMA ApplyKeeps ==
  ASSUME PatchesInv, NEW ok \in BOOLEAN, Apply(ok)
  PROVE  PatchesInv'
<1>1. CASE ok
  <2>1. ok = TRUE /\ Apply(TRUE)
    BY <1>1
  <2>2. ApplyBytes(Head(job.todo), TRUE) \/ ApplyHook(Head(job.todo), TRUE)
    BY <2>1 DEF Apply
  <2> QED
    BY <2>1, <2>2, AppliedBytesKeeps, AppliedHookKeeps
<1>2. CASE ~ok
  <2>1. ok = FALSE /\ Apply(FALSE)
    BY <1>2
  <2>2. ApplyBytes(Head(job.todo), FALSE) \/ ApplyHook(Head(job.todo), FALSE)
    BY <2>1 DEF Apply
  <2> QED
    BY <2>1, <2>2, RefusedBytesKeeps, RefusedHookKeeps
<1> QED
  BY <1>1, <1>2

(* A script's entry: a refused one leaves the invalid handle.              *)
LEMMA ScriptHeld ==
  ASSUME NEW f, NEW app, NEW app2, NEW scripts, NEW scripts2, NEW h,
         HoldersOf(f, app, scripts), h \notin DOMAIN app,
         DOMAIN app2 = DOMAIN app \cup {h}, scripts2 = scripts \cup {h}
  PROVE  HoldersOf(f, app2, scripts2)
  BY DEF HoldersOf

LEMMA ScriptDropped ==
  ASSUME NEW f, NEW app, NEW app2, NEW scripts, NEW scripts2, NEW h \in scripts,
         HoldersOf(f, app, scripts),
         DOMAIN app2 = DOMAIN app \ {h}, scripts2 = scripts \ {h}
  PROVE  HoldersOf(f, app2, scripts2)
  BY DEF HoldersOf

LEMMA MakingFacts ==
  ASSUME Kept, call.todo # << >>, NEW h \in Nat,
         call' = [todo |-> Tail(call.todo), made |-> Append(call.made, h)]
  PROVE  /\ call' \in [todo : Seq(Entry), made : Seq(Nat)]
         /\ Head(call.todo) \in Entry /\ call # NoCall
         /\ Handles(call'.made) = Handles(call.made) \cup ({h} \ {0})
         /\ h \notin Handles(call.made) => Once(call'.made)
<1>1. call.todo \in Seq(Entry) /\ call.made \in Seq(Nat)
  BY DEF Kept, HoldersTypeOK
<1>2. call'.made = Append(call.made, h) /\ call'.todo = Tail(call.todo)
  OBVIOUS
<1>3. Tail(call.todo) \in Seq(Entry) /\ Head(call.todo) \in Entry
  BY <1>1
<1>4. Once(call.made)
  BY DEF Kept, ScriptsApart
<1> QED
  BY <1>1, <1>2, <1>3, <1>4, AppendHandle DEF NoCall

LEMMA RefusedMakeKeeps ==
  ASSUME PatchesInv, MakeEntry(FALSE)
  PROVE  PatchesInv'
<1> USE DEF PatchesInv
<1>1. /\ Kept /\ call.todo # << >>
      /\ call' = [todo |-> Tail(call.todo), made |-> Append(call.made, 0)]
      /\ UNCHANGED <<applied, memory, handle, detours, hooks, mods, phase, job, doomed, next,
                     reloads, failed, untold, known, makes, lost>>
  BY DEF MakeEntry
<1>2. overlaid' = overlaid
  BY DEF MakeEntry, Kept, TypeOK
<1>3. /\ call' \in [todo : Seq(Entry), made : Seq(Nat)] /\ call # NoCall
      /\ Handles(call'.made) = Handles(call.made) /\ Once(call'.made)
  <2>1. 0 \notin Handles(call.made) /\ 0 \in Nat
    BY DEF Handles
  <2> QED
    BY <1>1, <2>1, MakingFacts
<1>4. Scripts' = Scripts /\ ScriptsApart'
  BY <1>1, <1>3 DEF Scripts, ScriptsApart, Kept
<1>5. makes' \in 0 .. MaxMakes
  BY <1>1 DEF Kept, TypeOK
<1>6. doomed = << >> /\ job.todo = << >> /\ job.index = 0
  BY <1>1, <1>3 DEF Kept, Underway
<1> QED
  BY <1>1, <1>2, <1>3, <1>4, <1>5, <1>6, ScriptQuietKeeps

LEMMA MadeKeeps ==
  ASSUME PatchesInv, MakeEntry(TRUE)
  PROVE  PatchesInv'
<1> USE DEF PatchesInv
<1> DEFINE e == Head(call.todo)
           h == handle + 1
           r == SavedFor("script", e)
           w == Written(e)
<1>1. /\ Kept /\ call.todo # << >>
      /\ call' = [todo |-> Tail(call.todo), made |-> Append(call.made, h)]
      /\ applied' = Put(applied, h, r) /\ detours' = detours /\ hooks' = hooks
      /\ memory' = Overwrite(memory, w) /\ handle' = h /\ DOMAIN w \subseteq Cell
      /\ UNCHANGED <<mods, phase, job, doomed, next, reloads, failed, untold, known, makes,
                     lost>>
  BY DEF MakeEntry
<1>2. overlaid' = (overlaid \/ \E k \in Records : DOMAIN w \cap DOMAIN Owned(k).backup # {})
  BY DEF MakeEntry, LiesOn
<1>3. r.owner = "script" /\ r.backup = [c \in DOMAIN w |-> memory[c]] /\ DOMAIN r.backup = DOMAIN w
  BY DEF SavedFor
<1>4. h = handle + 1
  OBVIOUS
<1> HIDE DEF e, h, r, w
<1>5. /\ h \notin DOMAIN Record /\ h \in Nat \ {0}
      /\ DOMAIN Record' = DOMAIN Record \cup {h}
      /\ Record'[h] = r
      /\ \A k \in DOMAIN Record : Record'[k] = Record[k]
      /\ \A k \in Records' : /\ Owned(k)'.owner \in Mod \cup {"script"}
                             /\ DOMAIN Owned(k)'.backup \subseteq Cell
      /\ DOMAIN applied' \cap DOMAIN detours' = {} /\ Records' \subseteq 1 .. handle'
  BY <1>1, <1>3, <1>4, RecordGains
<1>6. h \notin DOMAIN applied /\ DOMAIN applied' = DOMAIN applied \cup {h}
  BY <1>1, <1>5, StateFacts DEF Put, Overwrite
<1>7. HoldersOf(Held, applied, Scripts)
  BY DEF Kept
<1>8. h \notin Scripts
  BY <1>6, <1>7 DEF HoldersOf
<1>9. /\ call' \in [todo : Seq(Entry), made : Seq(Nat)] /\ call # NoCall
      /\ Handles(call'.made) = Handles(call.made) \cup {h} /\ Once(call'.made)
  BY <1>1, <1>5, <1>8, MakingFacts DEF Scripts
<1>10. Scripts' = Scripts \cup {h} /\ ScriptsApart'
  <2>1. known' = known /\ lost' = lost
    BY <1>1
  <2> QED
    BY <1>8, <1>9, <2>1 DEF Scripts, ScriptsApart, Kept
<1>11. TypeOK'
  <2>1. overlaid' \in BOOLEAN /\ untold' \in BOOLEAN
    BY <1>1, <1>2 DEF Kept, TypeOK
  <2> QED
    BY <1>1, <1>4, <1>5, <2>1, GainType
<1>12. Held' = Held /\ Addon' = Addon
  BY <1>1, HeldStays DEF Addon
<1>13. HoldersTypeOK' /\ Underway'
  BY <1>1, <1>9 DEF HoldersTypeOK, Underway, Kept
<1>14. HoldersOf(Held', applied', Scripts')
  BY <1>6, <1>7, <1>10, <1>12, ScriptHeld
<1>15. Kept'
  BY <1>10, <1>11, <1>13, <1>14 DEF Kept
<1>16. Regular' => Regular /\ \A k \in Records : DOMAIN w \cap DOMAIN Owned(k).backup = {}
  BY <1>1, <1>2 DEF Regular
<1>17. ASSUME Regular, \A k \in Records : DOMAIN w \cap DOMAIN Owned(k).backup = {}
       PROVE  Orderly' /\ (~untold => Imaged')
  <2>1. Orderly /\ Kept
    BY <1>1, <1>17
  <2>2. HooksOf(Held', detours', hooks')
    BY <1>1, <1>12, <2>1 DEF Orderly
  <2>3. \A k \in DOMAIN Record : DOMAIN w \cap DOMAIN Record[k].backup = {}
    BY <1>17, RecordFacts
  <2>4. \A x \in Nat : HoldsAt(Held'[x], hooks') = HoldsAt(Held[x], hooks) /\ Addon'[x] = Addon[x]
    BY <1>1, <1>12
  <2>5. /\ h \notin DOMAIN Record /\ DOMAIN Record' = DOMAIN Record \cup {h}
        /\ \A k \in DOMAIN Record : Record'[k] = Record[k]
        /\ Record'[h] = r
    BY <1>5
  <2>6. /\ ClaimsOf(Held', Addon', hooks', Record')
        /\ ScriptsOf(Scripts', Record')
        /\ ApartOf(Record')
    <3>1. \A k \in DOMAIN Record : DOMAIN r.backup \cap DOMAIN Record[k].backup = {}
      BY <1>3, <2>3
    <3>2. Scripts' \subseteq Scripts \cup {h} /\ r.owner = "script"
      BY <1>3, <1>10
    <3> QED
      BY <2>1, <2>4, <2>5, <3>1, <3>2, GainKeepsOrder
  <2>7. ASSUME ~untold
        PROVE  Imaged'
    <3>1. Imaged /\ Record'[h].backup = [c \in DOMAIN w |-> memory[c]]
      BY <1>3, <1>5, <1>17, <2>7
    <3>2. memory' = Overwrite(memory, w) /\ DOMAIN w \subseteq Cell
      BY <1>1
    <3> QED
      BY <2>1, <2>3, <2>4, <2>5, <3>1, <3>2, GainKeepsImage
  <2> QED
    BY <2>2, <2>6, <2>7 DEF Orderly
<1>18. untold' = untold
  BY <1>1
<1> QED
  BY <1>15, <1>16, <1>17, <1>18

LEMMA MakeEntryKeeps ==
  ASSUME PatchesInv, NEW ok \in BOOLEAN, MakeEntry(ok)
  PROVE  PatchesInv'
<1>1. CASE ok
  <2>1. MakeEntry(TRUE)
    <3>1. ok = TRUE
      BY <1>1
    <3> QED
      BY <3>1
  <2> QED
    BY <2>1, MadeKeeps
<1>2. CASE ~ok
  <2>1. MakeEntry(FALSE)
    <3>1. ok = FALSE
      BY <1>2
    <3> QED
      BY <3>1
  <2> QED
    BY <2>1, RefusedMakeKeeps
<1> QED
  BY <1>1, <1>2

-----------------------------------------------------------------------------
(* Steps that remove a patch or a hook.                                    *)

LEMMA LossKeepsOrder ==
  ASSUME Kept, Orderly, NEW h \in DOMAIN Record,
         DOMAIN Record' = DOMAIN Record \ {h},
         \A k \in DOMAIN Record' : Record'[k] = Record[k],
         \A x \in Nat : /\ HoldsAt(Held'[x], hooks') = HoldsAt(Held[x], hooks)
                        /\ h \notin HoldsAt(Held[x], hooks),
         Addon' = Addon, Scripts' \subseteq Scripts \ {h}
  PROVE  /\ ClaimsOf(Held', Addon', hooks', Record')
         /\ ScriptsOf(Scripts', Record')
         /\ ApartOf(Record')
<1>1. DOMAIN applied \cap DOMAIN detours = {} /\ DOMAIN Record = DOMAIN applied \cup DOMAIN detours
  BY StateFacts DEF Kept, TypeOK
<1>2. HoldersOf(Held, applied, Scripts) /\ HooksOf(Held, detours, hooks)
  BY DEF Kept, Orderly
<1>3. \A x \in Nat : HoldsAt(Held[x], hooks) \subseteq DOMAIN Record \ {h}
  BY <1>1, <1>2, HoldsFacts, SplitPlaces
<1>4. ClaimsOf(Held, Addon, hooks, Record) /\ \A k \in DOMAIN Record : k # h => Record'[k] = Record[k]
  BY DEF Orderly
<1>5. ClaimsOf(Held', Addon, hooks', Record')
  BY <1>3, <1>4, ClaimsLose
<1>6. Scripts \subseteq DOMAIN Record
  BY <1>1, <1>2 DEF HoldersOf
<1>7. ScriptsOf(Scripts', Record')
  BY <1>6 DEF Orderly, ScriptsOf
<1>8. ApartOf(Record')
  BY DEF Orderly, ApartOf
<1> QED
  BY <1>5, <1>7, <1>8

LEMMA LossKeepsImage ==
  ASSUME Kept, Orderly, Imaged, NEW h \in DOMAIN Record,
         DOMAIN Record' = DOMAIN Record \ {h},
         \A k \in DOMAIN Record' : Record'[k] = Record[k],
         memory' = Overwrite(memory, Record[h].backup),
         \A x \in Nat : /\ HoldsAt(Held'[x], hooks') = HoldsAt(Held[x], hooks)
                        /\ h \notin HoldsAt(Held[x], hooks),
         Addon' = Addon
  PROVE  Imaged'
<1>1. DOMAIN memory = Cell
  BY DEF Kept, TypeOK
<1>2. DOMAIN applied \cap DOMAIN detours = {} /\ DOMAIN Record = DOMAIN applied \cup DOMAIN detours
  BY StateFacts DEF Kept, TypeOK
<1>3. \A k \in DOMAIN Record : DOMAIN Record[k].backup \subseteq Cell
  BY RecordFacts DEF Kept, TypeOK
<1>4. ImageOf(Record', memory')
  BY <1>1, ImageLoses DEF Imaged
<1>5. HoldersOf(Held, applied, Scripts) /\ HooksOf(Held, detours, hooks)
  BY DEF Kept, Orderly
<1>6. \A x \in Nat : HoldsAt(Held[x], hooks) \subseteq DOMAIN Record \ {h}
  BY <1>2, <1>5, HoldsFacts, SplitPlaces
<1>7. ShowsOf(Held, Addon, hooks, Record, memory) /\ ImageOf(Record, memory)
  BY DEF Imaged
<1>8. \A k \in DOMAIN Record : k # h => Record'[k] = Record[k]
  OBVIOUS
<1>9. ShowsOf(Held', Addon, hooks', Record', memory')
  BY <1>1, <1>3, <1>6, <1>7, <1>8, ShowsLose
<1> QED
  BY <1>4, <1>9 DEF Imaged

LEMMA LossType ==
  ASSUME Kept, Records' \subseteq Records, \A k \in Records' : Owned(k)' = Owned(k),
         DOMAIN applied' \cap DOMAIN detours' = {}, DOMAIN memory' = Cell,
         hooks' = hooks \/ \E site : hooks' = Without(hooks, site),
         failed' \in 0 .. MaxFailures, known' \subseteq known,
         UNCHANGED <<mods, phase, next, handle, reloads, overlaid, untold, makes, lost>>
  PROVE  TypeOK'
<1> USE DEF Kept
<1>1. \A s \in DOMAIN hooks' : hooks'[s] \in 1 .. handle'
  BY DEF TypeOK, Without
<1>2. \A k \in Records' : /\ Owned(k)'.owner \in Mod \cup {"script"}
                          /\ DOMAIN Owned(k)'.backup \subseteq Cell
  BY DEF TypeOK
<1>3. known' \subseteq 1 .. handle' /\ lost' \subseteq (1 .. handle') \ known'
      /\ Records' \subseteq 1 .. handle'
  BY DEF TypeOK
<1> QED
  BY <1>1, <1>2, <1>3 DEF TypeOK

(* removePatch of any handle.                                              *)
LEMMA DropPatchFacts ==
  ASSUME Kept, NEW h, NEW ok \in BOOLEAN, DropPatch(h, ok)
  PROVE  /\ DOMAIN applied' = DOMAIN applied \ {h}
         /\ Records' \subseteq Records /\ \A k \in Records' : Owned(k)' = Owned(k)
         /\ DOMAIN applied' \cap DOMAIN detours' = {} /\ DOMAIN memory' = Cell
         /\ failed' \in 0 .. MaxFailures /\ UNCHANGED <<detours, hooks>>
         /\ h \notin DOMAIN applied => Record' = Record /\ memory' = memory
         /\ failed' = 0 => failed = 0
         /\ h \in DOMAIN applied /\ failed' = 0 =>
              /\ h \in DOMAIN Record /\ DOMAIN Record' = DOMAIN Record \ {h}
              /\ \A k \in DOMAIN Record' : Record'[k] = Record[k]
              /\ memory' = Overwrite(memory, Record[h].backup)
<1> USE DEF Kept
<1>1. /\ DOMAIN applied' = DOMAIN applied \ {h}
      /\ \A k \in DOMAIN applied' : applied'[k] = applied[k]
      /\ UNCHANGED <<detours, hooks>>
  BY DEF DropPatch, Without
<1>2. DOMAIN applied \cap DOMAIN detours = {} /\ DOMAIN memory = Cell
  BY DEF TypeOK
<1>3. Records' \subseteq Records /\ \A k \in Records' : Owned(k)' = Owned(k)
  BY <1>1, <1>2 DEF Records, Owned
<1>4. failed' \in 0 .. MaxFailures /\ (failed' = 0 => failed = 0)
  BY FileAssumption DEF DropPatch, TypeOK
<1>5. DOMAIN memory' = Cell
  <2>1. CASE h \in DOMAIN applied /\ ok
    <3>1. DOMAIN applied[h].backup \subseteq Cell
      BY <2>1 DEF TypeOK, Records, Owned
    <3>2. memory' = Overwrite(memory, applied[h].backup)
      BY <2>1 DEF DropPatch
    <3> QED
      BY <1>2, <3>1, <3>2 DEF Overwrite
  <2> QED
    BY <1>2, <2>1 DEF DropPatch
<1>6. ASSUME h \notin DOMAIN applied
      PROVE  Record' = Record /\ memory' = memory
  <2>1. Records' = Records
    BY <1>1, <1>6 DEF Records
  <2> QED
    BY <1>3, <1>6, <2>1 DEF Record, DropPatch
<1>7. ASSUME h \in DOMAIN applied, failed' = 0
      PROVE  /\ h \in DOMAIN Record /\ DOMAIN Record' = DOMAIN Record \ {h}
             /\ \A k \in DOMAIN Record' : Record'[k] = Record[k]
             /\ memory' = Overwrite(memory, Record[h].backup)
  <2>1. ok
    BY <1>7 DEF DropPatch, TypeOK
  <2>2. h \in Records /\ Owned(h) = applied[h]
    BY <1>7 DEF Records, Owned
  <2>3. Records' = Records \ {h}
    BY <1>1, <1>2, <1>7 DEF Records
  <2>4. DOMAIN Record' = Records' /\ \A k \in Records' : Record'[k] = Owned(k)'
    BY DEF Record
  <2>5. memory' = Overwrite(memory, applied[h].backup)
    BY <1>7, <2>1 DEF DropPatch
  <2> QED
    BY <1>3, <2>2, <2>3, <2>4, <2>5, RecordFacts
<1> QED
  BY <1>1, <1>2, <1>3, <1>4, <1>5, <1>6, <1>7

LEMMA ScriptRemoveKeeps ==
  ASSUME PatchesInv, NEW h \in known, NEW ok \in BOOLEAN, ScriptRemove(h, ok)
  PROVE  PatchesInv'
<1> USE DEF PatchesInv
<1>1. /\ Kept /\ DropPatch(h, ok) /\ known' = known \ {h}
      /\ UNCHANGED <<mods, phase, job, doomed, next, handle, reloads, overlaid, untold, call,
                     makes, lost>>
  BY DEF ScriptRemove
<1>2. /\ DOMAIN applied' = DOMAIN applied \ {h}
      /\ Records' \subseteq Records /\ \A k \in Records' : Owned(k)' = Owned(k)
      /\ DOMAIN applied' \cap DOMAIN detours' = {} /\ DOMAIN memory' = Cell
      /\ failed' \in 0 .. MaxFailures /\ UNCHANGED <<detours, hooks>>
      /\ failed' = 0 => failed = 0
      /\ h \in DOMAIN applied /\ failed' = 0 =>
           /\ h \in DOMAIN Record /\ DOMAIN Record' = DOMAIN Record \ {h}
           /\ \A k \in DOMAIN Record' : Record'[k] = Record[k]
           /\ memory' = Overwrite(memory, Record[h].backup)
  BY <1>1, DropPatchFacts
<1>3. TypeOK'
  BY <1>1, <1>2, LossType
<1>4. Held' = Held /\ Addon' = Addon
  BY <1>1, HeldStays DEF Addon
<1>5. HoldersOf(Held, applied, Scripts) /\ h \in Scripts
  BY DEF Kept, Scripts
<1>6. Scripts' = Scripts \ {h} /\ ScriptsApart'
  BY <1>1 DEF Scripts, ScriptsApart, Kept
<1>7. HoldersOf(Held', applied', Scripts')
  BY <1>2, <1>4, <1>5, <1>6, ScriptDropped
<1>8. HoldersTypeOK' /\ Underway'
  BY <1>1 DEF HoldersTypeOK, Underway, Kept
<1>9. Kept'
  BY <1>3, <1>6, <1>7, <1>8 DEF Kept
<1>10. Regular' => Regular /\ failed' = 0
  BY <1>1, <1>2 DEF Regular
<1>11. ASSUME Regular, failed' = 0
       PROVE  Orderly' /\ (~untold => Imaged')
  <2>1. Orderly /\ Kept
    BY <1>1, <1>11
  <2>2. HooksOf(Held', detours', hooks')
    BY <1>2, <1>4, <2>1 DEF Orderly
  <2>3. h \in DOMAIN applied /\ DOMAIN applied \cap DOMAIN detours = {}
    BY <1>5 DEF HoldersOf, Kept, TypeOK
  <2>4. \A x \in Nat : /\ HoldsAt(Held'[x], hooks') = HoldsAt(Held[x], hooks)
                       /\ h \notin HoldsAt(Held[x], hooks)
    BY <1>2, <1>4, <1>5, <2>1, <2>3, HoldsFacts, SplitPlaces DEF Orderly
  <2>5. /\ h \in DOMAIN Record /\ DOMAIN Record' = DOMAIN Record \ {h}
        /\ \A k \in DOMAIN Record' : Record'[k] = Record[k]
        /\ memory' = Overwrite(memory, Record[h].backup)
    BY <1>2, <1>11, <2>3
  <2>6. /\ ClaimsOf(Held', Addon', hooks', Record')
        /\ ScriptsOf(Scripts', Record')
        /\ ApartOf(Record')
    BY <1>4, <1>6, <2>1, <2>4, <2>5, LossKeepsOrder
  <2>7. ASSUME ~untold
        PROVE  Imaged'
    <3>1. Imaged
      BY <1>11, <2>7
    <3> QED
      BY <1>4, <2>1, <2>4, <2>5, <3>1, LossKeepsImage
  <2> QED
    BY <2>2, <2>6, <2>7 DEF Orderly
<1>12. untold' = untold
  BY <1>1
<1> QED
  BY <1>9, <1>10, <1>11, <1>12

LEMMA RemovalsExcept ==
  ASSUME NEW p \in [handles : Seq(Nat), sites : Seq(Nat)], NEW t
  PROVE  /\ [p EXCEPT !.handles = t] = [handles |-> t, sites |-> p.sites]
         /\ [p EXCEPT !.sites = t] = [handles |-> p.handles, sites |-> t]
  OBVIOUS

(* The first patch set that waits loses one of its removals.               *)
LEMMA WaitingChanges ==
  ASSUME Kept, doomed # << >>, NEW r \in [handles : Seq(Nat), sites : Seq(Nat)],
         doomed' = [doomed EXCEPT ![1] = r], UNCHANGED <<mods, job, next, scriptVars>>
  PROVE  /\ HoldersTypeOK' /\ Underway' /\ ScriptsApart' /\ Scripts' = Scripts
         /\ Addon' = Addon /\ -1 \in Places
         /\ Held[-1] = doomed[1] /\ Held'[-1] = r
         /\ \A x \in Places : x # -1 => Held'[x] = Held[x]
<1> USE DEF Kept
<1>1. /\ doomed \in Seq([handles : Seq(Nat), sites : Seq(Nat)])
      /\ 1 \in DOMAIN doomed /\ DOMAIN doomed \subseteq Nat \ {0} /\ DOMAIN mods \subseteq Nat \ {0}
  BY StateFacts DEF HoldersTypeOK
<1>2. /\ doomed' \in Seq([handles : Seq(Nat), sites : Seq(Nat)]) /\ DOMAIN doomed' = DOMAIN doomed
      /\ doomed'[1] = r /\ \A k \in DOMAIN doomed : k # 1 => doomed'[k] = doomed[k]
      /\ doomed' # << >>
  BY <1>1
<1>3. job = NoJob /\ call = NoCall
  BY DEF Underway
<1>4. HoldersTypeOK' /\ Underway' /\ ScriptsApart' /\ Scripts' = Scripts /\ Addon' = Addon
  BY <1>2, <1>3 DEF HoldersTypeOK, Underway, ScriptsApart, Scripts, Addon, scriptVars
<1>5. Held[-1] = doomed[1] /\ Held'[-1] = r
  BY <1>1, <1>2, NowFacts, NextFacts
<1>6. ASSUME NEW x \in Places, x # -1
      PROVE  Held'[x] = Held[x]
  <2>1. -x # 1 /\ -x \in Int
    BY <1>6 DEF Places
  <2>2. -x \in DOMAIN doomed => doomed'[-x] = doomed[-x]
    BY <1>2, <2>1
  <2> QED
    BY <1>2, <2>2 DEF Held, HeldIn
<1> QED
  BY <1>4, <1>5, <1>6 DEF Places

LEMMA PatchDroppedKeeps ==
  ASSUME PatchesInv, NEW ok \in BOOLEAN, doomed # << >>, doomed[1].handles # << >>,
         DropPatch(Head(doomed[1].handles), ok),
         doomed' = [doomed EXCEPT ![1].handles = Tail(@)],
         UNCHANGED <<mods, phase, job, next, handle, reloads, overlaid, untold, scriptVars>>
  PROVE  PatchesInv'
<1> USE DEF PatchesInv
<1> DEFINE s == doomed[1].handles
           h == Head(s)
           r == [handles |-> Tail(s), sites |-> doomed[1].sites]
<1>1. Kept /\ DropPatch(h, ok)
  OBVIOUS
<1>2. doomed[1] \in [handles : Seq(Nat), sites : Seq(Nat)] /\ 1 \in DOMAIN doomed
  BY <1>1, StateFacts
<1>3. s \in Seq(Nat) /\ s # << >> /\ r \in [handles : Seq(Nat), sites : Seq(Nat)]
      /\ r.handles = Tail(s) /\ r.sites = doomed[1].sites
  BY <1>2
<1>4. doomed' = [doomed EXCEPT ![1] = r]
  <2>1. [doomed[1] EXCEPT !.handles = Tail(doomed[1].handles)] = r
    BY <1>2, RemovalsExcept
  <2>2. doomed' = [doomed EXCEPT ![1] = [doomed[1] EXCEPT !.handles = Tail(doomed[1].handles)]]
    OBVIOUS
  <2> QED
    BY <2>1, <2>2
<1> HIDE DEF r
<1>5. /\ HoldersTypeOK' /\ Underway' /\ ScriptsApart' /\ Scripts' = Scripts
      /\ Addon' = Addon /\ -1 \in Places
      /\ Held[-1] = doomed[1] /\ Held'[-1] = r
      /\ \A x \in Places : x # -1 => Held'[x] = Held[x]
  BY <1>1, <1>3, <1>4, WaitingChanges
<1>6. /\ DOMAIN applied' = DOMAIN applied \ {h}
      /\ Records' \subseteq Records /\ \A k \in Records' : Owned(k)' = Owned(k)
      /\ DOMAIN applied' \cap DOMAIN detours' = {} /\ DOMAIN memory' = Cell
      /\ failed' \in 0 .. MaxFailures /\ UNCHANGED <<detours, hooks>>
      /\ h \notin DOMAIN applied => Record' = Record /\ memory' = memory
      /\ failed' = 0 => failed = 0
      /\ h \in DOMAIN applied /\ failed' = 0 =>
           /\ h \in DOMAIN Record /\ DOMAIN Record' = DOMAIN Record \ {h}
           /\ \A k \in DOMAIN Record' : Record'[k] = Record[k]
           /\ memory' = Overwrite(memory, Record[h].backup)
  BY <1>1, DropPatchFacts
<1>7. /\ Handles(Held[-1].handles) = Handles(Held'[-1].handles) \cup ({h} \ {0})
      /\ Once(Held[-1].handles) =>
           Once(Held'[-1].handles) /\ h \notin Handles(Held'[-1].handles)
      /\ Held'[-1].sites = Held[-1].sites
  <2>1. /\ Handles(s) = Handles(Tail(s)) \cup ({h} \ {0})
        /\ Once(s) => Once(Tail(s)) /\ h \notin Handles(Tail(s))
    BY <1>3, TailHandle
  <2>2. Held[-1].handles = s /\ Held'[-1].handles = Tail(s) /\ Held'[-1].sites = Held[-1].sites
    BY <1>3, <1>5
  <2> HIDE DEF s, h
  <2> QED
    BY <2>1, <2>2
<1> HIDE DEF h
<1>8. TypeOK'
  BY <1>1, <1>6, LossType DEF scriptVars
<1>9. HoldersOf(Held, applied, Scripts) /\ 0 \notin DOMAIN applied
      /\ DOMAIN applied \cap DOMAIN detours = {}
  BY <1>1, StateFacts, SMTT(30) DEF Kept, Records, TypeOK
<1>10. HoldersOf(Held', applied', Scripts)
  <2>1. Once(Held[-1].handles)
    BY <1>5, <1>9 DEF HoldersOf
  <2>2. \A x \in Places : x # -1 => Held'[x] = Held[x]
    BY <1>5
  <2>3. DOMAIN applied' = DOMAIN applied \ {h} /\ -1 \in Places
    BY <1>5, <1>6
  <2> QED
    BY <1>7, <1>9, <2>1, <2>2, <2>3, HandleDropped
<1>11. Kept'
  BY <1>5, <1>8, <1>10 DEF Kept
<1>12. Regular' => Regular /\ failed' = 0
  BY <1>6 DEF Regular
<1>13. ASSUME Regular, failed' = 0
       PROVE  Orderly' /\ (~untold => Imaged')
  <2>1. Orderly /\ Kept
    BY <1>1, <1>13
  <2>2. \A x \in Places : Held'[x].sites = Held[x].sites
    BY <1>5, <1>7
  <2>3. HooksOf(Held', detours', hooks')
    BY <1>6, <2>1, <2>2, SameSites DEF Orderly
  <2>4. \A x \in Nat : HoldsAt(Held'[x], hooks') = HoldsAt(Held[x], hooks)
    BY <1>5, <1>6, SplitPlaces
  <2>5. HooksOf(Held, detours, hooks)
    BY <2>1 DEF Orderly
  <2>6. CASE h \notin DOMAIN applied
    <3>1. Record' = Record /\ memory' = memory
      BY <1>6, <2>6
    <3>2. ClaimsOf(Held', Addon', hooks', Record')
      BY <1>5, <2>1, <2>4, <3>1 DEF Orderly, ClaimsOf
    <3>3. ASSUME ~untold
          PROVE  Imaged'
      <4>1. Imaged
        BY <1>13, <3>3
      <4>2. ShowsOf(Held', Addon', hooks', Record', memory')
        BY <1>5, <2>4, <3>1, <4>1 DEF Imaged, ShowsOf
      <4> QED
        BY <3>1, <4>1, <4>2 DEF Imaged
    <3> QED
      BY <1>5, <2>1, <2>3, <3>1, <3>2, <3>3 DEF Orderly
  <2>7. CASE h \in DOMAIN applied
    <3>1. h # 0 /\ h \in Handles(Held[-1].handles)
      BY <1>7, <1>9, <2>7
    <3>2. h \notin Scripts /\ \A x \in Nat : h \notin HoldsAt(Held[x], hooks)
      <4>1. h \in HoldsAt(Held[-1], hooks)
        BY <3>1 DEF HoldsAt
      <4>2. \A x \in Nat : x \in Places /\ x # -1
        BY SplitPlaces
      <4> QED
        BY <1>5, <1>9, <2>5, <4>1, <4>2, HoldsFacts
    <3>3. /\ h \in DOMAIN Record /\ DOMAIN Record' = DOMAIN Record \ {h}
          /\ \A k \in DOMAIN Record' : Record'[k] = Record[k]
          /\ memory' = Overwrite(memory, Record[h].backup)
      BY <1>6, <1>13, <2>7
    <3>4. /\ ClaimsOf(Held', Addon', hooks', Record')
          /\ ScriptsOf(Scripts', Record')
          /\ ApartOf(Record')
      BY <1>5, <2>1, <2>4, <3>2, <3>3, LossKeepsOrder
    <3>5. ASSUME ~untold
          PROVE  Imaged'
      <4>1. Imaged
        BY <1>13, <3>5
      <4> QED
        BY <1>5, <2>1, <2>4, <3>2, <3>3, <4>1, LossKeepsImage
    <3> QED
      BY <2>3, <3>4, <3>5 DEF Orderly
  <2> QED
    BY <2>6, <2>7
<1> QED
  BY <1>11, <1>12, <1>13

(* The step of a hook that is removed.                                     *)
LEMMA SiteDropped ==
  ASSUME NEW site, NEW p \in Places, HooksOf(Held, detours, hooks),
         DOMAIN hooks' = DOMAIN hooks \ {site}, \A t \in DOMAIN hooks' : hooks'[t] = hooks[t],
         DOMAIN detours' = DOMAIN detours \ {hooks[site]},
         \A k \in DOMAIN detours' : detours'[k] = detours[k],
         SitesOf(Held[p]) = SitesOf(Held'[p]) \cup {site},
         Distinct(Held'[p].sites), site \notin SitesOf(Held'[p]),
         \A x \in Places : x # p => Held'[x] = Held[x]
  PROVE  HooksOf(Held', detours', hooks')
<1>1. /\ SitesOf(Held[p]) = SitesOf(Held'[p]) \cup {site}
      /\ Distinct(Held'[p].sites) /\ site \notin SitesOf(Held'[p])
  OBVIOUS
<1>2. site \in DOMAIN hooks /\ \A x \in Places : x # p => site \notin SitesOf(Held[x])
  BY <1>1 DEF HooksOf
<1>3. \A s \in DOMAIN hooks' : \E x \in Places : s \in SitesOf(Held'[x])
  BY <1>1 DEF HooksOf
<1>4. \A x \in Places : Distinct(Held'[x].sites)
  BY <1>1 DEF HooksOf
<1>5. \A x, y \in Places : x # y => SitesOf(Held'[x]) \cap SitesOf(Held'[y]) = {}
  <2>1. \A x, y \in Places : x # y => SitesOf(Held[x]) \cap SitesOf(Held[y]) = {}
    BY DEF HooksOf
  <2>2. \A x \in Places : SitesOf(Held'[x]) \subseteq SitesOf(Held[x])
    BY <1>1
  <2> QED
    BY <2>1, <2>2
<1>6. \A s, t \in DOMAIN hooks' : hooks'[s] = hooks'[t] => s = t
  BY DEF HooksOf
<1>7. \A s \in DOMAIN hooks' : hooks'[s] # hooks[site] /\ hooks'[s] \in DOMAIN detours'
  BY <1>2 DEF HooksOf
<1>8. DOMAIN detours' = {hooks'[s] : s \in DOMAIN hooks'}
  BY <1>2, <1>7 DEF HooksOf
<1>9. \A s \in DOMAIN hooks' : MadeFor(detours'[hooks'[s]], s)
  BY <1>7 DEF HooksOf
<1>10. \A x \in Places : SitesOf(Held'[x]) \subseteq DOMAIN hooks'
  BY <1>1, <1>2 DEF HooksOf
<1> QED
  BY <1>3, <1>4, <1>5, <1>6, <1>8, <1>9, <1>10 DEF HooksOf

LEMMA HookDroppedKeeps ==
  ASSUME PatchesInv, NEW ok \in BOOLEAN, doomed # << >>, doomed[1].sites # << >>,
         DropHook(Head(doomed[1].sites), ok),
         doomed' = [doomed EXCEPT ![1].sites = Tail(@)],
         UNCHANGED <<mods, phase, job, next, handle, reloads, overlaid, untold, scriptVars>>
  PROVE  PatchesInv'
<1> USE DEF PatchesInv
<1> DEFINE s == doomed[1].sites
           site == Head(s)
           r == [handles |-> doomed[1].handles, sites |-> Tail(s)]
           d == hooks[site]
           restored == site \in DOMAIN hooks /\ d \in DOMAIN detours /\ ok
<1>1. /\ Kept /\ applied' = applied
      /\ memory' = IF restored THEN Overwrite(memory, detours[d].backup) ELSE memory
      /\ detours' = IF restored THEN Without(detours, d) ELSE detours
      /\ hooks' = Without(hooks, site)
      /\ failed' = (IF ok THEN failed ELSE failed + 1) /\ failed' <= MaxFailures
  BY DEF DropHook
<1>2. doomed[1] \in [handles : Seq(Nat), sites : Seq(Nat)] /\ 1 \in DOMAIN doomed
  BY <1>1, StateFacts
<1>3. s \in Seq(Nat) /\ s # << >> /\ r \in [handles : Seq(Nat), sites : Seq(Nat)]
      /\ r.sites = Tail(s) /\ r.handles = doomed[1].handles
  BY <1>2
<1>4. doomed' = [doomed EXCEPT ![1] = r]
  <2>1. [doomed[1] EXCEPT !.sites = Tail(doomed[1].sites)] = r
    BY <1>2, RemovalsExcept
  <2>2. doomed' = [doomed EXCEPT ![1] = [doomed[1] EXCEPT !.sites = Tail(doomed[1].sites)]]
    OBVIOUS
  <2> QED
    BY <2>1, <2>2
<1> HIDE DEF r
<1>5. /\ HoldersTypeOK' /\ Underway' /\ ScriptsApart' /\ Scripts' = Scripts
      /\ Addon' = Addon /\ -1 \in Places
      /\ Held[-1] = doomed[1] /\ Held'[-1] = r
      /\ \A x \in Places : x # -1 => Held'[x] = Held[x]
  BY <1>1, <1>3, <1>4, WaitingChanges
<1>6. /\ SitesOf(Held[-1]) = SitesOf(Held'[-1]) \cup {site}
      /\ Distinct(Held[-1].sites) => Distinct(Held'[-1].sites) /\ site \notin SitesOf(Held'[-1])
      /\ Held'[-1].handles = Held[-1].handles
  <2>1. /\ Held[-1].sites = s /\ Held'[-1].sites = Tail(s)
        /\ Held'[-1].handles = Held[-1].handles
    BY <1>3, <1>5
  <2>2. s \in Seq(Nat) /\ s # << >> /\ site = Head(s)
    BY <1>3
  <2> HIDE DEF s, site
  <2> QED
    BY <2>1, <2>2, TailSite
<1> HIDE DEF s, site, d, restored
<1>7. DOMAIN applied \cap DOMAIN detours = {} /\ DOMAIN memory = Cell
  BY <1>1 DEF Kept, TypeOK
<1>8. /\ restored => /\ DOMAIN detours' = DOMAIN detours \ {d}
                     /\ \A k \in DOMAIN detours' : detours'[k] = detours[k]
      /\ restored \/ detours' = detours
      /\ DOMAIN hooks' = DOMAIN hooks \ {site}
      /\ \A t \in DOMAIN hooks' : hooks'[t] = hooks[t]
  BY <1>1 DEF Without
<1>9. Records' \subseteq Records /\ \A k \in Records' : Owned(k)' = Owned(k)
  BY <1>1, <1>7, <1>8 DEF Records, Owned
<1>10. TypeOK'
  <2>1. DOMAIN memory' = Cell
    <3>1. CASE restored
      <4>1. d \in DOMAIN detours
        BY <3>1 DEF restored
      <4>2. DOMAIN detours[d].backup \subseteq Cell
        BY <1>1, <1>7, <4>1 DEF Kept, TypeOK, Records, Owned
      <4> QED
        BY <1>1, <1>7, <3>1, <4>2 DEF Overwrite
    <3> QED
      BY <1>1, <1>7, <3>1
  <2>2. failed' \in 0 .. MaxFailures
    BY <1>1, FileAssumption DEF Kept, TypeOK
  <2>3. DOMAIN applied' \cap DOMAIN detours' = {}
    BY <1>1, <1>7, <1>8
  <2> QED
    BY <1>1, <1>9, <2>1, <2>2, <2>3, LossType DEF scriptVars
<1>11. HoldersOf(Held, applied, Scripts)
  BY <1>1 DEF Kept
<1>12. \A x \in Places : Held'[x].handles = Held[x].handles
  BY <1>5, <1>6
<1>13. HoldersOf(Held', applied', Scripts)
  BY <1>1, <1>11, <1>12, SameHandles
<1>14. Kept'
  BY <1>5, <1>10, <1>13 DEF Kept
<1>15. Regular' => Regular /\ ok
  <2>1. failed \in Nat
    BY <1>1, FileAssumption DEF Kept, TypeOK
  <2> QED
    BY <1>1, <2>1 DEF Regular
<1>16. ASSUME Regular, ok
       PROVE  Orderly' /\ (~untold => Imaged')
  <2>1. Kept /\ Orderly /\ HooksOf(Held, detours, hooks)
    BY <1>1, <1>16 DEF Orderly
  <2>2. site \in DOMAIN hooks /\ d \in DOMAIN detours /\ restored
    <3>1. site \in DOMAIN hooks
      BY <1>5, <1>6, <2>1 DEF HooksOf
    <3> QED
      BY <1>16, <2>1, <3>1 DEF HooksOf, restored, d
  <2>3. Distinct(Held[-1].sites)
    BY <1>5, <2>1 DEF HooksOf
  <2>4. HooksOf(Held', detours', hooks')
    <3>1. DOMAIN detours' = DOMAIN detours \ {hooks[site]}
      BY <1>8, <2>2 DEF d
    <3>2. \A k \in DOMAIN detours' : detours'[k] = detours[k]
      BY <1>8, <2>2
    <3>3. /\ SitesOf(Held[-1]) = SitesOf(Held'[-1]) \cup {site}
          /\ Distinct(Held'[-1].sites) /\ site \notin SitesOf(Held'[-1])
      BY <1>6, <2>3
    <3>4. /\ -1 \in Places /\ \A x \in Places : x # -1 => Held'[x] = Held[x]
          /\ DOMAIN hooks' = DOMAIN hooks \ {site}
          /\ \A t \in DOMAIN hooks' : hooks'[t] = hooks[t]
      BY <1>5, <1>8
    <3> QED
      BY <2>1, <3>1, <3>2, <3>3, <3>4, SiteDropped
  <2>5. /\ d \in DOMAIN Record /\ DOMAIN Record' = DOMAIN Record \ {d}
        /\ \A k \in DOMAIN Record' : Record'[k] = Record[k]
        /\ memory' = Overwrite(memory, Record[d].backup)
    <3>1. d \in Records /\ Owned(d) = detours[d]
      BY <1>7, <2>2 DEF Records, Owned
    <3>2. Records' = Records \ {d}
      BY <1>1, <1>7, <1>8, <2>2 DEF Records
    <3>3. DOMAIN Record' = Records' /\ \A k \in Records' : Record'[k] = Owned(k)'
      BY DEF Record
    <3>4. memory' = Overwrite(memory, detours[d].backup)
      BY <1>1, <2>2
    <3> QED
      BY <1>9, <3>1, <3>2, <3>3, <3>4, RecordFacts
  <2>6. \A x \in Nat : x \in Places /\ x # -1
    BY SplitPlaces
  <2>7. \A x \in Nat : d \notin HoldsAt(Held[x], hooks)
    <3>1. d \in HoldsAt(Held[-1], hooks)
      BY <1>6, <2>2 DEF HoldsAt, d
    <3> QED
      BY <1>5, <1>7, <1>11, <2>1, <2>6, <3>1, HoldsFacts
  <2>8. ASSUME NEW x \in Nat
        PROVE  HoldsAt(Held'[x], hooks') = HoldsAt(Held[x], hooks)
    <3>1. Held'[x] = Held[x] /\ x \in Places
      BY <1>5, <2>6
    <3>2. site \notin SitesOf(Held[x]) /\ SitesOf(Held[x]) \subseteq DOMAIN hooks
      BY <1>5, <1>6, <2>1, <2>6, <3>1 DEF HooksOf
    <3>3. \A t \in SitesOf(Held[x]) : hooks'[t] = hooks[t]
      BY <1>8, <3>2
    <3> QED
      BY <3>1, <3>3 DEF HoldsAt
  <2>9. d \notin Scripts
    BY <1>7, <1>11, <2>2 DEF HoldersOf
  <2>10. /\ ClaimsOf(Held', Addon', hooks', Record')
         /\ ScriptsOf(Scripts', Record')
         /\ ApartOf(Record')
    BY <1>5, <2>1, <2>5, <2>7, <2>8, <2>9, LossKeepsOrder
  <2>11. ASSUME ~untold
         PROVE  Imaged'
    <3>1. Imaged
      BY <1>16, <2>11
    <3> QED
      BY <1>5, <2>1, <2>5, <2>7, <2>8, <3>1, LossKeepsImage
  <2> QED
    BY <2>4, <2>10, <2>11 DEF Orderly
<1> QED
  BY <1>14, <1>15, <1>16

LEMMA DropKeeps ==
  ASSUME PatchesInv, NEW ok \in BOOLEAN, Drop(ok)
  PROVE  PatchesInv'
  BY PatchDroppedKeeps, HookDroppedKeeps, DroppedKeeps DEF Drop

-----------------------------------------------------------------------------
LEMMA InitKeeps == Init => PatchesInv
<1> SUFFICES ASSUME Init
             PROVE  PatchesInv
  OBVIOUS
<1>1. /\ mods = << >> /\ doomed = << >> /\ job = NoJob /\ call = NoCall
      /\ DOMAIN mods = {} /\ DOMAIN doomed = {} /\ Len(mods) = 0
      /\ applied = << >> /\ detours = << >> /\ hooks = << >>
      /\ DOMAIN applied = {} /\ DOMAIN detours = {} /\ DOMAIN hooks = {}
      /\ known = {} /\ lost = {} /\ memory = Original
  BY DEF Init
<1>2. \A x \in Places : Held[x] = NoRemovals
  BY <1>1 DEF Held, HeldIn, Removals, NoJob, NoPatches, NoRemovals
<1>3. \A x \in Places : DOMAIN Addon[x].patches.shown = {}
  BY <1>1 DEF Addon, AddonIn, Nobody, NoJob, NoPatches
<1>4. Scripts = {} /\ ScriptsApart
  BY <1>1, NoHandles DEF Scripts, ScriptsApart, NoCall
<1>5. HoldersOf(Held, applied, Scripts)
  BY <1>1, <1>2, <1>4, NothingHeld DEF HoldersOf
<1>6. HoldersTypeOK
  BY <1>1 DEF HoldersTypeOK, NoCall
<1>7. TypeOK
  <2>1. DOMAIN Original = Cell /\ MaxReloads \in Nat /\ MaxMakes \in Nat /\ MaxFailures \in Nat
    BY FileAssumption
  <2>2. Len(LoadOrder) \in Nat
    BY FileAssumption
  <2>3. Records = {} /\ handle = 0 /\ next = 0 /\ reloads = 0 /\ failed = 0 /\ makes = 0
        /\ phase = "loading" /\ overlaid = FALSE /\ untold = FALSE
    BY <1>1 DEF Init, Records
  <2>4. DOMAIN memory = Cell /\ \A s \in DOMAIN hooks : hooks[s] \in 1 .. handle
    BY <1>1, <2>1
  <2>5. /\ 0 \in 0 .. Len(LoadOrder) /\ 0 \in 0 .. MaxReloads /\ 0 \in 0 .. MaxMakes
        /\ 0 \in 0 .. MaxFailures /\ 0 \in Nat /\ Len(mods) <= 0
    BY <1>1, <2>1, <2>2
  <2> QED
    BY <1>1, <2>3, <2>4, <2>5 DEF TypeOK
<1>8. Underway
  BY <1>1 DEF Underway
<1>9. \A x \in Nat : HoldsAt(Held[x], hooks) = {} /\ DOMAIN Addon[x].patches.shown = {}
  BY <1>2, <1>3, NothingHeld, SplitPlaces DEF HoldsAt
<1>10. DOMAIN Record = {}
  BY <1>1 DEF Record, Records
<1>11. Orderly
  <2>1. HooksOf(Held, detours, hooks)
    BY <1>1, <1>2, NothingHeld DEF HooksOf
  <2>2. ClaimsOf(Held, Addon, hooks, Record)
    BY <1>9 DEF ClaimsOf, ClaimOf
  <2> QED
    BY <1>4, <1>10, <2>1, <2>2 DEF Orderly, ScriptsOf, ApartOf
<1>12. Imaged
  <2>1. ImageOf(Record, memory)
    BY <1>1, <1>10 DEF ImageOf
  <2>2. ShowsOf(Held, Addon, hooks, Record, memory)
    BY <1>9 DEF ShowsOf, ShowOf
  <2> QED
    BY <2>1, <2>2 DEF Imaged
<1> QED
  BY <1>4, <1>5, <1>6, <1>7, <1>8, <1>11, <1>12 DEF PatchesInv, Kept

LEMMA NextKeeps == PatchesInv /\ [Next]_vars => PatchesInv'
<1> SUFFICES ASSUME PatchesInv, [Next]_vars
             PROVE  PatchesInv'
  OBVIOUS
<1>1. CASE \E m \in Mod : \E f \in File[m] : BeginLoad(f)
  BY <1>1, BeginLoadKeeps
<1>2. CASE \E ok \in BOOLEAN : Apply(ok) \/ Drop(ok)
  BY <1>2, ApplyKeeps, DropKeeps
<1>3. CASE EndLoad \/ FailLoad \/ StartServing \/ EndReload \/ Stop
  BY <1>3, EndLoadKeeps, FailLoadKeeps, StartServingKeeps, EndReloadKeeps, StopKeeps
<1>4. CASE \E i \in DOMAIN mods : Unload(i) \/ \E f \in File[mods[i].mod] : BeginReload(i, f)
  BY <1>4, UnloadKeeps, BeginReloadKeeps
<1>5. CASE \E list \in Lists : BeginMake(list)
  BY <1>5, BeginMakeKeeps
<1>6. CASE \E ok \in BOOLEAN : MakeEntry(ok) \/ \E h \in known : ScriptRemove(h, ok)
  BY <1>6, MakeEntryKeeps, ScriptRemoveKeeps
<1>7. CASE RefuseEntry \/ EndMake
  BY <1>7, RefuseEntryKeeps, EndMakeKeeps
<1>8. CASE UNCHANGED vars
  <2>1. UNCHANGED <<memory, applied, detours, hooks, mods, phase, job, doomed, next,
                    handle, reloads, failed, overlaid, untold, call, known, makes, lost>>
    BY <1>8 DEF vars, scriptVars
  <2>2. Held' = Held /\ Addon' = Addon
    BY <2>1, HeldStays DEF Addon
  <2>3. HoldersTypeOK' /\ TypeOK' /\ ScriptsApart' /\ Underway' /\ Scripts' = Scripts
    BY <2>1 DEF PatchesInv, Kept, HoldersTypeOK, TypeOK, Records, Owned, ScriptsApart, Underway,
                Scripts
  <2> QED
    BY <2>1, <2>2, <2>3, AddonsStay, StaysMoved, QuietStep
<1> QED
  BY <1>1, <1>2, <1>3, <1>4, <1>5, <1>6, <1>7, <1>8 DEF Next

LEMMA IdleHolders ==
  ASSUME Kept, Idle, NEW x \in Places, x \notin DOMAIN mods
  PROVE  Held[x] = NoRemovals
<1>1. job.patches = NoPatches /\ doomed = << >> /\ DOMAIN doomed = {}
  BY IdleFacts
<1>2. Removals(NoPatches) = NoRemovals
  BY DEF Removals, NoPatches, NoRemovals
<1> QED
  BY <1>1, <1>2, NowFacts, SplitPlaces

LEMMA LoadedHolders ==
  ASSUME Kept, NEW i \in DOMAIN mods
  PROVE  /\ i \in Nat /\ i \in Places /\ Addon[i] = mods[i]
         /\ Held[i].handles = mods[i].patches.handles
         /\ Held[i].sites = mods[i].patches.sites
<1>1. i \in Nat
  BY StateFacts
<1>2. Held[i] = Removals(mods[i].patches) /\ Addon[i] = mods[i]
  BY NowFacts
<1> QED
  BY <1>1, <1>2, SplitPlaces DEF Removals

(* The inductive invariant: who holds what, always; as long as nothing      *)
(* failed and no addon patched over itself or a script, whose each patch    *)
(* is, for which entry, and that none meets another it can be told from;    *)
(* and as long as none meets any, that saved bytes are the game's and the   *)
(* image has what the addons show.                                          *)
THEOREM PatchesInvariant == Spec => []PatchesInv
  BY InitKeeps, NextKeeps, PTL DEF Spec

(* Every variable has its type: handles, sites, patches, image.            *)
THEOREM TypeCorrect == Spec => []TypeOK
<1>1. PatchesInv => TypeOK
  BY DEF PatchesInv, Kept
<1> QED
  BY <1>1, PatchesInvariant, PTL

(* Between operations each patch in the wrapper's storage is one that a     *)
(* loaded addon removes when it is dropped or one that a script made, and   *)
(* each of those is there: for every patch.jsonc, whatever fails or         *)
(* overlaps (Patches::new, Drop, patch.make and patch.remove).              *)
THEOREM PatchesHaveOwners == Spec => []PatchesOwned
<1>1. PatchesInv => PatchesOwned
  <2> SUFFICES ASSUME PatchesInv, Idle
               PROVE  DOMAIN applied = known \cup lost
                        \cup UNION {Handles(mods[i].patches.handles) : i \in DOMAIN mods}
    BY DEF PatchesOwned
  <2>1. Kept /\ HoldersOf(Held, applied, Scripts)
    BY DEF PatchesInv, Kept
  <2>2. Scripts = known \cup lost
    BY NoHandles DEF Idle, Scripts, NoCall
  <2>3. \A x \in Places : x \notin DOMAIN mods => Held[x] = NoRemovals
    BY <2>1, IdleHolders
  <2>4. \A i \in DOMAIN mods : i \in Places /\ Held[i].handles = mods[i].patches.handles
    BY <2>1, LoadedHolders
  <2>5. ASSUME NEW h \in DOMAIN applied, h \notin Scripts
        PROVE  \E i \in DOMAIN mods : h \in Handles(mods[i].patches.handles)
    BY <2>1, <2>3, <2>4, <2>5, NothingHeld DEF HoldersOf
  <2>6. \A i \in DOMAIN mods : Handles(mods[i].patches.handles) \subseteq DOMAIN applied
    BY <2>1, <2>4 DEF HoldersOf
  <2>7. Scripts \subseteq DOMAIN applied
    BY <2>1 DEF HoldersOf
  <2> QED
    BY <2>2, <2>5, <2>6, <2>7
<1> QED
  BY <1>1, PatchesInvariant, PTL

(* Nothing that changes the game, patch or hook, is without an addon or     *)
(* script that will undo it, and each hooked call site has its metadata,    *)
(* however the overlap check errs (register_trampoline_hook, Drop).         *)
THEOREM EverythingHasAnOwner == Spec => []AllOwned
<1>1. PatchesInv => HooksOwned
  <2> SUFFICES ASSUME PatchesInv, Idle, failed = 0, ~overlaid
               PROVE  /\ DOMAIN hooks = UNION {SitesOf(mods[i].patches) : i \in DOMAIN mods}
                      /\ {hooks[s] : s \in DOMAIN hooks} = DOMAIN detours
                      /\ \A s, t \in DOMAIN hooks : hooks[s] = hooks[t] => s = t
    BY DEF HooksOwned
  <2>1. Kept /\ HooksOf(Held, detours, hooks)
    BY DEF PatchesInv, Regular, Orderly
  <2>2. \A x \in Places : x \notin DOMAIN mods => Held[x] = NoRemovals
    BY <2>1, IdleHolders
  <2>3. \A i \in DOMAIN mods : i \in Places /\ SitesOf(Held[i]) = SitesOf(mods[i].patches)
    BY <2>1, LoadedHolders DEF SitesOf
  <2>4. ASSUME NEW s \in DOMAIN hooks
        PROVE  \E i \in DOMAIN mods : s \in SitesOf(mods[i].patches)
    BY <2>1, <2>2, <2>3, NothingHeld DEF HooksOf
  <2>5. \A i \in DOMAIN mods : SitesOf(mods[i].patches) \subseteq DOMAIN hooks
    BY <2>1, <2>3 DEF HooksOf
  <2>6. /\ {hooks[s] : s \in DOMAIN hooks} = DOMAIN detours
        /\ \A s, t \in DOMAIN hooks : hooks[s] = hooks[t] => s = t
    BY <2>1 DEF HooksOf
  <2>7. DOMAIN hooks = UNION {SitesOf(mods[i].patches) : i \in DOMAIN mods}
    BY <2>4, <2>5
  <2> QED
    BY <2>6, <2>7
<1>2. PatchesOwned /\ HooksOwned => AllOwned
  BY DEF AllOwned
<1> QED
  BY <1>1, <1>2, PatchesInvariant, PatchesHaveOwners, PTL

(* No two addons' patches or detours share a byte if the overlap check can   *)
(* tell their entries apart, whatever else was applied before - the loader   *)
(* compares spans it computed from patch.jsonc with spans it remembers,      *)
(* never the bytes that are written (ensure_no_overlap).                     *)
THEOREM ModsKeptApart == Spec => []ModsDisjoint
<1>1. PatchesInv => ModsDisjoint
  BY RecordFacts DEF PatchesInv, Regular, Orderly, ApartOf, ModsDisjoint
<1> QED
  BY <1>1, PatchesInvariant, PTL

(* Between operations, each byte no addon shows and no script patched is    *)
(* the game's own, after any loads, reloads, unloads and failed starts, in  *)
(* any order - until an addon's patch lies on one that the overlap check    *)
(* cannot tell from it, or bytes could not be written back.                 *)
THEOREM GameIsRestored == Spec => []GameRestored
<1>1. PatchesInv => GameRestored
  <2> SUFFICES ASSUME PatchesInv, Idle, failed = 0, ~overlaid, ~untold,
                      NEW c \in Cell \ CoveredBy("script"),
                      \A i \in DOMAIN mods : c \notin DOMAIN mods[i].patches.shown
               PROVE  memory[c] = Original[c]
    BY DEF GameRestored
  <2>1. Kept /\ Orderly /\ Imaged
    BY DEF PatchesInv, Regular
  <2>2. DOMAIN applied \cap DOMAIN detours = {} /\ DOMAIN Record = DOMAIN applied \cup DOMAIN detours
    BY <2>1, StateFacts DEF Kept, TypeOK
  <2>3. HoldersOf(Held, applied, Scripts) /\ HooksOf(Held, detours, hooks)
    BY <2>1 DEF Kept, Orderly
  <2>4. ASSUME NEW h \in DOMAIN Record
        PROVE  c \notin DOMAIN Record[h].backup
    <3>1. h \in Scripts \/ \E x \in Places : h \in HoldsAt(Held[x], hooks)
      BY <2>2, <2>3, HoldsFacts
    <3>2. CASE h \in Scripts
      BY <2>1, <3>2, CoveredFacts DEF Orderly, ScriptsOf
    <3>3. ASSUME NEW x \in Places, h \in HoldsAt(Held[x], hooks)
          PROVE  c \notin DOMAIN Record[h].backup
      <4>1. Held[x] # NoRemovals
        BY <3>3, NothingHeld DEF HoldsAt
      <4>2. x \in DOMAIN mods /\ x \in Nat
        BY <2>1, <4>1, IdleHolders, StateFacts
      <4>3. Addon[x] = mods[x]
        BY <2>1, <4>2, NowFacts
      <4>4. ShowOf(HoldsAt(Held[x], hooks), Addon[x], Record, memory)
        BY <2>1, <4>2 DEF Imaged, ShowsOf
      <4>5. DOMAIN Record[h].backup \subseteq DOMAIN Addon[x].patches.shown
        BY <3>3, <4>4 DEF ShowOf
      <4> QED
        BY <4>2, <4>3, <4>5
    <3> QED
      BY <3>1, <3>2, <3>3
  <2> QED
    BY <2>1, <2>4 DEF Imaged, ImageOf
<1> QED
  BY <1>1, PatchesInvariant, PTL

(* What a loaded addon applied is in the image and its hooks registered:    *)
(* no load, reload or unload of another addon takes effect away from it,    *)
(* with the exceptions of GameIsRestored.                                   *)
THEOREM AppliedStaysInForce == Spec => []AddonsInForce
<1>1. PatchesInv => AddonsInForce
  <2> SUFFICES ASSUME PatchesInv, failed = 0, ~overlaid, ~untold, NEW i \in DOMAIN mods
               PROVE  /\ \A c \in DOMAIN mods[i].patches.shown : memory[c] = mods[i].patches.shown[c]
                      /\ \A k \in DOMAIN mods[i].patches.sites :
                           mods[i].patches.sites[k] \in DOMAIN hooks
    BY DEF AddonsInForce, InForce
  <2>1. Kept /\ Orderly /\ Imaged
    BY DEF PatchesInv, Regular
  <2>2. i \in Nat /\ i \in Places /\ Addon[i] = mods[i] /\ Held[i].sites = mods[i].patches.sites
    BY <2>1, LoadedHolders
  <2>3. \A c \in DOMAIN mods[i].patches.shown : memory[c] = mods[i].patches.shown[c]
    BY <2>1, <2>2 DEF Imaged, ShowsOf, ShowOf
  <2>4. SitesOf(Held[i]) \subseteq DOMAIN hooks
    BY <2>1, <2>2 DEF Orderly, HooksOf
  <2> QED
    BY <2>2, <2>3, <2>4 DEF SitesOf
<1> QED
  BY <1>1, PatchesInvariant, PTL

=============================================================================
