---------------------------- MODULE LoadOrder_proofs ----------------------------
(***************************************************************************)
(* Proofs about the launch, for every set of addons, manifests, command    *)
(* lines and profiles.  The loader's three passes over the addons are      *)
(* written into calls one after the other: init in the load order,         *)
(* post_init in the same order, quit backwards over what is still loaded.  *)
(* What the invariant says is which call stands at which place.            *)
(***************************************************************************)
EXTENDS LoadOrder, FiniteSetTheorems, SequenceTheorems, WellFoundedInduction, TLAPS

-----------------------------------------------------------------------------
(* Sequences of different elements.                                        *)

OnceEach(s) == \A j, k \in DOMAIN s : s[j] = s[k] => j = k
Arranges(s, S) == s \in Seq(S) /\ OnceEach(s) /\ \A e \in S : \E k \in DOMAIN s : s[k] = e

LEMMA Arrangements ==
  ASSUME NEW S, IsFiniteSet(S), NEW s \in SetToSeqs(S)
  PROVE  Arranges(s, S)
<1>1. Cardinality(S) \in Nat
  BY FS_CardinalityType
<1>2. s \in [1 .. Cardinality(S) -> S] /\ OnceEach(s)
  BY DEF SetToSeqs, OnceEach
<1>3. s \in Injection(1 .. Cardinality(S), S)
  BY <1>2 DEF OnceEach, Injection, IsInjective
<1>4. s \in Surjection(1 .. Cardinality(S), S)
  BY <1>1, <1>3, FS_Injection, FS_Interval
<1> QED
  BY <1>1, <1>2, <1>4 DEF Surjection, Arranges

(* Induction on numbers, as the existence of a least counterexample.       *)
LEMMA LeastElement ==
  ASSUME NEW T \in SUBSET Nat, T # {}
  PROVE  \E n \in T : \A m \in T : n <= m
<1> DEFINE R == OpToRel(<, Nat)
<1>1. IsWellFoundedOn(R, Nat)
  BY NatLessThanWellFounded
<1> HIDE DEF R
<1>2. PICK x \in T : \A y \in T : ~ (<<y, x>> \in R)
  BY <1>1, WFMin
<1>3. \A x1, y1 \in Nat : <<y1, x1>> \in R <=> y1 < x1
  BY DEF R, OpToRel
<1>4. \A y \in T : ~ (y < x)
  BY <1>2, <1>3
<1> QED
  BY <1>4

LEMMA Induction ==
  ASSUME NEW T \in SUBSET Nat, NEW n \in Nat, 0 \in T,
         \A k \in 0 .. n : k \in T => k + 1 \in T
  PROVE  \A k \in 0 .. n : k \in T
<1> DEFINE Missing == {k \in 0 .. n : k \notin T}
<1> SUFFICES ASSUME Missing # {} PROVE FALSE
  OBVIOUS
<1>1. Missing \in SUBSET Nat
  OBVIOUS
<1>2. \A k : k \in Missing <=> k \in 0 .. n /\ k \notin T
  OBVIOUS
<1> HIDE DEF Missing
<1>3. PICK k \in Missing : \A m \in Missing : k <= m
  BY <1>1, LeastElement
<1>4. k \in 0 .. n /\ k \notin T /\ k # 0
  BY <1>2, <1>3
<1>5. k - 1 \in T
  BY <1>2, <1>3, <1>4
<1> QED
  BY <1>4, <1>5

-----------------------------------------------------------------------------
(* The order a profile leaves is one of parts.                             *)

LEMMA EffectiveOrderType ==
  ASSUME NEW p \in ProfileFile
  PROVE  EffectiveLoadOrder(p) \in Seq(DOMAIN Parsed)
<1>1. CASE p.order = None
  BY <1>1 DEF EffectiveLoadOrder
<1>2. CASE p.order # None
  <2> DEFINE N == Len(p.order)
             D == Seq(DOMAIN Parsed)
             Step(f, k) == IF k = 0 THEN << >>
                           ELSE IF p.order[k] \in p.enabled \ p.disabled
                                THEN Append(f[k - 1], p.order[k])
                                ELSE f[k - 1]
  <2>1. N \in Nat /\ \A k \in 1 .. N : p.order[k] \in DOMAIN Parsed
    BY <1>2 DEF ProfileFile, OrderOption
  <2>2. \A f : Step(f, 0) = << >>
    OBVIOUS
  <2>3. << >> \in D
    OBVIOUS
  <2>4. ASSUME NEW f, NEW k \in 0 .. N, k + 1 <= N, f[k] \in D
        PROVE  Step(f, k + 1) \in D
    <3>1. Append(f[k], p.order[k + 1]) \in D
      BY <2>1, <2>4
    <3>2. Step(f, k + 1) = IF p.order[k + 1] \in p.enabled \ p.disabled
                           THEN Append(f[k], p.order[k + 1]) ELSE f[k]
      BY <2>1
    <3> QED
      BY <2>4, <3>1, <3>2
  <2>5. ASSUME NEW f, NEW g, NEW k \in 0 .. N, k # 0 => f[k - 1] = g[k - 1]
        PROVE  Step(f, k) = Step(g, k)
    BY <2>5
  <2>6. EffectiveLoadOrder(p) = (CHOOSE f : f = [k \in 0 .. N |-> Step(f, k)])[N]
    BY <1>2 DEF EffectiveLoadOrder
  <2> HIDE DEF Step, D
  <2> DEFINE Fits(f, n) == f = [k \in 0 .. n |-> Step(f, k)]
             T == {n \in Nat : n <= N => \E f : Fits(f, n)}
  <2>7. \A n \in Nat : n \in T <=> (n <= N => \E f : Fits(f, n))
    OBVIOUS
  <2>8. T \in SUBSET Nat
    OBVIOUS
  <2>9. \E f : Fits(f, 0)
    <3> DEFINE f == [k \in 0 .. 0 |-> << >>]
    <3>1. f = [k \in 0 .. 0 |-> Step(f, k)]
      BY <2>2
    <3> QED
      BY <3>1
  <2>10. ASSUME NEW n \in Nat, n + 1 <= N, \E f : Fits(f, n)
         PROVE  \E f : Fits(f, n + 1)
    <3>1. PICK f : Fits(f, n)
      BY <2>10
    <3> DEFINE g == [k \in 0 .. n + 1 |-> IF k = n + 1 THEN Step(f, n + 1) ELSE f[k]]
    <3>2. \A k \in 0 .. n + 1 : k # 0 => f[k - 1] = g[k - 1]
      BY <2>1
    <3>3. \A k \in 0 .. n + 1 : Step(f, k) = Step(g, k)
      BY <2>1, <2>5, <2>10, <3>2
    <3>4. \A k \in 0 .. n + 1 : g[k] = Step(f, k)
      BY <2>1, <3>1
    <3>5. g = [k \in 0 .. n + 1 |-> Step(g, k)]
      BY <3>3, <3>4
    <3> QED
      BY <3>5
  <2> DEFINE E == CHOOSE f : Fits(f, N)
             U == {n \in Nat : n <= N => E[n] \in D}
  <2>11. \A n \in Nat : n \in U <=> (n <= N => E[n] \in D)
    OBVIOUS
  <2>12. U \in SUBSET Nat
    OBVIOUS
  <2>13. EffectiveLoadOrder(p) = E[N]
    BY <2>6
  <2> HIDE DEF T, Fits, E, U
  <2>14. \A n \in 0 .. N : n \in T => n + 1 \in T
    BY <2>1, <2>7, <2>10
  <2>15. 0 \in T
    BY <2>1, <2>7, <2>9
  <2>16. N \in T
    <3>1. \A k \in 0 .. N : k \in T
      BY <2>1, <2>8, <2>14, <2>15, Induction, Zenon
    <3> QED
      BY <2>1, <3>1
  <2>17. Fits(E, N)
    <3>1. \E f : Fits(f, N)
      BY <2>1, <2>7, <2>16
    <3> QED
      BY <3>1 DEF E
  <2>18. \A n \in 0 .. N : E[n] = Step(E, n)
    BY <2>17 DEF Fits
  <2>19. 0 \in U
    BY <2>1, <2>2, <2>3, <2>11, <2>18
  <2>20. ASSUME NEW n \in 0 .. N, n \in U
         PROVE  n + 1 \in U
    <3> SUFFICES ASSUME n + 1 <= N PROVE E[n + 1] \in D
      BY <2>1, <2>11
    <3>1. Step(E, n + 1) \in D
      BY <2>1, <2>4, <2>11, <2>20
    <3> QED
      BY <2>1, <2>18, <3>1
  <2>21. N \in U
    <3>1. \A k \in 0 .. N : k \in U
      <4>1. \A k \in 0 .. N : k \in U => k + 1 \in U
        BY <2>20
      <4> QED
        BY <2>1, <2>12, <2>19, <4>1, Induction, Zenon
    <3> QED
      BY <2>1, <3>1
  <2> QED
    BY <2>1, <2>11, <2>13, <2>21 DEF D
<1> QED
  BY <1>1, <1>2

-----------------------------------------------------------------------------
(* The invariant.                                                          *)

(* What is merged is what was asked and the profile of this launch.        *)
Arguments ==
  /\ ~Idle => args = Merged(asked, profile)
  /\ ~asked.profile => args = asked

Chosen == OnceEach(candidates) /\ \A e \in Found : Selected(e)

(* What an order must have: dependencies first, and what was asked for.    *)
DependenciesLead(s) ==
  IdsUnique /\ Unordered /\ ~asked.profile =>
    \A e \in Found : \A d \in Addon[e].deps : \A f \in Named(d.id) :
      Addon[f].version \in d.accepts => Before(s, f, e)

Names(k, e) == Parsed[LoadOrderAsked[k]].id = Addon[e].id

MentionedLead(s) ==
  ~asked.profile /\ IdsUnique /\ LoadOrderAsked # None =>
    \A e, f \in Found : Before(s, e, f) /\ (\E k \in DOMAIN LoadOrderAsked : Names(k, f)) =>
      \E m \in DOMAIN LoadOrderAsked : Names(m, e) /\ \A n \in 1 .. m : ~Names(n, f)

Orderly(s) == Arranges(s, Found) /\ DependenciesLead(s) /\ MentionedLead(s)

(* The place of each call.                                                 *)
Inits == Len(order)
PostInits == Inits + posted

CallsStand ==
  /\ \A k \in DOMAIN calls : calls[k][2] \in Found
  /\ \A k \in DOMAIN calls : k <= Inits => calls[k] = <<"init", order[k]>>
  /\ \A k \in DOMAIN calls : Inits < k /\ k <= PostInits =>
       calls[k][1] = "post_init" /\ (IdsUnique => calls[k][2] = order[k - Inits])
  /\ \A k \in DOMAIN calls : PostInits < k =>
       calls[k][1] = "quit"
         /\ (IdsUnique => /\ k - PostInits <= Len(loaded)
                          /\ calls[k][2] = loaded[Len(loaded) + 1 - (k - PostInits)])
  /\ posted = 0 \/ PostInits <= Len(calls)
  /\ Len(calls) <= PostInits \/ posted = Inits

(* Addons are loaded in the order, and leave holes in it.                  *)
LoadedInOrder ==
  /\ \A k \in DOMAIN loaded : loaded[k] \in Found
  /\ \A j, k \in DOMAIN loaded : j < k => Before(order, loaded[j], loaded[k])

TablesStand ==
  /\ \A id \in DOMAIN tables : tables[id] \in Found /\ Addon[tables[id]].id = id
  /\ phase \in {"loading", "posting"} \/ IdsUnique =>
       \A k \in DOMAIN loaded : Addon[loaded[k]].id \in DOMAIN tables

Stages ==
  /\ phase \in {"off", "discovering", "resolving"} => order = << >>
  /\ order # << >> \/ phase \in {"loading", "posting", "running", "quitting"} => Orderly(order)
  /\ phase \in {"off", "discovering", "resolving"} =>
       calls = << >> /\ loaded = << >> /\ posted = 0 /\ tables = << >>
  /\ phase = "loading" =>
       /\ posted = 0 /\ Len(calls) = Len(loaded) /\ Len(loaded) <= Inits
       /\ \A k \in DOMAIN loaded : loaded[k] = order[k]
  /\ phase = "posting" => Len(calls) = PostInits /\ loaded = order
  /\ phase = "running" => Len(calls) = PostInits /\ posted = Inits
  /\ phase = "quitting" => PostInits <= Len(calls) /\ posted = Inits
  /\ IdsUnique /\ phase = "quitting" =>
       /\ Len(leaving) <= Len(loaded) /\ Len(calls) = PostInits + Len(loaded) - Len(leaving)
       /\ \A k \in DOMAIN leaving : leaving[k] = loaded[Len(leaving) + 1 - k]
  /\ IdsUnique /\ phase = "ended" =>
       loaded = << >> \/ (posted = Inits /\ Len(calls) = PostInits + Len(loaded))
  /\ IdsUnique /\ phase = "failed" => Len(calls) <= Inits

LaunchInv ==
  TypeOK /\ Arguments /\ Chosen /\ CallsStand /\ LoadedInOrder /\ TablesStand /\ Stages

-----------------------------------------------------------------------------
(* What the resolvers return is in order.                                  *)

LEMMA FoundFinite ==
  ASSUME TypeOK
  PROVE  Found \subseteq Entry /\ IsFiniteSet(Found)
<1>1. Found \subseteq Entry
  BY DEF TypeOK, Found, ToSet
<1> QED
  BY <1>1, LaunchAssumption, FS_Subset

LEMMA Positions ==
  ASSUME TypeOK, NEW e \in Found
  PROVE  Position(e) \in DOMAIN candidates /\ Position(e) \in Nat /\ Position(e) > 0
         /\ candidates[Position(e)] = e
<1>1. \E k \in DOMAIN candidates : candidates[k] = e
  BY DEF Found, ToSet
<1>2. Position(e) \in DOMAIN candidates /\ candidates[Position(e)] = e
  BY <1>1 DEF Position
<1>3. candidates \in Seq(Entry)
  BY DEF TypeOK
<1> QED
  BY <1>2, <1>3

LEMMA OnlyOne ==
  ASSUME TypeOK, IdsUnique, NEW id, NEW S, S \subseteq Named(id), S # {}
  PROVE  First(S) \in S /\ \A e \in Named(id) : e = First(S)
<1>1. PICK e \in S : TRUE
  OBVIOUS
<1>2. S = {e} /\ Named(id) = {e}
  BY <1>1 DEF IdsUnique, Named
<1>3. e \in Found
  BY <1>2 DEF Named
<1>4. \A f \in S : Position(e) <= Position(f)
  BY <1>2, <1>3, Positions
<1>5. First(S) \in S
  BY <1>1, <1>4 DEF First
<1> QED
  BY <1>2, <1>5

LEMMA NodeIsNamed ==
  ASSUME TypeOK, IdsUnique, NEW e \in Found
  PROVE  NodeOf(Addon[e].id) = e
<1> DEFINE S == Named(Addon[e].id)
<1>1. S = {e}
  BY DEF IdsUnique, Named
<1>2. \A f \in S : Position(f) <= Position(e)
  BY <1>1, Positions
<1> HIDE DEF S
<1>3. \E x \in S : \A f \in S : Position(f) <= Position(x)
  BY <1>1, <1>2
<1>4. (CHOOSE x \in S : \A f \in S : Position(f) <= Position(x)) \in S
  BY <1>3
<1> QED
  BY <1>1, <1>4 DEF NodeOf, S

LEMMA DependencyEdge ==
  ASSUME TypeOK, IdsUnique, NEW e \in Found, NEW d \in Addon[e].deps, NEW f \in Named(d.id),
         Addon[f].version \in d.accepts
  PROVE  <<f, e>> \in Edges
<1>1. f \in Found /\ Addon[f].id = d.id
  BY DEF Named
<1>2. NodeOf(d.id) = f /\ NodeOf(Addon[e].id) = e
  BY <1>1, NodeIsNamed
<1> QED
  BY <1>1, <1>2 DEF Edges

LEMMA ResolvedOrder ==
  ASSUME TypeOK, Chosen, NEW s \in Resolved
  PROVE  /\ Arranges(s, Found)
         /\ ~args.noDeps => \A p \in Edges : Before(s, p[1], p[2])
<1>1. CASE args.noDeps
  <2>1. s = candidates
    BY <1>1 DEF Resolved
  <2>2. candidates \in Seq(Entry)
    BY DEF TypeOK
  <2>3. candidates \in Seq(Found)
    BY <2>2 DEF Found, ToSet
  <2> QED
    BY <1>1, <2>1, <2>3 DEF Arranges, Chosen, Found, ToSet
<1>2. CASE ~args.noDeps
  BY <1>2, FoundFinite, Arrangements DEF Resolved
<1> QED
  BY <1>1, <1>2

(* Under an order that is understood an addon ranks where its name stands  *)
(* first.                                                                  *)
Mentions(e) == {k \in DOMAIN LoadOrderAsked : e \in Meant(LoadOrderAsked[k])}

LEMMA MeantIsNamed ==
  ASSUME TypeOK, IdsUnique, OrderUnderstood, NEW k \in DOMAIN LoadOrderAsked, NEW e \in Found
  PROVE  e \in Meant(LoadOrderAsked[k]) <=> Names(k, e)
<1> DEFINE t == Parsed[LoadOrderAsked[k]]
           fitting == {f \in Named(t.id) : Addon[f].version \in t.accepts}
<1>1. Meant(LoadOrderAsked[k]) # {}
  BY DEF OrderUnderstood
<1>2. \E S : S \subseteq Named(t.id) /\ S # {} /\ Meant(LoadOrderAsked[k]) = {First(S)}
  <2>1. CASE fitting # {}
    <3>1. t # Malformed
      BY <1>1 DEF Meant
    <3>2. Meant(LoadOrderAsked[k]) = {First(fitting)}
      BY <2>1, <3>1 DEF Meant
    <3> QED
      BY <2>1, <3>2
  <2>2. CASE fitting = {}
    BY <1>1, <2>2 DEF Meant
  <2> QED
    BY <2>1, <2>2
<1> HIDE DEF t
<1>3. PICK S : S \subseteq Named(t.id) /\ S # {} /\ Meant(LoadOrderAsked[k]) = {First(S)}
  BY <1>2
<1>4. First(S) \in S /\ \A f \in Named(t.id) : f = First(S)
  BY <1>3, OnlyOne
<1>5. e \in Meant(LoadOrderAsked[k]) <=> e \in Named(t.id)
  BY <1>3, <1>4
<1> QED
  BY <1>5 DEF Named, Names, t

LEMMA Ranks ==
  ASSUME TypeOK, LoadOrderAsked # None, NEW e \in Found
  PROVE  /\ Mentions(e) # {} => /\ Rank(e) \in Mentions(e) /\ \A k \in Mentions(e) : Rank(e) <= k
         /\ Mentions(e) = {} => Rank(e) > Len(LoadOrderAsked)
         /\ Rank(e) \in Nat /\ DOMAIN LoadOrderAsked = 1 .. Len(LoadOrderAsked)
         /\ Len(LoadOrderAsked) \in Nat
<1>1. LoadOrderAsked \in Seq(DOMAIN Parsed)
  BY DEF TypeOK, Options, OrderOption, LoadOrderAsked
<1>2. DOMAIN LoadOrderAsked = 1 .. Len(LoadOrderAsked) /\ Len(LoadOrderAsked) \in Nat
  BY <1>1
<1> HIDE DEF LoadOrderAsked
<1>3. CASE Mentions(e) = {}
  BY <1>2, <1>3, Positions DEF Rank, Mentions
<1>4. CASE Mentions(e) # {}
  <2>1. Mentions(e) \in SUBSET Nat
    BY <1>2 DEF Mentions
  <2>2. Rank(e) = CHOOSE k \in Mentions(e) : \A j \in Mentions(e) : k <= j
    BY <1>4 DEF Rank, Mentions
  <2>3. \E k \in Mentions(e) : \A j \in Mentions(e) : k <= j
    BY <1>4, <2>1, LeastElement, Zenon
  <2>4. Rank(e) \in Mentions(e) /\ \A j \in Mentions(e) : Rank(e) <= j
    BY <2>2, <2>3
  <2> QED
    BY <1>2, <1>4, <2>1, <2>4
<1> QED
  BY <1>3, <1>4

LEMMA OrdersAreOrderly ==
  ASSUME TypeOK, Arguments, Chosen, NEW s \in Orders
  PROVE  Orderly(s)
<1>1. CASE LoadOrderAsked = None
  <2>1. s \in Resolved
    BY <1>1 DEF Orders
  <2>2. DependenciesLead(s)
    <3> SUFFICES ASSUME IdsUnique, Unordered, ~asked.profile,
                        NEW e \in Found, NEW d \in Addon[e].deps, NEW f \in Named(d.id),
                        Addon[f].version \in d.accepts
                 PROVE  Before(s, f, e)
      BY DEF DependenciesLead
    <3>1. ~args.noDeps
      BY DEF Unordered, Arguments
    <3>2. <<f, e>> \in Edges
      BY DependencyEdge
    <3> QED
      BY <2>1, <3>1, <3>2, ResolvedOrder
  <2>3. MentionedLead(s)
    BY <1>1 DEF MentionedLead
  <2> QED
    BY <2>1, <2>2, <2>3, ResolvedOrder DEF Orderly
<1>2. CASE LoadOrderAsked # None
  <2>1. OrderUnderstood /\ s \in Ranked(Found)
    BY <1>2 DEF Orders
  <2>2. s \in SetToSeqs(Found) /\ \A j, k \in DOMAIN s : j < k => Rank(s[j]) < Rank(s[k])
    BY <2>1 DEF Ranked
  <2>3. DependenciesLead(s)
    BY <1>2 DEF DependenciesLead, Unordered, Arguments, LoadOrderAsked
  <2>4. MentionedLead(s)
    <3> SUFFICES ASSUME IdsUnique, NEW e \in Found, NEW f \in Found, Before(s, e, f),
                        NEW k \in DOMAIN LoadOrderAsked, Names(k, f)
                 PROVE  \E m \in DOMAIN LoadOrderAsked : Names(m, e) /\ \A n \in 1 .. m : ~Names(n, f)
      BY DEF MentionedLead
    <3>1. Rank(e) < Rank(f)
      BY <2>2 DEF Before
    <3>2. k \in Mentions(f)
      BY <2>1, MeantIsNamed DEF Mentions
    <3>3. Rank(f) <= k /\ \A j \in Mentions(f) : Rank(f) <= j
      BY <1>2, <3>2, Ranks
    <3>4. Rank(e) \in Mentions(e)
      BY <1>2, <3>1, <3>3, Ranks
    <3>5. Rank(e) \in DOMAIN LoadOrderAsked /\ Names(Rank(e), e)
      BY <2>1, <3>4, MeantIsNamed DEF Mentions
    <3>6. \A n \in 1 .. Rank(e) : ~Names(n, f)
      <4> SUFFICES ASSUME NEW n \in 1 .. Rank(e), Names(n, f)
                   PROVE  FALSE
        OBVIOUS
      <4>1. n \in DOMAIN LoadOrderAsked
        BY <1>2, <3>5, Ranks
      <4>2. n \in Mentions(f)
        BY <2>1, <4>1, MeantIsNamed DEF Mentions
      <4> QED
        BY <1>2, <3>1, <3>3, <4>2, Ranks
    <3> QED
      BY <3>5, <3>6
  <2> QED
    BY <2>2, <2>3, <2>4, FoundFinite, Arrangements DEF Orderly
<1> QED
  BY <1>1, <1>2

-----------------------------------------------------------------------------
(* What a step that keeps the launch's arguments and candidates keeps.     *)

LEMMA SameFound ==
  ASSUME UNCHANGED candidates
  PROVE  Found' = Found /\ IdsUnique' = IdsUnique
BY DEF Found, IdsUnique

LEMMA SameChosen ==
  ASSUME UNCHANGED <<candidates, args>>, Chosen
  PROVE  Chosen'
BY DEF Chosen, Selected, Found

(* That an order is in order is a matter of these three.                   *)
LEMMA SameOrderly ==
  ASSUME UNCHANGED <<candidates, args, asked>>
  PROVE  \A s : Orderly(s)' <=> Orderly(s)
<1> SUFFICES ASSUME NEW s PROVE Orderly(s)' <=> Orderly(s)
  OBVIOUS
<1>1. Arranges(s, Found)' <=> Arranges(s, Found)
  BY SameFound
<1>2. DependenciesLead(s)' <=> DependenciesLead(s)
  BY SameFound DEF DependenciesLead, Unordered, Named
<1>3. MentionedLead(s)' <=> MentionedLead(s)
  BY SameFound DEF MentionedLead, LoadOrderAsked, Names
<1> QED
  BY <1>1, <1>2, <1>3 DEF Orderly

LEMMA SameOrder ==
  ASSUME UNCHANGED <<candidates, args, asked, order>>
  PROVE  Orderly(order)' <=> Orderly(order)
BY SameOrderly DEF Orderly

LEMMA SameCalls ==
  ASSUME UNCHANGED <<candidates, order, loaded, calls, posted>>, CallsStand, LoadedInOrder
  PROVE  CallsStand' /\ LoadedInOrder'
<1>1. CallsStand'
  BY SameFound DEF CallsStand, Inits, PostInits
<1>2. LoadedInOrder'
  BY SameFound DEF LoadedInOrder
<1> QED
  BY <1>1, <1>2

LEMMA SequenceFacts ==
  ASSUME TypeOK
  PROVE  /\ DOMAIN calls = 1 .. Len(calls) /\ Len(calls) \in Nat
         /\ DOMAIN loaded = 1 .. Len(loaded) /\ Len(loaded) \in Nat
         /\ DOMAIN order = 1 .. Len(order) /\ Len(order) \in Nat
         /\ DOMAIN leaving = 1 .. Len(leaving) /\ Len(leaving) \in Nat
         /\ posted \in Nat /\ posted <= Len(order) /\ Inits = Len(order) /\ PostInits = Len(order) + posted
<1>1. calls \in Seq({"init", "post_init", "quit"} \X Entry)
  BY DEF TypeOK
<1>2. loaded \in Seq(Entry) /\ order \in Seq(Entry) /\ leaving \in Seq(Entry)
  BY DEF TypeOK
<1>3. Len(order) \in Nat
  BY <1>2
<1>4. posted \in 0 .. Len(order)
  BY DEF TypeOK
<1> QED
  BY <1>1, <1>2, <1>3, <1>4 DEF Inits, PostInits

-----------------------------------------------------------------------------
LEMMA MergedType ==
  ASSUME NEW o \in Options, NEW p \in {None} \cup ProfileFile
  PROVE  Merged(o, p) \in Options
<1>1. CASE ~(o.profile /\ p # None)
  BY <1>1 DEF Merged
<1>2. CASE o.profile /\ p # None
  <2>1. p \in ProfileFile
    BY <1>2
  <2>2. EffectiveLoadOrder(p) \in OrderOption
    BY <2>1, EffectiveOrderType DEF OrderOption
  <2>3. Given(o.addon) \cup p.enabled \in {None} \cup SUBSET Name
    BY <2>1 DEF Given, Options, ProfileFile
  <2>4. o.disable \cup p.disabled \in SUBSET Name
    BY <2>1 DEF Options, ProfileFile
  <2> QED
    BY <1>2, <2>2, <2>3, <2>4 DEF Merged, Options
<1> QED
  BY <1>1, <1>2

LEMMA InitKeeps == Init => LaunchInv
<1> SUFFICES ASSUME Init PROVE LaunchInv
  OBVIOUS
<1>1. NoLaunch \in Options
  BY DEF NoLaunch, Options, OrderOption
<1>2. TypeOK
  BY <1>1, LaunchAssumption DEF Init, TypeOK
<1>3. Arguments
  BY DEF Init, Arguments, Idle, NoLaunch
<1>4. Chosen
  BY DEF Init, Chosen, OnceEach, Found, ToSet
<1>5. CallsStand /\ LoadedInOrder /\ TablesStand
  BY DEF Init, CallsStand, LoadedInOrder, TablesStand, Inits, PostInits
<1>6. Stages
  BY DEF Init, Stages
<1> QED
  BY <1>2, <1>3, <1>4, <1>5, <1>6 DEF LaunchInv

LEMMA EditProfileKeeps ==
  ASSUME LaunchInv, NEW p \in Profiles \cup {None}, EditProfile(p)
  PROVE  LaunchInv'
<1> USE DEF LaunchInv
<1>1. TypeOK'
  BY LaunchAssumption DEF TypeOK, EditProfile
<1>2. Arguments'
  BY DEF Arguments, EditProfile, Idle
<1>3. Chosen' /\ CallsStand' /\ LoadedInOrder'
  BY SameChosen, SameCalls DEF EditProfile
<1>4. TablesStand'
  BY SameFound DEF TablesStand, EditProfile
<1>5. Stages'
  BY SameFound, SameOrder DEF Stages, EditProfile, Inits, PostInits
<1> QED
  BY <1>1, <1>2, <1>3, <1>4, <1>5

LEMMA LaunchKeeps ==
  ASSUME LaunchInv, NEW o \in Launches, NEW d \in Directories, Launch(o, d)
  PROVE  LaunchInv'
<1> USE DEF LaunchInv
<1>1. o \in Options
  BY LaunchAssumption
<1>2. SavedProfile(o) \in ProfileFile
  BY <1>1 DEF SavedProfile, ProfileFile, Options, Given
<1>3. profile' \in {None} \cup ProfileFile
  BY <1>2 DEF TypeOK, Launch
<1>4. args' \in Options
  BY <1>1, <1>3, MergedType DEF Launch
<1>5. TypeOK'
  <2>1. launches' \in 0 .. MaxLaunches /\ edits' \in 0 .. MaxEdits
    BY LaunchAssumption DEF TypeOK, Launch
  <2>2. directory' \subseteq Entry
    BY LaunchAssumption DEF Launch
  <2> QED
    BY <1>1, <1>3, <1>4, <2>1, <2>2 DEF TypeOK, Launch
<1>6. Arguments'
  BY <1>1 DEF Arguments, Launch, Merged, Options
<1>7. Chosen'
  BY DEF Launch, Chosen, OnceEach, Found, ToSet
<1>8. CallsStand' /\ LoadedInOrder' /\ TablesStand'
  BY DEF Launch, CallsStand, LoadedInOrder, TablesStand, Inits, PostInits
<1>9. Stages'
  BY DEF Launch, Stages
<1> QED
  BY <1>5, <1>6, <1>7, <1>8, <1>9

LEMMA DiscoverKeeps ==
  ASSUME LaunchInv, Discover
  PROVE  LaunchInv'
<1> USE DEF LaunchInv
<1> DEFINE S == {e \in directory : Selected(e)}
<1>1. S \subseteq Entry /\ IsFiniteSet(S)
  <2>1. S \subseteq Entry
    BY DEF TypeOK
  <2> QED
    BY <2>1, LaunchAssumption, FS_Subset
<1>2. candidates' \in SetToSeqs(S)
  BY DEF Discover
<1> HIDE DEF S
<1>3. Arranges(candidates', S)
  BY <1>1, <1>2, Arrangements
<1>4. candidates' \in Seq(Entry)
  BY <1>1, <1>3 DEF Arranges
<1>5. TypeOK'
  BY <1>4 DEF TypeOK, Discover
<1>6. Arguments'
  BY DEF Arguments, Discover, Idle
<1>7. Chosen'
  <2>1. \A e \in S : Selected(e)
    BY DEF S
  <2>2. \A e \in S : Selected(e)'
    BY <2>1 DEF Discover, Selected
  <2>3. \A k \in DOMAIN candidates' : candidates'[k] \in S
    BY <1>3 DEF Arranges
  <2>4. \A e \in Found' : e \in S
    BY <2>3 DEF Found, ToSet
  <2> QED
    BY <1>3, <2>2, <2>4 DEF Chosen, Arranges, OnceEach
<1>8. CallsStand' /\ LoadedInOrder' /\ TablesStand'
  BY DEF Discover, CallsStand, LoadedInOrder, TablesStand, Inits, PostInits, Stages
<1>9. Stages'
  BY DEF Discover, Stages
<1> QED
  BY <1>5, <1>6, <1>7, <1>8, <1>9

LEMMA NoDirectoryKeeps ==
  ASSUME LaunchInv, NoDirectory
  PROVE  LaunchInv'
<1> USE DEF LaunchInv
<1>1. TypeOK'
  BY DEF TypeOK, NoDirectory
<1>2. Arguments'
  BY DEF Arguments, NoDirectory, Idle
<1>3. Chosen' /\ CallsStand' /\ LoadedInOrder'
  BY SameChosen, SameCalls DEF NoDirectory
<1>4. TablesStand'
  BY SameFound DEF TablesStand, NoDirectory
<1>5. Stages'
  BY DEF Stages, NoDirectory
<1> QED
  BY <1>1, <1>2, <1>3, <1>4, <1>5

LEMMA ResolveKeeps ==
  ASSUME LaunchInv, Resolve
  PROVE  LaunchInv'
<1> USE DEF LaunchInv
<1>1. Orderly(order')
  BY OrdersAreOrderly DEF Resolve
<1>2. Orderly(order)'
  BY <1>1, SameOrderly DEF Resolve
<1>3. order' \in Seq(Entry)
  BY <1>1, FoundFinite DEF Orderly, Arranges
<1>4. Len(order') \in Nat
  BY <1>3
<1>5. TypeOK'
  BY <1>3, <1>4 DEF TypeOK, Resolve, Stages
<1>6. Arguments'
  BY DEF Arguments, Resolve, Idle
<1>7. Chosen'
  BY SameChosen DEF Resolve
<1>8. CallsStand' /\ LoadedInOrder' /\ TablesStand'
  BY <1>4 DEF Resolve, CallsStand, LoadedInOrder, TablesStand, Inits, PostInits, Stages
<1>9. Stages'
  BY <1>2, <1>4 DEF Stages, Resolve, Inits, PostInits
<1> QED
  BY <1>5, <1>6, <1>7, <1>8, <1>9

LEMMA StartupFailsKeeps ==
  ASSUME LaunchInv, StartupFails
  PROVE  LaunchInv'
<1> USE DEF LaunchInv
<1>1. TypeOK'
  BY DEF TypeOK, StartupFails
<1>2. Arguments'
  BY DEF Arguments, StartupFails, Idle
<1>3. Chosen' /\ CallsStand' /\ LoadedInOrder'
  BY SameChosen, SameCalls DEF StartupFails
<1>4. TablesStand'
  BY SameFound DEF TablesStand, StartupFails
<1>5. Stages'
  BY SameFound, SameOrder, SequenceFacts DEF Stages, StartupFails, Inits, PostInits
<1> QED
  BY <1>1, <1>2, <1>3, <1>4, <1>5

-----------------------------------------------------------------------------
(* The passes over the addons.                                             *)

LEMMA LoadKeeps ==
  ASSUME LaunchInv, Load
  PROVE  LaunchInv'
<1> USE DEF LaunchInv
<1> DEFINE e == order[Len(loaded) + 1]
<1>1. /\ phase = "loading" /\ posted = 0 /\ Len(calls) = Len(loaded) /\ Len(loaded) < Len(order)
      /\ Orderly(order) /\ \A k \in DOMAIN loaded : loaded[k] = order[k]
  BY DEF Load, Stages
<1>2. loaded \in Seq(Entry) /\ calls \in Seq({"init", "post_init", "quit"} \X Entry)
  BY DEF TypeOK
<1>3. e \in Found /\ e \in Entry
  BY <1>1, SequenceFacts, FoundFinite DEF Orderly, Arranges
<1>4. /\ loaded' = Append(loaded, e) /\ calls' = Append(calls, <<"init", e>>)
      /\ tables' = [id \in DOMAIN tables \cup {Addon[e].id} |->
                      IF id = Addon[e].id THEN e ELSE tables[id]]
      /\ UNCHANGED <<profile, asked, args, directory, phase, candidates, order, posted, leaving,
                     launches, edits>>
  BY DEF Load
<1> HIDE DEF e
<1>5. /\ loaded' \in Seq(Entry) /\ Len(loaded') = Len(loaded) + 1
      /\ DOMAIN loaded' = 1 .. Len(loaded) + 1
      /\ \A k \in DOMAIN loaded' : loaded'[k] = order[k]
  <2>1. \A k \in 1 .. Len(loaded) : loaded'[k] = loaded[k]
    BY <1>2, <1>3, <1>4
  <2>2. loaded'[Len(loaded) + 1] = e
    BY <1>2, <1>3, <1>4
  <2>3. loaded' \in Seq(Entry) /\ Len(loaded') = Len(loaded) + 1
    BY <1>2, <1>3, <1>4
  <2> QED
    BY <1>1, <2>1, <2>2, <2>3, SequenceFacts DEF e
<1>6. /\ calls' \in Seq({"init", "post_init", "quit"} \X Entry) /\ Len(calls') = Len(loaded) + 1
      /\ DOMAIN calls' = 1 .. Len(loaded) + 1
      /\ \A k \in DOMAIN calls' : calls'[k] = <<"init", order[k]>>
  <2>1. <<"init", e>> \in {"init", "post_init", "quit"} \X Entry
    BY <1>3
  <2>2. \A k \in 1 .. Len(calls) : calls'[k] = calls[k]
    BY <1>2, <1>4, <2>1
  <2>3. calls'[Len(calls) + 1] = <<"init", e>>
    BY <1>2, <1>4, <2>1
  <2>4. calls' \in Seq({"init", "post_init", "quit"} \X Entry) /\ Len(calls') = Len(calls) + 1
    BY <1>2, <1>4, <2>1
  <2>5. \A k \in DOMAIN calls : calls[k] = <<"init", order[k]>>
    BY <1>1, SequenceFacts DEF CallsStand
  <2> QED
    BY <1>1, <2>2, <2>3, <2>4, <2>5, SequenceFacts DEF e
<1>7. \A k \in 1 .. Len(loaded) + 1 : order[k] \in Found
  BY <1>1, SequenceFacts DEF Orderly, Arranges
<1>8. TypeOK'
  BY <1>3, <1>4, <1>5, <1>6 DEF TypeOK
<1>9. Arguments' /\ Chosen'
  BY <1>4, SameChosen DEF Arguments, Idle
<1>10. CallsStand'
  BY <1>1, <1>4, <1>6, <1>7, SequenceFacts, SameFound DEF CallsStand, Inits, PostInits
<1>11. LoadedInOrder'
  <2>1. \A k \in DOMAIN loaded' : k \in DOMAIN order
    BY <1>1, <1>5, SequenceFacts
  <2> QED
    BY <1>4, <1>5, <1>7, <2>1, SameFound DEF LoadedInOrder, Before
<1>12. TablesStand'
  <2>1. \A id \in DOMAIN tables' : tables'[id] \in Found /\ Addon[tables'[id]].id = id
    BY <1>3, <1>4 DEF TablesStand
  <2>2. \A k \in DOMAIN loaded' : Addon[loaded'[k]].id \in DOMAIN tables'
    <3>1. \A k \in DOMAIN loaded : Addon[order[k]].id \in DOMAIN tables
      BY <1>1 DEF TablesStand
    <3>2. \A k \in DOMAIN loaded' : k \in DOMAIN loaded \/ order[k] = e
      BY <1>5, SequenceFacts DEF e
    <3> QED
      BY <1>4, <1>5, <3>1, <3>2
  <2> QED
    BY <1>4, <2>1, <2>2, SameFound DEF TablesStand
<1>13. Stages'
  BY <1>1, <1>4, <1>5, <1>6, SequenceFacts, SameOrder DEF Stages, Inits, PostInits
<1> QED
  BY <1>8, <1>9, <1>10, <1>11, <1>12, <1>13

LEMMA AllLoadedKeeps ==
  ASSUME LaunchInv, AllLoaded
  PROVE  LaunchInv'
<1> USE DEF LaunchInv
<1>1. TypeOK'
  BY DEF TypeOK, AllLoaded
<1>2. Arguments'
  BY DEF Arguments, AllLoaded, Idle
<1>3. Chosen' /\ CallsStand' /\ LoadedInOrder'
  BY SameChosen, SameCalls DEF AllLoaded
<1>4. TablesStand'
  BY SameFound DEF TablesStand, AllLoaded
<1>5. loaded = order
  <2>1. \A k \in DOMAIN loaded : loaded[k] = order[k]
    BY DEF AllLoaded, Stages
  <2>2. loaded \in Seq(Entry) /\ order \in Seq(Entry) /\ Len(loaded) = Len(order)
    BY DEF AllLoaded, TypeOK
  <2> QED
    BY <2>1, <2>2
<1>6. Stages'
  BY <1>5, SameFound, SameOrder, SequenceFacts DEF Stages, AllLoaded, Inits, PostInits
<1> QED
  BY <1>1, <1>2, <1>3, <1>4, <1>6

LEMMA PostInitKeeps ==
  ASSUME LaunchInv, PostInit
  PROVE  LaunchInv'
<1> USE DEF LaunchInv
<1>1. /\ phase = "posting" /\ Len(calls) = Len(order) + posted /\ loaded = order /\ Orderly(order)
  BY SequenceFacts DEF PostInit, Stages
<1>2. /\ UNCHANGED <<profile, asked, args, directory, candidates, order, loaded, tables, leaving,
                     launches, edits>>
  BY DEF PostInit
<1>3. CASE posted < Len(order)
  <2> DEFINE e == tables[Addon[order[posted + 1]].id]
  <2>1. calls' = Append(calls, <<"post_init", e>>) /\ posted' = posted + 1 /\ phase' = phase
    BY <1>3 DEF PostInit
  <2>2. posted + 1 \in DOMAIN order
    BY <1>3, SequenceFacts
  <2>3. e \in Found /\ e \in Entry /\ Addon[e].id = Addon[order[posted + 1]].id
    BY <1>1, <2>2, FoundFinite DEF TablesStand
  <2>4. order[posted + 1] \in Found
    BY <1>1, <2>2 DEF Orderly, Arranges
  <2>5. IdsUnique => e = order[posted + 1]
    BY <2>3, <2>4 DEF IdsUnique
  <2> HIDE DEF e
  <2>6. /\ calls' \in Seq({"init", "post_init", "quit"} \X Entry) /\ Len(calls') = Len(calls) + 1
        /\ \A k \in DOMAIN calls : calls'[k] = calls[k]
        /\ calls'[Len(calls) + 1] = <<"post_init", e>>
    <3>1. calls \in Seq({"init", "post_init", "quit"} \X Entry)
      BY DEF TypeOK
    <3>2. <<"post_init", e>> \in {"init", "post_init", "quit"} \X Entry
      BY <2>3
    <3> QED
      BY <2>1, <3>1, <3>2
  <2>7. TypeOK'
    BY <1>2, <1>3, <2>1, <2>6, SequenceFacts DEF TypeOK
  <2>8. Arguments' /\ Chosen'
    BY <1>2, <2>1, SameChosen DEF Arguments, Idle
  <2>9. \A k \in DOMAIN calls' : k \in DOMAIN calls \/ k = Len(calls) + 1
    BY <2>6, SequenceFacts
  <2>10. CallsStand'
    <3>1. \A k \in DOMAIN calls : k <= Len(order) + posted
      BY <1>1, SequenceFacts
    <3>2. \A k \in DOMAIN calls' : calls'[k][2] \in Found
      BY <2>3, <2>6, <2>9 DEF CallsStand
    <3>3. \A k \in DOMAIN calls' : k <= Inits' => calls'[k] = <<"init", order[k]>>
      BY <1>1, <1>2, <2>6, <2>9, SequenceFacts DEF CallsStand, Inits
    <3>4. \A k \in DOMAIN calls' : Inits' < k /\ k <= PostInits' =>
            calls'[k][1] = "post_init" /\ (IdsUnique => calls'[k][2] = order[k - Inits'])
      <4> SUFFICES ASSUME NEW k \in DOMAIN calls', Inits' < k, k <= PostInits'
                   PROVE  calls'[k][1] = "post_init" /\ (IdsUnique => calls'[k][2] = order[k - Inits'])
        OBVIOUS
      <4>1. Inits' = Len(order)
        BY <1>2 DEF Inits
      <4>2. CASE k \in DOMAIN calls
        BY <1>1, <2>6, <3>1, <4>1, <4>2, SequenceFacts DEF CallsStand
      <4>3. CASE k = Len(calls) + 1
        BY <1>1, <2>5, <2>6, <4>1, <4>3, SequenceFacts
      <4> QED
        BY <2>9, <4>2, <4>3
    <3>5. Len(calls') = PostInits'
      BY <1>1, <1>2, <2>1, <2>6, SequenceFacts DEF PostInits, Inits
    <3>6. \A k \in DOMAIN calls' : k <= PostInits'
      BY <2>6, <3>5, SequenceFacts
    <3>7. PostInits' \in Nat
      BY <2>6, <3>5, SequenceFacts
    <3> QED
      BY <1>2, <3>2, <3>3, <3>4, <3>5, <3>6, <3>7, SameFound, SequenceFacts DEF CallsStand
  <2>11. LoadedInOrder' /\ TablesStand'
    BY <1>2, <2>1, SameFound DEF LoadedInOrder, TablesStand
  <2>12. Stages'
    BY <1>1, <1>2, <2>1, <2>6, SequenceFacts, SameFound, SameOrder DEF Stages, Inits, PostInits
  <2> QED
    BY <2>7, <2>8, <2>10, <2>11, <2>12
<1>4. CASE ~(posted < Len(order))
  <2>1. phase' = "running" /\ UNCHANGED <<calls, posted>>
    BY <1>4 DEF PostInit
  <2>2. posted = Len(order)
    BY <1>4, SequenceFacts
  <2>3. TypeOK'
    BY <1>2, <2>1 DEF TypeOK
  <2>4. Arguments'
    BY <1>1, <1>2, <2>1 DEF Arguments, Idle
  <2>5. Chosen' /\ CallsStand' /\ LoadedInOrder'
    BY <1>2, <2>1, SameChosen, SameCalls
  <2>6. TablesStand'
    BY <1>1, <1>2, <2>1, SameFound DEF TablesStand
  <2>7. Stages'
    BY <1>1, <1>2, <2>1, <2>2, SequenceFacts, SameFound, SameOrder DEF Stages, Inits, PostInits
  <2> QED
    BY <2>3, <2>4, <2>5, <2>6, <2>7
<1> QED
  BY <1>3, <1>4

LEMMA RemoveFacts ==
  ASSUME NEW S, NEW s \in Seq(S), NEW k \in DOMAIN s
  PROVE  /\ RemoveAt(s, k) \in Seq(S) /\ Len(RemoveAt(s, k)) = Len(s) - 1
         /\ DOMAIN RemoveAt(s, k) = 1 .. Len(s) - 1
         /\ \A j \in 1 .. Len(s) - 1 : RemoveAt(s, k)[j] = s[IF j < k THEN j ELSE j + 1]
<1> DEFINE before == SubSeq(s, 1, k - 1)
           after == SubSeq(s, k + 1, Len(s))
<1>1. k \in 1 .. Len(s) /\ Len(s) \in Nat
  OBVIOUS
<1>2. /\ before \in Seq(S) /\ Len(before) = k - 1
      /\ \A j \in 1 .. k - 1 : before[j] = s[j]
  BY <1>1
<1>3. /\ after \in Seq(S) /\ Len(after) = Len(s) - k
      /\ \A j \in 1 .. Len(s) - k : after[j] = s[k + j]
  BY <1>1
<1> HIDE DEF before, after
<1>4. RemoveAt(s, k) = before \o after
  BY DEF RemoveAt, before, after
<1>5. /\ before \o after \in Seq(S) /\ Len(before \o after) = Len(before) + Len(after)
      /\ \A j \in 1 .. Len(before) + Len(after) :
           (before \o after)[j] = IF j <= Len(before) THEN before[j] ELSE after[j - Len(before)]
  BY <1>2, <1>3, ConcatProperties
<1>6. RemoveAt(s, k) \in Seq(S) /\ Len(RemoveAt(s, k)) = Len(s) - 1
  BY <1>1, <1>2, <1>3, <1>4, <1>5
<1>7. ASSUME NEW j \in 1 .. Len(s) - 1
      PROVE  RemoveAt(s, k)[j] = s[IF j < k THEN j ELSE j + 1]
  <2>1. CASE j < k
    BY <1>1, <1>2, <1>4, <1>5, <2>1
  <2>2. CASE ~(j < k)
    <3>1. (before \o after)[j] = after[j - (k - 1)]
      <4>1. Len(before) = k - 1 /\ Len(before) + Len(after) = Len(s) - 1
        BY <1>1, <1>2, <1>3
      <4>2. j \in 1 .. Len(before) + Len(after) /\ ~(j <= Len(before))
        BY <1>1, <2>2, <4>1
      <4> QED
        BY <1>5, <4>1, <4>2
    <3>2. j - (k - 1) \in 1 .. Len(s) - k /\ k + (j - (k - 1)) = j + 1
      BY <1>1, <2>2
    <3>3. after[j - (k - 1)] = s[j + 1]
      BY <1>3, <3>2
    <3> QED
      BY <1>4, <2>2, <3>1, <3>3
  <2> QED
    BY <2>1, <2>2
<1> QED
  BY <1>6, <1>7

LEMMA UnloadKeeps ==
  ASSUME LaunchInv, NEW id \in Id, Unload(id)
  PROVE  LaunchInv'
<1> USE DEF LaunchInv
<1>1. PICK k \in DOMAIN loaded :
        /\ Addon[loaded[k]].id = id
        /\ loaded' = RemoveAt(loaded, k)
  BY DEF Unload
<1>2. /\ phase = "running" /\ posted = Len(order) /\ Len(calls) = Len(order) + posted
      /\ Orderly(order)
  BY SequenceFacts DEF Unload, Stages
<1>3. /\ tables' = [other \in DOMAIN tables \ {id} |-> tables[other]]
      /\ UNCHANGED <<profile, asked, args, directory, phase, candidates, order, calls, posted,
                     leaving, launches, edits>>
  BY DEF Unload
<1>4. loaded \in Seq(Entry) /\ k \in 1 .. Len(loaded) /\ Len(loaded) \in Nat
  BY DEF TypeOK
<1>5. /\ loaded' \in Seq(Entry) /\ DOMAIN loaded' = 1 .. Len(loaded) - 1
      /\ \A j \in DOMAIN loaded' : loaded'[j] = loaded[IF j < k THEN j ELSE j + 1]
  BY <1>1, <1>4, RemoveFacts
<1> DEFINE From(j) == IF j < k THEN j ELSE j + 1
<1>6. /\ \A j \in DOMAIN loaded' : From(j) \in DOMAIN loaded /\ From(j) # k
      /\ \A i, j \in DOMAIN loaded' : i < j => From(i) < From(j)
  <2>1. \A j \in DOMAIN loaded' : j \in Int /\ 1 <= j /\ j <= Len(loaded) - 1
    BY <1>4, <1>5
  <2>2. \A j \in DOMAIN loaded' : From(j) \in 1 .. Len(loaded) /\ From(j) # k
    BY <1>4, <2>1
  <2>3. \A i, j \in DOMAIN loaded' : i < j => From(i) < From(j)
    BY <1>4, <2>1
  <2> QED
    BY <2>2, <2>3, SequenceFacts
<1>7. \A j \in DOMAIN loaded' : loaded'[j] = loaded[From(j)]
  BY <1>5
<1> HIDE DEF From
<1>8. TypeOK'
  BY <1>3, <1>5 DEF TypeOK
<1>9. Arguments' /\ Chosen'
  BY <1>3, SameChosen DEF Arguments, Idle
<1>10. CallsStand'
  BY <1>2, <1>3, SequenceFacts, SameFound DEF CallsStand, Inits, PostInits
<1>11. LoadedInOrder'
  BY <1>3, <1>6, <1>7, SameFound DEF LoadedInOrder, Before
<1>12. TablesStand'
  <2>1. \A other \in DOMAIN tables' : tables'[other] \in Found /\ Addon[tables'[other]].id = other
    BY <1>3 DEF TablesStand
  <2>2. ASSUME IdsUnique, NEW j \in DOMAIN loaded'
        PROVE  Addon[loaded'[j]].id \in DOMAIN tables'
    <3>1. From(j) \in DOMAIN loaded /\ From(j) # k /\ loaded'[j] = loaded[From(j)]
      BY <1>6, <1>7
    <3>2. loaded[From(j)] \in Found /\ loaded[k] \in Found
      BY <3>1 DEF LoadedInOrder
    <3>3. Before(order, loaded[From(j)], loaded[k]) \/ Before(order, loaded[k], loaded[From(j)])
      BY <1>4, <3>1, SequenceFacts DEF LoadedInOrder
    <3>4. loaded[From(j)] # loaded[k]
      BY <1>2, <3>3, SequenceFacts DEF Before, Orderly, Arranges, OnceEach
    <3>5. Addon[loaded[From(j)]].id # id
      BY <1>1, <2>2, <3>2, <3>4 DEF IdsUnique
    <3>6. Addon[loaded[From(j)]].id \in DOMAIN tables
      BY <2>2, <3>1 DEF TablesStand
    <3> QED
      BY <1>3, <3>1, <3>5, <3>6
  <2> QED
    BY <1>2, <1>3, <2>1, <2>2, SameFound DEF TablesStand
<1>13. Stages'
  BY <1>2, <1>3, SequenceFacts, SameFound, SameOrder DEF Stages, Inits, PostInits
<1> QED
  BY <1>8, <1>9, <1>10, <1>11, <1>12, <1>13

LEMMA ShutdownKeeps ==
  ASSUME LaunchInv, Shutdown
  PROVE  LaunchInv'
<1> USE DEF LaunchInv
<1>1. loaded \in Seq(Entry) /\ Len(loaded) \in Nat
  BY DEF TypeOK
<1>2. /\ leaving' \in Seq(Entry) /\ Len(leaving') = Len(loaded) /\ DOMAIN leaving' = 1 .. Len(loaded)
      /\ \A k \in DOMAIN leaving' : leaving'[k] = loaded[Len(loaded) + 1 - k]
  <2>1. leaving' = [i \in 1 .. Len(loaded) |-> loaded[(Len(loaded) - i) + 1]]
    BY DEF Shutdown, Reverse
  <2>2. \A i \in 1 .. Len(loaded) : (Len(loaded) - i) + 1 = Len(loaded) + 1 - i
          /\ loaded[(Len(loaded) - i) + 1] \in Entry
    BY <1>1
  <2> QED
    BY <1>1, <2>1, <2>2
<1>3. TypeOK'
  BY <1>2 DEF TypeOK, Shutdown
<1>4. Arguments'
  BY DEF Arguments, Shutdown, Idle
<1>5. Chosen' /\ CallsStand' /\ LoadedInOrder'
  BY SameChosen, SameCalls DEF Shutdown
<1>6. TablesStand'
  BY SameFound DEF TablesStand, Shutdown
<1>7. Stages'
  BY <1>1, <1>2, SequenceFacts, SameFound, SameOrder DEF Stages, Shutdown, Inits, PostInits
<1> QED
  BY <1>3, <1>4, <1>5, <1>6, <1>7

LEMMA QuitKeeps ==
  ASSUME LaunchInv, Quit
  PROVE  LaunchInv'
<1> USE DEF LaunchInv
<1>1. /\ phase = "quitting" /\ posted = Len(order) /\ Len(order) + posted <= Len(calls)
      /\ Orderly(order)
  BY SequenceFacts DEF Quit, Stages
<1>2. UNCHANGED <<profile, asked, args, directory, candidates, order, loaded, tables, posted,
                  launches, edits>>
  BY DEF Quit
<1>3. IdsUnique =>
        /\ Len(leaving) <= Len(loaded)
        /\ Len(calls) = Len(order) + posted + Len(loaded) - Len(leaving)
        /\ \A k \in DOMAIN leaving : leaving[k] = loaded[Len(leaving) + 1 - k]
  BY <1>1, SequenceFacts DEF Stages
<1>4. CASE leaving = << >>
  <2>1. phase' = "ended" /\ UNCHANGED <<calls, leaving>>
    BY <1>4 DEF Quit
  <2>2. TypeOK'
    BY <1>2, <2>1 DEF TypeOK
  <2>3. Arguments'
    BY <1>1, <1>2, <2>1 DEF Arguments, Idle
  <2>4. Chosen' /\ CallsStand' /\ LoadedInOrder'
    BY <1>2, <2>1, SameChosen, SameCalls
  <2>5. TablesStand'
    BY <1>1, <1>2, <2>1, SameFound DEF TablesStand
  <2>6. IdsUnique => Len(calls) = Len(order) + posted + Len(loaded)
    <3>1. Len(leaving) = 0
      BY <1>4
    <3> QED
      BY <1>3, <3>1, SequenceFacts
  <2>7. order # << >> => Orderly(order)'
    BY <1>1, <1>2, SameOrder
  <2>8. Stages'
    <3>1. IdsUnique' => posted' = Inits' /\ Len(calls') = PostInits' + Len(loaded')
      BY <1>1, <1>2, <2>1, <2>6, SequenceFacts, SameFound DEF Inits, PostInits
    <3> QED
      BY <1>2, <2>1, <2>7, <3>1 DEF Stages
  <2> QED
    BY <2>2, <2>3, <2>4, <2>5, <2>8
<1>5. CASE leaving # << >>
  <2> DEFINE id == Addon[Head(leaving)].id
  <2>1. leaving \in Seq(Entry) /\ Len(leaving) \in Nat /\ Len(leaving) > 0
        /\ DOMAIN leaving = 1 .. Len(leaving) /\ Head(leaving) = leaving[1]
    BY <1>5 DEF TypeOK
  <2>2. IdsUnique => /\ Head(leaving) = loaded[Len(leaving)]
                     /\ Len(leaving) \in DOMAIN loaded /\ Head(leaving) \in Found
                     /\ id \in DOMAIN tables /\ tables[id] = Head(leaving)
    <3> SUFFICES ASSUME IdsUnique
                 PROVE  /\ Head(leaving) = loaded[Len(leaving)]
                        /\ Len(leaving) \in DOMAIN loaded /\ Head(leaving) \in Found
                        /\ id \in DOMAIN tables /\ tables[id] = Head(leaving)
      OBVIOUS
    <3>1. Head(leaving) = loaded[Len(leaving)] /\ Len(leaving) \in DOMAIN loaded
      BY <1>3, <2>1, SequenceFacts
    <3>2. Head(leaving) \in Found /\ id \in DOMAIN tables
      BY <3>1 DEF LoadedInOrder, TablesStand
    <3>3. tables[id] \in Found /\ Addon[tables[id]].id = id
      BY <3>2 DEF TablesStand
    <3> QED
      BY <3>1, <3>2, <3>3 DEF IdsUnique
  <2>3. CASE id \in DOMAIN tables
    <3> DEFINE e == tables[id]
    <3>1. calls' = Append(calls, <<"quit", e>>) /\ leaving' = Tail(leaving) /\ phase' = phase
      BY <1>5, <2>3 DEF Quit
    <3>2. e \in Found /\ e \in Entry
      BY <2>3, FoundFinite DEF TablesStand
    <3>3. IdsUnique => e = loaded[Len(leaving)]
      BY <2>2
    <3> HIDE DEF e
    <3>4. /\ calls' \in Seq({"init", "post_init", "quit"} \X Entry) /\ Len(calls') = Len(calls) + 1
          /\ \A k \in DOMAIN calls : calls'[k] = calls[k]
          /\ calls'[Len(calls) + 1] = <<"quit", e>>
      <4>1. calls \in Seq({"init", "post_init", "quit"} \X Entry)
        BY DEF TypeOK
      <4>2. <<"quit", e>> \in {"init", "post_init", "quit"} \X Entry
        BY <3>2
      <4> QED
        BY <3>1, <4>1, <4>2
    <3>5. /\ leaving' \in Seq(Entry) /\ Len(leaving') = Len(leaving) - 1
          /\ DOMAIN leaving' = 1 .. Len(leaving) - 1
          /\ \A k \in DOMAIN leaving' : leaving'[k] = leaving[k + 1]
      BY <2>1, <3>1
    <3>6. TypeOK'
      BY <1>2, <3>1, <3>4, <3>5 DEF TypeOK
    <3>7. Arguments' /\ Chosen'
      BY <1>2, <3>1, SameChosen DEF Arguments, Idle
    <3>8. \A k \in DOMAIN calls' : k \in DOMAIN calls \/ k = Len(calls) + 1
      BY <3>4, SequenceFacts
    <3>9. CallsStand'
      <4>1. Inits' = Len(order) /\ PostInits' = Len(order) + posted
        BY <1>2 DEF Inits, PostInits
      <4>2. \A k \in DOMAIN calls' : calls'[k][2] \in Found
        BY <3>2, <3>4, <3>8 DEF CallsStand
      <4>3. \A k \in DOMAIN calls' : k <= Len(order) + posted => k \in DOMAIN calls /\ calls'[k] = calls[k]
        BY <1>1, <3>4, <3>8, SequenceFacts
      <4>4. \A k \in DOMAIN calls' : k <= Len(order) => calls'[k] = <<"init", order[k]>>
        BY <4>3, <3>4, SequenceFacts DEF CallsStand
      <4>5. \A k \in DOMAIN calls' : Len(order) < k /\ k <= Len(order) + posted =>
              calls'[k][1] = "post_init" /\ (IdsUnique => calls'[k][2] = order[k - Len(order)])
        BY <4>3, <3>4, SequenceFacts DEF CallsStand
      <4>6. ASSUME NEW k \in DOMAIN calls', Len(order) + posted < k
            PROVE  calls'[k][1] = "quit"
                     /\ (IdsUnique => /\ k - (Len(order) + posted) <= Len(loaded)
                                      /\ calls'[k][2] = loaded[Len(loaded) + 1 - (k - (Len(order) + posted))])
        <5>1. CASE k \in DOMAIN calls
          BY <3>4, <4>6, <5>1, SequenceFacts DEF CallsStand
        <5>2. CASE k = Len(calls) + 1
          <6>1. calls'[k][1] = "quit" /\ calls'[k][2] = e
            BY <3>4, <5>2
          <6>2. IdsUnique => /\ k - (Len(order) + posted) <= Len(loaded)
                             /\ Len(loaded) + 1 - (k - (Len(order) + posted)) = Len(leaving)
            BY <1>3, <2>1, <5>2, SequenceFacts
          <6> QED
            BY <3>3, <6>1, <6>2
        <5> QED
          BY <3>8, <5>1, <5>2
      <4>7. Len(order) + posted <= Len(calls')
        BY <1>1, <3>4, SequenceFacts
      <4> QED
        BY <1>1, <1>2, <4>1, <4>2, <4>4, <4>5, <4>6, <4>7, SameFound DEF CallsStand
    <3>10. LoadedInOrder' /\ TablesStand'
      BY <1>2, <3>1, SameFound DEF LoadedInOrder, TablesStand
    <3>11. IdsUnique =>
             /\ Len(leaving') <= Len(loaded)
             /\ Len(calls') = Len(order) + posted + Len(loaded) - Len(leaving')
             /\ \A k \in DOMAIN leaving' : leaving'[k] = loaded[Len(leaving') + 1 - k]
      <4> SUFFICES ASSUME IdsUnique
                   PROVE  /\ Len(leaving') <= Len(loaded)
                          /\ Len(calls') = Len(order) + posted + Len(loaded) - Len(leaving')
                          /\ \A k \in DOMAIN leaving' : leaving'[k] = loaded[Len(leaving') + 1 - k]
        OBVIOUS
      <4>1. Len(leaving') <= Len(loaded)
            /\ Len(calls') = Len(order) + posted + Len(loaded) - Len(leaving')
        BY <1>3, <2>1, <3>4, <3>5, SequenceFacts
      <4>2. ASSUME NEW k \in DOMAIN leaving'
            PROVE  leaving'[k] = loaded[Len(leaving') + 1 - k]
        <5>1. k + 1 \in DOMAIN leaving /\ Len(leaving) + 1 - (k + 1) = Len(leaving') + 1 - k
          BY <2>1, <3>5
        <5>2. leaving[k + 1] = loaded[Len(leaving) + 1 - (k + 1)]
          BY <1>3, <5>1
        <5> QED
          BY <3>5, <5>1, <5>2
      <4> QED
        BY <4>1, <4>2
    <3>12. Len(order) + posted <= Len(calls')
      BY <1>1, <3>4, SequenceFacts
    <3>13. Orderly(order)'
      BY <1>1, <1>2, SameOrder
    <3>14. Inits' = Len(order) /\ PostInits' = Len(order) + posted
      BY <1>2 DEF Inits, PostInits
    <3>15. Stages'
      <4>1. phase' = "quitting"
        BY <1>1, <3>1
      <4>2. PostInits' <= Len(calls') /\ posted' = Inits'
        BY <1>1, <1>2, <3>12, <3>14
      <4>3. IdsUnique' =>
              /\ Len(leaving') <= Len(loaded')
              /\ Len(calls') = PostInits' + Len(loaded') - Len(leaving')
              /\ \A k \in DOMAIN leaving' : leaving'[k] = loaded'[Len(leaving') + 1 - k]
        BY <1>2, <3>11, <3>14, SameFound
      <4> QED
        BY <3>13, <4>1, <4>2, <4>3 DEF Stages
    <3> QED
      BY <3>6, <3>7, <3>9, <3>10, <3>15
  <2>4. CASE id \notin DOMAIN tables
    <3>1. phase' = "failed" /\ UNCHANGED <<calls, leaving>> /\ ~IdsUnique
      BY <1>5, <2>2, <2>4 DEF Quit
    <3>2. TypeOK'
      BY <1>2, <3>1 DEF TypeOK
    <3>3. Arguments'
      BY <1>1, <1>2, <3>1 DEF Arguments, Idle
    <3>4. Chosen' /\ CallsStand' /\ LoadedInOrder'
      BY <1>2, <3>1, SameChosen, SameCalls
    <3>5. TablesStand'
      BY <1>1, <1>2, <3>1, SameFound DEF TablesStand
    <3>6. Stages'
      BY <1>1, <1>2, <3>1, SameFound, SameOrder DEF Stages
    <3> QED
      BY <3>2, <3>3, <3>4, <3>5, <3>6
  <2> QED
    BY <2>3, <2>4
<1> QED
  BY <1>4, <1>5

LEMMA NextKeeps == LaunchInv /\ [Next]_vars => LaunchInv'
<1> SUFFICES ASSUME LaunchInv, [Next]_vars
             PROVE  LaunchInv'
  OBVIOUS
<1>1. CASE \E p \in Profiles \cup {None} : EditProfile(p)
  BY <1>1, EditProfileKeeps
<1>2. CASE \E o \in Launches, d \in Directories : Launch(o, d)
  BY <1>2, LaunchKeeps
<1>3. CASE Discover
  BY <1>3, DiscoverKeeps
<1>4. CASE NoDirectory
  BY <1>4, NoDirectoryKeeps
<1>5. CASE Resolve
  BY <1>5, ResolveKeeps
<1>6. CASE StartupFails
  BY <1>6, StartupFailsKeeps
<1>7. CASE Load
  BY <1>7, LoadKeeps
<1>8. CASE AllLoaded
  BY <1>8, AllLoadedKeeps
<1>9. CASE PostInit
  BY <1>9, PostInitKeeps
<1>10. CASE \E id \in Id : Unload(id)
  BY <1>10, UnloadKeeps
<1>11. CASE Shutdown
  BY <1>11, ShutdownKeeps
<1>12. CASE Quit
  BY <1>12, QuitKeeps
<1>13. CASE UNCHANGED vars
  <2> USE <1>13 DEF vars, LaunchInv
  <2>1. TypeOK' /\ Arguments'
    BY DEF TypeOK, Arguments, Idle
  <2>2. Chosen' /\ CallsStand' /\ LoadedInOrder'
    BY SameChosen, SameCalls
  <2>3. TablesStand'
    BY SameFound DEF TablesStand
  <2>4. Stages'
    BY SameFound, SameOrder DEF Stages, Inits, PostInits
  <2> QED
    BY <2>1, <2>2, <2>3, <2>4
<1> QED
  BY <1>1, <1>2, <1>3, <1>4, <1>5, <1>6, <1>7, <1>8, <1>9, <1>10, <1>11, <1>12, <1>13 DEF Next

(* Where each callback stands, whatever was loaded, unloaded or failed.    *)
THEOREM LaunchInvariant == Spec => []LaunchInv
BY InitKeeps, NextKeeps, PTL DEF Spec

-----------------------------------------------------------------------------
(* What the places say about who was called when.                          *)

LEMMA InitCalls ==
  ASSUME LaunchInv, NEW k \in DOMAIN calls, calls[k][1] = "init"
  PROVE  k \in DOMAIN order /\ calls[k] = <<"init", order[k]>>
<1> USE DEF LaunchInv
<1>1. k \in 1 .. Len(calls) /\ k \in Nat
  BY SequenceFacts
<1>2. k <= Len(order)
  BY <1>1, SequenceFacts DEF CallsStand
<1> QED
  BY <1>1, <1>2, SequenceFacts DEF CallsStand

LEMMA PostInitCalls ==
  ASSUME LaunchInv, NEW k \in DOMAIN calls, calls[k][1] = "post_init"
  PROVE  /\ k \in Nat /\ Len(order) < k /\ k <= Len(order) + posted /\ k - Len(order) \in DOMAIN order
         /\ IdsUnique => calls[k][2] = order[k - Len(order)]
<1> USE DEF LaunchInv
<1>1. k \in Nat
  BY SequenceFacts
<1>2. Len(order) < k
  BY <1>1, SequenceFacts DEF CallsStand
<1>3. k <= Len(order) + posted
  BY <1>1, SequenceFacts DEF CallsStand
<1> QED
  BY <1>1, <1>2, <1>3, SequenceFacts DEF CallsStand

LEMMA QuitCalls ==
  ASSUME LaunchInv, IdsUnique, NEW k \in DOMAIN calls, calls[k][1] = "quit"
  PROVE  /\ k \in Nat /\ PostInits < k /\ k - PostInits <= Len(loaded)
         /\ Len(loaded) + 1 - (k - PostInits) \in DOMAIN loaded
         /\ calls[k][2] = loaded[Len(loaded) + 1 - (k - PostInits)]
<1> USE DEF LaunchInv
<1>1. k \in Nat
  BY SequenceFacts
<1>2. PostInits < k
  BY <1>1, SequenceFacts DEF CallsStand
<1>3. k - PostInits <= Len(loaded) /\ calls[k][2] = loaded[Len(loaded) + 1 - (k - PostInits)]
  BY <1>2 DEF CallsStand
<1> QED
  BY <1>1, <1>2, <1>3, SequenceFacts

(* A call is the pair it is read as.                                       *)
LEMMA CallIsPair ==
  ASSUME LaunchInv, NEW k \in DOMAIN calls
  PROVE  calls[k] = <<calls[k][1], calls[k][2]>> /\ calls[k][1] \in {"init", "post_init", "quit"}
<1>1. calls \in Seq({"init", "post_init", "quit"} \X Entry)
  BY DEF LaunchInv, TypeOK
<1> QED
  BY <1>1

LEMMA CalledAt ==
  ASSUME NEW callback, NEW e
  PROVE  Called(callback, e) <=> \E k \in DOMAIN calls : calls[k] = <<callback, e>>
BY DEF Called, ToSet

LEMMA OrderHolds ==
  ASSUME LaunchInv, NEW k \in DOMAIN order
  PROVE  Orderly(order)
<1>1. order # << >>
  BY SequenceFacts DEF LaunchInv
<1> QED
  BY <1>1 DEF LaunchInv, Stages

LEMMA InitsInOrder ==
  ASSUME LaunchInv, NEW e, NEW f, Before(calls, <<"init", e>>, <<"init", f>>)
  PROVE  Before(order, e, f) /\ Orderly(order)
<1>1. PICK j \in DOMAIN calls, k \in DOMAIN calls :
        j < k /\ calls[j] = <<"init", e>> /\ calls[k] = <<"init", f>>
  BY DEF Before
<1>2. j \in DOMAIN order /\ order[j] = e /\ k \in DOMAIN order /\ order[k] = f
  BY <1>1, InitCalls
<1> QED
  BY <1>1, <1>2, OrderHolds DEF Before

-----------------------------------------------------------------------------
(* Every variable has its type.                                            *)
THEOREM TypeCorrect == Spec => []TypeOK
<1>1. LaunchInv => TypeOK
  BY DEF LaunchInv
<1> QED
  BY <1>1, LaunchInvariant, PTL

(* Exactly what was found is initialised, each once, and nothing runs that *)
(* the command line or the profile leaves out: for every directory, order  *)
(* and profile (run_cli, discovery, resolve_explicit_load_order).          *)
THEOREM AskedForIsLoaded == Spec => []AskedForAreLoaded
<1>1. ASSUME LaunchInv
      PROVE  EachLoadedOnce
  <2> SUFFICES ASSUME phase \in {"posting", "running", "quitting"}, NEW e \in Found
               PROVE  \E k \in DOMAIN calls :
                        \A j \in DOMAIN calls : calls[j] = <<"init", e>> <=> j = k
    BY DEF EachLoadedOnce
  <2>1. Orderly(order)
    BY <1>1 DEF LaunchInv, Stages
  <2>2. PostInits <= Len(calls)
    <3>1. PostInits = Len(calls) \/ PostInits <= Len(calls)
      BY <1>1 DEF LaunchInv, Stages
    <3>2. PostInits \in Nat
      BY <1>1, SequenceFacts DEF LaunchInv
    <3> QED
      BY <3>1, <3>2
  <2>3. PICK k \in DOMAIN order : order[k] = e
    BY <2>1 DEF Orderly, Arranges
  <2>4. k \in DOMAIN calls /\ calls[k] = <<"init", e>>
    BY <1>1, <2>2, <2>3, SequenceFacts DEF LaunchInv, CallsStand
  <2>5. ASSUME NEW j \in DOMAIN calls, calls[j] = <<"init", e>>
        PROVE  j = k
    <3>1. j \in DOMAIN order /\ order[j] = e
      BY <1>1, <2>5, InitCalls
    <3> QED
      BY <2>1, <2>3, <3>1 DEF Orderly, Arranges, OnceEach
  <2> QED
    BY <2>4, <2>5
<1>2. ASSUME LaunchInv
      PROVE  FiltersHold
  <2> USE <1>2 DEF LaunchInv
  <2> SUFFICES ASSUME ~Idle, NEW k \in DOMAIN calls
               PROVE  LET id == Addon[calls[k][2]].id
                          used == IF asked.profile THEN profile ELSE None
                      IN /\ id \notin asked.disable /\ (used # None => id \notin used.disabled)
                         /\ asked.safe => id \in {"core", "runtime"}
                         /\ used # None \/ asked.addon # None =>
                              id \in Given(asked.addon) \cup IF used # None THEN used.enabled ELSE {}
    BY DEF FiltersHold
  <2>1. args = Merged(asked, profile) /\ asked \in Options /\ profile \in {None} \cup ProfileFile
    BY DEF Arguments, TypeOK
  <2>2. Selected(calls[k][2])
    BY DEF CallsStand, Chosen
  <2>3. CASE asked.profile /\ profile # None
    <3>1. /\ args.disable = asked.disable \cup profile.disabled /\ args.safe = asked.safe
          /\ args.addon = Given(asked.addon) \cup profile.enabled
      BY <2>1, <2>3 DEF Merged, Options, ProfileFile
    <3>2. args.addon # None => Addon[calls[k][2]].id \in args.addon
      BY <2>2 DEF Selected
    <3>3. args.addon # None
      <4>1. Given(asked.addon) \cup profile.enabled \in SUBSET Name
        BY <2>1, <2>3 DEF Given, Options, ProfileFile
      <4> QED
        BY <3>1, <4>1, LaunchAssumption, Zenon
    <3> QED
      BY <2>1, <2>2, <2>3, <3>1, <3>2, <3>3 DEF Selected
  <2>4. CASE ~(asked.profile /\ profile # None)
    <3>1. args = asked
      BY <2>1, <2>4 DEF Merged
    <3> QED
      BY <2>2, <2>4, <3>1 DEF Selected, Given
  <2> QED
    BY <2>3, <2>4
<1>3. LaunchInv => AskedForAreLoaded
  BY <1>1, <1>2 DEF AskedForAreLoaded
<1> QED
  BY <1>3, LaunchInvariant, PTL

(* Dependencies are initialised first unless the launch says otherwise,    *)
(* and a given order is kept, for every set of manifests without an id     *)
(* twice (resolve_load_order, resolve_explicit_load_order).                *)
THEOREM OrderIsRespected == Spec => []OrderRespected
<1>1. ASSUME LaunchInv
      PROVE  PlainDependenciesFirst
  <2> SUFFICES ASSUME Unordered, ~asked.profile, IdsUnique,
                      NEW e \in Found, NEW d \in Addon[e].deps, NEW f \in Named(d.id),
                      Addon[f].version \in d.accepts, Called("init", e)
               PROVE  Before(calls, <<"init", f>>, <<"init", e>>)
    BY DEF PlainDependenciesFirst, DependenciesInOrder
  <2>1. PICK k \in DOMAIN calls : calls[k] = <<"init", e>>
    BY CalledAt
  <2>2. k \in DOMAIN order /\ order[k] = e
    BY <1>1, <2>1, InitCalls
  <2>3. Orderly(order)
    BY <1>1, <2>2, OrderHolds
  <2>4. Before(order, f, e)
    BY <2>3 DEF Orderly, DependenciesLead
  <2>5. PICK i \in DOMAIN order, j \in DOMAIN order : i < j /\ order[i] = f /\ order[j] = e
    BY <2>4 DEF Before
  <2>6. j = k
    BY <2>2, <2>3, <2>5 DEF Orderly, Arranges, OnceEach
  <2>7. i \in DOMAIN calls /\ calls[i] = <<"init", f>>
    BY <1>1, <2>1, <2>5, <2>6, SequenceFacts DEF LaunchInv, CallsStand
  <2> QED
    BY <2>1, <2>5, <2>6, <2>7 DEF Before
<1>2. ASSUME LaunchInv
      PROVE  OrderKept
  <2> SUFFICES ASSUME ~asked.profile, IdsUnique, LoadOrderAsked # None,
                      NEW e \in Found, NEW f \in Found,
                      Before(calls, <<"init", e>>, <<"init", f>>),
                      \E k \in DOMAIN LoadOrderAsked : Names(k, f)
               PROVE  \E m \in DOMAIN LoadOrderAsked : Names(m, e) /\ \A n \in 1 .. m : ~Names(n, f)
    BY DEF OrderKept, Names
  <2> QED
    BY <1>2, InitsInOrder DEF Orderly, MentionedLead
<1>3. LaunchInv => OrderRespected
  BY <1>1, <1>2 DEF OrderRespected
<1> QED
  BY <1>3, LaunchInvariant, PTL

-----------------------------------------------------------------------------
LEMMA EachCallOnce ==
  ASSUME LaunchInv, IdsUnique, NEW j \in DOMAIN calls, NEW k \in DOMAIN calls,
         calls[j] = calls[k]
  PROVE  j = k
<1> USE DEF LaunchInv
<1>1. calls[j][1] = calls[k][1] /\ calls[j][2] = calls[k][2]
  OBVIOUS
<1>2. CASE calls[k][1] = "init"
  <2>1. j \in DOMAIN order /\ k \in DOMAIN order /\ order[j] = order[k]
    BY <1>1, <1>2, InitCalls
  <2> QED
    BY <2>1, OrderHolds DEF Orderly, Arranges, OnceEach
<1>3. CASE calls[k][1] = "post_init"
  <2>1. /\ j - Len(order) \in DOMAIN order /\ k - Len(order) \in DOMAIN order
        /\ order[j - Len(order)] = order[k - Len(order)] /\ j \in Nat /\ k \in Nat
    BY <1>1, <1>3, PostInitCalls
  <2>2. j - Len(order) = k - Len(order)
    BY <2>1, OrderHolds DEF Orderly, Arranges, OnceEach
  <2> QED
    BY <2>1, <2>2, SequenceFacts
<1>4. CASE calls[k][1] = "quit"
  <2> DEFINE Place(i) == Len(loaded) + 1 - (i - PostInits)
  <2>1. /\ Place(j) \in DOMAIN loaded /\ Place(k) \in DOMAIN loaded
        /\ loaded[Place(j)] = loaded[Place(k)] /\ j \in Nat /\ k \in Nat
    BY <1>1, <1>4, QuitCalls
  <2>2. Place(j) = Place(k)
    <3> HIDE DEF Place
    <3>1. ASSUME NEW a \in DOMAIN loaded, NEW b \in DOMAIN loaded, a < b
          PROVE  loaded[a] # loaded[b]
      <4>1. Before(order, loaded[a], loaded[b])
        BY <3>1 DEF LoadedInOrder
      <4>2. PICK x \in DOMAIN order, y \in DOMAIN order :
              x < y /\ order[x] = loaded[a] /\ order[y] = loaded[b]
        BY <4>1 DEF Before
      <4>3. x # y
        BY <4>2, SequenceFacts
      <4> QED
        BY <4>2, <4>3, OrderHolds DEF Orderly, Arranges, OnceEach
    <3> QED
      BY <2>1, <3>1, SequenceFacts
  <2>3. PostInits \in Nat /\ Len(loaded) \in Nat
    BY SequenceFacts
  <2> QED
    BY <2>1, <2>2, <2>3
<1> QED
  BY <1>2, <1>3, <1>4, CallIsPair

LEMMA PostInitsNest ==
  ASSUME LaunchInv, IdsUnique
  PROVE  PostInitNests
<1> USE DEF LaunchInv
<1> SUFFICES ASSUME NEW e \in Found, NEW f \in Found, Called("post_init", f)
             PROVE  /\ Before(calls, <<"init", e>>, <<"post_init", f>>)
                    /\ Before(calls, <<"init", e>>, <<"init", f>>) =>
                         Before(calls, <<"post_init", e>>, <<"post_init", f>>)
  BY DEF PostInitNests
<1>1. PICK k \in DOMAIN calls : calls[k] = <<"post_init", f>>
  BY CalledAt
<1>2. /\ k \in Nat /\ Len(order) < k /\ k <= Len(order) + posted /\ k - Len(order) \in DOMAIN order
      /\ order[k - Len(order)] = f
  BY <1>1, PostInitCalls
<1>3. Orderly(order)
  BY <1>2, OrderHolds
<1>4. PICK i \in DOMAIN order : order[i] = e
  BY <1>3 DEF Orderly, Arranges
<1>5. k <= Len(calls)
  BY SequenceFacts
<1>6. i \in DOMAIN calls /\ i < k /\ calls[i] = <<"init", e>>
  BY <1>2, <1>4, <1>5, SequenceFacts DEF CallsStand
<1>7. ASSUME Before(calls, <<"init", e>>, <<"init", f>>)
      PROVE  Before(calls, <<"post_init", e>>, <<"post_init", f>>)
  <2>1. PICK x \in DOMAIN order, y \in DOMAIN order : x < y /\ order[x] = e /\ order[y] = f
    BY <1>7, InitsInOrder DEF Before
  <2>2. y = k - Len(order)
    BY <1>2, <1>3, <2>1 DEF Orderly, Arranges, OnceEach
  <2>3. /\ Len(order) + x \in DOMAIN calls /\ Len(order) + x < k
        /\ Inits < Len(order) + x /\ Len(order) + x <= PostInits /\ (Len(order) + x) - Inits = x
    BY <1>2, <1>5, <2>1, <2>2, SequenceFacts
  <2>4. calls[Len(order) + x][1] = "post_init" /\ calls[Len(order) + x][2] = e
    BY <2>1, <2>3 DEF CallsStand
  <2>5. calls[Len(order) + x] = <<"post_init", e>>
    BY <2>3, <2>4, CallIsPair
  <2> QED
    BY <1>1, <2>3, <2>5 DEF Before
<1> QED
  BY <1>1, <1>6, <1>7 DEF Before

LEMMA QuitsNest ==
  ASSUME LaunchInv, IdsUnique
  PROVE  QuitNests
<1> USE DEF LaunchInv
<1> DEFINE Place(i) == Len(loaded) + 1 - (i - PostInits)
<1>1. ASSUME NEW e, Called("quit", e)
      PROVE  \E k \in DOMAIN calls :
               /\ calls[k] = <<"quit", e>> /\ k \in Nat /\ PostInits < k
               /\ k - PostInits <= Len(loaded)
               /\ Place(k) \in DOMAIN loaded /\ loaded[Place(k)] = e
  <2>1. PICK k \in DOMAIN calls : calls[k] = <<"quit", e>>
    BY <1>1, CalledAt
  <2> QED
    BY <2>1, QuitCalls
<1>2. \A e \in Found : Called("quit", e) => e \in ToSet(loaded)
  BY <1>1 DEF ToSet
<1>3. ASSUME NEW e \in Found, NEW f \in ToSet(loaded), Called("quit", e),
             Before(calls, <<"init", e>>, <<"init", f>>)
      PROVE  Before(calls, <<"quit", f>>, <<"quit", e>>)
  <2>1. PICK k \in DOMAIN calls :
          /\ calls[k] = <<"quit", e>> /\ k \in Nat /\ PostInits < k
          /\ k - PostInits <= Len(loaded)
          /\ Place(k) \in DOMAIN loaded /\ loaded[Place(k)] = e
    BY <1>1, <1>3
  <2>2. PICK m \in DOMAIN loaded : loaded[m] = f
    BY DEF ToSet
  <2>3. PICK x \in DOMAIN order, y \in DOMAIN order : x < y /\ order[x] = e /\ order[y] = f
    BY <1>3, InitsInOrder DEF Before
  <2>4. OnceEach(order)
    BY <1>3, InitsInOrder DEF Orderly, Arranges
  <2>5. Place(k) < m
    <3> SUFFICES ASSUME m <= Place(k) PROVE FALSE
      BY <2>1, <2>2, SequenceFacts
    <3>1. CASE m = Place(k)
      BY <2>1, <2>2, <2>3, <2>4, <3>1, SequenceFacts DEF OnceEach
    <3>2. CASE m # Place(k)
      <4>1. m < Place(k)
        BY <2>1, <2>2, <3>2, SequenceFacts
      <4>2. Before(order, f, e)
        BY <2>1, <2>2, <4>1 DEF LoadedInOrder
      <4>3. PICK u \in DOMAIN order, v \in DOMAIN order : u < v /\ order[u] = f /\ order[v] = e
        BY <4>2 DEF Before
      <4>4. u = y /\ v = x
        BY <2>3, <2>4, <4>3 DEF OnceEach
      <4> QED
        BY <2>3, <4>3, <4>4, SequenceFacts
    <3> QED
      BY <3>1, <3>2
  <2> DEFINE i == PostInits + Len(loaded) + 1 - m
  <2>6. /\ i \in DOMAIN calls /\ PostInits < i /\ i < k /\ Place(i) = m
    <3>1. PostInits \in Nat /\ Len(loaded) \in Nat /\ m \in 1 .. Len(loaded)
      BY <2>2, SequenceFacts
    <3>2. k \in 1 .. Len(calls) /\ Len(calls) \in Nat
      BY <2>1, SequenceFacts
    <3>3. i \in Nat /\ PostInits < i /\ i < k /\ Place(i) = m
      BY <2>1, <2>5, <3>1
    <3>4. i \in 1 .. Len(calls)
      BY <3>1, <3>2, <3>3
    <3> QED
      BY <3>3, <3>4, SequenceFacts
  <2>7. calls[i][1] = "quit" /\ calls[i][2] = f
    BY <2>2, <2>6 DEF CallsStand
  <2>8. calls[i] = <<"quit", f>>
    BY <2>6, <2>7, CallIsPair
  <2> QED
    BY <2>1, <2>6, <2>8 DEF Before
<1>4. ASSUME phase \in {"quitting", "ended"}, NEW e \in ToSet(loaded)
      PROVE  Called("quit", e) \/ e \in ToSet(leaving)
  <2>1. PICK m \in DOMAIN loaded : loaded[m] = e
    BY DEF ToSet
  <2> DEFINE i == PostInits + Len(loaded) + 1 - m
  <2>2. i \in Nat /\ PostInits < i /\ Place(i) = m /\ m \in 1 .. Len(loaded)
    <3>1. PostInits \in Nat /\ Len(loaded) \in Nat /\ m \in 1 .. Len(loaded)
      BY <2>1, SequenceFacts
    <3> QED
      BY <3>1
  <2>3. i <= Len(calls) => Called("quit", e)
    <3> SUFFICES ASSUME i <= Len(calls) PROVE Called("quit", e)
      OBVIOUS
    <3>1. i \in DOMAIN calls
      BY <2>2, SequenceFacts
    <3>2. calls[i][1] = "quit" /\ calls[i][2] = e
      BY <2>1, <2>2, <3>1 DEF CallsStand
    <3>3. calls[i] = <<"quit", e>>
      BY <3>1, <3>2, CallIsPair
    <3> QED
      BY <3>1, <3>3, CalledAt
  <2>4. CASE phase = "ended"
    <3>1. loaded # << >>
      BY <2>1, SequenceFacts
    <3>2. Len(calls) = PostInits + Len(loaded)
      BY <2>4, <3>1 DEF Stages
    <3> QED
      BY <2>2, <2>3, <3>2, SequenceFacts
  <2>5. CASE phase = "quitting"
    <3>1. /\ Len(leaving) <= Len(loaded) /\ Len(calls) = PostInits + Len(loaded) - Len(leaving)
          /\ \A k \in DOMAIN leaving : leaving[k] = loaded[Len(leaving) + 1 - k]
      BY <2>5 DEF Stages
    <3>2. CASE m > Len(leaving)
      <4>1. PostInits \in Nat /\ Len(loaded) \in Nat /\ Len(leaving) \in Nat
        BY SequenceFacts
      <4>2. i <= Len(calls)
        BY <2>2, <3>1, <3>2, <4>1
      <4> QED
        BY <2>3, <4>2
    <3>3. CASE ~(m > Len(leaving))
      <4>1. Len(leaving) + 1 - m \in DOMAIN leaving /\ Len(leaving) + 1 - (Len(leaving) + 1 - m) = m
        <5>1. Len(leaving) \in Nat /\ m \in Nat /\ m >= 1
          BY <2>2, SequenceFacts
        <5>2. Len(leaving) + 1 - m \in 1 .. Len(leaving)
          BY <3>3, <5>1
        <5> QED
          BY <5>1, <5>2, SequenceFacts
      <4>2. leaving[Len(leaving) + 1 - m] = e
        BY <2>1, <3>1, <4>1
      <4> QED
        BY <4>1, <4>2 DEF ToSet
    <3> QED
      BY <3>2, <3>3
  <2> QED
    BY <1>4, <2>4, <2>5
<1>5. ASSUME phase = "failed", NEW e \in Found, Called("quit", e)
      PROVE  FALSE
  <2>1. Len(calls) <= Len(order)
    BY <1>5, SequenceFacts DEF Stages
  <2>2. PICK k \in DOMAIN calls : k \in Nat /\ PostInits < k
    BY <1>1, <1>5
  <2> QED
    BY <2>1, <2>2, SequenceFacts
<1> QED
  BY <1>2, <1>3, <1>4, <1>5 DEF QuitNests

(* init, post_init and quit are called once per addon, all inits before    *)
(* the first post_init, and quit in the opposite order for all that are    *)
(* still loaded, whatever was unloaded in between: for any number of       *)
(* addons (call_post_init_callbacks, call_quit_callbacks).                 *)
THEOREM CallbacksAreNested == Spec => []CallbacksNest
<1>1. ASSUME LaunchInv
      PROVE  CallbacksNest
  <2> SUFFICES ASSUME IdsUnique
               PROVE  /\ \A j, k \in DOMAIN calls : calls[j] = calls[k] => j = k
                      /\ PostInitNests /\ QuitNests
    BY DEF CallbacksNest
  <2> QED
    BY <1>1, EachCallOnce, PostInitsNest, QuitsNest
<1> QED
  BY <1>1, LaunchInvariant, PTL
=============================================================================
