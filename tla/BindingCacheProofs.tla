-------------------------- MODULE BindingCacheProofs --------------------------
(***************************************************************************)
(* What the bindings are on their way to an agent, proved for any apps,     *)
(* pages, drains, limit and number of crashes, with requests that fail or   *)
(* hang: the agent stays within its policy, and an app whose bindings are   *)
(* left alone keeps its drains.                                             *)
(***************************************************************************)
EXTENDS BindingCache, FiniteSetTheorems, WellFoundedInduction, TLAPS

CacheTypeOK ==
  /\ desired \subseteq Binding
  /\ nextID \in 0 .. NumPages
  /\ pages \subseteq Binding
  /\ store \subseteq Binding
  /\ answer # NoAnswer => answer \subseteq Binding
  /\ hung \subseteq {"poller", "agent"}
  /\ steady \subseteq App

(* Nothing is polled while the cache is down, and nothing is stored before   *)
(* its first poll is over.                                                   *)
Booting ==
  /\ cache = "down" => nextID = 0
  /\ cache # "serving" => store = {}

(* Wherever its bindings are on their way, those of a steady app are the     *)
(* ones it has.                                                              *)
SteadyOnTheWay ==
  \A a \in steady :
    LET D == Of(desired, a)
    IN  /\ nextID # 0 => Of(pages, a) = IF PageOf[a] < nextID THEN D ELSE {}
        /\ cache = "serving" => Of(store, a) = D
        /\ answer # NoAnswer => Of(answer, a) = D

(* Wherever bindings are on their way, those of any app are all of one list   *)
(* that it has had: a poll has nothing of an app before the app's page.       *)
Lists(B) == \A a \in App : \E D \in DrainSets : Of(B, a) \in {{}, D}

ListsOnTheWay ==
  /\ \A a \in App : Of(desired, a) \in DrainSets
  /\ Lists(pages)
  /\ nextID # 0 => \A a \in App : PageOf[a] >= nextID => Of(pages, a) = {}
  /\ Lists(store)
  /\ answer # NoAnswer => Lists(answer)

CacheInv ==
  /\ CacheTypeOK
  /\ Booting
  /\ ListsOnTheWay
  /\ SteadyOnTheWay
  /\ SteadyAppKeepsDrains
  /\ AgentWithinPolicy

-----------------------------------------------------------------------------
(* A finite set of numbers has a greatest element: of the sets of elements   *)
(* from one of them on, one has no smaller one.                              *)
LEMMA Greatest ==
  ASSUME NEW S \in SUBSET Nat, IsFiniteSet(S), S # {}
  PROVE  \E m \in S : \A d \in S : d <= m
<1> DEFINE From(d) == {e \in S : d <= e}
           T == {From(d) : d \in S}
           R == StrictSubsetOrdering(S)
<1>1. IsWellFoundedOn(R, SUBSET S)
  BY FS_StrictSubsetOrderingWellFounded, FS_FiniteSubsetsOfFinite
<1>2. T \subseteq SUBSET S /\ T # {}
  OBVIOUS
<1>3. PICK x \in T : \A y \in T : ~(<<y, x>> \in R)
  <2> HIDE DEF R, T
  <2> QED
    BY <1>1, <1>2, WFMin
<1>4. PICK m \in S : x = From(m)
  OBVIOUS
<1>5. ASSUME NEW d \in S, ~(d <= m) PROVE FALSE
  <2> HIDE DEF From, T, R
  <2>1. d \in Nat /\ m \in Nat
    OBVIOUS
  <2>2. m < d
    BY <1>5, <2>1
  <2> USE DEF From, T, R
  <2>3. From(d) \subseteq From(m)
    <3> SUFFICES ASSUME NEW e \in S, d <= e PROVE m <= e
      OBVIOUS
    <3> QED
      BY <2>1, <2>2
  <2>4. m \in From(m) /\ m \notin From(d)
    BY <2>1, <2>2
  <2>5. From(d) \in T /\ From(d) \in SUBSET S /\ From(m) \in SUBSET S
    OBVIOUS
  <2>6. <<From(d), From(m)>> \in R
    BY <2>3, <2>4, <2>5 DEF StrictSubsetOrdering
  <2> QED
    BY <1>3, <1>4, <2>5, <2>6
<1> QED
  BY <1>5

(* toSyslogBindings leaves an app no more drains than the limit. *)
LEMMA LimitedWithinLimit ==
  ASSUME NEW D \in SUBSET Drain
  PROVE  IsFiniteSet(Limited(D)) /\ Cardinality(Limited(D)) <= Limit
<1> DEFINE L == Limited(D)
<1>1. IsFiniteSet(D) /\ D \in SUBSET Nat /\ Limit \in Nat
  BY CacheAssumption, FS_Subset
<1>2. L \in SUBSET D
  BY DEF Limited
<1>3. IsFiniteSet(L) /\ L \in SUBSET Nat
  BY <1>1, <1>2, FS_Subset
<1>4. CASE L = {}
  BY <1>1, <1>4, FS_EmptySet
<1>5. CASE L # {}
  <2>1. PICK m \in L : \A d \in L : d <= m
    <3> HIDE DEF L
    <3> QED
      BY <1>3, <1>5, Greatest
  <2> DEFINE E == {e \in D : e <= m}
  <2>2. Cardinality(E) <= Limit
    BY <2>1 DEF Limited
  <2>3. L \in SUBSET E /\ E \in SUBSET D
    BY <1>2, <2>1
  <2>4. IsFiniteSet(E)
    BY <1>1, <2>3, FS_Subset
  <2>5. Cardinality(L) <= Cardinality(E)
    BY <2>3, <2>4, FS_Subset
  <2>6. Cardinality(L) \in Nat /\ Cardinality(E) \in Nat
    BY <1>3, <2>4, FS_CardinalityType
  <2> HIDE DEF L, E
  <2> QED
    BY <1>1, <1>3, <2>2, <2>5, <2>6 DEF L
<1> QED
  BY <1>3, <1>4, <1>5

(* What FetchBindings makes of an answer. *)
Filtered(B) == toSyslogBindings(B) \ Invalid(toSyslogBindings(B))

LEMMA FilteredDrains ==
  ASSUME NEW B \in SUBSET Binding, NEW a \in App
  PROVE  /\ Of(Filtered(B), a) \subseteq Usable(Of(B, a))
         /\ dnsUp => Of(Filtered(B), a) = Usable(Of(B, a))
<1>1. \A d \in Drain : <<a, d>>[1] = a /\ <<a, d>>[2] = d
  OBVIOUS
<1>2. \A d \in Drain : <<a, d>> \in Filtered(B) <=>
         /\ <<a, d>> \in B /\ d \in Limited(Of(B, a))
         /\ Kind[d] # "unparsable" /\ dnsUp /\ Kind[d] = "good"
  BY <1>1 DEF Filtered, toSyslogBindings, Invalid
<1>3. Limited(Of(B, a)) \subseteq Of(B, a)
  BY DEF Limited
<1> QED
  BY <1>2, <1>3 DEF Of, Usable

-----------------------------------------------------------------------------
LEMMA CacheInit == Init => CacheInv
<1> SUFFICES ASSUME Init PROVE CacheInv
  OBVIOUS
<1>1. NumPages \in Nat \ {0} /\ Limit \in Nat
  BY CacheAssumption
<1>2. CacheTypeOK /\ Booting /\ SteadyOnTheWay /\ SteadyAppKeepsDrains
  BY <1>1 DEF Init, CacheTypeOK, Booting, SteadyOnTheWay, SteadyAppKeepsDrains
<1>3. AgentWithinPolicy
  <2>1. \A a \in App : Of(agent, a) = {}
    BY DEF Init, Of
  <2>2. \A a \in App : \E D \in DrainSets : Of(agent, a) \subseteq Usable(D)
    BY <2>1 DEF Init
  <2> QED
    BY <1>1, <2>1, <2>2, FS_EmptySet DEF AgentWithinPolicy
<1>4. ListsOnTheWay
  <2>1. \A a \in App : Of({}, a) = {}
    BY DEF Of
  <2>2. \A a \in App : Of(desired, a) \in DrainSets
    BY DEF Init
  <2>3. Lists({})
    BY <2>1, <2>2 DEF Lists
  <2> QED
    BY <2>2, <2>3 DEF Init, ListsOnTheWay
<1> QED
  BY <1>2, <1>3, <1>4 DEF CacheInv

LEMMA RebindStep ==
  ASSUME CacheInv, NEW b \in App, NEW D \in DrainSets, Rebind(b, D)
  PROVE  CacheInv'
<1>1. D \subseteq Drain
  BY CacheAssumption
<1>2. desired' = {x \in desired : x[1] # b} \cup {<<b, d>> : d \in D}
      /\ steady' = steady \ {b}
  BY DEF Rebind
<1>3. CacheTypeOK'
  BY <1>1, <1>2 DEF CacheInv, CacheTypeOK, Rebind, cacheVars, agentVars, Binding
<1>4. ASSUME NEW a \in App, a # b PROVE Of(desired', a) = Of(desired, a)
  <2>1. a # b
    BY <1>4
  <2>2. \A d \in Drain : <<a, d>> \in desired' <=> <<a, d>> \in desired
    <3>1. \A d \in Drain : <<a, d>>[1] = a
      OBVIOUS
    <3>2. \A d \in Drain, e \in D : <<a, d>> # <<b, e>>
      BY <2>1
    <3> QED
      BY <1>2, <2>1, <3>1, <3>2
  <2> QED
    BY <2>2 DEF Of
<1>5. steady' \subseteq steady /\ \A a \in steady' : a \in App /\ a # b
  BY <1>2 DEF CacheInv, CacheTypeOK
<1>6. (Booting /\ AgentWithinPolicy)'
  BY DEF Rebind, cacheVars, agentVars, CacheInv, Booting, AgentWithinPolicy
<1>7. (SteadyOnTheWay /\ SteadyAppKeepsDrains)'
  BY <1>4, <1>5 DEF Rebind, cacheVars, agentVars, CacheInv, SteadyOnTheWay,
     SteadyAppKeepsDrains, Of
<1>8. Of(desired', b) = D
  <2>1. \A d \in Drain : <<b, d>>[1] = b
    OBVIOUS
  <2>2. \A d \in Drain : <<b, d>> \in desired' <=> d \in D
    BY <1>2, <2>1
  <2> QED
    BY <1>1, <2>2 DEF Of
<1>9. ListsOnTheWay'
  <2>1. \A a \in App : Of(desired', a) \in DrainSets
    BY <1>4, <1>8 DEF CacheInv, ListsOnTheWay
  <2> QED
    BY <2>1 DEF Rebind, cacheVars, agentVars, CacheInv, ListsOnTheWay, Lists, Of
<1> QED
  BY <1>3, <1>6, <1>7, <1>9 DEF CacheInv

(* A page that arrives brings the bindings of the apps it lists. *)
LEMMA PageStep ==
  ASSUME CacheInv, PageArrives
  PROVE  CacheInv'
<1> DEFINE got == pages \cup Results(nextID)
<1>1. /\ NumPages \in Nat \ {0} /\ PageOf \in [App -> 1 .. NumPages]
      /\ nextID \in 1 .. NumPages /\ got \subseteq Binding
  BY CacheAssumption DEF CacheInv, CacheTypeOK, PageArrives, Results
<1>2. \/ /\ nextID = NumPages /\ FinishPoll(got)
      \/ /\ nextID < NumPages /\ pages' = got /\ nextID' = nextID + 1
         /\ UNCHANGED <<cache, store>>
  BY <1>1 DEF PageArrives, NextPage
<1>3. UNCHANGED <<desired, answer, agent, fetchedOnce, hung, steady>>
  BY DEF PageArrives, apiVars, agentVars
<1>4. CacheTypeOK'
  BY <1>1, <1>2, <1>3 DEF CacheInv, CacheTypeOK, FinishPoll, Stored
<1>5. Booting'
  BY <1>1, <1>2, <1>3 DEF CacheInv, Booting, FinishPoll
<1>6. (AgentWithinPolicy /\ SteadyAppKeepsDrains)'
  BY <1>3 DEF CacheInv, AgentWithinPolicy, SteadyAppKeepsDrains, Of
<1>7. ASSUME NEW a \in steady
      PROVE  Of(got, a) = IF PageOf[a] < nextID + 1 THEN Of(desired, a) ELSE {}
  <2>1. a \in App /\ PageOf[a] \in 1 .. NumPages
    BY <1>1 DEF CacheInv, CacheTypeOK
  <2>2. Of(pages, a) = IF PageOf[a] < nextID THEN Of(desired, a) ELSE {}
    BY <1>1 DEF CacheInv, SteadyOnTheWay
  <2>3. Of(got, a) = Of(pages, a) \cup Of(Results(nextID), a)
    BY DEF Of
  <2>4. Of(Results(nextID), a) = IF PageOf[a] = nextID THEN Of(desired, a) ELSE {}
    <3>1. \A d \in Drain : <<a, d>>[1] = a
      OBVIOUS
    <3> QED
      BY <3>1 DEF Of, Results
  <2>5. \/ PageOf[a] < nextID /\ PageOf[a] < nextID + 1 /\ PageOf[a] # nextID
        \/ PageOf[a] = nextID /\ PageOf[a] < nextID + 1 /\ ~(PageOf[a] < nextID)
        \/ /\ ~(PageOf[a] < nextID) /\ ~(PageOf[a] < nextID + 1)
           /\ PageOf[a] # nextID
    BY <1>1, <2>1
  <2> QED
    BY <2>2, <2>3, <2>4, <2>5
<1>8. SteadyOnTheWay'
  <2> SUFFICES ASSUME NEW a \in steady
               PROVE  /\ nextID' # 0 => Of(pages', a) = IF PageOf[a] < nextID'
                                                          THEN Of(desired, a) ELSE {}
                      /\ cache' = "serving" => Of(store', a) = Of(desired, a)
                      /\ answer # NoAnswer => Of(answer, a) = Of(desired, a)
    BY <1>3 DEF SteadyOnTheWay, Of
  <2>1. /\ cache = "serving" => Of(store, a) = Of(desired, a)
        /\ answer # NoAnswer => Of(answer, a) = Of(desired, a)
    BY DEF CacheInv, SteadyOnTheWay
  <2>2. CASE nextID < NumPages /\ pages' = got /\ nextID' = nextID + 1
             /\ UNCHANGED <<cache, store>>
    BY <1>7, <2>1, <2>2
  <2>3. CASE nextID = NumPages /\ FinishPoll(got)
    <3>1. Of(got, a) = Of(desired, a)
      <4>1. PageOf[a] < nextID + 1
        BY <1>1, <2>3 DEF CacheInv, CacheTypeOK
      <4> QED
        BY <1>7, <4>1
    <3>2. got = {} => Of(store, a) = {} /\ Of(desired, a) = {}
      <4>1. got = {} => Of(desired, a) = {}
        BY <3>1 DEF Of
      <4>2. Of({}, a) = {}
        BY DEF Of
      <4> QED
        BY <2>1, <4>1, <4>2 DEF CacheInv, Booting
    <3> QED
      BY <2>1, <2>3, <3>1, <3>2 DEF FinishPoll, Stored
  <2> QED
    BY <1>2, <2>2, <2>3
<1>9. ASSUME NEW a \in App
      PROVE  /\ \E D \in DrainSets : Of(got, a) \in {{}, D}
             /\ PageOf[a] >= nextID + 1 => Of(got, a) = {}
  <2>1. PageOf[a] \in Nat /\ nextID \in Nat /\ nextID # 0
    BY <1>1
  <2>2. /\ \E D \in DrainSets : Of(pages, a) \in {{}, D}
        /\ PageOf[a] >= nextID => Of(pages, a) = {}
        /\ Of(desired, a) \in DrainSets
    BY <2>1 DEF CacheInv, ListsOnTheWay, Lists
  <2>3. Of(got, a) = Of(pages, a) \cup Of(Results(nextID), a)
    BY DEF Of
  <2>4. Of(Results(nextID), a) = IF PageOf[a] = nextID THEN Of(desired, a) ELSE {}
    <3>1. \A d \in Drain : <<a, d>>[1] = a
      OBVIOUS
    <3> QED
      BY <3>1 DEF Of, Results
  <2>5. CASE PageOf[a] = nextID
    <3>1. PageOf[a] >= nextID /\ ~(PageOf[a] >= nextID + 1)
      BY <2>1, <2>5
    <3> QED
      BY <2>2, <2>3, <2>4, <2>5, <3>1
  <2>6. CASE PageOf[a] # nextID
    <3>1. PageOf[a] >= nextID + 1 => PageOf[a] >= nextID
      BY <2>1
    <3> QED
      BY <2>2, <2>3, <2>4, <2>6, <3>1
  <2> QED
    BY <2>5, <2>6
<1>10. ListsOnTheWay'
  <2>1. Lists(got)
    BY <1>9 DEF Lists
  <2>2. Lists({})
    <3>1. \A a \in App : Of({}, a) = {}
      BY DEF Of
    <3> QED
      BY <1>9, <3>1 DEF Lists
  <2>3. /\ Lists(store) /\ \A a \in App : Of(desired, a) \in DrainSets
        /\ answer # NoAnswer => Lists(answer)
    BY DEF CacheInv, ListsOnTheWay
  <2> HIDE DEF got
  <2>4. CASE nextID < NumPages /\ pages' = got /\ nextID' = nextID + 1
             /\ UNCHANGED <<cache, store>>
    BY <1>3, <1>9, <2>1, <2>3, <2>4 DEF ListsOnTheWay, Lists, Of
  <2>5. CASE nextID = NumPages /\ FinishPoll(got)
    <3>1. nextID' = 0 /\ pages' = {} /\ store' \in {store, got}
      BY <2>5 DEF FinishPoll, Stored
    <3>2. Lists(pages)' /\ Lists(store)'
      BY <2>1, <2>2, <2>3, <3>1 DEF Lists, Of
    <3> QED
      BY <1>3, <2>3, <3>1, <3>2 DEF ListsOnTheWay, Lists, Of
  <2> QED
    BY <1>2, <2>4, <2>5
<1> QED
  BY <1>4, <1>5, <1>6, <1>8, <1>10 DEF CacheInv

(* FetchBindings keeps the usable drains of a steady app and, of any other,  *)
(* no more than the policy allows.                                           *)
LEMMA FetchStep ==
  ASSUME CacheInv, FetchBindings
  PROVE  CacheInv'
<1>1. /\ answer # NoAnswer /\ answer \in SUBSET Binding
      /\ agent' = Filtered(answer) /\ answer' = NoAnswer
      /\ steady' = IF dnsUp THEN steady ELSE {}
      /\ UNCHANGED <<desired, dnsUp, cache, nextID, pages, store, hung>>
  BY DEF FetchBindings, Filtered, apiVars, cacheVars, CacheInv, CacheTypeOK
<1>2. (CacheTypeOK /\ Booting /\ SteadyOnTheWay /\ ListsOnTheWay)'
  BY <1>1 DEF CacheInv, CacheTypeOK, Booting, SteadyOnTheWay, ListsOnTheWay, Lists, Of
<1>3. AgentWithinPolicy'
  <2> SUFFICES ASSUME NEW a \in App
               PROVE  /\ \E D \in DrainSets : Of(agent', a) \subseteq Usable(D)
                      /\ Cardinality(Of(agent', a)) <= Limit
    BY DEF AgentWithinPolicy, Of
  <2> DEFINE L == Limited(Of(answer, a))
             F == Of(agent', a)
  <2>1. F \subseteq Usable(Of(answer, a))
    BY <1>1, FilteredDrains
  <2>2. F \in SUBSET L
    BY <2>1 DEF Usable
  <2>3. \E D \in DrainSets : F \subseteq Usable(D)
    <3>1. PICK D \in DrainSets : Of(answer, a) \in {{}, D}
      BY <1>1 DEF CacheInv, ListsOnTheWay, Lists
    <3>2. Usable({}) = {}
      BY DEF Usable, Limited
    <3> QED
      BY <2>1, <3>1, <3>2
  <2>4. IsFiniteSet(L) /\ Cardinality(L) <= Limit
    <3>1. Of(answer, a) \in SUBSET Drain
      BY DEF Of
    <3> QED
      BY <3>1, LimitedWithinLimit
  <2> HIDE DEF L, F
  <2>5. Cardinality(F) <= Cardinality(L) /\ IsFiniteSet(F)
    BY <2>4, <2>2, FS_Subset
  <2>6. Cardinality(F) \in Nat /\ Cardinality(L) \in Nat /\ Limit \in Nat
    BY <2>4, <2>5, FS_CardinalityType, CacheAssumption
  <2>7. Cardinality(F) <= Limit
    BY <2>4, <2>5, <2>6
  <2> QED
    BY <2>7, <2>3 DEF F
<1>4. SteadyAppKeepsDrains'
  <2> SUFFICES ASSUME NEW a \in steady, dnsUp
               PROVE  Of(agent', a) = Usable(Of(desired, a))
    BY <1>1 DEF SteadyAppKeepsDrains, Of
  <2>1. a \in App /\ Of(answer, a) = Of(desired, a)
    BY <1>1 DEF CacheInv, CacheTypeOK, SteadyOnTheWay
  <2> QED
    BY <1>1, <2>1, FilteredDrains
<1> QED
  BY <1>2, <1>3, <1>4 DEF CacheInv

LEMMA CacheStep == CacheInv /\ [Next]_vars => CacheInv'
<1> SUFFICES ASSUME CacheInv, [Next]_vars PROVE CacheInv'
  OBVIOUS
<1> USE DEF CacheInv
<1>1. ASSUME NEW a \in App, NEW D \in DrainSets, Rebind(a, D) PROVE CacheInv'
  BY <1>1, RebindStep
<1>2. ASSUME UNCHANGED <<desired, cacheVars, agent, fetchedOnce, steady>>,
             answer' \in {answer, NoAnswer}, hung' \subseteq {"poller", "agent"}
      PROVE  CacheInv'
  <2>1. UNCHANGED <<desired, cache, nextID, pages, store, agent, fetchedOnce, steady>>
        /\ (answer' # NoAnswer => answer # NoAnswer /\ answer' = answer)
    BY <1>2 DEF cacheVars
  <2>2. (CacheTypeOK /\ Booting)'
    BY <1>2, <2>1 DEF CacheTypeOK, Booting
  <2>3. SteadyOnTheWay'
    BY <2>1 DEF SteadyOnTheWay, Of
  <2>4. ListsOnTheWay'
    BY <2>1 DEF ListsOnTheWay, Lists, Of
  <2>5. (SteadyAppKeepsDrains /\ AgentWithinPolicy)'
    BY <2>1 DEF SteadyAppKeepsDrains, AgentWithinPolicy, Of
  <2> QED
    BY <2>2, <2>3, <2>4, <2>5
<1>3. CASE ToggleAPI \/ ToggleDNS \/ PageHangs \/ FetchHangs \/ UNCHANGED vars
  BY <1>2, <1>3 DEF ToggleAPI, ToggleDNS, PageHangs, FetchHangs, vars, apiVars,
     agentVars, CacheTypeOK
<1>4. NumPages \in Nat \ {0} /\ PageOf \in [App -> 1 .. NumPages]
  BY CacheAssumption
<1>5. \A a \in App : Of({}, a) = {} /\ \E D \in DrainSets : {} \in {{}, D}
  BY DEF ListsOnTheWay, Of
<1>6. CASE StartCache \/ StartPoll
  <2>1. /\ nextID' = 1 /\ pages' = {} /\ cache' \in {"booting", "serving"}
        /\ UNCHANGED <<desired, steady, answer, agent, fetchedOnce, hung>>
        /\ cache' # "serving" => store' = {}
        /\ cache' = "serving" => cache = "serving" /\ store' = store
    BY <1>6 DEF StartCache, StartPoll, apiVars, agentVars
  <2>2. CacheTypeOK'
    BY <1>4, <1>6, <2>1 DEF CacheTypeOK, StartCache, StartPoll
  <2>3. (Booting /\ SteadyAppKeepsDrains /\ AgentWithinPolicy)'
    BY <2>1 DEF Booting, SteadyAppKeepsDrains, AgentWithinPolicy, Of
  <2>4. SteadyOnTheWay'
    <3>1. \A a \in steady : ~(PageOf[a] < 1)
      BY <1>4 DEF CacheTypeOK
    <3>2. \A a \in App : Of({}, a) = {}
      BY DEF Of
    <3> QED
      BY <2>1, <3>1, <3>2 DEF SteadyOnTheWay, CacheTypeOK, Of
  <2>5. ListsOnTheWay'
    <3>1. store' \in {store, {}}
      BY <1>6, <2>1 DEF StartCache, StartPoll
    <3>2. Lists(store)'
      BY <1>5, <3>1 DEF ListsOnTheWay, Lists, Of
    <3> QED
      BY <1>5, <2>1, <3>2 DEF ListsOnTheWay, Lists, Of
  <2> QED
    BY <2>2, <2>3, <2>4, <2>5
<1>7. CASE PageArrives
  BY <1>7, PageStep
<1>8. CASE PageFails
  <2>1. /\ nextID' = 0 /\ pages' = {} /\ store' \in {store, pages} /\ steady' = {}
        /\ cache' = "serving" /\ UNCHANGED <<desired, answer, agent, fetchedOnce, hung>>
    BY <1>8 DEF PageFails, FinishPoll, Stored, apiVars, agentVars
  <2>2. ListsOnTheWay'
    BY <1>5, <2>1 DEF ListsOnTheWay, Lists, Of
  <2> QED
    BY <1>4, <2>1, <2>2 DEF CacheTypeOK, Booting, SteadyOnTheWay,
       SteadyAppKeepsDrains, AgentWithinPolicy, Of
<1>9. CASE Crash
  <2>1. /\ nextID' = 0 /\ pages' = {} /\ store' = {} /\ steady' = {}
        /\ cache' = "down" /\ answer' \in {answer, NoAnswer}
        /\ hung' \subseteq {"poller", "agent"}
        /\ UNCHANGED <<desired, agent, fetchedOnce>>
    BY <1>9 DEF Crash, apiVars, CacheTypeOK
  <2>2. ListsOnTheWay'
    BY <1>5, <2>1 DEF ListsOnTheWay, Lists, Of
  <2> QED
    BY <1>4, <2>1, <2>2 DEF CacheTypeOK, Booting, SteadyOnTheWay,
       SteadyAppKeepsDrains, AgentWithinPolicy, Of
<1>10. CASE HandlerAnswers
  BY <1>10 DEF HandlerAnswers, apiVars, cacheVars, CacheTypeOK, Booting,
     SteadyOnTheWay, ListsOnTheWay, Lists, SteadyAppKeepsDrains, AgentWithinPolicy, Of
<1>11. CASE FetchBindings
  BY <1>11, FetchStep
<1> QED
  BY <1>1, <1>3, <1>6, <1>7, <1>8, <1>9, <1>10, <1>11 DEF Next, poll

THEOREM CacheInvariance == Spec => []CacheInv
BY CacheInit, CacheStep, PTL DEF Spec

(* Whatever the polls, fetches and rebinds of other apps do in between, an   *)
(* app whose bindings are left alone keeps exactly its usable drains while   *)
(* nothing fails.                                                            *)
THEOREM SteadyKeeps == Spec => []SteadyAppKeepsDrains
BY CacheInvariance, PTL DEF CacheInv

(* What an agent drains for an app is always a part of what the limit and    *)
(* then the filters leave of one list of the app, whatever was fetched,      *)
(* polled, lost or cut off in between.                                       *)
THEOREM PolicyHolds == Spec => []AgentWithinPolicy
BY CacheInvariance, PTL DEF CacheInv
=============================================================================
