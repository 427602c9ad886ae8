------------------------ MODULE BindingManagerProofs ------------------------
(***************************************************************************)
(* Invariants of BindingManager proved for any number of apps, bindings and *)
(* contexts.  The inductive invariant adds to the properties what Run's     *)
(* program counter says of the list it is about to apply.                   *)
(***************************************************************************)
EXTENDS BindingManager, FiniteSetTheorems, TLAPS

(* What Run knows between a fetch and the next. *)
PollInv ==
  /\ poll = "start" => published = {} /\ Held = {}
  /\ poll = "updating" => fetched = published /\ drainCount = Cardinality(fetched)
  /\ RegistryMatchesLastGoodFetch

IInv == TypeOK /\ PollInv /\ WritersAccounted /\ ConnectedIsTracked

-----------------------------------------------------------------------------
(* A set of bindings is finite, so counting one gives a number. *)
LEMMA BindingCounts ==
  ASSUME NEW B, B \subseteq Binding
  PROVE  Cardinality(B) \in Nat
BY ManagerAssumption, FS_Subset, FS_CardinalityType

(* The active-drains count stays within its width whatever is added to it. *)
LEMMA CountStaysInWidth ==
  ASSUME NEW i \in Int
  PROVE  i % CountMod \in 0 .. CountMod - 1
BY ManagerAssumption

(* Initially nothing is held and nothing runs. *)
LEMMA InitIInv == Init => IInv
<1> SUFFICES ASSUME Init PROVE IInv
  OBVIOUS
<1>1. Held = {} /\ Connected = {}
  BY DEF Init, Held, Connected
<1>2. TypeOK
  BY <1>1, ManagerAssumption DEF Init, TypeOK, Held
<1>3. PollInv
  BY <1>1 DEF Init, PollInv, RegistryMatchesLastGoodFetch
<1>4. WritersAccounted
  BY <1>1 DEF Init, WritersAccounted, HoldersOwnContexts, Cancelled
<1>5. ConnectedIsTracked
  BY <1>1 DEF ConnectedIsTracked
<1> QED
  BY <1>2, <1>3, <1>4, <1>5 DEF IInv

-----------------------------------------------------------------------------
(* Steps that leave the holders and the contexts alone. *)
LEMMA QuietStep ==
  ASSUME IInv, UNCHANGED <<drains, live, running>>,
         DOMAIN accessAge \subseteq DOMAIN accessAge'
  PROVE  WritersAccounted' /\ ConnectedIsTracked'
BY DEF IInv, WritersAccounted, ConnectedIsTracked, HoldersOwnContexts, Held,
       Connected, Cancelled

(* A fetch preserves the invariant. *)
LEMMA FetchStep ==
  ASSUME IInv, NEW B \in SUBSET Binding, Fetch(B)
  PROVE  IInv'
<1>1. TypeOK'
  BY BindingCounts DEF IInv, TypeOK, Fetch, Held
<1>2. PollInv'
  BY DEF IInv, PollInv, Fetch, Held, RegistryMatchesLastGoodFetch
<1>3. WritersAccounted' /\ ConnectedIsTracked'
  BY QuietStep DEF Fetch
<1> QED
  BY <1>1, <1>2, <1>3 DEF IInv

(* A first fetch that fails preserves the invariant. *)
LEMMA FirstFetchFailsStep ==
  ASSUME IInv, FirstFetchFails
  PROVE  IInv'
<1>1. TypeOK'
  BY DEF IInv, TypeOK, FirstFetchFails, Held
<1>2. PollInv'
  BY FS_EmptySet
     DEF IInv, PollInv, FirstFetchFails, Held, RegistryMatchesLastGoodFetch
<1>3. WritersAccounted' /\ ConnectedIsTracked'
  BY QuietStep DEF FirstFetchFails
<1> QED
  BY <1>1, <1>2, <1>3 DEF IInv

(* The passing of time preserves the invariant. *)
LEMMA TickStep ==
  ASSUME IInv, Tick
  PROVE  IInv'
<1>1. TypeOK'
  BY ManagerAssumption DEF IInv, TypeOK, Tick, Held
<1>2. PollInv'
  BY DEF IInv, PollInv, Tick, Held, RegistryMatchesLastGoodFetch
<1>3. WritersAccounted' /\ ConnectedIsTracked'
  BY QuietStep DEF Tick
<1> QED
  BY <1>1, <1>2, <1>3 DEF IInv

-----------------------------------------------------------------------------
(* GetDrains preserves the invariant: it marks holders of one source as     *)
(* connected, starts their writers and records the access.                  *)
LEMMA GetDrainsStep ==
  ASSUME IInv, NEW s \in Source, GetDrains(s)
  PROVE  IInv'
<1> DEFINE new == ToConnect(s)
<1>1. new \subseteq Held /\ Held \subseteq Binding /\ \A b \in new : AppId[b] = s
  BY DEF IInv, TypeOK, ToConnect, BindingsOf
<1>2. /\ Held' = Held
      /\ \A b \in Held : drains'[b].ctx = drains[b].ctx
      /\ \A b \in Held : drains'[b].writer = (b \in new \/ drains[b].writer)
  BY <1>1 DEF IInv, TypeOK, GetDrains, Held, Holder
<1>3. TypeOK'
  <2>1. drains' \in [Held' -> Holder]
    BY <1>2 DEF IInv, TypeOK, GetDrains, Holder, Held
  <2>2. accessAge' \in [DOMAIN accessAge' -> 0 .. IdleTimeout + 1]
    BY ManagerAssumption DEF IInv, TypeOK, GetDrains
  <2>3. activeDrainCount' \in 0 .. CountMod - 1
    BY <1>1, BindingCounts, CountStaysInWidth DEF IInv, TypeOK, GetDrains
  <2>4. running' \subseteq Ctx
    BY <1>1 DEF IInv, TypeOK, GetDrains, Holder
  <2> QED
    BY <1>2, <2>1, <2>2, <2>3, <2>4 DEF IInv, TypeOK, GetDrains
<1>4. PollInv'
  BY <1>2 DEF IInv, PollInv, GetDrains, RegistryMatchesLastGoodFetch
<1>5. Connected' = Connected \cup new
  BY <1>1, <1>2 DEF Connected
<1>6. WritersAccounted'
  <2>1. HoldersOwnContexts' /\ live' = Cancelled(Held)'
    BY <1>2 DEF IInv, WritersAccounted, HoldersOwnContexts, Cancelled, GetDrains
  <2>2. running' = {drains[b].ctx : b \in Connected \cup new}
    BY DEF IInv, WritersAccounted, Cancelled, GetDrains
  <2>3. Cancelled(Connected)' = {drains[b].ctx : b \in Connected \cup new}
    BY <1>1, <1>2, <1>5 DEF Cancelled, Connected
  <2> QED
    BY <2>1, <2>2, <2>3 DEF WritersAccounted
<1>7. ConnectedIsTracked'
  BY <1>1, <1>5 DEF IInv, ConnectedIsTracked, GetDrains
<1> QED
  BY <1>3, <1>4, <1>6, <1>7 DEF IInv

-----------------------------------------------------------------------------
(* Replacing holders: if the bindings outside `fresh' that stay held keep    *)
(* their holders, those in `fresh' get new contexts and no writer, and the   *)
(* contexts of all the others are cancelled, then again every uncancelled    *)
(* context is held once and every running writer is one of the registry's.   *)
LEMMA HoldersReplaced ==
  ASSUME IInv, NEW kept, NEW fresh, NEW new,
         kept \subseteq Held, kept \cap fresh = {},
         new \in FreshContexts(fresh),
         Held' = kept \cup fresh,
         \A b \in kept : drains'[b] = drains[b],
         \A b \in fresh : drains'[b] = newDrainHolder(new[b]),
         live' = (live \ Cancelled(Held \ kept)) \cup Contexts(new),
         running' = running \ Cancelled(Held \ kept)
  PROVE  /\ WritersAccounted'
         /\ Connected' = Connected \cap kept
<1>1. /\ \A b \in fresh : new[b] \in Ctx \ live
      /\ \A a, b \in fresh : new[a] = new[b] => a = b
      /\ DOMAIN new = fresh
  BY DEF FreshContexts
<1>2. \A b \in fresh : drains'[b].ctx = new[b] /\ ~drains'[b].writer
  <2>1. \A c : newDrainHolder(c).ctx = c /\ ~newDrainHolder(c).writer
    BY DEF newDrainHolder
  <2> QED
    BY <2>1
<1>3. Connected' = Connected \cap kept
  BY <1>2 DEF Connected
<1>4. /\ live = Cancelled(Held) /\ running = Cancelled(Connected)
      /\ \A a, b \in Held : drains[a].ctx = drains[b].ctx => a = b
  BY DEF IInv, WritersAccounted, HoldersOwnContexts
<1>5. \A b \in Held : drains[b].ctx \in live
  BY <1>4 DEF Cancelled
<1>6. HoldersOwnContexts'
  BY <1>1, <1>2, <1>4, <1>5 DEF HoldersOwnContexts
<1>7. live \ Cancelled(Held \ kept) = Cancelled(kept)
  BY <1>4 DEF Cancelled
<1>8. live' = Cancelled(Held)'
  BY <1>1, <1>2, <1>7 DEF Cancelled, Contexts
<1>9. running' = Cancelled(Connected)'
  <2>1. running \ Cancelled(Held \ kept) = Cancelled(Connected \cap kept)
    BY <1>4 DEF Cancelled, Connected
  <2>2. Cancelled(Connected)' = Cancelled(Connected \cap kept)
    BY <1>3 DEF Cancelled
  <2> QED
    BY <2>1, <2>2
<1> QED
  BY <1>3, <1>6, <1>8, <1>9 DEF WritersAccounted

(* updateDrains preserves the invariant. *)
LEMMA UpdateDrainsStep ==
  ASSUME IInv, updateDrains
  PROVE  IInv'
<1> DEFINE added == fetched \ Held
           removed == Held \ fetched
           kept == Held \cap fetched
<1>1. PICK new \in FreshContexts(added) :
        /\ drains' = [b \in fetched |-> IF b \in added THEN newDrainHolder(new[b])
                                                       ELSE drains[b]]
        /\ live' = (live \ Cancelled(removed)) \cup Contexts(new)
  BY DEF updateDrains
<1>2. Held' = kept \cup added /\ Held' = fetched
  BY <1>1 DEF Held
<1>3. removed = Held \ kept
  OBVIOUS
<1>4. running' = running \ Cancelled(removed)
  BY DEF updateDrains
<1>5. /\ WritersAccounted'
      /\ Connected' = Connected \cap kept
  <2>1. \A b \in kept : drains'[b] = drains[b]
    BY <1>1
  <2>2. \A b \in added : drains'[b] = newDrainHolder(new[b])
    BY <1>1
  <2>3. live' = (live \ Cancelled(Held \ kept)) \cup Contexts(new)
    BY <1>1, <1>3
  <2>4. running' = running \ Cancelled(Held \ kept)
    BY <1>3, <1>4
  <2> HIDE DEF added, removed
  <2>5. kept \cap added = {}
    BY DEF added
  <2> QED
    BY <1>1, <1>2, <2>1, <2>2, <2>3, <2>4, <2>5, HoldersReplaced
<1>6. TypeOK'
  <2>1. \A b \in added : new[b] \in Ctx
    BY DEF FreshContexts
  <2>2. drains' \in [Held' -> Holder]
    BY <1>1, <1>2, <2>1 DEF IInv, TypeOK, Holder, newDrainHolder, Held
  <2>3. live' \subseteq Ctx
    BY <1>1, <2>1 DEF IInv, TypeOK, FreshContexts, Contexts
  <2>4. activeDrainCount' \in 0 .. CountMod - 1
    <3>1. RemoveDecrement(removed) \in Nat
      BY BindingCounts DEF RemoveDecrement, IInv, TypeOK
    <3> QED
      BY <3>1, CountStaysInWidth DEF updateDrains, IInv, TypeOK
  <2> QED
    BY <1>2, <1>4, <2>2, <2>3, <2>4 DEF IInv, TypeOK, updateDrains
<1>7. PollInv'
  BY <1>2 DEF IInv, PollInv, updateDrains, RegistryMatchesLastGoodFetch
<1>8. ConnectedIsTracked'
  BY <1>5 DEF IInv, ConnectedIsTracked, updateDrains
<1> QED
  BY <1>5, <1>6, <1>7, <1>8 DEF IInv

(* idleCleanup preserves the invariant: it forgets the access times of the  *)
(* expired sources, and disconnects all their drains in the same step.      *)
LEMMA IdleCleanupStep ==
  ASSUME IInv, idleCleanup
  PROVE  IInv'
<1> DEFINE reset == BindingsOf(Expired)
           kept == Held \ reset
<1>1. PICK new \in FreshContexts(reset) :
        /\ drains' = [b \in Held |-> IF b \in reset THEN newDrainHolder(new[b])
                                                    ELSE drains[b]]
        /\ live' = (live \ Cancelled(reset)) \cup Contexts(new)
  BY DEF idleCleanup
<1>2. reset \subseteq Held /\ Expired \subseteq DOMAIN accessAge
  BY DEF BindingsOf, Expired
<1>3. Held' = kept \cup reset /\ Held' = Held /\ reset = Held \ kept
  BY <1>1, <1>2 DEF Held
<1>4. running' = running \ Cancelled(reset)
  BY DEF idleCleanup
<1>5. /\ WritersAccounted'
      /\ Connected' = Connected \cap kept
  <2>1. \A b \in kept : drains'[b] = drains[b]
    BY <1>1
  <2>2. \A b \in reset : drains'[b] = newDrainHolder(new[b])
    BY <1>1, <1>2
  <2>3. live' = (live \ Cancelled(Held \ kept)) \cup Contexts(new)
    BY <1>1, <1>3
  <2>4. running' = running \ Cancelled(Held \ kept)
    BY <1>3, <1>4
  <2>5. kept \subseteq Held /\ kept \cap reset = {}
    OBVIOUS
  <2> HIDE DEF reset, kept
  <2> QED
    BY <1>1, <1>3, <2>1, <2>2, <2>3, <2>4, <2>5, HoldersReplaced
<1>6. TypeOK'
  <2>1. \A b \in reset : new[b] \in Ctx
    BY DEF FreshContexts
  <2>2. drains' \in [Held' -> Holder]
    BY <1>1, <1>3, <2>1 DEF IInv, TypeOK, Holder, newDrainHolder, Held
  <2>3. live' \subseteq Ctx
    BY <1>1, <2>1 DEF IInv, TypeOK, FreshContexts, Contexts
  <2>4. activeDrainCount' \in 0 .. CountMod - 1
    <3>1. IdleDecrement(reset) \in Nat
      BY <1>2, BindingCounts DEF IdleDecrement, IInv, TypeOK
    <3> QED
      BY <3>1, CountStaysInWidth DEF idleCleanup, IInv, TypeOK
  <2>5. accessAge' \in [DOMAIN accessAge' -> 0 .. IdleTimeout + 1]
    BY DEF idleCleanup, IInv, TypeOK
  <2> QED
    BY <1>3, <1>4, <2>2, <2>3, <2>4, <2>5 DEF IInv, TypeOK, idleCleanup
<1>7. PollInv'
  BY <1>3 DEF IInv, PollInv, idleCleanup, RegistryMatchesLastGoodFetch
<1>8. ConnectedIsTracked'
  BY <1>5 DEF IInv, ConnectedIsTracked, idleCleanup, BindingsOf, Connected
<1> QED
  BY <1>5, <1>6, <1>7, <1>8 DEF IInv

-----------------------------------------------------------------------------
(* The invariant is inductive. *)
LEMMA NextIInv == IInv /\ [Next]_vars => IInv'
<1> SUFFICES ASSUME IInv, [Next]_vars PROVE IInv'
  OBVIOUS
<1>1. ASSUME NEW B \in SUBSET Binding, Fetch(B) PROVE IInv'
  BY <1>1, FetchStep
<1>2. CASE FirstFetchFails
  BY <1>2, FirstFetchFailsStep
<1>3. CASE updateDrains
  BY <1>3, UpdateDrainsStep
<1>4. ASSUME NEW s \in Source, GetDrains(s) PROVE IInv'
  BY <1>4, GetDrainsStep
<1>5. CASE idleCleanup
  BY <1>5, IdleCleanupStep
<1>6. CASE Tick
  BY <1>6, TickStep
<1>7. CASE UNCHANGED vars
  BY <1>7 DEF vars, IInv, TypeOK, PollInv, WritersAccounted, ConnectedIsTracked,
              RegistryMatchesLastGoodFetch, HoldersOwnContexts, Held, Connected,
              Cancelled
<1>8. CASE LaterFetchFails
  BY <1>7, <1>8 DEF LaterFetchFails
<1> QED
  BY <1>1, <1>2, <1>3, <1>4, <1>5, <1>6, <1>7, <1>8 DEF Next

(* The inductive invariant holds in every reachable state. *)
THEOREM Invariance == Spec => []IInv
<1>1. Init => IInv
  BY InitIInv
<1>2. IInv /\ [Next]_vars => IInv'
  BY NextIInv
<1> QED
  BY <1>1, <1>2, PTL DEF Spec

(* Type correctness of the manager. *)
THEOREM TypeCorrect == Spec => []TypeOK
<1>1. IInv => TypeOK
  BY DEF IInv
<1> QED
  BY <1>1, Invariance, PTL

(* No drain writer leaks and none is handed out after its cancellation, for *)
(* any interleaving of fetches, lookups and cleanups.                       *)
THEOREM NoWriterLeaks == Spec => []WritersAccounted
<1>1. IInv => WritersAccounted
  BY DEF IInv
<1> QED
  BY <1>1, Invariance, PTL

(* No connected drain is out of the idle cleanup's sight. *)
THEOREM CleanupSeesConnected == Spec => []ConnectedIsTracked
<1>1. IInv => ConnectedIsTracked
  BY DEF IInv
<1> QED
  BY <1>1, Invariance, PTL

(* While the poll loop waits, the registry is what the last successful fetch *)
(* said.                                                                     *)
THEOREM RegistryIsLastGoodFetch == Spec => []RegistryMatchesLastGoodFetch
<1>1. IInv => RegistryMatchesLastGoodFetch
  BY DEF IInv, PollInv
<1> QED
  BY <1>1, Invariance, PTL

(* A step that keeps all uncancelled contexts cuts no writer. *)
LEMMA KeepsContexts ==
  ASSUME IInv, live \subseteq live'
  PROVE  CutForCause
BY DEF IInv, WritersAccounted, Cancelled, Connected, CutForCause

(* A connected drain is cut only when the cache stopped publishing it or its *)
(* source was idle for longer than idleTimeout.                              *)
THEOREM CutsHaveACause == Spec => WriterCutOnlyForCause
<1>1. IInv /\ [Next]_vars => [CutForCause]_vars
  <2> SUFFICES ASSUME IInv, Next PROVE CutForCause
    OBVIOUS
  <2>1. CASE updateDrains
    <3> SUFFICES ASSUME NEW b \in Connected, drains[b].ctx \notin live'
                 PROVE  poll = "updating" /\ b \notin published
      BY DEF CutForCause
    <3>1. poll = "updating" /\ fetched = published
      BY <2>1 DEF updateDrains, IInv, PollInv
    <3>2. b \in Held /\ drains[b].ctx \in live
      BY DEF IInv, WritersAccounted, Cancelled, Connected
    <3>3. drains[b].ctx \in Cancelled(Held \ fetched)
      BY <2>1, <3>2 DEF updateDrains
    <3>4. PICK a \in Held \ fetched : drains[a].ctx = drains[b].ctx
      BY <3>3 DEF Cancelled
    <3>5. a = b
      BY <3>2, <3>4 DEF IInv, WritersAccounted, HoldersOwnContexts
    <3> QED
      BY <3>1, <3>4, <3>5
  <2>2. CASE idleCleanup
    <3> SUFFICES ASSUME NEW b \in Connected, drains[b].ctx \notin live'
                 PROVE  accessAge[AppId[b]] > IdleTimeout
      BY DEF CutForCause
    <3>1. b \in Held /\ drains[b].ctx \in live
      BY DEF IInv, WritersAccounted, Cancelled, Connected
    <3>2. drains[b].ctx \in Cancelled(BindingsOf(Expired))
      BY <2>2, <3>1 DEF idleCleanup
    <3>3. PICK a \in BindingsOf(Expired) : drains[a].ctx = drains[b].ctx
      BY <3>2 DEF Cancelled
    <3>4. a = b
      BY <3>1, <3>3 DEF IInv, WritersAccounted, HoldersOwnContexts, BindingsOf
    <3> QED
      BY <3>3, <3>4 DEF BindingsOf, Expired
  <2>3. CASE live' = live
    BY <2>3, KeepsContexts
  <2> QED
    BY <2>1, <2>2, <2>3
       DEF Next, Fetch, FirstFetchFails, LaterFetchFails, GetDrains, Tick, vars
<1> QED
  BY <1>1, Invariance, PTL DEF Spec, WriterCutOnlyForCause

-----------------------------------------------------------------------------
(* Numbers that differ by a multiple of the width have the same remainder, *)
LEMMA SameRemainder ==
  ASSUME NEW x \in Int, NEW y \in Int, NEW q \in Int, x = y - q * CountMod
  PROVE  x % CountMod = y % CountMod
<1>1. PICK n \in Nat \ {0} : n = CountMod
  BY ManagerAssumption
<1>2. PICK p \in Int : p = x \div n
  BY <1>1
<1>3. PICK r \in Int : r = x % n
  BY <1>1
<1>4. PICK u \in Int : u = y \div n
  BY <1>1
<1>5. PICK t \in Int : t = y % n
  BY <1>1
<1>6. x = n * p + r /\ 0 <= r /\ r < n
  BY ONLY <1>2, <1>3, x \in Int, n \in Nat \ {0}
<1>7. y = n * u + t /\ 0 <= t /\ t < n
  BY ONLY <1>4, <1>5, y \in Int, n \in Nat \ {0}
<1>8. PICK z \in Int : z = u - q - p
  OBVIOUS
<1>9. n * z = r - t
  <2>1. n * p + r = n * u + t - q * n
    BY ONLY <1>1, <1>6, <1>7, x = y - q * CountMod, n \in Nat, u \in Int, t \in Int,
            q \in Int, p \in Int, r \in Int
  <2> QED
    BY ONLY <1>8, <2>1, n \in Nat, u \in Int, t \in Int, q \in Int, p \in Int, r \in Int
<1>10. CASE z >= 1
  <2>1. n * z >= n
    BY ONLY <1>10, n \in Nat, z \in Int
  <2> QED
    BY ONLY <1>6, <1>7, <1>9, <2>1, n \in Nat, r \in Int, t \in Int
<1>11. CASE z <= -1
  <2>1. n * z <= -n
    BY ONLY <1>11, n \in Nat, z \in Int
  <2> QED
    BY ONLY <1>6, <1>7, <1>9, <2>1, n \in Nat, r \in Int, t \in Int
<1>12. CASE z = 0
  <2>1. r = t
    BY ONLY <1>9, <1>12, n \in Nat, r \in Int, t \in Int
  <2> QED
    BY ONLY <1>1, <1>3, <1>5, <2>1
<1> QED
  BY <1>10, <1>11, <1>12

(* so a count that wraps has moved by what was added to it. *)
LEMMA MovesBy ==
  ASSUME NEW a \in Int, NEW d \in Int
  PROVE  (((a + d) % CountMod) - a) % CountMod = d % CountMod
<1>1. PICK n \in Nat \ {0} : n = CountMod
  BY ManagerAssumption
<1>2. PICK c \in Int : c = a + d
  OBVIOUS
<1>3. PICK q \in Int : q = c \div n
  BY <1>1
<1>4. PICK r \in Int : r = c % n
  BY <1>1
<1>5. c = n * q + r
  BY ONLY <1>3, <1>4, c \in Int, n \in Nat \ {0}
<1>6. r - a = d - q * n
  BY ONLY <1>2, <1>5, c \in Int, n \in Nat, q \in Int, r \in Int, a \in Int, d \in Int
<1>7. r - a \in Int
  OBVIOUS
<1>8. (r - a) % CountMod = d % CountMod
  BY ONLY <1>1, <1>6, <1>7, d \in Int, q \in Int, SameRemainder
<1> QED
  BY ONLY <1>1, <1>2, <1>4, <1>8

(* Two sets of bindings without a common one count as much as their union. *)
LEMMA CountsAdd ==
  ASSUME NEW B, NEW C, B \subseteq Binding, C \subseteq Binding, B \cap C = {}
  PROVE  Cardinality(B \cup C) = Cardinality(B) + Cardinality(C)
<1>1. IsFiniteSet(B) /\ IsFiniteSet(C)
  BY ManagerAssumption, FS_Subset
<1>2. Cardinality(B \cup C) =
        Cardinality(B) + Cardinality(C) - Cardinality(B \cap C)
  BY <1>1, FS_Union
<1>3. Cardinality(B \cap C) = 0
  BY FS_EmptySet
<1> QED
  BY <1>2, <1>3, BindingCounts

(* GetDrains adds to the count the drains it connects. *)
LEMMA GetDrainsCounts ==
  ASSUME IInv, NEW s \in Source, GetDrains(s)
  PROVE  CountMoves
<1>1. PICK new : new = ToConnect(s)
  OBVIOUS
<1>2. PICK old : old = Connected
  OBVIOUS
<1>3. /\ new \subseteq Held /\ Held \subseteq Binding
      /\ \A b \in new : ~drains[b].writer
  BY <1>1 DEF IInv, TypeOK, ToConnect, BindingsOf
<1>4. old \subseteq Binding /\ new \subseteq Binding /\ old \cap new = {}
  BY <1>2, <1>3 DEF Connected
<1>5. Connected' = old \cup new
  <2>1. /\ Held' = Held
        /\ \A b \in Held : drains'[b].writer = (b \in new \/ drains[b].writer)
    BY <1>1, <1>3 DEF IInv, TypeOK, GetDrains, Held, Holder
  <2> QED
    BY <1>2, <1>3, <2>1 DEF Connected
<1>6. PICK k \in Nat : k = Cardinality(old)
  BY <1>4, BindingCounts
<1>7. PICK d \in Nat : d = Cardinality(new)
  BY <1>4, BindingCounts
<1>8. Cardinality(Connected') - Cardinality(Connected) = d
  <2>1. Cardinality(old \cup new) = k + d
    BY <1>4, <1>6, <1>7, CountsAdd
  <2> QED
    BY ONLY <1>2, <1>5, <1>6, <2>1, k \in Nat, d \in Nat
<1>9. PICK a \in Int : a = activeDrainCount
  BY ManagerAssumption DEF IInv, TypeOK
<1>10. activeDrainCount' = (a + d) % CountMod
  BY <1>1, <1>7, <1>9 DEF GetDrains
<1>11. (((a + d) % CountMod) - a) % CountMod = d % CountMod
  BY ONLY a \in Int, d \in Nat, MovesBy
<1> QED
  BY ONLY <1>8, <1>9, <1>10, <1>11 DEF CountMoves

(* updateDrains takes from the count the connected drains it removes. *)
LEMMA UpdateDrainsCounts ==
  ASSUME IInv, updateDrains
  PROVE  CountMoves
<1>1. PICK kept : kept = Held \cap fetched
  OBVIOUS
<1>2. PICK cut : cut = {b \in Held \ fetched : drains[b].writer}
  OBVIOUS
<1>3. Connected' = Connected \cap kept
  <2>1. PICK new \in FreshContexts(fetched \ Held) :
          drains' = [b \in fetched |-> IF b \in fetched \ Held
                                         THEN newDrainHolder(new[b])
                                         ELSE drains[b]]
    BY DEF updateDrains
  <2>2. Held' = fetched
    BY <2>1 DEF Held
  <2>3. \A c : ~newDrainHolder(c).writer
    BY DEF newDrainHolder
  <2>4. \A b \in fetched : drains'[b].writer <=> b \in Held /\ drains[b].writer
    <3> SUFFICES ASSUME NEW b \in fetched
                 PROVE  drains'[b].writer <=> b \in Held /\ drains[b].writer
      OBVIOUS
    <3>1. CASE b \in Held
      BY <2>1, <3>1
    <3>2. CASE b \notin Held
      BY <2>1, <2>3, <3>2
    <3> QED
      BY <3>1, <3>2
  <2> QED
    BY <1>1, <2>2, <2>4 DEF Connected
<1>4. PICK left : left = Connected'
  OBVIOUS
<1>5. /\ Connected = left \cup cut /\ left \cap cut = {}
      /\ left \subseteq Binding /\ cut \subseteq Binding
  BY <1>1, <1>2, <1>3, <1>4 DEF Connected, IInv, TypeOK
<1>6. PICK k \in Nat : k = Cardinality(left)
  BY <1>5, BindingCounts
<1>7. PICK d \in Nat : d = Cardinality(cut)
  BY <1>5, BindingCounts
<1>8. Cardinality(Connected') - Cardinality(Connected) = -d
  <2>1. Cardinality(left \cup cut) = k + d
    BY <1>5, <1>6, <1>7, CountsAdd
  <2> QED
    BY ONLY <1>4, <1>5, <1>6, <2>1, k \in Nat, d \in Nat
<1>9. PICK a \in Int : a = activeDrainCount
  BY ManagerAssumption DEF IInv, TypeOK
<1>10. activeDrainCount' = (a + (-d)) % CountMod
  <2>1. activeDrainCount' = (a - d) % CountMod
    BY <1>2, <1>7, <1>9 DEF updateDrains, RemoveDecrement
  <2>2. a - d = a + (-d)
    OBVIOUS
  <2> QED
    BY <2>1, <2>2
<1>11. (((a + (-d)) % CountMod) - a) % CountMod = (-d) % CountMod
  <2>1. -d \in Int
    OBVIOUS
  <2> QED
    BY ONLY a \in Int, <2>1, MovesBy
<1> QED
  BY ONLY <1>8, <1>9, <1>10, <1>11 DEF CountMoves

(* Nothing else but the cleanup moves the count or the connections. *)
LEMMA QuietCounts ==
  ASSUME IInv, UNCHANGED <<drains, activeDrainCount>>
  PROVE  CountMoves
<1>1. Connected' = Connected
  BY DEF Connected, Held
<1>2. PICK a \in Int : a = activeDrainCount
  BY ManagerAssumption DEF IInv, TypeOK
<1>3. PICK k \in Nat : k = Cardinality(Connected)
  BY BindingCounts DEF IInv, TypeOK, Connected
<1>4. a - a = k - k
  OBVIOUS
<1> QED
  BY <1>1, <1>2, <1>3, <1>4, Zenon DEF CountMoves

(* Outside the idle cleanup (which forgets an access time, so that the     *)
(* premise of CountMoves excludes it) the active-drains count moves by the *)
(* number of drains that connect or disconnect.                            *)
THEOREM CountFollowsConnections == Spec => CountMovesWithConnections
<1>1. IInv /\ [Next]_vars => [CountMoves]_vars
  <2> SUFFICES ASSUME IInv, Next PROVE CountMoves
    OBVIOUS
  <2>1. ASSUME NEW s \in Source, GetDrains(s) PROVE CountMoves
    BY <2>1, GetDrainsCounts
  <2>2. CASE updateDrains
    BY <2>2, UpdateDrainsCounts
  <2>3. CASE idleCleanup
    <3>1. /\ Expired # {} /\ Expired \subseteq DOMAIN accessAge
          /\ DOMAIN accessAge' = DOMAIN accessAge \ Expired
      BY <2>3 DEF idleCleanup, Expired
    <3>2. ~(DOMAIN accessAge \subseteq DOMAIN accessAge')
      BY ONLY <3>1
    <3> QED
      BY ONLY <3>2 DEF CountMoves
  <2>4. CASE UNCHANGED <<drains, activeDrainCount>>
    BY <2>4, QuietCounts
  <2> QED
    BY <2>1, <2>2, <2>3, <2>4
       DEF Next, Fetch, FirstFetchFails, LaterFetchFails, Tick, vars
<1> QED
  BY <1>1, Invariance, PTL DEF Spec, CountMovesWithConnections
=============================================================================
