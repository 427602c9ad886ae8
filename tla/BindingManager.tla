--------------------------- MODULE BindingManager ---------------------------
(***************************************************************************)
(* The registry of syslog drains of the syslog agent                       *)
(* (pkg/binding/manager.go).  A poll loop replaces the set of bindings by  *)
(* what the binding cache answers, GetDrains connects the drains of a      *)
(* source on first use, and a second loop disconnects the drains of the    *)
(* sources nobody asked for during idleTimeout.  The three run in their    *)
(* own goroutines; a mutex makes GetDrains, updateDrains and idleCleanup   *)
(* atomic, the HTTP fetch happens outside it.                              *)
(*                                                                         *)
(* The two-level map source -> binding -> drainHolder is one function on   *)
(* bindings: the outer key is a field of the binding.  Time is kept as the *)
(* age of each access, saturated just above IdleTimeout, the only age the  *)
(* code compares with.                                                     *)
(***************************************************************************)
EXTENDS Integers, FiniteSets

CONSTANTS
  Binding,        \* syslog.Binding values
  Source,         \* source ids of the envelopes
  AppId,          \* AppId[b]: the app a binding belongs to
  Unconnectable,  \* bindings whose URL or scheme makes Connect fail
  Ctx,            \* identities of contexts (reused once nothing refers to one)
  IdleTimeout,    \* idleTimeout, in clock ticks
  CountMod        \* the int64 activeDrainCount is kept modulo this number

ASSUME ManagerAssumption ==
  /\ IsFiniteSet(Binding)
  /\ AppId \in [Binding -> Source]
  /\ Unconnectable \subseteq Binding
  /\ IdleTimeout \in Nat
  /\ CountMod \in Nat \ {0}

VARIABLES
  drains,            \* sourceDrainMap, flattened: binding -> drainHolder
  accessAge,         \* sourceAccessTimes: source -> time since its GetDrains
  activeDrainCount,  \* activeDrainCount and its gauge
  drainCount,        \* the "drains" gauge
  live,              \* contexts made by newDrainHolder and not cancelled
  running,           \* uncancelled contexts under which a drain writer runs
  poll,              \* where Run is: "start", "updating" or "waiting"
  fetched,           \* the bindings Run hands to updateDrains
  published          \* history: the bindings of the last successful fetch

vars == <<drains, accessAge, activeDrainCount, drainCount, live, running,
          poll, fetched, published>>

Holder == [ctx : Ctx, writer : BOOLEAN]

Held == DOMAIN drains
Connected == {b \in Held : drains[b].writer}
BindingsOf(S) == {b \in Held : AppId[b] \in S}

-----------------------------------------------------------------------------
(* newDrainHolder makes a context nobody refers to and no writer. *)
newDrainHolder(c) == [ctx |-> c, writer |-> FALSE]

(* One fresh context for each binding of B. *)
FreshContexts(B) ==
  {f \in [B -> Ctx \ live] :
     \A a, b \in B : f[a] = f[b] => a = b}

Contexts(f) == {f[b] : b \in DOMAIN f}

(* cancel() of the holders of B. *)
Cancelled(B) == {drains[b].ctx : b \in B}

(* Faulty variant of RemoveDecrement: connected or not, the holder counts. *)
RemoveDecrementAlways(B) == Cardinality(B)

(* removeDrain decrements for a holder that has a writer, *)
RemoveDecrement(B) == Cardinality({b \in B : drains[b].writer})

(* idleCleanup decrements for every holder it replaces. *)
IdleDecrement(B) == Cardinality(B)

(* Faulty variants of Expired: a source exactly idleTimeout old is expired, *)
(* and Before mistaken for After.                                           *)
ExpiredEarly == {s \in DOMAIN accessAge : accessAge[s] >= IdleTimeout}
ExpiredSwapped == {s \in DOMAIN accessAge : accessAge[s] < IdleTimeout}

(* ts.Before(currentTime.Add(-m.idleTimeout)) *)
Expired == {s \in DOMAIN accessAge : accessAge[s] > IdleTimeout}

-----------------------------------------------------------------------------
Init ==
  /\ drains = [b \in {} |-> newDrainHolder(b)]
  /\ accessAge = [s \in {} |-> 0]
  /\ activeDrainCount = 0
  /\ drainCount = 0
  /\ live = {}
  /\ running = {}
  /\ poll = "start"
  /\ fetched = {}
  /\ published = {}

(* FetchBindings answers a list, B, that names no binding twice; the gauge is *)
(* set before the lock is taken.                                              *)
Fetch(B) ==
  /\ poll \in {"start", "waiting"}
  /\ fetched' = B
  /\ published' = B
  /\ drainCount' = Cardinality(B)
  /\ poll' = "updating"
  /\ UNCHANGED <<drains, accessAge, activeDrainCount, live, running>>

(* The error of the first fetch is ignored: its nil list is applied. *)
FirstFetchFails ==
  /\ poll = "start"
  /\ fetched' = {}
  /\ drainCount' = 0
  /\ poll' = "updating"
  /\ UNCHANGED <<drains, accessAge, activeDrainCount, live, running, published>>

(* Faulty variants of LaterFetchFails: the error is ignored as for the first *)
(* fetch, and the error ends the loop.                                       *)
LaterFailureApplied ==
  /\ poll = "waiting"
  /\ fetched' = {}
  /\ drainCount' = 0
  /\ poll' = "updating"
  /\ UNCHANGED <<drains, accessAge, activeDrainCount, live, running, published>>

LaterFailureStops ==
  /\ poll = "waiting"
  /\ poll' = "stopped"
  /\ UNCHANGED <<drains, accessAge, activeDrainCount, drainCount, live, running,
                 fetched, published>>

(* A later error is logged and the loop waits for the next tick. *)
LaterFetchFails ==
  /\ poll = "waiting"
  /\ UNCHANGED vars

(* Faulty variant of updateDrains: a removed holder is cancelled, not deleted. *)
updateDrainsKeepsHolders ==
  LET added   == fetched \ Held
      removed == Held \ fetched
  IN  /\ poll = "updating"
      /\ \E new \in FreshContexts(added) :
           /\ drains' = [b \in Held \cup added |-> IF b \in added
                                                   THEN newDrainHolder(new[b])
                                                   ELSE drains[b]]
           /\ live' = (live \ Cancelled(removed)) \cup Contexts(new)
      /\ activeDrainCount' =
           (activeDrainCount - RemoveDecrement(removed)) % CountMod
      /\ running' = running \ Cancelled(removed)
      /\ poll' = "waiting"
      /\ UNCHANGED <<accessAge, drainCount, fetched, published>>

updateDrains ==
  LET added   == fetched \ Held
      removed == Held \ fetched
  IN  /\ poll = "updating"
      /\ \E new \in FreshContexts(added) :
           /\ drains' = [b \in fetched |-> IF b \in added
                                             THEN newDrainHolder(new[b])
                                             ELSE drains[b]]
           /\ live' = (live \ Cancelled(removed)) \cup Contexts(new)
      /\ activeDrainCount' =
           (activeDrainCount - RemoveDecrement(removed)) % CountMod
      /\ running' = running \ Cancelled(removed)
      /\ poll' = "waiting"
      /\ UNCHANGED <<accessAge, drainCount, fetched, published>>

(* The bindings of source s that GetDrains connects. *)
ToConnect(s) == {b \in BindingsOf({s}) \ Unconnectable : ~drains[b].writer}

(* Faulty variant of Returned: the connected drains of every source. *)
ReturnedOfAll(s) == {drains[b].ctx : b \in Connected \cup ToConnect(s)}

(* The contexts of the writers GetDrains returns for source s. *)
Returned(s) ==
  {drains[b].ctx : b \in {x \in BindingsOf({s}) : drains[x].writer}
                           \cup ToConnect(s)}

(* Faulty variant of GetDrains: an access time is renewed, never entered. *)
GetDrainsUntracked(s) ==
  /\ accessAge' = [x \in DOMAIN accessAge |-> IF x = s THEN 0 ELSE accessAge[x]]
  /\ drains' = [b \in Held |-> IF b \in ToConnect(s)
                                 THEN [drains[b] EXCEPT !.writer = TRUE]
                                 ELSE drains[b]]
  /\ running' = running \cup {drains[b].ctx : b \in ToConnect(s)}
  /\ activeDrainCount' = (activeDrainCount + Cardinality(ToConnect(s))) % CountMod
  /\ UNCHANGED <<drainCount, live, poll, fetched, published>>

GetDrains(s) ==
  /\ accessAge' = [x \in DOMAIN accessAge \cup {s} |->
                     IF x = s THEN 0 ELSE accessAge[x]]
  /\ drains' = [b \in Held |-> IF b \in ToConnect(s)
                                 THEN [drains[b] EXCEPT !.writer = TRUE]
                                 ELSE drains[b]]
  /\ running' = running \cup {drains[b].ctx : b \in ToConnect(s)}
  /\ activeDrainCount' = (activeDrainCount + Cardinality(ToConnect(s))) % CountMod
  /\ UNCHANGED <<drainCount, live, poll, fetched, published>>

(* Faulty variant of idleCleanup: the holder keeps its cancelled context. *)
idleCleanupKeepsContext ==
  LET reset == BindingsOf(Expired)
  IN  /\ Expired # {}
      /\ drains' = [b \in Held |-> IF b \in reset
                                     THEN [drains[b] EXCEPT !.writer = FALSE]
                                     ELSE drains[b]]
      /\ live' = live \ Cancelled(reset)
      /\ running' = running \ Cancelled(reset)
      /\ activeDrainCount' = (activeDrainCount - IdleDecrement(reset)) % CountMod
      /\ accessAge' = [s \in DOMAIN accessAge \ Expired |-> accessAge[s]]
      /\ UNCHANGED <<drainCount, poll, fetched, published>>

idleCleanup ==
  LET reset == BindingsOf(Expired)
  IN  /\ Expired # {}
      /\ \E new \in FreshContexts(reset) :
           /\ drains' = [b \in Held |-> IF b \in reset
                                          THEN newDrainHolder(new[b])
                                          ELSE drains[b]]
           /\ live' = (live \ Cancelled(reset)) \cup Contexts(new)
      /\ activeDrainCount' = (activeDrainCount - IdleDecrement(reset)) % CountMod
      /\ running' = running \ Cancelled(reset)
      /\ accessAge' = [s \in DOMAIN accessAge \ Expired |-> accessAge[s]]
      /\ UNCHANGED <<drainCount, poll, fetched, published>>

(* Time passes; an age above IdleTimeout stays there. *)
Tick ==
  /\ \E s \in DOMAIN accessAge : accessAge[s] <= IdleTimeout
  /\ accessAge' = [s \in DOMAIN accessAge |->
                     IF accessAge[s] <= IdleTimeout THEN accessAge[s] + 1
                                                    ELSE accessAge[s]]
  /\ UNCHANGED <<drains, activeDrainCount, drainCount, live, running, poll,
                 fetched, published>>

Next ==
  \/ \E B \in SUBSET Binding : Fetch(B)
  \/ FirstFetchFails
  \/ LaterFetchFails
  \/ updateDrains
  \/ \E s \in Source : GetDrains(s)
  \/ idleCleanup
  \/ Tick

(* The clock runs and the cleanup ticker keeps firing.  Nothing is assumed *)
(* of the poll loop (its HTTP client has no overall timeout) nor of the    *)
(* envelopes that cause GetDrains.                                         *)
Fairness ==
  /\ WF_vars(Tick)
  /\ WF_vars(idleCleanup)

Spec == Init /\ [][Next]_vars /\ Fairness

-----------------------------------------------------------------------------
(* Every variable keeps its type, ages and the count their bounds. *)
TypeOK ==
  /\ Held \subseteq Binding
  /\ drains \in [Held -> Holder]
  /\ DOMAIN accessAge \subseteq Source
  /\ accessAge \in [DOMAIN accessAge -> 0 .. IdleTimeout + 1]
  /\ activeDrainCount \in 0 .. CountMod - 1
  /\ drainCount \in Nat
  /\ live \subseteq Ctx
  /\ running \subseteq Ctx
  /\ poll \in {"start", "updating", "waiting"}
  /\ fetched \subseteq Binding
  /\ published \subseteq Binding

(* Whenever the poll loop waits, the registry holds exactly the bindings of *)
(* the last fetch that succeeded, and the "drains" gauge is their number:   *)
(* neither a failed fetch nor an idle cleanup nor a connect adds or loses a *)
(* binding (manager_test.go, "maintains current state on error").           *)
RegistryMatchesLastGoodFetch ==
  poll = "waiting" => Held = published /\ drainCount = Cardinality(Held)

(* No writer leaks and no dead writer is handed out: the uncancelled        *)
(* contexts are those of the holders, one each, and the writers running     *)
(* under an uncancelled context are exactly the ones the registry holds, so *)
(* whatever drops or replaces a holder (removeDrain, idleCleanup) has       *)
(* cancelled its writer, and what GetDrains returns has not been cancelled. *)
HoldersOwnContexts ==
  \A a, b \in Held : drains[a].ctx = drains[b].ctx => a = b
WritersAccounted ==
  /\ HoldersOwnContexts
  /\ live = Cancelled(Held)
  /\ running = Cancelled(Connected)

(* No connected drain escapes the idle cleanup: its source has an access     *)
(* time, which is the only thing idleCleanup looks at, although removeDrain  *)
(* and idleCleanup delete holders and access times independently.            *)
ConnectedIsTracked == \A b \in Connected : AppId[b] \in DOMAIN accessAge

(* A connected drain loses its writer only because the cache stopped        *)
(* publishing its binding or because its source was idle for longer than    *)
(* idleTimeout; an access in between protects it.                           *)
CutForCause ==
  \A b \in Connected :
    drains[b].ctx \notin live' =>
      \/ poll = "updating" /\ b \notin published
      \/ accessAge[AppId[b]] > IdleTimeout
WriterCutOnlyForCause == [][CutForCause]_vars

(* Outside the idle cleanup the active-drains count moves exactly with the   *)
(* number of connected drains, whatever is connected, rebound or removed.    *)
CountMoves ==
  DOMAIN accessAge \subseteq DOMAIN accessAge' =>
    (activeDrainCount' - activeDrainCount) % CountMod
      = (Cardinality(Connected') - Cardinality(Connected)) % CountMod
CountMovesWithConnections == [][CountMoves]_vars

(* The active-drains gauge is the number of connected drains: a cleanup     *)
(* decrements it once for each drain it disconnects (manager_test.go, "The  *)
(* active drain count metric should only be decremented once").             *)
ActiveCountIsConnected == activeDrainCount = Cardinality(Connected) % CountMod

(* A connected drain whose source is no longer asked for is disconnected:   *)
(* the access time is renewed or the writer is released.                    *)
IdleDrainReleased ==
  \A b \in Binding :
    (b \in Connected) ~> (b \notin Connected \/ accessAge[AppId[b]] = 0)
=============================================================================
