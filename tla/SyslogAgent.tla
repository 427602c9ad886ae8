----------------------------- MODULE SyslogAgent -----------------------------
(***************************************************************************)
(* The syslog agent (cmd/syslog-agent/app/syslog_agent.go): gRPC handlers   *)
(* put envelopes in an ingress diode, one dispatcher goroutine asks the     *)
(* binding manager for the drain writers of the envelope's source and       *)
(* writes to each.  The manager and the drain writers are those of          *)
(* BindingManager and DiodeWriter; what this module adds is how they        *)
(* overlap: the writers GetDrains returned are used after the manager's     *)
(* mutex is released, when a fetch or a cleanup may have cancelled them.    *)
(*                                                                         *)
(* A context is a number, given out in increasing order and never reused;   *)
(* a writer is known by the context it was made with.                       *)
(***************************************************************************)
EXTENDS Integers, Sequences, FiniteSets, SequencesExt

CONSTANTS
  Binding, Source, AppId, Unconnectable, IdleTimeout,   \* as BindingManager
  DiodeSize,      \* slots of a drain writer's diode
  IngressSize,    \* slots of the ingress diode (10000 in the code)
  MaxContexts,    \* bound: contexts made
  MaxEnvelopes    \* bound: envelopes received

ASSUME AgentAssumption ==
  /\ IsFiniteSet(Binding)
  /\ AppId \in [Binding -> Source]
  /\ Unconnectable \subseteq Binding
  /\ IdleTimeout \in Nat
  /\ DiodeSize \in Nat \ {0}
  /\ IngressSize \in Nat \ {0}
  /\ MaxContexts \in Nat
  /\ MaxEnvelopes \in Nat

VARIABLES
  drains, accessAge, activeDrainCount, drainCount, live, poll, fetched,
  published,
  pc, diode, inHand, cancelled, reported, wg, out, accepted, fate, flushTo,
  ingress,         \* the ingress diode
  received,        \* how many envelopes the receiver took
  ingressDropped,  \* the "dropped" counter with direction ingress
  dispatcher,      \* "next", "lookup" or "write"
  current,         \* the dispatcher's envelope: a sequence of at most one
  todo,            \* the contexts of the writers it has not written to yet
  dispatched       \* history: the envelopes whose drains were looked up

Ctx == 1 .. MaxContexts
Envelope == [source : Source, n : 1 .. MaxEnvelopes]

(* The drain writers that run under an uncancelled context. *)
Running == {c \in Ctx : pc[c] # "none"} \ cancelled

(* The gauge of active drains plays no part here. *)
BM == INSTANCE BindingManager WITH running <- Running, CountMod <- 1
DW == INSTANCE DiodeWriter WITH Writer <- Ctx, Message <- Envelope
D  == INSTANCE Diode

managerVars == <<drains, accessAge, activeDrainCount, drainCount, live, poll,
                 fetched, published>>
writerVars == <<pc, diode, inHand, cancelled, reported, wg, out, accepted,
                fate, flushTo>>
dispatchVars == <<ingress, received, ingressDropped, dispatcher, current,
                  todo, dispatched>>
vars == <<managerVars, writerVars, dispatchVars>>

-----------------------------------------------------------------------------
Init ==
  /\ DW!WriterInit
  /\ BM!Init
  /\ ingress = D!Empty
  /\ received = 0
  /\ ingressDropped = 0
  /\ dispatcher = "next"
  /\ current = <<>>
  /\ todo = {}
  /\ dispatched = <<>>

(* Receiver.Sender, BatchSender and Send: an envelope of source s. *)
Receive(s) ==
  /\ received < MaxEnvelopes
  /\ received' = received + 1
  /\ ingress' = D!Set(ingress, [source |-> s, n |-> received'])
  /\ UNCHANGED <<managerVars, writerVars, ingressDropped, dispatcher,
                 current, todo, dispatched>>

(* Faulty variant of NextEnvelope: what the diode skipped is not counted. *)
NextEnvelopeUncounted ==
  /\ dispatcher = "next"
  /\ ~D!IsEmpty(ingress)
  /\ current' = <<D!NextOf(ingress, IngressSize)>>
  /\ ingress' = D!Rest(ingress, IngressSize)
  /\ dispatcher' = "lookup"
  /\ UNCHANGED <<managerVars, writerVars, received, ingressDropped, todo,
                 dispatched>>

(* The dispatcher: e := diode.Next() *)
NextEnvelope ==
  /\ dispatcher = "next"
  /\ ~D!IsEmpty(ingress)
  /\ current' = <<D!NextOf(ingress, IngressSize)>>
  /\ ingress' = D!Rest(ingress, IngressSize)
  /\ ingressDropped' = ingressDropped + D!Missed(ingress, IngressSize)
  /\ dispatcher' = "lookup"
  /\ UNCHANGED <<managerVars, writerVars, received, todo, dispatched>>

(* Faulty variant of AfterLookup: the loop expects a drain. *)
AfterLookupWrites(W) == "write"

AfterLookup(W) == IF W = {} THEN "next" ELSE "write"

(* Faulty variant of LookUp: writers once returned are kept and used again. *)
LookUpKeepsWriters ==
  LET e == current[1]
      new == {drains[b].ctx : b \in BM!ToConnect(e.source)}
  IN  /\ dispatcher = "lookup"
      /\ DW!NewDiodeWriters(new)
      /\ BM!GetDrains(e.source)
      /\ todo' = BM!Returned(e.source) \cup {c \in cancelled : accepted[c] # <<>>}
      /\ dispatched' = Append(dispatched, e)
      /\ dispatcher' = AfterLookup(todo')
      /\ current' = IF todo' = {} THEN <<>> ELSE current
      /\ UNCHANGED <<ingress, received, ingressDropped>>

(* drainWriters := GetDrains(e.SourceId), which connects what is not. *)
LookUp ==
  LET e == current[1]
      new == {drains[b].ctx : b \in BM!ToConnect(e.source)}
  IN  /\ dispatcher = "lookup"
      /\ DW!NewDiodeWriters(new)
      /\ BM!GetDrains(e.source)
      /\ todo' = BM!Returned(e.source)
      /\ dispatched' = Append(dispatched, e)
      /\ dispatcher' = AfterLookup(todo')
      /\ current' = IF todo' = {} THEN <<>> ELSE current
      /\ UNCHANGED <<ingress, received, ingressDropped>>

(* w.Write(e), outside the manager's lock, in the order of a map iteration. *)
WriteTo(c) ==
  /\ dispatcher = "write"
  /\ c \in todo
  /\ DW!Write(c, current[1])
  /\ todo' = todo \ {c}
  /\ dispatcher' = AfterLookup(todo')
  /\ current' = IF todo' = {} THEN <<>> ELSE current
  /\ UNCHANGED <<managerVars, ingress, received, ingressDropped, dispatched>>

Dispatch == NextEnvelope \/ LookUp \/ \E c \in Ctx : WriteTo(c)

(* newDrainHolder gives out the next numbers. *)
ContextsInOrder ==
  \A c \in live' \ live :
    /\ c \notin cancelled'
    /\ \A d \in 1 .. c - 1 : d \in live' \cup cancelled'

(* MaxContexts bounds what a fetch or a cleanup may use up: n new contexts *)
(* can still be made, those an update under way needs set aside.           *)
ContextsLeft(n) ==
  n + (IF poll = "updating" THEN Cardinality(fetched \ BM!Held) ELSE 0)
    <= Cardinality(Ctx \ (live \cup cancelled))

updateDrains ==
  /\ DW!Cancel(BM!Cancelled(BM!Held \ fetched))
  /\ BM!updateDrains
  /\ ContextsInOrder
  /\ UNCHANGED dispatchVars

idleCleanup ==
  /\ ContextsLeft(Cardinality(BM!BindingsOf(BM!Expired)))
  /\ DW!Cancel(BM!Cancelled(BM!BindingsOf(BM!Expired)))
  /\ BM!idleCleanup
  /\ ContextsInOrder
  /\ UNCHANGED dispatchVars

(* The steps of the manager that touch neither contexts nor writers. *)
ManagerStep ==
  /\ UNCHANGED <<writerVars, dispatchVars>>
  /\ \/ \E B \in SUBSET Binding :
          ContextsLeft(Cardinality(B \ BM!Held)) /\ BM!Fetch(B)
     \/ BM!FirstFetchFails
     \/ BM!LaterFetchFails
     \/ BM!Tick

WriterStep(c) ==
  /\ DW!start(c)
  /\ UNCHANGED <<managerVars, dispatchVars>>

Next ==
  \/ \E s \in Source : Receive(s)
  \/ Dispatch
  \/ updateDrains
  \/ idleCleanup
  \/ ManagerStep
  \/ \E c \in Ctx : WriterStep(c)

(* The dispatcher never waits for anything but envelopes and the mutex; a *)
(* write to a drain ends, at the latest at its timeout.                   *)
Fairness ==
  /\ WF_vars(Dispatch)
  /\ \A c \in Ctx : WF_vars(WriterStep(c))

Spec == Init /\ [][Next]_vars /\ Fairness

-----------------------------------------------------------------------------
(* Every envelope received was dispatched, is waiting, or was counted as     *)
(* dropped on ingress, and the dispatcher never reorders or repeats one.     *)
IngressAccounted ==
  /\ received = Len(dispatched) + ingressDropped + Len(ingress)
                  + (IF dispatcher = "lookup" THEN 1 ELSE 0)
  /\ \A i, j \in DOMAIN dispatched : i < j => dispatched[i].n < dispatched[j].n

(* A connected drain gets its app's stream: from the first envelope on that  *)
(* its writer was given, every envelope dispatched for the app was written   *)
(* to it exactly once, in order, and none of another app, while fetches and  *)
(* cleanups replace other writers of the same list.                          *)
Given(c) == accepted[c] \o (IF c \in todo THEN current ELSE <<>>)

DrainGetsItsStream ==
  \A b \in BM!Connected :
    LET stream == Given(drains[b].ctx)
    IN  /\ stream # <<>>
        /\ ToSet(stream) = {e \in ToSet(dispatched) :
                              e.source = AppId[b] /\ e.n >= stream[1].n}
        /\ \A i, j \in DOMAIN stream : i < j => stream[i].n < stream[j].n

(* The writers GetDrains returned may be cancelled before they are used, but *)
(* the harm is bounded: at most one envelope is written to a writer after    *)
(* its cancellation, the only kind that can be lost without a failed write   *)
(* or a report.                                                              *)
AtMostOneStaleWrite ==
  \A c \in cancelled : Len(accepted[c]) <= flushTo[c] + 1

(* What an unlucky cancellation costs an app: of the envelopes that lookups   *)
(* found a drain for, the one still to be written included, a writer that     *)
(* has returned left one at most without having delivered it or counted it,   *)
(* the one the dispatcher held while the context was cancelled, unless the    *)
(* last thing it did was a write that failed.                                 *)
LossIsOneStaleEnvelope ==
  \A c \in Ctx :
    DW!Exited(c) => \/ Len(Given(c)) <= Len(fate[c]) + 1
                    \/ fate[c] # <<>> /\ Last(fate[c]) = "failed"

(* An envelope received is dispatched or reported: the dispatcher never      *)
(* stalls, however the drains behave.                                        *)
IngressDrains == (ingress # <<>>) ~> (ingress = <<>> /\ dispatcher = "next")
=============================================================================
