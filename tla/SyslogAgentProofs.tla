-------------------------- MODULE SyslogAgentProofs --------------------------
(***************************************************************************)
(* How the syslog agent's ingress, dispatcher, binding manager and drain    *)
(* writers overlap, proved for any bindings, sources, sizes and numbers of  *)
(* contexts and envelopes.  The manager and the writers keep the invariants *)
(* of their own modules; what is proved here is what holds between them.    *)
(***************************************************************************)
EXTENDS SyslogAgent, FiniteSetTheorems, SequenceTheorems, TLAPS

M == INSTANCE BindingManagerProofs WITH running <- Running, CountMod <- 1
P == INSTANCE DiodeWriterProofs WITH Writer <- Ctx, Message <- Envelope

AgentTypeOK ==
  /\ ingress \in Seq(Envelope)
  /\ received \in 0 .. MaxEnvelopes
  /\ ingressDropped \in Nat
  /\ dispatcher \in {"next", "lookup", "write"}
  /\ current \in Seq(Envelope)
  /\ todo \subseteq Ctx
  /\ dispatched \in Seq(Envelope)

(* The dispatcher has an envelope from its read to its last write. *)
Holding ==
  /\ Len(current) = IF dispatcher = "next" THEN 0 ELSE 1
  /\ dispatcher # "write" => todo = {}

(* No context is cancelled that a holder has, none has a writer that was     *)
(* given something before it was started.                                    *)
ContextsInUse ==
  /\ live \cap cancelled = {}
  /\ \A c \in todo : pc[c] # "none"
  /\ \A c \in Ctx : pc[c] = "none" => accepted[c] = <<>>

(* Envelopes are numbered in the order they are received, and those in the   *)
(* ingress are the last; upTo is the last number the dispatcher is done with *)
(* or was reported.                                                          *)
upTo == received - Len(ingress) - (IF dispatcher = "lookup" THEN 1 ELSE 0)

Numbered ==
  /\ received = Len(dispatched) + ingressDropped + Len(ingress)
                  + (IF dispatcher = "lookup" THEN 1 ELSE 0)
  /\ \A i \in DOMAIN ingress : ingress[i].n = received - Len(ingress) + i
  /\ dispatcher = "lookup" => current[1].n = upTo + 1
  /\ \A i \in DOMAIN dispatched : dispatched[i].n <= upTo
  /\ \A i, j \in DOMAIN dispatched : i < j => dispatched[i].n < dispatched[j].n

(* The sequence s is what the sequence d has of the app a from the first of  *)
(* s on.                                                                     *)
Follows(s, d, a) ==
  /\ s # <<>>
  /\ \A i \in DOMAIN s : /\ s[i].source = a /\ s[i].n >= s[1].n
                         /\ \E j \in DOMAIN d : d[j] = s[i]
  /\ \A j \in DOMAIN d :
       d[j].source = a /\ d[j].n >= s[1].n => \E i \in DOMAIN s : s[i] = d[j]
  /\ \A i, j \in DOMAIN s : i < j => s[i].n < s[j].n

Connected == {b \in DOMAIN drains : drains[b].writer}

Streams == \A b \in Connected : Follows(Given(drains[b].ctx), dispatched, AppId[b])

(* The envelope a cancelled writer may still be given is the dispatcher's. *)
Stale == \A c \in cancelled :
           Len(accepted[c]) <= flushTo[c] + (IF c \in todo THEN 0 ELSE 1)

AgentInv ==
  /\ M!IInv
  /\ P!IInv
  /\ AgentTypeOK
  /\ Holding
  /\ ContextsInUse
  /\ Numbered
  /\ Streams
  /\ Stale

-----------------------------------------------------------------------------
LEMMA ManagerAssumed == M!ManagerAssumption
BY AgentAssumption DEF M!ManagerAssumption, M!IsFiniteSet, IsFiniteSet

LEMMA WritersAssumed == P!DiodeWriterAssumption
<1>1. IsFiniteSet(Ctx) /\ DiodeSize \in Nat \ {0}
  BY AgentAssumption, FS_Interval DEF Ctx
<1> QED
  BY <1>1 DEF P!IsFiniteSet, IsFiniteSet, P!DiodeWriterAssumption

(* The agent's uses of the manager and the writers are steps of theirs. *)
LEMMA ManagerOperations ==
  /\ \A B : BM!Fetch(B) => M!Fetch(B)
  /\ BM!FirstFetchFails => M!FirstFetchFails
  /\ BM!LaterFetchFails => M!LaterFetchFails
  /\ BM!Tick => M!Tick
  /\ BM!updateDrains => M!updateDrains
  /\ BM!idleCleanup => M!idleCleanup
  /\ \A s : BM!GetDrains(s) => M!GetDrains(s)
<1>1. \A B : BM!Fetch(B) => M!Fetch(B)
  BY DEF BM!Fetch, M!Fetch, BM!Cardinality, M!Cardinality
<1>2. BM!FirstFetchFails => M!FirstFetchFails
  BY DEF BM!FirstFetchFails, M!FirstFetchFails
<1>3. BM!LaterFetchFails => M!LaterFetchFails
  BY DEF BM!LaterFetchFails, M!LaterFetchFails, BM!vars, M!vars
<1>4. BM!Tick => M!Tick
  BY DEF BM!Tick, M!Tick
<1>5. BM!updateDrains => M!updateDrains
  BY DEF BM!updateDrains, M!updateDrains, BM!Held, M!Held, BM!FreshContexts, M!FreshContexts,
         BM!newDrainHolder, M!newDrainHolder, BM!Cancelled, M!Cancelled,
         BM!Contexts, M!Contexts, BM!RemoveDecrement, M!RemoveDecrement,
         BM!Cardinality, M!Cardinality
<1>6. BM!idleCleanup => M!idleCleanup
  BY DEF BM!idleCleanup, M!idleCleanup, BM!Held, M!Held, BM!FreshContexts, M!FreshContexts,
         BM!newDrainHolder, M!newDrainHolder, BM!Cancelled, M!Cancelled,
         BM!Contexts, M!Contexts, BM!IdleDecrement, M!IdleDecrement, BM!Expired, M!Expired,
         BM!BindingsOf, M!BindingsOf, BM!Cardinality, M!Cardinality
<1>7. \A s : BM!GetDrains(s) => M!GetDrains(s)
  BY DEF BM!GetDrains, M!GetDrains, BM!Held, M!Held, BM!ToConnect, M!ToConnect,
         BM!BindingsOf, M!BindingsOf, BM!Cardinality, M!Cardinality
<1> QED
  BY <1>1, <1>2, <1>3, <1>4, <1>5, <1>6, <1>7

LEMMA WriterOperations ==
  /\ \A W : DW!NewDiodeWriters(W) => P!NewDiodeWriters(W)
  /\ \A W : DW!Cancel(W) => P!Cancel(W)
  /\ \A c, m : DW!Write(c, m) => P!Write(c, m)
  /\ \A c : DW!start(c) => P!start(c)
<1>1. \A W : DW!NewDiodeWriters(W) => P!NewDiodeWriters(W)
  BY DEF DW!NewDiodeWriters, P!NewDiodeWriters, DW!Cardinality, P!Cardinality
<1>2. \A W : DW!Cancel(W) => P!Cancel(W)
  BY DEF DW!Cancel, P!Cancel
<1>3. \A c, m : DW!Write(c, m) => P!Write(c, m)
  BY DEF DW!Write, P!Write, DW!Started, P!Started, DW!Set, P!Set
<1>4. \A c : DW!start(c) => P!start(c)
  <2> USE DEF DW!TakeNext, P!TakeNext, DW!Missed, P!Missed, DW!IsEmpty, P!IsEmpty,
         DW!NextOf, P!NextOf, DW!Rest, P!Rest, DW!Empty, P!Empty,
         DW!NextReturnsNil, P!NextReturnsNil, DW!WriteSucceeds, P!WriteSucceeds,
         DW!WriteFails, P!WriteFails, DW!AfterFailure, P!AfterFailure,
         DW!Done, P!Done, DW!Close, P!Close
  <2> SUFFICES ASSUME NEW c, DW!start(c) PROVE P!start(c)
    OBVIOUS
  <2>1. DW!TakeNext(c) => P!TakeNext(c)
    OBVIOUS
  <2>2. DW!NextReturnsNil(c) => P!NextReturnsNil(c)
    OBVIOUS
  <2>3. DW!WriteSucceeds(c) => P!WriteSucceeds(c)
    OBVIOUS
  <2>4. DW!WriteFails(c) => P!WriteFails(c)
    OBVIOUS
  <2>5. DW!Done(c) => P!Done(c)
    OBVIOUS
  <2>6. DW!Close(c) => P!Close(c)
    OBVIOUS
  <2> QED
    BY <2>1, <2>2, <2>3, <2>4, <2>5, <2>6 DEF DW!start, P!start
<1> QED
  BY <1>1, <1>2, <1>3, <1>4

(* The dispatcher's envelope. *)
LEMMA CurrentIsEnvelope ==
  ASSUME AgentTypeOK, Holding, dispatcher # "next"
  PROVE  current[1] \in Envelope /\ current[1].source \in Source /\ current = <<current[1]>>
<1>1. Len(current) = 1 /\ current \in Seq(Envelope)
  BY DEF AgentTypeOK, Holding
<1>2. current[1] \in Envelope
  <2>1. 1 \in 1 .. Len(current)
    BY <1>1
  <2> QED
    BY <1>1, <2>1, ElementOfSeq
<1>3. current = <<current[1]>>
  BY <1>1
<1> QED
  BY <1>2, <1>3 DEF Envelope

LEMMA WritersKeep == AgentInv /\ [Next]_vars => P!IInv'
<1> SUFFICES ASSUME AgentInv, [Next]_vars PROVE P!IInv'
  OBVIOUS
<1> USE DEF AgentInv
<1>1. ASSUME [P!AnyStep]_(P!writerVars) PROVE P!IInv'
  BY <1>1, WritersAssumed, P!StepIInv
<1>2. ASSUME UNCHANGED writerVars PROVE P!IInv'
  BY <1>1, <1>2 DEF writerVars, P!writerVars
<1>3. ASSUME NEW W \in SUBSET Ctx, DW!NewDiodeWriters(W) \/ DW!Cancel(W) PROVE P!IInv'
  BY <1>1, <1>3, WriterOperations DEF P!AnyStep
<1>4. ASSUME NEW c \in Ctx, NEW m \in Envelope, DW!Write(c, m) PROVE P!IInv'
  BY <1>1, <1>4, WriterOperations DEF P!AnyStep
<1>5. ASSUME NEW c \in Ctx, DW!start(c) PROVE P!IInv'
  BY <1>1, <1>5, WriterOperations DEF P!AnyStep
<1>6. \A B : B \subseteq DOMAIN drains => {drains[b].ctx : b \in B} \in SUBSET Ctx
  BY DEF M!IInv, M!TypeOK, M!Held, M!Holder
<1>7. CASE \E e \in Source : Receive(e)
  BY <1>2, <1>7 DEF Receive
<1>8. CASE NextEnvelope
  BY <1>2, <1>8 DEF NextEnvelope
<1>9. CASE LookUp
  <2>1. BM!ToConnect(current[1].source) \subseteq DOMAIN drains
    BY DEF BM!ToConnect, BM!BindingsOf, BM!Held
  <2> QED
    BY <1>3, <1>6, <1>9, <2>1 DEF LookUp
<1>10. ASSUME NEW c \in Ctx, WriteTo(c) PROVE P!IInv'
  BY <1>4, <1>10, CurrentIsEnvelope DEF WriteTo
<1>11. CASE updateDrains
  <2>1. BM!Cancelled(BM!Held \ fetched) \in SUBSET Ctx
    BY <1>6 DEF BM!Cancelled, BM!Held
  <2> QED
    BY <1>3, <1>11, <2>1 DEF updateDrains
<1>12. CASE idleCleanup
  <2>1. BM!Cancelled(BM!BindingsOf(BM!Expired)) \in SUBSET Ctx
    BY <1>6 DEF BM!Cancelled, BM!BindingsOf, BM!Held
  <2> QED
    BY <1>3, <1>12, <2>1 DEF idleCleanup
<1>13. CASE ManagerStep \/ UNCHANGED vars
  BY <1>2, <1>13 DEF ManagerStep, vars
<1>14. ASSUME NEW c \in Ctx, WriterStep(c) PROVE P!IInv'
  BY <1>5, <1>14 DEF WriterStep
<1> QED
  BY <1>7, <1>8, <1>9, <1>10, <1>11, <1>12, <1>13, <1>14 DEF Next, Dispatch

LEMMA ManagerKeeps == AgentInv /\ [Next]_vars => M!IInv'
<1> SUFFICES ASSUME AgentInv, [Next]_vars PROVE M!IInv'
  OBVIOUS
<1> USE DEF AgentInv
<1>1. ASSUME [M!Next]_(M!vars) PROVE M!IInv'
  BY <1>1, ManagerAssumed, M!NextIInv
<1>2. ASSUME UNCHANGED managerVars, Running' = Running PROVE M!IInv'
  BY <1>1, <1>2 DEF managerVars, M!vars
<1>3. CASE \E e \in Source : Receive(e)
  BY <1>2, <1>3 DEF Receive, Running, writerVars
<1>4. CASE NextEnvelope
  BY <1>2, <1>4 DEF NextEnvelope, Running, writerVars
<1>5. CASE LookUp
  BY <1>1, <1>5, CurrentIsEnvelope, ManagerOperations DEF LookUp, M!Next
<1>6. ASSUME NEW c \in Ctx, WriteTo(c) PROVE M!IInv'
  BY <1>2, <1>6 DEF WriteTo, DW!Write, Running
<1>7. CASE updateDrains \/ idleCleanup
  BY <1>1, <1>7, ManagerOperations DEF updateDrains, idleCleanup, M!Next
<1>8. CASE ManagerStep
  BY <1>1, <1>8, ManagerOperations DEF ManagerStep, M!Next
<1>9. ASSUME NEW c \in Ctx, WriterStep(c) PROVE M!IInv'
  <2>1. cancelled' = cancelled /\ \A d \in Ctx : pc'[d] = "none" <=> pc[d] = "none"
    <3>1. pc \in [Ctx -> {"none", "next", "write", "exit", "close", "closed"}]
      BY DEF P!IInv, P!WriterTypeOK
    <3>2. pc[c] # "none" /\ \E x \in {"next", "write", "exit", "close", "closed"} :
                             pc' = [pc EXCEPT ![c] = x]
      BY <1>9 DEF WriterStep, DW!start, DW!TakeNext, DW!NextReturnsNil, DW!WriteSucceeds,
                  DW!WriteFails, DW!AfterFailure, DW!Done, DW!Close
    <3>3. cancelled' = cancelled
      BY <1>9 DEF WriterStep, DW!start, DW!TakeNext, DW!NextReturnsNil, DW!WriteSucceeds,
                  DW!WriteFails, DW!Done, DW!Close
    <3> QED
      BY <3>1, <3>2, <3>3
  <2>2. Running' = Running
    BY <2>1 DEF Running
  <2> QED
    BY <1>2, <1>9, <2>2 DEF WriterStep
<1>10. CASE UNCHANGED vars
  BY <1>2, <1>10 DEF vars, Running, writerVars
<1> QED
  BY <1>3, <1>4, <1>5, <1>6, <1>7, <1>8, <1>9, <1>10 DEF Next, Dispatch

-----------------------------------------------------------------------------
(* A read of the ingress skips some envelopes and returns the next. *)
LEMMA IngressRead ==
  ASSUME NEW d \in Seq(Envelope), d # <<>>
  PROVE  \E k \in 0 .. Len(d) - 1 :
           /\ k = D!Missed(d, IngressSize)
           /\ D!NextOf(d, IngressSize) = d[k + 1] /\ d[k + 1] \in Envelope
           /\ D!Rest(d, IngressSize) \in Seq(Envelope)
           /\ Len(D!Rest(d, IngressSize)) = Len(d) - k - 1
           /\ \A i \in 1 .. Len(d) - k - 1 : D!Rest(d, IngressSize)[i] = d[k + 1 + i]
<1> DEFINE n == Len(d) - 1
           q == n \div IngressSize
           k == q * IngressSize
<1>1. n \in Nat /\ IngressSize \in Nat /\ IngressSize > 0
  BY AgentAssumption
<1>2. q \in Nat /\ n = (IngressSize * q) + (n % IngressSize) /\ (n % IngressSize) \in Nat
  BY <1>1
<1>3. q * IngressSize \in Nat /\ q * IngressSize = IngressSize * q
  BY <1>1, <1>2
<1>4. k \in 0 .. n /\ k = D!Missed(d, IngressSize)
  <2>1. k = D!Missed(d, IngressSize)
    BY DEF D!Missed
  <2> HIDE DEF q
  <2>2. q * IngressSize <= n
    BY <1>1, <1>2, <1>3
  <2> QED
    BY <1>1, <1>3, <2>1, <2>2
<1> HIDE DEF k, q
<1>5. Len(d) \in Nat /\ k \in 0 .. Len(d) - 1
  BY <1>4
<1>6. d[k + 1] \in Envelope
  BY <1>5, ElementOfSeq
<1>7. \A i \in k + 2 .. Len(d) : d[i] \in Envelope
  BY <1>5, ElementOfSeq
<1> DEFINE r == SubSeq(d, k + 2, Len(d))
<1>8. /\ r \in Seq(Envelope) /\ Len(r) = IF k + 2 <= Len(d) THEN Len(d) - (k + 2) + 1 ELSE 0
      /\ \A i \in 1 .. Len(d) - (k + 2) + 1 : r[i] = d[k + 2 + i - 1]
  BY <1>5, <1>7, SubSeqProperties
<1> HIDE DEF r
<1>9. Len(r) = Len(d) - k - 1 /\ \A i \in 1 .. Len(d) - k - 1 : r[i] = d[k + 1 + i]
  <2>1. Len(r) = Len(d) - k - 1
    BY <1>5, <1>8
  <2>2. ASSUME NEW i \in 1 .. Len(d) - k - 1 PROVE r[i] = d[k + 1 + i]
    <3>1. i \in 1 .. Len(d) - (k + 2) + 1 /\ k + 2 + i - 1 = k + 1 + i
      BY <1>5
    <3> QED
      BY <1>8, <3>1
  <2> QED
    BY <2>1, <2>2
<1> QED
  BY <1>4, <1>5, <1>6, <1>8, <1>9 DEF D!NextOf, D!Rest, r

LEMMA DispatchTypes == AgentInv /\ [Next]_vars => AgentTypeOK' /\ Holding'
<1> SUFFICES ASSUME AgentInv, [Next]_vars PROVE AgentTypeOK' /\ Holding'
  OBVIOUS
<1> USE DEF AgentInv, AgentTypeOK, Holding
<1>1. CASE UNCHANGED dispatchVars
  BY <1>1 DEF dispatchVars
<1>2. CASE \E e \in Source : Receive(e)
  <2> PICK e \in Source : Receive(e)
    BY <1>2
  <2>1. received' \in 1 .. MaxEnvelopes /\ MaxEnvelopes \in Nat
    BY AgentAssumption DEF Receive
  <2>2. [source |-> e, n |-> received'] \in Envelope
    BY <2>1 DEF Envelope
  <2>3. ingress' \in Seq(Envelope)
    BY <2>2, AppendProperties DEF Receive, D!Set
  <2> QED
    BY <2>1, <2>3 DEF Receive
<1>3. CASE NextEnvelope
  <2>1. PICK k \in 0 .. Len(ingress) - 1 :
          /\ k = D!Missed(ingress, IngressSize)
          /\ D!NextOf(ingress, IngressSize) = ingress[k + 1] /\ ingress[k + 1] \in Envelope
          /\ D!Rest(ingress, IngressSize) \in Seq(Envelope)
    BY <1>3, IngressRead DEF NextEnvelope, D!IsEmpty, D!Empty
  <2>2. current' = <<ingress[k + 1]>> /\ ingress' \in Seq(Envelope)
        /\ ingressDropped' = ingressDropped + k
    BY <1>3, <2>1 DEF NextEnvelope
  <2>3. current' \in Seq(Envelope) /\ Len(current') = 1 /\ ingressDropped' \in Nat
    BY <2>1, <2>2
  <2> QED
    BY <1>3, <2>2, <2>3 DEF NextEnvelope
<1>4. CASE LookUp
  <2>1. current[1] \in Envelope /\ Len(current) = 1
    BY <1>4, CurrentIsEnvelope DEF LookUp
  <2>2. dispatched' \in Seq(Envelope)
    BY <1>4, <2>1, AppendProperties DEF LookUp
  <2>3. todo' \subseteq Ctx
    BY <1>4 DEF LookUp, BM!Returned, BM!BindingsOf, BM!ToConnect, BM!Held,
                M!IInv, M!TypeOK, M!Held, M!Holder
  <2>4. todo' = {} => current' = <<>> /\ dispatcher' = "next"
    BY <1>4 DEF LookUp, AfterLookup
  <2>5. todo' # {} => current' = current /\ dispatcher' = "write"
    BY <1>4 DEF LookUp, AfterLookup
  <2>6. UNCHANGED <<ingress, received, ingressDropped>>
    BY <1>4 DEF LookUp
  <2> QED
    BY <2>1, <2>2, <2>3, <2>4, <2>5, <2>6, EmptySeq
<1>5. ASSUME NEW c \in Ctx, WriteTo(c) PROVE AgentTypeOK' /\ Holding'
  <2>1. Len(current) = 1 /\ todo' \subseteq Ctx
    BY <1>5 DEF WriteTo
  <2>2. todo' = {} => current' = <<>> /\ dispatcher' = "next"
    BY <1>5 DEF WriteTo, AfterLookup
  <2>3. todo' # {} => current' = current /\ dispatcher' = "write"
    BY <1>5 DEF WriteTo, AfterLookup
  <2>4. UNCHANGED <<ingress, received, ingressDropped, dispatched>>
    BY <1>5 DEF WriteTo
  <2> QED
    BY <2>1, <2>2, <2>3, <2>4, EmptySeq
<1> QED
  BY <1>1, <1>2, <1>3, <1>4, <1>5
     DEF Next, Dispatch, updateDrains, idleCleanup, ManagerStep, WriterStep, vars

LEMMA NumbersKept == AgentInv /\ [Next]_vars => Numbered'
<1> SUFFICES ASSUME AgentInv, [Next]_vars PROVE Numbered'
  OBVIOUS
<1>1. CASE UNCHANGED <<ingress, received, ingressDropped, dispatcher, current, dispatched>>
  BY <1>1 DEF AgentInv, Numbered, upTo
<1> PICK r : r = received /\ r \in Nat
  BY AgentAssumption DEF AgentInv, AgentTypeOK
<1> PICK l : l = Len(ingress) /\ l \in Nat
  BY DEF AgentInv, AgentTypeOK
<1> PICK d : d = Len(dispatched) /\ d \in Nat
  BY DEF AgentInv, AgentTypeOK
<1> PICK x : x = ingressDropped /\ x \in Nat
  BY DEF AgentInv, AgentTypeOK
<1>6. /\ ingress \in Seq(Envelope) /\ dispatched \in Seq(Envelope)
      /\ DOMAIN ingress = 1 .. l /\ DOMAIN dispatched = 1 .. d
  BY LenProperties DEF AgentInv, AgentTypeOK
<1>7. \A e \in Envelope : e.n \in Nat
  BY AgentAssumption DEF Envelope
<1>8. \A i \in 1 .. d : dispatched[i].n \in Nat
  BY <1>6, <1>7, ElementOfSeq
<1>9. /\ r = d + x + l + (IF dispatcher = "lookup" THEN 1 ELSE 0)
      /\ \A i \in 1 .. l : ingress[i].n = r - l + i
      /\ dispatcher = "lookup" => current[1].n = upTo + 1
      /\ \A i \in 1 .. d : dispatched[i].n <= upTo
      /\ \A i, j \in 1 .. d : i < j => dispatched[i].n < dispatched[j].n
  BY <1>6 DEF AgentInv, Numbered
<1>10. upTo = r - l - (IF dispatcher = "lookup" THEN 1 ELSE 0)
  BY DEF upTo
<1>2. CASE \E e \in Source : Receive(e)
  <2> PICK e \in Source : Receive(e)
    BY <1>2
  <2>1. received' \in 1 .. MaxEnvelopes /\ received' = r + 1
    BY AgentAssumption DEF Receive
  <2> DEFINE m == [source |-> e, n |-> r + 1]
  <2>2. m \in Envelope /\ m.n = r + 1
    BY <2>1 DEF Envelope
  <2>3. ingress' = Append(ingress, m)
    BY <2>1 DEF Receive, D!Set
  <2> HIDE DEF m
  <2>4. /\ Len(ingress') = l + 1 /\ DOMAIN ingress' = 1 .. l + 1
        /\ \A i \in 1 .. l : ingress'[i] = ingress[i]
        /\ ingress'[l + 1] = m
    BY <1>6, <2>2, <2>3, AppendProperties, LenProperties
  <2>5. UNCHANGED <<ingressDropped, dispatcher, current, dispatched>>
    BY DEF Receive
  <2>6. \A i \in DOMAIN ingress' : ingress'[i].n = r + 1 - (l + 1) + i
    <3> SUFFICES ASSUME NEW i \in 1 .. l + 1 PROVE ingress'[i].n = r + 1 - (l + 1) + i
      BY <2>4
    <3>1. CASE i = l + 1
      BY <2>2, <2>4, <3>1
    <3>2. CASE i \in 1 .. l
      <4>1. ingress'[i].n = r - l + i
        BY <1>9, <2>4, <3>2
      <4> QED
        BY <4>1
    <3> QED
      BY <3>1, <3>2
  <2>7. upTo' = upTo
    BY <1>10, <2>1, <2>4, <2>5 DEF upTo
  <2>8. received' = Len(dispatched') + ingressDropped' + Len(ingress')
                  + (IF dispatcher' = "lookup" THEN 1 ELSE 0)
    BY <1>9, <2>1, <2>4, <2>5
  <2> QED
    BY <1>6, <1>9, <2>1, <2>4, <2>5, <2>6, <2>7, <2>8 DEF Numbered
<1>3. CASE NextEnvelope
  <2>1. PICK k \in 0 .. l - 1 :
          /\ k = D!Missed(ingress, IngressSize)
          /\ D!NextOf(ingress, IngressSize) = ingress[k + 1]
          /\ D!Rest(ingress, IngressSize) \in Seq(Envelope)
          /\ Len(D!Rest(ingress, IngressSize)) = l - k - 1
          /\ \A i \in 1 .. l - k - 1 : D!Rest(ingress, IngressSize)[i] = ingress[k + 1 + i]
    BY <1>3, <1>6, IngressRead DEF NextEnvelope, D!IsEmpty, D!Empty
  <2>2. /\ Len(ingress') = l - k - 1 /\ DOMAIN ingress' = 1 .. l - k - 1
        /\ \A i \in 1 .. l - k - 1 : ingress'[i] = ingress[k + 1 + i]
    BY <1>3, <2>1, LenProperties DEF NextEnvelope
  <2>3. /\ dispatcher = "next" /\ dispatcher' = "lookup" /\ ingressDropped' = x + k
        /\ current'[1] = ingress[k + 1] /\ received' = r /\ dispatched' = dispatched
    BY <1>3, <2>1 DEF NextEnvelope
  <2>4. ingress[k + 1].n = r - l + (k + 1)
    <3>1. k + 1 \in 1 .. l
      BY <2>1
    <3> QED
      BY <1>9, <3>1
  <2>5. upTo' = r - l + k /\ upTo = r - l
    <3>1. upTo' = r - (l - k - 1) - 1
      BY <2>2, <2>3 DEF upTo
    <3>2. r - (l - k - 1) - 1 = r - l + k
      BY <2>1
    <3> QED
      BY <1>10, <2>3, <3>1, <3>2
  <2>6. \A i \in DOMAIN ingress' : ingress'[i].n = received' - Len(ingress') + i
    <3> SUFFICES ASSUME NEW i \in 1 .. l - k - 1
                 PROVE  ingress'[i].n = r - (l - k - 1) + i
      BY <2>2, <2>3
    <3>1. k + 1 + i \in 1 .. l
      BY <2>1
    <3>2. ingress'[i].n = r - l + (k + 1 + i)
      BY <1>9, <2>2, <3>1
    <3>3. r - l + (k + 1 + i) = r - (l - k - 1) + i
      BY <2>1
    <3> QED
      BY <3>2, <3>3
  <2>7. received' = Len(dispatched') + ingressDropped' + Len(ingress') + 1
    <3>1. r = d + x + l
      BY <1>9, <2>3
    <3>2. k \in Int
      BY <2>1
    <3>3. d + x + l = d + (x + k) + (l - k - 1) + 1
      BY <3>2
    <3> QED
      BY <2>2, <2>3, <3>1, <3>3
  <2>8. \A i \in 1 .. d : dispatched'[i].n <= upTo'
    <3> SUFFICES ASSUME NEW i \in 1 .. d PROVE dispatched[i].n <= r - l + k
      BY <2>3, <2>5
    <3>1. dispatched[i].n <= r - l /\ dispatched[i].n \in Nat
      BY <1>8, <1>9, <2>5
    <3> QED
      BY <2>1, <3>1
  <2>9. current'[1].n = upTo' + 1
    BY <2>1, <2>3, <2>4, <2>5
  <2> QED
    BY <1>6, <1>9, <2>2, <2>3, <2>6, <2>7, <2>8, <2>9 DEF Numbered
<1>4. CASE LookUp
  <2> DEFINE e == current[1]
  <2>1. e \in Envelope /\ dispatcher = "lookup"
    BY <1>4, CurrentIsEnvelope DEF LookUp, AgentInv
  <2>2. dispatched' = Append(dispatched, e) /\ UNCHANGED <<ingress, received, ingressDropped>>
        /\ dispatcher' # "lookup"
    BY <1>4 DEF LookUp, AfterLookup
  <2>3. e.n = r - l /\ upTo = r - l - 1 /\ upTo' = r - l
    <3>1. upTo = r - l - 1 /\ upTo' = r - l
      BY <1>10, <2>1, <2>2 DEF upTo
    <3>2. e.n = upTo + 1
      BY <1>9, <2>1
    <3>3. r - l - 1 + 1 = r - l
      OBVIOUS
    <3> QED
      BY <3>1, <3>2, <3>3
  <2> HIDE DEF e
  <2>4. /\ Len(dispatched') = d + 1 /\ DOMAIN dispatched' = 1 .. d + 1
        /\ \A i \in 1 .. d : dispatched'[i] = dispatched[i]
        /\ dispatched'[d + 1] = e
    BY <1>6, <2>1, <2>2, AppendProperties, LenProperties
  <2>5. \A i \in 1 .. d : dispatched'[i].n \in Nat /\ dispatched'[i].n <= r - l - 1
    BY <1>8, <1>9, <2>3, <2>4
  <2>6. ASSUME NEW i \in 1 .. d + 1 PROVE dispatched'[i].n <= r - l
    <3>1. CASE i = d + 1
      BY <2>3, <2>4, <3>1
    <3>2. CASE i \in 1 .. d
      <4>1. dispatched'[i].n \in Nat /\ dispatched'[i].n <= r - l - 1
        BY <2>5, <3>2
      <4> QED
        BY <4>1
    <3> QED
      BY <3>1, <3>2
  <2>7. ASSUME NEW i \in 1 .. d + 1, NEW j \in 1 .. d + 1, i < j
        PROVE  dispatched'[i].n < dispatched'[j].n
    <3>1. i \in 1 .. d
      BY <2>7
    <3>2. CASE j = d + 1
      <4>1. dispatched'[i].n \in Nat /\ dispatched'[i].n <= r - l - 1
        BY <2>5, <3>1
      <4> QED
        BY <2>3, <2>4, <3>2, <4>1
    <3>3. CASE j \in 1 .. d
      BY <1>9, <2>4, <2>7, <3>1, <3>3
    <3> QED
      BY <3>2, <3>3
  <2>8. received' = Len(dispatched') + ingressDropped' + Len(ingress')
    <3>1. r = d + x + l + 1
      BY <1>9, <2>1
    <3>2. d + x + l + 1 = (d + 1) + x + l
      OBVIOUS
    <3> QED
      BY <2>2, <2>4, <3>1, <3>2
  <2>9. \A i \in DOMAIN ingress' : ingress'[i].n = received' - Len(ingress') + i
    BY <1>6, <1>9, <2>2
  <2> QED
    BY <2>2, <2>3, <2>4, <2>6, <2>7, <2>8, <2>9 DEF Numbered
<1>5. ASSUME NEW c \in Ctx, WriteTo(c) PROVE Numbered'
  <2>1. dispatcher' # "lookup" /\ dispatcher # "lookup"
        /\ UNCHANGED <<ingress, received, ingressDropped, dispatched>>
    BY <1>5 DEF WriteTo, AfterLookup
  <2> QED
    BY <2>1 DEF AgentInv, Numbered, upTo
<1> QED
  BY <1>1, <1>2, <1>3, <1>4, <1>5
     DEF Next, Dispatch, updateDrains, idleCleanup, ManagerStep, WriterStep, vars, dispatchVars

-----------------------------------------------------------------------------
(* The contexts GetDrains returns are those of live holders; what it         *)
(* connects was not started.                                                 *)
LEMMA ReturnedContexts ==
  ASSUME AgentInv, LookUp
  PROVE  LET s == current[1].source
             new == {b \in DOMAIN drains : AppId[b] = s /\ b \notin Unconnectable
                                             /\ ~drains[b].writer}
         IN  /\ todo' = {drains[b].ctx : b \in {x \in Connected : AppId[x] = s} \cup new}
             /\ todo' \subseteq live
             /\ \A b \in new : pc[drains[b].ctx] = "none" /\ pc'[drains[b].ctx] = "next"
             /\ \A c \in Ctx : pc[c] # "none" => pc'[c] # "none"
             /\ drains' = [b \in DOMAIN drains |-> IF b \in new
                             THEN [drains[b] EXCEPT !.writer = TRUE] ELSE drains[b]]
<1> DEFINE s == current[1].source
           new == {b \in DOMAIN drains : AppId[b] = s /\ b \notin Unconnectable
                                           /\ ~drains[b].writer}
<1>1. BM!ToConnect(s) = new
  BY DEF BM!ToConnect, BM!BindingsOf, BM!Held
<1>2. \A b \in DOMAIN drains : drains[b].ctx \in live /\ drains[b].ctx \in Ctx
  BY DEF AgentInv, M!IInv, M!WritersAccounted, M!TypeOK, M!Cancelled, M!Held, M!Holder
<1>3. BM!Returned(s) = {drains[b].ctx : b \in {x \in Connected : AppId[x] = s} \cup new}
  BY <1>1 DEF BM!Returned, BM!BindingsOf, BM!Held, Connected
<1>4. todo' = BM!Returned(s) /\ BM!GetDrains(s)
      /\ DW!NewDiodeWriters({drains[b].ctx : b \in new})
  BY <1>1 DEF LookUp
<1>5. todo' \subseteq live
  BY <1>2, <1>3, <1>4 DEF Connected
<1>6. /\ \A b \in new : pc[drains[b].ctx] = "none" /\ pc'[drains[b].ctx] = "next"
      /\ \A c \in Ctx : pc[c] # "none" => pc'[c] # "none"
  BY <1>2, <1>4 DEF DW!NewDiodeWriters
<1>7. drains' = [b \in DOMAIN drains |-> IF b \in new
                   THEN [drains[b] EXCEPT !.writer = TRUE] ELSE drains[b]]
  BY <1>1, <1>4 DEF BM!GetDrains, BM!Held
<1> QED
  BY <1>3, <1>4, <1>5, <1>6, <1>7

LEMMA ContextsKept == AgentInv /\ [Next]_vars => ContextsInUse'
<1> SUFFICES ASSUME AgentInv, [Next]_vars PROVE ContextsInUse'
  OBVIOUS
<1>1. /\ live \cap cancelled = {} /\ \A c \in todo : pc[c] # "none"
      /\ \A c \in Ctx : pc[c] = "none" => accepted[c] = <<>>
  BY DEF AgentInv, ContextsInUse
<1>2. CASE UNCHANGED <<live, pc, cancelled, accepted, todo>>
  BY <1>1, <1>2 DEF ContextsInUse
<1>3. CASE LookUp
  <2>1. UNCHANGED <<live, cancelled, accepted>>
    BY <1>3 DEF LookUp, BM!GetDrains, DW!NewDiodeWriters
  <2>2. \A c \in Ctx : pc'[c] = "none" => pc[c] = "none"
    BY <1>3, ReturnedContexts
  <2>3. ASSUME NEW b \in Connected PROVE pc'[drains[b].ctx] # "none"
    <3>1. drains[b].ctx \in Running
      BY DEF AgentInv, M!IInv, M!WritersAccounted, M!Cancelled, M!Connected, M!Held, Connected
    <3> QED
      BY <2>2, <3>1 DEF Running
  <2>4. \A c \in todo' : pc'[c] # "none"
    BY <1>3, <2>3, ReturnedContexts
  <2> QED
    BY <1>1, <2>1, <2>2, <2>4 DEF ContextsInUse
<1>4. ASSUME NEW c \in Ctx, WriteTo(c) PROVE ContextsInUse'
  <2>1. accepted \in [Ctx -> Seq(Envelope)]
    BY DEF AgentInv, P!IInv, P!WriterTypeOK
  <2>2. pc[c] # "none" /\ UNCHANGED <<live, cancelled, pc>> /\ todo' \subseteq todo
        /\ \A d \in Ctx \ {c} : accepted'[d] = accepted[d]
    BY <1>4, <2>1 DEF WriteTo, DW!Write, DW!Started, managerVars
  <2> QED
    BY <1>1, <2>2 DEF ContextsInUse
<1>5. ASSUME NEW W, NEW made, ContextsInOrder,
             UNCHANGED <<pc, accepted, todo>>,
             live' = (live \ W) \cup made, made \cap live = {}, cancelled' = cancelled \cup W
      PROVE  ContextsInUse'
  <2>1. \A c \in live' \ live : c \notin cancelled'
    BY <1>5 DEF ContextsInOrder
  <2> QED
    BY <1>1, <1>5, <2>1 DEF ContextsInUse
<1>6. CASE updateDrains
  <2> DEFINE W == BM!Cancelled(BM!Held \ fetched)
  <2>1. PICK new \in BM!FreshContexts(fetched \ BM!Held) :
          live' = (live \ W) \cup BM!Contexts(new)
    BY <1>6 DEF updateDrains, BM!updateDrains
  <2>2. BM!Contexts(new) \cap live = {}
    BY DEF BM!FreshContexts, BM!Contexts
  <2>3. cancelled' = cancelled \cup W /\ ContextsInOrder /\ UNCHANGED <<pc, accepted, todo>>
    BY <1>6 DEF updateDrains, DW!Cancel, dispatchVars
  <2> QED
    BY <1>5, <2>1, <2>2, <2>3
<1>7. CASE idleCleanup
  <2> DEFINE W == BM!Cancelled(BM!BindingsOf(BM!Expired))
  <2>1. PICK new \in BM!FreshContexts(BM!BindingsOf(BM!Expired)) :
          live' = (live \ W) \cup BM!Contexts(new)
    BY <1>7 DEF idleCleanup, BM!idleCleanup
  <2>2. BM!Contexts(new) \cap live = {}
    BY DEF BM!FreshContexts, BM!Contexts
  <2>3. cancelled' = cancelled \cup W /\ ContextsInOrder /\ UNCHANGED <<pc, accepted, todo>>
    BY <1>7 DEF idleCleanup, DW!Cancel, dispatchVars
  <2> QED
    BY <1>5, <2>1, <2>2, <2>3
<1>8. ASSUME NEW c \in Ctx, WriterStep(c) PROVE ContextsInUse'
  <2>1. pc \in [Ctx -> {"none", "next", "write", "exit", "close", "closed"}]
    BY DEF AgentInv, P!IInv, P!WriterTypeOK
  <2>2. pc[c] # "none" /\ \E x \in {"next", "write", "exit", "close", "closed"} :
                             pc' = [pc EXCEPT ![c] = x]
    BY <1>8 DEF WriterStep, DW!start, DW!TakeNext, DW!NextReturnsNil, DW!WriteSucceeds,
                DW!WriteFails, DW!AfterFailure, DW!Done, DW!Close
  <2>3. UNCHANGED <<live, cancelled, accepted, todo>>
    BY <1>8 DEF WriterStep, DW!start, DW!TakeNext, DW!NextReturnsNil, DW!WriteSucceeds,
                DW!WriteFails, DW!Done, DW!Close, managerVars, dispatchVars
  <2>4. \A d \in Ctx : pc'[d] = "none" <=> pc[d] = "none"
    BY <2>1, <2>2
  <2>5. todo \subseteq Ctx
    BY DEF AgentInv, AgentTypeOK
  <2> QED
    BY <1>1, <2>3, <2>4, <2>5 DEF ContextsInUse
<1>9. CASE ManagerStep
  <2>1. UNCHANGED <<live, pc, cancelled, accepted, todo>>
    BY <1>9 DEF ManagerStep, BM!Fetch, BM!FirstFetchFails, BM!LaterFetchFails, BM!Tick,
                BM!vars, writerVars, dispatchVars
  <2> QED
    BY <1>2, <2>1
<1>10. CASE (\E e \in Source : Receive(e)) \/ NextEnvelope \/ UNCHANGED vars
  <2>1. UNCHANGED <<live, pc, cancelled, accepted, todo>>
    BY <1>10 DEF Receive, NextEnvelope, vars, managerVars, writerVars, dispatchVars
  <2> QED
    BY <1>2, <2>1
<1> QED
  BY <1>3, <1>4, <1>6, <1>7, <1>8, <1>9, <1>10 DEF Next, Dispatch

LEMMA StaleKept == AgentInv /\ [Next]_vars => Stale'
<1> SUFFICES ASSUME AgentInv, [Next]_vars, NEW c \in cancelled'
             PROVE  Len(accepted'[c]) <= flushTo'[c] + (IF c \in todo' THEN 0 ELSE 1)
  BY DEF Stale
<1>1. /\ accepted \in [Ctx -> Seq(Envelope)] /\ flushTo \in [Ctx -> Nat]
      /\ cancelled \subseteq Ctx /\ todo \subseteq Ctx
  BY DEF AgentInv, P!IInv, P!WriterTypeOK, AgentTypeOK
<1>2. cancelled' \subseteq Ctx
  BY WritersKeep DEF P!IInv, P!WriterTypeOK
<1>3. c \in cancelled => Len(accepted[c]) <= flushTo[c] + (IF c \in todo THEN 0 ELSE 1)
  BY DEF AgentInv, Stale
<1>4. CASE UNCHANGED <<cancelled, accepted, flushTo, todo>>
  BY <1>3, <1>4
<1>5. CASE LookUp
  <2>1. UNCHANGED <<cancelled, accepted, flushTo>> /\ todo = {}
    BY <1>5 DEF LookUp, DW!NewDiodeWriters, AgentInv, Holding
  <2>2. c \notin todo'
    BY <1>5, <2>1, ReturnedContexts DEF AgentInv, ContextsInUse
  <2> QED
    BY <1>3, <2>1, <2>2
<1>6. ASSUME NEW d \in Ctx, WriteTo(d)
      PROVE  Len(accepted'[c]) <= flushTo'[c] + (IF c \in todo' THEN 0 ELSE 1)
  <2>1. /\ d \in todo /\ todo' = todo \ {d} /\ UNCHANGED <<cancelled, flushTo>>
        /\ accepted' = [accepted EXCEPT ![d] = Append(@, current[1])]
    BY <1>6 DEF WriteTo, DW!Write
  <2>2. CASE c = d
    <3>1. Len(accepted[c]) <= flushTo[c] /\ c \notin todo'
      BY <1>1, <1>3, <2>1, <2>2
    <3>2. current[1] \in Envelope
      BY <1>6, CurrentIsEnvelope DEF AgentInv, WriteTo
    <3>3. Len(accepted'[c]) = Len(accepted[c]) + 1
      BY <1>1, <2>1, <2>2, <3>2, AppendProperties
    <3>4. Len(accepted[c]) \in Nat /\ flushTo[c] \in Nat
      BY <1>1, <2>2
    <3> QED
      BY <2>1, <3>1, <3>3, <3>4
  <2>3. CASE c # d
    BY <1>1, <1>2, <1>3, <2>1, <2>3
  <2> QED
    BY <2>2, <2>3
<1>7. ASSUME NEW W, DW!Cancel(W), todo' = todo
      PROVE  Len(accepted'[c]) <= flushTo'[c] + (IF c \in todo' THEN 0 ELSE 1)
  <2>1. /\ accepted' = accepted /\ cancelled' = cancelled \cup W
        /\ flushTo'[c] = IF c \in W \ cancelled THEN Len(accepted[c]) ELSE flushTo[c]
    BY <1>2, <1>7 DEF DW!Cancel
  <2>2. CASE c \in cancelled
    BY <1>3, <1>7, <2>1, <2>2
  <2>3. CASE c \notin cancelled
    <3>1. flushTo'[c] = Len(accepted'[c]) /\ Len(accepted[c]) \in Nat
      BY <1>1, <1>2, <2>1, <2>3
    <3> QED
      BY <2>1, <3>1
  <2> QED
    BY <2>2, <2>3
<1>8. CASE updateDrains \/ idleCleanup
  BY <1>7, <1>8 DEF updateDrains, idleCleanup, dispatchVars
<1>9. ASSUME NEW d \in Ctx, WriterStep(d)
      PROVE  UNCHANGED <<cancelled, accepted, flushTo, todo>>
  BY <1>9 DEF WriterStep, DW!start, DW!TakeNext, DW!NextReturnsNil, DW!WriteSucceeds,
              DW!WriteFails, DW!Done, DW!Close, dispatchVars
<1>10. CASE ManagerStep \/ (\E e \in Source : Receive(e)) \/ NextEnvelope \/ UNCHANGED vars
  <2>1. UNCHANGED <<cancelled, accepted, flushTo, todo>>
    BY <1>10 DEF ManagerStep, Receive, NextEnvelope, vars, writerVars, dispatchVars
  <2> QED
    BY <1>4, <2>1
<1> QED
  BY <1>4, <1>5, <1>6, <1>8, <1>9, <1>10 DEF Next, Dispatch

-----------------------------------------------------------------------------
(* The next envelope dispatched goes on with the streams of its app only,    *)
LEMMA FollowsMore ==
  ASSUME NEW s \in Seq(Envelope), NEW d \in Seq(Envelope), NEW e \in Envelope, NEW a,
         \A j \in DOMAIN d : d[j].n < e.n, Follows(s, d, a)
  PROVE  /\ e.source = a => Follows(Append(s, e), Append(d, e), a)
         /\ e.source # a => Follows(s, Append(d, e), a)
<1> DEFINE t == Append(s, e)
           f == Append(d, e)
<1>1. /\ Len(s) \in Nat /\ DOMAIN s = 1 .. Len(s) /\ DOMAIN t = 1 .. Len(s) + 1
      /\ \A i \in 1 .. Len(s) : t[i] = s[i]
      /\ t[Len(s) + 1] = e /\ t # <<>>
  BY AppendProperties, LenProperties
<1>2. /\ Len(d) \in Nat /\ DOMAIN d = 1 .. Len(d) /\ DOMAIN f = 1 .. Len(d) + 1
      /\ \A i \in 1 .. Len(d) : f[i] = d[i]
      /\ f[Len(d) + 1] = e
  BY AppendProperties, LenProperties
<1>3. /\ s # <<>>
      /\ \A i \in DOMAIN s : /\ s[i].source = a /\ s[i].n >= s[1].n
                             /\ \E j \in DOMAIN d : d[j] = s[i]
      /\ \A j \in DOMAIN d :
           d[j].source = a /\ d[j].n >= s[1].n => \E i \in DOMAIN s : s[i] = d[j]
      /\ \A i, j \in DOMAIN s : i < j => s[i].n < s[j].n
  BY DEF Follows
<1>4. e.n \in Nat /\ \A i \in 1 .. Len(s) : s[i].n \in Nat
  <2>1. \A x \in Envelope : x.n \in Nat
    BY AgentAssumption DEF Envelope
  <2> QED
    BY <1>1, <2>1, ElementOfSeq
<1>5. 1 \in 1 .. Len(s) /\ t[1] = s[1]
  BY <1>1, <1>3, EmptySeq
<1> HIDE DEF t, f
<1>6. \A i \in 1 .. Len(s) : s[i].n < e.n
  BY <1>1, <1>3
<1>7. \A j \in DOMAIN d : j \in DOMAIN f /\ f[j] = d[j]
  BY <1>2
<1>8. \A i \in DOMAIN s : \E j \in DOMAIN f : f[j] = s[i]
  BY <1>3, <1>7
<1>9. \A j \in DOMAIN f : j \in DOMAIN d \/ (j = Len(d) + 1 /\ f[j] = e)
  BY <1>2
<1>10. ASSUME e.source # a PROVE Follows(s, f, a)
  <2>1. ASSUME NEW j \in DOMAIN f, f[j].source = a, f[j].n >= s[1].n
        PROVE  \E i \in DOMAIN s : s[i] = f[j]
    <3>1. j \in DOMAIN d /\ f[j] = d[j]
      BY <1>7, <1>9, <1>10, <2>1
    <3> QED
      BY <1>3, <2>1, <3>1
  <2> QED
    BY <1>3, <1>8, <2>1 DEF Follows
<1>11. ASSUME e.source = a PROVE Follows(t, f, a)
  <2>1. ASSUME NEW i \in DOMAIN t
        PROVE  t[i].source = a /\ t[i].n >= t[1].n /\ \E j \in DOMAIN f : f[j] = t[i]
    <3>1. CASE i = Len(s) + 1
      <4>1. t[i] = e /\ Len(d) + 1 \in DOMAIN f /\ f[Len(d) + 1] = e
        BY <1>1, <1>2, <3>1
      <4>2. e.n >= s[1].n
        BY <1>4, <1>5, <1>6
      <4> QED
        BY <1>5, <1>11, <4>1, <4>2
    <3>2. CASE i \in 1 .. Len(s)
      BY <1>1, <1>3, <1>5, <1>8, <3>2
    <3> QED
      BY <1>1, <3>1, <3>2
  <2>2. ASSUME NEW j \in DOMAIN f, f[j].source = a, f[j].n >= t[1].n
        PROVE  \E i \in DOMAIN t : t[i] = f[j]
    <3>1. CASE j \in DOMAIN d
      <4>1. PICK i \in DOMAIN s : s[i] = d[j]
        BY <1>3, <1>5, <1>7, <2>2, <3>1
      <4>2. i \in DOMAIN t /\ t[i] = s[i]
        BY <1>1
      <4> QED
        BY <1>7, <3>1, <4>1, <4>2
    <3>2. CASE f[j] = e
      <4>1. Len(s) + 1 \in DOMAIN t
        BY <1>1
      <4> QED
        BY <1>1, <3>2, <4>1
    <3> QED
      BY <1>9, <3>1, <3>2
  <2>3. ASSUME NEW i \in DOMAIN t, NEW j \in DOMAIN t, i < j PROVE t[i].n < t[j].n
    <3>1. i \in 1 .. Len(s)
      BY <1>1, <2>3
    <3>2. CASE j = Len(s) + 1
      BY <1>1, <1>6, <3>1, <3>2
    <3>3. CASE j \in 1 .. Len(s)
      BY <1>1, <1>3, <2>3, <3>1, <3>3
    <3> QED
      BY <1>1, <3>2, <3>3
  <2> QED
    BY <1>1, <2>1, <2>2, <2>3 DEF Follows
<1> QED
  BY <1>10, <1>11 DEF t, f

(* and begins the stream of a writer that was just started. *)
LEMMA FollowsFirst ==
  ASSUME NEW d \in Seq(Envelope), NEW e \in Envelope, \A j \in DOMAIN d : d[j].n < e.n
  PROVE  Follows(<<e>>, Append(d, e), e.source)
<1> DEFINE f == Append(d, e)
<1>1. /\ Len(d) \in Nat /\ DOMAIN d = 1 .. Len(d) /\ DOMAIN f = 1 .. Len(d) + 1
      /\ \A i \in 1 .. Len(d) : f[i] = d[i]
      /\ f[Len(d) + 1] = e
  BY AppendProperties, LenProperties
<1>2. e.n \in Nat /\ \A i \in 1 .. Len(d) : d[i].n \in Nat
  <2>1. \A x \in Envelope : x.n \in Nat
    BY AgentAssumption DEF Envelope
  <2> QED
    BY <1>1, <2>1, ElementOfSeq
<1> DEFINE t == <<e>>
<1>3. t # <<>> /\ DOMAIN t = {1} /\ t[1] = e
  OBVIOUS
<1> HIDE DEF t, f
<1>4. \A j \in DOMAIN f : f[j].n >= e.n => f[j] = e
  <2> SUFFICES ASSUME NEW j \in DOMAIN f, f[j] # e PROVE ~(f[j].n >= e.n)
    OBVIOUS
  <2>1. j \in 1 .. Len(d)
    BY <1>1
  <2> QED
    BY <1>1, <1>2, <2>1
<1>5. Len(d) + 1 \in DOMAIN f
  BY <1>1
<1>6. e.n >= e.n
  BY <1>2
<1> QED
  BY <1>1, <1>3, <1>4, <1>5, <1>6 DEF Follows, t, f

LEMMA StreamsKept == AgentInv /\ [Next]_vars => Streams'
<1> DEFINE GivenNext(c) == accepted'[c] \o (IF c \in todo' THEN current' ELSE <<>>)
           Goal(b) == Follows(GivenNext(drains'[b].ctx), dispatched', AppId[b])
<1> SUFFICES ASSUME AgentInv, [Next]_vars, NEW b \in Connected' PROVE Goal(b)
  BY DEF Streams, Given
<1>1. /\ accepted \in [Ctx -> Seq(Envelope)] /\ current \in Seq(Envelope)
      /\ dispatched \in Seq(Envelope)
      /\ \A x \in DOMAIN drains : drains[x].ctx \in Ctx
  BY DEF AgentInv, P!IInv, P!WriterTypeOK, AgentTypeOK, M!IInv, M!TypeOK, M!Held, M!Holder
<1>2. \A x \in Connected : Follows(Given(drains[x].ctx), dispatched, AppId[x])
  BY DEF AgentInv, Streams
<1>3. ASSUME b \in Connected, drains'[b] = drains[b],
             UNCHANGED <<accepted, current, todo, dispatched>>
      PROVE  Goal(b)
  BY <1>2, <1>3 DEF Given
<1>4. CASE (\E e \in Source : Receive(e)) \/ ManagerStep \/ UNCHANGED vars
           \/ \E c \in Ctx : WriterStep(c)
  <2>1. UNCHANGED <<drains, accepted, current, todo, dispatched>>
    BY <1>4 DEF Receive, ManagerStep, BM!Fetch, BM!FirstFetchFails, BM!LaterFetchFails,
                BM!Tick, BM!vars, vars, managerVars, writerVars, dispatchVars, WriterStep,
                DW!start, DW!TakeNext, DW!NextReturnsNil, DW!WriteSucceeds, DW!WriteFails,
                DW!Done, DW!Close
  <2> QED
    BY <1>3, <2>1 DEF Connected
<1>5. CASE updateDrains \/ idleCleanup
  <2>1. UNCHANGED <<accepted, current, todo, dispatched>>
    BY <1>5 DEF updateDrains, idleCleanup, DW!Cancel, dispatchVars
  <2>2. b \in DOMAIN drains /\ drains'[b] = drains[b]
    BY <1>5 DEF updateDrains, idleCleanup, BM!updateDrains, BM!idleCleanup,
                BM!newDrainHolder, BM!Held, Connected
  <2> QED
    BY <1>3, <2>1, <2>2 DEF Connected
<1>6. CASE NextEnvelope
  <2>1. UNCHANGED <<drains, accepted, todo, dispatched>> /\ todo = {}
    BY <1>6 DEF NextEnvelope, managerVars, writerVars, AgentInv, Holding
  <2> QED
    BY <1>2, <2>1 DEF Given, Connected
<1>7. ASSUME NEW c \in Ctx, WriteTo(c) PROVE Goal(b)
  <2>1. /\ UNCHANGED <<drains, dispatched>> /\ c \in todo /\ todo' = todo \ {c}
        /\ accepted' = [accepted EXCEPT ![c] = Append(@, current[1])]
        /\ todo' # {} => current' = current
    BY <1>7 DEF WriteTo, DW!Write, managerVars
  <2>2. current[1] \in Envelope /\ current = <<current[1]>>
    BY <1>7, CurrentIsEnvelope DEF AgentInv, WriteTo
  <2>3. b \in Connected /\ drains[b].ctx \in Ctx /\ drains' = drains
    BY <1>1, <2>1 DEF Connected
  <2>4. \A d \in Ctx : GivenNext(d) = Given(d)
    <3> SUFFICES ASSUME NEW d \in Ctx PROVE GivenNext(d) = Given(d)
      OBVIOUS
    <3>1. CASE d = c
      <4>1. GivenNext(d) = Append(accepted[d], current[1]) \o <<>>
        BY <1>1, <2>1, <3>1
      <4>2. Append(accepted[d], current[1]) = accepted[d] \o <<current[1]>>
        BY <1>1, <2>2, AppendIsConcat
      <4>3. Append(accepted[d], current[1]) \in Seq(Envelope)
        BY <1>1, <2>2, AppendProperties
      <4>4. GivenNext(d) = Append(accepted[d], current[1])
        BY <4>1, <4>3, ConcatEmptySeq
      <4> QED
        BY <2>1, <2>2, <3>1, <4>2, <4>4 DEF Given
    <3>2. CASE d # c
      BY <1>1, <2>1, <3>2 DEF Given
    <3> QED
      BY <3>1, <3>2
  <2> HIDE DEF GivenNext
  <2>5. Follows(GivenNext(drains[b].ctx), dispatched, AppId[b])
    BY <1>2, <2>3, <2>4
  <2> QED
    BY <2>1, <2>3, <2>5
<1>8. CASE LookUp
  <2> DEFINE e == current[1]
             s == e.source
             new == {x \in DOMAIN drains : AppId[x] = s /\ x \notin Unconnectable
                                             /\ ~drains[x].writer}
             c == drains[b].ctx
  <2>1. e \in Envelope /\ current = <<e>>
    BY <1>8, CurrentIsEnvelope DEF AgentInv, LookUp
  <2>2. \A j \in DOMAIN dispatched : dispatched[j].n < e.n
    <3>1. \A j \in DOMAIN dispatched : dispatched[j].n <= upTo /\ dispatched[j].n \in Nat
      <4>1. \A x \in Envelope : x.n \in Nat
        BY AgentAssumption DEF Envelope
      <4> QED
        BY <1>1, <4>1, ElementOfSeq, LenProperties DEF AgentInv, Numbered
    <3>2. e.n = upTo + 1 /\ upTo \in Int
      BY <1>8 DEF AgentInv, Numbered, LookUp, AgentTypeOK, upTo
    <3> QED
      BY <3>1, <3>2
  <2>3. /\ accepted' = accepted /\ todo = {} /\ dispatched' = Append(dispatched, e)
        /\ todo' # {} => current' = current
    BY <1>8 DEF LookUp, DW!NewDiodeWriters, AgentInv, Holding
  <2>4. /\ todo' = {drains[x].ctx : x \in {x \in Connected : AppId[x] = s} \cup new}
        /\ \A x \in new : pc[drains[x].ctx] = "none"
        /\ drains' = [x \in DOMAIN drains |-> IF x \in new
                        THEN [drains[x] EXCEPT !.writer = TRUE] ELSE drains[x]]
    BY <1>8, ReturnedContexts
  <2>5. drains \in [DOMAIN drains -> [ctx : Ctx, writer : BOOLEAN]]
    BY DEF AgentInv, M!IInv, M!TypeOK, M!Held, M!Holder
  <2>6. b \in DOMAIN drains /\ drains'[b].ctx = c /\ (b \in Connected \/ b \in new)
    BY <2>4, <2>5 DEF Connected
  <2>7. c \in Ctx /\ accepted[c] \in Seq(Envelope)
    BY <1>1, <2>6
  <2>8. CASE b \in new
    <3>1. c \in todo' /\ accepted[c] = <<>> /\ AppId[b] = s
      BY <2>4, <2>7, <2>8 DEF AgentInv, ContextsInUse
    <3>2. GivenNext(c) = <<>> \o <<e>>
      BY <2>1, <2>3, <3>1
    <3>3. <<e>> \in Seq(Envelope)
      BY <2>1
    <3>4. GivenNext(c) = <<e>>
      BY <3>2, <3>3, ConcatEmptySeq
    <3>5. Follows(<<e>>, Append(dispatched, e), s)
      BY <1>1, <2>1, <2>2, FollowsFirst
    <3> HIDE DEF GivenNext, e, s, new, c
    <3> QED
      BY <2>3, <2>6, <3>1, <3>4, <3>5
  <2>9. CASE b \in Connected
    <3>1. Given(c) = accepted[c] /\ Follows(Given(c), dispatched, AppId[b])
      BY <1>2, <2>3, <2>7, <2>9, ConcatEmptySeq DEF Given
    <3>2. CASE AppId[b] = s
      <4>1. c \in todo'
        BY <2>4, <2>9, <3>2
      <4>2. GivenNext(c) = accepted[c] \o <<e>>
        BY <2>1, <2>3, <4>1
      <4>3. GivenNext(c) = Append(accepted[c], e)
        BY <2>1, <2>7, <4>2, AppendIsConcat
      <4>4. Follows(Append(accepted[c], e), Append(dispatched, e), AppId[b])
        BY <1>1, <2>1, <2>2, <2>7, <3>1, <3>2, FollowsMore
      <4> HIDE DEF GivenNext, e, s, new, c
      <4> QED
        BY <2>3, <2>6, <4>3, <4>4
    <3>3. CASE AppId[b] # s
      <4>1. c \notin todo'
        <5>1. \A x \in DOMAIN drains : drains[x].ctx = c => x = b
          BY <2>6 DEF AgentInv, M!IInv, M!WritersAccounted, M!HoldersOwnContexts, M!Held
        <5>2. \A x \in {x \in Connected : AppId[x] = s} \cup new :
                x \in DOMAIN drains /\ AppId[x] = s
          BY DEF Connected
        <5> QED
          BY <2>4, <3>3, <5>1, <5>2
      <4>2. GivenNext(c) = accepted[c]
        BY <2>3, <2>7, <4>1, ConcatEmptySeq
      <4>3. Follows(accepted[c], Append(dispatched, e), AppId[b])
        BY <1>1, <2>1, <2>2, <2>7, <3>1, <3>3, FollowsMore
      <4> HIDE DEF GivenNext, e, s, new, c
      <4> QED
        BY <2>3, <2>6, <4>2, <4>3
    <3> QED
      BY <3>2, <3>3
  <2> QED
    BY <2>6, <2>8, <2>9
<1> QED
  BY <1>4, <1>5, <1>6, <1>7, <1>8 DEF Next, Dispatch

-----------------------------------------------------------------------------
LEMMA AgentStarts == Init => AgentInv
<1> SUFFICES ASSUME Init PROVE AgentInv
  OBVIOUS
<1>1. M!IInv
  <2>1. Running = {}
    BY DEF Init, DW!WriterInit, Running
  <2>2. M!Init
    BY <2>1 DEF Init, BM!Init, M!Init, BM!newDrainHolder, M!newDrainHolder
  <2> QED
    BY <2>2, ManagerAssumed, M!InitIInv
<1>2. P!IInv
  <2>1. P!WriterInit
    BY DEF Init, DW!WriterInit, P!WriterInit, DW!Empty, P!Empty
  <2> QED
    BY <2>1, WritersAssumed, P!InitIInv
<1>3. AgentTypeOK /\ Holding
  BY EmptySeq, AgentAssumption DEF Init, AgentTypeOK, Holding, D!Empty
<1>4. ContextsInUse
  BY DEF Init, BM!Init, DW!WriterInit, ContextsInUse
<1>5. Numbered
  BY DEF Init, Numbered, upTo, D!Empty
<1>6. Streams /\ Stale
  BY DEF Init, BM!Init, DW!WriterInit, Streams, Connected, Stale
<1> QED
  BY <1>1, <1>2, <1>3, <1>4, <1>5, <1>6 DEF AgentInv

THEOREM AgentInvariance == Spec => []AgentInv
<1>1. AgentInv /\ [Next]_vars => AgentInv'
  BY ManagerKeeps, WritersKeep, DispatchTypes, NumbersKept, ContextsKept, StaleKept,
     StreamsKept DEF AgentInv
<1> QED
  BY AgentStarts, <1>1, PTL DEF Spec

(* Every envelope received was dispatched, waits or was counted as dropped,  *)
(* and they are dispatched in the order they were received in.               *)
THEOREM IngressIsAccounted == Spec => []IngressAccounted
<1>1. AgentInv => IngressAccounted
  BY DEF AgentInv, Numbered, IngressAccounted
<1> QED
  BY <1>1, AgentInvariance, PTL

(* A connected drain was given all of its app's envelopes from its first     *)
(* one on, once and in order, and none of another app.                       *)
THEOREM DrainsGetTheirStreams == Spec => []DrainGetsItsStream
<1>1. AgentInv => DrainGetsItsStream
  <2> SUFFICES ASSUME AgentInv, NEW b \in BM!Connected
               PROVE  LET stream == Given(drains[b].ctx)
                      IN  /\ stream # <<>>
                          /\ ToSet(stream) = {e \in ToSet(dispatched) :
                                                e.source = AppId[b] /\ e.n >= stream[1].n}
                          /\ \A i, j \in DOMAIN stream : i < j => stream[i].n < stream[j].n
    BY DEF DrainGetsItsStream
  <2> DEFINE stream == Given(drains[b].ctx)
  <2>1. b \in Connected
    BY DEF BM!Connected, BM!Held, Connected
  <2>2. Follows(stream, dispatched, AppId[b])
    BY <2>1 DEF AgentInv, Streams
  <2> HIDE DEF stream
  <2>3. ToSet(stream) = {e \in ToSet(dispatched) :
                           e.source = AppId[b] /\ e.n >= stream[1].n}
    BY <2>2 DEF Follows, ToSet
  <2> QED
    BY <2>2, <2>3 DEF Follows, stream
<1> QED
  BY <1>1, AgentInvariance, PTL

(* After its cancellation a writer is given at most one more envelope.       *)
THEOREM OneStaleWriteAtMost == Spec => []AtMostOneStaleWrite
<1>1. AgentInv => AtMostOneStaleWrite
  <2> SUFFICES ASSUME AgentInv, NEW c \in cancelled
               PROVE  Len(accepted[c]) <= flushTo[c] + 1
    BY DEF AtMostOneStaleWrite
  <2>1. Len(accepted[c]) \in Nat /\ flushTo[c] \in Nat
    BY DEF AgentInv, P!IInv, P!WriterTypeOK
  <2>2. Len(accepted[c]) <= flushTo[c] + (IF c \in todo THEN 0 ELSE 1)
    BY DEF AgentInv, Stale
  <2> QED
    BY <2>1, <2>2
<1> QED
  BY <1>1, AgentInvariance, PTL

(* The flush of a cancelled writer and the dispatcher's stale write leave an *)
(* app one envelope short at most, however often fetches and cleanups cancel *)
(* its writers between a lookup and its writes.                              *)
THEOREM OneEnvelopeLost == Spec => []LossIsOneStaleEnvelope
<1>1. AgentInv => LossIsOneStaleEnvelope
  <2> SUFFICES ASSUME AgentInv, NEW c \in Ctx, DW!Exited(c),
                      ~(fate[c] # <<>> /\ Last(fate[c]) = "failed")
               PROVE  Len(Given(c)) <= Len(fate[c]) + 1
    BY DEF LossIsOneStaleEnvelope
  <2>1. /\ accepted[c] \in Seq(Envelope) /\ fate[c] \in Seq(P!Fate)
        /\ flushTo[c] \in Nat /\ current \in Seq(Envelope)
    BY DEF AgentInv, P!IInv, P!WriterTypeOK, AgentTypeOK
  <2>2. P!Exited(c) /\ ~(fate[c] # <<>> /\ P!Last(fate[c]) = "failed")
    BY DEF DW!Exited, P!Exited, P!Last, Last
  <2>3. c \in cancelled /\ Len(fate[c]) >= flushTo[c]
    BY <2>2, WritersAssumed, P!AccountedFollows
       DEF AgentInv, P!IInv, P!FlushedUnlessFailed, P!RunsUntilCancelled
  <2>4. Len(accepted[c]) <= flushTo[c] + (IF c \in todo THEN 0 ELSE 1)
    BY <2>3 DEF AgentInv, Stale
  <2> PICK a : a = Len(accepted[c])
    OBVIOUS
  <2> PICK f : f = Len(fate[c])
    OBVIOUS
  <2> PICK t : t = flushTo[c]
    OBVIOUS
  <2>5. a \in Nat /\ f \in Nat /\ t \in Nat
    BY <2>1, LenProperties
  <2>6. CASE c \in todo
    <3>1. Len(current) = 1
      BY <2>6 DEF AgentInv, Holding
    <3>2. Given(c) = accepted[c] \o current
      BY <2>6 DEF Given
    <3>3. Len(accepted[c] \o current) = Len(accepted[c]) + Len(current)
      BY ONLY <2>1, ConcatProperties
    <3>4. Len(Given(c)) = a + 1
      BY <3>1, <3>2, <3>3
    <3> QED
      BY <2>3, <2>4, <2>5, <2>6, <3>4
  <2>7. CASE c \notin todo
    <3>1. Len(Given(c)) = a
      BY <2>1, <2>7, ConcatEmptySeq DEF Given
    <3> QED
      BY <2>3, <2>4, <2>5, <2>7, <3>1
  <2> QED
    BY <2>6, <2>7
<1> QED
  BY <1>1, AgentInvariance, PTL

(* The manager and the writers, composed in the agent, keep what was proved  *)
(* of each alone: no drain writer leaks, each is that of one binding and has *)
(* accounted for its envelopes.                                              *)
THEOREM PartsKeepTheirPromises ==
  Spec => []( /\ M!WritersAccounted /\ M!ConnectedIsTracked
              /\ M!RegistryMatchesLastGoodFetch
              /\ P!Accounted /\ P!RunsUntilCancelled )
<1>1. AgentInv => /\ M!WritersAccounted /\ M!ConnectedIsTracked
                  /\ M!RegistryMatchesLastGoodFetch
                  /\ P!Accounted /\ P!RunsUntilCancelled
  BY WritersAssumed, P!AccountedFollows DEF AgentInv, M!IInv, M!PollInv, P!IInv
<1> QED
  BY <1>1, AgentInvariance, PTL
=============================================================================
