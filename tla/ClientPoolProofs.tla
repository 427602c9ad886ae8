-------------------------- MODULE ClientPoolProofs --------------------------
(***************************************************************************)
(* Invariants of ClientPool proved for any number of managers, any bound    *)
(* maxWrites and any capacity of the reset channel.  The inductive          *)
(* invariant says, for each point of the writer and of maintainConn, who    *)
(* holds which connection.                                                  *)
(***************************************************************************)
EXTENDS ClientPool, FiniteSetTheorems, TLAPS

(* What the writer holds at each of its steps. *)
WriterHolds ==
  /\ LoadedIsCurrent
  /\ wpc \in {"idle", "load", "signal"} => loaded = NoConn
  /\ wpc = "close" => loaded # NoConn /\ \A m \in Manager : conn[m] # loaded

(* What maintainConn holds: a connection of its own exactly until it is     *)
(* stored, and an empty pointer from the check on.                          *)
ManagersHold ==
  /\ OneConnectionEach
  /\ \A m \in Manager : dialed[m] # NoConn <=> mpc[m] = "store"
  /\ \A m, n \in Manager : m # n /\ dialed[m] # NoConn => dialed[m] # dialed[n]
  /\ \A m, n \in Manager : dialed[m] # NoConn => conn[n] # dialed[m]
  /\ \A m \in Manager : dialed[m] # NoConn => loaded # dialed[m]

(* A connection nobody has written to yet has no writes to its name. *)
WritesCounted ==
  /\ WornConnectionsReplaced
  /\ \A c \in Conn \ open : writes[c] = 0
  /\ \A m \in Manager : dialed[m] # NoConn => writes[dialed[m]] = 0

(* How often the batch was sent, at each step of the writer. *)
BatchInv ==
  /\ BatchSentOnce
  /\ wpc = "send" => sent = 0
  /\ wpc \in {"clear", "close", "signal"} => sent = (IF failed THEN 0 ELSE 1)

IInv ==
  /\ TypeOK
  /\ WriterHolds
  /\ ManagersHold
  /\ NothingLeaks
  /\ GaugeIsOpen
  /\ WritesCounted
  /\ BatchInv

(* The actions, for the case splits below. *)
LEMMA Cases ==
  ASSUME [Next]_vars
  PROVE  \/ \E m \in Manager : PoolWrite(m)
         \/ Load \/ SendFails \/ SendSucceeds \/ Clear \/ Close \/ Signal
         \/ \E m \in Manager :
              \/ Boot(m) \/ Tick(m) \/ TakeSignal(m) \/ Check(m)
              \/ ConnectFails(m) \/ ConnectSucceeds(m) \/ Store(m)
         \/ NetChanges
         \/ UNCHANGED vars
BY DEF Next, Writer, maintainConn

(* The connections open, one by one: a form of NothingLeaks that a step of   *)
(* one owner can be checked against.                                         *)
OwnedBySomeone(c) ==
  \/ \E m \in Manager : conn[m] = c
  \/ \E m \in Manager : dialed[m] = c
  \/ loaded = c

LEMMA OwnersOneByOne ==
  ASSUME TypeOK
  PROVE  NothingLeaks <=> \A c \in Conn : c \in open <=> OwnedBySomeone(c)
BY PoolAssumption DEF TypeOK, NothingLeaks, Owned, OwnedBySomeone

(* The same in the next state. *)
LEMMA OwnersOneByOneNext ==
  ASSUME TypeOK'
  PROVE  NothingLeaks' <=> \A c \in Conn : (c \in open)' <=> OwnedBySomeone(c)'
BY PoolAssumption DEF TypeOK, NothingLeaks, Owned, OwnedBySomeone

-----------------------------------------------------------------------------
(* Initially there are no connections. *)
LEMMA InitIInv == Init => IInv
<1> SUFFICES ASSUME Init PROVE IInv
  OBVIOUS
<1>1. TypeOK
  <2>1. reset \in [Manager -> 0 .. ResetCap]
    BY PoolAssumption DEF Init
  <2>2. failed \in BOOLEAN /\ az \in Net /\ anyLive \in BOOLEAN
    BY DEF Init
  <2> QED
    BY <2>1, <2>2 DEF Init, TypeOK
<1>2. WriterHolds /\ ManagersHold
  BY DEF Init, WriterHolds, ManagersHold, LoadedIsCurrent, OneConnectionEach
<1>3. NothingLeaks
  BY DEF Init, NothingLeaks, Owned
<1>4. GaugeIsOpen
  BY FS_EmptySet DEF Init, GaugeIsOpen
<1>5. WritesCounted
  BY PoolAssumption DEF Init, WritesCounted, WornConnectionsReplaced
<1>6. BatchInv
  BY DEF Init, BatchInv, BatchSentOnce
<1> QED
  BY <1>1, <1>2, <1>3, <1>4, <1>5, <1>6 DEF IInv

-----------------------------------------------------------------------------
(* The variables keep their types. *)
LEMMA TypeStep == IInv /\ [Next]_vars => TypeOK'
<1> SUFFICES ASSUME IInv, [Next]_vars PROVE TypeOK'
  OBVIOUS
<1> USE PoolAssumption DEF IInv, TypeOK
<1>1. ASSUME NEW m \in Manager, PoolWrite(m) PROVE TypeOK'
  BY <1>1 DEF PoolWrite, maintainVars, netVars
<1>2. CASE Load
  BY <1>2 DEF Load, TryNext, maintainVars, netVars
<1>3. CASE SendFails
  BY <1>3 DEF SendFails, maintainVars, netVars
<1>4. CASE SendSucceeds
  <2>1. loaded \in Conn
    BY <1>4 DEF SendSucceeds, WriterHolds, LoadedIsCurrent
  <2>2. writes' \in [Conn -> Nat] /\ sent' \in Nat
    BY <1>4, <2>1 DEF SendSucceeds
  <2>3. wpc' \in {"clear", "idle"}
    BY <1>4 DEF SendSucceeds, AfterSend
  <2> QED
    BY <1>4, <2>2, <2>3 DEF SendSucceeds, maintainVars, netVars
<1>5. CASE Clear
  BY <1>5 DEF Clear, maintainVars, netVars
<1>6. CASE Close
  <2>1. writes' \in [Conn -> Nat]
    BY <1>6 DEF Close
  <2>2. streams' \in Int
    BY <1>6 DEF Close
  <2>3. open' \subseteq Conn /\ loaded' \in Conn \cup {NoConn}
    BY <1>6 DEF Close
  <2>4. UNCHANGED <<conn, reset, mpc, dialed, at, untried, failed, sent, az,
                    anyLive>>
    BY <1>6 DEF Close, maintainVars, netVars
  <2>5. wpc' = "signal"
    BY <1>6 DEF Close
  <2> QED
    BY <2>1, <2>2, <2>3, <2>4, <2>5
<1>7. CASE Signal
  <2>1. reset' \in [Manager -> 0 .. ResetCap]
    BY <1>7 DEF Signal
  <2> QED
    BY <1>7, <2>1 DEF Signal, TryNext, maintainVars, netVars
<1>8. ASSUME NEW m \in Manager,
             Boot(m) \/ Tick(m) \/ TakeSignal(m) \/ Check(m) \/ ConnectFails(m)
      PROVE  TypeOK'
  <2>1. reset' \in [Manager -> 0 .. ResetCap]
    BY <1>8 DEF Boot, Tick, TakeSignal, Check, ConnectFails
  <2>2. mpc' \in [Manager -> {"boot", "select", "check", "connect", "store"}]
    BY <1>8 DEF Boot, Tick, TakeSignal, Check, ConnectFails
  <2> QED
    BY <1>8, <2>1, <2>2 DEF Boot, Tick, TakeSignal, Check, ConnectFails,
       maintainUnchanged, writerVars, netVars
<1>9. ASSUME NEW m \in Manager, ConnectSucceeds(m) PROVE TypeOK'
  BY <1>9 DEF ConnectSucceeds, writerVars, netVars
<1>10. ASSUME NEW m \in Manager, Store(m) PROVE TypeOK'
  BY <1>10 DEF Store, writerVars, netVars
<1>11. CASE NetChanges
  BY <1>11 DEF NetChanges, writerVars, maintainVars
<1>12. CASE UNCHANGED vars
  BY <1>12 DEF vars, writerVars, maintainVars, netVars
<1> QED
  BY <1>1, <1>2, <1>3, <1>4, <1>5, <1>6, <1>7, <1>8, <1>9, <1>10, <1>11,
     <1>12, Cases

-----------------------------------------------------------------------------
(* What the writer and the managers hold: the writer's pointer can only be  *)
(* stored to by its manager, which does so with an empty pointer.           *)
LEMMA HoldingStep ==
  ASSUME IInv, [Next]_vars, TypeOK'
  PROVE  WriterHolds' /\ ManagersHold'
<1> USE DEF IInv, TypeOK, WriterHolds, ManagersHold, LoadedIsCurrent,
            OneConnectionEach
<1>1. ASSUME NEW m \in Manager, PoolWrite(m) PROVE WriterHolds' /\ ManagersHold'
  BY <1>1 DEF PoolWrite, maintainVars
<1>2. CASE Load
  BY <1>2 DEF Load, TryNext, maintainVars
<1>3. CASE SendFails
  BY <1>3 DEF SendFails, maintainVars
<1>4. CASE SendSucceeds
  <2>1. wpc' \in {"clear", "idle"}
    BY <1>4 DEF SendSucceeds, AfterSend
  <2> QED
    BY <1>4, <2>1 DEF SendSucceeds, maintainVars
<1>5. CASE Clear
  BY <1>5, PoolAssumption DEF Clear, maintainVars
<1>6. CASE Close
  BY <1>6 DEF Close, maintainVars
<1>7. CASE Signal
  BY <1>7 DEF Signal, TryNext, maintainVars
<1>8. ASSUME NEW m \in Manager,
             Boot(m) \/ Tick(m) \/ TakeSignal(m) \/ Check(m) \/ ConnectFails(m)
      PROVE  WriterHolds' /\ ManagersHold'
  BY <1>8 DEF Boot, Tick, TakeSignal, Check, ConnectFails, maintainUnchanged,
     writerVars
<1>9. ASSUME NEW m \in Manager, ConnectSucceeds(m)
      PROVE  WriterHolds' /\ ManagersHold'
  <2>1. PICK c \in Conn \ open : dialed' = [dialed EXCEPT ![m] = c]
    BY <1>9 DEF ConnectSucceeds
  <2>2. /\ \A n \in Manager : conn[n] # c /\ dialed[n] # c
        /\ loaded # c
        /\ c # NoConn
    BY <2>1, OwnersOneByOne, PoolAssumption DEF OwnedBySomeone
  <2> QED
    BY <1>9, <2>1, <2>2 DEF ConnectSucceeds, writerVars
<1>10. ASSUME NEW m \in Manager, Store(m) PROVE WriterHolds' /\ ManagersHold'
  BY <1>10 DEF Store, writerVars
<1>11. CASE NetChanges
  BY <1>11 DEF NetChanges, writerVars, maintainVars
<1>12. CASE UNCHANGED vars
  BY <1>12 DEF vars, writerVars, maintainVars
<1> QED
  BY <1>1, <1>2, <1>3, <1>4, <1>5, <1>6, <1>7, <1>8, <1>9, <1>10, <1>11,
     <1>12, Cases

-----------------------------------------------------------------------------
(* Every connection open has an owner.  A step moves one connection from an  *)
(* owner to another, makes one or closes one; the other actions move none.   *)
LEMMA OwnersStep ==
  ASSUME IInv, [Next]_vars, TypeOK'
  PROVE  NothingLeaks'
<1> USE DEF IInv, TypeOK, WriterHolds, ManagersHold, LoadedIsCurrent,
            OneConnectionEach
<1>1. SUFFICES ASSUME NEW c \in Conn
               PROVE  (c \in open)' <=> OwnedBySomeone(c)'
  BY OwnersOneByOneNext
<1>2. c \in open <=> OwnedBySomeone(c)
  BY OwnersOneByOne
<1>3. c # NoConn
  BY PoolAssumption
<1> USE <1>2, <1>3 DEF OwnedBySomeone
<1>4. ASSUME UNCHANGED <<conn, dialed, loaded, open>>
      PROVE  (c \in open)' <=> OwnedBySomeone(c)'
  BY <1>4
<1>5. ASSUME NEW m \in Manager, PoolWrite(m)
      PROVE  (c \in open)' <=> OwnedBySomeone(c)'
  BY <1>4, <1>5 DEF PoolWrite, maintainVars
<1>6. CASE Load
  BY <1>6 DEF Load, maintainVars
<1>7. CASE SendFails
  BY <1>4, <1>7 DEF SendFails, maintainVars
<1>8. CASE SendSucceeds
  BY <1>8 DEF SendSucceeds, maintainVars
<1>9. CASE Clear
  BY <1>9 DEF Clear, maintainVars
<1>10. CASE Close
  BY <1>10 DEF Close, maintainVars
<1>11. CASE Signal
  BY <1>4, <1>11 DEF Signal, maintainVars
<1>12. ASSUME NEW m \in Manager,
              Boot(m) \/ Tick(m) \/ TakeSignal(m) \/ Check(m) \/ ConnectFails(m)
       PROVE  (c \in open)' <=> OwnedBySomeone(c)'
  BY <1>4, <1>12 DEF Boot, Tick, TakeSignal, Check, ConnectFails,
     maintainUnchanged, writerVars
<1>13. ASSUME NEW m \in Manager, ConnectSucceeds(m)
       PROVE  (c \in open)' <=> OwnedBySomeone(c)'
  BY <1>13 DEF ConnectSucceeds, writerVars
<1>14. ASSUME NEW m \in Manager, Store(m)
       PROVE  (c \in open)' <=> OwnedBySomeone(c)'
  BY <1>14 DEF Store, writerVars
<1>15. CASE NetChanges
  BY <1>4, <1>15 DEF NetChanges, writerVars, maintainVars
<1>16. CASE UNCHANGED vars
  BY <1>4, <1>16 DEF vars, writerVars, maintainVars
<1> QED
  BY <1>5, <1>6, <1>7, <1>8, <1>9, <1>10, <1>11, <1>12, <1>13, <1>14, <1>15,
     <1>16, Cases

-----------------------------------------------------------------------------
(* The gauge moves with the connections: one is made where none was, and    *)
(* only an open one is closed.                                              *)
LEMMA GaugeStep ==
  ASSUME IInv, [Next]_vars
  PROVE  GaugeIsOpen'
<1> USE DEF IInv, TypeOK, GaugeIsOpen
<1>1. IsFiniteSet(open)
  BY PoolAssumption, FS_Subset
<1>2. ASSUME UNCHANGED <<open, streams>> PROVE GaugeIsOpen'
  BY <1>2
<1>3. CASE Close
  <2>1. loaded \in open
    BY <1>3, OwnersOneByOne
       DEF Close, WriterHolds, OwnedBySomeone
  <2>2. Cardinality(open \ {loaded}) = Cardinality(open) - 1
    BY <1>1, <2>1, FS_RemoveElement
  <2> QED
    BY <1>3, <2>2 DEF Close
<1>4. ASSUME NEW m \in Manager, ConnectSucceeds(m) PROVE GaugeIsOpen'
  <2>1. PICK c \in Conn \ open : open' = open \cup {c}
    BY <1>4 DEF ConnectSucceeds
  <2>2. Cardinality(open \cup {c}) = Cardinality(open) + 1
    BY <1>1, <2>1, FS_AddElement
  <2> QED
    BY <1>4, <2>1, <2>2 DEF ConnectSucceeds
<1>5. CASE \E m \in Manager : PoolWrite(m)
  BY <1>2, <1>5 DEF PoolWrite
<1>6. CASE Load \/ SendFails \/ SendSucceeds \/ Clear \/ Signal
  BY <1>2, <1>6 DEF Load, SendFails, SendSucceeds, Clear, Signal
<1>7. CASE \E m \in Manager :
             \/ Boot(m) \/ Tick(m) \/ TakeSignal(m) \/ Check(m)
             \/ ConnectFails(m) \/ Store(m)
  BY <1>2, <1>7 DEF Boot, Tick, TakeSignal, Check, ConnectFails, Store
<1>8. CASE NetChanges \/ UNCHANGED vars
  BY <1>2, <1>8 DEF NetChanges, vars
<1> QED
  BY <1>3, <1>4, <1>5, <1>6, <1>7, <1>8, Cases

-----------------------------------------------------------------------------
(* Writes are counted per connection: only the connection the writer loaded *)
(* gains one, and it is cleared at the last one allowed.                    *)
LEMMA WritesStep ==
  ASSUME IInv, [Next]_vars, TypeOK'
  PROVE  WritesCounted'
<1> USE PoolAssumption DEF IInv, TypeOK, WritesCounted, WornConnectionsReplaced
<1>1. ASSUME NEW m \in Manager, PoolWrite(m) PROVE WritesCounted'
  BY <1>1 DEF PoolWrite, maintainVars
<1>2. CASE Load
  BY <1>2 DEF Load, TryNext, maintainVars
<1>3. CASE SendFails
  BY <1>3 DEF SendFails, maintainVars
<1>4. CASE SendSucceeds
  <2>1. /\ loaded \in Conn /\ conn[at] = loaded /\ loaded \in open
        /\ \A m \in Manager : m # at => conn[m] # loaded
        /\ \A m \in Manager : dialed[m] # loaded
    BY <1>4, OwnersOneByOne DEF SendSucceeds, WriterHolds, LoadedIsCurrent,
       ManagersHold, OneConnectionEach, OwnedBySomeone
  <2>2. writes[loaded] < MaxWrites
    BY <1>4, <2>1 DEF SendSucceeds
  <2>3. /\ \A c \in Conn \ {loaded} : writes'[c] = writes[c]
        /\ writes'[loaded] = writes[loaded] + 1
    BY <1>4, <2>1 DEF SendSucceeds
  <2>4. writes'[loaded] = MaxWrites => wpc' = "clear"
    BY <1>4 DEF SendSucceeds, AfterSend
  <2>5. \A c \in Conn : writes'[c] <= MaxWrites
    BY <2>2, <2>3
  <2>6. UNCHANGED <<conn, dialed, open, at>>
    BY <1>4 DEF SendSucceeds, maintainVars
  <2>7. ASSUME NEW m \in Manager, conn[m] # NoConn, writes'[conn[m]] = MaxWrites
        PROVE  wpc' = "clear" /\ at = m
    BY <1>4, <2>1, <2>3, <2>4, <2>7 DEF SendSucceeds
  <2> QED
    BY <2>1, <2>3, <2>5, <2>6, <2>7
<1>5. CASE Clear
  BY <1>5 DEF Clear, maintainVars
<1>6. CASE Close
  BY <1>6 DEF Close, maintainVars, WriterHolds, ManagersHold
<1>7. CASE Signal
  BY <1>7 DEF Signal, TryNext, maintainVars
<1>8. ASSUME NEW m \in Manager,
             Boot(m) \/ Tick(m) \/ TakeSignal(m) \/ Check(m) \/ ConnectFails(m)
      PROVE  WritesCounted'
  BY <1>8 DEF Boot, Tick, TakeSignal, Check, ConnectFails, maintainUnchanged,
     writerVars
<1>9. ASSUME NEW m \in Manager, ConnectSucceeds(m) PROVE WritesCounted'
  BY <1>9 DEF ConnectSucceeds, writerVars
<1>10. ASSUME NEW m \in Manager, Store(m) PROVE WritesCounted'
  BY <1>10 DEF Store, writerVars, ManagersHold
<1>11. CASE NetChanges
  BY <1>11 DEF NetChanges, writerVars, maintainVars
<1>12. CASE UNCHANGED vars
  BY <1>12 DEF vars, writerVars, maintainVars
<1> QED
  BY <1>1, <1>2, <1>3, <1>4, <1>5, <1>6, <1>7, <1>8, <1>9, <1>10, <1>11,
     <1>12, Cases

-----------------------------------------------------------------------------
(* A batch is sent again only after a send that failed. *)
LEMMA BatchStep ==
  ASSUME IInv, [Next]_vars
  PROVE  BatchInv'
<1> USE DEF IInv, TypeOK, BatchInv, BatchSentOnce
<1>1. CASE \E m \in Manager : PoolWrite(m)
  BY <1>1 DEF PoolWrite
<1>2. CASE Load
  BY <1>2 DEF Load, TryNext
<1>3. CASE SendFails
  BY <1>3 DEF SendFails
<1>4. CASE SendSucceeds
  <2>1. wpc' \in {"clear", "idle"}
    BY <1>4 DEF SendSucceeds, AfterSend
  <2> QED
    BY <1>4, <2>1 DEF SendSucceeds
<1>5. CASE Clear \/ Close
  BY <1>5 DEF Clear, Close
<1>6. CASE Signal
  BY <1>6 DEF Signal, TryNext
<1>7. CASE \E m \in Manager :
             \/ Boot(m) \/ Tick(m) \/ TakeSignal(m) \/ Check(m)
             \/ ConnectFails(m) \/ ConnectSucceeds(m) \/ Store(m)
  BY <1>7 DEF Boot, Tick, TakeSignal, Check, ConnectFails, ConnectSucceeds,
     Store, maintainUnchanged, writerVars
<1>8. CASE NetChanges \/ UNCHANGED vars
  BY <1>8 DEF NetChanges, vars, writerVars
<1> QED
  BY <1>1, <1>2, <1>3, <1>4, <1>5, <1>6, <1>7, <1>8, Cases

-----------------------------------------------------------------------------
(* The inductive invariant holds in every reachable state. *)
THEOREM Invariance == Spec => []IInv
<1>1. IInv /\ [Next]_vars => IInv'
  BY TypeStep, HoldingStep, OwnersStep, GaugeStep, WritesStep, BatchStep
     DEF IInv
<1> QED
  BY InitIInv, <1>1, PTL DEF Spec

(* The variables of the pool keep their types. *)
THEOREM TypeCorrect == Spec => []TypeOK
BY Invariance, PTL DEF IInv

(* However failures, wear and reconnections interleave, every open connection *)
(* has exactly one owner and every pointer an open connection: Write's and    *)
(* maintainConn's unlocked accesses leak none and use none that is closed.    *)
THEOREM NoConnectionLeaks == Spec => []NothingLeaks
BY Invariance, PTL DEF IInv

(* maintainConn never overwrites a live pointer, and no two managers share a *)
(* connection, although it looks at the pointer before it dials and stores   *)
(* after.                                                                    *)
THEOREM NoPointerOverwritten == Spec => []OneConnectionEach
<1>1. IInv => OneConnectionEach
  BY DEF IInv, ManagersHold
<1> QED
  BY Invariance, <1>1, PTL

(* With one writer, the pointer Write clears is the one it loaded.  This is  *)
(* what makes v2's plain store as good as v1's CompareAndSwap.               *)
THEOREM ClearsWhatItLoaded == Spec => []LoadedIsCurrent
<1>1. IInv => LoadedIsCurrent
  BY DEF IInv, WriterHolds
<1> QED
  BY Invariance, <1>1, PTL

(* The connections gauge is exact: Fetch counts each connection once and it  *)
(* is closed once.                                                           *)
THEOREM GaugeIsExact == Spec => []GaugeIsOpen
BY Invariance, PTL DEF IInv

(* No connection takes more than maxWrites batches, and one that took them   *)
(* all is being replaced.                                                    *)
THEOREM WearIsBounded == Spec => []WornConnectionsReplaced
<1>1. IInv => WornConnectionsReplaced
  BY DEF IInv, WritesCounted
<1> QED
  BY Invariance, <1>1, PTL

(* ClientPool.Write sends a batch successfully at most once, and answers an  *)
(* error only when no manager is left.                                       *)
THEOREM BatchIsSentOnce == Spec => []BatchSentOnce
<1>1. IInv => BatchSentOnce
  BY DEF IInv, BatchInv
<1> QED
  BY Invariance, <1>1, PTL
=============================================================================
