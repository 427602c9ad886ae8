----------------------------- MODULE ClientPool -----------------------------
(***************************************************************************)
(* The agent's connections to the dopplers (pkg/clientpool/v1 and v2).      *)
(* ClientPool.Write offers a batch to its ConnManagers in turn until one    *)
(* takes it.  A ConnManager keeps one gRPC connection in an atomic pointer: *)
(* the writer clears it when a send fails or after maxWrites sends, and a   *)
(* goroutine of the manager, woken by a ticker or the reset channel,        *)
(* connects again.  GRPCConnector chooses the address: that of the AZ if it *)
(* resolves, else the general one.                                          *)
(*                                                                         *)
(* A pool has one writer: StartWriting of the v1 pipeline, the Transponder  *)
(* of the v2 pipeline.  v1 and v2 differ in the step that clears the        *)
(* pointer of a worn connection (v1 compares and swaps); LoadedIsCurrent    *)
(* says why that is no difference for one writer.                           *)
(***************************************************************************)
EXTENDS Integers, FiniteSets

CONSTANTS
  Manager,    \* the ConnManagers of the pool (5 in the code)
  Conn,       \* identities of gRPC connections, reused once closed
  MaxWrites,  \* maxWrites
  ResetCap,   \* capacity of the reset channel (100 in the code)
  NoConn      \* the nil pointer

ASSUME PoolAssumption ==
  /\ IsFiniteSet(Conn)
  /\ NoConn \notin Conn
  /\ MaxWrites \in Nat \ {0}
  /\ ResetCap \in Nat \ {0}

VARIABLES
  conn,      \* ConnManager.conn: the atomic pointer of each manager
  writes,    \* grpcConn.writes of each connection
  reset,     \* how many signals each reset channel holds
  mpc,       \* maintainConn: "boot", "select", "check", "connect", "store"
  dialed,    \* the connection maintainConn has made and not stored yet
  open,      \* the connections made and not closed
  streams,   \* the doppler_connections gauge
  wpc,       \* the writer: "idle", "load", "send", "clear", "close", "signal"
  at,        \* the manager the writer is at
  untried,   \* the managers after it in ClientPool.Write's loop
  loaded,    \* the pointer ConnManager.Write loaded
  failed,    \* the result of Send
  sent,      \* history: how often the current batch was sent without an error
  az,        \* what a lookup and a dial of the AZ's address meet
  anyLive    \* the general address resolves, and to live dopplers

writerVars == <<wpc, at, untried, loaded, failed, sent>>
maintainVars == <<mpc, dialed>>
netVars == <<az, anyLive>>
vars == <<conn, writes, reset, open, streams, writerVars, maintainVars, netVars>>

(* The address does not resolve, resolves to dead dopplers, or to live ones. *)
Net == {"unknown", "dead", "live"}

-----------------------------------------------------------------------------
Init ==
  /\ conn = [m \in Manager |-> NoConn]
  /\ writes = [c \in Conn |-> 0]
  /\ reset = [m \in Manager |-> 0]
  /\ mpc = [m \in Manager |-> "boot"]
  /\ dialed = [m \in Manager |-> NoConn]
  /\ open = {}
  /\ streams = 0
  /\ wpc = "idle"
  /\ at \in Manager
  /\ untried = {}
  /\ loaded = NoConn
  /\ failed = FALSE
  /\ sent = 0
  /\ az \in Net /\ anyLive \in BOOLEAN

-----------------------------------------------------------------------------
(* ClientPool.Write starts at a random manager. *)
PoolWrite(m) ==
  /\ wpc = "idle"
  /\ at' = m
  /\ untried' = Manager \ {m}
  /\ sent' = 0
  /\ wpc' = "load"
  /\ UNCHANGED <<conn, writes, reset, open, streams, loaded, failed,
                 maintainVars, netVars>>

(* conn.Write failed: the next manager, or "unable to write to any dopplers". *)
TryNext ==
  IF untried = {}
    THEN wpc' = "idle" /\ UNCHANGED <<at, untried>>
    ELSE \E m \in untried : /\ at' = m
                            /\ untried' = untried \ {m}
                            /\ wpc' = "load"

Load ==
  /\ wpc = "load"
  /\ IF conn[at] = NoConn
       THEN TryNext /\ UNCHANGED loaded
       ELSE /\ loaded' = conn[at]
            /\ wpc' = "send"
            /\ UNCHANGED <<at, untried>>
  /\ UNCHANGED <<conn, writes, reset, open, streams, failed, sent,
                 maintainVars, netVars>>

SendFails ==
  /\ wpc = "send"
  /\ failed' = TRUE
  /\ wpc' = "clear"
  /\ UNCHANGED <<conn, writes, reset, open, streams, at, untried, loaded, sent,
                 maintainVars, netVars>>

(* Faulty variants of AfterSend: one write too many on a connection, and the *)
(* missing return after a write that was taken.                              *)
AfterSendLate(n) == IF n > MaxWrites THEN "clear" ELSE "idle"
AfterSendGoesOn(n) == IF n >= MaxWrites THEN "clear" ELSE "load"

(* What follows the n-th successful send on a connection. *)
AfterSend(n) == IF n >= MaxWrites THEN "clear" ELSE "idle"

SendSucceeds ==
  /\ wpc = "send"
  /\ failed' = FALSE
  /\ sent' = sent + 1
  /\ writes' = [writes EXCEPT ![loaded] = @ + 1]
  /\ wpc' = AfterSend(writes'[loaded])
  /\ loaded' = IF wpc' = "idle" THEN NoConn ELSE loaded
  /\ UNCHANGED <<conn, reset, open, streams, at, untried, maintainVars, netVars>>

(* Faulty variant of Clear: the connection is forgotten, not closed. *)
ClearWithoutClose ==
  /\ wpc = "clear"
  /\ conn' = [conn EXCEPT ![at] = NoConn]
  /\ wpc' = "signal"
  /\ UNCHANGED <<writes, reset, open, streams, at, untried, loaded, failed,
                 sent, maintainVars, netVars>>

(* StorePointer(&m.conn, nil), or v1's CompareAndSwapPointer *)
Clear ==
  /\ wpc = "clear"
  /\ conn' = [conn EXCEPT ![at] = NoConn]
  /\ wpc' = "close"
  /\ UNCHANGED <<writes, reset, open, streams, at, untried, loaded, failed,
                 sent, maintainVars, netVars>>

(* Faulty variant of Close: not the decrementingCloser, the bare connection. *)
CloseUncounted ==
  /\ wpc = "close"
  /\ open' = open \ {loaded}
  /\ writes' = [writes EXCEPT ![loaded] = 0]
  /\ loaded' = NoConn
  /\ wpc' = "signal"
  /\ UNCHANGED <<conn, reset, streams, at, untried, failed, sent, maintainVars,
                 netVars>>

(* closer.Close(): decrementingCloser lowers the gauge each time.  The      *)
(* connection's record is garbage; its identity can be used for a new one.  *)
Close ==
  /\ wpc = "close"
  /\ open' = open \ {loaded}
  /\ streams' = streams - 1
  /\ writes' = [writes EXCEPT ![loaded] = 0]
  /\ loaded' = NoConn
  /\ wpc' = "signal"
  /\ UNCHANGED <<conn, reset, at, untried, failed, sent, maintainVars,
                 netVars>>

(* m.reset <- true waits while the channel is full. *)
Signal ==
  /\ wpc = "signal"
  /\ reset[at] < ResetCap
  /\ reset' = [reset EXCEPT ![at] = @ + 1]
  /\ IF failed THEN TryNext
               ELSE wpc' = "idle" /\ UNCHANGED <<at, untried>>
  /\ UNCHANGED <<conn, writes, open, streams, loaded, failed, sent,
                 maintainVars, netVars>>

Writer == Load \/ SendFails \/ SendSucceeds \/ Clear \/ Close \/ Signal

-----------------------------------------------------------------------------
maintainUnchanged == <<conn, writes, writerVars, netVars>>

(* maintainConn: the initial connection does not wait for the ticker. *)
Boot(m) ==
  /\ mpc[m] = "boot"
  /\ reset[m] < ResetCap
  /\ reset' = [reset EXCEPT ![m] = @ + 1]
  /\ mpc' = [mpc EXCEPT ![m] = "select"]
  /\ UNCHANGED <<maintainUnchanged, open, streams, dialed>>

(* checkConnectionTimer: the ticker fired, *)
Tick(m) ==
  /\ mpc[m] = "select"
  /\ mpc' = [mpc EXCEPT ![m] = "check"]
  /\ UNCHANGED <<maintainUnchanged, reset, open, streams, dialed>>

(* Faulty variant of TakeSignal: the manager waits for its ticker only. *)
SignalIgnored(m) == FALSE

(* or a signal is taken from the reset channel. *)
TakeSignal(m) ==
  /\ mpc[m] = "select"
  /\ reset[m] > 0
  /\ reset' = [reset EXCEPT ![m] = @ - 1]
  /\ mpc' = [mpc EXCEPT ![m] = "check"]
  /\ UNCHANGED <<maintainUnchanged, open, streams, dialed>>

(* Faulty variants of Check: the pointer is not looked at, or the test of it *)
(* is turned round.                                                          *)
CheckNothing(m) ==
  /\ mpc[m] = "check"
  /\ mpc' = [mpc EXCEPT ![m] = "connect"]
  /\ UNCHANGED <<maintainUnchanged, reset, open, streams, dialed>>

CheckTurned(m) ==
  /\ mpc[m] = "check"
  /\ mpc' = [mpc EXCEPT ![m] = IF conn[m] = NoConn THEN "select" ELSE "connect"]
  /\ UNCHANGED <<maintainUnchanged, reset, open, streams, dialed>>

Check(m) ==
  /\ mpc[m] = "check"
  /\ mpc' = [mpc EXCEPT ![m] = IF conn[m] # NoConn THEN "select" ELSE "connect"]
  /\ UNCHANGED <<maintainUnchanged, reset, open, streams, dialed>>

(* GRPCConnector.Connect: the first balancer whose lookup succeeds decides. *)
Reachable == IF az = "unknown" THEN anyLive ELSE az = "live"

ConnectFails(m) ==
  /\ mpc[m] = "connect"
  /\ ~Reachable
  /\ mpc' = [mpc EXCEPT ![m] = "select"]
  /\ UNCHANGED <<maintainUnchanged, reset, open, streams, dialed>>

(* Fetch: a connection with a stream, counted by the gauge. *)
ConnectSucceeds(m) ==
  /\ mpc[m] = "connect"
  /\ Reachable
  /\ \E c \in Conn \ open :
       /\ dialed' = [dialed EXCEPT ![m] = c]
       /\ open' = open \cup {c}
  /\ streams' = streams + 1
  /\ mpc' = [mpc EXCEPT ![m] = "store"]
  /\ UNCHANGED <<conn, writes, reset, writerVars, netVars>>

Store(m) ==
  /\ mpc[m] = "store"
  /\ conn' = [conn EXCEPT ![m] = dialed[m]]
  /\ dialed' = [dialed EXCEPT ![m] = NoConn]
  /\ mpc' = [mpc EXCEPT ![m] = "select"]
  /\ UNCHANGED <<writes, reset, open, streams, writerVars, netVars>>

maintainConn(m) ==
  \/ Boot(m)
  \/ Tick(m)
  \/ TakeSignal(m)
  \/ Check(m)
  \/ ConnectFails(m)
  \/ ConnectSucceeds(m)
  \/ Store(m)

(* DNS and the dopplers come and go. *)
NetChanges ==
  /\ az' \in Net /\ anyLive' \in BOOLEAN
  /\ netVars' # netVars
  /\ UNCHANGED <<conn, writes, reset, open, streams, writerVars, maintainVars>>

Next ==
  \/ \E m \in Manager : PoolWrite(m)
  \/ Writer
  \/ \E m \in Manager : maintainConn(m)
  \/ NetChanges

(* The writer's calls return and the managers' tickers keep firing; select  *)
(* picks at random among the cases that are ready, so a signal is not passed *)
(* over for ever.  Nothing is assumed of the callers of Write or the network.*)
Fairness ==
  /\ WF_vars(Writer)
  /\ \A m \in Manager : WF_vars(maintainConn(m)) /\ SF_vars(TakeSignal(m))

Spec == Init /\ [][Next]_vars /\ Fairness

-----------------------------------------------------------------------------
(* Every variable keeps its type. *)
TypeOK ==
  /\ conn \in [Manager -> Conn \cup {NoConn}]
  /\ writes \in [Conn -> Nat]
  /\ reset \in [Manager -> 0 .. ResetCap]
  /\ mpc \in [Manager -> {"boot", "select", "check", "connect", "store"}]
  /\ dialed \in [Manager -> Conn \cup {NoConn}]
  /\ open \subseteq Conn
  /\ streams \in Int
  /\ wpc \in {"idle", "load", "send", "clear", "close", "signal"}
  /\ at \in Manager
  /\ untried \subseteq Manager
  /\ loaded \in Conn \cup {NoConn}
  /\ failed \in BOOLEAN
  /\ sent \in Nat
  /\ az \in Net /\ anyLive \in BOOLEAN

(* Every connection open is owned: it is in one manager's pointer, or made   *)
(* and about to be stored, or cleared and about to be closed.  So none leaks *)
(* and none is shared, and what the pointers hold is open.                   *)
Owned == {conn[m] : m \in Manager} \cup {dialed[m] : m \in Manager} \cup {loaded}
NothingLeaks == open = Owned \ {NoConn}

(* A manager never overwrites a live pointer: while it dials or stores, its  *)
(* pointer is nil, and no two managers hold the same connection.             *)
OneConnectionEach ==
  /\ \A m \in Manager : mpc[m] \in {"connect", "store"} => conn[m] = NoConn
  /\ \A m, n \in Manager : m # n /\ conn[m] # NoConn => conn[m] # conn[n]

(* Between the load and the clearing of the pointer it still holds the       *)
(* connection the writer loaded, so clearing it never loses a newer one, and *)
(* v1's CompareAndSwap, done for it, never fails.                            *)
LoadedIsCurrent ==
  wpc \in {"send", "clear"} => loaded # NoConn /\ conn[at] = loaded

(* The gauge of doppler connections is the number of connections open: no    *)
(* connection is closed twice, although failure and wear both close.         *)
GaugeIsOpen == streams = Cardinality(open)

(* A connection is replaced after maxWrites sends, so that the load spreads  *)
(* over the dopplers.                                                        *)
WornConnectionsReplaced ==
  /\ \A c \in Conn : writes[c] <= MaxWrites
  /\ \A m \in Manager :
       conn[m] # NoConn /\ writes[conn[m]] = MaxWrites => wpc = "clear" /\ at = m

(* ClientPool.Write hands a batch to at most one connection that takes it    *)
(* (client_pool_test.go, "uses the given data once"), and gives up only      *)
(* after it went through all managers.                                       *)
BatchSentOnce ==
  /\ sent <= 1
  /\ wpc = "load" => sent = 0
  /\ wpc = "idle" => sent = 1 \/ untried = {}

(* The writer never waits forever for a full reset channel. *)
SignalReturns == (wpc = "signal") ~> (wpc # "signal")

(* A manager without a connection gets one as long as the address its        *)
(* connector picks leads to a live doppler.                                  *)
Reconnects ==
  \A m \in Manager : <>[]Reachable => []<>(conn[m] # NoConn)

(* Traffic "can fall back to any Doppler if none are available in the        *)
(* current AZ" (README.md): with the dopplers of the AZ dead for good and    *)
(* live ones elsewhere, a manager does not stay without a connection.        *)
FallsBackToAnyDoppler ==
  \A m \in Manager : <>[](az = "dead" /\ anyLive) => []<>(conn[m] # NoConn)
=============================================================================
