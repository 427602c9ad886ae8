----------------------------- MODULE SyslogDrain -----------------------------
(***************************************************************************)
(* The WriteCloser behind a drain's DiodeWriter (pkg/egress/syslog): the    *)
(* writer of RFC 5424 messages over TCP, TLS or HTTPS that the connector    *)
(* makes for a binding, alone as the syslog agent ships it, or inside a     *)
(* RetryWriter.  One envelope becomes no message, one, or one for each      *)
(* metric of a gauge; a message on a connection is two writes, its length   *)
(* and its bytes.                                                           *)
(*                                                                         *)
(* What DiodeWriter shows as one write that succeeds or fails takes many    *)
(* steps here, in which pc stays "write".                                   *)
(***************************************************************************)
EXTENDS DiodeWriter

CONSTANTS
  Drain,      \* the writer that is modelled
  Parts(_),   \* the messages ToRFC5424 makes of an envelope
  Valid(_),   \* and whether it makes any: the lengths of names and ids are
  MaxRetries, \* tries of a RetryWriter
  MaxSends    \* sends of a request by the HTTP client, fasthttp: 5

(* A message says which envelope it is of. *)
ASSUME DrainAssumption ==
  /\ Drain \in Writer
  /\ MaxRetries \in Nat \ {0}
  /\ MaxSends \in Nat \ {0}
  /\ \A m \in Message : IsFiniteSet(Parts(m))
  /\ \A m, n \in Message : m # n => Parts(m) \cap Parts(n) = {}

VARIABLES
  scheme,     \* the scheme of the binding's URL
  retrying,   \* there is a RetryWriter
  step,       \* "idle", or where in Write: "attempt", "prefix", "body", "post",
              \* "failed", "sleep"
  attempt,    \* which try it is
  todo,       \* the messages left to write in this one
  conn,       \* the open connection's index, 0 for none
  conns,      \* history: what each connection took, in order
  posted,     \* history: the messages the drain took over HTTPS
  egress      \* the "egress" counter

drainVars == <<scheme, retrying, step, attempt, todo, conn, conns, posted, egress>>

vars == <<writerVars, drainVars>>

Supported == {"https", "syslog", "syslog-tls"}

Init ==
  /\ WriterInit
  /\ scheme \in Supported \cup {"other"}
  /\ retrying \in BOOLEAN
  /\ step = "idle"
  /\ attempt = 0
  /\ todo = <<>>
  /\ conn = 0
  /\ conns = <<>>
  /\ posted = <<>>
  /\ egress = 0

(* SyslogConnector.Connect: other schemes are refused by the factory. *)
Connect ==
  /\ scheme \in Supported
  /\ NewDiodeWriters({Drain})
  /\ UNCHANGED drainVars

Envelope == inHand[Drain][1]

(* The metrics of a gauge are a Go map: any order. *)
ToRFC5424(e) == SetToSeqs(Parts(e))

Begin ==
  /\ pc[Drain] = "write"
  /\ step = "idle"
  /\ step' = "attempt"
  /\ attempt' = 1
  /\ UNCHANGED <<writerVars, scheme, retrying, todo, conn, conns, posted, egress>>

Succeed ==
  /\ WriteSucceeds(Drain)
  /\ step' = "idle"

Fail ==
  /\ step' = "failed"
  /\ UNCHANGED writerVars

(* Where the first message starts, if there is any. *)
Start(msgs) ==
  /\ todo' = msgs
  /\ IF msgs = <<>> THEN Succeed
     ELSE /\ step' = IF scheme = "https" THEN "post" ELSE "prefix"
          /\ UNCHANGED writerVars

Formatted ==
  IF Valid(Envelope) THEN \E msgs \in ToRFC5424(Envelope) : Start(msgs)
                     ELSE Fail /\ UNCHANGED todo

(* TCPWriter.connection: it dials unless it has a connection, even for an    *)
(* envelope that can not be formatted.  HTTPSWriter leaves it to its client. *)
AttemptWithConn ==
  /\ step = "attempt"
  /\ scheme = "https" \/ conn # 0
  /\ Formatted
  /\ UNCHANGED <<scheme, retrying, attempt, conn, conns, posted, egress>>

Dialled ==
  /\ step = "attempt"
  /\ scheme # "https" /\ conn = 0
  /\ conns' = Append(conns, [open |-> TRUE, took |-> <<>>])
  /\ conn' = Len(conns')
  /\ Formatted
  /\ UNCHANGED <<scheme, retrying, attempt, posted, egress>>

DialFails ==
  /\ step = "attempt"
  /\ scheme # "https" /\ conn = 0
  /\ Fail
  /\ UNCHANGED <<scheme, retrying, attempt, todo, conn, conns, posted, egress>>

Took(part) == [conns EXCEPT ![conn].took = Append(@, <<part, Head(todo)>>)]

(* The first message is written: on to the next, if any. *)
MessageDone(again) ==
  /\ todo' = Tail(todo)
  /\ egress' = egress + 1
  /\ IF Len(todo) = 1 THEN Succeed ELSE step' = again /\ UNCHANGED writerVars

WritePrefix ==
  /\ step = "prefix"
  /\ conns' = Took("prefix")
  /\ step' = "body"
  /\ UNCHANGED <<writerVars, scheme, retrying, attempt, todo, conn, posted, egress>>

WriteBody ==
  /\ step = "body"
  /\ conns' = Took("body")
  /\ MessageDone("prefix")
  /\ UNCHANGED <<scheme, retrying, attempt, conn, posted>>

(* Faulty variant of CloseConn: the broken connection is kept. *)
KeepConn(cs) == conns' = cs /\ UNCHANGED conn

(* TCPWriter.Close, on the connections as the last write left them. *)
CloseConn(cs) ==
  /\ conns' = IF conn = 0 THEN cs ELSE [cs EXCEPT ![conn].open = FALSE]
  /\ conn' = 0

(* The connection breaks or the deadline passes in either write, of which it *)
(* may have taken a part.                                                    *)
ConnWriteFails ==
  /\ step \in {"prefix", "body"}
  /\ \E cs \in {conns, Took("cut")} : CloseConn(cs)
  /\ Fail
  /\ UNCHANGED <<scheme, retrying, attempt, todo, posted, egress>>

(* The client's Do.  It sends a request, a POST too, once more when the       *)
(* connection is closed before the answer, and k of the sends may have        *)
(* brought the message to the drain.                                          *)
Do(k) == posted' = posted \o [i \in 1 .. k |-> Head(todo)]

Post ==
  /\ step = "post"
  /\ \E k \in 1 .. MaxSends : Do(k)
  /\ MessageDone("post")
  /\ UNCHANGED <<scheme, retrying, attempt, conn, conns>>

(* Faulty variant of PostFails: any answer will do. *)
PostUnchecked ==
  /\ step = "post"
  /\ MessageDone("post")
  /\ UNCHANGED <<scheme, retrying, attempt, conn, conns, posted>>

(* No answer to the last send or one that is no success, however often the   *)
(* drain has taken the message.                                              *)
PostFails ==
  /\ step = "post"
  /\ \E k \in 0 .. MaxSends : Do(k)
  /\ Fail
  /\ UNCHANGED <<scheme, retrying, attempt, todo, conn, conns, egress>>

(* The error reaches DiodeWriter at once, *)
ReturnError ==
  /\ step = "failed"
  /\ ~retrying \/ Drain \in cancelled
  /\ WriteFails(Drain)
  /\ step' = "idle"
  /\ UNCHANGED <<scheme, retrying, attempt, todo, conn, conns, posted, egress>>

(* or RetryWriter sleeps, after the last try as well. *)
Sleep ==
  /\ step = "failed"
  /\ retrying /\ Drain \notin cancelled
  /\ step' = "sleep"
  /\ UNCHANGED <<writerVars, scheme, retrying, attempt, todo, conn, conns, posted, egress>>

(* Faulty variant of NextAttempt: the tries are not counted. *)
SameAttempt == attempt

NextAttempt == attempt + 1

(* The next try begins with the envelope's first message again. *)
Retry ==
  /\ step = "sleep"
  /\ attempt < MaxRetries
  /\ attempt' = NextAttempt
  /\ step' = "attempt"
  /\ UNCHANGED <<writerVars, scheme, retrying, todo, conn, conns, posted, egress>>

GiveUp ==
  /\ step = "sleep"
  /\ attempt = MaxRetries
  /\ WriteFails(Drain)
  /\ step' = "idle"
  /\ UNCHANGED <<scheme, retrying, attempt, todo, conn, conns, posted, egress>>

(* The deferred Close; that of HTTPSWriter does nothing. *)
CloseWriter ==
  /\ Close(Drain)
  /\ CloseConn(conns)
  /\ UNCHANGED <<scheme, retrying, step, attempt, todo, posted, egress>>

(* DiodeWriter's steps in which the writer is not called. *)
Outside ==
  /\ TakeNext(Drain) \/ NextReturnsNil(Drain) \/ Done(Drain)
  /\ UNCHANGED drainVars

Goroutine ==
  \/ Outside
  \/ Begin
  \/ AttemptWithConn \/ Dialled \/ DialFails
  \/ WritePrefix \/ WriteBody \/ ConnWriteFails
  \/ Post \/ PostFails
  \/ ReturnError \/ Sleep \/ Retry \/ GiveUp
  \/ CloseWriter

(* The dispatcher gives an envelope to a writer once. *)
DrainWrite(m) ==
  /\ m \notin ToSet(accepted[Drain])
  /\ Write(Drain, m)
  /\ UNCHANGED drainVars

DrainCancel == Drain \notin cancelled /\ Cancel({Drain}) /\ UNCHANGED drainVars

DrainNext ==
  \/ Connect
  \/ \E m \in Message : DrainWrite(m)
  \/ DrainCancel
  \/ Goroutine

(* The goroutine is scheduled; dials, writes and posts have timeouts and the *)
(* sleeps of the RetryWriter end.                                            *)
DrainSpec == Init /\ [][DrainNext]_vars /\ WF_vars(Goroutine)

-----------------------------------------------------------------------------
(* The i-th write a connection took is a length, or the message of the       *)
(* length before it.                                                         *)
Whole(took, i) ==
  /\ took[i][1] = (IF i % 2 = 1 THEN "prefix" ELSE "body")
  /\ i % 2 = 0 => took[i][2] = took[i - 1][2]

(* Whole frames on every connection: each length is followed by its message  *)
(* and only the last may be incomplete, on a connection that is closed or    *)
(* that the writer is in the middle of, so that no message is ever read with *)
(* the length of another.  One connection is open at most, and none once the *)
(* writer has been closed, whatever failed before.                           *)
FramesWhole ==
  /\ \A c \in DOMAIN conns :
       LET took == conns[c].took
       IN  /\ \A i \in DOMAIN took : Whole(took, i) \/ (i = Len(took) /\ ~conns[c].open)
           /\ conns[c].open => c = conn /\ (Len(took) % 2 = 1 <=> step = "body")
  /\ pc[Drain] = "closed" => conn = 0

(* The places at which the drain got a message whole: a connection and a     *)
(* position in it, or a post,                                                *)
Bodies(c) == {i \in DOMAIN conns[c].took : conns[c].took[i][1] = "body"}

Places == IF scheme = "https" THEN DOMAIN posted
          ELSE UNION {{c} \X Bodies(c) : c \in DOMAIN conns}

(* and which message that was. *)
Got(p) == IF scheme = "https" THEN posted[p] ELSE conns[p[1]].took[p[2]][2]

(* The places from p to q are the sends of one message by one Do. *)
OneDo(p, q) ==
  /\ scheme = "https"
  /\ q - p < MaxSends
  /\ \A r \in p .. q : Got(r) = Got(p)

(* An envelope whose Write returned no error went out with all its messages, *)
(* the "egress" counter never says more than the drain got (over TCP exactly  *)
(* that), and without a RetryWriter a drain gets no message twice, other     *)
(* than by the HTTP client's own sends: these follow one another, and never   *)
(* more than these.                                                          *)
SuccessIsSent ==
  /\ \A i \in DOMAIN out[Drain] :
       \A m \in Parts(out[Drain][i]) : \E p \in Places : Got(p) = m
  /\ egress <= Cardinality(Places)
  /\ scheme # "https" => egress = Cardinality(Places)
  /\ ~retrying => \A p, q \in Places : Got(p) = Got(q) => p = q \/ OneDo(p, q)

(* Seen from outside it is DiodeWriter: a write succeeds once or fails once, *)
(* after finitely many dials, writes, tries and sleeps.                      *)
DW == INSTANCE DiodeWriter

ImplementsDiodeWriter == DW!Spec
=============================================================================
