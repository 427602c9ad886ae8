-------------------------- MODULE SyslogDrainProofs --------------------------
(***************************************************************************)
(* The protocol writers behind a drain's DiodeWriter, proved for any        *)
(* envelopes and messages made of them, any protocol and number of tries:   *)
(* their steps are steps of DiodeWriter, frames stay whole and a success    *)
(* was sent.                                                                *)
(***************************************************************************)
EXTENDS SyslogDrain, DiodeWriterProofs

Part == UNION {Parts(m) : m \in Message}
Taken == {"prefix", "body", "cut"} \X Part
Connection == [open : BOOLEAN, took : Seq(Taken)]

DrainTypeOK ==
  /\ scheme \in Supported \cup {"other"}
  /\ retrying \in BOOLEAN
  /\ step \in {"idle", "attempt", "prefix", "body", "post", "failed", "sleep"}
  /\ todo \in Seq(Part)
  /\ conn \in Nat
  /\ conns \in Seq(Connection)
  /\ posted \in Seq(Part)
  /\ egress \in Nat

Sending == step \in {"prefix", "body", "post"}

(* Where in Write the goroutine can be. *)
Where ==
  /\ step # "idle" => pc[Drain] = "write"
  /\ Sending => todo # <<>>
  /\ step \in {"prefix", "body"} => scheme # "https" /\ conn # 0
  /\ step = "post" => scheme = "https"
  /\ step = "sleep" => retrying
  /\ pc[Drain] = "closed" => conn = 0

(* Before the writer's next write, of a part of m, the open connection has   *)
(* taken whole frames only, or these and a length.                           *)
Framed(took, st, m) ==
  /\ \A i \in DOMAIN took : Whole(took, i)
  /\ Len(took) % 2 = 1 <=> st = "body"
  /\ st = "body" => took[Len(took)] = <<"prefix", m>>

(* A closed one may have taken anything last. *)
Broken(took) == \A i \in DOMAIN took : Whole(took, i) \/ i = Len(took)

Frames ==
  /\ conn # 0 => /\ conn \in DOMAIN conns
                 /\ Framed(conns[conn].took, step, Head(todo))
  /\ \A c \in DOMAIN conns : /\ conns[c].open <=> c = conn
                             /\ Broken(conns[c].took)

Sent(m) == \E p \in Places : Got(p) = m

Distinct(s) == \A i, j \in DOMAIN s : i # j => s[i] # s[j]

(* What is left of the envelope in hand and what was sent make it whole. *)
Remaining ==
  /\ \A i \in DOMAIN out[Drain] : \A m \in Parts(out[Drain][i]) : Sent(m)
  /\ Sending => /\ Distinct(todo)
                /\ \A i \in DOMAIN todo : todo[i] \in Parts(Envelope)
                /\ \A m \in Parts(Envelope) :
                     Sent(m) \/ \E i \in DOMAIN todo : todo[i] = m

Counter ==
  /\ IsFiniteSet(Places)
  /\ egress <= Cardinality(Places)
  /\ scheme # "https" => egress = Cardinality(Places)

(* The envelopes of which messages may have been sent: those with a fate and *)
(* the one in hand once it has been tried.                                   *)
Reached == Len(fate[Drain])
             + (IF Sending \/ step \in {"failed", "sleep"} THEN 1 ELSE 0)

(* What was sent twice was so by one Do. *)
Repeats == \A p, q \in Places : Got(p) = Got(q) => p = q \/ OneDo(p, q)

(* Without a RetryWriter what a Do has sent is not sent again. *)
Once ==
  ~retrying =>
    /\ Repeats
    /\ \A p \in Places : \E i \in 1 .. Reached : Got(p) \in Parts(accepted[Drain][i])
    /\ Sending => \A p \in Places, i \in DOMAIN todo : Got(p) # todo[i]

DrainInv ==
  /\ IInv
  /\ DrainTypeOK
  /\ Distinct(accepted[Drain])
  /\ Where
  /\ Frames
  /\ Remaining
  /\ Counter
  /\ Once

-----------------------------------------------------------------------------
(* The messages of an envelope, in any order: each of them once. *)
LEMMA Formats ==
  ASSUME NEW e \in Message, NEW msgs \in ToRFC5424(e)
  PROVE  /\ msgs \in Seq(Parts(e))
         /\ Distinct(msgs)
         /\ \A m \in Parts(e) : \E i \in DOMAIN msgs : msgs[i] = m
<1> DEFINE S == Parts(e)
           n == Cardinality(S)
<1>1. IsFiniteSet(S)
  BY DrainAssumption
<1>2. n \in Nat
  BY <1>1, FS_CardinalityType
<1>3. msgs \in [1 .. n -> S] /\ \A i, j \in 1 .. n : i # j => msgs[i] # msgs[j]
  BY DEF ToRFC5424, SetToSeqs
<1> HIDE DEF n, S
<1>4. msgs \in Seq(S) /\ DOMAIN msgs = 1 .. n
  BY <1>2, <1>3
<1>5. ASSUME NEW m \in S, \A i \in 1 .. n : msgs[i] # m PROVE FALSE
  <2>1. IsFiniteSet(S \ {m}) /\ Cardinality(S \ {m}) = n - 1
    BY <1>1, <1>5, FS_RemoveElement DEF n
  <2>2. msgs \in [1 .. n -> S \ {m}]
    BY <1>3, <1>5
  <2>3. msgs \in Injection(1 .. n, S \ {m})
    BY <1>3, <2>2 DEF Injection, IsInjective
  <2>4. Cardinality(1 .. n) <= n - 1
    BY <2>1, <2>3, FS_Injection
  <2>5. Cardinality(1 .. n) = n
    <3>1. 1 \in Int /\ n \in Int /\ (1 > n => n = 0) /\ n - 1 + 1 = n
      BY <1>2
    <3> QED
      BY <3>1, FS_Interval
  <2> QED
    BY <1>2, <2>4, <2>5
<1> QED
  BY <1>3, <1>4, <1>5 DEF S, Distinct

(* The outcomes of formatting. *)
LEMMA FormattedCases ==
  ASSUME Formatted
  PROVE  \/ Fail /\ todo' = todo
         \/ \E msgs \in ToRFC5424(Envelope) :
              \/ msgs = <<>> /\ todo' = msgs /\ Succeed
              \/ /\ msgs # <<>> /\ todo' = msgs /\ UNCHANGED writerVars
                 /\ step' = IF scheme = "https" THEN "post" ELSE "prefix"
BY DEF Formatted, Start

(* A step of the drain is a step of DiodeWriter or leaves it alone. *)
LEMMA StepImplements == [DrainNext]_vars => [Next]_writerVars
<1> SUFFICES ASSUME [DrainNext]_vars PROVE [Next]_writerVars
  OBVIOUS
<1>1. Drain \in Writer
  BY DrainAssumption
<1>2. CASE Connect
  BY <1>1, <1>2 DEF Connect, Next, NewDiodeWriters
<1>3. ASSUME NEW m \in Message, DrainWrite(m) PROVE Next
  BY <1>1, <1>3 DEF DrainWrite, Next
<1>4. CASE DrainCancel
  BY <1>1, <1>4 DEF DrainCancel, Next
<1>5. start(Drain) => Next
  BY <1>1 DEF Next
<1>6. Succeed \/ WriteFails(Drain) \/ Close(Drain) => start(Drain)
  BY DEF Succeed, start
<1>7. Formatted => Succeed \/ UNCHANGED writerVars
  BY FormattedCases DEF Fail
<1>8. ASSUME NEW again, MessageDone(again) PROVE Succeed \/ UNCHANGED writerVars
  BY <1>8 DEF MessageDone
<1>9. CASE Outside
  BY <1>5, <1>9 DEF Outside, start
<1>10. CASE Begin \/ DialFails \/ WritePrefix \/ Sleep \/ Retry
  BY <1>10 DEF Begin, DialFails, WritePrefix, Sleep, Retry, Fail
<1>11. CASE AttemptWithConn \/ Dialled
  BY <1>5, <1>6, <1>7, <1>11 DEF AttemptWithConn, Dialled
<1>12. CASE WriteBody \/ Post
  BY <1>5, <1>6, <1>8, <1>12 DEF WriteBody, Post
<1>13. CASE ConnWriteFails \/ PostFails
  BY <1>13 DEF ConnWriteFails, PostFails, Fail
<1>14. CASE ReturnError \/ GiveUp \/ CloseWriter
  BY <1>5, <1>6, <1>14 DEF ReturnError, GiveUp, CloseWriter
<1>15. CASE UNCHANGED vars
  BY <1>15 DEF vars
<1> QED
  BY <1>2, <1>3, <1>4, <1>9, <1>10, <1>11, <1>12, <1>13, <1>14, <1>15
     DEF DrainNext, Goroutine

(* The envelope in hand is the first accepted one without a fate. *)
LEMMA InHand ==
  ASSUME IInv, pc[Drain] = "write"
  PROVE  /\ Envelope \in Message
         /\ Envelope = accepted[Drain][Len(fate[Drain]) + 1]
         /\ Len(fate[Drain]) + 1 \in DOMAIN accepted[Drain]
         /\ Len(inHand[Drain]) = 1
         /\ inHand[Drain] \in Seq(Message) /\ out[Drain] \in Seq(Message)
<1>1. Drain \in Writer
  BY DrainAssumption
<1>2. /\ accepted[Drain] \in Seq(Message) /\ fate[Drain] \in Seq(Fate)
      /\ inHand[Drain] \in Seq(Message) /\ diode[Drain] \in Seq(Message)
      /\ out[Drain] \in Seq(Message)
  BY <1>1 DEF IInv, WriterTypeOK
<1>3. Len(inHand[Drain]) = 1
  BY <1>1 DEF IInv, Counted
<1>4. PlacedIn(accepted[Drain], fate[Drain], inHand[Drain], diode[Drain])
  BY <1>1 DEF IInv, Placed
<1>5. ASSUME NEW a \in Seq(Message), NEW f \in Seq(Fate), NEW h \in Seq(Message),
             NEW d \in Seq(Message), PlacedIn(a, f, h, d), Len(h) = 1
      PROVE  h[1] \in Message /\ h[1] = a[Len(f) + 1] /\ Len(f) + 1 \in DOMAIN a
  <2>1. /\ Len(a) \in Nat /\ Len(f) \in Nat /\ Len(d) \in Nat
        /\ DOMAIN a = 1 .. Len(a)
    BY LenProperties
  <2>2. Len(a) = Len(f) + 1 + Len(d) /\ h[1] = a[Len(f) + 1]
    BY <1>5 DEF PlacedIn
  <2>3. 1 \in 1 .. Len(h)
    BY <1>5
  <2> QED
    BY <2>1, <2>2, <2>3, ElementOfSeq
<1> QED
  BY <1>2, <1>3, <1>4, <1>5 DEF Envelope

(* A Write that returns gives the envelope in hand its fate. *)
LEMMA Returns ==
  ASSUME IInv, Where, WriteSucceeds(Drain) \/ WriteFails(Drain)
  PROVE  /\ pc[Drain] = "write" /\ pc'[Drain] # "closed"
         /\ Len(fate'[Drain]) = Len(fate[Drain]) + 1 /\ accepted' = accepted
         /\ WriteSucceeds(Drain) => out'[Drain] = Append(out[Drain], Envelope)
         /\ WriteFails(Drain) => out' = out
<1>1. Drain \in Writer
  BY DrainAssumption
<1>2. /\ fate \in [Writer -> Seq(Fate)] /\ out \in [Writer -> Seq(Message)]
      /\ pc \in [Writer -> {"none", "next", "write", "exit", "close", "closed"}]
  BY DEF IInv, WriterTypeOK
<1>3. pc[Drain] = "write" /\ accepted' = accepted
  BY DEF WriteSucceeds, WriteFails
<1>4. pc'[Drain] # "closed"
  BY <1>1, <1>2 DEF WriteSucceeds, WriteFails, AfterFailure
<1>5. Len(fate'[Drain]) = Len(fate[Drain]) + 1
  <2>1. "delivered" \in Fate /\ "failed" \in Fate /\ fate[Drain] \in Seq(Fate)
    BY <1>1, <1>2 DEF Fate
  <2>2. \/ fate'[Drain] = Append(fate[Drain], "delivered")
        \/ fate'[Drain] = Append(fate[Drain], "failed")
    BY <1>1, <1>2 DEF WriteSucceeds, WriteFails
  <2> QED
    BY <2>1, <2>2, AppendProperties
<1>6. ASSUME WriteSucceeds(Drain) PROVE out'[Drain] = Append(out[Drain], Envelope)
  <2>1. out'[Drain] = out[Drain] \o inHand[Drain]
    BY <1>1, <1>2, <1>6 DEF WriteSucceeds
  <2> QED
    BY <1>3, <2>1, InHand, SingletonConcatenated DEF Envelope
<1>7. WriteFails(Drain) => out' = out
  BY DEF WriteFails
<1> QED
  BY <1>3, <1>4, <1>5, <1>6, <1>7

(* Writing the first of some messages. *)
LEMMA HeadOfTodo ==
  ASSUME DrainTypeOK, Where, Sending
  PROVE  /\ todo # <<>> /\ Head(todo) = todo[1] /\ Head(todo) \in Part
         /\ Len(todo) \in Nat \ {0} /\ DOMAIN todo = 1 .. Len(todo)
         /\ Tail(todo) \in Seq(Part) /\ Len(Tail(todo)) = Len(todo) - 1
         /\ DOMAIN Tail(todo) = 1 .. Len(todo) - 1
         /\ \A i \in 1 .. Len(todo) - 1 : Tail(todo)[i] = todo[i + 1]
<1>1. todo \in Seq(Part) /\ todo # <<>>
  BY DEF DrainTypeOK, Where
<1>2. Len(todo) \in Nat \ {0} /\ DOMAIN todo = 1 .. Len(todo)
  BY <1>1, LenProperties, EmptySeq
<1>3. /\ Head(todo) \in Part /\ Tail(todo) \in Seq(Part)
      /\ Len(Tail(todo)) = Len(todo) - 1
      /\ \A i \in 1 .. Len(Tail(todo)) : Tail(todo)[i] = todo[i + 1]
  BY <1>1, HeadTailProperties
<1>4. DOMAIN Tail(todo) = 1 .. Len(todo) - 1
  BY <1>3, LenProperties
<1>5. Head(todo) = todo[1]
  BY <1>1
<1> QED
  BY <1>1, <1>2, <1>3, <1>4, <1>5

-----------------------------------------------------------------------------
(* A connection that takes a write keeps the others as they are. *)
LEMMA TakenBy ==
  ASSUME NEW cs \in Seq(Connection), NEW c \in DOMAIN cs, NEW x \in Taken
  PROVE  LET ds == [cs EXCEPT ![c].took = Append(@, x)]
         IN  /\ ds \in Seq(Connection) /\ DOMAIN ds = DOMAIN cs
             /\ \A d \in DOMAIN cs : d # c => ds[d] = cs[d]
             /\ ds[c].open = cs[c].open /\ ds[c].took = Append(cs[c].took, x)
             /\ cs[c].took \in Seq(Taken)
<1> DEFINE ds == [cs EXCEPT ![c].took = Append(@, x)]
           y == [cs[c] EXCEPT !.took = Append(@, x)]
<1>1. cs[c] \in Connection /\ DOMAIN cs = 1 .. Len(cs)
  BY LenProperties, ElementOfSeq
<1>2. /\ y \in Connection /\ y.open = cs[c].open
      /\ y.took = Append(cs[c].took, x) /\ cs[c].took \in Seq(Taken)
  <2>1. cs[c].took \in Seq(Taken)
    BY <1>1 DEF Connection
  <2>2. Append(cs[c].took, x) \in Seq(Taken)
    BY <2>1, AppendProperties
  <2> QED
    BY <1>1, <2>1, <2>2 DEF Connection
<1>3. ds = [cs EXCEPT ![c] = y]
  OBVIOUS
<1> HIDE DEF y
<1>4. ds \in Seq(Connection)
  BY <1>1, <1>2, <1>3, ExceptSeq
<1> QED
  BY <1>2, <1>3, <1>4

(* So does one that is closed. *)
LEMMA ClosedBy ==
  ASSUME NEW cs \in Seq(Connection), NEW c \in DOMAIN cs
  PROVE  LET ds == [cs EXCEPT ![c].open = FALSE]
         IN  /\ ds \in Seq(Connection) /\ DOMAIN ds = DOMAIN cs
             /\ \A d \in DOMAIN cs : d # c => ds[d] = cs[d]
             /\ ds[c].open = FALSE /\ ds[c].took = cs[c].took
<1> DEFINE ds == [cs EXCEPT ![c].open = FALSE]
           y == [cs[c] EXCEPT !.open = FALSE]
<1>1. cs[c] \in Connection /\ DOMAIN cs = 1 .. Len(cs)
  BY LenProperties, ElementOfSeq
<1>2. y \in Connection /\ y.open = FALSE /\ y.took = cs[c].took
  BY <1>1 DEF Connection
<1>3. ds = [cs EXCEPT ![c] = y]
  OBVIOUS
<1> HIDE DEF y
<1>4. ds \in Seq(Connection)
  BY <1>1, <1>2, <1>3, ExceptSeq
<1> QED
  BY <1>2, <1>3, <1>4

(* What the writer does to its connections when it writes part of the first  *)
(* message.                                                                  *)
LEMMA TookConns ==
  ASSUME DrainTypeOK, Where, Frames, step \in {"prefix", "body"},
         NEW part \in {"prefix", "body", "cut"}
  PROVE  /\ Took(part) \in Seq(Connection) /\ DOMAIN Took(part) = DOMAIN conns
         /\ conn \in DOMAIN conns /\ conn # 0
         /\ \A c \in DOMAIN conns : c # conn => Took(part)[c] = conns[c]
         /\ Took(part)[conn].open = conns[conn].open
         /\ Took(part)[conn].took = Append(conns[conn].took, <<part, Head(todo)>>)
         /\ conns[conn].took \in Seq(Taken) /\ <<part, Head(todo)>> \in Taken
<1>1. conn # 0 /\ conn \in DOMAIN conns /\ conns \in Seq(Connection)
  BY DEF Where, Frames, DrainTypeOK
<1>2. Head(todo) \in Part
  BY HeadOfTodo DEF Sending
<1>3. <<part, Head(todo)>> \in Taken
  BY <1>2 DEF Taken
<1> QED
  BY <1>1, <1>3, TakenBy DEF Took

(* What a Do does to the posts. *)
LEMMA DoAppends ==
  ASSUME DrainTypeOK, Where, Sending, NEW k \in 0 .. MaxSends, Do(k)
  PROVE  LET n == Len(posted)
         IN  /\ n \in Nat /\ DOMAIN posted = 1 .. n
             /\ posted' \in Seq(Part) /\ DOMAIN posted' = 1 .. n + k
             /\ \A i \in 1 .. n : posted'[i] = posted[i]
             /\ \A i \in n + 1 .. n + k : posted'[i] = Head(todo)
<1>1. posted \in Seq(Part) /\ Head(todo) \in Part /\ k \in Nat
  BY HeadOfTodo, DrainAssumption DEF DrainTypeOK
<1>2. ASSUME NEW s \in Seq(Part), NEW x \in Part, NEW u, u = s \o [i \in 1 .. k |-> x]
      PROVE  LET n == Len(s)
             IN  /\ n \in Nat /\ DOMAIN s = 1 .. n
                 /\ u \in Seq(Part) /\ DOMAIN u = 1 .. n + k
                 /\ \A i \in 1 .. n : u[i] = s[i]
                 /\ \A i \in n + 1 .. n + k : u[i] = x
  <2> PICK n : n = Len(s)
    OBVIOUS
  <2> PICK t : t = [i \in 1 .. k |-> x]
    OBVIOUS
  <2>1. t \in Seq(Part) /\ Len(t) = k /\ \A i \in 1 .. k : t[i] = x
    BY <1>1
  <2>2. /\ n \in Nat /\ DOMAIN s = 1 .. n
        /\ u \in Seq(Part) /\ Len(u) = n + k
        /\ \A i \in 1 .. n + k : u[i] = IF i <= n THEN s[i] ELSE t[i - n]
    BY <1>2, <2>1, ConcatProperties, LenProperties
  <2>3. DOMAIN u = 1 .. n + k
    BY <2>2, LenProperties
  <2>4. \A i \in 1 .. n : i \in 1 .. n + k /\ i <= n
    BY <1>1, <2>2
  <2>5. \A i \in n + 1 .. n + k :
          i \in 1 .. n + k /\ ~(i <= n) /\ i - n \in 1 .. k
    BY <1>1, <2>2
  <2> QED
    BY <2>1, <2>2, <2>3, <2>4, <2>5
<1> QED
  BY <1>1, <1>2 DEF Do

LEMMA MaxSendsBound == 1 .. MaxSends \subseteq 0 .. MaxSends
BY DrainAssumption

(* A step keeps the types of the drain's variables. *)
LEMMA DrainTypeStep == DrainInv /\ [DrainNext]_vars => DrainTypeOK'
<1> SUFFICES ASSUME DrainInv, [DrainNext]_vars PROVE DrainTypeOK'
  OBVIOUS
<1> USE DEF DrainInv
<1>1. CASE UNCHANGED drainVars
  BY <1>1 DEF DrainTypeOK, drainVars
<1>2. CASE Begin \/ Sleep \/ Retry \/ ReturnError \/ GiveUp
  BY <1>2 DEF Begin, Sleep, Retry, ReturnError, GiveUp, DrainTypeOK
<1>3. ASSUME Formatted, step = "attempt"
      PROVE  /\ todo' \in Seq(Part)
             /\ step' \in {"idle", "failed", "prefix", "post"}
  <2>1. ASSUME NEW msgs \in ToRFC5424(Envelope) PROVE msgs \in Seq(Part)
    <3>1. Envelope \in Message
      BY <1>3, InHand DEF Where
    <3>2. msgs \in Seq(Parts(Envelope)) /\ Parts(Envelope) \subseteq Part
      BY <3>1, Formats DEF Part
    <3> QED
      BY <3>2, SeqMonotonic
  <2> QED
    BY <1>3, <2>1, FormattedCases DEF Fail, Succeed, DrainTypeOK
<1>4. CASE AttemptWithConn
  BY <1>3, <1>4 DEF AttemptWithConn, DrainTypeOK
<1>5. CASE Dialled
  <2>1. [open |-> TRUE, took |-> <<>>] \in Connection
    BY EmptySeq DEF Connection
  <2>2. conns \in Seq(Connection)
    BY DEF DrainTypeOK
  <2>3. conns' \in Seq(Connection) /\ conn' \in Nat
    BY <1>5, <2>1, <2>2, AppendProperties, LenProperties DEF Dialled
  <2> QED
    BY <1>3, <1>5, <2>3 DEF Dialled, DrainTypeOK
<1>6. CASE DialFails
  BY <1>6 DEF DialFails, Fail, DrainTypeOK
<1>7. CASE WritePrefix
  BY <1>7, TookConns DEF WritePrefix, DrainTypeOK
<1>8. ASSUME NEW again \in {"prefix", "post"}, MessageDone(again), Sending
      PROVE  /\ todo' \in Seq(Part) /\ egress' \in Nat
             /\ step' \in {"idle", "prefix", "post"}
  BY <1>8, HeadOfTodo DEF MessageDone, Succeed, DrainTypeOK
<1>9. CASE WriteBody
  BY <1>8, <1>9, TookConns DEF WriteBody, DrainTypeOK, Sending
<1>10. CASE Post
  <2>1. posted' \in Seq(Part)
    BY <1>10, DoAppends, MaxSendsBound DEF Post, Sending
  <2> QED
    BY <1>8, <1>10, <2>1 DEF Post, DrainTypeOK, Sending
<1>11. CASE PostFails
  <2>1. posted' \in Seq(Part)
    BY <1>11, DoAppends DEF PostFails, Sending
  <2> QED
    BY <1>11, <2>1 DEF PostFails, Fail, DrainTypeOK
<1>12. ASSUME NEW cs \in Seq(Connection), DOMAIN cs = DOMAIN conns, CloseConn(cs)
       PROVE  conns' \in Seq(Connection) /\ conn' \in Nat
  <2>1. conn # 0 => conn \in DOMAIN cs
    BY <1>12 DEF Frames
  <2> QED
    BY <1>12, <2>1, ClosedBy DEF CloseConn
<1>13. CASE ConnWriteFails
  <2>1. conns' \in Seq(Connection) /\ conn' \in Nat
    BY <1>12, <1>13, TookConns DEF ConnWriteFails, DrainTypeOK
  <2> QED
    BY <1>13, <2>1 DEF ConnWriteFails, Fail, DrainTypeOK
<1>14. CASE CloseWriter
  BY <1>12, <1>14 DEF CloseWriter, DrainTypeOK
<1> QED
  BY <1>1, <1>2, <1>4, <1>5, <1>6, <1>7, <1>9, <1>10, <1>11, <1>13, <1>14
     DEF DrainNext, Goroutine, Connect, DrainWrite, DrainCancel, Outside, vars

-----------------------------------------------------------------------------
(* The position before an even one. *)
LEMMA BeforeEven ==
  ASSUME NEW n \in Nat, NEW i \in 1 .. n, i % 2 = 0
  PROVE  i - 1 \in 1 .. n
<1>1. CASE i = 1
  BY <1>1
<1>2. CASE i # 1
  BY <1>2
<1> QED
  BY <1>1, <1>2

(* Frames on one connection: a length, *)
LEMMA FramedPrefix ==
  ASSUME NEW t \in Seq(Taken), NEW st, NEW m, Framed(t, st, m), st # "body",
         <<"prefix", m>> \in Taken
  PROVE  Framed(Append(t, <<"prefix", m>>), "body", m)
<1> DEFINE x == <<"prefix", m>>
           u == Append(t, x)
           n == Len(t)
<1>1. n \in Nat /\ DOMAIN t = 1 .. n /\ n % 2 # 1
  BY LenProperties DEF Framed
<1>2. /\ u \in Seq(Taken) /\ Len(u) = n + 1 /\ u[n + 1] = x
      /\ \A i \in 1 .. n : u[i] = t[i]
  BY AppendProperties
<1>3. DOMAIN u = 1 .. n + 1
  BY <1>2, LenProperties
<1>4. x[1] = "prefix"
  OBVIOUS
<1> HIDE DEF u, n, x
<1>5. (n + 1) % 2 = 1
  BY <1>1
<1>6. ASSUME NEW i \in DOMAIN u PROVE Whole(u, i)
  <2>1. CASE i = n + 1
    BY <1>2, <1>4, <1>5, <2>1 DEF Whole
  <2>2. CASE i # n + 1
    <3>1. i \in 1 .. n /\ Whole(t, i)
      BY <1>1, <1>3, <2>2 DEF Framed
    <3>2. i % 2 = 0 => i - 1 \in 1 .. n
      BY <1>1, <3>1, BeforeEven
    <3> QED
      BY <1>2, <3>1, <3>2 DEF Whole
  <2> QED
    BY <2>1, <2>2
<1> QED
  BY <1>2, <1>5, <1>6 DEF Framed, x, u

(* the message behind it, *)
LEMMA FramedBody ==
  ASSUME NEW t \in Seq(Taken), NEW m, Framed(t, "body", m), <<"body", m>> \in Taken,
         NEW st, st # "body", NEW m2
  PROVE  Framed(Append(t, <<"body", m>>), st, m2)
<1> DEFINE x == <<"body", m>>
           y == <<"prefix", m>>
           u == Append(t, x)
           n == Len(t)
<1>1. n \in Nat /\ DOMAIN t = 1 .. n /\ n % 2 = 1 /\ t[n] = y
  BY LenProperties DEF Framed
<1>2. /\ u \in Seq(Taken) /\ Len(u) = n + 1 /\ u[n + 1] = x
      /\ \A i \in 1 .. n : u[i] = t[i]
  BY AppendProperties
<1>3. DOMAIN u = 1 .. n + 1
  BY <1>2, LenProperties
<1>4. x[1] = "body" /\ x[2] = y[2]
  OBVIOUS
<1> HIDE DEF u, n, x, y
<1>5. (n + 1) % 2 = 0 /\ n \in 1 .. n /\ n + 1 - 1 = n
  BY <1>1
<1>6. ASSUME NEW i \in DOMAIN u PROVE Whole(u, i)
  <2>1. CASE i = n + 1
    <3>1. u[i] = x /\ u[i - 1] = y /\ i % 2 = 0
      BY <1>1, <1>2, <1>5, <2>1
    <3> QED
      BY <1>4, <3>1 DEF Whole
  <2>2. CASE i # n + 1
    <3>1. i \in 1 .. n /\ Whole(t, i)
      BY <1>1, <1>3, <2>2 DEF Framed
    <3>2. i % 2 = 0 => i - 1 \in 1 .. n
      BY <1>1, <3>1, BeforeEven
    <3> QED
      BY <1>2, <3>1, <3>2 DEF Whole
  <2> QED
    BY <2>1, <2>2
<1>7. (n + 1) % 2 # 1
  BY <1>5
<1> QED
  BY <1>2, <1>6, <1>7 DEF Framed, x, u

(* or a part of either. *)
LEMMA FramedCut ==
  ASSUME NEW t \in Seq(Taken), NEW st, NEW m, Framed(t, st, m), NEW x \in Taken
  PROVE  Broken(t) /\ Broken(Append(t, x))
<1> DEFINE u == Append(t, x)
           n == Len(t)
<1>1. n \in Nat /\ DOMAIN t = 1 .. n
  BY LenProperties
<1>2. /\ u \in Seq(Taken) /\ Len(u) = n + 1
      /\ \A i \in 1 .. n : u[i] = t[i]
  BY AppendProperties
<1>3. DOMAIN u = 1 .. n + 1
  BY <1>2, LenProperties
<1> HIDE DEF u, n
<1>4. ASSUME NEW i \in DOMAIN u, i # n + 1 PROVE Whole(u, i)
  <2>1. i \in 1 .. n /\ Whole(t, i)
    BY <1>1, <1>3, <1>4 DEF Framed
  <2>2. i % 2 = 0 => i - 1 \in 1 .. n
    BY <1>1, <2>1, BeforeEven
  <2> QED
    BY <1>2, <2>1, <2>2 DEF Whole
<1> QED
  BY <1>2, <1>4 DEF Framed, Broken, u

(* Where Write goes after formatting. *)
LEMMA AfterFormatting ==
  ASSUME Formatted
  PROVE  /\ step' \in {"idle", "failed", "prefix", "post"}
         /\ step' = "prefix" => scheme # "https" /\ todo' # <<>>
         /\ step' = "post" => scheme = "https" /\ todo' # <<>>
         /\ step' = "idle" => Succeed
         /\ step' # "idle" => UNCHANGED writerVars
BY FormattedCases DEF Fail, Succeed

(* Where it goes after a message. *)
LEMMA AfterMessage ==
  ASSUME DrainTypeOK, Where, Sending, NEW again \in {"prefix", "post"},
         MessageDone(again)
  PROVE  /\ step' \in {"idle", again}
         /\ step' = again => todo' # <<>> /\ UNCHANGED writerVars
         /\ step' = "idle" => Succeed /\ Len(todo) = 1
         /\ todo' = Tail(todo) /\ egress' = egress + 1
<1>1. Len(todo) # 1 => Tail(todo) # <<>>
  <2>1. Len(Tail(todo)) = Len(todo) - 1 /\ Len(todo) \in Nat
    BY HeadOfTodo
  <2>2. Tail(todo) = <<>> => Len(Tail(todo)) = 0
    BY EmptySeq, Zenon
  <2> DEFINE n == Len(todo)
             k == Len(Tail(todo))
  <2>3. k = n - 1 /\ n \in Nat /\ (Tail(todo) = <<>> => k = 0)
    BY <2>1, <2>2
  <2> HIDE DEF n, k
  <2>4. n # 1 => Tail(todo) # <<>>
    BY <2>3
  <2> QED
    BY <2>4 DEF n
<1> QED
  BY <1>1 DEF MessageDone, Succeed

(* A step keeps the program counters of the goroutine together. *)
LEMMA WhereStep == DrainInv /\ [DrainNext]_vars => Where'
<1> SUFFICES ASSUME DrainInv, [DrainNext]_vars PROVE Where'
  OBVIOUS
<1>1. Where /\ Drain \in Writer /\ IInv /\ DrainTypeOK /\ Frames
  BY DrainAssumption DEF DrainInv
<1>2. pc \in [Writer -> {"none", "next", "write", "exit", "close", "closed"}]
  BY <1>1 DEF IInv, WriterTypeOK
<1>3. Succeed => step' = "idle" /\ pc'[Drain] # "closed"
  BY <1>1, Returns DEF Succeed
<1>4. CASE Connect
  BY <1>1, <1>2, <1>4 DEF Connect, NewDiodeWriters, drainVars, Where, Sending
<1>5. ASSUME UNCHANGED drainVars, UNCHANGED pc PROVE Where'
  BY <1>1, <1>5 DEF drainVars, Where, Sending
<1>6. CASE UNCHANGED vars \/ DrainCancel
  BY <1>5, <1>6 DEF vars, writerVars, DrainCancel, Cancel
<1>7. ASSUME NEW m \in Message, DrainWrite(m) PROVE Where'
  BY <1>5, <1>7 DEF DrainWrite, Write
<1>8. CASE Outside
  <2>1. pc[Drain] # "write" /\ pc[Drain] # "closed" /\ pc'[Drain] # "closed"
    BY <1>1, <1>2, <1>8 DEF Outside, TakeNext, NextReturnsNil, Done
  <2> QED
    BY <1>1, <1>8, <2>1 DEF Outside, drainVars, Where, Sending
<1>9. CASE Begin \/ Sleep \/ Retry
  BY <1>1, <1>9 DEF Begin, Sleep, Retry, Where, Sending, writerVars
<1>10. CASE AttemptWithConn
  <2>1. step = "attempt" /\ (scheme = "https" \/ conn # 0) /\ Formatted
        /\ UNCHANGED <<scheme, retrying, conn>>
    BY <1>10 DEF AttemptWithConn
  <2> QED
    BY <1>1, <1>3, <2>1, AfterFormatting DEF Where, Sending, writerVars
<1>11. CASE Dialled
  <2>1. /\ step = "attempt" /\ scheme # "https" /\ Formatted
        /\ UNCHANGED <<scheme, retrying>>
    BY <1>11 DEF Dialled
  <2>2. conn' # 0
    <3>1. conns \in Seq(Connection) /\ [open |-> TRUE, took |-> <<>>] \in Connection
      BY <1>1, EmptySeq DEF DrainTypeOK, Connection
    <3>2. Len(Append(conns, [open |-> TRUE, took |-> <<>>])) = Len(conns) + 1
          /\ Len(conns) \in Nat
      BY <3>1, AppendProperties, LenProperties
    <3> QED
      BY <1>11, <3>2 DEF Dialled
  <2>3. pc'[Drain] # "closed"
    BY <1>1, <1>3, <2>1, AfterFormatting DEF Where, writerVars
  <2> QED
    BY <1>1, <1>3, <2>1, <2>2, <2>3, AfterFormatting DEF Where, Sending, writerVars
<1>12. CASE DialFails
  BY <1>1, <1>12 DEF DialFails, Fail, Where, Sending, writerVars
<1>13. CASE WritePrefix
  BY <1>1, <1>13 DEF WritePrefix, Where, Sending, writerVars
<1>14. CASE WriteBody
  <2>1. Sending /\ step = "body" /\ MessageDone("prefix")
        /\ UNCHANGED <<scheme, retrying, conn>>
    BY <1>14 DEF WriteBody, Sending
  <2> QED
    BY <1>1, <1>3, <2>1, AfterMessage DEF Where, Sending, writerVars
<1>15. CASE Post
  <2>1. Sending /\ step = "post" /\ MessageDone("post")
        /\ UNCHANGED <<scheme, retrying, conn>>
    BY <1>15 DEF Post, Sending
  <2> QED
    BY <1>1, <1>3, <2>1, AfterMessage DEF Where, Sending, writerVars
<1>16. CASE ConnWriteFails \/ PostFails
  <2>1. step' = "failed" /\ pc'[Drain] = "write" /\ pc[Drain] = "write"
        /\ UNCHANGED <<scheme, retrying>>
    BY <1>1, <1>16 DEF ConnWriteFails, PostFails, Fail, Where, Sending, writerVars
  <2> QED
    BY <2>1 DEF Where, Sending
<1>17. CASE ReturnError \/ GiveUp
  <2>1. step' = "idle" /\ pc'[Drain] # "closed" /\ UNCHANGED <<scheme, retrying>>
    BY <1>1, <1>17, Returns DEF ReturnError, GiveUp
  <2> QED
    BY <2>1 DEF Where, Sending
<1>18. CASE CloseWriter
  <2>1. conn' = 0 /\ step = "idle" /\ step' = "idle"
    BY <1>1, <1>18 DEF CloseWriter, Close, CloseConn, Where
  <2> QED
    BY <2>1 DEF Where, Sending
<1> QED
  BY <1>4, <1>6, <1>7, <1>8, <1>9, <1>10, <1>11, <1>12, <1>13, <1>14, <1>15, <1>16,
     <1>17, <1>18 DEF DrainNext, Goroutine

(* A step keeps the frames on every connection. *)
LEMMA FramesStep == DrainInv /\ [DrainNext]_vars => Frames'
<1> SUFFICES ASSUME DrainInv, [DrainNext]_vars PROVE Frames'
  OBVIOUS
<1>1. Where /\ DrainTypeOK /\ Frames
  BY DEF DrainInv
<1>2. CASE UNCHANGED drainVars
  BY <1>1, <1>2 DEF drainVars, Frames
<1>3. ASSUME UNCHANGED <<conns, conn>>, step # "body", step' # "body" PROVE Frames'
  BY <1>1, <1>3 DEF Frames, Framed
<1>4. CASE Begin \/ Sleep \/ Retry \/ ReturnError \/ GiveUp \/ DialFails
  BY <1>3, <1>4 DEF Begin, Sleep, Retry, ReturnError, GiveUp, DialFails, Fail
<1>5. CASE AttemptWithConn
  BY <1>3, <1>5, AfterFormatting DEF AttemptWithConn
<1>6. CASE Dialled
  <2> DEFINE x == [open |-> TRUE, took |-> <<>>]
             n == Len(conns)
  <2>1. conns \in Seq(Connection) /\ x \in Connection
    BY <1>1, EmptySeq DEF DrainTypeOK, Connection
  <2>2. /\ n \in Nat /\ DOMAIN conns = 1 .. n
        /\ conns' = Append(conns, x) /\ Len(conns') = n + 1
        /\ \A c \in 1 .. n : conns'[c] = conns[c]
        /\ conns'[n + 1] = x /\ conn' = n + 1
    BY <1>6, <2>1, AppendProperties, LenProperties DEF Dialled
  <2>3. DOMAIN conns' = 1 .. n + 1
    BY <2>1, <2>2, AppendProperties, LenProperties
  <2>4. step' # "body" /\ conn = 0
    BY <1>6, AfterFormatting DEF Dialled
  <2>5. x.open /\ x.took = <<>> /\ Len(<<>>) = 0 /\ DOMAIN <<>> = {}
    OBVIOUS
  <2>6. Framed(<<>>, step', Head(todo')) /\ Broken(<<>>)
    BY <2>4, <2>5 DEF Framed, Broken
  <2> HIDE DEF x, n
  <2>7. \A c \in 1 .. n : ~conns[c].open /\ Broken(conns[c].took) /\ c # n + 1
    <3>1. \A c \in 1 .. n : (conns[c].open <=> c = 0) /\ Broken(conns[c].took)
      BY <1>1, <2>2, <2>4 DEF Frames
    <3> QED
      BY <2>2, <3>1
  <2>8. \A c \in 1 .. n + 1 : c = n + 1 \/ c \in 1 .. n
    BY <2>2
  <2>9. conn' \in DOMAIN conns' /\ conns'[conn'].took = <<>>
    BY <2>2, <2>3, <2>5
  <2>10. \A c \in DOMAIN conns' : /\ conns'[c].open <=> c = conn'
                                  /\ Broken(conns'[c].took)
    BY <2>2, <2>3, <2>5, <2>6, <2>7, <2>8
  <2> QED
    BY <2>6, <2>9, <2>10 DEF Frames
<1>7. ASSUME step \in {"prefix", "body"}, NEW part \in {"prefix", "body", "cut"}
      PROVE  /\ Framed(conns[conn].took, step, Head(todo))
             /\ Broken(Took(part)[conn].took)
             /\ \A c \in DOMAIN Took(part) : /\ Took(part)[c].open <=> c = conn
                                             /\ Broken(Took(part)[c].took)
  <2>1. Framed(conns[conn].took, step, Head(todo))
    BY <1>1, <1>7 DEF Frames, Where
  <2>2. Broken(Took(part)[conn].took)
    BY <1>1, <1>7, <2>1, TookConns, FramedCut
  <2> QED
    BY <1>1, <1>7, <2>1, <2>2, TookConns DEF Frames
<1>8. CASE WritePrefix
  <2>1. /\ step = "prefix" /\ conns' = Took("prefix") /\ step' = "body"
        /\ conn' = conn /\ todo' = todo
    BY <1>8 DEF WritePrefix
  <2>2. Framed(Took("prefix")[conn].took, "body", Head(todo))
    BY <1>1, <1>7, <2>1, TookConns, FramedPrefix
  <2>3. conn \in DOMAIN Took("prefix")
    BY <1>1, <2>1, TookConns
  <2> QED
    BY <1>7, <2>1, <2>2, <2>3 DEF Frames
<1>9. CASE WriteBody
  <2>1. step = "body" /\ conns' = Took("body") /\ conn' = conn
    BY <1>9 DEF WriteBody
  <2>2. step' # "body"
    BY <1>1, <1>9, AfterMessage DEF WriteBody, Sending
  <2>3. Framed(Took("body")[conn].took, step', Head(todo'))
    BY <1>1, <1>7, <2>1, <2>2, TookConns, FramedBody
  <2>4. conn \in DOMAIN Took("body")
    BY <1>1, <2>1, TookConns
  <2> QED
    BY <1>7, <2>1, <2>3, <2>4 DEF Frames
<1>10. CASE Post
  BY <1>1, <1>3, <1>10, AfterMessage DEF Post, Sending
<1>11. CASE PostFails
  BY <1>3, <1>11 DEF PostFails, Fail
<1>12. ASSUME NEW cs \in Seq(Connection), DOMAIN cs = DOMAIN conns, CloseConn(cs),
              \A c \in DOMAIN cs : (cs[c].open <=> c = conn) /\ Broken(cs[c].took)
       PROVE  Frames'
  <2>1. conn' = 0
    BY <1>12 DEF CloseConn
  <2>2. 0 \notin DOMAIN cs
    BY LenProperties
  <2>3. CASE conn = 0
    BY <1>12, <2>1, <2>3 DEF CloseConn, Frames
  <2>4. CASE conn # 0
    <3>1. conn \in DOMAIN cs /\ conns' = [cs EXCEPT ![conn].open = FALSE]
      BY <1>1, <1>12, <2>4 DEF CloseConn, Frames
    <3> QED
      BY <1>12, <2>1, <2>2, <3>1, ClosedBy DEF Frames
  <2> QED
    BY <2>3, <2>4
<1>13. CASE ConnWriteFails
  <2>1. step \in {"prefix", "body"}
    BY <1>13 DEF ConnWriteFails
  <2>2. PICK cs \in {conns, Took("cut")} : CloseConn(cs)
    BY <1>13 DEF ConnWriteFails
  <2>3. cs \in Seq(Connection) /\ DOMAIN cs = DOMAIN conns
    BY <1>1, <2>1, <2>2, TookConns DEF DrainTypeOK
  <2>4. \A c \in DOMAIN cs : (cs[c].open <=> c = conn) /\ Broken(cs[c].took)
    <3>1. CASE cs = conns
      BY <1>1, <3>1 DEF Frames
    <3>2. CASE cs = Took("cut")
      BY <1>7, <2>1, <3>2
    <3> QED
      BY <2>2, <3>1, <3>2
  <2> QED
    BY <1>12, <2>2, <2>3, <2>4
<1>14. CASE CloseWriter
  BY <1>1, <1>12, <1>14 DEF CloseWriter, DrainTypeOK, Frames
<1> QED
  BY <1>2, <1>4, <1>5, <1>6, <1>8, <1>9, <1>10, <1>11, <1>13, <1>14
     DEF DrainNext, Goroutine, Connect, DrainWrite, DrainCancel, Outside, vars

-----------------------------------------------------------------------------
(* A step that sends no message whole, *)
PlacesKept == Places' = Places /\ \A p \in Places : Got(p)' = Got(p)

(* and one that sends the first of todo, a Do perhaps several times. *)
PlacesAdded(Q) ==
  /\ Q # {} /\ Q \cap Places = {} /\ IsFiniteSet(Q)
  /\ Places' = Places \cup Q
  /\ \A q \in Q : Got(q)' = Head(todo)
  /\ \A p \in Places : Got(p)' = Got(p)
  /\ scheme # "https" => \E q : Q = {q}

PlaceAdded == \E Q : PlacesAdded(Q)

(* Over a connection, what counts is which writes were bodies. *)
LEMMA KeptOnConns ==
  ASSUME scheme # "https", scheme' = scheme, DOMAIN conns \subseteq DOMAIN conns',
         \A c \in DOMAIN conns :
           Bodies(c)' = Bodies(c)
             /\ \A i \in Bodies(c) : conns'[c].took[i] = conns[c].took[i],
         \A c \in DOMAIN conns' \ DOMAIN conns : Bodies(c)' = {}
  PROVE  PlacesKept
<1>1. Places = UNION {{c} \X Bodies(c) : c \in DOMAIN conns}
  BY DEF Places
<1>2. Places' = UNION {{c} \X Bodies(c)' : c \in DOMAIN conns'}
  BY DEF Places
<1>3. ASSUME NEW p \in Places
      PROVE  p \in Places' /\ Got(p)' = Got(p)
  <2>1. PICK c \in DOMAIN conns : p \in {c} \X Bodies(c)
    BY <1>1, <1>3
  <2>2. p[1] = c /\ p[2] \in Bodies(c) /\ p \in {c} \X Bodies(c)' /\ c \in DOMAIN conns'
    BY <2>1
  <2> QED
    BY <1>2, <2>2 DEF Got
<1>4. ASSUME NEW p \in Places' PROVE p \in Places
  <2>1. PICK c \in DOMAIN conns' : p \in {c} \X Bodies(c)'
    BY <1>2, <1>4
  <2>2. Bodies(c)' # {}
    BY <2>1
  <2>3. c \in DOMAIN conns /\ p \in {c} \X Bodies(c)
    BY <2>1, <2>2
  <2> QED
    BY <1>1, <2>3
<1> QED
  BY <1>3, <1>4 DEF PlacesKept

(* Which writes of a connection were bodies after one more. *)
LEMMA BodiesTook ==
  ASSUME DrainTypeOK, Where, Frames, step \in {"prefix", "body"},
         NEW part \in {"prefix", "body", "cut"},
         NEW cs, cs = Took(part), conns' \in Seq(Connection),
         DOMAIN conns' = DOMAIN cs, \A c \in DOMAIN cs : conns'[c].took = cs[c].took,
         NEW k, k = conn
  PROVE  LET n == Len(conns[k].took)
         IN  /\ n \in Nat /\ k \in DOMAIN conns /\ DOMAIN conns' = DOMAIN conns
             /\ Bodies(k) \subseteq 1 .. n
             /\ part = "body" => Bodies(k)' = Bodies(k) \cup {n + 1}
             /\ part # "body" => Bodies(k)' = Bodies(k)
             /\ \A i \in 1 .. n : conns'[k].took[i] = conns[k].took[i]
             /\ conns'[k].took[n + 1] = <<part, Head(todo)>>
             /\ \A c \in DOMAIN conns : c # k => conns'[c].took = conns[c].took
<1> DEFINE t == conns[k].took
           u == conns'[k].took
           n == Len(t)
           x == <<part, Head(todo)>>
<1>1. /\ k \in DOMAIN conns /\ DOMAIN conns' = DOMAIN conns
      /\ \A c \in DOMAIN conns : c # k => conns'[c].took = conns[c].took
      /\ t \in Seq(Taken) /\ x \in Taken /\ u = Append(t, x)
  BY TookConns
<1>2. n \in Nat /\ DOMAIN t = 1 .. n
  BY <1>1, LenProperties
<1>3. /\ u \in Seq(Taken) /\ Len(u) = n + 1 /\ u[n + 1] = x
      /\ \A i \in 1 .. n : u[i] = t[i]
  BY <1>1, AppendProperties
<1>4. DOMAIN u = 1 .. n + 1
  BY <1>3, LenProperties
<1>5. x[1] = part
  OBVIOUS
<1>6. Bodies(k) = {i \in DOMAIN t : t[i][1] = "body"}
      /\ Bodies(k)' = {i \in DOMAIN u : u[i][1] = "body"}
  BY DEF Bodies
<1> HIDE DEF t, u, n, x
<1>7. Bodies(k) \subseteq 1 .. n
  BY <1>2, <1>6
<1>8. part = "body" => Bodies(k)' = Bodies(k) \cup {n + 1}
  BY <1>2, <1>3, <1>4, <1>5, <1>6
<1>9. part # "body" => Bodies(k)' = Bodies(k)
  BY <1>2, <1>3, <1>4, <1>5, <1>6
<1> QED
  BY <1>1, <1>2, <1>3, <1>7, <1>8, <1>9 DEF t, u, n, x

(* A whole message adds a place, *)
LEMMA BodyAdds ==
  ASSUME DrainTypeOK, DrainTypeOK', Where, Frames, WriteBody
  PROVE  PlaceAdded
<1> PICK k : k = conn
  OBVIOUS
<1> PICK n : n = Len(conns[k].took)
  OBVIOUS
<1> DEFINE q == <<k, n + 1>>
<1>1. step = "body" /\ conns' = Took("body") /\ scheme' = scheme /\ scheme # "https"
  BY DEF WriteBody, Where
<1>2. /\ n \in Nat /\ k \in DOMAIN conns /\ DOMAIN conns' = DOMAIN conns
      /\ Bodies(k) \subseteq 1 .. n
      /\ Bodies(k)' = Bodies(k) \cup {n + 1}
      /\ \A i \in 1 .. n : conns'[k].took[i] = conns[k].took[i]
      /\ conns'[k].took[n + 1] = <<"body", Head(todo)>>
      /\ \A c \in DOMAIN conns : c # k => conns'[c].took = conns[c].took
  BY <1>1, BodiesTook DEF DrainTypeOK
<1>3. n + 1 \notin 1 .. n
  BY <1>2
<1>4. \A c \in DOMAIN conns : c # k => Bodies(c)' = Bodies(c)
  BY <1>2 DEF Bodies
<1>5. Places = UNION {{c} \X Bodies(c) : c \in DOMAIN conns}
  BY <1>1 DEF Places
<1>6. Places' = UNION {{c} \X Bodies(c)' : c \in DOMAIN conns}
  BY <1>1, <1>2 DEF Places
<1>7. q \notin Places
  <2> SUFFICES ASSUME q \in Places PROVE FALSE
    OBVIOUS
  <2>1. PICK c \in DOMAIN conns : q \in {c} \X Bodies(c)
    BY <1>5
  <2>2. c = k /\ n + 1 \in Bodies(k)
    BY <2>1
  <2> QED
    BY <1>2, <1>3, <2>2
<1>8. Places' = Places \cup {q}
  <2>1. ASSUME NEW p \in Places' PROVE p \in Places \cup {q}
    <3>1. PICK c \in DOMAIN conns : p \in {c} \X Bodies(c)'
      BY <1>6, <2>1
    <3>2. CASE c = k
      <4>1. p = <<k, p[2]>> /\ p[2] \in Bodies(k) \cup {n + 1}
        <5>1. p \in {k} \X (Bodies(k) \cup {n + 1})
          BY <1>2, <3>1, <3>2
        <5> QED
          BY <5>1
      <4>2. p[2] \in Bodies(k) => p \in {k} \X Bodies(k)
        BY <4>1
      <4> QED
        BY <1>2, <1>5, <4>1, <4>2
    <3>3. CASE c # k
      BY <1>4, <1>5, <3>1, <3>3
    <3> QED
      BY <3>2, <3>3
  <2>2. q \in {k} \X Bodies(k)'
    BY <1>2
  <2>3. \A c \in DOMAIN conns : {c} \X Bodies(c) \subseteq {c} \X Bodies(c)'
    BY <1>2, <1>4
  <2>4. Places \cup {q} \subseteq Places'
    BY <1>2, <1>5, <1>6, <2>2, <2>3
  <2> QED
    BY <2>1, <2>4
<1>9. Got(q)' = Head(todo)
  BY <1>1, <1>2 DEF Got
<1>10. ASSUME NEW p \in Places PROVE Got(p)' = Got(p)
  <2>1. PICK c \in DOMAIN conns : p \in {c} \X Bodies(c)
    BY <1>5, <1>10
  <2>2. p[1] = c /\ p[2] \in Bodies(c)
    BY <2>1
  <2>3. conns'[c].took[p[2]] = conns[c].took[p[2]]
    BY <1>2, <2>2
  <2> QED
    BY <1>1, <2>2, <2>3 DEF Got
<1> HIDE DEF q
<1>11. PlacesAdded({q})
  BY <1>7, <1>8, <1>9, <1>10, FS_Singleton DEF PlacesAdded
<1> QED
  BY <1>11 DEF PlaceAdded

(* so does a Do that reaches the drain, *)
LEMMA DoAdds ==
  ASSUME DrainTypeOK, Where, step = "post", scheme' = scheme,
         NEW k \in 1 .. MaxSends, Do(k)
  PROVE  PlaceAdded
<1> PICK n : n = Len(posted)
  OBVIOUS
<1> DEFINE Q == n + 1 .. n + k
<1>1. scheme = "https" /\ Sending
  BY DEF Where, Sending
<1>2. /\ n \in Nat /\ DOMAIN posted = 1 .. n /\ DOMAIN posted' = 1 .. n + k
      /\ \A i \in 1 .. n : posted'[i] = posted[i]
      /\ \A i \in Q : posted'[i] = Head(todo)
  BY <1>1, DoAppends, MaxSendsBound
<1>3. k \in Nat \ {0}
  BY DrainAssumption
<1>4. Places = 1 .. n /\ Places' = 1 .. n + k
  BY <1>1, <1>2 DEF Places
<1>5. Q # {} /\ Q \cap 1 .. n = {} /\ 1 .. n + k = 1 .. n \cup Q
  BY <1>2, <1>3
<1>6. IsFiniteSet(Q)
  <2>1. n + 1 \in Int /\ n + k \in Int
    BY <1>2, <1>3
  <2> QED
    BY <2>1, FS_Interval
<1>7. (\A q \in Q : Got(q)' = Head(todo)) /\ \A p \in 1 .. n : Got(p)' = Got(p)
  BY <1>1, <1>2 DEF Got
<1> HIDE DEF Q
<1>8. PlacesAdded(Q)
  BY <1>1, <1>4, <1>5, <1>6, <1>7 DEF PlacesAdded
<1> QED
  BY <1>8 DEF PlaceAdded

(* one that does not leaves them as they are, *)
LEMMA DoKeeps ==
  ASSUME DrainTypeOK, Do(0)
  PROVE  posted' = posted
<1>1. posted \in Seq(Part) /\ [i \in 1 .. 0 |-> Head(todo)] = <<>>
  BY DEF DrainTypeOK
<1>2. posted \o <<>> = posted
  BY <1>1, ConcatEmptySeq
<1> QED
  BY <1>1, <1>2 DEF Do

(* and nothing else does. *)
LEMMA PlacesStep ==
  ASSUME DrainInv, DrainTypeOK', [DrainNext]_vars
  PROVE  \/ PlacesKept /\ egress' = egress
         \/ PlaceAdded /\ (WriteBody \/ Post \/ PostFails)
<1>1. Where /\ DrainTypeOK /\ Frames
  BY DEF DrainInv
<1>2. ASSUME UNCHANGED <<scheme, conns, posted>> PROVE PlacesKept
  BY <1>2 DEF PlacesKept, Places, Bodies, Got
<1>3. CASE UNCHANGED drainVars
  BY <1>2, <1>3 DEF drainVars
<1>4. CASE Begin \/ Sleep \/ Retry \/ ReturnError \/ GiveUp \/ DialFails
           \/ AttemptWithConn
  BY <1>2, <1>4 DEF Begin, Sleep, Retry, ReturnError, GiveUp, DialFails,
                    AttemptWithConn
<1>5. CASE Dialled
  <2> DEFINE x == [open |-> TRUE, took |-> <<>>]
  <2> PICK n : n = Len(conns)
    OBVIOUS
  <2>1. conns \in Seq(Connection) /\ x \in Connection
    BY <1>1, EmptySeq DEF DrainTypeOK, Connection
  <2>2. /\ n \in Nat /\ DOMAIN conns = 1 .. n
        /\ conns' = Append(conns, x) /\ DOMAIN conns' = 1 .. n + 1
        /\ \A c \in 1 .. n : conns'[c] = conns[c]
        /\ conns'[n + 1] = x
    BY <1>5, <2>1, AppendProperties, LenProperties DEF Dialled
  <2>3. DOMAIN x.took = {}
    OBVIOUS
  <2> HIDE DEF x
  <2>4. \A c \in 1 .. n : Bodies(c)' = Bodies(c)
    BY <2>2 DEF Bodies
  <2>5. Bodies(n + 1)' = {}
    BY <2>2, <2>3 DEF Bodies
  <2>6. \A c \in (1 .. n + 1) \ (1 .. n) : c = n + 1
    BY <2>2
  <2>7. DOMAIN conns \subseteq DOMAIN conns'
    BY <2>2
  <2>8. /\ \A c \in DOMAIN conns :
             Bodies(c)' = Bodies(c)
               /\ \A i \in Bodies(c) : conns'[c].took[i] = conns[c].took[i]
        /\ \A c \in DOMAIN conns' \ DOMAIN conns : Bodies(c)' = {}
    BY <2>2, <2>4, <2>5, <2>6
  <2>9. scheme # "https" /\ scheme' = scheme /\ egress' = egress
    BY <1>5 DEF Dialled
  <2> QED
    BY <2>7, <2>8, <2>9, KeptOnConns
<1>6. ASSUME step \in {"prefix", "body"}, NEW part \in {"prefix", "cut"},
             DOMAIN conns' = DOMAIN Took(part), scheme' = scheme,
             \A c \in DOMAIN Took(part) : conns'[c].took = Took(part)[c].took
      PROVE  PlacesKept
  <2>1. scheme # "https" /\ conns' \in Seq(Connection)
    BY <1>1, <1>6 DEF Where, DrainTypeOK
  <2> PICK k : k = conn
    OBVIOUS
  <2>2. /\ DOMAIN conns' = DOMAIN conns
        /\ Bodies(k) \subseteq 1 .. Len(conns[k].took)
        /\ Bodies(k)' = Bodies(k)
        /\ \A i \in 1 .. Len(conns[k].took) :
             conns'[k].took[i] = conns[k].took[i]
        /\ \A c \in DOMAIN conns : c # k => conns'[c].took = conns[c].took
    BY <1>1, <1>6, <2>1, BodiesTook
  <2>3. \A c \in DOMAIN conns : c # k => Bodies(c)' = Bodies(c)
    BY <2>2 DEF Bodies
  <2>4. \A c \in DOMAIN conns :
          Bodies(c)' = Bodies(c)
            /\ \A i \in Bodies(c) : conns'[c].took[i] = conns[c].took[i]
    BY <2>2, <2>3
  <2> QED
    BY <1>6, <2>1, <2>2, <2>4, KeptOnConns
<1>7. CASE WritePrefix
  BY <1>6, <1>7 DEF WritePrefix
<1>8. CASE WriteBody
  BY <1>1, <1>8, BodyAdds
<1>9. CASE Post
  BY <1>1, <1>9, DoAdds DEF Post
<1>10. CASE PostFails
  <2>1. PICK k \in 0 .. MaxSends : Do(k)
    BY <1>10 DEF PostFails
  <2>2. UNCHANGED <<scheme, conns, egress>> /\ step = "post"
    BY <1>10 DEF PostFails
  <2>3. CASE k = 0
    BY <1>1, <1>2, <2>1, <2>2, <2>3, DoKeeps
  <2>4. CASE k # 0
    <3>1. k \in 1 .. MaxSends
      BY <2>1, <2>4
    <3> QED
      BY <1>1, <1>10, <2>1, <2>2, <3>1, DoAdds
  <2> QED
    BY <2>3, <2>4
<1>11. ASSUME NEW cs \in Seq(Connection), DOMAIN cs = DOMAIN conns, CloseConn(cs)
       PROVE  /\ DOMAIN conns' = DOMAIN cs
              /\ \A c \in DOMAIN cs : conns'[c].took = cs[c].took
  <2>1. conn # 0 => conn \in DOMAIN cs
    BY <1>1, <1>11 DEF Frames
  <2> QED
    BY <1>11, <2>1, ClosedBy DEF CloseConn
<1>12. ASSUME DOMAIN conns' = DOMAIN conns, UNCHANGED <<scheme, posted>>,
              \A c \in DOMAIN conns : conns'[c].took = conns[c].took
       PROVE  PlacesKept
  <2>1. scheme = "https" => PlacesKept
    BY <1>12 DEF PlacesKept, Places, Got
  <2>2. \A c \in DOMAIN conns : Bodies(c)' = Bodies(c)
    BY <1>12 DEF Bodies
  <2>3. scheme # "https" => PlacesKept
    BY <1>12, <2>2, KeptOnConns
  <2> QED
    BY <2>1, <2>3
<1>13. CASE ConnWriteFails
  <2>1. /\ step \in {"prefix", "body"}
        /\ UNCHANGED <<scheme, posted, egress>>
    BY <1>13 DEF ConnWriteFails
  <2>2. PICK cs \in {conns, Took("cut")} : CloseConn(cs)
    BY <1>13 DEF ConnWriteFails
  <2>3. cs \in Seq(Connection) /\ DOMAIN cs = DOMAIN conns
    BY <1>1, <2>1, <2>2, TookConns DEF DrainTypeOK
  <2>4. DOMAIN conns' = DOMAIN cs /\ \A c \in DOMAIN cs : conns'[c].took = cs[c].took
    BY <1>11, <2>2, <2>3
  <2>5. CASE cs = conns
    BY <1>12, <2>1, <2>4, <2>5
  <2>6. CASE cs = Took("cut")
    BY <1>6, <2>1, <2>4, <2>6
  <2> QED
    BY <2>1, <2>2, <2>5, <2>6
<1>14. CASE CloseWriter
  BY <1>1, <1>11, <1>12, <1>14 DEF CloseWriter, DrainTypeOK
<1> QED
  BY <1>3, <1>4, <1>5, <1>7, <1>8, <1>9, <1>10, <1>13, <1>14
     DEF DrainNext, Goroutine, Connect, DrainWrite, DrainCancel, Outside, vars

(* No step changes the binding. *)
LEMMA BindingKept == [DrainNext]_vars => UNCHANGED <<scheme, retrying>>
BY DEF DrainNext, vars, drainVars, Connect, DrainWrite, DrainCancel, Goroutine, Outside,
       Begin, AttemptWithConn, Dialled, DialFails, WritePrefix, WriteBody,
       ConnWriteFails, Post, PostFails, ReturnError, Sleep, Retry, GiveUp, CloseWriter

(* A step keeps the counter in line with what was sent. *)
LEMMA CounterStep ==
  ASSUME DrainInv, DrainTypeOK', [DrainNext]_vars
  PROVE  Counter'
<1>1. Where /\ DrainTypeOK /\ Counter /\ scheme' = scheme
  BY BindingKept DEF DrainInv
<1>2. IsFiniteSet(Places) /\ Cardinality(Places) \in Nat /\ egress \in Nat
  BY <1>1, FS_CardinalityType DEF Counter, DrainTypeOK
<1>3. CASE PlacesKept /\ egress' = egress
  BY <1>1, <1>3 DEF PlacesKept, Counter
<1>4. CASE PlaceAdded /\ (WriteBody \/ Post \/ PostFails)
  <2>1. PICK Q : PlacesAdded(Q)
    BY <1>4 DEF PlaceAdded
  <2>2. PICK q : q \in Q /\ q \notin Places
    BY <2>1 DEF PlacesAdded
  <2>3. /\ IsFiniteSet(Places \cup {q})
        /\ Cardinality(Places \cup {q}) = Cardinality(Places) + 1
    BY <1>2, <2>2, FS_AddElement
  <2>4. IsFiniteSet(Places')
    BY <1>2, <2>1, FS_Union DEF PlacesAdded
  <2>5. Places \cup {q} \subseteq Places'
    BY <2>1, <2>2 DEF PlacesAdded
  <2>6. /\ Cardinality(Places') \in Nat
        /\ Cardinality(Places) + 1 <= Cardinality(Places')
    BY <2>3, <2>4, <2>5, FS_Subset, FS_CardinalityType
  <2>7. scheme # "https" => Cardinality(Places') = Cardinality(Places) + 1
    BY <2>1, <2>2, <2>3 DEF PlacesAdded
  <2>8. \/ egress' = egress + 1
        \/ egress' = egress /\ scheme = "https"
    BY <1>1, <1>4 DEF WriteBody, Post, PostFails, MessageDone, Where
  <2> QED
    BY <1>1, <1>2, <2>4, <2>6, <2>7, <2>8 DEF Counter
<1> QED
  BY <1>3, <1>4, PlacesStep

(* What was sent stays sent, and so is the first message of todo. *)
LEMMA SentStays ==
  ASSUME PlacesKept \/ PlaceAdded
  PROVE  /\ \A m : Sent(m) => Sent(m)'
         /\ \A m : PlaceAdded /\ m = Head(todo) => Sent(m)'
<1>1. ASSUME NEW p \in Places PROVE p \in Places' /\ Got(p)' = Got(p)
  BY <1>1 DEF PlacesKept, PlaceAdded, PlacesAdded
<1>2. ASSUME NEW m, Sent(m) PROVE Sent(m)'
  <2>1. PICK p \in Places : Got(p) = m
    BY <1>2 DEF Sent
  <2>2. p \in Places' /\ Got(p)' = m
    BY <1>1, <2>1
  <2> QED
    BY <2>2 DEF Sent
<1>3. ASSUME PlaceAdded, NEW m, m = Head(todo) PROVE Sent(m)'
  <2>1. PICK q : q \in Places' /\ Got(q)' = m
    BY <1>3 DEF PlaceAdded, PlacesAdded
  <2> QED
    BY <2>1 DEF Sent
<1> QED
  BY <1>2, <1>3

(* What of the envelope remains to be sent after a message, *)
LEMMA RemainingTail ==
  ASSUME DrainTypeOK, Where, Remaining, Sending, todo' = Tail(todo), PlaceAdded
  PROVE  /\ Distinct(Tail(todo))
         /\ \A i \in DOMAIN Tail(todo) : Tail(todo)[i] \in Parts(Envelope)
         /\ \A m \in Parts(Envelope) :
              Sent(m)' \/ \E i \in DOMAIN Tail(todo) : Tail(todo)[i] = m
<1> DEFINE t == Tail(todo)
           n == Len(todo)
<1>1. /\ n \in Nat \ {0} /\ DOMAIN todo = 1 .. n /\ DOMAIN t = 1 .. n - 1
      /\ \A i \in 1 .. n - 1 : t[i] = todo[i + 1]
      /\ Head(todo) = todo[1]
  BY HeadOfTodo
<1>2. /\ Distinct(todo)
      /\ \A i \in DOMAIN todo : todo[i] \in Parts(Envelope)
      /\ \A m \in Parts(Envelope) : Sent(m) \/ \E i \in DOMAIN todo : todo[i] = m
  BY DEF Remaining
<1> HIDE DEF t, n
<1>3. \A i \in 1 .. n - 1 : i + 1 \in 1 .. n
  BY <1>1
<1>4. Distinct(t)
  BY <1>1, <1>2, <1>3 DEF Distinct
<1>5. \A i \in DOMAIN t : t[i] \in Parts(Envelope)
  BY <1>1, <1>2, <1>3
<1>6. ASSUME NEW m \in Parts(Envelope), ~Sent(m)' PROVE \E i \in DOMAIN t : t[i] = m
  <2>1. ~Sent(m) /\ m # Head(todo)
    BY <1>6, SentStays
  <2>2. PICK i \in 1 .. n : todo[i] = m
    BY <1>1, <1>2, <2>1
  <2>3. i - 1 \in 1 .. n - 1 /\ i - 1 + 1 = i
    BY <1>1, <2>1, <2>2
  <2> QED
    BY <1>1, <2>2, <2>3
<1> QED
  BY <1>4, <1>5, <1>6 DEF t

(* and that nothing does after the last. *)
LEMMA RemainingNothing ==
  ASSUME DrainTypeOK, Where, Remaining, Sending, Len(todo) = 1, PlaceAdded
  PROVE  \A m \in Parts(Envelope) : Sent(m)'
<1>1. DOMAIN todo = 1 .. 1 /\ Head(todo) = todo[1]
  BY HeadOfTodo
<1>2. \A m \in Parts(Envelope) : Sent(m) \/ m = Head(todo)
  BY <1>1 DEF Remaining
<1> QED
  BY <1>2, SentStays

(* A step keeps sent and remaining messages together whole envelopes. *)
LEMMA RemainingStep ==
  ASSUME DrainInv, DrainTypeOK', [DrainNext]_vars
  PROVE  Remaining'
<1>1. Where /\ DrainTypeOK /\ IInv /\ Remaining /\ Frames /\ Drain \in Writer
  BY DrainAssumption DEF DrainInv
<1>2. PlacesKept \/ PlaceAdded
  BY PlacesStep
<1>3. \A m : Sent(m) => Sent(m)'
  BY <1>2, SentStays
<1>4. out[Drain] \in Seq(Message)
  BY <1>1 DEF IInv, WriterTypeOK
<1>5. ASSUME UNCHANGED out
      PROVE  \A i \in DOMAIN out'[Drain] : \A m \in Parts(out'[Drain][i]) : Sent(m)'
  BY <1>1, <1>3, <1>5 DEF Remaining
<1>6. ASSUME pc[Drain] = "write", Succeed, \A m \in Parts(Envelope) : Sent(m)'
      PROVE  \A i \in DOMAIN out'[Drain] : \A m \in Parts(out'[Drain][i]) : Sent(m)'
  <2> PICK s : s = out[Drain]
    OBVIOUS
  <2> PICK u : u = out'[Drain]
    OBVIOUS
  <2> PICK n : n = Len(s)
    OBVIOUS
  <2>1. s \in Seq(Message) /\ Envelope \in Message /\ u = Append(s, Envelope)
    BY <1>1, <1>4, <1>6, InHand, Returns DEF Succeed
  <2>2. /\ n \in Nat /\ DOMAIN s = 1 .. n /\ DOMAIN u = 1 .. n + 1
        /\ \A i \in 1 .. n : u[i] = s[i]
        /\ u[n + 1] = Envelope
    BY <2>1, AppendProperties, LenProperties
  <2>3. ASSUME NEW i \in DOMAIN u, NEW m \in Parts(u[i]) PROVE Sent(m)'
    <3>1. CASE i = n + 1
      BY <1>6, <2>2, <2>3, <3>1
    <3>2. CASE i # n + 1
      <4>1. i \in DOMAIN s /\ m \in Parts(s[i])
        BY <2>2, <2>3, <3>2
      <4> QED
        BY <1>1, <1>3, <4>1 DEF Remaining
    <3> QED
      BY <3>1, <3>2
  <2> QED
    BY <2>3
<1>7. ASSUME UNCHANGED out, Sending' => Sending /\ UNCHANGED <<todo, inHand>>
      PROVE  Remaining'
  BY <1>1, <1>3, <1>5, <1>7 DEF Remaining, Envelope
<1>8. CASE UNCHANGED vars \/ DrainCancel
  BY <1>7, <1>8 DEF vars, writerVars, drainVars, DrainCancel, Cancel, Sending
<1>9. ASSUME NEW m \in Message, DrainWrite(m) PROVE Remaining'
  BY <1>7, <1>9 DEF DrainWrite, Write, drainVars, Sending
<1>10. CASE Connect
  BY <1>7, <1>10 DEF Connect, NewDiodeWriters, drainVars, Sending
<1>11. CASE Outside
  <2>1. pc[Drain] # "write" /\ UNCHANGED out
    BY <1>11 DEF Outside, TakeNext, NextReturnsNil, Done
  <2> QED
    BY <1>1, <1>7, <1>11, <2>1 DEF Outside, drainVars, Where, Sending
<1>12. CASE Begin \/ Sleep \/ Retry \/ DialFails \/ WritePrefix \/ ConnWriteFails
            \/ PostFails
  BY <1>7, <1>12 DEF Begin, Sleep, Retry, DialFails, WritePrefix, ConnWriteFails,
                     PostFails, Fail, Sending, writerVars
<1>13. CASE ReturnError \/ GiveUp
  BY <1>7, <1>13 DEF ReturnError, GiveUp, WriteFails, Sending
<1>14. CASE CloseWriter
  BY <1>1, <1>7, <1>14 DEF CloseWriter, Close, Sending, Where
<1>15. ASSUME Formatted, step = "attempt" PROVE Remaining'
  <2>1. pc[Drain] = "write" /\ Envelope \in Message
    BY <1>1, <1>15, InHand DEF Where
  <2>2. CASE Fail /\ todo' = todo
    BY <1>7, <2>2 DEF Fail, Sending, writerVars
  <2>3. ASSUME NEW msgs \in ToRFC5424(Envelope), msgs = <<>>, Succeed PROVE Remaining'
    <3>1. \A m \in Parts(Envelope) : \E i \in DOMAIN msgs : msgs[i] = m
      BY <2>1, Formats
    <3>2. Parts(Envelope) = {}
      BY <2>3, <3>1
    <3> QED
      BY <1>6, <2>1, <2>3, <3>2 DEF Remaining, Succeed, Sending
  <2>4. ASSUME NEW msgs \in ToRFC5424(Envelope), todo' = msgs, UNCHANGED writerVars
        PROVE  Remaining'
    <3>1. /\ Distinct(msgs) /\ msgs \in Seq(Parts(Envelope))
          /\ \A m \in Parts(Envelope) : \E i \in DOMAIN msgs : msgs[i] = m
      BY <2>1, Formats
    <3>2. \A i \in DOMAIN msgs : msgs[i] \in Parts(Envelope)
      BY <3>1, LenProperties, ElementOfSeq
    <3> QED
      BY <1>5, <2>4, <3>1, <3>2 DEF Remaining, Envelope, writerVars
  <2> QED
    BY <1>15, <2>2, <2>3, <2>4, FormattedCases
<1>16. CASE AttemptWithConn \/ Dialled
  BY <1>15, <1>16 DEF AttemptWithConn, Dialled
<1>17. ASSUME Sending, PlaceAdded, NEW again \in {"prefix", "post"}, MessageDone(again)
       PROVE  Remaining'
  <2>1. pc[Drain] = "write" /\ todo' = Tail(todo)
    BY <1>1, <1>17, AfterMessage DEF Where, Sending
  <2>2. CASE step' = "idle"
    <3>1. Succeed /\ Len(todo) = 1
      BY <1>1, <1>17, <2>2, AfterMessage
    <3>2. \A m \in Parts(Envelope) : Sent(m)'
      BY <1>1, <1>17, <3>1, RemainingNothing
    <3> QED
      BY <1>6, <2>1, <2>2, <3>1, <3>2 DEF Remaining, Sending
  <2>3. CASE step' = again
    <3>1. UNCHANGED writerVars
      BY <1>1, <1>17, <2>3, AfterMessage
    <3>2. /\ Distinct(Tail(todo))
          /\ \A i \in DOMAIN Tail(todo) : Tail(todo)[i] \in Parts(Envelope)
          /\ \A m \in Parts(Envelope) :
               Sent(m)' \/ \E i \in DOMAIN Tail(todo) : Tail(todo)[i] = m
      BY <1>1, <1>17, <2>1, RemainingTail
    <3> QED
      BY <1>5, <2>1, <3>1, <3>2 DEF Remaining, Envelope, writerVars
  <2> QED
    BY <1>1, <1>17, <2>2, <2>3, AfterMessage
<1>18. CASE WriteBody
  BY <1>1, <1>17, <1>18, BodyAdds DEF WriteBody, Sending
<1>19. CASE Post
  BY <1>1, <1>17, <1>19, DoAdds DEF Post, Sending
<1> QED
  BY <1>8, <1>9, <1>10, <1>11, <1>12, <1>13, <1>14, <1>16, <1>18, <1>19
     DEF DrainNext, Goroutine

(* The accepted envelopes are told apart and stay where they are. *)
LEMMA AcceptedStep ==
  ASSUME DrainInv, [DrainNext]_vars
  PROVE  /\ Distinct(accepted[Drain])'
         /\ \A i \in DOMAIN accepted[Drain] : accepted'[Drain][i] = accepted[Drain][i]
<1>1. Drain \in Writer /\ accepted \in [Writer -> Seq(Message)] /\ Distinct(accepted[Drain])
  BY DrainAssumption DEF DrainInv, IInv, WriterTypeOK
<1>2. CASE accepted' = accepted
  BY <1>1, <1>2
<1>3. ASSUME NEW m \in Message, DrainWrite(m)
      PROVE  /\ Distinct(accepted[Drain])'
             /\ \A i \in DOMAIN accepted[Drain] : accepted'[Drain][i] = accepted[Drain][i]
  <2> PICK s : s = accepted[Drain]
    OBVIOUS
  <2> PICK u : u = accepted'[Drain]
    OBVIOUS
  <2> PICK n : n = Len(s)
    OBVIOUS
  <2>1. s \in Seq(Message) /\ u = Append(s, m)
    BY <1>1, <1>3 DEF DrainWrite, Write
  <2>2. /\ n \in Nat /\ DOMAIN s = 1 .. n /\ DOMAIN u = 1 .. n + 1
        /\ \A i \in 1 .. n : u[i] = s[i]
        /\ u[n + 1] = m
    BY <2>1, AppendProperties, LenProperties
  <2>3. \A i \in 1 .. n : s[i] # m
    BY <1>3, <2>2 DEF DrainWrite, ToSet
  <2>4. \A i \in 1 .. n + 1 : i = n + 1 \/ i \in 1 .. n
    BY <2>2
  <2>5. Distinct(u)
    BY <1>1, <2>2, <2>3, <2>4 DEF Distinct
  <2> QED
    BY <2>2, <2>5
<1>4. [Next]_writerVars
  BY StepImplements
<1>5. (\E m \in Message : DrainWrite(m)) \/ accepted' = accepted
  BY DEF DrainNext, vars, writerVars, Connect, NewDiodeWriters, DrainCancel, Cancel,
         Goroutine, Outside, TakeNext, NextReturnsNil, Done, Begin, AttemptWithConn,
         Dialled, DialFails, WritePrefix, WriteBody, ConnWriteFails, Post, PostFails,
         ReturnError, Sleep, Retry, GiveUp, CloseWriter, Close, Formatted, Start,
         MessageDone, Succeed, Fail, WriteSucceeds, WriteFails
<1> QED
  BY <1>2, <1>3, <1>5

(* Reached by cases. *)
LEMMA ReachedIs ==
  ASSUME NEW k \in Nat, k = Len(fate[Drain])
  PROVE  /\ Sending \/ step \in {"failed", "sleep"} => Reached = k + 1
         /\ ~(Sending \/ step \in {"failed", "sleep"}) => Reached = k
<1> DEFINE b == IF Sending \/ step \in {"failed", "sleep"} THEN 1 ELSE 0
<1>1. Reached = k + b
  BY DEF Reached
<1>2. /\ Sending \/ step \in {"failed", "sleep"} => b = 1
      /\ ~(Sending \/ step \in {"failed", "sleep"}) => b = 0
  OBVIOUS
<1> HIDE DEF b
<1> QED
  BY <1>1, <1>2

(* The reached envelopes are accepted ones. *)
LEMMA ReachedAccepted ==
  ASSUME DrainInv
  PROVE  /\ Reached \in Nat
         /\ \A i \in 1 .. Reached : i \in DOMAIN accepted[Drain]
         /\ Sending => /\ Reached = Len(fate[Drain]) + 1
                       /\ Reached \in DOMAIN accepted[Drain]
                       /\ Envelope = accepted[Drain][Reached]
<1>1. Where /\ DrainTypeOK /\ IInv /\ Drain \in Writer
  BY DrainAssumption DEF DrainInv
<1>2. /\ accepted[Drain] \in Seq(Message) /\ fate[Drain] \in Seq(Fate)
      /\ inHand[Drain] \in Seq(Message) /\ diode[Drain] \in Seq(Message)
  BY <1>1 DEF IInv, WriterTypeOK
<1> PICK k : k = Len(fate[Drain])
  OBVIOUS
<1> PICK n : n = Len(accepted[Drain])
  OBVIOUS
<1>3. k \in Nat /\ n \in Nat /\ DOMAIN accepted[Drain] = 1 .. n
  BY <1>2, LenProperties
<1>4. k <= n
  BY <1>1, <1>2, PlacedLength DEF IInv, Placed
<1>5. step # "idle" => k + 1 \in 1 .. n /\ Envelope = accepted[Drain][k + 1]
  BY <1>1, <1>3, InHand DEF Where
<1>6. /\ Sending \/ step \in {"failed", "sleep"} => Reached = k + 1 /\ step # "idle"
      /\ ~(Sending \/ step \in {"failed", "sleep"}) => Reached = k
  BY <1>3, ReachedIs DEF Sending
<1> PICK r : r = Reached
  OBVIOUS
<1>7. r \in Nat /\ r <= n
  BY <1>3, <1>4, <1>5, <1>6
<1>8. \A i \in 1 .. r : i \in 1 .. n
  BY <1>3, <1>7
<1> QED
  BY <1>3, <1>5, <1>6, <1>7, <1>8 DEF Sending

(* They stay reached, unless the one in hand is tried again. *)
LEMMA ReachedStep ==
  ASSUME DrainInv, [DrainNext]_vars, ~retrying
  PROVE  /\ \A i \in 1 .. Reached : i \in 1 .. Reached'
         /\ Sending => Len(fate[Drain]) + 1 \in 1 .. Reached'
         /\ Sending' => /\ step = "attempt" \/ Sending
                        /\ step = "attempt" => Reached = Len(fate[Drain])
<1>1. Where /\ DrainTypeOK /\ IInv /\ Drain \in Writer /\ IInv'
  BY DrainAssumption, StepImplements, NextIsAnyStep, StepIInv DEF DrainInv
<1>2. /\ fate[Drain] \in Seq(Fate) /\ fate'[Drain] \in Seq(Fate)
      /\ fate \in [Writer -> Seq(Fate)]
  BY <1>1 DEF IInv, WriterTypeOK
<1> PICK k : k = Len(fate[Drain])
  OBVIOUS
<1> PICK l : l = Len(fate'[Drain])
  OBVIOUS
<1> DEFINE Busy == Sending \/ step \in {"failed", "sleep"}
<1>3. k \in Nat /\ l \in Nat
  BY <1>2, LenProperties
<1>4. /\ Busy => Reached = k + 1
      /\ ~Busy => Reached = k
      /\ Busy' => Reached' = l + 1
      /\ ~Busy' => Reached' = l
      /\ Sending => Busy
      /\ step = "attempt" => ~Busy
  <2>1. (Busy => Reached = k + 1) /\ (~Busy => Reached = k)
    BY <1>3, ReachedIs
  <2>2. (Busy' => Reached' = l + 1) /\ (~Busy' => Reached' = l)
    <3> DEFINE b == IF Busy THEN 1 ELSE 0
    <3>1. Reached' = l + b'
      BY DEF Reached
    <3>2. (Busy' => b' = 1) /\ (~Busy' => b' = 0)
      OBVIOUS
    <3> HIDE DEF b, Busy
    <3> QED
      BY <1>3, <3>1, <3>2
  <2> QED
    BY <2>1, <2>2 DEF Sending
<1> DEFINE Stays == /\ l = k /\ (Busy => Busy')
                    /\ Sending' => step = "attempt" \/ Sending
           Ends == l = k + 1 /\ ~Sending'
           Reads == k <= l /\ ~Busy /\ ~Busy' /\ ~Sending'
           Goal == Stays \/ Ends \/ Reads
<1>5. ASSUME UNCHANGED <<drainVars, fate>> PROVE Stays
  BY <1>5 DEF drainVars, Sending
<1>6. ASSUME UNCHANGED vars \/ DrainCancel \/ Connect PROVE Goal
  BY <1>5, <1>6 DEF vars, writerVars, DrainCancel, Cancel, Connect, NewDiodeWriters
<1>7. ASSUME NEW m \in Message, DrainWrite(m) PROVE Goal
  BY <1>5, <1>7 DEF DrainWrite, Write
<1>8. ASSUME Outside PROVE Goal
  <2>1. CASE TakeNext(Drain)
    <3>1. step = "idle" /\ step' = "idle"
      BY <1>1, <1>8, <2>1 DEF Outside, TakeNext, drainVars, Where
    <3> DEFINE missed == Missed(diode[Drain], DiodeSize)
    <3>2. fate'[Drain] = fate[Drain] \o [i \in 1 .. missed |-> "dropped"]
      BY <1>1, <1>2, <2>1 DEF TakeNext
    <3>3. missed \in Nat
      <4>1. diode[Drain] \in Seq(Message) /\ diode[Drain] # <<>>
        BY <1>1, <2>1 DEF TakeNext, IsEmpty, Empty, IInv, WriterTypeOK
      <4>2. missed \in 0 .. Len(diode[Drain]) - 1
        BY <4>1, MissedBounds
      <4> HIDE DEF missed
      <4> QED
        BY <4>2
    <3> HIDE DEF missed
    <3>4. l = k + missed
      BY <1>2, <3>2, <3>3, RunConcatenated DEF Fate
    <3>5. Reads
      BY <1>3, <3>1, <3>3, <3>4 DEF Sending
    <3> QED
      BY <3>5
  <2>2. CASE NextReturnsNil(Drain) \/ Done(Drain)
    BY <1>5, <1>8, <2>2 DEF Outside, NextReturnsNil, Done
  <2> QED
    BY <1>8, <2>1, <2>2 DEF Outside
<1>9. ASSUME Begin \/ Sleep \/ DialFails \/ WritePrefix \/ ConnWriteFails \/ PostFails PROVE Goal
  BY <1>9 DEF Begin, Sleep, DialFails, WritePrefix, ConnWriteFails, PostFails, Fail,
              Sending, writerVars
<1>10. ~Retry /\ ~GiveUp
  BY <1>1 DEF Retry, GiveUp, Where
<1>11. Succeed \/ WriteFails(Drain) => l = k + 1
  BY <1>1, Returns DEF Succeed
<1>12. ASSUME ReturnError PROVE Goal
  BY <1>11, <1>12 DEF ReturnError, Sending
<1>13. ASSUME CloseWriter PROVE Goal
  BY <1>13 DEF CloseWriter, Close, Sending
<1>14. ASSUME AttemptWithConn \/ Dialled PROVE Goal
  <2>1. step = "attempt" /\ Formatted
    BY <1>14 DEF AttemptWithConn, Dialled
  <2>2. CASE step' = "idle"
    BY <1>11, <2>1, <2>2, AfterFormatting DEF Sending
  <2>3. CASE step' # "idle"
    BY <2>1, <2>3, AfterFormatting DEF Sending, writerVars
  <2> QED
    BY <2>2, <2>3
<1>15. ASSUME Sending, NEW again \in {"prefix", "post"}, MessageDone(again)
       PROVE  Goal
  <2>1. CASE step' = "idle"
    BY <1>1, <1>11, <1>15, <2>1, AfterMessage DEF Sending
  <2>2. CASE step' # "idle"
    BY <1>1, <1>15, <2>2, AfterMessage DEF Sending, writerVars
  <2> QED
    BY <2>1, <2>2
<1>16. ASSUME WriteBody \/ Post PROVE Goal
  BY <1>15, <1>16 DEF WriteBody, Post, Sending
<1>17. Goal
  BY <1>6, <1>7, <1>8, <1>9, <1>10, <1>12, <1>13, <1>14, <1>16 DEF DrainNext, Goroutine
<1> PICK r : r = Reached
  OBVIOUS
<1> PICK r2 : r2 = Reached'
  OBVIOUS
<1> HIDE DEF Busy
<1>18. r \in Nat /\ r2 \in Nat /\ r <= r2 /\ (Sending => k + 1 <= r2)
  BY <1>3, <1>4, <1>17
<1>19. \A i \in 1 .. r : i \in 1 .. r2
  BY <1>18
<1>20. Sending => k + 1 \in 1 .. r2
  BY <1>3, <1>18
<1>21. Sending' => /\ step = "attempt" \/ Sending
                   /\ step = "attempt" => r = k
  BY <1>4, <1>17
<1> QED
  BY <1>19, <1>20, <1>21

(* Between two posts there are posts. *)
LEMMA Between ==
  ASSUME DrainTypeOK, scheme = "https", NEW p \in Places, NEW q \in Places
  PROVE  \A r \in p .. q : r \in Places
<1> PICK n : n = Len(posted)
  OBVIOUS
<1>1. n \in Nat /\ Places = 1 .. n
  BY LenProperties DEF DrainTypeOK, Places
<1> QED
  BY <1>1

(* What was sent once stays so while nothing is sent, *)
LEMMA RepeatsKept ==
  ASSUME DrainTypeOK, scheme' = scheme, PlacesKept, Repeats
  PROVE  Repeats'
<1> SUFFICES ASSUME NEW p \in Places', NEW q \in Places', Got(p)' = Got(q)', p # q
             PROVE  OneDo(p, q)'
  BY DEF Repeats
<1>1. p \in Places /\ q \in Places /\ Got(p)' = Got(p) /\ Got(q)' = Got(q)
  BY DEF PlacesKept
<1>2. OneDo(p, q)
  BY <1>1 DEF Repeats
<1>3. \A r \in p .. q : Got(r)' = Got(r)
  BY <1>1, <1>2, Between DEF OneDo, PlacesKept
<1> QED
  BY <1>1, <1>2, <1>3 DEF OneDo

(* when a connection takes a message that it has not taken, *)
LEMMA RepeatsTaken ==
  ASSUME scheme # "https", PlaceAdded, Repeats,
         \A p \in Places : Got(p) # Head(todo)
  PROVE  Repeats'
<1>1. PICK Q : PlacesAdded(Q)
  BY DEF PlaceAdded
<1>2. PICK q : Q = {q}
  BY <1>1 DEF PlacesAdded
<1>3. /\ Places' = Places \cup {q} /\ Got(q)' = Head(todo)
      /\ \A p \in Places : Got(p)' = Got(p)
  BY <1>1, <1>2 DEF PlacesAdded
<1>4. \A p, r \in Places : Got(p) = Got(r) => p = r
  BY DEF Repeats, OneDo
<1>5. ASSUME NEW p \in Places', NEW r \in Places', Got(p)' = Got(r)' PROVE p = r
  BY <1>3, <1>4, <1>5
<1> QED
  BY <1>5 DEF Repeats

(* and when a Do sends one that none has sent. *)
LEMMA RepeatsDone ==
  ASSUME DrainTypeOK, Where, step = "post", scheme' = scheme, Repeats,
         \A p \in Places : Got(p) # Head(todo),
         NEW k \in 0 .. MaxSends, Do(k)
  PROVE  Repeats'
<1> PICK n : n = Len(posted)
  OBVIOUS
<1> PICK m : m = MaxSends
  OBVIOUS
<1>1. scheme = "https" /\ Sending /\ m \in Nat /\ k \in 0 .. m
  BY DrainAssumption DEF Where, Sending
<1>2. /\ n \in Nat /\ DOMAIN posted = 1 .. n /\ DOMAIN posted' = 1 .. n + k
      /\ \A i \in 1 .. n : posted'[i] = posted[i]
      /\ \A i \in n + 1 .. n + k : posted'[i] = Head(todo)
  BY <1>1, DoAppends
<1>3. Places = 1 .. n /\ Places' = 1 .. n + k
  BY <1>1, <1>2 DEF Places
<1>4. (\A i : Got(i) = posted[i]) /\ \A i : Got(i)' = posted'[i]
  BY <1>1 DEF Got
<1>5. \A i \in 1 .. n : posted[i] # Head(todo)
  BY <1>3, <1>4
<1> SUFFICES ASSUME NEW p \in 1 .. n + k, NEW q \in 1 .. n + k,
                    posted'[p] = posted'[q], p # q
             PROVE  q - p < m /\ \A r \in p .. q : posted'[r] = posted'[p]
  BY <1>1, <1>3, <1>4 DEF Repeats, OneDo
<1>6. CASE p \in 1 .. n /\ q \in 1 .. n
  <2>1. posted[p] = posted[q]
    BY <1>2, <1>6
  <2>2. q - p < m /\ \A r \in p .. q : posted[r] = posted[p]
    BY <1>3, <1>4, <1>6, <2>1 DEF Repeats, OneDo
  <2>3. \A r \in p .. q : r \in 1 .. n
    BY <1>2, <1>6
  <2> QED
    BY <1>2, <1>6, <2>2, <2>3
<1>7. CASE p \in n + 1 .. n + k /\ q \in n + 1 .. n + k
  <2>1. \A r \in p .. q : r \in n + 1 .. n + k
    BY <1>1, <1>2, <1>7
  <2>2. q - p < m
    BY <1>1, <1>2, <1>7
  <2> QED
    BY <1>2, <1>7, <2>1, <2>2
<1>8. \A i \in 1 .. n + k : i \in 1 .. n \/ i \in n + 1 .. n + k
  BY <1>1, <1>2
<1> QED
  BY <1>2, <1>5, <1>6, <1>7, <1>8

(* Without a RetryWriter a step sends nothing again. *)
LEMMA OnceStep ==
  ASSUME DrainInv, DrainTypeOK', [DrainNext]_vars
  PROVE  Once'
<1> SUFFICES ASSUME ~retrying
             PROVE  /\ Repeats'
                    /\ (\A p \in Places : \E i \in 1 .. Reached :
                          Got(p) \in Parts(accepted[Drain][i]))'
                    /\ (Sending => \A p \in Places, i \in DOMAIN todo : Got(p) # todo[i])'
  BY BindingKept DEF Once
<1>1. /\ Where /\ DrainTypeOK /\ IInv /\ Remaining /\ Frames /\ Drain \in Writer
      /\ Distinct(accepted[Drain]) /\ accepted[Drain] \in Seq(Message)
  BY DrainAssumption DEF DrainInv, IInv, WriterTypeOK
<1>2. /\ Repeats /\ scheme' = scheme
      /\ \A p \in Places : \E i \in 1 .. Reached : Got(p) \in Parts(accepted[Drain][i])
      /\ Sending => \A p \in Places, i \in DOMAIN todo : Got(p) # todo[i]
  BY BindingKept DEF DrainInv, Once
<1>3. ASSUME NEW p \in Places
      PROVE  \E i \in 1 .. Reached' : Got(p) \in Parts(accepted'[Drain][i])
  <2>1. PICK i \in 1 .. Reached : Got(p) \in Parts(accepted[Drain][i])
    BY <1>2
  <2>2. i \in 1 .. Reached' /\ accepted'[Drain][i] = accepted[Drain][i]
    BY ReachedStep, ReachedAccepted, AcceptedStep
  <2> QED
    BY <2>1, <2>2
<1>4. CASE PlacesKept /\ ~Sending'
  BY <1>1, <1>2, <1>3, <1>4, RepeatsKept DEF PlacesKept
<1>5. CASE PlacesKept /\ Sending' /\ Sending /\ todo' = todo
  BY <1>1, <1>2, <1>3, <1>5, RepeatsKept DEF PlacesKept
<1>6. CASE PlacesKept /\ step = "attempt" /\ Sending' /\ Formatted
  <2>1. pc[Drain] = "write" /\ Reached = Len(fate[Drain])
    BY <1>1, <1>6, ReachedStep DEF Where
  <2> PICK k : k = Len(fate[Drain]) + 1
    OBVIOUS
  <2>2. /\ Envelope \in Message /\ k \in DOMAIN accepted[Drain]
        /\ Envelope = accepted[Drain][k]
    BY <1>1, <2>1, InHand
  <2>3. \A i \in DOMAIN todo' : todo'[i] \in Parts(Envelope)
    <3>1. step' \notin {"idle", "failed"}
      BY <1>6 DEF Sending
    <3>2. PICK msgs \in ToRFC5424(Envelope) : todo' = msgs
      BY <1>6, <3>1, FormattedCases DEF Fail, Succeed
    <3>3. msgs \in Seq(Parts(Envelope))
      BY <2>2, Formats
    <3> QED
      BY <3>2, <3>3, LenProperties, ElementOfSeq
  <2>4. ASSUME NEW p \in Places PROVE Got(p) \notin Parts(Envelope)
    <3>1. PICK i \in 1 .. Reached : Got(p) \in Parts(accepted[Drain][i])
      BY <1>2
    <3>2. i # k
      <4>1. Reached \in Nat /\ k = Reached + 1
        BY <2>1, ReachedAccepted
      <4> QED
        BY <4>1
    <3>3. i \in DOMAIN accepted[Drain]
      BY ReachedAccepted
    <3>4. accepted[Drain][i] # Envelope /\ accepted[Drain][i] \in Message
      BY <1>1, <2>2, <3>2, <3>3, LenProperties, ElementOfSeq DEF Distinct
    <3> QED
      BY <2>2, <3>1, <3>4, DrainAssumption
  <2> QED
    BY <1>1, <1>2, <1>3, <1>6, <2>3, <2>4, RepeatsKept DEF PlacesKept
<1>7. CASE PlaceAdded /\ (WriteBody \/ Post \/ PostFails)
  <2>1. PICK Q : /\ Places' = Places \cup Q /\ \A q \in Q : Got(q)' = Head(todo)
                 /\ \A p \in Places : Got(p)' = Got(p)
    BY <1>7 DEF PlaceAdded, PlacesAdded
  <2>2. Sending
    BY <1>7 DEF WriteBody, Post, PostFails, Sending
  <2>3. Head(todo) = todo[1] /\ 1 \in DOMAIN todo
    <3>1. Head(todo) = todo[1] /\ Len(todo) \in Nat \ {0} /\ DOMAIN todo = 1 .. Len(todo)
      BY <1>1, <2>2, HeadOfTodo
    <3> QED
      BY <3>1
  <2>4. \A p \in Places : Got(p) # Head(todo)
    BY <1>2, <2>2, <2>3
  <2>5. Repeats'
    <3>1. CASE WriteBody
      <4>1. scheme # "https"
        BY <1>1, <3>1 DEF WriteBody, Where
      <4> QED
        BY <1>2, <1>7, <2>4, <4>1, RepeatsTaken
    <3>2. CASE Post \/ PostFails
      <4>1. PICK k \in 0 .. MaxSends : Do(k)
        BY <3>2, MaxSendsBound DEF Post, PostFails
      <4>2. step = "post"
        BY <3>2 DEF Post, PostFails
      <4> QED
        BY <1>1, <1>2, <2>4, <4>1, <4>2, RepeatsDone
    <3> QED
      BY <1>7, <3>1, <3>2
  <2>6. ASSUME NEW q \in Q
        PROVE  \E i \in 1 .. Reached' : Got(q)' \in Parts(accepted'[Drain][i])
    <3>1. /\ Reached = Len(fate[Drain]) + 1 /\ Reached \in DOMAIN accepted[Drain]
          /\ Envelope = accepted[Drain][Reached]
      BY <2>2, ReachedAccepted
    <3>2. Reached \in 1 .. Reached' /\ accepted'[Drain][Reached] = Envelope
      BY <2>2, <3>1, ReachedStep, AcceptedStep
    <3>3. Head(todo) \in Parts(Envelope)
      BY <1>1, <2>2, <2>3 DEF Remaining
    <3> QED
      BY <2>1, <3>2, <3>3
  <2>7. ASSUME Sending', NEW p \in Places', NEW i \in DOMAIN todo'
        PROVE  Got(p)' # todo'[i]
    <3>1. todo' = Tail(todo) /\ ~PostFails
      BY <1>7, <2>7 DEF WriteBody, Post, PostFails, MessageDone, Fail, Sending
    <3>2. /\ DOMAIN Tail(todo) = 1 .. Len(todo) - 1 /\ Len(todo) \in Nat \ {0}
          /\ \A j \in 1 .. Len(todo) - 1 : Tail(todo)[j] = todo[j + 1]
          /\ DOMAIN todo = 1 .. Len(todo)
      BY <1>1, <2>2, HeadOfTodo
    <3>3. i + 1 \in DOMAIN todo /\ i + 1 # 1 /\ todo'[i] = todo[i + 1]
      <4> PICK n : n = Len(todo)
        OBVIOUS
      <4>1. n \in Nat \ {0} /\ i \in 1 .. n - 1
        BY <2>7, <3>1, <3>2
      <4>2. i + 1 \in 1 .. n /\ i + 1 # 1
        BY <4>1
      <4> QED
        BY <3>1, <3>2, <4>1, <4>2
    <3>4. CASE p \in Q
      BY <1>1, <2>1, <2>2, <2>3, <3>3, <3>4 DEF Remaining, Distinct
    <3>5. CASE p \in Places
      BY <1>2, <2>1, <2>2, <3>3, <3>5
    <3> QED
      BY <2>1, <3>4, <3>5
  <2> QED
    BY <1>3, <2>1, <2>5, <2>6, <2>7
<1>8. Sending' => \/ Sending /\ (todo' = todo \/ WriteBody \/ Post)
                  \/ step = "attempt" /\ Formatted
  <2>1. UNCHANGED drainVars => Sending' = Sending /\ todo' = todo
    BY DEF drainVars, Sending
  <2>2. Begin \/ ReturnError \/ Sleep \/ Retry \/ GiveUp \/ DialFails
          \/ ConnWriteFails \/ PostFails => ~Sending'
    BY DEF Begin, ReturnError, Sleep, Retry, GiveUp, DialFails, ConnWriteFails,
           PostFails, Fail, Sending
  <2>3. WritePrefix \/ CloseWriter => (Sending' => Sending) /\ todo' = todo
    BY DEF WritePrefix, CloseWriter, Sending
  <2>4. WriteBody \/ Post => Sending
    BY DEF WriteBody, Post, Sending
  <2>5. AttemptWithConn \/ Dialled => step = "attempt" /\ Formatted
    BY DEF AttemptWithConn, Dialled
  <2> QED
    BY <2>1, <2>2, <2>3, <2>4, <2>5 DEF DrainNext, vars, Connect, DrainWrite,
       DrainCancel, Goroutine, Outside
<1>9. PlacesKept /\ egress' = egress => ~WriteBody /\ ~Post
  BY <1>1 DEF WriteBody, Post, MessageDone, DrainTypeOK
<1> QED
  BY <1>4, <1>5, <1>6, <1>7, <1>8, <1>9, PlacesStep

-----------------------------------------------------------------------------
(* Nothing is sent initially. *)
LEMMA DrainInitInv == Init => DrainInv
<1> SUFFICES ASSUME Init PROVE DrainInv
  OBVIOUS
<1>1. IInv /\ Drain \in Writer
  BY InitIInv, DrainAssumption DEF Init
<1>2. DrainTypeOK
  BY EmptySeq DEF Init, DrainTypeOK
<1>3. Where
  BY <1>1 DEF Init, Where, Sending, WriterInit
<1>4. Frames
  BY DEF Init, Frames
<1>5. Distinct(accepted[Drain]) /\ out[Drain] = <<>>
  BY <1>1 DEF Init, WriterInit, Distinct
<1>6. Places = {}
  BY DEF Init, Places
<1>7. Remaining
  BY <1>5 DEF Init, Remaining, Sending
<1>8. Counter
  BY <1>6, FS_EmptySet DEF Init, Counter
<1>9. Once
  BY <1>6 DEF Once, Repeats
<1> QED
  BY <1>1, <1>2, <1>3, <1>4, <1>5, <1>7, <1>8, <1>9 DEF DrainInv

LEMMA DrainInvStep == DrainInv /\ [DrainNext]_vars => DrainInv'
<1> SUFFICES ASSUME DrainInv, [DrainNext]_vars PROVE DrainInv'
  OBVIOUS
<1>1. IInv'
  BY StepImplements, NextIsAnyStep, StepIInv DEF DrainInv
<1>2. DrainTypeOK'
  BY DrainTypeStep
<1> QED
  BY <1>1, <1>2, AcceptedStep, WhereStep, FramesStep, RemainingStep, CounterStep,
     OnceStep DEF DrainInv

THEOREM DrainInvariance == DrainSpec => []DrainInv
BY DrainInitInv, DrainInvStep, PTL DEF DrainSpec

(* Every step of the protocol writers is a step of DiodeWriter, with its     *)
(* variables as they are, or leaves these alone: the safety part of          *)
(* ImplementsDiodeWriter.                                                    *)
THEOREM StepsAreDiodeWriters == DrainSpec => WriterInit /\ [][Next]_writerVars
<1>1. Init => WriterInit
  BY DEF Init
<1> QED
  BY <1>1, StepImplements, PTL DEF DrainSpec

(* What DiodeWriter promises its callers holds of a drain with the protocol  *)
(* writers: messages accounted for, a flush before the return.               *)
THEOREM DrainKeepsPromises ==
  DrainSpec => [](Accounted /\ FlushedUnlessFailed /\ RunsUntilCancelled)
<1>1. DrainInv => Accounted /\ FlushedUnlessFailed /\ RunsUntilCancelled
  BY AccountedFollows DEF DrainInv, IInv
<1> QED
  BY <1>1, DrainInvariance, PTL

(* TCPWriter and TLSWriter: frames stay whole, on one connection at a time,  *)
(* wherever a write breaks off.                                              *)
THEOREM FramesStayWhole == DrainSpec => []FramesWhole
<1>1. DrainInv => FramesWhole
  <2> SUFFICES ASSUME DrainInv PROVE FramesWhole
    OBVIOUS
  <2>1. Where /\ Frames
    BY DEF DrainInv
  <2>2. ASSUME NEW c \in DOMAIN conns, conns[c].open
        PROVE  c = conn /\ Framed(conns[c].took, step, Head(todo))
    <3>1. c = conn
      BY <2>1, <2>2 DEF Frames
    <3>2. c \in 1 .. Len(conns)
      BY LenProperties DEF DrainInv, DrainTypeOK
    <3>3. conn # 0
      BY <3>1, <3>2
    <3> QED
      BY <2>1, <3>1, <3>3 DEF Frames
  <2>3. \A c \in DOMAIN conns : Broken(conns[c].took)
    BY <2>1 DEF Frames
  <2> QED
    BY <2>1, <2>2, <2>3 DEF FramesWhole, Where, Framed, Broken
<1> QED
  BY <1>1, DrainInvariance, PTL

(* A Write that returned no error sent the whole envelope, the counter says  *)
(* no more than was sent, and without a RetryWriter the drain gets nothing   *)
(* twice over a connection, and over HTTPS no more than the sends of one Do, *)
(* however many of them MaxSends allows and the drain takes.                 *)
THEOREM SuccessWasSent == DrainSpec => []SuccessIsSent
<1>1. DrainInv => SuccessIsSent
  BY DEF DrainInv, SuccessIsSent, Remaining, Counter, Once, Repeats, Sent
<1> QED
  BY <1>1, DrainInvariance, PTL
=============================================================================
