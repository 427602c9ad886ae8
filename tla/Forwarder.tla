------------------------------ MODULE Forwarder ------------------------------
(***************************************************************************)
(* The forwarder agent (cmd/forwarder-agent/app/forwarder_agent.go): gRPC   *)
(* handlers fill a diode, one goroutine hands each envelope to every        *)
(* downstream client in turn.  A client tags it and sets its total before   *)
(* its diode writer takes it; what it passes on is a pointer, so all        *)
(* clients change the one envelope that the first ones may be encoding      *)
(* already.                                                                 *)
(*                                                                         *)
(* envelope maps pointers to what they point at; diodes hold pointers, and   *)
(* n, the pointer, stands for what tells two envelopes apart.  The diode     *)
(* writers are those of DiodeWriter, under a context that is never          *)
(* cancelled and with a Write that never fails.                              *)
(***************************************************************************)
EXTENDS Integers, Sequences, Diode, CounterTotals

CONSTANTS
  NumClients,
  ForwarderSize,  \* slots of the ingress diode (10000 in the code)
  ClientSize,     \* slots of a client's diode (10000 in the code)
  ForwarderTag    \* the default tag of the configuration

ASSUME ForwarderAssumption ==
  /\ NumClients \in Nat \ {0}
  /\ ForwarderSize \in Nat \ {0}
  /\ ClientSize \in Nat \ {0}

VARIABLES
  envelope,
  fDiode,
  fIngress,     \* the "ingress" counter
  fDropped,     \* the "dropped" counter
  current,      \* the pointer in the goroutine's hand, 0 for none
  turn,         \* the client it writes to next
  clientTotals, \* the totals of each client's aggregator
  clientDiode,
  encoded,      \* history: what each client encoded, in order
  ledger        \* history: the counters written, as they came, in order

forwarderVars == <<envelope, fDiode, fIngress, fDropped, current, turn,
                   clientTotals, clientDiode, encoded, ledger>>

Client == 1 .. NumClients

ForwarderInit ==
  /\ envelope = <<>>
  /\ fDiode = Empty
  /\ fIngress = 0
  /\ fDropped = 0
  /\ current = 0
  /\ turn = 1
  /\ clientTotals = [c \in Client |-> NoTotals]
  /\ clientDiode = [c \in Client |-> Empty]
  /\ encoded = [c \in Client |-> <<>>]
  /\ ledger = <<>>

(* Receiver.Send and its streaming variants, one envelope. *)
ForwarderReceives(e) ==
  /\ envelope' = Append(envelope, [e EXCEPT !.n = Len(envelope) + 1])
  /\ fDiode' = Set(fDiode, Len(envelope'))
  /\ fIngress' = fIngress + 1
  /\ UNCHANGED <<fDropped, current, turn, clientTotals, clientDiode, encoded,
                 ledger>>

(* The entry of a counter, at the first client that processes it. *)
Entry(p) ==
  LET e == TagEnvelope(envelope[p], ForwarderTag)
  IN  [n |-> p, id |-> counterID(e), delta |-> e.delta, total |-> e.total,
       reset |-> resetTotals(clientTotals[1]) # clientTotals[1]]

(* c.Write(e): the EnvelopeWriter's processors, then the diode writer. *)
HandTo(c, p) ==
  LET r == Process(clientTotals[c], envelope[p], ForwarderTag)
  IN  /\ envelope' = [envelope EXCEPT ![p] = r.env]
      /\ clientTotals' = [clientTotals EXCEPT ![c] = r.totals]
      /\ clientDiode' = [clientDiode EXCEPT ![c] = Set(@, p)]
      /\ ledger' = IF c = 1 /\ IsCounter(r.env) THEN Append(ledger, Entry(p)) ELSE ledger
      /\ current' = IF c = NumClients THEN 0 ELSE p
      /\ turn' = IF c = NumClients THEN 1 ELSE c + 1
      /\ UNCHANGED <<fIngress, encoded>>

(* e := diode.Next(), and the first client's Write: what other goroutines do *)
(* between the two they may as well do before or after them.                 *)
NextEnvelope ==
  /\ current = 0
  /\ ~IsEmpty(fDiode)
  /\ HandTo(1, NextOf(fDiode, ForwarderSize))
  /\ fDiode' = Rest(fDiode, ForwarderSize)
  /\ fDropped' = fDropped + Missed(fDiode, ForwarderSize)

ClientWrite ==
  /\ current # 0
  /\ HandTo(turn, current)
  /\ UNCHANGED <<fDiode, fDropped>>

(* What client c encodes next: the envelope as it is then. *)
Outgoing(c) == envelope[NextOf(clientDiode[c], ClientSize)]

(* The diode writer's goroutine and clientWriter.Write: the ingress client   *)
(* encodes the envelope; whether it arrives is up to the network.            *)
ClientEmits(c) ==
  /\ ~IsEmpty(clientDiode[c])
  /\ encoded' = [encoded EXCEPT ![c] = Append(@, Outgoing(c))]
  /\ clientDiode' = [clientDiode EXCEPT ![c] = Rest(@, ClientSize)]
  /\ UNCHANGED <<envelope, fDiode, fIngress, fDropped, current, turn,
                 clientTotals, ledger>>
=============================================================================
