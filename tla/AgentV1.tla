------------------------------- MODULE AgentV1 -------------------------------
(***************************************************************************)
(* The v1 path: NetworkReader and EventUnmarshaller (pkg/ingress/v1), which *)
(* the agent (cmd/agent/app/app_v1.go) and the UDP forwarder share, and the *)
(* agent's chain of MessageAggregator, Tagger and EventMarshaller           *)
(* (pkg/egress/v1).  One goroutine reads the socket into a diode, another   *)
(* takes datagrams off it and carries each to the end of the chain.         *)
(*                                                                         *)
(* A datagram is an envelope, valid or not; its tag stands for the          *)
(* deployment, job, index and address the tagger sets if absent.            *)
(***************************************************************************)
EXTENDS Integers, Sequences, Diode, CounterTotals

CONSTANTS
  UDPSize,     \* slots of the reader's diode (10000 in the code)
  UDPTag       \* the default of the v1 tagger

ASSUME V1Assumption == UDPSize \in Nat \ {0}

VARIABLES
  udpDiode,
  udpRead,      \* history: datagrams read off the socket
  udpIngress,   \* the "ingress" counter
  udpDropped,   \* the "dropped" counter with direction all
  v1Totals,     \* MessageAggregator.counterTotals
  v1Egress      \* the "egress" counter

v1Vars == <<udpDiode, udpRead, udpIngress, udpDropped, v1Totals, v1Egress>>

V1Init ==
  /\ udpDiode = Empty
  /\ udpRead = 0
  /\ udpIngress = 0
  /\ udpDropped = 0
  /\ v1Totals = NoTotals
  /\ v1Egress = 0

(* NetworkReader.StartReading, one datagram. *)
StartReading(d) ==
  /\ udpDiode' = Set(udpDiode, d)
  /\ udpRead' = udpRead + 1
  /\ UNCHANGED <<udpIngress, udpDropped, v1Totals, v1Egress>>

Datagram == NextOf(udpDiode, UDPSize)

(* Faulty variant of TakeDatagram: what was overwritten is not counted. *)
TakeDatagramUncounted ==
  /\ ~IsEmpty(udpDiode)
  /\ udpDiode' = Rest(udpDiode, UDPSize)
  /\ udpIngress' = udpIngress + 1
  /\ UNCHANGED <<udpDropped, udpRead>>

(* NetworkReader.StartWriting: data := nr.buffer.Next() *)
TakeDatagram ==
  /\ ~IsEmpty(udpDiode)
  /\ udpDiode' = Rest(udpDiode, UDPSize)
  /\ udpIngress' = udpIngress + 1
  /\ udpDropped' = udpDropped + Missed(udpDiode, UDPSize)
  /\ UNCHANGED udpRead

(* EventUnmarshaller.Write: what can not be decoded is only logged. *)
Discard ==
  /\ TakeDatagram
  /\ ~Datagram.valid
  /\ UNCHANGED <<v1Totals, v1Egress>>

Unmarshalled ==
  /\ TakeDatagram
  /\ Datagram.valid

setDefaultTags(e) == addDefaultTags(e, UDPTag)

(* The agent's chain down to EventMarshaller.Write, which counts the envelope *)
(* whether or not the pool of v1 connections takes it.                       *)
WriteV1 ==
  /\ Unmarshalled
  /\ v1Totals' = handleCounter(v1Totals, Datagram.env).totals
  /\ v1Egress' = v1Egress + 1
=============================================================================
