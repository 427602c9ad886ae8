---------------------------- MODULE AgentPipeline ----------------------------
(***************************************************************************)
(* The agents of one VM and how an envelope travels through them: dropsonde *)
(* datagrams reach the agent itself or, where its UDP port is disabled, the *)
(* UDP forwarder, which passes them to the forwarder agent; the forwarder   *)
(* agent also takes envelopes over gRPC and hands everything to its         *)
(* downstreams.  Downstream 1 is the agent's v2 path; the others, as the    *)
(* syslog agent, are seen through what is sent to them.                     *)
(*                                                                         *)
(* A call over the network is one step: between two processes an envelope   *)
(* arrives or is lost; the diodes at both ends give all the delay there is. *)
(***************************************************************************)
EXTENDS AgentV1, Forwarder, AgentV2, FiniteSets, FiniteSetsExt

CONSTANTS
  Datagrams,      \* what may arrive at the UDP port
  Envelopes,      \* what may be sent to the forwarder agent over gRPC
  MaxEnvelopes,   \* bound: datagrams and envelopes sent
  MaxTicks        \* bound: ticks of the averager

(* Deltas and totals are unsigned. *)
ASSUME PipelineAssumption ==
  \A e \in Envelopes \cup {d.env : d \in Datagrams} :
    e \in [n : {0}, name : {e.name}, delta : Nat, total : Nat, tag : {e.tag},
          deprecated : {e.deprecated}]

VARIABLES
  disableUDP,     \* the agent's configuration
  sent, ticks     \* counters for the bounds

vars == <<v1Vars, forwarderVars, agentVars, averagerVars, disableUDP, sent, ticks>>

Init ==
  /\ V1Init
  /\ ForwarderInit
  /\ AgentInit
  /\ disableUDP \in BOOLEAN
  /\ sent = 0
  /\ ticks = 0

(* A datagram arrives at whoever listens on the UDP port. *)
ReadDatagram(d) ==
  /\ sent < MaxEnvelopes
  /\ sent' = sent + 1
  /\ StartReading(d)
  /\ UNCHANGED <<forwarderVars, agentVars, averagerVars, disableUDP, ticks>>

DiscardDatagram ==
  /\ Discard
  /\ UNCHANGED <<forwarderVars, agentVars, averagerVars, disableUDP, sent, ticks>>

(* AppV1.Start returns at once if UDP is disabled. *)
AgentWritesV1 ==
  /\ ~disableUDP
  /\ WriteV1
  /\ UNCHANGED <<forwarderVars, agentVars, averagerVars, disableUDP, sent, ticks>>

(* The UDP forwarder: tagger, conversion and IngressClient.Emit. *)
ForwardDatagram ==
  /\ disableUDP
  /\ Unmarshalled
  /\ \/ ForwarderReceives(setDefaultTags(Datagram.env))
     \/ UNCHANGED forwarderVars
  /\ UNCHANGED <<v1Totals, v1Egress>>
  /\ UNCHANGED <<agentVars, averagerVars, disableUDP, sent, ticks>>

SendEnvelope(e) ==
  /\ sent < MaxEnvelopes
  /\ sent' = sent + 1
  /\ ForwarderReceives(e)
  /\ UNCHANGED <<v1Vars, agentVars, averagerVars, disableUDP, ticks>>

Dispatch ==
  /\ NextEnvelope \/ ClientWrite
  /\ UNCHANGED <<v1Vars, agentVars, averagerVars, disableUDP, sent, ticks>>

EmitToAgent ==
  /\ ClientEmits(1)
  /\ AgentReceives(Outgoing(1)) \/ UNCHANGED agentVars
  /\ UNCHANGED <<v1Vars, averagerVars, disableUDP, sent, ticks>>

EmitToOther(c) ==
  /\ ClientEmits(c)
  /\ UNCHANGED <<v1Vars, agentVars, averagerVars, disableUDP, sent, ticks>>

AgentStep ==
  /\ Transponder
  /\ UNCHANGED <<v1Vars, forwarderVars, disableUDP, sent, ticks>>

Clock ==
  /\ IntervalLapses
  /\ UNCHANGED <<v1Vars, forwarderVars, disableUDP, sent, ticks>>

Tick ==
  /\ ticks < MaxTicks
  /\ ticks' = ticks + 1
  /\ AveragerTick
  /\ UNCHANGED <<v1Vars, forwarderVars, agentVars, disableUDP, sent>>

Next ==
  \/ \E d \in Datagrams : ReadDatagram(d)
  \/ DiscardDatagram
  \/ AgentWritesV1
  \/ ForwardDatagram
  \/ \E e \in Envelopes : SendEnvelope(e)
  \/ Dispatch
  \/ EmitToAgent
  \/ \E c \in Client \ {1} : EmitToOther(c)
  \/ AgentStep
  \/ Clock
  \/ Tick

(* The transponder's loop never blocks for good: it polls the diode, and the *)
(* pool answers; its interval passes.                                        *)
Fairness == WF_vars(AgentStep) /\ WF_vars(Clock)

Spec == Init /\ [][Next]_vars /\ Fairness

-----------------------------------------------------------------------------
(* Everything received is accounted for: what the UDP reader and the agent's *)
(* v2 path took is still waiting, was passed on, or was counted as dropped,  *)
(* and no counter counts an envelope twice, whichever diode is lapped and    *)
(* whichever batch fails.                                                    *)
Accounted ==
  /\ udpRead = udpIngress + udpDropped + Len(udpDiode)
  /\ aIngress = egress + egressDropped + aDropped + Len(aDiode) + Len(batch)
  /\ egress = Len(doppler)

(* What has been added to a counter by each entry of a ledger. *)
Increments(log, id) ==
  LET sum[k \in 0 .. Len(log)] ==
        IF k = 0 THEN 0
                 ELSE sum[k - 1] + (IF log[k].id = id THEN log[k].delta ELSE 0)
  IN  sum

(* The total a counter should show at entry i: the total it last came with,   *)
(* if any, and the increments since, back to the last reset.                  *)
ExpectedTotal(log, id, i) ==
  LET sum   == Increments(log, id)
      lost  == Max({0} \cup {k - 1 : k \in {j \in 1 .. i : log[j].reset}})
      given == {k \in lost + 1 .. i : log[k].id = id /\ log[k].total # 0}
      base  == Max({lost} \cup given)
  IN  sum[i] - sum[base] + (IF given = {} THEN 0 ELSE log[base].total)

(* A counter's increments survive the loss of the envelopes that carried     *)
(* them: whatever a client's diode, the network, the agent's diode or a      *)
(* failed batch drops, the total Doppler sees is that of all increments the  *)
(* forwarder agent has dispatched, counted once although two aggregators     *)
(* handle each.                                                              *)
TotalsSurviveLosses ==
  \A n \in DOMAIN doppler :
    IsCounter(doppler[n]) =>
      \E i \in DOMAIN ledger :
        /\ ledger[i].n = doppler[n].n
        /\ doppler[n].total = ExpectedTotal(ledger, ledger[i].id, i)

(* All downstreams are told the same of an envelope, although each client's  *)
(* aggregator and tagger change the one they share while the clients before  *)
(* it may be encoding it.                                                    *)
DownstreamsAgree ==
  \A c, d \in Client : \A i \in DOMAIN encoded[c], j \in DOMAIN encoded[d] :
    encoded[c][i].n = encoded[d][j].n => encoded[c][i] = encoded[d][j]

(* What the agent received is sent to Doppler or counted as dropped: nothing *)
(* stays behind in the diode or in a batch that is never filled.             *)
BatchIsSent == (aDiode # <<>> \/ batch # <<>>) ~> (aDiode = <<>> /\ batch = <<>>)
=============================================================================
