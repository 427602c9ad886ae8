------------------------------- MODULE AgentV2 -------------------------------
(***************************************************************************)
(* The v2 path of the agent (cmd/agent/app/app_v2.go): the receiver fills a *)
(* diode; one goroutine, the transponder, moves envelopes from there to a   *)
(* batch and submits it when it is full or the interval is over; a          *)
(* submission sets totals, then goes to the pool of doppler connections     *)
(* (ClientPool), which takes it or fails.  The stats handler of the         *)
(* connections feeds the EnvelopeAverager.                                  *)
(***************************************************************************)
EXTENDS Integers, Sequences, Diode, CounterTotals, EnvelopeAverager

CONSTANTS
  AgentSize,      \* slots of the ingress diode (10000 in the code)
  BatchSize,      \* 100 in the code
  AgentTag,       \* the default tag of the agent's configuration
  EnvelopeBytes   \* the sizes an encoded envelope may have

ASSUME AgentV2Assumption ==
  /\ AgentSize \in Nat \ {0}
  /\ BatchSize \in Nat \ {0}
  /\ EnvelopeBytes \subseteq Nat

VARIABLES
  aDiode,
  aIngress,       \* the "ingress" counter
  aDropped,       \* the "dropped" counter with direction ingress
  batch,          \* the batcher's envelopes
  lapsed,         \* the batch interval is over since the last submission
  agentTotals,    \* the aggregator's totals
  egress,         \* the "egress" counter
  egressDropped,  \* the "dropped" counter with direction egress
  doppler         \* history: the envelopes the pool took, in order

agentVars == <<aDiode, aIngress, aDropped, batch, lapsed, agentTotals, egress,
               egressDropped, doppler>>

AgentInit ==
  /\ aDiode = Empty
  /\ aIngress = 0
  /\ aDropped = 0
  /\ batch = <<>>
  /\ lapsed = FALSE
  /\ agentTotals = NoTotals
  /\ egress = 0
  /\ egressDropped = 0
  /\ doppler = <<>>
  /\ AveragerInit

(* Receiver.Send and its streaming variants, one envelope. *)
AgentReceives(e) ==
  /\ aDiode' = Set(aDiode, e)
  /\ aIngress' = aIngress + 1
  /\ UNCHANGED <<aDropped, batch, lapsed, agentTotals, egress, egressDropped,
                 doppler>>

(* BatchEnvelopeWriter's processors: after[i] is the i-th envelope of the    *)
(* batch, processed, and the totals it leaves.                               *)
ProcessAll(b) ==
  LET after[i \in 0 .. Len(b)] ==
        IF i = 0 THEN [totals |-> agentTotals]
                 ELSE Process(after[i - 1].totals, b[i], AgentTag)
  IN  [totals |-> after[Len(b)].totals, envs |-> [i \in 1 .. Len(b) |-> after[i].env]]

PoolFails(b) ==
  /\ egressDropped' = egressDropped + Len(b)
  /\ UNCHANGED <<egress, doppler, averagerVars>>

PoolTakes(b) ==
  /\ doppler' = doppler \o b
  /\ egress' = egress + Len(b)
  /\ \E size \in EnvelopeBytes : Track(Len(b), size * Len(b))
  /\ UNCHANGED egressDropped

(* Transponder.write: the totals count even if the pool then fails. *)
Submit(b) ==
  \E r \in {ProcessAll(b)} :
    /\ agentTotals' = r.totals
    /\ PoolTakes(r.envs) \/ PoolFails(r.envs)
    /\ batch' = <<>>
    /\ lapsed' = FALSE

Keep(b) ==
  /\ batch' = b
  /\ UNCHANGED <<lapsed, agentTotals, egress, egressDropped, doppler, averagerVars>>

(* TryNext has an envelope: b.Write(envelope) *)
BatchWrite ==
  LET b == Append(batch, NextOf(aDiode, AgentSize))
  IN  /\ ~IsEmpty(aDiode)
      /\ aDiode' = Rest(aDiode, AgentSize)
      /\ aDropped' = aDropped + Missed(aDiode, AgentSize)
      /\ IF lapsed \/ Len(b) >= BatchSize THEN Submit(b) ELSE Keep(b)
      /\ UNCHANGED aIngress

(* Faulty variant of BatchFlush: the loop only sleeps. *)
NoFlush == IsEmpty(aDiode) /\ UNCHANGED <<agentVars, averagerVars>>

(* TryNext has none: b.Flush() submits what has waited for the interval. *)
BatchFlush ==
  /\ IsEmpty(aDiode)
  /\ IF lapsed /\ batch # <<>> THEN Submit(batch) ELSE Keep(batch)
  /\ UNCHANGED <<aDiode, aDropped, aIngress>>

(* One iteration of Transponder.Start. *)
Transponder == BatchWrite \/ BatchFlush

(* The batch interval passes. *)
IntervalLapses ==
  /\ ~lapsed
  /\ lapsed' = TRUE
  /\ UNCHANGED <<aDiode, aIngress, aDropped, batch, agentTotals, egress,
                 egressDropped, doppler, averagerVars>>
=============================================================================
