---------------------------- MODULE SystemMetrics ----------------------------
(***************************************************************************)
(* The system metrics agent: Processor.Run collects at every tick           *)
(* (pkg/collector) and the PromSender sets gauges (pkg/egress/stats), group *)
(* by group, while requests for /metrics gather them.  Only what can be     *)
(* missing is told apart: the CPU, memory, load and protocol numbers make   *)
(* one group, the health, each disk and the interfaces one each.            *)
(*                                                                         *)
(* The value of a gauge is the number of the collection it was set from: a   *)
(* gauge of a group that is missing keeps its value, and one is registered,  *)
(* and visible with the value 0, before it is set the first time.            *)
(***************************************************************************)
EXTENDS Integers, Sequences, SequencesExt

CONSTANTS
  MayHave,        \* the groups this VM may have besides the first
  MaxCollections, \* bound: collections that succeed
  MaxCores        \* bound: cores of the VM

VARIABLES
  up,           \* the process runs
  cores,        \* the cores of the VM
  prevCores,    \* the cores at the collector's first reading
  collections,  \* history: the collections that succeeded
  toSend,       \* the groups Send has still to set
  gauges        \* the registered gauges

metricsVars == <<up, cores, prevCores, collections, toSend, gauges>>

(* Send's order; the CPU, memory, load and protocol gauges are "system". *)
Disks == <<"system_disk", "ephemeral_disk", "persistent_disk">>
Order == <<"system", "health">> \o Disks \o <<"networks">>

(* What reading a group can come to.  No health file and no such disk or     *)
(* interface is no error; an unreadable health file is none either.          *)
RawStats == {"present", "failed"}
healthy == {"present", "missing"}
diskStat == {"present", "missing", "failed"}
networkStat == {"present", "missing", "failed"}

Outcome(g) == CASE g = "system" -> RawStats
                [] g = "health" -> healthy
                [] g \in ToSet(Disks) -> diskStat
                [] g = "networks" -> networkStat

MetricsInit ==
  /\ up = TRUE
  /\ cores = 1
  /\ prevCores = 1
  /\ collections = 0
  /\ toSend = <<>>
  /\ gauges = <<>>

(* One tick of Processor.Run.  Any error on the way fails the whole          *)
(* collection, and the tick is skipped; else Send begins.                    *)
Collect ==
  /\ up
  /\ toSend = <<>>
  /\ cores <= prevCores
  /\ collections < MaxCollections
  /\ \E outcome \in [{"system"} \cup MayHave -> {"present", "missing", "failed"}] :
       /\ \A g \in DOMAIN outcome : outcome[g] \in Outcome(g) \ {"failed"}
       /\ toSend' = SelectSeq(Order, LAMBDA g : g \in DOMAIN outcome
                                                  /\ outcome[g] = "present")
  /\ collections' = collections + 1
  /\ UNCHANGED <<up, cores, prevCores, gauges>>

CollectFails ==
  /\ up
  /\ toSend = <<>>
  /\ UNCHANGED metricsVars

(* Collector is a value and its methods have copies: the first reading stays *)
(* the previous one for ever.  A core it has not seen is out of its range.   *)
CollectPanics ==
  /\ up
  /\ toSend = <<>>
  /\ cores > prevCores
  /\ up' = FALSE
  /\ UNCHANGED <<cores, prevCores, collections, toSend, gauges>>

(* PromRegistry.Get makes and registers a gauge it does not know; *)
Get ==
  /\ up
  /\ toSend # <<>>
  /\ Head(toSend) \notin DOMAIN gauges
  /\ gauges' = [g \in DOMAIN gauges \cup {Head(toSend)} |->
                  IF g \in DOMAIN gauges THEN gauges[g] ELSE 0]
  /\ UNCHANGED <<up, cores, prevCores, collections, toSend>>

(* the sender sets it. *)
SetGauges ==
  /\ up
  /\ toSend # <<>>
  /\ Head(toSend) \in DOMAIN gauges
  /\ gauges' = [gauges EXCEPT ![Head(toSend)] = collections]
  /\ toSend' = Tail(toSend)
  /\ UNCHANGED <<up, cores, prevCores, collections>>

(* A core is added to the VM; the supervisor starts the agent again. *)
CoreAdded ==
  /\ cores < MaxCores
  /\ cores' = cores + 1
  /\ UNCHANGED <<up, prevCores, collections, toSend, gauges>>

Restart ==
  /\ ~up
  /\ up' = TRUE
  /\ prevCores' = cores
  /\ toSend' = <<>>
  /\ gauges' = <<>>
  /\ UNCHANGED <<cores, collections>>

SystemMetricsAgent ==
  Collect \/ CollectFails \/ CollectPanics \/ Get \/ SetGauges \/ CoreAdded \/ Restart
=============================================================================
