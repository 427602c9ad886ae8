----------------------------- MODULE MetricsChain -----------------------------
(***************************************************************************)
(* The chain of system metrics: the system metrics agent of one VM is a     *)
(* target of a scraper, next to targets of other programs that answer       *)
(* anything.  A request to the agent gathers its gauges one after the       *)
(* other, between the steps of the sender that sets them.                   *)
(***************************************************************************)
EXTENDS SystemMetrics, Scraper

CONSTANTS
  Agent,      \* the target that is the agent
  Families    \* what the others may answer: sets of families

VARIABLES
  gathered,   \* what a request to the agent has gathered so far
  emitted,    \* history: the envelopes of the scrape
  latest      \* history: for each gauge of the agent the latest collection emitted

vars == <<metricsVars, scraperVars, gathered, emitted, latest>>

Init ==
  /\ MetricsInit
  /\ ScraperInit
  /\ gathered = [g \in Goroutine |-> <<>>]
  /\ emitted = {}
  /\ latest = [f \in ToSet(Order) |-> 0]

history == <<gathered, emitted, latest>>

(* What a request has gathered is lost with the process. *)
AgentStep ==
  /\ SystemMetricsAgent
  /\ gathered' = IF up' THEN gathered ELSE [g \in Goroutine |-> <<>>]
  /\ UNCHANGED <<scraperVars, emitted, latest>>

(* What the target provider finds, each time it is asked. *)
Provided == SUBSET Target

Loop ==
  /\ \/ TickArrives
     \/ Locked
     \/ \E targets \in Provided : BeginScrape(targets)
     \/ ProviderDies
     \/ ScrapeReturns
  /\ UNCHANGED <<metricsVars, history>>

Again == NextRound /\ emitted' = {} /\ UNCHANGED <<metricsVars, gathered, latest>>

StopCalled == Stop /\ UNCHANGED <<metricsVars, history>>

Stopped == TakeDone /\ UNCHANGED <<metricsVars, history>>

(* Registry.Gather reads the gauges in any order. *)
GatherOne(g) ==
  /\ gpc[g] = "get"
  /\ g[2] = Agent
  /\ up
  /\ \E f \in DOMAIN gauges \ DOMAIN gathered[g] :
       gathered' = [gathered EXCEPT ![g] =
         [h \in DOMAIN @ \cup {f} |-> IF h = f THEN gauges[f] ELSE @[h]]]
  /\ UNCHANGED <<metricsVars, scraperVars, emitted, latest>>

FamiliesOf(values) ==
  [f \in {[name |-> h, type |-> "gauge"] : h \in DOMAIN values} |-> values[f.name]]

AgentAnswers(g) ==
  /\ g[2] = Agent
  /\ up
  /\ DOMAIN gauges \subseteq DOMAIN gathered[g]
  /\ GetAnswers(g, FamiliesOf(gathered[g]))
  /\ gathered' = [gathered EXCEPT ![g] = <<>>]
  /\ UNCHANGED <<metricsVars, emitted, latest>>

OtherAnswers(g) ==
  /\ g[2] # Agent
  /\ \E families \in Families : GetAnswers(g, [f \in families |-> 0])
  /\ UNCHANGED <<metricsVars, history>>

Fails(g) ==
  /\ GetFails(g)
  /\ gathered' = [gathered EXCEPT ![g] = <<>>]
  /\ UNCHANGED <<metricsVars, emitted, latest>>

Emit(g, f) ==
  /\ EmitFamily(g, f)
  /\ emitted' = emitted \cup {<<g[2], f.name, part>> : part \in Envelopes(f.type)}
  /\ latest' = IF g[2] = Agent /\ answer[g][f] # 0
                 THEN [latest EXCEPT ![f.name] = answer[g][f]] ELSE latest
  /\ UNCHANGED <<metricsVars, gathered>>

Report(g) ==
  /\ ReportError(g) \/ UnknownFamily(g) \/ EmittedAll(g)
  /\ UNCHANGED <<metricsVars, history>>

GoroutineStep(g) ==
  \/ GatherOne(g)
  \/ AgentAnswers(g)
  \/ OtherAnswers(g)
  \/ Fails(g)
  \/ \E f \in left[g] : Emit(g, f)
  \/ Report(g)

Next ==
  \/ AgentStep
  \/ Loop
  \/ Again
  \/ StopCalled
  \/ Stopped
  \/ \E g \in Goroutine : GoroutineStep(g)

(* Both programs schedule their goroutines, but only the metric scraper's    *)
(* requests have a timeout.  A select whose cases are both ready chooses at  *)
(* random, so the one that ends the loop is taken some time.                 *)
Fairness ==
  /\ WF_vars(Loop \/ Again)
  /\ SF_vars(Stopped)
  /\ \A g \in Goroutine :
       WF_vars((program = "metric-scraper" \/ gpc[g] # "get") /\ GoroutineStep(g))

Spec == Init /\ [][Next]_vars /\ Fairness

-----------------------------------------------------------------------------
(* When Scrape returns, each target of it either failed, is counted and      *)
(* reported and had nothing emitted, or has answered and everything in its   *)
(* answer went out as envelopes, whatever became of the other targets; the   *)
(* exception is an answer with a family of an unknown type, which cuts off   *)
(* what the random order has left for after it.                              *)
ScrapeOutcome ==
  lpc = "returned" =>
    LET targets == targetList[scrapes]
        failed  == {t \in targets : answer[<<scrapes, t>>] = <<>>
                                      /\ t \in reported[scrapes]}
        Out(t)  == {x \in emitted : x[1] = t}
        All(t)  == UNION {{<<t, f.name, part>> : part \in Envelopes(f.type)} :
                            f \in DOMAIN answer[<<scrapes, t>>]}
    IN  /\ attempted = Cardinality(targets)
        /\ failedScrapes = Cardinality(failed)
        /\ scrapeErr <=> failed # {}
        /\ \A t \in failed : Out(t) = {}
        /\ \A t \in targets \ failed :
             (\A f \in DOMAIN answer[<<scrapes, t>>] : Known(f.type)) => Out(t) = All(t)

(* The values of a gauge go out in the order they were collected in: no      *)
(* scrape, however slow, emits one after a newer one has gone out, although  *)
(* goroutines, gathering and setting interleave and the agent restarts.      *)
EmittedInOrder == [][\A f \in DOMAIN latest : latest'[f] >= latest[f]]_latest

(* Stop returns: whatever the targets and the leadership server answer, or   *)
(* do not, the loop ends (or the whole process has).                         *)
StopReturns == done ~> lpc \in {"stopped", "died"}
=============================================================================
