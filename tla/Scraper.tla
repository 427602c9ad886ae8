------------------------------- MODULE Scraper -------------------------------
(***************************************************************************)
(* The metric scraper and the prom scraper: a loop (cmd/metric-scraper,     *)
(* cmd/prom-scraper) scrapes all targets at each tick, one goroutine each   *)
(* (pkg/scraper), and waits for them.  A family is [name, type]; an answer  *)
(* maps the families of a target to their values.  What the target is, is   *)
(* left to the root module.                                                 *)
(*                                                                         *)
(* The metric scraper asks its leadership server first, and can be stopped. *)
(***************************************************************************)
EXTENDS Integers, FiniteSets, FiniteSetsExt

CONSTANTS
  Target,
  MaxScrapes   \* bound: scrapes

ASSUME ScraperAssumption == MaxScrapes \in Nat

VARIABLES
  program,      \* "metric-scraper" or "prom-scraper"
  lpc,          \* the loop: "select", "leader", "wait", "returned", "stopped", "died"
  done,         \* Stop was called
  scrapes,      \* the scrapes begun
  targetList,   \* the targets of each scrape
  gpc,          \* the goroutines: "none", "get", "report", "emit", "done"
  answer,       \* what each goroutine was answered
  left,         \* the families it has still to emit
  reported,     \* the targets whose error is in the channel of a scrape
  attempted, failedScrapes,   \* the gauges
  scrapeErr     \* the last scrape returned an error

scraperVars == <<program, lpc, done, scrapes, targetList, gpc, answer, left,
                 reported, attempted, failedScrapes, scrapeErr>>

Goroutine == (1 .. MaxScrapes) \X Target

ScraperInit ==
  /\ program \in {"metric-scraper", "prom-scraper"}
  /\ lpc = "select"
  /\ done = FALSE
  /\ scrapes = 0
  /\ targetList = [k \in 1 .. MaxScrapes |-> {}]
  /\ gpc = [g \in Goroutine |-> "none"]
  /\ answer = [g \in Goroutine |-> <<>>]
  /\ left = [g \in Goroutine |-> {}]
  /\ reported = [k \in 1 .. MaxScrapes |-> {}]
  /\ attempted = 0
  /\ failedScrapes = 0
  /\ scrapeErr = FALSE

loopRest == <<program, scrapes, targetList, gpc, answer, left, reported,
              attempted, failedScrapes, scrapeErr>>

TickArrives ==
  /\ lpc = "select"
  /\ scrapes < MaxScrapes
  /\ lpc' = "leader"
  /\ UNCHANGED <<done, loopRest>>

(* 423 Locked: another instance is the leader. *)
Locked ==
  /\ lpc = "leader"
  /\ program = "metric-scraper"
  /\ lpc' = "select"
  /\ UNCHANGED <<done, loopRest>>

(* Any other answer and none at all: s.Scrape() begins. *)
BeginScrape(targets) ==
  /\ lpc = "leader"
  /\ lpc' = "wait"
  /\ scrapes' = scrapes + 1
  /\ targetList' = [targetList EXCEPT ![scrapes'] = targets]
  /\ attempted' = Cardinality(targets)
  /\ gpc' = [g \in Goroutine |->
               IF g[1] = scrapes' /\ g[2] \in targets THEN "get" ELSE gpc[g]]
  /\ UNCHANGED <<program, done, answer, left, reported, failedScrapes, scrapeErr>>

(* log.Fatal or a panic when the targets can not be read. *)
ProviderDies ==
  /\ lpc = "leader"
  /\ lpc' = "died"
  /\ UNCHANGED <<done, loopRest>>

goroutineRest == <<program, lpc, done, scrapes, targetList, attempted,
                   failedScrapes, scrapeErr>>

(* No answer in time, a status that is not OK, a body that can not be parsed. *)
GetFails(g) ==
  /\ gpc[g] = "get"
  /\ gpc' = [gpc EXCEPT ![g] = "report"]
  /\ UNCHANGED <<goroutineRest, answer, left, reported>>

GetAnswers(g, families) ==
  /\ gpc[g] = "get"
  /\ gpc' = [gpc EXCEPT ![g] = "emit"]
  /\ answer' = [answer EXCEPT ![g] = families]
  /\ left' = [left EXCEPT ![g] = DOMAIN families]
  /\ UNCHANGED <<goroutineRest, reported>>

(* Faulty variant of Capacity: make(chan *ScrapeError). *)
Unbuffered(k) == 0

Capacity(k) == Cardinality(targetList[k])

(* errs <- &ScrapeError{...}, then nothing to emit. *)
ReportError(g) ==
  /\ gpc[g] = "report"
  /\ Cardinality(reported[g[1]]) < Capacity(g[1])
  /\ reported' = [reported EXCEPT ![g[1]] = @ \cup {g[2]}]
  /\ gpc' = [gpc EXCEPT ![g] = "done"]
  /\ UNCHANGED <<goroutineRest, answer, left>>

(* What becomes of a family: none of a counter with a fraction. *)
Envelopes(type) ==
  CASE type \in {"gauge", "counter"} -> {"value"}
    [] type = "fractional" -> {}
    [] type = "histogram" -> {"sum", "count", "bucket"}
    [] type = "summary" -> {"sum", "count", "quantile"}

Known(type) == type \in {"gauge", "counter", "fractional", "histogram", "summary"}

(* emitMetrics, one family f of the Go map, in any order. *)
EmitFamily(g, f) ==
  /\ gpc[g] = "emit"
  /\ f \in left[g]
  /\ Known(f.type)
  /\ left' = [left EXCEPT ![g] = @ \ {f}]
  /\ UNCHANGED <<goroutineRest, gpc, answer, reported>>

(* A type it does not know ends the loop over all families. *)
UnknownFamily(g) ==
  /\ gpc[g] = "emit"
  /\ \E f \in left[g] : ~Known(f.type)
  /\ gpc' = [gpc EXCEPT ![g] = "done"]
  /\ UNCHANGED <<goroutineRest, answer, left, reported>>

(* wg.Done() *)
EmittedAll(g) ==
  /\ gpc[g] = "emit"
  /\ left[g] = {}
  /\ gpc' = [gpc EXCEPT ![g] = "done"]
  /\ UNCHANGED <<goroutineRest, answer, left, reported>>

(* Faulty variants of AllDone: Scrape waits until every target has answered, *)
(* or not at all.                                                            *)
NoWait == TRUE
AllAnswered == \A t \in targetList[scrapes] : gpc[<<scrapes, t>>] \notin {"none", "get"}

AllDone == \A t \in targetList[scrapes] : gpc[<<scrapes, t>>] = "done"

(* wg.Wait(), close(errs), the gauge and the error. *)
ScrapeReturns ==
  /\ lpc = "wait"
  /\ AllDone
  /\ lpc' = "returned"
  /\ failedScrapes' = Cardinality(reported[scrapes])
  /\ scrapeErr' = (reported[scrapes] # {})
  /\ UNCHANGED <<program, done, scrapes, targetList, gpc, answer, left, reported,
                 attempted>>

(* The error is logged, and the loop goes on either way; what Scrape and its *)
(* goroutines held is gone.                                                  *)
NextRound ==
  /\ lpc = "returned"
  /\ lpc' = "select"
  /\ targetList' = [targetList EXCEPT ![scrapes] = {}]
  /\ reported' = [reported EXCEPT ![scrapes] = {}]
  /\ scrapeErr' = FALSE
  /\ gpc' = [g \in Goroutine |-> IF gpc[g] = "done" THEN "none" ELSE gpc[g]]
  /\ answer' = [g \in Goroutine |-> IF gpc[g] = "done" THEN <<>> ELSE answer[g]]
  /\ left' = [g \in Goroutine |-> IF gpc[g] = "done" THEN {} ELSE left[g]]
  /\ UNCHANGED <<program, done, scrapes, attempted, failedScrapes>>

Stop ==
  /\ program = "metric-scraper"
  /\ ~done
  /\ done' = TRUE
  /\ UNCHANGED <<lpc, loopRest>>

(* case <-m.doneChan: close(m.stoppedChan), on which Stop waits. *)
TakeDone ==
  /\ lpc = "select"
  /\ done
  /\ lpc' = "stopped"
  /\ UNCHANGED <<done, loopRest>>
=============================================================================
