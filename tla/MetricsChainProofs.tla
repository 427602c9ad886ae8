-------------------------- MODULE MetricsChainProofs --------------------------
(***************************************************************************)
(* The scrapers and the agent's metrics, proved for any targets, answers,   *)
(* groups of metrics and numbers of scrapes and collections: what a scrape  *)
(* has come to when it returns, and that no gauge goes back in time.        *)
(***************************************************************************)
EXTENDS MetricsChain, TLAPS

Scraping == lpc \in {"wait", "returned"}

ScraperTypeOK ==
  /\ scrapes \in 0 .. MaxScrapes
  /\ targetList \in [1 .. MaxScrapes -> SUBSET Target]
  /\ reported \in [1 .. MaxScrapes -> SUBSET Target]
  /\ gpc \in [Goroutine -> {"none", "get", "report", "emit", "done"}]
  /\ answer = [g \in Goroutine |-> answer[g]]
  /\ left = [g \in Goroutine |-> left[g]]
  /\ gathered = [g \in Goroutine |-> gathered[g]]

Live(g) == Scraping /\ g[1] = scrapes /\ g[2] \in targetList[scrapes]

(* The envelopes of a target that went out, and those some families make. *)
Out(t) == {x \in emitted : x[1] = t}
EnvelopesOf(t, F) == UNION {{<<t, f.name, part>> : part \in Envelopes(f.type)} : f \in F}

(* Only the goroutines of the scrape that has not returned are there;        *)
Alive == \A g \in Goroutine : gpc[g] # "none" <=> Live(g)

(* nothing is answered before an answer, and nothing gathered after one;     *)
Stages ==
  \A g \in Goroutine :
    /\ gpc[g] \in {"none", "get", "report"} => answer[g] = <<>> /\ left[g] = {}
    /\ gpc[g] # "get" \/ g[2] # Agent => gathered[g] = <<>>

(* a target is reported by its goroutine's last step, with no answer, and    *)
(* one that ends otherwise has nothing left but after an unknown family;     *)
Reports ==
  \A g \in Goroutine :
    /\ g[2] \in reported[g[1]] => gpc[g] = "done" /\ answer[g] = <<>>
    /\ gpc[g] = "done" /\ g[2] \notin reported[g[1]]
         => left[g] = {} \/ \E f \in left[g] : ~Known(f.type)

(* what a goroutine has emitted is what it has been answered, but what is    *)
(* left of it.                                                               *)
Emissions ==
  /\ ~Scraping => emitted = {}
  /\ \A g \in Goroutine :
       g[1] = scrapes => Out(g[2]) = EnvelopesOf(g[2], DOMAIN answer[g] \ left[g])
  /\ \A g \in Goroutine : left[g] \subseteq DOMAIN answer[g]

Returned ==
  /\ lpc = "leader" => scrapes < MaxScrapes
  /\ Scraping => scrapes # 0 /\ attempted = Cardinality(targetList[scrapes])
  /\ \A k \in 1 .. MaxScrapes : ~(Scraping /\ k = scrapes) => reported[k] = {}
  /\ \A k \in 1 .. MaxScrapes : reported[k] \subseteq targetList[k]
  /\ lpc = "returned" => /\ AllDone
                         /\ failedScrapes = Cardinality(reported[scrapes])
                         /\ scrapeErr <=> reported[scrapes] # {}

ScraperInv ==
  ScraperTypeOK /\ Alive /\ Stages /\ Reports /\ Emissions /\ Returned

-----------------------------------------------------------------------------
(* The goroutines that ask the agent. *)
Asking == {g \in Goroutine : g[2] = Agent}

ValuesTypeOK ==
  /\ collections \in Nat
  /\ latest \in [ToSet(Order) -> 0 .. collections]
  /\ \A h \in DOMAIN gauges : gauges[h] \in 0 .. collections
  /\ \A g \in Asking : \A h \in DOMAIN gathered[g] : gathered[g][h] \in 0 .. collections
  /\ \A g \in Asking : \A f \in left[g] :
       answer[g][f] \in 0 .. collections /\ f = [name |-> f.name, type |-> "gauge"]

(* A gauge that is set is as new as anything that was read from it, *)
NewestIsSet ==
  \A h \in DOMAIN gauges \cap DOMAIN latest :
    gauges[h] # 0 =>
      /\ latest[h] <= gauges[h]
      /\ \A g \in Asking :
           /\ h \in DOMAIN gathered[g] => gathered[g][h] <= gauges[h]
           /\ \A f \in left[g] : f.name = h => answer[g][f] <= gauges[h]

(* and what has been read of it and not emitted is as new as what has. *)
NothingOlder ==
  \A g \in Asking :
    /\ \A h \in DOMAIN gathered[g] \cap DOMAIN latest :
         gathered[g][h] # 0 => latest[h] <= gathered[g][h]
    /\ \A f \in left[g] :
         f.name \in DOMAIN latest /\ answer[g][f] # 0 => latest[f.name] <= answer[g][f]

ValuesInv == ValuesTypeOK /\ NewestIsSet /\ NothingOlder

ChainInv == ScraperInv /\ ValuesInv

-----------------------------------------------------------------------------
LEMMA NoFamilies == DOMAIN <<>> = {}
OBVIOUS

LEMMA EnvelopesOfNone == \A t : EnvelopesOf(t, {}) = {}
BY DEF EnvelopesOf

LEMMA EnvelopesOfMore ==
  ASSUME NEW t, NEW F, NEW f
  PROVE  EnvelopesOf(t, F \cup {f})
           = EnvelopesOf(t, F) \cup {<<t, f.name, part>> : part \in Envelopes(f.type)}
BY DEF EnvelopesOf

LEMMA ScraperStarts == Init => ScraperInv
<1> SUFFICES ASSUME Init PROVE ScraperInv
  OBVIOUS
<1> USE DEF Init, ScraperInit
<1>1. ScraperTypeOK
  BY ScraperAssumption DEF ScraperTypeOK
<1>2. Alive /\ Stages /\ Reports
  <2>1. \A g \in Goroutine : g[1] \in 1 .. MaxScrapes
    BY DEF Goroutine
  <2> QED
    BY <2>1 DEF Alive, Stages, Reports, Live, Scraping
<1>3. Emissions
  BY NoFamilies, EnvelopesOfNone DEF Emissions, Out, Scraping
<1>4. Returned
  BY ScraperAssumption DEF Returned, Scraping
<1> QED
  BY <1>1, <1>2, <1>3, <1>4 DEF ScraperInv

(* Nothing but the loop's place. *)
LEMMA LoopOnlyMoves ==
  ASSUME ScraperInv, UNCHANGED <<loopRest, gathered, emitted>>,
         ~Scraping, ~Scraping', lpc' = "leader" => scrapes < MaxScrapes
  PROVE  ScraperInv'
<1>1. ScraperTypeOK'
  BY DEF ScraperInv, ScraperTypeOK, loopRest
<1>2. Alive' /\ Stages' /\ Reports'
  BY DEF ScraperInv, Alive, Live, Stages, Reports, loopRest
<1>3. Emissions'
  BY DEF ScraperInv, Emissions, Out, loopRest
<1>4. Returned'
  BY DEF ScraperInv, Returned, Scraping, loopRest
<1> QED
  BY <1>1, <1>2, <1>3, <1>4 DEF ScraperInv

LEMMA BeginScrapeKeeps ==
  ASSUME ScraperInv, NEW targets \in Provided, BeginScrape(targets),
         UNCHANGED <<gathered, emitted>>
  PROVE  ScraperInv'
<1> USE DEF ScraperInv
<1>1. /\ scrapes \in Nat /\ scrapes < MaxScrapes /\ MaxScrapes \in Nat
      /\ scrapes' = scrapes + 1 /\ scrapes' \in 1 .. MaxScrapes
  BY ScraperAssumption DEF BeginScrape, ScraperTypeOK, Returned
<1>2. targetList'[scrapes'] = targets /\ targets \subseteq Target
  BY <1>1 DEF BeginScrape, ScraperTypeOK, Provided
<1>3. ~Scraping /\ Scraping' /\ lpc' = "wait" /\ emitted = {} /\ emitted' = {}
  BY DEF BeginScrape, Scraping, Emissions
<1>4. \A g \in Goroutine :
        gpc'[g] = IF g[1] = scrapes' /\ g[2] \in targets THEN "get" ELSE "none"
  BY <1>3 DEF BeginScrape, Alive, Live, ScraperTypeOK
<1>5. \A k \in 1 .. MaxScrapes : reported[k] = {} /\ reported'[k] = {}
  BY <1>3 DEF BeginScrape, Returned
<1>6. \A g \in Goroutine : gpc[g] = "none" /\ answer'[g] = <<>> /\ left'[g] = {}
                             /\ gathered'[g] = <<>> /\ g[1] \in 1 .. MaxScrapes
  BY <1>3 DEF BeginScrape, Alive, Live, Stages, Goroutine
<1>7. ScraperTypeOK'
  BY <1>1, <1>2 DEF BeginScrape, ScraperTypeOK
<1>8. Alive' /\ Stages' /\ Reports'
  BY <1>2, <1>3, <1>4, <1>5, <1>6 DEF Alive, Live, Stages, Reports
<1>9. Emissions'
  BY <1>3, <1>6, NoFamilies, EnvelopesOfNone DEF Emissions, Out
<1>10. Returned'
  BY <1>1, <1>2, <1>3, <1>5, <1>7 DEF Returned, BeginScrape, ScraperTypeOK
<1> QED
  BY <1>7, <1>8, <1>9, <1>10

LEMMA ScrapeReturnsKeeps ==
  ASSUME ScraperInv, ScrapeReturns, UNCHANGED <<gathered, emitted>>
  PROVE  ScraperInv'
<1> USE DEF ScraperInv, ScrapeReturns
<1>1. Scraping /\ Scraping'
  BY DEF Scraping
<1>2. ScraperTypeOK'
  BY DEF ScraperTypeOK
<1>3. Alive' /\ Stages' /\ Reports'
  BY <1>1 DEF Alive, Live, Stages, Reports
<1>4. Emissions'
  BY <1>1 DEF Emissions, Out
<1>5. Returned'
  BY <1>1 DEF Returned, AllDone
<1> QED
  BY <1>2, <1>3, <1>4, <1>5

LEMMA NextRoundKeeps ==
  ASSUME ScraperInv, NextRound, UNCHANGED gathered, emitted' = {}
  PROVE  ScraperInv'
<1> USE DEF ScraperInv
<1>1. Scraping /\ ~Scraping' /\ lpc = "returned" /\ lpc' = "select"
  BY DEF NextRound, Scraping
<1>2. \A g \in Goroutine : gpc[g] \in {"none", "done"} /\ g[1] \in 1 .. MaxScrapes
  <2> SUFFICES ASSUME NEW g \in Goroutine, gpc[g] # "none" PROVE gpc[g] = "done"
    BY DEF Goroutine
  <2>1. g[1] = scrapes /\ g[2] \in targetList[scrapes] /\ g = <<g[1], g[2]>>
    BY DEF Alive, Live, Goroutine
  <2> QED
    BY <1>1, <2>1 DEF Returned, AllDone
<1>3. \A g \in Goroutine : gpc'[g] = "none" /\ answer'[g] = <<>> /\ left'[g] = {}
                             /\ gathered'[g] = <<>>
  BY <1>2 DEF NextRound, Stages
<1>4. \A k \in 1 .. MaxScrapes : reported'[k] = {}
  BY <1>1 DEF NextRound, ScraperTypeOK, Returned
<1>5. ScraperTypeOK'
  BY DEF NextRound, ScraperTypeOK
<1>6. Alive' /\ Stages' /\ Reports'
  BY <1>1, <1>2, <1>3, <1>4 DEF Alive, Live, Stages, Reports
<1>7. Emissions'
  BY <1>1, <1>3, NoFamilies, EnvelopesOfNone DEF Emissions, Out
<1>8. Returned'
  BY <1>1, <1>4, <1>5 DEF Returned, ScraperTypeOK
<1> QED
  BY <1>5, <1>6, <1>7, <1>8

(* A goroutine that has something to do is one of the scrape under way. *)
LEMMA Busy ==
  ASSUME ScraperInv, NEW g \in Goroutine, gpc[g] \in {"get", "report", "emit"}
  PROVE  /\ Live(g) /\ lpc = "wait" /\ Scraping
         /\ g[1] = scrapes /\ g[1] \in 1 .. MaxScrapes
         /\ g[2] \in Target /\ g = <<g[1], g[2]>>
         /\ g[2] \notin reported[scrapes]
<1>1. Live(g) /\ g[1] \in 1 .. MaxScrapes /\ g[2] \in Target /\ g = <<g[1], g[2]>>
  BY DEF ScraperInv, Alive, Goroutine
<1>2. lpc # "returned"
  BY <1>1 DEF ScraperInv, Returned, AllDone, Live
<1> QED
  BY <1>1, <1>2 DEF Live, Scraping, ScraperInv, Reports

LEMMA GatherKeeps ==
  ASSUME ScraperInv, NEW g \in Goroutine, GatherOne(g)
  PROVE  ScraperInv'
<1> USE DEF ScraperInv, GatherOne, scraperVars
<1>1. ScraperTypeOK'
  BY DEF ScraperTypeOK
<1>2. \A h \in Goroutine : h # g => gathered'[h] = gathered[h]
  BY DEF ScraperTypeOK
<1>3. Alive' /\ Stages' /\ Reports'
  BY <1>2 DEF Alive, Live, Scraping, Stages, Reports
<1>4. Emissions' /\ Returned'
  BY DEF Emissions, Out, Scraping, Returned, AllDone
<1> QED
  BY <1>1, <1>3, <1>4

LEMMA FailsKeeps ==
  ASSUME ScraperInv, NEW g \in Goroutine, GetFails(g), UNCHANGED emitted,
         gathered' = [gathered EXCEPT ![g] = <<>>]
  PROVE  ScraperInv'
<1> USE DEF ScraperInv, GetFails, goroutineRest
<1>1. Live(g) /\ lpc = "wait" /\ g[2] \notin reported[g[1]]
  BY Busy
<1>2. ScraperTypeOK'
  BY DEF ScraperTypeOK
<1>3. \A h \in Goroutine :
        /\ gpc'[h] = IF h = g THEN "report" ELSE gpc[h]
        /\ gathered'[h] = IF h = g THEN <<>> ELSE gathered[h]
  BY DEF ScraperTypeOK
<1>4. Alive' /\ Stages' /\ Reports'
  BY <1>1, <1>3 DEF Alive, Live, Scraping, Stages, Reports
<1>5. Emissions' /\ Returned'
  BY <1>1, <1>3 DEF Emissions, Out, Scraping, Returned, AllDone
<1> QED
  BY <1>2, <1>4, <1>5

LEMMA AnswersKeeps ==
  ASSUME ScraperInv, NEW g \in Goroutine, NEW families, GetAnswers(g, families),
         UNCHANGED emitted, gathered' = [gathered EXCEPT ![g] = <<>>]
  PROVE  ScraperInv'
<1> USE DEF ScraperInv, GetAnswers, goroutineRest
<1>1. Live(g) /\ lpc = "wait" /\ g[2] \notin reported[g[1]]
  BY Busy
<1>2. ScraperTypeOK'
  BY DEF ScraperTypeOK
<1>3. \A h \in Goroutine :
        /\ gpc'[h] = IF h = g THEN "emit" ELSE gpc[h]
        /\ answer'[h] = IF h = g THEN families ELSE answer[h]
        /\ left'[h] = IF h = g THEN DOMAIN families ELSE left[h]
        /\ gathered'[h] = IF h = g THEN <<>> ELSE gathered[h]
  BY DEF ScraperTypeOK
<1>4. Alive' /\ Stages' /\ Reports'
  BY <1>1, <1>3 DEF Alive, Live, Scraping, Stages, Reports
<1>5. DOMAIN answer'[g] \ left'[g] = {} /\ DOMAIN answer[g] \ left[g] = {}
  BY <1>3, NoFamilies DEF Stages
<1>6. Emissions'
  <2>1. EnvelopesOf(g[2], DOMAIN answer'[g] \ left'[g])
          = EnvelopesOf(g[2], DOMAIN answer[g] \ left[g])
    BY <1>5
  <2>2. \A h \in Goroutine \ {g} : answer'[h] = answer[h] /\ left'[h] = left[h]
    BY <1>3
  <2>3. left'[g] \subseteq DOMAIN answer'[g]
    BY <1>3
  <2>4. emitted' = emitted /\ scrapes' = scrapes
    OBVIOUS
  <2> QED
    BY <1>1, <2>1, <2>2, <2>3, <2>4 DEF Emissions, Out, Scraping
<1>7. Returned'
  BY <1>1, <1>3 DEF Scraping, Returned, AllDone
<1> QED
  BY <1>2, <1>4, <1>6, <1>7

LEMMA ReportKeeps ==
  ASSUME ScraperInv, NEW g \in Goroutine, UNCHANGED <<emitted, gathered>>,
         ReportError(g) \/ UnknownFamily(g) \/ EmittedAll(g)
  PROVE  ScraperInv'
<1> USE DEF ScraperInv, ReportError, UnknownFamily, EmittedAll, goroutineRest
<1>1. /\ Live(g) /\ lpc = "wait" /\ g[2] \notin reported[g[1]] /\ g = <<g[1], g[2]>>
      /\ g[1] \in 1 .. MaxScrapes /\ g[2] \in Target /\ g[1] = scrapes /\ Scraping
  BY Busy
<1>2. ScraperTypeOK'
  BY <1>1 DEF ScraperTypeOK
<1>3. /\ \A h \in Goroutine : gpc'[h] = IF h = g THEN "done" ELSE gpc[h]
      /\ answer' = answer /\ left' = left
  BY DEF ScraperTypeOK
<1>4. \A h \in Goroutine \ {g} : h[2] \in reported'[h[1]] <=> h[2] \in reported[h[1]]
  <2> SUFFICES ASSUME NEW h \in Goroutine, h # g
               PROVE  h[2] \in reported'[h[1]] <=> h[2] \in reported[h[1]]
    OBVIOUS
  <2>1. h = <<h[1], h[2]>> /\ h[1] \in 1 .. MaxScrapes
    BY DEF Goroutine
  <2>2. CASE ReportError(g)
    <3>1. h[1] = g[1] => h[2] # g[2]
      BY <1>1, <2>1
    <3>2. reported'[h[1]] = IF h[1] = g[1] THEN reported[h[1]] \cup {g[2]} ELSE reported[h[1]]
      BY <1>1, <2>1, <2>2 DEF ScraperTypeOK
    <3> QED
      BY <3>1, <3>2
  <2> QED
    BY <2>2
<1>5. g[2] \in reported'[g[1]] <=> gpc[g] = "report"
  BY <1>1 DEF ScraperTypeOK
<1>6. Alive' /\ Stages'
  BY <1>1, <1>3 DEF Alive, Live, Scraping, Stages
<1>7. Reports'
  BY <1>1, <1>3, <1>4, <1>5 DEF Reports, Stages
<1>8. Emissions'
  BY <1>1, <1>3 DEF Emissions, Out, Scraping
<1>9. Returned'
  BY <1>1, <1>2, <1>3 DEF Scraping, Returned, Live, ScraperTypeOK
<1> QED
  BY <1>2, <1>6, <1>7, <1>8, <1>9

LEMMA EmitKeeps ==
  ASSUME ScraperInv, NEW g \in Goroutine, NEW f, EmitFamily(g, f), UNCHANGED gathered,
         emitted' = emitted \cup {<<g[2], f.name, part>> : part \in Envelopes(f.type)}
  PROVE  ScraperInv'
<1> USE DEF ScraperInv, EmitFamily, goroutineRest
<1>1. Live(g) /\ lpc = "wait" /\ g = <<g[1], g[2]>> /\ g[1] = scrapes /\ Scraping
  BY Busy
<1>2. ScraperTypeOK'
  BY DEF ScraperTypeOK
<1>3. \A h \in Goroutine : left'[h] = IF h = g THEN left[g] \ {f} ELSE left[h]
  BY DEF ScraperTypeOK
<1>4. Alive' /\ Stages' /\ Reports'
  BY <1>3 DEF Alive, Live, Scraping, Stages, Reports
<1>5. Emissions'
  <2>1. \A h \in Goroutine : left'[h] \subseteq DOMAIN answer'[h]
    BY <1>3 DEF Emissions
  <2>2. f \in DOMAIN answer[g]
    BY DEF Emissions
  <2>3. DOMAIN answer'[g] \ left'[g] = (DOMAIN answer[g] \ left[g]) \cup {f}
    BY <1>3, <2>2
  <2> DEFINE new == {<<g[2], f.name, part>> : part \in Envelopes(f.type)}
  <2>4. \A x \in new : x[1] = g[2]
    OBVIOUS
  <2>5. Out(g[2])' = Out(g[2]) \cup new
    BY <2>4 DEF Out
  <2>6. ASSUME NEW h \in Goroutine, h # g, h[1] = scrapes
        PROVE  Out(h[2])' = Out(h[2]) /\ left'[h] = left[h]
    <3>1. h = <<h[1], h[2]>>
      BY DEF Goroutine
    <3>2. h[2] # g[2]
      BY <1>1, <2>6, <3>1
    <3> QED
      BY <1>3, <2>4, <2>6, <3>2 DEF Out
  <2>7. EnvelopesOf(g[2], DOMAIN answer'[g] \ left'[g])
          = EnvelopesOf(g[2], DOMAIN answer[g] \ left[g]) \cup new
    BY <2>3, EnvelopesOfMore
  <2> HIDE DEF new
  <2> QED
    BY <1>1, <2>1, <2>5, <2>6, <2>7 DEF Emissions, Scraping
<1>6. Returned'
  BY DEF Scraping, Returned, AllDone
<1> QED
  BY <1>2, <1>4, <1>5, <1>6

LEMMA AgentKeepsScraper == ScraperInv /\ AgentStep => ScraperInv'
<1> SUFFICES ASSUME ScraperInv, AgentStep PROVE ScraperInv'
  OBVIOUS
<1> USE DEF ScraperInv, AgentStep, scraperVars
<1>1. /\ gathered' = [g \in Goroutine |-> gathered'[g]]
      /\ \A g \in Goroutine : gathered'[g] \in {gathered[g], <<>>}
  BY DEF ScraperTypeOK
<1>2. ScraperTypeOK'
  BY <1>1 DEF ScraperTypeOK
<1>3. Alive' /\ Stages' /\ Reports'
  BY <1>1 DEF Alive, Live, Scraping, Stages, Reports
<1>4. Emissions' /\ Returned'
  BY DEF Emissions, Out, Scraping, Returned, AllDone
<1> QED
  BY <1>2, <1>3, <1>4

LEMMA ScraperInvariance == ScraperInv /\ [Next]_vars => ScraperInv'
<1> SUFFICES ASSUME ScraperInv, [Next]_vars PROVE ScraperInv'
  OBVIOUS
<1>1. CASE AgentStep
  BY <1>1, AgentKeepsScraper
<1>2. CASE Loop
  <2>1. UNCHANGED <<gathered, emitted>>
    BY <1>2 DEF Loop, history
  <2>2. CASE TickArrives
    BY <2>1, <2>2, LoopOnlyMoves DEF TickArrives, Scraping
  <2>3. CASE Locked
    BY <2>1, <2>3, LoopOnlyMoves DEF Locked, Scraping
  <2>4. CASE \E targets \in Provided : BeginScrape(targets)
    BY <2>1, <2>4, BeginScrapeKeeps
  <2>5. CASE ProviderDies
    BY <2>1, <2>5, LoopOnlyMoves DEF ProviderDies, Scraping
  <2>6. CASE ScrapeReturns
    BY <2>1, <2>6, ScrapeReturnsKeeps
  <2> QED
    BY <1>2, <2>2, <2>3, <2>4, <2>5, <2>6 DEF Loop
<1>3. CASE Again
  BY <1>3, NextRoundKeeps DEF Again
<1>4. CASE StopCalled \/ UNCHANGED vars
  <2> USE <1>4 DEF StopCalled, Stop, loopRest, history, vars, scraperVars, ScraperInv
  <2>1. ScraperTypeOK'
    BY DEF ScraperTypeOK
  <2>2. Alive' /\ Stages' /\ Reports'
    BY DEF Alive, Live, Scraping, Stages, Reports
  <2>3. Emissions'
    BY DEF Emissions, Out, Scraping
  <2>4. Returned'
    BY DEF Scraping, Returned, AllDone
  <2> QED
    BY <2>1, <2>2, <2>3, <2>4
<1>5. CASE Stopped
  BY <1>5, LoopOnlyMoves DEF Stopped, TakeDone, Scraping, history
<1>6. ASSUME NEW g \in Goroutine, GoroutineStep(g) PROVE ScraperInv'
  <2>1. CASE GatherOne(g)
    BY <2>1, GatherKeeps
  <2>2. CASE AgentAnswers(g)
    BY <2>2, AnswersKeeps DEF AgentAnswers
  <2>3. CASE OtherAnswers(g)
    <3>1. gathered' = gathered /\ emitted' = emitted /\ gathered[g] = <<>>
      BY <2>3 DEF OtherAnswers, history, ScraperInv, Stages
    <3>2. gathered' = [gathered EXCEPT ![g] = <<>>]
      BY <3>1 DEF ScraperInv, ScraperTypeOK
    <3> QED
      BY <2>3, <3>1, <3>2, AnswersKeeps DEF OtherAnswers
  <2>4. CASE Fails(g)
    BY <2>4, FailsKeeps DEF Fails
  <2>5. CASE \E f \in left[g] : Emit(g, f)
    BY <2>5, EmitKeeps DEF Emit
  <2>6. CASE Report(g)
    BY <2>6, ReportKeeps DEF Report, history
  <2> QED
    BY <1>6, <2>1, <2>2, <2>3, <2>4, <2>5, <2>6 DEF GoroutineStep
<1> QED
  BY <1>1, <1>2, <1>3, <1>4, <1>5, <1>6 DEF Next

(* When Scrape returns, each target of it either failed, is reported and had *)
(* nothing emitted, or has answered and all of its answer went out.          *)
THEOREM ScrapeOutcomeHolds == Spec => []ScrapeOutcome
<1>1. ScraperInv => ScrapeOutcome
  <2> SUFFICES ASSUME ScraperInv, lpc = "returned" PROVE ScrapeOutcome
    BY DEF ScrapeOutcome
  <2> DEFINE targets == targetList[scrapes]
             failed == {t \in targets : answer[<<scrapes, t>>] = <<>>
                                          /\ t \in reported[scrapes]}
  <2>1. scrapes \in 1 .. MaxScrapes /\ Scraping
    BY ScraperAssumption DEF ScraperInv, Returned, ScraperTypeOK, Scraping
  <2>2. \A t \in targets : <<scrapes, t>> \in Goroutine
    BY <2>1 DEF ScraperInv, ScraperTypeOK, Goroutine
  <2>3. \A t \in targets : gpc[<<scrapes, t>>] = "done"
    BY DEF ScraperInv, Returned, AllDone
  <2>4. failed = reported[scrapes]
    BY <2>1, <2>2 DEF ScraperInv, Returned, Reports
  <2>5. \A t \in targets : Out(t) = EnvelopesOf(t, DOMAIN answer[<<scrapes, t>>] \ left[<<scrapes, t>>])
    BY <2>1, <2>2 DEF ScraperInv, Emissions
  <2>6. \A t \in failed : Out(t) = {}
    BY <2>5, NoFamilies, EnvelopesOfNone
  <2>7. ASSUME NEW t \in targets \ failed,
               \A f \in DOMAIN answer[<<scrapes, t>>] : Known(f.type)
        PROVE  Out(t) = EnvelopesOf(t, DOMAIN answer[<<scrapes, t>>])
    <3>1. <<scrapes, t>> \in Goroutine /\ t \notin reported[scrapes]
      BY <2>2, <2>4
    <3>2. left[<<scrapes, t>>] \subseteq DOMAIN answer[<<scrapes, t>>]
      BY <3>1 DEF ScraperInv, Emissions
    <3>3. left[<<scrapes, t>>] = {}
      BY <2>3, <2>7, <3>1, <3>2 DEF ScraperInv, Reports
    <3> QED
      BY <2>5, <3>3
  <2>8. attempted = Cardinality(targets) /\ failedScrapes = Cardinality(failed)
        /\ (scrapeErr <=> failed # {})
    BY <2>1, <2>4 DEF ScraperInv, Returned
  <2> QED
    BY <2>6, <2>7, <2>8 DEF ScrapeOutcome, Out, EnvelopesOf
<1> QED
  BY <1>1, ScraperStarts, ScraperInvariance, PTL DEF Spec

-----------------------------------------------------------------------------
LEMMA ValuesStart == Init => ValuesInv
<1> SUFFICES ASSUME Init PROVE ValuesInv
  OBVIOUS
<1> USE DEF Init, ScraperInit, MetricsInit
<1>1. DOMAIN gauges = {} /\ \A g \in Asking : DOMAIN gathered[g] = {} /\ left[g] = {}
  BY NoFamilies DEF Asking
<1>2. ValuesTypeOK
  <2>1. collections \in Nat /\ latest \in [ToSet(Order) -> 0 .. collections]
    OBVIOUS
  <2> QED
    BY <1>1, <2>1 DEF ValuesTypeOK
<1> QED
  BY <1>1, <1>2 DEF ValuesInv, NewestIsSet, NothingOlder

(* The loop's steps: what is left of the answers is forgotten at most. *)
LEMMA LoopKeepsValues ==
  ASSUME ValuesInv, UNCHANGED <<metricsVars, gathered, latest>>,
         \A g \in Goroutine : left'[g] = {} \/ (left'[g] = left[g] /\ answer'[g] = answer[g])
  PROVE  ValuesInv'
<1> USE DEF ValuesInv, metricsVars
<1>1. ValuesTypeOK'
  BY DEF ValuesTypeOK, Asking
<1>2. NewestIsSet' /\ NothingOlder'
  BY DEF NewestIsSet, NothingOlder, Asking
<1> QED
  BY <1>1, <1>2

(* Setting a gauge makes it newer than anything read. *)
LEMMA AgentKeepsValues == ScraperInv /\ ValuesInv /\ AgentStep => ValuesInv'
<1> SUFFICES ASSUME ScraperInv, ValuesInv, AgentStep PROVE ValuesInv'
  OBVIOUS
<1> USE DEF ValuesInv, AgentStep, scraperVars
<1>1. \A g \in Asking : DOMAIN gathered'[g] = {} \/ gathered'[g] = gathered[g]
  BY NoFamilies DEF Asking
<1>2. ASSUME collections' \in Nat, collections <= collections',
             \A h \in DOMAIN gauges' : \/ gauges'[h] = 0
                                       \/ gauges'[h] = collections
                                       \/ h \in DOMAIN gauges /\ gauges'[h] = gauges[h]
      PROVE  ValuesInv'
  <2>1. 0 .. collections \subseteq 0 .. collections'
    BY <1>2 DEF ValuesTypeOK
  <2>2. ValuesTypeOK'
    <3>1. latest' \in [ToSet(Order) -> 0 .. collections']
      BY <2>1 DEF ValuesTypeOK
    <3>2. \A h \in DOMAIN gauges' : gauges'[h] \in 0 .. collections'
      BY <1>2 DEF ValuesTypeOK
    <3>3. \A g \in Asking : \A h \in DOMAIN gathered'[g] : gathered'[g][h] \in 0 .. collections'
      BY <1>1, <2>1 DEF ValuesTypeOK
    <3>4. \A g \in Asking : \A f \in left'[g] :
            answer'[g][f] \in 0 .. collections' /\ f = [name |-> f.name, type |-> "gauge"]
      BY <2>1 DEF ValuesTypeOK
    <3> QED
      BY <1>2, <3>1, <3>2, <3>3, <3>4 DEF ValuesTypeOK, Asking
  <2>3. NewestIsSet'
    <3> SUFFICES ASSUME NEW h \in DOMAIN gauges' \cap DOMAIN latest, gauges'[h] # 0
                 PROVE  /\ latest[h] <= gauges'[h]
                        /\ \A g \in Asking :
                             /\ h \in DOMAIN gathered'[g] => gathered'[g][h] <= gauges'[h]
                             /\ \A f \in left[g] : f.name = h => answer[g][f] <= gauges'[h]
      BY DEF NewestIsSet, Asking
    <3>1. CASE gauges'[h] = collections
      BY <1>1, <3>1 DEF ValuesTypeOK
    <3>2. CASE h \in DOMAIN gauges /\ gauges'[h] = gauges[h]
      BY <1>1, <3>2 DEF NewestIsSet
    <3> QED
      BY <1>2, <3>1, <3>2
  <2>4. NothingOlder'
    BY <1>1 DEF NothingOlder, Asking
  <2> QED
    BY <2>2, <2>3, <2>4
<1>3. collections \in Nat
  BY DEF ValuesTypeOK
<1>4. CASE Collect \/ CollectFails \/ CollectPanics \/ CoreAdded
  <2>1. gauges' = gauges
    BY <1>4 DEF Collect, CollectFails, CollectPanics, CoreAdded, metricsVars
  <2>2. collections' \in {collections, collections + 1}
    BY <1>4 DEF Collect, CollectFails, CollectPanics, CoreAdded, metricsVars
  <2> QED
    BY <1>2, <1>3, <2>1, <2>2
<1>5. CASE Get
  BY <1>2, <1>3, <1>5 DEF Get
<1>6. CASE SetGauges
  BY <1>2, <1>3, <1>6 DEF SetGauges
<1>7. CASE Restart
  BY <1>2, <1>3, <1>7, NoFamilies DEF Restart
<1> QED
  BY <1>4, <1>5, <1>6, <1>7 DEF SystemMetricsAgent

LEMMA GatherKeepsValues ==
  ASSUME ScraperInv, ValuesInv, NEW g \in Goroutine, GatherOne(g)
  PROVE  ValuesInv'
<1> USE DEF ValuesInv, metricsVars, scraperVars
<1>1. PICK f \in DOMAIN gauges \ DOMAIN gathered[g] :
        gathered' = [gathered EXCEPT ![g] =
          [h \in DOMAIN gathered[g] \cup {f} |-> IF h = f THEN gauges[f] ELSE gathered[g][h]]]
  BY DEF GatherOne
<1>2. \A i \in Asking : \A h \in DOMAIN gathered'[i] :
        \/ h \in DOMAIN gathered[i] /\ gathered'[i][h] = gathered[i][h]
        \/ h \in DOMAIN gauges /\ gathered'[i][h] = gauges[h]
  BY <1>1 DEF Asking, ScraperInv, ScraperTypeOK
<1>3. ValuesTypeOK'
  BY <1>2 DEF ValuesTypeOK, Asking, GatherOne
<1>4. NewestIsSet'
  BY <1>2 DEF NewestIsSet, Asking, GatherOne, ValuesTypeOK
<1>5. NothingOlder'
  BY <1>2 DEF NothingOlder, NewestIsSet, Asking, GatherOne
<1> QED
  BY <1>3, <1>4, <1>5

(* What was gathered is in the answer, and in none of the names twice. *)
LEMMA AnswersKeepsValues ==
  ASSUME ScraperInv, ValuesInv, NEW g \in Goroutine, AgentAnswers(g)
  PROVE  ValuesInv'
<1> USE DEF ValuesInv, metricsVars, AgentAnswers, GetAnswers, goroutineRest
<1> DEFINE F == FamiliesOf(gathered[g])
<1>1. /\ \A i \in Goroutine : DOMAIN gathered'[i] = {} \/ gathered'[i] = gathered[i]
      /\ \A i \in Goroutine \ {g} : left'[i] = left[i] /\ answer'[i] = answer[i]
      /\ left'[g] = DOMAIN F /\ answer'[g] = F
  BY NoFamilies DEF ScraperInv, ScraperTypeOK
<1>2. \A f \in DOMAIN F : /\ f = [name |-> f.name, type |-> "gauge"]
                          /\ f.name \in DOMAIN gathered[g]
                          /\ F[f] = gathered[g][f.name]
  BY DEF FamiliesOf
<1>3. \A i \in Asking : \A f \in left'[i] :
        \/ f \in left[i] /\ answer'[i][f] = answer[i][f]
        \/ /\ i = g /\ f = [name |-> f.name, type |-> "gauge"]
           /\ f.name \in DOMAIN gathered[g] /\ answer'[i][f] = gathered[g][f.name]
  BY <1>1, <1>2 DEF Asking
<1>4. Asking' = Asking /\ (g \in Asking)
  BY DEF Asking
<1> HIDE DEF F
<1>5. ValuesTypeOK'
  BY <1>1, <1>3, <1>4 DEF ValuesTypeOK, Asking
<1>6. NewestIsSet'
  BY <1>1, <1>3, <1>4 DEF NewestIsSet, Asking
<1>7. NothingOlder'
  BY <1>1, <1>3, <1>4 DEF NothingOlder, Asking
<1> QED
  BY <1>5, <1>6, <1>7

LEMMA OtherAnswersKeepsValues ==
  ASSUME ScraperInv, ValuesInv, NEW g \in Goroutine, OtherAnswers(g)
  PROVE  ValuesInv'
<1>1. /\ g \notin Asking
      /\ \A i \in Goroutine \ {g} : left'[i] = left[i] /\ answer'[i] = answer[i]
  BY DEF OtherAnswers, GetAnswers, Asking, ScraperInv, ScraperTypeOK
<1>2. UNCHANGED <<metricsVars, gathered, latest>>
  BY DEF OtherAnswers, history
<1> USE DEF ValuesInv, metricsVars
<1>3. ValuesTypeOK'
  BY <1>1, <1>2 DEF ValuesTypeOK, Asking
<1>4. NewestIsSet' /\ NothingOlder'
  BY <1>1, <1>2 DEF NewestIsSet, NothingOlder, Asking
<1> QED
  BY <1>3, <1>4

(* Failing, and reporting, leave the values alone. *)
LEMMA ReportKeepsValues ==
  ASSUME ScraperInv, ValuesInv, NEW g \in Goroutine, Fails(g) \/ Report(g)
  PROVE  ValuesInv'
<1>1. UNCHANGED <<metricsVars, answer, left, latest>>
  BY DEF Fails, GetFails, Report, ReportError, UnknownFamily, EmittedAll, history
<1>2. \A i \in Goroutine : DOMAIN gathered'[i] = {} \/ gathered'[i] = gathered[i]
  BY NoFamilies DEF Fails, Report, history, ScraperInv, ScraperTypeOK
<1> USE DEF ValuesInv, metricsVars
<1>3. ValuesTypeOK'
  BY <1>1, <1>2 DEF ValuesTypeOK, Asking
<1>4. NewestIsSet' /\ NothingOlder'
  BY <1>1, <1>2 DEF NewestIsSet, NothingOlder, Asking
<1> QED
  BY <1>3, <1>4

(* No other goroutine that asks the agent is there, so what is emitted is    *)
(* the newest, and of one gauge but once.                                    *)
LEMMA EmitKeepsValues ==
  ASSUME ScraperInv, ValuesInv, NEW g \in Goroutine, NEW f \in left[g], Emit(g, f)
  PROVE  ValuesInv' /\ \A h \in DOMAIN latest : latest'[h] >= latest[h]
<1> USE DEF ValuesInv, metricsVars, Emit, EmitFamily, goroutineRest
<1>1. /\ \A i \in Goroutine \ {g} : left'[i] = left[i]
      /\ left'[g] = left[g] \ {f} /\ answer' = answer
      /\ gathered' = gathered
  BY DEF ScraperInv, ScraperTypeOK
<1>2. ASSUME latest' = latest
      PROVE  ValuesInv' /\ \A h \in DOMAIN latest : latest'[h] >= latest[h]
  <2>1. ValuesTypeOK'
    BY <1>1, <1>2 DEF ValuesTypeOK, Asking
  <2>2. NewestIsSet' /\ NothingOlder'
    BY <1>1, <1>2 DEF NewestIsSet, NothingOlder, Asking
  <2> QED
    BY <1>2, <2>1, <2>2 DEF ValuesTypeOK
<1>3. ASSUME g \in Asking, answer[g][f] # 0, f.name \in DOMAIN latest
      PROVE  ValuesInv' /\ \A h \in DOMAIN latest : latest'[h] >= latest[h]
  <2>1. Live(g) /\ gathered[g] = <<>>
    BY Busy DEF ScraperInv, Stages
  <2>2. \A i \in Asking : i # g => left[i] = {} /\ DOMAIN gathered[i] = {}
    <3> SUFFICES ASSUME NEW i \in Asking, i # g PROVE left[i] = {} /\ gathered[i] = <<>>
      BY NoFamilies
    <3>1. i = <<i[1], i[2]>> /\ g = <<g[1], g[2]>> /\ i[2] = g[2]
      BY <1>3 DEF Asking, Goroutine
    <3>2. ~Live(i)
      BY <2>1, <3>1 DEF Live
    <3> QED
      BY <3>2 DEF ScraperInv, Alive, Stages, Asking
  <2>3. \A i \in Asking : DOMAIN gathered[i] = {}
    BY <2>1, <2>2, NoFamilies
  <2>4. \A i \in Asking : \A e \in left'[i] : e \in left[i] /\ i = g /\ e.name # f.name
    <3> SUFFICES ASSUME NEW i \in Asking, NEW e \in left'[i]
                 PROVE  e \in left[i] /\ i = g /\ e.name # f.name
      OBVIOUS
    <3>1. i = g /\ e \in left[g] /\ e # f
      BY <1>1, <2>2 DEF Asking
    <3> QED
      BY <1>3, <3>1 DEF ValuesTypeOK
  <2> DEFINE v == answer[g][f]
             n == f.name
  <2>5. /\ v \in 0 .. collections /\ collections \in Nat /\ latest[n] <= v
        /\ n \in DOMAIN gauges /\ gauges[n] # 0 => v <= gauges[n]
        /\ latest[n] \in 0 .. collections
    BY <1>3 DEF ValuesTypeOK, NothingOlder, NewestIsSet
  <2>6. /\ latest' \in [ToSet(Order) -> 0 .. collections]
        /\ \A h \in DOMAIN latest : latest'[h] = IF h = n THEN v ELSE latest[h]
        /\ DOMAIN latest' = DOMAIN latest
    BY <1>3, <2>5 DEF ValuesTypeOK, Asking
  <2> HIDE DEF v, n
  <2>7. ValuesTypeOK'
    BY <1>1, <2>3, <2>4, <2>6 DEF ValuesTypeOK, Asking
  <2>8. NewestIsSet'
    <3>1. Asking' = Asking
      BY DEF Asking
    <3> QED
      BY <1>1, <2>3, <2>4, <2>5, <2>6, <3>1 DEF NewestIsSet
  <2>9. NothingOlder'
    BY <1>1, <2>3, <2>4, <2>6 DEF NothingOlder, Asking, n
  <2>10. \A h \in DOMAIN latest : latest'[h] >= latest[h]
    BY <2>5, <2>6 DEF ValuesTypeOK
  <2> QED
    BY <2>7, <2>8, <2>9, <2>10
<1>4. CASE g \in Asking /\ answer[g][f] # 0 /\ f.name \in DOMAIN latest
  BY <1>3, <1>4
<1>5. CASE ~(g \in Asking /\ answer[g][f] # 0 /\ f.name \in DOMAIN latest)
  BY <1>2, <1>5 DEF Asking, ValuesTypeOK
<1> QED
  BY <1>4, <1>5

LEMMA ValuesInvariance ==
  ScraperInv /\ ValuesInv /\ [Next]_vars
    => ValuesInv' /\ [\A f \in DOMAIN latest : latest'[f] >= latest[f]]_latest
<1> SUFFICES ASSUME ScraperInv, ValuesInv, [Next]_vars
             PROVE  ValuesInv' /\ [\A f \in DOMAIN latest : latest'[f] >= latest[f]]_latest
  OBVIOUS
<1>1. CASE AgentStep
  BY <1>1, AgentKeepsValues DEF AgentStep
<1>2. CASE Loop \/ StopCalled \/ Stopped \/ UNCHANGED vars
  <2>1. UNCHANGED <<metricsVars, gathered, latest, left, answer>>
    BY <1>2 DEF Loop, StopCalled, Stopped, vars, history, TickArrives, Locked, BeginScrape,
                ProviderDies, ScrapeReturns, Stop, TakeDone, loopRest, scraperVars
  <2> QED
    BY <2>1, LoopKeepsValues
<1>3. CASE Again
  <2>1. UNCHANGED <<metricsVars, gathered, latest>>
    BY <1>3 DEF Again
  <2>2. \A g \in Goroutine :
          left'[g] = {} \/ (left'[g] = left[g] /\ answer'[g] = answer[g])
    BY <1>3 DEF Again, NextRound
  <2> QED
    BY <2>1, <2>2, LoopKeepsValues
<1>4. ASSUME NEW g \in Goroutine, GoroutineStep(g)
      PROVE  ValuesInv' /\ [\A f \in DOMAIN latest : latest'[f] >= latest[f]]_latest
  <2>1. CASE GatherOne(g)
    BY <2>1, GatherKeepsValues DEF GatherOne
  <2>2. CASE AgentAnswers(g)
    BY <2>2, AnswersKeepsValues DEF AgentAnswers
  <2>3. CASE OtherAnswers(g)
    BY <2>3, OtherAnswersKeepsValues DEF OtherAnswers, history
  <2>4. CASE Fails(g) \/ Report(g)
    BY <2>4, ReportKeepsValues DEF Fails, Report, history
  <2>5. CASE \E f \in left[g] : Emit(g, f)
    BY <2>5, EmitKeepsValues
  <2> QED
    BY <1>4, <2>1, <2>2, <2>3, <2>4, <2>5 DEF GoroutineStep
<1> QED
  BY <1>1, <1>2, <1>3, <1>4 DEF Next

LEMMA ChainInvariance == Spec => []ChainInv
<1>1. Init => ChainInv
  BY ScraperStarts, ValuesStart DEF ChainInv
<1>2. ChainInv /\ [Next]_vars => ChainInv'
  BY ScraperInvariance, ValuesInvariance DEF ChainInv
<1> QED
  BY <1>1, <1>2, PTL DEF Spec

(* No scrape emits a value of a gauge after a newer one has gone out. *)
THEOREM NothingGoesBack == Spec => EmittedInOrder
<1>1. ChainInv /\ [Next]_vars
        => [\A f \in DOMAIN latest : latest'[f] >= latest[f]]_latest
  BY ValuesInvariance DEF ChainInv
<1> QED
  BY <1>1, ChainInvariance, PTL DEF Spec, EmittedInOrder
=============================================================================
