---------------------------- MODULE CounterTotals ----------------------------
(***************************************************************************)
(* What the taggers and the counter aggregators do to one envelope          *)
(* (pkg/egress/v2/tagger.go, counter_aggregator.go, and their v1            *)
(* counterparts).  An envelope is a record with its counter's name (NoName   *)
(* for anything but a counter), delta and total, the one tag that matters    *)
(* (NoTag if absent) and that tag among the deprecated ones.                 *)
(*                                                                         *)
(* The totals of an aggregator are a function from the counters it knows.    *)
(***************************************************************************)
EXTENDS Integers, FiniteSets

CONSTANTS
  NoName, NoTag,
  MaxCounters   \* the v2 aggregator forgets all totals above it (10000)

ASSUME TotalsAssumption == MaxCounters \in Nat

NoTotals == [id \in {} |-> 0]

IsCounter(e) == e.name # NoName

moveDeprecatedTags(e) ==
  IF e.deprecated = NoTag THEN e ELSE [e EXCEPT !.tag = e.deprecated]

addDefaultTags(e, default) ==
  IF e.tag = NoTag THEN [e EXCEPT !.tag = default] ELSE e

TagEnvelope(e, default) == addDefaultTags(moveDeprecatedTags(e), default)

(* The hash of the tags tells any two sets of tags apart. *)
counterID(e) == <<e.name, e.tag>>

TotalOf(totals, id) == IF id \in DOMAIN totals THEN totals[id] ELSE 0

Remember(totals, id, total) ==
  [i \in DOMAIN totals \cup {id} |-> IF i = id THEN total ELSE totals[i]]

resetTotals(totals) ==
  IF Cardinality(DOMAIN totals) > MaxCounters THEN NoTotals ELSE totals

(* Faulty variant of NewTotal: a total that came with the envelope is added  *)
(* to, not adopted.                                                          *)
NewTotalAdds(totals, id, e) == TotalOf(totals, id) + e.delta + e.total

(* An envelope that brings a total sets the counter's, others add to it. *)
NewTotal(totals, id, e) ==
  IF e.total = 0 THEN TotalOf(totals, id) + e.delta ELSE e.total

(* CounterAggregator.Process: the envelope and the totals it leaves. *)
Process(totals, e, default) ==
  LET tagged == TagEnvelope(e, default)
      id     == counterID(tagged)
      kept   == resetTotals(totals)
      total  == NewTotal(kept, id, tagged)
  IN  IF IsCounter(e)
        THEN [env |-> [tagged EXCEPT !.total = total],
              totals |-> Remember(kept, id, total)]
        ELSE [env |-> tagged, totals |-> totals]

(* MessageAggregator.handleCounter of v1: before the tagger, and unbounded. *)
handleCounter(totals, e) ==
  LET total == NewTotal(totals, e.name, e)
  IN  IF IsCounter(e)
        THEN [env |-> [e EXCEPT !.total = total],
              totals |-> Remember(totals, e.name, total)]
        ELSE [env |-> e, totals |-> totals]
=============================================================================
