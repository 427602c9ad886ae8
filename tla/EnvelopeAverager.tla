--------------------------- MODULE EnvelopeAverager ---------------------------
(***************************************************************************)
(* The average envelope size of pkg/plumbing/envelope_averager.go: one word *)
(* holds how many envelopes were sent (16 bits) and their bytes (48 bits),  *)
(* only ever added to by compare-and-swap; a ticker takes the differences   *)
(* to its previous reading.  Nothing is reset, both halves wrap.            *)
(***************************************************************************)
EXTENDS Integers

CONSTANTS
  CountMod,   \* 2^16 in the code
  TotalMod    \* 2^48 in the code

ASSUME AveragerAssumption ==
  /\ CountMod \in Nat \ {0}
  /\ TotalMod \in Nat \ {0}

VARIABLES
  storage,    \* the word
  prevCount, prevTotal,   \* the ticker's previous reading
  interval    \* history: the envelopes and bytes tracked since the last tick,
              \* and whether the bytes wrapped

averagerVars == <<storage, prevCount, prevTotal, interval>>

WordMod == CountMod * TotalMod

NewInterval == [count |-> 0, total |-> 0, wrapped |-> FALSE]

AveragerInit ==
  /\ storage = 0
  /\ prevCount = 0
  /\ prevTotal = 0
  /\ interval = NewInterval

decode(word) == [count |-> word \div TotalMod, total |-> word % TotalMod]

encodeDelta(word, count, size) ==
  LET now == decode(word)
  IN  ((now.count + count) % CountMod) * TotalMod + ((now.total + size) % TotalMod)

(* Track, as StatsHandler.HandleRPC calls it for each batch sent. *)
Track(count, size) ==
  /\ storage' = encodeDelta(storage, count, size)
  /\ interval' = [count |-> interval.count + count,
                  total |-> interval.total + size,
                  wrapped |-> interval.wrapped
                                \/ decode(storage).total + size >= TotalMod]
  /\ UNCHANGED <<prevCount, prevTotal>>

(* Faulty variant of DeltaCount: the difference of the counts as plain       *)
(* numbers.                                                                  *)
DeltaCountUnwrapped == decode(storage).count - prevCount

(* The difference of two uint16, *)
DeltaCount == (decode(storage).count - prevCount) % CountMod

(* and that of two totals, in 64 bits. *)
DeltaTotal == (decode(storage).total - prevTotal) % WordMod

(* What Start's loop reports at a tick, as a fraction: f(0) if nothing was   *)
(* tracked.                                                                  *)
Report == IF DeltaCount = 0 THEN [total |-> 0, count |-> 1]
                            ELSE [total |-> DeltaTotal, count |-> DeltaCount]

(* A tick: Report goes to the gauge, the reading becomes the previous one. *)
AveragerTick ==
  /\ prevCount' = decode(storage).count
  /\ prevTotal' = decode(storage).total
  /\ interval' = NewInterval
  /\ UNCHANGED storage

(* Whenever the next tick comes, the gauge will show the average size of     *)
(* exactly the envelopes sent since the one before ("the average envelope    *)
(* size of the past interval"), however the count wraps, unless they were    *)
(* CountMod or more or the bytes wrapped.                                    *)
AverageOfInterval ==
  interval.count < CountMod /\ ~interval.wrapped =>
    IF interval.count = 0
      THEN Report.total = 0
      ELSE Report.total * interval.count = interval.total * Report.count
=============================================================================
