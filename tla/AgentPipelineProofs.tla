------------------------- MODULE AgentPipelineProofs -------------------------
(***************************************************************************)
(* What the agents promise of every envelope, proved for any envelopes, any *)
(* sizes of diodes and batches, any number of downstreams and any widths of *)
(* the averager's word.                                                     *)
(***************************************************************************)
EXTENDS AgentPipeline, SequenceTheorems, WellFoundedInduction, TLAPS

(* What the agents may hold. *)
Sent == Envelopes \cup {d.env : d \in Datagrams}

Name == {e.name : e \in Sent}

Tag == {e.tag : e \in Sent} \cup {e.deprecated : e \in Sent}
         \cup {NoTag, UDPTag, ForwarderTag, AgentTag}

Env == [n : Nat, name : Name, delta : Nat, total : Nat, tag : Tag, deprecated : Tag]

AreTotals(t) == \A i \in DOMAIN t : t[i] \in Nat

-----------------------------------------------------------------------------
(* A non-empty set of numbers has a least one. *)
LEMMA Least ==
  ASSUME NEW S \in SUBSET Nat, S # {}
  PROVE  \E m \in S : \A k \in S : ~(k < m)
<1>1. PICK m \in S : \A y \in S : ~(<<y, m>> \in OpToRel(<, Nat))
  BY NatLessThanWellFounded, WFMin, Zenon
<1>2. \A y \in S : y < m => <<y, m>> \in OpToRel(<, Nat)
  BY Zenon DEF OpToRel
<1> QED
  BY <1>1, <1>2

(* A property of the first k numbers that is false somewhere is false at a    *)
(* first place: the way to reason about a recursive function.                *)
LEMMA FirstFailure ==
  ASSUME NEW n \in Nat, NEW S \in SUBSET (0 .. n), S # {}
  PROVE  \E m \in S : m = 0 \/ (m - 1 \in 0 .. n /\ m - 1 \notin S)
<1>1. PICK m \in S : \A k \in S : ~(k < m)
  BY Least
<1>2. m \in 0 .. n /\ m - 1 < m
  OBVIOUS
<1> QED
  BY <1>1, <1>2

(* A lapped read skips whole laps and stays within the diode. *)
LEMMA ReadOfDiode ==
  ASSUME NEW S, NEW d \in Seq(S), ~IsEmpty(d), NEW size \in Nat \ {0}
  PROVE  /\ Missed(d, size) \in 0 .. Len(d) - 1
         /\ NextOf(d, size) = d[Missed(d, size) + 1]
         /\ NextOf(d, size) \in S
         /\ Rest(d, size) \in Seq(S)
         /\ Len(Rest(d, size)) = Len(d) - Missed(d, size) - 1
         /\ \A i \in 1 .. Len(Rest(d, size)) :
              Rest(d, size)[i] = d[Missed(d, size) + 1 + i]
<1> DEFINE n == Len(d) - 1
           q == n \div size
           k == Missed(d, size)
<1>1. n \in Nat /\ size \in Nat /\ size > 0
  BY DEF IsEmpty, Empty
<1>2. q \in Nat /\ n = (size * q) + (n % size) /\ (n % size) \in Nat
  BY <1>1
<1>3. q * size \in Nat /\ q * size = size * q
  BY <1>1, <1>2
<1> HIDE DEF q
<1>4. q * size <= n
  BY <1>1, <1>2, <1>3
<1>5. k \in 0 .. Len(d) - 1
  BY <1>1, <1>3, <1>4 DEF Missed, q
<1> HIDE DEF k
<1>6. d[k + 1] \in S
  BY <1>5
<1>7. /\ SubSeq(d, k + 2, Len(d)) \in Seq(S)
      /\ Len(SubSeq(d, k + 2, Len(d))) = Len(d) - k - 1
      /\ \A i \in 1 .. Len(d) - k - 1 : SubSeq(d, k + 2, Len(d))[i] = d[k + 1 + i]
  BY <1>5
<1> QED
  BY <1>5, <1>6, <1>7 DEF NextOf, Rest, k

-----------------------------------------------------------------------------
(* A tagger leaves everything but the tag alone and does nothing new to what *)
(* it has tagged.                                                            *)
LEMMA Tagged ==
  ASSUME NEW e \in Env, NEW d \in Tag
  PROVE  LET f == TagEnvelope(e, d)
         IN  /\ f \in Env
             /\ f = [e EXCEPT !.tag = f.tag]
             /\ TagEnvelope(f, d) = f
<1>1. e.tag \in Tag /\ e.deprecated \in Tag
  BY DEF Env
<1>2. moveDeprecatedTags(e) \in Env
  BY <1>1 DEF moveDeprecatedTags, Env
<1>3. TagEnvelope(e, d) \in Env
  BY <1>2 DEF TagEnvelope, addDefaultTags, Env
<1>4. PICK t \in Tag : TagEnvelope(e, d) = [e EXCEPT !.tag = t]
                       /\ (e.deprecated # NoTag => t = e.deprecated)
                       /\ (t = NoTag => d = NoTag)
  <2>1. CASE e.deprecated = NoTag /\ e.tag = NoTag
    BY <1>1, <2>1 DEF TagEnvelope, addDefaultTags, moveDeprecatedTags, Env
  <2>2. CASE e.deprecated = NoTag /\ e.tag # NoTag
    BY <1>1, <2>2 DEF TagEnvelope, addDefaultTags, moveDeprecatedTags, Env
  <2>3. CASE e.deprecated # NoTag
    BY <1>1, <2>3 DEF TagEnvelope, addDefaultTags, moveDeprecatedTags, Env
  <2> QED
    BY <2>1, <2>2, <2>3
<1> DEFINE f == [e EXCEPT !.tag = t]
<1>5. f.tag = t /\ f.deprecated = e.deprecated /\ f \in Env
  BY <1>3, <1>4 DEF Env
<1>6. [f EXCEPT !.tag = t] = f
  BY <1>5 DEF Env
<1>7. moveDeprecatedTags(f) = f
  BY <1>4, <1>5, <1>6 DEF moveDeprecatedTags
<1>8. addDefaultTags(f, d) = f
  BY <1>4, <1>5, <1>6 DEF addDefaultTags
<1>9. TagEnvelope(f, d) = f
  BY <1>7, <1>8 DEF TagEnvelope
<1> QED
  BY <1>3, <1>4, <1>5, <1>9

(* What an aggregator makes of an envelope. *)
LEMMA Processed ==
  ASSUME NEW e \in Env, NEW d \in Tag, NEW t, AreTotals(t)
  PROVE  LET r == Process(t, e, d)
         IN  /\ r.env \in Env
             /\ r.env.n = e.n /\ r.env.name = e.name /\ r.env.delta = e.delta
             /\ AreTotals(r.totals)
             /\ IsCounter(e) /\ e.total # 0 => r.env.total = e.total
             /\ IsCounter(e) /\ (e.delta # 0 \/ e.total # 0) => r.env.total # 0
<1> DEFINE f == TagEnvelope(e, d)
           id == counterID(f)
           kept == resetTotals(t)
           total == NewTotal(kept, id, f)
<1>1. f \in Env /\ f = [e EXCEPT !.tag = f.tag]
  BY Tagged
<1>2. /\ f.n = e.n /\ f.name = e.name /\ f.delta = e.delta /\ f.total = e.total
      /\ f.delta \in Nat /\ f.total \in Nat
  BY <1>1 DEF Env
<1> HIDE DEF f
<1>3. AreTotals(kept)
  BY DEF AreTotals, resetTotals, NoTotals
<1> HIDE DEF kept
<1>4. TotalOf(kept, id) \in Nat
  BY <1>3 DEF AreTotals, TotalOf
<1>5. total \in Nat
  BY <1>2, <1>4 DEF NewTotal
<1>6. f.total # 0 => total = f.total
  BY DEF NewTotal
<1>7. f.delta # 0 => total # 0
  BY <1>2, <1>4 DEF NewTotal
<1> HIDE DEF total
<1>8. CASE IsCounter(e)
  <2> DEFINE g == [f EXCEPT !.total = total]
  <2>1. Process(t, e, d) = [env |-> g, totals |-> Remember(kept, id, total)]
    BY <1>8 DEF Process, f, kept, total
  <2>2. AreTotals(Remember(kept, id, total))
    BY <1>3, <1>5 DEF AreTotals, Remember
  <2>3. g \in Env /\ g.n = f.n /\ g.name = f.name /\ g.delta = f.delta /\ g.total = total
    BY <1>1, <1>5 DEF Env
  <2> HIDE DEF g
  <2>4. /\ Process(t, e, d).env = g
        /\ Process(t, e, d).totals = Remember(kept, id, total)
    BY <2>1
  <2> QED
    BY <1>2, <1>6, <1>7, <2>2, <2>3, <2>4
<1>9. CASE ~IsCounter(e)
  <2>1. Process(t, e, d) = [env |-> f, totals |-> t]
    BY <1>9 DEF Process, f
  <2> QED
    BY <1>1, <1>2, <1>9, <2>1
<1> QED
  BY <1>8, <1>9

(* An aggregator that starts from the same totals does to a processed         *)
(* envelope what it did to the envelope.                                     *)
LEMMA ProcessedTwice ==
  ASSUME NEW e \in Env, NEW d \in Tag, NEW t, AreTotals(t)
  PROVE  Process(t, Process(t, e, d).env, d) = Process(t, e, d)
<1> DEFINE f == TagEnvelope(e, d)
           id == counterID(f)
           kept == resetTotals(t)
           total == NewTotal(kept, id, f)
           g == [f EXCEPT !.total = total]
<1>1. /\ f \in Env /\ f = [e EXCEPT !.tag = f.tag]
      /\ TagEnvelope(f, d) = f
  BY Tagged
<1>2. f.name = e.name /\ f.delta \in Nat /\ f.total \in Nat
  BY <1>1 DEF Env
<1> HIDE DEF f
<1>3. CASE ~IsCounter(e)
  <2>1. Process(t, e, d) = [env |-> f, totals |-> t]
    BY <1>3 DEF Process, f
  <2>2. Process(t, f, d) = [env |-> f, totals |-> t]
    BY <1>1, <1>2, <1>3 DEF Process, IsCounter
  <2> QED
    BY <2>1, <2>2
<1>4. CASE IsCounter(e)
  <2>1. Process(t, e, d) = [env |-> g, totals |-> Remember(kept, id, total)]
    BY <1>4 DEF Process, f
  <2>2. AreTotals(kept)
    BY DEF AreTotals, resetTotals, NoTotals
  <2>3. TotalOf(kept, id) \in Nat
    BY <2>2 DEF AreTotals, TotalOf
  <2>4. total \in Nat
    BY <1>2, <2>3 DEF NewTotal
  <2>5. total = 0 => TotalOf(kept, id) + f.delta = 0
    BY <1>2, <2>3 DEF NewTotal
  <2> HIDE DEF kept, total
  <2>6. /\ g \in Env /\ g.total = total
        /\ g.name = f.name /\ g.tag = f.tag /\ g.deprecated = f.deprecated
        /\ g.delta = f.delta
        /\ [g EXCEPT !.total = total] = g
    BY <1>1, <2>4 DEF Env
  <2>7. TagEnvelope(g, d) = g
    <3>1. f.tag # NoTag \/ d = NoTag
      <4>1. TagEnvelope(g, d) \in Env
        BY <2>6, Tagged
      <4>2. moveDeprecatedTags(f) \in Env
        BY <1>1 DEF moveDeprecatedTags, Env
      <4> QED
        BY <1>1, <4>2 DEF TagEnvelope, addDefaultTags, Env
    <3>2. f.deprecated # NoTag => f.deprecated = f.tag
      <4> SUFFICES ASSUME f.deprecated # NoTag PROVE f.deprecated = f.tag
        OBVIOUS
      <4>1. moveDeprecatedTags(f) = [f EXCEPT !.tag = f.deprecated]
        BY DEF moveDeprecatedTags
      <4>2. [f EXCEPT !.tag = f.deprecated].tag = f.deprecated
        BY <1>1 DEF Env
      <4>3. TagEnvelope(f, d) = [f EXCEPT !.tag = f.deprecated]
        BY <4>1, <4>2 DEF TagEnvelope, addDefaultTags
      <4> QED
        BY <1>1, <4>2, <4>3
    <3> HIDE DEF g
    <3>3. [g EXCEPT !.tag = g.tag] = g
      BY <2>6 DEF Env
    <3>4. moveDeprecatedTags(g) = g
      BY <2>6, <3>2, <3>3 DEF moveDeprecatedTags
    <3>5. addDefaultTags(g, d) = g
      BY <2>6, <3>1, <3>3 DEF addDefaultTags
    <3> QED
      BY <3>4, <3>5 DEF TagEnvelope
  <2> HIDE DEF g
  <2>8. counterID(g) = id /\ IsCounter(g)
    BY <1>2, <1>4, <2>6 DEF counterID, IsCounter
  <2>9. NewTotal(kept, id, g) = total
    BY <2>5, <2>6 DEF NewTotal
  <2>10. Process(t, g, d) = [env |-> g, totals |-> Remember(kept, id, total)]
    BY <2>6, <2>7, <2>8, <2>9 DEF Process, kept
  <2> QED
    BY <2>1, <2>10
<1> QED
  BY <1>3, <1>4

-----------------------------------------------------------------------------
(* The increments of the counter id in the first k entries of a ledger, as    *)
(* a recursive function.                                                     *)
IsSum(f, l, id, k) ==
  f = [i \in 0 .. k |->
         IF i = 0 THEN 0
                  ELSE f[i - 1] + (IF l[i].id = id THEN l[i].delta ELSE 0)]

(* It exists: a first k for which it did not would have a k before it, whose *)
(* function can be extended.                                                 *)
LEMMA SumsExist ==
  ASSUME NEW l, NEW id, NEW n \in Nat
  PROVE  \A k \in 0 .. n : \E f : IsSum(f, l, id, k)
<1> DEFINE S == {k \in 0 .. n : ~\E f : IsSum(f, l, id, k)}
<1> SUFFICES ASSUME S # {} PROVE FALSE
  OBVIOUS
<1>1. PICK k \in S : k = 0 \/ (k - 1 \in 0 .. n /\ k - 1 \notin S)
  BY FirstFailure
<1>2. CASE k = 0
  <2>1. IsSum([i \in 0 .. 0 |-> 0], l, id, 0)
    BY DEF IsSum
  <2> QED
    BY <1>2, <2>1
<1>3. CASE k - 1 \in 0 .. n /\ k - 1 \notin S
  <2>1. PICK f : IsSum(f, l, id, k - 1)
    BY <1>3
  <2>2. k \in 1 .. n
    BY <1>3
  <2> DEFINE d(i) == IF l[i].id = id THEN l[i].delta ELSE 0
             x == f[k - 1] + d(k)
             g == [i \in 0 .. k |-> IF i = k THEN x ELSE f[i]]
  <2>3. \A i \in 0 .. k - 1 : f[i] = IF i = 0 THEN 0 ELSE f[i - 1] + d(i)
    <3> DEFINE h == [i \in 0 .. k - 1 |-> IF i = 0 THEN 0 ELSE f[i - 1] + d(i)]
    <3>1. f = h
      BY <2>1 DEF IsSum
    <3>2. \A i \in 0 .. k - 1 : h[i] = IF i = 0 THEN 0 ELSE f[i - 1] + d(i)
      OBVIOUS
    <3> HIDE DEF h
    <3> QED
      BY <3>1, <3>2
  <2> HIDE DEF d
  <2>4. ASSUME NEW i \in 0 .. k
        PROVE  g[i] = IF i = 0 THEN 0 ELSE g[i - 1] + d(i)
    <3>1. CASE i = k
      <4>1. g[i] = x /\ g[i - 1] = f[i - 1] /\ i # 0
        BY <2>2, <3>1
      <4> QED
        BY <3>1, <4>1
    <3>2. CASE i # k
      <4>1. i \in 0 .. k - 1 /\ g[i] = f[i] /\ (i # 0 => g[i - 1] = f[i - 1])
        BY <2>2, <3>2
      <4> HIDE DEF g
      <4> QED
        BY <2>3, <4>1
    <3> QED
      BY <3>1, <3>2
  <2>5. g = [i \in 0 .. k |-> g[i]]
    OBVIOUS
  <2> HIDE DEF g
  <2>6. IsSum(g, l, id, k)
    BY <2>4, <2>5 DEF IsSum, d
  <2> QED
    BY <2>6
<1> QED
  BY <1>1, <1>2, <1>3

(* What its values are. *)
AddsUp(f, l, id, k) ==
  /\ f[0] = 0
  /\ \A i \in 1 .. k : f[i] = f[i - 1] + (IF l[i].id = id THEN l[i].delta ELSE 0)
  /\ \A i \in 0 .. k : f[i] \in Nat

LEMMA SumValues ==
  ASSUME NEW l, NEW id, NEW k \in Nat, NEW f, IsSum(f, l, id, k),
         \A i \in 1 .. k : l[i].delta \in Nat
  PROVE  AddsUp(f, l, id, k)
<1> DEFINE d(i) == IF l[i].id = id THEN l[i].delta ELSE 0
           h == [i \in 0 .. k |-> IF i = 0 THEN 0 ELSE f[i - 1] + d(i)]
<1>1. f = h
  BY DEF IsSum
<1>2. \A i \in 0 .. k : h[i] = IF i = 0 THEN 0 ELSE f[i - 1] + d(i)
  OBVIOUS
<1>3. \A i \in 1 .. k : d(i) \in Nat
  OBVIOUS
<1> HIDE DEF h, d
<1>4. \A i \in 0 .. k : f[i] = IF i = 0 THEN 0 ELSE f[i - 1] + d(i)
  BY <1>1, <1>2
<1>5. \A i \in 0 .. k : f[i] \in Nat
  <2> DEFINE S == {i \in 0 .. k : f[i] \notin Nat}
  <2> SUFFICES ASSUME S # {} PROVE FALSE
    OBVIOUS
  <2>1. PICK m \in S : m = 0 \/ (m - 1 \in 0 .. k /\ m - 1 \notin S)
    BY FirstFailure
  <2>2. m # 0 => m \in 1 .. k /\ f[m - 1] \in Nat
    BY <2>1
  <2>3. f[m] = IF m = 0 THEN 0 ELSE f[m - 1] + d(m)
    BY <1>4
  <2>4. f[m] \in Nat
    BY <1>3, <2>2, <2>3
  <2> QED
    BY <2>4
<1>6. \A i \in 1 .. k : f[i] = f[i - 1] + d(i)
  BY <1>4
<1> QED
  BY <1>4, <1>5, <1>6 DEF d, AddsUp

LEMMA IncrementsAreSums ==
  ASSUME NEW l, NEW id, Len(l) \in Nat
  PROVE  IsSum(Increments(l, id), l, id, Len(l))
<1> DEFINE Sum(f) == f = [k \in 0 .. Len(l) |->
                        IF k = 0 THEN 0
                                 ELSE f[k - 1] + (IF l[k].id = id THEN l[k].delta ELSE 0)]
<1>1. \E f : Sum(f)
  <2>1. PICK n \in Nat : n = Len(l)
    OBVIOUS
  <2>2. n \in 0 .. n
    OBVIOUS
  <2>3. \E f : IsSum(f, l, id, n)
    BY <2>2, SumsExist
  <2> QED
    BY <2>1, <2>3, Zenon DEF IsSum
<1>2. Increments(l, id) = CHOOSE f : Sum(f)
  BY Zenon DEF Increments
<1>3. Sum(Increments(l, id))
  <2> HIDE DEF Sum
  <2> QED
    BY <1>1, <1>2, Zenon
<1> QED
  BY <1>3 DEF IsSum

(* A ledger's sums do not depend on later entries. *)
LEMMA SumsAgree ==
  ASSUME NEW l, NEW l2, NEW id, Len(l) \in Nat, Len(l2) \in Nat, Len(l) <= Len(l2),
         \A i \in 1 .. Len(l2) : l2[i].delta \in Nat,
         \A i \in 1 .. Len(l) : l2[i] = l[i]
  PROVE  \A i \in 0 .. Len(l) : Increments(l2, id)[i] = Increments(l, id)[i]
<1>0. /\ \E k \in Nat : k = Len(l)
      /\ \E k2 \in Nat : k2 = Len(l2)
      /\ \E f : f = Increments(l, id)
      /\ \E g : g = Increments(l2, id)
  OBVIOUS
<1> PICK k \in Nat : k = Len(l)
  BY <1>0
<1> PICK k2 \in Nat : k2 = Len(l2)
  BY <1>0
<1> PICK f : f = Increments(l, id)
  BY <1>0
<1> PICK g : g = Increments(l2, id)
  BY <1>0
<1>a. k <= k2
  OBVIOUS
<1>b. IsSum(f, l, id, k) /\ IsSum(g, l2, id, k2)
  BY IncrementsAreSums
<1>c. /\ \A i \in 1 .. k2 : l2[i].delta \in Nat
      /\ \A i \in 1 .. k : l2[i] = l[i]
  OBVIOUS
<1> DEFINE S == {i \in 0 .. k : g[i] # f[i]}
<1>d. SUFFICES ASSUME S # {} PROVE FALSE
  BY Zenon
<1>1. PICK m \in S : m = 0 \/ (m - 1 \in 0 .. k /\ m - 1 \notin S)
  BY FirstFailure, <1>d
<1>2. /\ f[0] = 0
      /\ \A i \in 1 .. k : f[i] = f[i - 1] + (IF l[i].id = id THEN l[i].delta ELSE 0)
  <2>1. \A i \in 1 .. k : l[i].delta \in Nat
    BY <1>a, <1>c
  <2>2. AddsUp(f, l, id, k)
    BY ONLY <1>b, <2>1, k \in Nat, SumValues
  <2> QED
    BY ONLY <2>2 DEF AddsUp
<1>3. /\ g[0] = 0
      /\ \A i \in 1 .. k2 : g[i] = g[i - 1] + (IF l2[i].id = id THEN l2[i].delta ELSE 0)
  <2>1. AddsUp(g, l2, id, k2)
    BY ONLY <1>b, <1>c, k2 \in Nat, SumValues
  <2> QED
    BY ONLY <2>1 DEF AddsUp
<1>4. CASE m = 0
  BY <1>2, <1>3, <1>4
<1>5. CASE m # 0
  <2>1. m \in 1 .. k /\ m \in 1 .. k2 /\ g[m - 1] = f[m - 1] /\ l2[m] = l[m]
    BY <1>1, <1>5, <1>a, <1>c
  <2> QED
    BY <1>2, <1>3, <2>1
<1> QED
  BY <1>4, <1>5

-----------------------------------------------------------------------------
LEMMA MaxOf ==
  ASSUME NEW n \in Nat, NEW S \in SUBSET (0 .. n), S # {}
  PROVE  Max(S) \in S /\ \A x \in S : x <= Max(S)
<1> DEFINE T == {n - x : x \in S}
<1>0. \A x \in S : x \in Nat /\ n - x \in Nat
  <2>1. \A x \in S : x \in 0 .. n
    OBVIOUS
  <2> QED
    BY <2>1
<1>1. T \in SUBSET Nat /\ T # {}
  BY <1>0
<1>2. PICK m \in T : \A k \in T : ~(k < m)
  BY <1>1, Least
<1>3. PICK y \in S : m = n - y
  OBVIOUS
<1>4. \A x \in S : y >= x
  <2> SUFFICES ASSUME NEW x \in S PROVE y >= x
    OBVIOUS
  <2>1. ~(n - x < n - y)
    BY <1>2, <1>3
  <2>2. x \in Nat /\ y \in Nat
    BY <1>0
  <2> QED
    BY <2>1, <2>2
<1>5. Max(S) \in S /\ \A x \in S : Max(S) >= x
  BY <1>4 DEF Max
<1> QED
  BY <1>5

(* The same greatest element from another set. *)
LEMMA MaxIs ==
  ASSUME NEW n \in Nat, NEW S \in SUBSET (0 .. n), NEW m \in S,
         \A x \in S : x <= m
  PROVE  Max(S) = m
<1>1. Max(S) \in S /\ \A x \in S : x <= Max(S)
  BY MaxOf
<1>2. \A x \in S : x \in Nat
  <2>1. \A x \in S : x \in 0 .. n
    OBVIOUS
  <2> QED
    BY <2>1
<1>3. m <= Max(S) /\ Max(S) <= m
  BY <1>1
<1>4. Max(S) \in Nat /\ m \in Nat
  BY <1>1, <1>2, Zenon
<1> QED
  BY <1>3, <1>4

Resets(l, i) == {0} \cup {k - 1 : k \in {j \in 1 .. i : l[j].reset}}

Lost(l, i) == Max(Resets(l, i))

Given(l, id, i) == {k \in Lost(l, i) + 1 .. i : l[k].id = id /\ l[k].total # 0}

Base(l, id, i) == Max({Lost(l, i)} \cup Given(l, id, i))

LEMMA ExpectedIs ==
  ASSUME NEW l, NEW id, NEW i
  PROVE  ExpectedTotal(l, id, i) =
           Increments(l, id)[i] - Increments(l, id)[Base(l, id, i)]
             + (IF Given(l, id, i) = {} THEN 0 ELSE l[Base(l, id, i)].total)
BY DEF ExpectedTotal, Base, Given, Lost, Resets

LEMMA BaseBounds ==
  ASSUME NEW l, NEW id, NEW i \in Nat
  PROVE  /\ Resets(l, i) \in SUBSET (0 .. i)
         /\ Lost(l, i) \in 0 .. i
         /\ Given(l, id, i) \in SUBSET (1 .. i)
         /\ Base(l, id, i) \in 0 .. i
         /\ Given(l, id, i) = {} => Base(l, id, i) = Lost(l, i)
         /\ Given(l, id, i) # {} => Base(l, id, i) \in Given(l, id, i)
<1>1. Resets(l, i) \in SUBSET (0 .. i) /\ Resets(l, i) # {}
  BY DEF Resets
<1>2. Lost(l, i) \in 0 .. i
  BY <1>1, MaxOf DEF Lost
<1>3. Given(l, id, i) \in SUBSET (1 .. i)
  BY <1>2 DEF Given
<1> DEFINE lost == Lost(l, i)
           given == Given(l, id, i)
<1>4. \A g \in given : lost < g
  BY <1>2 DEF Given
<1> HIDE DEF lost, given
<1>5. Base(l, id, i) = Max({lost} \cup given)
  BY DEF Base, lost, given
<1>6. {lost} \cup given \in SUBSET (0 .. i)
  BY <1>2, <1>3 DEF lost, given
<1>7. /\ Base(l, id, i) \in {lost} \cup given
      /\ \A x \in {lost} \cup given : x <= Base(l, id, i)
  BY <1>5, <1>6, MaxOf
<1>8. ASSUME NEW g \in given PROVE Base(l, id, i) \in given
  <2>1. g <= Base(l, id, i) /\ lost < g /\ g \in Nat /\ lost \in Nat
    BY <1>4, <1>6, <1>7
  <2> QED
    BY <1>7, <2>1
<1> QED
  BY <1>1, <1>2, <1>3, <1>6, <1>7, <1>8 DEF lost, given

(* l2 is the ledger l with one entry more. *)
Extends(l, l2) ==
  /\ Len(l) \in Nat
  /\ Len(l2) = Len(l) + 1
  /\ \A i \in 1 .. Len(l) : l2[i] = l[i]
  /\ \A i \in 1 .. Len(l) + 1 : l2[i].delta \in Nat /\ l2[i].total \in Nat

(* An entry adds its delta, *)
LEMMA SumsOfLonger ==
  ASSUME NEW l, NEW l2, Extends(l, l2), NEW n \in Nat, n = Len(l), NEW id
  PROVE  /\ \A i \in 0 .. n : /\ Increments(l2, id)[i] = Increments(l, id)[i]
                              /\ Increments(l, id)[i] \in Nat
         /\ Increments(l2, id)[n + 1] =
              Increments(l, id)[n] + (IF l2[n + 1].id = id THEN l2[n + 1].delta ELSE 0)
<1>1. PICK f : f = Increments(l, id)
  OBVIOUS
<1>2. PICK g : g = Increments(l2, id)
  OBVIOUS
<1>3. IsSum(f, l, id, n)
  BY <1>1, IncrementsAreSums
<1>4. PICK k2 \in Nat : k2 = n + 1 /\ Len(l2) = k2
  BY DEF Extends
<1>5. IsSum(g, l2, id, k2)
  BY <1>2, <1>4, IncrementsAreSums
<1>6. \A i \in 1 .. k2 : l2[i].delta \in Nat
  BY <1>4 DEF Extends
<1>7. \A i \in 1 .. n : l2[i] = l[i]
  BY DEF Extends
<1>8. \A i \in 0 .. n : g[i] = f[i]
  <2>1. n <= k2 /\ Len(l) \in Nat /\ Len(l2) \in Nat /\ Len(l) <= Len(l2)
    BY <1>4
  <2>2. \A i \in 0 .. Len(l) : Increments(l2, id)[i] = Increments(l, id)[i]
    BY <1>4, <1>6, <1>7, <2>1, SumsAgree
  <2> QED
    BY <1>1, <1>2, <2>2
<1>9. /\ \A i \in 1 .. k2 :
           g[i] = g[i - 1] + (IF l2[i].id = id THEN l2[i].delta ELSE 0)
      /\ \A i \in 0 .. k2 : g[i] \in Nat
  <2>1. AddsUp(g, l2, id, k2)
    BY ONLY <1>5, <1>6, k2 \in Nat, SumValues
  <2> QED
    BY ONLY <2>1 DEF AddsUp
<1>10. g[n + 1] = g[n] + (IF l2[n + 1].id = id THEN l2[n + 1].delta ELSE 0)
  BY ONLY <1>4, <1>9, n \in Nat
<1>11. \A i \in 0 .. n : g[i] \in Nat
  BY ONLY <1>4, <1>9, n \in Nat
<1> QED
  BY ONLY <1>1, <1>2, <1>8, <1>10, <1>11, n \in Nat

(* changes no total that was expected before it, *)
LEMMA ExpectedBefore ==
  ASSUME NEW l, NEW l2, Extends(l, l2), NEW n \in Nat, n = Len(l), NEW id,
         NEW i \in 0 .. n
  PROVE  ExpectedTotal(l2, id, i) = ExpectedTotal(l, id, i)
<1>1. \A j \in 1 .. i : l2[j] = l[j]
  BY DEF Extends
<1>2. Resets(l2, i) = Resets(l, i)
  BY <1>1 DEF Resets
<1>3. Lost(l2, i) = Lost(l, i) /\ Lost(l, i) \in Nat
  <2>1. i \in Nat
    OBVIOUS
  <2>2. Lost(l, i) \in 0 .. i
    BY <2>1, BaseBounds
  <2> QED
    BY <1>2, <2>2 DEF Lost
<1>4. Given(l2, id, i) = Given(l, id, i)
  BY <1>1, <1>3 DEF Given
<1>5. Base(l2, id, i) = Base(l, id, i)
  BY <1>3, <1>4 DEF Base
<1>6. PICK b \in 0 .. i : b = Base(l, id, i)
  BY BaseBounds
<1>7. Given(l, id, i) # {} => l2[b] = l[b]
  <2>1. Given(l, id, i) # {} => b \in 1 .. i
    BY <1>6, BaseBounds
  <2> QED
    BY <1>1, <2>1
<1>8. /\ Increments(l2, id)[i] = Increments(l, id)[i]
      /\ Increments(l2, id)[b] = Increments(l, id)[b]
  BY <1>6, SumsOfLonger
<1> QED
  BY <1>4, <1>5, <1>6, <1>7, <1>8, ExpectedIs, Zenon

(* starts again when it comes with a reset, *)
LEMMA ExpectedAfterReset ==
  ASSUME NEW l, NEW l2, Extends(l, l2), NEW n \in Nat, n = Len(l), NEW id,
         l2[n + 1].reset
  PROVE  ExpectedTotal(l2, id, n + 1) =
           IF l2[n + 1].id # id THEN 0
           ELSE IF l2[n + 1].total = 0 THEN l2[n + 1].delta ELSE l2[n + 1].total
<1>1. PICK x : x = l2[n + 1]
  OBVIOUS
<1>2. x.delta \in Nat /\ x.total \in Nat
  BY <1>1 DEF Extends
<1>3. Lost(l2, n + 1) = n
  <2>1. n \in Resets(l2, n + 1)
    BY DEF Resets
  <2>2. \A y \in Resets(l2, n + 1) : y <= n
    BY DEF Resets
  <2>3. PICK k \in Nat : k = n + 1
    OBVIOUS
  <2>4. PICK R : R = Resets(l2, k)
    OBVIOUS
  <2>5. R \in SUBSET (0 .. k)
    BY <2>4, BaseBounds
  <2>6. n \in R /\ \A y \in R : y <= n
    BY <2>1, <2>2, <2>3, <2>4
  <2>7. Max(R) = n
    BY ONLY <2>5, <2>6, k \in Nat, MaxIs
  <2> QED
    BY <2>3, <2>4, <2>7 DEF Lost
<1>4. Given(l2, id, n + 1) = IF x.id = id /\ x.total # 0 THEN {n + 1} ELSE {}
  BY <1>1, <1>3 DEF Given
<1>5. \E f : f = Increments(l2, id) /\ f[n] \in Nat
             /\ f[n + 1] = f[n] + (IF x.id = id THEN x.delta ELSE 0)
  <2>1. n \in 0 .. n
    OBVIOUS
  <2> QED
    BY <1>1, <2>1, SumsOfLonger
<1>6. PICK f : f = Increments(l2, id) /\ f[n] \in Nat
             /\ f[n + 1] = f[n] + (IF x.id = id THEN x.delta ELSE 0)
  BY <1>5
<1>7. PICK b : b = Base(l2, id, n + 1)
  OBVIOUS
<1>8. ExpectedTotal(l2, id, n + 1) =
        f[n + 1] - f[b] + (IF Given(l2, id, n + 1) = {} THEN 0 ELSE l2[b].total)
  BY <1>6, <1>7, ExpectedIs, Zenon
<1>9. CASE x.id = id /\ x.total # 0
  <2>1. b = n + 1
    BY <1>4, <1>7, <1>9, BaseBounds
  <2>2. ExpectedTotal(l2, id, n + 1) = f[n + 1] - f[n + 1] + x.total
    BY <1>1, <1>4, <1>8, <1>9, <2>1
  <2>3. f[n + 1] \in Nat
    BY <1>2, <1>6
  <2> QED
    BY <1>1, <1>2, <1>9, <2>2, <2>3
<1>10. CASE ~(x.id = id /\ x.total # 0)
  <2>1. b = n
    BY <1>3, <1>4, <1>7, <1>10, BaseBounds
  <2>2. ExpectedTotal(l2, id, n + 1) = f[n + 1] - f[n] + 0
    BY <1>4, <1>8, <1>10, <2>1
  <2>3. f[n + 1] - f[n] + 0 = (IF x.id = id THEN x.delta ELSE 0)
    BY <1>2, <1>6
  <2> QED
    BY <1>1, <1>10, <2>2, <2>3
<1> QED
  BY <1>9, <1>10

(* and otherwise adds its delta or gives its counter's total. *)
LEMMA ExpectedAfter ==
  ASSUME NEW l, NEW l2, Extends(l, l2), NEW n \in Nat, n = Len(l), NEW id,
         ~l2[n + 1].reset
  PROVE  ExpectedTotal(l2, id, n + 1) =
           IF l2[n + 1].id # id THEN ExpectedTotal(l, id, n)
           ELSE IF l2[n + 1].total = 0
                  THEN ExpectedTotal(l, id, n) + l2[n + 1].delta
                  ELSE l2[n + 1].total
<1>1. PICK x : x = l2[n + 1]
  OBVIOUS
<1>2. x.delta \in Nat /\ x.total \in Nat
  BY <1>1 DEF Extends
<1>3. \A j \in 1 .. n : l2[j] = l[j]
  BY DEF Extends
<1>4. Lost(l2, n + 1) = Lost(l, n) /\ Lost(l, n) \in 0 .. n
  <2>1. {j \in 1 .. n + 1 : l2[j].reset} = {j \in 1 .. n : l[j].reset}
    BY <1>3
  <2>2. Resets(l2, n + 1) = Resets(l, n)
    BY <2>1, Zenon DEF Resets
  <2> QED
    BY <2>2, BaseBounds DEF Lost
<1>5. Given(l2, id, n + 1) =
        Given(l, id, n) \cup (IF x.id = id /\ x.total # 0 THEN {n + 1} ELSE {})
  BY <1>1, <1>3, <1>4 DEF Given
<1>6. PICK f : f = Increments(l2, id)
               /\ (\A i \in 0 .. n : f[i] \in Nat /\ Increments(l, id)[i] = f[i])
               /\ f[n + 1] = f[n] + (IF x.id = id THEN x.delta ELSE 0)
  BY <1>1, SumsOfLonger
<1>7. PICK b : b = Base(l2, id, n + 1)
  OBVIOUS
<1>8. ExpectedTotal(l2, id, n + 1) =
        f[n + 1] - f[b] + (IF Given(l2, id, n + 1) = {} THEN 0 ELSE l2[b].total)
  BY <1>6, <1>7, ExpectedIs, Zenon
<1>9. CASE x.id = id /\ x.total # 0
  <2>1. b = n + 1
    <3>1. PICK k \in Nat : k = n + 1
      OBVIOUS
    <3>2. PICK G : G = {Lost(l2, k)} \cup Given(l2, id, k)
      OBVIOUS
    <3>3. Lost(l2, k) \in 0 .. k /\ Given(l2, id, k) \in SUBSET (1 .. k)
      BY BaseBounds
    <3>4. G \in SUBSET (0 .. k)
      BY <3>2, <3>3
    <3>5. k \in G
      BY <1>5, <1>9, <3>1, <3>2
    <3>6. \A y \in G : y <= k
      BY <3>4
    <3>7. Max(G) = k
      BY ONLY <3>4, <3>5, <3>6, k \in Nat, MaxIs
    <3> QED
      BY <1>7, <3>1, <3>2, <3>7 DEF Base
  <2>2. ExpectedTotal(l2, id, n + 1) = f[n + 1] - f[n + 1] + x.total
    BY <1>1, <1>5, <1>8, <1>9, <2>1
  <2>3. f[n + 1] \in Nat
    BY <1>2, <1>6
  <2> QED
    BY <1>1, <1>2, <1>9, <2>2, <2>3
<1>10. CASE ~(x.id = id /\ x.total # 0)
  <2>1. Given(l2, id, n + 1) = Given(l, id, n)
    BY <1>5, <1>10
  <2>2. b = Base(l, id, n) /\ b \in 0 .. n
    BY <1>4, <1>7, <2>1, BaseBounds DEF Base
  <2>3. Given(l, id, n) # {} => l2[b] = l[b] /\ l2[b].total \in Nat
    <3>1. Given(l, id, n) # {} => b \in 1 .. n
      BY <2>2, BaseBounds
    <3> QED
      BY <1>3, <3>1 DEF Extends
  <2>4. PICK t : t = (IF Given(l, id, n) = {} THEN 0 ELSE l2[b].total) /\ t \in Nat
    BY <2>3
  <2>5. ExpectedTotal(l, id, n) =
          f[n] - f[b] + (IF Given(l, id, n) = {} THEN 0 ELSE l[b].total)
    <3>1. Increments(l, id)[n] = f[n] /\ Increments(l, id)[b] = f[b]
      BY <1>6, <2>2
    <3> QED
      BY <2>2, <3>1, ExpectedIs, Zenon
  <2>6. ExpectedTotal(l, id, n) = f[n] - f[b] + t
    BY <2>3, <2>4, <2>5, Zenon
  <2>7. ExpectedTotal(l2, id, n + 1) = f[n + 1] - f[b] + t
    BY <1>8, <2>1, <2>4, Zenon
  <2>8. f[n] \in Nat /\ f[b] \in Nat
    BY <1>6, <2>2
  <2>9. ExpectedTotal(l2, id, n + 1) =
          ExpectedTotal(l, id, n) + (IF x.id = id THEN x.delta ELSE 0)
    <3>1. PICK d : d = (IF x.id = id THEN x.delta ELSE 0) /\ d \in Nat
      BY <1>2
    <3>2. f[n + 1] = f[n] + d
      BY <1>6, <3>1
    <3>3. ExpectedTotal(l2, id, n + 1) = ((f[n] + d) - f[b]) + t
      BY ONLY <2>7, <3>2
    <3>4. ExpectedTotal(l2, id, n + 1) = ExpectedTotal(l, id, n) + d
      BY ONLY <2>4, <2>6, <2>8, <3>1, <3>3
    <3> QED
      BY ONLY <3>1, <3>4
  <2>10. ExpectedTotal(l, id, n) \in Int
    BY <2>4, <2>6, <2>8
  <2> QED
    BY <1>1, <1>10, <2>9, <2>10
<1> QED
  BY <1>9, <1>10

-----------------------------------------------------------------------------
(* Arithmetic of words that wrap: quotient and remainder are unique, *)
LEMMA DivModIs ==
  ASSUME NEW n \in Nat \ {0}, NEW q \in Int, NEW r \in 0 .. n - 1
  PROVE  (q * n + r) % n = r /\ (q * n + r) \div n = q
<1> DEFINE x == q * n + r
<1>1. q * n \in Int /\ x \in Int /\ n \in Nat /\ n > 0 /\ r \in Nat /\ r < n
  OBVIOUS
<1>2. PICK p \in Int : p = x \div n
  BY <1>1
<1>3. PICK s \in Int : s = x % n
  BY <1>1
<1> HIDE DEF x
<1>4. x = n * p + s /\ 0 <= s /\ s < n
  BY <1>1, <1>2, <1>3
<1>5. (q - p) * n = s - r
  BY <1>1, <1>4 DEF x
<1>6. CASE q - p >= 1
  <2>1. (q - p) * n >= n
    BY <1>1, <1>6
  <2> QED
    BY <1>1, <1>4, <1>5, <2>1
<1>7. CASE q - p <= -1
  <2>1. (q - p) * n <= -n
    BY <1>1, <1>7
  <2> QED
    BY <1>1, <1>4, <1>5, <2>1
<1>8. CASE q = p
  <2>1. (q - p) * n = 0
    BY <1>1, <1>8
  <2> QED
    BY <1>1, <1>2, <1>3, <1>5, <1>8, <2>1 DEF x
<1> QED
  BY <1>6, <1>7, <1>8

LEMMA SmallMod ==
  ASSUME NEW n \in Nat \ {0}, NEW r \in 0 .. n - 1
  PROVE  r % n = r /\ (r - n) % n = r
<1>1. 0 * n + r = r /\ (-1) * n + r = r - n
  OBVIOUS
<1>2. (0 * n + r) % n = r
  BY DivModIs
<1>3. ((-1) * n + r) % n = r
  BY DivModIs
<1> QED
  BY <1>1, <1>2, <1>3

(* a wrapped number may be added to, *)
LEMMA AddAfterMod ==
  ASSUME NEW n \in Nat \ {0}, NEW a \in Nat, NEW b \in Nat
  PROVE  ((a % n) + b) % n = (a + b) % n
<1>1. PICK q \in Int : q = a \div n
  OBVIOUS
<1>2. PICK r \in 0 .. n - 1 : r = a % n
  OBVIOUS
<1>3. a = n * q + r
  BY <1>1, <1>2
<1>4. PICK p \in Int : p = (r + b) \div n
  OBVIOUS
<1>5. PICK s \in 0 .. n - 1 : s = (r + b) % n
  OBVIOUS
<1>6. r + b = n * p + s
  BY <1>4, <1>5
<1>7. (q + p) * n + s = a + b
  BY <1>3, <1>6
<1>8. ((q + p) * n + s) % n = s
  BY DivModIs
<1> QED
  BY <1>2, <1>5, <1>7, <1>8

(* and the difference to an earlier one is what was added, if less than n. *)
LEMMA DifferenceOfMods ==
  ASSUME NEW n \in Nat \ {0}, NEW p \in 0 .. n - 1, NEW i \in 0 .. n - 1
  PROVE  (((p + i) % n) - p) % n = i
<1>1. CASE p + i < n
  <2>1. (p + i) % n = p + i
    BY <1>1, SmallMod
  <2>2. i % n = i
    BY SmallMod
  <2>3. p + i - p = i
    OBVIOUS
  <2> QED
    BY <2>1, <2>2, <2>3
<1>2. CASE p + i >= n
  <2>1. PICK j \in 0 .. n - 1 : j = p + i - n
    BY <1>2
  <2>2. (1 * n + j) % n = j
    BY DivModIs
  <2>3. 1 * n + j = p + i
    BY <2>1
  <2>4. (i - n) % n = i
    BY SmallMod
  <2>5. j - p = i - n
    BY <2>1
  <2> QED
    BY <2>2, <2>3, <2>4, <2>5
<1> QED
  BY <1>1, <1>2

-----------------------------------------------------------------------------
(* The averager: what the word and the previous reading say together of the  *)
(* interval.                                                                 *)
AveragerInv ==
  LET now == decode(storage)
  IN  /\ now.count \in 0 .. CountMod - 1
      /\ now.total \in 0 .. TotalMod - 1
      /\ prevCount \in 0 .. CountMod - 1
      /\ prevTotal \in 0 .. TotalMod - 1
      /\ interval \in [count : Nat, total : Nat, wrapped : BOOLEAN]
      /\ now.count = (prevCount + interval.count) % CountMod
      /\ ~interval.wrapped => now.total = prevTotal + interval.total

LEMMA Encoded ==
  ASSUME NEW c \in 0 .. CountMod - 1, NEW t \in 0 .. TotalMod - 1
  PROVE  decode(c * TotalMod + t) = [count |-> c, total |-> t]
<1>1. TotalMod \in Nat \ {0} /\ c \in Int
  BY AveragerAssumption
<1>2. (c * TotalMod + t) % TotalMod = t /\ (c * TotalMod + t) \div TotalMod = c
  BY <1>1, DivModIs
<1> QED
  BY <1>2, Zenon DEF decode

LEMMA AveragerStarts == AveragerInit => AveragerInv
<1> SUFFICES ASSUME AveragerInit PROVE AveragerInv
  OBVIOUS
<1>1. 0 \in 0 .. CountMod - 1 /\ 0 \in 0 .. TotalMod - 1 /\ TotalMod \in Nat
  BY AveragerAssumption
<1>2. 0 * TotalMod + 0 = 0
  BY <1>1
<1>3. decode(0) = [count |-> 0, total |-> 0]
  BY <1>1, <1>2, Encoded
<1>4. (0 + 0) % CountMod = 0
  BY <1>1, AveragerAssumption, SmallMod
<1>5. interval = [count |-> 0, total |-> 0, wrapped |-> FALSE]
  BY DEF AveragerInit, NewInterval
<1> QED
  BY <1>1, <1>3, <1>4, <1>5 DEF AveragerInit, AveragerInv

LEMMA TrackKeeps ==
  ASSUME AveragerInv, NEW count \in Nat, NEW size \in Nat, Track(count, size)
  PROVE  AveragerInv'
<1>1. PICK now : now = decode(storage)
  OBVIOUS
<1>2. PICK i : i = interval
  OBVIOUS
<1>3. /\ now.count \in 0 .. CountMod - 1
      /\ now.total \in 0 .. TotalMod - 1
      /\ prevCount \in 0 .. CountMod - 1
      /\ prevTotal \in 0 .. TotalMod - 1
      /\ i.count \in Nat /\ i.total \in Nat /\ i.wrapped \in BOOLEAN
      /\ now.count = (prevCount + i.count) % CountMod
      /\ ~i.wrapped => now.total = prevTotal + i.total
  BY <1>1, <1>2 DEF AveragerInv
<1>4. CountMod \in Nat \ {0} /\ TotalMod \in Nat \ {0}
  BY AveragerAssumption
<1>5. PICK c \in 0 .. CountMod - 1 : c = (now.count + count) % CountMod
  BY <1>3, <1>4
<1>6. PICK t \in 0 .. TotalMod - 1 : t = (now.total + size) % TotalMod
  BY <1>3, <1>4
<1>7. storage' = c * TotalMod + t
  BY <1>1, <1>5, <1>6 DEF Track, encodeDelta
<1>8. decode(storage') = [count |-> c, total |-> t]
  BY <1>7, Encoded
<1>9. PICK w \in BOOLEAN : w = (i.wrapped \/ now.total + size >= TotalMod)
  OBVIOUS
<1>10. interval' = [count |-> i.count + count, total |-> i.total + size, wrapped |-> w]
  BY <1>1, <1>2, <1>9 DEF Track
<1>11. c = (prevCount + (i.count + count)) % CountMod
  <2>1. PICK a \in Nat : a = prevCount + i.count
    BY <1>3, <1>4
  <2>2. ((a % CountMod) + count) % CountMod = (a + count) % CountMod
    BY <1>4, AddAfterMod
  <2>3. a + count = prevCount + (i.count + count)
    BY <1>3, <1>4, <2>1
  <2> QED
    BY <1>3, <1>5, <2>1, <2>2, <2>3
<1>12. ~w => t = prevTotal + (i.total + size)
  <2> SUFFICES ASSUME ~w PROVE t = prevTotal + (i.total + size)
    OBVIOUS
  <2>0. ~i.wrapped /\ ~(now.total + size >= TotalMod)
    BY <1>9
  <2>1. ~i.wrapped /\ now.total + size < TotalMod /\ now.total \in Nat
    BY <1>3, <1>4, <2>0
  <2>2. now.total + size \in 0 .. TotalMod - 1
    BY <1>4, <2>1
  <2>3. t = now.total + size
    BY <1>4, <1>6, <2>2, SmallMod
  <2> QED
    BY <1>3, <1>4, <2>1, <2>3
<1>13. prevCount' = prevCount /\ prevTotal' = prevTotal
  BY DEF Track
<1>14. /\ interval' \in [count : Nat, total : Nat, wrapped : BOOLEAN]
       /\ interval'.count = i.count + count
       /\ interval'.total = i.total + size
       /\ interval'.wrapped = w
  BY <1>3, <1>10
<1>15. decode(storage').count = c /\ decode(storage').total = t
  BY <1>8
<1> QED
  BY <1>3, <1>11, <1>12, <1>13, <1>14, <1>15 DEF AveragerInv, decode

LEMMA TickKeeps ==
  ASSUME AveragerInv, AveragerTick
  PROVE  AveragerInv'
<1>1. PICK now : now = decode(storage)
  OBVIOUS
<1>2. now.count \in 0 .. CountMod - 1 /\ now.total \in 0 .. TotalMod - 1
  BY <1>1 DEF AveragerInv
<1>3. prevCount' = now.count /\ prevTotal' = now.total /\ decode(storage') = now
  BY <1>1 DEF AveragerTick
<1>4. interval' = [count |-> 0, total |-> 0, wrapped |-> FALSE]
  BY DEF AveragerTick, NewInterval
<1>5. CountMod \in Nat \ {0} /\ TotalMod \in Nat \ {0}
  BY AveragerAssumption
<1>6. now.count = (now.count + 0) % CountMod /\ now.total = now.total + 0
  BY <1>2, <1>5, SmallMod
<1>7. /\ interval' \in [count : Nat, total : Nat, wrapped : BOOLEAN]
      /\ interval'.count = 0 /\ interval'.total = 0
  BY <1>4
<1> QED
  BY <1>2, <1>3, <1>6, <1>7 DEF AveragerInv, decode

(* The averager's report is right. *)
LEMMA AverageFollows == AveragerInv => AverageOfInterval
<1> SUFFICES ASSUME AveragerInv, interval.count < CountMod, ~interval.wrapped
             PROVE  IF interval.count = 0
                      THEN Report.total = 0
                      ELSE Report.total * interval.count = interval.total * Report.count
  BY DEF AverageOfInterval
<1>1. PICK now : now = decode(storage)
  OBVIOUS
<1>2. PICK c : c = interval.count
  OBVIOUS
<1>3. PICK t : t = interval.total
  OBVIOUS
<1>4. /\ now.total \in 0 .. TotalMod - 1
      /\ prevCount \in 0 .. CountMod - 1
      /\ prevTotal \in 0 .. TotalMod - 1
      /\ c \in Nat /\ t \in Nat /\ c < CountMod
      /\ now.count = (prevCount + c) % CountMod
      /\ now.total = prevTotal + t
  BY <1>1, <1>2, <1>3 DEF AveragerInv
<1>5. CountMod \in Nat \ {0} /\ TotalMod \in Nat \ {0}
  BY AveragerAssumption
<1>6. DeltaCount = c
  <2>1. c \in 0 .. CountMod - 1
    BY <1>4, <1>5
  <2> QED
    BY <1>1, <1>4, <1>5, <2>1, DifferenceOfMods DEF DeltaCount
<1>7. DeltaTotal = t
  <2>1. now.total - prevTotal = t /\ t < TotalMod
    BY <1>4, <1>5
  <2>2. PICK w \in Nat \ {0} : w = CountMod * TotalMod /\ TotalMod <= w
    BY <1>5
  <2>3. t \in 0 .. w - 1
    BY <1>4, <1>5, <2>1, <2>2
  <2>4. t % w = t
    BY <2>3, SmallMod
  <2> QED
    BY <1>1, <2>1, <2>2, <2>4 DEF DeltaTotal, WordMod
<1>8. CASE c = 0
  BY <1>2, <1>6, <1>8 DEF Report
<1>9. CASE c # 0
  <2>1. Report = [total |-> t, count |-> c]
    BY <1>6, <1>7, <1>9 DEF Report
  <2>2. Report.total = t /\ Report.count = c
    BY <2>1
  <2> QED
    BY <1>2, <1>3, <1>9, <2>2
<1> QED
  BY <1>8, <1>9

-----------------------------------------------------------------------------
(* The invariant of the pipelines. *)
UdpInv ==
  /\ udpDiode \in Seq(Datagrams)
  /\ udpRead \in Nat /\ udpIngress \in Nat /\ udpDropped \in Nat
  /\ udpRead = udpIngress + udpDropped + Len(udpDiode)

AgentInv ==
  /\ aDiode \in Seq(Env)
  /\ batch \in Seq(Env)
  /\ doppler \in Seq(Env)
  /\ AreTotals(agentTotals)
  /\ aIngress \in Nat /\ aDropped \in Nat /\ egress \in Nat /\ egressDropped \in Nat
  /\ aIngress = egress + egressDropped + aDropped + Len(aDiode) + Len(batch)
  /\ egress = Len(doppler)

(* How many envelopes have left the forwarder agent's diode, read or not. *)
Taken == Len(envelope) - Len(fDiode)

(* The diode holds the latest pointers; others are to envelopes taken before. *)
Pointers ==
  /\ envelope \in Seq(Env)
  /\ \A p \in 1 .. Len(envelope) : envelope[p].n = p
  /\ fDiode \in Seq(Nat)
  /\ Taken \in Nat
  /\ \A i \in 1 .. Len(fDiode) : fDiode[i] = Taken + i
  /\ current \in 0 .. Taken
  /\ clientDiode \in [Client -> Seq(1 .. Taken)]

(* What has been encoded has not changed since. *)
Unchanged ==
  /\ encoded \in [Client -> Seq(Env)]
  /\ \A c \in Client : \A i \in 1 .. Len(encoded[c]) :
       /\ encoded[c][i].n \in 1 .. Taken
       /\ encoded[c][i] = envelope[encoded[c][i].n]

(* The clients that have had the current envelope have the totals of the      *)
(* first; the others will have, and it is already what they will make of it. *)
InStep ==
  /\ turn \in Client
  /\ current = 0 => turn = 1
  /\ current # 0 => turn # 1
  /\ clientTotals = [c \in Client |-> clientTotals[c]]
  /\ \A c \in Client : AreTotals(clientTotals[c])
  /\ \A c \in Client :
       IF current = 0 \/ c < turn
         THEN clientTotals[c] = clientTotals[1]
         ELSE LET r == Process(clientTotals[c], envelope[current], ForwarderTag)
              IN  r.env = envelope[current] /\ r.totals = clientTotals[1]

PipelineInv ==
  /\ UdpInv
  /\ AgentInv
  /\ AveragerInv
  /\ Pointers
  /\ Unchanged
  /\ InStep

(* A counter that comes with neither an increment nor a total is given that   *)
(* of the last aggregator it passes, which may remember what another forgot. *)
Changes(e) == IsCounter(e) => e.delta # 0 \/ e.total # 0

CountersChange == \A e \in Sent : Changes(e)

(* A counter's total is the one expected at its entry of the ledger. *)
Recorded(log, e) ==
  IsCounter(e) =>
    /\ e.total # 0
    /\ \E i \in 1 .. Len(log) :
         log[i].n = e.n /\ e.total = ExpectedTotal(log, log[i].id, i)

RecordedAll(log, s) == \A i \in 1 .. Len(s) : Recorded(log, s[i])

Entries == [n : Nat, id : Name \X Tag, delta : Nat, total : Nat, reset : BOOLEAN]

LedgerInv ==
  /\ ledger \in Seq(Entries)
  /\ \A p \in 1 .. Len(envelope) : Changes(envelope[p])
  /\ \A id \in Name \X Tag :
       TotalOf(clientTotals[1], id) = ExpectedTotal(ledger, id, Len(ledger))
  /\ \A i \in 1 .. Len(clientDiode[1]) : Recorded(ledger, envelope[clientDiode[1][i]])
  /\ RecordedAll(ledger, aDiode)
  /\ RecordedAll(ledger, batch)
  /\ RecordedAll(ledger, doppler)

-----------------------------------------------------------------------------
(* The v1 reader. *)
LEMMA ReadKeeps ==
  ASSUME UdpInv, NEW d \in Datagrams, StartReading(d)
  PROVE  UdpInv'
<1>1. udpDiode' = Append(udpDiode, d) /\ udpRead' = udpRead + 1
  BY DEF StartReading, Set
<1>2. Append(udpDiode, d) \in Seq(Datagrams)
      /\ Len(Append(udpDiode, d)) = Len(udpDiode) + 1
  BY DEF UdpInv
<1>3. Len(udpDiode) \in Nat
  BY DEF UdpInv
<1> QED
  BY <1>1, <1>2, <1>3 DEF UdpInv, StartReading

LEMMA TakeKeeps ==
  ASSUME UdpInv, TakeDatagram
  PROVE  UdpInv' /\ Datagram \in Datagrams
<1>1. ~IsEmpty(udpDiode) /\ udpDiode \in Seq(Datagrams) /\ UDPSize \in Nat \ {0}
  BY V1Assumption DEF TakeDatagram, UdpInv
<1>2. PICK k : k = Missed(udpDiode, UDPSize)
  OBVIOUS
<1>3. /\ k \in 0 .. Len(udpDiode) - 1
      /\ Datagram \in Datagrams
      /\ Rest(udpDiode, UDPSize) \in Seq(Datagrams)
      /\ Len(Rest(udpDiode, UDPSize)) = Len(udpDiode) - k - 1
  BY <1>1, <1>2, ReadOfDiode DEF Datagram
<1>4. /\ udpDiode' = Rest(udpDiode, UDPSize) /\ udpIngress' = udpIngress + 1
      /\ udpDropped' = udpDropped + k /\ udpRead' = udpRead
  BY <1>2 DEF TakeDatagram
<1>5. PICK n \in Nat : n = Len(udpDiode)
  BY <1>1
<1>6. /\ udpRead \in Nat /\ udpIngress \in Nat /\ udpDropped \in Nat /\ k \in Nat
      /\ udpRead = udpIngress + udpDropped + n
  BY <1>3, <1>5 DEF UdpInv
<1>7. udpRead' = udpIngress' + udpDropped' + Len(udpDiode')
  BY <1>3, <1>4, <1>5, <1>6
<1>8. udpIngress' \in Nat /\ udpDropped' \in Nat /\ udpRead' \in Nat
  BY <1>4, <1>6
<1> QED
  BY <1>3, <1>4, <1>7, <1>8 DEF UdpInv

-----------------------------------------------------------------------------
(* The agent's processors: the function of ProcessAll up to k. *)
IsRun(f, b, k) ==
  f = [i \in 0 .. k |->
         IF i = 0 THEN [totals |-> agentTotals]
                  ELSE Process(f[i - 1].totals, b[i], AgentTag)]

LEMMA RunsExist ==
  ASSUME NEW b, NEW n \in Nat
  PROVE  \A k \in 0 .. n : \E f : IsRun(f, b, k)
<1> DEFINE S == {k \in 0 .. n : ~\E f : IsRun(f, b, k)}
<1>0. SUFFICES ASSUME S # {} PROVE FALSE
  BY Zenon
<1>1. PICK k \in S : k = 0 \/ (k - 1 \in 0 .. n /\ k - 1 \notin S)
  BY <1>0, FirstFailure
<1>2. CASE k = 0
  <2>1. IsRun([i \in 0 .. 0 |-> [totals |-> agentTotals]], b, 0)
    BY DEF IsRun
  <2> QED
    BY <1>2, <2>1
<1>3. CASE k - 1 \in 0 .. n /\ k - 1 \notin S
  <2>1. PICK f : IsRun(f, b, k - 1)
    BY <1>3
  <2>2. k \in 1 .. n
    BY <1>3
  <2> DEFINE P(i, g) == Process(g[i - 1].totals, b[i], AgentTag)
             x == P(k, f)
             g == [i \in 0 .. k |-> IF i = k THEN x ELSE f[i]]
             z == [totals |-> agentTotals]
  <2>3. \A i \in 0 .. k - 1 : f[i] = IF i = 0 THEN z ELSE P(i, f)
    <3> DEFINE h == [i \in 0 .. k - 1 |-> IF i = 0 THEN z ELSE P(i, f)]
    <3>1. f = h
      BY <2>1 DEF IsRun
    <3> HIDE DEF P, z
    <3>2. \A i \in 0 .. k - 1 : h[i] = IF i = 0 THEN z ELSE P(i, f)
      OBVIOUS
    <3> HIDE DEF h
    <3> QED
      BY <3>1, <3>2
  <2>4. ASSUME NEW i \in 0 .. k
        PROVE  g[i] = IF i = 0 THEN z ELSE P(i, g)
    <3> HIDE DEF z, P
    <3>1. CASE i = k
      <4>1. g[i] = P(k, f) /\ g[i - 1] = f[i - 1] /\ i # 0
        BY <2>2, <3>1
      <4> HIDE DEF g
      <4>2. P(i, g) = P(i, f)
        BY <4>1 DEF P
      <4> QED
        BY <3>1, <4>1, <4>2
    <3>2. CASE i # k
      <4>1. i \in 0 .. k - 1 /\ g[i] = f[i] /\ (i # 0 => g[i - 1] = f[i - 1])
        BY <2>2, <3>2
      <4> HIDE DEF g
      <4>2. i # 0 => P(i, g) = P(i, f)
        BY <4>1 DEF P
      <4> QED
        BY <2>3, <4>1, <4>2
    <3> QED
      BY <3>1, <3>2
  <2>5. g = [i \in 0 .. k |-> g[i]]
    OBVIOUS
  <2> HIDE DEF g
  <2>6. IsRun(g, b, k)
    BY <2>4, <2>5 DEF IsRun
  <2> QED
    BY <2>6
<1> QED
  BY <1>1, <1>2, <1>3

(* A batch comes out with as many envelopes, each processed. *)
LEMMA BatchProcessed ==
  ASSUME AreTotals(agentTotals), NEW b \in Seq(Env)
  PROVE  LET r == ProcessAll(b)
         IN  /\ r.envs \in Seq(Env)
             /\ Len(r.envs) = Len(b)
             /\ \A i \in 1 .. Len(b) :
                  \E t : AreTotals(t) /\ r.envs[i] = Process(t, b[i], AgentTag).env
             /\ AreTotals(r.totals)
<1>1. PICK n \in Nat : n = Len(b)
  OBVIOUS
<1> DEFINE Run(f) == f = [i \in 0 .. Len(b) |->
                        IF i = 0 THEN [totals |-> agentTotals]
                                 ELSE Process(f[i - 1].totals, b[i], AgentTag)]
<1>2. \E f : Run(f)
  <2>1. n \in 0 .. n
    OBVIOUS
  <2>2. \E f : IsRun(f, b, n)
    BY <2>1, RunsExist
  <2> QED
    BY <1>1, <2>2, Zenon DEF IsRun
<1>3. PICK f : f = CHOOSE g : Run(g)
  OBVIOUS
<1>4. Run(f)
  <2> HIDE DEF Run
  <2> QED
    BY <1>2, <1>3, Zenon
<1>5. ProcessAll(b) = [totals |-> f[Len(b)].totals, envs |-> [i \in 1 .. Len(b) |-> f[i].env]]
  <2> DEFINE R(a) == [totals |-> a[Len(b)].totals,
                      envs |-> [i \in 1 .. Len(b) |-> a[i].env]]
  <2>1. ProcessAll(b) = R(CHOOSE g : Run(g))
    BY Zenon DEF ProcessAll
  <2>2. ProcessAll(b) = R(f)
    <3> HIDE DEF R, Run
    <3> QED
      BY <1>3, <2>1
  <2> QED
    BY <2>2
<1> DEFINE z == [totals |-> agentTotals]
           P(i) == Process(f[i - 1].totals, b[i], AgentTag)
           h == [i \in 0 .. n |-> IF i = 0 THEN z ELSE P(i)]
<1>6. f = h
  BY <1>1, <1>4
<1> HIDE DEF Run, P, z
<1>7. \A i \in 0 .. n : h[i] = IF i = 0 THEN z ELSE P(i)
  OBVIOUS
<1> HIDE DEF h
<1>8. \A i \in 0 .. n : f[i] = IF i = 0 THEN z ELSE P(i)
  BY <1>6, <1>7
<1>9. \A i \in 1 .. n : b[i] \in Env
  BY <1>1
<1>10. AgentTag \in Tag
  BY DEF Tag
<1>11. \A i \in 0 .. n : AreTotals(f[i].totals)
  <2> DEFINE S == {i \in 0 .. n : ~AreTotals(f[i].totals)}
  <2>1. SUFFICES ASSUME S # {} PROVE FALSE
    OBVIOUS
  <2>2. PICK m \in S : m = 0 \/ (m - 1 \in 0 .. n /\ m - 1 \notin S)
    BY <2>1, FirstFailure
  <2>3. CASE m = 0
    <3>1. f[m] = z
      BY <1>8, <2>3
    <3>2. f[m].totals = agentTotals
      BY <3>1 DEF z
    <3> QED
      BY <3>2
  <2>4. CASE m # 0
    <3>1. m \in 1 .. n /\ AreTotals(f[m - 1].totals) /\ f[m] = P(m)
      BY <1>8, <2>2, <2>4
    <3>2. AreTotals(f[m].totals)
      BY <1>9, <1>10, <3>1, Processed DEF P
    <3> QED
      BY <3>2
  <2> QED
    BY <2>3, <2>4
<1>12. ASSUME NEW i \in 1 .. n
       PROVE  f[i].env \in Env
              /\ \E t : AreTotals(t) /\ f[i].env = Process(t, b[i], AgentTag).env
  <2>1. i - 1 \in 0 .. n /\ i \in 0 .. n /\ i # 0
    OBVIOUS
  <2>2. AreTotals(f[i - 1].totals) /\ f[i] = Process(f[i - 1].totals, b[i], AgentTag)
    BY <1>8, <1>11, <2>1 DEF P
  <2>3. b[i] \in Env
    BY <1>9
  <2> QED
    BY <1>10, <2>2, <2>3, Processed
<1> DEFINE s == [i \in 1 .. n |-> f[i].env]
<1>13. s \in Seq(Env) /\ Len(s) = n /\ \A i \in 1 .. n : s[i] = f[i].env
  BY <1>12
<1> HIDE DEF s
<1>14. ProcessAll(b).envs = s /\ ProcessAll(b).totals = f[n].totals
  BY <1>1, <1>5 DEF s
<1>15. AreTotals(f[n].totals)
  BY <1>11
<1> QED
  BY <1>1, <1>12, <1>13, <1>14, <1>15

LEMMA ReceiveKeeps ==
  ASSUME AgentInv, NEW e \in Env, AgentReceives(e)
  PROVE  AgentInv'
<1>1. aDiode' = Append(aDiode, e) /\ aIngress' = aIngress + 1
  BY DEF AgentReceives, Set
<1>2. Append(aDiode, e) \in Seq(Env) /\ Len(Append(aDiode, e)) = Len(aDiode) + 1
  BY DEF AgentInv
<1>3. Len(aDiode) \in Nat /\ Len(batch) \in Nat
  BY DEF AgentInv
<1>4. UNCHANGED <<aDropped, batch, agentTotals, egress, egressDropped, doppler>>
  BY DEF AgentReceives
<1>5. /\ aIngress \in Nat /\ aDropped \in Nat /\ egress \in Nat /\ egressDropped \in Nat
      /\ aIngress = egress + egressDropped + aDropped + Len(aDiode) + Len(batch)
  BY DEF AgentInv
<1>6. aIngress' = egress + egressDropped + aDropped + Len(aDiode') + Len(batch)
      /\ aIngress' \in Nat
  BY <1>1, <1>2, <1>3, <1>5
<1>7. aDiode' \in Seq(Env)
  BY <1>1, <1>2
<1> QED
  BY <1>4, <1>6, <1>7 DEF AgentInv, AreTotals

(* A submission sends or drops the batch: *)
Submitted(b) ==
  /\ batch' = <<>>
  /\ AreTotals(agentTotals')
  /\ \E envs \in Seq(Env) :
       /\ Len(envs) = Len(b)
       /\ \A i \in 1 .. Len(b) :
            \E t : AreTotals(t) /\ envs[i] = Process(t, b[i], AgentTag).env
       /\ \/ /\ doppler' = doppler \o envs
             /\ egress' = egress + Len(b)
             /\ egressDropped' = egressDropped
             /\ \E size \in EnvelopeBytes : Track(Len(b), size * Len(b))
          \/ /\ egressDropped' = egressDropped + Len(b)
             /\ UNCHANGED <<egress, doppler, averagerVars>>

LEMMA SubmitsOnce ==
  ASSUME AreTotals(agentTotals), NEW b \in Seq(Env), Submit(b)
  PROVE  Submitted(b)
<1>1. PICK r : r = ProcessAll(b)
  OBVIOUS
<1>2. /\ agentTotals' = r.totals
      /\ PoolTakes(r.envs) \/ PoolFails(r.envs)
      /\ batch' = <<>>
  BY <1>1 DEF Submit
<1>3. /\ r.envs \in Seq(Env)
      /\ Len(r.envs) = Len(b)
      /\ \A i \in 1 .. Len(b) :
           \E t : AreTotals(t) /\ r.envs[i] = Process(t, b[i], AgentTag).env
      /\ AreTotals(r.totals)
  BY <1>1, BatchProcessed
<1>4. PICK envs \in Seq(Env) : envs = r.envs
  BY <1>3
<1>5. AreTotals(agentTotals')
  BY <1>2, <1>3, Zenon
<1>6. CASE PoolTakes(envs)
  <2>1. /\ doppler' = doppler \o envs
        /\ egress' = egress + Len(b)
        /\ egressDropped' = egressDropped
        /\ \E size \in EnvelopeBytes : Track(Len(b), size * Len(b))
    BY <1>3, <1>4, <1>6, Zenon DEF PoolTakes
  <2> QED
    BY <1>2, <1>3, <1>4, <1>5, <2>1, Zenon DEF Submitted
<1>7. CASE PoolFails(envs)
  <2>1. /\ egressDropped' = egressDropped + Len(b)
        /\ UNCHANGED <<egress, doppler, averagerVars>>
    BY <1>3, <1>4, <1>7, Zenon DEF PoolFails
  <2> QED
    BY <1>2, <1>3, <1>4, <1>5, <2>1, Zenon DEF Submitted
<1> QED
  BY <1>2, <1>4, <1>6, <1>7, Zenon

(* A submission keeps the counts when its batch b is counted in. *)
LEMMA SubmittedKeeps ==
  ASSUME NEW b \in Seq(Env), Submitted(b), aDiode' \in Seq(Env), AveragerInv,
         doppler \in Seq(Env), egress \in Nat, egressDropped \in Nat,
         aIngress' \in Nat, aDropped' \in Nat,
         aIngress' = egress + egressDropped + aDropped' + Len(aDiode') + Len(b),
         egress = Len(doppler)
  PROVE  AgentInv' /\ AveragerInv'
<1>1. PICK n \in Nat : n = Len(b)
  OBVIOUS
<1>2. PICK m \in Nat : m = Len(aDiode')
  OBVIOUS
<1>3. PICK envs \in Seq(Env) :
        /\ Len(envs) = n
        /\ \/ /\ doppler' = doppler \o envs
              /\ egress' = egress + n
              /\ egressDropped' = egressDropped
              /\ \E size \in EnvelopeBytes : Track(n, size * n)
           \/ /\ egressDropped' = egressDropped + n
              /\ UNCHANGED <<egress, doppler, averagerVars>>
  BY <1>1 DEF Submitted
<1>4. batch' \in Seq(Env) /\ Len(batch') = 0 /\ AreTotals(agentTotals')
  BY DEF Submitted
<1>5. doppler' \in Seq(Env) /\ egress' = Len(doppler') /\ egress' \in Nat
      /\ egressDropped' \in Nat
      /\ egress' + egressDropped' = egress + egressDropped + n
  <2>1. CASE doppler' = doppler \o envs /\ egress' = egress + n
             /\ egressDropped' = egressDropped
    <3>1. doppler \o envs \in Seq(Env) /\ Len(doppler \o envs) = Len(doppler) + Len(envs)
      OBVIOUS
    <3>2. egress + n \in Nat /\ egress + n + egressDropped = egress + egressDropped + n
      OBVIOUS
    <3> QED
      BY <1>3, <2>1, <3>1, <3>2
  <2>2. CASE egressDropped' = egressDropped + n /\ UNCHANGED <<egress, doppler>>
    BY <2>2
  <2> QED
    BY <1>3, <2>1, <2>2
<1>6. AveragerInv'
  <2>1. ASSUME NEW size \in EnvelopeBytes, Track(n, size * n) PROVE AveragerInv'
    <3>1. size * n \in Nat
      BY AgentV2Assumption
    <3> QED
      BY <2>1, <3>1, TrackKeeps
  <2>2. ASSUME UNCHANGED averagerVars PROVE AveragerInv'
    BY <2>2 DEF AveragerInv, averagerVars, decode
  <2> QED
    BY <1>3, <2>1, <2>2
<1>7. aIngress' = egress' + egressDropped' + aDropped' + Len(aDiode') + Len(batch')
  <2>1. PICK s \in Nat : s = egress'
    BY <1>5
  <2>2. PICK d \in Nat : d = egressDropped'
    BY <1>5
  <2>3. PICK l \in Nat : l = aDropped'
    OBVIOUS
  <2>4. aIngress' = egress + egressDropped + l + m + n
    BY <1>1, <1>2, <2>3
  <2>5. s + d = egress + egressDropped + n
    BY <1>5, <2>1, <2>2
  <2>6. aIngress' = s + d + l + m + 0
    BY ONLY <2>4, <2>5, s \in Nat, d \in Nat, l \in Nat, m \in Nat, n \in Nat,
            egress \in Nat, egressDropped \in Nat
  <2> QED
    BY <1>2, <1>4, <2>1, <2>2, <2>3, <2>6
<1> QED
  BY <1>4, <1>5, <1>6, <1>7 DEF AgentInv, AreTotals

(* What one iteration of the transponder does to the batch: it keeps b or    *)
(* submits it, where b has the envelope read, if one was.                    *)
Kept(b) == batch' = b /\ UNCHANGED <<agentTotals, egress, egressDropped, doppler, averagerVars>>

LEMMA TransponderStep ==
  ASSUME AgentInv, Transponder
  PROVE  \E b \in Seq(Env) :
           /\ Submitted(b) \/ Kept(b)
           /\ aDiode' \in Seq(Env) /\ aIngress' \in Nat /\ aDropped' \in Nat
           /\ aIngress' = egress + egressDropped + aDropped' + Len(aDiode') + Len(b)
           /\ \/ b = batch
              \/ /\ ~IsEmpty(aDiode)
                 /\ b = Append(batch, NextOf(aDiode, AgentSize))
           /\ \A i \in 1 .. Len(aDiode') :
                \E j \in 1 .. Len(aDiode) : aDiode'[i] = aDiode[j]
<1>1. CASE BatchFlush
  <2>1. Submitted(batch) \/ Kept(batch)
    <3>1. Submit(batch) \/ Keep(batch)
      BY <1>1 DEF BatchFlush
    <3>2. Keep(batch) => Kept(batch)
      BY DEF Keep, Kept
    <3>3. Submit(batch) => Submitted(batch)
      BY SubmitsOnce DEF AgentInv
    <3> QED
      BY <3>1, <3>2, <3>3
  <2>2. UNCHANGED <<aDiode, aDropped, aIngress>>
    BY <1>1 DEF BatchFlush
  <2> QED
    BY <2>1, <2>2 DEF AgentInv
<1>2. CASE BatchWrite
  <2>1. ~IsEmpty(aDiode) /\ aDiode \in Seq(Env) /\ AgentSize \in Nat \ {0}
    BY <1>2, AgentV2Assumption DEF BatchWrite, AgentInv
  <2>2. PICK k : k = Missed(aDiode, AgentSize)
    OBVIOUS
  <2>3. PICK e : e = NextOf(aDiode, AgentSize)
    OBVIOUS
  <2>4. PICK d : d = Rest(aDiode, AgentSize)
    OBVIOUS
  <2>5. /\ k \in 0 .. Len(aDiode) - 1
        /\ e \in Env
        /\ d \in Seq(Env)
        /\ Len(d) = Len(aDiode) - k - 1
        /\ \A i \in 1 .. Len(d) : d[i] = aDiode[k + 1 + i]
    BY <2>1, <2>2, <2>3, <2>4, ReadOfDiode
  <2>6. PICK b : b = Append(batch, e)
    OBVIOUS
  <2>7. batch \in Seq(Env) /\ AreTotals(agentTotals)
    BY DEF AgentInv
  <2>8. b \in Seq(Env) /\ Len(b) = Len(batch) + 1
    BY <2>5, <2>6, <2>7
  <2>9. Submit(b) \/ Keep(b)
    BY <1>2, <2>3, <2>6 DEF BatchWrite
  <2>10. Submitted(b) \/ Kept(b)
    <3>1. Keep(b) => Kept(b)
      BY DEF Keep, Kept
    <3>2. Submit(b) => Submitted(b)
      BY <2>7, <2>8, SubmitsOnce
    <3> QED
      BY <2>9, <3>1, <3>2
  <2>11. aDiode' = d /\ aDropped' = aDropped + k /\ aIngress' = aIngress
    BY <1>2, <2>2, <2>4 DEF BatchWrite
  <2>12. PICK x \in Nat : x = Len(aDiode)
    BY <2>1
  <2>13. PICK y \in Nat : y = Len(batch)
    BY <2>7
  <2>14. /\ aIngress \in Nat /\ aDropped \in Nat /\ egress \in Nat
         /\ egressDropped \in Nat
         /\ aIngress = egress + egressDropped + aDropped + x + y
    BY <2>12, <2>13 DEF AgentInv
  <2>15. Len(d) = x - k - 1 /\ k \in Nat /\ Len(b) = y + 1
    BY <2>5, <2>8, <2>12, <2>13
  <2>16. aIngress' = egress + egressDropped + aDropped' + Len(aDiode') + Len(b)
    BY <2>11, <2>14, <2>15
  <2>17. aDropped' \in Nat /\ aIngress' \in Nat
    BY <2>11, <2>14, <2>15
  <2>18. ASSUME NEW i \in 1 .. Len(d)
         PROVE  \E j \in 1 .. Len(aDiode) : d[i] = aDiode[j]
    <3>1. k + 1 + i \in 1 .. Len(aDiode)
      BY <2>5, <2>12
    <3> QED
      BY <2>5, <3>1
  <2> QED
    BY <2>1, <2>3, <2>5, <2>6, <2>8, <2>10, <2>11, <2>16, <2>17, <2>18
<1> QED
  BY <1>1, <1>2 DEF Transponder

LEMMA TransponderKeeps ==
  ASSUME AgentInv, AveragerInv, Transponder
  PROVE  AgentInv' /\ AveragerInv'
<1>1. PICK b \in Seq(Env) :
           /\ Submitted(b) \/ Kept(b)
           /\ aDiode' \in Seq(Env) /\ aIngress' \in Nat /\ aDropped' \in Nat
           /\ aIngress' = egress + egressDropped + aDropped' + Len(aDiode') + Len(b)
  BY TransponderStep
<1>2. CASE Submitted(b)
  <2>1. /\ doppler \in Seq(Env) /\ egress \in Nat /\ egressDropped \in Nat
        /\ egress = Len(doppler)
    BY DEF AgentInv
  <2> QED
    BY <1>1, <1>2, <2>1, SubmittedKeeps
<1>3. CASE Kept(b)
  BY <1>1, <1>3 DEF Kept, AgentInv, AveragerInv, averagerVars, decode, AreTotals
<1> QED
  BY <1>1, <1>2, <1>3

-----------------------------------------------------------------------------
(* The forwarder agent.  What was encoded stays so while no envelope taken    *)
(* before changes.                                                           *)
LEMMA UnchangedStays ==
  ASSUME Unchanged, Taken \in Nat, Taken' \in Nat, Taken <= Taken',
         \A p \in 1 .. Taken : envelope'[p] = envelope[p], UNCHANGED encoded
  PROVE  Unchanged'
<1>1. PICK t \in Nat : t = Taken
  OBVIOUS
<1>2. PICK t2 \in Nat : t2 = Taken'
  OBVIOUS
<1>3. \A p \in 1 .. t : p \in 1 .. t2 /\ envelope'[p] = envelope[p]
  BY <1>1, <1>2
<1>4. \A c \in Client : \A i \in 1 .. Len(encoded[c]) :
        encoded[c][i].n \in 1 .. t /\ encoded[c][i] = envelope[encoded[c][i].n]
  BY <1>1 DEF Unchanged
<1>5. \A c \in Client : \A i \in 1 .. Len(encoded[c]) :
        encoded[c][i].n \in 1 .. t2 /\ encoded[c][i] = envelope'[encoded[c][i].n]
  BY <1>3, <1>4
<1>6. encoded' = encoded /\ encoded \in [Client -> Seq(Env)] /\ Client' = Client
  BY DEF Unchanged, Client
<1> QED
  BY <1>2, <1>5, <1>6 DEF Unchanged

LEMMA ForwarderReceiveKeeps ==
  ASSUME Pointers, Unchanged, InStep, NEW e \in Env, ForwarderReceives(e)
  PROVE  /\ Pointers' /\ Unchanged' /\ InStep'
         /\ \E x \in Nat : /\ x = Len(envelope)
                           /\ Len(envelope') = x + 1
                           /\ envelope'[x + 1] = [e EXCEPT !.n = x + 1]
                           /\ \A p \in 1 .. x : envelope'[p] = envelope[p]
<1>1. PICK x \in Nat : x = Len(envelope)
  BY DEF Pointers
<1>2. PICK y \in Nat : y = Len(fDiode)
  BY DEF Pointers
<1>3. PICK t \in Nat : t = Taken /\ t = x - y
  BY <1>1, <1>2 DEF Pointers, Taken
<1>4. PICK f : f = [e EXCEPT !.n = x + 1]
  OBVIOUS
<1>5. f \in Env /\ f.n = x + 1
  BY <1>4 DEF Env
<1>6. envelope \in Seq(Env) /\ fDiode \in Seq(Nat)
  BY DEF Pointers
<1>7. envelope' = Append(envelope, f)
  BY <1>1, <1>4 DEF ForwarderReceives
<1>8. /\ envelope' \in Seq(Env) /\ Len(envelope') = x + 1
      /\ envelope'[x + 1] = f
      /\ \A p \in 1 .. x : envelope'[p] = envelope[p]
  BY <1>1, <1>5, <1>6, <1>7
<1>9. fDiode' = Append(fDiode, x + 1)
  BY <1>8 DEF ForwarderReceives, Set
<1>10. /\ fDiode' \in Seq(Nat) /\ Len(fDiode') = y + 1
       /\ fDiode'[y + 1] = x + 1
       /\ \A i \in 1 .. y : fDiode'[i] = fDiode[i]
  BY <1>2, <1>6, <1>9
<1>11. Taken' = t
  BY <1>3, <1>8, <1>10 DEF Taken
<1>12. UNCHANGED <<current, turn, clientTotals, clientDiode, encoded>>
  BY DEF ForwarderReceives
<1>13. Pointers'
  <2>1. \A p \in 1 .. x + 1 : envelope'[p].n = p
    <3>1. \A p \in 1 .. x : envelope[p].n = p
      BY <1>1 DEF Pointers
    <3>2. \A p \in 1 .. x + 1 : p \in 1 .. x \/ p = x + 1
      OBVIOUS
    <3> QED
      BY <1>5, <1>8, <3>1, <3>2
  <2>2. \A i \in 1 .. y + 1 : fDiode'[i] = t + i
    <3>1. \A i \in 1 .. y : fDiode[i] = t + i
      BY <1>2, <1>3 DEF Pointers
    <3>2. \A i \in 1 .. y + 1 : i \in 1 .. y \/ i = y + 1
      OBVIOUS
    <3>3. t + (y + 1) = x + 1
      BY <1>3
    <3> QED
      BY <1>10, <3>1, <3>2, <3>3
  <2>3. current \in 0 .. t /\ clientDiode \in [Client -> Seq(1 .. t)]
    BY <1>3 DEF Pointers
  <2> QED
    BY <1>8, <1>10, <1>11, <1>12, <2>1, <2>2, <2>3 DEF Pointers, Client
<1>14. Unchanged'
  <2>1. \A p \in 1 .. Taken : envelope'[p] = envelope[p]
    BY <1>3, <1>8
  <2> QED
    BY <1>3, <1>11, <1>12, <2>1, UnchangedStays
<1>15. InStep'
  <2>1. current # 0 => envelope'[current] = envelope[current]
    <3>1. current \in 0 .. t
      BY <1>3 DEF Pointers
    <3> QED
      BY <1>3, <1>8, <3>1
  <2>2. Client' = Client
    BY DEF Client
  <2> QED
    BY <1>12, <2>1, <2>2 DEF InStep, AreTotals
<1> QED
  BY <1>1, <1>4, <1>8, <1>13, <1>14, <1>15

(* The pointer read is the one after those taken. *)
LEMMA NextPointer ==
  ASSUME Pointers, NextEnvelope
  PROVE  \E p \in Nat :
           /\ p \in 1 .. Len(envelope) /\ Taken < p
           /\ HandTo(1, p)
           /\ fDiode' \in Seq(Nat)
           /\ Len(envelope) - Len(fDiode') = p
           /\ \A i \in 1 .. Len(fDiode') : fDiode'[i] = p + i
<1>1. ~IsEmpty(fDiode) /\ fDiode \in Seq(Nat) /\ ForwarderSize \in Nat \ {0}
  BY ForwarderAssumption DEF NextEnvelope, Pointers
<1>2. PICK k : k = Missed(fDiode, ForwarderSize)
  OBVIOUS
<1>3. PICK d : d = Rest(fDiode, ForwarderSize)
  OBVIOUS
<1>4. PICK p : p = NextOf(fDiode, ForwarderSize)
  OBVIOUS
<1>5. /\ k \in 0 .. Len(fDiode) - 1
      /\ p = fDiode[k + 1]
      /\ d \in Seq(Nat)
      /\ Len(d) = Len(fDiode) - k - 1
      /\ \A i \in 1 .. Len(d) : d[i] = fDiode[k + 1 + i]
  <2>1. p = fDiode[k + 1]
    BY <1>2, <1>4, Zenon DEF NextOf
  <2>2. /\ k \in 0 .. Len(fDiode) - 1
        /\ d \in Seq(Nat)
        /\ Len(d) = Len(fDiode) - k - 1
        /\ \A i \in 1 .. Len(d) : d[i] = fDiode[k + 1 + i]
    <3>1. PICK S : S = Nat
      OBVIOUS
    <3>2. fDiode \in Seq(S)
      BY <1>1, <3>1, Zenon
    <3>3. /\ k \in 0 .. Len(fDiode) - 1
          /\ p \in S
          /\ d \in Seq(S)
          /\ Len(d) = Len(fDiode) - k - 1
          /\ \A i \in 1 .. Len(d) : d[i] = fDiode[k + 1 + i]
      <4>1. ~IsEmpty(fDiode) /\ ForwarderSize \in Nat \ {0}
        BY <1>1
      <4>2. /\ Missed(fDiode, ForwarderSize) \in 0 .. Len(fDiode) - 1
            /\ NextOf(fDiode, ForwarderSize) \in S
            /\ Rest(fDiode, ForwarderSize) \in Seq(S)
            /\ Len(Rest(fDiode, ForwarderSize))
                 = Len(fDiode) - Missed(fDiode, ForwarderSize) - 1
            /\ \A i \in 1 .. Len(Rest(fDiode, ForwarderSize)) :
                 Rest(fDiode, ForwarderSize)[i]
                   = fDiode[Missed(fDiode, ForwarderSize) + 1 + i]
        BY <3>2, <4>1, ReadOfDiode, Zenon
      <4> QED
        BY <1>2, <1>3, <1>4, <4>2
    <3> QED
      BY <3>1, <3>3, Zenon
  <2> QED
    BY <2>1, <2>2
<1>6. PICK x \in Nat : x = Len(envelope)
  BY DEF Pointers
<1>7. PICK y \in Nat : y = Len(fDiode)
  BY <1>1
<1>8. PICK t \in Nat : t = Taken /\ t = x - y
  BY <1>6, <1>7 DEF Pointers, Taken
<1>9. \A i \in 1 .. y : fDiode[i] = t + i
  BY <1>7, <1>8 DEF Pointers
<1>10. k \in Nat /\ k + 1 \in 1 .. y /\ p = t + (k + 1)
  BY <1>5, <1>7, <1>9
<1>11. p \in Nat /\ p \in 1 .. x /\ t < p
  BY <1>8, <1>10
<1>12. x - Len(d) = p
  BY <1>5, <1>7, <1>8, <1>10
<1>13. ASSUME NEW i \in 1 .. Len(d) PROVE d[i] = p + i
  <2>1. k + 1 + i \in 1 .. y
    BY <1>5, <1>7, <1>10
  <2>2. d[i] = t + (k + 1 + i)
    BY <1>5, <1>9, <2>1
  <2> QED
    BY <1>10, <2>2
<1>14. HandTo(1, p) /\ fDiode' = d
  BY <1>3, <1>4 DEF NextEnvelope
<1> QED
  BY <1>5, <1>6, <1>8, <1>11, <1>12, <1>13, <1>14

(* The first client of an envelope. *)
LEMMA NextKeeps ==
  ASSUME Pointers, Unchanged, InStep, NextEnvelope
  PROVE  /\ Pointers' /\ Unchanged' /\ InStep'
         /\ \E p \in 1 .. Len(envelope) :
              /\ Taken < p
              /\ HandTo(1, p)
              /\ envelope' = [envelope EXCEPT ![p] =
                                Process(clientTotals[1], envelope[p], ForwarderTag).env]
<1>1. PICK p \in Nat :
           /\ p \in 1 .. Len(envelope) /\ Taken < p
           /\ HandTo(1, p)
           /\ fDiode' \in Seq(Nat)
           /\ Len(envelope) - Len(fDiode') = p
           /\ \A i \in 1 .. Len(fDiode') : fDiode'[i] = p + i
  BY NextPointer
<1>2. PICK t \in Nat : t = Taken
  BY DEF Pointers
<1>3. PICK T : T = clientTotals[1]
  OBVIOUS
<1>4. PICK e : e = envelope[p]
  OBVIOUS
<1>5. PICK r : r = Process(T, e, ForwarderTag)
  OBVIOUS
<1>6. 1 \in Client /\ NumClients \in Nat /\ NumClients >= 1 /\ ForwarderTag \in Tag
  BY ForwarderAssumption DEF Client, Tag
<1>7. envelope \in Seq(Env) /\ e \in Env /\ e.n = p
  BY <1>1, <1>4 DEF Pointers
<1>8. AreTotals(T)
  BY <1>3, <1>6 DEF InStep
<1>9. r.env \in Env /\ r.env.n = p /\ AreTotals(r.totals)
  BY <1>5, <1>6, <1>7, <1>8, Processed
<1>10. Process(T, r.env, ForwarderTag) = r
  BY <1>5, <1>6, <1>7, <1>8, ProcessedTwice
<1>11. /\ envelope' = [envelope EXCEPT ![p] = r.env]
       /\ clientTotals' = [clientTotals EXCEPT ![1] = r.totals]
       /\ clientDiode' = [clientDiode EXCEPT ![1] = Append(@, p)]
       /\ current' = IF 1 = NumClients THEN 0 ELSE p
       /\ turn' = IF 1 = NumClients THEN 1 ELSE 2
       /\ encoded' = encoded
  BY <1>1, <1>3, <1>4, <1>5 DEF HandTo, Set
<1>12. /\ envelope' \in Seq(Env) /\ Len(envelope') = Len(envelope)
       /\ envelope'[p] = r.env
       /\ \A q \in 1 .. Len(envelope) : q # p => envelope'[q] = envelope[q]
  BY <1>1, <1>7, <1>9, <1>11
<1>13. Taken' = p
  BY <1>1, <1>12 DEF Taken
<1>14. \A q \in 1 .. t : q \in 1 .. Len(envelope) /\ q # p
  BY <1>1, <1>2
<1>15. Pointers'
  <2>1. \A q \in 1 .. Len(envelope) : envelope'[q].n = q
    <3>1. \A q \in 1 .. Len(envelope) : envelope[q].n = q
      BY DEF Pointers
    <3> QED
      BY <1>9, <1>12, <3>1
  <2>2. current' \in 0 .. p
    BY <1>11
  <2>3. clientDiode' \in [Client -> Seq(1 .. p)]
    <3>1. clientDiode \in [Client -> Seq(1 .. t)]
      BY <1>2 DEF Pointers
    <3>2. \A q \in 1 .. t : q \in 1 .. p
      BY <1>1, <1>2
    <3>3. \A c \in Client : clientDiode[c] \in Seq(1 .. p)
      <4>1. \A c \in Client : clientDiode[c] \in Seq(1 .. t)
        BY <3>1
      <4>2. \A s \in Seq(1 .. t) : s \in Seq(1 .. p)
        BY <3>2
      <4> QED
        BY <4>1, <4>2
    <3>4. Append(clientDiode[1], p) \in Seq(1 .. p)
      <4>1. p \in 1 .. p
        BY <1>1
      <4> QED
        BY <1>6, <3>3, <4>1
    <3> QED
      BY <1>6, <1>11, <3>1, <3>3, <3>4
  <2>4. Client' = Client
    BY DEF Client
  <2> QED
    BY <1>1, <1>12, <1>13, <2>1, <2>2, <2>3, <2>4 DEF Pointers
<1>16. Unchanged'
  <2>1. \A q \in 1 .. Taken : envelope'[q] = envelope[q]
    BY <1>2, <1>12, <1>14
  <2>2. Taken <= Taken' /\ Taken' \in Nat
    BY <1>1, <1>2, <1>13
  <2> QED
    BY <1>2, <1>11, <2>1, <2>2, UnchangedStays
<1>17. InStep'
  <2>1. \A c \in Client : clientTotals[c] = T
    <3>1. current = 0
      BY DEF NextEnvelope
    <3> QED
      BY <1>3, <3>1 DEF InStep
  <2>2. clientTotals = [c \in Client |-> clientTotals[c]]
    BY DEF InStep
  <2>3. \A c \in Client : clientTotals'[c] = IF c = 1 THEN r.totals ELSE T
    BY <1>6, <1>11, <2>1, <2>2
  <2>4. clientTotals' = [c \in Client |-> clientTotals'[c]]
    BY <1>11, <2>2
  <2>5. \A c \in Client : c # 1 =>
          LET s == Process(clientTotals'[c], r.env, ForwarderTag)
          IN  s.env = r.env /\ s.totals = clientTotals'[1]
    BY <1>6, <1>10, <2>3
  <2>6. Client' = Client
    BY DEF Client
  <2>7. CASE NumClients = 1
    <3>1. current' = 0 /\ turn' = 1
      BY <1>11, <2>7
    <3>2. \A c \in Client : c = 1
      BY <2>7 DEF Client
    <3>3. \A c \in Client : AreTotals(clientTotals'[c]) /\ clientTotals'[c] = clientTotals'[1]
      BY <1>9, <2>3, <3>2
    <3> QED
      BY <1>6, <2>4, <2>6, <3>1, <3>3 DEF InStep, AreTotals
  <2>8. CASE NumClients # 1
    <3>1. current' = p /\ turn' = 2 /\ p # 0 /\ 2 \in Client
      BY <1>1, <1>6, <1>11, <2>8 DEF Client
    <3>2. \A c \in Client : AreTotals(clientTotals'[c])
      BY <1>8, <1>9, <2>3
    <3>3. \A c \in Client : c < 2 <=> c = 1
      BY DEF Client
    <3>4. envelope'[current'] = r.env
      BY <1>12, <3>1
    <3>5. \A c \in Client :
            IF current' = 0 \/ c < turn'
              THEN clientTotals'[c] = clientTotals'[1]
              ELSE LET s == Process(clientTotals'[c], envelope'[current'], ForwarderTag)
                   IN  s.env = envelope'[current'] /\ s.totals = clientTotals'[1]
      BY <2>5, <3>1, <3>3, <3>4
    <3> QED
      BY <1>6, <2>4, <2>6, <3>1, <3>2, <3>5 DEF InStep, AreTotals
  <2> QED
    BY <2>7, <2>8
<1> QED
  BY <1>1, <1>3, <1>4, <1>5, <1>11, <1>15, <1>16, <1>17

(* The clients after the first leave the envelope as it is. *)
LEMMA ClientWriteKeeps ==
  ASSUME Pointers, Unchanged, InStep, ClientWrite
  PROVE  /\ Pointers' /\ Unchanged' /\ InStep'
         /\ envelope' = envelope
         /\ ledger' = ledger
         /\ clientTotals'[1] = clientTotals[1]
         /\ clientDiode'[1] = clientDiode[1]
<1>1. PICK p : p = current
  OBVIOUS
<1>2. PICK c \in Client : c = turn
  BY DEF InStep
<1>3. PICK t \in Nat : t = Taken
  BY DEF Pointers
<1>4. p # 0 /\ p \in 0 .. t /\ c # 1 /\ HandTo(c, p)
  BY <1>1, <1>2, <1>3 DEF ClientWrite, Pointers, InStep
<1>5. PICK r : r = Process(clientTotals[c], envelope[p], ForwarderTag)
  OBVIOUS
<1>6. r.env = envelope[p] /\ r.totals = clientTotals[1]
  <2>1. ~(current = 0 \/ c < turn)
    BY <1>1, <1>2, <1>4 DEF Client
  <2> QED
    BY <1>1, <1>2, <1>5, <2>1 DEF InStep
<1>7. /\ envelope' = [envelope EXCEPT ![p] = r.env]
      /\ clientTotals' = [clientTotals EXCEPT ![c] = r.totals]
      /\ clientDiode' = [clientDiode EXCEPT ![c] = Append(@, p)]
      /\ ledger' = ledger
      /\ current' = IF c = NumClients THEN 0 ELSE p
      /\ turn' = IF c = NumClients THEN 1 ELSE c + 1
      /\ encoded' = encoded
      /\ fDiode' = fDiode
  BY <1>1, <1>2, <1>4, <1>5 DEF HandTo, Set, ClientWrite
<1>8. envelope' = envelope
  <2>1. envelope \in Seq(Env)
    BY DEF Pointers
  <2> QED
    BY <1>6, <1>7, <2>1
<1>9. Taken' = t
  BY <1>3, <1>7, <1>8 DEF Taken
<1>10. 1 \in Client /\ NumClients \in Nat /\ NumClients >= 1 /\ c \in 1 .. NumClients
  BY ForwarderAssumption DEF Client
<1>11. clientDiode \in [Client -> Seq(1 .. t)]
  BY <1>3 DEF Pointers
<1>12. Client' = Client
  BY DEF Client
<1>13. Pointers'
  <2>1. clientDiode' \in [Client -> Seq(1 .. t)]
    <3>1. clientDiode[c] \in Seq(1 .. t) /\ p \in 1 .. t
      BY <1>4, <1>11
    <3>2. Append(clientDiode[c], p) \in Seq(1 .. t)
      BY <3>1
    <3> QED
      BY <1>7, <1>11, <3>2
  <2>2. current' \in 0 .. t
    BY <1>4, <1>7
  <2>3. \A i \in 1 .. Len(fDiode) : fDiode[i] = t + i
    BY <1>3 DEF Pointers
  <2> QED
    BY <1>7, <1>8, <1>9, <1>12, <2>1, <2>2, <2>3 DEF Pointers
<1>14. Unchanged'
  <2>1. Taken \in Nat /\ Taken' \in Nat /\ Taken <= Taken'
    BY <1>3, <1>9
  <2>2. \A q \in 1 .. Taken : envelope'[q] = envelope[q]
    BY <1>8
  <2> QED
    BY <1>7, <2>1, <2>2, UnchangedStays
<1>15. /\ clientTotals = [d \in Client |-> clientTotals[d]]
       /\ \A d \in Client : AreTotals(clientTotals[d])
  BY DEF InStep
<1>16. \A d \in Client :
         clientTotals'[d] = IF d = c THEN clientTotals[1] ELSE clientTotals[d]
  BY <1>6, <1>7, <1>15
<1>17. clientTotals'[1] = clientTotals[1]
  BY <1>4, <1>10, <1>16
<1>18. \A d \in Client :
         IF d < c THEN clientTotals[d] = clientTotals[1]
         ELSE LET s == Process(clientTotals[d], envelope[p], ForwarderTag)
              IN  s.env = envelope[p] /\ s.totals = clientTotals[1]
  BY <1>1, <1>2, <1>4 DEF InStep
<1>19. clientTotals' = [d \in Client |-> clientTotals'[d]]
  BY <1>7, <1>15
<1>20. \A d \in Client : AreTotals(clientTotals'[d])
  BY <1>10, <1>15, <1>16
<1>21. InStep'
  <2>1. CASE c = NumClients
    <3>1. \A d \in Client : d = c \/ d < c
      BY <1>10, <2>1 DEF Client
    <3>2. \A d \in Client : clientTotals'[d] = clientTotals'[1]
      BY <1>16, <1>17, <1>18, <3>1
    <3>3. current' = 0 /\ turn' = 1
      BY <1>7, <2>1
    <3> QED
      BY <1>10, <1>12, <1>19, <1>20, <3>2, <3>3 DEF InStep, AreTotals
  <2>2. CASE c # NumClients
    <3>1. current' = p /\ turn' = c + 1 /\ c + 1 \in Client /\ c + 1 # 1
      BY <1>7, <1>10, <2>2 DEF Client
    <3>2. \A d \in Client : d < c + 1 <=> d = c \/ d < c
      BY <1>10 DEF Client
    <3>3. \A d \in Client :
            IF d < c + 1 THEN clientTotals'[d] = clientTotals'[1]
            ELSE LET s == Process(clientTotals'[d], envelope'[p], ForwarderTag)
                 IN  s.env = envelope'[p] /\ s.totals = clientTotals'[1]
      BY <1>8, <1>16, <1>17, <1>18, <3>2
    <3>4. \A d \in Client :
            IF current' = 0 \/ d < turn'
              THEN clientTotals'[d] = clientTotals'[1]
              ELSE LET s == Process(clientTotals'[d], envelope'[current'], ForwarderTag)
                   IN  s.env = envelope'[current'] /\ s.totals = clientTotals'[1]
      BY <1>4, <3>1, <3>3
    <3> QED
      BY <1>4, <1>12, <1>19, <1>20, <3>1, <3>4 DEF InStep, AreTotals
  <2> QED
    BY <2>1, <2>2
<1>22. clientDiode'[1] = clientDiode[1]
  BY <1>4, <1>7, <1>10, <1>11
<1> QED
  BY <1>7, <1>8, <1>13, <1>14, <1>17, <1>21, <1>22

(* A client encodes an envelope as it is. *)
LEMMA EmitsKeeps ==
  ASSUME Pointers, Unchanged, InStep, NEW c \in Client, ClientEmits(c)
  PROVE  /\ Pointers' /\ Unchanged' /\ InStep'
         /\ Outgoing(c) \in Env
         /\ \E j \in 1 .. Len(clientDiode[c]) : Outgoing(c) = envelope[clientDiode[c][j]]
         /\ \A d \in Client : \A i \in 1 .. Len(clientDiode'[d]) :
              \E j \in 1 .. Len(clientDiode[d]) : clientDiode'[d][i] = clientDiode[d][j]
<1>1. PICK t \in Nat : t = Taken
  BY DEF Pointers
<1>2. PICK S : S = 1 .. t
  OBVIOUS
<1>3. PICK s : s = clientDiode[c]
  OBVIOUS
<1>4. clientDiode \in [Client -> Seq(S)] /\ s \in Seq(S)
  BY <1>1, <1>2, <1>3 DEF Pointers
<1>5. ~IsEmpty(s) /\ ClientSize \in Nat \ {0}
  BY <1>3, ForwarderAssumption DEF ClientEmits
<1>6. PICK k : k = Missed(s, ClientSize)
  OBVIOUS
<1>7. PICK p : p = NextOf(s, ClientSize)
  OBVIOUS
<1>8. PICK d : d = Rest(s, ClientSize)
  OBVIOUS
<1>9. /\ k \in 0 .. Len(s) - 1
      /\ p = s[k + 1]
      /\ p \in S
      /\ d \in Seq(S)
      /\ Len(d) = Len(s) - k - 1
      /\ \A i \in 1 .. Len(d) : d[i] = s[k + 1 + i]
  BY <1>4, <1>5, <1>6, <1>7, <1>8, ReadOfDiode
<1>10. p = s[k + 1]
  BY <1>9
<1>11. Outgoing(c) = envelope[p]
  BY <1>3, <1>7 DEF Outgoing
<1>12. envelope \in Seq(Env) /\ t <= Len(envelope)
  <2>1. envelope \in Seq(Env) /\ fDiode \in Seq(Nat)
    BY DEF Pointers
  <2>2. Len(envelope) \in Nat /\ Len(fDiode) \in Nat
    BY <2>1
  <2> QED
    BY <1>1, <2>1, <2>2 DEF Taken
<1>13. p \in 1 .. Len(envelope) /\ envelope[p] \in Env
  BY <1>2, <1>9, <1>12
<1>14. /\ encoded' = [encoded EXCEPT ![c] = Append(@, envelope[p])]
       /\ clientDiode' = [clientDiode EXCEPT ![c] = d]
       /\ UNCHANGED <<envelope, fDiode, current, turn, clientTotals>>
  BY <1>3, <1>8, <1>11 DEF ClientEmits
<1>15. Taken' = t
  BY <1>1, <1>14 DEF Taken
<1>16. Client' = Client
  BY DEF Client
<1>17. Pointers'
  <2>1. clientDiode' \in [Client -> Seq(1 .. t)]
    BY <1>2, <1>4, <1>9, <1>14
  <2>2. current \in 0 .. t /\ \A i \in 1 .. Len(fDiode) : fDiode[i] = t + i
    BY <1>1 DEF Pointers
  <2> QED
    BY <1>14, <1>15, <1>16, <2>1, <2>2 DEF Pointers
<1>18. Unchanged'
  <2>1. encoded \in [Client -> Seq(Env)]
    BY DEF Unchanged
  <2>2. encoded' \in [Client -> Seq(Env)]
    BY <1>13, <1>14, <2>1
  <2>3. envelope[p].n = p
    BY <1>13 DEF Pointers
  <2>4. ASSUME NEW a \in Client, NEW i \in 1 .. Len(encoded'[a])
        PROVE  /\ encoded'[a][i].n \in 1 .. t
               /\ encoded'[a][i] = envelope[encoded'[a][i].n]
    <3>1. encoded[a] \in Seq(Env)
      BY <2>1
    <3>2. \A j \in 1 .. Len(encoded[a]) :
            encoded[a][j].n \in 1 .. t /\ encoded[a][j] = envelope[encoded[a][j].n]
      BY <1>1 DEF Unchanged
    <3>3. CASE a # c
      <4>1. encoded'[a] = encoded[a]
        BY <1>14, <2>1, <3>3
      <4> QED
        BY <3>2, <4>1
    <3>4. CASE a = c
      <4>1. encoded'[a] = Append(encoded[a], envelope[p])
        BY <1>14, <2>1, <3>4
      <4>2. CASE i = Len(encoded[a]) + 1
        <5>1. encoded'[a][i] = envelope[p]
          BY <1>13, <3>1, <4>1, <4>2
        <5> QED
          BY <1>2, <1>9, <2>3, <5>1
      <4>3. CASE i # Len(encoded[a]) + 1
        <5>1. i \in 1 .. Len(encoded[a]) /\ encoded'[a][i] = encoded[a][i]
          BY <1>13, <3>1, <4>1, <4>3
        <5> QED
          BY <3>2, <5>1
      <4> QED
        BY <4>2, <4>3
    <3> QED
      BY <3>3, <3>4
  <2> QED
    BY <1>14, <1>15, <1>16, <2>2, <2>4 DEF Unchanged
<1>19. InStep'
  BY <1>14, <1>16 DEF InStep, AreTotals
<1>20. ASSUME NEW a \in Client, NEW i \in 1 .. Len(clientDiode'[a])
       PROVE  \E j \in 1 .. Len(clientDiode[a]) : clientDiode'[a][i] = clientDiode[a][j]
  <2>1. CASE a # c
    <3>1. clientDiode'[a] = clientDiode[a]
      BY <1>4, <1>14, <2>1
    <3> QED
      BY <3>1
  <2>2. CASE a = c
    <3>1. clientDiode'[a] = d /\ clientDiode[a] = s
      BY <1>3, <1>4, <1>14, <2>2
    <3>2. i \in 1 .. Len(d)
      BY <3>1
    <3>3. d[i] = s[k + 1 + i]
      BY <1>9, <3>2
    <3>4. k + 1 + i \in 1 .. Len(s)
      BY <1>4, <1>9, <3>2
    <3> QED
      BY <3>1, <3>3, <3>4
  <2> QED
    BY <2>1, <2>2
<1>21. k + 1 \in 1 .. Len(s)
  BY <1>4, <1>9
<1> QED
  BY <1>3, <1>10, <1>11, <1>13, <1>17, <1>18, <1>19, <1>20, <1>21

-----------------------------------------------------------------------------
(* The agents together. *)
ForwarderInv == Pointers /\ Unchanged /\ InStep

LEMMA SentEnvelopes ==
  /\ Sent \subseteq Env
  /\ \A e \in Env : setDefaultTags(e) \in Env
<1>1. ASSUME NEW e \in Sent PROVE e \in Env
  <2>1. e \in [n : {0}, name : {e.name}, delta : Nat, total : Nat, tag : {e.tag},
               deprecated : {e.deprecated}]
    BY PipelineAssumption DEF Sent
  <2>2. e.name \in Name /\ e.tag \in Tag /\ e.deprecated \in Tag
    BY DEF Name, Tag
  <2> QED
    BY <2>1, <2>2 DEF Env
<1>2. ASSUME NEW e \in Env PROVE setDefaultTags(e) \in Env
  <2>1. UDPTag \in Tag
    BY DEF Tag
  <2> QED
    BY <2>1 DEF setDefaultTags, addDefaultTags, Env
<1> QED
  BY <1>1, <1>2

LEMMA UdpStays == UdpInv /\ UNCHANGED v1Vars => UdpInv'
BY DEF UdpInv, v1Vars

LEMMA AgentStays == AgentInv /\ UNCHANGED agentVars => AgentInv'
BY DEF AgentInv, agentVars, AreTotals

LEMMA AveragerStays == AveragerInv /\ UNCHANGED averagerVars => AveragerInv'
BY DEF AveragerInv, averagerVars, decode

LEMMA ForwarderStays == ForwarderInv /\ UNCHANGED forwarderVars => ForwarderInv'
BY DEF ForwarderInv, Pointers, Unchanged, InStep, Taken, Client, AreTotals, forwarderVars

LEMMA PipelineStarts == Init => PipelineInv
<1> SUFFICES ASSUME Init PROVE PipelineInv
  OBVIOUS
<1>1. UdpInv
  BY DEF Init, V1Init, UdpInv, Empty
<1>2. AgentInv
  BY DEF Init, AgentInit, AgentInv, Empty, AreTotals, NoTotals
<1>3. AveragerInv
  BY AveragerStarts DEF Init, AgentInit
<1>4. 1 \in Client
  BY ForwarderAssumption DEF Client
<1>5. Taken = 0
  BY DEF Init, ForwarderInit, Taken, Empty
<1>6. Pointers
  BY <1>5 DEF Init, ForwarderInit, Pointers, Empty
<1>7. Unchanged
  BY DEF Init, ForwarderInit, Unchanged
<1>8. InStep
  BY <1>4 DEF Init, ForwarderInit, InStep, AreTotals, NoTotals
<1> QED
  BY <1>1, <1>2, <1>3, <1>6, <1>7, <1>8 DEF PipelineInv

LEMMA PipelineKeeps ==
  ASSUME PipelineInv, [Next]_vars
  PROVE  PipelineInv'
<1> SUFFICES UdpInv' /\ AgentInv' /\ AveragerInv' /\ ForwarderInv'
  BY DEF PipelineInv, ForwarderInv
<1>0. UdpInv /\ AgentInv /\ AveragerInv /\ ForwarderInv
  BY DEF PipelineInv, ForwarderInv
<1>1. CASE UNCHANGED vars
  <2>1. UNCHANGED v1Vars /\ UNCHANGED forwarderVars /\ UNCHANGED agentVars
        /\ UNCHANGED averagerVars
    BY <1>1 DEF vars
  <2> QED
    BY <1>0, <2>1, UdpStays, AgentStays, AveragerStays, ForwarderStays
<1>2. ASSUME NEW d \in Datagrams, ReadDatagram(d) PROVE PipelineInv'
  <2>1. StartReading(d) /\ UNCHANGED forwarderVars /\ UNCHANGED agentVars
        /\ UNCHANGED averagerVars
    BY <1>2 DEF ReadDatagram
  <2> QED
    BY <1>0, <2>1, ReadKeeps, AgentStays, AveragerStays, ForwarderStays
       DEF PipelineInv, ForwarderInv
<1>3. CASE DiscardDatagram
  <2>1. TakeDatagram /\ UNCHANGED forwarderVars /\ UNCHANGED agentVars
        /\ UNCHANGED averagerVars
    BY <1>3 DEF DiscardDatagram, Discard
  <2> QED
    BY <1>0, <2>1, TakeKeeps, AgentStays, AveragerStays, ForwarderStays
<1>4. CASE AgentWritesV1
  <2>1. TakeDatagram /\ UNCHANGED forwarderVars /\ UNCHANGED agentVars
        /\ UNCHANGED averagerVars
    BY <1>4 DEF AgentWritesV1, WriteV1, Unmarshalled
  <2> QED
    BY <1>0, <2>1, TakeKeeps, AgentStays, AveragerStays, ForwarderStays
<1>5. CASE ForwardDatagram
  <2>1. TakeDatagram /\ UNCHANGED agentVars /\ UNCHANGED averagerVars
    BY <1>5 DEF ForwardDatagram, Unmarshalled
  <2>2. UdpInv' /\ Datagram \in Datagrams
    BY <1>0, <2>1, TakeKeeps
  <2>3. Datagram.env \in Env
    BY <2>2, SentEnvelopes DEF Sent
  <2>4. ForwarderInv'
    <3>1. ASSUME ForwarderReceives(setDefaultTags(Datagram.env)) PROVE ForwarderInv'
      <4>1. PICK e : e = setDefaultTags(Datagram.env)
        OBVIOUS
      <4>2. e \in Env
        BY <2>3, <4>1, SentEnvelopes
      <4>3. ForwarderReceives(e)
        BY <3>1, <4>1
      <4> QED
        BY <1>0, <4>2, <4>3, ForwarderReceiveKeeps DEF ForwarderInv
    <3>2. ASSUME UNCHANGED forwarderVars PROVE ForwarderInv'
      BY <1>0, <3>2, ForwarderStays
    <3> QED
      BY <1>5, <3>1, <3>2 DEF ForwardDatagram
  <2> QED
    BY <1>0, <2>1, <2>2, <2>4, AgentStays, AveragerStays
<1>6. ASSUME NEW e \in Envelopes, SendEnvelope(e) PROVE PipelineInv'
  <2>1. ForwarderReceives(e) /\ UNCHANGED v1Vars /\ UNCHANGED agentVars
        /\ UNCHANGED averagerVars
    BY <1>6 DEF SendEnvelope
  <2>2. e \in Env
    BY SentEnvelopes DEF Sent
  <2> QED
    BY <1>0, <2>1, <2>2, UdpStays, AgentStays, AveragerStays, ForwarderReceiveKeeps
       DEF PipelineInv, ForwarderInv
<1>7. CASE Dispatch
  <2>1. (NextEnvelope \/ ClientWrite) /\ UNCHANGED v1Vars /\ UNCHANGED agentVars
        /\ UNCHANGED averagerVars
    BY <1>7 DEF Dispatch
  <2>2. ForwarderInv'
    BY <1>0, <2>1, NextKeeps, ClientWriteKeeps DEF ForwarderInv
  <2> QED
    BY <1>0, <2>1, <2>2, UdpStays, AgentStays, AveragerStays
<1>8. CASE EmitToAgent
  <2>1. /\ ClientEmits(1) /\ UNCHANGED v1Vars /\ UNCHANGED averagerVars
        /\ AgentReceives(Outgoing(1)) \/ UNCHANGED agentVars
    BY <1>8 DEF EmitToAgent
  <2>2. 1 \in Client
    BY ForwarderAssumption DEF Client
  <2>3. ForwarderInv' /\ Outgoing(1) \in Env
    BY <1>0, <2>1, <2>2, EmitsKeeps DEF ForwarderInv
  <2>4. AgentInv'
    BY <1>0, <2>1, <2>3, ReceiveKeeps, AgentStays
  <2> QED
    BY <1>0, <2>1, <2>3, <2>4, UdpStays, AveragerStays
<1>9. ASSUME NEW c \in Client \ {1}, EmitToOther(c) PROVE PipelineInv'
  <2>1. ClientEmits(c) /\ UNCHANGED v1Vars /\ UNCHANGED averagerVars
        /\ UNCHANGED agentVars
    BY <1>9 DEF EmitToOther
  <2>2. ForwarderInv'
    BY <1>0, <2>1, EmitsKeeps DEF ForwarderInv
  <2> QED
    BY <1>0, <2>1, <2>2, UdpStays, AgentStays, AveragerStays DEF PipelineInv, ForwarderInv
<1>10. CASE AgentStep
  <2>1. Transponder /\ UNCHANGED v1Vars /\ UNCHANGED forwarderVars
    BY <1>10 DEF AgentStep
  <2> QED
    BY <1>0, <2>1, TransponderKeeps, UdpStays, ForwarderStays
<1>11. CASE Clock
  <2>1. IntervalLapses /\ UNCHANGED v1Vars /\ UNCHANGED forwarderVars
    BY <1>11 DEF Clock
  <2>2. AgentInv' /\ UNCHANGED averagerVars
    BY <1>0, <2>1 DEF IntervalLapses, AgentInv, AreTotals
  <2> QED
    BY <1>0, <2>1, <2>2, UdpStays, AveragerStays, ForwarderStays
<1>12. CASE Tick
  <2>1. AveragerTick /\ UNCHANGED v1Vars /\ UNCHANGED forwarderVars
        /\ UNCHANGED agentVars
    BY <1>12 DEF Tick
  <2> QED
    BY <1>0, <2>1, TickKeeps, UdpStays, AgentStays, ForwarderStays
<1>13. PipelineInv' => UdpInv' /\ AgentInv' /\ AveragerInv' /\ ForwarderInv'
  BY DEF PipelineInv, ForwarderInv
<1> QED
  BY <1>1, <1>2, <1>3, <1>4, <1>5, <1>6, <1>7, <1>8, <1>9, <1>10, <1>11, <1>12,
     <1>13 DEF Next

LEMMA PipelineInvariance == Spec => []PipelineInv
<1>1. PipelineInv /\ [Next]_vars => PipelineInv'
  BY PipelineKeeps
<1> QED
  BY PipelineStarts, <1>1, PTL DEF Spec

(* Everything received is waiting, was passed on or was counted as dropped,   *)
(* once: in the UDP reader and in the agent's v2 path.                       *)
THEOREM EverythingAccounted == Spec => []Accounted
<1>1. PipelineInv => Accounted
  BY DEF PipelineInv, UdpInv, AgentInv, Accounted
<1> QED
  BY <1>1, PipelineInvariance, PTL

(* The gauge shows the average of the interval, however the words wrap.       *)
THEOREM AverageIsOfInterval == Spec => []AverageOfInterval
<1>1. PipelineInv => AverageOfInterval
  BY AverageFollows DEF PipelineInv
<1> QED
  BY <1>1, PipelineInvariance, PTL

(* All downstreams of the forwarder agent are told the same of an envelope,  *)
(* though every client changes the one they share.                           *)
THEOREM DownstreamsToldTheSame == Spec => []DownstreamsAgree
<1>1. PipelineInv => DownstreamsAgree
  <2> SUFFICES ASSUME PipelineInv, NEW c \in Client, NEW d \in Client,
                      NEW i \in DOMAIN encoded[c], NEW j \in DOMAIN encoded[d],
                      encoded[c][i].n = encoded[d][j].n
               PROVE  encoded[c][i] = encoded[d][j]
    BY DEF DownstreamsAgree
  <2>1. encoded[c] \in Seq(Env) /\ encoded[d] \in Seq(Env)
    BY DEF PipelineInv, Unchanged
  <2>2. i \in 1 .. Len(encoded[c]) /\ j \in 1 .. Len(encoded[d])
    BY <2>1
  <2>3. /\ encoded[c][i] = envelope[encoded[c][i].n]
        /\ encoded[d][j] = envelope[encoded[d][j].n]
    BY <2>2 DEF PipelineInv, Unchanged
  <2> QED
    BY <2>3
<1> QED
  BY <1>1, PipelineInvariance, PTL

-----------------------------------------------------------------------------
(* Totals and the ledger. *)
LEMMA Remembered ==
  ASSUME NEW t, NEW id, NEW x, NEW i
  PROVE  TotalOf(Remember(t, id, x), i) = IF i = id THEN x ELSE TotalOf(t, i)
BY DEF TotalOf, Remember

LEMMA RecordedStays ==
  ASSUME NEW l, NEW l2, Extends(l, l2), NEW e, Recorded(l, e)
  PROVE  Recorded(l2, e)
<1> SUFFICES ASSUME IsCounter(e)
             PROVE  /\ e.total # 0
                    /\ \E i \in 1 .. Len(l2) :
                         l2[i].n = e.n /\ e.total = ExpectedTotal(l2, l2[i].id, i)
  BY DEF Recorded
<1>1. PICK n \in Nat : n = Len(l)
  BY DEF Extends
<1>2. e.total # 0
  BY DEF Recorded
<1>3. PICK i \in 1 .. n : l[i].n = e.n /\ e.total = ExpectedTotal(l, l[i].id, i)
  BY <1>1 DEF Recorded
<1>4. l2[i] = l[i] /\ i \in 1 .. Len(l2) /\ i \in 0 .. n
  BY <1>1 DEF Extends
<1>5. ExpectedTotal(l2, l2[i].id, i) = ExpectedTotal(l, l[i].id, i)
  BY <1>1, <1>4, ExpectedBefore
<1> QED
  BY <1>2, <1>3, <1>4, <1>5

(* An aggregator adopts the total of a recorded counter. *)
LEMMA RecordedProcessed ==
  ASSUME NEW l, NEW e \in Env, Recorded(l, e), NEW t, AreTotals(t), NEW d \in Tag
  PROVE  Recorded(l, Process(t, e, d).env)
<1>1. PICK f : f = Process(t, e, d).env
  OBVIOUS
<1>2. /\ f.n = e.n /\ f.name = e.name
      /\ IsCounter(e) /\ e.total # 0 => f.total = e.total
  BY <1>1, Processed
<1> QED
  BY <1>1, <1>2 DEF Recorded, IsCounter

(* The entry of a counter and what the first client's aggregator makes of it *)
(* agree.                                                                    *)
LEMMA EntryTotals ==
  ASSUME NEW l \in Seq(Entries), NEW T, AreTotals(T), NEW e \in Env, IsCounter(e),
         \A id \in Name \X Tag : TotalOf(T, id) = ExpectedTotal(l, id, Len(l)),
         NEW x \in Entries,
         x.id = counterID(TagEnvelope(e, ForwarderTag)),
         x.delta = e.delta, x.total = e.total,
         x.reset <=> resetTotals(T) # T
  PROVE  LET r  == Process(T, e, ForwarderTag)
             l2 == Append(l, x)
         IN  /\ Extends(l, l2)
             /\ \A id \in Name \X Tag :
                  TotalOf(r.totals, id) = ExpectedTotal(l2, id, Len(l2))
             /\ r.env.total = ExpectedTotal(l2, x.id, Len(l2))
<1>1. PICK n \in Nat : n = Len(l)
  OBVIOUS
<1>2. PICK l2 : l2 = Append(l, x)
  OBVIOUS
<1>3. PICK f : f = TagEnvelope(e, ForwarderTag)
  OBVIOUS
<1>4. f \in Env /\ f.delta = e.delta /\ f.total = e.total /\ f.name = e.name
      /\ e.delta \in Nat /\ e.total \in Nat
  <2>1. ForwarderTag \in Tag
    BY DEF Tag
  <2>2. f \in Env /\ f = [e EXCEPT !.tag = f.tag]
    BY <1>3, <2>1, Tagged
  <2> QED
    BY <2>2 DEF Env
<1>5. /\ l2 \in Seq(Entries) /\ Len(l2) = n + 1 /\ l2[n + 1] = x
      /\ \A i \in 1 .. n : l2[i] = l[i]
  BY <1>1, <1>2
<1>6. Extends(l, l2)
  <2>1. \A i \in 1 .. n + 1 : l2[i] \in Entries
    BY <1>5
  <2>2. \A i \in 1 .. n + 1 : l2[i].delta \in Nat /\ l2[i].total \in Nat
    BY <2>1 DEF Entries
  <2> QED
    BY <1>1, <1>5, <2>2 DEF Extends
<1>7. PICK kept : kept = resetTotals(T)
  OBVIOUS
<1>8. PICK total : total = NewTotal(kept, x.id, f)
  OBVIOUS
<1>9. PICK r : r = Process(T, e, ForwarderTag)
  OBVIOUS
<1>10. r = [env |-> [f EXCEPT !.total = total], totals |-> Remember(kept, x.id, total)]
  BY <1>3, <1>7, <1>8, <1>9 DEF Process
<1>11. r.env.total = total /\ r.totals = Remember(kept, x.id, total)
  BY <1>4, <1>10 DEF Env
<1>12. total = IF x.total = 0 THEN TotalOf(kept, x.id) + x.delta ELSE x.total
  BY <1>4, <1>8 DEF NewTotal
<1>13. x.id \in Name \X Tag
  BY DEF Entries
<1>14. x.delta \in Nat
  BY DEF Entries
<1>15. ASSUME NEW id \in Name \X Tag
       PROVE  ExpectedTotal(l2, id, n + 1) =
                IF id = x.id THEN total ELSE TotalOf(kept, id)
  <2>1. CASE x.reset
    <3>1. kept = NoTotals
      BY <1>7, <2>1 DEF resetTotals
    <3>2. TotalOf(kept, id) = 0 /\ TotalOf(kept, x.id) = 0
      BY <3>1 DEF TotalOf, NoTotals
    <3>3. ExpectedTotal(l2, id, n + 1) =
            IF x.id # id THEN 0 ELSE IF x.total = 0 THEN x.delta ELSE x.total
      BY <1>1, <1>5, <1>6, <2>1, ExpectedAfterReset
    <3>4. 0 + x.delta = x.delta
      BY <1>14
    <3> QED
      BY <1>12, <3>2, <3>3, <3>4
  <2>2. CASE ~x.reset
    <3>1. kept = T
      BY <1>7, <2>2
    <3>2. /\ TotalOf(kept, id) = ExpectedTotal(l, id, n)
          /\ TotalOf(kept, x.id) = ExpectedTotal(l, x.id, n)
      BY <1>1, <1>13, <3>1
    <3>3. ExpectedTotal(l2, id, n + 1) =
            IF x.id # id THEN ExpectedTotal(l, id, n)
            ELSE IF x.total = 0 THEN ExpectedTotal(l, id, n) + x.delta ELSE x.total
      BY <1>1, <1>5, <1>6, <2>2, ExpectedAfter
    <3> QED
      BY <1>12, <3>2, <3>3
  <2> QED
    BY <2>1, <2>2
<1>16. \A id \in Name \X Tag : TotalOf(r.totals, id) = ExpectedTotal(l2, id, n + 1)
  BY <1>11, <1>15, Remembered
<1>17. r.env.total = ExpectedTotal(l2, x.id, n + 1)
  BY <1>11, <1>13, <1>15
<1> QED
  BY <1>2, <1>5, <1>6, <1>9, <1>16, <1>17

LEMMA LedgerStays ==
  ASSUME LedgerInv, UNCHANGED <<ledger, envelope>>,
         clientTotals'[1] = clientTotals[1],
         \A i \in 1 .. Len(clientDiode'[1]) :
           \E j \in 1 .. Len(clientDiode[1]) : clientDiode'[1][i] = clientDiode[1][j],
         RecordedAll(ledger, aDiode'), RecordedAll(ledger, batch'),
         RecordedAll(ledger, doppler')
  PROVE  LedgerInv'
<1>1. ledger' = ledger /\ envelope' = envelope
  OBVIOUS
<1>2. \A i \in 1 .. Len(clientDiode'[1]) : Recorded(ledger, envelope[clientDiode'[1][i]])
  BY DEF LedgerInv
<1>3. \A id \in Name \X Tag :
        TotalOf(clientTotals'[1], id) = ExpectedTotal(ledger, id, Len(ledger))
  BY DEF LedgerInv
<1>4. /\ ledger \in Seq(Entries)
      /\ \A p \in 1 .. Len(envelope) : Changes(envelope[p])
  BY DEF LedgerInv
<1> QED
  BY <1>1, <1>2, <1>3, <1>4 DEF LedgerInv

LEMMA LedgerReceives ==
  ASSUME LedgerInv, ForwarderInv, NEW e \in Env, Changes(e), ForwarderReceives(e),
         UNCHANGED <<aDiode, batch, doppler>>
  PROVE  LedgerInv'
<1>1. PICK x \in Nat : /\ x = Len(envelope)
                       /\ Len(envelope') = x + 1
                       /\ envelope'[x + 1] = [e EXCEPT !.n = x + 1]
                       /\ \A p \in 1 .. x : envelope'[p] = envelope[p]
  BY ForwarderReceiveKeeps DEF ForwarderInv
<1>2. Changes(envelope'[x + 1])
  BY <1>1 DEF Changes, IsCounter, Env
<1>3. \A p \in 1 .. x : Changes(envelope'[p])
  BY <1>1 DEF LedgerInv
<1>4. \A p \in 1 .. x + 1 : Changes(envelope'[p])
  <2>1. \A p \in 1 .. x + 1 : p \in 1 .. x \/ p = x + 1
    OBVIOUS
  <2> QED
    BY <1>2, <1>3, <2>1
<1>5. UNCHANGED <<ledger, clientTotals, clientDiode>>
  BY DEF ForwarderReceives
<1>6. ASSUME NEW i \in 1 .. Len(clientDiode[1])
      PROVE  Recorded(ledger, envelope'[clientDiode[1][i]])
  <2>1. PICK t \in Nat : t = Taken
    BY DEF ForwarderInv, Pointers
  <2>2. clientDiode[1] \in Seq(1 .. t)
    BY <2>1, ForwarderAssumption DEF ForwarderInv, Pointers, Client
  <2>3. t <= x
    <3>1. Len(fDiode) \in Nat
      BY DEF ForwarderInv, Pointers
    <3> QED
      BY <1>1, <2>1, <3>1 DEF Taken
  <2>4. clientDiode[1][i] \in 1 .. x
    BY <2>2, <2>3
  <2> QED
    BY <1>1, <2>4 DEF LedgerInv
<1>7. /\ ledger \in Seq(Entries)
      /\ \A id \in Name \X Tag :
           TotalOf(clientTotals[1], id) = ExpectedTotal(ledger, id, Len(ledger))
      /\ RecordedAll(ledger, aDiode) /\ RecordedAll(ledger, batch)
      /\ RecordedAll(ledger, doppler)
  BY DEF LedgerInv
<1> QED
  BY <1>1, <1>4, <1>5, <1>6, <1>7 DEF LedgerInv

(* The first client writes the ledger's entry. *)
LEMMA LedgerNext ==
  ASSUME LedgerInv, ForwarderInv, NextEnvelope, UNCHANGED <<aDiode, batch, doppler>>
  PROVE  LedgerInv'
<1>1. PICK p \in 1 .. Len(envelope) :
              /\ Taken < p
              /\ HandTo(1, p)
              /\ envelope' = [envelope EXCEPT ![p] =
                                Process(clientTotals[1], envelope[p], ForwarderTag).env]
  BY NextKeeps DEF ForwarderInv
<1>2. PICK T : T = clientTotals[1]
  OBVIOUS
<1>3. PICK e : e = envelope[p]
  OBVIOUS
<1>4. PICK r : r = Process(T, e, ForwarderTag)
  OBVIOUS
<1>5. PICK x : x = Entry(p)
  OBVIOUS
<1>6. 1 \in Client /\ ForwarderTag \in Tag
  BY ForwarderAssumption DEF Client, Tag
<1>7. envelope \in Seq(Env) /\ e \in Env /\ e.n = p /\ AreTotals(T) /\ Changes(e)
  BY <1>2, <1>3, <1>6 DEF ForwarderInv, Pointers, InStep, LedgerInv
<1>8. /\ r.env \in Env
      /\ r.env.n = p /\ r.env.name = e.name /\ r.env.delta = e.delta
      /\ IsCounter(e) => r.env.total # 0
  <2>1. /\ r.env \in Env
        /\ r.env.n = e.n /\ r.env.name = e.name /\ r.env.delta = e.delta
        /\ IsCounter(e) /\ (e.delta # 0 \/ e.total # 0) => r.env.total # 0
    <3>1. e \in Env /\ ForwarderTag \in Tag /\ AreTotals(T)
      BY ONLY <1>6, <1>7
    <3> QED
      BY ONLY <1>4, <3>1, Processed
  <2>2. IsCounter(e) => e.delta # 0 \/ e.total # 0
    BY <1>7, Zenon DEF Changes
  <2> QED
    BY <1>7, <2>1, <2>2
<1>9. IsCounter(r.env) <=> IsCounter(e)
  BY <1>8 DEF IsCounter
<1>10. /\ envelope' = [envelope EXCEPT ![p] = r.env]
       /\ clientTotals' = [clientTotals EXCEPT ![1] = r.totals]
       /\ clientDiode' = [clientDiode EXCEPT ![1] = Append(@, p)]
       /\ ledger' = IF IsCounter(e) THEN Append(ledger, x) ELSE ledger
  BY <1>1, <1>2, <1>3, <1>4, <1>5, <1>9 DEF HandTo, Set
<1>11. /\ Len(envelope') = Len(envelope)
       /\ envelope'[p] = r.env
       /\ \A q \in 1 .. Len(envelope) : q # p => envelope'[q] = envelope[q]
  BY <1>1, <1>7, <1>8, <1>10
<1>12. clientTotals'[1] = r.totals
  BY <1>6, <1>10 DEF ForwarderInv, InStep
<1>13. PICK s : s = clientDiode[1]
  OBVIOUS
<1>14. PICK t \in Nat : t = Taken
  BY DEF ForwarderInv, Pointers
<1>15. s \in Seq(1 .. t) /\ clientDiode'[1] = Append(s, p)
  BY <1>6, <1>10, <1>13, <1>14 DEF ForwarderInv, Pointers
<1>16. t < p /\ p \in Nat /\ t <= Len(envelope)
  BY <1>1, <1>7, <1>14
<1>17. \A q \in 1 .. Len(envelope') : Changes(envelope'[q])
  <2>1. \A q \in 1 .. Len(envelope) : Changes(envelope[q])
    BY DEF LedgerInv
  <2>2. Changes(r.env)
    BY <1>8, <1>9 DEF Changes
  <2> QED
    BY <1>11, <2>1, <2>2
<1>18. ASSUME Recorded(ledger', r.env),
              \A f : Recorded(ledger, f) => Recorded(ledger', f)
       PROVE  /\ \A i \in 1 .. Len(clientDiode'[1]) :
                   Recorded(ledger', envelope'[clientDiode'[1][i]])
              /\ RecordedAll(ledger', aDiode') /\ RecordedAll(ledger', batch')
              /\ RecordedAll(ledger', doppler')
  <2>1. ASSUME NEW i \in 1 .. Len(Append(s, p))
        PROVE  Recorded(ledger', envelope'[Append(s, p)[i]])
    <3>1. Len(s) \in Nat /\ Len(Append(s, p)) = Len(s) + 1
      BY <1>15
    <3>2. CASE i = Len(s) + 1
      <4>1. Append(s, p)[i] = p
        BY <1>15, <3>2
      <4> QED
        BY <1>11, <1>18, <4>1
    <3>3. CASE i # Len(s) + 1
      <4>1. i \in 1 .. Len(s)
        BY <3>1, <3>3
      <4>2. Append(s, p)[i] = s[i] /\ s[i] \in 1 .. t
        BY <1>15, <4>1
      <4>3. s[i] \in 1 .. Len(envelope) /\ s[i] # p
        BY <1>7, <1>16, <4>2
      <4>4. envelope'[s[i]] = envelope[s[i]]
        BY <1>11, <4>3
      <4>5. Recorded(ledger, envelope[s[i]])
        BY <1>13, <4>1 DEF LedgerInv
      <4> QED
        BY <1>18, <4>2, <4>4, <4>5
    <3> QED
      BY <3>2, <3>3
  <2>2. /\ RecordedAll(ledger, aDiode) /\ RecordedAll(ledger, batch)
        /\ RecordedAll(ledger, doppler)
    BY DEF LedgerInv
  <2>3. /\ RecordedAll(ledger', aDiode) /\ RecordedAll(ledger', batch)
        /\ RecordedAll(ledger', doppler)
    BY <1>18, <2>2 DEF RecordedAll
  <2> QED
    BY <1>15, <2>1, <2>3
<1>19. CASE ~IsCounter(e)
  <2>1. ledger' = ledger /\ r.totals = T
    BY <1>4, <1>10, <1>19 DEF Process
  <2>2. Recorded(ledger', r.env)
    BY <1>9, <1>19 DEF Recorded
  <2>3. \A f : Recorded(ledger, f) => Recorded(ledger', f)
    BY <2>1
  <2>4. \A id \in Name \X Tag :
          TotalOf(clientTotals'[1], id) = ExpectedTotal(ledger', id, Len(ledger'))
    BY <1>2, <1>12, <2>1 DEF LedgerInv
  <2>5. ledger' \in Seq(Entries)
    BY <2>1 DEF LedgerInv
  <2> QED
    BY <1>17, <1>18, <2>2, <2>3, <2>4, <2>5 DEF LedgerInv
<1>20. CASE IsCounter(e)
  <2>1. PICK l \in Seq(Entries) : l = ledger
    BY DEF LedgerInv
  <2>2. PICK f : f = TagEnvelope(e, ForwarderTag)
    OBVIOUS
  <2>3. f \in Env /\ f = [e EXCEPT !.tag = f.tag]
    BY <1>6, <1>7, <2>2, Tagged
  <2>4. f.delta = e.delta /\ f.total = e.total /\ f.name \in Name /\ f.tag \in Tag
        /\ e.delta \in Nat /\ e.total \in Nat
    BY <1>7, <2>3 DEF Env
  <2>5. x = [n |-> p, id |-> counterID(f), delta |-> f.delta, total |-> f.total,
             reset |-> resetTotals(T) # T]
    BY <1>2, <1>3, <1>5, <2>2 DEF Entry
  <2>6. x \in Entries /\ x.n = p /\ x.id = counterID(f) /\ x.delta = e.delta
        /\ x.total = e.total /\ (x.reset <=> resetTotals(T) # T)
    <3>1. counterID(f) \in Name \X Tag
      BY <2>4 DEF counterID
    <3> QED
      BY <1>16, <2>4, <2>5, <3>1 DEF Entries
  <2>7. PICK l2 : l2 = Append(l, x)
    OBVIOUS
  <2>8. /\ Extends(l, l2)
        /\ \A id \in Name \X Tag :
             TotalOf(r.totals, id) = ExpectedTotal(l2, id, Len(l2))
        /\ r.env.total = ExpectedTotal(l2, x.id, Len(l2))
    <3>1. \A id \in Name \X Tag : TotalOf(T, id) = ExpectedTotal(l, id, Len(l))
      BY <1>2, <2>1 DEF LedgerInv
    <3> QED
      BY <1>4, <1>7, <1>20, <2>2, <2>6, <2>7, <3>1, EntryTotals
  <2>9. l2 \in Seq(Entries) /\ Len(l2) \in 1 .. Len(l2) /\ l2[Len(l2)] = x
    BY <2>6, <2>7
  <2>10. ledger' = l2
    BY <1>10, <1>20, <2>1, <2>7
  <2>11. Recorded(l2, r.env)
    BY <1>8, <1>20, <2>6, <2>8, <2>9 DEF Recorded
  <2>12. \A g : Recorded(l, g) => Recorded(l2, g)
    BY <2>8, RecordedStays
  <2> QED
    BY <1>12, <1>17, <1>18, <2>1, <2>8, <2>9, <2>10, <2>11, <2>12 DEF LedgerInv
<1> QED
  BY <1>19, <1>20

(* The agent passes totals on. *)
LEMMA LedgerTransponder ==
  ASSUME LedgerInv, AgentInv, Transponder, UNCHANGED forwarderVars
  PROVE  LedgerInv'
<1>1. PICK b \in Seq(Env) :
           /\ Submitted(b) \/ Kept(b)
           /\ \/ b = batch
              \/ /\ ~IsEmpty(aDiode)
                 /\ b = Append(batch, NextOf(aDiode, AgentSize))
           /\ \A i \in 1 .. Len(aDiode') :
                \E j \in 1 .. Len(aDiode) : aDiode'[i] = aDiode[j]
  BY TransponderStep
<1>2. /\ aDiode \in Seq(Env) /\ batch \in Seq(Env) /\ doppler \in Seq(Env)
      /\ RecordedAll(ledger, aDiode) /\ RecordedAll(ledger, batch)
      /\ RecordedAll(ledger, doppler)
  BY DEF AgentInv, LedgerInv
<1>3. RecordedAll(ledger, aDiode')
  BY <1>1, <1>2 DEF RecordedAll
<1>4. RecordedAll(ledger, b)
  <2>1. CASE b = batch
    BY <1>2, <2>1
  <2>2. CASE ~IsEmpty(aDiode) /\ b = Append(batch, NextOf(aDiode, AgentSize))
    <3>1. PICK e : e = NextOf(aDiode, AgentSize)
      OBVIOUS
    <3>2. AgentSize \in Nat \ {0}
      BY AgentV2Assumption
    <3>3. PICK k : k = Missed(aDiode, AgentSize)
      OBVIOUS
    <3>4. e = aDiode[k + 1] /\ e \in Env /\ k \in 0 .. Len(aDiode) - 1
      BY <1>2, <2>2, <3>1, <3>2, <3>3, ReadOfDiode
    <3>5. k + 1 \in 1 .. Len(aDiode)
      BY <1>2, <3>4
    <3>6. Recorded(ledger, e)
      BY <1>2, <3>4, <3>5 DEF RecordedAll
    <3>7. b = Append(batch, e)
      BY <2>2, <3>1
    <3>8. ASSUME NEW i \in 1 .. Len(b) PROVE Recorded(ledger, b[i])
      <4>1. CASE i = Len(batch) + 1
        <5>1. b[i] = e
          BY <1>2, <3>4, <3>7, <4>1
        <5> QED
          BY <3>6, <5>1
      <4>2. CASE i # Len(batch) + 1
        <5>1. i \in 1 .. Len(batch) /\ b[i] = batch[i]
          BY <1>2, <3>4, <3>7, <4>2
        <5> QED
          BY <1>2, <5>1 DEF RecordedAll
      <4> QED
        BY <4>1, <4>2
    <3> QED
      BY <3>8 DEF RecordedAll
  <2> QED
    BY <1>1, <2>1, <2>2
<1>5. RecordedAll(ledger, batch')
  BY <1>1, <1>4 DEF Submitted, Kept, RecordedAll
<1>6. RecordedAll(ledger, doppler')
  <2>1. CASE doppler' = doppler
    BY <1>2, <2>1
  <2>2. ASSUME NEW envs \in Seq(Env),
               Len(envs) = Len(b),
               \A i \in 1 .. Len(b) :
                 \E t : AreTotals(t) /\ envs[i] = Process(t, b[i], AgentTag).env,
               doppler' = doppler \o envs
        PROVE  RecordedAll(ledger, doppler')
    <3>1. ASSUME NEW i \in 1 .. Len(envs) PROVE Recorded(ledger, envs[i])
      <4>1. i \in 1 .. Len(b)
        BY <2>2
      <4>2. PICK t : AreTotals(t) /\ envs[i] = Process(t, b[i], AgentTag).env
        BY <2>2, <4>1
      <4>3. b[i] \in Env /\ Recorded(ledger, b[i]) /\ AgentTag \in Tag
        BY <1>4, <4>1 DEF RecordedAll, Tag
      <4>4. Recorded(ledger, Process(t, b[i], AgentTag).env)
        BY <4>2, <4>3, RecordedProcessed
      <4> QED
        BY <4>2, <4>4
    <3>2. PICK s : s = doppler \o envs
      OBVIOUS
    <3>3. /\ Len(s) = Len(doppler) + Len(envs)
          /\ \A i \in 1 .. Len(doppler) : s[i] = doppler[i]
          /\ \A i \in Len(doppler) + 1 .. Len(s) : s[i] = envs[i - Len(doppler)]
      BY <1>2, <3>2
    <3>4. Len(doppler) \in Nat /\ Len(envs) \in Nat
      BY <1>2
    <3>5. ASSUME NEW i \in 1 .. Len(s) PROVE Recorded(ledger, s[i])
      <4>1. CASE i <= Len(doppler)
        <5>1. i \in 1 .. Len(doppler)
          BY <3>4, <4>1
        <5> QED
          BY <1>2, <3>3, <5>1 DEF RecordedAll
      <4>2. CASE ~(i <= Len(doppler))
        <5>1. i \in Len(doppler) + 1 .. Len(s) /\ i - Len(doppler) \in 1 .. Len(envs)
          BY <3>3, <3>4, <4>2
        <5> QED
          BY <3>1, <3>3, <5>1
      <4> QED
        BY <4>1, <4>2
    <3> QED
      BY <2>2, <3>2, <3>5 DEF RecordedAll
  <2>3. doppler' = doppler \/
          \E envs \in Seq(Env) :
            /\ Len(envs) = Len(b)
            /\ \A i \in 1 .. Len(b) :
                 \E t : AreTotals(t) /\ envs[i] = Process(t, b[i], AgentTag).env
            /\ doppler' = doppler \o envs
    <3>1. Kept(b) => doppler' = doppler
      BY DEF Kept
    <3>2. ASSUME Submitted(b) PROVE
            doppler' = doppler \/
            \E envs \in Seq(Env) :
              /\ Len(envs) = Len(b)
              /\ \A i \in 1 .. Len(b) :
                   \E t : AreTotals(t) /\ envs[i] = Process(t, b[i], AgentTag).env
              /\ doppler' = doppler \o envs
      BY <3>2, Zenon DEF Submitted
    <3> QED
      BY <1>1, <3>1, <3>2
  <2> QED
    BY <2>1, <2>2, <2>3
<1>7. /\ UNCHANGED <<ledger, envelope>>
      /\ clientTotals'[1] = clientTotals[1] /\ clientDiode' = clientDiode
  BY DEF forwarderVars
<1> QED
  BY <1>3, <1>5, <1>6, <1>7, LedgerStays

LEMMA LedgerEmits ==
  ASSUME LedgerInv, PipelineInv, NEW c \in Client, ClientEmits(c),
         \/ c = 1 /\ AgentReceives(Outgoing(1))
         \/ UNCHANGED agentVars
  PROVE  LedgerInv'
<1>1. 1 \in Client
  BY ForwarderAssumption DEF Client
<1>2. /\ Outgoing(c) \in Env
      /\ \E j \in 1 .. Len(clientDiode[c]) : Outgoing(c) = envelope[clientDiode[c][j]]
      /\ \A i \in 1 .. Len(clientDiode'[1]) :
           \E j \in 1 .. Len(clientDiode[1]) : clientDiode'[1][i] = clientDiode[1][j]
  BY <1>1, EmitsKeeps DEF PipelineInv
<1>3. UNCHANGED <<ledger, envelope, clientTotals>>
  BY DEF ClientEmits
<1>4. /\ aDiode \in Seq(Env)
      /\ RecordedAll(ledger, aDiode) /\ RecordedAll(ledger, batch)
      /\ RecordedAll(ledger, doppler)
  BY DEF PipelineInv, AgentInv, LedgerInv
<1>5. CASE UNCHANGED agentVars
  BY <1>2, <1>3, <1>4, <1>5, LedgerStays DEF agentVars
<1>6. CASE c = 1 /\ AgentReceives(Outgoing(1))
  <2>1. PICK e \in Env : e = Outgoing(1)
    BY <1>2, <1>6
  <2>2. Recorded(ledger, e)
    BY <1>2, <1>6, <2>1 DEF LedgerInv
  <2>3. aDiode' = Append(aDiode, e) /\ UNCHANGED <<batch, doppler>>
    BY <1>6, <2>1 DEF AgentReceives, Set
  <2>4. ASSUME NEW i \in 1 .. Len(Append(aDiode, e))
        PROVE  Recorded(ledger, Append(aDiode, e)[i])
    <3>1. CASE i = Len(aDiode) + 1
      BY <1>4, <2>2, <3>1
    <3>2. CASE i # Len(aDiode) + 1
      <4>1. i \in 1 .. Len(aDiode) /\ Append(aDiode, e)[i] = aDiode[i]
        BY <1>4, <3>2
      <4> QED
        BY <1>4, <4>1 DEF RecordedAll
    <3> QED
      BY <3>1, <3>2
  <2>5. RecordedAll(ledger, aDiode')
    BY <2>3, <2>4 DEF RecordedAll
  <2> QED
    BY <1>2, <1>3, <1>4, <2>3, <2>5, LedgerStays
<1> QED
  BY <1>5, <1>6

LEMMA LedgerStarts == Init => LedgerInv
<1> SUFFICES ASSUME Init PROVE LedgerInv
  OBVIOUS
<1>1. /\ envelope = <<>> /\ ledger = <<>> /\ aDiode = <<>> /\ batch = <<>>
      /\ doppler = <<>>
      /\ clientDiode = [c \in Client |-> <<>>]
      /\ clientTotals = [c \in Client |-> NoTotals]
  BY DEF Init, ForwarderInit, AgentInit, Empty
<1>2. clientDiode[1] = <<>> /\ clientTotals[1] = NoTotals
  BY <1>1, ForwarderAssumption DEF Client
<1>3. PICK l : l = <<>> /\ l \in Seq(Entries) /\ Len(l) = 0
  <2>1. <<>> \in Seq(Entries) /\ Len(<<>>) = 0
    BY EmptySeq
  <2> QED
    BY <2>1
<1>4. ASSUME NEW id \in Name \X Tag PROVE ExpectedTotal(l, id, 0) = 0
  <2>1. PICK f : f = Increments(l, id)
    OBVIOUS
  <2>2. IsSum(f, l, id, 0)
    BY <1>3, <2>1, IncrementsAreSums
  <2>3. f[0] = 0
    BY <2>2 DEF IsSum
  <2>4. Given(l, id, 0) = {} /\ Base(l, id, 0) = 0
    <3>1. Base(l, id, 0) \in 0 .. 0 /\ Given(l, id, 0) \in SUBSET (1 .. 0)
      BY BaseBounds
    <3> QED
      BY <3>1
  <2> QED
    BY <2>1, <2>3, <2>4, ExpectedIs
<1>5. \A id \in Name \X Tag : TotalOf(NoTotals, id) = 0
  BY DEF TotalOf, NoTotals
<1>6. \A s : s = <<>> => RecordedAll(ledger, s)
  BY DEF RecordedAll
<1> QED
  BY <1>1, <1>2, <1>3, <1>4, <1>5, <1>6 DEF LedgerInv

LEMMA LedgerKeeps ==
  ASSUME CountersChange, PipelineInv, LedgerInv, [Next]_vars
  PROVE  LedgerInv'
<1>0. ForwarderInv /\ AgentInv
  BY DEF PipelineInv, ForwarderInv
<1>a. ASSUME UNCHANGED forwarderVars, UNCHANGED <<aDiode, batch, doppler>>
      PROVE  LedgerInv'
  BY <1>a DEF LedgerInv, RecordedAll, forwarderVars
<1>1. CASE UNCHANGED vars
  BY <1>1, <1>a DEF vars, agentVars
<1>2. ASSUME NEW d \in Datagrams, ReadDatagram(d) PROVE LedgerInv'
  BY <1>2, <1>a DEF ReadDatagram, agentVars
<1>3. CASE DiscardDatagram \/ AgentWritesV1
  BY <1>3, <1>a DEF DiscardDatagram, AgentWritesV1, agentVars
<1>4. CASE ForwardDatagram
  <2>1. TakeDatagram /\ UNCHANGED agentVars
    BY <1>4 DEF ForwardDatagram, Unmarshalled
  <2>2. Datagram \in Datagrams
    BY <2>1, TakeKeeps DEF PipelineInv
  <2>3. PICK e : e = Datagram.env
    OBVIOUS
  <2>4. e \in Sent /\ e \in Env
    BY <2>2, <2>3, SentEnvelopes DEF Sent
  <2>5. Changes(e)
    BY <2>4 DEF CountersChange
  <2>6. PICK f : f = setDefaultTags(e)
    OBVIOUS
  <2>7. f \in Env
    BY <2>4, <2>6, SentEnvelopes
  <2>8. f.name = e.name /\ f.delta = e.delta /\ f.total = e.total
    BY <2>4, <2>6 DEF setDefaultTags, addDefaultTags, Env
  <2>9. Changes(f)
    BY <2>5, <2>8 DEF Changes, IsCounter
  <2>10. ForwarderReceives(f) \/ UNCHANGED forwarderVars
    BY <1>4, <2>3, <2>6 DEF ForwardDatagram
  <2> QED
    BY <1>0, <1>a, <2>1, <2>7, <2>9, <2>10, LedgerReceives DEF agentVars
<1>5. ASSUME NEW e \in Envelopes, SendEnvelope(e) PROVE LedgerInv'
  <2>1. ForwarderReceives(e) /\ UNCHANGED agentVars
    BY <1>5 DEF SendEnvelope
  <2>2. e \in Env /\ Changes(e)
    BY SentEnvelopes DEF Sent, CountersChange
  <2> QED
    BY <1>0, <2>1, <2>2, LedgerReceives DEF agentVars
<1>6. CASE Dispatch
  <2>1. (NextEnvelope \/ ClientWrite) /\ UNCHANGED agentVars
    BY <1>6 DEF Dispatch
  <2>2. CASE NextEnvelope
    BY <1>0, <2>1, <2>2, LedgerNext DEF agentVars
  <2>3. CASE ClientWrite
    <3>1. /\ envelope' = envelope /\ ledger' = ledger
          /\ clientTotals'[1] = clientTotals[1]
          /\ clientDiode'[1] = clientDiode[1]
      BY <1>0, <2>3, ClientWriteKeeps DEF ForwarderInv
    <3>2. /\ RecordedAll(ledger, aDiode') /\ RecordedAll(ledger, batch')
          /\ RecordedAll(ledger, doppler')
      BY <2>1 DEF LedgerInv, agentVars
    <3> QED
      BY <3>1, <3>2, LedgerStays
  <2> QED
    BY <2>1, <2>2, <2>3
<1>7. CASE EmitToAgent
  <2>1. 1 \in Client
    BY ForwarderAssumption DEF Client
  <2> QED
    BY <1>7, <2>1, LedgerEmits DEF EmitToAgent
<1>8. ASSUME NEW c \in Client \ {1}, EmitToOther(c) PROVE LedgerInv'
  <2>1. ClientEmits(c) /\ UNCHANGED agentVars
    BY <1>8 DEF EmitToOther
  <2> QED
    BY <2>1, LedgerEmits
<1>9. CASE AgentStep
  BY <1>0, <1>9, LedgerTransponder DEF AgentStep
<1>10. CASE Clock
  BY <1>10, <1>a DEF Clock, IntervalLapses
<1>11. CASE Tick
  BY <1>11, <1>a DEF Tick, agentVars
<1> QED
  BY <1>1, <1>2, <1>3, <1>4, <1>5, <1>6, <1>7, <1>8, <1>9, <1>10, <1>11 DEF Next

(* Increments survive the loss of the envelopes that carried them: the total  *)
(* Doppler sees is the one expected at some entry of the forwarder agent's   *)
(* ledger, if every counter comes with an increment or a total.              *)
THEOREM TotalsSurvive ==
  ASSUME CountersChange
  PROVE  Spec => []TotalsSurviveLosses
<1>1. PipelineInv /\ LedgerInv => TotalsSurviveLosses
  <2> SUFFICES ASSUME PipelineInv, LedgerInv, NEW n \in DOMAIN doppler,
                      IsCounter(doppler[n])
               PROVE  \E i \in DOMAIN ledger :
                        /\ ledger[i].n = doppler[n].n
                        /\ doppler[n].total = ExpectedTotal(ledger, ledger[i].id, i)
    BY DEF TotalsSurviveLosses
  <2>1. n \in 1 .. Len(doppler)
    BY DEF PipelineInv, AgentInv
  <2>2. DOMAIN ledger = 1 .. Len(ledger)
    BY DEF LedgerInv
  <2> QED
    BY <2>1, <2>2 DEF LedgerInv, RecordedAll, Recorded
<1>2. PipelineInv /\ LedgerInv /\ [Next]_vars => LedgerInv'
  BY LedgerKeeps
<1> QED
  BY <1>1, <1>2, LedgerStarts, PipelineInvariance, PTL DEF Spec
=============================================================================
