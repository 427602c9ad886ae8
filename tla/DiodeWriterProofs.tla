-------------------------- MODULE DiodeWriterProofs --------------------------
(***************************************************************************)
(* What the goroutine of a drain writer does with its messages, proved for  *)
(* any number of writers, messages and slots: it runs until it is cancelled *)
(* and flushes before it returns.                                           *)
(***************************************************************************)
EXTENDS DiodeWriter, FiniteSetTheorems, SequenceTheorems, TLAPS

(* The goroutines that have not called wg.Done. *)
Active == {w \in Writer : pc[w] \in {"next", "write", "exit"}}

(* Every message accepted has a fate, is in hand or is in the diode; one is  *)
(* in hand exactly during a write.                                           *)
Counted ==
  \A w \in Writer :
    /\ Len(accepted[w]) = Len(fate[w]) + Len(inHand[w]) + Len(diode[w])
    /\ Len(inHand[w]) = (IF pc[w] = "write" THEN 1 ELSE 0)
    /\ flushTo[w] <= Len(accepted[w])

(* The accepted messages a without a fate are, in the order they were        *)
(* accepted in, those in hand (h) and those in the diode (d).                *)
PlacedIn(a, f, h, d) ==
  /\ Len(a) = Len(f) + Len(h) + Len(d)
  /\ \A i \in 1 .. Len(h) : h[i] = a[Len(f) + i]
  /\ \A i \in 1 .. Len(d) : d[i] = a[Len(f) + Len(h) + i]

Placed == \A w \in Writer : PlacedIn(accepted[w], fate[w], inHand[w], diode[w])

(* The drain and the alerter were told what the fates f of the messages a    *)
(* say: the drain has o, and the alerter the number r.                       *)
TalliedIn(a, f, o, r) ==
  /\ Len(o) = Count(f, "delivered")
  /\ \A i \in DOMAIN f : f[i] = "delivered" => o[Rank(f, i)] = a[i]
  /\ r = Count(f, "dropped")

Tallied == \A w \in Writer : TalliedIn(accepted[w], fate[w], out[w], reported[w])

IInv ==
  /\ WriterTypeOK
  /\ RunsUntilCancelled
  /\ Counted
  /\ FlushedUnlessFailed
  /\ Placed
  /\ Tallied

(* The steps of Next and those of a program that makes or cancels several    *)
(* writers at once.                                                          *)
AnyStep ==
  \/ \E W \in SUBSET Writer : NewDiodeWriters(W) \/ Cancel(W)
  \/ \E w \in Writer : (\E m \in Message : Write(w, m)) \/ start(w)

-----------------------------------------------------------------------------
(* Appending adds one element, at the end. *)
LEMMA Appended ==
  ASSUME NEW S, NEW s \in Seq(S), NEW e \in S
  PROVE  /\ Append(s, e) \in Seq(S)
         /\ Len(Append(s, e)) = Len(s) + 1
         /\ Append(s, e)[Len(s) + 1] = e
         /\ Append(s, e) # <<>>
<1>1. Append(s, e) \in Seq(S) /\ Len(Append(s, e)) = Len(s) + 1
  OBVIOUS
<1>2. Append(s, e)[Len(s) + 1] = e
  OBVIOUS
<1>3. Len(s) \in Nat /\ Len(<<>>) = 0
  OBVIOUS
<1> QED
  BY <1>1, <1>2, <1>3

(* So does a concatenation, as many as there are. *)
LEMMA Concatenated ==
  ASSUME NEW S, NEW s \in Seq(S), NEW t \in Seq(S)
  PROVE  Len(s \o t) = Len(s) + Len(t)
OBVIOUS

(* A run of one element behind a sequence. *)
LEMMA RunConcatenated ==
  ASSUME NEW S, NEW s \in Seq(S), NEW d \in S, NEW n \in Nat
  PROVE  /\ s \o [i \in 1 .. n |-> d] \in Seq(S)
         /\ Len(s \o [i \in 1 .. n |-> d]) = Len(s) + n
         /\ \A i \in 1 .. Len(s) : (s \o [j \in 1 .. n |-> d])[i] = s[i]
         /\ \A i \in Len(s) + 1 .. Len(s) + n : (s \o [j \in 1 .. n |-> d])[i] = d
<1> DEFINE t == [i \in 1 .. n |-> d]
<1>1. t \in Seq(S) /\ Len(t) = n /\ Len(s) \in Nat
  OBVIOUS
<1>2. \A i \in 1 .. n : t[i] = d
  OBVIOUS
<1> HIDE DEF t
<1>3. /\ s \o t \in Seq(S) /\ Len(s \o t) = Len(s) + n
      /\ \A i \in 1 .. Len(s) + n :
           (s \o t)[i] = IF i <= Len(s) THEN s[i] ELSE t[i - Len(s)]
  BY <1>1, ConcatProperties
<1>4. \A i \in 1 .. Len(s) : (s \o t)[i] = s[i]
  BY <1>1, <1>3
<1>5. \A i \in Len(s) + 1 .. Len(s) + n : (s \o t)[i] = d
  <2> SUFFICES ASSUME NEW i \in Len(s) + 1 .. Len(s) + n PROVE (s \o t)[i] = d
    OBVIOUS
  <2>1. i - Len(s) \in 1 .. n /\ ~(i <= Len(s)) /\ i \in 1 .. Len(s) + n
    BY <1>1
  <2> QED
    BY <1>2, <1>3, <2>1
<1> QED
  BY <1>3, <1>4, <1>5 DEF t

(* Concatenating a sequence of one element is appending it. *)
LEMMA SingletonConcatenated ==
  ASSUME NEW S, NEW s \in Seq(S), NEW t \in Seq(S), Len(t) = 1
  PROVE  s \o t = Append(s, t[1]) /\ t[1] \in S
<1>1. t[1] \in S
  <2>1. 1 \in 1 .. Len(t)
    OBVIOUS
  <2> QED
    BY <2>1, ElementOfSeq
<1>2. t = <<t[1]>>
  OBVIOUS
<1>3. Append(s, t[1]) = s \o <<t[1]>>
  BY <1>1, AppendIsConcat
<1> QED
  BY <1>1, <1>2, <1>3

(* A lapped read skips whole laps and stays within the diode. *)
LEMMA MissedBounds ==
  ASSUME NEW d \in Seq(Message), d # <<>>
  PROVE  Missed(d, DiodeSize) \in 0 .. Len(d) - 1
<1> DEFINE n == Len(d) - 1
           q == n \div DiodeSize
<1>1. n \in Nat /\ DiodeSize \in Nat /\ DiodeSize > 0
  BY DiodeWriterAssumption
<1>2. q \in Nat /\ n = (DiodeSize * q) + (n % DiodeSize) /\ (n % DiodeSize) \in Nat
  BY <1>1
<1>3. q * DiodeSize \in Nat /\ q * DiodeSize = DiodeSize * q
  BY <1>1, <1>2
<1> HIDE DEF q
<1>4. q * DiodeSize <= n
  BY <1>1, <1>2, <1>3
<1> QED
  BY <1>1, <1>3, <1>4 DEF Missed, q

(* What a read of a non-empty diode returns and leaves. *)
LEMMA ReadOfDiode ==
  ASSUME NEW d \in Seq(Message), d # <<>>
  PROVE  /\ NextOf(d, DiodeSize) \in Message
         /\ Rest(d, DiodeSize) \in Seq(Message)
         /\ Len(Rest(d, DiodeSize)) = Len(d) - Missed(d, DiodeSize) - 1
<1> DEFINE k == Missed(d, DiodeSize)
<1>1. k \in 0 .. Len(d) - 1
  BY MissedBounds
<1> HIDE DEF k
<1>2. d[k + 1] \in Message
  BY <1>1
<1>3. SubSeq(d, k + 2, Len(d)) \in Seq(Message)
  BY <1>1
<1>4. Len(SubSeq(d, k + 2, Len(d))) = Len(d) - k - 1
  BY <1>1
<1> QED
  BY <1>2, <1>3, <1>4 DEF NextOf, Rest, k

-----------------------------------------------------------------------------
(* A sequence has finitely many positions of x. *)
LEMMA CountFinite ==
  ASSUME NEW S, NEW f \in Seq(S), NEW x
  PROVE  LET D == {i \in DOMAIN f : f[i] = x}
         IN  /\ IsFiniteSet(D) /\ Count(f, x) = Cardinality(D)
             /\ Count(f, x) \in Nat
             /\ D \subseteq 1 .. Len(f)
<1> DEFINE D == {i \in DOMAIN f : f[i] = x}
           n == Len(f)
<1>1. n \in Nat /\ DOMAIN f = 1 .. n
  BY LenProperties
<1>2. D \in SUBSET (1 .. n)
  BY <1>1
<1>3. IsFiniteSet(1 .. n)
  <2> HIDE DEF n
  <2>1. 1 \in Int /\ n \in Int
    BY <1>1
  <2> QED
    BY <2>1, FS_Interval
<1>4. IsFiniteSet(D)
  BY <1>2, <1>3, FS_Subset
<1>5. Cardinality(D) \in Nat
  BY <1>4, FS_CardinalityType
<1> QED
  BY <1>2, <1>4, <1>5 DEF Count

(* Appending to a sequence adds one if the new element is x, *)
LEMMA CountAppended ==
  ASSUME NEW S, NEW f \in Seq(S), NEW e \in S, NEW x
  PROVE  /\ Count(f, x) \in Nat
         /\ e = x => Count(Append(f, e), x) = Count(f, x) + 1
         /\ e # x => Count(Append(f, e), x) = Count(f, x)
<1> DEFINE D == {i \in DOMAIN f : f[i] = x}
           g == Append(f, e)
           E == {i \in DOMAIN g : g[i] = x}
           n == Len(f)
<1>1. n \in Nat /\ DOMAIN f = 1 .. n
  BY LenProperties
<1>2. /\ DOMAIN g = 1 .. n + 1
      /\ \A i \in 1 .. n : g[i] = f[i]
      /\ g[n + 1] = e
  BY AppendProperties, LenProperties
<1>3. /\ IsFiniteSet(D) /\ Count(f, x) = Cardinality(D) /\ Count(f, x) \in Nat
      /\ D \subseteq 1 .. n
  BY CountFinite
<1>4. Count(g, x) = Cardinality(E)
  BY DEF Count
<1>5. n + 1 \notin D
  BY <1>1
<1>6. ASSUME e = x PROVE E = D \cup {n + 1}
  BY <1>1, <1>2, <1>6
<1>7. ASSUME e # x PROVE E = D
  BY <1>1, <1>2, <1>7
<1> HIDE DEF D, E, n
<1> QED
  BY <1>3, <1>4, <1>5, <1>6, <1>7, FS_AddElement

(* and a run behind it adds its length. *)
LEMMA CountOfRun ==
  ASSUME NEW S, NEW f \in Seq(S), NEW d \in S, NEW n \in Nat, NEW x
  PROVE  LET g == f \o [i \in 1 .. n |-> d]
         IN  /\ Count(f, x) \in Nat
             /\ d = x => Count(g, x) = Count(f, x) + n
             /\ d # x => Count(g, x) = Count(f, x)
<1> DEFINE g == f \o [i \in 1 .. n |-> d]
           k == Len(f)
           D == {i \in DOMAIN f : f[i] = x}
           E == {i \in DOMAIN g : g[i] = x}
           N == k + 1 .. k + n
<1>1. k \in Nat /\ DOMAIN f = 1 .. k
  BY LenProperties
<1>2. g \in Seq(S) /\ Len(g) = k + n
  BY RunConcatenated
<1>3. /\ DOMAIN g = 1 .. k + n
      /\ \A i \in 1 .. k : g[i] = f[i]
      /\ \A i \in N : g[i] = d
  BY <1>2, RunConcatenated, LenProperties
<1>4. /\ IsFiniteSet(D) /\ Count(f, x) = Cardinality(D) /\ Count(f, x) \in Nat
      /\ D \subseteq 1 .. k
  BY CountFinite
<1>5. Count(g, x) = Cardinality(E)
  BY DEF Count
<1> HIDE DEF g
<1>6. ASSUME d = x PROVE E = D \cup N
  BY <1>1, <1>3, <1>6
<1>7. ASSUME d # x PROVE E = D
  BY <1>1, <1>3, <1>7
<1>8. D \cap N = {}
  BY <1>1, <1>4
<1>9. IsFiniteSet(N) /\ Cardinality(N) = n
  <2> DEFINE lo == k + 1
             hi == k + n
  <2>1. /\ lo \in Int /\ hi \in Int
        /\ lo > hi => n = 0
        /\ ~(lo > hi) => hi - lo + 1 = n
    BY <1>1
  <2> HIDE DEF lo, hi
  <2>2. /\ IsFiniteSet(lo .. hi)
        /\ Cardinality(lo .. hi) = IF lo > hi THEN 0 ELSE hi - lo + 1
    BY <2>1, FS_Interval
  <2>3. Cardinality(lo .. hi) = n
    BY <2>1, <2>2
  <2> QED
    BY <2>2, <2>3 DEF lo, hi
<1> HIDE DEF D, E, N
<1>10. Cardinality(D \cup N) = Cardinality(D) + n
  <2>1. Cardinality(D \cup N) = Cardinality(D) + Cardinality(N) - Cardinality(D \cap N)
    BY <1>4, <1>9, FS_Union
  <2>2. Cardinality(D \cap N) = 0
    BY <1>8, FS_EmptySet
  <2> QED
    BY <1>4, <1>9, <2>1, <2>2
<1> QED
  BY <1>4, <1>5, <1>6, <1>7, <1>10 DEF g

(* The rank of a position looks at nothing after it, *)
LEMMA RankKept ==
  ASSUME NEW f, NEW g, NEW i \in Nat, \A j \in 1 .. i : g[j] = f[j]
  PROVE  Rank(g, i) = Rank(f, i)
BY DEF Rank

(* does not exceed the number of the delivered messages, and is that number  *)
(* for a delivered message at the end.                                       *)
LEMMA RankBounds ==
  ASSUME NEW S, NEW f \in Seq(S), NEW i \in DOMAIN f, f[i] = "delivered"
  PROVE  /\ Rank(f, i) \in 1 .. Count(f, "delivered")
         /\ i = Len(f) => Rank(f, i) = Count(f, "delivered")
<1> DEFINE D == {j \in DOMAIN f : f[j] = "delivered"}
           R == {j \in 1 .. i : f[j] = "delivered"}
<1>1. Len(f) \in Nat /\ DOMAIN f = 1 .. Len(f)
  BY LenProperties
<1>2. R \subseteq D /\ i \in R
  BY <1>1
<1>3. IsFiniteSet(D)
  <2>1. IsFiniteSet(1 .. Len(f)) /\ D \in SUBSET (1 .. Len(f))
    BY <1>1, FS_Interval
  <2> QED
    BY <2>1, FS_Subset
<1>4. Cardinality(R) <= Cardinality(D) /\ IsFiniteSet(R)
  BY <1>2, <1>3, FS_Subset
<1>5. Cardinality(R) \in Nat /\ Cardinality(D) \in Nat /\ Cardinality(R) # 0
  BY <1>2, <1>3, <1>4, FS_CardinalityType, FS_EmptySet
<1>6. i = Len(f) => R = D
  BY <1>1
<1>7. Rank(f, i) = Cardinality(R) /\ Count(f, "delivered") = Cardinality(D)
  BY DEF Rank, Count
<1> HIDE DEF R, D
<1> QED
  BY <1>4, <1>5, <1>6, <1>7

-----------------------------------------------------------------------------
(* Initially no writer is started. *)
LEMMA InitIInv == WriterInit => IInv
<1> SUFFICES ASSUME WriterInit PROVE IInv
  OBVIOUS
<1>1. WriterTypeOK
  BY DEF WriterInit, WriterTypeOK, Empty
<1>2. Active = {}
  BY DEF WriterInit, Active
<1>3. RunsUntilCancelled
  BY <1>2, FS_EmptySet DEF WriterInit, RunsUntilCancelled, Exited, Active
<1>4. Counted
  BY DEF WriterInit, Counted, Empty
<1>5. FlushedUnlessFailed
  BY DEF WriterInit, FlushedUnlessFailed, Exited
<1>6. Placed
  <2>1. /\ Len(<<>>) = 0
        /\ \A w \in Writer : accepted[w] = <<>> /\ fate[w] = <<>>
                              /\ inHand[w] = <<>> /\ diode[w] = <<>>
    BY DEF WriterInit, Empty
  <2>2. PlacedIn(<<>>, <<>>, <<>>, <<>>)
    BY <2>1 DEF PlacedIn
  <2> QED
    BY <2>1, <2>2 DEF Placed
<1>7. Tallied
  <2>1. /\ Count(<<>>, "delivered") = 0 /\ Count(<<>>, "dropped") = 0
        /\ Len(<<>>) = 0 /\ DOMAIN <<>> = {}
    BY FS_EmptySet DEF Count
  <2>2. \A w \in Writer : fate[w] = <<>> /\ out[w] = <<>> /\ reported[w] = 0
    BY DEF WriterInit
  <2> QED
    BY <2>1, <2>2 DEF Tallied, TalliedIn
<1> QED
  BY <1>1, <1>3, <1>4, <1>5, <1>6, <1>7 DEF IInv

(* The actions, for the case splits below. *)
LEMMA Cases ==
  ASSUME [AnyStep]_writerVars
  PROVE  \/ \E W \in SUBSET Writer : NewDiodeWriters(W) \/ Cancel(W)
         \/ \E w \in Writer :
              \/ \E m \in Message : Write(w, m)
              \/ TakeNext(w) \/ NextReturnsNil(w)
              \/ WriteSucceeds(w) \/ WriteFails(w)
              \/ Done(w) \/ Close(w)
         \/ UNCHANGED writerVars
BY DEF AnyStep, start

LEMMA NextIsAnyStep == Next => AnyStep
<1> SUFFICES ASSUME NEW w \in Writer,
                    \/ NewDiodeWriters({w})
                    \/ \E m \in Message : Write(w, m)
                    \/ Cancel({w})
                    \/ start(w)
             PROVE  AnyStep
  BY DEF Next
<1>1. {w} \in SUBSET Writer
  OBVIOUS
<1> QED
  BY <1>1 DEF AnyStep

-----------------------------------------------------------------------------
(* The variables keep their types. *)
LEMMA TypeStep == IInv /\ [AnyStep]_writerVars => WriterTypeOK'
<1> SUFFICES ASSUME IInv, [AnyStep]_writerVars PROVE WriterTypeOK'
  OBVIOUS
<1> USE DEF IInv, WriterTypeOK
<1>1. ASSUME NEW W \in SUBSET Writer, NewDiodeWriters(W) PROVE WriterTypeOK'
  <2>1. wg' \in Nat
    <3>1. Cardinality(W) \in Nat
      BY DiodeWriterAssumption, FS_Subset, FS_CardinalityType
    <3>2. wg' = wg + Cardinality(W)
      BY <1>1 DEF NewDiodeWriters
    <3>3. wg \in Nat
      OBVIOUS
    <3> QED
      BY <3>1, <3>2, <3>3
  <2>2. pc' \in [Writer -> {"none", "next", "write", "exit", "close", "closed"}]
    BY <1>1 DEF NewDiodeWriters
  <2> QED
    BY <1>1, <2>1, <2>2 DEF NewDiodeWriters
<1>2. ASSUME NEW w \in Writer, NEW m \in Message, Write(w, m)
      PROVE  WriterTypeOK'
  BY <1>2 DEF Write, Set
<1>3. ASSUME NEW W \in SUBSET Writer, Cancel(W) PROVE WriterTypeOK'
  BY <1>3 DEF Cancel
<1>4. ASSUME NEW w \in Writer, TakeNext(w) PROVE WriterTypeOK'
  <2> DEFINE missed == Missed(diode[w], DiodeSize)
             drops  == [i \in 1 .. missed |-> "dropped"]
  <2>1. diode[w] \in Seq(Message) /\ diode[w] # <<>>
    BY <1>4 DEF TakeNext, IsEmpty, Empty
  <2>2. missed \in Nat
    BY <2>1, MissedBounds
  <2> HIDE DEF missed
  <2>3. drops \in Seq(Fate)
    BY <2>2 DEF Fate
  <2>4. fate' \in [Writer -> Seq(Fate)]
    BY <1>4, <2>3 DEF TakeNext, missed
  <2>5. diode' \in [Writer -> Seq(Message)] /\ inHand' \in [Writer -> Seq(Message)]
    BY <1>4, <2>1, ReadOfDiode DEF TakeNext
  <2>6. reported' \in [Writer -> Nat]
    BY <1>4, <2>2 DEF TakeNext, missed
  <2> QED
    BY <1>4, <2>4, <2>5, <2>6 DEF TakeNext
<1>5. ASSUME NEW w \in Writer, NextReturnsNil(w) PROVE WriterTypeOK'
  BY <1>5 DEF NextReturnsNil
<1>6. ASSUME NEW w \in Writer, WriteSucceeds(w) PROVE WriterTypeOK'
  <2>1. fate' \in [Writer -> Seq(Fate)]
    BY <1>6 DEF WriteSucceeds, Fate
  <2>2. out' \in [Writer -> Seq(Message)] /\ inHand' \in [Writer -> Seq(Message)]
    BY <1>6 DEF WriteSucceeds
  <2> QED
    BY <1>6, <2>1, <2>2 DEF WriteSucceeds
<1>7. ASSUME NEW w \in Writer, WriteFails(w) PROVE WriterTypeOK'
  <2>1. fate' \in [Writer -> Seq(Fate)]
    BY <1>7 DEF WriteFails, Fate
  <2>2. inHand' \in [Writer -> Seq(Message)]
    BY <1>7 DEF WriteFails
  <2> QED
    BY <1>7, <2>1, <2>2 DEF WriteFails, AfterFailure
<1>8. ASSUME NEW w \in Writer, Done(w) PROVE WriterTypeOK'
  <2>1. IsFiniteSet(Active) /\ w \in Active
    BY <1>8, DiodeWriterAssumption, FS_Subset DEF Active, Done
  <2>2. Cardinality(Active) >= 1
    BY <2>1, FS_CardinalityType, FS_EmptySet
  <2>3. wg' \in Nat
    BY <1>8, <2>2 DEF Done, RunsUntilCancelled, Active
  <2> QED
    BY <1>8, <2>3 DEF Done
<1>9. ASSUME NEW w \in Writer, Close(w) PROVE WriterTypeOK'
  BY <1>9 DEF Close
<1>10. CASE UNCHANGED writerVars
  BY <1>10 DEF writerVars
<1> QED
  BY <1>1, <1>2, <1>3, <1>4, <1>5, <1>6, <1>7, <1>8, <1>9, <1>10, Cases

-----------------------------------------------------------------------------
(* The goroutine leaves its loop only when its context is cancelled, and the *)
(* WaitGroup follows.                                                        *)
LEMMA RunsStep == IInv /\ [AnyStep]_writerVars => RunsUntilCancelled'
<1> SUFFICES ASSUME IInv, [AnyStep]_writerVars PROVE RunsUntilCancelled'
  OBVIOUS
<1> USE DEF IInv, WriterTypeOK, Exited
<1>1. /\ IsFiniteSet(Active)
      /\ wg = Cardinality(Active)
      /\ \A w \in Writer : Exited(w) => w \in cancelled
  BY DiodeWriterAssumption, FS_Subset DEF Active, RunsUntilCancelled
<1>2. ASSUME wg' = Cardinality(Active'),
             \A w \in Writer : Exited(w)' => w \in cancelled'
      PROVE  RunsUntilCancelled'
  BY <1>2 DEF RunsUntilCancelled, Active
<1>3. ASSUME NEW W \in SUBSET Writer, NewDiodeWriters(W) PROVE RunsUntilCancelled'
  <2>1. W \cap Active = {} /\ Active' = Active \cup W
    BY <1>3 DEF NewDiodeWriters, Active
  <2>2. wg' = Cardinality(Active')
    <3>1. IsFiniteSet(W)
      BY DiodeWriterAssumption, FS_Subset
    <3>2. Cardinality(Active \cup W)
            = Cardinality(Active) + Cardinality(W) - Cardinality(Active \cap W)
      BY <1>1, <3>1, FS_Union
    <3>3. Cardinality(Active \cap W) = 0
      BY <2>1, FS_EmptySet
    <3>4. Cardinality(Active) \in Nat /\ Cardinality(W) \in Nat
      BY <1>1, <3>1, FS_CardinalityType
    <3>5. Cardinality(Active') = Cardinality(Active) + Cardinality(W)
      BY <2>1, <3>2, <3>3, <3>4
    <3> QED
      BY <1>1, <1>3, <3>5 DEF NewDiodeWriters
  <2>3. \A v \in Writer : Exited(v)' => v \in cancelled'
    BY <1>1, <1>3 DEF NewDiodeWriters
  <2> QED
    BY <1>2, <2>2, <2>3
<1>4. ASSUME NEW w \in Writer, NEW m \in Message, Write(w, m)
      PROVE  RunsUntilCancelled'
  BY <1>1, <1>2, <1>4 DEF Write, Active
<1>5. ASSUME NEW W \in SUBSET Writer, Cancel(W) PROVE RunsUntilCancelled'
  BY <1>1, <1>2, <1>5 DEF Cancel, Active
<1>6. ASSUME NEW w \in Writer,
             TakeNext(w) \/ NextReturnsNil(w) \/ WriteSucceeds(w) \/ WriteFails(w)
      PROVE  RunsUntilCancelled'
  <2>1. Active' = Active /\ UNCHANGED <<wg, cancelled>>
    BY <1>6 DEF TakeNext, NextReturnsNil, WriteSucceeds, WriteFails,
       AfterFailure, Active
  <2>2. \A v \in Writer : Exited(v)' => v \in cancelled'
    BY <1>1, <1>6 DEF TakeNext, NextReturnsNil, WriteSucceeds, WriteFails,
       AfterFailure
  <2> QED
    BY <1>1, <1>2, <2>1, <2>2
<1>7. ASSUME NEW w \in Writer, Done(w) PROVE RunsUntilCancelled'
  <2>1. w \in Active /\ Active' = Active \ {w}
    BY <1>7 DEF Done, Active
  <2>2. wg' = Cardinality(Active')
    BY <1>1, <1>7, <2>1, FS_RemoveElement DEF Done
  <2>3. \A v \in Writer : Exited(v)' => v \in cancelled'
    BY <1>1, <1>7 DEF Done
  <2> QED
    BY <1>2, <2>2, <2>3
<1>8. ASSUME NEW w \in Writer, Close(w) PROVE RunsUntilCancelled'
  <2>1. Active' = Active
    BY <1>8 DEF Close, Active
  <2> QED
    BY <1>1, <1>2, <1>8, <2>1 DEF Close
<1>9. CASE UNCHANGED writerVars
  BY <1>1, <1>2, <1>9 DEF writerVars, Active
<1> QED
  BY <1>3, <1>4, <1>5, <1>6, <1>7, <1>8, <1>9, Cases

-----------------------------------------------------------------------------
(* A message moves from the diode to the hand to its fate, and a skipped one *)
(* straight to its fate.                                                     *)
LEMMA CountedStep == IInv /\ [AnyStep]_writerVars => Counted'
<1> SUFFICES ASSUME IInv, [AnyStep]_writerVars, NEW w \in Writer
             PROVE  /\ Len(accepted'[w])
                          = Len(fate'[w]) + Len(inHand'[w]) + Len(diode'[w])
                    /\ Len(inHand'[w]) = (IF pc'[w] = "write" THEN 1 ELSE 0)
                    /\ flushTo'[w] <= Len(accepted'[w])
  BY DEF Counted
<1> DEFINE Goal == /\ Len(accepted'[w])
                        = Len(fate'[w]) + Len(inHand'[w]) + Len(diode'[w])
                   /\ Len(inHand'[w]) = (IF pc'[w] = "write" THEN 1 ELSE 0)
                   /\ flushTo'[w] <= Len(accepted'[w])
<1>1. /\ Len(accepted[w]) = Len(fate[w]) + Len(inHand[w]) + Len(diode[w])
      /\ Len(inHand[w]) = (IF pc[w] = "write" THEN 1 ELSE 0)
      /\ flushTo[w] <= Len(accepted[w])
  BY DEF IInv, Counted
<1>2. /\ accepted[w] \in Seq(Message) /\ fate[w] \in Seq(Fate)
      /\ inHand[w] \in Seq(Message) /\ diode[w] \in Seq(Message)
      /\ flushTo[w] \in Nat
  BY DEF IInv, WriterTypeOK
<1> USE DEF IInv, WriterTypeOK
<1>3. ASSUME NEW W \in SUBSET Writer, NewDiodeWriters(W) PROVE Goal
  BY <1>1, <1>3 DEF NewDiodeWriters
<1>4. ASSUME NEW v \in Writer, NEW m \in Message, Write(v, m) PROVE Goal
  <2>1. CASE v # w
    BY <1>1, <1>4, <2>1 DEF Write
  <2>2. CASE v = w
    <3>1. /\ accepted'[w] = Append(accepted[w], m)
          /\ diode'[w] = Append(diode[w], m)
      BY <1>4, <2>2 DEF Write, Set
    <3>2. /\ Len(accepted'[w]) = Len(accepted[w]) + 1
          /\ Len(diode'[w]) = Len(diode[w]) + 1
      BY <1>2, <3>1, Appended
    <3>3. UNCHANGED <<pc, fate, inHand, flushTo>>
      BY <1>4 DEF Write
    <3> QED
      BY <1>1, <1>2, <3>2, <3>3
  <2> QED
    BY <2>1, <2>2
<1>5. ASSUME NEW W \in SUBSET Writer, Cancel(W) PROVE Goal
  <2>1. UNCHANGED <<pc, fate, inHand, accepted, diode>>
    BY <1>5 DEF Cancel
  <2>2. flushTo'[w] = Len(accepted[w]) \/ flushTo'[w] = flushTo[w]
    BY <1>5 DEF Cancel
  <2>3. Len(accepted[w]) \in Nat
    BY <1>2
  <2>4. flushTo'[w] <= Len(accepted[w])
    <3>1. CASE flushTo'[w] = Len(accepted[w])
      BY <2>3, <3>1
    <3>2. CASE flushTo'[w] = flushTo[w]
      BY <1>1, <3>2, Zenon
    <3> QED
      BY <2>2, <3>1, <3>2
  <2> QED
    BY <1>1, <2>1, <2>4
<1>6. ASSUME NEW v \in Writer, TakeNext(v) PROVE Goal
  <2>1. CASE v # w
    BY <1>1, <1>6, <2>1 DEF TakeNext
  <2>2. CASE v = w
    <3> DEFINE missed == Missed(diode[w], DiodeSize)
               drops  == [i \in 1 .. missed |-> "dropped"]
    <3>1. diode[w] # <<>> /\ pc[w] = "next"
      BY <1>6, <2>2 DEF TakeNext, IsEmpty, Empty
    <3>2. missed \in 0 .. Len(diode[w]) - 1
      BY <1>2, <3>1, MissedBounds
    <3>3. Len(diode'[w]) = Len(diode[w]) - missed - 1
      BY <1>2, <1>6, <2>2, <3>1, ReadOfDiode DEF TakeNext
    <3>4. fate'[w] = fate[w] \o drops
      BY <1>6, <2>2 DEF TakeNext
    <3> HIDE DEF missed
    <3>5. drops \in Seq(Fate) /\ Len(drops) = missed
      BY <3>2 DEF Fate
    <3>6. Len(fate'[w]) = Len(fate[w]) + missed
      BY <1>2, <3>4, <3>5, Concatenated
    <3>7. Len(inHand'[w]) = 1 /\ pc'[w] = "write"
      BY <1>6, <2>2 DEF TakeNext
    <3>8. accepted' = accepted /\ flushTo' = flushTo
      BY <1>6 DEF TakeNext
    <3>9. Len(inHand[w]) = 0
      BY <1>1, <3>1
    <3> DEFINE a == Len(accepted[w])
               f == Len(fate[w])
               h == Len(inHand[w])
               d == Len(diode[w])
    <3>10. /\ a \in Int /\ f \in Int /\ h \in Int /\ d \in Int /\ missed \in Int
           /\ a = f + h + d /\ h = 0
      BY <1>1, <1>2, <3>2, <3>9
    <3>11. a = (f + missed) + 1 + (d - missed - 1)
      <4> HIDE DEF IInv, WriterTypeOK, a, f, h, d
      <4> QED
        BY <3>10
    <3>12. Len(accepted[w]) = (Len(fate[w]) + missed) + 1
                                + (Len(diode[w]) - missed - 1)
      BY <3>11, Zenon
    <3>13. Len(accepted'[w]) = Len(fate'[w]) + Len(inHand'[w]) + Len(diode'[w])
      BY <3>3, <3>6, <3>7, <3>8, <3>12, Zenon
    <3> QED
      BY <1>1, <3>7, <3>8, <3>13
  <2> QED
    BY <2>1, <2>2
<1>7. ASSUME NEW v \in Writer, NextReturnsNil(v) PROVE Goal
  BY <1>1, <1>7 DEF NextReturnsNil
<1>8. ASSUME NEW v \in Writer, WriteSucceeds(v) PROVE Goal
  <2>1. CASE v # w
    BY <1>1, <1>8, <2>1 DEF WriteSucceeds
  <2>2. CASE v = w
    <3>1. /\ fate'[w] = Append(fate[w], "delivered")
          /\ inHand'[w] = <<>> /\ pc[w] = "write" /\ pc'[w] # "write"
          /\ UNCHANGED <<accepted, diode, flushTo>>
      BY <1>8, <2>2 DEF WriteSucceeds
    <3>2. Len(fate'[w]) = Len(fate[w]) + 1
      BY <1>2, <3>1, Appended DEF Fate
    <3>3. Len(inHand'[w]) = 0 /\ Len(inHand[w]) = 1
      BY <1>1, <3>1
    <3>4. Len(fate[w]) \in Nat /\ Len(diode[w]) \in Nat
      BY <1>2
    <3> QED
      BY <1>1, <3>1, <3>2, <3>3, <3>4
  <2> QED
    BY <2>1, <2>2
<1>9. ASSUME NEW v \in Writer, WriteFails(v) PROVE Goal
  <2>1. CASE v # w
    BY <1>1, <1>9, <2>1 DEF WriteFails
  <2>2. CASE v = w
    <3>1. /\ fate'[w] = Append(fate[w], "failed")
          /\ inHand'[w] = <<>> /\ pc[w] = "write" /\ pc'[w] # "write"
          /\ UNCHANGED <<accepted, diode, flushTo>>
      BY <1>9, <2>2 DEF WriteFails, AfterFailure
    <3>2. Len(fate'[w]) = Len(fate[w]) + 1
      BY <1>2, <3>1, Appended DEF Fate
    <3>3. Len(inHand'[w]) = 0 /\ Len(inHand[w]) = 1
      BY <1>1, <3>1
    <3>4. Len(fate[w]) \in Nat /\ Len(diode[w]) \in Nat
      BY <1>2
    <3> QED
      BY <1>1, <3>1, <3>2, <3>3, <3>4
  <2> QED
    BY <2>1, <2>2
<1>10. ASSUME NEW v \in Writer, Done(v) \/ Close(v) PROVE Goal
  BY <1>1, <1>10 DEF Done, Close
<1>11. CASE UNCHANGED writerVars
  BY <1>1, <1>11 DEF writerVars
<1> QED
  BY <1>3, <1>4, <1>5, <1>6, <1>7, <1>8, <1>9, <1>10, <1>11, Cases

-----------------------------------------------------------------------------
(* A goroutine that returns has emptied the diode, or its last write failed. *)
LEMMA FlushedStep == IInv /\ [AnyStep]_writerVars => FlushedUnlessFailed'
<1> DEFINE Done_(w) == \/ Len(fate[w]) >= flushTo[w]
                       \/ fate[w] # <<>> /\ Last(fate[w]) = "failed"
<1> SUFFICES ASSUME IInv, [AnyStep]_writerVars, NEW w \in Writer, Exited(w)'
             PROVE  Done_(w)'
  BY DEF FlushedUnlessFailed
<1> USE DEF IInv, WriterTypeOK, Exited
<1>1. Exited(w) => Done_(w) /\ w \in cancelled
  BY DEF FlushedUnlessFailed, RunsUntilCancelled
<1>2. ASSUME Exited(w), fate'[w] = fate[w], flushTo'[w] = flushTo[w]
      PROVE  Done_(w)'
  BY <1>1, <1>2
<1>3. ASSUME NEW W \in SUBSET Writer, NewDiodeWriters(W) PROVE Done_(w)'
  BY <1>2, <1>3 DEF NewDiodeWriters
<1>4. ASSUME NEW v \in Writer, NEW m \in Message, Write(v, m) PROVE Done_(w)'
  BY <1>2, <1>4 DEF Write
<1>5. ASSUME NEW W \in SUBSET Writer, Cancel(W) PROVE Done_(w)'
  BY <1>1, <1>2, <1>5 DEF Cancel
<1>6. ASSUME NEW v \in Writer, TakeNext(v) PROVE Done_(w)'
  BY <1>2, <1>6 DEF TakeNext
<1>7. ASSUME NEW v \in Writer, NextReturnsNil(v) PROVE Done_(w)'
  <2>1. CASE v # w
    BY <1>2, <1>7, <2>1 DEF NextReturnsNil
  <2>2. CASE v = w
    <3>1. Len(fate[w]) = Len(accepted[w]) /\ flushTo[w] <= Len(accepted[w])
      BY <1>7, <2>2 DEF NextReturnsNil, Counted, IsEmpty, Empty
    <3> QED
      BY <1>7, <3>1 DEF NextReturnsNil
  <2> QED
    BY <2>1, <2>2
<1>8. ASSUME NEW v \in Writer, WriteSucceeds(v) PROVE Done_(w)'
  BY <1>2, <1>8 DEF WriteSucceeds
<1>9. ASSUME NEW v \in Writer, WriteFails(v) PROVE Done_(w)'
  <2>1. CASE v # w
    BY <1>2, <1>9, <2>1 DEF WriteFails
  <2>2. CASE v = w
    <3>1. fate'[w] = Append(fate[w], "failed") /\ fate[w] \in Seq(Fate)
      BY <1>9, <2>2 DEF WriteFails
    <3>2. "failed" \in Fate
      BY DEF Fate
    <3>3. fate'[w] # <<>> /\ fate'[w][Len(fate'[w])] = "failed"
      <4>1. Append(fate[w], "failed")[Len(fate[w]) + 1] = "failed"
        BY <3>1, <3>2, Appended
      <4>2. Len(Append(fate[w], "failed")) = Len(fate[w]) + 1
        BY <3>1, <3>2, Appended
      <4>3. Len(fate[w]) \in Nat /\ Len(<<>>) = 0
        BY <3>1
      <4>4. Append(fate[w], "failed") # <<>>
        <5>1. fate[w] \in Seq(Fate) /\ "failed" \in Fate
          BY <3>1, <3>2
        <5> HIDE DEF IInv, WriterTypeOK
        <5> QED
          BY <5>1, AppendProperties
      <4> QED
        BY <3>1, <4>1, <4>2, <4>4
    <3> QED
      BY <3>3 DEF Last
  <2> QED
    BY <2>1, <2>2
<1>10. ASSUME NEW v \in Writer, Done(v) \/ Close(v) PROVE Done_(w)'
  BY <1>2, <1>10 DEF Done, Close
<1>11. CASE UNCHANGED writerVars
  BY <1>2, <1>11 DEF writerVars
<1> QED
  BY <1>3, <1>4, <1>5, <1>6, <1>7, <1>8, <1>9, <1>10, <1>11, Cases

-----------------------------------------------------------------------------
(* A message written is the last of the diode, *)
LEMMA PlacedWrite ==
  ASSUME NEW a \in Seq(Message), NEW f \in Seq(Fate), NEW h \in Seq(Message),
         NEW d \in Seq(Message), NEW m \in Message, PlacedIn(a, f, h, d)
  PROVE  PlacedIn(Append(a, m), f, h, Append(d, m))
<1> DEFINE n == Len(a)
           k == Len(d)
           base == Len(f) + Len(h)
           a1 == Append(a, m)
           d1 == Append(d, m)
<1>1. /\ n \in Nat /\ k \in Nat /\ Len(f) \in Nat /\ Len(h) \in Nat
      /\ base \in Nat /\ n = base + k
  BY DEF PlacedIn
<1>2. /\ Len(a1) = n + 1 /\ Len(d1) = k + 1
      /\ \A i \in 1 .. n : a1[i] = a[i]
      /\ \A i \in 1 .. k : d1[i] = d[i]
      /\ a1[n + 1] = m /\ d1[k + 1] = m
  BY AppendProperties
<1>3. /\ \A i \in 1 .. Len(h) : h[i] = a[Len(f) + i]
      /\ \A i \in 1 .. k : d[i] = a[base + i]
  BY DEF PlacedIn
<1>4. ASSUME NEW i \in 1 .. Len(h) PROVE h[i] = a1[Len(f) + i]
  <2>1. Len(f) + i \in 1 .. n
    BY <1>1
  <2> QED
    BY <1>2, <1>3, <2>1
<1> HIDE DEF a1, d1, k, n, base
<1>5. ASSUME NEW i \in 1 .. k + 1 PROVE d1[i] = a1[base + i]
  <2>1. CASE i = k + 1
    BY <1>1, <1>2, <2>1
  <2>2. CASE i # k + 1
    <3>1. i \in 1 .. k /\ base + i \in 1 .. n
      BY <1>1, <2>2
    <3> QED
      BY <1>2, <1>3, <3>1
  <2> QED
    BY <2>1, <2>2
<1>6. Len(a1) = base + Len(d1)
  BY <1>1, <1>2
<1> QED
  BY <1>2, <1>4, <1>5, <1>6 DEF PlacedIn, a1, d1, base

(* no more messages have a fate than were accepted, *)
LEMMA PlacedLength ==
  ASSUME NEW a \in Seq(Message), NEW f \in Seq(Fate), NEW h \in Seq(Message),
         NEW d \in Seq(Message), PlacedIn(a, f, h, d)
  PROVE  Len(f) <= Len(a)
<1>1. Len(a) \in Nat /\ Len(f) \in Nat /\ Len(h) \in Nat /\ Len(d) \in Nat
  OBVIOUS
<1>2. Len(a) = Len(f) + Len(h) + Len(d)
  BY DEF PlacedIn
<1> QED
  BY <1>1, <1>2

(* a read takes the one behind those it skips, *)
LEMMA PlacedRead ==
  ASSUME NEW a \in Seq(Message), NEW f \in Seq(Fate), NEW h \in Seq(Message),
         NEW d \in Seq(Message), PlacedIn(a, f, h, d), Len(h) = 0,
         NEW missed \in 0 .. Len(d) - 1
  PROVE  PlacedIn(a, f \o [i \in 1 .. missed |-> "dropped"], <<d[missed + 1]>>,
                  SubSeq(d, missed + 2, Len(d)))
<1> DEFINE f1 == f \o [i \in 1 .. missed |-> "dropped"]
           h1 == <<d[missed + 1]>>
           d1 == SubSeq(d, missed + 2, Len(d))
           k == Len(f)
           n == Len(d)
<1>1. k \in Nat /\ n \in Nat /\ missed \in Nat /\ missed < n /\ Len(a) = k + n
  BY DEF PlacedIn
<1>2. \A i \in 1 .. n : d[i] = a[k + i]
  BY DEF PlacedIn
<1>3. Len(f1) = k + missed
  <2>1. "dropped" \in Fate
    BY DEF Fate
  <2> QED
    BY <1>1, <2>1, RunConcatenated
<1>4. Len(h1) = 1 /\ h1[1] = a[k + missed + 1]
  BY <1>1, <1>2
<1>5. /\ Len(d1) = n - missed - 1
      /\ \A i \in 1 .. n - missed - 1 : d1[i] = d[missed + 1 + i]
  BY <1>1
<1> HIDE DEF f1, h1, d1, k, n
<1>6. ASSUME NEW i \in 1 .. n - missed - 1
      PROVE  d1[i] = a[k + missed + 1 + i]
  <2>1. missed + 1 + i \in 1 .. n /\ k + (missed + 1 + i) = k + missed + 1 + i
    BY <1>1
  <2> QED
    BY <1>2, <1>5, <2>1
<1>7. Len(a) = Len(f1) + Len(h1) + Len(d1)
  BY <1>1, <1>3, <1>4, <1>5
<1>8. \A i \in 1 .. Len(h1) : h1[i] = a[Len(f1) + i]
  BY <1>3, <1>4
<1>9. \A i \in 1 .. Len(d1) : d1[i] = a[Len(f1) + Len(h1) + i]
  BY <1>3, <1>4, <1>5, <1>6
<1> QED
  BY <1>7, <1>8, <1>9 DEF PlacedIn, f1, h1, d1, n

(* and a write gives the message in hand its fate. *)
LEMMA PlacedFate ==
  ASSUME NEW a \in Seq(Message), NEW f \in Seq(Fate), NEW h \in Seq(Message),
         NEW d \in Seq(Message), PlacedIn(a, f, h, d), Len(h) = 1, NEW e \in Fate
  PROVE  PlacedIn(a, Append(f, e), <<>>, d)
<1> DEFINE k == Len(f)
           f1 == Append(f, e)
<1>1. k \in Nat /\ Len(f1) = k + 1 /\ Len(<<>>) = 0 /\ Len(d) \in Nat
  BY AppendProperties
<1>2. /\ Len(a) = k + 1 + Len(d)
      /\ \A i \in 1 .. Len(d) : d[i] = a[k + 1 + i]
  BY DEF PlacedIn
<1> HIDE DEF k, f1
<1>3. /\ Len(a) = Len(f1) + Len(<<>>) + Len(d)
      /\ \A i \in 1 .. Len(d) : d[i] = a[Len(f1) + Len(<<>>) + i]
      /\ \A i \in 1 .. Len(<<>>) : <<>>[i] = a[Len(f1) + i]
  BY <1>1, <1>2
<1> QED
  BY <1>3 DEF PlacedIn, f1

(* In all, behind the messages with a fate a holds those in hand and those   *)
(* in the diode.                                                             *)
LEMMA PlacedSplit ==
  ASSUME NEW a \in Seq(Message), NEW f \in Seq(Fate), NEW h \in Seq(Message),
         NEW d \in Seq(Message), PlacedIn(a, f, h, d)
  PROVE  Len(f) <= Len(a) /\ SubSeq(a, Len(f) + 1, Len(a)) = h \o d
<1> DEFINE k == Len(f)
           s == SubSeq(a, k + 1, Len(a))
           t == h \o d
           n == Len(a) - k
<1>1. /\ Len(a) \in Nat /\ Len(h) \in Nat /\ Len(d) \in Nat
      /\ k \in Nat /\ n = Len(h) + Len(d) /\ n \in Nat /\ k <= Len(a)
  BY PlacedLength DEF PlacedIn
<1>2. /\ s \in Seq(Message) /\ Len(s) = n
      /\ \A i \in 1 .. n : s[i] = a[k + i]
  BY <1>1
<1>3. /\ t \in Seq(Message) /\ Len(t) = n
      /\ \A i \in 1 .. n : t[i] = IF i <= Len(h) THEN h[i] ELSE d[i - Len(h)]
  BY <1>1, ConcatProperties
<1>4. /\ \A i \in 1 .. Len(h) : h[i] = a[k + i]
      /\ \A i \in 1 .. Len(d) : d[i] = a[k + Len(h) + i]
  BY DEF PlacedIn
<1> HIDE DEF s, t, n, k
<1>5. ASSUME NEW i \in 1 .. n PROVE s[i] = t[i]
  <2>1. CASE i <= Len(h)
    <3>1. i \in 1 .. Len(h)
      BY <1>1, <2>1
    <3> QED
      BY <1>2, <1>3, <1>4, <2>1, <3>1
  <2>2. CASE ~(i <= Len(h))
    <3>1. i - Len(h) \in 1 .. Len(d) /\ k + Len(h) + (i - Len(h)) = k + i
      BY <1>1, <2>2
    <3>2. d[i - Len(h)] = a[k + i]
      BY <1>4, <3>1
    <3> QED
      BY <1>2, <1>3, <2>2, <3>2
  <2> QED
    BY <2>1, <2>2
<1>6. s = t
  BY <1>2, <1>3, <1>5, SeqEqual
<1> QED
  BY <1>1, <1>6 DEF s, t, k

(* The fates stay true as messages are written, *)
LEMMA TalliedWrite ==
  ASSUME NEW a \in Seq(Message), NEW f \in Seq(Fate), NEW o, NEW r,
         Len(f) <= Len(a), NEW m \in Message, TalliedIn(a, f, o, r)
  PROVE  TalliedIn(Append(a, m), f, o, r)
<1>1. \A i \in 1 .. Len(a) : Append(a, m)[i] = a[i]
  BY AppendProperties
<1>2. \A i \in DOMAIN f : i \in 1 .. Len(a)
  BY LenProperties
<1> QED
  BY <1>1, <1>2 DEF TalliedIn

(* a read of a lapped diode reports what it skips, *)
LEMMA TalliedRead ==
  ASSUME NEW a, NEW f \in Seq(Fate), NEW o, NEW r, TalliedIn(a, f, o, r),
         NEW missed \in Nat
  PROVE  TalliedIn(a, f \o [i \in 1 .. missed |-> "dropped"], o, r + missed)
<1> DEFINE g == f \o [i \in 1 .. missed |-> "dropped"]
           k == Len(f)
<1>1. "dropped" \in Fate /\ "dropped" # "delivered" /\ k \in Nat /\ DOMAIN f = 1 .. k
  BY LenProperties DEF Fate
<1>2. /\ Count(g, "delivered") = Count(f, "delivered")
      /\ Count(g, "dropped") = Count(f, "dropped") + missed
  BY <1>1, CountOfRun
<1>3. /\ g \in Seq(Fate) /\ Len(g) = k + missed
      /\ \A i \in 1 .. k : g[i] = f[i]
      /\ \A i \in k + 1 .. k + missed : g[i] = "dropped"
  BY <1>1, RunConcatenated
<1>4. DOMAIN g = 1 .. k + missed
  BY <1>3, LenProperties
<1> HIDE DEF g, k
<1>5. ASSUME NEW i \in DOMAIN g, g[i] = "delivered"
      PROVE  o[Rank(g, i)] = a[i]
  <2>1. i \in 1 .. k /\ f[i] = "delivered"
    BY <1>1, <1>3, <1>4, <1>5
  <2>2. \A j \in 1 .. i : g[j] = f[j]
    BY <1>1, <1>3, <2>1
  <2>3. Rank(g, i) = Rank(f, i)
    BY <2>1, <2>2, RankKept
  <2> QED
    BY <1>1, <2>1, <2>3 DEF TalliedIn
<1> QED
  BY <1>2, <1>5 DEF TalliedIn, g

(* a write that fails leaves both as they are, *)
LEMMA TalliedFailed ==
  ASSUME NEW a, NEW f \in Seq(Fate), NEW o, NEW r, TalliedIn(a, f, o, r)
  PROVE  TalliedIn(a, Append(f, "failed"), o, r)
<1> DEFINE g == Append(f, "failed")
           k == Len(f)
<1>1. "failed" \in Fate /\ k \in Nat /\ DOMAIN f = 1 .. k
  BY LenProperties DEF Fate
<1>2. /\ Count(g, "delivered") = Count(f, "delivered")
      /\ Count(g, "dropped") = Count(f, "dropped")
  BY <1>1, CountAppended
<1>3. /\ DOMAIN g = 1 .. k + 1 /\ g[k + 1] = "failed"
      /\ \A i \in 1 .. k : g[i] = f[i]
  BY <1>1, AppendProperties, LenProperties
<1> HIDE DEF g, k
<1>4. ASSUME NEW i \in DOMAIN g, g[i] = "delivered"
      PROVE  o[Rank(g, i)] = a[i]
  <2>1. i \in 1 .. k /\ f[i] = "delivered"
    BY <1>1, <1>3, <1>4
  <2>2. Rank(g, i) = Rank(f, i)
    BY <1>1, <1>3, <2>1, RankKept
  <2> QED
    BY <1>1, <2>1, <2>2 DEF TalliedIn
<1> QED
  BY <1>2, <1>4 DEF TalliedIn, g

(* and one that succeeds gives the drain the next message. *)
LEMMA TalliedDelivered ==
  ASSUME NEW a \in Seq(Message), NEW f \in Seq(Fate), NEW o \in Seq(Message), NEW r,
         TalliedIn(a, f, o, r), a[Len(f) + 1] \in Message
  PROVE  TalliedIn(a, Append(f, "delivered"), Append(o, a[Len(f) + 1]), r)
<1> DEFINE g == Append(f, "delivered")
           k == Len(f)
           p == Append(o, a[k + 1])
           n == Count(f, "delivered")
<1>1. "delivered" \in Fate /\ k \in Nat /\ DOMAIN f = 1 .. k
  BY LenProperties DEF Fate
<1>2. /\ Count(g, "delivered") = n + 1
      /\ Count(g, "dropped") = Count(f, "dropped")
      /\ n \in Nat /\ Len(o) = n
  BY <1>1, CountAppended DEF TalliedIn
<1>3. /\ g \in Seq(Fate) /\ DOMAIN g = 1 .. k + 1 /\ Len(g) = k + 1
      /\ g[k + 1] = "delivered"
      /\ \A i \in 1 .. k : g[i] = f[i]
  BY <1>1, AppendProperties, LenProperties
<1>4. /\ Len(p) = n + 1 /\ p[n + 1] = a[k + 1]
      /\ \A i \in 1 .. n : p[i] = o[i]
  BY <1>2, AppendProperties
<1> HIDE DEF g, k, p, n
<1>5. ASSUME NEW i \in DOMAIN g, g[i] = "delivered"
      PROVE  p[Rank(g, i)] = a[i]
  <2>1. CASE i = k + 1
    <3>1. Rank(g, i) = n + 1
      BY <1>2, <1>3, <1>5, <2>1, RankBounds
    <3> QED
      BY <1>4, <2>1, <3>1
  <2>2. CASE i # k + 1
    <3>1. i \in 1 .. k /\ f[i] = "delivered"
      BY <1>1, <1>3, <1>5, <2>2
    <3>2. Rank(g, i) = Rank(f, i)
      BY <1>1, <1>3, <3>1, RankKept
    <3>3. Rank(f, i) \in 1 .. n
      BY <1>1, <3>1, RankBounds DEF n
    <3>4. o[Rank(f, i)] = a[i]
      BY <1>1, <3>1 DEF TalliedIn
    <3> QED
      BY <1>4, <3>2, <3>3, <3>4
  <2> QED
    BY <2>1, <2>2
<1> QED
  BY <1>2, <1>4, <1>5 DEF TalliedIn, g, p, k

-----------------------------------------------------------------------------
(* A read takes the messages of the diode from its front, and a fate is that *)
(* of the first message without one.                                         *)
LEMMA PlacedAndTallied == IInv /\ [AnyStep]_writerVars => Placed' /\ Tallied'
<1> DEFINE Goal(w) == /\ PlacedIn(accepted[w], fate[w], inHand[w], diode[w])
                      /\ TalliedIn(accepted[w], fate[w], out[w], reported[w])
<1> SUFFICES ASSUME IInv, [AnyStep]_writerVars, NEW w \in Writer
             PROVE  Goal(w)'
  BY DEF Placed, Tallied
<1>1. Goal(w) /\ Len(inHand[w]) = (IF pc[w] = "write" THEN 1 ELSE 0)
  BY DEF IInv, Placed, Tallied, Counted
<1>2. /\ accepted \in [Writer -> Seq(Message)] /\ fate \in [Writer -> Seq(Fate)]
      /\ inHand \in [Writer -> Seq(Message)] /\ diode \in [Writer -> Seq(Message)]
      /\ out \in [Writer -> Seq(Message)] /\ reported \in [Writer -> Nat]
  BY DEF IInv, WriterTypeOK
<1>3. /\ accepted[w] \in Seq(Message) /\ fate[w] \in Seq(Fate)
      /\ inHand[w] \in Seq(Message) /\ diode[w] \in Seq(Message)
      /\ out[w] \in Seq(Message)
  BY <1>2
<1>4. ASSUME UNCHANGED <<accepted[w], fate[w], inHand[w], diode[w], out[w],
                         reported[w]>>
      PROVE  Goal(w)'
  BY <1>1, <1>4
<1> HIDE DEF Goal
<1>5. ASSUME NEW W \in SUBSET Writer, NewDiodeWriters(W) \/ Cancel(W)
      PROVE  Goal(w)'
  BY <1>4, <1>5 DEF NewDiodeWriters, Cancel
<1>6. ASSUME NEW v \in Writer, NEW m \in Message, Write(v, m) PROVE Goal(w)'
  <2>1. CASE v # w
    BY <1>2, <1>4, <1>6, <2>1 DEF Write
  <2>2. CASE v = w
    <3>1. /\ accepted'[w] = Append(accepted[w], m)
          /\ diode'[w] = Append(diode[w], m)
          /\ UNCHANGED <<fate, inHand, out, reported>>
      BY <1>2, <1>6, <2>2 DEF Write, Set
    <3>2. PlacedIn(accepted'[w], fate'[w], inHand'[w], diode'[w])
      BY <1>1, <1>3, <3>1, PlacedWrite DEF Goal
    <3>3. Len(fate[w]) <= Len(accepted[w])
      BY <1>1, <1>3, PlacedLength DEF Goal
    <3>4. TalliedIn(accepted'[w], fate'[w], out'[w], reported'[w])
      BY <1>1, <1>3, <3>1, <3>3, TalliedWrite DEF Goal
    <3> QED
      BY <3>2, <3>4 DEF Goal
  <2> QED
    BY <2>1, <2>2
<1>7. ASSUME NEW v \in Writer, TakeNext(v) PROVE Goal(w)'
  <2>1. CASE v # w
    BY <1>2, <1>4, <1>7, <2>1 DEF TakeNext
  <2>2. CASE v = w
    <3> DEFINE missed == Missed(diode[w], DiodeSize)
    <3>1. diode[w] # <<>> /\ Len(inHand[w]) = 0
      BY <1>1, <1>7, <2>2 DEF TakeNext, IsEmpty, Empty
    <3>2. missed \in 0 .. Len(diode[w]) - 1 /\ missed \in Nat
      BY <1>3, <3>1, MissedBounds
    <3>3. /\ inHand'[w] = <<diode[w][missed + 1]>>
          /\ diode'[w] = SubSeq(diode[w], missed + 2, Len(diode[w]))
          /\ fate'[w] = fate[w] \o [i \in 1 .. missed |-> "dropped"]
          /\ reported'[w] = reported[w] + missed
          /\ UNCHANGED <<accepted, out>>
      BY <1>2, <1>7, <2>2 DEF TakeNext, NextOf, Rest
    <3> HIDE DEF missed
    <3>4. PlacedIn(accepted'[w], fate'[w], inHand'[w], diode'[w])
      BY <1>1, <1>3, <3>1, <3>2, <3>3, PlacedRead DEF Goal
    <3>5. TalliedIn(accepted'[w], fate'[w], out'[w], reported'[w])
      BY <1>1, <1>3, <3>2, <3>3, TalliedRead DEF Goal
    <3> QED
      BY <3>4, <3>5 DEF Goal
  <2> QED
    BY <2>1, <2>2
<1>8. ASSUME NEW v \in Writer, WriteSucceeds(v) PROVE Goal(w)'
  <2>1. CASE v # w
    BY <1>2, <1>4, <1>8, <2>1 DEF WriteSucceeds
  <2>2. CASE v = w
    <3> DEFINE m == accepted[w][Len(fate[w]) + 1]
    <3>1. /\ fate'[w] = Append(fate[w], "delivered") /\ inHand'[w] = <<>>
          /\ out'[w] = out[w] \o inHand[w] /\ Len(inHand[w]) = 1
          /\ UNCHANGED <<accepted, reported, diode>>
      BY <1>1, <1>2, <1>8, <2>2 DEF WriteSucceeds
    <3>2. inHand[w][1] = m
      BY <1>1, <3>1 DEF Goal, PlacedIn
    <3>3. out'[w] = Append(out[w], m) /\ m \in Message
      BY <1>3, <3>1, <3>2, SingletonConcatenated
    <3>4. "delivered" \in Fate
      BY DEF Fate
    <3>5. PlacedIn(accepted'[w], fate'[w], inHand'[w], diode'[w])
      BY <1>1, <1>3, <3>1, <3>4, PlacedFate DEF Goal
    <3>6. TalliedIn(accepted'[w], fate'[w], out'[w], reported'[w])
      BY <1>1, <1>3, <3>1, <3>3, TalliedDelivered DEF Goal
    <3> QED
      BY <3>5, <3>6 DEF Goal
  <2> QED
    BY <2>1, <2>2
<1>9. ASSUME NEW v \in Writer, WriteFails(v) PROVE Goal(w)'
  <2>1. CASE v # w
    BY <1>2, <1>4, <1>9, <2>1 DEF WriteFails
  <2>2. CASE v = w
    <3>1. /\ fate'[w] = Append(fate[w], "failed") /\ inHand'[w] = <<>>
          /\ Len(inHand[w]) = 1
          /\ UNCHANGED <<accepted, out, reported, diode>>
      BY <1>1, <1>2, <1>9, <2>2 DEF WriteFails
    <3>2. "failed" \in Fate
      BY DEF Fate
    <3>3. PlacedIn(accepted'[w], fate'[w], inHand'[w], diode'[w])
      BY <1>1, <1>3, <3>1, <3>2, PlacedFate DEF Goal
    <3>4. TalliedIn(accepted'[w], fate'[w], out'[w], reported'[w])
      BY <1>1, <1>3, <3>1, TalliedFailed DEF Goal
    <3> QED
      BY <3>3, <3>4 DEF Goal
  <2> QED
    BY <2>1, <2>2
<1>10. ASSUME NEW v \in Writer, NextReturnsNil(v) \/ Done(v) \/ Close(v)
      PROVE  Goal(w)'
  BY <1>4, <1>10 DEF NextReturnsNil, Done, Close
<1>11. CASE UNCHANGED writerVars
  BY <1>4, <1>11 DEF writerVars
<1> QED
  BY <1>5, <1>6, <1>7, <1>8, <1>9, <1>10, <1>11, Cases

(* A number of steps of any kind keeps the invariant. *)
LEMMA StepIInv == IInv /\ [AnyStep]_writerVars => IInv'
BY TypeStep, RunsStep, CountedStep, FlushedStep, PlacedAndTallied DEF IInv

(* The invariant says that every message is accounted for. *)
LEMMA AccountedFollows == IInv => Accounted
<1> SUFFICES ASSUME IInv, NEW w \in Writer
             PROVE  /\ Len(fate[w]) <= Len(accepted[w])
                    /\ SubSeq(accepted[w], Len(fate[w]) + 1, Len(accepted[w]))
                         = inHand[w] \o diode[w]
  BY DEF Accounted, IInv, Tallied, TalliedIn
<1>1. /\ accepted[w] \in Seq(Message) /\ fate[w] \in Seq(Fate)
      /\ inHand[w] \in Seq(Message) /\ diode[w] \in Seq(Message)
  BY DEF IInv, WriterTypeOK
<1>2. PlacedIn(accepted[w], fate[w], inHand[w], diode[w])
  BY DEF IInv, Placed
<1> QED
  BY <1>1, <1>2, PlacedSplit

-----------------------------------------------------------------------------
(* The inductive invariant holds in every reachable state. *)
THEOREM Invariance == Spec => []IInv
<1>1. IInv /\ [Next]_writerVars => IInv'
  BY StepIInv, NextIsAnyStep
<1> QED
  BY InitIInv, <1>1, PTL DEF Spec

(* The variables of the writers keep their types. *)
THEOREM TypeCorrect == Spec => []WriterTypeOK
BY Invariance, PTL DEF IInv

(* start's loop ends only under a cancelled context, whatever the drain      *)
(* answers, and wg counts the goroutines still in it.                        *)
THEOREM LoopOutlivesFailures == Spec => []RunsUntilCancelled
BY Invariance, PTL DEF IInv

(* Everything Write took before the cancellation has met its fate when the   *)
(* goroutine returns, unless its last write failed.                          *)
THEOREM FlushesBeforeReturning == Spec => []FlushedUnlessFailed
BY Invariance, PTL DEF IInv

(* Every message given to Write is in the diode, in hand, delivered in its   *)
(* order, failed, or dropped and reported.                                   *)
THEOREM EveryMessageAccounted == Spec => []Accounted
BY Invariance, AccountedFollows, PTL
=============================================================================
