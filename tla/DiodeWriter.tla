----------------------------- MODULE DiodeWriter -----------------------------
(***************************************************************************)
(* The asynchronous drain writers of pkg/egress/diode_writer.go.  Each      *)
(* writer decouples its callers from a slow or failing WriteCloser by a     *)
(* diode and a goroutine.  The goroutine lives until its context is         *)
(* cancelled: it then flushes what the diode holds, but gives up at the     *)
(* first write that fails.                                                  *)
(*                                                                         *)
(* A writer is identified with its context.  The last three variables are   *)
(* history: they say what became of every message.                          *)
(***************************************************************************)
EXTENDS Integers, Sequences, FiniteSets, SequencesExt, Diode

CONSTANTS
  Writer,     \* the writers (contexts) there may be
  Message,    \* envelopes
  DiodeSize   \* slots of a writer's diode (10000 in the code)

ASSUME DiodeWriterAssumption ==
  /\ IsFiniteSet(Writer)
  /\ DiodeSize \in Nat \ {0}

VARIABLES
  pc,         \* the goroutine: "none", "next", "write", "exit", "close", "closed"
  diode,      \* the diode of each writer
  inHand,     \* what the goroutine is writing: a sequence of at most one message
  cancelled,  \* the writers whose context is done
  reported,   \* the total the alerter was called with
  wg,         \* the WaitGroup's counter
  out,        \* what the WriteCloser accepted
  accepted,   \* history: what was passed to Write
  fate,       \* history: the fates of the messages read off the diode, in order
  flushTo     \* history: how many messages Write took before the cancellation

writerVars == <<pc, diode, inHand, cancelled, reported, wg, out, accepted,
                fate, flushTo>>

Fate == {"delivered", "failed", "dropped"}

Started(w) == pc[w] # "none"
Exited(w) == pc[w] \in {"exit", "close", "closed"}

-----------------------------------------------------------------------------
WriterInit ==
  /\ pc = [w \in Writer |-> "none"]
  /\ diode = [w \in Writer |-> Empty]
  /\ inHand = [w \in Writer |-> <<>>]
  /\ cancelled = {}
  /\ reported = [w \in Writer |-> 0]
  /\ wg = 0
  /\ out = [w \in Writer |-> <<>>]
  /\ accepted = [w \in Writer |-> <<>>]
  /\ fate = [w \in Writer |-> <<>>]
  /\ flushTo = [w \in Writer |-> 0]

(* Faulty variant of NewDiodeWriters: wg.Add is left out. *)
NewDiodeWritersUncounted(W) ==
  /\ \A w \in W : pc[w] = "none"
  /\ pc' = [w \in Writer |-> IF w \in W THEN "next" ELSE pc[w]]
  /\ UNCHANGED <<wg, diode, inHand, cancelled, reported, out, accepted, fate,
                 flushTo>>

(* NewDiodeWriter, for all the writers of W at once. *)
NewDiodeWriters(W) ==
  /\ \A w \in W : pc[w] = "none"
  /\ pc' = [w \in Writer |-> IF w \in W THEN "next" ELSE pc[w]]
  /\ wg' = wg + Cardinality(W)
  /\ UNCHANGED <<diode, inHand, cancelled, reported, out, accepted, fate, flushTo>>

(* Write can not fail; nobody reads the diode any more once the goroutine *)
(* has returned.                                                          *)
Write(w, m) ==
  /\ Started(w)
  /\ diode' = [diode EXCEPT ![w] = Set(@, m)]
  /\ accepted' = [accepted EXCEPT ![w] = Append(@, m)]
  /\ UNCHANGED <<pc, inHand, cancelled, reported, wg, out, fate, flushTo>>

(* The owner of the contexts W cancels them. *)
Cancel(W) ==
  /\ cancelled' = cancelled \cup W
  /\ flushTo' = [w \in Writer |-> IF w \in W \ cancelled
                                    THEN Len(accepted[w]) ELSE flushTo[w]]
  /\ UNCHANGED <<pc, diode, inHand, reported, wg, out, accepted, fate>>

(* diode.Next returns a message, after calling the alerter if it was lapped. *)
TakeNext(w) ==
  LET missed == Missed(diode[w], DiodeSize)
  IN  /\ pc[w] = "next"
      /\ ~IsEmpty(diode[w])
      /\ inHand' = [inHand EXCEPT ![w] = <<NextOf(diode[w], DiodeSize)>>]
      /\ diode' = [diode EXCEPT ![w] = Rest(@, DiodeSize)]
      /\ reported' = [reported EXCEPT ![w] = @ + missed]
      /\ fate' = [fate EXCEPT ![w] = @ \o [i \in 1 .. missed |-> "dropped"]]
      /\ pc' = [pc EXCEPT ![w] = "write"]
      /\ UNCHANGED <<cancelled, wg, out, accepted, flushTo>>

(* Faulty variants of NextReturnsNil: the context alone ends the loop, the   *)
(* empty diode alone does (TryNext for Next), and nothing does (a waiter     *)
(* made without the context).                                                *)
NilWithoutFlush(w) ==
  /\ pc[w] = "next"
  /\ w \in cancelled
  /\ pc' = [pc EXCEPT ![w] = "exit"]
  /\ UNCHANGED <<diode, inHand, cancelled, reported, wg, out, accepted, fate, flushTo>>

NilWhenEmpty(w) ==
  /\ pc[w] = "next"
  /\ IsEmpty(diode[w])
  /\ pc' = [pc EXCEPT ![w] = "exit"]
  /\ UNCHANGED <<diode, inHand, cancelled, reported, wg, out, accepted, fate, flushTo>>

NeverNil(w) == FALSE

(* diode.Next returns nil: the context is done and the diode is empty. *)
NextReturnsNil(w) ==
  /\ pc[w] = "next"
  /\ IsEmpty(diode[w])
  /\ w \in cancelled
  /\ pc' = [pc EXCEPT ![w] = "exit"]
  /\ UNCHANGED <<diode, inHand, cancelled, reported, wg, out, accepted, fate, flushTo>>

WriteSucceeds(w) ==
  /\ pc[w] = "write"
  /\ out' = [out EXCEPT ![w] = @ \o inHand[w]]
  /\ inHand' = [inHand EXCEPT ![w] = <<>>]
  /\ fate' = [fate EXCEPT ![w] = Append(@, "delivered")]
  /\ pc' = [pc EXCEPT ![w] = "next"]
  /\ UNCHANGED <<diode, cancelled, reported, wg, accepted, flushTo>>

(* Faulty variants of AfterFailure: a failure ends the loop, and a failed     *)
(* write is tried again.                                                      *)
FailureExits(w) == "exit"
FailureRetries(w) == "write"

(* The step after a failed write: ContextDone decides. *)
AfterFailure(w) == IF w \in cancelled THEN "exit" ELSE "next"

WriteFails(w) ==
  /\ pc[w] = "write"
  /\ inHand' = [inHand EXCEPT ![w] = <<>>]
  /\ fate' = [fate EXCEPT ![w] = Append(@, "failed")]
  /\ pc' = [pc EXCEPT ![w] = AfterFailure(w)]
  /\ UNCHANGED <<diode, cancelled, reported, wg, out, accepted, flushTo>>

(* The deferred calls, last in first out: wg.Done() and then wc.Close(). *)
Done(w) ==
  /\ pc[w] = "exit"
  /\ pc' = [pc EXCEPT ![w] = "close"]
  /\ wg' = wg - 1
  /\ UNCHANGED <<diode, inHand, cancelled, reported, out, accepted, fate, flushTo>>

Close(w) ==
  /\ pc[w] = "close"
  /\ pc' = [pc EXCEPT ![w] = "closed"]
  /\ UNCHANGED <<diode, inHand, cancelled, reported, wg, out, accepted, fate, flushTo>>

(* One step of the goroutine start(). *)
start(w) ==
  \/ TakeNext(w)
  \/ NextReturnsNil(w)
  \/ WriteSucceeds(w)
  \/ WriteFails(w)
  \/ Done(w)
  \/ Close(w)

Next ==
  \E w \in Writer :
    \/ pc[w] = "none" /\ NewDiodeWriters({w})
    \/ \E m \in Message : Write(w, m)
    \/ w \notin cancelled /\ Cancel({w})
    \/ start(w)

(* The goroutine is scheduled, and a write to a drain returns: the syslog  *)
(* writers set dial and I/O timeouts.                                      *)
Spec ==
  /\ WriterInit /\ [][Next]_writerVars
  /\ \A w \in Writer : WF_writerVars(start(w))

-----------------------------------------------------------------------------
(* Every variable keeps its type. *)
WriterTypeOK ==
  /\ pc \in [Writer -> {"none", "next", "write", "exit", "close", "closed"}]
  /\ diode \in [Writer -> Seq(Message)]
  /\ inHand \in [Writer -> Seq(Message)]
  /\ cancelled \subseteq Writer
  /\ reported \in [Writer -> Nat]
  /\ wg \in Nat
  /\ out \in [Writer -> Seq(Message)]
  /\ accepted \in [Writer -> Seq(Message)]
  /\ fate \in [Writer -> Seq(Fate)]
  /\ flushTo \in [Writer -> Nat]

Count(f, x) == Cardinality({i \in DOMAIN f : f[i] = x})

(* Which of the delivered messages the i-th one of f is. *)
Rank(f, i) == Cardinality({j \in 1 .. i : f[j] = "delivered"})

(* Every message given to Write is accounted for, once and in order: the    *)
(* messages not read off the diode yet are its contents, the drain received *)
(* the delivered ones in the order they were written and none twice, and    *)
(* the alerter was told exactly the number of the overwritten ones ("The    *)
(* alerter is called whenever data is dropped", pkg/diodes).                *)
Accounted ==
  \A w \in Writer :
    /\ Len(fate[w]) <= Len(accepted[w])
    /\ SubSeq(accepted[w], Len(fate[w]) + 1, Len(accepted[w]))
         = inHand[w] \o diode[w]
    /\ Len(out[w]) = Count(fate[w], "delivered")
    /\ \A i \in DOMAIN fate[w] :
         fate[w][i] = "delivered" => out[w][Rank(fate[w], i)] = accepted[w][i]
    /\ reported[w] = Count(fate[w], "dropped")

(* A cancelled writer flushes: when its goroutine has returned, every       *)
(* message written before the cancellation was delivered, dropped with a    *)
(* report or refused by the drain, unless a write failed last, after the    *)
(* cancellation, and the goroutine gave up (diode_writer_test.go, "flushes  *)
(* existing messages after close").                                         *)
FlushedUnlessFailed ==
  \A w \in Writer :
    Exited(w) => \/ Len(fate[w]) >= flushTo[w]
                 \/ fate[w] # <<>> /\ Last(fate[w]) = "failed"

(* The goroutine of a writer whose context is not cancelled never returns,  *)
(* whatever the drain answers, and the WaitGroup counts the goroutines that *)
(* have not returned: a started writer keeps consuming.                     *)
RunsUntilCancelled ==
  /\ \A w \in Writer : Exited(w) => w \in cancelled
  /\ wg = Cardinality({w \in Writer : pc[w] \in {"next", "write", "exit"}})

(* A cancelled writer closes its connection, however its writes go. *)
CancelledWriterCloses ==
  \A w \in Writer : (Started(w) /\ w \in cancelled) ~> pc[w] = "closed"

(* While the context lives, no message waits forever in the diode. *)
MessageIsRead ==
  \A w \in Writer :
    (Started(w) /\ diode[w] # <<>>) ~> (diode[w] = <<>> \/ w \in cancelled)
=============================================================================
