-------------------------------- MODULE Diode --------------------------------
(***************************************************************************)
(* The ring buffers of code.cloudfoundry.org/go-diodes, as the wrappers of  *)
(* pkg/diodes use them.  Set never blocks and never fails: a writer that    *)
(* laps the reader overwrites.  The reader notices when the slot it reads   *)
(* next holds a message of a later lap: it then jumps to that message,      *)
(* whole laps ahead, and calls the alerter with the number it skipped.      *)
(*                                                                         *)
(* A diode is represented by the sequence of the messages set since the     *)
(* last one read, those already overwritten included; size is its number    *)
(* of slots.  Of these messages the slot at the read index holds the last   *)
(* one whose position is congruent to 1 modulo size.                        *)
(***************************************************************************)
EXTENDS Integers, Sequences

Empty == <<>>

Set(d, m) == Append(d, m)

(* TryNext answers false, and Next waits. *)
IsEmpty(d) == d = Empty

(* What the alerter is told by the read of a non-empty diode. *)
Missed(d, size) == ((Len(d) - 1) \div size) * size

(* The message a read of a non-empty diode returns, *)
NextOf(d, size) == d[Missed(d, size) + 1]

(* and the diode it leaves. *)
Rest(d, size) == SubSeq(d, Missed(d, size) + 2, Len(d))
=============================================================================
