---------------------------- MODULE MCSyslogDrain ----------------------------
(* Envelopes of every kind, told apart by their number: a log or counter of  *)
(* one message, a gauge of two, a timer that is not sent, and one with an     *)
(* instance id that is too long.                                             *)
EXTENDS SyslogDrain

CONSTANT MaxWrites

MCMessage == [n : 1 .. MaxWrites, kind : {"log", "gauge", "timer", "long"}]

MCParts(e) ==
  CASE e.kind = "log" -> {<<e, 1>>}
    [] e.kind = "gauge" -> {<<e, 1>>, <<e, 2>>}
    [] OTHER -> {}

MCValid(e) == e.kind # "long"

(* The n-th envelope written is one numbered n, and one at most is a gauge. *)
Gauges == {e \in ToSet(accepted[Drain]) : e.kind = "gauge"}

MCNext ==
  /\ DrainNext
  /\ accepted' # accepted => /\ Last(accepted'[Drain]).n = Len(accepted'[Drain])
                             /\ Cardinality(Gauges') <= 1

MCSpec == Init /\ [][MCNext]_vars /\ WF_vars(Goroutine)
=============================================================================
