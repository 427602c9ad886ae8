---------------------------- MODULE MCSyslogAgent ----------------------------
(* Both bindings belong to s1; s2 is a source without drains. *)
EXTENDS SyslogAgent

CONSTANTS b1, b2, s1, s2

MCAppId == [b \in Binding |-> s1]
=============================================================================
