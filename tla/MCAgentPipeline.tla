--------------------------- MODULE MCAgentPipeline ---------------------------
(* Two counters with increments of one, as envelopes: one untagged, one  *)
(* with the default among its deprecated tags; a log; a datagram of a counter that  *)
(* brings its total, and one that can not be decoded.                        *)
EXTENDS AgentPipeline

CONSTANTS counterA, counterB

E(name, delta, total, tag, deprecated) ==
  [n |-> 0, name |-> name, delta |-> delta, total |-> total, tag |-> tag,
   deprecated |-> deprecated]

MCEnvelopes == {E(counterA, 1, 0, NoTag, NoTag), E(counterB, 1, 0, NoTag, ForwarderTag),
                E(NoName, 0, 0, NoTag, NoTag)}

Received == {E(counterA, 0, 5, ForwarderTag, NoTag), E(NoName, 0, 0, NoTag, NoTag)}

MCDatagrams == {[valid |-> e.name # NoName, env |-> e] : e \in Received}
=============================================================================
