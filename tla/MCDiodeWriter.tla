---------------------------- MODULE MCDiodeWriter ----------------------------
(* Writers whose callers stop after MaxWrites messages: message i is the     *)
(* i-th one written to its writer, so no two are alike.                      *)
EXTENDS DiodeWriter

CONSTANT MaxWrites

MCMessage == 1 .. MaxWrites

MCNext ==
  \E w \in Writer :
    \/ pc[w] = "none" /\ NewDiodeWriters({w})
    \/ Len(accepted[w]) < MaxWrites /\ Write(w, Len(accepted[w]) + 1)
    \/ w \notin cancelled /\ Cancel({w})
    \/ start(w)

MCSpec ==
  /\ WriterInit /\ [][MCNext]_writerVars
  /\ \A w \in Writer : WF_writerVars(start(w))
=============================================================================
