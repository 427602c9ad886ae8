---------------------------- MODULE MCMetricsChain ----------------------------
(* A VM that may have no health file; the other target answers with families *)
(* that are all known or with one whose type is not.                         *)
EXTENDS MetricsChain

F(name, type) == [name |-> name, type |-> type]

MCFamilies == {{F("s", "summary"), F("u", "untyped")}, {F("h", "histogram"), F("f", "fractional")}}
=============================================================================
