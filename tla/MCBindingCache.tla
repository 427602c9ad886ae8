--------------------------- MODULE MCBindingCache ---------------------------
(* Two apps on two pages.  Drain 1 does not parse, drain 2 is blacklisted,   *)
(* drains 3 and 4 are good: with a limit of two, drain 1 costs an app that    *)
(* has 3 and 4 as well the last of them.                                      *)
EXTENDS BindingCache

CONSTANTS a1, a2

MCPageOf == [a \in App |-> IF a = a1 THEN 1 ELSE 2]
MCDrainSets == {{}, {2, 4}, {1, 3, 4}}
MCKind == [d \in Drain |->
             IF d = 1 THEN "unparsable" ELSE IF d = 2 THEN "blacklisted" ELSE "good"]
=============================================================================
