-------------------------- MODULE MCBindingManager --------------------------
(* Two apps: s1 has a binding b1 and, when it is in Binding, a binding b2    *)
(* no writer can be made for; s2 has b3.                                     *)
EXTENDS BindingManager, TLC

CONSTANTS b1, b2, b3, s1, s2

MCAppId == [b \in Binding |-> IF b = b3 THEN s2 ELSE s1]

(* Contexts are interchangeable: no definition names one. *)
ContextSymmetry == Permutations(Ctx)
=============================================================================
