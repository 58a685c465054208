------------------------------ MODULE MCRouter ------------------------------
(* Two models, tried in order. *)
EXTENDS Router, TLC

CONSTANTS m1, m2

TwoModels == <<m1, m2>>
Symmetric == Permutations(Caller)
=============================================================================
