---------------------------- MODULE MCPluginHost ----------------------------
(* Two calls of one agent, one of another.  A list has a plugin twice. *)
EXTENDS PluginHost, TLC

CONSTANTS c1, c2, c3

Estimates == {-1, 0, 1, 2, NaN, Unreadable}
Agents == c1 :> "a" @@ c2 :> "a" @@ c3 :> "b"
SomeLists == {<<Other, CostCap, Latitude>>, <<Latitude, CostCap, CostCap>>}
Symmetric == Permutations({c1, c2})
=============================================================================
