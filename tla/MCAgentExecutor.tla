--------------------------- MODULE MCAgentExecutor ---------------------------
(***************************************************************************)
(* Two calls that come to one model, one by an agent of the map and one by *)
(* the model's own name; and one to another, which discovery may know.     *)
(***************************************************************************)
EXTENDS AgentExecutor

CONSTANTS r1, r2, r3, m1, m2, mapped, found

Calls == r1 :> mapped @@ r2 :> m1 @@ r3 :> found
Mapped == mapped :> m1
Known == found :> m2

=============================================================================
