----------------------------- MODULE MCWorkflow -----------------------------
(***************************************************************************)
(* A workflow that fans out and in again, and has an edge that skips a     *)
(* level.  While it is built, an edge back is tried, which would close     *)
(* cycles of two and of three agents, and an edge from an agent to itself. *)
(***************************************************************************)
EXTENDS Workflow

CONSTANTS a, b, c, d, ab, ac, bd, cd, ad, da, bb

Sources ==
  ab :> a @@ ac :> a @@ bd :> b @@ cd :> c @@ ad :> a @@ da :> d @@ bb :> b
Targets ==
  ab :> b @@ ac :> c @@ bd :> d @@ cd :> d @@ ad :> d @@ da :> a @@ bb :> b

Diamond == {<<ab, ac, bd, cd, ad>>}

=============================================================================
