------------------------------- MODULE MCSdk --------------------------------
(***************************************************************************)
(* Discovery and the command line share no variable, so what the steps of  *)
(* one do is the same whatever the other does between them: a behaviour    *)
(* here is one of either, while the other waits in an initial state.       *)
(*                                                                         *)
(* Three models: one pinned with a safe_name of its own, and one pinned    *)
(* that the filters leave out, whose safe_name another model shares.  A    *)
(* file with the same name twice and one entry passed over, and a broken   *)
(* file.                                                                   *)
(***************************************************************************)
EXTENDS Discovery, StepRunner

CONSTANTS pinned, sharing, foreign, a, b, w

Names == (pinned :> a) @@ (sharing :> b) @@ (foreign :> b)

Def(n) == [name |-> w, steps |-> n]
SomeFiles == {<<Def(1), Def(0), Def(2)>>, <<Def(1), Broken, Def(2)>>}

VARIABLE subject  \* the component that takes steps

SdkInit ==
  /\ Init /\ RunnerInit
  /\ subject \in {"discovery", "runner"}
  /\ subject = "runner" => mode = "exact"

SdkNext ==
  \/ subject = "discovery" /\ Next /\ UNCHANGED <<runnerVars, subject>>
  \/ subject = "runner" /\ RunnerNext /\ UNCHANGED <<vars, subject>>

SdkSpec == SdkInit /\ [][SdkNext]_<<vars, runnerVars, subject>>

=============================================================================
