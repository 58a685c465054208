------------------------------ MODULE Workflow ------------------------------
(***************************************************************************)
(* AgentWorkflow.execute (agents/composition.py) and the CheckpointManager *)
(* below it (utils/checkpointing.py): runs of one workflow, in one process *)
(* or in several, that share the session file wf-<name>.json, crash, and   *)
(* are resumed by later runs.  The graph is built before the first run.    *)
(*                                                                         *)
(* Of a node's output the model keeps its origin: the clients whose inputs *)
(* it was computed from, and Missing if it took {} for the output of a     *)
(* node that had none.  A node without an output is one whose output is    *)
(* {Missing}: node_outputs.get(pred, {}) does not tell them apart.         *)
(***************************************************************************)
EXTENDS WorkflowGraph

CONSTANTS
  Ran,      \* bound: the lists of edges that are run, with all agents in
  Stranger, \* an id that names no node
  Run,      \* the clients that call execute(), one call after another,
            \* each with the same checkpoint_dir and an input of its own
  MaxBegun, \* bound: calls of execute()
  Missing,
  None      \* Python's None, and a file that does not exist

ASSUME WorkflowAssumption ==
  /\ Ran \subseteq Seq(Edge)
  /\ MaxBegun \in Nat
  /\ IsFiniteSet(Run)
  /\ Stranger \notin Node /\ None \notin Node \cup {Stranger}
  /\ Missing \notin Run

VARIABLES
  levels,   \* execution_levels(), which every run computes and no run changes
  file,     \* the session file: None, or its contents
  phase,    \* phase[r]: where the run stands
  level,    \* level[r]: level_idx
  pending,  \* pending[r]: nodes of the level still executing
  outputs,  \* outputs[r]: node_outputs
  start,    \* history, start[r]: how r began, see Start
  begun     \* how many calls have begun, counted for the bound

run == <<levels, file, phase, level, pending, outputs, start, begun>>
vars == <<graph, run>>

\* A "sound" run resumes at a node all of whose lower levels are in the
\* checkpoint, which was not left by an unsound run.
Start == {"fresh", "sound", "unsound"}

\* "running": the task group of a level; "yielding": its results are handed
\* out one by one; "saving": the temporary file is being written; "over":
\* returned; "dead": an exception, a close() or a crash.
Phase == {"idle", "running", "yielding", "saving", "over", "dead"}
Output == SUBSET (Run \cup {Missing})
NoOutputs == [n \in Node |-> {Missing}]
Checkpoint ==
  [level : 0..Cardinality(Node), outputs : [Node -> Output], start : Start]

TypeOK ==
  /\ GraphTypeOK
  /\ levels \in [nodes -> 0..Cardinality(Node)] \/ begun = 0
  /\ file # None => file \in Checkpoint
  /\ phase \in [Run -> Phase]
  /\ level \in [Run -> 0..Cardinality(Node)]
  /\ pending \in [Run -> SUBSET Node]
  /\ \A r \in Run : phase[r] = "running" <=> pending[r] # {}
  /\ outputs \in [Run -> [Node -> Output]]
  /\ start \in [Run -> Start]
  /\ begun \in 0..MaxBegun

Init ==
  /\ InitGraph
  /\ levels = <<>>
  /\ file = None
  /\ phase = [r \in Run |-> "idle"]
  /\ level = [r \in Run |-> 0]
  /\ pending = [r \in Run |-> {}]
  /\ outputs = [r \in Run |-> NoOutputs]
  /\ start = [r \in Run |-> "fresh"]
  /\ begun = 0

----------------------------------------------------------------------------
(***************************************************************************)
(* The nodes' inputs and outputs                                           *)
(***************************************************************************)

\* Of the levels ls: the agents of level l, and how many levels there are.
At(ls, l) == {n \in DOMAIN ls : ls[n] = l}
Depth(ls) == 1 + Max({ls[n] : n \in DOMAIN ls})

Feeding(n) == {p \in Predecessors(n) : edges[GetEdge(p, n)] \notin Barred}

\* _run_node(n) of run r: the initial input for a root, else the outputs of
\* the predecessors whose edge's condition holds.
RunNode(r, n) ==
  IF Predecessors(n) = {}
  THEN {r}
  ELSE UNION {outputs[r][p] : p \in Feeding(n)}

\* Run r goes to level l: its nodes start together.
Enter(r, ls, l) ==
  /\ level' = [level EXCEPT ![r] = l]
  /\ phase' = [phase EXCEPT ![r] = "running"]
  /\ pending' = [pending EXCEPT ![r] = At(ls, l)]

\* Run r returns or dies, and what it held is gone.
Leave(r, how) ==
  /\ phase' = [phase EXCEPT ![r] = how]
  /\ pending' = [pending EXCEPT ![r] = {}]
  /\ level' = [level EXCEPT ![r] = 0]
  /\ outputs' = [outputs EXCEPT ![r] = NoOutputs]
  /\ start' = [start EXCEPT ![r] = "fresh"]

\* The levels below the resume node are skipped; all of them, if there is
\* no such node.
FirstLevel(ls, resumeFrom) ==
  IF resumeFrom = None THEN 0
  ELSE IF resumeFrom = Stranger THEN Depth(ls) ELSE ls[resumeFrom]

StartOf(ls, resumeFrom) ==
  IF resumeFrom = None THEN "fresh"
  ELSE IF /\ resumeFrom \in nodes
          /\ \/ ls[resumeFrom] = 0
             \/ /\ file # None
                /\ file.start # "unsound"
                /\ ls[resumeFrom] <= file.level + 1
       THEN "sound"
       ELSE "unsound"

----------------------------------------------------------------------------
(***************************************************************************)
(* execute()                                                               *)
(***************************************************************************)

\* CheckpointManager.load() raises FileNotFoundError, which leaves the run
\* without outputs, or returns the state that was saved.
LoadSession == IF file = None THEN NoOutputs ELSE file.outputs

\* The checkpoint is loaded whether or not the run resumes.
Load_Always(r, resumeFrom) == outputs' = [outputs EXCEPT ![r] = LoadSession]

\* A run loads the session only if it resumes.
Load(r, resumeFrom) ==
  outputs' = [outputs EXCEPT ![r] =
    IF resumeFrom = None THEN NoOutputs ELSE LoadSession]

\* The first step of execute(): the workflow validates, and is one the bound
\* lets run.
Begin(r, resumeFrom) ==
  /\ phase[r] \in {"idle", "over", "dead"}
  /\ begun < MaxBegun
  /\ nodes = Node /\ edges \in Ran
  /\ Validate = {}
  /\ begun' = begun + 1
  /\ LET ls == ExecutionLevels
         first == FirstLevel(ls, resumeFrom)
     IN /\ levels' = ls
        /\ IF first < Depth(ls)
           THEN /\ Load(r, resumeFrom)
                /\ start' = [start EXCEPT ![r] = StartOf(ls, resumeFrom)]
                /\ Enter(r, ls, first)
           ELSE Leave(r, "over")
  /\ UNCHANGED <<graph, file>>

\* A node of the level ends.  The last one ends the task group, and the
\* outputs of the whole level are stored and yielded.
NodeDone(r, n) ==
  /\ phase[r] = "running"
  /\ n \in pending[r]
  /\ pending' = [pending EXCEPT ![r] = @ \ {n}]
  /\ IF pending[r] = {n}
     THEN /\ outputs' = [outputs EXCEPT ![r] =
               [m \in Node |-> IF m \in At(levels, level[r]) THEN RunNode(r, m) ELSE @[m]]]
          /\ phase' = [phase EXCEPT ![r] = "yielding"]
     ELSE UNCHANGED <<outputs, phase>>
  /\ UNCHANGED <<graph, levels, file, level, start, begun>>

\* A node raises and cancels its task group, the consumer closes the
\* generator, save() fails, or the process dies.  No file is touched: the
\* temporary one was not yet moved into place.
Die(r) ==
  /\ phase[r] \in {"running", "yielding", "saving"}
  /\ Leave(r, "dead")
  /\ UNCHANGED <<graph, levels, file, begun>>

\* The consumer has taken the last result: save() writes the checkpoint to a
\* temporary file.
StartSave(r) ==
  /\ phase[r] = "yielding"
  /\ phase' = [phase EXCEPT ![r] = "saving"]
  /\ UNCHANGED <<graph, levels, file, level, pending, outputs, start, begun>>

\* CheckpointManager.delete() by anyone, if there is a file.
Delete ==
  /\ file # None
  /\ file' = None
  /\ UNCHANGED <<graph, levels, phase, level, pending, outputs, start, begun>>

Saved(r) ==
  [level |-> level[r], outputs |-> outputs[r], start |-> start[r]]

\* To the next level of run r; it returns after the last.
Advance_OffByOne(r) ==
  IF level[r] < Depth(levels)
  THEN Enter(r, levels, level[r] + 1) /\ UNCHANGED <<outputs, start>>
  ELSE Leave(r, "over")

Advance(r) ==
  IF level[r] + 1 < Depth(levels)
  THEN Enter(r, levels, level[r] + 1) /\ UNCHANGED <<outputs, start>>
  ELSE Leave(r, "over")

\* Only the level just executed is saved.
Replace_LevelOnly(r) ==
  /\ phase[r] = "saving"
  /\ file' = [Saved(r) EXCEPT !.outputs =
       [n \in Node |-> IF n \in At(levels, level[r]) THEN @[n] ELSE {Missing}]]
  /\ Advance(r)
  /\ UNCHANGED <<graph, levels, begun>>

\* os.replace() puts the checkpoint in place.
Replace(r) ==
  /\ phase[r] = "saving"
  /\ file' = Saved(r)
  /\ Advance(r)
  /\ UNCHANGED <<graph, levels, begun>>

\* What a run does by itself.
Proceed(r) == StartSave(r) \/ Replace(r) \/ \E n \in Node : NodeDone(r, n)

Next ==
  \/ begun = 0 /\ Build /\ UNCHANGED run
  \/ \E r \in Run :
       \/ \E n \in Node \cup {None, Stranger} : Begin(r, n)
       \/ Proceed(r)
       \/ Die(r)
  \/ Delete

Spec == Init /\ [][Next]_vars

\* A run that has begun goes on: every node's executor comes to an end, and
\* the consumer takes the results, or else the run dies.
Fairness == \A r \in Run : WF_vars(Proceed(r))

FairSpec == Spec /\ Fairness

----------------------------------------------------------------------------
(***************************************************************************)
(* Properties                                                              *)
(***************************************************************************)

\* The graph a workflow is built to is sound (GraphSound says how), up to the
\* first run, after which it does not change (add_edge and remove_agent).
BuiltSound == begun = 0 => GraphSound

\* All nodes below level l have an output, and computed it from outputs.
Complete(out, l) == \A n \in nodes : levels[n] < l => Missing \notin out[n]

\* A run that began afresh or at a node the checkpoint leads up to has the
\* output of every node below its level, none computed from a missing
\* predecessor, however runs crashed, overlapped and resumed before it; and
\* so has the checkpoint it writes (execute and save).  One that does not
\* resume computes from its own input alone, and hands out nothing that
\* another run left in the shared file.
ResumeSound ==
  /\ \A r \in Run :
       start[r] # "unsound" /\ phase[r] # "idle" => Complete(outputs[r], level[r])
  /\ file # None /\ file.start # "unsound" =>
       Complete(file.outputs, file.level + 1)
  /\ \A r \in Run : start[r] = "fresh" =>
       \A n \in Node : outputs[r][n] \subseteq {r, Missing}

\* A run that begins goes through its levels and returns, or dies.
RunsEnd == \A r \in Run : phase[r] = "running" ~> phase[r] \in {"over", "dead"}

=============================================================================
