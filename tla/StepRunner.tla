----------------------------- MODULE StepRunner -----------------------------
(***************************************************************************)
(* `replicate-agent workflows run` (cli/main.py) over the workflows that   *)
(* sdk.py registers.  A session is a Python process: its registry of       *)
(* workflows is filled by calls and by YAML files and lost with it.  A run *)
(* goes through the steps of one workflow, feeds what a step gave to the   *)
(* next, and leaves a file after every step; sessions share the directory  *)
(* of these files.                                                         *)
(*                                                                         *)
(* The state a run carries along and saves is abstracted to how it came    *)
(* about: which steps were made, by this run or by the runs whose files it *)
(* was resumed from, and whose outputs went into it.                       *)
(***************************************************************************)
EXTENDS Naturals, SequencesExt

CONSTANTS
  Session,   \* processes, with one checkpoint directory
  Workflow,  \* names of workflows
  MaxSteps,  \* bound: steps of a workflow
  YamlFile,  \* lists of definitions a file may hold, see Definition
  MaxRuns,   \* bound: runs of the command
  Absent     \* no workflow, run or file

\* An entry of a YAML file by its name and its number of valid steps, 0 if the
\* entry is passed over with a warning; Broken is one whose name is no text.
Definition == [name : Workflow, steps : 0..MaxSteps]
Broken == [name |-> Absent, steps |-> 0]

ASSUME StepRunnerAssumption ==
  /\ MaxSteps \in Nat \ {0} /\ MaxRuns \in Nat
  /\ YamlFile \subseteq Seq(Definition \cup {Broken})
  /\ Absent \notin Workflow

VARIABLES
  workflows, \* workflows[s]: _workflow_registry: steps by name, or Absent
  run,       \* run[s]: the run under way, or Absent
  file,      \* file[w][k]: the state in <w>_step_<k>.json, or Absent
  runs       \* runs so far, counted for the bound

runnerVars == <<workflows, run, file, runs>>

Step == 0..(MaxSteps - 1)

\* Where a state comes from: the step its first run began at, the steps that
\* were made since, those that gave an output, those whose outputs built the
\* state, in order, and whether one of its runs was made with --json.
State ==
  [from : 0..MaxSteps, made : SUBSET Step, gave : SUBSET Step, fed : Seq(Step),
   json : BOOLEAN]

\* json and dir: --json and --checkpoint-dir were given; ended: the step at hand
\* is over and its file is due.
Run ==
  [name : Workflow, steps : 0..MaxSteps, step : Step, state : State,
   json : BOOLEAN, dir : BOOLEAN, ended : BOOLEAN]

RunnerTypeOK ==
  /\ workflows \in [Session -> [Workflow -> (0..MaxSteps) \cup {Absent}]]
  /\ \A s \in Session :
       run[s] # Absent => run[s] \in Run /\ run[s].step < run[s].steps
  /\ \A w \in Workflow, k \in Step : file[w][k] # Absent => file[w][k] \in State
  /\ runs \in 0..MaxRuns

NoWorkflows == [w \in Workflow |-> Absent]

RunnerInit ==
  /\ workflows = [s \in Session |-> NoWorkflows]
  /\ run = [s \in Session |-> Absent]
  /\ file = [w \in Workflow |-> [k \in Step |-> Absent]]
  /\ runs = 0

----------------------------------------------------------------------------
(***************************************************************************)
(* The registry of workflows.  asyncio.run() keeps the session busy while  *)
(* a workflow runs.                                                        *)
(***************************************************************************)

Idle(s) == run[s] = Absent

\* WorkflowBuilder.build() raises when then() was never called.
Built(n) == n > 0

\* register_workflow() of what was built, or of a WorkflowSpec made by hand,
\* which may have no steps.
RegisterWorkflow(s, w, n) ==
  /\ Idle(s)
  /\ workflows' = [workflows EXCEPT ![s][w] = n]
  /\ UNCHANGED <<run, file, runs>>

ResetWorkflows(s) ==
  /\ Idle(s)
  /\ workflows' = [workflows EXCEPT ![s] = NoWorkflows]
  /\ UNCHANGED <<run, file, runs>>

\* load_workflows_file(): an entry replaces what had its name before.  A
\* broken one raises, and those before it stay registered.
Loaded(known, defs) ==
  LET broken == {i \in DOMAIN defs : defs[i] = Broken}
      good == {i \in DOMAIN defs :
                 Built(defs[i].steps) /\ \A j \in broken : i < j}
      Latest(w) == {i \in good : defs[i].name = w
                                 /\ \A j \in good : j > i => defs[j].name # w}
  IN  [w \in Workflow |->
         IF Latest(w) = {} THEN known[w] ELSE defs[CHOOSE i \in Latest(w) : TRUE].steps]

LoadWorkflowsFile(s) ==
  /\ Idle(s)
  /\ \E defs \in YamlFile :
       workflows' = [workflows EXCEPT ![s] = Loaded(@, defs)]
  /\ UNCHANGED <<run, file, runs>>

----------------------------------------------------------------------------
(***************************************************************************)
(* The command                                                             *)
(***************************************************************************)

\* What --input gives a run that begins at step k: a payload, or the file of
\* the step before.
Given(w, k) ==
  {[from |-> k, made |-> {}, gave |-> {}, fed |-> <<>>, json |-> FALSE]}
    \cup (IF k > 0 THEN {file[w][k - 1]} \ {Absent} ELSE {})

\* run_workflow() of a workflow in the registry: --resume-from k makes it begin
\* at step k, and needs --checkpoint-dir.  Nothing is read from there.
RunWorkflow(s, w, k) ==
  /\ Idle(s) /\ runs < MaxRuns
  /\ workflows[s][w] # Absent /\ k < workflows[s][w]
  /\ \E state \in Given(w, k), dir, json \in BOOLEAN :
       /\ k > 0 => dir
       /\ run' = [run EXCEPT ![s] =
            [name |-> w, steps |-> workflows[s][w], step |-> k,
             state |-> [state EXCEPT !.json = @ \/ json],
             json |-> json, dir |-> dir, ended |-> FALSE]]
  /\ runs' = runs + 1
  /\ UNCHANGED <<workflows, file>>

\* The loop goes on as long as there are steps to be skipped.
Advanced_ByStart(r) ==
  IF r.step >= r.steps THEN Absent ELSE [r EXCEPT !.step = @ + 1, !.ended = FALSE]

\* The next turn of the loop, or Absent after the last.
Advanced(r) ==
  IF r.step + 1 = r.steps THEN Absent
  ELSE [r EXCEPT !.step = @ + 1, !.ended = FALSE]

Busy(s) == run[s] # Absent /\ ~run[s].ended

\* The agent's stream ends: the output of a done chunk becomes the input of
\* the next step, but not with --json; after an error, or an empty output, the
\* input stays what it was.
StepEnds(s) ==
  /\ Busy(s)
  /\ \E output \in BOOLEAN :
       LET k == run[s].step
           state == [run[s].state EXCEPT
                       !.made = @ \cup {k},
                       !.gave = IF output THEN @ \cup {k} ELSE @,
                       !.fed = IF output /\ ~run[s].json THEN Append(@, k) ELSE @]
       IN  run' = [run EXCEPT ![s].state = state, ![s].ended = TRUE]
  /\ UNCHANGED <<workflows, file, runs>>

\* --timeout is up while the agent waits, which it does only between two
\* attempts and so before any output: that is the end of the run, but with
\* --json the step counts as over.
StepTimesOut(s) ==
  /\ Busy(s)
  /\ run' = IF run[s].json THEN [run EXCEPT ![s].ended = TRUE]
            ELSE [run EXCEPT ![s] = Absent]
  /\ UNCHANGED <<workflows, file, runs>>

\* The agent has no model: the exception ends the command.
StepRaises(s) ==
  /\ Busy(s)
  /\ run' = [run EXCEPT ![s] = Absent]
  /\ UNCHANGED <<workflows, file, runs>>

\* The files are numbered from the step the run began at.
SaveCheckpoint_Relative(s) ==
  /\ run[s] # Absent /\ run[s].ended
  /\ LET r == run[s] IN
       file' = IF r.dir THEN [file EXCEPT ![r.name][r.step - r.state.from] = r.state]
               ELSE file
  /\ run' = [run EXCEPT ![s] = Advanced(@)]
  /\ UNCHANGED <<workflows, runs>>

\* _save_checkpoint(): a temporary file takes the place of the file at once.
SaveCheckpoint(s) ==
  /\ run[s] # Absent /\ run[s].ended
  /\ LET r == run[s] IN
       file' = IF r.dir THEN [file EXCEPT ![r.name][r.step] = r.state] ELSE file
  /\ run' = [run EXCEPT ![s] = Advanced(@)]
  /\ UNCHANGED <<workflows, runs>>

\* The process ends, between commands, by a crash, or because a file cannot be
\* written; the next one starts with no workflows.
Exit(s) ==
  /\ workflows' = [workflows EXCEPT ![s] = NoWorkflows]
  /\ run' = [run EXCEPT ![s] = Absent]
  /\ UNCHANGED <<file, runs>>

Progress(s) ==
  StepEnds(s) \/ StepTimesOut(s) \/ StepRaises(s) \/ SaveCheckpoint(s)

RunnerNext ==
  \E s \in Session :
    \/ \E w \in Workflow :
         \/ \E n \in 0..MaxSteps : RegisterWorkflow(s, w, n)
         \/ \E k \in Step : RunWorkflow(s, w, k)
    \/ ResetWorkflows(s) \/ LoadWorkflowsFile(s)
    \/ Progress(s) \/ Exit(s)

RunnerSpec == RunnerInit /\ [][RunnerNext]_runnerVars

----------------------------------------------------------------------------
(***************************************************************************)
(* Properties                                                              *)
(***************************************************************************)

\* A state that may be taken up at the step after k: nothing of a later step
\* is in it and no output went in twice, and, unless --json was given on the
\* way, every output went in and no step was skipped, not even one that timed
\* out.
TrueAt(state, k) ==
  /\ state.made \subseteq state.from..k
  /\ ToSet(state.fed) \subseteq state.gave
  /\ \A i, j \in DOMAIN state.fed : i < j => state.fed[i] < state.fed[j]
  /\ ~state.json => state.made = state.from..k /\ ToSet(state.fed) = state.gave

\* Every file holds a state of its step, whichever sessions wrote and resumed
\* over each other, and wherever they were timed out or killed
\* (cli/main.py:534).
CheckpointsTrue ==
  \A w \in Workflow, k \in Step : file[w][k] # Absent => TrueAt(file[w][k], k)
=============================================================================
