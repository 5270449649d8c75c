----------------------------- MODULE Scheduler ------------------------------
(***************************************************************************)
(* From a plan to its execution: the planner of src/cp/ builds a plan      *)
(* artifact or refuses, compile_workflow of src/ws/compiler.py compiles    *)
(* its sealed graph, and when it publishes a workflow, a WorkflowRun of    *)
(* src/ws/runtime.py executes it.                                          *)
(***************************************************************************)
EXTENDS Workflow, CapabilityPlanner

CONSTANTS
  InputGraphs,  \* sealed graphs handed to the compiler as they are
  Drafts,       \* what build_artifact is called with
  Requests,     \* specs of requests, with their goals, submitted to the system
  Commands      \* the goals CAPABILITY_COMMANDS has a command for

VARIABLES
  drafted,  \* "none", "graph", "draft" or "goals": where the graph came from
  draft,    \* the draft handed to build_artifact, or the one of the goals
  graph, edgesSeen, incoming, order, levels, result

Compiler == INSTANCE WorkflowCompiler

compilerVars == <<graph, edgesSeen, incoming, order, levels, result>>
planVars == <<drafted, draft>>
schedulerVars == <<vars, compilerVars, planVars>>

NoDraft == GoalDraft(<<>>, {})

\* There is no WorkflowRun yet.
NoRun == wf.units = {}

\* The artifact of a graph that was published.
Artifact ==
  [units  |-> Nodes(graph),
   preds  |-> [u \in Nodes(graph) |-> Predecessors(graph, u)],
   band   |-> graph.band,
   groups |-> GroupsOf(graph),
   order  |-> order]

\* compile_workflow on a graph that no plan stands behind.
CompileGraph(g) ==
  /\ drafted = "none"
  /\ drafted' = "graph"
  /\ Compiler!Call(g)
  /\ UNCHANGED <<vars, draft>>

\* A plan that was built is compiled; a refusal leaves nothing behind.
PlanAndCompile(kind, d) ==
  /\ drafted = "none"
  /\ drafted' = kind
  /\ draft' = d
  /\ IF ArtifactBuilds(d) THEN Compiler!Call(ToSealedGraph(d))
     ELSE /\ result' = "refused"
          /\ UNCHANGED <<graph, edgesSeen, incoming, order, levels>>

BuildPlan(d) == PlanAndCompile("draft", d) /\ UNCHANGED vars

PlanCreated == events' = events \cup {<<NoUnit, "plan.created">>}

\* The planning of System.submit: plan.created is out before the plan compiles.
SubmitGoals(spec) ==
  LET goals == GoalsOf(spec.goals)
  IN  /\ SpecBuilds([spec EXCEPT !.goals = goals])
      /\ PlanAndCompile("goals", GoalDraft(goals, Commands))
      /\ PlanCreated
      /\ UNCHANGED <<wf, status, unit, execOk, selected, journal>>

Planning ==
  \/ \E g \in InputGraphs : CompileGraph(g)
  \/ \E d \in Drafts : BuildPlan(d)
  \/ \E spec \in Requests : SubmitGoals(spec)

Compile == Compiler!Steps /\ UNCHANGED <<vars, planVars>>

\* WorkflowRun.__init__ over the published artifact.
StartRun ==
  /\ result = "published"
  /\ NoRun
  /\ wf' = Artifact
  /\ unit' = [u \in Artifact.units |-> "pending"]
  /\ selected' = [g \in DOMAIN Artifact.groups |-> NoUnit]
  /\ UNCHANGED <<status, execOk, journal, events, compilerVars, planVars>>

RunStep == ~NoRun /\ Next /\ UNCHANGED <<compilerVars, planVars>>

SchedulerInit ==
  /\ Compiler!Init
  /\ drafted = "none"
  /\ draft = NoDraft
  /\ wf = [units |-> {}, preds |-> <<>>, band |-> <<>>, groups |-> <<>>, order |-> <<>>]
  /\ status = "none"
  /\ unit = <<>>
  /\ execOk = {}
  /\ selected = <<>>
  /\ journal = <<>>
  /\ events = {}

SchedulerNext == Planning \/ Compile \/ StartRun \/ RunStep

SchedulerSpec == SchedulerInit /\ [][SchedulerNext]_schedulerVars

\* compile_workflow is a function that runs to its end; the loop of System.submit
\* keeps dispatching, and verification answers every demand (external).
SchedulerFairSpec ==
  /\ SchedulerSpec
  /\ WF_schedulerVars(Compile)
  /\ WF_schedulerVars(Dispatch /\ UNCHANGED <<compilerVars, planVars>>)
  /\ WF_schedulerVars(Verdict /\ UNCHANGED <<compilerVars, planVars>>)

-----------------------------------------------------------------------------
\* INVARIANT: CompilesExactly of WorkflowCompiler, and across the planner: a plan
\* that was built is compiled from the nodes and requirements it was drafted with,
\* so it is rejected only for a repeated, a circular or a self requirement (which
\* build_artifact does not look for); goals always compile, and run in their order.
CompilesExactly ==
  /\ Compiler!CompilesExactly
  /\ drafted = "draft" /\ result \in {"published", "bad_edge", "cycle"} =>
       LET needs == {i \in DOMAIN draft.edges : draft.edges[i][1] = "requires"}
           pairs == {<<draft.edges[i][2], draft.edges[i][3]>> : i \in needs}
       IN  /\ \A n \in DOMAIN draft.nodes : /\ graph.band[n] = draft.nodes[n].band
                                            /\ graph.group[n] = draft.nodes[n].group
           /\ EdgeSet(graph) = pairs
           /\ result = "bad_edge" => Cardinality(pairs) < Cardinality(needs)
                                     \/ \E p \in pairs : p[1] = p[2]
  /\ drafted = "goals" =>
       /\ result \in {"running", "published"}
       /\ result = "published" => order = [i \in 1..Len(draft.nodes) |-> i]
=============================================================================
