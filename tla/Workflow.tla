------------------------------ MODULE Workflow ------------------------------
(***************************************************************************)
(* WorkflowRun (src/ws/runtime.py): the dispatcher of one frozen workflow  *)
(* artifact.  One action per public method; execution results come from    *)
(* the engine inside dispatch_next, verdicts come later, one by one, in    *)
(* any order.                                                              *)
(*                                                                         *)
(* Storage and the bus accept everything here; what happens when they do   *)
(* not is in Store, Bus and Execution.                                     *)
(***************************************************************************)
EXTENDS Naturals, Sequences, FiniteSets, SequencesExt

CONSTANTS
  Artifacts,  \* the artifacts compile_workflow may have produced
  NoUnit      \* no unit selected in a group

VARIABLES
  wf,        \* the artifact: units, preds, band, groups, order
  status,    \* "none", "active", "completed", "failed" (STALLED), "cancelled"
  unit,      \* unit_state
  execOk,    \* units executed with success that wait for a verdict
  selected,  \* the unit selected in each group, or NoUnit
  journal,   \* the records of ws/journal/<workflow_id>
  events     \* events published, as (unit, name)

vars == <<wf, status, unit, execOk, selected, journal, events>>

UnitStates == {"pending", "executing", "succeeded", "failed", "not_executed"}
Terminal == {"succeeded", "failed", "not_executed"}
Statuses == {"none", "active", "completed", "failed", "cancelled"}
BlockingBands == {"CRITICAL", "REQUIRED"}

Range1(seq) == {seq[i] : i \in DOMAIN seq}
Blocking == {u \in wf.units : wf.band[u] \in BlockingBands}

\* What the runtime relies on in an artifact: predecessors are units, groups are
\* numbered in their order, and have units as members, at least one.
WellFormed(a) ==
  /\ \A u \in a.units : a.preds[u] \subseteq a.units
  /\ a.groups \in Seq(Seq(a.units))
  /\ \A g \in DOMAIN a.groups : a.groups[g] # <<>>

ASSUME WorkflowAssumption ==
  /\ \A a \in Artifacts : WellFormed(a)
  /\ \A a \in Artifacts : NoUnit \notin a.units

-----------------------------------------------------------------------------
(* The settling of the whole workflow.                                     *)

\* Mutant: a unit that lost its group counts as unfinished.
SettledNeverSkips(st, us) ==
  IF st # "active" THEN st
  ELSE IF \E u \in Blocking : us[u] = "failed" THEN "failed"
  ELSE IF \A u \in wf.units : us[u] \in {"succeeded", "failed"} THEN "completed" ELSE st
\* _settle
Settled(st, us) ==
  IF st # "active" THEN st
  ELSE IF \E u \in Blocking : us[u] = "failed" THEN "failed"
  ELSE IF \A u \in wf.units : us[u] \in Terminal THEN "completed" ELSE st

Rec(kind, u, val) == [kind |-> kind, unit |-> u, val |-> val]

\* The record _settle adds when the status changes.
SettleRecord(st, st2) ==
  IF st = st2 THEN <<>> ELSE <<Rec("workflow_terminal", NoUnit, st2)>>

-----------------------------------------------------------------------------
(* Branch selection.                                                       *)

Groups == DOMAIN wf.groups
Members(g) == Range1(wf.groups[g])

\* The units that lose when, for every g of gs, choice[g] is selected.
Losers(gs, choice) == {u \in wf.units : \E g \in gs : u \in Members(g) /\ u # choice[g]}

\* Mutant: the losers are not recorded.
SelectionRecordsBrief(g, winner) == <<Rec("selected", winner, g)>>
\* The selection is recorded, then every loser, in the order of the group.
SelectionRecords(g, winner) ==
  LET members == wf.groups[g]
      upTo[i \in 0..Len(members)] ==
        IF i = 0 THEN <<Rec("selected", winner, g)>>
        ELSE IF members[i] = winner THEN upTo[i - 1]
        ELSE Append(upTo[i - 1], Rec("terminal", members[i], "not_executed"))
  IN  upTo[Len(members)]

\* _branch_allows
BranchAllows(u) == \A g \in Groups : u \in Members(g) => selected[g] = u

\* select_branch: refused for a stranger or a second selection.  The selected
\* unit is not terminal, so _settle changes nothing here.
SelectBranch(g, u) ==
  /\ g \in Groups
  /\ u \in Members(g)
  /\ selected[g] = NoUnit
  /\ selected' = [selected EXCEPT ![g] = u]
  /\ unit' = [v \in wf.units |-> IF v \in Members(g) \ {u} THEN "not_executed" ELSE unit[v]]
  /\ journal' = journal \o SelectionRecords(g, u)
  /\ UNCHANGED <<wf, status, execOk, events>>

-----------------------------------------------------------------------------
(* Lifecycle.                                                              *)

\* The records of an activation that selects in the first n groups.
ActivationRecords(n) ==
  LET upTo[g \in 0..n] ==
        IF g = 0 THEN <<Rec("activated", NoUnit, "active")>>
                 ELSE upTo[g - 1] \o SelectionRecords(g, wf.groups[g][1])
  IN  upTo[n]

\* activate(): the groups in order get their best-ranked member, until one that
\* was selected already makes select_branch raise; what was done stays.
ActivateFirst(n) ==
  LET best == [g \in Groups |-> wf.groups[g][1]]
  IN  /\ status = "none"
      /\ \A g \in 1..n : selected[g] = NoUnit
      /\ n < Len(wf.groups) => selected[n + 1] # NoUnit
      /\ status' = "active"
      /\ selected' = [g \in Groups |-> IF g <= n THEN best[g] ELSE selected[g]]
      /\ unit' = [u \in wf.units |-> IF u \in Losers(1..n, best) THEN "not_executed" ELSE unit[u]]
      /\ journal' = journal \o ActivationRecords(n)
      /\ events' = events \cup {<<NoUnit, "workflow.created">>}
                          \cup {<<u, "task.scheduled">> : u \in wf.units}
      /\ UNCHANGED <<wf, execOk>>

Activate == \E n \in 0..Len(wf.groups) : ActivateFirst(n)

Cancel ==
  /\ status = "active"
  /\ status' = "cancelled"
  /\ journal' = Append(journal, Rec("cancelled", NoUnit, "cancelled"))
  /\ UNCHANGED <<wf, unit, execOk, selected, events>>

-----------------------------------------------------------------------------
(* Dispatch and completion.                                                *)

\* Mutant: a predecessor whose execution succeeded is enough.
ReadyUnverified(u) ==
  /\ status = "active"
  /\ unit[u] = "pending"
  /\ BranchAllows(u)
  /\ \A p \in wf.preds[u] : unit[p] = "succeeded" \/ p \in execOk
\* A member of ready().
Ready(u) ==
  /\ status = "active"
  /\ unit[u] = "pending"
  /\ BranchAllows(u)
  /\ \A p \in wf.preds[u] : unit[p] = "succeeded"

\* dispatch_next takes the first ready unit in canonical order.
First(u) ==
  \E i \in DOMAIN wf.order :
    /\ wf.order[i] = u
    /\ \A j \in 1..(i - 1) : ~Ready(wf.order[j])

\* _terminal with outcome `out`, after the records `before` of its caller.
Terminate(u, out, before) ==
  /\ unit' = [unit EXCEPT ![u] = out]
  /\ status' = Settled(status, unit')
  /\ journal' = journal \o before \o <<Rec("terminal", u, out)>> \o SettleRecord(status, status')

\* dispatch_next: the engine runs the unit to its end; on_exec_result follows.
DispatchNext(u, ok) ==
  /\ Ready(u)
  /\ First(u)
  /\ LET recs == <<Rec("dispatched", u, "executing"), Rec("exec_result", u, ok)>>
     IN  IF ok
           THEN /\ unit' = [unit EXCEPT ![u] = "executing"]
                /\ execOk' = execOk \cup {u}
                /\ journal' = journal \o recs
                /\ events' = events \cup {<<u, "task.started">>, <<u, "verify.requested">>}
                /\ UNCHANGED status
           ELSE /\ Terminate(u, "failed", recs)
                /\ events' = events \cup {<<u, "task.started">>, <<u, "task.failed">>}
                /\ UNCHANGED execOk
  /\ UNCHANGED <<wf, selected>>

\* on_verdict: refused unless the unit waits for one; the workflow may have
\* failed or been cancelled in the meantime.
OnVerdict(u, passed) ==
  /\ u \in execOk
  /\ execOk' = execOk \ {u}
  /\ Terminate(u, IF passed THEN "succeeded" ELSE "failed", <<Rec("verdict", u, passed)>>)
  /\ events' = events \cup {<<u, IF passed THEN "task.completed" ELSE "task.failed">>}
  /\ UNCHANGED <<wf, selected>>

-----------------------------------------------------------------------------
Init ==
  /\ wf \in Artifacts
  /\ status = "none"
  /\ unit = [u \in wf.units |-> "pending"]
  /\ execOk = {}
  /\ selected = [g \in Groups |-> NoUnit]
  /\ journal = <<>>
  /\ events = {}

Dispatch == \E u \in wf.units, ok \in BOOLEAN : DispatchNext(u, ok)
Verdict == \E u \in wf.units, passed \in BOOLEAN : OnVerdict(u, passed)

Next ==
  \/ \E g \in Groups : \E u \in Members(g) : SelectBranch(g, u)
  \/ Activate
  \/ Cancel
  \/ Dispatch
  \/ Verdict

Spec == Init /\ [][Next]_vars

\* The loop of System.submit keeps dispatching, and verification answers every
\* demand (external).
FairSpec == Spec /\ WF_vars(Dispatch) /\ WF_vars(Verdict)

-----------------------------------------------------------------------------
(* Replay.                                                                 *)

Blank == [status |-> "none", unit |-> [u \in wf.units |-> "pending"], execOk |-> {},
          selected |-> [g \in Groups |-> NoUnit]]

\* One record of the journal applied to a run.
ReplayRecord(run, r) ==
  CASE r.kind \in {"activated", "cancelled", "workflow_terminal"} -> [run EXCEPT !.status = r.val]
    [] r.kind = "selected"    -> [run EXCEPT !.selected[r.val] = r.unit]
    [] r.kind = "dispatched"  -> [run EXCEPT !.unit[r.unit] = "executing"]
    [] r.kind = "exec_result" -> IF r.val THEN [run EXCEPT !.execOk = @ \cup {r.unit}] ELSE run
    [] r.kind = "verdict"     -> [run EXCEPT !.execOk = @ \ {r.unit}]
    [] r.kind = "terminal"    -> [run EXCEPT !.unit[r.unit] = r.val]

ReplayFrom(run, records) ==
  LET after[n \in 0..Len(records)] ==
        IF n = 0 THEN run ELSE ReplayRecord(after[n - 1], records[n])
  IN  after[Len(records)]

\* WorkflowRun.replay
Replay(records) == ReplayFrom(Blank, records)

-----------------------------------------------------------------------------
(* Properties.                                                             *)

\* Every variable holds a value of its kind.
TypeOK ==
  /\ WellFormed(wf) /\ NoUnit \notin wf.units
  /\ status \in Statuses
  /\ unit \in [wf.units -> UnitStates]
  /\ execOk \subseteq wf.units
  /\ selected \in [Groups -> wf.units \cup {NoUnit}]
  /\ \A g \in Groups : selected[g] \in Members(g) \cup {NoUnit}

\* INVARIANT (WS-E1, E2, E3): a unit that was dispatched has only predecessors
\* whose success was verified, also after late verdicts and cancellation.
DependencyIntegrity ==
  \A u \in wf.units : unit[u] \in {"executing", "succeeded", "failed"} =>
    \A p \in wf.preds[u] : unit[p] = "succeeded"

\* INVARIANT (WS-E4): the losers of a selection, and the units of a group nobody
\* selected from, are never dispatched.
UnselectedNeverRuns ==
  \A g \in Groups : \A u \in Members(g) :
    unit[u] \in {"executing", "succeeded", "failed"} => selected[g] = u

\* INVARIANT (WS/02 10b): a completed workflow has no failed CRITICAL or REQUIRED
\* unit and nothing still to do; a failed one has such a unit.
StatusHonest ==
  /\ status = "completed" => /\ \A u \in wf.units : unit[u] \in Terminal
                             /\ \A u \in Blocking : unit[u] # "failed"
                             /\ execOk = {}
  /\ status = "failed" => \E u \in Blocking : unit[u] = "failed"
  /\ status = "active" => \A u \in Blocking : unit[u] # "failed"

\* INVARIANT: a run respects dependencies, selections and the outcomes of its units.
RunLawful == DependencyIntegrity /\ UnselectedNeverRuns /\ StatusHonest

\* INVARIANT: an outcome announced on the bus is the unit's outcome, and every
\* verified or failed unit was announced.
OutcomesAnnounced ==
  \A u \in wf.units :
    /\ <<u, "task.completed">> \in events <=> unit[u] = "succeeded"
    /\ <<u, "task.failed">> \in events <=> unit[u] = "failed"

\* INVARIANT (runtime.py:3-7): after every call, replaying the journal gives the
\* run as it is in memory.
ReplayIdentical ==
  Replay(journal) = [status |-> status, unit |-> unit, execOk |-> execOk, selected |-> selected]

\* Some pending unit can never be dispatched: a predecessor ended without
\* success, or nobody selected in its group.
Blocked ==
  \E u \in wf.units :
    /\ unit[u] = "pending"
    /\ \/ \E p \in wf.preds[u] : unit[p] \in {"failed", "not_executed"}
       \/ \E g \in Groups : u \in Members(g) /\ selected[g] = NoUnit
\* LIVENESS (WS/02 10): an active workflow reaches a terminal status, whatever
\* fails and however late the verdicts are, unless one of its units is blocked.
Settles == (status = "active") ~> (status # "active" \/ Blocked)

=============================================================================
