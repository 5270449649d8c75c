---------------------------- MODULE MCReasoning ----------------------------
(* One capability in use and one being proposed, two providers of different *)
(* cost, envelopes of three units and engine answers that cost one or two.  *)
EXTENDS ReasoningOrchestrator, TLC

Cap(id, lifecycle, knowledge) ==
  [id |-> id, category |-> "ANALYTIC", lifecycle |-> lifecycle,
   characteristics |-> [knowledge_dependency |-> knowledge, context_sensitivity |-> "low",
                        determinism_tolerance |-> "low"]]

Row(provider, cost, rung) ==
  [provider |-> provider, claims |-> "c1" :> {rung}, capacity |-> "small", cost |-> cost,
   privacy |-> "internal", locality |-> "local", tags |-> {"t"}, request_form |-> "prompt_text"]

Dep(src, dst) == [kind |-> "dependency", src |-> src, dst |-> dst]

MCInjected ==
  <<[kind |-> "add_capability", record |-> Cap("c1", "active", "medium")],
    [kind |-> "add_capability", record |-> Cap("c2", "proposed", "low")],
    [kind |-> "add_relationship", record |-> Dep("c1", "c2")],
    [kind |-> "add_descriptor_row", record |-> Row("p1", "low", "C1")],
    [kind |-> "add_descriptor_row", record |-> Row("p2", "high", "C1")]>>

MCMutations ==
  {[kind |-> "transition", id |-> "c1", to |-> "retired"],
   [kind |-> "transition", id |-> "c2", to |-> "retired"],
   [kind |-> "update_descriptor_row", record |-> Row("p1", "low", "C0")],
   [kind |-> "remove_descriptor_row", id |-> "p1"],
   [kind |-> "update_capability", record |-> Cap("c1", "active", "low")],
   [kind |-> "add_relationship", record |-> Dep("c2", "c1")],
   [kind |-> "remove_relationship", record |-> Dep("c1", "c2")]}

Claim(b) == [claim |-> b, justified |-> TRUE]
Ladder(status) ==
  [i \in 1 .. 5 |-> [rung |-> <<"D1", "D2", "D3", "D4", "D5">>[i], status |-> status, justified |-> TRUE]]
Inputs(rung, needed, status, rqm) ==
  [demand |-> [capability |-> "c1", rung |-> rung, described |-> TRUE, narrowing |-> None,
               underdetermined |-> Claim(TRUE), generalization |-> Claim(needed)],
   ladder |-> Ladder(status), rqm |-> rqm, unit |-> "u", budget |-> TRUE,
   policy |-> [permitted |-> TRUE, categories |-> {"ANALYTIC"}, rungs |-> {"C0", "C1"}, version |-> 1],
   capability |-> None, priors |-> None]

MCSealedInputs ==
  {Inputs("C1", TRUE, "exhausted", "q"), Inputs("C1", FALSE, "exhausted", "q"),
   Inputs("C1", TRUE, "untried", "q"), Inputs("C2", TRUE, "inapplicable", "q"),
   Inputs("C1", TRUE, "exhausted", None)}

Item(content, score) == [content |-> content, score |-> score, bytes |-> 1]
MCTask(ceiling, parent) ==
  [rqm |-> "core" :> <<Item("a", None), Item("a", None), Item("b", 1), Item("c", 5), Item("d", 5)>>,
   threshold |-> 2, expectations |-> TRUE, stale |-> FALSE, expected |-> None,
   ceiling |-> ceiling, parent |-> parent, drawn |-> 0, schema |-> "sv",
   demands |-> [privacy |-> "internal", tags |-> {"t"}, locality |-> "any", preference |-> <<"p2">>]]
MCTasks == {MCTask(3, None), MCTask(2, 3)}

MCPolicies == {[attempts |-> 3, retryable |-> {"F1", "F6", "F7"}, substitution |-> {"F1", "F2"}]}

Ret(kind, consumed) ==
  [kind |-> kind, consumed |-> consumed, conforms |-> FALSE, output |-> None, class |-> None, origin |-> None]
MCReturns ==
  {[Ret("returned", 1) EXCEPT !.conforms = TRUE, !.output = "yes"],
   Ret("returned", 1), Ret("expired", 2), [Ret("failed", 1) EXCEPT !.class = "F1"],
   [Ret("cancelled", 2) EXCEPT !.origin = "user"]}

MCPlans ==
  {[pattern |-> "debate", ceilings |-> <<2, 2>>, semantics |-> "quorum",
    rule |-> "majority", quorum |-> 2, parent |-> 4]}

MCRank == "p1" :> 1 @@ "p2" :> 2
=============================================================================
