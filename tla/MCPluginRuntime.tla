-------------------------- MODULE MCPluginRuntime --------------------------
(* Two providers, two capabilities, one alias: p1 offers c1 under alias a1, *)
(* p2 joins through the alias, d3 takes over p2's id with other content.    *)
EXTENDS PluginRuntime

MCRank == [id \in {"p1", "p2", "c1", "c2", "a1"} |->
             CASE id = "a1" -> 1 [] id = "c1" -> 2 [] id = "c2" -> 3 [] id = "p1" -> 4 [] OTHER -> 5]

Cap(aliases, lifecycle, cons) == [category |-> "k", facets |-> {}, lifecycle |-> lifecycle, aliases |-> aliases,
                                  expects |-> {"e"}, constraints |-> cons, rev |-> 1]
Prov(version, cons) == [version |-> version, constraints |-> cons, loadable |-> TRUE, lifecycle |-> "active"]
Os(v) == "os" :> v
NoTerms == <<>>

Dep == [kind |-> "dependency", src |-> "c2", dst |-> "a1"]

MCDeclarations ==
  {[hash |-> 2, provider |-> [id |-> "p1", rec |-> Prov(1, NoTerms)],
    caps |-> <<[id |-> "c1", rec |-> Cap({"a1"}, "active", NoTerms)]>>,
    binds |-> <<[cap |-> "c1", prov |-> "p1", terms |-> NoTerms]>>, rels |-> <<>>],
   [hash |-> 1, provider |-> [id |-> "p2", rec |-> Prov(1, Os("x"))],
    caps |-> <<[id |-> "c2", rec |-> Cap({}, "active", Os("x"))]>>,
    binds |-> <<[cap |-> "a1", prov |-> "p2", terms |-> Os("x")], [cap |-> "c2", prov |-> "p2", terms |-> NoTerms]>>,
    rels |-> <<Dep>>]}

MCMutations ==
  {[kind |-> "update_capability", id |-> "c1", rec |-> Cap({"a1"}, "active", Os("y"))],
   [kind |-> "remove_binding", cap |-> "a1", prov |-> "p1"],
   [kind |-> "add_relationship", edge |-> Dep]}

MCMessages ==
  ({"plugin.lifecycle.changed"} \X
     {[shape |-> "registry", entity |-> "provider", id |-> "p1", to |-> "retired"],
      [shape |-> "registry", entity |-> "capability", id |-> "c1", to |-> "retired"],
      [shape |-> "registry", entity |-> "capability", id |-> "c2", to |-> "retired"],
      [shape |-> "operational", subject |-> "p1", from |-> "HEALTHY", to |-> "RECOVERED"]})
  \cup {<<"reliability.updated", [provider |-> "p1", prior |-> 8]>>,
        <<"exec.failed", [provider |-> "p1"]>>, <<"exec.completed", [provider |-> "p1"]>>,
        <<"exec.timeout", [provider |-> "p2"]>>}

MCAdminActs == {<<"p1", "force_quarantine">>, <<"p1", "force_release">>, <<"p2", "disable">>, <<"p2", "enable">>}

MCLoadRequests == {"p1"} \X {"LOADING", "PREPARED"}

MCPreferences == "c1" :> <<"p2">>
=============================================================================
