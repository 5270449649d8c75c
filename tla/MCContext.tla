------------------------------ MODULE MCContext -----------------------------
(* A document that may be deleted and two modules.  The first module defines *)
(* one name twice and may come to import the second, which does not parse    *)
(* and may be deleted too.  The first spec finds both definitions, and its   *)
(* budget holds only one in full.                                            *)
EXTENDS ContextFlow

MCPathInfo ==
  <<[ext |-> "markdown", test |-> FALSE, stem |-> "readme", parts |-> <<>>, init |-> FALSE, top |-> "."],
    [ext |-> "python", test |-> FALSE, stem |-> "core", parts |-> <<"core">>, init |-> FALSE, top |-> "."],
    [ext |-> "python", test |-> FALSE, stem |-> "util", parts |-> <<"util">>, init |-> FALSE, top |-> "."]>>

MCStem(word) == IF word = "runs" THEN "run" ELSE word
MCSubstring(name, word) == name = "core" /\ word = "cor"
MCNameRank == [n \in {"absent", "budget", "identity", "note", "plan", "run", "main"} |->
  CHOOSE i \in 1..7 : <<"absent", "budget", "identity", "main", "note", "plan", "run">>[i] = n]
MCModuleRank == <<"core">> :> 1 @@ <<"util">> :> 2

Text(words, headings) ==
  [shebang |-> None, parses |-> FALSE, doc |-> words, symbols |-> <<>>, imports |-> <<>>,
   headings |-> headings]
Python(doc, symbols, imports) ==
  [shebang |-> None, parses |-> TRUE, doc |-> doc, symbols |-> symbols, imports |-> imports,
   headings |-> <<>>]
Def(name, doc) == [kind |-> "function", qualname |-> name, doc |-> doc]
Util == [target |-> <<"util">>, level |-> 0]

MCContents ==
  <<<<Text(<<"the", "core", "guide">>, <<<<"guide">>>>), Text(<<"run", "core">>, <<>>), None>>,
    <<Python(<<>>, <<Def("run", <<"core">>), Def("run", <<"core", "loop">>)>>, <<>>),
      Python(<<>>, <<Def("run", <<"core">>), Def("run", <<"core", "loop">>)>>, <<Util>>)>>,
    <<[Python(<<>>, <<>>, <<>>) EXCEPT !.parses = FALSE], None>>>>

Wanted(words, budget, rsm, references) ==
  [request_id |-> "req", objective |-> words, budget |-> budget, rsm |-> rsm,
   references |-> references]
MCSpecs ==
  {Wanted(<<"run", "loop">>, 10, "present", {}),
   Wanted(<<"guide">>, 30, "absent", {[name |-> "note", section |-> "knowledge"]})}

MCTokenCaps == [full |-> 8, section |-> 4, reference |-> 2]
MCMaxCandidates == [symbol |-> 4, file |-> 4, concept |-> 5]
MCWeights == [symbols |-> 20, files |-> 3, knowledge |-> 1, dependency_graph |-> 1]
=============================================================================
