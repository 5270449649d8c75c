----------------------------- MODULE CodeIndex ------------------------------
(***************************************************************************)
(* What UMS computes from the files of a repository (src/ums): extraction  *)
(* records, module model, dependency graph, architecture, summaries, and   *)
(* the ranked and budget-fitted answer to a query.  Pure; ContextFlow.tla  *)
(* gives it its state.                                                     *)
(*                                                                         *)
(* A path is a number, its place in the sort order; PathInfo says what the *)
(* code reads off its characters.  A text is a sequence of words and costs *)
(* its length; a dotted module name is the sequence of its parts.  The     *)
(* bytes of a file are a record of what parsing finds in them, and stand   *)
(* for their own hash.                                                     *)
(***************************************************************************)
EXTENDS Integers, FiniteSets, Sequences, SequencesExt, FiniteSetsExt

CONSTANTS
  None,           \* Python's None
  PathInfo,       \* path -> [ext, test, stem, parts, init, top]
  Stem(_),        \* ranker.stem
  Substring(_, _),\* Substring(name, token): the token is a substring of the name
  NameRank,       \* name -> its place in the string order
  ModuleRank,     \* dotted name -> its place in the string order
  TokenCaps,      \* FULL_TOKENS, SECTION_TOKENS, REFERENCE_TOKENS by tier
  MaxCandidates,  \* query class -> max_candidates
  MaxLayerPasses  \* MAX_LAYER_PASSES

Paths == DOMAIN PathInfo
TIERS == <<"full", "section", "reference">>
CONFIG_LANGS == {"json", "toml", "ini", "yaml"}
DOC_LANGS == {"markdown", "text"}

\* sorted() of a set with a strict total order.
SortedBy(S, Before(_, _)) ==
  SortSeq(FoldSet(LAMBDA x, seq : Append(seq, x), <<>>, S), Before)
Sorted(paths) == SortedBy(paths, <)
Capped(text, n) == SubSeq(text, 1, Min({n, Len(text)}))

-----------------------------------------------------------------------------
(* Extraction: one file, then the repository.                              *)

Classify(p, bytes) ==
  LET language == CASE PathInfo[p].ext # None -> PathInfo[p].ext
                    [] PathInfo[p].ext = None /\ bytes.shebang # None -> bytes.shebang
                    [] OTHER -> "unknown"
  IN [language |-> language,
      role |-> CASE PathInfo[p].test -> "test"
                 [] language \in CONFIG_LANGS /\ ~PathInfo[p].test -> "config"
                 [] language \in DOC_LANGS /\ ~PathInfo[p].test -> "doc"
                 [] OTHER -> "source"]

\* extract_file: `hash' comes from the inventory, `bytes' from a read of its own.
ExtractFile(p, hash, bytes) ==
  LET cls == Classify(p, bytes)
      python == cls.language = "python" /\ bytes.parses
  IN [content_hash |-> hash,
      classification |-> cls,
      symbols |-> IF python THEN bytes.symbols ELSE None,
      imports |-> IF python THEN bytes.imports ELSE <<>>,
      module_doc |-> IF python THEN bytes.doc ELSE <<>>,
      unparsed |-> cls.language = "python" /\ ~bytes.parses]

Symbols(entry) == IF entry.symbols = None THEN <<>> ELSE entry.symbols

\* Python files by dotted name; of two files with one name the later path stays.
Modules(files) ==
  LET named == {p \in DOMAIN files : PathInfo[p].parts # <<>>}
  IN [d \in {PathInfo[p].parts : p \in named} |-> Max({p \in named : PathInfo[p].parts = d})]

\* resolve: the absolute name of an import; each level above 1 goes one package up,
\* counted from the end when there are not that many packages, as a slice does.
Resolve(rec, pkg) ==
  IF rec.level = 0 THEN rec.target
  ELSE LET upto == Len(pkg) - (rec.level - 1)
           kept == IF upto >= 0 THEN upto ELSE Max({0, Len(pkg) + upto})
       IN SubSeq(pkg, 1, kept) \o rec.target

PackageOf(p) == IF PathInfo[p].init \/ PathInfo[p].parts = <<>> THEN PathInfo[p].parts
                                                                ELSE Front(PathInfo[p].parts)

Internal(target, files) ==
  \E p \in DOMAIN files : PathInfo[p].parts # <<>> /\ Head(PathInfo[p].parts) = Head(target)

ImportsOf(p, files) ==
  {Resolve(files[p].imports[i], PackageOf(p)) : i \in DOMAIN files[p].imports} \ {<<>>}

\* build_graph: contains- and imports-edges between node ids.
BuildGraph(files) ==
  LET modules == Modules(files)
  IN {[kind |-> "contains", src |-> <<"module", d>>, dst |-> <<"file", modules[d]>>,
       dep |-> None] : d \in DOMAIN modules}
     \cup UNION {{[kind |-> "contains", src |-> <<"file", p>>,
                   dst |-> <<"sym", p, Symbols(files[p])[i].qualname>>, dep |-> None] :
                    i \in DOMAIN Symbols(files[p])} : p \in DOMAIN files}
     \cup UNION {{[kind |-> "imports", src |-> <<"file", p>>, dst |-> <<"module", t>>,
                   dep |-> IF Internal(t, files) THEN "internal" ELSE "external"] :
                    t \in ImportsOf(p, files)} : p \in DOMAIN files}

-----------------------------------------------------------------------------
(* The architecture model.                                                 *)

EntrypointNames == {"__main__", "main", "app", "cli"}

Entrypoints(files) ==
  LET modules == Modules(files)
  IN {modules[d] : d \in {x \in DOMAIN modules :
        \/ x[Len(x)] \in EntrypointNames
        \/ \E i \in DOMAIN Symbols(files[modules[x]]) :
             Symbols(files[modules[x]])[i].qualname = "main"}}

\* Internal imports of a module, other than itself.
ModuleImports(files) ==
  LET modules == Modules(files)
  IN [d \in DOMAIN modules |-> (ImportsOf(modules[d], files) \cap DOMAIN modules) \ {d}]

\* One pass of the relaxation, module by module.
RelaxLayers(layers, imports) ==
  FoldLeft(LAMBDA l, d : IF imports[d] = {} THEN l
                         ELSE [l EXCEPT ![d] = 1 + Max({l[t] : t \in imports[d]})],
           layers, SortedBy(DOMAIN imports, LAMBDA a, b : ModuleRank[a] < ModuleRank[b]))

Layers(files) ==
  LET imports == ModuleImports(files)
      pass[n \in 0..MaxLayerPasses] ==
        IF n = 0 THEN [d \in DOMAIN imports |-> 0] ELSE RelaxLayers(pass[n - 1], imports)
  IN pass[MaxLayerPasses]

TopDirs(files) ==
  [t \in {PathInfo[p].top : p \in DOMAIN files} |->
     LET under == {p \in DOMAIN files : PathInfo[p].top = t}
         roles == {files[p].classification.role : p \in under}
     IN [files |-> Cardinality(under),
         roles |-> [r \in roles |-> Cardinality({p \in under : files[p].classification.role = r})]]]

Architecture(files) ==
  [top_dirs |-> TopDirs(files), entrypoints |-> Entrypoints(files), layers |-> Layers(files)]

-----------------------------------------------------------------------------
(* Summaries.                                                              *)

\* " | ".join(pieces)
Join(pieces) ==
  FlattenSeq([i \in 1..Len(pieces) |-> (IF i = 1 THEN <<>> ELSE <<"|">>) \o pieces[i]])

PythonSummary(entry) ==
  LET names == [i \in DOMAIN Symbols(entry) |->
                  <<Symbols(entry)[i].kind, Symbols(entry)[i].qualname>>]
      pieces == [i \in DOMAIN names |-> names[i] \o Symbols(entry)[i].doc]
      head == IF entry.module_doc = <<>> THEN <<>> ELSE <<entry.module_doc>>
  IN [full |-> Join(head \o pieces),
      section |-> IF head # <<>> THEN entry.module_doc ELSE Join(names),
      reference |-> IF head # <<>> THEN entry.module_doc
                    ELSE [i \in 1..Min({6, Len(names)}) |-> names[i][2]]]

DocSummary(bytes) ==
  [full |-> bytes.doc,
   section |-> IF bytes.headings # <<>> THEN Join(bytes.headings) ELSE bytes.doc,
   reference |-> IF bytes.headings # <<>> THEN bytes.headings[1] ELSE bytes.doc]

Same(text) == [full |-> text, section |-> text, reference |-> text]

\* summarize_file: `bytes' is the text that the builder reads for a doc file.
SummarizeFile(entry, bytes) ==
  LET cls == entry.classification
      tiers == CASE entry.unparsed -> Same(<<"UNPARSED", cls.language>>)
                 [] ~entry.unparsed /\ cls.language = "python" -> PythonSummary(entry)
                 [] ~entry.unparsed /\ cls.language \in DOC_LANGS -> DocSummary(bytes)
                 [] OTHER -> Same(<<cls.language, cls.role, "file">>)
  IN [t \in ToSet(TIERS) |-> Capped(tiers[t], TokenCaps[t])]

-----------------------------------------------------------------------------
(* Queries.                                                                *)

SymbolCandidates(files) ==
  LET sorted == Sorted(DOMAIN files) IN
  FlattenSeq([k \in DOMAIN sorted |->
    LET p == sorted[k] IN
      [i \in DOMAIN Symbols(files[p]) |->
         LET s == Symbols(files[p])[i]
             text == <<s.kind, s.qualname>> \o s.doc
         IN [id |-> <<"sym", p, s.qualname>>, path |-> p, kind |-> "symbol",
             name |-> s.qualname, text |-> text,
             content |-> [full |-> text, section |-> text,
                          reference |-> <<s.kind, s.qualname>>]]]])

\* A file without a summary is passed over (partial onboarding).
FileCandidates(files, summaries) ==
  LET shown == Sorted(DOMAIN files \cap DOMAIN summaries)
  IN [k \in DOMAIN shown |->
        [id |-> <<"file", shown[k]>>, path |-> shown[k], kind |-> "file",
         name |-> shown[k], text |-> summaries[shown[k]].full,
         content |-> summaries[shown[k]]]]

\* planner.PLANS: the candidates of a query class, cut to its depth.
Considered(class, files, summaries) ==
  LET all == CASE class = "symbol" -> SymbolCandidates(files)
               [] class = "file" -> FileCandidates(files, summaries)
               [] class = "concept" -> SymbolCandidates(files) \o FileCandidates(files, summaries)
  IN SubSeq(all, 1, Min({MaxCandidates[class], Len(all)}))

NameTokens(cand) == IF cand.kind = "symbol" THEN {cand.name} ELSE {PathInfo[cand.name].stem}

\* ranker.score times 20 times the number of query words, so that it is whole.
Score(query, cand) ==
  LET words == ToSet(cand.text) \cup (IF cand.kind = "file" THEN NameTokens(cand) ELSE {})
      lexical == Cardinality({i \in DOMAIN query : query[i] \in words})
      stems == Cardinality({i \in DOMAIN query : Stem(query[i]) \in {Stem(w) : w \in words}})
      structural ==
        CASE \E i \in DOMAIN query : query[i] \in NameTokens(cand) -> 2
          [] \E i \in DOMAIN query : \E n \in NameTokens(cand) : Substring(n, query[i]) -> 1
          [] OTHER -> 0
  IN 10 * lexical + 6 * stems + 2 * Len(query) * structural

\* Lexicographic order of node and candidate ids; file < module < ref < rsm < sym.
IdKey(id) ==
  CASE id[1] = "file" -> <<1, id[2], 0>>
    [] id[1] = "module" -> <<2, ModuleRank[id[2]], 0>>
    [] id[1] = "ref" -> <<3, NameRank[id[2]], 0>>
    [] id[1] = "rsm" -> <<4, NameRank[id[2]], 0>>
    [] id[1] = "sym" -> <<5, id[2], NameRank[id[3]]>>
IdLess(a, b) ==
  LET x == IdKey(a) y == IdKey(b)
  IN \E i \in 1..3 : x[i] < y[i] /\ \A j \in 1..i-1 : x[j] = y[j]

\* list.sort with a key: stable.
StableSort(seq, Before(_, _)) ==
  LET sorted == SortSeq([i \in DOMAIN seq |-> <<i, seq[i]>>],
                        LAMBDA x, y : \/ Before(x[2], y[2])
                                      \/ ~Before(y[2], x[2]) /\ x[1] < y[1])
  IN [k \in DOMAIN seq |-> sorted[k][2]]

\* rank: above the floor of 0.2, by score and id.
Rank(query, cands) ==
  LET scored == [i \in DOMAIN cands |-> [id |-> cands[i].id, path |-> cands[i].path,
                                         kind |-> cands[i].kind, score |-> Score(query, cands[i])]]
  IN StableSort(SelectSeq(scored, LAMBDA h : h.score > 4 * Len(query)),
                LAMBDA g, h : g.score > h.score \/ (g.score = h.score /\ IdLess(g.id, h.id)))

\* ums/budget.fit: each hit at the best tier that still fits, or dropped.
FitHits(hits, budget) ==
  FoldLeft(LAMBDA acc, h :
             LET fits == {i \in 1..3 : acc.used + Len(h.content[TIERS[i]]) <= budget}
             IN IF fits = {} THEN [acc EXCEPT !.dropped = @ + 1]
                ELSE LET text == h.content[TIERS[Min(fits)]]
                     IN [acc EXCEPT !.used = @ + Len(text),
                                    !.hits = Append(@, [h EXCEPT !.content = text])],
           [hits |-> <<>>, used |-> 0, dropped |-> 0], hits)

\* query: plan, rank, flag, fit.  The content of a hit is looked up by id, so of two
\* candidates with one id (a name defined twice in a file) the last one's is used.
Flagged(hits, cands, fresh) ==
  LET content(id) == cands[Max({i \in DOMAIN cands : cands[i].id = id})].content
  IN [i \in DOMAIN hits |->
        [id |-> hits[i].id, path |-> hits[i].path, kind |-> hits[i].kind,
         score |-> hits[i].score, stale |-> hits[i].path \notin fresh,
         content |-> content(hits[i].id)]]
Query(files, summaries, fresh, words, budget, class) ==
  LET cands == Considered(class, files, summaries)
  IN FitHits(Flagged(Rank(words, cands), cands, fresh), budget)
=============================================================================
