----------------------------- MODULE ToolSpecs -----------------------------
(***************************************************************************)
(* What the tools are: the arguments each must and may be given (the       *)
(* request structs of tools/requests.rs), what each declares (tool_defs in *)
(* tools/registry.rs), which artefacts each opens (tools/engine.rs), what   *)
(* a reply tells the agent to call next, and which commands a refusal       *)
(* names (tools/errors.rs).  ToolCalls puts them against each other.        *)
(***************************************************************************)
EXTENDS Naturals, Sequences, FiniteSets

-----------------------------------------------------------------------------
(* The request structs: a field without a default is needed, every other    *)
(* may be given, and one that is not known is ignored.                      *)

Args(tool, needs, takes) == [tool |-> tool, needs |-> needs, takes |-> takes]

\* The row of each tool in a table of them.
ByTool(table) == [tool \in {row.tool : row \in table} |-> CHOOSE row \in table : row.tool = tool]

SearchArgs ==
    {Args("search", {"phrase"}, {"limit", "mode", "depth", "group_by", "include_variants",
         "limit_per_group", "brief", "canon", "source_work_id", "tradition", "period",
         "origin", "author", "title", "heading_path_prefix"}),
     Args("heading-search", {"query"}, {"limit", "canon", "source_work_id", "period",
         "brief"}),
     Args("tool-docs", {}, {"tool"}),
     Args("tool-log-summary", {}, {"path", "recent"}),
     Args("passage", {"id"}, {"passage_id"})}

ReadArgs ==
    {Args("source-read", {}, {"source_work_id", "passage_id", "node_id", "cursor",
         "direction", "unit", "max_chars", "overlap_chars", "before_chars", "after_chars",
         "include_previous_tail", "include_next_head", "include_metadata"}),
     Args("canonical-source", {"phrase"}, {"limit", "canon"}),
     Args("status", {}, {}),
     Args("validate-adjudication", {"path"}, {}),
     Args("graph-build", {"input", "kind", "name", "out"}, {}),
     Args("report-build", {"inputs", "out"}, {"title", "essay_max_pages"}),
     Args("pdf-build", {"out"}, {"markdown", "input_markdown", "input_json", "side_by_side",
         "title", "essay_max_pages"})}

CatalogArgs ==
    {Args("works", {}, {"work_id", "tradition", "period", "canon", "author", "title",
         "limit"}),
     Args("catalog-index-info", {}, {}),
     Args("similar", {"seed"}, {"limit", "shared_ngram_limit", "shared_phrase_limit",
         "min_shared_phrase_len"}),
     Args("frontier", {"seed"}, {"limit", "phrase_limit", "min_similarity", "scope_canon",
         "scope_period", "scope_source_work_id"}),
     Args("first-attestation", {"phrase"}, {"scope_canon", "scope_period",
         "scope_source_work_id", "limit", "max_candidates"}),
     Args("phrase-history", {"phrase"}, {"include_variants", "timeline"}),
     Args("phrase-index-search", {"phrase"}, {"limit"})}

SeedArgs ==
    {Args("seed-pick", {}, {"tradition", "period", "limit"}),
     Args("expand-context-adaptive", {"passage_id"}, {"max_chars"}),
     Args("trace-term-usage", {"phrase"}, {"group_by", "limit_total", "limit_per_group",
         "max_candidates"}),
     Args("cluster-hits", {"phrase"}, {"cluster_by", "limit_total", "limit_per_cluster",
         "max_candidates"}),
     Args("absence-check", {"phrase"}, {"scope_work_id", "scope_canon", "scope_period",
         "scope_node_id", "limit", "max_candidates"}),
     Args("query-expand-terms", {"phrase"}, {"mode", "person_aliases", "max"})}

UsageArgs ==
    {Args("compare-usage", {}, {"scope_a_node_id", "scope_a_work_id", "scope_a_canon",
         "scope_a_period", "scope_b_node_id", "scope_b_work_id", "scope_b_canon",
         "scope_b_period", "gram_len", "limit_passages", "limit_terms"}),
     Args("collocation-search", {"phrase"}, {"window_chars", "gram_len", "limit_total",
         "limit_collocates", "scope_canon", "scope_period", "scope_source_work_id",
         "scope_node_id"}),
     Args("pair-appearance", {"term1", "term2"}, {"unit", "window_chars", "ordered",
         "allow_variants", "scope_canon", "scope_period", "scope_source_work_id",
         "scope_node_id", "limit", "max_candidates_per_term", "include_snippets",
         "include_negative_summary"})}

OutlineArgs ==
    {Args("outline-search", {"phrase"}, {"node_id", "work_id", "group_by", "limit_total",
         "limit_per_group"}),
     Args("vector-info", {}, {}),
     Args("vector-neighbors", {}, {"seed_passage_id", "query_embedding", "query_text", "k",
         "ef_search", "include_text", "rerank"}),
     Args("evidence-search", {"phrase"}, {"limit", "scope_canon", "scope_period",
         "scope_source_work_id", "scope_node_id", "author", "title", "heading_path_prefix",
         "include_attestation", "include_history", "include_usage", "include_clusters",
         "include_absence_check", "variant_policy", "quality", "max_elapsed_ms",
         "max_component_ms", "max_candidates", "verbosity"})}

ComposeArgs ==
    {Args("hybrid-discover", {}, {"seed_passage_id", "query_embedding", "limit",
         "include_context", "max_context_chars", "quality", "max_elapsed_ms",
         "max_component_ms", "max_candidates", "verbosity"}),
     Args("source-investigate", {"seed_passage_id"}, {"phrases", "limit",
         "max_context_chars", "include_context", "include_frontier", "include_similar",
         "include_vector", "quality", "max_elapsed_ms", "max_component_ms", "verbosity"}),
     Args("scope-profile", {}, {"phrase", "scope_a_node_id", "scope_a_work_id",
         "scope_a_canon", "scope_a_period", "scope_b_node_id", "scope_b_work_id",
         "scope_b_canon", "scope_b_period", "gram_len", "limit_passages", "limit_terms",
         "quality"}),
     Args("batch-evidence-search", {"phrases"}, {"limit", "concurrency"})}

PersonArgs ==
    {Args("report-from-evidence", {"adjudication", "graph_out", "report_out"}, {"kind",
         "name", "title"}),
     Args("pair-profile", {"term1", "term2"}, {"group_by", "unit", "window_chars",
         "allow_variants", "scope_canon", "scope_period", "scope_source_work_id",
         "max_candidates_per_term", "limit_groups", "sample_hits_per_group"}),
     Args("person-resolve", {"name"}, {"aliases"}),
     Args("place-resolve", {"name"}, {"aliases"}),
     Args("person-history", {"name"}, {"aliases", "limit", "compact"})}

CiteArgs ==
    {Args("person-profile", {"name"}, {"aliases", "samples_per_class"}),
     Args("citation-verify", {"quote"}, {"scope_source_work_id", "scope_node_id",
         "scope_canon", "claimed_attribution", "limit", "include_near_matches",
         "near_match_limit"}),
     Args("run-batch", {"out"}, {"jobs", "input_file", "concurrency", "continue_on_error"})}

ArgsOf ==
    ByTool(SearchArgs \cup ReadArgs \cup CatalogArgs \cup SeedArgs \cup UsageArgs \cup OutlineArgs
           \cup ComposeArgs \cup PersonArgs \cup CiteArgs)

\* PassageRequest: passage_id is another name for id.
Read(tool, given) == IF tool = "passage" /\ "passage_id" \in given THEN given \cup {"id"} ELSE given
\* serde_json::from_value: a missing field is an error, an unknown one is not.
Understood(tool, given) == ArgsOf[tool].needs \subseteq Read(tool, given)
\* Nothing is given that the tool would pass over in silence.
Known(tool, given) == given \subseteq ArgsOf[tool].needs \cup ArgsOf[tool].takes

\* What a tool asks of its arguments beyond the struct.
ExactlyOne(given, choice) == Cardinality(given \cap choice) = 1
WellPosed(tool, given) ==
    CASE tool = "source-read" ->
            given \cap {"source_work_id", "passage_id", "node_id", "cursor"} # {}
      [] tool = "vector-neighbors" ->
            ExactlyOne(given, {"seed_passage_id", "query_embedding", "query_text"})
      [] tool = "hybrid-discover" -> given \cap {"seed_passage_id", "query_embedding"} # {}
      [] tool = "pdf-build" -> ExactlyOne(given, {"markdown", "input_markdown", "input_json"})
      [] tool = "run-batch" -> ExactlyOne(given, {"jobs", "input_file"})
      [] OTHER -> TRUE

-----------------------------------------------------------------------------
(* The definitions: for whom a tool is, whether it writes output, which     *)
(* artefacts it says it requires, and the arguments of its examples.        *)

Tool(tool, audience, writes, requires, examples) ==
    [tool |-> tool, audience |-> audience, writes |-> writes, requires |-> requires,
     examples |-> examples]

ReaderTools ==
    {Tool("status", "Default", FALSE, {}, {{}}),
     Tool("tool-docs", "Specialist", FALSE, {}, {{}, {"tool"}}),
     Tool("tool-log-summary", "Specialist", FALSE, {}, {{"recent"}}),
     Tool("passage", "Specialist", FALSE, {"passages"}, {{"id"}}),
     Tool("source-read", "Default", FALSE, {"passages"}, {{"source_work_id", "max_chars"},
         {"passage_id", "before_chars", "after_chars"}})}

FinderTools ==
    {Tool("search", "Specialist", FALSE, {"passages"}, {{"phrase", "limit"}, {"phrase",
         "mode", "group_by", "limit", "limit_per_group"}}),
     Tool("heading-search", "Specialist", FALSE, {"passages"}, {{"query", "limit",
         "brief"}}),
     Tool("canonical-source", "Specialist", FALSE, {"passages"}, {{"phrase", "limit"}}),
     Tool("validate-adjudication", "Specialist", FALSE, {}, {{"path"}}),
     Tool("graph-build", "Specialist", TRUE, {}, {{"input", "kind", "name", "out"}})}

OutputTools ==
    {Tool("report-build", "Specialist", TRUE, {}, {{"inputs", "out", "title"}}),
     Tool("pdf-build", "Default", TRUE, {}, {{"input_json", "out", "title"},
         {"input_markdown", "out", "side_by_side"}, {"markdown", "out"}}),
     Tool("works", "Specialist", FALSE, {"catalog"}, {{"work_id"}, {"limit"}, {"tradition",
         "limit"}, {"title"}}),
     Tool("catalog-index-info", "Debug", FALSE, {"catalog"}, {{}})}

VectorTools ==
    {Tool("vector-info", "Debug", FALSE, {"vector", "doc_table"}, {{}}),
     Tool("vector-neighbors", "Specialist", FALSE, {"vector", "doc_table", "passages"},
         {{"seed_passage_id", "k"}}),
     Tool("similar", "Specialist", FALSE, {"passages", "tfidf", "doc_table"}, {{"seed",
         "limit"}}),
     Tool("frontier", "Specialist", FALSE, {"passages", "tfidf", "doc_table"}, {{"seed",
         "limit", "phrase_limit"}, {"seed", "limit", "min_similarity", "scope_period"}}),
     Tool("first-attestation", "Specialist", FALSE, {"passages", "doc_table"}, {{"phrase",
         "limit"}})}

HistoryTools ==
    {Tool("phrase-history", "Specialist", FALSE, {"passages"}, {{"phrase", "timeline"}}),
     Tool("phrase-index-search", "Debug", FALSE, {"passages", "phrase"}, {{"phrase",
         "limit"}}),
     Tool("seed-pick", "Specialist", FALSE, {"passages"}, {{"tradition", "period",
         "limit"}}),
     Tool("expand-context-adaptive", "Specialist", FALSE, {"passages", "catalog",
         "doc_table"}, {{"passage_id", "max_chars"}}),
     Tool("trace-term-usage", "Specialist", FALSE, {"passages", "doc_table"}, {{"phrase",
         "group_by", "limit_total", "limit_per_group"}})}

TermTools ==
    {Tool("query-expand-terms", "Specialist", FALSE, {}, {{"phrase", "mode", "max"}}),
     Tool("compare-usage", "Specialist", FALSE, {"passages", "catalog", "doc_table"},
         {{"scope_a_canon", "scope_b_canon", "gram_len", "limit_passages", "limit_terms"}}),
     Tool("collocation-search", "Specialist", FALSE, {"passages", "doc_table"}, {{"phrase",
         "window_chars", "gram_len", "limit_total", "limit_collocates"}}),
     Tool("pair-appearance", "Default", FALSE, {"passages", "doc_table"}, {{"term1",
         "term2", "unit", "limit"}, {"term1", "term2", "unit", "window_chars", "limit"}})}

TreeTools ==
    {Tool("outline-search", "Specialist", FALSE, {"passages", "catalog", "doc_table"},
         {{"phrase", "work_id", "group_by", "limit_total", "limit_per_group"}}),
     Tool("cluster-hits", "Specialist", FALSE, {"passages", "catalog", "doc_table"},
         {{"phrase", "cluster_by", "limit_total", "limit_per_cluster"}}),
     Tool("absence-check", "Specialist", FALSE, {"passages", "catalog", "doc_table"},
         {{"phrase", "scope_work_id", "limit"}}),
     Tool("evidence-search", "Default", FALSE, {"passages"}, {{"phrase", "limit",
         "include_attestation", "include_history"}}),
     Tool("hybrid-discover", "Default", FALSE, {"passages", "doc_table"},
         {{"seed_passage_id", "limit", "verbosity"}})}

WorkflowTools ==
    {Tool("source-investigate", "Default", FALSE, {"passages", "doc_table"},
         {{"seed_passage_id", "phrases", "limit"}}),
     Tool("scope-profile", "Default", FALSE, {"passages", "catalog", "doc_table"},
         {{"scope_a_canon", "scope_b_canon", "gram_len", "limit_passages"}}),
     Tool("batch-evidence-search", "Specialist", FALSE, {"passages"}, {{"phrases", "limit",
         "concurrency"}}),
     Tool("pair-profile", "Default", FALSE, {"passages", "doc_table"}, {{"term1", "term2",
         "group_by", "unit", "limit_groups"}, {"term1", "term2", "group_by", "unit",
         "scope_canon", "limit_groups", "sample_hits_per_group"}})}

NameTools ==
    {Tool("person-resolve", "Default", FALSE, {"passages"}, {{"name", "aliases"}}),
     Tool("place-resolve", "Default", FALSE, {"passages"}, {{"name", "aliases"}}),
     Tool("person-history", "Default", FALSE, {"passages"}, {{"name", "aliases", "limit"}}),
     Tool("person-profile", "Default", FALSE, {"passages"}, {{"name", "aliases"}})}

BatchTools ==
    {Tool("citation-verify", "Default", FALSE, {"passages", "doc_table"}, {{"quote",
         "scope_canon", "claimed_attribution", "limit", "include_near_matches"}, {"quote",
         "scope_source_work_id", "include_near_matches", "near_match_limit"}}),
     Tool("run-batch", "Default", TRUE, {}, {{"jobs", "out", "concurrency"}, {"input_file",
         "out"}}),
     Tool("report-from-evidence", "Default", TRUE, {}, {{"adjudication", "graph_out",
         "report_out", "title"}})}

ToolDefs ==
    ByTool(ReaderTools \cup FinderTools \cup OutputTools \cup VectorTools \cup HistoryTools
           \cup TermTools \cup TreeTools \cup WorkflowTools \cup NameTools \cup BatchTools)

\* The tools a client is shown (SinoragMcpServer::build_tools); it may call the others.
Shown == {tool \in DOMAIN ToolDefs : ToolDefs[tool].audience # "Debug"}

\* The tools tool-docs knows (DOCS).
Documented ==
    DOMAIN ToolDefs \ {"tool-log-summary", "place-resolve", "person-profile", "run-batch"}

-----------------------------------------------------------------------------
(* What a tool opens before it can answer, in order: what it must have, what *)
(* it uses where there is any ("may": an index that is there and not of the  *)
(* table is an error), the same only where there is a table ("tabled"), and  *)
(* what need not be of the table ("there").  What it can do without          *)
(* altogether is left out.                                                   *)

Must(a) == [art |-> a, how |-> "must"]
May(a) == [art |-> a, how |-> "may"]
Tabled(a) == [art |-> a, how |-> "tabled"]
There(a) == [art |-> a, how |-> "there"]

SearchOpens == <<Must("passages"), Tabled("phrase")>>
PhraseOpens == <<Must("passages"), Must("doc_table"), May("phrase")>>
SimilarOpens == <<Must("passages"), Must("tfidf"), Must("doc_table")>>
TreeOpens == <<Must("catalog"), Must("doc_table"), Must("passages")>>
NodeOpens == <<Must("doc_table"), Must("catalog"), Must("passages"), May("phrase")>>
\* Mutant of PairOpens: the phrase index is not optional.
PairOpensForced == <<Must("doc_table"), Must("passages"), Must("phrase")>>
PairOpens == <<Must("doc_table"), Must("passages"), May("phrase")>>
CatalogOpens == <<Must("catalog")>>
HistoryOpens == <<Must("passages"), May("phrase")>>
ForcedOpens == <<Must("passages"), Must("doc_table"), Must("phrase")>>
NeighborOpens(given) ==
    <<Must("vector"), Must("doc_table")>>
    \o (IF "include_text" \in given THEN <<Must("passages")>> ELSE <<>>)
ReadOpens(given) ==
    <<Must("passages")>> \o (IF "node_id" \in given THEN CatalogOpens ELSE <<>>)
\* Without a table or a catalog and without a scope, a search grouped by its metadata.
OutlineOpens(given) ==
    IF given \cap {"node_id", "work_id"} # {}
    THEN <<Must("passages"), Must("doc_table"), Must("catalog"), May("phrase")>>
    ELSE SearchOpens

Opens(tool, given) ==
    CASE tool \in {"passage", "canonical-source", "heading-search", "person-resolve",
                   "place-resolve", "person-history", "seed-pick", "source-investigate"} ->
            <<Must("passages")>>
      [] tool \in {"search", "evidence-search"} -> SearchOpens
      [] tool = "source-read" -> ReadOpens(given)
      [] tool \in {"works", "catalog-index-info"} -> CatalogOpens
      [] tool \in {"first-attestation", "trace-term-usage"} -> PhraseOpens
      [] tool \in {"similar", "frontier"} -> SimilarOpens
      [] tool \in {"expand-context-adaptive", "compare-usage", "scope-profile"} -> TreeOpens
      [] tool \in {"cluster-hits", "absence-check"} -> NodeOpens
      [] tool \in {"collocation-search", "pair-appearance", "pair-profile",
                   "citation-verify"} -> PairOpens
      [] tool = "phrase-history" -> HistoryOpens
      [] tool = "phrase-index-search" -> ForcedOpens
      [] tool = "vector-info" -> <<There("vector"), Must("doc_table")>>
      [] tool = "vector-neighbors" -> NeighborOpens(given)
      [] tool = "outline-search" -> OutlineOpens(given)
      [] OTHER -> <<>>

\* The tools a workflow runs, each of which may fail without the workflow failing.
Stages(tool) ==
    CASE tool = "evidence-search" ->
            {"absence-check", "first-attestation", "phrase-history", "trace-term-usage",
             "cluster-hits"}
      [] tool = "hybrid-discover" -> {"vector-neighbors", "similar", "expand-context-adaptive"}
      [] tool = "source-investigate" ->
            {"expand-context-adaptive", "frontier", "similar", "vector-neighbors",
             "phrase-history"}
      [] tool = "scope-profile" -> {"trace-term-usage"}
      [] OTHER -> {}

-----------------------------------------------------------------------------
(* The workflows of the manifest.                                           *)

Profile(primary, required, optional) ==
    [primary |-> primary, required |-> required, optional |-> optional]
WorkflowProfiles ==
    {Profile("evidence-search", {"passages"}, {"phrase", "catalog", "doc_table"}),
     Profile("pair-appearance", {"passages", "doc_table"}, {"phrase", "catalog"}),
     Profile("hybrid-discover", {"passages", "doc_table"}, {"vector", "tfidf", "catalog"}),
     Profile("source-investigate", {"passages", "doc_table"}, {"catalog", "tfidf", "vector"}),
     Profile("source-read", {"passages"}, {"catalog"}),
     Profile("scope-profile", {"passages", "catalog", "doc_table"}, {}),
     Profile("report-from-evidence", {}, {})}

-----------------------------------------------------------------------------
(* What a reply says to call next, best first: the tool and the arguments   *)
(* that are filled in.                                                      *)

Ask(tool, given) == [tool |-> tool, given |-> given]

\* By the shape of the result: no hit, one, hits in one or two works, in five or more,
\* in a few (or in rows without a work).
Shape == {"none", "one", "tight", "wide", "few"}
SearchCandidates(shape) ==
    CASE shape = "none" -> <<Ask("query-expand-terms", {"phrase"}),
                             Ask("heading-search", {"query", "limit"}),
                             Ask("canonical-source", {"phrase"})>>
      [] shape = "one" -> <<Ask("source-investigate", {"seed_passage_id"}),
                            Ask("source-read", {"passage_id", "direction", "max_chars"}),
                            Ask("frontier", {"seed"})>>
      [] shape = "tight" -> <<Ask("frontier", {"seed"}),
                              Ask("search", {"phrase", "mode", "group_by"}),
                              Ask("source-read", {"passage_id", "direction", "max_chars"})>>
      [] shape = "wide" -> <<Ask("phrase-history", {"phrase"}),
                             Ask("search", {"phrase", "mode", "group_by"}),
                             Ask("evidence-search",
                                 {"phrase", "include_attestation", "include_history"})>>
      [] OTHER -> <<Ask("frontier", {"seed"}), Ask("cluster-hits", {"phrase", "cluster_by"})>>

Verify == Ask("evidence-search", {"phrase", "include_attestation"})
ReadAround == Ask("source-read", {"passage_id", "direction", "max_chars"})

ReadNext == <<Ask("source-read", {"cursor"}), Verify>>
\* Mutant of EvidenceNext: frontier is given the argument of source-investigate.
EvidenceNextMixed == <<Ask("frontier", {"seed_passage_id", "limit", "phrase_limit"}),
                       Ask("source-investigate", {"seed_passage_id", "phrases"})>>
EvidenceNext == <<Ask("frontier", {"seed", "limit", "phrase_limit"}),
                  Ask("source-investigate", {"seed_passage_id", "phrases"})>>
HybridNext == <<Ask("frontier", {"seed", "limit", "phrase_limit"}), ReadAround, Verify>>
InvestigateNext == <<Verify, ReadAround, Ask("frontier", {"seed", "limit"})>>
ProfileNext == <<Ask("evidence-search", {"phrase", "include_usage"})>>
=============================================================================
