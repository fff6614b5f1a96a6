---------------------------- MODULE CommandLine ----------------------------
(***************************************************************************)
(* The command line of sinorag (cli.rs): which commands there are, what    *)
(* each must be given and what it may be given.  A line is a command, its   *)
(* words as a sequence, with the set of the flags given; <a> is a word the  *)
(* command takes without a flag.  What is told to type elsewhere in the     *)
(* program (Upkeep) or offered beside a refused call (ToolCalls) is a line  *)
(* that this either accepts or turns away.                                 *)
(***************************************************************************)
EXTENDS Sequences, FiniteSets

\* A command, what it cannot do without and what else it takes.
Cmd(path, needs, takes) == [path |-> path, needs |-> needs, takes |-> takes]

LexicalIndexCommands ==
    {Cmd(<<"index", "phrase">>, {}, {"parquet", "doc-table", "out", "gram-len", "buckets",
         "temp-dir"}),
     Cmd(<<"index", "tfidf">>, {}, {"parquet", "doc-table", "out", "min-ngram", "max-ngram",
         "min-df", "max-df-ratio", "max-df", "max-features", "buckets", "temp-dir"}),
     Cmd(<<"index", "phrase-info">>, {}, {"index"}),
     Cmd(<<"index", "tfidf-info">>, {}, {"index"}),
     Cmd(<<"index", "catalog">>, {}, {"parquet", "doc-table", "out"}),
     Cmd(<<"index", "vector-export">>, {}, {"parquet", "doc-table", "out", "limit"}),
     Cmd(<<"index", "vector-build">>, {"embeddings", "model-id"}, {"doc-table", "out",
         "model-revision", "source-fingerprint", "embedding-text-template",
         "input-text-field-policy", "truncation-policy", "max-input-chars", "pooling",
         "instruction", "max-nb-connection", "ef-construction", "nb-layer", "resume",
         "hnsw-threads"})}

VectorIndexCommands ==
    {Cmd(<<"index", "vector-info">>, {}, {"index"}),
     Cmd(<<"index", "vector-engine-build">>, {}, {"onnx", "engine-dir", "model", "batch-size",
         "trtexec", "force", "model-cache-dir", "show-download-progress"}),
     Cmd(<<"index", "vector-update">>, {"model"}, {"parquet", "doc-table", "cache", "out",
         "batch-size", "model-cache-dir", "tensorrt-root", "tensorrt-cache-dir", "cpu",
         "show-download-progress", "allow-partial-vector-index", "max-nb-connection",
         "ef-construction", "nb-layer"}),
     Cmd(<<"index", "semantic">>, {}, {"allow-partial-vector-index"})}

\* The flattened argument groups.
LexicalFlags ==
    {"parquet", "doc-table", "phrase-out", "tfidf-out", "phrase-gram-len", "min-ngram",
     "max-ngram", "min-df", "max-df-ratio", "max-df", "max-features", "buckets", "temp-dir"}
SemanticFlags ==
    {"parquet", "doc-table", "model", "cache", "out", "batch-size", "model-cache-dir",
     "tensorrt-root", "tensorrt-cache-dir", "cpu", "show-download-progress",
     "allow-partial-vector-index", "max-nb-connection", "ef-construction", "nb-layer"}
PdfFlags ==
    {"input-markdown", "input-json", "title", "essay-max-pages", "side-by-side"}

GroupedIndexCommands ==
    {Cmd(<<"indexes", "lexical">>, {}, LexicalFlags),
     Cmd(<<"indexes", "semantic">>, {}, SemanticFlags)}

CorpusCommands ==
    {Cmd(<<"merge-cbeta">>, {"github", "iso", "out"}, {"extra", "dry-run"}),
     Cmd(<<"init">>, {}, {"url", "force", "from-raw", "out-parquet"}),
     Cmd(<<"status">>, {}, {"data"}),
     Cmd(<<"lexical-indexes">>, {}, LexicalFlags),
     Cmd(<<"optional-indexes">>, {}, LexicalFlags),
     Cmd(<<"ingest">>, {"<source>", "<path>"}, {"resume", "build-phrase-index", "build-tfidf",
         "phrase-index-out", "phrase-gram-len", "tfidf-out", "catalog-index-out",
         "phrase-max-memory", "no-parquet-compression", "out-jsonl", "out-parquet"})}

ServingCommands ==
    {Cmd(<<"ingest-all">>, {"cbeta"}, {"resume", "no-lexical", "no-phrase", "no-tfidf",
         "parallel-lexical", "phrase-gram-len", "phrase-max-memory", "phrase-index-out",
         "tfidf-out", "catalog-index-out", "no-parquet-compression", "out-jsonl",
         "out-parquet"}),
     Cmd(<<"setup", "opencode">>, {}, {"opencode"}),
     Cmd(<<"mcp">>, {}, {"pack", "readonly", "writable", "allow-admin-tools",
         "passages-parquet", "phrase-index", "tfidf-index", "vector-index", "catalog-index",
         "doc-table", "registry", "output-root"}),
     Cmd(<<"agent">>, {}, {"opencode", "pack", "allow-admin-tools", "writable", "output-root",
         "dry-run"})}

PackCommands ==
    {Cmd(<<"pack-create">>, {}, {"data", "out"}),
     Cmd(<<"build-pack">>, {}, {"pack", "pack-id"}),
     Cmd(<<"patch-metadata">>, {}, {"parquet", "dry-run"}),
     Cmd(<<"tfidf-build">>, {}, {"parquet", "doc-table", "out", "min-ngram", "max-ngram",
         "min-df", "max-df-ratio", "max-df", "max-features", "buckets", "temp-dir"}),
     Cmd(<<"tfidf-info">>, {}, {"index"}),
     Cmd(<<"phrase-index-build">>, {}, {"parquet", "doc-table", "out", "gram-len", "buckets",
         "temp-dir"}),
     Cmd(<<"phrase-index-info">>, {}, {"index"}),
     Cmd(<<"phrase-index-search">>, {"phrase"}, {"parquet", "index", "limit", "out"}),
     Cmd(<<"catalog-index-build">>, {}, {"parquet", "out", "debug-json", "doc-table"}),
     Cmd(<<"catalog-index-info">>, {}, {"index"})}

StoreCommands ==
    {Cmd(<<"doc-table-build">>, {}, {"parquet", "out", "append-to"}),
     Cmd(<<"cef-validate">>, {"input"}, {}),
     Cmd(<<"cef-init">>, {"out"}, {}),
     Cmd(<<"cef-stats">>, {"input"}, {}),
     Cmd(<<"ingest-dict">>, {"<path>"}, {"out-parquet", "no-parquet-compression"}),
     Cmd(<<"ingest-authority">>, {"<path>"}, {"persons-out", "places-out",
         "no-parquet-compression"}),
     Cmd(<<"ingest-cef">>, {"input"}, {"out-parquet"}),
     Cmd(<<"ingest-terebess">>, {"input"}, {"out-parquet", "images-dir", "min-body-chars"}),
     Cmd(<<"passage">>, {"id"}, {"parquet", "out"}),
     Cmd(<<"search">>, {}, {"parquet", "phrase", "tradition", "period", "origin", "canon",
         "author", "title", "source-work-id", "heading-path-prefix", "limit", "out",
         "registry"})}

ContextCommands ==
    {Cmd(<<"expand-context">>, {}, {"parquet", "passage-id", "session", "hit", "before",
         "after", "out"}),
     Cmd(<<"expand-context-adaptive">>, {"passage-id"}, {"parquet", "catalog", "max-chars",
         "out"}),
     Cmd(<<"similar">>, {"seed"}, {"parquet", "index", "limit", "shared-ngram-limit",
         "shared-phrase-limit", "min-shared-phrase-len", "out"}),
     Cmd(<<"similar-batch">>, {"seeds", "out"}, {"parquet", "index", "limit",
         "shared-ngram-limit", "shared-phrase-limit", "min-shared-phrase-len"}),
     Cmd(<<"similar-phrase">>, {"phrase"}, {"parquet", "index", "limit", "out"}),
     Cmd(<<"frontier">>, {"seed"}, {"parquet", "index", "corpus", "limit", "phrase-limit",
         "out", "registry"}),
     Cmd(<<"taxonomy">>, {}, {"parquet"}),
     Cmd(<<"works">>, {}, {"index", "tradition", "period", "canon", "author", "limit"})}

ExportCommands ==
    {Cmd(<<"outline">>, {}, {"index", "work", "node", "max-depth"}),
     Cmd(<<"sections">>, {}, {"index", "work", "max-depth"}),
     Cmd(<<"scope">>, {"node"}, {"index"}),
     Cmd(<<"export-markdown">>, {"input", "out"}, {"title"}),
     Cmd(<<"export-readzen">>, {"input"}, {"out", "name"}),
     Cmd(<<"graph-build">>, {"input"}, {"out", "kind", "name"}),
     Cmd(<<"report-build">>, {"input", "out"}, {"title", "essay-max-pages"}),
     Cmd(<<"pdf-build">>, {"out"}, PdfFlags),
     Cmd(<<"export-pdf">>, {"out"}, PdfFlags),
     Cmd(<<"catalog">>, {}, {"runs", "registry"}),
     Cmd(<<"prior-work">>, {"seed"}, {"registry", "limit"}),
     Cmd(<<"phrase-status">>, {"phrase"}, {"registry", "limit"})}

PersonCommands ==
    {Cmd(<<"work-summary">>, {}, {"registry", "limit"}),
     Cmd(<<"validate">>, {"adjudication"}, {}),
     Cmd(<<"seed-pick">>, {}, {"parquet", "registry", "tradition", "period", "limit"}),
     Cmd(<<"phrase-history">>, {"phrase"}, {"parquet", "include-variants", "timeline",
         "phrase-index", "out"}),
     Cmd(<<"first-attestation">>, {"phrase"}, {"parquet", "limit", "phrase-index", "out"}),
     Cmd(<<"person-resolve">>, {"name"}, {"alias", "parquet", "out"}),
     Cmd(<<"person-history">>, {"name"}, {"alias", "parquet", "limit", "out"}),
     Cmd(<<"canonical-source">>, {"phrase"}, {"parquet", "canon", "limit", "phrase-index",
         "out"}),
     Cmd(<<"timeline">>, {"phrase"}, {"parquet", "include-variants", "limit", "phrase-index",
         "out"})}

PhraseCommands ==
    {Cmd(<<"outline-search">>, {"phrase"}, {"parquet", "phrase-index", "doc-table", "catalog",
         "node-id", "work-id", "group-by", "limit-total", "limit-per-group", "out"}),
     Cmd(<<"heading-search">>, {"query"}, {"parquet", "canon", "source-work-id", "period",
         "limit", "brief", "out"}),
     Cmd(<<"cluster-hits">>, {"phrase"}, {"parquet", "phrase-index", "doc-table", "catalog",
         "cluster-by", "limit-total", "limit-per-cluster", "out"}),
     Cmd(<<"absence-check">>, {"phrase"}, {"parquet", "phrase-index", "doc-table", "catalog",
         "scope-work-id", "scope-canon", "scope-period", "scope-node-id", "limit", "out"}),
     Cmd(<<"collocation-search">>, {"phrase"}, {"parquet", "phrase-index", "doc-table",
         "window-chars", "gram-len", "limit-total", "limit-collocates", "out"})}

UsageCommands ==
    {Cmd(<<"compare-usage">>, {}, {"parquet", "doc-table", "catalog", "scope-a-node-id",
         "scope-a-work-id", "scope-a-canon", "scope-a-period", "scope-b-node-id",
         "scope-b-work-id", "scope-b-canon", "scope-b-period", "gram-len", "limit-passages",
         "limit-terms", "out"}),
     Cmd(<<"find-first-mention">>, {"phrase"}, {"parquet", "phrase-index", "doc-table",
         "scope-canon", "scope-period", "scope-source-work-id", "limit", "out"}),
     Cmd(<<"trace-term-usage">>, {"phrase"}, {"parquet", "phrase-index", "doc-table",
         "group-by", "limit-total", "limit-per-group", "out"}),
     Cmd(<<"query-expand-terms">>, {"phrase"}, {"mode", "person-alias", "max", "out"}),
     Cmd(<<"research-packet-build">>, {}, {"pack", "out", "recipe", "brief", "keep-temp",
         "topic", "notes", "phrase", "seed-passage", "person", "person-alias", "work", "canon",
         "period"})}

ToolCommands ==
    {Cmd(<<"tools-manifest">>, {}, {"pack", "format", "include-examples", "include-schemas",
         "include-internal"}),
     Cmd(<<"tool-docs">>, {}, {"tool"}),
     Cmd(<<"tool-call">>, {"<tool>"}, {"json", "json-file", "pack", "readonly",
         "allow-admin-tools", "passages-parquet", "phrase-index", "tfidf-index", "vector-index",
         "catalog-index", "doc-table", "registry", "output-root"}),
     Cmd(<<"run-tools">>, {"input", "output"}, {"pack", "readonly", "allow-admin-tools",
         "continue-on-error", "jobs", "output-root", "passages-parquet", "phrase-index",
         "tfidf-index", "vector-index", "catalog-index", "doc-table", "registry"}),
     Cmd(<<"tool-eval">>, {"cases"}, {"out", "pack", "readonly", "allow-admin-tools",
         "output-root", "passages-parquet", "phrase-index", "tfidf-index", "vector-index",
         "catalog-index", "doc-table", "registry"})}

Commands ==
    LexicalIndexCommands \cup VectorIndexCommands \cup GroupedIndexCommands \cup CorpusCommands
    \cup ServingCommands \cup PackCommands \cup StoreCommands \cup ContextCommands
    \cup ExportCommands \cup PersonCommands \cup PhraseCommands \cup UsageCommands
    \cup ToolCommands

Line(path, given) == [path |-> path, given |-> given]

\* Of two sources for a PDF exactly one is given.
OneSource(line) ==
    line.path \in {<<"pdf-build">>, <<"export-pdf">>}
        => Cardinality(line.given \cap {"input-markdown", "input-json"}) = 1

\* Whether clap accepts the line.  Every command also takes --help, left out here.
Parses(line) ==
    /\ \E c \in Commands : /\ c.path = line.path
                           /\ c.needs \subseteq line.given
                           /\ line.given \subseteq c.needs \cup c.takes
    /\ OneSource(line)
=============================================================================
