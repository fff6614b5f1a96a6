----------------------------- MODULE ToolCalls -----------------------------
(***************************************************************************)
(* Calls of the tools of ToolSpecs by agents: where the engine finds an     *)
(* artefact (a file named on the command line, the pack, the data           *)
(* directory), how a call is refused, what the reply says to call next, and *)
(* the log of calls, from which the replies learn what was called lately.   *)
(* What the manifest tells an agent before it calls anything is put against *)
(* what the calls then open.                                                *)
(*                                                                          *)
(* What a call finds in the texts is left out: it either opens all it needs  *)
(* and answers, or it is refused.  Workflow has the time it takes.          *)
(***************************************************************************)
EXTENDS ToolSpecs, CommandLine

CONSTANTS Client,    \* the agents
          Configs,   \* what files there may be, and how the engine was started
          Busy,      \* bound: those of them in which calls are followed through
          Called,    \* bound: what an agent calls that no reply told it to
          Recent,    \* how many calls back a suggestion counts as acted on (12 in the code)
          MaxLog,    \* bound: calls logged
          MaxTears   \* bound: records not written whole

ASSUME ToolCallsAssumption == Recent \in Nat /\ MaxLog \in Nat /\ MaxTears \in Nat

VARIABLES
    config, \* [files: root -> artefacts, named: artefacts, pack, readonly: BOOLEAN]
    log,    \* .sinorag/tool_calls.jsonl: what was to be written and what was
    call    \* client -> its call, or the last one

callVars == <<config, log, call>>

Part == {"passages", "doc_table", "catalog", "phrase", "tfidf", "vector"}
OfTable == {"phrase", "tfidf", "vector"} \* those that carry a fingerprint of the table
Root == {"named", "pack", "default"}
ASSUME ConfigsAssumption ==
    Configs \subseteq [files : [Root -> SUBSET (Part \cup {"raw"})], named : SUBSET Part,
                       pack : BOOLEAN, readonly : BOOLEAN]

-----------------------------------------------------------------------------
(* ToolEngine::resolve_*_path, and what is checked of an index.             *)

\* A file named on the command line is taken whether or not it is there.
RootOf(k, a) ==
    IF a \in k.named THEN "named"
    ELSE IF k.pack /\ a \in k.files["pack"] THEN "pack" ELSE "default"
Resolved(k, a) == a \in k.files[RootOf(k, a)]
\* Packing leaves passages-raw.parquet behind; whoever looks for passages renames it.
Heals(k) == /\ RootOf(k, "passages") = "default" /\ ~Resolved(k, "passages")
            /\ "raw" \in k.files["default"]
Healed(k) == IF Heals(k)
             THEN [k EXCEPT !.files["default"] = (@ \ {"raw"}) \cup {"passages"}] ELSE k
Found(k, a) == Resolved(Healed(k), a)

\* The table and an index are of one build where they are of one root.
Matches(k, a) == a \in OfTable => Found(k, "doc_table") /\ RootOf(k, a) = RootOf(k, "doc_table")
Usable(k, a) == Found(k, a) /\ Matches(k, a)

\* status: what can be resolved.
StatusSays(k) == {a \in Part : Found(k, a)}

Fails(k, s) ==
    CASE s.how = "must" -> ~Usable(k, s.art)
      [] s.how = "there" -> ~Found(k, s.art)
      [] s.how = "may" -> Found(k, s.art) /\ ~Usable(k, s.art)
      [] OTHER -> Found(k, "doc_table") /\ Found(k, s.art) /\ ~Usable(k, s.art)
Opened(k, opens) == \A i \in DOMAIN opens : ~Fails(k, opens[i])
FirstFailing(k, opens) ==
    opens[CHOOSE i \in DOMAIN opens : /\ Fails(k, opens[i])
                                      /\ \A j \in 1 .. i - 1 : ~Fails(k, opens[j])].art

-----------------------------------------------------------------------------
(* call_tool: the definition, enforce_safety, the request, the tool.        *)

\* Only the path of the vector index, and phrase-index-search, name what is missing.
CodeOfMissing(k, tool, a) ==
    CASE a = "vector" /\ ~Found(k, a) -> "missing_vector_index"
      [] tool = "phrase-index-search" /\ a = "phrase" /\ ~Found(k, a) -> "missing_phrase_index"
      [] OTHER -> "internal_error"

Violates(k, tool) == ToolDefs[tool].writes /\ k.readonly

Code(k, ask) ==
    LET opens == Opens(ask.tool, ask.given) IN
    IF ask.tool \notin DOMAIN ToolDefs THEN "unknown_tool"
    ELSE IF Violates(k, ask.tool) THEN "readonly_violation"
    ELSE IF ~Understood(ask.tool, ask.given) THEN "internal_error"
    ELSE IF ~WellPosed(ask.tool, ask.given)
    THEN IF ask.tool = "run-batch" THEN "internal_error" ELSE "invalid_args"
    ELSE IF ask.tool = "vector-neighbors" /\ "query_text" \in ask.given
    THEN "query_embedding_provider_not_configured"
    ELSE IF Opened(k, opens) THEN "ok"
    ELSE CodeOfMissing(k, ask.tool, FirstFailing(k, opens))

\* classify_tool_error: the command it names, for the codes that come with one.
Remedy(code) ==
    CASE code = "unknown_tool" -> Line(<<"tools-manifest">>, {})
      [] code = "missing_phrase_index" -> Line(<<"index", "phrase">>, {"parquet", "out"})
      [] code = "missing_tfidf_index" -> Line(<<"index", "tfidf">>, {"parquet", "out"})
      [] code = "missing_vector_index" ->
            Line(<<"index", "vector-build">>, {"embeddings", "model-id", "out"})
      [] code = "missing_catalog_index" -> Line(<<"catalog-index-build">>, {})
      [] code = "missing_doc_table" -> Line(<<"doc-table-build">>, {})
      [] code = "missing_passages" -> Line(<<"ingest">>, {})
      [] code = "invalid_args" -> Line(<<"explain-tool">>, {"<tool>"})
      [] OTHER -> Line(<<>>, {})

-----------------------------------------------------------------------------
(* The log: a record is a line, appended with one write when a call ends.    *)

\* What a write can leave: the line; the line without its newline; a part of it, cut
\* between two characters or inside one; nothing.
Write == {"all", "unended", "part", "split", "none"}
Torn == {i \in DOMAIN log : log[i].written # "all"}

Before(i) == {j \in 1 .. i - 1 : log[j].written # "none"}
After(i) == {j \in i + 1 .. Len(log) : log[j].written # "none"}
\* Nothing else is on the line on which the record begins.
OnItsOwn(i) == \A j \in Before(i) :
                  (\A k \in Before(i) : k <= j) => log[j].written = "all"
Whole(i) == \/ log[i].written = "all"
            \/ log[i].written = "unended" /\ After(i) = {}
\* The file is read as a string: half a character makes all of it unreadable.
IsText == \A i \in DOMAIN log : log[i].written # "split"
Records == IF IsText THEN {i \in DOMAIN log : Whole(i) /\ OnItsOwn(i)} ELSE {}

\* Mutant of RecentTools: the oldest records.
RecentToolsOldest ==
    {log[i].tool : i \in {i \in Records : Cardinality({j \in Records : j < i}) < Recent}}
\* recent_tool_names; an error counts as no names.
RecentTools ==
    {log[i].tool : i \in {i \in Records : Cardinality({j \in Records : j > i}) < Recent}}

-----------------------------------------------------------------------------
(* What a reply says to call next.                                          *)

Two(s) == SubSeq(s, 1, IF Len(s) < 2 THEN Len(s) ELSE 2)
\* What is left of s, in its order.
Fresh(s) ==
    LET unused == {i \in DOMAIN s : s[i].tool \notin RecentTools}
    IN  [k \in 1 .. Cardinality(unused) |->
            s[CHOOSE i \in unused : Cardinality({j \in unused : j < i}) = k - 1]]

\* The lists a tool may reply with; which of them depends on what was found and asked.
Suggestions(tool) ==
    CASE tool = "search" -> {Two(Fresh(SearchCandidates(shape))) : shape \in Shape}
      [] tool = "source-read" -> {ReadNext, <<Verify>>}
      [] tool = "evidence-search" -> {EvidenceNext}
      [] tool = "hybrid-discover" -> {HybridNext, <<Verify>>}
      [] tool = "source-investigate" -> {InvestigateNext, <<Verify, ReadAround>>}
      [] tool = "scope-profile" -> {ProfileNext}
      [] OTHER -> {<<>>}

-----------------------------------------------------------------------------
(* The agents.                                                              *)

NotCalled == [phase |-> "idle", ask |-> Ask("none", {}), told |-> FALSE, code |-> "ok",
              next |-> <<>>, seen |-> 0]
Started == Cardinality({c \in Client : call[c].phase # "idle"})

\* An agent calls a tool, of itself or because it was told to.
MakeCall(c, ask, told) ==
    /\ call[c].phase = "idle" /\ config \in Busy
    /\ Len(log) + Started < MaxLog
    /\ told => \E i \in DOMAIN call[c].next : call[c].next[i] = ask
    /\ call' = [call EXCEPT ![c] = [NotCalled EXCEPT !.phase = "running", !.ask = ask,
                                                     !.told = told]]
    /\ UNCHANGED <<config, log>>

\* The passages are looked for when nothing opened before them is missing.
LooksForPassages(k, ask) ==
    LET opens == Opens(ask.tool, ask.given) IN
    \/ ask.tool \in {"status", "person-profile", "batch-evidence-search"}
    \/ ask.tool = "hybrid-discover" /\ "seed_passage_id" \in ask.given
    \/ \E i \in DOMAIN opens : /\ opens[i].art = "passages"
                               /\ Opened(k, SubSeq(opens, 1, i - 1))

\* seen: how much was logged when the reply was made up.
AnswerCall(c) ==
    /\ call[c].phase = "running"
    /\ LET ask == call[c].ask
           code == Code(config, ask) IN
       /\ config' = IF code \in {"ok", "internal_error"} /\ LooksForPassages(config, ask)
                    THEN Healed(config) ELSE config
       /\ \E next \in IF code = "ok" THEN Suggestions(ask.tool) ELSE {<<>>} :
            call' = [call EXCEPT ![c].phase = "answered", ![c].code = code, ![c].next = next,
                                 ![c].seen = Len(log)]
    /\ UNCHANGED log

\* append_call: a write that fails is a warning.
LogCall(c, written) ==
    /\ call[c].phase = "answered"
    /\ written # "all" => Cardinality(Torn) < MaxTears
    /\ log' = Append(log, [tool |-> call[c].ask.tool, written |-> written])
    /\ call' = [call EXCEPT ![c].phase = "idle"]
    /\ UNCHANGED config

CallsInit ==
    /\ config \in Configs
    /\ log = <<>>
    /\ call = [c \in Client |-> NotCalled]

CallsNext ==
    \E c \in Client :
        \/ \E ask \in Called : MakeCall(c, ask, FALSE)
        \/ \E ask \in {call[c].next[i] : i \in DOMAIN call[c].next} : MakeCall(c, ask, TRUE)
        \/ AnswerCall(c)
        \/ \E written \in Write : LogCall(c, written)

-----------------------------------------------------------------------------
(* The manifest: missing_requirements looks into the pack, or else into the *)
(* data directory, and nowhere else.                                        *)

InSight(k) == IF k.pack THEN k.files["pack"] ELSE k.files["default"]
Available(k, tool) == ToolDefs[tool].requires \subseteq InSight(k)
Quality(k, p) ==
    IF ~(p.required \subseteq InSight(k)) THEN "unavailable"
    ELSE IF p.optional \subseteq InSight(k) THEN "full"
    ELSE IF p.required = {"passages"} THEN "minimal" ELSE "partial"

\* All that is found is of one root, nothing was named that is not there, and an index
\* is not without its table.
OneRoot(k) ==
    /\ k.named \subseteq StatusSays(k)
    /\ \A a, b \in StatusSays(k) : RootOf(k, a) = RootOf(k, b)
    /\ StatusSays(k) \cap OfTable # {} => "doc_table" \in StatusSays(k)
Callable(k, tool) == \A given \in ToolDefs[tool].examples : Opened(k, Opens(tool, given))

CallsTypeOK ==
    /\ config.files \in [Root -> SUBSET (Part \cup {"raw"})] /\ config.named \subseteq Part
    /\ config.pack \in BOOLEAN /\ config.readonly \in BOOLEAN
    /\ \A i \in DOMAIN log : log[i].written \in Write
    /\ \A c \in Client : call[c].phase \in {"idle", "running", "answered"}

\* Where all there is is of one build, a tool the manifest calls available, or whose
\* requirements status reports, is not refused for want of an artefact; a workflow it calls
\* available answers, and one it calls full loses no stage (the requires of
\* registry.rs and the profiles of tools_manifest.rs, against what engine.rs opens).
AvailableIsCallable ==
    LET said == StatusSays(config) IN
    OneRoot(config) =>
        /\ \A tool \in DOMAIN ToolDefs :
             Available(config, tool) \/ ToolDefs[tool].requires \subseteq said
                => Callable(config, tool)
        /\ \A p \in WorkflowProfiles :
             /\ Quality(config, p) # "unavailable" => Callable(config, p.primary)
             /\ Quality(config, p) = "full" =>
                  \A stage \in Stages(p.primary) : Callable(config, stage)

\* What a reply or an example says to call can be called: it is a tool the agent is
\* shown and can ask for the documentation of, takes every argument that is filled in,
\* writes nothing, and is not refused for its arguments (engine.rs, the
\* suggested_next_tools, against requests.rs and registry.rs). A refusal that comes with
\* a command names one that cli.rs accepts, but for invalid_args: it says to run `sinorag
\* explain-tool` (errors.rs:191), which is a tool and no command.
SuggestionIsCallable(ask) ==
    /\ ask.tool \in Shown \cap Documented
    /\ ~ToolDefs[ask.tool].writes
    /\ Understood(ask.tool, ask.given) /\ Known(ask.tool, ask.given)
    /\ WellPosed(ask.tool, ask.given)
ExamplesAreCallable ==
    \A tool \in DOMAIN ToolDefs : \A given \in ToolDefs[tool].examples :
        Understood(tool, given) /\ Known(tool, given) /\ WellPosed(tool, given)
SuggestionsAreCallable ==
    /\ \A c \in Client : \A i \in DOMAIN call[c].next : SuggestionIsCallable(call[c].next[i])
    /\ \A c \in Client :
         call[c].told => call[c].code \in {"ok", "missing_vector_index", "internal_error"}
    /\ ExamplesAreCallable
    /\ \A c \in Client :
         Remedy(call[c].code).path # <<>> /\ call[c].code # "invalid_args"
            => Parses(Remedy(call[c].code))

\* A write that is cut short costs its own record and at most the next, unless it cuts a
\* character, which costs all of them; and a search suggests no tool that one of the last
\* Recent calls on record was of (log.rs:110-128, engine.rs:2413-2429).
LogIsFaithful ==
    /\ IsText => Cardinality(DOMAIN log \ Records) <= 2 * Cardinality(Torn)
    /\ \A c \in Client :
         call[c].phase = "answered" /\ call[c].ask.tool = "search" /\ Torn = {} =>
            \A i \in DOMAIN call[c].next, j \in 1 .. call[c].seen :
                j > call[c].seen - Recent => call[c].next[i].tool # log[j].tool
=============================================================================
