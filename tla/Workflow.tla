------------------------------ MODULE Workflow ------------------------------
(***************************************************************************)
(* Tool calls served by one engine (tools/engine.rs, tools/registry.rs,    *)
(* mcp/server.rs): every call is a task, several run at once.  A workflow  *)
(* tool runs its components in order, under a budget of time, and reports  *)
(* on each.  A component opens what it needs through the engine's          *)
(* OnceCells, which all calls share: the first opens the file, the others  *)
(* wait for it, and when it fails or is dropped one of them tries again.   *)
(*                                                                         *)
(* Time passes in ticks of half of MIN_ENFORCEABLE_COMPONENT_TIMEOUT_MS.   *)
(* A component is dropped at its limit only where it awaits: the parquet   *)
(* store, a query, a cell that another call is filling.  Opening the       *)
(* table, an index or the catalog blocks, and may end after the limit.     *)
(***************************************************************************)
EXTENDS Integers, Sequences, FiniteSets, SequencesExt

CONSTANTS Calls,        \* the calls in flight
          Requests,     \* call -> what it may ask for
          Disks,        \* what the artefacts may be like
          VectorLists,  \* passages vector-neighbors may return, best first
          LexicalLists, \* passages similar may return, best first
          Unit,         \* the scores of candidates are in Unit-ths, rounded down
          MaxClock,     \* bound: ticks
          MaxChanges    \* bound: replacements

ASSUME BoundsAssumption == MaxClock \in Nat /\ MaxChanges \in Nat

VARIABLES
    files,   \* artefact -> "none", "good" or "bad" (unreadable, or of another table)
    changes, \* how often one was replaced
    cell,    \* artefact -> "empty", "held", or the call that is filling it
    clock,
    task,    \* call -> its progress
    results  \* call -> what its batch has answered, in the order of completion

workflowVars == <<files, changes, cell, clock, task, results>>

None == -1       \* no limit
Limit == Nat \cup {None}

\* What a workflow or a tool is asked, with the limits of its caller.
ASSUME RequestsAssumption ==
    /\ DOMAIN Requests = Calls
    /\ \A c \in Calls : Requests[c] # {}
    /\ \A c \in Calls : \A r \in Requests[c] :
         /\ {r.phrases, r.concurrency, r.limit} \subseteq Nat
         /\ {r.max_elapsed, r.max_component} \subseteq Limit
ASSUME ListsAssumption == Unit \in Nat \ {0} /\ VectorLists \cup LexicalLists \subseteq Seq(STRING)

Least(a, b) == IF a <= b THEN a ELSE b
MinEnforceable == 2 \* MIN_ENFORCEABLE_COMPONENT_TIMEOUT_MS, in ticks

-----------------------------------------------------------------------------
\* The artefacts, and the cells that keep them. phrase has no entry: its header is
\* checked, and the file opened anew, by every search.
Artefact == {"passages", "table", "phrase", "tfidf", "vector", "catalog"}
Cell == Artefact \ {"phrase"}
ASSUME DisksAssumption == Disks \subseteq [Artefact -> {"none", "good", "bad"}]

\* What a tool opens, in order, and whether it can go on without ("may").
Vital(a) == [art |-> a, must |-> TRUE]
Extra(a) == [art |-> a, must |-> FALSE]
Search == <<Vital("passages"), Extra("table"), Vital("phrase"), Extra("catalog")>>
Needs(tool) ==
    CASE tool = "search" -> Search
      [] tool = "passage" -> <<Vital("passages")>>
      [] tool \in {"absence-check", "cluster-hits"} ->
            <<Vital("table"), Vital("catalog"), Vital("passages"), Vital("phrase")>>
      [] tool \in {"first-attestation", "trace-term-usage"} ->
            <<Vital("passages"), Vital("table"), Vital("phrase")>>
      [] tool = "phrase-history" -> <<Vital("passages"), Vital("phrase")>>
      [] tool \in {"similar", "frontier"} -> <<Vital("passages"), Vital("tfidf"), Vital("table")>>
      [] tool \in {"expand-context-adaptive", "compare-usage"} ->
            <<Vital("catalog"), Vital("table"), Vital("passages")>>
      [] tool = "vector-neighbors" -> <<Vital("vector"), Vital("table")>>
      [] OTHER -> << >>

-----------------------------------------------------------------------------
(* The components of a workflow, in the order in which they run.           *)

\* must: its failure is the call's. free: outside the budget.
Component(name, tool) == [name |-> name, tool |-> tool, must |-> FALSE, free |-> FALSE]
Mandatory(name, tool) == [Component(name, tool) EXCEPT !.must = TRUE]
Unbudgeted(name, tool) == [Mandatory(name, tool) EXCEPT !.free = TRUE]

EvidencePlan ==
    <<Unbudgeted("query_expansion", "query-expand-terms"), Mandatory("exact_search", "search"),
      Component("absence_check", "absence-check"), Component("first_attestation", "first-attestation"),
      Component("phrase_history", "phrase-history"), Component("term_usage", "trace-term-usage"),
      Component("clusters", "cluster-hits")>>
HybridPlan ==
    <<Component("vector_neighbors", "vector-neighbors"), Component("tfidf_similar", "similar"),
      Component("context", "expand-context-adaptive")>>
InvestigatePlan(phrases) ==
    <<Unbudgeted("seed_passage", "passage"), Component("context", "expand-context-adaptive"),
      Component("frontier", "frontier"), Component("similar", "similar"),
      Component("vector_neighbors", "vector-neighbors")>>
    \o [i \in 1 .. phrases |-> Component("phrase_history", "phrase-history")]
ProfilePlan ==
    <<Unbudgeted("workflow_options", "scope-profile"), Unbudgeted("scope_comparison", "compare-usage"),
      [Unbudgeted("term_usage", "trace-term-usage") EXCEPT !.must = FALSE]>>
\* The files that graph-build and report-build write are read by no one here.
ReportPlan ==
    <<Unbudgeted("validation", "validate-adjudication"), Unbudgeted("graph", "graph-build"),
      Unbudgeted("report", "report-build")>>

Plan(r) == CASE r.tool = "evidence-search" -> EvidencePlan
             [] r.tool = "hybrid-discover" -> HybridPlan
             [] r.tool = "source-investigate" -> InvestigatePlan(r.phrases)
             [] r.tool = "scope-profile" -> ProfilePlan
             [] r.tool = "report-from-evidence" -> ReportPlan
             [] r.tool = "batch-evidence-search" -> << >>
             [] OTHER -> <<Unbudgeted(r.tool, r.tool)>> \* a tool of its own

-----------------------------------------------------------------------------
(* Where a call is.                                                        *)

Idle == [phase |-> "idle", request |-> CHOOSE r \in UNION Range(Requests) : TRUE, started |-> 0, step |-> 1,
         at |-> 0, limit |-> None, comps |-> << >>, warned |-> {}, overran |-> 0,
         vector |-> << >>, lexical |-> << >>, reply |-> "none"]

Request(c) == task[c].request
ThePlan(c) == Plan(Request(c))
Now(c) == ThePlan(c)[task[c].step]
Running(c) == task[c].phase = "running" /\ task[c].at > 0
Between(c) == task[c].phase = "running" /\ task[c].at = 0
IsBatch(c) == Request(c).tool = "batch-evidence-search"

\* What the component opens next: a cell once filled stays so.
Open(i, tool) == {j \in i .. Len(Needs(tool)) : Needs(tool)[j].art \notin {a \in Cell : cell[a] = "held"}}
AtWork(c) == Open(task[c].at, Now(c).tool) = {}
Next1(c) == CHOOSE j \in Open(task[c].at, Now(c).tool) :
                \A k \in Open(task[c].at, Now(c).tool) : j <= k
Need(c) == Needs(Now(c).tool)[Next1(c)]
\* The cell it has to fill or to wait for: the table comes first for an index
\* whose fingerprint it checks, once the index is claimed.
Target(c) ==
    LET a == Need(c).art IN
    IF /\ cell["table"] # "held"
       /\ \/ a \in {"tfidf", "vector"} /\ cell[a] = c
          \/ a = "phrase" /\ cell["table"] = c
          \/ a = "phrase" /\ files["phrase"] # "none" /\ Now(c).tool # "search"
    THEN "table" ELSE a
Wants(c) == Running(c) /\ ~AtWork(c)
Claimed(c) == {a \in Cell : cell[a] = c}

\* WorkflowBudget
Remaining(c) == LET m == Request(c).max_elapsed IN
                IF m = None THEN None
                ELSE IF clock - task[c].started >= m THEN 0 ELSE m - (clock - task[c].started)
Exhausted(c) == Remaining(c) = 0
ComponentTimeout(c) == LET m == Request(c).max_component IN
                       IF m = None THEN Remaining(c)
                       ELSE IF Remaining(c) = None THEN m ELSE Least(m, Remaining(c))
Deadline(c) == IF Now(c).free \/ ComponentTimeout(c) = None THEN None
               ELSE clock + ComponentTimeout(c)
PastLimit(c) == task[c].limit # None /\ clock >= task[c].limit
Over(c) == /\ ~Now(c).free /\ task[c].limit # None
           /\ Exhausted(c)

-----------------------------------------------------------------------------
\* record_component_outcome, and the arms that do the same by hand.
Record(c, status, warn) ==
    [task[c] EXCEPT !.step = @ + 1, !.at = 0, !.limit = None,
        !.comps = Append(@, <<Now(c).name, status>>),
        !.warned = IF warn THEN @ \cup {task[c].step} ELSE @]

\* An error that is the call's own: `?` in the tool, an envelope from call_tool_enveloped.
Refuse(c, code) == [task[c] EXCEPT !.phase = "answering", !.reply = code]

\* The component ended badly: the call goes on, unless it cannot do without.
Lapse(c, status, code) ==
    IF Now(c).must THEN Refuse(c, code)
    ELSE Record(c, status, Request(c).tool # "scope-profile") \* a failed term_usage warns of nothing

Same == UNCHANGED <<files, changes, clock, results>>

-----------------------------------------------------------------------------
(* Requests: call_tool_enveloped, call_tool, enforce_safety.               *)

\* enforce_safety; the other tools are ToolSafety::ReadOnly. readonly is the engine's.
WritesOutput == {"graph-build", "report-build", "pdf-build", "run-batch", "report-from-evidence"}
Refused(r) ==
    IF r.tool \in WritesOutput /\ r.readonly THEN "readonly_violation"
    ELSE IF r.tool = "hybrid-discover" /\ ~r.seed /\ ~r.embedding THEN "invalid_args"
    ELSE "none"

Admit(c) ==
    /\ task[c].phase = "idle"
    /\ \E r \in Requests[c] :
         task' = [task EXCEPT ![c] = [Idle EXCEPT
                    !.phase = IF Refused(r) = "none" THEN "running" ELSE "answering",
                    !.reply = Refused(r), !.request = r, !.started = IF r.max_elapsed = None THEN 0 ELSE clock]]
    /\ UNCHANGED cell /\ Same

\* Whether the workflow runs this component, by its request and its own earlier results.
Asked(c) == \/ Now(c).must \/ Now(c).name \in Request(c).include
            \/ Request(c).tool = "hybrid-discover" /\ Now(c).name # "context"
Has(c, name, status) == <<name, status>> \in {task[c].comps[i] : i \in DOMAIN task[c].comps}

Reuses(c) == /\ Request(c).tool = "source-investigate" /\ Now(c).name = "similar"
             /\ Has(c, "frontier", "ok")
\* workflow_options: what was asked, reported before anything runs.
Given(c) == Request(c).tool = "scope-profile" /\ task[c].step = 1
Unavailable(c) ==
    /\ Request(c).tool = "hybrid-discover"
    /\ \/ Now(c).name = "vector_neighbors" /\ files["vector"] = "none"
       \/ Now(c).name \in {"tfidf_similar", "context"} /\ ~Request(c).seed

Skip(c) ==
    /\ Between(c) /\ ~IsBatch(c) /\ task[c].step <= Len(ThePlan(c))
    /\ \/ /\ ~Asked(c)
          /\ task' = [task EXCEPT ![c] = Record(c, "not_requested", FALSE)]
       \/ /\ Asked(c) /\ Unavailable(c)
          /\ task' = [task EXCEPT ![c] = Record(c, "unavailable", Now(c).name = "vector_neighbors")]
       \/ /\ Asked(c) /\ (Reuses(c) \/ Given(c))
          /\ task' = [task EXCEPT ![c] = Record(c, "ok", FALSE)]
    /\ UNCHANGED cell /\ Same

\* Mutant of Begin: a component that cannot be given its minimum is begun anyway.
BeginAnyway(c) ==
    /\ Between(c) /\ ~IsBatch(c) /\ task[c].step <= Len(ThePlan(c))
    /\ Asked(c) /\ ~Unavailable(c) /\ ~Reuses(c) /\ ~Given(c)
    /\ task' = [task EXCEPT ![c].at = 1, ![c].limit = Deadline(c)]
    /\ UNCHANGED cell /\ Same
\* run_budgeted_component, until the component is first polled.
Begin(c) ==
    /\ Between(c) /\ ~IsBatch(c) /\ task[c].step <= Len(ThePlan(c))
    /\ Asked(c) /\ ~Unavailable(c) /\ ~Reuses(c) /\ ~Given(c)
    /\ \/ /\ Now(c).free \/ (~Exhausted(c) /\ ComponentTimeout(c) \notin 0 .. MinEnforceable - 1)
          /\ task' = [task EXCEPT ![c].at = 1, ![c].limit = Deadline(c)]
       \/ /\ ~Now(c).free /\ ~Exhausted(c) /\ ComponentTimeout(c) \in 0 .. MinEnforceable - 1
          /\ task' = [task EXCEPT ![c] = Lapse(c, "timed_out", "timeout")]
       \/ /\ ~Now(c).free /\ Exhausted(c)
          /\ task' = [task EXCEPT ![c] =
                IF Now(c).must THEN Refuse(c, "timeout")
                ELSE IF /\ Request(c).tool = "source-investigate"
                        /\ Now(c).name = "phrase_history"
                     THEN [Record(c, "skipped_budget", FALSE) EXCEPT !.step = Len(ThePlan(c)) + 1]
                     ELSE Record(c, "skipped_budget", FALSE)]
    /\ UNCHANGED cell /\ Same

-----------------------------------------------------------------------------
(* The cells: OnceCell::get_or_try_init of ToolEngine::passages, doc_table, *)
(* tfidf, vector and catalog.                                              *)

\* Something to open that cannot be had: the next thing, or an error.
GoOn(c) == IF Need(c).must THEN Lapse(c, "failed", "error")
           ELSE [task[c] EXCEPT !.at = Next1(c) + 1]
Released(c) == [a \in Cell |-> IF cell[a] = c THEN "empty" ELSE cell[a]]

Claim(c) ==
    /\ Wants(c) /\ Target(c) \in Cell /\ cell[Target(c)] = "empty"
    /\ cell' = [cell EXCEPT ![Target(c)] = c]
    /\ UNCHANGED task /\ Same

Fill(c) ==
    /\ Wants(c) /\ Target(c) \in Claimed(c) /\ files[Target(c)] = "good"
    /\ cell' = [cell EXCEPT ![Target(c)] = "held"]
    /\ UNCHANGED task /\ Same

\* Mutant of FillFails: the one whose opening failed tries again itself.
FillFailsRetries(c) ==
    /\ Wants(c) /\ Target(c) \in Claimed(c)
    /\ \E a \in {Target(c), Need(c).art} \cap Claimed(c) : files[a] # "good"
    /\ cell' = Released(c)
    /\ UNCHANGED task /\ Same
\* An error is not kept: the next to want the cell tries again.
FillFails(c) ==
    /\ Wants(c) /\ Target(c) \in Claimed(c)
    /\ \E a \in {Target(c), Need(c).art} \cap Claimed(c) : files[a] # "good"
    /\ cell' = Released(c)
    /\ task' = [task EXCEPT ![c] = GoOn(c)]
    /\ Same

\* optional_phrase_path: no index is no error, one that does not match is.  search
\* does not look for it without a table.
CheckPhrase(c) ==
    /\ Wants(c) /\ Need(c).art = "phrase"
    /\ \/ /\ Target(c) = "phrase"
          /\ files["phrase"] # "bad" \/ cell["table"] # "held"
          /\ task' = [task EXCEPT ![c].at = Next1(c) + 1]
       \/ /\ files["phrase"] = "bad"
          /\ Now(c).tool = "search" => cell["table"] = "held"
          /\ Claimed(c) = {}
          /\ task' = [task EXCEPT ![c] = GoOn(c)]
    /\ UNCHANGED cell /\ Same

-----------------------------------------------------------------------------
(* The end of a component.                                                 *)

Ended(c, r) == [r EXCEPT !.overran = IF Over(c) THEN task[c].overran + 1 ELSE task[c].overran]

Work(c) ==
    /\ Running(c) /\ AtWork(c)
    /\ \/ \E v \in VectorLists, l \in LexicalLists :
            task' = [task EXCEPT ![c] =
                [Ended(c, Record(c, "ok", FALSE)) EXCEPT
                    !.vector = IF Request(c).tool = "hybrid-discover" /\ Now(c).tool = "vector-neighbors"
                               THEN v ELSE @,
                    !.lexical = IF Request(c).tool = "hybrid-discover" /\ Now(c).tool = "similar"
                                THEN l ELSE @]]
       \/ task' = [task EXCEPT ![c] = Ended(c, Lapse(c, "failed", "error"))]
    /\ UNCHANGED <<files, changes, cell, clock, results>>

\* The adjudication is not valid: adjudication_invalid_graph_and_report_skipped is
\* the warning, and neither is begun or reported on.
Rejects(c) ==
    /\ Running(c) /\ Request(c).tool = "report-from-evidence" /\ task[c].step = 1
    /\ task' = [task EXCEPT ![c] =
                  [Record(c, "ok", TRUE) EXCEPT !.step = Len(ThePlan(c)) + 1]]
    /\ UNCHANGED <<files, changes, cell, clock, results>>

\* In a query, behind another call, or opening the parquet store.
Awaits(c) == ~AtWork(c) => /\ Target(c) \in Cell
                           /\ \/ cell[Target(c)] \in Calls \ {c}
                              \/ Target(c) = "passages" /\ cell["passages"] = c
\* tokio::time::timeout drops the component where it awaits, and with it its claims.
Expire(c) ==
    /\ Running(c) /\ PastLimit(c)
    /\ Awaits(c)
    /\ task' = [task EXCEPT ![c] = Ended(c, Lapse(c, "timed_out", "timeout"))]
    /\ cell' = Released(c)
    /\ Same

-----------------------------------------------------------------------------
(* batch-evidence-search: buffer_unordered keeps `concurrency` searches     *)
(* going; step counts those begun.                                         *)

Concurrency(r) == Least(8, IF r.concurrency < 1 THEN 1 ELSE r.concurrency)
\* Mutant of InFlight: a search that has ended is polled again.
InFlightAll(c) == 1 .. task[c].step - 1
InFlight(c) == {i \in 1 .. task[c].step - 1 : \A k \in DOMAIN results[c] : results[c][k].index # i}

BatchStart(c) ==
    /\ Between(c) /\ IsBatch(c) /\ task[c].step <= Request(c).phrases
    /\ Cardinality(InFlight(c)) < Concurrency(Request(c))
    /\ task' = [task EXCEPT ![c].step = @ + 1]
    /\ UNCHANGED <<files, changes, cell, clock, results>>

\* A search that fails is a result with an error. It opens the passages if nobody has.
BatchReturns(c) ==
    /\ Between(c) /\ IsBatch(c) /\ cell["passages"] \notin Calls
    /\ \E i \in InFlight(c), ok \in BOOLEAN :
         /\ ok => (cell["passages"] = "held" \/ files["passages"] = "good")
         /\ results' = [results EXCEPT ![c] = Append(@, [index |-> i, ok |-> ok])]
    /\ cell' = IF files["passages"] = "good" THEN [cell EXCEPT !["passages"] = "held"] ELSE cell
    /\ UNCHANGED <<files, changes, clock, task>>

\* Sorted by index: a result is preceded by those of a smaller one.
InOrder(rs) ==
    [k \in DOMAIN rs |->
        rs[CHOOSE i \in DOMAIN rs :
            Cardinality({j \in DOMAIN rs : rs[j].index < rs[i].index}) = k - 1]]

-----------------------------------------------------------------------------
(* The answer.                                                             *)

Reported(c) == /\ Between(c)
               /\ IF IsBatch(c) THEN Len(results[c]) = Request(c).phrases
                  ELSE task[c].step > Len(ThePlan(c))

\* The envelope, ok or error.
Answer(c) ==
    /\ task[c].phase = "answering" \/ Reported(c)
    /\ task' = [task EXCEPT ![c].phase = "done",
                            ![c].reply = IF Reported(c) THEN "ok" ELSE @]
    /\ results' = IF IsBatch(c) THEN [results EXCEPT ![c] = InOrder(@)] ELSE results
    /\ UNCHANGED <<files, changes, cell, clock>>

\* The candidates of hybrid-discover. A score is exact where the ranks divide Unit \div 4.
RankIn(list, p) == IF p \in Range(list) THEN CHOOSE i \in DOMAIN list : list[i] = p ELSE 0
FinalScore(v, l) ==
    CASE v > 0 /\ l > 0 -> 3 * Unit + (Unit \div 4) \div v + (Unit \div 2) \div l
      [] v = 0 /\ l > 0 -> 2 * Unit + (Unit \div 2) \div l
      [] v > 0 /\ l = 0 -> Unit + (Unit \div 4) \div v
      [] OTHER -> 0
Merged(vector, lexical) ==
    {[id |-> p, vector_rank |-> RankIn(vector, p), tfidf_rank |-> RankIn(lexical, p),
      score |-> FinalScore(RankIn(vector, p), RankIn(lexical, p))] :
        p \in Range(vector) \cup Range(lexical)}
Sooner(m, n) == m > 0 /\ (n = 0 \/ m < n) \* no rank is usize::MAX
Overlap(h) == h.vector_rank > 0 /\ h.tfidf_rank > 0
Better(a, b) ==
    \/ a.score > b.score
    \/ a.score = b.score /\ Overlap(a) /\ ~Overlap(b)
    \/ a.score = b.score /\ Overlap(a) = Overlap(b) /\ Sooner(a.vector_rank, b.vector_rank)
    \/ /\ a.score = b.score /\ Overlap(a) = Overlap(b)
       /\ a.vector_rank = b.vector_rank
       /\ Sooner(a.tfidf_rank, b.tfidf_rank)
\* Sorted and cut off: a candidate is preceded by those before it.
Hits(r, vector, lexical) ==
    LET all == Merged(vector, lexical)
    IN  [k \in 1 .. Least(Cardinality(all), r.limit) |->
            CHOOSE h \in all : Cardinality({g \in all : Better(g, h)}) = k - 1]

-----------------------------------------------------------------------------
\* Nobody reads the clock but a call with limits.
Tick == /\ clock < MaxClock /\ clock' = clock + 1
        /\ \E c \in Calls : /\ task[c].phase = "running"
                            /\ {Request(c).max_elapsed, Request(c).max_component} # {None}
        /\ UNCHANGED <<files, changes, cell, task, results>>

\* Indexes are built, replaced or removed under the running engine.
Replace == /\ changes < MaxChanges /\ changes' = changes + 1
           /\ \E d \in Disks : files # d /\ files' = d
           /\ UNCHANGED <<cell, clock, task, results>>

Step(c) == \/ Skip(c) \/ Begin(c) \/ Claim(c) \/ Fill(c) \/ FillFails(c) \/ CheckPhrase(c)
           \/ Work(c) \/ Rejects(c) \/ Expire(c) \/ BatchStart(c) \/ BatchReturns(c) \/ Answer(c)
AllAnswered == (\A c \in Calls : task[c].phase = "done") /\ UNCHANGED workflowVars

WorkflowInit ==
    /\ files \in Disks /\ changes = 0
    /\ cell = [a \in Cell |-> "empty"]
    /\ clock = 0
    /\ task = [c \in Calls |-> Idle]
    /\ results = [c \in Calls |-> << >>]
WorkflowNext == Tick \/ Replace \/ AllAnswered \/ \E c \in Calls : Admit(c) \/ Step(c)

\* The runtime polls some task that can go on, and what a task awaits comes or fails.
WorkflowSpec == WorkflowInit /\ [][WorkflowNext]_workflowVars /\ WF_workflowVars(WorkflowNext)

-----------------------------------------------------------------------------
(* Properties                                                              *)

Status == {"ok", "failed", "timed_out", "not_requested", "unavailable", "skipped_budget"}
WorkflowTypeOK ==
    /\ files \in [Artefact -> {"none", "good", "bad"}] /\ changes \in 0 .. MaxChanges
    /\ cell \in [Cell -> {"empty", "held"} \cup Calls]
    /\ clock \in 0 .. MaxClock
    /\ \A c \in Calls :
         /\ task[c].phase \in {"idle", "running", "answering", "done"}
         /\ task[c].request \in UNION Range(Requests) /\ task[c].started \in 0 .. clock
         /\ task[c].limit = None \/ task[c].limit >= task[c].started + MinEnforceable
         /\ \A i \in DOMAIN task[c].comps : task[c].comps[i][2] \in Status
         /\ Running(c) => task[c].step <= Len(ThePlan(c)) /\ ~IsBatch(c)
         /\ Len(results[c]) <= Request(c).phrases
         /\ IsBatch(c) => Cardinality(InFlight(c)) <= 8

\* A workflow that answers well has one report for each of its components, in their
\* order, but for two: source-investigate leaves out the phrases after the one its
\* budget refused, and report-from-evidence leaves out graph and report, which it did
\* not begin, when the adjudication is not valid. That it did is warned of, and so is
\* every component that failed or ran out of time and a missing vector index; nothing
\* else is, and scope-profile warns of nothing.
CutShort(c) == /\ Request(c).tool = "report-from-evidence"
               /\ task[c].comps = <<<<"validation", "ok">>>>
ComponentsAreReported ==
    \A c \in Calls : task[c].reply = "ok" /\ ~IsBatch(c) =>
        LET comps == task[c].comps IN
        /\ \A i \in DOMAIN comps : comps[i][1] = ThePlan(c)[i].name
        /\ \/ Len(comps) = Len(ThePlan(c))
           \/ CutShort(c)
           \/ /\ Request(c).tool = "source-investigate"
              /\ comps[Len(comps)] = <<"phrase_history", "skipped_budget">>
        /\ Request(c).tool # "scope-profile" =>
             task[c].warned = {i \in DOMAIN comps :
                 \/ comps[i][2] \in {"failed", "timed_out"}
                 \/ comps[i] = <<"vector_neighbors", "unavailable">>
                 \/ CutShort(c)}

\* A call is an error only if it was refused or a component it cannot do without did
\* not end well: no other failure, limit or missing index is.
OptionalNeverFails ==
    \A c \in Calls : task[c].reply \in {"error", "timeout"} => Now(c).must

\* One component at most ends after the budget of its call, and when a component was
\* skipped for the budget every one after it is.
OneOverrun ==
    \A c \in Calls :
        /\ task[c].overran <= 1
        /\ \A i, j \in DOMAIN task[c].comps :
             i < j /\ task[c].comps[i][2] = "skipped_budget" =>
                 \/ task[c].comps[j][2] \in {"skipped_budget", "not_requested", "unavailable"}

\* source-investigate does not search twice: where the frontier was had, the similar
\* passages are the frontier's and cannot fail.
FrontierIsReused ==
    \A c \in Calls : Request(c).tool = "source-investigate" /\ Has(c, "frontier", "ok") =>
        ~ \E s \in {"failed", "timed_out", "skipped_budget"} : Has(c, "similar", s)

\* Any two candidates of hybrid-discover differ in rank, whatever the order of the
\* map they were merged in; overlaps come before lexical, lexical before semantic
\* candidates; and nothing left out ranks before what is returned.
HybridRanking ==
    \A c \in Calls : Request(c).tool = "hybrid-discover" /\ task[c].reply = "ok" =>
        LET all == Merged(task[c].vector, task[c].lexical)
            hits == Hits(Request(c), task[c].vector, task[c].lexical)
            class(h) == IF Overlap(h) THEN 3 ELSE IF h.tfidf_rank > 0 THEN 2 ELSE 1
        IN  /\ \A a, b \in all : a = b \/ Better(a, b) \/ Better(b, a)
            /\ \A i \in DOMAIN hits : \A h \in all :
                 class(h) > class(hits[i]) => \E j \in 1 .. i - 1 : hits[j] = h

\* batch-evidence-search answers phrase by phrase in the order asked, however its
\* searches end.
BatchInOrder ==
    \A c \in Calls : IsBatch(c) /\ task[c].phase = "done" =>
        \A i \in 1 .. Request(c).phrases : results[c][i].index = i

\* A call does what it says of its components, within its budget, fails only where it must, and
\* answers in the order of the ranks or of the request, not of the ends of the searches.
HonestReport ==
    /\ ComponentsAreReported
    /\ OptionalNeverFails
    /\ OneOverrun
    /\ FrontierIsReused
    /\ HybridRanking
    /\ BatchInOrder

\* Every call is answered: no two wait for each other's cells, and no cell is waited
\* for after its claimant is gone.
EveryCallAnswered == <>(\A c \in Calls : task[c].phase = "done")
=============================================================================
