------------------------------ MODULE BatchJobs ------------------------------
(***************************************************************************)
(* A batch of tool calls with dependencies between them: `run-tools`       *)
(* (tools/batch.rs) and the run-batch tool (engine.rs run_batch_impl),     *)
(* which repeats the same loop with small differences.                     *)
(*                                                                         *)
(* A batch without dependencies is run line by line, which is one pass in  *)
(* which every job is ready, or, by run-tools --jobs N, through            *)
(* buffer_unordered.                                                       *)
(***************************************************************************)
EXTENDS Naturals, Sequences, FiniteSets, SequencesExt

CONSTANTS Id,      \* job ids in use
          NoId,    \* a job without one
          Workers, \* --jobs of run-tools
          MaxJobs  \* bound: lines of the input

ASSUME NoIdAssumption == NoId \notin Id
ASSUME WorkersAssumption == Workers \in Nat \ {0} /\ MaxJobs \in Nat \ {0}

VARIABLES
    frontend,  \* "run-tools" or "run-batch"
    batch,     \* the jobs of the input, in order
    at,        \* where the loop is
    pending,   \* jobs this pass still has to look at, in the order of their lines
    postponed, \* next_pending: jobs it found not ready
    progress,  \* made_progress
    completed, \* id -> whether the last job with that id succeeded
    inflight,  \* jobs whose tool call has begun and not ended
    output     \* the envelopes written

vars == <<frontend, batch, at, pending, postponed, progress, completed, inflight, output>>

-----------------------------------------------------------------------------
\* A line that does not parse is no job, an error envelope or the end of it all.
\* continue: continue_on_error of the job, or of the batch if it has none.
Job == [parses : {TRUE}, id : Id \cup {NoId}, depends_on : SUBSET Id, continue : BOOLEAN]
BadLine == [parses |-> FALSE, id |-> NoId, depends_on |-> {}, continue |-> TRUE]
Batches == UNION {[1 .. n -> Job \cup {BadLine}] : n \in 1 .. MaxJobs}

Kind == {"parse", "ran", "skipped", "unresolved"}
Envelope == [job : 1 .. MaxJobs, kind : Kind, ok : BOOLEAN,
             names : SUBSET Id]  \* the dependencies it blames
Report(i, kind, ok, names) == [job |-> i, kind |-> kind, ok |-> ok, names |-> names]

LinesThat(b, parses) == {i \in DOMAIN b : b[i].parses = parses}
\* These lines in their order.
Listings(lines) ==
    {s \in UNION {[1 .. n -> lines] : n \in 0 .. MaxJobs} :
        /\ \A i \in lines : \E k \in DOMAIN s : s[k] = i
        /\ \A j, k \in DOMAIN s : j < k => s[j] < s[k]}
Concurrent(b) == /\ frontend = "run-tools" /\ Workers > 1
                 /\ \A i \in DOMAIN b : b[i].depends_on = {}

TypeOK ==
    /\ frontend \in {"run-tools", "run-batch"}
    /\ batch \in Batches
    /\ at \in {"pass", "running", "stuck", "stream", "done"}
    /\ pending \in SUBSET DOMAIN batch /\ postponed \in SUBSET DOMAIN batch
    /\ progress \in BOOLEAN
    /\ completed \in UNION {[S -> BOOLEAN] : S \in SUBSET Id}
    /\ inflight \in SUBSET DOMAIN batch /\ Cardinality(inflight) <= Workers
    /\ output \in Seq(Envelope)

\* The whole input is read first: run-tools reports the lines that do not parse,
\* run-batch fails before it has created the output, and is not modelled then.
Init ==
    /\ frontend \in {"run-tools", "run-batch"}
    /\ batch \in {b \in Batches : frontend = "run-batch" => BadLine \notin Range(b)}
    /\ at = IF Concurrent(batch) THEN "stream" ELSE "pass"
    /\ pending = LinesThat(batch, TRUE)
    /\ postponed = {}
    /\ progress = FALSE
    /\ completed = <<>>
    /\ inflight = {}
    /\ \E s \in Listings(LinesThat(batch, FALSE)) :
          output = [k \in DOMAIN s |-> Report(s[k], "parse", FALSE, {})]

-----------------------------------------------------------------------------
(* One pass over the pending jobs.                                         *)

Current(i) == i \in pending /\ \A j \in pending : i <= j
Deps(i) == batch[i].depends_on
Failed(i) == {d \in Deps(i) \cap DOMAIN completed : ~ completed[d]}
Missing(i) == Deps(i) \ DOMAIN completed

Ready(i) == Missing(i) = {}

\* record_completion: a job without an id is not recorded, one with an id that
\* was used before replaces what was recorded.
Complete(i, ok) ==
    completed' = [d \in DOMAIN completed \cup ({batch[i].id} \ {NoId}) |->
                     IF d = batch[i].id THEN ok ELSE completed[d]]

Stops(i, ok) == ~ ok /\ ~ batch[i].continue

SkipJob(i) ==
    /\ at = "pass" /\ Current(i) /\ Failed(i) # {}
    /\ \E dep \in Failed(i) : output' = Append(output, Report(i, "skipped", FALSE, {dep}))
    /\ Complete(i, FALSE)
    /\ progress' = TRUE
    /\ pending' = pending \ {i}
    /\ at' = IF Stops(i, FALSE) THEN "done" ELSE "pass"
    /\ UNCHANGED <<frontend, batch, postponed, inflight>>

PostponeJob(i) ==
    /\ at = "pass" /\ Current(i) /\ Failed(i) = {} /\ ~ Ready(i)
    /\ postponed' = postponed \cup {i}
    /\ pending' = pending \ {i}
    /\ UNCHANGED <<frontend, batch, at, progress, completed, inflight, output>>

CallTool(i) ==
    /\ at = "pass" /\ Current(i) /\ Failed(i) = {} /\ Ready(i)
    /\ inflight' = {i}
    /\ pending' = pending \ {i}
    /\ at' = "running"
    /\ UNCHANGED <<frontend, batch, progress, postponed, completed, output>>

\* The call returns, fails, or runs into its timeout_ms, which is a failure.
ToolReturns(ok) ==
    /\ at = "running"
    /\ \E i \in inflight :
          /\ output' = Append(output, Report(i, "ran", ok, {}))
          /\ Complete(i, ok)
          /\ at' = IF Stops(i, ok) THEN "done" ELSE "pass"
    /\ progress' = TRUE
    /\ inflight' = {}
    /\ UNCHANGED <<frontend, batch, pending, postponed>>

\* Mutants of EndPass: whether the pass made progress is not looked at, so that
\* the batch goes on for ever, or gives up what the next pass would run.
EndPassAlways ==
    /\ at = "pass" /\ pending = {}
    /\ at' = IF postponed = {} THEN "done" ELSE "pass"
    /\ pending' = postponed /\ postponed' = {}
    /\ progress' = FALSE
    /\ UNCHANGED <<frontend, batch, completed, inflight, output>>

EndPassOnly ==
    /\ at = "pass" /\ pending = {}
    /\ at' = IF postponed = {} THEN "done" ELSE "stuck"
    /\ pending' = postponed /\ postponed' = {}
    /\ progress' = FALSE
    /\ UNCHANGED <<frontend, batch, completed, inflight, output>>

EndPass ==
    /\ at = "pass" /\ pending = {}
    /\ at' = IF postponed = {} THEN "done" ELSE IF progress THEN "pass" ELSE "stuck"
    /\ pending' = postponed /\ postponed' = {}
    /\ progress' = FALSE
    /\ UNCHANGED <<frontend, batch, completed, inflight, output>>

\* Mutant of ReportUnresolved: run-batch records the job as well.
RecordUnresolved(i) ==
    /\ at = "stuck" /\ Current(i)
    /\ output' = Append(output, Report(i, "unresolved", FALSE, Missing(i)))
    /\ Complete(i, FALSE)
    /\ pending' = pending \ {i}
    /\ at' = IF Stops(i, FALSE) \/ pending = {i} THEN "done" ELSE "stuck"
    /\ UNCHANGED <<frontend, batch, postponed, progress, inflight>>

\* Without progress every job that is left is reported; run-tools also records
\* it as failed, run-batch does not.
ReportUnresolved(i) ==
    /\ at = "stuck" /\ Current(i)
    /\ output' = Append(output, Report(i, "unresolved", FALSE, Missing(i)))
    /\ IF frontend = "run-tools" THEN Complete(i, FALSE) ELSE UNCHANGED completed
    /\ pending' = pending \ {i}
    /\ at' = IF Stops(i, FALSE) \/ pending = {i} THEN "done" ELSE "stuck"
    /\ UNCHANGED <<frontend, batch, postponed, progress, inflight>>

-----------------------------------------------------------------------------
(* buffer_unordered: calls begin in order, end in any order, and those in  *)
(* flight are dropped when a failure ends the batch.                       *)

\* Mutant of StartCall: one call too many.
StartCallOneMore(i) ==
    /\ at = "stream" /\ Current(i) /\ Cardinality(inflight) <= Workers
    /\ inflight' = inflight \cup {i}
    /\ pending' = pending \ {i}
    /\ UNCHANGED <<frontend, batch, at, progress, postponed, completed, output>>

StartCall(i) ==
    /\ at = "stream" /\ Current(i) /\ Cardinality(inflight) < Workers
    /\ inflight' = inflight \cup {i}
    /\ pending' = pending \ {i}
    /\ UNCHANGED <<frontend, batch, at, progress, postponed, completed, output>>

CallReturns(i, ok) ==
    /\ at = "stream" /\ i \in inflight
    /\ output' = Append(output, Report(i, "ran", ok, {}))
    /\ IF Stops(i, ok) THEN at' = "done" /\ inflight' = {}
       ELSE at' = at /\ inflight' = inflight \ {i}
    /\ UNCHANGED <<frontend, batch, pending, progress, postponed, completed>>

EndStream ==
    /\ at = "stream" /\ pending = {} /\ inflight = {}
    /\ at' = "done"
    /\ UNCHANGED <<frontend, batch, pending, progress, postponed, completed, inflight, output>>

Finished == at = "done" /\ UNCHANGED vars

-----------------------------------------------------------------------------
Loop == \/ \E i \in DOMAIN batch : SkipJob(i) \/ PostponeJob(i) \/ CallTool(i)
                                   \/ ReportUnresolved(i)
        \/ \E ok \in BOOLEAN : ToolReturns(ok)
        \/ EndPass
Stream == \/ \E i \in DOMAIN batch : StartCall(i)
          \/ EndStream
          \/ \E i \in DOMAIN batch, ok \in BOOLEAN : CallReturns(i, ok)

Next == Loop \/ Stream \/ Finished

\* The loop is one task that is polled until it ends; a tool call returns (a job
\* with timeout_ms does in any case).
Fairness == WF_vars(Loop) /\ WF_vars(Stream)
Spec == Init /\ [][Next]_vars /\ Fairness

-----------------------------------------------------------------------------
(* What a batch promises.                                                  *)

\* What was last reported, before place k of the output, of a job with id d.
ReportsOf(d, k) == {j \in 1 .. k - 1 : batch[output[j].job].id = d /\ output[j].kind # "parse"}
LastReport(d, k) == output[CHOOSE j \in ReportsOf(d, k) : \A l \in ReportsOf(d, k) : l <= j]

\* A job runs only after each job it depends on was reported successful, and is
\* skipped only after the one it blames was reported failed, the latest report of
\* an id counting where an id was used twice (batch.rs:195-222).
OutcomesDecide ==
    \A k \in DOMAIN output :
        LET e == output[k]
        IN  /\ e.kind = "ran" => \A d \in Deps(e.job) :
                  ReportsOf(d, k) # {} /\ LastReport(d, k).ok
            /\ e.kind = "skipped" => \A d \in e.names :
                  ReportsOf(d, k) # {} /\ ~ LastReport(d, k).ok

\* Every line is reported exactly once, unless a job whose failure ends the batch
\* failed; then its report is the last.
ReportedOnce ==
    LET of(i) == {k \in DOMAIN output : output[k].job = i}
        stopping == {k \in DOMAIN output : output[k].kind # "parse"
                        /\ ~ output[k].ok /\ ~ batch[output[k].job].continue}
    IN  /\ \A i \in DOMAIN batch : Cardinality(of(i)) <= 1
        /\ stopping \subseteq {Len(output)}
        /\ at = "done" /\ stopping = {} => \A i \in DOMAIN batch : of(i) # {}

\* An unresolved envelope of run-batch names what the job misses.
RunBatchNamesMissing ==
    frontend = "run-batch" =>
        \A k \in DOMAIN output : output[k].kind = "unresolved" => output[k].names # {}

\* The output accounts for every line, and run-batch says what an unresolved job misses.
EveryLineReported ==
    /\ ReportedOnce
    /\ RunBatchNamesMissing

\* A job is given up as unresolved only when it could never run: something it
\* depends on is reported by no job that ran or was skipped.
UnresolvedNeverReady ==
    \A k \in DOMAIN output : output[k].kind = "unresolved" =>
        \E d \in Deps(output[k].job) :
            \A j \in ReportsOf(d, Len(output) + 1) : output[j].kind = "unresolved"

\* Whether a job runs, is skipped or is given up is decided by what it depends on.
DependenciesDecide ==
    /\ OutcomesDecide
    /\ UnresolvedNeverReady

\* Every batch comes to an end, cyclic and dangling dependencies included.
Terminates == <>(at = "done")

=============================================================================
