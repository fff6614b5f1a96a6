--------------------------- MODULE BatchJobs_proofs ---------------------------
(***************************************************************************)
(* BatchJobs: for any ids, any number of lines and of workers, a job runs, *)
(* is skipped or is given up as what it depends on decides, and the output *)
(* accounts for every line once.                                           *)
(*                                                                         *)
(* ToolCalls: for any files, agents, calls and writes that are cut short,  *)
(* what the manifest calls available answers, what a reply says to call    *)
(* can be called, little of the log is lost, and a search suggests nothing *)
(* that was called lately.                                                 *)
(***************************************************************************)
EXTENDS MCBatchJobs, FiniteSetTheorems, SequenceTheorems, WellFoundedInduction, TLAPS

-----------------------------------------------------------------------------
(* The reports of an id in an output, and what the last of them says.      *)

\* The places before k where a job with id d was reported: ReportsOf, of any output.
Places(out, b, d, k) == {j \in 1 .. k - 1 : b[out[j].job].id = d /\ out[j].kind # "parse"}
Says(out, b, d, k, ok) ==
    \E j \in Places(out, b, d, k) :
        (\A l \in Places(out, b, d, k) : l <= j) /\ out[j].ok = ok

Now == Len(output) + 1
Held == pending \cup postponed \cup inflight
Reported(i) == \E k \in DOMAIN output : output[k].job = i
\* The report that ends a batch.
Stopping(k) == /\ output[k].kind # "parse" /\ ~ output[k].ok
               /\ ~ batch[output[k].job].continue
Stopped == \E k \in DOMAIN output : Stopping(k)

\* Something the job depends on is reported by no job that ran or was skipped.
Hopeless(i) == \E d \in Deps(i) : \A j \in Places(output, batch, d, Now) :
                   output[j].kind = "unresolved"

-----------------------------------------------------------------------------
(* The inductive invariant.                                                *)

Typed ==
    /\ frontend \in {"run-tools", "run-batch"}
    /\ batch \in Batches
    /\ at \in {"pass", "running", "stuck", "stream", "done"}
    /\ pending \in SUBSET DOMAIN batch /\ postponed \in SUBSET DOMAIN batch
    /\ progress \in BOOLEAN
    /\ completed \in UNION {[S -> BOOLEAN] : S \in SUBSET Id}
    /\ inflight \in SUBSET DOMAIN batch
    /\ IsFiniteSet(inflight) /\ Cardinality(inflight) <= Workers
    /\ output \in Seq(Envelope)

\* Every line is in one place.
PlacesOK ==
    /\ pending \cap postponed = {} /\ inflight \cap (pending \cup postponed) = {}
    /\ \A i \in Held : ~ Reported(i)
    /\ \A k, l \in DOMAIN output : output[k].job = output[l].job => k = l
    /\ \A k \in DOMAIN output : Stopping(k) => k = Len(output) /\ at = "done"
    /\ ~ Stopped => \A i \in DOMAIN batch : i \in Held \/ Reported(i)
    /\ at = "done" /\ ~ Stopped => Held = {}

\* Where the loop is, and what it holds there.
StageOK ==
    /\ at \in {"pass", "stuck"} => inflight = {}
    /\ at = "running" => /\ \A i \in inflight : Failed(i) = {} /\ Ready(i)
                         /\ \A i, j \in inflight : i = j
    /\ at \in {"stuck", "stream"} => postponed = {}
    /\ at = "stream" => \A i \in DOMAIN batch : Deps(i) = {}
    /\ at \in {"pass", "running", "stream"} =>
           \A k \in DOMAIN output : output[k].kind # "unresolved"

\* completed knows the last report of every id, until jobs are given up.
RecordsOK ==
    at \in {"pass", "running"} =>
        /\ \A d \in DOMAIN completed : Says(output, batch, d, Now, completed[d])
        /\ \A d \in Id : Places(output, batch, d, Now) # {} => d \in DOMAIN completed

\* While a pass has made no progress, what it postponed misses something, and so it
\* does when the batch is stuck.
WaitsOK ==
    /\ at \in {"pass", "running"} /\ ~ progress => \A i \in postponed : Missing(i) # {}
    /\ at = "stuck" => \A i \in pending : Hopeless(i)
    /\ at = "stuck" /\ frontend = "run-batch" => \A i \in pending : Missing(i) # {}

\* OutcomesDecide, and what it decided when the report was written.
Decided ==
    \A k \in DOMAIN output :
        /\ output[k].kind = "ran" => \A d \in Deps(output[k].job) :
               Says(output, batch, d, k, TRUE)
        /\ output[k].kind = "skipped" => \A d \in output[k].names :
               Says(output, batch, d, k, FALSE)
GivenUp == \A k \in DOMAIN output : output[k].kind = "unresolved" => Hopeless(output[k].job)

BatchInv ==
    /\ Typed
    /\ PlacesOK
    /\ StageOK
    /\ RecordsOK
    /\ WaitsOK
    /\ Decided
    /\ GivenUp
    /\ RunBatchNamesMissing

-----------------------------------------------------------------------------
(* Outputs that grow.                                                      *)

LEMMA AppendedPlaces ==
    ASSUME NEW out \in Seq(Envelope), NEW e \in Envelope
    PROVE  /\ Append(out, e) \in Seq(Envelope)
           /\ Len(out) \in Nat /\ DOMAIN out = 1 .. Len(out)
           /\ Len(Append(out, e)) = Len(out) + 1
           /\ DOMAIN Append(out, e) = 1 .. Len(out) + 1
           /\ \A k \in 1 .. Len(out) : Append(out, e)[k] = out[k]
           /\ Append(out, e)[Len(out) + 1] = e
  OBVIOUS

\* What was reported before a place stays what was reported before it.
LEMMA SaysKept ==
    ASSUME NEW out \in Seq(Envelope), NEW e \in Envelope, NEW b, NEW d,
           NEW k \in 1 .. Len(out) + 1
    PROVE  /\ Places(Append(out, e), b, d, k) = Places(out, b, d, k)
           /\ Places(out, b, d, k) \subseteq 1 .. Len(out)
           /\ \A ok : Says(out, b, d, k, ok) => Says(Append(out, e), b, d, k, ok)
  <1> DEFINE new == Append(out, e)
  <1>1. /\ Len(out) \in Nat
        /\ \A j \in 1 .. Len(out) : new[j] = out[j]
    BY AppendedPlaces
  <1> HIDE DEF new
  <1>2. Places(out, b, d, k) \subseteq 1 .. Len(out)
    BY <1>1 DEF Places
  <1>3. Places(new, b, d, k) = Places(out, b, d, k)
    BY <1>1 DEF Places
  <1>4. ASSUME NEW ok, Says(out, b, d, k, ok) PROVE Says(new, b, d, k, ok)
    <2>1. PICK j \in Places(out, b, d, k) :
             (\A l \in Places(out, b, d, k) : l <= j) /\ out[j].ok = ok
      BY <1>4 DEF Says
    <2>2. new[j] = out[j]
      BY <2>1, <1>2, <1>1
    <2> QED
      BY <2>1, <2>2, <1>3 DEF Says
  <1> QED
    BY <1>2, <1>3, <1>4 DEF new

\* The new report is the last of its id, and of no other.
LEMMA SaysNew ==
    ASSUME NEW out \in Seq(Envelope), NEW e \in Envelope, NEW b, NEW d
    PROVE  LET new == Append(out, e) IN
           /\ Places(new, b, d, Len(new) + 1) =
                  Places(out, b, d, Len(out) + 1)
                  \cup {k \in {Len(out) + 1} : b[e.job].id = d /\ e.kind # "parse"}
           /\ b[e.job].id = d /\ e.kind # "parse" => Says(new, b, d, Len(new) + 1, e.ok)
           /\ b[e.job].id # d => \A ok : Says(out, b, d, Len(out) + 1, ok) =>
                                         Says(new, b, d, Len(new) + 1, ok)
  <1> DEFINE new == Append(out, e)
             n == Len(out) + 1
  <1>1. /\ Len(out) \in Nat /\ Len(new) = n
        /\ \A j \in 1 .. Len(out) : new[j] = out[j]
        /\ new[n] = e
    BY AppendedPlaces
  <1>2. n \in Nat /\ n \in 1 .. n /\ 1 .. n = 1 .. Len(out) \cup {n} /\ n \notin 1 .. Len(out)
    BY <1>1
  <1>3. n + 1 - 1 = n /\ n - 1 = Len(out) /\ Len(new) + 1 - 1 = n
    BY <1>1
  <1>4. \A ok : Says(out, b, d, n, ok) => Says(new, b, d, n, ok)
    BY SaysKept, <1>2 DEF n, new
  <1>5. Places(new, b, d, n) = Places(out, b, d, n)
    BY SaysKept, <1>2 DEF n, new
  <1> HIDE DEF new, n
  <1>6. Places(new, b, d, Len(new) + 1) =
            Places(out, b, d, n) \cup {k \in {n} : b[e.job].id = d /\ e.kind # "parse"}
    BY <1>1, <1>2, <1>3 DEF Places
  <1>7. ASSUME b[e.job].id = d, e.kind # "parse" PROVE Says(new, b, d, Len(new) + 1, e.ok)
    <2>1. n \in Places(new, b, d, Len(new) + 1)
      BY <1>6, <1>7
    <2>2. \A l \in Places(new, b, d, Len(new) + 1) : l <= n
      BY <1>1, <1>2, <1>3 DEF Places
    <2> QED
      BY <2>1, <2>2, <1>1 DEF Says
  <1>8. ASSUME b[e.job].id # d, NEW ok, Says(out, b, d, n, ok)
        PROVE  Says(new, b, d, Len(new) + 1, ok)
    <2>1. Places(new, b, d, Len(new) + 1) = Places(new, b, d, n)
      BY <1>5, <1>6, <1>8
    <2>2. Says(new, b, d, n, ok)
      BY <1>4, <1>8
    <2> QED
      BY <2>1, <2>2 DEF Says
  <1> QED
    BY <1>6, <1>7, <1>8 DEF new, n

-----------------------------------------------------------------------------
(* Lines and jobs.                                                         *)

LEMMA BatchLines ==
    ASSUME batch \in Batches
    PROVE  /\ DOMAIN batch \subseteq 1 .. MaxJobs
           /\ IsFiniteSet(DOMAIN batch)
           /\ \A i \in DOMAIN batch : /\ batch[i].id \in Id \cup {NoId}
                                      /\ Deps(i) \in SUBSET Id
                                      /\ batch[i].continue \in BOOLEAN
                                      /\ batch[i].parses \in BOOLEAN
  <1>1. PICK n \in 1 .. MaxJobs : batch \in [1 .. n -> Job \cup {BadLine}]
    BY DEF Batches
  <1>2. \A job \in Job \cup {BadLine} :
            /\ job.id \in Id \cup {NoId} /\ job.depends_on \in SUBSET Id
            /\ job.continue \in BOOLEAN /\ job.parses \in BOOLEAN
    <2>1. /\ BadLine.id = NoId /\ BadLine.depends_on = {}
          /\ BadLine.continue = TRUE /\ BadLine.parses = FALSE
      BY DEF BadLine
    <2>2. \A job \in Job : /\ job.id \in Id \cup {NoId} /\ job.depends_on \in SUBSET Id
                           /\ job.continue \in BOOLEAN /\ job.parses \in {TRUE}
      BY DEF Job
    <2> QED
      BY <2>1, <2>2
  <1>3. \A i \in DOMAIN batch : batch[i] \in Job \cup {BadLine}
    BY <1>1
  <1>4. DOMAIN batch = 1 .. n /\ n \in Nat /\ n <= MaxJobs /\ MaxJobs \in Nat
    BY <1>1, WorkersAssumption
  <1>5. IsFiniteSet(1 .. n)
    BY <1>4, FS_Interval
  <1> QED
    BY <1>2, <1>3, <1>4, <1>5 DEF Deps

LEMMA ReportIsEnvelope ==
    ASSUME batch \in Batches, NEW i \in DOMAIN batch, NEW kind \in Kind, NEW ok \in BOOLEAN,
           NEW names \in SUBSET Id
    PROVE  /\ Report(i, kind, ok, names) \in Envelope
           /\ Report(i, kind, ok, names).job = i /\ Report(i, kind, ok, names).kind = kind
           /\ Report(i, kind, ok, names).ok = ok /\ Report(i, kind, ok, names).names = names
  BY BatchLines DEF Report, Envelope

-----------------------------------------------------------------------------
(* A step that reports the line i and lets go of it.                       *)

\* What the last reports said, they say still, unless i has their id; and what the
\* new report rests on was said before it.
Writes(i, kind, ok, names) ==
    /\ at # "done" /\ i \in Held /\ kind \in {"ran", "skipped", "unresolved"}
    /\ output' = Append(output, Report(i, kind, ok, names))
    /\ UNCHANGED <<frontend, batch>>
    /\ kind = "ran" => \A d \in Deps(i) : Says(output, batch, d, Now, TRUE)
    /\ kind = "skipped" => \A d \in names : Says(output, batch, d, Now, FALSE)
LetsGo(i, ok) ==
    /\ pending' \subseteq pending /\ postponed' \subseteq postponed /\ inflight' \subseteq inflight
    /\ i \notin Held'
    /\ Stops(i, ok) => at' = "done"
    /\ ~ Stops(i, ok) => Held \ {i} \subseteq Held' /\ (at' = "done" => Held' = {})

\* The output is longer by this report.
Grown(i, kind, ok, names) ==
    /\ output \in Seq(Envelope) /\ output' \in Seq(Envelope)
    /\ Len(output) \in Nat /\ DOMAIN output = 1 .. Len(output)
    /\ Len(output') = Now
    /\ DOMAIN output' = DOMAIN output \cup {Now} /\ Now \notin DOMAIN output
    /\ \A k \in DOMAIN output : output'[k] = output[k] /\ k \in 1 .. Now
    /\ /\ output'[Now].job = i /\ output'[Now].kind = kind
       /\ output'[Now].ok = ok /\ output'[Now].names = names
    /\ Report(i, kind, ok, names) \in Envelope
    /\ output' = Append(output, Report(i, kind, ok, names))
    /\ frontend' = frontend /\ batch' = batch

LEMMA WrittenOutput ==
    ASSUME Typed, NEW i \in DOMAIN batch, NEW kind, NEW ok \in BOOLEAN, NEW names \in SUBSET Id,
           Writes(i, kind, ok, names)
    PROVE  Grown(i, kind, ok, names)
  <1>1. kind \in Kind /\ output \in Seq(Envelope) /\ batch \in Batches
    BY DEF Writes, Typed, Kind
  <1>2. Report(i, kind, ok, names) \in Envelope
    BY <1>1, ReportIsEnvelope
  <1> QED
    BY <1>1, <1>2, ReportIsEnvelope, AppendedPlaces DEF Writes, Now, Grown

LEMMA WrittenPlaces ==
    ASSUME Typed, PlacesOK, NEW i \in DOMAIN batch, NEW kind, NEW ok \in BOOLEAN,
           NEW names \in SUBSET Id, Writes(i, kind, ok, names), LetsGo(i, ok)
    PROVE  PlacesOK'
  <1>w. Grown(i, kind, ok, names)
    BY WrittenOutput
  <1> USE <1>w DEF Grown
  <1>0. /\ Held' \subseteq Held \ {i}
        /\ \A h : Reported(h)' <=> Reported(h) \/ h = i
    BY DEF LetsGo, Held, Reported
  <1>1. /\ (pending \cap postponed)' = {}
        /\ (inflight \cap (pending \cup postponed))' = {}
    BY DEF LetsGo, PlacesOK
  <1>2. \A h \in Held' : ~ Reported(h)'
    BY <1>0 DEF PlacesOK
  <1>3. ~ Reported(i)
    BY DEF PlacesOK, Writes
  <1>4. \A k, l \in DOMAIN output' : output'[k].job = output'[l].job => k = l
    BY <1>3 DEF PlacesOK, Reported
  <1>5. \A k \in DOMAIN output : ~ Stopping(k) /\ ~ Stopping(k)'
    BY DEF PlacesOK, Writes, Stopping
  <1>6. Stopped' <=> Stops(i, ok)
    BY <1>5 DEF Stopped, Stopping, Stops, Writes
  <1>7. \A k \in DOMAIN output' : Stopping(k)' => k = Len(output') /\ at' = "done"
    BY <1>5, <1>6 DEF Stopped, LetsGo
  <1>8. ~ Stopped
    BY <1>5 DEF Stopped
  <1>9. ~ Stopped' => \A h \in DOMAIN batch' : h \in Held' \/ Reported(h)'
    BY <1>0, <1>6, <1>8 DEF LetsGo, PlacesOK
  <1>10. at' = "done" /\ ~ Stopped' => Held' = {}
    BY <1>6 DEF LetsGo
  <1> QED
    BY <1>1, <1>2, <1>4, <1>7, <1>9, <1>10 DEF PlacesOK

LEMMA WrittenDecided ==
    ASSUME Typed, Decided, NEW i \in DOMAIN batch, NEW kind, NEW ok \in BOOLEAN,
           NEW names \in SUBSET Id, Writes(i, kind, ok, names)
    PROVE  Decided'
  <1> DEFINE e == Report(i, kind, ok, names)
  <1>w. Grown(i, kind, ok, names)
    BY WrittenOutput
  <1> USE <1>w DEF Grown
  <1>1. ASSUME NEW d, NEW said, NEW k \in 1 .. Now, Says(output, batch, d, k, said)
        PROVE  Says(output', batch', d, k, said)
    <2>1. Says(Append(output, e), batch, d, k, said)
      BY SaysKept, <1>1 DEF Now
    <2> QED
      BY <2>1
  <1>2. ASSUME NEW k \in DOMAIN output
        PROVE  /\ output'[k].kind = "ran" => \A d \in batch'[output'[k].job].depends_on :
                      Says(output', batch', d, k, TRUE)
               /\ output'[k].kind = "skipped" => \A d \in output'[k].names :
                      Says(output', batch', d, k, FALSE)
    BY <1>1, <1>2 DEF Decided, Deps
  <1>3. /\ kind = "ran" => \A d \in batch'[i].depends_on : Says(output', batch', d, Now, TRUE)
        /\ kind = "skipped" => \A d \in names : Says(output', batch', d, Now, FALSE)
    <2>1. Now \in 1 .. Now
      BY DEF Now
    <2> QED
      BY <2>1, <1>1 DEF Writes, Deps
  <1> QED
    BY <1>2, <1>3 DEF Decided, Deps

\* An id keeps its last report unless i has it, and has one unless no job with it had.
LEMMA WrittenRecords ==
    ASSUME Typed, NEW i \in DOMAIN batch, NEW kind, NEW ok \in BOOLEAN, NEW names \in SUBSET Id,
           Writes(i, kind, ok, names)
    PROVE  /\ \A d : d # batch[i].id =>
                  /\ Places(output', batch', d, Len(output') + 1) = Places(output, batch, d, Now)
                  /\ \A said : Says(output, batch, d, Now, said) =>
                               Says(output', batch', d, Len(output') + 1, said)
           /\ Says(output', batch', batch[i].id, Len(output') + 1, ok)
           /\ \A d : Places(output', batch', d, Len(output') + 1)
                     \subseteq Places(output, batch, d, Now) \cup {Now}
  <1>w. Grown(i, kind, ok, names)
    BY WrittenOutput
  <1> USE <1>w DEF Grown
  <1>1. /\ Report(i, kind, ok, names).job = i
        /\ Report(i, kind, ok, names).kind # "parse"
        /\ Report(i, kind, ok, names).ok = ok
    BY ReportIsEnvelope DEF Typed, Writes
  <1> DEFINE e == Report(i, kind, ok, names)
  <1>2. batch[e.job].id = batch[i].id /\ e.kind # "parse" /\ e.ok = ok
    BY <1>1
  <1>3. e \in Envelope /\ output' = Append(output, e) /\ batch' = batch
    OBVIOUS
  <1> HIDE DEF e
  <1>4. ASSUME NEW d
        PROVE  /\ Places(output', batch', d, Len(output') + 1) =
                      Places(output, batch, d, Now)
                      \cup {k \in {Now} : batch[e.job].id = d /\ e.kind # "parse"}
               /\ batch[e.job].id = d /\ e.kind # "parse" =>
                      Says(output', batch', d, Len(output') + 1, e.ok)
               /\ batch[e.job].id # d => \A said : Says(output, batch, d, Now, said) =>
                      Says(output', batch', d, Len(output') + 1, said)
    <2> DEFINE n == Len(output) + 1
               m == Len(Append(output, e)) + 1
    <2>1. /\ Places(Append(output, e), batch, d, m) =
                 Places(output, batch, d, n)
                 \cup {k \in {n} : batch[e.job].id = d /\ e.kind # "parse"}
          /\ batch[e.job].id = d /\ e.kind # "parse" => Says(Append(output, e), batch, d, m, e.ok)
          /\ batch[e.job].id # d => \A said : Says(output, batch, d, n, said) =>
                                           Says(Append(output, e), batch, d, m, said)
      BY <1>3, SaysNew
    <2>2. n = Now /\ m = Len(output') + 1
      BY <1>3 DEF Now
    <2> HIDE DEF n, m
    <2>3. /\ Places(output', batch', d, m) =
                 Places(output, batch, d, n)
                 \cup {k \in {n} : batch[e.job].id = d /\ e.kind # "parse"}
          /\ batch[e.job].id = d /\ e.kind # "parse" => Says(output', batch', d, m, e.ok)
          /\ batch[e.job].id # d => \A said : Says(output, batch, d, n, said) =>
                                           Says(output', batch', d, m, said)
      BY <2>1, <1>3, Zenon
    <2> QED
      BY <2>2, <2>3
  <1> HIDE <1>w
  <1>5. ASSUME NEW d, d # batch[i].id
        PROVE  /\ Places(output', batch', d, Len(output') + 1) = Places(output, batch, d, Now)
               /\ \A said : Says(output, batch, d, Now, said) =>
                            Says(output', batch', d, Len(output') + 1, said)
    BY <1>2, <1>4, <1>5
  <1>6. Says(output', batch', batch[i].id, Len(output') + 1, ok)
    BY <1>2, <1>4
  <1>7. ASSUME NEW d
        PROVE  Places(output', batch', d, Len(output') + 1)
                   \subseteq Places(output, batch, d, Now) \cup {Now}
    BY <1>4
  <1> QED
    BY <1>5, <1>6, <1>7
\* No job was given up so far, and none is in this step.
LEMMA WrittenNotGivenUp ==
    ASSUME Typed, StageOK, at \in {"pass", "running", "stream"}, NEW i \in DOMAIN batch,
           NEW kind, kind # "unresolved", NEW ok \in BOOLEAN, NEW names \in SUBSET Id,
           Writes(i, kind, ok, names)
    PROVE  /\ GivenUp' /\ RunBatchNamesMissing'
           /\ \A k \in DOMAIN output' : output'[k].kind # "unresolved"
  <1>w. Grown(i, kind, ok, names)
    BY WrittenOutput
  <1>1. \A k \in DOMAIN output' : output'[k].kind # "unresolved"
    BY <1>w DEF Grown, StageOK
  <1> QED
    BY <1>1 DEF GivenUp, RunBatchNamesMissing

LEMMA CompletedJob ==
    ASSUME Typed, NEW i \in DOMAIN batch, NEW ok \in BOOLEAN, Complete(i, ok)
    PROVE  /\ completed' \in UNION {[S -> BOOLEAN] : S \in SUBSET Id}
           /\ DOMAIN completed \in SUBSET Id
           /\ DOMAIN completed' = DOMAIN completed \cup ({batch[i].id} \ {NoId})
           /\ \A d \in DOMAIN completed' :
                  completed'[d] = IF d = batch[i].id THEN ok ELSE completed[d]
  <1> DEFINE D == DOMAIN completed \cup ({batch[i].id} \ {NoId})
  <1>1. PICK S \in SUBSET Id : completed \in [S -> BOOLEAN]
    BY DEF Typed
  <1>2. D \in SUBSET Id /\ \A d \in D : d # batch[i].id => completed[d] \in BOOLEAN
    BY <1>1, BatchLines DEF Typed
  <1>3. completed' = [d \in D |-> IF d = batch[i].id THEN ok ELSE completed[d]]
    BY DEF Complete
  <1> HIDE DEF D
  <1>4. completed' \in [D -> BOOLEAN]
    BY <1>2, <1>3
  <1>5. completed' \in UNION {[T -> BOOLEAN] : T \in SUBSET Id}
    BY <1>2, <1>4
  <1>6. DOMAIN completed' = D /\ DOMAIN completed \in SUBSET Id
    BY <1>1, <1>3
  <1>7. \A d \in DOMAIN completed' : completed'[d] = IF d = batch[i].id THEN ok ELSE completed[d]
    BY <1>3, <1>6
  <1> QED
    BY <1>5, <1>6, <1>7 DEF D

LEMMA WrittenAndRecorded ==
    ASSUME Typed, RecordsOK, at \in {"pass", "running"}, NEW i \in DOMAIN batch, NEW kind,
           NEW ok \in BOOLEAN, NEW names \in SUBSET Id,
           Writes(i, kind, ok, names), Complete(i, ok)
    PROVE  RecordsOK'
  <1>w. Grown(i, kind, ok, names)
    BY WrittenOutput
  <1>b. batch' = batch /\ Now' = Len(output') + 1
    BY <1>w DEF Grown, Now
  <1> DEFINE id == batch[i].id
             places(d) == Places(output', batch', d, Now')
  <1>c. /\ DOMAIN completed' = DOMAIN completed \cup ({id} \ {NoId})
        /\ \A d \in DOMAIN completed' : completed'[d] = IF d = id THEN ok ELSE completed[d]
    BY CompletedJob
  <1>1. ASSUME NEW d \in DOMAIN completed'
        PROVE  Says(output', batch', d, Now', completed'[d])
    <2>1. CASE d = id
      BY <2>1, <1>b, <1>c, WrittenRecords
    <2>2. CASE d # id
      <3>1. d \in DOMAIN completed /\ completed'[d] = completed[d]
        BY <2>2, <1>c
      <3>2. Says(output, batch, d, Now, completed[d])
        BY <3>1 DEF RecordsOK
      <3>3. Says(output', batch', d, Len(output') + 1, completed[d])
        BY <3>2, <2>2, WrittenRecords
      <3> QED
        BY <3>1, <3>3, <1>b
    <2> QED
      BY <2>1, <2>2
  <1>2. ASSUME NEW d \in Id, places(d) # {}
        PROVE  d \in DOMAIN completed'
    <2>1. CASE d = id
      BY <2>1, <1>c, NoIdAssumption
    <2>2. CASE d # id
      <3>1. Places(output, batch, d, Now) # {}
        BY <2>2, <1>2, <1>b, WrittenRecords
      <3> QED
        BY <3>1, <1>c DEF RecordsOK
    <2> QED
      BY <2>1, <2>2
  <1> QED
    BY <1>1, <1>2 DEF RecordsOK

-----------------------------------------------------------------------------
(* A step that reports nothing and lets go of no line.                     *)

LEMMA Unreported ==
    ASSUME BatchInv, UNCHANGED <<batch, frontend, output>>, Held' = Held, at # "done",
           at' = "done" => Held = {},
           (pending \cap postponed)' = {}, (inflight \cap (pending \cup postponed))' = {}
    PROVE  PlacesOK' /\ Decided' /\ GivenUp' /\ RunBatchNamesMissing'
  <1>1. /\ \A k : Stopping(k)' <=> Stopping(k)
        /\ \A i : Reported(i)' <=> Reported(i)
        /\ \A i : Hopeless(i)' <=> Hopeless(i)
    BY DEF Stopping, Reported, Hopeless, Deps, Now
  <1>2. Stopped' <=> Stopped
    BY <1>1 DEF Stopped
  <1>3. PlacesOK'
    BY <1>1, <1>2 DEF BatchInv, PlacesOK
  <1>4. Decided'
    BY DEF BatchInv, Decided, Deps
  <1>5. GivenUp'
    BY <1>1 DEF BatchInv, GivenUp
  <1>6. RunBatchNamesMissing'
    BY DEF BatchInv, RunBatchNamesMissing
  <1> QED
    BY <1>3, <1>4, <1>5, <1>6

-----------------------------------------------------------------------------
(* The initial states.                                                     *)

LEMMA BatchInit ==
    ASSUME Init
    PROVE  BatchInv
  <1>1. PICK s \in Listings(LinesThat(batch, FALSE)) :
           output = [k \in DOMAIN s |-> Report(s[k], "parse", FALSE, {})]
    BY DEF Init
  <1>2. PICK n \in 0 .. MaxJobs : s \in [1 .. n -> LinesThat(batch, FALSE)]
    BY <1>1 DEF Listings
  <1>3. /\ batch \in Batches
        /\ pending = LinesThat(batch, TRUE) /\ postponed = {} /\ inflight = {}
        /\ completed = <<>> /\ progress = FALSE
        /\ at = IF Concurrent(batch) THEN "stream" ELSE "pass"
        /\ frontend \in {"run-tools", "run-batch"}
    BY DEF Init
  <1>4. n \in Nat /\ DOMAIN s = 1 .. n
    BY <1>2, WorkersAssumption
  <1>5. \A k \in 1 .. n : s[k] \in DOMAIN batch /\ batch[s[k]].parses = FALSE
    BY <1>2 DEF LinesThat
  <1>6. \A k \in 1 .. n : /\ output[k] = Report(s[k], "parse", FALSE, {})
                          /\ output[k] \in Envelope
                          /\ output[k].job = s[k] /\ output[k].kind = "parse"
    <2>1. \A k \in 1 .. n : output[k] = Report(s[k], "parse", FALSE, {})
      BY <1>1, <1>4
    <2>2. ASSUME NEW i \in DOMAIN batch
          PROVE  /\ Report(i, "parse", FALSE, {}) \in Envelope
                 /\ Report(i, "parse", FALSE, {}).job = i
                 /\ Report(i, "parse", FALSE, {}).kind = "parse"
      <3>1. i \in 1 .. MaxJobs
        BY <1>3, BatchLines
      <3> QED
        BY <3>1 DEF Report, Envelope, Kind
    <2> QED
      BY <2>1, <2>2, <1>5, <1>1
  <1>7. output \in Seq(Envelope) /\ DOMAIN output = 1 .. n
    <2>1. output = [k \in 1 .. n |-> Report(s[k], "parse", FALSE, {})]
      BY <1>1, <1>4
    <2>2. output \in [1 .. n -> Envelope]
      BY <2>1, <1>6
    <2>3. \A k \in DOMAIN output : output[k].job = s[k] /\ output[k].kind = "parse"
      BY <2>2, <1>6
    <2> QED
      BY <2>2, <2>3, <1>4
  <1>a. DOMAIN output = 1 .. n
    BY <1>7
  <1>b. \A k \in DOMAIN output : output[k].job = s[k] /\ output[k].kind = "parse"
    BY <1>a, <1>6
  <1>8. Typed
    <2>1. completed \in [{} -> BOOLEAN]
      BY <1>3
    <2>2. IsFiniteSet(inflight) /\ Cardinality(inflight) <= Workers
      BY <1>3, FS_EmptySet, WorkersAssumption
    <2>3. completed \in UNION {[S -> BOOLEAN] : S \in SUBSET Id}
      BY <2>1
    <2>4. pending \in SUBSET DOMAIN batch
      BY <1>3 DEF LinesThat
    <2> QED
      BY <1>3, <1>7, <2>2, <2>3, <2>4 DEF Typed
  <1>9. \A d : Places(output, batch, d, Now) = {}
    <2>1. 1 .. Now - 1 = DOMAIN output
      BY <1>4, <1>7 DEF Now
    <2> QED
      BY <2>1, <1>b DEF Places
  <1>10. PlacesOK
    <2>1. \A i \in DOMAIN batch : batch[i].parses \in BOOLEAN
      BY <1>3, BatchLines
    <2>2. \A i \in Held : ~ Reported(i)
      <3>1. \A i \in Held : batch[i].parses = TRUE
        BY <1>3 DEF Held, LinesThat
      <3>2. \A i : Reported(i) => batch[i].parses = FALSE
        BY <1>5, <1>a, <1>b DEF Reported
      <3> QED
        BY <3>1, <3>2
    <2>3. \A k, l \in DOMAIN output : output[k].job = output[l].job => k = l
      <3>1. \A k, l \in 1 .. n : k < l => s[k] < s[l]
        BY <1>1, <1>4 DEF Listings
      <3>2. \A k \in 1 .. n : s[k] \in Nat
        BY <1>3, <1>5, BatchLines
      <3>3. \A k, l \in 1 .. n : s[k] = s[l] => k = l
        BY <3>1, <3>2, <1>4
      <3> QED
        BY <3>3, <1>a, <1>b
    <2>4. \A k \in DOMAIN output : ~ Stopping(k)
      BY <1>6, <1>7 DEF Stopping
    <2>5. \A i \in DOMAIN batch : i \in Held \/ Reported(i)
      <3>1. \A i \in LinesThat(batch, FALSE) : \E k \in 1 .. n : s[k] = i
        BY <1>1, <1>4 DEF Listings
      <3> QED
        BY <3>1, <2>1, <1>3, <1>a, <1>b DEF LinesThat, Held, Reported
    <2> QED
      BY <1>3, <2>2, <2>3, <2>4, <2>5 DEF PlacesOK, Stopped
  <1>11. StageOK
    <2>1. at = "stream" => \A i \in DOMAIN batch : Deps(i) = {}
      BY <1>3 DEF Concurrent, Deps
    <2> QED
      BY <1>3, <1>6, <1>7, <2>1 DEF StageOK
  <1>12. RecordsOK
    BY <1>3, <1>9 DEF RecordsOK
  <1>13. WaitsOK
    BY <1>3 DEF WaitsOK
  <1>14. Decided /\ GivenUp /\ RunBatchNamesMissing
    BY <1>6, <1>7 DEF Decided, GivenUp, RunBatchNamesMissing
  <1> QED
    BY <1>8, <1>10, <1>11, <1>12, <1>13, <1>14 DEF BatchInv
-----------------------------------------------------------------------------
(* One pass.                                                               *)

LEMMA SkipJobKeeps ==
    ASSUME BatchInv, NEW i \in DOMAIN batch, SkipJob(i)
    PROVE  BatchInv'
  <1> USE DEF BatchInv
  <1>1. PICK dep \in Failed(i) : output' = Append(output, Report(i, "skipped", FALSE, {dep}))
    BY DEF SkipJob
  <1>2. /\ at = "pass" /\ i \in pending /\ Complete(i, FALSE) /\ progress' = TRUE
        /\ pending' = pending \ {i} /\ postponed' = postponed /\ inflight' = inflight
        /\ at' = IF Stops(i, FALSE) THEN "done" ELSE "pass"
        /\ UNCHANGED <<frontend, batch>>
    BY DEF SkipJob, Current
  <1>3. dep \in Deps(i) /\ dep \in Id /\ dep \in DOMAIN completed /\ ~ completed[dep]
    BY BatchLines DEF Failed, Typed
  <1>4. completed[dep] = FALSE
    <2>1. PICK S \in SUBSET Id : completed \in [S -> BOOLEAN]
      BY DEF Typed
    <2> QED
      BY <2>1, <1>3
  <1>5. Writes(i, "skipped", FALSE, {dep})
    <2>1. Says(output, batch, dep, Now, FALSE)
      BY <1>2, <1>3, <1>4 DEF RecordsOK
    <2> QED
      BY <2>1, <1>1, <1>2 DEF Writes, Held
  <1>6. LetsGo(i, FALSE)
    BY <1>2 DEF LetsGo, Held, PlacesOK
  <1>7. PlacesOK'
    BY <1>3, <1>5, <1>6, WrittenPlaces
  <1>8. Decided'
    BY <1>3, <1>5, WrittenDecided
  <1>9. /\ GivenUp' /\ RunBatchNamesMissing'
        /\ \A k \in DOMAIN output' : output'[k].kind # "unresolved"
    BY <1>2, <1>3, <1>5, WrittenNotGivenUp
  <1>10. RecordsOK'
    BY <1>2, <1>3, <1>5, WrittenAndRecorded
  <1>11. Typed'
    <2>1. output' \in Seq(Envelope)
      BY <1>3, <1>5, WrittenOutput DEF Grown
    <2>2. completed' \in UNION {[S -> BOOLEAN] : S \in SUBSET Id}
      BY <1>2, CompletedJob
    <2> QED
      BY <1>2, <2>1, <2>2 DEF Typed
  <1>12. StageOK'
    BY <1>2, <1>9 DEF StageOK
  <1>13. WaitsOK'
    BY <1>2 DEF WaitsOK
  <1> QED
    BY <1>7, <1>8, <1>9, <1>10, <1>11, <1>12, <1>13

LEMMA PostponeJobKeeps ==
    ASSUME BatchInv, NEW i \in DOMAIN batch, PostponeJob(i)
    PROVE  BatchInv'
  <1> USE DEF BatchInv
  <1>1. /\ at = "pass" /\ i \in pending /\ Missing(i) # {}
        /\ postponed' = postponed \cup {i} /\ pending' = pending \ {i}
        /\ UNCHANGED <<frontend, batch, at, progress, completed, inflight, output>>
    BY DEF PostponeJob, Current, Ready
  <1>2. PlacesOK' /\ Decided' /\ GivenUp' /\ RunBatchNamesMissing'
    <2>1. Held' = Held
      BY <1>1 DEF Held
    <2>2. (pending \cap postponed)' = {} /\ (inflight \cap (pending \cup postponed))' = {}
      BY <1>1 DEF PlacesOK
    <2> QED
      BY <1>1, <2>1, <2>2, Unreported
  <1>3. Typed'
    BY <1>1 DEF Typed
  <1>4. StageOK'
    BY <1>1 DEF StageOK, Failed, Ready, Missing, Deps
  <1>5. RecordsOK'
    BY <1>1 DEF RecordsOK, Now
  <1>6. WaitsOK'
    <2>1. \A j : Missing(j)' = Missing(j)
      BY <1>1 DEF Missing, Deps
    <2> QED
      BY <1>1, <2>1 DEF WaitsOK
  <1> QED
    BY <1>2, <1>3, <1>4, <1>5, <1>6

LEMMA CallToolKeeps ==
    ASSUME BatchInv, NEW i \in DOMAIN batch, CallTool(i)
    PROVE  BatchInv'
  <1> USE DEF BatchInv
  <1>1. /\ at = "pass" /\ i \in pending /\ Failed(i) = {} /\ Ready(i)
        /\ inflight' = {i} /\ pending' = pending \ {i} /\ at' = "running"
        /\ UNCHANGED <<frontend, batch, progress, postponed, completed, output>>
    BY DEF CallTool, Current
  <1>2. inflight = {}
    BY <1>1 DEF StageOK
  <1>3. PlacesOK' /\ Decided' /\ GivenUp' /\ RunBatchNamesMissing'
    <2>1. Held' = Held
      BY <1>1, <1>2 DEF Held
    <2>2. (pending \cap postponed)' = {} /\ (inflight \cap (pending \cup postponed))' = {}
      BY <1>1 DEF PlacesOK
    <2> QED
      BY <1>1, <2>1, <2>2, Unreported
  <1>4. Typed'
    <2>1. IsFiniteSet({i}) /\ Cardinality({i}) = 1
      BY FS_Singleton
    <2> QED
      BY <1>1, <2>1, WorkersAssumption DEF Typed
  <1>5. StageOK'
    BY <1>1 DEF StageOK, Failed, Ready, Missing, Deps
  <1>6. RecordsOK'
    BY <1>1 DEF RecordsOK, Now
  <1>7. WaitsOK'
    <2>1. \A j : Missing(j)' = Missing(j)
      BY <1>1 DEF Missing, Deps
    <2> QED
      BY <1>1, <2>1 DEF WaitsOK
  <1> QED
    BY <1>3, <1>4, <1>5, <1>6, <1>7

LEMMA ToolReturnsKeeps ==
    ASSUME BatchInv, NEW ok \in BOOLEAN, ToolReturns(ok)
    PROVE  BatchInv'
  <1> USE DEF BatchInv
  <1>1. PICK i \in inflight : /\ output' = Append(output, Report(i, "ran", ok, {}))
                              /\ Complete(i, ok)
                              /\ at' = IF Stops(i, ok) THEN "done" ELSE "pass"
    BY DEF ToolReturns
  <1>2. /\ at = "running" /\ i \in DOMAIN batch /\ progress' = TRUE
        /\ inflight' = {} /\ pending' = pending /\ postponed' = postponed
        /\ UNCHANGED <<frontend, batch>>
    BY DEF ToolReturns, Typed
  <1>3. Failed(i) = {} /\ Ready(i) /\ inflight = {i}
    BY <1>2 DEF StageOK
  <1>4. {} \in SUBSET Id
    OBVIOUS
  <1>5. Writes(i, "ran", ok, {})
    <2>1. ASSUME NEW d \in Deps(i)
          PROVE  Says(output, batch, d, Now, TRUE)
      <3>1. d \in DOMAIN completed /\ completed[d]
        BY <1>3 DEF Ready, Missing, Failed
      <3>2. PICK S \in SUBSET Id : completed \in [S -> BOOLEAN]
        BY DEF Typed
      <3>3. completed[d] = TRUE
        BY <3>1, <3>2
      <3> QED
        BY <1>2, <3>1, <3>3 DEF RecordsOK
    <2> QED
      BY <2>1, <1>1, <1>2 DEF Writes, Held
  <1>6. LetsGo(i, ok)
    BY <1>1, <1>2, <1>3 DEF LetsGo, Held, PlacesOK
  <1>7. PlacesOK'
    BY <1>2, <1>4, <1>5, <1>6, WrittenPlaces
  <1>8. Decided'
    BY <1>2, <1>4, <1>5, WrittenDecided
  <1>9. /\ GivenUp' /\ RunBatchNamesMissing'
        /\ \A k \in DOMAIN output' : output'[k].kind # "unresolved"
    BY <1>2, <1>4, <1>5, WrittenNotGivenUp
  <1>10. RecordsOK'
    BY <1>1, <1>2, <1>4, <1>5, WrittenAndRecorded
  <1>11. Typed'
    <2>1. output' \in Seq(Envelope)
      BY <1>2, <1>4, <1>5, WrittenOutput DEF Grown
    <2>2. completed' \in UNION {[S -> BOOLEAN] : S \in SUBSET Id}
      BY <1>1, <1>2, CompletedJob
    <2>3. IsFiniteSet(inflight') /\ Cardinality(inflight') <= Workers
      BY <1>2, FS_EmptySet, WorkersAssumption
    <2> QED
      BY <1>1, <1>2, <2>1, <2>2, <2>3 DEF Typed
  <1>12. StageOK'
    BY <1>1, <1>2, <1>9 DEF StageOK
  <1>13. WaitsOK'
    BY <1>1, <1>2 DEF WaitsOK
  <1> QED
    BY <1>7, <1>8, <1>9, <1>10, <1>11, <1>12, <1>13

\* After a pass without progress nothing was reported of what the postponed jobs miss.
LEMMA EndPassKeeps ==
    ASSUME BatchInv, EndPass
    PROVE  BatchInv'
  <1> USE DEF BatchInv
  <1>1. /\ at = "pass" /\ pending = {} /\ inflight = {}
        /\ at' = IF postponed = {} THEN "done" ELSE IF progress THEN "pass" ELSE "stuck"
        /\ pending' = postponed /\ postponed' = {} /\ progress' = FALSE
        /\ UNCHANGED <<frontend, batch, completed, inflight, output>>
    BY DEF EndPass, StageOK
  <1>2. PlacesOK' /\ Decided' /\ GivenUp' /\ RunBatchNamesMissing'
    <2>1. Held' = Held /\ (at' = "done" => Held = {})
      BY <1>1 DEF Held
    <2>2. (pending \cap postponed)' = {} /\ (inflight \cap (pending \cup postponed))' = {}
      BY <1>1
    <2> QED
      BY <1>1, <2>1, <2>2, Unreported
  <1>3. Typed'
    BY <1>1 DEF Typed
  <1>4. StageOK'
    BY <1>1 DEF StageOK
  <1>5. RecordsOK'
    BY <1>1 DEF RecordsOK, Now
  <1>6. WaitsOK'
    <2>1. \A j : Missing(j)' = Missing(j)
      BY <1>1 DEF Missing, Deps
    <2>2. ASSUME at' = "stuck", NEW j \in postponed
          PROVE  Missing(j) # {} /\ Hopeless(j)'
      <3>1. PICK d \in Deps(j) : d \notin DOMAIN completed
        BY <2>2, <1>1 DEF WaitsOK, Missing
      <3>2. d \in Id
        BY <3>1, BatchLines DEF Typed
      <3>3. Places(output, batch, d, Now) = {}
        BY <3>1, <3>2, <1>1 DEF RecordsOK
      <3>4. Hopeless(j)
        BY <3>1, <3>3 DEF Hopeless
      <3>5. Hopeless(j)'
        BY <3>4, <1>1 DEF Hopeless, Deps, Now
      <3> QED
        BY <3>1, <3>5 DEF Missing
    <2> QED
      BY <1>1, <2>1, <2>2 DEF WaitsOK
  <1> QED
    BY <1>2, <1>3, <1>4, <1>5, <1>6
\* What a stuck job misses nobody reports any more, but as unresolved.
LEMMA ReportUnresolvedKeeps ==
    ASSUME BatchInv, NEW i \in DOMAIN batch, ReportUnresolved(i)
    PROVE  BatchInv'
  <1> USE DEF BatchInv
  <1> DEFINE names == Missing(i)
  <1>1. /\ at = "stuck" /\ i \in pending /\ inflight = {} /\ postponed = {}
        /\ output' = Append(output, Report(i, "unresolved", FALSE, names))
        /\ IF frontend = "run-tools" THEN Complete(i, FALSE) ELSE UNCHANGED completed
        /\ pending' = pending \ {i} /\ postponed' = postponed /\ inflight' = inflight
        /\ at' = IF Stops(i, FALSE) \/ pending = {i} THEN "done" ELSE "stuck"
        /\ UNCHANGED <<frontend, batch>>
    BY DEF ReportUnresolved, Current, StageOK
  <1>2. names \in SUBSET Id
    BY BatchLines DEF Missing, Typed
  <1>3. Writes(i, "unresolved", FALSE, names)
    BY <1>1 DEF Writes, Held
  <1>4. LetsGo(i, FALSE)
    BY <1>1 DEF LetsGo, Held, PlacesOK
  <1>w. Grown(i, "unresolved", FALSE, names)
    BY <1>2, <1>3, WrittenOutput
  <1> HIDE DEF names
  <1>5. PlacesOK'
    BY <1>2, <1>3, <1>4, WrittenPlaces
  <1>6. Decided'
    BY <1>2, <1>3, WrittenDecided
  <1>7. ASSUME NEW j, Hopeless(j) PROVE Hopeless(j)'
    <2>1. PICK d \in Deps(j) : \A l \in Places(output, batch, d, Now) : output[l].kind = "unresolved"
      BY <1>7 DEF Hopeless
    <2>2. Places(output', batch', d, Now') \subseteq Places(output, batch, d, Now) \cup {Now}
      BY <1>2, <1>3, WrittenRecords DEF Now
    <2>3. \A l \in Places(output, batch, d, Now) : l \in DOMAIN output
      BY <1>w DEF Places, Grown, Now
    <2>4. \A l \in Places(output', batch', d, Now') : output'[l].kind = "unresolved"
      BY <2>1, <2>2, <2>3, <1>w DEF Grown
    <2> QED
      BY <2>1, <2>4, <1>1 DEF Hopeless, Deps
  <1>8. GivenUp'
    <2>1. Hopeless(i)
      BY <1>1 DEF WaitsOK
    <2> QED
      BY <2>1, <1>7, <1>w DEF GivenUp, Grown
  <1>9. RunBatchNamesMissing'
    <2>1. frontend = "run-batch" => names # {}
      BY <1>1 DEF WaitsOK, names
    <2> QED
      BY <2>1, <1>w DEF RunBatchNamesMissing, Grown
  <1>10. Typed'
    <2>1. output' \in Seq(Envelope)
      BY <1>w DEF Grown
    <2>2. completed' \in UNION {[S -> BOOLEAN] : S \in SUBSET Id}
      BY <1>1, CompletedJob DEF Typed
    <2>3. /\ inflight' = {} /\ postponed' = {} /\ batch' = batch /\ progress' = progress
          /\ pending' \in SUBSET DOMAIN batch /\ at' \in {"done", "stuck"}
          /\ frontend' = frontend
      BY <1>1 DEF Typed, ReportUnresolved
    <2>4. IsFiniteSet(inflight') /\ Cardinality(inflight') <= Workers
      BY <2>3, FS_EmptySet, WorkersAssumption
    <2> QED
      BY <2>1, <2>2, <2>3, <2>4 DEF Typed
  <1>11. StageOK' /\ RecordsOK'
    BY <1>1 DEF StageOK, RecordsOK
  <1>12. WaitsOK'
    <2>1. frontend = "run-batch" => \A j : Missing(j)' = Missing(j)
      BY <1>1 DEF Missing, Deps
    <2>2. at' = "stuck" => \A j \in pending' : Hopeless(j)'
      BY <1>1, <1>7 DEF WaitsOK
    <2> QED
      BY <1>1, <2>1, <2>2 DEF WaitsOK
  <1> QED
    BY <1>5, <1>6, <1>8, <1>9, <1>10, <1>11, <1>12

-----------------------------------------------------------------------------
(* Calls that end in any order.                                            *)

LEMMA StartCallKeeps ==
    ASSUME BatchInv, NEW i \in DOMAIN batch, StartCall(i)
    PROVE  BatchInv'
  <1> USE DEF BatchInv
  <1>1. /\ at = "stream" /\ i \in pending /\ Cardinality(inflight) < Workers
        /\ inflight' = inflight \cup {i} /\ pending' = pending \ {i}
        /\ UNCHANGED <<frontend, batch, at, progress, postponed, completed, output>>
    BY DEF StartCall, Current
  <1>2. PlacesOK' /\ Decided' /\ GivenUp' /\ RunBatchNamesMissing'
    <2>1. Held' = Held
      BY <1>1 DEF Held
    <2>2. (pending \cap postponed)' = {} /\ (inflight \cap (pending \cup postponed))' = {}
      BY <1>1 DEF PlacesOK
    <2> QED
      BY <1>1, <2>1, <2>2, Unreported
  <1>3. Typed'
    <2>1. IsFiniteSet(inflight)
      BY DEF Typed
    <2>2. i \notin inflight
      BY <1>1 DEF PlacesOK
    <2>3. /\ IsFiniteSet(inflight \cup {i})
          /\ Cardinality(inflight \cup {i}) = Cardinality(inflight) + 1
      BY <2>1, <2>2, FS_AddElement
    <2>4. Cardinality(inflight) \in Nat
      BY <2>1, FS_CardinalityType
    <2> QED
      BY <1>1, <2>3, <2>4, WorkersAssumption DEF Typed
  <1>4. StageOK' /\ RecordsOK' /\ WaitsOK'
    BY <1>1 DEF StageOK, RecordsOK, WaitsOK, Deps
  <1> QED
    BY <1>2, <1>3, <1>4

LEMMA CallReturnsKeeps ==
    ASSUME BatchInv, NEW i \in DOMAIN batch, NEW ok \in BOOLEAN, CallReturns(i, ok)
    PROVE  BatchInv'
  <1> USE DEF BatchInv
  <1>1. /\ at = "stream" /\ i \in inflight /\ postponed = {} /\ Deps(i) = {}
        /\ output' = Append(output, Report(i, "ran", ok, {}))
        /\ IF Stops(i, ok) THEN at' = "done" /\ inflight' = {}
           ELSE at' = at /\ inflight' = inflight \ {i}
        /\ UNCHANGED <<frontend, batch, pending, progress, postponed, completed>>
    BY DEF CallReturns, StageOK
  <1>2. {} \in SUBSET Id
    OBVIOUS
  <1>3. Writes(i, "ran", ok, {})
    BY <1>1 DEF Writes, Held
  <1>4. LetsGo(i, ok)
    BY <1>1 DEF LetsGo, Held, PlacesOK
  <1>5. PlacesOK'
    BY <1>2, <1>3, <1>4, WrittenPlaces
  <1>6. Decided'
    BY <1>2, <1>3, WrittenDecided
  <1>7. /\ GivenUp' /\ RunBatchNamesMissing'
        /\ \A k \in DOMAIN output' : output'[k].kind # "unresolved"
    BY <1>1, <1>2, <1>3, WrittenNotGivenUp
  <1>8. Typed'
    <2>1. output' \in Seq(Envelope)
      BY <1>2, <1>3, WrittenOutput DEF Grown
    <2>2. IsFiniteSet(inflight') /\ Cardinality(inflight') <= Workers
      <3>1. IsFiniteSet(inflight) /\ inflight' \subseteq inflight
        BY <1>1 DEF Typed
      <3>2. /\ IsFiniteSet(inflight') /\ Cardinality(inflight') <= Cardinality(inflight)
            /\ Cardinality(inflight') \in Nat /\ Cardinality(inflight) \in Nat
        BY <3>1, FS_Subset, FS_CardinalityType
      <3> QED
        BY <3>2, WorkersAssumption DEF Typed
    <2>3. inflight' \in SUBSET DOMAIN batch' /\ at' \in {"stream", "done"}
      BY <1>1 DEF Typed
    <2> QED
      BY <1>1, <2>1, <2>2, <2>3 DEF Typed
  <1>9. StageOK' /\ RecordsOK' /\ WaitsOK'
    BY <1>1, <1>7 DEF StageOK, RecordsOK, WaitsOK, Deps
  <1> QED
    BY <1>5, <1>6, <1>7, <1>8, <1>9

LEMMA EndStreamKeeps ==
    ASSUME BatchInv, EndStream
    PROVE  BatchInv'
  <1> USE DEF BatchInv
  <1>1. /\ at = "stream" /\ pending = {} /\ inflight = {} /\ postponed = {} /\ at' = "done"
        /\ UNCHANGED <<frontend, batch, pending, progress, postponed, completed, inflight, output>>
    BY DEF EndStream, StageOK
  <1>2. PlacesOK' /\ Decided' /\ GivenUp' /\ RunBatchNamesMissing'
    BY <1>1, Unreported DEF Held
  <1>3. Typed' /\ StageOK' /\ RecordsOK' /\ WaitsOK'
    BY <1>1 DEF Typed, StageOK, RecordsOK, WaitsOK
  <1> QED
    BY <1>2, <1>3

LEMMA BatchStutter ==
    ASSUME BatchInv, UNCHANGED vars
    PROVE  BatchInv'
  <1> USE DEF vars, Deps, Now
  <1>1. (Typed /\ PlacesOK)'
    BY DEF BatchInv, Typed, PlacesOK, Held, Reported, Stopped, Stopping
  <1>2. (StageOK /\ RecordsOK)'
    BY DEF BatchInv, StageOK, RecordsOK, Failed, Ready, Missing
  <1>3. (WaitsOK /\ Decided /\ GivenUp /\ RunBatchNamesMissing)'
    BY DEF BatchInv, WaitsOK, Decided, GivenUp, RunBatchNamesMissing, Hopeless, Missing
  <1> QED
    BY <1>1, <1>2, <1>3 DEF BatchInv

-----------------------------------------------------------------------------
(* The theorems.                                                           *)

LEMMA BatchNext ==
    ASSUME BatchInv, [Next]_vars
    PROVE  BatchInv'
  <1>1. ASSUME NEW i \in DOMAIN batch,
               SkipJob(i) \/ PostponeJob(i) \/ CallTool(i) \/ ReportUnresolved(i) \/ StartCall(i)
        PROVE  BatchInv'
    BY <1>1, SkipJobKeeps, PostponeJobKeeps, CallToolKeeps, ReportUnresolvedKeeps, StartCallKeeps
  <1>2. ASSUME NEW ok \in BOOLEAN, ToolReturns(ok) PROVE BatchInv'
    BY <1>2, ToolReturnsKeeps
  <1>3. ASSUME NEW i \in DOMAIN batch, NEW ok \in BOOLEAN, CallReturns(i, ok) PROVE BatchInv'
    BY <1>3, CallReturnsKeeps
  <1>4. CASE EndPass \/ EndStream
    BY <1>4, EndPassKeeps, EndStreamKeeps
  <1>5. CASE Finished \/ UNCHANGED vars
    BY <1>5, BatchStutter DEF Finished
  <1> QED
    BY <1>1, <1>2, <1>3, <1>4, <1>5 DEF Next, Loop, Stream

\* The places of a report are those of the output there is.
LEMMA ReportPlaces ==
    \A d, k : ReportsOf(d, k) = Places(output, batch, d, k)
  BY DEF ReportsOf, Places

LEMMA LastSays ==
    ASSUME NEW d, NEW k \in DOMAIN output, output \in Seq(Envelope), NEW ok,
           Says(output, batch, d, k, ok)
    PROVE  ReportsOf(d, k) # {} /\ LastReport(d, k).ok = ok
  <1>1. PICK j \in ReportsOf(d, k) : (\A l \in ReportsOf(d, k) : l <= j) /\ output[j].ok = ok
    BY ReportPlaces DEF Says
  <1>2. \A l \in ReportsOf(d, k) : l \in Nat
    BY DEF ReportsOf
  <1>3. \A m \in ReportsOf(d, k) : (\A l \in ReportsOf(d, k) : l <= m) => m = j
    BY <1>1, <1>2
  <1>4. j = CHOOSE m \in ReportsOf(d, k) : \A l \in ReportsOf(d, k) : l <= m
    BY <1>1, <1>3
  <1> QED
    BY <1>1, <1>4 DEF LastReport

LEMMA BatchImplies ==
    ASSUME BatchInv
    PROVE  TypeOK /\ DependenciesDecide /\ EveryLineReported
  <1> USE DEF BatchInv
  <1>1. TypeOK
    BY DEF Typed, TypeOK
  <1>2. OutcomesDecide
    <2>1. ASSUME NEW k \in DOMAIN output, output[k].kind = "ran", NEW d \in Deps(output[k].job)
          PROVE  ReportsOf(d, k) # {} /\ LastReport(d, k).ok
      <3>1. Says(output, batch, d, k, TRUE)
        BY <2>1 DEF Decided
      <3> QED
        BY <3>1, LastSays DEF Typed
    <2>2. ASSUME NEW k \in DOMAIN output, output[k].kind = "skipped", NEW d \in output[k].names
          PROVE  ReportsOf(d, k) # {} /\ ~ LastReport(d, k).ok
      <3>1. Says(output, batch, d, k, FALSE)
        BY <2>2 DEF Decided
      <3> QED
        BY <3>1, LastSays DEF Typed
    <2> QED
      BY <2>1, <2>2 DEF OutcomesDecide
  <1>3. UnresolvedNeverReady
    BY ReportPlaces DEF GivenUp, Hopeless, UnresolvedNeverReady, Now
  <1>4. ReportedOnce
    <2> DEFINE of(i) == {k \in DOMAIN output : output[k].job = i}
               stopping == {k \in DOMAIN output : Stopping(k)}
    <2>1. ASSUME NEW i \in DOMAIN batch PROVE Cardinality(of(i)) <= 1
      <3>0. Cardinality({}) = 0 /\ \A k : Cardinality({k}) = 1
        BY FS_EmptySet, FS_Singleton
      <3> HIDE DEF of
      <3>1. CASE of(i) = {}
        BY <3>0, <3>1
      <3>2. CASE of(i) # {}
        <4>1. PICK k : k \in of(i)
          BY <3>2
        <4>2. of(i) = {k}
          BY <4>1 DEF PlacesOK, of
        <4>3. Cardinality({k}) = 1
          BY <3>0, Zenon
        <4>4. Cardinality(of(i)) = 1
          BY <4>2, <4>3, Zenon
        <4> QED
          BY <4>4
      <3> QED
        BY <3>1, <3>2
    <2>2. stopping \subseteq {Len(output)}
      BY DEF PlacesOK
    <2>3. at = "done" /\ stopping = {} => \A i \in DOMAIN batch : of(i) # {}
      BY DEF PlacesOK, Stopped, Reported
    <2> QED
      BY <2>1, <2>2, <2>3 DEF ReportedOnce, Stopping
  <1> QED
    BY <1>1, <1>2, <1>3, <1>4 DEF DependenciesDecide, EveryLineReported

\* TypeOK, never more calls in flight than workers among it (batch.rs:104-118).
THEOREM BatchTypes == Spec => []TypeOK
  BY BatchInit, BatchNext, BatchImplies, PTL DEF Spec

\* Whatever the dependencies between the jobs, an id used twice, a cycle or an id
\* nobody has among them: a job runs only after those it depends on last succeeded,
\* is skipped only for one that last failed, and is given up only when it could never
\* have run (DependenciesDecide; batch.rs:195-262).
THEOREM DependenciesDecideHolds == Spec => []DependenciesDecide
  BY BatchInit, BatchNext, BatchImplies, PTL DEF Spec

\* Every line has exactly one report, or the last report is of the failure that ended
\* the batch (EveryLineReported).
THEOREM EveryLineIsReported == Spec => []EveryLineReported
  BY BatchInit, BatchNext, BatchImplies, PTL DEF Spec

-----------------------------------------------------------------------------
(* The tables of tools.                                                    *)

\* All rows, of arguments and of definitions.
AllArgs == SearchArgs \cup ReadArgs \cup CatalogArgs \cup SeedArgs \cup UsageArgs
           \cup OutlineArgs \cup ComposeArgs \cup PersonArgs \cup CiteArgs
AllTools == ReaderTools \cup FinderTools \cup OutputTools \cup VectorTools \cup HistoryTools
            \cup TermTools \cup TreeTools \cup WorkflowTools \cup NameTools \cup BatchTools

\* The row of a tool is a row of the table, and of the tool.
LEMMA RowOfTool ==
    ASSUME NEW table, NEW tool \in DOMAIN ByTool(table)
    PROVE  ByTool(table)[tool] \in table /\ ByTool(table)[tool].tool = tool
<1>1. PICK row \in table : row.tool = tool
  BY DEF ByTool
<1>2. (CHOOSE r \in table : r.tool = tool) \in table
      /\ (CHOOSE r \in table : r.tool = tool).tool = tool
  BY <1>1
<1> QED
  BY <1>2 DEF ByTool

-----------------------------------------------------------------------------
(* Where all there is is of one build: what is needed of an artefact is    *)
(* that it is there.                                                       *)

Config == [files : [Root -> SUBSET (Part \cup {"raw"})], named : SUBSET Part,
           pack : BOOLEAN, readonly : BOOLEAN]

LEMMA HealedKeepsRoots ==
    ASSUME NEW k \in Config, NEW a
    PROVE  RootOf(Healed(k), a) = RootOf(k, a)
<1>1. CASE ~ Heals(k)
  BY <1>1 DEF Healed
<1>2. CASE Heals(k)
  <2> DEFINE h == Healed(k)
  <2>1. h.named = k.named /\ h.pack = k.pack /\ h.files["pack"] = k.files["pack"]
    BY <1>2 DEF Healed, Config, Root
  <2> HIDE DEF h
  <2> QED
    BY <2>1 DEF RootOf, h
<1> QED
  BY <1>1, <1>2

LEMMA HealedKeepsParts ==
    ASSUME NEW k \in Config, NEW a \in Part, NEW root \in Root, a \in k.files[root]
    PROVE  a \in Healed(k).files[root]
<1>1. CASE ~ Heals(k)
  BY <1>1 DEF Healed
<1>2. CASE Heals(k)
  <2>1. a # "raw"
    BY DEF Part
  <2>2. k.files \in [Root -> SUBSET (Part \cup {"raw"})]
    BY DEF Config
  <2> DEFINE files == [k.files EXCEPT !["default"] = (@ \ {"raw"}) \cup {"passages"}]
  <2>3. a \in files[root]
    BY <2>1, <2>2
  <2>4. Healed(k).files = files
    BY <1>2 DEF Healed, Config
  <2> QED
    BY <2>3, <2>4
<1> QED
  BY <1>1, <1>2

\* What the manifest sees can be found.
LEMMA InSightIsFound ==
    ASSUME NEW k \in Config, OneRoot(k), NEW a \in Part, a \in InSight(k)
    PROVE  a \in StatusSays(k)
<1>1. CASE a \in k.named
  BY <1>1 DEF OneRoot
<1>2. CASE a \notin k.named
  <2>1. a \in k.files[RootOf(k, a)] /\ RootOf(k, a) \in Root
    BY <1>2 DEF InSight, RootOf, Root
  <2>2. a \in Healed(k).files[RootOf(k, a)]
    BY <2>1, HealedKeepsParts
  <2> QED
    BY <2>2, HealedKeepsRoots DEF StatusSays, Found, Resolved
<1> QED
  BY <1>1, <1>2

\* What is there is of the table.
LEMMA FoundIsUsable ==
    ASSUME NEW k, OneRoot(k), NEW a \in StatusSays(k)
    PROVE  Usable(k, a) /\ Found(k, a)
<1>1. CASE a \in OfTable
  <2>1. "doc_table" \in StatusSays(k)
    BY <1>1 DEF OneRoot
  <2>2. RootOf(k, a) = RootOf(k, "doc_table") /\ Found(k, "doc_table")
    BY <2>1 DEF OneRoot, StatusSays
  <2> QED
    BY <2>2 DEF Usable, Matches, StatusSays
<1>2. CASE a \notin OfTable
  BY <1>2 DEF Usable, Matches, StatusSays
<1> QED
  BY <1>1, <1>2

\* A step of an opening is of an artefact, in one of four ways.
Step(s) == s.art \in Part /\ s.how \in {"must", "may", "tabled", "there"}
\* One that cannot do without it.
Needed(s) == s.how \in {"must", "there"}

LEMMA StepsSucceed ==
    ASSUME NEW k, OneRoot(k), NEW s, Step(s), Needed(s) => s.art \in StatusSays(k)
    PROVE  ~ Fails(k, s)
<1>1. CASE s.art \in StatusSays(k)
  <2>1. Usable(k, s.art) /\ Found(k, s.art)
    BY <1>1, FoundIsUsable
  <2> QED
    BY <2>1, Zenon DEF Fails
<1>2. CASE s.art \notin StatusSays(k)
  <2>1. ~ Found(k, s.art)
    BY <1>2 DEF StatusSays, Step
  <2>2. s.how # "must" /\ s.how # "there" /\ s.how \in {"may", "tabled"}
    BY <1>2 DEF Step, Needed
  <2> QED
    BY <2>1, <2>2, Zenon DEF Fails
<1> QED
  BY <1>1, <1>2

\* The tools by what they open.
OpenPassages == {"passage", "canonical-source", "heading-search", "person-resolve",
                 "place-resolve", "person-history", "seed-pick", "source-investigate"}
OpenPairs == {"collocation-search", "pair-appearance", "pair-profile", "citation-verify"}
OpenSomething ==
    OpenPassages \cup OpenPairs
    \cup {"search", "evidence-search", "source-read", "works", "catalog-index-info",
          "first-attestation", "trace-term-usage", "similar", "frontier",
          "expand-context-adaptive", "compare-usage", "scope-profile", "cluster-hits",
          "absence-check", "phrase-history", "phrase-index-search", "vector-info",
          "vector-neighbors", "outline-search"}

\* What each tool opens.
LEMMA OpensOf ==
    ASSUME NEW tool, NEW given
    PROVE
    /\ tool \in OpenPassages => Opens(tool, given) = <<Must("passages")>>
    /\ tool \in {"search", "evidence-search"} => Opens(tool, given) = SearchOpens
    /\ tool = "source-read" => Opens(tool, given) = ReadOpens(given)
    /\ tool \in {"works", "catalog-index-info"} => Opens(tool, given) = CatalogOpens
    /\ tool \in {"first-attestation", "trace-term-usage"} => Opens(tool, given) = PhraseOpens
    /\ tool \in {"similar", "frontier"} => Opens(tool, given) = SimilarOpens
    /\ tool \in {"expand-context-adaptive", "compare-usage", "scope-profile"}
       => Opens(tool, given) = TreeOpens
    /\ tool \in {"cluster-hits", "absence-check"} => Opens(tool, given) = NodeOpens
    /\ tool \in OpenPairs => Opens(tool, given) = PairOpens
    /\ tool = "phrase-history" => Opens(tool, given) = HistoryOpens
    /\ tool = "phrase-index-search" => Opens(tool, given) = ForcedOpens
    /\ tool = "vector-info" => Opens(tool, given) = <<There("vector"), Must("doc_table")>>
    /\ tool = "vector-neighbors" => Opens(tool, given) = NeighborOpens(given)
    /\ tool = "outline-search" => Opens(tool, given) = OutlineOpens(given)
    /\ tool \notin OpenSomething => Opens(tool, given) = <<>>
<1>1. CASE tool \in OpenPassages
  BY <1>1, Zenon DEF Opens, OpenPassages, OpenPairs, OpenSomething
<1>2. CASE tool \in {"search", "evidence-search"}
  BY <1>2, Zenon DEF Opens, OpenPassages, OpenPairs, OpenSomething
<1>3. CASE tool = "source-read"
  BY <1>3, Zenon DEF Opens, OpenPassages, OpenPairs, OpenSomething
<1>4. CASE tool \in {"works", "catalog-index-info"}
  BY <1>4, Zenon DEF Opens, OpenPassages, OpenPairs, OpenSomething
<1>5. CASE tool \in {"first-attestation", "trace-term-usage"}
  BY <1>5, Zenon DEF Opens, OpenPassages, OpenPairs, OpenSomething
<1>6. CASE tool \in {"similar", "frontier"}
  BY <1>6, Zenon DEF Opens, OpenPassages, OpenPairs, OpenSomething
<1>7. CASE tool \in {"expand-context-adaptive", "compare-usage", "scope-profile"}
  BY <1>7, Zenon DEF Opens, OpenPassages, OpenPairs, OpenSomething
<1>8. CASE tool \in {"cluster-hits", "absence-check"}
  BY <1>8, Zenon DEF Opens, OpenPassages, OpenPairs, OpenSomething
<1>9. CASE tool \in OpenPairs
  BY <1>9, Zenon DEF Opens, OpenPassages, OpenPairs, OpenSomething
<1>10. CASE tool = "phrase-history"
  BY <1>10, Zenon DEF Opens, OpenPassages, OpenPairs, OpenSomething
<1>11. CASE tool = "phrase-index-search"
  BY <1>11, Zenon DEF Opens, OpenPassages, OpenPairs, OpenSomething
<1>12. CASE tool = "vector-info"
  BY <1>12, Zenon DEF Opens, OpenPassages, OpenPairs, OpenSomething
<1>13. CASE tool = "vector-neighbors"
  BY <1>13, Zenon DEF Opens, OpenPassages, OpenPairs, OpenSomething
<1>14. CASE tool = "outline-search"
  BY <1>14, Zenon DEF Opens, OpenPassages, OpenPairs, OpenSomething
<1>15. CASE tool \notin OpenSomething
  BY <1>15, Zenon DEF Opens, OpenPassages, OpenPairs, OpenSomething
<1> QED
  BY <1>1, <1>2, <1>3, <1>4, <1>5, <1>6, <1>7, <1>8, <1>9, <1>10, <1>11, <1>12, <1>13,
     <1>14, <1>15

\* What an opening asks to be there is of S.
Asks(opens, S) ==
    \A i \in DOMAIN opens : Step(opens[i]) /\ (Needed(opens[i]) => opens[i].art \in S)

\* What each tool needs to be there.
LEMMA NeedsOf ==
    ASSUME NEW tool, NEW given, NEW S
    PROVE
    /\ tool \in OpenPassages /\ {"passages"} \subseteq S
         => Asks(Opens(tool, given), S)
    /\ tool \in {"search", "evidence-search"} /\ {"passages"} \subseteq S
         => Asks(Opens(tool, given), S)
    /\ tool = "source-read" /\ "node_id" \notin given /\ {"passages"} \subseteq S
         => Asks(Opens(tool, given), S)
    /\ tool \in {"works", "catalog-index-info"} /\ {"catalog"} \subseteq S
         => Asks(Opens(tool, given), S)
    /\ tool \in {"first-attestation", "trace-term-usage"}
       /\ {"passages", "doc_table"} \subseteq S
         => Asks(Opens(tool, given), S)
    /\ tool \in {"similar", "frontier"} /\ {"passages", "tfidf", "doc_table"} \subseteq S
         => Asks(Opens(tool, given), S)
    /\ tool \in {"expand-context-adaptive", "compare-usage", "scope-profile"}
       /\ {"catalog", "doc_table", "passages"} \subseteq S
         => Asks(Opens(tool, given), S)
    /\ tool \in {"cluster-hits", "absence-check"}
       /\ {"doc_table", "catalog", "passages"} \subseteq S
         => Asks(Opens(tool, given), S)
    /\ tool \in OpenPairs /\ {"doc_table", "passages"} \subseteq S
         => Asks(Opens(tool, given), S)
    /\ tool = "phrase-history" /\ {"passages"} \subseteq S
         => Asks(Opens(tool, given), S)
    /\ tool = "phrase-index-search" /\ {"passages", "doc_table", "phrase"} \subseteq S
         => Asks(Opens(tool, given), S)
    /\ tool = "vector-info" /\ {"vector", "doc_table"} \subseteq S
         => Asks(Opens(tool, given), S)
    /\ tool = "vector-neighbors" /\ {"vector", "doc_table", "passages"} \subseteq S
         => Asks(Opens(tool, given), S)
    /\ tool = "outline-search" /\ "work_id" \in given
       /\ {"passages", "doc_table", "catalog"} \subseteq S
         => Asks(Opens(tool, given), S)
    /\ tool \notin OpenSomething => Asks(Opens(tool, given), S)
<1>1. ASSUME tool \in OpenPassages, {"passages"} \subseteq S
      PROVE  Asks(Opens(tool, given), S)
  <2>1. Opens(tool, given) = <<Must("passages")>>
    BY <1>1, OpensOf
  <2> QED
    BY <1>1, <2>1 DEF Asks, Step, Needed, Part, Must
<1>2. ASSUME tool \in {"search", "evidence-search"}, {"passages"} \subseteq S
      PROVE  Asks(Opens(tool, given), S)
  <2>1. Opens(tool, given) = SearchOpens
    BY <1>2, OpensOf
  <2> QED
    BY <1>2, <2>1 DEF Asks, Step, Needed, Part, SearchOpens, Must, May, Tabled
<1>3. ASSUME tool = "source-read", "node_id" \notin given, {"passages"} \subseteq S
      PROVE  Asks(Opens(tool, given), S)
  <2>1. Opens(tool, given) = ReadOpens(given)
    BY <1>3, OpensOf
  <2> QED
    BY <1>3, <2>1 DEF Asks, Step, Needed, Part, ReadOpens, Must, May, Tabled, CatalogOpens
<1>4. ASSUME tool \in {"works", "catalog-index-info"}, {"catalog"} \subseteq S
      PROVE  Asks(Opens(tool, given), S)
  <2>1. Opens(tool, given) = CatalogOpens
    BY <1>4, OpensOf
  <2> QED
    BY <1>4, <2>1 DEF Asks, Step, Needed, Part, CatalogOpens, Must, May, Tabled
<1>5. ASSUME tool \in {"first-attestation", "trace-term-usage"},
             {"passages", "doc_table"} \subseteq S
      PROVE  Asks(Opens(tool, given), S)
  <2>1. Opens(tool, given) = PhraseOpens
    BY <1>5, OpensOf
  <2> QED
    BY <1>5, <2>1 DEF Asks, Step, Needed, Part, PhraseOpens, Must, May, Tabled
<1>6. ASSUME tool \in {"similar", "frontier"}, {"passages", "tfidf", "doc_table"} \subseteq S
      PROVE  Asks(Opens(tool, given), S)
  <2>1. Opens(tool, given) = SimilarOpens
    BY <1>6, OpensOf
  <2> QED
    BY <1>6, <2>1 DEF Asks, Step, Needed, Part, SimilarOpens, Must, May, Tabled
<1>7. ASSUME tool \in {"expand-context-adaptive", "compare-usage", "scope-profile"},
             {"catalog", "doc_table", "passages"} \subseteq S
      PROVE  Asks(Opens(tool, given), S)
  <2>1. Opens(tool, given) = TreeOpens
    BY <1>7, OpensOf
  <2> QED
    BY <1>7, <2>1 DEF Asks, Step, Needed, Part, TreeOpens, Must, May, Tabled
<1>8. ASSUME tool \in {"cluster-hits", "absence-check"},
             {"doc_table", "catalog", "passages"} \subseteq S
      PROVE  Asks(Opens(tool, given), S)
  <2>1. Opens(tool, given) = NodeOpens
    BY <1>8, OpensOf
  <2> QED
    BY <1>8, <2>1 DEF Asks, Step, Needed, Part, NodeOpens, Must, May, Tabled
<1>9. ASSUME tool \in OpenPairs, {"doc_table", "passages"} \subseteq S
      PROVE  Asks(Opens(tool, given), S)
  <2>1. Opens(tool, given) = PairOpens
    BY <1>9, OpensOf
  <2> QED
    BY <1>9, <2>1 DEF Asks, Step, Needed, Part, PairOpens, Must, May, Tabled
<1>10. ASSUME tool = "phrase-history", {"passages"} \subseteq S
      PROVE  Asks(Opens(tool, given), S)
  <2>1. Opens(tool, given) = HistoryOpens
    BY <1>10, OpensOf
  <2> QED
    BY <1>10, <2>1 DEF Asks, Step, Needed, Part, HistoryOpens, Must, May, Tabled
<1>11. ASSUME tool = "phrase-index-search", {"passages", "doc_table", "phrase"} \subseteq S
      PROVE  Asks(Opens(tool, given), S)
  <2>1. Opens(tool, given) = ForcedOpens
    BY <1>11, OpensOf
  <2> QED
    BY <1>11, <2>1 DEF Asks, Step, Needed, Part, ForcedOpens, Must, May, Tabled
<1>12. ASSUME tool = "vector-info", {"vector", "doc_table"} \subseteq S
      PROVE  Asks(Opens(tool, given), S)
  <2>1. Opens(tool, given) = <<There("vector"), Must("doc_table")>>
    BY <1>12, OpensOf
  <2> QED
    BY <1>12, <2>1 DEF Asks, Step, Needed, Part, There, Must
<1>13. ASSUME tool = "vector-neighbors", {"vector", "doc_table", "passages"} \subseteq S
      PROVE  Asks(Opens(tool, given), S)
  <2>1. Opens(tool, given) = NeighborOpens(given)
    BY <1>13, OpensOf
  <2> QED
    BY <1>13, <2>1 DEF Asks, Step, Needed, Part, NeighborOpens, Must, May, Tabled
<1>14. ASSUME tool = "outline-search", "work_id" \in given,
              {"passages", "doc_table", "catalog"} \subseteq S
      PROVE  Asks(Opens(tool, given), S)
  <2>1. Opens(tool, given) = OutlineOpens(given)
    BY <1>14, OpensOf
  <2> QED
    BY <1>14, <2>1 DEF Asks, Step, Needed, Part, OutlineOpens, Must, May, Tabled
<1>15. CASE tool \notin OpenSomething
  BY <1>15, OpensOf DEF Asks
<1> HIDE DEF Asks
<1> QED
  BY <1>1, <1>2, <1>3, <1>4, <1>5, <1>6, <1>7, <1>8, <1>9, <1>10, <1>11, <1>12, <1>13,
     <1>14, <1>15

LEMMA OpenedIfAsked ==
    ASSUME NEW k, OneRoot(k), NEW opens, Asks(opens, StatusSays(k))
    PROVE  Opened(k, opens)
<1> SUFFICES ASSUME NEW i \in DOMAIN opens PROVE ~ Fails(k, opens[i])
  BY DEF Opened
<1> QED
  BY StepsSucceed DEF Asks

\* With an index goes its table.
Closed(R) == IF R \cap OfTable # {} THEN R \cup {"doc_table"} ELSE R
\* A row asks for no more than it says, and the table of an index.
RowAsks(row) == \A given \in row.examples : Asks(Opens(row.tool, given), Closed(row.requires))

LEMMA RowsAsk ==
    ASSUME NEW row \in AllTools
    PROVE  RowAsks(row)
<1>1. ASSUME row \in ReaderTools PROVE RowAsks(row)
  BY <1>1, NeedsOf DEF OpenPassages, OpenPairs, OpenSomething, ReaderTools, Tool, RowAsks,
     Closed, OfTable
<1>2. ASSUME row \in FinderTools PROVE RowAsks(row)
  BY <1>2, NeedsOf DEF OpenPassages, OpenPairs, OpenSomething, FinderTools, Tool, RowAsks,
     Closed, OfTable
<1>3. ASSUME row \in OutputTools PROVE RowAsks(row)
  BY <1>3, NeedsOf DEF OpenPassages, OpenPairs, OpenSomething, OutputTools, Tool, RowAsks,
     Closed, OfTable
<1>4. ASSUME row \in VectorTools PROVE RowAsks(row)
  BY <1>4, NeedsOf DEF OpenPassages, OpenPairs, OpenSomething, VectorTools, Tool, RowAsks,
     Closed, OfTable
<1>5. ASSUME row \in HistoryTools PROVE RowAsks(row)
  BY <1>5, NeedsOf DEF OpenPassages, OpenPairs, OpenSomething, HistoryTools, Tool, RowAsks,
     Closed, OfTable
<1>6. ASSUME row \in TermTools PROVE RowAsks(row)
  BY <1>6, NeedsOf DEF OpenPassages, OpenPairs, OpenSomething, TermTools, Tool, RowAsks,
     Closed, OfTable
<1>7. ASSUME row \in TreeTools PROVE RowAsks(row)
  BY <1>7, NeedsOf DEF OpenPassages, OpenPairs, OpenSomething, TreeTools, Tool, RowAsks,
     Closed, OfTable
<1>8. ASSUME row \in WorkflowTools PROVE RowAsks(row)
  BY <1>8, NeedsOf DEF OpenPassages, OpenPairs, OpenSomething, WorkflowTools, Tool, RowAsks,
     Closed, OfTable
<1>9. ASSUME row \in NameTools PROVE RowAsks(row)
  BY <1>9, NeedsOf DEF OpenPassages, OpenPairs, OpenSomething, NameTools, Tool, RowAsks,
     Closed, OfTable
<1>10. ASSUME row \in BatchTools PROVE RowAsks(row)
  BY <1>10, NeedsOf DEF OpenPassages, OpenPairs, OpenSomething, BatchTools, Tool, RowAsks,
     Closed, OfTable
<1> QED
  BY <1>1, <1>2, <1>3, <1>4, <1>5, <1>6, <1>7, <1>8, <1>9, <1>10 DEF AllTools

\* What the workflows of the manifest and their stages require, and that it is of the parts.
RowRequires(row) ==
    /\ row.requires \subseteq Part
    /\ row.tool \in {"evidence-search", "source-read", "phrase-history"}
       => row.requires \subseteq {"passages"}
    /\ row.tool \in {"pair-appearance", "hybrid-discover", "source-investigate",
       "first-attestation",
                     "trace-term-usage"} => row.requires \subseteq {"passages", "doc_table"}
    /\ row.tool \in {"scope-profile", "absence-check", "cluster-hits",
       "expand-context-adaptive"}
         => row.requires \subseteq {"passages", "catalog", "doc_table"}
    /\ row.tool \in {"similar", "frontier"}
       => row.requires \subseteq {"passages", "tfidf", "doc_table"}
    /\ row.tool = "vector-neighbors"
       => row.requires \subseteq {"passages", "vector", "doc_table"}
    /\ row.tool = "report-from-evidence" => row.requires = {}

LEMMA RowsRequire ==
    ASSUME NEW row \in AllTools
    PROVE  RowRequires(row)
<1>1. ASSUME row \in ReaderTools PROVE RowRequires(row)
  BY <1>1 DEF ReaderTools, Tool, RowRequires, Part
<1>2. ASSUME row \in FinderTools PROVE RowRequires(row)
  BY <1>2 DEF FinderTools, Tool, RowRequires, Part
<1>3. ASSUME row \in OutputTools PROVE RowRequires(row)
  BY <1>3 DEF OutputTools, Tool, RowRequires, Part
<1>4. ASSUME row \in VectorTools PROVE RowRequires(row)
  BY <1>4 DEF VectorTools, Tool, RowRequires, Part
<1>5. ASSUME row \in HistoryTools PROVE RowRequires(row)
  BY <1>5 DEF HistoryTools, Tool, RowRequires, Part
<1>6. ASSUME row \in TermTools PROVE RowRequires(row)
  BY <1>6 DEF TermTools, Tool, RowRequires, Part
<1>7. ASSUME row \in TreeTools PROVE RowRequires(row)
  BY <1>7 DEF TreeTools, Tool, RowRequires, Part
<1>8. ASSUME row \in WorkflowTools PROVE RowRequires(row)
  BY <1>8 DEF WorkflowTools, Tool, RowRequires, Part
<1>9. ASSUME row \in NameTools PROVE RowRequires(row)
  BY <1>9 DEF NameTools, Tool, RowRequires, Part
<1>10. ASSUME row \in BatchTools PROVE RowRequires(row)
  BY <1>10 DEF BatchTools, Tool, RowRequires, Part
<1> QED
  BY <1>1, <1>2, <1>3, <1>4, <1>5, <1>6, <1>7, <1>8, <1>9, <1>10 DEF AllTools

LEMMA DefsAreRows ==
    ASSUME NEW tool \in DOMAIN ToolDefs
    PROVE  ToolDefs[tool].tool = tool /\ RowAsks(ToolDefs[tool])
           /\ RowRequires(ToolDefs[tool])
  BY RowOfTool, RowsAsk, RowsRequire DEF ToolDefs, AllTools

LEMMA WorkflowsAreDefined ==
    {"evidence-search", "source-read", "phrase-history", "pair-appearance", "hybrid-discover",
     "source-investigate", "first-attestation", "trace-term-usage", "scope-profile",
       "absence-check",
     "cluster-hits", "expand-context-adaptive", "similar", "frontier", "vector-neighbors",
     "report-from-evidence"} \subseteq DOMAIN ToolDefs
<1>1. \A row \in AllTools : row.tool \in DOMAIN ToolDefs
  BY DEF ToolDefs, ByTool, AllTools
<1>2. "source-read" \in {row.tool : row \in ReaderTools}
  BY DEF ReaderTools, Tool
<1>3. {"similar", "frontier", "first-attestation", "vector-neighbors"}
      \subseteq {row.tool : row \in VectorTools}
  BY DEF VectorTools, Tool
<1>4. {"phrase-history", "expand-context-adaptive", "trace-term-usage"}
         \subseteq {row.tool : row \in HistoryTools}
  BY DEF HistoryTools, Tool
<1>5. "pair-appearance" \in {row.tool : row \in TermTools}
  BY DEF TermTools, Tool
<1>6. {"cluster-hits", "absence-check", "evidence-search", "hybrid-discover"}
         \subseteq {row.tool : row \in TreeTools}
  BY DEF TreeTools, Tool
<1>7. {"source-investigate", "scope-profile"} \subseteq {row.tool : row \in WorkflowTools}
  BY DEF WorkflowTools, Tool
<1>8. "report-from-evidence" \in {row.tool : row \in BatchTools}
  BY DEF BatchTools, Tool
<1> QED
  BY <1>1, <1>2, <1>3, <1>4, <1>5, <1>6, <1>7, <1>8 DEF AllTools

\* A tool whose requirements are there is not refused for want of an artefact.
LEMMA RequiredIsEnough ==
    ASSUME NEW k, OneRoot(k), NEW tool \in DOMAIN ToolDefs,
           ToolDefs[tool].requires \subseteq StatusSays(k)
    PROVE  Callable(k, tool)
<1> DEFINE row == ToolDefs[tool]
<1>1. row.tool = tool /\ RowAsks(row)
  BY DefsAreRows
<1>2. Closed(row.requires) \subseteq StatusSays(k)
  BY DEF Closed, OneRoot
<1> SUFFICES ASSUME NEW given \in row.examples PROVE Opened(k, Opens(tool, given))
  BY DEF Callable
<1>3. Asks(Opens(tool, given), StatusSays(k))
  BY <1>1, <1>2 DEF RowAsks, Asks
<1> QED
  BY <1>3, OpenedIfAsked

\* What the workflows require, with their stages.
Covers(p) ==
    /\ p.primary \in DOMAIN ToolDefs /\ ToolDefs[p.primary].requires \subseteq p.required
    /\ p.required \subseteq Part /\ p.optional \subseteq Part
    /\ \A stage \in Stages(p.primary) :
         stage \in DOMAIN ToolDefs
           /\ ToolDefs[stage].requires \subseteq p.required \cup p.optional

LEMMA ProfilesCover ==
    ASSUME NEW p \in WorkflowProfiles
    PROVE  Covers(p)
<1>1. /\ Stages("evidence-search") = {"absence-check", "first-attestation", "phrase-history",
                                      "trace-term-usage", "cluster-hits"}
      /\ Stages("hybrid-discover")
         = {"vector-neighbors", "similar", "expand-context-adaptive"}
      /\ Stages("source-investigate") = {"expand-context-adaptive", "frontier", "similar",
                                         "vector-neighbors", "phrase-history"}
      /\ Stages("scope-profile") = {"trace-term-usage"}
      /\ Stages("pair-appearance") = {} /\ Stages("source-read") = {}
      /\ Stages("report-from-evidence") = {}
  BY Zenon DEF Stages
<1>2. \A tool \in DOMAIN ToolDefs : ToolDefs[tool].tool = tool /\ RowRequires(ToolDefs[tool])
  BY DefsAreRows
<1>3. /\ p.primary \in DOMAIN ToolDefs /\ ToolDefs[p.primary].requires \subseteq p.required
      /\ p.required \subseteq Part /\ p.optional \subseteq Part
  BY <1>2, WorkflowsAreDefined DEF WorkflowProfiles, Profile, Part, RowRequires
<1>4. ASSUME NEW stage \in Stages(p.primary)
      PROVE  stage \in DOMAIN ToolDefs
             /\ ToolDefs[stage].requires \subseteq p.required \cup p.optional
  BY <1>1, <1>2, <1>4, WorkflowsAreDefined DEF WorkflowProfiles, Profile, RowRequires
<1> QED
  BY <1>3, <1>4 DEF Covers

LEMMA SightIsTrusted ==
    ASSUME config \in Config
    PROVE  AvailableIsCallable
<1> SUFFICES ASSUME OneRoot(config) PROVE AvailableIsCallable
  BY DEF AvailableIsCallable
<1>1. \A S \in SUBSET Part : S \subseteq InSight(config) => S \subseteq StatusSays(config)
  BY InSightIsFound
<1>2. \A tool \in DOMAIN ToolDefs : ToolDefs[tool].requires \subseteq Part
  BY DefsAreRows DEF RowRequires
<1>3. ASSUME NEW tool \in DOMAIN ToolDefs,
             Available(config, tool) \/ ToolDefs[tool].requires \subseteq StatusSays(config)
      PROVE  Callable(config, tool)
  BY <1>1, <1>2, <1>3, RequiredIsEnough DEF Available
<1>4. ASSUME NEW p \in WorkflowProfiles, Quality(config, p) # "unavailable"
      PROVE  Callable(config, p.primary)
  <2>1. Covers(p)
    BY ProfilesCover
  <2>2. p.required \subseteq InSight(config)
    BY <1>4 DEF Quality
  <2>3. p.primary \in DOMAIN ToolDefs
        /\ ToolDefs[p.primary].requires \subseteq StatusSays(config)
    BY <1>1, <2>1, <2>2 DEF Covers
  <2> QED
    BY <2>3, RequiredIsEnough
<1>5. ASSUME NEW p \in WorkflowProfiles, Quality(config, p) = "full",
             NEW stage \in Stages(p.primary)
      PROVE  Callable(config, stage)
  <2>1. Covers(p)
    BY ProfilesCover
  <2>2. p.required \subseteq InSight(config) /\ p.optional \subseteq InSight(config)
    BY <1>5 DEF Quality
  <2>3. p.required \cup p.optional \subseteq StatusSays(config)
    BY <1>1, <2>1, <2>2 DEF Covers
  <2>4. stage \in DOMAIN ToolDefs /\ ToolDefs[stage].requires \subseteq StatusSays(config)
    BY <2>1, <2>3 DEF Covers
  <2> QED
    BY <2>4, RequiredIsEnough
<1> QED
  BY <1>3, <1>4, <1>5 DEF AvailableIsCallable

-----------------------------------------------------------------------------
(* The arguments of the tools.                                             *)

Accepts(a, given) ==
    a.needs \subseteq Read(a.tool, given) /\ given \subseteq a.needs \cup a.takes
\* Every row of arguments of the tool takes its examples.
TakesExamples(row) ==
    \A a \in AllArgs : a.tool = row.tool => \A given \in row.examples : Accepts(a, given)

LEMMA RowsTake ==
    ASSUME NEW row \in AllTools
    PROVE  TakesExamples(row)
<1> USE DEF AllArgs, Args, SearchArgs, ReadArgs, CatalogArgs, SeedArgs, UsageArgs,
  OutlineArgs, ComposeArgs, PersonArgs, CiteArgs
<1>1. ASSUME row \in ReaderTools PROVE TakesExamples(row)
  BY <1>1 DEF ReaderTools, Tool, TakesExamples, Accepts, Read
<1>2. ASSUME row \in FinderTools PROVE TakesExamples(row)
  BY <1>2 DEF FinderTools, Tool, TakesExamples, Accepts, Read
<1>3. ASSUME row \in OutputTools PROVE TakesExamples(row)
  BY <1>3 DEF OutputTools, Tool, TakesExamples, Accepts, Read
<1>4. ASSUME row \in VectorTools PROVE TakesExamples(row)
  BY <1>4 DEF VectorTools, Tool, TakesExamples, Accepts, Read
<1>5. ASSUME row \in HistoryTools PROVE TakesExamples(row)
  BY <1>5 DEF HistoryTools, Tool, TakesExamples, Accepts, Read
<1>6. ASSUME row \in TermTools PROVE TakesExamples(row)
  BY <1>6 DEF TermTools, Tool, TakesExamples, Accepts, Read
<1>7. ASSUME row \in TreeTools PROVE TakesExamples(row)
  BY <1>7 DEF TreeTools, Tool, TakesExamples, Accepts, Read
<1>8. ASSUME row \in WorkflowTools PROVE TakesExamples(row)
  BY <1>8 DEF WorkflowTools, Tool, TakesExamples, Accepts, Read
<1>9. ASSUME row \in NameTools PROVE TakesExamples(row)
  BY <1>9 DEF NameTools, Tool, TakesExamples, Accepts, Read
<1>10. ASSUME row \in BatchTools PROVE TakesExamples(row)
  BY <1>10 DEF BatchTools, Tool, TakesExamples, Accepts, Read
<1> QED
  BY <1>1, <1>2, <1>3, <1>4, <1>5, <1>6, <1>7, <1>8, <1>9, <1>10 DEF AllTools

\* Every tool with a definition has arguments.
LEMMA ToolsTakeArgs ==
    DOMAIN ToolDefs \subseteq DOMAIN ArgsOf
<1>1. \A a \in AllArgs : a.tool \in DOMAIN ArgsOf
  BY DEF ArgsOf, ByTool, AllArgs
<1>2. {"search", "heading-search", "tool-docs", "tool-log-summary", "passage"}
         \subseteq DOMAIN ArgsOf
  <2>1. {"search", "heading-search", "tool-docs", "tool-log-summary", "passage"}
         \subseteq {a.tool : a \in SearchArgs}
    BY DEF SearchArgs, Args
  <2> QED
    BY <1>1, <2>1 DEF AllArgs
<1>3. {"source-read", "canonical-source", "status", "validate-adjudication",
       "graph-build", "report-build", "pdf-build"}
         \subseteq DOMAIN ArgsOf
  <2>1. {"source-read", "canonical-source", "status", "validate-adjudication",
       "graph-build", "report-build", "pdf-build"}
         \subseteq {a.tool : a \in ReadArgs}
    BY DEF ReadArgs, Args
  <2> QED
    BY <1>1, <2>1 DEF AllArgs
<1>4. {"works", "catalog-index-info", "similar", "frontier", "first-attestation",
       "phrase-history", "phrase-index-search"}
         \subseteq DOMAIN ArgsOf
  <2>1. {"works", "catalog-index-info", "similar", "frontier", "first-attestation",
       "phrase-history", "phrase-index-search"}
         \subseteq {a.tool : a \in CatalogArgs}
    BY DEF CatalogArgs, Args
  <2> QED
    BY <1>1, <2>1 DEF AllArgs
<1>5. {"seed-pick", "expand-context-adaptive", "trace-term-usage", "cluster-hits",
       "absence-check", "query-expand-terms"}
         \subseteq DOMAIN ArgsOf
  <2>1. {"seed-pick", "expand-context-adaptive", "trace-term-usage", "cluster-hits",
       "absence-check", "query-expand-terms"}
         \subseteq {a.tool : a \in SeedArgs}
    BY DEF SeedArgs, Args
  <2> QED
    BY <1>1, <2>1 DEF AllArgs
<1>6. {"compare-usage", "collocation-search", "pair-appearance"}
         \subseteq DOMAIN ArgsOf
  <2>1. {"compare-usage", "collocation-search", "pair-appearance"}
         \subseteq {a.tool : a \in UsageArgs}
    BY DEF UsageArgs, Args
  <2> QED
    BY <1>1, <2>1 DEF AllArgs
<1>7. {"outline-search", "vector-info", "vector-neighbors", "evidence-search"}
         \subseteq DOMAIN ArgsOf
  <2>1. {"outline-search", "vector-info", "vector-neighbors", "evidence-search"}
         \subseteq {a.tool : a \in OutlineArgs}
    BY DEF OutlineArgs, Args
  <2> QED
    BY <1>1, <2>1 DEF AllArgs
<1>8. {"hybrid-discover", "source-investigate", "scope-profile",
       "batch-evidence-search"}
         \subseteq DOMAIN ArgsOf
  <2>1. {"hybrid-discover", "source-investigate", "scope-profile",
       "batch-evidence-search"}
         \subseteq {a.tool : a \in ComposeArgs}
    BY DEF ComposeArgs, Args
  <2> QED
    BY <1>1, <2>1 DEF AllArgs
<1>9. {"report-from-evidence", "pair-profile", "person-resolve", "place-resolve",
       "person-history"}
         \subseteq DOMAIN ArgsOf
  <2>1. {"report-from-evidence", "pair-profile", "person-resolve", "place-resolve",
       "person-history"}
         \subseteq {a.tool : a \in PersonArgs}
    BY DEF PersonArgs, Args
  <2> QED
    BY <1>1, <2>1 DEF AllArgs
<1>10. {"person-profile", "citation-verify", "run-batch"}
         \subseteq DOMAIN ArgsOf
  <2>1. {"person-profile", "citation-verify", "run-batch"}
         \subseteq {a.tool : a \in CiteArgs}
    BY DEF CiteArgs, Args
  <2> QED
    BY <1>1, <2>1 DEF AllArgs
<1>11. \A row \in ReaderTools : row.tool \in DOMAIN ArgsOf
  BY <1>2, <1>3, <1>4, <1>5, <1>6, <1>7, <1>8, <1>9, <1>10 DEF ReaderTools, Tool
<1>12. \A row \in FinderTools : row.tool \in DOMAIN ArgsOf
  BY <1>2, <1>3, <1>4, <1>5, <1>6, <1>7, <1>8, <1>9, <1>10 DEF FinderTools, Tool
<1>13. \A row \in OutputTools : row.tool \in DOMAIN ArgsOf
  BY <1>2, <1>3, <1>4, <1>5, <1>6, <1>7, <1>8, <1>9, <1>10 DEF OutputTools, Tool
<1>14. \A row \in VectorTools : row.tool \in DOMAIN ArgsOf
  BY <1>2, <1>3, <1>4, <1>5, <1>6, <1>7, <1>8, <1>9, <1>10 DEF VectorTools, Tool
<1>15. \A row \in HistoryTools : row.tool \in DOMAIN ArgsOf
  BY <1>2, <1>3, <1>4, <1>5, <1>6, <1>7, <1>8, <1>9, <1>10 DEF HistoryTools, Tool
<1>16. \A row \in TermTools : row.tool \in DOMAIN ArgsOf
  BY <1>2, <1>3, <1>4, <1>5, <1>6, <1>7, <1>8, <1>9, <1>10 DEF TermTools, Tool
<1>17. \A row \in TreeTools : row.tool \in DOMAIN ArgsOf
  BY <1>2, <1>3, <1>4, <1>5, <1>6, <1>7, <1>8, <1>9, <1>10 DEF TreeTools, Tool
<1>18. \A row \in WorkflowTools : row.tool \in DOMAIN ArgsOf
  BY <1>2, <1>3, <1>4, <1>5, <1>6, <1>7, <1>8, <1>9, <1>10 DEF WorkflowTools, Tool
<1>19. \A row \in NameTools : row.tool \in DOMAIN ArgsOf
  BY <1>2, <1>3, <1>4, <1>5, <1>6, <1>7, <1>8, <1>9, <1>10 DEF NameTools, Tool
<1>20. \A row \in BatchTools : row.tool \in DOMAIN ArgsOf
  BY <1>2, <1>3, <1>4, <1>5, <1>6, <1>7, <1>8, <1>9, <1>10 DEF BatchTools, Tool
<1>21. \A row \in AllTools : row.tool \in DOMAIN ArgsOf
  BY <1>11, <1>12, <1>13, <1>14, <1>15, <1>16, <1>17, <1>18, <1>19, <1>20 DEF AllTools
<1> QED
  BY <1>21 DEF ToolDefs, ByTool, AllTools

LEMMA ArgsAreRows ==
    ASSUME NEW tool \in DOMAIN ArgsOf
    PROVE  ArgsOf[tool] \in AllArgs /\ ArgsOf[tool].tool = tool
  BY RowOfTool DEF ArgsOf, AllArgs

\* A tool of which every row of arguments accepts what is given takes it.
LEMMA AcceptedIsTaken ==
    ASSUME NEW tool \in DOMAIN ArgsOf, NEW given,
           \A a \in AllArgs : a.tool = tool => Accepts(a, given)
    PROVE  Understood(tool, given) /\ Known(tool, given)
  BY ArgsAreRows DEF Accepts, Understood, Known

\* Of the arguments of which one is asked for, the examples give one.
PosesWell(row) == \A given \in row.examples : WellPosed(row.tool, given)

Posing == {"source-read", "vector-neighbors", "hybrid-discover", "pdf-build", "run-batch"}

LEMMA PosedWell ==
    ASSUME NEW tool, NEW given
    PROVE  /\ tool = "source-read" =>
                (given \cap {"source_work_id", "passage_id", "node_id", "cursor"} # {}
                   => WellPosed(tool, given))
           /\ tool = "vector-neighbors" =>
                (ExactlyOne(given, {"seed_passage_id", "query_embedding", "query_text"})
                   => WellPosed(tool, given))
           /\ tool = "hybrid-discover" =>
                (given \cap {"seed_passage_id", "query_embedding"} # {}
                   => WellPosed(tool, given))
           /\ tool = "pdf-build" =>
                (ExactlyOne(given, {"markdown", "input_markdown", "input_json"})
                   => WellPosed(tool, given))
           /\ tool = "run-batch" =>
                (ExactlyOne(given, {"jobs", "input_file"}) => WellPosed(tool, given))
           /\ tool \notin Posing => WellPosed(tool, given)
  BY Zenon DEF WellPosed, Posing

LEMMA OneIsGivenThere ==
    /\ ExactlyOne({"seed_passage_id", "k"},
       {"seed_passage_id", "query_embedding", "query_text"})
    /\ ExactlyOne({"input_json", "out", "title"},
       {"markdown", "input_markdown", "input_json"})
    /\ ExactlyOne({"input_markdown", "out", "side_by_side"},
       {"markdown", "input_markdown", "input_json"})
    /\ ExactlyOne({"markdown", "out"}, {"markdown", "input_markdown", "input_json"})
    /\ ExactlyOne({"jobs", "out", "concurrency"}, {"jobs", "input_file"})
    /\ ExactlyOne({"input_file", "out"}, {"jobs", "input_file"})
<1>1. {"seed_passage_id", "k"} \cap {"seed_passage_id", "query_embedding", "query_text"}
      = {"seed_passage_id"}
  OBVIOUS
<1>2. {"input_json", "out", "title"} \cap {"markdown", "input_markdown", "input_json"}
      = {"input_json"}
  OBVIOUS
<1>3. {"input_markdown", "out", "side_by_side"} \cap {"markdown", "input_markdown",
      "input_json"}
        = {"input_markdown"}
  OBVIOUS
<1>4. {"markdown", "out"} \cap {"markdown", "input_markdown", "input_json"} = {"markdown"}
  OBVIOUS
<1>5. {"jobs", "out", "concurrency"} \cap {"jobs", "input_file"} = {"jobs"}
  OBVIOUS
<1>6. {"input_file", "out"} \cap {"jobs", "input_file"} = {"input_file"}
  OBVIOUS
<1> QED
  BY <1>1, <1>2, <1>3, <1>4, <1>5, <1>6, FS_Singleton, Zenon DEF ExactlyOne

LEMMA ExamplesPoseWell ==
    ASSUME NEW row \in AllTools
    PROVE  PosesWell(row)
<1>1. ASSUME row \in ReaderTools PROVE PosesWell(row)
  BY <1>1, PosedWell DEF PosesWell, Posing, ReaderTools, Tool
<1>2. ASSUME row \in FinderTools PROVE PosesWell(row)
  BY <1>2, PosedWell DEF PosesWell, Posing, FinderTools, Tool
<1>3. ASSUME row \in OutputTools PROVE PosesWell(row)
  <2>1. CASE row.tool = "pdf-build"
    <3>1. ASSUME NEW given \in row.examples PROVE WellPosed(row.tool, given)
      <4>1. given = {"input_json", "out", "title"}
            \/ given = {"input_markdown", "out", "side_by_side"}
              \/ given = {"markdown", "out"}
        BY <1>3, <2>1 DEF OutputTools, Tool
      <4>2. ExactlyOne(given, {"markdown", "input_markdown", "input_json"})
        BY <4>1, OneIsGivenThere, Zenon
      <4> QED
        BY <2>1, <4>2, PosedWell, Zenon
    <3> QED
      BY <3>1 DEF PosesWell
  <2>2. CASE row.tool # "pdf-build"
    BY <1>3, <2>2, PosedWell DEF PosesWell, Posing, OutputTools, Tool
  <2> QED
    BY <2>1, <2>2
<1>4. ASSUME row \in VectorTools PROVE PosesWell(row)
  <2>1. CASE row.tool = "vector-neighbors"
    <3>1. ASSUME NEW given \in row.examples PROVE WellPosed(row.tool, given)
      <4>1. given = {"seed_passage_id", "k"}
        BY <1>4, <2>1 DEF VectorTools, Tool
      <4>2. ExactlyOne(given, {"seed_passage_id", "query_embedding", "query_text"})
        BY <4>1, OneIsGivenThere, Zenon
      <4> QED
        BY <2>1, <4>2, PosedWell, Zenon
    <3> QED
      BY <3>1 DEF PosesWell
  <2>2. CASE row.tool # "vector-neighbors"
    BY <1>4, <2>2, PosedWell DEF PosesWell, Posing, VectorTools, Tool
  <2> QED
    BY <2>1, <2>2
<1>5. ASSUME row \in HistoryTools PROVE PosesWell(row)
  BY <1>5, PosedWell DEF PosesWell, Posing, HistoryTools, Tool
<1>6. ASSUME row \in TermTools PROVE PosesWell(row)
  BY <1>6, PosedWell DEF PosesWell, Posing, TermTools, Tool
<1>7. ASSUME row \in TreeTools PROVE PosesWell(row)
  BY <1>7, PosedWell DEF PosesWell, Posing, TreeTools, Tool
<1>8. ASSUME row \in WorkflowTools PROVE PosesWell(row)
  BY <1>8, PosedWell DEF PosesWell, Posing, WorkflowTools, Tool
<1>9. ASSUME row \in NameTools PROVE PosesWell(row)
  BY <1>9, PosedWell DEF PosesWell, Posing, NameTools, Tool
<1>10. ASSUME row \in BatchTools PROVE PosesWell(row)
  <2>1. CASE row.tool = "run-batch"
    <3>1. ASSUME NEW given \in row.examples PROVE WellPosed(row.tool, given)
      <4>1. given = {"jobs", "out", "concurrency"} \/ given = {"input_file", "out"}
        BY <1>10, <2>1 DEF BatchTools, Tool
      <4>2. ExactlyOne(given, {"jobs", "input_file"})
        BY <4>1, OneIsGivenThere, Zenon
      <4> QED
        BY <2>1, <4>2, PosedWell, Zenon
    <3> QED
      BY <3>1 DEF PosesWell
  <2>2. CASE row.tool # "run-batch"
    BY <1>10, <2>2, PosedWell DEF PosesWell, Posing, BatchTools, Tool
  <2> QED
    BY <2>1, <2>2
<1> QED
  BY <1>1, <1>2, <1>3, <1>4, <1>5, <1>6, <1>7, <1>8, <1>9, <1>10 DEF AllTools

LEMMA ExamplesCanBeCalled ==
    ExamplesAreCallable
<1> SUFFICES ASSUME NEW tool \in DOMAIN ToolDefs, NEW given \in ToolDefs[tool].examples
             PROVE  Understood(tool, given) /\ Known(tool, given) /\ WellPosed(tool, given)
  BY DEF ExamplesAreCallable
<1> DEFINE row == ToolDefs[tool]
<1>1. row \in AllTools /\ row.tool = tool
  BY RowOfTool DEF ToolDefs, AllTools
<1>2. TakesExamples(row) /\ PosesWell(row)
  BY <1>1, RowsTake, ExamplesPoseWell
<1>3. \A a \in AllArgs : a.tool = tool => Accepts(a, given)
  BY <1>1, <1>2 DEF TakesExamples
<1>4. tool \in DOMAIN ArgsOf
  BY ToolsTakeArgs
<1> QED
  BY <1>1, <1>2, <1>3, <1>4, AcceptedIsTaken DEF PosesWell

-----------------------------------------------------------------------------
(* What is suggested.                                                      *)

Offered ==
    {"query-expand-terms", "heading-search", "canonical-source", "source-investigate",
     "source-read", "frontier", "search", "phrase-history", "evidence-search", "cluster-hits"}

\* What is offered is of a tool that is shown, takes it, and writes nothing.
Suits(ask) ==
    /\ ask.tool \in Offered
    /\ ask.tool = "source-read"
         => ask.given \cap {"source_work_id", "passage_id", "node_id", "cursor"} # {}
    /\ \A a \in AllArgs : a.tool = ask.tool => Accepts(a, ask.given)

RowIsOffered(row) == row.tool \in Offered => row.audience # "Debug" /\ ~ row.writes

LEMMA RowsAreOffered ==
    ASSUME NEW row \in AllTools
    PROVE  RowIsOffered(row)
<1>1. ASSUME row \in ReaderTools PROVE RowIsOffered(row)
  BY <1>1 DEF ReaderTools, Tool, RowIsOffered, Offered
<1>2. ASSUME row \in FinderTools PROVE RowIsOffered(row)
  BY <1>2 DEF FinderTools, Tool, RowIsOffered, Offered
<1>3. ASSUME row \in OutputTools PROVE RowIsOffered(row)
  BY <1>3 DEF OutputTools, Tool, RowIsOffered, Offered
<1>4. ASSUME row \in VectorTools PROVE RowIsOffered(row)
  BY <1>4 DEF VectorTools, Tool, RowIsOffered, Offered
<1>5. ASSUME row \in HistoryTools PROVE RowIsOffered(row)
  BY <1>5 DEF HistoryTools, Tool, RowIsOffered, Offered
<1>6. ASSUME row \in TermTools PROVE RowIsOffered(row)
  BY <1>6 DEF TermTools, Tool, RowIsOffered, Offered
<1>7. ASSUME row \in TreeTools PROVE RowIsOffered(row)
  BY <1>7 DEF TreeTools, Tool, RowIsOffered, Offered
<1>8. ASSUME row \in WorkflowTools PROVE RowIsOffered(row)
  BY <1>8 DEF WorkflowTools, Tool, RowIsOffered, Offered
<1>9. ASSUME row \in NameTools PROVE RowIsOffered(row)
  BY <1>9 DEF NameTools, Tool, RowIsOffered, Offered
<1>10. ASSUME row \in BatchTools PROVE RowIsOffered(row)
  BY <1>10 DEF BatchTools, Tool, RowIsOffered, Offered
<1> QED
  BY <1>1, <1>2, <1>3, <1>4, <1>5, <1>6, <1>7, <1>8, <1>9, <1>10 DEF AllTools

LEMMA OfferedAreDefined ==
    Offered \subseteq DOMAIN ToolDefs
<1>1. \A row \in AllTools : row.tool \in DOMAIN ToolDefs
  BY DEF ToolDefs, ByTool, AllTools
<1>2. {"source-read"} \subseteq {row.tool : row \in ReaderTools}
  BY DEF ReaderTools, Tool
<1>3. {"search", "heading-search", "canonical-source"}
      \subseteq {row.tool : row \in FinderTools}
  BY DEF FinderTools, Tool
<1>4. {"frontier"} \subseteq {row.tool : row \in VectorTools}
  BY DEF VectorTools, Tool
<1>5. {"phrase-history"} \subseteq {row.tool : row \in HistoryTools}
  BY DEF HistoryTools, Tool
<1>6. {"query-expand-terms"} \subseteq {row.tool : row \in TermTools}
  BY DEF TermTools, Tool
<1>7. {"cluster-hits", "evidence-search"} \subseteq {row.tool : row \in TreeTools}
  BY DEF TreeTools, Tool
<1>8. {"source-investigate"} \subseteq {row.tool : row \in WorkflowTools}
  BY DEF WorkflowTools, Tool
<1> QED
  BY <1>1, <1>2, <1>3, <1>4, <1>5, <1>6, <1>7, <1>8 DEF Offered, AllTools

LEMMA WhatSuitsIsCallable ==
    ASSUME NEW ask, Suits(ask)
    PROVE  SuggestionIsCallable(ask)
<1> DEFINE row == ToolDefs[ask.tool]
<1>1. ask.tool \in DOMAIN ToolDefs /\ ask.tool \in DOMAIN ArgsOf
  BY OfferedAreDefined, ToolsTakeArgs DEF Suits
<1>2. row \in AllTools /\ row.tool = ask.tool
  BY <1>1, RowOfTool DEF ToolDefs, AllTools
<1>3. row.audience # "Debug" /\ ~ row.writes
  BY <1>2, RowsAreOffered DEF RowIsOffered, Suits
<1>4. ask.tool \in Shown \cap Documented
  BY <1>1, <1>3 DEF Shown, Documented, Suits, Offered
<1>5. Understood(ask.tool, ask.given) /\ Known(ask.tool, ask.given)
  BY <1>1, AcceptedIsTaken DEF Suits
<1>6. WellPosed(ask.tool, ask.given)
  BY PosedWell DEF Suits, Offered, Posing
<1> QED
  BY <1>3, <1>4, <1>5, <1>6 DEF SuggestionIsCallable

LEMMA AsksSuit ==
    /\ Suits(Ask("query-expand-terms", {"phrase"}))
    /\ Suits(Ask("heading-search", {"query", "limit"}))
    /\ Suits(Ask("canonical-source", {"phrase"}))
    /\ Suits(Ask("source-investigate", {"seed_passage_id"}))
    /\ Suits(Ask("source-read", {"passage_id", "direction", "max_chars"}))
    /\ Suits(Ask("frontier", {"seed"}))
    /\ Suits(Ask("search", {"phrase", "mode", "group_by"}))
    /\ Suits(Ask("phrase-history", {"phrase"}))
    /\ Suits(Ask("evidence-search", {"phrase", "include_attestation", "include_history"}))
    /\ Suits(Ask("cluster-hits", {"phrase", "cluster_by"}))
    /\ Suits(Ask("evidence-search", {"phrase", "include_attestation"}))
    /\ Suits(Ask("source-read", {"cursor"}))
    /\ Suits(Ask("source-investigate", {"seed_passage_id", "phrases"}))
    /\ Suits(Ask("frontier", {"seed", "limit", "phrase_limit"}))
    /\ Suits(Ask("frontier", {"seed", "limit"}))
    /\ Suits(Ask("evidence-search", {"phrase", "include_usage"}))
<1> USE DEF AllArgs, Args, SearchArgs, ReadArgs, CatalogArgs, SeedArgs, UsageArgs,
  OutlineArgs, ComposeArgs, PersonArgs, CiteArgs
<1>1. Suits(Ask("query-expand-terms", {"phrase"}))
  BY DEF Suits, Ask, Offered, Accepts, Read
<1>2. Suits(Ask("heading-search", {"query", "limit"}))
  BY DEF Suits, Ask, Offered, Accepts, Read
<1>3. Suits(Ask("canonical-source", {"phrase"}))
  BY DEF Suits, Ask, Offered, Accepts, Read
<1>4. Suits(Ask("source-investigate", {"seed_passage_id"}))
  BY DEF Suits, Ask, Offered, Accepts, Read
<1>5. Suits(Ask("source-read", {"passage_id", "direction", "max_chars"}))
  BY DEF Suits, Ask, Offered, Accepts, Read
<1>6. Suits(Ask("frontier", {"seed"}))
  BY DEF Suits, Ask, Offered, Accepts, Read
<1>7. Suits(Ask("search", {"phrase", "mode", "group_by"}))
  BY DEF Suits, Ask, Offered, Accepts, Read
<1>8. Suits(Ask("phrase-history", {"phrase"}))
  BY DEF Suits, Ask, Offered, Accepts, Read
<1>9. Suits(Ask("evidence-search", {"phrase", "include_attestation", "include_history"}))
  BY DEF Suits, Ask, Offered, Accepts, Read
<1>10. Suits(Ask("cluster-hits", {"phrase", "cluster_by"}))
  BY DEF Suits, Ask, Offered, Accepts, Read
<1>11. Suits(Ask("evidence-search", {"phrase", "include_attestation"}))
  BY DEF Suits, Ask, Offered, Accepts, Read
<1>12. Suits(Ask("source-read", {"cursor"}))
  BY DEF Suits, Ask, Offered, Accepts, Read
<1>13. Suits(Ask("source-investigate", {"seed_passage_id", "phrases"}))
  BY DEF Suits, Ask, Offered, Accepts, Read
<1>14. Suits(Ask("frontier", {"seed", "limit", "phrase_limit"}))
  BY DEF Suits, Ask, Offered, Accepts, Read
<1>15. Suits(Ask("frontier", {"seed", "limit"}))
  BY DEF Suits, Ask, Offered, Accepts, Read
<1>16. Suits(Ask("evidence-search", {"phrase", "include_usage"}))
  BY DEF Suits, Ask, Offered, Accepts, Read
<1> QED
  BY <1>1, <1>2, <1>3, <1>4, <1>5, <1>6, <1>7, <1>8, <1>9, <1>10, <1>11, <1>12, <1>13,
     <1>14, <1>15, <1>16, Zenon

-----------------------------------------------------------------------------
(* The lists a reply may be made up from.                                  *)

Elements(l) == {l[i] : i \in DOMAIN l}
Lists ==
    {SearchCandidates(shape) : shape \in Shape}
    \cup {ReadNext, <<Verify>>, EvidenceNext, HybridNext, InvestigateNext,
          <<Verify, ReadAround>>, ProfileNext, <<>>}
AnyAsk == Called \cup {Ask("none", {})} \cup UNION {Elements(l) : l \in Lists}
Suitable == {a \in AnyAsk : Suits(a)}
LogRecord == [tool : {a.tool : a \in AnyAsk}, written : Write]

-----------------------------------------------------------------------------
(* What a torn write costs of the log.                                     *)

\* The record is on the line that begins with a torn one.
Spoiler(i, j) == j \in Before(i) /\ (\A k \in Before(i) : k <= j) /\ log[j].written # "all"
Spoilt == {i \in DOMAIN log \ Torn : \E j \in Torn : Spoiler(i, j)}

\* A record that is not read was torn itself, or is on the line of one that was.
LEMMA LostIsTornOrSpoilt ==
    ASSUME log \in Seq(LogRecord), IsText
    PROVE  DOMAIN log \ Records \subseteq Torn \cup Spoilt
<1> SUFFICES ASSUME NEW i \in DOMAIN log, i \notin Records, i \notin Torn
             PROVE  i \in Spoilt
  OBVIOUS
<1>1. log[i].written = "all" /\ Whole(i)
  BY DEF Torn, Whole
<1>2. ~OnItsOwn(i)
  BY <1>1 DEF Records
<1>3. PICK j \in Before(i) : (\A k \in Before(i) : k <= j) /\ log[j].written # "all"
  BY <1>2 DEF OnItsOwn
<1>4. j \in DOMAIN log
  BY <1>3 DEF Before
<1> QED
  BY <1>3, <1>4 DEF Spoilt, Spoiler, Torn

\* No two whole records are on one line.
LEMMA OneSpoiltEach ==
    ASSUME log \in Seq(LogRecord),
           NEW i \in Spoilt, NEW l \in Spoilt, NEW j, Spoiler(i, j), Spoiler(l, j)
    PROVE  i = l
<1>1. i \in 1 .. Len(log) /\ l \in 1 .. Len(log) /\ Len(log) \in Nat
  BY DEF Spoilt
<1>2. log[i].written = "all" /\ log[l].written = "all"
  BY DEF Spoilt, Torn
<1>3. CASE i < l
  <2>1. i \in Before(l)
    BY <1>1, <1>2, <1>3 DEF Before
  <2> QED
    BY <1>1, <1>3, <2>1 DEF Spoiler, Before
<1>4. CASE l < i
  <2>1. l \in Before(i)
    BY <1>1, <1>2, <1>4 DEF Before
  <2> QED
    BY <1>1, <1>4, <2>1 DEF Spoiler, Before
<1> QED
  BY <1>1, <1>3, <1>4

LEMMA TornIsFinite ==
    ASSUME log \in Seq(LogRecord)
    PROVE  IsFiniteSet(DOMAIN log) /\ IsFiniteSet(Torn)
<1>1. Len(log) \in Nat /\ DOMAIN log = 1 .. Len(log) /\ 1 \in Int /\ Len(log) \in Int
  OBVIOUS
<1>2. IsFiniteSet(DOMAIN log)
  BY <1>1, FS_Interval
<1>3. Torn \in SUBSET DOMAIN log
  BY DEF Torn
<1> QED
  BY <1>2, <1>3, FS_Subset

LEMMA TornWritesCostTwo ==
    ASSUME log \in Seq(LogRecord), IsText
    PROVE  Cardinality(DOMAIN log \ Records) <= 2 * Cardinality(Torn)
<1>1. IsFiniteSet(Torn)
  BY TornIsFinite
<1> DEFINE of == [i \in Spoilt |-> CHOOSE j \in Torn : Spoiler(i, j)]
<1>2. \A i \in Spoilt : of[i] \in Torn /\ Spoiler(i, of[i])
  BY DEF Spoilt
<1>3. of \in [Spoilt -> Torn]
  BY <1>2
<1>4. of \in Injection(Spoilt, Torn)
  <2>1. \A i, l \in Spoilt : of[i] = of[l] => i = l
    <3> HIDE DEF of
    <3> QED
      BY <1>2, OneSpoiltEach
  <2> QED
    BY <1>3, <2>1 DEF Injection, IsInjective
<1> HIDE DEF of
<1>5. IsFiniteSet(Spoilt) /\ Cardinality(Spoilt) <= Cardinality(Torn)
  BY <1>1, <1>4, FS_Injection
<1>6. /\ IsFiniteSet(Torn \cup Spoilt)
      /\ Cardinality(Torn \cup Spoilt)
           = Cardinality(Torn) + Cardinality(Spoilt) - Cardinality(Torn \cap Spoilt)
  BY <1>1, <1>5, FS_Union
<1>7. Torn \cap Spoilt = {}
  BY DEF Spoilt
<1>8. DOMAIN log \ Records \in SUBSET (Torn \cup Spoilt)
  BY LostIsTornOrSpoilt
<1>9. Cardinality(DOMAIN log \ Records) <= Cardinality(Torn \cup Spoilt)
  BY <1>6, <1>8, FS_Subset
<1>10. /\ Cardinality(Torn) \in Nat /\ Cardinality(Spoilt) \in Nat
       /\ Cardinality(Torn \cap Spoilt) = 0
       /\ Cardinality(DOMAIN log \ Records) \in Nat
  BY <1>1, <1>5, <1>6, <1>7, <1>8, FS_CardinalityType, FS_EmptySet, FS_Subset
<1> QED
  BY <1>5, <1>6, <1>9, <1>10

-----------------------------------------------------------------------------
(* What was called lately, and what is left of a list.                     *)

LEMMA WholeLogIsRead ==
    ASSUME log \in Seq(LogRecord), Torn = {}
    PROVE  Records = DOMAIN log
<1>1. \A i \in DOMAIN log : log[i].written = "all"
  BY DEF Torn
<1>2. \A i \in DOMAIN log : \A j \in Before(i) : log[j].written = "all"
  BY <1>1 DEF Before
<1> QED
  BY <1>1, <1>2 DEF Records, IsText, Whole, OnItsOwn

\* Where every record is whole, the last Recent of them are known.
LEMMA LastCallsAreRecent ==
    ASSUME log \in Seq(LogRecord), Torn = {}, Recent \in Nat,
           NEW j \in 1 .. Len(log), j > Len(log) - Recent
    PROVE  log[j].tool \in RecentTools
<1> DEFINE later == {k \in Records : k > j}
<1>1. Len(log) \in Nat /\ DOMAIN log = 1 .. Len(log) /\ j \in Int /\ j + 1 \in Int
      /\ Len(log) \in Int
  OBVIOUS
<1>2. Records = 1 .. Len(log)
  BY <1>1, WholeLogIsRead
<1>3. later = j + 1 .. Len(log)
  BY <1>1, <1>2
<1>4. Cardinality(later) = IF j + 1 > Len(log) THEN 0 ELSE Len(log) - (j + 1) + 1
  BY <1>1, <1>3, FS_Interval
<1>5. Cardinality(later) < Recent
  BY <1>1, <1>4
<1> QED
  BY <1>2, <1>5 DEF RecentTools

\* Of a finite set of numbers, one has none before it; where there are two, one has one.
LEMMA LeastOf ==
    ASSUME NEW U \in SUBSET Nat, U # {}
    PROVE  \E i \in U : \A j \in U : i <= j
<1>1. PICK i \in U : \A j \in U : ~ (<<j, i>> \in OpToRel(<, Nat))
  BY NatLessThanWellFounded, WFMin
<1>2. \A j \in U : ~ (j < i)
  BY <1>1 DEF OpToRel
<1> QED
  BY <1>2

Ranked(U, i, k) == Cardinality({j \in U : j < i}) = k - 1

LEMMA FirstTwoRanks ==
    ASSUME NEW U \in SUBSET Nat, IsFiniteSet(U)
    PROVE  /\ Cardinality(U) >= 1 => \E i \in U : Ranked(U, i, 1)
           /\ Cardinality(U) >= 2 => \E i \in U : Ranked(U, i, 2)
<1>1. Cardinality(U) \in Nat /\ (Cardinality(U) = 0 <=> U = {})
  BY FS_CardinalityType, FS_EmptySet
<1>2. CASE U = {}
  BY <1>1, <1>2
<1>3. CASE U # {}
  <2>1. PICK i \in U : \A j \in U : i <= j
    BY <1>3, LeastOf
  <2>0. i \in Nat /\ \A j \in U : j \in Nat
    OBVIOUS
  <2>2. {j \in U : j < i} = {}
    <3>1. \A j \in U : ~ (j < i)
      BY <2>0, <2>1
    <3> QED
      BY <3>1
  <2>3. Ranked(U, i, 1)
    BY <2>2, FS_EmptySet DEF Ranked
  <2>4. IsFiniteSet(U \ {i}) /\ Cardinality(U \ {i}) = Cardinality(U) - 1
    BY FS_RemoveElement
  <2>5. ASSUME Cardinality(U) >= 2 PROVE \E l \in U : Ranked(U, l, 2)
    <3>1. U \ {i} # {}
      BY <1>1, <2>4, <2>5, FS_EmptySet
    <3>2. PICK l \in U \ {i} : \A j \in U \ {i} : l <= j
      BY <3>1, LeastOf
    <3>3. {j \in U : j < l} = {i}
      <4>1. i < l /\ \A j \in U : j < l => j = i
        BY <2>0, <2>1, <3>2
      <4> QED
        BY <4>1
    <3>4. Ranked(U, l, 2)
      BY <3>3, FS_Singleton DEF Ranked
    <3> QED
      BY <3>2, <3>4
  <2> QED
    BY <2>1, <2>3, <2>5
<1> QED
  BY <1>2, <1>3

\* What a search suggests is of the list, and was not called lately.
LEMMA TwoFresh ==
    ASSUME NEW S, NEW s \in Seq(S)
    PROVE  /\ Two(Fresh(s)) \in Seq(S)
           /\ \A k \in DOMAIN Two(Fresh(s)) : Two(Fresh(s))[k].tool \notin RecentTools
<1> DEFINE unused == {i \in DOMAIN s : s[i].tool \notin RecentTools}
           n == Cardinality(unused)
           th(k) == CHOOSE i \in unused : Cardinality({j \in unused : j < i}) = k - 1
           all == [k \in 1 .. n |-> s[th(k)]]
           m == IF n < 2 THEN n ELSE 2
           rest == {s[i] : i \in unused}
<1>1. Len(s) \in Nat /\ DOMAIN s = 1 .. Len(s) /\ 1 \in Int /\ Len(s) \in Int
  OBVIOUS
<1>2. IsFiniteSet(DOMAIN s) /\ unused \in SUBSET DOMAIN s
  BY <1>1, FS_Interval
<1>3. IsFiniteSet(unused) /\ n \in Nat /\ unused \in SUBSET Nat
  BY <1>1, <1>2, FS_Subset, FS_CardinalityType
<1>4. \A k \in 1 .. m : th(k) \in unused
  <2> HIDE DEF unused
  <2>1. ASSUME n >= 1 PROVE th(1) \in unused
    BY <1>3, <2>1, FirstTwoRanks, Zenon DEF Ranked
  <2>2. ASSUME n >= 2 PROVE th(2) \in unused
    BY <1>3, <2>2, FirstTwoRanks, Zenon DEF Ranked
  <2> HIDE DEF th
  <2>3. \A k \in 1 .. m : (k = 1 /\ n >= 1) \/ (k = 2 /\ n >= 2)
    <3> HIDE DEF n
    <3> QED
      BY <1>3
  <2> QED
    BY <2>1, <2>2, <2>3, Zenon
<1>5. Fresh(s) = all
  BY Zenon DEF Fresh
<1>6. \A k \in 1 .. m : all[k] = s[th(k)] /\ all[k] \in rest
  <2>1. \A k \in 1 .. m : k \in 1 .. n
    <3> HIDE DEF n
    <3> QED
      BY <1>3
  <2> HIDE DEF unused, n, m, th
  <2> QED
    BY <1>4, <2>1
<1>7. Len(all) = n
  <2> HIDE DEF n, th
  <2> QED
    BY <1>3
<1>8. Two(Fresh(s)) = SubSeq(all, 1, m)
  BY <1>5, <1>7, Zenon DEF Two
<1>9. m \in Int /\ 1 \in Int /\ m \in Nat
  <2> HIDE DEF n
  <2> QED
    BY <1>3
<1>10. Two(Fresh(s)) \in Seq(rest)
  <2> HIDE DEF rest, all, m
  <2> QED
    BY <1>6, <1>8, <1>9, SubSeqProperties
<1>11. rest \subseteq S /\ \A x \in rest : x.tool \notin RecentTools
  BY <1>1
<1> HIDE DEF rest
<1> DEFINE two == Two(Fresh(s))
<1>12. two \in Seq(rest)
  BY <1>10
<1> HIDE DEF two
<1>13. two \in Seq(S) /\ \A k \in DOMAIN two : two[k].tool \notin RecentTools
  BY <1>11, <1>12
<1> QED
  BY <1>13 DEF two

-----------------------------------------------------------------------------
(* The inductive invariant of the calls.                                   *)

Codes == {"ok", "unknown_tool", "readonly_violation", "internal_error", "invalid_args",
          "query_embedding_provider_not_configured", "missing_vector_index",
          "missing_phrase_index"}
CallRecord == [phase : {"idle", "running", "answered"}, ask : AnyAsk, told : BOOLEAN,
               code : Codes, next : Seq(Suitable), seen : Nat]

\* What a search suggests was not among the calls it saw, if it saw all of them.
Heeds(k) ==
    k.phase = "answered" /\ k.ask.tool = "search" =>
        /\ k.seen <= Len(log)
        /\ (\A j \in 1 .. k.seen : log[j].written = "all") =>
             \A i \in DOMAIN k.next, j \in 1 .. k.seen :
                 j > k.seen - Recent => k.next[i].tool # log[j].tool

\* A call that a reply told to make is one that can be made, and was not turned away.
Obeys(k) ==
    k.told => Suits(k.ask) /\ k.code \in {"ok", "missing_vector_index", "internal_error"}

CallsInv ==
    /\ config \in Config
    /\ log \in Seq(LogRecord)
    /\ call \in [Client -> CallRecord]
    /\ \A c \in Client : Heeds(call[c]) /\ Obeys(call[c])

LEMMA ShortLists ==
    /\ <<>> \in Seq(Elements(<<>>))
    /\ \A a : <<a>> \in Seq(Elements(<<a>>))
    /\ \A a, b : <<a, b>> \in Seq(Elements(<<a, b>>))
    /\ \A a, b, d : <<a, b, d>> \in Seq(Elements(<<a, b, d>>))
<1>1. <<>> \in Seq(Elements(<<>>))
  OBVIOUS
<1>2. ASSUME NEW a PROVE <<a>> \in Seq(Elements(<<a>>))
  <2>1. a \in Elements(<<a>>)
    BY DEF Elements
  <2> QED
    BY <2>1
<1>3. ASSUME NEW a, NEW b PROVE <<a, b>> \in Seq(Elements(<<a, b>>))
  <2>1. a \in Elements(<<a, b>>) /\ b \in Elements(<<a, b>>)
    BY DEF Elements
  <2> QED
    BY <2>1
<1>4. ASSUME NEW a, NEW b, NEW d PROVE <<a, b, d>> \in Seq(Elements(<<a, b, d>>))
  <2>1. a \in Elements(<<a, b, d>>) /\ b \in Elements(<<a, b, d>>) /\ d \in Elements(<<a, b, d>>)
    BY DEF Elements
  <2> QED
    BY <2>1
<1> QED
  BY <1>1, <1>2, <1>3, <1>4

\* Whatever is in a list can be called.
LEMMA ListsSuit ==
    \A l \in Lists : \A i \in DOMAIN l : Suits(l[i])
<1> SUFFICES ASSUME NEW l \in Lists, NEW i \in DOMAIN l PROVE Suits(l[i])
  OBVIOUS
<1>1. ASSUME NEW shape \in Shape, l = SearchCandidates(shape) PROVE Suits(l[i])
  <2>1. CASE shape = "none"
    <3>1. l = <<Ask("query-expand-terms", {"phrase"}), Ask("heading-search", {"query", "limit"}),
                Ask("canonical-source", {"phrase"})>>
      BY <1>1, <2>1, Zenon DEF SearchCandidates
    <3> QED
      BY <3>1, AsksSuit
  <2>2. CASE shape = "one"
    <3>1. l = <<Ask("source-investigate", {"seed_passage_id"}),
                Ask("source-read", {"passage_id", "direction", "max_chars"}),
                Ask("frontier", {"seed"})>>
      BY <1>1, <2>2, Zenon DEF SearchCandidates
    <3> QED
      BY <3>1, AsksSuit
  <2>3. CASE shape = "tight"
    <3>1. l = <<Ask("frontier", {"seed"}), Ask("search", {"phrase", "mode", "group_by"}),
                Ask("source-read", {"passage_id", "direction", "max_chars"})>>
      BY <1>1, <2>3, Zenon DEF SearchCandidates
    <3> QED
      BY <3>1, AsksSuit
  <2>4. CASE shape = "wide"
    <3>1. l = <<Ask("phrase-history", {"phrase"}), Ask("search", {"phrase", "mode", "group_by"}),
                Ask("evidence-search",
                    {"phrase", "include_attestation", "include_history"})>>
      BY <1>1, <2>4, Zenon DEF SearchCandidates
    <3> QED
      BY <3>1, AsksSuit
  <2>5. CASE shape = "few"
    <3>1. l = <<Ask("frontier", {"seed"}), Ask("cluster-hits", {"phrase", "cluster_by"})>>
      BY <1>1, <2>5, Zenon DEF SearchCandidates
    <3> QED
      BY <3>1, AsksSuit
  <2> QED
    BY <2>1, <2>2, <2>3, <2>4, <2>5 DEF Shape
<1>2. CASE l \in {ReadNext, <<Verify>>, EvidenceNext}
  BY <1>2, AsksSuit DEF ReadNext, Verify, EvidenceNext
<1>3. CASE l \in {HybridNext, InvestigateNext}
  BY <1>3, AsksSuit DEF HybridNext, InvestigateNext, ReadAround, Verify
<1>4. CASE l \in {<<Verify, ReadAround>>, ProfileNext, <<>>}
  BY <1>4, AsksSuit DEF ReadAround, Verify, ProfileNext
<1> QED
  BY <1>1, <1>2, <1>3, <1>4 DEF Lists

LEMMA ListsAreLists ==
    \A l \in Lists : l \in Seq(Suitable)
<1> SUFFICES ASSUME NEW l \in Lists PROVE l \in Seq(Suitable)
  OBVIOUS
<1>1. \A shape \in Shape : SearchCandidates(shape) \in Seq(Elements(SearchCandidates(shape)))
  <2> SUFFICES ASSUME NEW shape \in Shape
               PROVE  SearchCandidates(shape) \in Seq(Elements(SearchCandidates(shape)))
    OBVIOUS
  <2>1. CASE shape = "none"
    BY <2>1, ShortLists, Zenon DEF SearchCandidates
  <2>2. CASE shape = "one"
    BY <2>2, ShortLists, Zenon DEF SearchCandidates
  <2>3. CASE shape = "tight"
    BY <2>3, ShortLists, Zenon DEF SearchCandidates
  <2>4. CASE shape = "wide"
    BY <2>4, ShortLists, Zenon DEF SearchCandidates
  <2>5. CASE shape = "few"
    BY <2>5, ShortLists, Zenon DEF SearchCandidates
  <2> QED
    BY <2>1, <2>2, <2>3, <2>4, <2>5 DEF Shape
<1>2. /\ ReadNext \in Seq(Elements(ReadNext)) /\ <<Verify>> \in Seq(Elements(<<Verify>>))
      /\ EvidenceNext \in Seq(Elements(EvidenceNext))
      /\ HybridNext \in Seq(Elements(HybridNext))
      /\ InvestigateNext \in Seq(Elements(InvestigateNext))
      /\ <<Verify, ReadAround>> \in Seq(Elements(<<Verify, ReadAround>>))
      /\ ProfileNext \in Seq(Elements(ProfileNext)) /\ <<>> \in Seq(Elements(<<>>))
  BY ShortLists, Zenon DEF ReadNext, EvidenceNext, HybridNext, InvestigateNext, ProfileNext
<1>3. l \in Seq(Elements(l))
  BY <1>1, <1>2, Zenon DEF Lists
<1>4. Elements(l) \subseteq AnyAsk /\ \A a \in Elements(l) : Suits(a)
  BY ListsSuit DEF AnyAsk, Elements
<1>5. Elements(l) \subseteq Suitable
  BY <1>4 DEF Suitable
<1> QED
  BY <1>3, <1>5

\* Whatever is suggested is a list of calls, and a search suggests what is left of one.
LEMMA SuggestionsAreLists ==
    ASSUME NEW tool, NEW next \in Suggestions(tool)
    PROVE  /\ next \in Seq(Suitable)
           /\ tool = "search" =>
                \A k \in DOMAIN next : next[k].tool \notin RecentTools
<1>1. CASE tool = "search"
  <2>1. PICK shape \in Shape : next = Two(Fresh(SearchCandidates(shape)))
    BY <1>1, Zenon DEF Suggestions
  <2>2. SearchCandidates(shape) \in Seq(Suitable)
    BY ListsAreLists, Zenon DEF Lists
  <2> QED
    BY <2>1, <2>2, TwoFresh, Zenon
<1>2. CASE tool # "search"
  <2>1. next \in Lists
    <3>1. CASE tool = "source-read"
      BY <3>1, Zenon DEF Suggestions, Lists
    <3>2. CASE tool = "evidence-search"
      BY <3>2, Zenon DEF Suggestions, Lists
    <3>3. CASE tool = "hybrid-discover"
      BY <3>3, Zenon DEF Suggestions, Lists
    <3>4. CASE tool = "source-investigate"
      BY <3>4, Zenon DEF Suggestions, Lists
    <3>5. CASE tool = "scope-profile"
      BY <3>5, Zenon DEF Suggestions, Lists
    <3>6. CASE tool \notin {"search", "source-read", "evidence-search", "hybrid-discover",
                            "source-investigate", "scope-profile"}
      BY <3>6, Zenon DEF Suggestions, Lists
    <3> QED
      BY <1>2, <3>1, <3>2, <3>3, <3>4, <3>5, <3>6
  <2> QED
    BY <1>2, <2>1, ListsAreLists
<1> QED
  BY <1>1, <1>2

LEMMA CodeIsOneOf ==
    ASSUME NEW k, NEW ask
    PROVE  Code(k, ask) \in Codes
<1>1. \A a : CodeOfMissing(k, ask.tool, a) \in Codes
  <2> SUFFICES ASSUME NEW a PROVE CodeOfMissing(k, ask.tool, a) \in Codes
    OBVIOUS
  <2>1. CASE a = "vector" /\ ~ Found(k, a)
    BY <2>1, Zenon DEF CodeOfMissing, Codes
  <2>2. CASE ask.tool = "phrase-index-search" /\ a = "phrase" /\ ~ Found(k, a)
    BY <2>2, Zenon DEF CodeOfMissing, Codes
  <2>3. CASE /\ ~ (a = "vector" /\ ~ Found(k, a))
             /\ ~ (ask.tool = "phrase-index-search" /\ a = "phrase" /\ ~ Found(k, a))
    BY <2>3, Zenon DEF CodeOfMissing, Codes
  <2> QED
    BY <2>1, <2>2, <2>3
<1> QED
  BY <1>1, Zenon DEF Code, Codes

\* A call that suits is not turned away for what it is.
LEMMA WhatSuitsIsAnswered ==
    ASSUME NEW k, NEW ask, Suits(ask)
    PROVE  Code(k, ask) \in {"ok", "missing_vector_index", "internal_error"}
<1>1. SuggestionIsCallable(ask)
  BY WhatSuitsIsCallable
<1>2. /\ ask.tool \in DOMAIN ToolDefs /\ ~ Violates(k, ask.tool)
      /\ Understood(ask.tool, ask.given) /\ WellPosed(ask.tool, ask.given)
  BY <1>1 DEF SuggestionIsCallable, Shown, Violates
<1>3. ask.tool # "vector-neighbors" /\ ask.tool # "phrase-index-search"
  BY DEF Suits, Offered
<1>4. \A a : CodeOfMissing(k, ask.tool, a) \in {"missing_vector_index", "internal_error"}
  <2> SUFFICES ASSUME NEW a
               PROVE  CodeOfMissing(k, ask.tool, a) \in {"missing_vector_index", "internal_error"}
    OBVIOUS
  <2>1. CASE a = "vector" /\ ~ Found(k, a)
    BY <2>1, Zenon DEF CodeOfMissing
  <2>2. CASE ~ (a = "vector" /\ ~ Found(k, a))
    BY <1>3, <2>2, Zenon DEF CodeOfMissing
  <2> QED
    BY <2>1, <2>2
<1> QED
  BY <1>2, <1>3, <1>4, Zenon DEF Code

LEMMA NotCalledIsACall ==
    NotCalled \in CallRecord
<1>1. Ask("none", {}) \in AnyAsk
  BY DEF AnyAsk
<1>2. <<>> \in Seq(Suitable) /\ 0 \in Nat
  OBVIOUS
<1> QED
  BY <1>1, <1>2 DEF NotCalled, CallRecord, Codes

LEMMA CallsInitHolds ==
    CallsInit => CallsInv
<1> SUFFICES ASSUME CallsInit PROVE CallsInv
  OBVIOUS
<1>1. config \in Config
  BY ConfigsAssumption DEF CallsInit, Config
<1>2. log \in Seq(LogRecord)
  BY DEF CallsInit
<1>3. call \in [Client -> CallRecord]
  BY NotCalledIsACall DEF CallsInit
<1>4. \A c \in Client : call[c].phase = "idle" /\ call[c].told = FALSE
  BY DEF CallsInit, NotCalled
<1> QED
  BY <1>1, <1>2, <1>3, <1>4 DEF CallsInv, Heeds, Obeys

\* One client's call changes, and the log stays.
LEMMA OneCallChanges ==
    ASSUME CallsInv, NEW c \in Client, NEW k \in CallRecord,
           call' = [call EXCEPT ![c] = k], log' = log, config' \in Config,
           Heeds(k), Obeys(k)
    PROVE  CallsInv'
<1>1. call' \in [Client -> CallRecord]
  BY DEF CallsInv
<1>2. ASSUME NEW e \in Client PROVE Heeds(call'[e])
  <2>1. call'[e] = IF e = c THEN k ELSE call[e]
    BY DEF CallsInv
  <2> QED
    BY <2>1 DEF CallsInv
<1>3. \A e \in Client : Heeds(call[e])'
  BY <1>2 DEF Heeds
<1>4. \A e \in Client : Obeys(call[e])'
  BY DEF CallsInv, Obeys
<1> QED
  BY <1>1, <1>3, <1>4 DEF CallsInv

LEMMA MakeCallKeeps ==
    ASSUME CallsInv, NEW c \in Client, NEW ask \in AnyAsk, NEW told \in BOOLEAN,
           told => Suits(ask),
           MakeCall(c, ask, told)
    PROVE  CallsInv'
<1> DEFINE k == [NotCalled EXCEPT !.phase = "running", !.ask = ask, !.told = told]
<1>1. k \in CallRecord /\ k.phase = "running"
  BY NotCalledIsACall DEF CallRecord
<1>2. Heeds(k) /\ Obeys(k)
  <2>1. k.told = told /\ k.ask = ask /\ k.code = "ok"
    BY DEF NotCalled
  <2> QED
    BY <1>1, <2>1 DEF Heeds, Obeys
<1>3. call' = [call EXCEPT ![c] = k] /\ log' = log /\ config' \in Config
  BY DEF MakeCall, CallsInv
<1> HIDE DEF k
<1> QED
  BY <1>1, <1>2, <1>3, OneCallChanges

LEMMA HealedIsAConfig ==
    ASSUME NEW k \in Config PROVE Healed(k) \in Config
<1>1. k.files \in [Root -> SUBSET (Part \cup {"raw"})]
  BY DEF Config
<1> DEFINE files == [k.files EXCEPT !["default"] = (@ \ {"raw"}) \cup {"passages"}]
<1>2. "passages" \in Part
  BY DEF Part
<1>3. files \in [Root -> SUBSET (Part \cup {"raw"})]
  BY <1>1, <1>2
<1>4. [k EXCEPT !.files = files] \in Config
  BY <1>3 DEF Config
<1>5. [k EXCEPT !.files["default"] = (@ \ {"raw"}) \cup {"passages"}]
        = [k EXCEPT !.files = files]
  OBVIOUS
<1> QED
  BY <1>4, <1>5 DEF Healed

LEMMA AnswerCallKeeps ==
    ASSUME CallsInv, NEW c \in Client, AnswerCall(c)
    PROVE  CallsInv'
<1> DEFINE ask == call[c].ask
           code == Code(config, ask)
<1>1. call[c] \in CallRecord /\ log \in Seq(LogRecord) /\ config \in Config
      /\ call \in [Client -> CallRecord]
  BY DEF CallsInv
<1>2. PICK next \in IF code = "ok" THEN Suggestions(ask.tool) ELSE {<<>>} :
            call' = [call EXCEPT ![c].phase = "answered", ![c].code = code, ![c].next = next,
                                 ![c].seen = Len(log)]
  BY DEF AnswerCall
<1> DEFINE k == [call[c] EXCEPT !.phase = "answered", !.code = code, !.next = next,
                                !.seen = Len(log)]
<1>3. code \in Codes
  BY CodeIsOneOf
<1>4. /\ next \in Seq(Suitable)
      /\ ask.tool = "search" => \A i \in DOMAIN next : next[i].tool \notin RecentTools
  <2>1. CASE code = "ok"
    <3> HIDE DEF code, ask
    <3> QED
      BY <1>2, <2>1, SuggestionsAreLists
  <2>2. CASE code # "ok"
    <3>1. next = <<>>
      BY <1>2, <2>2
    <3> QED
      BY <3>1
  <2> QED
    BY <2>1, <2>2
<1>5. config' \in Config /\ log' = log
  BY <1>1, HealedIsAConfig DEF AnswerCall
<1>6. call[c].told => Suits(ask) /\ code \in {"ok", "missing_vector_index", "internal_error"}
  BY WhatSuitsIsAnswered DEF CallsInv, Obeys
<1> HIDE DEF code
<1>7. call' = [call EXCEPT ![c] = k]
  BY <1>1, <1>2
<1>8. /\ k \in CallRecord
      /\ k.phase = "answered" /\ k.ask = ask /\ k.next = next /\ k.seen = Len(log)
      /\ k.told = call[c].told /\ k.code = code
  <2>1. Len(log) \in Nat /\ next \in Seq(Suitable) /\ code \in Codes
    BY <1>1, <1>3, <1>4
  <2>2. call[c] \in [phase : {"idle", "running", "answered"}, ask : AnyAsk, told : BOOLEAN,
                     code : Codes, next : Seq(Suitable), seen : Nat]
    BY <1>1 DEF CallRecord
  <2> HIDE <1>4
  <2> QED
    BY <2>1, <2>2 DEF CallRecord
<1> HIDE DEF k
<1>9. ASSUME \A j \in 1 .. Len(log) : log[j].written = "all", ask.tool = "search",
             NEW i \in DOMAIN next, NEW j \in 1 .. Len(log), j > Len(log) - Recent
      PROVE  next[i].tool # log[j].tool
  <2>1. Torn = {}
    BY <1>1, <1>9 DEF Torn
  <2>2. log[j].tool \in RecentTools
    BY <1>1, <1>9, <2>1, ToolCallsAssumption, LastCallsAreRecent
  <2> QED
    BY <1>4, <1>9, <2>2
<1>10. Heeds(k)
  <2>1. Len(log) <= Len(log)
    BY <1>1
  <2> HIDE DEF ask
  <2> QED
    BY <1>8, <1>9, <2>1 DEF Heeds
<1>11. Obeys(k)
  BY <1>8, <1>6 DEF Obeys
<1> QED
  BY <1>5, <1>7, <1>8, <1>10, <1>11, OneCallChanges

LEMMA LogCallKeeps ==
    ASSUME CallsInv, NEW c \in Client, NEW written \in Write, LogCall(c, written)
    PROVE  CallsInv'
<1> DEFINE rec == [tool |-> call[c].ask.tool, written |-> written]
<1>1. call[c] \in CallRecord /\ log \in Seq(LogRecord) /\ call \in [Client -> CallRecord]
  BY DEF CallsInv
<1>2. rec \in LogRecord
  BY <1>1 DEF LogRecord, CallRecord
<1>3. log' = Append(log, rec) /\ call' = [call EXCEPT ![c].phase = "idle"] /\ config' = config
  BY DEF LogCall
<1> HIDE DEF rec
<1>4. /\ log' \in Seq(LogRecord) /\ Len(log') = Len(log) + 1 /\ Len(log) \in Nat
      /\ \A j \in 1 .. Len(log) : log'[j] = log[j]
  BY <1>1, <1>2, <1>3
<1>5. call' \in [Client -> CallRecord]
  BY <1>1, <1>3 DEF CallRecord
<1>6. ASSUME NEW e \in Client PROVE Heeds(call[e])'
  <2>1. CASE e = c
    <3>1. call'[e].phase = "idle"
      BY <1>1, <1>3, <2>1 DEF CallRecord
    <3> QED
      BY <3>1 DEF Heeds
  <2>2. CASE e # c
    <3>1. call'[e] = call[e] /\ Heeds(call[e]) /\ call[e].seen \in Nat
      BY <1>3, <2>2 DEF CallsInv, CallRecord
    <3> DEFINE k == call[e]
    <3>2. ASSUME k.phase = "answered", k.ask.tool = "search"
          PROVE  /\ k.seen <= Len(log')
                 /\ (\A j \in 1 .. k.seen : log'[j].written = "all") =>
                      \A i \in DOMAIN k.next, j \in 1 .. k.seen :
                          j > k.seen - Recent => k.next[i].tool # log'[j].tool
      <4>1. /\ k.seen <= Len(log)
            /\ (\A j \in 1 .. k.seen : log[j].written = "all") =>
                 \A i \in DOMAIN k.next, j \in 1 .. k.seen :
                     j > k.seen - Recent => k.next[i].tool # log[j].tool
        BY <3>1, <3>2 DEF Heeds
      <4>2. k.seen <= Len(log') /\ \A j \in 1 .. k.seen : log'[j] = log[j]
        BY <1>4, <3>1, <4>1
      <4> QED
        BY <4>1, <4>2
    <3> QED
      BY <3>1, <3>2 DEF Heeds
  <2> QED
    BY <2>1, <2>2
<1>7. ASSUME NEW e \in Client PROVE Obeys(call[e])'
  <2>1. /\ call'[e].told = call[e].told /\ call'[e].ask = call[e].ask
        /\ call'[e].code = call[e].code
    BY <1>1, <1>3 DEF CallRecord
  <2>2. Obeys(call[e])
    BY DEF CallsInv
  <2> QED
    BY <2>1, <2>2 DEF Obeys
<1> QED
  BY <1>3, <1>4, <1>5, <1>6, <1>7 DEF CallsInv

LEMMA CallsNextKeeps ==
    CallsInv /\ [CallsNext]_callVars => CallsInv'
<1> SUFFICES ASSUME CallsInv, [CallsNext]_callVars PROVE CallsInv'
  OBVIOUS
<1>1. CASE UNCHANGED callVars
  BY <1>1 DEF callVars, CallsInv, Heeds, Obeys
<1>2. ASSUME NEW c \in Client, NEW ask \in Called, MakeCall(c, ask, FALSE) PROVE CallsInv'
  <2>1. ask \in AnyAsk
    BY DEF AnyAsk
  <2> QED
    BY <1>2, <2>1, MakeCallKeeps
<1>3. ASSUME NEW c \in Client, NEW i \in DOMAIN call[c].next,
             MakeCall(c, call[c].next[i], TRUE)
      PROVE  CallsInv'
  <2>1. call[c].next \in Seq(Suitable)
    BY DEF CallsInv, CallRecord
  <2>2. call[c].next[i] \in AnyAsk /\ Suits(call[c].next[i])
    BY <2>1 DEF Suitable
  <2> QED
    BY <1>3, <2>2, MakeCallKeeps
<1> QED
  BY <1>1, <1>2, <1>3, AnswerCallKeeps, LogCallKeeps DEF CallsNext

\* The commands that refusals name are accepted.
LEMMA RemediesParse ==
    \A code \in {"unknown_tool", "missing_phrase_index", "missing_vector_index"} :
        Parses(Remedy(code))
<1>1. ASSUME NEW path, NEW given, NEW c \in Commands, c.path = path, c.needs \subseteq given,
             given \subseteq c.needs \cup c.takes,
             path # <<"pdf-build">>, path # <<"export-pdf">>
      PROVE  Parses(Line(path, given))
  BY <1>1 DEF Parses, OneSource, Line
<1>2. Parses(Line(<<"tools-manifest">>, {}))
  <2> DEFINE c == Cmd(<<"tools-manifest">>, {}, {"pack", "format", "include-examples",
                      "include-schemas", "include-internal"})
  <2>1. c \in Commands
    BY DEF Commands, ToolCommands
  <2>2. c.path = <<"tools-manifest">> /\ c.needs = {}
    BY DEF Cmd
  <2>3. <<"tools-manifest">> # <<"pdf-build">> /\ <<"tools-manifest">> # <<"export-pdf">>
    OBVIOUS
  <2> HIDE DEF c
  <2> QED
    BY <1>1, <2>1, <2>2, <2>3
<1>3. Parses(Line(<<"index", "phrase">>, {"parquet", "out"}))
  <2> DEFINE c == Cmd(<<"index", "phrase">>, {}, {"parquet", "doc-table", "out", "gram-len",
                      "buckets", "temp-dir"})
  <2>1. c \in Commands
    BY DEF Commands, LexicalIndexCommands
  <2>2. c.path = <<"index", "phrase">> /\ c.needs = {} /\ {"parquet", "out"} \subseteq c.takes
    BY DEF Cmd
  <2>3. <<"index", "phrase">> # <<"pdf-build">> /\ <<"index", "phrase">> # <<"export-pdf">>
    OBVIOUS
  <2> HIDE DEF c
  <2> QED
    BY <1>1, <2>1, <2>2, <2>3
<1>4. Parses(Line(<<"index", "vector-build">>, {"embeddings", "model-id", "out"}))
  <2> DEFINE c == Cmd(<<"index", "vector-build">>, {"embeddings", "model-id"},
                      {"doc-table", "out", "model-revision", "source-fingerprint",
                       "embedding-text-template", "input-text-field-policy",
                       "truncation-policy", "max-input-chars", "pooling", "instruction",
                       "max-nb-connection", "ef-construction", "nb-layer", "resume",
                       "hnsw-threads"})
  <2>1. c \in Commands
    BY DEF Commands, LexicalIndexCommands
  <2>2. /\ c.path = <<"index", "vector-build">> /\ c.needs = {"embeddings", "model-id"}
        /\ "out" \in c.takes
    BY DEF Cmd
  <2>3. <<"index", "vector-build">> # <<"pdf-build">>
        /\ <<"index", "vector-build">> # <<"export-pdf">>
    OBVIOUS
  <2> HIDE DEF c
  <2> QED
    BY <1>1, <2>1, <2>2, <2>3
<1> QED
  BY <1>2, <1>3, <1>4, Zenon DEF Remedy

\* Of the codes a call can end with, only invalid_args comes with another command.
LEMMA RemediesAreCommands ==
    ASSUME NEW code \in Codes, code # "invalid_args", Remedy(code).path # <<>>
    PROVE  Parses(Remedy(code))
<1>1. code \notin {"ok", "readonly_violation", "internal_error",
                  "query_embedding_provider_not_configured"}
  BY DEF Remedy, Line
<1>2. code \in {"unknown_tool", "missing_phrase_index", "missing_vector_index"}
  BY <1>1 DEF Codes
<1> QED
  BY <1>2, RemediesParse

LEMMA CallsImplies ==
    CallsInv => CallsTypeOK /\ AvailableIsCallable /\ SuggestionsAreCallable /\ LogIsFaithful
<1> SUFFICES ASSUME CallsInv
             PROVE  CallsTypeOK /\ AvailableIsCallable /\ SuggestionsAreCallable /\ LogIsFaithful
  OBVIOUS
<1>1. config \in Config /\ log \in Seq(LogRecord) /\ call \in [Client -> CallRecord]
  BY DEF CallsInv
<1>2. CallsTypeOK
  <2>1. \A i \in DOMAIN log : log[i].written \in Write
    <3> SUFFICES ASSUME NEW i \in DOMAIN log PROVE log[i].written \in Write
      OBVIOUS
    <3>1. log[i] \in LogRecord
      BY <1>1
    <3> QED
      BY <3>1 DEF LogRecord
  <2>2. \A c \in Client : call[c].phase \in {"idle", "running", "answered"}
    BY <1>1 DEF CallRecord
  <2>3. /\ config.files \in [Root -> SUBSET (Part \cup {"raw"})] /\ config.named \subseteq Part
        /\ config.pack \in BOOLEAN /\ config.readonly \in BOOLEAN
    BY <1>1 DEF Config
  <2> QED
    BY <2>1, <2>2, <2>3 DEF CallsTypeOK
<1>3. IsText => Cardinality(DOMAIN log \ Records) <= 2 * Cardinality(Torn)
  BY <1>1, TornWritesCostTwo
<1>4. ASSUME NEW c \in Client, call[c].phase = "answered", call[c].ask.tool = "search",
             Torn = {}, NEW i \in DOMAIN call[c].next, NEW j \in 1 .. call[c].seen,
             j > call[c].seen - Recent
      PROVE  call[c].next[i].tool # log[j].tool
  <2>1. Heeds(call[c]) /\ call[c].seen \in Nat
    BY <1>1 DEF CallsInv, CallRecord
  <2>2. call[c].seen <= Len(log)
    BY <1>4, <2>1 DEF Heeds
  <2>3. \A l \in 1 .. call[c].seen : log[l].written = "all"
    BY <1>1, <1>4, <2>1, <2>2 DEF Torn
  <2> QED
    BY <1>4, <2>1, <2>3 DEF Heeds
<1>5. AvailableIsCallable
  BY <1>1, SightIsTrusted
<1>6. SuggestionsAreCallable
  <2>1. ASSUME NEW c \in Client, NEW i \in DOMAIN call[c].next
        PROVE  SuggestionIsCallable(call[c].next[i])
    <3>1. call[c].next \in Seq(Suitable)
      BY <1>1 DEF CallRecord
    <3>2. Suits(call[c].next[i])
      BY <3>1 DEF Suitable
    <3> QED
      BY <3>2, WhatSuitsIsCallable
  <2>2. \A c \in Client :
          call[c].told => call[c].code \in {"ok", "missing_vector_index", "internal_error"}
    BY DEF CallsInv, Obeys
  <2>3. \A c \in Client :
          Remedy(call[c].code).path # <<>> /\ call[c].code # "invalid_args"
            => Parses(Remedy(call[c].code))
    BY <1>1, RemediesAreCommands DEF CallRecord
  <2> QED
    BY <2>1, <2>2, <2>3, ExamplesCanBeCalled DEF SuggestionsAreCallable
<1> QED
  BY <1>2, <1>3, <1>4, <1>5, <1>6 DEF LogIsFaithful

\* The inductive invariant of the calls and the log, for any agents, files, calls and tears.
THEOREM CallsInvariant == CallsInit /\ [][CallsNext]_callVars => []CallsInv
  BY CallsInitHolds, CallsNextKeeps, PTL

\* A write that is cut short costs its own record and at most the next, and a search
\* suggests no tool that one of the last Recent calls on record was of (LogIsFaithful;
\* log.rs:110-128, engine.rs:2413-2429).
THEOREM LogIsFaithfulHolds == CallsInit /\ [][CallsNext]_callVars => []LogIsFaithful
  BY CallsInvariant, CallsImplies, PTL

\* Whatever files there are and however the engine was started: where all there is is of one
\* build, a tool or a workflow the manifest calls available is not refused for want of an
\* artefact, and a workflow it calls full loses no stage (AvailableIsCallable; registry.rs and
\* tools_manifest.rs, against engine.rs).
THEOREM AvailableToolsAnswer == CallsInit /\ [][CallsNext]_callVars => []AvailableIsCallable
  BY CallsInvariant, CallsImplies, PTL

\* What a reply or an example says to call can be called, is not turned away for what it is
\* when it is called; and a refusal that names a command names one that is accepted, but
\* for invalid_args, whose `sinorag explain-tool` is no command (SuggestionsAreCallable;
\* engine.rs and errors.rs, against requests.rs, registry.rs, cli.rs).
THEOREM SuggestionsHold == CallsInit /\ [][CallsNext]_callVars => []SuggestionsAreCallable
  BY CallsInvariant, CallsImplies, PTL

-----------------------------------------------------------------------------
(* The two modules beside each other, as they are checked.                 *)

LEMMA BatchRests ==
    BatchAtRest => BatchInv
<1> SUFFICES ASSUME BatchAtRest PROVE BatchInv
  OBVIOUS
<1> DEFINE said == Report(1, "parse", FALSE, {})
<1>1. /\ batch = <<BadLine>> /\ output = <<said>> /\ completed = <<>> /\ at = "done"
      /\ pending = {} /\ postponed = {} /\ inflight = {} /\ progress = FALSE
      /\ frontend = "run-tools"
  BY DEF BatchAtRest
<1>2. DOMAIN batch = 1 .. 1 /\ batch[1] = BadLine /\ batch \in [1 .. 1 -> {BadLine}]
  BY <1>1
<1>3. 1 \in 1 .. MaxJobs
  BY WorkersAssumption
<1>4. batch \in Batches
  <2>1. batch \in [1 .. 1 -> Job \cup {BadLine}]
    BY <1>2
  <2> QED
    BY <1>3, <2>1 DEF Batches
<1>5. /\ said \in Envelope /\ said.kind = "parse" /\ said.job = 1
  BY <1>3 DEF Report, Envelope, Kind
<1> HIDE DEF said
<1>6. /\ output \in Seq(Envelope) /\ Len(output) = 1 /\ DOMAIN output = 1 .. 1
      /\ output[1] = said
  BY <1>1, <1>5
<1>7. \A k \in DOMAIN output : k = 1 /\ output[k].kind = "parse" /\ output[k].job = 1
  BY <1>5, <1>6
<1>8. Typed
  <2>1. completed \in [{} -> BOOLEAN]
    BY <1>1
  <2>2. completed \in UNION {[S -> BOOLEAN] : S \in SUBSET Id}
    BY <2>1
  <2>3. IsFiniteSet(inflight) /\ Cardinality(inflight) <= Workers
    BY <1>1, FS_EmptySet, WorkersAssumption
  <2> QED
    BY <1>1, <1>4, <1>6, <2>2, <2>3 DEF Typed
<1>9. PlacesOK
  BY <1>1, <1>2, <1>7 DEF PlacesOK, Held, Reported, Stopping, Stopped
<1>10. StageOK
  BY <1>1, <1>7 DEF StageOK
<1>11. \A d : Places(output, batch, d, Now) = {}
  <2>1. \A j \in 1 .. Now - 1 : j \in DOMAIN output
    BY <1>6 DEF Now
  <2> QED
    BY <1>7, <2>1 DEF Places
<1>12. RecordsOK
  BY <1>1, <1>11 DEF RecordsOK
<1>13. WaitsOK
  BY <1>1 DEF WaitsOK
<1>14. Decided /\ GivenUp /\ RunBatchNamesMissing
  BY <1>7 DEF Decided, GivenUp, RunBatchNamesMissing
<1> QED
  BY <1>8, <1>9, <1>10, <1>12, <1>13, <1>14 DEF BatchInv

LEMMA CallsRest ==
    CallsAtRest => CallsInv
<1> SUFFICES ASSUME CallsAtRest PROVE CallsInv
  OBVIOUS
<1>1. config = Still /\ log = <<>> /\ call = [c \in Client |-> NotCalled]
  BY DEF CallsAtRest
<1>2. config \in Config
  <2> DEFINE files == [root \in Root |-> CASE root = "named" -> {}
                                           [] root = "pack" -> {}
                                           [] root = "default" -> {}]
  <2>1. files \in [Root -> SUBSET (Part \cup {"raw"})]
    <3> DEFINE of(root) == CASE root = "named" -> {} [] root = "pack" -> {}
                             [] root = "default" -> {}
    <3>1. of("named") = {} /\ of("pack") = {} /\ of("default") = {}
      BY Zenon
    <3>2. \A root \in Root : of(root) = {}
      <4> HIDE DEF of
      <4> QED
        BY <3>1 DEF Root
    <3>3. files = [root \in Root |-> of(root)]
      BY Zenon
    <3> HIDE DEF of, files
    <3> QED
      BY <3>2, <3>3
  <2> HIDE DEF files
  <2>2. [files |-> files, named |-> {}, pack |-> FALSE, readonly |-> FALSE] \in Config
    BY <2>1 DEF Config
  <2>3. Still = [files |-> files, named |-> {}, pack |-> FALSE, readonly |-> FALSE]
    BY Zenon DEF Still, Start, files
  <2> QED
    BY <1>1, <2>2, <2>3
<1>3. log \in Seq(LogRecord) /\ call \in [Client -> CallRecord]
  BY <1>1, NotCalledIsACall
<1>4. \A c \in Client : call[c].phase = "idle" /\ call[c].told = FALSE
  BY <1>1 DEF NotCalled
<1> QED
  BY <1>2, <1>3, <1>4 DEF CallsInv, Heeds, Obeys

LEMMA BesideInit ==
    MCInit => BatchInv /\ CallsInv
  BY BatchInit, BatchRests, CallsInitHolds, CallsRest DEF MCInit

LEMMA BesideNext ==
    BatchInv /\ CallsInv /\ [MCNext]_<<vars, callVars>> => BatchInv' /\ CallsInv'
<1>1. [MCNext]_<<vars, callVars>> => [Next]_vars /\ [CallsNext]_callVars
  BY DEF MCNext
<1> QED
  BY <1>1, BatchNext, CallsNextKeeps

\* The variables of the batches and of the calls keep their types (MCTypeOK).
THEOREM MCTypesHold == MCSpec => []MCTypeOK
<1>1. BatchInv /\ CallsInv => MCTypeOK
  BY BatchImplies, CallsImplies DEF MCTypeOK
<1> QED
  BY <1>1, BesideInit, BesideNext, PTL DEF MCSpec
=============================================================================
