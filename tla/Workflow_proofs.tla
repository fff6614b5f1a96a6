--------------------------- MODULE Workflow_proofs ---------------------------
(***************************************************************************)
(* Proofs about the calls of one engine (Workflow): any calls, requests,   *)
(* artefacts, lists of candidates, limits and number of replacements.      *)
(*                                                                         *)
(* A call's progress k is looked at on its own, with what its batch has    *)
(* answered (rs) and the time t: Sound(k, rs, t) holds of every call, and  *)
(* a step of one call touches no other's.                                  *)
(***************************************************************************)
EXTENDS Workflow, FiniteSetTheorems, SequenceTheorems, TLAPS

-----------------------------------------------------------------------------
(* The plans.                                                              *)

AnyRequest == UNION Range(Requests)
ToolName ==
    {"query-expand-terms", "search", "absence-check", "first-attestation", "phrase-history",
     "trace-term-usage", "cluster-hits", "vector-neighbors", "similar", "expand-context-adaptive",
     "passage", "frontier", "scope-profile", "compare-usage", "validate-adjudication", "graph-build",
     "report-build"} \cup {r.tool : r \in AnyRequest}
ComponentName ==
    {"query_expansion", "exact_search", "absence_check", "first_attestation", "phrase_history",
     "term_usage", "clusters", "vector_neighbors", "tfidf_similar", "context", "seed_passage",
     "frontier", "similar", "workflow_options", "scope_comparison", "validation", "graph", "report"}
    \cup {r.tool : r \in AnyRequest}
PlanStep == [name : ComponentName, tool : ToolName, must : BOOLEAN, free : BOOLEAN]

LEMMA RequestFacts ==
    /\ \A r \in AnyRequest : /\ r.phrases \in Nat /\ r.concurrency \in Nat /\ r.limit \in Nat
                             /\ r.max_elapsed \in Limit /\ r.max_component \in Limit
    /\ \A c \in Calls : Requests[c] # {} /\ Requests[c] \subseteq AnyRequest
BY RequestsAssumption DEF AnyRequest, Range

LEMMA ComponentType ==
    ASSUME NEW n \in ComponentName, NEW t \in ToolName
    PROVE  /\ Component(n, t) \in PlanStep /\ Component(n, t).name = n /\ Component(n, t).free = FALSE
           /\ Mandatory(n, t) \in PlanStep /\ Mandatory(n, t).name = n /\ Mandatory(n, t).free = FALSE
           /\ Unbudgeted(n, t) \in PlanStep /\ Unbudgeted(n, t).name = n /\ Unbudgeted(n, t).free = TRUE
<1>1. Component(n, t) \in PlanStep /\ Component(n, t).name = n /\ Component(n, t).free = FALSE
  BY DEF Component, PlanStep
<1>2. Mandatory(n, t) \in PlanStep /\ Mandatory(n, t).name = n /\ Mandatory(n, t).free = FALSE
  BY <1>1 DEF Mandatory, PlanStep
<1>3. Unbudgeted(n, t) \in PlanStep /\ Unbudgeted(n, t).name = n /\ Unbudgeted(n, t).free = TRUE
  BY <1>2 DEF Unbudgeted, PlanStep
<1> QED
  BY <1>1, <1>2, <1>3

\* What the budget does not govern comes first.
FreeFirst(plan) == \A i, j \in DOMAIN plan : i < j /\ plan[j].free => plan[i].free

\* A plan of no more than seven components of which all, none or the first are free.
LEMMA ShortPlan ==
    ASSUME NEW plan \in Seq(PlanStep), Len(plan) <= 7,
           \/ \A i \in 1 .. 7 : i <= Len(plan) => plan[i].free
           \/ \A i \in 2 .. 7 : i <= Len(plan) => ~plan[i].free
    PROVE  FreeFirst(plan)
BY DEF FreeFirst

LEMMA FixedPlans ==
    \A plan \in {EvidencePlan, HybridPlan, ProfilePlan, ReportPlan} :
        plan \in Seq(PlanStep) /\ FreeFirst(plan)
<1>1. EvidencePlan \in Seq(PlanStep) /\ FreeFirst(EvidencePlan)
  <2> DEFINE e1 == Unbudgeted("query_expansion", "query-expand-terms")
             e2 == Mandatory("exact_search", "search")
             e3 == Component("absence_check", "absence-check")
             e4 == Component("first_attestation", "first-attestation")
             e5 == Component("phrase_history", "phrase-history")
             e6 == Component("term_usage", "trace-term-usage")
             e7 == Component("clusters", "cluster-hits")
  <2>1. EvidencePlan = <<e1, e2, e3, e4, e5, e6, e7>>
    BY DEF EvidencePlan
  <2>2. e1 \in PlanStep /\ e1.free
    BY ComponentType DEF ComponentName, ToolName
  <2>3. e2 \in PlanStep /\ ~e2.free
    BY ComponentType DEF ComponentName, ToolName
  <2>4. e3 \in PlanStep /\ ~e3.free
    BY ComponentType DEF ComponentName, ToolName
  <2>5. e4 \in PlanStep /\ ~e4.free
    BY ComponentType DEF ComponentName, ToolName
  <2>6. e5 \in PlanStep /\ ~e5.free
    BY ComponentType DEF ComponentName, ToolName
  <2>7. e6 \in PlanStep /\ ~e6.free
    BY ComponentType DEF ComponentName, ToolName
  <2>8. e7 \in PlanStep /\ ~e7.free
    BY ComponentType DEF ComponentName, ToolName
  <2> HIDE DEF e1, e2, e3, e4, e5, e6, e7
  <2>9. /\ EvidencePlan \in Seq(PlanStep) /\ Len(EvidencePlan) = 7
        /\ ~EvidencePlan[2].free /\ ~EvidencePlan[3].free /\ ~EvidencePlan[4].free /\ ~EvidencePlan[5].free /\ ~EvidencePlan[6].free /\ ~EvidencePlan[7].free
    BY <2>1, <2>2, <2>3, <2>4, <2>5, <2>6, <2>7, <2>8
  <2>10. \A i \in 2 .. 7 : i <= 7 => i = 2 \/ i = 3 \/ i = 4 \/ i = 5 \/ i = 6 \/ i = 7
    OBVIOUS
  <2>11. \A i \in 2 .. 7 : i <= Len(EvidencePlan) => ~EvidencePlan[i].free
    BY <2>9, <2>10
  <2>12. Len(EvidencePlan) <= 7
    BY <2>9
  <2> QED
    BY <2>9, <2>11, <2>12, ShortPlan
<1>2. HybridPlan \in Seq(PlanStep) /\ FreeFirst(HybridPlan)
  <2> DEFINE e1 == Component("vector_neighbors", "vector-neighbors")
             e2 == Component("tfidf_similar", "similar")
             e3 == Component("context", "expand-context-adaptive")
  <2>1. HybridPlan = <<e1, e2, e3>>
    BY DEF HybridPlan
  <2>2. e1 \in PlanStep /\ ~e1.free
    BY ComponentType DEF ComponentName, ToolName
  <2>3. e2 \in PlanStep /\ ~e2.free
    BY ComponentType DEF ComponentName, ToolName
  <2>4. e3 \in PlanStep /\ ~e3.free
    BY ComponentType DEF ComponentName, ToolName
  <2> HIDE DEF e1, e2, e3
  <2>5. /\ HybridPlan \in Seq(PlanStep) /\ Len(HybridPlan) = 3
        /\ ~HybridPlan[2].free /\ ~HybridPlan[3].free
    BY <2>1, <2>2, <2>3, <2>4
  <2>6. \A i \in 2 .. 7 : i <= 3 => i = 2 \/ i = 3
    OBVIOUS
  <2>7. \A i \in 2 .. 7 : i <= Len(HybridPlan) => ~HybridPlan[i].free
    BY <2>5, <2>6
  <2>8. Len(HybridPlan) <= 7
    BY <2>5
  <2> QED
    BY <2>5, <2>7, <2>8, ShortPlan
<1>3. ProfilePlan \in Seq(PlanStep) /\ FreeFirst(ProfilePlan)
  <2> DEFINE e1 == Unbudgeted("workflow_options", "scope-profile")
             e2 == Unbudgeted("scope_comparison", "compare-usage")
             e3 == [Unbudgeted("term_usage", "trace-term-usage") EXCEPT !.must = FALSE]
  <2>1. ProfilePlan = <<e1, e2, e3>>
    BY DEF ProfilePlan
  <2>2. e1 \in PlanStep /\ e1.free
    BY ComponentType DEF ComponentName, ToolName
  <2>3. e2 \in PlanStep /\ e2.free
    BY ComponentType DEF ComponentName, ToolName
  <2>4. e3 \in PlanStep /\ e3.free
    <3> DEFINE e == Unbudgeted("term_usage", "trace-term-usage")
    <3>1. e \in PlanStep /\ e.free
      BY ComponentType DEF ComponentName, ToolName
    <3> HIDE DEF e
    <3>2. [e EXCEPT !.must = FALSE] \in PlanStep /\ [e EXCEPT !.must = FALSE].free
      BY <3>1 DEF PlanStep
    <3> QED
      BY <3>2 DEF e
  <2> HIDE DEF e1, e2, e3
  <2>5. /\ ProfilePlan \in Seq(PlanStep) /\ Len(ProfilePlan) = 3
        /\ ProfilePlan[1].free /\ ProfilePlan[2].free /\ ProfilePlan[3].free
    BY <2>1, <2>2, <2>3, <2>4
  <2>6. \A i \in 1 .. 7 : i <= 3 => i = 1 \/ i = 2 \/ i = 3
    OBVIOUS
  <2>7. \A i \in 1 .. 7 : i <= Len(ProfilePlan) => ProfilePlan[i].free
    BY <2>5, <2>6
  <2>8. Len(ProfilePlan) <= 7
    BY <2>5
  <2> QED
    BY <2>5, <2>7, <2>8, ShortPlan
<1>4. ReportPlan \in Seq(PlanStep) /\ FreeFirst(ReportPlan)
  <2> DEFINE e1 == Unbudgeted("validation", "validate-adjudication")
             e2 == Unbudgeted("graph", "graph-build")
             e3 == Unbudgeted("report", "report-build")
  <2>1. ReportPlan = <<e1, e2, e3>>
    BY DEF ReportPlan
  <2>2. e1 \in PlanStep /\ e1.free
    BY ComponentType DEF ComponentName, ToolName
  <2>3. e2 \in PlanStep /\ e2.free
    BY ComponentType DEF ComponentName, ToolName
  <2>4. e3 \in PlanStep /\ e3.free
    BY ComponentType DEF ComponentName, ToolName
  <2> HIDE DEF e1, e2, e3
  <2>5. /\ ReportPlan \in Seq(PlanStep) /\ Len(ReportPlan) = 3
        /\ ReportPlan[1].free /\ ReportPlan[2].free /\ ReportPlan[3].free
    BY <2>1, <2>2, <2>3, <2>4
  <2>6. \A i \in 1 .. 7 : i <= 3 => i = 1 \/ i = 2 \/ i = 3
    OBVIOUS
  <2>7. \A i \in 1 .. 7 : i <= Len(ReportPlan) => ReportPlan[i].free
    BY <2>5, <2>6
  <2>8. Len(ReportPlan) <= 7
    BY <2>5
  <2> QED
    BY <2>5, <2>7, <2>8, ShortPlan
<1> QED
  BY <1>1, <1>2, <1>3, <1>4

\* source-investigate: the frontier is its third component and the similar passages
\* are its fourth.
LEMMA InvestigatePlanFacts ==
    ASSUME NEW n \in Nat
    PROVE  LET plan == InvestigatePlan(n) IN
           /\ plan \in Seq(PlanStep) /\ FreeFirst(plan)
           /\ \A i \in DOMAIN plan : /\ plan[i].name = "frontier" <=> i = 3
                                     /\ plan[i].name = "similar" <=> i = 4
<1> DEFINE e1 == Unbudgeted("seed_passage", "passage")
           e2 == Component("context", "expand-context-adaptive")
           e3 == Component("frontier", "frontier")
           e4 == Component("similar", "similar")
           e5 == Component("vector_neighbors", "vector-neighbors")
           e6 == Component("phrase_history", "phrase-history")
           head == <<e1, e2, e3, e4, e5>>
           tail == [i \in 1 .. n |-> e6]
<1>1. InvestigatePlan(n) = head \o tail
  BY DEF InvestigatePlan
<1>2. /\ e1 \in PlanStep /\ e1.free /\ e1.name = "seed_passage"
      /\ e2 \in PlanStep /\ ~e2.free /\ e2.name = "context"
      /\ e3 \in PlanStep /\ ~e3.free /\ e3.name = "frontier"
      /\ e4 \in PlanStep /\ ~e4.free /\ e4.name = "similar"
      /\ e5 \in PlanStep /\ ~e5.free /\ e5.name = "vector_neighbors"
      /\ e6 \in PlanStep /\ ~e6.free /\ e6.name = "phrase_history"
  BY ComponentType DEF ComponentName, ToolName
<1> HIDE DEF e1, e2, e3, e4, e5, e6
<1>3. /\ head \in Seq(PlanStep) /\ Len(head) = 5
      /\ head[1] = e1 /\ head[2] = e2 /\ head[3] = e3 /\ head[4] = e4 /\ head[5] = e5
  BY <1>2
<1>10. /\ tail \in Seq(PlanStep) /\ Len(tail) = n
       /\ \A i \in 1 .. n : tail[i] = e6
  BY <1>2
<1> HIDE DEF head, tail
<1>4. /\ head \o tail \in Seq(PlanStep) /\ Len(head \o tail) = 5 + n
      /\ \A i \in 1 .. 5 + n : (head \o tail)[i] = IF i <= 5 THEN head[i] ELSE tail[i - 5]
  <2>1. /\ head \o tail \in Seq(PlanStep) /\ Len(head \o tail) = Len(head) + Len(tail)
        /\ \A i \in 1 .. Len(head) + Len(tail) :
             (head \o tail)[i] = IF i <= Len(head) THEN head[i] ELSE tail[i - Len(head)]
    BY <1>3, <1>10, ConcatProperties
  <2> QED
    BY <2>1, <1>3, <1>10
<1>5. \A i \in 1 .. 5 + n : i > 5 => /\ (head \o tail)[i].name = "phrase_history"
                                     /\ ~(head \o tail)[i].free
  BY <1>2, <1>10, <1>4
<1>6. \A i \in 1 .. 5 + n : i = 1 \/ i = 2 \/ i = 3 \/ i = 4 \/ i = 5 \/ i > 5
  OBVIOUS
<1>7. \A i \in 1 .. 5 + n : /\ (head \o tail)[i].name = "frontier" <=> i = 3
                            /\ (head \o tail)[i].name = "similar" <=> i = 4
                            /\ (head \o tail)[i].free => i = 1
  BY <1>2, <1>3, <1>4, <1>5, <1>6
<1>8. DOMAIN (head \o tail) = 1 .. 5 + n
  BY <1>4
<1>9. FreeFirst(head \o tail)
  BY <1>7, <1>8 DEF FreeFirst
<1> QED
  BY <1>1, <1>4, <1>7, <1>8, <1>9

LEMMA PlanFacts ==
    ASSUME NEW r \in AnyRequest
    PROVE  /\ Plan(r) \in Seq(PlanStep) /\ FreeFirst(Plan(r))
           /\ r.tool = "report-from-evidence" => Len(Plan(r)) = 3 /\ Plan(r)[1].name = "validation"
           /\ r.tool = "source-investigate" =>
                \A i \in DOMAIN Plan(r) : /\ Plan(r)[i].name = "frontier" <=> i = 3
                                          /\ Plan(r)[i].name = "similar" <=> i = 4
<1> USE DEF Plan
<1>0. r.tool \in ComponentName /\ r.tool \in ToolName /\ r.phrases \in Nat
  BY RequestFacts DEF ComponentName, ToolName
<1>1. CASE r.tool = "evidence-search"
  BY <1>1, FixedPlans
<1>2. CASE r.tool = "hybrid-discover"
  BY <1>2, FixedPlans
<1>3. CASE r.tool = "source-investigate"
  BY <1>0, <1>3, InvestigatePlanFacts
<1>4. CASE r.tool = "scope-profile"
  BY <1>4, FixedPlans
<1>5. CASE r.tool = "report-from-evidence"
  BY <1>5, FixedPlans DEF ReportPlan, Unbudgeted, Mandatory, Component
<1>6. CASE r.tool = "batch-evidence-search"
  BY <1>6 DEF FreeFirst
<1>7. CASE r.tool \notin {"evidence-search", "hybrid-discover", "source-investigate", "scope-profile",
                          "report-from-evidence", "batch-evidence-search"}
  <2>1. Plan(r) = <<Unbudgeted(r.tool, r.tool)>>
    BY <1>7
  <2>2. Unbudgeted(r.tool, r.tool) \in PlanStep
    BY <1>0, ComponentType
  <2> QED
    BY <1>7, <2>1, <2>2 DEF FreeFirst
<1> QED
  BY <1>1, <1>2, <1>3, <1>4, <1>5, <1>6, <1>7

-----------------------------------------------------------------------------
(* What holds of a call at all times.                                      *)

Progress ==
    [phase : {"idle", "running", "answering", "done"}, request : AnyRequest, started : Nat,
     step : Nat \ {0}, at : Nat, limit : Int, comps : Seq(ComponentName \X Status),
     warned : SUBSET Nat, overran : Nat, vector : Seq(STRING), lexical : Seq(STRING),
     reply : {"none", "ok", "error", "timeout", "readonly_violation", "invalid_args"}]
BatchResult == [index : Nat, ok : BOOLEAN]

Asks(k, tool) == k.request.tool = tool
OnComponent(k) == k.phase = "running" /\ k.at > 0
Current(k) == Plan(k.request)[k.step]
Spent(k, t) == k.request.max_elapsed # None /\ t - k.started >= k.request.max_elapsed
Skipped(k) == \E i \in 1 .. Len(k.comps) : k.comps[i][2] = "skipped_budget"
HadFrontier(k) == \E i \in 1 .. Len(k.comps) : k.comps[i] = <<"frontier", "ok">>
Warns(name, status) ==
    status \in {"failed", "timed_out"} \/ (name = "vector_neighbors" /\ status = "unavailable")

Timely(k, t) == k.started <= t /\ (k.limit = None \/ k.limit >= k.started + MinEnforceable)

\* An error of the call is the error of a component it cannot do without.
Replied(k) ==
    /\ k.phase \in {"idle", "running"} => k.reply = "none"
    /\ k.reply = "ok" => k.phase = "done"
    /\ k.reply \in {"error", "timeout"} => Current(k).must

\* A report whose adjudication is not valid: the plan ends with the validation.
Cut(k) == /\ Asks(k, "report-from-evidence") /\ k.comps = <<<<"validation", "ok">>>>
          /\ k.step = Len(Plan(k.request)) + 1

\* The reports are those of the first components of the plan; only a phrase that the
\* budget refused, and an adjudication that is not valid, end the plan early.
Reporting(k) ==
    LET plan == Plan(k.request)
        n == Len(k.comps)
    IN  ~Asks(k, "batch-evidence-search") =>
        /\ n <= Len(plan) /\ \A i \in 1 .. n : k.comps[i][1] = plan[i].name
        /\ \/ k.step = n + 1
           \/ /\ Asks(k, "source-investigate") /\ k.step = Len(plan) + 1
              /\ n > 0 /\ k.comps[n] = <<"phrase_history", "skipped_budget">>
           \/ Cut(k)
        /\ ~Asks(k, "scope-profile") =>
             k.warned = {i \in 1 .. n : Warns(k.comps[i][1], k.comps[i][2]) \/ Cut(k)}
        /\ k.reply = "ok" => k.step > Len(plan)
        /\ OnComponent(k) => k.step <= Len(plan)

\* The budget that was overrun, or refused a component, is spent; so no component it
\* governs is begun afterwards.
Budgeted(k, t) ==
    LET plan == Plan(k.request)
        n == Len(k.comps)
    IN  /\ k.overran <= 1 /\ (k.overran = 1 => Spent(k, t))
        /\ \A i \in 1 .. n : k.comps[i][2] = "skipped_budget" => Spent(k, t) /\ ~plan[i].free
        /\ \A i, j \in 1 .. n : i < j /\ k.comps[i][2] = "skipped_budget" =>
             k.comps[j][2] \in {"skipped_budget", "not_requested", "unavailable"}
        /\ OnComponent(k) => ~Skipped(k) /\ (Current(k).free \/ k.overran = 0)

\* Where the frontier was had, the similar passages are not searched.
Shared(k) ==
    Asks(k, "source-investigate") /\ HadFrontier(k) =>
        /\ OnComponent(k) => Current(k).name # "similar"
        /\ \A i \in 1 .. Len(k.comps) :
             k.comps[i][1] = "similar" => k.comps[i][2] \notin {"failed", "timed_out", "skipped_budget"}

Pending(k, rs) == {i \in 1 .. k.step - 1 : \A j \in DOMAIN rs : rs[j].index # i}

\* A batch answers each of the searches it began once.
Batched(k, rs) ==
    /\ k.phase = "idle" => rs = << >>
    /\ ~Asks(k, "batch-evidence-search") => rs = << >>
    /\ Asks(k, "batch-evidence-search") =>
         /\ k.phase # "answering" /\ k.reply \in {"none", "ok"} /\ k.at = 0
         /\ k.comps = << >> /\ k.overran = 0
         /\ k.step - 1 <= k.request.phrases
         /\ \A i \in DOMAIN rs : rs[i].index \in 1 .. k.step - 1
         /\ \A i, j \in DOMAIN rs : rs[i].index = rs[j].index => i = j
         /\ Cardinality(Pending(k, rs)) <= 8
         /\ k.phase = "done" => /\ Len(rs) = k.request.phrases
                                /\ \A i \in DOMAIN rs : rs[i].index = i

Sound(k, rs, t) ==
    Timely(k, t) /\ Replied(k) /\ Reporting(k) /\ Budgeted(k, t) /\ Shared(k) /\ Batched(k, rs)

WorkflowInv ==
    /\ files \in [Artefact -> {"none", "good", "bad"}] /\ changes \in 0 .. MaxChanges
    /\ cell \in [Cell -> {"empty", "held"} \cup Calls]
    /\ clock \in 0 .. MaxClock
    /\ task \in [Calls -> Progress] /\ results \in [Calls -> Seq(BatchResult)]
    /\ \A c \in Calls : Sound(task[c], results[c], clock)

LEMMA ProgressFacts ==
    ASSUME NEW k \in Progress
    PROVE  /\ k.request \in AnyRequest /\ k.started \in Nat /\ k.step \in Nat /\ k.step > 0
           /\ k.at \in Nat /\ k.limit \in Int /\ k.comps \in Seq(ComponentName \X Status)
           /\ Len(k.comps) \in Nat /\ k.overran \in Nat
           /\ k.request.max_elapsed \in Limit /\ k.request.max_component \in Limit
           /\ k.request.phrases \in Nat /\ k.request.concurrency \in Nat /\ k.request.limit \in Nat
           /\ Plan(k.request) \in Seq(PlanStep) /\ Len(Plan(k.request)) \in Nat
           /\ DOMAIN Plan(k.request) = 1 .. Len(Plan(k.request))
<1>1. /\ k.request \in AnyRequest /\ k.started \in Nat /\ k.step \in Nat /\ k.step > 0
      /\ k.at \in Nat /\ k.limit \in Int /\ k.comps \in Seq(ComponentName \X Status)
      /\ k.overran \in Nat
  BY DEF Progress
<1>2. Plan(k.request) \in Seq(PlanStep)
  BY <1>1, PlanFacts
<1> QED
  BY <1>1, <1>2, RequestFacts

\* One more report of a call that was between components or on one.
LEMMA ReportSound ==
    ASSUME NEW k \in Progress, NEW rs \in Seq(BatchResult), NEW t \in Nat, Sound(k, rs, t),
           k.phase = "running", ~Asks(k, "batch-evidence-search"), k.step <= Len(Plan(k.request)),
           NEW status \in Status, NEW k2 \in Progress,
           k2.phase = "running", k2.reply = k.reply, k2.request = k.request, k2.started = k.started,
           k2.at = 0, k2.limit = None,
           k2.comps = Append(k.comps, <<Current(k).name, status>>),
           \/ k2.step = k.step + 1
           \/ /\ Asks(k, "source-investigate") /\ Current(k).name = "phrase_history"
              /\ status = "skipped_budget" /\ k2.step = Len(Plan(k.request)) + 1,
           ~Asks(k, "scope-profile") =>
               k2.warned = IF Warns(Current(k).name, status) THEN k.warned \cup {k.step} ELSE k.warned,
           \/ k2.overran = k.overran
           \/ (k2.overran = 1 /\ Spent(k, t)),
           status = "skipped_budget" => Spent(k, t) /\ ~Current(k).free,
           Skipped(k) => status \in {"skipped_budget", "not_requested", "unavailable"},
           Asks(k, "source-investigate") /\ Current(k).name = "similar" /\ HadFrontier(k) =>
               status \notin {"failed", "timed_out", "skipped_budget"}
    PROVE  Sound(k2, rs, t)
<1> DEFINE plan == Plan(k.request)
           n == Len(k.comps)
<1>1. /\ n \in Nat /\ k.step \in Nat /\ Len(plan) \in Nat
      /\ plan \in Seq(PlanStep) /\ k.comps \in Seq(ComponentName \X Status)
      /\ k.started \in Nat /\ k.overran \in Nat
  BY ProgressFacts
<1>0. /\ n <= Len(plan) /\ \A i \in 1 .. n : k.comps[i][1] = plan[i].name
      /\ k.step = n + 1 \/ k.step = Len(plan) + 1
      /\ ~Asks(k, "scope-profile") =>
           k.warned = {i \in 1 .. n : Warns(k.comps[i][1], k.comps[i][2])}
  <2>1. Reporting(k)
    BY DEF Sound
  <2>2. ~Cut(k)
    BY <1>1 DEF Cut
  <2> QED
    BY <2>1, <2>2 DEF Reporting
<1>2. n = k.step - 1 /\ n + 1 = k.step /\ n + 1 <= Len(plan)
  BY <1>0, <1>1
<1>3. /\ Len(k2.comps) = n + 1
      /\ k2.comps[n + 1] = <<Current(k).name, status>>
      /\ \A i \in 1 .. n : k2.comps[i] = k.comps[i]
  BY <1>1
<1>4. Spent(k2, t) <=> Spent(k, t)
  BY DEF Spent
<1>5. ~OnComponent(k2)
  BY DEF OnComponent
<1>6. Timely(k2, t)
  BY DEF Sound, Timely
<1>7. Replied(k2)
  BY DEF Sound, Replied
<1>8. Reporting(k2)
  <2>1. \A i \in 1 .. n + 1 : i \in 1 .. n \/ i = n + 1
    BY <1>1
  <2>2. \A i \in 1 .. n + 1 : k2.comps[i][1] = plan[i].name
    <3>1. k2.comps[n + 1][1] = plan[n + 1].name
      BY <1>2, <1>3 DEF Current
    <3> QED
      BY <2>1, <3>1, <1>0, <1>3
  <2>3. \/ k2.step = n + 2
        \/ /\ Asks(k2, "source-investigate") /\ k2.step = Len(plan) + 1
           /\ k2.comps[n + 1] = <<"phrase_history", "skipped_budget">>
    <3>1. CASE k2.step = k.step + 1
      BY <3>1, <1>1, <1>2
    <3>2. CASE ~(k2.step = k.step + 1)
      BY <3>2, <1>3 DEF Asks
    <3> QED
      BY <3>1, <3>2
  <2>4. ~Asks(k2, "scope-profile") =>
          k2.warned = {i \in 1 .. n + 1 : Warns(k2.comps[i][1], k2.comps[i][2])}
    <3> SUFFICES ASSUME ~Asks(k, "scope-profile")
                 PROVE  k2.warned = {i \in 1 .. n + 1 : Warns(k2.comps[i][1], k2.comps[i][2])}
      BY DEF Asks
    <3>1. k.warned = {i \in 1 .. n : Warns(k.comps[i][1], k.comps[i][2])}
      BY <1>0
    <3>2. k2.warned = IF Warns(k2.comps[n + 1][1], k2.comps[n + 1][2])
                      THEN k.warned \cup {n + 1} ELSE k.warned
      <4>1. k2.comps[n + 1][1] = Current(k).name /\ k2.comps[n + 1][2] = status
        BY <1>3
      <4> QED
        BY <4>1, <1>2
    <3>3. \A i \in 1 .. n + 1 : i \in 1 .. n \/ i = n + 1
      BY <1>1
    <3>4. n + 1 \in 1 .. n + 1 /\ n + 1 \notin 1 .. n /\ 1 .. n \subseteq 1 .. n + 1
      BY <1>1
    <3> QED
      BY <3>1, <3>2, <3>3, <3>4, <1>3
  <2>5. k2.reply # "ok"
    BY DEF Sound, Replied
  <2>6. Plan(k2.request) = plan
    OBVIOUS
  <2>7. ~Cut(k2)
    <3> SUFFICES ASSUME Cut(k2) PROVE FALSE
      OBVIOUS
    <3>1. Asks(k, "report-from-evidence") /\ Len(k2.comps) = 1 /\ k2.step = Len(plan) + 1
      BY DEF Cut, Asks
    <3>2. Len(plan) = 3
      BY <3>1, ProgressFacts, PlanFacts DEF Asks
    <3>3. n = 0 /\ k2.step = 2
      BY <3>1, <1>1, <1>2, <1>3 DEF Asks
    <3> QED
      BY <3>1, <3>2, <3>3
  <2> QED
    <3>1. n + 1 > 0 /\ (k2.step = n + 1 + 1 <=> k2.step = n + 2)
      BY <1>1, ProgressFacts
    <3> QED
      BY <3>1, <2>2, <2>3, <2>4, <2>5, <2>6, <2>7, <1>2, <1>3, <1>5 DEF Reporting
<1>9. Budgeted(k2, t)
  <2>1. Budgeted(k, t)
    BY DEF Sound
  <2>2. k2.overran <= 1 /\ (k2.overran = 1 => Spent(k2, t))
    BY <2>1, <1>4 DEF Budgeted
  <2>3. \A i \in 1 .. n + 1 : i \in 1 .. n \/ i = n + 1
    BY <1>1
  <2>4. \A i \in 1 .. n + 1 : k2.comps[i][2] = "skipped_budget" => Spent(k2, t) /\ ~plan[i].free
    <3>1. \A i \in 1 .. n : k2.comps[i][2] = "skipped_budget" => Spent(k2, t) /\ ~plan[i].free
      BY <2>1, <1>3, <1>4 DEF Budgeted
    <3>2. k2.comps[n + 1][2] = "skipped_budget" => Spent(k2, t) /\ ~plan[n + 1].free
      BY <1>2, <1>3, <1>4 DEF Current
    <3> QED
      BY <3>1, <3>2, <2>3
  <2>5. ASSUME NEW i \in 1 .. n + 1, NEW j \in 1 .. n + 1, i < j, k2.comps[i][2] = "skipped_budget"
        PROVE  k2.comps[j][2] \in {"skipped_budget", "not_requested", "unavailable"}
    <3>1. i \in 1 .. n /\ k.comps[i][2] = "skipped_budget"
      BY <2>5, <1>1, <1>3
    <3>2. CASE j \in 1 .. n
      BY <3>1, <3>2, <2>1, <2>5, <1>3 DEF Budgeted
    <3>3. CASE j = n + 1
      BY <3>1, <3>3, <1>3 DEF Skipped
    <3> QED
      BY <3>2, <3>3, <2>3
  <2> QED
    BY <2>2, <2>4, <2>5, <1>3, <1>5 DEF Budgeted
<1>10. Shared(k2)
  <2> SUFFICES ASSUME Asks(k, "source-investigate"), HadFrontier(k2)
               PROVE  \A i \in 1 .. n + 1 : k2.comps[i][1] = "similar" =>
                         k2.comps[i][2] \notin {"failed", "timed_out", "skipped_budget"}
    BY <1>3, <1>5 DEF Shared, Asks
  <2>1. \A i \in 1 .. n + 1 : i \in 1 .. n \/ i = n + 1
    BY <1>1
  <2>2. /\ Shared(k)
        /\ \A i \in 1 .. Len(plan) : plan[i].name = "frontier" <=> i = 3
        /\ \A i \in 1 .. Len(plan) : plan[i].name = "similar" <=> i = 4
    <3>1. /\ k.request \in AnyRequest /\ k.request.tool = "source-investigate"
          /\ DOMAIN plan = 1 .. Len(plan)
      BY ProgressFacts DEF Asks
    <3>2. \A i \in DOMAIN plan : /\ plan[i].name = "frontier" <=> i = 3
                                 /\ plan[i].name = "similar" <=> i = 4
      BY <3>1, PlanFacts
    <3> QED
      BY <3>1, <3>2 DEF Sound
  <2>3. CASE HadFrontier(k)
    <3>1. \A i \in 1 .. n : k.comps[i][1] = "similar" =>
                         k.comps[i][2] \notin {"failed", "timed_out", "skipped_budget"}
      BY <2>2, <2>3 DEF Shared
    <3> QED
      BY <3>1, <2>1, <2>3, <1>3
  <2>4. CASE ~HadFrontier(k)
    \* It is the frontier that has just been had, and the similar passages come later.
    <3>1. k2.comps[n + 1] = <<"frontier", "ok">>
      BY <2>1, <2>4, <1>3 DEF HadFrontier
    <3>2. n + 1 = 3
      <4>1. plan[n + 1].name = "frontier" /\ n + 1 \in 1 .. Len(plan)
        BY <3>1, <1>1, <1>2, <1>3 DEF Current
      <4> QED
        BY <4>1, <2>2
    <3>3. \A i \in 1 .. n + 1 : k2.comps[i][1] # "similar"
      <4>1. \A i \in 1 .. n : k2.comps[i][1] = plan[i].name /\ i \in 1 .. Len(plan) /\ i # 4
        BY <3>2, <1>0, <1>1, <1>3
      <4>2. \A i \in 1 .. n : k2.comps[i][1] # "similar"
        BY <4>1, <2>2
      <4>3. k2.comps[n + 1][1] # "similar"
        BY <3>1
      <4> QED
        BY <4>2, <4>3, <2>1
    <3> QED
      BY <3>3
  <2> QED
    BY <2>3, <2>4
<1>11. Batched(k2, rs)
  BY DEF Sound, Batched, Asks
<1> QED
  BY <1>6, <1>7, <1>8, <1>9, <1>10, <1>11 DEF Sound

\* A call that gives up because of a component it cannot do without.
LEMMA RefuseSound ==
    ASSUME NEW k \in Progress, NEW rs \in Seq(BatchResult), NEW t \in Nat, Sound(k, rs, t),
           k.phase = "running", ~Asks(k, "batch-evidence-search"), Current(k).must,
           NEW k2 \in Progress,
           k2.phase = "answering", k2.reply \in {"error", "timeout"}, k2.request = k.request,
           k2.started = k.started, k2.step = k.step, k2.limit = k.limit, k2.comps = k.comps,
           k2.warned = k.warned,
           k2.overran = k.overran \/ (k2.overran = 1 /\ Spent(k, t))
    PROVE  Sound(k2, rs, t)
<1>1. Timely(k2, t)
  BY DEF Sound, Timely
<1>2. Replied(k2)
  BY DEF Replied, Current
<1>3. ~OnComponent(k2)
  BY DEF OnComponent
<1>4. Reporting(k2)
  <2>1. Reporting(k)
    BY DEF Sound
  <2> QED
    BY <2>1, <1>3 DEF Reporting, Cut, Asks
<1>5. Budgeted(k2, t)
  <2>1. Budgeted(k, t) /\ (Spent(k2, t) <=> Spent(k, t))
    BY DEF Sound, Spent
  <2>2. k2.overran <= 1 /\ (k2.overran = 1 => Spent(k2, t))
    BY <2>1 DEF Budgeted
  <2> QED
    BY <2>1, <2>2, <1>3 DEF Budgeted
<1>6. Shared(k2)
  BY <1>3 DEF Sound, Shared, Asks, HadFrontier
<1>7. Batched(k2, rs)
  BY DEF Sound, Batched, Asks
<1> QED
  BY <1>1, <1>2, <1>4, <1>5, <1>6, <1>7 DEF Sound

\* A component is begun, or opens the next of what it needs.
LEMMA OnComponentSound ==
    ASSUME NEW k \in Progress, NEW rs \in Seq(BatchResult), NEW t \in Nat, Sound(k, rs, t),
           k.phase = "running", ~Asks(k, "batch-evidence-search"), k.step <= Len(Plan(k.request)),
           ~Skipped(k), Current(k).free \/ k.overran = 0,
           ~(Asks(k, "source-investigate") /\ HadFrontier(k) /\ Current(k).name = "similar"),
           NEW k2 \in Progress,
           k2.phase = "running", k2.reply = k.reply, k2.request = k.request,
           k2.started = k.started, k2.step = k.step, k2.comps = k.comps, k2.warned = k.warned,
           k2.overran = k.overran,
           k2.limit = None \/ k2.limit >= k2.started + MinEnforceable
    PROVE  Sound(k2, rs, t)
<1>1. Timely(k2, t)
  BY DEF Sound, Timely
<1>2. Replied(k2)
  BY DEF Sound, Replied, Current
<1>3. Current(k2) = Current(k) /\ (Skipped(k2) <=> Skipped(k)) /\ (HadFrontier(k2) <=> HadFrontier(k))
  BY DEF Current, Skipped, HadFrontier
<1>4. Reporting(k2)
  <2>1. Reporting(k)
    BY DEF Sound
  <2> QED
    BY <2>1 DEF Reporting, Cut, Asks
<1>5. Budgeted(k2, t)
  <2>1. Budgeted(k, t) /\ (Spent(k2, t) <=> Spent(k, t))
    BY DEF Sound, Spent
  <2> QED
    BY <2>1, <1>3 DEF Budgeted
<1>6. Shared(k2)
  BY <1>3 DEF Sound, Shared, Asks
<1>7. Batched(k2, rs)
  BY DEF Sound, Batched, Asks
<1> QED
  BY <1>1, <1>2, <1>4, <1>5, <1>6, <1>7 DEF Sound

\* What a call on a component may count on.
LEMMA OnComponentFacts ==
    ASSUME NEW k \in Progress, NEW rs, NEW t, Sound(k, rs, t), OnComponent(k)
    PROVE  /\ k.phase = "running" /\ ~Asks(k, "batch-evidence-search")
           /\ k.step <= Len(Plan(k.request)) /\ ~Skipped(k) /\ (Current(k).free \/ k.overran = 0)
           /\ ~(Asks(k, "source-investigate") /\ HadFrontier(k) /\ Current(k).name = "similar")
<1>1. k.phase = "running" /\ k.at > 0 /\ k.at \in Nat
  BY ProgressFacts DEF OnComponent
<1>2. ~Asks(k, "batch-evidence-search")
  BY <1>1 DEF Sound, Batched
<1>3. k.step <= Len(Plan(k.request))
  <2>1. Reporting(k)
    BY DEF Sound
  <2> QED
    BY <2>1, <1>2 DEF Reporting
<1>4. ~Skipped(k) /\ (Current(k).free \/ k.overran = 0)
  <2>1. Budgeted(k, t)
    BY DEF Sound
  <2> QED
    BY <2>1 DEF Budgeted
<1>5. ~(Asks(k, "source-investigate") /\ HadFrontier(k) /\ Current(k).name = "similar")
  BY DEF Sound, Shared
<1> QED
  BY <1>1, <1>2, <1>3, <1>4, <1>5

-----------------------------------------------------------------------------
(* The actions.                                                            *)

\* A step of one call leaves what holds of the others.
LEMMA OneCall ==
    ASSUME WorkflowInv, NEW c \in Calls, NEW k \in Progress, NEW rs \in Seq(BatchResult),
           Sound(k, rs, clock), task' = [task EXCEPT ![c] = k],
           results' = [results EXCEPT ![c] = rs] \/ (results' = results /\ rs = results[c]),
           cell' \in [Cell -> {"empty", "held"} \cup Calls],
           files' = files, changes' = changes, clock' = clock
    PROVE  WorkflowInv'
<1>0. task \in [Calls -> Progress] /\ results \in [Calls -> Seq(BatchResult)]
  BY DEF WorkflowInv
<1>1. task' \in [Calls -> Progress] /\ results' \in [Calls -> Seq(BatchResult)]
  <2>1. task' \in [Calls -> Progress]
    BY <1>0
  <2>2. CASE results' = results
    BY <2>1, <2>2, <1>0
  <2>3. CASE results' = [results EXCEPT ![c] = rs]
    BY <2>1, <2>3, <1>0
  <2> QED
    BY <2>2, <2>3
<1>2. ASSUME NEW d \in Calls
      PROVE  Sound(task[d], results[d], clock)'
  <2>1. CASE d = c
    <3>1. task'[d] = k /\ results'[d] = rs /\ clock' = clock
      BY <2>1 DEF WorkflowInv
    <3> QED
      BY <3>1
  <2>2. CASE d # c
    <3>1. task'[d] = task[d] /\ results'[d] = results[d] /\ clock' = clock
      BY <2>2 DEF WorkflowInv
    <3>2. Sound(task[d], results[d], clock)
      BY DEF WorkflowInv
    <3> QED
      BY <3>1, <3>2
  <2> QED
    BY <2>1, <2>2
<1> QED
  BY <1>1, <1>2 DEF WorkflowInv

LEMMA CallFacts ==
    ASSUME WorkflowInv, NEW c \in Calls
    PROVE  /\ task[c] \in Progress /\ results[c] \in Seq(BatchResult) /\ clock \in Nat
           /\ Sound(task[c], results[c], clock)
           /\ Now(c) = Current(task[c]) /\ ThePlan(c) = Plan(task[c].request)
           /\ (Exhausted(c) <=> Spent(task[c], clock))
           /\ (Running(c) <=> OnComponent(task[c]))
           /\ (IsBatch(c) <=> Asks(task[c], "batch-evidence-search"))
<1>1. /\ task[c] \in Progress /\ results[c] \in Seq(BatchResult) /\ clock \in Nat
      /\ Sound(task[c], results[c], clock)
  BY BoundsAssumption DEF WorkflowInv
<1>2. Now(c) = Current(task[c]) /\ ThePlan(c) = Plan(task[c].request)
  BY DEF Now, Current, ThePlan, Request
<1>3. Exhausted(c) <=> Spent(task[c], clock)
  <2>1. /\ task[c].request.max_elapsed \in Nat \/ task[c].request.max_elapsed = None
        /\ task[c].started \in Nat
    BY <1>1, ProgressFacts DEF Limit
  <2> QED
    BY <1>1, <2>1 DEF Exhausted, Remaining, Spent, Request, None
<1> QED
  BY <1>1, <1>2, <1>3 DEF Running, OnComponent, IsBatch, Asks, Request

\* The fields of a report.
LEMMA ReportFields ==
    ASSUME WorkflowInv, NEW c \in Calls, task[c].phase = "running", ~IsBatch(c),
           task[c].step <= Len(ThePlan(c)), NEW status \in Status, NEW warn \in BOOLEAN
    PROVE  LET k == task[c]
               k2 == Record(c, status, warn)
           IN  /\ k2 \in Progress /\ k2.phase = "running" /\ k2.reply = k.reply
               /\ k2.request = k.request /\ k2.started = k.started
               /\ k2.at = 0 /\ k2.limit = None /\ k2.step = k.step + 1
               /\ k2.comps = Append(k.comps, <<Current(k).name, status>>)
               /\ k2.warned = IF warn THEN k.warned \cup {k.step} ELSE k.warned
               /\ k2.overran = k.overran /\ k2.vector = k.vector /\ k2.lexical = k.lexical
<1> DEFINE k == task[c]
           entry == <<Now(c).name, status>>
<1>1. k \in Progress /\ Now(c) = Current(k) /\ ThePlan(c) = Plan(k.request)
  BY CallFacts
<1>2. k.step \in Nat /\ k.step > 0 /\ DOMAIN Plan(k.request) = 1 .. Len(Plan(k.request))
      /\ Plan(k.request) \in Seq(PlanStep) /\ Len(Plan(k.request)) \in Nat
      /\ k.comps \in Seq(ComponentName \X Status)
  BY <1>1, ProgressFacts
<1>3. entry \in ComponentName \X Status
  <2>1. Current(k) \in PlanStep
    BY <1>1, <1>2 DEF Current
  <2> QED
    BY <1>1, <2>1 DEF PlanStep
<1> HIDE DEF entry
<1>4. Append(k.comps, entry) \in Seq(ComponentName \X Status)
  BY <1>2, <1>3
<1>5. None \in Int /\ k.step + 1 \in Nat \ {0}
  BY <1>2 DEF None
<1>6. (IF warn THEN k.warned \cup {k.step} ELSE k.warned) \in SUBSET Nat
  BY <1>1, <1>2 DEF Progress
<1> DEFINE comps == Append(k.comps, entry)
           warned == IF warn THEN k.warned \cup {k.step} ELSE k.warned
           k2 == [k EXCEPT !.step = k.step + 1, !.at = 0, !.limit = None, !.comps = comps, !.warned = warned]
<1>7. Record(c, status, warn) = k2
  BY DEF Record, entry
<1> HIDE DEF comps, warned
<1>8. /\ k2 \in Progress /\ k2.phase = k.phase /\ k2.reply = k.reply
      /\ k2.request = k.request /\ k2.started = k.started
      /\ k2.at = 0 /\ k2.limit = None /\ k2.step = k.step + 1
      /\ k2.comps = comps /\ k2.warned = warned
      /\ k2.overran = k.overran /\ k2.vector = k.vector /\ k2.lexical = k.lexical
  <2>1. comps \in Seq(ComponentName \X Status) /\ warned \in SUBSET Nat
    BY <1>4, <1>6 DEF comps, warned
  <2> QED
    BY <1>1, <1>5, <2>1 DEF Progress
<1> QED
  BY <1>1, <1>7, <1>8 DEF comps, warned, entry

\* A component that ended badly: the report, or the end of the call.
LEMMA FailsSound ==
    ASSUME WorkflowInv, NEW c \in Calls, task[c].phase = "running", ~IsBatch(c),
           task[c].step <= Len(ThePlan(c)), ~Skipped(task[c]),
           ~ (/\ Asks(task[c], "source-investigate") /\ HadFrontier(task[c])
              /\ Current(task[c]).name = "similar"),
           NEW status \in {"failed", "timed_out"}, NEW code \in {"error", "timeout"},
           NEW over \in Nat,
           over = task[c].overran \/ (over = 1 /\ Exhausted(c))
    PROVE  LET k2 == [Lapse(c, status, code) EXCEPT !.overran = over]
           IN  k2 \in Progress /\ Sound(k2, results[c], clock)
<1> DEFINE k == task[c]
           r == Lapse(c, status, code)
           k2 == [r EXCEPT !.overran = over]
<1>1. /\ k \in Progress /\ results[c] \in Seq(BatchResult) /\ clock \in Nat
      /\ Sound(k, results[c], clock)
      /\ Now(c) = Current(k) /\ ThePlan(c) = Plan(k.request)
      /\ (Exhausted(c) <=> Spent(k, clock)) /\ ~Asks(k, "batch-evidence-search")
  BY CallFacts
<1>2. CASE Now(c).must
  <2>1. r = [k EXCEPT !.phase = "answering", !.reply = code]
    BY <1>2 DEF Lapse, Refuse
  <2>2. r \in Progress
    BY <2>1, <1>1 DEF Progress
  <2>3. k2 \in Progress
    BY <2>2 DEF Progress
  <2>4. /\ k2.phase = "answering" /\ k2.reply = code /\ k2.request = k.request
        /\ k2.started = k.started /\ k2.step = k.step /\ k2.limit = k.limit /\ k2.comps = k.comps
        /\ k2.warned = k.warned /\ k2.overran = over
    BY <2>1, <1>1 DEF Progress
  <2> HIDE DEF k2, r, k
  <2>5. Sound(k2, results[c], clock)
    <3>1. k.phase = "running" /\ Current(k).must
      BY <1>1, <1>2 DEF k
    <3>2. k2.overran = k.overran \/ (k2.overran = 1 /\ Spent(k, clock))
      BY <1>1, <2>4 DEF k
    <3> QED
      BY <1>1, <2>3, <2>4, <3>1, <3>2, RefuseSound
  <2> QED
    BY <2>3, <2>5 DEF k2, r, k
<1>3. CASE ~Now(c).must
  <2> DEFINE warn == Request(c).tool # "scope-profile"
  <2>1. r = Record(c, status, warn)
    BY <1>3 DEF Lapse
  <2>2. status \in Status /\ warn \in BOOLEAN
    BY DEF Status
  <2> HIDE DEF warn
  <2>3. /\ r \in Progress /\ r.phase = "running" /\ r.reply = k.reply
        /\ r.request = k.request /\ r.started = k.started
        /\ r.at = 0 /\ r.limit = None /\ r.step = k.step + 1
        /\ r.comps = Append(k.comps, <<Current(k).name, status>>)
        /\ r.warned = IF warn THEN k.warned \cup {k.step} ELSE k.warned
    <3> HIDE DEF r
    <3> QED
      BY <2>1, <2>2, ReportFields
  <2> HIDE DEF r
  <2>4. /\ k2 \in Progress /\ k2.phase = "running" /\ k2.reply = k.reply
        /\ k2.request = k.request /\ k2.started = k.started
        /\ k2.at = 0 /\ k2.limit = None /\ k2.step = k.step + 1
        /\ k2.comps = Append(k.comps, <<Current(k).name, status>>)
        /\ k2.warned = (IF warn THEN k.warned \cup {k.step} ELSE k.warned)
        /\ k2.overran = over
    BY <2>3 DEF Progress
  <2>5. ~Asks(k, "scope-profile") =>
           k2.warned = IF Warns(Current(k).name, status) THEN k.warned \cup {k.step} ELSE k.warned
    BY <2>4 DEF warn, Warns, Asks, Request
  <2> HIDE DEF k2, k
  <2>6. Sound(k2, results[c], clock)
    <3>1. k.phase = "running" /\ k.step <= Len(Plan(k.request)) /\ ~Skipped(k)
      BY <1>1 DEF k
    <3>2. k2.overran = k.overran \/ (k2.overran = 1 /\ Spent(k, clock))
      BY <1>1, <2>4 DEF k
    <3>3. status # "skipped_budget"
      OBVIOUS
    <3>4. ~(Asks(k, "source-investigate") /\ Current(k).name = "similar" /\ HadFrontier(k))
      BY DEF k
    <3> QED
      BY <1>1, <2>2, <2>4, <2>5, <3>1, <3>2, <3>3, <3>4, ReportSound
  <2> QED
    BY <2>4, <2>6 DEF k2, r, k
<1> QED
  BY <1>2, <1>3

\* The same, at the end of a component that was begun.
LEMMA EndsBadly ==
    ASSUME WorkflowInv, NEW c \in Calls, Running(c),
           NEW status \in {"failed", "timed_out"}, NEW code \in {"error", "timeout"}
    PROVE  /\ Lapse(c, status, code) \in Progress
           /\ Sound(Lapse(c, status, code), results[c], clock)
           /\ Ended(c, Lapse(c, status, code)) \in Progress
           /\ Sound(Ended(c, Lapse(c, status, code)), results[c], clock)
<1> DEFINE k == task[c]
           r == Lapse(c, status, code)
<1>1. /\ k \in Progress /\ results[c] \in Seq(BatchResult) /\ clock \in Nat
      /\ Sound(k, results[c], clock) /\ OnComponent(k)
      /\ Now(c) = Current(k) /\ ThePlan(c) = Plan(k.request)
      /\ (Exhausted(c) <=> Spent(k, clock)) /\ (IsBatch(c) <=> Asks(k, "batch-evidence-search"))
  BY CallFacts
<1>2. /\ k.phase = "running" /\ ~Asks(k, "batch-evidence-search")
      /\ k.step <= Len(Plan(k.request)) /\ ~Skipped(k) /\ (Current(k).free \/ k.overran = 0)
      /\ ~(Asks(k, "source-investigate") /\ HadFrontier(k) /\ Current(k).name = "similar")
  BY <1>1, OnComponentFacts
<1>3. k.overran \in Nat
  BY <1>1, ProgressFacts
<1>4. ASSUME NEW over \in Nat, over = k.overran \/ (over = 1 /\ Exhausted(c))
      PROVE  [r EXCEPT !.overran = over] \in Progress
             /\ Sound([r EXCEPT !.overran = over], results[c], clock)
  BY <1>1, <1>2, <1>4, FailsSound
<1>5. r \in Progress /\ r.overran = k.overran
  <2>1. CASE Now(c).must
    BY <2>1, <1>1 DEF Lapse, Refuse, Progress
  <2>2. CASE ~Now(c).must
    <3> DEFINE warn == Request(c).tool # "scope-profile"
    <3>1. r = Record(c, status, warn)
      BY <2>2 DEF Lapse
    <3>2. status \in Status /\ warn \in BOOLEAN
      BY DEF Status
    <3> HIDE DEF warn, r
    <3>3. r \in Progress /\ r.overran = k.overran
      BY <3>1, <3>2, <1>1, <1>2, ReportFields
    <3> QED
      BY <3>3 DEF r
  <2> QED
    BY <2>1, <2>2
<1> HIDE DEF r
<1>6. r = [r EXCEPT !.overran = k.overran]
  BY <1>5 DEF Progress
<1>7. r \in Progress /\ Sound(r, results[c], clock)
  BY <1>3, <1>4, <1>6
<1>8. Ended(c, r) \in Progress /\ Sound(Ended(c, r), results[c], clock)
  <2>1. CASE Over(c)
    <3>1. k.overran = 0 /\ Exhausted(c)
      BY <2>1, <1>1, <1>2 DEF Over
    <3>2. Ended(c, r) = [r EXCEPT !.overran = 1]
      BY <2>1, <3>1 DEF Ended
    <3> QED
      BY <3>1, <3>2, <1>4
  <2>2. CASE ~Over(c)
    <3>1. Ended(c, r) = [r EXCEPT !.overran = k.overran]
      BY <2>2 DEF Ended
    <3> QED
      BY <3>1, <1>3, <1>4
  <2> QED
    BY <2>1, <2>2
<1> QED
  BY <1>7, <1>8 DEF r

\* The cells a call that gives up had claimed are free again.
LEMMA ReleasedType ==
    ASSUME WorkflowInv, NEW c \in Calls
    PROVE  Released(c) \in [Cell -> {"empty", "held"} \cup Calls]
BY DEF WorkflowInv, Released

LEMMA IdleType ==
    ASSUME AnyRequest # {}
    PROVE  /\ Idle \in Progress /\ Idle.phase = "idle" /\ Idle.started = 0 /\ Idle.step = 1
           /\ Idle.at = 0 /\ Idle.limit = None /\ Idle.comps = << >> /\ Idle.warned = {}
           /\ Idle.overran = 0 /\ Idle.vector = << >> /\ Idle.lexical = << >> /\ Idle.reply = "none"
<1> DEFINE r == CHOOSE r \in UNION Range(Requests) : TRUE
<1>1. r \in AnyRequest
  BY DEF AnyRequest
<1>2. << >> \in Seq(ComponentName \X Status) /\ << >> \in Seq(STRING) /\ None \in Int
  BY DEF None
<1> HIDE DEF r
<1>3. Idle = [phase |-> "idle", request |-> r, started |-> 0, step |-> 1,
              at |-> 0, limit |-> None, comps |-> << >>, warned |-> {}, overran |-> 0,
              vector |-> << >>, lexical |-> << >>, reply |-> "none"]
  BY DEF Idle, r
<1> QED
  BY <1>1, <1>2, <1>3 DEF Progress

LEMMA IdleFacts ==
    ASSUME NEW r \in AnyRequest, NEW t \in Nat, NEW s \in Nat, s <= t,
           NEW phase \in {"idle", "running", "answering"},
           NEW reply \in {"none", "readonly_violation", "invalid_args"},
           phase # "answering" => reply = "none",
           r.tool = "batch-evidence-search" => phase # "answering"
    PROVE  LET k == [Idle EXCEPT !.phase = phase, !.reply = reply, !.request = r, !.started = s]
           IN  k \in Progress /\ Sound(k, << >>, t)
<1> DEFINE k == [Idle EXCEPT !.phase = phase, !.reply = reply, !.request = r, !.started = s]
           none == << >>
<1>1. /\ k.phase = phase /\ k.request = r /\ k.started = s /\ k.step = 1 /\ k.at = 0
      /\ k.limit = None /\ k.comps = << >> /\ k.warned = {} /\ k.overran = 0
      /\ k.vector = << >> /\ k.lexical = << >> /\ k.reply = reply
  BY IdleType DEF Progress
<1>2. k \in Progress
  BY IdleType DEF Progress
<1> HIDE DEF k
<1>3. Len(k.comps) = 0 /\ \A i \in 1 .. Len(k.comps) : FALSE
  BY <1>1
<1>4. Timely(k, t)
  BY <1>1 DEF Timely
<1>5. Replied(k)
  BY <1>1 DEF Replied
<1>6. ~OnComponent(k)
  BY <1>1 DEF OnComponent
<1>7. Len(Plan(r)) \in Nat /\ r.phrases \in Nat
  BY PlanFacts, RequestFacts
<1>8. Reporting(k)
  <2>1. k.warned = {i \in 1 .. Len(k.comps) : Warns(k.comps[i][1], k.comps[i][2])}
    BY <1>1, <1>3
  <2>2. k.reply # "ok" /\ k.step = Len(k.comps) + 1
    BY <1>1, <1>3
  <2> QED
    BY <2>1, <2>2, <1>1, <1>3, <1>6, <1>7 DEF Reporting
<1>9. Budgeted(k, t)
  BY <1>1, <1>3, <1>6 DEF Budgeted
<1>10. Shared(k)
  BY <1>3, <1>6 DEF Shared, HadFrontier
<1>11. Batched(k, none)
  <2>1. Pending(k, none) = {}
    BY <1>1 DEF Pending
  <2>2. Cardinality(Pending(k, none)) = 0
    BY <2>1, FS_EmptySet
  <2>3. DOMAIN none = {}
    OBVIOUS
  <2>4. Asks(k, "batch-evidence-search") => k.phase # "answering" /\ k.reply = "none"
    BY <1>1 DEF Asks
  <2>5. k.phase # "done"
    BY <1>1
  <2> QED
    BY <2>2, <2>3, <2>4, <2>5, <1>1, <1>7 DEF Batched
<1> QED
  BY <1>2, <1>4, <1>5, <1>8, <1>9, <1>10, <1>11 DEF Sound, k

LEMMA InitInv == WorkflowInit => WorkflowInv
<1> SUFFICES ASSUME WorkflowInit PROVE WorkflowInv
  OBVIOUS
<1>1. /\ files \in [Artefact -> {"none", "good", "bad"}] /\ changes \in 0 .. MaxChanges
      /\ cell \in [Cell -> {"empty", "held"} \cup Calls]
      /\ clock \in 0 .. MaxClock
  BY DisksAssumption, BoundsAssumption DEF WorkflowInit
<1>2. ASSUME NEW c \in Calls
      PROVE  Idle \in Progress /\ Sound(Idle, << >>, 0)
  <2> DEFINE r == Idle.request
             phase == "idle"
             reply == "none"
  <2>1. /\ Idle \in Progress /\ Idle.phase = "idle" /\ Idle.reply = "none" /\ Idle.started = 0
        /\ r \in AnyRequest
    BY RequestFacts, IdleType DEF Progress
  <2> HIDE DEF r
  <2>2. [Idle EXCEPT !.phase = phase, !.reply = reply, !.request = r, !.started = 0] = Idle
    BY <2>1 DEF Progress, r
  <2>3. LET k == [Idle EXCEPT !.phase = phase, !.reply = reply, !.request = r, !.started = 0]
        IN  k \in Progress /\ Sound(k, << >>, 0)
    <3>1. /\ phase \in {"idle", "running", "answering"} /\ phase # "answering"
          /\ reply \in {"none", "readonly_violation", "invalid_args"} /\ reply = "none"
          /\ 0 \in Nat /\ 0 <= 0
      OBVIOUS
    <3> HIDE DEF phase, reply
    <3> QED
      BY <2>1, <3>1, IdleFacts
  <2> QED
    BY <2>2, <2>3
<1>3. task \in [Calls -> Progress] /\ results \in [Calls -> Seq(BatchResult)]
  BY <1>2 DEF WorkflowInit
<1>4. ASSUME NEW c \in Calls
      PROVE  Sound(task[c], results[c], clock)
  BY <1>2 DEF WorkflowInit
<1> QED
  BY <1>1, <1>3, <1>4 DEF WorkflowInv

LEMMA StartInv ==
    ASSUME WorkflowInv, NEW c \in Calls, Admit(c)
    PROVE  WorkflowInv'
<1>1. PICK r \in Requests[c] :
        task' = [task EXCEPT ![c] = [Idle EXCEPT
                    !.phase = IF Refused(r) = "none" THEN "running" ELSE "answering",
                    !.reply = Refused(r), !.request = r,
                    !.started = IF r.max_elapsed = None THEN 0 ELSE clock]]
  BY DEF Admit
<1> DEFINE phase == IF Refused(r) = "none" THEN "running" ELSE "answering"
           s == IF r.max_elapsed = None THEN 0 ELSE clock
           k == [Idle EXCEPT !.phase = phase, !.reply = Refused(r), !.request = r, !.started = s]
<1>2. r \in AnyRequest
  BY RequestFacts
<1>3. clock \in Nat /\ s \in Nat /\ s <= clock
  BY CallFacts
<1>4. Refused(r) \in {"none", "readonly_violation", "invalid_args"}
  BY DEF Refused
<1>5. r.tool = "batch-evidence-search" => Refused(r) = "none"
  BY DEF Refused, WritesOutput
<1>6. results[c] = << >>
  BY CallFacts DEF Admit, Sound, Batched
<1>7. k \in Progress /\ Sound(k, << >>, clock)
  BY <1>2, <1>3, <1>4, <1>5, IdleFacts
<1>8. task' = [task EXCEPT ![c] = k]
  BY <1>1
<1> HIDE DEF k
<1> QED
  BY <1>6, <1>7, <1>8, CallFacts, OneCall DEF Admit, Same, WorkflowInv

\* A skipped component is reported as what it was: not asked for, unavailable, or had.
LEMMA SkipInv ==
    ASSUME WorkflowInv, NEW c \in Calls, Skip(c)
    PROVE  WorkflowInv'
<1> DEFINE k == task[c]
<1>1. /\ k \in Progress /\ results[c] \in Seq(BatchResult) /\ clock \in Nat
      /\ Sound(k, results[c], clock)
      /\ Now(c) = Current(k) /\ ThePlan(c) = Plan(k.request)
      /\ (IsBatch(c) <=> Asks(k, "batch-evidence-search"))
  BY CallFacts
<1>2. k.phase = "running" /\ ~IsBatch(c) /\ k.step <= Len(ThePlan(c))
  BY DEF Skip, Between
<1>3. PICK status \in Status, warn \in BOOLEAN :
        /\ task' = [task EXCEPT ![c] = Record(c, status, warn)]
        /\ \/ status = "not_requested" /\ ~warn
           \/ status = "unavailable" /\ (warn <=> Now(c).name = "vector_neighbors")
           \/ status = "ok" /\ ~warn /\ (Reuses(c) \/ Given(c))
  <2>1. "not_requested" \in Status /\ "unavailable" \in Status /\ "ok" \in Status
    BY DEF Status
  <2>2. (Now(c).name = "vector_neighbors") \in BOOLEAN
    OBVIOUS
  <2> QED
    BY <2>1, <2>2 DEF Skip
<1> DEFINE k2 == Record(c, status, warn)
<1>4. /\ k2 \in Progress /\ k2.phase = "running" /\ k2.reply = k.reply
      /\ k2.request = k.request /\ k2.started = k.started
      /\ k2.at = 0 /\ k2.limit = None /\ k2.step = k.step + 1
      /\ k2.comps = Append(k.comps, <<Current(k).name, status>>)
      /\ k2.warned = (IF warn THEN k.warned \cup {k.step} ELSE k.warned)
      /\ k2.overran = k.overran
  <2> HIDE DEF k2, k
  <2> QED
    BY <1>2, ReportFields DEF k2, k
<1> HIDE DEF k2
<1>5. k2.warned = IF Warns(Current(k).name, status) THEN k.warned \cup {k.step} ELSE k.warned
  BY <1>1, <1>3, <1>4 DEF Warns
<1>6. Skipped(k) => status # "ok"
  <2> SUFFICES ASSUME Skipped(k), status = "ok" PROVE FALSE
    OBVIOUS
  <2>0. Reuses(c)
    <3> SUFFICES ASSUME Given(c) PROVE FALSE
      BY <1>3
    <3>1. k.step = 1 /\ Asks(k, "scope-profile")
      BY DEF Given, Asks, Request
    <3>2. Reporting(k) /\ ~Cut(k)
      BY <1>1, <3>1 DEF Sound, Cut, Asks
    <3>3. Len(k.comps) \in Nat /\ Len(Plan(k.request)) \in Nat
      BY <1>1, ProgressFacts
    <3>4. k.step = Len(k.comps) + 1
      BY <3>1, <3>2, <1>1, <1>2 DEF Reporting, Asks
    <3>5. Len(k.comps) = 0
      <4> HIDE DEF k
      <4> QED
        BY <3>1, <3>3, <3>4
    <3> QED
      BY <3>5 DEF Skipped
  <2>1. /\ Asks(k, "source-investigate") /\ Current(k).name = "similar"
        /\ \E i \in DOMAIN k.comps : k.comps[i] = <<"frontier", "ok">>
    BY <1>1, <2>0 DEF Reuses, Has, Asks, Request
  <2> DEFINE plan == Plan(k.request)
  <2>2. /\ k.comps \in Seq(ComponentName \X Status) /\ DOMAIN k.comps = 1 .. Len(k.comps)
        /\ Len(k.comps) \in Nat /\ k.step \in Nat /\ k.step > 0 /\ Len(plan) \in Nat
        /\ DOMAIN plan = 1 .. Len(plan)
        /\ \A i \in DOMAIN plan : plan[i].name = "frontier" <=> i = 3
        /\ \A i \in DOMAIN plan : plan[i].name = "similar" <=> i = 4
    BY <1>1, <2>1, ProgressFacts, PlanFacts DEF Asks
  <2>3. /\ Len(k.comps) <= Len(plan) /\ \A i \in 1 .. Len(k.comps) : k.comps[i][1] = plan[i].name
        /\ k.step = Len(k.comps) + 1 \/ k.step = Len(plan) + 1
    <3>1. Reporting(k)
      BY <1>1 DEF Sound
    <3> QED
      BY <3>1, <1>1, <1>2 DEF Reporting, Cut
  <2>4. k.step = 4 /\ Len(k.comps) = 3
    <3>1. k.step \in DOMAIN plan
      BY <2>2, <1>1, <1>2
    <3>2. k.step = 4
      BY <3>1, <2>1, <2>2 DEF Current
    <3>3. k.step <= Len(plan)
      BY <1>1, <1>2
    <3>4. Len(k.comps) + 1 = 4
      BY <3>2, <3>3, <2>2, <2>3
    <3>5. Len(k.comps) \in Nat
      BY <2>2
    <3>6. \A m \in Nat : m + 1 = 4 => m = 3
      OBVIOUS
    <3> HIDE DEF k, plan
    <3> QED
      BY <3>2, <3>4, <3>5, <3>6, Zenon
  <2>5. k.comps[3] = <<"frontier", "ok">>
    <3>1. PICK i \in 1 .. Len(k.comps) : k.comps[i] = <<"frontier", "ok">>
      BY <2>1, <2>2
    <3>2. i \in DOMAIN plan /\ plan[i].name = "frontier"
      BY <3>1, <2>2, <2>3
    <3>3. i = 3
      BY <3>2, <2>2
    <3> QED
      BY <3>1, <3>3
  <2>6. PICK i \in 1 .. Len(k.comps) : k.comps[i][2] = "skipped_budget"
    BY DEF Skipped
  <2>7. i < 3
    <3>1. i # 3
      BY <2>5, <2>6
    <3> QED
      BY <3>1, <2>4
  <2>8. k.comps[3][2] \in {"skipped_budget", "not_requested", "unavailable"}
    <3>1. Budgeted(k, clock)
      BY <1>1 DEF Sound
    <3>2. 3 \in 1 .. Len(k.comps)
      BY <2>4
    <3> QED
      BY <3>1, <3>2, <2>6, <2>7 DEF Budgeted
  <2> QED
    BY <2>5, <2>8
<1>7. Sound(k2, results[c], clock)
  <2>1. k.phase = "running" /\ ~Asks(k, "batch-evidence-search") /\ k.step <= Len(Plan(k.request))
    BY <1>1, <1>2
  <2>2. status \notin {"failed", "timed_out", "skipped_budget"}
    BY <1>3
  <2>3. Skipped(k) => status \in {"skipped_budget", "not_requested", "unavailable"}
    BY <1>3, <1>6
  <2> HIDE DEF k
  <2> QED
    BY <1>1, <1>4, <1>5, <2>1, <2>2, <2>3, ReportSound
<1> QED
  BY <1>1, <1>3, <1>4, <1>7, OneCall DEF Skip, Same, WorkflowInv, k2

\* What is left of a call's budget, and what a component is given of it.
LEMMA BudgetIs ==
    ASSUME NEW c \in Calls, clock \in Nat, task[c].started \in Nat,
           Request(c).max_elapsed \in Limit, Request(c).max_component \in Limit
    PROVE  /\ Remaining(c) \in Nat \/ Remaining(c) = None
           /\ ComponentTimeout(c) \in Nat \/ ComponentTimeout(c) = None
<1> DEFINE m == Request(c).max_elapsed
           n == Request(c).max_component
           s == task[c].started
<1>1. clock \in Nat /\ s \in Nat /\ (m \in Nat \/ m = None) /\ (n \in Nat \/ n = None)
  BY DEF Limit
<1>2. Remaining(c) = IF m = None THEN None ELSE IF clock - s >= m THEN 0 ELSE m - (clock - s)
  BY DEF Remaining
<1>3. ComponentTimeout(c) = IF n = None THEN Remaining(c)
                           ELSE IF Remaining(c) = None THEN n ELSE Least(n, Remaining(c))
  BY DEF ComponentTimeout
<1> HIDE DEF m, n, s
<1>4. Remaining(c) \in Nat \/ Remaining(c) = None
  BY <1>1, <1>2 DEF None
<1> QED
  BY <1>1, <1>3, <1>4 DEF None, Least

LEMMA BeginInv ==
    ASSUME WorkflowInv, NEW c \in Calls, Begin(c)
    PROVE  WorkflowInv'
<1> DEFINE k == task[c]
           plan == Plan(k.request)
<1>1. /\ k \in Progress /\ results[c] \in Seq(BatchResult) /\ clock \in Nat
      /\ Sound(k, results[c], clock)
      /\ Now(c) = Current(k) /\ ThePlan(c) = plan
      /\ (Exhausted(c) <=> Spent(k, clock))
      /\ (IsBatch(c) <=> Asks(k, "batch-evidence-search"))
  BY CallFacts
<1>2. /\ k.phase = "running" /\ ~IsBatch(c) /\ k.step <= Len(ThePlan(c))
      /\ ~Asks(k, "batch-evidence-search") /\ k.step <= Len(plan)
  BY <1>1 DEF Begin, Between
<1>3. ~(Asks(k, "source-investigate") /\ HadFrontier(k) /\ Current(k).name = "similar")
  <2> SUFFICES ASSUME Asks(k, "source-investigate"), HadFrontier(k), Current(k).name = "similar"
               PROVE  Reuses(c)
    BY DEF Begin
  <2>1. DOMAIN k.comps = 1 .. Len(k.comps)
    BY <1>1, ProgressFacts
  <2> QED
    BY <2>1, <1>1 DEF Reuses, Has, HadFrontier, Asks, Request
<1>4. /\ k.started \in Nat /\ k.overran \in Nat /\ k.step \in Nat /\ k.step > 0
      /\ plan \in Seq(PlanStep) /\ Len(plan) \in Nat /\ DOMAIN plan = 1 .. Len(plan)
      /\ k.request.max_elapsed \in Limit /\ k.request.max_component \in Limit
      /\ Len(k.comps) \in Nat
  BY <1>1, ProgressFacts
<1>5. k.started <= clock /\ k.overran <= 1
  BY <1>1 DEF Sound, Timely, Budgeted
\* A component is given at least its minimum.
<1>6. ~Now(c).free /\ ~Exhausted(c) /\ ComponentTimeout(c) \notin 0 .. MinEnforceable - 1 =>
        ComponentTimeout(c) = None \/ ComponentTimeout(c) >= MinEnforceable
  <2>1. Request(c) = k.request
    BY DEF Request
  <2>2. ComponentTimeout(c) \in Nat \/ ComponentTimeout(c) = None
    BY <2>1, <1>1, <1>4, BudgetIs
  <2> QED
    BY <2>2 DEF MinEnforceable, None
<1>7. \A i \in 1 .. Len(k.comps) : k.comps[i][2] = "skipped_budget" => Spent(k, clock) /\ ~plan[i].free
  BY <1>1 DEF Sound, Budgeted
<1>8. Current(k).free => ~Skipped(k)
  <2> SUFFICES ASSUME Current(k).free, NEW i \in 1 .. Len(k.comps), k.comps[i][2] = "skipped_budget"
               PROVE  FALSE
    BY DEF Skipped
  <2>1. FreeFirst(plan)
    BY <1>1, PlanFacts, ProgressFacts
  <2>2. i < k.step /\ i \in DOMAIN plan /\ k.step \in DOMAIN plan
    <3>1. Reporting(k)
      BY <1>1 DEF Sound
    <3>2. Len(k.comps) <= Len(plan) /\ (k.step = Len(k.comps) + 1 \/ k.step = Len(plan) + 1)
      BY <3>1, <1>2 DEF Reporting, Cut
    <3> QED
      BY <3>2, <1>2, <1>4
  <2>3. plan[i].free
    BY <2>1, <2>2 DEF FreeFirst, Current
  <2> QED
    BY <2>3, <1>7
<1>9. ~Exhausted(c) => ~Skipped(k)
  BY <1>1, <1>7 DEF Skipped
<1>10. CASE /\ Now(c).free \/ (~Exhausted(c) /\ ComponentTimeout(c) \notin 0 .. MinEnforceable - 1)
            /\ task' = [task EXCEPT ![c].at = 1, ![c].limit = Deadline(c)]
  <2> DEFINE limit == Deadline(c)
             k2 == [k EXCEPT !.at = 1, !.limit = limit]
  <2>1. task' = [task EXCEPT ![c] = k2]
    BY <1>10, <1>1 DEF WorkflowInv
  <2>2. limit \in Int /\ (limit = None \/ limit >= k.started + MinEnforceable)
    <3>1. CASE Now(c).free
      BY <3>1 DEF Deadline, None
    <3>2. CASE ~Now(c).free
      <4>1. ComponentTimeout(c) = None \/ ComponentTimeout(c) >= MinEnforceable
        BY <3>2, <1>6, <1>10
      <4>2. ComponentTimeout(c) \in Nat \/ ComponentTimeout(c) = None
        <5>1. Request(c) = k.request
          BY DEF Request
        <5> QED
          BY <5>1, <1>1, <1>4, BudgetIs
      <4> QED
        BY <3>2, <4>1, <4>2, <1>1, <1>4, <1>5 DEF Deadline, None, MinEnforceable
    <3> QED
      BY <3>1, <3>2
  <2> HIDE DEF limit
  <2>3. /\ k2 \in Progress /\ k2.phase = "running" /\ k2.reply = k.reply /\ k2.request = k.request
        /\ k2.started = k.started /\ k2.step = k.step /\ k2.comps = k.comps
        /\ k2.warned = k.warned /\ k2.overran = k.overran /\ k2.limit = limit
    BY <1>1, <1>2, <2>2 DEF Progress
  <2>4. ~Skipped(k) /\ (Current(k).free \/ k.overran = 0)
    <3>1. k.overran = 1 => Spent(k, clock)
      BY <1>1 DEF Sound, Budgeted
    <3>2. CASE Now(c).free
      BY <3>2, <1>1, <1>8
    <3>3. CASE ~Now(c).free
      BY <3>1, <3>3, <1>1, <1>4, <1>5, <1>9, <1>10
    <3> QED
      BY <3>2, <3>3
  <2> HIDE DEF k2, k
  <2>5. Sound(k2, results[c], clock)
    <3>1. k.phase = "running" /\ ~Asks(k, "batch-evidence-search") /\ k.step <= Len(Plan(k.request))
      BY <1>2
    <3>2. k2.limit = None \/ k2.limit >= k2.started + MinEnforceable
      BY <2>2, <2>3
    <3> QED
      BY <1>1, <1>3, <2>3, <2>4, <3>1, <3>2, OnComponentSound
  <2> QED
    BY <1>1, <2>1, <2>3, <2>5, OneCall DEF Begin, Same, WorkflowInv
<1>11. CASE /\ ~Now(c).free /\ ~Exhausted(c) /\ ComponentTimeout(c) \in 0 .. MinEnforceable - 1
            /\ task' = [task EXCEPT ![c] = Lapse(c, "timed_out", "timeout")]
  <2> DEFINE r == Lapse(c, "timed_out", "timeout")
             status == "timed_out"
             code == "timeout"
             over == k.overran
  <2>1. status \in {"failed", "timed_out"} /\ code \in {"error", "timeout"} /\ over \in Nat
    BY <1>4
  <2>2. LET k2 == [Lapse(c, status, code) EXCEPT !.overran = over]
        IN  k2 \in Progress /\ Sound(k2, results[c], clock)
    <3> HIDE DEF status, code
    <3> QED
      BY <2>1, <1>1, <1>2, <1>3, <1>9, <1>11, FailsSound
  <2>3. r \in Progress /\ r.overran = k.overran
    <3>1. CASE Now(c).must
      BY <3>1, <1>1 DEF Lapse, Refuse, Progress
    <3>2. CASE ~Now(c).must
      <4> DEFINE warn == Request(c).tool # "scope-profile"
      <4>1. r = Record(c, status, warn)
        BY <3>2 DEF Lapse
      <4>2. status \in Status /\ warn \in BOOLEAN
        BY DEF Status
      <4> HIDE DEF warn, r, status
      <4> QED
        BY <4>1, <4>2, <1>1, <1>2, ReportFields
    <3> QED
      BY <3>1, <3>2
  <2>4. [r EXCEPT !.overran = over] = r
    <3> HIDE DEF r
    <3> QED
      BY <2>3 DEF Progress
  <2>5. r \in Progress /\ Sound(r, results[c], clock)
    BY <2>2, <2>4
  <2> HIDE DEF r
  <2>6. task' = [task EXCEPT ![c] = r]
    BY <1>11 DEF r
  <2> QED
    BY <1>1, <2>5, <2>6, OneCall DEF Begin, Same, WorkflowInv
<1>12. CASE /\ ~Now(c).free /\ Exhausted(c)
            /\ task' = [task EXCEPT ![c] =
                IF Now(c).must THEN Refuse(c, "timeout")
                ELSE IF /\ Request(c).tool = "source-investigate"
                        /\ Now(c).name = "phrase_history"
                     THEN [Record(c, "skipped_budget", FALSE) EXCEPT !.step = Len(ThePlan(c)) + 1]
                     ELSE Record(c, "skipped_budget", FALSE)]
  <2>1. CASE Now(c).must
    <3> DEFINE k2 == Refuse(c, "timeout")
    <3>1. k2 = [k EXCEPT !.phase = "answering", !.reply = "timeout"]
      BY DEF Refuse
    <3>2. /\ k2 \in Progress /\ k2.phase = "answering" /\ k2.reply \in {"error", "timeout"}
          /\ k2.request = k.request /\ k2.started = k.started /\ k2.step = k.step
          /\ k2.limit = k.limit /\ k2.comps = k.comps
          /\ k2.warned = k.warned /\ k2.overran = k.overran
      BY <3>1, <1>1 DEF Progress
    <3>3. task' = [task EXCEPT ![c] = k2] /\ Current(k).must
      BY <1>1, <1>12, <2>1
    <3> HIDE DEF k2, k
    <3>4. Sound(k2, results[c], clock)
      <4>1. k.phase = "running"
        BY <1>2
      <4> QED
        BY <1>1, <1>2, <3>2, <3>3, <4>1, RefuseSound
    <3> QED
      BY <1>1, <3>2, <3>3, <3>4, OneCall DEF Begin, Same, WorkflowInv
  <2>2. CASE ~Now(c).must
    <3> DEFINE status == "skipped_budget"
               warn == FALSE
               r == Record(c, status, warn)
               jumps == Request(c).tool = "source-investigate" /\ Now(c).name = "phrase_history"
               step == IF jumps THEN Len(plan) + 1 ELSE k.step + 1
               k2 == IF jumps THEN [r EXCEPT !.step = Len(ThePlan(c)) + 1] ELSE r
    <3>1. task' = [task EXCEPT ![c] = k2]
      BY <1>12, <2>2
    <3>2. status \in Status /\ warn \in BOOLEAN /\ ~warn /\ status = "skipped_budget"
      BY DEF Status
    <3> HIDE DEF status, warn, jumps, r
    <3>3. /\ r \in Progress /\ r.phase = "running" /\ r.reply = k.reply
          /\ r.request = k.request /\ r.started = k.started
          /\ r.at = 0 /\ r.limit = None /\ r.step = k.step + 1
          /\ r.comps = Append(k.comps, <<Current(k).name, status>>)
          /\ r.warned = (IF warn THEN k.warned \cup {k.step} ELSE k.warned)
          /\ r.overran = k.overran
      <4> HIDE DEF k, k2
      <4> QED
        BY <1>2, <3>2, ReportFields DEF r, k
    <3>4. /\ k2 \in Progress /\ k2.phase = "running" /\ k2.reply = k.reply
          /\ k2.request = k.request /\ k2.started = k.started
          /\ k2.at = 0 /\ k2.limit = None /\ k2.step = step
          /\ k2.comps = Append(k.comps, <<Current(k).name, status>>)
          /\ k2.warned = k.warned /\ k2.overran = k.overran
      <4>1. CASE jumps
        <5> DEFINE next == Len(plan) + 1
        <5>1. next \in Nat \ {0}
          BY <1>4
        <5>2. k2 = [r EXCEPT !.step = next] /\ step = next
          BY <4>1, <1>1
        <5> HIDE DEF next, k2, step
        <5>3. /\ [r EXCEPT !.step = next] \in Progress
              /\ [r EXCEPT !.step = next].step = next
              /\ [r EXCEPT !.step = next].phase = r.phase /\ [r EXCEPT !.step = next].reply = r.reply
              /\ [r EXCEPT !.step = next].request = r.request
              /\ [r EXCEPT !.step = next].started = r.started
              /\ [r EXCEPT !.step = next].at = r.at /\ [r EXCEPT !.step = next].limit = r.limit
              /\ [r EXCEPT !.step = next].comps = r.comps
              /\ [r EXCEPT !.step = next].warned = r.warned
              /\ [r EXCEPT !.step = next].overran = r.overran
          BY <5>1, <3>3 DEF Progress
        <5> QED
          BY <5>2, <5>3, <3>2, <3>3
      <4>2. CASE ~jumps
        BY <4>2, <3>2, <3>3
      <4> QED
        BY <4>1, <4>2
    <3>5. jumps => Asks(k, "source-investigate") /\ Current(k).name = "phrase_history"
      BY <1>1 DEF jumps, Asks, Request
    <3>6. k2.step = k.step + 1 \/ (jumps /\ k2.step = Len(plan) + 1)
      BY <3>4
    <3> HIDE DEF k2, step, k
    <3>7. Sound(k2, results[c], clock)
      <4>1. k.phase = "running" /\ k.step <= Len(Plan(k.request))
        BY <1>2
      <4>2. ~Warns(Current(k).name, status)
        BY <3>2 DEF Warns
      <4>3. Spent(k, clock) /\ ~Current(k).free
        BY <1>1, <1>12
      <4>4. \/ k2.step = k.step + 1
            \/ /\ Asks(k, "source-investigate") /\ Current(k).name = "phrase_history"
               /\ status = "skipped_budget" /\ k2.step = Len(Plan(k.request)) + 1
        BY <3>2, <3>5, <3>6
      <4> QED
        BY <1>1, <1>2, <1>3, <3>2, <3>4, <4>1, <4>2, <4>3, <4>4, ReportSound
    <3> QED
      BY <1>1, <3>1, <3>4, <3>7, OneCall DEF Begin, Same, WorkflowInv
  <2> QED
    BY <2>1, <2>2
<1> QED
  BY <1>10, <1>11, <1>12 DEF Begin

-----------------------------------------------------------------------------
(* The cells, and what a component opens.                                  *)

\* What is next to open is a position in the list of what the tool needs.
LEMMA NextOpened ==
    ASSUME WorkflowInv, NEW c \in Calls, Wants(c)
    PROVE  Next1(c) \in Nat
<1> DEFINE S == Open(task[c].at, Now(c).tool)
<1>1. task[c].at \in Nat
  BY CallFacts, ProgressFacts
<1>2. S \subseteq Nat
  BY <1>1 DEF Open
<1>3. S # {}
  BY DEF Wants, AtWork
<1>4. \E j \in S : \A k \in S : j <= k
  <2>1. PICK j \in S : \A k \in S : ~ (<<k, j>> \in OpToRel(<, Nat))
    BY <1>2, <1>3, NatLessThanWellFounded, WFMin
  <2>2. \A k \in S : ~ (k < j)
    BY <2>1, <1>2 DEF OpToRel
  <2> QED
    BY <2>2, <1>2
<1> QED
  BY <1>2, <1>4 DEF Next1

LEMMA ClaimInv ==
    ASSUME WorkflowInv, NEW c \in Calls, Claim(c) \/ Fill(c)
    PROVE  WorkflowInv'
<1>1. cell' \in [Cell -> {"empty", "held"} \cup Calls]
  BY DEF WorkflowInv, Claim, Fill, Claimed
<1>2. UNCHANGED <<task, files, changes, clock, results>>
  BY DEF Claim, Fill, Same
<1> QED
  BY <1>1, <1>2 DEF WorkflowInv

\* The component goes on to the next thing it needs, or fails.
LEMMA GoesOn ==
    ASSUME WorkflowInv, NEW c \in Calls, Running(c), NEW at \in Nat, at > 0
    PROVE  LET k2 == [task[c] EXCEPT !.at = at]
           IN  k2 \in Progress /\ Sound(k2, results[c], clock)
<1> DEFINE k == task[c]
           k2 == [k EXCEPT !.at = at]
<1>1. /\ k \in Progress /\ results[c] \in Seq(BatchResult) /\ clock \in Nat
      /\ Sound(k, results[c], clock) /\ OnComponent(k)
  BY CallFacts
<1>2. /\ k.phase = "running" /\ ~Asks(k, "batch-evidence-search")
      /\ k.step <= Len(Plan(k.request)) /\ ~Skipped(k) /\ (Current(k).free \/ k.overran = 0)
      /\ ~(Asks(k, "source-investigate") /\ HadFrontier(k) /\ Current(k).name = "similar")
  BY <1>1, OnComponentFacts
<1>3. /\ k2 \in Progress /\ k2.phase = k.phase /\ k2.reply = k.reply /\ k2.request = k.request
      /\ k2.started = k.started /\ k2.step = k.step /\ k2.comps = k.comps
      /\ k2.warned = k.warned /\ k2.overran = k.overran /\ k2.limit = k.limit
  BY <1>1 DEF Progress
<1> HIDE DEF k, k2
<1>4. k2.limit = None \/ k2.limit >= k2.started + MinEnforceable
  BY <1>1, <1>3 DEF Sound, Timely
<1>5. Sound(k2, results[c], clock)
  BY <1>1, <1>2, <1>3, <1>4, OnComponentSound
<1> QED
  BY <1>3, <1>5 DEF k, k2

LEMMA GoOnSound ==
    ASSUME WorkflowInv, NEW c \in Calls, Wants(c)
    PROVE  GoOn(c) \in Progress /\ Sound(GoOn(c), results[c], clock)
<1>1. Running(c) /\ Next1(c) \in Nat
  BY NextOpened DEF Wants
<1>2. CASE Need(c).must
  <2> DEFINE status == "failed"
             code == "error"
  <2>1. status \in {"failed", "timed_out"} /\ code \in {"error", "timeout"}
    OBVIOUS
  <2>2. GoOn(c) = Lapse(c, status, code)
    BY <1>2 DEF GoOn
  <2> HIDE DEF status, code
  <2> QED
    BY <1>1, <2>1, <2>2, EndsBadly
<1>3. CASE ~Need(c).must
  <2> DEFINE at == Next1(c) + 1
  <2>1. at \in Nat /\ at > 0
    BY <1>1
  <2>2. GoOn(c) = [task[c] EXCEPT !.at = at]
    BY <1>3 DEF GoOn
  <2> HIDE DEF at
  <2> QED
    BY <1>1, <2>1, <2>2, GoesOn
<1> QED
  BY <1>2, <1>3

LEMMA FillFailsInv ==
    ASSUME WorkflowInv, NEW c \in Calls, FillFails(c)
    PROVE  WorkflowInv'
<1>1. /\ Wants(c) /\ cell' = Released(c) /\ task' = [task EXCEPT ![c] = GoOn(c)]
      /\ UNCHANGED <<files, changes, clock, results>>
  BY DEF FillFails, Same
<1>2. results[c] \in Seq(BatchResult)
  BY CallFacts
<1> QED
  BY <1>1, <1>2, GoOnSound, ReleasedType, OneCall

LEMMA CheckPhraseInv ==
    ASSUME WorkflowInv, NEW c \in Calls, CheckPhrase(c)
    PROVE  WorkflowInv'
<1>1. Wants(c) /\ Running(c) /\ UNCHANGED <<cell, files, changes, clock, results>>
  BY DEF CheckPhrase, Same, Wants
<1>2. results[c] \in Seq(BatchResult) /\ cell \in [Cell -> {"empty", "held"} \cup Calls]
  BY CallFacts DEF WorkflowInv
<1>3. CASE task' = [task EXCEPT ![c].at = Next1(c) + 1]
  <2> DEFINE at == Next1(c) + 1
             k2 == [task[c] EXCEPT !.at = at]
  <2>1. at \in Nat /\ at > 0
    BY <1>1, NextOpened
  <2>2. task' = [task EXCEPT ![c] = k2]
    BY <1>3 DEF WorkflowInv
  <2> HIDE DEF at
  <2>3. k2 \in Progress /\ Sound(k2, results[c], clock)
    BY <1>1, <2>1, GoesOn
  <2> HIDE DEF k2
  <2> QED
    BY <1>1, <1>2, <2>2, <2>3, OneCall
<1>4. CASE task' = [task EXCEPT ![c] = GoOn(c)]
  BY <1>1, <1>2, <1>4, GoOnSound, OneCall
<1> QED
  BY <1>3, <1>4 DEF CheckPhrase

LEMMA ExpireInv ==
    ASSUME WorkflowInv, NEW c \in Calls, Expire(c)
    PROVE  WorkflowInv'
<1> DEFINE status == "timed_out"
           code == "timeout"
           k2 == Ended(c, Lapse(c, status, code))
<1>1. /\ Running(c) /\ cell' = Released(c) /\ task' = [task EXCEPT ![c] = k2]
      /\ UNCHANGED <<files, changes, clock, results>>
  BY DEF Expire, Same
<1>2. results[c] \in Seq(BatchResult)
  BY CallFacts
<1>3. status \in {"failed", "timed_out"} /\ code \in {"error", "timeout"}
  OBVIOUS
<1> HIDE DEF status, code
<1>4. k2 \in Progress /\ Sound(k2, results[c], clock)
  BY <1>1, <1>3, EndsBadly
<1> HIDE DEF k2
<1> QED
  BY <1>1, <1>2, <1>4, ReleasedType, OneCall

LEMMA WorkInv ==
    ASSUME WorkflowInv, NEW c \in Calls, Work(c)
    PROVE  WorkflowInv'
<1> DEFINE k == task[c]
<1>1. /\ Running(c) /\ UNCHANGED <<files, changes, cell, clock, results>>
      /\ cell \in [Cell -> {"empty", "held"} \cup Calls]
  BY DEF Work, WorkflowInv
<1>2. /\ k \in Progress /\ results[c] \in Seq(BatchResult) /\ clock \in Nat
      /\ Sound(k, results[c], clock) /\ OnComponent(k)
      /\ Now(c) = Current(k) /\ ThePlan(c) = Plan(k.request)
      /\ (Exhausted(c) <=> Spent(k, clock)) /\ (IsBatch(c) <=> Asks(k, "batch-evidence-search"))
  BY <1>1, CallFacts
<1>3. /\ k.phase = "running" /\ ~Asks(k, "batch-evidence-search") /\ ~IsBatch(c)
      /\ k.step <= Len(Plan(k.request)) /\ ~Skipped(k) /\ (Current(k).free \/ k.overran = 0)
      /\ ~(Asks(k, "source-investigate") /\ HadFrontier(k) /\ Current(k).name = "similar")
  BY <1>2, OnComponentFacts
<1>4. CASE task' = [task EXCEPT ![c] = Ended(c, Lapse(c, "failed", "error"))]
  <2> DEFINE status == "failed"
             code == "error"
             k2 == Ended(c, Lapse(c, status, code))
  <2>1. status \in {"failed", "timed_out"} /\ code \in {"error", "timeout"}
    OBVIOUS
  <2>2. task' = [task EXCEPT ![c] = k2]
    BY <1>4
  <2> HIDE DEF status, code
  <2>3. k2 \in Progress /\ Sound(k2, results[c], clock)
    BY <1>1, <2>1, EndsBadly
  <2> HIDE DEF k2
  <2> QED
    BY <1>1, <1>2, <2>2, <2>3, OneCall
<1>5. CASE \E v \in VectorLists, l \in LexicalLists :
            task' = [task EXCEPT ![c] =
                [Ended(c, Record(c, "ok", FALSE)) EXCEPT
                    !.vector = IF Request(c).tool = "hybrid-discover" /\ Now(c).tool = "vector-neighbors"
                               THEN v ELSE @,
                    !.lexical = IF Request(c).tool = "hybrid-discover" /\ Now(c).tool = "similar"
                                THEN l ELSE @]]
  <2> DEFINE status == "ok"
             warn == FALSE
             r == Record(c, status, warn)
             e == Ended(c, r)
  <2>1. PICK v \in VectorLists, l \in LexicalLists :
          task' = [task EXCEPT ![c] = [e EXCEPT
                    !.vector = IF Request(c).tool = "hybrid-discover" /\ Now(c).tool = "vector-neighbors"
                               THEN v ELSE e.vector,
                    !.lexical = IF Request(c).tool = "hybrid-discover" /\ Now(c).tool = "similar"
                                THEN l ELSE e.lexical]]
    BY <1>5
  <2>2. status \in Status /\ warn \in BOOLEAN /\ ~warn /\ status = "ok"
    BY DEF Status
  <2> HIDE DEF status, warn
  <2>3. /\ r \in Progress /\ r.phase = "running" /\ r.reply = k.reply
        /\ r.request = k.request /\ r.started = k.started
        /\ r.at = 0 /\ r.limit = None /\ r.step = k.step + 1
        /\ r.comps = Append(k.comps, <<Current(k).name, status>>)
        /\ r.warned = (IF warn THEN k.warned \cup {k.step} ELSE k.warned)
        /\ r.overran = k.overran
    <3> HIDE DEF r
    <3>1. k.phase = "running" /\ k.step <= Len(ThePlan(c))
      BY <1>2, <1>3
    <3> HIDE DEF k
    <3> QED
      BY <1>3, <2>2, <3>1, ReportFields DEF r, k
  <2> HIDE DEF r
  <2>4. /\ e \in Progress /\ e.phase = "running" /\ e.reply = k.reply
        /\ e.request = k.request /\ e.started = k.started
        /\ e.at = 0 /\ e.limit = None /\ e.step = k.step + 1
        /\ e.comps = Append(k.comps, <<Current(k).name, status>>)
        /\ e.warned = k.warned
        /\ e.overran = k.overran \/ (e.overran = 1 /\ Spent(k, clock))
    <3> DEFINE over == IF Over(c) THEN k.overran + 1 ELSE k.overran
    <3>1. over \in Nat /\ (over = k.overran \/ (over = 1 /\ Spent(k, clock)))
      <4>1. k.overran \in Nat
        BY <1>2, ProgressFacts
      <4>2. Over(c) => k.overran = 0 /\ Spent(k, clock)
        BY <1>2, <1>3 DEF Over
      <4> QED
        BY <4>1, <4>2
    <3>2. e = [r EXCEPT !.overran = over]
      BY DEF Ended
    <3> HIDE DEF over, e
    <3> QED
      BY <2>2, <2>3, <3>1, <3>2 DEF Progress
  <2> HIDE DEF e
  <2> DEFINE vector == IF Request(c).tool = "hybrid-discover" /\ Now(c).tool = "vector-neighbors"
                       THEN v ELSE e.vector
             lexical == IF Request(c).tool = "hybrid-discover" /\ Now(c).tool = "similar"
                        THEN l ELSE e.lexical
             k2 == [e EXCEPT !.vector = vector, !.lexical = lexical]
  <2>5. vector \in Seq(STRING) /\ lexical \in Seq(STRING)
    BY <2>4, ListsAssumption DEF Progress
  <2>6. task' = [task EXCEPT ![c] = k2]
    BY <2>1
  <2> HIDE DEF vector, lexical
  <2>7. /\ k2 \in Progress /\ k2.phase = "running" /\ k2.reply = k.reply
        /\ k2.request = k.request /\ k2.started = k.started
        /\ k2.at = 0 /\ k2.limit = None /\ k2.step = k.step + 1
        /\ k2.comps = Append(k.comps, <<Current(k).name, status>>)
        /\ k2.warned = k.warned
        /\ k2.overran = k.overran \/ (k2.overran = 1 /\ Spent(k, clock))
    BY <2>4, <2>5 DEF Progress
  <2> HIDE DEF k2, k
  <2>8. Sound(k2, results[c], clock)
    <3>1. ~Warns(Current(k).name, status) /\ status \notin {"failed", "timed_out", "skipped_budget"}
      BY <2>2 DEF Warns
    <3> QED
      BY <1>2, <1>3, <2>2, <2>7, <3>1, ReportSound
  <2> QED
    BY <1>1, <1>2, <2>6, <2>7, <2>8, OneCall
<1> QED
  BY <1>4, <1>5 DEF Work

\* The validation of an adjudication that is not valid is the last report.
LEMMA RejectsInv ==
    ASSUME WorkflowInv, NEW c \in Calls, Rejects(c)
    PROVE  WorkflowInv'
<1> DEFINE k == task[c]
           plan == Plan(k.request)
           status == "ok"
           warn == TRUE
           r == Record(c, status, warn)
           end == Len(plan) + 1
           k2 == [r EXCEPT !.step = end]
<1>1. /\ k \in Progress /\ results[c] \in Seq(BatchResult) /\ clock \in Nat
      /\ Sound(k, results[c], clock) /\ OnComponent(k)
      /\ Now(c) = Current(k) /\ ThePlan(c) = plan
      /\ (IsBatch(c) <=> Asks(k, "batch-evidence-search"))
  BY CallFacts DEF Rejects
<1>2. /\ k.phase = "running" /\ ~Asks(k, "batch-evidence-search") /\ ~IsBatch(c)
      /\ k.step <= Len(plan) /\ ~Skipped(k)
  BY <1>1, OnComponentFacts
<1>3. /\ Asks(k, "report-from-evidence") /\ k.step = 1
      /\ task' = [task EXCEPT ![c] = k2]
      /\ UNCHANGED <<files, changes, cell, clock, results>>
  BY <1>1 DEF Rejects, Asks, Request
<1>4. Len(plan) = 3 /\ plan[1].name = "validation" /\ Current(k).name = "validation"
  BY <1>1, <1>3, ProgressFacts, PlanFacts DEF Asks, Current
<1>5. status \in Status /\ warn \in BOOLEAN /\ warn /\ status = "ok"
  BY DEF Status
<1>6. Reporting(k) /\ ~Cut(k)
  BY <1>1, <1>3, <1>4 DEF Sound, Cut
<1>7. Len(k.comps) = 0 /\ k.comps = << >> /\ k.warned = {}
  <2>1. Len(k.comps) \in Nat /\ k.comps \in Seq(ComponentName \X Status)
    BY <1>1, ProgressFacts
  <2>2. ~Asks(k, "source-investigate") /\ ~Asks(k, "scope-profile")
    BY <1>3 DEF Asks
  <2>3. /\ k.step = Len(k.comps) + 1
        /\ k.warned = {i \in 1 .. Len(k.comps) : Warns(k.comps[i][1], k.comps[i][2]) \/ Cut(k)}
    BY <1>2, <1>6, <2>2 DEF Reporting
  <2> HIDE DEF k
  <2> QED
    BY <2>1, <2>3, <1>3
<1> HIDE DEF status, warn
<1>8. /\ r \in Progress /\ r.phase = "running" /\ r.reply = k.reply
      /\ r.request = k.request /\ r.started = k.started
      /\ r.at = 0 /\ r.limit = None
      /\ r.comps = Append(k.comps, <<Current(k).name, status>>)
      /\ r.warned = (IF warn THEN k.warned \cup {k.step} ELSE k.warned)
      /\ r.overran = k.overran
  <2> HIDE DEF r
  <2>1. k.phase = "running" /\ k.step <= Len(ThePlan(c))
    BY <1>1, <1>2
  <2> HIDE DEF k
  <2> QED
    BY <1>2, <1>5, <2>1, ReportFields DEF r, k
<1> HIDE DEF r
<1>9. end \in Nat \ {0} /\ end = 4 /\ end = Len(plan) + 1
  BY <1>4
<1> HIDE DEF end
<1>10. /\ k2 \in Progress /\ k2.phase = "running" /\ k2.reply = k.reply
       /\ k2.request = k.request /\ k2.started = k.started
       /\ k2.at = 0 /\ k2.limit = None /\ k2.step = end
       /\ k2.comps = <<<<"validation", "ok">>>> /\ k2.warned = {1} /\ k2.overran = k.overran
  <2>1. /\ k2 \in Progress /\ k2.phase = r.phase /\ k2.reply = r.reply /\ k2.request = r.request
        /\ k2.started = r.started /\ k2.at = r.at /\ k2.limit = r.limit /\ k2.step = end
        /\ k2.comps = r.comps /\ k2.warned = r.warned /\ k2.overran = r.overran
    BY <1>8, <1>9 DEF Progress
  <2>2. r.comps = <<<<"validation", "ok">>>> /\ r.warned = {1}
    BY <1>3, <1>4, <1>5, <1>7, <1>8
  <2> HIDE DEF k2, k
  <2> QED
    BY <1>8, <2>1, <2>2
<1> HIDE DEF k2, k
<1>11. ~OnComponent(k2) /\ ~Skipped(k2)
  BY <1>10 DEF OnComponent, Skipped
<1>12. Timely(k2, clock) /\ Replied(k2)
  BY <1>1, <1>2, <1>10 DEF Sound, Timely, Replied
<1>13. Reporting(k2)
  <2>1. Cut(k2) /\ Plan(k2.request) = plan /\ Asks(k2, "report-from-evidence")
    BY <1>3, <1>4, <1>9, <1>10 DEF Cut, Asks
  <2>2. k2.warned = {i \in 1 .. Len(k2.comps) : Warns(k2.comps[i][1], k2.comps[i][2]) \/ Cut(k2)}
    BY <1>10, <2>1
  <2>3. k2.reply # "ok"
    BY <1>10, <1>12 DEF Replied
  <2>4. Len(k2.comps) <= Len(plan) /\ \A i \in 1 .. Len(k2.comps) : k2.comps[i][1] = plan[i].name
    BY <1>4, <1>10
  <2> QED
    BY <2>1, <2>2, <2>3, <2>4, <1>11 DEF Reporting
<1>14. Budgeted(k2, clock)
  <2>1. Budgeted(k, clock) /\ (Spent(k2, clock) <=> Spent(k, clock))
    BY <1>1, <1>10 DEF Sound, Spent
  <2>2. k2.overran <= 1 /\ (k2.overran = 1 => Spent(k2, clock))
    BY <1>10, <2>1 DEF Budgeted
  <2>3. \A i \in 1 .. Len(k2.comps) : k2.comps[i][2] # "skipped_budget"
    BY <1>11 DEF Skipped
  <2> QED
    BY <1>11, <2>2, <2>3 DEF Budgeted
<1>15. Shared(k2)
  BY <1>3, <1>10 DEF Shared, Asks
<1>16. Batched(k2, results[c])
  BY <1>1, <1>2, <1>10 DEF Sound, Batched, Asks
<1>17. Sound(k2, results[c], clock)
  BY <1>12, <1>13, <1>14, <1>15, <1>16 DEF Sound
<1> QED
  BY <1>1, <1>3, <1>10, <1>17, OneCall DEF WorkflowInv

-----------------------------------------------------------------------------
(* The batch.                                                              *)

\* An injection of 1 .. n into 1 .. n is onto, and takes as many below m as there are.
LEMMA DenseInjection ==
    ASSUME NEW n \in Nat, NEW f \in [1 .. n -> 1 .. n],
           \A i, j \in 1 .. n : f[i] = f[j] => i = j
    PROVE  /\ \A m \in 1 .. n : \E i \in 1 .. n : f[i] = m
           /\ \A i \in 1 .. n : Cardinality({j \in 1 .. n : f[j] < f[i]}) = f[i] - 1
<1>1. f \in Injection(1 .. n, 1 .. n)
  BY DEF Injection, IsInjective
<1>2. IsFiniteSet(1 .. n)
  BY FS_Interval
<1>3. f \in Surjection(1 .. n, 1 .. n)
  BY <1>1, <1>2, FS_Injection
<1>4. \A m \in 1 .. n : \E i \in 1 .. n : f[i] = m
  BY <1>3 DEF Surjection
<1>5. ASSUME NEW i \in 1 .. n
      PROVE  Cardinality({j \in 1 .. n : f[j] < f[i]}) = f[i] - 1
  <2> DEFINE m == f[i]
             S == {j \in 1 .. n : f[j] < m}
             g == [j \in S |-> f[j]]
  <2>1. m \in 1 .. n
    OBVIOUS
  <2>2. g \in Injection(S, 1 .. m - 1)
    BY <2>1 DEF Injection, IsInjective
  <2>3. g \in Surjection(S, 1 .. m - 1)
    <3>1. ASSUME NEW x \in 1 .. m - 1
          PROVE  \E j \in S : g[j] = x
      <4>1. x \in 1 .. n /\ x < m
        BY <2>1
      <4> QED
        BY <4>1, <1>4
    <3>2. g \in [S -> 1 .. m - 1]
      BY <2>2 DEF Injection
    <3> QED
      BY <3>1, <3>2 DEF Surjection
  <2>4. IsFiniteSet(1 .. m - 1) /\ Cardinality(1 .. m - 1) = m - 1
    <3>1. /\ IsFiniteSet(1 .. m - 1)
          /\ Cardinality(1 .. m - 1) = IF 1 > m - 1 THEN 0 ELSE (m - 1) - 1 + 1
      <4>1. 1 \in Int /\ m - 1 \in Int
        BY <2>1
      <4> HIDE DEF m
      <4> QED
        BY <4>1, FS_Interval
    <3> QED
      BY <3>1, <2>1
  <2>5. Cardinality(S) = Cardinality(1 .. m - 1)
    <3> HIDE DEF S, g, m
    <3> QED
      BY <2>2, <2>3, <2>4, FS_Injection
  <2> QED
    BY <2>4, <2>5
<1> QED
  BY <1>4, <1>5

\* Results with as many different indexes as there are results are put in order.
LEMMA InOrderFacts ==
    ASSUME NEW rs \in Seq(BatchResult),
           \A i \in DOMAIN rs : rs[i].index \in 1 .. Len(rs),
           \A i, j \in DOMAIN rs : rs[i].index = rs[j].index => i = j
    PROVE  /\ InOrder(rs) \in Seq(BatchResult) /\ Len(InOrder(rs)) = Len(rs)
           /\ \A k \in 1 .. Len(rs) : InOrder(rs)[k].index = k
<1> DEFINE n == Len(rs)
           f == [i \in 1 .. n |-> rs[i].index]
           below(i) == {j \in DOMAIN rs : rs[j].index < rs[i].index}
           ranked(k) == CHOOSE i \in DOMAIN rs : Cardinality(below(i)) = k - 1
<1>1. n \in Nat /\ DOMAIN rs = 1 .. n /\ f \in [1 .. n -> 1 .. n]
      /\ \A i, j \in 1 .. n : f[i] = f[j] => i = j
  OBVIOUS
<1>2. /\ \A m \in 1 .. n : \E i \in 1 .. n : f[i] = m
      /\ \A i \in 1 .. n : Cardinality({j \in 1 .. n : f[j] < f[i]}) = f[i] - 1
  <2> HIDE DEF f, n
  <2> QED
    BY <1>1, DenseInjection
<1>3. \A i \in 1 .. n : Cardinality(below(i)) = rs[i].index - 1
  <2>1. \A i \in 1 .. n : below(i) = {j \in 1 .. n : f[j] < f[i]}
    BY <1>1
  <2> QED
    BY <1>2, <2>1
<1>4. ASSUME NEW k \in 1 .. n
      PROVE  ranked(k) \in DOMAIN rs /\ rs[ranked(k)].index = k
  <2>1. \E i \in DOMAIN rs : Cardinality(below(i)) = k - 1
    <3>1. PICK i \in 1 .. n : f[i] = k
      BY <1>2
    <3>2. i \in DOMAIN rs /\ Cardinality(below(i)) = rs[i].index - 1 /\ rs[i].index = k
      BY <3>1, <1>1, <1>3
    <3> QED
      BY <3>2
  <2> HIDE DEF below
  <2>2. ranked(k) \in DOMAIN rs /\ Cardinality(below(ranked(k))) = k - 1
    BY <2>1
  <2> HIDE DEF ranked
  <2>3. rs[ranked(k)].index - 1 = k - 1 /\ rs[ranked(k)].index \in 1 .. n
    BY <2>2, <1>1, <1>3
  <2> QED
    BY <2>2, <2>3
<1>5. InOrder(rs) = [k \in DOMAIN rs |-> rs[ranked(k)]]
  BY DEF InOrder
<1> HIDE DEF ranked, below, f
<1>6. \A k \in 1 .. n : InOrder(rs)[k] \in BatchResult /\ InOrder(rs)[k].index = k
  BY <1>1, <1>4, <1>5
<1>7. InOrder(rs) \in Seq(BatchResult) /\ Len(InOrder(rs)) = n
  BY <1>1, <1>5, <1>6
<1> QED
  BY <1>6, <1>7

\* There are no more results than searches begun.
LEMMA ResultsBound ==
    ASSUME NEW k \in Progress, NEW rs \in Seq(BatchResult), Batched(k, rs),
           Asks(k, "batch-evidence-search")
    PROVE  Len(rs) <= k.step - 1 /\ k.step - 1 <= k.request.phrases
<1> DEFINE n == Len(rs)
           m == k.step - 1
           f == [i \in 1 .. n |-> rs[i].index]
<1>1. n \in Nat /\ m \in Nat /\ DOMAIN rs = 1 .. n
  BY ProgressFacts
<1>2. /\ \A i \in DOMAIN rs : rs[i].index \in 1 .. m
      /\ \A i, j \in DOMAIN rs : rs[i].index = rs[j].index => i = j
      /\ m <= k.request.phrases
  BY DEF Batched
<1>3. f \in Injection(1 .. n, 1 .. m)
  <2> HIDE DEF m, n
  <2> QED
    BY <1>1, <1>2 DEF Injection, IsInjective
<1>4. /\ IsFiniteSet(1 .. m) /\ Cardinality(1 .. m) = m /\ Cardinality(1 .. n) = n
  <2> HIDE DEF m, n
  <2>1. \A x \in Nat : IsFiniteSet(1 .. x) /\ Cardinality(1 .. x) = IF 1 > x THEN 0 ELSE x - 1 + 1
    BY FS_Interval
  <2>2. \A x \in Nat : (IF 1 > x THEN 0 ELSE x - 1 + 1) = x
    OBVIOUS
  <2> QED
    BY <1>1, <2>1, <2>2
<1>5. Cardinality(1 .. n) <= Cardinality(1 .. m)
  <2> HIDE DEF f, m, n
  <2> QED
    BY <1>3, <1>4, FS_Injection
<1> QED
  BY <1>1, <1>2, <1>4, <1>5

LEMMA BatchStartInv ==
    ASSUME WorkflowInv, NEW c \in Calls, BatchStart(c)
    PROVE  WorkflowInv'
<1> DEFINE k == task[c]
           rs == results[c]
           k2 == [k EXCEPT !.step = k.step + 1]
<1>1. /\ k \in Progress /\ rs \in Seq(BatchResult) /\ clock \in Nat /\ Sound(k, rs, clock)
      /\ Asks(k, "batch-evidence-search")
  BY CallFacts DEF BatchStart
<1>2. /\ k.phase = "running" /\ k.at = 0 /\ k.step <= k.request.phrases
      /\ Cardinality(InFlight(c)) < Concurrency(k.request)
      /\ task' = [task EXCEPT ![c] = k2]
      /\ UNCHANGED <<files, changes, cell, clock, results>>
  BY <1>1 DEF BatchStart, Between, Request, WorkflowInv
<1>3. InFlight(c) = Pending(k, rs)
  BY DEF InFlight, Pending
<1>4. k.step \in Nat /\ k.step > 0 /\ k.request.concurrency \in Nat /\ k.request.phrases \in Nat
  BY <1>1, ProgressFacts
<1>5. /\ k2 \in Progress /\ k2.phase = k.phase /\ k2.reply = k.reply /\ k2.request = k.request
      /\ k2.started = k.started /\ k2.step = k.step + 1 /\ k2.at = k.at /\ k2.limit = k.limit
      /\ k2.comps = k.comps /\ k2.overran = k.overran
  <2>1. k.step + 1 \in Nat \ {0}
    BY <1>4
  <2> QED
    BY <1>1, <2>1 DEF Progress
<1>6. /\ k.reply \in {"none", "ok"} /\ k.comps = << >> /\ k.overran = 0
      /\ \A i \in DOMAIN rs : rs[i].index \in 1 .. k.step - 1
      /\ \A i, j \in DOMAIN rs : rs[i].index = rs[j].index => i = j
  BY <1>1 DEF Sound, Batched
<1>7. Cardinality(Pending(k2, rs)) <= 8
  <2>1. Concurrency(k.request) <= 8 /\ Concurrency(k.request) \in Nat
    BY <1>4 DEF Concurrency, Least
  <2>2. IsFiniteSet(Pending(k, rs))
    <3>1. IsFiniteSet(1 .. k.step - 1)
      <4>1. 1 \in Int /\ k.step - 1 \in Int
        BY <1>4
      <4> QED
        BY <4>1, FS_Interval
    <3> QED
      BY <3>1, FS_Subset DEF Pending
  <2>3. Pending(k2, rs) = Pending(k, rs) \cup {k.step}
    <3>1. \A i : i \in 1 .. k.step <=> i \in 1 .. k.step - 1 \/ i = k.step
      BY <1>4
    <3>2. \A j \in DOMAIN rs : rs[j].index # k.step
      BY <1>4, <1>6
    <3>3. k2.step - 1 = k.step
      BY <1>4, <1>5
    <3> HIDE DEF k2, k, rs
    <3> QED
      BY <3>1, <3>2, <3>3 DEF Pending
  <2>4. Cardinality(Pending(k2, rs)) <= Cardinality(Pending(k, rs)) + 1
        /\ Cardinality(Pending(k, rs)) \in Nat
    <3> HIDE DEF k2, k, rs
    <3>1. Cardinality(Pending(k, rs)) \in Nat
      BY <2>2, FS_CardinalityType
    <3>2. Cardinality(Pending(k2, rs)) =
            IF k.step \in Pending(k, rs) THEN Cardinality(Pending(k, rs))
            ELSE Cardinality(Pending(k, rs)) + 1
      BY <2>2, <2>3, FS_AddElement
    <3> QED
      BY <3>1, <3>2
  <2>5. Cardinality(Pending(k2, rs)) \in Nat
    <3> HIDE DEF k2, k, rs
    <3>1. IsFiniteSet(Pending(k2, rs))
      BY <2>2, <2>3, FS_AddElement
    <3> QED
      BY <3>1, FS_CardinalityType
  <2>6. Cardinality(Pending(k, rs)) < Concurrency(k.request)
    BY <1>2, <1>3
  <2> HIDE DEF k2, k, rs
  <2> QED
    BY <2>1, <2>4, <2>5, <2>6
<1> HIDE DEF k2
<1>8. Sound(k2, rs, clock)
  <2>1. Timely(k2, clock)
    BY <1>1, <1>5 DEF Sound, Timely
  <2>2. k.reply = "none"
    BY <1>1, <1>2 DEF Sound, Replied
  <2>3. Replied(k2)
    BY <1>5, <2>2 DEF Replied
  <2>4. Asks(k2, "batch-evidence-search") /\ ~Asks(k2, "source-investigate")
    BY <1>1, <1>5 DEF Asks
  <2>5. Reporting(k2)
    BY <2>4 DEF Reporting
  <2>6. Budgeted(k2, clock)
    <3>1. 1 .. Len(k2.comps) = {} /\ ~OnComponent(k2)
      BY <1>2, <1>5, <1>6 DEF OnComponent
    <3> QED
      BY <3>1, <1>5, <1>6 DEF Budgeted
  <2>7. Shared(k2)
    BY <2>4 DEF Shared
  <2>8. Batched(k2, rs)
    <3>1. k2.step - 1 <= k.request.phrases /\ 1 .. k.step - 1 \subseteq 1 .. k2.step - 1
      BY <1>2, <1>4, <1>5
    <3> QED
      BY <3>1, <1>2, <1>5, <1>6, <1>7, <2>4 DEF Batched
  <2> QED
    BY <2>1, <2>3, <2>5, <2>6, <2>7, <2>8 DEF Sound
<1> HIDE DEF k
<1>9. cell' \in [Cell -> {"empty", "held"} \cup Calls]
  BY <1>2 DEF WorkflowInv
<1> QED
  BY <1>1, <1>2, <1>5, <1>8, <1>9, OneCall

LEMMA BatchReturnsInv ==
    ASSUME WorkflowInv, NEW c \in Calls, BatchReturns(c)
    PROVE  WorkflowInv'
<1> DEFINE k == task[c]
           rs == results[c]
<1>1. /\ k \in Progress /\ rs \in Seq(BatchResult) /\ clock \in Nat /\ Sound(k, rs, clock)
      /\ Asks(k, "batch-evidence-search") /\ k.phase = "running"
  BY CallFacts DEF BatchReturns, Between
<1>2. PICK i \in InFlight(c), ok \in BOOLEAN :
        results' = [results EXCEPT ![c] = Append(rs, [index |-> i, ok |-> ok])]
  BY DEF BatchReturns
<1> DEFINE entry == [index |-> i, ok |-> ok]
           rs2 == Append(rs, entry)
<1>3. k.step \in Nat /\ k.step > 0 /\ i \in 1 .. k.step - 1 /\ \A j \in DOMAIN rs : rs[j].index # i
  BY <1>1, ProgressFacts DEF InFlight
<1>4. entry \in BatchResult /\ entry.index = i
  BY <1>3 DEF BatchResult
<1> HIDE DEF entry
<1>5. /\ rs2 \in Seq(BatchResult) /\ DOMAIN rs = 1 .. Len(rs) /\ Len(rs) \in Nat
      /\ DOMAIN rs2 = 1 .. Len(rs) + 1 /\ rs2[Len(rs) + 1] = entry
      /\ \A j \in 1 .. Len(rs) : rs2[j] = rs[j]
  BY <1>1, <1>4
<1> HIDE DEF rs2
<1>6. /\ k.phase # "answering" /\ k.reply \in {"none", "ok"} /\ k.at = 0
      /\ k.comps = << >> /\ k.overran = 0 /\ k.step - 1 <= k.request.phrases
      /\ \A j \in DOMAIN rs : rs[j].index \in 1 .. k.step - 1
      /\ \A j, l \in DOMAIN rs : rs[j].index = rs[l].index => j = l
      /\ Cardinality(Pending(k, rs)) <= 8
  BY <1>1 DEF Sound, Batched
<1>7. \A j \in DOMAIN rs2 : j \in DOMAIN rs \/ j = Len(rs) + 1
  BY <1>5
<1>8. Cardinality(Pending(k, rs2)) <= 8
  <2>1. IsFiniteSet(Pending(k, rs))
    <3>1. IsFiniteSet(1 .. k.step - 1)
      BY <1>3, FS_Interval
    <3> QED
      BY <3>1, FS_Subset DEF Pending
  <2>2. Pending(k, rs2) \subseteq Pending(k, rs)
    <3>1. \A j \in DOMAIN rs : j \in DOMAIN rs2 /\ rs2[j] = rs[j]
      BY <1>5
    <3> QED
      BY <3>1 DEF Pending
  <2> HIDE DEF k, rs
  <2>3. Cardinality(Pending(k, rs2)) <= Cardinality(Pending(k, rs)) /\ IsFiniteSet(Pending(k, rs2))
    BY <2>1, <2>2, FS_Subset
  <2>4. Cardinality(Pending(k, rs2)) \in Nat /\ Cardinality(Pending(k, rs)) \in Nat
    BY <2>1, <2>3, FS_CardinalityType
  <2> QED
    BY <2>3, <2>4, <1>6
<1>9. Batched(k, rs2)
  <2>1. \A j \in DOMAIN rs2 : rs2[j].index \in 1 .. k.step - 1
    BY <1>3, <1>4, <1>5, <1>6, <1>7
  <2>2. ASSUME NEW j \in DOMAIN rs2, NEW l \in DOMAIN rs2, rs2[j].index = rs2[l].index
        PROVE  j = l
    <3>1. CASE j \in DOMAIN rs /\ l \in DOMAIN rs
      BY <3>1, <2>2, <1>5, <1>6
    <3>2. CASE j = Len(rs) + 1 /\ l \in DOMAIN rs
      BY <3>2, <2>2, <1>3, <1>4, <1>5
    <3>3. CASE l = Len(rs) + 1 /\ j \in DOMAIN rs
      BY <3>3, <2>2, <1>3, <1>4, <1>5
    <3>4. CASE j = Len(rs) + 1 /\ l = Len(rs) + 1
      BY <3>4
    <3> QED
      BY <3>1, <3>2, <3>3, <3>4, <1>7
  <2>3. k.phase # "done" /\ k.phase # "idle"
    BY <1>1
  <2> QED
    BY <2>1, <2>2, <2>3, <1>1, <1>6, <1>8 DEF Batched
<1>10. Sound(k, rs2, clock)
  BY <1>1, <1>9 DEF Sound
<1>11. cell' \in [Cell -> {"empty", "held"} \cup Calls]
  BY DEF WorkflowInv, BatchReturns
<1>12. UNCHANGED <<files, changes, clock, task>>
  BY DEF BatchReturns
<1>13. task' = [task EXCEPT ![c] = k]
  BY <1>12 DEF WorkflowInv
<1>14. results' = [results EXCEPT ![c] = rs2]
  BY <1>2 DEF rs2, entry
<1> QED
  BY <1>1, <1>5, <1>10, <1>11, <1>12, <1>13, <1>14, OneCall

-----------------------------------------------------------------------------
(* The answer, the clock, the files; the invariant.                        *)

LEMMA AnswerInv ==
    ASSUME WorkflowInv, NEW c \in Calls, Answer(c)
    PROVE  WorkflowInv'
<1> DEFINE k == task[c]
           rs == results[c]
           reply == IF Reported(c) THEN "ok" ELSE k.reply
           k2 == [k EXCEPT !.phase = "done", !.reply = reply]
           rs2 == IF IsBatch(c) THEN InOrder(rs) ELSE rs
<1>1. /\ k \in Progress /\ rs \in Seq(BatchResult) /\ clock \in Nat /\ Sound(k, rs, clock)
      /\ ThePlan(c) = Plan(k.request)
      /\ (IsBatch(c) <=> Asks(k, "batch-evidence-search"))
  BY CallFacts
<1>2. /\ task' = [task EXCEPT ![c] = k2]
      /\ results' = IF IsBatch(c) THEN [results EXCEPT ![c] = rs2] ELSE results
      /\ UNCHANGED <<files, changes, cell, clock>>
      /\ k.phase = "answering" \/ Reported(c)
  BY DEF Answer, WorkflowInv
<1>3. /\ k2 \in Progress /\ k2.phase = "done" /\ k2.reply = reply /\ k2.request = k.request
      /\ k2.started = k.started /\ k2.step = k.step /\ k2.at = k.at /\ k2.limit = k.limit
      /\ k2.comps = k.comps /\ k2.warned = k.warned /\ k2.overran = k.overran
  BY <1>1 DEF Progress
<1>4. Reported(c) => k.phase = "running" /\ reply = "ok" /\ k.reply = "none"
  BY <1>1 DEF Reported, Between, Sound, Replied
<1>5. ~Reported(c) => k.phase = "answering" /\ reply = k.reply /\ k.reply # "ok"
  BY <1>1, <1>2 DEF Sound, Replied
<1> HIDE DEF k2, reply
<1>6. Timely(k2, clock)
  BY <1>1, <1>3 DEF Sound, Timely
<1>7. Replied(k2)
  BY <1>1, <1>3, <1>4, <1>5 DEF Sound, Replied, Current
<1>8. ~OnComponent(k2)
  BY <1>3 DEF OnComponent
<1>9. Reporting(k2)
  <2>1. Reporting(k)
    BY <1>1 DEF Sound
  <2>2. k2.reply = "ok" /\ ~Asks(k, "batch-evidence-search") => k.step > Len(Plan(k.request))
    BY <1>1, <1>3, <1>5 DEF Reported
  <2> QED
    BY <2>1, <2>2, <1>3, <1>8 DEF Reporting, Cut, Asks
<1>10. Budgeted(k2, clock)
  <2>1. Budgeted(k, clock) /\ (Spent(k2, clock) <=> Spent(k, clock))
    BY <1>1, <1>3 DEF Sound, Spent
  <2> QED
    BY <2>1, <1>3, <1>8 DEF Budgeted
<1>11. Shared(k2)
  BY <1>1, <1>3, <1>8 DEF Sound, Shared, Asks, HadFrontier
<1>12. rs2 \in Seq(BatchResult) /\ Batched(k2, rs2)
  <2>1. Batched(k, rs)
    BY <1>1 DEF Sound
  <2>2. CASE ~IsBatch(c)
    <3>1. rs2 = rs /\ ~Asks(k2, "batch-evidence-search") /\ k2.phase # "idle"
      BY <2>2, <1>1, <1>3 DEF Asks
    <3>2. rs = << >>
      BY <2>1, <2>2, <1>1 DEF Batched
    <3> QED
      BY <3>1, <3>2, <1>1 DEF Batched
  <2>3. CASE IsBatch(c)
    <3>1. /\ Asks(k, "batch-evidence-search") /\ rs2 = InOrder(rs)
          /\ k.phase # "answering"
      BY <2>1, <2>3, <1>1 DEF Batched
    <3>2. Reported(c) /\ Len(rs) = k.request.phrases
      BY <3>1, <2>3, <1>2 DEF Reported, Request
    <3>3. Len(rs) <= k.step - 1 /\ k.step - 1 <= k.request.phrases
      BY <3>1, <2>1, <1>1, ResultsBound
    <3>4. Len(rs) \in Nat /\ k.step \in Nat /\ DOMAIN rs = 1 .. Len(rs)
      BY <1>1, ProgressFacts
    <3>5. k.step - 1 = Len(rs)
      <4> HIDE DEF k, rs
      <4> QED
        BY <3>2, <3>3, <3>4
    <3>6. /\ k.reply \in {"none", "ok"} /\ k.at = 0 /\ k.comps = << >> /\ k.overran = 0
          /\ \A i \in DOMAIN rs : rs[i].index \in 1 .. Len(rs)
          /\ \A i, j \in DOMAIN rs : rs[i].index = rs[j].index => i = j
      BY <3>1, <3>5, <2>1 DEF Batched
    <3>7. /\ rs2 \in Seq(BatchResult) /\ Len(rs2) = Len(rs)
          /\ \A i \in 1 .. Len(rs) : rs2[i].index = i
      BY <3>1, <3>6, <1>1, InOrderFacts
    <3> HIDE DEF rs2
    <3>8. DOMAIN rs2 = 1 .. Len(rs)
      BY <3>7
    <3>9. Pending(k2, rs2) = {}
      <4> HIDE DEF k, rs
      <4>1. k2.step - 1 = Len(rs)
        BY <3>5, <1>3
      <4> QED
        BY <3>7, <3>8, <4>1 DEF Pending
    <3>10. Cardinality(Pending(k2, rs2)) <= 8
      <4>1. Cardinality(Pending(k2, rs2)) = 0
        BY <3>9, FS_EmptySet
      <4> QED
        BY <4>1
    <3>11. Asks(k2, "batch-evidence-search") /\ k2.reply = "ok"
      BY <3>1, <3>2, <1>3, <1>4 DEF Asks
    <3>12. \A i \in DOMAIN rs2 : rs2[i].index \in 1 .. k2.step - 1
      <4> HIDE DEF k, rs
      <4>1. k2.step - 1 = Len(rs)
        BY <3>5, <1>3
      <4> QED
        BY <3>7, <3>8, <4>1
    <3>13. k2.step - 1 <= k2.request.phrases
      BY <3>3, <1>3
    <3>14. \A i, j \in DOMAIN rs2 : rs2[i].index = rs2[j].index => i = j
      BY <3>7, <3>8
    <3>15. Len(rs2) = k2.request.phrases /\ \A i \in DOMAIN rs2 : rs2[i].index = i
      BY <3>2, <3>7, <3>8, <1>3
    <3> HIDE DEF k, rs
    <3> QED
      BY <3>6, <3>7, <3>10, <3>11, <3>12, <3>13, <3>14, <3>15, <1>3 DEF Batched
  <2> QED
    BY <2>2, <2>3
<1>13. Sound(k2, rs2, clock)
  BY <1>6, <1>7, <1>9, <1>10, <1>11, <1>12 DEF Sound
<1>14. results' = [results EXCEPT ![c] = rs2] \/ (results' = results /\ rs2 = results[c])
  BY <1>2
<1>15. cell' \in [Cell -> {"empty", "held"} \cup Calls]
  BY <1>2 DEF WorkflowInv
<1> HIDE DEF rs2
<1> QED
  BY <1>2, <1>3, <1>12, <1>13, <1>14, <1>15, OneCall

\* As time passes, what is spent stays spent.
LEMMA TickInv ==
    ASSUME WorkflowInv, Tick
    PROVE  WorkflowInv'
<1>1. clock \in Nat /\ clock' = clock + 1 /\ clock' \in 0 .. MaxClock
      /\ UNCHANGED <<files, changes, cell, task, results>>
  BY BoundsAssumption DEF Tick, WorkflowInv
<1>2. ASSUME NEW c \in Calls
      PROVE  Sound(task[c], results[c], clock + 1)
  <2> DEFINE k == task[c]
  <2>1. k \in Progress /\ Sound(k, results[c], clock)
    BY CallFacts
  <2>2. k.started \in Nat /\ k.request.max_elapsed \in Limit
    BY <2>1, ProgressFacts
  <2>3. Spent(k, clock) => Spent(k, clock + 1)
    BY <1>1, <2>2 DEF Spent, Limit
  <2>4. Timely(k, clock + 1)
    BY <1>1, <2>1, <2>2 DEF Sound, Timely
  <2>5. Budgeted(k, clock + 1)
    BY <2>1, <2>3 DEF Sound, Budgeted
  <2> QED
    BY <2>1, <2>4, <2>5 DEF Sound
<1> QED
  BY <1>1, <1>2 DEF WorkflowInv

LEMMA NextInv == WorkflowInv /\ [WorkflowNext]_workflowVars => WorkflowInv'
<1> SUFFICES ASSUME WorkflowInv, [WorkflowNext]_workflowVars PROVE WorkflowInv'
  OBVIOUS
<1>1. CASE Tick
  BY <1>1, TickInv
<1>2. CASE Replace
  <2>1. files' \in [Artefact -> {"none", "good", "bad"}] /\ changes' \in 0 .. MaxChanges
    BY <1>2, BoundsAssumption, DisksAssumption DEF Replace, WorkflowInv
  <2> QED
    BY <1>2, <2>1 DEF Replace, WorkflowInv
<1>3. CASE UNCHANGED workflowVars
  BY <1>3 DEF workflowVars, WorkflowInv
<1>4. ASSUME NEW c \in Calls, Admit(c) \/ Step(c)
      PROVE  WorkflowInv'
  BY <1>4, StartInv, SkipInv, BeginInv, ClaimInv, FillFailsInv, CheckPhraseInv, WorkInv, RejectsInv, ExpireInv,
     BatchStartInv, BatchReturnsInv, AnswerInv DEF Step
<1> QED
  BY <1>1, <1>2, <1>3, <1>4 DEF WorkflowNext, AllAnswered

\* The invariant of all calls, for any requests and limits.
THEOREM WorkflowInvariant == WorkflowSpec => []WorkflowInv
BY InitInv, NextInv, PTL DEF WorkflowSpec

-----------------------------------------------------------------------------
(* Types.                                                                  *)

LEMMA InvImpliesTypeOK == WorkflowInv => WorkflowTypeOK
<1> SUFFICES ASSUME WorkflowInv PROVE WorkflowTypeOK
  OBVIOUS
<1>1. ASSUME NEW c \in Calls
      PROVE  /\ task[c].phase \in {"idle", "running", "answering", "done"}
             /\ task[c].request \in UNION Range(Requests) /\ task[c].started \in 0 .. clock
             /\ task[c].limit = None \/ task[c].limit >= task[c].started + MinEnforceable
             /\ \A i \in DOMAIN task[c].comps : task[c].comps[i][2] \in Status
             /\ Running(c) => task[c].step <= Len(ThePlan(c)) /\ ~IsBatch(c)
             /\ Len(results[c]) <= Request(c).phrases
             /\ IsBatch(c) => Cardinality(InFlight(c)) <= 8
  <2> DEFINE k == task[c]
             rs == results[c]
  <2>1. /\ k \in Progress /\ rs \in Seq(BatchResult) /\ clock \in Nat
        /\ Sound(k, rs, clock) /\ ThePlan(c) = Plan(k.request)
        /\ (Running(c) <=> OnComponent(k))
        /\ (IsBatch(c) <=> Asks(k, "batch-evidence-search"))
    BY CallFacts
  <2>2. /\ k.started \in Nat /\ k.comps \in Seq(ComponentName \X Status)
        /\ k.request \in AnyRequest /\ k.request.phrases \in Nat /\ k.step \in Nat
    BY <2>1, ProgressFacts
  <2>3. k.phase \in {"idle", "running", "answering", "done"} /\ k.request \in UNION Range(Requests)
    BY <2>1, <2>2 DEF Progress, AnyRequest
  <2>4. k.started \in 0 .. clock /\ (k.limit = None \/ k.limit >= k.started + MinEnforceable)
    BY <2>1, <2>2 DEF Sound, Timely
  <2>5. \A i \in DOMAIN k.comps : k.comps[i][2] \in Status
    BY <2>2
  <2>6. Running(c) => k.step <= Len(ThePlan(c)) /\ ~IsBatch(c)
    BY <2>1, OnComponentFacts
  <2>7. Len(rs) <= k.request.phrases
    <3>1. CASE IsBatch(c)
      <4>1. Len(rs) <= k.step - 1 /\ k.step - 1 <= k.request.phrases
        BY <3>1, <2>1, ResultsBound DEF Sound
      <4>2. Len(rs) \in Nat
        BY <2>1
      <4> HIDE DEF k, rs
      <4> QED
        BY <4>1, <4>2, <2>2
    <3>2. CASE ~IsBatch(c)
      <4>1. rs = << >>
        BY <3>2, <2>1 DEF Sound, Batched
      <4> QED
        BY <4>1, <2>2
    <3> QED
      BY <3>1, <3>2
  <2>8. IsBatch(c) => Cardinality(InFlight(c)) <= 8
    <3>1. InFlight(c) = Pending(k, rs)
      BY DEF InFlight, Pending
    <3> QED
      BY <3>1, <2>1 DEF Sound, Batched
  <2> QED
    BY <2>3, <2>4, <2>5, <2>6, <2>7, <2>8 DEF Request
<1> QED
  BY <1>1 DEF WorkflowInv, WorkflowTypeOK

\* Types: with at most eight searches of a batch under way, and no limit below the
\* least that is enforced.
THEOREM TypesHold == WorkflowSpec => []WorkflowTypeOK
BY WorkflowInvariant, InvImpliesTypeOK, PTL

-----------------------------------------------------------------------------
(* The report.                                                             *)

LEMMA InvImpliesReported == WorkflowInv => ComponentsAreReported
<1> SUFFICES ASSUME WorkflowInv, NEW c \in Calls, task[c].reply = "ok", ~IsBatch(c)
             PROVE  LET comps == task[c].comps IN
                    /\ \A i \in DOMAIN comps : comps[i][1] = ThePlan(c)[i].name
                    /\ \/ Len(comps) = Len(ThePlan(c))
                       \/ CutShort(c)
                       \/ /\ Request(c).tool = "source-investigate"
                          /\ comps[Len(comps)] = <<"phrase_history", "skipped_budget">>
                    /\ Request(c).tool # "scope-profile" =>
                         task[c].warned = {i \in DOMAIN comps :
                             \/ comps[i][2] \in {"failed", "timed_out"}
                             \/ comps[i] = <<"vector_neighbors", "unavailable">>
                             \/ CutShort(c)}
  BY DEF ComponentsAreReported
<1> DEFINE k == task[c]
           comps == k.comps
           plan == Plan(k.request)
<1>1. /\ k \in Progress /\ Reporting(k) /\ ThePlan(c) = plan /\ ~Asks(k, "batch-evidence-search")
  BY CallFacts DEF Sound
<1>2. /\ comps \in Seq(ComponentName \X Status) /\ DOMAIN comps = 1 .. Len(comps)
      /\ Len(comps) \in Nat /\ Len(plan) \in Nat /\ k.step \in Nat
  BY <1>1, ProgressFacts
<1>3. /\ Len(comps) <= Len(plan) /\ \A i \in 1 .. Len(comps) : comps[i][1] = plan[i].name
      /\ \/ k.step = Len(comps) + 1
         \/ (Asks(k, "source-investigate") /\ comps[Len(comps)] = <<"phrase_history", "skipped_budget">>)
         \/ Cut(k)
      /\ ~Asks(k, "scope-profile") =>
           k.warned = {i \in 1 .. Len(comps) : Warns(comps[i][1], comps[i][2]) \/ Cut(k)}
      /\ k.step > Len(plan)
  BY <1>1 DEF Reporting
<1>4. k.step = Len(comps) + 1 => Len(comps) = Len(plan)
  <2> HIDE DEF comps, plan, k
  <2> QED
    BY <1>2, <1>3
<1>5. \A i \in DOMAIN comps :
        Warns(comps[i][1], comps[i][2]) <=> \/ comps[i][2] \in {"failed", "timed_out"}
                                            \/ comps[i] = <<"vector_neighbors", "unavailable">>
  <2> TAKE i \in DOMAIN comps
  <2>1. comps[i] \in ComponentName \X Status
    BY <1>2
  <2>2. comps[i] = <<comps[i][1], comps[i][2]>>
    BY <2>1
  <2> QED
    BY <2>2 DEF Warns
<1>6. CutShort(c) <=> Cut(k)
  <2>1. Cut(k) => CutShort(c)
    BY DEF Cut, CutShort, Asks, Request
  <2> SUFFICES ASSUME CutShort(c) PROVE Cut(k)
    BY <2>1
  <2>2. Asks(k, "report-from-evidence") /\ comps = <<<<"validation", "ok">>>> /\ Len(comps) = 1
    BY DEF CutShort, Asks, Request
  <2>3. Len(plan) = 3
    BY <2>2, <1>1, ProgressFacts, PlanFacts DEF Asks
  <2>4. ~Asks(k, "source-investigate")
    BY <2>2 DEF Asks
  <2> HIDE DEF comps, plan, k
  <2> QED
    BY <1>3, <1>4, <2>2, <2>3, <2>4
<1>7. \/ Len(comps) = Len(plan) \/ CutShort(c)
      \/ /\ Request(c).tool = "source-investigate"
         /\ comps[Len(comps)] = <<"phrase_history", "skipped_budget">>
  BY <1>3, <1>4, <1>6 DEF Asks, Request
<1>8. Request(c).tool # "scope-profile" =>
        k.warned = {i \in DOMAIN comps :
                             \/ comps[i][2] \in {"failed", "timed_out"}
                             \/ comps[i] = <<"vector_neighbors", "unavailable">>
                             \/ CutShort(c)}
  <2> SUFFICES ASSUME Request(c).tool # "scope-profile"
               PROVE  k.warned = {i \in DOMAIN comps :
                             \/ comps[i][2] \in {"failed", "timed_out"}
                             \/ comps[i] = <<"vector_neighbors", "unavailable">>
                             \/ CutShort(c)}
    OBVIOUS
  <2>1. k.warned = {i \in DOMAIN comps : Warns(comps[i][1], comps[i][2]) \/ Cut(k)}
    BY <1>2, <1>3 DEF Asks, Request
  <2> HIDE DEF comps, k
  <2> QED
    BY <2>1, <1>5, <1>6
<1>9. \A i \in DOMAIN comps : comps[i][1] = ThePlan(c)[i].name
  BY <1>1, <1>2, <1>3
<1> QED
  BY <1>1, <1>7, <1>8, <1>9

LEMMA InvImpliesOptional == WorkflowInv => OptionalNeverFails
BY CallFacts DEF OptionalNeverFails, Sound, Replied

LEMMA InvImpliesOneOverrun == WorkflowInv => OneOverrun
<1> SUFFICES ASSUME WorkflowInv, NEW c \in Calls
             PROVE  /\ task[c].overran <= 1
                    /\ \A i, j \in DOMAIN task[c].comps :
                         i < j /\ task[c].comps[i][2] = "skipped_budget" =>
                           \/ task[c].comps[j][2] \in {"skipped_budget", "not_requested", "unavailable"}
  BY DEF OneOverrun
<1>1. task[c] \in Progress /\ Budgeted(task[c], clock)
  BY CallFacts DEF Sound
<1>2. DOMAIN task[c].comps = 1 .. Len(task[c].comps)
  BY <1>1, ProgressFacts
<1> QED
  BY <1>1, <1>2 DEF Budgeted

LEMMA InvImpliesReused == WorkflowInv => FrontierIsReused
<1> SUFFICES ASSUME WorkflowInv, NEW c \in Calls,
                    Request(c).tool = "source-investigate", Has(c, "frontier", "ok"),
                    NEW s \in {"failed", "timed_out", "skipped_budget"}, Has(c, "similar", s)
             PROVE  FALSE
  BY DEF FrontierIsReused
<1>1. task[c] \in Progress /\ Shared(task[c])
  BY CallFacts DEF Sound
<1>2. DOMAIN task[c].comps = 1 .. Len(task[c].comps)
  BY <1>1, ProgressFacts
<1>3. HadFrontier(task[c]) /\ Asks(task[c], "source-investigate")
  BY <1>2 DEF Has, HadFrontier, Asks, Request
<1>4. PICK i \in 1 .. Len(task[c].comps) : task[c].comps[i] = <<"similar", s>>
  BY <1>2 DEF Has
<1> QED
  BY <1>1, <1>3, <1>4 DEF Shared

LEMMA InvImpliesBatchInOrder == WorkflowInv => BatchInOrder
<1> SUFFICES ASSUME WorkflowInv, NEW c \in Calls, IsBatch(c), task[c].phase = "done",
                    NEW i \in 1 .. Request(c).phrases
             PROVE  results[c][i].index = i
  BY DEF BatchInOrder
<1>1. Batched(task[c], results[c]) /\ Asks(task[c], "batch-evidence-search")
      /\ results[c] \in Seq(BatchResult)
  BY CallFacts DEF Sound
<1>2. Len(results[c]) = Request(c).phrases /\ \A j \in DOMAIN results[c] : results[c][j].index = j
  BY <1>1 DEF Batched, Request
<1> QED
  BY <1>1, <1>2

-----------------------------------------------------------------------------
(* The ranking of candidates.                                              *)

\* The number of members of S that R puts before x.
Place(S, R, x) == Cardinality({y \in S : <<y, x>> \in R})

\* A strict total order numbers the members of a finite set from 0 on.
LEMMA OrderRanks ==
    ASSUME NEW S, IsFiniteSet(S), NEW R,
           \A x \in S : <<x, x>> \notin R,
           \A x, y, z \in S : <<x, y>> \in R /\ <<y, z>> \in R => <<x, z>> \in R,
           \A x, y \in S : x = y \/ <<x, y>> \in R \/ <<y, x>> \in R
    PROVE  /\ Cardinality(S) \in Nat
           /\ \A x \in S : Place(S, R, x) \in Nat
           /\ \A x, y \in S : <<x, y>> \in R => Place(S, R, x) < Place(S, R, y)
           /\ \A x, y \in S : Place(S, R, x) = Place(S, R, y) => x = y
           /\ \A k \in 1 .. Cardinality(S) : \E x \in S : Place(S, R, x) = k - 1
<1> DEFINE n == Cardinality(S)
           under(x) == {y \in S : <<y, x>> \in R}
           rank(x) == Cardinality(under(x))
<1>1. n \in Nat
  BY FS_CardinalityType
<1>2. ASSUME NEW x \in S
      PROVE  IsFiniteSet(under(x)) /\ rank(x) \in Nat /\ rank(x) < n
  <2>1. under(x) \in SUBSET S /\ under(x) # S
    OBVIOUS
  <2> HIDE DEF under
  <2>2. IsFiniteSet(under(x)) /\ rank(x) <= n /\ (n = rank(x) => S = under(x))
    BY <2>1, FS_Subset
  <2>3. rank(x) \in Nat
    BY <2>2, FS_CardinalityType
  <2> QED
    BY <1>1, <2>1, <2>2, <2>3
<1>3. ASSUME NEW x \in S, NEW y \in S, <<x, y>> \in R
      PROVE  rank(x) < rank(y)
  <2>1. under(x) \in SUBSET under(y) /\ x \in under(y) /\ x \notin under(x)
    BY <1>3
  <2>2. IsFiniteSet(under(y)) /\ rank(x) \in Nat /\ rank(y) \in Nat
    BY <1>2
  <2> HIDE DEF under
  <2>3. rank(x) <= rank(y) /\ (rank(y) = rank(x) => under(y) = under(x))
    BY <2>1, <2>2, FS_Subset
  <2> QED
    BY <2>1, <2>2, <2>3
<1>4. ASSUME NEW x \in S, NEW y \in S, rank(x) = rank(y)
      PROVE  x = y
  <2>1. ~(rank(x) < rank(y)) /\ ~(rank(y) < rank(x))
    <3>1. rank(x) \in Nat /\ rank(y) \in Nat
      BY <1>2
    <3> HIDE DEF rank
    <3> QED
      BY <3>1, <1>4
  <2> HIDE DEF rank
  <2> QED
    BY <2>1, <1>3
<1>5. \A k \in 1 .. n : \E x \in S : rank(x) = k - 1
  <2> DEFINE f == [x \in S |-> rank(x) + 1]
  <2> HIDE DEF rank
  <2>1. f \in Injection(S, 1 .. n)
    <3>0. \A x \in S : rank(x) \in Nat /\ rank(x) < n
      BY <1>2
    <3>1. \A x \in S : rank(x) + 1 \in 1 .. n
      <4> HIDE DEF n
      <4> QED
        BY <1>1, <3>0
    <3>2. ASSUME NEW x \in S, NEW y \in S, rank(x) + 1 = rank(y) + 1
          PROVE  x = y
      <4>1. rank(x) = rank(y)
        BY <3>0, <3>2
      <4> QED
        BY <4>1, <1>4
    <3> HIDE DEF n
    <3> QED
      BY <3>1, <3>2 DEF Injection, IsInjective
  <2>2. IsFiniteSet(1 .. n) /\ Cardinality(1 .. n) = n
    <3> HIDE DEF n
    <3>1. IsFiniteSet(1 .. n) /\ Cardinality(1 .. n) = IF 1 > n THEN 0 ELSE n - 1 + 1
      BY <1>1, FS_Interval
    <3> QED
      BY <1>1, <3>1
  <2>3. f \in Surjection(S, 1 .. n)
    <3> HIDE DEF f
    <3> QED
      BY <2>1, <2>2, FS_Injection
  <2>4. ASSUME NEW k \in 1 .. n
        PROVE  \E x \in S : rank(x) = k - 1
    <3>1. PICK x \in S : f[x] = k
      BY <2>3 DEF Surjection
    <3>2. rank(x) + 1 = k /\ rank(x) \in Nat
      BY <3>1, <1>2
    <3> HIDE DEF n
    <3> QED
      BY <3>2
  <2> QED
    BY <2>4
<1> QED
  BY <1>1, <1>2, <1>3, <1>4, <1>5 DEF Place

LEMMA Quotient ==
    ASSUME NEW a \in Nat, NEW r \in Nat, r > 0
    PROVE  a \div r \in Nat /\ a \div r <= a
OBVIOUS

\* A candidate, its ranks in the two lists, and the class its score falls in.
LEMMA CandidateFacts ==
    ASSUME NEW vector \in Seq(STRING), NEW lexical \in Seq(STRING), NEW h \in Merged(vector, lexical)
    PROVE  /\ h.vector_rank \in Nat /\ h.tfidf_rank \in Nat
           /\ h.vector_rank > 0 \/ h.tfidf_rank > 0
           /\ h.vector_rank > 0 => vector[h.vector_rank] = h.id
           /\ h.tfidf_rank > 0 => lexical[h.tfidf_rank] = h.id
           /\ h = [id |-> h.id, vector_rank |-> RankIn(vector, h.id),
                   tfidf_rank |-> RankIn(lexical, h.id),
                   score |-> FinalScore(RankIn(vector, h.id), RankIn(lexical, h.id))]
           /\ h.score \in Nat
           /\ h.vector_rank > 0 /\ h.tfidf_rank > 0 => h.score >= 3 * Unit
           /\ h.vector_rank = 0 => h.score >= 2 * Unit /\ h.score < 3 * Unit
           /\ h.tfidf_rank = 0 => h.score < 2 * Unit
<1>1. PICK p \in Range(vector) \cup Range(lexical) :
        h = [id |-> p, vector_rank |-> RankIn(vector, p), tfidf_rank |-> RankIn(lexical, p),
             score |-> FinalScore(RankIn(vector, p), RankIn(lexical, p))]
  BY DEF Merged
<1> DEFINE v == RankIn(vector, p)
           l == RankIn(lexical, p)
<1>2. ASSUME NEW list \in Seq(STRING)
      PROVE  /\ RankIn(list, p) \in Nat
             /\ RankIn(list, p) > 0 => list[RankIn(list, p)] = p
             /\ p \in Range(list) => RankIn(list, p) > 0
  <2>1. CASE p \in Range(list)
    <3>1. \E i \in DOMAIN list : list[i] = p
      BY <2>1 DEF Range
    <3>2. RankIn(list, p) \in DOMAIN list /\ list[RankIn(list, p)] = p
      BY <2>1, <3>1 DEF RankIn
    <3> QED
      BY <3>2
  <2>2. CASE p \notin Range(list)
    BY <2>2 DEF RankIn
  <2> QED
    BY <2>1, <2>2
<1>3. /\ v \in Nat /\ l \in Nat /\ (v > 0 \/ l > 0)
      /\ v > 0 => vector[v] = p
      /\ l > 0 => lexical[l] = p
  BY <1>2
<1> HIDE DEF v, l
<1>4. Unit \in Nat /\ Unit > 0
  BY ListsAssumption
<1>5. Unit \div 4 \in Nat /\ Unit \div 4 < Unit /\ Unit \div 2 \in Nat /\ Unit \div 2 < Unit
  BY <1>4
<1>6. /\ v > 0 => (Unit \div 4) \div v \in Nat /\ (Unit \div 4) \div v < Unit
      /\ l > 0 => (Unit \div 2) \div l \in Nat /\ (Unit \div 2) \div l < Unit
  <2>1. v > 0 => (Unit \div 4) \div v \in Nat /\ (Unit \div 4) \div v <= Unit \div 4
    BY <1>3, <1>5, Quotient
  <2>2. l > 0 => (Unit \div 2) \div l \in Nat /\ (Unit \div 2) \div l <= Unit \div 2
    BY <1>3, <1>5, Quotient
  <2> QED
    BY <2>1, <2>2, <1>4, <1>5
<1> DEFINE s == FinalScore(v, l)
           a == (Unit \div 4) \div v
           b == (Unit \div 2) \div l
<1>7. /\ v > 0 /\ l > 0 => s = 3 * Unit + a + b
      /\ v = 0 /\ l > 0 => s = 2 * Unit + b
      /\ v > 0 /\ l = 0 => s = Unit + a
  BY <1>3 DEF FinalScore
<1> HIDE DEF s, a, b
<1>8. /\ v > 0 => a \in Nat /\ a < Unit
      /\ l > 0 => b \in Nat /\ b < Unit
  BY <1>6 DEF a, b
<1>9. /\ s \in Nat
      /\ v > 0 /\ l > 0 => s >= 3 * Unit
      /\ v = 0 => s >= 2 * Unit /\ s < 3 * Unit
      /\ l = 0 => s < 2 * Unit
  BY <1>3, <1>4, <1>7, <1>8
<1>10. h.id = p /\ h.vector_rank = v /\ h.tfidf_rank = l /\ h.score = s
  BY <1>1 DEF v, l, s
<1> QED
  BY <1>1, <1>3, <1>9, <1>10

\* Better is a strict order of the candidates, and a total one: two passages do not
\* share a rank.
LEMMA BeforeIsTotal ==
    ASSUME NEW vector \in Seq(STRING), NEW lexical \in Seq(STRING)
    PROVE  LET all == Merged(vector, lexical) IN
           /\ \A g \in all : ~Better(g, g)
           /\ \A f, g, h \in all : Better(f, g) /\ Better(g, h) => Better(f, h)
           /\ \A g, h \in all : g = h \/ Better(g, h) \/ Better(h, g)
<1> DEFINE all == Merged(vector, lexical)
<1>1. ASSUME NEW g \in all
      PROVE  g.score \in Nat /\ g.vector_rank \in Nat /\ g.tfidf_rank \in Nat
  BY CandidateFacts
<1>2. ASSUME NEW g \in all
      PROVE  ~Better(g, g)
  BY <1>1 DEF Better, Sooner
<1>3. ASSUME NEW f \in all, NEW g \in all, NEW h \in all, Better(f, g), Better(g, h)
      PROVE  Better(f, h)
  <2>1. /\ f.score \in Nat /\ f.vector_rank \in Nat /\ f.tfidf_rank \in Nat
        /\ g.score \in Nat /\ g.vector_rank \in Nat /\ g.tfidf_rank \in Nat
        /\ h.score \in Nat /\ h.vector_rank \in Nat /\ h.tfidf_rank \in Nat
    BY <1>1
  <2> QED
    BY <2>1, <1>3 DEF Better, Sooner, Overlap
<1>4. ASSUME NEW g \in all, NEW h \in all
      PROVE  g = h \/ Better(g, h) \/ Better(h, g)
  <2>1. /\ g.score \in Nat /\ g.vector_rank \in Nat /\ g.tfidf_rank \in Nat
        /\ h.score \in Nat /\ h.vector_rank \in Nat /\ h.tfidf_rank \in Nat
    BY <1>1
  <2>2. CASE g.vector_rank = h.vector_rank /\ g.tfidf_rank = h.tfidf_rank
    <3>1. g.id = h.id
      BY <2>2, CandidateFacts
    <3>2. g = h
      BY <3>1, CandidateFacts
    <3> QED
      BY <3>2
  <2>3. CASE g.vector_rank # h.vector_rank \/ g.tfidf_rank # h.tfidf_rank
    BY <2>1, <2>3 DEF Better, Sooner, Overlap
  <2> QED
    BY <2>2, <2>3
<1> QED
  BY <1>2, <1>3, <1>4

LEMMA MergedIsFinite ==
    ASSUME NEW vector \in Seq(STRING), NEW lexical \in Seq(STRING)
    PROVE  IsFiniteSet(Merged(vector, lexical))
<1>1. ASSUME NEW list \in Seq(STRING)
      PROVE  IsFiniteSet(Range(list))
  <2>1. list \in Surjection(1 .. Len(list), Range(list))
    BY DEF Surjection, Range
  <2>2. IsFiniteSet(1 .. Len(list))
    BY FS_Interval
  <2> QED
    BY <2>1, <2>2, FS_Surjection
<1> DEFINE P == Range(vector) \cup Range(lexical)
           hit(p) == [id |-> p, vector_rank |-> RankIn(vector, p), tfidf_rank |-> RankIn(lexical, p),
                      score |-> FinalScore(RankIn(vector, p), RankIn(lexical, p))]
           f == [p \in P |-> hit(p)]
<1>2. IsFiniteSet(P)
  BY <1>1, FS_Union
<1>3. Merged(vector, lexical) = {hit(p) : p \in P}
  BY DEF Merged
<1> HIDE DEF P, hit
<1>4. f \in Surjection(P, Merged(vector, lexical))
  BY <1>3 DEF Surjection
<1> QED
  BY <1>2, <1>4, FS_Surjection

LEMMA InvImpliesRanking == WorkflowInv => HybridRanking
<1> SUFFICES ASSUME WorkflowInv, NEW c \in Calls
             PROVE  LET all == Merged(task[c].vector, task[c].lexical)
                        hits == Hits(Request(c), task[c].vector, task[c].lexical)
                        class(h) == IF Overlap(h) THEN 3 ELSE IF h.tfidf_rank > 0 THEN 2 ELSE 1
                    IN  /\ \A a, b \in all : a = b \/ Better(a, b) \/ Better(b, a)
                        /\ \A i \in DOMAIN hits : \A h \in all :
                             class(h) > class(hits[i]) => \E j \in 1 .. i - 1 : hits[j] = h
  BY DEF HybridRanking
<1> DEFINE vector == task[c].vector
           lexical == task[c].lexical
           all == Merged(vector, lexical)
           limit == Request(c).limit
           n == Cardinality(all)
           hits == Hits(Request(c), vector, lexical)
           class(h) == IF Overlap(h) THEN 3 ELSE IF h.tfidf_rank > 0 THEN 2 ELSE 1
           R == {e \in all \X all : Better(e[1], e[2])}
           rank(x) == Cardinality({y \in all : Better(y, x)})
<1>1. vector \in Seq(STRING) /\ lexical \in Seq(STRING) /\ limit \in Nat
  BY CallFacts, ProgressFacts DEF Progress, Request
<1> HIDE DEF vector, lexical, limit
<1>2. /\ \A g \in all : ~Better(g, g)
      /\ \A f, g, h \in all : Better(f, g) /\ Better(g, h) => Better(f, h)
      /\ \A g, h \in all : g = h \/ Better(g, h) \/ Better(h, g)
  BY <1>1, BeforeIsTotal
<1>3. /\ n \in Nat
      /\ \A x \in all : rank(x) \in Nat
      /\ \A x, y \in all : Better(x, y) => rank(x) < rank(y)
      /\ \A x, y \in all : rank(x) = rank(y) => x = y
      /\ \A k \in 1 .. n : \E x \in all : rank(x) = k - 1
  <2>1. IsFiniteSet(all)
    BY <1>1, MergedIsFinite
  <2>2. \A x, y \in all : <<x, y>> \in R <=> Better(x, y)
    OBVIOUS
  <2>3. \A x \in all : {y \in all : <<y, x>> \in R} = {y \in all : Better(y, x)}
    BY <2>2
  <2> HIDE DEF all, R
  <2>4. /\ \A x \in all : <<x, x>> \notin R
        /\ \A x, y, z \in all : <<x, y>> \in R /\ <<y, z>> \in R => <<x, z>> \in R
        /\ \A x, y \in all : x = y \/ <<x, y>> \in R \/ <<y, x>> \in R
    BY <1>2, <2>2
  <2>5. /\ n \in Nat
        /\ \A x \in all : Place(all, R, x) \in Nat
        /\ \A x, y \in all : <<x, y>> \in R => Place(all, R, x) < Place(all, R, y)
        /\ \A x, y \in all : Place(all, R, x) = Place(all, R, y) => x = y
        /\ \A k \in 1 .. n : \E x \in all : Place(all, R, x) = k - 1
    BY <2>1, <2>4, OrderRanks
  <2>6. \A x \in all : Place(all, R, x) = rank(x)
    BY <2>3 DEF Place
  <2> HIDE DEF rank, n
  <2> QED
    BY <2>2, <2>5, <2>6
\* A candidate of a better class has the better score.
<1>4. ASSUME NEW g \in all, NEW h \in all, class(h) > class(g)
      PROVE  Better(h, g)
  <2>1. h.score > g.score
    <3>1. /\ g.vector_rank \in Nat /\ g.tfidf_rank \in Nat /\ g.score \in Nat
          /\ g.vector_rank > 0 \/ g.tfidf_rank > 0
          /\ g.vector_rank = 0 => g.score >= 2 * Unit /\ g.score < 3 * Unit
          /\ g.tfidf_rank = 0 => g.score < 2 * Unit
      BY <1>1, CandidateFacts
    <3>2. /\ h.vector_rank \in Nat /\ h.tfidf_rank \in Nat /\ h.score \in Nat
          /\ h.vector_rank > 0 \/ h.tfidf_rank > 0
          /\ h.vector_rank > 0 /\ h.tfidf_rank > 0 => h.score >= 3 * Unit
          /\ h.vector_rank = 0 => h.score >= 2 * Unit /\ h.score < 3 * Unit
      BY <1>1, CandidateFacts
    <3>3. Unit \in Nat
      BY ListsAssumption
    <3>4. CASE Overlap(h) /\ ~Overlap(g)
      <4>1. 2 * Unit <= 3 * Unit
        BY <3>3
      <4> QED
        BY <3>1, <3>2, <3>3, <3>4, <4>1 DEF Overlap
    <3>5. CASE ~Overlap(h) /\ h.tfidf_rank > 0 /\ ~Overlap(g) /\ ~(g.tfidf_rank > 0)
      BY <3>1, <3>2, <3>3, <3>5 DEF Overlap
    <3> QED
      BY <1>4, <3>4, <3>5
  <2> QED
    BY <2>1 DEF Better
<1>5. /\ DOMAIN hits = 1 .. Least(n, limit)
      /\ \A k \in 1 .. Least(n, limit) : hits[k] = CHOOSE h \in all : rank(h) = k - 1
  BY DEF Hits, limit
<1> HIDE DEF all, hits, rank, n
<1>6. Least(n, limit) \in Nat /\ Least(n, limit) <= n
  BY <1>1, <1>3 DEF Least
<1>7. ASSUME NEW k \in 1 .. Least(n, limit)
      PROVE  hits[k] \in all /\ rank(hits[k]) = k - 1
  <2>1. k \in 1 .. n
    BY <1>3, <1>6
  <2>2. \E h \in all : rank(h) = k - 1
    BY <2>1, <1>3
  <2> QED
    BY <2>2, <1>5
<1>8. ASSUME NEW i \in DOMAIN hits, NEW h \in all, class(h) > class(hits[i])
      PROVE  \E j \in 1 .. i - 1 : hits[j] = h
  <2>1. i \in 1 .. Least(n, limit) /\ hits[i] \in all /\ rank(hits[i]) = i - 1
    BY <1>5, <1>7
  <2> HIDE DEF class
  <2>2. rank(h) < i - 1 /\ rank(h) \in Nat
    BY <2>1, <1>3, <1>4, <1>8
  <2> DEFINE j == rank(h) + 1
  <2>3. j \in 1 .. i - 1 /\ j \in 1 .. Least(n, limit)
    BY <2>1, <2>2, <1>6
  <2>4. hits[j] \in all /\ rank(hits[j]) = rank(h)
    BY <2>2, <2>3, <1>7
  <2>5. hits[j] = h
    <3> HIDE DEF j
    <3> QED
      BY <2>4, <1>3
  <2> QED
    BY <2>3, <2>5
<1> QED
  BY <1>2, <1>8 DEF all, hits, vector, lexical

\* A call does what it says of its components, within its budget, fails only where it
\* must, and answers in the order of the ranks or of the request; whatever fails, runs
\* out of time or is replaced, and in whatever order the searches end.
THEOREM ReportIsHonest == WorkflowSpec => []HonestReport
<1>1. WorkflowInv => HonestReport
  BY InvImpliesReported, InvImpliesOptional, InvImpliesOneOverrun, InvImpliesReused,
     InvImpliesRanking, InvImpliesBatchInOrder DEF HonestReport
<1> QED
  BY <1>1, WorkflowInvariant, PTL
=============================================================================
