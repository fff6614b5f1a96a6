----------------------------- MODULE MCBatchJobs -----------------------------
(* Instances of BatchJobs and of ToolCalls for TLC, each explored beside the  *)
(* other at rest: a batch calls its tools as an agent does.                  *)
EXTENDS BatchJobs, ToolCalls

CONSTANTS a1, a2

Start(pack, inPack, inData, readonly) ==
    [files |-> [root \in Root |-> CASE root = "named" -> {}
                                   [] root = "pack" -> inPack
                                   [] root = "default" -> inData],
     named |-> {}, pack |-> pack, readonly |-> readonly]
\* One file named on the command line, there or not.
Naming(k, a, there) == [k EXCEPT !.named = {a}, !.files["named"] = IF there THEN {a} ELSE {}]

Plain == {Start(FALSE, {}, d, r) : d \in SUBSET (Part \cup {"raw"}), r \in BOOLEAN}
Packed == {Start(TRUE, p, d, FALSE) :
             p \in SUBSET Part, d \in {{}, Part, {"passages"}, {"doc_table", "phrase"}, {"raw"}}}
Named == {Naming(Start(FALSE, {}, d, FALSE), a, there) :
             d \in {{}, Part}, a \in Part, there \in BOOLEAN}
MCConfigs == Plain \cup Packed \cup Named

MCBusy == {Start(FALSE, {}, {"raw", "doc_table", "catalog"}, TRUE),
           Start(TRUE, {"passages", "doc_table"}, {"doc_table", "phrase"}, FALSE)}
MCCalled == {Ask("search", {"phrase"}),
             Ask("phrase-index-search", {"phrase"}), Ask("evidence-search", {"phrase"}),
             Ask("explain-tool", {}), Ask("pdf-build", {"out"})}

Still == Start(FALSE, {}, {}, FALSE)
CallsAtRest == config = Still /\ log = <<>> /\ call = [c \in Client |-> NotCalled]
BatchAtRest ==
    /\ frontend = "run-tools" /\ batch = <<BadLine>> /\ at = "done" /\ pending = {}
    /\ postponed = {} /\ progress = FALSE /\ completed = <<>> /\ inflight = {}
    /\ output = <<Report(1, "parse", FALSE, {})>>

MCInit == (Init /\ CallsAtRest) \/ (BatchAtRest /\ CallsInit)
MCNext == \/ Next /\ UNCHANGED callVars
          \/ BatchAtRest /\ CallsNext /\ UNCHANGED vars
MCSpec == MCInit /\ [][MCNext]_<<vars, callVars>> /\ Fairness

MCTypeOK == TypeOK /\ CallsTypeOK
=============================================================================
