------------------------------ MODULE MCCalls ------------------------------
(* The calls of agents and batches (MCBatchJobs), and what the engine makes   *)
(* of a call of a workflow (Workflow), each explored beside the other at rest. *)
EXTENDS MCBatchJobs, Workflow

CONSTANTS c1, c2, x, y

Asking(tool, include) == [tool |-> tool, include |-> include, seed |-> TRUE, embedding |-> FALSE,
                          phrases |-> 2, concurrency |-> 2, limit |-> 2, readonly |-> FALSE,
                          max_elapsed |-> None, max_component |-> None]
Within(r, total, each) == [r EXCEPT !.max_elapsed = total, !.max_component = each]

Refusable == [Asking("hybrid-discover", {}) EXCEPT !.seed = FALSE]
AnyRequest ==
    {Within(Asking("evidence-search", {"absence_check", "phrase_history"}), 3, 2),
     Within(Asking("hybrid-discover", {"context"}), 3, None),
     Refusable,
     Within(Asking("source-investigate", {"frontier", "similar", "phrase_history"}), 4, 2),
     Asking("scope-profile", {"term_usage"}),
     Asking("report-from-evidence", {}),
     [Asking("report-from-evidence", {}) EXCEPT !.readonly = TRUE],
     Asking("batch-evidence-search", {})}

\* c1 asks for anything, c2 for what opens an index and the table.
MCRequests == (c1 :> AnyRequest) @@
              (c2 :> {Asking("similar", {}), Asking("phrase-history", {})})

Sound == [a \in Artefact |-> "good"]
Poor == [Sound EXCEPT !["table"] = "bad", !["vector"] = "none", !["catalog"] = "bad", !["phrase"] = "bad"]
MCDisks == {Sound, Poor}

MCVectorLists == {<<"p2", "p3">>}
MCLexicalLists == {<<"p4", "p3", "p1", "p2">>}

\* Both calls refused, and no file replaced any more.
EngineAtRest ==
    /\ files = Sound /\ changes = MaxChanges /\ clock = 0
    /\ cell = [a \in Cell |-> "empty"]
    /\ task = [c \in Calls |-> [Idle EXCEPT !.phase = "done", !.request = Refusable,
                                            !.reply = "invalid_args"]]
    /\ results = [c \in Calls |-> <<>>]

\* Ids have no names: of two batches that differ in them, the one where x comes first.
FirstIdIsX == \A k \in DOMAIN batch : batch[k].id = y => \E j \in 1 .. k - 1 : batch[j].id = x

AllInit == \/ MCInit /\ FirstIdIsX /\ EngineAtRest
           \/ BatchAtRest /\ CallsAtRest /\ WorkflowInit
AllNext == \/ MCNext /\ EngineAtRest /\ UNCHANGED workflowVars
           \/ BatchAtRest /\ CallsAtRest /\ WorkflowNext /\ UNCHANGED <<vars, callVars>>
AllSpec == /\ AllInit /\ [][AllNext]_<<vars, callVars, workflowVars>>
           /\ Fairness /\ WF_workflowVars(WorkflowNext)
=============================================================================
