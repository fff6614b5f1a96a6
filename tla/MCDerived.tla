----------------------------- MODULE MCDerived -----------------------------
(* Instances of EmbeddingCache, VectorBuild and Registry for TLC.           *)
(* The update reads none of the index files, and a build reads neither the  *)
(* store, nor the table, nor the cache: what it puts in an index is some    *)
(* Content.  The registry has a file of its own.  Their steps commute, so   *)
(* each is explored with the others at rest; together they reach nothing    *)
(* else.                                                                    *)
EXTENDS EmbeddingCache, VectorBuild, Registry, TLC

CONSTANTS a, b, \* passages
          t     \* a text

\* From scratch, renumbered, and before b was ingested.
MCTables == {<<a, b>>, <<b, a>>, <<a>>}

\* A task packet, a dossier, a survey that mentions two passages, a file that may be
\* broken, and two commands.
Says(s) == [Silent EXCEPT !.searches = s, !.packets = s]
List3 == <<"frontier", "survey", "task">>
Place3 ==
    [frontier |-> [dir |-> "frontiers", ext |-> "json"],
     survey   |-> [dir |-> "tasks", ext |-> "md"],
     task     |-> [dir |-> "tasks", ext |-> "json"]]
Versions3 == [frontier |-> {"f"}, survey |-> {"s"}, task |-> {"t", "broken"}]
Payload3 ==
    [f |-> Object("other", {"s1"}, Says(<<"x">>)), s |-> TextPayload({"s1", "s2"}),
     t |-> Object("other", {"s1"}, Silent), broken |-> Broken,
     r |-> Object("frontier", {"s2"}, Says(<<"x">>))]
Recorded == {[type |-> "frontier_packet", path |-> "out", digest |-> "r", seed |-> "s2"]}
Sym == Permutations(Caller)

MCInit == Init /\ BuildInit /\ RegistryInit

\* Bound: what is not explored stays in one state.
UpdateAtRest == Init /\ table = <<a, b>> /\ \A p \in Passage : parquet[p] = t
RegistryAtRest == RegistryInit /\ \A path \in Path : runs[path] = Absent

MCNext ==
    \/ BuildInit /\ RegistryAtRest /\ Next /\ UNCHANGED <<files, registryVars>>
    \/ UpdateAtRest /\ RegistryAtRest /\ BuildNext /\ UNCHANGED <<vars, registryVars>>
    \/ UpdateAtRest /\ BuildInit /\ RegistryNext /\ UNCHANGED <<vars, files>>
MCSpec == MCInit /\ [][MCNext]_<<vars, files, registryVars>>

=============================================================================
