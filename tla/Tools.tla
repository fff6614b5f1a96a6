-------------------------------- MODULE Tools --------------------------------
(***************************************************************************)
(* The tool engine over one store: the catalog is built, then the tools    *)
(* are called (tools/engine.rs).  All of them read, only the reader of a   *)
(* source has something to go on from, its cursor; a reader may begin at   *)
(* a node of the catalog.                                                  *)
(***************************************************************************)
EXTENDS PassageTools, SourceRead

CONSTANT ReadStores   \* bound: the stores that are read

ASSUME ReadStoresAssumption == ReadStores \subseteq Parquets

ToolsInit == Init /\ ReadInit

\* source-read with a node_id: the node's work and heading_path, which for a division is the
\* path down to it.
ReadNode ==
    \E n \in DOMAIN nodes, asked \in Asked : ReadStart(nodes[n].work, nodes[n].path, asked)

Call == /\ Built /\ parquet \in ReadStores
        /\ Read \/ ReadNode
        /\ UNCHANGED vars

ToolsNext == \/ Next /\ UNCHANGED page
             \/ Call

ToolsSpec == ToolsInit /\ [][ToolsNext]_<<vars, page>>
=============================================================================
