----------------------------- MODULE VectorBuild -----------------------------
(***************************************************************************)
(* The files of the vector index: vector.index, replaced through one       *)
(* shared temporary name, and the two files of its HNSW dump, which are    *)
(* removed and written again in place (vector_index/mod.rs write_index and *)
(* build_and_dump_hnsw); `index vector-build` with and without --resume    *)
(* (commands/vector_index.rs).                                             *)
(*                                                                         *)
(* An open file is written through its handle, whatever name it has by     *)
(* then; a process may die at any step.                                    *)
(***************************************************************************)
EXTENDS Naturals

CONSTANTS Content, \* what a build puts in an index: header, doc_ids and vectors
          Proc     \* CLI processes

VARIABLES
    temp,   \* vector.index.tmp
    index,  \* vector.index
    graph,  \* vector.index.hnsw.graph
    data,   \* vector.index.hnsw.data
    build,   \* process -> the build it is running
    owner,  \* history: the process that put the index there or took it up last,
            \* while no other has touched the dump since ({} or one process)
    settled \* history: since then that process has finished its dump

history == <<owner, settled>>
files    == <<temp, index, graph, data, build, owner, settled>>

-----------------------------------------------------------------------------
(* Files: what is in them, and who holds a handle.                         *)

State  == {"absent", "torn", "whole", "garbage"}
NoFile == [state |-> "absent", of |-> {}, writer |-> {}]
Exists(f) == f.state # "absent"
Whole(f)  == f.state = "whole"
Files  == {f \in [state : State, of : SUBSET Content, writer : SUBSET Proc] :
              /\ ~ Exists(f) <=> f.of = {}
              /\ Whole(f) \/ ~ Exists(f) => f.writer = {}}

\* File::create truncates; two writers of one file leave garbage.
Create(f, p, c) ==
    [state  |-> IF f.writer = {} THEN "torn" ELSE "garbage",
     of     |-> {c},
     writer |-> f.writer \cup {p}]

\* p has written everything and closes its handle, or dies.
Close(f, p) ==
    IF p \notin f.writer THEN f
    ELSE [f EXCEPT !.writer = @ \ {p}, !.state = IF @ = "torn" THEN "whole" ELSE @]
Drop(f, p) == [f EXCEPT !.writer = @ \ {p}]

BuildStage == {"idle", "write", "rename", "graph", "unlink", "dump", "fill"}
Build      == [at : BuildStage, of : SUBSET Content]
NoBuild    == [at |-> "idle", of |-> {}]

FilesTypeOK ==
    /\ temp \in Files /\ index \in Files /\ graph \in Files /\ data \in Files
    /\ build \in [Proc -> Build]
    /\ owner \in SUBSET Proc
    /\ settled \in BOOLEAN

BuildInit ==
    /\ temp = NoFile /\ index = NoFile /\ graph = NoFile /\ data = NoFile
    /\ build = [p \in Proc |-> NoBuild]
    /\ owner = {}
    /\ settled = FALSE

At(p, stage) == build[p].at = stage
Goto(p, stage) == build' = [build EXCEPT ![p].at = stage]
Stop(p) == build' = [build EXCEPT ![p] = NoBuild]

\* Another process than the one whose index is there touches the dump.
Disturb(p) == /\ owner' = owner \cap {p}
              /\ settled' = FALSE

-----------------------------------------------------------------------------
(* write_index: fill the temporary file, rename it over the index.         *)

\* build_from_embeddings and build_from_rows, the rows being in memory.
StartBuild(p, c) ==
    /\ At(p, "idle")
    /\ temp' = Create(temp, p, c)
    /\ build' = [build EXCEPT ![p] = [at |-> "write", of |-> {c}]]
    /\ UNCHANGED <<index, graph, data, history>>

\* The handle stays with the file if another process has renamed it meanwhile.
FillTemp(p) ==
    /\ At(p, "write")
    /\ temp' = Close(temp, p) /\ index' = Close(index, p)
    /\ Goto(p, "rename")
    /\ UNCHANGED <<graph, data, history>>

\* Without a temporary file the rename fails; it may be that of another process.
RenameTemp(p) ==
    /\ At(p, "rename")
    /\ IF Exists(temp)
       THEN /\ index' = temp /\ temp' = NoFile
            /\ owner' = IF Whole(temp) /\ temp.of = build[p].of THEN {p} ELSE {}
            /\ settled' = FALSE
            /\ Goto(p, "graph")
       ELSE Stop(p) /\ UNCHANGED <<temp, index, history>>
    /\ UNCHANGED <<graph, data>>

-----------------------------------------------------------------------------
(* build_and_dump_hnsw: a long construction in memory, and only then the   *)
(* dump of the previous graph is removed, file by file.                    *)

LooksComplete == Exists(index) /\ Exists(graph) /\ Exists(data)

\* --resume: rebuild_hnsw_from_index if a dump file is missing, nothing if both
\* are there, StartBuild if there is no index.  A torn index does not decode.
ResumeFromIndex(p) ==
    /\ At(p, "idle")
    /\ Exists(index) /\ ~ LooksComplete /\ Whole(index)
    /\ build' = [build EXCEPT ![p] = [at |-> "graph", of |-> index.of]]
    /\ owner' = {p} /\ settled' = FALSE
    /\ UNCHANGED <<temp, index, graph, data>>

\* Mutant of UnlinkGraph: the old graph is left to file_dump.
KeepGraph(p) ==
    /\ At(p, "graph")
    /\ graph' = graph
    /\ Disturb(p)
    /\ Goto(p, "unlink")
    /\ UNCHANGED <<temp, index, data>>

UnlinkGraph(p) ==
    /\ At(p, "graph")
    /\ graph' = NoFile
    /\ Disturb(p)
    /\ Goto(p, "unlink")
    /\ UNCHANGED <<temp, index, data>>

UnlinkData(p) ==
    /\ At(p, "unlink")
    /\ data' = NoFile
    /\ Disturb(p)
    /\ Goto(p, "dump")
    /\ UNCHANGED <<temp, index, graph>>

\* Where hnsw_rs writes a dump file: a new file under this name; if one is there
\* already it is overwritten, or the dump goes to another, unique name.
DumpTo(f, p, c) == {Create(f, p, c)} \cup (IF Exists(f) THEN {f} ELSE {})

CreateDump(p) ==
    /\ At(p, "dump")
    /\ \E c \in build[p].of : graph' \in DumpTo(graph, p, c) /\ data' \in DumpTo(data, p, c)
    /\ Disturb(p)
    /\ Goto(p, "fill")
    /\ UNCHANGED <<temp, index>>

FillDump(p) ==
    /\ At(p, "fill")
    /\ graph' = Close(graph, p) /\ data' = Close(data, p)
    /\ settled' = (settled \/ owner = {p})
    /\ Stop(p)
    /\ UNCHANGED <<temp, index, owner>>

\* A process dies, or fails: what it was writing stays as far as it got.
Crash(p) ==
    /\ ~ At(p, "idle")
    /\ temp' = Drop(temp, p) /\ index' = Drop(index, p)
    /\ graph' = Drop(graph, p) /\ data' = Drop(data, p)
    /\ Stop(p)
    /\ UNCHANGED history

-----------------------------------------------------------------------------
Step(p) ==
    \/ \E c \in Content : StartBuild(p, c)
    \/ FillTemp(p) \/ RenameTemp(p) \/ ResumeFromIndex(p)
    \/ UnlinkGraph(p) \/ UnlinkData(p) \/ CreateDump(p) \/ FillDump(p)
    \/ Crash(p)

BuildNext == \E p \in Proc : Step(p)

BuildSpec == BuildInit /\ [][BuildNext]_files

-----------------------------------------------------------------------------
(* VectorIndex::open decodes the index and loads whatever dump is next to  *)
(* it; the doc_ids of a search come from the dump, the fingerprint that is *)
(* checked against the document table comes from the index.                *)

Paired == /\ Whole(index) /\ Whole(graph) /\ Whole(data)
          /\ graph.of = index.of /\ data.of = index.of

\* A process that renamed its index, or resumed from the one that is there, and
\* then dumped its graph, no other process touching either in between, leaves
\* files that belong together, whatever earlier builds had left behind when they
\* died or raced.
SettledIsPaired == settled => Paired

=============================================================================
