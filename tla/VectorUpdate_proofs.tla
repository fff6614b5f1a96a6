------------------------- MODULE VectorUpdate_proofs -------------------------
(***************************************************************************)
(* Proofs about VectorBuild and EmbeddingCache: whatever is built and      *)
(* whichever processes build it, resume it or die, the index and the dump  *)
(* of a process that published one and dumped the other undisturbed belong *)
(* together; and what an update gives to a build is the vector of the text *)
(* of every passage there is, wherever the appends to the cache were cut.  *)
(***************************************************************************)
EXTENDS EmbeddingCache, VectorBuild, TLAPS, FiniteSetTheorems, SequenceTheorems,
        WellFoundedInduction

\* A file that is there holds what one build wrote, and one that two builds were
\* writing is garbage for good.
FileOK(f) ==
    /\ f \in Files
    /\ Exists(f) => \E c \in Content : f.of = {c}
    /\ f.state = "torn" => \E p \in Proc : f.writer \subseteq {p}

FilesOK == FileOK(temp) /\ FileOK(index) /\ FileOK(graph) /\ FileOK(data)

\* A running process builds one content, and so does what it writes.
BuildsOne == \A p \in Proc : ~ At(p, "idle") => \E c \in Content : build[p].of = {c}

\* What the owner has reached: its index is there, and of the dump nothing but
\* what it has written itself.
Dumping(p) == build[p].at \in {"graph", "unlink", "dump", "fill"}
OwnDump(p) == [state |-> "torn", of |-> build[p].of, writer |-> {p}]

Undisturbed(p) ==
    /\ Whole(index) /\ index.of = build[p].of
    /\ ~ settled
    /\ At(p, "unlink") => graph = NoFile
    /\ At(p, "dump")   => graph = NoFile /\ data = NoFile
    /\ At(p, "fill")   => graph = OwnDump(p) /\ data = OwnDump(p)

OneOwner == owner = {} \/ \E p \in Proc : owner = {p}

OwnerKeepsItsFiles == \A p \in Proc : owner = {p} /\ Dumping(p) => Undisturbed(p)

FilesInv ==
    /\ FilesTypeOK
    /\ FilesOK
    /\ OneOwner
    /\ BuildsOne
    /\ OwnerKeepsItsFiles
    /\ SettledIsPaired

-----------------------------------------------------------------------------
(* Files and handles.                                                      *)

LEMMA FileFacts ==
    ASSUME NEW f \in Files
    PROVE  /\ f.state \in State /\ f.of \in SUBSET Content /\ f.writer \in SUBSET Proc
           /\ f = [state |-> f.state, of |-> f.of, writer |-> f.writer]
           /\ ~ Exists(f) <=> f.of = {}
           /\ Whole(f) \/ ~ Exists(f) => f.writer = {}
           /\ f.state # "torn" => Whole(f) \/ ~ Exists(f) \/ f.state = "garbage"
  BY DEF Files, State, Whole, Exists

LEMMA NoFileOK == FileOK(NoFile) /\ ~ Exists(NoFile) /\ ~ Whole(NoFile)
  BY DEF NoFile, FileOK, Files, State, Exists, Whole

\* A file that is opened.
LEMMA CreateOK ==
    ASSUME NEW f, FileOK(f), NEW p \in Proc, NEW c \in Content
    PROVE  FileOK(Create(f, p, c))
  <1>1. f \in Files
    BY DEF FileOK
  <1>2. Create(f, p, c) \in [state : State, of : SUBSET Content, writer : SUBSET Proc]
    BY <1>1, FileFacts DEF Create, State
  <1>3. /\ Create(f, p, c).state \in {"torn", "garbage"}
        /\ Create(f, p, c).of = {c}
        /\ Create(f, p, c).state = "torn" => Create(f, p, c).writer = {p}
    BY DEF Create
  <1> QED BY <1>2, <1>3 DEF FileOK, Files, Exists, Whole

\* A file whose writer has ended.
LEMMA CloseOK ==
    ASSUME NEW f, FileOK(f), NEW p \in Proc
    PROVE  FileOK(Close(f, p))
  <1>1. /\ f \in Files
        /\ f.state = "torn" => \E q \in Proc : f.writer \subseteq {q}
        /\ Exists(f) => \E c \in Content : f.of = {c}
    BY DEF FileOK
  <1>2. CASE p \notin f.writer
    BY <1>2 DEF Close
  <1>3. CASE p \in f.writer
    <2> DEFINE s == IF f.state = "torn" THEN "whole" ELSE f.state
    <2>1. Close(f, p) = [state |-> s, of |-> f.of, writer |-> f.writer \ {p}]
      <3>1. Close(f, p) = [f EXCEPT !.writer = @ \ {p},
                                    !.state = IF @ = "torn" THEN "whole" ELSE @]
        BY <1>3 DEF Close
      <3>2. f = [state |-> f.state, of |-> f.of, writer |-> f.writer]
        BY <1>1, FileFacts
      <3> QED BY <3>1, <3>2
    <2>2. f.state \in {"torn", "garbage"}
      BY <1>1, <1>3, FileFacts
    <2>3. f.of \in SUBSET Content /\ f.writer \in SUBSET Proc /\ f.of # {} /\ Exists(f)
      BY <1>1, <1>3, <2>2, FileFacts DEF Exists
    <2>4. CASE f.state = "garbage"
      BY <1>1, <2>1, <2>3, <2>4 DEF FileOK, Files, State, Exists, Whole
    <2>5. CASE f.state = "torn"
      <3>1. f.writer \ {p} = {}
        BY <1>1, <1>3, <2>5
      <3> QED BY <1>1, <2>1, <2>3, <2>5, <3>1 DEF FileOK, Files, State, Exists, Whole
    <2> QED BY <2>2, <2>4, <2>5
  <1> QED BY <1>2, <1>3

LEMMA DropOK ==
    ASSUME NEW f, FileOK(f), NEW p \in Proc
    PROVE  FileOK(Drop(f, p))
  <1>1. /\ f \in Files
        /\ f.state = "torn" => \E q \in Proc : f.writer \subseteq {q}
        /\ Exists(f) => \E c \in Content : f.of = {c}
    BY DEF FileOK
  <1>2. Drop(f, p) = [state |-> f.state, of |-> f.of, writer |-> f.writer \ {p}]
    <2>1. f = [state |-> f.state, of |-> f.of, writer |-> f.writer]
      BY <1>1, FileFacts
    <2>2. Drop(f, p) = [f EXCEPT !.writer = @ \ {p}]
      BY DEF Drop
    <2> QED BY <2>1, <2>2
  <1>3. /\ Drop(f, p).state = f.state /\ Drop(f, p).of = f.of
        /\ Drop(f, p).writer \subseteq f.writer
    BY <1>2
  <1>4. Drop(f, p) \in Files
    BY <1>1, <1>2, FileFacts DEF Files, Exists, Whole
  <1> QED BY <1>1, <1>3, <1>4 DEF FileOK, Exists

\* A file nobody is writing does not change when a process ends.
LEMMA NotTheirs ==
    ASSUME NEW f \in Files, NEW p \in Proc, p \notin f.writer
    PROVE  Close(f, p) = f /\ Drop(f, p) = f
  <1>1. f.writer \ {p} = f.writer
    OBVIOUS
  <1> QED BY <1>1, FileFacts DEF Close, Drop

LEMMA WholeIsClosed ==
    ASSUME NEW f \in Files, Whole(f) \/ ~ Exists(f), NEW p \in Proc
    PROVE  Close(f, p) = f /\ Drop(f, p) = f
  BY FileFacts, NotTheirs

\* The dump of a process that has the names for itself, before and after it is
\* filled.
LEMMA OwnDumpIsFilled ==
    ASSUME NEW p \in Proc, NEW o
    PROVE  LET d == [state |-> "torn", of |-> o, writer |-> {p}]
           IN  Close(d, p) = [state |-> "whole", of |-> o, writer |-> {}]
  <1> DEFINE d == [state |-> "torn", of |-> o, writer |-> {p}]
  <1>1. {p} \ {p} = {}
    OBVIOUS
  <1> QED BY <1>1 DEF Close

LEMMA DumpToNoFile ==
    ASSUME NEW p \in Proc, NEW c
    PROVE  DumpTo(NoFile, p, c) = {[state |-> "torn", of |-> {c}, writer |-> {p}]}
  <1>1. Create(NoFile, p, c) = [state |-> "torn", of |-> {c}, writer |-> {p}]
    BY DEF Create, NoFile
  <1> QED BY <1>1, NoFileOK DEF DumpTo

-----------------------------------------------------------------------------
(* A process takes a step: what becomes of its own build, and of the files *)
(* of an owner that is another.                                            *)

LEMMA GotoFacts ==
    ASSUME build \in [Proc -> Build], NEW p \in Proc, NEW s \in BuildStage, Goto(p, s)
    PROVE  /\ build' \in [Proc -> Build]
           /\ build'[p].at = s /\ build'[p].of = build[p].of
           /\ \A q \in Proc \ {p} : build'[q] = build[q]
  BY DEF Goto, Build

LEMMA StopFacts ==
    ASSUME build \in [Proc -> Build], NEW p \in Proc, Stop(p)
    PROVE  /\ build' \in [Proc -> Build]
           /\ build'[p].at = "idle"
           /\ \A q \in Proc \ {p} : build'[q] = build[q]
  BY DEF Stop, NoBuild, Build, BuildStage

\* The files of an owner that takes no step.
LEMMA Undisturbs ==
    ASSUME OwnerKeepsItsFiles, NEW q \in Proc, build'[q] = build[q],
           owner' = {q} =>
               /\ owner = {q} /\ index' = index
               /\ settled' => settled
               /\ At(q, "unlink") \/ At(q, "dump") \/ At(q, "fill") => graph' = graph
               /\ At(q, "dump") \/ At(q, "fill") => data' = data
    PROVE  owner' = {q} /\ Dumping(q)' => Undisturbed(q)'
  BY DEF OwnerKeepsItsFiles, Dumping, Undisturbed, At, Whole, OwnDump

\* The end of a process leaves the files of an owner that is another.
LEMMA EndLeavesOwner ==
    ASSUME FilesInv, NEW p \in Proc, NEW q \in Proc \ {p}, owner = {q}, Dumping(q)
    PROVE  /\ Close(index, p) = index /\ Drop(index, p) = index
           /\ At(q, "unlink") \/ At(q, "dump") \/ At(q, "fill") =>
                  Close(graph, p) = graph /\ Drop(graph, p) = graph
           /\ At(q, "dump") \/ At(q, "fill") =>
                  Close(data, p) = data /\ Drop(data, p) = data
  <1>1. Undisturbed(q)
    BY DEF FilesInv, OwnerKeepsItsFiles
  <1>2. index \in Files /\ graph \in Files /\ data \in Files
    BY DEF FilesInv, FilesTypeOK
  <1>3. Close(index, p) = index /\ Drop(index, p) = index
    BY <1>1, <1>2, WholeIsClosed DEF Undisturbed
  <1>4. p \notin NoFile.writer /\ p \notin OwnDump(q).writer
    BY DEF NoFile, OwnDump
  <1>5. At(q, "unlink") \/ At(q, "dump") \/ At(q, "fill") => p \notin graph.writer
    BY <1>1, <1>4 DEF Undisturbed
  <1>6. At(q, "dump") \/ At(q, "fill") => p \notin data.writer
    BY <1>1, <1>4 DEF Undisturbed
  <1> QED BY <1>2, <1>3, <1>5, <1>6, NotTheirs

\* Files that belong together are whole, and no process ending changes them.
LEMMA EndLeavesPair ==
    ASSUME FilesTypeOK, Paired, NEW p \in Proc
    PROVE  /\ Close(index, p) = index /\ Close(graph, p) = graph /\ Close(data, p) = data
           /\ Drop(index, p) = index /\ Drop(graph, p) = graph /\ Drop(data, p) = data
  BY WholeIsClosed DEF FilesTypeOK, Paired

-----------------------------------------------------------------------------
(* Each step keeps the invariant.                                          *)

LEMMA StartBuildKeeps ==
    ASSUME FilesInv, NEW p \in Proc, NEW c \in Content, StartBuild(p, c)
    PROVE  FilesInv'
  <1> USE DEF FilesInv
  <1>1. /\ build' \in [Proc -> Build]
        /\ build'[p] = [at |-> "write", of |-> {c}]
        /\ \A q \in Proc \ {p} : build'[q] = build[q]
    BY DEF StartBuild, FilesTypeOK, Build, BuildStage
  <1>2. FileOK(temp')
    BY CreateOK DEF StartBuild, FilesOK
  <1>3. FilesTypeOK' /\ FilesOK'
    BY <1>1, <1>2 DEF StartBuild, FilesTypeOK, FilesOK, FileOK, history
  <1>4. BuildsOne'
    BY <1>1 DEF BuildsOne, At
  <1>5. OwnerKeepsItsFiles'
    <2> SUFFICES ASSUME NEW q \in Proc, owner' = {q}, Dumping(q)'
                 PROVE  Undisturbed(q)'
      BY DEF OwnerKeepsItsFiles
    <2>1. q # p
      BY <1>1 DEF Dumping
    <2> QED BY <1>1, <2>1, Undisturbs DEF StartBuild, history
  <1>6. SettledIsPaired'
    BY DEF StartBuild, history, SettledIsPaired, Paired
  <1>7. OneOwner'
    BY DEF StartBuild, history, OneOwner
  <1> QED BY <1>3, <1>4, <1>5, <1>6, <1>7

LEMMA FillTempKeeps ==
    ASSUME FilesInv, NEW p \in Proc, FillTemp(p)
    PROVE  FilesInv'
  <1> USE DEF FilesInv
  <1>1. /\ build' \in [Proc -> Build]
        /\ build'[p].at = "rename" /\ build'[p].of = build[p].of
        /\ \A q \in Proc \ {p} : build'[q] = build[q]
    BY GotoFacts DEF FillTemp, FilesTypeOK, BuildStage
  <1>2. FileOK(temp') /\ FileOK(index')
    BY CloseOK DEF FillTemp, FilesOK
  <1>3. FilesTypeOK' /\ FilesOK'
    BY <1>1, <1>2 DEF FillTemp, FilesTypeOK, FilesOK, FileOK, history
  <1>4. BuildsOne'
    BY <1>1 DEF FillTemp, BuildsOne, At
  <1>5. OwnerKeepsItsFiles'
    <2> SUFFICES ASSUME NEW q \in Proc, owner' = {q}, Dumping(q)'
                 PROVE  Undisturbed(q)'
      BY DEF OwnerKeepsItsFiles
    <2>1. q # p /\ build'[q] = build[q] /\ owner = {q}
      BY <1>1 DEF Dumping, FillTemp, history
    <2>2. index' = index
      BY <2>1, EndLeavesOwner DEF FillTemp, Dumping
    <2> QED BY <2>1, <2>2, Undisturbs DEF FillTemp, history
  <1>6. SettledIsPaired'
    BY EndLeavesPair DEF FillTemp, history, SettledIsPaired, Paired
  <1>7. OneOwner'
    BY DEF FillTemp, history, OneOwner
  <1> QED BY <1>3, <1>4, <1>5, <1>6, <1>7

LEMMA RenameTempKeeps ==
    ASSUME FilesInv, NEW p \in Proc, RenameTemp(p)
    PROVE  FilesInv'
  <1> USE DEF FilesInv
  <1>1. CASE ~ Exists(temp)
    <2>1. /\ Stop(p)
          /\ UNCHANGED <<temp, index, graph, data, owner, settled>>
      BY <1>1 DEF RenameTemp, history
    <2>2. /\ build' \in [Proc -> Build]
          /\ build'[p].at = "idle"
          /\ \A q \in Proc \ {p} : build'[q] = build[q]
      BY <2>1, StopFacts DEF FilesTypeOK
    <2>3. FilesTypeOK' /\ FilesOK'
      BY <2>1, <2>2 DEF FilesTypeOK, FilesOK, FileOK
    <2>4. BuildsOne'
      BY <2>2 DEF BuildsOne, At
    <2>5. OwnerKeepsItsFiles'
      <3> SUFFICES ASSUME NEW q \in Proc, owner' = {q}, Dumping(q)'
                   PROVE  Undisturbed(q)'
        BY DEF OwnerKeepsItsFiles
      <3>1. q # p
        BY <2>2 DEF Dumping
      <3> QED BY <2>1, <2>2, <3>1, Undisturbs
    <2>6. SettledIsPaired'
      BY <2>1 DEF SettledIsPaired, Paired
    <2>7. OneOwner'
      BY <2>1 DEF OneOwner
    <2> QED BY <2>3, <2>4, <2>5, <2>6, <2>7
  <1>2. CASE Exists(temp)
    <2>1. /\ index' = temp /\ temp' = NoFile
          /\ owner' = IF Whole(temp) /\ temp.of = build[p].of THEN {p} ELSE {}
          /\ settled' = FALSE
          /\ Goto(p, "graph")
          /\ graph' = graph /\ data' = data
      BY <1>2 DEF RenameTemp
    <2>2. /\ build' \in [Proc -> Build]
          /\ build'[p].at = "graph" /\ build'[p].of = build[p].of
          /\ \A q \in Proc \ {p} : build'[q] = build[q]
      BY <2>1, GotoFacts DEF FilesTypeOK, BuildStage
    <2>3. FileOK(NoFile)
      BY NoFileOK
    <2>4. FilesTypeOK' /\ FilesOK'
      BY <2>1, <2>2, <2>3 DEF FilesTypeOK, FilesOK, FileOK
    <2>5. BuildsOne'
      BY <2>2 DEF RenameTemp, BuildsOne, At
    <2>6. OwnerKeepsItsFiles'
      <3> SUFFICES ASSUME NEW q \in Proc, owner' = {q}, Dumping(q)'
                   PROVE  Undisturbed(q)'
        BY DEF OwnerKeepsItsFiles
      <3>1. q = p /\ Whole(temp) /\ temp.of = build[p].of
        BY <2>1
      <3> QED BY <2>1, <2>2, <3>1 DEF Undisturbed, At, Whole
    <2>7. SettledIsPaired'
      BY <2>1 DEF SettledIsPaired
    <2>8. OneOwner'
      BY <2>1 DEF OneOwner
    <2> QED BY <2>4, <2>5, <2>6, <2>7, <2>8
  <1> QED BY <1>1, <1>2

LEMMA ResumeFromIndexKeeps ==
    ASSUME FilesInv, NEW p \in Proc, ResumeFromIndex(p)
    PROVE  FilesInv'
  <1> USE DEF FilesInv
  <1>1. PICK c \in Content : index.of = {c}
    BY DEF ResumeFromIndex, FilesOK, FileOK
  <1>2. /\ build' \in [Proc -> Build]
        /\ build'[p] = [at |-> "graph", of |-> index.of]
        /\ \A q \in Proc \ {p} : build'[q] = build[q]
    BY <1>1 DEF ResumeFromIndex, FilesTypeOK, Build, BuildStage
  <1>3. FilesTypeOK' /\ FilesOK'
    BY <1>2 DEF ResumeFromIndex, FilesTypeOK, FilesOK, FileOK
  <1>4. BuildsOne'
    BY <1>1, <1>2 DEF BuildsOne, At
  <1>5. OwnerKeepsItsFiles'
    <2> SUFFICES ASSUME NEW q \in Proc, owner' = {q}, Dumping(q)'
                 PROVE  Undisturbed(q)'
      BY DEF OwnerKeepsItsFiles
    <2>1. q = p
      BY DEF ResumeFromIndex
    <2> QED BY <1>2, <2>1 DEF ResumeFromIndex, Undisturbed, At, Whole
  <1>6. SettledIsPaired'
    BY DEF ResumeFromIndex, SettledIsPaired
  <1>7. OneOwner'
    BY DEF ResumeFromIndex, OneOwner
  <1> QED BY <1>3, <1>4, <1>5, <1>6, <1>7

LEMMA UnlinkGraphKeeps ==
    ASSUME FilesInv, NEW p \in Proc, UnlinkGraph(p)
    PROVE  FilesInv'
  <1> USE DEF FilesInv
  <1>1. /\ build' \in [Proc -> Build]
        /\ build'[p].at = "unlink" /\ build'[p].of = build[p].of
        /\ \A q \in Proc \ {p} : build'[q] = build[q]
    BY GotoFacts DEF UnlinkGraph, FilesTypeOK, BuildStage
  <1>2. FilesTypeOK' /\ FilesOK'
    BY <1>1, NoFileOK DEF UnlinkGraph, Disturb, FilesTypeOK, FilesOK, FileOK
  <1>3. BuildsOne'
    BY <1>1 DEF UnlinkGraph, BuildsOne, At
  <1>4. OwnerKeepsItsFiles'
    <2> SUFFICES ASSUME NEW q \in Proc, owner' = {q}, Dumping(q)'
                 PROVE  Undisturbed(q)'
      BY DEF OwnerKeepsItsFiles
    <2>1. q = p /\ owner = {p}
      BY DEF UnlinkGraph, Disturb, OneOwner
    <2>2. Undisturbed(p)
      BY <2>1 DEF UnlinkGraph, OwnerKeepsItsFiles, Dumping, At
    <2> QED BY <1>1, <2>1, <2>2 DEF UnlinkGraph, Disturb, Undisturbed, At, Whole
  <1>5. SettledIsPaired'
    BY DEF UnlinkGraph, Disturb, SettledIsPaired
  <1>6. OneOwner'
    BY DEF UnlinkGraph, Disturb, OneOwner
  <1> QED BY <1>2, <1>3, <1>4, <1>5, <1>6

LEMMA UnlinkDataKeeps ==
    ASSUME FilesInv, NEW p \in Proc, UnlinkData(p)
    PROVE  FilesInv'
  <1> USE DEF FilesInv
  <1>1. /\ build' \in [Proc -> Build]
        /\ build'[p].at = "dump" /\ build'[p].of = build[p].of
        /\ \A q \in Proc \ {p} : build'[q] = build[q]
    BY GotoFacts DEF UnlinkData, FilesTypeOK, BuildStage
  <1>2. FilesTypeOK' /\ FilesOK'
    BY <1>1, NoFileOK DEF UnlinkData, Disturb, FilesTypeOK, FilesOK, FileOK
  <1>3. BuildsOne'
    BY <1>1 DEF UnlinkData, BuildsOne, At
  <1>4. OwnerKeepsItsFiles'
    <2> SUFFICES ASSUME NEW q \in Proc, owner' = {q}, Dumping(q)'
                 PROVE  Undisturbed(q)'
      BY DEF OwnerKeepsItsFiles
    <2>1. q = p /\ owner = {p}
      BY DEF UnlinkData, Disturb, OneOwner
    <2>2. Undisturbed(p)
      BY <2>1 DEF UnlinkData, OwnerKeepsItsFiles, Dumping, At
    <2> QED BY <1>1, <2>1, <2>2 DEF UnlinkData, Disturb, Undisturbed, At, Whole
  <1>5. SettledIsPaired'
    BY DEF UnlinkData, Disturb, SettledIsPaired
  <1>6. OneOwner'
    BY DEF UnlinkData, Disturb, OneOwner
  <1> QED BY <1>2, <1>3, <1>4, <1>5, <1>6

\* A dump file is a new one of p's, or the one that was there.
LEMMA DumpToOK ==
    ASSUME NEW f, FileOK(f), NEW p \in Proc, NEW c \in Content, NEW g \in DumpTo(f, p, c)
    PROVE  FileOK(g)
  <1>1. g = f \/ g = Create(f, p, c)
    BY DEF DumpTo
  <1> QED BY <1>1, CreateOK

LEMMA CreateDumpKeeps ==
    ASSUME FilesInv, NEW p \in Proc, CreateDump(p)
    PROVE  FilesInv'
  <1> USE DEF FilesInv
  <1>1. /\ build' \in [Proc -> Build]
        /\ build'[p].at = "fill" /\ build'[p].of = build[p].of
        /\ \A q \in Proc \ {p} : build'[q] = build[q]
    BY GotoFacts DEF CreateDump, FilesTypeOK, BuildStage
  <1>2. PICK c \in Content : build[p].of = {c}
    BY DEF CreateDump, BuildsOne, At
  <1>3. graph' \in DumpTo(graph, p, c) /\ data' \in DumpTo(data, p, c)
    BY <1>2 DEF CreateDump
  <1>4. FileOK(graph') /\ FileOK(data')
    BY <1>3, DumpToOK DEF FilesOK
  <1>5. FilesTypeOK' /\ FilesOK'
    BY <1>1, <1>4 DEF CreateDump, Disturb, FilesTypeOK, FilesOK, FileOK
  <1>6. BuildsOne'
    BY <1>1 DEF CreateDump, BuildsOne, At
  <1>7. OwnerKeepsItsFiles'
    <2> SUFFICES ASSUME NEW q \in Proc, owner' = {q}, Dumping(q)'
                 PROVE  Undisturbed(q)'
      BY DEF OwnerKeepsItsFiles
    <2>1. q = p /\ owner = {p}
      BY DEF CreateDump, Disturb, OneOwner
    <2>2. Undisturbed(p) /\ graph = NoFile /\ data = NoFile
      BY <2>1 DEF CreateDump, OwnerKeepsItsFiles, Dumping, At, Undisturbed
    <2>3. graph' = OwnDump(p)' /\ data' = OwnDump(p)'
      BY <1>1, <1>2, <1>3, <2>2, DumpToNoFile DEF OwnDump
    <2> QED BY <1>1, <2>1, <2>2, <2>3 DEF CreateDump, Disturb, Undisturbed, At, Whole
  <1>8. SettledIsPaired'
    BY DEF CreateDump, Disturb, SettledIsPaired
  <1>9. OneOwner'
    BY DEF CreateDump, Disturb, OneOwner
  <1> QED BY <1>5, <1>6, <1>7, <1>8, <1>9

LEMMA FillDumpKeeps ==
    ASSUME FilesInv, NEW p \in Proc, FillDump(p)
    PROVE  FilesInv'
  <1> USE DEF FilesInv
  <1>1. /\ build' \in [Proc -> Build]
        /\ build'[p].at = "idle"
        /\ \A q \in Proc \ {p} : build'[q] = build[q]
    BY StopFacts DEF FillDump, FilesTypeOK
  <1>2. FileOK(graph') /\ FileOK(data')
    BY CloseOK DEF FillDump, FilesOK
  <1>3. FilesTypeOK' /\ FilesOK'
    BY <1>1, <1>2 DEF FillDump, FilesTypeOK, FilesOK, FileOK
  <1>4. BuildsOne'
    BY <1>1 DEF BuildsOne, At
  <1>5. OwnerKeepsItsFiles'
    <2> SUFFICES ASSUME NEW q \in Proc, owner' = {q}, Dumping(q)'
                 PROVE  Undisturbed(q)'
      BY DEF OwnerKeepsItsFiles
    <2>1. q # p /\ build'[q] = build[q] /\ owner = {q} /\ Dumping(q)
      BY <1>1 DEF Dumping, FillDump
    <2>2. owner # {p}
      BY <2>1
    <2>3. settled' => settled
      BY <2>2 DEF FillDump
    <2>4. /\ At(q, "unlink") \/ At(q, "dump") \/ At(q, "fill") => graph' = graph
          /\ At(q, "dump") \/ At(q, "fill") => data' = data
      BY <2>1, EndLeavesOwner DEF FillDump
    <2> QED BY <2>1, <2>3, <2>4, Undisturbs DEF FillDump
  <1>6. SettledIsPaired'
    <2>1. CASE settled
      BY <2>1, EndLeavesPair DEF FillDump, SettledIsPaired, Paired
    <2>2. CASE owner = {p}
      <3>1. Undisturbed(p) /\ graph = OwnDump(p) /\ data = OwnDump(p)
        BY <2>2 DEF FillDump, OwnerKeepsItsFiles, Dumping, Undisturbed, At
      <3>2. /\ graph' = [state |-> "whole", of |-> build[p].of, writer |-> {}]
            /\ data' = [state |-> "whole", of |-> build[p].of, writer |-> {}]
        BY <3>1, OwnDumpIsFilled DEF FillDump, OwnDump
      <3> QED BY <3>1, <3>2 DEF FillDump, SettledIsPaired, Paired, Undisturbed, Whole
    <2>3. CASE ~ settled /\ owner # {p}
      BY <2>3 DEF FillDump, SettledIsPaired
    <2> QED BY <2>1, <2>2, <2>3
  <1>7. OneOwner'
    BY DEF FillDump, OneOwner
  <1> QED BY <1>3, <1>4, <1>5, <1>6, <1>7

LEMMA CrashKeeps ==
    ASSUME FilesInv, NEW p \in Proc, Crash(p)
    PROVE  FilesInv'
  <1> USE DEF FilesInv
  <1>1. /\ build' \in [Proc -> Build]
        /\ build'[p].at = "idle"
        /\ \A q \in Proc \ {p} : build'[q] = build[q]
    BY StopFacts DEF Crash, FilesTypeOK
  <1>2. FileOK(temp') /\ FileOK(index') /\ FileOK(graph') /\ FileOK(data')
    BY DropOK DEF Crash, FilesOK
  <1>3. FilesTypeOK' /\ FilesOK'
    BY <1>1, <1>2 DEF Crash, FilesTypeOK, FilesOK, FileOK, history
  <1>4. BuildsOne'
    BY <1>1 DEF BuildsOne, At
  <1>5. OwnerKeepsItsFiles'
    <2> SUFFICES ASSUME NEW q \in Proc, owner' = {q}, Dumping(q)'
                 PROVE  Undisturbed(q)'
      BY DEF OwnerKeepsItsFiles
    <2>1. q # p /\ build'[q] = build[q] /\ owner = {q} /\ Dumping(q)
      BY <1>1 DEF Dumping, Crash, history
    <2>2. /\ index' = index
          /\ At(q, "unlink") \/ At(q, "dump") \/ At(q, "fill") => graph' = graph
          /\ At(q, "dump") \/ At(q, "fill") => data' = data
      BY <2>1, EndLeavesOwner DEF Crash
    <2> QED BY <2>1, <2>2, Undisturbs DEF Crash, history
  <1>6. SettledIsPaired'
    BY EndLeavesPair DEF Crash, history, SettledIsPaired, Paired
  <1>7. OneOwner'
    BY DEF Crash, history, OneOwner
  <1> QED BY <1>3, <1>4, <1>5, <1>6, <1>7

-----------------------------------------------------------------------------
(* The theorems.                                                           *)

LEMMA InitHolds == BuildInit => FilesInv
  <1> SUFFICES ASSUME BuildInit PROVE FilesInv
    OBVIOUS
  <1>1. FilesTypeOK /\ FilesOK
    BY NoFileOK DEF BuildInit, FilesTypeOK, FilesOK, FileOK, Build, BuildStage, NoBuild
  <1>2. BuildsOne
    BY DEF BuildInit, BuildsOne, At, NoBuild
  <1>3. OwnerKeepsItsFiles
    BY DEF BuildInit, OwnerKeepsItsFiles
  <1>4. SettledIsPaired
    BY DEF BuildInit, SettledIsPaired
  <1>5. OneOwner
    BY DEF BuildInit, OneOwner
  <1> QED BY <1>1, <1>2, <1>3, <1>4, <1>5 DEF FilesInv

LEMMA StepKeeps == FilesInv /\ [BuildNext]_files => FilesInv'
  <1> SUFFICES ASSUME FilesInv, [BuildNext]_files PROVE FilesInv'
    OBVIOUS
  <1>1. CASE UNCHANGED files
    BY <1>1 DEF files, FilesInv, FilesTypeOK, FilesOK, FileOK, OneOwner, BuildsOne, At, Exists, Whole,
               OwnerKeepsItsFiles, Dumping, Undisturbed, OwnDump, SettledIsPaired, Paired
  <1>2. ASSUME NEW p \in Proc, Step(p) PROVE FilesInv'
    <2>1. ASSUME NEW c \in Content, StartBuild(p, c) PROVE FilesInv'
      BY <2>1, StartBuildKeeps
    <2> QED BY <1>2, <2>1, FillTempKeeps, RenameTempKeeps, ResumeFromIndexKeeps,
               UnlinkGraphKeeps, UnlinkDataKeeps, CreateDumpKeeps, FillDumpKeeps, CrashKeeps
            DEF Step
  <1> QED BY <1>1, <1>2 DEF BuildNext

\* Whatever processes build, resume and die, an owner's files stay its own.
THEOREM FilesInvariant == BuildSpec => []FilesInv
  BY InitHolds, StepKeeps, PTL DEF BuildSpec

\* The files a process published, or resumed from, and then dumped undisturbed
\* belong together: VectorIndex::open finds a dump whose doc_ids are those of the
\* index whose fingerprint it checks, whatever earlier builds left or still write.
THEOREM SettledPairHolds == BuildSpec => []SettledIsPaired
  <1>1. FilesInv => SettledIsPaired
    BY DEF FilesInv
  <1> QED BY <1>1, FilesInvariant, PTL

-----------------------------------------------------------------------------
(* The embedding cache.                                                    *)

\* A line ends with its tail, which follows its head.
CacheOK(c) ==
    /\ c \in Seq(Piece)
    /\ \A i \in DOMAIN c : c[i].half = "tail" => i > 1 /\ c[i - 1] = Half(c[i].rec, "head")

\* Heads that no tail follows: what is appended next is glued to them.
Torn(c) == {i \in DOMAIN c : c[i].half = "head" /\ (i < Len(c) => c[i + 1].half = "head")}

\* The last line of doc_id d to reach its end is that of r, and ends at i.
EndsAt(c, d, r, i) ==
    /\ i \in DOMAIN c /\ c[i] = Half(r, "tail") /\ r.doc_id = d
    /\ \A j \in DOMAIN c : j > i /\ c[j].half = "tail" => c[j].rec.doc_id # d

LinesOK ==
    /\ CacheOK(cache)
    /\ Cardinality(Torn(cache)) <= tears
    /\ \A d \in DOMAIN kept : \E i \in DOMAIN cache : EndsAt(cache, d, kept[d], i)

\* What is embedded although it was in the cache to its end.
Again == {d \in job.pending : d \in DOMAIN kept /\ kept[d] = Wanted(job.table, job.meta, d)}

\* What is not pending is valid, and what is in the buffer is not pending.
UpdateOK ==
    /\ job.at \in {"idle", "scan", "load"} => job.buffer = <<>>
    /\ job.at \in {"embed", "append", "rows", "built"} /\ ~ job.partial =>
          Present(job.table, job.meta) = DOMAIN job.table
    /\ job.at \in {"embed", "append", "rows"} =>
          /\ job.pending \subseteq Present(job.table, job.meta)
          /\ \A d \in Present(job.table, job.meta) \ job.pending :
                ValidRecord(job.records, job.table, job.meta, d)
    /\ \A k \in DOMAIN job.buffer : job.buffer[k].doc_id \notin job.pending
    /\ \A k, l \in DOMAIN job.buffer : job.buffer[k].doc_id = job.buffer[l].doc_id => k = l
    /\ job.at \in {"embed", "append"} => Cardinality(Again) <= tears
    /\ job.at = "rows" => job.pending = {}
    /\ job.at = "built" =>
          /\ DOMAIN job.rows = Present(job.table, job.meta)
          /\ \A d \in DOMAIN job.rows : job.rows[d] = job.meta[job.table[d]]

CacheInv == TypeOK /\ LinesOK /\ UpdateOK

-----------------------------------------------------------------------------
(* Doc_ids, and maps from them.                                            *)

LEMMA MapFacts ==
    ASSUME NEW S, NEW T, NEW f
    PROVE  f \in Map(S, T) <=> /\ f = [x \in DOMAIN f |-> f[x]] /\ DOMAIN f \subseteq S
                               /\ \A x \in DOMAIN f : f[x] \in T
<1>1. ASSUME f \in Map(S, T)
      PROVE  /\ f = [x \in DOMAIN f |-> f[x]] /\ DOMAIN f \subseteq S
             /\ \A x \in DOMAIN f : f[x] \in T
  <2>1. PICK D \in SUBSET S : f \in [D -> T]
    BY <1>1 DEF Map
  <2> QED
    BY <2>1
<1>2. ASSUME f = [x \in DOMAIN f |-> f[x]], DOMAIN f \subseteq S,
             \A x \in DOMAIN f : f[x] \in T
      PROVE  f \in Map(S, T)
  <2>1. f \in [DOMAIN f -> T]
    BY <1>2
  <2> QED
    BY <1>2, <2>1 DEF Map
<1> QED
  BY <1>1, <1>2

\* A table numbers passages, each once.
LEMMA TableFacts ==
    ASSUME NEW tbl \in Tables \cup {<<>>}
    PROVE  /\ DOMAIN tbl \subseteq DocId
           /\ \A d \in DOMAIN tbl : tbl[d] \in Passage
           /\ \A d \in DOMAIN tbl : d \in Nat
<1>1. CASE tbl = <<>>
  BY <1>1
<1>2. CASE tbl \in Tables
  <2>1. tbl \in Seq(Passage) /\ IsInjective(tbl)
    BY <1>2, TablesAssumption
  <2>2. tbl \in Injection(1 .. Len(tbl), Passage)
    BY <2>1 DEF IsInjective, Injection
  <2>3. Cardinality(1 .. Len(tbl)) <= Cardinality(Passage)
    BY <2>2, FS_Injection, PassageAssumption, Zenon
  <2>4. Len(tbl) \in Nat /\ Cardinality(1 .. Len(tbl)) = Len(tbl)
    <3> DEFINE n == Len(tbl)
    <3>1. n \in Nat
      BY <2>1
    <3> HIDE DEF n
    <3>2. Cardinality(1 .. n) = IF 1 > n THEN 0 ELSE n - 1 + 1
      BY <3>1, FS_Interval
    <3>3. Cardinality(1 .. n) = n
      BY <3>1, <3>2
    <3> QED
      BY <3>1, <3>3 DEF n
  <2>5. Cardinality(Passage) \in Nat
    BY PassageAssumption, FS_CardinalityType
  <2>6. DOMAIN tbl = 1 .. Len(tbl)
    BY <2>1
  <2> QED
    BY <2>1, <2>3, <2>4, <2>5, <2>6 DEF DocId
<1> QED
  BY <1>1, <1>2

LEMMA TableIsFinite ==
    ASSUME NEW tbl \in Tables \cup {<<>>}
    PROVE  IsFiniteSet(DOMAIN tbl)
<1>1. tbl \in Seq(Passage)
  <2>1. CASE tbl = <<>>
    BY <2>1
  <2>2. CASE tbl \in Tables
    BY <2>2, TablesAssumption
  <2> QED
    BY <2>1, <2>2
<1>2. DOMAIN tbl = 1 .. Len(tbl) /\ Len(tbl) \in Nat
  BY <1>1
<1> QED
  BY <1>2, FS_Interval

LEMMA WantedFacts ==
    ASSUME NEW tbl \in Tables \cup {<<>>}, NEW meta \in Map(Passage, Text),
           NEW d \in Present(tbl, meta)
    PROVE  /\ d \in DocId /\ d \in Nat /\ d \in DOMAIN tbl
           /\ Wanted(tbl, meta, d) \in Record
           /\ Wanted(tbl, meta, d).doc_id = d
           /\ Wanted(tbl, meta, d).passage_id = tbl[d]
           /\ Wanted(tbl, meta, d).text = meta[tbl[d]]
<1>1. d \in DOMAIN tbl /\ tbl[d] \in DOMAIN meta
  BY DEF Present
<1>2. d \in DocId /\ d \in Nat /\ tbl[d] \in Passage
  BY <1>1, TableFacts
<1>3. meta[tbl[d]] \in Text
  BY <1>1, MapFacts
<1> QED
  BY <1>1, <1>2, <1>3 DEF Wanted, Record

\* A set of places has a last one.
LEMMA LastExists ==
    ASSUME NEW n \in Nat, NEW S \in SUBSET (1 .. n), S # {}
    PROVE  LatestOf(S) \in S /\ \A j \in S : j <= LatestOf(S)
<1> DEFINE T == {n - i : i \in S}
<1>1. T \in SUBSET Nat /\ T # {}
  <2>1. \A i \in S : n - i \in Nat
    OBVIOUS
  <2>2. PICK i \in S : TRUE
    OBVIOUS
  <2> QED
    BY <2>1, <2>2
<1>2. PICK m \in T : \A k \in T : <<k, m>> \notin OpToRel(<, Nat)
  BY <1>1, WFMin, NatLessThanWellFounded
<1> HIDE DEF T
<1>5. ASSUME NEW k \in T PROVE m <= k
  <2>1. k \in Nat /\ m \in Nat
    BY <1>1
  <2>2. <<k, m>> \in OpToRel(<, Nat) <=> k < m
    BY <2>1 DEF OpToRel
  <2>3. ~ (k < m)
    BY <1>2, <2>2, Zenon
  <2> QED
    BY <2>1, <2>3
<1>3. PICK i \in S : m = n - i
  BY DEF T
<1>4. \A j \in S : j <= i
  <2> TAKE j \in S
  <2>1. n - j \in T
    BY DEF T
  <2>2. n - i <= n - j
    BY <1>3, <1>5, <2>1
  <2> QED
    BY <2>2
<1> QED
  BY <1>4 DEF LatestOf

-----------------------------------------------------------------------------
(* The lines of the cache.                                                 *)

LEMMA PieceFacts ==
    /\ \A x \in Piece : x.half \in {"head", "tail"} /\ x.rec \in Record /\ x = Half(x.rec, x.half)
    /\ \A r, h : Half(r, h).rec = r /\ Half(r, h).half = h
    /\ \A r \in Record, h \in {"head", "tail"} : Half(r, h) \in Piece
  BY DEF Piece, Half

LEMMA ParsesFacts ==
    ASSUME NEW c, CacheOK(c), NEW i \in DOMAIN c
    PROVE  /\ Parses(c, i) => /\ i + 1 \in DOMAIN c /\ c[i + 1].half = "tail"
                              /\ c[i + 1].rec = c[i].rec
           /\ c[i].half = "tail" /\ ~ Parses(c, i - 1) => i > 2 /\ i - 2 \in Torn(c)
<1>1. /\ c \in Seq(Piece) /\ DOMAIN c = 1 .. Len(c) /\ Len(c) \in Nat
      /\ \A k \in DOMAIN c : c[k].half \in {"head", "tail"} /\ c[k] = Half(c[k].rec, c[k].half)
  BY PieceFacts DEF CacheOK
<1>2. Parses(c, i) => /\ i + 1 \in DOMAIN c /\ c[i + 1].half = "tail"
                      /\ c[i + 1].rec = c[i].rec
  BY <1>1 DEF Parses, Half
<1>3. ASSUME c[i].half = "tail", ~ Parses(c, i - 1)
      PROVE  i > 2 /\ i - 2 \in Torn(c)
  <2>1. i > 1 /\ c[i - 1] = Half(c[i].rec, "head")
    BY <1>3 DEF CacheOK
  <2>2. i - 1 \in DOMAIN c /\ c[i - 1].half = "head" /\ c[i - 1].rec = c[i].rec
    BY <1>1, <2>1 DEF Half
  <2>3. c[i] = Half(c[i].rec, "tail")
    BY <1>1, <1>3
  <2>4. i - 1 > 1 /\ c[i - 2].half # "tail"
    BY <1>1, <1>3, <2>1, <2>2, <2>3 DEF Parses
  <2>5. i - 2 \in DOMAIN c /\ c[i - 2].half = "head"
    BY <1>1, <2>4
  <2> QED
    BY <1>1, <2>2, <2>4, <2>5 DEF Torn
<1> QED
  BY <1>2, <1>3

\* What a load returns.
LEMMA LoadFacts ==
    ASSUME NEW c, CacheOK(c)
    PROVE  /\ LoadOrEmpty(c) \in Map(DocId, Record)
           /\ \A d \in DocId, i \in DOMAIN c, r \in Record :
                 EndsAt(c, d, r, i) /\ Parses(c, i - 1) =>
                    d \in DOMAIN LoadOrEmpty(c) /\ LoadOrEmpty(c)[d] = r
<1>1. /\ c \in Seq(Piece) /\ DOMAIN c = 1 .. Len(c) /\ Len(c) \in Nat
      /\ \A k \in DOMAIN c : c[k].half \in {"head", "tail"} /\ c[k].rec \in Record
  BY PieceFacts DEF CacheOK
<1>2. \A d : LinesOf(c, d) \in SUBSET (1 .. Len(c))
  BY <1>1 DEF LinesOf
<1>3. \A d : LinesOf(c, d) # {} => /\ LatestOf(LinesOf(c, d)) \in LinesOf(c, d)
                                   /\ \A j \in LinesOf(c, d) : j <= LatestOf(LinesOf(c, d))
  BY <1>1, <1>2, LastExists
<1> DEFINE m == LoadOrEmpty(c)
<1>4. /\ m = [d \in {e \in DocId : LinesOf(c, e) # {}} |-> c[LatestOf(LinesOf(c, d))].rec]
      /\ DOMAIN m = {e \in DocId : LinesOf(c, e) # {}}
      /\ \A d \in DOMAIN m : m[d] = c[LatestOf(LinesOf(c, d))].rec
  BY DEF LoadOrEmpty
<1> HIDE DEF m
<1>5. m \in Map(DocId, Record)
  <2>1. \A d \in DOMAIN m : m[d] \in Record
    BY <1>1, <1>2, <1>3, <1>4
  <2>2. m = [d \in DOMAIN m |-> m[d]] /\ DOMAIN m \subseteq DocId
    BY <1>4
  <2> QED
    BY <2>1, <2>2, MapFacts
<1>6. ASSUME NEW d \in DocId, NEW i \in DOMAIN c, NEW r \in Record,
             EndsAt(c, d, r, i), Parses(c, i - 1)
      PROVE  d \in DOMAIN m /\ m[d] = r
  <2>1. c[i].half = "tail" /\ c[i].rec = r /\ r.doc_id = d
    BY <1>6 DEF EndsAt, Half
  <2>2. i > 1 /\ c[i - 1] = Half(r, "head")
    BY <2>1 DEF CacheOK
  <2>3. i - 1 \in LinesOf(c, d)
    BY <1>1, <1>6, <2>1, <2>2 DEF LinesOf, Half
  <2>4. \A j \in LinesOf(c, d) : j <= i - 1
    <3> TAKE j \in LinesOf(c, d)
    <3>1. j \in DOMAIN c /\ Parses(c, j) /\ c[j].rec.doc_id = d
      BY DEF LinesOf
    <3>2. j + 1 \in DOMAIN c /\ c[j + 1].half = "tail" /\ c[j + 1].rec.doc_id = d
      BY <3>1, ParsesFacts
    <3>3. ~ (j + 1 > i)
      BY <1>6, <3>2 DEF EndsAt
    <3> QED
      BY <1>1, <3>1, <3>3
  <2>5. LatestOf(LinesOf(c, d)) = i - 1
    <3>1. LatestOf(LinesOf(c, d)) \in LinesOf(c, d) /\ i - 1 <= LatestOf(LinesOf(c, d))
      BY <1>3, <2>3
    <3>2. LatestOf(LinesOf(c, d)) <= i - 1 /\ LatestOf(LinesOf(c, d)) \in 1 .. Len(c)
      BY <1>2, <2>4, <3>1
    <3> QED
      BY <1>1, <3>1, <3>2
  <2>6. d \in DOMAIN m
    BY <1>4, <2>3
  <2>7. c[i - 1].rec = r
    BY <2>2 DEF Half
  <2> QED
    BY <1>4, <2>5, <2>6, <2>7
<1> QED
  BY <1>5, <1>6 DEF m

LEMMA TornIsFinite ==
    ASSUME NEW c, CacheOK(c)
    PROVE  IsFiniteSet(Torn(c)) /\ Cardinality(Torn(c)) \in Nat
<1>1. Len(c) \in Nat /\ Torn(c) \subseteq 1 .. Len(c)
  BY DEF CacheOK, Torn
<1>2. IsFiniteSet(1 .. Len(c))
  BY <1>1, FS_Interval
<1> QED
  BY <1>1, <1>2, FS_Subset, FS_CardinalityType, Zenon

\* The latest line of a doc_id to reach its end is lost only behind a torn head.
LEMMA LostBehindATear ==
    ASSUME NEW c, CacheOK(c), NEW D \in SUBSET DocId, NEW last, NEW place,
           \A d \in D : last[d] \in Record /\ place[d] \in DOMAIN c
                        /\ EndsAt(c, d, last[d], place[d]),
           \A d \in D : ~ (d \in DOMAIN LoadOrEmpty(c) /\ LoadOrEmpty(c)[d] = last[d])
    PROVE  Cardinality(D) <= Cardinality(Torn(c))
<1> DEFINE f == [d \in D |-> place[d] - 2]
<1>1. \A d \in D : place[d] \in Nat /\ f[d] \in Torn(c)
  <2> TAKE d \in D
  <2>1. c[place[d]].half = "tail"
    BY PieceFacts DEF EndsAt
  <2>2. ~ Parses(c, place[d] - 1)
    BY LoadFacts
  <2>3. place[d] - 2 \in Torn(c)
    BY <2>1, <2>2, ParsesFacts
  <2>4. place[d] \in Nat
    BY DEF CacheOK
  <2> QED
    BY <2>3, <2>4
<1>2. ASSUME NEW d \in D, NEW e \in D, f[d] = f[e] PROVE d = e
  <2>1. place[d] = place[e]
    BY <1>1, <1>2
  <2>2. Half(last[d], "tail") = Half(last[e], "tail")
    BY <2>1 DEF EndsAt
  <2>3. last[d] = last[e]
    BY <2>2, PieceFacts
  <2> QED
    BY <2>3 DEF EndsAt
<1> HIDE DEF f
<1>3. f \in Injection(D, Torn(c))
  <2>1. f = [d \in D |-> f[d]] /\ DOMAIN f = D
    BY DEF f
  <2>2. f \in [D -> Torn(c)]
    BY <1>1, <2>1
  <2> QED
    BY <1>2, <2>1, <2>2 DEF Injection, IsInjective
<1>4. IsFiniteSet(Torn(c))
  BY TornIsFinite
<1> QED
  BY <1>3, <1>4, FS_Injection, Zenon

-----------------------------------------------------------------------------
(* What an append leaves, in whichever piece it is cut.                    *)

LEMMA PiecesFacts ==
    ASSUME NEW recs \in Seq(Record), NEW n \in 0 .. 2 * Len(recs)
    PROVE  /\ Pieces(recs, n) \in Seq(Piece) /\ Len(Pieces(recs, n)) = n
           /\ \A m \in DOMAIN recs : 2 * m - 1 <= n =>
                 Pieces(recs, n)[2 * m - 1] = Half(recs[m], "head")
           /\ \A m \in DOMAIN recs : 2 * m <= n =>
                 Pieces(recs, n)[2 * m] = Half(recs[m], "tail")
           /\ \A k \in 1 .. n : \E m \in DOMAIN recs : k = 2 * m - 1 \/ k = 2 * m
<1> DEFINE s == Pieces(recs, n)
<1>1. /\ DOMAIN recs = 1 .. Len(recs) /\ Len(recs) \in Nat /\ n \in Nat
      /\ \A m \in DOMAIN recs : recs[m] \in Record
  OBVIOUS
<1>2. \A k \in 1 .. n : \E m \in DOMAIN recs :
        /\ k = 2 * m - 1 \/ k = 2 * m
        /\ (k + 1) \div 2 = m
  <2> TAKE k \in 1 .. n
  <2> DEFINE m == (k + 1) \div 2
  <2>1. m \in DOMAIN recs /\ (k = 2 * m - 1 \/ k = 2 * m)
    BY <1>1
  <2> QED
    BY <2>1
<1>3. /\ DOMAIN s = 1 .. n
      /\ \A k \in 1 .. n :
            s[k] = Half(recs[(k + 1) \div 2], IF k % 2 = 1 THEN "head" ELSE "tail")
  BY DEF Pieces
<1> HIDE DEF s
<1>4. \A k \in 1 .. n : s[k] \in Piece
  <2> TAKE k \in 1 .. n
  <2>1. recs[(k + 1) \div 2] \in Record
    BY <1>1, <1>2
  <2> QED
    BY <1>3, <2>1, PieceFacts
<1>5. s \in Seq(Piece) /\ Len(s) = n
  <2>1. s = [k \in 1 .. n |-> s[k]]
    BY <1>3 DEF s, Pieces
  <2>2. s \in [1 .. n -> Piece]
    BY <1>4, <2>1
  <2> QED
    BY <1>1, <2>2
<1>6. ASSUME NEW m \in DOMAIN recs, 2 * m - 1 <= n
      PROVE  s[2 * m - 1] = Half(recs[m], "head")
  <2>1. 2 * m - 1 \in 1 .. n /\ (2 * m - 1 + 1) \div 2 = m /\ (2 * m - 1) % 2 = 1
    BY <1>1, <1>6
  <2> QED
    BY <1>3, <2>1
<1>7. ASSUME NEW m \in DOMAIN recs, 2 * m <= n
      PROVE  s[2 * m] = Half(recs[m], "tail")
  <2>1. 2 * m \in 1 .. n /\ (2 * m + 1) \div 2 = m /\ (2 * m) % 2 # 1
    BY <1>1, <1>7
  <2> QED
    BY <1>3, <2>1
<1> QED
  BY <1>2, <1>5, <1>6, <1>7 DEF s

\* The file after n pieces, place by place.
Appended(c, recs, n, c2) ==
    /\ c2 \in Seq(Piece) /\ Len(c2) = Len(c) + n /\ Len(c) \in Nat
    /\ DOMAIN c = 1 .. Len(c) /\ DOMAIN c2 = 1 .. (Len(c) + n)
    /\ \A i \in DOMAIN c : c2[i] = c[i]
    /\ \A m \in DOMAIN recs :
          /\ 2 * m - 1 <= n => c2[Len(c) + 2 * m - 1] = Half(recs[m], "head")
          /\ 2 * m <= n => c2[Len(c) + 2 * m] = Half(recs[m], "tail")
    /\ \A i \in DOMAIN c2 : \/ i \in DOMAIN c
                            \/ \E m \in DOMAIN recs : i = Len(c) + 2 * m - 1
                            \/ \E m \in DOMAIN recs : i = Len(c) + 2 * m

LEMMA AppendFacts ==
    ASSUME NEW c, CacheOK(c), NEW recs \in Seq(Record), NEW n \in 0 .. 2 * Len(recs),
           NEW c2, c2 = c \o Pieces(recs, n)
    PROVE  Appended(c, recs, n, c2)
<1> DEFINE s == Pieces(recs, n)
           L == Len(c)
<1>1. /\ s \in Seq(Piece) /\ Len(s) = n
      /\ \A m \in DOMAIN recs : 2 * m - 1 <= n => s[2 * m - 1] = Half(recs[m], "head")
      /\ \A m \in DOMAIN recs : 2 * m <= n => s[2 * m] = Half(recs[m], "tail")
      /\ \A k \in 1 .. n : \E m \in DOMAIN recs : k = 2 * m - 1 \/ k = 2 * m
  BY PiecesFacts
<1>2. c \in Seq(Piece) /\ L \in Nat /\ DOMAIN c = 1 .. L
  BY DEF CacheOK
<1>3. c2 = c \o s
  OBVIOUS
<1> HIDE DEF s
<1>4. /\ c2 \in Seq(Piece) /\ Len(c2) = L + n /\ DOMAIN c2 = 1 .. (L + n)
      /\ \A i \in 1 .. L : c2[i] = c[i]
      /\ \A k \in 1 .. n : c2[L + k] = s[k]
  <2>1. c2 \in Seq(Piece) /\ Len(c2) = L + n
    <3>1. c2 \in Seq(Piece)
      BY <1>1, <1>2, <1>3
    <3>2. Len(c2) = Len(c) + Len(s)
      BY <1>1, <1>2, <1>3, ConcatProperties
    <3> QED
      BY <1>1, <3>1, <3>2
  <2>2. DOMAIN c2 = 1 .. (L + n)
    BY <2>1
  <2>3. \A i \in 1 .. L : c2[i] = c[i]
    BY <1>1, <1>2, <1>3
  <2>4. \A k \in 1 .. n : c2[L + k] = s[k]
    <3> TAKE k \in 1 .. n
    <3>1. L + k \in (L + 1) .. (L + n) /\ (L + k) - L = k
      BY <1>2
    <3>2. \A j \in (L + 1) .. (L + n) : c2[j] = s[j - L]
      BY <1>1, <1>2, <1>3
    <3> QED
      BY <3>1, <3>2
  <2> QED
    BY <2>1, <2>2, <2>3, <2>4
<1> HIDE DEF L
<1>5. \A m \in DOMAIN recs : m \in Nat /\ m >= 1
  OBVIOUS
<1>6. ASSUME NEW m \in DOMAIN recs, 2 * m - 1 <= n
      PROVE  c2[L + 2 * m - 1] = Half(recs[m], "head")
  <2>1. 2 * m - 1 \in 1 .. n /\ L + (2 * m - 1) = L + 2 * m - 1
    BY <1>2, <1>5, <1>6
  <2> QED
    BY <1>1, <1>4, <1>6, <2>1
<1>7. ASSUME NEW m \in DOMAIN recs, 2 * m <= n
      PROVE  c2[L + 2 * m] = Half(recs[m], "tail")
  <2>1. 2 * m \in 1 .. n
    BY <1>5, <1>7
  <2> QED
    BY <1>1, <1>4, <1>7, <2>1
<1>8. ASSUME NEW i \in DOMAIN c2, i \notin DOMAIN c
      PROVE  \/ \E m \in DOMAIN recs : i = L + 2 * m - 1
             \/ \E m \in DOMAIN recs : i = L + 2 * m
  <2>1. i - L \in 1 .. n
    BY <1>2, <1>4, <1>8
  <2>2. PICK m \in DOMAIN recs : i - L = 2 * m - 1 \/ i - L = 2 * m
    BY <1>1, <2>1
  <2>3. i \in Int
    BY <1>2, <1>4
  <2> QED
    BY <1>2, <1>5, <2>2, <2>3
<1> QED
  BY <1>2, <1>4, <1>6, <1>7, <1>8 DEF L, Appended

\* A line that ends follows its head, and at most the last new piece is torn.
LEMMA AppendKeepsLines ==
    ASSUME NEW c, CacheOK(c), NEW recs \in Seq(Record), NEW n \in 0 .. 2 * Len(recs),
           NEW c2, c2 = c \o Pieces(recs, n)
    PROVE  /\ CacheOK(c2)
           /\ Cardinality(Torn(c2)) <= Cardinality(Torn(c)) + (n % 2)
<1>1. /\ c2 \in Seq(Piece) /\ Len(c2) = Len(c) + n /\ Len(c) \in Nat
      /\ DOMAIN c = 1 .. Len(c) /\ DOMAIN c2 = 1 .. (Len(c) + n)
      /\ \A i \in DOMAIN c : c2[i] = c[i]
      /\ \A m \in DOMAIN recs :
            /\ 2 * m - 1 <= n => c2[Len(c) + 2 * m - 1] = Half(recs[m], "head")
            /\ 2 * m <= n => c2[Len(c) + 2 * m] = Half(recs[m], "tail")
      /\ \A i \in DOMAIN c2 : \/ i \in DOMAIN c
                              \/ \E m \in DOMAIN recs : i = Len(c) + 2 * m - 1
                              \/ \E m \in DOMAIN recs : i = Len(c) + 2 * m
  <2>1. Appended(c, recs, n, c2)
    BY AppendFacts
  <2> QED
    BY <2>1 DEF Appended
<1>2. n \in Nat /\ \A m \in DOMAIN recs : m \in Nat /\ m >= 1
  OBVIOUS
<1>3. CacheOK(c2)
  <2> SUFFICES ASSUME NEW i \in DOMAIN c2, c2[i].half = "tail"
               PROVE  i > 1 /\ c2[i - 1] = Half(c2[i].rec, "head")
    BY <1>1 DEF CacheOK
  <2>1. CASE i \in DOMAIN c
    <3>1. i > 1 /\ c[i - 1] = Half(c[i].rec, "head")
      BY <1>1, <2>1 DEF CacheOK
    <3>2. i - 1 \in DOMAIN c
      BY <1>1, <2>1, <3>1
    <3> QED
      BY <1>1, <2>1, <3>1, <3>2
  <2>2. ASSUME NEW m \in DOMAIN recs, i = Len(c) + 2 * m - 1 PROVE FALSE
    <3>1. 2 * m - 1 <= n
      BY <1>1, <1>2, <2>2
    <3>2. c2[i] = Half(recs[m], "head")
      BY <1>1, <2>2, <3>1
    <3> QED
      BY <3>2, PieceFacts
  <2>3. ASSUME NEW m \in DOMAIN recs, i = Len(c) + 2 * m
        PROVE  i > 1 /\ c2[i - 1] = Half(c2[i].rec, "head")
    <3>0. Len(c) \in Nat /\ i <= Len(c) + n
      BY <1>1
    <3>1. 2 * m <= n /\ 2 * m - 1 <= n /\ i - 1 = Len(c) + 2 * m - 1 /\ i > 1
      BY <1>2, <2>3, <3>0
    <3>2. c2[i] = Half(recs[m], "tail") /\ c2[i - 1] = Half(recs[m], "head")
      BY <1>1, <2>3, <3>1
    <3> QED
      BY <3>1, <3>2, PieceFacts
  <2> QED
    BY <1>1, <2>1, <2>2, <2>3
<1>4. ASSUME NEW i \in Torn(c2), i \notin Torn(c)
      PROVE  n % 2 = 1 /\ i = Len(c) + n
  <2>1. i \in DOMAIN c2 /\ c2[i].half = "head" /\ (i < Len(c) + n => c2[i + 1].half = "head")
    BY <1>1 DEF Torn
  <2>2. i \notin DOMAIN c
    <3> SUFFICES ASSUME i \in DOMAIN c PROVE FALSE
      OBVIOUS
    <3>1. c[i].half = "head" /\ i <= Len(c)
      BY <1>1, <2>1
    <3>2. i < Len(c) /\ c[i + 1].half # "head"
      BY <1>4, <3>1 DEF Torn
    <3>3. i + 1 \in DOMAIN c
      BY <1>1, <3>2
    <3> QED
      BY <1>1, <1>2, <2>1, <3>2, <3>3
  <2>3. ASSUME NEW m \in DOMAIN recs, i = Len(c) + 2 * m PROVE FALSE
    <3>1. 2 * m <= n
      BY <1>1, <1>2, <2>1, <2>3
    <3>2. c2[i] = Half(recs[m], "tail")
      BY <1>1, <2>3, <3>1
    <3> QED
      BY <2>1, <3>2, PieceFacts
  <2>4. PICK m \in DOMAIN recs : i = Len(c) + 2 * m - 1
    BY <1>1, <2>1, <2>2, <2>3
  <2>5. ~ (2 * m <= n)
    <3> SUFFICES ASSUME 2 * m <= n PROVE FALSE
      OBVIOUS
    <3>1. c2[Len(c) + 2 * m] = Half(recs[m], "tail")
      BY <1>1
    <3>2. Len(c) \in Nat
      BY <1>1
    <3>3. i < Len(c) + n /\ i + 1 = Len(c) + 2 * m
      BY <1>2, <2>4, <3>2
    <3> QED
      <4>1. c2[i + 1] = Half(recs[m], "tail")
        BY <3>1, <3>3
      <4>2. c2[i + 1].half = "head"
        BY <2>1, <3>3
      <4> QED
        BY <4>1, <4>2, PieceFacts
  <2>6. i <= Len(c) + n /\ Len(c) \in Nat
    BY <1>1, <2>1
  <2>8. m \in Nat /\ m >= 1 /\ n \in Nat
    BY <1>2
  <2>7. n = 2 * m - 1
    <3>1. PICK l \in Nat : l = Len(c)
      BY <2>6
    <3>2. l + 2 * m - 1 <= l + n
      BY <2>4, <2>6, <3>1
    <3>3. 2 * m - 1 <= n
      BY <2>8, <3>2
    <3>4. n < 2 * m
      BY <2>5, <2>8
    <3>5. \A x, y \in Nat : y >= 1 /\ 2 * y - 1 <= x /\ x < 2 * y => x = 2 * y - 1
      OBVIOUS
    <3> QED
      BY <2>8, <3>3, <3>4, <3>5
  <2> QED
    BY <1>1, <1>2, <2>4, <2>7
<1>5. /\ IsFiniteSet(Torn(c)) /\ Cardinality(Torn(c)) \in Nat
      /\ IsFiniteSet(Torn(c2)) /\ Cardinality(Torn(c2)) \in Nat
  BY <1>3, TornIsFinite
<1>6. Cardinality(Torn(c2)) <= Cardinality(Torn(c)) + (n % 2)
  <2>1. CASE n % 2 = 1
    <3>1. Torn(c2) \subseteq Torn(c) \cup {Len(c) + n}
      BY <1>4
    <3>2. /\ IsFiniteSet(Torn(c) \cup {Len(c) + n})
          /\ Cardinality(Torn(c) \cup {Len(c) + n}) =
                IF Len(c) + n \in Torn(c) THEN Cardinality(Torn(c)) ELSE Cardinality(Torn(c)) + 1
      BY <1>5, FS_AddElement
    <3>3. Cardinality(Torn(c2)) <= Cardinality(Torn(c) \cup {Len(c) + n})
      BY <3>1, <3>2, FS_Subset
    <3> QED
      BY <1>5, <2>1, <3>2, <3>3
  <2>2. CASE n % 2 # 1
    <3>1. Torn(c2) \subseteq Torn(c)
      BY <1>4, <2>2
    <3>2. Cardinality(Torn(c2)) <= Cardinality(Torn(c))
      BY <1>5, <3>1, FS_Subset
    <3>3. n % 2 = 0
      BY <1>2, <2>2
    <3> QED
      BY <1>5, <3>2, <3>3
  <2> QED
    BY <2>1, <2>2
<1> QED
  BY <1>3, <1>6

\* The records an append brought to their ends are the last of their doc_ids.
LEMMA KeepFacts ==
    ASSUME NEW recs \in Seq(Record), NEW m \in 0 .. Len(recs),
           \A k, l \in DOMAIN recs : recs[k].doc_id = recs[l].doc_id => k = l
    PROVE  /\ Keep(recs, m) = [d \in DOMAIN Keep(recs, m) |-> Keep(recs, m)[d]]
           /\ DOMAIN Keep(recs, m) = DOMAIN kept \cup {recs[k].doc_id : k \in 1 .. m}
           /\ \A k \in 1 .. m : Keep(recs, m)[recs[k].doc_id] = recs[k]
           /\ \A d \in DOMAIN kept :
                 (\A k \in 1 .. m : recs[k].doc_id # d) => Keep(recs, m)[d] = kept[d]
<1> DEFINE Of(d) == {k \in 1 .. m : recs[k].doc_id = d}
           D == DOMAIN kept \cup {recs[k].doc_id : k \in 1 .. m}
           f == Keep(recs, m)
<1>1. f = [d \in D |-> IF Of(d) # {} THEN recs[CHOOSE k \in Of(d) : TRUE] ELSE kept[d]]
  BY DEF Keep
<1> HIDE DEF f
<1>2. f = [d \in DOMAIN f |-> f[d]] /\ DOMAIN f = D
  BY <1>1
<1>3. ASSUME NEW k \in 1 .. m PROVE f[recs[k].doc_id] = recs[k]
  <2> DEFINE d == recs[k].doc_id
  <2>1. d \in D /\ k \in Of(d)
    OBVIOUS
  <2>2. \A l \in Of(d) : l = k
    <3>1. \A l \in Of(d) : l \in DOMAIN recs /\ recs[l].doc_id = recs[k].doc_id
      OBVIOUS
    <3>2. k \in DOMAIN recs
      OBVIOUS
    <3> QED
      BY <3>1, <3>2
  <2>3. (CHOOSE l \in Of(d) : TRUE) = k
    BY <2>1, <2>2
  <2> QED
    BY <1>1, <2>1, <2>3
<1>4. ASSUME NEW d \in DOMAIN kept, \A k \in 1 .. m : recs[k].doc_id # d
      PROVE  f[d] = kept[d]
  <2>1. d \in D /\ Of(d) = {}
    BY <1>4
  <2> QED
    BY <1>1, <2>1
<1> QED
  BY <1>2, <1>3, <1>4 DEF f

KeptAfter(recs, c2, k2) ==
    /\ k2 \in Map(DocId, Record)
    /\ \A d \in DOMAIN k2 : \E i \in DOMAIN c2 : EndsAt(c2, d, k2[d], i)
    /\ \A d : (\A k \in DOMAIN recs : recs[k].doc_id # d) =>
                 (d \in DOMAIN k2 => d \in DOMAIN kept /\ k2[d] = kept[d])

LEMMA AppendKeepsKept ==
    ASSUME NEW c, CacheOK(c), NEW recs \in Seq(Record), NEW n \in 0 .. 2 * Len(recs),
           \A k, l \in DOMAIN recs : recs[k].doc_id = recs[l].doc_id => k = l,
           NEW c2, c2 = c \o Pieces(recs, n),
           kept \in Map(DocId, Record),
           \A d \in DOMAIN kept : \E i \in DOMAIN c : EndsAt(c, d, kept[d], i),
           NEW k2, k2 = Keep(recs, n \div 2)
    PROVE  KeptAfter(recs, c2, k2)
<1> DEFINE m == n \div 2
<1>1. /\ m \in 0 .. Len(recs) /\ 2 * m <= n /\ n <= 2 * m + 1 /\ n \in Nat /\ m \in Nat
      /\ DOMAIN recs = 1 .. Len(recs) /\ Len(recs) \in Nat
  OBVIOUS
<1>2. Appended(c, recs, n, c2)
  BY AppendFacts
<1> HIDE DEF m
<1>3. /\ k2 = [d \in DOMAIN k2 |-> k2[d]]
      /\ DOMAIN k2 = DOMAIN kept \cup {recs[k].doc_id : k \in 1 .. m}
      /\ \A k \in 1 .. m : k2[recs[k].doc_id] = recs[k]
      /\ \A d \in DOMAIN kept : (\A k \in 1 .. m : recs[k].doc_id # d) => k2[d] = kept[d]
  <2>1. k2 = Keep(recs, m)
    BY DEF m
  <2>2. /\ Keep(recs, m) = [d \in DOMAIN Keep(recs, m) |-> Keep(recs, m)[d]]
        /\ DOMAIN Keep(recs, m) = DOMAIN kept \cup {recs[k].doc_id : k \in 1 .. m}
        /\ \A k \in 1 .. m : Keep(recs, m)[recs[k].doc_id] = recs[k]
        /\ \A d \in DOMAIN kept :
              (\A k \in 1 .. m : recs[k].doc_id # d) => Keep(recs, m)[d] = kept[d]
    BY <1>1, KeepFacts
  <2> QED
    BY <2>1, <2>2, Zenon
<1>4. \A k \in 1 .. m : k \in DOMAIN recs /\ recs[k] \in Record /\ recs[k].doc_id \in DocId
  <2>1. \A k \in 1 .. m : k \in DOMAIN recs /\ recs[k] \in Record
    BY <1>1
  <2>2. \A r \in Record : r.doc_id \in DocId
    BY DEF Record
  <2> QED
    BY <2>1, <2>2
<1>5. \A d \in DOMAIN kept : d \in DocId /\ kept[d] \in Record
  BY MapFacts
\* The new tails are those of the first m records.
<1>6. ASSUME NEW j \in DOMAIN c2, c2[j].half = "tail", j \notin DOMAIN c
      PROVE  \E k \in 1 .. m : j = Len(c) + 2 * k /\ c2[j].rec = recs[k]
  <2>0. /\ Len(c) \in Nat /\ j <= Len(c) + n
        /\ \A k \in DOMAIN recs : k \in Nat /\ k >= 1
    BY <1>2 DEF Appended
  <2>1. ASSUME NEW k \in DOMAIN recs, j = Len(c) + 2 * k - 1 PROVE FALSE
    <3>1. k \in Nat /\ k >= 1
      BY <2>0
    <3>2. 2 * k - 1 <= n
      BY <1>1, <2>0, <2>1, <3>1
    <3>3. c2[j] = Half(recs[k], "head")
      BY <1>2, <2>1, <3>2 DEF Appended
    <3> QED
      BY <1>6, <3>3, PieceFacts
  <2>2. PICK k \in DOMAIN recs : j = Len(c) + 2 * k
    BY <1>2, <1>6, <2>1 DEF Appended
  <2>3. k \in Nat /\ k >= 1
    BY <2>0
  <2>4. 2 * k <= n
    BY <1>1, <2>0, <2>2, <2>3
  <2>5. k \in 1 .. m
    BY <1>1, <2>3, <2>4
  <2>6. c2[j] = Half(recs[k], "tail")
    BY <1>2, <2>2, <2>4 DEF Appended
  <2> QED
    BY <2>2, <2>5, <2>6, PieceFacts
<1>7. ASSUME NEW k \in 1 .. m
      PROVE  \E i \in DOMAIN c2 : EndsAt(c2, recs[k].doc_id, recs[k], i)
  <2> DEFINE i == Len(c) + 2 * k
  <2>1. k \in DOMAIN recs /\ k \in Nat /\ k >= 1 /\ 2 * k <= n /\ Len(c) \in Nat
    BY <1>1, <1>2, <1>4 DEF Appended
  <2>2. i \in DOMAIN c2
    BY <1>1, <1>2, <2>1 DEF Appended
  <2>3. c2[i] = Half(recs[k], "tail")
    BY <1>2, <2>1 DEF Appended
  <2>4. ASSUME NEW j \in DOMAIN c2, j > i, c2[j].half = "tail"
        PROVE  c2[j].rec.doc_id # recs[k].doc_id
    <3>1. j \notin DOMAIN c
      BY <1>2, <2>1, <2>4 DEF Appended
    <3>2. PICK l \in 1 .. m : j = Len(c) + 2 * l /\ c2[j].rec = recs[l]
      BY <1>6, <2>4, <3>1
    <3>3. l # k /\ l \in DOMAIN recs
      BY <1>1, <1>4, <2>1, <2>4, <3>2
    <3> QED
      BY <2>1, <3>2, <3>3
  <2> HIDE DEF i
  <2>5. EndsAt(c2, recs[k].doc_id, recs[k], i)
    BY <2>2, <2>3, <2>4 DEF EndsAt
  <2> QED
    BY <2>2, <2>5
<1>8. ASSUME NEW d \in DOMAIN kept, \A k \in 1 .. m : recs[k].doc_id # d
      PROVE  \E i \in DOMAIN c2 : EndsAt(c2, d, kept[d], i)
  <2>1. PICK i \in DOMAIN c : EndsAt(c, d, kept[d], i)
    OBVIOUS
  <2>2. i \in DOMAIN c2 /\ c2[i] = Half(kept[d], "tail") /\ kept[d].doc_id = d
    BY <1>1, <1>2, <2>1 DEF Appended, EndsAt
  <2>3. ASSUME NEW j \in DOMAIN c2, j > i, c2[j].half = "tail"
        PROVE  c2[j].rec.doc_id # d
    <3>1. CASE j \in DOMAIN c
      <4>1. c2[j] = c[j]
        BY <1>2, <3>1 DEF Appended
      <4> QED
        BY <2>1, <2>3, <3>1, <4>1 DEF EndsAt
    <3>2. CASE j \notin DOMAIN c
      BY <1>6, <1>8, <2>3, <3>2
    <3> QED
      BY <3>1, <3>2
  <2> QED
    BY <2>2, <2>3 DEF EndsAt
<1>9. ASSUME NEW d \in DOMAIN k2
      PROVE  /\ d \in DocId /\ k2[d] \in Record
             /\ \E i \in DOMAIN c2 : EndsAt(c2, d, k2[d], i)
  <2>1. ASSUME NEW k \in 1 .. m, d = recs[k].doc_id
        PROVE  /\ d \in DocId /\ k2[d] \in Record
               /\ \E i \in DOMAIN c2 : EndsAt(c2, d, k2[d], i)
    BY <1>3, <1>4, <1>7, <2>1
  <2>2. CASE \A k \in 1 .. m : recs[k].doc_id # d
    <3>1. d \in DOMAIN kept /\ k2[d] = kept[d]
      BY <1>3, <2>2
    <3> QED
      BY <1>5, <1>8, <2>2, <3>1
  <2> QED
    BY <2>1, <2>2
<1>10. k2 \in Map(DocId, Record)
  BY <1>3, <1>9, MapFacts
<1>11. ASSUME NEW d, \A k \in DOMAIN recs : recs[k].doc_id # d, d \in DOMAIN k2
       PROVE  d \in DOMAIN kept /\ k2[d] = kept[d]
  BY <1>3, <1>4, <1>11
<1> QED
  BY <1>9, <1>10, <1>11 DEF KeptAfter

-----------------------------------------------------------------------------
(* Each step keeps the invariant.                                          *)

LEMMA EmptyMap == \A S, T : <<>> \in Map(S, T)
<1> TAKE S, T
<1>1. <<>> \in [{} -> T]
  OBVIOUS
<1> QED
  BY <1>1 DEF Map

LEMMA IdleOK ==
    /\ Idle \in Job /\ Idle.at = "idle" /\ Idle.buffer = <<>> /\ Idle.pending = {}
    /\ <<>> \in Seq(Record)
<1>1. <<>> \in Map(Passage, Text) /\ <<>> \in Map(DocId, Record) /\ <<>> \in Map(DocId, Text)
  BY EmptyMap
<1> QED
  BY <1>1 DEF Idle, Job, Stage

\* An idle job wants nothing.
LEMMA IdleUpdate ==
    ASSUME job' = Idle
    PROVE  UpdateOK'
BY IdleOK DEF UpdateOK

LEMMA CacheInit == Init => CacheInv
<1> SUFFICES ASSUME Init PROVE CacheInv
  OBVIOUS
<1>1. TypeOK
  <2>1. parquet \in Map(Passage, Text)
    BY DEF Init, Map
  <2>2. cache \in Seq(Piece) /\ kept \in Map(DocId, Record) /\ job \in Job
    BY EmptyMap, IdleOK DEF Init
  <2> QED
    BY <2>1, <2>2, SizeAssumption DEF Init, TypeOK
<1>2. LinesOK
  <2>1. CacheOK(<<>>) /\ Torn(<<>>) = {}
    BY DEF CacheOK, Torn
  <2>2. Cardinality({}) = 0
    BY FS_EmptySet
  <2>3. cache = <<>> /\ kept = <<>> /\ tears = 0
    BY DEF Init
  <2>4. Cardinality(Torn(cache)) <= tears
    BY <2>1, <2>2, <2>3
  <2>5. CacheOK(cache) /\ DOMAIN kept = {}
    BY <2>1, <2>3
  <2> QED
    BY <2>4, <2>5 DEF LinesOK
<1>3. UpdateOK
  BY IdleOK DEF Init, UpdateOK
<1> QED
  BY <1>1, <1>2, <1>3 DEF CacheInv

\* The store and the table change, and the update does not see it.
LEMMA WorldKeeps ==
    ASSUME CacheInv, World
    PROVE  CacheInv'
<1>1. UNCHANGED <<cache, job, kept, tears, deaths>>
  BY DEF World, DeletePassage, Reingest, RebuildDocTable
<1>2. parquet' \in Map(Passage, Text) /\ table' \in Tables
  <2>1. parquet \in Map(Passage, Text) /\ table \in Tables
    BY DEF CacheInv, TypeOK
  <2>2. /\ parquet = [x \in DOMAIN parquet |-> parquet[x]] /\ DOMAIN parquet \subseteq Passage
        /\ \A x \in DOMAIN parquet : parquet[x] \in Text
    BY <2>1, MapFacts
  <2>3. ASSUME NEW p \in Passage, DeletePassage(p) PROVE parquet' \in Map(Passage, Text)
    <3>1. parquet' = [q \in DOMAIN parquet \ {p} |-> parquet[q]]
      BY <2>3 DEF DeletePassage
    <3> QED
      BY <2>2, <3>1, MapFacts
  <2>4. ASSUME NEW p \in Passage, NEW t \in Text, Reingest(p, t)
        PROVE  parquet' \in Map(Passage, Text)
    <3>1. parquet' = [q \in DOMAIN parquet \cup {p} |-> IF q = p THEN t ELSE parquet[q]]
      BY <2>4 DEF Reingest
    <3> QED
      BY <2>2, <3>1, MapFacts
  <2> QED
    BY <2>1, <2>3, <2>4 DEF World, DeletePassage, Reingest, RebuildDocTable
<1>3. TypeOK'
  BY <1>1, <1>2 DEF CacheInv, TypeOK
<1>4. LinesOK' /\ UpdateOK'
  BY <1>1 DEF CacheInv, LinesOK, UpdateOK, Again
<1> QED
  BY <1>3, <1>4 DEF CacheInv

LEMMA LoadDocTableKeeps ==
    ASSUME CacheInv, NEW local \in BOOLEAN, NEW partial \in BOOLEAN, LoadDocTable(local, partial)
    PROVE  CacheInv'
<1>1. /\ job' = [Idle EXCEPT !.at = "scan", !.local = local,
                             !.partial = partial, !.table = table]
      /\ UNCHANGED <<parquet, table, cache, kept, tears, deaths>>
  BY DEF LoadDocTable
<1>2. job'.at = "scan" /\ job'.buffer = <<>> /\ job' \in Job
  <2>1. table \in Tables
    BY DEF CacheInv, TypeOK
  <2>2. job'.at = "scan" /\ job'.buffer = <<>>
    BY <1>1 DEF Idle
  <2>3. job' \in Job
    BY <1>1, <2>1, IdleOK DEF Job, Stage
  <2> QED
    BY <2>2, <2>3
<1>3. TypeOK' /\ LinesOK'
  BY <1>1, <1>2 DEF CacheInv, TypeOK, LinesOK
<1>4. UpdateOK'
  BY <1>2 DEF UpdateOK
<1> QED
  BY <1>3, <1>4 DEF CacheInv

LEMMA ReadPassagesKeeps ==
    ASSUME CacheInv, ReadPassages
    PROVE  CacheInv'
<1> DEFINE m == [p \in DOMAIN parquet \cap Range(job.table) |-> parquet[p]]
<1>1. /\ job' = [job EXCEPT !.at = "load", !.meta = m] /\ job.at = "scan"
      /\ UNCHANGED <<parquet, table, cache, kept, tears, deaths>>
  BY DEF ReadPassages
<1>2. m \in Map(Passage, Text)
  <2>1. parquet \in Map(Passage, Text)
    BY DEF CacheInv, TypeOK
  <2>2. DOMAIN parquet \subseteq Passage /\ \A x \in DOMAIN parquet : parquet[x] \in Text
    BY <2>1, MapFacts
  <2>3. /\ m = [x \in DOMAIN m |-> m[x]] /\ DOMAIN m \subseteq DOMAIN parquet
        /\ \A x \in DOMAIN m : m[x] = parquet[x]
    OBVIOUS
  <2> HIDE DEF m
  <2> QED
    BY <2>2, <2>3, MapFacts
<1> HIDE DEF m
<1>3. job'.at = "load" /\ job'.buffer = <<>> /\ job' \in Job
  <2>1. job \in Job /\ job.buffer = <<>>
    BY <1>1 DEF CacheInv, TypeOK, UpdateOK
  <2> QED
    BY <1>1, <1>2, <2>1 DEF Job, Stage
<1>4. TypeOK' /\ LinesOK'
  BY <1>1, <1>3 DEF CacheInv, TypeOK, LinesOK
<1>5. UpdateOK'
  BY <1>3 DEF UpdateOK
<1> QED
  BY <1>4, <1>5 DEF CacheInv

LEMMA LoadCacheKeeps ==
    ASSUME CacheInv, LoadCache
    PROVE  CacheInv'
<1> DEFINE tbl == job.table
           meta == job.meta
           records == LoadOrEmpty(cache)
           lacking == {d \in Present(tbl, meta) : ~ ValidRecord(records, tbl, meta, d)}
<1>1. /\ job.at = "load"
      /\ \/ job' = Idle
         \/ /\ ~ Refused(job.partial, tbl, meta)
            /\ job' = [job EXCEPT !.at = IF lacking = {} THEN "rows" ELSE "embed",
                                  !.records = records, !.pending = lacking]
      /\ UNCHANGED <<parquet, table, cache, kept, tears, deaths>>
  BY DEF LoadCache
<1>2. CASE job' = Idle
  BY <1>1, <1>2, IdleOK, IdleUpdate DEF CacheInv, TypeOK, LinesOK
<1>3. CASE /\ ~ Refused(job.partial, tbl, meta)
           /\ job' = [job EXCEPT !.at = IF lacking = {} THEN "rows" ELSE "embed",
                                 !.records = records, !.pending = lacking]
  <2>1. /\ job \in Job /\ tbl \in Tables \cup {<<>>} /\ meta \in Map(Passage, Text)
        /\ job.buffer = <<>> /\ CacheOK(cache) /\ kept \in Map(DocId, Record)
    BY <1>1 DEF CacheInv, TypeOK, UpdateOK, LinesOK, Job
  <2>2. records \in Map(DocId, Record)
    BY <2>1, LoadFacts
  <2>3. \A d \in Present(tbl, meta) : d \in DocId
    BY <2>1, WantedFacts
  <2> HIDE DEF records
  <2>4. lacking \subseteq Present(tbl, meta) /\ lacking \in SUBSET DocId
    BY <2>3
  <2>5. Cardinality({d \in lacking : d \in DOMAIN kept /\ kept[d] = Wanted(tbl, meta, d)}) <= tears
    <3> DEFINE D == {d \in lacking : d \in DOMAIN kept /\ kept[d] = Wanted(tbl, meta, d)}
               place == [d \in DOMAIN kept |->
                            CHOOSE i \in DOMAIN cache : EndsAt(cache, d, kept[d], i)]
    <3>1. D \in SUBSET DocId
      BY <2>4
    <3>2. \A d \in D : kept[d] \in Record /\ place[d] \in DOMAIN cache
                       /\ EndsAt(cache, d, kept[d], place[d])
      <4> TAKE d \in D
      <4>1. d \in DOMAIN kept /\ kept[d] \in Record
        BY <2>1, MapFacts
      <4>2. \E i \in DOMAIN cache : EndsAt(cache, d, kept[d], i)
        BY <4>1 DEF CacheInv, LinesOK
      <4> QED
        BY <4>1, <4>2
    <3>3. \A d \in D : ~ (d \in DOMAIN records /\ records[d] = kept[d])
      <4> SUFFICES ASSUME NEW d \in D, d \in DOMAIN records, records[d] = kept[d]
                   PROVE  FALSE
        OBVIOUS
      <4>1. d \in Present(tbl, meta) /\ records[d] = Wanted(tbl, meta, d)
        OBVIOUS
      <4>2. records[d].passage_id = tbl[d] /\ records[d].text = meta[tbl[d]]
        BY <2>1, <4>1, WantedFacts
      <4>3. ValidRecord(records, tbl, meta, d)
        BY <4>2 DEF ValidRecord
      <4> QED
        BY <4>3
    <3> HIDE DEF D, place
    <3>4. Cardinality(D) <= Cardinality(Torn(cache))
      BY <2>1, <3>1, <3>2, <3>3, LostBehindATear DEF records
    <3>5. Cardinality(Torn(cache)) <= tears /\ tears \in Nat
      BY DEF CacheInv, LinesOK, TypeOK
    <3>6. Cardinality(D) \in Nat
      <4>1. D \subseteq DOMAIN tbl
        BY DEF D, Present
      <4>2. IsFiniteSet(DOMAIN tbl)
        BY <2>1, TableIsFinite
      <4> QED
        BY <4>1, <4>2, FS_Subset, FS_CardinalityType, Zenon
    <3>7. Cardinality(Torn(cache)) \in Nat
      BY <2>1, TornIsFinite
    <3> QED
      BY <3>4, <3>5, <3>6, <3>7 DEF D
  <2> HIDE DEF lacking
  <2>6. /\ job'.table = tbl /\ job'.meta = meta /\ job'.partial = job.partial
        /\ job'.records = records /\ job'.pending = lacking /\ job'.buffer = <<>>
        /\ job'.at = IF lacking = {} THEN "rows" ELSE "embed"
    BY <1>3, <2>1 DEF Job
  <2>7. job' \in Job
    BY <1>3, <2>1, <2>2, <2>4 DEF Job, Stage
  <2>8. TypeOK' /\ LinesOK'
    BY <1>1, <2>7 DEF CacheInv, TypeOK, LinesOK
  <2>9. Again' = {d \in lacking : d \in DOMAIN kept /\ kept[d] = Wanted(tbl, meta, d)}
    BY <1>1, <2>6 DEF Again
  <2>10. \A d \in Present(tbl, meta) \ lacking : ValidRecord(records, tbl, meta, d)
    BY DEF lacking
  <2>11. ~ job.partial => Present(tbl, meta) = DOMAIN tbl
    BY <1>3 DEF Refused
  <2> HIDE DEF tbl, meta
  <2>12. UpdateOK'
    BY <1>1, <2>4, <2>5, <2>6, <2>9, <2>10, <2>11 DEF UpdateOK
  <2> QED
    BY <2>8, <2>12 DEF CacheInv
<1> QED
  BY <1>1, <1>2, <1>3

LEMMA EmbedChunkKeeps ==
    ASSUME CacheInv, EmbedChunk
    PROVE  CacheInv'
<1> DEFINE tbl == job.table
           meta == job.meta
<1>1. PICK d \in job.pending :
        /\ job' = [job EXCEPT
              !.at = IF Len(job.buffer) + 1 >= FlushSize \/ job.pending = {d}
                     THEN "append" ELSE "embed",
              !.pending = @ \ {d}, !.buffer = Append(@, Wanted(tbl, meta, d)),
              !.records = [e \in DOMAIN @ \cup {Wanted(tbl, meta, d).doc_id} |->
                              IF e = Wanted(tbl, meta, d).doc_id THEN Wanted(tbl, meta, d)
                              ELSE job.records[e]]]
  BY DEF EmbedChunk
<1>2. job.at = "embed" /\ UNCHANGED <<parquet, table, cache, kept, tears, deaths>>
  BY DEF EmbedChunk
<1> DEFINE r == Wanted(tbl, meta, d)
<1>3. /\ job \in Job /\ tbl \in Tables \cup {<<>>} /\ meta \in Map(Passage, Text)
      /\ job.pending \in SUBSET DocId /\ job.buffer \in Seq(Record)
      /\ job.records \in Map(DocId, Record)
  BY DEF CacheInv, TypeOK, Job
<1>4. /\ job.pending \subseteq Present(tbl, meta)
      /\ \A e \in Present(tbl, meta) \ job.pending : ValidRecord(job.records, tbl, meta, e)
      /\ ~ job.partial => Present(tbl, meta) = DOMAIN tbl
      /\ Cardinality(Again) <= tears
  BY <1>2 DEF CacheInv, UpdateOK
<1>5. /\ r \in Record /\ r.doc_id = d /\ r.passage_id = tbl[d] /\ r.text = meta[tbl[d]]
      /\ d \in DocId
  BY <1>3, <1>4, WantedFacts
<1> HIDE DEF r
<1>6. job' = [job EXCEPT
              !.at = IF Len(job.buffer) + 1 >= FlushSize \/ job.pending = {d}
                     THEN "append" ELSE "embed",
              !.pending = job.pending \ {d}, !.buffer = Append(job.buffer, r),
              !.records = [e \in DOMAIN job.records \cup {d} |->
                              IF e = d THEN r ELSE job.records[e]]]
  <2>1. job' = [job EXCEPT
              !.at = IF Len(job.buffer) + 1 >= FlushSize \/ job.pending = {d}
                     THEN "append" ELSE "embed",
              !.pending = @ \ {d}, !.buffer = Append(@, r),
              !.records = [e \in DOMAIN @ \cup {r.doc_id} |->
                              IF e = r.doc_id THEN r ELSE job.records[e]]]
    BY <1>1 DEF r
  <2> QED
    BY <1>5, <2>1
<1> DEFINE records == [e \in DOMAIN job.records \cup {d} |-> IF e = d THEN r ELSE job.records[e]]
           buffer == Append(job.buffer, r)
           at == IF Len(job.buffer) + 1 >= FlushSize \/ job.pending = {d}
                 THEN "append" ELSE "embed"
<1>7. records \in Map(DocId, Record)
  <2>1. /\ DOMAIN job.records \subseteq DocId
        /\ \A e \in DOMAIN job.records : job.records[e] \in Record
    BY <1>3, MapFacts
  <2>2. /\ records = [e \in DOMAIN records |-> records[e]]
        /\ DOMAIN records = DOMAIN job.records \cup {d}
        /\ \A e \in DOMAIN records : records[e] = IF e = d THEN r ELSE job.records[e]
    OBVIOUS
  <2> HIDE DEF records
  <2> QED
    BY <1>5, <2>1, <2>2, MapFacts
<1>8. /\ buffer \in Seq(Record) /\ DOMAIN buffer = DOMAIN job.buffer \cup {Len(job.buffer) + 1}
      /\ \A k \in DOMAIN job.buffer : buffer[k] = job.buffer[k]
      /\ buffer[Len(job.buffer) + 1] = r
  BY <1>3, <1>5
<1>9. /\ DOMAIN records = DOMAIN job.records \cup {d} /\ records[d] = r
      /\ \A e \in DOMAIN job.records : e # d => records[e] = job.records[e]
  OBVIOUS
<1>10. job' = [job EXCEPT !.at = at, !.pending = job.pending \ {d}, !.buffer = buffer,
                          !.records = records]
  BY <1>6
<1>11. at \in {"append", "embed"}
  OBVIOUS
<1> HIDE DEF records, buffer, at
<1>12. /\ job'.at = at /\ job'.table = tbl /\ job'.meta = meta /\ job'.partial = job.partial
       /\ job'.records = records /\ job'.pending = job.pending \ {d} /\ job'.buffer = buffer
  BY <1>3, <1>10 DEF Job
<1>13. job' \in Job
  BY <1>3, <1>7, <1>8, <1>10, <1>11 DEF Job, Stage
<1>14. TypeOK' /\ LinesOK'
  BY <1>2, <1>13 DEF CacheInv, TypeOK, LinesOK
<1>15. \A e \in Present(tbl, meta) \ (job.pending \ {d}) : ValidRecord(records, tbl, meta, e)
  <2> TAKE e \in Present(tbl, meta) \ (job.pending \ {d})
  <2>1. CASE e = d
    BY <1>5, <1>9, <2>1 DEF ValidRecord
  <2>2. CASE e # d
    <3>1. ValidRecord(job.records, tbl, meta, e)
      BY <1>4, <2>2
    <3> QED
      BY <1>9, <2>2, <3>1 DEF ValidRecord
  <2> QED
    BY <2>1, <2>2
<1>16. /\ \A k \in DOMAIN buffer : buffer[k].doc_id \notin job.pending \ {d}
       /\ \A k, l \in DOMAIN buffer : buffer[k].doc_id = buffer[l].doc_id => k = l
  <2>1. /\ \A k \in DOMAIN job.buffer : job.buffer[k].doc_id \notin job.pending
        /\ \A k, l \in DOMAIN job.buffer : job.buffer[k].doc_id = job.buffer[l].doc_id => k = l
    BY DEF CacheInv, UpdateOK
  <2> QED
    BY <1>5, <1>8, <2>1
<1>17. Cardinality(Again') <= tears
  <2>1. Again' = Again \ {d}
    BY <1>2, <1>12 DEF Again
  <2>2. IsFiniteSet(Again)
    <3>1. Again \subseteq DOMAIN tbl
      BY <1>4 DEF Again, Present
    <3> QED
      BY <1>3, <3>1, TableIsFinite, FS_Subset
  <2>3. Cardinality(Again \ {d}) <= Cardinality(Again)
    BY <2>2, FS_Subset
  <2>4. Cardinality(Again \ {d}) \in Nat /\ Cardinality(Again) \in Nat
    BY <2>2, FS_Subset, FS_CardinalityType
  <2>5. tears \in Nat
    BY DEF CacheInv, TypeOK
  <2> QED
    BY <1>4, <2>1, <2>3, <2>4, <2>5
<1> HIDE DEF tbl, meta
<1>18. UpdateOK'
  BY <1>2, <1>4, <1>11, <1>12, <1>15, <1>16, <1>17 DEF UpdateOK
<1> QED
  BY <1>14, <1>18 DEF CacheInv

\* What an append may leave, wherever it is cut.
LEMMA WriteKeeps ==
    ASSUME CacheInv, NEW n \in 0 .. 2 * Len(job.buffer), WriteLines(n)
    PROVE  /\ cache' \in Seq(Piece) /\ kept' \in Map(DocId, Record) /\ LinesOK'
           /\ tears' = tears + (n % 2) /\ n % 2 \in {0, 1} /\ tears \in Nat
           /\ \A d \in job.pending : d \in DOMAIN kept' => d \in DOMAIN kept /\ kept'[d] = kept[d]
<1> DEFINE b == job.buffer
<1>1. /\ cache' = cache \o Pieces(b, n) /\ kept' = Keep(b, n \div 2) /\ tears' = tears + (n % 2)
  BY DEF WriteLines
<1>2. /\ b \in Seq(Record) /\ CacheOK(cache) /\ kept \in Map(DocId, Record)
      /\ \A d \in DOMAIN kept : \E i \in DOMAIN cache : EndsAt(cache, d, kept[d], i)
      /\ \A k, l \in DOMAIN b : b[k].doc_id = b[l].doc_id => k = l
      /\ \A k \in DOMAIN b : b[k].doc_id \notin job.pending
      /\ Cardinality(Torn(cache)) <= tears /\ tears \in Nat
  BY DEF CacheInv, TypeOK, LinesOK, UpdateOK, Job
<1>3. n \in 0 .. 2 * Len(b)
  OBVIOUS
<1>4. n % 2 \in {0, 1}
  BY <1>2, <1>3
<1> HIDE DEF b
<1>5. /\ CacheOK(cache')
      /\ Cardinality(Torn(cache')) <= Cardinality(Torn(cache)) + (n % 2)
  BY <1>1, <1>2, <1>3, AppendKeepsLines
<1>6. /\ kept' \in Map(DocId, Record)
      /\ \A d \in DOMAIN kept' : \E i \in DOMAIN cache' : EndsAt(cache', d, kept'[d], i)
      /\ \A d : (\A k \in DOMAIN b : b[k].doc_id # d) =>
                   (d \in DOMAIN kept' => d \in DOMAIN kept /\ kept'[d] = kept[d])
  <2>1. KeptAfter(b, cache', kept')
    BY <1>1, <1>2, <1>3, AppendKeepsKept
  <2> QED
    BY <2>1 DEF KeptAfter
<1>7. Cardinality(Torn(cache')) <= tears'
  <2>1. Cardinality(Torn(cache)) \in Nat /\ Cardinality(Torn(cache')) \in Nat
    BY <1>2, <1>5, TornIsFinite
  <2> QED
    BY <1>1, <1>2, <1>4, <1>5, <2>1
<1>8. LinesOK'
  BY <1>5, <1>6, <1>7 DEF LinesOK
<1>9. cache' \in Seq(Piece)
  BY <1>5 DEF CacheOK
<1> QED
  BY <1>1, <1>2, <1>4, <1>6, <1>8, <1>9

LEMMA AppendRecordsKeeps ==
    ASSUME CacheInv, AppendRecords
    PROVE  CacheInv'
<1> DEFINE n == 2 * Len(job.buffer)
<1>1. /\ job.at = "append" /\ WriteLines(n) /\ UNCHANGED <<parquet, table, deaths>>
      /\ job' = [job EXCEPT !.buffer = <<>>, !.at = IF job.pending = {} THEN "rows" ELSE "embed"]
  BY DEF AppendRecords
<1>2. job \in Job /\ job.buffer \in Seq(Record) /\ Len(job.buffer) \in Nat
  BY DEF CacheInv, TypeOK, Job
<1>3. n \in 0 .. 2 * Len(job.buffer) /\ n % 2 = 0
  <2>1. \A l \in Nat : 2 * l \in 0 .. 2 * l /\ (2 * l) % 2 = 0
    OBVIOUS
  <2> QED
    BY <1>2, <2>1
<1> HIDE DEF n
<1>4. /\ cache' \in Seq(Piece) /\ kept' \in Map(DocId, Record) /\ LinesOK'
      /\ tears' = tears + (n % 2) /\ tears \in Nat
      /\ \A d \in job.pending : d \in DOMAIN kept' => d \in DOMAIN kept /\ kept'[d] = kept[d]
  BY <1>1, <1>3, WriteKeeps
<1>5. tears' = tears
  BY <1>3, <1>4
<1>6. /\ job'.table = job.table /\ job'.meta = job.meta /\ job'.partial = job.partial
      /\ job'.records = job.records /\ job'.pending = job.pending /\ job'.buffer = <<>>
      /\ job'.at = IF job.pending = {} THEN "rows" ELSE "embed"
  BY <1>1, <1>2 DEF Job
<1>7. job' \in Job
  BY <1>1, <1>2, IdleOK DEF Job, Stage
<1>8. TypeOK'
  BY <1>1, <1>4, <1>5, <1>7 DEF CacheInv, TypeOK
<1>9. Cardinality(Again') <= tears'
  <2>1. Again' \subseteq Again
    BY <1>4, <1>6 DEF Again
  <2>2. IsFiniteSet(Again)
    <3>1. Again \subseteq DOMAIN job.table
      BY <1>1 DEF Again, Present, CacheInv, UpdateOK
    <3>2. job.table \in Tables \cup {<<>>}
      BY <1>2 DEF Job
    <3> QED
      BY <3>1, <3>2, TableIsFinite, FS_Subset
  <2>3. Cardinality(Again') <= Cardinality(Again)
    BY <2>1, <2>2, FS_Subset
  <2>4. Cardinality(Again') \in Nat /\ Cardinality(Again) \in Nat
    BY <2>1, <2>2, FS_Subset, FS_CardinalityType
  <2>5. Cardinality(Again) <= tears
    BY <1>1 DEF CacheInv, UpdateOK
  <2> QED
    BY <1>4, <1>5, <2>3, <2>4, <2>5
<1>10. /\ ~ job.partial => Present(job.table, job.meta) = DOMAIN job.table
       /\ job.pending \subseteq Present(job.table, job.meta)
       /\ \A d \in Present(job.table, job.meta) \ job.pending :
             ValidRecord(job.records, job.table, job.meta, d)
  BY <1>1 DEF CacheInv, UpdateOK
<1>11. UpdateOK'
  BY <1>6, <1>9, <1>10 DEF UpdateOK
<1> QED
  BY <1>4, <1>8, <1>11 DEF CacheInv

LEMMA CollectRowsKeeps ==
    ASSUME CacheInv, CollectRows
    PROVE  CacheInv'
<1> DEFINE rows == {d \in Present(job.table, job.meta) :
                        ValidRecord(job.records, job.table, job.meta, d)}
           texts == [d \in rows |-> job.records[d].text]
<1>1. /\ job.at = "rows" /\ UNCHANGED <<parquet, table, cache, kept, tears, deaths>>
      /\ job' = Idle \/ job' = [job EXCEPT !.at = "built", !.rows = texts]
  BY DEF CollectRows
<1>2. CASE job' = Idle
  BY <1>1, <1>2, IdleOK, IdleUpdate DEF CacheInv, TypeOK, LinesOK
<1>3. CASE job' = [job EXCEPT !.at = "built", !.rows = texts]
  <2>1. /\ job \in Job /\ job.table \in Tables \cup {<<>>} /\ job.meta \in Map(Passage, Text)
    BY DEF CacheInv, TypeOK, Job
  <2>2. rows = Present(job.table, job.meta)
    BY <1>1 DEF CacheInv, UpdateOK
  <2>3. \A d \in rows : texts[d] = job.meta[job.table[d]]
    BY DEF ValidRecord
  <2>4. DOMAIN texts = rows /\ texts = [d \in DOMAIN texts |-> texts[d]]
    OBVIOUS
  <2> HIDE DEF texts, rows
  <2>5. texts \in Map(DocId, Text)
    <3>1. \A d \in rows : d \in DocId
      BY <2>1, <2>2, WantedFacts
    <3>2. \A d \in rows : texts[d] \in Text
      <4> TAKE d \in rows
      <4>1. job.table[d] \in DOMAIN job.meta
        BY <2>2 DEF Present
      <4> QED
        BY <2>1, <2>3, <4>1, MapFacts
    <3> QED
      BY <2>4, <3>1, <3>2, MapFacts
  <2>6. /\ job'.table = job.table /\ job'.meta = job.meta /\ job'.partial = job.partial
        /\ job'.buffer = job.buffer /\ job'.pending = job.pending /\ job'.rows = texts
        /\ job'.at = "built"
    BY <1>3, <2>1 DEF Job
  <2>7. job' \in Job
    BY <1>3, <2>1, <2>5 DEF Job, Stage
  <2>8. TypeOK' /\ LinesOK'
    BY <1>1, <2>7 DEF CacheInv, TypeOK, LinesOK
  <2>9. /\ ~ job.partial => Present(job.table, job.meta) = DOMAIN job.table
        /\ \A k \in DOMAIN job.buffer : job.buffer[k].doc_id \notin job.pending
        /\ \A k, l \in DOMAIN job.buffer : job.buffer[k].doc_id = job.buffer[l].doc_id => k = l
    BY <1>1 DEF CacheInv, UpdateOK
  <2>10. UpdateOK'
    BY <2>2, <2>3, <2>4, <2>6, <2>9 DEF UpdateOK
  <2> QED
    BY <2>8, <2>10 DEF CacheInv
<1> QED
  BY <1>1, <1>2, <1>3

LEMMA EndKeeps ==
    ASSUME CacheInv, BuildFromRows \/ Die
    PROVE  CacheInv'
<1>1. job' = Idle /\ UNCHANGED <<parquet, table>>
  BY DEF BuildFromRows, Die
<1>2. UpdateOK' /\ job' \in Job
  BY <1>1, IdleOK, IdleUpdate
<1>3. CASE UNCHANGED <<cache, tears, kept>>
  <2>1. deaths' = deaths \/ (deaths' = deaths + 1 /\ deaths < MaxDeaths)
    BY DEF BuildFromRows, Die
  <2>2. tears \in 0 .. deaths /\ deaths \in 0 .. MaxDeaths
    BY DEF CacheInv, TypeOK
  <2>3. tears' \in 0 .. deaths' /\ deaths' \in 0 .. MaxDeaths
    BY <1>3, <2>1, <2>2, SizeAssumption
  <2>4. TypeOK' /\ LinesOK'
    BY <1>1, <1>2, <1>3, <2>3 DEF CacheInv, TypeOK, LinesOK
  <2> QED
    BY <1>2, <2>4 DEF CacheInv
<1>4. CASE ~ UNCHANGED <<cache, tears, kept>>
  <2>1. PICK n \in 0 .. 2 * Len(job.buffer) - 1 : WriteLines(n)
    BY <1>4 DEF BuildFromRows, Die
  <2>2. deaths' = deaths + 1 /\ deaths < MaxDeaths
    BY <1>4 DEF BuildFromRows, Die
  <2>3. n \in 0 .. 2 * Len(job.buffer)
    <3>1. Len(job.buffer) \in Nat
      BY DEF CacheInv, TypeOK, Job
    <3> QED
      BY <3>1
  <2>4. /\ cache' \in Seq(Piece) /\ kept' \in Map(DocId, Record) /\ LinesOK'
        /\ tears' = tears + (n % 2) /\ n % 2 \in {0, 1}
    BY <2>1, <2>3, WriteKeeps
  <2>5. tears' \in 0 .. deaths' /\ deaths' \in 0 .. MaxDeaths
    <3>1. tears \in 0 .. deaths /\ deaths \in 0 .. MaxDeaths
      BY DEF CacheInv, TypeOK
    <3> QED
      BY <2>2, <2>4, <3>1, SizeAssumption
  <2>6. TypeOK'
    BY <1>1, <1>2, <2>4, <2>5 DEF CacheInv, TypeOK
  <2> QED
    BY <1>2, <2>4, <2>6 DEF CacheInv
<1> QED
  BY <1>3, <1>4

LEMMA CacheNext == CacheInv /\ [Next]_vars => CacheInv'
<1> SUFFICES ASSUME CacheInv, [Next]_vars PROVE CacheInv'
  OBVIOUS
<1>1. CASE UNCHANGED vars
  BY <1>1 DEF vars, CacheInv, TypeOK, LinesOK, UpdateOK, Again
<1> QED
  BY <1>1, WorldKeeps, LoadDocTableKeeps, ReadPassagesKeeps, LoadCacheKeeps, EmbedChunkKeeps,
     AppendRecordsKeeps, CollectRowsKeeps, EndKeeps DEF Next, Update

LEMMA CacheInvImplies == CacheInv => TypeOK /\ IndexIsOfTheStore
BY DEF CacheInv, UpdateOK, Again, IndexIsOfTheStore, VectorsAreOfTheText,
       EveryPresentIsIndexed, KeptIsNotEmbedded

\* The variables of the update keep their types: the records read and appended, of any
\* cut of any append, and what is still to embed (cache.rs, build.rs).
THEOREM CacheTypes == Spec => []TypeOK
<1> QED
  BY CacheInit, CacheNext, CacheInvImplies, PTL DEF Spec

\* The vectors an update publishes are those of the texts it read, of every passage that is
\* there, and no append cut short costs more than one line of the next (load_or_empty,
\* valid_record and append_records of cache.rs, run_vector_update of build.rs).
THEOREM IndexIsOfTheStoreHolds == Spec => []IndexIsOfTheStore
<1> QED
  BY CacheInit, CacheNext, CacheInvImplies, PTL DEF Spec

=============================================================================
