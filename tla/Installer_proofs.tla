--------------------------- MODULE Installer_proofs ---------------------------
(***************************************************************************)
(* Installer: what runs that failed, died or were removed again leave of a *)
(* data root, and what an init and an installation that end well have made *)
(* of it, where nothing was left that they take for more than it is.       *)
(* Upkeep: whatever is told to type can be typed, and does something, in   *)
(* the data directory there is.                                            *)
(***************************************************************************)
EXTENDS MCInstaller, TLAPS

-----------------------------------------------------------------------------
(* The inductive invariant.                                                *)

\* Stages in which the store, or the indexes, are being changed.
Extracting == {"unpack", "rename"}
Building == {"table", "catalog", "phrase", "tfidf"}
Steady == job.at \notin Extracting \cup Building

Root == store.canonical
Whole == Root.cbeta = "whole"

\* There is something under the raw name only while a pack is extracted there, and a
\* partition that is there is whole but then.
StoreOK ==
    /\ At("unpack") =>
          /\ store[job.layout].cbeta = "partial"
          /\ job.layout = "raw" => ~ Present /\ store.raw.other = "none"
          /\ job.layout = "canonical" => ~ Exists("raw")
    /\ At("rename") =>
          IF Exists("raw") THEN ~ Present /\ store.raw.cbeta = "whole" /\ store.raw.other = "none"
          ELSE Whole
    /\ job.at \notin Extracting => ~ Exists("raw") /\ (Present => Whole)
    /\ job.at \in Building \cup {"registry", "opencode", "shortcuts", "register"} => Whole
    /\ At("clean") /\ ~ job.failed => Whole
    /\ job.at \in {"download", "fetch", "extract"} => ~ Present

\* While nothing is being built, indexes of a corpus that is there are of what is
\* there; and they are all there unless it was left without some.
IndexesOK ==
    /\ Steady /\ Present => /\ \A i \in Index : derived[i] \subseteq {Root}
                            /\ harm <= Unlisted => Ready
    /\ job.at \in {"catalog", "phrase", "tfidf"} => derived["doc_table"] = {Root}
    /\ job.at \in {"phrase", "tfidf"} => derived["catalog"] = {Root} /\ job.build
    /\ At("tfidf") => derived["phrase"] = {Root}
    /\ At("registry") \/ (At("clean") /\ ~ job.failed) => (job.build => Ready)

\* What a run was asked for, and has done so far.
RunOK ==
    /\ job.at \in {"look", "ingest"} => job.by = "cli"
    /\ job.at \in InstallStage => job.by = "gui"
    /\ job.at \in {"look", "pack", "payload", "check"} => ~ job.fresh
    /\ At("look") => (job.build <=> ~ job.raw)
    /\ At("ingest") => job.raw
    /\ job.failed => job.at \in {"clean", "end"}
    /\ job.by = "gui" /\ job.at \in {"download", "fetch", "extract", "registry"}
                                   \cup Extracting \cup Building => job.fetched
    /\ job.by = "cli" /\ At("pack") => (Present => job.force)
    /\ job.by = "cli" /\ job.at \notin {"idle", "end", "clean"} => job.raw \/ job.build
    /\ job.by = "cli" /\ At("clean") /\ ~ job.failed => job.raw \/ job.build
    /\ job.at \notin {"idle", "look", "ingest", "opencode", "shortcuts", "register", "clean", "end"}
          => job.build \/ harm >= Unindexed
    /\ At("clean") /\ ~ job.failed => job.build \/ harm >= Unindexed
    /\ InitEndsReady

\* The program, the shortcuts and the entry of an installation so far.
ProgramOK ==
    /\ Gui => ~ removal
    /\ Gui /\ job.at \notin {"check", "payload"} /\ ~ (At("end") /\ job.failed) => exe = "new"
    /\ Gui /\ At("clean") /\ job.failed => harm >= Unlisted
    /\ job.at \in {"opencode", "shortcuts", "register"} => (harm <= Unlisted => Ready)
    /\ At("register") => wish \subseteq shortcuts
    /\ ~ Gui \/ job.at \in {"check", "end"} =>
          (harm = Untouched /\ exe = "new" => entry \/ removal)
    /\ InstalledIsUsable

\* Until the thread ends, all it has told is of steps.
StepEvent == [kind : {"step"}, to : 0 .. 1000]
QueueOK == Gui => queue \in Seq(StepEvent)

\* The archive is whole that is extracted, and no run has failed before it began.
Typed == /\ TypeOK
         /\ derived \in [Index -> SUBSET Passages]
         /\ At("extract") => archive = "whole"
         /\ At("idle") => ~ job.failed

\* What is claimed of a data root that is not spoiled.
DataOK == harm < Spoiled => StoreOK /\ IndexesOK /\ RunOK /\ ProgramOK

DataRootInv ==
    /\ InstallerTypeOK
    /\ QueueOK
    /\ Typed
    /\ DataOK

-----------------------------------------------------------------------------
(* Stores, harm and runs.                                                  *)

LEMMA Levels == Untouched = 0 /\ Unlisted = 1 /\ Unindexed = 2 /\ Spoiled = 3
  BY DEF Untouched, Unlisted, Unindexed, Spoiled

LEMMA StoreFields ==
    ASSUME Typed
    PROVE  /\ Root \in Passages /\ store.raw \in Passages
           /\ Root.cbeta \in Extent /\ Root.other \in Extent
           /\ store.raw.cbeta \in Extent /\ store.raw.other \in Extent
           /\ Exists("raw") <=> store.raw.cbeta # "none" \/ store.raw.other # "none"
           /\ Exists("canonical") <=> Root.cbeta # "none" \/ Root.other # "none"
           /\ Present <=> Root.cbeta # "none"
  <1>1. Root \in Passages /\ store.raw \in Passages
    BY DEF Typed, TypeOK, Root
  <1>2. \A p \in Passages : p.cbeta \in Extent /\ p.other \in Extent
    BY DEF Passages, Corpus
  <1>3. NoPassages.cbeta = "none" /\ NoPassages.other = "none"
    BY DEF NoPassages, Corpus
  <1>4. \A p \in Passages : p.cbeta = "none" /\ p.other = "none" => p = NoPassages
    BY DEF Passages, Corpus, NoPassages
  <1> QED
    BY <1>1, <1>2, <1>3, <1>4 DEF Exists, Present, Root

LEMMA Suffered ==
    ASSUME Typed, NEW h \in Untouched .. Spoiled, Suffer(h)
    PROVE  /\ harm' \in Untouched .. Spoiled
           /\ harm' >= harm /\ harm' >= h
           /\ harm' < Spoiled => harm < Spoiled /\ h < Spoiled
           /\ harm' <= Unlisted => harm <= Unlisted /\ h <= Unlisted
           /\ harm' = Untouched => harm = Untouched /\ h = Untouched
           /\ harm >= Unlisted => harm' >= Unlisted
           /\ harm >= Unindexed => harm' >= Unindexed
  BY Levels DEF Suffer, Typed, TypeOK

\* A step of a run that changes nothing of the run but where it is.
RunKept == /\ job'.by = job.by /\ job'.force = job.force /\ job'.raw = job.raw
           /\ job'.build = job.build /\ job'.layout = job.layout
           /\ job'.fetched = job.fetched /\ job'.fresh = job.fresh
           /\ job'.failed = job.failed

LEMMA RunGoes ==
    ASSUME Typed, NEW stage \in Stage, Goto(stage)
    PROVE  /\ job' \in Job /\ job'.at = stage /\ RunKept
           /\ job.by \in {"cli", "gui"}
  BY DEF Typed, TypeOK, Job, Goto, RunKept

DataKept == /\ Ready' <=> Ready
            /\ Present' <=> Present
            /\ Whole' <=> Whole
            /\ Root' = Root /\ store' = store /\ derived' = derived
            /\ Exists("raw")' <=> Exists("raw")
            /\ IndexesExist' <=> IndexesExist

LEMMA DataUnchanged ==
    ASSUME UNCHANGED <<store, derived>>
    PROVE  DataKept
  BY DEF DataKept, Ready, Present, Whole, Root, Exists, IndexesExist

LEMMA StageNames ==
    /\ InstallStage \subseteq Stage /\ InitStage \subseteq Stage
    /\ "idle" \in Stage /\ "end" \in Stage
    /\ {"look", "ingest", "pack", "download", "fetch", "extract", "unpack", "rename", "table",
        "catalog", "phrase", "tfidf", "registry", "clean", "check", "payload", "opencode",
        "shortcuts", "register"} \subseteq Stage
  BY DEF Stage, InitStage, InstallStage

LEMMA IdleRun ==
    /\ Idle \in Job /\ Idle.at = "idle" /\ Idle.by = "cli"
    /\ ~ Idle.force /\ ~ Idle.raw /\ ~ Idle.build /\ ~ Idle.fetched /\ ~ Idle.fresh /\ ~ Idle.failed
    /\ Idle.layout = "canonical"
  BY StageNames DEF Idle, Job

-----------------------------------------------------------------------------
(* A step of a run, in the thread of the installer or not.                 *)

LEMMA LookKeeps ==
    ASSUME Typed, DataOK, Look, UNCHANGED <<machine, wish>>
    PROVE  Typed' /\ DataOK'
  <1>1. /\ At("look") /\ UNCHANGED <<store, derived, archive, harm, deaths>>
        /\ UNCHANGED <<exe, opencode, shortcuts, entry, removal, wish>>
        /\ DataKept /\ job \in Job
    BY DataUnchanged DEF Look, machine, Typed, TypeOK
  <1>2. \/ /\ Present /\ ~ job.force /\ job'.build /\ ~ job'.raw
           /\ job'.at = IF IndexesExist THEN "end" ELSE "table"
           /\ job'.by = job.by /\ job'.fresh = job.fresh /\ job'.failed = job.failed
           /\ job'.force = job.force /\ job' \in Job
        \/ /\ Present => job.force
           /\ RunKept /\ job'.at = (IF job.raw THEN "ingest" ELSE "pack") /\ job' \in Job
    BY <1>1, RunGoes, StageNames DEF Look, Job
  <1>3. Typed'
    BY <1>1, <1>2 DEF Typed, TypeOK, At
  <1>4. DataOK'
    <2> SUFFICES ASSUME harm' < Spoiled PROVE (StoreOK /\ IndexesOK /\ RunOK /\ ProgramOK)'
      BY DEF DataOK
    <2>0. StoreOK /\ IndexesOK /\ RunOK /\ ProgramOK /\ job.by = "cli" /\ harm < Spoiled
      BY <1>1 DEF DataOK, RunOK, At
    <2>1. StoreOK'
      BY <1>1, <1>2, <2>0 DEF StoreOK, At, DataKept, Extracting, Building
    <2>r. job'.at = "end" => Ready'
      BY <1>1, <1>2, <2>0
      DEF IndexesOK, StoreOK, Steady, At, DataKept, Extracting, Building, IndexesExist,
          Ready, Whole, Root
    <2>2. IndexesOK'
      BY <1>1, <1>2, <2>0 DEF IndexesOK, Steady, At, DataKept, Extracting, Building
    <2>3. RunOK'
      BY <1>1, <1>2, <2>0, <2>r
      DEF RunOK, At, RunKept, InstallStage, Extracting, Building, InitEndsReady, DataKept
    <2>4. ProgramOK'
      BY <1>1, <1>2, <2>0 DEF ProgramOK, At, RunKept, Gui, InstalledIsUsable, DataKept
    <2> QED
      BY <2>1, <2>2, <2>3, <2>4
  <1> QED
    BY <1>3, <1>4
LEMMA FromPackKeeps ==
    ASSUME Typed, DataOK, FromPack, UNCHANGED <<machine, wish>>
    PROVE  Typed' /\ DataOK'
  <1>1. /\ At("pack") /\ UNCHANGED <<store, derived, harm, deaths>>
        /\ UNCHANGED <<exe, opencode, shortcuts, entry, removal, wish>>
        /\ DataKept /\ job \in Job /\ job.by \in {"cli", "gui"}
        /\ harm \in Untouched .. Spoiled /\ UNCHANGED archive
    BY DataUnchanged DEF FromPack, machine, Typed, TypeOK, Job
  <1>2. \/ /\ Present /\ RunKept /\ job' \in Job
           /\ job'.at \in {"end", "opencode"} /\ (job'.at = "end" <=> job.by = "cli")
        \/ /\ ~ Present /\ job' \in Job /\ job'.at = "download" /\ job'.fetched
           /\ job'.by = job.by /\ job'.force = job.force /\ job'.raw = job.raw
           /\ job'.build = job.build /\ job'.fresh = job.fresh /\ job'.failed = job.failed
    BY <1>1, RunGoes, StageNames DEF FromPack, AfterPack, Job
  <1>3. Typed'
    BY <1>1, <1>2, Levels DEF Typed, TypeOK, At
  <1>4. DataOK'
    <2> SUFFICES ASSUME harm' < Spoiled PROVE (StoreOK /\ IndexesOK /\ RunOK /\ ProgramOK)'
      BY DEF DataOK
    <2>0. StoreOK /\ IndexesOK /\ RunOK /\ ProgramOK
      BY <1>1, <1>2, Levels DEF DataOK
    <2>r. Present /\ harm <= Unlisted => Ready
      BY <1>1, <2>0 DEF IndexesOK, Steady, At, Extracting, Building
    <2>1. StoreOK'
      BY <1>1, <1>2, Levels, <2>0 DEF StoreOK, At, RunKept, DataKept, Extracting, Building
    <2>2. IndexesOK'
      BY <1>1, <1>2, Levels, <2>0, <2>r
      DEF IndexesOK, Steady, At, RunKept, DataKept, Extracting, Building
    <2>3. RunOK'
      BY <1>1, <1>2, Levels, <2>0, <2>r 
      DEF RunOK, At, RunKept, InstallStage, Extracting, Building, InitEndsReady, DataKept
    <2>4. ProgramOK'
      BY <1>1, <1>2, Levels, <2>0, <2>r
      DEF ProgramOK, RunOK, Extracting, Building, At, RunKept, Gui, InstalledIsUsable,
          Usable, DataKept
    <2> QED
      BY <2>1, <2>2, <2>3, <2>4
  <1> QED
    BY <1>3, <1>4

LEMMA DownloadKeeps ==
    ASSUME Typed, DataOK, Download, UNCHANGED <<machine, wish>>
    PROVE  Typed' /\ DataOK'
  <1>1. /\ At("download") /\ UNCHANGED <<store, derived, harm, deaths>>
        /\ UNCHANGED <<exe, opencode, shortcuts, entry, removal, wish>>
        /\ DataKept /\ job \in Job /\ job.by \in {"cli", "gui"}
        /\ harm \in Untouched .. Spoiled /\ archive' = "torn"
    BY DataUnchanged DEF Download, machine, Typed, TypeOK, Job
  <1>2. job' \in Job /\ job'.at = "fetch" /\ RunKept
    BY <1>1, RunGoes, StageNames DEF Download
  <1>3. Typed'
    BY <1>1, <1>2, Levels DEF Typed, TypeOK, At
  <1>4. DataOK'
    <2> SUFFICES ASSUME harm' < Spoiled PROVE (StoreOK /\ IndexesOK /\ RunOK /\ ProgramOK)'
      BY DEF DataOK
    <2>0. StoreOK /\ IndexesOK /\ RunOK /\ ProgramOK
      BY <1>1, <1>2, Levels DEF DataOK
    <2>1. StoreOK'
      BY <1>1, <1>2, Levels, <2>0 DEF StoreOK, At, RunKept, DataKept, Extracting, Building
    <2>2. IndexesOK'
      BY <1>1, <1>2, Levels, <2>0
      DEF IndexesOK, Steady, At, RunKept, DataKept, Extracting, Building
    <2>3. RunOK'
      BY <1>1, <1>2, Levels, <2>0 
      DEF RunOK, At, RunKept, InstallStage, Extracting, Building, InitEndsReady, DataKept
    <2>4. ProgramOK'
      BY <1>1, <1>2, Levels, <2>0
      DEF ProgramOK, RunOK, Extracting, Building, At, RunKept, Gui, InstalledIsUsable,
          Usable, DataKept
    <2> QED
      BY <2>1, <2>2, <2>3, <2>4
  <1> QED
    BY <1>3, <1>4

LEMMA FetchedKeeps ==
    ASSUME Typed, DataOK, Fetched, UNCHANGED <<machine, wish>>
    PROVE  Typed' /\ DataOK'
  <1>1. /\ At("fetch") /\ UNCHANGED <<store, derived, harm, deaths>>
        /\ UNCHANGED <<exe, opencode, shortcuts, entry, removal, wish>>
        /\ DataKept /\ job \in Job /\ job.by \in {"cli", "gui"}
        /\ harm \in Untouched .. Spoiled /\ archive' = "whole"
    BY DataUnchanged DEF Fetched, machine, Typed, TypeOK, Job
  <1>2. job' \in Job /\ job'.at = "extract" /\ RunKept
    BY <1>1, RunGoes, StageNames DEF Fetched
  <1>3. Typed'
    BY <1>1, <1>2, Levels DEF Typed, TypeOK, At
  <1>4. DataOK'
    <2> SUFFICES ASSUME harm' < Spoiled PROVE (StoreOK /\ IndexesOK /\ RunOK /\ ProgramOK)'
      BY DEF DataOK
    <2>0. StoreOK /\ IndexesOK /\ RunOK /\ ProgramOK
      BY <1>1, <1>2, Levels DEF DataOK
    <2>1. StoreOK'
      BY <1>1, <1>2, Levels, <2>0 DEF StoreOK, At, RunKept, DataKept, Extracting, Building
    <2>2. IndexesOK'
      BY <1>1, <1>2, Levels, <2>0
      DEF IndexesOK, Steady, At, RunKept, DataKept, Extracting, Building
    <2>3. RunOK'
      BY <1>1, <1>2, Levels, <2>0 
      DEF RunOK, At, RunKept, InstallStage, Extracting, Building, InitEndsReady, DataKept
    <2>4. ProgramOK'
      BY <1>1, <1>2, Levels, <2>0
      DEF ProgramOK, RunOK, Extracting, Building, At, RunKept, Gui, InstalledIsUsable,
          Usable, DataKept
    <2> QED
      BY <2>1, <2>2, <2>3, <2>4
  <1> QED
    BY <1>3, <1>4

LEMMA InitRegistryKeeps ==
    ASSUME Typed, DataOK, InitRegistry, UNCHANGED <<machine, wish>>
    PROVE  Typed' /\ DataOK'
  <1>1. /\ At("registry") /\ UNCHANGED <<store, derived, harm, deaths>>
        /\ UNCHANGED <<exe, opencode, shortcuts, entry, removal, wish>>
        /\ DataKept /\ job \in Job /\ job.by \in {"cli", "gui"}
        /\ harm \in Untouched .. Spoiled /\ UNCHANGED archive
    BY DataUnchanged DEF InitRegistry, machine, Typed, TypeOK, Job
  <1>2. /\ job' \in Job /\ RunKept
        /\ job'.at \in {"clean", "end"} /\ (job'.at = "clean" <=> job.fetched)
    BY <1>1, RunGoes, StageNames DEF InitRegistry
  <1>3. Typed'
    BY <1>1, <1>2, Levels DEF Typed, TypeOK, At
  <1>4. DataOK'
    <2> SUFFICES ASSUME harm' < Spoiled PROVE (StoreOK /\ IndexesOK /\ RunOK /\ ProgramOK)'
      BY DEF DataOK
    <2>0. StoreOK /\ IndexesOK /\ RunOK /\ ProgramOK
      BY <1>1, <1>2, Levels DEF DataOK
    <2>r. job.build => Ready
      BY <1>1, <2>0 DEF IndexesOK, At
    <2>1. StoreOK'
      BY <1>1, <1>2, Levels, <2>0 DEF StoreOK, At, RunKept, DataKept, Extracting, Building
    <2>2. IndexesOK'
      BY <1>1, <1>2, Levels, <2>0, <2>r
      DEF IndexesOK, Steady, At, RunKept, DataKept, Extracting, Building
    <2>3. RunOK'
      BY <1>1, <1>2, Levels, <2>0, <2>r 
      DEF RunOK, At, RunKept, InstallStage, Extracting, Building, InitEndsReady, DataKept
    <2>4. ProgramOK'
      BY <1>1, <1>2, Levels, <2>0, <2>r
      DEF ProgramOK, RunOK, Extracting, Building, At, RunKept, Gui, InstalledIsUsable,
          Usable, DataKept
    <2> QED
      BY <2>1, <2>2, <2>3, <2>4
  <1> QED
    BY <1>3, <1>4

LEMMA CleanKeeps ==
    ASSUME Typed, DataOK, Clean, UNCHANGED <<machine, wish>>
    PROVE  Typed' /\ DataOK'
  <1>1. /\ At("clean") /\ UNCHANGED <<store, derived, harm, deaths>>
        /\ UNCHANGED <<exe, opencode, shortcuts, entry, removal, wish>>
        /\ DataKept /\ job \in Job /\ job.by \in {"cli", "gui"}
        /\ harm \in Untouched .. Spoiled /\ archive' \in {"none", "torn", "whole"}
    BY DataUnchanged DEF Clean, machine, Typed, TypeOK, Job
  <1>2. /\ job' \in Job /\ RunKept
        /\ job'.at \in {"end", "opencode"}
        /\ job'.at = "opencode" <=> ~ job.failed /\ job.by # "cli"
    BY <1>1, RunGoes, StageNames DEF Clean, AfterPack
  <1>3. Typed'
    BY <1>1, <1>2, Levels DEF Typed, TypeOK, At
  <1>4. DataOK'
    <2> SUFFICES ASSUME harm' < Spoiled PROVE (StoreOK /\ IndexesOK /\ RunOK /\ ProgramOK)'
      BY DEF DataOK
    <2>0. StoreOK /\ IndexesOK /\ RunOK /\ ProgramOK
      BY <1>1, <1>2, Levels DEF DataOK
    <2>r. ~ job.failed /\ (job.build \/ harm <= Unlisted) => Ready
      BY <1>1, <2>0, Levels DEF IndexesOK, RunOK, At, Typed, TypeOK
    <2>1. StoreOK'
      BY <1>1, <1>2, Levels, <2>0 DEF StoreOK, At, RunKept, DataKept, Extracting, Building
    <2>2. IndexesOK'
      BY <1>1, <1>2, Levels, <2>0, <2>r
      DEF IndexesOK, Steady, At, RunKept, DataKept, Extracting, Building
    <2>3. RunOK'
      BY <1>1, <1>2, Levels, <2>0, <2>r 
      DEF RunOK, At, RunKept, InstallStage, Extracting, Building, InitEndsReady, DataKept
    <2>4. ProgramOK'
      BY <1>1, <1>2, Levels, <2>0, <2>r
      DEF ProgramOK, RunOK, Extracting, Building, At, RunKept, Gui, InstalledIsUsable,
          Usable, DataKept
    <2> QED
      BY <2>1, <2>2, <2>3, <2>4
  <1> QED
    BY <1>3, <1>4

\* What a run leaves that ends early.
LEMMA HarmOf ==
    ASSUME NEW stage \in Stage
    PROVE  /\ HarmAt(stage) \in Untouched .. Spoiled
           /\ stage \in Extracting => HarmAt(stage) = Spoiled
           /\ stage \in Building => HarmAt(stage) =
                 IF \A i \in Index : derived[i] \subseteq {Root} THEN Unindexed ELSE Spoiled
           /\ stage \in {"payload", "registry", "clean", "opencode", "shortcuts", "register"} =>
                 HarmAt(stage) = Unlisted
           /\ stage \in {"pack", "download", "fetch", "extract"} /\ job.by = "gui" =>
                 HarmAt(stage) = Unlisted
  BY Levels DEF HarmAt, Extracting, Building, Root

\* Unless the data root is spoiled then, the corpus and the indexes are as they may be
\* while nothing runs.
LEMMA EarlyEnd ==
    ASSUME Typed, DataOK, ~ At("idle"), Suffer(HarmAt(job.at)), harm' < Spoiled
    PROVE  /\ harm' \in Untouched .. Spoiled /\ harm' >= harm /\ harm < Spoiled
           /\ job.at \notin Extracting
           /\ ~ Exists("raw") /\ (Present => Whole)
           /\ Present => \A i \in Index : derived[i] \subseteq {Root}
           /\ Present /\ harm' <= Unlisted => Ready
           /\ job.at \in {"payload", "registry", "clean", "opencode", "shortcuts", "register"} =>
                 harm' >= Unlisted
           /\ job.at \in {"pack", "download", "fetch", "extract"} \cup Building /\ job.by = "gui"
                 => harm' >= Unlisted
  <1>1. job.at \in Stage
    BY DEF Typed, TypeOK, Job
  <1>2. /\ harm' \in Untouched .. Spoiled /\ harm' >= harm /\ harm' >= HarmAt(job.at)
        /\ harm < Spoiled /\ HarmAt(job.at) < Spoiled
        /\ harm' <= Unlisted => harm <= Unlisted /\ HarmAt(job.at) <= Unlisted
    BY <1>1, HarmOf, Suffered
  <1>3. StoreOK /\ IndexesOK
    BY <1>2 DEF DataOK
  <1>4. job.at \notin Extracting
    BY <1>1, <1>2, HarmOf, Levels
  <1>5. job.at \in Building => /\ \A i \in Index : derived[i] \subseteq {Root}
                               /\ HarmAt(job.at) = Unindexed
    BY <1>1, <1>2, HarmOf, Levels
  <1>6. Present => /\ \A i \in Index : derived[i] \subseteq {Root}
                   /\ harm' <= Unlisted => Ready
    BY <1>2, <1>3, <1>4, <1>5, Levels DEF IndexesOK, Steady
  <1>7. ~ Exists("raw") /\ (Present => Whole)
    BY <1>3, <1>4 DEF StoreOK
  <1> QED
    BY <1>1, <1>2, <1>4, <1>5, <1>6, <1>7, HarmOf, Levels

LEMMA FailKeeps ==
    ASSUME Typed, DataOK, Fail, UNCHANGED <<machine, wish>>
    PROVE  Typed' /\ DataOK'
  <1>1. /\ job.at \in {"ingest", "download", "fetch", "extract", "unpack", "rename",
                       "table", "catalog", "phrase", "tfidf", "registry"}
        /\ Suffer(HarmAt(job.at)) /\ DataKept
        /\ UNCHANGED <<store, derived, archive, deaths>>
        /\ UNCHANGED <<exe, opencode, shortcuts, entry, removal, wish>>
    BY DataUnchanged DEF Fail, machine
  <1>2. /\ job' \in Job /\ job'.at \in {"clean", "end"} /\ (job'.at = "clean" <=> job.fetched)
        /\ job'.failed /\ job'.by = job.by /\ job.by \in {"cli", "gui"}
        /\ job'.force = job.force /\ job'.raw = job.raw /\ job'.build = job.build
        /\ job'.fetched = job.fetched /\ job'.fresh = job.fresh
    BY StageNames DEF Fail, Typed, TypeOK, Job
  <1>3. Typed'
    <2>1. harm' \in Untouched .. Spoiled
      BY <1>1, HarmOf, StageNames, Suffered
    <2> QED
      BY <1>1, <1>2, <2>1 DEF Typed, TypeOK, At
  <1>4. DataOK'
    <2> SUFFICES ASSUME harm' < Spoiled PROVE (StoreOK /\ IndexesOK /\ RunOK /\ ProgramOK)'
      BY DEF DataOK
    <2>e. /\ harm' \in Untouched .. Spoiled /\ harm' >= harm /\ harm < Spoiled
          /\ ~ Exists("raw") /\ (Present => Whole)
          /\ Present => \A i \in Index : derived[i] \subseteq {Root}
          /\ Present /\ harm' <= Unlisted => Ready
          /\ job.by = "gui" /\ job.at # "ingest" => harm' >= Unlisted
      BY <1>1, EarlyEnd DEF At, Building, Extracting
    <2>h. harm \in Untouched .. Spoiled
      BY DEF Typed, TypeOK
    <2>0. RunOK /\ ProgramOK
      BY <2>e DEF DataOK
    <2>1. StoreOK'
      BY <1>2, <2>e, <1>1 DEF StoreOK, At, DataKept, Extracting, Building
    <2>2. IndexesOK'
      BY <1>2, <2>e, <1>1 DEF IndexesOK, Steady, At, DataKept, Extracting, Building
    <2>3. RunOK'
      BY <1>2 DEF RunOK, At, InstallStage, Extracting, Building, InitEndsReady
    <2>4. ProgramOK'
      BY <1>1, <1>2, <2>e, <2>h, <2>0, Levels
      DEF ProgramOK, RunOK, Extracting, Building, At, Gui, InstalledIsUsable
    <2> QED
      BY <2>1, <2>2, <2>3, <2>4
  <1> QED
    BY <1>3, <1>4

LEMMA IdleKeeps ==
    ASSUME Typed, UNCHANGED <<store, derived>>, archive' \in {"none", "torn", "whole"},
           deaths' \in 0 .. MaxDeaths, harm' \in Untouched .. Spoiled, job' = Idle,
           harm' < Spoiled =>
              /\ ~ Exists("raw") /\ (Present => Whole)
              /\ Present => \A i \in Index : derived[i] \subseteq {Root}
              /\ Present /\ harm' <= Unlisted => Ready
              /\ harm' = Untouched /\ exe' = "new" => entry' \/ removal'
    PROVE  Typed' /\ DataOK'
  <1>1. DataKept
    BY DataUnchanged
  <1>2. job' \in Job /\ job'.at = "idle" /\ job'.by = "cli" /\ ~ job'.failed
    BY IdleRun
  <1>3. Typed'
    BY <1>1, <1>2 DEF Typed, TypeOK, At
  <1>4. ASSUME harm' < Spoiled PROVE (StoreOK /\ IndexesOK /\ RunOK /\ ProgramOK)'
    <2>1. StoreOK'
      BY <1>1, <1>2, <1>4 DEF StoreOK, At, DataKept, Extracting, Building
    <2>2. IndexesOK'
      BY <1>1, <1>2, <1>4 DEF IndexesOK, Steady, At, DataKept, Extracting, Building
    <2>3. RunOK'
      BY <1>2 DEF RunOK, At, InstallStage, Extracting, Building, InitEndsReady
    <2>4. ProgramOK'
      BY <1>2, <1>4 DEF ProgramOK, At, Gui, InstalledIsUsable
    <2> QED
      BY <2>1, <2>2, <2>3, <2>4
  <1> QED
    BY <1>3, <1>4 DEF DataOK

LEMMA DieKeeps ==
    ASSUME Typed, DataOK, Die, UNCHANGED <<entry, removal>>,
           exe' = "new" => exe = "new" \/ At("payload")
    PROVE  Typed' /\ DataOK'
  <1>1. /\ ~ At("idle") /\ ~ At("end") /\ Suffer(HarmAt(job.at)) /\ job' = Idle
        /\ UNCHANGED <<store, derived, archive>> /\ deaths' \in 0 .. MaxDeaths
    BY DeathAssumption DEF Die, At, Typed, TypeOK
  <1>2. job.at \in Stage /\ job.by \in {"cli", "gui"}
    BY DEF Typed, TypeOK, Job
  <1>3. harm' \in Untouched .. Spoiled
    BY <1>1, <1>2, HarmOf, Suffered
  <1>4. ASSUME harm' < Spoiled, harm' = Untouched, exe' = "new" PROVE entry' \/ removal'
    <2>1. /\ harm = Untouched /\ RunOK /\ ProgramOK /\ ~ At("payload")
          /\ job.by = "gui" => job.at = "check"
      BY <1>1, <1>2, <1>4, EarlyEnd, Levels
      DEF Typed, TypeOK, DataOK, Stage, InitStage, InstallStage, RunOK, At, Gui, Building,
          Extracting
    <2> QED
      BY <2>1, <1>4 DEF ProgramOK, Gui
  <1> QED
    BY <1>1, <1>3, <1>4, EarlyEnd, IdleKeeps DEF Typed, TypeOK

LEMMA ReturnKeeps ==
    ASSUME Typed, DataOK, Return, UNCHANGED machine
    PROVE  Typed' /\ DataOK'
  <1>1. /\ At("end") /\ job' = Idle /\ UNCHANGED <<store, derived, archive, harm, deaths>>
        /\ UNCHANGED <<exe, entry, removal>>
    BY DEF Return, machine
  <1>2. harm < Spoiled =>
              /\ ~ Exists("raw") /\ (Present => Whole)
              /\ Present => \A i \in Index : derived[i] \subseteq {Root}
              /\ Present /\ harm <= Unlisted => Ready
              /\ harm = Untouched /\ exe = "new" => entry \/ removal
    BY <1>1 DEF DataOK, StoreOK, IndexesOK, ProgramOK, At, Steady, Extracting, Building
  <1> QED
    BY <1>1, <1>2, IdleKeeps DEF Typed, TypeOK

-----------------------------------------------------------------------------
(* The steps of the installer's own.                                       *)

LEMMA CheckInstalledKeeps ==
    ASSUME Typed, DataOK, CheckInstalled, UNCHANGED wish
    PROVE  Typed' /\ DataOK'
  <1>1. /\ At("check") /\ UNCHANGED <<store, derived, archive, harm, deaths>>
        /\ UNCHANGED <<exe, opencode, shortcuts, entry, removal, wish>>
        /\ DataKept /\ job \in Job /\ job.by \in {"cli", "gui"}
        /\ harm \in Untouched .. Spoiled
    BY DataUnchanged DEF CheckInstalled, machine, Typed, TypeOK, Job
  <1>2. /\ job' \in Job /\ RunKept /\ job'.at \in {"end", "payload"}
        /\ job'.at = "end" => /\ exe = "new" /\ IndexesExist /\ Exists("canonical")
                              /\ wish \subseteq shortcuts
    BY <1>1, RunGoes, StageNames DEF CheckInstalled, Installed
  <1>3. Typed'
    BY <1>1, <1>2, Levels DEF Typed, TypeOK, At
  <1>4. DataOK'
    <2> SUFFICES ASSUME harm' < Spoiled PROVE (StoreOK /\ IndexesOK /\ RunOK /\ ProgramOK)'
      BY DEF DataOK
    <2>0. StoreOK /\ IndexesOK /\ RunOK /\ ProgramOK
      BY <1>1, <1>2, Levels DEF DataOK
    <2>r. /\ IndexesExist /\ Present => Ready
          /\ job.by = "gui"
          /\ Exists("canonical") /\ store.canonical.other = "none" => Present
          /\ Present => Whole
      <3>1. Exists("canonical") /\ Root.other = "none" => Present
        BY StoreFields
      <3> QED
        BY <1>1, <2>0, <3>1
        DEF IndexesOK, StoreOK, RunOK, InstallStage, Steady, At, Extracting, Building,
            IndexesExist, Ready, Whole, Root
    <2>1. StoreOK'
      BY <1>1, <1>2, Levels, <2>0 DEF StoreOK, At, RunKept, DataKept, Extracting, Building
    <2>2. IndexesOK'
      BY <1>1, <1>2, Levels, <2>0, <2>r
      DEF IndexesOK, Steady, At, RunKept, DataKept, Extracting, Building
    <2>3. RunOK'
      BY <1>1, <1>2, Levels, <2>0, <2>r 
      DEF RunOK, At, RunKept, InstallStage, Extracting, Building, InitEndsReady, DataKept
    <2>4. ProgramOK'
      BY <1>1, <1>2, Levels, <2>0, <2>r
      DEF ProgramOK, RunOK, Extracting, Building, At, RunKept, Gui, InstalledIsUsable,
          Usable, DataKept, Whole, Root
    <2> QED
      BY <2>1, <2>2, <2>3, <2>4
  <1> QED
    BY <1>3, <1>4

LEMMA ExtractPayloadKeeps ==
    ASSUME Typed, DataOK, ExtractPayload, UNCHANGED wish
    PROVE  Typed' /\ DataOK'
  <1>1. /\ At("payload") /\ UNCHANGED <<store, derived, archive, harm, deaths>>
        /\ exe' = "new" /\ UNCHANGED <<opencode, shortcuts, entry, removal, wish>>
        /\ DataKept /\ job \in Job /\ job.by \in {"cli", "gui"}
        /\ harm \in Untouched .. Spoiled
    BY DataUnchanged DEF ExtractPayload, machine, Typed, TypeOK, Job
  <1>2. job' \in Job /\ RunKept /\ job'.at = "pack"
    BY <1>1, RunGoes, StageNames DEF ExtractPayload
  <1>3. Typed'
    BY <1>1, <1>2, Levels DEF Typed, TypeOK, At
  <1>4. DataOK'
    <2> SUFFICES ASSUME harm' < Spoiled PROVE (StoreOK /\ IndexesOK /\ RunOK /\ ProgramOK)'
      BY DEF DataOK
    <2>0. StoreOK /\ IndexesOK /\ RunOK /\ ProgramOK
      BY <1>1, <1>2, Levels DEF DataOK
    <2>r. job.by = "gui" /\ ~ job.fresh
      BY <1>1, <2>0 DEF RunOK, InstallStage, At
    <2>1. StoreOK'
      BY <1>1, <1>2, Levels, <2>0 DEF StoreOK, At, RunKept, DataKept, Extracting, Building
    <2>2. IndexesOK'
      BY <1>1, <1>2, Levels, <2>0, <2>r
      DEF IndexesOK, Steady, At, RunKept, DataKept, Extracting, Building
    <2>3. RunOK'
      BY <1>1, <1>2, Levels, <2>0, <2>r 
      DEF RunOK, At, RunKept, InstallStage, Extracting, Building, InitEndsReady, DataKept
    <2>4. ProgramOK'
      BY <1>1, <1>2, Levels, <2>0, <2>r
      DEF ProgramOK, RunOK, Extracting, Building, At, RunKept, Gui, InstalledIsUsable,
          Usable, DataKept
    <2> QED
      BY <2>1, <2>2, <2>3, <2>4
  <1> QED
    BY <1>3, <1>4

LEMMA InstallOpenCodeKeeps ==
    ASSUME Typed, DataOK, InstallOpenCode, UNCHANGED wish
    PROVE  Typed' /\ DataOK'
  <1>1. /\ At("opencode") /\ UNCHANGED <<store, derived, archive, harm, deaths>>
        /\ UNCHANGED <<exe, shortcuts, entry, removal, wish>>
        /\ DataKept /\ job \in Job /\ job.by \in {"cli", "gui"}
        /\ harm \in Untouched .. Spoiled
    BY DataUnchanged DEF InstallOpenCode, machine, Typed, TypeOK, Job
  <1>2. job' \in Job /\ RunKept /\ job'.at = "shortcuts"
    BY <1>1, RunGoes, StageNames DEF InstallOpenCode
  <1>3. Typed'
    BY <1>1, <1>2, Levels DEF Typed, TypeOK, At
  <1>4. DataOK'
    <2> SUFFICES ASSUME harm' < Spoiled PROVE (StoreOK /\ IndexesOK /\ RunOK /\ ProgramOK)'
      BY DEF DataOK
    <2>0. StoreOK /\ IndexesOK /\ RunOK /\ ProgramOK
      BY <1>1, <1>2, Levels DEF DataOK
    <2>1. StoreOK'
      BY <1>1, <1>2, Levels, <2>0 DEF StoreOK, At, RunKept, DataKept, Extracting, Building
    <2>2. IndexesOK'
      BY <1>1, <1>2, Levels, <2>0
      DEF IndexesOK, Steady, At, RunKept, DataKept, Extracting, Building
    <2>3. RunOK'
      BY <1>1, <1>2, Levels, <2>0 
      DEF RunOK, At, RunKept, InstallStage, Extracting, Building, InitEndsReady, DataKept
    <2>4. ProgramOK'
      BY <1>1, <1>2, Levels, <2>0
      DEF ProgramOK, RunOK, Extracting, Building, At, RunKept, Gui, InstalledIsUsable,
          Usable, DataKept
    <2> QED
      BY <2>1, <2>2, <2>3, <2>4
  <1> QED
    BY <1>3, <1>4

LEMMA CreateShortcutsKeeps ==
    ASSUME Typed, DataOK, CreateShortcuts, UNCHANGED wish
    PROVE  Typed' /\ DataOK'
  <1>1. /\ At("shortcuts") /\ UNCHANGED <<store, derived, archive, harm, deaths>>
        /\ shortcuts' = shortcuts \cup wish /\ UNCHANGED <<exe, opencode, entry, removal, wish>>
        /\ DataKept /\ job \in Job /\ job.by \in {"cli", "gui"}
        /\ harm \in Untouched .. Spoiled
    BY DataUnchanged DEF CreateShortcuts, machine, Typed, TypeOK, Job
  <1>2. job' \in Job /\ RunKept /\ job'.at = "register"
    BY <1>1, RunGoes, StageNames DEF CreateShortcuts
  <1>3. Typed'
    BY <1>1, <1>2, Levels DEF Typed, TypeOK, At
  <1>4. DataOK'
    <2> SUFFICES ASSUME harm' < Spoiled PROVE (StoreOK /\ IndexesOK /\ RunOK /\ ProgramOK)'
      BY DEF DataOK
    <2>0. StoreOK /\ IndexesOK /\ RunOK /\ ProgramOK
      BY <1>1, <1>2, Levels DEF DataOK
    <2>1. StoreOK'
      BY <1>1, <1>2, Levels, <2>0 DEF StoreOK, At, RunKept, DataKept, Extracting, Building
    <2>2. IndexesOK'
      BY <1>1, <1>2, Levels, <2>0
      DEF IndexesOK, Steady, At, RunKept, DataKept, Extracting, Building
    <2>3. RunOK'
      BY <1>1, <1>2, Levels, <2>0 
      DEF RunOK, At, RunKept, InstallStage, Extracting, Building, InitEndsReady, DataKept
    <2>4. ProgramOK'
      BY <1>1, <1>2, Levels, <2>0
      DEF ProgramOK, RunOK, Extracting, Building, At, RunKept, Gui, InstalledIsUsable,
          Usable, DataKept
    <2> QED
      BY <2>1, <2>2, <2>3, <2>4
  <1> QED
    BY <1>3, <1>4

LEMMA RegisterKeeps ==
    ASSUME Typed, DataOK, Register, UNCHANGED wish
    PROVE  Typed' /\ DataOK'
  <1>1. /\ At("register") /\ UNCHANGED <<store, derived, archive, harm, deaths>>
        /\ entry' = TRUE /\ UNCHANGED <<exe, opencode, shortcuts, removal, wish>>
        /\ DataKept /\ job \in Job /\ job.by \in {"cli", "gui"}
        /\ harm \in Untouched .. Spoiled
    BY DataUnchanged DEF Register, machine, Typed, TypeOK, Job
  <1>2. job' \in Job /\ RunKept /\ job'.at = "end"
    BY <1>1, RunGoes, StageNames DEF Register
  <1>3. Typed'
    BY <1>1, <1>2, Levels DEF Typed, TypeOK, At
  <1>4. DataOK'
    <2> SUFFICES ASSUME harm' < Spoiled PROVE (StoreOK /\ IndexesOK /\ RunOK /\ ProgramOK)'
      BY DEF DataOK
    <2>0. StoreOK /\ IndexesOK /\ RunOK /\ ProgramOK
      BY <1>1, <1>2, Levels DEF DataOK
    <2>r. /\ job.by = "gui" /\ exe = "new" /\ wish \subseteq shortcuts /\ Whole
          /\ harm <= Unlisted => Ready
      BY <1>1, <2>0 DEF RunOK, StoreOK, ProgramOK, InstallStage, At, Gui
    <2>1. StoreOK'
      BY <1>1, <1>2, Levels, <2>0 DEF StoreOK, At, RunKept, DataKept, Extracting, Building
    <2>2. IndexesOK'
      BY <1>1, <1>2, Levels, <2>0, <2>r
      DEF IndexesOK, Steady, At, RunKept, DataKept, Extracting, Building
    <2>3. RunOK'
      BY <1>1, <1>2, Levels, <2>0, <2>r 
      DEF RunOK, At, RunKept, InstallStage, Extracting, Building, InitEndsReady, DataKept
    <2>4. ProgramOK'
      BY <1>1, <1>2, Levels, <2>0, <2>r
      DEF ProgramOK, RunOK, Extracting, Building, At, RunKept, Gui, InstalledIsUsable,
          Usable, DataKept, Whole, Root
    <2> QED
      BY <2>1, <2>2, <2>3, <2>4
  <1> QED
    BY <1>3, <1>4

LEMMA FailInstallKeeps ==
    ASSUME Typed, DataOK, FailInstall, UNCHANGED wish
    PROVE  Typed' /\ DataOK'
  <1>1. /\ job.at \in {"payload", "opencode", "shortcuts"}
        /\ exe' = "new" => exe = "new" \/ At("payload")
        /\ Suffer(HarmAt(job.at)) /\ DataKept
        /\ UNCHANGED <<store, derived, archive, deaths, opencode, shortcuts, entry, removal, wish>>
    BY DataUnchanged DEF FailInstall, Left
  <1>2. /\ job' \in Job /\ job'.at = "end"
        /\ job'.failed /\ job'.by = job.by
    BY StageNames DEF FailInstall, Typed, TypeOK, Job
  <1>3. harm' \in Untouched .. Spoiled
    BY <1>1, HarmOf, StageNames, Suffered
  <1>4. Typed'
    BY <1>1, <1>2, <1>3 DEF Typed, TypeOK, At
  <1>5. DataOK'
    <2> SUFFICES ASSUME harm' < Spoiled PROVE (StoreOK /\ IndexesOK /\ RunOK /\ ProgramOK)'
      BY DEF DataOK
    <2>e. /\ harm' >= harm /\ harm < Spoiled
          /\ ~ Exists("raw") /\ (Present => Whole)
          /\ Present => \A i \in Index : derived[i] \subseteq {Root}
          /\ Present /\ harm' <= Unlisted => Ready
          /\ harm' >= Unlisted
      BY <1>1, EarlyEnd DEF At
    <2>0. RunOK /\ ProgramOK
      BY <2>e DEF DataOK
    <2>1. StoreOK'
      BY <1>2, <2>e, <1>1 DEF StoreOK, At, DataKept, Extracting, Building
    <2>2. IndexesOK'
      BY <1>2, <2>e, <1>1 DEF IndexesOK, Steady, At, DataKept, Extracting, Building
    <2>3. RunOK'
      <3>1. job.by = "gui"
        BY <1>1, <2>0 DEF RunOK, InstallStage
      <3> QED
        BY <1>2, <3>1 DEF RunOK, At, InstallStage, Extracting, Building, InitEndsReady
    <2>4. ProgramOK'
      <3>1. harm' # Untouched
        BY <1>3, <2>e, Levels
      <3>2. Gui' => Gui
        BY <1>1, <1>2 DEF Gui, At
      <3> QED
        BY <1>1, <1>2, <2>0, <3>1, <3>2 DEF ProgramOK, At, InstalledIsUsable
    <2> QED
      BY <2>1, <2>2, <2>3, <2>4
  <1> QED
    BY <1>4, <1>5

-----------------------------------------------------------------------------
(* Runs that begin.                                                        *)

LEMMA StartInitKeeps ==
    ASSUME Typed, DataOK, NEW force \in BOOLEAN, NEW raw \in BOOLEAN, NEW layout \in Layouts,
           StartInit(force, raw, layout), UNCHANGED <<machine, wish>>
    PROVE  Typed' /\ DataOK'
  <1>1. /\ At("idle") /\ harm < Spoiled /\ DataKept
        /\ UNCHANGED <<store, derived, archive, harm, deaths, exe, shortcuts, entry, removal>>
    BY DataUnchanged DEF StartInit, MayBegin, machine
  <1>2. /\ job' \in Job /\ job'.at = "look" /\ job'.by = "cli" /\ job'.raw = raw
        /\ job'.build = ~ raw /\ job'.fresh = FALSE /\ job'.failed = FALSE
    BY StageNames DEF StartInit, Idle, Job
  <1>3. Typed'
    BY <1>1, <1>2 DEF Typed, TypeOK, At
  <1>4. (StoreOK /\ IndexesOK /\ RunOK /\ ProgramOK)'
    <2>0. StoreOK /\ IndexesOK /\ RunOK /\ ProgramOK
      BY <1>1 DEF DataOK
    <2>1. StoreOK'
      BY <1>1, <1>2, <2>0 DEF StoreOK, At, DataKept, Extracting, Building
    <2>2. IndexesOK'
      BY <1>1, <1>2, <2>0 DEF IndexesOK, Steady, At, DataKept, Extracting, Building
    <2>3. RunOK'
      BY <1>2 DEF RunOK, At, InstallStage, Extracting, Building, InitEndsReady
    <2>4. ProgramOK'
      BY <1>1, <1>2, <2>0 DEF ProgramOK, At, Gui, InstalledIsUsable
    <2> QED
      BY <2>1, <2>2, <2>3, <2>4
  <1> QED
    BY <1>3, <1>4 DEF DataOK

\* An installer that is started while the installation is being removed spoils it.
LEMMA StartInstallKeeps ==
    ASSUME Typed, DataOK, NEW shortcut \in SUBSET Wishes, NEW build \in BOOLEAN,
           StartInstall(shortcut, build)
    PROVE  Typed' /\ DataOK'
  <1>1. /\ At("idle") /\ harm < Spoiled /\ DataKept
        /\ UNCHANGED <<store, derived, archive, deaths, exe, shortcuts, entry, removal>>
        /\ Suffer(IF removal THEN Spoiled ELSE IF build THEN Untouched ELSE Unindexed)
    BY DataUnchanged DEF StartInstall, MayBegin, machine
  <1>2. /\ job' \in Job /\ job'.at = "check" /\ job'.by = "gui"
        /\ job'.build = build /\ job'.fresh = FALSE /\ job'.failed = FALSE
    BY StageNames DEF StartInstall, Idle, Job
  <1>3. /\ harm' \in Untouched .. Spoiled /\ harm' >= harm
        /\ harm' < Spoiled => ~ removal /\ (build \/ harm' >= Unindexed)
        /\ harm' <= Unlisted => harm <= Unlisted
        /\ harm' = Untouched => harm = Untouched
    BY <1>1, Levels, Suffered
  <1>4. Typed'
    BY <1>1, <1>2, <1>3 DEF Typed, TypeOK, At
  <1>5. ASSUME harm' < Spoiled PROVE (StoreOK /\ IndexesOK /\ RunOK /\ ProgramOK)'
    <2>0. StoreOK /\ IndexesOK /\ RunOK /\ ProgramOK
      BY <1>1 DEF DataOK
    <2>1. StoreOK'
      BY <1>1, <1>2, <2>0 DEF StoreOK, At, DataKept, Extracting, Building
    <2>2. IndexesOK'
      BY <1>1, <1>2, <1>3, <2>0 DEF IndexesOK, Steady, At, DataKept, Extracting, Building
    <2>3. RunOK'
      BY <1>2, <1>3, <1>5 DEF RunOK, At, InstallStage, Extracting, Building, InitEndsReady
    <2>4. ProgramOK'
      BY <1>1, <1>2, <1>3, <1>5, <2>0 DEF ProgramOK, At, Gui, InstalledIsUsable
    <2> QED
      BY <2>1, <2>2, <2>3, <2>4
  <1> QED
    BY <1>4, <1>5 DEF DataOK

-----------------------------------------------------------------------------
(* Steps that change the store.                                            *)

LEMMA Put ==
    ASSUME Typed, NEW dir \in {"canonical", "raw"}, NEW c \in Corpus, NEW x \in Extent,
           store' = [store EXCEPT ![dir] = [@ EXCEPT ![c] = x]]
    PROVE  /\ store' \in [{"canonical", "raw"} -> Passages]
           /\ store'[dir][c] = x
           /\ \A d \in Corpus \ {c} : store'[dir][d] = store[dir][d]
           /\ \A other \in {"canonical", "raw"} \ {dir} : store'[other] = store[other]
           /\ dir = "canonical" => (Exists("raw")' <=> Exists("raw"))
           /\ dir = "raw" => Root' = Root
  BY DEF Typed, TypeOK, Passages, Exists, Root, NoPassages

LEMMA IngestRawKeeps ==
    ASSUME Typed, DataOK, IngestRaw, UNCHANGED <<machine, wish>>
    PROVE  Typed' /\ DataOK'
  <1>1. /\ At("ingest") /\ Suffer(Unindexed)
        /\ UNCHANGED <<derived, archive, deaths, exe, shortcuts, entry, removal>>
        /\ store' = [store EXCEPT !["canonical"] = [@ EXCEPT !["cbeta"] = "whole"]]
    BY DEF IngestRaw, machine
  <1>2. /\ job' \in Job /\ job'.at = "table" /\ job'.by = job.by /\ job'.raw = job.raw
        /\ job'.build = job.build /\ job'.failed = job.failed
    BY StageNames DEF IngestRaw, Typed, TypeOK, Job
  <1>3. /\ store' \in [{"canonical", "raw"} -> Passages]
        /\ Root'.cbeta = "whole"
        /\ Exists("raw")' <=> Exists("raw")
    BY <1>1, Put DEF Corpus, Extent, Root
  <1>4. harm' \in Untouched .. Spoiled /\ harm' >= Unindexed /\ (harm' < Spoiled => harm < Spoiled)
    BY <1>1, Levels, Suffered
  <1>5. Typed'
    BY <1>1, <1>2, <1>3, <1>4 DEF Typed, TypeOK, At
  <1>6. ASSUME harm' < Spoiled PROVE (StoreOK /\ IndexesOK /\ RunOK /\ ProgramOK)'
    <2>0. /\ StoreOK /\ RunOK /\ ProgramOK /\ job.by = "cli" /\ job.raw /\ ~ job.failed
          /\ ~ Exists("raw")
      BY <1>1, <1>4, <1>6 DEF DataOK, RunOK, StoreOK, At, Extracting
    <2>1. StoreOK'
      BY <1>2, <1>3, <2>0 DEF StoreOK, At, Extracting, Building, Whole
    <2>2. IndexesOK'
      BY <1>2 DEF IndexesOK, Steady, At, Extracting, Building
    <2>3. RunOK'
      BY <1>2, <1>4, <2>0 DEF RunOK, At, InstallStage, Extracting, Building, InitEndsReady
    <2>4. ProgramOK'
      BY <1>2, <1>4, <2>0, Levels DEF ProgramOK, At, Gui, InstalledIsUsable
    <2> QED
      BY <2>1, <2>2, <2>3, <2>4
  <1> QED
    BY <1>5, <1>6 DEF DataOK

\* A pack is written where there is no corpus, and nothing under the raw name.
LEMMA StartUnpackKeeps ==
    ASSUME Typed, DataOK, StartUnpack, UNCHANGED <<machine, wish>>
    PROVE  Typed' /\ DataOK'
  <1> DEFINE dir == job.layout
  <1>0. dir \in {"canonical", "raw"}
    BY LayoutAssumption DEF Typed, TypeOK, Job
  <1>1. /\ At("extract") /\ archive = "whole"
        /\ UNCHANGED <<derived, archive, harm, deaths, exe, shortcuts, entry, removal, wish>>
        /\ store' = [store EXCEPT ![dir] = [@ EXCEPT !["cbeta"] = "partial"]]
    BY DEF StartUnpack, machine, Typed
  <1>2. job' \in Job /\ job'.at = "unpack" /\ RunKept
    BY RunGoes, StageNames DEF StartUnpack
  <1>3. /\ store' \in [{"canonical", "raw"} -> Passages]
        /\ store'[dir].cbeta = "partial" /\ store'[dir].other = store[dir].other
        /\ dir = "canonical" => (Exists("raw")' <=> Exists("raw"))
        /\ dir = "raw" => Root' = Root
    <2>1. "partial" \in Extent
      BY DEF Extent
    <2> QED
      BY <2>1, <1>0, <1>1, Put DEF Corpus
  <1>5. Typed'
    BY <1>1, <1>2, <1>3 DEF Typed, TypeOK, At
  <1>6. ASSUME harm' < Spoiled PROVE (StoreOK /\ IndexesOK /\ RunOK /\ ProgramOK)'
    <2>0. StoreOK /\ IndexesOK /\ RunOK /\ ProgramOK
      BY <1>1, <1>6 DEF DataOK
    <2>1. StoreOK'
      <3>1. ~ Present /\ ~ Exists("raw")
        BY <1>1, <2>0 DEF StoreOK, At, Extracting
      <3>2. dir = "raw" => ~ Present' /\ store'.raw.other = "none"
        BY <1>3, <3>1, StoreFields DEF Present, Root
      <3> QED
        BY <1>2, <1>3, <3>1, <3>2 DEF StoreOK, At, Extracting, Building, RunKept
    <2>2. IndexesOK'
      BY <1>2 DEF IndexesOK, Steady, At, Extracting, Building
    <2>3. RunOK'
      BY <1>1, <1>2, <2>0
      DEF RunOK, At, InstallStage, Extracting, Building, InitEndsReady, RunKept
    <2>4. ProgramOK'
      BY <1>1, <1>2, <2>0 DEF ProgramOK, At, Gui, InstalledIsUsable, RunKept
    <2> QED
      BY <2>1, <2>2, <2>3, <2>4
  <1> QED
    BY <1>5, <1>6 DEF DataOK

LEMMA EndUnpackKeeps ==
    ASSUME Typed, DataOK, EndUnpack, UNCHANGED <<machine, wish>>
    PROVE  Typed' /\ DataOK'
  <1> DEFINE dir == job.layout
             now == IF store[dir].cbeta = "partial" THEN "whole" ELSE "partial"
  <1>0. dir \in {"canonical", "raw"}
    BY LayoutAssumption DEF Typed, TypeOK, Job
  <1>1. /\ At("unpack")
        /\ UNCHANGED <<derived, archive, harm, deaths, exe, shortcuts, entry, removal, wish>>
        /\ store' = [store EXCEPT ![dir] = [@ EXCEPT !["cbeta"] = now]]
    BY DEF EndUnpack, machine
  <1>2. /\ job' \in Job /\ job'.at = "rename" /\ job'.by = job.by /\ job'.raw = job.raw
        /\ job'.build = job.build /\ job'.failed = job.failed /\ job'.fetched = job.fetched
        /\ job.by \in {"cli", "gui"}
    BY StageNames DEF EndUnpack, Typed, TypeOK, Job
  <1>3. /\ store' \in [{"canonical", "raw"} -> Passages]
        /\ store'[dir].cbeta = now /\ store'[dir].other = store[dir].other
        /\ dir = "canonical" => (Exists("raw")' <=> Exists("raw"))
        /\ dir = "raw" => Root' = Root
    <2>1. now \in Extent
      BY DEF Extent
    <2> HIDE DEF now
    <2> QED
      BY <2>1, <1>0, <1>1, Put DEF Corpus
  <1>5. Typed'
    BY <1>1, <1>2, <1>3 DEF Typed, TypeOK, At
  <1>6. ASSUME harm' < Spoiled PROVE (StoreOK /\ IndexesOK /\ RunOK /\ ProgramOK)'
    <2>0. StoreOK /\ IndexesOK /\ RunOK /\ ProgramOK
      BY <1>1, <1>6 DEF DataOK
    <2>1. StoreOK'
      <3>1. now = "whole" /\ store'[dir].cbeta = "whole"
        BY <1>1, <1>3, <2>0 DEF StoreOK, At
      <3>2. CASE dir = "raw"
        <4>1. /\ ~ Present' /\ store'.raw.cbeta = "whole" /\ store'.raw.other = "none"
          BY <1>1, <1>3, <2>0, <3>1, <3>2 DEF StoreOK, At, Present, Root
        <4>2. Exists("raw")'
          BY <1>5, <4>1, StoreFields DEF Exists, NoPassages, Corpus
        <4> QED
          BY <1>2, <4>1, <4>2 DEF StoreOK, At, Extracting, Building
      <3>3. CASE dir = "canonical"
        <4>1. ~ Exists("raw")' /\ Whole'
          BY <1>1, <1>3, <2>0, <3>1, <3>3 DEF StoreOK, At, Whole, Root
        <4> QED
          BY <1>2, <4>1 DEF StoreOK, At, Extracting, Building
      <3> QED
        BY <1>0, <3>2, <3>3
    <2>2. IndexesOK'
      BY <1>2 DEF IndexesOK, Steady, At, Extracting, Building
    <2>3. RunOK'
      BY <1>1, <1>2, <2>0 DEF RunOK, At, InstallStage, Extracting, Building, InitEndsReady
    <2>4. ProgramOK'
      BY <1>1, <1>2, <2>0 DEF ProgramOK, At, Gui, InstalledIsUsable
    <2> QED
      BY <2>1, <2>2, <2>3, <2>4
  <1> QED
    BY <1>5, <1>6 DEF DataOK

LEMMA Heals ==
    ASSUME Typed, store' = Healed
    PROVE  /\ store' \in [{"canonical", "raw"} -> Passages]
           /\ Exists("raw") /\ ~ Exists("canonical") => Root' = store.raw /\ ~ Exists("raw")'
           /\ ~ (Exists("raw") /\ ~ Exists("canonical")) => store' = store
  <1>1. NoPassages \in Passages
    BY DEF NoPassages, Passages, Extent
  <1>2. CASE Exists("raw") /\ ~ Exists("canonical")
    <2>1. store' = [canonical |-> store.raw, raw |-> NoPassages]
      BY <1>2 DEF Healed
    <2>2. store'.canonical = store.raw /\ store'.raw = NoPassages
      BY <2>1
    <2> QED
      BY <1>1, <1>2, <2>1, <2>2, StoreFields DEF Exists, Root
  <1>3. CASE ~ (Exists("raw") /\ ~ Exists("canonical"))
    BY <1>3 DEF Healed, Typed, TypeOK
  <1> QED
    BY <1>2, <1>3

LEMMA RenameRawKeeps ==
    ASSUME Typed, DataOK, RenameRaw, UNCHANGED <<machine, wish>>
    PROVE  Typed' /\ DataOK'
  <1>1. /\ At("rename") /\ store' = Healed
        /\ Suffer(IF Exists("raw") /\ Exists("canonical") THEN Spoiled ELSE Untouched)
        /\ UNCHANGED <<derived, archive, deaths, exe, shortcuts, entry, removal, wish>>
    BY DEF RenameRaw, machine
  <1>2. job' \in Job /\ job'.at = "table" /\ RunKept /\ job.by \in {"cli", "gui"}
    BY RunGoes, StageNames DEF RenameRaw
  <1>3. /\ harm' \in Untouched .. Spoiled /\ harm' >= harm
        /\ harm' < Spoiled => harm < Spoiled /\ ~ (Exists("raw") /\ Exists("canonical"))
        /\ harm >= Unindexed => harm' >= Unindexed
        /\ harm' = Untouched => harm = Untouched
    BY <1>1, Levels, Suffered
  <1>5. Typed'
    BY <1>1, <1>2, <1>3, Heals DEF Typed, TypeOK, At
  <1>6. ASSUME harm' < Spoiled PROVE (StoreOK /\ IndexesOK /\ RunOK /\ ProgramOK)'
    <2>0. StoreOK /\ IndexesOK /\ RunOK /\ ProgramOK
      BY <1>3, <1>6 DEF DataOK
    <2>1. StoreOK'
      <3>1. ~ Exists("raw")' /\ Whole'
        <4>1. CASE Exists("raw")
          <5>1. Root' = store.raw /\ ~ Exists("raw")'
            BY <1>1, <1>3, <1>6, <4>1, Heals
          <5> QED
            BY <1>1, <2>0, <4>1, <5>1 DEF StoreOK, At, Whole
        <4>2. CASE ~ Exists("raw")
          <5>1. store' = store
            BY <1>1, <4>2, Heals
          <5> QED
            BY <1>1, <2>0, <4>2, <5>1 DEF StoreOK, At, Whole, Root, Exists
        <4> QED
          BY <4>1, <4>2
      <3> QED
        BY <1>2, <3>1 DEF StoreOK, At, Extracting, Building
    <2>2. IndexesOK'
      BY <1>2 DEF IndexesOK, Steady, At, Extracting, Building
    <2>3. RunOK'
      BY <1>1, <1>2, <1>3, <2>0
      DEF RunOK, At, InstallStage, Extracting, Building, InitEndsReady, RunKept
    <2>4. ProgramOK'
      BY <1>1, <1>2, <2>0, <1>3 DEF ProgramOK, Gui, At, InstalledIsUsable, RunKept
    <2> QED
      BY <2>1, <2>2, <2>3, <2>4
  <1> QED
    BY <1>5, <1>6 DEF DataOK

\* `sinorag status` takes over a directory that has the raw name: while it is extracted,
\* and then the data root is spoiled, or before the run renames it itself.
LEMMA StatusKeeps ==
    ASSUME Typed, DataOK, Status, UNCHANGED <<machine, wish>>
    PROVE  Typed' /\ DataOK'
  <1>1. /\ Healed # store /\ store' = Healed
        /\ Suffer(IF At("unpack") THEN Spoiled ELSE Untouched)
        /\ UNCHANGED <<derived, archive, deaths, job, exe, shortcuts, entry, removal, wish>>
    BY DEF Status, machine
  <1>2. /\ Exists("raw") /\ ~ Exists("canonical")
        /\ store' \in [{"canonical", "raw"} -> Passages]
        /\ Root' = store.raw /\ ~ Exists("raw")'
    BY <1>1, Heals
  <1>3. /\ harm' \in Untouched .. Spoiled /\ harm' >= harm
        /\ harm' < Spoiled => harm < Spoiled /\ ~ At("unpack")
        /\ harm >= Unindexed => harm' >= Unindexed
        /\ harm >= Unlisted => harm' >= Unlisted
        /\ harm' = Untouched => harm = Untouched
    BY <1>1, Levels, Suffered
  <1>5. Typed'
    BY <1>1, <1>2, <1>3 DEF Typed, TypeOK, At
  <1>6. ASSUME harm' < Spoiled PROVE (StoreOK /\ IndexesOK /\ RunOK /\ ProgramOK)'
    <2>0. StoreOK /\ IndexesOK /\ RunOK /\ ProgramOK
      BY <1>3, <1>6 DEF DataOK
    <2>1. At("rename") /\ Root'.cbeta = "whole"
      BY <1>2, <1>3, <1>6, <2>0 DEF StoreOK, Extracting, At
    <2>2. StoreOK'
      BY <1>1, <1>2, <2>1 DEF StoreOK, At, Extracting, Building, Whole
    <2>3. IndexesOK'
      BY <1>1, <2>1 DEF IndexesOK, Steady, At, Extracting, Building
    <2>4. RunOK'
      BY <1>1, <1>3, <2>0, <2>1
      DEF RunOK, At, InstallStage, Extracting, Building, InitEndsReady
    <2>5. ProgramOK'
      BY <1>1, <1>3, <2>0, <2>1 DEF ProgramOK, Gui, At, InstalledIsUsable
    <2> QED
      BY <2>2, <2>3, <2>4, <2>5
  <1> QED
    BY <1>5, <1>6 DEF DataOK

LEMMA IngestOtherKeeps ==
    ASSUME Typed, DataOK, IngestOther, UNCHANGED <<machine, wish>>
    PROVE  Typed' /\ DataOK'
  <1>1. /\ At("idle") /\ harm < Spoiled
        /\ store' = [store EXCEPT !["canonical"] = [@ EXCEPT !["other"] = "whole"]]
        /\ Suffer(IF Present THEN Spoiled ELSE Untouched)
        /\ UNCHANGED <<derived, archive, deaths, job, exe, shortcuts, entry, removal, wish>>
    BY DEF IngestOther, machine, MayBegin
  <1>2. /\ store' \in [{"canonical", "raw"} -> Passages]
        /\ Present' <=> Present
        /\ Exists("raw")' <=> Exists("raw")
    BY <1>1, Put DEF Corpus, Extent, Present
  <1>3. /\ harm' \in Untouched .. Spoiled
        /\ harm' < Spoiled => ~ Present
        /\ harm' = Untouched => harm = Untouched
    BY <1>1, Levels, Suffered
  <1>5. Typed'
    BY <1>1, <1>2, <1>3 DEF Typed, TypeOK, At
  <1>6. ASSUME harm' < Spoiled PROVE (StoreOK /\ IndexesOK /\ RunOK /\ ProgramOK)'
    <2>0. StoreOK /\ RunOK /\ ProgramOK
      BY <1>1 DEF DataOK
    <2>1. StoreOK' /\ IndexesOK'
      BY <1>1, <1>2, <1>3, <1>6, <2>0
      DEF StoreOK, IndexesOK, Steady, At, Extracting, Building
    <2>2. RunOK'
      BY <1>1, <2>0 DEF RunOK, At, InstallStage, Extracting, Building, InitEndsReady
    <2>3. ProgramOK'
      BY <1>1, <1>3, <2>0 DEF ProgramOK, Gui, At, InstalledIsUsable
    <2> QED
      BY <2>1, <2>2, <2>3
  <1> QED
    BY <1>5, <1>6 DEF DataOK

\* The user indexes another corpus, before this one comes.
LEMMA IndexOtherKeeps ==
    ASSUME Typed, DataOK, NEW all \in BOOLEAN, IndexOther(all), UNCHANGED <<machine, wish>>
    PROVE  Typed' /\ DataOK'
  <1>1. /\ At("idle") /\ harm < Spoiled /\ ~ Present
        /\ derived' = [i \in Index |-> IF all \/ i = "doc_table" THEN {Root} ELSE derived[i]]
        /\ UNCHANGED <<store, archive, deaths, harm, job, exe, shortcuts, entry, removal, wish>>
    BY DEF IndexOther, machine, MayBegin, Root
  <1>2. Root \in Passages
    BY StoreFields
  <1>5. Typed'
    BY <1>1, <1>2 DEF Typed, TypeOK, At
  <1>6. (StoreOK /\ IndexesOK /\ RunOK /\ ProgramOK)'
    <2>0. /\ StoreOK /\ RunOK /\ ProgramOK
          /\ Present' <=> Present
          /\ Whole' <=> Whole
          /\ Exists("raw")' <=> Exists("raw")
      BY <1>1 DEF DataOK, Present, Whole, Exists, Root
    <2>1. StoreOK' /\ IndexesOK'
      BY <1>1, <2>0 DEF StoreOK, IndexesOK, Steady, At, Extracting, Building
    <2>2. RunOK'
      BY <1>1, <2>0 DEF RunOK, At, InstallStage, Extracting, Building, InitEndsReady
    <2>3. ProgramOK'
      BY <1>1, <2>0 DEF ProgramOK, Gui, At, InstalledIsUsable
    <2> QED
      BY <2>1, <2>2, <2>3
  <1> QED
    BY <1>5, <1>6 DEF DataOK

-----------------------------------------------------------------------------
(* Steps that build an index.                                              *)

\* An index that is replaced by one of what is there.
LEMMA Indexed ==
    ASSUME Typed, NEW i \in Index, NEW over \in SUBSET Passages, derived' = [derived EXCEPT ![i] = over],
           over = {} \/ \E s \in Passages : over = {s}
    PROVE  /\ derived' \in [Index -> SUBSET Passages]
           /\ derived'[i] = over
           /\ \A j \in Index \ {i} : derived'[j] = derived[j]
           /\ \A j \in Index : derived'[j] = {} \/ \E s \in Passages : derived'[j] = {s}
  <1>1. /\ derived' \in [Index -> SUBSET Passages] /\ derived'[i] = over
        /\ \A j \in Index \ {i} : derived'[j] = derived[j]
    BY DEF Typed
  <1>2. ASSUME NEW j \in Index
        PROVE  derived'[j] = {} \/ \E s \in Passages : derived'[j] = {s}
    <2>1. CASE j = i
      BY <2>1, <1>1
    <2>2. CASE j # i
      BY <2>2, <1>1 DEF Typed, TypeOK
    <2> QED
      BY <2>1, <2>2
  <1> QED
    BY <1>1, <1>2

\* What a building step leaves alone.
BuildKept == /\ job' \in Job /\ RunKept /\ job.by \in {"cli", "gui"}
             /\ UNCHANGED <<store, archive, deaths, exe, shortcuts, entry, removal, wish>>
             /\ Present' <=> Present
             /\ Whole' <=> Whole
             /\ Root' = Root
             /\ Exists("raw")' <=> Exists("raw")

LEMMA BuildStages ==
    ASSUME Typed, NEW stage \in Stage, Goto(stage), UNCHANGED <<store, archive, deaths, machine, wish>>
    PROVE  BuildKept
  BY RunGoes DEF BuildKept, machine, Present, Whole, Root, Exists

LEMMA BuildTableKeeps ==
    ASSUME Typed, DataOK, BuildTable, UNCHANGED <<machine, wish>>
    PROVE  Typed' /\ DataOK'
  <1>1. /\ At("table") /\ BuildKept /\ job'.at = "catalog" /\ harm' = harm
        /\ derived' = [derived EXCEPT !["doc_table"] = {Root}]
    BY StageNames, BuildStages, RunGoes DEF BuildTable, Root
  <1>2. /\ derived' \in [Index -> SUBSET Passages]
        /\ derived'["doc_table"] = {Root}
        /\ \A j \in Index : derived'[j] = {} \/ \E s \in Passages : derived'[j] = {s}
    <2>1. Root \in Passages /\ "doc_table" \in Index
      BY StoreFields DEF Index
    <2>2. {Root} \in SUBSET Passages /\ \E s \in Passages : {Root} = {s}
      BY <2>1
    <2> QED
      BY <1>1, <2>1, <2>2, Indexed
  <1>5. Typed'
    BY <1>1, <1>2 DEF Typed, TypeOK, At, BuildKept
  <1>6. ASSUME harm' < Spoiled PROVE (StoreOK /\ IndexesOK /\ RunOK /\ ProgramOK)'
    <2>0. StoreOK /\ IndexesOK /\ RunOK /\ ProgramOK
      BY <1>1, <1>6 DEF DataOK
    <2>1. StoreOK'
      BY <1>1, <2>0 DEF StoreOK, At, Extracting, Building, BuildKept
    <2>2. IndexesOK'
      BY <1>1, <1>2, <2>0 DEF IndexesOK, Steady, At, Extracting, Building, BuildKept
    <2>3. RunOK'
      BY <1>1, <2>0
      DEF RunOK, At, InstallStage, Extracting, Building, InitEndsReady, BuildKept, RunKept
    <2>4. ProgramOK'
      BY <1>1, <2>0 DEF ProgramOK, Gui, At, InstalledIsUsable, BuildKept, RunKept
    <2> QED
      BY <2>1, <2>2, <2>3, <2>4
  <1> QED
    BY <1>5, <1>6 DEF DataOK

\* Without the other two indexes to build, those there are must be of what is there.
LEMMA BuildCatalogKeeps ==
    ASSUME Typed, DataOK, BuildCatalog, UNCHANGED <<machine, wish>>
    PROVE  Typed' /\ DataOK'
  <1>1. /\ At("catalog") /\ BuildKept
        /\ job'.at = (IF job.build THEN "phrase" ELSE "registry")
        /\ derived' = [derived EXCEPT !["catalog"] = derived["doc_table"]]
        /\ Suffer(IF job.build \/ derived["phrase"] \cup derived["tfidf"] \subseteq derived["doc_table"]
                  THEN Untouched ELSE Spoiled)
    <2>1. CASE job.build
      BY <2>1, StageNames, BuildStages, RunGoes DEF BuildCatalog
    <2>2. CASE ~ job.build
      BY <2>2, StageNames, BuildStages, RunGoes DEF BuildCatalog
    <2> QED
      BY <2>1, <2>2
  <1>2. /\ derived' \in [Index -> SUBSET Passages]
        /\ derived'["catalog"] = derived["doc_table"] /\ derived'["doc_table"] = derived["doc_table"]
        /\ derived'["phrase"] = derived["phrase"] /\ derived'["tfidf"] = derived["tfidf"]
        /\ \A j \in Index : derived'[j] = {} \/ \E s \in Passages : derived'[j] = {s}
    <2>1. /\ "catalog" \in Index /\ derived["doc_table"] \in SUBSET Passages
          /\ derived["doc_table"] = {} \/ \E s \in Passages : derived["doc_table"] = {s}
          /\ {"doc_table", "phrase", "tfidf"} \subseteq Index \ {"catalog"}
      BY DEF Index, Typed, TypeOK
    <2> QED
      BY <1>1, <2>1, Indexed
  <1>3. /\ harm' \in Untouched .. Spoiled /\ harm' >= harm
        /\ harm' < Spoiled => /\ harm < Spoiled
                              /\ job.build \/ derived["phrase"] \cup derived["tfidf"]
                                                  \subseteq derived["doc_table"]
        /\ harm >= Unindexed => harm' >= Unindexed
        /\ harm' = Untouched => harm = Untouched
    BY <1>1, Levels, Suffered
  <1>5. Typed'
    BY <1>1, <1>2, <1>3 DEF Typed, TypeOK, At, BuildKept
  <1>6. ASSUME harm' < Spoiled PROVE (StoreOK /\ IndexesOK /\ RunOK /\ ProgramOK)'
    <2>0. StoreOK /\ IndexesOK /\ RunOK /\ ProgramOK
      BY <1>3, <1>6 DEF DataOK
    <2>t. derived["doc_table"] = {Root} /\ job'.build = job.build
          /\ (job.build \/ harm' >= Unindexed)
      BY <1>1, <1>3, <2>0 DEF IndexesOK, RunOK, At, BuildKept, RunKept
    <2>1. StoreOK'
      BY <1>1, <2>0 DEF StoreOK, At, Extracting, Building, BuildKept
    <2>2. IndexesOK'
      <3>1. CASE job.build
        BY <1>1, <1>2, <2>t, <3>1 DEF IndexesOK, Steady, At, Extracting, Building, BuildKept
      <3>2. CASE ~ job.build
        <4>1. \A j \in Index : derived'[j] \subseteq {Root'}
          BY <1>1, <1>2, <1>3, <1>6, <2>t, <3>2 DEF Index, BuildKept
        <4> QED
          BY <1>1, <1>2, <1>3, <2>t, <3>2, <4>1, Levels
          DEF IndexesOK, Steady, At, Extracting, Building, BuildKept
      <3> QED
        BY <3>1, <3>2
    <2>3. RunOK'
      BY <1>1, <1>3, <2>0, <2>t
      DEF RunOK, At, InstallStage, Extracting, Building, InitEndsReady, BuildKept, RunKept
    <2>4. ProgramOK'
      BY <1>1, <1>3, <2>0 DEF ProgramOK, Gui, At, InstalledIsUsable, BuildKept, RunKept
    <2> QED
      BY <2>1, <2>2, <2>3, <2>4
  <1> QED
    BY <1>5, <1>6 DEF DataOK

LEMMA BuiltUnlessCurrent ==
    ASSUME Typed, NEW i \in Index \ {"doc_table"}, BuildUnlessCurrent(i)
    PROVE  /\ derived' \in [Index -> SUBSET Passages]
           /\ derived'[i] = derived["doc_table"]
           /\ \A j \in Index \ {i} : derived'[j] = derived[j]
           /\ \A j \in Index : derived'[j] = {} \/ \E s \in Passages : derived'[j] = {s}
  <1>1. /\ "doc_table" \in Index /\ derived["doc_table"] \in SUBSET Passages
        /\ derived["doc_table"] = {} \/ \E s \in Passages : derived["doc_table"] = {s}
    BY DEF Index, Typed, TypeOK
  <1>2. CASE derived[i] = derived["doc_table"]
    BY <1>2 DEF BuildUnlessCurrent, IsCurrent, Typed, TypeOK
  <1>3. CASE derived[i] # derived["doc_table"]
    <2>1. derived' = [derived EXCEPT ![i] = derived["doc_table"]]
      BY <1>3 DEF BuildUnlessCurrent, IsCurrent
    <2> QED
      BY <1>1, <2>1, Indexed
  <1> QED
    BY <1>2, <1>3

LEMMA BuildPhraseKeeps ==
    ASSUME Typed, DataOK, BuildPhrase, UNCHANGED <<machine, wish>>
    PROVE  Typed' /\ DataOK'
  <1>1. /\ At("phrase") /\ BuildKept /\ job'.at = "tfidf" /\ harm' = harm
        /\ BuildUnlessCurrent("phrase")
    BY StageNames, BuildStages, RunGoes DEF BuildPhrase
  <1>2. /\ derived' \in [Index -> SUBSET Passages]
        /\ derived'["phrase"] = derived["doc_table"]
        /\ derived'["doc_table"] = derived["doc_table"]
        /\ derived'["catalog"] = derived["catalog"]
        /\ derived'["tfidf"] = derived["tfidf"]
        /\ \A j \in Index : derived'[j] = {} \/ \E s \in Passages : derived'[j] = {s}
    BY <1>1, BuiltUnlessCurrent DEF Index
  <1>5. Typed'
    BY <1>1, <1>2 DEF Typed, TypeOK, At, BuildKept
  <1>6. ASSUME harm' < Spoiled PROVE (StoreOK /\ IndexesOK /\ RunOK /\ ProgramOK)'
    <2>0. StoreOK /\ IndexesOK /\ RunOK /\ ProgramOK
      BY <1>1, <1>6 DEF DataOK
    <2>t. derived["doc_table"] = {Root} /\ derived["catalog"] = {Root} /\ job.build
      BY <1>1, <2>0 DEF IndexesOK, At
    <2>1. StoreOK'
      BY <1>1, <2>0 DEF StoreOK, At, Extracting, Building, BuildKept
    <2>2. IndexesOK'
      BY <1>1, <1>2, <2>t, <2>0
      DEF IndexesOK, Steady, At, Extracting, Building, BuildKept, RunKept
    <2>3. RunOK'
      BY <1>1, <2>0, <2>t
      DEF RunOK, At, InstallStage, Extracting, Building, InitEndsReady, BuildKept, RunKept
    <2>4. ProgramOK'
      BY <1>1, <2>0 DEF ProgramOK, Gui, At, InstalledIsUsable, BuildKept, RunKept
    <2> QED
      BY <2>1, <2>2, <2>3, <2>4
  <1> QED
    BY <1>5, <1>6 DEF DataOK

LEMMA BuildTfidfKeeps ==
    ASSUME Typed, DataOK, BuildTfidf, UNCHANGED <<machine, wish>>
    PROVE  Typed' /\ DataOK'
  <1>1. /\ At("tfidf") /\ BuildKept /\ job'.at = "registry" /\ harm' = harm
        /\ BuildUnlessCurrent("tfidf")
    BY StageNames, BuildStages, RunGoes DEF BuildTfidf
  <1>2. /\ derived' \in [Index -> SUBSET Passages]
        /\ derived'["tfidf"] = derived["doc_table"]
        /\ derived'["doc_table"] = derived["doc_table"]
        /\ derived'["catalog"] = derived["catalog"]
        /\ derived'["phrase"] = derived["phrase"]
        /\ \A j \in Index : derived'[j] = {} \/ \E s \in Passages : derived'[j] = {s}
    BY <1>1, BuiltUnlessCurrent DEF Index
  <1>5. Typed'
    BY <1>1, <1>2 DEF Typed, TypeOK, At, BuildKept
  <1>6. ASSUME harm' < Spoiled PROVE (StoreOK /\ IndexesOK /\ RunOK /\ ProgramOK)'
    <2>0. StoreOK /\ IndexesOK /\ RunOK /\ ProgramOK
      BY <1>1, <1>6 DEF DataOK
    <2>t. derived["doc_table"] = {Root} /\ derived["catalog"] = {Root} /\ job.build /\ derived["phrase"] = {Root}
      BY <1>1, <2>0 DEF IndexesOK, At
    <2>1. StoreOK'
      BY <1>1, <2>0 DEF StoreOK, At, Extracting, Building, BuildKept
    <2>2. IndexesOK'
      <3>1. \A j \in Index : derived'[j] = {Root'}
        BY <1>1, <1>2, <2>t DEF Index, BuildKept
      <3>2. Ready'
        BY <1>1, <2>0, <3>1 DEF Ready, StoreOK, Building, BuildKept, Whole, Root, At
      <3> QED
        BY <1>1, <3>1, <3>2 DEF IndexesOK, Steady, At, Extracting, Building
    <2>3. RunOK'
      BY <1>1, <2>0, <2>t
      DEF RunOK, At, InstallStage, Extracting, Building, InitEndsReady, BuildKept, RunKept
    <2>4. ProgramOK'
      BY <1>1, <2>0 DEF ProgramOK, Gui, At, InstalledIsUsable, BuildKept, RunKept
    <2> QED
      BY <2>1, <2>2, <2>3, <2>4
  <1> QED
    BY <1>5, <1>6 DEF DataOK

-----------------------------------------------------------------------------
(* The uninstaller, the next version, and steps that leave all this alone.  *)

LEMMA UninstallKeeps ==
    ASSUME Typed, DataOK, Uninstall
    PROVE  Typed' /\ DataOK'
  <1>1. /\ Suffer(IF At("idle") THEN Untouched ELSE Spoiled) /\ DataKept
        /\ removal' = TRUE /\ UNCHANGED <<store, derived, archive, job, deaths, exe, wish>>
    BY DataUnchanged DEF Uninstall, window
  <1>2. /\ harm' \in Untouched .. Spoiled
        /\ harm' < Spoiled => harm < Spoiled /\ At("idle")
        /\ harm' <= Unlisted => harm <= Unlisted
    BY <1>1, Levels, Suffered
  <1>3. Typed'
    BY <1>1, <1>2 DEF Typed, TypeOK, At
  <1>4. ASSUME harm' < Spoiled PROVE (StoreOK /\ IndexesOK /\ RunOK /\ ProgramOK)'
    <2>0. StoreOK /\ IndexesOK /\ RunOK
      BY <1>2, <1>4 DEF DataOK
    <2>1. StoreOK' /\ IndexesOK'
      BY <1>1, <1>2, <1>4, <2>0
      DEF StoreOK, IndexesOK, Steady, At, DataKept, Extracting, Building
    <2>2. RunOK'
      BY <1>1, <1>2, <1>4, <2>0
      DEF RunOK, At, InstallStage, Extracting, Building, InitEndsReady
    <2>3. ProgramOK'
      BY <1>1, <1>2, <1>4 DEF ProgramOK, Gui, At, InstalledIsUsable
    <2> QED
      BY <2>1, <2>2, <2>3
  <1> QED
    BY <1>3, <1>4 DEF DataOK

LEMMA RemoveDirectoryKeeps ==
    ASSUME Typed, DataOK, RemoveDirectory
    PROVE  Typed' /\ DataOK'
  <1>1. /\ store' = [dir \in {"canonical", "raw"} |-> NoPassages]
        /\ derived' = NoIndexes /\ archive' = "none" /\ exe' = "none"
        /\ harm' = (IF At("idle") THEN Untouched ELSE Spoiled) /\ deaths' = deaths
    BY DEF RemoveDirectory
  <1>2. /\ job' \in Job /\ job'.at \notin {"unpack", "extract"}
        /\ At("idle") => job' = job
        /\ job'.at = "idle" => ~ job'.failed
    BY StageNames DEF RemoveDirectory, Typed, TypeOK, Job, At
  <1>3. NoPassages \in Passages /\ NoPassages.cbeta = "none"
    BY DEF NoPassages, Passages, Extent, Corpus
  <1>4. Typed'
    BY <1>1, <1>2, <1>3, Levels DEF Typed, TypeOK, At, NoIndexes
  <1>5. ASSUME harm' < Spoiled PROVE (StoreOK /\ IndexesOK /\ RunOK /\ ProgramOK)'
    <2>0. /\ job'.at = "idle" /\ ~ Present' /\ ~ Exists("raw")'
      BY <1>1, <1>2, <1>3, <1>5, Levels DEF At, Present, Exists
    <2>1. StoreOK' /\ IndexesOK'
      BY <2>0 DEF StoreOK, IndexesOK, Steady, At, Extracting, Building
    <2>2. RunOK'
      <3>1. ~ job'.failed
        BY <2>0, <1>4 DEF Typed, At
      <3> QED
        BY <2>0, <3>1 DEF RunOK, At, InstallStage, Extracting, Building, InitEndsReady
    <2>3. ProgramOK'
      BY <1>1, <2>0 DEF ProgramOK, Gui, At, InstalledIsUsable
    <2> QED
      BY <2>1, <2>2, <2>3
  <1> QED
    BY <1>4, <1>5 DEF DataOK

LEMMA NextVersionKeeps ==
    ASSUME Typed, DataOK, NextVersion
    PROVE  Typed' /\ DataOK'
  <1>1. /\ exe' = "old" /\ At("idle") /\ DataKept
        /\ UNCHANGED <<store, derived, archive, job, harm, deaths, shortcuts, entry, removal, wish>>
    BY DataUnchanged DEF NextVersion, vars, window
  <1>2. Typed'
    BY <1>1 DEF Typed, TypeOK, At
  <1>3. ASSUME harm' < Spoiled PROVE (StoreOK /\ IndexesOK /\ RunOK /\ ProgramOK)'
    <2>0. StoreOK /\ IndexesOK /\ RunOK
      BY <1>1, <1>3 DEF DataOK
    <2>1. StoreOK' /\ IndexesOK'
      BY <1>1, <2>0 DEF StoreOK, IndexesOK, Steady, At, DataKept, Extracting, Building
    <2>2. RunOK'
      BY <1>1, <2>0 DEF RunOK, At, InstallStage, Extracting, Building, InitEndsReady
    <2>3. ProgramOK'
      BY <1>1 DEF ProgramOK, Gui, At, InstalledIsUsable
    <2> QED
      BY <2>1, <2>2, <2>3
  <1> QED
    BY <1>2, <1>3 DEF DataOK

\* What is wished for counts only while it is being installed.
LEMMA StillKeeps ==
    ASSUME Typed, DataOK, UNCHANGED <<vars, machine>>, wish' = wish \/ At("idle")
    PROVE  Typed' /\ DataOK'
  <1>1. /\ UNCHANGED <<store, derived, archive, job, harm, deaths, exe, shortcuts, entry, removal>>
        /\ DataKept
    BY DataUnchanged DEF vars, machine
  <1>2. Typed'
    BY <1>1 DEF Typed, TypeOK, At
  <1>3. ASSUME harm' < Spoiled PROVE (StoreOK /\ IndexesOK /\ RunOK /\ ProgramOK)'
    <2>0. StoreOK /\ IndexesOK /\ RunOK /\ ProgramOK
      BY <1>1, <1>3 DEF DataOK
    <2>1. StoreOK' /\ IndexesOK'
      BY <1>1, <2>0 DEF StoreOK, IndexesOK, Steady, At, DataKept, Extracting, Building
    <2>2. RunOK'
      BY <1>1, <2>0
      DEF RunOK, At, InstallStage, Extracting, Building, InitEndsReady, DataKept
    <2>3. ProgramOK'
      <3>1. CASE wish' = wish
        BY <1>1, <2>0, <3>1 DEF ProgramOK, Gui, At, InstalledIsUsable, Usable, DataKept
      <3>2. CASE At("idle")
        BY <1>1, <2>0, <3>2 DEF ProgramOK, Gui, At, InstalledIsUsable
      <3> QED
        BY <3>1, <3>2
    <2> QED
      BY <2>1, <2>2, <2>3
  <1> QED
    BY <1>2, <1>3 DEF DataOK

-----------------------------------------------------------------------------
(* What is told.                                                           *)

LEMMA MappedIs == Mapped(100) = 176 /\ Mapped(350) = 366 /\ Mapped(480) = 464
                  /\ Mapped(560) = 525 /\ Mapped(680) = 616 /\ Mapped(850) = 746
                  /\ Mapped(1000) = 860
  BY DEF Mapped

LEMMA Reports ==
    \A stage \in DOMAIN Report : Report[stage] \in 0 .. 999
  BY MappedIs DEF Report

LEMMA StepsAreEvents ==
    /\ \A s \in Seq(StepEvent) : s \in Seq(Event)
    /\ \A to \in 0 .. 1000 : Step(to) \in StepEvent
    /\ \A ok \in BOOLEAN : Ended(ok) \in Event
    /\ <<>> \in Seq(StepEvent)
  <1>1. StepEvent \subseteq Event
    BY DEF StepEvent, Event
  <1>2. \A s \in Seq(StepEvent) : s \in Seq(Event)
    BY <1>1
  <1> QED
    BY <1>2 DEF Step, Ended, StepEvent, Event

LEMMA Joined ==
    ASSUME NEW S, NEW s \in Seq(S), NEW t \in Seq(S)
    PROVE  s \o t \in Seq(S)
  OBVIOUS

\* A step tells of itself when it is the last, and of the step that comes next.
NextReport == IF job'.at \in DOMAIN Report THEN <<Step(Report[job'.at])>> ELSE <<>>

LEMMA ToldAreSteps == LastReport \in Seq(StepEvent) /\ NextReport \in Seq(StepEvent)
  <1>1. LastReport \in Seq(StepEvent)
    <2>1. CASE At("registry")
      BY <2>1, StepsAreEvents, MappedIs DEF LastReport, At
    <2>2. CASE At("register")
      BY <2>2, StepsAreEvents DEF LastReport, At
    <2>3. CASE ~ At("registry") /\ ~ At("register")
      BY <2>3, StepsAreEvents DEF LastReport, At
    <2> QED
      BY <2>1, <2>2, <2>3
  <1>2. NextReport \in Seq(StepEvent)
    <2>1. CASE job'.at \in DOMAIN Report
      <3>1. PICK to \in 0 .. 1000 : Report[job'.at] = to
        BY <2>1, Reports
      <3>2. NextReport = <<Step(to)>> /\ Step(to) \in StepEvent
        BY <2>1, <3>1, StepsAreEvents DEF NextReport
      <3> QED
        BY <3>2
    <2>2. CASE job'.at \notin DOMAIN Report
      BY <2>2 DEF NextReport
    <2> QED
      BY <2>1, <2>2
  <1> QED
    BY <1>1, <1>2

LEMMA Tells ==
    ASSUME Gui, queue \in Seq(StepEvent), Tell
    PROVE  queue' \in Seq(StepEvent)
  <1>1. queue' = queue \/ queue' = (queue \o LastReport) \o NextReport
    BY DEF Tell, NextReport
  <1>2. queue \o LastReport \in Seq(StepEvent)
    BY ToldAreSteps, Joined
  <1>3. (queue \o LastReport) \o NextReport \in Seq(StepEvent)
    BY <1>2, ToldAreSteps, Joined
  <1> QED
    BY <1>1, <1>3
-----------------------------------------------------------------------------
(* The steps of the window and of the thread, and what else there is.      *)

\* A step of the code both share goes on with the run that is on.
LEMMA PackStepKeeps ==
    ASSUME Typed, DataOK, PackStep, UNCHANGED <<machine, wish>>
    PROVE  /\ Typed' /\ DataOK'
           /\ job'.by = job.by /\ job.at # "idle" /\ job'.at # "idle"
  <1>0. job \in Job
    BY DEF Typed, TypeOK
  <1>1. CASE FromPack
    BY <1>0, <1>1, FromPackKeeps DEF FromPack, At, Goto, Job, AfterPack
  <1>2. CASE Download
    BY <1>0, <1>2, DownloadKeeps DEF Download, At, Goto, Job
  <1>3. CASE Fetched
    BY <1>0, <1>3, FetchedKeeps DEF Fetched, At, Goto, Job
  <1>4. CASE StartUnpack
    BY <1>0, <1>4, StartUnpackKeeps DEF StartUnpack, At, Goto, Job
  <1>5. CASE EndUnpack
    BY <1>0, <1>5, EndUnpackKeeps DEF EndUnpack, At, Job
  <1>6. CASE RenameRaw
    BY <1>0, <1>6, RenameRawKeeps DEF RenameRaw, At, Goto, Job
  <1>7. CASE BuildTable
    BY <1>0, <1>7, BuildTableKeeps DEF BuildTable, At, Goto, Job
  <1>8. CASE BuildCatalog
    BY <1>0, <1>8, BuildCatalogKeeps DEF BuildCatalog, At, Goto, Job
  <1>9. CASE BuildPhrase
    BY <1>0, <1>9, BuildPhraseKeeps DEF BuildPhrase, At, Goto, Job
  <1>10. CASE BuildTfidf
    BY <1>0, <1>10, BuildTfidfKeeps DEF BuildTfidf, At, Goto, Job
  <1>11. CASE InitRegistry
    BY <1>0, <1>11, InitRegistryKeeps DEF InitRegistry, At, Goto, Job
  <1>12. CASE Clean
    BY <1>0, <1>12, CleanKeeps DEF Clean, At, Goto, Job, AfterPack
  <1>13. CASE Fail
    BY <1>0, <1>13, FailKeeps DEF Fail, At, Job
  <1> QED
    BY <1>1, <1>2, <1>3, <1>4, <1>5, <1>6, <1>7, <1>8, <1>9, <1>10, <1>11, <1>12, <1>13
    DEF PackStep

\* A step of the installer's own.
OwnStep == \/ CheckInstalled \/ ExtractPayload \/ InstallOpenCode \/ CreateShortcuts
           \/ Register \/ FailInstall

LEMMA OwnStepKeeps ==
    ASSUME InstallerTypeOK, Typed, DataOK, OwnStep, UNCHANGED wish
    PROVE  /\ Typed' /\ DataOK'
           /\ job'.by = job.by /\ job.at # "idle" /\ job'.at # "idle"
           /\ shortcuts' \subseteq Wishes /\ exe' \in {"none", "torn", "old", "new"}
           /\ opencode' \in BOOLEAN /\ entry' \in BOOLEAN /\ removal' = removal
  <1>0. job \in Job /\ shortcuts \subseteq Wishes /\ wish \subseteq Wishes
        /\ exe \in {"none", "torn", "old", "new"} /\ opencode \in BOOLEAN /\ entry \in BOOLEAN
    BY DEF Typed, TypeOK, InstallerTypeOK
  <1>1. CASE CheckInstalled
    BY <1>0, <1>1, CheckInstalledKeeps DEF CheckInstalled, At, Goto, Job, machine
  <1>2. CASE ExtractPayload
    BY <1>0, <1>2, ExtractPayloadKeeps DEF ExtractPayload, At, Goto, Job
  <1>3. CASE InstallOpenCode
    BY <1>0, <1>3, InstallOpenCodeKeeps DEF InstallOpenCode, At, Goto, Job
  <1>4. CASE CreateShortcuts
    BY <1>0, <1>4, CreateShortcutsKeeps DEF CreateShortcuts, At, Goto, Job
  <1>5. CASE Register
    BY <1>0, <1>5, RegisterKeeps DEF Register, At, Goto, Job
  <1>6. CASE FailInstall
    BY <1>0, <1>6, FailInstallKeeps DEF FailInstall, Left, At, Job
  <1> QED
    BY <1>1, <1>2, <1>3, <1>4, <1>5, <1>6 DEF OwnStep

LEMMA StartInstallTypes ==
    ASSUME DataRootInv, NEW shortcut \in SUBSET Wishes, NEW build \in BOOLEAN,
           StartInstall(shortcut, build)
    PROVE  DataRootInv'
  <1>1. Typed' /\ DataOK'
    BY StartInstallKeeps DEF DataRootInv
  <1>2. /\ phase' = "Installing" /\ bar' = 0 /\ wish' = shortcut /\ UNCHANGED <<received, machine>>
        /\ queue' = <<Step(Report["check"])>>
    BY DEF StartInstall
  <1>3. Report["check"] = 10
    BY DEF Report
  <1>4. queue' \in Seq(StepEvent)
    BY <1>2, <1>3, StepsAreEvents
  <1>s. queue' \in Seq(Event)
    BY <1>4, StepsAreEvents
  <1>5. /\ bar' \in 0 .. 1000 /\ queue' \in Seq(Event) /\ wish' \subseteq Wishes
    BY <1>2, <1>s
  <1>6. InstallerTypeOK'
    BY <1>1, <1>2, <1>5 DEF DataRootInv, InstallerTypeOK, Typed, machine
  <1> QED
    BY <1>1, <1>4, <1>6 DEF DataRootInv, QueueOK

\* A step of the window that leaves the data root and the program alone.
LEMMA WindowTypes ==
    ASSUME DataRootInv, RefusePath \/ ApplyEvent \/ Reopen
    PROVE  DataRootInv'
  <1>0. /\ UNCHANGED <<vars, machine, received>>
        /\ wish' = wish \/ (At("idle") /\ wish' = {})
        /\ At("idle") => ~ Gui
        /\ Gui' <=> Gui
    BY DEF RefusePath, ApplyEvent, Reopen, Gui, At, vars
  <1>1. Typed' /\ DataOK'
    BY <1>0, StillKeeps DEF DataRootInv
  <1>2. CASE RefusePath
    BY <1>0, <1>1, <1>2
    DEF RefusePath, DataRootInv, InstallerTypeOK, QueueOK, Typed, machine
  <1>3. CASE Reopen
    BY <1>0, <1>1, <1>3 DEF Reopen, DataRootInv, InstallerTypeOK, QueueOK, Typed, machine
  <1>4. CASE ApplyEvent
    <2>1. queue \in Seq(Event) /\ queue # <<>> /\ queue' = Tail(queue) /\ wish' = wish
          /\ phase = "Installing" /\ bar \in 0 .. 1000
      BY <1>4 DEF ApplyEvent, DataRootInv, InstallerTypeOK
    <2>2. Head(queue) \in Event /\ queue' \in Seq(Event)
      BY <2>1
    <2>3. Gui => Head(queue).kind = "step" /\ queue' \in Seq(StepEvent)
      <3>1. ASSUME Gui PROVE Head(queue) \in StepEvent /\ Tail(queue) \in Seq(StepEvent)
        BY <2>1, <3>1 DEF DataRootInv, QueueOK
      <3> QED
        BY <2>1, <3>1 DEF StepEvent
    <2>4. /\ bar' \in 0 .. 1000
          /\ phase' \in {"Installing", "Complete", "Failed"}
          /\ Head(queue).kind = "step" => phase' = "Installing"
      <3>0. Head(queue).kind \in {"step", "ok", "error"} /\ Head(queue).to \in 0 .. 1000
        BY <2>2 DEF Event
      <3>1. CASE Head(queue).kind = "step"
        <4>1. bar' = Shown(Head(queue).to) /\ phase' = phase
          BY <1>4, <3>1 DEF ApplyEvent
        <4> QED
          BY <2>1, <3>0, <3>1, <4>1 DEF Shown
      <3>2. CASE Head(queue).kind = "ok"
        <4>1. bar' = 1000 /\ phase' = "Complete"
          BY <1>4, <3>2 DEF ApplyEvent
        <4> QED
          BY <3>2, <4>1
      <3>3. CASE Head(queue).kind = "error"
        BY <1>4, <2>1, <3>3 DEF ApplyEvent
      <3> QED
        BY <3>0, <3>1, <3>2, <3>3
    <2>5. InstallerTypeOK'
      BY <1>0, <1>1, <2>1, <2>2, <2>3, <2>4 DEF DataRootInv, InstallerTypeOK, Typed, machine
    <2> QED
      BY <1>0, <1>1, <2>3, <2>5 DEF DataRootInv, QueueOK
  <1> QED
    BY <1>2, <1>3, <1>4

LEMMA ThreadTypes ==
    ASSUME DataRootInv, ThreadStep
    PROVE  DataRootInv'
  <1>0. Gui /\ phase = "Installing" /\ queue \in Seq(StepEvent) /\ Typed /\ DataOK
    BY DEF ThreadStep, DataRootInv, QueueOK, InstallerTypeOK
  <1>1. CASE /\ (PackStep /\ UNCHANGED machine) \/ OwnStep
             /\ Tell /\ UNCHANGED <<phase, bar, wish, received>>
    <2>1. /\ Typed' /\ DataOK'
          /\ job'.by = job.by /\ job'.at # "idle"
          /\ shortcuts' \subseteq Wishes /\ exe' \in {"none", "torn", "old", "new"}
          /\ opencode' \in BOOLEAN /\ entry' \in BOOLEAN /\ removal' \in BOOLEAN
      <3>1. CASE PackStep /\ UNCHANGED machine
        BY <1>0, <1>1, <3>1, PackStepKeeps DEF DataRootInv, InstallerTypeOK, machine
      <3>2. CASE OwnStep
        <4>1. InstallerTypeOK /\ removal \in BOOLEAN
          BY DEF DataRootInv, InstallerTypeOK
        <4> QED
          BY <1>0, <1>1, <3>2, <4>1, OwnStepKeeps
      <3> QED
        BY <1>1, <3>1, <3>2
    <2>2. queue' \in Seq(StepEvent) /\ queue' \in Seq(Event)
      BY <1>0, <1>1, Tells, StepsAreEvents
    <2>3. InstallerTypeOK'
      BY <1>0, <1>1, <2>1, <2>2 DEF DataRootInv, InstallerTypeOK, Typed
    <2> QED
      BY <2>1, <2>2, <2>3 DEF DataRootInv, QueueOK
  <1>2. CASE Receive
    <2>1. /\ UNCHANGED <<vars, machine>> /\ UNCHANGED <<phase, bar, wish>> /\ received' = TRUE
          /\ \E to \in {100, 350} : queue' = Append(queue, Step(to))
      BY <1>2 DEF Receive
    <2>2. Typed' /\ DataOK'
      BY <1>0, <2>1, StillKeeps
    <2>3. queue' \in Seq(StepEvent) /\ queue' \in Seq(Event)
      <3>1. PICK to \in {100, 350} : queue' = Append(queue, Step(to))
        BY <2>1
      <3>2. Step(to) \in StepEvent
        BY DEF Step, StepEvent
      <3>3. queue' \in Seq(StepEvent)
        BY <1>0, <3>1, <3>2
      <3> QED
        BY <3>3, StepsAreEvents
    <2>4. InstallerTypeOK'
      BY <1>0, <2>1, <2>2, <2>3 DEF DataRootInv, InstallerTypeOK, Typed, machine
    <2> QED
      BY <2>2, <2>3, <2>4 DEF DataRootInv, QueueOK
  <1>3. CASE EndThread
    <2>1. /\ Return /\ UNCHANGED <<phase, bar, wish, machine>> /\ received' = FALSE
          /\ queue' = Append(queue, Ended(~ job.failed))
      BY <1>3 DEF EndThread
    <2>2. Typed' /\ DataOK'
      BY <1>0, <2>1, ReturnKeeps
    <2>3. ~ Gui'
      BY <2>1, IdleRun DEF Return, Gui, At
    <2>4. queue' \in Seq(Event)
      <3>1. queue \in Seq(Event) /\ Ended(~ job.failed) \in Event
        BY <1>0, StepsAreEvents
      <3> QED
        BY <2>1, <3>1
    <2>5. InstallerTypeOK'
      BY <2>1, <2>2, <2>3, <2>4 DEF DataRootInv, InstallerTypeOK, Typed, machine
    <2> QED
      BY <2>2, <2>3, <2>5 DEF DataRootInv, QueueOK
  <1> QED
    BY <1>1, <1>2, <1>3 DEF ThreadStep, OwnStep

LEMMA DieInstallingTypes ==
    ASSUME DataRootInv, DieInstalling
    PROVE  DataRootInv'
  <1>1. /\ Die /\ UNCHANGED <<entry, removal>> /\ UNCHANGED <<opencode, shortcuts>>
        /\ phase' = "Ready" /\ bar' = 0 /\ queue' = <<>> /\ wish' = {} /\ received' = FALSE
        /\ exe' \in Left
    BY DEF DieInstalling
  <1>2. exe' = "new" => exe = "new" \/ At("payload")
    BY <1>1 DEF Left
  <1>3. Typed' /\ DataOK'
    BY <1>1, <1>2, DieKeeps DEF DataRootInv
  <1>4. ~ Gui'
    BY <1>1, IdleRun DEF Die, Gui, At
  <1>5. queue' \in Seq(Event)
    BY <1>1
  <1>b. bar' \in 0 .. 1000
    BY <1>1
  <1>r. received' \in BOOLEAN
    BY <1>1
  <1>e. exe' \in {"none", "torn", "old", "new"}
    BY <1>1 DEF Left, DataRootInv, InstallerTypeOK
  <1>w. wish' \subseteq Wishes
    BY <1>1
  <1>6. InstallerTypeOK'
    BY <1>1, <1>3, <1>4, <1>5, <1>b, <1>e, <1>r, <1>w
    DEF DataRootInv, InstallerTypeOK, Typed
  <1> QED
    BY <1>3, <1>4, <1>6 DEF DataRootInv, QueueOK

LEMMA UninstallerTypes ==
    ASSUME DataRootInv, Uninstall \/ RemoveDirectory \/ NextVersion
    PROVE  DataRootInv'
  <1>1. Typed' /\ DataOK'
    BY UninstallKeeps, RemoveDirectoryKeeps, NextVersionKeeps DEF DataRootInv
  <1>2. /\ UNCHANGED <<phase, bar, queue, wish>> /\ received' = received
        /\ opencode' = opencode
    BY DEF Uninstall, RemoveDirectory, NextVersion, window
  <1>3. Gui' <=> Gui
    <2>0. job \in Job
      BY DEF DataRootInv, Typed, TypeOK
    <2>1. CASE Uninstall \/ NextVersion
      BY <2>1 DEF Uninstall, NextVersion, Gui, At, vars
    <2>2. CASE RemoveDirectory
      BY <2>0, <2>2 DEF RemoveDirectory, Gui, At, Job
    <2> QED
      BY <2>1, <2>2
  <1>4. /\ exe' \in {"none", "torn", "old", "new"} /\ shortcuts' \subseteq Wishes
        /\ entry' \in BOOLEAN /\ removal' \in BOOLEAN
    BY DEF Uninstall, RemoveDirectory, NextVersion, DataRootInv, InstallerTypeOK
  <1>5. InstallerTypeOK'
    BY <1>1, <1>2, <1>3, <1>4 DEF DataRootInv, InstallerTypeOK, Typed
  <1> QED
    BY <1>1, <1>2, <1>3, <1>5 DEF DataRootInv, QueueOK

\* What is done while the window is open or not, and leaves it and the program alone.
LEMMA OthersTypes ==
    ASSUME DataRootInv, Cli \/ Others, UNCHANGED <<window, received, machine>>
    PROVE  DataRootInv'
  <1>0. /\ Typed /\ DataOK /\ InstallerTypeOK /\ QueueOK /\ job \in Job
        /\ UNCHANGED <<machine, wish>> /\ UNCHANGED machine
        /\ UNCHANGED <<entry, removal>> /\ UNCHANGED exe
    BY DEF DataRootInv, Typed, TypeOK, window, machine
  <1>1. CASE Cli
    <2>0. ~ Gui
      BY <1>1 DEF Cli
    <2>1. Typed' /\ DataOK' /\ (job'.by = "cli" \/ job'.at = "idle")
      <3>1. CASE Begin
        <4>1. PICK force \in BOOLEAN, raw \in BOOLEAN, layout \in Layouts :
                       StartInit(force, raw, layout)
          BY <3>1 DEF Begin
        <4> QED
          BY <1>0, <4>1, StartInitKeeps, IdleRun DEF StartInit, Idle
      <3>2. CASE Look
        BY <1>0, <2>0, <3>2, LookKeeps DEF Look, Goto, At, Gui, Job
      <3>3. CASE IngestRaw
        BY <1>0, <2>0, <3>3, IngestRawKeeps DEF IngestRaw, At, Gui, Job
      <3>4. CASE PackStep
        BY <1>0, <2>0, <3>4, PackStepKeeps DEF At, Gui, Job
      <3>5. CASE Return
        BY <1>0, <3>5, ReturnKeeps, IdleRun DEF Return
      <3>6. CASE Die
        BY <1>0, <2>0, <3>6, DieKeeps, IdleRun DEF Die
      <3> QED
        BY <1>1, <3>1, <3>2, <3>3, <3>4, <3>5, <3>6 DEF Cli
    <2>2. ~ Gui'
      BY <2>1 DEF Gui, At
    <2>3. InstallerTypeOK'
      BY <1>0, <2>1, <2>2 DEF InstallerTypeOK, Typed, window, machine
    <2> QED
      BY <2>1, <2>2, <2>3 DEF DataRootInv, QueueOK
  <1>2. CASE Others
    <2>1. Typed' /\ DataOK' /\ job' = job
      <3>1. CASE Status
        BY <1>0, <3>1, StatusKeeps DEF Status
      <3>2. CASE IngestOther
        BY <1>0, <3>2, IngestOtherKeeps DEF IngestOther
      <3>3. CASE \E all \in BOOLEAN : IndexOther(all)
        <4>1. PICK all \in BOOLEAN : IndexOther(all)
          BY <3>3
        <4> QED
          BY <1>0, <4>1, IndexOtherKeeps DEF IndexOther
      <3> QED
        BY <1>2, <3>1, <3>2, <3>3 DEF Others
    <2>2. Gui' <=> Gui
      BY <2>1 DEF Gui, At
    <2>3. InstallerTypeOK'
      BY <1>0, <2>1, <2>2 DEF InstallerTypeOK, Typed, window, machine
    <2> QED
      BY <1>0, <2>1, <2>2, <2>3 DEF DataRootInv, QueueOK, window
  <1> QED
    BY <1>1, <1>2

-----------------------------------------------------------------------------
(* The invariant, and what it implies.                                     *)

LEMMA InitDataRootInv ==
    ASSUME InstallerInit
    PROVE  DataRootInv
  <1>1. /\ store = [dir \in {"canonical", "raw"} |-> NoPassages] /\ derived = NoIndexes
        /\ archive = "none" /\ job = Idle /\ harm = Untouched /\ deaths = 0
        /\ phase = "Ready" /\ bar = 0 /\ queue = <<>> /\ wish = {} /\ received = FALSE
        /\ exe = "none" /\ opencode \in BOOLEAN /\ shortcuts = {} /\ entry = FALSE
        /\ removal = FALSE
    BY DEF InstallerInit, Init
  <1>2. NoPassages \in Passages /\ NoPassages.cbeta = "none"
    BY DEF NoPassages, Passages, Extent, Corpus
  <1>3. ~ Present /\ ~ Exists("raw") /\ At("idle") /\ ~ Gui
    BY <1>1, <1>2, IdleRun DEF Present, Exists, At, Gui
  <1>4. Typed
    BY <1>1, <1>2, IdleRun, Levels, DeathAssumption DEF Typed, TypeOK, NoIndexes, At
  <1>5. StoreOK /\ IndexesOK
    BY <1>3 DEF StoreOK, IndexesOK, Steady, At, Extracting, Building
  <1>6. RunOK
    BY <1>1, <1>3, IdleRun DEF RunOK, At, InstallStage, Extracting, Building, InitEndsReady
  <1>7. ProgramOK
    BY <1>1, <1>3 DEF ProgramOK, Gui, At, InstalledIsUsable
  <1>8. queue \in Seq(Event)
    BY <1>1
  <1>r. received \in BOOLEAN
    BY <1>1
  <1>b. bar \in 0 .. 1000
    BY <1>1
  <1>w. shortcuts \subseteq Wishes /\ wish \subseteq Wishes
    BY <1>1
  <1>9. InstallerTypeOK
    BY <1>1, <1>3, <1>4, <1>8, <1>b, <1>r, <1>w DEF InstallerTypeOK, Typed
  <1> QED
    BY <1>3, <1>4, <1>5, <1>6, <1>7, <1>9 DEF DataRootInv, QueueOK, DataOK

LEMMA InstallerNextKeeps ==
    ASSUME DataRootInv, [InstallerNext]_installerVars
    PROVE  DataRootInv'
  <1>1. CASE \E shortcut \in SUBSET Wishes, build \in BOOLEAN : StartInstall(shortcut, build)
    BY <1>1, StartInstallTypes
  <1>2. CASE RefusePath \/ ApplyEvent \/ Reopen
    BY <1>2, WindowTypes
  <1>3. CASE ThreadStep
    BY <1>3, ThreadTypes
  <1>4. CASE DieInstalling
    BY <1>4, DieInstallingTypes
  <1>5. CASE Uninstall \/ RemoveDirectory \/ NextVersion
    BY <1>5, UninstallerTypes
  <1>6. CASE (Cli \/ Others) /\ UNCHANGED <<window, received, machine>>
    BY <1>6, OthersTypes
  <1>7. CASE UNCHANGED installerVars
    <2>1. /\ UNCHANGED <<vars, machine>> /\ wish' = wish
          /\ UNCHANGED <<phase, bar, queue>> /\ UNCHANGED received
          /\ Gui' <=> Gui
      BY <1>7 DEF installerVars, window, vars, Gui, At
    <2>2. Typed' /\ DataOK'
      BY <2>1, StillKeeps DEF DataRootInv
    <2>3. InstallerTypeOK'
      BY <2>1, <2>2 DEF DataRootInv, InstallerTypeOK, Typed, machine
    <2> QED
      BY <2>1, <2>2, <2>3 DEF DataRootInv, QueueOK
  <1> QED
    BY <1>1, <1>2, <1>3, <1>4, <1>5, <1>6, <1>7 DEF InstallerNext

\* The data root, the run that is on, the program and the queue, at every moment.
THEOREM InstallerInvariant == InstallerSpec => []DataRootInv
  <1>1. InstallerInit => DataRootInv
    BY InitDataRootInv
  <1>2. DataRootInv /\ [InstallerNext]_installerVars => DataRootInv'
    BY InstallerNextKeeps
  <1> QED
    BY <1>1, <1>2, PTL DEF InstallerSpec

\* Types, and that the thread runs only while the window says that it installs.
THEOREM InstallerTypes == InstallerSpec => []InstallerTypeOK
  <1>1. DataRootInv => InstallerTypeOK
    BY DEF DataRootInv
  <1> QED
    BY <1>1, InstallerInvariant, PTL

\* Whatever runs failed or died before it, in the download, among the indexes or after
\* them: an init that reports success leaves the whole corpus under four indexes
\* of what is in the store (init.rs:11-12).
THEOREM InitEndsReadyHolds == InstallerSpec => []InitEndsReady
  <1>1. DataRootInv => InitEndsReady
    BY Levels DEF DataRootInv, DataOK, RunOK, InitEndsReady, Typed, TypeOK
  <1> QED
    BY <1>1, InstallerInvariant, PTL

\* An installation that ends well has installed this version and the shortcuts asked for, and the
\* corpus, where no run ended in the extraction or among indexes that replaced older ones; with
\* the indexes of it, where none ended among indexes at all; and listed, where none ended once the
\* program was being put there.  Of the corpus it says nothing where another is in the store.
THEOREM InstalledIsUsableHolds == InstallerSpec => []InstalledIsUsable
  <1>1. DataRootInv => InstalledIsUsable
    BY Levels DEF DataRootInv, DataOK, ProgramOK, InstalledIsUsable, Typed, TypeOK
  <1> QED
    BY <1>1, InstallerInvariant, PTL

-----------------------------------------------------------------------------
(* The bar of the window.                                                  *)

\* The report that fills the bar is the last of an installation that ends well, and
\* but for it nothing is left to be shown when the bar is full.
BarOK ==
    /\ phase \in {"Ready", "Failed"} => bar < 1000
    /\ Gui =>
          /\ \A k \in DOMAIN queue :
                queue[k].to = 1000 => k = Len(queue) /\ At("end") /\ ~ job.failed
          /\ bar = 1000 => Len(queue) = 0 /\ At("end") /\ ~ job.failed
    /\ phase = "Installing" /\ ~ Gui =>
          /\ Len(queue) > 0 /\ queue[Len(queue)].kind # "step"
          /\ \A k \in 1 .. Len(queue) - 1 :
                /\ queue[k].kind = "step"
                /\ queue[k].to = 1000 => k = Len(queue) - 1 /\ queue[Len(queue)].kind = "ok"
          /\ bar = 1000 => Len(queue) = 1 /\ queue[1].kind = "ok"

\* A step that is not the last tells of less than all.
LEMMA TellsLess ==
    ASSUME ~ At("register"), NEW k \in DOMAIN (LastReport \o NextReport)
    PROVE  (LastReport \o NextReport)[k].to < 1000
  <1>1. \A j \in DOMAIN LastReport : LastReport[j].to < 1000
    <2>1. CASE At("registry")
      BY <2>1, MappedIs DEF LastReport, At, Step
    <2>2. CASE ~ At("registry")
      BY <2>2 DEF LastReport, At
    <2> QED
      BY <2>1, <2>2
  <1>2. \A j \in DOMAIN NextReport : NextReport[j].to < 1000
    <2>1. CASE job'.at \in DOMAIN Report
      <3>1. PICK to \in 0 .. 999 : Report[job'.at] = to
        BY <2>1, Reports
      <3>2. NextReport = <<Step(to)>> /\ Step(to).to = to
        BY <2>1, <3>1 DEF NextReport, Step
      <3> QED
        BY <3>2
    <2>2. CASE job'.at \notin DOMAIN Report
      BY <2>2 DEF NextReport
    <2> QED
      BY <2>1, <2>2
  <1> QED
    BY <1>1, <1>2, ToldAreSteps

LEMMA Placed ==
    ASSUME NEW S, NEW s \in Seq(S), NEW t \in Seq(S), NEW u \in Seq(S),
           NEW k \in DOMAIN ((s \o t) \o u)
    PROVE  \/ k \in DOMAIN s /\ ((s \o t) \o u)[k] = s[k]
           \/ k - Len(s) \in DOMAIN (t \o u) /\ ((s \o t) \o u)[k] = (t \o u)[k - Len(s)]
  <1>1. s \o t \in Seq(S) /\ t \o u \in Seq(S)
    BY Joined
  <1>2. k \in 1 .. Len(s) + Len(t) + Len(u) /\ Len(s \o t) = Len(s) + Len(t)
    BY <1>1
  <1>3. CASE k <= Len(s)
    BY <1>1, <1>2, <1>3
  <1>4. CASE k > Len(s) /\ k <= Len(s) + Len(t)
    BY <1>1, <1>2, <1>4
  <1>5. CASE k > Len(s) + Len(t)
    BY <1>1, <1>2, <1>5
  <1> QED
    BY <1>2, <1>3, <1>4, <1>5

LEMMA TellsBar ==
    ASSUME DataRootInv, BarOK, Gui, Tell, UNCHANGED <<phase, bar>>,
           job.at # "end", job'.by = job.by, job'.at # "idle",
           At("register") => job'.failed \/ job'.at = "end"
    PROVE  BarOK'
  <1>0. /\ Gui' /\ phase = "Installing" /\ phase' = phase /\ bar' = bar /\ bar # 1000
        /\ queue \in Seq(StepEvent)
        /\ \A k \in DOMAIN queue : queue[k].to # 1000
    BY DEF Gui, At, BarOK, DataRootInv, InstallerTypeOK, QueueOK
  <1>1. CASE job'.failed
    <2>1. queue' = queue
      BY <1>1 DEF Tell
    <2> QED
      BY <1>0, <2>1 DEF BarOK
  <1>2. CASE ~ job'.failed /\ ~ At("register")
    <2>1. queue' = (queue \o LastReport) \o NextReport
      BY <1>2 DEF Tell, NextReport
    <2>2. ASSUME NEW k \in DOMAIN queue' PROVE queue'[k].to # 1000
      <3> DEFINE said == LastReport \o NextReport
      <3>1. \A j \in DOMAIN said : said[j].to < 1000
        BY <1>2, TellsLess
      <3>2. \/ k \in DOMAIN queue /\ queue'[k] = queue[k]
            \/ \E j \in DOMAIN said : queue'[k] = said[j]
        <4>1. k \in DOMAIN ((queue \o LastReport) \o NextReport)
          BY <2>1, <2>2
        <4>2. \/ k \in DOMAIN queue /\ queue'[k] = queue[k]
              \/ k - Len(queue) \in DOMAIN said /\ queue'[k] = said[k - Len(queue)]
          BY <1>0, <2>1, <4>1, ToldAreSteps, Placed
        <4> QED
          BY <4>2
      <3> QED
        BY <1>0, <3>1, <3>2
    <2> QED
      BY <1>0, <2>2 DEF BarOK
  <1>3. CASE ~ job'.failed /\ At("register")
    <2>1. LastReport = <<Step(1000)>>
      BY <1>3 DEF LastReport, At
    <2>2. NextReport = <<>>
      BY <1>3 DEF NextReport, Report
    <2>3. queue' = (queue \o LastReport) \o NextReport
      BY <1>3 DEF Tell, NextReport
    <2>4. queue' = Append(queue, Step(1000))
      BY <1>0, <2>1, <2>2, <2>3
    <2>5. \A k \in DOMAIN queue' : queue'[k].to = 1000 => k = Len(queue')
      BY <1>0, <2>4
    <2> QED
      BY <1>0, <1>3, <2>5 DEF BarOK, At
  <1> QED
    BY <1>1, <1>2, <1>3

LEMMA ApplyBar ==
    ASSUME DataRootInv, BarOK, ApplyEvent
    PROVE  BarOK'
  <1>0. /\ phase = "Installing" /\ queue \in Seq(Event) /\ queue # <<>> /\ queue' = Tail(queue)
        /\ UNCHANGED vars /\ bar \in 0 .. 1000
    BY DEF ApplyEvent, DataRootInv, InstallerTypeOK
  <1>1. /\ Gui' <=> Gui
        /\ At("end")' <=> At("end")
        /\ job' = job
    BY <1>0 DEF Gui, At, vars
  <1>2. /\ Len(queue) \in Nat /\ Len(queue) > 0 /\ Head(queue) = queue[1]
        /\ Len(queue') = Len(queue) - 1
        /\ \A k \in DOMAIN queue' : queue'[k] = queue[k + 1]
        /\ DOMAIN queue = 1 .. Len(queue) /\ DOMAIN queue' = 1 .. Len(queue')
    BY <1>0
  <1>3. queue[1] \in Event
    BY <1>0, <1>2
  <1>4. ASSUME queue[1].kind = "step"
        PROVE  /\ phase' = "Installing" /\ bar' \in 0 .. 1000
               /\ bar' = 1000 => bar = 1000 \/ queue[1].to = 1000
    <2>1. phase' = phase /\ bar' = Shown(queue[1].to)
      BY <1>2, <1>4 DEF ApplyEvent
    <2>2. queue[1].to \in 0 .. 1000
      BY <1>3 DEF Event
    <2> QED
      BY <1>0, <2>1, <2>2 DEF Shown
  <1>5. ASSUME queue[1].kind = "ok" PROVE phase' = "Complete"
    BY <1>2, <1>5 DEF ApplyEvent
  <1>6. ASSUME queue[1].kind = "error" PROVE phase' = "Failed" /\ bar' = bar
    BY <1>2, <1>6 DEF ApplyEvent
  <1>7. CASE Gui
    <2>1. queue[1].kind = "step"
      <3>1. queue \in Seq(StepEvent)
        BY <1>7 DEF DataRootInv, QueueOK
      <3>2. queue[1] \in StepEvent
        BY <1>2, <3>1
      <3> QED
        BY <3>2 DEF StepEvent
    <2>2. /\ \A k \in DOMAIN queue :
                 queue[k].to = 1000 => k = Len(queue) /\ At("end") /\ ~ job.failed
          /\ bar # 1000
      BY <1>2, <1>7 DEF BarOK
    <2>3. \A k \in DOMAIN queue' :
             queue'[k].to = 1000 => k = Len(queue') /\ At("end") /\ ~ job.failed
      BY <1>2, <2>2
    <2>4. bar' = 1000 => Len(queue') = 0 /\ At("end") /\ ~ job.failed
      BY <1>2, <1>4, <2>1, <2>2
    <2> QED
      BY <1>1, <1>4, <1>7, <2>1, <2>3, <2>4 DEF BarOK
  <1>8. CASE ~ Gui
    <2>g. ~ Gui'
      BY <1>1, <1>8
    <2>0. /\ queue[Len(queue)].kind # "step"
          /\ \A k \in 1 .. Len(queue) - 1 :
                /\ queue[k].kind = "step"
                /\ queue[k].to = 1000 => k = Len(queue) - 1 /\ queue[Len(queue)].kind = "ok"
          /\ bar = 1000 => Len(queue) = 1 /\ queue[1].kind = "ok"
      BY <1>0, <1>8 DEF BarOK
    <2>1. CASE Len(queue) = 1
      <3>1. queue[1].kind = "ok" \/ queue[1].kind = "error"
        BY <1>3, <2>0, <2>1 DEF Event
      <3>2. CASE queue[1].kind = "ok"
        BY <1>5, <2>g, <3>2 DEF BarOK
      <3>3. CASE queue[1].kind = "error"
        <4>1. phase' = "Failed" /\ bar' < 1000
          BY <1>0, <1>6, <2>0, <3>3
        <4> QED
          BY <2>g, <4>1 DEF BarOK
      <3> QED
        BY <3>1, <3>2, <3>3
    <2>2. CASE Len(queue) > 1
      <3>1. queue[1].kind = "step" /\ bar # 1000
        BY <1>2, <2>0, <2>2
      <3>2. Len(queue') > 0 /\ queue'[Len(queue')] = queue[Len(queue)]
        BY <1>2, <2>2
      <3>3. \A k \in 1 .. Len(queue') - 1 :
                /\ queue'[k].kind = "step"
                /\ queue'[k].to = 1000 => k = Len(queue') - 1 /\ queue'[Len(queue')].kind = "ok"
        <4> SUFFICES ASSUME NEW k \in 1 .. Len(queue') - 1
                     PROVE  /\ queue'[k].kind = "step"
                            /\ queue'[k].to = 1000 => k = Len(queue') - 1
                                                      /\ queue'[Len(queue')].kind = "ok"
          OBVIOUS
        <4>1. /\ k + 1 \in 1 .. Len(queue) - 1 /\ queue'[k] = queue[k + 1]
              /\ k + 1 = Len(queue) - 1 => k = Len(queue') - 1
          BY <1>2
        <4> QED
          BY <2>0, <3>2, <4>1
      <3>4. bar' = 1000 => Len(queue') = 1 /\ queue'[1].kind = "ok"
        BY <1>2, <1>4, <2>0, <2>2, <3>1, <3>2
      <3> QED
        <4>1. phase' = "Installing"
          BY <1>4, <3>1
        <4>2. phase' \notin {"Ready", "Failed"}
          BY <4>1
        <4> QED
          BY <2>0, <2>g, <3>2, <3>3, <3>4, <4>2 DEF BarOK
    <2> QED
      BY <1>2, <2>1, <2>2
  <1> QED
    BY <1>7, <1>8

LEMMA ThreadBar ==
    ASSUME DataRootInv, BarOK, ThreadStep
    PROVE  BarOK'
  <1>0. /\ Gui /\ phase = "Installing" /\ queue \in Seq(StepEvent) /\ Typed /\ DataOK
        /\ bar \in 0 .. 1000
    BY DEF ThreadStep, DataRootInv, QueueOK, InstallerTypeOK
  <1>1. CASE /\ (PackStep /\ UNCHANGED machine) \/ OwnStep
             /\ Tell /\ UNCHANGED <<phase, bar, wish, received>>
    <2>1. job'.by = job.by /\ job'.at # "idle"
      <3>1. CASE PackStep /\ UNCHANGED machine
        BY <1>0, <1>1, <3>1, PackStepKeeps DEF machine
      <3>2. CASE OwnStep
        BY <1>0, <1>1, <3>2, OwnStepKeeps DEF DataRootInv
      <3> QED
        BY <1>1, <3>1, <3>2
    <2>2. job.at # "end"
      BY <1>1
      DEF PackStep, OwnStep, At, FromPack, Download, Fetched, StartUnpack, EndUnpack,
                  RenameRaw, BuildTable, BuildCatalog, BuildPhrase, BuildTfidf, InitRegistry,
                  Clean, Fail, CheckInstalled, ExtractPayload, InstallOpenCode,
                  CreateShortcuts, Register, FailInstall
    <2>3. At("register") => job'.at = "end"
      <3>1. At("register") => Register
        BY <1>1
        DEF PackStep, OwnStep, At, FromPack, Download, Fetched, StartUnpack, EndUnpack,
                  RenameRaw, BuildTable, BuildCatalog, BuildPhrase, BuildTfidf, InitRegistry,
                  Clean, Fail, CheckInstalled, ExtractPayload, InstallOpenCode,
                  CreateShortcuts, FailInstall
      <3> QED
        BY <1>0, <3>1, RunGoes, StageNames DEF Register
    <2> QED
      BY <1>0, <1>1, <2>1, <2>2, <2>3, TellsBar
  <1>2. CASE Receive
    <2>1. PICK to \in {100, 350} : queue' = Append(queue, Step(to))
      BY <1>2 DEF Receive
    <2>2. /\ Gui' /\ phase' = phase /\ bar' = bar /\ job.at # "end"
      BY <1>0, <1>2 DEF Receive, vars, Gui, At
    <2>3. Step(to).to # 1000
      BY DEF Step
    <2>4. (\A k \in DOMAIN queue : queue[k].to # 1000) /\ bar # 1000
      BY <1>0, <2>2 DEF BarOK, At
    <2>5. \A k \in DOMAIN queue' : queue'[k].to # 1000
      BY <1>0, <2>1, <2>3, <2>4
    <2> QED
      BY <1>0, <2>2, <2>4, <2>5 DEF BarOK
  <1>3. CASE EndThread
    <2>1. /\ ~ Gui' /\ phase' = phase /\ bar' = bar /\ At("end")
          /\ queue' = Append(queue, Ended(~ job.failed))
      BY <1>3, IdleRun DEF EndThread, Return, Gui, At
    <2>2. /\ Len(queue) \in Nat /\ Len(queue') = Len(queue) + 1
          /\ queue'[Len(queue')] = Ended(~ job.failed)
          /\ \A k \in 1 .. Len(queue') - 1 : queue'[k] = queue[k] /\ k \in DOMAIN queue
      BY <1>0, <2>1
    <2>3. /\ Ended(~ job.failed).kind # "step"
          /\ ~ job.failed => Ended(~ job.failed).kind = "ok"
      BY DEF Ended
    <2>4. \A k \in DOMAIN queue : queue[k].kind = "step"
      <3>1. \A k \in DOMAIN queue : queue[k] \in StepEvent
        BY <1>0
      <3> QED
        BY <3>1 DEF StepEvent
    <2>5. /\ \A k \in DOMAIN queue : queue[k].to = 1000 => k = Len(queue) /\ ~ job.failed
          /\ bar = 1000 => Len(queue) = 0 /\ ~ job.failed
      BY <1>0 DEF BarOK
    <2>6. \A k \in 1 .. Len(queue') - 1 :
                /\ queue'[k].kind = "step"
                /\ queue'[k].to = 1000 => k = Len(queue') - 1 /\ queue'[Len(queue')].kind = "ok"
      BY <2>2, <2>3, <2>4, <2>5
    <2>7. bar' = 1000 => Len(queue') = 1 /\ queue'[1].kind = "ok"
      BY <2>1, <2>2, <2>3, <2>5
    <2>8. Len(queue') > 0 /\ queue'[Len(queue')].kind # "step"
      BY <2>2, <2>3
    <2>9. phase' \notin {"Ready", "Failed"}
      BY <1>0, <2>1
    <2> QED
      BY <2>1, <2>6, <2>7, <2>8, <2>9 DEF BarOK
  <1> QED
    BY <1>1, <1>2, <1>3 DEF ThreadStep, OwnStep

LEMMA BarKeeps ==
    ASSUME DataRootInv, BarOK, [InstallerNext]_installerVars
    PROVE  BarOK'
  <1>0. bar \in 0 .. 1000 /\ job \in Job /\ (Gui => phase = "Installing")
    BY DEF DataRootInv, InstallerTypeOK, Typed, TypeOK
  <1>1. CASE \E shortcut \in SUBSET Wishes, build \in BOOLEAN : StartInstall(shortcut, build)
    <2>1. PICK shortcut \in SUBSET Wishes, build \in BOOLEAN : StartInstall(shortcut, build)
      BY <1>1
    <2>2. /\ phase' = "Installing" /\ bar' = 0 /\ queue' = <<Step(Report["check"])>>
          /\ job' = [Idle EXCEPT !.at = "check", !.by = "gui", !.build = build]
      BY <2>1 DEF StartInstall
    <2>3. Gui'
      BY <2>2, IdleRun DEF Gui, At, Job
    <2>4. Step(Report["check"]).to # 1000
      BY DEF Report, Step
    <2>5. \A k \in DOMAIN queue' : queue'[k].to # 1000
      BY <2>2, <2>4
    <2> QED
      BY <2>2, <2>3, <2>5 DEF BarOK
  <1>2. CASE RefusePath \/ Reopen
    <2>1. bar' < 1000 /\ phase' # "Installing" /\ ~ Gui'
      BY <1>0, <1>2 DEF RefusePath, Reopen, BarOK, Gui, At, vars
    <2> QED
      BY <2>1 DEF BarOK
  <1>3. CASE ApplyEvent
    BY <1>3, ApplyBar
  <1>4. CASE ThreadStep
    BY <1>4, ThreadBar
  <1>5. CASE DieInstalling
    <2>1. bar' = 0 /\ phase' = "Ready" /\ ~ Gui'
      BY <1>5, IdleRun DEF DieInstalling, Die, Gui, At
    <2> QED
      BY <2>1 DEF BarOK
  <1>6. CASE Uninstall \/ RemoveDirectory \/ NextVersion
    <2>1. /\ phase' = phase /\ bar' = bar /\ queue' = queue
          /\ Gui' <=> Gui
          /\ At("end") /\ ~ job.failed => At("end")' /\ ~ job'.failed
      BY <1>0, <1>6 DEF Uninstall, RemoveDirectory, NextVersion, window, vars, Gui, At, Job
    <2> QED
      BY <2>1 DEF BarOK
  <1>7. CASE Cli /\ UNCHANGED <<window, received, machine>>
    <2>1. phase' = phase /\ bar' = bar /\ phase = "Ready"
      BY <1>7 DEF Cli, window
    <2>2. DataRootInv'
      BY <1>7, OthersTypes
    <2>3. ~ Gui'
      BY <2>1, <2>2 DEF DataRootInv, InstallerTypeOK
    <2> QED
      BY <2>1, <2>3 DEF BarOK
  <1>8. CASE (Others \/ UNCHANGED installerVars) /\ UNCHANGED <<window, received, machine>>
    <2>1. /\ phase' = phase /\ bar' = bar /\ queue' = queue
          /\ job' = job
      BY <1>8 DEF Others, Status, IngestOther, IndexOther, window, installerVars, vars
    <2>2. Gui' <=> Gui
      BY <2>1 DEF Gui, At
    <2> QED
      BY <2>1, <2>2 DEF BarOK, At
  <1>9. CASE UNCHANGED installerVars
    BY <1>8, <1>9 DEF installerVars
  <1> QED
    BY <1>1, <1>2, <1>3, <1>4, <1>5, <1>6, <1>7, <1>8, <1>9 DEF InstallerNext

\* The bar of the window is full when everything is done and not before, and while it
\* installs the bar never goes back (main.rs:425-486).
THEOREM WindowIsNeverAhead == InstallerSpec => []FullBarMeansDone /\ BarNeverFallsBack
  <1>1. InstallerInit => BarOK
    BY IdleRun DEF InstallerInit, Init, BarOK, Gui, At
  <1>2. DataRootInv /\ BarOK /\ [InstallerNext]_installerVars => BarOK'
    BY BarKeeps
  <1>3. DataRootInv /\ BarOK => FullBarMeansDone
    <2> SUFFICES ASSUME DataRootInv, BarOK, bar = 1000, phase # "Complete"
                 PROVE  \/ phase = "Installing" /\ ~ Gui /\ Head(queue).kind = "ok"
                        \/ At("end") /\ Gui /\ ~ job.failed
      BY DEF FullBarMeansDone
    <2>1. phase = "Installing"
      BY DEF BarOK, DataRootInv, InstallerTypeOK
    <2>2. CASE Gui
      BY <2>2 DEF BarOK
    <2>3. CASE ~ Gui
      <3>1. queue \in Seq(Event) /\ Len(queue) = 1 /\ queue[1].kind = "ok"
        BY <2>1, <2>3 DEF BarOK, DataRootInv, InstallerTypeOK
      <3>2. Head(queue) = queue[1]
        BY <3>1
      <3> QED
        BY <2>1, <2>3, <3>1, <3>2
    <2> QED
      BY <2>2, <2>3
  <1>4. DataRootInv /\ [InstallerNext]_installerVars =>
          [phase = "Installing" /\ phase' = "Installing" => bar' >= bar]_installerVars
    <2> SUFFICES ASSUME DataRootInv, InstallerNext, phase = "Installing", phase' = "Installing"
                 PROVE  bar' >= bar
      OBVIOUS
    <2>0. bar \in 0 .. 1000 /\ queue \in Seq(Event)
      BY DEF DataRootInv, InstallerTypeOK
    <2>1. CASE ApplyEvent
      <3>1. queue # <<>> /\ Head(queue) \in Event
        BY <2>0, <2>1 DEF ApplyEvent
      <3>2. Head(queue).kind \in {"step", "ok", "error"} /\ Head(queue).to \in 0 .. 1000
        BY <3>1 DEF Event
      <3>3. CASE Head(queue).kind = "step"
        <4>1. bar' = Shown(Head(queue).to)
          BY <2>1, <3>3 DEF ApplyEvent
        <4>2. PICK to \in 0 .. 1000 : Head(queue).to = to
          BY <3>2
        <4>3. bar' = IF to > bar THEN to ELSE bar
          BY <4>1, <4>2 DEF Shown
        <4>4. bar \in 0 .. 1000
          BY <2>0
        <4> QED
          BY <4>3, <4>4
      <3>4. CASE Head(queue).kind = "ok"
        BY <2>1, <3>4 DEF ApplyEvent
      <3>5. CASE Head(queue).kind = "error"
        BY <2>1, <3>5 DEF ApplyEvent
      <3> QED
        BY <3>2, <3>3, <3>4, <3>5
    <2>2. CASE ~ ApplyEvent
      <3>1. bar' = bar
        BY <2>2 DEF InstallerNext, StartInstall, RefusePath, Reopen, ThreadStep, Receive,
                    EndThread, DieInstalling, Uninstall, RemoveDirectory, NextVersion, window
      <3> QED
        BY <2>0, <3>1
    <2> QED
      BY <2>1, <2>2
  <1> QED
    BY <1>1, <1>2, <1>3, <1>4, InstallerInvariant, PTL DEF InstallerSpec, BarNeverFallsBack

-----------------------------------------------------------------------------
(* The lines that are told.                                                *)

LEMMA RunOf ==
    ASSUME NEW c, NEW given
    PROVE  /\ Run(Line(<<"ingest">>, given), c) = IngestCorpus(c, given)
           /\ Run(Line(<<"init">>, given), c) = RunInit(given)
           /\ Run(Line(<<"indexes", "lexical">>, given), c) = WithPrerequisites(<<"phrase", "tfidf">>)
           /\ Run(Line(<<"index", "phrase">>, given), c) = WithPrerequisites(<<"phrase">>)
           /\ Run(Line(<<"index", "tfidf">>, given), c) = WithPrerequisites(<<"tfidf">>)
           /\ Run(Line(<<"index", "vector-update">>, given), c) = UpdateVectors
           /\ Run(Line(<<"indexes", "semantic">>, given), c) = UpdateVectors
           /\ Run(Line(<<"doc-table-build">>, given), c) = BuildTableAlone
           /\ Run(Line(<<"status">>, given), c) = Does(<<>>, StatusAdvice)
           /\ \A path \in {<<"tool-call">>, <<"setup", "opencode">>, <<"agent">>, <<"run-tools">>} :
                Run(Line(path, given), c) = Does(<<>>, {})
BY DEF Run, Line

LEMMA ParsesAs ==
    ASSUME NEW c \in Commands, NEW given, c.needs \subseteq given,
           given \subseteq c.needs \cup c.takes,
           c.path \notin {<<"pdf-build">>, <<"export-pdf">>}
    PROVE  Parses(Line(c.path, given))
BY DEF Parses, OneSource, Line

\* Each is a command of the command line, given what it needs.
LEMMA ToldParses ==
    /\ \A more \in SUBSET {"out-jsonl"} : Parses(Line(<<"ingest">>, {"<source>", "<path>"} \cup more))
    /\ \A given \in SUBSET {"force"} : Parses(Line(<<"init">>, given))
    /\ Parses(Line(<<"status">>, {}))
    /\ Parses(Line(<<"indexes", "lexical">>, {}))
    /\ Parses(Line(<<"indexes", "semantic">>, {}))
    /\ Parses(Line(<<"index", "phrase">>, {}))
    /\ Parses(Line(<<"index", "tfidf">>, {}))
    /\ Parses(Line(<<"index", "vector-update">>, {"model"}))
    /\ Parses(Line(<<"doc-table-build">>, {}))
    /\ Parses(Line(<<"tool-call">>, {"<tool>", "json"}))
    /\ Parses(Line(<<"setup", "opencode">>, {}))
    /\ Parses(Line(<<"agent">>, {}))
    /\ Parses(Line(<<"run-tools">>, {"input", "output"}))
<1>1. ASSUME NEW more \in SUBSET {"out-jsonl"}
      PROVE  Parses(Line(<<"ingest">>, {"<source>", "<path>"} \cup more))
  <2>1. \E c \in CorpusCommands : /\ c.path = <<"ingest">> /\ c.needs = {"<source>", "<path>"}
                                  /\ "out-jsonl" \in c.takes
    BY DEF CorpusCommands, Cmd
  <2>2. PICK c \in Commands : /\ c.path = <<"ingest">> /\ c.needs = {"<source>", "<path>"}
                              /\ "out-jsonl" \in c.takes
    BY <2>1 DEF Commands
  <2> DEFINE given == {"<source>", "<path>"} \cup more
  <2>3. c.needs \subseteq given /\ given \subseteq c.needs \cup c.takes
    BY <2>2
  <2>4. <<"ingest">> \notin {<<"pdf-build">>, <<"export-pdf">>}
    OBVIOUS
  <2> HIDE DEF given
  <2>5. Parses(Line(c.path, given))
    BY <2>2, <2>3, <2>4, ParsesAs
  <2> QED
    BY <2>2, <2>5 DEF given
<1>2. ASSUME NEW given \in SUBSET {"force"}
      PROVE  Parses(Line(<<"init">>, given))
  <2>1. \E c \in CorpusCommands : c.path = <<"init">> /\ c.needs = {} /\ "force" \in c.takes
    BY DEF CorpusCommands, Cmd
  <2>2. PICK c \in Commands : c.path = <<"init">> /\ c.needs = {} /\ "force" \in c.takes
    BY <2>1 DEF Commands
  <2>3. c.needs \subseteq given /\ given \subseteq c.needs \cup c.takes
    BY <2>2
  <2>4. <<"init">> \notin {<<"pdf-build">>, <<"export-pdf">>}
    OBVIOUS
  <2>5. Parses(Line(c.path, given))
    BY <2>2, <2>3, <2>4, ParsesAs
  <2> QED
    BY <2>2, <2>5
<1>3. Parses(Line(<<"status">>, {}))
  <2>1. \E c \in CorpusCommands : c.path = <<"status">> /\ c.needs = {}
    BY DEF CorpusCommands, Cmd
  <2> QED
    BY <2>1, ParsesAs DEF Commands
<1>4. ASSUME NEW path \in {<<"indexes", "lexical">>, <<"indexes", "semantic">>}
      PROVE  Parses(Line(path, {}))
  <2>1. \E c \in GroupedIndexCommands : c.path = path /\ c.needs = {}
    BY DEF GroupedIndexCommands, Cmd
  <2> QED
    BY <2>1, ParsesAs DEF Commands
<1>5. ASSUME NEW path \in {<<"index", "phrase">>, <<"index", "tfidf">>}
      PROVE  Parses(Line(path, {}))
  <2>1. \E c \in LexicalIndexCommands : c.path = path /\ c.needs = {}
    BY DEF LexicalIndexCommands, Cmd
  <2> QED
    BY <2>1, ParsesAs DEF Commands
<1>6. Parses(Line(<<"index", "vector-update">>, {"model"}))
  <2>1. \E c \in VectorIndexCommands : c.path = <<"index", "vector-update">> /\ c.needs = {"model"}
    BY DEF VectorIndexCommands, Cmd
  <2> QED
    BY <2>1, ParsesAs DEF Commands
<1>7. Parses(Line(<<"doc-table-build">>, {}))
  <2>1. \E c \in StoreCommands : c.path = <<"doc-table-build">> /\ c.needs = {}
    BY DEF StoreCommands, Cmd
  <2> QED
    BY <2>1, ParsesAs DEF Commands
<1>8. Parses(Line(<<"tool-call">>, {"<tool>", "json"}))
  <2>1. \E c \in ToolCommands : c.path = <<"tool-call">> /\ c.needs = {"<tool>"} /\ "json" \in c.takes
    BY DEF ToolCommands, Cmd
  <2> QED
    BY <2>1, ParsesAs DEF Commands
<1>9. ASSUME NEW path \in {<<"setup", "opencode">>, <<"agent">>}
      PROVE  Parses(Line(path, {}))
  <2>1. \E c \in ServingCommands : c.path = path /\ c.needs = {}
    BY DEF ServingCommands, Cmd
  <2> QED
    BY <2>1, ParsesAs DEF Commands
<1>10. Parses(Line(<<"run-tools">>, {"input", "output"}))
  <2>1. \E c \in ToolCommands : c.path = <<"run-tools">> /\ c.needs = {"input", "output"}
    BY DEF ToolCommands, Cmd
  <2> QED
    BY <2>1, ParsesAs DEF Commands
<1> QED
  BY <1>1, <1>2, <1>3, <1>4, <1>5, <1>6, <1>7, <1>8, <1>9, <1>10

-----------------------------------------------------------------------------
(* What can be done with what is told.                                     *)

\* What AdviceIsRunnable asks of an advice while nothing runs; and one to ingest names
\* the corpora it is for.
Runnable(a) ==
    /\ Parses(a.line)
    /\ ~a.later => \/ Accepted(a)
                   \/ ~root /\ a.line.path = <<"doc-table-build">>
                   \/ \E c \in Choices(a) : \E b \in Run(a.line, c).ends :
                        b \notin {LookAgain, NoSuchFlag} /\ Parses(b.line) /\ Accepted(b)
NamesCorpora(a) == a.line.path = <<"ingest">> => a.corpora # {} /\ a.corpora \subseteq Source
Helps(ends) == /\ \A a \in ends \ {NoSuchFlag} : Runnable(a)
               /\ \A a \in ends : NamesCorpora(a)

LEMMA SayIs ==
    ASSUME NEW path, NEW given
    PROVE  /\ Say(path, given).line = Line(path, given) /\ Say(path, given).later = FALSE
           /\ Choices(Say(path, given)) = {"none"}
           /\ path # <<"ingest">> => NamesCorpora(Say(path, given))
BY DEF Say, Choices, Line, NamesCorpora

LEMMA SayIngestIs ==
    ASSUME NEW corpora \in SUBSET Source, corpora # {}, NEW more
    PROVE  /\ SayIngest(corpora, more).line = Line(<<"ingest">>, {"<source>", "<path>"} \cup more)
           /\ SayIngest(corpora, more).later = FALSE
           /\ Choices(SayIngest(corpora, more)) = corpora
           /\ NamesCorpora(SayIngest(corpora, more))
BY DEF SayIngest, Choices, Line, NamesCorpora

LEMMA NoSuchFlagIs ==
    /\ NoSuchFlag.line = Line(<<"init">>, {"from-raw", "out-jsonl"}) /\ NamesCorpora(NoSuchFlag)
BY SayIs DEF NoSuchFlag

\* A line that is not refused, whatever it is for.
LEMMA NotRefused ==
    ASSUME NEW path, NEW given, Parses(Line(path, given)), path # <<"ingest">>,
           ~Run(Line(path, given), "none").refused
    PROVE  Runnable(Say(path, given)) /\ NamesCorpora(Say(path, given))
BY SayIs DEF Runnable, Accepted

LEMMA AlwaysHelp ==
    /\ Runnable(LookAgain) /\ NamesCorpora(LookAgain)
    /\ Runnable(Say(<<"tool-call">>, {"<tool>", "json"}))
    /\ NamesCorpora(Say(<<"tool-call">>, {"<tool>", "json"}))
    /\ Runnable(Say(<<"setup", "opencode">>, {})) /\ NamesCorpora(Say(<<"setup", "opencode">>, {}))
    /\ Runnable(Say(<<"agent">>, {})) /\ NamesCorpora(Say(<<"agent">>, {}))
    /\ Runnable(Say(<<"run-tools">>, {"input", "output"}))
    /\ NamesCorpora(Say(<<"run-tools">>, {"input", "output"}))
<1>1. ~Does(<<>>, StatusAdvice).refused /\ ~Does(<<>>, {}).refused
  BY DEF Does
<1> HIDE DEF Does
<1> QED
  BY <1>1, NotRefused, ToldParses, RunOf DEF LookAgain

LEMMA TableHelps ==
    "doc_table" \in made => /\ Runnable(AddSemantic) /\ NamesCorpora(AddSemantic)
                            /\ Runnable(Say(<<"indexes", "semantic">>, {}))
                            /\ NamesCorpora(Say(<<"indexes", "semantic">>, {}))
<1> SUFFICES ASSUME "doc_table" \in made
             PROVE  /\ Runnable(AddSemantic) /\ NamesCorpora(AddSemantic)
                    /\ Runnable(Say(<<"indexes", "semantic">>, {}))
                    /\ NamesCorpora(Say(<<"indexes", "semantic">>, {}))
  OBVIOUS
<1>1. ~UpdateVectors.refused
  BY DEF UpdateVectors, Does
<1> QED
  BY <1>1, NotRefused, ToldParses, RunOf DEF AddSemantic

LEMMA LexicalHelps ==
    ASSUME NEW missing
    PROVE  stored # {} /\ "doc_table" \in made => Helps(LexicalAdvice(missing))
<1> SUFFICES ASSUME stored # {}, "doc_table" \in made
             PROVE  Helps(LexicalAdvice(missing))
  OBVIOUS
<1>1. \A steps : ~WithPrerequisites(steps).refused
  BY DEF WithPrerequisites, Does
<1>2. /\ Runnable(Say(<<"indexes", "lexical">>, {})) /\ NamesCorpora(Say(<<"indexes", "lexical">>, {}))
      /\ Runnable(Say(<<"index", "phrase">>, {})) /\ NamesCorpora(Say(<<"index", "phrase">>, {}))
      /\ Runnable(Say(<<"index", "tfidf">>, {})) /\ NamesCorpora(Say(<<"index", "tfidf">>, {}))
  BY <1>1, NotRefused, ToldParses, RunOf
<1>3. LexicalAdvice(missing) \subseteq {Say(<<"indexes", "lexical">>, {}), Say(<<"index", "phrase">>, {}),
                                        Say(<<"index", "tfidf">>, {})}
  BY DEF LexicalAdvice
<1> QED
  BY <1>2, <1>3 DEF Helps

\* To ingest a corpus that is there is put aside; of one that is not, a jsonl without a
\* corpus is in the way, and then --out-jsonl is named.
LEMMA IngestHelps ==
    ASSUME NEW corpora \in SUBSET Source, corpora # {}, NEW more \in SUBSET {"out-jsonl"}
    PROVE  /\ Runnable(SayIngest(corpora, more)) /\ NamesCorpora(SayIngest(corpora, more))
           /\ more = {"out-jsonl"} => Accepted(SayIngest(corpora, more))
<1> DEFINE a == SayIngest(corpora, more)
           given == {"<source>", "<path>"} \cup more
<1>1. a.line = Line(<<"ingest">>, given) /\ a.later = FALSE /\ Choices(a) = corpora /\ NamesCorpora(a)
  BY SayIngestIs
<1>2. Parses(a.line)
  BY <1>1, ToldParses
<1>3. \A c : Run(a.line, c) = IngestCorpus(c, given)
  BY <1>1, RunOf
<1> HIDE DEF a
<1>4. ASSUME NEW c \in corpora \ stored, c # "cbeta" \/ ~jsonl \/ stored # {} \/ more = {"out-jsonl"}
      PROVE  Accepted(a)
  <2>1. ~IngestCorpus(c, given).refused
    BY <1>4 DEF IngestCorpus, Does
  <2> QED
    BY <2>1, <1>1, <1>3 DEF Accepted
<1>5. CASE corpora \subseteq stored
  BY <1>5, <1>1, <1>2 DEF Runnable, Accepted, a
<1>6. ASSUME NEW c \in corpora \ stored, c = "cbeta", jsonl, stored = {}, more # {"out-jsonl"}
      PROVE  Runnable(a)
  <2> DEFINE b == SayIngest({"cbeta"}, {"out-jsonl"})
             way == {"<source>", "<path>", "out-jsonl"}
  <2>1. IngestCorpus(c, given).ends = {b}
    BY <1>6 DEF IngestCorpus, Refuse
  <2>2. {"cbeta"} \in SUBSET Source /\ {"<source>", "<path>"} \cup {"out-jsonl"} = way
    BY DEF Source
  <2>3. b.line = Line(<<"ingest">>, way) /\ Choices(b) = {"cbeta"}
    BY <2>2, SayIngestIs
  <2>4. Parses(b.line)
    BY <2>2, <2>3, ToldParses
  <2>5. ~IngestCorpus("cbeta", way).refused
    BY <1>6 DEF IngestCorpus, Does
  <2>6. Accepted(b)
    BY <2>3, <2>5, RunOf DEF Accepted
  <2>7. b \notin {LookAgain, NoSuchFlag}
    <3>1. LookAgain.line.path # <<"ingest">> /\ NoSuchFlag.line.path # <<"ingest">>
      BY DEF LookAgain, NoSuchFlag, Say, Line
    <3>2. b.line.path = <<"ingest">>
      BY <2>3 DEF Line
    <3> HIDE DEF b
    <3> QED
      BY <3>1, <3>2
  <2> HIDE DEF b
  <2> QED
    BY <1>1, <1>2, <1>3, <1>6, <2>1, <2>4, <2>6, <2>7 DEF Runnable
<1> QED
  BY <1>1, <1>2, <1>4, <1>5, <1>6 DEF a, Runnable, Accepted

LEMMA InitHelps == Runnable(Say(<<"init">>, {})) /\ NamesCorpora(Say(<<"init">>, {}))
<1>1. ~RunInit({}).refused
  BY DEF RunInit, Does
<1> QED
  BY <1>1, NotRefused, ToldParses, RunOf

LEMMA StatusHelps == Helps(StatusAdvice)
<1>1. CASE stored = {}
  <2>1. StatusAdvice = {SayIngest({"cbeta"}, {})}
    BY <1>1 DEF StatusAdvice
  <2> QED
    BY <2>1, IngestHelps DEF Helps, Source
<1>2. CASE stored # {} /\ "doc_table" \notin made
  <2> DEFINE later == [AddSemantic EXCEPT !.later = TRUE]
  <2>1. StatusAdvice = {Say(<<"init">>, {}), later}
    BY <1>2 DEF StatusAdvice
  <2>2. later.line = Line(<<"index", "vector-update">>, {"model"}) /\ later.later
    BY DEF AddSemantic, Say
  <2>3. Parses(later.line) /\ NamesCorpora(later)
    BY <2>2, ToldParses DEF NamesCorpora, Line
  <2> HIDE DEF later
  <2>4. Runnable(later)
    BY <2>2, <2>3 DEF Runnable
  <2> QED
    BY <2>1, <2>3, <2>4, InitHelps DEF Helps
<1>3. CASE stored # {} /\ "doc_table" \in made
  <2> DEFINE others == {Say(<<"tool-call">>, {"<tool>", "json"}), Say(<<"setup", "opencode">>, {}),
                        Say(<<"agent">>, {}), Say(<<"run-tools">>, {"input", "output"})}
             vectors == IF "vector" \in made THEN {} ELSE {AddSemantic}
  <2>1. StatusAdvice = LexicalAdvice(Lexical \ made) \cup others \cup vectors
    BY <1>3 DEF StatusAdvice
  <2>2. Helps(LexicalAdvice(Lexical \ made))
    BY <1>3, LexicalHelps
  <2>3. Helps(others)
    BY AlwaysHelp DEF Helps
  <2>4. Helps(vectors)
    BY <1>3, TableHelps DEF Helps
  <2> HIDE DEF others, vectors
  <2> QED
    BY <2>1, <2>2, <2>3, <2>4 DEF Helps
<1> QED
  BY <1>1, <1>2, <1>3

LEMMA CompleteHelps == "cbeta" \in stored /\ InitComplete => Helps(CompleteAdvice)
<1> SUFFICES ASSUME "cbeta" \in stored, InitComplete
             PROVE  Helps(CompleteAdvice)
  OBVIOUS
<1>1. ~RunInit({"force"}).refused
  BY DEF RunInit, Does
<1>2. Runnable(Say(<<"init">>, {"force"})) /\ NamesCorpora(Say(<<"init">>, {"force"}))
  BY <1>1, NotRefused, ToldParses, RunOf
<1>3. "doc_table" \in made
  BY DEF InitComplete, Fast
<1> QED
  BY <1>2, <1>3, AlwaysHelp, TableHelps DEF Helps, CompleteAdvice

LEMMA ReadyHelps == "doc_table" \in made => Helps(ReadyAdvice)
<1>1. {"cef"} \in SUBSET Source /\ {"cef"} # {} /\ {} \in SUBSET {"out-jsonl"}
  BY DEF Source
<1>2. Runnable(SayIngest({"cef"}, {})) /\ NamesCorpora(SayIngest({"cef"}, {}))
  BY <1>1, IngestHelps
<1> QED
  BY <1>2, AlwaysHelp, TableHelps DEF Helps, ReadyAdvice

LEMMA IngestedHelps == stored # {} /\ "doc_table" \in made => \A built : Helps(IngestedAdvice(built))
<1> SUFFICES ASSUME stored # {}, "doc_table" \in made, NEW built
             PROVE  Helps(IngestedAdvice(built))
  OBVIOUS
<1> DEFINE lexical == LexicalAdvice(Lexical \ built)
           semantic == IF Lexical \subseteq built THEN {} ELSE {Say(<<"indexes", "semantic">>, {})}
<1>1. IngestedAdvice(built) = {LookAgain} \cup lexical \cup semantic
  BY DEF IngestedAdvice
<1>2. Helps(lexical)
  BY LexicalHelps
<1>3. Helps(semantic)
  BY TableHelps DEF Helps
<1> HIDE DEF lexical, semantic
<1> QED
  BY <1>1, <1>2, <1>3, AlwaysHelp DEF Helps

-----------------------------------------------------------------------------
(* What a command has still to do.                                         *)

StepName == Source \cup Artefact \cup {"jsonl", "pack"}

LEMMA StepNames ==
    /\ \A i \in {"cbeta", "jsonl", "pack", "doc_table", "catalog", "phrase", "tfidf", "vector"} : i \in StepName
    /\ Source \subseteq StepName
BY DEF StepName, Artefact, Fast, Lexical, Source

LEMMA ShortSeqs ==
    ASSUME NEW a \in StepName, NEW b \in StepName, NEW c \in StepName, NEW d \in StepName
    PROVE  /\ <<>> \in Seq(StepName) /\ Len(<<>>) = 0
           /\ <<a>> \in Seq(StepName) /\ Len(<<a>>) = 1 /\ <<a>>[1] = a /\ <<a>> # <<>>
           /\ <<a, b>> \in Seq(StepName) /\ Len(<<a, b>>) = 2 /\ <<a, b>>[1] = a /\ <<a, b>> # <<>>
           /\ <<a, b, c, d>> \in Seq(StepName) /\ Len(<<a, b, c, d>>) = 4 /\ <<a, b, c, d>> # <<>>
           /\ <<a, b, c, d>>[1] = a /\ <<a, b, c, d>>[3] = c
OBVIOUS

LEMMA Concatenated ==
    ASSUME NEW p \in Seq(StepName), NEW q \in Seq(StepName)
    PROVE  /\ p \o q \in Seq(StepName) /\ Len(p \o q) = Len(p) + Len(q)
           /\ \A i \in 1 .. Len(p) : (p \o q)[i] = p[i]
           /\ \A i \in 1 .. Len(q) : (p \o q)[Len(p) + i] = q[i]
           /\ p # <<>> => p \o q # <<>>
OBVIOUS

\* A command says at its end what its steps will have made runnable.
WillBeTable(steps) == "doc_table" \in made \/ \E i \in DOMAIN steps : steps[i] = "doc_table"
WillBeCorpus(steps) == stored # {} \/ \E i \in DOMAIN steps : steps[i] \in Source
EndsHelp(steps, ends) ==
    \/ ends = {}
    \/ ends = ReadyAdvice /\ WillBeTable(steps)
    \/ (\E built : ends = IngestedAdvice(built)) /\ WillBeTable(steps) /\ WillBeCorpus(steps)
RunHelps(r) ==
    /\ r.steps \in Seq(StepName) /\ Len(r.steps) <= 6
    /\ r.steps = <<>> => Helps(r.ends)
    /\ r.steps # <<>> => EndsHelp(r.steps, r.ends)

LEMMA RefusalHelps ==
    ASSUME NEW ends, Helps(ends)
    PROVE  RunHelps(Refuse(ends))
BY DEF RunHelps, Refuse

LEMMA SaysHelps ==
    ASSUME NEW ends, Helps(ends)
    PROVE  RunHelps(Does(<<>>, ends))
BY DEF RunHelps, Does

LEMMA WorkHelps ==
    ASSUME NEW steps \in Seq(StepName), Len(steps) <= 6, steps # <<>>, NEW ends, EndsHelp(steps, ends)
    PROVE  RunHelps(Does(steps, ends))
BY DEF RunHelps, Does

LEMMA NothingHelps == Helps({})
BY DEF Helps

LEMMA PrerequisitesRun ==
    ASSUME NEW steps \in Seq(StepName), Len(steps) <= 6, steps # <<>>
    PROVE  RunHelps(WithPrerequisites(steps))
<1>1. CASE stored = {}
  <2>1. {"cbeta", "cef"} = Source /\ Source \in SUBSET Source /\ {} \in SUBSET {"out-jsonl"}
    BY DEF Source
  <2>2. Helps({SayIngest(Source, {}), LookAgain})
    BY <2>1, IngestHelps, AlwaysHelp DEF Helps
  <2> QED
    BY <1>1, <2>2, RefusalHelps DEF WithPrerequisites
<1>2. CASE stored # {} /\ "doc_table" \notin made
  <2>1. Helps({Say(<<"init">>, {}), LookAgain})
    BY InitHelps, AlwaysHelp DEF Helps
  <2> QED
    BY <1>2, <2>1, RefusalHelps DEF WithPrerequisites
<1>3. CASE stored # {} /\ "doc_table" \in made
  <2>1. RunHelps(Does(steps, {}))
    BY WorkHelps DEF EndsHelp
  <2> QED
    BY <1>3, <2>1 DEF WithPrerequisites
<1> QED
  BY <1>1, <1>2, <1>3

LEMMA IngestRun ==
    ASSUME NEW c \in Source, NEW given
    PROVE  RunHelps(IngestCorpus(c, given))
<1> DEFINE built == (IF "build-phrase-index" \in given THEN {"phrase"} ELSE {})
                    \cup (IF "build-tfidf" \in given THEN {"tfidf"} ELSE {})
           first == IF "phrase" \in built THEN <<"phrase">> ELSE <<>>
           second == IF "tfidf" \in built THEN <<"tfidf">> ELSE <<>>
           writes == IF c = "cbeta" /\ "out-jsonl" \notin given THEN <<"cbeta", "jsonl">> ELSE <<c>>
           table == <<"doc_table", "catalog">>
           steps == writes \o table \o (first \o second)
<1>1. /\ writes \in Seq(StepName) /\ Len(writes) \in {1, 2} /\ writes[1] = c
      /\ table \in Seq(StepName) /\ Len(table) = 2 /\ table[1] = "doc_table"
      /\ first \in Seq(StepName) /\ Len(first) \in {0, 1}
      /\ second \in Seq(StepName) /\ Len(second) \in {0, 1}
  <2> HIDE DEF built
  <2>1. c \in StepName
    BY StepNames
  <2>2. /\ <<"cbeta", "jsonl">> \in Seq(StepName) /\ Len(<<"cbeta", "jsonl">>) = 2
        /\ <<c>> \in Seq(StepName) /\ Len(<<c>>) = 1
    BY <2>1, StepNames, ShortSeqs
  <2>3. writes \in Seq(StepName) /\ Len(writes) \in {1, 2} /\ writes[1] = c
    BY <2>2
  <2>4. table \in Seq(StepName) /\ Len(table) = 2 /\ table[1] = "doc_table"
    BY StepNames, ShortSeqs
  <2>5. first \in Seq(StepName) /\ Len(first) \in {0, 1}
    BY StepNames, ShortSeqs
  <2>6. second \in Seq(StepName) /\ Len(second) \in {0, 1}
    BY StepNames, ShortSeqs
  <2> QED
    BY <2>3, <2>4, <2>5, <2>6
<1>2. CASE c \in stored
  BY <1>2, RefusalHelps, NothingHelps DEF IngestCorpus
<1>3. CASE c \notin stored /\ c = "cbeta" /\ stored = {} /\ jsonl /\ "out-jsonl" \notin given
  <2>1. {"cbeta"} \in SUBSET Source /\ {"out-jsonl"} \in SUBSET {"out-jsonl"}
    BY DEF Source
  <2>2. Helps({SayIngest({"cbeta"}, {"out-jsonl"})})
    BY <2>1, IngestHelps DEF Helps
  <2> QED
    BY <1>3, <2>2, RefusalHelps DEF IngestCorpus
<1>4. CASE c \notin stored /\ ~(c = "cbeta" /\ stored = {} /\ jsonl /\ "out-jsonl" \notin given)
  <2>1. IngestCorpus(c, given) = Does(steps, IngestedAdvice(built))
    BY <1>4 DEF IngestCorpus
  <2> HIDE DEF writes, table, first, second
  <2>2. /\ steps \in Seq(StepName) /\ Len(steps) <= 6 /\ steps # <<>>
        /\ 1 \in DOMAIN steps /\ steps[1] = c
        /\ Len(writes) + 1 \in DOMAIN steps /\ steps[Len(writes) + 1] = "doc_table"
    <3> DEFINE head == writes \o table
               tail == first \o second
    <3>1. /\ head \in Seq(StepName) /\ Len(head) = Len(writes) + Len(table)
          /\ \A i \in 1 .. Len(writes) : head[i] = writes[i]
          /\ \A i \in 1 .. Len(table) : head[Len(writes) + i] = table[i]
      BY <1>1, Concatenated
    <3>2. tail \in Seq(StepName) /\ Len(tail) = Len(first) + Len(second)
      BY <1>1, Concatenated
    <3>3. steps = head \o tail
      OBVIOUS
    <3> HIDE DEF head, tail, steps
    <3>4. /\ steps \in Seq(StepName) /\ Len(steps) = Len(head) + Len(tail)
          /\ \A i \in 1 .. Len(head) : steps[i] = head[i]
      BY <3>1, <3>2, <3>3, Concatenated
    <3>5. /\ Len(steps) \in 3 .. 6 /\ Len(head) \in {3, 4}
          /\ 1 \in 1 .. Len(writes) /\ 1 \in 1 .. Len(table)
          /\ 1 \in 1 .. Len(head) /\ Len(writes) + 1 \in 1 .. Len(head)
      <4>1. \A w \in {1, 2} : \A f, g \in {0, 1} :
              /\ (w + 2) + (f + g) \in 3 .. 6 /\ w + 2 \in {3, 4}
              /\ 1 \in 1 .. w /\ 1 \in 1 .. 2 /\ 1 \in 1 .. w + 2 /\ w + 1 \in 1 .. w + 2
        BY SMT
      <4>2. Len(head) = Len(writes) + 2 /\ Len(table) = 2
        BY <1>1, <3>1
      <4>3. Len(steps) = (Len(writes) + 2) + (Len(first) + Len(second))
        BY <3>2, <3>4, <4>2
      <4>4. Len(writes) \in {1, 2} /\ Len(first) \in {0, 1} /\ Len(second) \in {0, 1}
        BY <1>1
      <4> QED
        BY <4>1, <4>2, <4>3, <4>4
    <3>6. DOMAIN steps = 1 .. Len(steps) /\ steps # <<>> /\ 1 \in DOMAIN steps
      BY <3>4, <3>5
    <3>7. Len(writes) + 1 \in 1 .. Len(steps) /\ Len(steps) <= 6
      BY <3>1, <3>2, <3>4, <3>5
    <3> QED
      BY <1>1, <3>1, <3>4, <3>5, <3>6, <3>7
  <2> HIDE DEF steps, built
  <2>3. EndsHelp(steps, IngestedAdvice(built))
    BY <2>2 DEF EndsHelp, WillBeTable, WillBeCorpus
  <2> QED
    BY <2>1, <2>2, <2>3, WorkHelps
<1> QED
  BY <1>2, <1>3, <1>4

LEMMA InitRun ==
    ASSUME NEW given
    PROVE  RunHelps(RunInit(given))
<1> DEFINE rebuild == <<"doc_table", "catalog", "phrase", "tfidf">>
           raw == <<"cbeta", "jsonl", "doc_table", "catalog">>
           one == <<"pack">>
           pack == one \o rebuild
<1>1. /\ rebuild \in Seq(StepName) /\ Len(rebuild) = 4 /\ rebuild[1] = "doc_table"
      /\ raw \in Seq(StepName) /\ Len(raw) = 4 /\ raw[1] = "cbeta" /\ raw[3] = "doc_table"
      /\ rebuild # <<>> /\ raw # <<>>
      /\ one \in Seq(StepName) /\ Len(one) = 1
      /\ Len(rebuild) <= 6 /\ Len(raw) <= 6 /\ 1 \in DOMAIN rebuild /\ {1, 3} \subseteq DOMAIN raw
  <2>1. /\ rebuild \in Seq(StepName) /\ Len(rebuild) = 4 /\ rebuild[1] = "doc_table"
        /\ raw \in Seq(StepName) /\ Len(raw) = 4 /\ raw[1] = "cbeta" /\ raw[3] = "doc_table"
        /\ rebuild # <<>> /\ raw # <<>>
        /\ one \in Seq(StepName) /\ Len(one) = 1
    BY StepNames, ShortSeqs
  <2> HIDE DEF rebuild, raw
  <2> QED
    BY <2>1
<1>2. CASE "cbeta" \in stored /\ "force" \notin given /\ InitComplete
  <2>2. RunInit(given) = Does(<<>>, CompleteAdvice)
    BY <1>2 DEF RunInit
  <2> QED
    BY <1>2, <2>2, CompleteHelps, SaysHelps
<1>3. CASE "cbeta" \in stored /\ "force" \notin given /\ ~InitComplete
  <2>1. RunInit(given) = Does(rebuild, ReadyAdvice)
    BY <1>3 DEF RunInit
  <2> HIDE DEF rebuild
  <2>2. EndsHelp(rebuild, ReadyAdvice)
    BY <1>1 DEF EndsHelp, WillBeTable
  <2> QED
    BY <1>1, <2>1, <2>2, WorkHelps, Zenon
<1>4. CASE "cbeta" \in stored /\ "force" \in given /\ "from-raw" \notin given
  BY <1>4, NothingHelps, SaysHelps DEF RunInit
<1>5. CASE ~("cbeta" \in stored /\ "force" \notin given) /\ "from-raw" \in given
  <2>1. CASE jsonl
    <3>1. Helps({NoSuchFlag})
      BY NoSuchFlagIs DEF Helps
    <3> QED
      BY <1>5, <2>1, <3>1, RefusalHelps DEF RunInit
  <2>2. CASE ~jsonl
    <3>1. RunInit(given) = Does(raw, IngestedAdvice({}))
      BY <1>5, <2>2 DEF RunInit
    <3> HIDE DEF raw
    <3>2. EndsHelp(raw, IngestedAdvice({}))
      BY <1>1 DEF EndsHelp, WillBeTable, WillBeCorpus, Source
    <3> QED
      BY <1>1, <3>1, <3>2, WorkHelps, Zenon
  <2> QED
    BY <2>1, <2>2
<1>6. CASE "cbeta" \notin stored /\ "from-raw" \notin given
  <2>1. RunInit(given) = Does(pack, ReadyAdvice)
    BY <1>6 DEF RunInit
  <2> HIDE DEF rebuild
  <2>2. /\ pack \in Seq(StepName) /\ Len(pack) = 5 /\ pack # <<>>
        /\ 2 \in DOMAIN pack /\ pack[2] = "doc_table"
    <3> HIDE DEF one
    <3>1. /\ pack \in Seq(StepName) /\ Len(pack) = Len(one) + Len(rebuild)
          /\ \A i \in 1 .. Len(rebuild) : pack[Len(one) + i] = rebuild[i]
      BY <1>1, Concatenated, Zenon
    <3> HIDE DEF pack
    <3> QED
      BY <1>1, <3>1
  <2> HIDE DEF pack
  <2>3. EndsHelp(pack, ReadyAdvice)
    BY <2>2 DEF EndsHelp, WillBeTable
  <2> QED
    BY <2>1, <2>2, <2>3, WorkHelps
<1> QED
  BY <1>2, <1>3, <1>4, <1>5, <1>6

LEMMA TableAloneRuns ==
    /\ RunHelps(BuildTableAlone)
    /\ RunHelps(BuildCatalogAlone)
    /\ RunHelps(UpdateVectors)
<1>1. /\ <<"doc_table">> \in Seq(StepName) /\ <<"catalog">> \in Seq(StepName)
      /\ <<"vector">> \in Seq(StepName)
  BY StepNames, ShortSeqs
<1>2. ASSUME NEW s \in {"doc_table", "catalog", "vector"}
      PROVE  RunHelps(Does(<<s>>, {}))
  <2>1. <<s>> \in Seq(StepName) /\ Len(<<s>>) <= 6 /\ <<s>> # <<>>
    BY <1>1
  <2>2. EndsHelp(<<s>>, {})
    BY DEF EndsHelp
  <2> QED
    BY <2>1, <2>2, WorkHelps
<1>3. Helps({Say(<<"doc-table-build">>, {})})
  <2> DEFINE a == Say(<<"doc-table-build">>, {})
  <2>1. a.line = Line(<<"doc-table-build">>, {}) /\ Choices(a) = {"none"} /\ NamesCorpora(a)
    BY SayIs
  <2>2. a.line.path = <<"doc-table-build">> /\ Parses(a.line)
    BY <2>1, ToldParses DEF Line
  <2>3. root => Accepted(a)
    BY <2>1, RunOf DEF Accepted, BuildTableAlone, Does
  <2> HIDE DEF a
  <2> QED
    BY <2>1, <2>2, <2>3 DEF Helps, Runnable, a
<1> QED
  BY <1>2, <1>3, NothingHelps, RefusalHelps DEF BuildTableAlone, BuildCatalogAlone, UpdateVectors

\* Whatever is typed: what is said at once helps at once, and what is said at the end
\* will help then.
LEMMA RunsHelp ==
    ASSUME NEW line, NEW c, line.path = <<"ingest">> => c \in Source
    PROVE  RunHelps(Run(line, c))
<1>1. /\ <<"phrase", "tfidf">> \in Seq(StepName) /\ <<"phrase">> \in Seq(StepName)
      /\ <<"tfidf">> \in Seq(StepName) /\ <<"catalog">> \in Seq(StepName)
      /\ Len(<<"phrase", "tfidf">>) = 2 /\ Len(<<"phrase">>) = 1 /\ Len(<<"tfidf">>) = 1
      /\ Len(<<"catalog">>) = 1
  BY StepNames, ShortSeqs
<1>2. /\ RunHelps(WithPrerequisites(<<"phrase", "tfidf">>)) /\ RunHelps(WithPrerequisites(<<"phrase">>))
      /\ RunHelps(WithPrerequisites(<<"tfidf">>)) /\ RunHelps(WithPrerequisites(<<"catalog">>))
  <2>1. /\ <<"phrase", "tfidf">> # <<>> /\ <<"phrase">> # <<>> /\ <<"tfidf">> # <<>> /\ <<"catalog">> # <<>>
    BY StepNames, ShortSeqs
  <2>2. Len(<<"phrase", "tfidf">>) <= 6 /\ Len(<<"phrase">>) <= 6 /\ Len(<<"tfidf">>) <= 6
        /\ Len(<<"catalog">>) <= 6
    BY <1>1
  <2> QED
    BY <1>1, <2>1, <2>2, PrerequisitesRun, Zenon
<1>3. RunHelps(Does(<<>>, StatusAdvice)) /\ RunHelps(Does(<<>>, {}))
  BY StatusHelps, NothingHelps, SaysHelps
<1>4. line.path = <<"ingest">> => RunHelps(IngestCorpus(c, line.given))
  BY IngestRun
<1>5. RunHelps(RunInit(line.given))
  BY InitRun
<1> QED
  BY <1>2, <1>3, <1>4, <1>5, TableAloneRuns DEF Run

-----------------------------------------------------------------------------
(* The invariant of the person and the commands.                           *)

\* While a command runs nothing is told, and what it will say helps at its end; what
\* is told while none runs helps at once.
UpkeepInv ==
    /\ stored \subseteq Source /\ {root, jsonl} \subseteq BOOLEAN /\ made \subseteq Artefact
    /\ whims \in 0 .. MaxWhims
    /\ todo = [steps |-> todo.steps, ends |-> todo.ends]
    /\ todo.steps \in Seq(StepName) /\ Len(todo.steps) <= 6
    /\ todo.steps # <<>> => told = {} /\ EndsHelp(todo.steps, todo.ends)
    /\ Helps(told)

LEMMA UpkeepInitInv == UpkeepInit => UpkeepInv
<1> SUFFICES ASSUME UpkeepInit PROVE UpkeepInv
  OBVIOUS
<1>1. <<>> \in Seq(StepName) /\ Len(<<>>) = 0
  OBVIOUS
<1>2. todo.steps = <<>> /\ todo = [steps |-> todo.steps, ends |-> todo.ends]
  BY DEF UpkeepInit, AtRest
<1>3. Helps(told)
  BY NothingHelps DEF UpkeepInit
<1>4. {root, jsonl} \subseteq BOOLEAN
  BY DEF UpkeepInit
<1>5. /\ stored \subseteq Source /\ made \subseteq Artefact /\ whims \in 0 .. MaxWhims
      /\ told = {}
  BY UpkeepAssumption DEF UpkeepInit
<1>6. todo.steps \in Seq(StepName) /\ Len(todo.steps) <= 6
  BY <1>1, <1>2
<1> QED
  BY <1>2, <1>3, <1>4, <1>5, <1>6 DEF UpkeepInv

\* Nothing of the data directory changes: neither does what helps.
LEMMA HelpsKept ==
    UNCHANGED <<stored, root, jsonl, made>> => \A ends : Helps(ends) => Helps(ends)'
<1> SUFFICES ASSUME UNCHANGED <<stored, root, jsonl, made>>, NEW ends, Helps(ends)
             PROVE  Helps(ends)'
  OBVIOUS
<1> USE DEF InitComplete
<1>1. StatusAdvice' = StatusAdvice
  BY DEF StatusAdvice
<1>2. \A c, given : IngestCorpus(c, given)' = IngestCorpus(c, given)
  BY DEF IngestCorpus
<1>3. \A given : RunInit(given)' = RunInit(given)
  BY DEF RunInit
<1>4. \A steps : WithPrerequisites(steps)' = WithPrerequisites(steps)
  BY DEF WithPrerequisites
<1>5. /\ UpdateVectors' = UpdateVectors /\ BuildTableAlone' = BuildTableAlone
      /\ BuildCatalogAlone' = BuildCatalogAlone
  BY DEF UpdateVectors, BuildTableAlone, BuildCatalogAlone
<1>6. \A line, c : Run(line, c)' = Run(line, c)
  BY <1>1, <1>2, <1>3, <1>4, <1>5 DEF Run
<1>7. \A a : Accepted(a)' <=> Accepted(a)
  BY <1>6 DEF Accepted
<1>8. \A a : Runnable(a)' <=> Runnable(a)
  BY <1>6, <1>7 DEF Runnable
<1> QED
  BY <1>8 DEF Helps

LEMMA TypeKeeps ==
    ASSUME NEW line, NEW c, line.path = <<"ingest">> => c \in Source,
           UpkeepInv, Type(line, c), whims' \in 0 .. MaxWhims
    PROVE  UpkeepInv'
<1> DEFINE r == Run(line, c)
<1>1. RunHelps(r)
  BY RunsHelp
<1>2. UNCHANGED <<stored, root, jsonl, made>> /\ todo.steps = <<>>
  BY DEF Type
<1>3. \A ends : Helps(ends) => Helps(ends)'
  BY <1>2, HelpsKept
<1>4. CASE r.steps = <<>>
  <2>1. told' = r.ends /\ UNCHANGED todo
    BY <1>4 DEF Type
  <2> HIDE DEF r
  <2>2. Helps(told)'
    BY <1>1, <1>3, <1>4, <2>1 DEF RunHelps
  <2> QED
    BY <1>2, <2>1, <2>2 DEF UpkeepInv
<1>5. CASE r.steps # <<>>
  <2>1. told' = {} /\ todo' = [steps |-> r.steps, ends |-> r.ends]
    BY <1>5 DEF Type
  <2> HIDE DEF r
  <2>2. /\ todo'.steps = r.steps /\ todo'.ends = r.ends
        /\ todo' = [steps |-> todo'.steps, ends |-> todo'.ends]
    BY <2>1
  <2>3. Helps(told)'
    BY <1>3, <2>1, NothingHelps
  <2>4. EndsHelp(todo.steps, todo.ends)'
    BY <1>1, <1>2, <1>5, <2>2 DEF RunHelps, EndsHelp, WillBeTable, WillBeCorpus
  <2>5. todo'.steps \in Seq(StepName) /\ Len(todo'.steps) <= 6
    BY <1>1, <2>2 DEF RunHelps
  <2> QED
    BY <1>2, <2>1, <2>2, <2>3, <2>4, <2>5 DEF UpkeepInv
<1> QED
  BY <1>4, <1>5

\* Advice is only what helps, so that whoever follows it to ingest takes a corpus it names.
LEMMA FollowKeeps == UpkeepInv /\ (FollowAdvice \/ FollowSemantic \/ LookAround) => UpkeepInv'
<1>1. ASSUME UpkeepInv, FollowAdvice
      PROVE  UpkeepInv'
  <2>1. PICK a \in told : \E c \in Choices(a) \ stored : Type(a.line, c)
    BY <1>1 DEF FollowAdvice
  <2>2. PICK c \in Choices(a) \ stored : Type(a.line, c)
    BY <2>1
  <2>3. NamesCorpora(a)
    BY <1>1 DEF UpkeepInv, Helps
  <2>4. a.line.path = <<"ingest">> => c \in Source
    BY <2>3 DEF NamesCorpora, Choices
  <2>5. whims' \in 0 .. MaxWhims
    BY <1>1 DEF FollowAdvice, UpkeepInv
  <2> QED
    BY <1>1, <2>2, <2>4, <2>5, TypeKeeps
<1>2. ASSUME UpkeepInv, FollowSemantic
      PROVE  UpkeepInv'
  <2>1. PICK a \in told : IsSemantic(a) /\ Type(a.line, "none")
    BY <1>2 DEF FollowSemantic
  <2>2. a.line.path # <<"ingest">>
    BY <2>1 DEF IsSemantic
  <2>3. whims' \in 0 .. MaxWhims
    BY <1>2 DEF FollowSemantic, UpkeepInv
  <2> QED
    BY <1>2, <2>1, <2>2, <2>3, TypeKeeps
<1>3. ASSUME UpkeepInv, LookAround
      PROVE  UpkeepInv'
  <2>1. Type(Line(<<"status">>, {}), "none")
    BY <1>3 DEF LookAround
  <2>2. Line(<<"status">>, {}).path # <<"ingest">>
    BY DEF Line
  <2>3. whims' \in 0 .. MaxWhims
    BY <1>3 DEF LookAround, UpkeepInv
  <2> QED
    BY <1>3, <2>1, <2>2, <2>3, TypeKeeps
<1> QED
  BY <1>1, <1>2, <1>3

LEMMA OwnKeeps == UpkeepInv /\ OwnCommand => UpkeepInv'
<1> SUFFICES ASSUME UpkeepInv, OwnCommand PROVE UpkeepInv'
  OBVIOUS
<1>1. PICK line \in OwnLines, c \in Source : Type(line, c)
  BY DEF OwnCommand
<1>2. whims' \in 0 .. MaxWhims
  BY UpkeepAssumption DEF OwnCommand, UpkeepInv
<1> QED
  BY <1>1, <1>2, TypeKeeps

\* Nothing that a step of a command leaves takes away what the command will say.
LEMMA DoStepKeeps == UpkeepInv /\ DoStep => UpkeepInv'
<1> SUFFICES ASSUME UpkeepInv, DoStep PROVE UpkeepInv'
  OBVIOUS
<1> DEFINE s == Head(todo.steps)
<1>1. /\ todo.steps \in Seq(StepName) /\ todo.steps # <<>> /\ Len(todo.steps) <= 6 /\ told = {}
      /\ EndsHelp(todo.steps, todo.ends) /\ todo = [steps |-> todo.steps, ends |-> todo.ends]
  BY DEF UpkeepInv, DoStep
<1>2. /\ \/ stored' = stored \cup ({s} \cap Source) \cup (IF s = "pack" THEN {"cbeta"} ELSE {})
         \/ s = "pack" /\ stored' = stored
      /\ root' = (root \/ stored' # {}) /\ jsonl' = (jsonl \/ s = "jsonl")
      /\ made' = made \cup ({s} \cap Artefact) /\ whims' = whims
  BY DEF DoStep
<1>3. /\ stored' \subseteq Source /\ {root', jsonl'} \subseteq BOOLEAN /\ made' \subseteq Artefact
      /\ whims' \in 0 .. MaxWhims
  <2>1. root' \in BOOLEAN /\ jsonl' \in BOOLEAN
    BY <1>2
  <2>2. stored' \subseteq Source /\ made' \subseteq Artefact /\ whims' \in 0 .. MaxWhims
    BY <1>2 DEF UpkeepInv, Source
  <2> QED
    BY <2>1, <2>2
<1>4. /\ stored \subseteq stored' /\ made \subseteq made'
      /\ s \in Source => stored' # {}
      /\ s = "doc_table" => "doc_table" \in made'
  <2>1. "doc_table" \in Artefact /\ "pack" \notin Source
    BY DEF Artefact, Fast, Source
  <2> QED
    BY <1>2, <2>1
<1>5. s = todo.steps[1]
  BY <1>1
<1> HIDE DEF s
<1>6. CASE Len(todo.steps) = 1
  <2>1. todo' = AtRest /\ told' = todo.ends
    BY <1>6 DEF DoStep
  <2>2. ("doc_table" \in made => Helps(ReadyAdvice))'
    BY ReadyHelps, PTL
  <2>3. (stored # {} /\ "doc_table" \in made => \A built : Helps(IngestedAdvice(built)))'
    BY IngestedHelps, PTL
  <2>4. Helps({})'
    BY DEF Helps
  <2>5. DOMAIN todo.steps = {1}
    BY <1>1, <1>6
  <2>6. WillBeTable(todo.steps) => "doc_table" \in made'
    BY <1>4, <1>5, <2>5 DEF WillBeTable
  <2>7. WillBeCorpus(todo.steps) => stored' # {}
    BY <1>4, <1>5, <2>5 DEF WillBeCorpus
  <2>8. Helps(told)'
    <3>1. CASE todo.ends = {}
      BY <2>1, <2>4, <3>1
    <3>2. CASE todo.ends = ReadyAdvice /\ WillBeTable(todo.steps)
      BY <2>1, <2>2, <2>6, <3>2
    <3>3. CASE (\E built : todo.ends = IngestedAdvice(built)) /\ WillBeTable(todo.steps)
               /\ WillBeCorpus(todo.steps)
      BY <2>1, <2>3, <2>6, <2>7, <3>3
    <3> QED
      BY <1>1, <3>1, <3>2, <3>3 DEF EndsHelp
  <2>9. /\ todo'.steps = <<>> /\ todo' = [steps |-> todo'.steps, ends |-> todo'.ends]
        /\ todo'.steps \in Seq(StepName) /\ Len(todo'.steps) <= 6
    <3>1. todo'.steps = <<>> /\ todo' = [steps |-> todo'.steps, ends |-> todo'.ends]
      BY <2>1 DEF AtRest
    <3>2. <<>> \in Seq(StepName) /\ Len(<<>>) = 0
      OBVIOUS
    <3> QED
      BY <3>1, <3>2
  <2> QED
    BY <1>3, <2>8, <2>9 DEF UpkeepInv
<1>7. CASE Len(todo.steps) # 1
  <2>1. told' = told /\ todo' = [todo EXCEPT !.steps = Tail(@)]
    BY <1>7 DEF DoStep
  <2>2. /\ todo'.steps = Tail(todo.steps) /\ todo'.ends = todo.ends
        /\ todo' = [steps |-> todo'.steps, ends |-> todo'.ends]
    BY <1>1, <2>1
  <2>3. /\ Tail(todo.steps) \in Seq(StepName) /\ Len(Tail(todo.steps)) = Len(todo.steps) - 1
        /\ \A i \in DOMAIN todo.steps : i # 1 =>
              i - 1 \in DOMAIN Tail(todo.steps) /\ Tail(todo.steps)[i - 1] = todo.steps[i]
    BY <1>1
  <2>4. WillBeTable(todo.steps) => WillBeTable(todo.steps)'
    <3>1. CASE "doc_table" \in made
      BY <1>4, <3>1 DEF WillBeTable
    <3>2. ASSUME NEW i \in DOMAIN todo.steps, todo.steps[i] = "doc_table"
          PROVE  WillBeTable(todo.steps)'
      <4>1. CASE i = 1
        BY <1>4, <1>5, <3>2, <4>1 DEF WillBeTable
      <4>2. CASE i # 1
        BY <2>2, <2>3, <3>2, <4>2 DEF WillBeTable
      <4> QED
        BY <4>1, <4>2
    <3> QED
      BY <3>1, <3>2 DEF WillBeTable
  <2>5. WillBeCorpus(todo.steps) => WillBeCorpus(todo.steps)'
    <3>1. CASE stored # {}
      BY <1>4, <3>1 DEF WillBeCorpus
    <3>2. ASSUME NEW i \in DOMAIN todo.steps, todo.steps[i] \in Source
          PROVE  WillBeCorpus(todo.steps)'
      <4>1. CASE i = 1
        BY <1>4, <1>5, <3>2, <4>1 DEF WillBeCorpus
      <4>2. CASE i # 1
        BY <2>2, <2>3, <3>2, <4>2 DEF WillBeCorpus
      <4> QED
        BY <4>1, <4>2
    <3> QED
      BY <3>1, <3>2 DEF WillBeCorpus
  <2>6. EndsHelp(todo.steps, todo.ends)'
    BY <1>1, <2>2, <2>4, <2>5 DEF EndsHelp
  <2>7. Helps(told)'
    BY <1>1, <2>1 DEF Helps
  <2>8. todo'.steps \in Seq(StepName) /\ Len(todo'.steps) <= 6
    BY <1>1, <2>2, <2>3
  <2> QED
    BY <1>1, <1>3, <2>1, <2>2, <2>6, <2>7, <2>8 DEF UpkeepInv
<1> QED
  BY <1>6, <1>7

\* A command that fails or dies has told nothing, and who deletes something looks anew.
LEMMA StopKeeps == UpkeepInv /\ (FailSemantic \/ StopShort \/ DeleteSomething) => UpkeepInv'
<1> SUFFICES ASSUME UpkeepInv, FailSemantic \/ StopShort \/ DeleteSomething PROVE UpkeepInv'
  OBVIOUS
<1>1. /\ told' = {} /\ root' = root /\ jsonl' = jsonl /\ stored' \subseteq Source /\ made' \subseteq Artefact
  <2>1. CASE FailSemantic \/ StopShort
    BY <2>1 DEF FailSemantic, StopShort, UpkeepInv
  <2>2. CASE DeleteSomething
    BY <2>2 DEF DeleteSomething, UpkeepInv
  <2> QED
    BY <2>1, <2>2
<1>2. todo' = AtRest \/ (todo' = todo /\ todo.steps = <<>>)
  BY DEF FailSemantic, StopShort, DeleteSomething
<1>3. AtRest.steps = <<>> /\ AtRest = [steps |-> AtRest.steps, ends |-> AtRest.ends]
  BY DEF AtRest
<1>4. whims' \in 0 .. MaxWhims
  BY UpkeepAssumption DEF FailSemantic, StopShort, DeleteSomething, UpkeepInv
<1>5. <<>> \in Seq(StepName) /\ Len(<<>>) = 0
  OBVIOUS
<1>6. todo'.steps = <<>> /\ todo' = [steps |-> todo'.steps, ends |-> todo'.ends]
  BY <1>2, <1>3 DEF UpkeepInv
<1>7. Helps(told)'
  BY <1>1 DEF Helps
<1>8. todo'.steps \in Seq(StepName) /\ Len(todo'.steps) <= 6
  BY <1>5, <1>6
<1> QED
  BY <1>1, <1>4, <1>6, <1>7, <1>8 DEF UpkeepInv

LEMMA UpkeepStutter == UpkeepInv /\ UNCHANGED upkeepVars => UpkeepInv'
<1> SUFFICES ASSUME UpkeepInv, UNCHANGED upkeepVars PROVE UpkeepInv'
  OBVIOUS
<1>1. UNCHANGED <<stored, root, jsonl, made, todo, told, whims>>
  BY DEF upkeepVars
<1>2. Helps(told)'
  BY <1>1, HelpsKept DEF UpkeepInv
<1>3. EndsHelp(todo.steps, todo.ends)' <=> EndsHelp(todo.steps, todo.ends)
  BY <1>1 DEF EndsHelp, WillBeTable, WillBeCorpus
<1> QED
  BY <1>1, <1>2, <1>3 DEF UpkeepInv

LEMMA UpkeepNextInv == UpkeepInv /\ [UpkeepNext]_upkeepVars => UpkeepInv'
BY FollowKeeps, OwnKeeps, DoStepKeeps, StopKeeps, UpkeepStutter DEF UpkeepNext

\* The directory, what a command has still to do and what was told, at every moment.
THEOREM UpkeepInvariant == UpkeepInit /\ [][UpkeepNext]_upkeepVars => []UpkeepInv
BY UpkeepInitInv, UpkeepNextInv, PTL

LEMMA UpkeepTyped == UpkeepInv => UpkeepTypeOK
BY DEF UpkeepInv, UpkeepTypeOK

LEMMA UpkeepAdvises == UpkeepInv => AdviceIsRunnable
BY DEF UpkeepInv, AdviceIsRunnable, Helps, Runnable

\* Whatever was ingested, built, deleted, refused or left undone before, and by whatever
\* commands: what is told to type is a line of the command line, and is not refused, or
\* the refusal names what is not (status.rs:100-148, init.rs:95-112, ingest.rs:532-568).
THEOREM AdviceIsRunnableHolds == UpkeepInit /\ [][UpkeepNext]_upkeepVars => []AdviceIsRunnable
BY UpkeepInvariant, UpkeepAdvises, PTL

-----------------------------------------------------------------------------
(* Both of them, one beside the other at rest.                             *)

LEMMA AwayTyped == Away => UpkeepInv
<1> SUFFICES ASSUME Away PROVE UpkeepInv
  OBVIOUS
<1>1. <<>> \in Seq(StepName) /\ Len(<<>>) = 0
  OBVIOUS
<1>2. todo.steps = <<>> /\ todo = [steps |-> todo.steps, ends |-> todo.ends]
  BY DEF Away, AtRest
<1>3. Helps(told)
  BY NothingHelps DEF Away
<1>4. {root, jsonl} \subseteq BOOLEAN
  BY DEF Away
<1>5. /\ stored \subseteq Source /\ made \subseteq Artefact /\ whims \in 0 .. MaxWhims
      /\ told = {}
  BY UpkeepAssumption DEF Away, Source
<1>6. todo.steps \in Seq(StepName) /\ Len(todo.steps) <= 6
  BY <1>1, <1>2
<1> QED
  BY <1>2, <1>3, <1>4, <1>5, <1>6 DEF UpkeepInv

\* Types of the installer and of the upkeep: a command has six steps at most.
THEOREM MCTypesHold == MCSpec => []MCTypeOK
<1>1. MCInit => InstallerInit /\ UpkeepInv
  BY UpkeepInitInv, AwayTyped DEF MCInit
<1>2. [MCNext]_<<installerVars, upkeepVars>> => [InstallerNext]_installerVars /\ [UpkeepNext]_upkeepVars
  BY DEF MCNext
<1>3. MCSpec => InstallerSpec
  BY <1>1, <1>2, PTL DEF MCSpec, InstallerSpec
<1>4. MCSpec => []UpkeepInv
  BY <1>1, <1>2, UpkeepNextInv, PTL DEF MCSpec
<1> QED
  BY <1>3, <1>4, InstallerTypes, UpkeepTyped, PTL DEF MCTypeOK
=============================================================================
