------------------------------ MODULE Install ------------------------------
(***************************************************************************)
(* `sinorag init` (commands/init.rs): a corpus pack is downloaded and      *)
(* extracted over the data root, or the CBETA sources are ingested, and    *)
(* the four indexes are built over what is then in the passage store.      *)
(*                                                                         *)
(* What is there is judged by whether directories and files exist.  A run  *)
(* may fail or die at any step; what it wrote stays.  One run is on at a   *)
(* time (nothing but the installer's mutex sees to that); other commands   *)
(* and the user may change the data root between its steps.                *)
(***************************************************************************)
EXTENDS Naturals

CONSTANTS Layouts,  \* directories a pack has its passages in: "canonical", "raw"
          MaxDeaths \* bound: runs that die

ASSUME LayoutAssumption == Layouts \subseteq {"canonical", "raw"}
ASSUME DeathAssumption == MaxDeaths \in Nat

VARIABLES
    store,   \* passages.parquet ("canonical") and passages-raw.parquet ("raw")
    derived, \* the index files: what each was built over, {} if there is none
    archive, \* .init-download/cbeta-pack.7z
    job,     \* the run that is on
    harm,    \* history: the worst that befell this data root
    deaths   \* history: runs that died

vars == <<store, derived, archive, job, harm, deaths>>

-----------------------------------------------------------------------------
(* The data root.                                                          *)

Corpus == {"cbeta", "other"}
Extent == {"none", "partial", "whole"}
Passages == [Corpus -> Extent]
NoPassages == [c \in Corpus |-> "none"]

\* Each index is renamed into place, and the fingerprint of a table tells over what
\* it was built (DocTable).
Index == {"doc_table", "catalog", "phrase", "tfidf"}
NoIndexes == [i \in Index |-> {}]

Exists(dir) == store[dir] # NoPassages

\* The partition source_corpus=cbeta is there, however little of it.
Present == store.canonical.cbeta # "none"
IndexesExist == \A i \in Index : derived[i] # {}

\* A corpus that can be searched: all of it, under four indexes of what is there.
Ready == /\ store.canonical.cbeta = "whole"
         /\ \A i \in Index : derived[i] = {store.canonical}

\* Whatever is under the raw name becomes the store, if there is none.
Healed == IF Exists("raw") /\ ~ Exists("canonical")
          THEN [canonical |-> store.raw, raw |-> NoPassages] ELSE store

-----------------------------------------------------------------------------
(* Runs.                                                                   *)

InitStage == {"look", "ingest", "pack", "download", "fetch", "extract", "unpack", "rename",
              "table", "catalog", "phrase", "tfidf", "registry", "clean"}
InstallStage == {"check", "payload", "opencode", "shortcuts", "register"} \* of Installer
Stage == InitStage \cup InstallStage \cup {"idle", "end"}

Job == [at : Stage, by : {"cli", "gui"},
        force : BOOLEAN,   \* --force
        raw : BOOLEAN,     \* --from-raw
        build : BOOLEAN,   \* phrase and TF-IDF indexes too
        layout : Layouts \cup {"canonical"}, \* of the pack
        fetched : BOOLEAN, \* it has begun to download
        fresh : BOOLEAN,   \* it has put a corpus there
        failed : BOOLEAN]
Idle == [at |-> "idle", by |-> "cli", force |-> FALSE, raw |-> FALSE, build |-> FALSE,
         layout |-> "canonical", fetched |-> FALSE, fresh |-> FALSE, failed |-> FALSE]

At(stage) == job.at = stage
Goto(stage) == job' = [job EXCEPT !.at = stage]

\* What may have befallen a data root: at worst a run ended before it wrote to it; or the installer
\* did, as it put the program there or later, or a run after the indexes; or it was left without
\* indexes (a run ended before any was built, sources were ingested, a pack was installed without).
Untouched == 0
Unlisted  == 1
Unindexed == 2
\* Or a run ended in the extraction, or among indexes that replace older ones; a corpus
\* was put under older indexes; another corpus came while this one was there; a
\* pack with the raw name while there was a store; the installation was being removed.
Spoiled   == 3
Suffer(h) == harm' = IF h > harm THEN h ELSE harm

TypeOK ==
    /\ store \in [{"canonical", "raw"} -> Passages]
    /\ \A i \in Index : \/ derived[i] = {}
                        \/ \E s \in Passages : derived[i] = {s}
    /\ archive \in {"none", "torn", "whole"}
    /\ job \in Job
    /\ harm \in Untouched .. Spoiled
    /\ deaths \in 0 .. MaxDeaths
    /\ At("unpack") => archive = "whole"

Init ==
    /\ store = [dir \in {"canonical", "raw"} |-> NoPassages]
    /\ derived = NoIndexes
    /\ archive = "none"
    /\ job = Idle
    /\ harm = Untouched
    /\ deaths = 0

-----------------------------------------------------------------------------
(* run, run_from_pack_url_blocking, build_local_indexes.                   *)

\* Runs begin over a data root that is not spoiled: of another nothing is claimed.
MayBegin == At("idle") /\ harm < Spoiled

StartInit(force, raw, layout) ==
    /\ MayBegin
    /\ job' = [Idle EXCEPT !.at = "look", !.force = force, !.raw = raw,
                           !.build = ~ raw, !.layout = layout]
    /\ UNCHANGED <<store, derived, archive, harm, deaths>>

\* A corpus that is there is kept, whatever sources are named; what indexes are
\* missing are all built again.
Look ==
    /\ At("look")
    /\ IF Present /\ ~ job.force
       THEN job' = [job EXCEPT !.build = TRUE, !.raw = FALSE,
                       !.at = IF IndexesExist THEN "end" ELSE "table"]
       ELSE Goto(IF job.raw THEN "ingest" ELSE "pack")
    /\ UNCHANGED <<store, derived, archive, harm, deaths>>

\* ingest::run, which promotes what it has staged (Ingest).
IngestRaw ==
    /\ At("ingest")
    /\ store' = [store EXCEPT !.canonical.cbeta = "whole"]
    /\ job' = [job EXCEPT !.at = "table", !.fresh = TRUE]
    /\ Suffer(Unindexed)
    /\ UNCHANGED <<derived, archive, deaths>>

\* Where run_from_pack_url_blocking returns to.
AfterPack == IF job.by = "cli" THEN "end" ELSE "opencode"

\* It is told no --force by either of its callers.
FromPack ==
    /\ At("pack")
    /\ IF Present THEN Goto(AfterPack)
       ELSE job' = [job EXCEPT !.at = "download", !.fetched = TRUE]
    /\ UNCHANGED <<store, derived, archive, harm, deaths>>

\* An archive a run left when it died is overwritten.
Download ==
    /\ At("download")
    /\ archive' = "torn"
    /\ Goto("fetch")
    /\ UNCHANGED <<store, derived, harm, deaths>>
Fetched ==
    /\ At("fetch")
    /\ archive' = "whole"
    /\ Goto("extract")
    /\ UNCHANGED <<store, derived, harm, deaths>>

\* extract_7z writes file after file under the name the archive has for them.
StartUnpack ==
    /\ At("extract")
    /\ store' = [store EXCEPT ![job.layout].cbeta = "partial"]
    /\ Goto("unpack")
    /\ UNCHANGED <<derived, archive, harm, deaths>>

\* The directory may have been renamed meanwhile (Status): then this is the rest.
EndUnpack ==
    /\ At("unpack")
    /\ store' = [store EXCEPT ![job.layout].cbeta = IF @ = "partial" THEN "whole" ELSE "partial"]
    /\ job' = [job EXCEPT !.at = "rename", !.fresh = TRUE]
    /\ UNCHANGED <<derived, archive, harm, deaths>>

RenameRaw ==
    /\ At("rename")
    /\ store' = Healed
    /\ Suffer(IF Exists("raw") /\ Exists("canonical") THEN Spoiled ELSE Untouched)
    /\ Goto("table")
    /\ UNCHANGED <<derived, archive, deaths>>

\* The table is built from scratch, the catalog under it.
BuildTable ==
    /\ At("table")
    /\ derived' = [derived EXCEPT !.doc_table = {store.canonical}]
    /\ Goto("catalog")
    /\ UNCHANGED <<store, archive, harm, deaths>>
BuildCatalog ==
    /\ At("catalog")
    /\ derived' = [derived EXCEPT !.catalog = derived.doc_table]
    /\ Goto(IF job.build THEN "phrase" ELSE "registry")
    /\ Suffer(IF job.build \/ derived.phrase \cup derived.tfidf \subseteq derived.doc_table
              THEN Untouched ELSE Spoiled)
    /\ UNCHANGED <<store, archive, deaths>>

\* Mutant of IsCurrent: an index that is there will do.
IsThere(i) == derived[i] # {}

\* phrase_index_is_current, tfidf_index_is_current: by the fingerprint of the table.
IsCurrent(i) == derived[i] = derived.doc_table
BuildUnlessCurrent(i) ==
    derived' = IF IsCurrent(i) THEN derived ELSE [derived EXCEPT ![i] = derived.doc_table]

BuildPhrase ==
    /\ At("phrase")
    /\ BuildUnlessCurrent("phrase")
    /\ Goto("tfidf")
    /\ UNCHANGED <<store, archive, harm, deaths>>
BuildTfidf ==
    /\ At("tfidf")
    /\ BuildUnlessCurrent("tfidf")
    /\ Goto("registry")
    /\ UNCHANGED <<store, archive, harm, deaths>>

InitRegistry ==
    /\ At("registry")
    /\ Goto(IF job.fetched THEN "clean" ELSE "end")
    /\ UNCHANGED <<store, derived, archive, harm, deaths>>

\* Whatever came of the download, the extraction and the builds.
Clean ==
    /\ At("clean")
    /\ archive' = "none"
    /\ Goto(IF job.failed THEN "end" ELSE AfterPack)
    /\ UNCHANGED <<store, derived, harm, deaths>>

Return ==
    /\ At("end")
    /\ job' = Idle
    /\ UNCHANGED <<store, derived, archive, harm, deaths>>

-----------------------------------------------------------------------------
(* Failures, and what else happens to the data root.                       *)

HarmAt(stage) ==
    CASE stage \in {"unpack", "rename"} -> Spoiled
      [] stage \in {"table", "catalog", "phrase", "tfidf"} ->
            IF \A i \in Index : derived[i] \subseteq {store.canonical} THEN Unindexed ELSE Spoiled
      [] stage \in {"payload", "registry", "clean", "opencode", "shortcuts", "register"} -> Unlisted
      [] stage \in {"pack", "download", "fetch", "extract"} ->
            IF job.by = "gui" THEN Unlisted ELSE Untouched
      [] OTHER -> Untouched

\* Mutant of Fail: the exit status of curl is not looked at.
FailUnseen ==
    /\ At("fetch")
    /\ Goto("extract")
    /\ UNCHANGED <<store, derived, archive, harm, deaths>>

\* An error of the network, the archive, the disk or a build.
Fail ==
    /\ job.at \in {"ingest", "download", "fetch", "extract", "unpack", "rename",
                   "table", "catalog", "phrase", "tfidf", "registry"}
    /\ Suffer(HarmAt(job.at))
    /\ job' = [job EXCEPT !.failed = TRUE, !.at = IF job.fetched THEN "clean" ELSE "end"]
    /\ UNCHANGED <<store, derived, archive, deaths>>

Die ==
    /\ job.at \notin {"idle", "end"} /\ deaths < MaxDeaths
    /\ Suffer(HarmAt(job.at))
    /\ deaths' = deaths + 1
    /\ job' = Idle
    /\ UNCHANGED <<store, derived, archive>>

\* heal_raw_parquet of `sinorag status`; during an extraction it takes the directory
\* from under it.
Status ==
    /\ Healed # store
    /\ store' = Healed
    /\ Suffer(IF At("unpack") THEN Spoiled ELSE Untouched)
    /\ UNCHANGED <<derived, archive, job, deaths>>

\* Between runs another corpus is ingested by its own command, and before this one
\* comes the user may build a table, or all indexes, over it.
IngestOther ==
    /\ MayBegin /\ store.canonical.other = "none"
    /\ store' = [store EXCEPT !.canonical.other = "whole"]
    /\ Suffer(IF Present THEN Spoiled ELSE Untouched)
    /\ UNCHANGED <<derived, archive, job, deaths>>
IndexOther(all) ==
    /\ MayBegin /\ Exists("canonical") /\ ~ Present
    /\ derived' = [i \in Index |-> IF all \/ i = "doc_table" THEN {store.canonical}
                                   ELSE derived[i]]
    /\ UNCHANGED <<store, archive, job, harm, deaths>>

-----------------------------------------------------------------------------
\* What the installer runs too, in its own thread.
PackStep == \/ FromPack \/ Download \/ Fetched \/ StartUnpack \/ EndUnpack \/ RenameRaw
            \/ BuildTable \/ BuildCatalog \/ BuildPhrase \/ BuildTfidf \/ InitRegistry \/ Clean
            \/ Fail

Begin == \E force, raw \in BOOLEAN, layout \in Layouts : StartInit(force, raw, layout)
Others == Status \/ IngestOther \/ \E all \in BOOLEAN : IndexOther(all)

Next == Begin \/ Look \/ IngestRaw \/ PackStep \/ Return \/ Die \/ Others

Spec == Init /\ [][Next]_vars

-----------------------------------------------------------------------------
(* What a run that says it succeeded has done.                             *)

\* However many runs before it failed or died, in the download, among the indexes or
\* after them, and whatever indexes of another corpus were there: an init that
\* reports success leaves the whole corpus under four indexes of what is in the
\* store ("After init, all tools are ready", init.rs:11-12).  Not so after a run that
\* ended in the extraction, or one that ended among indexes it had begun to replace:
\* what is there counts as done; nor with --force, which looks at no index.
InitEndsReady ==
    /\ At("end") /\ job.by = "cli" /\ ~ job.failed /\ ~ job.raw
    /\ job.force => job.fresh
    /\ harm <= Unindexed
    => Ready

\* "Use --force to re-initialize if the corpus is already present" (README.md:103).
ForceReinitializes ==
    At("end") /\ job.by = "cli" /\ job.force /\ ~ job.failed => job.fresh

=============================================================================
