# A formal model of SinoRAG

SinoRAG builds a local research corpus of Chinese Buddhist texts and answers questions about it, as a command-line program (`sinorag`) and as an MCP server for agents.  This directory holds TLA+ modules for the parts of it that keep state on disk, can be interrupted or raced, are fed in an order no test wrote down, or cut and merge lists in ways that are hard to test; the TLC configurations that check them; and proofs, checked by TLAPS, of most of what these parts promise on disk: the document table and the engine that serves from it while files change, the CBETA ingest as an implementation of the store it promises, the embedding cache and the vector index, the batch runner, the work registry, and the installation.

Paths of source files below are relative to `src/src/`, those of the installers to `src/gui-installer/`.

Contents: [inventory](#inventory), [what is hard](#what-is-hard-to-test-here), [plan](#plan), [modules](#modules), [runs](#runs-and-bounds), [fairness](#fairness), [proofs](#proofs), [what the model shows of the code](#what-the-model-shows-of-the-code), [limits](#what-is-not-modelled-and-what-is-abstracted).

## Inventory

### The system

Each command is a process of its own.  The commands communicate through files under the data directory, which have no locks: two commands may run together, and any of them may die between two system calls.  A serving process (MCP server or `run-tools`) reads the same files while commands replace them.

    distributions of CBETA --merge-cbeta--> xml-merged
                                                |
    XML, GD-CEF, saved pages --ingest*--> staging directory --promote--> passages.parquet/source_corpus=<id>/
       (CEF, pages and dictionaries: written in place)  ^                      |
                     release archive --init, installer--+                      |
                                          doc-table build [--append-to] <------+
                                                    |                          |
                                   doc_table.bin, .lineage.json                |
                                                    |                          |
               index phrase / tfidf / catalog, vector-update, vector-build <---+
                                                    |
        phrase.index  tfidf.index  catalog.index  vector.index + HNSW dump  embeddings cache
                                                    |
        ToolEngine: tools, workflows, batches, MCP <---> registry.sqlite, tool log, runs/

### Components

| Component | State it keeps | Operations | Modelled by |
|---|---|---|---|
| Document table and index coverage (`document_table.rs`, `commands/document_table.rs`, `commands/mod.rs`) | `doc_table.bin`, `doc_table.tmp`, lineage sidecar, the headers of the indexes | build from scratch, append, atomic save, sidecar write or removal, coverage check, build all that are not current | `DocTable` |
| CBETA ingest (`commands/ingest.rs`, `storage.rs`) | staging directory, part files, checkpoint, JSONL, partition | start, resume, batch, checkpoint, promote, append JSONL, sweep | `Ingest`, `CorpusStore` |
| CEF, Terebess and dictionary ingest, metadata patch (`commands/cef.rs`, `ingest_terebess.rs`, `dict.rs`, `patch_metadata.rs`) | part files written under their final names | validate, write, patch part by part | `DirectIngest` |
| CBETA merge (`commands/merge_cbeta.rs`) | `xml-merged`, merge manifest | scan, choose the largest source of each work, copy | `MergeCbeta` |
| TEI parsing and normalisation (`tei.rs`, `normalize.rs`, `cbeta_sidecar.rs`) | the passage that is open | what is known of a work; one pass over the events | `CbetaXml` (partly) |
| Phrase index (`phrase_index.rs`, `research_tools/phrase.rs`, `text_analyzer.rs`) | bucket, run, entry and postings files; the index | scan, spill, sort, merge, write; gram search | `PhraseIndex` |
| TF-IDF index (`tfidf/index.rs`) | working directory with counts, vocabulary, postings, progress file; the index | count, merge, select, post, merge, write, resume | `TfidfBuild` (weights left out) |
| Vector index files (`vector_index/mod.rs`, `commands/vector_index.rs`) | `vector.index`, its temp, two HNSW dump files | build, `--resume`, dump | `VectorBuild` (search left out) |
| Embedding cache and vector update (`embedding/cache.rs`, `embedding/build.rs`) | append-only JSONL cache, work in memory | load, reuse, embed, append, build | `EmbeddingCache` |
| Catalog index (`commands/catalog_index.rs`, `catalog_index.rs`) | the outline tree | walk, totals, lookups, outline queries | `Catalog` |
| Tool engine: the tools (`tools/engine.rs`, `research_tools/`) | the cursor a reader gives back | search, attestation, term usage, pairs, mentions, citations, seeds, outline, context, reading | `Passages`, `Catalog`, `PassageTools`, `SourceRead`, `Tools` (partly) |
| Workflow tools and the calls of an engine (`tools/engine.rs`, `tools/registry.rs`, `mcp/server.rs`) | one OnceCell per artefact, a time budget per call | envelope, safety check, components, limits, hybrid merge, concurrent batch of phrases | `Workflow` |
| Index and table cache of the engine (`tools/engine.rs`) | table and indexes opened once | load, check, open | `IndexServing` |
| Batch runner (`tools/batch.rs`, `run_batch_impl`) | pending jobs, outcomes | dependency loop, concurrent stream | `BatchJobs` |
| MCP server and tool contract (`tools/requests.rs`, `registry.rs`, `errors.rs`, `log.rs`, `commands/tools_manifest.rs`) | tool log | manifest, artefact resolution, refusals, suggestions, log | `ToolSpecs`, `ToolCalls` |
| Work registry (`registry/mod.rs`) | `registry.sqlite`: items, observations, edges | catalog runs in chunks, record, link | `Registry` (readers left out) |
| Release download and install (`commands/init.rs`) | data root, archive | look, download, extract, rename, index, clean | `Install` |
| Windows installers and uninstaller (`gui-installer/`) | window, event queue, Apps entry, shortcuts | install thread, window, uninstall | `Installer` |
| Command line, setup and agent doctrine (`cli.rs`, `commands/status.rs`) | what was told last | accept a line, advise, follow the advice | `CommandLine`, `Upkeep` |
| Pack building, authority ingest, query layer, retrieval scores, templates, phrase history, weight quantisation, ingest manifest, embedding providers, vendored crates | see `PROJECT.json` | | not modelled |

`PROJECT.json` lists the same parts with their files and the reason for each one that is left out.

### What makes each component correct

* **Document table.** Doc ids are array positions: dense, unique, never reassigned by an append. An index accepted by the coverage check resolves every doc_id it posts to the passage it was built from. Once an append has settled, the indexes of its predecessor are still usable.
* **Ingest.** A partition promoted from a directory that one run at a time was in holds every passage of the corpus once; an interrupted and resumed run loses at most what its checkpoint protocol allows; a partition is published at most once and whole. A command that writes in place leaves, after a run that ended alone, what it was given.
* **Merge and XML.** The merged directory holds each work whole, from one source and with no less than GitHub or the ISO has of it; a passage has the text, heading and lines of its own element and of no other.
* **Phrase index.** The published index lists for every gram exactly the passages that contain it, whatever died before; searching it finds what scanning the texts finds.
* **TF-IDF.** The vocabulary is the one the document frequencies of the store select; posting lists name each document once; a resume neither loses nor repeats a unit of work.
* **Vector index and embedding cache.** Index and HNSW dump belong together. A vector is served only for the text it was computed from; nothing is embedded twice; an index with holes is refused.
* **Catalog and tools.** A node stands for its own passages; the lists that tools cut, filter and merge are what they say; a reader who follows the cursors misses nothing.
* **Engine.** A table loaded long ago and an index opened now agree about every doc_id. Every call is answered within its budget, and what failed, timed out or was skipped is reported.
* **Batch runner.** Every line of the input is reported exactly once, a job runs if and only if its dependencies ran and succeeded, and the batch ends.
* **Tool contract.** What the manifest calls available can be called, what a reply suggests is understood, the log says what was called.
* **Registry.** A row is of an artefact that was there; two artefacts of one seed whose writers ended are linked.
* **Install and upkeep.** A run that reports success leaves a corpus under indexes of that corpus; the window tells the truth of the thread; the advice can be typed, is accepted, and leads to a complete data directory.

## What is hard to test here

`PROJECT.json` lists the hazards at their lines with the properties that would catch them.  In short:

1. *Death between two system calls*: the table is renamed before its sidecar is settled; the index before its graph; counts before the progress line; the checkpoint is truncated in place; parts are written where they are read.
2. *Two processes on the same names*: one `doc_table.tmp`, which one build may have open when another renames it, one `vector.index.tmp`, one partition name, one staging directory that a resume takes from a run that is still in it, one registry.
3. *Fingerprints that outlive what they describe*: an index is judged by its header against a table read earlier and a sidecar read now.
4. *Work taken up again*: staging directories, TF-IDF working directories, caches, dumps, merged files and half-extracted data roots left by a process that died, possibly made from another store.
5. *Boundaries*: batches that straddle files and checkpoints, part numbers, evicted bucket writers, varints of several bytes, chunks of characters with an overlap.
6. *Dependency graphs nobody wrote*: ids used twice, missing, cyclic; failures that end the batch while calls are in flight.
7. *Tasks that share cells and a clock*: a component dropped at its limit while it fills a cell another call waits for.
8. *Order of limit, filter and merge* in the tools, each of its own.
9. *One part of the program speaking of another*: the manifest of the engine, a reply of the next tool, status of the commands.
10. *A window and a thread* that report to each other late.

## Plan

The plan of the first version was DocTable, Ingest, VectorBuild, EmbeddingCache, BatchJobs, PhraseIndex, TfidfBuild, IndexServing, and then Install, Registry, MergeCbeta, CorpusStore with Ingest as its implementation, and the tools.  All of it exists.  What is left, in the order of its worth:

1. Proofs that are still worth their length: what `DirectIngest` keeps of the parts, and that a reading by cursors skips nothing, for every length (`SourceRead`).
2. Readers of the registry beside its writers, and the identity tables that a pack brings (`commands/build_pack.rs`, `pack.rs`).
3. A vector search that opens index and dump in two steps while both are replaced.

Each run asks one question; a composition checks only what its parts do not say by themselves.

## Modules

The actions of a module carry the names of the functions they stand for; `PROJECT.json` gives the lines of every definition.

### DocTable

`document_table.rs`, `commands/document_table.rs`, and from `commands/mod.rs` the currency checks and `build_all_indexes`.

| Variable | In the code |
|---|---|
| `parquet` | passages.parquet: passage -> version of its text |
| `table`, `temp` | `doc_table.bin`; `doc_table.tmp`: absent, or what has been written of it so far |
| `lineage` | `doc_table.bin.lineage.json`: absent, torn (truncated, not yet filled) or whole |
| `index` | the index file of each kind: fingerprint of its header, the doc_id of each passage it posts, the text it was built from |
| `job` | what each process has in memory, which call comes next, and where the file lies by now that it has open (`fd`) |
| `owner`, `settled`, `renumbered` | history: whose table is in place, whether that process has settled the sidecar, whether the sidecar may belong to a numbering that was replaced or overwritten |

A fingerprint is a SHA-256 over the base fingerprint and the passage ids in doc_id order; the model takes the sequence of assignments that it determines (collisions aside), so that a table *knows* its history.  `std::fs::write` of the temp file is two steps, `OpenTemp` (it truncates) and `WriteTemp`; a rename by another process in between carries the open file to the place of the table, and the late write then replaces the table there (`Fill`, `Moved`).  Actions: `StartScratch`/`StartAppend` (read the store, compute the table), `OpenTemp`, `WriteTemp`, `RenameTemp`, then `DeleteLineage`, or `TruncateLineage` and `WriteLineage`; `BuildIndex`/`BuildIfNotCurrent`, `ScanPassages`, `PublishIndex`; `Crash`, which may tear what was being written; and the store: `AddPartition`, `DeletePartition`.  `CoverageIsSound` has two parts, for an index accepted as Full and as Base; `LineageIsTrue` says that a readable sidecar names an ancestor unless `renumbered` (`LineageNamesAncestor`), and that one settled by the build whose table is there names the immediate predecessor (`SettledNamesPredecessor`).  `LineageNamesPredecessor` says so of any two builds that ended, and is refuted.

### IndexServing

The caches of `ToolEngine` (`doc_table()`, `ensure_*_matches_doc_table`, `phrase_index_search_impl`, `tfidf()`), beside the processes of `DocTable`.  `cached` is the OnceCell of the table.  `request` goes from reading the header (`ReadHeader`, before the table is asked for, as in the code) to `MatchHeader` (the check, with the kept table and the sidecar of now) to `OpenIndex` (the file of now).  A phrase index is closed with its request; the TF-IDF index is never closed, which is the behaviour in which `CloseIndex` is not taken; a mapped file keeps its contents when another is renamed over its name.  `steady` is a history variable: since the engine began to look, the others have only appended to the table and published indexes of it.

### Ingest and CorpusStore

`Ingest` is `commands/ingest.rs` and the part files of `storage.rs`.  `staging[d]` is a staging directory (parts, whether it has a JSONL, checkpoint), `published` the partition, `out_jsonl` whether there is a JSONL next to it.  A process goes file by file and row by row (`EmitRow`), writes a part when the batch is full (`WritePart`), a checkpoint every `Interval` files (`FinishFile`, `WriteCheckpoint`), the last part and the JSONL at the end, and then promotes: check, rename, move the JSONL or append it, sweep.  `Resume(p, d)` reads the checkpoint of any directory, one that a run is in included: `--resume <dir>` names one, `--resume auto` takes the one modified last, and neither asks whether a run is alive.  `StartFresh` may take the directory of a run that started in the same second.  From then on the directory is `shared`: each run truncates and rewrites the parts and the checkpoint of the other, and a part that one has open follows the directory when the other promotes it (`fd`).

`CorpusStore` is what all this promises: passages appear in one step and stay until the user deletes them; a run that was never interrupted stores each once, one that was resumed once may miss up to one open batch and stores none twice, and of any other nothing is promised; a partition from a shared directory may even change after it has appeared, and no other may.  `ImplementsCorpusStore` is the refinement (`INSTANCE CorpusStore WITH` a mapping from the partition to its multiset of passages).  `IngestIsExact` joins the types, `UninterruptedIsExact` and `LosesOnlyTheBatch`.

### DirectIngest

`ingest-cef`, `ingest-terebess`, `ingest-dict` and `patch-metadata`, which write their part files where they are read.  A file is created empty under its name and is readable once closed.  CEF validates, then writes parts from 0; Terebess counts its parts up from what is there; a dictionary source has a partition of its own; a patch reads each part, writes a temp and renames it, part after part, while others write.  `StoreIsWhatWasIngested` says what is there after runs that ended alone, and what a death or a racing patch may cost.

### MergeCbeta and CbetaXml

`MergeCbeta`: per work the largest of up to three distributions, its files copied one by one with deaths in between, over what earlier merges left; and what `ingest cbeta <out>` then finds there.  A distribution without XML ends the run, `--extra` included; only a `--extra` that was not given (`NotGiven`) is passed over.  `MergeLosesNothing` leaves open who wins a work that `--extra` contests, since the code and its heading disagree (below).  `CbetaXml` goes through one file event by event (`ReadStart`, `ReadEmpty`, `ReadText`, `ReadEnd`, `ReadOther`): a passage opens, text is added, notes and heads are entered and left, a division is pushed and popped, the passage is closed or given up; what is known of the work comes from the header, the analysis and the work list (`Meta`, `ReadMeta`).  `XmlIsReadRight` compares the passages with a definition by position in the document, not by state (`PassagesAreTheText`), and the metadata with its precedence (`WorkIsKnown`).

### PhraseIndex

`phrase_index.rs` and the search of `research_tools/phrase.rs`.  The four phases of the build with their files: records appended to bucket files through at most `MaxOpen` writers, sorted runs of `ChunkRecords`, a merge that passes over the runs it cannot open (`OpenRuns`; what they held is `missed`), drops repeated records and encodes each list as varints of deltas or as a bitmap, entries, final file, rename.  A varint is a sequence of digits of base `Radix` with a continuation flag, a bitmap the set of its bits.  `Hash` maps grams to hashes and two grams of the instance have the same.  `FindGram` is the binary search over the entries, `Candidates` the intersection, `PhraseRows` the verification against the texts, the doc range and the limit.  `PhraseIsExact` joins `PostingsAreExact` and `IndexAgreesWithScan`; of a build that lost runs they say that nothing else is missing.

### TfidfBuild

`tfidf/index.rs`: counting by threads, merging, selecting the vocabulary, saving it in three files, posting, merging, and the emission of the index.  `work` is the working directory.  A write appends to a file and a death may cut it (`CutWrites`, in which at most one record more than the last whole one is left unfinished); a file with a torn record misreads what follows it.  `Resuming` and what `Start` keeps are the rules of the code.  `TfidfIsExact` joins the types, `VocabularyIsExact`, `PostingsAreExact`, `NoDocumentIsLost` and `CheckpointBeforeRemoval`.

### VectorBuild and EmbeddingCache

`VectorBuild`: `write_index` and `build_and_dump_hnsw`, and the `--resume` decision of `commands/vector_index.rs`.  A file is what was put into it and the processes that still have it open; a rename moves the file and not the handle.  `EmbeddingCache`: the cache file is a sequence of pieces, two to a line (a head, and a tail with the newline), so that an append cut short leaves a head to which the next line is glued; what is pending is a set, embedded in the order of doc_ids; the table and the store change between the steps of an update.  `kept` and `tears` are history: the last record of a doc_id that was written to its end, and how many appends were cut short.  `IndexIsOfTheStore` joins `VectorsAreOfTheText`, `EveryPresentIsIndexed` and `KeptIsNotEmbedded`.

### BatchJobs

`tools/batch.rs` and `run_batch_impl` of `tools/engine.rs`, which repeat one loop with small differences: `frontend` says which one runs.  A job is its line; what is left of a pass and what it postponed are the sets `pending` and `postponed`, taken in the order of the lines.  The initial states are all batches of up to `MaxJobs` lines.  A batch of `run-tools` without dependencies runs through `buffer_unordered` if `--jobs` is more than one (`StartCall`, `CallReturns`); otherwise it is one pass of the loop.

### ToolSpecs, CommandLine and ToolCalls

`ToolSpecs` is the contract as data: the arguments of each request struct, what each tool declares to require, which artefacts its implementation opens, what a reply suggests, and which commands a refusal names.  `CommandLine` is the grammar of `cli.rs`: a line is a command and the set of its flags.  `ToolCalls` plays agents against them: where an artefact is found (a file named on the command line, the pack, the data directory), the refusals, the suggestions that depend on what was called lately, and the log, to which two agents append and in which a record may be torn.

### Passages, Catalog, PassageTools, SourceRead, Tools

`Passages` is the store as the tools read it and the order in which a work is read.  `Catalog` is the walk of `catalog-index-build` that grows the tree, level by level, and what is asked of it: outline search, absence, representatives, the adaptive climb of the command and of the tool.  `PassageTools` are the tools that put several cut lists of hits together, `citation-verify` and `seed-pick` among them, each against a definition over the whole store.  `SourceRead` is the reading of a work chunk by chunk; its only state is the answer in front of the reader, with the cursors.  `Tools` composes them.  `OutlineIsTheTree` includes that the catalog is the store's (`CatalogIsTheStore`); `ResultsAreExact` is the conjunction of `SearchIsTheFirst`, `AttestationIsEarliest`, `PairsAreExact`, `PairSharesAreShares`, `MentionsAreTheEarliest`, `CitationIsJudged` and `SeedsReachAll`.  `CitationIsJudged` takes every work: the scope is the range of doc_ids between the first and the last passage of the work, whatever lies in it; `CitationIsOfTheWork`, which says what the description of the tool says, is refuted.

### Workflow

Two calls of one engine, the cells they share, and a clock.  A call is accepted or refused (`Admit`), goes through the components of its plan (`Begin`, `Skip`, `Claim`, `Fill`, `FillFails`, `CheckPhrase`, `Work`, `Rejects`, `Expire`) and is answered (`Answer`).  A component is dropped only where it awaits.  An adjudication that does not validate (`Rejects`) ends the plan of `report-from-evidence` after its first component: the call answers OK with that one and a warning, and graph and report are neither run nor reported.  `BatchStart` and `BatchReturns` are the concurrent phrases of batch-evidence-search.  `HonestReport` includes that every component that was on is reported with the status it had, in the order of the plan, and that those never reached are those that an exhausted budget or a rejected adjudication cut off, with the warning of it (`ComponentsAreReported`), that only a mandatory component can fail the call (`OptionalNeverFails`), the budget, the order of the merged hybrid hits and of the batch.

### Registry

Every call is catalogue or record; a listing is cut into chunks, which are sets of its places that are taken least first; a call parses each artefact of a chunk, writes it in a transaction (`WriteBatch`), and links: a select over a second connection (`LinkSelect`), inserts one by one (`LinkInsert`).  `Fail` is a failure or death at any of these.  `rows` are the edges a process has computed, `mine` and `linked` history: who wrote an item last, and which items' writers have ended.

### Install, Installer and Upkeep

`Install` is `init`: every branch, the download, the extraction directory by directory, the rename of a raw layout, the four indexes, the cleaning, with a failure or death at any step, other corpora ingested in between.  `harm` is a history variable that says what befell the data root.  `Installer` is the window, the thread and the queue between them, over `Install`, with the uninstaller and a new version.  `Upkeep` is a person who looks (`LookAround`), does what the program advises (`FollowAdvice`, `DoStep`) and has whims: commands nobody told, deletions, failures.

### MC modules and proofs

`MC*` give the constants that are not model values, symmetry, and the compositions of one run: `MCIngest` (Ingest, DirectIngest), `MCLexical` (TfidfBuild, PhraseIndex, MergeCbeta, CbetaXml), `MCDerived` (EmbeddingCache, VectorBuild, Registry), `MCBatchJobs` (BatchJobs, ToolCalls), `MCCalls` (MCBatchJobs, Workflow), `MCInstaller` (Installer, Upkeep).  The parts composed there share no files, or run one after the other, so that their steps commute: each is explored with the others at rest.  The theorems are in `DocTable_proofs` (of `DocTable` and `IndexServing`), `TfidfBuild_proofs`, `Ingest_proofs` (of `Ingest` and `MergeCbeta`), `VectorUpdate_proofs` (of `EmbeddingCache` and `VectorBuild`), `BatchJobs_proofs` (of `BatchJobs` and `ToolCalls`), `Workflow_proofs`, `Registry_proofs` and `Installer_proofs` (of `Install`, `Installer` and `Upkeep`).

## Runs and bounds

| Run | Module, cfg | Question | Bounds |
|---|---|---|---|
| `doctable` | `MCDocTable` | Two processes build, append and die anywhere, also while one has the file open that the other renames, as partitions come and go, and one of them indexes: is what the coverage check accepts sound, and does the sidecar tell the truth? | 2 passages in 2 partitions, chain of 2 builds, constraint `IndexersAreAlone` |
| `lineage_race` | `MCDocTable`, LineageRace | violation: two builds race, and nobody dies | as `doctable`, specification `RacingSpec` |
| `serving` | `MCIndexServing` | Does an index opened now resolve through a table read long ago? | as `doctable` with 1 process, constraint `StillSteady` |
| `ingest` | `MCIngest` | What is in the promoted partition after deaths, resumes, of runs still alive too, and deletions, and does `Ingest` implement `CorpusStore`? Beside it: what do the commands that write in place leave? | files of 1 and 2 rows, batch 2, a checkpoint after each file, 2 processes, 2 directories, 1 resume each, constraint `SharedIsAlone`; 2 writers, parts of 2 rows, 3 runs |
| `ingest_loss` | `MCIngest`, Loss | violation | files of 2, 1 and 3 rows, 1 process |
| `lexical` | `MCLexical` | Are the lexical indexes exact after builds that died and were taken up again, or lost a run? And before them: does an XML file give its passages, and does a merge lose anything? | phrase: 9 stores of 4 documents, 2 characters, grams of 2, 8 hashes with one collision, 3 buckets, 2 open writers, runs of 2, 1 of them lost, varint base 2; tfidf: 2 units, 4 documents, 4 terms, 2 buckets, 2 threads, 1 death, 1 change; merge: 3 releases, 3 runs; XML: about 1500 files of up to three nested elements |
| `derived` | `MCDerived` | Are vectors of the text they are served for, and is the index whole? Beside it: do index and dump belong together? And: are rows of the registry of artefacts, and is finished work linked? | 2 passages, 2 texts, 3 tables, 6 pieces of lines, 1 death; 2 contents, 2 processes; 2 callers, 3 artefacts (one may be broken) and a recording, chunks of 2, limit 3, 3 calls, 1 edit |
| `tools` | `MCTools` | Is the catalog the store's, are the lists of the tools what they say, and does a reader miss anything? | every store of 4 passages in 7 shapes, the ids in scan order or not; limits 1 and 2; two stores with longer texts, chunks of 6 to 12 characters |
| `citation_scope` | `MCTools`, Citation | violation | as `tools` |
| `calls` | `MCCalls` | Do dependencies decide, is every line reported, does a batch end? Beside it: do manifest, replies and log agree with the calls? And: is every call of a workflow answered, within its budget, with an honest report? | 2 ids, 3 lines, 2 workers; 2 agents, `Recent` 1 in place of 12, log of 3, 1 torn record; every set of artefacts for the manifest, two of them followed through; 2 calls, one of any workflow; 3 ticks, 1 replaced file |
| `install` | `MCInstaller` | What has a run that reports success done, and what did the window show? Beside it: where does the advice lead? | packs of both layouts, 1 death, a window at most 1 event late; 3 whims |
| `install_force` | `MCInstaller`, Force | violation | no deaths |

A run with *beside it* explores two or three systems, each with the others at rest.  They share no files, or run one after the other, so a step of one neither enables nor disables a step of the other, and no property reads both.

Why the bounds are enough for the cases that matter:

* A renumbering needs two passages, of which the lower comes later; a chain of two builds has a predecessor, and after a third build the sidecar names something other than the first.  In `serving` exploration ends where `steady` ends, since `steady` never becomes true again and the one property that reads it says nothing from there on.  `IndexersAreAlone` lets builds of table and sidecar race freely and gives a process that indexes the files for itself; the proofs have no such bound.  `SharedIsAlone` keeps a second directory from being made once two runs are in the first: what they do to the one partition is explored, with any other run dead or before it; the proofs do without.
* Rows 1 and 2 with batches of 2 put a batch across a file boundary and leave a partial last part; the larger corpus of `ingest_loss` has files that end within a batch, at its end and beyond it.
* One lost run (`MaxLost`) is enough to take a gram from one document and leave it in another; buckets are merged one by one, so a second adds only its own records to what is missing.
* In `PhraseIndex` the buckets outnumber the open writers, a list takes more than one run, deltas take more than one digit, and with a threshold of two of four documents both encodings occur and meet in one intersection.
* In `TfidfBuild` the limits `MinDf`, `MaxDf` and `MaxFeatures` each exclude a term for some store, a tie is broken by hash, and both threads write to each bucket.  After the one death of a directory the user may clear it by hand (`ClearWork`) and start another.
* The seven shapes of `tools` are two corpora, works with two files, a work that two corpora have, and div_paths that nest, come back and differ only in a blank segment; with four passages each can meet each.  A chunk of 6 to 12 characters over texts of up to 16 has stops at its ends, within its window and nowhere.
* Two calls suffice for a cell that one claims and the other waits for; three ticks of half the smallest enforceable limit pass any limit before, at and after its component.
* Three lines with two ids give duplicates, self-dependency, mutual dependency, dangling ones and jobs without id.  Of two batches that differ in the names of the ids only, one is explored (`FirstIdIsX`).
* Six pieces are three lines of the embedding cache: a record, a torn one and what is glued to it, each for two passages that trade their doc_ids.
* In the registry one packet, one report, a survey of two passages and a recording give items that share a seed, an item that is rewritten and a select that its limit cuts.
* One death of `init` at any step followed by any number of further runs gives every kind of leftover; three whims lead to every set of files that `status` tells apart.

Deadlock is checked in `calls`, `lexical`, `tools` and `citation_scope`.  The other systems may stop: nobody has to build, ingest or install, and with the bounds used up nothing may be left to do.

Every property of a passing run has a mutant, named `as` in `PROJECT.json` and defined next to the original: a small fault in the operation with which TLC finds that property violated under the same configuration.

## Fairness

Safety needs none.  There are four liveness properties.

* `Terminates` of `BatchJobs`, under `WF(Loop)` and `WF(Stream)`: the loop is one task that is polled until it ends, and a tool call returns.  The code guarantees the second only for jobs with `timeout_ms`, for which a late answer is an error envelope; for the others it is an assumption about the tools.  Jobs that wait for one another need no assumption: a pass without progress ends the loop.
* `EveryCallAnswered` of `Workflow`, under `WF(Next)`: the runtime goes on as long as some task can, and what a task awaits comes or fails.  It is not assumed that a particular call is favoured: clock, replacements and components are bounded, so a behaviour that goes on reaches the end unless calls wait for one another, which is the question.
* `InstallEnds` (in `WindowIsHonest`) under `WF(ThreadStep)` and `WF(ApplyEvent)`: the thread is scheduled and its system calls return; the window's task awaits the queue.  A death of the thread is not of the process: a panic is among the observations below.
* `AdviceLeadsHome` of `Upkeep` under the fairness of a person: who is at a loss looks at `status` (`WF(LookAround)`), puts off no advice for ever (`SF(FollowAdvice)`), and lets a command run (`WF(DoStep)`).  It is a statement about the advice, not about people; the whims are bounded.  That a fresh `--out-jsonl` is chosen where the advice names one is part of `FollowAdvice`; the two exceptions to `AdviceIsRunnable` (init has no `--out-jsonl`, `doc-table-build` needs a `passages.parquet`) are named with it.

## Proofs

Eight modules of proofs are checked to the last leaf.  What they prove holds for every value of the constants, any number of processes included, under the assumptions below and no others.

| Theorem | Says |
|---|---|
| `DocTableInvariant` | `Spec => []DocTableInv` |
| `TypeCorrect`, `DocIdsAlwaysDense` | `TypeOK`; doc_ids are 0..n-1 without repetition |
| `CoverageIsSoundHolds` | an index accepted as Full resolves; one accepted as Base resolves, below `base_doc_count`, unless `renumbered` |
| `LineageIsTrueHolds` | with one temporary file that builds open, write and rename in any order: a readable sidecar names an ancestor unless `renumbered`; one settled by the build whose table it is names the immediate predecessor |
| `PredecessorStaysAccepted` | after a settled append the predecessor's indexes are accepted |
| `ServesTheFiles` | `ServingSpec => Spec`: the engine only reads, so all of the above holds beside it |
| `ServingInvariant`, `ServingTypeCorrect` | while `steady`, the kept table and the index at work are `Known`, that is, of ancestors of the table on disk |
| `ServedSound` | `ServedWhileAppended` |
| `IngestInvariant` | `Spec => []IngestInv` |
| `PromotedIsExact` | `IngestIsExact`: of a directory that one run at a time was in, whole when uninterrupted, at most one open batch short when resumed once |
| `IngestImplementsCorpusStore` | `Spec => ImplementsCorpusStore`, step by step, whatever is resumed beside a living run: a partition from another directory is not touched by it |
| `TfidfInvariant`, `TfidfIndexIsExact` | the index is that of the store, but for what a death in the counting or in the writing of lists repeats, and loses nothing but by a record that was cut or a smaller pool |
| `MergeInvariant`, `MergeLosesNothingHolds` | of every work a merge leaves all the files of one of its sources, whole, no fewer bytes than GitHub or the ISO has, and nothing beside them |
| `FilesInvariant`, `SettledPairHolds` | index and HNSW dump of who published and dumped undisturbed belong together |
| `CacheTypes`, `IndexIsOfTheStoreHolds` | vectors are of the texts they are served for, none is missing, and what is embedded again is paid for by a death |
| `BatchTypes`, `DependenciesDecideHolds`, `EveryLineIsReported` | a job runs when its dependencies did, and every line has one envelope |
| `CallsInvariant`, `LogIsFaithfulHolds` | what a write that is cut short costs of the log, and that a search suggests nothing called lately |
| `AvailableToolsAnswer`, `SuggestionsHold` | whatever files there are, of one build: a tool called available is not refused for want of one; what a reply says to call can be called, and a refusal names a command that is accepted, but for `invalid_args` |
| `WorkflowInvariant`, `TypesHold`, `ReportIsHonest` | what a call reports of its components, of its budget and of its batch is so, also where an adjudication is rejected and the rest of the plan falls away |
| `FinishedWorkIsLinkedHolds` | items whose writers ended well are linked |
| `RegistryTypes`, `RowsMatchArtefactsHolds` | rows are of artefacts, and a catalogue that ends well has stored what it listed |
| `InstallerInvariant`, `InstallerTypes` | `InstallerSpec => []DataRootInv` |
| `InitEndsReadyHolds` | an `init` that reports success leaves the corpus under four indexes of it |
| `InstalledIsUsableHolds` | what an installation that ends well has put there: the corpus, the indexes, the program, the shortcuts and the entry, each unless a run before it ended at a place that makes the decision about it wrong |
| `UpkeepInvariant`, `AdviceIsRunnableHolds` | what the program advises can be typed and is accepted, or refused with advice that is |
| `MCTypesHold` (twice) | the types of `BatchJobs` with `ToolCalls`, and of `Installer` with `Upkeep`, as the runs explore them |
| `WindowIsNeverAhead` | a full bar means done, and the bar never goes back: the safety part of `WindowIsHonest` |

None of these invariants is inductive as the runs check it; what each needs to become so is most of the work.

**`DocTableInv`.**  That an accepted index resolves says nothing of tables in memory, of the temp file or of the sidecar before it is settled.  The strengthening says of every table, index and job that its fingerprint is a `Chain`, a sequence of dense assignments in which each extends those before; that a job which appends has the table it read as the front of what it will write (`JobInv`); that a whole sidecar records a fingerprint with its own number of doc_ids (`LineageInv`); that what is under the temporary name and under that of the table is empty or what some build wrote, whoever had it open; that unless the table was `renumbered` the sidecar names an ancestor of it (`LineageNamesAncestor`); and that once `settled` it names the immediate predecessor (`SettledNamesPredecessor`).  `owner` carries what a process may still conclude about the table between its rename and its last write to the sidecar.  The lemmas are, bottom up: ranks are below the size of the set and injective (`RankBound`, `RankInjective`); the two kinds of build give dense assignments, an append one that extends its base (`ScratchIdsDense`, `AppendIdsDense`); appending to a chain gives a chain, the front of a chain is an ancestor, and an ancestor's last assignment is extended (`ChainAppend`, `FrontAncestor`, `AncestorOfFront`, `AncestorExtends`); then one lemma for each action.

**`ServingInv`.**  A header that is accepted is that of the kept table or the one the sidecar names, so an ancestor of the table on disk in either case; whatever is published until the file is opened is `Known` as well, because `Appending` says so; the table on disk extends the index opened and the table kept, and gives no doc_id twice, so two passages with one doc_id are the same.

**`IngestInv`.**  All of it is said of directories that are not `shared`.  Of a run that is alive: what it has emitted is in its parts, in its batch, or was lost before it was resumed (`HoldsOK`); nothing is twice, if the directory was resumed at most once and not out of its last parts (`ExactOK`); and parts left by the run before are not more than this run will write over, which is a matter of counting rows (`CountOK`).  Of a directory with a checkpoint: what a resume may count on, less than a batch being missing from the parts it names (`DirOK`).  Of the partition: it is its origin's parts (`StoreOK`).  The step that matters is `Resume`, which turns what is known of a directory into what is known of a run, if the run that wrote it is dead and its batch with it; if it is not, the directory is shared from then on, and what remains to be shown is that the two touch nothing else: two runs in different directories, or in one that is shared and one that is not, have no file in common but the partition, and that is renamed into place only where none is.  `IngestImplementsCorpusStore` maps each action of `Ingest` to one of `CorpusStore` or to none: the rename of `promote` is the only one in which passages appear.

**`MergeInv`.**  What lies in the output lies at its path and was to be copied by some run (`FilesOK`); what the run at work has no longer before it is there whole, and the next file alone may be torn (`MergeOK`); where all runs merged the same distributions nothing else is there (`HistoryOK`).  The comparison of sizes needs that more files have no fewer bytes (`TotalGrows`), of a sum that is a fold: the fold has a value on sets of each size, and adding a file adds its bytes, because there is no least size at which that fails (`NoLeast`, `SumThere`, `TotalAdds`).

**`TfidfInv`.**  The files of the threads and the merged one hold together at least what the counted units have of a key, and exactly that unless a build died in that phase (`Ledger`).  Which units are counted is told for each bucket apart, since a thread writes its buckets one after the other (`Counted`); while a file has been copied and is not yet removed it is left out of the sum (`Skip`); once all are merged the ledger is that of the merged files alone (`Merged`).  A key has its place (`InPlace`), so that one file decides on it; threads above the last pool have no files, which fails when a build goes on with fewer of them (`Beyond`); what is merged is empty (`Emptied`).  A death keeps every record and forgets units that were written and not recorded, so that the ledger can only be in excess (`DeathLedger`).  The sums are folds, and that they are monotone, and grow by what is written, is proved from their having no least counterexample, as for the merge.  The vocabulary is the first of a strict order, cut at its limit (`Largest`), which is shown by counting the terms before each.  The postings of phase 3 rest on the vocabulary of the checkpoint (`VocabOK`, `StageOK`), which is why the directory must have all of it before the frequencies go.

**`FilesInv`.**  A file holds what one build wrote, or two were writing it and it is garbage for good (`FileOK`).  Of a process that owns the index, as far as it has come, the index is whole and its own, and of the dump there is nothing but what it has written itself (`OwnerKeepsItsFiles`).  Any other that renames, unlinks or creates ends the ownership.

**`CacheInv`.**  A tail follows its head; heads that no tail follows are at most as many as `tears`; and the last line of a doc_id to reach its end is that of `kept` (`LinesOK`).  So a record that was written to its end fails to parse only behind a torn head, each torn head spoils one line (`Again`), and what is embedded although it was stored is paid for.  Of the update: what is not pending is valid, and what is in the buffer is not pending and once (`UpdateOK`); so that when nothing is pending, the rows are the texts of the store that was read.

**`BatchInv`.**  Every line is in one place: pending, postponed, in flight, or reported once (`PlacesOK`).  `completed` knows the last report of each id, until jobs are given up (`RecordsOK`); in a pass without progress whatever was postponed misses something (`WaitsOK`).  Ids may be used twice, so that what a dependency decided is what the last report of the id said when the job's own was written (`Decided`); a job is given up only over an id whose every report is itself of a job given up (`GivenUp`).  Both front ends and the stream share the lemmas about an output that grows by an envelope.

**`CallsInv`.**  That little of the log is lost is a matter of counting, not of steps: a record that is not read was torn itself or is on the line of one that was, and the map from the latter to the torn record they follow is injective, since of two whole records on one line the first would end it (`LostIsTornOrSpoilt`, `OneSpoiltEach`, `TornWritesCostTwo`).  What a search suggests was judged by the log as it was then; `Heeds` says it in terms of the part of the log the call saw, which appending leaves alone.  A list cut to two is of members of it (`TwoFresh`), because a set of two numbers has one with none before it and one with one before it (`FirstTwoRanks`).  TLC tries the manifest on a sample of configurations; the proof takes any files, packs and names.  What the manifest sees is found (`InSightIsFound`), and where all there is is of one build what is found is usable (`FoundIsUsable`); so a tool answers if what it must open is among what it declares, and the table of an index with it, which is gone through row by row (`RowsAsk`), as is that arguments are accepted (`RowsTake`, `AsksSuit`).  A call that was suggested is of the suitable ones, and is not turned away for what it is (`Obeys`).

**`WorkflowInv`.**  `HonestReport` looks at calls that have ended; the strengthening looks at every call on its way, by itself (`Sound`): the reports so far are those of the first components of its plan (`Reporting`); a budget that was overrun, or that refused a component, is spent, so that no component it governs is begun again (`Budgeted`); an error of the call is the error of a component it cannot do without (`Replied`); where the frontier was had nobody searches again (`Shared`); a batch has answered each search it began at most once, and what it has not answered is in flight, eight at most (`Batched`).  That hybrid hits are in the order of their keys is shown without induction: the place of a hit in the result is the number of hits before it, and those numbers are 0 to n-1.

**`LinkInv`.**  An item has one last writer, which must link it, or none when it is linked (`OneWriter`); and of two items whose writers have both passed their select the edge is stored, or still among the rows of one of the two (`EdgesArePromised`).  The step that matters is `SelectKeeps`: of two writers the one that selects later sees both items, since each wrote its own before it selected.  A failure takes the items of its call out of what is promised (`FailKeeps`), a rewrite takes an item from whoever had it (`WriteKeeps`).

**`RowsInv`.**  What is read and not yet written is what some artefact yields (`BatchesOK`), and so is what is stored, with the observations of its own item (`ItemsOK`); an id tells what it was made from, so that an item rewritten keeps its edges right (`EdgesOK`); the chunks still to read are disjoint (`ChunksOK`), and what a call listed and nobody changed since is still to be read, in the batch, stored, or could not be read (`ListedOK`).

**`DataRootInv`.**  What the store is at each stage of a run: a partition that is there is whole, but while one is extracted (`StoreOK`); while nothing is being built, indexes of a corpus that is there are of what is there (`IndexesOK`); what the run was asked for and has done so far (`RunOK`), and the program, the shortcuts and the entry with it (`ProgramOK`); all of it unless the data root is `Spoiled`.  `harm` tells which of a dead run's leftovers may still be there.  The bar needs the order of the events in the queue (`BarOK`): the report that fills it is the last, of an installation that ended well.

**`UpkeepInv`.**  Advice is told when a command ends, of how things will then stand; so while steps are left to do, what the command will say at its end is followed through those steps (`EndsHelp`): each stage adds what it builds and takes nothing away, and what is told helps (`Helps`), if not by what it names then by what its refusal names.  Whims may intervene only where nothing is told any more.

**Assumptions.**  Passages are finite in number, in `DocTable` numbers, since they are sorted (`PassageAssumption`), partitions are of passages (`PartitionAssumption`), a table names a passage once (`TablesAssumption`), there is a version of a text (`VersionAssumption`); files have at least one row (`RowsAssumption`); what stands for an absent file is no file (`AbsentAssumption`); no job's id is the one that stands for none (`NoIdAssumption`); a directory lists a path once (`ListingAssumption`), a recorded payload is told by path and digest (`RecordingsAssumption`), no artefact has the empty seed among its seeds (`SeedsAssumption`), and a distribution that is merged has finitely many files, with sizes that are numbers and one file at a path (`ReleasesAssumption`); there is a call to make, with limits that are numbers or none (`RequestsAssumption`), candidates are lists (`ListsAssumption`), files of the engine are there, absent or bad (`DisksAssumption`), and what was named on the command line is of the artefacts there are (`ConfigsAssumption`); a store has finitely many row groups, of rows with a document and terms (`UnitAssumption`, `StoresAssumption`), and terms are finite in number and numbers (`TermAssumption`); a pack has one of two layouts (`LayoutAssumption`).  The others say that sizes and bounds are numbers, positive where the code's constants are.

**Only model-checked.**  The liveness properties (`Terminates`, `EveryCallAnswered`, `InstallEnds`, `AdviceLeadsHome`), as fairness and ENABLED are beyond the prover.  What recursive functions and folds compute for every input, as the library's rules for induction over data are beyond it as well, and to exclude a least counterexample by hand, as is done for the bytes of a merge and the sums of `TfidfBuild`, is long: the walk of the catalog, the encoding of posting lists and the merge of runs in `PhraseIndex`, the folds of parts in `DirectIngest`, the lists of the tools, the pass over an XML file.  And, for want of a proof so far, the types of `Catalog`.

## What the model shows of the code

Violation runs, each against a sentence of the repository:

* `lineage_race`: two builds at once, of which none dies, end with a sidecar whose `base_fingerprint` is not that of the predecessor of the table beside it: both write one `doc_table.tmp`, and each settles the sidecar for its own table (`document_table.rs:290`, `commands/document_table.rs`, against `document_table.rs:61`).
* `citation_scope`: a quotation that only another work has is verified of a work, where the doc_ids of the two interleave: the scope is a range of doc_ids, and no work id is compared (`tools/engine.rs:6952`, against `tools/registry.rs:1361`).
* `ingest_loss`: a checkpoint calls a file processed while its last passages are only in the open batch; death and resume lose them (`commands/ingest.rs:298`, against `ingest.rs:52`).
* `install_force`: `init --force` with a corpus present downloads and builds nothing (`commands/init.rs:143`, `:158`, against `README.md:103` and `init.rs:98`).

Observations without a run of their own.  The properties exclude each by a condition that the module names, or the model leaves the part out.

*Indexes and table*

* The table is renamed before the sidecar of the old numbering is deleted (`commands/document_table.rs`, `build`).  A build from scratch that dies in between leaves a sidecar that vouches for an index of another numbering, which the check then accepts as Base.  There are three more such windows: another build settles the sidecar for a table that is no longer there; a build that had `doc_table.tmp` open when another renamed it writes its table into what is now `doc_table.bin`, whose sidecar the other has settled or is about to; and one renames what another has opened and not yet written, so that the table is empty until it is, or for good.  `renumbered` marks all four, and `CoverageIsSoundHolds` and `LineageIsTrueHolds` say that outside of them the check and the sidecar can be relied on.
* Without the proviso `steady` what the engine serves need not resolve: it compares a table it read once with the sidecar of now.  After a build from scratch, an index build and an append, the sidecar names the new numbering's first table, and an index of it is accepted as Base against the old table, in 22 steps.
* The new vector index is in place long before the old dump is removed (`vector_index/mod.rs:609`); a build that dies in between leaves them unpaired.
* TF-IDF counts are in the files before the progress line says so, and merging appends before it removes; a resume counts again (`tfidf/index.rs:919`), and a death within a write leaves a torn record that shifts those after it; `TfidfIsExact` lets both pass and says that nothing else goes wrong.  The working directory names neither store, table nor parameters: a build resumed after an ingest publishes the old frequencies under the new fingerprint, and one resumed with fewer threads leaves the files of the others unmerged.
* Sorted runs of the phrase index that cannot be opened when they are merged are dropped without a word (`filter_map(|r| r.ok())`, `phrase_index.rs:1055-1058`), for which too many open files are enough, and the index is published without their postings.  `PhraseIsExact` says that what those runs held is all that is missing.
* `vector-info` judges coverage by `row_count >= total_docs`.

*Ingest, merge and XML*

* Nothing keeps two runs out of one staging directory.  `--resume` asks that it is a directory with a checkpoint of the right schema (`commands/ingest.rs:83-117`) and not whether its run is alive, `--resume auto` takes the one modified last, which is that of the living run; and a directory is named by the second of its start.  The two then truncate and rewrite the same parts, checkpoint and JSONL; the first to end promotes what the other has written so far, torn parts included, and the other goes on writing into the published partition.  The properties say nothing of such a directory, and that what comes from any other is not harmed.
* A passage element with another in it (also in a note) is given up and its own text lost; an inner element of the same name without id closes the outer early; entity references are dropped in silence; one ill-formed file ends the whole ingest.  "Pre-Tang" from the fallback gets rank 99; the fallback yields "Unknown Period" and never blank, so that the work list's period is not used at ingest, though `patch-metadata` treats "Unknown Period" as blank.
* `ingest cbeta <out>` after a merge reads xml-p5 if one lies in `<out>`, not xml-merged.  Winners of earlier merges stay, so that a work may be there both in one file and in fascicles.  `--extra` contributes "only works not already covered by either" (`merge_cbeta.rs:12-13`) but competes on bytes for every work (`:93-112`), and of equal sizes the last source wins, which is `--extra`.  `MergeLosesNothing` holds of both policies: it asks for the whole of one source and for no fewer bytes than GitHub or the ISO has.
* A corpus_id of a CEF source may be that of another corpus, whose part 0 it then overwrites.  A second ingest of saved pages duplicates every passage; a torn part left by a death makes the store unreadable.  A dictionary run that died, followed by a shorter edition, leaves the torn part.  `patch-metadata` may bring back rows that an ingest replaced between its read and its rename.

*Tools*

* `first-attestation` cuts its candidates in doc_id order before it applies the scope and sorts by period; filters by several periods, tradition, author or title come after the limit.  Two periods in `seed-pick` are joined by AND and find nothing.
* `citation-verify` leaves out the last passage of the scope among the candidates of the TF-IDF index and does not ask for the canon there (`engine.rs:6992`); without a catalog its scope by work is not applied at all, so that a quote counts as verified in any work; with one, it is the range of doc_ids from the first passage of the work to its last (`citation_scope`).
* `source-read` by node compares the node's heading_path, which for a division is its div_path (`catalog_index.rs:449`), with the heading of the passages (`tei.rs:672`): for CBETA data it finds no passages.  The previous cursor with an overlap above a tenth of the chunk may leave a gap; reading around a passage with `after_chars=0` may cut its tail.
* `expand-context-adaptive` climbs to the whole work even if that does not fit, against its first line.  A corpus node of the outline carries the corpus name as work_id and an empty label.  A search by a work that two corpora have uses only the range of the last one's root.
* The unit "sentence" of the pair tools equals "passage", since normalisation strips the punctuation; `pair-profile` by work grouped by canon can give a rate above one for the second term.
* An adjudication that does not validate ends `report-from-evidence` with status OK, one component and the warning `adjudication_invalid_graph_and_report_skipped`; graph and report are not among the components reported (`engine.rs:5997-6013`), though every other workflow reports what it did not run.  `ComponentsAreReported` names the case.
* A failed component of `scope-profile` yields no warning; `frontier`, which is read-only, creates `registry.sqlite`; the MCP server does not check a tool's audience; four commands print to stdout in a server that logs to stderr only.

*Batches and the tool contract*

* `run-batch` ignores the `concurrency` of its request, although `agent/doctrine/mcp_instructions.md:47` and `tools/registry.rs:1402-1408` describe parallel runs.  `run-tools` records an unresolved job before it computes what the next one misses (`tools/batch.rs:257`), so that its later envelopes may name nothing; `run-batch` does not.
* The code `missing_artifact`, which the doctrine promises, is never produced; the remedy of `invalid_args` is `sinorag explain-tool` (`errors.rs:191`), which no command is, so that `SuggestionsAreCallable` is not said of that code; unknown arguments are ignored in silence; the example of `run-batch` has a job without its required phrase.  `phrase-history` and `phrase-index-search` need a table they do not declare.  A log record cut within a character makes the whole log unreadable.
* With `--pack` the engine falls back, artefact by artefact, to `./data/derived`, so that stores may be mixed.

*Registry*

* An item that was changed is a new item and the old one stays; a recorded and a catalogued copy are two; `initialize_registry_after_ingest` does not compare the fingerprints of the lexical indexes, as `build-pack` does; the LIMIT of the link query (`truncated`) leaves later items unlinked.

*Installation and upkeep*

* A run of the installer after one that ended in the extraction or among indexes that replaced older ones reports success over a partial corpus or without indexes, and after one that ended once the program was being put in place it may not enter it under Apps; `InstalledIsUsable` takes each of its parts back in just these cases; `init` counts a partial partition as present, and stale indexes as complete; another corpus with four indexes counts for the installer as SinoRAG installed.  An installation completed on the command line is never registered under Apps.  A panic of the thread leaves the window in "Installing".  The uninstaller's delayed removal may hit a new installation.
* "Delete that partition directory to re-ingest it" leaves `passages.jsonl`, for which the next ingest is refused or to which it appends.  `init --from-raw` is refused the same way and has no `--out-jsonl`.  `catalog-index-build` without a table advises `doc-table-build`, which fails without a `passages.parquet`.  `status` never advises building a missing catalog and does not mention stale indexes; with only another corpus and no table it advises `init`, which downloads all of CBETA.  An ingest that died between promotion and table leaves texts that no advice brings into the table.

## What is not modelled, and what is abstracted

* `DocTable`: two builds of one index sharing a temp name are left out, as `PhraseIndex` and `TfidfBuild` have one builder; `build_all_indexes` loads the table once for both checks, which is `BuildIfNotCurrent` per kind; the content of a file that two builds write into is that of the one that wrote last, or torn; a hash collision is excluded; the fingerprint does not cover texts and neither do the properties.
* `IndexServing`: the vector index is opened before it is checked, so that nothing comes between, and it is not a `Kind` here; that its dump is opened in a further step is not modelled.  The catalog cell is one of `Workflow`'s.
* `Ingest`: that there is no partition is looked at, and the directory made or its checkpoint read, in one step (`promote_staging` looks again, and that is modelled step by step); of the JSONL it is told whether there is one, not its lines; `--resume auto` is one of the directories that `Resume` may be given.  `DirectIngest`: the input does not change during a run.
* `MergeCbeta`: one process; the distributions are replaced only between runs; a dry run changes nothing and is no action.  `CbetaXml`: the flags for terms and foreign words behave like that for persons and one stands for all; the events of the header, the fallback for traditions and origin, the type of a text, the line formats of the lists and the normalisation of characters are left out.
* `PhraseIndex` and `TfidfBuild`: the store does not change during a build (`DocTable` has stores that do); run, entry and postings files that only their writer reads are kept in `job`.  `TfidfBuild` takes `remove_dir_all` and the appended progress line as one step each and leaves out when within a unit its buffers are flushed.  Weights, their quantisation and the scores of queries are floating point.
* `VectorBuild`: `file_dump` of the hnsw library is external; it overwrites, or takes a unique name while a file is in use.  A reader of index and dump is not modelled.  `EmbeddingCache`: a chunk is one passage; model inference is external.
* `BatchJobs`: a tool call is an outcome; the effects are those of the tool.  `continue_on_error` is an input of its own; on the command line it cannot be turned off.
* `ToolCalls`: each root is consistent by itself; the jobs within the example of `run-batch` are not looked into.
* The tools: which documents contain a form is an arbitrary set (what the index finds is `PhraseIndex`'s part), which passages are near or alike an arbitrary relation or score; the filters of canon, tradition and period are sets of passages.  Ties that the query leaves open are broken by position.
* `Workflow`: what a component computes is an outcome; the readers of stdin and the framing of MCP are the library's.
* `Registry`: the readers (`prior_work`, `phrase_status`, `work_summary`) and the identity tables of a pack are left out.
* `Install`: one run at a time (nothing but the installer's mutex sees to that); a data root that is `Spoiled`, in which an uninstaller met a running command, is not used again; the commands run with the window closed.  The two Windows installers differ in toolkit and in a checkbox and are one model.
* `Upkeep`: of a file it matters only that it is there.
* Not modelled at all, with the reasons in `PROJECT.json`: phrase history and templates (read-only reports), weight quantisation and retrieval scores (floating point), pack building and authority ingest (one process, formats are the content), schemas and SQL (DataFusion's), the ingest manifest (called by no command), embedding providers (external), vendored and companion crates.
