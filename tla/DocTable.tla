------------------------------ MODULE DocTable ------------------------------
(***************************************************************************)
(* The document table (doc_id <-> passage_id), its lineage sidecar, and    *)
(* the lexical indexes whose postings are doc_ids: document_table.rs, the  *)
(* doc-table command, and the skip-if-current index build.                 *)
(*                                                                         *)
(* The table, the sidecar and each index are separate files.  Each is      *)
(* replaced by its own system call, by any of several CLI processes, and a *)
(* process may die between two calls.  What a reader of the files may      *)
(* conclude about a doc_id rests only on fingerprints.                     *)
(***************************************************************************)
EXTENDS Naturals, Sequences, FiniteSets

CONSTANTS Passage,   \* passage ids; only their string order matters, so numbers
          Version,   \* what the text of a passage can be across re-ingests
          Partition, \* the passages of each corpus (source_corpus=<id>/)
          Proc,      \* CLI processes
          Kind,      \* index files on disk (phrase.index, tfidf.index)
          MaxChain   \* bound: builds recorded in one fingerprint

ASSUME PassageAssumption == Passage \subseteq Nat /\ IsFiniteSet(Passage)
ASSUME PartitionAssumption == Partition \subseteq SUBSET Passage
ASSUME VersionAssumption == Version # {}
ASSUME ChainAssumption == MaxChain \in Nat \ {0}

VARIABLES
    parquet,   \* the passage store: passage -> version of its text
    table,     \* doc_table.bin
    temp,      \* doc_table.tmp, one name for every process: what is written of it, {} for no file
    lineage,   \* doc_table.bin.lineage.json
    index,     \* kind -> index file
    job,       \* process -> the build it is running
    owner,     \* history: the process that put its own table there last ({} or one)
    settled,   \* history: since then that process has also settled the sidecar
    renumbered \* history: the sidecar may belong to an assignment now replaced or overwritten

files   == <<table, temp, lineage, index>>
history == <<owner, settled, renumbered>>
vars    == <<parquet, table, temp, lineage, index, job, owner, settled, renumbered>>

-----------------------------------------------------------------------------
(* Doc ids.  An assignment maps every passage of the table to its doc_id.  *)

DocId == 0 .. Cardinality(Passage) - 1
Assignment == UNION {[S -> DocId] : S \in SUBSET Passage}
EmptyMap == [p \in {} |-> 0]

\* The place of p in S, in passage-id order, counted from zero.
Rank(S, p) == Cardinality({q \in S : q < p})

\* from_parquet: sort, dedup, number from zero.
ScratchIds(S) == [p \in S |-> Rank(S, p)]

\* Mutants of AppendIds: new ids start one too late, or at zero.
AppendIdsOneLate(base, S) ==
    LET new == S \ DOMAIN base
    IN  [p \in DOMAIN base \cup new |->
            IF p \in DOMAIN base THEN base[p]
            ELSE Cardinality(DOMAIN base) + 1 + Rank(new, p)]
AppendIdsFromZero(base, S) ==
    LET new == S \ DOMAIN base
    IN  [p \in DOMAIN base \cup new |->
            IF p \in DOMAIN base THEN base[p] ELSE Rank(new, p)]

\* append_from_parquet: the base keeps its ids, what is new is sorted after it.
AppendIds(base, S) ==
    LET new == S \ DOMAIN base
    IN  [p \in DOMAIN base \cup new |->
            IF p \in DOMAIN base THEN base[p]
            ELSE Cardinality(DOMAIN base) + Rank(new, p)]

\* SHA-256 over the base fingerprint, if any, and the passage ids in doc_id
\* order.  Collisions aside it determines the whole chain of assignments.
Fingerprint(base_fp, ids) == Append(base_fp, ids)

NoFingerprint == <<>>
Last(fp)  == fp[Len(fp)]
Front(fp) == SubSeq(fp, 1, Len(fp) - 1)
FingerprintSet == Seq(Assignment)

Table   == [fp : FingerprintSet, ids : Assignment]
NoTable == [fp |-> NoFingerprint, ids |-> EmptyMap]
Exists(file) == file.fp # NoFingerprint

ScratchTable(S) == [fp  |-> Fingerprint(NoFingerprint, ScratchIds(S)),
                    ids |-> ScratchIds(S)]
AppendTable(base, S) == [fp  |-> Fingerprint(base.fp, AppendIds(base.ids, S)),
                         ids |-> AppendIds(base.ids, S)]

-----------------------------------------------------------------------------
(* The sidecar, and what a reader concludes from the fingerprints.         *)

Lineage == [state : {"absent", "torn", "whole"},
            base_fp : FingerprintSet, base_doc_count : Nat]
NoLineage   == [state |-> "absent", base_fp |-> NoFingerprint, base_doc_count |-> 0]
TornLineage == [NoLineage EXCEPT !.state = "torn"]
LineageOf(base) == [state |-> "whole", base_fp |-> base.fp,
                    base_doc_count |-> Cardinality(DOMAIN base.ids)]

\* An index file: the fingerprint in its header, the doc_id under which each
\* indexed passage was posted, and the version of the text that was indexed.
Text  == UNION {[S -> Version] : S \in SUBSET Passage}
Index == [fp : FingerprintSet, ids : Assignment, text : Text]
NoIndex == [fp |-> NoFingerprint, ids |-> EmptyMap, text |-> EmptyMap]

\* Mutant of MatchIndexFingerprint: the sidecar is never consulted.
MatchFullOnly(t, fp) == IF fp = t.fp THEN "full" ELSE "mismatch"

\* match_index_fingerprint against a table that was read earlier and the
\* sidecar as it is on disk now.
MatchIndexFingerprint(t, fp) ==
    IF fp = t.fp THEN "full"
    ELSE IF lineage.state = "torn" THEN "error"
    ELSE IF lineage.state = "whole" /\ fp = lineage.base_fp THEN "base"
    ELSE "mismatch"

\* The coverage of index file k against the files on disk; a table that is torn or absent (NoTable)
\* cannot be loaded.
CoverageOf(k) == IF Exists(table) THEN MatchIndexFingerprint(table, index[k].fp) ELSE "error"

-----------------------------------------------------------------------------
(* Jobs of the CLI processes.                                              *)

Stage == {"idle", "save", "fill", "rename", "delete", "truncate", "write", "scan", "publish"}

\* The file that a process has open to write its table: under the name doc_table.tmp, by now under
\* that of the table, or without a name.
Handle == {"none", "temp", "table", "gone"}
Job  == [at : Stage, op : {"none", "scratch", "append", "index"}, fd : Handle,
         base : Table, new : Table, kind : SUBSET Kind, built : Index]
Idle == [at |-> "idle", op |-> "none", fd |-> "none", base |-> NoTable, new |-> NoTable,
         kind |-> {}, built |-> NoIndex]

TypeOK ==
    /\ parquet \in Text
    /\ table \in Table
    /\ temp \in SUBSET Table
    /\ lineage \in Lineage
    /\ index \in [Kind -> Index]
    /\ job \in [Proc -> Job]
    /\ owner \in SUBSET Proc
    /\ settled \in BOOLEAN
    /\ renumbered \in BOOLEAN

Init ==
    /\ parquet = EmptyMap
    /\ table = NoTable
    /\ temp = {}
    /\ lineage = NoLineage
    /\ index = [k \in Kind |-> NoIndex]
    /\ job = [p \in Proc |-> Idle]
    /\ owner = {}
    /\ settled = TRUE
    /\ renumbered = FALSE

-----------------------------------------------------------------------------
(* The passage store changes underneath: a corpus partition is promoted by *)
(* ingest, or deleted by the user so that the corpus can be ingested again.*)

AddPartition(S, v) ==
    /\ S \cap DOMAIN parquet = {}
    /\ parquet' = [p \in DOMAIN parquet \cup S |->
                      IF p \in S THEN v ELSE parquet[p]]
    /\ UNCHANGED <<files, job, history>>

DeletePartition(S) ==
    /\ S \subseteq DOMAIN parquet
    /\ parquet' = [p \in DOMAIN parquet \ S |-> parquet[p]]
    /\ UNCHANGED <<files, job, history>>

-----------------------------------------------------------------------------
(* document_table::build.                                                  *)

\* Without --append-to: scan the store and number it from zero.
StartScratch(p) ==
    /\ job[p].at = "idle"
    /\ job' = [job EXCEPT ![p] = [Idle EXCEPT
                  !.at = "save", !.op = "scratch",
                  !.new = ScratchTable(DOMAIN parquet)]]
    /\ UNCHANGED <<parquet, files, history>>

\* With --append-to the table itself, as post_ingest calls it.
StartAppend(p) ==
    /\ job[p].at = "idle"
    /\ Exists(table) /\ Len(table.fp) < MaxChain
    /\ job' = [job EXCEPT ![p] = [Idle EXCEPT
                  !.at = "save", !.op = "append", !.base = table,
                  !.new = AppendTable(table, DOMAIN parquet)]]
    /\ UNCHANGED <<parquet, files, history>>

\* save_atomic opens doc_table.tmp and empties it, whoever else has it open.
OpenTemp(p) ==
    /\ job[p].at = "save"
    /\ temp' = {NoTable}
    /\ job' = [job EXCEPT ![p].at = "fill", ![p].fd = "temp"]
    /\ UNCHANGED <<parquet, table, lineage, index, history>>

\* The file that p has open becomes t.  If it has meanwhile been renamed over the table, that is
\* the table: nobody's, and whose the sidecar is nobody knows.
Fill(p, t) ==
    \/ /\ job[p].fd = "temp"
       /\ temp' = {t}
       /\ UNCHANGED <<table, history>>
    \/ /\ job[p].fd = "table"
       /\ table' = t
       /\ owner' = {} /\ settled' = FALSE /\ renumbered' = TRUE
       /\ UNCHANGED temp
    \/ job[p].fd = "gone" /\ UNCHANGED <<table, temp, history>>

\* Then it writes the table, in one call, over what another has written of it.
WriteTemp(p) ==
    /\ job[p].at = "fill"
    /\ Fill(p, job[p].new)
    /\ job' = [job EXCEPT ![p].at = "rename", ![p].fd = "none"]
    /\ UNCHANGED <<parquet, lineage, index>>

\* A rename over the table gives what is open under its name that of the table, and leaves the
\* file that had it none.
Moved(j) == [j EXCEPT !.fd = CASE @ = "temp" -> "table" [] @ = "table" -> "gone" [] OTHER -> @]

\* It renames it over the table, the sidecar still being the old one.  What is renamed may be the
\* table of another process, whose own rename then fails, or one that another has emptied and
\* not yet written.
RenameTemp(p) ==
    /\ job[p].at = "rename"
    /\ \/ /\ temp = {}
          /\ job' = [job EXCEPT ![p] = Idle]
          /\ UNCHANGED <<table, temp, history>>
       \/ \E t \in temp :
             /\ table' = t
             /\ temp' = {}
             /\ owner' = IF t = job[p].new THEN {p} ELSE {}
             /\ settled' = FALSE
             /\ renumbered' = (renumbered \/ ~ Exists(t) \/ Front(t.fp) # table.fp)
             /\ job' = [q \in Proc |->
                   IF q # p THEN Moved(job[q])
                   ELSE [job[p] EXCEPT !.new = NoTable,
                            !.at = IF job[p].op = "scratch" THEN "delete" ELSE "truncate"]]
    /\ UNCHANGED <<parquet, lineage, index>>

\* Mutant of DeleteLineage: the sidecar of the previous table is left in place.
KeepLineage(p) ==
    /\ job[p].at = "delete"
    /\ settled' = (owner = {p})
    /\ renumbered' = FALSE
    /\ job' = [job EXCEPT ![p] = Idle]
    /\ UNCHANGED <<parquet, table, temp, lineage, index, owner>>

\* delete_if_present ends a scratch build.
DeleteLineage(p) ==
    /\ job[p].at = "delete"
    /\ lineage' = NoLineage
    /\ settled' = (owner = {p})
    /\ renumbered' = FALSE
    /\ job' = [job EXCEPT ![p] = Idle]
    /\ UNCHANGED <<parquet, table, temp, index, owner>>

\* DocTableLineage::write is a plain fs::write: truncate, then fill.
TruncateLineage(p) ==
    /\ job[p].at = "truncate"
    /\ lineage' = TornLineage
    /\ settled' = FALSE
    /\ renumbered' = FALSE
    /\ job' = [job EXCEPT ![p].at = "write"]
    /\ UNCHANGED <<parquet, table, temp, index, owner>>

\* A sidecar deleted by another process in between is gone: the write goes to
\* the unlinked file.
WriteLineage(p) ==
    /\ job[p].at = "write"
    /\ IF lineage.state = "absent"
       THEN UNCHANGED <<lineage, settled, renumbered>>
       ELSE /\ lineage' = LineageOf(job[p].base)
            /\ settled' = (owner = {p})
            /\ renumbered' = (owner # {p})
    /\ job' = [job EXCEPT ![p] = Idle]
    /\ UNCHANGED <<parquet, table, temp, index, owner>>

-----------------------------------------------------------------------------
(* Index builds.                                                           *)

\* phrase_index_is_current / tfidf_index_is_current: only full coverage counts.
IsCurrent(k) == Exists(index[k]) /\ CoverageOf(k) = "full"

StartIndex(p, k) ==
    /\ job[p].at = "idle"
    /\ Exists(table)
    /\ job' = [job EXCEPT ![p] = [Idle EXCEPT
                  !.at = "scan", !.op = "index", !.base = table, !.kind = {k}]]
    /\ UNCHANGED <<parquet, files, history>>

\* `index phrase`, `index tfidf` and post_ingest build unconditionally;
\* build_all_indexes skips a current index and fails on an unreadable sidecar.
BuildIndex(p, k) == StartIndex(p, k)
BuildIfNotCurrent(p, k) ==
    /\ ~ IsCurrent(k)
    /\ Exists(index[k]) => CoverageOf(k) # "error"
    /\ StartIndex(p, k)

\* Rows whose passage id is not in the loaded table are left out.
ScanPassages(p) ==
    /\ job[p].at = "scan"
    /\ LET posted == DOMAIN parquet \cap DOMAIN job[p].base.ids
       IN  job' = [job EXCEPT ![p].at = "publish", ![p].base = NoTable,
                     ![p].built = [fp   |-> job[p].base.fp,
                                   ids  |-> [d \in posted |-> job[p].base.ids[d]],
                                   text |-> [d \in posted |-> parquet[d]]]]
    /\ UNCHANGED <<parquet, files, history>>

\* The finished file is renamed over the old index.
PublishIndex(p) ==
    /\ job[p].at = "publish"
    /\ index' = [k \in Kind |-> IF k \in job[p].kind THEN job[p].built ELSE index[k]]
    /\ job' = [job EXCEPT ![p] = Idle]
    /\ UNCHANGED <<parquet, table, temp, lineage, history>>

\* A process dies, or a write fails; what it holds in memory is gone, the files stay, and the one
\* that it was writing may be torn.
Crash(p) ==
    /\ job[p].at # "idle"
    /\ job' = [job EXCEPT ![p] = Idle]
    /\ \/ UNCHANGED <<table, temp, history>>
       \/ job[p].at = "fill" /\ Fill(p, NoTable)
    /\ UNCHANGED <<parquet, lineage, index>>

-----------------------------------------------------------------------------
Store == \E S \in Partition :
            \/ \E v \in Version : AddPartition(S, v)
            \/ DeletePartition(S)

Work(p) ==
    \/ StartScratch(p) \/ StartAppend(p) \/ OpenTemp(p) \/ WriteTemp(p) \/ RenameTemp(p)
    \/ DeleteLineage(p) \/ TruncateLineage(p) \/ WriteLineage(p)
    \/ \E k \in Kind : BuildIndex(p, k) \/ BuildIfNotCurrent(p, k)
    \/ ScanPassages(p) \/ PublishIndex(p)

Step(p) == Work(p) \/ Crash(p)

Next == Store \/ \E p \in Proc : Step(p)

Spec == Init /\ [][Next]_vars

-----------------------------------------------------------------------------
(* What the table and the coverage check promise.                          *)

\* Doc ids are array positions: every passage has one of 0..n-1, no two the
\* same, however many appends and deleted partitions led to this table.
DocIdsDense ==
    /\ \A p \in DOMAIN table.ids : table.ids[p] < Cardinality(DOMAIN table.ids)
    /\ \A p, q \in DOMAIN table.ids : table.ids[p] = table.ids[q] => p = q

\* Every posting of index k resolves, through the table on disk, to the passage
\* it was made for.
Resolves(k) == \A p \in DOMAIN index[k].ids :
                  p \in DOMAIN table.ids /\ table.ids[p] = index[k].ids[p]

\* An index accepted as Full (document_table.rs:300) never returns the doc_id of
\* another passage, whatever builds ran, raced or died since it was built.
FullCoverageResolves ==
    \A k \in Kind : CoverageOf(k) = "full" => Resolves(k)

\* An index accepted as Base posts only doc_ids below base_doc_count
\* (document_table.rs:302), and they still denote the passages indexed.
BaseResolves ==
    \A k \in Kind : CoverageOf(k) = "base" =>
        /\ Resolves(k)
        /\ \A p \in DOMAIN index[k].ids : index[k].ids[p] < lineage.base_doc_count

\* That holds unless the table was renumbered and the sidecar not yet settled;
\* an append cut short by a crash at any point does not endanger it.
BaseCoverageResolves == ~ renumbered => BaseResolves

\* What the coverage check accepts, as Full or as Base, resolves to the passages indexed.
CoverageIsSound ==
    /\ FullCoverageResolves
    /\ BaseCoverageResolves

\* Once an append has settled, the indexes built for its predecessor are still
\* accepted (document_table.rs:10-12).
PredecessorAccepted ==
    settled /\ Len(table.fp) > 1 =>
        \A k \in Kind : index[k].fp = Front(table.fp)
                          => CoverageOf(k) = "base"

-----------------------------------------------------------------------------
(* Why they hold: the fingerprint chain of the table is a history of       *)
(* assignments each extending the one before, and the sidecar names one of *)
(* that history.                                                           *)

Extends(g, f) == \A p \in DOMAIN f : p \in DOMAIN g /\ g[p] = f[p]
Dense(f) == /\ \A p \in DOMAIN f : f[p] < Cardinality(DOMAIN f)
            /\ \A p, q \in DOMAIN f : f[p] = f[q] => p = q
IsAncestor(fp, of) == Len(fp) <= Len(of) /\ fp = SubSeq(of, 1, Len(fp))

\* A fingerprint some build produced.
Chain(fp) == /\ \A i \in 1..Len(fp) : Dense(fp[i])
             /\ \A i, j \in 1..Len(fp) : i <= j => Extends(fp[j], fp[i])

TableInv(t) == Chain(t.fp) /\ (t.fp # <<>> => t.ids = Last(t.fp))
                           /\ (t.fp = <<>> => t.ids = EmptyMap)
IndexInv(x) == Chain(x.fp) /\ (x.fp # <<>> => Extends(Last(x.fp), x.ids))
                           /\ (x.fp = <<>> => x.ids = EmptyMap)

\* What a build in flight still has to do, given what it read.
JobInv(p) ==
    LET j == job[p]
    IN  /\ TableInv(j.base) /\ TableInv(j.new) /\ IndexInv(j.built)
        /\ j.at \in {"truncate", "write"} => Exists(j.base)
        /\ j.at \in {"save", "fill", "rename"} /\ j.op = "scratch" => Len(j.new.fp) = 1
        /\ j.at \in {"save", "fill", "rename"} /\ j.op # "scratch" =>
              Exists(j.base) /\ Len(j.new.fp) > 1 /\ Front(j.new.fp) = j.base.fp
        /\ j.at = "delete" /\ owner = {p} => Len(table.fp) = 1
        /\ j.at \in {"truncate", "write"} /\ owner = {p} =>
              Len(table.fp) > 1 /\ Front(table.fp) = j.base.fp
        /\ j.at \in {"delete", "truncate", "write"} /\ owner = {p} => ~ settled

\* The sidecar records a fingerprint together with the number of its doc_ids.
LineageInv ==
    lineage.state = "whole" =>
        /\ lineage.base_fp # <<>> /\ Chain(lineage.base_fp)
        /\ lineage.base_doc_count = Cardinality(DOMAIN Last(lineage.base_fp))

\* Unless renumbered, the sidecar names an ancestor of the table on disk, so
\* that what it says of doc_ids 0..base_doc_count is true of this table, even
\* while another process appends or after one died doing so.
LineageNamesAncestor ==
    ~ renumbered /\ lineage.state = "whole" =>
        /\ IsAncestor(lineage.base_fp, table.fp)
        /\ lineage.base_doc_count = Cardinality(DOMAIN Last(lineage.base_fp))

\* Once settled, the sidecar names the immediate predecessor, and there is one
\* exactly when the table was built by appending.
SettledNamesPredecessor ==
    settled /\ Exists(table) =>
        /\ Len(table.fp) = 1 => lineage.state = "absent"
        /\ Len(table.fp) > 1 => lineage.state = "whole" /\ lineage.base_fp = Front(table.fp)

\* The sidecar says the truth of the table: while it is being settled, and then all of it.  So it
\* does unless the table was renumbered or overwritten since the sidecar was, or another build
\* settled it: then nothing says so (LineageNamesPredecessor).
LineageIsTrue ==
    /\ LineageNamesAncestor
    /\ SettledNamesPredecessor

\* The sidecar has the "fingerprint of the predecessor doc table this one extends"
\* (document_table.rs:61): once all who built have ended.  The code does not keep to it where two
\* build at once: each settles the sidecar for its own table, and only one table is there.
LineageNamesPredecessor ==
    (\A p \in Proc : job[p] = Idle) /\ Exists(table) /\ lineage.state = "whole" =>
        lineage.base_fp = Front(table.fp)

DocTableInv ==
    /\ TypeOK
    /\ TableInv(table) /\ \A t \in temp : TableInv(t)
    /\ \A k \in Kind : IndexInv(index[k])
    /\ \A p \in Proc : JobInv(p)
    /\ LineageInv
    /\ LineageNamesAncestor
    /\ SettledNamesPredecessor

=============================================================================
