--------------------------- MODULE EmbeddingCache ---------------------------
(***************************************************************************)
(* The embedding cache and `index vector-update`, which embeds only what   *)
(* the cache lacks and builds the vector index from it (embedding/cache.rs,*)
(* embedding/build.rs).                                                    *)
(*                                                                         *)
(* The cache is an append-only file of lines keyed by doc_id, while the    *)
(* numbering of doc_ids and the texts of passages change between runs.     *)
(***************************************************************************)
EXTENDS Naturals, Sequences, FiniteSets, Functions

CONSTANTS Passage, \* passage ids
          Text,    \* embedding_text of a passage; its hash and vector follow
          Tables,  \* the document tables there can be: passages by doc_id
          FlushSize,    \* records buffered before they are appended (4096)
          MaxPieces, \* bound: pieces of lines in the cache
          MaxDeaths  \* bound: runs that died

ASSUME PassageAssumption == IsFiniteSet(Passage)
ASSUME TablesAssumption == Tables \subseteq {t \in Seq(Passage) : IsInjective(t)}
ASSUME SizeAssumption == FlushSize \in Nat \ {0} /\ MaxPieces \in Nat /\ MaxDeaths \in Nat

VARIABLES
    parquet,   \* the passage store: passage -> its embedding text
    table,     \* doc_table.bin
    cache,     \* the cache file
    job,       \* the running update
    kept,      \* history: doc_id -> the last record written to its end
    tears,     \* history: appends cut short
    deaths     \* history: runs that died

vars == <<parquet, table, cache, job, kept, tears, deaths>>

-----------------------------------------------------------------------------
(* The cache file.  A line is longer than the write buffer, so it reaches  *)
(* the file in pieces; here a head and a tail with the newline.            *)

DocId  == 1 .. Cardinality(Passage)
Record == [doc_id : DocId, passage_id : Passage, text : Text]
Piece  == [rec : Record, half : {"head", "tail"}]
Half(r, h) == [rec |-> r, half |-> h]
\* The first n pieces of the lines of recs.
Pieces(recs, n) ==
    [i \in 1 .. n |-> Half(recs[(i + 1) \div 2], IF i % 2 = 1 THEN "head" ELSE "tail")]

\* A line parses when it is one head and its own tail, from newline to newline.
Parses(c, i) ==
    /\ i > 1 => c[i - 1].half = "tail"
    /\ i < Len(c) /\ c[i].half = "head" /\ c[i + 1] = Half(c[i].rec, "tail")

LinesOf(c, d) == {i \in DOMAIN c : Parses(c, i) /\ c[i].rec.doc_id = d}
LatestOf(S) == CHOOSE i \in S : \A j \in S : j <= i

\* load_or_empty: lines that do not parse are skipped, the latest record of a
\* doc_id wins.
LoadOrEmpty(c) ==
    [d \in {e \in DocId : LinesOf(c, e) # {}} |-> c[LatestOf(LinesOf(c, d))].rec]

-----------------------------------------------------------------------------
Stage == {"idle", "scan", "load", "embed", "append", "rows", "built"}
Map(S, T) == UNION {[D -> T] : D \in SUBSET S}
Job  == [at : Stage, local : BOOLEAN, partial : BOOLEAN,
         table : Tables \cup {<<>>}, meta : Map(Passage, Text),
         records : Map(DocId, Record), pending : SUBSET DocId, buffer : Seq(Record),
         rows : Map(DocId, Text)]
Idle == [at |-> "idle", local |-> FALSE, partial |-> FALSE, table |-> <<>>, meta |-> <<>>,
         records |-> <<>>, pending |-> {}, buffer |-> <<>>, rows |-> <<>>]

TypeOK ==
    /\ parquet \in Map(Passage, Text)
    /\ table \in Tables
    /\ cache \in Seq(Piece)
    /\ job \in Job
    /\ kept \in Map(DocId, Record)
    /\ tears \in 0 .. deaths /\ deaths \in 0 .. MaxDeaths

Init ==
    /\ parquet \in [Passage -> Text]
    /\ table \in Tables
    /\ cache = <<>>
    /\ job = Idle
    /\ kept = <<>>
    /\ tears = 0 /\ deaths = 0

-----------------------------------------------------------------------------
(* Between runs, and during one, the store and the table may be replaced.  *)

Reingest(p, t) ==
    /\ parquet' = [q \in DOMAIN parquet \cup {p} |-> IF q = p THEN t ELSE parquet[q]]
    /\ UNCHANGED <<table, cache, job, kept, tears, deaths>>
DeletePassage(p) ==
    /\ parquet' = [q \in DOMAIN parquet \ {p} |-> parquet[q]]
    /\ UNCHANGED <<table, cache, job, kept, tears, deaths>>
RebuildDocTable(t) ==
    /\ table' = t
    /\ UNCHANGED <<parquet, cache, job, kept, tears, deaths>>

-----------------------------------------------------------------------------
(* run_vector_update.                                                      *)

\* local: the binary has the local-embeddings feature; partial: it is run with
\* --allow-partial-vector-index.
LoadDocTable(local, partial) ==
    /\ job.at = "idle"
    /\ Len(cache) + 2 * Len(table) <= MaxPieces
    /\ job' = [Idle EXCEPT !.at = "scan", !.local = local,
                             !.partial = partial, !.table = table]
    /\ UNCHANGED <<parquet, table, cache, kept, tears, deaths>>

ReadPassages ==
    /\ job.at = "scan"
    /\ job' = [job EXCEPT !.at = "load", !.meta =
                  [p \in DOMAIN parquet \cap Range(job.table) |-> parquet[p]]]
    /\ UNCHANGED <<parquet, table, cache, kept, tears, deaths>>

\* Mutant of ValidRecord: the hash of the text is not compared.
ValidWithoutHash(records, tbl, meta, d) ==
    d \in DOMAIN records /\ records[d].passage_id = tbl[d]

ValidRecord(records, tbl, meta, d) ==
    d \in DOMAIN records /\ records[d].passage_id = tbl[d] /\ records[d].text = meta[tbl[d]]

\* doc_ids whose passage is in the store.
Present(tbl, meta) == {d \in DOMAIN tbl : tbl[d] \in DOMAIN meta}

Refused(partial, tbl, meta) == ~ partial /\ Present(tbl, meta) # DOMAIN tbl

\* Mutant of Wanted: the doc_id counted from one less.
WantedOneLess(tbl, meta, d) == [doc_id |-> d - 1, passage_id |-> tbl[d], text |-> meta[tbl[d]]]

Wanted(tbl, meta, d) == [doc_id |-> d, passage_id |-> tbl[d], text |-> meta[tbl[d]]]

\* The cache is loaded, what it lacks is listed; the run ends here when passages
\* are missing or when there is something to embed and no provider.
LoadCache ==
    LET tbl     == job.table
        meta    == job.meta
        records == LoadOrEmpty(cache)
        lacking == {d \in Present(tbl, meta) : ~ ValidRecord(records, tbl, meta, d)}
    IN  /\ job.at = "load"
        /\ job' = IF Refused(job.partial, tbl, meta) \/ (lacking # {} /\ ~ job.local) THEN Idle
                  ELSE [job EXCEPT !.at = IF lacking = {} THEN "rows" ELSE "embed",
                           !.records = records, !.pending = lacking]
        /\ UNCHANGED <<parquet, table, cache, kept, tears, deaths>>

\* A chunk is embedded (of one passage, --batch-size 1), in the order of doc_ids; a full
\* buffer is appended, and so is what is left after the last chunk.
EmbedChunk ==
    /\ job.at = "embed"
    /\ \E d \in job.pending :
          LET r == Wanted(job.table, job.meta, d)
              full == Len(job.buffer) + 1 >= FlushSize
              last == job.pending = {d}
          IN  /\ \A e \in job.pending : d <= e
              /\ job' = [job EXCEPT
                    !.at = IF full \/ last THEN "append" ELSE "embed",
                    !.pending = @ \ {d}, !.buffer = Append(@, r),
                    !.records = [e \in DOMAIN @ \cup {r.doc_id} |->
                                    IF e = r.doc_id THEN r ELSE job.records[e]]]
    /\ UNCHANGED <<parquet, table, cache, kept, tears, deaths>>

\* The first n of recs, whose doc_ids are distinct, are in the cache to their ends.
Keep(recs, n) ==
    LET Of(d) == {k \in 1 .. n : recs[k].doc_id = d}
    IN  [d \in DOMAIN kept \cup {recs[k].doc_id : k \in 1 .. n} |->
            IF Of(d) # {} THEN recs[CHOOSE k \in Of(d) : TRUE] ELSE kept[d]]

\* append_records, as far as its n-th piece.
WriteLines(n) ==
    /\ cache' = cache \o Pieces(job.buffer, n)
    /\ kept' = Keep(job.buffer, n \div 2)
    /\ tears' = tears + (n % 2)

AppendRecords ==
    /\ job.at = "append"
    /\ WriteLines(2 * Len(job.buffer))
    /\ job' = [job EXCEPT !.buffer = <<>>, !.at = IF job.pending = {} THEN "rows" ELSE "embed"]
    /\ UNCHANGED <<parquet, table, deaths>>

\* The rows of every doc_id that has a valid record now; none is an error.
CollectRows ==
    LET rows == {d \in Present(job.table, job.meta) :
                    ValidRecord(job.records, job.table, job.meta, d)}
    IN  /\ job.at = "rows"
        /\ job' = IF rows = {} THEN Idle
                  ELSE [job EXCEPT !.at = "built",
                           !.rows = [d \in rows |-> job.records[d].text]]
        /\ UNCHANGED <<parquet, table, cache, kept, tears, deaths>>

\* They go to vector_index::build_from_rows (VectorBuild).
BuildFromRows ==
    /\ job.at = "built"
    /\ job' = Idle
    /\ UNCHANGED <<parquet, table, cache, kept, tears, deaths>>

\* The run dies, or the provider fails.  An append got as far as some piece.
Die ==
    /\ job.at # "idle" /\ deaths < MaxDeaths
    /\ deaths' = deaths + 1
    /\ job' = Idle
    /\ IF job.at = "append"
       THEN \E n \in 0 .. 2 * Len(job.buffer) - 1 : WriteLines(n)
       ELSE UNCHANGED <<cache, tears, kept>>
    /\ UNCHANGED <<parquet, table>>

-----------------------------------------------------------------------------
World ==
    \/ \E p \in Passage : DeletePassage(p) \/ \E t \in Text : Reingest(p, t)
    \/ \E t \in Tables : RebuildDocTable(t)
Update ==
    \/ \E local, partial \in BOOLEAN : LoadDocTable(local, partial)
    \/ ReadPassages \/ LoadCache \/ EmbedChunk \/ AppendRecords
    \/ CollectRows \/ BuildFromRows \/ Die

Next == World \/ Update

Spec == Init /\ [][Next]_vars

-----------------------------------------------------------------------------
(* What the cache and the update promise.                                  *)

\* The vector a doc_id gets is that of the text its passage had when the run read
\* the store, however the ids were renumbered and the texts changed since the
\* vector was cached (cache.rs valid_record).
VectorsAreOfTheText ==
    job.at = "built" =>
        \A d \in DOMAIN job.rows : job.rows[d] = job.meta[job.table[d]]

\* Every doc_id whose passage is in the store gets one, and without
\* --allow-partial-vector-index that is every doc_id (build.rs:138-160).
EveryPresentIsIndexed ==
    job.at = "built" =>
        /\ DOMAIN job.rows = Present(job.table, job.meta)
        /\ ~ job.partial => DOMAIN job.rows = DOMAIN job.table

\* What is in the cache to the end of its line is not embedded again, unless its text or its doc_id
\* changed: each append cut short costs at most one record appended later.
KeptIsNotEmbedded ==
    job.at = "embed" =>
        Cardinality({d \in job.pending :
            d \in DOMAIN kept /\ kept[d] = Wanted(job.table, job.meta, d)}) <= tears

\* The index has the vector of each passage and of no other text; nothing is missed and nothing
\* done twice, of what the cache, the store and the table hold (embedding/cache.rs, build.rs).
IndexIsOfTheStore ==
    /\ VectorsAreOfTheText
    /\ EveryPresentIsIndexed
    /\ KeptIsNotEmbedded

=============================================================================
