---------------------------- MODULE PhraseIndex ----------------------------
(***************************************************************************)
(* The phrase index: the four phases that build it from the passage store  *)
(* through files in a working directory, the gram table and the encoded    *)
(* postings it consists of, and the search that intersects them            *)
(* (phrase_index.rs, research_tools/phrase.rs).                            *)
(*                                                                         *)
(* One process builds at a time and may die at any step; the working       *)
(* directory then stays.  The store is scanned while nothing is ingested:  *)
(* DocTable models stores that change under a build.                       *)
(***************************************************************************)
EXTENDS Integers, Sequences, FiniteSets, SequencesExt, FiniteSetsExt, Functions

CONSTANTS Char,         \* characters of normalised text
          GramLen,      \* characters of a gram
          HashSpace,    \* hashes are 0 .. HashSpace - 1, 2^64 in the code
          Hash,         \* gram -> hash; two grams may have the same
          NumDocs,      \* length of the document table
          NoDoc,        \* the passage is not in the table
          Buckets,      \* bucket_count
          MaxOpen,      \* MAX_OPEN of BucketWriterCache
          ChunkRecords, \* SORT_CHUNK_RECORDS
          Density,      \* 64: a gram in more than a Density-th of the docs is dense
          Radix,        \* 128: what one byte of a varint holds
          Stores,       \* the stores there may be
          MaxLost,      \* bound: sorted runs of a build that cannot be opened
          Changes       \* bound: how often the store is replaced

DocId == 0 .. NumDocs - 1
HashValue == 0 .. HashSpace - 1
Bucket == 0 .. Buckets - 1

\* What the constants are; MCLexical, which instantiates this module, assumes it.
Parameters ==
    /\ GramLen \in Nat \ {0} /\ HashSpace \in Nat \ {0} /\ Density \in Nat \ {0}
    /\ Buckets \in Nat \ {0} /\ MaxOpen \in Nat \ {0} /\ ChunkRecords \in Nat \ {0}
    /\ Radix \in Nat \ {0, 1} /\ {NumDocs, MaxLost, Changes} \subseteq Nat
    /\ Hash \in [[1 .. GramLen -> Char] -> HashValue]
    /\ NoDoc \notin Nat
    /\ \A s \in Stores : s \in Seq(Seq([doc : DocId \cup {NoDoc}, text : Seq(Char)]))

VARIABLES
    store,  \* passages.parquet: its files in path order, their rows
    work,   \* bucket -> the records in bucket-nnnn.bin; an empty one is no file
    index,  \* phrase.index, or NoIndex
    job,    \* the build that is running
    source, \* history: the store the index was built from
    changes \* how often the store was replaced

vars == <<store, work, index, job, source, changes>>

-----------------------------------------------------------------------------
(* Grams, records, postings.                                               *)

Grams(text) == [k \in 1 .. (IF Len(text) < GramLen THEN 0 ELSE Len(text) - GramLen + 1) |->
                   SubSeq(text, k, k + GramLen - 1)]
Hashes(text) == {Hash[g] : g \in Range(Grams(text))}

Record == [hash : HashValue, doc : DocId]
Before(r, s) == r.hash < s.hash \/ (r.hash = s.hash /\ r.doc < s.doc)

\* Buckets are ranges of hashes.
HashBucket(hash) == (hash * Buckets) \div HashSpace

\* A cell of the postings: a byte of a varint, or a whole Roaring bitmap.
Cell == [digit : 0 .. Radix - 1, more : BOOLEAN, bits : SUBSET DocId]

Varint[n \in Nat] ==
    IF n < Radix THEN <<[digit |-> n, more |-> FALSE, bits |-> {}]>>
    ELSE <<[digit |-> n % Radix, more |-> TRUE, bits |-> {}]>> \o Varint[n \div Radix]
ZigZag(v)   == IF v < 0 THEN -2 * v - 1 ELSE 2 * v
UnZigZag(z) == IF z % 2 = 0 THEN z \div 2 ELSE -(z \div 2) - 1

\* encode_sorted_docids_delta_varint and DeltaDocIdIter.
EncodeDocs(docs) ==
    FlattenSeq([k \in DOMAIN docs |->
        Varint[ZigZag(IF k = 1 THEN docs[1] ELSE docs[k] - docs[k - 1])]])
DecodeDocs(cells) ==
    LET read(acc, cell) ==
            LET z == acc.value + cell.digit * acc.unit
                d == acc.current + UnZigZag(z)
            IN  IF cell.more THEN [acc EXCEPT !.value = z, !.unit = @ * Radix]
                ELSE [value |-> 0, unit |-> 1, current |-> d, docs |-> Append(acc.docs, d)]
    IN  FoldLeft(read, [value |-> 0, unit |-> 1, current |-> 0, docs |-> <<>>], cells).docs

Threshold == IF NumDocs \div Density > 1 THEN NumDocs \div Density ELSE 1
Encode(docs) == IF Len(docs) > Threshold
                THEN <<[digit |-> 0, more |-> FALSE, bits |-> Range(docs)]>>
                ELSE EncodeDocs(docs)

Entry == [hash : HashValue, offset : Nat, len : Nat, dense : BOOLEAN]
Index == [entries : Seq(Entry), postings : Seq(Cell)]
NoIndex == [entries |-> <<>>, postings |-> <<>>]

-----------------------------------------------------------------------------
Stage == {"idle", "scan", "write", "flush", "sort", "open", "merge", "final", "published"}

Job == [at : Stage,
        file : Nat,                        \* phase 1: the file to be scanned next,
        buffer : [Bucket -> Seq(Record)],  \* its records not handed to a writer,
        open : Seq(Bucket),                \* the open writers, least recent first,
        unflushed : [Bucket -> Seq(Record)], \* and what their buffers hold
        bucket : Nat,                      \* phases 2 and 3: the bucket at work,
        runs : [Bucket -> Seq(Seq(Record))], \* the sorted files, from where they are read,
        heap : SUBSET [record : Record, run : Nat],
        lost : SUBSET (Nat \X Nat),       \* the runs that could not be opened,
        missed : SUBSET Record,            \* and what was in them: history
        docs : Seq(DocId), hash : HashValue \cup {-1}, \* the gram being collected
        entries : Seq(Entry), postings : Seq(Cell)]  \* the two temporary files
NoRecords == [b \in Bucket |-> <<>>]
Idle == [at |-> "idle", file |-> 0, buffer |-> NoRecords, open |-> <<>>,
         unflushed |-> NoRecords, bucket |-> 0, runs |-> NoRecords, heap |-> {},
         lost |-> {}, missed |-> {}, docs |-> <<>>, hash |-> -1, entries |-> <<>>, postings |-> <<>>]

TypeOK ==
    /\ store \in Stores /\ source \in Stores
    /\ work \in [Bucket -> Seq(Record)]
    /\ index \in Index
    /\ job.at \in Stage /\ job.file \in Nat /\ job.bucket \in 0 .. Buckets
    /\ job.buffer \in [Bucket -> Seq(Record)] /\ job.unflushed \in [Bucket -> Seq(Record)]
    /\ job.open \in Seq(Bucket) /\ Len(job.open) <= MaxOpen
    /\ \A b \in Bucket : job.runs[b] \in Seq(Seq(Record))
    /\ \A item \in job.heap : item.record \in Record /\ item.run \in DOMAIN job.runs[job.bucket]
    /\ Cardinality(job.lost) <= MaxLost /\ job.missed \subseteq Record
    /\ job.docs \in Seq(DocId) /\ job.hash \in HashValue \cup {-1}
    /\ job.entries \in Seq(Entry) /\ job.postings \in Seq(Cell)
    /\ changes \in 0 .. Changes

Init ==
    /\ store \in Stores /\ source = store
    /\ work = NoRecords
    /\ index = NoIndex
    /\ job = Idle
    /\ changes = 0

At(stage) == job.at = stage

-----------------------------------------------------------------------------
(* Phase 1: the records of every file, by bucket.                          *)

\* Mutant of Start: what an earlier build left in the directory stays.
StartOver ==
    /\ At("idle")
    /\ job' = [Idle EXCEPT !.at = "scan", !.file = 1]
    /\ UNCHANGED <<store, work, index, source, changes>>

Start ==
    /\ At("idle")
    /\ work' = NoRecords
    /\ job' = [Idle EXCEPT !.at = "scan", !.file = 1]
    /\ UNCHANGED <<store, index, source, changes>>

\* Each row that the table knows gives one record for each hash of its text.
RecordsOf(row) ==
    IF row.doc = NoDoc THEN <<>>
    ELSE LET hs == SetToSortSeq(Hashes(row.text), <)
         IN  [k \in DOMAIN hs |-> [hash |-> hs[k], doc |-> row.doc]]

ScanFile ==
    LET rows == store[job.file]
        recs == FlattenSeq([k \in DOMAIN rows |-> RecordsOf(rows[k])])
    IN  /\ At("scan") /\ job.file \in DOMAIN store
        /\ job' = [job EXCEPT !.at = "write", !.file = @ + 1,
                      !.buffer = [b \in Bucket |-> SelectSeq(recs, LAMBDA r : HashBucket(r.hash) = b)]]
        /\ UNCHANGED <<store, work, index, source, changes>>

Waiting == {b \in Bucket : job.buffer[b] # <<>>}

Evicts(b) == b \notin Range(job.open) /\ Len(job.open) >= MaxOpen

\* One buffer goes to its writer; the least recently used is flushed and closed
\* when too many are open.  A file is opened again for appending.
WriteBuffer ==
    /\ At("write") /\ Waiting # {}
    /\ LET b == Min(Waiting)
           v == Head(job.open)
       IN  /\ work' = IF Evicts(b) THEN [work EXCEPT ![v] = @ \o job.unflushed[v]] ELSE work
           /\ job' = [job EXCEPT
                  !.buffer[b] = <<>>,
                  !.open = Append(Remove(IF Evicts(b) THEN Tail(@) ELSE @, b), b),
                  !.unflushed = [c \in Bucket |->
                      IF c = b THEN @[c] \o job.buffer[b]
                      ELSE IF Evicts(b) /\ c = v THEN <<>> ELSE @[c]]]
    /\ UNCHANGED <<store, index, source, changes>>

EndFile ==
    /\ At("write") /\ Waiting = {}
    /\ job' = [job EXCEPT !.at = "scan"]
    /\ UNCHANGED <<store, work, index, source, changes>>

FlushAll ==
    /\ At("scan") /\ job.file \notin DOMAIN store
    /\ work' = [b \in Bucket |-> work[b] \o job.unflushed[b]]
    /\ job' = [job EXCEPT !.at = "sort", !.unflushed = NoRecords, !.open = <<>>]
    /\ UNCHANGED <<store, index, source, changes>>

-----------------------------------------------------------------------------
(* Phases 2 and 3: sorted runs of each bucket, merged.                     *)

RunsOf(records) ==
    [k \in 1 .. (Len(records) + ChunkRecords - 1) \div ChunkRecords |->
        SortSeq(SubSeq(records, (k - 1) * ChunkRecords + 1,
                       IF k * ChunkRecords < Len(records) THEN k * ChunkRecords ELSE Len(records)),
                Before)]

SortBucket ==
    /\ At("sort") /\ job.bucket \in Bucket
    /\ work' = [work EXCEPT ![job.bucket] = <<>>]
    /\ job' = [job EXCEPT !.runs[job.bucket] = RunsOf(work[job.bucket]), !.bucket = @ + 1]
    /\ UNCHANGED <<store, index, source, changes>>

EndSort ==
    /\ At("sort") /\ job.bucket = Buckets
    /\ job' = [job EXCEPT !.at = "open", !.bucket = 0]
    /\ UNCHANGED <<store, work, index, source, changes>>

\* The first record of every run of the bucket is in the heap.  A run that cannot be
\* opened (filter_map(.ok())) is passed over, and nobody is told.
OpenRuns ==
    LET runs == job.runs[job.bucket]
    IN  /\ At("open") /\ job.bucket \in Bucket
        /\ \E gone \in SUBSET DOMAIN runs :
             /\ Cardinality(job.lost) + Cardinality(gone) <= MaxLost
             /\ job' = [job EXCEPT !.at = "merge",
                    !.lost = @ \cup ({job.bucket} \X gone),
                    !.missed = @ \cup UNION {Range(runs[k]) : k \in gone},
                    !.heap = {[record |-> runs[k][1], run |-> k] : k \in DOMAIN runs \ gone},
                    !.runs[job.bucket] = [k \in DOMAIN runs |-> IF k \in gone THEN <<>> ELSE Tail(runs[k])]]
        /\ UNCHANGED <<store, work, index, source, changes>>

\* emit_gram: j with the gram it has collected written out.
EmitGram(j) ==
    IF j.docs = <<>> THEN j
    ELSE LET docs == SetToSortSeq(Range(j.docs), <)
             cells == Encode(docs)
         IN  [j EXCEPT !.entries = Append(@, [hash |-> j.hash, offset |-> Len(j.postings),
                                             len |-> Len(cells), dense |-> Len(docs) > Threshold]),
                       !.postings = @ \o cells]

\* The least record is taken from the heap, and the next one of its run put there.
PopRecord ==
    /\ At("merge")
    /\ \E item \in job.heap :
          /\ \A other \in job.heap : ~ Before(other.record, item.record)
          /\ LET r == item.record
                 j == IF job.hash = r.hash THEN job
                      ELSE [EmitGram(job) EXCEPT !.hash = r.hash, !.docs = <<>>]
                 rest == job.runs[job.bucket][item.run]
             IN  job' = [j EXCEPT
                     !.docs = IF @ # <<>> /\ Last(@) = r.doc THEN @ ELSE Append(@, r.doc),
                     !.heap = (@ \ {item}) \cup
                        (IF rest = <<>> THEN {} ELSE {[record |-> Head(rest), run |-> item.run]}),
                     !.runs[job.bucket][item.run] = IF rest = <<>> THEN <<>> ELSE Tail(rest)]
    /\ UNCHANGED <<store, work, index, source, changes>>

EndBucket ==
    /\ At("merge") /\ job.heap = {}
    /\ job' = [EmitGram(job) EXCEPT !.docs = <<>>, !.hash = -1,
                  !.runs[job.bucket] = <<>>, !.bucket = @ + 1, !.at = "open"]
    /\ UNCHANGED <<store, work, index, source, changes>>

EndMerge ==
    /\ At("open") /\ job.bucket = Buckets
    /\ job' = [job EXCEPT !.at = "final"]
    /\ UNCHANGED <<store, work, index, source, changes>>

-----------------------------------------------------------------------------
(* Phase 4 and the end.                                                    *)

\* write_final_index: a temporary file nobody else opens, renamed.
WriteFinalIndex ==
    /\ At("final")
    /\ index' = [entries |-> job.entries, postings |-> job.postings]
    /\ source' = store
    /\ job' = [job EXCEPT !.at = "published"]
    /\ UNCHANGED <<store, work, changes>>

CleanUp ==
    /\ At("published")
    /\ job' = Idle
    /\ UNCHANGED <<store, work, index, source, changes>>

\* The process dies, or fails; so does everything it had in memory, buffers that
\* were not flushed included.
Die ==
    /\ ~ At("idle")
    /\ job' = Idle
    /\ UNCHANGED <<store, work, index, source, changes>>

\* Passages are ingested, deleted or replaced between builds.
ReplaceStore ==
    /\ At("idle") /\ changes < Changes
    /\ store' \in Stores
    /\ changes' = changes + 1
    /\ UNCHANGED <<work, index, job, source>>

Next ==
    \/ Start \/ ScanFile \/ WriteBuffer \/ EndFile \/ FlushAll
    \/ SortBucket \/ EndSort \/ OpenRuns \/ PopRecord \/ EndBucket \/ EndMerge
    \/ WriteFinalIndex \/ CleanUp \/ Die \/ ReplaceStore

Spec == Init /\ [][Next]_vars

-----------------------------------------------------------------------------
(* Search.                                                                 *)

\* find_gram: binary search of the gram table; the places that match, one or none.
FindGram(hash) ==
    LET n == Len(index.entries)
        find[lo \in 0 .. n, hi \in 0 .. n] ==
            LET mid == lo + (hi - lo) \div 2
                h   == index.entries[mid + 1].hash
            IN  IF lo >= hi THEN {}
                ELSE IF h = hash THEN {mid + 1}
                ELSE IF h < hash THEN find[mid + 1, hi] ELSE find[lo, mid]
    IN  find[0, n]

CellsOf(e) == SubSeq(index.postings, e.offset + 1, e.offset + e.len)

\* intersect_candidates_with_stream: both are read in one direction only.
Intersect(candidates, stream) ==
    LET step(acc, c) ==
            LET skip == Cardinality({k \in DOMAIN acc.rest : \A i \in 1 .. k : acc.rest[i] < c})
                rest == SubSeq(acc.rest, skip + 1, Len(acc.rest))
            IN  [rest |-> rest,
                 kept |-> IF rest # <<>> /\ Head(rest) = c THEN Append(acc.kept, c) ELSE acc.kept]
    IN  FoldLeft(step, [rest |-> stream, kept |-> <<>>], candidates).kept

\* candidate_ids_for_normalized_streaming.
Candidates(phrase) ==
    LET grams   == Grams(phrase)
        found   == [k \in DOMAIN grams |-> FindGram(Hash[grams[k]])]
        entries == [k \in DOMAIN grams |-> index.entries[CHOOSE i \in found[k] : TRUE]]
        dense   == {k \in DOMAIN grams : entries[k].dense}
        lists   == [k \in DOMAIN grams |-> DecodeDocs(CellsOf(entries[k]))]
        seed    == CHOOSE k \in DOMAIN grams : \A l \in DOMAIN grams : entries[k].len <= entries[l].len
        bitmap(k) == CellsOf(entries[k])[1].bits
        first   == IF dense = {} THEN lists[seed]
                   ELSE SetToSortSeq({d \in DocId : \A k \in dense : d \in bitmap(k)}, <)
        others  == SetToSeq((DOMAIN grams \ dense) \ (IF dense = {} THEN {seed} ELSE {}))
    IN  IF grams = <<>> \/ \E k \in DOMAIN grams : found[k] = {} THEN <<>>
        ELSE FoldLeft(LAMBDA c, k : Intersect(c, lists[k]), first, others)

HasPhrase(text, phrase) ==
    \E k \in 0 .. Len(text) - Len(phrase) : SubSeq(text, k + 1, k + Len(phrase)) = phrase

\* The rows of docs whose text has the phrase, by their doc_ids, at most limit.
RowsOf(docs, phrase, limit) ==
    LET rows == SelectSeq(FlattenSeq(store),
                   LAMBDA row : row.doc \in docs /\ HasPhrase(row.text, phrase))
        ids  == SortSeq([k \in DOMAIN rows |-> rows[k].doc], <)
    IN  SubSeq(ids, 1, IF limit < Len(ids) THEN limit ELSE Len(ids))

\* phrase_rows_with_explicit_doc_table through the index, and its fallback.
PhraseRows(phrase, range, limit) ==
    RowsOf({d \in Range(Candidates(phrase)) : d \in range}, phrase, limit)
DocRangeRows(phrase, range, limit) == RowsOf(range \cap DocId, phrase, limit)

-----------------------------------------------------------------------------
(* What the index promises.                                                *)

Published == At("published") /\ source = store

\* After any earlier build that died and whatever the store was then, the gram
\* table lists hashes of the store, each once and in the order binary search needs, and
\* its postings decode to doc_ids of passages that have it.  Nothing else is missing
\* than what was in a sorted run that could not be opened.
PostingsAreExact ==
    Published =>
        LET entries == index.entries
            rows == {row \in UNION {Range(store[f]) : f \in DOMAIN store} : row.doc # NoDoc}
            docs(e) == IF e.dense THEN CellsOf(e)[1].bits ELSE Range(DecodeDocs(CellsOf(e)))
            having(h) == {row.doc : row \in {r \in rows : h \in Hashes(r.text)}}
            kept(h) == {d \in having(h) : [hash |-> h, doc |-> d] \notin job.missed}
        IN  /\ \A k \in DOMAIN entries : k > 1 => entries[k - 1].hash < entries[k].hash
            /\ \A h \in HashValue : kept(h) # {} => \E e \in Range(entries) : e.hash = h
            /\ \A e \in Range(entries) :
                  docs(e) # {} /\ kept(e.hash) \subseteq docs(e) /\ docs(e) \subseteq having(e.hash)

\* A search through the index returns, of the documents of which no record was in a run
\* that could not be opened, the rows a scan of them returns,
\* for every phrase at least as long as a gram, whatever hashes coincide and
\* whether its lists are bitmaps or varints; a limit cuts both alike.
Phrases == UNION {[1 .. n -> Char] : n \in GramLen .. GramLen + 1}
Unharmed == {d \in DocId : \A r \in job.missed : r.doc # d}
IndexAgreesWithScan ==
    Published =>
        \A phrase \in Phrases, limit \in 1 .. 2, range \in {Unharmed, Unharmed \ {0}} :
            PhraseRows(phrase, range, limit) = DocRangeRows(phrase, range, limit)

=============================================================================
