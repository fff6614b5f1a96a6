---------------------------- MODULE TfidfBuild ----------------------------
(***************************************************************************)
(* The build of the TF-IDF index (tfidf/index.rs): document frequencies    *)
(* counted by threads into files in a working directory, a vocabulary that *)
(* is chosen from them and saved, postings written and merged the same     *)
(* way, and the index.  The build may die at any step; the next one takes  *)
(* up what it finds in the directory.                                      *)
(*                                                                         *)
(* One process builds at a time, and nothing is ingested during a build.   *)
(* Weights are left out: a posting is a term and a document.               *)
(***************************************************************************)
EXTENDS Integers, Sequences, FiniteSets, Bags, Functions

CONSTANTS Unit,        \* work units: the row groups of the Parquet files
          Doc,         \* doc_ids of the document table
          Term,        \* hashes of character n-grams
          Buckets,     \* bucket_count
          MaxThreads,  \* largest rayon pool
          MinDf,       \* min_df
          MaxDf,       \* max_df_count
          MaxFeatures, \* max_features
          Stores,      \* the stores there may be: unit -> its rows
          MaxDeaths,   \* bound: how many builds over one directory die
          Changes      \* bound: how often the store is replaced

Bucket == 0 .. Buckets - 1
Thread == 1 .. MaxThreads

ASSUME TermAssumption == Term \subseteq Nat /\ IsFiniteSet(Term)
ASSUME UnitAssumption == IsFiniteSet(Unit)
ASSUME SizeAssumption == /\ Buckets \in Nat \ {0} /\ MaxThreads \in Nat \ {0}
                         /\ MinDf \in Nat /\ MaxDf \in Nat \ {0} /\ MaxFeatures \in Nat
                         /\ MaxDeaths \in Nat /\ Changes \in Nat
ASSUME StoresAssumption == \A s \in Stores : s \in [Unit -> Seq([doc : Doc, terms : SUBSET Term])]

VARIABLES
    store,   \* passages.parquet
    work,    \* the working directory
    job,     \* the build that is running
    history, \* history: what befell the builds that used this directory
    deaths, changes

vars == <<store, work, job, history, deaths, changes>>

-----------------------------------------------------------------------------
(* Files of the working directory.                                         *)

\* A file of records of one size; those of one key are counted.  After a record
\* that was cut short nothing that is appended is read as what it was.
IsFile(f, Key) == IsABag(f.records) /\ BagToSet(f.records) \subseteq Key /\ f.torn \in BOOLEAN
NoFile == [records |-> EmptyBag, torn |-> FALSE]
AppendTo(file, more) ==
    IF file.torn THEN file ELSE [records |-> file.records (+) more.records, torn |-> more.torn]
Copies(k, bag) == IF k \in DOMAIN bag THEN bag[k] ELSE 0
Whole(bag) == [records |-> bag, torn |-> FALSE]

\* What a write that was cut may have written, at most one of its records whole.
Cuts(file) ==
    {[records |-> [k \in S |-> file.records[k]], torn |-> torn] :
        S \in {K \in SUBSET DOMAIN file.records : K # DOMAIN file.records /\ Cardinality(K) < 2},
        torn \in BOOLEAN}

\* df_buckets and post_buckets: files of each thread, and the merged ones.
NoFiles == [thread |-> [t \in Thread |-> [b \in Bucket |-> NoFile]],
            main   |-> [b \in Bucket |-> NoFile]]

\* phase2.vocab.bin, phase2.idf.bin and phase2.termid.bin.
Saved == {"none", "torn", "whole"}
NoVocabulary == [k \in {} |-> 0]

NoWork == [progress |-> {}, begun |-> FALSE, done |-> FALSE, dfDir |-> FALSE,
           df |-> NoFiles, post |-> NoFiles,
           vocab |-> "none", dfs |-> NoVocabulary, idf |-> "none", termid |-> "none"]

-----------------------------------------------------------------------------
(* What is counted.                                                        *)

DfBucket(h) == h % Buckets

\* Document frequencies of the rows of a unit, over all its rows.
BagOf(keys, count(_)) == [k \in {j \in keys : count(j) > 0} |-> count(k)]
RowsWith(s, u, h, docs) == Cardinality({i \in DOMAIN s[u] : h \in s[u][i].terms /\ s[u][i].doc \in docs})
DfOf(u) == BagOf(Term, LAMBDA h : RowsWith(store, u, h, Doc))
PostsOf(u, terms) == BagOf(terms \X Doc, LAMBDA p : RowsWith(store, u, p[1], {p[2]}))
RowsOf(u, terms) == {r.doc : r \in {x \in Range(store[u]) : x.terms \cap terms # {}}}

More(dfs, h, g) == dfs[h] > dfs[g] \/ (dfs[h] = dfs[g] /\ h < g)
Largest(dfs, terms) ==
    IF MaxFeatures = 0 THEN terms
    ELSE {h \in terms : Cardinality({g \in terms : More(dfs, g, h)}) < MaxFeatures}
Within(dfs, terms) == {h \in terms : dfs[h] \in MinDf .. MaxDf}

\* min_df and max_df first, then the max_features most frequent.
Vocabulary(dfs) ==
    LET chosen == Largest(dfs, Within(dfs, DOMAIN dfs)) IN [h \in chosen |-> dfs[h]]

\* What the merged files have of each term.
Counts(main) ==
    [h \in UNION {DOMAIN main[b].records : b \in Bucket} |->
        SumFunction([b \in Bucket |-> Copies(h, main[b].records)])]

\* Term ids are the places in the vocabulary sorted by hash.
TermId(h) == Cardinality({g \in DOMAIN work.dfs : g < h})
PostBucket(p) == TermId(p[1]) % Buckets

InBucket(bag, bucket(_), b) == [k \in {j \in DOMAIN bag : bucket(j) = b} |-> bag[k]]

-----------------------------------------------------------------------------
Stage == {"idle", "count", "mergeDf", "select", "vocab", "idf", "termid", "dropDf",
          "post", "mergePost", "emit", "publish", "published"}

\* A thread at work: its unit, and the bucket files not yet written.
NoTask == [unit |-> {}, left |-> {}]
NoHistory == [stores |-> {}, died |-> {}, threads |-> 0]
Idle == [at |-> "idle", threads |-> 1, pending |-> {}, task |-> [t \in Thread |-> NoTask],
         bucket |-> 0, thread |-> 1, copied |-> FALSE, rows |-> {}, posts |-> EmptyBag]

TypeOK ==
    /\ store \in Stores
    /\ work.progress \subseteq Unit /\ {work.begun, work.done, work.dfDir} \subseteq BOOLEAN
    /\ \A b \in Bucket, f \in {"df", "post"} :
          LET Key == IF f = "df" THEN Term ELSE Term \X Doc
          IN  /\ IsFile(work[f].main[b], Key)
              /\ \A t \in Thread : IsFile(work[f].thread[t][b], Key)
    /\ {work.vocab, work.idf, work.termid} \subseteq Saved
    /\ DOMAIN work.dfs \subseteq Term
    /\ job.at \in Stage /\ job.threads \in Thread
    /\ job.pending \subseteq Unit /\ job.rows \subseteq Doc
    /\ \A t \in Thread : /\ job.task[t].unit \subseteq Unit \ job.pending
                         /\ job.task[t].left \subseteq Bucket
                         /\ job.task[t].unit # {} => t <= job.threads
    /\ job.thread \in 1 .. job.threads /\ job.bucket \in 0 .. Buckets
    /\ BagToSet(job.posts) \subseteq Term \X Doc
    /\ history.stores \subseteq Stores /\ history.died \subseteq Stage \cup {"torn", "fewer"}
    /\ deaths \in 0 .. MaxDeaths + 1 /\ changes \in 0 .. Changes

Init ==
    /\ store \in Stores
    /\ work = NoWork
    /\ job = Idle
    /\ history = NoHistory
    /\ deaths = 0 /\ changes = 0

At(stage) == job.at = stage

\* A directory with none of the three markers is removed.  Nothing in it says
\* of which store, table or parameters it is.
Resuming == work.done \/ work.begun \/ work.vocab # "none"

Start ==
    /\ At("idle") /\ deaths <= MaxDeaths
    /\ \E n \in Thread :
          LET w == IF Resuming THEN work ELSE NoWork
          IN  /\ work' = IF w.done THEN w ELSE [w EXCEPT !.begun = TRUE, !.dfDir = TRUE]
              /\ job' = [Idle EXCEPT !.threads = n,
                            !.at = IF w.done THEN "select" ELSE "count",
                            !.pending = Unit \ w.progress]
              /\ history' = IF ~ Resuming
                            THEN [stores |-> {store}, died |-> {}, threads |-> n]
                            ELSE [stores |-> history.stores \cup {store}, threads |-> n,
                                  died |-> history.died \cup
                                           (IF n < history.threads THEN {"fewer"} ELSE {})]
    /\ UNCHANGED <<store, deaths, changes>>

-----------------------------------------------------------------------------
(* Phases 1 and 3: the pool takes units; a thread appends to files of its  *)
(* own.                                                                    *)

Free(t) == t <= job.threads /\ job.task[t].unit = {}
Holding(t, u, bag, bucket(_)) == [unit |-> {u}, left |-> {bucket(k) : k \in DOMAIN bag}]

CountUnit(t) ==
    /\ At("count") /\ Free(t)
    /\ \E u \in job.pending :
          job' = [job EXCEPT !.pending = @ \ {u}, !.task[t] = Holding(t, u, DfOf(u), DfBucket)]
    /\ UNCHANGED <<store, work, history, deaths, changes>>

DfPart(t, b) == Whole(InBucket(DfOf(CHOOSE u \in job.task[t].unit : TRUE), DfBucket, b))
PostPart(t, b) == Whole(InBucket(PostsOf(CHOOSE u \in job.task[t].unit : TRUE, DOMAIN work.dfs), PostBucket, b))

WriteDf(t) ==
    /\ At("count")
    /\ \E b \in job.task[t].left :
          /\ work' = [work EXCEPT !.df.thread[t][b] = AppendTo(@, DfPart(t, b))]
          /\ job' = [job EXCEPT !.task[t].left = @ \ {b}]
    /\ UNCHANGED <<store, history, deaths, changes>>

\* Mutant of Record: the line is written when the unit has been read.
RecordFirst(t) ==
    /\ At("count") /\ job.task[t].unit # {}
    /\ work' = [work EXCEPT !.progress = @ \cup job.task[t].unit]
    /\ job' = [job EXCEPT !.task[t] = IF @.left = {} THEN NoTask ELSE @]
    /\ UNCHANGED <<store, history, deaths, changes>>

\* The line in phase1_progress.txt, once every bucket has been flushed.
Record(t) ==
    /\ At("count") /\ job.task[t].unit # {} /\ job.task[t].left = {}
    /\ work' = [work EXCEPT !.progress = @ \cup job.task[t].unit]
    /\ job' = [job EXCEPT !.task[t] = NoTask]
    /\ UNCHANGED <<store, history, deaths, changes>>

AllFree == \A t \in 1 .. job.threads : Free(t)
EndCount ==
    /\ At("count") /\ job.pending = {} /\ AllFree
    /\ job' = [job EXCEPT !.at = "mergeDf"]
    /\ UNCHANGED <<store, work, history, deaths, changes>>

-----------------------------------------------------------------------------
(* The files of each thread are appended to the merged ones, then removed. *)

NextPart ==
    IF job.thread < job.threads THEN [job EXCEPT !.thread = @ + 1, !.copied = FALSE]
    ELSE [job EXCEPT !.thread = 1, !.bucket = @ + 1, !.copied = FALSE]

CopyPart(files) ==
    [files EXCEPT !.main[job.bucket] = AppendTo(@, files.thread[job.thread][job.bucket])]
RemovePart(files) == [files EXCEPT !.thread[job.thread][job.bucket] = NoFile]

Merge ==
    /\ job.at \in {"mergeDf", "mergePost"} /\ job.bucket \in Bucket
    /\ \/ /\ ~ job.copied
          /\ work' = IF At("mergeDf") THEN [work EXCEPT !.df = CopyPart(@)]
                     ELSE [work EXCEPT !.post = CopyPart(@)]
          /\ job' = [job EXCEPT !.copied = TRUE]
       \/ /\ job.copied
          /\ work' = IF At("mergeDf") THEN [work EXCEPT !.df = RemovePart(@)]
                     ELSE [work EXCEPT !.post = RemovePart(@)]
          /\ job' = NextPart
    /\ UNCHANGED <<store, history, deaths, changes>>

EndMergeDf ==
    /\ At("mergeDf") /\ job.bucket = Buckets
    /\ work' = [work EXCEPT !.done = TRUE]
    /\ job' = [job EXCEPT !.at = "select", !.bucket = 0]
    /\ UNCHANGED <<store, history, deaths, changes>>

-----------------------------------------------------------------------------
(* Phase 2.                                                                *)

Whole3 == {work.vocab, work.idf, work.termid} = {"whole"}
StartPosting == [job EXCEPT !.at = "post", !.pending = Unit]

LoadVocabulary ==
    /\ At("select") /\ Whole3
    /\ job' = StartPosting
    /\ UNCHANGED <<store, work, history, deaths, changes>>

\* A vocabulary of all buckets.  It is the first of the three files; phase2.vocab.bin alone makes a later build load.
WriteVocab ==
    /\ At("select") /\ work.vocab = "none" /\ work.dfDir
    /\ work' = [work EXCEPT !.vocab = "whole", !.dfs = Vocabulary(Counts(work.df.main))]
    /\ job' = [job EXCEPT !.at = "idf"]
    /\ UNCHANGED <<store, history, deaths, changes>>

WriteIdf ==
    /\ At("idf")
    /\ work' = [work EXCEPT !.idf = "whole"]
    /\ job' = [job EXCEPT !.at = "termid"]
    /\ UNCHANGED <<store, history, deaths, changes>>

WriteTermId ==
    /\ At("termid")
    /\ work' = [work EXCEPT !.termid = "whole"]
    /\ job' = [job EXCEPT !.at = "dropDf"]
    /\ UNCHANGED <<store, history, deaths, changes>>

DropDf ==
    /\ At("dropDf")
    /\ work' = [work EXCEPT !.dfDir = FALSE, !.df = NoFiles]
    /\ job' = StartPosting
    /\ UNCHANGED <<store, history, deaths, changes>>

-----------------------------------------------------------------------------
(* Phases 3 and 4, and the index.                                          *)

\* All units are read again; rows go to a file that each build creates anew.
PostUnit(t) ==
    /\ At("post") /\ Free(t)
    /\ \E u \in job.pending :
          job' = [job EXCEPT !.pending = @ \ {u},
                     !.rows = @ \cup RowsOf(u, DOMAIN work.dfs),
                     !.task[t] = Holding(t, u, PostsOf(u, DOMAIN work.dfs), PostBucket)]
    /\ UNCHANGED <<store, work, history, deaths, changes>>

WritePosts(t) ==
    /\ At("post")
    /\ \E b \in job.task[t].left :
          /\ work' = [work EXCEPT !.post.thread[t][b] = AppendTo(@, PostPart(t, b))]
          /\ job' = [job EXCEPT !.task[t].left = @ \ {b}]
    /\ UNCHANGED <<store, history, deaths, changes>>

EndUnit(t) ==
    /\ At("post") /\ job.task[t].unit # {} /\ job.task[t].left = {}
    /\ job' = [job EXCEPT !.task[t] = NoTask]
    /\ UNCHANGED <<store, work, history, deaths, changes>>

EndPost ==
    /\ At("post") /\ job.pending = {} /\ AllFree
    /\ job' = [job EXCEPT !.at = "mergePost"]
    /\ UNCHANGED <<store, work, history, deaths, changes>>

EndMergePost ==
    /\ At("mergePost") /\ job.bucket = Buckets
    /\ job' = [job EXCEPT !.at = "emit", !.bucket = 0]
    /\ UNCHANGED <<store, work, history, deaths, changes>>

\* The records of a bucket become the lists of its terms; each as often as it is there.
Emit ==
    /\ At("emit") /\ job.bucket \in Bucket
    /\ job' = [job EXCEPT !.bucket = @ + 1, !.posts = @ (+) work.post.main[job.bucket].records]
    /\ UNCHANGED <<store, work, history, deaths, changes>>

DropPosts ==
    /\ At("emit") /\ job.bucket = Buckets
    /\ work' = [work EXCEPT !.post = NoFiles]
    /\ job' = [job EXCEPT !.at = "publish"]
    /\ UNCHANGED <<store, history, deaths, changes>>

\* A temporary file, renamed.  Nothing here reads an index of an earlier build.
WriteIndexFile ==
    /\ At("publish")
    /\ job' = [job EXCEPT !.at = "published"]
    /\ UNCHANGED <<store, work, history, deaths, changes>>

RemoveWork ==
    /\ At("published")
    /\ work' = NoWork /\ job' = Idle
    /\ history' = NoHistory /\ deaths' = 0
    /\ UNCHANGED <<store, changes>>

-----------------------------------------------------------------------------
(* Errors and deaths.                                                      *)

\* A checkpoint that cannot be read, frequencies that are gone, or a record that
\* is misread as a term that is not in the vocabulary end the build.
Fail ==
    /\ \/ At("select") /\ work.vocab # "none" /\ ~ Whole3
       \/ At("select") /\ work.vocab = "none" /\ ~ work.dfDir
       \/ At("emit") /\ job.bucket \in Bucket /\ work.post.main[job.bucket].torn
    /\ job' = Idle
    /\ deaths' = deaths + 1
    /\ UNCHANGED <<store, work, history, changes>>

\* A write in which the process dies may leave a part of what it was to write.
Unwritten == {x \in Thread \X Bucket : x[2] \in job.task[x[1]].left}
Part(files) == files.thread[job.thread][job.bucket]
Copying == job.bucket \in Bucket /\ ~ job.copied
CutWrites ==
    CASE At("count") ->
            UNION {{[work EXCEPT !.df.thread[x[1]][x[2]] = AppendTo(@, c)] :
                       c \in Cuts(DfPart(x[1], x[2]))} : x \in Unwritten}
      [] At("post") ->
            UNION {{[work EXCEPT !.post.thread[x[1]][x[2]] = AppendTo(@, c)] :
                       c \in Cuts(PostPart(x[1], x[2]))} : x \in Unwritten}
      [] At("mergeDf") /\ Copying ->
            {[work EXCEPT !.df.main[job.bucket] = AppendTo(@, c)] : c \in Cuts(Part(work.df))}
      [] At("mergePost") /\ Copying ->
            {[work EXCEPT !.post.main[job.bucket] = AppendTo(@, c)] : c \in Cuts(Part(work.post))}
      [] At("select") /\ work.vocab = "none" /\ work.dfDir -> {[work EXCEPT !.vocab = "torn"]}
      [] At("idf") -> {[work EXCEPT !.idf = "torn"]}
      [] At("termid") -> {[work EXCEPT !.termid = "torn"]}
      [] OTHER -> {}

Torn(files) == \E b \in Bucket : files.main[b].torn \/ \E t \in Thread : files.thread[t][b].torn

Die ==
    /\ ~ At("idle") /\ deaths < MaxDeaths
    /\ work' \in {work} \cup CutWrites
    /\ history' = [history EXCEPT !.died = @ \cup {job.at} \cup
                      (IF Torn(work'.df) \/ Torn(work'.post) THEN {"torn"} ELSE {})]
    /\ deaths' = deaths + 1
    /\ job' = Idle
    /\ UNCHANGED <<store, changes>>

\* The user removes the directory, as the message of a build that fails says.
ClearWork ==
    /\ At("idle") /\ deaths > 0
    /\ work' = NoWork /\ history' = NoHistory /\ deaths' = 0
    /\ UNCHANGED <<store, job, changes>>

\* Passages are ingested or deleted and the table is built again, between builds.
ReplaceStore ==
    /\ At("idle") /\ changes < Changes
    /\ store' \in Stores
    /\ changes' = changes + 1
    /\ UNCHANGED <<work, job, history, deaths>>

Next ==
    \/ Start
    \/ \E t \in Thread : CountUnit(t) \/ WriteDf(t) \/ Record(t)
    \/ EndCount \/ Merge \/ EndMergeDf
    \/ LoadVocabulary \/ WriteVocab \/ WriteIdf \/ WriteTermId \/ DropDf
    \/ \E t \in Thread : PostUnit(t) \/ WritePosts(t) \/ EndUnit(t)
    \/ EndPost \/ EndMergePost \/ Emit \/ DropPosts \/ WriteIndexFile \/ RemoveWork
    \/ Fail \/ Die \/ ClearWork \/ ReplaceStore

Spec == Init /\ [][Next]_vars

-----------------------------------------------------------------------------
(* What the index promises.                                                *)

index == [dfs |-> work.dfs, posts |-> job.posts, rows |-> job.rows]

\* An index just published by builds that all read the store as it is now.
Sound == At("published") /\ history.stores = {store}
Died(stages) == history.died \cap stages # {}

Df(h, docs) == SumFunction([u \in Unit |-> RowsWith(store, u, h, docs)])

\* Deaths after the counting, wherever they cut the checkpoint, leave the right
\* vocabulary: every frequency is that of the store and within the limits, and no
\* term left out has more documents than one that was taken.
VocabularyIsExact ==
    Sound /\ ~ Died({"count", "mergeDf"}) =>
        LET chosen == DOMAIN index.dfs
            fit    == {h \in Term : Df(h, Doc) > 0 /\ Df(h, Doc) \in MinDf .. MaxDf}
        IN  /\ \A h \in chosen : index.dfs[h] = Df(h, Doc)
            /\ chosen \subseteq fit
            /\ Cardinality(chosen) =
                  IF MaxFeatures = 0 \/ Cardinality(fit) < MaxFeatures THEN Cardinality(fit) ELSE MaxFeatures
            /\ \A h \in chosen, g \in fit \ chosen :
                  Df(g, Doc) < Df(h, Doc) \/ (Df(g, Doc) = Df(h, Doc) /\ h < g)

\* Deaths before the postings are written, or after they were emitted, leave each
\* posting in the index once for each row, and a row vector for each document.
PostingsAreExact ==
    Sound /\ ~ Died({"post", "mergePost", "emit"}) =>
        /\ \A h \in Term, d \in Doc :
              Copies(<<h, d>>, index.posts) = IF h \in DOMAIN index.dfs THEN Df(h, {d}) ELSE 0
        /\ index.rows = {d \in Doc : \E h \in DOMAIN index.dfs : Df(h, {d}) > 0}

\* Wherever builds died: unless a record was cut, or a build went on with fewer
\* threads than the one before it, no document is missed, neither in a frequency
\* nor in a list, and no list has a document without the term.
NoDocumentIsLost ==
    Sound /\ ~ Died({"torn", "fewer"}) =>
        \A h \in DOMAIN index.dfs :
            /\ index.dfs[h] >= Df(h, Doc)
            /\ \A d \in Doc : /\ Copies(<<h, d>>, index.posts) >= Df(h, {d})
                              /\ <<h, d>> \in BagToSet(index.posts) => Df(h, {d}) > 0

\* The counted frequencies are gone only when all that is made from them is saved.
CheckpointBeforeRemoval == work.done /\ ~ work.dfDir => Whole3

\* The index that is published is that of the store (tfidf/index.rs, phases 1 to 5), and no death
\* loses what was counted.
TfidfIsExact ==
    /\ TypeOK
    /\ VocabularyIsExact
    /\ PostingsAreExact
    /\ NoDocumentIsLost
    /\ CheckpointBeforeRemoval

=============================================================================
