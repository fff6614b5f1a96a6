---------------------------- MODULE DirectIngest ----------------------------
(***************************************************************************)
(* The commands that write their part files where they are read, without   *)
(* a staging directory: `ingest-cef` (commands/cef.rs), `ingest-terebess`, *)
(* `ingest-dict`, and `patch-metadata`, which rewrites the part files of   *)
(* the passages one by one.                                                *)
(*                                                                         *)
(* A file is created empty under its name and readable once it is closed;  *)
(* a run may die at any step and what it wrote stays.                      *)
(***************************************************************************)
EXTENDS Integers, Sequences, FiniteSets, SequencesExt

CONSTANTS Writer,     \* CLI processes
          Corpora,    \* GD-CEF directories there are
          Pages,      \* directories of saved pages: sets of pages
          Dicts,      \* dictionary directories: sequences of sources
          Catalog,    \* embedded work catalog: work -> [author, period, title]
          PartRows,   \* PARQUET_BATCH_SIZE, DICT_BATCH_SIZE
          Missing,    \* a file of a GD-CEF directory that is not there
          BlankLine, BrokenLine, \* a line of white space, one that does not parse
          MaxRuns     \* bound: runs started

VARIABLES
    files,    \* <<partition, part, suffix>> -> the file of that name
    run,      \* process -> its run
    runs,     \* bound: runs started so far
    expected, \* history: partition -> what its last finished runs brought
    dirty     \* history: partitions a death or a race has left in doubt

direct == <<files, run, runs, expected, dirty>>

-----------------------------------------------------------------------------
(* validate: everything it finds wrong is an error; all files are read.    *)

RequiredFields == {"corpus_id", "name", "language", "snapshot_id", "rights_id"}
Records(lines) == {i \in DOMAIN lines : lines[i] \notin {BlankLine, BrokenLine}}
Broken(file, lines) == {<<file, i, "invalid_json">> : i \in {j \in DOMAIN lines : lines[j] = BrokenLine}}
Repeated(lines, Id(_)) == {i \in Records(lines) : Id(lines[i]) # "" /\
                              \E j \in Records(lines) : j < i /\ Id(lines[j]) = Id(lines[i])}

TomlErrors(toml) ==
    IF toml = Missing THEN {<<"corpus.toml", 0, "missing_file">>}
    ELSE (IF toml.schema = "gd-cef-v1" THEN {} ELSE {<<"corpus.toml", 0, "invalid_schema">>})
         \cup {<<"corpus.toml", 0, "missing_field">> : f \in RequiredFields \cap toml.empty}

WorkIds(c) == IF c.works = Missing THEN {}
              ELSE {c.works[i].work_id : i \in Records(c.works)} \ {""}

WorkErrors(c) ==
    IF c.works = Missing THEN {<<"works.jsonl", 0, "missing_file">>}
    ELSE LET ws == c.works
             At(S, code) == {<<"works.jsonl", i, code>> : i \in S}
         IN  At({i \in Records(ws) : "" \in {ws[i].work_id, ws[i].title}}, "missing_field")
             \cup At(Repeated(ws, LAMBDA w : w.work_id), "duplicate_work_id")
             \cup At({i \in Records(ws) : ws[i].dates # <<>> /\ ws[i].dates[1] > ws[i].dates[2]},
                     "invalid_date_range")
             \cup Broken("works.jsonl", ws)

PassageErrors(c) ==
    IF c.passages = Missing THEN {<<"passages.jsonl", 0, "missing_file">>}
    ELSE LET ps == c.passages
             At(S, code) == {<<"passages.jsonl", i, code>> : i \in S}
         IN  At({i \in Records(ps) : "" \in {ps[i].passage_id, ps[i].work_id, ps[i].text}},
                "missing_field")
             \cup At(Repeated(ps, LAMBDA q : q.passage_id), "duplicate_passage_id")
             \cup At({i \in Records(ps) : ps[i].work_id \notin WorkIds(c) \cup {""}},
                     "invalid_work_id")
             \cup Broken("passages.jsonl", ps)

Errors(c) == TomlErrors(c.toml) \cup WorkErrors(c) \cup PassageErrors(c)
Valid     == {c \in Corpora : Errors(c) = {}}

\* ingest: a passage with what its work says, or else what the corpus defaults to.
CefRow(c, q) ==
    LET work == CHOOSE w \in {c.works[i] : i \in Records(c.works)} : w.work_id = q.work_id
    IN  [id     |-> q.passage_id, work |-> q.work_id, text |-> q.text,
         author |-> work.author,  title |-> work.title,
         period |-> IF work.period # "" THEN work.period ELSE c.toml.default_period,
         image  |-> 0]

CefRows(c) == LET lines == SelectSeq(c.passages, LAMBDA q : q # BlankLine)
              IN  [i \in DOMAIN lines |-> CefRow(c, lines[i])]

-----------------------------------------------------------------------------
(* extract_page: placeholders, pages with hardly any text and unreadable   *)
(* ones are left out; the image kept is the largest that is not an icon,   *)
(* the first of those of that size.                                        *)

IconBytes == 5
Pictures(page) == {i \in DOMAIN page.images :
                      /\ page.images[i].mime \notin {"svg+xml", "gif"}
                      /\ page.images[i].bytes >= IconBytes}
MainImage(page) == IF Pictures(page) = {} THEN 0
                   ELSE CHOOSE i \in Pictures(page) : \A j \in Pictures(page) :
                           \/ page.images[j].bytes < page.images[i].bytes
                           \/ page.images[j].bytes = page.images[i].bytes /\ i <= j

PageKey(page)  == IF page.url # "" THEN page.url ELSE page.file
Kept(pages)    == {g \in pages : g.readable /\ ~ g.placeholder /\ g.long}
PageRow(page)  == [id     |-> PageKey(page), work |-> PageKey(page), text |-> page.text,
                   author |-> page.title, title |-> page.title, period |-> "", image |-> MainImage(page)]

\* The pages are extracted in parallel and sorted by the id, stably.
PageRows ==
    [pages \in Pages |->
        {[i \in DOMAIN s |-> PageRow(s[i])] :
            s \in {t \in SetToSeqs(Kept(pages)) : \A i \in 1 .. Len(t) - 1 :
                       t[i].rank <= t[i + 1].rank}}]

-----------------------------------------------------------------------------
(* The dictionaries: what a value of the JSON file gives as glosses.       *)

Glosses(format, v) ==
    CASE format = "soothill"                        -> <<v.texts[1]>>
      [] format = "dingfubao" /\ v.kind = "array"   -> v.texts
      [] format = "simple" /\ v.kind = "string"     -> v.texts
      [] format = "simple" /\ v.kind = "object"     -> IF v.texts = <<>> THEN <<>> ELSE <<v.texts[1]>>
      [] format = "pentaglot" /\ v.kind = "object"  -> IF v.texts = <<>> THEN <<>> ELSE <<v.texts>>
      [] OTHER                                      -> <<>>

\* Terms of one character and empty glosses are left out.
EntriesOf(source, e) ==
    LET gs == SelectSeq(Glosses(source.format, e.value), LAMBDA g : g # "" /\ ~ e.short)
    IN  [i \in DOMAIN gs |-> <<e.term, gs[i]>>]
DictRows(source) == FlattenSeq([i \in DOMAIN source.entries |-> EntriesOf(source, source.entries[i])])

-----------------------------------------------------------------------------
(* Files and runs.                                                         *)

NoFile == [state |-> "absent", rows |-> <<>>, writers |-> {}]
FileAt(n) == IF n \in DOMAIN files THEN files[n] ELSE NoFile
WithFile(n, f) == [m \in DOMAIN files \cup {n} |-> IF m = n THEN f ELSE files[m]]

\* The part files of a partition.
PartsOf(k) == {n \in DOMAIN files : n[1] = k /\ n[3] = "parquet"}
Passages   == {"cef", "terebess"}
IsDict(k)  == k \notin Passages

\* What is to be written of a partition: chunks from a part number on.
Chunks(k, first, rows) ==
    LET count == (Len(rows) + PartRows - 1) \div PartRows
    IN  [i \in 1 .. count |->
            [name |-> <<k, first + i - 1, "parquet">>,
             rows |-> SubSeq(rows, (i - 1) * PartRows + 1,
                             IF i = count THEN Len(rows) ELSE i * PartRows),
             all  |-> IF i = count THEN rows ELSE <<>>]]

\* Mutant of NextPart: the last part that is there.
LastPart(k) == LET used == {n[2] : n \in PartsOf(k)}
               IN  IF used = {} THEN 0 ELSE CHOOSE i \in used : \A j \in used : j <= i

NextPart(k) == LET used == {n[2] : n \in PartsOf(k)}
               IN  IF used = {} THEN 0 ELSE 1 + CHOOSE i \in used : \A j \in used : j <= i

Done == [at |-> "idle", kind |-> "none", todo |-> <<>>, scope |-> {}, raced |-> FALSE]
At(p, stage) == run[p].at = stage

\* A run that starts beside another on the same partition races with it; not a
\* patch with an ingest of pages, which never writes a part that is there.
Rivals(p, kind, scope) == {q \in Writer \ {p} : /\ run[q].scope \cap scope # {}
                                                /\ {kind, run[q].kind} # {"patch", "terebess"}}
Begin(p, kind, at, todo, scope) ==
    /\ At(p, "idle") /\ runs < MaxRuns
    /\ runs' = runs + 1
    /\ run' = [q \in Writer |->
                  IF q = p THEN [at |-> at, kind |-> kind, todo |-> todo, scope |-> scope,
                                 raced |-> Rivals(p, kind, scope) # {}]
                  ELSE IF q \in Rivals(p, kind, scope) THEN [run[q] EXCEPT !.raced = TRUE] ELSE run[q]]
    /\ dirty' = dirty \cup UNION {run[q].scope \cap scope : q \in Rivals(p, kind, scope)}
    /\ UNCHANGED <<files, expected>>

\* ingest: one part, number 0, however many passages there are.
StartCef(p, c) ==
    /\ c \in Valid
    /\ Begin(p, "cef", "create",
             <<[name |-> <<"cef", 0, "parquet">>, rows |-> CefRows(c), all |-> CefRows(c)]>>,
             {"cef"})

\* ingest-terebess: after the parts that are there.
StartTerebess(p, pages) ==
    \E rows \in PageRows[pages] :
        /\ rows # <<>>
        /\ Begin(p, "terebess", "create", Chunks("terebess", NextPart("terebess"), rows),
                 {"terebess"})

\* ingest-dict: source after source, until one cannot be read.
StartDict(p, sources) ==
    LET bad   == {i \in DOMAIN sources : ~ sources[i].readable}
        upto  == IF bad = {} THEN Len(sources)
                 ELSE (CHOOSE i \in bad : \A j \in bad : i <= j) - 1
        todo  == FlattenSeq([i \in 1 .. upto |->
                     Chunks(sources[i].name, 0, DictRows(sources[i]))])
    IN  /\ todo # <<>>
        /\ Begin(p, "dict", "create", todo, {sources[i].name : i \in 1 .. upto})

Chunk(p) == Head(run[p].todo)

\* File::create truncates the file of that name; two writers leave garbage.
CreatePart(p) ==
    /\ At(p, "create")
    /\ LET f == FileAt(Chunk(p).name)
       IN  files' = WithFile(Chunk(p).name,
                       [state   |-> IF f.writers = {} THEN "torn" ELSE "garbage",
                        rows    |-> Chunk(p).rows,
                        writers |-> f.writers \cup {p}])
    /\ run' = [run EXCEPT ![p].at = "close"]
    /\ UNCHANGED <<runs, expected, dirty>>

Closed(f, p) == IF p \notin f.writers THEN f
                ELSE [f EXCEPT !.writers = @ \ {p}, !.state = IF @ = "torn" THEN "whole" ELSE @]
Next1(p, at) == [run EXCEPT ![p] = IF Len(@.todo) = 1 THEN Done
                                   ELSE [@ EXCEPT !.at = at, !.todo = Tail(@)]]

\* The end of a partition: cef replaces what was there, terebess adds to it, a
\* dictionary lies over it, and nothing is in doubt once every part is written anew.
ClosePart(p) ==
    LET k == Chunk(p).name[1]
        ends == Chunk(p).all # <<>>
    IN  /\ At(p, "close") /\ run[p].kind # "patch"
        /\ files' = [n \in DOMAIN files |-> Closed(files[n], p)]
        /\ expected' = IF ~ ends THEN expected
                       ELSE [expected EXCEPT ![k] = IF k = "terebess" THEN @ \o Chunk(p).all
                                                    ELSE Chunk(p).all]
        /\ dirty' = IF /\ ends /\ ~ run[p].raced /\ k # "terebess"
                       /\ NextPart(k) = Chunk(p).name[2] + 1
                    THEN dirty \ {k} ELSE dirty
        /\ run' = Next1(p, "create")
        /\ UNCHANGED runs

-----------------------------------------------------------------------------
(* patch-metadata.                                                         *)

\* The blanks of a row, from the catalog of works.
Filled(row) ==
    IF row.work \notin DOMAIN Catalog THEN row
    ELSE LET w == Catalog[row.work]
             Blank(x, blanks, y) == IF x \in blanks /\ y # "" THEN y ELSE x
         IN  [row EXCEPT !.author = Blank(@, {""}, w.author),
                         !.period = Blank(@, {"", "Unknown Period"}, w.period),
                         !.title  = Blank(@, {""}, w.title)]
FilledAll(rows) == [i \in DOMAIN rows |-> Filled(rows[i])]

\* The files, as they are listed at the start, in the order of their paths.
PathOrder(m, n) == \/ m[1] = "cef" /\ n[1] = "terebess"
                   \/ m[1] = n[1] /\ m[2] < n[2]
StartPatch(p) ==
    LET names == SetToSortSeq(PartsOf("cef") \cup PartsOf("terebess"), PathOrder)
    IN  /\ names # <<>>
        /\ Begin(p, "patch", "read",
                 [i \in DOMAIN names |-> [name |-> names[i], rows |-> <<>>, all |-> <<>>]],
                 Passages)

\* patch_file reads the whole file; a torn one ends the run.
ReadPart(p) ==
    LET f == FileAt(Chunk(p).name)
    IN  /\ At(p, "read")
        /\ run' = IF f.state # "whole" THEN [run EXCEPT ![p] = Done]
                  ELSE IF FilledAll(f.rows) = f.rows THEN Next1(p, "read")
                  ELSE [run EXCEPT ![p].at = "tmp",
                                   ![p].todo[1].rows = FilledAll(f.rows)]
        /\ UNCHANGED <<files, runs, expected, dirty>>

TmpOf(n) == <<n[1], n[2], "parquet.tmp">>

CreateTmp(p) ==
    /\ At(p, "tmp")
    /\ LET f == FileAt(TmpOf(Chunk(p).name))
       IN  files' = WithFile(TmpOf(Chunk(p).name),
                       [state   |-> IF f.writers = {} THEN "torn" ELSE "garbage",
                        rows    |-> Chunk(p).rows,
                        writers |-> f.writers \cup {p}])
    /\ run' = [run EXCEPT ![p].at = "close"]
    /\ UNCHANGED <<runs, expected, dirty>>

CloseTmp(p) ==
    /\ At(p, "close") /\ run[p].kind = "patch"
    /\ files' = [n \in DOMAIN files |-> Closed(files[n], p)]
    /\ run' = [run EXCEPT ![p].at = "rename"]
    /\ UNCHANGED <<runs, expected, dirty>>

\* Another run may have renamed the temporary file: then this one fails.
RenameTmp(p) ==
    LET n == Chunk(p).name
        tmp == TmpOf(n)
    IN  /\ At(p, "rename")
        /\ IF tmp \in DOMAIN files
           THEN /\ files' = [m \in DOMAIN files \ {tmp} |-> IF m = n THEN files[tmp] ELSE files[m]]
                /\ run' = Next1(p, "read")
           ELSE /\ run' = [run EXCEPT ![p] = Done]
                /\ UNCHANGED files
        /\ UNCHANGED <<runs, expected, dirty>>

\* A process dies: what it was writing stays torn; the partitions it had not
\* finished are in doubt.  A patch leaves at most a temporary file.
Die(p) ==
    /\ ~ At(p, "idle")
    /\ files' = [n \in DOMAIN files |-> [files[n] EXCEPT !.writers = @ \ {p}]]
    /\ dirty' = IF run[p].kind = "patch" THEN dirty
                ELSE dirty \cup {run[p].todo[i].name[1] : i \in DOMAIN run[p].todo}
    /\ run' = [run EXCEPT ![p] = Done]
    /\ UNCHANGED <<runs, expected>>

-----------------------------------------------------------------------------
Partition == Passages \cup UNION {{d[i].name : i \in DOMAIN d} : d \in Dicts}

DirectInit ==
    /\ files = <<>>
    /\ run = [p \in Writer |-> Done]
    /\ runs = 0
    /\ expected = [k \in Partition |-> <<>>]
    /\ dirty = {}

DirectStep(p) ==
    \/ \E c \in Corpora : StartCef(p, c)
    \/ \E g \in Pages : StartTerebess(p, g)
    \/ \E d \in Dicts : StartDict(p, d)
    \/ StartPatch(p)
    \/ CreatePart(p) \/ ClosePart(p)
    \/ ReadPart(p) \/ CreateTmp(p) \/ CloseTmp(p) \/ RenameTmp(p)
    \/ Die(p)

DirectNext == \E p \in Writer : DirectStep(p)

-----------------------------------------------------------------------------
(* Properties.                                                             *)

AtRest(k) == \A p \in Writer : k \notin run[p].scope
Content(k) == LET names == SetToSortSeq(PartsOf(k), LAMBDA m, n : m[2] < n[2])
              IN  FlattenSeq([i \in DOMAIN names |-> files[names[i]].rows])
Sound(k)   == AtRest(k) /\ k \notin dirty

\* Row by row what was ingested, with or without its blanks filled.
SameRows(stored, brought) ==
    /\ Len(stored) = Len(brought)
    /\ \A i \in DOMAIN stored : stored[i] \in {brought[i], Filled(brought[i])}

\* A partition no run died in and no two runs raced for can be read, and holds what
\* was ingested: of the corpus its last ingest, whatever died before; of the pages
\* every one of every run; of a dictionary first the newest entries.  A patch
\* changes blanks only, and may die anywhere.  What passed validation has one
\* passage of an id, and no empty text.
StoreIsWhatWasIngested ==
    \A k \in Partition : Sound(k) =>
        /\ \A n \in PartsOf(k) : files[n].state = "whole"
        /\ IsDict(k)  => IsPrefix(expected[k], Content(k))
        /\ ~ IsDict(k) => SameRows(Content(k), expected[k])
        /\ k = "cef" => /\ \A i, j \in DOMAIN Content(k) :
                              Content(k)[i].id = Content(k)[j].id => i = j
                        /\ \A i \in DOMAIN Content(k) : Content(k)[i].text # ""

=============================================================================
