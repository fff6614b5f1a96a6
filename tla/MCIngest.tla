------------------------------ MODULE MCIngest ------------------------------
(* Instances of Ingest and DirectIngest for TLC.                            *)
(* The two write different partitions and read none of the other's files:   *)
(* each is explored with the other at rest.                                 *)
EXTENDS Ingest, DirectIngest, TLC

\* Corpora whose batches straddle files and checkpoints.
Corpus6 == <<2, 1, 3>>
Corpus3 == <<1, 2>>

\* The processes are alike, and a writer is one of them.
ProcSymmetry == Permutations(Proc)

-----------------------------------------------------------------------------
(* GD-CEF directories: one, a later and longer one of the same corpus, and *)
(* ones that do not pass validation.                                       *)

Toml == [schema |-> "gd-cef-v1", empty |-> {}, default_period |-> "Unknown Period"]
AWork(id, period) == [work_id |-> id, title |-> "T", dates |-> <<>>, author |-> "", period |-> period]
APassage(id, text) == [passage_id |-> id, work_id |-> "w", text |-> text]
ACorpus(toml, works, passages) == [toml |-> toml, works |-> works, passages |-> passages]

First == ACorpus(Toml, <<AWork("w", "")>>, <<APassage("1", "x"), BlankLine>>)
Later == ACorpus(Toml, <<AWork("w", "Tang"), AWork("v", "")>>,
                 <<APassage("1", "y"), APassage("2", "z")>>)
MCCorpora ==
    {First, Later,
     [First EXCEPT !.toml = Missing], [First EXCEPT !.toml.schema = "gd-cef-v2"],
     [First EXCEPT !.toml.empty = {"rights_id"}], [First EXCEPT !.works = Missing],
     [First EXCEPT !.works = <<AWork("w", ""), AWork("w", "")>>],
     [First EXCEPT !.works[1].dates = <<2, 1>>],
     [First EXCEPT !.passages = Missing],
     [First EXCEPT !.passages = <<APassage("1", "x"), APassage("1", "y")>>],
     [First EXCEPT !.passages = <<APassage("1", "")>>],
     [First EXCEPT !.passages = <<APassage("1", "x"), BrokenLine>>]}

-----------------------------------------------------------------------------
(* Pages: of two addresses, one saved twice, and some that are skipped.    *)

APage(file, url, rank, text) ==
    [file |-> file, url |-> url, rank |-> rank, text |-> text, title |-> "m",
     readable |-> TRUE, placeholder |-> FALSE, long |-> TRUE,
     images |-> <<[mime |-> "gif", bytes |-> 9], [mime |-> "png", bytes |-> 5],
                 [mime |-> "jpg", bytes |-> 5]>>]
Twice == {APage("a", "u", 1, "x"), APage("b", "u", 1, "y"), APage("c", "", 2, "z")}
MCPages == {Twice,
            {APage("d", "", 3, "w"), [APage("e", "", 4, "w") EXCEPT !.readable = FALSE],
             [APage("f", "", 5, "w") EXCEPT !.placeholder = TRUE]}}

-----------------------------------------------------------------------------
(* Dictionaries: of each format, a later edition with fewer entries, and   *)
(* one that does not parse.                                                *)

AnEntry(term, kind, texts) == [term |-> term, short |-> FALSE,
                               value |-> [kind |-> kind, texts |-> texts]]
ADict(name, format, entries) ==
    [name |-> name, format |-> format, readable |-> TRUE, entries |-> entries]
Ding(n) == ADict("dingfubao", "dingfubao",
                 <<AnEntry("k", "array", SubSeq(<<"i", "", "j", "h">>, 1, n)), AnEntry("l", "string", <<"i">>)>>)
MCDicts == {<<Ding(4), ADict("agama", "simple", <<AnEntry("k", "string", <<"i">>),
                                                  AnEntry("l", "object", <<>>)>>)>>,
            <<Ding(1), [ADict("agama", "simple", <<>>) EXCEPT !.readable = FALSE]>>}

MCCatalog == [w |-> [author |-> "a", period |-> "Song", title |-> "t"]]

-----------------------------------------------------------------------------
\* Bound: runs in one directory have no second directory beside theirs.
SharedIsAlone == shared # {} => created = 1

MCInit == Init /\ DirectInit
MCNext == \/ DirectInit /\ Next /\ UNCHANGED direct
          \/ Init /\ DirectNext /\ UNCHANGED vars
MCSpec == MCInit /\ [][MCNext]_<<vars, direct>>

=============================================================================
