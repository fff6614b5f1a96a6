----------------------------- MODULE MCLexical -----------------------------
(* Instances for TLC of the way of a text from its distributions to the     *)
(* lexical indexes: MergeCbeta, CbetaXml, and the two builds of             *)
(* build_all_indexes (commands/mod.rs), TfidfBuild and PhraseIndex.  They   *)
(* run one after the other, over files and working directories of their     *)
(* own; each is explored with the others at rest.                           *)
EXTENDS TfidfBuild, MergeCbeta, CbetaXml, TLC

CONSTANTS ru, shi, \* characters
          Char, GramLen, HashSpace, Hash, NumDocs, NoDoc, PhraseBuckets, MaxOpen,
          ChunkRecords, Density, Radix, PhraseStores, MaxLost \* of PhraseIndex
VARIABLES texts, phraseWork, phraseIndex, phraseJob, source, replaced \* of PhraseIndex

phrase == <<texts, phraseWork, phraseIndex, phraseJob, source, replaced>>

Phrase == INSTANCE PhraseIndex WITH
    Buckets <- PhraseBuckets, Stores <- PhraseStores, store <- texts, work <- phraseWork,
    index <- phraseIndex, job <- phraseJob, changes <- replaced

ASSUME PhraseAssumption == Phrase!Parameters

\* The grams ru ru and shi shi share a hash; hashes of three buckets in order are 1, 3, 6.
MCHash == <<ru, ru>> :> 6 @@ <<ru, shi>> :> 1 @@ <<shi, ru>> :> 3 @@ <<shi, shi>> :> 6

\* Two files, four documents in scan order 2, 0, 3, 1, of which one has the same
\* text in every store and two have one text; a passage the table does not know; a passage that is in
\* the store twice.
Texts == {<<ru, shi, ru>>, <<ru, ru, shi>>, <<shi, shi>>}
Passage(d, t) == [doc |-> d, text |-> t]
MCPhraseStores ==
    {<< <<Passage(2, t[1]), Passage(NoDoc, <<shi, ru>>), Passage(0, t[2])>>,
        <<Passage(3, <<shi, shi>>), Passage(1, t[2]), Passage(2, t[1])>> >> :
            t \in [1 .. 2 -> Texts]}

\* Four documents, two in each unit.  Frequencies of the terms 0 .. 3 are
\* 2, 4, 3, 1, and in the other store 2, 2, 3, 2.
Row(d, T) == [doc |-> d, terms |-> T]
MCStores ==
    {<< <<Row(2, {0, 1}), Row(0, {1, 2})>>, <<Row(3, {0, 1, 2}), Row(1, {1, 2, 3})>> >>,
     << <<Row(2, {0, 1}), Row(0, {2, 3})>>, <<Row(3, {0, 2}), Row(1, {1, 2, 3})>> >>}

-----------------------------------------------------------------------------
(* Distributions of CBETA: a work in one file and in fascicles, one that    *)
(* two have equally much of, one that only one has; a release that lacks    *)
(* works the other has; a run without a third, one with a third that has no  *)
(* XML, and one whose first has none.                                       *)

AFile(w, fascicle, bytes, edition) ==
    [work |-> w, fascicle |-> fascicle, bytes |-> bytes, edition |-> edition]
Nested(sub, fs) == [name |-> "root", dirs |-> sub :> fs, loose |-> {}]
Itself(name, fs) == [name |-> name, dirs |-> <<>>, loose |-> fs]
MCReleases ==
    {[github |-> Nested("xml-p5", {AFile(1, 0, 3, "g"), AFile(2, 0, 2, "g")}),
      iso    |-> Itself("xml-iso", {AFile(1, 1, 2, "i"), AFile(1, 2, 2, "i"), AFile(3, 1, 1, "i")}),
      extra  |-> Itself("tei-extra", {AFile(2, 0, 4, "x"), AFile(4, 0, 1, "x")})],
     [github |-> Nested("xml-p5", {AFile(1, 0, 5, "h"), AFile(2, 0, 2, "h")}),
      iso    |-> Itself("xml-iso", {AFile(2, 1, 1, "j"), AFile(2, 2, 1, "j")}),
      extra  |-> NotGiven],
     [github |-> Nested("xml-p5", {AFile(1, 0, 5, "h")}),
      iso    |-> Itself("xml-iso", {AFile(2, 1, 1, "j")}),
      extra  |-> Itself("tei-extra", {})],
     [github |-> Itself("xml-p5", {}),
      iso    |-> Itself("xml-iso", {AFile(2, 1, 1, "j")}),
      extra  |-> NotGiven]}

-----------------------------------------------------------------------------
(* XML files: bodies with a passage of every two kinds of content, among    *)
(* them another passage, and one of every kind after it; and plain ones of  *)
(* works that the header, the analysis and the list know more or less of.   *)

Ev(ev, name, id) == [ev |-> ev, name |-> name, id |-> id, text |-> <<>>]
Text(w) == << [Ev("text", "", NoId) EXCEPT !.text = w] >>
Lb(n) == << Ev("empty", "lb", n) >>
El(name, id, kids) == <<Ev("start", name, id)>> \o kids \o <<Ev("end", name, NoId)>>
Zi == Text(<<" ", "zi">>)

Kids == {Zi, Text(<<"latin">>), Lb("l1"), El("note", NoId, Zi), El("persName", NoId, Text(<<"ren">>)),
         El("lg", "in", Zi \o Lb("l2")), El("lg", NoId, Zi), El("note", NoId, El("p", "in", Zi))}
Tops == {El(e[1], e[2], k[1] \o k[2]) :
            e \in {<<"p", "a">>, <<"lg", "a">>, <<"p", NoId>>}, k \in Kids \X Kids}
Afters == {<<>>, El("div", "d2", El("head", NoId, Zi) \o El("p", "b", Zi)),
           El("mulu", NoId, El("head", NoId, Text(<<"tou">>)) \o Zi) \o El("lg", "b", Lb("l3") \o Zi),
           El("head", NoId, El("note", NoId, Zi)) \o El("p", "b", Text(<<"zi", " ", "latin">>)),
           << Ev("reference", "", NoId) >> \o El("p", "b", Zi),
           El("lg", "b", El("lg", NoId, Zi) \o El("p", "c", Zi)),
           El("p", "b", Zi) \o << Ev("broken", "", NoId) >>}
Book(a, b) ==
    El("front", NoId, El("p", "f", Zi)) \o Lb("l0")
    \o El("body", NoId, El("div", "d1", El("head", NoId, Text(<<"mu">>)) \o a) \o b)
    \o El("back", NoId, El("p", "g", Zi))
PlainBook == Book(El("p", "a", Zi), <<>>)

AFileOf(w, fascicle, title, author, hint, events) ==
    [work |-> w, fascicle |-> fascicle, title |-> title, author |-> author, hint |-> hint, events |-> events]
MCFiles ==
    {AFileOf(1, 0, "t", "a", "", Book(a, b)) : a \in Tops, b \in Afters}
    \cup {AFileOf(h[1], h[2], h[3], h[4], h[5], PlainBook) :
              h \in (1 .. 6) \X {0, 1} \X {"", "t"} \X {"", "a"} \X {"", "Song", "Pre-Tang"}}

Says(title, author, period) == [title |-> title, author |-> author, period |-> period]
MCSidecar == <<1, 0>> :> Says("", "", "Tang") @@ <<2, 0>> :> Says("s", "s", "") @@ <<3, 0>> :> Says("", "", "")
Lists(title, dynasty, name, whole) == [title |-> title, dynasty |-> dynasty, name |-> name, whole |-> whole]
MCWorkList == 1 :> Lists("l", "Song", "n", "Song n") @@ 2 :> Lists("l", "Sui", "n", "Sui n")
              @@ 3 :> Lists("l", "", "", "") @@ 4 :> Lists("l", "Modern", "n", "Modern n")
              @@ 5 :> Lists("", "Nowhere", "n", "Nowhere n")

-----------------------------------------------------------------------------
\* Bound: each is explored beside one state of the others.
VARIABLE explored   \* which of them moves

StoreAtRest   == CHOOSE s \in Stores : TRUE
TextsAtRest   == CHOOSE s \in PhraseStores : TRUE
ReleaseAtRest == CHOOSE r \in Releases : TRUE
FileAtRest    == CHOOSE f \in Files : TRUE

MCInit == /\ explored \in {"tfidf", "phrase", "merge", "xml"}
          /\ Init /\ (explored # "tfidf" => store = StoreAtRest)
          /\ Phrase!Init /\ (explored # "phrase" => texts = TextsAtRest)
          /\ MergeInit /\ (explored # "merge" => release = ReleaseAtRest /\ beside = {})
          /\ XmlInit /\ (explored # "xml" => xml = FileAtRest)

Explore(which) == explored = which /\ UNCHANGED explored
MCNext == \/ Explore("tfidf") /\ Next /\ UNCHANGED <<phrase, mergeVars, xmlVars>>
          \/ Explore("phrase") /\ Phrase!Next /\ UNCHANGED <<vars, mergeVars, xmlVars>>
          \/ Explore("merge") /\ MergeNext /\ UNCHANGED <<vars, phrase, xmlVars>>
          \/ Explore("xml") /\ XmlNext /\ UNCHANGED <<vars, phrase, mergeVars>>
          \* The merges end at their bound and a file at its last event; the builds may not stop.
          \/ explored \in {"merge", "xml"} /\ UNCHANGED <<explored, vars, phrase, mergeVars, xmlVars>>
MCSpec == MCInit /\ [][MCNext]_<<vars, phrase, mergeVars, xmlVars, explored>>

\* The phrase index that is published lists for each gram exactly its passages,
\* but for what was in a sorted run that could not be opened (phrase_index.rs:782-1172).
PhrasePostingsAreExact == Phrase!PostingsAreExact

\* A search through it finds what a scan of the documents that lost nothing finds (research_tools/phrase.rs:10).
IndexAgreesWithScan == Phrase!IndexAgreesWithScan

\* The phrase index lists what the store has, and is searched as the store would be; only
\* the sorted runs that could not be opened are missing, and nothing else with them.
PhraseIsExact ==
    /\ PhrasePostingsAreExact
    /\ IndexAgreesWithScan

=============================================================================
