------------------------------ MODULE CbetaXml ------------------------------
(***************************************************************************)
(* An XML file of CBETA as it is ingested (tei.rs): what is known of its   *)
(* work is put together from its header, the analysis beside the corpus    *)
(* and the list of works; then the passages of its body are read event by  *)
(* event, in one pass that holds at most one passage open.                 *)
(*                                                                         *)
(* A file is its path (work, and fascicle or 0), its header and the events *)
(* of a quick-xml reader: a start, an end, an empty element, a piece of    *)
(* text, a reference to an entity, or what is not well formed. A text is a *)
(* sequence of words: told apart are only blanks and whether a word has a  *)
(* CJK character. Of the flags of a passage one stands for all three, and  *)
(* a division goes by its label.                                           *)
(***************************************************************************)
EXTENDS Integers, Sequences, FiniteSets, SequencesExt, FiniteSetsExt

CONSTANTS Files,      \* files there may be
          Sidecar,    \* buddhist_metadata_analysis.json: path -> what it says of the work
          WorkList,   \* sutra_sch.lst: work -> [title, dynasty, name, whole]
          NoId        \* an element without the attribute

VARIABLES
    xml,      \* the file
    pos,      \* events read
    meta,     \* BuddhistMeta of the file
    reader    \* locals of extract_passages_from_file

xmlVars == <<xml, pos, meta, reader>>

-----------------------------------------------------------------------------
(* What is known of the work.                                              *)

Periods == <<"Han", "Three Kingdoms", "Jin", "Northern and Southern", "Sui", "Tang",
             "Five Dynasties", "Song", "Yuan", "Ming", "Qing">>
Unranked == 99
RankOf(period) == IF period \in ToSet(Periods) THEN CHOOSE n \in DOMAIN Periods : Periods[n] = period
                  ELSE Unranked

\* dynasty_to_english, where a dynasty goes by the name of its period.
Dynasty == ToSet(Periods) \cup {"Modern"}

\* sidecar_key_for and lookup: a fascicle stands under the path of its work.
SidecarKey(f) == <<f.work, 0>>

\* parse_catalog_translator: a word that is no dynasty belongs to the name.
Translator(w) ==
    IF w.whole = "" THEN [author |-> "", period |-> "", rank |-> Unranked]
    ELSE IF w.dynasty \in Dynasty
    THEN [author |-> w.name, period |-> w.dynasty, rank |-> RankOf(w.dynasty)]
    ELSE [author |-> w.whole, period |-> "", rank |-> Unranked]

OrElse(x, y) == IF x = "" THEN y ELSE x

\* classify_period_fallback: a dynasty named in the header, here the hint.
Hinted(f) == OrElse(f.hint, "Unknown Period")

\* The header's words decide where the analysis does not have the work.
Classified(f) ==
    IF SidecarKey(f) \in DOMAIN Sidecar
    THEN LET s == Sidecar[SidecarKey(f)]
         IN  [by |-> "sidecar", title |-> OrElse(f.title, s.title), author |-> OrElse(f.author, s.author),
              period |-> s.period]
    ELSE [by |-> "fallback", title |-> f.title, author |-> f.author,
          period |-> Hinted(f)]

Meta(f) ==
    LET c == Classified(f)
        w == IF f.work \in DOMAIN WorkList THEN WorkList[f.work]
             ELSE [title |-> "", whole |-> "", dynasty |-> "", name |-> ""]
        t == Translator(w)
    IN  [work   |-> f.work, by |-> c.by,
         title  |-> OrElse(c.title, w.title),
         author |-> OrElse(c.author, t.author),
         period |-> OrElse(c.period, t.period),
         rank   |-> IF c.period = "" /\ t.period # "" THEN t.rank ELSE RankOf(c.period)]

-----------------------------------------------------------------------------
(* The pass over the body.                                                 *)

PassageTags  == {"p", "lg"}
SkipTextTags == {"note", "anchor", "lb", "pb", "milestone", "graphic", "figure", "space"}
HeadTags     == {"head", "mulu"}

Blank == " "
Collapse(text)    == SelectSeq(text, LAMBDA word : word # Blank)
ContainsCjk(text) == \E i \in DOMAIN text : text[i] # "latin"

NoPassage == [tag |-> "none"]
NoHeading == <<"none">>
Reading   == [in_body |-> FALSE, skip_depth |-> 0, div_stack |-> <<>>, previous_lb |-> NoId,
              current_heading |-> <<>>, heading_text |-> NoHeading, active |-> NoPassage,
              results |-> <<>>, failed |-> FALSE]

Here == xml.events[pos + 1]
Coming(kind) == /\ meta # {} /\ ~ reader.failed
                /\ pos < Len(xml.events) /\ Here.ev = kind
Read(r) == /\ reader' = r
           /\ pos' = pos + 1
           /\ UNCHANGED <<xml, meta>>

ReadMeta ==
    /\ meta = {}
    /\ meta' = {Meta(xml)}
    /\ UNCHANGED <<xml, pos, reader>>

\* The flags are of the passage that was open, not of the one that begins.
Flagged(active, name) ==
    IF active = NoPassage \/ name # "persName" THEN active ELSE [active EXCEPT !.contains_person = TRUE]

Opened(r, e) ==
    [tag |-> e.name, xml_id |-> e.id, text |-> <<>>, lbs |-> <<>>, div_path |-> r.div_stack,
     heading |-> r.current_heading, from_previous_lb |-> r.previous_lb, contains_person |-> FALSE]

\* An element whose text is skipped is counted and nothing else of it is looked at.
ReadStart ==
    /\ Coming("start")
    /\ LET r == [reader EXCEPT !.in_body = @ \/ Here.name = "body"]
           s == [r EXCEPT !.div_stack = IF Here.name = "div" THEN Append(@, Here.id) ELSE @,
                          !.heading_text = IF Here.name \in HeadTags THEN <<>> ELSE @,
                          !.active = Flagged(@, Here.name)]
       IN  Read(IF ~ r.in_body THEN r
                ELSE IF Here.name \in SkipTextTags THEN [r EXCEPT !.skip_depth = @ + 1]
                ELSE IF Here.name \in PassageTags /\ Here.id # NoId THEN [s EXCEPT !.active = Opened(s, Here)]
                ELSE s)

ReadEmpty ==
    /\ Coming("empty")
    /\ Read(IF Here.name # "lb" \/ Here.id = NoId THEN reader
            ELSE [reader EXCEPT
                    !.previous_lb = Here.id,
                    !.active = IF @ = NoPassage THEN @ ELSE [@ EXCEPT !.lbs = Append(@, Here.id)]])

\* Mutant of ReadText: the notes are read with the text.
ReadTextOfNotes ==
    /\ Coming("text")
    /\ Read([reader EXCEPT
                !.heading_text = IF @ = NoHeading THEN @ ELSE @ \o Here.text,
                !.active = IF @ = NoPassage THEN @ ELSE [@ EXCEPT !.text = @ \o Here.text]])

ReadText ==
    /\ Coming("text")
    /\ Read(IF ~ reader.in_body \/ reader.skip_depth > 0 THEN reader
            ELSE [reader EXCEPT
                    !.heading_text = IF @ = NoHeading THEN @ ELSE @ \o Here.text,
                    !.active = IF @ = NoPassage THEN @ ELSE [@ EXCEPT !.text = @ \o Here.text]])

\* into_record: one without CJK characters is none.
Records(r) ==
    LET a   == r.active
        raw == Collapse(a.text)
        from == IF a.lbs = <<>> THEN a.from_previous_lb ELSE a.lbs[1]
    IN  IF ~ ContainsCjk(raw) THEN <<>>
        ELSE << [xml_id |-> a.xml_id, text |-> raw, div_path |-> a.div_path, heading |-> a.heading,
                 from_lb |-> from, to_lb |-> IF a.lbs = <<>> THEN from ELSE Last(a.lbs),
                 ord |-> Len(r.results), contains_person |-> a.contains_person] >>

ReadEnd ==
    /\ Coming("end")
    /\ LET name == Here.name
           closes == reader.active # NoPassage /\ reader.active.tag = name
           heading == IF name \in HeadTags /\ reader.heading_text # NoHeading
                      THEN Collapse(reader.heading_text) ELSE <<>>
       IN  Read(IF reader.skip_depth > 0 /\ name \in SkipTextTags
                THEN [reader EXCEPT !.skip_depth = @ - 1]
                ELSE [reader EXCEPT
                        !.heading_text = IF name \in HeadTags THEN NoHeading ELSE @,
                        !.current_heading = IF heading # <<>> THEN heading ELSE @,
                        !.results = IF closes THEN @ \o Records(reader) ELSE @,
                        !.active = IF closes THEN NoPassage ELSE @,
                        !.div_stack = IF name = "div" /\ @ # <<>> THEN Front(@) ELSE @,
                        !.in_body = @ /\ name # "body"])

\* An entity reference and whatever else there is are passed over.
ReadOther == Coming("reference") /\ Read(reader)

\* What is not well formed ends the file, and the ingest, with an error.
ReadBroken == Coming("broken") /\ Read([reader EXCEPT !.failed = TRUE])

XmlInit ==
    /\ xml \in Files
    /\ pos = 0
    /\ meta = {}
    /\ reader = Reading

XmlNext == ReadMeta \/ ReadStart \/ ReadEmpty \/ ReadText \/ ReadEnd \/ ReadOther \/ ReadBroken

-----------------------------------------------------------------------------
(* The file as a tree, by the positions of its events.                     *)

Event(i)   == xml.events[i]
Starts     == {i \in DOMAIN xml.events : Event(i).ev = "start"}
Depth(i, j) == Cardinality({k \in i .. j : Event(k).ev = "start"})
               - Cardinality({k \in i .. j : Event(k).ev = "end"})
EndOf(i)   == Min({j \in i .. Len(xml.events) : Depth(i, j) = 0})
Inside(k, i) == i < k /\ k < EndOf(i)
Named(names) == {i \in Starts : Event(i).name \in names}
InBody(k)  == \E b \in Named({"body"}) : Inside(k, b)

\* Elements that are passages, by their position, and the first end of that name in them.
PassageAt  == {i \in Named(PassageTags) : InBody(i) /\ Event(i).id # NoId}
Closing(i) == Min({j \in i .. EndOf(i) : Event(j).ev = "end" /\ Event(j).name = Event(i).name})
Lbs(a, b)  == {k \in a .. b : Event(k).ev = "empty" /\ Event(k).name = "lb" /\ Event(k).id # NoId}

\* The words from a to b, without those of notes and the like.
Words(a, b) ==
    LET ks == {k \in a .. b : Event(k).ev = "text" /\ ~ \E n \in Named(SkipTextTags) : InBody(n) /\ Inside(k, n)}
    IN  Collapse(FlattenSeq([n \in 1 .. Cardinality(ks) |-> Event(SetToSortSeq(ks, <)[n]).text]))

\* Headings before a position: heads, without other heads in them, that have words.
Headings(i) == {h \in Named(HeadTags) : /\ InBody(h) /\ EndOf(h) < i
                                        /\ ~ \E k \in Named(HeadTags) : Inside(k, h)
                                        /\ Words(h, EndOf(h)) # <<>>}

\* A passage with another passage in it is given up for that one.
Innermost == {i \in PassageAt : /\ ~ \E k \in PassageAt : i < k /\ k < Closing(i)
                                /\ ContainsCjk(Words(i, Closing(i)))}
IdOr(S, other) == IF S = {} THEN other ELSE Event(Max(S)).id

\* When a file has been read (extract_passages_from_file), there is a record for each
\* passage of the body that has no other passage in it and has Chinese text, in their
\* order, and no other record.  It has the text of its element without the notes, up to
\* the first end of that name; the heading before it and the divisions around it; and
\* the lines it is printed on, from the one it begins on.
PassagesAreTheText ==
    (pos = Len(xml.events) /\ ~ reader.failed /\ meta # {}) =>
        LET order == SetToSortSeq(Innermost, <)
        IN  /\ Len(reader.results) = Len(order)
            /\ \A n \in DOMAIN order :
                  LET i == order[n]
                      c == Closing(i)
                      r == reader.results[n]
                      divs == {d \in Named({"div"}) : InBody(d) /\ Inside(i, d)}
                  IN  /\ r.xml_id = Event(i).id /\ r.ord = n - 1
                      /\ r.text = Words(i, c)
                      /\ r.heading = (IF Headings(i) = {} THEN <<>>
                                      ELSE LET h == CHOOSE h \in Headings(i) :
                                                       \A g \in Headings(i) : EndOf(g) <= EndOf(h)
                                           IN  Words(h, EndOf(h)))
                      /\ r.div_path = [m \in 1 .. Cardinality(divs) |-> Event(SetToSortSeq(divs, <)[m]).id]
                      /\ r.from_lb = (IF Lbs(i, c) # {} THEN Event(Min(Lbs(i, c))).id
                                      ELSE IdOr(Lbs(1, i), NoId))
                      /\ r.to_lb = IdOr(Lbs(1, c), NoId)
                      /\ r.contains_person <=> \E k \in Named({"persName"}) : i < k /\ k < c

\* What is known of a work does not depend on whether the file is all of it or a fascicle;
\* its rank is that of its period, wherever the period came from, so that sorting by rank
\* sorts by period (tei.rs:255, :277-280); and it is blank only where every source is.
WorkIsKnown ==
    \A m \in meta :
        /\ m.rank = RankOf(m.period)
        /\ m = Meta([xml EXCEPT !.fascicle = 1 - @])
        /\ LET s == IF <<xml.work, 0>> \in DOMAIN Sidecar THEN {Sidecar[<<xml.work, 0>>]} ELSE {}
               l == IF xml.work \in DOMAIN WorkList THEN {WorkList[xml.work]} ELSE {}
           IN  /\ m.title = ""  => xml.title = "" /\ \A x \in s \cup l : x.title = ""
               /\ m.author = "" => xml.author = "" /\ (\A x \in s : x.author = "")
                                   /\ \A x \in l : x.whole = ""
               /\ m.period = "" => s # {} /\ \A x \in l : x.dynasty \notin Dynasty

XmlIsReadRight == PassagesAreTheText /\ WorkIsKnown

=============================================================================
