----------------------------- MODULE SourceRead -----------------------------
(***************************************************************************)
(* The source-read tool: a work, or the part of it under a heading, is     *)
(* read as one stream of characters, chunk by chunk, each answer with the  *)
(* cursors of the next and the previous chunk (tools/engine.rs,            *)
(* source_read_impl).  The cursor is all the state there is: the reader    *)
(* gives it back, with another size if it likes.                           *)
(*                                                                         *)
(* Positions count characters from 0; a chunk is [from, to).               *)
(***************************************************************************)
EXTENDS Passages

CONSTANTS MinChars, MaxChars,   \* what max_chars is clamped to
          DefaultChars,         \* max_chars of a request that does not say
          DefaultOverlap,       \* overlap_chars of such a request
          Asked,                \* requests: pairs of max_chars and overlap_chars
          Margins               \* before_chars and after_chars that are asked for

ASSUME CharsAssumption ==
    /\ MinChars \in Nat \ {0} /\ MaxChars \in Nat /\ MinChars <= MaxChars
    /\ DefaultChars \in Nat /\ DefaultOverlap \in Nat
    /\ Asked \subseteq Nat \X Nat /\ Margins \subseteq Nat

VARIABLE page   \* the answer that is in front of the reader

NoPage == [work |-> 0]
Open == page # NoPage

-----------------------------------------------------------------------------
(* The stream.                                                             *)

\* The rows of a work whose heading_path begins with the prefix, in reading order.
Listing(work, prefix) ==
    InReadingOrder({i \in Passage : parquet[i].work = work /\ IsPrefix(prefix, parquet[i].heading)})

\* The texts joined by line breaks, and the span of each.
Joined(list) ==
    FoldLeft(LAMBDA t, i :
                 LET text == IF t.text = <<>> THEN <<>> ELSE Append(t.text, TRUE)
                 IN  [text  |-> text \o parquet[i].text,
                      spans |-> Append(t.spans, <<Len(text), Len(text) + Len(parquet[i].text)>>)],
             [text |-> <<>>, spans |-> <<>>], list)

\* adjust_read_end: behind the last stop in the last fifth of the chunk.
AdjustEnd(text, start, target) ==
    LET end    == Min({target, Len(text)})
        stops  == {k \in start + Max({1, ((end - start) * 8) \div 10}) .. end - 1 : text[k + 1]}
    IN  IF end >= Len(text) \/ end <= start \/ stops = {} THEN end ELSE Max(stops) + 1

-----------------------------------------------------------------------------
(* Requests.                                                               *)

\* A cursor's sizes stand in for those the request leaves at their defaults.
Chars(asked, cursor) ==
    LET c == IF Open /\ cursor /\ asked = DefaultChars THEN page.max ELSE asked
    IN  Max({MinChars, Min({MaxChars, c})})

\* Mutant of Overlap: not bounded by the chunk.
OverlapUnbounded(asked, cursor, max) ==
    IF Open /\ cursor /\ asked = DefaultOverlap THEN page.overlap ELSE asked

Overlap(asked, cursor, max) ==
    Min({max \div 2, IF Open /\ cursor /\ asked = DefaultOverlap THEN page.overlap ELSE asked})

\* What is answered: the chunk from `start`, at least `extra` long.
Answer(work, prefix, start, extra, max, overlap) ==
    LET text == Joined(Listing(work, prefix)).text
        at   == Min({start, Len(text)})
        to   == AdjustEnd(text, at, at + Max({extra, max}))
    IN  [work |-> work, prefix |-> prefix, from |-> Min({at, to}), to |-> to,
         total |-> Len(text), max |-> max, overlap |-> overlap, anchor |-> 0, after |-> 0]

HasNext == Open /\ page.to < page.total
HasPrev == Open /\ page.from > 0
NextStart == Max({0, page.to - page.overlap})

PrevStart == Max({0, page.from - Max({0, page.max - page.overlap})})

\* `start`, with a work or with a node, which gives its work and its heading path.
ReadStart(work, prefix, asked) ==
    LET max == Chars(asked[1], FALSE) IN
    /\ Listing(work, prefix) # <<>>
    /\ page' = Answer(work, prefix, 0, max, max, Overlap(asked[2], FALSE, max))

\* `around` a passage, with margins before and after it.
ReadAround(i, before, after, asked) ==
    LET max  == Chars(asked[1], FALSE)
        list == Listing(parquet[i].work, <<>>)
        span == Joined(list).spans[CHOOSE k \in DOMAIN list : list[k] = i]
    IN  page' = [Answer(parquet[i].work, <<>>, Max({0, span[1] - before}),
                        span[2] - span[1] + before + after, max, Overlap(asked[2], FALSE, max))
                    EXCEPT !.anchor = i, !.after = after]

ReadFrom(start, asked) ==
    LET max == Chars(asked[1], TRUE) IN
    page' = Answer(page.work, page.prefix, start, max, max, Overlap(asked[2], TRUE, max))

ReadNext(asked) == HasNext /\ ReadFrom(NextStart, asked)
ReadPrev(asked) == HasPrev /\ ReadFrom(PrevStart, asked)
\* `at`, with the cursor of the chunk itself.
ReadAgain(asked) == Open /\ ReadFrom(page.from, asked)

ReadInit == page = NoPage
Read == \E asked \in Asked :
            \/ \E i \in Passage :
                  \/ ReadStart(parquet[i].work, <<>>, asked)
                  \/ \E before, after \in Margins \cup {Overlap(asked[2], FALSE, Chars(asked[1], FALSE))} :
                        ReadAround(i, before, after, asked)
            \/ ReadNext(asked) \/ ReadPrev(asked) \/ ReadAgain(asked)

-----------------------------------------------------------------------------
(* The passages an answer names.                                           *)

\* passage_start and passage_end, by their place in the listing.
PositionOf(spans, from, to) ==
    LET starts == {k \in DOMAIN spans : spans[k][2] > from}
        first  == IF starts = {} THEN 1 ELSE Min(starts)
        ends   == {k \in DOMAIN spans : spans[k][1] < to}
    IN  <<first, IF ends = {} THEN first ELSE Max(ends)>>

-----------------------------------------------------------------------------
(* Properties.                                                             *)

\* Who follows the next cursor misses nothing and gets ahead, whatever sizes are asked for on
\* the way: the new chunk begins behind the beginning of the old one and not behind its end,
\* and with a size no smaller than the old one it ends behind it.
ReadingAdvances ==
    [][\A asked \in Asked : ReadNext(asked) =>
          /\ page.from < page'.from /\ page'.from <= page.to
          /\ page'.max >= page.max => page'.to > page.to]_page

\* Who follows the previous cursor with the same sizes misses nothing either, as long as the
\* overlap is a tenth of the chunk: the chunk and the preview behind it reach the old one.
PagingBackMeets ==
    [][\A asked \in Asked : ReadPrev(asked) =>
          /\ page'.from < page.from
          /\ (page'.max = page.max /\ page'.overlap = page.overlap /\ 10 * page.overlap >= page.max)
                => page'.to + page'.overlap >= page.from]_page

\* What is read around a passage holds all of it, however long it is and wherever the stops
\* are, if at least a character behind it is asked for (the line break then is a stop).
AroundShowsThePassage ==
    Open /\ page.anchor # 0 /\ page.after > 0 =>
        LET list == Listing(page.work, page.prefix)
            span == Joined(list).spans[CHOOSE k \in DOMAIN list : list[k] = page.anchor]
        IN  page.from <= span[1] /\ span[2] <= page.to

\* The passages an answer names as its first and last are the first and last of which it shows
\* a character, and it shows one of every passage between them.
PositionIsExact ==
    Open =>
        LET spans == Joined(Listing(page.work, page.prefix)).spans
            pos   == PositionOf(spans, page.from, page.to)
        IN  {k \in DOMAIN spans : spans[k][1] < page.to /\ page.from < spans[k][2]} = pos[1] .. pos[2]

\* A reader is shown what was asked for, and can go on either way without a gap or a circle (source_read_impl).
ReadingMissesNothing ==
    [](AroundShowsThePassage /\ PositionIsExact) /\ ReadingAdvances /\ PagingBackMeets
=============================================================================
