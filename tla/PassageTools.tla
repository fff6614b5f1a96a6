---------------------------- MODULE PassageTools ----------------------------
(***************************************************************************)
(* The tools that put hits together: search over several forms of a        *)
(* phrase, first-attestation, pair-appearance, pair-profile,               *)
(* trace-term-usage, person-history, citation-verify and seed-pick         *)
(* (tools/engine.rs), over what the phrase search gives them               *)
(* (research_tools/phrase.rs through the index, research                   *)
(* exact_phrase_rows without it).                                          *)
(*                                                                         *)
(* The hits of a form are the set of the docs that contain it; which docs  *)
(* those are is the phrase index's part.  Every list of hits is cut to a   *)
(* limit, and most tools then filter, merge or sort what is left.          *)
(***************************************************************************)
EXTENDS Catalog

CONSTANTS Limits,       \* limits that are asked for
          QueryStores   \* bound: the stores the tools are tried on

ASSUME LimitAssumption == Limits \subseteq Nat \ {0} /\ QueryStores \subseteq Parquets

InDocOrder(S) == SetToSortSeq(S, <)
RowAt(d) == CHOOSE r \in Range(parquet) : r.doc = d

\* phrase_rows_with_explicit_doc_table, through the index: filter holds the docs of the range,
\* the canons and the period asked for.
PhraseRows(hits, filter, limit) == FirstOf(InDocOrder(hits \cap filter), limit)

\* exact_phrase_rows: passages, also those the table has not.
ScanRows(hits, limit) == FirstOf(InReadingOrder(hits), limit)

\* resolve_doc_range of a work; 0 for none.
DocRange(w) == IF w = 0 THEN Doc
               ELSE {d \in Doc : InScope(nodes, works[workMap[w]].root, d)}

-----------------------------------------------------------------------------
(* search.                                                                 *)

\* Mutant of PerPhrase: the limit is shared out among the forms.
PerPhraseShared(forms, limit) == Max({1, limit \div Len(forms)})
PerPhrase(forms, limit) == IF Len(forms) > 1 THEN 2 * limit ELSE limit

\* What the forms give, a passage that several find once.
FoundByForms(forms, filter, limit) ==
    UNION {Range(PhraseRows(forms[f], filter, PerPhrase(forms, limit))) : f \in DOMAIN forms}

\* Of that, what passes the filters too which the index has not: all traditions, several periods,
\* an author, a title, the work.
Search(forms, filter, after, limit) ==
    FirstOf(InDocOrder(FoundByForms(forms, filter, limit) \cap after), limit)

-----------------------------------------------------------------------------
(* first-attestation and trace-term-usage.                                 *)

ByPeriod(S) == SetToSortSeq(S, LAMBDA c, d : KeyBefore(<<RowAt(c).rank, c>>, <<RowAt(d).rank, d>>))

\* The scope is applied to the candidates.
FirstAttestation(hits, scope, limit, candidates) ==
    LET found == Range(PhraseRows(hits, Doc, Max({limit, candidates})))
    IN  FirstOf(ByPeriod(found \cap scope), limit)

TermUsage(hits, field, limit, perGroup) ==
    LET found  == Range(PhraseRows(hits, Doc, limit))
        of(k) == {d \in found : RowAt(d)[field] = k}
        names(k) == SetToSortSeq({RowAt(d).work : d \in of(k)}, <)
    IN  [k \in {RowAt(d)[field] : d \in found} |->
            [count |-> Cardinality(of(k)), first |-> FirstOf(ByPeriod(of(k)), perGroup),
             works |-> FirstOf(names(k), perGroup)]]

-----------------------------------------------------------------------------
(* pair-appearance and pair-profile.                                       *)

\* pair_candidate_rows.
PairCandidates(forms, w, limit) ==
    LET found == UNION {Range(PhraseRows(forms[f], DocRange(w), limit)) : f \in DOMAIN forms}
    IN  FirstOf(InDocOrder({d \in found : w # 0 => RowAt(d).work = w}), limit)

\* near holds the docs where the two terms are as near, and in the order, that is asked for.
PairAppearance(forms1, forms2, near, w, limit, candidates) ==
    LET t1   == PairCandidates(forms1, w, Max({limit, candidates}))
        t2   == PairCandidates(forms2, w, Max({limit, candidates}))
        both == SelectSeq(t1, LAMBDA d : d \in Range(t2) \cap near)
    IN  [hits |-> FirstOf(both, limit), count |-> Len(both),
         term1 |-> Len(t1), term2 |-> Len(t2),
         only1 |-> Range(t1) \ Range(t2), only2 |-> Range(t2) \ Range(t1)]

\* pair_profile_unit_key.
UnitOf(unit, d) == CASE unit = "work" -> RowAt(d).work
                     [] unit = "section" -> SectionOf(nodes, docParent, d)
                     [] OTHER -> d

\* A pair is a unit that has both terms, and stands where its first passage with the first term
\* does; of units smaller than a section, both terms are in one passage, near each other.
PairsOf(unit, t1, t2, near) ==
    LET in(u) == {d \in t1 : UnitOf(unit, d) = u}
        units == {UnitOf(unit, d) : d \in t1} \cap {UnitOf(unit, d) : d \in t2}
    IN  IF unit = "passage" THEN t1 \cap t2 \cap near ELSE {Min(in(u)) : u \in units}

PairProfile(forms1, forms2, near, unit, field, w, limit) ==
    LET t1    == Range(PairCandidates(forms1, w, limit))
        t2    == Range(PairCandidates(forms2, w, limit))
        label(d) == RowAt(d)[field]
        size(S, k) == Cardinality({d \in S : label(d) = k})
    IN  [k \in {label(d) : d \in t1 \cup t2} |->
            [term1 |-> size(t1, k), term2 |-> size(t2, k), pairs |-> size(PairsOf(unit, t1, t2, near), k)]]

-----------------------------------------------------------------------------
(* person-history.                                                         *)

\* The mentions of all forms, one for a passage; primary are those of the name itself.
PersonHistory(forms, limit) ==
    LET found == UNION {Range(ScanRows(forms[f], limit)) : f \in DOMAIN forms}
    IN  [mentions |-> FirstOf(InReadingOrder(found), limit), primary |-> Range(ScanRows(forms[1], limit))]

\* earliest_unambiguous: named holds the passages that tag a person.
EarliestUnambiguous(history, named) ==
    FirstOf(SelectSeq(history.mentions, LAMBDA i : i \in history.primary \cap named), 1)

-----------------------------------------------------------------------------
(* citation-verify.                                                        *)

\* The most alike first.
ByOverlap(S, overlap) ==
    SetToSortSeq(S, LAMBDA c, d : KeyBefore(<<-overlap[c], c>>, <<-overlap[d], d>>))

\* Of the candidates of the TF-IDF index; the end of the range is left out, and the canon not asked.
NearByIndex(ranked, w) ==
    {d \in Range(ranked) : w # 0 => d \in DocRange(w) /\ d # nodes[works[workMap[w]].root].last}

\* Of the passages that have one of the quote's pieces of four characters.
NearByPieces(pieces, canon, w, n) ==
    UNION {Range(PhraseRows(pieces[k], DocRange(w) \cap canon, 3 * n)) : k \in DOMAIN pieces}

\* ranked is what the TF-IDF index gives, <<>> without one.
CitationVerify(hits, ranked, pieces, overlap, canon, w, limit, n) ==
    LET exact == PhraseRows(hits, DocRange(w) \cap canon, limit)
        near  == IF ranked # <<>> THEN NearByIndex(FirstOf(ranked, 5 * n), w)
                 ELSE NearByPieces(pieces, canon, w, n)
    IN  [verified |-> exact # <<>>, hits |-> exact,
         near |-> IF exact # <<>> THEN <<>> ELSE FirstOf(ByOverlap(near, overlap), n)]

-----------------------------------------------------------------------------
(* seed-pick.                                                              *)

\* worked: the seeds in the registry.  Each period that is named must be the passage's.
SeedPick(worked, periods, limit) ==
    FirstOf(InReadingOrder({i \in Passage \ worked : \A p \in periods : parquet[i].rank = p}), limit)

-----------------------------------------------------------------------------
(* Properties.                                                             *)

Queried == Built /\ parquet \in QueryStores
Forms == (SUBSET Docs) \X (SUBSET Docs)
InWork(w) == {d \in Docs : w # 0 => RowAt(d).work = w}
\* Everything, and the works whose passages are all that lie in the range of one node.
Scopes == {w \in {0} \cup DOMAIN workMap : DocRange(w) \cap Docs = InWork(w)}
All(forms) == UNION Range(forms)

\* The docs up to the last that a list of hits was cut to: what lies behind is unknown.
Known(list, limit) == IF Len(list) < limit THEN Docs ELSE {d \in Docs : d <= Max(Range(list))}

\* A search over several forms shows the first of all the passages that have one of them, as many
\* as are asked for: a passage that two forms find is shown once and takes the place of none.
\* So it does in a work of which the catalog knows the range.  A filter that is applied only to
\* what the forms gave (the work then stands for an author or a title) lets no other passage
\* in, and none is missing where they were not cut.
SearchIsTheFirst ==
    Queried =>
    \A forms \in Forms, limit \in Limits :
        LET first(S) == FirstOf(InDocOrder(All(forms) \cap S), limit) IN
        /\ \A w \in Scopes : Search(forms, DocRange(w), InWork(w), limit) = first(InWork(w))
        /\ \A w \in DOMAIN workMap :
              LET shown == Search(forms, Docs, InWork(w), limit) IN
              /\ Range(shown) \subseteq All(forms) \cap InWork(w)
              /\ (\A f \in DOMAIN forms : Cardinality(forms[f]) <= 2 * limit) => shown = first(InWork(w))

\* The first attestation is the earliest of the scope: by period, then by place in the table, if
\* the phrase has no more hits than candidates are looked at; and in any case the earliest of
\* those up to the last candidate.
AttestationIsEarliest ==
    Queried =>
    \A hits \in SUBSET Docs, w \in {0} \cup DOMAIN workMap, limit, candidates \in Limits :
        LET first == FirstAttestation(hits, InWork(w), limit, candidates)
            known == Known(PhraseRows(hits, Doc, Max({limit, candidates})), Max({limit, candidates}))
            mine  == hits \cap InWork(w) \cap known
        IN  /\ first = <<>> <=> mine = {}
            /\ first # <<>> =>
                  \A d \in mine : ~KeyBefore(<<RowAt(d).rank, d>>, <<RowAt(first[1]).rank, first[1]>>)
            /\ FoldSet(LAMBDA k, t : t + TermUsage(hits, "canon", limit, 1)[k].count, 0,
                       DOMAIN TermUsage(hits, "canon", limit, 1)) = Min({limit, Cardinality(hits)})

\* Two terms: up to the last passage that the candidates of either were cut to, the pairs are the
\* passages of the scope with a form of both, each once, and a passage that is said to have one
\* term only has not the other.
PairsAreExact ==
    Queried =>
    \A forms1 \in Forms, hits2 \in SUBSET Docs, w \in Scopes, limit \in Limits :
        LET forms2 == <<hits2>>
            out   == PairAppearance(forms1, forms2, Docs, w, limit, limit)
            known == Known(PairCandidates(forms1, w, limit), limit)
                     \cap Known(PairCandidates(forms2, w, limit), limit)
            true1 == All(forms1) \cap InWork(w)
            true2 == hits2 \cap InWork(w)
        IN  /\ Range(out.hits) \cap known = true1 \cap true2 \cap known
            /\ out.only1 \cap known = (true1 \ true2) \cap known
            /\ out.only2 \cap known = (true2 \ true1) \cap known
            /\ out.count + Cardinality(out.only1) = out.term1

\* In every group the share of the first term's passages that make a pair is one at most, whatever
\* a pair is taken to be, and where it is a passage so is the share of the second's; the groups
\* hold all pairs.
PairSharesAreShares ==
    Queried =>
    \A forms1 \in Forms, hits2 \in SUBSET Docs, unit \in {"passage", "section", "work"} :
        LET groups == PairProfile(forms1, <<hits2>>, Docs, unit, "canon", 0, NumDocs)
            units(hits) == {UnitOf(unit, d) : d \in hits}
        IN  /\ \A k \in DOMAIN groups :
                  /\ groups[k].pairs <= groups[k].term1
                  /\ unit = "passage" => groups[k].pairs <= groups[k].term2
            /\ FoldSet(LAMBDA k, t : t + groups[k].pairs, 0, DOMAIN groups)
                  = Cardinality(units(All(forms1)) \cap units(hits2))

\* The mentions of a person are the earliest of all the passages that have one of the forms, and
\* those that have the name itself are marked so, whichever form found them first: the limit on
\* each form takes neither away.  No passage with the name is earlier than the one that is
\* given as the earliest, if it tags a person.
MentionsAreTheEarliest ==
    Queried =>
    \A name, alias, named \in SUBSET Passage, limit \in Limits :
        LET out   == PersonHistory(<<name, alias>>, limit)
            first == EarliestUnambiguous(out, named)
        IN  /\ out.mentions = FirstOf(InReadingOrder(name \cup alias), limit)
            /\ \A i \in Range(out.mentions) : i \in out.primary <=> i \in name
            /\ first # <<>> => \A i \in name \cap named : ~ReadsBefore(i, first[1])

\* A quote is verified if and only if a passage between the first and the last id of the work it
\* is claimed of has it, in the canon asked for: where these are the passages of the work and no
\* others (Scopes), if and only if the work has it.  What is offered in its place is from there
\* too, and no passage there that has a piece of the quote is more alike than all that is offered,
\* if the search for no piece was cut: the last passage of the work is lost only where the TF-IDF
\* index gave the candidates.  Of a work that shares its range with another, or that two corpora
\* have, the tool says no more: it never asks which work a hit is of (CitationIsOfTheWork).
CitationIsJudged ==
    Queried =>
    \A hits, piece, canon \in SUBSET Docs, w \in {0} \cup DOMAIN workMap, limit, n \in Limits :
        LET overlap == [d \in Docs |-> d % 2]
            ranked  == ByOverlap(piece, overlap)
            its     == IF w \in Scopes THEN InWork(w) ELSE DocRange(w) \cap Docs
            scope   == its \cap canon
            pieces  == <<piece \cup hits, hits>>
            out     == CitationVerify(hits, <<>>, pieces, overlap, canon, w, limit, n)
            indexed == CitationVerify(hits, ranked, pieces, overlap, canon, w, limit, n)
        IN  /\ out.verified <=> hits \cap scope # {}
            /\ Range(out.hits) \subseteq hits \cap scope
            /\ Range(out.near) \subseteq scope \cap All(pieces)
            /\ ~out.verified /\ Cardinality(All(pieces)) <= 3 * n =>
                  out.near = FirstOf(ByOverlap(All(pieces) \cap scope, overlap), n)
            /\ piece # {} =>
                  /\ indexed.verified <=> out.verified
                  /\ Range(indexed.near) \subseteq piece \cap its
                  /\ ~out.verified /\ w = 0 => indexed.near = FirstOf(ranked, n)

\* The description of the tool (registry.rs:1361) has it look for the quotation "optionally scoped
\* to a specific work" and answer whether the saying is from there: a quote that is verified in a
\* work is in a passage of the work.  The code does not keep to it: passages of other works whose
\* ids lie between the work's verify the quote too.
CitationIsOfTheWork ==
    Queried =>
    \A hits \in SUBSET Docs, w \in DOMAIN workMap :
        CitationVerify(hits, <<>>, <<hits>>, [d \in Docs |-> 0], Docs, w, 1, 1).verified
            => hits \cap InWork(w) # {}

\* Picking a seed, working on it and picking again goes through all passages of the period, the
\* earliest first and none twice.
SeedsReachAll ==
    Queried =>
    \A periods \in {{}} \cup {{r.rank} : r \in Range(parquet)} :
        LET wanted == {i \in Passage : \A p \in periods : parquet[i].rank = p}
            worked[k \in 0 .. Cardinality(wanted)] ==
                IF k = 0 THEN {} ELSE worked[k - 1] \cup Range(SeedPick(worked[k - 1], periods, 1))
        IN  \A k \in DOMAIN worked :
                /\ Cardinality(worked[k]) = k /\ worked[k] \subseteq wanted
                /\ \A i \in worked[k], j \in wanted \ worked[k] : ReadsBefore(i, j)

\* What the tools put together of cut and filtered lists is what they say it is.
ResultsAreExact ==
    /\ SearchIsTheFirst
    /\ AttestationIsEarliest
    /\ PairsAreExact
    /\ PairSharesAreShares
    /\ MentionsAreTheEarliest
    /\ CitationIsJudged
    /\ SeedsReachAll
=============================================================================
