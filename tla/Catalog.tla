------------------------------- MODULE Catalog -------------------------------
(***************************************************************************)
(* The catalog index: one walk over the passages, sorted by corpus, canon, *)
(* work and file, that grows the tree Corpus / Canon / Work / Division /   *)
(* PassageRange (commands/catalog_index.rs, catalog_index.rs), and what    *)
(* the tools ask of the tree: the work of a name, the outline, the groups  *)
(* and clusters of hits, the context around a passage                      *)
(* (research_tools/scopes.rs, tools/engine.rs).                            *)
(*                                                                         *)
(* A node's id is its place in the sequence `nodes`, counted from 1 (from  *)
(* 0 in the code); `parent` is 0 for a corpus.  The file is written        *)
(* through a temporary one and a rename, as DocTable models for the table. *)
(***************************************************************************)
EXTENDS Passages

CONSTANTS Blank,     \* the empty segment of a div_path
          Budgets    \* values of max_chars that are asked for

ASSUME BudgetAssumption == Budgets \subseteq Nat /\ Blank \in Nat

VARIABLES
    rows,      \* the rows the walk goes over
    at,        \* the next row
    open,      \* per level: the node that is open, and its first and last row
    nodes,     \* CorpusCatalogIndex.nodes
    works,     \* CorpusCatalogIndex.works
    workMap,   \* work_id_map: work -> place in works
    docParent, \* doc_parent: doc id -> its PassageRange
    stage      \* scan, build, built

vars == <<parquet, rows, at, open, nodes, works, workMap, docParent, stage>>

-----------------------------------------------------------------------------
(* Scan and sort.                                                          *)

\* Rows of passages that are not in the table are skipped.
Scanned(p) == SelectSeq(p, LAMBDA r : r.doc # None)

SortKey(r) == <<r.corpus, r.canon, r.work, r.file, r.doc>>
Before(r, s) == KeyBefore(SortKey(r), SortKey(s))

\* The last row of the run that starts at i and has, up to `to`, the same field as row i.
RunEnd(s, i, to, field) ==
    Max({j \in i .. to : \A m \in i .. j : s[m][field] = s[i][field]})

-----------------------------------------------------------------------------
(* Nodes.                                                                  *)

\* A corpus and a canon have no work.
Leaf(kind, parent, row) ==
    [kind |-> kind, parent |-> parent, file |-> row.file,
     work |-> IF kind \in {"Corpus", "Canon"} THEN None ELSE row.work,
     path |-> <<>>, first |-> None, last |-> None, count |-> 0, cjk |-> 0]

Children(ns, n) == SelectSeq([k \in DOMAIN ns |-> k], LAMBDA c : ns[c].parent = n)

\* The nodes above n.
Above(ns, n) ==
    LET up[k \in 0 .. Len(ns)] == IF k = 0 THEN {} ELSE up[ns[k].parent] \cup {ns[k].parent}
    IN  up[n] \ {0}

\* roll_up: the range node's docs are added to every node above it.
RollUp(ns, n) ==
    [k \in DOMAIN ns |->
        IF k \notin Above(ns, n) THEN ns[k]
        ELSE [ns[k] EXCEPT
                !.first = IF @ = None THEN ns[n].first ELSE Min({@, ns[n].first}),
                !.last  = IF @ = None THEN ns[n].last ELSE Max({@, ns[n].last}),
                !.count = @ + ns[n].count,
                !.cjk   = @ + ns[n].cjk]]

Total(s) == FoldLeft(LAMBDA sum, r : sum + r.cjk, 0, s)

\* aggregate_work, aggregate_canon: the totals of a level are those of its rows.
Aggregate(node, s) ==
    [node EXCEPT !.first = Min({r.doc : r \in Range(s)}), !.last = Max({r.doc : r \in Range(s)}),
                 !.count = Len(s), !.cjk = Total(s)]

-----------------------------------------------------------------------------
(* The divisions of one file.                                              *)

Segments(path) == SelectSeq(path, LAMBDA s : s # Blank)

\* ensure_path, one segment: the division of the path so far, found or pushed.
EnsureSegment(t, segment, row) ==
    LET joined == Append(t.joined, segment)
        id     == Len(t.nodes) + 1
    IN  IF joined \in DOMAIN t.paths
        THEN [t EXCEPT !.joined = joined, !.cur = t.paths[joined]]
        ELSE [t EXCEPT !.joined = joined, !.cur = id,
                       !.nodes  = Append(@, [Leaf("Division", t.cur, row) EXCEPT !.path = joined]),
                       !.paths  = [q \in DOMAIN @ \cup {joined} |-> IF q = joined THEN id ELSE @[q]]]

EnsurePath(t, file, row) ==
    FoldLeft(LAMBDA u, segment : EnsureSegment(u, segment, row),
             [t EXCEPT !.cur = file, !.joined = <<>>], Segments(row.path))

\* Mutant of AddRun: the docs of a run are taken to be consecutive.
AddRunConsecutive(t, file, run) ==
    LET u     == EnsurePath(t, file, run[1])
        range == [Leaf("PassageRange", u.cur, run[1]) EXCEPT
                    !.path = run[1].path, !.first = run[1].doc,
                    !.last = run[1].doc + Len(run) - 1, !.count = Len(run), !.cjk = Total(run)]
        id    == Len(u.nodes) + 1
        docs  == {r.doc : r \in Range(run)}
    IN  [u EXCEPT !.nodes = RollUp(Append(@, range), id),
                  !.docs  = [d \in DOMAIN @ \cup docs |-> IF d \in docs THEN id ELSE @[d]]]

\* One run of rows with the same div_path: its range node, under its division.
AddRun(t, file, run) ==
    LET u     == EnsurePath(t, file, run[1])
        range == [Leaf("PassageRange", u.cur, run[1]) EXCEPT
                    !.path = run[1].path, !.first = run[1].doc,
                    !.last = run[Len(run)].doc, !.count = Len(run), !.cjk = Total(run)]
        id    == Len(u.nodes) + 1
        docs  == {r.doc : r \in Range(run)}
    IN  [u EXCEPT !.nodes = RollUp(Append(@, range), id),
                  !.docs  = [d \in DOMAIN @ \cup docs |-> IF d \in docs THEN id ELSE @[d]]]

\* build_div_subtree.
DivSubtree(ns, docs, parent, group) ==
    LET file   == Len(ns) + 1
        starts == {i \in DOMAIN group : i = 1 \/ group[i].path # group[i - 1].path}
        begin  == [nodes |-> Append(ns, Leaf("Division", parent, group[1])), docs |-> docs,
                   paths |-> [q \in {<<>>} |-> file], cur |-> file, joined |-> <<>>]
    IN  FoldLeft(LAMBDA t, i : AddRun(t, file, SubSeq(group, i, RunEnd(group, i, Len(group), "path"))),
                 begin, SetToSortSeq(starts, <))

-----------------------------------------------------------------------------
(* The walk.                                                               *)

Levels == {"corpus", "canon", "work"}
Closed == [node |-> 0, from |-> 0, to |-> 0]
IsOpen(level) == open[level] # Closed
RowsOf(level) == SubSeq(rows, open[level].from, open[level].to)

Init == /\ parquet \in Parquets
        /\ rows = <<>> /\ at = 1 /\ open = [l \in Levels |-> Closed]
        /\ nodes = <<>> /\ works = <<>> /\ workMap = <<>> /\ docParent = <<>>
        /\ stage = "scan"

Scan ==
    /\ stage = "scan"
    /\ rows' = SortSeq(Scanned(parquet), Before)
    /\ stage' = "build"
    /\ UNCHANGED <<parquet, at, open, nodes, works, workMap, docParent>>

\* A node of the level is pushed for the run of rows that begins here.
OpenLevel(level, kind, parent, to) ==
    /\ stage = "build" /\ ~IsOpen(level) /\ at <= to
    /\ nodes' = Append(nodes, Leaf(kind, parent, rows[at]))
    /\ open' = [open EXCEPT ![level] = [node |-> Len(nodes) + 1, from |-> at,
                                        to   |-> RunEnd(rows, at, to, level)]]
    /\ UNCHANGED <<parquet, rows, at, works, docParent, stage>>

OpenCorpus == OpenLevel("corpus", "Corpus", 0, Len(rows)) /\ UNCHANGED workMap
OpenCanon ==
    IsOpen("corpus") /\ OpenLevel("canon", "Canon", open["corpus"].node, open["corpus"].to)
                     /\ UNCHANGED workMap

WorkPlace == Len(works) + 1

\* Mutant of OpenWork: the work hangs under the corpus.
OpenWorkUnderCorpus ==
    /\ IsOpen("canon") /\ OpenLevel("work", "Work", open["corpus"].node, open["canon"].to)
    /\ workMap' = [w \in DOMAIN workMap \cup {rows[at].work} |->
                      IF w = rows[at].work THEN WorkPlace ELSE workMap[w]]

\* A later work of the same name replaces the earlier one in the map.
OpenWork ==
    /\ IsOpen("canon") /\ OpenLevel("work", "Work", open["canon"].node, open["canon"].to)
    /\ workMap' = [w \in DOMAIN workMap \cup {rows[at].work} |->
                      IF w = rows[at].work THEN WorkPlace ELSE workMap[w]]

AddFile ==
    /\ stage = "build" /\ IsOpen("work") /\ at <= open["work"].to
    /\ LET end == RunEnd(rows, at, open["work"].to, "file")
           t   == DivSubtree(nodes, docParent, open["work"].node, SubSeq(rows, at, end))
       IN  nodes' = t.nodes /\ docParent' = t.docs /\ at' = end + 1
    /\ UNCHANGED <<parquet, rows, open, works, workMap, stage>>

CloseLevel(level) ==
    /\ stage = "build" /\ IsOpen(level) /\ at > open[level].to
    /\ nodes' = [nodes EXCEPT ![open[level].node] = Aggregate(@, RowsOf(level))]
    /\ open' = [open EXCEPT ![level] = Closed]
    /\ UNCHANGED <<parquet, rows, at, workMap, docParent, stage>>

CloseWork ==
    /\ CloseLevel("work")
    /\ works' = Append(works, [work |-> rows[open["work"].from].work,
                               canon |-> rows[open["work"].from].canon,
                               root |-> open["work"].node, count |-> Len(RowsOf("work")),
                               files |-> {r.file : r \in Range(RowsOf("work"))}])
CloseCanon  == ~IsOpen("work") /\ CloseLevel("canon") /\ UNCHANGED works
CloseCorpus == ~IsOpen("canon") /\ CloseLevel("corpus") /\ UNCHANGED works

Finish ==
    /\ stage = "build" /\ at > Len(rows) /\ \A l \in Levels : ~IsOpen(l)
    /\ stage' = "built"
    /\ UNCHANGED <<parquet, rows, at, open, nodes, works, workMap, docParent>>

\* The catalog is written; the queries below read it.
Done == stage = "built" /\ UNCHANGED vars

Next == \/ Scan \/ OpenCorpus \/ OpenCanon \/ OpenWork \/ AddFile
        \/ CloseWork \/ CloseCanon \/ CloseCorpus \/ Finish \/ Done

Spec == Init /\ [][Next]_vars

-----------------------------------------------------------------------------
(* What the tools ask of the tree.                                         *)

Chain(ns, n) == Above(ns, n) \cup {n}

\* climb_to_level: the nearest node of the kind at or above n; 0 for none.  A parent is
\* pushed before its children, so the nearest is the one with the highest id.
Climb(ns, n, kind) ==
    LET on == {k \in Chain(ns, n) : ns[k].kind = kind} IN IF on = {} THEN 0 ELSE Max(on)

\* group_hits_by_outline_node.
GroupHits(ns, parentOf, hits, kind) ==
    LET node(d) == Climb(ns, parentOf[d], kind)
        placed  == {d \in hits \cap DOMAIN parentOf : node(d) # 0}
    IN  [g \in {node(d) : d \in placed} |-> Cardinality({d \in placed : node(d) = g})]

\* sorted_groups: the most hits first, then by node.
SortedGroups(groups) ==
    SetToSortSeq(DOMAIN groups,
                 LAMBDA g, h : groups[g] > groups[h] \/ (groups[g] = groups[h] /\ g < h))

\* CompiledScope: a node stands for the docs from its first to its last.
InScope(ns, n, d) == ns[n].first <= d /\ d <= ns[n].last

\* outline_search of a node: the hits in its range, by group, the first `limit` of them; start 0
\* searches everywhere.
OutlineSearch(ns, parentOf, start, hits, kind, limit) ==
    LET scoped == {d \in hits : start # 0 => InScope(ns, start, d)}
        counts == GroupHits(ns, parentOf, scoped, kind)
        sorted == SortedGroups(counts)
    IN  [total |-> Cardinality(scoped), groupCount |-> Len(sorted),
         groups |-> [i \in 1 .. Min({limit, Len(sorted)}) |->
                        [node |-> sorted[i], count |-> counts[sorted[i]]]]]

\* absence_check of a node.
Found(ns, start, hits) == \E d \in hits : InScope(ns, start, d)

\* representative_passages of a cluster: the first three hits in its range.
Representatives(ns, n, hits) == FirstOf(SelectSeq(hits, LAMBDA d : InScope(ns, n, d)), 3)

\* A climb to the budget ends at the nearest node, at or above the leaf, that fits it or is a
\* work, or below which there is none to go to.
AtRest(ns, n, budget) == ns[n].cjk <= budget \/ ns[n].kind = "Work"
TooHigh(ns, n) == n # 0 /\ ns[n].kind \in {"Canon", "Corpus"}

\* The node of the climb from the leaf just below n, or the leaf.
Below(ns, leaf, n) == Min({k \in Chain(ns, leaf) : k > n} \cup {leaf})

\* expand_context_adaptive_impl: below a node that is too high it turns back by one.
AdaptiveEngine(ns, leaf, budget) ==
    LET stop == Max({k \in Chain(ns, leaf) : \/ AtRest(ns, k, budget)
                                             \/ ns[k].parent = 0 \/ TooHigh(ns, ns[k].parent)})
    IN  IF AtRest(ns, stop, budget) \/ ~TooHigh(ns, ns[stop].parent) THEN stop
        ELSE Below(ns, leaf, stop)

\* The command of the same name: it turns back to the first child of the node too high.
AdaptiveCommand(ns, leaf, budget) ==
    LET stop == Max({k \in Chain(ns, leaf) : \/ AtRest(ns, k, budget)
                                             \/ ns[k].parent = 0 \/ TooHigh(ns, ns[k].parent)})
    IN  IF AtRest(ns, stop, budget) \/ ~TooHigh(ns, ns[stop].parent) THEN stop
        ELSE Children(ns, ns[stop].parent)[1]

\* pair_profile_unit_key of unit "section": the nearest division.
SectionOf(ns, parentOf, d) == Climb(ns, parentOf[d], "Division")

\* collect_sections: the nodes down to `depth` levels below the root, depth first.
Sections(ns, root, depth) ==
    LET below[n \in DOMAIN ns, d \in 0 .. depth] ==
            LET kids == Children(ns, n) IN
            (IF d > 0 THEN <<n>> ELSE <<>>) \o
            (IF d < depth THEN FlattenSeq([i \in DOMAIN kids |-> below[kids[i], d + 1]]) ELSE <<>>)
    IN  below[root, 0]

-----------------------------------------------------------------------------
(* Properties.                                                             *)

Built == stage = "built"
RowOf(d) == CHOOSE r \in Range(rows) : r.doc = d
Beneath(n) == {d \in DOMAIN docParent : n \in Chain(nodes, docParent[d])}
Docs == {r.doc : r \in Range(rows)}

ParentKinds == [Corpus |-> {}, Canon |-> {"Corpus"}, Work |-> {"Canon"},
                Division |-> {"Work", "Division"}, PassageRange |-> {"Division"}]

\* Every node hangs under an earlier node of the kind above its own.
TypeOK ==
    /\ at \in 1 .. Len(rows) + 1 /\ stage \in {"scan", "build", "built"}
    /\ \A n \in DOMAIN nodes :
          LET up == nodes[n].parent IN
          IF nodes[n].kind = "Corpus" THEN up = 0
          ELSE up \in 1 .. n - 1 /\ nodes[up].kind \in ParentKinds[nodes[n].kind]
    /\ \A w \in DOMAIN workMap : workMap[w] \in 1 .. Len(works) + 1
    /\ \A d \in DOMAIN docParent : docParent[d] \in DOMAIN nodes

\* Every passage of the store that the document table knows has one range: it is of the
\* passage's file and div_path, its bounds hold the passage, and the work, canon and corpus
\* above it are the passage's own (doc_parent after build_catalog_from_passages).
EveryDocHasItsRange ==
    Built =>
    /\ DOMAIN docParent = {r.doc : r \in Range(parquet)} \ {None}
    /\ \A d \in DOMAIN docParent :
          LET n == docParent[d]  r == RowOf(d) IN
          /\ nodes[n].kind = "PassageRange" /\ InScope(nodes, n, d)
          /\ nodes[n].file = r.file /\ nodes[n].path = r.path
          /\ \A k \in Chain(nodes, n) :
                nodes[k].kind \in {"Work", "Division", "PassageRange"} => nodes[k].work = r.work

\* The count, the characters and the first and last doc of a node are those of the passages
\* beneath it, at every level: what roll_up adds and what the totals of a level overwrite.
CountsAreExact ==
    Built =>
    \A n \in DOMAIN nodes :
        LET b == Beneath(n) IN
        /\ b # {} /\ nodes[n].count = Cardinality(b)
        /\ nodes[n].cjk = FoldSet(LAMBDA d, t : t + RowOf(d).cjk, 0, b)
        /\ nodes[n].first = Min(b) /\ nodes[n].last = Max(b)

\* A file has one division in its work, and a file's divisions one node for each path, however
\* often the passages leave a division and come back to it (the path_nodes cache).
DivisionsAreUnique ==
    Built =>
    \A m, n \in DOMAIN nodes :
        /\ m # n /\ nodes[m].kind = "Division" /\ nodes[n].kind = "Division"
        /\ nodes[m].parent = nodes[n].parent
        => nodes[m].file # nodes[n].file \/ nodes[m].path # nodes[n].path

\* A work that lies under one canon of one corpus is found whole by its name: all its passages
\* are beneath the root that get_work gives, and its record counts them and names their files.
WorkLookupIsComplete ==
    Built =>
    \A w \in {r.work : r \in Range(rows)} :
        LET mine == {r \in Range(rows) : r.work = w} IN
        Cardinality({<<r.corpus, r.canon>> : r \in mine}) = 1 =>
        LET record == works[workMap[w]] IN
        /\ workMap[w] \in DOMAIN works
        /\ record.work = w /\ record.count = Cardinality(mine)
        /\ record.files = {r.file : r \in mine}
        /\ Beneath(record.root) = {r.doc : r \in mine}

\* The tree is that of the passages: placed, counted, divided and looked up (catalog_index.rs:200-620).
CatalogIsTheStore ==
    /\ EveryDocHasItsRange
    /\ CountsAreExact
    /\ DivisionsAreUnique
    /\ WorkLookupIsComplete

\* Grouping loses no hit and counts none twice: the groups of any set of hits add up to it, at
\* each level, and a hit is counted in a node that it lies beneath.
GroupsCountEveryHit ==
    Built =>
    \A hits \in SUBSET Docs, kind \in {"Work", "Division", "PassageRange"} :
        LET groups == GroupHits(nodes, docParent, hits, kind) IN
        /\ FoldSet(LAMBDA g, t : t + groups[g], 0, DOMAIN groups) = Cardinality(hits)
        /\ \A g \in DOMAIN groups : groups[g] <= Cardinality(hits \cap Beneath(g))
        /\ kind = "Division" =>
              DOMAIN groups = {SectionOf(nodes, docParent, d) : d \in hits}

\* What is searched for in a node is never missed: an absence that is reported is one, and the
\* groups of an outline search, the largest first, hold every hit beneath the node.
ScopeHoldsTheNode ==
    Built =>
    \A n \in DOMAIN nodes, hits \in SUBSET Docs :
        LET out == OutlineSearch(nodes, docParent, n, hits, "Division", NumDocs)
            own == hits \cap Beneath(n)
        IN  /\ ~Found(nodes, n, hits) => own = {}
            /\ out.total >= Cardinality(own) /\ Len(out.groups) = out.groupCount
            /\ FoldSet(LAMBDA i, t : t + out.groups[i].count, 0, DOMAIN out.groups) = out.total
            /\ \A i \in 1 .. Len(out.groups) - 1 : out.groups[i].count >= out.groups[i + 1].count
            /\ nodes[n].last - nodes[n].first + 1 = nodes[n].count => out.total = Cardinality(own)

\* Where a node's docs follow on one another in the document table, its representatives are hits
\* of its own, and there is one if it has a hit.  (Elsewhere they may be another node's: the
\* range from first to last then covers docs that are not beneath the node.)
RepresentativesBelong ==
    Built =>
    \A n \in DOMAIN nodes, hits \in SUBSET Docs :
        LET reps == Representatives(nodes, n, SetToSortSeq(hits, <)) IN
        nodes[n].last - nodes[n].first + 1 = nodes[n].count =>
        /\ Range(reps) \subseteq hits \cap Beneath(n)
        /\ Len(reps) = Min({3, Cardinality(hits \cap Beneath(n))})

\* The climb to a budget holds the seed and stays in its work; the command and the tool select
\* the same node; and, since a parent never has fewer characters than its child, that node is
\* the passage's own range or else the whole work.
AdaptiveIsRangeOrWork ==
    Built =>
    \A d \in DOMAIN docParent, budget \in Budgets :
        LET leaf == docParent[d]
            n    == AdaptiveEngine(nodes, leaf, budget)
        IN  /\ n = AdaptiveCommand(nodes, leaf, budget)
            /\ n = IF nodes[leaf].cjk <= budget THEN leaf ELSE Climb(nodes, leaf, "Work")

\* The sections of a work, to a depth, are the nodes that far below its root, each once.
SectionsAreTheTree ==
    Built =>
    \A w \in DOMAIN works, depth \in 0 .. 3 :
        LET s == Sections(nodes, works[w].root, depth) IN
        /\ IsInjective(s)
        /\ Range(s) = {n \in DOMAIN nodes :
                         /\ works[w].root \in Above(nodes, n)
                         /\ Cardinality(Above(nodes, n) \ Above(nodes, works[w].root)) \in 1 .. depth}

\* The tree is that of the passages (catalog_index.rs), and what the tools ask of it - groups,
\* scopes, representatives, contexts, sections - is what it holds (engine.rs).
OutlineIsTheTree ==
    /\ CatalogIsTheStore
    /\ GroupsCountEveryHit
    /\ ScopeHoldsTheNode
    /\ RepresentativesBelong
    /\ AdaptiveIsRangeOrWork
    /\ SectionsAreTheTree
=============================================================================
