------------------------------ MODULE Registry ------------------------------
(***************************************************************************)
(* The registry of research work (registry/mod.rs): an SQLite file that    *)
(* keeps one item per artefact, the phrases and seeds the artefact speaks  *)
(* of, and edges from a task packet to the other items of its seed.        *)
(* `catalog` reads the runs directory in chunks, each written in its own   *)
(* transaction; the search and research commands record one payload each.  *)
(* Both then link: over a second connection, outside any transaction, one  *)
(* autocommitted row at a time.  Any number of processes share the file.   *)
(***************************************************************************)
EXTENDS Integers, Sequences, FiniteSets, FiniteSetsExt, SequencesExt

CONSTANTS Caller,      \* processes
          Listing,     \* the paths an artefact may have under runs, in sorted order
          Place,       \* path -> its directory and its extension
          Versions,    \* path -> the digests of what its file may hold
          PayloadOf,   \* digest -> the payload
          Recordings,  \* what the commands record: [type, path, digest, seed]
          ChunkSize,   \* CATALOG_BATCH_SIZE
          LinkLimit,   \* the LIMIT of the query for items to link
          Absent,      \* a path without a file
          MaxCalls,    \* bound: calls of catalog and record
          MaxEdits     \* bound: changes of an artefact

ASSUME SizesAssumption ==
    ChunkSize \in Nat \ {0} /\ LinkLimit \in Nat /\ MaxCalls \in Nat /\ MaxEdits \in Nat
\* A listing names a path once, and what a command records is told by its file and its
\* digest: the payload says which command it is of, and its seed.
ASSUME ListingAssumption ==
    \A i, j \in DOMAIN Listing : Listing[i] = Listing[j] => i = j
ASSUME RecordingsAssumption ==
    \A r, s \in Recordings : r.path = s.path /\ r.digest = s.digest => r = s

VARIABLES
    runs,      \* path -> digest of the file, or Absent
    items,     \* table work_items, as records [id, type, seed]
    phrases,   \* table phrase_observations: id -> the phrases of its rows
    seeds,     \* table seed_observations: id -> the seeds of its rows
    edges,     \* table work_edges
    pc,        \* process -> "idle", "parse", "write", "select" or "insert"
    todo,      \* process -> the chunks still to read, of places in Listing
    batch,     \* process -> what it parsed and will write
    rows,      \* process -> the edges it will insert
    mine,      \* history: the items this call wrote last
    listed,    \* history: what this call listed and nobody changed since
    linked,    \* history: the items whose last writer linked them and ended well
    truncated, \* history: some query for items to link met its LIMIT
    calls, edits

tables == <<items, phrases, seeds, edges>>
registryVars ==
    <<runs, tables, pc, todo, batch, rows, mine, listed, linked, truncated, calls, edits>>

-----------------------------------------------------------------------------
\* An artefact, as far as the registry reads it. A payload is an object or an array, a
\* text, or "broken" when it is no JSON. seeds holds the passage an object names as its
\* seed, if it does, or all a text mentions; says the phrases under the keys of an object.
Silent == [query |-> "", phrase |-> "", searches |-> <<>>, frontiers |-> <<>>, packets |-> <<>>]
Payload(form, schema, named, says) ==
    [form |-> form, schema |-> schema, seeds |-> named, says |-> says]
Object(schema, named, says) == Payload("object", schema, named, says)
TextPayload(ids) == Payload("text", "", ids, Silent)
Broken == Payload("broken", "", {}, Silent)

\* The type of an artefact: by its schema, then by the directory it lies in.
ArtifactType(path, payload) ==
    LET dir == Place[path].dir
    IN IF payload.schema = "research" THEN "semantic_research"
       ELSE CASE dir = "search"        -> "search_result"
              [] dir = "frontiers"     -> IF payload.schema = "frontier"
                                          THEN "frontier_packet" ELSE "frontier_report"
              [] dir = "dossiers"      -> "dossier"
              [] dir = "drafts"        -> "graph_draft"
              [] dir = "tasks"         -> "task_packet"
              [] dir = "adjudications" -> "adjudication"
              [] dir = "readzen"       -> "readzen_collection"
              [] OTHER -> IF Place[path].ext = "md" THEN "survey_markdown" ELSE "survey_json"

\* The seeds a summary may name, "" for none: the field of the object, or any of the
\* passages a text mentions (they pass through a HashSet), or else the caller's.
OwnSeed == {"frontier_packet", "frontier_report", "dossier", "graph_draft", "task_packet",
            "adjudication"}
SummarySeeds(type, payload, given) ==
    IF payload.form = "text" \/ (payload.form = "object" /\ type \in OwnSeed)
    THEN IF payload.seeds = {} THEN {given} ELSE payload.seeds
    ELSE {""}

\* The phrases an artefact reports on, in the order of its rows.
PhraseObservations(type, payload) ==
    IF payload.form # "object" THEN <<>>
    ELSE CASE type = "semantic_research" -> <<payload.says.query>>
           [] type = "search_result" -> <<payload.says.phrase>>
           [] type \in {"frontier_report", "frontier_packet"} ->
                payload.says.searches \o payload.says.frontiers \o payload.says.packets
           [] OTHER -> <<>>
SeedObservations(seed) == IF seed = "" THEN <<>> ELSE <<seed>>

\* What parsing may make of an artefact: the item is named by path and content, and has
\* the caller's seed when its summary names none.
Named(s, given) == IF s = "" THEN given ELSE s
Parsed(id, type, given) ==
    { [item |-> [id |-> id, type |-> type, seed |-> Named(s, given)],
       phrases |-> PhraseObservations(type, PayloadOf[id.digest]),
       seeds |-> SeedObservations(s)] : s \in SummarySeeds(type, PayloadOf[id.digest], given) }
ItemId(from, path, digest) == [from |-> from, path |-> path, digest |-> digest]
ParseArtifact(path, digest) ==
    IF digest = Absent THEN {}
    ELSE IF PayloadOf[digest].form = "broken" THEN {}
    ELSE Parsed(ItemId("runs", path, digest), ArtifactType(path, PayloadOf[digest]), "")
PayloadToRecord(r) == Parsed(ItemId("record", r.path, r.digest), r.type, r.seed)

Path == Range(Listing)
Digests == UNION { Versions[path] : path \in Path }
Ids == { ItemId("runs", path, v) : path \in Path, v \in Digests }
       \cup { ItemId("record", r.path, r.digest) : r \in Recordings }

\* What names no passage names nothing.
ASSUME SeedsAssumption == \A i \in Ids : "" \notin PayloadOf[i.digest].seeds

-----------------------------------------------------------------------------
RegistryInit ==
    /\ runs \in [Path -> Digests \cup {Absent}]
    /\ \A path \in Path : runs[path] \in Versions[path] \cup {Absent}
    /\ items = {} /\ edges = {}
    /\ phrases = [i \in Ids |-> <<>>] /\ seeds = [i \in Ids |-> <<>>]
    /\ pc = [p \in Caller |-> "idle"] /\ todo = [p \in Caller |-> {}]
    /\ batch = [p \in Caller |-> {}] /\ rows = [p \in Caller |-> {}]
    /\ mine = [p \in Caller |-> {}] /\ listed = [p \in Caller |-> {}]
    /\ linked = {} /\ truncated = FALSE
    /\ calls = 0 /\ edits = 0

\* Someone else writes or removes an artefact.
EditRuns ==
    /\ edits < MaxEdits /\ edits' = edits + 1
    /\ \E path \in Path : \E v \in Versions[path] \cup {Absent} :
          /\ v # runs[path] /\ runs' = [runs EXCEPT ![path] = v]
          /\ listed' = [p \in Caller |-> listed[p] \ {path}]
    /\ UNCHANGED <<tables, pc, todo, batch, rows, mine, linked, truncated, calls>>

\* The places of the artefacts, cut into chunks in their order.
Chunks(places) ==
    LET ChunkOf(i) == (Cardinality({ j \in places : j <= i }) - 1) \div ChunkSize
    IN  { { i \in places : ChunkOf(i) = ChunkOf(k) } : k \in places }

\* `catalog`: list the artefacts there are now.
CatalogRuns(p) ==
    /\ pc[p] = "idle" /\ calls < MaxCalls /\ calls' = calls + 1
    /\ LET found == Chunks({ i \in DOMAIN Listing : runs[Listing[i]] # Absent })
       IN /\ todo' = [todo EXCEPT ![p] = found]
          /\ pc' = [pc EXCEPT ![p] = IF found = {} THEN "select" ELSE "parse"]
    /\ listed' = [listed EXCEPT ![p] = { path \in Path : runs[path] # Absent }]
    /\ UNCHANGED <<runs, tables, batch, rows, mine, linked, truncated, edits>>

\* Read the next artefact of the chunk as it is now; one that cannot be read is skipped.
ParseNext(p) ==
    /\ pc[p] = "parse"
    /\ \E chunk \in todo[p] : \E i \in chunk :
          /\ \A k \in UNION todo[p] : i <= k
          /\ LET found == ParseArtifact(Listing[i], runs[Listing[i]])
             IN \/ found = {} /\ UNCHANGED batch
                \/ \E a \in found : batch' = [batch EXCEPT ![p] = @ \cup {a}]
          /\ todo' = [todo EXCEPT ![p] = (@ \ {chunk}) \cup ({chunk \ {i}} \ {{}})]
          /\ pc' = [pc EXCEPT ![p] = IF chunk = {i} THEN "write" ELSE "parse"]
    /\ UNCHANGED <<runs, tables, rows, mine, listed, linked, truncated, calls, edits>>

\* A command records the payload it is about to write to its --out file.
RecordPayload(p) ==
    /\ pc[p] = "idle" /\ calls < MaxCalls /\ calls' = calls + 1
    /\ \E r \in Recordings : \E a \in PayloadToRecord(r) : batch' = [batch EXCEPT ![p] = {a}]
    /\ pc' = [pc EXCEPT ![p] = "write"]
    /\ UNCHANGED <<runs, tables, todo, rows, mine, listed, linked, truncated, edits>>

\* upsert_items_batch for some parsed artefacts, in one transaction: the item is replaced,
\* the rows of its observations are deleted and inserted again.
Written(s) == { a.item.id : a \in s }
\* Mutant of Observed: the old rows are not deleted.
ObservedAgain(table, i, new) == table[i] \o new
Observed(table, i, new) == new
\* Mutant of UpsertItems: an item that is there is not replaced.
UpsertItemsPlain(s) ==
    LET ids == Written(s)
        Of(i) == CHOOSE a \in s : a.item.id = i
    IN /\ items' = items \cup { a.item : a \in s }
       /\ phrases' = [i \in Ids |-> IF i \in ids THEN Of(i).phrases ELSE phrases[i]]
       /\ seeds' = [i \in Ids |-> IF i \in ids THEN Of(i).seeds ELSE seeds[i]]
UpsertItems(s) ==
    LET ids == Written(s)
        Of(i) == CHOOSE a \in s : a.item.id = i
    IN /\ items' = { x \in items : x.id \notin ids } \cup { a.item : a \in s }
       /\ phrases' = [i \in Ids |-> IF i \in ids THEN Observed(phrases, i, Of(i).phrases)
                                    ELSE phrases[i]]
       /\ seeds' = [i \in Ids |-> IF i \in ids THEN Observed(seeds, i, Of(i).seeds)
                                  ELSE seeds[i]]

WriteBatch(p) ==
    /\ pc[p] = "write"
    /\ UpsertItems(batch[p])
    /\ batch' = [batch EXCEPT ![p] = {}]
    /\ mine' = [q \in Caller |-> IF q = p THEN mine[q] \cup Written(batch[p])
                                 ELSE mine[q] \ Written(batch[p])]
    /\ linked' = linked \ Written(batch[p])
    /\ pc' = [pc EXCEPT ![p] = IF todo[p] = {} THEN "select" ELSE "parse"]
    /\ UNCHANGED <<runs, edges, todo, rows, listed, truncated, calls, edits>>

\* link_related_items. A task packet is joined to every other item of its seed.
Seeded == { x \in items : x.seed # "" }
Joined(x, y) == x.type = "task_packet" /\ x.seed = y.seed /\ x.id # y.id
Edge(x, y) == [from |-> x.id, to |-> y.id, relation |-> y.type]
\* Mutant of EdgeRows: only the items that come after the packet, taken by type.
EdgeRowsOther(S) ==
    { Edge(z[1], z[2]) : z \in { w \in S \X S : Joined(w[1], w[2]) /\ w[2].type # "task_packet" } }
EdgeRows(S) == { Edge(z[1], z[2]) : z \in { w \in S \X S : Joined(w[1], w[2]) } }

LinkSelect(p) ==
    /\ pc[p] = "select"
    /\ \/ /\ Cardinality(Seeded) <= LinkLimit
          /\ rows' = [rows EXCEPT ![p] = EdgeRows(Seeded)]
          /\ UNCHANGED truncated
       \/ /\ Cardinality(Seeded) > LinkLimit
          /\ \E S \in kSubset(LinkLimit, Seeded) : rows' = [rows EXCEPT ![p] = EdgeRows(S)]
          /\ truncated' = TRUE
    /\ pc' = [pc EXCEPT ![p] = "insert"]
    /\ UNCHANGED <<runs, tables, todo, batch, mine, listed, linked, calls, edits>>

\* INSERT OR IGNORE of one row; they come in the order of a HashMap.
LinkInsert(p) ==
    /\ pc[p] = "insert"
    /\ \E e \in rows[p] : /\ edges' = edges \cup {e}
                          /\ rows' = [rows EXCEPT ![p] = @ \ {e}]
    /\ UNCHANGED <<runs, items, phrases, seeds, pc, todo, batch, mine, listed, linked,
                   truncated, calls, edits>>

LinkDone(p) ==
    /\ pc[p] = "insert" /\ rows[p] = {}
    /\ linked' = linked \cup mine[p]
    /\ mine' = [mine EXCEPT ![p] = {}] /\ listed' = [listed EXCEPT ![p] = {}]
    /\ pc' = [pc EXCEPT ![p] = "idle"]
    /\ UNCHANGED <<runs, tables, todo, batch, rows, truncated, calls, edits>>

\* The process dies, or a statement fails (the database stayed busy for five seconds, the
\* disk is full): an open transaction is rolled back, what was committed stays.
Fail(p) ==
    /\ pc[p] # "idle"
    /\ pc' = [pc EXCEPT ![p] = "idle"]
    /\ todo' = [todo EXCEPT ![p] = {}] /\ batch' = [batch EXCEPT ![p] = {}]
    /\ rows' = [rows EXCEPT ![p] = {}] /\ mine' = [mine EXCEPT ![p] = {}]
    /\ listed' = [listed EXCEPT ![p] = {}]
    /\ UNCHANGED <<runs, tables, linked, truncated, calls, edits>>

RegistryNext ==
    \/ EditRuns
    \/ \E p \in Caller : \/ CatalogRuns(p) \/ ParseNext(p) \/ RecordPayload(p) \/ WriteBatch(p)
                         \/ LinkSelect(p) \/ LinkInsert(p) \/ LinkDone(p) \/ Fail(p)

RegistrySpec == RegistryInit /\ [][RegistryNext]_registryVars

-----------------------------------------------------------------------------
\* Types of the tables, of which work_items has one row per item, and of the calls.
RegistryTypeOK ==
    /\ \A x \in items : x.id \in Ids
    /\ \A x, y \in items : x.id = y.id => x = y
    /\ pc \in [Caller -> {"idle", "parse", "write", "select", "insert"}]
    /\ mine \in [Caller -> SUBSET Ids] /\ linked \subseteq Ids
    /\ \A e \in edges : e.from \in Ids /\ e.to \in Ids
    /\ \A p \in Caller : rows[p] # {} => pc[p] = "insert"

\* An edge leads from a task packet to an item that is stored, says of what type that is,
\* and the two may have the same seed: also when either was read again since, from a text
\* that mentions several passages, and when calls write and link at the same time.
SeedsOf(x) == { a.item.seed : a \in UNION { Parsed(x.id, x.type, given) : given \in {x.seed} } }
EdgesJoinItems ==
    \A e \in edges : \E x, y \in items :
        /\ e = Edge(x, y) /\ x # y
        /\ x.type = "task_packet" /\ SeedsOf(x) \cap SeedsOf(y) # {}

\* The rows of an item's observations are those its artefact yields, each once, however
\* often it was read, by whom, and whichever call failed (phrase_status counts them).
ObservationsMatchItems ==
    /\ \A x \in items : /\ phrases[x.id] = PhraseObservations(x.type, PayloadOf[x.id.digest])
                        /\ seeds[x.id] \in {<<>>, SeedObservations(x.seed)}
    /\ \A i \in Ids : (\A x \in items : x.id # i) => phrases[i] = <<>> /\ seeds[i] = <<>>

\* Two items whose writers have ended well are linked if they have to be, in whatever order
\* the calls wrote, selected and inserted, and whoever died meanwhile - as long as no query
\* for the items to link has met its LIMIT.
Done(i) == i \in linked
FinishedWorkIsLinked ==
    ~truncated => \A x, y \in items :
        (x.seed # "" /\ Joined(x, y) /\ Done(x.id) /\ Done(y.id)) => Edge(x, y) \in edges

\* When a catalog call comes to linking, every readable artefact it listed, and that nobody
\* has changed since, is stored as it is: over chunks, and past unreadable files.
CatalogIsComplete ==
    \A p \in Caller : pc[p] \in {"select", "insert"} =>
        \A path \in listed[p] : ParseArtifact(path, runs[path]) # {} =>
            \E x \in items : x.id = ItemId("runs", path, runs[path])

\* What is stored - items, their observations, their edges - is what the artefacts say, and
\* all of it.
RowsMatchArtefacts ==
    /\ EdgesJoinItems
    /\ ObservationsMatchItems
    /\ CatalogIsComplete

=============================================================================
