-------------------------- MODULE Registry_proofs --------------------------
(***************************************************************************)
(* Registry: work that was finished is linked, for any number of processes,*)
(* artefacts and recordings, and whichever of the calls die.               *)
(***************************************************************************)
EXTENDS Registry, TLAPS

\* A process that has selected the items to link, and still inserts edges.
Linking(p) == pc[p] = "insert"

\* An item is past its writer's select: the writer is inserting, or has ended well.
PastSelect(i) == i \in linked \/ \E p \in Caller : Linking(p) /\ i \in mine[p]

Shape ==
    /\ pc \in [Caller -> {"idle", "parse", "write", "select", "insert"}]
    /\ DOMAIN mine = Caller /\ DOMAIN rows = Caller /\ DOMAIN batch = Caller

\* An item has one last writer: the one that must link it, or none when it is linked.
OneWriter ==
    /\ \A p, q \in Caller : p # q => mine[p] \cap mine[q] = {}
    /\ \A p \in Caller : mine[p] \cap linked = {}

\* The edge of two such items is stored, or one of their writers still has it to insert.
Promised(x, y) ==
    \/ Edge(x, y) \in edges
    \/ \E p \in Caller : /\ Linking(p) /\ Edge(x, y) \in rows[p]
                         /\ (x.id \in mine[p] \/ y.id \in mine[p])
EdgesArePromised ==
    ~truncated => \A x, y \in items :
        (x.seed # "" /\ Joined(x, y) /\ PastSelect(x.id) /\ PastSelect(y.id)) => Promised(x, y)

LinkInv == Shape /\ OneWriter /\ EdgesArePromised

\* Every process begins idle and nothing is stored.
LEMMA InitLinkInv == RegistryInit => LinkInv
BY DEF RegistryInit, LinkInv, Shape, OneWriter, EdgesArePromised

\* What leaves pc = "insert", the tables and the history alone keeps the invariant.
LEMMA QuietStep ==
    ASSUME LinkInv, Shape', UNCHANGED <<items, edges, rows, mine, linked, truncated>>,
           \A p \in Caller : Linking(p)' <=> Linking(p)
    PROVE  LinkInv'
<1>1. OneWriter'
  BY DEF LinkInv, OneWriter
<1>2. \A i : PastSelect(i)' => PastSelect(i)
  BY DEF PastSelect
<1>3. \A x, y : Promised(x, y) => Promised(x, y)'
  BY DEF Promised, Edge
<1>4. EdgesArePromised'
  BY <1>2, <1>3 DEF LinkInv, EdgesArePromised, Joined
<1> QED
  BY <1>1, <1>4 DEF LinkInv

\* A write makes the written items their writer's, and takes them from whoever had them.
LEMMA WriteKeeps ==
    ASSUME LinkInv, NEW p \in Caller, WriteBatch(p)
    PROVE  LinkInv'
<1> DEFINE N == Written(batch[p])
<1>1. Shape'
  BY DEF LinkInv, Shape, WriteBatch
<1>2. /\ mine' = [q \in Caller |-> IF q = p THEN mine[q] \cup N ELSE mine[q] \ N]
      /\ linked' = linked \ N
      /\ UNCHANGED <<edges, rows, truncated>>
  BY DEF WriteBatch
<1>3. OneWriter'
  BY <1>2 DEF LinkInv, OneWriter
<1>4. \A q \in Caller : Linking(q)' <=> (Linking(q) /\ q # p)
  BY DEF LinkInv, Shape, WriteBatch, Linking
<1>5. ~Linking(p)
  BY DEF WriteBatch, Linking
<1>6. \A x \in items' : PastSelect(x.id)' => x \in items /\ x.id \notin N /\ PastSelect(x.id)
  <2> SUFFICES ASSUME NEW x \in items', PastSelect(x.id)'
               PROVE  x \in items /\ x.id \notin N /\ PastSelect(x.id)
    OBVIOUS
  <2>1. x.id \notin N /\ PastSelect(x.id)
    BY <1>2, <1>4 DEF PastSelect
  <2>2. items' = { z \in items : z.id \notin N } \cup { a.item : a \in batch[p] }
    BY DEF WriteBatch, UpsertItems
  <2>3. \A a \in batch[p] : a.item.id \in N
    BY DEF Written
  <2> QED
    BY <2>1, <2>2, <2>3
<1>7. EdgesArePromised'
  <2> SUFFICES ASSUME ~truncated, NEW x \in items', NEW y \in items', x.seed # "", Joined(x, y),
                      PastSelect(x.id)', PastSelect(y.id)'
               PROVE  Promised(x, y)'
    BY <1>2 DEF EdgesArePromised, Joined
  <2>1. /\ x \in items /\ x.id \notin N /\ PastSelect(x.id)
        /\ y \in items /\ y.id \notin N /\ PastSelect(y.id)
    BY <1>6
  <2>2. Promised(x, y)
    BY <2>1 DEF LinkInv, EdgesArePromised
  <2> QED
    BY <2>1, <2>2, <1>2, <1>4, <1>5 DEF Promised, Edge
<1> QED
  BY <1>1, <1>3, <1>7 DEF LinkInv

\* A select that the LIMIT does not cut sees every item there is, so the edges of the
\* writer's own items are in its rows.
LEMMA SelectKeeps ==
    ASSUME LinkInv, NEW p \in Caller, LinkSelect(p)
    PROVE  LinkInv'
<1>1. Shape'
  BY DEF LinkInv, Shape, LinkSelect
<1>2. OneWriter'
  BY DEF LinkInv, OneWriter, LinkSelect
<1>3. CASE truncated'
  BY <1>1, <1>2, <1>3 DEF LinkInv, EdgesArePromised
<1>4. CASE ~truncated'
  <2>1. /\ rows' = [rows EXCEPT ![p] = EdgeRows(Seeded)] /\ ~truncated
        /\ UNCHANGED <<items, edges, mine, linked>>
    BY <1>4 DEF LinkSelect, tables
  <2>2. \A q \in Caller : Linking(q)' <=> (Linking(q) \/ q = p)
    BY DEF LinkInv, Shape, LinkSelect, Linking
  <2>3. ~Linking(p)
    BY DEF LinkSelect, Linking
  <2>4. ASSUME NEW x \in items, NEW y \in items, x.seed # "", Joined(x, y),
               PastSelect(x.id)', PastSelect(y.id)'
        PROVE  Promised(x, y)'
    <3>1. CASE x.id \in mine[p] \/ y.id \in mine[p]
      <4>1. x \in Seeded /\ y \in Seeded
        BY <2>4 DEF Seeded, Joined
      <4>2. Edge(x, y) \in EdgeRows(Seeded)
        <5>1. <<x, y>> \in { w \in Seeded \X Seeded : Joined(w[1], w[2]) }
          BY <4>1, <2>4
        <5> QED
          BY <5>1 DEF EdgeRows
      <4>3. Edge(x, y) \in rows'[p]
        BY <4>2, <2>1 DEF LinkInv, Shape
      <4> QED
        BY <4>3, <3>1, <2>1, <2>2 DEF Promised, Edge
    <3>2. CASE x.id \notin mine[p] /\ y.id \notin mine[p]
      <4>1. PastSelect(x.id) /\ PastSelect(y.id)
        BY <3>2, <2>1, <2>2, <2>4 DEF PastSelect
      <4>2. Promised(x, y)
        BY <4>1, <2>1, <2>4 DEF LinkInv, EdgesArePromised
      <4>3. \A q \in Caller : q # p => rows'[q] = rows[q]
        BY <2>1 DEF LinkInv, Shape
      <4> QED
        BY <4>2, <4>3, <2>1, <2>2, <2>3 DEF Promised, Edge
    <3> QED
      BY <3>1, <3>2
  <2>5. EdgesArePromised'
    BY <2>1, <2>4 DEF EdgesArePromised, Joined
  <2> QED
    BY <1>1, <1>2, <2>5 DEF LinkInv
<1> QED
  BY <1>3, <1>4

\* An inserted row moves from the rows still to insert to the stored edges.
LEMMA InsertKeeps ==
    ASSUME LinkInv, NEW p \in Caller, LinkInsert(p)
    PROVE  LinkInv'
<1>1. PICK e \in rows[p] : edges' = edges \cup {e} /\ rows' = [rows EXCEPT ![p] = @ \ {e}]
  BY DEF LinkInsert
<1>2. UNCHANGED <<items, pc, batch, mine, linked, truncated>>
  BY DEF LinkInsert
<1>3. Shape' /\ OneWriter'
  BY <1>1, <1>2 DEF LinkInv, Shape, OneWriter
<1>4. \A x, y : Promised(x, y) => Promised(x, y)'
  <2> SUFFICES ASSUME NEW x, NEW y, Promised(x, y) PROVE Promised(x, y)'
    OBVIOUS
  <2>1. CASE Edge(x, y) \in edges
    BY <2>1, <1>1 DEF Promised, Edge
  <2>2. CASE Edge(x, y) = e
    BY <2>2, <1>1 DEF Promised, Edge
  <2>3. CASE Edge(x, y) \notin edges /\ Edge(x, y) # e
    <3>1. PICK q \in Caller : /\ Linking(q) /\ Edge(x, y) \in rows[q]
                              /\ (x.id \in mine[q] \/ y.id \in mine[q])
      BY <2>3 DEF Promised
    <3>2. Edge(x, y) \in rows'[q]
      BY <3>1, <2>3, <1>1 DEF LinkInv, Shape
    <3> QED
      BY <3>1, <3>2, <1>2 DEF Promised, Edge, Linking
  <2> QED
    BY <2>1, <2>2, <2>3
<1>5. EdgesArePromised'
  BY <1>2, <1>4 DEF LinkInv, EdgesArePromised, PastSelect, Linking, Joined
<1> QED
  BY <1>3, <1>5 DEF LinkInv

\* A call that ends well has no row left: what it promised is stored.
LEMMA DoneKeeps ==
    ASSUME LinkInv, NEW p \in Caller, LinkDone(p)
    PROVE  LinkInv'
<1>1. /\ rows[p] = {} /\ linked' = linked \cup mine[p] /\ mine' = [mine EXCEPT ![p] = {}]
      /\ UNCHANGED <<items, edges, rows, batch, truncated>> /\ Linking(p)
  BY DEF LinkDone, tables, Linking
<1>2. Shape'
  BY DEF LinkInv, Shape, LinkDone
<1>3. mine'[p] = {} /\ \A q \in Caller : q # p => mine'[q] = mine[q]
  BY <1>1 DEF LinkInv, Shape
<1>4. OneWriter'
  <2>1. \A q, r \in Caller : q # r => mine'[q] \cap mine'[r] = {}
    BY <1>3 DEF LinkInv, OneWriter
  <2>2. \A q \in Caller : mine'[q] \cap linked' = {}
    BY <1>1, <1>3 DEF LinkInv, OneWriter
  <2> QED
    BY <2>1, <2>2 DEF OneWriter
<1>5. \A q \in Caller : Linking(q)' <=> (Linking(q) /\ q # p)
  BY DEF LinkInv, Shape, LinkDone, Linking
<1>6. \A i : PastSelect(i)' => PastSelect(i)
  BY <1>1, <1>3, <1>5 DEF PastSelect
<1>7. \A x, y : Promised(x, y) => Promised(x, y)'
  BY <1>1, <1>3, <1>5 DEF Promised, Edge
<1>8. EdgesArePromised'
  BY <1>1, <1>6, <1>7 DEF LinkInv, EdgesArePromised, Joined
<1> QED
  BY <1>2, <1>4, <1>8 DEF LinkInv

\* A call that fails gives up its items: nobody relies on the rows it dropped.
LEMMA FailKeeps ==
    ASSUME LinkInv, NEW p \in Caller, Fail(p)
    PROVE  LinkInv'
<1>1. /\ rows' = [rows EXCEPT ![p] = {}] /\ mine' = [mine EXCEPT ![p] = {}]
      /\ UNCHANGED <<items, edges, linked, truncated>>
  BY DEF Fail, tables
<1>2. Shape'
  BY DEF LinkInv, Shape, Fail
<1>3. /\ mine'[p] = {} /\ \A q \in Caller : q # p => mine'[q] = mine[q]
      /\ \A q \in Caller : q # p => rows'[q] = rows[q]
  BY <1>1 DEF LinkInv, Shape
<1>4. OneWriter'
  BY <1>1, <1>3 DEF LinkInv, OneWriter
<1>5. \A q \in Caller : Linking(q)' <=> (Linking(q) /\ q # p)
  BY DEF LinkInv, Shape, Fail, Linking
<1>6. \A i : PastSelect(i)' => PastSelect(i) /\ i \notin mine[p]
  BY <1>1, <1>3, <1>5 DEF LinkInv, OneWriter, PastSelect
<1>7. \A x, y : Promised(x, y) /\ x.id \notin mine[p] /\ y.id \notin mine[p] => Promised(x, y)'
  BY <1>1, <1>3, <1>5 DEF Promised, Edge
<1>8. EdgesArePromised'
  BY <1>1, <1>6, <1>7 DEF LinkInv, EdgesArePromised, Joined
<1> QED
  BY <1>2, <1>4, <1>8 DEF LinkInv

LEMMA NextLinkInv == LinkInv /\ [RegistryNext]_registryVars => LinkInv'
<1> SUFFICES ASSUME LinkInv, [RegistryNext]_registryVars PROVE LinkInv'
  OBVIOUS
<1>1. CASE EditRuns
  BY <1>1, QuietStep DEF EditRuns, LinkInv, Shape, Linking, tables
<1>2. ASSUME NEW p \in Caller, CatalogRuns(p) PROVE LinkInv'
  BY <1>2, QuietStep DEF CatalogRuns, LinkInv, Shape, Linking, tables
<1>3. ASSUME NEW p \in Caller, ParseNext(p) PROVE LinkInv'
  <2>1. /\ UNCHANGED <<items, edges, rows, mine, linked, truncated>> /\ DOMAIN batch' = Caller
        /\ pc[p] = "parse"
        /\ \/ pc' = [pc EXCEPT ![p] = "write"] \/ pc' = [pc EXCEPT ![p] = "parse"]
    BY <1>3 DEF ParseNext, tables, LinkInv, Shape
  <2>2. Shape' /\ \A q \in Caller : Linking(q)' <=> Linking(q)
    BY <2>1 DEF LinkInv, Shape, Linking
  <2> QED
    BY <2>1, <2>2, QuietStep
<1>4. ASSUME NEW p \in Caller, RecordPayload(p) PROVE LinkInv'
  BY <1>4, QuietStep DEF RecordPayload, LinkInv, Shape, Linking, tables
<1>5. ASSUME NEW p \in Caller, WriteBatch(p) PROVE LinkInv'
  BY <1>5, WriteKeeps
<1>6. ASSUME NEW p \in Caller, LinkSelect(p) PROVE LinkInv'
  BY <1>6, SelectKeeps
<1>7. ASSUME NEW p \in Caller, LinkInsert(p) PROVE LinkInv'
  BY <1>7, InsertKeeps
<1>8. ASSUME NEW p \in Caller, LinkDone(p) PROVE LinkInv'
  BY <1>8, DoneKeeps
<1>9. ASSUME NEW p \in Caller, Fail(p) PROVE LinkInv'
  BY <1>9, FailKeeps
<1>10. CASE UNCHANGED registryVars
  BY <1>10, QuietStep DEF registryVars, tables, LinkInv, Shape, Linking
<1> QED
  BY <1>1, <1>2, <1>3, <1>4, <1>5, <1>6, <1>7, <1>8, <1>9, <1>10 DEF RegistryNext

\* Who promises the edge of two linked items has none of them: the edge is stored.
LEMMA LinkInvImplies == LinkInv => FinishedWorkIsLinked
BY DEF LinkInv, OneWriter, EdgesArePromised, PastSelect, Promised, FinishedWorkIsLinked, Done

\* Two items whose writers ended well are linked if they have to be (the registry's
\* link_related_items against upsert_items_batch of other processes).
THEOREM FinishedWorkIsLinkedHolds == RegistrySpec => []FinishedWorkIsLinked
<1>1. RegistryInit => LinkInv
  BY InitLinkInv
<1>2. LinkInv /\ [RegistryNext]_registryVars => LinkInv'
  BY NextLinkInv
<1>3. LinkInv => FinishedWorkIsLinked
  BY LinkInvImplies
<1> QED
  BY <1>1, <1>2, <1>3, PTL DEF RegistrySpec

-----------------------------------------------------------------------------
(* What is stored is what the artefacts say.                               *)

\* What an item is made from: an artefact of the runs directory or a recorded payload,
\* with the type and the caller's seed that belong to it.
Source(id, type, given) ==
    \/ \E path \in Path, v \in Digests :
          /\ id = ItemId("runs", path, v)
          /\ type = ArtifactType(path, PayloadOf[v]) /\ given = ""
    \/ \E r \in Recordings :
          /\ id = ItemId("record", r.path, r.digest) /\ type = r.type /\ given = r.seed

\* The seeds it may be given, one by each reading.
PossibleSeeds(id, type, given) ==
    { Named(s, given) : s \in SummarySeeds(type, PayloadOf[id.digest], given) }

ReadFrom(a, given) == /\ Source(a.item.id, a.item.type, given)
                      /\ a \in Parsed(a.item.id, a.item.type, given)
Genuine(a) == \E given : ReadFrom(a, given)
GenuineItem(x) == \E a : Genuine(a) /\ a.item = x

OneEach(s) == \A a, b \in s : a.item.id = b.item.id => a = b

\* Two items an edge joins, whatever seeds they were given last.
Joins(e, x, y) ==
    /\ e = Edge(x, y) /\ x.id # y.id
    /\ x.type = "task_packet" /\ SeedsOf(x) \cap SeedsOf(y) # {}
JoinsItems(e) == \E x, y \in items : Joins(e, x, y)

\* The paths a call still has to read.
Left(p) == { Listing[i] : i \in UNION todo[p] }

CallsShape ==
    /\ runs \in [Path -> Digests \cup {Absent}]
    /\ pc \in [Caller -> {"idle", "parse", "write", "select", "insert"}]
    /\ DOMAIN todo = Caller /\ DOMAIN batch = Caller /\ DOMAIN rows = Caller
    /\ listed \in [Caller -> SUBSET Path]
    /\ mine \in [Caller -> SUBSET Ids] /\ linked \subseteq Ids
    /\ \A p \in Caller : /\ pc[p] \in {"idle", "select", "insert"} => todo[p] = {} /\ batch[p] = {}
                         /\ pc[p] = "idle" => listed[p] = {}
                         /\ rows[p] # {} => pc[p] = "insert"

\* The chunks are disjoint, and what is parsed is no more in them.
ChunksOK ==
    \A p \in Caller :
        /\ \A c \in todo[p] : c \subseteq DOMAIN Listing
        /\ \A c, d \in todo[p] : c \cap d # {} => c = d
        /\ pc[p] = "parse" => \A a \in batch[p] : /\ a.item.id.from = "runs"
                                                  /\ a.item.id.path \notin Left(p)

BatchesOK == \A p \in Caller : OneEach(batch[p]) /\ \A a \in batch[p] : Genuine(a)

ItemsOK == /\ \A x \in items : GenuineItem(x)
           /\ \A x, y \in items : x.id = y.id => x = y
           /\ ObservationsMatchItems

EdgesOK == /\ \A e \in edges : JoinsItems(e)
           /\ \A p \in Caller : \A e \in rows[p] : JoinsItems(e)

\* What a call listed and nobody changed since is still to read, parsed or stored.
ListedOK ==
    \A p \in Caller : \A path \in listed[p] : ParseArtifact(path, runs[path]) # {} =>
        \/ path \in Left(p)
        \/ \E a \in batch[p] : a.item.id = ItemId("runs", path, runs[path])
        \/ \E x \in items : x.id = ItemId("runs", path, runs[path])

RowsInv == CallsShape /\ ChunksOK /\ BatchesOK /\ ItemsOK /\ EdgesOK /\ ListedOK

-----------------------------------------------------------------------------
(* Items and what they are made from.                                      *)

\* One item is made from one thing.
LEMMA SourceIsOne ==
    ASSUME NEW id, NEW t, NEW u, NEW g, NEW h, Source(id, t, g), Source(id, u, h)
    PROVE  t = u /\ g = h /\ id \in Ids
<1>1. ASSUME NEW path \in Path, NEW v \in Digests,
             id = ItemId("runs", path, v)
      PROVE  /\ t = ArtifactType(path, PayloadOf[v]) /\ g = ""
             /\ u = ArtifactType(path, PayloadOf[v]) /\ h = ""
             /\ id \in Ids
  <2>1. id.from = "runs" /\ id.path = path /\ id.digest = v
    BY <1>1 DEF ItemId
  <2>2. \A x, y : ItemId("record", x, y).from = "record"
    BY DEF ItemId
  <2>3. \A x, y : ItemId("runs", x, y).path = x /\ ItemId("runs", x, y).digest = y
    BY DEF ItemId
  <2>4. \A x, y : id # ItemId("record", x, y)
    BY <2>1, <2>2
  <2>5. ASSUME NEW w, NEW k, Source(id, w, k)
        PROVE  w = ArtifactType(path, PayloadOf[v]) /\ k = ""
    <3>1. PICK q \in Path, z \in Digests :
            /\ id = ItemId("runs", q, z)
            /\ w = ArtifactType(q, PayloadOf[z]) /\ k = ""
      BY <2>4, <2>5 DEF Source
    <3>2. q = path /\ z = v
      BY <2>1, <2>3, <3>1
    <3> QED
      BY <3>1, <3>2
  <2>6. id \in Ids
    BY <1>1 DEF Ids
  <2>7. t = ArtifactType(path, PayloadOf[v]) /\ g = ""
    BY <2>5
  <2>8. u = ArtifactType(path, PayloadOf[v]) /\ h = ""
    BY <2>5
  <2> QED
    BY <2>6, <2>7, <2>8
<1>2. ASSUME NEW r \in Recordings, id = ItemId("record", r.path, r.digest)
      PROVE  t = r.type /\ g = r.seed /\ u = r.type /\ h = r.seed /\ id \in Ids
  <2>1. id.from = "record" /\ id.path = r.path /\ id.digest = r.digest
    BY <1>2 DEF ItemId
  <2>2. \A x, y : ItemId("runs", x, y).from = "runs"
    BY DEF ItemId
  <2>3. \A x, y : ItemId("record", x, y).path = x /\ ItemId("record", x, y).digest = y
    BY DEF ItemId
  <2>4. \A x, y : id # ItemId("runs", x, y)
    BY <2>1, <2>2
  <2>5. ASSUME NEW w, NEW k, Source(id, w, k)
        PROVE  w = r.type /\ k = r.seed
    <3>1. PICK s \in Recordings :
            id = ItemId("record", s.path, s.digest) /\ w = s.type /\ k = s.seed
      BY <2>4, <2>5 DEF Source
    <3>2. s.path = r.path /\ s.digest = r.digest
      BY <2>1, <2>3, <3>1
    <3> QED
      BY <3>1, <3>2, RecordingsAssumption
  <2>6. id \in Ids
    BY <1>2 DEF Ids
  <2> QED
    BY <2>5, <2>6
<1> QED
  BY <1>1, <1>2 DEF Source

\* What parsing makes of it.
LEMMA ParsedFacts ==
    ASSUME NEW id, NEW t, NEW g, NEW a \in Parsed(id, t, g)
    PROVE  /\ a.item.id = id /\ a.item.type = t
           /\ a.phrases = PhraseObservations(t, PayloadOf[id.digest])
           /\ a.seeds \in {<<>>, SeedObservations(a.item.seed)}
           /\ a.item.seed \in PossibleSeeds(id, t, g)
<1>1. PICK s \in SummarySeeds(t, PayloadOf[id.digest], g) :
        a = [item |-> [id |-> id, type |-> t, seed |-> Named(s, g)],
             phrases |-> PhraseObservations(t, PayloadOf[id.digest]),
             seeds |-> SeedObservations(s)]
  BY DEF Parsed
<1>2. /\ a.item = [id |-> id, type |-> t, seed |-> Named(s, g)]
      /\ a.phrases = PhraseObservations(t, PayloadOf[id.digest])
      /\ a.seeds = SeedObservations(s)
  BY <1>1
<1>3. Named(s, g) \in PossibleSeeds(id, t, g)
  BY DEF PossibleSeeds
<1>4. SeedObservations(s) \in {<<>>, SeedObservations(Named(s, g))}
  BY DEF SeedObservations, Named
<1>5. a.item.id = id /\ a.item.type = t /\ a.item.seed = Named(s, g)
  BY <1>2
<1> QED
  BY <1>2, <1>3, <1>4, <1>5

\* A reading gives an item one of the seeds that any reading may give it.
LEMMA SeedsAreStable ==
    ASSUME NEW x, NEW g, Source(x.id, x.type, g), x.seed \in PossibleSeeds(x.id, x.type, g)
    PROVE  SeedsOf(x) = PossibleSeeds(x.id, x.type, g)
<1> DEFINE c == PayloadOf[x.id.digest]
           own == c.form = "text" \/ (c.form = "object" /\ x.type \in OwnSeed)
<1>1. "" \notin c.seeds
  BY SourceIsOne, SeedsAssumption
<1>2. SeedsOf(x) = { Named(s, x.seed) : s \in SummarySeeds(x.type, c, x.seed) }
  <2>1. \A a \in Parsed(x.id, x.type, x.seed) :
            \E s \in SummarySeeds(x.type, c, x.seed) : a.item.seed = Named(s, x.seed)
    <3> TAKE a \in Parsed(x.id, x.type, x.seed)
    <3>1. PICK s \in SummarySeeds(x.type, c, x.seed) :
            a = [item |-> [id |-> x.id, type |-> x.type,
                           seed |-> Named(s, x.seed)],
                 phrases |-> PhraseObservations(x.type, c), seeds |-> SeedObservations(s)]
      BY DEF Parsed
    <3>2. a.item = [id |-> x.id, type |-> x.type, seed |-> Named(s, x.seed)]
      BY <3>1
    <3>3. a.item.seed = Named(s, x.seed)
      BY <3>2
    <3> QED
      BY <3>3
  <2>2. \A s \in SummarySeeds(x.type, c, x.seed) :
            \E a \in Parsed(x.id, x.type, x.seed) : a.item.seed = Named(s, x.seed)
    <3> TAKE s \in SummarySeeds(x.type, c, x.seed)
    <3> DEFINE a == [item |-> [id |-> x.id, type |-> x.type,
                               seed |-> Named(s, x.seed)],
                     phrases |-> PhraseObservations(x.type, c),
                     seeds |-> SeedObservations(s)]
    <3>1. a \in Parsed(x.id, x.type, x.seed)
      BY Zenon DEF Parsed
    <3>2. a.item.seed = Named(s, x.seed)
      OBVIOUS
    <3> QED
      BY <3>1, <3>2
  <2>3. SeedsOf(x) = { a.item.seed : a \in Parsed(x.id, x.type, x.seed) }
    BY DEF SeedsOf
  <2>4. \A z : z \in SeedsOf(x) <=> \E a \in Parsed(x.id, x.type, x.seed) : z = a.item.seed
    BY <2>3
  <2> DEFINE found == { Named(s, x.seed) : s \in SummarySeeds(x.type, c, x.seed) }
  <2>5. \A z : z \in found <=> \E s \in SummarySeeds(x.type, c, x.seed) :
                                    z = Named(s, x.seed)
    OBVIOUS
  <2> HIDE DEF found
  <2>6. ASSUME NEW z \in SeedsOf(x) PROVE z \in found
    <3>1. PICK a \in Parsed(x.id, x.type, x.seed) : z = a.item.seed
      BY <2>4
    <3> QED
      BY <2>1, <2>5, <3>1
  <2>7. ASSUME NEW z \in found PROVE z \in SeedsOf(x)
    <3>1. PICK s \in SummarySeeds(x.type, c, x.seed) : z = Named(s, x.seed)
      BY <2>5
    <3>2. PICK a \in Parsed(x.id, x.type, x.seed) : a.item.seed = Named(s, x.seed)
      BY <2>2
    <3> QED
      BY <2>4, <3>1, <3>2
  <2>8. SeedsOf(x) = found
    BY <2>6, <2>7
  <2> QED
    BY <2>8 DEF found
<1>3. CASE own /\ c.seeds # {}
  BY <1>1, <1>2, <1>3 DEF SummarySeeds, PossibleSeeds, Named
<1>4. CASE own /\ c.seeds = {}
  BY <1>2, <1>4 DEF SummarySeeds, PossibleSeeds, Named
<1>5. CASE ~own
  BY <1>2, <1>5 DEF SummarySeeds, PossibleSeeds, Named
<1> QED
  BY <1>3, <1>4, <1>5

LEMMA GenuineFacts ==
    ASSUME NEW a, Genuine(a)
    PROVE  /\ GenuineItem(a.item) /\ a.item.id \in Ids
           /\ a.phrases = PhraseObservations(a.item.type, PayloadOf[a.item.id.digest])
           /\ a.seeds \in {<<>>, SeedObservations(a.item.seed)}
<1>1. PICK g : ReadFrom(a, g)
  BY DEF Genuine
<1> QED
  BY <1>1, SourceIsOne, ParsedFacts DEF ReadFrom, GenuineItem

\* Two readings of one thing differ at most in the seed, and not in what that may be.
LEMMA ReadingsAgree ==
    ASSUME NEW x, NEW y, GenuineItem(x), GenuineItem(y), x.id = y.id
    PROVE  x.type = y.type /\ SeedsOf(x) = SeedsOf(y)
<1>1. PICK a, g : ReadFrom(a, g) /\ a.item = x
  BY DEF GenuineItem, Genuine
<1>2. PICK b, h : ReadFrom(b, h) /\ b.item = y
  BY DEF GenuineItem, Genuine
<1>3. x.type = y.type /\ g = h
  BY <1>1, <1>2, SourceIsOne DEF ReadFrom
<1>4. SeedsOf(x) = PossibleSeeds(x.id, x.type, g)
  BY <1>1, ParsedFacts, SeedsAreStable DEF ReadFrom
<1>5. SeedsOf(y) = PossibleSeeds(y.id, y.type, h)
  BY <1>2, ParsedFacts, SeedsAreStable DEF ReadFrom
<1> QED
  BY <1>3, <1>4, <1>5

\* An item has the seed it was given.
LEMMA SeedIsPossible ==
    ASSUME NEW x, GenuineItem(x)
    PROVE  x.seed \in SeedsOf(x) /\ x.id \in Ids
<1>1. PICK a, g : ReadFrom(a, g) /\ a.item = x
  BY DEF GenuineItem, Genuine
<1>2. Source(x.id, x.type, g) /\ x.seed \in PossibleSeeds(x.id, x.type, g)
  BY <1>1, ParsedFacts DEF ReadFrom
<1>3. SeedsOf(x) = PossibleSeeds(x.id, x.type, g)
  BY <1>2, SeedsAreStable
<1>4. x.id \in Ids
  BY <1>2, SourceIsOne
<1> QED
  BY <1>2, <1>3, <1>4

LEMMA ParseArtifactFacts ==
    ASSUME NEW path \in Path, NEW v \in Digests \cup {Absent},
           NEW a \in ParseArtifact(path, v)
    PROVE  /\ Genuine(a)
           /\ a.item.id = ItemId("runs", path, v)
           /\ a.item.id.from = "runs" /\ a.item.id.path = path
<1> DEFINE id == ItemId("runs", path, v)
           t == ArtifactType(path, PayloadOf[v])
<1>1. v # Absent
  BY DEF ParseArtifact
<1>2. a \in Parsed(id, t, "")
  BY DEF ParseArtifact
<1>3. Source(id, t, "")
  BY <1>1 DEF Source
<1> HIDE DEF id, t
<1>4. a.item.id = id /\ a.item.type = t
  <2>1. \A g : a \in Parsed(id, t, g) => a.item.id = id /\ a.item.type = t
    BY ParsedFacts
  <2> QED
    BY <1>2, <2>1
<1>5. ReadFrom(a, "")
  BY <1>2, <1>3, <1>4 DEF ReadFrom
<1>6. id.from = "runs" /\ id.path = path
  BY DEF ItemId, id
<1> QED
  BY <1>4, <1>5, <1>6 DEF Genuine, id

LEMMA PayloadToRecordFacts ==
    ASSUME NEW r \in Recordings, NEW a \in PayloadToRecord(r)
    PROVE  Genuine(a)
<1> DEFINE id == ItemId("record", r.path, r.digest)
<1>1. a \in Parsed(id, r.type, r.seed)
  BY DEF PayloadToRecord
<1>2. Source(id, r.type, r.seed)
  BY DEF Source
<1>3. a.item.id = id /\ a.item.type = r.type
  BY <1>1, ParsedFacts
<1> QED
  BY <1>1, <1>2, <1>3 DEF Genuine, ReadFrom

\* The chunks of a listing.
LEMMA ChunksFacts ==
    ASSUME NEW places
    PROVE  /\ UNION Chunks(places) = places
           /\ \A c, d \in Chunks(places) : c \cap d # {} => c = d
<1> DEFINE f(i) == (Cardinality({ j \in places : j <= i }) - 1) \div ChunkSize
           chunk(k) == { i \in places : f(i) = f(k) }
<1>1. Chunks(places) = { chunk(k) : k \in places }
  BY DEF Chunks
<1> HIDE DEF f
<1>2. \A k \in places : k \in chunk(k) /\ chunk(k) \subseteq places
  OBVIOUS
<1>3. UNION Chunks(places) = places
  BY <1>1, <1>2
<1>4. ASSUME NEW c \in Chunks(places), NEW d \in Chunks(places), c \cap d # {}
      PROVE  c = d
  <2>1. PICK k \in places : c = chunk(k)
    BY <1>1
  <2>2. PICK l \in places : d = chunk(l)
    BY <1>1
  <2>3. PICK i : i \in c /\ i \in d
    BY <1>4
  <2>4. f(i) = f(k) /\ f(i) = f(l)
    BY <2>1, <2>2, <2>3
  <2> QED
    BY <2>1, <2>2, <2>4
<1> QED
  BY <1>3, <1>4

\* An edge stays right when the items it joins are read again.
LEMMA JoinsIsKept ==
    ASSUME NEW e, JoinsItems(e),
           \A x \in items : \E z \in items' : z.id = x.id /\ z.type = x.type
                                              /\ SeedsOf(z) = SeedsOf(x)
    PROVE  JoinsItems(e)'
<1>1. PICK x \in items, y \in items : Joins(e, x, y)
  BY DEF JoinsItems
<1>2. PICK z \in items' : z.id = x.id /\ z.type = x.type /\ SeedsOf(z) = SeedsOf(x)
  OBVIOUS
<1>3. PICK w \in items' : w.id = y.id /\ w.type = y.type /\ SeedsOf(w) = SeedsOf(y)
  OBVIOUS
<1>4. Joins(e, z, w)
  BY <1>1, <1>2, <1>3 DEF Joins, Edge
<1> QED
  BY <1>4 DEF JoinsItems, Joins, Edge, SeedsOf, Parsed

-----------------------------------------------------------------------------
(* Each step keeps the invariant of the rows.                              *)

\* A step that writes to no table and takes no item from a batch.
LEMMA TablesAlone ==
    ASSUME RowsInv, UNCHANGED <<items, phrases, seeds, edges>>
    PROVE  ItemsOK' /\ \A e : JoinsItems(e)' <=> JoinsItems(e)
BY DEF RowsInv, ItemsOK, ObservationsMatchItems, JoinsItems

LEMMA EditRunsRows ==
    ASSUME RowsInv, EditRuns
    PROVE  RowsInv'
<1> USE DEF RowsInv
<1>1. PICK path \in Path : \E v \in Versions[path] \cup {Absent} :
        /\ runs' = [runs EXCEPT ![path] = v]
        /\ listed' = [p \in Caller |-> listed[p] \ {path}]
  BY DEF EditRuns
<1>2. PICK v \in Versions[path] \cup {Absent} : runs' = [runs EXCEPT ![path] = v]
  BY <1>1
<1>3. UNCHANGED <<items, phrases, seeds, edges, pc, todo, batch, rows, mine, linked>>
  BY DEF EditRuns, tables
<1>4. CallsShape'
  <2>1. runs' \in [Path -> Digests \cup {Absent}]
    <3>1. /\ runs \in [Path -> Digests \cup {Absent}]
          /\ v \in Digests \cup {Absent}
      BY DEF CallsShape, Digests
    <3> QED
      BY <1>2, <3>1
  <2>2. listed' \in [Caller -> SUBSET Path]
        /\ \A p \in Caller : listed[p] = {} => listed'[p] = {}
    BY <1>1 DEF CallsShape
  <2> QED
    BY <1>3, <2>1, <2>2 DEF CallsShape
<1>5. ChunksOK' /\ BatchesOK'
  BY <1>3 DEF ChunksOK, BatchesOK, Left, OneEach, Genuine, ReadFrom
<1>6. ItemsOK' /\ EdgesOK'
  BY <1>3, TablesAlone DEF EdgesOK
<1>7. ListedOK'
  <2> SUFFICES ASSUME NEW p \in Caller, NEW other \in listed'[p],
                      ParseArtifact(other, runs'[other]) # {}
               PROVE  \/ other \in Left(p)'
                      \/ \E a \in batch'[p] : a.item.id = ItemId("runs", other, runs'[other])
                      \/ \E x \in items' : x.id = ItemId("runs", other, runs'[other])
    BY DEF ListedOK
  <2>1. other \in listed[p] /\ other # path
    BY <1>1
  <2>2. runs'[other] = runs[other]
    BY <1>2, <2>1 DEF CallsShape
  <2> QED
    BY <1>3, <2>1, <2>2 DEF ListedOK, Left
<1> QED
  BY <1>4, <1>5, <1>6, <1>7

LEMMA CatalogRunsRows ==
    ASSUME RowsInv, NEW p \in Caller, CatalogRuns(p)
    PROVE  RowsInv'
<1> USE DEF RowsInv
<1> DEFINE places == { i \in DOMAIN Listing : runs[Listing[i]] # Absent }
           found == Chunks(places)
<1>1. /\ pc[p] = "idle"
      /\ todo' = [todo EXCEPT ![p] = found]
      /\ pc' = [pc EXCEPT ![p] = IF found = {} THEN "select" ELSE "parse"]
      /\ listed' = [listed EXCEPT ![p] = { path \in Path : runs[path] # Absent }]
      /\ UNCHANGED <<runs, items, phrases, seeds, edges, batch, rows, mine, linked>>
  BY DEF CatalogRuns, tables
<1>2. /\ UNION found = places
      /\ \A c, d \in found : c \cap d # {} => c = d
  BY ChunksFacts
<1> HIDE DEF found
<1>3. /\ todo'[p] = found /\ \A q \in Caller \ {p} : todo'[q] = todo[q]
      /\ pc'[p] = IF found = {} THEN "select" ELSE "parse"
      /\ \A q \in Caller \ {p} : pc'[q] = pc[q]
      /\ listed'[p] = { path \in Path : runs[path] # Absent }
      /\ \A q \in Caller \ {p} : listed'[q] = listed[q]
      /\ batch[p] = {} /\ rows[p] = {}
  BY <1>1 DEF CallsShape
<1>4. CallsShape'
  <2>1. /\ pc' \in [Caller -> {"idle", "parse", "write", "select", "insert"}]
        /\ DOMAIN todo' = Caller /\ listed' \in [Caller -> SUBSET Path]
    BY <1>1 DEF CallsShape
  <2> QED
    BY <1>1, <1>3, <2>1 DEF CallsShape
<1>5. ChunksOK'
  <2>1. \A c \in found : c \subseteq DOMAIN Listing
    BY <1>2
  <2> QED
    BY <1>1, <1>2, <1>3, <2>1 DEF ChunksOK, Left
<1>6. BatchesOK'
  BY <1>1 DEF BatchesOK, OneEach, Genuine, ReadFrom
<1>7. ItemsOK' /\ EdgesOK'
  BY <1>1, TablesAlone DEF EdgesOK
<1>8. ListedOK'
  <2> SUFFICES ASSUME NEW q \in Caller, NEW path \in listed'[q],
                      ParseArtifact(path, runs[path]) # {}
               PROVE  \/ path \in Left(q)'
                      \/ \E a \in batch[q] : a.item.id = ItemId("runs", path, runs[path])
                      \/ \E x \in items : x.id = ItemId("runs", path, runs[path])
    BY <1>1 DEF ListedOK
  <2>1. CASE q = p
    <3>1. path \in Path /\ runs[path] # Absent
      BY <1>3, <2>1
    <3>2. PICK i \in DOMAIN Listing : Listing[i] = path
      BY <3>1 DEF Path, Range
    <3>3. i \in UNION todo'[p]
      BY <1>2, <1>3, <3>1, <3>2
    <3> QED
      BY <2>1, <3>2, <3>3 DEF Left
  <2>2. CASE q # p
    BY <1>3, <2>2 DEF ListedOK, Left
  <2> QED
    BY <2>1, <2>2
<1> QED
  BY <1>4, <1>5, <1>6, <1>7, <1>8

LEMMA ParseNextRows ==
    ASSUME RowsInv, NEW p \in Caller, ParseNext(p)
    PROVE  RowsInv'
<1> USE DEF RowsInv
<1>1. PICK chunk \in todo[p] : \E i \in chunk :
        LET found == ParseArtifact(Listing[i], runs[Listing[i]])
        IN  /\ \/ found = {} /\ UNCHANGED batch
               \/ \E a \in found : batch' = [batch EXCEPT ![p] = @ \cup {a}]
            /\ todo' = [todo EXCEPT ![p] = (@ \ {chunk}) \cup ({chunk \ {i}} \ {{}})]
            /\ pc' = [pc EXCEPT ![p] = IF chunk = {i} THEN "write" ELSE "parse"]
  BY DEF ParseNext
<1>2. PICK i \in chunk :
        LET found == ParseArtifact(Listing[i], runs[Listing[i]])
        IN  /\ \/ found = {} /\ UNCHANGED batch
               \/ \E a \in found : batch' = [batch EXCEPT ![p] = @ \cup {a}]
            /\ todo' = [todo EXCEPT ![p] = (@ \ {chunk}) \cup ({chunk \ {i}} \ {{}})]
            /\ pc' = [pc EXCEPT ![p] = IF chunk = {i} THEN "write" ELSE "parse"]
  BY <1>1
<1> DEFINE path == Listing[i]
           found == ParseArtifact(path, runs[path])
<1>3. /\ pc[p] = "parse"
      /\ UNCHANGED <<runs, items, phrases, seeds, edges, rows, mine, listed, linked>>
  BY DEF ParseNext, tables
<1>4. i \in DOMAIN Listing /\ path \in Path
      /\ runs[path] \in Digests \cup {Absent}
  <2>1. i \in DOMAIN Listing /\ path \in Path
    BY DEF ChunksOK, Path, Range
  <2> QED
    BY <2>1 DEF CallsShape
<1>5. \A a \in found : /\ Genuine(a) /\ a.item.id = ItemId("runs", path, runs[path])
                       /\ a.item.id.from = "runs" /\ a.item.id.path = path
  BY <1>4, ParseArtifactFacts
<1>6. /\ todo'[p] = (todo[p] \ {chunk}) \cup ({chunk \ {i}} \ {{}})
      /\ \A q \in Caller \ {p} : todo'[q] = todo[q]
      /\ pc'[p] = IF chunk = {i} THEN "write" ELSE "parse"
      /\ \A q \in Caller \ {p} : pc'[q] = pc[q]
      /\ DOMAIN todo' = Caller
      /\ pc' \in [Caller -> {"idle", "parse", "write", "select", "insert"}]
  BY <1>2 DEF CallsShape
<1>7. PICK new : /\ new \subseteq found /\ (found # {} => new # {})
                 /\ \A a, b \in new : a = b
                 /\ batch'[p] = batch[p] \cup new
                 /\ \A q \in Caller \ {p} : batch'[q] = batch[q]
                 /\ DOMAIN batch' = Caller
  <2>1. CASE found = {} /\ UNCHANGED batch
    <3> WITNESS {}
    <3> QED
      BY <2>1 DEF CallsShape
  <2>2. ASSUME NEW a \in found, batch' = [batch EXCEPT ![p] = @ \cup {a}]
        PROVE  \E new : /\ new \subseteq found /\ (found # {} => new # {})
                        /\ \A b, d \in new : b = d
                        /\ batch'[p] = batch[p] \cup new
                        /\ \A q \in Caller \ {p} : batch'[q] = batch[q]
                        /\ DOMAIN batch' = Caller
    <3> WITNESS {a}
    <3> QED
      BY <2>2 DEF CallsShape
  <2> QED
    BY <1>2, <2>1, <2>2
<1>8. UNION todo'[p] = (UNION todo[p]) \ {i}
  <2>1. \A c \in todo[p] : i \in c => c = chunk
    BY DEF ChunksOK
  <2>2. \A k : k \in UNION todo'[p] =>
          k \in chunk \ {i} \/ \E c \in todo[p] : c # chunk /\ k \in c
    BY <1>6
  <2>3. \A k \in UNION todo'[p] : k \in UNION todo[p] /\ k # i
    BY <2>1, <2>2
  <2>4. ASSUME NEW c \in todo[p], NEW k \in c, k # i PROVE k \in UNION todo'[p]
    <3>1. CASE c = chunk
      <4>1. k \in chunk \ {i}
        BY <2>4, <3>1
      <4>2. chunk \ {i} \in todo'[p]
        BY <1>6, <4>1
      <4> QED
        BY <4>1, <4>2
    <3>2. CASE c # chunk
      BY <1>6, <3>2
    <3> QED
      BY <3>1, <3>2
  <2> QED
    BY <2>3, <2>4
<1>9. Left(p)' = Left(p) \ {path}
  <2>1. \A c \in todo[p] : \A k \in c : k \in DOMAIN Listing
    BY DEF ChunksOK
  <2>2. \A k \in UNION todo[p] : Listing[k] = path <=> k = i
    BY <1>4, <2>1, ListingAssumption
  <2> HIDE DEF path
  <2>3. Left(p)' = { Listing[k] : k \in (UNION todo[p]) \ {i} }
    BY <1>8 DEF Left
  <2> QED
    BY <2>2, <2>3 DEF Left
<1>10. CallsShape'
  BY <1>3, <1>6, <1>7 DEF CallsShape
<1>11. ChunksOK'
  <2>1. /\ \A c \in todo'[p] : c \subseteq DOMAIN Listing
        /\ \A c, d \in todo'[p] : c \cap d # {} => c = d
    BY <1>6 DEF ChunksOK
  <2>2. \A a \in batch'[p] : a.item.id.from = "runs" /\ a.item.id.path \notin Left(p)'
    BY <1>3, <1>5, <1>7, <1>9 DEF ChunksOK
  <2> QED
    BY <1>6, <1>7, <2>1, <2>2 DEF ChunksOK, Left
<1>12. BatchesOK'
  <2>1. \A a \in batch[p] : a.item.id.path # path
    <3>1. path \in Left(p)
      BY DEF Left
    <3> QED
      BY <1>3, <3>1 DEF ChunksOK
  <2>2. OneEach(batch'[p]) /\ \A a \in batch'[p] : Genuine(a)
    BY <1>5, <1>7, <2>1 DEF BatchesOK, OneEach
  <2> QED
    BY <1>7, <2>2 DEF BatchesOK, OneEach, Genuine, ReadFrom
<1>13. ItemsOK' /\ EdgesOK'
  BY <1>3, TablesAlone DEF EdgesOK
<1>14. ListedOK'
  <2> SUFFICES ASSUME NEW q \in Caller, NEW other \in listed[q],
                      ParseArtifact(other, runs[other]) # {}
               PROVE  \/ other \in Left(q)'
                      \/ \E a \in batch'[q] : a.item.id = ItemId("runs", other, runs[other])
                      \/ \E x \in items : x.id = ItemId("runs", other, runs[other])
    BY <1>3 DEF ListedOK
  <2>1. CASE q # p
    <3>1. todo'[q] = todo[q] /\ batch'[q] = batch[q]
      BY <1>6, <1>7, <2>1
    <3>2. Left(q)' = Left(q)
      BY <3>1 DEF Left
    <3> QED
      BY <3>1, <3>2 DEF ListedOK
  <2>2. CASE q = p /\ other # path
    BY <1>7, <1>9, <2>2 DEF ListedOK
  <2>3. CASE q = p /\ other = path
    <3>1. PICK a \in new : TRUE
      BY <1>7, <2>3
    <3> QED
      BY <1>5, <1>7, <2>3, <3>1
  <2> QED
    BY <2>1, <2>2, <2>3
<1> QED
  BY <1>10, <1>11, <1>12, <1>13, <1>14

LEMMA RecordPayloadRows ==
    ASSUME RowsInv, NEW p \in Caller, RecordPayload(p)
    PROVE  RowsInv'
<1> USE DEF RowsInv
<1>0. PICK r \in Recordings : \E a \in PayloadToRecord(r) : batch' = [batch EXCEPT ![p] = {a}]
  BY DEF RecordPayload
<1>1. PICK a \in PayloadToRecord(r) : batch' = [batch EXCEPT ![p] = {a}]
  BY <1>0
<1>2. /\ pc[p] = "idle" /\ pc' = [pc EXCEPT ![p] = "write"]
      /\ UNCHANGED <<runs, items, phrases, seeds, edges, todo, rows, mine, listed, linked>>
  BY DEF RecordPayload, tables
<1>3. /\ batch'[p] = {a} /\ \A q \in Caller \ {p} : batch'[q] = batch[q]
      /\ pc'[p] = "write" /\ \A q \in Caller \ {p} : pc'[q] = pc[q]
      /\ todo[p] = {} /\ listed[p] = {} /\ rows[p] = {}
  BY <1>1, <1>2 DEF CallsShape
<1>4. CallsShape'
  <2>1. /\ DOMAIN batch' = Caller
        /\ pc' \in [Caller -> {"idle", "parse", "write", "select", "insert"}]
    BY <1>1, <1>2 DEF CallsShape
  <2> QED
    BY <1>2, <1>3, <2>1 DEF CallsShape
<1>5. ChunksOK'
  BY <1>2, <1>3 DEF ChunksOK, Left
<1>6. BatchesOK'
  <2>1. Genuine(a)
    BY PayloadToRecordFacts
  <2> QED
    BY <1>3, <2>1 DEF BatchesOK, OneEach, Genuine, ReadFrom
<1>7. ItemsOK' /\ EdgesOK'
  BY <1>2, TablesAlone DEF EdgesOK
<1>8. ListedOK'
  BY <1>2, <1>3 DEF ListedOK, Left
<1> QED
  BY <1>4, <1>5, <1>6, <1>7, <1>8

LEMMA WriteBatchRows ==
    ASSUME RowsInv, NEW p \in Caller, WriteBatch(p)
    PROVE  RowsInv'
<1> USE DEF RowsInv
<1> DEFINE s == batch[p]
           ids == Written(s)
           Of(i) == CHOOSE a \in s : a.item.id = i
<1>1. /\ items' = { x \in items : x.id \notin ids } \cup { a.item : a \in s }
      /\ phrases' = [i \in Ids |-> IF i \in ids THEN Of(i).phrases ELSE phrases[i]]
      /\ seeds' = [i \in Ids |-> IF i \in ids THEN Of(i).seeds ELSE seeds[i]]
  BY DEF WriteBatch, UpsertItems, Observed
<1>2. /\ pc[p] = "write"
      /\ batch' = [batch EXCEPT ![p] = {}]
      /\ mine' = [q \in Caller |-> IF q = p THEN mine[q] \cup ids ELSE mine[q] \ ids]
      /\ linked' = linked \ ids
      /\ pc' = [pc EXCEPT ![p] = IF todo[p] = {} THEN "select" ELSE "parse"]
      /\ UNCHANGED <<runs, edges, todo, rows, listed>>
  BY DEF WriteBatch
<1>3. /\ OneEach(s) /\ \A a \in s : Genuine(a)
      /\ \A a \in s : a.item.id \in ids
      /\ \A i \in ids : \E a \in s : a.item.id = i
      /\ ids \subseteq Ids
  BY GenuineFacts DEF BatchesOK, Written
<1>4. \A a \in s : Of(a.item.id) = a
  BY <1>3 DEF OneEach
<1> HIDE DEF s, ids, Of
<1>5. /\ batch'[p] = {} /\ \A q \in Caller \ {p} : batch'[q] = batch[q]
      /\ pc'[p] = IF todo[p] = {} THEN "select" ELSE "parse"
      /\ \A q \in Caller \ {p} : pc'[q] = pc[q]
      /\ rows[p] = {}
  BY <1>2 DEF CallsShape
<1>6. CallsShape'
  <2>1. /\ DOMAIN batch' = Caller /\ mine' \in [Caller -> SUBSET Ids] /\ linked' \subseteq Ids
        /\ pc' \in [Caller -> {"idle", "parse", "write", "select", "insert"}]
    BY <1>2, <1>3 DEF CallsShape
  <2> QED
    BY <1>2, <1>5, <2>1 DEF CallsShape
<1>7. ChunksOK'
  BY <1>2, <1>5 DEF ChunksOK, Left
<1>8. BatchesOK'
  BY <1>5 DEF BatchesOK, OneEach, Genuine, ReadFrom
<1>9. /\ \A x \in items' : GenuineItem(x)
      /\ \A x, y \in items' : x.id = y.id => x = y
  <2>1. \A x \in items' : GenuineItem(x)
    BY <1>1, <1>3, GenuineFacts DEF ItemsOK
  <2>2. \A x, y \in items' : x.id = y.id => x = y
    BY <1>1, <1>3 DEF ItemsOK, OneEach
  <2> QED
    BY <2>1, <2>2
<1>10. ObservationsMatchItems'
  <2>1. ASSUME NEW x \in items'
        PROVE  /\ phrases'[x.id] = PhraseObservations(x.type, PayloadOf[x.id.digest])
               /\ seeds'[x.id] \in {<<>>, SeedObservations(x.seed)}
    <3>1. x.id \in Ids
      BY <1>9, SeedIsPossible
    <3>2. CASE x.id \notin ids
      <4>1. x \in items
        BY <1>1, <1>3, <3>2
      <4> QED
        BY <1>1, <3>1, <3>2, <4>1 DEF ItemsOK, ObservationsMatchItems
    <3>3. CASE x.id \in ids
      <4>1. PICK a \in s : a.item = x
        BY <1>1, <3>3
      <4>2. Of(x.id) = a
        BY <1>4, <4>1
      <4>3. phrases'[x.id] = a.phrases /\ seeds'[x.id] = a.seeds
        BY <1>1, <3>1, <3>3, <4>2
      <4> QED
        BY <1>3, <4>1, <4>3, GenuineFacts
    <3> QED
      BY <3>2, <3>3
  <2>2. ASSUME NEW i \in Ids, \A x \in items' : x.id # i
        PROVE  phrases'[i] = <<>> /\ seeds'[i] = <<>>
    <3>1. i \notin ids
      BY <1>1, <1>3, <2>2
    <3>2. \A x \in items : x.id # i
      BY <1>1, <2>2, <3>1
    <3> QED
      BY <1>1, <3>1, <3>2 DEF ItemsOK, ObservationsMatchItems
  <2> QED
    BY <2>1, <2>2 DEF ObservationsMatchItems
<1>11. \A x \in items : \E z \in items' : z.id = x.id /\ z.type = x.type
                                          /\ SeedsOf(z) = SeedsOf(x)
  <2> TAKE x \in items
  <2>1. CASE x.id \notin ids
    BY <1>1, <2>1
  <2>2. CASE x.id \in ids
    <3>1. PICK a \in s : a.item.id = x.id
      BY <1>3, <2>2
    <3>2. a.item \in items' /\ GenuineItem(a.item) /\ GenuineItem(x)
      BY <1>1, <1>3, GenuineFacts DEF ItemsOK
    <3> QED
      BY <3>1, <3>2, ReadingsAgree
  <2> QED
    BY <2>1, <2>2
<1>12. EdgesOK'
  BY <1>2, <1>11, JoinsIsKept DEF EdgesOK
<1>13. ListedOK'
  <2> SUFFICES ASSUME NEW q \in Caller, NEW path \in listed[q],
                      ParseArtifact(path, runs[path]) # {}
               PROVE  \/ path \in Left(q)
                      \/ \E a \in batch'[q] : a.item.id = ItemId("runs", path, runs[path])
                      \/ \E x \in items' : x.id = ItemId("runs", path, runs[path])
    BY <1>2 DEF ListedOK, Left
  <2>1. \/ path \in Left(q)
        \/ \E a \in batch[q] : a.item.id = ItemId("runs", path, runs[path])
        \/ \E x \in items : x.id = ItemId("runs", path, runs[path])
    BY DEF ListedOK
  <2>2. ASSUME NEW x \in items, x.id = ItemId("runs", path, runs[path])
        PROVE  \E z \in items' : z.id = ItemId("runs", path, runs[path])
    BY <1>11, <2>2
  <2>3. ASSUME NEW a \in batch[q], q = p, a.item.id = ItemId("runs", path, runs[path])
        PROVE  \E z \in items' : z.id = ItemId("runs", path, runs[path])
    BY <1>1, <2>3 DEF s
  <2> QED
    BY <1>5, <2>1, <2>2, <2>3
<1> QED
  BY <1>6, <1>7, <1>8, <1>9, <1>10, <1>12, <1>13 DEF ItemsOK

LEMMA LinkSelectRows ==
    ASSUME RowsInv, NEW p \in Caller, LinkSelect(p)
    PROVE  RowsInv'
<1> USE DEF RowsInv
<1>1. PICK S \in SUBSET Seeded : rows' = [rows EXCEPT ![p] = EdgeRows(S)]
  BY DEF LinkSelect, kSubset
<1>2. /\ pc[p] = "select" /\ pc' = [pc EXCEPT ![p] = "insert"]
      /\ UNCHANGED <<runs, items, phrases, seeds, edges, todo, batch, mine, listed, linked>>
  BY DEF LinkSelect, tables
<1>3. /\ rows'[p] = EdgeRows(S) /\ \A q \in Caller \ {p} : rows'[q] = rows[q]
      /\ pc'[p] = "insert" /\ \A q \in Caller \ {p} : pc'[q] = pc[q]
  BY <1>1, <1>2 DEF CallsShape
<1>4. CallsShape'
  <2>1. /\ DOMAIN rows' = Caller
        /\ pc' \in [Caller -> {"idle", "parse", "write", "select", "insert"}]
    BY <1>1, <1>2 DEF CallsShape
  <2> QED
    BY <1>2, <1>3, <2>1 DEF CallsShape
<1>5. ChunksOK' /\ BatchesOK'
  BY <1>2, <1>3 DEF ChunksOK, BatchesOK, Left, OneEach, Genuine, ReadFrom
<1>6. ItemsOK'
  BY <1>2, TablesAlone
<1>7. EdgesOK'
  <2>1. \A e \in EdgeRows(S) : JoinsItems(e)
    <3> TAKE e \in EdgeRows(S)
    <3>1. PICK z \in S \X S : Joined(z[1], z[2]) /\ e = Edge(z[1], z[2])
      BY DEF EdgeRows
    <3>2. PICK x \in items, y \in items : Joined(x, y) /\ e = Edge(x, y)
      BY <3>1 DEF Seeded
    <3>3. x.seed \in SeedsOf(x) /\ y.seed \in SeedsOf(y)
      BY SeedIsPossible DEF ItemsOK
    <3> QED
      BY <3>2, <3>3 DEF JoinsItems, Joins, Joined
  <2>2. \A e : JoinsItems(e)' <=> JoinsItems(e)
    BY <1>2, TablesAlone
  <2> QED
    BY <1>2, <1>3, <2>1, <2>2 DEF EdgesOK
<1>8. ListedOK'
  BY <1>2 DEF ListedOK, Left
<1> QED
  BY <1>4, <1>5, <1>6, <1>7, <1>8

LEMMA LinkInsertRows ==
    ASSUME RowsInv, NEW p \in Caller, LinkInsert(p)
    PROVE  RowsInv'
<1> USE DEF RowsInv
<1>1. PICK e \in rows[p] : edges' = edges \cup {e} /\ rows' = [rows EXCEPT ![p] = @ \ {e}]
  BY DEF LinkInsert
<1>2. /\ pc[p] = "insert"
      /\ UNCHANGED <<runs, items, phrases, seeds, pc, todo, batch, mine, listed, linked>>
  BY DEF LinkInsert
<1>3. rows'[p] \subseteq rows[p] /\ \A q \in Caller \ {p} : rows'[q] = rows[q]
  BY <1>1 DEF CallsShape
<1>4. CallsShape'
  BY <1>1, <1>2, <1>3 DEF CallsShape
<1>5. ChunksOK' /\ BatchesOK'
  BY <1>2 DEF ChunksOK, BatchesOK, Left, OneEach, Genuine, ReadFrom
<1>6. ItemsOK'
  BY <1>2 DEF ItemsOK, ObservationsMatchItems
<1>7. EdgesOK'
  <2>1. \A f : JoinsItems(f)' <=> JoinsItems(f)
    BY <1>2 DEF JoinsItems
  <2> QED
    BY <1>1, <1>3, <2>1 DEF EdgesOK
<1>8. ListedOK'
  BY <1>2 DEF ListedOK, Left
<1> QED
  BY <1>4, <1>5, <1>6, <1>7, <1>8

\* A call that has ended, well or not, keeps nothing.
LEMMA EndRows ==
    ASSUME RowsInv, NEW p \in Caller, LinkDone(p) \/ Fail(p)
    PROVE  RowsInv'
<1> USE DEF RowsInv
<1>1. /\ pc' = [pc EXCEPT ![p] = "idle"]
      /\ mine' = [mine EXCEPT ![p] = {}] /\ listed' = [listed EXCEPT ![p] = {}]
      /\ UNCHANGED <<runs, items, phrases, seeds, edges>>
  BY DEF LinkDone, Fail, tables
<1>2. /\ todo'[p] = {} /\ batch'[p] = {} /\ rows'[p] = {}
      /\ \A q \in Caller \ {p} : todo'[q] = todo[q] /\ batch'[q] = batch[q] /\ rows'[q] = rows[q]
      /\ DOMAIN todo' = Caller /\ DOMAIN batch' = Caller /\ DOMAIN rows' = Caller
      /\ linked' \subseteq Ids
  BY DEF LinkDone, Fail, CallsShape
<1>3. /\ pc'[p] = "idle" /\ \A q \in Caller \ {p} : pc'[q] = pc[q]
      /\ listed'[p] = {} /\ \A q \in Caller \ {p} : listed'[q] = listed[q]
      /\ pc' \in [Caller -> {"idle", "parse", "write", "select", "insert"}]
      /\ listed' \in [Caller -> SUBSET Path] /\ mine' \in [Caller -> SUBSET Ids]
  BY <1>1 DEF CallsShape
<1>4. CallsShape'
  BY <1>1, <1>2, <1>3 DEF CallsShape
<1>5. ChunksOK' /\ BatchesOK'
  BY <1>2, <1>3 DEF ChunksOK, BatchesOK, Left, OneEach, Genuine, ReadFrom
<1>6. ItemsOK' /\ EdgesOK'
  BY <1>1, <1>2, TablesAlone DEF EdgesOK
<1>7. ListedOK'
  <2>1. \A q \in Caller \ {p} : Left(q)' = Left(q)
    BY <1>2 DEF Left
  <2> SUFFICES ASSUME NEW q \in Caller, NEW path \in listed'[q],
                      ParseArtifact(path, runs[path]) # {}
               PROVE  \/ path \in Left(q)'
                      \/ \E a \in batch'[q] : a.item.id = ItemId("runs", path, runs[path])
                      \/ \E x \in items : x.id = ItemId("runs", path, runs[path])
    BY <1>1 DEF ListedOK
  <2>2. q # p
    BY <1>3
  <2>3. path \in listed[q] /\ Left(q)' = Left(q) /\ batch'[q] = batch[q]
    BY <1>2, <1>3, <2>1, <2>2
  <2> QED
    BY <2>3 DEF ListedOK
<1> QED
  BY <1>4, <1>5, <1>6, <1>7

LEMMA InitRows == RegistryInit => RowsInv
<1> SUFFICES ASSUME RegistryInit PROVE RowsInv
  OBVIOUS
<1>1. CallsShape
  BY DEF RegistryInit, CallsShape
<1>2. ChunksOK /\ BatchesOK /\ EdgesOK /\ ListedOK
  BY DEF RegistryInit, ChunksOK, BatchesOK, OneEach, EdgesOK, ListedOK
<1>3. ItemsOK
  BY DEF RegistryInit, ItemsOK, ObservationsMatchItems
<1> QED
  BY <1>1, <1>2, <1>3 DEF RowsInv

LEMMA NextRows == RowsInv /\ [RegistryNext]_registryVars => RowsInv'
<1> SUFFICES ASSUME RowsInv, [RegistryNext]_registryVars PROVE RowsInv'
  OBVIOUS
<1>1. CASE UNCHANGED registryVars
  <2>1. UNCHANGED <<runs, items, phrases, seeds, edges, pc, todo, batch, rows, mine, listed, linked>>
    BY <1>1 DEF registryVars, tables
  <2>2. CallsShape' /\ ChunksOK' /\ BatchesOK'
    BY <2>1 DEF RowsInv, CallsShape, ChunksOK, BatchesOK, Left, OneEach, Genuine, ReadFrom
  <2>3. ItemsOK' /\ EdgesOK'
    BY <2>1, TablesAlone DEF RowsInv, EdgesOK
  <2>4. ListedOK'
    BY <2>1 DEF RowsInv, ListedOK, Left
  <2> QED
    BY <2>2, <2>3, <2>4 DEF RowsInv
<1> QED
  BY <1>1, EditRunsRows, CatalogRunsRows, ParseNextRows, RecordPayloadRows, WriteBatchRows,
     LinkSelectRows, LinkInsertRows, EndRows DEF RegistryNext

LEMMA RowsInvImplies == RowsInv => RegistryTypeOK /\ RowsMatchArtefacts
<1> SUFFICES ASSUME RowsInv PROVE RegistryTypeOK /\ RowsMatchArtefacts
  OBVIOUS
<1> USE DEF RowsInv
<1>1. \A x \in items : x.id \in Ids
  BY SeedIsPossible DEF ItemsOK
<1>2. RegistryTypeOK
  <2>1. \A e \in edges : e.from \in Ids /\ e.to \in Ids
    BY <1>1 DEF EdgesOK, JoinsItems, Joins, Edge
  <2> QED
    BY <1>1, <2>1 DEF RegistryTypeOK, ItemsOK, CallsShape
<1>3. EdgesJoinItems
  BY DEF EdgesOK, JoinsItems, Joins, EdgesJoinItems
<1>4. CatalogIsComplete
  BY DEF CatalogIsComplete, ListedOK, CallsShape, Left
<1> QED
  BY <1>2, <1>3, <1>4 DEF RowsMatchArtefacts, ItemsOK

\* The tables keep their types: one item for one artefact, and edges between items
\* that can be (the registry's primary keys).
THEOREM RegistryTypes == RegistrySpec => []RegistryTypeOK
<1> QED
  BY InitRows, NextRows, RowsInvImplies, PTL DEF RegistrySpec

\* What the registry stores is what the artefacts say, and all of it, whoever reads
\* them again, records, links or dies (catalog_runs, record_payload, upsert_items_batch
\* and link_related_items).
THEOREM RowsMatchArtefactsHolds == RegistrySpec => []RowsMatchArtefacts
<1> QED
  BY InitRows, NextRows, RowsInvImplies, PTL DEF RegistrySpec
=============================================================================
