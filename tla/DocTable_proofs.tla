--------------------------- MODULE DocTable_proofs ---------------------------
(***************************************************************************)
(* Proofs about DocTable and the engine beside it (IndexServing): the      *)
(* inductive invariant DocTableInv, and from it the type invariant and the *)
(* safety properties the runs check, for every set of passages,            *)
(* partitions, processes and index kinds; then, on top of it, that the     *)
(* index the engine uses resolves through the table it keeps.              *)
(***************************************************************************)
EXTENDS IndexServing, FiniteSetTheorems, SequenceTheorems, TLAPS

-----------------------------------------------------------------------------
(* Ranks, and the assignments the two kinds of build compute.              *)

\* The rank of a member of a finite set of passage ids is a natural number
\* below its size.
LEMMA RankBound ==
    ASSUME NEW S \in SUBSET Passage, NEW p \in S
    PROVE  Rank(S, p) \in Nat /\ Rank(S, p) < Cardinality(S)
<1> DEFINE T == {q \in S : q < p}
<1>1. IsFiniteSet(S) /\ Cardinality(S) \in Nat
  BY PassageAssumption, FS_Subset, FS_CardinalityType
<1>2. T \in SUBSET S /\ p \notin T
  BY PassageAssumption
<1>3. IsFiniteSet(T) /\ Cardinality(T) <= Cardinality(S)
       /\ (Cardinality(S) = Cardinality(T) => S = T)
  BY <1>1, <1>2, FS_Subset
<1>4. Cardinality(T) \in Nat
  BY <1>3, FS_CardinalityType
<1>5. Cardinality(T) # Cardinality(S)
  BY <1>2, <1>3
<1> QED
  BY <1>1, <1>3, <1>4, <1>5 DEF Rank

\* Two members of the same rank are the same: ranks order the set strictly.
LEMMA RankInjective ==
    ASSUME NEW S \in SUBSET Passage, NEW p \in S, NEW q \in S,
           Rank(S, p) = Rank(S, q)
    PROVE  p = q
<1>1. ASSUME NEW a \in S, NEW b \in S, a < b
      PROVE  Rank(S, a) # Rank(S, b)
  <2> DEFINE A == {r \in S : r < a}
             B == {r \in S : r < b}
  <2>1. IsFiniteSet(B)
    BY PassageAssumption, FS_Subset
  <2>0. S \subseteq Nat /\ a \in Nat /\ b \in Nat
    BY PassageAssumption
  <2>2. A \in SUBSET B /\ a \in B /\ a \notin A
    <3>1. \A r \in S : r < a => r < b
      BY <1>1, <2>0
    <3>2. ~ (a < a)
      BY <2>0
    <3> QED
      BY <1>1, <3>1, <3>2
  <2>3. Cardinality(A) # Cardinality(B)
    BY <2>1, <2>2, FS_Subset
  <2> QED
    BY <2>3 DEF Rank
<1>2. p \in Nat /\ q \in Nat
  BY PassageAssumption
<1>3. ~ (p < q) /\ ~ (q < p)
  BY <1>1
<1> QED
  BY <1>2, <1>3

\* A build from scratch numbers the passages of the store densely.
LEMMA ScratchIdsDense ==
    ASSUME NEW S \in SUBSET Passage
    PROVE  /\ ScratchIds(S) \in Assignment
           /\ Dense(ScratchIds(S))
           /\ DOMAIN ScratchIds(S) = S
<1>1. \A p \in S : Rank(S, p) \in Nat /\ Rank(S, p) < Cardinality(S)
  BY RankBound
<1>2. Cardinality(S) \in Nat /\ Cardinality(S) <= Cardinality(Passage)
       /\ Cardinality(Passage) \in Nat
  BY PassageAssumption, FS_Subset, FS_CardinalityType
<1>3. \A p \in S : Rank(S, p) \in DocId
  BY <1>1, <1>2 DEF DocId
<1>4. ScratchIds(S) \in [S -> DocId]
  BY <1>3 DEF ScratchIds
<1>5. Dense(ScratchIds(S))
  BY <1>1, RankInjective DEF ScratchIds, Dense
<1> QED
  BY <1>4, <1>5 DEF Assignment

\* A build that appends keeps every doc_id of the base and numbers the new
\* passages densely after them (append_from_parquet).
LEMMA AppendIdsDense ==
    ASSUME NEW S \in SUBSET Passage, NEW base \in Assignment, Dense(base)
    PROVE  /\ AppendIds(base, S) \in Assignment
           /\ Dense(AppendIds(base, S))
           /\ Extends(AppendIds(base, S), base)
<1> DEFINE D   == DOMAIN base
           new == S \ D
           f   == AppendIds(base, S)
<1>1. D \in SUBSET Passage /\ new \in SUBSET Passage /\ D \cup new \in SUBSET Passage
       /\ base \in [D -> DocId]
  BY DEF Assignment
<1>2. /\ IsFiniteSet(D) /\ IsFiniteSet(new) /\ IsFiniteSet(D \cap new)
      /\ D \cap new = {}
  BY <1>1, PassageAssumption, FS_Subset
<1>3. /\ Cardinality(D) \in Nat /\ Cardinality(new) \in Nat
      /\ Cardinality(D \cup new) = Cardinality(D) + Cardinality(new)
  <2>1. Cardinality(D) \in Nat /\ Cardinality(new) \in Nat
    BY <1>2, FS_CardinalityType
  <2>2. Cardinality(D \cup new)
          = Cardinality(D) + Cardinality(new) - Cardinality(D \cap new)
    BY <1>2, FS_Union
  <2>3. Cardinality(D \cap new) = 0
    BY <1>2, FS_EmptySet
  <2> QED
    BY <2>1, <2>2, <2>3
<1>4. Cardinality(D \cup new) <= Cardinality(Passage) /\ Cardinality(Passage) \in Nat
  BY <1>1, PassageAssumption, FS_Subset, FS_CardinalityType
<1>5. DOMAIN f = D \cup new
  BY DEF AppendIds
<1>6. \A p \in D : f[p] = base[p] /\ f[p] \in Nat /\ f[p] < Cardinality(D)
  BY <1>1, <1>3 DEF AppendIds, Dense, DocId
<1>7. \A p \in new : /\ f[p] = Cardinality(D) + Rank(new, p)
                     /\ Rank(new, p) \in Nat /\ Rank(new, p) < Cardinality(new)
  BY <1>1, RankBound DEF AppendIds
<1>8. \A p \in D \cup new : f[p] \in Nat /\ f[p] < Cardinality(D \cup new)
  BY <1>3, <1>6, <1>7
<1>9. f \in [D \cup new -> DocId]
  <2>1. \A p \in D \cup new : f[p] \in DocId
    <3> SUFFICES ASSUME NEW p \in D \cup new
                 PROVE  f[p] \in 0 .. Cardinality(Passage) - 1
      BY DEF DocId
    <3>1. f[p] \in Nat /\ f[p] < Cardinality(D \cup new)
           /\ Cardinality(D \cup new) \in Nat
      BY <1>3, <1>8
    <3> HIDE DEF D, new, f
    <3> QED
      BY <1>4, <3>1
  <2> QED
    BY <2>1 DEF AppendIds
<1>10. \A p, q \in D \cup new : f[p] = f[q] => p = q
  <2> SUFFICES ASSUME NEW p \in D \cup new, NEW q \in D \cup new, f[p] = f[q]
               PROVE  p = q
    OBVIOUS
  <2>1. CASE p \in D /\ q \in D
    BY <2>1, <1>6 DEF Dense
  <2>2. CASE p \in new /\ q \in new
    <3>1. Rank(new, p) = Rank(new, q)
      <4>1. /\ f[p] = Cardinality(D) + Rank(new, p) /\ Rank(new, p) \in Nat
            /\ f[q] = Cardinality(D) + Rank(new, q) /\ Rank(new, q) \in Nat
        BY <2>2, <1>7
      <4>2. Cardinality(D) + Rank(new, p) = Cardinality(D) + Rank(new, q)
        BY <4>1
      <4>3. ASSUME NEW c \in Nat, NEW x \in Nat, NEW y \in Nat, c + x = c + y
            PROVE  x = y
        BY <4>3
      <4> HIDE DEF f, new, D
      <4> QED
        BY <4>1, <4>2, <4>3, <1>3
    <3> QED
      BY <1>1, <2>2, <3>1, RankInjective
  <2>3. CASE p \in D /\ q \in new
    BY <2>3, <1>3, <1>6, <1>7
  <2>4. CASE p \in new /\ q \in D
    BY <2>4, <1>3, <1>6, <1>7
  <2> QED
    BY <2>1, <2>2, <2>3, <2>4
<1>11. Dense(f)
  BY <1>5, <1>8, <1>10 DEF Dense
<1>12. Extends(f, base)
  BY <1>5, <1>6 DEF Extends
<1>13. f \in Assignment
  BY <1>1, <1>9 DEF Assignment
<1> QED
  BY <1>11, <1>12, <1>13

-----------------------------------------------------------------------------
(* Chains of assignments, which the fingerprints stand for.                *)

\* No passage is numbered before the first build.
LEMMA EmptyMapFacts ==
    /\ EmptyMap \in Assignment /\ EmptyMap \in Text
    /\ DOMAIN EmptyMap = {} /\ Dense(EmptyMap)
<1>1. EmptyMap \in [{} -> DocId] /\ EmptyMap \in [{} -> Version]
  BY DEF EmptyMap
<1>2. {} \in SUBSET Passage /\ DOMAIN EmptyMap = {}
  BY DEF EmptyMap
<1> QED
  BY <1>1, <1>2 DEF Assignment, Text, Dense

\* Extension of assignments is transitive.
LEMMA ExtendsTransitive ==
    ASSUME NEW f, NEW g, NEW h, Extends(h, g), Extends(g, f)
    PROVE  Extends(h, f)
BY DEF Extends

\* The library's facts on SubSeq, for a prefix.
LEMMA SubSeqFromOne ==
    ASSUME NEW s, NEW n \in Nat, \A i \in 1 .. n : s[i] \in Assignment
    PROVE  /\ SubSeq(s, 1, n) \in Seq(Assignment)
           /\ Len(SubSeq(s, 1, n)) = n
           /\ \A i \in 1 .. n : SubSeq(s, 1, n)[i] = s[i]
<1> DEFINE u == SubSeq(s, 1, n)
<1>1. /\ u \in Seq(Assignment)
      /\ Len(u) = IF 1 <= n THEN n - 1 + 1 ELSE 0
      /\ \A i \in 1 .. n - 1 + 1 : u[i] = s[1 + i - 1]
  BY SubSeqProperties
<1> HIDE DEF u
<1>2. Len(u) = n
  BY <1>1
<1>3. \A i \in 1 .. n : u[i] = s[i]
  <2>1. \A i \in 1 .. n : i \in 1 .. n - 1 + 1 /\ 1 + i - 1 = i
    OBVIOUS
  <2> QED
    BY <1>1, <2>1
<1> QED
  BY <1>1, <1>2, <1>3 DEF u

\* Hashing an assignment that extends the last one gives a longer chain whose
\* predecessor is the chain hashed.
LEMMA ChainAppend ==
    ASSUME NEW fp \in Seq(Assignment), Chain(fp),
           NEW f \in Assignment, Dense(f), fp # <<>> => Extends(f, Last(fp))
    PROVE  /\ Fingerprint(fp, f) \in Seq(Assignment)
           /\ Fingerprint(fp, f) # <<>>
           /\ Len(Fingerprint(fp, f)) = Len(fp) + 1
           /\ Chain(Fingerprint(fp, f))
           /\ Last(Fingerprint(fp, f)) = f
           /\ Front(Fingerprint(fp, f)) = fp
<1> DEFINE g == Append(fp, f)
<1>1. /\ g \in Seq(Assignment) /\ g # <<>> /\ Len(g) = Len(fp) + 1
      /\ \A i \in 1 .. Len(fp) : g[i] = fp[i]
      /\ g[Len(fp) + 1] = f /\ Len(fp) \in Nat
  BY AppendProperties, LenProperties
<1>2. Last(g) = f
  BY <1>1 DEF Last
<1>3. Front(g) = fp
  <2>1. SubSeq(g, 1, Len(fp)) \in Seq(Assignment)
        /\ Len(SubSeq(g, 1, Len(fp))) = Len(fp)
        /\ \A i \in 1 .. Len(fp) : SubSeq(g, 1, Len(fp))[i] = g[i]
    <3>1. \A i \in 1 .. Len(fp) : g[i] \in Assignment
      BY <1>1, ElementOfSeq
    <3> HIDE DEF g
    <3>2. /\ SubSeq(g, 1, Len(fp)) \in Seq(Assignment)
          /\ Len(SubSeq(g, 1, Len(fp))) = IF 1 <= Len(fp) THEN Len(fp) - 1 + 1 ELSE 0
          /\ \A i \in 1 .. Len(fp) - 1 + 1 : SubSeq(g, 1, Len(fp))[i] = g[1 + i - 1]
      BY <3>1, <1>1, SubSeqProperties
    <3> QED
      BY <3>2, <1>1
  <2>2. SubSeq(g, 1, Len(fp)) = fp
    BY <1>1, <2>1, SeqEqual
  <2>3. Len(g) - 1 = Len(fp)
    BY <1>1
  <2> QED
    BY <2>2, <2>3 DEF Front
<1>4. \A i \in 1 .. Len(fp) : Extends(f, fp[i])
  <2> SUFFICES ASSUME NEW i \in 1 .. Len(fp) PROVE Extends(f, fp[i])
    OBVIOUS
  <2>1. fp # <<>> /\ Len(fp) \in 1 .. Len(fp)
    BY <1>1, EmptySeq
  <2>2. Extends(Last(fp), fp[i])
    BY <2>1, <1>1 DEF Chain, Last
  <2> QED
    BY <2>1, <2>2, ExtendsTransitive
<1>5. Chain(g)
  <2>1. ASSUME NEW i \in 1 .. Len(g) PROVE Dense(g[i])
    <3>1. i \in 1 .. Len(fp) \/ i = Len(fp) + 1
      BY <1>1
    <3> QED
      BY <3>1, <1>1 DEF Chain
  <2>2. ASSUME NEW i \in 1 .. Len(g), NEW j \in 1 .. Len(g), i <= j
        PROVE  Extends(g[j], g[i])
    <3>1. CASE j \in 1 .. Len(fp)
      <4>1. i \in 1 .. Len(fp)
        BY <3>1, <2>2, <1>1
      <4> QED
        BY <4>1, <3>1, <2>2, <1>1 DEF Chain
    <3>2. CASE j = Len(fp) + 1 /\ i \in 1 .. Len(fp)
      BY <3>2, <1>1, <1>4
    <3>3. CASE j = Len(fp) + 1 /\ i = Len(fp) + 1
      BY <3>3, <1>1 DEF Extends
    <3>4. (i \in 1 .. Len(fp) \/ i = Len(fp) + 1) /\ (j \in 1 .. Len(fp) \/ j = Len(fp) + 1)
      BY <1>1
    <3> QED
      BY <3>1, <3>2, <3>3, <3>4
  <2> QED
    BY <2>1, <2>2 DEF Chain
<1> QED
  BY <1>1, <1>2, <1>3, <1>5 DEF Fingerprint

\* The predecessor of a chain is an ancestor of it, and so are its ancestors.
LEMMA FrontAncestor ==
    ASSUME NEW t \in Seq(Assignment), t # <<>>
    PROVE  /\ Front(t) \in Seq(Assignment)
           /\ Len(Front(t)) = Len(t) - 1
           /\ IsAncestor(Front(t), t)
           /\ \A i \in 1 .. Len(t) - 1 : Front(t)[i] = t[i]
<1>1. Len(t) \in Nat \ {0}
  BY EmptySeq
<1>2. \A i \in 1 .. Len(t) - 1 : t[i] \in Assignment
  BY <1>1, ElementOfSeq
<1>3. /\ SubSeq(t, 1, Len(t) - 1) \in Seq(Assignment)
      /\ Len(SubSeq(t, 1, Len(t) - 1))
            = IF 1 <= Len(t) - 1 THEN Len(t) - 1 - 1 + 1 ELSE 0
      /\ \A i \in 1 .. Len(t) - 1 - 1 + 1 :
            SubSeq(t, 1, Len(t) - 1)[i] = t[1 + i - 1]
  BY <1>1, <1>2, SubSeqProperties
<1>4. Len(Front(t)) = Len(t) - 1
  <2> DEFINE s == SubSeq(t, 1, Len(t) - 1)
  <2>1. Len(s) = IF 1 <= Len(t) - 1 THEN Len(t) - 1 - 1 + 1 ELSE 0
    BY <1>3
  <2>2. ASSUME NEW n \in Nat \ {0}, NEW m,
               m = IF 1 <= n - 1 THEN n - 1 - 1 + 1 ELSE 0
        PROVE  m = n - 1
    <3>1. n = 1 \/ 1 <= n - 1
      OBVIOUS
    <3> QED
      BY <3>1, <2>2
  <2> HIDE DEF s
  <2>3. Len(s) = Len(t) - 1
    BY <1>1, <2>1, <2>2
  <2> QED
    BY <2>3 DEF s, Front
<1>5. \A i \in 1 .. Len(t) - 1 : Front(t)[i] = t[i]
  <2>1. \A i \in 1 .. Len(t) - 1 : i \in 1 .. Len(t) - 1 - 1 + 1 /\ 1 + i - 1 = i
    BY <1>1
  <2> QED
    BY <2>1, <1>3 DEF Front
<1> QED
  BY <1>1, <1>3, <1>4, <1>5 DEF Front, IsAncestor

\* An ancestor of the predecessor is an ancestor.
LEMMA AncestorOfFront ==
    ASSUME NEW t \in Seq(Assignment), t # <<>>,
           NEW a \in Seq(Assignment), IsAncestor(a, Front(t))
    PROVE  IsAncestor(a, t)
<1>1. Len(t) \in Nat \ {0} /\ Len(a) \in Nat
  BY EmptySeq, LenProperties
<1>2. /\ Front(t) \in Seq(Assignment) /\ Len(Front(t)) = Len(t) - 1
      /\ \A i \in 1 .. Len(t) - 1 : Front(t)[i] = t[i]
  BY FrontAncestor
<1>3. Len(a) <= Len(t) - 1 /\ a = SubSeq(Front(t), 1, Len(a))
  BY <1>2 DEF IsAncestor
<1>4. \A i \in 1 .. Len(a) : t[i] \in Assignment /\ Front(t)[i] = t[i]
  BY <1>1, <1>2, <1>3, ElementOfSeq
<1>5. /\ SubSeq(t, 1, Len(a)) \in Seq(Assignment)
      /\ Len(SubSeq(t, 1, Len(a))) = Len(a)
      /\ \A i \in 1 .. Len(a) : SubSeq(t, 1, Len(a))[i] = t[i]
  BY <1>1, <1>4, SubSeqFromOne
<1>6. \A i \in 1 .. Len(a) : a[i] = t[i]
  <2> DEFINE b == SubSeq(Front(t), 1, Len(a))
  <2>1. \A i \in 1 .. Len(a) : b[i] = Front(t)[i]
    BY <1>1, <1>4, SubSeqFromOne
  <2>2. a = b
    BY <1>3
  <2> HIDE DEF b
  <2> QED
    BY <1>4, <2>1, <2>2
<1>7. SubSeq(t, 1, Len(a)) = a
  BY <1>5, <1>6, SeqEqual
<1>8. Len(a) <= Len(t)
  BY <1>1, <1>3
<1> QED
  BY <1>7, <1>8 DEF IsAncestor

\* What a chain assigns last extends what any ancestor of it assigned.
LEMMA AncestorExtends ==
    ASSUME NEW t \in Seq(Assignment), Chain(t),
           NEW a \in Seq(Assignment), a # <<>>, IsAncestor(a, t)
    PROVE  Extends(Last(t), Last(a)) /\ t # <<>>
<1>1. Len(a) \in Nat \ {0} /\ Len(t) \in Nat /\ Len(a) <= Len(t)
  BY EmptySeq, LenProperties DEF IsAncestor
<1>2. \A i \in 1 .. Len(a) : t[i] \in Assignment
  BY <1>1, ElementOfSeq
<1>3. \A i \in 1 .. Len(a) - 1 + 1 : SubSeq(t, 1, Len(a))[i] = t[1 + i - 1]
  BY <1>1, <1>2, SubSeqProperties
<1>4. Len(a) \in 1 .. Len(a) - 1 + 1 /\ 1 + Len(a) - 1 = Len(a)
  BY <1>1
<1>5. a[Len(a)] = t[Len(a)]
  BY <1>3, <1>4 DEF IsAncestor
<1>6. Extends(t[Len(t)], t[Len(a)])
  BY <1>1 DEF Chain
<1>7. t # <<>>
  BY <1>1, EmptySeq
<1> QED
  BY <1>5, <1>6, <1>7 DEF Last

-----------------------------------------------------------------------------
(* The invariant holds initially and every action preserves it.            *)

USE DEF Exists

\* What an idle process and the absent files satisfy.
LEMMA IdleFacts ==
    /\ Idle \in Job /\ NoTable \in Table /\ NoIndex \in Index
    /\ TableInv(NoTable) /\ IndexInv(NoIndex)
    /\ NoTable.fp = <<>> /\ NoIndex.fp = <<>>
<1>1. <<>> \in Seq(Assignment) /\ Len(<<>>) = 0
  BY EmptySeq
<1>2. Chain(<<>>)
  BY <1>1 DEF Chain
<1>3. NoTable \in Table /\ NoIndex \in Index
  BY <1>1, EmptyMapFacts DEF NoTable, NoIndex, Table, Index, FingerprintSet, NoFingerprint
<1>4. Idle \in Job
  BY <1>3 DEF Idle, Job, Stage, Handle
<1>5. TableInv(NoTable) /\ IndexInv(NoIndex)
  BY <1>2 DEF TableInv, IndexInv, NoTable, NoIndex, NoFingerprint
<1> QED
  BY <1>3, <1>4, <1>5 DEF NoTable, NoIndex, NoFingerprint

\* The sidecar records that a table has a predecessor are typed.
LEMMA LineageFacts ==
    /\ NoLineage \in Lineage /\ TornLineage \in Lineage
    /\ NoLineage.state = "absent" /\ TornLineage.state = "torn"
    /\ \A t \in Table : /\ LineageOf(t) \in Lineage
                        /\ LineageOf(t).state = "whole"
                        /\ LineageOf(t).base_fp = t.fp
                        /\ LineageOf(t).base_doc_count = Cardinality(DOMAIN t.ids)
<1>1. <<>> \in Seq(Assignment)
  BY EmptySeq
<1>2. NoLineage \in Lineage /\ TornLineage \in Lineage
  BY <1>1 DEF NoLineage, TornLineage, Lineage, FingerprintSet, NoFingerprint
<1>3. ASSUME NEW t \in Table PROVE Cardinality(DOMAIN t.ids) \in Nat
  <2>1. DOMAIN t.ids \in SUBSET Passage
    BY DEF Table, Assignment
  <2> QED
    BY <2>1, PassageAssumption, FS_Subset, FS_CardinalityType
<1>4. \A t \in Table : LineageOf(t) \in Lineage
  BY <1>3 DEF LineageOf, Lineage, Table
<1> QED
  BY <1>2, <1>4 DEF NoLineage, TornLineage, LineageOf

\* The invariant holds where no file exists.
LEMMA InitInv == Init => DocTableInv
<1> SUFFICES ASSUME Init PROVE DocTableInv
  OBVIOUS
<1> USE DEF Init
<1>1. TypeOK
  BY IdleFacts, EmptyMapFacts, LineageFacts DEF TypeOK
<1>2. TableInv(table) /\ (\A t \in temp : TableInv(t)) /\ (\A k \in Kind : IndexInv(index[k]))
  BY IdleFacts
<1>3. \A p \in Proc : JobInv(p)
  BY IdleFacts DEF JobInv, Idle
<1>4. LineageInv /\ LineageNamesAncestor /\ SettledNamesPredecessor
  BY LineageFacts, IdleFacts
  DEF LineageInv, LineageNamesAncestor, SettledNamesPredecessor, NoFingerprint
<1> QED
  BY <1>1, <1>2, <1>3, <1>4 DEF DocTableInv

\* A change of the passage store touches none of the files.
LEMMA StoreInv ==
    ASSUME DocTableInv, Store
    PROVE  DocTableInv'
<1>1. UNCHANGED <<files, job, history>>
  BY DEF Store, AddPartition, DeletePartition
<1>2. parquet' \in Text
  <2>1. parquet \in Text
    BY DEF DocTableInv, TypeOK
  <2>2. PICK D \in SUBSET Passage : parquet \in [D -> Version]
    BY <2>1 DEF Text
  <2>3. ASSUME NEW S \in Partition, NEW v \in Version, AddPartition(S, v)
        PROVE  parquet' \in [D \cup S -> Version]
    BY <2>2, <2>3 DEF AddPartition
  <2>4. ASSUME NEW S \in Partition, DeletePartition(S)
        PROVE  parquet' \in [D \ S -> Version]
    BY <2>2, <2>4 DEF DeletePartition
  <2>5. \A S \in Partition : D \cup S \in SUBSET Passage /\ D \ S \in SUBSET Passage
    BY PartitionAssumption
  <2>6. \A E \in SUBSET Passage : parquet' \in [E -> Version] => parquet' \in Text
    BY DEF Text
  <2>7. CASE \E S \in Partition, v \in Version : AddPartition(S, v)
    BY <2>3, <2>5, <2>6, <2>7
  <2>8. CASE \E S \in Partition : DeletePartition(S)
    BY <2>4, <2>5, <2>6, <2>8
  <2> QED
    BY <2>7, <2>8 DEF Store
<1>3. TypeOK'
  BY <1>1, <1>2 DEF DocTableInv, TypeOK, files, history
<1>4. \A p \in Proc : JobInv(p)'
  BY <1>1 DEF DocTableInv, JobInv, files, history
<1>5. LineageInv' /\ LineageNamesAncestor' /\ SettledNamesPredecessor'
  BY <1>1 DEF DocTableInv, LineageInv, LineageNamesAncestor, SettledNamesPredecessor,
              files, history
<1> QED
  BY <1>1, <1>3, <1>4, <1>5 DEF DocTableInv, files, history

\* A step that only changes what a process holds in memory preserves the
\* invariant when what it then holds satisfies its part of it.
LEMMA JobStep ==
    ASSUME DocTableInv, NEW p \in Proc, NEW j \in Job,
           UNCHANGED <<parquet, files, history>>, job' = [job EXCEPT ![p] = j],
           JobInv(p)'
    PROVE  DocTableInv'
<1>1. TypeOK'
  BY DEF DocTableInv, TypeOK, files, history
<1>2. \A q \in Proc : q # p => job'[q] = job[q]
  BY DEF DocTableInv, TypeOK
<1>3. \A q \in Proc : JobInv(q)'
  <2> SUFFICES ASSUME NEW q \in Proc, q # p PROVE JobInv(q)'
    OBVIOUS
  <2>1. JobInv(q) /\ job'[q] = job[q]
    BY <1>2 DEF DocTableInv
  <2> QED
    BY <2>1 DEF JobInv, files, history
<1>4. LineageInv' /\ LineageNamesAncestor' /\ SettledNamesPredecessor'
  BY DEF DocTableInv, LineageInv, LineageNamesAncestor, SettledNamesPredecessor,
         files, history
<1> QED
  BY <1>1, <1>3, <1>4 DEF DocTableInv, files, history

\* The stored passages are passages.
LEMMA StoredPassages ==
    ASSUME TypeOK
    PROVE  DOMAIN parquet \in SUBSET Passage
BY DEF TypeOK, Text

\* A scratch build starts from the stored passages, which it numbers densely.
LEMMA StartScratchInv ==
    ASSUME DocTableInv, NEW p \in Proc, StartScratch(p)
    PROVE  DocTableInv'
<1> DEFINE f == ScratchIds(DOMAIN parquet)
           t == ScratchTable(DOMAIN parquet)
           j == [Idle EXCEPT !.at = "save", !.op = "scratch", !.new = t]
<1>1. f \in Assignment /\ Dense(f)
  BY StoredPassages, ScratchIdsDense DEF DocTableInv
<1>2. /\ NoFingerprint \in Seq(Assignment) /\ NoFingerprint = <<>>
      /\ Chain(NoFingerprint) /\ Len(NoFingerprint) = 0
  BY EmptySeq DEF Chain, NoFingerprint
<1>3. /\ t.ids = f /\ t.fp \in Seq(Assignment) /\ t.fp # <<>> /\ Len(t.fp) = 1
      /\ Chain(t.fp) /\ Last(t.fp) = f
  <2>1. t.ids = f /\ t.fp = Fingerprint(NoFingerprint, f)
    BY DEF ScratchTable
  <2> HIDE DEF f, t
  <2>2. /\ t.fp \in Seq(Assignment) /\ t.fp # <<>> /\ Len(t.fp) = Len(NoFingerprint) + 1
        /\ Chain(t.fp) /\ Last(t.fp) = f
    BY <1>1, <1>2, <2>1, ChainAppend
  <2> QED
    BY <1>2, <2>1, <2>2
<1>4. t \in Table /\ TableInv(t)
  BY <1>1, <1>3 DEF Table, FingerprintSet, ScratchTable, TableInv
<1>5. j \in Job
  BY <1>4, IdleFacts DEF Idle, Job, Stage, Handle
<1>6. job' = [job EXCEPT ![p] = j] /\ job'[p] = j
  BY DEF StartScratch, DocTableInv, TypeOK
<1>7. JobInv(p)'
  <2>1. j.at = "save" /\ j.op = "scratch" /\ j.base = NoTable /\ j.new = t /\ j.built = NoIndex
    BY DEF Idle
  <2> HIDE DEF j, t
  <2> QED
    BY <2>1, <1>3, <1>4, <1>6, IdleFacts DEF JobInv
<1> QED
  BY <1>5, <1>6, <1>7, JobStep DEF StartScratch

\* An append starts from the table on disk and extends its chain by one.
LEMMA StartAppendInv ==
    ASSUME DocTableInv, NEW p \in Proc, StartAppend(p)
    PROVE  DocTableInv'
<1> DEFINE f == AppendIds(table.ids, DOMAIN parquet)
           t == AppendTable(table, DOMAIN parquet)
           j == [Idle EXCEPT !.at = "save", !.op = "append", !.base = table, !.new = t]
<1>1. /\ table \in Table /\ table.fp \in Seq(Assignment) /\ table.ids \in Assignment
      /\ table.fp # <<>> /\ Chain(table.fp) /\ table.ids = Last(table.fp)
  BY DEF DocTableInv, TypeOK, TableInv, StartAppend, Table, FingerprintSet, NoFingerprint
<1>2. Len(table.fp) \in Nat \ {0} /\ Dense(table.ids)
  BY <1>1, EmptySeq DEF Chain, Last
<1>3. f \in Assignment /\ Dense(f) /\ Extends(f, table.ids)
  BY <1>1, <1>2, StoredPassages, AppendIdsDense DEF DocTableInv
<1>4. /\ t.ids = f /\ t.fp \in Seq(Assignment) /\ t.fp # <<>>
      /\ Len(t.fp) = Len(table.fp) + 1
      /\ Chain(t.fp) /\ Last(t.fp) = f /\ Front(t.fp) = table.fp
  <2>1. t.ids = f /\ t.fp = Fingerprint(table.fp, f)
    BY DEF AppendTable
  <2> HIDE DEF f, t
  <2> QED
    BY <1>1, <1>3, <2>1, ChainAppend
<1>5. t \in Table /\ TableInv(t)
  BY <1>3, <1>4 DEF Table, FingerprintSet, AppendTable, TableInv
<1>6. j \in Job
  BY <1>1, <1>5, IdleFacts DEF Idle, Job, Stage, Handle
<1>7. job' = [job EXCEPT ![p] = j] /\ job'[p] = j
  BY DEF StartAppend, DocTableInv, TypeOK
<1>8. TableInv(table)
  BY DEF DocTableInv
<1>9. JobInv(p)'
  <2> HIDE DEF t
  <2>1. Len(t.fp) > 1
    BY <1>2, <1>4
  <2>2. j.at = "save" /\ j.op = "append" /\ j.base = table /\ j.new = t /\ j.built = NoIndex
    BY DEF Idle
  <2> HIDE DEF j
  <2> QED
    BY <2>1, <2>2, <1>1, <1>4, <1>5, <1>7, <1>8, IdleFacts DEF JobInv, NoFingerprint
<1> QED
  BY <1>6, <1>7, <1>9, JobStep DEF StartAppend

\* An index build holds the table it read, and that is a chain.
LEMMA StartIndexInv ==
    ASSUME DocTableInv, NEW p \in Proc, NEW k \in Kind, StartIndex(p, k)
    PROVE  DocTableInv'
<1> DEFINE j == [Idle EXCEPT !.at = "scan", !.op = "index", !.base = table, !.kind = {k}]
<1>1. table \in Table /\ TableInv(table)
  BY DEF DocTableInv, TypeOK
<1>2. j \in Job
  BY <1>1, IdleFacts DEF Idle, Job, Stage, Handle
<1>3. job' = [job EXCEPT ![p] = j] /\ job'[p] = j
  BY DEF StartIndex, DocTableInv, TypeOK
<1>4. JobInv(p)'
  <2>1. j.at = "scan" /\ j.base = table /\ j.new = NoTable /\ j.built = NoIndex
    BY DEF Idle
  <2> HIDE DEF j
  <2> QED
    BY <2>1, <1>1, <1>3, IdleFacts DEF JobInv
<1> QED
  BY <1>2, <1>3, <1>4, JobStep DEF StartIndex

\* What a scan posts carries the doc_ids of the table it holds.
LEMMA ScanPassagesInv ==
    ASSUME DocTableInv, NEW p \in Proc, ScanPassages(p)
    PROVE  DocTableInv'
<1> DEFINE b      == job[p].base
           posted == DOMAIN parquet \cap DOMAIN b.ids
           x      == [fp   |-> b.fp, ids  |-> [d \in posted |-> b.ids[d]],
                      text |-> [d \in posted |-> parquet[d]]]
           j      == [job[p] EXCEPT !.at = "publish", !.base = NoTable, !.built = x]
<1>1. job[p] \in Job /\ b \in Table /\ TableInv(b) /\ TableInv(job[p].new)
  BY DEF DocTableInv, TypeOK, JobInv, Job
<1>2. x \in Index
  <2>1. PICK D \in SUBSET Passage : b.ids \in [D -> DocId]
    BY <1>1 DEF Table, Assignment
  <2>2. PICK P \in SUBSET Passage : parquet \in [P -> Version]
    BY DEF DocTableInv, TypeOK, Text
  <2>3. posted \in SUBSET Passage
    BY <2>1
  <2>4. /\ [d \in posted |-> b.ids[d]] \in [posted -> DocId]
        /\ [d \in posted |-> parquet[d]] \in [posted -> Version]
    BY <2>1, <2>2
  <2>5. b.fp \in FingerprintSet
    BY <1>1 DEF Table
  <2> HIDE DEF posted
  <2> QED
    BY <2>3, <2>4, <2>5 DEF Index, Assignment, Text
<1>3. IndexInv(x)
  <2>1. b.fp = <<>> => posted = {}
    BY <1>1 DEF TableInv, EmptyMap
  <2>2. b.fp = <<>> => x.ids = EmptyMap
    BY <2>1 DEF EmptyMap
  <2>3. b.fp # <<>> => Extends(Last(b.fp), x.ids)
    BY <1>1 DEF TableInv, Extends
  <2> QED
    BY <1>1, <2>2, <2>3 DEF IndexInv, TableInv
<1>4. j \in Job
  BY <1>1, <1>2, IdleFacts DEF Job, Stage
<1>5. job' = [job EXCEPT ![p] = j] /\ job'[p] = j
  BY DEF ScanPassages, DocTableInv, TypeOK
<1>6. j.at = "publish" /\ j.base = NoTable /\ j.new = job[p].new /\ j.built = x
  BY <1>1 DEF Job
<1>7. JobInv(p)'
  <2> HIDE DEF j, x
  <2> QED
    BY <1>1, <1>3, <1>5, <1>6, IdleFacts DEF JobInv
<1> QED
  BY <1>4, <1>5, <1>7, JobStep DEF ScanPassages

\* What a job holds counts only for what it does next: a process that goes on to another step
\* of saving, with the same in hand, keeps its part of the invariant.
LEMMA SavingJob ==
    ASSUME DocTableInv, NEW p \in Proc, job[p].at \in {"save", "fill"},
           NEW at \in {"fill", "rename"}, NEW fd \in Handle
    PROVE  LET j == [job[p] EXCEPT !.at = at, !.fd = fd]
           IN  /\ j \in Job /\ j.at = at
               /\ TableInv(j.base) /\ TableInv(j.new) /\ IndexInv(j.built)
               /\ j.op = "scratch" => Len(j.new.fp) = 1
               /\ j.op # "scratch" =>
                     Exists(j.base) /\ Len(j.new.fp) > 1 /\ Front(j.new.fp) = j.base.fp
<1> DEFINE j == [job[p] EXCEPT !.at = at, !.fd = fd]
<1>1. job[p] \in Job /\ JobInv(p)
  BY DEF DocTableInv, TypeOK
<1>2. /\ j \in Job /\ j.at = at /\ j.op = job[p].op
      /\ j.base = job[p].base /\ j.new = job[p].new /\ j.built = job[p].built
  BY <1>1 DEF Job, Stage
<1> HIDE DEF j
<1>3. job[p].at \in {"save", "fill", "rename"}
  OBVIOUS
<1>4. /\ TableInv(j.base) /\ TableInv(j.new) /\ IndexInv(j.built)
      /\ j.op = "scratch" => Len(j.new.fp) = 1
      /\ j.op # "scratch" => Exists(j.base) /\ Len(j.new.fp) > 1 /\ Front(j.new.fp) = j.base.fp
  BY <1>1, <1>2, <1>3 DEF JobInv
<1> QED
  BY <1>2, <1>4 DEF j

\* Of a process that only waits, the invariant says what the owner of the table and the sidecar
\* leave it: it holds after a step that makes the table nobody's or leaves both alone.
LEMMA WaitingJob ==
    ASSUME NEW q \in Proc, JobInv(q), job'[q] = job[q],
           UNCHANGED <<table, owner, settled>> \/ owner' = {}
    PROVE  JobInv(q)'
<1>1. CASE UNCHANGED <<table, owner, settled>>
  BY <1>1 DEF JobInv
<1>2. CASE owner' = {}
  <2>1. owner' # {q}
    BY <1>2
  <2> QED
    BY <2>1 DEF JobInv
<1> QED
  BY <1>1, <1>2

\* Opening the temporary file empties it, and nothing a reader looks at.
LEMMA OpenTempInv ==
    ASSUME DocTableInv, NEW p \in Proc, OpenTemp(p)
    PROVE  DocTableInv'
<1> DEFINE j == [job[p] EXCEPT !.at = "fill", !.fd = "temp"]
<1>1. job[p] \in Job /\ job[p].at = "save"
  BY DEF DocTableInv, TypeOK, OpenTemp
<1>2. /\ j \in Job /\ j.at = "fill"
      /\ TableInv(j.base) /\ TableInv(j.new) /\ IndexInv(j.built)
      /\ j.op = "scratch" => Len(j.new.fp) = 1
      /\ j.op # "scratch" => Exists(j.base) /\ Len(j.new.fp) > 1 /\ Front(j.new.fp) = j.base.fp
  BY <1>1, SavingJob DEF Handle
<1> HIDE DEF j
<1>3. /\ job' = [job EXCEPT ![p] = j] /\ temp' = {NoTable}
      /\ UNCHANGED <<parquet, table, lineage, index, owner, settled, renumbered>>
  BY DEF OpenTemp, history, j
<1>4. job'[p] = j /\ job' \in [Proc -> Job] /\ \A q \in Proc : q # p => job'[q] = job[q]
  BY <1>2, <1>3 DEF DocTableInv, TypeOK
<1>5. TypeOK' /\ \A t \in temp' : TableInv(t)
  BY <1>3, <1>4, IdleFacts DEF DocTableInv, TypeOK
<1>6. \A q \in Proc : JobInv(q)'
  <2>1. JobInv(p)'
    BY <1>2, <1>4 DEF JobInv
  <2>2. ASSUME NEW q \in Proc, q # p PROVE JobInv(q)'
    BY <1>3, <1>4, <2>2, WaitingJob DEF DocTableInv
  <2> QED
    BY <2>1, <2>2
<1>7. LineageInv' /\ LineageNamesAncestor' /\ SettledNamesPredecessor'
  BY <1>3 DEF DocTableInv, LineageInv, LineageNamesAncestor, SettledNamesPredecessor
<1> QED
  BY <1>3, <1>5, <1>6, <1>7 DEF DocTableInv

\* What is written through a handle, the table or a torn one, is the table on disk where the
\* file was renamed meanwhile: then nothing is said of the sidecar.
LEMMA FillInv ==
    ASSUME DocTableInv, NEW p \in Proc, NEW t \in Table, TableInv(t), Fill(p, t),
           UNCHANGED <<parquet, lineage, index>>
    PROVE  /\ table' \in Table /\ temp' \in SUBSET Table /\ owner' \in SUBSET Proc
           /\ settled' \in BOOLEAN /\ renumbered' \in BOOLEAN
           /\ TableInv(table)' /\ \A u \in temp' : TableInv(u)
           /\ UNCHANGED <<table, owner, settled>> \/ owner' = {}
           /\ LineageInv' /\ LineageNamesAncestor' /\ SettledNamesPredecessor'
<1>0. /\ table \in Table /\ temp \in SUBSET Table /\ owner \in SUBSET Proc
      /\ settled \in BOOLEAN /\ renumbered \in BOOLEAN
      /\ TableInv(table) /\ \A u \in temp : TableInv(u)
      /\ LineageInv /\ LineageNamesAncestor /\ SettledNamesPredecessor
  BY DEF DocTableInv, TypeOK
<1>1. CASE temp' = {t} /\ UNCHANGED <<table, history>>
  BY <1>0, <1>1 DEF history, LineageInv, LineageNamesAncestor, SettledNamesPredecessor
<1>2. CASE /\ table' = t /\ owner' = {} /\ settled' = FALSE /\ renumbered' = TRUE
           /\ UNCHANGED temp
  BY <1>0, <1>2 DEF LineageInv, LineageNamesAncestor, SettledNamesPredecessor
<1>3. CASE UNCHANGED <<table, temp, history>>
  BY <1>0, <1>3 DEF history, LineageInv, LineageNamesAncestor, SettledNamesPredecessor
<1> QED
  BY <1>1, <1>2, <1>3 DEF Fill

\* A process that dies is one that is idle again; of the files, the one it wrote may be torn.
LEMMA CrashInv ==
    ASSUME DocTableInv, NEW p \in Proc, Crash(p)
    PROVE  DocTableInv'
<1>1. /\ job' = [job EXCEPT ![p] = Idle] /\ UNCHANGED <<parquet, lineage, index>>
      /\ job' \in [Proc -> Job] /\ job'[p] = Idle
      /\ \A q \in Proc : q # p => job'[q] = job[q]
  BY IdleFacts DEF Crash, DocTableInv, TypeOK
<1>2. JobInv(p)'
  BY <1>1, IdleFacts DEF JobInv, Idle
<1>3. CASE UNCHANGED <<table, temp, history>>
  BY <1>1, <1>2, <1>3, IdleFacts, JobStep DEF files
<1>4. CASE Fill(p, NoTable)
  <2>1. /\ table' \in Table /\ temp' \in SUBSET Table /\ owner' \in SUBSET Proc
        /\ settled' \in BOOLEAN /\ renumbered' \in BOOLEAN
        /\ TableInv(table)' /\ \A u \in temp' : TableInv(u)
        /\ UNCHANGED <<table, owner, settled>> \/ owner' = {}
        /\ LineageInv' /\ LineageNamesAncestor' /\ SettledNamesPredecessor'
    BY <1>1, <1>4, IdleFacts, FillInv
  <2>2. TypeOK'
    BY <1>1, <2>1 DEF DocTableInv, TypeOK
  <2>3. ASSUME NEW q \in Proc, q # p PROVE JobInv(q)'
    BY <1>1, <2>1, <2>3, WaitingJob DEF DocTableInv
  <2> QED
    BY <1>1, <1>2, <2>1, <2>2, <2>3 DEF DocTableInv
<1> QED
  BY <1>3, <1>4 DEF Crash

\* The write, to the file that was opened, under whatever name it is by now.
LEMMA WriteTempInv ==
    ASSUME DocTableInv, NEW p \in Proc, WriteTemp(p)
    PROVE  DocTableInv'
<1> DEFINE j == [job[p] EXCEPT !.at = "rename", !.fd = "none"]
<1>1. job[p] \in Job /\ job[p].at = "fill" /\ JobInv(p)
  BY DEF DocTableInv, TypeOK, WriteTemp
<1>2. /\ j \in Job /\ j.at = "rename"
      /\ TableInv(j.base) /\ TableInv(j.new) /\ IndexInv(j.built)
      /\ j.op = "scratch" => Len(j.new.fp) = 1
      /\ j.op # "scratch" => Exists(j.base) /\ Len(j.new.fp) > 1 /\ Front(j.new.fp) = j.base.fp
  BY <1>1, SavingJob DEF Handle
<1> HIDE DEF j
<1>3. /\ job' = [job EXCEPT ![p] = j] /\ Fill(p, job[p].new)
      /\ UNCHANGED <<parquet, lineage, index>>
  BY DEF WriteTemp, j
<1>4. job'[p] = j /\ job' \in [Proc -> Job] /\ \A q \in Proc : q # p => job'[q] = job[q]
  BY <1>2, <1>3 DEF DocTableInv, TypeOK
<1>5. job[p].new \in Table /\ TableInv(job[p].new)
  BY <1>1 DEF Job, JobInv
<1>6. /\ table' \in Table /\ temp' \in SUBSET Table /\ owner' \in SUBSET Proc
      /\ settled' \in BOOLEAN /\ renumbered' \in BOOLEAN
      /\ TableInv(table)' /\ \A u \in temp' : TableInv(u)
      /\ UNCHANGED <<table, owner, settled>> \/ owner' = {}
      /\ LineageInv' /\ LineageNamesAncestor' /\ SettledNamesPredecessor'
  BY <1>3, <1>5, FillInv
<1>7. TypeOK'
  BY <1>3, <1>4, <1>6 DEF DocTableInv, TypeOK
<1>8. JobInv(p)'
  BY <1>2, <1>4 DEF JobInv
<1>9. ASSUME NEW q \in Proc, q # p PROVE JobInv(q)'
  BY <1>4, <1>6, <1>9, WaitingJob DEF DocTableInv
<1> QED
  BY <1>3, <1>6, <1>7, <1>8, <1>9 DEF DocTableInv

\* The rename: whoever's table it is, the one on disk is a table some build made,
\* and the sidecar still names an ancestor unless the history says otherwise.
LEMMA RenameTempInv ==
    ASSUME DocTableInv, NEW p \in Proc, RenameTemp(p)
    PROVE  DocTableInv'
<1>1. job[p] \in Job /\ JobInv(p) /\ job[p].at = "rename"
  BY DEF DocTableInv, TypeOK, RenameTemp
<1>2. CASE /\ job' = [job EXCEPT ![p] = Idle] /\ UNCHANGED <<table, temp, history>>
  <2>1. UNCHANGED <<parquet, files, history>> /\ job' = [job EXCEPT ![p] = Idle]
    BY <1>2 DEF RenameTemp, files, history
  <2>2. job'[p] = Idle
    BY <2>1 DEF DocTableInv, TypeOK
  <2>3. JobInv(p)'
    BY <2>2, IdleFacts DEF JobInv, Idle
  <2> QED
    BY <2>1, <2>3, IdleFacts, JobStep
<1>3. ASSUME NEW t \in temp,
             /\ table' = t /\ temp' = {}
             /\ owner' = IF t = job[p].new THEN {p} ELSE {}
             /\ settled' = FALSE
             /\ renumbered' = (renumbered \/ ~ Exists(t) \/ Front(t.fp) # table.fp)
             /\ job' = [q \in Proc |->
                   IF q # p THEN Moved(job[q])
                   ELSE [job[p] EXCEPT !.new = NoTable,
                            !.at = IF job[p].op = "scratch" THEN "delete" ELSE "truncate"]]
      PROVE  DocTableInv'
  <2> DEFINE stage == IF job[p].op = "scratch" THEN "delete" ELSE "truncate"
             j     == [job[p] EXCEPT !.new = NoTable, !.at = stage]
  <2>1. /\ table' = t /\ temp' = {}
        /\ owner' = IF t = job[p].new THEN {p} ELSE {}
        /\ settled' = FALSE
        /\ renumbered' = (renumbered \/ ~ Exists(t) \/ Front(t.fp) # table.fp)
        /\ job' = [q \in Proc |-> IF q # p THEN Moved(job[q]) ELSE j]
        /\ UNCHANGED <<parquet, lineage, index>>
    BY <1>3 DEF RenameTemp
  <2>2. /\ j \in Job /\ j.at = stage /\ j.new = NoTable /\ j.base = job[p].base
        /\ j.built = job[p].built
    BY <1>1, IdleFacts DEF Job, Stage
  <2>3. /\ t \in Table /\ table \in Table /\ TableInv(t) /\ TableInv(table)
        /\ t.fp \in Seq(Assignment) /\ Chain(t.fp)
        /\ table.fp \in Seq(Assignment) /\ renumbered \in BOOLEAN /\ owner \in SUBSET Proc
    BY DEF DocTableInv, TypeOK, Table, FingerprintSet, TableInv
  <2>0. ASSUME NEW q \in Proc
        PROVE  /\ Moved(job[q]) \in Job /\ Moved(job[q]).at = job[q].at
               /\ Moved(job[q]).op = job[q].op /\ Moved(job[q]).base = job[q].base
               /\ Moved(job[q]).new = job[q].new /\ Moved(job[q]).built = job[q].built
    <3>1. job[q] \in Job
      BY DEF DocTableInv, TypeOK
    <3>2. PICK h \in Handle : Moved(job[q]) = [job[q] EXCEPT !.fd = h]
      BY <3>1 DEF Moved, Job, Handle
    <3> QED
      BY <3>1, <3>2 DEF Job
  <2>4. TypeOK'
    <3>1. job' \in [Proc -> Job]
      <4> HIDE DEF j
      <4> QED
        BY <2>1, <2>2, <2>0
    <3>2. renumbered' \in BOOLEAN /\ settled' \in BOOLEAN
      BY <2>1
    <3>3. owner' \in SUBSET Proc
      BY <2>1
    <3>4. table' \in Table /\ temp' \in SUBSET Table
      BY <2>1, <2>3
    <3>5. parquet' \in Text /\ lineage' \in Lineage /\ index' \in [Kind -> Index]
      BY <2>1 DEF DocTableInv, TypeOK
    <3> QED
      BY <3>1, <3>2, <3>3, <3>4, <3>5 DEF TypeOK
  <2>5. TableInv(table)' /\ (\A u \in temp' : TableInv(u)) /\ \A k \in Kind : IndexInv(index[k])'
    BY <2>1, <2>3 DEF DocTableInv
  <2>6. ASSUME NEW q \in Proc PROVE JobInv(q)'
    <3>1. JobInv(q)
      BY DEF DocTableInv
    <3>2. CASE q = p
      <4>1. job'[p] = j
        BY <2>1
      <4>2. /\ TableInv(j.base) /\ TableInv(j.new) /\ IndexInv(j.built)
            /\ j.at \in {"truncate", "write"} => Exists(j.base)
            /\ j.at \notin {"save", "fill", "rename"}
        BY <1>1, <2>2, IdleFacts DEF JobInv
      <4>3. j.at = "delete" /\ owner' = {p} => Len(table'.fp) = 1
        <5>1. owner' = {p} => table' = job[p].new
          BY <2>1
        <5> QED
          BY <1>1, <2>2, <5>1 DEF JobInv
      <4>4. j.at \in {"truncate", "write"} /\ owner' = {p} =>
              Len(table'.fp) > 1 /\ Front(table'.fp) = j.base.fp
        <5>1. owner' = {p} => table' = job[p].new
          BY <2>1
        <5> QED
          BY <1>1, <2>2, <5>1 DEF JobInv
      <4> HIDE DEF j
      <4> QED
        BY <2>1, <3>2, <4>1, <4>2, <4>3, <4>4 DEF JobInv
    <3>3. CASE q # p
      <4>1. job'[q] = Moved(job[q]) /\ owner' # {q}
        BY <2>1, <3>3
      <4>2. /\ job'[q].at = job[q].at /\ job'[q].op = job[q].op /\ job'[q].base = job[q].base
            /\ job'[q].new = job[q].new /\ job'[q].built = job[q].built
        BY <2>0, <4>1
      <4> QED
        BY <3>1, <4>1, <4>2 DEF JobInv
    <3> QED
      BY <3>2, <3>3
  <2>7. LineageInv' /\ SettledNamesPredecessor'
    BY <2>1 DEF DocTableInv, LineageInv, SettledNamesPredecessor
  <2>8. LineageNamesAncestor'
    <3> SUFFICES ASSUME ~ renumbered', lineage.state = "whole"
                 PROVE  /\ IsAncestor(lineage.base_fp, t.fp)
                        /\ lineage.base_doc_count
                              = Cardinality(DOMAIN Last(lineage.base_fp))
      BY <2>1 DEF LineageNamesAncestor
    <3>1. ~ renumbered /\ t.fp # <<>> /\ Front(t.fp) = table.fp
      BY <2>1 DEF NoFingerprint
    <3>2. IsAncestor(lineage.base_fp, table.fp)
          /\ lineage.base_doc_count = Cardinality(DOMAIN Last(lineage.base_fp))
      BY <3>1 DEF DocTableInv, LineageNamesAncestor
    <3>3. IsAncestor(lineage.base_fp, t.fp)
      BY <2>3, <3>1, <3>2, AncestorOfFront DEF DocTableInv, TypeOK, Lineage, FingerprintSet
    <3> QED
      BY <3>2, <3>3
  <2> QED
    BY <2>4, <2>5, <2>6, <2>7, <2>8 DEF DocTableInv
<1> QED
  BY <1>2, <1>3 DEF RenameTemp

\* Without a sidecar nothing false is named; a table built from scratch has none.
LEMMA DeleteLineageInv ==
    ASSUME DocTableInv, NEW p \in Proc, DeleteLineage(p)
    PROVE  DocTableInv'
<1>1. job[p] \in Job /\ JobInv(p) /\ job[p].at = "delete"
  BY DEF DocTableInv, TypeOK, DeleteLineage
<1>2. /\ lineage' = NoLineage /\ settled' = (owner = {p}) /\ renumbered' = FALSE
      /\ job' = [job EXCEPT ![p] = Idle] /\ UNCHANGED <<parquet, table, temp, index, owner>>
  BY DEF DeleteLineage
<1>3. job'[p] = Idle /\ \A q \in Proc : q # p => job'[q] = job[q]
  BY <1>2 DEF DocTableInv, TypeOK
<1>4. TypeOK'
  BY <1>2, IdleFacts, LineageFacts DEF DocTableInv, TypeOK
<1>5. ASSUME NEW q \in Proc PROVE JobInv(q)'
  <2>1. CASE q = p
    BY <1>3, <2>1, IdleFacts DEF JobInv, Idle
  <2>2. CASE q # p
    <3>1. JobInv(q) /\ job'[q] = job[q] /\ (owner = {q} => settled' = FALSE)
      BY <1>2, <1>3, <2>2 DEF DocTableInv
    <3> QED
      BY <1>2, <3>1 DEF JobInv
  <2> QED
    BY <2>1, <2>2
<1>6. LineageInv' /\ LineageNamesAncestor'
  BY <1>2, LineageFacts DEF LineageInv, LineageNamesAncestor
<1>7. SettledNamesPredecessor'
  <2>0. owner = {p} => Len(table.fp) = 1
    BY <1>1 DEF JobInv
  <2>1. Len(table.fp) = 1 => ~ (Len(table.fp) > 1)
    OBVIOUS
  <2>2. settled' => owner = {p}
    BY <1>2
  <2>3. table' = table /\ lineage'.state = "absent"
    BY <1>2, LineageFacts
  <2> QED
    BY <2>0, <2>1, <2>2, <2>3, Zenon DEF SettledNamesPredecessor
<1> QED
  BY <1>2, <1>4, <1>5, <1>6, <1>7 DEF DocTableInv

\* A truncated sidecar names nothing, so nothing false.
LEMMA TruncateLineageInv ==
    ASSUME DocTableInv, NEW p \in Proc, TruncateLineage(p)
    PROVE  DocTableInv'
<1> DEFINE j == [job[p] EXCEPT !.at = "write"]
<1>1. job[p] \in Job /\ JobInv(p) /\ job[p].at = "truncate"
  BY DEF DocTableInv, TypeOK, TruncateLineage
<1>2. /\ lineage' = TornLineage /\ settled' = FALSE /\ renumbered' = FALSE
      /\ job' = [job EXCEPT ![p] = j] /\ UNCHANGED <<parquet, table, temp, index, owner>>
  BY DEF TruncateLineage
<1>3. /\ j \in Job /\ j.at = "write" /\ j.base = job[p].base /\ j.new = job[p].new
      /\ j.built = job[p].built
  BY <1>1 DEF Job, Stage
<1>4. job'[p] = j /\ \A q \in Proc : q # p => job'[q] = job[q]
  BY <1>2 DEF DocTableInv, TypeOK
<1>5. TypeOK'
  BY <1>2, <1>3, LineageFacts DEF DocTableInv, TypeOK
<1>6. ASSUME NEW q \in Proc PROVE JobInv(q)'
  <2>1. CASE q = p
    <3> HIDE DEF j
    <3> QED
      BY <1>1, <1>2, <1>3, <1>4, <2>1 DEF JobInv
  <2>2. CASE q # p
    <3>1. JobInv(q) /\ job'[q] = job[q]
      BY <1>4, <2>2 DEF DocTableInv
    <3> QED
      BY <1>2, <3>1 DEF JobInv
  <2> QED
    BY <2>1, <2>2
<1>7. LineageInv' /\ LineageNamesAncestor' /\ SettledNamesPredecessor'
  BY <1>2, LineageFacts DEF LineageInv, LineageNamesAncestor, SettledNamesPredecessor
<1> QED
  BY <1>2, <1>5, <1>6, <1>7 DEF DocTableInv

\* The sidecar then written names the predecessor if the table is still this
\* process's own, and the history says so if it is not.
LEMMA WriteLineageInv ==
    ASSUME DocTableInv, NEW p \in Proc, WriteLineage(p)
    PROVE  DocTableInv'
<1> DEFINE b == job[p].base
<1>1. job[p] \in Job /\ JobInv(p) /\ job[p].at = "write"
  BY DEF DocTableInv, TypeOK, WriteLineage
<1>2. /\ job' = [job EXCEPT ![p] = Idle] /\ UNCHANGED <<parquet, table, temp, index, owner>>
      /\ \/ UNCHANGED <<lineage, settled, renumbered>>
         \/ /\ lineage' = LineageOf(b)
            /\ settled' = (owner = {p}) /\ renumbered' = (owner # {p})
  BY DEF WriteLineage
<1>3. job'[p] = Idle /\ \A q \in Proc : q # p => job'[q] = job[q]
  BY <1>2 DEF DocTableInv, TypeOK
<1>4. b \in Table /\ TableInv(b) /\ b.fp # <<>> /\ b.fp \in Seq(Assignment)
  BY <1>1 DEF Job, JobInv, Table, FingerprintSet, NoFingerprint
<1>5. LineageOf(b) \in Lineage /\ LineageOf(b).state = "whole"
      /\ LineageOf(b).base_fp = b.fp
      /\ LineageOf(b).base_doc_count = Cardinality(DOMAIN Last(b.fp))
  BY <1>4, LineageFacts DEF TableInv
<1>6. TypeOK'
  BY <1>2, <1>5, IdleFacts DEF DocTableInv, TypeOK
<1>7. ASSUME NEW q \in Proc PROVE JobInv(q)'
  <2>1. CASE q = p
    BY <1>3, <2>1, IdleFacts DEF JobInv, Idle
  <2>2. CASE q # p
    <3>1. /\ JobInv(q) /\ job'[q] = job[q]
          /\ owner = {q} => settled' = FALSE \/ settled' = settled
      BY <1>2, <1>3, <2>2 DEF DocTableInv
    <3> QED
      BY <1>2, <3>1 DEF JobInv
  <2> QED
    BY <2>1, <2>2
<1>8. CASE UNCHANGED <<lineage, settled, renumbered>>
  <2>1. LineageInv' /\ LineageNamesAncestor' /\ SettledNamesPredecessor'
    BY <1>2, <1>8 DEF DocTableInv, LineageInv, LineageNamesAncestor, SettledNamesPredecessor
  <2> QED
    BY <1>2, <1>6, <1>7, <2>1 DEF DocTableInv
<1>9. CASE /\ lineage' = LineageOf(b)
           /\ settled' = (owner = {p}) /\ renumbered' = (owner # {p})
  <2> HIDE DEF b
  <2>1. LineageInv'
    BY <1>4, <1>5, <1>9 DEF LineageInv, TableInv
  <2>2. owner = {p} => Len(table.fp) > 1 /\ Front(table.fp) = b.fp
    BY <1>1 DEF JobInv, b
  <2>3. table.fp \in Seq(Assignment) /\ Len(table.fp) \in Nat
        /\ (Len(table.fp) > 1 => table.fp # <<>>)
    BY EmptySeq, LenProperties DEF DocTableInv, TypeOK, Table, FingerprintSet
  <2>4. owner = {p} => IsAncestor(b.fp, table.fp)
    BY <2>2, <2>3, FrontAncestor
  <2>5. LineageNamesAncestor'
    BY <1>2, <1>5, <1>9, <2>4 DEF LineageNamesAncestor
  <2>6. SettledNamesPredecessor'
    <3>1. settled' => owner = {p}
      BY <1>9
    <3>2. owner = {p} => lineage'.state = "whole" /\ lineage'.base_fp = Front(table.fp)
      <4>1. lineage'.state = "whole" /\ lineage'.base_fp = b.fp
        BY <1>5, <1>9
      <4> QED
        BY <4>1, <2>2
    <3>4. owner = {p} => Len(table.fp) # 1
      <4>1. \A n \in Nat : n > 1 => n # 1
        OBVIOUS
      <4> QED
        BY <4>1, <2>2, <2>3, Zenon
    <3>3. table' = table
      BY <1>2
    <3> QED
      BY <3>1, <3>2, <3>3, <3>4, Zenon DEF SettledNamesPredecessor
  <2> QED
    BY <1>2, <1>6, <1>7, <2>1, <2>5, <2>6 DEF DocTableInv
<1> QED
  BY <1>2, <1>8, <1>9

\* An index that is published carries a chain it extends.
LEMMA PublishIndexInv ==
    ASSUME DocTableInv, NEW p \in Proc, PublishIndex(p)
    PROVE  DocTableInv'
<1>1. job[p] \in Job /\ JobInv(p) /\ job[p].built \in Index /\ IndexInv(job[p].built)
  BY DEF DocTableInv, TypeOK, JobInv, Job
<1>2. /\ index' = [k \in Kind |-> IF k \in job[p].kind THEN job[p].built ELSE index[k]]
      /\ job' = [job EXCEPT ![p] = Idle]
      /\ UNCHANGED <<parquet, table, temp, lineage, history>>
  BY DEF PublishIndex
<1>3. index' \in [Kind -> Index] /\ \A k \in Kind : IndexInv(index[k])'
  BY <1>1, <1>2 DEF DocTableInv, TypeOK
<1>4. TypeOK'
  BY <1>2, <1>3, IdleFacts DEF DocTableInv, TypeOK, history
<1>5. ASSUME NEW q \in Proc PROVE JobInv(q)'
  <2>1. CASE q = p
    <3>1. job'[q] = Idle
      BY <1>2, <2>1 DEF DocTableInv, TypeOK
    <3> QED
      BY <3>1, IdleFacts DEF JobInv, Idle
  <2>2. CASE q # p
    <3>1. JobInv(q) /\ job'[q] = job[q]
      BY <1>2, <2>2 DEF DocTableInv, TypeOK
    <3> QED
      BY <1>2, <3>1 DEF JobInv, history
  <2> QED
    BY <2>1, <2>2
<1>6. LineageInv' /\ LineageNamesAncestor' /\ SettledNamesPredecessor'
  BY <1>2 DEF DocTableInv, LineageInv, LineageNamesAncestor, SettledNamesPredecessor, history
<1> QED
  BY <1>2, <1>3, <1>4, <1>5, <1>6 DEF DocTableInv

-----------------------------------------------------------------------------
(* Theorems.                                                               *)

\* A step of a process, of the store, or none, preserves DocTableInv.
LEMMA NextInv ==
    ASSUME DocTableInv, [Next]_vars
    PROVE  DocTableInv'
<1>1. CASE Store
  BY <1>1, StoreInv
<1>2. ASSUME NEW p \in Proc, Step(p) PROVE DocTableInv'
  <2>1. ASSUME NEW k \in Kind, BuildIndex(p, k) \/ BuildIfNotCurrent(p, k)
        PROVE  DocTableInv'
    BY <2>1, StartIndexInv DEF BuildIndex, BuildIfNotCurrent
  <2> QED
    BY <1>2, <2>1, StartScratchInv, StartAppendInv, OpenTempInv, WriteTempInv, RenameTempInv,
       DeleteLineageInv, TruncateLineageInv, WriteLineageInv, ScanPassagesInv,
       PublishIndexInv, CrashInv DEF Step, Work
<1>3. CASE UNCHANGED vars
  <2>1. UNCHANGED <<parquet, table, temp, lineage, index, job, owner, settled, renumbered>>
    BY <1>3 DEF vars
  <2>2. TypeOK' /\ \A p \in Proc : JobInv(p)'
    BY <2>1 DEF DocTableInv, TypeOK, JobInv
  <2> QED
    BY <2>1, <2>2 DEF DocTableInv, LineageInv, LineageNamesAncestor,
                      SettledNamesPredecessor
<1> QED
  BY <1>1, <1>2, <1>3 DEF Next

\* DocTableInv is inductive: whatever sequence of builds, crashes, races and
\* store changes ran, it holds of the files and of every job in flight.
THEOREM DocTableInvariant == Spec => []DocTableInv
<1>1. Init => DocTableInv
  BY InitInv
<1>2. DocTableInv /\ [Next]_vars => DocTableInv'
  BY NextInv
<1> QED
  BY <1>1, <1>2, PTL DEF Spec

\* Every variable keeps its type: in particular doc_ids stay below the number of
\* passages, however the table was built.
THEOREM TypeCorrect == Spec => []TypeOK
<1>1. DocTableInv => TypeOK
  BY DEF DocTableInv
<1> QED
  BY <1>1, DocTableInvariant, PTL

\* The table on disk always numbers its passages 0..n-1 without collision
\* (document_table.rs from_parquet and append_from_parquet).
THEOREM DocIdsAlwaysDense == Spec => []DocIdsDense
<1>1. DocTableInv => DocIdsDense
  <2> SUFFICES ASSUME DocTableInv PROVE DocIdsDense
    OBVIOUS
  <2>1. CASE table.fp = <<>>
    <3>1. DOMAIN table.ids = {}
      BY <2>1, EmptyMapFacts DEF DocTableInv, TableInv
    <3> QED
      BY <3>1 DEF DocIdsDense
  <2>2. CASE table.fp # <<>>
    <3>1. table.fp \in Seq(Assignment) /\ Chain(table.fp) /\ table.ids = Last(table.fp)
      BY <2>2 DEF DocTableInv, TypeOK, Table, FingerprintSet, TableInv
    <3>2. Len(table.fp) \in 1 .. Len(table.fp)
      BY <2>2, <3>1, EmptySeq
    <3> QED
      BY <3>1, <3>2 DEF Chain, Last, Dense, DocIdsDense
  <2> QED
    BY <2>1, <2>2
<1> QED
  BY <1>1, DocTableInvariant, PTL

\* An index that match_index_fingerprint accepts as Full resolves every doc_id
\* it posts to the passage it was posted for: equal fingerprints are enough.
THEOREM FullCoverageSound == Spec => []FullCoverageResolves
<1>1. DocTableInv => FullCoverageResolves
  <2> SUFFICES ASSUME DocTableInv, NEW k \in Kind, index[k].fp = table.fp
               PROVE  Resolves(k)
    BY DEF FullCoverageResolves, CoverageOf, MatchIndexFingerprint
  <2>1. TableInv(table) /\ IndexInv(index[k])
    BY DEF DocTableInv
  <2>2. CASE table.fp = <<>>
    BY <2>1, <2>2, EmptyMapFacts DEF IndexInv, Resolves
  <2>3. CASE table.fp # <<>>
    BY <2>1, <2>3 DEF TableInv, IndexInv, Extends, Resolves
  <2> QED
    BY <2>2, <2>3
<1> QED
  BY <1>1, DocTableInvariant, PTL

\* Nor does Base coverage ever misresolve, outside the window in which the table
\* was renumbered and the sidecar is not settled: appends are safe to interrupt.
THEOREM BaseCoverageSound == Spec => []BaseCoverageResolves
<1>1. DocTableInv => BaseCoverageResolves
  <2> SUFFICES ASSUME DocTableInv, ~ renumbered, NEW k \in Kind,
                      CoverageOf(k) = "base"
               PROVE  /\ Resolves(k)
                      /\ \A p \in DOMAIN index[k].ids :
                            index[k].ids[p] < lineage.base_doc_count
    BY DEF BaseCoverageResolves, BaseResolves
  <2>1. lineage.state = "whole" /\ index[k].fp = lineage.base_fp
    BY DEF CoverageOf, MatchIndexFingerprint
  <2> DEFINE a == lineage.base_fp
  <2>2. /\ a \in Seq(Assignment) /\ a # <<>> /\ Chain(a) /\ IsAncestor(a, table.fp)
        /\ lineage.base_doc_count = Cardinality(DOMAIN Last(a))
        /\ table.fp \in Seq(Assignment) /\ TableInv(table)
    BY <2>1 DEF DocTableInv, TypeOK, Lineage, Table, FingerprintSet, LineageInv,
                LineageNamesAncestor
  <2>3. Extends(Last(a), index[k].ids)
    BY <2>1, <2>2 DEF DocTableInv, IndexInv
  <2>4. Extends(table.ids, Last(a))
    BY <2>2, AncestorExtends DEF TableInv
  <2>5. Dense(Last(a))
    <3>1. Len(a) \in 1 .. Len(a)
      BY <2>2, EmptySeq
    <3> QED
      BY <2>2, <3>1 DEF Chain, Last
  <2>6. Resolves(k)
    BY <2>3, <2>4 DEF Extends, Resolves
  <2>7. \A p \in DOMAIN index[k].ids : index[k].ids[p] < lineage.base_doc_count
    BY <2>2, <2>3, <2>5 DEF Extends, Dense
  <2> QED
    BY <2>6, <2>7
<1> QED
  BY <1>1, DocTableInvariant, PTL

\* Once an append has written its sidecar, the indexes of the table it extended
\* are accepted as Base: an append does not force a rebuild.
THEOREM PredecessorStaysAccepted == Spec => []PredecessorAccepted
<1>1. DocTableInv => PredecessorAccepted
  <2> SUFFICES ASSUME DocTableInv, settled, Len(table.fp) > 1, NEW k \in Kind,
                      index[k].fp = Front(table.fp)
               PROVE  CoverageOf(k) = "base"
    BY DEF PredecessorAccepted
  <2>1. table.fp \in Seq(Assignment) /\ Len(table.fp) \in Nat
    BY LenProperties DEF DocTableInv, TypeOK, Table, FingerprintSet
  <2>2. table.fp # <<>>
    BY <2>1, EmptySeq
  <2>3. lineage.state = "whole" /\ lineage.base_fp = Front(table.fp)
    BY <2>1, <2>2 DEF DocTableInv, SettledNamesPredecessor, NoFingerprint
  <2>4. index[k].fp # table.fp
    <3>1. Len(Front(table.fp)) = Len(table.fp) - 1
      BY <2>1, <2>2, FrontAncestor
    <3> QED
      BY <2>1, <3>1
  <2> QED
    BY <2>2, <2>3, <2>4 DEF CoverageOf, MatchIndexFingerprint, NoFingerprint
<1> QED
  BY <1>1, DocTableInvariant, PTL

\* While nothing was renumbered, a readable sidecar names a table that the present
\* one extends, and how many documents that had (write_lineage against Promote).
THEOREM LineageNamesAncestorHolds == Spec => []LineageNamesAncestor
<1>1. DocTableInv => LineageNamesAncestor
  BY DEF DocTableInv
<1> QED
  BY <1>1, DocTableInvariant, PTL

\* Once a build has settled its sidecar, the sidecar names the table's immediate
\* predecessor, and there is none after a build from scratch.
THEOREM SettledNamesPredecessorHolds == Spec => []SettledNamesPredecessor
<1>1. DocTableInv => SettledNamesPredecessor
  BY DEF DocTableInv
<1> QED
  BY <1>1, DocTableInvariant, PTL

\* What the coverage check accepts resolves, whether as Full or as Base.
THEOREM CoverageIsSoundHolds == Spec => []CoverageIsSound
<1>1. FullCoverageResolves /\ BaseCoverageResolves => CoverageIsSound
  BY DEF CoverageIsSound
<1> QED
  BY <1>1, FullCoverageSound, BaseCoverageSound, PTL

\* Whoever writes the temporary file late, renames the table of another or dies in between: while
\* nothing was renumbered or overwritten the sidecar names an ancestor of the table, and once a
\* build has settled it for the table that is there, the predecessor.
THEOREM LineageIsTrueHolds == Spec => []LineageIsTrue
<1>1. LineageNamesAncestor /\ SettledNamesPredecessor => LineageIsTrue
  BY DEF LineageIsTrue
<1> QED
  BY <1>1, LineageNamesAncestorHolds, SettledNamesPredecessorHolds, PTL

-----------------------------------------------------------------------------
(* The engine: the index in use resolves through the table kept.           *)

\* The engine is a client of the files: its steps leave them alone, and every
\* other step is one of DocTable.
THEOREM ServesTheFiles == ServingSpec => Spec
<1>1. ServingInit => Init
  BY DEF ServingInit
<1>2. [ServingNext]_<<vars, serving>> => [Next]_vars
  BY DEF ServingNext, Serve, Outside, LoadTable, ReadHeader, MatchHeader, OpenIndex,
         CloseIndex
<1> QED
  BY <1>1, <1>2, PTL DEF ServingSpec, Spec

-----------------------------------------------------------------------------
\* Only a rename or a late write replaces the table; by a torn one only if the history says so.
LEMMA ReplacedTableExists ==
    ASSUME Next, table' # table, ~ renumbered'
    PROVE  table'.fp # <<>>
<1>1. ~ Store
  BY DEF Store, AddPartition, DeletePartition, files
<1>2. PICK p \in Proc : Step(p)
  BY <1>1 DEF Next
<1>3. \A t : ~ Fill(p, t)
  BY DEF Fill
<1>4. RenameTemp(p)
  BY <1>2, <1>3 DEF Step, Work, StartScratch, StartAppend, OpenTemp, WriteTemp, DeleteLineage,
              TruncateLineage, WriteLineage, BuildIndex, BuildIfNotCurrent, StartIndex,
              ScanPassages, PublishIndex, Crash, files
<1> QED
  BY <1>4 DEF RenameTemp, Exists, NoFingerprint

\* What the invariant of the files says of the table.
LEMMA TableFacts ==
    ASSUME DocTableInv
    PROVE  /\ table \in Table /\ table.fp \in Seq(Assignment) /\ TableInv(table)
           /\ Chain(table.fp)
           /\ Dense(table.ids)
<1>1. table \in Table /\ table.fp \in Seq(Assignment) /\ TableInv(table)
  BY DEF DocTableInv, TypeOK, Table, FingerprintSet
<1>2. CASE table.fp = <<>>
  BY <1>1, <1>2, EmptyMapFacts DEF TableInv
<1>3. CASE table.fp # <<>>
  <2>1. Len(table.fp) \in 1 .. Len(table.fp)
    BY <1>1, <1>3, EmptySeq
  <2> QED
    BY <1>1, <1>3, <2>1 DEF TableInv, Chain, Last
<1> QED
  BY <1>1, <1>2, <1>3 DEF TableInv

\* Whatever was posted under a known fingerprint, the table on disk agrees with.
LEMMA KnownExtends ==
    ASSUME DocTableInv, NEW fp \in Seq(Assignment), Known(fp),
           NEW ids, fp # <<>> => Extends(Last(fp), ids), fp = <<>> => ids = EmptyMap
    PROVE  Extends(table.ids, ids)
<1>1. CASE fp = <<>>
  BY <1>1, EmptyMapFacts DEF Extends
<1>2. CASE fp # <<>>
  <2>1. Extends(Last(table.fp), Last(fp)) /\ table.fp # <<>>
    BY <1>2, TableFacts, AncestorExtends DEF Known
  <2>2. table.ids = Last(table.fp)
    BY <2>1, TableFacts DEF TableInv
  <2> QED
    BY <1>2, <2>1, <2>2, ExtendsTransitive
<1> QED
  BY <1>1, <1>2

-----------------------------------------------------------------------------
\* A step of the others that ends `steady` or none takes what was known to what
\* is known, and what the table agreed with to what it agrees with.
LEMMA AppendingKeeps ==
    ASSUME DocTableInv, DocTableInv', Next, Appending
    PROVE  /\ \A fp \in Seq(Assignment) : Known(fp) => Known(fp)'
           /\ \A ids : Extends(table.ids, ids) => Extends(table'.ids, ids)
<1>1. CASE table' = table
  BY <1>1 DEF Known
<1>2. CASE table' # table
  <2>1. table'.fp # <<>> /\ Front(table'.fp) = table.fp
    BY <1>2, ReplacedTableExists DEF Appending
  <2>2. /\ table'.fp \in Seq(Assignment) /\ Chain(table'.fp) /\ table'.ids = Last(table'.fp)
        /\ table.fp \in Seq(Assignment) /\ TableInv(table)
    BY <2>1, TableFacts DEF DocTableInv, TypeOK, Table, FingerprintSet, TableInv
  <2>3. ASSUME NEW fp \in Seq(Assignment), Known(fp) PROVE IsAncestor(fp, table'.fp)
    BY <2>1, <2>2, <2>3, AncestorOfFront DEF Known
  <2>4. Extends(table'.ids, table.ids)
    <3>1. CASE table.fp = <<>>
      BY <2>2, <3>1, EmptyMapFacts DEF TableInv, Extends
    <3>2. CASE table.fp # <<>>
      <4>1. IsAncestor(table.fp, table'.fp)
        BY <2>1, <2>2, FrontAncestor
      <4> QED
        BY <2>2, <3>2, <4>1, AncestorExtends DEF TableInv
    <3> QED
      BY <3>1, <3>2
  <2> QED
    BY <2>3, <2>4, ExtendsTransitive DEF Known
<1> QED
  BY <1>1, <1>2

-----------------------------------------------------------------------------
\* The engine starts with nothing.
LEMMA ServingInitInv == ServingInit => ServingInv
<1> SUFFICES ASSUME ServingInit PROVE ServingInv
  OBVIOUS
<1>1. NoRequest \in Request /\ NoRequest.at = "idle" /\ NoRequest.ids = EmptyMap
  BY EmptyMapFacts, IdleFacts DEF NoRequest, Request, NoFingerprint, NoTable, Table
<1>2. cached = NoTable /\ cached \in Table /\ TableInv(cached) /\ cached.fp = <<>>
  BY IdleFacts DEF ServingInit
<1> QED
  BY <1>1, <1>2 DEF ServingInit, ServingInv, ServingTypeOK, HeaderInv, MatchedInv, OpenInv,
                    Exists, NoFingerprint

\* A step of the others.
LEMMA OutsideInv ==
    ASSUME DocTableInv, DocTableInv', ServingInv, Outside
    PROVE  ServingInv'
<1>1. ServingTypeOK' /\ TableInv(cached)' /\ (request.at # "open" => request.ids = EmptyMap)'
  <2>1. UNCHANGED <<cached, request>> /\ steady' \in BOOLEAN
    BY DEF Outside, ServingInv, ServingTypeOK
  <2> QED
    BY <2>1 DEF ServingInv, ServingTypeOK, Exists
<1>2. ASSUME steady', Looking
      PROVE  /\ Exists(cached)' => ~ renumbered' /\ Known(cached.fp)'
             /\ HeaderInv' /\ MatchedInv' /\ OpenInv'
  <2>1. steady /\ Next /\ Appending /\ UNCHANGED <<cached, request>>
    BY <1>2 DEF Outside
  <2>2. /\ cached.fp \in Seq(Assignment) /\ request \in Request
        /\ \A k \in Kind : index[k].fp \in Seq(Assignment) /\ index'[k].fp \in Seq(Assignment)
        /\ table.fp \in Seq(Assignment)
    BY TableFacts DEF ServingInv, ServingTypeOK, DocTableInv, TypeOK, Index, Table, FingerprintSet
  <2>3. ASSUME NEW k \in Kind
        PROVE  \/ index'[k] = index[k]
               \/ Known(index'[k].fp)
    BY <2>1 DEF Appending, Known
  <2>4. ASSUME NEW k \in Kind
        PROVE  \/ index'[k] = index[k]
               \/ Known(index[k].fp)'
    <3>1. CASE table' = table
      BY <2>3, <3>1 DEF Known
    <3>2. CASE table' # table
      <4>1. /\ table'.fp # <<>> /\ Front(table'.fp) = table.fp
            /\ table'.fp \in Seq(Assignment)
        BY <2>1, <3>2, ReplacedTableExists DEF Appending, DocTableInv, TypeOK, Table,
                                               FingerprintSet
      <4> QED
        BY <2>2, <2>3, <4>1, AncestorOfFront DEF Known
    <3> QED
      BY <3>1, <3>2
  <2>5. Exists(cached)' => ~ renumbered' /\ Known(cached.fp)'
    <3> SUFFICES ASSUME Exists(cached)' PROVE ~ renumbered' /\ Known(cached.fp)'
      OBVIOUS
    <3>1. Known(cached.fp)
      BY <2>1 DEF ServingInv, Exists
    <3>2. Known(cached.fp)'
      BY <2>1, <2>2, <3>1, AppendingKeeps DEF Known
    <3> QED
      BY <2>1, <3>2 DEF Appending
  <2>6. HeaderInv'
    <3> SUFFICES ASSUME request'.at = "header", NEW k \in request'.kind
                 PROVE  index'[k].fp = request'.fp \/ Known(index[k].fp)'
      BY DEF HeaderInv
    <3>1. k \in Kind
      BY <2>1, <2>2 DEF Request
    <3>2. index[k].fp = request.fp \/ Known(index[k].fp)
      BY <2>1 DEF ServingInv, HeaderInv
    <3>3. Known(index[k].fp) => IsAncestor(index[k].fp, table'.fp)
      BY <2>1, <2>2, <3>1, AppendingKeeps DEF Known
    <3> QED
      BY <2>1, <2>4, <3>1, <3>2, <3>3 DEF Known
  <2>7. MatchedInv'
    <3> SUFFICES ASSUME request'.at = "matched", NEW k \in request'.kind
                 PROVE  Known(index[k].fp)'
      BY DEF MatchedInv
    <3>1. k \in Kind
      BY <2>1, <2>2 DEF Request
    <3>2. Known(index[k].fp)
      BY <2>1 DEF ServingInv, MatchedInv
    <3>3. IsAncestor(index[k].fp, table'.fp)
      BY <2>1, <2>2, <3>1, <3>2, AppendingKeeps DEF Known
    <3> QED
      BY <2>4, <3>1, <3>3 DEF Known
  <2>8. OpenInv'
    BY <2>1, AppendingKeeps DEF ServingInv, OpenInv
  <2> QED
    BY <2>5, <2>6, <2>7, <2>8
<1>3. ASSUME ~ Looking
      PROVE  /\ Exists(cached)' => ~ renumbered' /\ Known(cached.fp)'
             /\ HeaderInv' /\ MatchedInv' /\ OpenInv'
  BY <1>3 DEF Looking, Outside, HeaderInv, MatchedInv, OpenInv, Exists
<1> QED
  BY <1>1, <1>2, <1>3 DEF ServingInv

\* The types of the files that the steps of the engine read.
LEMMA FileTypes ==
    ASSUME DocTableInv
    PROVE  /\ \A k \in Kind : /\ index[k].fp \in FingerprintSet
                              /\ index[k].ids \in Assignment
                              /\ IndexInv(index[k])
           /\ lineage.base_fp \in FingerprintSet
BY DEF DocTableInv, TypeOK, Index, Lineage

\* A step that leaves the files and the table kept alone need only account for
\* the request.
LEMMA RequestStep ==
    ASSUME DocTableInv, ServingInv, UNCHANGED <<vars, cached, steady>>, request' \in Request,
           request'.at # "idle" => Cardinality(request'.kind) = 1,
           request'.at \in {"matched", "open"} => Exists(cached),
           request'.at # "open" => request'.ids = EmptyMap,
           steady => HeaderInv' /\ MatchedInv' /\ OpenInv'
    PROVE  ServingInv'
<1>1. UNCHANGED <<table, index, renumbered, cached, steady>>
  BY DEF vars
<1> QED
  BY <1>1 DEF ServingInv, ServingTypeOK, Known, Exists

\* With no request at work there is nothing to account for.
LEMMA NoRequestFacts ==
    /\ NoRequest \in Request /\ NoRequest.at = "idle" /\ NoRequest.ids = EmptyMap
BY EmptyMapFacts, IdleFacts DEF NoRequest, Request, NoFingerprint, NoTable, Table

\* Loading the table.
LEMMA LoadTableInv ==
    ASSUME DocTableInv, ServingInv, LoadTable
    PROVE  ServingInv'
<1>1. /\ UNCHANGED <<parquet, table, temp, lineage, index, job, owner, settled, renumbered>>
      /\ request' = request /\ cached' = table /\ steady' = (steady /\ ~ renumbered)
  BY DEF LoadTable, vars
<1>2. /\ table \in Table /\ TableInv(table) /\ table.fp \in Seq(Assignment)
      /\ table.fp # <<>>
  BY TableFacts DEF LoadTable, Exists, NoFingerprint
<1>3. IsAncestor(table.fp, table.fp)
  <2>1. \A i \in 1 .. Len(table.fp) : table.fp[i] \in Assignment
    BY <1>2, ElementOfSeq
  <2>2. Len(table.fp) \in Nat
    BY <1>2, LenProperties
  <2>3. LET u == SubSeq(table.fp, 1, Len(table.fp))
        IN  u \in Seq(Assignment) /\ Len(u) = Len(table.fp)
            /\ \A i \in 1 .. Len(table.fp) : u[i] = table.fp[i]
    BY <2>1, <2>2, SubSeqFromOne
  <2>4. SubSeq(table.fp, 1, Len(table.fp)) = table.fp
    BY <1>2, <2>3, SeqEqual
  <2> QED
    BY <2>2, <2>4 DEF IsAncestor
<1>4. steady' => HeaderInv' /\ MatchedInv' /\ OpenInv'
  BY <1>1 DEF ServingInv, HeaderInv, MatchedInv, OpenInv, Known
<1> QED
  BY <1>1, <1>2, <1>3, <1>4 DEF ServingInv, ServingTypeOK, Known, Exists, NoFingerprint

\* Reading a header.
LEMMA ReadHeaderInv ==
    ASSUME DocTableInv, ServingInv, NEW k \in Kind, ReadHeader(k)
    PROVE  ServingInv'
<1> DEFINE r == [NoRequest EXCEPT !.at = "header", !.kind = {k}, !.fp = index[k].fp]
<1>1. request' = r /\ UNCHANGED <<vars, cached, steady>>
  BY DEF ReadHeader
<1>2. /\ r \in Request /\ r.at = "header" /\ r.kind = {k} /\ r.fp = index[k].fp
      /\ r.ids = EmptyMap
  BY FileTypes, NoRequestFacts, EmptyMapFacts DEF NoRequest, Request
<1>3. Cardinality({k}) = 1
  BY FS_Singleton
<1>4. HeaderInv' /\ MatchedInv' /\ OpenInv'
  BY <1>1, <1>2 DEF HeaderInv, MatchedInv, OpenInv, vars
<1> QED
  BY <1>1, <1>2, <1>3, <1>4, RequestStep

\* A header that is accepted is that of the table kept, or of the one the sidecar
\* names: either way the table on disk extends it.
LEMMA MatchHeaderInv ==
    ASSUME DocTableInv, ServingInv, MatchHeader
    PROVE  ServingInv'
<1> DEFINE r == [request EXCEPT !.at = "matched"]
<1>1. /\ request \in Request /\ request.at = "header" /\ Exists(cached)
      /\ request.ids = EmptyMap /\ Cardinality(request.kind) = 1
      /\ UNCHANGED <<vars, cached, steady>>
  BY DEF MatchHeader, ServingInv, ServingTypeOK
<1>2. CASE Accepted(request.fp)
  <2>1. request' = r
    BY <1>2 DEF MatchHeader
  <2>2. /\ r \in Request /\ r.at = "matched" /\ r.kind = request.kind
        /\ r.ids = EmptyMap
    BY <1>1 DEF Request
  <2>3. ASSUME steady PROVE MatchedInv'
    <3>1. Known(cached.fp) /\ ~ renumbered /\ HeaderInv
      BY <1>1, <2>3 DEF ServingInv
    <3>2. Known(request.fp)
      <4>1. CASE request.fp = cached.fp
        BY <3>1, <4>1
      <4>2. CASE request.fp # cached.fp
        <5>1. lineage.state = "whole" /\ request.fp = lineage.base_fp
          BY <1>2, <4>2 DEF Accepted, MatchIndexFingerprint
        <5> QED
          BY <3>1, <5>1 DEF DocTableInv, LineageNamesAncestor, Known
      <4> QED
        BY <4>1, <4>2
    <3>3. \A k \in request.kind : Known(index[k].fp)
      BY <1>1, <3>1, <3>2 DEF HeaderInv
    <3> QED
      BY <1>1, <2>1, <2>2, <3>3 DEF MatchedInv, Known, vars
  <2>4. HeaderInv' /\ OpenInv'
    BY <2>1, <2>2 DEF HeaderInv, OpenInv
  <2> QED
    BY <1>1, <2>1, <2>2, <2>3, <2>4, RequestStep
<1>3. CASE ~ Accepted(request.fp)
  <2>1. request' = NoRequest
    BY <1>3 DEF MatchHeader
  <2>2. HeaderInv' /\ MatchedInv' /\ OpenInv'
    BY <2>1, NoRequestFacts DEF HeaderInv, MatchedInv, OpenInv
  <2> QED
    BY <1>1, <2>1, <2>2, NoRequestFacts, RequestStep
<1> QED
  BY <1>2, <1>3

\* The file that is opened need not be the one whose header was accepted.
LEMMA OpenIndexInv ==
    ASSUME DocTableInv, ServingInv, OpenIndex
    PROVE  ServingInv'
<1>1. /\ request \in Request /\ request.at = "matched" /\ Exists(cached)
      /\ Cardinality(request.kind) = 1 /\ UNCHANGED <<vars, cached, steady>>
  BY DEF OpenIndex, ServingInv, ServingTypeOK
<1>2. PICK k \in request.kind :
        request' = [request EXCEPT !.at = "open", !.fp = NoFingerprint, !.ids = index[k].ids]
  BY DEF OpenIndex
<1>3. k \in Kind /\ NoFingerprint \in FingerprintSet
  BY <1>1, IdleFacts DEF Request, NoFingerprint, NoTable, Table
<1>4. /\ request' \in Request /\ request'.at = "open" /\ request'.kind = request.kind
      /\ request'.ids = index[k].ids
  BY <1>1, <1>2, <1>3, FileTypes DEF Request
<1>5. ASSUME steady PROVE OpenInv'
  <2>1. Known(index[k].fp)
    BY <1>1, <1>5 DEF ServingInv, MatchedInv
  <2>2. Extends(table.ids, index[k].ids)
    BY <1>3, <2>1, FileTypes, KnownExtends DEF IndexInv, FingerprintSet
  <2> QED
    BY <1>1, <1>4, <2>2 DEF OpenInv, vars
<1>6. HeaderInv' /\ MatchedInv'
  BY <1>4 DEF HeaderInv, MatchedInv
<1> QED
  BY <1>1, <1>4, <1>5, <1>6, RequestStep

\* Closing it.
LEMMA CloseIndexInv ==
    ASSUME DocTableInv, ServingInv, CloseIndex
    PROVE  ServingInv'
<1>1. request' = NoRequest /\ UNCHANGED <<vars, cached, steady>>
  BY DEF CloseIndex
<1>2. HeaderInv' /\ MatchedInv' /\ OpenInv'
  BY <1>1, NoRequestFacts DEF HeaderInv, MatchedInv, OpenInv
<1> QED
  BY <1>1, <1>2, NoRequestFacts, RequestStep

-----------------------------------------------------------------------------
\* The invariant of the engine, which rests on that of the files.
THEOREM ServingInvariant == ServingSpec => []ServingInv
<1>1. ServingInit => ServingInv
  BY ServingInitInv
<1>2. ASSUME DocTableInv, DocTableInv', ServingInv, [ServingNext]_<<vars, serving>>
      PROVE  ServingInv'
  <2>1. CASE Outside
    BY <1>2, <2>1, OutsideInv
  <2>2. CASE Serve
    BY <1>2, <2>2, LoadTableInv, ReadHeaderInv, MatchHeaderInv, OpenIndexInv, CloseIndexInv
       DEF Serve
  <2>3. CASE UNCHANGED <<vars, serving>>
    <3>1. UNCHANGED <<table, index, renumbered, cached, request, steady>>
      BY <2>3 DEF vars, serving
    <3> QED
      BY <1>2, <3>1 DEF ServingInv, ServingTypeOK, HeaderInv, MatchedInv, OpenInv, Known, Exists
  <2> QED
    BY <1>2, <2>1, <2>2, <2>3 DEF ServingNext
<1>3. ServingSpec => []DocTableInv
  BY ServesTheFiles, DocTableInvariant
<1> QED
  BY <1>1, <1>2, <1>3, PTL DEF ServingSpec

\* The variables of the engine keep their types, and a request past the check has
\* a table to resolve against (ToolEngine, tools/engine.rs).
THEOREM ServingTypeCorrect == ServingSpec => []ServingTypeOK
<1>1. ServingInv => ServingTypeOK
  BY DEF ServingInv
<1> QED
  BY <1>1, ServingInvariant, PTL

\* While the others only append and index, no posting of the index in use
\* resolves to a passage it was not made for, though the header was checked before
\* the file was opened and the table may be older than both (tools/engine.rs:1205).
THEOREM ServedSound == ServingSpec => []ServedWhileAppended
<1>1. DocTableInv /\ ServingInv => ServedWhileAppended
  <2> SUFFICES ASSUME DocTableInv, ServingInv, steady,
                      NEW p \in DOMAIN request.ids, NEW q \in DOMAIN cached.ids,
                      cached.ids[q] = request.ids[p]
               PROVE  q = p
    BY DEF ServedWhileAppended, ServedResolves
  <2>1. cached.fp \in Seq(Assignment) /\ TableInv(cached) /\ cached.fp # <<>>
    BY EmptyMapFacts DEF ServingInv, ServingTypeOK, Table, FingerprintSet, TableInv
  <2>2. Extends(table.ids, cached.ids)
    <3>1. Known(cached.fp)
      BY <2>1 DEF ServingInv, Exists, NoFingerprint
    <3>2. cached.ids = Last(cached.fp) /\ Extends(cached.ids, cached.ids)
      BY <2>1 DEF TableInv, Extends
    <3> QED
      BY <2>1, <3>1, <3>2, KnownExtends
  <2>3. request.at = "open" /\ Extends(table.ids, request.ids)
    BY EmptyMapFacts DEF ServingInv, OpenInv
  <2>4. Dense(table.ids)
    BY TableFacts
  <2> QED
    BY <2>2, <2>3, <2>4 DEF Extends, Dense
<1>2. ServingSpec => []DocTableInv
  BY ServesTheFiles, DocTableInvariant
<1> QED
  BY <1>1, <1>2, ServingInvariant, PTL

==============================================================================
