--------------------------- MODULE Ingest_proofs ---------------------------
(***************************************************************************)
(* Ingest: what a promoted partition holds, for any corpus, batch size and *)
(* checkpoint interval, any number of processes, and whatever died or was  *)
(* resumed before; and Ingest implements CorpusStore.                      *)
(*                                                                         *)
(* The invariant follows one directory from its first run to a promotion:  *)
(* what a run holds (RunOK), what its checkpoint is good for once the run  *)
(* is gone (DirOK), what was promoted (StoreOK).  Of a directory that two  *)
(* runs were in at once it says nothing, but that what they still write    *)
(* into a promoted partition goes to one that came from such a directory   *)
(* (HandsOK).                                                              *)
(*                                                                         *)
(* MergeCbeta, the merge before an ingest: what it leaves of each work.    *)
(***************************************************************************)
EXTENDS Ingest, MergeCbeta, FiniteSetTheorems, SequenceTheorems, WellFoundedInduction, TLAPS

-----------------------------------------------------------------------------
(* What a run has emitted, and what the first n parts keep of it.          *)

Emitted(j) == {r \in Row : r[1] < j.file \/ (r[1] = j.file /\ r[2] < j.row)}
Kept(parts, n) == UNION {Range(parts[i]) : i \in {k \in DOMAIN parts : k <= n}}

\* The first n parts can be read, and no row is twice in them.
Clean(parts, n) ==
    /\ \A i \in 1 .. n : parts[i] # Torn
    /\ \A i, k \in 1 .. n : \A x \in DOMAIN parts[i], y \in DOMAIN parts[k] :
          parts[i][x] = parts[k][y] => i = k /\ x = y

NoneTwice(batch) == \A x, y \in DOMAIN batch : batch[x] = batch[y] => x = y

Closing == {"flush", "final", "promote", "rename"}
Past    == {"jsonl", "unlink", "sweep"}
Ending  == {"last", "flush", "final"}
Ended   == Len(Rows) + 1

\* Never interrupted, or resumed once, the run before not having died among its last parts.
Trusted(n, isLate) == n = 0 \/ (n = 1 /\ ~isLate)

-----------------------------------------------------------------------------
(* A run: where it is, and what it holds.  s is its directory, l what the  *)
(* directory has lost, n how often it was resumed, t whether it is trusted.*)

WhereOK(j, s) ==
    /\ j.file \in 1 .. Ended /\ j.row \in Nat \ {0}
    /\ j.file = Ended => j.row = 1
    /\ j.file # Ended => j.row <= Rows[j.file] + 1
    /\ j.at = "checkpoint" => j.row = 1
    /\ j.at = "part" => j.file # Ended
    /\ j.at \in {"last"} \cup Closing \cup Past => j.file = Ended
    /\ j.at \in {"emit", "checkpoint"} => Len(j.batch) < BatchSize
    /\ j.at = "part" => Len(j.batch) = BatchSize
    /\ j.at = "last" => Len(j.batch) \in 1 .. BatchSize - 1
    /\ j.at \in Closing \cup Past => j.batch = <<>>
    /\ j.at \in {"promote", "rename"} \cup Past =>
          s.checkpoint.state = "whole" /\ s.checkpoint.done = Len(Rows)
    /\ s.exists
    /\ j.at \in {"part", "last"} =>
          j.fd = "staged" /\ j.part < Len(s.parts) /\ s.parts[j.part + 1] = Torn
    /\ j.at \in {"checkpoint", "final"} => j.fd = "staged" /\ s.checkpoint.state = "torn"

\* It has nothing and will have nothing: all its rows were in memory when it died, or
\* its parts are promoted already.
Empty(j, s) == s.parts = NoParts /\ j.file = Ended /\ j.batch = <<>>

\* What was emitted is in the parts, in the batch, or was lost before.
HoldsOK(j, s, l, n) ==
    /\ j.part <= Len(s.parts)
    /\ Emitted(j) \subseteq l \cup Kept(s.parts, j.part) \cup Range(j.batch)
    /\ s.checkpoint.state = "whole" => s.checkpoint.next <= j.part /\ s.checkpoint.done < j.file
    /\ n <= 1 => Cardinality(l) < BatchSize

\* The parts of an earlier run that are still there are not more than this run writes.
CountOK(j, s, l) ==
    \/ /\ j.at \in {"emit", "part", "checkpoint"}
       /\ Cardinality(Emitted(j)) = BatchSize * j.part + Len(j.batch) + Cardinality(l)
       /\ BatchSize * Len(s.parts) <= Cardinality(Row)
    \/ j.at = "emit" /\ j.file = Ended /\ j.batch = <<>> /\ Len(s.parts) <= j.part
    \/ j.at = "last" /\ Len(s.parts) <= j.part + 1
    \/ j.at \in Closing /\ Len(s.parts) <= j.part

\* Nothing is twice, and nothing is there that was not emitted.
ExactOK(j, s) ==
    /\ Clean(s.parts, j.part) /\ NoneTwice(j.batch)
    /\ Kept(s.parts, j.part) \cup Range(j.batch) \subseteq Emitted(j)
    /\ Kept(s.parts, j.part) \cap Range(j.batch) = {}

RunOK(j, s, l, n, t) ==
    /\ WhereOK(j, s)
    /\ j.at \notin Past /\ ~Empty(j, s) =>
          HoldsOK(j, s, l, n) /\ (t => ExactOK(j, s) /\ CountOK(j, s, l))

-----------------------------------------------------------------------------
(* A directory with a checkpoint: what a resume may count on.  n is how    *)
(* often it was resumed, f that it never was and no run died or is among   *)
(* its last parts.                                                         *)

Missing(s) == RowsOf(1 .. s.checkpoint.done) \ Kept(s.parts, s.checkpoint.next)

FirstOK(s) ==
    /\ Clean(s.parts, s.checkpoint.next)
    /\ Kept(s.parts, s.checkpoint.next) \subseteq RowsOf(1 .. s.checkpoint.done)
    /\ \/ /\ BatchSize * Len(s.parts) <= Cardinality(Row)
          /\ Cardinality(RowsOf(1 .. s.checkpoint.done)) =
                BatchSize * s.checkpoint.next + Cardinality(Missing(s))
       \/ s.checkpoint.done = Len(Rows) /\ Len(s.parts) <= s.checkpoint.next

DirOK(s, n, f) ==
    s.checkpoint.state = "whole" =>
        /\ s.checkpoint.done <= Len(Rows)
        /\ \/ s.parts = NoParts /\ s.checkpoint.done = Len(Rows)
           \/ /\ s.checkpoint.next <= Len(s.parts)
              /\ n = 0 => Cardinality(Missing(s)) < BatchSize
              /\ f => FirstOK(s)

\* A run and its directory.  l is what the directory has lost, n how often it was resumed.
Together(j, s, l, n, isLate) ==
    /\ RunOK(j, s, l, n, Trusted(n, isLate))
    /\ DirOK(s, n, n = 0 /\ ~isLate /\ j.at \notin Ending)

-----------------------------------------------------------------------------
(* The state.                                                              *)

Live(p)      == job[p].at # "idle"
Trust(d)     == Trusted(resumes[d], d \in late)
Undisturbed(d) == /\ resumes[d] = 0 /\ d \notin late
                  /\ \A p \in Proc : job[p].dir = d => job[p].at \notin Ending

ApartOK ==
    /\ \A p \in Proc : ~Live(p) => job[p] = Idle
    /\ \A p \in Proc : Live(p) => job[p].dir \in 1 .. created /\ job[p].file # 0
    /\ \A p, q \in Proc : Live(p) /\ Live(q) /\ p # q /\ job[p].dir = job[q].dir =>
          job[p].dir \in shared
    /\ \A d \in Dir : d > created =>
          staging[d] = NoStaging /\ resumes[d] = 0 /\ d \notin shared
    /\ \A d \in Dir : resumes[d] = 0 => lost[d] = {}

\* Who has a part of the promoted partition open was in its directory with the run that promoted it.
HandsOK == \A p \in Proc : job[p].fd = "published" =>
    published # Absent /\ origin \in shared /\ job[p].at \in {"part", "last"}

RunsOK == \A p \in Proc : Live(p) /\ job[p].dir \notin shared =>
    LET d == job[p].dir IN RunOK(job[p], staging[d], lost[d], resumes[d], Trust(d))

DirsOK == \A d \in Dir \ shared : DirOK(staging[d], resumes[d], Undisturbed(d))

StoreOK ==
    IF published = Absent THEN origin = 0
    ELSE /\ origin \in 1 .. created
         /\ origin \notin shared =>
               /\ \A p \in Proc : job[p].dir = origin => job[p].at \in Past
               /\ Row \subseteq lost[origin] \cup Kept(published, Len(published))
               /\ resumes[origin] <= 1 => Cardinality(lost[origin]) < BatchSize
               /\ Trust(origin) => Clean(published, Len(published))

IngestInv == TypeOK /\ ApartOK /\ HandsOK /\ RunsOK /\ DirsOK /\ StoreOK

-----------------------------------------------------------------------------
(* Rows.                                                                   *)

\* A row is a file and a passage of it.
LEMMA RowIs ==
    /\ \A f \in File : \A k \in 1 .. Rows[f] : <<f, k>> \in Row
    /\ \A r \in Row : \E f \in File : \E k \in 1 .. Rows[f] : r = <<f, k>>
    /\ \A r \in Row : r[1] \in 1 .. Len(Rows) /\ r[2] \in 1 .. Rows[r[1]]
    /\ \A f \in File : Rows[f] \in Nat \ {0}
    /\ Len(Rows) \in Nat
<1>1. \A f \in File : Rows[f] \in Nat \ {0}
  BY RowsAssumption DEF File
<1>2. Len(Rows) \in Nat
  BY RowsAssumption
<1>3. \A f \in File : \A k \in 1 .. Rows[f] : <<f, k>> \in Row
  BY DEF Row
<1>4. \A r \in Row : \E f \in File : \E k \in 1 .. Rows[f] : r = <<f, k>>
  BY DEF Row
<1> QED
  BY <1>1, <1>2, <1>3, <1>4 DEF File

\* The corpus is finite, and so is every set of its rows.
LEMMA RowFinite ==
    /\ IsFiniteSet(Row) /\ Cardinality(Row) \in Nat
    /\ \A S \in SUBSET Row : IsFiniteSet(S) /\ Cardinality(S) \in Nat
    /\ \A S, T \in SUBSET Row : S \subseteq T => Cardinality(S) <= Cardinality(T)
<1> DEFINE Of(f) == {f} \X (1 .. Rows[f])
           Files == {Of(f) : f \in File}
<1>1. \A f \in File : IsFiniteSet(Of(f))
  <2> SUFFICES ASSUME NEW f \in File PROVE IsFiniteSet(Of(f))
    OBVIOUS
  <2>1. IsFiniteSet(1 .. Rows[f])
    BY RowIs, FS_Interval
  <2>2. IsFiniteSet({f})
    BY FS_Singleton
  <2> QED
    BY <2>1, <2>2, FS_Product
<1>2. IsFiniteSet(File)
  BY RowIs, FS_Interval DEF File
<1>3. IsFiniteSet(Files)
  <2> DEFINE g == [f \in File |-> Of(f)]
  <2>1. g \in Surjection(File, Files)
    BY DEF Surjection
  <2> QED
    BY <1>2, <2>1, FS_Surjection
<1>4. IsFiniteSet(UNION Files)
  BY <1>1, <1>3, FS_UNION
<1>5. IsFiniteSet(Row)
  BY <1>4 DEF Row
<1> QED
  BY <1>5, FS_Subset, FS_CardinalityType

\* A multiple of the batch size below the next one is not above this one.
LEMMA WholeBatches ==
    ASSUME NEW m \in Nat, NEW n \in Nat, BatchSize * m < BatchSize * n + BatchSize
    PROVE  m <= n
<1> BatchSize \in Nat \ {0}
  BY SizeAssumption
<1> SUFFICES ASSUME m >= n + 1 PROVE FALSE
  OBVIOUS
<1>1. PICK k \in Nat : m = n + 1 + k
  <2> m - (n + 1) \in Nat
    OBVIOUS
  <2> QED
    BY m = n + 1 + (m - (n + 1))
<1>2. BatchSize * m = BatchSize * n + BatchSize + BatchSize * k
  BY <1>1
<1>3. BatchSize * k \in Nat
  OBVIOUS
<1> QED
  BY <1>2, <1>3

\* Rows before the place a run is at.
LEMMA EmittedIs ==
    ASSUME NEW j \in Job, j.file \in 1 .. Ended, j.row \in Nat \ {0}
    PROVE  /\ Emitted(j) \subseteq Row
           /\ j.row = 1 => Emitted(j) = RowsOf(1 .. j.file - 1)
           /\ j.file = Ended /\ j.row = 1 => Emitted(j) = Row
BY RowIs DEF Emitted, RowsOf, Ended

\* One more row is emitted.
LEMMA EmittedOneMore ==
    ASSUME NEW j \in Job, NEW k \in Job, <<j.file, j.row>> \in Row,
           k.file = j.file, k.row = j.row + 1
    PROVE  /\ Emitted(k) = Emitted(j) \cup {<<j.file, j.row>>}
           /\ <<j.file, j.row>> \notin Emitted(j)
           /\ Cardinality(Emitted(k)) = Cardinality(Emitted(j)) + 1
<1>1. \A r \in Row : r[1] \in Nat /\ r[2] \in Nat /\ r = <<r[1], r[2]>>
  BY RowIs
<1>2. j.file \in Nat /\ j.row \in Nat
  BY DEF Job
<1>3. Emitted(k) = Emitted(j) \cup {<<j.file, j.row>>}
  BY <1>1, <1>2 DEF Emitted
<1>4. <<j.file, j.row>> \notin Emitted(j)
  BY <1>2 DEF Emitted
<1>5. IsFiniteSet(Emitted(j))
  BY RowFinite DEF Emitted
<1> QED
  BY <1>3, <1>4, <1>5, FS_AddElement

\* The place after the last row of a file is the place before the next.
LEMMA EmittedNextFile ==
    ASSUME NEW j \in Job, NEW k \in Job, j.file \in File, j.row = Rows[j.file] + 1,
           k.file = j.file + 1, k.row = 1
    PROVE  Emitted(k) = Emitted(j)
<1>1. \A r \in Row : /\ r[1] \in Nat /\ r[2] \in 1 .. Rows[r[1]]
                     /\ r[1] \in File /\ Rows[r[1]] \in Nat
  BY RowIs DEF File
<1>2. j.file \in Nat
  BY DEF Job
<1> QED
  BY <1>1, <1>2 DEF Emitted

-----------------------------------------------------------------------------
(* Parts and batches.                                                      *)

\* What a batch holds, and how much.
LEMMA BatchIs ==
    ASSUME NEW b \in Seq(Row)
    PROVE  /\ Range(b) \subseteq Row /\ Len(b) \in Nat
           /\ Cardinality(Range(b)) <= Len(b)
           /\ NoneTwice(b) => Cardinality(Range(b)) = Len(b)
           /\ b = <<>> => Range(b) = {}
<1>1. b \in [1 .. Len(b) -> Row] /\ Len(b) \in Nat
  BY LenProperties
<1>2. b \in Surjection(1 .. Len(b), Range(b))
  BY <1>1 DEF Surjection, Range
<1>3. IsFiniteSet(1 .. Len(b)) /\ Cardinality(1 .. Len(b)) = Len(b)
  <2>1. 1 \in Int /\ Len(b) \in Int /\ Len(b) >= 0
    BY <1>1
  <2>2. /\ IsFiniteSet(1 .. Len(b))
        /\ Cardinality(1 .. Len(b)) = IF 1 > Len(b) THEN 0 ELSE Len(b) - 1 + 1
    BY <2>1, FS_Interval
  <2> QED
    BY <2>1, <2>2
<1>4. /\ Cardinality(Range(b)) <= Len(b)
      /\ Cardinality(Range(b)) = Len(b) <=> b \in Injection(1 .. Len(b), Range(b))
  BY <1>2, <1>3, FS_Surjection
<1>5. NoneTwice(b) => b \in Injection(1 .. Len(b), Range(b))
  BY <1>1 DEF NoneTwice, Injection, Range, IsInjective
<1>6. Range(b) \subseteq Row
  BY <1>1 DEF Range
<1>7. b = <<>> => Range(b) = {}
  BY DEF Range
<1> QED
  BY <1>1, <1>4, <1>5, <1>6, <1>7

\* A batch with one row more.
LEMMA BatchOneMore ==
    ASSUME NEW b \in Seq(Row), NEW r \in Row
    PROVE  /\ Append(b, r) \in Seq(Row) /\ Len(Append(b, r)) = Len(b) + 1
           /\ Range(Append(b, r)) = Range(b) \cup {r}
           /\ NoneTwice(b) /\ r \notin Range(b) => NoneTwice(Append(b, r))
<1>1. /\ Append(b, r) \in Seq(Row) /\ Len(Append(b, r)) = Len(b) + 1
      /\ \A i \in 1 .. Len(b) : Append(b, r)[i] = b[i]
      /\ Append(b, r)[Len(b) + 1] = r
  BY AppendProperties
<1>2. DOMAIN b = 1 .. Len(b) /\ DOMAIN Append(b, r) = 1 .. Len(b) + 1 /\ Len(b) \in Nat
  BY <1>1, LenProperties
<1>3. Range(Append(b, r)) = Range(b) \cup {r}
  <2>1. \A x \in DOMAIN Append(b, r) : Append(b, r)[x] \in Range(b) \cup {r}
    BY <1>1, <1>2 DEF Range
  <2>2. \A x \in DOMAIN b : x \in DOMAIN Append(b, r) /\ b[x] = Append(b, r)[x]
    BY <1>1, <1>2
  <2>3. Len(b) + 1 \in DOMAIN Append(b, r)
    BY <1>2
  <2> QED
    BY <1>1, <2>1, <2>2, <2>3 DEF Range
<1>4. NoneTwice(b) /\ r \notin Range(b) => NoneTwice(Append(b, r))
  <2> SUFFICES ASSUME NoneTwice(b), r \notin Range(b), NEW x \in 1 .. Len(b) + 1,
                      NEW y \in 1 .. Len(b) + 1, Append(b, r)[x] = Append(b, r)[y]
               PROVE  x = y
    BY <1>2 DEF NoneTwice
  <2>1. \A z \in 1 .. Len(b) : b[z] # r
    BY <1>2 DEF Range
  <2> QED
    BY <1>1, <1>2, <2>1 DEF NoneTwice
<1> QED
  BY <1>1, <1>3, <1>4

\* What is in the first n parts.
LEMMA KeptIs ==
    ASSUME NEW parts \in Parts, NEW n \in Nat
    PROVE  /\ DOMAIN parts = 1 .. Len(parts) /\ Len(parts) \in Nat
           /\ \A i \in 1 .. Len(parts) : parts[i] \in Seq(Row)
           /\ Kept(parts, n) \subseteq Row
           /\ \A r : r \in Kept(parts, n) <=>
                 \E i \in 1 .. Len(parts) : i <= n /\ r \in Range(parts[i])
           /\ n = 0 => Kept(parts, n) = {}
<1>1. DOMAIN parts = 1 .. Len(parts) /\ Len(parts) \in Nat
      /\ \A i \in 1 .. Len(parts) : parts[i] \in Seq(Row)
  BY LenProperties, ElementOfSeq DEF Parts
<1>2. \A i \in 1 .. Len(parts) : Range(parts[i]) \subseteq Row
  BY <1>1, BatchIs
<1>3. \A r : r \in Kept(parts, n) <=>
                 \E i \in 1 .. Len(parts) : i <= n /\ r \in Range(parts[i])
  BY <1>1 DEF Kept
<1> QED
  BY <1>1, <1>2, <1>3

\* Wherever a part is put, there are parts.
LEMMA PutType ==
    ASSUME NEW parts \in Parts, NEW i \in Nat, NEW rows \in Seq(Row)
    PROVE  Put(parts, i, rows) \in Parts
<1>1. Len(parts) \in Nat /\ parts \in [1 .. Len(parts) -> Seq(Row)] /\ Torn \in Seq(Row)
  BY LenProperties DEF Parts, Torn
<1> DEFINE n == IF i < Len(parts) THEN Len(parts) ELSE i + 1
<1>2. n \in Nat
  BY <1>1
<1>3. Put(parts, i, rows) \in [1 .. n -> Seq(Row)]
  BY <1>1 DEF Put
<1> HIDE DEF n
<1> QED
  BY <1>2, <1>3, SeqDef DEF Parts

\* A part is put at its place, over what an earlier run left there or after the others.
LEMMA PutIs ==
    ASSUME NEW parts \in Parts, NEW i \in 0 .. Len(parts), NEW rows \in Seq(Row)
    PROVE  /\ Put(parts, i, rows) \in Parts
           /\ Len(Put(parts, i, rows)) = IF i < Len(parts) THEN Len(parts) ELSE i + 1
           /\ \A k \in 1 .. Len(Put(parts, i, rows)) :
                 Put(parts, i, rows)[k] = IF k = i + 1 THEN rows ELSE parts[k]
<1>1. Len(parts) \in Nat /\ DOMAIN parts = 1 .. Len(parts) /\ i \in Nat
  BY LenProperties DEF Parts
<1> DEFINE n == IF i < Len(parts) THEN Len(parts) ELSE i + 1
<1>2. n \in Nat
  BY <1>1
<1>3. Put(parts, i, rows) \in Parts
  BY <1>1, PutType
<1>4. Put(parts, i, rows) = [k \in 1 .. n |-> IF k = i + 1 THEN rows
                                              ELSE IF k <= Len(parts) THEN parts[k] ELSE Torn]
  BY DEF Put
<1>5. DOMAIN Put(parts, i, rows) = 1 .. n
  BY <1>4
<1>6. Len(Put(parts, i, rows)) = n
  BY <1>2, <1>3, <1>5, LenProperties DEF Parts
<1>7. \A k \in 1 .. n : k # i + 1 => k <= Len(parts)
  BY <1>1
<1> QED
  BY <1>3, <1>4, <1>6, <1>7

\* Putting what is there already changes nothing.
LEMMA PutSame ==
    ASSUME NEW parts \in Parts, NEW i \in Nat, i < Len(parts)
    PROVE  Put(parts, i, parts[i + 1]) = parts
<1>1. Len(parts) \in Nat /\ parts \in [1 .. Len(parts) -> Seq(Row)]
  BY LenProperties DEF Parts
<1> QED
  BY <1>1 DEF Put

\* The first parts keep what they have when a later one is put at its place.
LEMMA KeptOfPut ==
    ASSUME NEW parts \in Parts, NEW i \in 0 .. Len(parts), NEW rows \in Seq(Row)
    PROVE  /\ \A n \in 0 .. i : Kept(Put(parts, i, rows), n) = Kept(parts, n)
           /\ Kept(Put(parts, i, rows), i + 1) = Kept(parts, i) \cup Range(rows)
<1> DEFINE new == Put(parts, i, rows)
<1>1. /\ new \in Parts
      /\ Len(new) = IF i < Len(parts) THEN Len(parts) ELSE i + 1
      /\ \A k \in 1 .. Len(new) : new[k] = IF k = i + 1 THEN rows ELSE parts[k]
  BY PutIs
<1>2. Len(parts) \in Nat /\ Len(new) \in Nat /\ i \in Nat
  BY <1>1, LenProperties DEF Parts
<1> HIDE DEF new
<1>3. ASSUME NEW n \in 0 .. i PROVE Kept(new, n) = Kept(parts, n)
  <2>1. \A k \in 1 .. Len(new) : k <= n => k \in 1 .. Len(parts) /\ new[k] = parts[k]
    BY <1>1, <1>2
  <2>2. \A k \in 1 .. Len(parts) : k <= n => k \in 1 .. Len(new) /\ new[k] = parts[k]
    BY <1>1, <1>2
  <2>3. \A r : r \in Kept(new, n) <=> \E k \in 1 .. Len(new) : k <= n /\ r \in Range(new[k])
    BY <1>1, KeptIs
  <2>4. \A r : r \in Kept(parts, n) <=> \E k \in 1 .. Len(parts) : k <= n /\ r \in Range(parts[k])
    BY KeptIs
  <2> QED
    BY <2>1, <2>2, <2>3, <2>4
<1>4. Kept(new, i + 1) = Kept(parts, i) \cup Range(rows)
  <2>1. \A r : r \in Kept(new, i + 1) <=>
               \E k \in 1 .. Len(new) : k <= i + 1 /\ r \in Range(new[k])
    BY <1>1, <1>2, KeptIs
  <2>2. \A r : r \in Kept(parts, i) <=> \E k \in 1 .. Len(parts) : k <= i /\ r \in Range(parts[k])
    BY <1>2, KeptIs
  <2>3. i + 1 \in 1 .. Len(new) /\ new[i + 1] = rows
    BY <1>1, <1>2
  <2>4. \A k \in 1 .. Len(new) : k <= i + 1 => k = i + 1 \/ (k \in 1 .. Len(parts) /\ k <= i)
    BY <1>1, <1>2
  <2>5. \A k \in 1 .. Len(parts) : k <= i => k \in 1 .. Len(new) /\ k <= i + 1 /\ new[k] = parts[k]
    BY <1>1, <1>2
  <2> QED
    BY <2>1, <2>2, <2>3, <2>4, <2>5
<1> QED
  BY <1>3, <1>4 DEF new

\* Parts that are clean stay so when rows they do not hold are put after them.
LEMMA CleanOfPut ==
    ASSUME NEW parts \in Parts, NEW i \in 0 .. Len(parts), NEW rows \in Seq(Row)
    PROVE  /\ \A n \in 0 .. i : Clean(parts, n) => Clean(Put(parts, i, rows), n)
           /\ Clean(parts, i) /\ rows # Torn /\ NoneTwice(rows)
              /\ Kept(parts, i) \cap Range(rows) = {} => Clean(Put(parts, i, rows), i + 1)
<1> DEFINE new == Put(parts, i, rows)
<1>0. Len(parts) \in Nat
  BY KeptIs
<1>1. /\ new \in Parts /\ Len(new) \in Nat /\ Len(new) >= i + 1 /\ Len(parts) \in Nat
      /\ \A k \in 1 .. Len(new) : new[k] = IF k = i + 1 THEN rows ELSE parts[k]
  BY <1>0, PutIs
<1> HIDE DEF new
<1>2. ASSUME NEW n \in 0 .. i, Clean(parts, n) PROVE Clean(new, n)
  <2>1. \A k \in 1 .. n : new[k] = parts[k]
    BY <1>1
  <2> QED
    BY <1>2, <2>1 DEF Clean
<1>3. ASSUME Clean(parts, i), rows # Torn, NoneTwice(rows), Kept(parts, i) \cap Range(rows) = {}
      PROVE  Clean(new, i + 1)
  <2>1. new[i + 1] = rows /\ \A k \in 1 .. i : new[k] = parts[k]
    BY <1>1
  <2>2. \A k \in 1 .. i + 1 : k = i + 1 \/ k \in 1 .. i
    BY <1>1
  <2>3. \A k \in 1 .. i : \A x \in DOMAIN parts[k], y \in DOMAIN rows : parts[k][x] # rows[y]
    <3> SUFFICES ASSUME NEW k \in 1 .. i, NEW x \in DOMAIN parts[k], NEW y \in DOMAIN rows,
                        parts[k][x] = rows[y]
                 PROVE  FALSE
      OBVIOUS
    <3>1. k \in 1 .. Len(parts) /\ k <= i /\ i \in Nat
      BY <1>1
    <3>2. parts[k][x] \in Range(parts[k]) /\ rows[y] \in Range(rows)
      BY DEF Range
    <3>3. parts[k][x] \in Kept(parts, i)
      BY <3>1, <3>2, KeptIs
    <3> QED
      BY <3>2, <3>3, <1>3
  <2>4. \A k \in 1 .. i + 1 : new[k] # Torn
    BY <2>1, <2>2, <1>3 DEF Clean
  <2>5. ASSUME NEW k \in 1 .. i + 1, NEW m \in 1 .. i + 1, NEW x \in DOMAIN new[k],
               NEW y \in DOMAIN new[m], new[k][x] = new[m][y]
        PROVE  k = m /\ x = y
    <3>1. CASE k = i + 1 /\ m = i + 1
      BY <3>1, <2>1, <2>5, <1>3 DEF NoneTwice
    <3>2. CASE k = i + 1 /\ m \in 1 .. i
      BY <3>2, <2>1, <2>3, <2>5
    <3>3. CASE k \in 1 .. i /\ m = i + 1
      BY <3>3, <2>1, <2>3, <2>5
    <3>4. CASE k \in 1 .. i /\ m \in 1 .. i
      BY <3>4, <2>1, <2>5, <1>3 DEF Clean
    <3> QED
      BY <2>2, <3>1, <3>2, <3>3, <3>4
  <2> QED
    BY <2>4, <2>5 DEF Clean
<1> QED
  BY <1>2, <1>3 DEF new

\* Parts below part that a checkpoint names are there when a run comes to part, and stay.
LEMMA DirOfPut ==
    ASSUME NEW s \in Staging, NEW u \in Staging, NEW n \in Nat, NEW f \in BOOLEAN,
           NEW g \in BOOLEAN, NEW i \in 0 .. Len(s.parts), NEW rows \in Seq(Row),
           DirOK(s, n, f), g => f,
           s.checkpoint.state = "whole" => s.checkpoint.next <= i,
           ~ (s.parts = NoParts /\ s.checkpoint.done = Len(Rows)),
           u.parts = Put(s.parts, i, rows), u.checkpoint = s.checkpoint,
           g /\ BatchSize * Len(s.parts) <= Cardinality(Row) =>
              BatchSize * Len(u.parts) <= Cardinality(Row),
           g => s.checkpoint.done # Len(Rows)
    PROVE  DirOK(u, n, g)
<1> DEFINE c == s.checkpoint
<1>0. s.parts \in Parts /\ u.parts \in Parts /\ c \in Checkpoint
  BY DEF Staging
<1> SUFFICES ASSUME c.state = "whole" PROVE DirOK(u, n, g)
  BY DEF DirOK
<1>1. c.next \in Nat /\ c.next \in 0 .. i /\ Len(s.parts) \in Nat /\ i \in Nat
  BY <1>0, KeptIs DEF Checkpoint
<1>2. Kept(u.parts, c.next) = Kept(s.parts, c.next)
  BY <1>0, <1>1, KeptOfPut
<1>3. Missing(u) = Missing(s)
  BY <1>2 DEF Missing
<1>4. c.next <= Len(u.parts)
  BY <1>0, <1>1, PutIs
<1>5. ASSUME g PROVE FirstOK(u)
  <2>1. FirstOK(s)
    BY <1>5 DEF DirOK
  <2>2. Clean(u.parts, c.next)
    BY <1>0, <1>1, <2>1, CleanOfPut DEF FirstOK
  <2> QED
    BY <1>2, <1>3, <1>5, <2>1, <2>2 DEF FirstOK
<1> QED
  BY <1>3, <1>4, <1>5 DEF DirOK

\* While nothing is written, what a checkpoint misses is in the open batch.
LEMMA MissingInBatch ==
    ASSUME NEW j \in Job, NEW s \in Staging, NEW n \in Nat, HoldsOK(j, s, {}, n),
           s.parts = NoParts, s.checkpoint.state = "whole", Len(j.batch) < BatchSize
    PROVE  Cardinality(Missing(s)) < BatchSize
<1>1. j.batch \in Seq(Row) /\ j.part \in Nat /\ s.parts \in Parts /\ BatchSize \in Nat
  BY SizeAssumption DEF Job, Staging
<1>2. j.file \in Nat /\ s.checkpoint.done \in Nat /\ s.checkpoint.done < j.file
  BY DEF HoldsOK, Job, Staging, Checkpoint
<1>3. \A r \in Row : r[1] \in Nat
  BY RowIs
<1>4. RowsOf(1 .. s.checkpoint.done) \subseteq Emitted(j)
  BY <1>2, <1>3 DEF RowsOf, Emitted
<1>5. Kept(s.parts, j.part) = {}
  BY <1>1 DEF Kept, NoParts
<1>6. Missing(s) \subseteq Range(j.batch)
  BY <1>4, <1>5 DEF Missing, HoldsOK
<1>7. /\ Range(j.batch) \subseteq Row /\ Len(j.batch) \in Nat
      /\ Cardinality(Range(j.batch)) <= Len(j.batch)
  BY <1>1, BatchIs
<1>8. /\ Cardinality(Missing(s)) <= Cardinality(Range(j.batch))
      /\ Cardinality(Missing(s)) \in Nat /\ Cardinality(Range(j.batch)) \in Nat
  BY <1>6, <1>7, RowFinite
<1> QED
  BY <1>1, <1>7, <1>8

\* The same for a directory whose run is among its last parts.
LEMMA DirOfLaterPut ==
    ASSUME NEW j \in Job, NEW s \in Staging, NEW u \in Staging, NEW n \in Nat,
           NEW l \in SUBSET Row, NEW rows \in Seq(Row), DirOK(s, n, FALSE),
           n = 0 => l = {}, HoldsOK(j, s, l, n), Len(j.batch) < BatchSize,
           u.parts = Put(s.parts, j.part, rows), u.checkpoint = s.checkpoint
    PROVE  DirOK(u, n, FALSE)
<1> DEFINE c == s.checkpoint
<1>0. s.parts \in Parts /\ u.parts \in Parts /\ c \in Checkpoint /\ j.part \in Nat
  BY DEF Staging, Job
<1> SUFFICES ASSUME c.state = "whole" PROVE DirOK(u, n, FALSE)
  BY DEF DirOK
<1>1. c.next \in 0 .. j.part /\ Len(s.parts) \in Nat /\ j.part \in 0 .. Len(s.parts)
  BY <1>0, KeptIs DEF Checkpoint, HoldsOK
<1>2. Kept(u.parts, c.next) = Kept(s.parts, c.next)
  BY <1>0, <1>1, KeptOfPut
<1>3. Missing(u) = Missing(s)
  BY <1>2 DEF Missing
<1>4. c.next <= Len(u.parts)
  BY <1>0, <1>1, PutIs
<1>5. n = 0 => Cardinality(Missing(s)) < BatchSize
  BY MissingInBatch DEF DirOK
<1> QED
  BY <1>3, <1>4, <1>5 DEF DirOK

\* A torn checkpoint promises nothing, and one that stays the same with its parts no more.
LEMMA DirOfSame ==
    ASSUME NEW s \in Staging, NEW u \in Staging, NEW n \in Nat, NEW f \in BOOLEAN,
           NEW g \in BOOLEAN, DirOK(s, n, f), g => f, u.parts = s.parts,
           u.checkpoint \in {s.checkpoint, TornCheckpoint}
    PROVE  DirOK(u, n, g)
<1>1. CASE u.checkpoint = TornCheckpoint
  BY <1>1 DEF DirOK, TornCheckpoint
<1>2. CASE u.checkpoint = s.checkpoint
  <2>1. Missing(u) = Missing(s) /\ (FirstOK(s) => FirstOK(u))
    BY <1>2 DEF Missing, FirstOK
  <2> QED
    BY <1>2, <2>1 DEF DirOK
<1> QED
  BY <1>1, <1>2

-----------------------------------------------------------------------------
(* Each step of a run, seen from the run and its directory.                *)

\* emit, into a batch that does not fill up.
LEMMA EmitKeeps ==
    ASSUME NEW j \in Job, NEW k \in Job, NEW s \in Staging, NEW u \in Staging,
           NEW l \in SUBSET Row, NEW n \in Nat, NEW isLate \in BOOLEAN,
           Together(j, s, l, n, isLate),
           j.at = "emit", <<j.file, j.row>> \in Row, Len(j.batch) + 1 < BatchSize,
           k.at = "emit", k.file = j.file, k.row = j.row + 1, k.part = j.part,
           k.batch = Append(j.batch, <<j.file, j.row>>),
           u.parts = s.parts, u.checkpoint = s.checkpoint, u.exists
    PROVE  Together(k, u, l, n, isLate)
<1> DEFINE r == <<j.file, j.row>>
           t == Trusted(n, isLate)
<1>1. /\ j.batch \in Seq(Row) /\ j.part \in Nat /\ j.file \in Nat /\ j.row \in Nat
      /\ s.parts \in Parts /\ Len(j.batch) \in Nat
  BY LenProperties DEF Job, Staging
<1>2. j.file \in File /\ j.row \in 1 .. Rows[j.file] /\ Rows[j.file] \in Nat /\ j.file # Ended
  BY RowIs DEF File, Ended
<1>3. /\ Emitted(k) = Emitted(j) \cup {r} /\ r \notin Emitted(j)
      /\ Cardinality(Emitted(k)) = Cardinality(Emitted(j)) + 1
  BY EmittedOneMore
<1>4. /\ Len(k.batch) = Len(j.batch) + 1 /\ Range(k.batch) = Range(j.batch) \cup {r}
      /\ NoneTwice(j.batch) /\ r \notin Range(j.batch) => NoneTwice(k.batch)
  BY <1>1, BatchOneMore
<1>5. WhereOK(j, s) /\ HoldsOK(j, s, l, n) /\ (t => ExactOK(j, s) /\ CountOK(j, s, l))
  BY <1>2 DEF Together, RunOK, Empty, Past
<1>6. WhereOK(k, u)
  BY <1>1, <1>2, <1>4, <1>5, SizeAssumption DEF WhereOK, Closing, Past
<1>7. HoldsOK(k, u, l, n)
  BY <1>3, <1>4, <1>5 DEF HoldsOK
<1>8. ASSUME t PROVE ExactOK(k, u)
  <2>1. ExactOK(j, s)
    BY <1>5, <1>8
  <2>2. r \notin Range(j.batch) /\ r \notin Kept(s.parts, j.part)
    BY <1>3, <2>1 DEF ExactOK
  <2> QED
    BY <1>3, <1>4, <2>1, <2>2 DEF ExactOK
<1>9. ASSUME t PROVE CountOK(k, u, l)
  <2>1. /\ Cardinality(Emitted(j)) = BatchSize * j.part + Len(j.batch) + Cardinality(l)
        /\ BatchSize * Len(s.parts) <= Cardinality(Row)
    BY <1>2, <1>5, <1>9 DEF CountOK, Closing
  <2>2. BatchSize * j.part \in Nat /\ Cardinality(l) \in Nat
    BY <1>1, SizeAssumption, RowFinite
  <2> QED
    BY <1>1, <1>3, <1>4, <2>1, <2>2 DEF CountOK
<1>10. DirOK(u, n, n = 0 /\ ~isLate /\ k.at \notin Ending)
  BY DEF Together, DirOK, FirstOK, Missing
<1> QED
  BY <1>6, <1>7, <1>8, <1>9, <1>10 DEF Together, RunOK

\* emit, of a batch's last row: the next part file is created.
LEMMA FillKeeps ==
    ASSUME NEW j \in Job, NEW k \in Job, NEW s \in Staging, NEW u \in Staging,
           NEW l \in SUBSET Row, NEW n \in Nat, NEW isLate \in BOOLEAN,
           Together(j, s, l, n, isLate),
           j.at = "emit", <<j.file, j.row>> \in Row, Len(j.batch) + 1 >= BatchSize,
           k.at = "part", k.file = j.file, k.row = j.row + 1, k.part = j.part, k.fd = "staged",
           k.batch = Append(j.batch, <<j.file, j.row>>),
           u.parts = Put(s.parts, j.part, Torn), u.checkpoint = s.checkpoint, u.exists
    PROVE  Together(k, u, l, n, isLate)
<1> DEFINE r == <<j.file, j.row>>
           t == Trusted(n, isLate)
           g == n = 0 /\ ~isLate
<1>1. /\ j.batch \in Seq(Row) /\ j.part \in Nat /\ j.file \in Nat /\ j.row \in Nat
      /\ s.parts \in Parts /\ Len(j.batch) \in Nat /\ Len(s.parts) \in Nat
  BY LenProperties DEF Job, Staging, Parts
<1>2. j.file \in File /\ j.row \in 1 .. Rows[j.file] /\ Rows[j.file] \in Nat /\ j.file # Ended
  BY RowIs DEF File, Ended
<1>3. /\ Emitted(k) = Emitted(j) \cup {r} /\ r \notin Emitted(j)
      /\ Cardinality(Emitted(k)) = Cardinality(Emitted(j)) + 1
  BY EmittedOneMore
<1>4. /\ Len(k.batch) = Len(j.batch) + 1 /\ Range(k.batch) = Range(j.batch) \cup {r}
      /\ NoneTwice(j.batch) /\ r \notin Range(j.batch) => NoneTwice(k.batch)
  BY <1>1, BatchOneMore
<1>5. WhereOK(j, s) /\ HoldsOK(j, s, l, n) /\ (t => ExactOK(j, s) /\ CountOK(j, s, l))
  BY <1>2 DEF Together, RunOK, Empty, Past
<1>6. Len(j.batch) < BatchSize /\ j.part \in 0 .. Len(s.parts) /\ Torn \in Seq(Row)
  BY <1>1, <1>5 DEF WhereOK, HoldsOK, Closing, Past, Torn
<1>7. WhereOK(k, u)
  <2>1. Len(k.batch) = BatchSize
    BY <1>1, <1>4, <1>6, SizeAssumption
  <2>2. k.file \in 1 .. Ended /\ k.row \in Nat \ {0} /\ k.row <= Rows[k.file] + 1
    BY <1>1, <1>2, <1>5 DEF WhereOK
  <2>3. j.part < Len(u.parts) /\ u.parts[j.part + 1] = Torn
    <3>1. Len(u.parts) = IF j.part < Len(s.parts) THEN Len(s.parts) ELSE j.part + 1
      BY <1>1, <1>6, PutIs
    <3>2. j.part + 1 \in 1 .. Len(u.parts)
      BY <1>1, <1>6, <3>1
    <3>3. \A m \in 1 .. Len(u.parts) : u.parts[m] = IF m = j.part + 1 THEN Torn ELSE s.parts[m]
      BY <1>1, <1>6, PutIs
    <3> QED
      BY <1>1, <3>1, <3>2, <3>3
  <2> QED
    BY <1>2, <2>1, <2>2, <2>3 DEF WhereOK, Closing, Past
<1>8. /\ Kept(u.parts, j.part) = Kept(s.parts, j.part)
      /\ Clean(s.parts, j.part) => Clean(u.parts, j.part)
  BY <1>1, <1>6, KeptOfPut, CleanOfPut
<1>9. Len(u.parts) = IF j.part < Len(s.parts) THEN Len(s.parts) ELSE j.part + 1
  BY <1>1, <1>6, PutIs
<1>10. HoldsOK(k, u, l, n)
  <2>1. k.part <= Len(u.parts)
    BY <1>1, <1>6, <1>9
  <2>2. Emitted(k) \subseteq l \cup Kept(u.parts, k.part) \cup Range(k.batch)
    BY <1>3, <1>4, <1>5, <1>8 DEF HoldsOK
  <2> QED
    BY <1>5, <2>1, <2>2 DEF HoldsOK
<1>11. ASSUME t PROVE ExactOK(k, u)
  <2>1. ExactOK(j, s)
    BY <1>5, <1>11
  <2>2. r \notin Range(j.batch) /\ r \notin Kept(s.parts, j.part)
    BY <1>3, <2>1 DEF ExactOK
  <2> QED
    BY <1>3, <1>4, <1>8, <2>1, <2>2 DEF ExactOK
<1>12. ASSUME t
       PROVE  /\ Cardinality(Emitted(k)) = BatchSize * k.part + Len(k.batch) + Cardinality(l)
              /\ BatchSize * Len(u.parts) <= Cardinality(Row)
  <2>1. /\ Cardinality(Emitted(j)) = BatchSize * j.part + Len(j.batch) + Cardinality(l)
        /\ BatchSize * Len(s.parts) <= Cardinality(Row)
    BY <1>2, <1>5, <1>12 DEF CountOK, Closing
  <2>2. BatchSize * j.part \in Nat /\ Cardinality(l) \in Nat /\ BatchSize \in Nat
    BY <1>1, SizeAssumption, RowFinite
  <2>3. Cardinality(Emitted(k)) = BatchSize * k.part + Len(k.batch) + Cardinality(l)
    BY <1>1, <1>3, <1>4, <2>1, <2>2
  <2>4. Cardinality(Emitted(k)) <= Cardinality(Row) /\ Cardinality(Row) \in Nat
    BY RowFinite DEF Emitted
  <2>5. Len(k.batch) = BatchSize
    BY <1>1, <1>4, <1>6, <2>2
  <2> DEFINE m == BatchSize * j.part
  <2>6. BatchSize * (j.part + 1) = m + BatchSize
    BY <1>1, <2>2
  <2>7. m \in Nat /\ m + BatchSize + Cardinality(l) <= Cardinality(Row)
    BY <2>2, <2>3, <2>4, <2>5
  <2> HIDE DEF m
  <2>8. BatchSize * (j.part + 1) <= Cardinality(Row)
    BY <2>2, <2>4, <2>6, <2>7
  <2> QED
    BY <1>9, <2>1, <2>3, <2>8
<1>13. DirOK(u, n, g)
  <2>1. DirOK(s, n, g)
    BY DEF Together, Ending
  <2>2. /\ s.checkpoint.state = "whole" =>
              s.checkpoint.next <= j.part /\ s.checkpoint.done # Len(Rows)
    BY <1>1, <1>2, <1>5, RowIs DEF HoldsOK, Ended, File, Staging, Checkpoint
  <2>3. CASE s.checkpoint.state = "whole"
    <3>1. g => t
      BY DEF Trusted
    <3>2. g => BatchSize * Len(u.parts) <= Cardinality(Row)
      BY <1>12, <3>1
    <3> HIDE DEF g, t
    <3>3. g \in BOOLEAN
      BY DEF g
    <3> QED
      BY <1>6, <2>1, <2>2, <2>3, <3>2, <3>3, DirOfPut
  <2>4. CASE s.checkpoint.state # "whole"
    BY <2>4 DEF DirOK
  <2> QED
    BY <2>3, <2>4
<1>14. CountOK(k, u, l) \/ ~t
  BY <1>12 DEF CountOK
<1> QED
  BY <1>7, <1>10, <1>11, <1>13, <1>14 DEF Together, RunOK, Ending

\* write_part, of a full batch.
LEMMA WritePartKeeps ==
    ASSUME NEW j \in Job, NEW k \in Job, NEW s \in Staging, NEW u \in Staging,
           NEW l \in SUBSET Row, NEW n \in Nat, NEW isLate \in BOOLEAN,
           Together(j, s, l, n, isLate),
           j.at = "part", k.at = "emit", k.file = j.file, k.row = j.row, k.part = j.part + 1,
           k.batch = <<>>,
           u.parts = Put(s.parts, j.part, j.batch), u.checkpoint = s.checkpoint,
           u.exists = s.exists
    PROVE  Together(k, u, l, n, isLate)
<1> DEFINE t == Trusted(n, isLate)
           g == n = 0 /\ ~isLate
<1>1. /\ j.batch \in Seq(Row) /\ j.part \in Nat /\ j.file \in Nat /\ j.row \in Nat
      /\ s.parts \in Parts /\ Len(s.parts) \in Nat
  BY LenProperties DEF Job, Staging, Parts
<1>2. WhereOK(j, s) /\ HoldsOK(j, s, l, n) /\ (t => ExactOK(j, s) /\ CountOK(j, s, l))
  BY DEF Together, RunOK, Empty, Past, WhereOK
<1>3. Len(j.batch) = BatchSize /\ j.part \in 0 .. Len(s.parts) /\ j.batch # <<>>
  BY <1>1, <1>2, SizeAssumption DEF WhereOK, HoldsOK
<1>4. WhereOK(k, u)
  BY <1>2, SizeAssumption DEF WhereOK, Closing, Past
<1>5. Emitted(k) = Emitted(j) /\ Range(k.batch) = {}
  BY DEF Emitted, Range
<1>6. /\ Kept(u.parts, k.part) = Kept(s.parts, j.part) \cup Range(j.batch)
      /\ Clean(s.parts, j.part) /\ NoneTwice(j.batch)
         /\ Kept(s.parts, j.part) \cap Range(j.batch) = {} => Clean(u.parts, k.part)
  BY <1>1, <1>3, KeptOfPut, CleanOfPut DEF Torn
<1>7. Len(u.parts) = IF j.part < Len(s.parts) THEN Len(s.parts) ELSE j.part + 1
  BY <1>1, <1>3, PutIs
<1>8. HoldsOK(k, u, l, n)
  <2>1. k.part <= Len(u.parts)
    BY <1>1, <1>3, <1>7
  <2>2. s.checkpoint.state = "whole" => s.checkpoint.next <= k.part
    BY <1>1, <1>2 DEF HoldsOK, Staging, Checkpoint
  <2> QED
    BY <1>2, <1>5, <1>6, <2>1, <2>2 DEF HoldsOK
<1>9. t => ExactOK(k, u)
  BY <1>2, <1>5, <1>6 DEF ExactOK, NoneTwice
<1>10. ASSUME t
       PROVE  /\ Cardinality(Emitted(k)) = BatchSize * k.part + Len(k.batch) + Cardinality(l)
              /\ BatchSize * Len(u.parts) <= Cardinality(Row)
  <2> DEFINE m == BatchSize * j.part
  <2>1. /\ Cardinality(Emitted(j)) = m + BatchSize + Cardinality(l)
        /\ BatchSize * Len(s.parts) <= Cardinality(Row)
    BY <1>2, <1>3, <1>10 DEF CountOK, Closing
  <2>2. m \in Nat /\ Cardinality(l) \in Nat /\ BatchSize \in Nat
    BY <1>1, SizeAssumption, RowFinite
  <2>3. Cardinality(Emitted(j)) <= Cardinality(Row) /\ Cardinality(Row) \in Nat
    BY RowFinite DEF Emitted
  <2>4. BatchSize * (j.part + 1) = m + BatchSize
    BY <1>1, <2>2
  <2>5. Len(k.batch) = 0
    OBVIOUS
  <2> HIDE DEF m
  <2>6. BatchSize * (j.part + 1) <= Cardinality(Row)
    BY <2>1, <2>2, <2>3, <2>4
  <2>7. Cardinality(Emitted(k)) = BatchSize * (j.part + 1) + 0 + Cardinality(l)
    BY <1>5, <2>1, <2>2, <2>4
  <2> QED
    BY <1>7, <2>1, <2>5, <2>6, <2>7
<1>11. DirOK(u, n, g)
  <2>1. DirOK(s, n, g)
    BY DEF Together, Ending
  <2>2. /\ s.checkpoint.state = "whole" =>
              s.checkpoint.next <= j.part /\ s.checkpoint.done # Len(Rows)
    BY <1>1, <1>2, RowIs DEF HoldsOK, WhereOK, Ended, File, Staging, Checkpoint
  <2>3. CASE s.checkpoint.state = "whole"
    <3>1. g => t
      BY DEF Trusted
    <3>2. g => BatchSize * Len(u.parts) <= Cardinality(Row)
      BY <1>10, <3>1
    <3> HIDE DEF g, t
    <3>3. g \in BOOLEAN
      BY DEF g
    <3>4. ~ (s.parts = NoParts /\ s.checkpoint.done = Len(Rows))
      BY <2>2, <2>3
    <3> QED
      BY <1>1, <1>3, <2>1, <2>2, <2>3, <3>2, <3>3, <3>4, DirOfPut, SMTT(30)
  <2>4. CASE s.checkpoint.state # "whole"
    BY <2>4 DEF DirOK
  <2> QED
    BY <2>3, <2>4
<1>12. t => CountOK(k, u, l)
  BY <1>10 DEF CountOK
<1> QED
  BY <1>4, <1>8, <1>9, <1>11, <1>12 DEF Together, RunOK, Ending

\* A file is finished; the checkpoint may have been opened.
LEMMA FinishFileKeeps ==
    ASSUME NEW j \in Job, NEW k \in Job, NEW s \in Staging, NEW u \in Staging,
           NEW l \in SUBSET Row, NEW n \in Nat, NEW isLate \in BOOLEAN,
           Together(j, s, l, n, isLate),
           j.at = "emit", j.file \in File, j.row > Rows[j.file],
           k.at \in {"emit", "checkpoint"}, k.file = j.file + 1, k.row = 1,
           k.part = j.part, k.batch = j.batch,
           u.parts = s.parts, u.checkpoint \in {s.checkpoint, TornCheckpoint},
           u.exists = s.exists,
           k.at = "checkpoint" => k.fd = "staged" /\ u.checkpoint = TornCheckpoint
    PROVE  Together(k, u, l, n, isLate)
<1> DEFINE t == Trusted(n, isLate)
<1>1. j.file \in Nat /\ j.row \in Nat /\ Rows[j.file] \in Nat /\ j.file # Ended
  BY RowIs DEF Job, File, Ended
<1>2. WhereOK(j, s) /\ HoldsOK(j, s, l, n) /\ (t => ExactOK(j, s) /\ CountOK(j, s, l))
  BY <1>1 DEF Together, RunOK, Empty, Past
<1>3. j.row = Rows[j.file] + 1
  BY <1>1, <1>2 DEF WhereOK
<1>4. Emitted(k) = Emitted(j)
  BY <1>3, EmittedNextFile
<1>5. WhereOK(k, u)
  <2>1. k.file \in 1 .. Ended /\ k.file # 1
    BY <1>1, RowIs DEF File, Ended
  <2>2. k.file # Ended => k.row <= Rows[k.file] + 1
    BY <2>1, RowIs DEF File, Ended
  <2> QED
    BY <1>2, <2>1, <2>2 DEF WhereOK, Closing, Past, TornCheckpoint
<1>6. HoldsOK(k, u, l, n)
  <2>1. s.checkpoint \in Checkpoint
    BY DEF Staging
  <2> QED
    BY <1>1, <1>2, <1>4, <2>1 DEF HoldsOK, Checkpoint, TornCheckpoint
<1>7. t => ExactOK(k, u)
  BY <1>2, <1>4 DEF ExactOK
<1>8. t => CountOK(k, u, l)
  BY <1>1, <1>2, <1>4 DEF CountOK, Closing
<1>9. DirOK(s, n, n = 0 /\ ~isLate)
  BY DEF Together, Ending
<1>10. DirOK(u, n, n = 0 /\ ~isLate)
  BY <1>9, DirOfSame
<1> QED
  BY <1>5, <1>6, <1>7, <1>8, <1>10 DEF Together, RunOK, Ending

\* save_checkpoint: from now on a resume finds what was emitted, but for the open batch.
LEMMA CheckpointKeeps ==
    ASSUME NEW j \in Job, NEW k \in Job, NEW s \in Staging, NEW u \in Staging,
           NEW l \in SUBSET Row, NEW n \in Nat, NEW isLate \in BOOLEAN,
           Together(j, s, l, n, isLate), n = 0 => l = {},
           \/ j.at = "checkpoint" /\ k.at = "emit"
           \/ j.at = "final" /\ k.at = "promote",
           k.file = j.file, k.row = j.row, k.part = j.part, k.batch = j.batch,
           u.parts = s.parts, u.checkpoint = CheckpointOf(j), u.exists = s.exists
    PROVE  Together(k, u, l, n, isLate)
<1> DEFINE t == Trusted(n, isLate)
           c == u.checkpoint
<1>1. /\ j.file \in 1 .. Ended /\ j.part \in Nat /\ Len(Rows) \in Nat /\ j.row = 1
      /\ j.batch \in Seq(Row) /\ Len(j.batch) \in Nat /\ s.parts \in Parts
  <2>1. j.file \in 1 .. Ended /\ j.row = 1
    BY DEF Together, RunOK, WhereOK, Closing
  <2> QED
    BY <2>1, RowIs, LenProperties DEF Job, Staging
<1>2. c.state = "whole" /\ c.done = j.file - 1 /\ c.next = j.part /\ c.done <= Len(Rows)
  BY <1>1 DEF CheckpointOf, Ended
<1>3. Emitted(j) = RowsOf(1 .. c.done) /\ Emitted(k) = Emitted(j)
  BY <1>1, <1>2, EmittedIs DEF Emitted
<1>4. WhereOK(k, u)
  <2>1. WhereOK(j, s)
    BY DEF Together, RunOK
  <2>2. j.at = "final" => c.done = Len(Rows)
    BY <1>2, <2>1, RowIs DEF WhereOK, Closing, Ended
  <2> QED
    BY <1>2, <2>1, <2>2, SizeAssumption DEF WhereOK, Closing, Past
<1>5. CASE Empty(j, s)
  <2>1. Empty(k, u) /\ c.done = Len(Rows) /\ u.parts = NoParts
    BY <1>2, <1>5, RowIs DEF Empty, Ended
  <2> QED
    BY <1>2, <1>4, <2>1 DEF Together, RunOK, DirOK
<1>6. CASE ~Empty(j, s)
  <2>1. HoldsOK(j, s, l, n) /\ (t => ExactOK(j, s) /\ CountOK(j, s, l))
    BY <1>6 DEF Together, RunOK, Past
  <2>2. HoldsOK(k, u, l, n)
    BY <1>1, <1>2, <1>3, <2>1 DEF HoldsOK
  <2>3. t => ExactOK(k, u) /\ CountOK(k, u, l)
    BY <1>3, <2>1 DEF ExactOK, CountOK, Closing
  <2>4. Len(j.batch) < BatchSize /\ BatchSize \in Nat
    BY SizeAssumption DEF Together, RunOK, WhereOK, Closing
  <2>5. ASSUME n = 0 PROVE Cardinality(Missing(u)) < BatchSize
    <3>1. Missing(u) \subseteq Range(j.batch)
      BY <1>2, <1>3, <2>1, <2>5 DEF Missing, HoldsOK
    <3>2. Range(j.batch) \subseteq Row /\ Cardinality(Range(j.batch)) <= Len(j.batch)
      BY <1>1, BatchIs
    <3>3. Cardinality(Missing(u)) <= Cardinality(Range(j.batch))
      BY <3>1, <3>2, RowFinite
    <3>4. Cardinality(Missing(u)) \in Nat /\ Cardinality(Range(j.batch)) \in Nat
      BY <3>1, <3>2, RowFinite
    <3> QED
      BY <1>1, <2>4, <3>2, <3>3, <3>4
  <2>6. ASSUME n = 0, ~isLate PROVE FirstOK(u)
    <3>1. t /\ l = {} /\ ExactOK(j, s) /\ CountOK(j, s, l)
      BY <2>1, <2>6 DEF Trusted
    <3>2. Clean(u.parts, c.next) /\ Kept(u.parts, c.next) \subseteq RowsOf(1 .. c.done)
      BY <1>2, <1>3, <3>1 DEF ExactOK
    <3>3. Missing(u) = Range(j.batch)
      BY <1>2, <1>3, <2>1, <3>1 DEF Missing, ExactOK, HoldsOK
    <3>4. Cardinality(Missing(u)) = Len(j.batch)
      BY <1>1, <3>1, <3>3, BatchIs DEF ExactOK
    <3>5. CASE j.at = "checkpoint"
      <4>1. /\ Cardinality(Emitted(j)) = BatchSize * j.part + Len(j.batch) + Cardinality(l)
            /\ BatchSize * Len(s.parts) <= Cardinality(Row)
        BY <3>1, <3>5 DEF CountOK, Closing
      <4>2. Cardinality(l) = 0 /\ BatchSize * j.part \in Nat
        BY <1>1, <2>4, <3>1, FS_EmptySet
      <4>3. Cardinality(Emitted(j)) = BatchSize * j.part + Len(j.batch)
        BY <1>1, <4>1, <4>2
      <4> QED
        BY <1>2, <1>3, <3>2, <3>4, <4>1, <4>3 DEF FirstOK
    <3>6. CASE j.at = "final"
      <4>1. Len(s.parts) <= j.part
        BY <3>1, <3>6 DEF CountOK, Closing
      <4>2. c.done = Len(Rows)
        BY <1>2, <1>4, <3>6 DEF WhereOK
      <4> QED
        BY <1>2, <3>2, <4>1, <4>2 DEF FirstOK
    <3> QED
      BY <3>5, <3>6
  <2>7. c.next <= Len(u.parts)
    BY <1>2, <2>1 DEF HoldsOK
  <2>8. DirOK(u, n, n = 0 /\ ~isLate /\ k.at \notin Ending)
    BY <1>2, <2>5, <2>6, <2>7 DEF DirOK
  <2> QED
    BY <1>4, <2>2, <2>3, <2>8 DEF Together, RunOK
<1> QED
  BY <1>5, <1>6

\* When everything is emitted, the parts in the directory are those of this run, but for
\* one that the open batch is going to fill.
LEMMA PartsAtTheEnd ==
    ASSUME NEW j \in Job, NEW s \in Staging, NEW l \in SUBSET Row, NEW n \in Nat,
           j.at = "emit", j.file = Ended, WhereOK(j, s), HoldsOK(j, s, l, n), n <= 1,
           CountOK(j, s, l)
    PROVE  /\ j.batch = <<>> => Len(s.parts) <= j.part
           /\ Len(s.parts) <= j.part + 1
<1> DEFINE m == BatchSize * j.part
<1>1. /\ j.part \in Nat /\ j.batch \in Seq(Row) /\ Len(j.batch) \in Nat
      /\ Len(s.parts) \in Nat /\ BatchSize \in Nat \ {0} /\ Cardinality(l) \in Nat /\ m \in Nat
  BY LenProperties, SizeAssumption, RowFinite DEF Job, Staging, Parts
<1>2. Cardinality(l) < BatchSize /\ Len(j.batch) < BatchSize
  BY DEF HoldsOK, WhereOK
<1>3. CASE j.batch = <<>> /\ Len(s.parts) <= j.part
  BY <1>1, <1>3
<1>4. CASE /\ Cardinality(Emitted(j)) = BatchSize * j.part + Len(j.batch) + Cardinality(l)
           /\ BatchSize * Len(s.parts) <= Cardinality(Row)
  <2>1. Emitted(j) = Row
    BY EmittedIs, RowIs DEF WhereOK, Ended
  <2>2. Cardinality(Row) = m + Len(j.batch) + Cardinality(l) /\ Cardinality(Row) \in Nat
    BY <1>4, <2>1, RowFinite
  <2>3. BatchSize * (j.part + 1) = m + BatchSize
    BY <1>1
  <2>4. BatchSize * Len(s.parts) \in Nat
    BY <1>1
  <2> DEFINE have == BatchSize * Len(s.parts)
  <2> HIDE DEF m, have
  <2>5. have < m + BatchSize + BatchSize
    BY <1>1, <1>2, <1>4, <2>2, <2>4 DEF have
  <2>8. BatchSize * Len(s.parts) < BatchSize * (j.part + 1) + BatchSize
    BY <2>3, <2>5 DEF have
  <2>6. Len(s.parts) <= j.part + 1
    BY <1>1, <2>8, WholeBatches
  <2>7. ASSUME j.batch = <<>> PROVE Len(s.parts) <= j.part
    <3>1. Len(j.batch) = 0
      BY <2>7
    <3>2. have < m + BatchSize
      BY <1>1, <1>2, <1>4, <2>2, <2>4, <3>1 DEF have
    <3> QED
      BY <1>1, <3>2, WholeBatches DEF m, have
  <2> QED
    BY <2>6, <2>7
<1> QED
  BY <1>3, <1>4 DEF CountOK, Closing

\* The last file is behind, and nothing is in the batch.
LEMMA NoLastPartKeeps ==
    ASSUME NEW j \in Job, NEW k \in Job, NEW s \in Staging,
           NEW l \in SUBSET Row, NEW n \in Nat, NEW isLate \in BOOLEAN,
           Together(j, s, l, n, isLate),
           j.at = "emit", j.file = Ended, j.batch = <<>>,
           k.at = "flush", k.file = j.file, k.row = j.row, k.part = j.part, k.batch = j.batch
    PROVE  Together(k, s, l, n, isLate)
<1> DEFINE t == Trusted(n, isLate)
<1>1. WhereOK(k, s)
  BY DEF Together, RunOK, WhereOK, Closing, Past
<1>2. DirOK(s, n, n = 0 /\ ~isLate /\ k.at \notin Ending)
  <2>1. DirOK(s, n, n = 0 /\ ~isLate)
    BY DEF Together, Ending
  <2> QED
    BY <2>1 DEF DirOK, Ending
<1>3. CASE Empty(j, s)
  BY <1>1, <1>2, <1>3 DEF Together, RunOK, Empty
<1>4. CASE ~Empty(j, s)
  <2>1. HoldsOK(j, s, l, n) /\ (t => ExactOK(j, s) /\ CountOK(j, s, l)) /\ WhereOK(j, s)
    BY <1>4 DEF Together, RunOK, Past
  <2>2. HoldsOK(k, s, l, n)
    BY <2>1 DEF HoldsOK, Emitted
  <2>3. t => ExactOK(k, s)
    BY <2>1 DEF ExactOK, Emitted
  <2>4. t => CountOK(k, s, l)
    <3>1. t => n <= 1
      BY DEF Trusted
    <3> QED
      BY <2>1, <3>1, PartsAtTheEnd DEF CountOK, Closing
  <2> QED
    BY <1>1, <1>2, <2>2, <2>3, <2>4 DEF Together, RunOK
<1> QED
  BY <1>3, <1>4

\* The last part file is created.
LEMMA StartLastKeeps ==
    ASSUME NEW j \in Job, NEW k \in Job, NEW s \in Staging, NEW u \in Staging,
           NEW l \in SUBSET Row, NEW n \in Nat, NEW isLate \in BOOLEAN,
           Together(j, s, l, n, isLate), n = 0 => l = {},
           j.at = "emit", j.file = Ended, j.batch # <<>>,
           k.at = "last", k.file = j.file, k.row = j.row, k.part = j.part, k.batch = j.batch,
           k.fd = "staged",
           u.parts = Put(s.parts, j.part, Torn), u.checkpoint = s.checkpoint,
           u.exists = s.exists
    PROVE  Together(k, u, l, n, isLate)
<1> DEFINE t == Trusted(n, isLate)
<1>1. /\ j.batch \in Seq(Row) /\ j.part \in Nat /\ Len(j.batch) \in Nat
      /\ s.parts \in Parts /\ Len(s.parts) \in Nat /\ BatchSize \in Nat
  BY LenProperties, SizeAssumption DEF Job, Staging, Parts
<1>2. /\ WhereOK(j, s) /\ HoldsOK(j, s, l, n)
      /\ t => ExactOK(j, s) /\ CountOK(j, s, l)
  BY DEF Together, RunOK, Past, Empty
<1>3. Len(j.batch) \in 1 .. BatchSize - 1
  <2>1. Len(j.batch) < BatchSize
    BY <1>2 DEF WhereOK
  <2>2. Len(j.batch) # 0
    BY <1>1, EmptySeq
  <2> QED
    BY <1>1, <2>1, <2>2
<1>5. j.part \in 0 .. Len(s.parts) /\ Torn \in Seq(Row)
  BY <1>1, <1>2 DEF HoldsOK, Torn
<1>4. WhereOK(k, u)
  <2>1. j.part < Len(u.parts) /\ u.parts[j.part + 1] = Torn
    BY <1>1, <1>5, PutIs
  <2> QED
    BY <1>2, <1>3, <2>1 DEF WhereOK, Closing, Past
<1>6. /\ \A m \in 0 .. j.part : Kept(u.parts, m) = Kept(s.parts, m)
      /\ Clean(s.parts, j.part) => Clean(u.parts, j.part)
      /\ Kept(u.parts, j.part) = Kept(s.parts, j.part)
  BY <1>1, <1>5, KeptOfPut, CleanOfPut
<1>7. Len(u.parts) = IF j.part < Len(s.parts) THEN Len(s.parts) ELSE j.part + 1
  BY <1>1, <1>5, PutIs
<1>8. HoldsOK(k, u, l, n)
  <2>1. k.part <= Len(u.parts) /\ Emitted(k) = Emitted(j)
    BY <1>1, <1>5, <1>7 DEF Emitted
  <2> QED
    BY <1>2, <1>6, <2>1 DEF HoldsOK
<1>9. t => ExactOK(k, u)
  BY <1>2, <1>6 DEF ExactOK, Emitted
<1>10. t => CountOK(k, u, l)
  <2>1. t => n <= 1
    BY DEF Trusted
  <2>2. t => Len(s.parts) <= j.part + 1
    BY <1>2, <2>1, PartsAtTheEnd
  <2> QED
    BY <1>1, <1>7, <2>2 DEF CountOK
<1>11. DirOK(u, n, FALSE)
  <2>1. DirOK(s, n, FALSE)
    BY DEF Together, DirOK
  <2> QED
    BY <1>2, <1>5, <2>1, DirOfLaterPut DEF WhereOK
<1> QED
  BY <1>4, <1>8, <1>9, <1>10, <1>11 DEF Together, RunOK, Ending

\* The last part is written.
LEMMA WriteLastKeeps ==
    ASSUME NEW j \in Job, NEW k \in Job, NEW s \in Staging, NEW u \in Staging,
           NEW l \in SUBSET Row, NEW n \in Nat, NEW isLate \in BOOLEAN,
           Together(j, s, l, n, isLate), n = 0 => l = {},
           j.at = "last", k.at = "flush", k.file = j.file, k.row = j.row,
           k.part = j.part + 1, k.batch = <<>>,
           u.parts = Put(s.parts, j.part, j.batch), u.checkpoint = s.checkpoint,
           u.exists = s.exists
    PROVE  Together(k, u, l, n, isLate)
<1> DEFINE t == Trusted(n, isLate)
<1>1. /\ j.batch \in Seq(Row) /\ j.part \in Nat /\ Len(j.batch) \in Nat
      /\ s.parts \in Parts /\ Len(s.parts) \in Nat
  BY LenProperties DEF Job, Staging, Parts
<1>2. WhereOK(j, s) /\ j.batch # <<>> /\ j.file = Ended
  BY SizeAssumption DEF Together, RunOK, WhereOK
<1>3. HoldsOK(j, s, l, n) /\ (t => ExactOK(j, s) /\ CountOK(j, s, l))
  BY <1>2 DEF Together, RunOK, Past, Empty
<1>4. WhereOK(k, u)
  BY <1>2 DEF WhereOK, Closing, Past
<1>5. j.part \in 0 .. Len(s.parts)
  BY <1>1, <1>3 DEF HoldsOK
<1>6. Emitted(k) = Emitted(j) /\ Range(k.batch) = {}
  BY DEF Emitted, Range
<1>7. /\ Kept(u.parts, k.part) = Kept(s.parts, j.part) \cup Range(j.batch)
      /\ Clean(s.parts, j.part) /\ NoneTwice(j.batch)
         /\ Kept(s.parts, j.part) \cap Range(j.batch) = {} => Clean(u.parts, k.part)
  BY <1>1, <1>2, <1>5, KeptOfPut, CleanOfPut DEF Torn
<1>8. Len(u.parts) = IF j.part < Len(s.parts) THEN Len(s.parts) ELSE j.part + 1
  BY <1>1, <1>5, PutIs
<1>9. HoldsOK(k, u, l, n)
  <2>1. k.part <= Len(u.parts)
    BY <1>1, <1>5, <1>8
  <2>2. s.checkpoint.state = "whole" => s.checkpoint.next <= k.part
    BY <1>1, <1>3 DEF HoldsOK, Staging, Checkpoint
  <2> QED
    BY <1>3, <1>6, <1>7, <2>1, <2>2 DEF HoldsOK
<1>10. t => ExactOK(k, u)
  BY <1>3, <1>6, <1>7 DEF ExactOK, NoneTwice
<1>11. t => CountOK(k, u, l)
  BY <1>1, <1>3, <1>8 DEF CountOK, Closing
<1>12. DirOK(u, n, FALSE)
  <2>1. DirOK(s, n, FALSE)
    BY DEF Together, DirOK
  <2>2. Len(j.batch) < BatchSize
    BY <1>2, SizeAssumption DEF WhereOK
  <2> QED
    BY <1>1, <1>3, <2>1, <2>2, DirOfLaterPut
<1> QED
  BY <1>4, <1>9, <1>10, <1>11, <1>12 DEF Together, RunOK, Ending

\* flush: the checkpoint is opened for the last time, or promotion goes on, and the run
\* keeps what it holds.
LEMMA ClosingKeeps ==
    ASSUME NEW j \in Job, NEW k \in Job, NEW s \in Staging, NEW u \in Staging,
           NEW l \in SUBSET Row, NEW n \in Nat, NEW isLate \in BOOLEAN,
           Together(j, s, l, n, isLate),
           \/ j.at = "flush" /\ k.at = "final" /\ u.checkpoint = TornCheckpoint /\ k.fd = "staged"
           \/ j.at = "promote" /\ k.at = "rename" /\ u.checkpoint = s.checkpoint,
           k.file = j.file, k.row = j.row, k.part = j.part, k.batch = j.batch,
           u.parts = s.parts, u.exists = s.exists
    PROVE  Together(k, u, l, n, isLate)
<1>1. WhereOK(k, u)
  BY DEF Together, RunOK, WhereOK, Closing, Past, TornCheckpoint
<1>2. DirOK(u, n, n = 0 /\ ~isLate /\ k.at \notin Ending)
  BY DirOfSame DEF Together, Ending
<1>3. CASE Empty(j, s)
  BY <1>1, <1>2, <1>3 DEF Together, RunOK, Empty
<1>4. CASE ~Empty(j, s)
  <2>1. /\ HoldsOK(j, s, l, n)
        /\ Trusted(n, isLate) => ExactOK(j, s) /\ CountOK(j, s, l)
    BY <1>4 DEF Together, RunOK, Past
  <2>2. HoldsOK(k, u, l, n)
    BY <2>1 DEF HoldsOK, Emitted, TornCheckpoint
  <2>3. Trusted(n, isLate) => ExactOK(k, u) /\ CountOK(k, u, l)
    BY <2>1 DEF ExactOK, CountOK, Emitted, Closing
  <2> QED
    BY <1>1, <1>2, <2>2, <2>3 DEF Together, RunOK
<1> QED
  BY <1>3, <1>4

\* A run whose partition is promoted keeps its directory until the sweep.
LEMMA PastKeeps ==
    ASSUME NEW j \in Job, NEW k \in Job, NEW s \in Staging, NEW u \in Staging,
           NEW l \in SUBSET Row, NEW n \in Nat, NEW isLate \in BOOLEAN,
           Together(j, s, l, n, isLate),
           j.at \in {"promote", "rename", "jsonl", "unlink"}, k.at \in Past,
           k.file = j.file, k.row = j.row, k.part = j.part, k.batch = j.batch,
           u.parts = NoParts \/ (u.parts = s.parts /\ j.at \in Past),
           u.checkpoint = s.checkpoint,
           u.exists = s.exists
    PROVE  Together(k, u, l, n, isLate)
<1>1. /\ WhereOK(k, u)
      /\ s.checkpoint.state = "whole" /\ s.checkpoint.done = Len(Rows)
  BY DEF Together, RunOK, WhereOK, Closing, Past
<1>2. DirOK(u, n, n = 0 /\ ~isLate)
  <2>1. CASE u.parts = NoParts
    BY <1>1, <2>1, RowIs DEF DirOK
  <2>2. CASE u.parts = s.parts
    <3>1. DirOK(s, n, n = 0 /\ ~isLate)
      BY DEF Together, Ending
    <3> QED
      BY <2>2, <3>1, DirOfSame
  <2> QED
    BY <2>1, <2>2
<1> QED
  BY <1>1, <1>2 DEF Together, RunOK, Ending, Past

\* --resume, of a directory nobody works in.
LEMMA ResumeKeeps ==
    ASSUME NEW k \in Job, NEW s \in Staging, NEW u \in Staging, NEW n \in Nat,
           NEW isLate \in BOOLEAN, DirOK(s, n, n = 0 /\ ~isLate),
           s.checkpoint.state = "whole",
           k.at = "emit", k.file = s.checkpoint.done + 1, k.row = 1,
           k.part = s.checkpoint.next, k.batch = <<>>,
           u.parts = s.parts, u.checkpoint = s.checkpoint, u.exists
    PROVE  Together(k, u, Missing(s), n + 1, isLate)
<1> DEFINE c == s.checkpoint
           t == Trusted(n + 1, isLate)
<1>1. /\ c.done \in Nat /\ c.next \in Nat /\ Len(Rows) \in Nat /\ c.done <= Len(Rows)
      /\ s.parts \in Parts /\ BatchSize \in Nat \ {0}
  BY RowIs, SizeAssumption DEF Staging, Checkpoint, DirOK
<1>2. k.file \in 1 .. Ended
  BY <1>1 DEF Ended
<1>3. WhereOK(k, u)
  <2>1. k.file # Ended => k.file \in File
    BY <1>2 DEF File, Ended
  <2>2. Len(k.batch) = 0
    OBVIOUS
  <2> QED
    BY <1>1, <1>2, <2>1, <2>2, RowIs DEF WhereOK, Closing, Past
<1>4. Emitted(k) = RowsOf(1 .. c.done)
  BY <1>1, <1>2, EmittedIs
<1>5. Range(k.batch) = {} /\ Missing(u) = Missing(s)
  BY DEF Range, Missing
<1>6. n + 1 # 0 /\ (n + 1 <= 1 => n = 0) /\ (t => n = 0 /\ ~isLate)
  BY DEF Trusted
<1>7. DirOK(u, n + 1, FALSE)
  BY <1>5, <1>6 DEF DirOK
<1>8. CASE s.parts = NoParts /\ c.done = Len(Rows)
  <2>1. Empty(k, u)
    BY <1>8 DEF Empty, Ended
  <2> QED
    BY <1>3, <1>6, <1>7, <2>1 DEF Together, RunOK
<1>9. CASE ~ (s.parts = NoParts /\ c.done = Len(Rows))
  <2>1. /\ c.next <= Len(s.parts)
        /\ n = 0 => Cardinality(Missing(s)) < BatchSize
        /\ n = 0 /\ ~isLate => FirstOK(s)
    BY <1>9 DEF DirOK
  <2>2. HoldsOK(k, u, Missing(s), n + 1)
    BY <1>1, <1>4, <1>6, <2>1 DEF HoldsOK, Missing
  <2>3. ASSUME t PROVE ExactOK(k, u)
    <3>1. FirstOK(s)
      BY <1>6, <2>1, <2>3
    <3> QED
      BY <1>4, <1>5, <3>1 DEF ExactOK, FirstOK, NoneTwice
  <2>4. ASSUME t PROVE CountOK(k, u, Missing(s))
    <3>1. FirstOK(s)
      BY <1>6, <2>1, <2>4
    <3>2. CASE /\ BatchSize * Len(s.parts) <= Cardinality(Row)
               /\ Cardinality(RowsOf(1 .. c.done)) = BatchSize * c.next + Cardinality(Missing(s))
      <4>1. Cardinality(Missing(s)) \in Nat /\ BatchSize * c.next \in Nat /\ Len(k.batch) = 0
        <5>1. Missing(s) \subseteq Row
          BY DEF Missing, RowsOf
        <5> QED
          BY <1>1, <5>1, RowFinite
      <4>2. Cardinality(Emitted(k)) =
               BatchSize * k.part + Len(k.batch) + Cardinality(Missing(s))
        BY <1>4, <3>2, <4>1
      <4> QED
        BY <3>2, <4>2 DEF CountOK
    <3>3. CASE c.done = Len(Rows) /\ Len(s.parts) <= c.next
      BY <3>3 DEF CountOK, Ended
    <3> QED
      BY <3>1, <3>2, <3>3 DEF FirstOK
  <2> QED
    BY <1>3, <1>6, <1>7, <2>2, <2>3, <2>4 DEF Together, RunOK
<1> QED
  BY <1>8, <1>9

\* A first run.
LEMMA FirstRunOK ==
    ASSUME NEW k \in Job, NEW u \in Staging, NEW isLate \in BOOLEAN,
           k.at = "emit", k.file = 1, k.row = 1, k.part = 0, k.batch = <<>>,
           u.parts = NoParts, u.checkpoint = NoCheckpoint, u.exists
    PROVE  Together(k, u, {}, 0, isLate)
<1>1. Len(Rows) \in Nat /\ 1 \in 1 .. Ended /\ BatchSize \in Nat \ {0}
  BY RowIs, SizeAssumption DEF Ended
<1>2. Len(k.batch) = 0 /\ Len(u.parts) = 0 /\ Range(k.batch) = {} /\ Kept(u.parts, 0) = {}
  BY DEF NoParts, Range, Kept
<1>3. Emitted(k) = {}
  <2>1. Emitted(k) = RowsOf(1 .. 0)
    BY <1>1, EmittedIs
  <2> QED
    BY <2>1, RowIs DEF RowsOf
<1>4. Cardinality({}) = 0 /\ Cardinality(Row) \in Nat
  BY FS_EmptySet, RowFinite
<1>5. WhereOK(k, u)
  <2>1. 1 # Ended => 1 <= Rows[1] + 1
    BY <1>1, RowIs DEF File, Ended
  <2> QED
    BY <1>1, <1>2, <2>1 DEF WhereOK, Closing, Past
<1>6. HoldsOK(k, u, {}, 0)
  BY <1>1, <1>2, <1>3, <1>4 DEF HoldsOK, NoCheckpoint
<1>7. ExactOK(k, u)
  BY <1>2, <1>3 DEF ExactOK, Clean, NoneTwice
<1>8. CountOK(k, u, {})
  BY <1>1, <1>2, <1>3, <1>4 DEF CountOK
<1>9. \A f \in BOOLEAN : DirOK(u, 0, f)
  BY DEF DirOK, NoCheckpoint
<1> QED
  BY <1>5, <1>6, <1>7, <1>8, <1>9 DEF Together, RunOK

-----------------------------------------------------------------------------
(* The invariant, when one run takes a step.                               *)

\* What the invariant says of one live run.
LEMMA RunHas ==
    ASSUME IngestInv, NEW p \in Proc, Live(p)
    PROVE  LET d == job[p].dir
               j == job[p]
           IN  /\ d \in Dir /\ d \in 1 .. created /\ j \in Job /\ j.file \in Nat \ {0}
               /\ j.part \in Nat /\ j.batch \in Seq(Row)
               /\ staging[d] \in Staging /\ staging[d].parts \in Parts
               /\ lost[d] \in SUBSET Row /\ resumes[d] \in Nat /\ (d \in late) \in BOOLEAN
               /\ resumes[d] = 0 => lost[d] = {}
               /\ d \notin shared =>
                     /\ Together(j, staging[d], lost[d], resumes[d], d \in late)
                     /\ \A q \in Proc : job[q].dir = d => q = p
<1> DEFINE d == job[p].dir
<1>1. created \in 0 .. MaxDirs /\ MaxDirs \in Nat /\ MaxResumes \in Nat
  BY BoundAssumption DEF IngestInv, TypeOK
<1>2. d \in 1 .. created /\ d \in Dir /\ job[p].file # 0
  BY <1>1 DEF IngestInv, ApartOK, Dir
<1>3. job[p] \in Job /\ staging[d] \in Staging /\ lost[d] \in SUBSET Row /\ resumes[d] \in Nat
  BY <1>1, <1>2 DEF IngestInv, TypeOK
<1>4. resumes[d] = 0 => lost[d] = {}
  BY <1>2 DEF IngestInv, ApartOK
<1>5. ASSUME d \notin shared
      PROVE  /\ Together(job[p], staging[d], lost[d], resumes[d], d \in late)
             /\ \A q \in Proc : job[q].dir = d => q = p
  <2>1. \A q \in Proc : job[q].dir = d => q = p
    BY <1>2, <1>5 DEF IngestInv, ApartOK, Idle, Live
  <2>2. RunOK(job[p], staging[d], lost[d], resumes[d], Trusted(resumes[d], d \in late))
    BY <1>5 DEF IngestInv, RunsOK, Trust
  <2>3. resumes[d] = 0 /\ d \notin late /\ job[p].at \notin Ending => Undisturbed(d)
    BY <2>1 DEF Undisturbed
  <2>4. DirOK(staging[d], resumes[d], Undisturbed(d))
    BY <1>2, <1>5 DEF IngestInv, DirsOK
  <2>5. DirOK(staging[d], resumes[d], resumes[d] = 0 /\ d \notin late /\ job[p].at \notin Ending)
    BY <2>3, <2>4 DEF DirOK
  <2> QED
    BY <2>1, <2>2, <2>5 DEF Together
<1>6. job[p].part \in Nat /\ job[p].batch \in Seq(Row) /\ job[p].file \in Nat
      /\ staging[d].parts \in Parts
  BY <1>3 DEF Job, Staging
<1> QED
  BY <1>2, <1>3, <1>4, <1>5, <1>6

\* p's run becomes k; of another in its directory a file may be moved or removed.
Changes(p, k) ==
    /\ job' \in [Proc -> Job] /\ job'[p] = k
    /\ \A q \in Proc \ {p} :
          \/ job'[q] = job[q]
          \/ /\ Live(q) /\ job[q].dir = job[p].dir
             /\ job'[q].at = job[q].at /\ job'[q].dir = job[q].dir /\ job'[q].file = job[q].file

\* What becomes of p's run, whose directory becomes u: it goes on, or it stops.
GoesOn(p, k, u) ==
    /\ k.at # "idle" /\ k.dir = job[p].dir /\ k.file # 0 /\ late' = late
    /\ job[p].at \in Past => k.at \in Past
    /\ job[p].dir \notin shared => Together(k, u, lost[k.dir], resumes[k.dir], k.dir \in late)
Stops(p, k, u) ==
    LET d == job[p].dir
    IN  /\ k = Idle /\ late' \in {late, late \cup {d}}
        /\ d \notin shared => DirOK(u, resumes[d], resumes[d] = 0 /\ d \notin late')

\* A step of one run in its directory: only what it does there has to be looked at.
LEMMA RunStep ==
    ASSUME IngestInv, NEW p \in Proc, Live(p), NEW k \in Job, NEW u \in Staging,
           Changes(p, k), GoesOn(p, k, u) \/ Stops(p, k, u),
           staging' = [staging EXCEPT ![job[p].dir] = u],
           UNCHANGED <<created, resumes, lost, shared>>, out_jsonl' \in BOOLEAN,
           published' \in Parts \cup {Absent}, origin' \in Dir \cup {0},
           HandsOK', StoreOK'
    PROVE  IngestInv'
<1> DEFINE d == job[p].dir
<1>1. d \in Dir /\ d \in 1 .. created
  BY RunHas
<1>2. /\ job' \in [Proc -> Job] /\ job'[p] = k /\ staging \in [Dir -> Staging]
      /\ staging'[d] = u /\ \A e \in Dir : e # d => staging'[e] = staging[e]
      /\ \A e \in Dir : e # d => (e \in late' <=> e \in late)
      /\ late' \in SUBSET Dir
  BY <1>1 DEF Changes, GoesOn, Stops, IngestInv, TypeOK
<1>3. ASSUME NEW q \in Proc, q # p
      PROVE  /\ Live(q)' <=> Live(q)
             /\ job'[q].dir = job[q].dir /\ job'[q].at = job[q].at /\ job'[q].file = job[q].file
             /\ job[q].dir # d => job'[q] = job[q]
             /\ job[q].dir = d => d \in shared
             /\ ~Live(q) => job'[q] = job[q]
  <2>1. job[q].dir = d => d \in shared
    BY <1>1, <1>3, RunHas
  <2> QED
    BY <1>3, <2>1 DEF Changes, Live
<1>4. TypeOK'
  BY <1>1, <1>2 DEF IngestInv, TypeOK
<1>5. k = Idle \/ (k.at # "idle" /\ k.dir = d /\ k.file # 0)
  BY DEF GoesOn, Stops
<1>6. ApartOK'
  <2>1. \A q \in Proc : ~Live(q)' => job'[q] = Idle
    BY <1>2, <1>3, <1>5 DEF Live, IngestInv, ApartOK
  <2>2. \A q \in Proc : Live(q)' => job'[q].dir \in 1 .. created /\ job'[q].file # 0
    BY <1>1, <1>2, <1>3, <1>5 DEF Live, IngestInv, ApartOK, Idle
  <2>3. ASSUME NEW q \in Proc, NEW o \in Proc, Live(q)', Live(o)', q # o, job'[q].dir = job'[o].dir
        PROVE  job'[q].dir \in shared
    <3>1. CASE q # p /\ o # p
      BY <1>3, <2>3, <3>1 DEF IngestInv, ApartOK
    <3>2. CASE q = p
      BY <1>2, <1>3, <1>5, <2>3, <3>2 DEF Live, Idle
    <3>3. CASE o = p
      BY <1>2, <1>3, <1>5, <2>3, <3>3 DEF Live, Idle
    <3> QED
      BY <3>1, <3>2, <3>3
  <2>4. \A e \in Dir : e > created => staging'[e] = NoStaging /\ resumes[e] = 0 /\ e \notin shared
    <3>1. created \in Nat /\ \A e \in Dir : e > created => e # d
      BY <1>1, BoundAssumption DEF Dir, IngestInv, TypeOK
    <3> QED
      BY <1>2, <3>1 DEF IngestInv, ApartOK
  <2>5. \A e \in Dir : resumes[e] = 0 => lost[e] = {}
    BY DEF IngestInv, ApartOK
  <2> QED
    BY <2>1, <2>2, <2>3, <2>4, <2>5 DEF ApartOK
<1>7. RunsOK'
  <2> SUFFICES ASSUME NEW q \in Proc, Live(q)', job'[q].dir \notin shared
               PROVE  RunOK(job'[q], staging'[job'[q].dir], lost[job'[q].dir],
                            resumes[job'[q].dir],
                            Trusted(resumes[job'[q].dir], job'[q].dir \in late'))
    BY DEF RunsOK, Trust
  <2>1. CASE q = p
    <3>1. GoesOn(p, k, u)
      BY <1>2, <2>1 DEF Stops, Live, Idle
    <3>2. k.dir = d /\ late' = late /\ Together(k, u, lost[d], resumes[d], d \in late)
      BY <1>2, <2>1, <3>1 DEF GoesOn
    <3>3. RunOK(k, u, lost[d], resumes[d], Trusted(resumes[d], d \in late))
      BY <3>2 DEF Together
    <3> QED
      BY <1>2, <2>1, <3>2, <3>3
  <2>2. CASE q # p
    <3>1. Live(q) /\ job'[q] = job[q] /\ job[q].dir \in Dir /\ job[q].dir # d
      BY <1>3, <2>2, RunHas
    <3>2. RunOK(job[q], staging[job[q].dir], lost[job[q].dir], resumes[job[q].dir],
                Trusted(resumes[job[q].dir], job[q].dir \in late))
      BY <3>1 DEF IngestInv, RunsOK, Trust
    <3> QED
      BY <1>2, <3>1, <3>2
  <2> QED
    BY <2>1, <2>2
<1>8. DirsOK'
  <2> SUFFICES ASSUME NEW e \in Dir, e \notin shared
               PROVE  DirOK(staging'[e], resumes[e], Undisturbed(e)')
    BY DEF DirsOK
  <2>1. CASE e = d /\ GoesOn(p, k, u)
    <3>1. k.dir = d /\ late' = late /\ Together(k, u, lost[d], resumes[d], d \in late)
      BY <2>1 DEF GoesOn
    <3>2. Undisturbed(e)' => resumes[d] = 0 /\ d \notin late /\ k.at \notin Ending
      BY <1>2, <2>1, <3>1 DEF Undisturbed
    <3>3. DirOK(u, resumes[d], resumes[d] = 0 /\ d \notin late /\ k.at \notin Ending)
      BY <3>1 DEF Together
    <3> QED
      BY <1>2, <2>1, <3>2, <3>3 DEF DirOK
  <2>2. CASE e = d /\ Stops(p, k, u)
    <3>1. Undisturbed(e)' => resumes[d] = 0 /\ d \notin late'
      BY <2>2 DEF Undisturbed
    <3>2. DirOK(u, resumes[d], resumes[d] = 0 /\ d \notin late')
      BY <2>2 DEF Stops
    <3> QED
      BY <1>2, <2>2, <3>1, <3>2 DEF DirOK
  <2>3. CASE e # d
    <3>1. Undisturbed(e)' => Undisturbed(e)
      BY <1>2, <1>3, <2>3 DEF Undisturbed
    <3>2. DirOK(staging[e], resumes[e], Undisturbed(e))
      BY DEF IngestInv, DirsOK
    <3> QED
      BY <1>2, <2>3, <3>1, <3>2 DEF DirOK
  <2> QED
    BY <2>1, <2>2, <2>3
<1> QED
  BY <1>4, <1>6, <1>7, <1>8 DEF IngestInv

\* The same where the runs beside it are let be, and where what is promoted stays, or is of a
\* directory that several runs were in.
LEMMA PlainStep ==
    ASSUME IngestInv, NEW p \in Proc, Live(p), NEW k \in Job, NEW u \in Staging,
           job' = [job EXCEPT ![p] = k], k.fd # "published", GoesOn(p, k, u) \/ Stops(p, k, u),
           staging' = [staging EXCEPT ![job[p].dir] = u],
           UNCHANGED <<created, resumes, lost, shared, origin>>, out_jsonl' \in BOOLEAN,
           \/ published' = published
           \/ published # Absent /\ origin \in shared /\ published' \in Parts
    PROVE  IngestInv'
<1>1. job \in [Proc -> Job] /\ published \in Parts \cup {Absent} /\ origin \in Dir \cup {0}
  BY DEF IngestInv, TypeOK
<1>2. Changes(p, k)
  BY <1>1 DEF Changes
<1>3. published' = Absent <=> published = Absent
  BY AbsentAssumption
<1>4. HandsOK'
  BY <1>1, <1>3 DEF IngestInv, HandsOK
<1>5. StoreOK'
  <2>1. CASE published = Absent
    BY <1>3, <2>1 DEF IngestInv, StoreOK
  <2>2. CASE published # Absent
    <3>1. origin \in 1 .. created /\ origin # 0
      BY <2>2 DEF IngestInv, StoreOK
    <3>2. CASE origin \in shared
      BY <1>3, <2>2, <3>1, <3>2 DEF StoreOK
    <3>3. CASE origin \notin shared
      <4>1. published' = published
        BY <3>3
      <4>2. \A q \in Proc : job[q].dir = origin => job[q].at \in Past
        BY <2>2, <3>3 DEF IngestInv, StoreOK
      <4>3. k.dir = origin => k.at \in Past
        BY <3>1, <4>2 DEF GoesOn, Stops, Idle
      <4>4. \A q \in Proc : job'[q].dir = origin => job'[q].at \in Past
        BY <1>1, <4>2, <4>3
      <4>5. Trust(origin)' => Trust(origin)
        BY DEF Trust, Trusted, GoesOn, Stops
      <4>6. /\ Row \subseteq lost[origin] \cup Kept(published, Len(published))
            /\ resumes[origin] <= 1 => Cardinality(lost[origin]) < BatchSize
            /\ Trust(origin) => Clean(published, Len(published))
        BY <2>2, <3>3 DEF IngestInv, StoreOK
      <4> QED
        BY <2>2, <3>1, <3>3, <4>1, <4>4, <4>5, <4>6 DEF StoreOK
    <3> QED
      BY <3>2, <3>3
  <2> QED
    BY <2>1, <2>2
<1> QED
  BY <1>1, <1>2, <1>4, <1>5, RunStep

\* A run that stops, by itself or not, and has not torn a file of its own more than it was.
LEMMA StopStep ==
    ASSUME IngestInv, NEW p \in Proc, Live(p), NEW u \in Staging,
           job' = [job EXCEPT ![p] = Idle], staging' = [staging EXCEPT ![job[p].dir] = u],
           job[p].dir \notin shared =>
              /\ u.parts = staging[job[p].dir].parts
              /\ u.checkpoint \in {staging[job[p].dir].checkpoint, TornCheckpoint}
              /\ job[p].at \in Ending => job[p].dir \in late',
           late' \in {late, late \cup {job[p].dir}}, out_jsonl' \in BOOLEAN,
           UNCHANGED <<created, resumes, lost, shared, origin>>,
           \/ published' = published
           \/ published # Absent /\ origin \in shared /\ published' \in Parts
    PROVE  IngestInv'
<1> DEFINE d == job[p].dir
<1>1. Idle \in Job /\ Idle.fd # "published"
  <2>1. <<>> \in Seq(Row)
    OBVIOUS
  <2> QED
    BY <2>1 DEF Job, Idle, Stage, Handle
<1>2. ASSUME d \notin shared PROVE DirOK(u, resumes[d], resumes[d] = 0 /\ d \notin late')
  <2> DEFINE s == staging[d]
             n == resumes[d]
             f == n = 0 /\ d \notin late /\ job[p].at \notin Ending
             g == n = 0 /\ d \notin late'
  <2>1. s \in Staging /\ n \in Nat /\ Together(job[p], s, lost[d], n, d \in late)
    BY <1>2, RunHas
  <2>2. DirOK(s, n, f)
    BY <2>1 DEF Together
  <2>3. (g => f) /\ f \in BOOLEAN /\ g \in BOOLEAN
    BY <1>2
  <2>4. u.parts = s.parts /\ u.checkpoint \in {s.checkpoint, TornCheckpoint}
    BY <1>2
  <2> HIDE DEF s, n, f, g
  <2>5. DirOK(u, n, g)
    BY <2>1, <2>2, <2>3, <2>4, DirOfSame
  <2> QED
    BY <2>5 DEF n, g
<1>3. Stops(p, Idle, u)
  BY <1>2 DEF Stops
<1> QED
  BY <1>1, <1>3, PlainStep

-----------------------------------------------------------------------------
(* The invariant is one.                                                   *)

LEMMA InvInit == Init => IngestInv
<1> SUFFICES ASSUME Init PROVE IngestInv
  OBVIOUS
<1>1. MaxDirs \in Nat /\ MaxResumes \in Nat
  BY BoundAssumption
<1>2. NoStaging \in Staging /\ Idle \in Job
  <2>1. NoParts \in Parts /\ <<>> \in Seq(Row)
    BY DEF NoParts, Parts
  <2> QED
    BY <2>1 DEF NoStaging, Staging, NoCheckpoint, Checkpoint, Idle, Job, Stage, Handle
<1>3. TypeOK
  <2>1. out_jsonl \in BOOLEAN
    BY Zenon DEF Init
  <2> QED
    BY <1>1, <1>2, <2>1 DEF Init, TypeOK
<1>4. ApartOK /\ HandsOK
  BY DEF Init, ApartOK, HandsOK, Live, Idle
<1>5. RunsOK /\ StoreOK
  BY DEF Init, RunsOK, StoreOK, Live, Idle
<1>6. DirsOK
  BY DEF Init, DirsOK, DirOK, NoStaging, NoCheckpoint
<1> QED
  BY <1>3, <1>4, <1>5, <1>6 DEF IngestInv

\* A run k starts in directory d, which becomes u: it makes it, or takes it over, or shares it with
\* others; or it is refused.
Starts(p, d, k, u) ==
    /\ \/ job' = job
       \/ job' = [job EXCEPT ![p] = k] /\ k.at = "emit" /\ k.dir = d /\ k.file # 0 /\ k.fd = "none"
    /\ staging' = [staging EXCEPT ![d] = u]
    /\ d <= created' /\ (created' = created \/ (created' = created + 1 /\ d = created'))
    /\ shared' = IF Runs(d) # {} THEN shared \cup {d} ELSE shared
    /\ UNCHANGED <<published, out_jsonl, late, origin>>
    /\ \A e \in Dir : e # d => resumes'[e] = resumes[e] /\ lost'[e] = lost[e]
    /\ resumes' \in [Dir -> 0 .. MaxResumes] /\ lost' \in [Dir -> SUBSET Row]
    /\ resumes'[d] = 0 => lost'[d] = {}
    /\ d \notin shared' =>
          /\ job' # job => Together(k, u, lost'[d], resumes'[d], d \in late)
          /\ job' = job => DirOK(u, resumes'[d], resumes'[d] = 0 /\ d \notin late)

LEMMA StartsStep ==
    ASSUME IngestInv, NEW p \in Proc, ~Live(p), NEW d \in Dir, NEW k \in Job,
           NEW u \in Staging, published = Absent, Starts(p, d, k, u)
    PROVE  IngestInv'
<1> USE DEF Starts
<1>1. /\ MaxDirs \in Nat /\ created \in 0 .. MaxDirs /\ created' \in 0 .. MaxDirs
      /\ d \in 1 .. created' /\ created <= created'
      /\ \A e \in Dir : e > created' => e > created /\ e # d
  BY BoundAssumption DEF IngestInv, TypeOK, Dir
<1>2. /\ job \in [Proc -> Job] /\ job' \in [Proc -> Job] /\ staging \in [Dir -> Staging]
      /\ staging'[d] = u /\ \A e \in Dir : e # d => staging'[e] = staging[e]
      /\ \A q \in Proc : q # p => job'[q] = job[q]
      /\ job[p] = Idle
      /\ job'[p] = Idle \/ (/\ job'[p] = k /\ job' # job /\ k.at = "emit" /\ k.dir = d
                            /\ k.file # 0 /\ k.fd = "none")
  <2>1. job \in [Proc -> Job] /\ staging \in [Dir -> Staging] /\ job[p] = Idle
    BY DEF IngestInv, TypeOK, ApartOK
  <2>2. CASE job' = job
    BY <2>1, <2>2
  <2>3. CASE /\ job' = [job EXCEPT ![p] = k] /\ k.at = "emit" /\ k.dir = d
             /\ k.file # 0 /\ k.fd = "none"
    <3>1. job'[p] = k /\ k # Idle
      BY <2>1, <2>3 DEF Idle
    <3> QED
      BY <2>1, <2>3, <3>1
  <2> QED
    BY <2>2, <2>3
<1>3. \A e \in Dir : e # d => (e \in shared' <=> e \in shared)
  OBVIOUS
<1>4. shared' \in SUBSET Dir /\ shared \subseteq shared'
  BY DEF IngestInv, TypeOK
<1>5. d \notin shared' => d \notin shared /\ \A q \in Proc : job[q].dir # d
  BY DEF Runs
<1>6. TypeOK'
  BY <1>1, <1>2, <1>4 DEF IngestInv, TypeOK
<1>7. HandsOK'
  BY <1>2 DEF IngestInv, HandsOK, Idle
<1>8. ApartOK'
  <2>1. \A q \in Proc : ~Live(q)' => job'[q] = Idle
    BY <1>2 DEF IngestInv, ApartOK, Live
  <2>2. \A q \in Proc : Live(q)' => job'[q].dir \in 1 .. created' /\ job'[q].file # 0
    BY <1>1, <1>2 DEF IngestInv, ApartOK, Live, Idle
  <2>3. ASSUME NEW q \in Proc, NEW o \in Proc, Live(q)', Live(o)', q # o, job'[q].dir = job'[o].dir
        PROVE  job'[q].dir \in shared'
    <3>1. CASE q # p /\ o # p
      BY <1>2, <1>4, <2>3, <3>1 DEF IngestInv, ApartOK, Live
    <3>2. CASE q = p
      BY <1>2, <1>5, <2>3, <3>2 DEF Live, Idle
    <3>3. CASE o = p
      BY <1>2, <1>5, <2>3, <3>3 DEF Live, Idle
    <3> QED
      BY <3>1, <3>2, <3>3
  <2>4. \A e \in Dir : e > created' =>
           staging'[e] = NoStaging /\ resumes'[e] = 0 /\ e \notin shared'
    BY <1>1, <1>2, <1>3 DEF IngestInv, ApartOK
  <2>5. \A e \in Dir : resumes'[e] = 0 => lost'[e] = {}
    BY DEF IngestInv, ApartOK
  <2> QED
    BY <2>1, <2>2, <2>3, <2>4, <2>5 DEF ApartOK
<1>9. RunsOK'
  <2> SUFFICES ASSUME NEW q \in Proc, Live(q)', job'[q].dir \notin shared'
               PROVE  RunOK(job'[q], staging'[job'[q].dir], lost'[job'[q].dir],
                            resumes'[job'[q].dir],
                            Trusted(resumes'[job'[q].dir], job'[q].dir \in late))
    BY DEF RunsOK, Trust
  <2>1. CASE q = p
    <3>1. job' # job /\ job'[p] = k /\ k.dir = d
      BY <1>2, <2>1 DEF Live, Idle
    <3>2. RunOK(k, u, lost'[d], resumes'[d], Trusted(resumes'[d], d \in late))
      BY <2>1, <3>1 DEF Together
    <3> QED
      BY <1>2, <2>1, <3>1, <3>2
  <2>2. CASE q # p
    <3>1. Live(q) /\ job'[q] = job[q] /\ job[q].dir \in Dir /\ job[q].dir # d
      BY <1>2, <1>5, <2>2, RunHas DEF Live
    <3>2. job[q].dir \notin shared
      BY <1>3, <3>1
    <3>3. RunOK(job[q], staging[job[q].dir], lost[job[q].dir], resumes[job[q].dir],
                Trusted(resumes[job[q].dir], job[q].dir \in late))
      BY <3>1, <3>2 DEF IngestInv, RunsOK, Trust
    <3> QED
      BY <1>2, <3>1, <3>3
  <2> QED
    BY <2>1, <2>2
<1>10. DirsOK'
  <2> SUFFICES ASSUME NEW e \in Dir, e \notin shared'
               PROVE  DirOK(staging'[e], resumes'[e], Undisturbed(e)')
    BY DEF DirsOK
  <2>1. CASE e = d /\ job' # job
    <3>1. job'[p] = k /\ k.dir = d
      BY <1>2, <2>1
    <3>2. Undisturbed(e)' => resumes'[d] = 0 /\ d \notin late /\ k.at \notin Ending
      BY <2>1, <3>1 DEF Undisturbed
    <3>3. DirOK(u, resumes'[d], resumes'[d] = 0 /\ d \notin late /\ k.at \notin Ending)
      BY <2>1 DEF Together
    <3> QED
      BY <1>2, <2>1, <3>2, <3>3 DEF DirOK
  <2>2. CASE e = d /\ job' = job
    <3>1. Undisturbed(e)' => resumes'[d] = 0 /\ d \notin late
      BY <2>2 DEF Undisturbed
    <3> QED
      BY <1>2, <2>2, <3>1 DEF DirOK
  <2>3. CASE e # d
    <3>1. Undisturbed(e)' => Undisturbed(e)
      BY <1>2, <2>3 DEF Undisturbed, Idle, Dir
    <3>2. DirOK(staging[e], resumes[e], Undisturbed(e))
      BY <1>4 DEF IngestInv, DirsOK
    <3> QED
      BY <1>2, <2>3, <3>1, <3>2 DEF DirOK
  <2> QED
    BY <2>1, <2>2, <2>3
<1>11. StoreOK'
  BY DEF IngestInv, StoreOK
<1> QED
  BY <1>6, <1>7, <1>8, <1>9, <1>10, <1>11 DEF IngestInv

LEMMA StartFreshStep ==
    ASSUME IngestInv, NEW p \in Proc, StartFresh(p)
    PROVE  IngestInv'
<1> DEFINE refused == ~ AppendJsonl /\ out_jsonl
           k(d) == [Idle EXCEPT !.at = "emit", !.dir = d, !.append = AppendJsonl,
                                !.file = 1, !.row = 1]
<1>1. PICK d \in Dir :
         /\ d = created + 1 \/ (d = created /\ Runs(d) # {})
         /\ created' = d
         /\ staging' = [staging EXCEPT ![d].exists = TRUE, ![d].jsonl = @ \/ ~ refused]
         /\ job' = IF refused THEN job ELSE [job EXCEPT ![p] = k(d)]
         /\ shared' = IF Runs(d) # {} THEN shared \cup {d} ELSE shared
  BY DEF StartFresh
<1>2. /\ published = Absent /\ job[p].at = "idle"
      /\ UNCHANGED <<published, out_jsonl, resumes, lost, late, origin>>
  BY DEF StartFresh
<1>3. /\ job \in [Proc -> Job] /\ staging \in [Dir -> Staging] /\ out_jsonl \in BOOLEAN
      /\ resumes \in [Dir -> 0 .. MaxResumes] /\ lost \in [Dir -> SUBSET Row]
      /\ MaxResumes \in Nat /\ created \in Nat /\ AppendJsonl \in BOOLEAN
      /\ <<>> \in Seq(Row)
  BY BoundAssumption, OthersAssumption DEF IngestInv, TypeOK, AppendJsonl
<1>4. /\ k(d) \in Job /\ k(d).at = "emit" /\ k(d).dir = d /\ k(d).file = 1 /\ k(d).row = 1
      /\ k(d).part = 0 /\ k(d).batch = <<>> /\ k(d).fd = "none"
  BY <1>3 DEF Job, Idle, Stage, Handle
<1> DEFINE u == [staging[d] EXCEPT !.exists = TRUE, !.jsonl = @ \/ ~ refused]
<1>5. /\ u \in Staging /\ u.exists /\ u.parts = staging[d].parts
      /\ u.checkpoint = staging[d].checkpoint /\ staging' = [staging EXCEPT ![d] = u]
  BY <1>1, <1>3 DEF Staging
<1>6. ASSUME d \notin shared'
      PROVE  /\ Together(k(d), u, lost[d], resumes[d], d \in late)
             /\ DirOK(u, resumes[d], resumes[d] = 0 /\ d \notin late)
  <2>1. d > created
    BY <1>1, <1>3, <1>6
  <2>2. staging[d] = NoStaging /\ resumes[d] = 0 /\ lost[d] = {}
    BY <2>1 DEF IngestInv, ApartOK
  <2>3. u.parts = NoParts /\ u.checkpoint = NoCheckpoint /\ (d \in late) \in BOOLEAN
    BY <1>5, <2>2 DEF NoStaging
  <2>4. Together(k(d), u, {}, 0, d \in late)
    <3> HIDE DEF u, k
    <3> QED
      BY <1>4, <1>5, <2>3, FirstRunOK
  <2> QED
    BY <2>2, <2>3, <2>4 DEF DirOK, NoCheckpoint
<1>7. resumes[d] = 0 => lost[d] = {}
  BY DEF IngestInv, ApartOK
<1> DEFINE w == k(d)
<1>8. job' = job \/ (/\ job' = [job EXCEPT ![p] = w] /\ w.at = "emit" /\ w.dir = d
                     /\ w.file # 0 /\ w.fd = "none")
  BY <1>1, <1>4
<1>9. w \in Job /\ (d \notin shared' => /\ Together(w, u, lost[d], resumes[d], d \in late)
                                        /\ DirOK(u, resumes[d], resumes[d] = 0 /\ d \notin late))
  BY <1>4, <1>6
<1>10. d <= created' /\ (created' = created \/ (created' = created + 1 /\ d = created'))
  BY <1>1, <1>3
<1>11. /\ \A e \in Dir : e # d => resumes'[e] = resumes[e] /\ lost'[e] = lost[e]
       /\ resumes' \in [Dir -> 0 .. MaxResumes] /\ lost' \in [Dir -> SUBSET Row]
       /\ resumes'[d] = 0 => lost'[d] = {}
       /\ resumes'[d] = resumes[d] /\ lost'[d] = lost[d]
  BY <1>2, <1>3, <1>7
<1>12. d \notin shared' =>
          /\ job' # job => Together(w, u, lost'[d], resumes'[d], d \in late)
          /\ job' = job => DirOK(u, resumes'[d], resumes'[d] = 0 /\ d \notin late)
  BY <1>9, <1>11
<1>13. ~Live(p)
  BY <1>2 DEF Live
<1> HIDE DEF u, w, k
<1>14. Starts(p, d, w, u)
  BY <1>1, <1>2, <1>5, <1>8, <1>10, <1>11, <1>12 DEF Starts
<1> QED
  BY <1>2, <1>5, <1>9, <1>13, <1>14, StartsStep

LEMMA ResumeStep ==
    ASSUME IngestInv, NEW p \in Proc, NEW d \in Dir, Resume(p, d)
    PROVE  IngestInv'
<1> DEFINE s == staging[d]
           c == s.checkpoint
           k == [Idle EXCEPT !.at = "emit", !.dir = d, !.append = AppendJsonl,
                    !.file = c.done + 1, !.row = 1, !.part = c.next]
           u == [s EXCEPT !.jsonl = TRUE]
<1>1. /\ job \in [Proc -> Job] /\ staging \in [Dir -> Staging] /\ lost \in [Dir -> SUBSET Row]
      /\ resumes \in [Dir -> 0 .. MaxResumes] /\ MaxResumes \in Nat /\ s \in Staging
      /\ c \in Checkpoint /\ s.parts \in Parts /\ created \in 0 .. MaxDirs /\ MaxDirs \in Nat
      /\ AppendJsonl \in BOOLEAN /\ <<>> \in Seq(Row) /\ out_jsonl \in BOOLEAN
  BY BoundAssumption, OthersAssumption DEF IngestInv, TypeOK, Staging, AppendJsonl
<1>2. /\ job' = [job EXCEPT ![p] = k] /\ staging' = [staging EXCEPT ![d] = u]
      /\ lost' = [lost EXCEPT ![d] = Missing(s)] /\ resumes' = [resumes EXCEPT ![d] = @ + 1]
      /\ resumes[d] < MaxResumes
      /\ UNCHANGED <<created, published, out_jsonl, late, origin>>
      /\ published = Absent /\ c.state = "whole" /\ s.exists /\ job[p].at = "idle"
      /\ shared' = IF Runs(d) # {} THEN shared \cup {d} ELSE shared
  <2>1. lost' = [lost EXCEPT ![d] = RowsOf(1 .. c.done) \ Kept(s.parts, c.next)]
    BY DEF Resume, Kept
  <2> QED
    BY <1>1, <2>1 DEF Resume, Missing
<1>3. u \in Staging /\ u.parts = s.parts /\ u.checkpoint = c /\ u.exists
  BY <1>1, <1>2 DEF Staging
<1>4. /\ k.at = "emit" /\ k.dir = d /\ k.file = c.done + 1 /\ k.row = 1 /\ k.part = c.next
      /\ k.batch = <<>> /\ k.fd = "none" /\ k.file # 0
  BY <1>1 DEF Idle, Checkpoint
<1>5. k \in Job
  <2> DEFINE n == c.next
             f == c.done + 1
             a == AppendJsonl
  <2>1. f \in Nat /\ n \in Nat /\ a \in BOOLEAN
    BY <1>1 DEF Checkpoint
  <2>2. k = [Idle EXCEPT !.at = "emit", !.dir = d, !.append = a, !.file = f, !.row = 1,
                         !.part = n]
    OBVIOUS
  <2> HIDE DEF k, n, f, a
  <2> QED
    BY <1>1, <2>1, <2>2 DEF Job, Idle, Stage, Handle
<1> HIDE DEF k, u
<1>6. d \in 1 .. created
  BY <1>1, <1>2 DEF IngestInv, ApartOK, NoStaging, Dir
<1>7. ASSUME d \notin shared' PROVE Together(k, u, Missing(s), resumes[d] + 1, d \in late)
  <2>1. d \notin shared /\ \A q \in Proc : job[q].dir # d
    BY <1>2, <1>7 DEF Runs
  <2>2. resumes[d] = 0 /\ d \notin late => Undisturbed(d)
    BY <2>1 DEF Undisturbed
  <2>3. DirOK(s, resumes[d], Undisturbed(d))
    BY <2>1 DEF IngestInv, DirsOK
  <2>4. DirOK(s, resumes[d], resumes[d] = 0 /\ d \notin late)
    BY <2>2, <2>3 DEF DirOK
  <2>5. resumes[d] \in Nat /\ (d \in late) \in BOOLEAN
    BY <1>1
  <2> HIDE DEF s
  <2> QED
    BY <1>1, <1>2, <1>3, <1>4, <1>5, <2>4, <2>5, ResumeKeeps
<1>8. Missing(s) \subseteq Row /\ resumes[d] + 1 \in 0 .. MaxResumes /\ resumes[d] + 1 # 0
  BY <1>1, <1>2 DEF Missing, RowsOf
<1>9. /\ lost' \in [Dir -> SUBSET Row] /\ lost'[d] = Missing(s)
      /\ resumes' \in [Dir -> 0 .. MaxResumes] /\ resumes'[d] = resumes[d] + 1
      /\ \A e \in Dir : e # d => resumes'[e] = resumes[e] /\ lost'[e] = lost[e]
  BY <1>1, <1>2, <1>8
<1>10. job' # job
  BY <1>1, <1>2, <1>4
<1>11. d <= created' /\ created' = created
  BY <1>1, <1>2, <1>6
<1>12. d \notin shared' =>
          /\ job' # job => Together(k, u, lost'[d], resumes'[d], d \in late)
          /\ job' = job => DirOK(u, resumes'[d], resumes'[d] = 0 /\ d \notin late)
  BY <1>7, <1>9, <1>10
<1>13. ~Live(p) /\ (resumes'[d] = 0 => lost'[d] = {})
  BY <1>2, <1>8, <1>9 DEF Live
<1> HIDE DEF s
<1>14. Starts(p, d, k, u)
  BY <1>2, <1>4, <1>9, <1>11, <1>12, <1>13 DEF Starts
<1> QED
  BY <1>2, <1>3, <1>5, <1>13, <1>14, StartsStep

\* In a directory of its own, a run finds it as it has made it.
LEMMA RunFinds ==
    ASSUME IngestInv, NEW p \in Proc, Live(p), job[p].dir \notin shared
    PROVE  LET j == job[p]
               s == staging[j.dir]
           IN  /\ s.exists
               /\ j.at \in {"part", "last"} =>
                     /\ j.fd = "staged" /\ j.part < Len(s.parts) /\ s.parts[j.part + 1] = Torn
               /\ j.at \in {"checkpoint", "final"} => j.fd = "staged" /\ s.checkpoint.state = "torn"
BY RunHas DEF Together, RunOK, WhereOK

\* Only who writes a part can hold one that was promoted.
LEMMA HandIs ==
    ASSUME IngestInv, NEW p \in Proc, job[p].at \notin {"part", "last"}
    PROVE  job[p].fd # "published"
BY DEF IngestInv, HandsOK

\* A part is written: to the directory, to a promoted partition of one that several runs were in,
\* or to nowhere.
LEMMA FillPartIs ==
    ASSUME IngestInv, NEW p \in Proc, job[p].at \in {"part", "last"}, NEW rows \in Seq(Row),
           FillPart(p, rows)
    PROVE  \E u \in Staging :
              LET d == job[p].dir
                  s == staging[d]
              IN  /\ staging' = [staging EXCEPT ![d] = u]
                  /\ u.checkpoint = s.checkpoint /\ u.exists = s.exists
                  /\ d \notin shared => u.parts = Put(s.parts, job[p].part, rows)
                  /\ \/ published' = published
                     \/ published # Absent /\ origin \in shared /\ published' \in Parts
<1> DEFINE j == job[p]
           d == j.dir
           s == staging[d]
<1>1. Live(p)
  BY DEF Live
<1>2. /\ d \in Dir /\ s \in Staging /\ s.parts \in Parts /\ j.part \in Nat
      /\ staging \in [Dir -> Staging] /\ Torn \in Seq(Row)
  BY <1>1, RunHas DEF IngestInv, TypeOK, Torn
<1>3. d \notin shared => j.fd = "staged" /\ s.parts[j.part + 1] = Torn
  BY <1>1, RunFinds
<1>4. \A parts \in Parts : Written(parts, j.part, rows) \subseteq Parts
  BY <1>2, PutType DEF Written
<1>5. CASE /\ j.fd = "staged" /\ UNCHANGED published
           /\ \E parts \in Written(s.parts, j.part, rows) :
                 staging' = [staging EXCEPT ![d].parts = parts]
  <2>1. PICK parts \in Written(s.parts, j.part, rows) :
             staging' = [staging EXCEPT ![d].parts = parts]
    BY <1>5
  <2>2. parts \in Parts /\ (d \notin shared => parts = Put(s.parts, j.part, rows))
    BY <1>2, <1>3, <1>4 DEF Written
  <2> DEFINE u == [s EXCEPT !.parts = parts]
  <2>3. u \in Staging /\ u.parts = parts /\ u.checkpoint = s.checkpoint /\ u.exists = s.exists
    BY <1>2, <2>2 DEF Staging
  <2>4. staging' = [staging EXCEPT ![d] = u]
    BY <1>2, <2>1
  <2> HIDE DEF u
  <2> QED
    BY <1>5, <2>2, <2>3, <2>4
<1>6. CASE UNCHANGED staging /\ j.fd # "staged" /\
           \/ published' = published
           \/ j.fd = "published" /\ published' \in Written(published, j.part, rows)
  <2>1. j.fd = "published" => published # Absent /\ origin \in shared /\ published \in Parts
    BY DEF IngestInv, HandsOK, TypeOK
  <2>2. \/ published' = published
        \/ published # Absent /\ origin \in shared /\ published' \in Parts
    BY <1>4, <1>6, <2>1
  <2>3. staging' = [staging EXCEPT ![d] = s]
    BY <1>2, <1>6
  <2> QED
    BY <1>2, <1>3, <1>6, <2>2, <2>3
<1> QED
  BY <1>5, <1>6 DEF FillPart, Here

LEMMA EmitRowStep ==
    ASSUME IngestInv, NEW p \in Proc, EmitRow(p)
    PROVE  IngestInv'
<1> DEFINE j == job[p]
           d == j.dir
           s == staging[d]
           r == <<j.file, j.row>>
           full == Len(j.batch) + 1 >= BatchSize
           k == [j EXCEPT !.batch = Append(@, r), !.row = @ + 1,
                          !.at = IF full THEN "part" ELSE "emit",
                          !.fd = IF full THEN "staged" ELSE "none"]
           u == IF full THEN [s EXCEPT !.exists = TRUE, !.parts = Put(@, j.part, Torn)] ELSE s
<1>1. Live(p) /\ j.at = "emit" /\ r \in Row
  BY DEF EmitRow, Live
<1>2. /\ d \in Dir /\ j \in Job /\ s \in Staging /\ lost[d] \in SUBSET Row /\ resumes[d] \in Nat
      /\ d \notin shared => Together(j, s, lost[d], resumes[d], d \in late)
      /\ (d \in late) \in BOOLEAN /\ j.part \in Nat /\ s.parts \in Parts /\ j.batch \in Seq(Row)
      /\ j.file # 0 /\ staging \in [Dir -> Staging] /\ out_jsonl \in BOOLEAN
  BY <1>1, RunHas DEF IngestInv, TypeOK
<1>3. /\ job' = [job EXCEPT ![p] = k] /\ staging' = [staging EXCEPT ![d] = u]
      /\ UNCHANGED <<created, published, out_jsonl, resumes, lost, late, shared, origin>>
  BY <1>2 DEF EmitRow, EmptyPart, history, IngestInv, TypeOK
<1>5. /\ k \in Job /\ k.dir = d /\ k.file = j.file /\ k.row = j.row + 1 /\ k.part = j.part
      /\ k.batch = Append(j.batch, r) /\ k.at = IF full THEN "part" ELSE "emit"
      /\ k.fd = IF full THEN "staged" ELSE "none"
  <2> DEFINE b == Append(j.batch, r)
             a == IF full THEN "part" ELSE "emit"
             h == IF full THEN "staged" ELSE "none"
  <2>1. b \in Seq(Row) /\ a \in Stage /\ h \in Handle /\ j.row + 1 \in Nat
    BY <1>1, <1>2, BatchOneMore DEF Job, Stage, Handle
  <2>2. k = [j EXCEPT !.batch = b, !.row = j.row + 1, !.at = a, !.fd = h]
    BY <1>2
  <2> HIDE DEF k, b, a, h, j
  <2>3. /\ k \in Job /\ k.dir = j.dir /\ k.file = j.file /\ k.row = j.row + 1 /\ k.part = j.part
        /\ k.batch = b /\ k.at = a /\ k.fd = h
    BY <1>2, <2>1, <2>2 DEF Job
  <2> QED
    BY <2>3 DEF a, b, h
<1>6. /\ u \in Staging /\ u.checkpoint = s.checkpoint /\ (full \/ s.exists => u.exists)
      /\ u.parts = IF full THEN Put(s.parts, j.part, Torn) ELSE s.parts
  <2>1. Torn \in Seq(Row)
    BY DEF Torn
  <2>2. Put(s.parts, j.part, Torn) \in Parts
    BY <1>2, <2>1, PutType
  <2> QED
    BY <1>2, <2>2 DEF Staging
<1>7. ASSUME d \notin shared PROVE Together(k, u, lost[d], resumes[d], d \in late)
  <2>1. s.exists
    BY <1>1, <1>7, RunFinds
  <2>2. /\ j \in Job /\ k \in Job /\ s \in Staging /\ u \in Staging /\ lost[d] \in SUBSET Row
        /\ resumes[d] \in Nat /\ (d \in late) \in BOOLEAN
        /\ Together(j, s, lost[d], resumes[d], d \in late)
    BY <1>2, <1>5, <1>6, <1>7
  <2>3. /\ j.at = "emit" /\ <<j.file, j.row>> \in Row /\ k.file = j.file /\ k.row = j.row + 1
        /\ k.part = j.part /\ k.batch = Append(j.batch, <<j.file, j.row>>)
        /\ u.checkpoint = s.checkpoint
    BY <1>1, <1>5, <1>6
  <2>4. CASE full
    <3>1. /\ k.at = "part" /\ u.parts = Put(s.parts, j.part, Torn) /\ k.fd = "staged" /\ u.exists
          /\ Len(j.batch) + 1 >= BatchSize
      BY <1>5, <1>6, <2>4
    <3> HIDE DEF k, u, j, s, d, r, full
    <3> QED
      BY <2>2, <2>3, <3>1, FillKeeps
  <2>5. CASE ~full
    <3>1. k.at = "emit" /\ u.parts = s.parts /\ Len(j.batch) + 1 < BatchSize /\ u.exists
      BY <1>2, <1>5, <1>6, <2>1, <2>5, SizeAssumption, LenProperties
    <3> HIDE DEF k, u, j, s, d, r, full
    <3> QED
      BY <2>2, <2>3, <3>1, EmitKeeps
  <2> QED
    BY <2>4, <2>5
<1>8. GoesOn(p, k, u) /\ k.fd # "published"
  BY <1>1, <1>2, <1>3, <1>5, <1>7 DEF GoesOn, Past
<1> HIDE DEF k, u
<1> QED
  BY <1>1, <1>2, <1>3, <1>5, <1>6, <1>8, PlainStep

LEMMA WritePartStep ==
    ASSUME IngestInv, NEW p \in Proc, WritePart(p) \/ WriteLastPart(p)
    PROVE  IngestInv'
<1> DEFINE j == job[p]
           d == j.dir
           s == staging[d]
           next == IF j.at = "last" THEN "flush" ELSE "emit"
           k == [j EXCEPT !.at = next, !.batch = <<>>, !.part = @ + 1, !.fd = "none"]
<1>1. Live(p) /\ j.at \in {"part", "last"} /\ FillPart(p, j.batch)
  BY DEF WritePart, WriteLastPart, Live
<1>2. /\ d \in Dir /\ j \in Job /\ s \in Staging /\ lost[d] \in SUBSET Row /\ resumes[d] \in Nat
      /\ d \notin shared => Together(j, s, lost[d], resumes[d], d \in late)
      /\ resumes[d] = 0 => lost[d] = {}
      /\ (d \in late) \in BOOLEAN /\ j.part \in Nat /\ j.batch \in Seq(Row)
      /\ j.file # 0 /\ out_jsonl \in BOOLEAN
  BY <1>1, RunHas DEF IngestInv, TypeOK
<1>3. /\ job' = [job EXCEPT ![p] = k]
      /\ UNCHANGED <<created, out_jsonl, resumes, lost, late, shared, origin>>
  BY <1>2 DEF WritePart, WriteLastPart, history, IngestInv, TypeOK
<1>4. PICK u \in Staging : /\ staging' = [staging EXCEPT ![d] = u]
                           /\ u.checkpoint = s.checkpoint /\ u.exists = s.exists
                           /\ d \notin shared => u.parts = Put(s.parts, j.part, j.batch)
                           /\ \/ published' = published
                              \/ published # Absent /\ origin \in shared /\ published' \in Parts
  BY <1>1, <1>2, FillPartIs
<1>5. /\ k \in Job /\ k.dir = d /\ k.file = j.file /\ k.row = j.row /\ k.part = j.part + 1
      /\ k.batch = <<>> /\ k.at = next /\ k.fd = "none"
  <2> DEFINE b == <<>>
             n == j.part + 1
             a == next
  <2>1. /\ b \in Seq(Row) /\ n \in Nat /\ a \in Stage
        /\ k = [j EXCEPT !.at = a, !.batch = b, !.part = n, !.fd = "none"]
    BY <1>2 DEF Stage
  <2>2. j \in Job
    BY <1>2
  <2> HIDE DEF b, n, a, j, k
  <2>3. /\ k \in Job /\ k.dir = j.dir /\ k.file = j.file /\ k.row = j.row /\ k.part = n
        /\ k.batch = b /\ k.at = a /\ k.fd = "none"
    BY <2>1, <2>2 DEF Job, Handle
  <2> QED
    BY <2>3 DEF b, n, a
<1>6. ASSUME d \notin shared PROVE Together(k, u, lost[d], resumes[d], d \in late)
  <2> DEFINE l == lost[d]
             n == resumes[d]
             il == d \in late
  <2>1. /\ l \in SUBSET Row /\ n \in Nat /\ il \in BOOLEAN /\ Together(j, s, l, n, il)
        /\ n = 0 => l = {}
    BY <1>2, <1>6
  <2>2. CASE j.at = "part"
    <3>1. k.at = "emit"
      BY <1>5, <2>2
    <3> HIDE DEF k, j, s, d, l, n, il
    <3>2. Together(k, u, l, n, il)
      BY <1>2, <1>4, <1>5, <1>6, <2>1, <2>2, <3>1, WritePartKeeps
    <3> QED
      BY <3>2 DEF l, n, il
  <2>3. CASE j.at = "last"
    <3>1. k.at = "flush"
      BY <1>5, <2>3
    <3> HIDE DEF k, j, s, d, l, n, il
    <3>2. Together(k, u, l, n, il)
      BY <1>2, <1>4, <1>5, <1>6, <2>1, <2>3, <3>1, WriteLastKeeps
    <3> QED
      BY <3>2 DEF l, n, il
  <2> QED
    BY <1>1, <2>2, <2>3
<1>7. GoesOn(p, k, u) /\ k.fd # "published"
  BY <1>1, <1>2, <1>3, <1>5, <1>6 DEF GoesOn, Past
<1> HIDE DEF k
<1> QED
  BY <1>1, <1>2, <1>3, <1>4, <1>5, <1>7, PlainStep

\* The checkpoint is opened, unless another run has removed the directory.
LEMMA TruncateStep ==
    ASSUME IngestInv, NEW p \in Proc, Live(p), NEW then \in Job, then.dir = job[p].dir,
           then.at \in {"checkpoint", "final"}, job[p].at \notin Past, then.file # 0,
           TruncateCheckpoint(p, then),
           UNCHANGED <<created, published, out_jsonl, resumes, lost, late, shared, origin>>,
           \A k \in Job, u \in Staging :
              /\ job[p].dir \notin shared
              /\ k = [then EXCEPT !.fd = "staged"]
              /\ u = [staging[job[p].dir] EXCEPT !.checkpoint = TornCheckpoint]
              => Together(k, u, lost[k.dir], resumes[k.dir], k.dir \in late)
    PROVE  IngestInv'
<1> DEFINE d == job[p].dir
           s == staging[d]
           k == [then EXCEPT !.fd = "staged"]
           u == [s EXCEPT !.checkpoint = TornCheckpoint]
<1>1. d \in Dir /\ s \in Staging /\ staging \in [Dir -> Staging] /\ out_jsonl \in BOOLEAN
  BY RunHas DEF IngestInv, TypeOK
<1>2. CASE s.exists
  <2>1. job' = [job EXCEPT ![p] = k] /\ staging' = [staging EXCEPT ![d] = u]
    BY <1>1, <1>2 DEF TruncateCheckpoint, Here
  <2>2. k \in Job /\ k.fd = "staged" /\ k.at = then.at /\ k.dir = d /\ k.file = then.file
    BY DEF Job, Handle
  <2>3. u \in Staging
    BY <1>1 DEF Staging, TornCheckpoint, Checkpoint
  <2>4. d \notin shared => Together(k, u, lost[k.dir], resumes[k.dir], k.dir \in late)
    BY <2>2, <2>3
  <2> HIDE DEF k, u
  <2>5. GoesOn(p, k, u)
    BY <2>2, <2>4 DEF GoesOn
  <2> QED
    BY <1>1, <2>1, <2>2, <2>3, <2>5, PlainStep
<1>3. CASE ~s.exists
  <2>1. job' = [job EXCEPT ![p] = Idle] /\ staging' = [staging EXCEPT ![d] = s]
    BY <1>1, <1>3 DEF TruncateCheckpoint, Here, Refuse
  <2>2. d \in shared
    BY <1>3, RunFinds
  <2> HIDE DEF s
  <2> QED
    BY <1>1, <2>1, <2>2, StopStep
<1> QED
  BY <1>2, <1>3

LEMMA FinishFileStep ==
    ASSUME IngestInv, NEW p \in Proc, FinishFile(p)
    PROVE  IngestInv'
<1> DEFINE j == job[p]
           d == j.dir
           s == staging[d]
           next == [j EXCEPT !.file = @ + 1, !.row = 1]
           then == [next EXCEPT !.at = "checkpoint"]
<1>1. Live(p) /\ j.at = "emit" /\ j.file \in File /\ j.row > Rows[j.file]
  BY DEF FinishFile, Live
<1>2. /\ d \in Dir /\ j \in Job /\ s \in Staging /\ lost[d] \in SUBSET Row /\ resumes[d] \in Nat
      /\ d \notin shared => Together(j, s, lost[d], resumes[d], d \in late)
      /\ (d \in late) \in BOOLEAN /\ j.file \in Nat \ {0} /\ out_jsonl \in BOOLEAN
      /\ j.fd # "published" /\ staging \in [Dir -> Staging]
  BY <1>1, RunHas, HandIs DEF IngestInv, TypeOK
<1>3. UNCHANGED <<created, published, out_jsonl, resumes, lost, late, shared, origin>>
  BY DEF FinishFile, history
<1>4. /\ next \in Job /\ next.dir = d /\ next.file = j.file + 1 /\ next.row = 1
      /\ next.part = j.part /\ next.batch = j.batch /\ next.at = "emit" /\ next.fd = j.fd
  <2> DEFINE f == j.file + 1
  <2>1. f \in Nat /\ next = [j EXCEPT !.file = f, !.row = 1]
    BY <1>2
  <2> HIDE DEF f, next, j
  <2>2. /\ next \in Job /\ next.dir = j.dir /\ next.file = f /\ next.row = 1
        /\ next.part = j.part /\ next.batch = j.batch /\ next.at = j.at /\ next.fd = j.fd
    BY <1>2, <2>1 DEF Job
  <2> QED
    BY <1>1, <2>2 DEF f
<1>5. CASE job' = [job EXCEPT ![p] = next] /\ UNCHANGED staging
  <2>1. staging' = [staging EXCEPT ![d] = s]
    BY <1>2, <1>5
  <2>2. ASSUME d \notin shared PROVE Together(next, s, lost[d], resumes[d], d \in late)
    <3> DEFINE l == lost[d]
               n == resumes[d]
               il == d \in late
    <3>1. l \in SUBSET Row /\ n \in Nat /\ il \in BOOLEAN /\ Together(j, s, l, n, il)
      BY <1>2, <2>2
    <3> HIDE DEF next, j, s, d, l, n, il
    <3>2. Together(next, s, l, n, il)
      BY <1>1, <1>2, <1>4, <3>1, FinishFileKeeps
    <3> QED
      BY <3>2 DEF l, n, il
  <2>3. GoesOn(p, next, s)
    BY <1>1, <1>2, <1>3, <1>4, <2>2 DEF GoesOn, Past
  <2> HIDE DEF next, s
  <2> QED
    BY <1>1, <1>2, <1>3, <1>4, <1>5, <2>1, <2>3, PlainStep
<1>6. CASE TruncateCheckpoint(p, then)
  <2> HIDE DEF next
  <2>1. /\ then \in Job /\ then.dir = d /\ then.file = j.file + 1 /\ then.row = 1
        /\ then.part = j.part /\ then.batch = j.batch /\ then.at = "checkpoint"
    BY <1>4 DEF Job, Stage
  <2> HIDE DEF then
  <2>2. ASSUME NEW k \in Job, NEW u \in Staging, d \notin shared, k = [then EXCEPT !.fd = "staged"],
               u = [s EXCEPT !.checkpoint = TornCheckpoint]
        PROVE  Together(k, u, lost[k.dir], resumes[k.dir], k.dir \in late)
    <3>1. /\ k.dir = d /\ k.file = j.file + 1 /\ k.row = 1 /\ k.part = j.part
          /\ k.batch = j.batch /\ k.at = "checkpoint" /\ k.fd = "staged"
      BY <2>1, <2>2 DEF Job
    <3>2. u.parts = s.parts /\ u.checkpoint = TornCheckpoint /\ u.exists = s.exists
      BY <1>2, <2>2 DEF Staging
    <3>3. Together(k, u, lost[d], resumes[d], d \in late)
      <4> DEFINE l == lost[d]
                 n == resumes[d]
                 il == d \in late
      <4>1. l \in SUBSET Row /\ n \in Nat /\ il \in BOOLEAN /\ Together(j, s, l, n, il)
        BY <1>2, <2>2
      <4> HIDE DEF j, s, d, l, n, il
      <4>2. Together(k, u, l, n, il)
        BY <1>1, <1>2, <3>1, <3>2, <4>1, FinishFileKeeps
      <4> QED
        BY <4>2 DEF l, n, il
    <3> QED
      BY <3>1, <3>3
  <2>3. then.file # 0 /\ j.at \notin Past
    BY <1>1, <1>2, <2>1 DEF Past
  <2> QED
    BY <1>1, <1>3, <1>6, <2>1, <2>2, <2>3, TruncateStep
<1> QED
  BY <1>5, <1>6 DEF FinishFile

LEMMA WriteCheckpointStep ==
    ASSUME IngestInv, NEW p \in Proc, WriteCheckpoint(p)
    PROVE  IngestInv'
<1> DEFINE j == job[p]
           d == j.dir
           s == staging[d]
           k == [j EXCEPT !.at = IF j.at = "final" THEN "promote" ELSE "emit", !.fd = "none"]
<1>1. Live(p) /\ j.at \in {"checkpoint", "final"}
  BY DEF WriteCheckpoint, Live
<1>2. /\ d \in Dir /\ j \in Job /\ s \in Staging /\ lost[d] \in SUBSET Row /\ resumes[d] \in Nat
      /\ d \notin shared => Together(j, s, lost[d], resumes[d], d \in late)
      /\ (d \in late) \in BOOLEAN /\ resumes[d] = 0 => lost[d] = {}
      /\ j.file \in Nat \ {0} /\ j.part \in Nat /\ out_jsonl \in BOOLEAN
      /\ staging \in [Dir -> Staging]
  BY <1>1, RunHas DEF IngestInv, TypeOK
<1>3. /\ job' = [job EXCEPT ![p] = k]
      /\ UNCHANGED <<created, published, out_jsonl, resumes, lost, late, shared, origin>>
  BY <1>2 DEF WriteCheckpoint, history, IngestInv, TypeOK
<1>4. CheckpointOf(j) \in Checkpoint /\ TornCheckpoint \in Checkpoint
  BY <1>2 DEF CheckpointOf, TornCheckpoint, Checkpoint
<1>5. /\ k \in Job /\ k.dir = d /\ k.file = j.file /\ k.row = j.row /\ k.part = j.part
      /\ k.batch = j.batch /\ k.at = (IF j.at = "final" THEN "promote" ELSE "emit")
      /\ k.fd = "none"
  <2> DEFINE a == IF j.at = "final" THEN "promote" ELSE "emit"
  <2>1. a \in Stage /\ k = [j EXCEPT !.at = a, !.fd = "none"]
    BY <1>2 DEF Stage
  <2> HIDE DEF a, k, j
  <2>2. /\ k \in Job /\ k.dir = j.dir /\ k.file = j.file /\ k.row = j.row /\ k.part = j.part
        /\ k.batch = j.batch /\ k.at = a /\ k.fd = "none"
    BY <1>2, <2>1 DEF Job, Handle
  <2> QED
    BY <2>2 DEF a
<1>6. PICK u \in Staging : /\ staging' = [staging EXCEPT ![d] = u]
                           /\ u.parts = s.parts /\ u.exists = s.exists
                           /\ d \notin shared => u.checkpoint = CheckpointOf(j)
  <2>1. d \notin shared => j.fd = "staged" /\ s.checkpoint.state = "torn"
    BY <1>1, RunFinds
  <2>2. CASE j.fd = "staged"
    <3>1. PICK cp \in {CheckpointOf(j)} \cup (IF s.checkpoint.state = "torn" THEN {} ELSE {TornCheckpoint}) :
             staging' = [staging EXCEPT ![d].checkpoint = cp]
      BY <2>2 DEF WriteCheckpoint, Here
    <3>2. cp \in Checkpoint /\ (d \notin shared => cp = CheckpointOf(j))
      BY <1>4, <2>1, <3>1
    <3> DEFINE u == [s EXCEPT !.checkpoint = cp]
    <3>3. u \in Staging /\ u.parts = s.parts /\ u.exists = s.exists /\ u.checkpoint = cp
      BY <1>2, <3>2 DEF Staging
    <3>4. staging' = [staging EXCEPT ![d] = u]
      BY <1>2, <3>1
    <3> HIDE DEF u
    <3> QED
      BY <3>2, <3>3, <3>4
  <2>3. CASE j.fd # "staged"
    <3>1. UNCHANGED staging /\ d \in shared
      BY <2>1, <2>3 DEF WriteCheckpoint
    <3>2. staging' = [staging EXCEPT ![d] = s]
      BY <1>2, <3>1
    <3> QED
      BY <1>2, <3>1, <3>2
  <2> QED
    BY <2>2, <2>3
<1>7. ASSUME d \notin shared PROVE Together(k, u, lost[d], resumes[d], d \in late)
  <2> DEFINE l == lost[d]
             n == resumes[d]
             il == d \in late
  <2>1. /\ l \in SUBSET Row /\ n \in Nat /\ il \in BOOLEAN /\ Together(j, s, l, n, il)
        /\ n = 0 => l = {}
    BY <1>2, <1>7
  <2>2. u.checkpoint = CheckpointOf(j)
    BY <1>6, <1>7
  <2> HIDE DEF k, j, s, d, l, n, il
  <2>3. Together(k, u, l, n, il)
    BY <1>1, <1>2, <1>5, <1>6, <2>1, <2>2, CheckpointKeeps
  <2> QED
    BY <2>3 DEF l, n, il
<1>8. GoesOn(p, k, u) /\ k.fd # "published"
  BY <1>1, <1>2, <1>3, <1>5, <1>7 DEF GoesOn, Past
<1> HIDE DEF k
<1> QED
  BY <1>1, <1>2, <1>3, <1>5, <1>6, <1>8, PlainStep

LEMMA StartLastPartStep ==
    ASSUME IngestInv, NEW p \in Proc, StartLastPart(p)
    PROVE  IngestInv'
<1> DEFINE j == job[p]
           d == j.dir
           s == staging[d]
           none == j.batch = <<>>
           k == IF none THEN [j EXCEPT !.at = "flush"] ELSE [j EXCEPT !.at = "last", !.fd = "staged"]
           u == IF none THEN s ELSE [s EXCEPT !.exists = TRUE, !.parts = Put(@, j.part, Torn)]
<1>1. Live(p) /\ j.at = "emit" /\ j.file > Len(Rows)
  BY DEF StartLastPart, Live
<1>2. /\ d \in Dir /\ j \in Job /\ s \in Staging /\ lost[d] \in SUBSET Row /\ resumes[d] \in Nat
      /\ d \notin shared => Together(j, s, lost[d], resumes[d], d \in late)
      /\ (d \in late) \in BOOLEAN /\ resumes[d] = 0 => lost[d] = {}
      /\ j.file # 0 /\ j.part \in Nat /\ s.parts \in Parts /\ out_jsonl \in BOOLEAN
      /\ j.fd # "published" /\ staging \in [Dir -> Staging]
  BY <1>1, RunHas, HandIs DEF IngestInv, TypeOK
<1>3. /\ job' = [job EXCEPT ![p] = k] /\ staging' = [staging EXCEPT ![d] = u]
      /\ UNCHANGED <<created, published, out_jsonl, resumes, lost, late, shared, origin>>
  BY <1>2 DEF StartLastPart, EmptyPart, history, IngestInv, TypeOK
<1>4. d \notin shared => j.file = Ended
  BY <1>1, <1>2, RowIs DEF Together, RunOK, WhereOK, Ended
<1>5. /\ k \in Job /\ k.dir = d /\ k.file = j.file /\ k.row = j.row /\ k.part = j.part
      /\ k.batch = j.batch /\ k.at = (IF none THEN "flush" ELSE "last")
      /\ k.fd = IF none THEN j.fd ELSE "staged"
  <2>1. CASE none
    <3>1. k = [j EXCEPT !.at = "flush"]
      BY <2>1
    <3> HIDE DEF k
    <3> QED
      BY <1>2, <2>1, <3>1 DEF Job, Stage
  <2>2. CASE ~none
    <3>1. k = [j EXCEPT !.at = "last", !.fd = "staged"]
      BY <2>2
    <3> HIDE DEF k
    <3> QED
      BY <1>2, <2>2, <3>1 DEF Job, Stage, Handle
  <2> QED
    BY <2>1, <2>2
<1>6. /\ u \in Staging /\ u.checkpoint = s.checkpoint /\ (s.exists => u.exists)
      /\ u.parts = IF none THEN s.parts ELSE Put(s.parts, j.part, Torn)
      /\ ~none => u.exists
  <2>1. Torn \in Seq(Row)
    BY DEF Torn
  <2>2. Put(s.parts, j.part, Torn) \in Parts
    BY <1>2, <2>1, PutType
  <2> QED
    BY <1>2, <2>2 DEF Staging
<1>7. ASSUME d \notin shared PROVE Together(k, u, lost[d], resumes[d], d \in late)
  <2> DEFINE l == lost[d]
             n == resumes[d]
             il == d \in late
  <2>0. s.exists
    BY <1>1, <1>7, RunFinds
  <2>1. /\ l \in SUBSET Row /\ n \in Nat /\ il \in BOOLEAN /\ Together(j, s, l, n, il)
        /\ n = 0 => l = {}
    BY <1>2, <1>7
  <2>2. CASE none
    <3>1. u = s /\ k.at = "flush"
      BY <1>5, <2>2
    <3> HIDE DEF k, u, j, s, d, l, n, il
    <3>2. Together(k, s, l, n, il)
      BY <1>1, <1>2, <1>4, <1>5, <1>7, <2>1, <2>2, <3>1, NoLastPartKeeps
    <3> QED
      BY <3>1, <3>2 DEF l, n, il
  <2>3. CASE ~none
    <3>1. /\ u.parts = Put(s.parts, j.part, Torn) /\ k.at = "last" /\ k.fd = "staged"
          /\ u.exists = s.exists
      BY <1>5, <1>6, <2>0, <2>3
    <3> HIDE DEF k, u, j, s, d, l, n, il
    <3>2. Together(k, u, l, n, il)
      BY <1>1, <1>2, <1>4, <1>5, <1>6, <1>7, <2>1, <2>3, <3>1, StartLastKeeps
    <3> QED
      BY <3>2 DEF l, n, il
  <2> QED
    BY <2>2, <2>3
<1>8. GoesOn(p, k, u) /\ k.fd # "published"
  BY <1>1, <1>2, <1>3, <1>5, <1>7 DEF GoesOn, Past
<1> HIDE DEF k, u
<1> QED
  BY <1>1, <1>2, <1>3, <1>5, <1>6, <1>8, PlainStep

LEMMA FlushJsonlStep ==
    ASSUME IngestInv, NEW p \in Proc, FlushJsonl(p)
    PROVE  IngestInv'
<1> DEFINE j == job[p]
           d == j.dir
           s == staging[d]
           then == [j EXCEPT !.at = "final"]
<1>1. Live(p) /\ j.at = "flush" /\ TruncateCheckpoint(p, then)
  BY DEF FlushJsonl, Live
<1>2. /\ d \in Dir /\ j \in Job /\ s \in Staging /\ lost[d] \in SUBSET Row /\ resumes[d] \in Nat
      /\ d \notin shared => Together(j, s, lost[d], resumes[d], d \in late)
      /\ (d \in late) \in BOOLEAN /\ j.file # 0
  BY <1>1, RunHas
<1>3. UNCHANGED <<created, published, out_jsonl, resumes, lost, late, shared, origin>>
  BY DEF FlushJsonl, history
<1>4. /\ then \in Job /\ then.dir = d /\ then.file = j.file /\ then.row = j.row
      /\ then.part = j.part /\ then.batch = j.batch /\ then.at = "final"
  BY <1>2 DEF Job, Stage
<1> HIDE DEF then
<1>5. ASSUME NEW k \in Job, NEW u \in Staging, d \notin shared, k = [then EXCEPT !.fd = "staged"],
             u = [s EXCEPT !.checkpoint = TornCheckpoint]
      PROVE  Together(k, u, lost[k.dir], resumes[k.dir], k.dir \in late)
  <2>1. /\ k.dir = d /\ k.file = j.file /\ k.row = j.row /\ k.part = j.part
        /\ k.batch = j.batch /\ k.at = "final" /\ k.fd = "staged"
    BY <1>4, <1>5 DEF Job
  <2>2. u.parts = s.parts /\ u.checkpoint = TornCheckpoint /\ u.exists = s.exists
    BY <1>2, <1>5 DEF Staging
  <2>3. Together(k, u, lost[d], resumes[d], d \in late)
    <3> DEFINE l == lost[d]
               n == resumes[d]
               il == d \in late
    <3>1. l \in SUBSET Row /\ n \in Nat /\ il \in BOOLEAN /\ Together(j, s, l, n, il)
      BY <1>2, <1>5
    <3> HIDE DEF j, s, d, l, n, il
    <3>2. Together(k, u, l, n, il)
      BY <1>1, <1>2, <2>1, <2>2, <3>1, ClosingKeeps
    <3> QED
      BY <3>2 DEF l, n, il
  <2> QED
    BY <2>1, <2>3
<1>6. then.file # 0 /\ j.at \notin Past
  BY <1>1, <1>2, <1>4 DEF Past
<1> QED
  BY <1>1, <1>3, <1>4, <1>5, <1>6, TruncateStep

LEMMA CheckTargetsStep ==
    ASSUME IngestInv, NEW p \in Proc, CheckTargets(p)
    PROVE  IngestInv'
<1> DEFINE j == job[p]
           d == j.dir
           s == staging[d]
           moves == s.parts # NoParts
           next == IF moves THEN "rename" ELSE "jsonl"
           k == [j EXCEPT !.at = next]
<1>1. Live(p) /\ j.at = "promote"
  BY DEF CheckTargets, Live
<1>2. /\ d \in Dir /\ j \in Job /\ s \in Staging /\ lost[d] \in SUBSET Row /\ resumes[d] \in Nat
      /\ d \notin shared => Together(j, s, lost[d], resumes[d], d \in late)
      /\ (d \in late) \in BOOLEAN /\ j.file # 0 /\ j.fd # "published" /\ out_jsonl \in BOOLEAN
  BY <1>1, RunHas, HandIs DEF IngestInv, TypeOK
<1>3. /\ staging' = [staging EXCEPT ![d] = s]
      /\ UNCHANGED <<created, published, out_jsonl, resumes, lost, late, shared, origin>>
  BY <1>2 DEF CheckTargets, disk, history, IngestInv, TypeOK
<1>4. CASE job' = [job EXCEPT ![p] = Idle]
  <2>1. j.at \notin Ending
    BY <1>1 DEF Ending
  <2> HIDE DEF s
  <2> QED
    BY <1>1, <1>2, <1>3, <1>4, <2>1, StopStep DEF s
<1>5. CASE job' = [job EXCEPT ![p] = k]
  <2>1. /\ k \in Job /\ k.dir = d /\ k.file = j.file /\ k.row = j.row /\ k.part = j.part
        /\ k.batch = j.batch /\ k.at = next /\ k.fd = j.fd
    <3> DEFINE a == next
    <3>1. a \in Stage /\ k = [j EXCEPT !.at = a]
      BY DEF Stage
    <3> HIDE DEF a, k, j
    <3>2. /\ k \in Job /\ k.dir = j.dir /\ k.file = j.file /\ k.row = j.row /\ k.part = j.part
          /\ k.batch = j.batch /\ k.at = a /\ k.fd = j.fd
      BY <1>2, <3>1 DEF Job
    <3> QED
      BY <3>2 DEF a
  <2>2. ASSUME d \notin shared PROVE Together(k, s, lost[d], resumes[d], d \in late)
    <3>1. CASE moves
      <4>1. k.at = "rename"
        BY <2>1, <3>1
      <4> HIDE DEF k, j, s, d
      <4> QED
        BY <1>1, <1>2, <2>1, <2>2, <4>1, ClosingKeeps
    <3>2. CASE ~moves
      <4>1. k.at = "jsonl" /\ k.at \in Past /\ s.parts = NoParts
        BY <2>1, <3>2 DEF Past
      <4> HIDE DEF k, j, s, d
      <4> QED
        BY <1>1, <1>2, <2>1, <2>2, <4>1, PastKeeps
    <3> QED
      BY <3>1, <3>2
  <2>3. GoesOn(p, k, s)
    BY <1>1, <1>2, <1>3, <2>1, <2>2 DEF GoesOn, Past
  <2> HIDE DEF k, s
  <2> QED
    BY <1>1, <1>2, <1>3, <1>5, <2>1, <2>3, PlainStep
<1> QED
  BY <1>2, <1>4, <1>5 DEF CheckTargets, Refuse, Here, IngestInv, TypeOK

\* The jsonl is moved or copied, or the copied one deleted.
LEMMA JsonlStep ==
    ASSUME IngestInv, NEW p \in Proc, MoveJsonl(p) \/ UnlinkJsonl(p)
    PROVE  IngestInv'
<1> DEFINE j == job[p]
           d == j.dir
           s == staging[d]
<1>1. Live(p) /\ j.at \in {"jsonl", "unlink"}
  BY DEF MoveJsonl, UnlinkJsonl, Live
<1>2. /\ d \in Dir /\ j \in Job /\ s \in Staging /\ lost[d] \in SUBSET Row /\ resumes[d] \in Nat
      /\ d \notin shared => Together(j, s, lost[d], resumes[d], d \in late)
      /\ (d \in late) \in BOOLEAN /\ j.file # 0 /\ j.fd # "published" /\ out_jsonl \in BOOLEAN
      /\ staging \in [Dir -> Staging] /\ job \in [Proc -> Job]
  BY <1>1, RunHas, HandIs DEF IngestInv, TypeOK
<1>3. UNCHANGED <<created, published, resumes, lost, late, shared, origin>>
  BY DEF MoveJsonl, UnlinkJsonl, history
<1>4. PICK a \in {"unlink", "sweep"} : job' = [job EXCEPT ![p] = [j EXCEPT !.at = a]]
  <2>1. job' = [job EXCEPT ![p].at = "unlink"] \/ job' = [job EXCEPT ![p].at = "sweep"]
    BY DEF MoveJsonl, UnlinkJsonl
  <2> QED
    BY <1>2, <2>1
<1>5. PICK x \in BOOLEAN : staging' = [staging EXCEPT ![d] = [s EXCEPT !.jsonl = x]]
                           /\ out_jsonl' \in BOOLEAN
  <2> DEFINE copied == j.append /\ out_jsonl
  <2>1. copied \in BOOLEAN /\ s.jsonl \in BOOLEAN
    BY <1>2 DEF Job, Staging
  <2>2. CASE UNCHANGED <<staging, out_jsonl>>
    <3>1. s = [s EXCEPT !.jsonl = s.jsonl]
      BY <1>2 DEF Staging
    <3>2. staging' = [staging EXCEPT ![d] = [s EXCEPT !.jsonl = s.jsonl]]
      BY <1>2, <2>2, <3>1
    <3> QED
      BY <1>2, <2>1, <2>2, <3>2
  <2>3. CASE out_jsonl' = TRUE /\ staging' = [staging EXCEPT ![d].jsonl = copied]
    BY <1>2, <2>1, <2>3
  <2>4. CASE UNCHANGED out_jsonl /\ staging' = [staging EXCEPT ![d].jsonl = FALSE]
    BY <1>2, <2>4
  <2> QED
    BY <2>2, <2>3, <2>4 DEF MoveJsonl, UnlinkJsonl
<1> DEFINE k == [j EXCEPT !.at = a]
           u == [s EXCEPT !.jsonl = x]
<1>6. /\ k \in Job /\ k.dir = d /\ k.file = j.file /\ k.row = j.row /\ k.part = j.part
      /\ k.batch = j.batch /\ k.at = a /\ k.fd = j.fd /\ k.at \in Past /\ k.at # "idle"
  BY <1>2, <1>4 DEF Job, Stage, Past
<1>7. u \in Staging /\ u.checkpoint = s.checkpoint /\ u.parts = s.parts /\ u.exists = s.exists
  BY <1>2, <1>5 DEF Staging
<1>8. ASSUME d \notin shared PROVE Together(k, u, lost[d], resumes[d], d \in late)
  <2>1. j.at \in Past
    BY <1>1, <1>8 DEF Past, Together, RunOK, WhereOK
  <2> DEFINE l == lost[d]
             n == resumes[d]
             il == d \in late
  <2>2. l \in SUBSET Row /\ n \in Nat /\ il \in BOOLEAN /\ Together(j, s, l, n, il)
    BY <1>2, <1>8
  <2> HIDE DEF k, u, j, s, d, l, n, il
  <2>3. Together(k, u, l, n, il)
    BY <1>1, <1>2, <1>6, <1>7, <2>1, <2>2, PastKeeps
  <2> QED
    BY <2>3 DEF l, n, il
<1>9. GoesOn(p, k, u)
  BY <1>2, <1>3, <1>6, <1>8 DEF GoesOn
<1>10. job' = [job EXCEPT ![p] = k] /\ staging' = [staging EXCEPT ![d] = u]
  BY <1>4, <1>5
<1> HIDE DEF k, u
<1> QED
  BY <1>1, <1>2, <1>3, <1>5, <1>6, <1>7, <1>9, <1>10, PlainStep

LEMMA SweepStep ==
    ASSUME IngestInv, NEW p \in Proc, Sweep(p)
    PROVE  IngestInv'
<1> DEFINE d == job[p].dir
           s == staging[d]
           left == s.parts # NoParts \/ s.jsonl
           u == [s EXCEPT !.exists = left, !.checkpoint = NoCheckpoint]
<1>1. Live(p) /\ job[p].at = "sweep"
  BY DEF Sweep, Live
<1>2. /\ d \in Dir /\ s \in Staging /\ out_jsonl \in BOOLEAN /\ staging \in [Dir -> Staging]
      /\ job \in [Proc -> Job] /\ published \in Parts \cup {Absent} /\ origin \in Dir \cup {0}
  BY <1>1, RunHas DEF IngestInv, TypeOK
<1>3. UNCHANGED <<created, published, out_jsonl, resumes, lost, late, shared, origin>>
  BY DEF Sweep, history
<1>4. staging' = [staging EXCEPT ![d] = u]
  BY <1>2 DEF Sweep, Here
<1>5. u \in Staging /\ u.checkpoint = NoCheckpoint
  BY <1>2 DEF Staging, NoCheckpoint, Checkpoint
<1>6. Idle \in Job
  <2>1. <<>> \in Seq(Row)
    OBVIOUS
  <2> QED
    BY <2>1 DEF Job, Idle, Stage, Handle
<1>7. job' = [q \in Proc |-> IF q = p THEN Idle
                ELSE IF job[q].dir = d /\ job[q].at \in {"checkpoint", "final"}
                THEN [job[q] EXCEPT !.fd = "gone"] ELSE job[q]]
  BY DEF Sweep
<1>8. Changes(p, Idle)
  <2>1. \A q \in Proc \ {p} :
           /\ job'[q] \in Job
           /\ \/ job'[q] = job[q]
              \/ /\ job[q].at \in {"checkpoint", "final"} /\ job[q].dir = d
                 /\ job'[q].at = job[q].at /\ job'[q].dir = job[q].dir
                 /\ job'[q].file = job[q].file
    BY <1>2, <1>7 DEF Job, Handle
  <2>2. job' \in [Proc -> Job] /\ job'[p] = Idle
    BY <1>6, <1>7, <2>1
  <2> QED
    BY <2>1, <2>2 DEF Changes, Live
<1>9. HandsOK'
  <2>1. \A q \in Proc : job'[q].fd = "published" => job'[q] = job[q]
    BY <1>2, <1>7 DEF Idle, Job
  <2> QED
    BY <1>3, <2>1 DEF HandsOK, IngestInv
<1>10. StoreOK'
  <2>1. \A q \in Proc : job'[q].dir = origin /\ origin # 0 =>
           job[q].dir = origin /\ job'[q].at = job[q].at
    BY <1>8 DEF Changes, Idle
  <2>2. published # Absent => origin # 0
    BY DEF IngestInv, StoreOK
  <2> QED
    BY <1>3, <2>1, <2>2 DEF StoreOK, IngestInv, Trust
<1>11. Stops(p, Idle, u)
  BY <1>3, <1>5 DEF Stops, DirOK, NoCheckpoint
<1> HIDE DEF u
<1> QED
  BY <1>1, <1>2, <1>3, <1>4, <1>5, <1>6, <1>8, <1>9, <1>10, <1>11, RunStep

LEMMA CrashStep ==
    ASSUME IngestInv, NEW p \in Proc, Crash(p)
    PROVE  IngestInv'
<1> DEFINE j == job[p]
           d == j.dir
           s == staging[d]
<1>1. Live(p)
  BY DEF Crash, Live
<1>2. d \in Dir /\ j \in Job /\ s \in Staging /\ staging \in [Dir -> Staging]
      /\ s.parts \in Parts /\ j.part \in Nat /\ out_jsonl \in BOOLEAN
  BY <1>1, RunHas DEF IngestInv, TypeOK
<1>3. /\ job' = [job EXCEPT ![p] = Idle]
      /\ UNCHANGED <<created, out_jsonl, resumes, lost, shared, origin>>
      /\ late' = IF j.at \in Ending THEN late \cup {d} ELSE late
  BY DEF Crash, Refuse, Ending
<1>4. (j.at \in Ending => d \in late') /\ late' \in {late, late \cup {d}}
  BY <1>3
<1>5. PICK u \in Staging : /\ staging' = [staging EXCEPT ![d] = u]
                           /\ d \notin shared => /\ u.parts = s.parts
                                                 /\ u.checkpoint \in {s.checkpoint, TornCheckpoint}
                           /\ \/ published' = published
                              \/ published # Absent /\ origin \in shared /\ published' \in Parts
  <2>1. CASE UNCHANGED <<staging, published>>
    <3>1. staging' = [staging EXCEPT ![d] = s]
      BY <1>2, <2>1
    <3> QED
      BY <1>2, <2>1, <3>1
  <2>2. CASE j.at \in {"part", "last"} /\ FillPart(p, Torn)
    <3>1. Torn \in Seq(Row)
      BY DEF Torn
    <3>2. PICK u \in Staging :
             /\ staging' = [staging EXCEPT ![d] = u]
             /\ u.checkpoint = s.checkpoint
             /\ d \notin shared => u.parts = Put(s.parts, j.part, Torn)
             /\ \/ published' = published
                \/ published # Absent /\ origin \in shared /\ published' \in Parts
      BY <2>2, <3>1, FillPartIs
    <3>3. d \notin shared => Put(s.parts, j.part, Torn) = s.parts
      <4>1. d \notin shared => j.part < Len(s.parts) /\ s.parts[j.part + 1] = Torn
        BY <1>1, <2>2, RunFinds
      <4> HIDE DEF s, j
      <4> QED
        BY <1>2, <4>1, PutSame
    <3> QED
      BY <3>2, <3>3
  <2>3. CASE staging' = [staging EXCEPT ![d].checkpoint = TornCheckpoint] /\ UNCHANGED published
    <3> DEFINE u == [s EXCEPT !.checkpoint = TornCheckpoint]
    <3>1. u \in Staging /\ u.parts = s.parts /\ u.checkpoint = TornCheckpoint
      BY <1>2 DEF Staging, TornCheckpoint, Checkpoint
    <3>2. staging' = [staging EXCEPT ![d] = u]
      BY <1>2, <2>3
    <3> HIDE DEF u
    <3> QED
      BY <2>3, <3>1, <3>2
  <2> QED
    BY <2>1, <2>2, <2>3 DEF Crash
<1> QED
  BY <1>1, <1>2, <1>3, <1>4, <1>5, StopStep

LEMMA RenameStep ==
    ASSUME IngestInv, NEW p \in Proc, RenamePartition(p)
    PROVE  IngestInv'
<1> DEFINE j == job[p]
           d == j.dir
           s == staging[d]
           k == [j EXCEPT !.at = "jsonl"]
           u == [s EXCEPT !.parts = NoParts]
<1>1. Live(p) /\ j.at = "rename" /\ j.at \notin Ending /\ j.at \notin Past
  BY DEF RenamePartition, Live, Ending, Past
<1>2. /\ d \in Dir /\ j \in Job /\ s \in Staging /\ lost[d] \in SUBSET Row /\ resumes[d] \in Nat
      /\ d \notin shared => /\ Together(j, s, lost[d], resumes[d], d \in late)
                            /\ \A q \in Proc : job[q].dir = d => q = p
      /\ (d \in late) \in BOOLEAN /\ d \in 1 .. created /\ s.parts \in Parts /\ j.file # 0
      /\ j.fd # "published" /\ out_jsonl \in BOOLEAN /\ staging \in [Dir -> Staging]
      /\ job \in [Proc -> Job]
  BY <1>1, RunHas, HandIs DEF IngestInv, TypeOK
<1>3. UNCHANGED <<created, out_jsonl, resumes, lost, late, shared>>
  BY DEF RenamePartition
<1>4. CASE Refuse(p) /\ UNCHANGED <<staging, published, origin>>
  <2>1. staging' = [staging EXCEPT ![d] = s] /\ job' = [job EXCEPT ![p] = Idle]
    BY <1>2, <1>4 DEF Refuse
  <2> HIDE DEF s
  <2> QED
    BY <1>1, <1>2, <1>3, <1>4, <2>1, StopStep DEF s
<1>5. CASE /\ s.parts # NoParts /\ published = Absent
           /\ job' = [q \in Proc |-> IF q = p THEN k
                                     ELSE Moved(q, "staged", "published", {d})]
           /\ staging' = [staging EXCEPT ![d].parts = NoParts]
           /\ published' = s.parts /\ origin' = d
  <2>1. /\ k \in Job /\ k.dir = d /\ k.file = j.file /\ k.row = j.row /\ k.part = j.part
        /\ k.batch = j.batch /\ k.at = "jsonl" /\ k.fd = j.fd /\ k.at \in Past /\ k.at # "idle"
    BY <1>2 DEF Job, Stage, Past
  <2>2. u \in Staging /\ u.parts = NoParts /\ u.checkpoint = s.checkpoint /\ u.exists = s.exists
    <3>1. NoParts \in Parts
      BY DEF NoParts, Parts
    <3> QED
      BY <1>2, <3>1 DEF Staging
  <2>3. staging' = [staging EXCEPT ![d] = u]
    BY <1>2, <1>5
  <2>4. ASSUME d \notin shared PROVE Together(k, u, lost[d], resumes[d], d \in late)
    <3> DEFINE l == lost[d]
               n == resumes[d]
               il == d \in late
    <3>1. l \in SUBSET Row /\ n \in Nat /\ il \in BOOLEAN /\ Together(j, s, l, n, il)
      BY <1>2, <2>4
    <3> HIDE DEF k, u, j, s, d, l, n, il
    <3>2. Together(k, u, l, n, il)
      BY <1>1, <1>2, <2>1, <2>2, <3>1, PastKeeps
    <3> QED
      BY <3>2 DEF l, n, il
  <2>5. GoesOn(p, k, u)
    BY <1>1, <1>2, <1>3, <2>1, <2>4 DEF GoesOn
  <2>6. ASSUME NEW q \in Proc, q # p
        PROVE  /\ job'[q] \in Job
               /\ \/ job'[q] = job[q]
                  \/ /\ job[q].at \in {"part", "last"} /\ job[q].dir = d
                     /\ job'[q].at = job[q].at /\ job'[q].dir = job[q].dir
                     /\ job'[q].file = job[q].file
    <3>1. job'[q] = Moved(q, "staged", "published", {d})
      BY <1>5, <2>6
    <3>2. CASE job[q].dir = d /\ job[q].at \in {"part", "last"} /\ job[q].fd = "staged"
      <4>1. job'[q] = [job[q] EXCEPT !.fd = "published"]
        BY <3>1, <3>2 DEF Moved
      <4> QED
        BY <1>2, <3>2, <4>1 DEF Job, Handle
    <3>3. CASE ~(job[q].dir = d /\ job[q].at \in {"part", "last"} /\ job[q].fd = "staged")
      <4>1. job'[q] = [job[q] EXCEPT !.fd = job[q].fd]
        BY <3>1, <3>3 DEF Moved
      <4>2. job'[q] = job[q]
        BY <1>2, <4>1 DEF Job
      <4> QED
        BY <1>2, <4>2
    <3> QED
      BY <3>2, <3>3
  <2>7. Changes(p, k)
    <3>1. job' \in [Proc -> Job] /\ job'[p] = k
      BY <1>5, <2>1, <2>6
    <3> QED
      BY <2>6, <3>1 DEF Changes, Live
  <2>8. published' # Absent /\ published' \in Parts \cup {Absent} /\ origin' \in Dir \cup {0}
    BY <1>2, <1>5, AbsentAssumption
  <2>9. HandsOK'
    <3> SUFFICES ASSUME NEW q \in Proc, job'[q].fd = "published"
                 PROVE  d \in shared /\ job'[q].at \in {"part", "last"}
      BY <1>3, <1>5, <2>8 DEF HandsOK
    <3>1. q # p /\ job'[q] # job[q]
      BY <1>2, <1>5, <2>1, <2>7 DEF IngestInv, HandsOK, Changes
    <3>2. job[q].at \in {"part", "last"} /\ job[q].dir = d /\ job'[q].at = job[q].at
      BY <2>6, <3>1
    <3> QED
      BY <1>2, <3>1, <3>2
  <2>10. ASSUME d \notin shared
         PROVE  /\ \A q \in Proc : job'[q].dir = d => job'[q].at \in Past
                /\ Row \subseteq lost[d] \cup Kept(s.parts, Len(s.parts))
                /\ resumes[d] <= 1 => Cardinality(lost[d]) < BatchSize
                /\ Trust(d) => Clean(s.parts, Len(s.parts))
    <3>1. /\ WhereOK(j, s) /\ HoldsOK(j, s, lost[d], resumes[d])
          /\ Trust(d) => ExactOK(j, s) /\ CountOK(j, s, lost[d])
      BY <1>1, <1>2, <1>5, <2>10 DEF Together, RunOK, Empty, Trust
    <3>2. Emitted(j) = Row /\ j.batch = <<>> /\ Range(j.batch) = {}
      <4>1. j.file = Ended /\ j.row = 1 /\ j.batch = <<>>
        BY <1>1, <3>1 DEF WhereOK, Closing
      <4> QED
        BY <1>2, <3>1, <4>1, EmittedIs DEF WhereOK, Range
    <3>3. j.part \in Nat /\ j.part <= Len(s.parts) /\ Len(s.parts) \in Nat
      BY <1>2, <3>1, KeptIs DEF HoldsOK, Job
    <3>4. Kept(s.parts, j.part) \subseteq Kept(s.parts, Len(s.parts))
      BY <1>2, <3>3, KeptIs DEF Kept
    <3>5. Row \subseteq lost[d] \cup Kept(s.parts, Len(s.parts))
      BY <3>1, <3>2, <3>4 DEF HoldsOK
    <3>6. Trust(d) => Clean(s.parts, Len(s.parts))
      <4>1. Trust(d) => Len(s.parts) = j.part
        BY <1>1, <3>1, <3>3 DEF CountOK, Closing
      <4> QED
        BY <3>1, <4>1 DEF ExactOK
    <3>7. \A q \in Proc : job'[q].dir = d => q = p
      BY <1>2, <2>6, <2>10
    <3> QED
      BY <1>5, <2>1, <3>1, <3>5, <3>6, <3>7 DEF HoldsOK
  <2>11. StoreOK'
    <3> HIDE DEF k, u, s, d
    <3> QED
      BY <1>2, <1>3, <1>5, <2>8, <2>10 DEF StoreOK, Trust
  <2> HIDE DEF k, u
  <2> QED
    BY <1>1, <1>2, <1>3, <2>1, <2>2, <2>3, <2>5, <2>7, <2>8, <2>9, <2>11, RunStep
<1> QED
  BY <1>4, <1>5 DEF RenamePartition, Here

LEMMA DeleteStep ==
    ASSUME IngestInv, DeletePartition \/ DeleteJsonl
    PROVE  IngestInv'
<1>1. CASE DeleteJsonl
  <2>1. /\ UNCHANGED <<staging, created, published, job, resumes, lost, late, shared, origin>>
        /\ out_jsonl' \in BOOLEAN
    BY <1>1 DEF DeleteJsonl, history
  <2>2. TypeOK' /\ ApartOK' /\ HandsOK'
    BY <2>1 DEF IngestInv, TypeOK, ApartOK, HandsOK, Live
  <2>3. RunsOK' /\ DirsOK' /\ StoreOK'
    BY <2>1 DEF IngestInv, RunsOK, DirsOK, StoreOK, Live, Trust, Undisturbed
  <2> QED
    BY <2>2, <2>3 DEF IngestInv
<1>2. CASE DeletePartition
  <2>1. /\ published' = Absent /\ origin' = 0
        /\ job' = [q \in Proc |-> Moved(q, "published", "gone", Dir)]
        /\ UNCHANGED <<staging, created, out_jsonl, resumes, lost, late, shared>>
    BY <1>2 DEF DeletePartition
  <2>2. ASSUME NEW q \in Proc
        PROVE  /\ job'[q] \in Job /\ job'[q].fd # "published"
               /\ job'[q].at = job[q].at /\ job'[q].dir = job[q].dir
               /\ job'[q].file = job[q].file
               /\ job[q].fd # "published" => job'[q] = job[q]
    <3>1. job[q] \in Job /\ job'[q] = Moved(q, "published", "gone", Dir)
      BY <2>1 DEF IngestInv, TypeOK
    <3>2. CASE job[q].fd = "published"
      <4>1. job[q].at \in {"part", "last"} /\ Live(q)
        BY <3>2 DEF IngestInv, HandsOK, Live
      <4>2. job[q].dir \in Dir
        BY <4>1, RunHas
      <4>3. job'[q] = [job[q] EXCEPT !.fd = "gone"]
        BY <3>1, <3>2, <4>1, <4>2 DEF Moved
      <4> QED
        BY <3>1, <3>2, <4>3 DEF Job, Handle
    <3>3. CASE job[q].fd # "published"
      <4>1. job'[q] = [job[q] EXCEPT !.fd = job[q].fd]
        BY <3>1, <3>3 DEF Moved
      <4>2. job'[q] = job[q]
        BY <3>1, <4>1 DEF Job
      <4> QED
        BY <3>1, <3>3, <4>2
    <3> QED
      BY <3>2, <3>3
  <2>3. TypeOK'
    <3>1. job' \in [Proc -> Job]
      BY <2>1, <2>2
    <3> QED
      BY <2>1, <3>1 DEF IngestInv, TypeOK
  <2>4. ApartOK'
    <3>1. \A q \in Proc : ~Live(q)' => job'[q] = Idle
      BY <2>2 DEF IngestInv, ApartOK, Live, Idle
    <3> QED
      BY <2>1, <2>2, <3>1 DEF IngestInv, ApartOK, Live
  <2>5. HandsOK'
    BY <2>2 DEF HandsOK
  <2>6. RunsOK'
    <3> SUFFICES ASSUME NEW q \in Proc, Live(q)', job'[q].dir \notin shared'
                 PROVE  RunOK(job'[q], staging'[job'[q].dir], lost'[job'[q].dir],
                              resumes'[job'[q].dir],
                              Trusted(resumes'[job'[q].dir], job'[q].dir \in late'))
      BY DEF RunsOK, Trust
    <3>1. Live(q) /\ job[q].dir \notin shared
      BY <2>1, <2>2 DEF Live
    <3>2. job[q].fd # "published"
      <4>1. job[q].at \in {"part", "last"} => job[q].fd = "staged"
        BY <3>1, RunFinds
      <4> QED
        BY <4>1, HandIs
    <3>3. job'[q] = job[q]
      BY <2>2, <3>2
    <3>4. RunOK(job[q], staging[job[q].dir], lost[job[q].dir], resumes[job[q].dir],
                Trusted(resumes[job[q].dir], job[q].dir \in late))
      BY <3>1 DEF IngestInv, RunsOK, Trust
    <3> QED
      BY <2>1, <3>3, <3>4
  <2>7. DirsOK'
    <3>1. \A d \in Dir : Undisturbed(d)' <=> Undisturbed(d)
      BY <2>1, <2>2 DEF Undisturbed
    <3> QED
      BY <2>1, <3>1 DEF IngestInv, DirsOK, DirOK
  <2>8. StoreOK'
    BY <2>1 DEF StoreOK
  <2> QED
    BY <2>3, <2>4, <2>5, <2>6, <2>7, <2>8 DEF IngestInv
<1> QED
  BY <1>1, <1>2

LEMMA InvStep == IngestInv /\ [Next]_vars => IngestInv'
<1> SUFFICES ASSUME IngestInv, [Next]_vars PROVE IngestInv'
  OBVIOUS
<1>1. ASSUME NEW p \in Proc, Step(p) PROVE IngestInv'
  <2>1. CASE StartFresh(p) BY <2>1, StartFreshStep
  <2>2. CASE \E d \in Dir : Resume(p, d) BY <2>2, ResumeStep
  <2>3. CASE EmitRow(p) BY <2>3, EmitRowStep
  <2>4. CASE WritePart(p) \/ WriteLastPart(p) BY <2>4, WritePartStep
  <2>5. CASE FinishFile(p) BY <2>5, FinishFileStep
  <2>6. CASE WriteCheckpoint(p) BY <2>6, WriteCheckpointStep
  <2>7. CASE StartLastPart(p) BY <2>7, StartLastPartStep
  <2>8. CASE FlushJsonl(p) BY <2>8, FlushJsonlStep
  <2>9. CASE CheckTargets(p) BY <2>9, CheckTargetsStep
  <2>10. CASE RenamePartition(p) BY <2>10, RenameStep
  <2>11. CASE MoveJsonl(p) \/ UnlinkJsonl(p) BY <2>11, JsonlStep
  <2>12. CASE Sweep(p) BY <2>12, SweepStep
  <2>13. CASE Crash(p) BY <2>13, CrashStep
  <2> QED
    BY <1>1, <2>1, <2>2, <2>3, <2>4, <2>5, <2>6, <2>7, <2>8, <2>9, <2>10, <2>11, <2>12,
       <2>13 DEF Step
<1>2. CASE DeletePartition \/ DeleteJsonl
  BY <1>2, DeleteStep
<1>3. CASE UNCHANGED vars
  <2>1. TypeOK' /\ ApartOK' /\ HandsOK' /\ RunsOK'
    BY <1>3 DEF vars, IngestInv, TypeOK, ApartOK, HandsOK, RunsOK, Live, Trust
  <2>2. DirsOK' /\ StoreOK'
    BY <1>3 DEF vars, IngestInv, DirsOK, StoreOK, Undisturbed, Trust
  <2> QED
    BY <2>1, <2>2 DEF IngestInv
<1> QED
  BY <1>1, <1>2, <1>3 DEF Next

\* What is said of runs, directories and the promoted partition always holds: of the directories
\* that one run at a time was in, whatever becomes of the others.
THEOREM IngestInvariant == Spec => []IngestInv
BY InvInit, InvStep, PTL DEF Spec

-----------------------------------------------------------------------------
(* What a promoted partition holds.                                        *)

\* How often a row is in a partition can be counted, and is no time or once when it is clean.
LEMMA PlacesOf ==
    ASSUME NEW parts \in Parts, NEW r \in Row
    PROVE  /\ Cardinality(Places(parts, r)) \in Nat
           /\ Cardinality(Places(parts, r)) = 0 <=> r \notin Kept(parts, Len(parts))
           /\ Places(parts, r) = {} <=> r \notin Kept(parts, Len(parts))
           /\ Clean(parts, Len(parts)) =>
                 Cardinality(Places(parts, r)) = IF r \in Kept(parts, Len(parts)) THEN 1 ELSE 0
<1> DEFINE In(i) == {i} \X {k \in DOMAIN parts[i] : parts[i][k] = r}
           Ins == {In(i) : i \in 1 .. Len(parts)}
<1>1. /\ DOMAIN parts = 1 .. Len(parts) /\ Len(parts) \in Nat
      /\ \A i \in 1 .. Len(parts) : parts[i] \in Seq(Row)
  BY KeptIs
<1>2. \A i \in 1 .. Len(parts) : DOMAIN parts[i] = 1 .. Len(parts[i]) /\ Len(parts[i]) \in Nat
  BY <1>1, LenProperties
<1>3. Places(parts, r) = UNION Ins
  BY <1>1 DEF Places
<1>4. IsFiniteSet(UNION Ins)
  <2>1. ASSUME NEW i \in 1 .. Len(parts) PROVE IsFiniteSet(In(i))
    <3>1. IsFiniteSet(1 .. Len(parts[i]))
      BY <1>2, FS_Interval
    <3>2. {k \in DOMAIN parts[i] : parts[i][k] = r} \subseteq 1 .. Len(parts[i])
      BY <1>2
    <3>3. IsFiniteSet({k \in DOMAIN parts[i] : parts[i][k] = r})
      BY <3>1, <3>2, FS_Subset
    <3>4. IsFiniteSet({i})
      BY FS_Singleton
    <3> QED
      BY <3>3, <3>4, FS_Product
  <2>2. IsFiniteSet(1 .. Len(parts))
    BY <1>1, FS_Interval
  <2>3. IsFiniteSet(Ins)
    <3> DEFINE g == [i \in 1 .. Len(parts) |-> In(i)]
    <3>1. g \in Surjection(1 .. Len(parts), Ins)
      BY DEF Surjection
    <3> QED
      BY <2>2, <3>1, FS_Surjection
  <2> QED
    BY <2>1, <2>3, FS_UNION
<1>5. Cardinality(Places(parts, r)) \in Nat
  BY <1>3, <1>4, FS_CardinalityType
<1>6. \A x : x \in Places(parts, r) <=>
             \E i \in 1 .. Len(parts) : \E k \in DOMAIN parts[i] : parts[i][k] = r /\ x = <<i, k>>
  BY <1>1 DEF Places
<1>7. r \in Kept(parts, Len(parts)) <=> \E i \in 1 .. Len(parts) : \E k \in DOMAIN parts[i] : parts[i][k] = r
  <2>1. r \in Kept(parts, Len(parts)) <=>
           \E i \in 1 .. Len(parts) : i <= Len(parts) /\ r \in Range(parts[i])
    BY <1>1, KeptIs
  <2>2. \A i \in 1 .. Len(parts) : r \in Range(parts[i]) <=> \E k \in DOMAIN parts[i] : parts[i][k] = r
    BY DEF Range
  <2> QED
    BY <1>1, <2>1, <2>2
<1>8. Places(parts, r) = {} <=> r \notin Kept(parts, Len(parts))
  BY <1>6, <1>7
<1>9. ASSUME Clean(parts, Len(parts))
      PROVE  Cardinality(Places(parts, r)) = IF r \in Kept(parts, Len(parts)) THEN 1 ELSE 0
  <2>1. CASE r \notin Kept(parts, Len(parts))
    BY <1>8, <2>1, FS_EmptySet
  <2>2. CASE r \in Kept(parts, Len(parts))
    <3>1. PICK i \in 1 .. Len(parts) : \E k \in DOMAIN parts[i] : parts[i][k] = r
      BY <1>7, <2>2
    <3>2. PICK k \in DOMAIN parts[i] : parts[i][k] = r
      BY <3>1
    <3>3. \A m \in 1 .. Len(parts) : \A y \in DOMAIN parts[m] : parts[m][y] = r => m = i /\ y = k
      BY <3>2, <1>9 DEF Clean
    <3>4. Places(parts, r) = {<<i, k>>}
      BY <1>6, <3>2, <3>3
    <3> QED
      BY <2>2, <3>4, FS_Singleton
  <2> QED
    BY <2>1, <2>2
<1>10. Cardinality(Places(parts, r)) = 0 <=> Places(parts, r) = {}
  BY <1>3, <1>4, FS_EmptySet
<1> QED
  BY <1>5, <1>8, <1>9, <1>10

\* The invariant says enough of the promoted partition.
LEMMA ExactByInv == IngestInv => IngestIsExact
<1> SUFFICES ASSUME IngestInv PROVE IngestIsExact
  OBVIOUS
<1>1. TypeOK
  BY DEF IngestInv
<1> SUFFICES ASSUME published # Absent PROVE UninterruptedIsExact /\ LosesOnlyTheBatch
  BY <1>1 DEF IngestIsExact, UninterruptedIsExact, LosesOnlyTheBatch
<1>2. /\ published \in Parts /\ origin \in 1 .. created /\ origin \in Dir
      /\ origin \notin shared =>
            /\ Row \subseteq lost[origin] \cup Kept(published, Len(published))
            /\ resumes[origin] <= 1 => Cardinality(lost[origin]) < BatchSize
            /\ Trust(origin) => Clean(published, Len(published))
      /\ resumes[origin] = 0 => lost[origin] = {}
  <2>1. MaxDirs \in Nat /\ created \in 0 .. MaxDirs
    BY <1>1, BoundAssumption DEF TypeOK
  <2> QED
    BY <1>1, <2>1 DEF IngestInv, StoreOK, ApartOK, TypeOK, Dir
<1>3. ASSUME resumes[origin] = 0, origin \notin shared
      PROVE  Intact(published) /\ \A r \in Row : Cardinality(Places(published, r)) = 1
  <2>1. Clean(published, Len(published)) /\ Row \subseteq Kept(published, Len(published))
    BY <1>2, <1>3 DEF Trust, Trusted
  <2>2. Intact(published)
    BY <1>2, <2>1, KeptIs DEF Clean, Intact
  <2> QED
    BY <1>2, <2>1, <2>2, PlacesOf
<1>4. origin \notin shared => \A r \in Row : Places(published, r) = {} => r \in lost[origin]
  BY <1>2, PlacesOf
<1> QED
  BY <1>2, <1>3, <1>4 DEF UninterruptedIsExact, LosesOnlyTheBatch

\* What is promoted from a directory that one run at a time was in is the corpus: exactly, when
\* the run was never interrupted; otherwise it misses what was in memory at the checkpoint, less
\* than a batch for one resume.  Of a directory that two runs were in at once it says nothing.
THEOREM PromotedIsExact == Spec => []IngestIsExact
BY IngestInvariant, ExactByInv, PTL

-----------------------------------------------------------------------------
(* Ingest implements CorpusStore.                                          *)

\* Nothing else touches what is stored, nor how it counts.
LEMMA StoredStays ==
    ASSUME IngestInv, published' = published, origin' = origin,
           published # Absent => (origin \in shared' <=> origin \in shared),
           published # Absent /\ origin \notin shared =>
              resumes'[origin] = resumes[origin] /\ (origin \in late' <=> origin \in late)
    PROVE  UNCHANGED Store!vars
<1>1. CASE published = Absent
  BY <1>1 DEF Store!vars, HowStored
<1>2. CASE published # Absent
  BY <1>2 DEF Store!vars, HowStored
<1> QED
  BY <1>1, <1>2

\* What was promoted of a directory that several runs were in may still be written to.
LEMMA SharedChanges ==
    ASSUME IngestInv, published # Absent, origin \in shared, published' \in Parts,
           origin' = origin, shared' = shared
    PROVE  Store!Next
<1>1. published' # Absent
  BY AbsentAssumption
<1>2. [r \in Row |-> Cardinality(Places(published', r))] \in [Row -> Nat]
  BY PlacesOf
<1>3. HowStored = "shared" /\ HowStored' = "shared"
  BY <1>1 DEF HowStored
<1> QED
  BY <1>1, <1>2, <1>3 DEF Store!Next, Store!ChangeShared

\* A promotion stores the corpus the way the run it came from allows.
LEMMA PromotionStores ==
    ASSUME IngestInv, IngestInv', published = Absent, published' # Absent
    PROVE  Store!Next
<1> DEFINE count == [r \in Row |-> Cardinality(Places(published', r))]
<1>1. Store!Nothing
  BY DEF Store!Nothing, HowStored
<1>2. /\ published' \in Parts /\ origin' \in Dir
      /\ origin' \notin shared' =>
            /\ Row \subseteq lost'[origin'] \cup Kept(published', Len(published'))
            /\ resumes'[origin'] <= 1 => Cardinality(lost'[origin']) < BatchSize
            /\ Trusted(resumes'[origin'], origin' \in late') => Clean(published', Len(published'))
      /\ resumes'[origin'] = 0 => lost'[origin'] = {}
      /\ lost'[origin'] \in SUBSET Row
  <2>1. MaxDirs \in Nat /\ created' \in 0 .. MaxDirs
    BY BoundAssumption DEF IngestInv, TypeOK
  <2>2. origin' \in 1 .. created' /\ origin' \in Dir
    BY <2>1 DEF IngestInv, StoreOK, Dir
  <2> QED
    BY <2>2 DEF IngestInv, StoreOK, ApartOK, TypeOK, Trust
<1>3. \A r \in Row : count[r] \in Nat /\ (origin' \notin shared' /\ count[r] = 0 => r \in lost'[origin'])
  BY <1>2, PlacesOf
<1>4. origin' \notin shared' /\ Trusted(resumes'[origin'], origin' \in late') =>
         \A r \in Row : count[r] \in {0, 1}
  BY <1>2, PlacesOf
<1>5. origin' \notin shared' /\ Trusted(resumes'[origin'], origin' \in late') => Intact(published')
  BY <1>2, KeptIs DEF Clean, Intact
<1>6. CASE origin' \notin shared' /\ resumes'[origin'] = 0
  <2>1. \A r \in Row : count[r] = 1
    BY <1>2, <1>3, <1>4, <1>6 DEF Trusted
  <2>2. count = [r \in Row |-> 1]
    BY <2>1
  <2> QED
    BY <1>1, <1>5, <1>6, <2>2 DEF Store!Next, Store!StoreClean, HowStored, Trusted
<1>7. CASE origin' \notin shared' /\ resumes'[origin'] = 1 /\ origin' \notin late'
  <2>1. count \in [Row -> {0, 1}]
    BY <1>4, <1>7 DEF Trusted
  <2> DEFINE lacking == {r \in Row : count[r] = 0}
  <2>2. lacking \subseteq lost'[origin']
    BY <1>3, <1>7
  <2>3. Cardinality(lacking) <= BatchSize - 1
    <3>1. /\ Cardinality(lacking) <= Cardinality(lost'[origin'])
          /\ Cardinality(lacking) \in Nat /\ Cardinality(lost'[origin']) \in Nat
      BY <1>2, <2>2, RowFinite
    <3> QED
      BY <1>2, <1>7, <3>1, SizeAssumption
  <2> DEFINE seen == IF published' = Absent THEN Absent ELSE count
  <2>4. seen = count /\ Store!Lacking(seen) = lacking
    BY DEF Store!Lacking
  <2>5. HowStored' = "resumed" /\ ~(published' # Absent /\ ~Intact(published'))
    BY <1>5, <1>7 DEF HowStored, Trusted
  <2>6. seen \in [Row -> {0, 1}] /\ Cardinality(Store!Lacking(seen)) <= BatchSize - 1
    BY <2>1, <2>3, <2>4
  <2> HIDE DEF count, lacking
  <2>7. Store!StoreResumed
    <3>1. /\ seen = (IF published = Absent THEN Absent
                     ELSE [r \in Row |-> Cardinality(Places(published, r))])'
      BY DEF seen, count
    <3>2. (published # Absent /\ ~Intact(published))' = FALSE
      BY <2>5
    <3>3. ASSUME NEW S PROVE Store!Cardinality(S) = Cardinality(S)
      BY Zenon DEF Store!Cardinality, Cardinality
    <3> HIDE DEF seen
    <3> QED
      BY <1>1, <2>5, <2>6, <3>1, <3>2, <3>3 DEF Store!StoreResumed
  <2> QED
    BY <2>7 DEF Store!Next
<1>8. CASE /\ origin' \notin shared' /\ resumes'[origin'] # 0
           /\ ~(resumes'[origin'] = 1 /\ origin' \notin late')
  <2>1. count \in [Row -> Nat]
    BY <1>3
  <2> QED
    BY <1>1, <1>8, <2>1 DEF Store!Next, Store!StoreUnsure, HowStored
<1>9. CASE origin' \in shared'
  <2>1. count \in [Row -> Nat]
    BY <1>3
  <2> QED
    BY <1>1, <1>9, <2>1 DEF Store!Next, Store!StoreShared, HowStored
<1> QED
  BY <1>6, <1>7, <1>8, <1>9

\* Only a rename publishes, and a run that dies late is not the one promoted; only what several runs
\* had a hand in is written to later.
LEMMA StoreStep ==
    ASSUME IngestInv, IngestInv', [Next]_vars
    PROVE  [Store!Next]_(Store!vars)
<1>1. CASE UNCHANGED vars
  BY <1>1, StoredStays DEF vars
<1>2. CASE DeleteJsonl
  BY <1>2, StoredStays DEF DeleteJsonl, history
<1>3. CASE DeletePartition
  <2>1. published # Absent /\ published' = Absent
    BY <1>3 DEF DeletePartition
  <2>2. ~Store!Nothing
    BY <2>1 DEF Store!Nothing, HowStored
  <2>3. Store!Nothing'
    BY <2>1 DEF Store!Nothing, HowStored
  <2> QED
    BY <2>2, <2>3 DEF Store!Next, Store!Delete
<1>4. ASSUME NEW p \in Proc, Step(p) PROVE [Store!Next]_(Store!vars)
  <2>1. CASE StartFresh(p)
    BY <2>1, StoredStays DEF StartFresh, history
  <2>2. ASSUME NEW d \in Dir, Resume(p, d) PROVE [Store!Next]_(Store!vars)
    BY <2>2, StoredStays DEF Resume
  <2>3. CASE EmitRow(p) \/ FinishFile(p) \/ WriteCheckpoint(p) \/ StartLastPart(p) \/ FlushJsonl(p)
             \/ CheckTargets(p) \/ MoveJsonl(p) \/ UnlinkJsonl(p) \/ Sweep(p)
    <3>1. UNCHANGED <<published, resumes, late, shared, origin>>
      BY <2>3 DEF EmitRow, FinishFile, WriteCheckpoint, StartLastPart, FlushJsonl,
         CheckTargets, MoveJsonl, UnlinkJsonl, Sweep, history, disk
    <3> QED
      BY <3>1, StoredStays
  <2>6. CASE WritePart(p) \/ WriteLastPart(p)
    <3>1. /\ UNCHANGED <<resumes, late, shared, origin>>
          /\ job[p].at \in {"part", "last"} /\ FillPart(p, job[p].batch)
      BY <2>6 DEF WritePart, WriteLastPart, history
    <3>2. job[p].batch \in Seq(Row)
      BY <3>1, RunHas DEF Live
    <3>3. \/ published' = published
          \/ published # Absent /\ origin \in shared /\ published' \in Parts
      BY <3>1, <3>2, FillPartIs
    <3> QED
      BY <3>1, <3>3, StoredStays, SharedChanges
  <2>4. CASE RenamePartition(p)
    <3>1. \/ UNCHANGED <<published, origin>> /\ UNCHANGED <<resumes, late, shared>>
          \/ published = Absent /\ published' = staging[job[p].dir].parts /\ job[p].at = "rename"
      BY <2>4 DEF RenamePartition, Here
    <3>2. CASE UNCHANGED <<published, origin>> /\ UNCHANGED <<resumes, late, shared>>
      BY <3>2, StoredStays
    <3>3. CASE /\ published = Absent /\ published' = staging[job[p].dir].parts
               /\ job[p].at = "rename"
      <4>1. staging[job[p].dir].parts \in Parts
        BY <3>3, RunHas DEF Live, Staging
      <4> QED
        BY <3>3, <4>1, AbsentAssumption, PromotionStores
    <3> QED
      BY <3>1, <3>2, <3>3
  <2>5. CASE Crash(p)
    <3>1. UNCHANGED <<resumes, shared, origin>>
      BY <2>5 DEF Crash
    <3>2. published # Absent /\ origin \notin shared => (origin \in late' <=> origin \in late)
      <4>1. published # Absent /\ origin \notin shared /\ job[p].at \in Ending => job[p].dir # origin
        BY DEF IngestInv, StoreOK, Ending, Past
      <4> QED
        BY <2>5, <4>1 DEF Crash, Ending
    <3>3. Torn \in Seq(Row)
      BY DEF Torn
    <3>4. \/ published' = published
          \/ published # Absent /\ origin \in shared /\ published' \in Parts
      BY <2>5, <3>3, FillPartIs DEF Crash
    <3> QED
      BY <3>1, <3>2, <3>4, StoredStays, SharedChanges
  <2> QED
    BY <1>4, <2>1, <2>2, <2>3, <2>4, <2>5, <2>6 DEF Step
<1> QED
  BY <1>1, <1>2, <1>3, <1>4 DEF Next

\* Seen from the passage store, whatever runs, dies and is resumed beside it, the corpus appears in
\* one step, the way CorpusStore promises, and stays until it is deleted: so it is for what comes
\* from a directory that one run at a time was in.  A directory may be resumed while a run is in it
\* and then CorpusStore allows anything, also after the promotion.
THEOREM IngestImplementsCorpusStore == Spec => ImplementsCorpusStore
<1>1. Init => Store!Init
  BY DEF Init, Store!Init, Store!Nothing, HowStored
<1>2. IngestInv /\ IngestInv' /\ [Next]_vars => [Store!Next]_(Store!vars)
  BY StoreStep
<1> QED
  BY <1>1, <1>2, IngestInvariant, PTL DEF Spec, Store!Spec, ImplementsCorpusStore

-----------------------------------------------------------------------------
(* The bytes of a set of files: the fold is a function by the size of the  *)
(* set, and there is no least size at which it is not as it should be.     *)

LEMMA NoLeast ==
    ASSUME NEW Bad \in SUBSET Nat, \A n \in Bad : \E m \in Bad : m < n
    PROVE  Bad = {}
<1> SUFFICES ASSUME Bad # {} PROVE FALSE
  OBVIOUS
<1>1. PICK n \in Bad : \A m \in Bad : ~ (<<m, n>> \in OpToRel(<, Nat))
  BY NatLessThanWellFounded, WFMin
<1>2. PICK m \in Bad : m < n
  OBVIOUS
<1> QED
  BY <1>1, <1>2 DEF OpToRel

One(s) == CHOOSE x \in s : TRUE
Sum(S) == CHOOSE iter : iter = [s \in SUBSET S |->
              IF s = {} THEN 0 ELSE One(s).bytes + iter[s \ {One(s)}]]

LEMMA TotalIsSum ==
    ASSUME NEW S PROVE TotalBytes(S) = Sum(S)[S]
  BY Zenon DEF TotalBytes, MapThenSumSet, MapThenFoldSet, Sum, One

LEMMA OneOf ==
    ASSUME NEW s, IsFiniteSet(s), s # {}
    PROVE  /\ One(s) \in s /\ IsFiniteSet(s \ {One(s)})
           /\ Cardinality(s) \in Nat /\ Cardinality(s) > 0
           /\ Cardinality(s \ {One(s)}) = Cardinality(s) - 1
<1>1. One(s) \in s
  BY DEF One
<1> QED
  BY <1>1, FS_RemoveElement, FS_CardinalityType, FS_EmptySet

\* The sum of the sets of at most n members of S.
SumUpto(S, n, g) ==
    g = [s \in {t \in SUBSET S : Cardinality(t) <= n} |->
            IF s = {} THEN 0 ELSE One(s).bytes + g[s \ {One(s)}]]

LEMMA SumThere ==
    ASSUME NEW S, IsFiniteSet(S)
    PROVE  \A n \in Nat : \E g : SumUpto(S, n, g)
<1> DEFINE Bad == {n \in Nat : ~ \E g : SumUpto(S, n, g)}
           Upto(n) == {t \in SUBSET S : Cardinality(t) <= n}
<1>0. \A s \in SUBSET S : IsFiniteSet(s) /\ Cardinality(s) \in Nat
  BY FS_Subset, FS_CardinalityType
<1>1. ASSUME 0 \in Bad PROVE FALSE
  <2> DEFINE g == [s \in Upto(0) |-> 0]
  <2>1. \A s \in Upto(0) : s = {}
    BY <1>0, FS_EmptySet
  <2>2. g = [s \in Upto(0) |-> IF s = {} THEN 0 ELSE One(s).bytes + g[s \ {One(s)}]]
    BY <2>1
  <2> QED
    BY <1>1, <2>2 DEF SumUpto
<1>2. ASSUME NEW n \in Nat, NEW g, SumUpto(S, n, g)
      PROVE  \E h : SumUpto(S, n + 1, h)
  <2> DEFINE h == [s \in Upto(n + 1) |->
                     IF s = {} THEN 0 ELSE One(s).bytes + g[s \ {One(s)}]]
  <2>1. Upto(n) \subseteq Upto(n + 1)
    BY <1>0
  <2>2. \A s \in Upto(n) : h[s] = g[s]
    BY <1>2, <2>1 DEF SumUpto
  <2>3. \A s \in Upto(n + 1) : s # {} => s \ {One(s)} \in Upto(n)
    <3> SUFFICES ASSUME NEW s \in Upto(n + 1), s # {} PROVE s \ {One(s)} \in Upto(n)
      OBVIOUS
    <3>1. Cardinality(s \ {One(s)}) = Cardinality(s) - 1 /\ Cardinality(s) \in Nat
      BY <1>0, OneOf
    <3> QED
      BY <3>1
  <2>4. ASSUME NEW s \in Upto(n + 1)
        PROVE  h[s] = IF s = {} THEN 0 ELSE One(s).bytes + h[s \ {One(s)}]
    <3>1. CASE s = {}
      BY <3>1
    <3>2. CASE s # {}
      <4>1. h[s \ {One(s)}] = g[s \ {One(s)}]
        BY <2>2, <2>3, <3>2
      <4> HIDE DEF Upto
      <4> QED
        BY <3>2, <4>1
    <3> QED
      BY <3>1, <3>2
  <2>5. h = [s \in Upto(n + 1) |-> h[s]]
    OBVIOUS
  <2> HIDE DEF h
  <2>6. h = [s \in Upto(n + 1) |-> IF s = {} THEN 0 ELSE One(s).bytes + h[s \ {One(s)}]]
    BY <2>4, <2>5
  <2> QED
    BY <2>6 DEF SumUpto
<1>3. \A n \in Bad : \E m \in Bad : m < n
  <2> SUFFICES ASSUME NEW n \in Bad PROVE \E m \in Bad : m < n
    OBVIOUS
  <2>1. n \in Nat /\ n # 0
    BY <1>1
  <2>2. n - 1 \in Nat /\ n - 1 < n /\ (n - 1) + 1 = n
    BY <2>1
  <2>3. n - 1 \in Bad
    BY <1>2, <2>2
  <2> QED
    BY <2>2, <2>3
<1>4. Bad = {}
  <2> HIDE DEF Bad
  <2>1. Bad \in SUBSET Nat
    BY DEF Bad
  <2> QED
    BY <1>3, <2>1, NoLeast
<1> QED
  BY <1>4

LEMMA SumIs ==
    ASSUME NEW S, IsFiniteSet(S)
    PROVE  Sum(S) = [s \in SUBSET S |->
                        IF s = {} THEN 0 ELSE One(s).bytes + Sum(S)[s \ {One(s)}]]
<1> DEFINE n == Cardinality(S)
<1>1. n \in Nat /\ {t \in SUBSET S : Cardinality(t) <= n} = SUBSET S
  BY FS_CardinalityType, FS_Subset
<1>2. PICK g : SumUpto(S, n, g)
  BY <1>1, SumThere
<1>3. g = [s \in SUBSET S |-> IF s = {} THEN 0 ELSE One(s).bytes + g[s \ {One(s)}]]
  BY <1>1, <1>2 DEF SumUpto
<1> QED
  BY <1>3, Zenon DEF Sum

\* It does not matter of which set the files are taken.
LEMMA SumOfPart ==
    ASSUME NEW S, IsFiniteSet(S), NEW A \in SUBSET S
    PROVE  \A s \in SUBSET A : Sum(A)[s] = Sum(S)[s]
<1> DEFINE Bad == {n \in Nat : \E s \in SUBSET A : Cardinality(s) = n /\ Sum(A)[s] # Sum(S)[s]}
<1>0. IsFiniteSet(A) /\ \A s \in SUBSET A : IsFiniteSet(s) /\ Cardinality(s) \in Nat
  BY FS_Subset, FS_CardinalityType
<1>1. ASSUME NEW s \in SUBSET A
      PROVE  /\ Sum(A)[s] = IF s = {} THEN 0 ELSE One(s).bytes + Sum(A)[s \ {One(s)}]
             /\ Sum(S)[s] = IF s = {} THEN 0 ELSE One(s).bytes + Sum(S)[s \ {One(s)}]
  <2>1. s \in SUBSET S
    OBVIOUS
  <2> DEFINE of(T, f) == [t \in SUBSET T |-> IF t = {} THEN 0 ELSE One(t).bytes + f[t \ {One(t)}]]
  <2>2. Sum(A) = of(A, Sum(A)) /\ Sum(S) = of(S, Sum(S))
    BY <1>0, SumIs
  <2>3. \A T, f : s \in SUBSET T =>
            of(T, f)[s] = IF s = {} THEN 0 ELSE One(s).bytes + f[s \ {One(s)}]
    OBVIOUS
  <2> HIDE DEF of
  <2>4. of(A, Sum(A))[s] = IF s = {} THEN 0 ELSE One(s).bytes + Sum(A)[s \ {One(s)}]
    BY <2>3
  <2>5. of(S, Sum(S))[s] = IF s = {} THEN 0 ELSE One(s).bytes + Sum(S)[s \ {One(s)}]
    BY <2>1, <2>3
  <2> QED
    BY <2>2, <2>4, <2>5
<1>2. ASSUME NEW n \in Bad PROVE \E m \in Bad : m < n
  <2>1. PICK s \in SUBSET A : Cardinality(s) = n /\ Sum(A)[s] # Sum(S)[s]
    BY <1>2
  <2>2. s # {}
    BY <1>1, <2>1
  <2> DEFINE t == s \ {One(s)}
  <2>3. t \in SUBSET A /\ Sum(A)[t] # Sum(S)[t]
    BY <1>1, <2>1, <2>2
  <2>4. Cardinality(t) = n - 1 /\ n > 0 /\ n \in Nat
    BY <1>0, <2>1, <2>2, OneOf
  <2>5. n - 1 \in Nat /\ n - 1 < n
    BY <2>4
  <2> QED
    BY <2>3, <2>4, <2>5
<1>3. Bad = {}
  <2>1. Bad \in SUBSET Nat
    OBVIOUS
  <2>2. \A n \in Bad : \E m \in Bad : m < n
    BY <1>2
  <2> HIDE DEF Bad
  <2> QED
    BY <2>1, <2>2, NoLeast
<1> QED
  BY <1>0, <1>3

LEMMA TotalOf ==
    /\ TotalBytes({}) = 0
    /\ \A s : IsFiniteSet(s) /\ s # {} =>
                 TotalBytes(s) = One(s).bytes + TotalBytes(s \ {One(s)})
<1>1. ASSUME NEW s, IsFiniteSet(s)
      PROVE  Sum(s)[s] = IF s = {} THEN 0 ELSE One(s).bytes + Sum(s)[s \ {One(s)}]
  <2> DEFINE of(f) == [t \in SUBSET s |-> IF t = {} THEN 0 ELSE One(t).bytes + f[t \ {One(t)}]]
  <2>1. Sum(s) = of(Sum(s))
    BY <1>1, SumIs
  <2>2. \A f : of(f)[s] = IF s = {} THEN 0 ELSE One(s).bytes + f[s \ {One(s)}]
    OBVIOUS
  <2> HIDE DEF of
  <2> QED
    BY <2>1, <2>2
<1>2. TotalBytes({}) = 0
  BY <1>1, TotalIsSum, FS_EmptySet
<1>3. ASSUME NEW s, IsFiniteSet(s), s # {}
      PROVE  TotalBytes(s) = One(s).bytes + TotalBytes(s \ {One(s)})
  <2> DEFINE t == s \ {One(s)}
  <2>1. Sum(t)[t] = Sum(s)[t]
    BY <1>3, SumOfPart
  <2> QED
    BY <1>1, <1>3, <2>1, TotalIsSum
<1> QED
  BY <1>2, <1>3

Sized(s) == IsFiniteSet(s) /\ \A f \in s : f.bytes \in Nat

LEMMA SizedPart ==
    ASSUME NEW s, Sized(s), NEW t \in SUBSET s
    PROVE  Sized(t) /\ Cardinality(t) \in Nat /\ Cardinality(t) <= Cardinality(s)
  BY FS_Subset, FS_CardinalityType DEF Sized

\* A file more is its bytes more.
LEMMA TotalAdds ==
    \A s, y : Sized(s \cup {y}) /\ y \notin s =>
        TotalBytes(s) \in Nat /\ TotalBytes(s \cup {y}) = y.bytes + TotalBytes(s)
<1> DEFINE Adds(s, y) == TotalBytes(s) \in Nat /\ TotalBytes(s \cup {y}) = y.bytes + TotalBytes(s)
           Fails(s, y) == Sized(s \cup {y}) /\ y \notin s /\ ~ Adds(s, y)
           Bad == {n \in Nat : \E s, y : Cardinality(s) = n /\ Fails(s, y)}
<1>1. ASSUME NEW s, NEW y, Fails(s, y), \A t, z : Fails(t, z) => ~ (Cardinality(t) < Cardinality(s))
      PROVE  FALSE
  <2> DEFINE u == s \cup {y}
             x == One(u)
  <2>0. /\ Sized(u) /\ y \notin s /\ IsFiniteSet(u) /\ u # {} /\ y.bytes \in Nat
        /\ Sized(s) /\ IsFiniteSet(s)
    BY <1>1, SizedPart DEF Sized
  <2>1. x \in u /\ TotalBytes(u) = x.bytes + TotalBytes(u \ {x}) /\ x.bytes \in Nat
    BY <2>0, OneOf, TotalOf DEF Sized
  <2>2. TotalBytes(s) \in Nat
    <3>1. CASE s = {}
      BY <3>1, TotalOf
    <3>2. CASE s # {}
      <4> DEFINE t == s \ {One(s)}
      <4>1. /\ One(s) \in s /\ Cardinality(t) < Cardinality(s)
            /\ TotalBytes(s) = One(s).bytes + TotalBytes(t)
        BY <2>0, <3>2, OneOf, TotalOf
      <4>2. t \cup {One(s)} = s /\ One(s) \notin t /\ One(s).bytes \in Nat
        BY <2>0, <4>1 DEF Sized
      <4>3. Adds(t, One(s))
        BY <1>1, <2>0, <4>1, <4>2
      <4> QED
        BY <4>1, <4>2, <4>3
    <3> QED
      BY <3>1, <3>2
  <2>3. CASE x = y
    <3>1. u \ {x} = s
      BY <2>0, <2>3
    <3> QED
      BY <1>1, <2>1, <2>2, <2>3, <3>1
  <2>4. CASE x # y
    <3> DEFINE t == s \ {x}
    <3>1. x \in s /\ u \ {x} = t \cup {y} /\ s = t \cup {x} /\ x \notin t /\ y \notin t
      BY <2>0, <2>1, <2>4
    <3>2. Cardinality(t) < Cardinality(s)
      <4>1. Cardinality(s \ {x}) = Cardinality(s) - 1 /\ Cardinality(s) \in Nat
        <5> HIDE DEF x
        <5> QED
          BY <2>0, <3>1, FS_RemoveElement, FS_CardinalityType
      <4> QED
        BY <4>1
    <3>3. Sized(t \cup {x}) /\ Sized(t \cup {y})
      <4>1. t \cup {x} \in SUBSET u /\ t \cup {y} \in SUBSET u
        BY <3>1
      <4> QED
        BY <2>0, <4>1, SizedPart
    <3>4. Adds(t, x) /\ Adds(t, y)
      BY <1>1, <3>1, <3>2, <3>3
    <3>5. TotalBytes(u) = x.bytes + (y.bytes + TotalBytes(t))
      BY <2>1, <3>1, <3>4
    <3>6. TotalBytes(s) = x.bytes + TotalBytes(t)
      BY <3>1, <3>4
    <3>7. TotalBytes(u) = y.bytes + TotalBytes(s)
      BY <2>0, <2>1, <3>4, <3>5, <3>6
    <3> QED
      BY <1>1, <2>2, <3>7
  <2> QED
    BY <2>3, <2>4
<1>2. ASSUME NEW n \in Bad PROVE \E m \in Bad : m < n
  <2>1. PICK s, y : Cardinality(s) = n /\ Fails(s, y)
    BY <1>2
  <2>2. PICK t, z : Fails(t, z) /\ Cardinality(t) < Cardinality(s)
    BY <1>1, <2>1
  <2>3. Cardinality(t) \in Nat
    <3>1. t \in SUBSET (t \cup {z}) /\ Sized(t \cup {z})
      BY <2>2
    <3> QED
      BY <3>1, SizedPart
  <2> QED
    BY <2>1, <2>2, <2>3
<1>3. Bad = {}
  <2>1. Bad \in SUBSET Nat
    OBVIOUS
  <2>2. \A n \in Bad : \E m \in Bad : m < n
    BY <1>2
  <2> HIDE DEF Bad
  <2> QED
    BY <2>1, <2>2, NoLeast
<1>4. ASSUME NEW s, NEW y, Fails(s, y) PROVE FALSE
  <2>1. Cardinality(s) \in Nat
    <3>1. s \in SUBSET (s \cup {y}) /\ Sized(s \cup {y})
      BY <1>4
    <3> QED
      BY <3>1, SizedPart
  <2> QED
    BY <1>3, <1>4, <2>1
<1> QED
  BY <1>4

\* More files are no fewer bytes.
LEMMA TotalGrows ==
    \A s : Sized(s) => /\ TotalBytes(s) \in Nat
                       /\ \A t \in SUBSET s : TotalBytes(t) <= TotalBytes(s)
<1> DEFINE Grows(s) == /\ TotalBytes(s) \in Nat
                       /\ \A t \in SUBSET s : TotalBytes(t) \in Nat /\ TotalBytes(t) <= TotalBytes(s)
           Bad == {n \in Nat : \E s : Sized(s) /\ Cardinality(s) = n /\ ~ Grows(s)}
<1>1. ASSUME NEW s, Sized(s), \A t : Sized(t) /\ Cardinality(t) < Cardinality(s) => Grows(t)
      PROVE  Grows(s)
  <2>1. CASE s = {}
    BY <2>1, TotalOf
  <2>2. CASE s # {}
    <3> DEFINE x == One(s)
               u == s \ {x}
    <3>0. /\ x \in s /\ Cardinality(s) \in Nat
          /\ Cardinality(u) = Cardinality(s) - 1
      BY <1>1, <2>2, OneOf DEF Sized
    <3>1. x \in s /\ Cardinality(u) < Cardinality(s) /\ s = u \cup {x} /\ x \notin u
      <4> HIDE DEF x
      <4> QED
        BY <3>0
    <3>2. Sized(u) /\ Sized(u \cup {x}) /\ x.bytes \in Nat
      BY <1>1, <3>1, SizedPart DEF Sized
    <3>3. Grows(u)
      BY <1>1, <3>1, <3>2
    <3>4. TotalBytes(s) = x.bytes + TotalBytes(u)
      BY <3>1, <3>2, TotalAdds
    <3>5. ASSUME NEW t \in SUBSET s
          PROVE  TotalBytes(t) \in Nat /\ TotalBytes(t) <= TotalBytes(s)
      <4>1. CASE x \notin t
        <5>1. t \in SUBSET u
          BY <3>1, <4>1
        <5> QED
          BY <3>2, <3>3, <3>4, <5>1
      <4>2. CASE x \in t
        <5> DEFINE v == t \ {x}
        <5>1. v \in SUBSET u /\ v \cup {x} = t /\ x \notin v
          BY <3>1, <4>2
        <5>2. Sized(t)
          BY <1>1, SizedPart
        <5>3. TotalBytes(t) = x.bytes + TotalBytes(v)
          BY <5>1, <5>2, TotalAdds
        <5>4. TotalBytes(v) \in Nat /\ TotalBytes(v) <= TotalBytes(u)
          BY <3>3, <5>1
        <5> QED
          BY <3>2, <3>3, <3>4, <5>3, <5>4
      <4> QED
        BY <4>1, <4>2
    <3>6. TotalBytes(s) \in Nat
      BY <3>2, <3>3, <3>4
    <3> QED
      BY <3>5, <3>6
  <2> QED
    BY <2>1, <2>2
<1>2. ASSUME NEW n \in Bad PROVE \E m \in Bad : m < n
  <2>1. PICK s : Sized(s) /\ Cardinality(s) = n /\ ~ Grows(s)
    BY <1>2
  <2>2. PICK t : Sized(t) /\ Cardinality(t) < Cardinality(s) /\ ~ Grows(t)
    BY <1>1, <2>1
  <2>3. Cardinality(t) \in Nat
    BY <2>2, FS_CardinalityType DEF Sized
  <2> QED
    BY <2>1, <2>2, <2>3
<1>3. Bad = {}
  <2>1. Bad \in SUBSET Nat
    OBVIOUS
  <2>2. \A n \in Bad : \E m \in Bad : m < n
    BY <1>2
  <2> HIDE DEF Bad
  <2> QED
    BY <2>1, <2>2, NoLeast
<1>4. ASSUME NEW s, Sized(s) PROVE Grows(s)
  <2>1. Cardinality(s) \in Nat
    BY <1>4, FS_CardinalityType DEF Sized
  <2> QED
    BY <1>3, <1>4, <2>1
<1> QED
  BY <1>4

-----------------------------------------------------------------------------
(* The choice.                                                             *)

LEMMA MostOfThree ==
    ASSUME NEW S \in SUBSET (1 .. 3), S # {}, NEW b \in [S -> Nat]
    PROVE  \E k \in S : \A j \in S : b[j] <= b[k]
<1>0. \A k \in S : k \in {1, 2, 3} /\ b[k] \in Nat
  OBVIOUS
<1> SUFFICES ASSUME \A k \in S : \E j \in S : b[k] < b[j] PROVE FALSE
  BY <1>0
<1>1. PICK k \in S : TRUE
  OBVIOUS
<1>2. PICK l \in S : b[k] < b[l]
  BY <1>1
<1>3. PICK m \in S : b[l] < b[m]
  BY <1>2
<1>4. PICK n \in S : b[m] < b[n]
  BY <1>3
<1>5. b[k] \in Nat /\ b[l] \in Nat /\ b[m] \in Nat /\ b[n] \in Nat
  BY <1>0
<1>6. k # l /\ k # m /\ k # n /\ l # m /\ l # n /\ m # n
  BY <1>2, <1>3, <1>4, <1>5
<1> QED
  BY <1>0, <1>6

LEMMA MaxOfThree ==
    ASSUME NEW S \in SUBSET (1 .. 3), S # {}
    PROVE  Max(S) \in S
<1>0. \A k \in S : k \in {1, 2, 3}
  OBVIOUS
<1>1. \E x \in S : \A y \in S : x >= y
  <2>1. CASE 3 \in S
    BY <1>0, <2>1
  <2>2. CASE 3 \notin S /\ 2 \in S
    BY <1>0, <2>2
  <2>3. CASE 3 \notin S /\ 2 \notin S
    <3>1. \A k \in S : k = 1
      BY <1>0, <2>3
    <3>2. PICK k \in S : TRUE
      OBVIOUS
    <3> QED
      BY <3>1, <3>2
  <2> QED
    BY <2>1, <2>2, <2>3
<1> QED
  BY <1>1 DEF Max

LEMMA FilesOf ==
    ASSUME NEW rel \in Releases, NEW s \in Source, NEW w
    PROVE  /\ Sized(Scan(rel[s]).files) /\ Sized(WorkFiles(rel, s, w))
           /\ TotalBytes(WorkFiles(rel, s, w)) \in Nat
<1> DEFINE files == Scan(rel[s]).files
<1>1. Sized(files)
  BY ReleasesAssumption DEF Sized
<1>2. WorkFiles(rel, s, w) \in SUBSET files
  BY DEF WorkFiles
<1> HIDE DEF files
<1> QED
  BY <1>1, <1>2, SizedPart, TotalGrows DEF files

LEMMA ThreeSources ==
    /\ \A k \in 1 .. 3 : SourceOrder[k] \in Source
    /\ \A s \in Source : \E k \in 1 .. 3 : s = SourceOrder[k]
  BY DEF SourceOrder, Source

\* The winner has files of the work, and no source has more bytes of it.
LEMMA WinnerIs ==
    ASSUME NEW rel \in Releases, NEW w \in Works(rel)
    PROVE  /\ Winner(rel, w) \in Source /\ WinningFiles(rel, w) # {}
           /\ \A s \in Source :
                TotalBytes(WorkFiles(rel, s, w)) <= TotalBytes(WinningFiles(rel, w))
<1> DEFINE C == Candidates(rel, w)
           b == [k \in C |-> TotalBytes(WorkFiles(rel, SourceOrder[k], w))]
           best == {k \in C : \A j \in C : b[j] <= b[k]}
<1>1. C \in SUBSET (1 .. 3) /\ C # {}
  <2>1. PICK s \in Source : \E f \in Scan(rel[s]).files : f.work = w
    BY DEF Works
  <2>2. WorkFiles(rel, s, w) # {}
    BY <2>1 DEF WorkFiles
  <2> QED
    BY <2>2, ThreeSources DEF Candidates
<1>2. b \in [C -> Nat]
  BY <1>1, FilesOf, ThreeSources
<1>3. best # {} /\ best \in SUBSET (1 .. 3)
  <2> HIDE DEF C, b
  <2>1. \E k \in C : \A j \in C : b[j] <= b[k]
    BY <1>1, <1>2, MostOfThree
  <2> QED
    BY <1>1, <2>1
<1> DEFINE k == Max(best)
<1>4. k \in best
  <2> HIDE DEF best
  <2> QED
    BY <1>3, MaxOfThree
<1>5. Winner(rel, w) = SourceOrder[k]
  BY Zenon DEF Winner, MostOf
<1> HIDE DEF k
<1>6. k \in C /\ \A j \in C : b[j] <= b[k]
  BY <1>4
<1>7. WinningFiles(rel, w) = WorkFiles(rel, SourceOrder[k], w)
  BY <1>5 DEF WinningFiles
<1>8. WinningFiles(rel, w) # {}
  BY <1>6, <1>7 DEF Candidates
<1>9. ASSUME NEW s \in Source
      PROVE  TotalBytes(WorkFiles(rel, s, w)) <= TotalBytes(WinningFiles(rel, w))
  <2>1. PICK j \in 1 .. 3 : s = SourceOrder[j]
    BY ThreeSources
  <2>2. CASE j \in C
    <3>1. b[j] <= b[k] /\ b[j] = TotalBytes(WorkFiles(rel, SourceOrder[j], w))
          /\ b[k] = TotalBytes(WorkFiles(rel, SourceOrder[k], w))
      BY <1>6, <2>2
    <3> QED
      BY <1>7, <2>1, <3>1
  <2>3. CASE j \notin C
    <3>1. WorkFiles(rel, s, w) = {}
      BY <2>1, <2>3 DEF Candidates
    <3>2. TotalBytes(WinningFiles(rel, w)) \in Nat
      BY <1>1, <1>6, <1>7, FilesOf, ThreeSources
    <3> QED
      BY <3>1, <3>2, TotalOf
  <2> QED
    BY <2>2, <2>3
<1>10. Winner(rel, w) \in Source
  BY <1>1, <1>5, <1>6, ThreeSources
<1> QED
  BY <1>8, <1>9, <1>10

\* What is to be copied is of its work's winner, and no two files go to one path.
LEMMA ToCopyIs ==
    ASSUME NEW rel \in Releases
    PROVE  /\ \A f \in ToCopy(rel) : /\ f.work \in Works(rel) /\ f \in WinningFiles(rel, f.work)
                                     /\ {f.work, f.fascicle, f.bytes} \subseteq Nat
           /\ \A w \in Works(rel) : /\ WinningFiles(rel, w) # {}
                                    /\ WinningFiles(rel, w) = {f \in ToCopy(rel) : f.work = w}
           /\ \A f, g \in ToCopy(rel) : PathOf(f) = PathOf(g) => f = g
<1>1. \A f \in ToCopy(rel) : f.work \in Works(rel) /\ f \in WinningFiles(rel, f.work)
  BY DEF ToCopy, WinningFiles, WorkFiles
<1>2. \A w \in Works(rel) : \A f \in WinningFiles(rel, w) :
         f.work = w /\ f \in ToCopy(rel) /\ f \in Scan(rel[Winner(rel, w)]).files
  BY DEF ToCopy, WinningFiles, WorkFiles
<1>3. \A f \in ToCopy(rel) : {f.work, f.fascicle, f.bytes} \subseteq Nat
  BY <1>1, <1>2, WinnerIs, ReleasesAssumption
<1>4. ASSUME NEW f \in ToCopy(rel), NEW g \in ToCopy(rel), PathOf(f) = PathOf(g)
      PROVE  f = g
  <2>1. f.work = g.work
    BY <1>4 DEF PathOf
  <2>2. f \in Scan(rel[Winner(rel, f.work)]).files /\ g \in Scan(rel[Winner(rel, f.work)]).files
        /\ Winner(rel, f.work) \in Source
    BY <1>1, <1>2, <2>1, WinnerIs
  <2> QED
    BY <1>4, <2>2, ReleasesAssumption
<1>5. \A w \in Works(rel) : WinningFiles(rel, w) = {f \in ToCopy(rel) : f.work = w}
  BY <1>1, <1>2
<1> QED
  BY <1>1, <1>3, <1>4, <1>5, WinnerIs

-----------------------------------------------------------------------------
(* The runs.                                                               *)

IsCopied(f) == PathOf(f) \in DOMAIN merged /\ merged[PathOf(f)] = [file |-> f, whole |-> TRUE]
AllCopied(rel, todo) == \A f \in ToCopy(rel) \ todo : IsCopied(f)

\* What lies in the directory lies where it belongs, and was to be copied by some run.
FilesOK ==
    /\ IsFiniteSet(DOMAIN merged)
    /\ \A path \in DOMAIN merged :
         /\ PathOf(merged[path].file) = path
         /\ merged[path] = [file |-> merged[path].file, whole |-> merged[path].whole]
         /\ \E rel \in Releases : merged[path].file \in ToCopy(rel)

\* What a run has copied and not what is in front of it is there whole.
MergeOK ==
    /\ merge = [at |-> merge.at, todo |-> merge.todo, done |-> merge.done]
    /\ merge.at \in {"rest", "open", "close"}
    /\ merge.at # "rest" =>
         /\ ~ merge.done /\ merges.of = release
         /\ merge.todo \subseteq ToCopy(release) /\ AllCopied(release, merge.todo)
    /\ merge.at = "close" =>
         \E f \in merge.todo : /\ IsNext(f) /\ PathOf(f) \in DOMAIN merged
                               /\ merged[PathOf(f)] = [file |-> f, whole |-> FALSE]
    /\ merge.done => merges.of \in Releases /\ AllCopied(merges.of, {})

\* Where all runs merged the same distributions, nothing else was copied.
HistoryOK ==
    /\ release \in Releases /\ merges.count \in Nat
    /\ merges.of \in Releases \/ (merges.of = NoRelease /\ merged = <<>> /\ merge.at = "rest")
    /\ merges.alike => \A path \in DOMAIN merged : merged[path].file \in ToCopy(merges.of)

MergeInv == FilesOK /\ MergeOK /\ HistoryOK

LEMMA MergeInitInv == MergeInit => MergeInv
<1> SUFFICES ASSUME MergeInit PROVE MergeInv
  OBVIOUS
<1>1. DOMAIN merged = {}
  BY DEF MergeInit
<1>2. FilesOK
  BY <1>1, FS_EmptySet DEF FilesOK
<1>3. MergeOK
  BY DEF MergeOK, MergeInit, NoMerge
<1>4. HistoryOK
  BY <1>1 DEF HistoryOK, MergeInit, NoMerge
<1> QED
  BY <1>2, <1>3, <1>4 DEF MergeInv

LEMMA StartMergeKeeps ==
    ASSUME MergeInv, StartMerge PROVE MergeInv'
<1> USE DEF MergeInv
<1>1. /\ merged' = merged /\ release' = release
      /\ merge' = [at |-> "open", todo |-> ToCopy(release), done |-> FALSE]
      /\ merges' = [count |-> merges.count + 1, of |-> release,
                    alike |-> merges.alike /\ merges.of \in {NoRelease, release}]
  BY DEF StartMerge
<1>2. FilesOK'
  BY <1>1 DEF FilesOK
<1>3. MergeOK'
  <2>1. /\ merge'.at = "open" /\ merge'.todo = ToCopy(release) /\ merge'.done = FALSE
        /\ merges'.of = release
    BY <1>1
  <2>2. AllCopied(release, merge.todo)'
    BY <1>1, <2>1 DEF AllCopied
  <2> QED
    BY <1>1, <2>1, <2>2 DEF MergeOK
<1>4. HistoryOK'
  <2>1. ASSUME merges'.alike, NEW path \in DOMAIN merged
        PROVE  merged[path].file \in ToCopy(release)
    <3>1. merges.alike /\ merges.of \in {NoRelease, release}
      BY <1>1, <2>1
    <3>2. DOMAIN <<>> = {}
      OBVIOUS
    <3>3. merges.of \in Releases
      BY <2>1, <3>2 DEF HistoryOK
    <3>4. merges.of = release
      BY <3>1, <3>3, ReleasesAssumption
    <3> QED
      BY <3>1, <3>4 DEF HistoryOK
  <2> QED
    BY <1>1, <2>1 DEF HistoryOK
<1> QED
  BY <1>2, <1>3, <1>4

\* There is one next file.
LEMMA NextIsOne ==
    ASSUME MergeInv, merge.at # "rest",
           NEW f \in merge.todo, NEW g \in merge.todo, IsNext(f), IsNext(g)
    PROVE  f = g
<1>1. {f.work, f.fascicle, g.work, g.fascicle} \subseteq Nat
  BY ToCopyIs DEF MergeInv, MergeOK, HistoryOK
<1> SUFFICES ASSUME f # g PROVE FALSE
  OBVIOUS
<1>2. /\ f.work < g.work \/ (f.work = g.work /\ f.fascicle < g.fascicle)
      /\ g.work < f.work \/ (g.work = f.work /\ g.fascicle < f.fascicle)
  BY DEF IsNext
<1> QED
  BY <1>1, <1>2

LEMMA OpenCopyKeeps ==
    ASSUME MergeInv, NEW f \in merge.todo, OpenCopy(f) PROVE MergeInv'
<1> USE DEF MergeInv
<1> DEFINE torn == [file |-> f, whole |-> FALSE]
<1>1. /\ release' = release /\ merges' = merges /\ merge.at = "open" /\ IsNext(f)
      /\ merged' = [path \in DOMAIN merged \cup {PathOf(f)} |->
                       IF path = PathOf(f) THEN torn ELSE merged[path]]
      /\ merge' = [merge EXCEPT !.at = "close"]
  BY DEF OpenCopy
<1>2. /\ DOMAIN merged' = DOMAIN merged \cup {PathOf(f)} /\ merged'[PathOf(f)] = torn
      /\ \A path \in DOMAIN merged : path # PathOf(f) => merged'[path] = merged[path]
  BY <1>1
<1>3. merge'.at = "close" /\ merge'.todo = merge.todo /\ merge'.done = merge.done
  BY <1>1 DEF MergeOK
<1>4. release \in Releases /\ f \in ToCopy(release) /\ merges.of = release
  BY <1>1 DEF MergeOK, HistoryOK
<1>5. FilesOK'
  <2>1. IsFiniteSet(DOMAIN merged')
    BY <1>2, FS_AddElement DEF FilesOK
  <2>2. ASSUME NEW path \in DOMAIN merged'
        PROVE  /\ PathOf(merged'[path].file) = path
               /\ merged'[path] = [file |-> merged'[path].file, whole |-> merged'[path].whole]
               /\ \E rel \in Releases : merged'[path].file \in ToCopy(rel)
    <3>1. CASE path = PathOf(f)
      BY <1>2, <1>4, <3>1
    <3>2. CASE path # PathOf(f)
      BY <1>2, <3>2 DEF FilesOK
    <3> QED
      BY <3>1, <3>2
  <2> QED
    BY <2>1, <2>2 DEF FilesOK, PathOf
<1>6. MergeOK'
  <2>1. AllCopied(release, merge.todo)'
    <3> SUFFICES ASSUME NEW g \in ToCopy(release) \ merge.todo PROVE IsCopied(g)'
      BY <1>1, <1>3 DEF AllCopied
    <3>1. IsCopied(g)
      BY <1>1 DEF MergeOK, AllCopied
    <3>2. PathOf(g) # PathOf(f)
      BY <1>4, ToCopyIs
    <3> QED
      BY <1>2, <3>1, <3>2 DEF IsCopied, PathOf
  <2>2. IsNext(f)'
    BY <1>1, <1>3 DEF IsNext
  <2>3. PathOf(f) \in DOMAIN merged' /\ merged'[PathOf(f)] = torn
    BY <1>2
  <2>4. merge' = [at |-> merge'.at, todo |-> merge'.todo, done |-> merge'.done]
    BY <1>1 DEF MergeOK
  <2> QED
    BY <1>1, <1>3, <2>1, <2>2, <2>3, <2>4 DEF MergeOK, PathOf
<1>7. HistoryOK'
  <2>1. merges.alike => \A path \in DOMAIN merged' : merged'[path].file \in ToCopy(merges.of)
    BY <1>2, <1>4 DEF HistoryOK
  <2> QED
    BY <1>1, <1>4, <2>1 DEF HistoryOK
<1> QED
  BY <1>5, <1>6, <1>7

LEMMA CloseCopyKeeps ==
    ASSUME MergeInv, NEW f \in merge.todo, CloseCopy(f) PROVE MergeInv'
<1> USE DEF MergeInv
<1> DEFINE whole == [file |-> f, whole |-> TRUE]
<1>1. /\ release' = release /\ merges' = merges /\ merge.at = "close" /\ IsNext(f)
      /\ merged' = [merged EXCEPT ![PathOf(f)].whole = TRUE]
      /\ merge' = [merge EXCEPT !.at = "open", !.todo = @ \ {f}]
  BY DEF CloseCopy
<1>2. PathOf(f) \in DOMAIN merged /\ merged[PathOf(f)] = [file |-> f, whole |-> FALSE]
  BY <1>1, NextIsOne DEF MergeOK
<1>3. /\ DOMAIN merged' = DOMAIN merged /\ merged'[PathOf(f)] = whole
      /\ \A path \in DOMAIN merged : path # PathOf(f) => merged'[path] = merged[path]
  <2> DEFINE here == PathOf(f)
  <2>0. /\ merged' = [merged EXCEPT ![here].whole = TRUE] /\ here \in DOMAIN merged
    BY <1>1, <1>2
  <2> HIDE DEF here
  <2>3. /\ DOMAIN merged' = DOMAIN merged
        /\ merged'[here] = [merged[here] EXCEPT !.whole = TRUE]
        /\ \A path \in DOMAIN merged : path # here => merged'[path] = merged[path]
    BY <2>0, Zenon
  <2>1. /\ DOMAIN merged' = DOMAIN merged
        /\ merged'[PathOf(f)] = [merged[PathOf(f)] EXCEPT !.whole = TRUE]
        /\ \A path \in DOMAIN merged : path # PathOf(f) => merged'[path] = merged[path]
    BY <2>3 DEF here
  <2> DEFINE torn == [file |-> f, whole |-> FALSE]
  <2>4. torn \in [file : {f}, whole : BOOLEAN]
    OBVIOUS
  <2> DEFINE mended == [torn EXCEPT !.whole = TRUE]
  <2>5. mended \in [file : {f}, whole : BOOLEAN] /\ mended.whole = TRUE
    BY <2>4
  <2>6. mended = [file |-> mended.file, whole |-> mended.whole] /\ mended.file = f
    <3> HIDE DEF mended
    <3> QED
      BY <2>5
  <2>2. [torn EXCEPT !.whole = TRUE] = whole
    BY <2>5, <2>6
  <2> QED
    BY <1>2, <2>1, <2>2
<1>4. merge'.at = "open" /\ merge'.todo = merge.todo \ {f} /\ merge'.done = merge.done
  BY <1>1 DEF MergeOK
<1>5. release \in Releases /\ f \in ToCopy(release) /\ merges.of = release
  BY <1>1 DEF MergeOK, HistoryOK
<1>6. FilesOK'
  <2>2. ASSUME NEW path \in DOMAIN merged'
        PROVE  /\ PathOf(merged'[path].file) = path
               /\ merged'[path] = [file |-> merged'[path].file, whole |-> merged'[path].whole]
               /\ \E rel \in Releases : merged'[path].file \in ToCopy(rel)
    <3>1. CASE path = PathOf(f)
      BY <1>3, <1>5, <3>1
    <3>2. CASE path # PathOf(f)
      BY <1>3, <3>2 DEF FilesOK
    <3> QED
      BY <3>1, <3>2
  <2> QED
    BY <1>3, <2>2 DEF FilesOK, PathOf
<1>7. MergeOK'
  <2>1. AllCopied(release, merge.todo)'
    <3> SUFFICES ASSUME NEW g \in ToCopy(release), g \notin merge.todo \/ g = f
                 PROVE  IsCopied(g)'
      BY <1>1, <1>4 DEF AllCopied
    <3>1. CASE g = f
      BY <1>2, <1>3, <3>1 DEF IsCopied, PathOf
    <3>2. CASE g # f
      <4>1. IsCopied(g)
        BY <1>1, <3>2 DEF MergeOK, AllCopied
      <4>2. PathOf(g) # PathOf(f)
        BY <1>5, <3>2, ToCopyIs
      <4> QED
        BY <1>3, <4>1, <4>2 DEF IsCopied, PathOf
    <3> QED
      BY <3>1, <3>2
  <2>2. merge' = [at |-> merge'.at, todo |-> merge'.todo, done |-> merge'.done]
    BY <1>1 DEF MergeOK
  <2> QED
    BY <1>1, <1>4, <2>1, <2>2 DEF MergeOK
<1>8. HistoryOK'
  <2>1. merges.alike => \A path \in DOMAIN merged' : merged'[path].file \in ToCopy(merges.of)
    BY <1>3, <1>5 DEF HistoryOK
  <2> QED
    BY <1>1, <1>5, <2>1 DEF HistoryOK
<1> QED
  BY <1>6, <1>7, <1>8

LEMMA MergeNextInv == MergeInv /\ [MergeNext]_mergeVars => MergeInv'
<1> SUFFICES ASSUME MergeInv, [MergeNext]_mergeVars PROVE MergeInv'
  OBVIOUS
<1> USE DEF MergeInv
<1>1. CASE WriteManifest \/ DieMerging
  <2>1. /\ merged' = merged /\ merges' = merges /\ release' = release
        /\ merge'.at = "rest" /\ merge' = [at |-> merge'.at, todo |-> merge'.todo, done |-> merge'.done]
    BY <1>1 DEF WriteManifest, DieMerging, NoMerge
  <2>2. merge'.done => merge.at = "open" /\ merge.todo = {}
    BY <1>1 DEF WriteManifest, DieMerging, NoMerge
  <2>3. merge'.done => merges.of \in Releases /\ AllCopied(merges.of, {})
    BY <2>2 DEF MergeOK, HistoryOK
  <2>4. AllCopied(merges.of, {})' <=> AllCopied(merges.of, {})
    BY <2>1 DEF AllCopied, IsCopied
  <2> QED
    BY <2>1, <2>3, <2>4 DEF FilesOK, MergeOK, HistoryOK
<1>2. CASE Replace
  <2>1. /\ merged' = merged /\ merges' = merges /\ release' \in Releases /\ merge' = merge
        /\ merge.at = "rest"
    BY <1>2 DEF Replace
  <2>2. AllCopied(merges.of, {})' <=> AllCopied(merges.of, {})
    BY <2>1 DEF AllCopied, IsCopied
  <2> QED
    BY <2>1, <2>2 DEF FilesOK, MergeOK, HistoryOK
<1>3. CASE UNCHANGED mergeVars
  <2>1. merged' = merged /\ merges' = merges /\ release' = release /\ merge' = merge
    BY <1>3 DEF mergeVars
  <2> QED
    BY <2>1 DEF FilesOK, MergeOK, HistoryOK, AllCopied, IsCopied, IsNext, PathOf
<1> QED
  BY <1>1, <1>2, <1>3, StartMergeKeeps, OpenCopyKeeps, CloseCopyKeeps DEF MergeNext

-----------------------------------------------------------------------------
(* What a run leaves.                                                      *)

LEMMA MergedIsSized ==
    ASSUME MergeInv
    PROVE  /\ Sized(MergedFiles)
           /\ \A f \in MergedFiles : \E rel \in Releases : f \in ToCopy(rel)
<1> DEFINE of == [path \in DOMAIN merged |-> merged[path].file]
<1>1. of \in Surjection(DOMAIN merged, MergedFiles)
  BY DEF Surjection, MergedFiles
<1>2. IsFiniteSet(MergedFiles)
  <2> HIDE DEF of
  <2> QED
    BY <1>1, FS_Surjection DEF MergeInv, FilesOK
<1>3. \A f \in MergedFiles : \E rel \in Releases : f \in ToCopy(rel)
  BY DEF MergedFiles, MergeInv, FilesOK
<1>4. \A f \in MergedFiles : f.bytes \in Nat
  BY <1>3, ToCopyIs
<1> QED
  BY <1>2, <1>3, <1>4 DEF Sized

LEMMA MergeImplies == MergeInv => MergeLosesNothing
<1> SUFFICES ASSUME MergeInv, merge.done PROVE MergeLosesNothing
  BY DEF MergeLosesNothing
<1> DEFINE rel == merges.of
           There(w) == {f \in MergedFiles : f.work = w}
<1>1. rel \in Releases /\ AllCopied(rel, {})
  BY DEF MergeInv, MergeOK
<1> HIDE DEF rel
<1>2. \A w \in Works(rel) : \A f \in WinningFiles(rel, w) :
         /\ PathOf(f) \in DOMAIN merged /\ merged[PathOf(f)] = [file |-> f, whole |-> TRUE]
         /\ f \in MergedFiles /\ f.work = w
  <2> SUFFICES ASSUME NEW w \in Works(rel), NEW f \in WinningFiles(rel, w)
               PROVE  /\ IsCopied(f) /\ f \in MergedFiles /\ f.work = w
    BY DEF IsCopied
  <2>1. f \in ToCopy(rel) /\ f.work = w
    BY <1>1, ToCopyIs
  <2>2. IsCopied(f)
    BY <1>1, <2>1 DEF AllCopied
  <2>3. f = merged[PathOf(f)].file
    BY <2>2 DEF IsCopied
  <2> QED
    BY <2>1, <2>2, <2>3 DEF IsCopied, MergedFiles
<1>3. ASSUME NEW w \in Works(rel), NEW s \in Source
      PROVE  TotalBytes(There(w)) >= TotalBytes(WorkFiles(rel, s, w))
  <2> DEFINE there == There(w)
  <2>1. Sized(there)
    <3>1. there \in SUBSET MergedFiles
      OBVIOUS
    <3> QED
      BY <3>1, MergedIsSized, SizedPart
  <2>2. WinningFiles(rel, w) \in SUBSET there
    BY <1>2
  <2> HIDE DEF there
  <2>3. TotalBytes(WinningFiles(rel, w)) <= TotalBytes(there) /\ TotalBytes(there) \in Nat
    BY <2>1, <2>2, TotalGrows
  <2>4. TotalBytes(WorkFiles(rel, s, w)) <= TotalBytes(WinningFiles(rel, w))
    BY <1>1, WinnerIs
  <2>5. TotalBytes(WorkFiles(rel, s, w)) \in Nat /\ TotalBytes(WinningFiles(rel, w)) \in Nat
    <3>1. WinningFiles(rel, w) \in SUBSET there
      BY <2>2
    <3>2. Sized(WinningFiles(rel, w))
      BY <2>1, <3>1, SizedPart
    <3> QED
      BY <1>1, <3>2, FilesOf, TotalGrows
  <2>6. TotalBytes(there) >= TotalBytes(WorkFiles(rel, s, w))
    BY <2>3, <2>4, <2>5
  <2> QED
    BY <2>6 DEF there
<1>4. ASSUME merges.alike
      PROVE  /\ {f.work : f \in MergedFiles} = Works(rel)
             /\ \A w \in Works(rel) : There(w) = WinningFiles(rel, w)
  <2>1. MergedFiles \subseteq ToCopy(rel)
    <3>1. \A path \in DOMAIN merged : merged[path].file \in ToCopy(rel)
      BY <1>4 DEF MergeInv, HistoryOK, rel
    <3> QED
      BY <3>1 DEF MergedFiles
  <2>2. ASSUME NEW w \in Works(rel) PROVE \E f \in MergedFiles : f.work = w
    <3>1. PICK f \in WinningFiles(rel, w) : TRUE
      BY <1>1, WinnerIs
    <3> QED
      BY <1>2, <3>1
  <2>3. {f.work : f \in MergedFiles} = Works(rel)
    BY <1>1, <2>1, <2>2, ToCopyIs
  <2>4. ASSUME NEW w \in Works(rel) PROVE There(w) = WinningFiles(rel, w)
    <3>1. \A f \in MergedFiles : f.work = w => f \in WinningFiles(rel, w)
      BY <1>1, <2>1, ToCopyIs
    <3> QED
      BY <1>2, <3>1
  <2> QED
    BY <2>3, <2>4
<1>5. ASSUME beside = {}
      PROVE  Scan(OutRoot) = [distribution |-> "xml-merged", files |-> MergedFiles]
  <2>1. OutRoot = [name |-> "out", loose |-> {}, dirs |-> [d \in {"xml-merged"} |-> MergedFiles]]
    BY <1>5 DEF OutRoot
  <2> DEFINE nested == {k \in DOMAIN Distributions : Distributions[k] \in DOMAIN OutRoot.dirs}
  <2>2. nested = {4} /\ Distributions[4] = "xml-merged"
    BY <2>1 DEF Distributions
  <2>3. Min(nested) = 4
    BY <2>2 DEF Min
  <2> HIDE DEF nested
  <2>4. /\ OutRoot.dirs["xml-merged"] = MergedFiles
        /\ nested # {} /\ Distributions[Min(nested)] = "xml-merged"
    BY <2>1, <2>2, <2>3
  <2> QED
    BY <2>4, Zenon DEF Scan, nested
<1>6. ASSUME NEW w \in Works(rel)
      PROVE  \E s \in Source :
                /\ WorkFiles(rel, s, w) # {}
                /\ \A f \in WorkFiles(rel, s, w) :
                      PathOf(f) \in DOMAIN merged /\ merged[PathOf(f)] = [file |-> f, whole |-> TRUE]
                /\ merges.alike => There(w) = WorkFiles(rel, s, w)
  <2>1. /\ Winner(rel, w) \in Source /\ WinningFiles(rel, w) # {}
        /\ WinningFiles(rel, w) = WorkFiles(rel, Winner(rel, w), w)
    BY <1>1, WinnerIs DEF WinningFiles
  <2> QED
    BY <1>2, <1>4, <2>1
<1>7. \A s \in {"github", "iso"} : s \in Source
  BY DEF Source
<1> QED
  BY <1>3, <1>4, <1>5, <1>6, <1>7 DEF MergeLosesNothing, rel

\* The invariant of the runs of `merge-cbeta`.
THEOREM MergeInvariant == MergeInit /\ [][MergeNext]_mergeVars => []MergeInv
  BY MergeInitInv, MergeNextInv, PTL

\* A merge that ends has every work whole, of one of its sources, and no less of it than GitHub or
\* the ISO; where all merges had the same distributions no work is mixed of two and nothing else
\* lies there; and `ingest cbeta` finds it under its name.  For any finite distributions, deaths
\* and later merges.
THEOREM MergeLosesNothingHolds ==
    MergeInit /\ [][MergeNext]_mergeVars => []MergeLosesNothing
  BY MergeInitInv, MergeNextInv, MergeImplies, PTL

=============================================================================
