--------------------------- MODULE TfidfBuild_proofs ---------------------------
(***************************************************************************)
(* Proofs about TfidfBuild: TfidfInv is an invariant of the build, and it  *)
(* implies TfidfIsExact.                                                   *)
(***************************************************************************)
EXTENDS TfidfBuild, FiniteSetTheorems, WellFoundedInduction, TLAPS

-----------------------------------------------------------------------------
(* Sums.                                                                   *)

LEMMA NoLeast ==
    ASSUME NEW Bad \in SUBSET Nat, \A n \in Bad : \E m \in Bad : m < n
    PROVE  Bad = {}
<1> SUFFICES ASSUME Bad # {} PROVE FALSE
  OBVIOUS
<1>1. PICK n \in Bad : \A m \in Bad : ~ (<<m, n>> \in OpToRel(<, Nat))
  BY NatLessThanWellFounded, WFMin
<1>2. PICK m \in Bad : m < n
  OBVIOUS
<1> QED
  BY <1>1, <1>2 DEF OpToRel

One(s) == CHOOSE x \in s : TRUE
Sum(w, S) == CHOOSE iter : iter = [s \in SUBSET S |->
              IF s = {} THEN 0 ELSE w[One(s)] + iter[s \ {One(s)}]]

Total(w, S) == SumFunctionOnSet(w, S)

LEMMA TotalIsSum ==
    ASSUME NEW w, NEW S PROVE Total(w, S) = Sum(w, S)[S]
  BY Zenon DEF Total, SumFunctionOnSet, FoldFunctionOnSet, MapThenFoldSet, Sum, One

LEMMA OneOf ==
    ASSUME NEW s, IsFiniteSet(s), s # {}
    PROVE  /\ One(s) \in s /\ IsFiniteSet(s \ {One(s)})
           /\ Cardinality(s) \in Nat /\ Cardinality(s) > 0
           /\ Cardinality(s \ {One(s)}) = Cardinality(s) - 1
<1>1. One(s) \in s
  BY DEF One
<1> QED
  BY <1>1, FS_RemoveElement, FS_CardinalityType, FS_EmptySet

\* The sum of the sets of at most n members of S.
SumUpto(w, S, n, g) ==
    g = [s \in {t \in SUBSET S : Cardinality(t) <= n} |->
            IF s = {} THEN 0 ELSE w[One(s)] + g[s \ {One(s)}]]

LEMMA SumThere ==
    ASSUME NEW w, NEW S, IsFiniteSet(S)
    PROVE  \A n \in Nat : \E g : SumUpto(w, S, n, g)
<1> DEFINE Bad == {n \in Nat : ~ \E g : SumUpto(w, S, n, g)}
           Upto(n) == {t \in SUBSET S : Cardinality(t) <= n}
<1>0. \A s \in SUBSET S : IsFiniteSet(s) /\ Cardinality(s) \in Nat
  BY FS_Subset, FS_CardinalityType
<1>1. ASSUME 0 \in Bad PROVE FALSE
  <2> DEFINE g == [s \in Upto(0) |-> 0]
  <2>1. \A s \in Upto(0) : s = {}
    BY <1>0, FS_EmptySet
  <2>2. g = [s \in Upto(0) |-> IF s = {} THEN 0 ELSE w[One(s)] + g[s \ {One(s)}]]
    BY <2>1
  <2> QED
    BY <1>1, <2>2 DEF SumUpto
<1>2. ASSUME NEW n \in Nat, NEW g, SumUpto(w, S, n, g)
      PROVE  \E h : SumUpto(w, S, n + 1, h)
  <2> DEFINE h == [s \in Upto(n + 1) |->
                     IF s = {} THEN 0 ELSE w[One(s)] + g[s \ {One(s)}]]
  <2>1. Upto(n) \subseteq Upto(n + 1)
    BY <1>0
  <2>2. \A s \in Upto(n) : h[s] = g[s]
    BY <1>2, <2>1 DEF SumUpto
  <2>3. \A s \in Upto(n + 1) : s # {} => s \ {One(s)} \in Upto(n)
    <3> SUFFICES ASSUME NEW s \in Upto(n + 1), s # {} PROVE s \ {One(s)} \in Upto(n)
      OBVIOUS
    <3>1. Cardinality(s \ {One(s)}) = Cardinality(s) - 1 /\ Cardinality(s) \in Nat
      BY <1>0, OneOf
    <3> QED
      BY <3>1
  <2>4. ASSUME NEW s \in Upto(n + 1)
        PROVE  h[s] = IF s = {} THEN 0 ELSE w[One(s)] + h[s \ {One(s)}]
    <3>1. CASE s = {}
      BY <3>1
    <3>2. CASE s # {}
      <4>1. h[s \ {One(s)}] = g[s \ {One(s)}]
        BY <2>2, <2>3, <3>2
      <4> HIDE DEF Upto
      <4> QED
        BY <3>2, <4>1
    <3> QED
      BY <3>1, <3>2
  <2>5. h = [s \in Upto(n + 1) |-> h[s]]
    OBVIOUS
  <2> HIDE DEF h
  <2>6. h = [s \in Upto(n + 1) |-> IF s = {} THEN 0 ELSE w[One(s)] + h[s \ {One(s)}]]
    BY <2>4, <2>5
  <2> QED
    BY <2>6 DEF SumUpto
<1>3. \A n \in Bad : \E m \in Bad : m < n
  <2> SUFFICES ASSUME NEW n \in Bad PROVE \E m \in Bad : m < n
    OBVIOUS
  <2>1. n \in Nat /\ n # 0
    BY <1>1
  <2>2. n - 1 \in Nat /\ n - 1 < n /\ (n - 1) + 1 = n
    BY <2>1
  <2>3. n - 1 \in Bad
    BY <1>2, <2>2
  <2> QED
    BY <2>2, <2>3
<1>4. Bad = {}
  <2> HIDE DEF Bad
  <2>1. Bad \in SUBSET Nat
    BY DEF Bad
  <2> QED
    BY <1>3, <2>1, NoLeast
<1> QED
  BY <1>4

LEMMA SumIs ==
    ASSUME NEW w, NEW S, IsFiniteSet(S), NEW s \in SUBSET S
    PROVE  Sum(w, S)[s] = IF s = {} THEN 0 ELSE w[One(s)] + Sum(w, S)[s \ {One(s)}]
<1> DEFINE n == Cardinality(S)
           of(f) == [t \in SUBSET S |-> IF t = {} THEN 0 ELSE w[One(t)] + f[t \ {One(t)}]]
<1>1. n \in Nat /\ {t \in SUBSET S : Cardinality(t) <= n} = SUBSET S
  BY FS_CardinalityType, FS_Subset
<1>2. PICK g : SumUpto(w, S, n, g)
  BY <1>1, SumThere
<1>3. g = of(g)
  BY <1>1, <1>2 DEF SumUpto
<1>4. Sum(w, S) = of(Sum(w, S))
  BY <1>3, Zenon DEF Sum
<1>5. \A f : of(f)[s] = IF s = {} THEN 0 ELSE w[One(s)] + f[s \ {One(s)}]
  OBVIOUS
<1> HIDE DEF of
<1> QED
  BY <1>4, <1>5

\* It does not matter of which set they are taken.
LEMMA SumOfPart ==
    ASSUME NEW w, NEW S, IsFiniteSet(S), NEW A \in SUBSET S
    PROVE  \A s \in SUBSET A : Sum(w, A)[s] = Sum(w, S)[s]
<1> DEFINE Bad == {n \in Nat : \E s \in SUBSET A : Cardinality(s) = n /\ Sum(w, A)[s] # Sum(w, S)[s]}
<1>0. IsFiniteSet(A) /\ \A s \in SUBSET A : IsFiniteSet(s) /\ Cardinality(s) \in Nat
  BY FS_Subset, FS_CardinalityType
<1>1. ASSUME NEW s \in SUBSET A
      PROVE  /\ Sum(w, A)[s] = IF s = {} THEN 0 ELSE w[One(s)] + Sum(w, A)[s \ {One(s)}]
             /\ Sum(w, S)[s] = IF s = {} THEN 0 ELSE w[One(s)] + Sum(w, S)[s \ {One(s)}]
  <2>1. s \in SUBSET S
    OBVIOUS
  <2> QED
    BY <1>0, <2>1, SumIs
<1>2. ASSUME NEW n \in Bad PROVE \E m \in Bad : m < n
  <2>1. PICK s \in SUBSET A : Cardinality(s) = n /\ Sum(w, A)[s] # Sum(w, S)[s]
    BY <1>2
  <2>2. s # {}
    BY <1>1, <2>1
  <2> DEFINE t == s \ {One(s)}
  <2>3. t \in SUBSET A /\ Sum(w, A)[t] # Sum(w, S)[t]
    BY <1>1, <2>1, <2>2
  <2>4. Cardinality(t) = n - 1 /\ n > 0 /\ n \in Nat
    BY <1>0, <2>1, <2>2, OneOf
  <2>5. n - 1 \in Nat /\ n - 1 < n
    BY <2>4
  <2> QED
    BY <2>3, <2>4, <2>5
<1>3. Bad = {}
  <2>1. Bad \in SUBSET Nat
    OBVIOUS
  <2>2. \A n \in Bad : \E m \in Bad : m < n
    BY <1>2
  <2> HIDE DEF Bad
  <2> QED
    BY <2>1, <2>2, NoLeast
<1> QED
  BY <1>0, <1>3

LEMMA TotalOf ==
    ASSUME NEW w
    PROVE  /\ Total(w, {}) = 0
           /\ \A s : IsFiniteSet(s) /\ s # {} =>
                     Total(w, s) = w[One(s)] + Total(w, s \ {One(s)})
<1>1. ASSUME NEW s, IsFiniteSet(s)
      PROVE  Sum(w, s)[s] = IF s = {} THEN 0 ELSE w[One(s)] + Sum(w, s)[s \ {One(s)}]
  BY <1>1, SumIs
<1>2. Total(w, {}) = 0
  BY <1>1, TotalIsSum, FS_EmptySet
<1>3. ASSUME NEW s, IsFiniteSet(s), s # {}
      PROVE  Total(w, s) = w[One(s)] + Total(w, s \ {One(s)})
  <2> DEFINE t == s \ {One(s)}
  <2>1. Sum(w, t)[t] = Sum(w, s)[t]
    BY <1>3, SumOfPart
  <2> QED
    BY <1>1, <1>3, <2>1, TotalIsSum
<1> QED
  BY <1>2, <1>3

Sized(w, s) == IsFiniteSet(s) /\ \A x \in s : w[x] \in Nat

LEMMA SizedPart ==
    ASSUME NEW w, NEW s, Sized(w, s), NEW t \in SUBSET s
    PROVE  Sized(w, t) /\ Cardinality(t) \in Nat /\ Cardinality(t) <= Cardinality(s)
  BY FS_Subset, FS_CardinalityType DEF Sized

\* One more adds its weight.
LEMMA TotalAdds ==
    ASSUME NEW w
    PROVE  \A s, y : Sized(w, s \cup {y}) /\ y \notin s =>
               Total(w, s) \in Nat /\ Total(w, s \cup {y}) = w[y] + Total(w, s)
<1> DEFINE Adds(s, y) == Total(w, s) \in Nat /\ Total(w, s \cup {y}) = w[y] + Total(w, s)
           Fails(s, y) == Sized(w, s \cup {y}) /\ y \notin s /\ ~ Adds(s, y)
           Bad == {n \in Nat : \E s, y : Cardinality(s) = n /\ Fails(s, y)}
<1>1. ASSUME NEW s, NEW y, Fails(s, y), \A t, z : Fails(t, z) => ~ (Cardinality(t) < Cardinality(s))
      PROVE  FALSE
  <2> DEFINE u == s \cup {y}
             x == One(u)
  <2>0. /\ Sized(w, u) /\ y \notin s /\ IsFiniteSet(u) /\ u # {} /\ w[y] \in Nat
        /\ Sized(w, s) /\ IsFiniteSet(s)
    BY <1>1, SizedPart DEF Sized
  <2>1. x \in u /\ Total(w, u) = w[x] + Total(w, u \ {x}) /\ w[x] \in Nat
    BY <2>0, OneOf, TotalOf DEF Sized
  <2>2. Total(w, s) \in Nat
    <3>1. CASE s = {}
      BY <3>1, TotalOf
    <3>2. CASE s # {}
      <4> DEFINE t == s \ {One(s)}
      <4>1. /\ One(s) \in s /\ Cardinality(t) < Cardinality(s)
            /\ Total(w, s) = w[One(s)] + Total(w, t)
        <5>1. Cardinality(t) = Cardinality(s) - 1 /\ Cardinality(s) \in Nat /\ One(s) \in s
          BY <2>0, <3>2, OneOf
        <5>2. Total(w, s) = w[One(s)] + Total(w, t)
          BY <2>0, <3>2, TotalOf
        <5> QED
          BY <5>1, <5>2
      <4>2. t \cup {One(s)} = s /\ One(s) \notin t /\ w[One(s)] \in Nat
        BY <2>0, <4>1 DEF Sized
      <4>3. Adds(t, One(s))
        BY <1>1, <2>0, <4>1, <4>2
      <4> QED
        BY <4>1, <4>2, <4>3
    <3> QED
      BY <3>1, <3>2
  <2>3. CASE x = y
    <3>1. u \ {x} = s
      BY <2>0, <2>3
    <3> QED
      BY <1>1, <2>1, <2>2, <2>3, <3>1
  <2>4. CASE x # y
    <3> DEFINE t == s \ {x}
    <3>1. x \in s /\ u \ {x} = t \cup {y} /\ s = t \cup {x} /\ x \notin t /\ y \notin t
      BY <2>0, <2>1, <2>4
    <3>2. Cardinality(t) < Cardinality(s)
      <4>1. Cardinality(s \ {x}) = Cardinality(s) - 1 /\ Cardinality(s) \in Nat
        <5> HIDE DEF x
        <5> QED
          BY <2>0, <3>1, FS_RemoveElement, FS_CardinalityType
      <4> QED
        BY <4>1
    <3>3. Sized(w, t \cup {x}) /\ Sized(w, t \cup {y})
      <4>1. t \cup {x} \in SUBSET u /\ t \cup {y} \in SUBSET u
        BY <3>1
      <4> QED
        BY <2>0, <4>1, SizedPart
    <3>4. Adds(t, x) /\ Adds(t, y)
      BY <1>1, <3>1, <3>2, <3>3
    <3>5. Total(w, u) = w[x] + (w[y] + Total(w, t))
      BY <2>1, <3>1, <3>4
    <3>6. Total(w, s) = w[x] + Total(w, t)
      BY <3>1, <3>4
    <3>7. Total(w, u) = w[y] + Total(w, s)
      BY <2>0, <2>1, <3>4, <3>5, <3>6
    <3> QED
      BY <1>1, <2>2, <3>7
  <2> QED
    BY <2>3, <2>4
<1>2. ASSUME NEW n \in Bad PROVE \E m \in Bad : m < n
  <2>1. PICK s, y : Cardinality(s) = n /\ Fails(s, y)
    BY <1>2
  <2>2. PICK t, z : Fails(t, z) /\ Cardinality(t) < Cardinality(s)
    BY <1>1, <2>1
  <2>3. Cardinality(t) \in Nat
    <3>1. t \in SUBSET (t \cup {z}) /\ Sized(w, t \cup {z})
      BY <2>2
    <3> QED
      BY <3>1, SizedPart
  <2> QED
    BY <2>1, <2>2, <2>3
<1>3. Bad = {}
  <2>1. Bad \in SUBSET Nat
    OBVIOUS
  <2>2. \A n \in Bad : \E m \in Bad : m < n
    BY <1>2
  <2> HIDE DEF Bad
  <2> QED
    BY <2>1, <2>2, NoLeast
<1>4. ASSUME NEW s, NEW y, Fails(s, y) PROVE FALSE
  <2>1. Cardinality(s) \in Nat
    <3>1. s \in SUBSET (s \cup {y}) /\ Sized(w, s \cup {y})
      BY <1>4
    <3> QED
      BY <3>1, SizedPart
  <2> QED
    BY <1>3, <1>4, <2>1
<1> QED
  BY <1>4

\* More weigh no less.
LEMMA TotalGrows ==
    ASSUME NEW w
    PROVE  \A s : Sized(w, s) => /\ Total(w, s) \in Nat
                                 /\ \A t \in SUBSET s : Total(w, t) <= Total(w, s)
<1> DEFINE Grows(s) == /\ Total(w, s) \in Nat
                       /\ \A t \in SUBSET s : Total(w, t) \in Nat /\ Total(w, t) <= Total(w, s)
           Bad == {n \in Nat : \E s : Sized(w, s) /\ Cardinality(s) = n /\ ~ Grows(s)}
<1>1. ASSUME NEW s, Sized(w, s), \A t : Sized(w, t) /\ Cardinality(t) < Cardinality(s) => Grows(t)
      PROVE  Grows(s)
  <2>1. CASE s = {}
    BY <2>1, TotalOf
  <2>2. CASE s # {}
    <3> DEFINE x == One(s)
               u == s \ {x}
    <3>0. /\ x \in s /\ Cardinality(s) \in Nat
          /\ Cardinality(u) = Cardinality(s) - 1
      BY <1>1, <2>2, OneOf DEF Sized
    <3>1. x \in s /\ Cardinality(u) < Cardinality(s) /\ s = u \cup {x} /\ x \notin u
      <4> HIDE DEF x
      <4> QED
        BY <3>0
    <3>2. Sized(w, u) /\ Sized(w, u \cup {x}) /\ w[x] \in Nat
      BY <1>1, <3>1, SizedPart DEF Sized
    <3>3. Grows(u)
      BY <1>1, <3>1, <3>2
    <3>4. Total(w, s) = w[x] + Total(w, u)
      BY <3>1, <3>2, TotalAdds
    <3>5. ASSUME NEW t \in SUBSET s
          PROVE  Total(w, t) \in Nat /\ Total(w, t) <= Total(w, s)
      <4>1. CASE x \notin t
        <5>1. t \in SUBSET u
          BY <3>1, <4>1
        <5> QED
          <6>1. Total(w, t) <= Total(w, u) /\ Total(w, t) \in Nat /\ Total(w, u) \in Nat
            BY <3>3, <5>1
          <6> QED
            BY <3>2, <3>4, <6>1
      <4>2. CASE x \in t
        <5> DEFINE v == t \ {x}
        <5>1. v \in SUBSET u /\ v \cup {x} = t /\ x \notin v
          BY <3>1, <4>2
        <5>2. Sized(w, t)
          BY <1>1, SizedPart
        <5>3. Total(w, t) = w[x] + Total(w, v)
          BY <5>1, <5>2, TotalAdds
        <5>4. Total(w, v) \in Nat /\ Total(w, v) <= Total(w, u)
          BY <3>3, <5>1
        <5> QED
          BY <3>2, <3>3, <3>4, <5>3, <5>4
      <4> QED
        BY <4>1, <4>2
    <3>6. Total(w, s) \in Nat
      BY <3>2, <3>3, <3>4
    <3> QED
      BY <3>5, <3>6
  <2> QED
    BY <2>1, <2>2
<1>2. ASSUME NEW n \in Bad PROVE \E m \in Bad : m < n
  <2>1. PICK s : Sized(w, s) /\ Cardinality(s) = n /\ ~ Grows(s)
    BY <1>2
  <2>2. PICK t : Sized(w, t) /\ Cardinality(t) < Cardinality(s) /\ ~ Grows(t)
    BY <1>1, <2>1
  <2>3. Cardinality(t) \in Nat
    BY <2>2, FS_CardinalityType DEF Sized
  <2> QED
    BY <2>1, <2>2, <2>3
<1>3. Bad = {}
  <2>1. Bad \in SUBSET Nat
    OBVIOUS
  <2>2. \A n \in Bad : \E m \in Bad : m < n
    BY <1>2
  <2> HIDE DEF Bad
  <2> QED
    BY <2>1, <2>2, NoLeast
<1>4. ASSUME NEW s, Sized(w, s) PROVE Grows(s)
  <2>1. Cardinality(s) \in Nat
    BY <1>4, FS_CardinalityType DEF Sized
  <2> QED
    BY <1>3, <1>4, <2>1
<1> QED
  BY <1>4

LEMMA TotalOne ==
    ASSUME NEW w, NEW S, Sized(w, S), NEW x \in S
    PROVE  /\ Total(w, S) = w[x] + Total(w, S \ {x}) /\ w[x] \in Nat
           /\ Total(w, S) \in Nat /\ Total(w, S \ {x}) \in Nat
           /\ Sized(w, S \ {x}) /\ Cardinality(S \ {x}) < Cardinality(S)
<1> DEFINE T == S \ {x}
<1>1. T \in SUBSET S /\ T \cup {x} = S /\ x \notin T /\ w[x] \in Nat
  BY DEF Sized
<1>2. Sized(w, T)
  BY <1>1, SizedPart
<1>3. Cardinality(T) = Cardinality(S) - 1 /\ Cardinality(S) \in Nat
  BY FS_RemoveElement, FS_CardinalityType DEF Sized
<1> HIDE DEF T
<1>4. Total(w, T) \in Nat /\ Total(w, T \cup {x}) = w[x] + Total(w, T)
  BY <1>1, TotalAdds
<1>5. Total(w, S) = w[x] + Total(w, T) /\ Total(w, S) \in Nat
  BY <1>1, <1>4
<1> QED
  BY <1>1, <1>2, <1>3, <1>4, <1>5 DEF T

\* What two weigh alike they sum alike.
LEMMA TotalSame ==
    ASSUME NEW w, NEW v
    PROVE  \A S : Sized(w, S) /\ (\A x \in S : w[x] = v[x]) => Total(w, S) = Total(v, S)
<1> DEFINE Alike(S) == Sized(w, S) /\ \A x \in S : w[x] = v[x]
           Bad == {n \in Nat : \E S : Alike(S) /\ Cardinality(S) = n /\ Total(w, S) # Total(v, S)}
<1>1. ASSUME NEW n \in Bad PROVE \E m \in Bad : m < n
  <2>1. PICK S : Alike(S) /\ Cardinality(S) = n /\ Total(w, S) # Total(v, S)
    BY <1>1
  <2>2. S # {}
    BY <2>1, TotalOf
  <2>3. PICK x \in S : TRUE
    BY <2>2
  <2> DEFINE T == S \ {x}
  <2>4. /\ Total(w, S) = w[x] + Total(w, T) /\ Alike(T) /\ Cardinality(T) < n
    BY <2>1, TotalOne
  <2>5. Sized(v, S)
    BY <2>1 DEF Sized
  <2>6. Total(v, S) = w[x] + Total(v, T)
    BY <2>1, <2>5, TotalOne
  <2>7. Total(w, T) # Total(v, T)
    BY <2>1, <2>4, <2>6
  <2>8. Cardinality(T) \in Nat
    BY <2>4, FS_CardinalityType DEF Sized
  <2> QED
    BY <2>4, <2>7, <2>8
<1>2. Bad = {}
  <2>1. Bad \in SUBSET Nat
    OBVIOUS
  <2>2. \A n \in Bad : \E m \in Bad : m < n
    BY <1>1
  <2> HIDE DEF Bad
  <2> QED
    BY <2>1, <2>2, NoLeast
<1>3. \A S : Alike(S) => Cardinality(S) \in Nat
  BY FS_CardinalityType DEF Sized
<1> QED
  BY <1>2, <1>3

LEMMA TotalZero ==
    ASSUME NEW w, NEW S, IsFiniteSet(S), \A x \in S : w[x] = 0
    PROVE  Total(w, S) = 0
<1> DEFINE Bad == {n \in Nat : \E T \in SUBSET S : Cardinality(T) = n /\ Total(w, T) # 0}
<1>1. ASSUME NEW n \in Bad PROVE \E m \in Bad : m < n
  <2>1. PICK T \in SUBSET S : Cardinality(T) = n /\ Total(w, T) # 0
    BY <1>1
  <2>2. Sized(w, T)
    BY FS_Subset DEF Sized
  <2>3. PICK x \in T : TRUE
    BY <2>1, TotalOf
  <2> DEFINE U == T \ {x}
  <2>4. Total(w, T) = w[x] + Total(w, U) /\ Total(w, U) \in Nat /\ Cardinality(U) < n /\ w[x] = 0
    BY <2>1, <2>2, TotalOne
  <2>5. Cardinality(U) \in Nat /\ U \in SUBSET S /\ Total(w, U) # 0
    BY <2>1, <2>4, FS_Subset, FS_CardinalityType
  <2> QED
    BY <2>4, <2>5
<1>2. Bad = {}
  <2>1. Bad \in SUBSET Nat
    OBVIOUS
  <2>2. \A n \in Bad : \E m \in Bad : m < n
    BY <1>1
  <2> HIDE DEF Bad
  <2> QED
    BY <2>1, <2>2, NoLeast
<1> QED
  BY <1>2, FS_CardinalityType

\* One weight changes.
LEMMA TotalUpdate ==
    ASSUME NEW w, NEW v, NEW S, Sized(w, S), Sized(v, S), NEW x \in S,
           \A y \in S : y # x => v[y] = w[y]
    PROVE  Total(v, S) + w[x] = Total(w, S) + v[x]
<1> DEFINE T == S \ {x}
<1>1. Total(w, S) = w[x] + Total(w, T) /\ Total(v, S) = v[x] + Total(v, T)
  BY TotalOne
<1>2. Total(w, T) = Total(v, T)
  <2>1. Sized(w, T) /\ \A y \in T : w[y] = v[y]
    BY TotalOne
  <2> QED
    BY <2>1, TotalSame
<1>3. {Total(w, T), Total(v, T), w[x], v[x]} \subseteq Nat
  BY TotalOne
<1> QED
  BY <1>1, <1>2, <1>3



-----------------------------------------------------------------------------
(* Files: what they hold of a key, in which bucket it belongs (bk).        *)

Bag(K)     == UNION {[D -> Nat \ {0}] : D \in SUBSET K}
FileOf(K)  == [records : Bag(K), torn : BOOLEAN]
FilesOf(K) == [thread : [Thread -> [Bucket -> FileOf(K)]], main : [Bucket -> FileOf(K)]]

\* What the files of the threads, but for that of `skip`, and the merged one hold of k.
InThreads(files, bk, k, skip) ==
    [t \in Thread |-> IF t = skip THEN 0 ELSE Copies(k, files.thread[t][bk[k]].records)]
InMain(files, bk, k) == Copies(k, files.main[bk[k]].records)
Stored(files, bk, k, skip) == InMain(files, bk, k) + Total(InThreads(files, bk, k, skip), Thread)

\* At least what the units counted have of each key, in exact files no more.  The file of
\* thread T in bucket B has been copied.
Ledger(files, bk, w, counted, exact, B, T) ==
    \A k \in DOMAIN bk :
        LET held == Stored(files, bk, k, IF bk[k] = B THEN T ELSE 0)
            due  == Total(w[k], counted[bk[k]])
        IN  held >= due /\ (exact => held = due)

\* The same once all is merged and all units are counted.
Merged(files, bk, w, exact) ==
    \A k \in DOMAIN bk : /\ InMain(files, bk, k) >= Total(w[k], Unit)
                         /\ exact => InMain(files, bk, k) = Total(w[k], Unit)

Untorn(files) == \A b \in Bucket : ~ files.main[b].torn /\ \A t \in Thread : ~ files.thread[t][b].torn
InPlace(files, bk) ==
    \A b \in Bucket :
        /\ \A k \in DOMAIN files.main[b].records : k \in DOMAIN bk /\ bk[k] = b
        /\ \A t \in Thread : \A k \in DOMAIN files.thread[t][b].records : k \in DOMAIN bk /\ bk[k] = b
Holds(files, Keys) ==
    \A b \in Bucket : /\ DOMAIN files.main[b].records \subseteq Keys
                      /\ \A t \in Thread : DOMAIN files.thread[t][b].records \subseteq Keys

\* The threads above n have no file, nor have those whose file has been merged.
Beyond(files, n) == \A b \in Bucket, t \in Thread : t > n => files.thread[t][b].records = EmptyBag
Emptied(files, B, T) ==
    \A b \in Bucket, t \in Thread : b < B \/ (b = B /\ t < T) => files.thread[t][b].records = EmptyBag

-----------------------------------------------------------------------------
(* The keys and what the units of a store have of them.                    *)

DfB       == [h \in Term |-> DfBucket(h)]
DfRows(s) == [h \in Term |-> [u \in Unit |-> RowsWith(s, u, h, Doc)]]

PostKeys    == {p \in Term \X Doc : p[1] \in DOMAIN work.dfs}
PostB       == [p \in PostKeys |-> PostBucket(p)]
PostRows(s) == [p \in Term \X Doc |-> [u \in Unit |-> RowsWith(s, u, p[1], {p[2]})]]
Real(s)     == {p \in Term \X Doc : \E u \in Unit : PostRows(s)[p][u] > 0}

\* A unit is counted, as far as a bucket is concerned, once it is written there.
CountedBy(pending, task) ==
    [b \in Bucket |-> {u \in Unit \ pending :
                          \A t \in Thread : u \in task[t].unit => b \notin task[t].left}]
Counted == IF At("idle") THEN [b \in Bucket |-> work.progress] ELSE CountedBy(job.pending, job.task)

ExactDf   == ~ Died({"count", "mergeDf"})
ExactPost == ~ Died({"post", "mergePost", "emit"})
Unharmed  == ~ Died({"torn", "fewer"})

Skip(stage) == IF At(stage) /\ job.copied THEN job.thread ELSE 0

-----------------------------------------------------------------------------
(* The invariant.                                                          *)

Typed ==
    /\ store \in Stores
    /\ work \in [progress : SUBSET Unit, begun : BOOLEAN, done : BOOLEAN, dfDir : BOOLEAN,
                 df : FilesOf(Term), post : FilesOf(Term \X Doc),
                 vocab : Saved, dfs : Bag(Term), idf : Saved, termid : Saved]
    /\ job \in [at : Stage, threads : Thread, pending : SUBSET Unit,
                task : [Thread -> [unit : SUBSET Unit, left : SUBSET Bucket]],
                bucket : 0 .. Buckets, thread : Thread, copied : BOOLEAN,
                rows : SUBSET Doc, posts : Bag(Term \X Doc)]
    /\ history \in [stores : SUBSET Stores, died : SUBSET (Stage \cup {"torn", "fewer"}),
                    threads : Thread \cup {0}]
    /\ deaths \in 0 .. MaxDeaths + 1 /\ changes \in 0 .. Changes

Counting == {"count", "post"}
Merging  == {"mergeDf", "mergePost"}

TasksOK ==
    /\ \A t \in Thread : \/ job.task[t] = NoTask
                         \/ /\ \E u \in Unit \ job.pending : job.task[t].unit = {u}
                            /\ t <= job.threads /\ job.at \in Counting
    /\ \A t, o \in Thread : t # o => job.task[t].unit \cap job.task[o].unit = {}
    /\ job.at \notin Counting => job.pending = {}
    /\ At("count") => work.progress = {u \in Unit \ job.pending :
                                          \A t \in Thread : u \notin job.task[t].unit}

PlaceOK ==
    /\ At("idle") => job = Idle
    /\ ~ At("idle") => /\ store \in history.stores /\ job.threads = history.threads
                       /\ deaths <= MaxDeaths
    /\ job.thread <= job.threads
    /\ job.at \notin Merging \/ job.bucket = Buckets => job.thread = 1 /\ ~ job.copied
    /\ job.at \notin Merging \cup {"emit", "publish", "published"} => job.bucket = 0
    /\ job.at \in {"publish", "published"} => job.bucket = Buckets
    /\ job.at \notin {"emit", "publish", "published"} => job.posts = EmptyBag
    /\ job.at \notin {"post", "mergePost", "emit", "publish", "published"} => job.rows = {}

StageOK ==
    /\ history.stores = {} => At("idle") /\ work = NoWork
    /\ ~ At("idle") => (work.done <=> job.at \notin {"count", "mergeDf"})
    /\ job.at \in {"count", "mergeDf", "idf", "termid", "dropDf"} => work.dfDir
    /\ At("idle") /\ ~ work.done /\ history.stores # {} => ~ ExactDf
    /\ work.done => work.progress = Unit
    /\ At("mergeDf") => work.progress = Unit
    /\ ~ work.done => work.vocab = "none"
    /\ work.vocab = "none" => work.idf = "none" /\ work.termid = "none"
    /\ At("idf") => work.vocab = "whole"
    /\ At("termid") => work.vocab = "whole" /\ work.idf = "whole"
    /\ job.at \in {"dropDf", "post", "mergePost", "emit", "publish", "published"} => Whole3
    /\ work.done /\ ~ work.dfDir => Whole3
    /\ work.vocab # "whole" \/ job.at \in {"publish", "published"} => work.post = NoFiles

TornOK ==
    /\ ~ Untorn(work.df) => "torn" \in history.died /\ ~ ExactDf
    /\ ~ Untorn(work.post) => "torn" \in history.died /\ ~ ExactPost

DfOK ==
    /\ InPlace(work.df, DfB)
    /\ (ExactDf \/ Unharmed) /\ ~ work.done =>
          /\ Beyond(work.df, history.threads)
          /\ At("mergeDf") => Emptied(work.df, job.bucket, job.thread)
          /\ \A s \in Stores : history.stores = {s} =>
                Ledger(work.df, DfB, DfRows(s), Counted, ExactDf, job.bucket, Skip("mergeDf"))
    /\ (ExactDf \/ Unharmed) /\ work.done /\ work.dfDir =>
          \A s \in Stores : history.stores = {s} => Merged(work.df, DfB, DfRows(s), ExactDf)

\* The vocabulary of the store s.
Chosen(s, dfs) ==
    LET df(h) == Total(DfRows(s)[h], Unit)
        fit   == {h \in Term : df(h) > 0 /\ df(h) \in MinDf .. MaxDf}
    IN  /\ \A h \in DOMAIN dfs : dfs[h] = df(h)
        /\ DOMAIN dfs \subseteq fit
        /\ Cardinality(DOMAIN dfs) =
              IF MaxFeatures = 0 \/ Cardinality(fit) < MaxFeatures THEN Cardinality(fit) ELSE MaxFeatures
        /\ \A h \in DOMAIN dfs, g \in fit \ DOMAIN dfs : df(g) < df(h) \/ (df(g) = df(h) /\ h < g)

VocabOK ==
    work.vocab = "whole" =>
        \A s \in Stores : history.stores = {s} =>
            /\ Unharmed => \A h \in DOMAIN work.dfs : work.dfs[h] >= Total(DfRows(s)[h], Unit)
            /\ ExactDf => Chosen(s, work.dfs)

PostOK ==
    /\ InPlace(work.post, PostB)
    /\ job.at \notin {"post", "mergePost", "emit"} /\ ExactPost => work.post = NoFiles
    /\ ExactPost \/ Unharmed =>
          /\ Beyond(work.post, history.threads)
          /\ At("mergePost") => Emptied(work.post, job.bucket, job.thread)
    /\ \A s \in Stores : history.stores = {s} =>
          /\ Holds(work.post, Real(s))
          /\ ExactPost \/ Unharmed =>
                /\ job.at \in {"post", "mergePost"} =>
                      Ledger(work.post, PostB, PostRows(s), Counted, ExactPost, job.bucket, Skip("mergePost"))
                /\ At("emit") => Merged(work.post, PostB, PostRows(s), ExactPost)

PostsOK ==
    /\ DOMAIN job.posts \subseteq PostKeys
    /\ At("emit") =>
          \A p \in PostKeys :
             Copies(p, job.posts) = IF PostB[p] < job.bucket THEN InMain(work.post, PostB, p) ELSE 0
    /\ job.at \in {"publish", "published"} =>
          \A s \in Stores : history.stores = {s} =>
             /\ DOMAIN job.posts \subseteq Real(s)
             /\ ExactPost \/ Unharmed =>
                   \A p \in PostKeys : /\ Copies(p, job.posts) >= Total(PostRows(s)[p], Unit)
                                       /\ ExactPost => Copies(p, job.posts) = Total(PostRows(s)[p], Unit)

RowsOK ==
    job.at \in {"post", "mergePost", "emit", "publish", "published"} =>
        job.rows = {d \in Doc : \E u \in Unit \ job.pending, h \in DOMAIN work.dfs :
                       RowsWith(store, u, h, {d}) > 0}

TfidfInv == /\ Typed /\ TasksOK /\ PlaceOK /\ StageOK /\ TornOK
            /\ DfOK /\ VocabOK /\ PostOK /\ PostsOK /\ RowsOK

-----------------------------------------------------------------------------
(* Bags and files.                                                         *)

LEMMA BagIs ==
    ASSUME NEW K, NEW B
    PROVE  B \in Bag(K) <=> /\ B = [k \in DOMAIN B |-> B[k]] /\ DOMAIN B \subseteq K
                            /\ \A k \in DOMAIN B : B[k] \in Nat /\ B[k] > 0
<1>1. ASSUME B \in Bag(K)
      PROVE  /\ B = [k \in DOMAIN B |-> B[k]] /\ DOMAIN B \subseteq K
             /\ \A k \in DOMAIN B : B[k] \in Nat /\ B[k] > 0
  <2>1. PICK D \in SUBSET K : B \in [D -> Nat \ {0}]
    BY <1>1 DEF Bag
  <2> QED
    BY <2>1
<1>2. ASSUME B = [k \in DOMAIN B |-> B[k]], DOMAIN B \subseteq K,
             \A k \in DOMAIN B : B[k] \in Nat /\ B[k] > 0
      PROVE  B \in Bag(K)
  <2>1. B \in [DOMAIN B -> Nat \ {0}]
    BY <1>2
  <2> QED
    BY <1>2, <2>1 DEF Bag
<1> QED
  BY <1>1, <1>2

LEMMA CopiesAre ==
    ASSUME NEW K, NEW B \in Bag(K), NEW k
    PROVE  Copies(k, B) \in Nat /\ (Copies(k, B) > 0 <=> k \in DOMAIN B)
  BY BagIs DEF Copies

LEMMA EmptyIs ==
    /\ DOMAIN EmptyBag = {} /\ \A k : Copies(k, EmptyBag) = 0
    /\ \A K : EmptyBag \in Bag(K)
<1>1. DOMAIN EmptyBag = {} /\ EmptyBag = [k \in DOMAIN EmptyBag |-> EmptyBag[k]]
  BY DEF EmptyBag, SetToBag
<1> QED
  BY <1>1, BagIs DEF Copies

\* A bag of no key is the empty one.
LEMMA NoKeys ==
    ASSUME NEW K, NEW B \in Bag(K), DOMAIN B = {} PROVE B = EmptyBag
<1>1. B = [k \in {} |-> B[k]] /\ EmptyBag = [k \in {} |-> EmptyBag[k]]
  BY BagIs, EmptyIs DEF EmptyBag, SetToBag
<1> QED
  BY <1>1

LEMMA PlusIs ==
    ASSUME NEW K, NEW A \in Bag(K), NEW B \in Bag(K)
    PROVE  /\ A (+) B \in Bag(K) /\ DOMAIN (A (+) B) = DOMAIN A \cup DOMAIN B
           /\ \A k : Copies(k, A (+) B) = Copies(k, A) + Copies(k, B)
<1> DEFINE C == [e \in DOMAIN A \cup DOMAIN B |-> (IF e \in DOMAIN A THEN A[e] ELSE 0)
                                                   + (IF e \in DOMAIN B THEN B[e] ELSE 0)]
<1>1. A (+) B = C
  BY DEF (+)
<1>2. /\ DOMAIN A \subseteq K /\ DOMAIN B \subseteq K
      /\ \A k \in DOMAIN A : A[k] \in Nat /\ A[k] > 0
      /\ \A k \in DOMAIN B : B[k] \in Nat /\ B[k] > 0
  BY BagIs
<1>3. C = [k \in DOMAIN C |-> C[k]] /\ DOMAIN C = DOMAIN A \cup DOMAIN B /\ DOMAIN C \subseteq K
  BY <1>2
<1>4. \A k \in DOMAIN C : C[k] = Copies(k, A) + Copies(k, B) /\ C[k] \in Nat /\ C[k] > 0
  BY <1>2 DEF Copies
<1> HIDE DEF C
<1>5. C \in Bag(K)
  BY <1>3, <1>4, BagIs
<1>6. ASSUME NEW k PROVE Copies(k, C) = Copies(k, A) + Copies(k, B)
  <2>1. CASE k \in DOMAIN C
    BY <1>4, <2>1 DEF Copies
  <2>2. CASE k \notin DOMAIN C
    BY <1>3, <2>2 DEF Copies
  <2> QED
    BY <2>1, <2>2
<1> QED
  BY <1>1, <1>3, <1>5, <1>6

LEMMA AppendIs ==
    ASSUME NEW K, NEW f \in FileOf(K), NEW m \in FileOf(K)
    PROVE  /\ AppendTo(f, m) \in FileOf(K)
           /\ DOMAIN AppendTo(f, m).records \subseteq DOMAIN f.records \cup DOMAIN m.records
           /\ f.torn => AppendTo(f, m) = f
           /\ ~ f.torn => /\ AppendTo(f, m).torn = m.torn
                          /\ \A k : Copies(k, AppendTo(f, m).records)
                                    = Copies(k, f.records) + Copies(k, m.records)
<1>1. f.records \in Bag(K) /\ m.records \in Bag(K) /\ m.torn \in BOOLEAN /\ f.torn \in BOOLEAN
  BY DEF FileOf
<1>2. CASE f.torn
  BY <1>2 DEF AppendTo
<1>3. CASE ~ f.torn
  <2> DEFINE g == [records |-> f.records (+) m.records, torn |-> m.torn]
  <2>1. AppendTo(f, m) = g
    BY <1>3 DEF AppendTo
  <2>2. g.records = f.records (+) m.records /\ g.torn = m.torn
    OBVIOUS
  <2>3. g \in FileOf(K)
    BY <1>1, PlusIs DEF FileOf
  <2> HIDE DEF g
  <2>4. /\ DOMAIN g.records = DOMAIN f.records \cup DOMAIN m.records
        /\ \A k : Copies(k, g.records) = Copies(k, f.records) + Copies(k, m.records)
    <3>1. ASSUME NEW A \in Bag(K), NEW B \in Bag(K)
          PROVE  /\ DOMAIN (A (+) B) = DOMAIN A \cup DOMAIN B
                 /\ \A k : Copies(k, A (+) B) = Copies(k, A) + Copies(k, B)
      BY PlusIs
    <3>2. \A A, B \in Bag(K) : /\ DOMAIN (A (+) B) = DOMAIN A \cup DOMAIN B
                               /\ \A k : Copies(k, A (+) B) = Copies(k, A) + Copies(k, B)
      BY <3>1, Zenon
    <3> QED
      BY <1>1, <2>2, <3>2, Zenon
  <2> QED
    BY <1>3, <2>1, <2>2, <2>3, <2>4
<1> QED
  BY <1>1, <1>2, <1>3

LEMMA NoFileIs == \A K : NoFile \in FileOf(K) /\ NoFile.records = EmptyBag /\ ~ NoFile.torn
  BY EmptyIs DEF NoFile, FileOf

LEMMA NoFilesAre ==
    /\ \A K : NoFiles \in FilesOf(K)
    /\ \A b \in Bucket : /\ NoFiles.main[b] = NoFile
                         /\ \A t \in Thread : NoFiles.thread[t][b] = NoFile
    /\ Untorn(NoFiles)
    /\ \A Keys : Holds(NoFiles, Keys)
    /\ \A bk : InPlace(NoFiles, bk)
    /\ \A n : Beyond(NoFiles, n)
<1>1. /\ NoFiles.main = [b \in Bucket |-> NoFile]
      /\ NoFiles.thread = [t \in Thread |-> [b \in Bucket |-> NoFile]]
  BY DEF NoFiles
<1>2. \A K : NoFiles \in FilesOf(K)
  BY NoFileIs DEF FilesOf, NoFiles
<1>3. /\ \A b \in Bucket : /\ NoFiles.main[b] = NoFile
                           /\ \A t \in Thread : NoFiles.thread[t][b] = NoFile
  BY <1>1
<1> QED
  BY <1>2, <1>3, NoFileIs, EmptyIs DEF Untorn, Holds, InPlace, Beyond

LEMMA FilesAre ==
    ASSUME NEW K, NEW files \in FilesOf(K), NEW b \in Bucket, NEW t \in Thread
    PROVE  /\ files.main[b] \in FileOf(K) /\ files.thread[t][b] \in FileOf(K)
           /\ files.main[b].records \in Bag(K) /\ files.thread[t][b].records \in Bag(K)
  BY DEF FilesOf, FileOf

\* What weighs no less in each sums to no less.
LEMMA TotalLess ==
    ASSUME NEW w, NEW v
    PROVE  \A S : Sized(w, S) /\ Sized(v, S) /\ (\A x \in S : w[x] <= v[x]) => Total(w, S) <= Total(v, S)
<1> DEFINE Less(S) == Sized(w, S) /\ Sized(v, S) /\ \A x \in S : w[x] <= v[x]
           Bad == {n \in Nat : \E S : Less(S) /\ Cardinality(S) = n /\ ~ (Total(w, S) <= Total(v, S))}
<1>1. ASSUME NEW n \in Bad PROVE \E m \in Bad : m < n
  <2>1. PICK S : Less(S) /\ Cardinality(S) = n /\ ~ (Total(w, S) <= Total(v, S))
    BY <1>1
  <2>2. S # {}
    <3>1. SUFFICES ASSUME S = {} PROVE FALSE
      OBVIOUS
    <3>2. Total(w, S) = 0 /\ Total(v, S) = 0
      BY <3>1, TotalOf
    <3> QED
      BY <2>1, <3>2
  <2>3. PICK x \in S : TRUE
    BY <2>2
  <2> DEFINE T == S \ {x}
  <2>4. /\ Total(w, S) = w[x] + Total(w, T) /\ Cardinality(T) < n /\ Sized(w, T)
        /\ w[x] \in Nat /\ Total(w, T) \in Nat
    BY <2>1, TotalOne
  <2>5. Total(v, S) = v[x] + Total(v, T) /\ Sized(v, T) /\ v[x] \in Nat /\ Total(v, T) \in Nat
    BY <2>1, TotalOne
  <2>6. Less(T) /\ w[x] <= v[x]
    BY <2>1, <2>4, <2>5
  <2>7. ~ (Total(w, T) <= Total(v, T))
    <3> HIDE DEF T
    <3> QED
      BY <2>1, <2>4, <2>5, <2>6
  <2>8. Cardinality(T) \in Nat
    BY <2>4, FS_CardinalityType DEF Sized
  <2> QED
    BY <2>4, <2>6, <2>7, <2>8
<1>2. Bad = {}
  <2>1. Bad \in SUBSET Nat
    OBVIOUS
  <2>2. \A n \in Bad : \E m \in Bad : m < n
    BY <1>1
  <2> HIDE DEF Bad
  <2> QED
    BY <2>1, <2>2, NoLeast
<1>3. \A S : Less(S) => Cardinality(S) \in Nat
  BY FS_CardinalityType DEF Sized
<1> QED
  BY <1>2, <1>3

-----------------------------------------------------------------------------
(* What is stored of a key.                                                *)

Placed(bk) == \A k \in DOMAIN bk : bk[k] \in Bucket
Weighs(w, bk) == \A k \in DOMAIN bk : \A u \in Unit : w[k][u] \in Nat

LEMMA ThreadsAre == IsFiniteSet(Thread) /\ 0 \notin Thread /\ Thread \subseteq Nat /\ 1 \in Thread
<1>1. IsFiniteSet(1 .. MaxThreads)
  BY SizeAssumption, FS_Interval
<1> QED
  BY <1>1, SizeAssumption DEF Thread

LEMMA StoredIs ==
    ASSUME NEW K, NEW files \in FilesOf(K), NEW bk, NEW k, bk[k] \in Bucket, NEW skip
    PROVE  /\ InMain(files, bk, k) \in Nat
           /\ Sized(InThreads(files, bk, k, skip), Thread)
           /\ Total(InThreads(files, bk, k, skip), Thread) \in Nat
           /\ Stored(files, bk, k, skip) \in Nat
           /\ Stored(files, bk, k, skip)
              = InMain(files, bk, k) + Total(InThreads(files, bk, k, skip), Thread)
           /\ \A t \in Thread : InThreads(files, bk, k, skip)[t]
                  = IF t = skip THEN 0 ELSE Copies(k, files.thread[t][bk[k]].records)
           /\ \A t \in Thread : Copies(k, files.thread[t][bk[k]].records) \in Nat
<1>0. /\ files.main[bk[k]].records \in Bag(K)
      /\ \A t \in Thread : files.thread[t][bk[k]].records \in Bag(K)
  BY FilesAre, ThreadsAre
<1>1. InMain(files, bk, k) \in Nat
  BY <1>0, CopiesAre DEF InMain
<1>2. \A t \in Thread : Copies(k, files.thread[t][bk[k]].records) \in Nat
  BY <1>0, CopiesAre
<1>3. \A t \in Thread : InThreads(files, bk, k, skip)[t]
                  = IF t = skip THEN 0 ELSE Copies(k, files.thread[t][bk[k]].records)
  BY DEF InThreads
<1>4. Sized(InThreads(files, bk, k, skip), Thread)
  <2>1. \A t \in Thread : InThreads(files, bk, k, skip)[t] \in Nat
    BY <1>2, <1>3
  <2> QED
    BY <2>1, ThreadsAre DEF Sized
<1>5. Total(InThreads(files, bk, k, skip), Thread) \in Nat
  BY <1>4, TotalGrows
<1> QED
  BY <1>1, <1>2, <1>3, <1>4, <1>5 DEF Stored

\* The file that is left out.
LEMMA StoredSkip ==
    ASSUME NEW K, NEW files \in FilesOf(K), NEW bk, NEW k, bk[k] \in Bucket, NEW T \in Thread
    PROVE  /\ Stored(files, bk, k, 0)
              = Stored(files, bk, k, T) + Copies(k, files.thread[T][bk[k]].records)
           /\ Copies(k, files.thread[T][bk[k]].records) \in Nat
<1> DEFINE w == InThreads(files, bk, k, 0)
           v == InThreads(files, bk, k, T)
           c == Copies(k, files.thread[T][bk[k]].records)
<1>1. /\ Sized(w, Thread) /\ Total(w, Thread) \in Nat /\ InMain(files, bk, k) \in Nat
      /\ Stored(files, bk, k, 0) = InMain(files, bk, k) + Total(w, Thread)
      /\ \A t \in Thread : w[t] = Copies(k, files.thread[t][bk[k]].records)
      /\ c \in Nat
  BY StoredIs, ThreadsAre
<1>2. /\ Sized(v, Thread) /\ Total(v, Thread) \in Nat
      /\ Stored(files, bk, k, T) = InMain(files, bk, k) + Total(v, Thread)
      /\ \A t \in Thread : v[t] = IF t = T THEN 0 ELSE Copies(k, files.thread[t][bk[k]].records)
  BY StoredIs
<1>3. w[T] = c /\ v[T] = 0 /\ \A t \in Thread : t # T => v[t] = w[t]
  BY <1>1, <1>2
<1> HIDE DEF w, v, c
<1>4. Total(v, Thread) + w[T] = Total(w, Thread) + v[T]
  BY <1>1, <1>2, <1>3, TotalUpdate
<1>5. Total(v, Thread) + c = Total(w, Thread)
  BY <1>1, <1>3, <1>4
<1> QED
  BY <1>1, <1>2, <1>5 DEF c

LEMMA StoredAlike ==
    ASSUME NEW K, NEW files \in FilesOf(K), NEW g \in FilesOf(K), NEW bk, NEW k, bk[k] \in Bucket,
           NEW skip, NEW leave, InMain(g, bk, k) = InMain(files, bk, k),
           \A t \in Thread : InThreads(g, bk, k, leave)[t] = InThreads(files, bk, k, skip)[t]
    PROVE  Stored(g, bk, k, leave) = Stored(files, bk, k, skip)
<1> DEFINE w == InThreads(files, bk, k, skip)
           v == InThreads(g, bk, k, leave)
<1>1. Sized(w, Thread) /\ \A t \in Thread : w[t] = v[t]
  BY StoredIs
<1>2. Total(w, Thread) = Total(v, Thread)
  <2> HIDE DEF w, v
  <2> QED
    BY <1>1, TotalSame
<1> QED
  BY <1>2 DEF Stored

LEMMA StoredMore ==
    ASSUME NEW K, NEW files \in FilesOf(K), NEW g \in FilesOf(K), NEW bk, NEW k, bk[k] \in Bucket,
           Copies(k, files.main[bk[k]].records) <= Copies(k, g.main[bk[k]].records),
           \A t \in Thread : Copies(k, files.thread[t][bk[k]].records)
                             <= Copies(k, g.thread[t][bk[k]].records)
    PROVE  Stored(files, bk, k, 0) <= Stored(g, bk, k, 0)
<1> DEFINE w == InThreads(files, bk, k, 0)
           v == InThreads(g, bk, k, 0)
<1>1. /\ Sized(w, Thread) /\ Total(w, Thread) \in Nat /\ InMain(files, bk, k) \in Nat
      /\ Stored(files, bk, k, 0) = InMain(files, bk, k) + Total(w, Thread)
      /\ \A t \in Thread : w[t] = Copies(k, files.thread[t][bk[k]].records)
  BY StoredIs, ThreadsAre
<1>2. /\ Sized(v, Thread) /\ Total(v, Thread) \in Nat /\ InMain(g, bk, k) \in Nat
      /\ Stored(g, bk, k, 0) = InMain(g, bk, k) + Total(v, Thread)
      /\ \A t \in Thread : v[t] = Copies(k, g.thread[t][bk[k]].records)
  BY StoredIs, ThreadsAre
<1>3. InMain(files, bk, k) <= InMain(g, bk, k) /\ \A t \in Thread : w[t] <= v[t]
  BY <1>1, <1>2 DEF InMain
<1> HIDE DEF w, v
<1>4. Total(w, Thread) <= Total(v, Thread)
  BY <1>1, <1>2, <1>3, TotalLess
<1> QED
  BY <1>1, <1>2, <1>3, <1>4

-----------------------------------------------------------------------------
(* Each step of a phase keeps its ledger.                                  *)

\* Nothing but the file of thread t in bucket b, or the merged one, is another.
OnlyThread(files, g, t, b) ==
    /\ g.main = files.main
    /\ \A c \in Bucket, o \in Thread : o # t \/ c # b => g.thread[o][c] = files.thread[o][c]
OnlyMain(files, g, b) ==
    /\ g.thread = files.thread
    /\ \A c \in Bucket : c # b => g.main[c] = files.main[c]

\* What has become more.
AlsoIn(counted, after, b, u) ==
    /\ after[b] = counted[b] \cup {u}
    /\ \A c \in Bucket : c # b => after[c] = counted[c]
Gains(files, g, bk, w, t, b, u) ==
    \A k \in DOMAIN bk : bk[k] = b =>
       Copies(k, g.thread[t][b].records) = Copies(k, files.thread[t][b].records) + w[k][u]
Takes(files, g, t, b) ==
    \A k : Copies(k, g.main[b].records) = Copies(k, files.main[b].records) + Copies(k, files.thread[t][b].records)
NoLess(files, g) ==
    \A k : \A c \in Bucket :
       /\ Copies(k, files.main[c].records) <= Copies(k, g.main[c].records)
       /\ \A t \in Thread : Copies(k, files.thread[t][c].records) <= Copies(k, g.thread[t][c].records)
NoMore(counted, after) == \A c \in Bucket : counted[c] \in SUBSET Unit /\ after[c] \subseteq counted[c]

LEMMA LedgerIs ==
    ASSUME NEW files, NEW bk, NEW w, NEW counted, NEW exact, NEW B, NEW T
    PROVE  Ledger(files, bk, w, counted, exact, B, T) <=>
           \A k \in DOMAIN bk :
              /\ Stored(files, bk, k, IF bk[k] = B THEN T ELSE 0) >= Total(w[k], counted[bk[k]])
              /\ exact => Stored(files, bk, k, IF bk[k] = B THEN T ELSE 0) = Total(w[k], counted[bk[k]])
  BY Zenon DEF Ledger

\* A unit has been written to a bucket.
LEMMA WriteLedger ==
    ASSUME NEW K, NEW files \in FilesOf(K), NEW g \in FilesOf(K), NEW bk, Placed(bk),
           NEW w, Weighs(w, bk), NEW t \in Thread, NEW b \in Bucket, NEW u \in Unit,
           NEW counted, NEW after, NEW exact, NEW B,
           counted[b] \in SUBSET Unit, u \notin counted[b],
           AlsoIn(counted, after, b, u), OnlyThread(files, g, t, b), Gains(files, g, bk, w, t, b, u),
           Ledger(files, bk, w, counted, exact, B, 0)
    PROVE  Ledger(g, bk, w, after, exact, B, 0)
<1> USE DEF AlsoIn, OnlyThread, Gains
<1> SUFFICES ASSUME NEW k \in DOMAIN bk
             PROVE  /\ Stored(g, bk, k, 0) >= Total(w[k], after[bk[k]])
                    /\ exact => Stored(g, bk, k, 0) = Total(w[k], after[bk[k]])
  BY LedgerIs
<1>1. /\ Stored(files, bk, k, 0) >= Total(w[k], counted[bk[k]])
      /\ exact => Stored(files, bk, k, 0) = Total(w[k], counted[bk[k]])
  BY LedgerIs
<1>2. bk[k] \in Bucket /\ InMain(g, bk, k) = InMain(files, bk, k)
  BY DEF Placed, InMain
<1>3. CASE bk[k] # b
  <2>1. \A o \in Thread : InThreads(g, bk, k, 0)[o] = InThreads(files, bk, k, 0)[o]
    BY <1>2, <1>3 DEF InThreads
  <2>2. Stored(g, bk, k, 0) = Stored(files, bk, k, 0)
    BY <1>2, <2>1, StoredAlike
  <2>3. after[bk[k]] = counted[bk[k]]
    BY <1>2, <1>3
  <2> QED
    BY <1>1, <2>2, <2>3
<1>4. CASE bk[k] = b
  <2>1. \A o \in Thread : InThreads(g, bk, k, t)[o] = InThreads(files, bk, k, t)[o]
    BY <1>2, <1>4 DEF InThreads
  <2>2. Stored(g, bk, k, t) = Stored(files, bk, k, t)
    BY <1>2, <2>1, StoredAlike
  <2>3. /\ Stored(g, bk, k, 0) = Stored(g, bk, k, t) + Copies(k, g.thread[t][b].records)
        /\ Stored(files, bk, k, 0) = Stored(files, bk, k, t) + Copies(k, files.thread[t][b].records)
        /\ Copies(k, files.thread[t][b].records) \in Nat
    BY <1>2, <1>4, StoredSkip
  <2>4. Stored(files, bk, k, t) \in Nat /\ Stored(files, bk, k, 0) \in Nat
    BY <1>2, StoredIs
  <2>5. w[k][u] \in Nat /\ Copies(k, g.thread[t][b].records) = Copies(k, files.thread[t][b].records) + w[k][u]
    BY <1>4 DEF Weighs
  <2>6. Stored(g, bk, k, 0) = Stored(files, bk, k, 0) + w[k][u]
    BY <2>2, <2>3, <2>4, <2>5
  <2>7. after[bk[k]] = counted[b] \cup {u} /\ Sized(w[k], counted[b] \cup {u})
    <3>1. counted[b] \cup {u} \in SUBSET Unit
      OBVIOUS
    <3>2. Sized(w[k], Unit)
      BY UnitAssumption DEF Sized, Weighs
    <3>3. Sized(w[k], counted[b] \cup {u})
      BY <3>1, <3>2, SizedPart
    <3> QED
      BY <1>4, <3>3
  <2>8. Total(w[k], after[bk[k]]) = w[k][u] + Total(w[k], counted[b]) /\ Total(w[k], counted[b]) \in Nat
    <3>1. \A s, y : Sized(w[k], s \cup {y}) /\ y \notin s =>
             Total(w[k], s) \in Nat /\ Total(w[k], s \cup {y}) = w[k][y] + Total(w[k], s)
      BY TotalAdds
    <3> QED
      BY <2>7, <3>1
  <2> QED
    BY <1>1, <1>4, <2>4, <2>5, <2>6, <2>8
<1> QED
  BY <1>3, <1>4

\* The file of thread T in bucket B is appended to the merged one.
LEMMA CopyLedger ==
    ASSUME NEW K, NEW files \in FilesOf(K), NEW g \in FilesOf(K), NEW bk, Placed(bk),
           NEW w, NEW counted, NEW exact, NEW B \in Bucket, NEW T \in Thread,
           OnlyMain(files, g, B), Takes(files, g, T, B),
           Ledger(files, bk, w, counted, exact, B, 0)
    PROVE  Ledger(g, bk, w, counted, exact, B, T)
<1> USE DEF OnlyMain, Takes
<1> DEFINE skip(k) == IF bk[k] = B THEN T ELSE 0
<1> SUFFICES ASSUME NEW k \in DOMAIN bk
             PROVE  Stored(g, bk, k, skip(k)) = Stored(files, bk, k, 0)
  <2>1. \A k \in DOMAIN bk : (IF bk[k] = B THEN 0 ELSE 0) = 0
    OBVIOUS
  <2>2. \A k \in DOMAIN bk : Stored(g, bk, k, skip(k)) = Stored(files, bk, k, 0)
    OBVIOUS
  <2>3. \A k \in DOMAIN bk : /\ Stored(files, bk, k, 0) >= Total(w[k], counted[bk[k]])
                             /\ exact => Stored(files, bk, k, 0) = Total(w[k], counted[bk[k]])
    BY <2>1, LedgerIs
  <2>4. \A k \in DOMAIN bk : /\ Stored(g, bk, k, skip(k)) >= Total(w[k], counted[bk[k]])
                             /\ exact => Stored(g, bk, k, skip(k)) = Total(w[k], counted[bk[k]])
    BY <2>2, <2>3
  <2> QED
    BY <2>4, LedgerIs
<1>1. bk[k] \in Bucket
  BY DEF Placed
<1>2. CASE bk[k] # B
  <2>1. InMain(g, bk, k) = InMain(files, bk, k)
    BY <1>1, <1>2 DEF InMain
  <2>2. \A o \in Thread : InThreads(g, bk, k, 0)[o] = InThreads(files, bk, k, 0)[o]
    BY DEF InThreads
  <2>3. Stored(g, bk, k, 0) = Stored(files, bk, k, 0)
    BY <1>1, <2>1, <2>2, StoredAlike
  <2> QED
    BY <1>2, <2>3
<1>3. CASE bk[k] = B
  <2> DEFINE c == Copies(k, files.thread[T][B].records)
             W == InThreads(files, bk, k, T)
  <2>1. InMain(g, bk, k) = InMain(files, bk, k) + c
    BY <1>3 DEF InMain
  <2>2. InThreads(g, bk, k, T) = W
    BY DEF InThreads
  <2>3. Stored(g, bk, k, T) = InMain(g, bk, k) + Total(W, Thread)
    BY <2>2 DEF Stored
  <2>4. /\ Stored(files, bk, k, T) = InMain(files, bk, k) + Total(W, Thread)
        /\ InMain(files, bk, k) \in Nat /\ Total(W, Thread) \in Nat
    BY <1>1, StoredIs
  <2>5. Stored(files, bk, k, 0) = Stored(files, bk, k, T) + c /\ c \in Nat
    BY <1>1, <1>3, StoredSkip
  <2>6. Stored(g, bk, k, T) = Stored(files, bk, k, 0)
    <3> HIDE DEF c, W
    <3> QED
      BY <2>1, <2>3, <2>4, <2>5
  <2> QED
    BY <1>3, <2>6
<1> QED
  BY <1>2, <1>3

\* It is removed.
LEMMA RemoveLedger ==
    ASSUME NEW K, NEW files \in FilesOf(K), NEW g \in FilesOf(K), NEW bk, Placed(bk),
           NEW w, NEW counted, NEW exact, NEW B \in Bucket, NEW T \in Thread, NEW C,
           OnlyThread(files, g, T, B), g.thread[T][B] = NoFile,
           Ledger(files, bk, w, counted, exact, B, T)
    PROVE  Ledger(g, bk, w, counted, exact, C, 0)
<1> USE DEF OnlyThread
<1> DEFINE skip(k) == IF bk[k] = B THEN T ELSE 0
<1>1. ASSUME NEW k \in DOMAIN bk
      PROVE  Stored(g, bk, k, 0) = Stored(files, bk, k, skip(k))
  <2>1. bk[k] \in Bucket /\ InMain(g, bk, k) = InMain(files, bk, k)
    BY DEF Placed, InMain
  <2>2. ASSUME NEW o \in Thread
        PROVE  InThreads(g, bk, k, 0)[o] = InThreads(files, bk, k, skip(k))[o]
    <3>0. /\ InThreads(g, bk, k, 0)[o] = Copies(k, g.thread[o][bk[k]].records)
          /\ InThreads(files, bk, k, skip(k))[o]
             = IF o = skip(k) THEN 0 ELSE Copies(k, files.thread[o][bk[k]].records)
      BY ThreadsAre DEF InThreads
    <3>1. CASE o = T /\ bk[k] = B
      BY <3>0, <3>1, NoFileIs, EmptyIs
    <3>2. CASE ~ (o = T /\ bk[k] = B)
      <4>1. g.thread[o][bk[k]] = files.thread[o][bk[k]]
        BY <2>1, <3>2
      <4>2. o # skip(k)
        BY <3>2, ThreadsAre
      <4> QED
        BY <3>0, <4>1, <4>2
    <3> QED
      BY <3>1, <3>2
  <2> HIDE DEF skip
  <2> QED
    BY <2>1, <2>2, StoredAlike
<1>2. \A k \in DOMAIN bk : /\ Stored(files, bk, k, skip(k)) >= Total(w[k], counted[bk[k]])
                           /\ exact => Stored(files, bk, k, skip(k)) = Total(w[k], counted[bk[k]])
  BY LedgerIs
<1>3. \A k \in DOMAIN bk : (IF bk[k] = C THEN 0 ELSE 0) = 0
  OBVIOUS
<1>4. \A k \in DOMAIN bk : /\ Stored(g, bk, k, 0) >= Total(w[k], counted[bk[k]])
                           /\ exact => Stored(g, bk, k, 0) = Total(w[k], counted[bk[k]])
  <2> HIDE DEF skip
  <2> QED
    BY <1>1, <1>2
<1> QED
  BY <1>3, <1>4, LedgerIs

\* All files have been merged.
LEMMA MergedLedger ==
    ASSUME NEW K, NEW files \in FilesOf(K), NEW bk, Placed(bk),
           NEW w, NEW counted, NEW exact, NEW B, NEW T,
           \A c \in Bucket, o \in Thread : files.thread[o][c].records = EmptyBag,
           \A c \in Bucket : counted[c] = Unit,
           Ledger(files, bk, w, counted, exact, B, T)
    PROVE  Merged(files, bk, w, exact)
<1> SUFFICES ASSUME NEW k \in DOMAIN bk
             PROVE  /\ InMain(files, bk, k) >= Total(w[k], Unit)
                    /\ exact => InMain(files, bk, k) = Total(w[k], Unit)
  BY DEF Merged
<1> DEFINE skip == IF bk[k] = B THEN T ELSE 0
           W == InThreads(files, bk, k, skip)
<1>1. bk[k] \in Bucket /\ counted[bk[k]] = Unit
  BY DEF Placed
<1>2. \A o \in Thread : W[o] = 0
  BY <1>1, EmptyIs DEF InThreads
<1>3. Total(W, Thread) = 0
  <2> HIDE DEF W
  <2> QED
    BY <1>2, ThreadsAre, TotalZero
<1>4. InMain(files, bk, k) \in Nat /\ Stored(files, bk, k, skip) = InMain(files, bk, k) + Total(W, Thread)
  BY <1>1, StoredIs
<1>5. Stored(files, bk, k, skip) = InMain(files, bk, k)
  <2> HIDE DEF W, skip
  <2> QED
    BY <1>3, <1>4
<1>6. /\ Stored(files, bk, k, skip) >= Total(w[k], counted[bk[k]])
      /\ exact => Stored(files, bk, k, skip) = Total(w[k], counted[bk[k]])
  BY LedgerIs
<1> HIDE DEF skip
<1> QED
  BY <1>1, <1>5, <1>6

\* The units that count are others, of the same weight.
LEMMA CountLedger ==
    ASSUME NEW files, NEW bk, NEW w, NEW counted, NEW after, NEW exact, NEW B, NEW T, NEW C,
           \A k \in DOMAIN bk : Total(w[k], after[bk[k]]) = Total(w[k], counted[bk[k]]),
           T = 0 \/ B = C,
           Ledger(files, bk, w, counted, exact, B, T)
    PROVE  Ledger(files, bk, w, after, exact, C, T)
<1>1. \A k \in DOMAIN bk : (IF bk[k] = B THEN T ELSE 0) = (IF bk[k] = C THEN T ELSE 0)
  OBVIOUS
<1>2. \A k \in DOMAIN bk :
         /\ Stored(files, bk, k, IF bk[k] = B THEN T ELSE 0) >= Total(w[k], counted[bk[k]])
         /\ exact => Stored(files, bk, k, IF bk[k] = B THEN T ELSE 0) = Total(w[k], counted[bk[k]])
  BY LedgerIs
<1>3. \A k \in DOMAIN bk :
         /\ Stored(files, bk, k, IF bk[k] = C THEN T ELSE 0) >= Total(w[k], after[bk[k]])
         /\ exact => Stored(files, bk, k, IF bk[k] = C THEN T ELSE 0) = Total(w[k], after[bk[k]])
  BY <1>1, <1>2
<1> QED
  BY <1>3, LedgerIs

\* A unit of which a bucket has nothing.
LEMMA Weightless ==
    ASSUME NEW w, NEW u \in Unit, NEW A \in SUBSET Unit, \A x \in Unit : w[x] \in Nat, w[u] = 0
    PROVE  Total(w, A \cup {u}) = Total(w, A)
<1>1. CASE u \in A
  <2>1. A \cup {u} = A
    BY <1>1
  <2> QED
    BY <2>1
<1>2. CASE u \notin A
  <2>1. Sized(w, Unit) /\ A \cup {u} \in SUBSET Unit
    BY UnitAssumption DEF Sized
  <2>2. Sized(w, A \cup {u})
    BY <2>1, SizedPart
  <2>3. Total(w, A) \in Nat /\ Total(w, A \cup {u}) = w[u] + Total(w, A)
    BY <1>2, <2>2, TotalAdds
  <2> QED
    BY <2>3
<1> QED
  BY <1>1, <1>2

\* A death: what is stored is no less, what is recorded as counted no more.
LEMMA DeathLedger ==
    ASSUME NEW K, NEW files \in FilesOf(K), NEW g \in FilesOf(K), NEW bk, Placed(bk),
           NEW w, Weighs(w, bk), NEW counted, NEW after, NEW exact, NEW inexact, ~ inexact,
           NEW B, NEW T \in Thread \cup {0}, NEW C,
           NoMore(counted, after), NoLess(files, g),
           Ledger(files, bk, w, counted, exact, B, T)
    PROVE  Ledger(g, bk, w, after, inexact, C, 0)
<1> USE DEF NoMore, NoLess
<1> SUFFICES ASSUME NEW k \in DOMAIN bk
             PROVE  Stored(g, bk, k, 0) >= Total(w[k], after[bk[k]])
  <2>1. \A k \in DOMAIN bk : (IF bk[k] = C THEN 0 ELSE 0) = 0
    OBVIOUS
  <2>2. \A k \in DOMAIN bk : /\ Stored(g, bk, k, 0) >= Total(w[k], after[bk[k]])
                             /\ inexact => Stored(g, bk, k, 0) = Total(w[k], after[bk[k]])
    OBVIOUS
  <2> QED
    BY <2>1, <2>2, LedgerIs
<1> DEFINE skip == IF bk[k] = B THEN T ELSE 0
<1>1. bk[k] \in Bucket
  BY DEF Placed
<1>2. Stored(files, bk, k, skip) >= Total(w[k], counted[bk[k]])
  BY LedgerIs
<1>3. Stored(files, bk, k, skip) \in Nat /\ Stored(files, bk, k, 0) \in Nat /\ Stored(g, bk, k, 0) \in Nat
  BY <1>1, StoredIs
<1>4. Stored(files, bk, k, skip) <= Stored(files, bk, k, 0)
  <2>1. CASE skip = 0
    BY <1>3, <2>1
  <2>2. CASE skip # 0
    <3>1. skip = T /\ T \in Thread
      BY <2>2
    <3>2. Stored(files, bk, k, 0) = Stored(files, bk, k, T) + Copies(k, files.thread[T][bk[k]].records)
          /\ Copies(k, files.thread[T][bk[k]].records) \in Nat
      BY <1>1, <3>1, StoredSkip
    <3> HIDE DEF skip
    <3> QED
      BY <1>3, <3>1, <3>2
  <2> QED
    BY <2>1, <2>2
<1>5. Stored(files, bk, k, 0) <= Stored(g, bk, k, 0)
  BY <1>1, StoredMore
<1>6. Total(w[k], after[bk[k]]) <= Total(w[k], counted[bk[k]]) /\ Total(w[k], after[bk[k]]) \in Nat
      /\ Total(w[k], counted[bk[k]]) \in Nat
  <2>1. Sized(w[k], Unit)
    BY UnitAssumption DEF Sized, Weighs
  <2>2. counted[bk[k]] \in SUBSET Unit /\ after[bk[k]] \in SUBSET counted[bk[k]]
    BY <1>1
  <2>3. Sized(w[k], counted[bk[k]]) /\ Sized(w[k], after[bk[k]])
    <3>1. Sized(w[k], counted[bk[k]])
      BY <2>1, <2>2, SizedPart
    <3> QED
      BY <2>2, <3>1, SizedPart
  <2>4. \A s : Sized(w[k], s) => /\ Total(w[k], s) \in Nat
                                 /\ \A t \in SUBSET s : Total(w[k], t) <= Total(w[k], s)
    BY TotalGrows
  <2> QED
    BY <2>2, <2>3, <2>4
<1> HIDE DEF skip
<1> QED
  BY <1>2, <1>3, <1>4, <1>5, <1>6

-----------------------------------------------------------------------------
(* What a unit has.                                                        *)

LEMMA RowsAre ==
    ASSUME NEW s \in Stores, NEW u \in Unit
    PROVE  /\ s[u] \in Seq([doc : Doc, terms : SUBSET Term])
           /\ \A h, docs : /\ RowsWith(s, u, h, docs) \in Nat
                           /\ RowsWith(s, u, h, docs) > 0 <=>
                                 \E i \in DOMAIN s[u] : h \in s[u][i].terms /\ s[u][i].doc \in docs
<1>1. s[u] \in Seq([doc : Doc, terms : SUBSET Term])
  BY StoresAssumption
<1>2. IsFiniteSet(DOMAIN s[u])
  BY <1>1, FS_Interval
<1>3. ASSUME NEW h, NEW docs
      PROVE  /\ RowsWith(s, u, h, docs) \in Nat
             /\ RowsWith(s, u, h, docs) > 0 <=>
                   \E i \in DOMAIN s[u] : h \in s[u][i].terms /\ s[u][i].doc \in docs
  <2> DEFINE I == {i \in DOMAIN s[u] : h \in s[u][i].terms /\ s[u][i].doc \in docs}
  <2>1. IsFiniteSet(I)
    BY <1>2, FS_Subset
  <2>2. RowsWith(s, u, h, docs) = Cardinality(I)
    BY DEF RowsWith
  <2>3. Cardinality(I) \in Nat /\ (Cardinality(I) = 0 <=> I = {})
    <3> HIDE DEF I
    <3> QED
      BY <2>1, FS_CardinalityType, FS_EmptySet
  <2>4. I # {} <=> \E i \in DOMAIN s[u] : h \in s[u][i].terms /\ s[u][i].doc \in docs
    OBVIOUS
  <2> HIDE DEF I
  <2> QED
    BY <2>2, <2>3, <2>4
<1> QED
  BY <1>1, <1>3

LEMMA RowWeights ==
    ASSUME NEW s \in Stores
    PROVE  /\ \A h \in Term, u \in Unit : DfRows(s)[h][u] = RowsWith(s, u, h, Doc)
           /\ \A p \in Term \X Doc, u \in Unit : PostRows(s)[p][u] = RowsWith(s, u, p[1], {p[2]})
           /\ Weighs(DfRows(s), DfB)
           /\ Weighs(PostRows(s), PostB)
<1>1. \A h \in Term, u \in Unit : DfRows(s)[h][u] = RowsWith(s, u, h, Doc)
  BY DEF DfRows
<1>2. \A p \in Term \X Doc, u \in Unit : PostRows(s)[p][u] = RowsWith(s, u, p[1], {p[2]})
  BY DEF PostRows
<1>3. \A u \in Unit : \A h, docs : RowsWith(s, u, h, docs) \in Nat
  BY RowsAre
<1>4. DOMAIN DfB = Term /\ \A p \in DOMAIN PostB : p \in Term \X Doc
  BY DEF DfB, PostB, PostKeys
<1>5. \A u \in Unit : (\A h \in Term : DfRows(s)[h][u] \in Nat)
                      /\ \A p \in Term \X Doc : PostRows(s)[p][u] \in Nat
  <2> SUFFICES ASSUME NEW u \in Unit
               PROVE  (\A h \in Term : DfRows(s)[h][u] \in Nat)
                      /\ \A p \in Term \X Doc : PostRows(s)[p][u] \in Nat
    OBVIOUS
  <2>1. \A h, docs : RowsWith(s, u, h, docs) \in Nat
    BY <1>3
  <2>2. ASSUME NEW h \in Term PROVE DfRows(s)[h][u] \in Nat
    BY <1>1, <2>1
  <2>3. ASSUME NEW p \in Term \X Doc PROVE PostRows(s)[p][u] \in Nat
    <3>1. RowsWith(s, u, p[1], {p[2]}) \in Nat
      BY <2>1, Zenon
    <3> QED
      BY <1>2, <3>1, Zenon
  <2> QED
    BY <2>2, <2>3, Zenon
<1> QED
  BY <1>1, <1>2, <1>4, <1>5 DEF Weighs

LEMMA DfOfIs ==
    ASSUME store \in Stores, NEW u \in Unit
    PROVE  /\ DfOf(u) \in Bag(Term)
           /\ \A h \in Term : Copies(h, DfOf(u)) = RowsWith(store, u, h, Doc)
<1> DEFINE keys == {j \in Term : RowsWith(store, u, j, Doc) > 0}
<1>1. DfOf(u) = [k \in keys |-> RowsWith(store, u, k, Doc)]
  BY DEF DfOf, BagOf
<1>2. \A h : RowsWith(store, u, h, Doc) \in Nat
  BY RowsAre
<1>3. DfOf(u) = [k \in DOMAIN DfOf(u) |-> DfOf(u)[k]] /\ DOMAIN DfOf(u) = keys
  BY <1>1
<1>4. \A k \in keys : DfOf(u)[k] = RowsWith(store, u, k, Doc)
  BY <1>1
<1>5. DfOf(u) \in Bag(Term)
  <2>1. DOMAIN DfOf(u) \subseteq Term /\ \A k \in DOMAIN DfOf(u) : DfOf(u)[k] \in Nat /\ DfOf(u)[k] > 0
    BY <1>2, <1>3, <1>4
  <2> QED
    BY <1>3, <2>1, BagIs
<1>6. \A h \in Term : Copies(h, DfOf(u)) = RowsWith(store, u, h, Doc)
  BY <1>2, <1>3, <1>4 DEF Copies
<1> QED
  BY <1>5, <1>6

LEMMA PostsOfIs ==
    ASSUME store \in Stores, NEW u \in Unit, NEW terms \in SUBSET Term
    PROVE  /\ PostsOf(u, terms) \in Bag(Term \X Doc)
           /\ DOMAIN PostsOf(u, terms) = {p \in terms \X Doc : RowsWith(store, u, p[1], {p[2]}) > 0}
           /\ \A p \in terms \X Doc : Copies(p, PostsOf(u, terms)) = RowsWith(store, u, p[1], {p[2]})
<1> DEFINE keys == {j \in terms \X Doc : RowsWith(store, u, j[1], {j[2]}) > 0}
           bag == PostsOf(u, terms)
<1>1. bag = [k \in keys |-> RowsWith(store, u, k[1], {k[2]})]
  BY DEF PostsOf, BagOf
<1>2. \A h, docs : RowsWith(store, u, h, docs) \in Nat
  BY RowsAre
<1>3. bag = [k \in DOMAIN bag |-> bag[k]] /\ DOMAIN bag = keys
  BY <1>1
<1>4. \A k \in keys : bag[k] = RowsWith(store, u, k[1], {k[2]})
  BY <1>1
<1> HIDE DEF bag
<1>5. bag \in Bag(Term \X Doc)
  <2>1. DOMAIN bag \subseteq Term \X Doc /\ \A k \in DOMAIN bag : bag[k] \in Nat /\ bag[k] > 0
    BY <1>2, <1>3, <1>4
  <2> QED
    BY <1>3, <2>1, BagIs
<1>6. \A p \in terms \X Doc : Copies(p, bag) = RowsWith(store, u, p[1], {p[2]})
  BY <1>2, <1>3, <1>4 DEF Copies
<1> QED
  BY <1>3, <1>5, <1>6 DEF bag

\* The part of a bucket.
LEMMA PartIs ==
    ASSUME NEW K, NEW bag \in Bag(K), NEW D \in SUBSET DOMAIN bag
    PROVE  /\ [k \in D |-> bag[k]] \in Bag(K)
           /\ \A torn \in BOOLEAN : [records |-> [k \in D |-> bag[k]], torn |-> torn] \in FileOf(K)
           /\ \A k \in D : Copies(k, [j \in D |-> bag[j]]) = Copies(k, bag)
<1> DEFINE part == [k \in D |-> bag[k]]
<1>1. part = [k \in DOMAIN part |-> part[k]] /\ DOMAIN part = D /\ \A k \in D : part[k] = bag[k]
  OBVIOUS
<1>2. DOMAIN bag \subseteq K /\ \A k \in DOMAIN bag : bag[k] \in Nat /\ bag[k] > 0
  BY BagIs
<1> HIDE DEF part
<1>3. part \in Bag(K)
  <2>1. DOMAIN part \subseteq K /\ \A k \in DOMAIN part : part[k] \in Nat /\ part[k] > 0
    BY <1>1, <1>2
  <2> QED
    BY <1>1, <2>1, BagIs
<1>4. \A torn \in BOOLEAN : [records |-> part, torn |-> torn] \in FileOf(K)
  BY <1>3 DEF FileOf
<1>5. \A k \in D : Copies(k, part) = Copies(k, bag)
  BY <1>1 DEF Copies
<1> QED
  BY <1>3, <1>4, <1>5 DEF part

LEMMA CutIs ==
    ASSUME NEW K, NEW m \in FileOf(K), NEW c \in Cuts(m)
    PROVE  c \in FileOf(K) /\ DOMAIN c.records \subseteq DOMAIN m.records
<1>1. PICK S \in SUBSET DOMAIN m.records, torn \in BOOLEAN :
         c = [records |-> [k \in S |-> m.records[k]], torn |-> torn]
  BY DEF Cuts
<1>2. m.records \in Bag(K)
  BY DEF FileOf
<1> QED
  BY <1>1, <1>2, PartIs

LEMMA BucketsAre ==
    /\ DOMAIN DfB = Term /\ Placed(DfB) /\ \A h \in Term : DfB[h] = DfBucket(h)
    /\ 0 \in Bucket /\ Bucket \subseteq Nat /\ Buckets \in Nat /\ Buckets \notin Bucket
    /\ \A b \in Bucket : b < Buckets /\ b + 1 \in 0 .. Buckets
<1>1. \A h \in Term : h % Buckets \in Bucket
  BY TermAssumption, SizeAssumption DEF Bucket
<1>2. DOMAIN DfB = Term /\ \A h \in Term : DfB[h] = DfBucket(h)
  BY DEF DfB
<1>3. Placed(DfB)
  BY <1>1, <1>2 DEF Placed, DfBucket
<1>4. /\ 0 \in Bucket /\ Bucket \subseteq Nat /\ Buckets \in Nat /\ Buckets \notin Bucket
      /\ \A b \in Bucket : b < Buckets /\ b + 1 \in 0 .. Buckets
  BY SizeAssumption DEF Bucket
<1> QED
  BY <1>2, <1>3, <1>4

LEMMA PostBuckets ==
    ASSUME DOMAIN work.dfs \subseteq Term
    PROVE  /\ DOMAIN PostB = (DOMAIN work.dfs) \X Doc /\ PostKeys = (DOMAIN work.dfs) \X Doc
           /\ Placed(PostB) /\ \A p \in PostKeys : PostB[p] = PostBucket(p)
<1>1. PostKeys = (DOMAIN work.dfs) \X Doc
  <2>1. \A p : p \in PostKeys <=> p \in Term \X Doc /\ p[1] \in DOMAIN work.dfs
    BY DEF PostKeys
  <2>2. \A p : p \in Term \X Doc /\ p[1] \in DOMAIN work.dfs <=> p \in (DOMAIN work.dfs) \X Doc
    OBVIOUS
  <2> QED
    BY <2>1, <2>2
<1>2. DOMAIN PostB = PostKeys /\ \A p \in PostKeys : PostB[p] = PostBucket(p)
  BY DEF PostB
<1>3. ASSUME NEW p PROVE PostBucket(p) \in Bucket
  <2> DEFINE S == {g \in DOMAIN work.dfs : g < p[1]}
  <2>1. IsFiniteSet(S)
    BY TermAssumption, FS_Subset
  <2>2. Cardinality(S) \in Nat
    <3> HIDE DEF S
    <3> QED
      BY <2>1, FS_CardinalityType
  <2>3. \A n \in Nat : n % Buckets \in Bucket
    BY SizeAssumption DEF Bucket
  <2> QED
    BY <2>2, <2>3 DEF PostBucket, TermId
<1> QED
  BY <1>1, <1>2, <1>3 DEF Placed

\* What a thread writes of its unit to a bucket.
LEMMA DfPartIs ==
    ASSUME store \in Stores, NEW u \in Unit, NEW t, NEW b \in Bucket, job.task[t].unit = {u}
    PROVE  /\ DfPart(t, b) \in FileOf(Term) /\ ~ DfPart(t, b).torn
           /\ \A k \in DOMAIN DfPart(t, b).records : k \in Term /\ DfB[k] = b
           /\ \A k \in Term : DfB[k] = b => Copies(k, DfPart(t, b).records) = DfRows(store)[k][u]
<1> DEFINE D == {j \in DOMAIN DfOf(u) : DfBucket(j) = b}
           P == [k \in D |-> DfOf(u)[k]]
<1>1. DfPart(t, b) = [records |-> P, torn |-> FALSE]
  <2>1. (CHOOSE x \in job.task[t].unit : TRUE) = u
    OBVIOUS
  <2> QED
    BY <2>1 DEF DfPart, Whole, InBucket
<1>2. DfOf(u) \in Bag(Term) /\ \A h \in Term : Copies(h, DfOf(u)) = DfRows(store)[h][u]
  BY DfOfIs, RowWeights
<1>3. [records |-> P, torn |-> FALSE] \in FileOf(Term) /\ \A k \in D : Copies(k, P) = Copies(k, DfOf(u))
  BY <1>2, PartIs
<1>4. DfPart(t, b).records = P /\ ~ DfPart(t, b).torn /\ DOMAIN P = D
  BY <1>1
<1>5. DOMAIN DfOf(u) \subseteq Term
  BY <1>2, BagIs
<1> HIDE DEF P
<1>6. \A k \in Term : DfB[k] = b /\ k \notin D => Copies(k, P) = 0 /\ Copies(k, DfOf(u)) = 0
  BY <1>4, BucketsAre DEF Copies
<1> QED
  BY <1>1, <1>2, <1>3, <1>4, <1>5, <1>6, BucketsAre

LEMMA PostPartIs ==
    ASSUME store \in Stores, NEW u \in Unit, NEW t, NEW b \in Bucket, job.task[t].unit = {u},
           DOMAIN work.dfs \subseteq Term
    PROVE  /\ PostPart(t, b) \in FileOf(Term \X Doc) /\ ~ PostPart(t, b).torn
           /\ \A k \in DOMAIN PostPart(t, b).records : k \in DOMAIN PostB /\ PostB[k] = b /\ k \in Real(store)
           /\ \A k \in DOMAIN PostB : PostB[k] = b => Copies(k, PostPart(t, b).records) = PostRows(store)[k][u]
<1> DEFINE bag == PostsOf(u, DOMAIN work.dfs)
           D == {j \in DOMAIN bag : PostBucket(j) = b}
           P == [k \in D |-> bag[k]]
<1>1. PostPart(t, b) = [records |-> P, torn |-> FALSE]
  <2>1. (CHOOSE x \in job.task[t].unit : TRUE) = u
    OBVIOUS
  <2> QED
    BY <2>1 DEF PostPart, Whole, InBucket
<1>2. /\ bag \in Bag(Term \X Doc)
      /\ DOMAIN bag = {p \in (DOMAIN work.dfs) \X Doc : PostRows(store)[p][u] > 0}
      /\ \A p \in (DOMAIN work.dfs) \X Doc : Copies(p, bag) = PostRows(store)[p][u]
  <2>1. \A p \in (DOMAIN work.dfs) \X Doc : p \in Term \X Doc
    OBVIOUS
  <2>2. \A p \in Term \X Doc : PostRows(store)[p][u] = RowsWith(store, u, p[1], {p[2]})
    BY RowWeights
  <2>3. DOMAIN work.dfs \in SUBSET Term
    OBVIOUS
  <2>4. /\ bag \in Bag(Term \X Doc)
        /\ DOMAIN bag = {p \in (DOMAIN work.dfs) \X Doc : RowsWith(store, u, p[1], {p[2]}) > 0}
        /\ \A p \in (DOMAIN work.dfs) \X Doc : Copies(p, bag) = RowsWith(store, u, p[1], {p[2]})
    BY <2>3, PostsOfIs
  <2>5. \A p \in (DOMAIN work.dfs) \X Doc : PostRows(store)[p][u] = RowsWith(store, u, p[1], {p[2]})
    BY <2>1, <2>2
  <2> HIDE DEF bag
  <2> QED
    BY <2>4, <2>5
<1>3. [records |-> P, torn |-> FALSE] \in FileOf(Term \X Doc) /\ \A k \in D : Copies(k, P) = Copies(k, bag)
  <2> HIDE DEF bag
  <2> QED
    BY <1>2, PartIs
<1>4. PostPart(t, b).records = P /\ ~ PostPart(t, b).torn /\ DOMAIN P = D
  BY <1>1
<1> HIDE DEF P, bag
<1>5. \A k \in DOMAIN PostB : PostB[k] = b /\ k \notin D => Copies(k, P) = 0 /\ Copies(k, bag) = 0
  BY <1>2, <1>4, PostBuckets DEF Copies
<1>6. \A k \in D : k \in DOMAIN PostB /\ PostB[k] = b /\ k \in Real(store)
  BY <1>2, PostBuckets DEF Real
<1> QED
  BY <1>1, <1>2, <1>3, <1>4, <1>5, <1>6, PostBuckets

-----------------------------------------------------------------------------
(* The vocabulary.                                                         *)

Ranked(dfs, S) == S \subseteq Term /\ \A h \in S : dfs[h] \in Nat
Above(dfs, S, h) == {g \in S : More(dfs, g, h)}

LEMMA MoreIsAnOrder ==
    ASSUME NEW dfs, NEW S, Ranked(dfs, S), NEW g \in S, NEW h \in S
    PROVE  /\ ~ More(dfs, h, h)
           /\ g # h => More(dfs, g, h) \/ More(dfs, h, g)
           /\ ~ (More(dfs, g, h) /\ More(dfs, h, g))
           /\ \A k \in S : More(dfs, g, h) /\ More(dfs, h, k) => More(dfs, g, k)
<1>1. /\ g \in Nat /\ h \in Nat /\ dfs[g] \in Nat /\ dfs[h] \in Nat
      /\ \A k \in S : k \in Nat /\ dfs[k] \in Nat
  BY TermAssumption DEF Ranked
<1> QED
  BY <1>1 DEF More

LEMMA PartRanked ==
    ASSUME NEW dfs, NEW S, Ranked(dfs, S), NEW T \in SUBSET S
    PROVE  Ranked(dfs, T) /\ IsFiniteSet(T) /\ Cardinality(T) \in Nat
<1>1. IsFiniteSet(T)
  BY TermAssumption, FS_Subset DEF Ranked
<1> QED
  BY <1>1, FS_CardinalityType DEF Ranked

\* One of them comes last.
LEMMA LastThere ==
    ASSUME NEW dfs
    PROVE  \A S : Ranked(dfs, S) /\ S # {} => \E m \in S : \A x \in S : ~ More(dfs, m, x)
<1> DEFINE Last(S) == \E m \in S : \A x \in S : ~ More(dfs, m, x)
           Bad == {n \in Nat : \E S : Ranked(dfs, S) /\ S # {} /\ Cardinality(S) = n /\ ~ Last(S)}
<1>1. ASSUME NEW n \in Bad PROVE \E m \in Bad : m < n
  <2>1. PICK S : Ranked(dfs, S) /\ S # {} /\ Cardinality(S) = n /\ ~ Last(S)
    BY <1>1
  <2>2. PICK x \in S : TRUE
    BY <2>1
  <2> DEFINE T == S \ {x}
  <2>3. IsFiniteSet(S) /\ Ranked(dfs, T) /\ Cardinality(T) \in Nat
    BY <2>1, PartRanked
  <2>4. Cardinality(T) = Cardinality(S) - 1 /\ Cardinality(S) \in Nat
    BY <2>2, <2>3, FS_RemoveElement, FS_CardinalityType
  <2>5. T # {}
    <3>1. SUFFICES ASSUME T = {} PROVE Last(S)
      BY <2>1
    <3>2. \A y \in S : y = x
      BY <3>1
    <3>3. ~ More(dfs, x, x)
      BY <2>1, <2>2, MoreIsAnOrder
    <3> QED
      BY <2>2, <3>2, <3>3
  <2>6. ~ Last(T)
    <3> SUFFICES ASSUME NEW m \in T, \A y \in T : ~ More(dfs, m, y) PROVE Last(S)
      BY <2>1
    <3>1. CASE More(dfs, m, x)
      <4>1. ASSUME NEW y \in S, More(dfs, x, y) PROVE FALSE
        <5>1. y # x
          BY <2>1, <4>1, MoreIsAnOrder
        <5>2. More(dfs, m, y)
          BY <2>1, <2>2, <3>1, <4>1, MoreIsAnOrder
        <5> QED
          BY <5>1, <5>2
      <4> QED
        BY <2>2, <4>1
    <3>2. CASE ~ More(dfs, m, x)
      BY <3>2
    <3> QED
      BY <3>1, <3>2
  <2>7. Cardinality(T) < n
    <3> HIDE DEF T
    <3> QED
      BY <2>1, <2>3, <2>4
  <2> HIDE DEF T, Last
  <2> QED
    BY <2>3, <2>5, <2>6, <2>7
<1>2. Bad = {}
  <2>1. Bad \in SUBSET Nat
    OBVIOUS
  <2>2. \A n \in Bad : \E m \in Bad : m < n
    BY <1>1
  <2> HIDE DEF Bad
  <2> QED
    BY <2>1, <2>2, NoLeast
<1>3. \A S : Ranked(dfs, S) => Cardinality(S) \in Nat
  BY PartRanked
<1> QED
  BY <1>2, <1>3

\* Those with fewer than N before them are N, or all.
LEMMA FirstFew ==
    ASSUME NEW dfs, NEW N \in Nat
    PROVE  \A S : Ranked(dfs, S) =>
               Cardinality({h \in S : Cardinality(Above(dfs, S, h)) < N})
               = IF Cardinality(S) < N THEN Cardinality(S) ELSE N
<1> DEFINE Few(S) == {h \in S : Cardinality(Above(dfs, S, h)) < N}
           Right(S) == Cardinality(Few(S)) = IF Cardinality(S) < N THEN Cardinality(S) ELSE N
           Bad == {n \in Nat : \E S : Ranked(dfs, S) /\ Cardinality(S) = n /\ ~ Right(S)}
<1>1. ASSUME NEW S, Ranked(dfs, S), S = {} PROVE Right(S)
  <2>1. Few(S) = {}
    BY <1>1
  <2>2. Cardinality({}) = 0
    BY FS_EmptySet
  <2> HIDE DEF Few
  <2> QED
    BY <1>1, <2>1, <2>2
<1>2. ASSUME NEW S, Ranked(dfs, S), S # {},
             \A T : Ranked(dfs, T) /\ Cardinality(T) < Cardinality(S) => Right(T)
      PROVE  Right(S)
  <2>1. PICK m \in S : \A x \in S : ~ More(dfs, m, x)
    BY <1>2, LastThere
  <2> DEFINE T == S \ {m}
  <2>2. IsFiniteSet(S) /\ Ranked(dfs, T) /\ IsFiniteSet(T) /\ Cardinality(T) \in Nat
    BY <1>2, PartRanked
  <2>3. Cardinality(T) = Cardinality(S) - 1 /\ Cardinality(S) \in Nat
    BY <2>2, FS_RemoveElement, FS_CardinalityType
  <2>4. Right(T)
    <3> HIDE DEF T, Right
    <3> QED
      BY <1>2, <2>2, <2>3
  <2>5. \A h \in T : Above(dfs, T, h) = Above(dfs, S, h)
    BY <2>1 DEF Above
  <2>6. Above(dfs, S, m) = T
    <3>1. \A x \in S : x # m => More(dfs, x, m)
      BY <1>2, <2>1, MoreIsAnOrder
    <3>2. ~ More(dfs, m, m)
      BY <2>1
    <3> QED
      BY <3>1, <3>2 DEF Above
  <2>7. CASE Cardinality(T) < N
    <3>1. Few(S) = Few(T) \cup {m}
      BY <2>5, <2>6, <2>7
    <3>2. m \notin Few(T) /\ Few(T) \in SUBSET T
      OBVIOUS
    <3>3. IsFiniteSet(Few(T)) /\ Cardinality(Few(T)) = Cardinality(T)
      BY <2>2, <2>4, <2>7, <3>2, FS_Subset
    <3>4. Cardinality(Few(S)) = Cardinality(Few(T)) + 1
      <4> HIDE DEF Few
      <4> QED
        BY <3>1, <3>2, <3>3, FS_AddElement
    <3>5. Cardinality(Few(S)) = Cardinality(S) /\ (Cardinality(S) < N \/ Cardinality(S) = N)
      <4> HIDE DEF Few, T
      <4> QED
        BY <2>2, <2>3, <2>7, <3>3, <3>4
    <3> HIDE DEF Few
    <3> QED
      BY <3>5
  <2>8. CASE ~ (Cardinality(T) < N)
    <3>1. Few(S) = Few(T)
      BY <2>5, <2>6, <2>8
    <3>2. Cardinality(Few(T)) = N
      BY <2>4, <2>8
    <3>3. ~ (Cardinality(S) < N)
      <4> HIDE DEF Few, T
      <4> QED
        BY <2>2, <2>3, <2>8
    <3> HIDE DEF Few
    <3> QED
      BY <3>1, <3>2, <3>3
  <2> QED
    BY <2>7, <2>8
<1>3. ASSUME NEW n \in Bad PROVE \E m \in Bad : m < n
  <2>1. PICK S : Ranked(dfs, S) /\ Cardinality(S) = n /\ ~ Right(S)
    BY <1>3
  <2>2. PICK T : Ranked(dfs, T) /\ Cardinality(T) < Cardinality(S) /\ ~ Right(T)
    <3> HIDE DEF Right
    <3> QED
      BY <1>1, <1>2, <2>1
  <2>3. Cardinality(T) \in Nat
    BY <2>2, PartRanked
  <2> HIDE DEF Right
  <2> QED
    BY <2>1, <2>2, <2>3
<1>4. Bad = {}
  <2>1. Bad \in SUBSET Nat
    OBVIOUS
  <2>2. \A n \in Bad : \E m \in Bad : m < n
    BY <1>3
  <2> HIDE DEF Bad
  <2> QED
    BY <2>1, <2>2, NoLeast
<1>5. \A S : Ranked(dfs, S) => Cardinality(S) \in Nat
  BY PartRanked
<1>6. \A S : Ranked(dfs, S) => Right(S)
  <2> HIDE DEF Right
  <2> QED
    BY <1>4, <1>5
<1> QED
  BY <1>6 DEF Above

\* Those that are taken come before those that are not.
LEMMA LargestAre ==
    ASSUME NEW dfs, NEW S, Ranked(dfs, S)
    PROVE  /\ Largest(dfs, S) \subseteq S
           /\ Cardinality(Largest(dfs, S)) = IF MaxFeatures = 0 \/ Cardinality(S) < MaxFeatures
                                             THEN Cardinality(S) ELSE MaxFeatures
           /\ \A h \in Largest(dfs, S), g \in S \ Largest(dfs, S) : More(dfs, h, g)
<1>1. CASE MaxFeatures = 0
  BY <1>1 DEF Largest
<1>2. CASE MaxFeatures # 0
  <2> DEFINE L == {h \in S : Cardinality(Above(dfs, S, h)) < MaxFeatures}
  <2>1. Largest(dfs, S) = L
    BY <1>2 DEF Largest, Above
  <2>2. Cardinality(L) = IF Cardinality(S) < MaxFeatures THEN Cardinality(S) ELSE MaxFeatures
    BY SizeAssumption, FirstFew
  <2>3. ASSUME NEW h \in L, NEW g \in S \ L PROVE More(dfs, h, g)
    <3> SUFFICES ASSUME ~ More(dfs, h, g) PROVE FALSE
      OBVIOUS
    <3>1. More(dfs, g, h)
      BY <2>3, MoreIsAnOrder
    <3>2. Above(dfs, S, g) \subseteq Above(dfs, S, h)
      <4> SUFFICES ASSUME NEW x \in S, More(dfs, x, g) PROVE More(dfs, x, h)
        BY DEF Above
      <4> QED
        BY <3>1, MoreIsAnOrder
    <3>3. /\ IsFiniteSet(Above(dfs, S, h)) /\ Cardinality(Above(dfs, S, h)) \in Nat
          /\ Cardinality(Above(dfs, S, g)) \in Nat
      <4>1. Above(dfs, S, h) \in SUBSET S /\ Above(dfs, S, g) \in SUBSET S
        BY DEF Above
      <4> QED
        BY <4>1, PartRanked
    <3>4. Cardinality(Above(dfs, S, g)) <= Cardinality(Above(dfs, S, h))
      BY <3>2, <3>3, FS_Subset
    <3>5. Cardinality(Above(dfs, S, h)) < MaxFeatures /\ ~ (Cardinality(Above(dfs, S, g)) < MaxFeatures)
      BY <2>3
    <3> QED
      BY SizeAssumption, <3>3, <3>4, <3>5
  <2> HIDE DEF L
  <2>4. L \subseteq S
    BY DEF L
  <2> QED
    BY <1>2, <2>1, <2>2, <2>3, <2>4
<1> QED
  BY <1>1, <1>2

LEMMA VocabularyIs ==
    ASSUME NEW dfs, Ranked(dfs, DOMAIN dfs)
    PROVE  LET V == Vocabulary(dfs)
               S == {h \in DOMAIN dfs : dfs[h] \in MinDf .. MaxDf}
           IN  /\ V = [h \in DOMAIN V |-> dfs[h]] /\ DOMAIN V \subseteq S
               /\ \A h \in DOMAIN V : V[h] = dfs[h]
               /\ Cardinality(DOMAIN V) = IF MaxFeatures = 0 \/ Cardinality(S) < MaxFeatures
                                          THEN Cardinality(S) ELSE MaxFeatures
               /\ \A h \in DOMAIN V, g \in S \ DOMAIN V : More(dfs, h, g)
<1> DEFINE S == {h \in DOMAIN dfs : dfs[h] \in MinDf .. MaxDf}
           V == Vocabulary(dfs)
<1>1. V = [h \in Largest(dfs, S) |-> dfs[h]]
  BY DEF Vocabulary, Within
<1>2. Ranked(dfs, S)
  BY PartRanked
<1>3. /\ Largest(dfs, S) \subseteq S
      /\ Cardinality(Largest(dfs, S)) = IF MaxFeatures = 0 \/ Cardinality(S) < MaxFeatures
                                        THEN Cardinality(S) ELSE MaxFeatures
      /\ \A h \in Largest(dfs, S), g \in S \ Largest(dfs, S) : More(dfs, h, g)
  <2> HIDE DEF S
  <2> QED
    BY <1>2, LargestAre
<1>4. DOMAIN V = Largest(dfs, S) /\ \A h \in Largest(dfs, S) : V[h] = dfs[h]
  BY <1>1
<1> HIDE DEF V, S
<1>5. /\ V = [h \in DOMAIN V |-> dfs[h]] /\ DOMAIN V \subseteq S
      /\ \A h \in DOMAIN V : V[h] = dfs[h]
      /\ Cardinality(DOMAIN V) = IF MaxFeatures = 0 \/ Cardinality(S) < MaxFeatures
                                          THEN Cardinality(S) ELSE MaxFeatures
      /\ \A h \in DOMAIN V, g \in S \ DOMAIN V : More(dfs, h, g)
  BY <1>1, <1>3, <1>4
<1> QED
  BY <1>5 DEF V, S

\* What is counted of a term is what its bucket holds.
LEMMA CountsAre ==
    ASSUME NEW files \in FilesOf(Term), InPlace(files, DfB)
    PROVE  LET C == Counts(files.main)
           IN  /\ DOMAIN C = {h \in Term : InMain(files, DfB, h) > 0}
               /\ \A h \in DOMAIN C : C[h] = InMain(files, DfB, h) /\ C[h] \in Nat
<1> DEFINE C == Counts(files.main)
           terms == UNION {DOMAIN files.main[b].records : b \in Bucket}
           per(h) == [b \in Bucket |-> Copies(h, files.main[b].records)]
<1>0. \A b \in Bucket : files.main[b].records \in Bag(Term)
  <2>1. PICK t \in Thread : TRUE
    BY ThreadsAre
  <2> QED
    BY <2>1, FilesAre
<1>1. C = [h \in terms |-> SumFunction(per(h))]
  BY DEF Counts
<1>2. ASSUME NEW h \in Term
      PROVE  /\ h \in terms <=> InMain(files, DfB, h) > 0
             /\ SumFunction(per(h)) = InMain(files, DfB, h) /\ InMain(files, DfB, h) \in Nat
  <2> DEFINE w == per(h)
             b == DfB[h]
  <2>1. b \in Bucket /\ InMain(files, DfB, h) = w[b]
    BY BucketsAre DEF Placed, InMain
  <2>2. \A c \in Bucket : w[c] \in Nat /\ (w[c] > 0 <=> h \in DOMAIN files.main[c].records)
    BY <1>0, CopiesAre
  <2>3. \A c \in Bucket \ {b} : w[c] = 0
    <3>1. \A c \in Bucket \ {b} : h \notin DOMAIN files.main[c].records
      BY DEF InPlace
    <3> QED
      BY <2>2, <3>1
  <2>4. IsFiniteSet(Bucket)
    BY SizeAssumption, FS_Interval DEF Bucket
  <2>5. SumFunction(w) = Total(w, Bucket)
    BY DEF SumFunction, Total
  <2> HIDE DEF w
  <2>6. Total(w, Bucket \ {b}) = 0
    <3>1. IsFiniteSet(Bucket \ {b})
      BY <2>4, FS_Subset
    <3> QED
      BY <2>3, <3>1, TotalZero
  <2>7. Total(w, Bucket) = w[b] + Total(w, Bucket \ {b}) /\ w[b] \in Nat
    <3>1. Sized(w, Bucket)
      BY <2>2, <2>4 DEF Sized
    <3>2. \A x \in Bucket : Total(w, Bucket) = w[x] + Total(w, Bucket \ {x}) /\ w[x] \in Nat
      BY <3>1, TotalOne
    <3> QED
      BY <2>1, <3>2
  <2>8. SumFunction(w) = InMain(files, DfB, h) /\ InMain(files, DfB, h) \in Nat
    BY <2>1, <2>5, <2>6, <2>7
  <2>9. h \in terms <=> w[b] > 0
    <3>1. ASSUME h \in terms PROVE w[b] > 0
      <4>1. PICK c \in Bucket : h \in DOMAIN files.main[c].records
        BY <3>1
      <4> QED
        BY <2>1, <2>2, <2>3, <4>1
    <3>2. ASSUME w[b] > 0 PROVE h \in terms
      BY <2>1, <2>2, <3>2
    <3> QED
      BY <3>1, <3>2
  <2> QED
    BY <2>1, <2>8, <2>9 DEF w
<1>3. terms \subseteq Term
  BY <1>0, BagIs
<1> HIDE DEF terms, per
<1>4. DOMAIN C = terms /\ \A h \in terms : C[h] = SumFunction(per(h))
  BY <1>1
<1> HIDE DEF C
<1>5. /\ DOMAIN C = {h \in Term : InMain(files, DfB, h) > 0}
      /\ \A h \in DOMAIN C : C[h] = InMain(files, DfB, h) /\ C[h] \in Nat
  BY <1>2, <1>3, <1>4
<1> QED
  BY <1>5 DEF C

-----------------------------------------------------------------------------
(* What a step leaves alone keeps its part of the invariant.               *)

PostStages == {"post", "mergePost", "emit"}
LastStages == {"publish", "published"}

LEMMA FrameTorn ==
    ASSUME TornOK, work'.df = work.df, work'.post = work.post, history' = history
    PROVE  TornOK'
  BY DEF TornOK, ExactDf, ExactPost, Died

LEMMA FrameDf ==
    ASSUME DfOK, work.done, work'.done, work'.df = work.df, work'.dfDir = work.dfDir, history' = history
    PROVE  DfOK'
  BY DEF DfOK, ExactDf, Unharmed, Died

LEMMA FrameVocab ==
    ASSUME VocabOK, work'.vocab = work.vocab, work'.dfs = work.dfs, history' = history
    PROVE  VocabOK'
  BY DEF VocabOK, ExactDf, Unharmed, Died

LEMMA FramePostB ==
    ASSUME work'.dfs = work.dfs PROVE PostB' = PostB /\ PostKeys' = PostKeys
  BY DEF PostB, PostKeys, PostBucket, TermId

LEMMA FramePost ==
    ASSUME PostOK, work'.post = work.post, work'.dfs = work.dfs, history' = history,
           job.at \notin PostStages, job'.at \notin PostStages
    PROVE  PostOK'
<1>1. PostB' = PostB
  BY FramePostB
<1> QED
 BY <1>1 DEF PostOK, ExactPost, Unharmed, Died, At, PostStages

\* No posting files.
LEMMA NoPosts ==
    ASSUME work'.post = NoFiles, job'.at \notin PostStages
    PROVE  PostOK'
 BY NoFilesAre DEF PostOK, At, PostStages

LEMMA FramePosts ==
    ASSUME job'.posts = EmptyBag, job'.at \notin LastStages \cup {"emit"}
    PROVE  PostsOK'
 BY EmptyIs DEF PostsOK, At, LastStages

LEMMA FrameRows ==
    ASSUME RowsOK, store' = store, work'.dfs = work.dfs, job'.rows = job.rows, job'.pending = job.pending,
           job.at \in LastStages \cup PostStages
    PROVE  RowsOK'
 BY DEF RowsOK, LastStages, PostStages

LEMMA NoRows ==
    ASSUME job'.at \notin LastStages \cup PostStages
    PROVE  RowsOK'
 BY DEF RowsOK, LastStages, PostStages

-----------------------------------------------------------------------------
(* The steps of the phases between the files.                              *)

\* No build, and no directory.
Fresh == /\ store \in Stores /\ work = NoWork /\ job = Idle /\ history = NoHistory
         /\ deaths = 0 /\ changes \in 0 .. Changes

LEMMA FreshInv == Fresh => TfidfInv
<1> SUFFICES ASSUME Fresh PROVE TfidfInv
  OBVIOUS
<1> USE DEF Fresh
<1>1. Typed
  <2>1. NoFiles \in FilesOf(Term) /\ NoFiles \in FilesOf(Term \X Doc)
    BY NoFilesAre
  <2>2. NoVocabulary \in Bag(Term)
    <3>1. NoVocabulary = [k \in DOMAIN NoVocabulary |-> NoVocabulary[k]] /\ DOMAIN NoVocabulary = {}
      BY DEF NoVocabulary
    <3> QED
      BY <3>1, BagIs
  <2>3. EmptyBag \in Bag(Term \X Doc)
    BY EmptyIs
  <2>4. NoWork \in [progress : SUBSET Unit, begun : BOOLEAN, done : BOOLEAN, dfDir : BOOLEAN,
                 df : FilesOf(Term), post : FilesOf(Term \X Doc),
                 vocab : Saved, dfs : Bag(Term), idf : Saved, termid : Saved]
    BY <2>1, <2>2 DEF NoWork, Saved
  <2>5. Idle \in [at : Stage, threads : Thread, pending : SUBSET Unit,
                task : [Thread -> [unit : SUBSET Unit, left : SUBSET Bucket]],
                bucket : 0 .. Buckets, thread : Thread, copied : BOOLEAN,
                rows : SUBSET Doc, posts : Bag(Term \X Doc)]
    BY <2>3, SizeAssumption, ThreadsAre DEF Idle, NoTask, Stage
  <2> QED
    BY <2>4, <2>5, SizeAssumption DEF Typed, NoHistory
<1>2. TasksOK /\ PlaceOK /\ StageOK /\ RowsOK
  BY SizeAssumption, ThreadsAre DEF TasksOK, PlaceOK, StageOK, RowsOK, Idle, NoWork, NoHistory, At, NoTask, Merging, Counting
<1>3. TornOK /\ VocabOK
  BY NoFilesAre DEF TornOK, VocabOK, NoWork
<1>4. DfOK
  BY NoFilesAre DEF DfOK, NoWork, NoHistory, Idle, At
<1>5. PostOK /\ PostsOK
  BY NoFilesAre, EmptyIs DEF PostOK, PostsOK, NoWork, NoHistory, Idle, At
<1> QED
  BY <1>1, <1>2, <1>3, <1>4, <1>5 DEF TfidfInv

LEMMA WriteIdfStep == ASSUME TfidfInv, WriteIdf PROVE TfidfInv'
<1> USE DEF TfidfInv, WriteIdf, At
<1>1. Typed'
  BY DEF Typed, Stage, Saved
<1>2. TasksOK'
  BY DEF TasksOK, Counting, Typed
<1>3. PlaceOK'
  BY DEF PlaceOK, Merging, Typed
<1>4. StageOK'
  BY DEF StageOK, Typed, Whole3, ExactDf, Died
<1>5. TornOK' /\ VocabOK'
  BY FrameTorn, FrameVocab DEF Typed
<1>6. DfOK'
  BY FrameDf DEF Typed, StageOK
<1>7. PostOK'
  BY FramePost DEF Typed, PostStages
<1>8. PostsOK' /\ RowsOK'
  BY FramePosts, NoRows DEF PlaceOK, Typed, LastStages, PostStages
<1> QED
  BY <1>1, <1>2, <1>3, <1>4, <1>5, <1>6, <1>7, <1>8

LEMMA WriteTermIdStep == ASSUME TfidfInv, WriteTermId PROVE TfidfInv'
<1> USE DEF TfidfInv, WriteTermId, At
<1>1. Typed'
  BY DEF Typed, Stage, Saved
<1>2. TasksOK'
  BY DEF TasksOK, Counting, Typed
<1>3. PlaceOK'
  BY DEF PlaceOK, Merging, Typed
<1>4. StageOK'
  BY DEF StageOK, Typed, Whole3, ExactDf, Died
<1>5. TornOK' /\ VocabOK'
  BY FrameTorn, FrameVocab DEF Typed
<1>6. DfOK'
  BY FrameDf DEF Typed, StageOK
<1>7. PostOK'
  BY FramePost DEF Typed, PostStages
<1>8. PostsOK' /\ RowsOK'
  BY FramePosts, NoRows DEF PlaceOK, Typed, LastStages, PostStages
<1> QED
  BY <1>1, <1>2, <1>3, <1>4, <1>5, <1>6, <1>7, <1>8

LEMMA WriteIndexStep == ASSUME TfidfInv, WriteIndexFile PROVE TfidfInv'
<1> USE DEF TfidfInv, WriteIndexFile, At
<1>0. work' = work /\ history' = history /\ store' = store
  OBVIOUS
<1>1. Typed'
  BY DEF Typed, Stage
<1>2. TasksOK'
  BY DEF TasksOK, Counting, Typed
<1>3. PlaceOK'
  BY DEF PlaceOK, Merging, Typed
<1>4. StageOK'
  BY DEF StageOK, Typed, Whole3, ExactDf, Died
<1>5. TornOK' /\ VocabOK'
  BY FrameTorn, FrameVocab DEF Typed
<1>6. DfOK'
  BY FrameDf DEF Typed, StageOK
<1>7. PostOK'
  BY FramePost DEF Typed, PostStages
<1>8. PostsOK'
  <2>1. PostB' = PostB /\ PostKeys' = PostKeys /\ (ExactPost <=> ExactPost') /\ (Unharmed <=> Unharmed')
    BY <1>0, FramePostB DEF ExactPost, Unharmed, Died
  <2>2. job'.posts = job.posts /\ job'.at = "published"
    BY DEF Typed
  <2> QED
    BY <1>0, <2>1, <2>2 DEF PostsOK
<1>9. RowsOK'
  BY FrameRows DEF Typed, LastStages
<1> QED
  BY <1>1, <1>2, <1>3, <1>4, <1>5, <1>6, <1>7, <1>8, <1>9

\* No postings have been written, and no unit counts.
LEMMA NothingPosted ==
    ASSUME Typed, Typed', PlaceOK', PostOK, job.at \notin PostStages,
           work'.post = work.post, work'.dfs = work.dfs, history' = history,
           job'.at = "post", job'.pending = Unit, ~ job'.copied
    PROVE  PostOK'
<1>1. PostB' = PostB /\ ExactPost' = ExactPost /\ Unharmed' = Unharmed
  BY FramePostB DEF ExactPost, Unharmed, Died
<1>2. DOMAIN work.dfs \subseteq Term
  BY BagIs DEF Typed
<1>3. Placed(PostB) /\ DOMAIN PostB = (DOMAIN work.dfs) \X Doc
  BY <1>2, PostBuckets
<1>4. ASSUME NEW s \in Stores, ExactPost => work.post = NoFiles
      PROVE  Ledger(work.post, PostB, PostRows(s), Counted', ExactPost, job'.bucket, 0)
  <2> SUFFICES ASSUME NEW k \in DOMAIN PostB
               PROVE  /\ Stored(work.post, PostB, k, 0) >= Total(PostRows(s)[k], Counted'[PostB[k]])
                      /\ ExactPost => Stored(work.post, PostB, k, 0) = Total(PostRows(s)[k], Counted'[PostB[k]])
    <3>1. \A k \in DOMAIN PostB : (IF PostB[k] = job'.bucket THEN 0 ELSE 0) = 0
      OBVIOUS
    <3> QED
      BY <3>1, LedgerIs
  <2>1. PostB[k] \in Bucket
    BY <1>3 DEF Placed
  <2>2. Counted'[PostB[k]] = {}
    BY <2>1 DEF Counted, CountedBy, At
  <2>3. Total(PostRows(s)[k], Counted'[PostB[k]]) = 0
    BY <2>2, TotalOf
  <2>4. work.post \in FilesOf(Term \X Doc)
    BY DEF Typed
  <2>5. Stored(work.post, PostB, k, 0) \in Nat
    BY <2>1, <2>4, StoredIs
  <2>6. ASSUME ExactPost PROVE Stored(work.post, PostB, k, 0) = 0
    <3>1. work.post = NoFiles
      BY <1>4, <2>6
    <3>2. InMain(work.post, PostB, k) = 0
      BY <2>1, <3>1, NoFilesAre, NoFileIs, EmptyIs DEF InMain
    <3>3. \A t \in Thread : InThreads(work.post, PostB, k, 0)[t] = 0
      BY <2>1, <3>1, NoFilesAre, NoFileIs, EmptyIs DEF InThreads
    <3>4. Total(InThreads(work.post, PostB, k, 0), Thread) = 0
      BY <3>3, ThreadsAre, TotalZero
    <3> QED
      BY <3>2, <3>4 DEF Stored
  <2> QED
    BY <2>3, <2>5, <2>6
<1>5. Skip("mergePost")' = 0
  BY DEF Skip, At
<1>6. ExactPost => work.post = NoFiles
  BY DEF PostOK, PostStages
<1> QED
  BY <1>1, <1>4, <1>5, <1>6 DEF PostOK, At, PostStages

LEMMA LoadVocabularyStep == ASSUME TfidfInv, LoadVocabulary PROVE TfidfInv'
<1> USE DEF TfidfInv, LoadVocabulary, StartPosting, At
<1>1. Typed'
  BY DEF Typed, Stage
<1>2. TasksOK'
  BY DEF TasksOK, Counting, Typed
<1>3. PlaceOK'
  BY DEF PlaceOK, Merging, Typed
<1>4. StageOK'
  BY DEF StageOK, Typed, Whole3, ExactDf, Died
<1>5. TornOK' /\ VocabOK'
  BY FrameTorn, FrameVocab DEF Typed
<1>6. DfOK'
  BY FrameDf DEF Typed, StageOK
<1>7. PostOK'
  <2>1. job'.at = "post" /\ job'.pending = Unit /\ ~ job'.copied
    BY DEF Typed, PlaceOK, Merging
  <2> QED
    BY <1>1, <1>3, <2>1, NothingPosted DEF PostStages
<1>8. PostsOK' /\ RowsOK'
  <2>1. job'.rows = {} /\ job'.pending = Unit
    BY DEF PlaceOK, Typed
  <2>2. RowsOK'
    BY <2>1 DEF RowsOK
  <2> QED
    BY <2>2, FramePosts DEF PlaceOK, Typed, LastStages
<1> QED
  BY <1>1, <1>2, <1>3, <1>4, <1>5, <1>6, <1>7, <1>8

LEMMA DropDfStep == ASSUME TfidfInv, DropDf PROVE TfidfInv'
<1> USE DEF TfidfInv, DropDf, StartPosting, At
<1>1. Typed'
  BY NoFilesAre DEF Typed, Stage
<1>2. TasksOK'
  BY DEF TasksOK, Counting, Typed
<1>3. PlaceOK'
  BY DEF PlaceOK, Merging, Typed
<1>4. StageOK'
  BY DEF StageOK, Typed, Whole3, ExactDf, Died
<1>5. TornOK' /\ VocabOK'
  BY FrameVocab, NoFilesAre DEF Typed, TornOK, ExactPost, Died
<1>6. DfOK'
  <2>1. work'.df = NoFiles /\ work'.done /\ ~ work'.dfDir
    BY DEF Typed, StageOK
  <2> QED
    BY <2>1, NoFilesAre DEF DfOK
<1>7. PostOK'
  <2>1. job'.at = "post" /\ job'.pending = Unit /\ ~ job'.copied /\ work'.post = work.post /\ work'.dfs = work.dfs
    BY DEF Typed, PlaceOK, Merging
  <2> QED
    BY <1>1, <1>3, <2>1, NothingPosted DEF PostStages
<1>8. PostsOK' /\ RowsOK'
  <2>1. job'.rows = {} /\ job'.pending = Unit
    BY DEF PlaceOK, Typed
  <2>2. RowsOK'
    BY <2>1 DEF RowsOK
  <2> QED
    BY <2>2, FramePosts DEF PlaceOK, Typed, LastStages
<1> QED
  BY <1>1, <1>2, <1>3, <1>4, <1>5, <1>6, <1>7, <1>8

LEMMA FailStep == ASSUME TfidfInv, Fail PROVE TfidfInv'
<1> USE DEF TfidfInv, Fail, At
<1>0. /\ work' = work /\ history' = history /\ store' = store /\ job' = Idle /\ deaths' = deaths + 1
      /\ changes' = changes /\ job.at \in {"select", "emit"}
  OBVIOUS
<1>1. Typed'
  <2>1. Idle \in [at : Stage, threads : Thread, pending : SUBSET Unit,
                task : [Thread -> [unit : SUBSET Unit, left : SUBSET Bucket]],
                bucket : 0 .. Buckets, thread : Thread, copied : BOOLEAN,
                rows : SUBSET Doc, posts : Bag(Term \X Doc)]
    BY EmptyIs, SizeAssumption, ThreadsAre DEF Idle, NoTask, Stage
  <2>2. deaths + 1 \in 0 .. MaxDeaths + 1
    BY <1>0, SizeAssumption DEF PlaceOK, Typed
  <2> QED
    BY <1>0, <2>1, <2>2 DEF Typed
<1>2. TasksOK' /\ PlaceOK'
  BY <1>0, SizeAssumption, ThreadsAre DEF TasksOK, PlaceOK, Idle, Counting, Merging
<1>3. job'.at = "idle"
  BY <1>0 DEF Idle
<1>4. StageOK'
  BY <1>0, <1>3 DEF StageOK, Whole3
<1>5. TornOK' /\ VocabOK'
  BY FrameTorn, FrameVocab DEF Typed
<1>6. DfOK'
  BY <1>0, FrameDf DEF Typed, StageOK
<1>7. PostOK'
  <2>1. CASE job.at = "select"
    BY <1>0, <1>3, <2>1, FramePost DEF PostStages
  <2>2. CASE job.at = "emit"
    <3>1. ~ ExactPost
      BY <2>2 DEF TornOK, Untorn
    <3>2. PostB' = PostB /\ ExactPost' = ExactPost /\ Unharmed' = Unharmed
      BY <1>0, FramePostB DEF ExactPost, Unharmed, Died
    <3> QED
      BY <1>0, <1>3, <3>1, <3>2 DEF PostOK
  <2> QED
    BY <1>0, <2>1, <2>2
<1>8. PostsOK' /\ RowsOK'
  BY FramePosts, NoRows DEF LastStages, PostStages, Idle
<1> QED
  BY <1>1, <1>2, <1>4, <1>5, <1>6, <1>7, <1>8

\* The vocabulary is chosen.
LEMMA ChosenIs ==
    ASSUME NEW files \in FilesOf(Term), InPlace(files, DfB)
    PROVE  LET V == Vocabulary(Counts(files.main))
           IN  /\ V \in Bag(Term)
               /\ \A s \in Stores : \A exact : Merged(files, DfB, DfRows(s), exact) =>
                     /\ \A h \in DOMAIN V : V[h] >= Total(DfRows(s)[h], Unit)
                     /\ exact => Chosen(s, V)
<1> DEFINE C == Counts(files.main)
           V == Vocabulary(C)
           S == {h \in DOMAIN C : C[h] \in MinDf .. MaxDf}
<1>1. /\ DOMAIN C = {h \in Term : InMain(files, DfB, h) > 0}
      /\ \A h \in DOMAIN C : C[h] = InMain(files, DfB, h) /\ C[h] \in Nat
  BY CountsAre
<1> HIDE DEF C
<1>2. Ranked(C, DOMAIN C)
  BY <1>1 DEF Ranked
<1>3. /\ V = [h \in DOMAIN V |-> C[h]] /\ DOMAIN V \subseteq S
      /\ \A h \in DOMAIN V : V[h] = C[h]
      /\ Cardinality(DOMAIN V) = IF MaxFeatures = 0 \/ Cardinality(S) < MaxFeatures
                                 THEN Cardinality(S) ELSE MaxFeatures
      /\ \A h \in DOMAIN V, g \in S \ DOMAIN V : More(C, h, g)
  BY <1>2, VocabularyIs
<1> HIDE DEF V
<1>4. V \in Bag(Term)
  <2>1. DOMAIN V \subseteq Term /\ \A h \in DOMAIN V : V[h] \in Nat /\ V[h] > 0
    BY <1>1, <1>3
  <2>2. V = [h \in DOMAIN V |-> V[h]]
    BY <1>3
  <2> QED
    BY <2>1, <2>2, BagIs
<1>5. ASSUME NEW s \in Stores, NEW exact, Merged(files, DfB, DfRows(s), exact)
      PROVE  /\ \A h \in DOMAIN V : V[h] >= Total(DfRows(s)[h], Unit)
             /\ exact => Chosen(s, V)
  <2>1. \A h \in Term : /\ InMain(files, DfB, h) >= Total(DfRows(s)[h], Unit)
                        /\ exact => InMain(files, DfB, h) = Total(DfRows(s)[h], Unit)
    BY <1>5, BucketsAre DEF Merged
  <2>2. \A h \in DOMAIN V : V[h] >= Total(DfRows(s)[h], Unit)
    BY <1>1, <1>3, <2>1
  <2>3. ASSUME exact PROVE Chosen(s, V)
    <3> DEFINE df(h) == Total(DfRows(s)[h], Unit)
               fit == {h \in Term : df(h) > 0 /\ df(h) \in MinDf .. MaxDf}
    <3>1. \A h \in Term : InMain(files, DfB, h) = df(h)
      BY <2>1, <2>3
    <3> HIDE DEF df
    <3>2. fit = S /\ \A h \in S : C[h] = df(h) /\ h \in Term
      BY <1>1, <3>1
    <3>3. \A h \in DOMAIN V : V[h] = df(h) /\ h \in S
      BY <1>3, <3>2
    <3>4. \A h \in DOMAIN V, g \in S \ DOMAIN V : df(g) < df(h) \/ (df(g) = df(h) /\ h < g)
      <4> SUFFICES ASSUME NEW h \in DOMAIN V, NEW g \in S \ DOMAIN V
                   PROVE  df(g) < df(h) \/ (df(g) = df(h) /\ h < g)
        OBVIOUS
      <4>1. C[h] > C[g] \/ (C[h] = C[g] /\ h < g)
        BY <1>3 DEF More
      <4>2. h \in S /\ C[h] = df(h) /\ C[g] = df(g) /\ C[h] \in Nat /\ C[g] \in Nat
        BY <1>1, <3>2, <3>3
      <4> QED
        BY <4>1, <4>2
    <3> HIDE DEF S
    <3>5. /\ \A h \in DOMAIN V : V[h] = df(h)
          /\ DOMAIN V \subseteq fit
          /\ Cardinality(DOMAIN V) =
              IF MaxFeatures = 0 \/ Cardinality(fit) < MaxFeatures THEN Cardinality(fit) ELSE MaxFeatures
          /\ \A h \in DOMAIN V, g \in fit \ DOMAIN V : df(g) < df(h) \/ (df(g) = df(h) /\ h < g)
      BY <1>3, <3>2, <3>3, <3>4
    <3> QED
      BY <3>5, Zenon DEF Chosen, df, fit
  <2> QED
    BY <2>2, <2>3
<1> QED
  BY <1>4, <1>5 DEF V, C

LEMMA WriteVocabStep == ASSUME TfidfInv, WriteVocab PROVE TfidfInv'
<1> USE DEF TfidfInv, At
<1> DEFINE V == Vocabulary(Counts(work.df.main))
<1>0. /\ work.vocab = "none" /\ work.dfDir /\ job.at = "select"
      /\ work' = [work EXCEPT !.vocab = "whole", !.dfs = V]
      /\ job' = [job EXCEPT !.at = "idf"]
      /\ store' = store /\ history' = history /\ deaths' = deaths /\ changes' = changes
  BY DEF WriteVocab
<1>a. /\ V \in Bag(Term)
      /\ \A s \in Stores : \A exact : Merged(work.df, DfB, DfRows(s), exact) =>
                     /\ \A h \in DOMAIN V : V[h] >= Total(DfRows(s)[h], Unit)
                     /\ exact => Chosen(s, V)
  <2>1. work.df \in FilesOf(Term) /\ InPlace(work.df, DfB)
    BY DEF Typed, DfOK
  <2> QED
    BY <2>1, ChosenIs
<1> HIDE DEF V
<1>b. /\ work'.vocab = "whole" /\ work'.dfs = V /\ work'.done = work.done /\ work'.dfDir = work.dfDir
      /\ work'.df = work.df /\ work'.post = work.post /\ work'.idf = work.idf /\ work'.termid = work.termid
      /\ work'.progress = work.progress /\ work'.begun = work.begun /\ work.done
      /\ job'.at = "idf" /\ job'.pending = job.pending /\ job'.task = job.task /\ job'.threads = job.threads
  BY <1>0 DEF Typed, StageOK
<1>1. Typed'
  BY <1>0, <1>a DEF Typed, Stage, Saved
<1>2. TasksOK'
  BY <1>0 DEF TasksOK, Counting, Typed
<1>3. PlaceOK'
  BY <1>0 DEF PlaceOK, Merging, Typed
<1>4. StageOK'
  BY <1>0, <1>b DEF StageOK, Whole3, PlaceOK
<1>5. TornOK'
  BY <1>0, <1>b, FrameTorn
<1>6. DfOK'
  BY <1>0, <1>b, FrameDf
<1>7. VocabOK'
  <2>1. ExactDf' = ExactDf /\ Unharmed' = Unharmed
    BY <1>0 DEF ExactDf, Unharmed, Died
  <2>2. ASSUME NEW s \in Stores, history.stores = {s}
        PROVE  /\ Unharmed => \A h \in DOMAIN V : V[h] >= Total(DfRows(s)[h], Unit)
               /\ ExactDf => Chosen(s, V)
    <3>1. ExactDf \/ Unharmed => Merged(work.df, DfB, DfRows(s), ExactDf)
      BY <1>0, <1>b, <2>2 DEF DfOK
    <3>2. Merged(work.df, DfB, DfRows(s), ExactDf) =>
                     /\ \A h \in DOMAIN V : V[h] >= Total(DfRows(s)[h], Unit)
                     /\ ExactDf => Chosen(s, V)
      BY <1>a
    <3> QED
      BY <3>1, <3>2
  <2> QED
    BY <1>0, <1>b, <2>1, <2>2 DEF VocabOK
<1>8. PostOK'
  BY <1>0, <1>b, NoPosts DEF StageOK, PostStages
<1>9. PostsOK' /\ RowsOK'
  BY <1>0, FramePosts, NoRows DEF PlaceOK, Typed, LastStages, PostStages
<1> QED
  BY <1>1, <1>2, <1>3, <1>4, <1>5, <1>6, <1>7, <1>8, <1>9

LEMMA InitInv == Init => TfidfInv
<1>1. Init => Fresh
  BY SizeAssumption DEF Init, Fresh
<1> QED
  BY <1>1, FreshInv

LEMMA ClearStep == ASSUME TfidfInv, ClearWork \/ RemoveWork PROVE TfidfInv'
<1>1. Fresh'
  BY DEF ClearWork, RemoveWork, TfidfInv, PlaceOK, Typed, Fresh, At
<1>2. (Fresh => TfidfInv)'
  BY FreshInv, PTL
<1> QED
  BY <1>1, <1>2

LEMMA ReplaceStep == ASSUME TfidfInv, ReplaceStore PROVE TfidfInv'
<1> USE DEF TfidfInv, At
<1>0. /\ job.at = "idle" /\ store' \in Stores /\ changes' = changes + 1 /\ changes < Changes
      /\ work' = work /\ job' = job /\ history' = history /\ deaths' = deaths
  BY DEF ReplaceStore
<1>1. Typed'
  BY <1>0, SizeAssumption DEF Typed
<1>2. TasksOK' /\ PlaceOK' /\ StageOK'
  BY <1>0 DEF TasksOK, PlaceOK, StageOK, ExactDf, Died, Whole3
<1>3. TornOK' /\ VocabOK'
  BY <1>0, FrameTorn, FrameVocab
<1>4. DfOK'
  <2>1. DfB' = DfB /\ ExactDf' = ExactDf /\ Unharmed' = Unharmed /\ Counted' = Counted
    BY <1>0 DEF ExactDf, Unharmed, Died, Counted
  <2>2. Skip("mergeDf")' = Skip("mergeDf")
    BY <1>0 DEF Skip
  <2> QED
    BY <1>0, <2>1, <2>2 DEF DfOK
<1>5. PostOK'
  BY <1>0, FramePost DEF PostStages
<1>6. PostsOK' /\ RowsOK'
  BY <1>0, FramePosts, NoRows DEF PlaceOK, LastStages, PostStages
<1> QED
  BY <1>1, <1>2, <1>3, <1>4, <1>5, <1>6

-----------------------------------------------------------------------------
(* A build starts.                                                         *)

LEMMA StartStep == ASSUME TfidfInv, Start PROVE TfidfInv'
<1> USE DEF TfidfInv, At
<1> DEFINE w == IF Resuming THEN work ELSE NoWork
<1>1. PICK n \in Thread :
         /\ work' = IF w.done THEN w ELSE [w EXCEPT !.begun = TRUE, !.dfDir = TRUE]
         /\ job' = [Idle EXCEPT !.threads = n,
                            !.at = IF w.done THEN "select" ELSE "count",
                            !.pending = Unit \ w.progress]
         /\ history' = IF ~ Resuming
                            THEN [stores |-> {store}, died |-> {}, threads |-> n]
                            ELSE [stores |-> history.stores \cup {store}, threads |-> n,
                                  died |-> history.died \cup
                                           (IF n < history.threads THEN {"fewer"} ELSE {})]
  BY Zenon DEF Start
<1>2. /\ job.at = "idle" /\ deaths <= MaxDeaths
      /\ store' = store /\ deaths' = deaths /\ changes' = changes
  BY DEF Start
<1>3. Typed /\ job = Idle
  BY <1>2 DEF PlaceOK
<1>a. w \in [progress : SUBSET Unit, begun : BOOLEAN, done : BOOLEAN, dfDir : BOOLEAN,
                 df : FilesOf(Term), post : FilesOf(Term \X Doc),
                 vocab : Saved, dfs : Bag(Term), idf : Saved, termid : Saved]
  <2>1. NoFiles \in FilesOf(Term) /\ NoFiles \in FilesOf(Term \X Doc)
    BY NoFilesAre
  <2>2. NoVocabulary \in Bag(Term)
    <3>1. NoVocabulary = [k \in DOMAIN NoVocabulary |-> NoVocabulary[k]] /\ DOMAIN NoVocabulary = {}
      BY DEF NoVocabulary
    <3> QED
      BY <3>1, BagIs
  <2>3. NoWork \in [progress : SUBSET Unit, begun : BOOLEAN, done : BOOLEAN, dfDir : BOOLEAN,
                 df : FilesOf(Term), post : FilesOf(Term \X Doc),
                 vocab : Saved, dfs : Bag(Term), idf : Saved, termid : Saved]
    BY <2>1, <2>2 DEF NoWork, Saved
  <2> QED
    BY <1>3, <2>3 DEF Typed
<1>b. ~ Resuming => w = NoWork /\ ~ w.done /\ w.vocab = "none" /\ w.post = NoFiles /\ w.df = NoFiles
                    /\ w.progress = {}
  BY DEF NoWork
<1>c. Resuming => w = work
  OBVIOUS
<1> HIDE DEF w
<1>4. /\ work'.progress = w.progress /\ work'.done = w.done /\ work'.df = w.df /\ work'.post = w.post
      /\ work'.vocab = w.vocab /\ work'.dfs = w.dfs /\ work'.idf = w.idf /\ work'.termid = w.termid
      /\ w.done => work'.dfDir = w.dfDir
      /\ ~ w.done => work'.dfDir /\ work'.begun
  BY <1>1, <1>a
<1>5. /\ job'.threads = n /\ job'.at = (IF w.done THEN "select" ELSE "count")
      /\ job'.pending = Unit \ w.progress /\ job'.bucket = 0 /\ job'.thread = 1 /\ ~ job'.copied
      /\ job'.rows = {} /\ job'.posts = EmptyBag /\ job'.task = [t \in Thread |-> NoTask]
  BY <1>1 DEF Idle
<1>6. /\ history'.threads = n /\ store \in history'.stores
      /\ ~ Resuming => history'.stores = {store} /\ history'.died = {}
      /\ Resuming => /\ history'.stores = history.stores \cup {store}
                     /\ history'.died \subseteq history.died \cup {"fewer"}
                     /\ history.died \subseteq history'.died
                     /\ n < history.threads => "fewer" \in history'.died
  BY <1>1
<1>7. Resuming => /\ history.stores # {}
                  /\ ExactDf' = ExactDf /\ ExactPost' = ExactPost /\ (Unharmed' => Unharmed)
                  /\ Unharmed' => n >= history.threads
  <2>1. ASSUME Resuming PROVE history.stores # {}
    <3>1. work # NoWork
      BY <2>1 DEF Resuming, NoWork
    <3> QED
      BY <3>1 DEF StageOK
  <2>2. history.threads \in Nat /\ n \in Nat
    BY <1>3, ThreadsAre DEF Typed
  <2> QED
    BY <1>6, <2>1, <2>2 DEF ExactDf, ExactPost, Unharmed, Died
<1>8. Typed'
  <2>1. work' \in [progress : SUBSET Unit, begun : BOOLEAN, done : BOOLEAN, dfDir : BOOLEAN,
                 df : FilesOf(Term), post : FilesOf(Term \X Doc),
                 vocab : Saved, dfs : Bag(Term), idf : Saved, termid : Saved]
    BY <1>1, <1>a
  <2>2. job' \in [at : Stage, threads : Thread, pending : SUBSET Unit,
                task : [Thread -> [unit : SUBSET Unit, left : SUBSET Bucket]],
                bucket : 0 .. Buckets, thread : Thread, copied : BOOLEAN,
                rows : SUBSET Doc, posts : Bag(Term \X Doc)]
    BY <1>1, <1>3, <1>a DEF Typed, Stage
  <2>3. history' \in [stores : SUBSET Stores, died : SUBSET (Stage \cup {"torn", "fewer"}),
                    threads : Thread \cup {0}]
    BY <1>1, <1>3 DEF Typed
  <2> QED
    BY <1>2, <1>3, <2>1, <2>2, <2>3 DEF Typed
<1>9. TasksOK' /\ PlaceOK'
  <2>1. \A t \in Thread : job'.task[t] = NoTask
    BY <1>5
  <2>2. work.done => work.progress = Unit
    BY DEF StageOK
  <2>3. w.done => w.progress = Unit
    BY <1>b, <1>c, <2>2
  <2>4. NoTask.unit = {}
    BY DEF NoTask
  <2>5. w.progress \subseteq Unit
    BY <1>a
  <2>6. TasksOK'
    BY <1>4, <1>5, <2>1, <2>3, <2>4, <2>5 DEF TasksOK, Counting
  <2>7. PlaceOK'
    BY <1>2, <1>5, <1>6, ThreadsAre DEF PlaceOK, Merging
  <2> QED
    BY <2>6, <2>7
<1>10. StageOK'
  <2>1. /\ w.done => w.progress = Unit
        /\ ~ w.done => w.vocab = "none"
        /\ w.vocab = "none" => w.idf = "none" /\ w.termid = "none"
        /\ w.done /\ ~ w.dfDir => {w.vocab, w.idf, w.termid} = {"whole"}
        /\ w.vocab # "whole" => w.post = NoFiles
    <3>1. CASE Resuming
      BY <1>c, <3>1 DEF StageOK, Whole3
    <3>2. CASE ~ Resuming
      BY <1>b, <3>2 DEF NoWork
    <3> QED
      BY <3>1, <3>2
  <2> QED
    BY <1>4, <1>5, <1>6, <2>1 DEF StageOK, Whole3
<1>11. TornOK'
  <2>1. CASE Resuming
    BY <1>4, <1>6, <1>7, <1>c, <2>1 DEF TornOK
  <2>2. CASE ~ Resuming
    BY <1>4, <1>b, <2>2, NoFilesAre DEF TornOK
  <2> QED
    BY <2>1, <2>2
<1>12. VocabOK'
  <2>1. CASE Resuming
    BY <1>4, <1>6, <1>7, <1>c, <2>1 DEF VocabOK
  <2>2. CASE ~ Resuming
    BY <1>4, <1>b, <2>2 DEF VocabOK
  <2> QED
    BY <2>1, <2>2
<1>13. DfOK'
  <2>1. Skip("mergeDf")' = 0 /\ \A b \in Bucket : Counted'[b] = w.progress
    <3>1. ASSUME NEW b \in Bucket PROVE Counted'[b] = w.progress
      <4>1. Counted'[b] = {u \in Unit \ job'.pending :
                          \A t \in Thread : u \in job'.task[t].unit => b \notin job'.task[t].left}
        BY <1>5 DEF Counted, CountedBy
      <4>2. \A t \in Thread : job'.task[t].unit = {}
        BY <1>5 DEF NoTask
      <4> QED
        BY <1>5, <1>a, <4>1, <4>2
    <3> QED
      BY <1>5, <3>1 DEF Skip
  <2>2. CASE Resuming
    <3>1. DfB' = DfB /\ work'.df = work.df /\ work'.done = work.done /\ work'.progress = work.progress
          /\ w.progress = work.progress
      BY <1>4, <1>c, <2>2 DEF DfB
    <3>2. CASE work.done
      BY <1>4, <1>6, <1>7, <1>c, <2>2, <3>1, <3>2 DEF DfOK
    <3>3. CASE ~ work.done
      <4>1. ~ ExactDf /\ ExactDf' = ExactDf
        BY <1>2, <1>7, <2>2, <3>3 DEF StageOK
      <4>2. InPlace(work'.df, DfB')
        BY <3>1 DEF DfOK
      <4>3. ASSUME Unharmed'
            PROVE  /\ Beyond(work'.df, n)
                   /\ \A s \in Stores : history'.stores = {s} =>
                         Ledger(work'.df, DfB, DfRows(s), Counted', ExactDf', 0, 0)
        <5>1. Beyond(work.df, history.threads) /\ n >= history.threads /\ history.threads \in Nat /\ n \in Nat
          BY <1>3, <1>7, <2>2, <3>3, <4>3, ThreadsAre DEF DfOK, Typed
        <5>2. Beyond(work'.df, n)
          BY <3>1, <5>1, ThreadsAre DEF Beyond
        <5>3. ASSUME NEW s \in Stores, history'.stores = {s}
              PROVE  Ledger(work'.df, DfB, DfRows(s), Counted', ExactDf', 0, 0)
          <6>1. history.stores = {s}
            BY <1>6, <1>7, <2>2, <5>3
          <6>2. Skip("mergeDf") = 0 /\ job.bucket = 0
            BY <1>2 DEF Skip, PlaceOK, Merging
          <6>3. Ledger(work.df, DfB, DfRows(s), Counted, ExactDf, 0, 0)
            BY <1>7, <2>2, <3>3, <4>3, <6>1, <6>2 DEF DfOK
          <6>4. \A b \in Bucket : Counted[b] = work.progress
            BY <1>2 DEF Counted
          <6>5. \A k \in DOMAIN DfB : Counted'[DfB[k]] = Counted[DfB[k]]
            BY <2>1, <3>1, <6>4, BucketsAre DEF Placed
          <6>6. \A k \in DOMAIN DfB : Total(DfRows(s)[k], Counted'[DfB[k]]) = Total(DfRows(s)[k], Counted[DfB[k]])
            BY <6>5
          <6> QED
            BY <3>1, <4>1, <6>3, <6>6, CountLedger
        <5> QED
          BY <5>2, <5>3
      <4> QED
        BY <1>5, <1>6, <2>1, <3>1, <3>3, <4>1, <4>2, <4>3 DEF DfOK
    <3> QED
      BY <3>2, <3>3
  <2>3. CASE ~ Resuming
    <3>1. work'.df = NoFiles /\ ~ work'.done /\ w.progress = {} /\ DfB' = DfB
      BY <1>4, <1>b, <2>3 DEF DfB
    <3>2. ASSUME NEW s \in Stores
          PROVE  Ledger(NoFiles, DfB, DfRows(s), Counted', ExactDf', 0, 0)
      <4>1. ASSUME NEW k \in Term
            PROVE  Stored(NoFiles, DfB, k, 0) = 0 /\ Total(DfRows(s)[k], Counted'[DfB[k]]) = 0
        <5>1. DfB[k] \in Bucket
          BY BucketsAre DEF Placed
        <5>2. InMain(NoFiles, DfB, k) = 0
          BY <5>1, NoFilesAre, NoFileIs, EmptyIs DEF InMain
        <5>3. \A t \in Thread : InThreads(NoFiles, DfB, k, 0)[t] = 0
          BY <5>1, NoFilesAre, NoFileIs, EmptyIs DEF InThreads
        <5>4. Total(InThreads(NoFiles, DfB, k, 0), Thread) = 0
          BY <5>3, ThreadsAre, TotalZero
        <5>5. Counted'[DfB[k]] = {}
          BY <2>1, <3>1, <5>1
        <5>6. Total(DfRows(s)[k], {}) = 0
          BY TotalOf
        <5> QED
          BY <5>2, <5>4, <5>5, <5>6 DEF Stored
      <4>2. \A k \in Term : (IF DfB[k] = 0 THEN 0 ELSE 0) = 0
        OBVIOUS
      <4> QED
        BY <4>1, <4>2, LedgerIs, BucketsAre
    <3> QED
      BY <1>5, <2>1, <3>1, <3>2, NoFilesAre DEF DfOK
  <2> QED
    BY <2>2, <2>3
<1>14. PostOK'
  <2>1. CASE ~ Resuming
    BY <1>4, <1>5, <1>b, <2>1, NoPosts DEF PostStages
  <2>2. CASE Resuming
    <3>1. work'.post = work.post /\ work'.dfs = work.dfs
      BY <1>4, <1>c, <2>2
    <3>2. PostB' = PostB
      BY <3>1, FramePostB
    <3>3. job'.at \notin {"post", "mergePost", "emit"}
      BY <1>5
    <3>4. ExactPost' => work'.post = NoFiles
      BY <1>2, <1>7, <2>2, <3>1 DEF PostOK
    <3>5. ASSUME ExactPost' \/ Unharmed' PROVE Beyond(work'.post, n)
      <4>1. CASE work'.post = NoFiles
        BY <4>1, NoFilesAre
      <4>2. CASE work'.post # NoFiles
        <5>1. Beyond(work.post, history.threads) /\ n >= history.threads /\ history.threads \in Nat /\ n \in Nat
          BY <1>3, <1>7, <2>2, <3>4, <3>5, <4>2, ThreadsAre DEF PostOK, Typed
        <5> QED
          BY <3>1, <5>1, ThreadsAre DEF Beyond
      <4> QED
        BY <4>1, <4>2
    <3>6. \A s \in Stores : history'.stores = {s} => Holds(work'.post, Real(s))
      <4> SUFFICES ASSUME NEW s \in Stores, history'.stores = {s} PROVE Holds(work.post, Real(s))
        BY <3>1
      <4>1. history.stores = {s}
        BY <1>6, <1>7, <2>2
      <4> QED
        BY <4>1 DEF PostOK
    <3> QED
      BY <1>6, <3>1, <3>2, <3>3, <3>4, <3>5, <3>6 DEF PostOK
  <2> QED
    BY <2>1, <2>2
<1>15. PostsOK' /\ RowsOK'
  BY <1>5, FramePosts, NoRows DEF LastStages, PostStages
<1> QED
  BY <1>8, <1>9, <1>10, <1>11, <1>12, <1>13, <1>14, <1>15

-----------------------------------------------------------------------------
(* Units are taken and counted.                                            *)

LEMMA FirstFile ==
    ASSUME NEW files PROVE Emptied(files, 0, 1)
  BY ThreadsAre DEF Emptied, Bucket, Thread

\* The files stay, and what counts weighs the same.
LEMMA FrameLedgerDf ==
    ASSUME DfOK, ~ work.done, job.at = "count", job.bucket = 0,
           ~ work'.done, job'.at \in {"count", "mergeDf"}, work'.df = work.df, history' = history,
           ~ job'.copied, job'.bucket = 0, job'.thread = 1,
           \A s \in Stores : history.stores = {s} =>
              \A k \in Term : Total(DfRows(s)[k], Counted'[DfB[k]]) = Total(DfRows(s)[k], Counted[DfB[k]])
    PROVE  DfOK'
<1>1. DfB' = DfB /\ ExactDf' = ExactDf /\ Unharmed' = Unharmed
  BY DEF DfB, ExactDf, Unharmed, Died
<1>2. Skip("mergeDf") = 0 /\ Skip("mergeDf")' = 0
  BY DEF Skip, At
<1>3. ASSUME NEW s \in Stores, history.stores = {s}, ExactDf \/ Unharmed
      PROVE  Ledger(work.df, DfB, DfRows(s), Counted', ExactDf, 0, 0)
  <2>1. Ledger(work.df, DfB, DfRows(s), Counted, ExactDf, 0, 0)
    BY <1>2, <1>3 DEF DfOK
  <2>2. \A k \in DOMAIN DfB : Total(DfRows(s)[k], Counted'[DfB[k]]) = Total(DfRows(s)[k], Counted[DfB[k]])
    BY <1>3, BucketsAre
  <2> QED
    BY <2>1, <2>2, CountLedger
<1> QED
  BY <1>1, <1>2, <1>3, FirstFile DEF DfOK

LEMMA FrameLedgerPost ==
    ASSUME PostOK, job.at = "post", job.bucket = 0,
           job'.at \in {"post", "mergePost"}, work'.post = work.post, work'.dfs = work.dfs, history' = history,
           ~ job'.copied, job'.bucket = 0, job'.thread = 1,
           \A s \in Stores : history.stores = {s} =>
              \A k \in DOMAIN PostB : Total(PostRows(s)[k], Counted'[PostB[k]]) = Total(PostRows(s)[k], Counted[PostB[k]])
    PROVE  PostOK'
<1>1. PostB' = PostB /\ ExactPost' = ExactPost /\ Unharmed' = Unharmed
  BY FramePostB DEF ExactPost, Unharmed, Died
<1>2. Skip("mergePost") = 0 /\ Skip("mergePost")' = 0
  BY DEF Skip, At
<1>3. ASSUME NEW s \in Stores, history.stores = {s}, ExactPost \/ Unharmed
      PROVE  Ledger(work.post, PostB, PostRows(s), Counted', ExactPost, 0, 0)
  <2>1. Ledger(work.post, PostB, PostRows(s), Counted, ExactPost, 0, 0)
    BY <1>2, <1>3 DEF PostOK
  <2>2. \A k \in DOMAIN PostB : Total(PostRows(s)[k], Counted'[PostB[k]]) = Total(PostRows(s)[k], Counted[PostB[k]])
    BY <1>3
  <2> QED
    BY <2>1, <2>2, CountLedger
<1> QED
  BY <1>1, <1>2, <1>3, FirstFile DEF PostOK, At

\* Whether a unit that is written everywhere is still held makes no difference.
LEMMA SameCounted ==
    ASSUME Typed, job.at \in Counting, job'.at \in Counting \cup Merging, job'.pending = job.pending,
           NEW t \in Thread, job.task[t].left = {},
           job'.task = [job.task EXCEPT ![t] = NoTask]
    PROVE  \A b \in Bucket : Counted'[b] = Counted[b]
<1> SUFFICES ASSUME NEW b \in Bucket PROVE Counted'[b] = Counted[b]
  OBVIOUS
<1>1. Counted[b] = {u \in Unit \ job.pending : \A o \in Thread : u \in job.task[o].unit => b \notin job.task[o].left}
  BY DEF Counted, CountedBy, At, Counting
<1>2. Counted'[b] = {u \in Unit \ job'.pending : \A o \in Thread : u \in job'.task[o].unit => b \notin job'.task[o].left}
  BY DEF Counted, CountedBy, At, Counting, Merging
<1>3. /\ job'.task[t].unit = {} /\ job'.task[t].left = {}
      /\ \A o \in Thread : o # t => job'.task[o] = job.task[o]
  BY DEF Typed, NoTask
<1> QED
  BY <1>1, <1>2, <1>3

LEMMA RecordStep == ASSUME TfidfInv, NEW t \in Thread, Record(t) PROVE TfidfInv'
<1> USE DEF TfidfInv, At
<1>0. /\ job.at = "count" /\ job.task[t].unit # {} /\ job.task[t].left = {}
      /\ work' = [work EXCEPT !.progress = @ \cup job.task[t].unit]
      /\ job' = [job EXCEPT !.task[t] = NoTask]
      /\ store' = store /\ history' = history /\ deaths' = deaths /\ changes' = changes
  BY DEF Record
<1>a. /\ work'.progress = work.progress \cup job.task[t].unit
      /\ work'.begun = work.begun /\ work'.done = work.done /\ work'.dfDir = work.dfDir
      /\ work'.df = work.df /\ work'.post = work.post /\ work'.vocab = work.vocab /\ work'.dfs = work.dfs
      /\ work'.idf = work.idf /\ work'.termid = work.termid
  BY <1>0 DEF Typed
<1>b. /\ job'.task = [job.task EXCEPT ![t] = NoTask] /\ job'.at = job.at /\ job'.threads = job.threads
      /\ job'.pending = job.pending /\ job'.bucket = job.bucket /\ job'.thread = job.thread
      /\ job'.copied = job.copied /\ job'.rows = job.rows /\ job'.posts = job.posts
  BY <1>0 DEF Typed
<1>c. /\ job'.task[t] = NoTask /\ NoTask.unit = {} /\ \A o \in Thread : o # t => job'.task[o] = job.task[o]
      /\ job.task[t].unit \subseteq Unit
  BY <1>b DEF Typed, NoTask
<1>1. Typed'
  BY <1>0, <1>c DEF Typed, NoTask
<1>2. TasksOK'
  <2>1. PICK u \in Unit \ job.pending : job.task[t].unit = {u}
    BY <1>0, <1>c DEF TasksOK
  <2>2. work'.progress = {x \in Unit \ job'.pending : \A o \in Thread : x \notin job'.task[o].unit}
    BY <1>0, <1>a, <1>b, <1>c, <2>1 DEF TasksOK
  <2> QED
    BY <1>0, <1>b, <1>c, <2>2 DEF TasksOK, Counting
<1>3. PlaceOK'
  BY <1>0, <1>b DEF PlaceOK, Merging
<1>4. StageOK'
  BY <1>0, <1>a, <1>b DEF StageOK, Whole3, PlaceOK
<1>5. TornOK' /\ VocabOK'
  BY <1>0, <1>a, FrameTorn, FrameVocab
<1>6. DfOK'
  <2>1. \A b \in Bucket : Counted'[b] = Counted[b]
    BY <1>0, <1>b, SameCounted DEF Counting
  <2>2. \A k \in Term : Counted'[DfB[k]] = Counted[DfB[k]]
    BY <2>1, BucketsAre DEF Placed
  <2>3. job.bucket = 0 /\ ~ job.copied /\ job.thread = 1 /\ ~ work.done
    BY <1>0 DEF PlaceOK, Merging, StageOK
  <2> QED
    BY <1>0, <1>a, <1>b, <2>2, <2>3, FrameLedgerDf
<1>7. PostOK'
  BY <1>0, <1>a, <1>b, FramePost DEF PostStages
<1>8. PostsOK' /\ RowsOK'
  BY <1>0, <1>b, FramePosts, NoRows DEF PlaceOK, LastStages, PostStages
<1> QED
  BY <1>1, <1>2, <1>3, <1>4, <1>5, <1>6, <1>7, <1>8

LEMMA EndUnitStep == ASSUME TfidfInv, NEW t \in Thread, EndUnit(t) PROVE TfidfInv'
<1> USE DEF TfidfInv, At
<1>0. /\ job.at = "post" /\ job.task[t].unit # {} /\ job.task[t].left = {}
      /\ job' = [job EXCEPT !.task[t] = NoTask]
      /\ work' = work /\ store' = store /\ history' = history /\ deaths' = deaths /\ changes' = changes
  BY DEF EndUnit
<1>b. /\ job'.task = [job.task EXCEPT ![t] = NoTask] /\ job'.at = job.at /\ job'.threads = job.threads
      /\ job'.pending = job.pending /\ job'.bucket = job.bucket /\ job'.thread = job.thread
      /\ job'.copied = job.copied /\ job'.rows = job.rows /\ job'.posts = job.posts
  BY <1>0 DEF Typed
<1>c. /\ job'.task[t] = NoTask /\ NoTask.unit = {} /\ \A o \in Thread : o # t => job'.task[o] = job.task[o]
  BY <1>b DEF Typed, NoTask
<1>1. Typed'
  BY <1>0, <1>c DEF Typed, NoTask
<1>2. TasksOK'
  BY <1>0, <1>b, <1>c DEF TasksOK, Counting
<1>3. PlaceOK' /\ StageOK'
  BY <1>0, <1>b DEF PlaceOK, Merging, StageOK, Whole3
<1>5. TornOK' /\ VocabOK'
  BY <1>0, FrameTorn, FrameVocab
<1>6. DfOK'
  BY <1>0, FrameDf DEF StageOK
<1>7. PostOK'
  <2>1. \A b \in Bucket : Counted'[b] = Counted[b]
    BY <1>0, <1>b, SameCounted DEF Counting
  <2>2. DOMAIN work.dfs \subseteq Term
    BY BagIs DEF Typed
  <2>3. \A k \in DOMAIN PostB : Counted'[PostB[k]] = Counted[PostB[k]]
    BY <2>1, <2>2, PostBuckets DEF Placed
  <2>4. job.bucket = 0 /\ ~ job.copied /\ job.thread = 1
    BY <1>0 DEF PlaceOK, Merging
  <2> QED
    BY <1>0, <1>b, <2>3, <2>4, FrameLedgerPost
<1>8. PostsOK' /\ RowsOK'
  BY <1>0, <1>b, FramePosts, FrameRows DEF PlaceOK, LastStages, PostStages
<1> QED
  BY <1>1, <1>2, <1>3, <1>5, <1>6, <1>7, <1>8

-----------------------------------------------------------------------------
(* The end of the pool.                                                    *)

LEMMA AllAreFree ==
    ASSUME Typed, TasksOK, AllFree
    PROVE  \A t \in Thread : job.task[t] = NoTask
<1>1. \A t \in Thread : t \in 1 .. job.threads \/ ~ (t <= job.threads)
  BY ThreadsAre DEF Typed, Thread
<1> QED
  BY <1>1 DEF TasksOK, AllFree, Free, NoTask

LEMMA AllCounted ==
    ASSUME job.at # "idle", job.pending = {}, \A t \in Thread : job.task[t] = NoTask
    PROVE  \A b \in Bucket : Counted[b] = Unit
  BY DEF Counted, CountedBy, At, NoTask

LEMMA EndCountStep == ASSUME TfidfInv, EndCount PROVE TfidfInv'
<1> USE DEF TfidfInv, At
<1>0. /\ job.at = "count" /\ job.pending = {} /\ AllFree
      /\ job' = [job EXCEPT !.at = "mergeDf"]
      /\ work' = work /\ store' = store /\ history' = history /\ deaths' = deaths /\ changes' = changes
  BY DEF EndCount
<1>b. /\ job'.at = "mergeDf" /\ job'.task = job.task /\ job'.threads = job.threads
      /\ job'.pending = job.pending /\ job'.bucket = job.bucket /\ job'.thread = job.thread
      /\ job'.copied = job.copied /\ job'.rows = job.rows /\ job'.posts = job.posts
  BY <1>0 DEF Typed
<1>c. \A t \in Thread : job.task[t] = NoTask
  BY <1>0, AllAreFree
<1>d. work.progress = Unit
  <2>1. NoTask.unit = {}
    BY DEF NoTask
  <2>2. work.progress = {u \in Unit : \A t \in Thread : u \notin job.task[t].unit}
    BY <1>0 DEF TasksOK
  <2>3. \A t \in Thread : job.task[t].unit = {}
    BY <1>c, <2>1
  <2> QED
    BY <2>2, <2>3
<1>1. Typed'
  BY <1>0 DEF Typed, Stage
<1>2. TasksOK'
  BY <1>0, <1>b, <1>c DEF TasksOK, Counting
<1>3. PlaceOK' /\ StageOK'
  BY <1>0, <1>b, <1>d DEF PlaceOK, Merging, StageOK, Whole3
<1>5. TornOK' /\ VocabOK'
  BY <1>0, FrameTorn, FrameVocab
<1>6. DfOK'
  <2>1. \A b \in Bucket : Counted'[b] = Counted[b]
    BY <1>0, <1>b DEF Counted
  <2>2. \A k \in Term : Counted'[DfB[k]] = Counted[DfB[k]]
    BY <2>1, BucketsAre DEF Placed
  <2>3. job.bucket = 0 /\ ~ job.copied /\ job.thread = 1 /\ ~ work.done
    BY <1>0 DEF PlaceOK, Merging, StageOK
  <2> QED
    BY <1>0, <1>b, <2>2, <2>3, FrameLedgerDf
<1>7. PostOK'
  BY <1>0, <1>b, FramePost DEF PostStages
<1>8. PostsOK' /\ RowsOK'
  BY <1>0, <1>b, FramePosts, NoRows DEF PlaceOK, LastStages, PostStages
<1> QED
  BY <1>1, <1>2, <1>3, <1>5, <1>6, <1>7, <1>8

LEMMA EndPostStep == ASSUME TfidfInv, EndPost PROVE TfidfInv'
<1> USE DEF TfidfInv, At
<1>0. /\ job.at = "post" /\ job.pending = {} /\ AllFree
      /\ job' = [job EXCEPT !.at = "mergePost"]
      /\ work' = work /\ store' = store /\ history' = history /\ deaths' = deaths /\ changes' = changes
  BY DEF EndPost
<1>b. /\ job'.at = "mergePost" /\ job'.task = job.task /\ job'.threads = job.threads
      /\ job'.pending = job.pending /\ job'.bucket = job.bucket /\ job'.thread = job.thread
      /\ job'.copied = job.copied /\ job'.rows = job.rows /\ job'.posts = job.posts
  BY <1>0 DEF Typed
<1>c. \A t \in Thread : job.task[t] = NoTask
  BY <1>0, AllAreFree
<1>1. Typed'
  BY <1>0 DEF Typed, Stage
<1>2. TasksOK'
  BY <1>0, <1>b, <1>c DEF TasksOK, Counting
<1>3. PlaceOK' /\ StageOK'
  BY <1>0, <1>b DEF PlaceOK, Merging, StageOK, Whole3
<1>5. TornOK' /\ VocabOK'
  BY <1>0, FrameTorn, FrameVocab
<1>6. DfOK'
  BY <1>0, FrameDf DEF StageOK
<1>7. PostOK'
  <2>1. \A b \in Bucket : Counted'[b] = Counted[b]
    BY <1>0, <1>b DEF Counted
  <2>2. DOMAIN work.dfs \subseteq Term
    BY BagIs DEF Typed
  <2>3. \A k \in DOMAIN PostB : Counted'[PostB[k]] = Counted[PostB[k]]
    BY <2>1, <2>2, PostBuckets DEF Placed
  <2>4. job.bucket = 0 /\ ~ job.copied /\ job.thread = 1
    BY <1>0 DEF PlaceOK, Merging
  <2> QED
    BY <1>0, <1>b, <2>3, <2>4, FrameLedgerPost
<1>8. PostsOK' /\ RowsOK'
  BY <1>0, <1>b, FramePosts, FrameRows DEF PlaceOK, LastStages, PostStages
<1> QED
  BY <1>1, <1>2, <1>3, <1>5, <1>6, <1>7, <1>8

-----------------------------------------------------------------------------
(* A unit is taken.                                                        *)

LEMMA TakenCounted ==
    ASSUME Typed, TasksOK, NEW t \in Thread, job.task[t].unit = {}, NEW u \in job.pending,
           job.at \in Counting, job'.at = job.at, job'.pending = job.pending \ {u},
           job'.task[t].unit = {u},
           \A o \in Thread : o # t => job'.task[o] = job.task[o]
    PROVE  /\ \A b \in Bucket : b \in job'.task[t].left => Counted'[b] = Counted[b]
           /\ \A b \in Bucket : b \notin job'.task[t].left => Counted'[b] = Counted[b] \cup {u}
           /\ \A b \in Bucket : Counted[b] \subseteq Unit
<1>1. u \in Unit
  BY DEF Typed
<1>3. \A o \in Thread : u \notin job.task[o].unit
  BY DEF TasksOK, NoTask
<1> SUFFICES ASSUME NEW b \in Bucket
             PROVE  /\ b \in job'.task[t].left => Counted'[b] = Counted[b]
                    /\ b \notin job'.task[t].left => Counted'[b] = Counted[b] \cup {u}
                    /\ Counted[b] \subseteq Unit
  OBVIOUS
<1>4. Counted[b] = {x \in Unit \ job.pending : \A o \in Thread : x \in job.task[o].unit => b \notin job.task[o].left}
  BY DEF Counted, CountedBy, At, Counting
<1>5. Counted'[b] = {x \in Unit \ job'.pending : \A o \in Thread : x \in job'.task[o].unit => b \notin job'.task[o].left}
  BY DEF Counted, CountedBy, At, Counting
<1>6. ASSUME NEW x \in Unit, x # u
      PROVE  x \in Counted'[b] <=> x \in Counted[b]
  BY <1>4, <1>5, <1>6
<1>7. u \in Counted'[b] <=> b \notin job'.task[t].left
  <2>1. u \in Unit \ job'.pending
    BY <1>1
  <2>2. \A o \in Thread : u \in job'.task[o].unit => o = t
    BY <1>3
  <2> QED
    BY <1>5, <2>1, <2>2
<1>8. Counted[b] \subseteq Unit /\ Counted'[b] \subseteq Unit /\ u \notin Counted[b]
  BY <1>4, <1>5
<1>9. ASSUME b \in job'.task[t].left PROVE Counted'[b] = Counted[b]
  <2>1. \A x : x \in Counted'[b] <=> x \in Counted[b]
    BY <1>1, <1>6, <1>7, <1>8, <1>9
  <2> QED
    BY <2>1, Zenon
<1>10. ASSUME b \notin job'.task[t].left PROVE Counted'[b] = Counted[b] \cup {u}
  <2>1. \A x : x \in Counted'[b] <=> x \in Counted[b] \cup {u}
    BY <1>1, <1>6, <1>7, <1>8, <1>10
  <2> QED
    BY <2>1, Zenon
<1> QED
  BY <1>8, <1>9, <1>10

LEMMA TakenTasks ==
    ASSUME Typed, TasksOK, NEW t \in Thread, t <= job.threads, job.task[t].unit = {}, NEW u \in job.pending,
           job.at \in Counting, job'.at = job.at, job'.pending = job.pending \ {u}, job'.threads = job.threads,
           NEW left \in SUBSET Bucket, work' = work,
           job'.task = [job.task EXCEPT ![t] = [unit |-> {u}, left |-> left]]
    PROVE  TasksOK'
<1>1. u \in Unit
  BY DEF Typed
<1>2. /\ job'.task[t].unit = {u} /\ job'.task[t].left = left
      /\ \A o \in Thread : o # t => job'.task[o] = job.task[o]
  BY DEF Typed
<1>3. \A o \in Thread : u \notin job.task[o].unit
  BY DEF TasksOK, NoTask
<1>4. ASSUME NEW o \in Thread
      PROVE  \/ job'.task[o] = NoTask
             \/ /\ \E x \in Unit \ job'.pending : job'.task[o].unit = {x}
                /\ o <= job'.threads /\ job'.at \in Counting
  BY <1>1, <1>2 DEF TasksOK
<1>5. \A o, q \in Thread : o # q => job'.task[o].unit \cap job'.task[q].unit = {}
  BY <1>2, <1>3 DEF TasksOK
<1>6. job.at = "count" =>
         work.progress = {x \in Unit \ job'.pending : \A o \in Thread : x \notin job'.task[o].unit}
  <2> SUFFICES ASSUME job.at = "count", NEW x
               PROVE  x \in work.progress <=>
                         x \in Unit \ job'.pending /\ \A o \in Thread : x \notin job'.task[o].unit
    BY Zenon
  <2>1. x \in work.progress <=> x \in Unit \ job.pending /\ \A o \in Thread : x \notin job.task[o].unit
    BY DEF TasksOK, At
  <2>2. CASE x = u
    BY <1>2, <2>1, <2>2
  <2>3. CASE x # u
    BY <1>2, <2>1, <2>3
  <2> QED
    BY <2>2, <2>3
<1> QED
  BY <1>4, <1>5, <1>6 DEF TasksOK, At

LEMMA CountUnitStep == ASSUME TfidfInv, NEW t \in Thread, CountUnit(t) PROVE TfidfInv'
<1> USE DEF TfidfInv, At
<1>0. PICK u \in job.pending :
         job' = [job EXCEPT !.pending = @ \ {u}, !.task[t] = Holding(t, u, DfOf(u), DfBucket)]
  BY Zenon DEF CountUnit
<1> DEFINE left == {DfBucket(k) : k \in DOMAIN DfOf(u)}
<1>a. /\ job.at = "count" /\ t <= job.threads /\ job.task[t].unit = {}
      /\ work' = work /\ store' = store /\ history' = history /\ deaths' = deaths /\ changes' = changes
  BY DEF CountUnit, Free
<1>b. u \in Unit /\ store \in Stores
  BY DEF Typed
<1>c. DfOf(u) \in Bag(Term) /\ \A h \in Term : Copies(h, DfOf(u)) = DfRows(store)[h][u]
  BY <1>b, DfOfIs, RowWeights
<1>d. left \in SUBSET Bucket
  <2>1. DOMAIN DfOf(u) \subseteq Term
    BY <1>c, BagIs
  <2>2. \A h \in Term : DfBucket(h) \in Bucket
    BY BucketsAre DEF Placed
  <2> QED
    BY <2>1, <2>2
<1>e. Holding(t, u, DfOf(u), DfBucket) = [unit |-> {u}, left |-> left]
  BY DEF Holding
<1>f. \A h \in Term : DfBucket(h) \notin left => DfRows(store)[h][u] = 0
  BY <1>c DEF Copies
<1> HIDE DEF left
<1>g. /\ job'.task = [job.task EXCEPT ![t] = [unit |-> {u}, left |-> left]] /\ job'.at = job.at
      /\ job'.threads = job.threads /\ job'.pending = job.pending \ {u}
      /\ job'.bucket = job.bucket /\ job'.thread = job.thread
      /\ job'.copied = job.copied /\ job'.rows = job.rows /\ job'.posts = job.posts
  BY <1>0, <1>e DEF Typed
<1>1. Typed'
  <2>1. job' = [job EXCEPT !.pending = @ \ {u}, !.task[t] = [unit |-> {u}, left |-> left]]
    BY <1>0, <1>e
  <2>2. [unit |-> {u}, left |-> left] \in [unit : SUBSET Unit, left : SUBSET Bucket]
    BY <1>b, <1>d
  <2> QED
    BY <1>a, <2>1, <2>2 DEF Typed
<1>2. TasksOK'
  BY <1>a, <1>d, <1>g, TakenTasks DEF Counting
<1>3. PlaceOK' /\ StageOK'
  BY <1>a, <1>g DEF PlaceOK, Merging, StageOK, Whole3
<1>5. TornOK' /\ VocabOK'
  BY <1>a, FrameTorn, FrameVocab
<1>6. DfOK'
  <2>1. /\ \A b \in Bucket : b \in left => Counted'[b] = Counted[b]
        /\ \A b \in Bucket : b \notin left => Counted'[b] = Counted[b] \cup {u}
        /\ \A b \in Bucket : Counted[b] \subseteq Unit
    <3>1. /\ job'.task[t].unit = {u} /\ job'.task[t].left = left
          /\ \A o \in Thread : o # t => job'.task[o] = job.task[o]
      BY <1>g DEF Typed
    <3> QED
      BY <1>a, <1>g, <3>1, TakenCounted DEF Counting
  <2>2. ASSUME NEW s \in Stores, history.stores = {s}, NEW k \in Term
        PROVE  Total(DfRows(s)[k], Counted'[DfB[k]]) = Total(DfRows(s)[k], Counted[DfB[k]])
    <3>1. DfB[k] \in Bucket /\ DfB[k] = DfBucket(k) /\ s = store
      BY <1>a, <2>2, BucketsAre DEF Placed, PlaceOK
    <3>2. CASE DfB[k] \in left
      BY <2>1, <3>1, <3>2
    <3>3. CASE DfB[k] \notin left
      <4>1. DfRows(s)[k][u] = 0
        BY <1>f, <3>1, <3>3
      <4>2. \A x \in Unit : DfRows(s)[k][x] \in Nat
        BY RowWeights, BucketsAre DEF Weighs
      <4>3. Total(DfRows(s)[k], Counted[DfB[k]] \cup {u}) = Total(DfRows(s)[k], Counted[DfB[k]])
        BY <1>b, <2>1, <3>1, <4>1, <4>2, Weightless
      <4> QED
        BY <2>1, <3>1, <3>3, <4>3
    <3> QED
      BY <3>2, <3>3
  <2>3. job.bucket = 0 /\ ~ job.copied /\ job.thread = 1 /\ ~ work.done
    BY <1>a DEF PlaceOK, Merging, StageOK
  <2> QED
    BY <1>a, <1>g, <2>2, <2>3, FrameLedgerDf
<1>7. PostOK'
  BY <1>a, <1>g, FramePost DEF PostStages
<1>8. PostsOK' /\ RowsOK'
  BY <1>a, <1>g, FramePosts, NoRows DEF PlaceOK, LastStages, PostStages
<1> QED
  BY <1>1, <1>2, <1>3, <1>5, <1>6, <1>7, <1>8

LEMMA RowsOfIs ==
    ASSUME store \in Stores, NEW u \in Unit, NEW terms
    PROVE  RowsOf(u, terms) = {d \in Doc : \E h \in terms : RowsWith(store, u, h, {d}) > 0}
<1>1. /\ store[u] \in Seq([doc : Doc, terms : SUBSET Term])
      /\ \A h, docs : RowsWith(store, u, h, docs) > 0 <=>
                         \E i \in DOMAIN store[u] : h \in store[u][i].terms /\ store[u][i].doc \in docs
  BY RowsAre
<1>2. \A i \in DOMAIN store[u] : store[u][i].doc \in Doc
  <2>1. \A i \in DOMAIN store[u] : store[u][i] \in [doc : Doc, terms : SUBSET Term]
    <3>1. \A S : \A q \in Seq(S) : \A i \in DOMAIN q : q[i] \in S
      OBVIOUS
    <3> QED
      BY <1>1, <3>1, Zenon
  <2> QED
    BY <2>1
<1>3. \A d : d \in RowsOf(u, terms) <=>
             \E i \in DOMAIN store[u] : store[u][i].terms \cap terms # {} /\ store[u][i].doc = d
  BY DEF RowsOf, Range
<1>4. ASSUME NEW d
      PROVE  d \in RowsOf(u, terms) <=> d \in Doc /\ \E h \in terms : RowsWith(store, u, h, {d}) > 0
  <2>1. ASSUME d \in RowsOf(u, terms)
        PROVE  d \in Doc /\ \E h \in terms : RowsWith(store, u, h, {d}) > 0
    <3>1. PICK i \in DOMAIN store[u] : store[u][i].terms \cap terms # {} /\ store[u][i].doc = d
      BY <1>3, <2>1
    <3>2. PICK h \in terms : h \in store[u][i].terms
      BY <3>1
    <3> QED
      BY <1>1, <1>2, <3>1, <3>2
  <2>2. ASSUME NEW h \in terms, RowsWith(store, u, h, {d}) > 0 PROVE d \in RowsOf(u, terms)
    <3>1. PICK i \in DOMAIN store[u] : h \in store[u][i].terms /\ store[u][i].doc \in {d}
      BY <1>1, <2>2
    <3> QED
      BY <1>3, <3>1
  <2> QED
    BY <2>1, <2>2
<1> QED
  BY <1>4

LEMMA PostUnitStep == ASSUME TfidfInv, NEW t \in Thread, PostUnit(t) PROVE TfidfInv'
<1> USE DEF TfidfInv, At
<1>0. PICK u \in job.pending :
         job' = [job EXCEPT !.pending = @ \ {u},
                     !.rows = @ \cup RowsOf(u, DOMAIN work.dfs),
                     !.task[t] = Holding(t, u, PostsOf(u, DOMAIN work.dfs), PostBucket)]
  BY Zenon DEF PostUnit
<1> DEFINE bag == PostsOf(u, DOMAIN work.dfs)
           left == {PostBucket(k) : k \in DOMAIN bag}
<1>a. /\ job.at = "post" /\ t <= job.threads /\ job.task[t].unit = {}
      /\ work' = work /\ store' = store /\ history' = history /\ deaths' = deaths /\ changes' = changes
  BY DEF PostUnit, Free
<1>b. u \in Unit /\ store \in Stores /\ DOMAIN work.dfs \subseteq Term
  BY BagIs DEF Typed
<1>e. Holding(t, u, bag, PostBucket) = [unit |-> {u}, left |-> left]
  BY DEF Holding
<1>c. /\ DOMAIN bag = {p \in (DOMAIN work.dfs) \X Doc : RowsWith(store, u, p[1], {p[2]}) > 0}
      /\ \A p \in (DOMAIN work.dfs) \X Doc : PostRows(store)[p][u] = RowsWith(store, u, p[1], {p[2]})
      /\ \A p \in (DOMAIN work.dfs) \X Doc : PostRows(store)[p][u] \in Nat
  <2>1. DOMAIN work.dfs \in SUBSET Term
    BY <1>b
  <2>2. DOMAIN bag = {p \in (DOMAIN work.dfs) \X Doc : RowsWith(store, u, p[1], {p[2]}) > 0}
    BY <1>b, <2>1, PostsOfIs
  <2>3. \A p \in (DOMAIN work.dfs) \X Doc : p \in Term \X Doc
    BY <1>b
  <2>4. \A p \in Term \X Doc : PostRows(store)[p][u] = RowsWith(store, u, p[1], {p[2]})
    BY <1>b, RowWeights
  <2>5. \A p \in (DOMAIN work.dfs) \X Doc : PostRows(store)[p][u] \in Nat
    BY <1>b, RowWeights, PostBuckets DEF Weighs
  <2> HIDE DEF bag
  <2> QED
    BY <2>2, <2>3, <2>4, <2>5
<1> HIDE DEF bag
<1>d. left \in SUBSET Bucket
  <2>1. \A p \in (DOMAIN work.dfs) \X Doc : PostBucket(p) \in Bucket
    BY <1>b, PostBuckets DEF Placed
  <2> QED
    BY <1>c, <2>1
<1>f. \A p \in (DOMAIN work.dfs) \X Doc : PostBucket(p) \notin left => PostRows(store)[p][u] = 0
  <2> SUFFICES ASSUME NEW p \in (DOMAIN work.dfs) \X Doc, PostBucket(p) \notin left
               PROVE  PostRows(store)[p][u] = 0
    OBVIOUS
  <2>1. p \notin DOMAIN bag
    OBVIOUS
  <2>2. ~ (RowsWith(store, u, p[1], {p[2]}) > 0)
    BY <1>c, <2>1
  <2>3. PostRows(store)[p][u] = RowsWith(store, u, p[1], {p[2]}) /\ PostRows(store)[p][u] \in Nat
    BY <1>c
  <2> QED
    BY <2>2, <2>3
<1> HIDE DEF left
<1>g. /\ job'.task = [job.task EXCEPT ![t] = [unit |-> {u}, left |-> left]] /\ job'.at = job.at
      /\ job'.threads = job.threads /\ job'.pending = job.pending \ {u}
      /\ job'.bucket = job.bucket /\ job'.thread = job.thread
      /\ job'.copied = job.copied /\ job'.posts = job.posts
      /\ job'.rows = job.rows \cup RowsOf(u, DOMAIN work.dfs)
  BY <1>0, <1>e DEF Typed, bag
<1>h. RowsOf(u, DOMAIN work.dfs) = {d \in Doc : \E h \in DOMAIN work.dfs : RowsWith(store, u, h, {d}) > 0}
  BY <1>b, RowsOfIs
<1>1. Typed'
  <2>1. RowsOf(u, DOMAIN work.dfs) \subseteq Doc
    BY <1>h
  <2>2. job' = [job EXCEPT !.pending = @ \ {u}, !.rows = @ \cup RowsOf(u, DOMAIN work.dfs),
                            !.task[t] = [unit |-> {u}, left |-> left]]
    BY <1>0, <1>e DEF bag
  <2>3. [unit |-> {u}, left |-> left] \in [unit : SUBSET Unit, left : SUBSET Bucket]
    BY <1>b, <1>d
  <2> QED
    BY <1>a, <2>1, <2>2, <2>3 DEF Typed
<1>2. TasksOK'
  BY <1>a, <1>d, <1>g, TakenTasks DEF Counting
<1>3. PlaceOK' /\ StageOK'
  BY <1>a, <1>g DEF PlaceOK, Merging, StageOK, Whole3
<1>5. TornOK' /\ VocabOK'
  BY <1>a, FrameTorn, FrameVocab
<1>6. DfOK'
  BY <1>a, FrameDf DEF StageOK
<1>7. PostOK'
  <2>1. /\ \A b \in Bucket : b \in left => Counted'[b] = Counted[b]
        /\ \A b \in Bucket : b \notin left => Counted'[b] = Counted[b] \cup {u}
        /\ \A b \in Bucket : Counted[b] \subseteq Unit
    <3>1. /\ job'.task[t].unit = {u} /\ job'.task[t].left = left
          /\ \A o \in Thread : o # t => job'.task[o] = job.task[o]
      BY <1>g DEF Typed
    <3> QED
      BY <1>a, <1>g, <3>1, TakenCounted DEF Counting
  <2>2. ASSUME NEW s \in Stores, history.stores = {s}, NEW k \in DOMAIN PostB
        PROVE  Total(PostRows(s)[k], Counted'[PostB[k]]) = Total(PostRows(s)[k], Counted[PostB[k]])
    <3>1. PostB[k] \in Bucket /\ PostB[k] = PostBucket(k) /\ s = store /\ k \in (DOMAIN work.dfs) \X Doc
      BY <1>a, <1>b, <2>2, PostBuckets DEF Placed, PlaceOK
    <3>2. CASE PostB[k] \in left
      BY <2>1, <3>1, <3>2
    <3>3. CASE PostB[k] \notin left
      <4>1. PostRows(s)[k][u] = 0
        BY <1>f, <3>1, <3>3
      <4>2. \A x \in Unit : PostRows(s)[k][x] \in Nat
        BY RowWeights DEF Weighs
      <4>3. Total(PostRows(s)[k], Counted[PostB[k]] \cup {u}) = Total(PostRows(s)[k], Counted[PostB[k]])
        BY <1>b, <2>1, <3>1, <4>1, <4>2, Weightless
      <4> QED
        BY <2>1, <3>1, <3>3, <4>3
    <3> QED
      BY <3>2, <3>3
  <2>3. job.bucket = 0 /\ ~ job.copied /\ job.thread = 1
    BY <1>a DEF PlaceOK, Merging
  <2> QED
    BY <1>a, <1>g, <2>2, <2>3, FrameLedgerPost
<1>8. PostsOK'
  BY <1>a, <1>g, FramePosts DEF PlaceOK, LastStages
<1>9. RowsOK'
  <2>1. job.rows = {d \in Doc : \E x \in Unit \ job.pending, h \in DOMAIN work.dfs :
                       RowsWith(store, x, h, {d}) > 0}
    BY <1>a DEF RowsOK
  <2>2. Unit \ job'.pending = (Unit \ job.pending) \cup {u}
    BY <1>b, <1>g
  <2>3. job'.rows = {d \in Doc : \E x \in Unit \ job'.pending, h \in DOMAIN work.dfs :
                       RowsWith(store, x, h, {d}) > 0}
    BY <1>g, <1>h, <2>1, <2>2
  <2> QED
    BY <1>a, <2>3 DEF RowsOK
<1> QED
  BY <1>1, <1>2, <1>3, <1>5, <1>6, <1>7, <1>8, <1>9

-----------------------------------------------------------------------------
(* One file is replaced.                                                   *)

PutThread(files, t, b, f) == [files EXCEPT !.thread[t][b] = f]
PutMain(files, b, f)      == [files EXCEPT !.main[b] = f]

LEMMA PutThreadIs ==
    \A K : \A files \in FilesOf(K), t \in Thread, b \in Bucket, f \in FileOf(K) :
       /\ PutThread(files, t, b, f) \in FilesOf(K)
       /\ PutThread(files, t, b, f).thread[t][b] = f
       /\ OnlyThread(files, PutThread(files, t, b, f), t, b)
<1> SUFFICES ASSUME NEW K, NEW files \in FilesOf(K), NEW t \in Thread, NEW b \in Bucket, NEW f \in FileOf(K)
             PROVE  /\ PutThread(files, t, b, f) \in FilesOf(K)
                    /\ PutThread(files, t, b, f).thread[t][b] = f
                    /\ OnlyThread(files, PutThread(files, t, b, f), t, b)
  BY Zenon
<1> DEFINE F == FileOf(K)
           th == [files.thread EXCEPT ![t][b] = f]
           g == PutThread(files, t, b, f)
<1>1. f \in F
  OBVIOUS
<1> HIDE DEF F
<1>2. /\ files.thread \in [Thread -> [Bucket -> F]] /\ files.main \in [Bucket -> F]
      /\ files = [thread |-> files.thread, main |-> files.main]
  BY DEF FilesOf, F
<1>3. /\ th \in [Thread -> [Bucket -> F]] /\ th[t][b] = f
      /\ \A c \in Bucket, o \in Thread : o # t \/ c # b => th[o][c] = files.thread[o][c]
  BY <1>1, <1>2
<1>4. g = [thread |-> th, main |-> files.main]
  <2>1. g = [files EXCEPT !.thread = th]
    BY DEF PutThread
  <2> HIDE DEF g, th
  <2>2. [files EXCEPT !.thread = th] = [thread |-> th, main |-> files.main]
    BY <1>2
  <2> QED
    BY <2>1, <2>2
<1> HIDE DEF th, g
<1>5. g \in [thread : [Thread -> [Bucket -> F]], main : [Bucket -> F]]
  BY <1>2, <1>3, <1>4
<1>6. g.thread = th /\ g.main = files.main
  BY <1>4
<1> QED
  BY <1>3, <1>5, <1>6 DEF FilesOf, F, g, OnlyThread

LEMMA PutMainIs ==
    \A K : \A files \in FilesOf(K), b \in Bucket, f \in FileOf(K) :
       /\ PutMain(files, b, f) \in FilesOf(K)
       /\ PutMain(files, b, f).main[b] = f
       /\ OnlyMain(files, PutMain(files, b, f), b)
<1> SUFFICES ASSUME NEW K, NEW files \in FilesOf(K), NEW b \in Bucket, NEW f \in FileOf(K)
             PROVE  /\ PutMain(files, b, f) \in FilesOf(K)
                    /\ PutMain(files, b, f).main[b] = f
                    /\ OnlyMain(files, PutMain(files, b, f), b)
  BY Zenon
<1> DEFINE F == FileOf(K)
           mn == [files.main EXCEPT ![b] = f]
           g == PutMain(files, b, f)
<1>1. f \in F
  OBVIOUS
<1> HIDE DEF F
<1>2. /\ files.thread \in [Thread -> [Bucket -> F]] /\ files.main \in [Bucket -> F]
      /\ files = [thread |-> files.thread, main |-> files.main]
  BY DEF FilesOf, F
<1>3. mn \in [Bucket -> F] /\ mn[b] = f /\ \A c \in Bucket : c # b => mn[c] = files.main[c]
  BY <1>1, <1>2
<1>4. g = [thread |-> files.thread, main |-> mn]
  BY <1>2 DEF PutMain
<1> HIDE DEF mn, g
<1>5. g \in [thread : [Thread -> [Bucket -> F]], main : [Bucket -> F]]
  BY <1>2, <1>3, <1>4
<1>6. g.thread = files.thread /\ g.main = mn
  BY <1>4
<1> QED
  BY <1>3, <1>5, <1>6 DEF FilesOf, F, g, OnlyMain

-----------------------------------------------------------------------------
(* Records are appended to the file of a thread.                           *)

AppendThread(files, t, b, m) == PutThread(files, t, b, AppendTo(files.thread[t][b], m))
AllIn(m, bk, b) == \A k \in DOMAIN m.records : k \in DOMAIN bk /\ bk[k] = b

\* The file f has become h: the records of m are appended.
Grown(f, h, m) ==
    /\ DOMAIN h.records \subseteq DOMAIN f.records \cup DOMAIN m.records
    /\ f.torn => h = f
    /\ ~ f.torn => h.torn = m.torn /\ \A k : Copies(k, h.records) = Copies(k, f.records) + Copies(k, m.records)
    /\ \A k : Copies(k, f.records) <= Copies(k, h.records)

LEMMA GrownIs ==
    ASSUME NEW K, NEW f \in FileOf(K), NEW m \in FileOf(K), NEW h, h = AppendTo(f, m)
    PROVE  h \in FileOf(K) /\ Grown(f, h, m)
<1>1. /\ h \in FileOf(K)
      /\ DOMAIN h.records \subseteq DOMAIN f.records \cup DOMAIN m.records
      /\ f.torn => h = f
      /\ ~ f.torn => h.torn = m.torn /\ \A k : Copies(k, h.records) = Copies(k, f.records) + Copies(k, m.records)
  BY AppendIs
<1>2. ASSUME NEW k PROVE Copies(k, f.records) <= Copies(k, h.records)
  <2>1. f.records \in Bag(K) /\ m.records \in Bag(K)
    BY DEF FileOf
  <2>2. Copies(k, f.records) \in Nat /\ Copies(k, m.records) \in Nat
    BY <2>1, CopiesAre
  <2>3. CASE f.torn
    BY <1>1, <2>2, <2>3
  <2>4. CASE ~ f.torn
    BY <1>1, <2>2, <2>4
  <2> QED
    BY <2>3, <2>4
<1> QED
  BY <1>1, <1>2 DEF Grown

LEMMA ThreadWritten ==
    ASSUME NEW K, NEW files \in FilesOf(K), NEW t \in Thread, NEW b \in Bucket, NEW m \in FileOf(K),
           NEW g, g = AppendThread(files, t, b, m)
    PROVE  /\ g \in FilesOf(K) /\ OnlyThread(files, g, t, b)
           /\ Grown(files.thread[t][b], g.thread[t][b], m)
<1> DEFINE f == files.thread[t][b]
           h == AppendTo(f, m)
<1>1. f \in FileOf(K) /\ g = PutThread(files, t, b, h)
  BY FilesAre DEF AppendThread
<1> HIDE DEF f
<1>2. h = AppendTo(f, m)
  OBVIOUS
<1> HIDE DEF h
<1>3. h \in FileOf(K) /\ Grown(f, h, m)
  BY <1>1, <1>2, GrownIs
<1>4. /\ PutThread(files, t, b, h) \in FilesOf(K)
      /\ PutThread(files, t, b, h).thread[t][b] = h
      /\ OnlyThread(files, PutThread(files, t, b, h), t, b)
  BY <1>3, PutThreadIs
<1> QED
  BY <1>1, <1>3, <1>4 DEF f

LEMMA ThreadKeeps ==
    ASSUME NEW K, NEW files \in FilesOf(K), NEW g \in FilesOf(K),
           NEW t \in Thread, NEW b \in Bucket, NEW m \in FileOf(K),
           OnlyThread(files, g, t, b), Grown(files.thread[t][b], g.thread[t][b], m)
    PROVE  /\ \A bk : InPlace(files, bk) /\ AllIn(m, bk, b) => InPlace(g, bk)
           /\ Untorn(files) /\ ~ m.torn => Untorn(g)
           /\ \A n : Beyond(files, n) /\ ~ (t > n) => Beyond(g, n)
           /\ \A Keys : Holds(files, Keys) /\ DOMAIN m.records \subseteq Keys => Holds(g, Keys)
           /\ NoLess(files, g)
<1> DEFINE f == files.thread[t][b]
           h == g.thread[t][b]
<1>1. /\ g.main = files.main
      /\ \A c \in Bucket, o \in Thread : o # t \/ c # b => g.thread[o][c] = files.thread[o][c]
  BY DEF OnlyThread
<1>2. /\ DOMAIN h.records \subseteq DOMAIN f.records \cup DOMAIN m.records
      /\ f.torn => h = f
      /\ ~ f.torn => h.torn = m.torn
      /\ \A k : Copies(k, f.records) <= Copies(k, h.records)
  BY DEF Grown
<1>3. NoLess(files, g)
  <2> SUFFICES ASSUME NEW k, NEW c \in Bucket
               PROVE  /\ Copies(k, files.main[c].records) <= Copies(k, g.main[c].records)
                      /\ \A o \in Thread :
                            Copies(k, files.thread[o][c].records) <= Copies(k, g.thread[o][c].records)
    BY DEF NoLess
  <2>1. /\ Copies(k, files.main[c].records) \in Nat
        /\ \A o \in Thread : Copies(k, files.thread[o][c].records) \in Nat
    BY FilesAre, CopiesAre, ThreadsAre
  <2>2. ASSUME NEW o \in Thread
        PROVE  Copies(k, files.thread[o][c].records) <= Copies(k, g.thread[o][c].records)
    <3>1. CASE o = t /\ c = b
      BY <1>2, <3>1
    <3>2. CASE ~ (o = t /\ c = b)
      <4>1. g.thread[o][c] = files.thread[o][c] /\ Copies(k, files.thread[o][c].records) \in Nat
        BY <1>1, <2>1, <3>2
      <4> QED
        BY <4>1
    <3> QED
      BY <3>1, <3>2
  <2> QED
    BY <1>1, <2>1, <2>2
<1>4. ASSUME NEW bk, InPlace(files, bk), AllIn(m, bk, b) PROVE InPlace(g, bk)
  <2>1. \A c \in Bucket : \A k \in DOMAIN g.main[c].records : k \in DOMAIN bk /\ bk[k] = c
    BY <1>1, <1>4 DEF InPlace
  <2>2. \A c \in Bucket, o \in Thread : \A k \in DOMAIN g.thread[o][c].records : k \in DOMAIN bk /\ bk[k] = c
    <3> SUFFICES ASSUME NEW c \in Bucket, NEW o \in Thread, NEW k \in DOMAIN g.thread[o][c].records
                 PROVE  k \in DOMAIN bk /\ bk[k] = c
      OBVIOUS
    <3>1. CASE o = t /\ c = b
      <4>1. k \in DOMAIN f.records \/ k \in DOMAIN m.records
        BY <1>2, <3>1
      <4> QED
        BY <1>4, <3>1, <4>1 DEF InPlace, AllIn
    <3>2. CASE ~ (o = t /\ c = b)
      BY <1>1, <1>4, <3>2 DEF InPlace
    <3> QED
      BY <3>1, <3>2
  <2> QED
    BY <2>1, <2>2 DEF InPlace
<1>5. Untorn(files) /\ ~ m.torn => Untorn(g)
  <2> SUFFICES ASSUME Untorn(files), ~ m.torn, NEW c \in Bucket
               PROVE  ~ g.main[c].torn /\ \A o \in Thread : ~ g.thread[o][c].torn
    BY DEF Untorn
  <2>1. ~ f.torn /\ ~ h.torn
    BY <1>2 DEF Untorn
  <2> QED
    BY <1>1, <2>1 DEF Untorn
<1>6. \A n : Beyond(files, n) /\ ~ (t > n) => Beyond(g, n)
  BY <1>1 DEF Beyond
<1>7. ASSUME NEW Keys, Holds(files, Keys), DOMAIN m.records \subseteq Keys PROVE Holds(g, Keys)
  <2>1. \A c \in Bucket : DOMAIN g.main[c].records \subseteq Keys
    BY <1>1, <1>7 DEF Holds
  <2>2. ASSUME NEW c \in Bucket, NEW o \in Thread PROVE DOMAIN g.thread[o][c].records \subseteq Keys
    <3>1. CASE o = t /\ c = b
      BY <1>2, <1>7, <3>1 DEF Holds
    <3>2. CASE ~ (o = t /\ c = b)
      BY <1>1, <1>7, <3>2 DEF Holds
    <3> QED
      BY <3>1, <3>2
  <2> QED
    BY <2>1, <2>2 DEF Holds
<1> QED
  BY <1>3, <1>4, <1>5, <1>6, <1>7

\* What has been written of a unit is gained.
LEMMA GrownGains ==
    ASSUME NEW files, NEW g, NEW t, NEW b, NEW m, NEW bk, NEW w, NEW u,
           Grown(files.thread[t][b], g.thread[t][b], m), ~ files.thread[t][b].torn,
           \A k \in DOMAIN bk : bk[k] = b => Copies(k, m.records) = w[k][u]
    PROVE  Gains(files, g, bk, w, t, b, u)
  BY DEF Grown, Gains

\* The unit of the thread counts in the bucket that was written.
LEMMA WrittenCounted ==
    ASSUME Typed, TasksOK, NEW t \in Thread, NEW u, job.task[t].unit = {u}, NEW b \in job.task[t].left,
           job.at \in Counting, job'.at = job.at, job'.pending = job.pending,
           job'.task[t].unit = {u}, job'.task[t].left = job.task[t].left \ {b},
           \A o \in Thread : o # t => job'.task[o] = job.task[o]
    PROVE  /\ AlsoIn(Counted, Counted', b, u)
           /\ Counted[b] \subseteq Unit /\ u \notin Counted[b] /\ u \in Unit /\ b \in Bucket
<1>1. u \in Unit \ job.pending /\ b \in Bucket
  BY DEF TasksOK, NoTask, Typed
<1>2. \A o \in Thread : o # t => u \notin job.task[o].unit
  BY DEF TasksOK
<1>3. \A c \in Bucket :
         Counted[c] = {x \in Unit \ job.pending : \A o \in Thread : x \in job.task[o].unit => c \notin job.task[o].left}
  BY DEF Counted, CountedBy, At, Counting
<1>4. \A c \in Bucket :
         Counted'[c] = {x \in Unit \ job'.pending : \A o \in Thread : x \in job'.task[o].unit => c \notin job'.task[o].left}
  BY DEF Counted, CountedBy, At, Counting
<1>5. Counted[b] \subseteq Unit /\ u \notin Counted[b]
  BY <1>1, <1>3
<1>6. ASSUME NEW c \in Bucket, c # b PROVE Counted'[c] = Counted[c]
  <2>1. \A o \in Thread : \A x : (x \in job'.task[o].unit <=> x \in job.task[o].unit)
                             /\ (c \in job'.task[o].left <=> c \in job.task[o].left)
    BY <1>6
  <2>2. \A x : x \in Counted'[c] <=> x \in Counted[c]
    BY <1>3, <1>4, <2>1
  <2> QED
    BY <2>2, Zenon
<1>7. Counted'[b] = Counted[b] \cup {u}
  <2>1. ASSUME NEW x, x # u PROVE x \in Counted'[b] <=> x \in Counted[b]
    <3>1. \A o \in Thread : o # t => job'.task[o] = job.task[o]
      OBVIOUS
    <3>2. x \notin job.task[t].unit /\ x \notin job'.task[t].unit
      BY <2>1
    <3> QED
      BY <1>1, <1>3, <1>4, <3>1, <3>2
  <2>2. u \in Counted'[b]
    <3>1. \A o \in Thread : u \in job'.task[o].unit => b \notin job'.task[o].left
      BY <1>2
    <3> QED
      BY <1>1, <1>4, <3>1
  <2>3. \A x : x \in Counted'[b] <=> x \in Counted[b] \cup {u}
    BY <2>1, <2>2
  <2> QED
    BY <2>3, Zenon
<1> QED
  BY <1>1, <1>5, <1>6, <1>7 DEF AlsoIn

LEMMA WrittenTasks ==
    ASSUME Typed, TasksOK, NEW t \in Thread, NEW u, job.task[t].unit = {u},
           job.at \in Counting, job'.at = job.at, job'.pending = job.pending, job'.threads = job.threads,
           job'.task[t].unit = {u}, work'.progress = work.progress,
           \A o \in Thread : o # t => job'.task[o] = job.task[o]
    PROVE  TasksOK'
<1>1. \A o \in Thread : job'.task[o].unit = job.task[o].unit
  OBVIOUS
<1>2. u \in Unit \ job.pending /\ t <= job.threads
  BY DEF TasksOK, NoTask
<1>3. ASSUME NEW o \in Thread
      PROVE  \/ job'.task[o] = NoTask
             \/ /\ \E x \in Unit \ job'.pending : job'.task[o].unit = {x}
                /\ o <= job'.threads /\ job'.at \in Counting
  BY <1>1, <1>2 DEF TasksOK
<1> QED
  BY <1>1, <1>3 DEF TasksOK, At

LEMMA Busy ==
    ASSUME Typed, TasksOK, NEW t \in Thread, NEW b \in job.task[t].left
    PROVE  /\ \E u \in Unit \ job.pending : job.task[t].unit = {u}
           /\ t <= job.threads /\ b \in Bucket
  BY DEF TasksOK, NoTask, Typed

LEMMA WriteDfStep == ASSUME TfidfInv, NEW t \in Thread, WriteDf(t) PROVE TfidfInv'
<1> USE DEF TfidfInv, At
<1>0. PICK b \in job.task[t].left :
          /\ work' = [work EXCEPT !.df.thread[t][b] = AppendTo(@, DfPart(t, b))]
          /\ job' = [job EXCEPT !.task[t].left = @ \ {b}]
  BY Zenon DEF WriteDf
<1>a. /\ job.at = "count"
      /\ store' = store /\ history' = history /\ deaths' = deaths /\ changes' = changes
  BY DEF WriteDf
<1>b. PICK u \in Unit \ job.pending : job.task[t].unit = {u}
  BY Busy
<1>c. /\ b \in Bucket /\ t <= job.threads /\ store \in Stores /\ store \in history.stores
      /\ job.threads = history.threads
  BY <1>a, Busy DEF Typed, PlaceOK
<1> DEFINE m == DfPart(t, b)
           g == AppendThread(work.df, t, b, m)
<1>d. /\ m \in FileOf(Term) /\ ~ m.torn /\ AllIn(m, DfB, b)
      /\ \A k \in DOMAIN DfB : DfB[k] = b => Copies(k, m.records) = DfRows(store)[k][u]
  BY <1>b, <1>c, DfPartIs, BucketsAre DEF AllIn
<1>e. work.df \in FilesOf(Term)
  BY DEF Typed
<1>f. /\ job'.task = [job.task EXCEPT ![t].left = @ \ {b}] /\ job'.at = job.at
      /\ job'.threads = job.threads /\ job'.pending = job.pending
      /\ job'.bucket = job.bucket /\ job'.thread = job.thread
      /\ job'.copied = job.copied /\ job'.rows = job.rows /\ job'.posts = job.posts
  BY <1>0 DEF Typed
<1>g. /\ job'.task[t].unit = {u} /\ job'.task[t].left = job.task[t].left \ {b}
      /\ \A o \in Thread : o # t => job'.task[o] = job.task[o]
  BY <1>b, <1>f DEF Typed
<1> HIDE DEF m
<1>h. work' = [work EXCEPT !.df = g]
  BY <1>0 DEF m, AppendThread, PutThread
<1>i. g = AppendThread(work.df, t, b, m)
  OBVIOUS
<1> HIDE DEF g
<1>j. /\ g \in FilesOf(Term) /\ OnlyThread(work.df, g, t, b)
      /\ Grown(work.df.thread[t][b], g.thread[t][b], m)
  BY <1>c, <1>d, <1>e, <1>i, ThreadWritten
<1>k. /\ InPlace(work.df, DfB) => InPlace(g, DfB)
      /\ Untorn(work.df) => Untorn(g)
      /\ Beyond(work.df, history.threads) => Beyond(g, history.threads)
  <2>1. ~ (t > history.threads)
    BY <1>c, ThreadsAre DEF Typed
  <2>2. /\ \A bk : InPlace(work.df, bk) /\ AllIn(m, bk, b) => InPlace(g, bk)
        /\ Untorn(work.df) /\ ~ m.torn => Untorn(g)
        /\ \A n : Beyond(work.df, n) /\ ~ (t > n) => Beyond(g, n)
        /\ \A Keys : Holds(work.df, Keys) /\ DOMAIN m.records \subseteq Keys => Holds(g, Keys)
    BY <1>c, <1>d, <1>e, <1>j, ThreadKeeps
  <2> QED
    BY <1>d, <2>1, <2>2
<1>l. /\ work'.progress = work.progress
      /\ work'.begun = work.begun /\ work'.done = work.done /\ work'.dfDir = work.dfDir
      /\ work'.df = g /\ work'.post = work.post /\ work'.vocab = work.vocab /\ work'.dfs = work.dfs
      /\ work'.idf = work.idf /\ work'.termid = work.termid
  BY <1>h DEF Typed
<1>1. Typed'
  <2>1. job'.task \in [Thread -> [unit : SUBSET Unit, left : SUBSET Bucket]]
    BY <1>f DEF Typed
  <2>2. job' = [job EXCEPT !.task = job'.task]
    BY <1>0, <1>f DEF Typed
  <2> QED
    BY <1>a, <1>h, <1>j, <2>1, <2>2 DEF Typed
<1>2. TasksOK'
  BY <1>a, <1>b, <1>f, <1>g, <1>l, WrittenTasks DEF Counting
<1>3. PlaceOK' /\ StageOK'
  BY <1>a, <1>f, <1>l DEF PlaceOK, Merging, StageOK, Whole3
<1>4. TornOK'
  BY <1>a, <1>k, <1>l DEF TornOK, ExactDf, ExactPost, Died
<1>5. VocabOK'
  BY <1>a, <1>l, FrameVocab
<1>m. AlsoIn(Counted, Counted', b, u) /\ Counted[b] \subseteq Unit /\ u \notin Counted[b]
  BY <1>a, <1>b, <1>f, <1>g, WrittenCounted DEF Counting
<1>n. ASSUME NEW s \in Stores, history.stores = {s}, Untorn(work.df),
             NEW exact, Ledger(work.df, DfB, DfRows(s), Counted, exact, 0, 0)
      PROVE  Ledger(g, DfB, DfRows(s), Counted', exact, 0, 0)
  <2>1. s = store /\ ~ work.df.thread[t][b].torn
    BY <1>c, <1>n DEF Untorn
  <2>2. Gains(work.df, g, DfB, DfRows(s), t, b, u)
    BY <1>d, <1>j, <2>1, GrownGains
  <2>3. Placed(DfB) /\ Weighs(DfRows(s), DfB) /\ u \in Unit /\ Counted[b] \in SUBSET Unit
    BY <1>c, <1>m, BucketsAre, RowWeights
  <2> QED
    BY <1>c, <1>e, <1>j, <1>m, <1>n, <2>2, <2>3, WriteLedger
<1>6. DfOK'
  <2>1. DfB' = DfB /\ ExactDf' = ExactDf /\ Unharmed' = Unharmed
    BY <1>a DEF DfB, ExactDf, Unharmed, Died
  <2>2. Skip("mergeDf") = 0 /\ Skip("mergeDf")' = 0 /\ ~ work.done /\ job.bucket = 0
    BY <1>a, <1>f DEF Skip, StageOK, PlaceOK, Merging
  <2>3. ASSUME NEW s \in Stores, history.stores = {s}, ExactDf \/ Unharmed
        PROVE  Ledger(g, DfB, DfRows(s), Counted', ExactDf, 0, 0)
    <3>1. Ledger(work.df, DfB, DfRows(s), Counted, ExactDf, 0, 0)
      BY <2>2, <2>3 DEF DfOK
    <3>2. Untorn(work.df)
      BY <2>3 DEF TornOK, Unharmed, Died
    <3> QED
      BY <1>n, <2>3, <3>1, <3>2
  <2>4. InPlace(g, DfB) /\ (Beyond(work.df, history.threads) => Beyond(g, history.threads))
    BY <1>k DEF DfOK
  <2> QED
    BY <1>a, <1>f, <1>l, <2>1, <2>2, <2>3, <2>4 DEF DfOK
<1>7. PostOK'
  BY <1>a, <1>f, <1>l, FramePost DEF PostStages
<1>8. PostsOK' /\ RowsOK'
  BY <1>a, <1>f, FramePosts, NoRows DEF PlaceOK, LastStages, PostStages
<1> QED
  BY <1>1, <1>2, <1>3, <1>4, <1>5, <1>6, <1>7, <1>8

LEMMA WritePostsStep == ASSUME TfidfInv, NEW t \in Thread, WritePosts(t) PROVE TfidfInv'
<1> USE DEF TfidfInv, At
<1>0. PICK b \in job.task[t].left :
          /\ work' = [work EXCEPT !.post.thread[t][b] = AppendTo(@, PostPart(t, b))]
          /\ job' = [job EXCEPT !.task[t].left = @ \ {b}]
  BY Zenon DEF WritePosts
<1>a. /\ job.at = "post"
      /\ store' = store /\ history' = history /\ deaths' = deaths /\ changes' = changes
  BY DEF WritePosts
<1>b. PICK u \in Unit \ job.pending : job.task[t].unit = {u}
  BY Busy
<1>c. /\ b \in Bucket /\ t <= job.threads /\ store \in Stores /\ store \in history.stores
      /\ job.threads = history.threads
      /\ DOMAIN work.dfs \subseteq Term
  BY <1>a, Busy, BagIs DEF Typed, PlaceOK
<1> DEFINE m == PostPart(t, b)
           g == AppendThread(work.post, t, b, m)
<1>d. /\ m \in FileOf(Term \X Doc) /\ ~ m.torn /\ AllIn(m, PostB, b)
      /\ \A k \in DOMAIN PostB : PostB[k] = b => Copies(k, m.records) = PostRows(store)[k][u]
      /\ DOMAIN m.records \subseteq Real(store)
  <2>0. u \in Unit /\ b \in Bucket /\ job.task[t].unit = {u} /\ store \in Stores /\ DOMAIN work.dfs \subseteq Term
    BY <1>b, <1>c
  <2> HIDE DEF m, g
  <2>a. PostPart(t, b) \in FileOf(Term \X Doc) /\ ~ PostPart(t, b).torn
    BY <2>0, PostPartIs
  <2>b. \A k \in DOMAIN PostPart(t, b).records : k \in DOMAIN PostB /\ PostB[k] = b /\ k \in Real(store)
    BY <2>0, PostPartIs
  <2>c. \A k \in DOMAIN PostB : PostB[k] = b => Copies(k, PostPart(t, b).records) = PostRows(store)[k][u]
    BY <2>0, PostPartIs
  <2>1. /\ m \in FileOf(Term \X Doc) /\ ~ m.torn
        /\ \A k \in DOMAIN m.records : k \in DOMAIN PostB /\ PostB[k] = b /\ k \in Real(store)
        /\ \A k \in DOMAIN PostB : PostB[k] = b => Copies(k, m.records) = PostRows(store)[k][u]
    BY <2>a, <2>b, <2>c DEF m
  <2>2. \A k \in DOMAIN m.records : k \in Real(store)
    BY <2>1
  <2> QED
    BY <2>1, <2>2 DEF AllIn
<1>e. work.post \in FilesOf(Term \X Doc)
  BY DEF Typed
<1>f. /\ job'.task = [job.task EXCEPT ![t].left = @ \ {b}] /\ job'.at = job.at
      /\ job'.threads = job.threads /\ job'.pending = job.pending
      /\ job'.bucket = job.bucket /\ job'.thread = job.thread
      /\ job'.copied = job.copied /\ job'.rows = job.rows /\ job'.posts = job.posts
  BY <1>0 DEF Typed
<1>g. /\ job'.task[t].unit = {u} /\ job'.task[t].left = job.task[t].left \ {b}
      /\ \A o \in Thread : o # t => job'.task[o] = job.task[o]
  BY <1>b, <1>f DEF Typed
<1> HIDE DEF m
<1>h. work' = [work EXCEPT !.post = g]
  BY <1>0 DEF m, AppendThread, PutThread
<1>i. g = AppendThread(work.post, t, b, m)
  OBVIOUS
<1> HIDE DEF g
<1>j. /\ g \in FilesOf(Term \X Doc) /\ OnlyThread(work.post, g, t, b)
      /\ Grown(work.post.thread[t][b], g.thread[t][b], m)
  BY <1>c, <1>d, <1>e, <1>i, ThreadWritten
<1>k. /\ InPlace(work.post, PostB) => InPlace(g, PostB)
      /\ Untorn(work.post) => Untorn(g)
      /\ Beyond(work.post, history.threads) => Beyond(g, history.threads)
      /\ Holds(work.post, Real(store)) => Holds(g, Real(store))
  <2>1. ~ (t > history.threads)
    BY <1>c, ThreadsAre DEF Typed
  <2>2. /\ \A bk : InPlace(work.post, bk) /\ AllIn(m, bk, b) => InPlace(g, bk)
        /\ Untorn(work.post) /\ ~ m.torn => Untorn(g)
        /\ \A n : Beyond(work.post, n) /\ ~ (t > n) => Beyond(g, n)
        /\ \A Keys : Holds(work.post, Keys) /\ DOMAIN m.records \subseteq Keys => Holds(g, Keys)
    BY <1>c, <1>d, <1>e, <1>j, ThreadKeeps
  <2> QED
    BY <1>d, <2>1, <2>2
<1>l. /\ work'.progress = work.progress
      /\ work'.begun = work.begun /\ work'.done = work.done /\ work'.dfDir = work.dfDir
      /\ work'.post = g /\ work'.df = work.df /\ work'.vocab = work.vocab /\ work'.dfs = work.dfs
      /\ work'.idf = work.idf /\ work'.termid = work.termid
  BY <1>h DEF Typed
<1>1. Typed'
  <2>1. job'.task \in [Thread -> [unit : SUBSET Unit, left : SUBSET Bucket]]
    BY <1>f DEF Typed
  <2>2. job' = [job EXCEPT !.task = job'.task]
    BY <1>0, <1>f DEF Typed
  <2> QED
    BY <1>a, <1>h, <1>j, <2>1, <2>2 DEF Typed
<1>2. TasksOK'
  BY <1>a, <1>b, <1>f, <1>g, <1>l, WrittenTasks DEF Counting
<1>3. PlaceOK' /\ StageOK'
  BY <1>a, <1>f, <1>l DEF PlaceOK, Merging, StageOK, Whole3
<1>4. TornOK'
  BY <1>a, <1>k, <1>l DEF TornOK, ExactDf, ExactPost, Died
<1>5. VocabOK'
  BY <1>a, <1>l, FrameVocab
<1>m. AlsoIn(Counted, Counted', b, u) /\ Counted[b] \subseteq Unit /\ u \notin Counted[b]
  BY <1>a, <1>b, <1>f, <1>g, WrittenCounted DEF Counting
<1>n. ASSUME NEW s \in Stores, history.stores = {s}, Untorn(work.post),
             NEW exact, Ledger(work.post, PostB, PostRows(s), Counted, exact, 0, 0)
      PROVE  Ledger(g, PostB, PostRows(s), Counted', exact, 0, 0)
  <2>1. s = store /\ ~ work.post.thread[t][b].torn
    BY <1>c, <1>n DEF Untorn
  <2>2. Gains(work.post, g, PostB, PostRows(s), t, b, u)
    BY <1>d, <1>j, <2>1, GrownGains
  <2>3. Placed(PostB) /\ Weighs(PostRows(s), PostB) /\ u \in Unit /\ Counted[b] \in SUBSET Unit
    BY <1>c, <1>m, PostBuckets, RowWeights
  <2> QED
    BY <1>c, <1>e, <1>j, <1>m, <1>n, <2>2, <2>3, WriteLedger
<1>6. DfOK'
  BY <1>a, <1>l, FrameDf DEF StageOK
<1>7. PostOK'
  <2>1. PostB' = PostB /\ ExactPost' = ExactPost /\ Unharmed' = Unharmed
    BY <1>a, <1>l, FramePostB DEF ExactPost, Unharmed, Died
  <2>2. Skip("mergePost") = 0 /\ Skip("mergePost")' = 0 /\ job.bucket = 0
    BY <1>a, <1>f DEF Skip, PlaceOK, Merging
  <2>3. ASSUME NEW s \in Stores, history.stores = {s}, ExactPost \/ Unharmed
        PROVE  Ledger(g, PostB, PostRows(s), Counted', ExactPost, 0, 0)
    <3>1. Ledger(work.post, PostB, PostRows(s), Counted, ExactPost, 0, 0)
      BY <1>a, <2>2, <2>3 DEF PostOK
    <3>2. Untorn(work.post)
      BY <2>3 DEF TornOK, Unharmed, Died
    <3> QED
      BY <1>n, <2>3, <3>1, <3>2
  <2>4. InPlace(g, PostB) /\ (Beyond(work.post, history.threads) => Beyond(g, history.threads))
    BY <1>k DEF PostOK
  <2>5. \A s \in Stores : history.stores = {s} => Holds(g, Real(s))
    BY <1>c, <1>k DEF PostOK
  <2> QED
    BY <1>a, <1>f, <1>l, <2>1, <2>2, <2>3, <2>4, <2>5 DEF PostOK
<1>8. PostsOK'
  BY <1>a, <1>f, FramePosts DEF PlaceOK, LastStages
<1>9. RowsOK'
  BY <1>a, <1>f, <1>l, FrameRows DEF PostStages
<1> QED
  BY <1>1, <1>2, <1>3, <1>4, <1>5, <1>6, <1>7, <1>8, <1>9

-----------------------------------------------------------------------------
(* Records are appended to a merged file.                                  *)

AppendMain(files, b, m) == PutMain(files, b, AppendTo(files.main[b], m))

LEMMA MainWritten ==
    ASSUME NEW K, NEW files \in FilesOf(K), NEW b \in Bucket, NEW m \in FileOf(K),
           NEW g, g = AppendMain(files, b, m)
    PROVE  /\ g \in FilesOf(K) /\ OnlyMain(files, g, b)
           /\ Grown(files.main[b], g.main[b], m)
<1> DEFINE f == files.main[b]
           h == AppendTo(f, m)
<1>1. f \in FileOf(K) /\ g = PutMain(files, b, h)
  BY FilesAre, ThreadsAre DEF AppendMain
<1> HIDE DEF f
<1>2. h = AppendTo(f, m)
  OBVIOUS
<1> HIDE DEF h
<1>3. h \in FileOf(K) /\ Grown(f, h, m)
  BY <1>1, <1>2, GrownIs
<1>4. /\ PutMain(files, b, h) \in FilesOf(K)
      /\ PutMain(files, b, h).main[b] = h
      /\ OnlyMain(files, PutMain(files, b, h), b)
  BY <1>3, PutMainIs
<1> QED
  BY <1>1, <1>3, <1>4 DEF f

LEMMA MainKeeps ==
    ASSUME NEW K, NEW files \in FilesOf(K), NEW g \in FilesOf(K), NEW b \in Bucket, NEW m \in FileOf(K),
           OnlyMain(files, g, b), Grown(files.main[b], g.main[b], m)
    PROVE  /\ \A bk : InPlace(files, bk) /\ AllIn(m, bk, b) => InPlace(g, bk)
           /\ Untorn(files) /\ ~ m.torn => Untorn(g)
           /\ \A n : Beyond(files, n) => Beyond(g, n)
           /\ \A B, T : Emptied(files, B, T) => Emptied(g, B, T)
           /\ \A Keys : Holds(files, Keys) /\ DOMAIN m.records \subseteq Keys => Holds(g, Keys)
           /\ NoLess(files, g)
<1> DEFINE f == files.main[b]
           h == g.main[b]
<1>1. /\ g.thread = files.thread
      /\ \A c \in Bucket : c # b => g.main[c] = files.main[c]
  BY DEF OnlyMain
<1>2. /\ DOMAIN h.records \subseteq DOMAIN f.records \cup DOMAIN m.records
      /\ f.torn => h = f
      /\ ~ f.torn => h.torn = m.torn
      /\ \A k : Copies(k, f.records) <= Copies(k, h.records)
  BY DEF Grown
<1>3. NoLess(files, g)
  <2> SUFFICES ASSUME NEW k, NEW c \in Bucket
               PROVE  /\ Copies(k, files.main[c].records) <= Copies(k, g.main[c].records)
                      /\ \A o \in Thread :
                            Copies(k, files.thread[o][c].records) <= Copies(k, g.thread[o][c].records)
    BY DEF NoLess
  <2>1. /\ Copies(k, files.main[c].records) \in Nat
        /\ \A o \in Thread : Copies(k, files.thread[o][c].records) \in Nat
    BY FilesAre, CopiesAre, ThreadsAre
  <2>2. Copies(k, files.main[c].records) <= Copies(k, g.main[c].records)
    <3>1. CASE c = b
      BY <1>2, <3>1
    <3>2. CASE c # b
      <4>1. g.main[c] = files.main[c]
        BY <1>1, <3>2
      <4> QED
        BY <2>1, <4>1
    <3> QED
      BY <3>1, <3>2
  <2> QED
    BY <1>1, <2>1, <2>2
<1>4. ASSUME NEW bk, InPlace(files, bk), AllIn(m, bk, b) PROVE InPlace(g, bk)
  <2> SUFFICES ASSUME NEW c \in Bucket, NEW k \in DOMAIN g.main[c].records
               PROVE  k \in DOMAIN bk /\ bk[k] = c
    BY <1>1, <1>4 DEF InPlace
  <2>1. CASE c = b
    <3>1. k \in DOMAIN f.records \/ k \in DOMAIN m.records
      BY <1>2, <2>1
    <3> QED
      BY <1>4, <2>1, <3>1 DEF InPlace, AllIn
  <2>2. CASE c # b
    BY <1>1, <1>4, <2>2 DEF InPlace
  <2> QED
    BY <2>1, <2>2
<1>5. Untorn(files) /\ ~ m.torn => Untorn(g)
  <2> SUFFICES ASSUME Untorn(files), ~ m.torn, NEW c \in Bucket
               PROVE  ~ g.main[c].torn /\ \A o \in Thread : ~ g.thread[o][c].torn
    BY DEF Untorn
  <2>1. ~ f.torn /\ ~ h.torn
    BY <1>2 DEF Untorn
  <2> QED
    BY <1>1, <2>1 DEF Untorn
<1>6. /\ \A n : Beyond(files, n) => Beyond(g, n)
      /\ \A B, T : Emptied(files, B, T) => Emptied(g, B, T)
  BY <1>1 DEF Beyond, Emptied
<1>7. ASSUME NEW Keys, Holds(files, Keys), DOMAIN m.records \subseteq Keys PROVE Holds(g, Keys)
  <2>1. ASSUME NEW c \in Bucket PROVE DOMAIN g.main[c].records \subseteq Keys
    <3>1. CASE c = b
      BY <1>2, <1>7, <3>1 DEF Holds
    <3>2. CASE c # b
      BY <1>1, <1>7, <3>2 DEF Holds
    <3> QED
      BY <3>1, <3>2
  <2> QED
    BY <1>1, <1>7, <2>1 DEF Holds
<1> QED
  BY <1>3, <1>4, <1>5, <1>6, <1>7

\* The file of a thread is copied to the merged one.
LEMMA CopyKeeps ==
    ASSUME NEW K, NEW files \in FilesOf(K), NEW B \in Bucket, NEW T \in Thread,
           NEW g, g = AppendMain(files, B, files.thread[T][B])
    PROVE  /\ g \in FilesOf(K) /\ OnlyMain(files, g, B)
           /\ \A bk : InPlace(files, bk) => InPlace(g, bk)
           /\ Untorn(files) => Untorn(g) /\ Takes(files, g, T, B)
           /\ \A n : Beyond(files, n) => Beyond(g, n)
           /\ \A A, C : Emptied(files, A, C) => Emptied(g, A, C)
           /\ \A Keys : Holds(files, Keys) => Holds(g, Keys)
<1> DEFINE m == files.thread[T][B]
<1>1. /\ m \in FileOf(K) /\ (Untorn(files) => ~ m.torn /\ ~ files.main[B].torn)
      /\ \A bk : InPlace(files, bk) => AllIn(m, bk, B)
      /\ \A Keys : Holds(files, Keys) => DOMAIN m.records \subseteq Keys
      /\ g = AppendMain(files, B, m)
  BY FilesAre DEF Untorn, InPlace, AllIn, Holds
<1> HIDE DEF m
<1>2. g \in FilesOf(K) /\ OnlyMain(files, g, B) /\ Grown(files.main[B], g.main[B], m)
  BY <1>1, MainWritten
<1>3. Untorn(files) => Takes(files, g, T, B)
  BY <1>1, <1>2 DEF Takes, Grown, m
<1>4. /\ \A bk : InPlace(files, bk) /\ AllIn(m, bk, B) => InPlace(g, bk)
      /\ Untorn(files) /\ ~ m.torn => Untorn(g)
      /\ \A n : Beyond(files, n) => Beyond(g, n)
      /\ \A A, C : Emptied(files, A, C) => Emptied(g, A, C)
      /\ \A Keys : Holds(files, Keys) /\ DOMAIN m.records \subseteq Keys => Holds(g, Keys)
  BY <1>1, <1>2, MainKeeps
<1> QED
  BY <1>1, <1>2, <1>3, <1>4

\* It is removed.
LEMMA RemoveKeeps ==
    ASSUME NEW K, NEW files \in FilesOf(K), NEW B \in Bucket, NEW T \in Thread,
           NEW g, g = PutThread(files, T, B, NoFile)
    PROVE  /\ g \in FilesOf(K) /\ OnlyThread(files, g, T, B) /\ g.thread[T][B] = NoFile
           /\ \A bk : InPlace(files, bk) => InPlace(g, bk)
           /\ Untorn(files) => Untorn(g)
           /\ \A n : Beyond(files, n) => Beyond(g, n)
           /\ Emptied(files, B, T) => Emptied(g, B, T + 1)
           /\ Emptied(files, B, T) /\ Beyond(files, T) => Emptied(g, B + 1, 1)
           /\ \A Keys : Holds(files, Keys) => Holds(g, Keys)
<1>0. NoFile \in FileOf(K) /\ DOMAIN NoFile.records = {} /\ NoFile.records = EmptyBag /\ ~ NoFile.torn
  BY NoFileIs, EmptyIs
<1>1. g \in FilesOf(K) /\ OnlyThread(files, g, T, B) /\ g.thread[T][B] = NoFile
  BY <1>0, PutThreadIs
<1>2. /\ g.main = files.main
      /\ \A c \in Bucket, o \in Thread : o # T \/ c # B => g.thread[o][c] = files.thread[o][c]
  BY <1>1 DEF OnlyThread
<1>3. \A c \in Bucket, o \in Thread : g.thread[o][c] = NoFile \/ g.thread[o][c] = files.thread[o][c]
  BY <1>1, <1>2
<1>4. ASSUME NEW bk, InPlace(files, bk) PROVE InPlace(g, bk)
  <2>1. ASSUME NEW c \in Bucket, NEW o \in Thread, NEW k \in DOMAIN g.thread[o][c].records
        PROVE  k \in DOMAIN bk /\ bk[k] = c
    <3>1. g.thread[o][c] = files.thread[o][c]
      BY <1>0, <1>3
    <3> QED
      BY <1>4, <3>1 DEF InPlace
  <2> QED
    BY <1>2, <1>4, <2>1 DEF InPlace
<1>5. Untorn(files) => Untorn(g)
  BY <1>0, <1>2, <1>3 DEF Untorn
<1>6. \A n : Beyond(files, n) => Beyond(g, n)
  BY <1>0, <1>3 DEF Beyond
<1>7. Emptied(files, B, T) => Emptied(g, B, T + 1)
  <2> SUFFICES ASSUME Emptied(files, B, T), NEW b \in Bucket, NEW t \in Thread, b < B \/ (b = B /\ t < T + 1)
               PROVE  g.thread[t][b].records = EmptyBag
    BY DEF Emptied
  <2>1. CASE b = B /\ t = T
    BY <1>0, <1>1, <2>1
  <2>2. CASE ~ (b = B /\ t = T)
    <3>1. b < B \/ (b = B /\ t < T)
      BY <2>2, ThreadsAre
    <3> QED
      BY <1>2, <2>2, <3>1 DEF Emptied
  <2> QED
    BY <2>1, <2>2
<1>8. Emptied(files, B, T) /\ Beyond(files, T) => Emptied(g, B + 1, 1)
  <2> SUFFICES ASSUME Emptied(files, B, T), Beyond(files, T), NEW b \in Bucket, NEW t \in Thread,
                      b < B + 1 \/ (b = B + 1 /\ t < 1)
               PROVE  g.thread[t][b].records = EmptyBag
    BY DEF Emptied
  <2>0. t \in Nat /\ t >= 1 /\ T \in Nat /\ b \in Nat /\ B \in Nat
    BY ThreadsAre, BucketsAre DEF Thread
  <2>1. CASE b = B /\ t = T
    BY <1>0, <1>1, <2>1
  <2>2. CASE ~ (b = B /\ t = T)
    <3>1. b < B \/ (b = B /\ t < T) \/ t > T
      BY <2>0, <2>2
    <3> QED
      BY <1>2, <2>2, <3>1 DEF Emptied, Beyond
  <2> QED
    BY <2>1, <2>2
<1>9. ASSUME NEW Keys, Holds(files, Keys) PROVE Holds(g, Keys)
  <2>1. ASSUME NEW c \in Bucket, NEW o \in Thread PROVE DOMAIN g.thread[o][c].records \subseteq Keys
    BY <1>0, <1>3, <1>9 DEF Holds
  <2> QED
    BY <1>2, <1>9, <2>1 DEF Holds
<1> QED
  BY <1>1, <1>4, <1>5, <1>6, <1>7, <1>8, <1>9

-----------------------------------------------------------------------------
(* The files are merged.                                                   *)

LEMMA NextPartIs ==
    ASSUME Typed, PlaceOK, job.bucket \in Bucket, job' = NextPart
    PROVE  /\ job' = [job EXCEPT !.thread = job'.thread, !.bucket = job'.bucket, !.copied = FALSE]
           /\ job'.at = job.at /\ job'.threads = job.threads /\ job'.pending = job.pending
           /\ job'.task = job.task /\ job'.rows = job.rows /\ job'.posts = job.posts
           /\ job'.copied = FALSE /\ job'.thread \in Thread /\ job'.thread <= job.threads
           /\ job'.bucket \in 0 .. Buckets
           /\ \/ job'.thread = job.thread + 1 /\ job'.bucket = job.bucket
              \/ job.thread = job.threads /\ job'.thread = 1 /\ job'.bucket = job.bucket + 1
<1>1. job.thread <= job.threads /\ job.thread \in Thread /\ job.threads \in Thread /\ job.bucket \in 0 .. Buckets
  BY DEF Typed, PlaceOK
<1>2. /\ job.bucket + 1 \in 0 .. Buckets /\ 1 \in Thread /\ MaxThreads \in Nat
      /\ \A t : t \in Thread <=> t \in Nat /\ 1 <= t /\ t <= MaxThreads
  <2>1. job.bucket + 1 \in 0 .. Buckets
    BY BucketsAre
  <2>2. MaxThreads \in Nat \ {0}
    BY SizeAssumption
  <2>3. \A t : t \in Thread <=> t \in Nat /\ 1 <= t /\ t <= MaxThreads
    BY <2>2 DEF Thread
  <2>4. 1 \in Thread
    BY <2>2, <2>3
  <2> QED
    BY <2>1, <2>2, <2>3, <2>4
<1>3. CASE job.thread < job.threads
  <2>1. job' = [job EXCEPT !.thread = job.thread + 1, !.copied = FALSE]
    BY <1>3 DEF NextPart
  <2>2. job.thread + 1 \in Thread /\ job.thread + 1 <= job.threads
    BY <1>1, <1>2, <1>3
  <2>3. /\ job'.at = job.at /\ job'.threads = job.threads /\ job'.pending = job.pending
        /\ job'.task = job.task /\ job'.rows = job.rows /\ job'.posts = job.posts
        /\ job'.copied = FALSE /\ job'.thread = job.thread + 1 /\ job'.bucket = job.bucket
    BY <2>1 DEF Typed
  <2>4. job' = [job EXCEPT !.thread = job'.thread, !.bucket = job'.bucket, !.copied = FALSE]
    BY <2>1, <2>3 DEF Typed
  <2> QED
    BY <1>1, <2>2, <2>3, <2>4
<1>4. CASE ~ (job.thread < job.threads)
  <2>1. job' = [job EXCEPT !.thread = 1, !.bucket = job.bucket + 1, !.copied = FALSE]
    BY <1>4 DEF NextPart
  <2>2. job.thread = job.threads /\ 1 <= job.threads
    BY <1>1, <1>2, <1>4
  <2>3. /\ job'.at = job.at /\ job'.threads = job.threads /\ job'.pending = job.pending
        /\ job'.task = job.task /\ job'.rows = job.rows /\ job'.posts = job.posts
        /\ job'.copied = FALSE /\ job'.thread = 1 /\ job'.bucket = job.bucket + 1
    BY <2>1 DEF Typed
  <2>4. job' = [job EXCEPT !.thread = job'.thread, !.bucket = job'.bucket, !.copied = FALSE]
    BY <2>1, <2>3 DEF Typed
  <2> QED
    BY <1>1, <1>2, <2>2, <2>3, <2>4
<1> QED
  BY <1>3, <1>4

LEMMA SameTasks ==
    ASSUME TasksOK, job'.at = job.at, job'.threads = job.threads, job'.pending = job.pending,
           job'.task = job.task, work'.progress = work.progress
    PROVE  TasksOK'
  BY DEF TasksOK, At

LEMMA SameUnits ==
    ASSUME job.at # "idle", job'.at # "idle", job'.pending = job.pending, job'.task = job.task
    PROVE  Counted' = Counted
  BY DEF Counted, At

LEMMA CopyDfStep ==
    ASSUME TfidfInv, job.at = "mergeDf", job.bucket \in Bucket, ~ job.copied,
           work' = [work EXCEPT !.df = CopyPart(@)], job' = [job EXCEPT !.copied = TRUE],
           store' = store, history' = history, deaths' = deaths, changes' = changes
    PROVE  TfidfInv'
<1> USE DEF TfidfInv, At
<1> DEFINE g == AppendMain(work.df, job.bucket, work.df.thread[job.thread][job.bucket])
<1>a. /\ work.df \in FilesOf(Term) /\ job.thread \in Thread /\ job.bucket \in Bucket
      /\ job.thread <= job.threads /\ job.threads = history.threads
      /\ store \in Stores /\ store \in history.stores
  BY DEF Typed, PlaceOK
<1>b. work' = [work EXCEPT !.df = g]
  BY DEF CopyPart, AppendMain, PutMain
<1>c. g = AppendMain(work.df, job.bucket, work.df.thread[job.thread][job.bucket])
  OBVIOUS
<1> HIDE DEF g
<1>d. /\ g \in FilesOf(Term) /\ OnlyMain(work.df, g, job.bucket)
      /\ \A bk : InPlace(work.df, bk) => InPlace(g, bk)
      /\ Untorn(work.df) => Untorn(g) /\ Takes(work.df, g, job.thread, job.bucket)
      /\ \A n : Beyond(work.df, n) => Beyond(g, n)
      /\ \A A, C : Emptied(work.df, A, C) => Emptied(g, A, C)
      /\ \A Keys : Holds(work.df, Keys) => Holds(g, Keys)
  BY <1>a, <1>c, CopyKeeps
<1>e. /\ work'.progress = work.progress
      /\ work'.begun = work.begun /\ work'.done = work.done /\ work'.dfDir = work.dfDir
      /\ work'.df = g /\ work'.post = work.post /\ work'.vocab = work.vocab /\ work'.dfs = work.dfs
      /\ work'.idf = work.idf /\ work'.termid = work.termid
  BY <1>b DEF Typed
<1>f. /\ job'.at = job.at /\ job'.threads = job.threads /\ job'.pending = job.pending
      /\ job'.task = job.task /\ job'.bucket = job.bucket /\ job'.thread = job.thread
      /\ job'.copied = TRUE /\ job'.rows = job.rows /\ job'.posts = job.posts
  BY DEF Typed
<1>1. Typed'
  BY <1>b, <1>d DEF Typed
<1>2. TasksOK' /\ Counted' = Counted
  BY <1>e, <1>f, SameTasks, SameUnits
<1>3. PlaceOK' /\ StageOK'
  BY <1>e, <1>f, BucketsAre DEF PlaceOK, Merging, StageOK, Whole3
<1>4. TornOK'
  BY <1>d, <1>e DEF TornOK, ExactDf, ExactPost, Died
<1>5. VocabOK'
  BY <1>e, FrameVocab
<1>g. Skip("mergeDf") = 0 /\ Skip("mergeDf")' = job.thread
  BY <1>f DEF Skip
<1>h. ASSUME NEW s \in Stores, Untorn(work.df), NEW exact,
             Ledger(work.df, DfB, DfRows(s), Counted, exact, job.bucket, 0)
      PROVE  Ledger(g, DfB, DfRows(s), Counted, exact, job.bucket, job.thread)
  <2>1. Placed(DfB) /\ Takes(work.df, g, job.thread, job.bucket)
    BY <1>d, <1>h, BucketsAre
  <2> QED
    BY <1>a, <1>d, <1>h, <2>1, CopyLedger
<1>6. DfOK'
  <2>1. DfB' = DfB /\ ExactDf' = ExactDf /\ Unharmed' = Unharmed /\ ~ work.done
    BY DEF DfB, ExactDf, Unharmed, Died, StageOK
  <2>2. ASSUME NEW s \in Stores, history.stores = {s}, ExactDf \/ Unharmed
        PROVE  Ledger(g, DfB, DfRows(s), Counted, ExactDf, job.bucket, job.thread)
    <3>1. Ledger(work.df, DfB, DfRows(s), Counted, ExactDf, job.bucket, 0)
      BY <1>g, <2>1, <2>2 DEF DfOK
    <3>2. Untorn(work.df)
      BY <2>2 DEF TornOK, Unharmed, Died
    <3> QED
      BY <1>h, <3>1, <3>2
  <2>3. /\ InPlace(g, DfB)
        /\ ExactDf \/ Unharmed => Beyond(g, history.threads) /\ Emptied(g, job.bucket, job.thread)
    BY <1>d, <2>1 DEF DfOK
  <2> QED
    BY <1>2, <1>e, <1>f, <1>g, <2>1, <2>2, <2>3 DEF DfOK
<1>7. PostOK'
  BY <1>e, <1>f, FramePost DEF PostStages
<1>8. PostsOK' /\ RowsOK'
  BY <1>f, FramePosts, NoRows DEF PlaceOK, LastStages, PostStages
<1> QED
  BY <1>1, <1>2, <1>3, <1>4, <1>5, <1>6, <1>7, <1>8

LEMMA CopyPostStep ==
    ASSUME TfidfInv, job.at = "mergePost", job.bucket \in Bucket, ~ job.copied,
           work' = [work EXCEPT !.post = CopyPart(@)], job' = [job EXCEPT !.copied = TRUE],
           store' = store, history' = history, deaths' = deaths, changes' = changes
    PROVE  TfidfInv'
<1> USE DEF TfidfInv, At
<1> DEFINE g == AppendMain(work.post, job.bucket, work.post.thread[job.thread][job.bucket])
<1>a. /\ work.post \in FilesOf(Term \X Doc) /\ job.thread \in Thread /\ job.bucket \in Bucket
      /\ job.thread <= job.threads /\ job.threads = history.threads
      /\ store \in Stores /\ store \in history.stores
  BY DEF Typed, PlaceOK
<1>b. work' = [work EXCEPT !.post = g]
  BY DEF CopyPart, AppendMain, PutMain
<1>c. g = AppendMain(work.post, job.bucket, work.post.thread[job.thread][job.bucket])
  OBVIOUS
<1> HIDE DEF g
<1>d. /\ g \in FilesOf(Term \X Doc) /\ OnlyMain(work.post, g, job.bucket)
      /\ \A bk : InPlace(work.post, bk) => InPlace(g, bk)
      /\ Untorn(work.post) => Untorn(g) /\ Takes(work.post, g, job.thread, job.bucket)
      /\ \A n : Beyond(work.post, n) => Beyond(g, n)
      /\ \A A, C : Emptied(work.post, A, C) => Emptied(g, A, C)
      /\ \A Keys : Holds(work.post, Keys) => Holds(g, Keys)
  BY <1>a, <1>c, CopyKeeps
<1>e. /\ work'.progress = work.progress
      /\ work'.begun = work.begun /\ work'.done = work.done /\ work'.dfDir = work.dfDir
      /\ work'.post = g /\ work'.df = work.df /\ work'.vocab = work.vocab /\ work'.dfs = work.dfs
      /\ work'.idf = work.idf /\ work'.termid = work.termid
  BY <1>b DEF Typed
<1>f. /\ job'.at = job.at /\ job'.threads = job.threads /\ job'.pending = job.pending
      /\ job'.task = job.task /\ job'.bucket = job.bucket /\ job'.thread = job.thread
      /\ job'.copied = TRUE /\ job'.rows = job.rows /\ job'.posts = job.posts
  BY DEF Typed
<1>1. Typed'
  BY <1>b, <1>d DEF Typed
<1>2. TasksOK' /\ Counted' = Counted
  BY <1>e, <1>f, SameTasks, SameUnits
<1>3. PlaceOK' /\ StageOK'
  BY <1>e, <1>f, BucketsAre DEF PlaceOK, Merging, StageOK, Whole3
<1>4. TornOK'
  BY <1>d, <1>e DEF TornOK, ExactDf, ExactPost, Died
<1>5. VocabOK'
  BY <1>e, FrameVocab
<1>g. Skip("mergePost") = 0 /\ Skip("mergePost")' = job.thread
  BY <1>f DEF Skip
<1>h. ASSUME NEW s \in Stores, Untorn(work.post), NEW exact,
             Ledger(work.post, PostB, PostRows(s), Counted, exact, job.bucket, 0)
      PROVE  Ledger(g, PostB, PostRows(s), Counted, exact, job.bucket, job.thread)
  <2>1. Placed(PostB) /\ Takes(work.post, g, job.thread, job.bucket)
    BY <1>d, <1>h, PostBuckets, BagIs DEF Typed
  <2> QED
    BY <1>a, <1>d, <1>h, <2>1, CopyLedger
<1>6. DfOK'
  BY <1>e, FrameDf DEF StageOK
<1>7. PostOK'
  <2>1. PostB' = PostB /\ ExactPost' = ExactPost /\ Unharmed' = Unharmed
    BY <1>e, FramePostB DEF ExactPost, Unharmed, Died
  <2>2. ASSUME NEW s \in Stores, history.stores = {s}, ExactPost \/ Unharmed
        PROVE  Ledger(g, PostB, PostRows(s), Counted, ExactPost, job.bucket, job.thread)
    <3>1. Ledger(work.post, PostB, PostRows(s), Counted, ExactPost, job.bucket, 0)
      BY <1>g, <2>1, <2>2 DEF PostOK
    <3>2. Untorn(work.post)
      BY <2>2 DEF TornOK, Unharmed, Died
    <3> QED
      BY <1>h, <3>1, <3>2
  <2>3. /\ InPlace(g, PostB)
        /\ ExactPost \/ Unharmed => Beyond(g, history.threads) /\ Emptied(g, job.bucket, job.thread)
        /\ \A s \in Stores : history.stores = {s} => Holds(g, Real(s))
    BY <1>d, <2>1 DEF PostOK
  <2> QED
    BY <1>2, <1>e, <1>f, <1>g, <2>1, <2>2, <2>3 DEF PostOK
<1>8. PostsOK'
  BY <1>f, FramePosts DEF PlaceOK, LastStages
<1>9. RowsOK'
  BY <1>e, <1>f, FrameRows DEF PostStages
<1> QED
  BY <1>1, <1>2, <1>3, <1>4, <1>5, <1>6, <1>7, <1>8, <1>9

LEMMA RemoveDfStep ==
    ASSUME TfidfInv, job.at = "mergeDf", job.bucket \in Bucket, job.copied,
           work' = [work EXCEPT !.df = RemovePart(@)], job' = NextPart,
           store' = store, history' = history, deaths' = deaths, changes' = changes
    PROVE  TfidfInv'
<1> USE DEF TfidfInv, At
<1> DEFINE g == PutThread(work.df, job.thread, job.bucket, NoFile)
<1>a. /\ work.df \in FilesOf(Term) /\ job.thread \in Thread /\ job.bucket \in Bucket
      /\ job.thread <= job.threads /\ job.threads = history.threads
      /\ store \in Stores /\ store \in history.stores
  BY DEF Typed, PlaceOK
<1>b. work' = [work EXCEPT !.df = g]
  BY DEF RemovePart, PutThread
<1>c. g = PutThread(work.df, job.thread, job.bucket, NoFile)
  OBVIOUS
<1> HIDE DEF g
<1>d. /\ g \in FilesOf(Term) /\ OnlyThread(work.df, g, job.thread, job.bucket)
      /\ g.thread[job.thread][job.bucket] = NoFile
      /\ \A bk : InPlace(work.df, bk) => InPlace(g, bk)
      /\ Untorn(work.df) => Untorn(g)
      /\ \A n : Beyond(work.df, n) => Beyond(g, n)
      /\ Emptied(work.df, job.bucket, job.thread) => Emptied(g, job.bucket, job.thread + 1)
      /\ Emptied(work.df, job.bucket, job.thread) /\ Beyond(work.df, job.thread) => Emptied(g, job.bucket + 1, 1)
      /\ \A Keys : Holds(work.df, Keys) => Holds(g, Keys)
  BY <1>a, <1>c, RemoveKeeps
<1>e. /\ work'.progress = work.progress
      /\ work'.begun = work.begun /\ work'.done = work.done /\ work'.dfDir = work.dfDir
      /\ work'.df = g /\ work'.post = work.post /\ work'.vocab = work.vocab /\ work'.dfs = work.dfs
      /\ work'.idf = work.idf /\ work'.termid = work.termid
  BY <1>b DEF Typed
<1>f. /\ job' = [job EXCEPT !.thread = job'.thread, !.bucket = job'.bucket, !.copied = FALSE]
      /\ job'.at = job.at /\ job'.threads = job.threads /\ job'.pending = job.pending
      /\ job'.task = job.task /\ job'.rows = job.rows /\ job'.posts = job.posts
      /\ job'.copied = FALSE /\ job'.thread \in Thread /\ job'.thread <= job.threads
      /\ job'.bucket \in 0 .. Buckets
      /\ \/ job'.thread = job.thread + 1 /\ job'.bucket = job.bucket
         \/ job.thread = job.threads /\ job'.thread = 1 /\ job'.bucket = job.bucket + 1
  BY NextPartIs
<1>1. Typed'
  <2>1. job' \in [at : Stage, threads : Thread, pending : SUBSET Unit,
                  task : [Thread -> [unit : SUBSET Unit, left : SUBSET Bucket]],
                  bucket : 0 .. Buckets, thread : Thread, copied : BOOLEAN,
                  rows : SUBSET Doc, posts : Bag(Term \X Doc)]
    BY <1>f DEF Typed
  <2> QED
    BY <1>b, <1>d, <2>1 DEF Typed
<1>2. TasksOK' /\ Counted' = Counted
  BY <1>e, <1>f, SameTasks, SameUnits
<1>3. PlaceOK'
  BY <1>f, BucketsAre DEF PlaceOK, Merging
<1>4. StageOK'
  BY <1>e, <1>f DEF StageOK, Whole3
<1>5. TornOK'
  BY <1>d, <1>e DEF TornOK, ExactDf, ExactPost, Died
<1>6. VocabOK'
  BY <1>e, FrameVocab
<1>g. Skip("mergeDf") = job.thread /\ Skip("mergeDf")' = 0
  BY <1>f DEF Skip
<1>h. ASSUME NEW s \in Stores, NEW exact, NEW C,
             Ledger(work.df, DfB, DfRows(s), Counted, exact, job.bucket, job.thread)
      PROVE  Ledger(g, DfB, DfRows(s), Counted, exact, C, 0)
  <2>1. Placed(DfB)
    BY BucketsAre
  <2> QED
    BY <1>a, <1>d, <1>h, <2>1, RemoveLedger
<1>i. ASSUME Beyond(work.df, history.threads), Emptied(work.df, job.bucket, job.thread)
      PROVE  Emptied(g, job'.bucket, job'.thread)
  BY <1>a, <1>d, <1>f, <1>i
<1>7. DfOK'
  <2>1. DfB' = DfB /\ ExactDf' = ExactDf /\ Unharmed' = Unharmed /\ ~ work.done
    BY DEF DfB, ExactDf, Unharmed, Died, StageOK
  <2>2. ASSUME NEW s \in Stores, history.stores = {s}, ExactDf \/ Unharmed
        PROVE  Ledger(g, DfB, DfRows(s), Counted, ExactDf, job'.bucket, 0)
    <3>1. Ledger(work.df, DfB, DfRows(s), Counted, ExactDf, job.bucket, job.thread)
      BY <1>g, <2>1, <2>2 DEF DfOK
    <3> QED
      BY <1>h, <3>1
  <2>3. /\ InPlace(g, DfB)
        /\ ExactDf \/ Unharmed => Beyond(g, history.threads) /\ Emptied(g, job'.bucket, job'.thread)
    BY <1>d, <1>i, <2>1 DEF DfOK
  <2> QED
    BY <1>2, <1>e, <1>f, <1>g, <2>1, <2>2, <2>3 DEF DfOK
<1>8. PostOK'
  BY <1>e, <1>f, FramePost DEF PostStages
<1>9. PostsOK' /\ RowsOK'
  BY <1>f, FramePosts, NoRows DEF PlaceOK, LastStages, PostStages
<1> QED
  BY <1>1, <1>2, <1>3, <1>4, <1>5, <1>6, <1>7, <1>8, <1>9

LEMMA RemovePostStep ==
    ASSUME TfidfInv, job.at = "mergePost", job.bucket \in Bucket, job.copied,
           work' = [work EXCEPT !.post = RemovePart(@)], job' = NextPart,
           store' = store, history' = history, deaths' = deaths, changes' = changes
    PROVE  TfidfInv'
<1> USE DEF TfidfInv, At
<1> DEFINE g == PutThread(work.post, job.thread, job.bucket, NoFile)
<1>a. /\ work.post \in FilesOf(Term \X Doc) /\ job.thread \in Thread /\ job.bucket \in Bucket
      /\ job.thread <= job.threads /\ job.threads = history.threads
      /\ store \in Stores /\ store \in history.stores
  BY DEF Typed, PlaceOK
<1>b. work' = [work EXCEPT !.post = g]
  BY DEF RemovePart, PutThread
<1>c. g = PutThread(work.post, job.thread, job.bucket, NoFile)
  OBVIOUS
<1> HIDE DEF g
<1>d. /\ g \in FilesOf(Term \X Doc) /\ OnlyThread(work.post, g, job.thread, job.bucket)
      /\ g.thread[job.thread][job.bucket] = NoFile
      /\ \A bk : InPlace(work.post, bk) => InPlace(g, bk)
      /\ Untorn(work.post) => Untorn(g)
      /\ \A n : Beyond(work.post, n) => Beyond(g, n)
      /\ Emptied(work.post, job.bucket, job.thread) => Emptied(g, job.bucket, job.thread + 1)
      /\ Emptied(work.post, job.bucket, job.thread) /\ Beyond(work.post, job.thread) => Emptied(g, job.bucket + 1, 1)
      /\ \A Keys : Holds(work.post, Keys) => Holds(g, Keys)
  BY <1>a, <1>c, RemoveKeeps
<1>e. /\ work'.progress = work.progress
      /\ work'.begun = work.begun /\ work'.done = work.done /\ work'.dfDir = work.dfDir
      /\ work'.post = g /\ work'.df = work.df /\ work'.vocab = work.vocab /\ work'.dfs = work.dfs
      /\ work'.idf = work.idf /\ work'.termid = work.termid
  BY <1>b DEF Typed
<1>f. /\ job' = [job EXCEPT !.thread = job'.thread, !.bucket = job'.bucket, !.copied = FALSE]
      /\ job'.at = job.at /\ job'.threads = job.threads /\ job'.pending = job.pending
      /\ job'.task = job.task /\ job'.rows = job.rows /\ job'.posts = job.posts
      /\ job'.copied = FALSE /\ job'.thread \in Thread /\ job'.thread <= job.threads
      /\ job'.bucket \in 0 .. Buckets
      /\ \/ job'.thread = job.thread + 1 /\ job'.bucket = job.bucket
         \/ job.thread = job.threads /\ job'.thread = 1 /\ job'.bucket = job.bucket + 1
  BY NextPartIs
<1>1. Typed'
  <2>1. job' \in [at : Stage, threads : Thread, pending : SUBSET Unit,
                  task : [Thread -> [unit : SUBSET Unit, left : SUBSET Bucket]],
                  bucket : 0 .. Buckets, thread : Thread, copied : BOOLEAN,
                  rows : SUBSET Doc, posts : Bag(Term \X Doc)]
    BY <1>f DEF Typed
  <2> QED
    BY <1>b, <1>d, <2>1 DEF Typed
<1>2. TasksOK' /\ Counted' = Counted
  BY <1>e, <1>f, SameTasks, SameUnits
<1>3. PlaceOK'
  BY <1>f, BucketsAre DEF PlaceOK, Merging
<1>4. StageOK'
  BY <1>e, <1>f DEF StageOK, Whole3
<1>5. TornOK'
  BY <1>d, <1>e DEF TornOK, ExactDf, ExactPost, Died
<1>6. VocabOK'
  BY <1>e, FrameVocab
<1>g. Skip("mergePost") = job.thread /\ Skip("mergePost")' = 0
  BY <1>f DEF Skip
<1>h. ASSUME NEW s \in Stores, NEW exact, NEW C,
             Ledger(work.post, PostB, PostRows(s), Counted, exact, job.bucket, job.thread)
      PROVE  Ledger(g, PostB, PostRows(s), Counted, exact, C, 0)
  <2>1. Placed(PostB)
    BY PostBuckets, BagIs DEF Typed
  <2> QED
    BY <1>a, <1>d, <1>h, <2>1, RemoveLedger
<1>i. ASSUME Beyond(work.post, history.threads), Emptied(work.post, job.bucket, job.thread)
      PROVE  Emptied(g, job'.bucket, job'.thread)
  BY <1>a, <1>d, <1>f, <1>i
<1>7. DfOK'
  BY <1>e, FrameDf DEF StageOK
<1>8. PostOK'
  <2>1. PostB' = PostB /\ ExactPost' = ExactPost /\ Unharmed' = Unharmed
    BY <1>e, FramePostB DEF ExactPost, Unharmed, Died
  <2>2. ASSUME NEW s \in Stores, history.stores = {s}, ExactPost \/ Unharmed
        PROVE  Ledger(g, PostB, PostRows(s), Counted, ExactPost, job'.bucket, 0)
    <3>1. Ledger(work.post, PostB, PostRows(s), Counted, ExactPost, job.bucket, job.thread)
      BY <1>g, <2>1, <2>2 DEF PostOK
    <3> QED
      BY <1>h, <3>1
  <2>3. /\ InPlace(g, PostB)
        /\ ExactPost \/ Unharmed => Beyond(g, history.threads) /\ Emptied(g, job'.bucket, job'.thread)
        /\ \A s \in Stores : history.stores = {s} => Holds(g, Real(s))
    BY <1>d, <1>i, <2>1 DEF PostOK
  <2> QED
    BY <1>2, <1>e, <1>f, <1>g, <2>1, <2>2, <2>3 DEF PostOK
<1>9. PostsOK'
  BY <1>f, FramePosts DEF PlaceOK, LastStages
<1>10. RowsOK'
  BY <1>e, <1>f, FrameRows DEF PostStages
<1> QED
  BY <1>1, <1>2, <1>3, <1>4, <1>5, <1>6, <1>7, <1>8, <1>9, <1>10

LEMMA MergeStep == ASSUME TfidfInv, Merge PROVE TfidfInv'
<1>0. /\ job.at \in {"mergeDf", "mergePost"} /\ job.bucket \in Bucket
      /\ store' = store /\ history' = history /\ deaths' = deaths /\ changes' = changes
  BY DEF Merge
<1>1. CASE job.at = "mergeDf"
  <2>1. \/ ~ job.copied /\ work' = [work EXCEPT !.df = CopyPart(@)] /\ job' = [job EXCEPT !.copied = TRUE]
        \/ job.copied /\ work' = [work EXCEPT !.df = RemovePart(@)] /\ job' = NextPart
    BY <1>1, Zenon DEF Merge, At
  <2> QED
    BY <1>0, <1>1, <2>1, CopyDfStep, RemoveDfStep
<1>2. CASE job.at = "mergePost"
  <2>1. job.at # "mergeDf"
    BY <1>2
  <2>2. \/ ~ job.copied /\ work' = [work EXCEPT !.post = CopyPart(@)] /\ job' = [job EXCEPT !.copied = TRUE]
        \/ job.copied /\ work' = [work EXCEPT !.post = RemovePart(@)] /\ job' = NextPart
    BY <2>1, Zenon DEF Merge, At
  <2> QED
    BY <1>0, <1>2, <2>2, CopyPostStep, RemovePostStep
<1> QED
  BY <1>0, <1>1, <1>2

-----------------------------------------------------------------------------
(* All files have been merged.                                             *)

LEMMA AllEmptied ==
    ASSUME NEW files, Emptied(files, Buckets, 1)
    PROVE  \A b \in Bucket, t \in Thread : files.thread[t][b].records = EmptyBag
  BY BucketsAre DEF Emptied

LEMMA AllDone ==
    ASSUME TasksOK, job.at \in Merging
    PROVE  \A b \in Bucket : Counted[b] = Unit
<1>1. job.at # "idle" /\ job.pending = {} /\ \A t \in Thread : job.task[t] = NoTask
  BY DEF TasksOK, Merging, Counting
<1> QED
  BY <1>1, AllCounted

LEMMA EndMergeDfStep == ASSUME TfidfInv, EndMergeDf PROVE TfidfInv'
<1> USE DEF TfidfInv, At
<1>0. /\ job.at = "mergeDf" /\ job.bucket = Buckets
      /\ work' = [work EXCEPT !.done = TRUE]
      /\ job' = [job EXCEPT !.at = "select", !.bucket = 0]
      /\ store' = store /\ history' = history /\ deaths' = deaths /\ changes' = changes
  BY DEF EndMergeDf
<1>a. /\ job'.at = "select" /\ job'.task = job.task /\ job'.threads = job.threads
      /\ job'.pending = job.pending /\ job'.bucket = 0 /\ job'.thread = job.thread
      /\ job'.copied = job.copied /\ job'.rows = job.rows /\ job'.posts = job.posts
  BY <1>0 DEF Typed
<1>b. /\ work'.progress = work.progress /\ work'.begun = work.begun /\ work'.done = TRUE
      /\ work'.dfDir = work.dfDir /\ work'.df = work.df /\ work'.post = work.post
      /\ work'.vocab = work.vocab /\ work'.dfs = work.dfs
      /\ work'.idf = work.idf /\ work'.termid = work.termid
  BY <1>0 DEF Typed
<1>c. job.thread = 1 /\ ~ job.copied /\ ~ work.done
  BY <1>0 DEF PlaceOK, StageOK
<1>1. Typed'
  <2>1. 0 \in 0 .. Buckets
    BY SizeAssumption
  <2> QED
    BY <1>0, <2>1 DEF Typed, Stage
<1>2. TasksOK'
  BY <1>0, <1>a DEF TasksOK, Counting
<1>3. PlaceOK' /\ StageOK'
  BY <1>0, <1>a, <1>b, <1>c DEF PlaceOK, Merging, StageOK, Whole3
<1>4. TornOK' /\ VocabOK'
  BY <1>0, <1>b, FrameTorn, FrameVocab
<1>5. DfOK'
  <2>1. DfB' = DfB /\ ExactDf' = ExactDf /\ Unharmed' = Unharmed
    BY <1>0 DEF DfB, ExactDf, Unharmed, Died
  <2>2. ASSUME NEW s \in Stores, history.stores = {s}, ExactDf \/ Unharmed
        PROVE  Merged(work.df, DfB, DfRows(s), ExactDf)
    <3>1. /\ Ledger(work.df, DfB, DfRows(s), Counted, ExactDf, job.bucket, Skip("mergeDf"))
          /\ Emptied(work.df, Buckets, 1)
      BY <1>0, <1>c, <2>2 DEF DfOK
    <3>2. \A b \in Bucket, t \in Thread : work.df.thread[t][b].records = EmptyBag
      BY <3>1, AllEmptied
    <3>3. \A b \in Bucket : Counted[b] = Unit
      BY <1>0, AllDone DEF Merging
    <3>4. work.df \in FilesOf(Term) /\ Placed(DfB)
      BY BucketsAre DEF Typed
    <3> QED
      BY <3>1, <3>2, <3>3, <3>4, MergedLedger
  <2> QED
    BY <1>0, <1>b, <2>1, <2>2 DEF DfOK
<1>6. PostOK'
  BY <1>0, <1>a, <1>b, FramePost DEF PostStages
<1>7. PostsOK' /\ RowsOK'
  BY <1>0, <1>a, FramePosts, NoRows DEF PlaceOK, LastStages, PostStages
<1> QED
  BY <1>1, <1>2, <1>3, <1>4, <1>5, <1>6, <1>7

LEMMA EndMergePostStep == ASSUME TfidfInv, EndMergePost PROVE TfidfInv'
<1> USE DEF TfidfInv, At
<1>0. /\ job.at = "mergePost" /\ job.bucket = Buckets
      /\ job' = [job EXCEPT !.at = "emit", !.bucket = 0]
      /\ work' = work /\ store' = store /\ history' = history /\ deaths' = deaths /\ changes' = changes
  BY DEF EndMergePost
<1>a. /\ job'.at = "emit" /\ job'.task = job.task /\ job'.threads = job.threads
      /\ job'.pending = job.pending /\ job'.bucket = 0 /\ job'.thread = job.thread
      /\ job'.copied = job.copied /\ job'.rows = job.rows /\ job'.posts = job.posts
  BY <1>0 DEF Typed
<1>c. job.thread = 1 /\ ~ job.copied /\ job.posts = EmptyBag
  BY <1>0 DEF PlaceOK
<1>d. DOMAIN work.dfs \subseteq Term
  BY BagIs DEF Typed
<1>1. Typed'
  <2>1. 0 \in 0 .. Buckets
    BY SizeAssumption
  <2> QED
    BY <1>0, <2>1 DEF Typed, Stage
<1>2. TasksOK'
  BY <1>0, <1>a DEF TasksOK, Counting
<1>3. PlaceOK' /\ StageOK'
  BY <1>0, <1>a, <1>c, BucketsAre, SizeAssumption DEF PlaceOK, Merging, StageOK, Whole3
<1>4. TornOK' /\ VocabOK'
  BY <1>0, FrameTorn, FrameVocab
<1>5. DfOK'
  BY <1>0, FrameDf DEF StageOK
<1>6. PostOK'
  <2>1. PostB' = PostB /\ ExactPost' = ExactPost /\ Unharmed' = Unharmed
    BY <1>0, FramePostB DEF ExactPost, Unharmed, Died
  <2>2. ASSUME NEW s \in Stores, history.stores = {s}, ExactPost \/ Unharmed
        PROVE  Merged(work.post, PostB, PostRows(s), ExactPost)
    <3>1. /\ Ledger(work.post, PostB, PostRows(s), Counted, ExactPost, job.bucket, Skip("mergePost"))
          /\ Emptied(work.post, Buckets, 1)
      BY <1>0, <1>c, <2>2 DEF PostOK
    <3>2. \A b \in Bucket, t \in Thread : work.post.thread[t][b].records = EmptyBag
      BY <3>1, AllEmptied
    <3>3. \A b \in Bucket : Counted[b] = Unit
      BY <1>0, AllDone DEF Merging
    <3>4. work.post \in FilesOf(Term \X Doc) /\ Placed(PostB)
      BY <1>d, PostBuckets DEF Typed
    <3> QED
      BY <3>1, <3>2, <3>3, <3>4, MergedLedger
  <2> QED
    BY <1>0, <1>a, <2>1, <2>2 DEF PostOK
<1>7. PostsOK'
  <2>1. PostB' = PostB /\ PostKeys' = PostKeys
    BY <1>0, FramePostB
  <2>2. \A p \in PostKeys : ~ (PostB[p] < 0)
    <3>1. \A p \in PostKeys : PostB[p] \in Bucket
      BY <1>d, PostBuckets DEF Placed
    <3>2. \A b \in Bucket : ~ (b < 0)
      BY BucketsAre
    <3> QED
      BY <3>1, <3>2
  <2> QED
    BY <1>0, <1>a, <1>c, <2>1, <2>2, EmptyIs DEF PostsOK
<1>8. RowsOK'
  BY <1>0, <1>a, FrameRows DEF PostStages
<1> QED
  BY <1>1, <1>2, <1>3, <1>4, <1>5, <1>6, <1>7, <1>8

-----------------------------------------------------------------------------
(* The lists are made of the merged files.                                 *)

LEMMA EmitStep == ASSUME TfidfInv, Emit PROVE TfidfInv'
<1> USE DEF TfidfInv, At
<1> DEFINE more == work.post.main[job.bucket].records
           posts == job.posts (+) more
<1>0. /\ job.at = "emit" /\ job.bucket \in Bucket
      /\ job' = [job EXCEPT !.bucket = @ + 1, !.posts = posts]
      /\ work' = work /\ store' = store /\ history' = history /\ deaths' = deaths /\ changes' = changes
  BY DEF Emit
<1>a. /\ job.posts \in Bag(Term \X Doc) /\ more \in Bag(Term \X Doc) /\ work.post \in FilesOf(Term \X Doc)
      /\ DOMAIN work.dfs \subseteq Term
  BY <1>0, FilesAre, ThreadsAre, BagIs DEF Typed
<1>b. /\ posts \in Bag(Term \X Doc) /\ DOMAIN posts = DOMAIN job.posts \cup DOMAIN more
      /\ \A k : Copies(k, posts) = Copies(k, job.posts) + Copies(k, more)
  <2> HIDE DEF more
  <2> QED
    BY <1>a, PlusIs
<1>c. \A k \in DOMAIN more : k \in PostKeys /\ PostB[k] = job.bucket
  BY <1>0, <1>a, PostBuckets DEF PostOK, InPlace
<1>d. \A k : Copies(k, more) \in Nat /\ (Copies(k, more) > 0 <=> k \in DOMAIN more)
  <2> HIDE DEF more
  <2> QED
    BY <1>a, CopiesAre
<1>e. job.bucket + 1 \in 0 .. Buckets /\ job.bucket \in Nat /\ job.bucket # Buckets
  BY <1>0, BucketsAre
<1>f. \A p \in PostKeys : PostB[p] \in Nat
  BY <1>a, PostBuckets, BucketsAre DEF Placed
<1> HIDE DEF posts
<1>g. /\ job'.at = "emit" /\ job'.task = job.task /\ job'.threads = job.threads
      /\ job'.pending = job.pending /\ job'.bucket = job.bucket + 1 /\ job'.thread = job.thread
      /\ job'.copied = job.copied /\ job'.rows = job.rows /\ job'.posts = posts
  BY <1>0 DEF Typed
<1>1. Typed'
  BY <1>0, <1>b, <1>e DEF Typed
<1>2. TasksOK'
  BY <1>0, <1>g DEF TasksOK, Counting
<1>3. PlaceOK' /\ StageOK'
  BY <1>0, <1>g DEF PlaceOK, Merging, StageOK, Whole3
<1>4. TornOK' /\ VocabOK'
  BY <1>0, FrameTorn, FrameVocab
<1>5. DfOK'
  BY <1>0, FrameDf DEF StageOK
<1>6. PostOK'
  <2>1. PostB' = PostB /\ ExactPost' = ExactPost /\ Unharmed' = Unharmed
    BY <1>0, FramePostB DEF ExactPost, Unharmed, Died
  <2> QED
    BY <1>0, <1>g, <2>1 DEF PostOK
<1>7. PostsOK'
  <2>1. PostB' = PostB /\ PostKeys' = PostKeys
    BY <1>0, FramePostB
  <2>2. DOMAIN posts \subseteq PostKeys
    BY <1>b, <1>c DEF PostsOK
  <2>3. ASSUME NEW p \in PostKeys
        PROVE  Copies(p, posts) = IF PostB[p] < job.bucket + 1 THEN InMain(work.post, PostB, p) ELSE 0
    <3>1. Copies(p, job.posts) = IF PostB[p] < job.bucket THEN InMain(work.post, PostB, p) ELSE 0
      BY <1>0 DEF PostsOK
    <3>2. Copies(p, posts) = Copies(p, job.posts) + Copies(p, more)
      BY <1>b
    <3>3. CASE PostB[p] = job.bucket
      <4>1. Copies(p, more) = InMain(work.post, PostB, p)
        BY <3>3 DEF InMain
      <4> HIDE DEF more
      <4> QED
        BY <1>d, <1>e, <3>1, <3>2, <3>3, <4>1
    <3>4. CASE PostB[p] # job.bucket
      <4> HIDE DEF more
      <4>1. Copies(p, more) = 0
        BY <1>c, <1>d, <3>4
      <4>2. Copies(p, job.posts) \in Nat
        BY <1>a, CopiesAre
      <4> QED
        BY <1>e, <1>f, <3>1, <3>2, <3>4, <4>1, <4>2
    <3> QED
      BY <3>3, <3>4
  <2> QED
    BY <1>0, <1>g, <2>1, <2>2, <2>3 DEF PostsOK
<1>8. RowsOK'
  BY <1>0, <1>g, FrameRows DEF PostStages
<1> QED
  BY <1>1, <1>2, <1>3, <1>4, <1>5, <1>6, <1>7, <1>8

LEMMA DropPostsStep == ASSUME TfidfInv, DropPosts PROVE TfidfInv'
<1> USE DEF TfidfInv, At
<1>0. /\ job.at = "emit" /\ job.bucket = Buckets
      /\ work' = [work EXCEPT !.post = NoFiles]
      /\ job' = [job EXCEPT !.at = "publish"]
      /\ store' = store /\ history' = history /\ deaths' = deaths /\ changes' = changes
  BY DEF DropPosts
<1>a. /\ job'.at = "publish" /\ job'.task = job.task /\ job'.threads = job.threads
      /\ job'.pending = job.pending /\ job'.bucket = job.bucket /\ job'.thread = job.thread
      /\ job'.copied = job.copied /\ job'.rows = job.rows /\ job'.posts = job.posts
  BY <1>0 DEF Typed
<1>b. /\ work'.progress = work.progress /\ work'.begun = work.begun /\ work'.done = work.done
      /\ work'.dfDir = work.dfDir /\ work'.df = work.df /\ work'.post = NoFiles
      /\ work'.vocab = work.vocab /\ work'.dfs = work.dfs
      /\ work'.idf = work.idf /\ work'.termid = work.termid
  BY <1>0 DEF Typed
<1>1. Typed'
  BY <1>0, NoFilesAre DEF Typed, Stage
<1>2. TasksOK'
  BY <1>0, <1>a DEF TasksOK, Counting
<1>3. PlaceOK' /\ StageOK'
  BY <1>0, <1>a, <1>b DEF PlaceOK, Merging, StageOK, Whole3
<1>4. TornOK'
  BY <1>0, <1>b, NoFilesAre DEF TornOK, ExactDf, Died
<1>5. VocabOK' /\ DfOK'
  BY <1>0, <1>b, FrameVocab, FrameDf DEF StageOK
<1>6. PostOK'
  BY <1>0, <1>a, <1>b, NoPosts DEF PostStages
<1>7. PostsOK'
  <2>1. PostB' = PostB /\ PostKeys' = PostKeys /\ ExactPost' = ExactPost /\ Unharmed' = Unharmed
    BY <1>0, <1>b, FramePostB DEF ExactPost, Unharmed, Died
  <2>2. DOMAIN work.dfs \subseteq Term /\ work.post \in FilesOf(Term \X Doc) /\ job.posts \in Bag(Term \X Doc)
    BY BagIs DEF Typed
  <2>3. \A p \in PostKeys : PostB[p] \in Bucket
    BY <2>2, PostBuckets DEF Placed
  <2>4. \A p \in PostKeys : Copies(p, job.posts) = InMain(work.post, PostB, p)
    BY <1>0, <2>3, BucketsAre DEF PostsOK
  <2>5. ASSUME NEW s \in Stores, history.stores = {s} PROVE DOMAIN job.posts \subseteq Real(s)
    <3> SUFFICES ASSUME NEW p \in DOMAIN job.posts PROVE p \in Real(s)
      OBVIOUS
    <3>1. p \in PostKeys /\ Copies(p, job.posts) > 0
      BY <2>2, CopiesAre DEF PostsOK
    <3>2. work.post.main[PostB[p]].records \in Bag(Term \X Doc)
      BY <2>2, <2>3, <3>1, FilesAre, ThreadsAre
    <3>3. p \in DOMAIN work.post.main[PostB[p]].records
      BY <2>4, <3>1, <3>2, CopiesAre DEF InMain
    <3> QED
      BY <2>3, <2>5, <3>1, <3>3 DEF PostOK, Holds
  <2>6. ASSUME NEW s \in Stores, history.stores = {s}, ExactPost \/ Unharmed, NEW p \in PostKeys
        PROVE  /\ Copies(p, job.posts) >= Total(PostRows(s)[p], Unit)
               /\ ExactPost => Copies(p, job.posts) = Total(PostRows(s)[p], Unit)
    <3>1. Merged(work.post, PostB, PostRows(s), ExactPost) /\ p \in DOMAIN PostB
      BY <1>0, <2>2, <2>6, PostBuckets DEF PostOK
    <3> QED
      BY <2>4, <3>1 DEF Merged
  <2> QED
    BY <1>0, <1>a, <2>1, <2>5, <2>6 DEF PostsOK
<1>8. RowsOK'
  BY <1>0, <1>a, <1>b, FrameRows DEF PostStages
<1> QED
  BY <1>1, <1>2, <1>3, <1>4, <1>5, <1>6, <1>7, <1>8

-----------------------------------------------------------------------------
(* A build dies.                                                           *)

Works == [progress : SUBSET Unit, begun : BOOLEAN, done : BOOLEAN, dfDir : BOOLEAN,
          df : FilesOf(Term), post : FilesOf(Term \X Doc),
          vocab : Saved, dfs : Bag(Term), idf : Saved, termid : Saved]

\* Files of which a write was cut: no record is lost, and none is where it does not belong.
KeptDf(d) ==
    /\ d \in FilesOf(Term) /\ NoLess(work.df, d) /\ InPlace(d, DfB)
    /\ Beyond(work.df, history.threads) => Beyond(d, history.threads)
KeptPost(d) ==
    /\ d \in FilesOf(Term \X Doc) /\ NoLess(work.post, d) /\ InPlace(d, PostB)
    /\ Beyond(work.post, history.threads) => Beyond(d, history.threads)
    /\ \A s \in Stores : history.stores = {s} => Holds(d, Real(s))

\* A directory as a death leaves it.
LeftBehind(w) ==
    /\ w \in Works
    /\ w.progress = work.progress /\ w.done = work.done /\ w.dfDir = work.dfDir /\ w.dfs = work.dfs
    /\ KeptDf(w.df) /\ (w.df = work.df \/ job.at \in {"count", "mergeDf"})
    /\ KeptPost(w.post) /\ (w.post = work.post \/ job.at \in {"post", "mergePost"})
    /\ \/ w.vocab = work.vocab
       \/ job.at = "select" /\ work.vocab = "none" /\ work.dfDir /\ w.vocab = "torn"
    /\ w.idf = work.idf \/ (job.at = "idf" /\ w.idf = "torn")
    /\ w.termid = work.termid \/ (job.at = "termid" /\ w.termid = "torn")

LEMMA NoLessItself ==
    ASSUME NEW K, NEW files \in FilesOf(K) PROVE NoLess(files, files)
<1> SUFFICES ASSUME NEW k, NEW c \in Bucket
             PROVE  /\ Copies(k, files.main[c].records) <= Copies(k, files.main[c].records)
                    /\ \A o \in Thread :
                          Copies(k, files.thread[o][c].records) <= Copies(k, files.thread[o][c].records)
  BY DEF NoLess
<1>1. /\ Copies(k, files.main[c].records) \in Nat
      /\ \A o \in Thread : Copies(k, files.thread[o][c].records) \in Nat
  BY FilesAre, CopiesAre, ThreadsAre
<1> QED
  BY <1>1

LEMMA LeftSame ==
    ASSUME TfidfInv
    PROVE  KeptDf(work.df) /\ KeptPost(work.post) /\ LeftBehind(work)
<1>1. work \in Works
  BY DEF TfidfInv, Typed, Works
<1>2. work.df \in FilesOf(Term) /\ work.post \in FilesOf(Term \X Doc)
  BY <1>1 DEF Works
<1>3. NoLess(work.df, work.df) /\ NoLess(work.post, work.post)
  BY <1>2, NoLessItself
<1>4. KeptDf(work.df) /\ KeptPost(work.post)
  BY <1>2, <1>3 DEF KeptDf, KeptPost, TfidfInv, DfOK, PostOK
<1> QED
  BY <1>1, <1>4 DEF LeftBehind

LEMMA LeftDf ==
    ASSUME TfidfInv, job.at \in {"count", "mergeDf"}, NEW d, KeptDf(d),
           NEW w, w = [work EXCEPT !.df = d]
    PROVE  LeftBehind(w)
<1>1. work \in Works /\ KeptPost(work.post) /\ d \in FilesOf(Term)
  BY LeftSame DEF LeftBehind, KeptDf
<1>2. /\ w \in Works /\ w.df = d /\ w.post = work.post
      /\ w.progress = work.progress /\ w.done = work.done /\ w.dfDir = work.dfDir /\ w.dfs = work.dfs
      /\ w.vocab = work.vocab /\ w.idf = work.idf /\ w.termid = work.termid
  BY <1>1 DEF Works
<1> QED
  BY <1>1, <1>2 DEF LeftBehind

LEMMA LeftPost ==
    ASSUME TfidfInv, job.at \in {"post", "mergePost"}, NEW d, KeptPost(d),
           NEW w, w = [work EXCEPT !.post = d]
    PROVE  LeftBehind(w)
<1>1. work \in Works /\ KeptDf(work.df) /\ d \in FilesOf(Term \X Doc)
  BY LeftSame DEF LeftBehind, KeptPost
<1>2. /\ w \in Works /\ w.post = d /\ w.df = work.df
      /\ w.progress = work.progress /\ w.done = work.done /\ w.dfDir = work.dfDir /\ w.dfs = work.dfs
      /\ w.vocab = work.vocab /\ w.idf = work.idf /\ w.termid = work.termid
  BY <1>1 DEF Works
<1> QED
  BY <1>1, <1>2 DEF LeftBehind

LEMMA CutDfPart ==
    ASSUME TfidfInv, job.at = "count", NEW t \in Thread, NEW b \in job.task[t].left,
           NEW c \in Cuts(DfPart(t, b)), NEW g, g = AppendThread(work.df, t, b, c)
    PROVE  KeptDf(g)
<1> USE DEF TfidfInv, At
<1>b. PICK u \in Unit \ job.pending : job.task[t].unit = {u}
  BY Busy
<1>c. /\ b \in Bucket /\ t <= job.threads /\ store \in Stores /\ store \in history.stores
      /\ job.threads = history.threads /\ u \in Unit /\ job.task[t].unit = {u}
      /\ work.df \in FilesOf(Term) /\ DOMAIN work.dfs \subseteq Term
  BY <1>b, Busy, BagIs DEF Typed, PlaceOK
<1> DEFINE m == DfPart(t, b)
<1>d. m \in FileOf(Term)
  BY <1>c, DfPartIs
<1>e. \A k \in DOMAIN m.records : k \in Term /\ DfB[k] = b
  BY <1>c, DfPartIs
<1>f. c \in FileOf(Term) /\ DOMAIN c.records \subseteq DOMAIN m.records
  <2> HIDE DEF m
  <2>1. c \in Cuts(m)
    BY DEF m
  <2> QED
    BY <1>d, <2>1, CutIs
<1> HIDE DEF m
<1>g. AllIn(c, DfB, b)
  BY <1>e, <1>f, BucketsAre DEF AllIn
<1>h. g \in FilesOf(Term) /\ OnlyThread(work.df, g, t, b) /\ Grown(work.df.thread[t][b], g.thread[t][b], c)
  BY <1>c, <1>f, ThreadWritten
<1>i. /\ \A bk : InPlace(work.df, bk) /\ AllIn(c, bk, b) => InPlace(g, bk)
      /\ \A n : Beyond(work.df, n) /\ ~ (t > n) => Beyond(g, n)
      /\ \A Keys : Holds(work.df, Keys) /\ DOMAIN c.records \subseteq Keys => Holds(g, Keys)
      /\ NoLess(work.df, g)
  BY <1>c, <1>f, <1>h, ThreadKeeps
<1>j. ~ (t > history.threads)
  BY <1>c, ThreadsAre DEF Typed
<1> QED
  BY <1>c, <1>g, <1>h, <1>i, <1>j DEF KeptDf, DfOK

LEMMA CutPostPart ==
    ASSUME TfidfInv, job.at = "post", NEW t \in Thread, NEW b \in job.task[t].left,
           NEW c \in Cuts(PostPart(t, b)), NEW g, g = AppendThread(work.post, t, b, c)
    PROVE  KeptPost(g)
<1> USE DEF TfidfInv, At
<1>b. PICK u \in Unit \ job.pending : job.task[t].unit = {u}
  BY Busy
<1>c. /\ b \in Bucket /\ t <= job.threads /\ store \in Stores /\ store \in history.stores
      /\ job.threads = history.threads /\ u \in Unit /\ job.task[t].unit = {u}
      /\ work.post \in FilesOf(Term \X Doc) /\ DOMAIN work.dfs \subseteq Term
  BY <1>b, Busy, BagIs DEF Typed, PlaceOK
<1> DEFINE m == PostPart(t, b)
<1>d. m \in FileOf(Term \X Doc)
  BY <1>c, PostPartIs
<1>e. \A k \in DOMAIN m.records : k \in DOMAIN PostB /\ PostB[k] = b /\ k \in Real(store)
  BY <1>c, PostPartIs
<1>f. c \in FileOf(Term \X Doc) /\ DOMAIN c.records \subseteq DOMAIN m.records
  <2> HIDE DEF m
  <2>1. c \in Cuts(m)
    BY DEF m
  <2> QED
    BY <1>d, <2>1, CutIs
<1> HIDE DEF m
<1>g. AllIn(c, PostB, b) /\ DOMAIN c.records \subseteq Real(store)
  BY <1>e, <1>f DEF AllIn
<1>h. g \in FilesOf(Term \X Doc) /\ OnlyThread(work.post, g, t, b) /\ Grown(work.post.thread[t][b], g.thread[t][b], c)
  BY <1>c, <1>f, ThreadWritten
<1>i. /\ \A bk : InPlace(work.post, bk) /\ AllIn(c, bk, b) => InPlace(g, bk)
      /\ \A n : Beyond(work.post, n) /\ ~ (t > n) => Beyond(g, n)
      /\ \A Keys : Holds(work.post, Keys) /\ DOMAIN c.records \subseteq Keys => Holds(g, Keys)
      /\ NoLess(work.post, g)
  BY <1>c, <1>f, <1>h, ThreadKeeps
<1>j. ~ (t > history.threads)
  BY <1>c, ThreadsAre DEF Typed
<1> QED
  BY <1>c, <1>g, <1>h, <1>i, <1>j DEF KeptPost, PostOK

LEMMA CutDfMain ==
    ASSUME TfidfInv, job.at = "mergeDf", job.bucket \in Bucket,
           NEW c \in Cuts(Part(work.df)), NEW g, g = AppendMain(work.df, job.bucket, c)
    PROVE  KeptDf(g)
<1> USE DEF TfidfInv, At
<1>c. job.thread \in Thread /\ work.df \in FilesOf(Term) /\ job.bucket \in Bucket
  BY DEF Typed
<1> DEFINE m == work.df.thread[job.thread][job.bucket]
<1>d. m \in FileOf(Term)
  BY <1>c, FilesAre
<1>e. /\ InPlace(work.df, DfB)
      /\ \A k \in DOMAIN m.records : k \in DOMAIN DfB /\ DfB[k] = job.bucket
      /\ \A Keys : Holds(work.df, Keys) => DOMAIN m.records \subseteq Keys
  BY <1>c DEF DfOK, InPlace, Holds
<1>f. c \in FileOf(Term) /\ DOMAIN c.records \subseteq DOMAIN m.records
  <2> HIDE DEF m
  <2>1. c \in Cuts(m)
    BY DEF m, Part
  <2> QED
    BY <1>d, <2>1, CutIs
<1> HIDE DEF m
<1>g. AllIn(c, DfB, job.bucket) /\ \A Keys : Holds(work.df, Keys) => DOMAIN c.records \subseteq Keys
  BY <1>e, <1>f DEF AllIn
<1>h. g \in FilesOf(Term) /\ OnlyMain(work.df, g, job.bucket) /\ Grown(work.df.main[job.bucket], g.main[job.bucket], c)
  BY <1>c, <1>f, MainWritten
<1>i. /\ \A bk : InPlace(work.df, bk) /\ AllIn(c, bk, job.bucket) => InPlace(g, bk)
      /\ \A n : Beyond(work.df, n) => Beyond(g, n)
      /\ \A Keys : Holds(work.df, Keys) /\ DOMAIN c.records \subseteq Keys => Holds(g, Keys)
      /\ NoLess(work.df, g)
  BY <1>c, <1>f, <1>h, MainKeeps
<1> QED
  BY <1>e, <1>g, <1>h, <1>i DEF KeptDf, DfOK

LEMMA CutPostMain ==
    ASSUME TfidfInv, job.at = "mergePost", job.bucket \in Bucket,
           NEW c \in Cuts(Part(work.post)), NEW g, g = AppendMain(work.post, job.bucket, c)
    PROVE  KeptPost(g)
<1> USE DEF TfidfInv, At
<1>c. job.thread \in Thread /\ work.post \in FilesOf(Term \X Doc) /\ job.bucket \in Bucket
  BY DEF Typed
<1> DEFINE m == work.post.thread[job.thread][job.bucket]
<1>d. m \in FileOf(Term \X Doc)
  BY <1>c, FilesAre
<1>e. /\ InPlace(work.post, PostB)
      /\ \A k \in DOMAIN m.records : k \in DOMAIN PostB /\ PostB[k] = job.bucket
      /\ \A Keys : Holds(work.post, Keys) => DOMAIN m.records \subseteq Keys
  BY <1>c DEF PostOK, InPlace, Holds
<1>f. c \in FileOf(Term \X Doc) /\ DOMAIN c.records \subseteq DOMAIN m.records
  <2> HIDE DEF m
  <2>1. c \in Cuts(m)
    BY DEF m, Part
  <2> QED
    BY <1>d, <2>1, CutIs
<1> HIDE DEF m
<1>g. AllIn(c, PostB, job.bucket) /\ \A Keys : Holds(work.post, Keys) => DOMAIN c.records \subseteq Keys
  BY <1>e, <1>f DEF AllIn
<1>h. g \in FilesOf(Term \X Doc) /\ OnlyMain(work.post, g, job.bucket) /\ Grown(work.post.main[job.bucket], g.main[job.bucket], c)
  BY <1>c, <1>f, MainWritten
<1>i. /\ \A bk : InPlace(work.post, bk) /\ AllIn(c, bk, job.bucket) => InPlace(g, bk)
      /\ \A n : Beyond(work.post, n) => Beyond(g, n)
      /\ \A Keys : Holds(work.post, Keys) /\ DOMAIN c.records \subseteq Keys => Holds(g, Keys)
      /\ NoLess(work.post, g)
  BY <1>c, <1>f, <1>h, MainKeeps
<1> QED
  BY <1>e, <1>g, <1>h, <1>i DEF KeptPost, PostOK

LEMMA CutWritesAre ==
    ASSUME TfidfInv, NEW w \in CutWrites
    PROVE  LeftBehind(w)
<1> DEFINE DfCut(t, b, c) == [work EXCEPT !.df.thread[t][b] = AppendTo(@, c)]
           PostCut(t, b, c) == [work EXCEPT !.post.thread[t][b] = AppendTo(@, c)]
<1>0. work \in Works
  BY LeftSame DEF LeftBehind
<1>1. CASE job.at = "count"
  <2>1. At("count") /\ ~ At("post") /\ ~ At("mergeDf") /\ ~ At("mergePost") /\ ~ At("select") /\ ~ At("idf") /\ ~ At("termid")
    BY <1>1 DEF At
  <2>2. w \in UNION {{DfCut(x[1], x[2], c) : c \in Cuts(DfPart(x[1], x[2]))} : x \in Unwritten}
    BY <2>1, Zenon DEF CutWrites
  <2>3. PICK x \in Unwritten : \E c \in Cuts(DfPart(x[1], x[2])) : w = DfCut(x[1], x[2], c)
    BY <2>2, Zenon
  <2> DEFINE t == x[1]
             b == x[2]
  <2>t. t \in Thread /\ b \in job.task[t].left
    BY DEF Unwritten
  <2>4. PICK c \in Cuts(DfPart(t, b)) : w = DfCut(t, b, c)
    BY <2>3
  <2>5. w = [work EXCEPT !.df = AppendThread(work.df, t, b, c)]
    BY <2>4 DEF AppendThread, PutThread
  <2>6. KeptDf(AppendThread(work.df, t, b, c))
    BY <1>1, <2>t, CutDfPart
  <2> QED
    BY <1>1, <2>5, <2>6, LeftDf
<1>2. CASE job.at = "post"
  <2>1. ~ At("count") /\ At("post") /\ ~ At("mergeDf") /\ ~ At("mergePost") /\ ~ At("select") /\ ~ At("idf") /\ ~ At("termid")
    BY <1>2 DEF At
  <2>2. w \in UNION {{PostCut(x[1], x[2], c) : c \in Cuts(PostPart(x[1], x[2]))} : x \in Unwritten}
    BY <2>1, Zenon DEF CutWrites
  <2>3. PICK x \in Unwritten : \E c \in Cuts(PostPart(x[1], x[2])) : w = PostCut(x[1], x[2], c)
    BY <2>2, Zenon
  <2> DEFINE t == x[1]
             b == x[2]
  <2>t. t \in Thread /\ b \in job.task[t].left
    BY DEF Unwritten
  <2>4. PICK c \in Cuts(PostPart(t, b)) : w = PostCut(t, b, c)
    BY <2>3
  <2>5. w = [work EXCEPT !.post = AppendThread(work.post, t, b, c)]
    BY <2>4 DEF AppendThread, PutThread
  <2>6. KeptPost(AppendThread(work.post, t, b, c))
    BY <1>2, <2>t, CutPostPart
  <2> QED
    BY <1>2, <2>5, <2>6, LeftPost
<1>3. CASE job.at = "mergeDf" /\ Copying
  <2>1. ~ At("count") /\ ~ At("post") /\ At("mergeDf") /\ ~ At("mergePost") /\ ~ At("select") /\ ~ At("idf") /\ ~ At("termid")
    BY <1>3 DEF At
  <2>2. w \in {[work EXCEPT !.df.main[job.bucket] = AppendTo(@, c)] : c \in Cuts(Part(work.df))}
    BY <1>3, <2>1, Zenon DEF CutWrites
  <2>3. PICK c \in Cuts(Part(work.df)) : w = [work EXCEPT !.df.main[job.bucket] = AppendTo(@, c)]
    BY <2>2, Zenon
  <2>4. w = [work EXCEPT !.df = AppendMain(work.df, job.bucket, c)]
    BY <2>3 DEF AppendMain, PutMain
  <2>5. KeptDf(AppendMain(work.df, job.bucket, c))
    BY <1>3, CutDfMain DEF Copying
  <2> QED
    BY <1>3, <2>4, <2>5, LeftDf
<1>4. CASE job.at = "mergePost" /\ Copying
  <2>1. ~ At("count") /\ ~ At("post") /\ ~ At("mergeDf") /\ At("mergePost") /\ ~ At("select") /\ ~ At("idf") /\ ~ At("termid")
    BY <1>4 DEF At
  <2>2. w \in {[work EXCEPT !.post.main[job.bucket] = AppendTo(@, c)] : c \in Cuts(Part(work.post))}
    BY <1>4, <2>1, Zenon DEF CutWrites
  <2>3. PICK c \in Cuts(Part(work.post)) : w = [work EXCEPT !.post.main[job.bucket] = AppendTo(@, c)]
    BY <2>2, Zenon
  <2>4. w = [work EXCEPT !.post = AppendMain(work.post, job.bucket, c)]
    BY <2>3 DEF AppendMain, PutMain
  <2>5. KeptPost(AppendMain(work.post, job.bucket, c))
    BY <1>4, CutPostMain DEF Copying
  <2> QED
    BY <1>4, <2>4, <2>5, LeftPost
<1>5. CASE job.at = "select" /\ work.vocab = "none" /\ work.dfDir
  <2>1. ~ At("count") /\ ~ At("post") /\ ~ At("mergeDf") /\ ~ At("mergePost") /\ At("select") /\ ~ At("idf") /\ ~ At("termid")
    BY <1>5 DEF At
  <2>2. w = [work EXCEPT !.vocab = "torn"]
    BY <1>5, <2>1, Zenon DEF CutWrites
  <2> QED
    BY <1>0, <1>5, <2>2, LeftSame DEF LeftBehind, Works, Saved
<1>6. CASE job.at = "idf"
  <2>1. ~ At("count") /\ ~ At("post") /\ ~ At("mergeDf") /\ ~ At("mergePost") /\ ~ At("select") /\ At("idf") /\ ~ At("termid")
    BY <1>6 DEF At
  <2>2. w = [work EXCEPT !.idf = "torn"]
    BY <2>1, Zenon DEF CutWrites
  <2> QED
    BY <1>0, <1>6, <2>2, LeftSame DEF LeftBehind, Works, Saved
<1>7. CASE job.at = "termid"
  <2>1. ~ At("count") /\ ~ At("post") /\ ~ At("mergeDf") /\ ~ At("mergePost") /\ ~ At("select") /\ ~ At("idf") /\ At("termid")
    BY <1>7 DEF At
  <2>2. w = [work EXCEPT !.termid = "torn"]
    BY <2>1, Zenon DEF CutWrites
  <2> QED
    BY <1>0, <1>7, <2>2, LeftSame DEF LeftBehind, Works, Saved
<1>8. CASE /\ job.at # "count" /\ job.at # "post" /\ job.at # "idf" /\ job.at # "termid"
           /\ ~ (job.at = "mergeDf" /\ Copying) /\ ~ (job.at = "mergePost" /\ Copying)
           /\ ~ (job.at = "select" /\ work.vocab = "none" /\ work.dfDir)
  <2>1. /\ ~ At("count") /\ ~ At("post") /\ ~ At("idf") /\ ~ At("termid")
        /\ ~ (At("mergeDf") /\ Copying) /\ ~ (At("mergePost") /\ Copying)
        /\ ~ (At("select") /\ work.vocab = "none" /\ work.dfDir)
    BY <1>8 DEF At
  <2>2. CutWrites = {}
    BY <2>1, Zenon DEF CutWrites
  <2> QED
    BY <2>2
<1> QED
  BY <1>1, <1>2, <1>3, <1>4, <1>5, <1>6, <1>7, <1>8

\* What a death adds to the history.
LEMMA DeathRecorded ==
    ASSUME TfidfInv, Die
    PROVE  /\ history'.stores = history.stores /\ history'.threads = history.threads
           /\ history'.died \subseteq Stage \cup {"torn", "fewer"}
           /\ history' = [stores |-> history'.stores, died |-> history'.died, threads |-> history'.threads]
           /\ ExactDf' <=> ExactDf /\ job.at \notin {"count", "mergeDf"}
           /\ ExactPost' <=> ExactPost /\ job.at \notin PostStages
           /\ Unharmed' => Unharmed
           /\ "torn" \in history.died => "torn" \in history'.died
           /\ ~ Untorn(work'.df) \/ ~ Untorn(work'.post) => "torn" \in history'.died
<1> DEFINE torn == IF Torn(work'.df) \/ Torn(work'.post) THEN {"torn"} ELSE {}
<1>1. history' = [history EXCEPT !.died = @ \cup {job.at} \cup torn]
  BY DEF Die
<1>2. torn \subseteq {"torn"} /\ (~ Untorn(work'.df) \/ ~ Untorn(work'.post) => torn = {"torn"})
  BY DEF Untorn, Torn
<1> HIDE DEF torn
<1>3. /\ history \in [stores : SUBSET Stores, died : SUBSET (Stage \cup {"torn", "fewer"}), threads : Thread \cup {0}]
      /\ job.at \in Stage
  BY DEF TfidfInv, Typed
<1>4. /\ history'.stores = history.stores /\ history'.threads = history.threads
      /\ history'.died = history.died \cup {job.at} \cup torn
      /\ history' = [stores |-> history'.stores, died |-> history'.died, threads |-> history'.threads]
  BY <1>1, <1>3
<1>5. history'.died \subseteq Stage \cup {"torn", "fewer"}
  BY <1>2, <1>3, <1>4
<1>6. ExactDf' <=> ExactDf /\ job.at \notin {"count", "mergeDf"}
  BY <1>2, <1>4 DEF ExactDf, Died
<1>7. ExactPost' <=> ExactPost /\ job.at \notin PostStages
  BY <1>2, <1>4 DEF ExactPost, Died, PostStages
<1>8. Unharmed' => Unharmed
  BY <1>4 DEF Unharmed, Died
<1> QED
  BY <1>2, <1>4, <1>5, <1>6, <1>7, <1>8

\* The next build counts no unit that this one did not.
LEMMA DeathCounted ==
    ASSUME TfidfInv, Die, ~ work.done, work'.progress = work.progress
    PROVE  NoMore(Counted, Counted')
<1> USE DEF TfidfInv, At
<1>1. job.at \in {"count", "mergeDf"} /\ job'.at = "idle"
  BY DEF Die, StageOK, Idle
<1>2. \A b \in Bucket : Counted'[b] = work.progress
  BY <1>1 DEF Counted
<1>3. work.progress \in SUBSET Unit
  BY DEF Typed
<1>4. CASE job.at = "count"
  <2>1. \A b \in Bucket : Counted[b] = {u \in Unit \ job.pending :
                             \A t \in Thread : u \in job.task[t].unit => b \notin job.task[t].left}
    BY <1>4 DEF Counted, CountedBy
  <2>2. work.progress = {u \in Unit \ job.pending : \A t \in Thread : u \notin job.task[t].unit}
    BY <1>4 DEF TasksOK
  <2> QED
    BY <1>2, <2>1, <2>2 DEF NoMore
<1>5. CASE job.at = "mergeDf"
  <2>1. \A b \in Bucket : Counted[b] = Unit
    BY <1>5, AllDone DEF Merging
  <2> QED
    BY <1>2, <1>3, <2>1 DEF NoMore
<1> QED
  BY <1>1, <1>4, <1>5

LEMMA DieStep == ASSUME TfidfInv, Die PROVE TfidfInv'
<1> USE DEF TfidfInv
<1>0. /\ job.at # "idle" /\ deaths < MaxDeaths /\ job' = Idle /\ deaths' = deaths + 1
      /\ store' = store /\ changes' = changes /\ store \in history.stores
  BY DEF Die, At, PlaceOK
<1>a. LeftBehind(work')
  <2>1. work' = work \/ work' \in CutWrites
    BY DEF Die
  <2> QED
    BY <2>1, LeftSame, CutWritesAre
<1>b. /\ work' \in Works
      /\ work'.progress = work.progress /\ work'.done = work.done /\ work'.dfDir = work.dfDir
      /\ work'.dfs = work.dfs
      /\ KeptDf(work'.df) /\ (work'.df = work.df \/ job.at \in {"count", "mergeDf"})
      /\ KeptPost(work'.post) /\ (work'.post = work.post \/ job.at \in {"post", "mergePost"})
      /\ \/ work'.vocab = work.vocab
         \/ job.at = "select" /\ work.vocab = "none" /\ work.dfDir /\ work'.vocab = "torn"
      /\ work'.idf = work.idf \/ (job.at = "idf" /\ work'.idf = "torn")
      /\ work'.termid = work.termid \/ (job.at = "termid" /\ work'.termid = "torn")
  BY <1>a DEF LeftBehind
<1>c. /\ history'.stores = history.stores /\ history'.threads = history.threads
      /\ history'.died \subseteq Stage \cup {"torn", "fewer"}
      /\ history' = [stores |-> history'.stores, died |-> history'.died, threads |-> history'.threads]
      /\ ExactDf' <=> ExactDf /\ job.at \notin {"count", "mergeDf"}
      /\ ExactPost' <=> ExactPost /\ job.at \notin PostStages
      /\ Unharmed' => Unharmed
      /\ "torn" \in history.died => "torn" \in history'.died
      /\ ~ Untorn(work'.df) \/ ~ Untorn(work'.post) => "torn" \in history'.died
  BY DeathRecorded
<1>d. /\ job'.at = "idle" /\ job'.threads = 1 /\ job'.thread = 1 /\ ~ job'.copied /\ job'.bucket = 0
      /\ job'.pending = {} /\ job'.rows = {} /\ job'.posts = EmptyBag
      /\ \A t \in Thread : job'.task[t] = NoTask
  BY <1>0 DEF Idle
<1>1. Typed'
  <2>1. Idle \in [at : Stage, threads : Thread, pending : SUBSET Unit,
                task : [Thread -> [unit : SUBSET Unit, left : SUBSET Bucket]],
                bucket : 0 .. Buckets, thread : Thread, copied : BOOLEAN,
                rows : SUBSET Doc, posts : Bag(Term \X Doc)]
    BY EmptyIs, SizeAssumption, ThreadsAre DEF Idle, NoTask, Stage
  <2>2. deaths + 1 \in 0 .. MaxDeaths + 1
    BY <1>0, SizeAssumption DEF Typed
  <2>3. history' \in [stores : SUBSET Stores, died : SUBSET (Stage \cup {"torn", "fewer"}), threads : Thread \cup {0}]
    BY <1>c DEF Typed
  <2> QED
    BY <1>0, <1>b, <2>1, <2>2, <2>3 DEF Typed, Works
<1>2. TasksOK'
  BY <1>d DEF TasksOK, NoTask, Counting, At
<1>3. PlaceOK'
  BY <1>0, <1>d, SizeAssumption, BucketsAre DEF PlaceOK, Merging, At
<1>4. StageOK'
  BY <1>0, <1>b, <1>c, <1>d DEF StageOK, Whole3, At
<1>5. TornOK'
  BY <1>b, <1>c DEF TornOK, PostStages
<1>6. VocabOK'
  BY <1>b, <1>c DEF VocabOK
<1>7. DfOK'
  <2>1. DfB' = DfB /\ Skip("mergeDf")' = 0
    BY <1>d DEF DfB, Skip, At
  <2>2. InPlace(work'.df, DfB)
    BY <1>b DEF KeptDf
  <2>3. CASE work.done
    <3>1. job.at \notin {"count", "mergeDf"}
      BY <1>0, <2>3 DEF StageOK, At
    <3>2. work'.df = work.df /\ ExactDf' = ExactDf
      BY <1>b, <1>c, <3>1 DEF ExactDf, Died
    <3> QED
      BY <1>b, <1>c, <2>1, <2>2, <2>3, <3>2 DEF DfOK
  <2>4. CASE ~ work.done
    <3>1. job.at \in {"count", "mergeDf"} /\ ~ ExactDf'
      BY <1>0, <1>c, <2>4 DEF StageOK, At
    <3>2. Unharmed' => /\ Beyond(work'.df, history.threads)
                       /\ \A s \in Stores : history.stores = {s} =>
                             Ledger(work'.df, DfB, DfRows(s), Counted', ExactDf', 0, 0)
      <4> SUFFICES ASSUME Unharmed'
                   PROVE  /\ Beyond(work'.df, history.threads)
                          /\ \A s \in Stores : history.stores = {s} =>
                                Ledger(work'.df, DfB, DfRows(s), Counted', ExactDf', 0, 0)
        OBVIOUS
      <4>1. Beyond(work'.df, history.threads)
        BY <1>b, <1>c, <2>4 DEF DfOK, KeptDf
      <4>2. ASSUME NEW s \in Stores, history.stores = {s}
            PROVE  Ledger(work'.df, DfB, DfRows(s), Counted', ExactDf', 0, 0)
        <5>1. Ledger(work.df, DfB, DfRows(s), Counted, ExactDf, job.bucket, Skip("mergeDf"))
          BY <1>c, <2>4, <4>2 DEF DfOK
        <5>2. /\ work.df \in FilesOf(Term) /\ work'.df \in FilesOf(Term) /\ NoLess(work.df, work'.df)
              /\ Placed(DfB) /\ Weighs(DfRows(s), DfB) /\ NoMore(Counted, Counted')
              /\ Skip("mergeDf") \in Thread \cup {0}
          <6>1. work.df \in FilesOf(Term) /\ work'.df \in FilesOf(Term) /\ NoLess(work.df, work'.df)
            BY <1>b DEF Typed, KeptDf
          <6>2. Placed(DfB) /\ Weighs(DfRows(s), DfB)
            BY BucketsAre, RowWeights
          <6>3. NoMore(Counted, Counted')
            BY <1>b, <2>4, DeathCounted
          <6>4. Skip("mergeDf") \in Thread \cup {0}
            BY DEF Typed, Skip
          <6> QED
            BY <6>1, <6>2, <6>3, <6>4
        <5> HIDE DEF TfidfInv
        <5> QED
          BY <3>1, <5>1, <5>2, DeathLedger
      <4> QED
        BY <4>1, <4>2
    <3> QED
      BY <1>b, <1>c, <1>d, <2>1, <2>2, <2>4, <3>1, <3>2 DEF DfOK, At
  <2> QED
    BY <2>3, <2>4
<1>8. PostOK'
  <2>1. PostB' = PostB
    BY <1>b, FramePostB
  <2>2. /\ InPlace(work'.post, PostB)
        /\ Beyond(work.post, history.threads) => Beyond(work'.post, history.threads)
        /\ \A s \in Stores : history.stores = {s} => Holds(work'.post, Real(s))
    BY <1>b DEF KeptPost
  <2>3. ExactPost' => work'.post = NoFiles
    BY <1>b, <1>c DEF PostOK, PostStages
  <2>4. ExactPost' \/ Unharmed' => Beyond(work'.post, history.threads)
    BY <1>c, <2>2 DEF PostOK
  <2>5. ~ At("post")' /\ ~ At("mergePost")' /\ ~ At("emit")'
    BY <1>d DEF At
  <2> HIDE DEF TfidfInv
  <2> QED
    BY <1>c, <1>d, <2>1, <2>2, <2>3, <2>4, <2>5 DEF PostOK
<1>9. PostsOK' /\ RowsOK'
  BY <1>d, FramePosts, NoRows DEF LastStages, PostStages
<1> QED
  BY <1>1, <1>2, <1>3, <1>4, <1>5, <1>6, <1>7, <1>8, <1>9

-----------------------------------------------------------------------------
(* The invariant holds always.                                             *)

LEMMA NextInv == ASSUME TfidfInv, Next PROVE TfidfInv'
<1>1. CASE Start \/ EndCount \/ Merge \/ EndMergeDf
  BY <1>1, StartStep, EndCountStep, MergeStep, EndMergeDfStep
<1>2. CASE \E t \in Thread : CountUnit(t) \/ WriteDf(t) \/ Record(t)
  BY <1>2, CountUnitStep, WriteDfStep, RecordStep
<1>3. CASE LoadVocabulary \/ WriteVocab \/ WriteIdf \/ WriteTermId \/ DropDf
  BY <1>3, LoadVocabularyStep, WriteVocabStep, WriteIdfStep, WriteTermIdStep, DropDfStep
<1>4. CASE \E t \in Thread : PostUnit(t) \/ WritePosts(t) \/ EndUnit(t)
  BY <1>4, PostUnitStep, WritePostsStep, EndUnitStep
<1>5. CASE EndPost \/ EndMergePost \/ Emit \/ DropPosts \/ WriteIndexFile \/ RemoveWork
  BY <1>5, EndPostStep, EndMergePostStep, EmitStep, DropPostsStep, WriteIndexStep, ClearStep
<1>6. CASE Fail \/ Die \/ ClearWork \/ ReplaceStore
  BY <1>6, FailStep, DieStep, ClearStep, ReplaceStep
<1> QED
  BY <1>1, <1>2, <1>3, <1>4, <1>5, <1>6 DEF Next

LEMMA StutterInv == ASSUME TfidfInv, UNCHANGED vars PROVE TfidfInv'
<1> USE DEF vars, Counted, CountedBy, Skip, At, ExactDf, ExactPost, Unharmed, Died
<1>1. PostB' = PostB /\ PostKeys' = PostKeys
  BY FramePostB
<1>2. Typed' /\ TasksOK' /\ PlaceOK' /\ StageOK' /\ TornOK'
  BY DEF TfidfInv, Typed, TasksOK, PlaceOK, StageOK, TornOK, Whole3
<1>3. DfOK' /\ VocabOK' /\ RowsOK'
  BY DEF TfidfInv, DfOK, VocabOK, RowsOK, DfB
<1>4. PostOK' /\ PostsOK'
  BY <1>1 DEF TfidfInv, PostOK, PostsOK
<1> QED
  BY <1>2, <1>3, <1>4 DEF TfidfInv

\* Whatever the builds of a working directory died of, wherever they were (tfidf/index.rs): the
\* files of the threads and the merged ones hold together what the units counted have of each key,
\* but for what a death has cut or repeated, and that is in the history.
THEOREM TfidfInvariant == Spec => []TfidfInv
<1>1. TfidfInv /\ [Next]_vars => TfidfInv'
  BY NextInv, StutterInv
<1> QED
  BY InitInv, <1>1, PTL DEF Spec

-----------------------------------------------------------------------------
(* The index.                                                              *)

LEMMA BagsAre ==
    ASSUME NEW K, NEW B \in Bag(K)
    PROVE  IsABag(B) /\ BagToSet(B) \subseteq K /\ BagToSet(B) = DOMAIN B
<1>1. /\ B = [k \in DOMAIN B |-> B[k]] /\ DOMAIN B \subseteq K
      /\ \A k \in DOMAIN B : B[k] \in Nat /\ B[k] > 0
  BY BagIs
<1>2. B \in [DOMAIN B -> {n \in Nat : n > 0}]
  BY <1>1
<1> QED
  BY <1>1, <1>2 DEF IsABag, BagToSet

LEMMA FilesAreBags ==
    ASSUME NEW K, NEW files \in FilesOf(K), NEW b \in Bucket
    PROVE  IsFile(files.main[b], K) /\ \A t \in Thread : IsFile(files.thread[t][b], K)
<1>1. ASSUME NEW f \in FileOf(K) PROVE IsFile(f, K)
  BY <1>1, BagsAre DEF FileOf, IsFile
<1> QED
  BY <1>1 DEF FilesOf

LEMMA TypesAre == ASSUME TfidfInv PROVE TypeOK
<1> USE DEF TfidfInv, Typed
<1>1. ASSUME NEW b \in Bucket, NEW f \in {"df", "post"}
      PROVE  LET Key == IF f = "df" THEN Term ELSE Term \X Doc
             IN  /\ IsFile(work[f].main[b], Key)
                 /\ \A t \in Thread : IsFile(work[f].thread[t][b], Key)
  <2>1. CASE f = "df"
    <3>1. work.df \in FilesOf(Term)
      OBVIOUS
    <3>2. IsFile(work.df.main[b], Term) /\ \A t \in Thread : IsFile(work.df.thread[t][b], Term)
      BY <3>1, FilesAreBags
    <3> QED
      BY <2>1, <3>2
  <2>2. CASE f = "post"
    <3>1. work.post \in FilesOf(Term \X Doc)
      OBVIOUS
    <3>2. IsFile(work.post.main[b], Term \X Doc) /\ \A t \in Thread : IsFile(work.post.thread[t][b], Term \X Doc)
      BY <3>1, FilesAreBags
    <3> QED
      BY <2>2, <3>2
  <2> QED
    BY <1>1, <2>1, <2>2
<1>2. BagToSet(job.posts) \subseteq Term \X Doc /\ DOMAIN work.dfs \subseteq Term
  BY BagsAre, BagIs
<1>3. \A t \in Thread : /\ job.task[t].unit \subseteq Unit \ job.pending
                        /\ job.task[t].left \subseteq Bucket
                        /\ job.task[t].unit # {} => t <= job.threads
  BY DEF TasksOK, NoTask
<1>4. job.thread \in 1 .. job.threads
  BY ThreadsAre DEF PlaceOK, Thread
<1>5. /\ store \in Stores
      /\ work.progress \subseteq Unit /\ {work.begun, work.done, work.dfDir} \subseteq BOOLEAN
      /\ {work.vocab, work.idf, work.termid} \subseteq Saved
      /\ job.at \in Stage /\ job.threads \in Thread /\ job.bucket \in 0 .. Buckets
      /\ job.pending \subseteq Unit /\ job.rows \subseteq Doc
      /\ history.stores \subseteq Stores /\ history.died \subseteq Stage \cup {"torn", "fewer"}
      /\ deaths \in 0 .. MaxDeaths + 1 /\ changes \in 0 .. Changes
  OBVIOUS
<1> HIDE DEF TfidfInv, Typed
<1> QED
  BY <1>1, <1>2, <1>3, <1>4, <1>5, Zenon DEF TypeOK

\* The frequencies of the store are the totals of the invariant.
LEMMA DfIs ==
    ASSUME store \in Stores
    PROVE  /\ \A h \in Term : Df(h, Doc) = Total(DfRows(store)[h], Unit) /\ Df(h, Doc) \in Nat
           /\ \A p \in Term \X Doc : /\ Df(p[1], {p[2]}) = Total(PostRows(store)[p], Unit)
                                     /\ Df(p[1], {p[2]}) \in Nat
                                     /\ Df(p[1], {p[2]}) > 0 <=> p \in Real(store)
<1>1. ASSUME NEW h, NEW docs, NEW w, \A u \in Unit : w[u] = RowsWith(store, u, h, docs)
      PROVE  /\ Df(h, docs) = Total(w, Unit) /\ Df(h, docs) \in Nat
             /\ Df(h, docs) > 0 <=> \E u \in Unit : w[u] > 0
  <2> DEFINE v == [u \in Unit |-> RowsWith(store, u, h, docs)]
  <2>1. Df(h, docs) = Total(v, Unit)
    BY DEF Df, SumFunction, Total
  <2>2. \A u \in Unit : v[u] \in Nat /\ v[u] = w[u]
    BY <1>1, RowsAre
  <2> HIDE DEF v
  <2>3. Sized(v, Unit)
    BY <2>2, UnitAssumption DEF Sized
  <2>4. Total(v, Unit) = Total(w, Unit)
    BY <2>2, <2>3, TotalSame
  <2>5. Total(v, Unit) \in Nat
    BY <2>3, TotalGrows
  <2>6. (\A u \in Unit : v[u] = 0) => Total(v, Unit) = 0
    BY UnitAssumption, TotalZero
  <2>7. \A u \in Unit : v[u] > 0 => Total(v, Unit) > 0
    <3> SUFFICES ASSUME NEW u \in Unit, v[u] > 0 PROVE Total(v, Unit) > 0
      OBVIOUS
    <3>1. Total(v, Unit) = v[u] + Total(v, Unit \ {u})
      BY <2>3, TotalOne
    <3>2. Sized(v, Unit \ {u})
      BY <2>3, SizedPart
    <3>3. Total(v, Unit \ {u}) \in Nat /\ v[u] \in Nat
      BY <2>2, <3>2, TotalGrows
    <3> QED
      BY <3>1, <3>3
  <2> QED
    BY <2>1, <2>2, <2>4, <2>5, <2>6, <2>7
<1>2. \A h \in Term : Df(h, Doc) = Total(DfRows(store)[h], Unit) /\ Df(h, Doc) \in Nat
  BY <1>1, RowWeights
<1>3. ASSUME NEW p \in Term \X Doc
      PROVE  /\ Df(p[1], {p[2]}) = Total(PostRows(store)[p], Unit)
             /\ Df(p[1], {p[2]}) \in Nat
             /\ Df(p[1], {p[2]}) > 0 <=> p \in Real(store)
  <2>1. \A u \in Unit : PostRows(store)[p][u] = RowsWith(store, u, p[1], {p[2]})
    BY RowWeights
  <2>2. p \in Real(store) <=> \E u \in Unit : PostRows(store)[p][u] > 0
    BY DEF Real
  <2> QED
    BY <1>1, <2>1, <2>2
<1> QED
  BY <1>2, <1>3

LEMMA VocabularyFits == ASSUME TfidfInv PROVE VocabularyIsExact
<1> USE DEF TfidfInv
<1> SUFFICES ASSUME At("published"), history.stores = {store}, ~ Died({"count", "mergeDf"})
             PROVE  LET chosen == DOMAIN work.dfs
                        fit    == {h \in Term : Df(h, Doc) > 0 /\ Df(h, Doc) \in MinDf .. MaxDf}
                    IN  /\ \A h \in chosen : work.dfs[h] = Df(h, Doc)
                        /\ chosen \subseteq fit
                        /\ Cardinality(chosen) =
                              IF MaxFeatures = 0 \/ Cardinality(fit) < MaxFeatures THEN Cardinality(fit) ELSE MaxFeatures
                        /\ \A h \in chosen, g \in fit \ chosen :
                              Df(g, Doc) < Df(h, Doc) \/ (Df(g, Doc) = Df(h, Doc) /\ h < g)
  BY Zenon DEF VocabularyIsExact, Sound, index
<1> DEFINE df(h) == Total(DfRows(store)[h], Unit)
           fit   == {h \in Term : df(h) > 0 /\ df(h) \in MinDf .. MaxDf}
           fits  == {h \in Term : Df(h, Doc) > 0 /\ Df(h, Doc) \in MinDf .. MaxDf}
<1>1. store \in Stores /\ DOMAIN work.dfs \subseteq Term
  BY BagIs DEF Typed
<1>2. Chosen(store, work.dfs)
  <2>1. {work.vocab, work.idf, work.termid} = {"whole"}
    BY DEF StageOK, At, Whole3
  <2>2. work.vocab = "whole"
    BY <2>1
  <2> QED
    BY <1>1, <2>2 DEF VocabOK, ExactDf
<1>3. \A h \in Term : Df(h, Doc) = df(h)
  BY <1>1, DfIs
<1>4. /\ \A h \in DOMAIN work.dfs : work.dfs[h] = df(h)
      /\ DOMAIN work.dfs \subseteq fit
      /\ Cardinality(DOMAIN work.dfs) =
            IF MaxFeatures = 0 \/ Cardinality(fit) < MaxFeatures THEN Cardinality(fit) ELSE MaxFeatures
      /\ \A h \in DOMAIN work.dfs, g \in fit \ DOMAIN work.dfs : df(g) < df(h) \/ (df(g) = df(h) /\ h < g)
  BY <1>2, Zenon DEF Chosen
<1> HIDE DEF df
<1>5. fits = fit /\ fit \subseteq Term
  BY <1>3
<1>6. /\ \A h \in DOMAIN work.dfs : work.dfs[h] = Df(h, Doc)
      /\ DOMAIN work.dfs \subseteq fits
      /\ \A h \in DOMAIN work.dfs, g \in fits \ DOMAIN work.dfs :
            Df(g, Doc) < Df(h, Doc) \/ (Df(g, Doc) = Df(h, Doc) /\ h < g)
  <2> HIDE DEF fit, fits
  <2> QED
    BY <1>1, <1>3, <1>4, <1>5
<1>7. Cardinality(DOMAIN work.dfs) =
            IF MaxFeatures = 0 \/ Cardinality(fits) < MaxFeatures THEN Cardinality(fits) ELSE MaxFeatures
  <2> HIDE DEF fit, fits
  <2> QED
    BY <1>4, <1>5
<1> HIDE DEF TfidfInv
<1> QED
  BY <1>6, <1>7, Zenon DEF fits

\* A list has what the merged files had.
LEMMA PostingsAre ==
    ASSUME TfidfInv, At("published"), history.stores = {store}
    PROVE  /\ store \in Stores /\ DOMAIN work.dfs \subseteq Term /\ work.vocab = "whole"
           /\ PostKeys = (DOMAIN work.dfs) \X Doc
           /\ DOMAIN job.posts \subseteq PostKeys /\ DOMAIN job.posts \subseteq Real(store)
           /\ ExactPost \/ Unharmed =>
                 \A p \in PostKeys : /\ Copies(p, job.posts) >= Total(PostRows(store)[p], Unit)
                                     /\ ExactPost => Copies(p, job.posts) = Total(PostRows(store)[p], Unit)
<1> USE DEF TfidfInv, At
<1>1. store \in Stores /\ DOMAIN work.dfs \subseteq Term
  BY BagIs DEF Typed
<1>2. work.vocab = "whole"
  <2>1. {work.vocab, work.idf, work.termid} = {"whole"}
    BY DEF StageOK, Whole3
  <2> QED
    BY <2>1
<1>3. PostKeys = (DOMAIN work.dfs) \X Doc
  BY <1>1, PostBuckets
<1> QED
  BY <1>1, <1>2, <1>3 DEF PostsOK

LEMMA PostingsFit == ASSUME TfidfInv PROVE PostingsAreExact
<1> SUFFICES ASSUME At("published"), history.stores = {store}, ~ Died({"post", "mergePost", "emit"})
             PROVE  /\ \A h \in Term, d \in Doc :
                         Copies(<<h, d>>, job.posts) = IF h \in DOMAIN work.dfs THEN Df(h, {d}) ELSE 0
                    /\ job.rows = {d \in Doc : \E h \in DOMAIN work.dfs : Df(h, {d}) > 0}
  BY Zenon DEF PostingsAreExact, Sound, index
<1>1. /\ store \in Stores /\ DOMAIN work.dfs \subseteq Term
      /\ PostKeys = (DOMAIN work.dfs) \X Doc /\ DOMAIN job.posts \subseteq PostKeys
      /\ \A p \in PostKeys : Copies(p, job.posts) = Total(PostRows(store)[p], Unit)
  BY PostingsAre DEF ExactPost
<1>2. ASSUME NEW h \in Term, NEW d \in Doc
      PROVE  /\ Df(h, {d}) = Total(PostRows(store)[<<h, d>>], Unit)
             /\ Df(h, {d}) > 0 <=> \E u \in Unit : RowsWith(store, u, h, {d}) > 0
  <2> DEFINE p == <<h, d>>
  <2>1. p \in Term \X Doc /\ p[1] = h /\ p[2] = d
    OBVIOUS
  <2> HIDE DEF p
  <2>2. /\ Df(p[1], {p[2]}) = Total(PostRows(store)[p], Unit)
        /\ Df(p[1], {p[2]}) > 0 <=> p \in Real(store)
    BY <1>1, <2>1, DfIs
  <2>3. p \in Real(store) <=> \E u \in Unit : PostRows(store)[p][u] > 0
    BY <2>1 DEF Real
  <2>4. \A u \in Unit : PostRows(store)[p][u] = RowsWith(store, u, p[1], {p[2]})
    BY <1>1, <2>1, RowWeights
  <2> QED
    BY <2>1, <2>2, <2>3, <2>4 DEF p
<1>3. ASSUME NEW h \in Term, NEW d \in Doc
      PROVE  Copies(<<h, d>>, job.posts) = IF h \in DOMAIN work.dfs THEN Df(h, {d}) ELSE 0
  <2>1. CASE h \in DOMAIN work.dfs
    <3>1. <<h, d>> \in PostKeys
      BY <1>1, <2>1
    <3>2. Copies(<<h, d>>, job.posts) = Total(PostRows(store)[<<h, d>>], Unit)
      BY <1>1, <3>1
    <3> QED
      BY <1>2, <2>1, <3>2
  <2>2. CASE h \notin DOMAIN work.dfs
    <3>1. <<h, d>> \notin DOMAIN job.posts
      BY <1>1, <2>2
    <3> QED
      BY <2>2, <3>1 DEF Copies
  <2> QED
    BY <2>1, <2>2
<1>4. job.rows = {d \in Doc : \E u \in Unit, h \in DOMAIN work.dfs : RowsWith(store, u, h, {d}) > 0}
  <2>1. job.pending = {}
    BY DEF TfidfInv, TasksOK, Counting, At
  <2>2. job.rows = {d \in Doc : \E u \in Unit \ job.pending, h \in DOMAIN work.dfs :
                      RowsWith(store, u, h, {d}) > 0}
    BY DEF TfidfInv, RowsOK, At
  <2> QED
    BY <2>1, <2>2
<1>5. job.rows = {d \in Doc : \E h \in DOMAIN work.dfs : Df(h, {d}) > 0}
  <2>1. \A d \in Doc : (\E u \in Unit, h \in DOMAIN work.dfs : RowsWith(store, u, h, {d}) > 0)
                       <=> \E h \in DOMAIN work.dfs : Df(h, {d}) > 0
    BY <1>1, <1>2
  <2> QED
    BY <1>4, <2>1
<1> QED
  BY <1>3, <1>5

LEMMA NothingIsLost == ASSUME TfidfInv PROVE NoDocumentIsLost
<1> SUFFICES ASSUME At("published"), history.stores = {store}, ~ Died({"torn", "fewer"}),
                    NEW h \in DOMAIN work.dfs
             PROVE  /\ work.dfs[h] >= Df(h, Doc)
                    /\ \A d \in Doc : /\ Copies(<<h, d>>, job.posts) >= Df(h, {d})
                                      /\ <<h, d>> \in BagToSet(job.posts) => Df(h, {d}) > 0
  BY Zenon DEF NoDocumentIsLost, Sound, index
<1>1. /\ store \in Stores /\ h \in Term /\ work.vocab = "whole"
      /\ PostKeys = (DOMAIN work.dfs) \X Doc /\ DOMAIN job.posts \subseteq Real(store)
      /\ \A p \in PostKeys : Copies(p, job.posts) >= Total(PostRows(store)[p], Unit)
  BY PostingsAre DEF Unharmed
<1>2. work.dfs[h] >= Df(h, Doc)
  <2>1. work.dfs[h] >= Total(DfRows(store)[h], Unit)
    BY <1>1 DEF TfidfInv, VocabOK, Unharmed
  <2> QED
    BY <1>1, <2>1, DfIs
<1>3. BagToSet(job.posts) = DOMAIN job.posts
  BY BagsAre DEF TfidfInv, Typed
<1>4. ASSUME NEW d \in Doc
      PROVE  /\ Copies(<<h, d>>, job.posts) >= Df(h, {d})
             /\ <<h, d>> \in BagToSet(job.posts) => Df(h, {d}) > 0
  <2> DEFINE p == <<h, d>>
  <2>1. p \in Term \X Doc /\ p[1] = h /\ p[2] = d /\ p \in PostKeys
    BY <1>1
  <2> HIDE DEF p
  <2>2. /\ Df(p[1], {p[2]}) = Total(PostRows(store)[p], Unit)
        /\ Df(p[1], {p[2]}) > 0 <=> p \in Real(store)
    BY <1>1, <2>1, DfIs
  <2>3. Copies(p, job.posts) >= Df(h, {d}) /\ (p \in BagToSet(job.posts) => Df(h, {d}) > 0)
    BY <1>1, <1>3, <2>1, <2>2
  <2> QED
    BY <2>3 DEF p
<1> QED
  BY <1>2, <1>4

\* The published index is that of the store (tfidf/index.rs, phases 1 to 5), for every store, every
\* number of threads, buckets and deaths: the vocabulary after deaths outside the counting, the
\* postings after deaths outside their writing, and after any death that cut no record, of builds
\* with no fewer threads, no document is missed.
THEOREM TfidfIndexIsExact == Spec => []TfidfIsExact
<1>1. ASSUME TfidfInv PROVE TfidfIsExact
  <2>1. CheckpointBeforeRemoval
    BY <1>1 DEF TfidfInv, StageOK, CheckpointBeforeRemoval
  <2> QED
    BY <1>1, <2>1, TypesAre, VocabularyFits, PostingsFit, NothingIsLost DEF TfidfIsExact
<1> QED
  BY <1>1, TfidfInvariant, PTL

================================================================================
