----------------------------- MODULE DataProofs -----------------------------
(***************************************************************************)
(* Induction for the proofs about sequences of events: the least number    *)
(* and the least subset with a property, and what follows for sets put in  *)
(* order.  The induction theorems of the library take an operator; here a  *)
(* property is the set of what has it.                                     *)
(***************************************************************************)
EXTENDS Integers, FiniteSets, SequencesExt, FiniteSetTheorems, WellFoundedInduction, TLAPS

\* A set of naturals that holds one holds a least one.
LEMMA LeastNumber ==
  ASSUME NEW T, T \subseteq Nat, T # {}
  PROVE  \E n \in T : \A m \in T : n <= m
<1> DEFINE R == {p \in Nat \X Nat : p[1] < p[2]}
<1>1. IsWellFoundedOn(R, Nat)
  BY NatLessThanWellFounded DEF OpToRel
<1>2. \A m, n \in Nat : m < n => <<m, n>> \in R
  OBVIOUS
<1> HIDE DEF R
<1>3. PICK n \in T : \A m \in T : <<m, n>> \notin R
  BY <1>1, WFMin
<1>4. ASSUME NEW m \in T PROVE n <= m
  <2>1. m \in Nat /\ n \in Nat
    OBVIOUS
  <2>2. ~(m < n)
    BY <1>2, <1>3, <2>1
  <2>3. QED
    BY <2>1, <2>2
<1>5. QED
  BY <1>4

\* A property that holds of 0, and of k + 1 when of k below n, holds up to n.
LEMMA UpTo ==
  ASSUME NEW n \in Nat, NEW T, 0 \in T, \A k \in Nat : k < n /\ k \in T => k + 1 \in T
  PROVE  \A k \in 0..n : k \in T
<1> DEFINE F == {k \in 0..n : k \notin T}
<1>1. SUFFICES ASSUME F # {} PROVE FALSE
  OBVIOUS
<1>2. F \subseteq Nat
  OBVIOUS
<1>3. PICK k \in F : \A m \in F : k <= m
  BY <1>1, <1>2, LeastNumber
<1>4. k # 0 /\ k \in 1..n
  OBVIOUS
<1>5. k - 1 \in Nat /\ k - 1 < n /\ k - 1 \in 0..n /\ (k - 1) + 1 = k /\ ~(k <= k - 1)
  BY <1>4
<1>6. k - 1 \in T
  BY <1>3, <1>5
<1>7. k \in T
  BY <1>5, <1>6
<1>8. QED
  BY <1>7

\* A family of subsets of a finite set that holds one holds a least one.
LEMMA LeastSubset ==
  ASSUME NEW S, IsFiniteSet(S), NEW B, B \subseteq SUBSET S, B # {}
  PROVE  \E s \in B : \A t \in B : t \subseteq s => t = s
<1> DEFINE T == {Cardinality(s) : s \in B}
<1>1. \A s \in B : IsFiniteSet(s) /\ Cardinality(s) \in Nat
  BY FS_Subset, FS_CardinalityType
<1>2. T \subseteq Nat /\ T # {}
  BY <1>1
<1>3. PICK n \in T : \A m \in T : n <= m
  BY <1>2, LeastNumber
<1>4. PICK s \in B : n = Cardinality(s)
  OBVIOUS
<1>5. ASSUME NEW t \in B, t \subseteq s, t # s PROVE FALSE
  <2>1. Cardinality(t) < Cardinality(s)
    BY <1>1, <1>5, FS_Subset
  <2>2. n <= Cardinality(t)
    BY <1>3
  <2>3. QED
    BY <1>1, <1>4, <2>1, <2>2
<1>6. QED
  BY <1>5

\* R puts the elements of S in a row.
Orders(R, S) ==
  /\ \A x, y \in S : x # y => <<x, y>> \in R \/ <<y, x>> \in R
  /\ \A x, y, z \in S : <<x, y>> \in R /\ <<y, z>> \in R => <<x, z>> \in R

\* In a row there is a first one.
LEMMA FirstExists ==
  ASSUME NEW S, IsFiniteSet(S), S # {}, NEW R, Orders(R, S)
  PROVE  \E x \in S : \A y \in S \ {x} : <<x, y>> \in R
<1> DEFINE First(s) == \E x \in s : \A y \in s \ {x} : <<x, y>> \in R
           B == {s \in SUBSET S : s # {} /\ ~First(s)}
<1>1. SUFFICES ASSUME B # {} PROVE FALSE
  OBVIOUS
<1>0. B \subseteq SUBSET S
  OBVIOUS
<1> HIDE DEF B
<1>2. PICK s \in B : \A t \in B : t \subseteq s => t = s
  BY <1>0, <1>1, LeastSubset
<1> USE DEF B
<1>3. s \subseteq S /\ s # {} /\ ~First(s)
  OBVIOUS
<1>4. PICK x \in s : TRUE
  BY <1>3
<1>5. s \ {x} # {}
  BY <1>3
<1>6. s \ {x} \notin B
  BY <1>2, <1>4
<1>7. PICK z \in s \ {x} : \A y \in (s \ {x}) \ {z} : <<z, y>> \in R
  BY <1>3, <1>5, <1>6
<1>8. <<x, z>> \in R \/ <<z, x>> \in R
  BY <1>3, <1>4, <1>7 DEF Orders
<1>9. <<z, x>> \in R => First(s)
  BY <1>7
<1>10. <<x, z>> \in R => First(s)
  <2>1. SUFFICES ASSUME <<x, z>> \in R, NEW y \in s \ {x} PROVE <<x, y>> \in R
    OBVIOUS
  <2>2. y = z \/ <<z, y>> \in R
    BY <1>7
  <2>3. QED
    BY <1>3, <1>4, <1>7, <2>1, <2>2 DEF Orders
<1>11. QED
  BY <1>3, <1>8, <1>9, <1>10

\* q is S in the order of R, each element once.
InRow(q, R, S) ==
  /\ q \in [1..Cardinality(S) -> S]
  /\ \A i, j \in 1..Cardinality(S) : i < j => <<q[i], q[j]>> \in R /\ q[i] # q[j]
  /\ \A x \in S : \E i \in 1..Cardinality(S) : q[i] = x

\* What R puts in a row can be written down in order.
LEMMA RowExists ==
  ASSUME NEW S, IsFiniteSet(S), NEW R, Orders(R, S)
  PROVE  \E q : InRow(q, R, S)
<1> DEFINE B == {s \in SUBSET S : ~\E q : InRow(q, R, s)}
<1>1. SUFFICES ASSUME B # {} PROVE FALSE
  OBVIOUS
<1>0. B \subseteq SUBSET S
  OBVIOUS
<1> HIDE DEF B
<1>2. PICK s \in B : \A t \in B : t \subseteq s => t = s
  BY <1>0, <1>1, LeastSubset
<1> USE DEF B
<1>3. s \subseteq S /\ ~\E q : InRow(q, R, s)
  OBVIOUS
<1>4. IsFiniteSet(s) /\ Cardinality(s) \in Nat
  BY <1>3, FS_Subset, FS_CardinalityType
<1>5. CASE s = {}
  <2>1. Cardinality(s) = 0
    BY <1>5, FS_EmptySet
  <2>2. InRow([i \in 1..0 |-> i], R, s)
    BY <1>5, <2>1 DEF InRow
  <2>3. QED
    BY <1>3, <2>2
<1>6. CASE s # {}
  <2>1. Orders(R, s)
    BY <1>3 DEF Orders
  <2>2. PICK x \in s : \A y \in s \ {x} : <<x, y>> \in R
    BY <1>4, <1>6, <2>1, FirstExists
  <2> DEFINE t == s \ {x}
             n == Cardinality(s)
  <2>3. t \notin B /\ t \subseteq S
    BY <1>2, <1>3, <2>2
  <2>4. PICK p : InRow(p, R, t)
    BY <2>3
  <2>5. Cardinality(t) = n - 1 /\ n \in Nat /\ n # 0
    BY <1>4, <1>6, <2>2, FS_RemoveElement, FS_EmptySet
  <2> DEFINE q == [i \in 1..n |-> IF i = 1 THEN x ELSE p[i - 1]]
  <2>6. /\ p \in [1..(n - 1) -> t]
        /\ \A i, j \in 1..(n - 1) : i < j => <<p[i], p[j]>> \in R /\ p[i] # p[j]
        /\ \A y \in t : \E i \in 1..(n - 1) : p[i] = y
    BY <2>4, <2>5 DEF InRow
  <2> HIDE DEF n, t
  <2>7. /\ \A i \in 1..n : i # 1 => i - 1 \in 1..(n - 1)
        /\ \A i \in 1..(n - 1) : i + 1 \in 1..n /\ i + 1 # 1 /\ (i + 1) - 1 = i
        /\ 1 \in 1..n
    BY <2>5
  <2>8. q \in [1..n -> s]
    BY <2>2, <2>6, <2>7 DEF t
  <2>9. ASSUME NEW i \in 1..n, NEW j \in 1..n, i < j PROVE <<q[i], q[j]>> \in R /\ q[i] # q[j]
    <3>1. j # 1 /\ q[j] = p[j - 1] /\ j - 1 \in 1..(n - 1)
      BY <2>5, <2>7, <2>9
    <3>2. CASE i = 1
      <4>1. q[j] \in t /\ q[i] = x
        BY <2>6, <3>1, <3>2
      <4>2. QED
        BY <2>2, <4>1 DEF t
    <3>3. CASE i # 1
      <4>1. q[i] = p[i - 1] /\ i - 1 \in 1..(n - 1) /\ i - 1 < j - 1
        BY <2>5, <2>7, <2>9, <3>3
      <4>2. QED
        BY <2>6, <3>1, <4>1
    <3>4. QED
      BY <3>2, <3>3
  <2>10. ASSUME NEW y \in s PROVE \E i \in 1..n : q[i] = y
    <3>1. CASE y = x
      BY <2>7, <3>1
    <3>2. CASE y # x
      <4>1. PICK i \in 1..(n - 1) : p[i] = y
        BY <2>6, <3>2 DEF t
      <4>2. i + 1 \in 1..n /\ q[i + 1] = y
        BY <2>7, <4>1
      <4>3. QED
        BY <4>2
    <3>3. QED
      BY <3>1, <3>2
  <2> HIDE DEF q
  <2>11. InRow(q, R, s)
    BY <2>8, <2>9, <2>10 DEF InRow, n
  <2>12. QED
    BY <1>3, <2>11
<1>7. QED
  BY <1>5, <1>6
---------------------------------------------------------------------------
(* Sets written down as sequences, and sequences put together. *)

\* q lists the elements of S, each once.
Lists(q, S) ==
  /\ q \in Seq(S) /\ DOMAIN q = 1..Len(q) /\ Len(q) \in Nat
  /\ \A i, j \in 1..Len(q) : i # j => q[i] # q[j]
  /\ \A x \in S : \E i \in 1..Len(q) : q[i] = x

\* As many different elements as there are leave none out.
LEMMA Enumerates ==
  ASSUME NEW S, IsFiniteSet(S), NEW q \in SetToSeqs(S)
  PROVE  Lists(q, S)
<1> DEFINE n == Cardinality(S)
<1>1. n \in Nat
  BY FS_CardinalityType
<1>2. q \in [1..n -> S] /\ \A i, j \in 1..n : i # j => q[i] # q[j]
  BY DEF SetToSeqs
<1>3. ASSUME NEW x \in S, \A i \in 1..n : q[i] # x PROVE FALSE
  <2>1. IsFiniteSet(S \ {x}) /\ Cardinality(S \ {x}) = n - 1
    BY FS_RemoveElement
  <2>2. IsFiniteSet(1..n) /\ Cardinality(1..n) = n
    BY <1>1, FS_Interval
  <2>3. q \in [1..n -> S \ {x}]
    BY <1>2, <1>3
  <2> HIDE DEF n
  <2>4. Cardinality(S \ {x}) < Cardinality(1..n)
    BY <1>1, <2>1, <2>2
  <2>5. \E i, j \in 1..n : i # j /\ q[i] = q[j]
    BY <2>1, <2>2, <2>3, <2>4, FS_PigeonHole
  <2>6. QED
    BY <1>2, <2>5
<1> HIDE DEF n
<1>4. q \in Seq(S) /\ Len(q) = n /\ DOMAIN q = 1..n
  BY <1>1, <1>2
<1>5. QED
  BY <1>1, <1>2, <1>3, <1>4 DEF Lists

\* What R puts in a row is among the ways to write a set down.
LEMMA SortedExists ==
  ASSUME NEW S, IsFiniteSet(S), NEW R, Orders(R, S)
  PROVE  \E q \in SetToSeqs(S) : \A i, j \in DOMAIN q : i < j => <<q[i], q[j]>> \in R
<1>1. PICK q : InRow(q, R, S)
  BY RowExists
<1> DEFINE n == Cardinality(S)
<1>2. n \in Nat
  BY FS_CardinalityType
<1>3. /\ q \in [1..n -> S]
      /\ \A i, j \in 1..n : i < j => <<q[i], q[j]>> \in R /\ q[i] # q[j]
  BY <1>1 DEF InRow
<1>4. \A i, j \in 1..n : i # j => q[i] # q[j]
  <2>1. SUFFICES ASSUME NEW i \in 1..n, NEW j \in 1..n, i # j PROVE q[i] # q[j]
    OBVIOUS
  <2>2. i < j \/ j < i
    BY <1>2, <2>1
  <2>3. QED
    BY <1>3, <2>2
<1>5. q \in SetToSeqs(S)
  BY <1>3, <1>4 DEF SetToSeqs
<1>6. DOMAIN q = 1..n
  BY <1>3
<1>7. QED
  BY <1>3, <1>5, <1>6

\* Naturals in ascending order.
LEMMA AscendingExists ==
  ASSUME NEW S, IsFiniteSet(S), S \subseteq Nat
  PROVE  \E q \in SetToSeqs(S) : \A i, j \in DOMAIN q : i < j => q[i] < q[j]
<1> DEFINE R == {p \in Nat \X Nat : p[1] < p[2]}
<1>1. \A x, y \in Nat : <<x, y>> \in R <=> x < y
  OBVIOUS
<1> HIDE DEF R
<1>2. Orders(R, S)
  <2>1. ASSUME NEW x \in S, NEW y \in S, x # y PROVE <<x, y>> \in R \/ <<y, x>> \in R
    <3>1. x < y \/ y < x
      BY <2>1
    <3>2. QED
      BY <1>1, <3>1
  <2>2. ASSUME NEW x \in S, NEW y \in S, NEW z \in S, <<x, y>> \in R, <<y, z>> \in R
        PROVE  <<x, z>> \in R
    <3>1. x < y /\ y < z
      BY <1>1, <2>2
    <3>2. x < z
      BY <3>1
    <3>3. QED
      BY <1>1, <3>2
  <2>3. QED
    BY <2>1, <2>2 DEF Orders
<1>3. PICK q \in SetToSeqs(S) : \A i, j \in DOMAIN q : i < j => <<q[i], q[j]>> \in R
  BY <1>2, SortedExists
<1>4. Lists(q, S)
  BY Enumerates
<1>5. \A i, j \in DOMAIN q : i < j => q[i] < q[j]
  <2>1. \A i \in DOMAIN q : q[i] \in Nat
    <3>1. q \in Seq(S) /\ DOMAIN q = 1..Len(q)
      BY <1>4 DEF Lists
    <3>2. \A i \in 1..Len(q) : q[i] \in S
      BY <3>1
    <3>3. QED
      BY <3>1, <3>2
  <2>2. QED
    BY <1>1, <1>3, <2>1
<1>6. QED
  BY <1>5

\* f holds what the first k of the sequences make together.
Gathers(f, seqs, k) ==
  /\ f[1] = seqs[1]
  /\ \A i \in 2..k : f[i] = f[i - 1] \o seqs[i]
  /\ f = [i \in 1..k |-> f[i]]

\* One sequence after the other.
LEMMA FlattenRuns ==
  ASSUME NEW n \in Nat \ {0}, NEW seqs, Len(seqs) = n
  PROVE  \E c : Gathers(c, seqs, n) /\ FlattenSeq(seqs) = c[n]
<1> DEFINE T == {k \in Nat : k < n => \E f : Gathers(f, seqs, k + 1)}
<1>1. 0 \in T
  <2>1. Gathers([i \in 1..1 |-> seqs[1]], seqs, 1)
    BY DEF Gathers
  <2>2. 0 + 1 = 1
    OBVIOUS
  <2>3. QED
    BY <2>1, <2>2
<1>2. ASSUME NEW k \in Nat, k < n - 1, k \in T PROVE k + 1 \in T
  <2>1. PICK f : Gathers(f, seqs, k + 1)
    BY <1>2
  <2> DEFINE m == k + 2
             g == [i \in 1..m |-> IF i = m THEN f[m - 1] \o seqs[m] ELSE f[i]]
  <2>2. /\ \A i \in 1..m : i # m => g[i] = f[i]
        /\ g[m] = f[m - 1] \o seqs[m]
        /\ 1 \in 1..m /\ 1 # m
    <3>1. m \in 1..m /\ 1 \in 1..m /\ 1 # m
      OBVIOUS
    <3> HIDE DEF m
    <3>2. QED
      BY <3>1
  <2>3. ASSUME NEW i \in 2..m PROVE g[i] = g[i - 1] \o seqs[i]
    <3>1. CASE i = m
      <4>1. m - 1 \in 1..m /\ m - 1 # m
        OBVIOUS
      <4>2. g[m - 1] = f[m - 1]
        BY <2>2, <4>1
      <4>3. QED
        BY <2>2, <3>1, <4>2
    <3>2. CASE i # m
      <4>1. i \in 2..(k + 1) /\ i \in 1..m /\ i - 1 \in 1..m /\ i - 1 # m
        BY <3>2
      <4>2. g[i] = f[i] /\ g[i - 1] = f[i - 1]
        BY <2>2, <3>2, <4>1
      <4>3. QED
        BY <2>1, <4>1, <4>2 DEF Gathers
    <3>3. QED
      BY <3>1, <3>2
  <2>4. g[1] = seqs[1] /\ g = [i \in 1..m |-> g[i]]
    BY <2>1, <2>2 DEF Gathers
  <2> HIDE DEF g
  <2>5. Gathers(g, seqs, m)
    BY <2>3, <2>4 DEF Gathers
  <2>6. m = (k + 1) + 1
    OBVIOUS
  <2>7. QED
    BY <2>5, <2>6
<1>3. n - 1 \in Nat /\ (n - 1) + 1 = n /\ n - 1 < n
  OBVIOUS
<1>4. n - 1 \in T
  <2> HIDE DEF T
  <2>1. \A k \in 0..(n - 1) : k \in T
    BY <1>1, <1>2, <1>3, UpTo
  <2>2. n - 1 \in 0..(n - 1)
    BY <1>3
  <2>3. QED
    BY <2>1, <2>2
<1>5. PICK f : Gathers(f, seqs, n)
  BY <1>3, <1>4
<1> DEFINE c == CHOOSE h : h = [i \in 1..n |-> IF i = 1 THEN seqs[i] ELSE h[i - 1] \o seqs[i]]
<1>6. f = [i \in 1..n |-> IF i = 1 THEN seqs[i] ELSE f[i - 1] \o seqs[i]]
  <2>1. \A i \in 1..n : i # 1 => i \in 2..n
    OBVIOUS
  <2>2. \A i \in 1..n : f[i] = IF i = 1 THEN seqs[i] ELSE f[i - 1] \o seqs[i]
    BY <1>5, <2>1 DEF Gathers
  <2>3. f = [i \in 1..n |-> f[i]]
    BY <1>5 DEF Gathers
  <2>4. QED
    BY <2>2, <2>3
<1>7. c = [i \in 1..n |-> IF i = 1 THEN seqs[i] ELSE c[i - 1] \o seqs[i]]
  BY <1>6
<1>8. FlattenSeq(seqs) = c[n]
  BY DEF FlattenSeq
<1> HIDE DEF c
<1>9. c[1] = seqs[1] /\ \A i \in 2..n : c[i] = c[i - 1] \o seqs[i]
  <2>1. \A i \in 2..n : i \in 1..n /\ i # 1
    OBVIOUS
  <2>2. 1 \in 1..n
    OBVIOUS
  <2>3. QED
    BY <1>7, <2>1, <2>2
<1>10. c = [i \in 1..n |-> c[i]]
  BY <1>7
<1>11. Gathers(c, seqs, n)
  BY <1>9, <1>10 DEF Gathers
<1>12. QED
  BY <1>8, <1>11
=============================================================================
