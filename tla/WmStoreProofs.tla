------------------------- MODULE WmStoreProofs -------------------------
(***************************************************************************)
(* Proofs about the state store, for every number of monitors, workspaces, *)
(* columns and windows: the workspaces stay partitioned among the monitors,*)
(* and the two copies of each active workspace stay equal.                 *)
(*                                                                         *)
(* The inductive invariant is Sound.  A handler breaks it between its      *)
(* assignments: moving a workspace to another monitor leaves the source    *)
(* without its active workspace and the target with two different ones,    *)
(* until normalize_workspace_set has run on both.  Ring(s, U) is therefore *)
(* the invariant but for the monitors U, and NormalizeRing takes a monitor *)
(* out of U.  What most operators do to columns, windows and the focus does*)
(* not touch it: they leave the state Alike.                               *)
(***************************************************************************)
EXTENDS WmStore, FiniteSetTheorems, TLAPS

---------------------------------------------------------------------------
(* Sequences and fresh identifiers. *)

\* A finite set leaves out one of the first Cardinality + 1 naturals.
LEMMA FreshIsFresh ==
  ASSUME NEW S, IsFiniteSet(S)
  PROVE  Fresh(S) \in Nat /\ Fresh(S) \notin S
<1> DEFINE n == Cardinality(S)
<1>1. n \in Nat
  BY FS_CardinalityType
<1>2. IsFiniteSet(0..n) /\ Cardinality(0..n) = n + 1
  BY <1>1, FS_Interval
<1>3. ~ (0..n \subseteq S)
  <2>1. SUFFICES ASSUME 0..n \subseteq S PROVE FALSE
    OBVIOUS
  <2>2. Cardinality(0..n) <= n
    BY <2>1, FS_Subset
  <2>3. QED
    BY <1>1, <1>2, <2>2
<1>4. QED
  BY <1>1, <1>3 DEF Fresh

\* w lists the elements of seq that are not in S, in the order of seq.
Picks(w, seq, S) ==
  \E N \in Nat : \E f \in [1..N -> DOMAIN seq] :
    /\ w = [j \in 1..N |-> seq[f[j]]]
    /\ \A i, j \in 1..N : i < j => f[i] < f[j]
    /\ \A j \in 1..N : seq[f[j]] \notin S
    /\ \A i \in DOMAIN seq : seq[i] \notin S => \E j \in 1..N : f[j] = i

\* Without lists the positions it keeps, in ascending order.
LEMMA WithoutEnumerates ==
  ASSUME NEW T, NEW seq \in Seq(T), NEW S
  PROVE  Picks(Without(seq, S), seq, S)
<1> DEFINE n == Len(seq)
           kept == {i \in DOMAIN seq : seq[i] \notin S}
           upto(i) == {k \in kept : k <= i}
           rank(i) == Cardinality(upto(i))
           N == Cardinality(kept)
           f == [i \in kept |-> rank(i)]
           pos(j) == CHOOSE i \in kept : rank(i) = j
           g == [j \in 1..N |-> pos(j)]
<1>1. n \in Nat /\ DOMAIN seq = 1..n
  OBVIOUS
<1>2. CASE kept = DOMAIN seq
  <2> DEFINE id == [j \in 1..n |-> j]
  <2>1. Without(seq, S) = seq
    BY <1>2 DEF Without
  <2>2. id \in [1..n -> DOMAIN seq] /\ seq = [j \in 1..n |-> seq[id[j]]]
    BY <1>1
  <2>3. \A j \in 1..n : seq[id[j]] \notin S
    BY <1>1, <1>2
  <2>4. \A i \in 1..n : id[i] = i
    OBVIOUS
  <2> HIDE DEF id
  <2>5. Picks(seq, seq, S)
    BY <1>1, <2>2, <2>3, <2>4 DEF Picks
  <2>6. QED
    BY <2>1, <2>5
<1> SUFFICES ASSUME kept # DOMAIN seq
             PROVE  Picks(Without(seq, S), seq, S)
  BY <1>2
<1>3. IsFiniteSet(kept) /\ N \in Nat
  <2>1. IsFiniteSet(1..n) /\ kept \in SUBSET (1..n)
    BY <1>1, FS_Interval
  <2>2. IsFiniteSet(kept)
    BY <2>1, FS_Subset
  <2>3. QED
    BY <2>2, FS_CardinalityType
<1>4. \A i \in kept : rank(i) \in 1..N
  <2>1. TAKE i \in kept
  <2>2. upto(i) \in SUBSET kept /\ i \in upto(i)
    BY <1>1
  <2>3. IsFiniteSet(upto(i)) /\ rank(i) <= N
    BY <1>3, <2>2, FS_Subset
  <2>4. rank(i) \in Nat
    BY <2>3, FS_CardinalityType
  <2>5. rank(i) # 0
    BY <2>2, <2>3, FS_EmptySet
  <2>6. QED
    BY <1>3, <2>3, <2>4, <2>5
<1>5. \A i, j \in kept : i < j => rank(i) < rank(j)
  <2>1. SUFFICES ASSUME NEW i \in kept, NEW j \in kept, i < j PROVE rank(i) < rank(j)
    OBVIOUS
  <2>2. upto(i) \in SUBSET upto(j) /\ j \in upto(j) /\ j \notin upto(i)
    BY <1>1, <2>1
  <2>3. upto(j) \in SUBSET kept
    OBVIOUS
  <2>4. IsFiniteSet(upto(j))
    BY <1>3, <2>3, FS_Subset
  <2>5. rank(i) <= rank(j) /\ rank(i) # rank(j)
    <3>1. rank(i) <= rank(j) /\ (rank(i) = rank(j) => upto(i) = upto(j))
      BY <2>2, <2>4, FS_Subset
    <3>2. QED
      BY <2>2, <3>1
  <2>6. rank(i) \in 1..N /\ rank(j) \in 1..N
    BY <1>4
  <2> HIDE DEF rank, N
  <2>7. QED
    BY <2>5, <2>6
<1> HIDE DEF rank, N
<1>6. f \in Injection(kept, 1..N)
  <2>1. f \in [kept -> 1..N]
    BY <1>4
  <2>2. ASSUME NEW i \in kept, NEW j \in kept, rank(i) = rank(j) PROVE i = j
    <3>1. rank(i) \in Nat /\ i \in Nat /\ j \in Nat
      BY <1>1, <1>3, <1>4
    <3>2. ~ (i < j) /\ ~ (j < i)
      BY <1>5, <2>2, <3>1
    <3>3. QED
      BY <3>1, <3>2
  <2>3. QED
    BY <2>1, <2>2 DEF Injection, IsInjective
<1>7. f \in Surjection(kept, 1..N)
  <2>1. IsFiniteSet(1..N) /\ Cardinality(1..N) = N
    BY <1>3, FS_Interval
  <2>2. Cardinality(kept) = Cardinality(1..N)
    BY <2>1 DEF N
  <2>3. QED
    BY <1>6, <2>1, <2>2, FS_Injection
<1>8. \A j \in 1..N : pos(j) \in kept /\ rank(pos(j)) = j
  <2>1. TAKE j \in 1..N
  <2>2. PICK i \in kept : f[i] = j
    BY <1>7 DEF Surjection
  <2>3. QED
    BY <2>2
<1>9. \A i \in kept : rank(i) \in 1..N /\ pos(rank(i)) = i
  BY <1>4, <1>6, <1>8 DEF Injection, IsInjective
<1>10. \A i \in 1..n : i \in kept <=> seq[i] \notin S
  BY <1>1
<1>11. kept \subseteq 1..n
  BY <1>1
<1>12. Without(seq, S) = [j \in 1..N |-> seq[pos(j)]]
  BY DEF Without, N, rank
<1> HIDE DEF kept, pos
<1>13. g \in [1..N -> DOMAIN seq] /\ Without(seq, S) = [j \in 1..N |-> seq[g[j]]]
  BY <1>1, <1>8, <1>11, <1>12
<1>14. \A i, j \in 1..N : i < j => g[i] < g[j]
  <2>1. SUFFICES ASSUME NEW i \in 1..N, NEW j \in 1..N, i < j PROVE pos(i) < pos(j)
    OBVIOUS
  <2>2. pos(i) \in kept /\ pos(j) \in kept /\ rank(pos(i)) = i /\ rank(pos(j)) = j
    BY <1>8
  <2> DEFINE a == pos(i)
             b == pos(j)
  <2>3. a \in Nat /\ b \in Nat /\ i \in Nat /\ j \in Nat
    <3> HIDE DEF a, b
    <3>1. a \in 1..n /\ b \in 1..n
      BY <1>11, <2>2 DEF a, b
    <3>2. QED
      BY <1>1, <1>3, <3>1
  <2>4. pos(j) < pos(i) => j < i
    BY <1>5, <2>2
  <2>5. pos(i) = pos(j) => i = j
    BY <2>2
  <2>6. QED
    BY <2>1, <2>3, <2>4, <2>5
<1>15. \A j \in 1..N : seq[g[j]] \notin S
  BY <1>8, <1>10, <1>11
<1>16. \A i \in DOMAIN seq : seq[i] \notin S => \E j \in 1..N : g[j] = i
  BY <1>1, <1>9, <1>10
<1> HIDE DEF g
<1>17. QED
  BY <1>3, <1>13, <1>14, <1>15, <1>16 DEF Picks

\* Without keeps the elements outside a set, each once if it was there once,
\* and the last one stays last.
LEMMA WithoutKeeps ==
  ASSUME NEW T, NEW seq \in Seq(T), NEW S
  PROVE  /\ Without(seq, S) \in Seq(T)
         /\ ToSet(Without(seq, S)) = ToSet(seq) \ S
         /\ IsInjective(seq) => IsInjective(Without(seq, S))
         /\ seq # <<>> /\ Last(seq) \notin S =>
              /\ Without(seq, S) # <<>>
              /\ Last(Without(seq, S)) = Last(seq)
<1>0. Picks(Without(seq, S), seq, S)
  BY WithoutEnumerates
<1> DEFINE n == Len(seq)
           w == Without(seq, S)
<1>1. n \in Nat /\ DOMAIN seq = 1..n /\ \A i \in 1..n : seq[i] \in T
  OBVIOUS
<1>2. PICK N \in Nat : \E f \in [1..N -> DOMAIN seq] :
        /\ w = [j \in 1..N |-> seq[f[j]]]
        /\ \A i, j \in 1..N : i < j => f[i] < f[j]
        /\ \A j \in 1..N : seq[f[j]] \notin S
        /\ \A i \in DOMAIN seq : seq[i] \notin S => \E j \in 1..N : f[j] = i
  BY <1>0 DEF Picks
<1>3. PICK f \in [1..N -> DOMAIN seq] :
        /\ w = [j \in 1..N |-> seq[f[j]]]
        /\ \A i, j \in 1..N : i < j => f[i] < f[j]
        /\ \A j \in 1..N : seq[f[j]] \notin S
        /\ \A i \in DOMAIN seq : seq[i] \notin S => \E j \in 1..N : f[j] = i
  BY <1>2
<1> HIDE DEF w
<1>4. \A j \in 1..N : f[j] \in 1..n /\ w[j] = seq[f[j]]
  BY <1>1, <1>3
<1>5. w \in Seq(T) /\ DOMAIN w = 1..N /\ Len(w) = N
  <2>1. w \in [1..N -> T]
    BY <1>1, <1>3, <1>4
  <2>2. QED
    BY <2>1
<1>6. ToSet(w) = ToSet(seq) \ S
  <2>1. ASSUME NEW j \in 1..N PROVE w[j] \in ToSet(seq) \ S
    BY <1>1, <1>3, <1>4 DEF ToSet
  <2>2. ASSUME NEW i \in 1..n, seq[i] \notin S PROVE seq[i] \in ToSet(w)
    <3>1. PICK j \in 1..N : f[j] = i
      BY <1>1, <1>3, <2>2
    <3>2. w[j] = seq[i] /\ j \in DOMAIN w
      BY <1>4, <1>5, <3>1
    <3>3. QED
      BY <3>2 DEF ToSet
  <2>3. QED
    BY <1>1, <1>5, <2>1, <2>2 DEF ToSet
<1>7. IsInjective(seq) => IsInjective(w)
  <2>1. SUFFICES ASSUME IsInjective(seq), NEW a \in 1..N, NEW b \in 1..N, w[a] = w[b], a < b
                 PROVE  FALSE
    BY <1>5 DEF IsInjective
  <2>2. f[a] = f[b]
    BY <1>1, <1>4, <2>1 DEF IsInjective
  <2>3. QED
    BY <1>1, <1>3, <1>4, <2>1, <2>2
<1>8. seq # <<>> /\ Last(seq) \notin S => w # <<>> /\ Last(w) = Last(seq)
  <2>1. SUFFICES ASSUME seq # <<>>, seq[n] \notin S PROVE w # <<>> /\ w[N] = seq[n]
    BY <1>5 DEF Last
  <2>2. PICK j \in 1..N : f[j] = n
    BY <1>1, <1>3, <2>1
  <2>3. N \in 1..N /\ f[N] \in 1..n
    BY <1>4, <2>2
  <2>4. j = N
    BY <1>1, <1>3, <2>2, <2>3
  <2>5. QED
    BY <1>4, <1>5, <2>2, <2>3, <2>4
<1>9. QED
  BY <1>5, <1>6, <1>7, <1>8 DEF w

\* w is seq with e put in at position i: the elements from there on move up by one.
Spliced(w, T, seq, i, e) ==
  /\ w \in Seq(T)
  /\ Len(w) = Len(seq) + 1
  /\ \A k \in 1..(Len(seq) + 1) : w[k] = IF k < i THEN seq[k] ELSE IF k = i THEN e ELSE seq[k - 1]

\* Inserting an element moves the later ones up by one.
LEMMA InsertAtReads ==
  ASSUME NEW T, NEW seq \in Seq(T), NEW i \in 1..(Len(seq) + 1), NEW e \in T
  PROVE  Spliced(InsertAt(seq, i, e), T, seq, i, e)
<1> DEFINE n == Len(seq)
           left == SubSeq(seq, 1, i - 1)
           right == SubSeq(seq, i, n)
           mid == left \o <<e>>
           w == InsertAt(seq, i, e)
<1>1. n \in Nat /\ DOMAIN seq = 1..n
  OBVIOUS
<1>2. left \in Seq(T) /\ Len(left) = i - 1 /\ \A k \in 1..(i - 1) : left[k] = seq[k]
  BY <1>1
<1>3. right \in Seq(T) /\ Len(right) = n - i + 1 /\ \A k \in 1..(n - i + 1) : right[k] = seq[i + k - 1]
  BY <1>1
<1>4. w = mid \o right
  BY DEF InsertAt
<1> HIDE DEF left, right, w
<1>5. /\ mid \in Seq(T)
      /\ Len(mid) = i
      /\ \A k \in 1..(i - 1) : mid[k] = seq[k]
      /\ mid[i] = e
  BY <1>2
<1> HIDE DEF mid
<1>6. w \in Seq(T) /\ Len(w) = n + 1
  <2>1. \A u, v \in Seq(T) : u \o v \in Seq(T) /\ Len(u \o v) = Len(u) + Len(v)
    OBVIOUS
  <2>2. w \in Seq(T) /\ Len(w) = Len(mid) + Len(right)
    BY <1>3, <1>4, <1>5, <2>1
  <2>3. QED
    BY <1>1, <1>3, <1>5, <2>2
<1>7. \A k \in 1..(n + 1) : w[k] = IF k < i THEN seq[k] ELSE IF k = i THEN e ELSE seq[k - 1]
  <2>1. TAKE k \in 1..(n + 1)
  <2>2. w[k] = IF k <= i THEN mid[k] ELSE right[k - i]
    BY <1>1, <1>3, <1>4, <1>5
  <2>3. k > i => right[k - i] = seq[k - 1]
    <3>1. SUFFICES ASSUME k > i PROVE right[k - i] = seq[k - 1]
      OBVIOUS
    <3>2. k - i \in 1..(n - i + 1) /\ i + (k - i) - 1 = k - 1
      BY <1>1, <3>1
    <3>3. right[k - i] = seq[i + (k - i) - 1]
      BY <1>3, <3>2
    <3>4. QED
      BY <3>2, <3>3
  <2>4. QED
    BY <1>1, <1>5, <2>2, <2>3
<1>8. QED
  BY <1>6, <1>7 DEF Spliced, w, n

\* Inserting a new element anywhere adds just that element.
LEMMA InsertAtAdds ==
  ASSUME NEW T, NEW seq \in Seq(T), NEW i \in 1..(Len(seq) + 1), NEW e \in T
  PROVE  /\ InsertAt(seq, i, e) \in Seq(T)
         /\ ToSet(InsertAt(seq, i, e)) = ToSet(seq) \union {e}
         /\ IsInjective(seq) /\ e \notin ToSet(seq) => IsInjective(InsertAt(seq, i, e))
<1>0. Spliced(InsertAt(seq, i, e), T, seq, i, e)
  BY InsertAtReads
<1> DEFINE n == Len(seq)
           w == InsertAt(seq, i, e)
<1>1. n \in Nat /\ DOMAIN seq = 1..n
  OBVIOUS
<1>2. /\ w \in Seq(T) /\ Len(w) = n + 1
      /\ \A k \in 1..(n + 1) : w[k] = IF k < i THEN seq[k] ELSE IF k = i THEN e ELSE seq[k - 1]
  BY <1>0 DEF Spliced
<1>3. i \in 1..(n + 1)
  OBVIOUS
<1> HIDE DEF w, n
<1>4. ToSet(w) = ToSet(seq) \union {e}
  <2>1. ToSet(w) \subseteq ToSet(seq) \union {e}
    <3>1. SUFFICES ASSUME NEW k \in 1..(n + 1) PROVE w[k] \in ToSet(seq) \union {e}
      BY <1>1, <1>2 DEF ToSet
    <3>2. CASE k < i
      <4>1. k \in 1..n /\ w[k] = seq[k]
        BY <1>1, <1>2, <1>3, <3>2
      <4>2. QED
        BY <1>1, <4>1 DEF ToSet
    <3>3. CASE k = i
      BY <1>2, <3>3
    <3>4. CASE k > i
      <4>1. k - 1 \in 1..n /\ w[k] = seq[k - 1]
        BY <1>1, <1>2, <1>3, <3>4
      <4>2. QED
        BY <1>1, <4>1 DEF ToSet
    <3>5. QED
      BY <3>2, <3>3, <3>4
  <2>2. ASSUME NEW k \in 1..n PROVE seq[k] \in ToSet(w)
    <3>1. CASE k < i
      BY <1>1, <1>2, <1>3, <3>1 DEF ToSet
    <3>2. CASE k >= i
      <4>1. k + 1 \in 1..(n + 1) /\ w[k + 1] = seq[k]
        BY <1>1, <1>2, <1>3, <3>2
      <4>2. k + 1 \in DOMAIN w
        BY <1>2, <4>1
      <4>3. QED
        BY <4>1, <4>2 DEF ToSet
    <3>3. QED
      BY <3>1, <3>2
  <2>3. e \in ToSet(w)
    BY <1>1, <1>2, <1>3 DEF ToSet
  <2>4. QED
    BY <1>1, <2>1, <2>2, <2>3 DEF ToSet
<1>5. IsInjective(seq) /\ e \notin ToSet(seq) => IsInjective(w)
  <2>1. SUFFICES ASSUME IsInjective(seq), e \notin ToSet(seq),
                        NEW a \in 1..(n + 1), NEW b \in 1..(n + 1), w[a] = w[b], a < b
                 PROVE  FALSE
    BY <1>1, <1>2 DEF IsInjective
  <2>2. \A k \in 1..n : seq[k] # e
    BY <1>1, <2>1 DEF ToSet
  <2>3. \A j, k \in 1..n : seq[j] = seq[k] => j = k
    BY <1>1, <2>1 DEF IsInjective
  <2>4. a < i => w[a] = seq[a] /\ a \in 1..n
    BY <1>1, <1>2, <1>3
  <2>5. b > i => w[b] = seq[b - 1] /\ b - 1 \in 1..n
    BY <1>1, <1>2, <1>3
  <2>6. a > i => w[a] = seq[a - 1] /\ a - 1 \in 1..n
    BY <1>1, <1>2, <1>3
  <2>7. b < i => w[b] = seq[b] /\ b \in 1..n
    BY <1>1, <1>2, <1>3
  <2>8. (a = i => w[a] = e) /\ (b = i => w[b] = e)
    BY <1>1, <1>2, <1>3
  <2>9. QED
    BY <1>1, <2>1, <2>2, <2>3, <2>4, <2>5, <2>6, <2>7, <2>8
<1>6. QED
  BY <1>2, <1>4, <1>5 DEF w

\* The position of an element that stands once.
LEMMA PositionFinds ==
  ASSUME NEW T, NEW seq \in Seq(T), IsInjective(seq), NEW x \in ToSet(seq)
  PROVE  Position(seq, x) \in DOMAIN seq /\ seq[Position(seq, x)] = x
<1>1. PICK i \in DOMAIN seq : seq[i] = x
  BY DEF ToSet
<1>2. \A k \in 1..(i - 1) : seq[k] # x
  <2>1. DOMAIN seq = 1..Len(seq) /\ Len(seq) \in Nat
    OBVIOUS
  <2>2. QED
    BY <1>1, <2>1 DEF IsInjective
<1>3. QED
  BY <1>1, <1>2 DEF Position, IsInjective

\* Swapping two entries keeps the elements.
LEMMA SwappedKeeps ==
  ASSUME NEW T, NEW seq \in Seq(T), NEW i \in DOMAIN seq, NEW j \in DOMAIN seq
  PROVE  /\ Swapped(seq, i, j) \in Seq(T)
         /\ ToSet(Swapped(seq, i, j)) = ToSet(seq)
         /\ IsInjective(seq) => IsInjective(Swapped(seq, i, j))
<1> DEFINE w == Swapped(seq, i, j)
<1>1. DOMAIN seq = 1..Len(seq) /\ Len(seq) \in Nat
  OBVIOUS
<1>2. w \in Seq(T) /\ DOMAIN w = DOMAIN seq
  BY DEF Swapped
<1>3. \A k \in DOMAIN seq : w[k] = IF k = j THEN seq[i] ELSE IF k = i THEN seq[j] ELSE seq[k]
  BY DEF Swapped
<1>4. ToSet(w) = ToSet(seq)
  BY <1>2, <1>3 DEF ToSet
<1>5. IsInjective(seq) => IsInjective(w)
  BY <1>2, <1>3 DEF IsInjective
<1>6. QED
  BY <1>2, <1>4, <1>5

\* A step along a list stays in it.
LEMMA StepStays ==
  ASSUME NEW n \in Nat, NEW i \in 1..n, NEW forward \in BOOLEAN
  PROVE  StepWithin(i, forward, n) \in 1..n
BY DEF StepWithin

---------------------------------------------------------------------------
(* The inductive invariant. *)

\* The state is a record of records; the maps that give identifiers are finite.
Shape(s) ==
  /\ DOMAIN s = {"sets", "workspaces", "columns", "windows", "focus", "overview", "session"}
  /\ DOMAIN s.focus = {"mon", "win", "col", "activeBy"}
  /\ \A w \in DOMAIN s.workspaces :
       DOMAIN s.workspaces[w] = {"mon", "cols", "flt", "remWin", "remCol", "tail"}
  /\ IsFiniteSet(DOMAIN s.workspaces)
  /\ IsFiniteSet(DOMAIN s.windows)

\* Every workspace stands once in the order of the monitor it names.
Housed(s, m) ==
  /\ s.sets[m].order \in Seq(DOMAIN s.workspaces)
  /\ IsInjective(s.sets[m].order)
  /\ \A w \in ToSet(s.sets[m].order) : s.workspaces[w].mon = m

Homes(s) ==
  /\ \A m \in DOMAIN s.sets : Housed(s, m)
  /\ \A w \in DOMAIN s.workspaces :
       /\ s.workspaces[w].mon \in DOMAIN s.sets
       /\ w \in ToSet(s.sets[s.workspaces[w].mon].order)

\* The two copies of the active workspace of a monitor agree.
Settled(s, m) ==
  /\ s.sets[m].active \in ToSet(s.sets[m].order)
  /\ s.focus.activeBy[m] = s.sets[m].active

\* The invariant, but for the monitors U a handler has yet to normalise.
Ring(s, U) ==
  /\ Shape(s)
  /\ Homes(s)
  /\ DOMAIN s.focus.activeBy = DOMAIN s.sets
  /\ \A m \in DOMAIN s.sets \ U : Settled(s, m)

---------------------------------------------------------------------------
(* Operators that leave the workspaces where they are. *)

\* States that agree on workspaces, orders and active workspaces.
Alike(s, t) ==
  /\ Shape(t)
  /\ t.sets = s.sets
  /\ t.focus.activeBy = s.focus.activeBy
  /\ DOMAIN t.workspaces = DOMAIN s.workspaces
  /\ \A w \in DOMAIN s.workspaces : t.workspaces[w].mon = s.workspaces[w].mon

\* A workspace of an order exists.
LEMMA HousedExists ==
  ASSUME NEW s, Homes(s), NEW m \in DOMAIN s.sets, NEW w \in ToSet(s.sets[m].order)
  PROVE  w \in DOMAIN s.workspaces /\ s.workspaces[w].mon = m
<1>1. PICK i \in DOMAIN s.sets[m].order : s.sets[m].order[i] = w
  BY DEF ToSet
<1>2. QED
  BY <1>1 DEF Homes, Housed

\* The invariant only looks at what Alike keeps.
LEMMA AlikeRing ==
  ASSUME NEW s, NEW t, NEW U, Ring(s, U), Alike(s, t)
  PROVE  Ring(t, U)
<1>1. Homes(t)
  <2>1. \A m \in DOMAIN s.sets : \A w \in ToSet(s.sets[m].order) :
          w \in DOMAIN s.workspaces /\ s.workspaces[w].mon = m
    BY HousedExists DEF Ring
  <2>2. \A m \in DOMAIN t.sets : Housed(t, m)
    BY <2>1 DEF Ring, Homes, Housed, Alike
  <2>3. QED
    BY <2>2 DEF Ring, Homes, Alike
<1>2. QED
  BY <1>1 DEF Ring, Settled, Alike

\* Alike composes, so a handler is followed one assignment at a time.
LEMMA AlikeTransitive ==
  ASSUME NEW s, NEW t, NEW u, Alike(s, t), Alike(t, u)
  PROVE  Alike(s, u)
BY DEF Alike

\* An operator that does nothing.
LEMMA AlikeReflexive ==
  ASSUME NEW s, Shape(s)
  PROVE  Alike(s, s)
BY DEF Alike

\* The focus moves.
LEMMA SetFocusAlike ==
  ASSUME NEW s, Shape(s), NEW m, NEW x, NEW c
  PROVE  Alike(s, SetFocus(s, m, x, c))
BY DEF Shape, Alike, SetFocus

\* A column changes.
LEMMA SetColumnAlike ==
  ASSUME NEW s, Shape(s), NEW c, NEW r
  PROVE  Alike(s, SetColumn(s, c, r))
BY DEF Shape, Alike, SetColumn

\* A column selects a window.
LEMMA SelectInColumnAlike ==
  ASSUME NEW s, Shape(s), NEW c, NEW x
  PROVE  Alike(s, SelectInColumn(s, c, x))
BY DEF Shape, Alike, SelectInColumn

\* A workspace remembers its focus.
LEMMA RememberAlike ==
  ASSUME NEW s, Shape(s), NEW w, NEW x, NEW c
  PROVE  Alike(s, Remember(s, w, x, c))
BY DEF Shape, Alike, Remember

\* A window record is added or changes.
LEMMA SetWindowAlike ==
  ASSUME NEW s, Shape(s), NEW x, NEW r
  PROVE  Alike(s, SetWindow(s, x, r))
BY FS_AddElement DEF Shape, Alike, SetWindow, Put

\* A workspace changes, but not its monitor.
LEMMA SetWorkspaceAlike ==
  ASSUME NEW s, Shape(s), NEW w \in DOMAIN s.workspaces, NEW r,
         r.mon = s.workspaces[w].mon, DOMAIN r = DOMAIN s.workspaces[w]
  PROVE  Alike(s, SetWorkspace(s, w, r))
BY DEF Shape, Alike, SetWorkspace, Put

---------------------------------------------------------------------------
(* The steps of normalize_workspace_set.                                   *)

\* What a step of normalising monitor m leaves alone.
Nearby(s, t, m) ==
  /\ Shape(t)
  /\ Homes(t)
  /\ DOMAIN t.sets = DOMAIN s.sets
  /\ t.focus.activeBy = s.focus.activeBy
  /\ \A k \in DOMAIN s.sets \ {m} : t.sets[k] = s.sets[k]
  /\ t.sets[m].active = s.sets[m].active

\* Workspaces of a monitor are removed from its order and from the map together.
LEMMA RemoveFromSetNearby ==
  ASSUME NEW s, NEW m \in DOMAIN s.sets, Shape(s), Homes(s),
         NEW gone \in SUBSET ToSet(s.sets[m].order)
  PROVE  /\ Nearby(s, RemoveFromSet(s, m, gone), m)
         /\ RemoveFromSet(s, m, gone).sets[m].order = Without(s.sets[m].order, gone)
         /\ \A w \in DOMAIN s.workspaces \ gone :
              RemoveFromSet(s, m, gone).workspaces[w] = s.workspaces[w]
         /\ RemoveFromSet(s, m, gone).columns = s.columns
<1> DEFINE t == RemoveFromSet(s, m, gone)
           order == s.sets[m].order
           kept == Without(order, gone)
<1>1. order \in Seq(DOMAIN s.workspaces) /\ IsInjective(order)
  BY DEF Homes, Housed
<1>2. ToSet(kept) = ToSet(order) \ gone /\ IsInjective(kept) /\ kept \in Seq(DOMAIN s.workspaces)
  BY <1>1, WithoutKeeps
<1> HIDE DEF kept
<1>3. /\ DOMAIN t = DOMAIN s
      /\ t.focus = s.focus
      /\ t.columns = s.columns
      /\ t.windows = s.windows
      /\ t.workspaces = [w \in DOMAIN s.workspaces \ gone |-> s.workspaces[w]]
      /\ t.sets = [k \in DOMAIN s.sets \union {m} |->
                     IF k = m THEN [order |-> kept, active |-> s.sets[m].active] ELSE s.sets[k]]
  BY DEF Shape, RemoveFromSet, PutOrder, Put, Drop, kept
<1> HIDE DEF t
<1>4. Shape(t)
  BY <1>3, FS_Subset DEF Shape
<1>5. Homes(t)
  <2>1. ASSUME NEW k \in DOMAIN s.sets \ {m} PROVE Housed(t, k)
    <3>1. t.sets[k] = s.sets[k] /\ Housed(s, k)
      BY <1>3 DEF Homes
    <3>2. \A w \in ToSet(s.sets[k].order) : w \notin gone
      BY <3>1 DEF Homes, Housed
    <3>3. \A w \in ToSet(s.sets[k].order) : w \in DOMAIN t.workspaces
      BY <1>3, <3>1, <3>2 DEF Housed, ToSet
    <3>4. s.sets[k].order \in Seq(DOMAIN t.workspaces)
      BY <3>1, <3>3 DEF Housed, ToSet
    <3>5. QED
      BY <1>3, <3>1, <3>3, <3>4 DEF Housed
  <2>2. Housed(t, m)
    <3>1. t.sets[m].order = kept
      BY <1>3
    <3>2. \A w \in ToSet(kept) : w \in DOMAIN t.workspaces /\ t.workspaces[w].mon = m
      BY <1>2, <1>3, HousedExists
    <3>3. kept \in Seq(DOMAIN t.workspaces)
      BY <1>2, <3>2 DEF ToSet
    <3>4. QED
      BY <1>2, <3>1, <3>2, <3>3 DEF Housed
  <2>3. ASSUME NEW w \in DOMAIN t.workspaces
        PROVE  t.workspaces[w].mon \in DOMAIN t.sets /\ w \in ToSet(t.sets[t.workspaces[w].mon].order)
    <3>1. w \in DOMAIN s.workspaces /\ w \notin gone /\ t.workspaces[w] = s.workspaces[w]
      BY <1>3
    <3>2. s.workspaces[w].mon \in DOMAIN s.sets /\ w \in ToSet(s.sets[s.workspaces[w].mon].order)
      BY <3>1 DEF Homes
    <3>3. QED
      BY <1>2, <1>3, <3>1, <3>2
  <2>4. QED
    BY <1>3, <2>1, <2>2, <2>3 DEF Homes
<1>6. QED
  BY <1>3, <1>4, <1>5 DEF Nearby, t, kept

\* The new workspace is none the state knows.
LEMMA FreshWorkspaceIsNew ==
  ASSUME NEW s, Shape(s)
  PROVE  FreshWorkspace(s) \in Nat /\ FreshWorkspace(s) \notin DOMAIN s.workspaces
<1> DEFINE places == {s.windows[x].ws : x \in DOMAIN s.windows}
           f == [x \in DOMAIN s.windows |-> s.windows[x].ws]
<1>1. f \in Surjection(DOMAIN s.windows, places)
  BY DEF Surjection
<1>2. IsFiniteSet(places)
  BY <1>1, FS_Surjection DEF Shape
<1>3. IsFiniteSet({s.overview.sel, s.session.ws})
  <2>1. {s.overview.sel, s.session.ws} = ({} \union {s.overview.sel}) \union {s.session.ws}
    OBVIOUS
  <2>2. IsFiniteSet({} \union {s.overview.sel})
    BY FS_EmptySet, FS_AddElement
  <2>3. QED
    BY <2>1, <2>2, FS_AddElement
<1>4. IsFiniteSet(UsedWorkspaceIds(s))
  BY <1>2, <1>3, FS_Union DEF UsedWorkspaceIds, Shape
<1>5. QED
  BY <1>4, FreshIsFresh DEF FreshWorkspace, UsedWorkspaceIds

\* A new empty workspace is appended to the order of a monitor.
LEMMA AppendEmptyNearby ==
  ASSUME NEW s, NEW m \in DOMAIN s.sets, Shape(s), Homes(s)
  PROVE  /\ Nearby(s, AppendEmptyWorkspace(s, m), m)
         /\ ToSet(AppendEmptyWorkspace(s, m).sets[m].order)
              = ToSet(s.sets[m].order) \union {FreshWorkspace(s)}
         /\ AppendEmptyWorkspace(s, m).sets[m].order # <<>>
<1> DEFINE t == AppendEmptyWorkspace(s, m)
           v == FreshWorkspace(s)
           order == s.sets[m].order
           longer == Append(order, v)
<1>1. v \notin DOMAIN s.workspaces
  BY FreshWorkspaceIsNew
<1>2. order \in Seq(DOMAIN s.workspaces) /\ IsInjective(order)
  BY DEF Homes, Housed
<1> HIDE DEF v
<1>3. /\ longer \in Seq(DOMAIN s.workspaces \union {v})
      /\ DOMAIN longer = 1..(Len(order) + 1)
      /\ Len(order) \in Nat
      /\ DOMAIN order = 1..Len(order)
      /\ \A i \in 1..Len(order) : longer[i] = order[i]
      /\ longer[Len(order) + 1] = v
      /\ longer # <<>>
  BY <1>2
<1> HIDE DEF longer
<1>4. ToSet(longer) = ToSet(order) \union {v}
  <2>1. ASSUME NEW j \in DOMAIN longer PROVE longer[j] \in ToSet(order) \union {v}
    <3>1. j \in DOMAIN order \/ j = Len(order) + 1
      BY <1>3
    <3>2. QED
      BY <1>3, <3>1 DEF ToSet
  <2>2. ASSUME NEW i \in DOMAIN order PROVE order[i] \in ToSet(longer)
    <3>1. i \in DOMAIN longer /\ longer[i] = order[i]
      BY <1>3
    <3>2. QED
      BY <3>1 DEF ToSet
  <2>3. v \in ToSet(longer)
    <3>1. Len(order) + 1 \in DOMAIN longer
      BY <1>3
    <3>2. QED
      BY <1>3, <3>1 DEF ToSet
  <2> HIDE DEF order
  <2>4. QED
    BY <2>1, <2>2, <2>3 DEF ToSet
<1>5. \A i \in DOMAIN order : order[i] # v
  BY <1>1, <1>2
<1>6. IsInjective(longer)
  <2>1. SUFFICES ASSUME NEW a \in 1..(Len(order) + 1), NEW b \in 1..(Len(order) + 1),
                        longer[a] = longer[b], a < b
                 PROVE  FALSE
    BY <1>3 DEF IsInjective
  <2>2. a \in 1..Len(order) /\ longer[a] = order[a]
    BY <1>3, <2>1
  <2>3. CASE b = Len(order) + 1
    BY <1>3, <1>5, <2>1, <2>2, <2>3
  <2>4. CASE b # Len(order) + 1
    <3>1. b \in 1..Len(order) /\ longer[b] = order[b]
      BY <1>3, <2>1, <2>4
    <3>2. order[a] = order[b]
      BY <2>1, <2>2, <3>1
    <3>3. a = b
      BY <1>2, <1>3, <2>2, <3>1, <3>2 DEF IsInjective
    <3>4. QED
      BY <1>3, <2>1, <3>3
  <2>5. QED
    BY <2>3, <2>4
<1>7. /\ DOMAIN t = DOMAIN s
      /\ t.focus = s.focus
      /\ t.windows = s.windows
      /\ t.workspaces = [w \in DOMAIN s.workspaces \union {v} |->
                           IF w = v THEN EmptyWorkspace(m) ELSE s.workspaces[w]]
      /\ t.sets = [k \in DOMAIN s.sets \union {m} |->
                     IF k = m THEN [order |-> longer, active |-> s.sets[m].active] ELSE s.sets[k]]
  BY DEF Shape, AppendEmptyWorkspace, PutOrder, Put, longer, v
<1> HIDE DEF t
<1>8. Shape(t)
  BY <1>7, FS_AddElement DEF Shape, EmptyWorkspace
<1>9. Homes(t)
  <2>1. ASSUME NEW k \in DOMAIN s.sets \ {m} PROVE Housed(t, k)
    BY <1>1, <1>7 DEF Homes, Housed, ToSet
  <2>2. Housed(t, m)
    <3>1. t.sets[m].order = longer /\ DOMAIN t.workspaces = DOMAIN s.workspaces \union {v}
      BY <1>7
    <3>2. \A w \in ToSet(order) : w \in DOMAIN s.workspaces /\ s.workspaces[w].mon = m
      BY <1>2 DEF Homes, Housed, ToSet
    <3>3. \A w \in ToSet(longer) : t.workspaces[w].mon = m
      BY <1>4, <1>7, <3>2 DEF EmptyWorkspace
    <3>4. QED
      BY <1>3, <1>6, <3>1, <3>3 DEF Housed
  <2>3. ASSUME NEW w \in DOMAIN t.workspaces
        PROVE  t.workspaces[w].mon \in DOMAIN t.sets /\ w \in ToSet(t.sets[t.workspaces[w].mon].order)
    BY <1>4, <1>7 DEF Homes, EmptyWorkspace
  <2>4. QED
    BY <1>7, <2>1, <2>2, <2>3 DEF Homes
<1>10. t.sets[m] = [order |-> longer, active |-> s.sets[m].active]
  BY <1>7
<1>11. Nearby(s, t, m)
  BY <1>7, <1>8, <1>9, <1>10 DEF Nearby
<1>12. QED
  BY <1>3, <1>4, <1>10, <1>11 DEF t, v

\* The steps of normalising a monitor compose ...
LEMMA NearbyTransitive ==
  ASSUME NEW s, NEW t, NEW u, NEW m \in DOMAIN s.sets, Nearby(s, t, m), Nearby(t, u, m)
  PROVE  Nearby(s, u, m)
BY DEF Nearby

\* ... and leave that monitor to be settled.
LEMMA NearbyRing ==
  ASSUME NEW s, NEW t, NEW m \in DOMAIN s.sets, NEW U, Ring(s, U), Nearby(s, t, m)
  PROVE  Ring(t, U \union {m})
BY DEF Nearby, Ring, Settled

\* An empty order gets a workspace.
LEMMA NonEmptyNearby ==
  ASSUME NEW s, NEW m \in DOMAIN s.sets, Shape(s), Homes(s)
  PROVE  /\ Nearby(s, NonEmptySet(s, m), m)
         /\ ToSet(s.sets[m].order) \subseteq ToSet(NonEmptySet(s, m).sets[m].order)
         /\ NonEmptySet(s, m).sets[m].order # <<>>
<1>1. CASE s.sets[m].order = <<>>
  BY <1>1, AppendEmptyNearby DEF NonEmptySet
<1>2. CASE s.sets[m].order # <<>>
  BY <1>2 DEF NonEmptySet, Nearby
<1>3. QED
  BY <1>1, <1>2

\* Retaining keeps the active workspace, and of the empty ones only the active
\* and the last.
LEMMA RetainNearby ==
  ASSUME NEW s, NEW m \in DOMAIN s.sets, Shape(s), Homes(s), s.sets[m].order # <<>>
  PROVE  LET r == RetainOccupied(s, m)
         IN  /\ Nearby(s, r, m)
             /\ r.sets[m].order # <<>>
             /\ s.sets[m].active \in ToSet(s.sets[m].order) =>
                  s.sets[m].active \in ToSet(r.sets[m].order)
             /\ \A w \in ToSet(r.sets[m].order) :
                  IsWorkspaceEmpty(r, w) =>
                    w = s.sets[m].active \/ w = Last(r.sets[m].order)
<1> DEFINE order == s.sets[m].order
           gone == StrayEmpties(s, m)
           r == RetainOccupied(s, m)
<1>1. gone \in SUBSET ToSet(order)
  BY DEF StrayEmpties
<1>2. /\ Nearby(s, r, m)
      /\ r.sets[m].order = Without(order, gone)
      /\ \A w \in DOMAIN s.workspaces \ gone : r.workspaces[w] = s.workspaces[w]
      /\ r.columns = s.columns
  BY <1>1, RemoveFromSetNearby DEF RetainOccupied
<1> HIDE DEF r
<1>3. order \in Seq(DOMAIN s.workspaces)
  BY DEF Homes, Housed
<1>4. /\ ToSet(r.sets[m].order) = ToSet(order) \ gone
      /\ r.sets[m].order # <<>>
      /\ Last(r.sets[m].order) = Last(order)
  <2>1. Last(order) \notin gone /\ order # <<>>
    BY DEF StrayEmpties
  <2> HIDE DEF order, gone
  <2>2. /\ ToSet(Without(order, gone)) = ToSet(order) \ gone
        /\ Without(order, gone) # <<>>
        /\ Last(Without(order, gone)) = Last(order)
    BY <1>3, <2>1, WithoutKeeps
  <2>3. QED
    BY <1>2, <2>2
<1>5. ASSUME NEW w \in ToSet(r.sets[m].order), IsWorkspaceEmpty(r, w)
      PROVE  w = s.sets[m].active \/ w = Last(r.sets[m].order)
  <2>1. w \in ToSet(order) /\ w \notin gone /\ w \in DOMAIN s.workspaces
    BY <1>4, <1>5, HousedExists
  <2>2. w \in DOMAIN r.workspaces
    BY <1>2, <1>5, HousedExists DEF Nearby
  <2>3. IsWorkspaceEmpty(s, w)
    BY <1>2, <1>5, <2>1, <2>2 DEF IsWorkspaceEmpty
  <2>4. QED
    BY <1>4, <2>1, <2>3 DEF StrayEmpties
<1>6. s.sets[m].active \notin gone
  BY DEF StrayEmpties
<1>7. QED
  BY <1>2, <1>4, <1>5, <1>6 DEF r

\* Collapsing the tail never takes the active workspace, nor all of them.
LEMMA CollapseNearby ==
  ASSUME NEW s, NEW m \in DOMAIN s.sets, Shape(s), Homes(s), s.sets[m].order # <<>>,
         \A w \in ToSet(s.sets[m].order) :
           IsWorkspaceEmpty(s, w) => w = s.sets[m].active \/ w = Last(s.sets[m].order)
  PROVE  LET c == CollapseTail(s, m)
         IN  /\ Nearby(s, c, m)
             /\ c.sets[m].order # <<>>
             /\ s.sets[m].active \in ToSet(s.sets[m].order) =>
                  s.sets[m].active \in ToSet(c.sets[m].order)
<1> DEFINE order == s.sets[m].order
           gone == CollapsedTail(s, m)
           c == CollapseTail(s, m)
<1>1. /\ order \in Seq(DOMAIN s.workspaces)
      /\ IsInjective(order)
      /\ DOMAIN order = 1..Len(order)
      /\ Len(order) \in Nat \ {0}
  BY DEF Homes, Housed
<1>2. \A i, j \in 1..Len(order) : order[i] = order[j] => i = j
  BY <1>1 DEF IsInjective
<1>3. \A w \in gone : \E k \in 2..Len(order) :
        order[k] = w /\ IsWorkspaceEmpty(s, order[k - 1])
  <2>1. TAKE w \in gone
  <2>2. PICK k \in 2..Len(order) : k - 1 \in EmptySuffix(s, m) /\ order[k] = w
    BY DEF CollapsedTail
  <2>3. k - 1 \in (k - 1)..Len(order)
    BY <1>1
  <2>4. QED
    BY <2>2, <2>3 DEF EmptySuffix
<1>4. gone \in SUBSET ToSet(order)
  BY <1>1, <1>3 DEF ToSet
<1>5. order[1] \notin gone
  BY <1>1, <1>2, <1>3
<1>6. s.sets[m].active \notin gone
  <2>1. SUFFICES ASSUME s.sets[m].active \in gone PROVE FALSE
    OBVIOUS
  <2>2. PICK k \in 2..Len(order) :
          order[k] = s.sets[m].active /\ IsWorkspaceEmpty(s, order[k - 1])
    BY <1>3, <2>1
  <2>3. k - 1 \in 1..Len(order) /\ Len(order) \in 1..Len(order)
    BY <1>1
  <2>4. order[k - 1] = order[k] \/ order[k - 1] = order[Len(order)]
    BY <1>1, <2>2, <2>3 DEF ToSet, Last
  <2>5. QED
    BY <1>1, <1>2, <2>3, <2>4
<1>7. Nearby(s, c, m) /\ c.sets[m].order = Without(order, gone)
  BY <1>4, RemoveFromSetNearby DEF CollapseTail
<1>8. ToSet(Without(order, gone)) = ToSet(order) \ gone
  BY <1>1, WithoutKeeps
<1>9. order[1] \in ToSet(c.sets[m].order)
  BY <1>1, <1>5, <1>7, <1>8 DEF ToSet
<1>10. c.sets[m].order # <<>>
  BY <1>9 DEF ToSet
<1>11. QED
  BY <1>6, <1>7, <1>8, <1>10

\* An occupied tail gets an empty workspace after it.
LEMMA EnsureTailNearby ==
  ASSUME NEW s, NEW m \in DOMAIN s.sets, Shape(s), Homes(s), s.sets[m].order # <<>>
  PROVE  /\ Nearby(s, EnsureEmptyTail(s, m), m)
         /\ EnsureEmptyTail(s, m).sets[m].order # <<>>
         /\ ToSet(s.sets[m].order) \subseteq ToSet(EnsureEmptyTail(s, m).sets[m].order)
<1>1. CASE IsWorkspaceEmpty(s, Last(s.sets[m].order))
  BY <1>1 DEF EnsureEmptyTail, Nearby
<1>2. CASE ~ IsWorkspaceEmpty(s, Last(s.sets[m].order))
  BY <1>2, AppendEmptyNearby DEF EnsureEmptyTail
<1>3. QED
  BY <1>1, <1>2

\* The final loop names the monitor the workspaces of the order already name.
LEMMA RefreshAlike ==
  ASSUME NEW s, NEW m \in DOMAIN s.sets, Shape(s), Homes(s)
  PROVE  Alike(s, RefreshWorkspaces(s, m))
<1>1. \A w \in ToSet(s.sets[m].order) : w \in DOMAIN s.workspaces /\ s.workspaces[w].mon = m
  BY HousedExists
<1>2. QED
  BY <1>1 DEF Shape, Alike, RefreshWorkspaces

\* Writing both copies of the active workspace settles a monitor.
LEMMA PutActiveRing ==
  ASSUME NEW s, NEW U, Ring(s, U), NEW m \in DOMAIN s.sets, NEW w \in ToSet(s.sets[m].order)
  PROVE  LET t == PutActive(s, m, w)
         IN  /\ Ring(t, U \ {m})
             /\ DOMAIN t.sets = DOMAIN s.sets
             /\ \A k \in DOMAIN s.sets \ {m} : t.sets[k] = s.sets[k]
             /\ t.sets[m] = [order |-> s.sets[m].order, active |-> w]
             /\ t.workspaces = s.workspaces
<1> DEFINE t == PutActive(s, m, w)
<1>1. /\ DOMAIN t = DOMAIN s
      /\ t.workspaces = s.workspaces
      /\ t.windows = s.windows
      /\ t.sets = [k \in DOMAIN s.sets \union {m} |->
                     IF k = m THEN [order |-> s.sets[m].order, active |-> w] ELSE s.sets[k]]
      /\ DOMAIN t.focus = DOMAIN s.focus
      /\ t.focus.activeBy = [k \in DOMAIN s.focus.activeBy \union {m} |->
                               IF k = m THEN w ELSE s.focus.activeBy[k]]
  BY DEF Ring, Shape, PutActive, Put
<1> HIDE DEF t
<1>2. Shape(t)
  BY <1>1 DEF Ring, Shape
<1>3. \A k \in DOMAIN s.sets : t.sets[k].order = s.sets[k].order
  BY <1>1
<1>4. Homes(t)
  BY <1>1, <1>3 DEF Ring, Homes, Housed
<1>5. DOMAIN t.focus.activeBy = DOMAIN t.sets
  BY <1>1 DEF Ring
<1>6. \A k \in DOMAIN t.sets \ (U \ {m}) : Settled(t, k)
  BY <1>1 DEF Ring, Settled
<1>7. QED
  BY <1>1, <1>2, <1>4, <1>5, <1>6 DEF Ring, t

\* normalize_workspace_set puts monitor m in order again: it keeps the active
\* workspace when it is one of the monitor's, and touches no other monitor.
LEMMA NormalizeRing ==
  ASSUME NEW s, NEW U, Ring(s, U), NEW m \in DOMAIN s.sets
  PROVE  LET n == NormalizeWorkspaceSet(s, m)
         IN  /\ Ring(n, U \ {m})
             /\ DOMAIN n.sets = DOMAIN s.sets
             /\ \A k \in DOMAIN s.sets \ {m} : n.sets[k] = s.sets[k]
             /\ s.sets[m].active \in ToSet(s.sets[m].order) =>
                  n.sets[m].active = s.sets[m].active
<1> DEFINE a == s.sets[m].active
           e == NonEmptySet(s, m)
           r == RetainOccupied(e, m)
           c == CollapseTail(r, m)
           n == EnsureEmptyTail(c, m)
           f == RefreshWorkspaces(n, m)
           active == IF f.sets[m].active \in ToSet(f.sets[m].order)
                     THEN f.sets[m].active ELSE f.sets[m].order[1]
           g == PutActive(f, m, active)
<1>1. NormalizeWorkspaceSet(s, m) = g
  BY DEF NormalizeWorkspaceSet, ChooseActive
<1>2. /\ Nearby(s, e, m) /\ e.sets[m].order # <<>>
      /\ a \in ToSet(s.sets[m].order) => a \in ToSet(e.sets[m].order)
  BY NonEmptyNearby DEF Ring
<1> HIDE DEF e
<1>3. m \in DOMAIN e.sets /\ Shape(e) /\ Homes(e) /\ e.sets[m].active = a
  BY <1>2 DEF Nearby
<1>4. /\ Nearby(e, r, m) /\ r.sets[m].order # <<>>
      /\ a \in ToSet(e.sets[m].order) => a \in ToSet(r.sets[m].order)
      /\ \A w \in ToSet(r.sets[m].order) :
           IsWorkspaceEmpty(r, w) => w = a \/ w = Last(r.sets[m].order)
  BY <1>2, <1>3, RetainNearby
<1> HIDE DEF r
<1>5. m \in DOMAIN r.sets /\ Shape(r) /\ Homes(r) /\ r.sets[m].active = a
  BY <1>3, <1>4 DEF Nearby
<1>6. /\ Nearby(r, c, m) /\ c.sets[m].order # <<>>
      /\ a \in ToSet(r.sets[m].order) => a \in ToSet(c.sets[m].order)
  BY <1>4, <1>5, CollapseNearby
<1> HIDE DEF c
<1>7. m \in DOMAIN c.sets /\ Shape(c) /\ Homes(c) /\ c.sets[m].active = a
  BY <1>5, <1>6 DEF Nearby
<1>8. /\ Nearby(c, n, m) /\ n.sets[m].order # <<>>
      /\ a \in ToSet(c.sets[m].order) => a \in ToSet(n.sets[m].order)
  BY <1>6, <1>7, EnsureTailNearby
<1> HIDE DEF n
<1>9. Nearby(s, n, m) /\ m \in DOMAIN n.sets /\ n.sets[m].active = a
  BY <1>2, <1>3, <1>4, <1>5, <1>6, <1>7, <1>8, NearbyTransitive DEF Nearby
<1>10. Ring(n, U \union {m})
  BY <1>9, NearbyRing
<1>11. Alike(n, f)
  BY <1>9, <1>10, RefreshAlike DEF Ring
<1> HIDE DEF f
<1>12. Ring(f, U \union {m}) /\ f.sets = n.sets
  BY <1>10, <1>11, AlikeRing DEF Alike
<1>13. active \in ToSet(f.sets[m].order)
  <2>1. f.sets[m].order \in Seq(DOMAIN f.workspaces) /\ f.sets[m].order # <<>>
    BY <1>8, <1>9, <1>12 DEF Ring, Homes, Housed
  <2>2. 1 \in DOMAIN f.sets[m].order
    BY <2>1
  <2>3. QED
    BY <2>2 DEF ToSet
<1>14. a \in ToSet(s.sets[m].order) => active = a
  BY <1>2, <1>4, <1>6, <1>8, <1>9, <1>12
<1> HIDE DEF active
<1>15. /\ Ring(g, (U \union {m}) \ {m})
       /\ DOMAIN g.sets = DOMAIN f.sets
       /\ \A k \in DOMAIN f.sets \ {m} : g.sets[k] = f.sets[k]
       /\ g.sets[m] = [order |-> f.sets[m].order, active |-> active]
  <2>1. m \in DOMAIN f.sets /\ Ring(f, U \union {m})
    BY <1>9, <1>12
  <2>2. QED
    BY <1>13, <2>1, PutActiveRing
<1> HIDE DEF g
<1>16. (U \union {m}) \ {m} = U \ {m}
  OBVIOUS
<1>17. /\ DOMAIN g.sets = DOMAIN s.sets
       /\ \A k \in DOMAIN s.sets \ {m} : g.sets[k] = s.sets[k]
       /\ g.sets[m].active = active
  BY <1>9, <1>12, <1>15 DEF Nearby
<1>18. QED
  BY <1>1, <1>14, <1>15, <1>16, <1>17

---------------------------------------------------------------------------
(* Focus. *)

\* The invariant between handlers.
Sound(s) == Ring(s, {})

\* The shape is part of the invariant.
LEMMA SoundShape ==
  ASSUME NEW s, Sound(s)
  PROVE  Shape(s)
BY DEF Sound, Ring

\* What is alike a sound state is sound.
LEMMA AlikeSound ==
  ASSUME NEW s, NEW t, Sound(s), Alike(s, t)
  PROVE  Sound(t)
BY AlikeRing DEF Sound

\* Workspaces and their monitors, as the handlers look them up.
LEMMA SoundLookups ==
  ASSUME NEW s, Sound(s)
  PROVE  /\ \A w \in DOMAIN s.workspaces :
              /\ s.workspaces[w].mon \in DOMAIN s.sets
              /\ w \in ToSet(s.sets[s.workspaces[w].mon].order)
         /\ \A m \in DOMAIN s.sets :
              /\ ActiveWorkspace(s, m) = s.sets[m].active
              /\ s.sets[m].active \in ToSet(s.sets[m].order)
              /\ s.sets[m].order \in Seq(DOMAIN s.workspaces)
              /\ IsInjective(s.sets[m].order)
              /\ \A w \in ToSet(s.sets[m].order) :
                   w \in DOMAIN s.workspaces /\ s.workspaces[w].mon = m
<1>1. \A m \in DOMAIN s.sets : \A w \in ToSet(s.sets[m].order) :
        w \in DOMAIN s.workspaces /\ s.workspaces[w].mon = m
  BY HousedExists DEF Sound, Ring
<1>2. QED
  BY <1>1 DEF Sound, Ring, Homes, Housed, Settled, ActiveWorkspace

\* Writing both copies of the active workspace.
LEMMA PutActiveSound ==
  ASSUME NEW s, Sound(s), NEW m \in DOMAIN s.sets, NEW w \in ToSet(s.sets[m].order)
  PROVE  /\ Sound(PutActive(s, m, w))
         /\ DOMAIN PutActive(s, m, w).sets = DOMAIN s.sets
         /\ PutActive(s, m, w).workspaces = s.workspaces
<1> DEFINE t == PutActive(s, m, w)
           U == {}
<1>1. Ring(s, U) /\ U \ {m} = {}
  BY DEF Sound
<1> HIDE DEF U
<1>2. /\ Ring(t, U \ {m})
      /\ DOMAIN t.sets = DOMAIN s.sets
      /\ t.workspaces = s.workspaces
  <2>1. Ring(t, U \ {m})
    BY <1>1, PutActiveRing
  <2>2. DOMAIN t.sets = DOMAIN s.sets
    BY DEF Sound, Ring, Shape, PutActive, Put
  <2>3. t.workspaces = s.workspaces
    BY DEF Sound, Ring, Shape, PutActive
  <2>4. QED
    BY <2>1, <2>2, <2>3
<1>3. QED
  BY <1>1, <1>2 DEF Sound

\* Normalising any monitor of a sound state keeps every active workspace.
LEMMA NormalizeSound ==
  ASSUME NEW s, Sound(s), NEW m \in DOMAIN s.sets
  PROVE  LET n == NormalizeWorkspaceSet(s, m)
         IN  /\ Sound(n)
             /\ DOMAIN n.sets = DOMAIN s.sets
             /\ \A k \in DOMAIN s.sets : n.sets[k].active = s.sets[k].active
<1>1. Ring(s, {}) /\ {} \ {m} = {}
  BY DEF Sound
<1> DEFINE n == NormalizeWorkspaceSet(s, m)
<1>2. /\ Ring(n, {} \ {m})
      /\ DOMAIN n.sets = DOMAIN s.sets
      /\ \A k \in DOMAIN s.sets \ {m} : n.sets[k] = s.sets[k]
      /\ s.sets[m].active \in ToSet(s.sets[m].order) => n.sets[m].active = s.sets[m].active
  BY <1>1, NormalizeRing
<1>3. s.sets[m].active \in ToSet(s.sets[m].order)
  BY SoundLookups
<1>4. QED
  BY <1>1, <1>2, <1>3 DEF Sound

\* set_focus_to_window on a workspace and its own monitor.
LEMMA FocusWindowSound ==
  ASSUME NEW s, Sound(s), NEW w \in DOMAIN s.workspaces, NEW m, m = s.workspaces[w].mon,
         NEW x, NEW c
  PROVE  Sound(FocusWindow(s, m, w, x, c)) /\ DOMAIN FocusWindow(s, m, w, x, c).sets = DOMAIN s.sets
<1> DEFINE r == Remember(s, w, x, c)
           k == SelectInColumn(r, c, x)
           a == PutActive(k, m, w)
<1>1. Alike(s, r)
  BY RememberAlike, SoundShape
<1> HIDE DEF r
<1>2. Alike(r, k)
  BY <1>1, SelectInColumnAlike DEF Alike
<1> HIDE DEF k
<1>3. Alike(s, k)
  BY <1>1, <1>2, AlikeTransitive
<1>4. Sound(k) /\ k.sets = s.sets
  BY <1>3, AlikeSound DEF Alike
<1>5. m \in DOMAIN k.sets /\ w \in ToSet(k.sets[m].order)
  BY <1>4, SoundLookups
<1>6. Sound(a) /\ DOMAIN a.sets = DOMAIN s.sets
  BY <1>4, <1>5, PutActiveSound
<1> HIDE DEF a
<1>7. Alike(a, SetFocus(a, m, x, c))
  BY <1>6, SetFocusAlike, SoundShape
<1>8. Sound(SetFocus(a, m, x, c)) /\ DOMAIN SetFocus(a, m, x, c).sets = DOMAIN s.sets
  BY <1>6, <1>7, AlikeSound DEF Alike
<1>9. FocusWindow(s, m, w, x, c) = SetFocus(a, m, x, c)
  BY DEF FocusWindow, a, k, r
<1>10. QED
  BY <1>8, <1>9

\* set_active_workspace_without_focus on a workspace of the monitor.
LEMMA FocusNoWindowSound ==
  ASSUME NEW s, Sound(s), NEW m \in DOMAIN s.sets, NEW w \in ToSet(s.sets[m].order)
  PROVE  Sound(FocusNoWindow(s, m, w)) /\ DOMAIN FocusNoWindow(s, m, w).sets = DOMAIN s.sets
<1> DEFINE a == PutActive(s, m, w)
<1>1. Sound(a) /\ DOMAIN a.sets = DOMAIN s.sets
  BY PutActiveSound
<1> HIDE DEF a
<1>2. Alike(a, SetFocus(a, m, None, None))
  BY <1>1, SetFocusAlike, SoundShape
<1>3. QED
  BY <1>1, <1>2, AlikeSound DEF FocusNoWindow, a, Alike

\* The mark of the overview moves.
LEMMA SyncOverviewSound ==
  ASSUME NEW s, Sound(s), NEW m
  PROVE  Sound(SyncOverview(s, m)) /\ DOMAIN SyncOverview(s, m).sets = DOMAIN s.sets
<1>1. Alike(s, SyncOverview(s, m))
  BY SoundShape DEF SyncOverview, Alike, Shape
<1>2. QED
  BY <1>1, AlikeSound DEF Alike

\* activate_workspace on a workspace of the monitor.
LEMMA ActivateWorkspaceSound ==
  ASSUME NEW s, Sound(s), NEW m \in DOMAIN s.sets, NEW w \in ToSet(s.sets[m].order)
  PROVE  /\ Sound(ActivateWorkspace(s, m, w))
         /\ DOMAIN ActivateWorkspace(s, m, w).sets = DOMAIN s.sets
<1> DEFINE target == WorkspaceFocusTarget(s, w)
           f == IF target.win # None THEN FocusWindow(s, m, w, target.win, target.col)
                ELSE FocusNoWindow(s, m, w)
<1>1. w \in DOMAIN s.workspaces /\ s.workspaces[w].mon = m
  BY SoundLookups
<1>2. Sound(f) /\ DOMAIN f.sets = DOMAIN s.sets
  <2>1. CASE target.win # None
    BY <1>1, <2>1, FocusWindowSound
  <2>2. CASE target.win = None
    BY <2>2, FocusNoWindowSound
  <2>3. QED
    BY <2>1, <2>2
<1> HIDE DEF f
<1>3. QED
  BY <1>2, SyncOverviewSound DEF ActivateWorkspace, f

\* Settle leaves the state, with or without an error.
LEMMA SettleState ==
  ASSUME NEW s, NEW w
  PROVE  Settle(s, w).st = s
BY DEF Settle, Ok, Err

---------------------------------------------------------------------------
(* Columns, floating layers and window records.                            *)

\* A strip or a floating layer changes.
LEMMA UpdatedWorkspaceAlike ==
  ASSUME NEW s, Shape(s), NEW w \in DOMAIN s.workspaces, NEW cols, NEW flt
  PROVE  /\ Alike(s, SetWorkspace(s, w, [s.workspaces[w] EXCEPT !.cols = cols]))
         /\ Alike(s, SetWorkspace(s, w, [s.workspaces[w] EXCEPT !.flt = flt]))
BY SetWorkspaceAlike DEF Shape

\* A new column enters a strip.
LEMMA InsertNewColumnAlike ==
  ASSUME NEW s, Shape(s), NEW w \in DOMAIN s.workspaces, NEW x, NEW mode, NEW at
  PROVE  Alike(s, InsertNewColumn(s, w, x, mode, at))
<1> DEFINE k == SetColumn(s, FreshColumn(s), NewColumn(mode, x))
           cols == InsertAt(s.workspaces[w].cols, at, FreshColumn(s))
           r == [s.workspaces[w] EXCEPT !.cols = cols]
<1>1. Alike(s, k)
  BY SetColumnAlike
<1>2. r.mon = s.workspaces[w].mon /\ DOMAIN r = DOMAIN s.workspaces[w]
  BY DEF Shape
<1>3. k.workspaces = s.workspaces
  BY DEF Shape, SetColumn
<1> HIDE DEF k, r
<1>4. Alike(k, SetWorkspace(k, w, r))
  BY <1>1, <1>2, <1>3, SetWorkspaceAlike DEF Alike
<1>5. QED
  BY <1>1, <1>4, AlikeTransitive DEF InsertNewColumn, k, r

\* A window joins a column.
LEMMA JoinColumnAlike ==
  ASSUME NEW s, Shape(s), NEW c, NEW x
  PROVE  Alike(s, JoinColumn(s, c, x))
BY SetColumnAlike DEF JoinColumn

\* A window enters a floating layer.
LEMMA PushFloatingAlike ==
  ASSUME NEW s, Shape(s), NEW w \in DOMAIN s.workspaces, NEW x
  PROVE  Alike(s, PushFloating(s, w, x))
BY UpdatedWorkspaceAlike DEF PushFloating

\* A window leaves its column or its floating layer.
LEMMA DetachWindowAlike ==
  ASSUME NEW s, Shape(s), NEW x, s.windows[x].ws \in DOMAIN s.workspaces
  PROVE  Alike(s, DetachWindow(s, x))
<1> DEFINE c == s.windows[x].col
           w == s.windows[x].ws
<1>1. Alike(s, LeaveFloating(s, w, x))
  BY UpdatedWorkspaceAlike DEF LeaveFloating
<1>2. Alike(s, LeaveSharedColumn(s, c, x))
  BY SetColumnAlike DEF LeaveSharedColumn
<1>3. Alike(s, LeaveOwnColumn(s, w, c))
  <2> DEFINE k == [s EXCEPT !.columns = Drop(s.columns, {c})]
             r == [s.workspaces[w] EXCEPT !.cols = Without(s.workspaces[w].cols, {c})]
  <2>1. Alike(s, k) /\ k.workspaces = s.workspaces
    BY DEF Shape, Alike
  <2>2. r.mon = s.workspaces[w].mon /\ DOMAIN r = DOMAIN s.workspaces[w]
    BY DEF Shape
  <2>3. LeaveOwnColumn(s, w, c) = SetWorkspace(k, w, r)
    BY DEF LeaveOwnColumn
  <2> HIDE DEF k, r
  <2>4. Alike(k, SetWorkspace(k, w, r))
    <3>1. Shape(k) /\ w \in DOMAIN k.workspaces
      BY <2>1 DEF Alike
    <3>2. r.mon = k.workspaces[w].mon /\ DOMAIN r = DOMAIN k.workspaces[w]
      BY <2>1, <2>2
    <3>3. QED
      BY <3>1, <3>2, SetWorkspaceAlike
  <2>5. QED
    BY <2>1, <2>3, <2>4, AlikeTransitive
<1>4. QED
  BY <1>1, <1>2, <1>3 DEF DetachWindow

\* A window returns to its place.
LEMMA RestoreWindowAlike ==
  ASSUME NEW s, Shape(s), NEW x, NEW target, target.ws \in DOMAIN s.workspaces
  PROVE  Alike(s, RestoreWindow(s, x, target).st)
<1>1. CASE target.layer = "Floating"
  BY <1>1, PushFloatingAlike DEF RestoreWindow
<1>2. CASE target.layer # "Floating" /\ target.col \in ToSet(s.workspaces[target.ws].cols)
  BY <1>2, JoinColumnAlike DEF RestoreWindow
<1>3. CASE target.layer # "Floating" /\ target.col \notin ToSet(s.workspaces[target.ws].cols)
  BY <1>3, InsertNewColumnAlike DEF RestoreWindow
<1>4. QED
  BY <1>1, <1>2, <1>3

\* A discovered window is placed.
LEMMA PlaceDiscoveredAlike ==
  ASSUME NEW s, Shape(s), NEW w \in DOMAIN s.workspaces, NEW x, NEW d
  PROVE  Alike(s, PlaceDiscovered(s, w, x, d).st)
<1>1. CASE ~d.managed
  BY <1>1, AlikeReflexive DEF PlaceDiscovered
<1>2. CASE d.managed /\ d.layer # "Tiled"
  BY <1>2, PushFloatingAlike DEF PlaceDiscovered
<1>3. CASE d.managed /\ d.layer = "Tiled"
  <2>1. PlaceDiscovered(s, w, x, d) = PlaceTiled(s, w, x, d)
    BY <1>3 DEF PlaceDiscovered
  <2>2. Alike(s, PlaceTiled(s, w, x, d).st)
    BY JoinColumnAlike, InsertNewColumnAlike DEF PlaceTiled
  <2>3. QED
    BY <2>1, <2>2
<1>4. QED
  BY <1>1, <1>2, <1>3

\* A destroyed window is forgotten.
LEMMA ForgetAlike ==
  ASSUME NEW s, Shape(s), NEW w \in DOMAIN s.workspaces, NEW x, NEW c
  PROVE  Alike(s, Forget(s, w, x, c))
<1> DEFINE k == [s EXCEPT !.windows = Drop(s.windows, {x})]
           r == [s.workspaces[w] EXCEPT
                   !.remWin = IF s.workspaces[w].remWin = x THEN None ELSE s.workspaces[w].remWin,
                   !.remCol = IF s.workspaces[w].remCol = c /\ c \notin ToSet(s.workspaces[w].cols)
                              THEN None ELSE s.workspaces[w].remCol]
<1>1. Alike(s, k) /\ k.workspaces = s.workspaces
  BY FS_Subset DEF Shape, Alike, Drop
<1>2. r.mon = s.workspaces[w].mon /\ DOMAIN r = DOMAIN s.workspaces[w]
  BY DEF Shape
<1> HIDE DEF k, r
<1>3. Alike(k, SetWorkspace(k, w, r))
  BY <1>1, <1>2, SetWorkspaceAlike DEF Alike
<1>4. QED
  BY <1>1, <1>3, AlikeTransitive DEF Forget, k, r

\* A column changes workspace.
LEMMA TransferColumnAlike ==
  ASSUME NEW s, Shape(s), NEW c, NEW from \in DOMAIN s.workspaces, NEW to \in DOMAIN s.workspaces,
         NEW after
  PROVE  Alike(s, TransferColumn(s, c, from, to, after))
<1> DEFINE wins == ToSet(s.columns[c].wins)
           x == ColumnActiveWindow(s.columns[c])
           r1 == ForgetColumn(s.workspaces[from], c, wins)
           left == SetWorkspace(s, from, r1)
           r2 == TakeColumn(left.workspaces[to], c, after, x)
           t == SetWorkspace(left, to, r2)
           windows == [k \in DOMAIN s.windows |->
                         IF k \in wins THEN [s.windows[k] EXCEPT !.ws = to, !.col = c]
                         ELSE s.windows[k]]
<1>1. r1.mon = s.workspaces[from].mon /\ DOMAIN r1 = DOMAIN s.workspaces[from]
  BY DEF Shape, ForgetColumn
<1>2. left.windows = s.windows
  BY DEF Shape, SetWorkspace
<1> HIDE DEF r1, wins, x
<1>3. Alike(s, left)
  BY <1>1, SetWorkspaceAlike
<1> HIDE DEF left
<1>4. r2.mon = left.workspaces[to].mon /\ DOMAIN r2 = DOMAIN left.workspaces[to]
  BY <1>3 DEF Shape, Alike, TakeColumn
<1>5. t.windows = s.windows
  BY <1>2, <1>3 DEF Alike, Shape, SetWorkspace
<1> HIDE DEF r2
<1>6. Alike(left, t)
  BY <1>3, <1>4, SetWorkspaceAlike DEF Alike
<1> HIDE DEF t
<1>7. Alike(s, t)
  BY <1>3, <1>6, AlikeTransitive
<1>8. Alike(t, [t EXCEPT !.windows = windows])
  BY <1>5, <1>7 DEF Alike, Shape
<1>9. Alike(s, [t EXCEPT !.windows = windows])
  BY <1>7, <1>8, AlikeTransitive
<1>10. QED
  BY <1>9 DEF TransferColumn, wins, x, r1, left, r2, t

---------------------------------------------------------------------------
(* The handlers of platform events.                                        *)

\* The two errors of Settle leave the state.
LEMMA SettleSound ==
  ASSUME NEW s, Sound(s), NEW w
  PROVE  Sound(Settle(s, w).st)
BY SettleState

\* A monitor is plugged in, before its set is normalised.
Plugged(s, m) ==
  LET v == FreshWorkspace(s)
  IN  [s EXCEPT
         !.workspaces = Put(s.workspaces, v, EmptyWorkspace(m)),
         !.sets = Put(s.sets, m, [order |-> <<v>>, active |-> v]),
         !.focus = [s.focus EXCEPT
                      !.activeBy = Put(s.focus.activeBy, m, v),
                      !.mon = IF s.focus.mon = None THEN m ELSE s.focus.mon]]

\* It has one workspace, which it shows.
LEMMA PluggedSound ==
  ASSUME NEW s, Sound(s), NEW m, m \notin DOMAIN s.sets
  PROVE  Sound(Plugged(s, m)) /\ m \in DOMAIN Plugged(s, m).sets
<1> DEFINE v == FreshWorkspace(s)
           t == Plugged(s, m)
<1>1. v \notin DOMAIN s.workspaces
  BY FreshWorkspaceIsNew, SoundShape
<1> HIDE DEF v
<1>2. /\ DOMAIN t = DOMAIN s
      /\ DOMAIN t.focus = DOMAIN s.focus
      /\ t.windows = s.windows
      /\ t.workspaces = [w \in DOMAIN s.workspaces \union {v} |->
                           IF w = v THEN EmptyWorkspace(m) ELSE s.workspaces[w]]
      /\ t.sets = [k \in DOMAIN s.sets \union {m} |->
                     IF k = m THEN [order |-> <<v>>, active |-> v] ELSE s.sets[k]]
      /\ t.focus.activeBy = [k \in DOMAIN s.focus.activeBy \union {m} |->
                               IF k = m THEN v ELSE s.focus.activeBy[k]]
  BY SoundShape DEF Shape, Put, Plugged, v
<1> HIDE DEF t
<1>3. Shape(t)
  <2>1. Shape(s) /\ DOMAIN t.workspaces = DOMAIN s.workspaces \union {v}
    BY <1>2, SoundShape
  <2>2. IsFiniteSet(DOMAIN t.workspaces)
    BY <2>1, FS_AddElement DEF Shape
  <2>3. QED
    BY <1>2, <2>1, <2>2 DEF Shape, EmptyWorkspace
<1>4. /\ <<v>> \in Seq(DOMAIN t.workspaces)
      /\ ToSet(<<v>>) = {v}
      /\ IsInjective(<<v>>)
  BY <1>2 DEF ToSet, IsInjective
<1>5. Homes(t)
  <2>1. ASSUME NEW k \in DOMAIN s.sets PROVE Housed(t, k)
    <3>1. k # m /\ t.sets[k] = s.sets[k]
      BY <1>2
    <3>2. /\ s.sets[k].order \in Seq(DOMAIN s.workspaces)
          /\ IsInjective(s.sets[k].order)
          /\ \A w \in ToSet(s.sets[k].order) : w \in DOMAIN s.workspaces /\ s.workspaces[w].mon = k
      BY SoundLookups
    <3>3. QED
      BY <1>1, <1>2, <3>1, <3>2 DEF Housed
  <2>2. Housed(t, m)
    <3>1. t.sets[m].order = <<v>> /\ t.workspaces[v] = EmptyWorkspace(m)
      BY <1>2
    <3>2. t.workspaces[v].mon = m
      BY <3>1 DEF EmptyWorkspace
    <3>3. QED
      BY <1>4, <3>1, <3>2 DEF Housed
  <2>3. ASSUME NEW w \in DOMAIN t.workspaces
        PROVE  t.workspaces[w].mon \in DOMAIN t.sets /\ w \in ToSet(t.sets[t.workspaces[w].mon].order)
    <3>1. CASE w = v
      BY <1>2, <1>4, <3>1 DEF EmptyWorkspace
    <3>2. CASE w # v
      <4>1. w \in DOMAIN s.workspaces /\ t.workspaces[w] = s.workspaces[w]
        BY <1>2, <3>2
      <4>2. s.workspaces[w].mon \in DOMAIN s.sets /\ w \in ToSet(s.sets[s.workspaces[w].mon].order)
        BY <4>1, SoundLookups
      <4>3. /\ s.workspaces[w].mon \in DOMAIN t.sets
            /\ t.sets[s.workspaces[w].mon] = s.sets[s.workspaces[w].mon]
        BY <1>1, <1>2, <4>2
      <4>4. QED
        BY <4>1, <4>2, <4>3
    <3>3. QED
      BY <3>1, <3>2
  <2>4. QED
    BY <1>2, <2>1, <2>2, <2>3 DEF Homes
<1>6. Sound(t)
  BY <1>2, <1>3, <1>4, <1>5 DEF Sound, Ring, Settled
<1>7. m \in DOMAIN t.sets
  BY <1>2
<1>8. QED
  BY <1>6, <1>7 DEF t

\* A monitor is plugged in.
LEMMA AddMonitorSound ==
  ASSUME NEW s, Sound(s), NEW m, m \notin DOMAIN s.sets
  PROVE  Sound(AddMonitor(s, m))
BY PluggedSound, NormalizeSound DEF AddMonitor, Plugged

\* A window is discovered on a monitor that is plugged in.
LEMMA WindowDiscoveredSound ==
  ASSUME NEW s, Sound(s), NEW d, d.mon \in DOMAIN s.sets
  PROVE  Sound(WindowDiscovered(s, d).st)
<1> DEFINE w      == ActiveWorkspace(s, d.mon)
           x      == FreshWindow(s)
           placed == PlaceDiscovered(s, w, x, d)
           node   == [layer |-> d.layer, ws |-> w, col |-> placed.col, managed |-> d.managed,
                      flt |-> d.layer = "Floating", full |-> d.layer = "Fullscreen",
                      restore |-> NoRestore]
           added  == SetWindow(placed.st, x, node)
           active == PutActive(added, d.mon, w)
           focused == IF d.managed /\ ~KeepsFocus(s, w, d)
                      THEN FocusWindow(active, d.mon, w, x, placed.col) ELSE active
           final  == NormalizeWorkspaceSet(focused, d.mon)
<1>1. WindowDiscovered(s, d).st = final
  BY SettleState DEF WindowDiscovered, Ok
<1>2. w \in ToSet(s.sets[d.mon].order) /\ w \in DOMAIN s.workspaces
  BY SoundLookups
<1> HIDE DEF w, x
<1>3. Alike(s, placed.st)
  BY <1>2, PlaceDiscoveredAlike, SoundShape
<1> HIDE DEF placed, node
<1>4. Alike(placed.st, added)
  BY <1>3, SetWindowAlike DEF Alike
<1> HIDE DEF added
<1>5. Alike(s, added)
  BY <1>3, <1>4, AlikeTransitive
<1>6. Sound(added) /\ added.sets = s.sets /\ w \in DOMAIN added.workspaces
  BY <1>2, <1>5, AlikeSound DEF Alike
<1>7. Sound(active) /\ d.mon \in DOMAIN active.sets /\ active.workspaces = added.workspaces
  BY <1>2, <1>6, PutActiveSound
<1> HIDE DEF active
<1>8. d.mon = active.workspaces[w].mon
  BY <1>2, <1>6, <1>7, SoundLookups
<1>9. Sound(focused) /\ d.mon \in DOMAIN focused.sets
  BY <1>6, <1>7, <1>8, FocusWindowSound
<1> HIDE DEF focused
<1>10. Sound(final)
  BY <1>9, NormalizeSound
<1>11. QED
  BY <1>1, <1>10

\* The focus is retargeted within a workspace.
LEMMA RetargetSound ==
  ASSUME NEW s, Sound(s), NEW w \in DOMAIN s.workspaces, NEW c
  PROVE  Sound(RetargetFocus(s, w, c)) /\ DOMAIN RetargetFocus(s, w, c).sets = DOMAIN s.sets
<1> DEFINE r == s.workspaces[w]
           k == IF c \in DOMAIN s.columns THEN c ELSE IF r.cols # <<>> THEN r.cols[1] ELSE None
           y == ColumnActiveWindow(s.columns[k])
<1>1. Alike(s, SetFocus(s, r.mon, None, None))
  BY SetFocusAlike, SoundShape
<1>2. Sound(SetFocus(s, r.mon, None, None)) /\ DOMAIN SetFocus(s, r.mon, None, None).sets = DOMAIN s.sets
  BY <1>1, AlikeSound DEF Alike
<1>3. \A z, j : /\ Sound(FocusWindow(s, r.mon, w, z, j))
                /\ DOMAIN FocusWindow(s, r.mon, w, z, j).sets = DOMAIN s.sets
  BY FocusWindowSound
<1>4. RetargetFocus(s, w, c) \in {SetFocus(s, r.mon, None, None), FocusWindow(s, r.mon, w, y, k),
                                  FocusWindow(s, r.mon, w, r.flt[1], None)}
  BY DEF RetargetFocus
<1> HIDE DEF k, y
<1>5. QED
  BY <1>2, <1>3, <1>4

\* A window is destroyed, whether its workspace still exists or not.
LEMMA WindowDestroyedSound ==
  ASSUME NEW s, Sound(s), NEW x
  PROVE  Sound(WindowDestroyed(s, x).st)
<1> DEFINE w == s.windows[x].ws
           c == s.windows[x].col
           m == s.workspaces[w].mon
           k == DetachWindow(s, x)
           g == Forget(k, w, x, c)
           f == RetargetFrom(g, w, x, c)
<1>1. CASE w \notin DOMAIN s.workspaces
  BY <1>1 DEF WindowDestroyed, Err
<1>2. CASE w \in DOMAIN s.workspaces
  <2>1. Alike(s, k)
    BY <1>2, DetachWindowAlike, SoundShape
  <2> HIDE DEF k
  <2>2. Alike(k, g)
    BY <1>2, <2>1, ForgetAlike DEF Alike
  <2> HIDE DEF g
  <2>3. Alike(s, g)
    BY <2>1, <2>2, AlikeTransitive
  <2>4. Sound(g) /\ w \in DOMAIN g.workspaces /\ m \in DOMAIN g.sets
    BY <1>2, <2>3, AlikeSound, SoundLookups DEF Alike
  <2>5. Sound(f) /\ DOMAIN f.sets = DOMAIN g.sets
    BY <2>4, RetargetSound DEF RetargetFrom
  <2> HIDE DEF f
  <2>6. Sound(NormalizeWorkspaceSet(f, m))
    BY <2>4, <2>5, NormalizeSound
  <2>7. QED
    BY <1>2, <2>6, SettleSound DEF WindowDestroyed, f, g, k
<1>3. QED
  BY <1>1, <1>2

---------------------------------------------------------------------------
(* The handlers of commands.                                               *)

\* The monitors a command may work on are plugged in.
LEMMA CommandMonitorKnown ==
  ASSUME NEW s, NEW requested
  PROVE  /\ ToSet(CommandMonitors(s)) \subseteq DOMAIN s.sets
         /\ CommandMonitors(s) \in Seq(Monitors)
         /\ CommandMonitor(s, requested) # None => CommandMonitor(s, requested) \in DOMAIN s.sets
<1> DEFINE others == {m \in Monitors : ~MonitorIsManaged(s, m)}
<1>1. ToSet(NavOrder) \subseteq Monitors
  BY NavOrderAssumption DEF ToSet
<1>2. /\ ToSet(CommandMonitors(s)) = ToSet(NavOrder) \ others
      /\ CommandMonitors(s) \in Seq(Monitors)
  BY NavOrderAssumption, WithoutKeeps DEF CommandMonitors
<1>3. ToSet(CommandMonitors(s)) \subseteq DOMAIN s.sets
  BY <1>1, <1>2 DEF MonitorIsManaged, Known
<1>4. CommandMonitors(s) # <<>> => CommandMonitors(s)[1] \in DOMAIN s.sets
  <2>1. CommandMonitors(s) # <<>> => 1 \in DOMAIN CommandMonitors(s)
    BY <1>2
  <2>2. QED
    BY <1>3, <2>1 DEF ToSet
<1>5. QED
  BY <1>2, <1>3, <1>4 DEF CommandMonitor, MonitorIsManaged, Known

\* The monitor next to one that is plugged in is plugged in.
LEMMA AdjacentMonitorKnown ==
  ASSUME NEW s, NEW m \in DOMAIN s.sets, NEW forward \in BOOLEAN
  PROVE  AdjacentMonitor(s, m, forward) \in DOMAIN s.sets
<1> DEFINE order == CommandMonitors(s)
           i == Position(order, m)
<1>1. order \in Seq(Monitors) /\ ToSet(order) \subseteq DOMAIN s.sets
  BY CommandMonitorKnown
<1>2. IsInjective(order)
  BY NavOrderAssumption, WithoutKeeps DEF CommandMonitors
<1> HIDE DEF order
<1>3. CASE m \notin ToSet(order)
  <2>1. i = None
    BY <1>3 DEF Position, ToSet
  <2>2. QED
    BY <2>1 DEF AdjacentMonitor, order
<1>4. CASE m \in ToSet(order)
  <2>1. i \in DOMAIN order /\ DOMAIN order = 1..Len(order) /\ Len(order) \in Nat
    BY <1>1, <1>2, <1>4, PositionFinds
  <2>2. StepWithin(i, forward, Len(order)) \in DOMAIN order
    BY <2>1, StepStays
  <2>3. order[StepWithin(i, forward, Len(order))] \in DOMAIN s.sets
    BY <1>1, <2>2 DEF ToSet
  <2>4. QED
    BY <2>3 DEF AdjacentMonitor, order
<1>5. QED
  BY <1>3, <1>4

\* The focus is moved along the strip.
LEMMA FocusNavigationSound ==
  ASSUME NEW s, Sound(s), NEW forward, NEW tabs
  PROVE  Sound(FocusNavigation(s, forward, tabs).st)
<1> DEFINE w == CommandWorkspace(s)
           m == s.workspaces[w].mon
<1>1. CASE w \notin DOMAIN s.workspaces
  BY <1>1 DEF FocusNavigation, Err
<1>2. CASE w \in DOMAIN s.workspaces
  <2>1. \A x, c : Sound(FocusWindow(s, m, w, x, c))
    BY <1>2, FocusWindowSound
  <2>2. \A x, c : Sound(Settle(FocusWindow(s, m, w, x, c), w).st)
    BY <2>1, SettleSound
  <2>3. Sound(Settle(s, w).st)
    BY SettleSound
  <2> HIDE DEF m, w
  <2>4. QED
    BY <1>2, <2>2, <2>3 DEF FocusNavigation, m, w
<1>3. QED
  BY <1>1, <1>2

\* The workspace one step along the order of a monitor.
LEMMA NeighbourInOrder ==
  ASSUME NEW s, Sound(s), NEW m \in DOMAIN s.sets, NEW w \in ToSet(s.sets[m].order),
         NEW forward \in BOOLEAN
  PROVE  LET order == s.sets[m].order
             i == Position(order, w)
             j == StepWithin(i, forward, Len(order))
         IN  /\ i \in DOMAIN order
             /\ j \in DOMAIN order
             /\ order[j] \in ToSet(order)
<1> DEFINE order == s.sets[m].order
<1>1. order \in Seq(DOMAIN s.workspaces) /\ IsInjective(order)
  BY SoundLookups
<1>2. Position(order, w) \in DOMAIN order /\ DOMAIN order = 1..Len(order) /\ Len(order) \in Nat
  BY <1>1, PositionFinds
<1>3. StepWithin(Position(order, w), forward, Len(order)) \in DOMAIN order
  BY <1>2, StepStays
<1>4. QED
  BY <1>2, <1>3 DEF ToSet

\* The neighbouring workspace is activated.
LEMMA FocusWorkspaceSound ==
  ASSUME NEW s, Sound(s), NEW forward \in BOOLEAN, NEW requested
  PROVE  Sound(FocusWorkspace(s, forward, requested).st)
<1> DEFINE m     == CommandMonitor(s, requested)
           n     == NormalizeWorkspaceSet(s, m)
           order == n.sets[m].order
           w     == ActiveWorkspace(n, m)
           to    == order[StepWithin(Position(order, w), forward, Len(order))]
           a     == ActivateWorkspace(n, m, to)
<1>1. CASE m = None
  BY <1>1 DEF FocusWorkspace, Err
<1>2. CASE m # None
  <2>1. m \in DOMAIN s.sets
    BY <1>2, CommandMonitorKnown
  <2> HIDE DEF m
  <2>2. Sound(n) /\ m \in DOMAIN n.sets
    BY <2>1, NormalizeSound
  <2> HIDE DEF n
  <2>3. w \in ToSet(n.sets[m].order)
    BY <2>2, SoundLookups
  <2> HIDE DEF w
  <2>4. to \in ToSet(n.sets[m].order)
    BY <2>2, <2>3, NeighbourInOrder
  <2> HIDE DEF to
  <2>5. Sound(a) /\ m \in DOMAIN a.sets
    BY <2>2, <2>4, ActivateWorkspaceSound
  <2> HIDE DEF a
  <2>6. Sound(NormalizeWorkspaceSet(a, m))
    BY <2>5, NormalizeSound
  <2>7. QED
    BY <1>2, <2>2, <2>6, SettleSound DEF FocusWorkspace, a, to, w, n, m
<1>3. QED
  BY <1>1, <1>2

\* Two workspaces of an order change places.
LEMMA SwappedOrderSound ==
  ASSUME NEW s, Sound(s), NEW m \in DOMAIN s.sets,
         NEW i \in DOMAIN s.sets[m].order, NEW j \in DOMAIN s.sets[m].order
  PROVE  LET t == PutOrder(s, m, Swapped(s.sets[m].order, i, j))
         IN  Sound(t) /\ DOMAIN t.sets = DOMAIN s.sets
<1> DEFINE order == s.sets[m].order
           new == Swapped(order, i, j)
           t == PutOrder(s, m, new)
<1>1. order \in Seq(DOMAIN s.workspaces) /\ IsInjective(order)
  BY SoundLookups
<1>2. new \in Seq(DOMAIN s.workspaces) /\ ToSet(new) = ToSet(order) /\ IsInjective(new)
  BY <1>1, SwappedKeeps
<1> HIDE DEF new
<1>3. /\ DOMAIN t = DOMAIN s
      /\ t.focus = s.focus
      /\ t.windows = s.windows
      /\ t.workspaces = s.workspaces
      /\ t.sets = [k \in DOMAIN s.sets \union {m} |->
                     IF k = m THEN [order |-> new, active |-> s.sets[m].active] ELSE s.sets[k]]
  BY SoundShape DEF Shape, PutOrder, Put
<1> HIDE DEF t
<1>4. Shape(t)
  BY <1>3, SoundShape DEF Shape
<1>5. /\ DOMAIN t.sets = DOMAIN s.sets
      /\ t.sets[m].order = new
      /\ \A k \in DOMAIN s.sets : /\ t.sets[k].active = s.sets[k].active
                                  /\ ToSet(t.sets[k].order) = ToSet(s.sets[k].order)
                                  /\ k # m => t.sets[k] = s.sets[k]
  BY <1>2, <1>3
<1>6. Homes(t)
  BY <1>2, <1>3, <1>5 DEF Sound, Ring, Homes, Housed
<1>7. Sound(t)
  BY <1>3, <1>4, <1>5, <1>6 DEF Sound, Ring, Settled
<1>8. QED
  BY <1>5, <1>7 DEF t, new

\* The active workspace moves along its monitor.
LEMMA MoveWorkspaceSound ==
  ASSUME NEW s, Sound(s), NEW forward \in BOOLEAN, NEW requested
  PROVE  Sound(MoveWorkspaceWithinMonitor(s, forward, requested).st)
<1> DEFINE m     == CommandMonitor(s, requested)
           n     == NormalizeWorkspaceSet(s, m)
           order == n.sets[m].order
           w     == ActiveWorkspace(n, m)
           i     == Position(order, w)
           j     == StepWithin(i, forward, Len(order))
           moved == PutOrder(n, m, Swapped(order, i, j))
           tidy  == NormalizeWorkspaceSet(moved, m)
<1>1. CASE m = None
  BY <1>1 DEF MoveWorkspaceWithinMonitor, Err
<1>2. CASE m # None
  <2>1. m \in DOMAIN s.sets
    BY <1>2, CommandMonitorKnown
  <2> HIDE DEF m
  <2>2. Sound(n) /\ m \in DOMAIN n.sets
    BY <2>1, NormalizeSound
  <2> HIDE DEF n
  <2>3. w \in ToSet(n.sets[m].order)
    BY <2>2, SoundLookups
  <2> HIDE DEF w
  <2>4. i \in DOMAIN n.sets[m].order /\ j \in DOMAIN n.sets[m].order
    BY <2>2, <2>3, NeighbourInOrder
  <2> HIDE DEF i, j
  <2>5. Sound(moved) /\ m \in DOMAIN moved.sets
    BY <2>2, <2>4, SwappedOrderSound
  <2> HIDE DEF moved
  <2>6. Sound(tidy)
    BY <2>5, NormalizeSound
  <2> HIDE DEF tidy
  <2>7. Sound(SyncOverview(tidy, m))
    BY <2>6, SyncOverviewSound
  <2>8. QED
    BY <1>2, <2>2, <2>7, SettleSound DEF MoveWorkspaceWithinMonitor, tidy, moved, j, i, w, n, m
<1>3. QED
  BY <1>1, <1>2

\* A workspace enters an order at one of its positions or at its end.
LEMMA TailPositionInside ==
  ASSUME NEW s, NEW m, NEW T, s.sets[m].order \in Seq(T)
  PROVE  TailPosition(s, m) \in 1..(Len(s.sets[m].order) + 1)
<1> DEFINE order == s.sets[m].order
           isTail(w) == w \in DOMAIN s.workspaces /\ s.workspaces[w].tail
           before == {i \in DOMAIN order : \A k \in 1..i : ~isTail(order[k])}
<1>1. Len(order) \in Nat /\ before \in SUBSET (1..Len(order))
  OBVIOUS
<1> HIDE DEF before
<1>2. IsFiniteSet(1..Len(order)) /\ Cardinality(1..Len(order)) <= Len(order)
  <2>1. /\ IsFiniteSet(1..Len(order))
        /\ Cardinality(1..Len(order)) = IF 1 > Len(order) THEN 0 ELSE Len(order) - 1 + 1
    <3>1. 1 \in Int /\ Len(order) \in Int
      BY <1>1
    <3> HIDE DEF order
    <3>2. QED
      BY <3>1, FS_Interval
  <2>2. QED
    BY <1>1, <2>1
<1>3. IsFiniteSet(before) /\ Cardinality(before) <= Cardinality(1..Len(order))
  BY <1>1, <1>2, FS_Subset
<1>4. Cardinality(before) \in Nat /\ Cardinality(1..Len(order)) \in Nat
  BY <1>2, <1>3, FS_CardinalityType
<1>5. Cardinality(before) + 1 \in 1..(Len(order) + 1)
  BY <1>1, <1>2, <1>3, <1>4
<1>6. QED
  BY <1>5 DEF TailPosition, before

\* A workspace moves to another monitor; both monitors need normalising.
LEMMA RehostRing ==
  ASSUME NEW s, Sound(s), NEW from \in DOMAIN s.sets, NEW to \in DOMAIN s.sets, from # to,
         NEW w \in ToSet(s.sets[from].order)
  PROVE  LET t == RehostWorkspace(s, from, to, w)
         IN  /\ Ring(t, {from, to})
             /\ DOMAIN t.sets = DOMAIN s.sets
             /\ t.sets[to].active = w
             /\ w \in ToSet(t.sets[to].order)
<1> DEFINE source == s.sets[from].order
           target == s.sets[to].order
           left == Without(source, {w})
           joined == InsertAt(target, TailPosition(s, to), w)
           t == RehostWorkspace(s, from, to, w)
<1>1. /\ source \in Seq(DOMAIN s.workspaces) /\ IsInjective(source)
      /\ target \in Seq(DOMAIN s.workspaces) /\ IsInjective(target)
      /\ w \in DOMAIN s.workspaces
      /\ \A v \in ToSet(source) : v \in DOMAIN s.workspaces /\ s.workspaces[v].mon = from
      /\ \A v \in ToSet(target) : v \in DOMAIN s.workspaces /\ s.workspaces[v].mon = to
  BY SoundLookups
<1>2. w \notin ToSet(target)
  BY <1>1
<1>3. left \in Seq(DOMAIN s.workspaces) /\ IsInjective(left) /\ ToSet(left) = ToSet(source) \ {w}
  BY <1>1, WithoutKeeps
<1>4. TailPosition(s, to) \in 1..(Len(target) + 1)
  BY <1>1, TailPositionInside
<1>5. joined \in Seq(DOMAIN s.workspaces) /\ IsInjective(joined) /\ ToSet(joined) = ToSet(target) \union {w}
  BY <1>1, <1>2, <1>4, InsertAtAdds
<1> HIDE DEF left, joined
<1>6. /\ DOMAIN t = DOMAIN s
      /\ t.focus = s.focus
      /\ t.windows = s.windows
      /\ t.workspaces = [k \in DOMAIN s.workspaces |->
                           IF k = w THEN [s.workspaces[k] EXCEPT !.mon = to] ELSE s.workspaces[k]]
      /\ DOMAIN t.sets = DOMAIN s.sets
      /\ t.sets[from] = [order |-> left, active |-> s.sets[from].active]
      /\ t.sets[to] = [order |-> joined, active |-> w]
      /\ \A k \in DOMAIN s.sets \ {from, to} : t.sets[k] = s.sets[k]
  BY SoundShape DEF Shape, RehostWorkspace, PutOrder, Put, Hosted, left, joined
<1> HIDE DEF t
<1>7. Shape(t)
  BY <1>6, SoundShape DEF Shape
<1>8. t.workspaces[w].mon = to
  BY <1>1, <1>6, SoundShape DEF Shape
<1>9. \A k \in DOMAIN s.workspaces \ {w} : t.workspaces[k] = s.workspaces[k]
  BY <1>6
<1>10. Homes(t)
  <2>1. ASSUME NEW k \in DOMAIN s.sets \ {from, to} PROVE Housed(t, k)
    <3>1. /\ s.sets[k].order \in Seq(DOMAIN s.workspaces) /\ IsInjective(s.sets[k].order)
          /\ \A v \in ToSet(s.sets[k].order) : v \in DOMAIN s.workspaces /\ s.workspaces[v].mon = k
      BY SoundLookups
    <3>2. w \notin ToSet(s.sets[k].order)
      BY <1>1, <3>1
    <3>3. QED
      BY <1>6, <1>9, <3>1, <3>2 DEF Housed
  <2>2. Housed(t, from)
    BY <1>1, <1>3, <1>6, <1>9 DEF Housed
  <2>3. Housed(t, to)
    BY <1>1, <1>5, <1>6, <1>8, <1>9 DEF Housed
  <2>4. ASSUME NEW v \in DOMAIN t.workspaces
        PROVE  t.workspaces[v].mon \in DOMAIN t.sets /\ v \in ToSet(t.sets[t.workspaces[v].mon].order)
    <3>1. CASE v = w
      BY <1>5, <1>6, <1>8, <3>1
    <3>2. CASE v # w
      <4>1. /\ t.workspaces[v] = s.workspaces[v]
            /\ s.workspaces[v].mon \in DOMAIN s.sets
            /\ v \in ToSet(s.sets[s.workspaces[v].mon].order)
        BY <1>6, <1>9, <3>2, SoundLookups
      <4>2. s.workspaces[v].mon = from => v \in ToSet(left) /\ t.sets[from].order = left
        BY <1>3, <1>6, <3>2, <4>1
      <4>3. s.workspaces[v].mon = to => v \in ToSet(joined) /\ t.sets[to].order = joined
        BY <1>5, <1>6, <4>1
      <4>4. s.workspaces[v].mon \notin {from, to} =>
              t.sets[s.workspaces[v].mon] = s.sets[s.workspaces[v].mon]
        BY <1>6, <4>1
      <4>5. QED
        BY <1>6, <4>1, <4>2, <4>3, <4>4
    <3>3. QED
      BY <3>1, <3>2
  <2>5. QED
    BY <1>6, <2>1, <2>2, <2>3, <2>4 DEF Homes
<1>11. Ring(t, {from, to})
  BY <1>6, <1>7, <1>10 DEF Sound, Ring, Settled
<1>12. QED
  BY <1>5, <1>6, <1>11 DEF t

\* The active workspace moves to another monitor: the normalising before it
\* keeps the workspace active, the one after it settles both monitors.
LEMMA MoveWorkspaceToMonitorSound ==
  ASSUME NEW s, Sound(s), NEW forward \in BOOLEAN, NEW requested
  PROVE  Sound(MoveWorkspaceToMonitor(s, forward, requested).st)
<1> DEFINE from  == CommandMonitor(s, requested)
           to    == AdjacentMonitor(s, from, forward)
           w     == ActiveWorkspace(s, from)
           n1    == NormalizeWorkspaceSet(s, from)
           n2    == NormalizeWorkspaceSet(n1, to)
           t     == RehostWorkspace(n2, from, to, w)
           t1    == NormalizeWorkspaceSet(t, from)
           t2    == NormalizeWorkspaceSet(t1, to)
           a     == ActivateWorkspace(t2, to, w)
<1>1. CASE from = None
  BY <1>1 DEF MoveWorkspaceToMonitor, Err
<1>2. CASE from # None /\ from = to
  BY <1>2, SettleSound DEF MoveWorkspaceToMonitor
<1>3. CASE from # None /\ from # to
  <2>1. from \in DOMAIN s.sets
    BY <1>3, CommandMonitorKnown
  <2>2. to \in DOMAIN s.sets
    BY <2>1, AdjacentMonitorKnown
  <2>3. w = s.sets[from].active
    BY <2>1, SoundLookups
  <2>4. MoveWorkspaceToMonitor(s, forward, requested) = Settle(SyncOverview(a, from), w)
    BY <1>3 DEF MoveWorkspaceToMonitor, NormalizeBoth
  <2>5. from # to
    BY <1>3
  <2> HIDE DEF from, to, w
  <2>6. Sound(n1) /\ DOMAIN n1.sets = DOMAIN s.sets /\ n1.sets[from].active = w
    BY <2>1, <2>3, NormalizeSound
  <2> HIDE DEF n1
  <2>7. Sound(n2) /\ DOMAIN n2.sets = DOMAIN s.sets /\ n2.sets[from].active = w
    BY <2>1, <2>2, <2>6, NormalizeSound
  <2> HIDE DEF n2
  <2>8. w \in ToSet(n2.sets[from].order)
    BY <2>1, <2>7, SoundLookups
  <2>9. /\ Ring(t, {from, to})
        /\ DOMAIN t.sets = DOMAIN s.sets
        /\ t.sets[to].active = w
        /\ w \in ToSet(t.sets[to].order)
    BY <2>1, <2>2, <2>5, <2>7, <2>8, RehostRing
  <2> HIDE DEF t
  <2>10. /\ Ring(t1, {from, to} \ {from})
         /\ DOMAIN t1.sets = DOMAIN s.sets
         /\ t1.sets[to] = t.sets[to]
    <3> DEFINE U == {from, to}
    <3>1. from \in DOMAIN t.sets /\ to \in DOMAIN t.sets \ {from} /\ Ring(t, U)
      BY <2>1, <2>2, <2>5, <2>9
    <3> HIDE DEF U
    <3>2. Ring(t1, U \ {from}) /\ DOMAIN t1.sets = DOMAIN t.sets /\ t1.sets[to] = t.sets[to]
      BY <3>1, NormalizeRing
    <3>3. QED
      BY <2>9, <3>2 DEF U
  <2> HIDE DEF t1
  <2>11. /\ Ring(t2, ({from, to} \ {from}) \ {to})
         /\ DOMAIN t2.sets = DOMAIN s.sets
         /\ t2.sets[to].active = w
    <3> DEFINE V == {from, to} \ {from}
    <3>1. /\ to \in DOMAIN t1.sets
          /\ t1.sets[to].active = w
          /\ t1.sets[to].active \in ToSet(t1.sets[to].order)
          /\ Ring(t1, V)
      BY <2>2, <2>9, <2>10
    <3> HIDE DEF V
    <3>2. Ring(t2, V \ {to}) /\ DOMAIN t2.sets = DOMAIN t1.sets /\ t2.sets[to].active = w
      BY <3>1, NormalizeRing
    <3>3. QED
      BY <2>10, <3>2 DEF V
  <2> HIDE DEF t2
  <2>12. ({from, to} \ {from}) \ {to} = {}
    OBVIOUS
  <2>13. Sound(t2)
    BY <2>11, <2>12 DEF Sound
  <2>14. w \in ToSet(t2.sets[to].order)
    BY <2>2, <2>11, <2>13, SoundLookups
  <2>15. Sound(a)
    BY <2>2, <2>11, <2>13, <2>14, ActivateWorkspaceSound
  <2> HIDE DEF a
  <2>16. QED
    BY <2>4, <2>15, SyncOverviewSound, SettleSound
<1>4. QED
  BY <1>1, <1>2, <1>3

\* A column moves to a named workspace.
LEMMA MoveColumnToSound ==
  ASSUME NEW s, Sound(s), NEW c, NEW to, NEW after
  PROVE  Sound(MoveColumnTo(s, c, to, after).st)
<1> DEFINE from == ColumnWorkspace(s, c)
           m1   == s.workspaces[from].mon
           m2   == s.workspaces[to].mon
           k    == TransferColumn(s, c, from, to, after)
           a    == ActivateWorkspace(k, m2, to)
           n1   == NormalizeWorkspaceSet(a, m1)
           n2   == NormalizeWorkspaceSet(n1, m2)
           o    == SyncOverview(n2, m1)
<1>1. CASE from \notin DOMAIN s.workspaces \/ to \notin DOMAIN s.workspaces
  BY <1>1 DEF MoveColumnTo, Err
<1>2. CASE from \in DOMAIN s.workspaces /\ to \in DOMAIN s.workspaces
  <2>1. MoveColumnTo(s, c, to, after).st \in {s, n1, o}
    BY SettleState DEF MoveColumnTo, NormalizeBoth, Err
  <2>2. m1 \in DOMAIN s.sets /\ m2 \in DOMAIN s.sets /\ to \in ToSet(s.sets[m2].order)
    BY <1>2, SoundLookups
  <2> HIDE DEF m1, m2, from
  <2>3. Alike(s, k)
    BY <1>2, TransferColumnAlike, SoundShape
  <2> HIDE DEF k
  <2>4. Sound(k) /\ k.sets = s.sets
    BY <2>3, AlikeSound DEF Alike
  <2>5. Sound(a) /\ DOMAIN a.sets = DOMAIN s.sets
    BY <2>2, <2>4, ActivateWorkspaceSound
  <2> HIDE DEF a
  <2>6. Sound(n1) /\ DOMAIN n1.sets = DOMAIN s.sets
    BY <2>2, <2>5, NormalizeSound
  <2> HIDE DEF n1
  <2>7. Sound(n2)
    BY <2>2, <2>6, NormalizeSound
  <2> HIDE DEF n2
  <2>8. Sound(o)
    BY <2>7, SyncOverviewSound
  <2> HIDE DEF o
  <2>9. QED
    BY <2>1, <2>6, <2>8
<1>3. QED
  BY <1>1, <1>2

\* The focused column moves to the neighbouring workspace.
LEMMA MoveColumnSound ==
  ASSUME NEW s, Sound(s), NEW forward \in BOOLEAN, NEW requested
  PROVE  Sound(MoveColumnToWorkspace(s, forward, requested).st)
<1> DEFINE m == CommandMonitor(s, requested)
           n == NormalizeWorkspaceSet(s, m)
<1>1. CASE m = None
  BY <1>1 DEF MoveColumnToWorkspace, Err
<1>2. CASE m # None
  <2>1. Sound(n)
    BY <1>2, CommandMonitorKnown, NormalizeSound
  <2> HIDE DEF m, n
  <2>2. \A c, to : Sound(MoveColumnTo(n, c, to, None).st)
    BY <2>1, MoveColumnToSound
  <2>3. \A w : Sound(Settle(n, w).st)
    BY <2>1, SettleSound
  <2>4. QED
    BY <1>2, <2>2, <2>3 DEF MoveColumnToWorkspace, Err, m, n
<1>3. QED
  BY <1>1, <1>2

\* A window leaves its place for another layer: nothing moves until it is focused.
LEMMA LeavePlaceAlike ==
  ASSUME NEW s, Shape(s), NEW x, s.windows[x].ws \in DOMAIN s.workspaces, NEW to
  PROVE  LET w == s.windows[x].ws
         IN  \E t : Alike(s, t) /\ LeavePlace(s, x, to)
                                    = FocusWindow(t, s.workspaces[w].mon, w, x, None)
<1> DEFINE w    == s.windows[x].ws
           m    == s.workspaces[w].mon
           k    == DetachWindow(s, x)
           out  == PushFloating(k, w, x)
           node == [s.windows[x] EXCEPT
                      !.layer = to, !.col = None, !.flt = to = "Floating",
                      !.full = to = "Fullscreen", !.restore = PlaceOf(s, x)]
           t    == SetWindow(out, x, node)
<1>1. Alike(s, k)
  BY DetachWindowAlike
<1> HIDE DEF k, node
<1>2. Alike(k, out)
  BY <1>1, PushFloatingAlike DEF Alike
<1> HIDE DEF out
<1>3. Alike(out, t)
  BY <1>2, SetWindowAlike DEF Alike
<1> HIDE DEF t
<1>4. Alike(s, t)
  BY <1>1, <1>2, <1>3, AlikeTransitive
<1>5. LeavePlace(s, x, to) = FocusWindow(t, m, w, x, None)
  BY DEF LeavePlace, t, node, out, k
<1>6. QED
  BY <1>4, <1>5

\* The workspaces are sound again.
LEMMA LeavePlaceSound ==
  ASSUME NEW s, Sound(s), NEW x, s.windows[x].ws \in DOMAIN s.workspaces, NEW to
  PROVE  Sound(LeavePlace(s, x, to))
<1> DEFINE w == s.windows[x].ws
           m == s.workspaces[w].mon
<1>1. PICK t : Alike(s, t) /\ LeavePlace(s, x, to) = FocusWindow(t, m, w, x, None)
  BY LeavePlaceAlike, SoundShape
<1>2. Sound(t) /\ w \in DOMAIN t.workspaces /\ m = t.workspaces[w].mon
  BY <1>1, AlikeSound DEF Alike
<1>3. QED
  BY <1>1, <1>2, FocusWindowSound

\* A window comes back from the layer it was in.
LEMMA ReturnToPlaceAlike ==
  ASSUME NEW s, Shape(s), NEW x, s.windows[x].ws \in DOMAIN s.workspaces,
         RestoreOf(s, x).ws \in DOMAIN s.workspaces, NEW from
  PROVE  LET w == s.windows[x].ws
         IN  \E t, c : Alike(s, t) /\ ReturnToPlace(s, x, from)
                                       = FocusWindow(t, s.workspaces[w].mon, w, x, c)
<1> DEFINE w        == s.windows[x].ws
           m        == s.workspaces[w].mon
           target   == RestoreOf(s, x)
           k        == DetachWindow(s, x)
           restored == RestoreWindow(k, x, target)
           node     == Returned(s.windows[x], from, target.layer, restored.col)
           t        == SetWindow(restored.st, x, node)
<1>1. Alike(s, k)
  BY DetachWindowAlike
<1> HIDE DEF k, target
<1>2. Alike(k, restored.st)
  BY <1>1, RestoreWindowAlike DEF Alike, target
<1> HIDE DEF restored, node
<1>3. Alike(restored.st, t)
  BY <1>2, SetWindowAlike DEF Alike
<1> HIDE DEF t
<1>4. Alike(s, t)
  BY <1>1, <1>2, <1>3, AlikeTransitive
<1>5. \E c : ReturnToPlace(s, x, from) = FocusWindow(t, m, w, x, c)
  BY DEF ReturnToPlace, t, node, restored, k, target
<1>6. QED
  BY <1>4, <1>5

\* The workspaces are sound again.
LEMMA ReturnToPlaceSound ==
  ASSUME NEW s, Sound(s), NEW x, s.windows[x].ws \in DOMAIN s.workspaces,
         RestoreOf(s, x).ws \in DOMAIN s.workspaces, NEW from
  PROVE  Sound(ReturnToPlace(s, x, from))
<1> DEFINE w == s.windows[x].ws
           m == s.workspaces[w].mon
<1>1. PICK t, c : Alike(s, t) /\ ReturnToPlace(s, x, from) = FocusWindow(t, m, w, x, c)
  BY ReturnToPlaceAlike, SoundShape
<1>2. Sound(t) /\ w \in DOMAIN t.workspaces /\ m = t.workspaces[w].mon
  BY <1>1, AlikeSound DEF Alike
<1>3. QED
  BY <1>1, <1>2, FocusWindowSound

\* A window is toggled, also when the toggle fails half-way.
LEMMA ToggleLayerSound ==
  ASSUME NEW s, Sound(s), NEW requested, NEW layer
  PROVE  Sound(ToggleLayer(s, requested, layer).st)
<1> DEFINE x == CommandWindow(s, requested)
           w == s.windows[x].ws
           r == ToggleLayer(s, requested, layer)
<1> HIDE DEF x
<1>1. CASE x \notin DOMAIN s.windows \/ w \notin DOMAIN s.workspaces
  BY <1>1 DEF ToggleLayer, Err, x
<1>2. CASE w \in DOMAIN s.workspaces
  <2>1. r.st \in {s, LeavePlace(s, x, layer), DetachWindow(s, x), ReturnToPlace(s, x, layer)}
    BY SettleState DEF ToggleLayer, Err, x
  <2>2. Sound(LeavePlace(s, x, layer))
    BY <1>2, LeavePlaceSound
  <2>3. Sound(DetachWindow(s, x))
    BY <1>2, DetachWindowAlike, SoundShape, AlikeSound
  <2>4. CASE RestoreOf(s, x).ws \in DOMAIN s.workspaces
    BY <1>2, <2>1, <2>2, <2>3, <2>4, ReturnToPlaceSound
  <2>5. CASE RestoreOf(s, x).ws \notin DOMAIN s.workspaces
    <3>1. r.st \in {s, LeavePlace(s, x, layer), DetachWindow(s, x)}
      BY <2>5, SettleState DEF ToggleLayer, Err, x
    <3>2. QED
      BY <2>2, <2>3, <3>1
  <2>6. QED
    BY <2>4, <2>5
<1>3. QED
  BY <1>1, <1>2

\* A column is tabbed or untabbed.
LEMMA ToggleTabbedSound ==
  ASSUME NEW s, Sound(s), NEW requested
  PROVE  Sound(ToggleTabbed(s, requested).st)
<1>1. \A c, r, w : Sound(Settle(SetColumn(s, c, r), w).st)
  BY SetColumnAlike, SoundShape, AlikeSound, SettleSound
<1>2. \A w : Sound(Settle(s, w).st)
  BY SettleSound
<1>3. QED
  BY <1>1, <1>2 DEF ToggleTabbed, Err

\* The overview opens and closes.
LEMMA OverviewSound ==
  ASSUME NEW s, Sound(s), NEW requested
  PROVE  /\ Sound(OpenOverview(s, requested).st)
         /\ Sound(CloseOverview(s).st)
         /\ Sound(ToggleOverview(s, requested).st)
<1>1. \A o : Sound([s EXCEPT !.overview = o])
  <2>1. TAKE o
  <2>2. Alike(s, [s EXCEPT !.overview = o])
    BY SoundShape DEF Shape, Alike
  <2>3. QED
    BY <2>2, AlikeSound
<1>2. Sound(OpenOverview(s, requested).st)
  BY <1>1 DEF OpenOverview, OpenOverviewOn, Ok, Err
<1>3. Sound(CloseOverview(s).st)
  BY <1>1 DEF CloseOverview, Ok
<1>4. QED
  BY <1>2, <1>3 DEF ToggleOverview

\* A drag of a column width runs.
LEMMA ResizeSound ==
  ASSUME NEW s, Sound(s)
  PROVE  /\ Sound(BeginResize(s).st)
         /\ Sound(UpdateResize(s).st)
         /\ Sound(CommitResize(s).st)
         /\ Sound(CancelResize(s).st)
         /\ Sound(CycleWidth(s).st)
<1>1. \A r, w : Sound(Settle([s EXCEPT !.session = r], w).st)
  <2>1. TAKE r
  <2>2. Alike(s, [s EXCEPT !.session = r])
    BY SoundShape DEF Shape, Alike
  <2>3. QED
    BY <2>2, AlikeSound, SettleSound
<1>2. \A w : Sound(Settle(s, w).st)
  BY SettleSound
<1>3. Sound(BeginResize(s).st)
  BY <1>1 DEF BeginResize, Err
<1>4. Sound(UpdateResize(s).st)
  BY <1>2 DEF UpdateResize, Ok
<1>5. Sound(CommitResize(s).st)
  BY <1>1 DEF CommitResize, Ok, Err
<1>6. Sound(CancelResize(s).st)
  BY <1>1 DEF CancelResize, Ok
<1>7. Sound(CycleWidth(s).st)
  BY <1>2 DEF CycleWidth, Err
<1>8. QED
  BY <1>3, <1>4, <1>5, <1>6, <1>7

---------------------------------------------------------------------------
(* Every step.                                                             *)

\* Every platform event keeps the invariant.
LEMMA PlatformSound ==
  ASSUME Sound(st), Platform
  PROVE  Sound(st')
<1>1. CASE \E m \in Monitors : PlugMonitor(m)
  BY <1>1, AddMonitorSound DEF PlugMonitor, Known
<1>2. CASE \E m \in Monitors : RefreshMonitor(m)
  BY <1>2, NormalizeSound DEF RefreshMonitor, Known
<1>3. CASE \E m \in Monitors, d \in Discoveries : Discover(m, d)
  <2>1. PICK m \in Monitors, d \in Discoveries : Discover(m, d)
    BY <1>3
  <2> DEFINE e == [mon |-> m, managed |-> d.managed, layer |-> d.layer,
                   mode |-> d.mode, preserve |-> d.preserve, placement |-> d.placement]
  <2>2. m \in DOMAIN st.sets /\ st' = WindowDiscovered(st, e).st
    BY <2>1 DEF Discover, Fatal, Known
  <2>3. e.mon = m
    OBVIOUS
  <2> HIDE DEF e
  <2>4. QED
    BY <2>2, <2>3, WindowDiscoveredSound
<1>4. CASE \E x \in DOMAIN st.windows : Destroy(x)
  BY <1>4, WindowDestroyedSound DEF Destroy, Fatal
<1>5. CASE \E x \in DOMAIN st.windows : ObserveFocus(x)
  <2>1. PICK x \in DOMAIN st.windows : ObserveFocus(x)
    BY <1>5
  <2> DEFINE w == st.windows[x].ws
             f == FocusWindow(st, st.workspaces[w].mon, w, x, st.windows[x].col)
  <2>2. Sound(f)
    BY <2>1, FocusWindowSound DEF ObserveFocus
  <2>3. st' = Settle(f, w).st
    BY <2>1 DEF ObserveFocus, Fatal, WindowFocusObserved
  <2> HIDE DEF f, w
  <2>4. QED
    BY <2>2, <2>3, SettleSound
<1>6. QED
  BY <1>1, <1>2, <1>3, <1>4, <1>5 DEF Platform

\* So does every step.
LEMMA NextSound ==
  ASSUME Sound(st), Next
  PROVE  Sound(st')
<1>1. CASE Platform
  BY <1>1, PlatformSound
<1>2. CASE \E forward, tabs \in BOOLEAN : CmdFocusNavigation(forward, tabs)
  BY <1>2, FocusNavigationSound DEF CmdFocusNavigation, Command, Fatal, Answered
<1>3. CASE WorkspaceCommand
  <2>1. PICK forward \in BOOLEAN, m \in MonitorRequests :
          \/ CmdFocusWorkspace(forward, m)
          \/ CmdMoveWorkspace(forward, m)
          \/ CmdMoveWorkspaceToMonitor(forward, m)
          \/ CmdMoveColumnToWorkspace(forward, m)
    BY <1>3 DEF WorkspaceCommand
  <2>2. CASE CmdFocusWorkspace(forward, m)
    BY <2>2, FocusWorkspaceSound DEF CmdFocusWorkspace, Command, Fatal, Answered
  <2>3. CASE CmdMoveWorkspace(forward, m)
    BY <2>3, MoveWorkspaceSound DEF CmdMoveWorkspace, Command, Fatal, Answered
  <2>4. CASE CmdMoveWorkspaceToMonitor(forward, m)
    BY <2>4, MoveWorkspaceToMonitorSound DEF CmdMoveWorkspaceToMonitor, Command, Fatal, Answered
  <2>5. CASE CmdMoveColumnToWorkspace(forward, m)
    BY <2>5, MoveColumnSound DEF CmdMoveColumnToWorkspace, Command, Fatal, Answered
  <2>6. QED
    BY <2>1, <2>2, <2>3, <2>4, <2>5
<1>4. CASE ColumnDrop
  BY <1>4, MoveColumnToSound DEF ColumnDrop, CmdDropColumn, Fatal
<1>5. CASE WindowCommand
  <2>1. PICK x \in WindowRequests :
          CmdToggleFloating(x) \/ CmdToggleFullscreen(x) \/ CmdToggleTabbed(x)
    BY <1>5 DEF WindowCommand
  <2>2. st' \in {ToggleFloating(st, x).st, ToggleFullscreen(st, x).st, ToggleTabbed(st, x).st}
    BY <2>1 DEF CmdToggleFloating, CmdToggleFullscreen, CmdToggleTabbed, Command, Fatal, Answered
  <2>3. QED
    BY <2>2, ToggleLayerSound, ToggleTabbedSound DEF ToggleFloating, ToggleFullscreen
<1>6. CASE OverviewCommand
  BY <1>6, OverviewSound
  DEF OverviewCommand, CmdOpenOverview, CmdCloseOverview, CmdToggleOverview,
      Command, Fatal, Answered
<1>7. CASE ResizeCommand
  BY <1>7, ResizeSound
  DEF ResizeCommand, CmdBeginResize, CmdUpdateResize, CmdCommitResize, CmdCancelResize,
      CmdCycleWidth, Command, Fatal, Answered
<1>8. QED
  BY <1>1, <1>2, <1>3, <1>4, <1>5, <1>6, <1>7 DEF Next

\* It holds at the start.
LEMMA InitSound ==
  ASSUME Init
  PROVE  Sound(st)
BY FS_EmptySet DEF Init, InitState, Sound, Ring, Shape, Homes

\* It implies the two properties.
LEMMA SoundIsPartitioned ==
  ASSUME Sound(st)
  PROVE  WorkspacesPartitioned /\ ActiveCopiesAgree
<1>1. WorkspacesPartitioned
  <2>1. \A m \in Known(st) : st.sets[m].order # <<>>
    BY SoundLookups DEF Known, ToSet
  <2>2. QED
    BY <2>1, SoundLookups DEF WorkspacesPartitioned, Known
<1>2. ActiveCopiesAgree
  BY SoundLookups DEF ActiveCopiesAgree, Known, Sound, Ring, Settled
<1>3. QED
  BY <1>1, <1>2

\* The invariant holds in every state of every behaviour.
THEOREM StoreIsSound == Spec => []Sound(st)
<1>1. Init => Sound(st)
  BY InitSound
<1>2. Sound(st) /\ [Next]_vars => Sound(st)'
  BY NextSound DEF vars
<1>3. QED
  BY <1>1, <1>2, PTL DEF Spec

\* Every workspace stands exactly once in the order of exactly one monitor, the
\* one it names.
THEOREM WorkspacesStayPartitioned == Spec => []WorkspacesPartitioned
BY StoreIsSound, SoundIsPartitioned, PTL

\* The focus map and the workspace sets always name the same active workspaces.
THEOREM ActiveCopiesStayEqual == Spec => []ActiveCopiesAgree
BY StoreIsSound, SoundIsPartitioned, PTL

\* Whatever moves, every workspace has one home and both copies say which one is
\* shown there.
THEOREM WorkspacesAlwaysCohere == Spec => []WorkspacesCohere
BY StoreIsSound, SoundIsPartitioned, PTL DEF WorkspacesCohere
===========================================================================
