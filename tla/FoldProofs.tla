----------------------------- MODULE FoldProofs -----------------------------
(***************************************************************************)
(* Induction over the numbers, stated of sets rather than of predicates,   *)
(* and what it gives: minima, maxima, the numbering of a set in ascending  *)
(* order, and what a fold that fills a report map computes.                *)
(***************************************************************************)
EXTENDS ReportMap, SequencesExt, SequenceTheorems, FiniteSetTheorems, WellFoundedInduction, TLAPS

(* A set of numbers has a least element. *)
LEMMA LeastExists ==
  ASSUME NEW T \in SUBSET Nat, T # {}
  PROVE  \E x \in T : \A y \in T : x <= y
<1> DEFINE R == {ss \in Nat \X Nat : ss[1] < ss[2]}
<1>1. IsWellFoundedOn(R, Nat)
  BY NatLessThanWellFounded DEF OpToRel
<1>2. \A x, y \in Nat : <<y, x>> \notin R => x <= y
  OBVIOUS
<1> HIDE DEF R
<1>3. PICK x \in T : \A y \in T : <<y, x>> \notin R
  BY <1>1, WFMin
<1> QED
  BY <1>2, <1>3

LEMMA SetInduction ==
  ASSUME NEW S, 0 \in S, \A n \in Nat : n \in S => n + 1 \in S
  PROVE  Nat \subseteq S
<1> SUFFICES ASSUME Nat \ S # {}
             PROVE  FALSE
  OBVIOUS
<1>1. PICK x \in Nat \ S : \A y \in Nat \ S : x <= y
  BY LeastExists
<1>2. x # 0 /\ x - 1 \in Nat
  BY <1>1
<1>3. x - 1 \in S
  BY <1>1, <1>2
<1>4. (x - 1) + 1 = x
  BY <1>2
<1> QED
  BY <1>1, <1>2, <1>3, <1>4

(* Min and Max of a set of positions. *)
LEMMA MinIs ==
  ASSUME NEW T \in SUBSET Nat, T # {}
  PROVE  Min(T) \in T /\ \A y \in T : Min(T) <= y
BY LeastExists DEF Min

LEMMA MaxIs ==
  ASSUME NEW n \in Nat, NEW T \in SUBSET (1..n), T # {}
  PROVE  Max(T) \in T /\ \A y \in T : Max(T) >= y
<1> DEFINE D == {n - x : x \in T}
<1>1. D \in SUBSET Nat /\ D # {}
  <2>1. \A x \in T : n - x \in Nat
    OBVIOUS
  <2> QED
    BY <2>1
<1>2. PICK d \in D : \A y \in D : d <= y
  BY <1>1, LeastExists
<1>3. PICK x \in T : d = n - x
  BY <1>2
<1>4. \A y \in T : x >= y
  <2> SUFFICES ASSUME NEW y \in T
               PROVE  x >= y
    OBVIOUS
  <2>1. n - x <= n - y
    BY <1>2, <1>3
  <2> QED
    BY <2>1
<1> QED
  BY <1>3, <1>4 DEF Max

-----------------------------------------------------------------------------
(* The members of a set of positions, numbered from 0 in ascending order.  *)

Rank(T, k) == Cardinality({j \in T : j < k})

LEMMA PositionsAreFinite ==
  ASSUME NEW n \in Nat, NEW T \in SUBSET (1..n)
  PROVE  IsFiniteSet(T) /\ Cardinality(T) \in Nat
<1>1. IsFiniteSet(1..n)
  BY FS_Interval
<1> QED
  BY <1>1, FS_Subset, FS_CardinalityType

LEMMA RanksAreBelow ==
  ASSUME NEW T \in SUBSET Int, IsFiniteSet(T), NEW k \in T, NEW U \in SUBSET T,
         {j \in T : j < k} \subseteq U, k \in U
  PROVE  Rank(T, k) \in Nat /\ Rank(T, k) < Cardinality(U) /\ Cardinality(U) \in Nat
<1> DEFINE L == {j \in T : j < k}
<1>2. IsFiniteSet(U) /\ IsFiniteSet(L) /\ Cardinality(U) \in Nat /\ Cardinality(L) \in Nat
  BY FS_Subset, FS_CardinalityType
<1>3. k \notin L /\ L \cup {k} \subseteq U
  OBVIOUS
<1> HIDE DEF L
<1>4. Cardinality(L \cup {k}) = Cardinality(L) + 1
  BY <1>2, <1>3, FS_AddElement
<1>5. Cardinality(L \cup {k}) <= Cardinality(U)
  BY <1>2, <1>3, FS_Subset
<1> QED
  BY <1>2, <1>4, <1>5 DEF Rank, L

LEMMA FiniteRanks ==
  ASSUME NEW T \in SUBSET Int, IsFiniteSet(T)
  PROVE  /\ Cardinality(T) \in Nat
         /\ \A k \in T : Rank(T, k) \in 0..(Cardinality(T) - 1)
         /\ \A j, k \in T : Rank(T, j) = Rank(T, k) => j = k
         /\ \A r \in 0..(Cardinality(T) - 1) : \E k \in T : Rank(T, k) = r
<1> DEFINE c == Cardinality(T)
           f == [k \in T |-> Rank(T, k)]
<1>1. IsFiniteSet(T) /\ c \in Nat
  BY FS_CardinalityType
<1>2. ASSUME NEW k \in T
      PROVE  Rank(T, k) \in 0..(c - 1)
  <2>1. Rank(T, k) \in Nat /\ Rank(T, k) < c
    BY RanksAreBelow
  <2> QED
    BY <1>1, <2>1
<1>3. ASSUME NEW j \in T, NEW k \in T, j < k
      PROVE  Rank(T, j) < Rank(T, k)
  <2> DEFINE U == {l \in T : l < k}
  <2>1. \A l \in T : l < j => l < k
    BY <1>3
  <2>2. {l \in T : l < j} \subseteq U /\ j \in U /\ U \in SUBSET T
    BY <1>3, <2>1
  <2> HIDE DEF U
  <2>3. Rank(T, j) < Cardinality(U)
    BY <2>2, RanksAreBelow
  <2> QED
    BY <2>3 DEF U, Rank
<1>4. ASSUME NEW j \in T, NEW k \in T, Rank(T, j) = Rank(T, k)
      PROVE  j = k
  <2>1. Rank(T, j) \in Int /\ Rank(T, k) \in Int
    BY <1>1, <1>2
  <2>2. j < k \/ k < j \/ j = k
    OBVIOUS
  <2> QED
    BY <1>3, <1>4, <2>1, <2>2
<1> DEFINE Ids == 0..(c - 1)
<1>5. f \in Injection(T, Ids)
  BY <1>2, <1>4 DEF Injection, IsInjective
<1>6. IsFiniteSet(Ids) /\ Cardinality(Ids) = c
  <2> DEFINE l == c - 1
  <2>1. 0 \in Int /\ l \in Int /\ (IF 0 > l THEN 0 ELSE l - 0 + 1) = c
    BY <1>1
  <2> HIDE DEF c, l
  <2>2. IsFiniteSet(0..l) /\ Cardinality(0..l) = IF 0 > l THEN 0 ELSE l - 0 + 1
    BY ONLY <2>1, FS_Interval, Zenon
  <2>3. Cardinality(0..l) = c
    BY ONLY <2>1, <2>2
  <2> QED
    BY ONLY <2>2, <2>3, Zenon DEF l
<1> HIDE DEF f, Ids
<1>7. f \in Surjection(T, Ids)
  BY <1>5, <1>6, FS_Injection
<1>8. \A r \in Ids : \E k \in T : f[k] = r
  BY <1>7 DEF Surjection
<1> QED
  BY <1>1, <1>2, <1>4, <1>8 DEF f, Ids

LEMMA RanksAreIds ==
  ASSUME NEW n \in Nat, NEW T \in SUBSET (1..n)
  PROVE  /\ Cardinality(T) \in Nat
         /\ \A k \in T : Rank(T, k) \in 0..(Cardinality(T) - 1)
         /\ \A j, k \in T : Rank(T, j) = Rank(T, k) => j = k
         /\ \A r \in 0..(Cardinality(T) - 1) : \E k \in T : Rank(T, k) = r
<1>1. T \in SUBSET Int /\ IsFiniteSet(T)
  BY PositionsAreFinite
<1> QED
  BY <1>1, FiniteRanks

-----------------------------------------------------------------------------
(* Entries that are inserted one after the other: unserialize_mapping.     *)

InsertUnit(map, unit) == insert_mapping(map, unit[2].id, unit[2].name, unit[2].report)
InsertAll(units) == FoldLeft(LAMBDA map, unit : InsertUnit(map, unit), EmptyMap, units)

(* The fold is a function on the sets of positions, defined by recursion.    *)
Fold(units, T, g) ==
  [s \in SUBSET T |-> IF s = {} THEN EmptyMap ELSE InsertUnit(g[s \ {Max(s)}], units[Max(s)])]

LEMMA InsertAllIs ==
  ASSUME NEW units
  PROVE  InsertAll(units) = (CHOOSE g : g = Fold(units, DOMAIN units, g))[DOMAIN units]
BY DEF InsertAll, FoldLeft, MapThenFoldSet, Fold

(* There is such a function, for the sets of any number of positions.        *)
LEMMA FoldExists ==
  ASSUME NEW units, NEW n \in Nat
  PROVE  \E g : g = Fold(units, 1..n, g)
<1> DEFINE S == {m \in Nat : \E g : g = Fold(units, 1..m, g)}
<1>1. 0 \in S
  <2> DEFINE g == [s \in SUBSET (1..0) |-> EmptyMap]
  <2>1. \A s \in SUBSET (1..0) : s = {}
    OBVIOUS
  <2>2. g = Fold(units, 1..0, g)
    BY <2>1 DEF Fold
  <2> HIDE DEF g
  <2> QED
    BY <2>2
<1>2. ASSUME NEW m \in Nat, m \in S
      PROVE  m + 1 \in S
  <2>1. PICK g : g = Fold(units, 1..m, g)
    BY <1>2
  <2> DEFINE h == [s \in SUBSET (1..(m + 1)) |->
                     IF m + 1 \in s THEN InsertUnit(g[s \ {m + 1}], units[m + 1]) ELSE g[s]]
  <2>2. ASSUME NEW s \in SUBSET (1..(m + 1))
        PROVE  h[s] = IF s = {} THEN EmptyMap ELSE InsertUnit(h[s \ {Max(s)}], units[Max(s)])
    <3>0. m + 1 \in Nat /\ \A x \in 1..(m + 1) : x # m + 1 => x \in 1..m
      OBVIOUS
    <3>1. CASE m + 1 \in s
      <4>1. Max(s) \in s /\ Max(s) >= m + 1
        BY <3>0, <3>1, MaxIs
      <4>2. Max(s) = m + 1
        <5>1. Max(s) \in 1..(m + 1)
          BY <4>1
        <5> QED
          BY <4>1, <5>1
      <4>3. s \ {m + 1} \in SUBSET (1..m) /\ s \ {m + 1} \in SUBSET (1..(m + 1))
        BY <3>0
      <4>4. h[s \ {m + 1}] = g[s \ {m + 1}]
        BY <4>3
      <4>5. h[s] = InsertUnit(g[s \ {m + 1}], units[m + 1])
        BY <3>1
      <4> QED
        BY <3>1, <4>2, <4>4, <4>5
    <3>2. CASE m + 1 \notin s
      <4>1. s \in SUBSET (1..m)
        BY <3>0, <3>2
      <4>2. h[s] = g[s]
        BY <3>2
      <4>3. g[s] = IF s = {} THEN EmptyMap ELSE InsertUnit(g[s \ {Max(s)}], units[Max(s)])
        BY <2>1, <4>1 DEF Fold
      <4>4. s \ {Max(s)} \in SUBSET (1..(m + 1)) /\ m + 1 \notin s \ {Max(s)}
        BY <3>2
      <4>5. h[s \ {Max(s)}] = g[s \ {Max(s)}]
        BY <4>4
      <4> QED
        BY <4>2, <4>3, <4>5
    <3> QED
      BY <3>1, <3>2
  <2>3. h = [s \in SUBSET (1..(m + 1)) |-> h[s]]
    OBVIOUS
  <2> HIDE DEF h
  <2>4. h = Fold(units, 1..(m + 1), h)
    BY <2>2, <2>3 DEF Fold
  <2> QED
    BY <2>4
<1> HIDE DEF S
<1>3. Nat \subseteq S
  BY <1>1, <1>2, SetInduction
<1> QED
  BY <1>3 DEF S

LEMMA SeqIs ==
  ASSUME NEW S, NEW n \in Nat, NEW q \in [1..n -> S]
  PROVE  q \in Seq(S) /\ Len(q) = n
OBVIOUS

(* Entries with the ids 0, 1, ... that are inserted into an empty map one    *)
(* after the other make the map that is the sequence of them.                *)
LEMMA InsertsInOrder ==
  ASSUME NEW n \in Nat, NEW map, NEW units, map = [k \in 1..n |-> map[k]], DOMAIN units = 1..n,
         \A k \in 1..n : /\ units[k][2] = map[k]
                         /\ map[k] = Entry(k - 1, map[k].name, map[k].report)
  PROVE  InsertAll(units) = map
<1> DEFINE g == CHOOSE f : f = Fold(units, 1..n, f)
           Part(m) == [k \in 1..m |-> map[k]]
           S == {m \in Nat : m <= n => g[1..m] = Part(m)}
<1>1. g = Fold(units, 1..n, g)
  BY FoldExists
<1>2. InsertAll(units) = g[1..n]
  BY InsertAllIs
<1> HIDE DEF g
<1>3. \A s \in SUBSET (1..n) :
        g[s] = IF s = {} THEN EmptyMap ELSE InsertUnit(g[s \ {Max(s)}], units[Max(s)])
  BY <1>1 DEF Fold
<1>4. 0 \in S
  <2>1. g[1..0] = EmptyMap
    <3>1. 1..0 = {} /\ {} \in SUBSET (1..n)
      OBVIOUS
    <3>2. g[{}] = EmptyMap
      BY <1>3, <3>1
    <3> QED
      BY <3>1, <3>2
  <2>2. Part(0) = <<>>
    OBVIOUS
  <2> QED
    BY <2>1, <2>2 DEF EmptyMap
<1>5. ASSUME NEW m \in Nat, m \in S
      PROVE  m + 1 \in S
  <2> SUFFICES ASSUME m + 1 <= n
               PROVE  g[1..(m + 1)] = Part(m + 1)
    OBVIOUS
  <2>1. /\ g[1..m] = Part(m) /\ 1..(m + 1) \in SUBSET (1..n) /\ 1..(m + 1) # {}
        /\ m + 1 \in 1..(m + 1) /\ m + 1 \in 1..n /\ m + 1 \in Nat
    BY <1>5
  <2>2. Max(1..(m + 1)) = m + 1
    <3>1. Max(1..(m + 1)) \in 1..(m + 1) /\ Max(1..(m + 1)) >= m + 1
      BY <2>1, MaxIs
    <3> QED
      BY <3>1
  <2>3. (1..(m + 1)) \ {m + 1} = 1..m
    OBVIOUS
  <2>4. g[1..(m + 1)] = InsertUnit(Part(m), units[m + 1])
    <3> DEFINE s == 1..(m + 1)
    <3>1. s \in SUBSET (1..n) /\ s # {} /\ Max(s) = m + 1 /\ s \ {m + 1} = 1..m
      BY <2>1, <2>2, <2>3
    <3> HIDE DEF s
    <3>2. g[s] = InsertUnit(g[s \ {Max(s)}], units[Max(s)])
      BY <1>3, <3>1
    <3>3. g[s] = InsertUnit(Part(m), units[m + 1])
      BY <2>1, <3>1, <3>2
    <3> QED
      BY <3>3 DEF s
  <2>5. InsertUnit(Part(m), units[m + 1]) =
          insert_mapping(Part(m), map[m + 1].id, map[m + 1].name, map[m + 1].report)
    BY <2>1 DEF InsertUnit
  <2>6. map[m + 1].id = m /\ map[m + 1] = Entry(m, map[m + 1].name, map[m + 1].report)
    BY <2>1 DEF Entry
  <2>7. Positions(Part(m), m) = {}
    <3>1. ASSUME NEW k \in 1..m
          PROVE  Part(m)[k].id # m
      <4>1. k \in 1..n /\ Part(m)[k] = map[k]
        BY <2>1
      <4>2. map[k].id = k - 1
        BY <4>1 DEF Entry
      <4> QED
        BY <4>1, <4>2
    <3> QED
      BY <3>1 DEF Positions
  <2>8. g[1..(m + 1)] = Append(Part(m), map[m + 1])
    BY <2>4, <2>5, <2>6, <2>7 DEF insert_mapping
  <2>9. Append(Part(m), map[m + 1]) = Part(m + 1)
    <3> DEFINE T == {map[l] : l \in 1..n}
    <3>1. \A k \in 1..(m + 1) : map[k] \in T
      BY <2>1
    <3> HIDE DEF T
    <3>2. \A k \in 1..m : map[k] \in T
      <4>1. \A k \in 1..m : k \in 1..(m + 1)
        OBVIOUS
      <4> QED
        BY <3>1, <4>1
    <3>3. Part(m) \in [1..m -> T] /\ Part(m + 1) \in [1..(m + 1) -> T]
      <4>1. Part(m) \in [1..m -> T]
        BY <3>2
      <4>2. Part(m + 1) \in [1..(m + 1) -> T]
        BY <3>1
      <4> QED
        BY <4>1, <4>2
    <3> HIDE DEF Part
    <3>4. Part(m) \in Seq(T) /\ Len(Part(m)) = m
      BY <3>3, SeqIs
    <3>5. Part(m + 1) \in Seq(T) /\ Len(Part(m + 1)) = m + 1
      BY <3>3, <2>1, SeqIs
    <3>6. map[m + 1] \in T
      BY <2>1, <3>1
    <3>7. /\ Append(Part(m), map[m + 1]) \in Seq(T) /\ Len(Append(Part(m), map[m + 1])) = m + 1
          /\ \A k \in 1..m : Append(Part(m), map[m + 1])[k] = Part(m)[k]
          /\ Append(Part(m), map[m + 1])[m + 1] = map[m + 1]
      BY <3>4, <3>6, AppendProperties
    <3>8. \A k \in 1..(m + 1) : k = m + 1 \/ k \in 1..m
      OBVIOUS
    <3>9. \A k \in 1..(m + 1) : Append(Part(m), map[m + 1])[k] = Part(m + 1)[k]
      BY <2>1, <3>7, <3>8 DEF Part
    <3> QED
      BY <3>5, <3>7, <3>9, SeqEqual
  <2> QED
    BY <2>8, <2>9
<1> HIDE DEF S
<1>6. Nat \subseteq S
  BY <1>4, <1>5, SetInduction
<1>7. g[1..n] = Part(n)
  BY <1>6 DEF S
<1> QED
  BY <1>2, <1>7

-----------------------------------------------------------------------------
(* A fold of numbers: a step takes a position and what the positions before  *)
(* it gave.                                                                  *)

LEMMA MaxOfPrefix ==
  ASSUME NEW m \in Nat
  PROVE  /\ Max(1..(m + 1)) = m + 1 /\ 1..(m + 1) # {} /\ (1..(m + 1)) \ {m + 1} = 1..m
<1>1. m + 1 \in Nat /\ m + 1 \in 1..(m + 1) /\ 1..(m + 1) \in SUBSET (1..(m + 1)) /\ 1..(m + 1) # {}
  OBVIOUS
<1>2. Max(1..(m + 1)) \in 1..(m + 1) /\ Max(1..(m + 1)) >= m + 1
  BY <1>1, MaxIs
<1>3. Max(1..(m + 1)) = m + 1
  BY <1>2
<1>4. (1..(m + 1)) \ {m + 1} = 1..m
  OBVIOUS
<1> QED
  BY <1>1, <1>3, <1>4

StepFold(step, base, n, g) ==
  [s \in SUBSET (1..n) |-> IF s = {} THEN base ELSE step[<<Max(s), g[s \ {Max(s)}]>>]]

LEMMA StepsExist ==
  ASSUME NEW A, NEW base \in A, NEW step, NEW n \in Nat,
         \A k \in 1..n : \A a \in A : step[<<k, a>>] \in A
  PROVE  \E g : g = StepFold(step, base, n, g) /\ \A s \in SUBSET (1..n) : g[s] \in A
<1> DEFINE Is(g, m) ==
             /\ g = StepFold(step, base, m, g)
             /\ \A s \in SUBSET (1..m) : g[s] \in A
           Exists(m) == \E g : Is(g, m)
           S == {m \in Nat : m <= n => Exists(m)}
<1>0. \A m \in Nat : m \in S <=> (m <= n => Exists(m))
  <2> HIDE DEF Exists
  <2> QED
    OBVIOUS
<1> HIDE DEF S
<1>1. 0 \in S
  <2> DEFINE g == [s \in SUBSET (1..0) |-> base]
  <2>1. \A s \in SUBSET (1..0) : s = {}
    OBVIOUS
  <2>2. Is(g, 0)
    BY <2>1 DEF StepFold
  <2> HIDE DEF g, Is
  <2> QED
    BY <1>0, <2>2
<1>2. ASSUME NEW m \in Nat, m \in S, m + 1 <= n
      PROVE  Exists(m + 1)
  <2>1. PICK g : Is(g, m)
    <3> HIDE DEF Is
    <3> QED
      BY <1>0, <1>2
  <2> DEFINE h == [s \in SUBSET (1..(m + 1)) |->
                     IF m + 1 \in s THEN step[<<m + 1, g[s \ {m + 1}]>>] ELSE g[s]]
  <2>2. ASSUME NEW s \in SUBSET (1..(m + 1))
        PROVE  h[s] = (IF s = {} THEN base ELSE step[<<Max(s), h[s \ {Max(s)}]>>]) /\ h[s] \in A
    <3>0. m + 1 \in Nat /\ m + 1 \in 1..n /\ \A x \in 1..(m + 1) : x # m + 1 => x \in 1..m
      BY <1>2
    <3>1. CASE m + 1 \in s
      <4>1. Max(s) \in s /\ Max(s) >= m + 1
        BY <3>0, <3>1, MaxIs
      <4>2. Max(s) = m + 1
        <5>1. Max(s) \in 1..(m + 1)
          BY <4>1
        <5> QED
          BY <4>1, <5>1
      <4>3. s \ {m + 1} \in SUBSET (1..m) /\ s \ {m + 1} \in SUBSET (1..(m + 1))
        BY <3>0
      <4>4. h[s \ {m + 1}] = g[s \ {m + 1}] /\ g[s \ {m + 1}] \in A
        BY <2>1, <4>3
      <4>5. h[s] = step[<<m + 1, g[s \ {m + 1}]>>]
        BY <3>1
      <4>6. step[<<m + 1, g[s \ {m + 1}]>>] \in A
        BY <3>0, <4>4
      <4> HIDE DEF h
      <4> QED
        BY <3>1, <4>2, <4>4, <4>5, <4>6
    <3>2. CASE m + 1 \notin s
      <4>1. s \in SUBSET (1..m)
        BY <3>0, <3>2
      <4>2. h[s] = g[s]
        BY <3>2
      <4>3. g[s] = (IF s = {} THEN base ELSE step[<<Max(s), g[s \ {Max(s)}]>>]) /\ g[s] \in A
        BY <2>1, <4>1 DEF StepFold
      <4>4. s \ {Max(s)} \in SUBSET (1..(m + 1)) /\ m + 1 \notin s \ {Max(s)}
        BY <3>2
      <4>5. h[s \ {Max(s)}] = g[s \ {Max(s)}]
        BY <4>4
      <4> HIDE DEF h
      <4> QED
        BY <4>2, <4>3, <4>5
    <3> QED
      BY <3>1, <3>2
  <2>3. h = [s \in SUBSET (1..(m + 1)) |-> h[s]]
    OBVIOUS
  <2> HIDE DEF h
  <2>4. Is(h, m + 1)
    BY <2>2, <2>3 DEF StepFold
  <2> HIDE DEF Is
  <2> QED
    BY <2>4
<1>3. Nat \subseteq S
  <2> HIDE DEF Exists
  <2>1. ASSUME NEW m \in Nat, m \in S
        PROVE  m + 1 \in S
    BY <1>0, <1>2, <2>1
  <2> QED
    BY <1>1, <2>1, SetInduction
<1>4. Exists(n)
  <2> HIDE DEF Exists
  <2> QED
    BY <1>0, <1>3
<1> QED
  BY <1>4
=============================================================================
