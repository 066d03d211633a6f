------------------------- MODULE MappingFormatProofs -------------------------
(***************************************************************************)
(* Theorems about MappingFormat, for bytes of any number of values, maps   *)
(* of any size and strings of any length: what serialize_mapping writes,   *)
(* unserialize_mapping reads back.                                         *)
(***************************************************************************)
EXTENDS MappingFormat, FoldProofs

-----------------------------------------------------------------------------
(* Numbers and their bytes.                                                *)

LEMMA PlacesAre ==
  /\ Place[0] = 1 /\ \A n \in 1..SizeBytes : Place[n] = Base * Place[n - 1]
  /\ \A n \in 0..SizeBytes : Place[n] \in Nat \ {0}
<1> DEFINE f1 == Base
           f2 == Base * f1
           f3 == Base * f2
           f4 == Base * f3
           f5 == Base * f4
           f6 == Base * f5
           f7 == Base * f6
           f8 == Base * f7
           f == [n \in 0..8 |-> IF n = 0 THEN 1 ELSE IF n = 1 THEN f1 ELSE IF n = 2 THEN f2
                   ELSE IF n = 3 THEN f3 ELSE IF n = 4 THEN f4 ELSE IF n = 5 THEN f5
                   ELSE IF n = 6 THEN f6 ELSE IF n = 7 THEN f7 ELSE f8]
           P(g) == g = [n \in 0..SizeBytes |-> IF n = 0 THEN 1 ELSE Base * g[n - 1]]
<1>1. P(f)
  <2>0. f1 = Base * 1 /\ f2 = Base * f1 /\ f3 = Base * f2 /\ f4 = Base * f3 /\ f5 = Base * f4
        /\ f6 = Base * f5 /\ f7 = Base * f6 /\ f8 = Base * f7
    BY BaseAssumption
  <2> HIDE DEF f1, f2, f3, f4, f5, f6, f7, f8
  <2>1. /\ f[0] = 1 /\ f[1] = f1 /\ f[2] = f2 /\ f[3] = f3 /\ f[4] = f4 /\ f[5] = f5 /\ f[6] = f6
        /\ f[7] = f7 /\ f[8] = f8 /\ f = [n \in 0..8 |-> f[n]]
    OBVIOUS
  <2> HIDE DEF f
  <2>2. ASSUME NEW n \in 0..8
        PROVE  f[n] = IF n = 0 THEN 1 ELSE Base * f[n - 1]
    <3>1. n = 0 \/ n = 1 \/ n = 2 \/ n = 3 \/ n = 4 \/ n = 5 \/ n = 6 \/ n = 7 \/ n = 8
      OBVIOUS
    <3> QED
      BY <2>0, <2>1, <3>1
  <2>3. f = [n \in 0..8 |-> IF n = 0 THEN 1 ELSE Base * f[n - 1]]
    BY <2>1, <2>2
  <2> QED
    BY <2>3 DEF SizeBytes
<1> HIDE DEF f
<1>2. P(Place)
  <2>1. Place = CHOOSE g : P(g)
    BY DEF Place
  <2> HIDE DEF P
  <2> QED
    BY <1>1, <2>1
<1>3. Place[0] = 1 /\ \A n \in 1..8 : Place[n] = Base * Place[n - 1]
  BY <1>2 DEF SizeBytes
<1> HIDE DEF P
<1> DEFINE S == {n \in Nat : n <= 8 => Place[n] \in Nat \ {0}}
<1>4. 0 \in S
  BY <1>3
<1>5. ASSUME NEW n \in Nat, n \in S
      PROVE  n + 1 \in S
  <2> SUFFICES ASSUME n + 1 <= 8
               PROVE  Place[n + 1] \in Nat \ {0}
    OBVIOUS
  <2>1. Place[n] \in Nat \ {0} /\ n + 1 \in 1..8 /\ (n + 1) - 1 = n
    BY <1>5
  <2>2. Place[n + 1] = Base * Place[n]
    BY <1>3, <2>1
  <2>3. \A a, b \in Nat \ {0} : a * b \in Nat \ {0}
    OBVIOUS
  <2> QED
    BY <2>1, <2>2, <2>3, BaseAssumption
<1> HIDE DEF S
<1>6. Nat \subseteq S
  BY <1>4, <1>5, SetInduction
<1>7. \A n \in 0..8 : Place[n] \in Nat \ {0}
  BY <1>6 DEF S
<1> QED
  BY <1>3, <1>7 DEF SizeBytes

(* The value of the first bytes of a sequence.                               *)
IsValue(v, bytes) ==
  /\ v[0] = 0 /\ \A m \in 1..Len(bytes) : v[m] = v[m - 1] * Base + bytes[m]
  /\ \A m \in 0..Len(bytes) : v[m] \in Int

LEMMA NumberIs ==
  ASSUME NEW bytes \in Seq(Int)
  PROVE  \E v : IsValue(v, bytes) /\ Number(bytes) = v[Len(bytes)]
<1> DEFINE n == Len(bytes)
           P(g) == g = [s \in SUBSET (1..n) |->
                          IF s = {} THEN 0 ELSE g[s \ {Max(s)}] * Base + bytes[Max(s)]]
<1>1. n \in Nat /\ DOMAIN bytes = 1..n /\ \A k \in 1..n : bytes[k] \in Int
  OBVIOUS
<1>2. \E g : P(g)
  <2> DEFINE step == [p \in (1..n) \X Int |-> p[2] * Base + bytes[p[1]]]
  <2>1. \A k \in 1..n : \A a \in Int : step[<<k, a>>] \in Int
    <3> SUFFICES ASSUME NEW k \in 1..n, NEW a \in Int
                 PROVE  step[<<k, a>>] \in Int
      OBVIOUS
    <3>1. step[<<k, a>>] = a * Base + bytes[k]
      OBVIOUS
    <3> HIDE DEF step, n
    <3>2. a * Base \in Int /\ bytes[k] \in Int
      BY <1>1, BaseAssumption
    <3> QED
      BY <3>1, <3>2
  <2>2. \A k \in 1..n : \A a \in Int : step[<<k, a>>] = a * Base + bytes[k]
    OBVIOUS
  <2> HIDE DEF step
  <2>3. PICK g : g = StepFold(step, 0, n, g) /\ \A s \in SUBSET (1..n) : g[s] \in Int
    <3> HIDE DEF n
    <3>1. n \in Nat /\ 0 \in Int
      BY <1>1
    <3> QED
      BY <2>1, <3>1, StepsExist
  <2>4. ASSUME NEW s \in SUBSET (1..n)
        PROVE  g[s] = IF s = {} THEN 0 ELSE g[s \ {Max(s)}] * Base + bytes[Max(s)]
    <3>1. s # {} => Max(s) \in 1..n
      BY <1>1, MaxIs
    <3>2. g[s \ {Max(s)}] \in Int
      <4>1. s \ {Max(s)} \in SUBSET (1..n)
        OBVIOUS
      <4> QED
        BY <2>3, <4>1
    <3>3. g[s] = IF s = {} THEN 0 ELSE step[<<Max(s), g[s \ {Max(s)}]>>]
      BY <2>3 DEF StepFold
    <3> QED
      BY <2>2, <3>1, <3>2, <3>3
  <2>5. g = [s \in SUBSET (1..n) |-> g[s]]
    BY <2>3 DEF StepFold
  <2>6. P(g)
    BY <2>4, <2>5
  <2> QED
    BY <2>6
<1> DEFINE g == CHOOSE h : P(h)
           v == [m \in 0..n |-> g[1..m]]
<1>3. Number(bytes) = g[1..n]
  BY <1>1 DEF Number, FoldLeft, MapThenFoldSet
<1>4. P(g)
  BY <1>2
<1> HIDE DEF g
<1>5. \A s \in SUBSET (1..n) :
        g[s] = IF s = {} THEN 0 ELSE g[s \ {Max(s)}] * Base + bytes[Max(s)]
  BY <1>4
<1> HIDE DEF P
<1>6. v[0] = 0
  <2>1. 1..0 = {} /\ {} \in SUBSET (1..n) /\ 0 \in 0..n
    BY <1>1
  <2> QED
    BY <1>5, <2>1
<1>7. ASSUME NEW m \in 1..n
      PROVE  v[m] = v[m - 1] * Base + bytes[m]
  <2> DEFINE l == m - 1
             s == 1..m
  <2>1. l \in Nat /\ l + 1 = m /\ l \in 0..n /\ m \in 0..n
    BY <1>1
  <2>2. Max(s) = m /\ s # {} /\ s \ {m} = 1..l
    <3>1. Max(1..(l + 1)) = l + 1 /\ 1..(l + 1) # {} /\ (1..(l + 1)) \ {l + 1} = 1..l
      BY <2>1, MaxOfPrefix
    <3> QED
      BY <2>1, <3>1
  <2>3. s \in SUBSET (1..n)
    BY <1>1
  <2> HIDE DEF s
  <2>4. g[s] = g[1..l] * Base + bytes[m]
    BY <1>5, <2>2, <2>3
  <2> QED
    BY <2>1, <2>4 DEF s
<1>12. Number(bytes) = v[n]
  BY <1>1, <1>3
<1> HIDE DEF v
<1> DEFINE S == {m \in Nat : m <= n => v[m] \in Int}
<1>8. 0 \in S
  BY <1>6
<1>9. ASSUME NEW m \in Nat, m \in S
      PROVE  m + 1 \in S
  <2> SUFFICES ASSUME m + 1 <= n
               PROVE  v[m + 1] \in Int
    OBVIOUS
  <2>1. v[m] \in Int /\ m + 1 \in 1..n /\ (m + 1) - 1 = m
    BY <1>1, <1>9
  <2>2. v[m + 1] = v[m] * Base + bytes[m + 1]
    BY <1>7, <2>1
  <2>3. \A a, b, c \in Int : a * b + c \in Int
    OBVIOUS
  <2> QED
    BY <1>1, <2>1, <2>2, <2>3, BaseAssumption
<1> HIDE DEF S
<1>10. Nat \subseteq S
  BY <1>8, <1>9, SetInduction
<1>11. \A m \in 0..n : v[m] \in Int
  BY <1>1, <1>10 DEF S
<1> QED
  BY <1>6, <1>7, <1>11, <1>12 DEF IsValue

-----------------------------------------------------------------------------
(* Division.                                                               *)

LEMMA BaseIs == Base \in Nat \ {0} /\ Base \in Int
BY BaseAssumption

LEMMA DivIs ==
  ASSUME NEW x \in Nat, NEW d \in Nat \ {0}
  PROVE  /\ x \div d \in Nat /\ x % d \in 0..(d - 1)
         /\ x = d * (x \div d) + (x % d)
<1> DEFINE q == x \div d
           r == x % d
<1>1. q = x \div d /\ r = x % d
  OBVIOUS
<1> HIDE DEF q, r
<1>2. x = d * q + r /\ q \in Int /\ r >= 0 /\ r < d
  BY <1>1, SMT
<1>3. q \in Nat /\ r \in 0..(d - 1)
  BY <1>1, SMT
<1> QED
  BY <1>1, <1>2, <1>3

LEMMA DivUnique ==
  ASSUME NEW x \in Nat, NEW d \in Nat \ {0}, NEW q \in Nat, d * q <= x, x < d * (q + 1)
  PROVE  x \div d = q
<1>1. PICK y \in Nat : y = x \div d
  BY DivIs
<1>2. d * y <= x /\ x < d * (y + 1)
  <2>1. PICK r \in 0..(d - 1) : x = d * y + r
    BY <1>1, DivIs
  <2>2. d * (y + 1) = d * y + d /\ d * y \in Nat
    OBVIOUS
  <2> QED
    BY <2>1, <2>2
<1>3. ~ y < q
  <2> SUFFICES ASSUME y + 1 <= q
               PROVE  FALSE
    OBVIOUS
  <2>1. \A a, b, c \in Nat : a <= b => c * a <= c * b
    BY Z3
  <2>2. d * (y + 1) <= d * q
    BY <2>1
  <2> QED
    BY <1>2, <2>2
<1>4. ~ q < y
  <2> SUFFICES ASSUME q + 1 <= y
               PROVE  FALSE
    OBVIOUS
  <2>1. \A a, b, c \in Nat : a <= b => c * a <= c * b
    BY Z3
  <2>2. d * (q + 1) <= d * y
    BY <2>1
  <2> QED
    BY <1>2, <2>2
<1> QED
  BY <1>1, <1>3, <1>4

LEMMA DivDiv ==
  ASSUME NEW x \in Nat, NEW p \in Nat \ {0}, NEW b \in Nat \ {0}
  PROVE  x \div (b * p) = (x \div p) \div b
<1>1. PICK q \in Nat, s \in 0..(p - 1) : q = x \div p /\ x = p * q + s
  BY DivIs
<1>2. PICK r \in Nat, t \in 0..(b - 1) : r = q \div b /\ q = b * r + t
  BY DivIs
<1>3. b * p \in Nat \ {0} /\ (b * p) * r = p * (b * r) /\ (b * p) * (r + 1) = p * (b * r + b)
  BY Z3
<1>4. \A a, c \in Nat : a <= c => p * a <= p * c
  BY Z3
<1>5. b * r \in Nat /\ b * r + b \in Nat /\ b * r <= q /\ q + 1 <= b * r + b
  BY <1>2
<1>6. p * (b * r) <= p * q /\ p * (q + 1) <= p * (b * r + b)
  BY <1>4, <1>5
<1>7. p * (q + 1) = p * q + p /\ p * q \in Nat
  OBVIOUS
<1>8. (b * p) * r <= x /\ x < (b * p) * (r + 1)
  BY <1>1, <1>3, <1>6, <1>7
<1>9. x \div (b * p) = r
  BY <1>3, <1>8, DivUnique
<1> QED
  BY <1>1, <1>2, <1>9

LEMMA SmallIsItsRemainder ==
  ASSUME NEW x \in Nat, NEW d \in Nat \ {0}, x < d
  PROVE  x % d = x
  BY Z3

-----------------------------------------------------------------------------
(* A number that n bytes hold is the number of its n bytes.                 *)

LEMMA BytesType ==
  ASSUME NEW x \in Nat, NEW n \in 0..SizeBytes
  PROVE  /\ Bytes(x, n) \in Seq(Byte) /\ Len(Bytes(x, n)) = n
         /\ \A k \in 1..n : Bytes(x, n)[k] = (x \div Place[n - k]) % Base
<1>1. ASSUME NEW k \in 1..n
      PROVE  (x \div Place[n - k]) % Base \in Byte
  <2>1. n - k \in 0..SizeBytes
    BY DEF SizeBytes
  <2>2. x \div Place[n - k] \in Nat
    BY <2>1, PlacesAre, DivIs
  <2>3. \A y \in Nat : y % Base \in 0..(Base - 1)
    BY DivIs, BaseIs
  <2> QED
    BY <2>2, <2>3 DEF Byte
<1>2. Bytes(x, n) \in [1..n -> Byte]
  BY <1>1 DEF Bytes
<1>3. n \in Nat
  OBVIOUS
<1>4. Bytes(x, n) \in Seq(Byte) /\ Len(Bytes(x, n)) = n
  BY <1>2, <1>3, SeqIs
<1> QED
  BY <1>4 DEF Bytes

LEMMA BytesAreInts == Seq(Byte) \subseteq Seq(Int)
BY SeqMonotonic, BaseAssumption DEF Byte

LEMMA DigitsAre ==
  ASSUME NEW x \in Nat, NEW n \in 0..SizeBytes, x < Place[n]
  PROVE  Number(Bytes(x, n)) = x
<1> DEFINE b == Bytes(x, n)
<1>1. b \in Seq(Int) /\ Len(b) = n /\ \A k \in 1..n : b[k] = (x \div Place[n - k]) % Base
  BY BytesType, BytesAreInts
<1>2. n \in Nat /\ \A m \in 0..n : n - m \in 0..SizeBytes
  BY DEF SizeBytes
<1> HIDE DEF b
<1>3. PICK v : IsValue(v, b) /\ Number(b) = v[n]
  BY <1>1, NumberIs
<1> DEFINE S == {m \in Nat : m <= n => v[m] = x \div Place[n - m]}
<1>4. 0 \in S
  <2>1. Place[n] \in Nat \ {0}
    BY PlacesAre
  <2>2. Place[n] * 0 <= x /\ x < Place[n] * (0 + 1)
    BY <2>1
  <2>3. x \div Place[n] = 0
    BY <2>1, <2>2, DivUnique
  <2>4. n - 0 = n
    BY <1>2
  <2> QED
    BY <1>3, <2>3, <2>4 DEF IsValue
<1>5. ASSUME NEW m \in Nat, m \in S
      PROVE  m + 1 \in S
  <2> SUFFICES ASSUME m + 1 <= n
               PROVE  v[m + 1] = x \div Place[n - (m + 1)]
    OBVIOUS
  <2>1. v[m] = x \div Place[n - m] /\ m + 1 \in 1..n /\ (m + 1) - 1 = m
    BY <1>2, <1>5
  <2> DEFINE l == n - (m + 1)
             p == Place[l]
             q == x \div p
  <2>2. l \in 0..SizeBytes /\ n - m \in 1..SizeBytes /\ (n - m) - 1 = l
    BY <1>2, <2>1 DEF SizeBytes
  <2>3. p \in Nat \ {0} /\ Place[n - m] = Base * p
    BY <2>2, PlacesAre
  <2>4. v[m + 1] = v[m] * Base + b[m + 1]
    BY <1>1, <1>3, <2>1 DEF IsValue
  <2> HIDE DEF p
  <2>5. v[m] = q \div Base
    <3>1. \A a, b1 \in Nat \ {0} : x \div (a * b1) = (x \div b1) \div a
      BY DivDiv
    <3>2. x \div (Base * p) = (x \div p) \div Base
      BY <2>3, <3>1, BaseIs
    <3> QED
      BY <2>1, <2>3, <3>2
  <2>6. b[m + 1] = q % Base
    BY <1>1, <2>1 DEF p
  <2>7. q \in Nat
    BY <2>3, DivIs
  <2> HIDE DEF q
  <2>8. q = Base * (q \div Base) + (q % Base) /\ q \div Base \in Nat
    <3>1. \A d \in Nat \ {0} : q = d * (q \div d) + (q % d) /\ q \div d \in Nat
      BY <2>7, DivIs
    <3> QED
      BY <3>1, BaseIs
  <2>9. \A a \in Nat : a * Base = Base * a
    BY BaseAssumption
  <2>10. v[m + 1] = q
    <3>1. v[m + 1] = (q \div Base) * Base + (q % Base)
      BY <2>4, <2>5, <2>6
    <3>2. (q \div Base) * Base = Base * (q \div Base)
      BY <2>8, <2>9
    <3> HIDE DEF q
    <3> QED
      BY ONLY <2>8, <3>1, <3>2
  <2> QED
    BY <2>10 DEF q, p
<1> HIDE DEF S
<1>6. Nat \subseteq S
  BY <1>4, <1>5, SetInduction
<1>7. v[n] = x \div Place[n - n]
  BY <1>2, <1>6 DEF S
<1>8. n - n = 0 /\ x \div 1 = x
  BY <1>2
<1> QED
  BY <1>3, <1>7, <1>8, PlacesAre DEF b

LEMMA NumberRange ==
  ASSUME NEW bytes \in Seq(Byte), Len(bytes) <= SizeBytes
  PROVE  Number(bytes) \in 0..(Place[Len(bytes)] - 1)
<1> DEFINE n == Len(bytes)
<1>1. bytes \in Seq(Int)
  BY BytesAreInts
<1>2. PICK v : IsValue(v, bytes) /\ Number(bytes) = v[n]
  BY <1>1, NumberIs
<1>3. n \in 0..SizeBytes /\ n \in Nat /\ \A k \in 1..n : bytes[k] \in Byte
  <2>1. n \in Nat /\ n <= SizeBytes /\ \A k \in 1..n : bytes[k] \in Byte
    OBVIOUS
  <2> HIDE DEF n
  <2> QED
    BY <2>1 DEF SizeBytes
<1> HIDE DEF n
<1> DEFINE S == {m \in Nat : m <= n => v[m] \in 0..(Place[m] - 1)}
<1>4. 0 \in S
  BY <1>2, PlacesAre DEF IsValue
<1>5. ASSUME NEW m \in Nat, m \in S
      PROVE  m + 1 \in S
  <2> SUFFICES ASSUME m + 1 <= n
               PROVE  v[m + 1] \in 0..(Place[m + 1] - 1)
    OBVIOUS
  <2>1. m \in 0..n /\ m + 1 \in 1..n /\ (m + 1) - 1 = m /\ m \in 0..SizeBytes /\ m + 1 \in 1..SizeBytes
    BY <1>3 DEF SizeBytes
  <2>2. v[m] \in 0..(Place[m] - 1)
    BY <1>5, <2>1
  <2>3. v[m + 1] = v[m] * Base + bytes[m + 1]
    BY <1>2, <2>1 DEF IsValue, n
  <2>4. bytes[m + 1] \in 0..(Base - 1)
    BY <1>3, <2>1 DEF Byte
  <2>5. Place[m] \in Nat \ {0} /\ Place[m + 1] = Base * Place[m]
    BY <2>1, PlacesAre
  <2>6. \A a \in Nat \ {0} : \A p \in Nat \ {0} : \A x \in 0..(p - 1) : \A y \in 0..(a - 1) :
          x * a + y \in 0..(a * p - 1)
    <3> SUFFICES ASSUME NEW a \in Nat \ {0}, NEW p \in Nat \ {0}, NEW x \in 0..(p - 1), NEW y \in 0..(a - 1)
                 PROVE  x * a + y \in 0..(a * p - 1)
      OBVIOUS
    <3>1. PICK z \in Nat : p = x + 1 + z
      <4>1. p - (x + 1) \in Nat /\ p = x + 1 + (p - (x + 1))
        OBVIOUS
      <4> QED
        BY <4>1
    <3>2. x * a \in Nat /\ z * a \in Nat /\ a * p = x * a + a + z * a
      BY <3>1
    <3> QED
      BY <3>2
  <2>7. v[m] * Base + bytes[m + 1] \in 0..(Base * Place[m] - 1)
    <3> DEFINE p == Place[m]
               y == bytes[m + 1]
    <3>1. Base \in Nat \ {0} /\ p \in Nat \ {0} /\ v[m] \in 0..(p - 1) /\ y \in 0..(Base - 1)
      BY <2>2, <2>4, <2>5, BaseAssumption
    <3> HIDE DEF p, y
    <3>2. v[m] * Base + y \in 0..(Base * p - 1)
      BY <2>6, <3>1
    <3> QED
      BY <3>2 DEF p, y
  <2> QED
    BY <2>3, <2>5, <2>7
<1> HIDE DEF S
<1>6. Nat \subseteq S
  BY <1>4, <1>5, SetInduction
<1> QED
  BY <1>2, <1>3, <1>6 DEF S, n

-----------------------------------------------------------------------------
(* Where the entries of a map start in its serialized form.                 *)

EntryType == [id : MapIds, name : Names, report : Names]

LEMMA EntryIs ==
  ASSUME NEW e \in EntryType
  PROVE  /\ e.id \in Nat /\ e.id < UIntSpace
         /\ e.name \in Seq(Byte) /\ e.report \in Seq(Byte)
         /\ Len(e.name) \in Nat /\ Len(e.report) \in Nat
         /\ EntrySize(e) = 12 + Len(e.name) + Len(e.report) /\ EntrySize(e) \in Nat
<1>1. e.id \in MapIds /\ e.name \in Names /\ e.report \in Names
  BY DEF EntryType
<1>2. UIntSpace \in Nat
  BY PlacesAre DEF UIntSpace, UIntBytes, SizeBytes
<1>3. e.id \in Nat /\ e.id < UIntSpace
  <2>1. MapIds \subseteq 0..(UIntSpace - 1)
    BY IdsAssumption
  <2>2. e.id \in 0..(UIntSpace - 1)
    BY <1>1, <2>1
  <2> QED
    BY <1>2, <2>2
<1>4. Seq(Byte \ {0}) \subseteq Seq(Byte)
  BY SeqMonotonic
<1>5. e.name \in Seq(Byte) /\ e.report \in Seq(Byte)
  BY <1>1, <1>4, NamesAssumption
<1>6. Len(e.name) \in Nat /\ Len(e.report) \in Nat
  BY <1>5
<1>7. EntrySize(e) = 12 + Len(e.name) + Len(e.report)
  BY <1>6 DEF EntrySize, UIntBytes
<1>8. EntrySize(e) \in Nat
  <2>1. \A a, b \in Nat : 12 + a + b \in Nat
    OBVIOUS
  <2> QED
    BY <1>6, <1>7, <2>1, Zenon
<1> QED
  BY <1>3, <1>5, <1>6, <1>7, <1>8

Total(m) == FoldLeft(LAMBDA n, e : n + EntrySize(e), 0, m)

IsSum(v, m) ==
  /\ v[0] = 0 /\ \A k \in 1..Len(m) : v[k] = v[k - 1] + EntrySize(m[k])
  /\ \A k \in 0..Len(m) : v[k] \in Nat

LEMMA TotalIs ==
  ASSUME NEW m \in Seq(EntryType)
  PROVE  \E v : IsSum(v, m) /\ Total(m) = v[Len(m)]
<1> DEFINE n == Len(m)
           P(g) == g = [s \in SUBSET (1..n) |->
                          IF s = {} THEN 0 ELSE g[s \ {Max(s)}] + EntrySize(m[Max(s)])]
<1>1. n \in Nat /\ DOMAIN m = 1..n /\ \A k \in 1..n : m[k] \in EntryType
  OBVIOUS
<1>0. \A k \in 1..n : EntrySize(m[k]) \in Nat
  BY <1>1, EntryIs
<1>2. \E g : P(g)
  <2> DEFINE step == [p \in (1..n) \X Nat |-> p[2] + EntrySize(m[p[1]])]
  <2>1. \A k \in 1..n : \A a \in Nat : step[<<k, a>>] = a + EntrySize(m[k])
    OBVIOUS
  <2> HIDE DEF step
  <2>2. \A k \in 1..n : \A a \in Nat : step[<<k, a>>] \in Nat
    <3> SUFFICES ASSUME NEW k \in 1..n, NEW a \in Nat
                 PROVE  step[<<k, a>>] \in Nat
      OBVIOUS
    <3>1. step[<<k, a>>] = a + EntrySize(m[k]) /\ EntrySize(m[k]) \in Nat
      BY <1>0, <2>1
    <3> HIDE DEF n
    <3> QED
      BY <3>1
  <2>3. PICK g : g = StepFold(step, 0, n, g) /\ \A s \in SUBSET (1..n) : g[s] \in Nat
    <3> HIDE DEF n
    <3>1. n \in Nat /\ 0 \in Nat
      BY <1>1
    <3> QED
      BY <2>2, <3>1, StepsExist
  <2>4. ASSUME NEW s \in SUBSET (1..n)
        PROVE  g[s] = IF s = {} THEN 0 ELSE g[s \ {Max(s)}] + EntrySize(m[Max(s)])
    <3>1. s # {} => Max(s) \in 1..n
      BY <1>1, MaxIs
    <3>2. g[s \ {Max(s)}] \in Nat
      <4>1. s \ {Max(s)} \in SUBSET (1..n)
        OBVIOUS
      <4> QED
        BY <2>3, <4>1
    <3>3. g[s] = IF s = {} THEN 0 ELSE step[<<Max(s), g[s \ {Max(s)}]>>]
      BY <2>3 DEF StepFold
    <3> QED
      BY <2>1, <3>1, <3>2, <3>3
  <2>5. g = [s \in SUBSET (1..n) |-> g[s]]
    BY <2>3 DEF StepFold
  <2>6. P(g)
    BY <2>4, <2>5
  <2> QED
    BY <2>6
<1> DEFINE g == CHOOSE h : P(h)
           v == [k \in 0..n |-> g[1..k]]
<1>3. Total(m) = g[1..n]
  BY <1>1 DEF Total, FoldLeft, MapThenFoldSet
<1>4. P(g)
  BY <1>2
<1> HIDE DEF g
<1>5. \A s \in SUBSET (1..n) :
        g[s] = IF s = {} THEN 0 ELSE g[s \ {Max(s)}] + EntrySize(m[Max(s)])
  BY <1>4
<1> HIDE DEF P
<1>6. v[0] = 0
  <2>1. 1..0 = {} /\ {} \in SUBSET (1..n) /\ 0 \in 0..n
    BY <1>1
  <2> QED
    BY <1>5, <2>1
<1>7. ASSUME NEW k \in 1..n
      PROVE  v[k] = v[k - 1] + EntrySize(m[k])
  <2> DEFINE l == k - 1
             s == 1..k
  <2>1. l \in Nat /\ l + 1 = k /\ l \in 0..n /\ k \in 0..n
    BY <1>1
  <2>2. Max(s) = k /\ s # {} /\ s \ {k} = 1..l
    <3>1. Max(1..(l + 1)) = l + 1 /\ 1..(l + 1) # {} /\ (1..(l + 1)) \ {l + 1} = 1..l
      BY <2>1, MaxOfPrefix
    <3> QED
      BY <2>1, <3>1
  <2>3. s \in SUBSET (1..n)
    BY <1>1
  <2> HIDE DEF s
  <2>4. g[s] = g[1..l] + EntrySize(m[k])
    BY <1>5, <2>2, <2>3
  <2> QED
    BY <2>1, <2>4 DEF s
<1>8. Total(m) = v[n]
  BY <1>1, <1>3
<1> HIDE DEF v
<1> DEFINE S == {k \in Nat : k <= n => v[k] \in Nat}
<1>9. 0 \in S
  BY <1>6
<1>10. ASSUME NEW k \in Nat, k \in S
       PROVE  k + 1 \in S
  <2> SUFFICES ASSUME k + 1 <= n
               PROVE  v[k + 1] \in Nat
    OBVIOUS
  <2>1. v[k] \in Nat /\ k + 1 \in 1..n /\ (k + 1) - 1 = k
    BY <1>1, <1>10
  <2>2. v[k + 1] = v[k] + EntrySize(m[k + 1]) /\ EntrySize(m[k + 1]) \in Nat
    BY <1>0, <1>7, <2>1
  <2> HIDE DEF n
  <2> QED
    BY <2>1, <2>2
<1> HIDE DEF S
<1>11. Nat \subseteq S
  BY <1>9, <1>10, SetInduction
<1>12. \A k \in 0..n : v[k] \in Nat
  BY <1>1, <1>11 DEF S
<1> QED
  BY <1>6, <1>7, <1>8, <1>12 DEF IsSum

(* The entries follow the count, and end where the form ends.               *)
Sizes(m)    == CHOOSE v : IsSum(v, m) /\ Total(m) = v[Len(m)]
Start(m, k) == UIntBytes + Sizes(m)[k - 1]

LEMMA StartsAre ==
  ASSUME NEW m \in Seq(EntryType)
  PROVE  /\ Start(m, 1) = UIntBytes
         /\ \A k \in 1..Len(m) : Start(m, k + 1) = Start(m, k) + EntrySize(m[k])
         /\ \A k \in 1..(Len(m) + 1) : Start(m, k) \in Nat /\ Start(m, k) <= Start(m, Len(m) + 1)
         /\ Start(m, Len(m) + 1) = UIntBytes + Total(m)
<1> DEFINE v == Sizes(m)
           n == Len(m)
<1>1. IsSum(v, m) /\ Total(m) = v[n]
  BY TotalIs DEF Sizes
<1> HIDE DEF v
<1>2. n \in Nat /\ (n + 1) - 1 = n /\ \A k \in 1..n : m[k] \in EntryType
  OBVIOUS
<1>3. \A k : Start(m, k) = 4 + v[k - 1]
  BY DEF Start, UIntBytes, v
<1>4. \A k \in 1..n : EntrySize(m[k]) \in Nat
  BY <1>2, EntryIs
<1>5. Start(m, 1) = 4
  BY <1>1, <1>3 DEF IsSum
<1> HIDE DEF n
<1>6. ASSUME NEW k \in 1..n
      PROVE  Start(m, k + 1) = Start(m, k) + EntrySize(m[k])
  <2>1. (k + 1) - 1 = k /\ v[k] = v[k - 1] + EntrySize(m[k]) /\ v[k - 1] \in Nat
    BY <1>1, <1>2 DEF IsSum, n
  <2>2. Start(m, k + 1) = 4 + v[k] /\ Start(m, k) = 4 + v[k - 1]
    BY <1>3, <2>1
  <2> QED
    BY <1>4, <2>1, <2>2
<1>7. \A k \in 1..(n + 1) : Start(m, k) \in Nat
  <2> SUFFICES ASSUME NEW k \in 1..(n + 1)
               PROVE  Start(m, k) \in Nat
    OBVIOUS
  <2>1. k - 1 \in 0..n
    BY <1>2
  <2>2. v[k - 1] \in Nat
    BY <1>1, <2>1 DEF IsSum, n
  <2> QED
    BY <1>3, <2>2
<1>8. \A k \in 1..(n + 1) : Start(m, k) <= Start(m, n + 1)
  <2> DEFINE S == {j \in Nat : j <= n => Start(m, (n + 1) - j) <= Start(m, n + 1)}
  <2>1. 0 \in S
    <3>1. (n + 1) - 0 = n + 1 /\ n + 1 \in 1..(n + 1)
      BY <1>2
    <3>2. Start(m, n + 1) <= Start(m, n + 1)
      BY <1>7, <3>1
    <3> QED
      BY <3>1, <3>2
  <2>2. ASSUME NEW j \in Nat, j \in S
        PROVE  j + 1 \in S
    <3> SUFFICES ASSUME j + 1 <= n
                 PROVE  Start(m, (n + 1) - (j + 1)) <= Start(m, n + 1)
      OBVIOUS
    <3> DEFINE k == n - j
    <3>1. k \in 1..n /\ k + 1 = (n + 1) - j /\ k = (n + 1) - (j + 1) /\ k \in 1..(n + 1) /\ n + 1 \in 1..(n + 1)
      BY <1>2
    <3>2. Start(m, k + 1) <= Start(m, n + 1)
      BY <1>2, <2>2, <3>1
    <3>3. Start(m, k + 1) = Start(m, k) + EntrySize(m[k]) /\ EntrySize(m[k]) \in Nat
      BY <1>4, <1>6, <3>1
    <3>4. Start(m, k) \in Nat /\ Start(m, n + 1) \in Nat
      BY <1>7, <3>1
    <3> HIDE DEF k
    <3>5. Start(m, k) <= Start(m, n + 1)
      BY <3>2, <3>3, <3>4
    <3> QED
      BY <3>1, <3>5
  <2> HIDE DEF S
  <2>3. Nat \subseteq S
    BY <2>1, <2>2, SetInduction
  <2> SUFFICES ASSUME NEW k \in 1..(n + 1)
               PROVE  Start(m, k) <= Start(m, n + 1)
    OBVIOUS
  <2>4. (n + 1) - k \in Nat /\ (n + 1) - k <= n /\ (n + 1) - ((n + 1) - k) = k
    BY <1>2
  <2> QED
    BY <2>3, <2>4 DEF S
<1>9. Start(m, n + 1) = UIntBytes + Total(m)
  BY <1>1, <1>2, <1>3 DEF UIntBytes
<1> QED
  BY <1>5, <1>6, <1>7, <1>8, <1>9 DEF n, UIntBytes

-----------------------------------------------------------------------------
(* What is written into a buffer.                                           *)

Cell == Byte \cup {UNWRITTEN}

(* These bytes are in the buffer, from offset on.                            *)
Holds(buffer, offset, bytes) ==
  /\ offset + Len(bytes) <= Len(buffer)
  /\ \A k \in 1..Len(bytes) : buffer[offset + k] = bytes[k]

(* The five fields of an entry.                                              *)
HoldsEntry(buffer, at, e) ==
  /\ Holds(buffer, at, Bytes(e.id, UIntBytes))
  /\ Holds(buffer, at + 4, Bytes(Len(e.name), UIntBytes))
  /\ Holds(buffer, at + 8, e.name)
  /\ Holds(buffer, at + 8 + Len(e.name), Bytes(Len(e.report), UIntBytes))
  /\ Holds(buffer, at + 12 + Len(e.name), e.report)

LEMMA UIntSpaceIs == UIntSpace \in Nat \ {0} /\ UIntSpace = Place[UIntBytes] /\ UIntBytes \in 0..SizeBytes
BY PlacesAre DEF UIntSpace, UIntBytes, SizeBytes

LEMMA UIntBytesType ==
  ASSUME NEW x \in Nat
  PROVE  Bytes(x, UIntBytes) \in Seq(Byte) /\ Len(Bytes(x, UIntBytes)) = 4
BY UIntSpaceIs, BytesType DEF UIntBytes

(* WriteAt keeps the length, and every cell that was written stays so.       *)
LEMMA WriteType ==
  ASSUME NEW buffer \in Seq(Cell), NEW offset \in Int, NEW bytes \in Seq(Byte)
  PROVE  /\ WriteAt(buffer, offset, bytes) \in Seq(Cell)
         /\ Len(WriteAt(buffer, offset, bytes)) = Len(buffer)
         /\ \A k \in 1..Len(buffer) :
              WriteAt(buffer, offset, bytes)[k] =
                IF k - offset \in 1..Len(bytes) THEN bytes[k - offset] ELSE buffer[k]
         /\ \A k \in 1..Len(buffer) :
              buffer[k] \in Byte => WriteAt(buffer, offset, bytes)[k] \in Byte
<1> DEFINE n == Len(buffer)
           l == Len(bytes)
           w == WriteAt(buffer, offset, bytes)
<1>1. /\ n \in Nat /\ DOMAIN buffer = 1..n /\ \A k \in 1..n : buffer[k] \in Cell
      /\ l \in Nat /\ DOMAIN bytes = 1..l /\ \A k \in 1..l : bytes[k] \in Byte
  OBVIOUS
<1> HIDE DEF n, l
<1>2. w = [k \in 1..n |-> IF k - offset \in 1..l THEN bytes[k - offset] ELSE buffer[k]]
  BY <1>1 DEF WriteAt
<1> HIDE DEF w
<1>3. \A k \in 1..n : w[k] = IF k - offset \in 1..l THEN bytes[k - offset] ELSE buffer[k]
  BY <1>2
<1>4. \A k \in 1..n : w[k] \in Cell
  BY <1>1, <1>3 DEF Cell
<1>5. w \in [1..n -> Cell]
  BY <1>2, <1>4
<1>6. w \in Seq(Cell) /\ Len(w) = n
  BY <1>1, <1>5, SeqIs
<1>7. \A k \in 1..n : buffer[k] \in Byte => w[k] \in Byte
  BY <1>1, <1>3
<1> QED
  BY <1>3, <1>6, <1>7 DEF n, l, w

(* What fits is there afterwards, and what is in front of it stays.          *)
LEMMA WriteHolds ==
  ASSUME NEW buffer \in Seq(Cell), NEW offset \in Nat, NEW bytes \in Seq(Byte),
         offset + Len(bytes) <= Len(buffer)
  PROVE  /\ Holds(WriteAt(buffer, offset, bytes), offset, bytes)
         /\ \A k \in 1..offset : WriteAt(buffer, offset, bytes)[k] = buffer[k]
<1> DEFINE n == Len(buffer)
           l == Len(bytes)
           w == WriteAt(buffer, offset, bytes)
<1>1. /\ n \in Nat /\ l \in Nat /\ Len(w) = n
      /\ \A k \in 1..n : w[k] = IF k - offset \in 1..l THEN bytes[k - offset] ELSE buffer[k]
  <2>1. n \in Nat /\ l \in Nat /\ offset \in Int
    OBVIOUS
  <2> QED
    BY <2>1, WriteType, Zenon
<1>2. offset + l <= n
  OBVIOUS
<1> HIDE DEF n, l, w
<1>3. \A k \in 1..l : offset + k \in 1..n /\ (offset + k) - offset = k
  BY <1>1, <1>2
<1>4. \A k \in 1..l : w[offset + k] = bytes[k]
  BY <1>1, <1>3
<1>5. \A k \in 1..offset : k \in 1..n /\ k - offset \notin 1..l
  BY <1>1, <1>2
<1>6. \A k \in 1..offset : w[k] = buffer[k]
  BY <1>1, <1>5
<1> QED
  BY <1>1, <1>2, <1>4, <1>6 DEF Holds, n, l, w

(* What a buffer holds, a buffer holds that has a part of it further on.     *)
LEMMA HoldsShifted ==
  ASSUME NEW buffer, NEW shifted, NEW d \in Nat, NEW n \in Nat, d + n <= Len(shifted), Len(shifted) \in Nat,
         \A k \in 1..n : shifted[d + k] = buffer[k],
         NEW offset \in Nat, NEW bytes \in Seq(Byte), Holds(buffer, offset, bytes),
         offset + Len(bytes) <= n
  PROVE  Holds(shifted, d + offset, bytes)
<1> DEFINE l == Len(bytes)
<1>1. l \in Nat /\ offset + l <= n
  OBVIOUS
<1>2. \A k \in 1..l : buffer[offset + k] = bytes[k]
  BY DEF Holds
<1> HIDE DEF l
<1>3. \A k \in 1..l : offset + k \in 1..n /\ d + (offset + k) = (d + offset) + k
  BY ONLY <1>1, d \in Nat, n \in Nat, offset \in Nat
<1>4. \A k \in 1..l : shifted[(d + offset) + k] = bytes[k]
  BY <1>2, <1>3
<1>5. (d + offset) + l <= Len(shifted)
  BY <1>1
<1> QED
  BY <1>4, <1>5 DEF Holds, l

LEMMA EntryShifted ==
  ASSUME NEW buffer, NEW shifted, NEW d \in Nat, NEW n \in Nat, d + n <= Len(shifted), Len(shifted) \in Nat,
         \A k \in 1..n : shifted[d + k] = buffer[k],
         NEW at \in Nat, NEW e \in EntryType, HoldsEntry(buffer, at, e), at + EntrySize(e) <= n
  PROVE  HoldsEntry(shifted, d + at, e)
<1> DEFINE a == Len(e.name)
           b == Len(e.report)
<1>1. /\ e.name \in Seq(Byte) /\ e.report \in Seq(Byte) /\ a \in Nat /\ b \in Nat
      /\ e.id \in Nat /\ EntrySize(e) = 12 + a + b
  BY EntryIs
<1>2. /\ Bytes(e.id, UIntBytes) \in Seq(Byte) /\ Len(Bytes(e.id, UIntBytes)) = 4
      /\ Bytes(a, UIntBytes) \in Seq(Byte) /\ Len(Bytes(a, UIntBytes)) = 4
      /\ Bytes(b, UIntBytes) \in Seq(Byte) /\ Len(Bytes(b, UIntBytes)) = 4
  BY <1>1, UIntBytesType
<1>3. /\ Holds(buffer, at, Bytes(e.id, UIntBytes)) /\ Holds(buffer, at + 4, Bytes(a, UIntBytes))
      /\ Holds(buffer, at + 8, e.name) /\ Holds(buffer, at + 8 + a, Bytes(b, UIntBytes))
      /\ Holds(buffer, at + 12 + a, e.report)
  BY DEF HoldsEntry
<1>4. at + (12 + a + b) <= n
  BY <1>1
<1>5. Len(e.name) = a /\ Len(e.report) = b
  OBVIOUS
<1> HIDE DEF a, b
<1>6. /\ at + 4 \in Nat /\ at + 8 \in Nat /\ at + 8 + a \in Nat /\ at + 12 + a \in Nat
      /\ at + 4 <= n /\ (at + 4) + 4 <= n /\ (at + 8) + a <= n /\ (at + 8 + a) + 4 <= n
      /\ (at + 12 + a) + b <= n
  BY <1>1, <1>4
<1>7. /\ d + (at + 4) = (d + at) + 4 /\ d + (at + 8) = (d + at) + 8
      /\ d + (at + 8 + a) = (d + at) + 8 + a /\ d + (at + 12 + a) = (d + at) + 12 + a
  BY <1>1
<1>8. \A offset \in Nat : \A bytes \in Seq(Byte) :
        Holds(buffer, offset, bytes) /\ offset + Len(bytes) <= n => Holds(shifted, d + offset, bytes)
  BY HoldsShifted
<1>9. /\ Holds(shifted, d + at, Bytes(e.id, UIntBytes)) /\ Holds(shifted, d + (at + 4), Bytes(a, UIntBytes))
      /\ Holds(shifted, d + (at + 8 + a), Bytes(b, UIntBytes))
  BY <1>2, <1>3, <1>6, <1>8
<1>10. Holds(shifted, d + (at + 8), e.name) /\ Holds(shifted, d + (at + 12 + a), e.report)
  BY <1>1, <1>3, <1>5, <1>6, <1>8
<1>11. /\ Holds(shifted, (d + at) + 4, Bytes(a, UIntBytes)) /\ Holds(shifted, (d + at) + 8, e.name)
       /\ Holds(shifted, (d + at) + 8 + a, Bytes(b, UIntBytes))
       /\ Holds(shifted, (d + at) + 12 + a, e.report)
  BY <1>7, <1>9, <1>10
<1> QED
  BY <1>9, <1>11 DEF HoldsEntry, a, b

LEMMA HoldsKept ==
  ASSUME NEW buffer, NEW kept, NEW n \in Nat, n <= Len(kept), Len(kept) \in Nat,
         \A k \in 1..n : kept[k] = buffer[k],
         NEW offset \in Nat, NEW bytes \in Seq(Byte), Holds(buffer, offset, bytes),
         offset + Len(bytes) <= n
  PROVE  Holds(kept, offset, bytes)
<1>1. 0 + n <= Len(kept) /\ 0 + offset = offset
  OBVIOUS
<1>2. \A k \in 1..n : kept[0 + k] = buffer[k]
  OBVIOUS
<1>3. Holds(kept, 0 + offset, bytes)
  BY <1>1, <1>2, HoldsShifted
<1> QED
  BY <1>1, <1>3

LEMMA HeldAreBytes ==
  ASSUME NEW buffer, NEW offset \in Nat, NEW bytes \in Seq(Byte), Holds(buffer, offset, bytes)
  PROVE  \A k \in (offset + 1)..(offset + Len(bytes)) : buffer[k] \in Byte
<1> DEFINE l == Len(bytes)
<1>1. l \in Nat /\ \A k \in 1..l : bytes[k] \in Byte
  OBVIOUS
<1>2. \A k \in 1..l : buffer[offset + k] = bytes[k]
  BY DEF Holds
<1> HIDE DEF l
<1>3. \A k \in (offset + 1)..(offset + l) : k - offset \in 1..l /\ offset + (k - offset) = k
  BY <1>1
<1>4. \A k \in (offset + 1)..(offset + l) : buffer[k] \in Byte
  BY <1>1, <1>2, <1>3
<1> QED
  BY <1>4 DEF l

-----------------------------------------------------------------------------
(* One entry is written, field by field.                                    *)

FieldsWritten(buffer, e, o1, o2, o3, o4, o5) ==
  LET b1 == WriteAt(buffer, o1, Bytes(e.id, UIntBytes))
      b2 == WriteAt(b1, o2, Bytes(Len(e.name), UIntBytes))
      b3 == WriteAt(b2, o3, e.name)
      b4 == WriteAt(b3, o4, Bytes(Len(e.report), UIntBytes))
  IN WriteAt(b4, o5, e.report)

(* Wherever the fields go, the buffer keeps its length and its bytes.        *)
LEMMA FieldsType ==
  ASSUME NEW buffer \in Seq(Cell), NEW e \in EntryType,
         NEW o1 \in Int, NEW o2 \in Int, NEW o3 \in Int, NEW o4 \in Int, NEW o5 \in Int
  PROVE  /\ FieldsWritten(buffer, e, o1, o2, o3, o4, o5) \in Seq(Cell)
         /\ Len(FieldsWritten(buffer, e, o1, o2, o3, o4, o5)) = Len(buffer)
         /\ \A k \in 1..Len(buffer) :
              buffer[k] \in Byte => FieldsWritten(buffer, e, o1, o2, o3, o4, o5)[k] \in Byte
<1> DEFINE i == Bytes(e.id, UIntBytes)
           j == Bytes(Len(e.name), UIntBytes)
           l == Bytes(Len(e.report), UIntBytes)
           b1 == WriteAt(buffer, o1, i)
           b2 == WriteAt(b1, o2, j)
           b3 == WriteAt(b2, o3, e.name)
           b4 == WriteAt(b3, o4, l)
           b5 == WriteAt(b4, o5, e.report)
<1>1. e.name \in Seq(Byte) /\ e.report \in Seq(Byte)
  BY EntryIs
<1>2. i \in Seq(Byte) /\ j \in Seq(Byte) /\ l \in Seq(Byte)
  BY EntryIs, UIntBytesType
<1> HIDE DEF i, j, l
<1>3. b1 \in Seq(Cell) /\ Len(b1) = Len(buffer)
      /\ \A k \in 1..Len(buffer) : buffer[k] \in Byte => b1[k] \in Byte
  BY <1>2, WriteType
<1> HIDE DEF b1
<1>4. b2 \in Seq(Cell) /\ Len(b2) = Len(b1) /\ \A k \in 1..Len(b1) : b1[k] \in Byte => b2[k] \in Byte
  BY <1>2, <1>3, WriteType
<1> HIDE DEF b2
<1>5. b3 \in Seq(Cell) /\ Len(b3) = Len(b2) /\ \A k \in 1..Len(b2) : b2[k] \in Byte => b3[k] \in Byte
  BY <1>1, <1>4, WriteType
<1> HIDE DEF b3
<1>6. b4 \in Seq(Cell) /\ Len(b4) = Len(b3) /\ \A k \in 1..Len(b3) : b3[k] \in Byte => b4[k] \in Byte
  BY <1>2, <1>5, WriteType
<1> HIDE DEF b4
<1>7. b5 \in Seq(Cell) /\ Len(b5) = Len(b4) /\ \A k \in 1..Len(b4) : b4[k] \in Byte => b5[k] \in Byte
  BY <1>1, <1>6, WriteType
<1>8. b5 = FieldsWritten(buffer, e, o1, o2, o3, o4, o5)
  BY DEF FieldsWritten, b4, b3, b2, b1, i, j, l
<1> HIDE DEF b5
<1> QED
  BY <1>3, <1>4, <1>5, <1>6, <1>7, <1>8

(* One behind the other they fill the space that was added.                  *)
LEMMA FieldsFit ==
  ASSUME NEW buffer \in Seq(Cell), NEW at \in Nat, NEW e \in EntryType,
         Len(buffer) = at + EntrySize(e),
         NEW new, new = FieldsWritten(buffer, e, at, at + 4, at + 8, at + 8 + Len(e.name),
                                      at + 12 + Len(e.name))
  PROVE  /\ HoldsEntry(new, at, e)
         /\ \A k \in 1..at : new[k] = buffer[k]
         /\ \A k \in (at + 1)..(at + EntrySize(e)) : new[k] \in Byte
<1> DEFINE a == Len(e.name)
           b == Len(e.report)
           i == Bytes(e.id, UIntBytes)
           j == Bytes(a, UIntBytes)
           l == Bytes(b, UIntBytes)
           b1 == WriteAt(buffer, at, i)
           b2 == WriteAt(b1, at + 4, j)
           b3 == WriteAt(b2, at + 8, e.name)
           b4 == WriteAt(b3, at + 8 + a, l)
           b5 == WriteAt(b4, at + 12 + a, e.report)
           n == at + (12 + a + b)
<1>1. /\ e.name \in Seq(Byte) /\ e.report \in Seq(Byte) /\ a \in Nat /\ b \in Nat
      /\ e.id \in Nat /\ EntrySize(e) = 12 + a + b
  BY EntryIs
<1>2. /\ i \in Seq(Byte) /\ j \in Seq(Byte) /\ l \in Seq(Byte)
      /\ Len(i) = 4 /\ Len(j) = 4 /\ Len(l) = 4 /\ Len(e.name) = a /\ Len(e.report) = b
  BY <1>1, UIntBytesType
<1>3. new = b5
  BY DEF FieldsWritten
<1>4. HoldsEntry(new, at, e) <=> /\ Holds(new, at, i) /\ Holds(new, at + 4, j) /\ Holds(new, at + 8, e.name)
                                 /\ Holds(new, at + 8 + a, l) /\ Holds(new, at + 12 + a, e.report)
  BY DEF HoldsEntry
<1> HIDE DEF i, j, l, a, b
<1>5. /\ n \in Nat /\ at + 4 \in Nat /\ at + 8 \in Nat /\ at + 8 + a \in Nat /\ at + 12 + a \in Nat
      /\ at + 4 <= n /\ (at + 4) + 4 <= n /\ (at + 8) + a <= n /\ (at + 8 + a) + 4 <= n
      /\ (at + 12 + a) + b <= n /\ (at + 4) + 4 = at + 8 /\ (at + 8) + a = at + 8 + a
      /\ (at + 8 + a) + 4 = at + 12 + a /\ (at + 12 + a) + b = n
  BY <1>1
<1>6. Len(buffer) = n
  BY <1>1
<1> HIDE DEF n
<1>7. /\ b1 \in Seq(Cell) /\ Len(b1) = n /\ Holds(b1, at, i)
      /\ \A k \in 1..at : b1[k] = buffer[k]
  <2>1. i \in Seq(Byte) /\ at \in Nat /\ at + Len(i) <= Len(buffer) /\ buffer \in Seq(Cell)
    BY <1>1, <1>2, <1>5, <1>6
  <2> QED
    BY <1>6, <2>1, WriteType, WriteHolds
<1> HIDE DEF b1
<1>8. /\ b2 \in Seq(Cell) /\ Len(b2) = n /\ Holds(b2, at + 4, j)
      /\ \A k \in 1..(at + 4) : b2[k] = b1[k]
  <2>1. j \in Seq(Byte) /\ at + 4 \in Nat /\ (at + 4) + Len(j) <= Len(b1) /\ b1 \in Seq(Cell)
    BY <1>1, <1>2, <1>5, <1>7
  <2> QED
    BY <1>7, <2>1, WriteType, WriteHolds
<1> HIDE DEF b2
<1>9. /\ b3 \in Seq(Cell) /\ Len(b3) = n /\ Holds(b3, at + 8, e.name)
      /\ \A k \in 1..(at + 8) : b3[k] = b2[k]
  <2>1. e.name \in Seq(Byte) /\ at + 8 \in Nat /\ (at + 8) + Len(e.name) <= Len(b2) /\ b2 \in Seq(Cell)
    BY <1>1, <1>2, <1>5, <1>8
  <2> DEFINE o == at + 8
             s == e.name
  <2>2. s \in Seq(Byte) /\ o \in Nat /\ o + Len(s) <= Len(b2) /\ b2 \in Seq(Cell)
    BY <2>1
  <2>3. b3 = WriteAt(b2, o, s)
    BY DEF b3
  <2> HIDE DEF o, s
  <2>4. o \in Int
    BY <2>2
  <2>5. /\ WriteAt(b2, o, s) \in Seq(Cell) /\ Len(WriteAt(b2, o, s)) = Len(b2)
    BY <2>2, <2>4, WriteType
  <2>6. Holds(WriteAt(b2, o, s), o, s) /\ \A k \in 1..o : WriteAt(b2, o, s)[k] = b2[k]
    BY <2>2, WriteHolds
  <2> QED
    BY <1>8, <2>3, <2>5, <2>6 DEF o, s
<1> HIDE DEF b3
<1>10. /\ b4 \in Seq(Cell) /\ Len(b4) = n /\ Holds(b4, at + 8 + a, l)
      /\ \A k \in 1..(at + 8 + a) : b4[k] = b3[k]
  <2>1. l \in Seq(Byte) /\ at + 8 + a \in Nat /\ (at + 8 + a) + Len(l) <= Len(b3) /\ b3 \in Seq(Cell)
    BY <1>1, <1>2, <1>5, <1>9
  <2> QED
    BY <1>9, <2>1, WriteType, WriteHolds
<1> HIDE DEF b4
<1>11. /\ b5 \in Seq(Cell) /\ Len(b5) = n /\ Holds(b5, at + 12 + a, e.report)
      /\ \A k \in 1..(at + 12 + a) : b5[k] = b4[k]
  <2>1. e.report \in Seq(Byte) /\ at + 12 + a \in Nat /\ (at + 12 + a) + Len(e.report) <= Len(b4) /\ b4 \in Seq(Cell)
    BY <1>1, <1>2, <1>5, <1>10
  <2> QED
    BY <1>10, <2>1, WriteType, WriteHolds
<1> HIDE DEF b5
<1>12. /\ \A k \in 1..(at + 8 + a) : k \in 1..(at + 12 + a)
       /\ \A k \in 1..(at + 8) : k \in 1..(at + 8 + a)
       /\ \A k \in 1..(at + 4) : k \in 1..(at + 8)
       /\ \A k \in 1..at : k \in 1..(at + 4)
  BY <1>1
<1>13. \A k \in 1..(at + 8 + a) : b5[k] = b3[k]
  BY <1>10, <1>11, <1>12
<1>14. \A k \in 1..(at + 8) : b5[k] = b2[k]
  BY <1>9, <1>12, <1>13
<1>15. \A k \in 1..(at + 4) : b5[k] = b1[k]
  BY <1>8, <1>12, <1>14
<1>16. \A k \in 1..at : b5[k] = buffer[k]
  BY <1>7, <1>12, <1>15
<1>17. Holds(b5, at, i)
  <2>1. at + Len(i) <= at + 4 /\ at + 4 <= Len(b5) /\ Len(b5) \in Nat
    BY <1>2, <1>5, <1>11
  <2> QED
    BY <1>2, <1>5, <1>7, <1>15, <2>1, HoldsKept
<1>18. Holds(b5, at + 4, j)
  <2>1. (at + 4) + Len(j) <= at + 8 /\ at + 8 <= Len(b5) /\ Len(b5) \in Nat
    BY <1>1, <1>2, <1>5, <1>11
  <2> DEFINE o == at + 4
             m == at + 8
             old == b2
  <2>2. /\ o \in Nat /\ m \in Nat /\ j \in Seq(Byte) /\ o + Len(j) <= m /\ m <= Len(b5) /\ Len(b5) \in Nat
        /\ Holds(old, o, j) /\ \A k \in 1..m : b5[k] = old[k]
    BY <1>2, <1>5, <1>8, <1>14, <2>1
  <2> HIDE DEF o, m, old
  <2>3. Holds(b5, o, j)
    BY <2>2, HoldsKept
  <2> QED
    BY <2>3 DEF o
<1>19. Holds(b5, at + 8, e.name)
  <2>1. (at + 8) + Len(e.name) <= at + 8 + a /\ at + 8 + a <= Len(b5) /\ Len(b5) \in Nat
    BY <1>1, <1>2, <1>5, <1>11
  <2> DEFINE o == at + 8
             m == at + 8 + a
             old == b3
  <2>2. /\ o \in Nat /\ m \in Nat /\ e.name \in Seq(Byte) /\ o + Len(e.name) <= m
        /\ m <= Len(b5) /\ Len(b5) \in Nat
        /\ Holds(old, o, e.name) /\ \A k \in 1..m : b5[k] = old[k]
    BY <1>1, <1>5, <1>9, <1>13, <2>1
  <2> HIDE DEF o, m, old
  <2>3. Holds(b5, o, e.name)
    BY <2>2, HoldsKept
  <2> QED
    BY <2>3 DEF o
<1>20. Holds(b5, at + 8 + a, l)
  <2>1. (at + 8 + a) + Len(l) <= at + 12 + a /\ at + 12 + a <= Len(b5) /\ Len(b5) \in Nat
    BY <1>1, <1>2, <1>5, <1>11
  <2> DEFINE o == at + 8 + a
             m == at + 12 + a
             old == b4
  <2>2. /\ o \in Nat /\ m \in Nat /\ l \in Seq(Byte) /\ o + Len(l) <= m /\ m <= Len(b5) /\ Len(b5) \in Nat
        /\ Holds(old, o, l) /\ \A k \in 1..m : b5[k] = old[k]
    BY <1>2, <1>5, <1>10, <1>11, <2>1
  <2> HIDE DEF o, m, old
  <2>3. Holds(b5, o, l)
    BY <2>2, HoldsKept
  <2> QED
    BY <2>3 DEF o
<1>21. \A k \in (at + 1)..n : b5[k] \in Byte
  <2>1. /\ \A k \in (at + 1)..(at + 4) : b5[k] \in Byte
        /\ \A k \in ((at + 4) + 1)..((at + 4) + 4) : b5[k] \in Byte
        /\ \A k \in ((at + 8 + a) + 1)..((at + 8 + a) + 4) : b5[k] \in Byte
    BY <1>2, <1>5, <1>17, <1>18, <1>20, HeldAreBytes
  <2>2. /\ \A k \in ((at + 8) + 1)..((at + 8) + a) : b5[k] \in Byte
        /\ \A k \in ((at + 12 + a) + 1)..((at + 12 + a) + b) : b5[k] \in Byte
    BY <1>1, <1>2, <1>5, <1>11, <1>19, HeldAreBytes
  <2>3. \A k \in (at + 1)..n :
          \/ k \in (at + 1)..(at + 4)
          \/ k \in ((at + 4) + 1)..((at + 4) + 4)
          \/ k \in ((at + 8) + 1)..((at + 8) + a)
          \/ k \in ((at + 8 + a) + 1)..((at + 8 + a) + 4)
          \/ k \in ((at + 12 + a) + 1)..((at + 12 + a) + b)
    BY <1>1, <1>5
  <2> QED
    BY <2>1, <2>2, <2>3
<1>22. n = at + EntrySize(e)
  BY <1>6
<1> QED
  BY <1>3, <1>4, <1>11, <1>16, <1>17, <1>18, <1>19, <1>20, <1>21, <1>22

-----------------------------------------------------------------------------
(* What is read from the file.                                              *)

LEMMA ReadIs ==
  ASSUME outstr \in Seq(Cell), NEW offset \in Nat, NEW bytes \in Seq(Byte), Holds(outstr, offset, bytes)
  PROVE  ReadAt(offset, Len(bytes)) = bytes /\ Readable(offset, Len(bytes))
<1> DEFINE n == Len(outstr)
           l == Len(bytes)
           r == SubSeq(outstr, offset + 1, offset + l)
<1>1. /\ n \in Nat /\ l \in Nat /\ DOMAIN outstr = 1..n /\ \A k \in 1..n : outstr[k] \in Cell
  OBVIOUS
<1>2. offset + l <= n /\ \A k \in 1..l : outstr[offset + k] = bytes[k]
  BY DEF Holds
<1>3. \A k \in (offset + 1)..(offset + l) : outstr[k] \in Byte
  BY HeldAreBytes
<1>4. r = ReadAt(offset, l)
  BY DEF ReadAt
<1> HIDE DEF n, l
<1>5. \A k \in (offset + 1)..(offset + l) : k \in 1..n /\ outstr[k] \in Cell
  BY <1>1, <1>2
<1>6. /\ r \in Seq(Cell)
      /\ Len(r) = IF offset + 1 <= offset + l THEN (offset + l) - (offset + 1) + 1 ELSE 0
      /\ \A k \in 1..((offset + l) - (offset + 1) + 1) : r[k] = outstr[(offset + 1) + k - 1]
  <2>1. offset + 1 \in Nat /\ offset + l \in Nat /\ offset + 1 \in Int /\ offset + l \in Int
    BY <1>1
  <2> QED
    BY <1>5, <2>1, SubSeqProperties
<1> HIDE DEF r
<1>7. Len(r) = l
  BY <1>1, <1>6
<1>8. \A k \in 1..l : k \in 1..((offset + l) - (offset + 1) + 1) /\ (offset + 1) + k - 1 = offset + k
  BY <1>1
<1>9. \A k \in 1..l : r[k] = bytes[k]
  BY <1>2, <1>6, <1>8
<1>10. bytes \in Seq(Cell)
  <2>1. Seq(Byte) \subseteq Seq(Cell)
    BY SeqMonotonic DEF Cell
  <2> QED
    BY <2>1
<1>11. r = bytes
  BY <1>6, <1>7, <1>9, <1>10, SeqEqual DEF l
<1>12. \A k \in (offset + 1)..(offset + l) : outstr[k] # UNWRITTEN
  <2>1. UNWRITTEN \notin Byte
    BY BaseIs DEF Byte, UNWRITTEN
  <2> QED
    BY <1>3, <2>1 DEF l
<1>13. Readable(offset, l)
  BY <1>1, <1>5, <1>12 DEF Readable
<1> QED
  BY <1>4, <1>11, <1>13 DEF l

LEMMA UIntIs ==
  ASSUME outstr \in Seq(Cell), NEW offset \in Nat, NEW x \in Nat, x < UIntSpace,
         Holds(outstr, offset, Bytes(x, UIntBytes))
  PROVE  UIntAt(offset) = x /\ Readable(offset, UIntBytes)
<1> DEFINE b == Bytes(x, UIntBytes)
<1>1. b \in Seq(Byte) /\ Len(b) = UIntBytes
  BY UIntBytesType DEF UIntBytes
<1>2. Number(b) = x
  BY UIntSpaceIs, DigitsAre
<1> HIDE DEF b
<1>3. ReadAt(offset, UIntBytes) = b /\ Readable(offset, UIntBytes)
  BY <1>1, ReadIs DEF b
<1> QED
  BY <1>2, <1>3 DEF UIntAt

LEMMA ReadableJoins ==
  ASSUME outstr \in Seq(Cell), NEW a \in Nat, NEW n \in Nat, NEW m \in Nat,
         Readable(a, n), Readable(a + n, m)
  PROVE  Readable(a, n + m)
<1>1. \A k \in (a + 1)..(a + (n + m)) : k \in (a + 1)..(a + n) \/ k \in ((a + n) + 1)..((a + n) + m)
  OBVIOUS
<1> QED
  BY <1>1 DEF Readable

(* An entry that is there is the one that is read, and it can be read.       *)
LEMMA EntryRead ==
  ASSUME outstr \in Seq(Cell), loc \in Nat, NEW e \in EntryType, HoldsEntry(outstr, loc, e),
         loc + EntrySize(e) < UIntSpace
  PROVE  /\ EntryReadable
         /\ EntryAt(loc) = [id |-> e.id, name |-> e.name, report |-> e.report, end |-> loc + EntrySize(e)]
<1> DEFINE a == Len(e.name)
           b == Len(e.report)
           x == e.id
           s == e.name
           t == e.report
<1>1. /\ s \in Seq(Byte) /\ t \in Seq(Byte) /\ a \in Nat /\ b \in Nat /\ x \in Nat /\ x < UIntSpace
      /\ EntrySize(e) = 12 + a + b
  BY EntryIs
<1>2. /\ Holds(outstr, loc, Bytes(x, UIntBytes)) /\ Holds(outstr, loc + 4, Bytes(a, UIntBytes))
      /\ Holds(outstr, loc + 8, s) /\ Holds(outstr, loc + 8 + a, Bytes(b, UIntBytes))
      /\ Holds(outstr, loc + 12 + a, t)
  BY DEF HoldsEntry
<1>3. Len(s) = a /\ Len(t) = b
  OBVIOUS
<1> HIDE DEF a, b, x, s, t
<1>4. loc + (12 + a + b) < UIntSpace
  BY <1>1
<1>5. /\ loc + 4 \in Nat /\ loc + 8 \in Nat /\ loc + 8 + a \in Nat /\ loc + 12 + a \in Nat
      /\ a < UIntSpace /\ b < UIntSpace /\ loc + (12 + a + b) \in Nat
  BY <1>1, <1>4, UIntSpaceIs
<1>6. UIntAt(loc) = x /\ Readable(loc, 4)
  BY <1>1, <1>2, UIntIs DEF UIntBytes
<1>7. UIntAt(loc + 4) = a /\ Readable(loc + 4, 4)
  BY <1>1, <1>2, <1>5, UIntIs DEF UIntBytes
<1>8. UIntAt(loc + 8 + a) = b /\ Readable(loc + 8 + a, 4)
  BY <1>1, <1>2, <1>5, UIntIs DEF UIntBytes
<1>9. ReadAt(loc + 8, a) = s /\ Readable(loc + 8, a)
  BY <1>1, <1>2, <1>3, <1>5, ReadIs
<1>10. ReadAt(loc + 12 + a, b) = t /\ Readable(loc + 12 + a, b)
  BY <1>1, <1>2, <1>3, <1>5, ReadIs
<1>11. EntryReadable
  <2>1. Readable(loc, 8)
    <3>1. 4 \in Nat /\ 4 + 4 = 8
      OBVIOUS
    <3> QED
      BY <1>6, <1>7, <3>1, ReadableJoins
  <2>2. Readable(loc + 8, a + 4)
    <3>1. 4 \in Nat /\ (loc + 8) + a = loc + 8 + a
      BY <1>1
    <3> QED
      BY <1>1, <1>5, <1>8, <1>9, <3>1, ReadableJoins
  <2>3. loc + 8 + a + 4 = loc + 12 + a /\ 2 * UIntBytes = 8 /\ UIntBytes = 4
    BY <1>1 DEF UIntBytes
  <2> QED
    BY <1>7, <1>8, <1>10, <2>1, <2>2, <2>3 DEF EntryReadable
<1>12. EntryAt(loc) = [id |-> x, name |-> s, report |-> t, end |-> loc + (12 + a + b)]
  <2>1. /\ loc + 8 + a + 4 = loc + 12 + a /\ (loc + 12 + a) - 4 = loc + 8 + a
        /\ (loc + 12 + a) + b = loc + (12 + a + b) /\ 2 * UIntBytes = 8 /\ UIntBytes = 4
    BY <1>1 DEF UIntBytes
  <2>2. (loc + (12 + a + b)) % UIntSpace = loc + (12 + a + b)
    BY <1>4, <1>5, UIntSpaceIs, SmallIsItsRemainder
  <2> QED
    BY <1>6, <1>7, <1>8, <1>9, <1>10, <2>1, <2>2 DEF EntryAt
<1> QED
  BY <1>1, <1>11, <1>12 DEF x, s, t

-----------------------------------------------------------------------------
(* The inductive invariant.                                                 *)

(* The first n cells were written. *)
Filled(n) == n <= Len(outstr) /\ \A k \in 1..n : outstr[k] \in Byte

(* What can be read as an entry. *)
ReadType == [id : Int, name : Seq(Cell), report : Seq(Cell)]

(* Types, and the bytes that are read whether the form fits or not: nothing  *)
(* writes over the count but fields, which are bytes as well.                *)
TypeInv ==
  /\ TypeOK
  /\ ht \in Seq(ReadType)
  /\ Len(map) <= MaxInserts
  /\ pc = "insert" => Len(map) < next /\ next <= MaxInserts + 1
  /\ pc = "entries" => next <= Len(map) + 1 /\ Filled(UIntBytes)
  /\ pc = "header" => Filled(SizeBytes + UIntBytes)
  /\ pc = "read" => next <= num_entries + 1
  /\ pc \in {"insert", "entries", "header"} => ht = EmptyMap

(* The buffer has the count and the entries before next, and nothing else.   *)
Writing ==
  pc = "entries" =>
    /\ size = Start(map, next) /\ Len(outstr) = size /\ Filled(size)
    /\ Holds(outstr, 0, Bytes(Len(map), UIntBytes))
    /\ \A k \in 1..(next - 1) : HoldsEntry(outstr, Start(map, k), map[k])

(* The file has its size, the count, the entries and the database.           *)
Written ==
  pc \in {"header", "read", "done"} =>
    /\ size = SizeBytes + Start(map, Len(map) + 1)
    /\ Holds(outstr, 0, Bytes(size, SizeBytes))
    /\ Holds(outstr, SizeBytes, Bytes(Len(map), UIntBytes))
    /\ \A k \in 1..Len(map) : HoldsEntry(outstr, SizeBytes + Start(map, k), map[k])
    /\ Len(outstr) = size + Len(DbBytes) /\ Holds(outstr, size, DbBytes)

(* The entries before next have been read, and the next one is at loc.       *)
Reading ==
  pc \in {"read", "done"} =>
    /\ num_entries = Len(map) /\ next <= Len(map) + 1
    /\ Len(ht) = next - 1 /\ \A k \in 1..(next - 1) : ht[k] = map[k]
    /\ pc = "read" => loc = SizeBytes + Start(map, next)
    /\ pc = "done" => next = Len(map) + 1

IInv == TypeInv /\ (Fits => Writing /\ Written /\ Reading /\ pc # "overrun")

-----------------------------------------------------------------------------
LEMMA MapIs ==
  ASSUME TypeInv
  PROVE  map \in Seq(EntryType) /\ outstr \in Seq(Cell) /\ Len(map) \in Nat /\ Len(map) < UIntSpace - 1
<1>1. map \in Seq(EntryType) /\ outstr \in Seq(Cell)
  BY DEF TypeInv, TypeOK, MapOver, EntryType, Cell
<1>2. Len(map) \in Nat /\ Len(map) <= MaxInserts
  BY <1>1 DEF TypeInv
<1>3. MaxInserts \in 0..(UIntSpace - 2)
  BY IdsAssumption
<1> QED
  BY <1>1, <1>2, <1>3, UIntSpaceIs

LEMMA PlacesGrow == 12 < UIntSpace /\ UIntSpace <= Place[SizeBytes]
<1>1. /\ Place[1] = Base * 1 /\ Place[2] = Base * Place[1] /\ Place[3] = Base * Place[2]
      /\ Place[4] = Base * Place[3] /\ Place[5] = Base * Place[4] /\ Place[6] = Base * Place[5]
      /\ Place[7] = Base * Place[6] /\ Place[8] = Base * Place[7]
  <2>1. /\ 1 \in 1..8 /\ 2 \in 1..8 /\ 3 \in 1..8 /\ 4 \in 1..8
        /\ 5 \in 1..8 /\ 6 \in 1..8 /\ 7 \in 1..8 /\ 8 \in 1..8
    OBVIOUS
  <2>2. /\ 1 - 1 = 0 /\ 2 - 1 = 1 /\ 3 - 1 = 2 /\ 4 - 1 = 3 /\ 5 - 1 = 4 /\ 6 - 1 = 5 /\ 7 - 1 = 6 /\ 8 - 1 = 7
    OBVIOUS
  <2> QED
    BY <2>1, <2>2, PlacesAre DEF SizeBytes
<1>2. \A x \in Nat : Base * x \in Nat /\ Base * x >= 2 * x
  <2> SUFFICES ASSUME NEW x \in Nat
               PROVE  Base * x \in Nat /\ Base * x >= 2 * x
    OBVIOUS
  <2>1. PICK b \in Nat : Base = b + 2
    <3>1. Base - 2 \in Nat /\ Base = (Base - 2) + 2
      BY BaseAssumption
    <3> QED
      BY <3>1
  <2>2. (b + 2) * x = b * x + 2 * x /\ b * x \in Nat
    OBVIOUS
  <2> QED
    BY <2>1, <2>2
<1>3. 1 \in Nat
  OBVIOUS
<1>4. Place[1] \in Nat /\ Place[1] >= 2
  BY <1>1, <1>2, <1>3
<1>5. Place[2] \in Nat /\ Place[2] >= 4
  BY <1>1, <1>2, <1>4
<1>6. Place[3] \in Nat /\ Place[3] >= 8
  BY <1>1, <1>2, <1>5
<1>7. Place[4] \in Nat /\ Place[4] >= 16
  BY <1>1, <1>2, <1>6
<1>8. Place[5] \in Nat /\ Place[5] >= Place[4]
  BY <1>1, <1>2, <1>7
<1>9. Place[6] \in Nat /\ Place[6] >= Place[4]
  BY <1>1, <1>2, <1>7, <1>8
<1>10. Place[7] \in Nat /\ Place[7] >= Place[4]
  BY <1>1, <1>2, <1>7, <1>9
<1>11. Place[8] \in Nat /\ Place[8] >= Place[4]
  BY <1>1, <1>2, <1>7, <1>10
<1> QED
  BY <1>7, <1>11 DEF UIntSpace, UIntBytes, SizeBytes

(* insert_mapping appends or replaces, and never gives two entries one id.   *)
LEMMA InsertUnique ==
  ASSUME NEW T, NEW m \in Seq(T), UniqueIds(m), NEW id, NEW name, NEW report, Entry(id, name, report) \in T
  PROVE  /\ insert_mapping(m, id, name, report) \in Seq(T)
         /\ UniqueIds(insert_mapping(m, id, name, report))
         /\ Len(insert_mapping(m, id, name, report)) <= Len(m) + 1
<1> DEFINE n == Len(m)
           e == Entry(id, name, report)
<1>1. n \in Nat /\ DOMAIN m = 1..n /\ \A k \in 1..n : m[k] \in T
  OBVIOUS
<1>2. e.id = id /\ e \in T
  BY DEF Entry
<1> HIDE DEF e
<1>3. CASE Positions(m, id) = {}
  <2>1. \A k \in 1..n : m[k].id # id
    BY <1>1, <1>3 DEF Positions
  <2> DEFINE a == Append(m, e)
  <2>2. insert_mapping(m, id, name, report) = a
    BY <1>3 DEF insert_mapping, e
  <2>3. /\ a \in Seq(T) /\ Len(a) = n + 1 /\ \A k \in 1..n : a[k] = m[k] /\ a[n + 1] = e
    BY <1>2, AppendProperties
  <2> HIDE DEF a, n
  <2>4. a[n + 1] = e
    BY <1>1, <1>2, AppendProperties DEF a, n
  <2>5. \A k \in 1..(n + 1) : k \in 1..n \/ k = n + 1
    BY <1>1
  <2>6. DOMAIN a = 1..(n + 1)
    BY <1>1, <2>3
  <2>7. \A j, k \in 1..n : m[j].id = m[k].id => j = k
    BY <1>1 DEF UniqueIds
  <2>8. UniqueIds(a)
    BY <1>2, <2>1, <2>3, <2>4, <2>5, <2>6, <2>7 DEF UniqueIds
  <2> QED
    BY <1>1, <2>2, <2>3, <2>8 DEF n
<1>4. CASE Positions(m, id) # {}
  <2> DEFINE a == [k \in 1..n |-> IF m[k].id = id THEN e ELSE m[k]]
  <2>1. insert_mapping(m, id, name, report) = a
    BY <1>1, <1>4 DEF insert_mapping, e
  <2>2. \A k \in 1..n : a[k].id = m[k].id /\ a[k] \in T
    BY <1>1, <1>2
  <2>3. a \in [1..n -> T]
    BY <1>1, <1>2
  <2> HIDE DEF n
  <2>4. a \in Seq(T) /\ Len(a) = n
    BY <1>1, <2>3, SeqIs
  <2>5. \A j, k \in 1..n : m[j].id = m[k].id => j = k
    BY <1>1 DEF UniqueIds
  <2>6. DOMAIN a = 1..n
    OBVIOUS
  <2> HIDE DEF a
  <2>7. UniqueIds(a)
    BY <2>2, <2>5, <2>6 DEF UniqueIds
  <2> QED
    BY <1>1, <2>1, <2>4, <2>7 DEF n
<1> QED
  BY <1>3, <1>4

LEMMA HoldsMoved ==
  ASSUME NEW buffer \in Seq(Cell), NEW moved \in Seq(Cell), NEW d \in Nat, d + Len(buffer) <= Len(moved),
         \A k \in 1..Len(buffer) : moved[d + k] = buffer[k],
         NEW offset \in Nat, NEW bytes \in Seq(Byte), Holds(buffer, offset, bytes)
  PROVE  Holds(moved, d + offset, bytes)
<1> DEFINE n == Len(buffer)
<1>1. n \in Nat /\ Len(moved) \in Nat /\ d + n <= Len(moved) /\ \A k \in 1..n : moved[d + k] = buffer[k]
  OBVIOUS
<1>2. offset + Len(bytes) <= n
  BY DEF Holds
<1> HIDE DEF n
<1> QED
  BY <1>1, <1>2, HoldsShifted

LEMMA EntryMoved ==
  ASSUME NEW buffer \in Seq(Cell), NEW moved \in Seq(Cell), NEW d \in Nat, d + Len(buffer) <= Len(moved),
         \A k \in 1..Len(buffer) : moved[d + k] = buffer[k],
         NEW at \in Nat, NEW e \in EntryType, HoldsEntry(buffer, at, e)
  PROVE  HoldsEntry(moved, d + at, e)
<1> DEFINE n == Len(buffer)
<1>1. n \in Nat /\ Len(moved) \in Nat /\ d + n <= Len(moved) /\ \A k \in 1..n : moved[d + k] = buffer[k]
  OBVIOUS
<1>2. at + 12 + Len(e.name) + Len(e.report) <= n
  BY DEF HoldsEntry, Holds
<1> HIDE DEF n
<1>3. at + EntrySize(e) <= n
  <2>1. Len(e.name) \in Nat /\ Len(e.report) \in Nat /\ EntrySize(e) = 12 + Len(e.name) + Len(e.report)
    BY EntryIs
  <2> DEFINE a == Len(e.name)
             b == Len(e.report)
  <2>2. a \in Nat /\ b \in Nat /\ EntrySize(e) = 12 + a + b /\ at + 12 + a + b <= n
    BY <1>2, <2>1
  <2> HIDE DEF a, b
  <2>3. at + (12 + a + b) <= n
    BY <1>1, <2>2
  <2> QED
    BY <2>2, <2>3
<1> QED
  BY <1>1, <1>3, EntryShifted

(* Three sequences one behind the other.                                     *)
IsJoined(r, a, b, c) ==
  /\ r \in Seq(Cell) /\ Len(r) = (Len(a) + Len(b)) + Len(c)
  /\ \A k \in 1..Len(a) : r[k] = a[k]
  /\ \A k \in 1..Len(b) : r[Len(a) + k] = b[k]
  /\ \A k \in 1..Len(c) : r[(Len(a) + Len(b)) + k] = c[k]

LEMMA ThreeParts ==
  ASSUME NEW a \in Seq(Cell), NEW b \in Seq(Cell), NEW c \in Seq(Cell), NEW r, r = a \o b \o c
  PROVE  IsJoined(r, a, b, c)
<1> DEFINE l == Len(a)
           m == Len(b)
           n == Len(c)
           ab == a \o b
<1>1. l \in Nat /\ m \in Nat /\ n \in Nat
  OBVIOUS
<1>2. /\ ab \in Seq(Cell) /\ Len(ab) = l + m
      /\ \A k \in 1..(l + m) : ab[k] = IF k <= l THEN a[k] ELSE b[k - l]
  BY ConcatProperties
<1>3. r = ab \o c
  OBVIOUS
<1> HIDE DEF ab
<1>4. /\ r \in Seq(Cell) /\ Len(r) = Len(ab) + n
      /\ \A k \in 1..(Len(ab) + n) : r[k] = IF k <= Len(ab) THEN ab[k] ELSE c[k - Len(ab)]
  <2>1. \A x, y \in Seq(Cell) :
          /\ x \o y \in Seq(Cell) /\ Len(x \o y) = Len(x) + Len(y)
          /\ \A k \in 1..(Len(x) + Len(y)) : (x \o y)[k] = IF k <= Len(x) THEN x[k] ELSE y[k - Len(x)]
    BY ConcatProperties
  <2>2. ab \in Seq(Cell) /\ c \in Seq(Cell) /\ Len(c) = n
    BY <1>2
  <2> HIDE DEF n
  <2>3. /\ ab \o c \in Seq(Cell) /\ Len(ab \o c) = Len(ab) + Len(c)
        /\ \A k \in 1..(Len(ab) + Len(c)) :
             (ab \o c)[k] = IF k <= Len(ab) THEN ab[k] ELSE c[k - Len(ab)]
    BY <2>1, <2>2
  <2> QED
    BY ONLY <1>3, <2>2, <2>3, Zenon
<1> HIDE DEF l, m, n
<1>5. \A k \in 1..l : k \in 1..((l + m) + n) /\ k \in 1..(l + m) /\ k <= l + m /\ k <= l
  BY <1>1
<1>6. \A k \in 1..m : /\ l + k \in 1..((l + m) + n) /\ l + k \in 1..(l + m) /\ l + k <= l + m
                      /\ ~ (l + k <= l) /\ (l + k) - l = k
  BY <1>1
<1>7. \A k \in 1..n : /\ (l + m) + k \in 1..((l + m) + n) /\ ~ ((l + m) + k <= l + m)
                      /\ ((l + m) + k) - (l + m) = k
  BY <1>1
<1>8. \A k \in 1..l : r[k] = a[k]
  BY <1>2, <1>4, <1>5
<1>9. \A k \in 1..m : r[l + k] = b[k]
  BY <1>2, <1>4, <1>6
<1>10. \A k \in 1..n : r[(l + m) + k] = c[k]
  BY <1>2, <1>4, <1>7
<1> QED
  BY <1>2, <1>4, <1>8, <1>9, <1>10 DEF IsJoined, l, m, n

LEMMA FormIs == FormSize = SizeBytes + UIntBytes + Total(map)
BY DEF FormSize, Total

LEMMA FitsIs ==
  ASSUME TypeInv
  PROVE  Fits <=> SizeBytes + Start(map, Len(map) + 1) < UIntSpace
<1>1. Start(map, Len(map) + 1) = UIntBytes + Total(map) /\ Start(map, Len(map) + 1) \in Nat
  <2>1. Len(map) + 1 \in 1..(Len(map) + 1)
    BY MapIs
  <2> QED
    BY <2>1, MapIs, StartsAre
<1> DEFINE x == Total(map)
           y == Start(map, Len(map) + 1)
<1>2. y = 4 + x /\ y \in Nat
  BY <1>1 DEF UIntBytes
<1>3. FormSize = 8 + 4 + x
  BY FormIs DEF UIntBytes, SizeBytes
<1>4. x \in Nat
  <2>1. PICK v : IsSum(v, map) /\ x = v[Len(map)]
    BY MapIs, TotalIs
  <2>2. Len(map) \in 0..Len(map)
    BY MapIs
  <2> QED
    BY <2>1, <2>2 DEF IsSum
<1> HIDE DEF x, y
<1>5. 8 + 4 + x = 8 + y
  BY <1>2, <1>4
<1> QED
  BY <1>3, <1>5 DEF Fits, SizeBytes, y

LEMMA FitsStays ==
  ASSUME map' = map
  PROVE  Fits' <=> Fits
<1>1. Total(map)' = Total(map)
  OBVIOUS
<1>2. FormSize' = FormSize
  <2>1. (FormSize = SizeBytes + UIntBytes + Total(map))'
    BY FormIs, PTL
  <2> QED
    BY <1>1, <2>1, FormIs
<1> QED
  BY <1>2 DEF Fits

LEMMA InitInv == Init => IInv
<1> SUFFICES ASSUME Init
             PROVE  IInv
  OBVIOUS
<1>1. map = <<>> /\ ht = <<>> /\ outstr = <<>> /\ size = 0 /\ next = 1 /\ pc = "insert" /\ num_entries = 0 /\ loc = 0
  BY DEF Init, EmptyMap
<1>2. Len(map) = 0 /\ map \in MapOver(MapIds, Names, Names) /\ ht \in Seq(ReadType) /\ UniqueIds(map) /\ UniqueIds(ht)
  BY <1>1 DEF MapOver, UniqueIds
<1>3. outstr \in Seq(Byte \cup {UNWRITTEN})
  BY <1>1
<1>4. 1 \in 1..UIntSpace /\ 0 \in 0..(UIntSpace - 1) /\ 1 <= MaxInserts + 1
  BY UIntSpaceIs, PlacesGrow, IdsAssumption
<1>5. TypeOK
  BY <1>1, <1>2, <1>3, <1>4 DEF TypeOK
<1>6. 0 <= MaxInserts
  BY IdsAssumption
<1>7. TypeInv
  BY <1>1, <1>2, <1>4, <1>5, <1>6 DEF TypeInv, EmptyMap
<1> QED
  BY <1>1, <1>7 DEF IInv, Writing, Written, Reading

LEMMA InsertInv ==
  ASSUME IInv, NEW id \in MapIds, NEW name \in Names, NEW report \in Names, Insert(id, name, report)
  PROVE  IInv'
<1> DEFINE m == insert_mapping(map, id, name, report)
<1>1. TypeInv /\ TypeOK
  BY DEF IInv, TypeInv
<1>2. /\ pc = "insert" /\ next <= MaxInserts /\ map' = m /\ next' = next + 1
      /\ pc' = pc /\ outstr' = outstr /\ size' = size
      /\ num_entries' = num_entries /\ loc' = loc /\ ht' = ht
  BY DEF Insert, reading
<1>3. map \in Seq(EntryType) /\ UniqueIds(map) /\ Entry(id, name, report) \in EntryType /\ Len(map) \in Nat
  BY <1>1, MapIs DEF TypeOK, Entry, EntryType
<1>4. m \in Seq(EntryType) /\ UniqueIds(m) /\ Len(m) <= Len(map) + 1 /\ Len(m) \in Nat
  <2>1. m \in Seq(EntryType) /\ UniqueIds(m) /\ Len(m) <= Len(map) + 1
    BY <1>3, InsertUnique
  <2> HIDE DEF m
  <2>2. Len(m) \in Nat
    BY <2>1
  <2> QED
    BY <2>1, <2>2
<1> HIDE DEF m
<1>5. next \in Nat /\ next >= 1 /\ Len(map) < next /\ MaxInserts \in Nat /\ MaxInserts <= UIntSpace - 2
  BY <1>1, <1>2, IdsAssumption, UIntSpaceIs DEF TypeInv, TypeOK
<1>6. next + 1 \in 1..UIntSpace /\ Len(m) < next + 1 /\ next + 1 <= MaxInserts + 1 /\ Len(m) <= MaxInserts
  BY <1>2, <1>3, <1>4, <1>5, UIntSpaceIs
<1>7. TypeOK'
  BY <1>1, <1>2, <1>4, <1>6 DEF TypeOK, MapOver, EntryType
<1>8. ht \in Seq(ReadType) /\ ht = EmptyMap
  BY <1>1, <1>2 DEF TypeInv
<1>9. TypeInv'
  BY <1>2, <1>6, <1>7, <1>8 DEF TypeInv
<1> QED
  BY <1>2, <1>9 DEF IInv, Writing, Written, Reading

LEMMA SerializeCountInv ==
  ASSUME IInv, SerializeCount
  PROVE  IInv'
<1> DEFINE b == Bytes(Len(map), UIntBytes)
<1>1. TypeInv /\ TypeOK
  BY DEF IInv, TypeInv
<1>2. /\ pc = "insert" /\ pc' = "entries" /\ size' = UIntBytes /\ outstr' = b /\ next' = 1
      /\ map' = map /\ num_entries' = num_entries /\ loc' = loc /\ ht' = ht
  BY DEF SerializeCount, reading, count_mapping
<1>3. map \in Seq(EntryType) /\ Len(map) \in Nat
  BY <1>1, MapIs
<1>4. b \in Seq(Byte) /\ Len(b) = UIntBytes
  BY <1>3, UIntBytesType DEF UIntBytes
<1> HIDE DEF b
<1>5. b \in Seq(Byte \cup {UNWRITTEN})
  <2>1. Seq(Byte) \subseteq Seq(Byte \cup {UNWRITTEN})
    BY SeqMonotonic
  <2> QED
    BY <1>4, <2>1
<1>6. 1 \in 1..UIntSpace /\ UIntBytes \in Nat /\ 1 <= Len(map) + 1
  BY <1>3, UIntSpaceIs DEF UIntBytes
<1>7. TypeOK'
  BY <1>1, <1>2, <1>5, <1>6 DEF TypeOK
<1>8. \A k \in 1..UIntBytes : b[k] \in Byte
  BY <1>4
<1>9. Filled(UIntBytes)'
  BY <1>2, <1>4, <1>6, <1>8 DEF Filled
<1>10. ht \in Seq(ReadType) /\ Len(map) <= MaxInserts /\ ht = EmptyMap
  BY <1>1, <1>2 DEF TypeInv
<1>11. TypeInv'
  BY <1>2, <1>6, <1>7, <1>9, <1>10 DEF TypeInv
<1>12. Writing'
  <2>1. Start(map, 1) = UIntBytes
    BY <1>3, StartsAre
  <2>2. Holds(b, 0, b)
    <3>1. \A k \in 1..Len(b) : 0 + k = k
      OBVIOUS
    <3>2. 0 + Len(b) <= Len(b)
      BY <1>4 DEF UIntBytes
    <3> QED
      BY <3>1, <3>2 DEF Holds
  <2>3. 1..(1 - 1) = {}
    OBVIOUS
  <2> QED
    BY <1>2, <1>4, <1>9, <2>1, <2>2, <2>3 DEF Writing, b
<1> QED
  BY <1>2, <1>11, <1>12 DEF IInv, Written, Reading

LEMMA GrownIs ==
  ASSUME outstr \in Seq(Cell), NEW n \in Nat
  PROVE  /\ Grown(n) \in Seq(Cell) /\ Len(Grown(n)) = Len(outstr) + n
         /\ \A k \in 1..Len(outstr) : Grown(n)[k] = outstr[k]
<1> DEFINE u == [k \in 1..n |-> UNWRITTEN]
           l == Len(outstr)
<1>1. u \in [1..n -> Cell]
  BY DEF Cell
<1>2. u \in Seq(Cell) /\ Len(u) = n
  BY <1>1, SeqIs
<1>3. Grown(n) = outstr \o u
  BY DEF Grown
<1> HIDE DEF u
<1>4. /\ Grown(n) \in Seq(Cell) /\ Len(Grown(n)) = l + Len(u)
      /\ \A k \in 1..(l + Len(u)) : Grown(n)[k] = IF k <= l THEN outstr[k] ELSE u[k - l]
  BY <1>2, <1>3, ConcatProperties
<1>5. l \in Nat
  OBVIOUS
<1> HIDE DEF l
<1>6. \A k \in 1..l : k \in 1..(l + n) /\ k <= l
  BY <1>5
<1> QED
  BY <1>2, <1>4, <1>6 DEF l

LEMMA SerializeEntryInv ==
  ASSUME IInv, SerializeEntry
  PROVE  IInv'
<1> DEFINE e == map[next]
           at_id == size % UIntSpace
           at_name_length == (at_id + UIntBytes) % UIntSpace
           at_name == (at_name_length + UIntBytes) % UIntSpace
           at_report_length == (at_name + Len(e.name)) % UIntSpace
           at_report == (at_report_length + UIntBytes) % UIntSpace
           g == Grown(EntrySize(e))
           new == FieldsWritten(g, e, at_id, at_name_length, at_name, at_report_length, at_report)
<1>1. TypeInv /\ TypeOK /\ outstr \in Seq(Cell) /\ map \in Seq(EntryType) /\ Len(map) \in Nat
  BY MapIs DEF IInv, TypeInv
<1>2. /\ pc = "entries" /\ pc' = "entries" /\ next <= Len(map) /\ next' = next + 1
      /\ map' = map /\ num_entries' = num_entries /\ loc' = loc /\ ht' = ht
      /\ size' = size + EntrySize(e)
  BY DEF SerializeEntry, reading, count_mapping
<1>3. outstr' = new
  BY DEF SerializeEntry, FieldsWritten
<1>4. next \in 1..Len(map) /\ size \in Nat
  BY <1>1, <1>2 DEF TypeOK
<1>5. e \in EntryType
  BY <1>1, <1>4
<1>6. EntrySize(e) \in Nat /\ Len(e.name) \in Nat
  BY <1>5, EntryIs
<1>7. at_id \in Nat /\ at_name_length \in Nat /\ at_name \in Nat /\ at_report_length \in Nat /\ at_report \in Nat
  <2>1. \A x \in Nat : x % UIntSpace \in Nat
    <3>1. \A x \in Nat : x % UIntSpace \in 0..(UIntSpace - 1)
      BY UIntSpaceIs, DivIs
    <3>2. 0..(UIntSpace - 1) \subseteq Nat
      BY UIntSpaceIs
    <3> QED
      BY <3>1, <3>2
  <2>2. at_id \in Nat
    BY <1>4, <2>1
  <2> HIDE DEF at_id
  <2>3. at_id + UIntBytes \in Nat
    BY <2>2 DEF UIntBytes
  <2>4. at_name_length \in Nat
    BY <2>1, <2>3
  <2> HIDE DEF at_name_length
  <2>5. at_name_length + UIntBytes \in Nat
    BY <2>4 DEF UIntBytes
  <2>6. at_name \in Nat
    BY <2>1, <2>5
  <2> HIDE DEF at_name, e
  <2>7. at_name + Len(e.name) \in Nat
    BY <1>6, <2>6
  <2>8. at_report_length \in Nat
    BY <2>1, <2>7
  <2> HIDE DEF at_report_length
  <2>9. at_report_length + UIntBytes \in Nat
    BY <2>8 DEF UIntBytes
  <2>10. at_report \in Nat
    BY <2>1, <2>9
  <2> QED
    BY <2>2, <2>4, <2>6, <2>8, <2>10
<1>8. g \in Seq(Cell) /\ Len(g) = Len(outstr) + EntrySize(e) /\ \A k \in 1..Len(outstr) : g[k] = outstr[k]
  BY <1>1, <1>6, GrownIs
<1> HIDE DEF g
<1>9. new \in Seq(Cell) /\ Len(new) = Len(g) /\ \A k \in 1..Len(g) : g[k] \in Byte => new[k] \in Byte
  <2>1. \A x \in Nat : x \in Int
    OBVIOUS
  <2> HIDE DEF e, at_id, at_name_length, at_name, at_report_length, at_report
  <2> QED
    BY <1>5, <1>7, <1>8, <2>1, FieldsType
<1>10. Len(outstr) \in Nat /\ \A k \in 1..Len(outstr) : k \in 1..Len(g)
  <2>1. Len(outstr) \in Nat
    BY <1>1
  <2> HIDE DEF e
  <2> QED
    BY <1>6, <1>8, <2>1
<1>11. TypeInv'
  <2>1. size' \in Nat
    <3> HIDE DEF e
    <3> QED
      BY <1>2, <1>4, <1>6
  <2>2. next' \in 1..UIntSpace /\ next' <= Len(map) + 1
    <3>1. Len(map) < UIntSpace - 1
      BY <1>1, MapIs
    <3> QED
      BY <1>1, <1>2, <1>4, <3>1, UIntSpaceIs
  <2>3. outstr' \in Seq(Byte \cup {UNWRITTEN})
    BY <1>3, <1>9 DEF Cell
  <2>4. TypeOK'
    BY <1>1, <1>2, <2>1, <2>2, <2>3 DEF TypeOK
  <2>5. Filled(UIntBytes)'
    <3>1. UIntBytes <= Len(outstr) /\ \A k \in 1..UIntBytes : outstr[k] \in Byte
      BY <1>1, <1>2 DEF TypeInv, Filled
    <3>2. \A k \in 1..UIntBytes : k \in 1..Len(outstr)
      BY <1>10, <3>1 DEF UIntBytes
    <3>3. UIntBytes <= Len(new)
      <4> HIDE DEF e, new
      <4> QED
        BY <1>6, <1>8, <1>9, <1>10, <3>1 DEF UIntBytes
    <3>4. \A k \in 1..UIntBytes : new[k] \in Byte
      <4> HIDE DEF new
      <4> QED
        BY <1>8, <1>9, <1>10, <3>1, <3>2
    <3> HIDE DEF new
    <3> QED
      BY <1>3, <3>3, <3>4 DEF Filled
  <2>6. ht \in Seq(ReadType) /\ Len(map) <= MaxInserts /\ ht = EmptyMap
    BY <1>1, <1>2 DEF TypeInv
  <2> QED
    BY <1>2, <2>2, <2>4, <2>5, <2>6 DEF TypeInv
<1>12. ASSUME Fits
       PROVE  Writing'
  <2>1. Writing
    BY <1>12 DEF IInv
  <2>2. /\ size = Start(map, next) /\ Len(outstr) = size /\ \A k \in 1..size : outstr[k] \in Byte
        /\ Holds(outstr, 0, Bytes(Len(map), UIntBytes))
        /\ \A k \in 1..(next - 1) : HoldsEntry(outstr, Start(map, k), map[k])
    BY <1>2, <2>1 DEF Writing, Filled
  <2>3. /\ Start(map, next + 1) = size + EntrySize(e)
        /\ Start(map, next + 1) <= Start(map, Len(map) + 1) /\ Start(map, Len(map) + 1) \in Nat
    <3>1. next + 1 \in 1..(Len(map) + 1) /\ Len(map) + 1 \in 1..(Len(map) + 1)
      BY <1>1, <1>4
    <3> QED
      BY <1>1, <1>4, <2>2, <3>1, StartsAre
  <2>4. 8 + Start(map, Len(map) + 1) < UIntSpace
    BY <1>1, <1>12, FitsIs DEF SizeBytes
  <2> DEFINE a == Len(e.name)
             b == Len(e.report)
  <2>5. a \in Nat /\ b \in Nat /\ EntrySize(e) = 12 + a + b
    BY <1>5, EntryIs
  <2>6. at_id = size /\ at_name_length = size + 4 /\ at_name = size + 8
        /\ at_report_length = size + 8 + a /\ at_report = size + 12 + a
    <3> HIDE DEF e, a, b
    <3>1. size + (12 + a + b) < UIntSpace
      BY <1>4, <2>3, <2>4, <2>5, UIntSpaceIs
    <3>2. \A x \in Nat : x < UIntSpace => x % UIntSpace = x
      BY UIntSpaceIs, SmallIsItsRemainder
    <3>3. /\ size + 4 \in Nat /\ size + 8 \in Nat /\ size + 8 + a \in Nat /\ size + 12 + a \in Nat
          /\ size < UIntSpace /\ size + 4 < UIntSpace /\ size + 8 < UIntSpace
          /\ size + 8 + a < UIntSpace /\ size + 12 + a < UIntSpace
          /\ (size + 4) + 4 = size + 8 /\ (size + 8 + a) + 4 = size + 12 + a
      BY <1>4, <2>5, <3>1, UIntSpaceIs
    <3>4. at_id = size
      BY <1>4, <3>2, <3>3
    <3> HIDE DEF at_id
    <3>5. at_name_length = size + 4
      BY <3>2, <3>3, <3>4 DEF UIntBytes
    <3> HIDE DEF at_name_length
    <3>6. at_name = size + 8
      BY <3>2, <3>3, <3>5 DEF UIntBytes
    <3> HIDE DEF at_name
    <3>7. at_report_length = size + 8 + a
      BY <3>2, <3>3, <3>6 DEF a
    <3> HIDE DEF at_report_length
    <3>8. at_report = size + 12 + a
      BY <3>2, <3>3, <3>7 DEF UIntBytes
    <3> QED
      BY <3>4, <3>5, <3>6, <3>7, <3>8
  <2>7. new = FieldsWritten(g, e, size, size + 4, size + 8, size + 8 + Len(e.name), size + 12 + Len(e.name))
    BY <2>6
  <2>8. Len(g) = size + EntrySize(e)
    BY <1>8, <2>2
  <2> HIDE DEF new, e, at_id, at_name_length, at_name, at_report_length, at_report, a, b
  <2>9. /\ HoldsEntry(new, size, e) /\ \A k \in 1..size : new[k] = g[k]
        /\ \A k \in (size + 1)..(size + EntrySize(e)) : new[k] \in Byte
    BY <1>4, <1>5, <1>8, <2>7, <2>8, FieldsFit
  <2>10. \A k \in 1..size : new[k] = outstr[k]
    BY <1>8, <2>2, <2>9
  <2>11. Filled(size)'
    <3>1. \A k \in 1..(size + EntrySize(e)) : k \in 1..size \/ k \in (size + 1)..(size + EntrySize(e))
      BY <1>4, <1>6
    <3>2. \A k \in 1..(size + EntrySize(e)) : new[k] \in Byte
      BY <2>2, <2>9, <2>10, <3>1
    <3>3. size + EntrySize(e) <= Len(new)
      BY <1>4, <1>6, <1>9, <2>8
    <3> QED
      BY <1>2, <1>3, <3>2, <3>3 DEF Filled
  <2>12. /\ 0 + Len(outstr) <= Len(new) /\ \A k \in 1..Len(outstr) : new[0 + k] = outstr[k]
         /\ \A x \in Nat : 0 + x = x
    <3>1. 0 + Len(outstr) <= Len(new)
      BY <1>4, <1>6, <1>9, <2>2, <2>8
    <3>2. \A k \in 1..Len(outstr) : 0 + k = k
      OBVIOUS
    <3> QED
      BY <2>2, <2>10, <3>1, <3>2
  <2>13. Holds(new, 0, Bytes(Len(map), UIntBytes))
    <3>1. Bytes(Len(map), UIntBytes) \in Seq(Byte) /\ 0 \in Nat /\ 0 + 0 = 0
      BY <1>1, UIntBytesType
    <3>2. Holds(new, 0 + 0, Bytes(Len(map), UIntBytes))
      BY <1>1, <1>9, <2>2, <2>12, <3>1, HoldsMoved
    <3> QED
      BY <3>1, <3>2
  <2>14. ASSUME NEW k \in 1..next
         PROVE  HoldsEntry(new, Start(map, k), map[k])
    <3>1. CASE k = next
      BY <2>2, <2>9, <3>1 DEF e
    <3>2. CASE k # next
      <4>1. k \in 1..(next - 1) /\ k \in 1..(Len(map) + 1) /\ k \in 1..Len(map)
        BY <1>1, <1>4, <3>2
      <4>2. Start(map, k) \in Nat /\ map[k] \in EntryType
        BY <1>1, <4>1, StartsAre
      <4>3. HoldsEntry(outstr, Start(map, k), map[k])
        BY <2>2, <4>1
      <4>4. HoldsEntry(new, 0 + Start(map, k), map[k])
        BY <1>1, <1>9, <2>12, <4>2, <4>3, EntryMoved
      <4> QED
        BY <2>12, <4>2, <4>4
    <3> QED
      BY <3>1, <3>2
  <2>15. (next + 1) - 1 = next /\ Len(new) = size + EntrySize(e)
    BY <1>4, <1>9, <2>8
  <2> QED
    BY <1>2, <1>3, <2>3, <2>11, <2>13, <2>14, <2>15 DEF Writing
<1> QED
  BY <1>2, <1>11, <1>12, FitsStays DEF IInv, Written, Reading

LEMMA SizeBytesType ==
  ASSUME NEW x \in Nat
  PROVE  Bytes(x, SizeBytes) \in Seq(Byte) /\ Len(Bytes(x, SizeBytes)) = 8
BY BytesType DEF SizeBytes

LEMMA BytesAreCells == Seq(Byte) \subseteq Seq(Cell)
BY SeqMonotonic DEF Cell

LEMMA SerializeSizeInv ==
  ASSUME IInv, SerializeSize
  PROVE  IInv'
<1> DEFINE total == size + SizeBytes
           h == Bytes(total, SizeBytes)
           new == h \o outstr \o DbBytes
<1>1. TypeInv /\ TypeOK /\ outstr \in Seq(Cell) /\ map \in Seq(EntryType) /\ Len(map) \in Nat /\ size \in Nat
  BY MapIs DEF IInv, TypeInv, TypeOK
<1>2. /\ pc = "entries" /\ pc' = "header" /\ next > Len(map) /\ size' = total /\ outstr' = new
      /\ map' = map /\ num_entries' = num_entries /\ loc' = loc /\ ht' = ht /\ next' = next
  BY DEF SerializeSize, reading, count_mapping
<1>3. total \in Nat /\ total = 8 + size
  BY <1>1 DEF SizeBytes
<1>4. h \in Seq(Byte) /\ h \in Seq(Cell) /\ Len(h) = 8 /\ DbBytes \in Seq(Byte) /\ DbBytes \in Seq(Cell)
  <2> HIDE DEF total
  <2> QED
    BY <1>3, SizeBytesType, BytesAreCells, DbAssumption
<1> HIDE DEF h, total
<1>5. /\ new \in Seq(Cell) /\ Len(new) = (8 + Len(outstr)) + Len(DbBytes)
      /\ \A k \in 1..8 : new[k] = h[k]
      /\ \A k \in 1..Len(outstr) : new[8 + k] = outstr[k]
      /\ \A k \in 1..Len(DbBytes) : new[(8 + Len(outstr)) + k] = DbBytes[k]
  <2>1. /\ new \in Seq(Cell) /\ Len(new) = (Len(h) + Len(outstr)) + Len(DbBytes)
        /\ \A k \in 1..Len(h) : new[k] = h[k]
        /\ \A k \in 1..Len(outstr) : new[Len(h) + k] = outstr[k]
        /\ \A k \in 1..Len(DbBytes) : new[(Len(h) + Len(outstr)) + k] = DbBytes[k]
    <3>1. new = h \o outstr \o DbBytes
      OBVIOUS
    <3> HIDE DEF new
    <3>2. IsJoined(new, h, outstr, DbBytes)
      BY ONLY <1>1, <1>4, <3>1, ThreeParts, Zenon
    <3> QED
      BY <3>2 DEF IsJoined
  <2> HIDE DEF new
  <2> QED
    BY ONLY <1>4, <2>1, Zenon
<1> HIDE DEF new
<1>6. Len(outstr) \in Nat /\ Len(DbBytes) \in Nat /\ \A k \in 1..8 : h[k] \in Byte
  <2>1. \A k \in 1..Len(h) : h[k] \in Byte
    BY <1>4, ElementOfSeq
  <2>2. Len(outstr) \in Nat /\ Len(DbBytes) \in Nat
    BY <1>1, <1>4
  <2> QED
    BY ONLY <1>4, <2>1, <2>2, Zenon
<1>7. TypeInv'
  <2>1. outstr' \in Seq(Byte \cup {UNWRITTEN})
    BY <1>2, <1>5 DEF Cell
  <2>2. TypeOK'
    BY <1>1, <1>2, <1>3, <2>1 DEF TypeOK
  <2>3. Filled(SizeBytes + UIntBytes)'
    <3>1. 4 <= Len(outstr) /\ \A k \in 1..4 : outstr[k] \in Byte
      BY <1>1, <1>2 DEF TypeInv, Filled, UIntBytes
    <3>2. \A k \in 1..12 : k \in 1..8 \/ (k - 8 \in 1..4 /\ k - 8 \in 1..Len(outstr) /\ 8 + (k - 8) = k)
      <4>1. \A k \in 1..12 : k \in 1..8 \/ (k - 8 \in 1..4 /\ 8 + (k - 8) = k)
        OBVIOUS
      <4>2. \A k \in 1..4 : k \in 1..Len(outstr)
        BY <1>6, <3>1
      <4> QED
        BY ONLY <4>1, <4>2, Zenon
    <3>3. \A k \in 1..12 : new[k] \in Byte
      <4> SUFFICES ASSUME NEW k \in 1..12
                   PROVE  new[k] \in Byte
        OBVIOUS
      <4>1. CASE k \in 1..8
        BY ONLY <1>5, <1>6, <4>1, Zenon
      <4>2. CASE k - 8 \in 1..4 /\ k - 8 \in 1..Len(outstr) /\ 8 + (k - 8) = k
        <5>1. new[8 + (k - 8)] = outstr[k - 8] /\ outstr[k - 8] \in Byte
          BY ONLY <1>5, <3>1, <4>2, Zenon
        <5> QED
          BY ONLY <4>2, <5>1, Zenon
      <4> QED
        BY ONLY <3>2, <4>1, <4>2, Zenon
    <3>4. 12 <= Len(new)
      BY <1>5, <1>6, <3>1
    <3>5. SizeBytes + UIntBytes = 12
      BY DEF SizeBytes, UIntBytes
    <3> QED
      BY <1>2, <3>3, <3>4, <3>5 DEF Filled
  <2>4. ht \in Seq(ReadType) /\ Len(map) <= MaxInserts /\ ht = EmptyMap
    BY <1>1, <1>2 DEF TypeInv
  <2> QED
    BY <1>2, <2>2, <2>3, <2>4 DEF TypeInv
<1>8. ASSUME Fits
      PROVE  Written'
  <2>1. Writing
    BY <1>8 DEF IInv
  <2>2. next = Len(map) + 1
    BY <1>1, <1>2 DEF TypeInv, TypeOK
  <2>3. /\ size = Start(map, Len(map) + 1) /\ Len(outstr) = size
        /\ Holds(outstr, 0, Bytes(Len(map), UIntBytes))
        /\ \A k \in 1..Len(map) : HoldsEntry(outstr, Start(map, k), map[k])
    <3>1. (Len(map) + 1) - 1 = Len(map)
      BY <1>1
    <3> QED
      BY <1>2, <2>1, <2>2, <3>1 DEF Writing
  <2>4. 8 + Len(outstr) <= Len(new) /\ 8 \in Nat /\ 8 + Len(outstr) = total
    BY <1>3, <1>5, <1>6, <2>3
  <2>5. total = SizeBytes + Start(map, Len(map) + 1)
    BY <1>3, <2>3 DEF SizeBytes
  <2>6. Holds(new, 0, h)
    <3>1. \A k \in 1..8 : new[0 + k] = h[k]
      BY <1>5
    <3>2. 0 + 8 <= Len(new)
      BY <1>5, <1>6
    <3> QED
      BY <1>4, <3>1, <3>2 DEF Holds
  <2>7. Holds(new, 8, Bytes(Len(map), UIntBytes))
    <3>1. Bytes(Len(map), UIntBytes) \in Seq(Byte) /\ 0 \in Nat /\ 8 + 0 = 8
      BY <1>1, UIntBytesType
    <3>2. Holds(new, 8 + 0, Bytes(Len(map), UIntBytes))
      BY <1>1, <1>5, <2>3, <2>4, <3>1, HoldsMoved
    <3> QED
      BY <3>1, <3>2
  <2>8. ASSUME NEW k \in 1..Len(map)
        PROVE  HoldsEntry(new, 8 + Start(map, k), map[k])
    <3>1. k \in 1..(Len(map) + 1)
      BY <1>1
    <3>2. Start(map, k) \in Nat /\ map[k] \in EntryType
      BY <1>1, <3>1, StartsAre
    <3>3. HoldsEntry(outstr, Start(map, k), map[k])
      BY <2>3
    <3> QED
      BY <1>1, <1>5, <2>4, <3>2, <3>3, EntryMoved
  <2>9. Holds(new, total, DbBytes)
    <3>1. total + Len(DbBytes) <= Len(new)
      BY <1>3, <1>5, <1>6, <2>4
    <3> QED
      BY <1>5, <2>4, <3>1 DEF Holds
  <2>10. Len(new) = total + Len(DbBytes)
    BY <1>5, <2>4
  <2>11. Holds(new, 0, Bytes(total, SizeBytes)) /\ SizeBytes = 8
    BY <2>6 DEF h, SizeBytes
  <2> QED
    BY <1>2, <2>5, <2>7, <2>8, <2>9, <2>10, <2>11 DEF Written
<1> QED
  BY <1>2, <1>7, <1>8, FitsStays DEF IInv, Writing, Reading

(* What can be read are bytes.                                               *)
LEMMA ReadableAreBytes ==
  ASSUME outstr \in Seq(Cell), NEW a \in Nat, NEW n \in Nat, Readable(a, n)
  PROVE  ReadAt(a, n) \in Seq(Byte) /\ Len(ReadAt(a, n)) = n
<1> DEFINE r == SubSeq(outstr, a + 1, a + n)
<1>1. \A k \in (a + 1)..(a + n) : outstr[k] \in Byte
  <2>1. \A k \in DOMAIN outstr : outstr[k] \in Cell
    OBVIOUS
  <2> QED
    BY <2>1 DEF Readable, Cell
<1>2. a + 1 \in Int /\ a + n \in Int
  OBVIOUS
<1>3. /\ r \in Seq(Byte)
      /\ Len(r) = IF a + 1 <= a + n THEN (a + n) - (a + 1) + 1 ELSE 0
  BY <1>1, <1>2, SubSeqProperties
<1> HIDE DEF r
<1>4. Len(r) = n
  BY <1>3
<1> QED
  BY <1>3, <1>4 DEF ReadAt, r

LEMMA FilledIsReadable ==
  ASSUME outstr \in Seq(Cell), NEW n \in Nat, Filled(n), NEW a \in Nat, NEW m \in Nat, a + m <= n
  PROVE  Readable(a, m)
<1>1. UNWRITTEN \notin Byte
  BY BaseIs DEF Byte, UNWRITTEN
<1>2. \A k \in (a + 1)..(a + m) : k \in 1..n
  OBVIOUS
<1>3. DOMAIN outstr = 1..Len(outstr) /\ Len(outstr) \in Nat /\ n <= Len(outstr)
  BY DEF Filled
<1>4. \A k \in 1..n : k \in DOMAIN outstr
  BY <1>3
<1> QED
  BY <1>1, <1>2, <1>4 DEF Filled, Readable

LEMMA UIntRange ==
  ASSUME outstr \in Seq(Cell), NEW a \in Nat, Readable(a, UIntBytes)
  PROVE  UIntAt(a) \in 0..(UIntSpace - 1)
<1> DEFINE r == ReadAt(a, UIntBytes)
<1>1. r \in Seq(Byte) /\ Len(r) = UIntBytes
  <2>1. UIntBytes \in Nat
    BY DEF UIntBytes
  <2> QED
    BY <2>1, ReadableAreBytes
<1> HIDE DEF r
<1>2. Number(r) \in 0..(Place[UIntBytes] - 1)
  <2>1. Len(r) <= SizeBytes
    BY <1>1 DEF UIntBytes, SizeBytes
  <2> QED
    BY <1>1, <2>1, NumberRange
<1> QED
  BY <1>2 DEF UIntAt, UIntSpace, r

LEMMA UnserializeHeaderInv ==
  ASSUME IInv, UnserializeHeader
  PROVE  IInv'
<1>1. TypeInv /\ TypeOK /\ outstr \in Seq(Cell) /\ map \in Seq(EntryType) /\ Len(map) \in Nat
  BY MapIs DEF IInv, TypeInv
<1>2. /\ pc = "header" /\ pc' = "read" /\ size' = Number(ReadAt(0, SizeBytes))
      /\ num_entries' = UIntAt(SizeBytes) /\ loc' = 12 /\ next' = 1
      /\ map' = map /\ outstr' = outstr /\ ht' = ht
  BY DEF UnserializeHeader, SizeBytes, UIntBytes
<1>3. Filled(12)
  BY <1>1, <1>2 DEF TypeInv, SizeBytes, UIntBytes
<1>4. Readable(0, SizeBytes) /\ Readable(SizeBytes, UIntBytes)
  <2>1. 0 \in Nat /\ 8 \in Nat /\ 4 \in Nat /\ 12 \in Nat /\ 0 + 8 <= 12 /\ 8 + 4 <= 12
    OBVIOUS
  <2> QED
    BY <1>1, <1>3, <2>1, FilledIsReadable DEF SizeBytes, UIntBytes
<1>5. size' \in Nat
  <2> DEFINE r == ReadAt(0, SizeBytes)
  <2>1. r \in Seq(Byte) /\ Len(r) = SizeBytes
    <3>1. 0 \in Nat /\ SizeBytes \in Nat
      BY DEF SizeBytes
    <3> QED
      BY <1>1, <1>4, <3>1, ReadableAreBytes
  <2> HIDE DEF r
  <2>2. Number(r) \in 0..(Place[SizeBytes] - 1)
    <3>1. Len(r) <= SizeBytes
      BY <2>1 DEF SizeBytes
    <3> QED
      BY <2>1, <3>1, NumberRange
  <2> QED
    BY <1>2, <2>2 DEF r
<1>6. UIntAt(SizeBytes) \in 0..(UIntSpace - 1)
  <2>1. SizeBytes \in Nat
    BY DEF SizeBytes
  <2> QED
    BY <1>1, <1>4, <2>1, UIntRange
<1>7. TypeInv'
  <2>1. 12 \in 0..(UIntSpace - 1) /\ 1 \in 1..UIntSpace
    BY PlacesGrow, UIntSpaceIs
  <2>2. TypeOK'
    BY <1>1, <1>2, <1>5, <1>6, <2>1 DEF TypeOK
  <2>3. 1 <= UIntAt(SizeBytes) + 1
    BY <1>6, UIntSpaceIs
  <2>4. ht \in Seq(ReadType) /\ Len(map) <= MaxInserts
    BY <1>1 DEF TypeInv
  <2> QED
    BY <1>2, <2>2, <2>3, <2>4 DEF TypeInv
<1>8. ASSUME Fits
      PROVE  Written' /\ Reading'
  <2>1. Written
    BY <1>8 DEF IInv
  <2>2. /\ size = SizeBytes + Start(map, Len(map) + 1)
        /\ Holds(outstr, 0, Bytes(size, SizeBytes))
        /\ Holds(outstr, SizeBytes, Bytes(Len(map), UIntBytes))
    BY <1>2, <2>1 DEF Written
  <2>3. size' = size
    <3> DEFINE b == Bytes(size, SizeBytes)
    <3>1. size \in Nat /\ size < Place[SizeBytes] /\ SizeBytes \in 0..SizeBytes
      <4>1. size \in Nat
        BY <1>1 DEF TypeOK
      <4>2. size < UIntSpace
        BY <1>1, <1>8, <2>2, FitsIs
      <4>3. Place[SizeBytes] \in Nat /\ SizeBytes \in 0..SizeBytes
        BY PlacesAre DEF SizeBytes
      <4> QED
        BY <4>1, <4>2, <4>3, PlacesGrow, UIntSpaceIs
    <3>2. b \in Seq(Byte) /\ Len(b) = SizeBytes /\ Number(b) = size
      BY <3>1, SizeBytesType, DigitsAre DEF SizeBytes
    <3> HIDE DEF b
    <3>3. ReadAt(0, SizeBytes) = b
      <4>1. 0 \in Nat
        OBVIOUS
      <4> QED
        BY <1>1, <2>2, <3>2, <4>1, ReadIs DEF b
    <3> QED
      BY <1>2, <3>2, <3>3
  <2>4. num_entries' = Len(map)
    <3>1. Len(map) < UIntSpace /\ SizeBytes \in Nat
      BY <1>1, MapIs, UIntSpaceIs DEF SizeBytes
    <3> QED
      BY <1>1, <1>2, <2>2, <3>1, UIntIs
  <2>5. Written'
    BY <1>2, <2>1, <2>3 DEF Written
  <2>6. loc' = SizeBytes + Start(map, 1)
    BY <1>1, <1>2, StartsAre DEF SizeBytes, UIntBytes
  <2>7. Len(ht) = 0 /\ 1 <= Len(map) + 1 /\ 1 - 1 = 0 /\ 1..0 = {}
    BY <1>1, <1>2 DEF TypeInv, EmptyMap
  <2>8. Reading'
    BY <1>2, <2>4, <2>6, <2>7 DEF Reading
  <2> QED
    BY <2>5, <2>8
<1> QED
  BY <1>2, <1>7, <1>8, FitsStays DEF IInv, Writing

(* What EntryReadable lets through has types, whatever the file holds.       *)
LEMMA EntryReadType ==
  ASSUME outstr \in Seq(Cell), loc \in Nat, EntryReadable
  PROVE  /\ EntryAt(loc).id \in Int /\ EntryAt(loc).name \in Seq(Cell) /\ EntryAt(loc).report \in Seq(Cell)
         /\ EntryAt(loc).end \in 0..(UIntSpace - 1)
<1> DEFINE a == UIntAt(loc + 4)
           b == UIntAt(loc + 8 + a)
<1>1. Readable(loc, 8) /\ Readable(loc + 8, a + 4) /\ Readable(loc + 8 + a + 4, b)
  <2>1. UIntBytes = 4 /\ 2 * UIntBytes = 8
    BY DEF UIntBytes
  <2> QED
    BY <2>1 DEF EntryReadable
<1>2. Readable(loc, 4) /\ Readable(loc + 4, 4)
  <2>1. \A k \in (loc + 1)..(loc + 4) : k \in (loc + 1)..(loc + 8)
    OBVIOUS
  <2>2. \A k \in ((loc + 4) + 1)..((loc + 4) + 4) : k \in (loc + 1)..(loc + 8)
    OBVIOUS
  <2> QED
    BY <1>1, <2>1, <2>2 DEF Readable
<1>3. UIntAt(loc) \in 0..(UIntSpace - 1) /\ a \in 0..(UIntSpace - 1)
  <2>1. loc + 4 \in Nat
    OBVIOUS
  <2> HIDE DEF a
  <2>2. UIntAt(loc + 4) \in 0..(UIntSpace - 1)
    BY <1>2, <2>1, UIntRange DEF UIntBytes
  <2>3. UIntAt(loc) \in 0..(UIntSpace - 1)
    BY <1>2, UIntRange DEF UIntBytes
  <2> QED
    BY <2>2, <2>3 DEF a
<1>4. a \in Nat /\ UIntAt(loc) \in Nat
  BY <1>3, UIntSpaceIs
<1>5. b = UIntAt(loc + 8 + a)
  OBVIOUS
<1> HIDE DEF a, b
<1>6. Readable(loc + 8, a) /\ Readable(loc + 8 + a, 4)
  <2>1. \A k \in ((loc + 8) + 1)..((loc + 8) + a) : k \in ((loc + 8) + 1)..((loc + 8) + (a + 4))
    BY <1>4
  <2>2. \A k \in ((loc + 8 + a) + 1)..((loc + 8 + a) + 4) : k \in ((loc + 8) + 1)..((loc + 8) + (a + 4))
    BY <1>4
  <2> QED
    BY <1>1, <2>1, <2>2 DEF Readable
<1>7. b \in 0..(UIntSpace - 1) /\ b \in Nat
  <2>1. loc + 8 + a \in Nat
    BY <1>4
  <2>2. UIntAt(loc + 8 + a) \in 0..(UIntSpace - 1)
    BY <1>6, <2>1, UIntRange DEF UIntBytes
  <2> QED
    BY <1>5, <2>2, UIntSpaceIs
<1>8. ReadAt(loc + 8, a) \in Seq(Cell) /\ ReadAt(loc + 12 + a, b) \in Seq(Cell)
  <2>1. loc + 8 + a + 4 = loc + 12 + a /\ loc + 8 \in Nat /\ loc + 12 + a \in Nat
    BY <1>4
  <2>2. ReadAt(loc + 8, a) \in Seq(Byte)
    BY <1>4, <1>6, <2>1, ReadableAreBytes
  <2>3. ReadAt(loc + 12 + a, b) \in Seq(Byte)
    BY <1>1, <1>7, <2>1, ReadableAreBytes
  <2> QED
    BY <2>2, <2>3, BytesAreCells
<1>9. (loc + 12 + a + b) % UIntSpace \in 0..(UIntSpace - 1)
  <2>1. \A x \in Nat : x % UIntSpace \in 0..(UIntSpace - 1)
    BY UIntSpaceIs, DivIs
  <2>2. loc + 12 + a + b \in Nat
    BY <1>4, <1>7
  <2> QED
    BY <2>1, <2>2
<1>10. EntryAt(loc) = [id |-> UIntAt(loc), name |-> ReadAt(loc + 8, a), report |-> ReadAt(loc + 12 + a, b),
                       end |-> (loc + 12 + a + b) % UIntSpace]
  <2>1. /\ loc + 8 + a + 4 = loc + 12 + a /\ (loc + 12 + a) - 4 = loc + 8 + a
        /\ 2 * UIntBytes = 8 /\ UIntBytes = 4
    BY <1>4 DEF UIntBytes
  <2> QED
    BY <1>5, <2>1 DEF EntryAt, a
<1> QED
  BY <1>4, <1>8, <1>9, <1>10

LEMMA UnserializeEntryInv ==
  ASSUME IInv, UnserializeEntry
  PROVE  IInv'
<1>1. TypeInv /\ TypeOK /\ outstr \in Seq(Cell) /\ map \in Seq(EntryType) /\ Len(map) \in Nat
  BY MapIs DEF IInv, TypeInv
<1>2. /\ pc = "read" /\ next <= num_entries /\ map' = map /\ outstr' = outstr /\ size' = size
      /\ num_entries' = num_entries
  BY DEF UnserializeEntry, reading
<1>3. loc \in Nat /\ next \in Nat /\ next >= 1 /\ num_entries \in Nat /\ num_entries < UIntSpace
  BY <1>1, UIntSpaceIs DEF TypeOK
<1>4. CASE EntryReadable
  <2> DEFINE e == EntryAt(loc)
  <2>1. /\ ht' = insert_mapping(ht, e.id, e.name, e.report) /\ loc' = e.end /\ next' = next + 1 /\ pc' = pc
    BY <1>4 DEF UnserializeEntry
  <2>2. /\ e.id \in Int /\ e.name \in Seq(Cell) /\ e.report \in Seq(Cell) /\ e.end \in 0..(UIntSpace - 1)
    BY <1>1, <1>3, <1>4, EntryReadType
  <2> HIDE DEF e
  <2>3. TypeInv'
    <3>1. Entry(e.id, e.name, e.report) \in ReadType
      BY <2>2 DEF Entry, ReadType
    <3>2. ht \in Seq(ReadType) /\ UniqueIds(ht) /\ Len(map) <= MaxInserts
      BY <1>1 DEF TypeInv, TypeOK
    <3>3. ht' \in Seq(ReadType) /\ UniqueIds(ht')
      BY <2>1, <3>1, <3>2, InsertUnique
    <3>4. next + 1 \in 1..UIntSpace /\ next + 1 <= num_entries + 1
      BY <1>2, <1>3, UIntSpaceIs
    <3>5. UniqueIds(ht)'
      BY <3>3 DEF UniqueIds
    <3>6. TypeOK'
      BY <1>1, <1>2, <2>1, <2>2, <3>4, <3>5 DEF TypeOK
    <3> QED
      BY <1>2, <2>1, <3>2, <3>3, <3>4, <3>6 DEF TypeInv
  <2>4. ASSUME Fits
        PROVE  Written' /\ Reading'
    <3> DEFINE x == map[next]
    <3>1. Written /\ Reading
      BY <2>4 DEF IInv
    <3>2. /\ num_entries = Len(map) /\ Len(ht) = next - 1 /\ \A k \in 1..(next - 1) : ht[k] = map[k]
          /\ loc = SizeBytes + Start(map, next)
          /\ \A k \in 1..Len(map) : HoldsEntry(outstr, SizeBytes + Start(map, k), map[k])
      BY <1>2, <3>1 DEF Written, Reading
    <3>3. next \in 1..Len(map) /\ next + 1 \in 1..(Len(map) + 1) /\ Len(map) + 1 \in 1..(Len(map) + 1)
      BY <1>1, <1>2, <1>3, <3>2
    <3>4. x \in EntryType /\ HoldsEntry(outstr, loc, x)
      BY <1>1, <3>2, <3>3
    <3>5. /\ Start(map, next + 1) = Start(map, next) + EntrySize(x) /\ Start(map, next) \in Nat
          /\ Start(map, next + 1) <= Start(map, Len(map) + 1) /\ Start(map, Len(map) + 1) \in Nat
          /\ Start(map, next + 1) \in Nat
      <4>1. next \in 1..(Len(map) + 1)
        BY <1>1, <3>3
      <4> QED
        BY <1>1, <3>3, <4>1, StartsAre
    <3>6. EntrySize(x) \in Nat
      BY <3>4, EntryIs
    <3> HIDE DEF x
    <3>7. SizeBytes + Start(map, Len(map) + 1) < UIntSpace
      BY <1>1, <2>4, FitsIs
    <3>8. loc + EntrySize(x) = SizeBytes + Start(map, next + 1) /\ loc + EntrySize(x) < UIntSpace
      <4> DEFINE s == Start(map, next)
                 z == EntrySize(x)
                 t == Start(map, next + 1)
                 u == Start(map, Len(map) + 1)
      <4>1. /\ s \in Nat /\ z \in Nat /\ u \in Nat /\ t = s + z /\ t <= u /\ loc = 8 + s /\ 8 + u < UIntSpace
        BY <3>2, <3>5, <3>6, <3>7 DEF SizeBytes
      <4> HIDE DEF s, z, t, u
      <4>2. loc + z = 8 + t /\ loc + z < UIntSpace
        BY <4>1, UIntSpaceIs
      <4> QED
        BY <4>2 DEF z, t, SizeBytes
    <3>9. e = [id |-> x.id, name |-> x.name, report |-> x.report, end |-> loc + EntrySize(x)]
      BY <1>1, <1>3, <3>4, <3>8, EntryRead DEF e
    <3>10. x = Entry(x.id, x.name, x.report)
      BY <3>4 DEF EntryType, Entry
    <3>11. ht \in Seq(ReadType)
      BY <1>1 DEF TypeInv
    <3>12. x \in ReadType
      <4>1. Entry(e.id, e.name, e.report) \in ReadType
        BY <2>2 DEF Entry, ReadType
      <4> QED
        BY <3>9, <3>10, <4>1
    <3>13. Positions(ht, x.id) = {}
      <4>1. ASSUME NEW k \in 1..(next - 1)
            PROVE  ht[k].id # x.id
        <5>1. k \in 1..Len(map) /\ next \in 1..Len(map) /\ k # next /\ ht[k] = map[k]
          BY <1>3, <3>2, <3>3
        <5>2. UniqueIds(map) /\ DOMAIN map = 1..Len(map)
          BY <1>1 DEF TypeOK
        <5> QED
          BY <5>1, <5>2 DEF UniqueIds, x
      <4>2. DOMAIN ht = 1..(next - 1)
        BY <3>2, <3>11
      <4> QED
        BY <4>1, <4>2 DEF Positions
    <3>14. ht' = Append(ht, x)
      BY <2>1, <3>9, <3>10, <3>13 DEF insert_mapping
    <3>15. Len(ht') = (next + 1) - 1 /\ \A k \in 1..((next + 1) - 1) : ht'[k] = map[k]
      <4> DEFINE h == Append(ht, x)
      <4>1. Len(h) = Len(ht) + 1 /\ \A k \in 1..Len(ht) : h[k] = ht[k]
        BY <3>11, <3>12, AppendProperties
      <4>2. h[Len(ht) + 1] = x
        BY <3>11, <3>12, AppendProperties
      <4> HIDE DEF h
      <4>3. Len(ht) + 1 = next /\ (next + 1) - 1 = next
        BY <1>3, <3>2
      <4>4. \A k \in 1..next : k \in 1..(next - 1) \/ k = next
        BY <1>3
      <4>5. \A k \in 1..next : h[k] = map[k]
        BY <3>2, <4>1, <4>2, <4>3, <4>4 DEF x
      <4> QED
        BY <3>14, <4>1, <4>3, <4>5 DEF h
    <3>16. loc' = SizeBytes + Start(map, next + 1)
      BY <2>1, <3>8, <3>9
    <3>17. next + 1 <= Len(map) + 1
      BY <3>3
    <3>18. Reading'
      BY <1>2, <2>1, <3>2, <3>15, <3>16, <3>17 DEF Reading
    <3>19. Written'
      BY <1>2, <2>1, <3>1 DEF Written
    <3> QED
      BY <3>18, <3>19
  <2> QED
    BY <1>2, <2>1, <2>3, <2>4, FitsStays DEF IInv, Writing
<1>5. CASE ~ EntryReadable
  <2>1. pc' = "overrun" /\ UNCHANGED <<map, outstr, size, next, num_entries, loc, ht>>
    BY <1>5 DEF UnserializeEntry, reading
  <2>2. TypeInv'
    BY <1>1, <2>1 DEF TypeInv, TypeOK
  <2>3. ~ Fits
    <3> SUFFICES ASSUME Fits
                 PROVE  FALSE
      OBVIOUS
    <3> DEFINE x == map[next]
    <3>1. Written /\ Reading
      BY DEF IInv
    <3>2. /\ num_entries = Len(map) /\ loc = SizeBytes + Start(map, next)
          /\ \A k \in 1..Len(map) : HoldsEntry(outstr, SizeBytes + Start(map, k), map[k])
      BY <1>2, <3>1 DEF Written, Reading
    <3>3. next \in 1..Len(map) /\ next + 1 \in 1..(Len(map) + 1) /\ Len(map) + 1 \in 1..(Len(map) + 1)
      BY <1>1, <1>2, <1>3, <3>2
    <3>4. x \in EntryType /\ HoldsEntry(outstr, loc, x)
      BY <1>1, <3>2, <3>3
    <3>5. /\ Start(map, next + 1) = Start(map, next) + EntrySize(x) /\ Start(map, next) \in Nat
          /\ Start(map, next + 1) <= Start(map, Len(map) + 1) /\ Start(map, Len(map) + 1) \in Nat
          /\ Start(map, next + 1) \in Nat
      <4>1. next \in 1..(Len(map) + 1)
        BY <1>1, <3>3
      <4> QED
        BY <1>1, <3>3, <4>1, StartsAre
    <3>6. EntrySize(x) \in Nat
      BY <3>4, EntryIs
    <3> HIDE DEF x
    <3>7. SizeBytes + Start(map, Len(map) + 1) < UIntSpace
      BY <1>1, FitsIs
    <3>8. loc + EntrySize(x) < UIntSpace
      BY <3>2, <3>5, <3>6, <3>7, UIntSpaceIs DEF SizeBytes
    <3> QED
      BY <1>1, <1>3, <1>5, <3>4, <3>8, EntryRead
  <2> QED
    BY <2>1, <2>2, <2>3, FitsStays DEF IInv
<1> QED
  BY <1>4, <1>5

LEMMA UnserializeDoneInv ==
  ASSUME IInv, UnserializeDone
  PROVE  IInv'
<1>1. TypeInv /\ TypeOK
  BY DEF IInv, TypeInv
<1>2. /\ pc = "read" /\ next > num_entries /\ pc' = "done"
      /\ UNCHANGED <<map, outstr, size, next, num_entries, loc, ht>>
  BY DEF UnserializeDone, reading
<1>3. TypeInv'
  BY <1>1, <1>2 DEF TypeInv, TypeOK
<1>4. ASSUME Fits
      PROVE  Written' /\ Reading'
  <2>1. Written /\ Reading
    BY <1>4 DEF IInv
  <2>2. Written'
    BY <1>2, <2>1 DEF Written
  <2>3. next = Len(map) + 1
    <3>1. num_entries = Len(map) /\ next <= Len(map) + 1 /\ num_entries \in Nat /\ next \in Nat
      BY <1>1, <1>2, <2>1, UIntSpaceIs DEF Reading, TypeOK
    <3> QED
      BY <1>2, <3>1
  <2>4. Reading'
    BY <1>2, <2>1, <2>3 DEF Reading
  <2> QED
    BY <2>2, <2>4
<1> QED
  BY <1>2, <1>3, <1>4, FitsStays DEF IInv, Writing

LEMMA NextInv == IInv /\ [Next]_vars => IInv'
<1> SUFFICES ASSUME IInv, [Next]_vars
             PROVE  IInv'
  OBVIOUS
<1>1. CASE UNCHANGED vars
  <2>1. UNCHANGED <<pc, map, outstr, size, next, num_entries, loc, ht>>
    BY <1>1 DEF vars, reading
  <2>2. TypeInv => TypeInv'
    BY <2>1 DEF TypeInv, TypeOK, Filled
  <2>3. (Writing => Writing') /\ (Written => Written') /\ (Reading => Reading')
    BY <2>1 DEF Writing, Written, Reading, Filled
  <2> QED
    BY <2>1, <2>2, <2>3, FitsStays DEF IInv
<1>2. ASSUME NEW id \in MapIds, NEW name \in Names, NEW report \in Names, Insert(id, name, report)
      PROVE  IInv'
  BY <1>2, InsertInv
<1>3. CASE SerializeCount
  BY <1>3, SerializeCountInv
<1>4. CASE SerializeEntry
  BY <1>4, SerializeEntryInv
<1>5. CASE SerializeSize
  BY <1>5, SerializeSizeInv
<1>6. CASE UnserializeHeader
  BY <1>6, UnserializeHeaderInv
<1>7. CASE UnserializeEntry
  BY <1>7, UnserializeEntryInv
<1>8. CASE UnserializeDone
  BY <1>8, UnserializeDoneInv
<1>9. CASE Terminated
  BY <1>1, <1>9 DEF Terminated
<1> QED
  BY <1>1, <1>2, <1>3, <1>4, <1>5, <1>6, <1>7, <1>8, <1>9 DEF Next

LEMMA InvHolds == Spec => []IInv
BY InitInv, NextInv, PTL DEF Spec

(* The types of both functions' variables, for maps that fit an unsigned int *)
(* and maps that do not; no id is ever twice in a map, the one read included.*)
THEOREM TypeCorrect == Spec => []TypeOK
<1>1. IInv => TypeOK
  BY DEF IInv, TypeInv
<1> QED
  BY <1>1, InvHolds, PTL

(* serialize_mapping leaves no gap between two fields and none at the end.   *)
THEOREM BuffersAreFull == Spec => []BufferIsFull
<1>1. IInv => BufferIsFull
  <2> SUFFICES ASSUME IInv, pc = "entries", Fits
               PROVE  Len(outstr) = size /\ \A k \in 1..size : outstr[k] # UNWRITTEN
    BY DEF BufferIsFull
  <2>1. Len(outstr) = size /\ \A k \in 1..size : outstr[k] \in Byte
    BY DEF IInv, Writing, Filled
  <2>2. UNWRITTEN \notin Byte
    BY BaseIs DEF Byte, UNWRITTEN
  <2> QED
    BY <2>1, <2>2
<1> QED
  BY <1>1, InvHolds, PTL

(* unserialize_mapping, which is given no length, reads nothing but the map  *)
(* of a file that serialize_mapping began, if the map fits the width of the  *)
(* offset it was written at.                                                 *)
THEOREM ReadsStay == Spec => []ReadsStayInTheMap
<1>1. IInv => ReadsStayInTheMap
  <2> SUFFICES ASSUME IInv, Fits
               PROVE  pc # "overrun" /\ (pc = "read" => loc <= size)
    BY DEF ReadsStayInTheMap
  <2>1. pc # "overrun" /\ Written /\ Reading /\ TypeInv
    BY DEF IInv
  <2>2. ASSUME pc = "read"
        PROVE  loc <= size
    <3>1. /\ size = SizeBytes + Start(map, Len(map) + 1) /\ loc = SizeBytes + Start(map, next)
          /\ next <= Len(map) + 1
      BY <2>1, <2>2 DEF Written, Reading
    <3>2. next \in 1..(Len(map) + 1) /\ Len(map) + 1 \in 1..(Len(map) + 1)
      BY <2>1, <3>1, MapIs DEF TypeInv, TypeOK
    <3>3. /\ Start(map, next) \in Nat /\ Start(map, next) <= Start(map, Len(map) + 1)
          /\ Start(map, Len(map) + 1) \in Nat
      BY <2>1, <3>2, MapIs, StartsAre
    <3> QED
      BY <3>1, <3>3 DEF SizeBytes
  <2> QED
    BY <2>1, <2>2
<1> QED
  BY <1>1, InvHolds, PTL

(* hsrun gets the map hscompile had, and behind it the database, for any     *)
(* number of entries with strings of any length that an unsigned int can     *)
(* measure.                                                                  *)
THEOREM RoundTrips == Spec => []RoundTrip
<1>1. IInv => RoundTrip
  <2> SUFFICES ASSUME IInv, pc = "done", Fits
               PROVE  ht = map /\ SubSeq(outstr, size + 1, Len(outstr)) = DbBytes
    BY DEF RoundTrip
  <2>1. Written /\ Reading /\ TypeInv
    BY DEF IInv
  <2>2. /\ Len(outstr) = size + Len(DbBytes) /\ Holds(outstr, size, DbBytes)
        /\ Len(ht) = next - 1 /\ next = Len(map) + 1 /\ \A k \in 1..(next - 1) : ht[k] = map[k]
    BY <2>1 DEF Written, Reading
  <2>3. ht \in Seq(ReadType) /\ map \in Seq(EntryType) /\ Len(map) \in Nat /\ outstr \in Seq(Cell) /\ size \in Nat
    BY <2>1, MapIs DEF TypeInv, TypeOK
  <2>4. Len(ht) = Len(map) /\ \A k \in 1..Len(ht) : ht[k] = map[k]
    <3>1. next - 1 = Len(map)
      BY <2>2, <2>3
    <3> QED
      BY <2>2, <3>1
  <2>5. map \in Seq(ReadType)
    <3>1. \A e \in EntryType : e \in ReadType
      <4> SUFFICES ASSUME NEW e \in EntryType
                   PROVE  e \in ReadType
        OBVIOUS
      <4>1. e.id \in Int /\ e.name \in Seq(Cell) /\ e.report \in Seq(Cell)
        <5>1. e.id \in Nat /\ e.name \in Seq(Byte) /\ e.report \in Seq(Byte)
          BY EntryIs
        <5> QED
          BY <5>1, BytesAreCells
      <4> QED
        BY <4>1 DEF EntryType, ReadType
    <3>2. EntryType \subseteq ReadType
      BY <3>1
    <3> QED
      BY <2>3, <3>2, SeqMonotonic
  <2>6. ht = map
    BY <2>3, <2>4, <2>5, SeqEqual
  <2>7. SubSeq(outstr, size + 1, Len(outstr)) = DbBytes
    <3>1. ReadAt(size, Len(DbBytes)) = DbBytes
      BY <2>2, <2>3, ReadIs, DbAssumption
    <3> QED
      BY <2>2, <3>1 DEF ReadAt
  <2> QED
    BY <2>6, <2>7
<1> QED
  BY <1>1, InvHolds, PTL
=============================================================================
